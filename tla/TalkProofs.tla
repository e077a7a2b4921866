----------------------------- MODULE TalkProofs -----------------------------
(***************************************************************************)
(* That talk's processes find, connect to and clear away after each other, *)
(* for any number of processes, requests lost, repeated or delayed.        *)
(*                                                                         *)
(* First the searches and the tables, then the types, then who is linked   *)
(* to whom.  The rest is about numbers: a DELETE names an invitation by    *)
(* nothing else, so the invariant says which number stands for which       *)
(* invitation, in every place a number can be.                             *)
(***************************************************************************)
EXTENDS Talk, Induction, SequenceTheorems, TLAPS

-----------------------------------------------------------------------------
(* Machines, and what a process asks of them.                              *)

Kinds == {"LEAVE_INVITE", "ANNOUNCE"}
Types == {"LOOK_UP", "LEAVE_INVITE", "ANNOUNCE", "DELETE"}
Ids == 0 .. MaxId
States == {"off", "lookup", "connect", "clear", "announce", "leave", "accept",
           "accepted", "dellocal", "delremote", "talking", "dead"}
Waits == {"lookup", "clear", "announce", "leave", "dellocal", "delremote"}
EntryType == [type : Kinds, proc : Procs, id : 1 .. MaxId - 1]
RequestType == [proc : Procs, type : Types, host : Hosts, id : Ids]
ResponseType == [proc : Procs, type : Types, ok : BOOLEAN, id : Ids,
                 addr : Procs \cup {None}]

LEMMA Machines ==
  ASSUME NEW p \in Procs
  PROVE  Mine(p) \in Hosts /\ His(p) \in Hosts
  <1>1. Owner[p] \in Users
    BY DEF Users
  <1>2. \E u \in Users : u # Owner[p]
    BY <1>1, TalkAssumption
  <1>3. Party(p) \in Users
    BY <1>2 DEF Party
  <1> QED
    BY <1>1, <1>3 DEF Hosts, Mine, His

LEMMA Asks ==
  ASSUME NEW p \in Procs, NEW id
  PROVE  /\ DOMAIN Transaction[p] = Waits
         /\ Ask(p, "lookup", id) = Request(p, "LOOK_UP", His(p), id)
         /\ Ask(p, "clear", id) = Request(p, "DELETE", His(p), id)
         /\ Ask(p, "announce", id) = Request(p, "ANNOUNCE", His(p), id)
         /\ Ask(p, "leave", id) = Request(p, "LEAVE_INVITE", Mine(p), id)
         /\ Ask(p, "dellocal", id) = Request(p, "DELETE", Mine(p), id)
         /\ Ask(p, "delremote", id) = Request(p, "DELETE", His(p), id)
  BY DEF Transaction, Ask, Waits

LEMMA WaitsFor ==
  ASSUME NEW p \in Procs
  PROVE  /\ Transaction[p]["lookup"][1] = "LOOK_UP"
         /\ Transaction[p]["clear"][1] = "DELETE"
         /\ Transaction[p]["announce"][1] = "ANNOUNCE"
         /\ Transaction[p]["leave"][1] = "LEAVE_INVITE"
         /\ Transaction[p]["dellocal"][1] = "DELETE"
         /\ Transaction[p]["delremote"][1] = "DELETE"
  BY DEF Transaction

LEMMA AskType ==
  ASSUME NEW p \in Procs, NEW s \in Waits, NEW id \in Ids
  PROVE  Ask(p, s, id) \in RequestType
  BY Asks, Machines DEF Request, RequestType, Types, Waits

-----------------------------------------------------------------------------
(* Sequences: a search, and the changes to a table.                        *)

LEMMA Least ==
  ASSUME NEW S \in SUBSET Nat, S # {} PROVE Min(S) \in S
  BY LeastElement DEF Min

LEMMA WithIdFound ==
  ASSUME NEW h, NEW id, Len(table[h]) \in Nat
  PROVE  \/ WithId(h, id) = 0 /\ \A j \in 1 .. Len(table[h]) : table[h][j].id # id
         \/ WithId(h, id) \in 1 .. Len(table[h]) /\ table[h][WithId(h, id)].id = id
  <1> DEFINE I == {i \in 1 .. Len(table[h]) : table[h][i].id = id}
  <1>1. WithId(h, id) = IF I # {} THEN Min(I) ELSE 0
    BY DEF WithId, SelectInSeq
  <1>2. I \in SUBSET Nat
    OBVIOUS
  <1>3. I # {} => Min(I) \in I
    <2> HIDE DEF I
    <2> QED
      BY <1>2, Least
  <1>4. CASE I = {}
    BY <1>1, <1>4
  <1>5. CASE I # {}
    <2>1. Min(I) \in I
      BY <1>3, <1>5
    <2> QED
      BY <1>1, <1>5, <2>1
  <1> QED
    BY <1>4, <1>5

LEMMA SameRequestFound ==
  ASSUME NEW r, Len(table[r.host]) \in Nat
  PROVE  \/ /\ SameRequest(r) = 0
            /\ \A j \in 1 .. Len(table[r.host]) :
                  ~(table[r.host][j].type = r.type /\ table[r.host][j].proc = r.proc)
         \/ /\ SameRequest(r) \in 1 .. Len(table[r.host])
            /\ table[r.host][SameRequest(r)].type = r.type
            /\ table[r.host][SameRequest(r)].proc = r.proc
  <1> DEFINE I == {i \in 1 .. Len(table[r.host]) :
                     table[r.host][i].type = r.type /\ table[r.host][i].proc = r.proc}
  <1>1. SameRequest(r) = IF I # {} THEN Min(I) ELSE 0
    BY DEF SameRequest, SelectInSeq
  <1>2. I \in SUBSET Nat
    OBVIOUS
  <1>3. I # {} => Min(I) \in I
    <2> HIDE DEF I
    <2> QED
      BY <1>2, Least
  <1>4. CASE I = {}
    BY <1>1, <1>4
  <1>5. CASE I # {}
    <2>1. Min(I) \in I
      BY <1>3, <1>5
    <2> QED
      BY <1>1, <1>5, <2>1
  <1> QED
    BY <1>4, <1>5

LEMMA MatchForFound ==
  ASSUME NEW r, Len(table[r.host]) \in Nat
  PROVE  \/ MatchFor(r) = 0
         \/ /\ MatchFor(r) \in 1 .. Len(table[r.host])
            /\ table[r.host][MatchFor(r)].type = "LEAVE_INVITE"
  <1> DEFINE I == {i \in 1 .. Len(table[r.host]) :
                     /\ table[r.host][i].type = "LEAVE_INVITE"
                     /\ Owner[table[r.host][i].proc] # Owner[r.proc]}
  <1>1. MatchFor(r) = IF I # {} THEN Min(I) ELSE 0
    BY DEF MatchFor, SelectInSeq
  <1>2. I \in SUBSET Nat
    OBVIOUS
  <1>3. I # {} => Min(I) \in I
    <2> HIDE DEF I
    <2> QED
      BY <1>2, Least
  <1>4. CASE I = {}
    BY <1>1, <1>4
  <1>5. CASE I # {}
    <2>1. Min(I) \in I
      BY <1>3, <1>5
    <2> QED
      BY <1>1, <1>5, <2>1
  <1> QED
    BY <1>4, <1>5

\* No two invitations of a table share a number, or a type and a process.
Apart(t) ==
    \A i, j \in 1 .. Len(t) : i # j =>
        /\ t[i].id # t[j].id
        /\ ~(t[i].type = t[j].type /\ t[i].proc = t[j].proc)

Holds(t, e) == \E i \in 1 .. Len(t) : t[i] = e

\* insert_table puts e in front.
LEMMA InFront ==
  ASSUME NEW t \in Seq(EntryType), NEW e \in EntryType
  PROVE  /\ <<e>> \o t \in Seq(EntryType)
         /\ \A x : Holds(<<e>> \o t, x) <=> x = e \/ Holds(t, x)
         /\ Apart(t) /\ (\A x \in EntryType : Holds(t, x) =>
                            x.id # e.id /\ ~(x.type = e.type /\ x.proc = e.proc))
               => Apart(<<e>> \o t)
  <1> DEFINE s == <<e>>
             u == s \o t
             n == Len(t)
  <1>1. s \in Seq(EntryType) /\ Len(s) = 1 /\ s[1] = e
    BY EmptySeq
  <1> HIDE DEF s
  <1>2. /\ u \in Seq(EntryType) /\ Len(u) = 1 + n /\ n \in Nat
        /\ \A i \in 1 .. 1 + n : u[i] = IF i <= 1 THEN s[i] ELSE t[i - 1]
    <2>1. /\ u \in Seq(EntryType) /\ Len(u) = Len(s) + n
          /\ \A i \in 1 .. Len(s) + n :
                u[i] = IF i <= Len(s) THEN s[i] ELSE t[i - Len(s)]
      BY <1>1, ConcatProperties
    <2>2. n \in Nat
      BY LenProperties
    <2> HIDE DEF u, n
    <2> QED
      BY <1>1, <2>1, <2>2
  <1>3. \A i \in 1 .. n : t[i] \in EntryType
    BY LenProperties
  <1> HIDE DEF u, n
  <1>4. u[1] = e /\ \A i \in 1 .. n : u[i + 1] = t[i]
    <2>1. 1 \in 1 .. 1 + n
      BY <1>2
    <2>2. ASSUME NEW i \in 1 .. n PROVE u[i + 1] = t[i]
      <3>1. i + 1 \in 1 .. 1 + n /\ ~(i + 1 <= 1) /\ (i + 1) - 1 = i
        BY <1>2
      <3> QED
        BY <1>2, <3>1
    <2> QED
      BY <1>1, <1>2, <2>1, <2>2
  <1>5. \A i \in 1 .. 1 + n : i = 1 \/ (i - 1 \in 1 .. n /\ u[i] = t[i - 1])
    BY <1>2
  <1>6. ASSUME NEW x PROVE Holds(u, x) <=> x = e \/ Holds(t, x)
    <2>1. 1 \in 1 .. 1 + n /\ \A i \in 1 .. n : i + 1 \in 1 .. 1 + n
      BY <1>2
    <2>2. ASSUME Holds(u, x) PROVE x = e \/ Holds(t, x)
      <3>1. PICK i \in 1 .. 1 + n : u[i] = x
        BY <1>2, <2>2 DEF Holds
      <3>2. CASE i = 1
        BY <1>4, <3>1, <3>2
      <3>3. CASE i # 1
        <4>1. i - 1 \in 1 .. n /\ t[i - 1] = x
          BY <1>5, <3>1, <3>3
        <4> QED
          BY <4>1 DEF Holds, n
      <3> QED
        BY <3>2, <3>3
    <2>3. ASSUME Holds(t, x) PROVE Holds(u, x)
      <3>1. PICK i \in 1 .. n : t[i] = x
        BY <2>3 DEF Holds, n
      <3>2. i + 1 \in 1 .. 1 + n /\ u[i + 1] = x
        BY <1>4, <2>1, <3>1
      <3> QED
        BY <1>2, <3>2 DEF Holds
    <2>4. x = e => Holds(u, x)
      BY <1>2, <1>4, <2>1 DEF Holds
    <2> QED
      BY <2>2, <2>3, <2>4
  <1>7. ASSUME Apart(t), \A x \in EntryType : Holds(t, x) =>
                            x.id # e.id /\ ~(x.type = e.type /\ x.proc = e.proc)
        PROVE  Apart(u)
    <2>1. \A i \in 1 .. n : t[i].id # e.id /\ ~(t[i].type = e.type /\ t[i].proc = e.proc)
      BY <1>3, <1>7 DEF Holds, n
    <2>2. \A i, j \in 1 .. n : i # j =>
             t[i].id # t[j].id /\ ~(t[i].type = t[j].type /\ t[i].proc = t[j].proc)
      BY <1>7 DEF Apart, n
    <2> SUFFICES ASSUME NEW i \in 1 .. 1 + n, NEW j \in 1 .. 1 + n, i # j
                 PROVE  /\ u[i].id # u[j].id
                        /\ ~(u[i].type = u[j].type /\ u[i].proc = u[j].proc)
      BY <1>2 DEF Apart
    <2>3. CASE i = 1
      <3>1. j - 1 \in 1 .. n /\ u[j] = t[j - 1]
        BY <1>5, <2>3
      <3> QED
        BY <1>4, <2>1, <2>3, <3>1
    <2>4. CASE j = 1
      <3>1. i - 1 \in 1 .. n /\ u[i] = t[i - 1]
        BY <1>5, <2>4
      <3> QED
        BY <1>4, <2>1, <2>4, <3>1
    <2>5. CASE i # 1 /\ j # 1
      <3>1. i - 1 \in 1 .. n /\ u[i] = t[i - 1] /\ j - 1 \in 1 .. n /\ u[j] = t[j - 1]
        BY <1>5, <2>5
      <3>2. i - 1 # j - 1
        BY <1>2
      <3> QED
        BY <2>2, <3>1, <3>2
    <2> QED
      BY <2>3, <2>4, <2>5
  <1> QED
    BY <1>2, <1>6, <1>7 DEF u, s

\* The invitation at place k gets another number.
LEMMA Renumbered ==
  ASSUME NEW t \in Seq(EntryType), NEW k \in 1 .. Len(t), NEW id \in 1 .. MaxId - 1
  PROVE  LET u == [t EXCEPT ![k].id = id]
             e == [type |-> t[k].type, proc |-> t[k].proc, id |-> id]
         IN  /\ u \in Seq(EntryType) /\ e \in EntryType
             /\ \A x : Holds(u, x) => x = e \/ Holds(t, x)
             /\ \A x : Holds(t, x) => x = t[k] \/ Holds(u, x)
             /\ Holds(u, e)
             /\ Apart(t) /\ (\A x \in EntryType : Holds(t, x) => x.id # id) => Apart(u)
  <1> DEFINE u == [t EXCEPT ![k].id = id]
             e == [type |-> t[k].type, proc |-> t[k].proc, id |-> id]
             n == Len(t)
  <1>1. n \in Nat /\ \A i \in 1 .. n : t[i] \in EntryType
    BY LenProperties
  <1>2. e \in EntryType /\ e = [t[k] EXCEPT !.id = id]
    BY <1>1 DEF EntryType
  <1>3. u = [t EXCEPT ![k] = e]
    BY <1>2
  <1>4. e.id = id /\ e.type = t[k].type /\ e.proc = t[k].proc
    OBVIOUS
  <1> HIDE DEF e, u
  <1>5. /\ u \in Seq(EntryType) /\ Len(u) = n
        /\ \A j \in 1 .. n : u[j] = IF j = k THEN e ELSE t[j]
    BY <1>2, <1>3, ExceptSeq
  <1>6. Apart(t) /\ (\A x \in EntryType : Holds(t, x) => x.id # id) => Apart(u)
    <2> SUFFICES ASSUME Apart(t), \A x \in EntryType : Holds(t, x) => x.id # id,
                        NEW i \in 1 .. n, NEW j \in 1 .. n, i # j
                 PROVE  /\ u[i].id # u[j].id
                        /\ ~(u[i].type = u[j].type /\ u[i].proc = u[j].proc)
      BY <1>5 DEF Apart
    <2>1. t[i].id # id /\ t[j].id # id
      BY <1>1 DEF Holds
    <2>2. t[i].id # t[j].id /\ ~(t[i].type = t[j].type /\ t[i].proc = t[j].proc)
      BY DEF Apart
    <2> QED
      BY <1>4, <1>5, <2>1, <2>2
  <1> QED
    BY <1>2, <1>5, <1>6 DEF Holds, u, e

\* delete removes the one at place k.
LEMMA Removed ==
  ASSUME NEW t \in Seq(EntryType), NEW k \in 1 .. Len(t)
  PROVE  /\ RemoveAt(t, k) \in Seq(EntryType)
         /\ \A x : Holds(RemoveAt(t, k), x) => Holds(t, x)
         /\ \A x : Holds(t, x) => x = t[k] \/ Holds(RemoveAt(t, k), x)
         /\ Apart(t) => Apart(RemoveAt(t, k))
         /\ Apart(t) => \A x : Holds(RemoveAt(t, k), x) => x.id # t[k].id
  <1> DEFINE n == Len(t)
             a == SubSeq(t, 1, k - 1)
             b == SubSeq(t, k + 1, n)
             u == a \o b
  <1>1. n \in Nat /\ k \in 1 .. n /\ \A i \in 1 .. n : t[i] \in EntryType
    BY LenProperties
  <1> HIDE DEF n
  <1>2. /\ a \in Seq(EntryType) /\ Len(a) = k - 1
        /\ \A i \in 1 .. k - 1 : a[i] = t[i]
    <2>1. /\ 1 \in Int /\ k - 1 \in Int
          /\ \A i \in 1 .. k - 1 : t[i] \in EntryType
      BY <1>1
    <2>2. /\ a \in Seq(EntryType)
          /\ Len(a) = IF 1 <= k - 1 THEN (k - 1) - 1 + 1 ELSE 0
          /\ \A i \in 1 .. (k - 1) - 1 + 1 : a[i] = t[1 + i - 1]
      BY <2>1, SubSeqProperties
    <2> QED
      BY <1>1, <2>2
  <1>3. /\ b \in Seq(EntryType) /\ Len(b) = n - k
        /\ \A i \in 1 .. n - k : b[i] = t[k + i]
    <2>1. /\ k + 1 \in Int /\ n \in Int
          /\ \A i \in k + 1 .. n : t[i] \in EntryType
      BY <1>1
    <2>2. /\ b \in Seq(EntryType)
          /\ Len(b) = IF k + 1 <= n THEN n - (k + 1) + 1 ELSE 0
          /\ \A i \in 1 .. n - (k + 1) + 1 : b[i] = t[(k + 1) + i - 1]
      BY <2>1, SubSeqProperties
    <2>3. ASSUME NEW i \in 1 .. n - k PROVE b[i] = t[k + i]
      <3>1. i \in 1 .. n - (k + 1) + 1 /\ (k + 1) + i - 1 = k + i
        BY <1>1
      <3> QED
        BY <2>2, <3>1
    <2> QED
      BY <1>1, <2>2, <2>3
  <1> HIDE DEF a, b
  <1>4. /\ u \in Seq(EntryType) /\ Len(u) = Len(a) + Len(b)
        /\ \A i \in 1 .. Len(a) + Len(b) : u[i] = IF i <= Len(a) THEN a[i] ELSE b[i - Len(a)]
    BY <1>2, <1>3, ConcatProperties
  <1> HIDE DEF u
  <1>5. /\ Len(u) = n - 1
        /\ \A i \in 1 .. n - 1 : u[i] = IF i < k THEN t[i] ELSE t[i + 1]
    <2>1. Len(a) + Len(b) = n - 1
      BY <1>1, <1>2, <1>3
    <2>2. ASSUME NEW i \in 1 .. n - 1, i < k PROVE u[i] = t[i]
      <3>1. i \in 1 .. k - 1 /\ i <= Len(a) /\ i \in 1 .. Len(a) + Len(b)
        BY <1>1, <1>2, <2>1, <2>2
      <3> QED
        BY <1>2, <1>4, <3>1
    <2>3. ASSUME NEW i \in 1 .. n - 1, ~(i < k) PROVE u[i] = t[i + 1]
      <3>1. /\ i - Len(a) \in 1 .. n - k /\ ~(i <= Len(a)) /\ i \in 1 .. Len(a) + Len(b)
            /\ k + (i - Len(a)) = i + 1
        BY <1>1, <1>2, <2>1, <2>3
      <3> QED
        BY <1>3, <1>4, <3>1
    <2> QED
      BY <1>4, <2>1, <2>2, <2>3
  <1> DEFINE at(i) == IF i < k THEN i ELSE i + 1
  <1>6. \A i \in 1 .. n - 1 : at(i) \in 1 .. n /\ at(i) # k /\ u[i] = t[at(i)]
    BY <1>1, <1>5
  <1>7. \A i, j \in 1 .. n - 1 : i # j => at(i) # at(j)
    BY <1>1
  <1>8. \A j \in 1 .. n : j = k \/ \E i \in 1 .. n - 1 : at(i) = j
    <2> SUFFICES ASSUME NEW j \in 1 .. n, j # k PROVE \E i \in 1 .. n - 1 : at(i) = j
      OBVIOUS
    <2>1. CASE j < k
      <3>1. j \in 1 .. n - 1 /\ at(j) = j
        BY <1>1, <2>1
      <3> QED
        BY <3>1
    <2>2. CASE ~(j < k)
      <3>1. j - 1 \in 1 .. n - 1 /\ at(j - 1) = j
        BY <1>1, <2>2
      <3> QED
        BY <3>1
    <2> QED
      BY <2>1, <2>2
  <1> HIDE DEF at
  <1>9. \A x : Holds(u, x) => Holds(t, x)
    BY <1>5, <1>6 DEF Holds, n
  <1>10. ASSUME NEW x, Holds(t, x) PROVE x = t[k] \/ Holds(u, x)
    <2>1. PICK j \in 1 .. n : t[j] = x
      BY <1>10 DEF Holds, n
    <2>2. CASE j = k
      BY <2>1, <2>2
    <2>3. CASE j # k
      <3>1. PICK i \in 1 .. n - 1 : at(i) = j
        BY <1>8, <2>3
      <3> QED
        BY <1>5, <1>6, <2>1, <3>1 DEF Holds
    <2> QED
      BY <2>2, <2>3
  <1>11. ASSUME Apart(t) PROVE Apart(u)
    <2> SUFFICES ASSUME NEW i \in 1 .. n - 1, NEW j \in 1 .. n - 1, i # j
                 PROVE  /\ u[i].id # u[j].id
                        /\ ~(u[i].type = u[j].type /\ u[i].proc = u[j].proc)
      BY <1>5 DEF Apart
    <2>1. /\ at(i) \in 1 .. n /\ at(j) \in 1 .. n /\ at(i) # at(j)
          /\ u[i] = t[at(i)] /\ u[j] = t[at(j)]
      BY <1>6, <1>7
    <2> QED
      BY <1>11, <2>1 DEF Apart, n
  <1>12. Apart(t) => \A x : Holds(u, x) => x.id # t[k].id
    BY <1>1, <1>5, <1>6 DEF Apart, Holds, n
  <1>13. RemoveAt(t, k) = u
    BY DEF RemoveAt, u, a, b, n
  <1> QED
    BY <1>4, <1>9, <1>10, <1>11, <1>12, <1>13

-----------------------------------------------------------------------------
(* What the daemon does with a request.                                    *)

\* The numbers of ANNOUNCE requests are the only ones that reach MAX_ID.
TypeInv ==
    /\ faults \in 0 .. MaxFaults
    /\ table \in [Hosts -> Seq(EntryType)] /\ lastId \in [Hosts -> 0 .. MaxId - 1]
    /\ exited \subseteq Hosts
    /\ requests \subseteq RequestType
    /\ responses \subseteq ResponseType /\ \A m \in responses : m.id < MaxId
    /\ pc \in [Procs -> States] /\ msgId \in [Procs -> Ids]
    /\ localId \in [Procs -> Ids]
    /\ remoteId \in [Procs -> Ids] /\ \A p \in Procs : remoteId[p] < MaxId
    /\ deaf \subseteq Procs /\ blocked \subseteq Procs
    /\ partner \in [Procs -> Procs \cup {None}]
    /\ link \in [Procs -> {"none", "queued", "open", "forgotten", "closed"}]

Entry(t, p, i) == [type |-> t, proc |-> p, id |-> i]

LEMMA TypeFacts ==
  ASSUME TypeInv
  PROVE  /\ faults \in 0 .. MaxFaults
         /\ table \in [Hosts -> Seq(EntryType)] /\ lastId \in [Hosts -> 0 .. MaxId - 1]
         /\ \A h \in Hosts : /\ table[h] \in Seq(EntryType) /\ Len(table[h]) \in Nat
                             /\ \A i \in 1 .. Len(table[h]) : table[h][i] \in EntryType
                             /\ lastId[h] \in 0 .. MaxId - 1
         /\ requests \subseteq RequestType /\ responses \subseteq ResponseType
  <1>1. table \in [Hosts -> Seq(EntryType)]
    BY DEF TypeInv
  <1>2. ASSUME NEW h \in Hosts
        PROVE  /\ table[h] \in Seq(EntryType) /\ Len(table[h]) \in Nat
               /\ \A i \in 1 .. Len(table[h]) : table[h][i] \in EntryType
    <2> DEFINE t == table[h]
    <2>1. t \in Seq(EntryType)
      BY <1>1
    <2> HIDE DEF t
    <2>2. Len(t) \in Nat /\ \A i \in 1 .. Len(t) : t[i] \in EntryType
      BY <2>1, LenProperties
    <2> QED
      BY <2>1, <2>2 DEF t
  <1> QED
    BY <1>1, <1>2 DEF TypeInv

LEMMA NewIdType ==
  ASSUME TypeInv, NEW h \in Hosts
  PROVE  /\ NewId(h) \in 1 .. MaxId - 1
         /\ lastId[h] < MaxId - 1 => NewId(h) = lastId[h] + 1
  <1> DEFINE n == lastId[h]
             k == MaxId
  <1>1. n \in 0 .. k - 1 /\ k \in Nat /\ k > 1
    BY TypeFacts, TalkAssumption
  <1>2. NewId(h) = IF (n + 1) % k = 0 THEN 1 ELSE (n + 1) % k
    BY DEF NewId
  <1> HIDE DEF n, k
  <1>3. CASE n + 1 = k
    <2>1. (n + 1) % k = 0
      BY <1>1, <1>3
    <2> QED
      BY <1>1, <1>2, <1>3, <2>1 DEF n, k
  <1>4. CASE n + 1 # k
    <2>1. (n + 1) % k = n + 1
      BY <1>1, <1>4
    <2> QED
      BY <1>1, <1>2, <1>4, <2>1 DEF n, k
  <1> QED
    BY <1>3, <1>4

\* What becomes of the table the request r goes to, and of r's sender by the
\* answer m.
Tabled(r, m) ==
    LET t == table[r.host]
        u == table'[r.host]
        new == Entry(r.type, r.proc, NewId(r.host)) IN
    /\ table' \in [Hosts -> Seq(EntryType)] /\ lastId' \in [Hosts -> 0 .. MaxId - 1]
    /\ \A h \in Hosts : h # r.host => table'[h] = table[h] /\ lastId'[h] = lastId[h]
    /\ \A e : Holds(u, e) =>
          \/ Holds(t, e)
          \/ lastId'[r.host] = NewId(r.host) /\ r.type \in Kinds /\ e = new
    /\ \A e : Holds(t, e) =>
          \/ Holds(u, e)
          \/ r.type = "DELETE" /\ e.id = r.id
          \/ r.type = "ANNOUNCE" /\ e.type = r.type /\ e.proc = r.proc
    /\ lastId'[r.host] \in {lastId[r.host], NewId(r.host)}
    /\ Apart(t) /\ (\A e \in EntryType : Holds(t, e) => e.id # NewId(r.host)) => Apart(u)
    /\ r.type = "DELETE" /\ Apart(t) => \A e : Holds(u, e) => e.id # r.id
    /\ r.type = "LEAVE_INVITE" => Holds(u, Entry(r.type, r.proc, m.id))
    /\ r.type = "ANNOUNCE" => \/ m.ok /\ Holds(u, Entry(r.type, r.proc, m.id))
                              \/ ~m.ok /\ faults' # faults
                                 /\ (m.id = 0 \/ Holds(u, Entry(r.type, r.proc, m.id)))
    /\ r.type = "LOOK_UP" /\ m.ok =>
          m.addr \in Procs /\ Holds(t, Entry("LEAVE_INVITE", m.addr, m.id))

Handled(r, m) ==
    /\ requests' = requests \ {r} /\ responses' = responses \cup {m}
    /\ m \in ResponseType /\ m.id < MaxId /\ m.proc = r.proc /\ m.type = r.type
    /\ faults' \in 0 .. MaxFaults /\ faults' >= faults
    /\ UNCHANGED <<exited, pc, idVars, alarmVars, connVars>>
    /\ Tabled(r, m)

LEMMA Refuses ==
  ASSUME TypeInv, NEW r \in RequestType
  PROVE  [proc |-> r.proc, type |-> r.type, ok |-> FALSE, id |-> 0, addr |-> None]
            \in ResponseType
  BY TalkAssumption DEF RequestType, ResponseType, Ids

LEMMA HoldsAt ==
  ASSUME TypeInv, NEW h \in Hosts, NEW k \in 1 .. Len(table[h])
  PROVE  /\ table[h][k] \in EntryType /\ Holds(table[h], table[h][k])
         /\ table[h][k] = Entry(table[h][k].type, table[h][k].proc, table[h][k].id)
  BY TypeFacts DEF Holds, EntryType, Entry

LEMMA LookUpHandled ==
  ASSUME TypeInv, NEW r \in requests, LookUp(r), requests' = requests \ {r},
         UNCHANGED <<exited, pc, idVars, alarmVars, connVars>>
  PROVE  \E m : Handled(r, m)
  <1> DEFINE k == MatchFor(r)
             e == table[r.host][k]
             no == [proc |-> r.proc, type |-> r.type, ok |-> FALSE, id |-> 0, addr |-> None]
             yes == [proc |-> r.proc, type |-> r.type, ok |-> TRUE, id |-> e.id, addr |-> e.proc]
  <1>1. r \in RequestType /\ r.host \in Hosts /\ r.type = "LOOK_UP"
    BY TypeFacts DEF RequestType, LookUp
  <1>2. \A m : m \in {no, yes} /\ responses' = responses \cup {m} /\ m \in ResponseType
               /\ m.id < MaxId
               /\ (m.ok => m.addr \in Procs /\
                     Holds(table[r.host], Entry("LEAVE_INVITE", m.addr, m.id)))
               => Handled(r, m)
    BY <1>1, TypeFacts DEF Handled, Tabled, LookUp, Kinds
  <1>3. CASE k = 0
    <2>1. responses' = responses \cup {no} /\ no \in ResponseType
      BY <1>1, <1>3, Refuses DEF LookUp, Respond
    <2>2. no.id < MaxId /\ ~no.ok
      BY TalkAssumption
    <2> HIDE DEF no, yes
    <2> QED
      BY <1>2, <2>1, <2>2
  <1>4. CASE k # 0
    <2>1. k \in 1 .. Len(table[r.host]) /\ e.type = "LEAVE_INVITE"
      BY <1>1, <1>4, MatchForFound, TypeFacts
    <2>2. e \in EntryType /\ Holds(table[r.host], e) /\ e = Entry("LEAVE_INVITE", e.proc, e.id)
      BY <1>1, <2>1, HoldsAt
    <2>3. responses' = responses \cup {yes}
      BY <1>4 DEF LookUp, Respond
    <2> HIDE DEF e
    <2>4. /\ yes \in ResponseType /\ yes.id < MaxId /\ yes.addr \in Procs
          /\ yes.addr = e.proc /\ yes.id = e.id
      BY <1>1, <2>2, TalkAssumption DEF EntryType, ResponseType, RequestType, Ids
    <2> HIDE DEF no, yes
    <2> QED
      BY <1>2, <2>2, <2>3, <2>4
  <1> QED
    BY <1>3, <1>4

LEMMA NotLoggedInHandled ==
  ASSUME TypeInv, NEW r \in requests, NotLoggedIn(r), requests' = requests \ {r},
         UNCHANGED <<exited, pc, idVars, alarmVars, connVars>>
  PROVE  \E m : Handled(r, m)
  <1> DEFINE no == [proc |-> r.proc, type |-> r.type, ok |-> FALSE, id |-> 0, addr |-> None]
  <1>1. r \in RequestType /\ r.host \in Hosts /\ r.type = "ANNOUNCE"
    BY TypeFacts DEF RequestType, NotLoggedIn
  <1>2. /\ responses' = responses \cup {no} /\ no \in ResponseType /\ no.id < MaxId
        /\ ~no.ok /\ no.id = 0 /\ no.proc = r.proc /\ no.type = r.type
    BY <1>1, Refuses, TalkAssumption DEF NotLoggedIn, Respond
  <1>3. faults' \in 0 .. MaxFaults /\ faults' >= faults /\ faults' # faults
    BY TypeFacts, TalkAssumption DEF NotLoggedIn, Fault
  <1> HIDE DEF no
  <1>4. Handled(r, no)
    BY <1>1, <1>2, <1>3, TypeFacts DEF Handled, Tabled, NotLoggedIn, Kinds
  <1> QED
    BY <1>4

\* The table with a new invitation in front.
LEMMA InsertTabled ==
  ASSUME TypeInv, NEW r \in requests, r.type \in Kinds, Insert(r), SameRequest(r) = 0,
         NEW m, m.id = NewId(r.host),
         r.type = "ANNOUNCE" => m.ok \/ faults' # faults, m.ok \in BOOLEAN
  PROVE  Tabled(r, m)
  <1> DEFINE t == table[r.host]
             e == Entry(r.type, r.proc, NewId(r.host))
             u == <<e>> \o t
  <1>1. r \in RequestType /\ r.host \in Hosts /\ t \in Seq(EntryType)
    BY TypeFacts DEF RequestType
  <1>2. NewId(r.host) \in 1 .. MaxId - 1
    BY <1>1, NewIdType
  <1>3. e \in EntryType /\ e.type = r.type /\ e.proc = r.proc /\ e.id = NewId(r.host)
    BY <1>1, <1>2 DEF Entry, EntryType, RequestType
  <1>4. table' = [table EXCEPT ![r.host] = u] /\ lastId' = [lastId EXCEPT ![r.host] = NewId(r.host)]
    BY DEF Insert, Entry
  <1>5. \A x \in EntryType : Holds(t, x) => ~(x.type = r.type /\ x.proc = r.proc)
    <2>1. SameRequest(r) \notin 1 .. Len(table[r.host])
      BY <1>1, TypeFacts
    <2>2. \A j \in 1 .. Len(table[r.host]) :
             ~(table[r.host][j].type = r.type /\ table[r.host][j].proc = r.proc)
      BY <1>1, <2>1, TypeFacts, SameRequestFound
    <2> QED
      BY <2>2 DEF Holds
  <1> HIDE DEF e, t
  <1>6. /\ u \in Seq(EntryType)
        /\ \A x : Holds(u, x) <=> x = e \/ Holds(t, x)
        /\ Apart(t) /\ (\A x \in EntryType : Holds(t, x) =>
                           x.id # e.id /\ ~(x.type = e.type /\ x.proc = e.proc)) => Apart(u)
    BY <1>1, <1>3, InFront
  <1> HIDE DEF u
  <1>7. /\ table'[r.host] = u /\ lastId'[r.host] = NewId(r.host)
        /\ \A h \in Hosts : h # r.host => table'[h] = table[h] /\ lastId'[h] = lastId[h]
        /\ table' \in [Hosts -> Seq(EntryType)] /\ lastId' \in [Hosts -> 0 .. MaxId - 1]
    BY <1>1, <1>2, <1>4, <1>6, TypeFacts, TalkAssumption
  <1>8. Apart(t) /\ (\A x \in EntryType : Holds(t, x) => x.id # NewId(r.host)) => Apart(u)
    BY <1>3, <1>5, <1>6
  <1>9. Holds(u, e) /\ (\A x : Holds(t, x) => Holds(u, x))
        /\ \A x : Holds(u, x) => Holds(t, x) \/ x = e
    BY <1>6
  <1>10. r.type # "DELETE" /\ r.type # "LOOK_UP"
    BY DEF Kinds
  <1>11. Holds(u, Entry(r.type, r.proc, m.id)) /\ e = Entry(r.type, r.proc, NewId(r.host))
    BY <1>9 DEF e
  <1> QED
    BY <1>7, <1>8, <1>9, <1>10, <1>11 DEF Tabled, t

\* The table as it is.
LEMMA SameTabled ==
  ASSUME TypeInv, NEW r \in requests, r.type \in Kinds, UNCHANGED <<table, lastId>>,
         NEW k \in 1 .. Len(table[r.host]), table[r.host][k].type = r.type,
         table[r.host][k].proc = r.proc,
         NEW m, m.id = table[r.host][k].id, m.ok = TRUE
  PROVE  Tabled(r, m)
  <1>1. r \in RequestType /\ r.host \in Hosts
    BY TypeFacts DEF RequestType
  <1>2. Holds(table[r.host], Entry(r.type, r.proc, m.id))
    BY <1>1, HoldsAt
  <1>3. r.type # "DELETE" /\ r.type # "LOOK_UP"
    BY DEF Kinds
  <1> QED
    BY <1>1, <1>2, <1>3, TypeFacts DEF Tabled

LEMMA LeaveInviteHandled ==
  ASSUME TypeInv, NEW r \in requests, LeaveInvite(r), requests' = requests \ {r},
         UNCHANGED <<exited, pc, idVars, alarmVars, connVars>>
  PROVE  \E m : Handled(r, m)
  <1> DEFINE k == SameRequest(r)
             yes(i) == [proc |-> r.proc, type |-> r.type, ok |-> TRUE, id |-> i, addr |-> None]
  <1>1. r \in RequestType /\ r.host \in Hosts /\ r.type = "LEAVE_INVITE" /\ r.type \in Kinds
    BY TypeFacts DEF RequestType, LeaveInvite, Kinds
  <1>2. \A i \in 1 .. MaxId - 1 : /\ yes(i) \in ResponseType /\ yes(i).id = i /\ yes(i).id < MaxId
                                  /\ yes(i).proc = r.proc /\ yes(i).type = r.type
                                  /\ yes(i).ok = TRUE
    BY <1>1, TalkAssumption DEF RequestType, ResponseType, Ids
  <1>3. faults' \in 0 .. MaxFaults /\ faults' >= faults
    BY TypeFacts, TalkAssumption DEF LeaveInvite
  <1>4. CASE k = 0
    <2>1. Insert(r) /\ responses' = responses \cup {yes(NewId(r.host))}
      BY <1>4 DEF LeaveInvite, Respond
    <2>2. NewId(r.host) \in 1 .. MaxId - 1
      BY <1>1, NewIdType
    <2> HIDE DEF yes
    <2>3. Tabled(r, yes(NewId(r.host)))
      BY <1>1, <1>2, <1>4, <2>1, <2>2, InsertTabled
    <2> QED
      BY <1>2, <1>3, <2>1, <2>2, <2>3 DEF Handled
  <1>5. CASE k # 0
    <2>1. /\ k \in 1 .. Len(table[r.host])
          /\ table[r.host][k].type = r.type /\ table[r.host][k].proc = r.proc
      BY <1>1, <1>5, SameRequestFound, TypeFacts
    <2>2. table[r.host][k].id \in 1 .. MaxId - 1
      BY <1>1, <2>1, TypeFacts DEF EntryType
    <2>3. /\ UNCHANGED <<table, lastId>>
          /\ responses' = responses \cup {yes(table[r.host][k].id)}
      BY <1>5 DEF LeaveInvite, Respond
    <2> HIDE DEF yes, k
    <2>4. Tabled(r, yes(table[r.host][k].id))
      BY <1>1, <1>2, <2>1, <2>2, <2>3, SameTabled
    <2> QED
      BY <1>2, <1>3, <2>2, <2>3, <2>4 DEF Handled
  <1> QED
    BY <1>4, <1>5

LEMMA AnnounceHandled ==
  ASSUME TypeInv, NEW r \in requests, NEW heard \in BOOLEAN, Announce(r, heard),
         requests' = requests \ {r}, UNCHANGED <<exited, pc, idVars, alarmVars, connVars>>
  PROVE  \E m : Handled(r, m)
  <1> DEFINE k == SameRequest(r)
             re(b, i) == [proc |-> r.proc, type |-> r.type, ok |-> b, id |-> i, addr |-> None]
  <1>1. r \in RequestType /\ r.host \in Hosts /\ r.type = "ANNOUNCE" /\ r.type \in Kinds
    BY TypeFacts DEF RequestType, Announce, Kinds
  <1>2. \A b \in BOOLEAN, i \in 1 .. MaxId - 1 :
           /\ re(b, i) \in ResponseType /\ re(b, i).id = i /\ re(b, i).id < MaxId
           /\ re(b, i).proc = r.proc /\ re(b, i).type = r.type /\ re(b, i).ok = b
    BY <1>1, TalkAssumption DEF RequestType, ResponseType, Ids
  <1>3. faults' \in 0 .. MaxFaults /\ faults' >= faults /\ (heard \/ faults' # faults)
    BY TypeFacts, TalkAssumption DEF Announce, Fault
  <1>4. NewId(r.host) \in 1 .. MaxId - 1
    BY <1>1, NewIdType
  <1>5. CASE k = 0
    <2>1. Insert(r) /\ responses' = responses \cup {re(heard, NewId(r.host))}
      BY <1>5 DEF Announce, Respond
    <2> HIDE DEF re
    <2>2. Tabled(r, re(heard, NewId(r.host)))
      BY <1>1, <1>2, <1>3, <1>4, <1>5, <2>1, InsertTabled
    <2> QED
      BY <1>2, <1>3, <1>4, <2>1, <2>2 DEF Handled
  <1>6. CASE k # 0 /\ r.id > table[r.host][k].id
    <2> DEFINE t == table[r.host]
               n == NewId(r.host)
               u == [t EXCEPT ![k].id = n]
               e == Entry(t[k].type, t[k].proc, n)
    <2>1. /\ k \in 1 .. Len(t) /\ t[k].type = r.type /\ t[k].proc = r.proc
          /\ t \in Seq(EntryType) /\ t[k] \in EntryType
      BY <1>1, <1>6, SameRequestFound, TypeFacts
    <2>2. /\ responses' = responses \cup {re(heard, n)}
          /\ table' = [table EXCEPT ![r.host][k].id = n]
          /\ lastId' = [lastId EXCEPT ![r.host] = n]
      <3>1. r.id \in Int /\ t[k].id \in Int
        BY <1>1, <2>1, TalkAssumption DEF EntryType, RequestType, Ids
      <3>2. ~(r.id <= table[r.host][k].id)
        BY <1>6, <3>1
      <3> QED
        BY <1>6, <3>2 DEF Announce, Respond
    <2>3. table' = [table EXCEPT ![r.host] = u]
      BY <2>2
    <2> HIDE DEF re, k
    <2>4. /\ u \in Seq(EntryType) /\ e \in EntryType
          /\ \A x : Holds(u, x) => x = e \/ Holds(t, x)
          /\ \A x : Holds(t, x) => x = t[k] \/ Holds(u, x)
          /\ Holds(u, e)
          /\ Apart(t) /\ (\A x \in EntryType : Holds(t, x) => x.id # n) => Apart(u)
      <3> HIDE DEF t, n
      <3> QED
        BY <1>4, <2>1, Renumbered DEF Entry, n
    <2>5. e = Entry(r.type, r.proc, n)
      BY <2>1
    <2> HIDE DEF u, e
    <2>6. /\ table'[r.host] = u /\ lastId'[r.host] = n
          /\ \A h \in Hosts : h # r.host => table'[h] = table[h] /\ lastId'[h] = lastId[h]
          /\ table' \in [Hosts -> Seq(EntryType)] /\ lastId' \in [Hosts -> 0 .. MaxId - 1]
      <3>1. n \in 0 .. MaxId - 1
        BY <1>4, TalkAssumption
      <3> HIDE DEF n, t
      <3> QED
        BY <1>1, <2>2, <2>3, <2>4, <3>1, TypeFacts
    <2>7. re(heard, n).id = n /\ re(heard, n).ok = heard
      BY <1>2, <1>4
    <2>8. Tabled(r, re(heard, n))
      BY <1>1, <1>3, <2>1, <2>4, <2>5, <2>6, <2>7 DEF Tabled
    <2> QED
      BY <1>2, <1>3, <1>4, <2>2, <2>8 DEF Handled
  <1>7. CASE k # 0 /\ r.id <= table[r.host][k].id
    <2>1. /\ k \in 1 .. Len(table[r.host])
          /\ table[r.host][k].type = r.type /\ table[r.host][k].proc = r.proc
      BY <1>1, <1>7, SameRequestFound, TypeFacts
    <2>2. table[r.host][k].id \in 1 .. MaxId - 1
      BY <1>1, <2>1, TypeFacts DEF EntryType
    <2>3. /\ UNCHANGED <<table, lastId>>
          /\ responses' = responses \cup {re(TRUE, table[r.host][k].id)}
      BY <1>1, <1>7, <2>2 DEF Announce, Respond, RequestType, Ids
    <2> HIDE DEF re, k
    <2>4. Tabled(r, re(TRUE, table[r.host][k].id))
      BY <1>1, <1>2, <2>1, <2>2, <2>3, SameTabled
    <2> QED
      BY <1>2, <1>3, <2>2, <2>3, <2>4 DEF Handled
  <1> QED
    BY <1>5, <1>6, <1>7 DEF Announce

LEMMA DeleteHandled ==
  ASSUME TypeInv, NEW r \in requests, Delete(r), requests' = requests \ {r},
         UNCHANGED <<exited, pc, idVars, alarmVars, connVars>>
  PROVE  \E m : Handled(r, m)
  <1> DEFINE k == WithId(r.host, r.id)
             t == table[r.host]
             m == [proc |-> r.proc, type |-> r.type, ok |-> k # 0, id |-> 0, addr |-> None]
  <1>1. r \in RequestType /\ r.host \in Hosts /\ r.type = "DELETE" /\ r.type \notin Kinds
    BY TypeFacts DEF RequestType, Delete, Kinds
  <1>2. /\ m \in ResponseType /\ m.id < MaxId /\ m.proc = r.proc /\ m.type = r.type
        /\ responses' = responses \cup {m}
    <2>1. (k # 0) \in BOOLEAN
      OBVIOUS
    <2> HIDE DEF k
    <2> QED
      BY <1>1, <2>1, TalkAssumption DEF RequestType, ResponseType, Ids, Delete, Respond, k
  <1>3. faults' \in 0 .. MaxFaults /\ faults' >= faults /\ lastId' = lastId
    BY TypeFacts, TalkAssumption DEF Delete
  <1> HIDE DEF m
  <1>4. CASE k = 0
    <2>1. table' = table
      BY <1>1, <1>4, TypeFacts DEF Delete
    <2>2. \A x : Holds(t, x) => x.id # r.id
      BY <1>1, <1>4, WithIdFound, TypeFacts DEF Holds
    <2>3. Tabled(r, m)
      BY <1>1, <1>3, <2>1, <2>2, TypeFacts DEF Tabled
    <2> QED
      BY <1>2, <1>3, <2>3 DEF Handled
  <1>5. CASE k # 0
    <2> DEFINE u == RemoveAt(t, k)
    <2>1. table' = [table EXCEPT ![r.host] = u]
      BY <1>5 DEF Delete
    <2>2. k \in 1 .. Len(t) /\ t[k].id = r.id /\ t \in Seq(EntryType)
      BY <1>1, <1>5, WithIdFound, TypeFacts
    <2> HIDE DEF k, t
    <2>3. /\ u \in Seq(EntryType)
          /\ \A x : Holds(u, x) => Holds(t, x)
          /\ \A x : Holds(t, x) => x = t[k] \/ Holds(u, x)
          /\ Apart(t) => Apart(u)
          /\ Apart(t) => \A x : Holds(u, x) => x.id # t[k].id
      BY <2>2, Removed
    <2> HIDE DEF u
    <2>4. /\ table'[r.host] = u
          /\ \A h \in Hosts : h # r.host => table'[h] = table[h]
          /\ table' \in [Hosts -> Seq(EntryType)]
      BY <1>1, <2>1, <2>3, TypeFacts
    <2>5. Tabled(r, m)
      BY <1>1, <1>3, <2>2, <2>3, <2>4, TypeFacts DEF Tabled, t
    <2> QED
      BY <1>2, <1>3, <2>5 DEF Handled
  <1> QED
    BY <1>4, <1>5

LEMMA HandleHandled ==
  ASSUME TypeInv, NEW r \in requests, Handle(r)
  PROVE  \E m : Handled(r, m)
  BY LookUpHandled, LeaveInviteHandled, NotLoggedInHandled, AnnounceHandled, DeleteHandled
     DEF Handle

-----------------------------------------------------------------------------
(* The types.                                                              *)

\* What every action of a process leaves as it is; those of Die and of Begin.
LEMMA BeginType ==
  ASSUME TypeInv, NEW p \in Procs, NEW s \in Waits, NEW id \in Ids,
         NEW rest, rest \subseteq responses, Begin(p, s, id, rest)
  PROVE  /\ pc' \in [Procs -> States] /\ msgId' \in [Procs -> Ids]
         /\ requests' \subseteq RequestType /\ responses' \subseteq ResponseType
         /\ \A m \in responses' : m.id < MaxId
         /\ faults' \in 0 .. MaxFaults
  <1>1. s \in States
    BY DEF Waits, States
  <1>2. Ask(p, s, id) \in RequestType
    BY AskType
  <1> QED
    BY <1>1, <1>2 DEF Begin, TypeInv

LEMMA RepeatType ==
  ASSUME TypeInv, NEW p \in Procs, Transacting(p), Repeat(p)
  PROVE  requests' \subseteq RequestType /\ faults' \in 0 .. MaxFaults
  <1>1. pc[p] \in Waits /\ msgId[p] \in Ids
    BY Asks DEF Transacting, TypeInv
  <1>2. Ask(p, pc[p], msgId[p]) \in RequestType
    BY <1>1, AskType
  <1>3. faults' \in 0 .. MaxFaults
    BY TalkAssumption DEF Repeat, Fault, TypeInv
  <1> QED
    BY <1>2, <1>3 DEF Repeat, TypeInv

LEMMA DieType ==
  ASSUME TypeInv, NEW p \in Procs, Die(p)
  PROVE  /\ pc' \in [Procs -> States] /\ msgId' \in [Procs -> Ids]
         /\ localId' \in [Procs -> Ids] /\ remoteId' \in [Procs -> Ids]
         /\ \A q \in Procs : remoteId'[q] < MaxId
         /\ blocked' \subseteq Procs /\ responses' \subseteq ResponseType
         /\ \A m \in responses' : m.id < MaxId
         /\ link' \in [Procs -> {"none", "queued", "open", "forgotten", "closed"}]
         /\ partner' \in [Procs -> Procs \cup {None}]
  <1>1. 0 \in Ids /\ 0 < MaxId /\ "dead" \in States
    BY TalkAssumption DEF Ids, States
  <1> QED
    BY <1>1 DEF Die, TypeInv

LEMMA ReadType ==
  ASSUME TypeInv, NEW p \in Procs, NEW m \in responses, Read(p, m)
  PROVE  TypeInv'
  <1>1. /\ p \in Procs /\ Transacting(p) /\ m.proc = p /\ m \in ResponseType /\ m.id < MaxId
        /\ m.id \in Ids /\ m.addr \in Procs \cup {None}
        /\ msgId[p] \in Ids /\ localId[p] \in Ids /\ remoteId[p] \in Ids
    BY DEF Read, TypeInv, ResponseType
  <1>2. /\ UNCHANGED <<table, lastId, exited>> /\ deaf' \subseteq Procs
        /\ responses \ {m} \subseteq responses
    BY DEF Read, daemonVars, TypeInv
  <1>3. CASE Ignore(p, m)
    <2>1. requests' \subseteq RequestType /\ faults' \in 0 .. MaxFaults
      BY <1>1, <1>3, RepeatType DEF Ignore, TypeInv
    <2> QED
      BY <1>2, <1>3, <2>1 DEF Ignore, TypeInv, idVars, connVars
  <1>4. CASE LookedUp(p, m)
    <2>1. Impossible \in Ids /\ "announce" \in Waits /\ "connect" \in States
      BY TalkAssumption DEF Impossible, Ids, Waits, States
    <2>2. CASE m.ok
      <3>1. /\ pc' = [pc EXCEPT ![p] = "connect"] /\ msgId' = [msgId EXCEPT ![p] = m.id]
            /\ partner' = [partner EXCEPT ![p] = m.addr] /\ responses' = responses \ {m}
            /\ UNCHANGED <<requests, faults, localId, remoteId, blocked, link>>
        BY <1>4, <2>2 DEF LookedUp
      <3> QED
        BY <1>1, <1>2, <2>1, <3>1 DEF TypeInv
    <2>3. CASE ~m.ok
      <3>1. Begin(p, "announce", Impossible, responses \ {m}) /\ UNCHANGED partner
        BY <1>4, <2>3 DEF LookedUp
      <3>2. /\ pc' \in [Procs -> States] /\ msgId' \in [Procs -> Ids]
            /\ requests' \subseteq RequestType /\ responses' \subseteq ResponseType
            /\ \A o \in responses' : o.id < MaxId
            /\ faults' \in 0 .. MaxFaults
        BY <1>2, <2>1, <3>1, BeginType
      <3> QED
        BY <1>2, <1>4, <3>1, <3>2 DEF LookedUp, TypeInv
    <2> QED
      BY <2>2, <2>3
  <1>5. CASE Cleared(p, m)
    <2>1. Impossible \in Ids /\ "announce" \in Waits
      BY TalkAssumption DEF Impossible, Ids, Waits
    <2>2. /\ pc' \in [Procs -> States] /\ msgId' \in [Procs -> Ids]
          /\ requests' \subseteq RequestType /\ responses' \subseteq ResponseType
          /\ \A o \in responses' : o.id < MaxId
          /\ faults' \in 0 .. MaxFaults
      BY <1>2, <1>5, <2>1, BeginType DEF Cleared
    <2> QED
      BY <1>2, <1>5, <2>2 DEF Cleared, TypeInv
  <1>6. CASE Announced(p, m)
    <2>1. "leave" \in Waits
      BY DEF Waits
    <2>2. /\ pc' \in [Procs -> States] /\ msgId' \in [Procs -> Ids]
          /\ requests' \subseteq RequestType /\ responses' \subseteq ResponseType
          /\ \A o \in responses' : o.id < MaxId
          /\ faults' \in 0 .. MaxFaults
      BY <1>1, <1>2, <1>6, <2>1, BeginType DEF Announced
    <2> QED
      BY <1>1, <1>2, <1>6, <2>2 DEF Announced, TypeInv, connVars
  <1>7. CASE Refused(p, m)
    <2>1. /\ Request(p, "DELETE", His(p), m.id) \in RequestType
          /\ Request(p, "DELETE", Mine(p), localId[p]) \in RequestType
      BY <1>1, Machines DEF Request, RequestType, Types
    <2> QED
      BY <1>1, <1>2, <1>7, <2>1, DieType DEF Refused, TypeInv
  <1>8. CASE Left(p, m)
    <2>1. "accept" \in States
      BY DEF States
    <2> QED
      BY <1>1, <1>2, <1>8, <2>1 DEF Left, TypeInv, connVars
  <1>9. CASE Deleted(p, m)
    <2>1. "delremote" \in Waits /\ "talking" \in States
      BY DEF Waits, States
    <2>2. CASE pc[p] = "dellocal"
      <3>1. Begin(p, "delremote", remoteId[p], responses \ {m})
        BY <1>9, <2>2 DEF Deleted
      <3>2. /\ pc' \in [Procs -> States] /\ msgId' \in [Procs -> Ids]
            /\ requests' \subseteq RequestType /\ responses' \subseteq ResponseType
            /\ \A o \in responses' : o.id < MaxId
            /\ faults' \in 0 .. MaxFaults
        BY <1>1, <1>2, <2>1, <3>1, BeginType
      <3> QED
        BY <1>2, <1>9, <3>2 DEF Deleted, TypeInv, connVars
    <2>3. CASE pc[p] # "dellocal"
      <3>1. /\ pc' = [pc EXCEPT ![p] = "talking"] /\ responses' = responses \ {m}
            /\ UNCHANGED <<requests, faults, msgId, localId, remoteId, blocked>>
            /\ UNCHANGED <<partner, link>>
        BY <1>9, <2>3 DEF Deleted, connVars
      <3> QED
        BY <1>1, <1>2, <2>1, <3>1 DEF TypeInv
    <2> QED
      BY <2>2, <2>3
  <1> QED
    BY <1>3, <1>4, <1>5, <1>6, <1>7, <1>8, <1>9 DEF Read

LEMMA InitType == Init => TypeInv
  <1> SUFFICES ASSUME Init PROVE TypeInv
    OBVIOUS
  <1>1. << >> \in Seq(EntryType)
    BY EmptySeq
  <1>2. 0 \in Ids /\ "off" \in States /\ 0 \in 0 .. MaxId - 1 /\ 0 < MaxId
    BY TalkAssumption DEF Ids, States
  <1> QED
    BY <1>1, <1>2, TalkAssumption DEF Init, TypeInv

LEMMA HandleType ==
  ASSUME TypeInv, NEW r \in requests, Handle(r)
  PROVE  TypeInv'
  <1>1. PICK m : Handled(r, m)
    BY HandleHandled
  <1> QED
    BY <1>1 DEF Handled, Tabled, TypeInv, idVars, alarmVars, connVars

LEMMA IdleExitType ==
  ASSUME TypeInv, NEW h \in Hosts, IdleExit(h)
  PROVE  TypeInv'
  <1>1. << >> \in Seq(EntryType) /\ 0 \in 0 .. MaxId - 1
    BY EmptySeq, TalkAssumption
  <1>2. faults' \in 0 .. MaxFaults
    BY TalkAssumption DEF IdleExit, Fault, TypeInv
  <1> QED
    BY <1>1, <1>2 DEF IdleExit, TypeInv, idVars, alarmVars, connVars

LEMMA LoseType ==
  ASSUME TypeInv, Lose PROVE TypeInv'
  <1>1. faults' \in 0 .. MaxFaults
    BY TalkAssumption DEF Lose, Fault, TypeInv
  <1> QED
    BY <1>1 DEF Lose, TypeInv, daemonVars, idVars, alarmVars, connVars

LEMMA ProcessType ==
  ASSUME TypeInv, NEW p \in Procs,
         \/ Start(p) \/ Resend(p) \/ Interrupt(p) \/ Connect(p)
         \/ Ring(p) \/ Proceed(p) \/ Kill(p) \/ HangUp(p)
  PROVE  TypeInv'
  <1>0. /\ 0 \in Ids /\ {"lookup", "clear", "announce", "dellocal"} \subseteq Waits
        /\ "talking" \in States /\ msgId[p] \in Ids /\ localId[p] \in Ids
        /\ responses \subseteq responses
        /\ None \in Procs \cup {None}
    BY TalkAssumption DEF Ids, Waits, States, TypeInv
  <1>1. CASE Start(p)
    <2>1. /\ pc' \in [Procs -> States] /\ msgId' \in [Procs -> Ids]
          /\ requests' \subseteq RequestType /\ responses' \subseteq ResponseType
          /\ \A o \in responses' : o.id < MaxId
          /\ faults' \in 0 .. MaxFaults
      BY <1>0, <1>1, BeginType DEF Start
    <2> QED
      BY <1>1, <2>1 DEF Start, TypeInv, daemonVars, alarmVars, connVars
  <1>2. CASE Resend(p)
    <2>1. requests' \subseteq RequestType /\ faults' \in 0 .. MaxFaults
      BY <1>2, RepeatType DEF Resend
    <2> QED
      BY <1>2, <2>1 DEF Resend, TypeInv, daemonVars, idVars, alarmVars, connVars
  <1>3. CASE Interrupt(p)
    <2>1. faults' \in 0 .. MaxFaults
      BY <1>3, TalkAssumption DEF Interrupt, Fault, TypeInv
    <2> QED
      BY <1>3, <2>1 DEF Interrupt, TypeInv, daemonVars, idVars, connVars
  <1>4. CASE Connect(p)
    <2>1. CASE pc[partner[p]] \in Inviting
      <3>1. /\ pc' = [pc EXCEPT ![p] = "talking"] /\ link' = [link EXCEPT ![p] = "queued"]
            /\ UNCHANGED <<requests, responses, faults, msgId, table, lastId, exited, localId,
                          remoteId, deaf, blocked, partner>>
        BY <1>4, <2>1 DEF Connect, daemonVars, netVars, alarmVars
      <3>2. "talking" \in States
        BY DEF States
      <3> QED
        BY <3>1, <3>2 DEF TypeInv
    <2>2. CASE pc[partner[p]] \notin Inviting
      <3>1. Begin(p, "clear", msgId[p], responses)
        BY <1>4, <2>2 DEF Connect
      <3>2. /\ pc' \in [Procs -> States] /\ msgId' \in [Procs -> Ids]
            /\ requests' \subseteq RequestType /\ responses' \subseteq ResponseType
            /\ \A o \in responses' : o.id < MaxId
            /\ faults' \in 0 .. MaxFaults
        BY <1>0, <3>1, BeginType
      <3> QED
        BY <1>4, <2>2, <3>2 DEF Connect, TypeInv, daemonVars, alarmVars
    <2> QED
      BY <2>1, <2>2
  <1>5. CASE Ring(p)
    <2>1. remoteId[p] + 1 \in Ids
      BY TalkAssumption DEF TypeInv, Ids
    <2>2. /\ pc' \in [Procs -> States] /\ msgId' \in [Procs -> Ids]
          /\ requests' \subseteq RequestType /\ responses' \subseteq ResponseType
          /\ \A o \in responses' : o.id < MaxId
          /\ faults' \in 0 .. MaxFaults
      BY <1>0, <1>5, <2>1, BeginType DEF Ring
    <2>3. link' \in [Procs -> {"none", "queued", "open", "forgotten", "closed"}]
      BY <1>5 DEF Ring, TypeInv
    <2> QED
      BY <1>0, <1>5, <2>2, <2>3 DEF Ring, TypeInv, daemonVars
  <1>6. CASE Proceed(p)
    <2>1. /\ pc' \in [Procs -> States] /\ msgId' \in [Procs -> Ids]
          /\ requests' \subseteq RequestType /\ responses' \subseteq ResponseType
          /\ \A o \in responses' : o.id < MaxId
          /\ faults' \in 0 .. MaxFaults
      BY <1>0, <1>6, BeginType DEF Proceed
    <2>2. link' \in [Procs -> {"none", "queued", "open", "forgotten", "closed"}]
      BY <1>6 DEF Proceed, TypeInv
    <2> QED
      BY <1>6, <2>1, <2>2 DEF Proceed, TypeInv, daemonVars, alarmVars
  <1>7. CASE Kill(p)
    <2>1. faults' \in 0 .. MaxFaults
      BY <1>7, TalkAssumption DEF Kill, Fault, TypeInv
    <2> QED
      BY <1>7, <2>1, DieType DEF Kill, TypeInv, daemonVars
  <1>8. CASE HangUp(p)
    BY <1>8, DieType DEF HangUp, TypeInv, daemonVars
  <1> QED
    BY <1>1, <1>2, <1>3, <1>4, <1>5, <1>6, <1>7, <1>8

LEMMA AcceptType ==
  ASSUME TypeInv, NEW p \in Procs, NEW q \in Procs, Accept(p, q)
  PROVE  TypeInv'
  <1>1. "accepted" \in States
    BY DEF States
  <1> QED
    BY <1>1 DEF Accept, TypeInv, daemonVars, netVars, idVars, alarmVars

LEMMA StepType == TypeInv /\ [Next]_vars => TypeInv'
  <1> SUFFICES ASSUME TypeInv, [Next]_vars PROVE TypeInv'
    OBVIOUS
  <1>1. CASE UNCHANGED vars
    BY <1>1 DEF TypeInv, vars, daemonVars, netVars, idVars, alarmVars, connVars
  <1>2. CASE Next
    BY <1>2, HandleType, IdleExitType, ProcessType, ReadType, AcceptType, LoseType DEF Next
  <1> QED
    BY <1>1, <1>2

LEMMA TypeInvOK == TypeInv => TypeOK
  <1> SUFFICES ASSUME TypeInv PROVE TypeOK
    OBVIOUS
  <1>1. table \in [Hosts -> Seq([type : {"LEAVE_INVITE", "ANNOUNCE"},
                                 proc : Procs, id : 1 .. MaxId - 1])]
    BY DEF TypeInv, EntryType, Kinds
  <1> QED
    BY <1>1 DEF TypeInv, TypeOK, RequestType, ResponseType, Types, Ids, States

\* The daemon's tables, what is on its way, and what a process keeps.
THEOREM TypeCorrect == Spec => []TypeOK
  BY InitType, StepType, TypeInvOK, PTL DEF Spec

-----------------------------------------------------------------------------
(* Who is linked to whom.                                                  *)

Attached == {"accepted", "dellocal", "delremote", "talking"}

\* A process has a partner only when it has found one or accepted one.
Unattached ==
    \A p \in Procs :
        pc[p] \in {"off", "lookup", "announce", "leave", "accept"} => partner[p] = None

\* A connection is made once, to talk.
Calling == \A p \in Procs : link[p] # "none" => pc[p] \in {"talking", "dead"}

\* A connection just accepted is open at its other end.
Met ==
    \A p, q \in Procs :
        pc[p] = "accepted" /\ partner[p] = q => partner[q] = p /\ link[q] = "open"

\* A connection in a queue has a listener; an open one was accepted by a
\* process that keeps it.
Paired ==
    \A p, q \in Procs : partner[p] = q =>
        /\ link[p] = "open" /\ pc[q] # "dead" => partner[q] = p /\ pc[q] \in Attached
        /\ link[p] = "queued" => pc[q] \in Inviting

Linked == Unattached /\ Calling /\ Met /\ Paired

\* The steps of a process that leave partners and connections alone.
Moves == {<<"off", "lookup">>, <<"lookup", "announce">>, <<"connect", "clear">>,
          <<"announce", "leave">>, <<"leave", "accept">>, <<"dellocal", "delremote">>,
          <<"delremote", "talking">>}

LEMMA MoveLinked ==
  ASSUME TypeInv, Linked, NEW p \in Procs, NEW s, <<pc[p], s>> \in Moves,
         pc' = [pc EXCEPT ![p] = s], UNCHANGED <<partner, link>>
  PROVE  Linked'
  <1>1. pc \in [Procs -> States]
    BY DEF TypeInv
  <1>2. Unattached'
    BY <1>1 DEF Linked, Unattached, Moves
  <1>3. Calling'
    BY <1>1 DEF Linked, Calling, Moves
  <1>4. Met'
    BY <1>1 DEF Linked, Met, Moves
  <1>5. Paired'
    BY <1>1 DEF Linked, Paired, Moves, Inviting, Attached
  <1> QED
    BY <1>2, <1>3, <1>4, <1>5 DEF Linked

\* check_local has found an invitation.
LEMMA FoundLinked ==
  ASSUME TypeInv, Linked, NEW p \in Procs, pc[p] = "lookup", NEW a,
         pc' = [pc EXCEPT ![p] = "connect"], partner' = [partner EXCEPT ![p] = a],
         UNCHANGED link
  PROVE  Linked'
  <1>1. pc \in [Procs -> States] /\ partner \in [Procs -> Procs \cup {None}]
    BY DEF TypeInv
  <1>2. partner[p] = None /\ link[p] = "none"
    BY DEF Linked, Unattached, Calling
  <1>3. \A q \in Procs : partner[q] = p => link[q] \notin {"open", "queued"}
    BY DEF Linked, Paired, Inviting, Attached
  <1>4. Unattached' /\ Calling'
    BY <1>1, <1>2 DEF Linked, Unattached, Calling
  <1>5. Met'
    BY <1>1, <1>2, TalkAssumption DEF Linked, Met, Calling
  <1>6. Paired'
    BY <1>1, <1>2, <1>3, TalkAssumption DEF Linked, Paired
  <1> QED
    BY <1>4, <1>5, <1>6 DEF Linked

\* The stale invitation is cleared away.
LEMMA ClearedLinked ==
  ASSUME TypeInv, Linked, NEW p \in Procs, pc[p] = "clear",
         pc' = [pc EXCEPT ![p] = "announce"], partner' = [partner EXCEPT ![p] = None],
         UNCHANGED link
  PROVE  Linked'
  <1>1. pc \in [Procs -> States] /\ partner \in [Procs -> Procs \cup {None}]
    BY DEF TypeInv
  <1>2. link[p] = "none"
    BY DEF Linked, Calling
  <1>3. \A q \in Procs : partner[q] = p => link[q] \notin {"open", "queued"}
    BY DEF Linked, Paired, Inviting, Attached
  <1>4. Unattached' /\ Calling'
    BY <1>1, <1>2 DEF Linked, Unattached, Calling
  <1>5. Met'
    BY <1>1, <1>2, <1>3, TalkAssumption DEF Linked, Met
  <1>6. Paired'
    BY <1>1, <1>2, <1>3, TalkAssumption DEF Linked, Paired
  <1> QED
    BY <1>4, <1>5, <1>6 DEF Linked

LEMMA DieLinked ==
  ASSUME TypeInv, Linked, NEW p \in Procs, Die(p)
  PROVE  Linked'
  <1>1. /\ pc \in [Procs -> States] /\ partner \in [Procs -> Procs \cup {None}]
        /\ pc' = [pc EXCEPT ![p] = "dead"] /\ partner' = partner
        /\ \A q \in Procs : link'[q] = IF partner[q] = p /\ link[q] # "none"
                                       THEN "closed" ELSE link[q]
    BY DEF TypeInv, Die
  <1>2. Unattached' /\ Calling'
    BY <1>1 DEF Linked, Unattached, Calling
  <1>3. Met'
    BY <1>1 DEF Linked, Met
  <1>4. Paired'
    BY <1>1 DEF Linked, Paired, Attached
  <1> QED
    BY <1>2, <1>3, <1>4 DEF Linked

LEMMA ConnectLinked ==
  ASSUME TypeInv, Linked, NEW p \in Procs, Connect(p)
  PROVE  Linked'
  <1>0. pc[p] = "connect" /\ partner' = partner
    BY DEF Connect
  <1>1. /\ pc \in [Procs -> States] /\ partner \in [Procs -> Procs \cup {None}]
        /\ link \in [Procs -> {"none", "queued", "open", "forgotten", "closed"}]
    BY DEF TypeInv
  <1>2. CASE pc[partner[p]] \in Inviting
    <2>1. /\ pc' = [pc EXCEPT ![p] = "talking"] /\ link' = [link EXCEPT ![p] = "queued"]
          /\ partner[p] # p
      BY <1>0, <1>2 DEF Connect, Inviting
    <2>2. Unattached' /\ Calling'
      BY <1>0, <1>1, <2>1 DEF Linked, Unattached, Calling
    <2>3. Met'
      BY <1>0, <1>1, <2>1 DEF Linked, Met, Calling
    <2>4. Paired'
      BY <1>0, <1>1, <1>2, <2>1 DEF Linked, Paired, Attached, Inviting
    <2> QED
      BY <2>2, <2>3, <2>4 DEF Linked
  <1>3. CASE pc[partner[p]] \notin Inviting
    <2>1. pc' = [pc EXCEPT ![p] = "clear"] /\ UNCHANGED <<partner, link>>
      BY <1>3 DEF Connect, Begin
    <2>2. <<pc[p], "clear">> \in Moves
      BY <1>0 DEF Moves
    <2> QED
      BY <2>1, <2>2, MoveLinked
  <1> QED
    BY <1>2, <1>3

LEMMA AcceptLinked ==
  ASSUME TypeInv, Linked, NEW p \in Procs, NEW q \in Procs, Accept(p, q)
  PROVE  Linked'
  <1>1. /\ pc \in [Procs -> States] /\ partner \in [Procs -> Procs \cup {None}]
        /\ link \in [Procs -> {"none", "queued", "open", "forgotten", "closed"}]
    BY DEF TypeInv
  <1>2. /\ pc[p] = "accept" /\ partner[q] = p /\ link[q] = "queued"
        /\ pc' = [pc EXCEPT ![p] = "accepted"] /\ partner' = [partner EXCEPT ![p] = q]
        /\ link' = [link EXCEPT ![q] = "open"]
    BY DEF Accept
  <1>3. partner[p] = None /\ link[p] = "none" /\ p # q
    BY <1>2 DEF Linked, Unattached, Calling
  <1>4. \A x \in Procs : partner[x] = p => link[x] # "open"
    BY <1>2 DEF Linked, Paired, Attached
  <1>5. Unattached' /\ Calling'
    BY <1>1, <1>2, <1>3 DEF Linked, Unattached, Calling
  <1>6. Met'
    BY <1>1, <1>2, <1>3, <1>4, TalkAssumption DEF Linked, Met
  <1>7. Paired'
    BY <1>1, <1>2, <1>3, <1>4, TalkAssumption DEF Linked, Paired, Attached, Inviting
  <1> QED
    BY <1>5, <1>6, <1>7 DEF Linked

LEMMA RingLinked ==
  ASSUME TypeInv, Linked, NEW p \in Procs, Ring(p)
  PROVE  Linked'
  <1>1. /\ pc \in [Procs -> States] /\ partner \in [Procs -> Procs \cup {None}]
        /\ link \in [Procs -> {"none", "queued", "open", "forgotten", "closed"}]
    BY DEF TypeInv
  <1>2. /\ pc[p] \in {"accept", "accepted"}
        /\ pc' = [pc EXCEPT ![p] = "announce"] /\ partner' = [partner EXCEPT ![p] = None]
        /\ \A q \in Procs : link'[q] = IF pc[p] = "accepted" /\ partner[p] = q
                                       THEN "forgotten" ELSE link[q]
    BY DEF Ring, Begin
  <1>3. \A q \in Procs : pc[p] = "accepted" /\ partner[p] = q => link[q] = "open"
    BY DEF Linked, Met
  <1>4. link[p] = "none"
    BY <1>2 DEF Linked, Calling
  <1>5. \A q \in Procs : partner[q] = p /\ link[q] = "open" => partner[p] = q /\ pc[p] = "accepted"
    BY <1>2 DEF Linked, Paired, Attached
  <1>6. Unattached' /\ Calling'
    BY <1>1, <1>2, <1>3, <1>4 DEF Linked, Unattached, Calling
  <1>7. Met'
    BY <1>1, <1>2, <1>3, <1>4, <1>5, TalkAssumption DEF Linked, Met
  <1>8. Paired'
    BY <1>1, <1>2, <1>3, <1>4, <1>5, TalkAssumption DEF Linked, Paired, Attached, Inviting
  <1> QED
    BY <1>6, <1>7, <1>8 DEF Linked

LEMMA ProceedLinked ==
  ASSUME TypeInv, Linked, NEW p \in Procs, Proceed(p)
  PROVE  Linked'
  <1>1. /\ pc \in [Procs -> States] /\ partner \in [Procs -> Procs \cup {None}]
        /\ link \in [Procs -> {"none", "queued", "open", "forgotten", "closed"}]
    BY DEF TypeInv
  <1>2. /\ pc[p] = "accepted" /\ pc' = [pc EXCEPT ![p] = "dellocal"] /\ partner' = partner
        /\ \A q \in Procs : link'[q] = IF link[q] = "queued" /\ partner[q] = p
                                       THEN "closed" ELSE link[q]
    BY DEF Proceed, Begin
  <1>3. Unattached' /\ Calling'
    BY <1>1, <1>2 DEF Linked, Unattached, Calling
  <1>4. Met'
    BY <1>1, <1>2 DEF Linked, Met
  <1>5. Paired'
    BY <1>1, <1>2 DEF Linked, Paired, Attached
  <1> QED
    BY <1>3, <1>4, <1>5 DEF Linked

LEMMA ReadLinked ==
  ASSUME TypeInv, Linked, NEW p \in Procs, NEW m \in responses, Read(p, m)
  PROVE  Linked'
  <1>1. CASE Ignore(p, m)
    BY <1>1 DEF Ignore, connVars, Linked, Unattached, Calling, Met, Paired
  <1>2. CASE LookedUp(p, m)
    <2>1. CASE m.ok
      BY <1>2, <2>1, FoundLinked DEF LookedUp
    <2>2. CASE ~m.ok
      BY <1>2, <2>2, MoveLinked DEF LookedUp, Begin, Moves
    <2> QED
      BY <2>1, <2>2
  <1>3. CASE Cleared(p, m)
    BY <1>3, ClearedLinked DEF Cleared, Begin
  <1>4. CASE Announced(p, m)
    <2>1. <<pc[p], "leave">> \in Moves
      BY <1>4 DEF Announced, Moves
    <2>2. pc' = [pc EXCEPT ![p] = "leave"] /\ UNCHANGED <<partner, link>>
      BY <1>4 DEF Announced, Begin, connVars
    <2> QED
      BY <2>1, <2>2, MoveLinked
  <1>5. CASE Refused(p, m)
    BY <1>5, DieLinked DEF Refused
  <1>6. CASE Left(p, m)
    <2>1. <<pc[p], "accept">> \in Moves
      BY <1>6 DEF Left, Moves
    <2>2. pc' = [pc EXCEPT ![p] = "accept"] /\ UNCHANGED <<partner, link>>
      BY <1>6 DEF Left, connVars
    <2> QED
      BY <2>1, <2>2, MoveLinked
  <1>7. CASE Deleted(p, m)
    BY <1>7, MoveLinked DEF Deleted, Begin, Moves, connVars
  <1> QED
    BY <1>1, <1>2, <1>3, <1>4, <1>5, <1>6, <1>7 DEF Read

LEMMA StepLinked == TypeInv /\ Linked /\ [Next]_vars => Linked'
  <1> SUFFICES ASSUME TypeInv, Linked, [Next]_vars PROVE Linked'
    OBVIOUS
  <1>1. UNCHANGED <<pc, partner, link>> => Linked'
    BY DEF Linked, Unattached, Calling, Met, Paired
  <1>2. CASE UNCHANGED vars
    BY <1>1, <1>2 DEF vars, connVars
  <1>3. CASE \E r \in requests : Handle(r)
    BY <1>1, <1>3 DEF Handle, connVars
  <1>4. CASE \E h \in Hosts : IdleExit(h)
    BY <1>1, <1>4 DEF IdleExit, connVars
  <1>5. ASSUME NEW p \in Procs, Start(p) PROVE Linked'
    <2>1. <<pc[p], "lookup">> \in Moves
      BY <1>5 DEF Start, Moves
    <2>2. pc' = [pc EXCEPT ![p] = "lookup"] /\ UNCHANGED <<partner, link>>
      BY <1>5 DEF Start, Begin, connVars
    <2> QED
      BY <2>1, <2>2, MoveLinked
  <1>6. ASSUME NEW p \in Procs, Resend(p) PROVE Linked'
    BY <1>1, <1>6 DEF Resend, connVars
  <1>7. ASSUME NEW p \in Procs, Interrupt(p) PROVE Linked'
    BY <1>1, <1>7 DEF Interrupt, connVars
  <1>8. ASSUME NEW p \in Procs, Kill(p) PROVE Linked'
    BY <1>8, DieLinked DEF Kill
  <1>9. ASSUME NEW p \in Procs, HangUp(p) PROVE Linked'
    BY <1>9, DieLinked DEF HangUp
  <1>10. CASE Lose
    BY <1>1, <1>10 DEF Lose, connVars
  <1> QED
    BY <1>2, <1>3, <1>4, <1>5, <1>6, <1>7, <1>8, <1>9, <1>10,
       ConnectLinked, RingLinked, ProceedLinked, ReadLinked, AcceptLinked DEF Next

LEMMA InitLinked == Init => Linked
  BY DEF Init, Linked, Unattached, Calling, Met, Paired

LEMMA LinkedMutual == Linked => Mutual
  BY DEF Linked, Paired, Mutual

\* The ends of a conversation talk to each other, and nobody waits in the queue
\* of a socket that is not listened to, whatever calls cross, are rung again or
\* are killed.
THEOREM TalksMutually == Spec => []Mutual
  BY InitType, StepType, InitLinked, StepLinked, LinkedMutual, PTL DEF Spec

-----------------------------------------------------------------------------
(* Numbers, and what they stand for.                                       *)

\* A process that invites no more, and never again.
Gone(p) == pc[p] \in {"dellocal", "delremote", "talking", "dead"}
HasInvited(p) == pc[p] \in Inviting \/ Gone(p)

\* The machine that invitations of type t of process p are left on.
Where(t, p) == IF t = "LEAVE_INVITE" THEN Mine(p) ELSE His(p)

Listed(h, t, p, i) == Holds(table[h], Entry(t, p, i))

\* p remembers the number, or will when it reads its answer.
Remembered(t, p, i) ==
    \/ i = IF t = "LEAVE_INVITE" THEN localId[p] ELSE remoteId[p]
    \/ \E m \in responses : m.type = t /\ m.proc = p /\ m.id = i

\* Another process has found p's invitation, or will when it reads its answer.
Known(h, p, i) ==
    \/ \E m \in responses :
          m.type = "LOOK_UP" /\ m.ok /\ h = His(m.proc) /\ m.addr = p /\ m.id = i
    \/ \E q \in Procs :
          pc[q] \in {"connect", "clear"} /\ h = His(q) /\ partner[q] = p /\ msgId[q] = i

\* On machine h the number i stands for the invitation of type t of process p.
Named(h, t, p, i) ==
    /\ i # 0
    /\ \/ Listed(h, t, p, i)
       \/ h = Where(t, p) /\ Remembered(t, p, i)
       \/ t = "LEAVE_INVITE" /\ Known(h, p, i)

\* A number stands for one invitation, wherever it is, and has been given out.
OneName ==
    \A h \in Hosts \ exited, i \in Ids, p \in Procs, t \in Kinds :
        Named(h, t, p, i) =>
            /\ i <= lastId[h]
            /\ \A q \in Procs, u \in Kinds : Named(h, u, q, i) => p = q /\ t = u

\* Invitations are where they should be, of processes that have left them.
InPlace ==
    \A h \in Hosts, i \in Ids, p \in Procs, t \in Kinds :
        Named(h, t, p, i) =>
            h = Where(t, p) /\ (t = "LEAVE_INVITE" => HasInvited(p))

TablesApart == \A h \in Hosts \ exited : Apart(table[h])

\* What is on its way to a daemon.
Expected(r) ==
    /\ r.type \in Kinds => r.host = Where(r.type, r.proc)
    /\ r.type = "LEAVE_INVITE" => HasInvited(r.proc)
    /\ r.type = "LOOK_UP" => r.host = His(r.proc)

RequestsKnown == \A r \in requests : Expected(r)

\* What is on its way to a process.
AnswersKnown ==
    \A m \in responses :
        /\ m.type = "LEAVE_INVITE" => m.id # 0 /\ HasInvited(m.proc)
        /\ m.type = "LOOK_UP" /\ m.ok => m.id # 0 /\ m.addr \in Procs

\* A DELETE names no invitation that anybody waits for an answer to.
Harmless(r) ==
    r.type = "DELETE" /\ r.host \notin exited =>
        /\ r.id <= lastId[r.host]
        /\ \A p \in Procs : Named(r.host, "LEAVE_INVITE", p, r.id) => Gone(p)

DeletesKnown == \A r \in requests : Harmless(r)

WaiterKnown(p) ==
    /\ pc[p] \in {"connect", "clear"} => partner[p] \in Procs /\ msgId[p] # 0
    /\ pc[p] = "clear" => Gone(partner[p])
    /\ pc[p] = "dellocal" => msgId[p] = localId[p]
    /\ pc[p] = "delremote" => msgId[p] = remoteId[p]
    /\ pc[p] \in {"accept", "accepted"} => localId[p] # 0

WaitersKnown == \A p \in Procs : WaiterKnown(p)

\* The invitation of a process that still invites is in its table.
Kept ==
    \A p \in Procs, i \in Ids :
        Mine(p) \notin exited /\ ~Gone(p) /\ Named(Mine(p), "LEAVE_INVITE", p, i) =>
            Listed(Mine(p), "LEAVE_INVITE", p, i)

NumbersKnown ==
    /\ OneName /\ InPlace /\ TablesApart /\ RequestsKnown /\ AnswersKnown
    /\ DeletesKnown /\ WaitersKnown /\ Kept

IInv == TypeInv /\ Linked /\ NumbersKnown

\* The condition of what follows: no daemon has come to MAX_ID.
NotComeRound == \A h \in Hosts : lastId[h] < MaxId - 1

-----------------------------------------------------------------------------
(* What a step of a process does to numbers: it learns them from answers.  *)

Learns ==
    /\ UNCHANGED <<table, lastId, exited>> /\ responses' \subseteq responses
    /\ \A p \in Procs :
        /\ \/ localId'[p] \in {0, localId[p]}
           \/ \E m \in responses :
                 m.type = "LEAVE_INVITE" /\ m.proc = p /\ m.id = localId'[p]
        /\ \/ remoteId'[p] \in {0, remoteId[p]}
           \/ \E m \in responses :
                 m.type = "ANNOUNCE" /\ m.proc = p /\ m.id = remoteId'[p]
        /\ pc'[p] \in {"connect", "clear"} =>
              \/ /\ pc[p] \in {"connect", "clear"}
                 /\ partner'[p] = partner[p] /\ msgId'[p] = msgId[p]
              \/ \E m \in responses :
                    /\ m.type = "LOOK_UP" /\ m.ok /\ m.proc = p
                    /\ m.addr = partner'[p] /\ m.id = msgId'[p]
        /\ Gone(p) => Gone(p)'
        /\ HasInvited(p) => HasInvited(p)'

\* A step that changes the state of one process, none of its numbers.
LEMMA MoveLearns ==
  ASSUME TypeInv, UNCHANGED <<table, lastId, exited, localId, remoteId>>,
         responses' \subseteq responses,
         \A q \in Procs :
            /\ pc'[q] \in {"connect", "clear"} =>
                  /\ pc[q] \in {"connect", "clear"}
                  /\ partner'[q] = partner[q] /\ msgId'[q] = msgId[q]
            /\ Gone(q) => Gone(q)'
            /\ HasInvited(q) => HasInvited(q)'
  PROVE  Learns
  BY DEF Learns

LEMMA DieLearns ==
  ASSUME TypeInv, NEW p \in Procs, Die(p), UNCHANGED <<table, lastId, exited>>
  PROVE  Learns
  BY DEF Die, Learns, Gone, HasInvited, TypeInv

LEMMA BeginLearns ==
  ASSUME TypeInv, NEW p \in Procs, NEW s \in Waits, NEW id, NEW rest,
         Begin(p, s, id, rest), rest \subseteq responses,
         UNCHANGED <<table, lastId, exited, localId, remoteId>>,
         \A q \in Procs : q # p => partner'[q] = partner[q],
         s = "clear" => pc[p] = "connect" /\ id = msgId[p] /\ partner'[p] = partner[p],
         pc[p] \in Inviting => s \in Inviting \cup {"dellocal"},
         Gone(p) => s \in {"dellocal", "delremote"}
  PROVE  Learns
  <1>1. /\ pc' = [pc EXCEPT ![p] = s] /\ msgId' = [msgId EXCEPT ![p] = id]
        /\ responses' = rest
    BY DEF Begin
  <1>2. pc \in [Procs -> States] /\ msgId \in [Procs -> Ids]
    BY DEF TypeInv
  <1>3. \A q \in Procs : q # p => pc'[q] = pc[q] /\ msgId'[q] = msgId[q]
    BY <1>1, <1>2
  <1>4. pc'[p] = s /\ msgId'[p] = id /\ s # "connect"
    BY <1>1, <1>2 DEF Waits
  <1>5. \A q \in Procs : (Gone(q) => Gone(q)') /\ (HasInvited(q) => HasInvited(q)')
    BY <1>3, <1>4 DEF Gone, HasInvited, Inviting
  <1> QED
    BY <1>1, <1>3, <1>4, <1>5, MoveLearns

LEMMA ReadLearns ==
  ASSUME TypeInv, NEW p \in Procs, NEW m \in responses, Read(p, m)
  PROVE  Learns
  <1>0. /\ m.proc = p /\ UNCHANGED <<table, lastId, exited>> /\ responses \ {m} \subseteq responses
        /\ {"announce", "leave", "delremote"} \subseteq Waits
    BY DEF Read, daemonVars, Waits
  <1>1. CASE Ignore(p, m)
    BY <1>0, <1>1 DEF Ignore, idVars, connVars, Learns, Gone, HasInvited
  <1>2. CASE LookedUp(p, m)
    <2>1. CASE m.ok
      <3>1. /\ pc' = [pc EXCEPT ![p] = "connect"] /\ msgId' = [msgId EXCEPT ![p] = m.id]
            /\ partner' = [partner EXCEPT ![p] = m.addr] /\ responses' = responses \ {m}
            /\ UNCHANGED <<localId, remoteId>> /\ m.type = "LOOK_UP" /\ pc[p] = "lookup"
        BY <1>2, <2>1 DEF LookedUp
      <3>2. \A q \in Procs : (Gone(q) => Gone(q)') /\ (HasInvited(q) => HasInvited(q)')
        BY <3>1 DEF Gone, HasInvited, Inviting, TypeInv
      <3> QED
        BY <1>0, <2>1, <3>1, <3>2 DEF Learns, TypeInv
    <2>2. CASE ~m.ok
      <3>1. /\ Begin(p, "announce", Impossible, responses \ {m}) /\ pc[p] = "lookup"
            /\ UNCHANGED <<localId, remoteId, partner>>
        BY <1>2, <2>2 DEF LookedUp
      <3> QED
        BY <1>0, <3>1, BeginLearns DEF Gone, Inviting
    <2> QED
      BY <2>1, <2>2
  <1>3. CASE Cleared(p, m)
    <2>1. /\ Begin(p, "announce", Impossible, responses \ {m}) /\ pc[p] = "clear"
          /\ UNCHANGED <<localId, remoteId>> /\ partner' = [partner EXCEPT ![p] = None]
      BY <1>3 DEF Cleared
    <2>2. \A q \in Procs : q # p => partner'[q] = partner[q]
      BY <2>1 DEF TypeInv
    <2> QED
      BY <1>0, <2>1, <2>2, BeginLearns DEF Gone, Inviting
  <1>4. CASE Announced(p, m)
    <2>1. /\ pc' = [pc EXCEPT ![p] = "leave"] /\ responses' = responses \ {m}
          /\ remoteId' = [remoteId EXCEPT ![p] = m.id] /\ m.type = "ANNOUNCE"
          /\ msgId' = [msgId EXCEPT ![p] = msgId[p]]
          /\ UNCHANGED <<localId, partner>> /\ pc[p] = "announce"
      BY <1>4 DEF Announced, Begin, connVars
    <2>2. \A q \in Procs : (Gone(q) => Gone(q)') /\ (HasInvited(q) => HasInvited(q)')
      BY <2>1 DEF Gone, HasInvited, Inviting, TypeInv
    <2> QED
      BY <1>0, <2>1, <2>2 DEF Learns, TypeInv
  <1>5. CASE Refused(p, m)
    BY <1>0, <1>5, DieLearns DEF Refused
  <1>6. CASE Left(p, m)
    <2>1. /\ pc' = [pc EXCEPT ![p] = "accept"] /\ responses' = responses \ {m}
          /\ localId' = [localId EXCEPT ![p] = m.id] /\ m.type = "LEAVE_INVITE"
          /\ UNCHANGED <<msgId, remoteId, partner>> /\ pc[p] = "leave"
      BY <1>6 DEF Left, connVars
    <2>2. \A q \in Procs : (Gone(q) => Gone(q)') /\ (HasInvited(q) => HasInvited(q)')
      BY <2>1 DEF Gone, HasInvited, Inviting, TypeInv
    <2> QED
      BY <1>0, <2>1, <2>2 DEF Learns, TypeInv
  <1>7. CASE Deleted(p, m)
    <2>1. CASE pc[p] = "dellocal"
      <3>1. /\ Begin(p, "delremote", remoteId[p], responses \ {m})
            /\ UNCHANGED <<localId, remoteId, partner>>
        BY <1>7, <2>1 DEF Deleted, connVars
      <3> QED
        BY <1>0, <2>1, <3>1, BeginLearns DEF Gone, Inviting
    <2>2. CASE pc[p] # "dellocal"
      <3>1. /\ pc' = [pc EXCEPT ![p] = "talking"] /\ responses' = responses \ {m}
            /\ UNCHANGED <<msgId, localId, remoteId, partner>>
        BY <1>7, <2>2 DEF Deleted, connVars
      <3>2. \A q \in Procs : /\ (Gone(q) => Gone(q)') /\ (HasInvited(q) => HasInvited(q)')
                             /\ pc'[q] \in {"connect", "clear"} => pc'[q] = pc[q]
        BY <3>1 DEF Gone, HasInvited, TypeInv
      <3> QED
        BY <1>0, <3>1, <3>2, MoveLearns
    <2> QED
      BY <2>1, <2>2
  <1> QED
    BY <1>1, <1>2, <1>3, <1>4, <1>5, <1>6, <1>7 DEF Read

LEMMA ProcessLearns ==
  ASSUME TypeInv, NEW p \in Procs,
         \/ Start(p) \/ Resend(p) \/ Interrupt(p) \/ Connect(p)
         \/ Ring(p) \/ Proceed(p) \/ Kill(p) \/ HangUp(p)
  PROVE  Learns
  <1>0. {"lookup", "clear", "announce", "dellocal"} \subseteq Waits /\ responses \subseteq responses
    BY DEF Waits
  <1>1. CASE Start(p)
    BY <1>0, <1>1, BeginLearns DEF Start, daemonVars, connVars, Gone, Inviting
  <1>2. CASE Resend(p)
    BY <1>2 DEF Resend, daemonVars, idVars, connVars, Learns, Gone, HasInvited
  <1>3. CASE Interrupt(p)
    BY <1>3 DEF Interrupt, daemonVars, idVars, connVars, Learns, Gone, HasInvited
  <1>4. CASE Connect(p)
    <2>0. /\ pc[p] = "connect"
          /\ UNCHANGED <<table, lastId, exited, localId, remoteId, partner>>
      BY <1>4 DEF Connect, daemonVars
    <2>1. CASE pc[partner[p]] \in Inviting
      <3>1. pc' = [pc EXCEPT ![p] = "talking"] /\ UNCHANGED <<responses, msgId>>
        BY <1>4, <2>1 DEF Connect, netVars
      <3>2. \A q \in Procs : /\ (Gone(q) => Gone(q)') /\ (HasInvited(q) => HasInvited(q)')
                             /\ pc'[q] \in {"connect", "clear"} => pc'[q] = pc[q]
        BY <3>1 DEF Gone, HasInvited, TypeInv
      <3> QED
        BY <2>0, <3>1, <3>2, MoveLearns
    <2>2. CASE pc[partner[p]] \notin Inviting
      BY <1>0, <1>4, <2>0, <2>2, BeginLearns DEF Connect, Gone, Inviting
    <2> QED
      BY <2>1, <2>2
  <1>5. CASE Ring(p)
    <2>1. /\ Begin(p, "announce", remoteId[p] + 1, responses)
          /\ UNCHANGED <<table, lastId, exited, localId, remoteId>>
          /\ \A q \in Procs : q # p => partner'[q] = partner[q]
          /\ pc[p] \in {"accept", "accepted"}
      BY <1>5 DEF Ring, daemonVars, TypeInv
    <2> QED
      BY <1>0, <2>1, BeginLearns DEF Gone, Inviting
  <1>6. CASE Proceed(p)
    BY <1>0, <1>6, BeginLearns DEF Proceed, daemonVars, Gone, Inviting
  <1>7. CASE Kill(p)
    BY <1>7, DieLearns DEF Kill, daemonVars
  <1>8. CASE HangUp(p)
    BY <1>8, DieLearns DEF HangUp, daemonVars
  <1> QED
    BY <1>1, <1>2, <1>3, <1>4, <1>5, <1>6, <1>7, <1>8

LEMMA AcceptLearns ==
  ASSUME TypeInv, NEW p \in Procs, NEW q \in Procs, Accept(p, q)
  PROVE  Learns
  <1>1. /\ pc' = [pc EXCEPT ![p] = "accepted"] /\ partner' = [partner EXCEPT ![p] = q]
        /\ UNCHANGED <<table, lastId, exited, responses, msgId, localId, remoteId>>
        /\ pc[p] = "accept"
    BY DEF Accept, daemonVars, netVars, idVars
  <1>2. \A x \in Procs : /\ (Gone(x) => Gone(x)') /\ (HasInvited(x) => HasInvited(x)')
                         /\ pc'[x] \in {"connect", "clear"} =>
                               pc'[x] = pc[x] /\ partner'[x] = partner[x]
    BY <1>1 DEF Gone, HasInvited, Inviting, TypeInv
  <1> QED
    BY <1>1, <1>2, MoveLearns

LEMMA LoseLearns ==
  ASSUME TypeInv, Lose PROVE Learns
  <1>1. /\ UNCHANGED <<table, lastId, exited, pc, partner, msgId, localId, remoteId>>
        /\ responses' \subseteq responses
    BY DEF Lose, daemonVars, idVars, connVars
  <1>2. \A x \in Procs : (Gone(x) => Gone(x)') /\ (HasInvited(x) => HasInvited(x)')
    BY <1>1 DEF Gone, HasInvited
  <1> QED
    BY <1>1, <1>2, MoveLearns

LEMMA LearnsNamed ==
  ASSUME Learns, NEW h, NEW t \in Kinds, NEW p \in Procs, NEW i, Named(h, t, p, i)'
  PROVE  Named(h, t, p, i)
  <1>1. i # 0
    BY DEF Named
  <1>2. CASE Listed(h, t, p, i)'
    BY <1>1, <1>2 DEF Learns, Listed, Named
  <1>3. CASE (h = Where(t, p) /\ Remembered(t, p, i))'
    <2>1. h = Where(t, p)
      BY <1>3 DEF Where, Mine, His
    <2>2. CASE \E m \in responses' : m.type = t /\ m.proc = p /\ m.id = i
      <3>1. \E m \in responses : m.type = t /\ m.proc = p /\ m.id = i
        BY <2>2 DEF Learns
      <3> QED
        BY <1>1, <2>1, <3>1 DEF Named, Remembered
    <2>3. CASE i = IF t = "LEAVE_INVITE" THEN localId'[p] ELSE remoteId'[p]
      <3>1. CASE t = "LEAVE_INVITE"
        <4>1. localId[p] = i \/ \E m \in responses : m.type = t /\ m.proc = p /\ m.id = i
          BY <1>1, <2>3, <3>1 DEF Learns
        <4> QED
          BY <1>1, <2>1, <3>1, <4>1 DEF Named, Remembered
      <3>2. CASE t = "ANNOUNCE"
        <4>1. remoteId[p] = i \/ \E m \in responses : m.type = t /\ m.proc = p /\ m.id = i
          BY <1>1, <2>3, <3>2 DEF Learns
        <4> QED
          BY <1>1, <2>1, <3>2, <4>1 DEF Named, Remembered
      <3> QED
        BY <3>1, <3>2 DEF Kinds
    <2> QED
      BY <1>3, <2>2, <2>3 DEF Remembered
  <1>4. CASE (t = "LEAVE_INVITE" /\ Known(h, p, i))'
    <2>1. CASE \E m \in responses' :
                  m.type = "LOOK_UP" /\ m.ok /\ h = His(m.proc) /\ m.addr = p /\ m.id = i
      <3>1. Known(h, p, i)
        BY <2>1 DEF Learns, Known
      <3> QED
        BY <1>1, <1>4, <3>1 DEF Named
    <2>2. ASSUME NEW q \in Procs, pc'[q] \in {"connect", "clear"}, h = His(q),
                 partner'[q] = p, msgId'[q] = i
          PROVE  Known(h, p, i)
      <3>1. CASE /\ pc[q] \in {"connect", "clear"}
                 /\ partner'[q] = partner[q] /\ msgId'[q] = msgId[q]
        BY <2>2, <3>1 DEF Known
      <3>2. CASE \E m \in responses :
                    /\ m.type = "LOOK_UP" /\ m.ok /\ m.proc = q
                    /\ m.addr = partner'[q] /\ m.id = msgId'[q]
        BY <2>2, <3>2 DEF Known
      <3> QED
        BY <2>2, <3>1, <3>2 DEF Learns
    <2>3. Known(h, p, i) => Named(h, t, p, i)
      BY <1>1, <1>4 DEF Named
    <2> QED
      BY <1>4, <2>1, <2>2, <2>3 DEF Known, His, Party
  <1> QED
    BY <1>2, <1>3, <1>4 DEF Named

\* Some of the invariant follows from that alone.
LEMMA LearnsKeeps ==
  ASSUME IInv, Learns
  PROVE  OneName' /\ InPlace' /\ TablesApart' /\ Kept' /\ AnswersKnown'
  <1>1. \A p \in Procs : (Gone(p) => Gone(p)') /\ (HasInvited(p) => HasInvited(p)')
    BY DEF Learns
  <1>2. UNCHANGED <<table, lastId, exited>> /\ responses' \subseteq responses
    BY DEF Learns
  <1>3. OneName'
    <2> SUFFICES ASSUME NEW h \in Hosts \ exited, NEW i \in Ids,
                        NEW p \in Procs, NEW t \in Kinds, Named(h, t, p, i)'
                 PROVE  /\ i <= lastId[h]
                        /\ \A q \in Procs, u \in Kinds :
                              Named(h, u, q, i)' => p = q /\ t = u
      BY <1>2 DEF OneName
    <2>1. Named(h, t, p, i)
      BY LearnsNamed
    <2>2. \A q \in Procs, u \in Kinds : Named(h, u, q, i)' => Named(h, u, q, i)
      BY LearnsNamed
    <2> QED
      BY <2>1, <2>2 DEF IInv, NumbersKnown, OneName
  <1>4. InPlace'
    <2> SUFFICES ASSUME NEW h \in Hosts, NEW i \in Ids,
                        NEW p \in Procs, NEW t \in Kinds, Named(h, t, p, i)'
                 PROVE  h = Where(t, p) /\ (t = "LEAVE_INVITE" => HasInvited(p)')
      BY <1>2 DEF InPlace, Where, Mine, His, Party
    <2>1. Named(h, t, p, i)
      BY LearnsNamed
    <2> QED
      BY <1>1, <2>1 DEF IInv, NumbersKnown, InPlace
  <1>5. TablesApart'
    BY <1>2 DEF IInv, NumbersKnown, TablesApart
  <1>6. Kept'
    <2> SUFFICES ASSUME NEW p \in Procs, NEW i \in Ids, Mine(p) \notin exited,
                        ~Gone(p)', Named(Mine(p), "LEAVE_INVITE", p, i)'
                 PROVE  Listed(Mine(p), "LEAVE_INVITE", p, i)'
      BY <1>2 DEF Kept, Mine
    <2>1. ~Gone(p)
      BY <1>1
    <2>2. Named(Mine(p), "LEAVE_INVITE", p, i)
      BY LearnsNamed DEF Kinds
    <2>3. Listed(Mine(p), "LEAVE_INVITE", p, i)
      BY <2>1, <2>2 DEF IInv, NumbersKnown, Kept
    <2> QED
      BY <1>2, <2>3 DEF Listed, Mine
  <1>7. AnswersKnown'
    <2>1. \A m \in responses : m.proc \in Procs
      BY DEF IInv, TypeInv, ResponseType
    <2> QED
      BY <1>1, <1>2, <2>1 DEF IInv, NumbersKnown, AnswersKnown
  <1> QED
    BY <1>3, <1>4, <1>5, <1>6, <1>7

-----------------------------------------------------------------------------
(* The requests a process sends.                                           *)

\* After the step a DELETE r would harm nobody.
HarmlessThen(r) ==
    r.type = "DELETE" /\ r.host \notin exited =>
        /\ r.id <= lastId[r.host]
        /\ \A p \in Procs : Named(r.host, "LEAVE_INVITE", p, r.id) => Gone(p)'

LEMMA LearnsRequests ==
  ASSUME IInv, Learns,
         \A r \in requests' : r \in requests \/ (HarmlessThen(r) /\ Expected(r)')
  PROVE  DeletesKnown' /\ RequestsKnown'
  <1>1. \A p \in Procs : (Gone(p) => Gone(p)') /\ (HasInvited(p) => HasInvited(p)')
    BY DEF Learns
  <1>2. UNCHANGED <<lastId, exited>>
    BY DEF Learns
  <1>3. ASSUME NEW r \in requests' PROVE Harmless(r)'
    <2>1. HarmlessThen(r)
      BY <1>1, <1>3 DEF IInv, NumbersKnown, DeletesKnown, Harmless, HarmlessThen
    <2>2. \A p \in Procs : Named(r.host, "LEAVE_INVITE", p, r.id)'
                              => Named(r.host, "LEAVE_INVITE", p, r.id)
      BY LearnsNamed DEF Kinds
    <2> QED
      BY <1>2, <2>1, <2>2 DEF Harmless, HarmlessThen
  <1>4. ASSUME NEW r \in requests' PROVE Expected(r)'
    <2>1. CASE r \in requests
      <3>1. r.proc \in Procs /\ Expected(r)
        BY <2>1 DEF IInv, TypeInv, RequestType, NumbersKnown, RequestsKnown
      <3> QED
        BY <1>1, <3>1 DEF Expected, Where, Mine, His, Party
    <2>2. CASE r \notin requests
      BY <2>2
    <2> QED
      BY <2>1, <2>2
  <1> QED
    BY <1>3, <1>4 DEF DeletesKnown, RequestsKnown

\* Everything that is remembered has been given out, by the right machine.
LEMMA DeleteOwn ==
  ASSUME IInv, NEW p \in Procs, NEW t \in Kinds, NEW i \in Ids, Remembered(t, p, i) \/ i = 0,
         t = "ANNOUNCE" \/ Gone(p)', NEW r, r.host = Where(t, p), r.id = i
  PROVE  HarmlessThen(r)
  <1> DEFINE h == Where(t, p)
  <1>1. r.host = h
    OBVIOUS
  <1>2. h \in Hosts /\ lastId[h] \in Nat
    BY Machines, TalkAssumption DEF Where, IInv, TypeInv
  <1>3. CASE i = 0
    BY <1>1, <1>2, <1>3 DEF HarmlessThen, Named
  <1>4. CASE i # 0
    <2>1. Named(h, t, p, i)
      BY <1>4 DEF Named
    <2> HIDE DEF h
    <2>2. ASSUME h \notin exited
          PROVE  /\ i <= lastId[h]
                 /\ \A q \in Procs, u \in Kinds : Named(h, u, q, i) => p = q /\ t = u
      BY <1>2, <2>1, <2>2 DEF IInv, NumbersKnown, OneName
    <2>3. ASSUME h \notin exited, NEW q \in Procs, Named(h, "LEAVE_INVITE", q, i)
          PROVE  Gone(q)'
      <3>1. p = q /\ t = "LEAVE_INVITE"
        BY <2>2, <2>3 DEF Kinds
      <3> QED
        BY <3>1
    <2> QED
      BY <1>1, <2>2, <2>3 DEF HarmlessThen
  <1> QED
    BY <1>3, <1>4

\* callee: the invitation it has found is one of a process that is gone.
LEMMA DeleteOther ==
  ASSUME IInv, NEW p \in Procs, pc[p] \in {"connect", "clear"},
         NEW o, o = partner[p], Gone(o)',
         NEW r, r.host = His(p), r.id = msgId[p]
  PROVE  HarmlessThen(r)
  <1> DEFINE h == His(p)
             i == msgId[p]
  <1>1. r.host = h /\ r.id = i /\ h \in Hosts /\ i \in Ids
    BY Machines DEF IInv, TypeInv
  <1>2. o \in Procs /\ i # 0
    BY DEF IInv, NumbersKnown, WaitersKnown, WaiterKnown
  <1>3. Named(h, "LEAVE_INVITE", o, i)
    BY <1>2 DEF Named, Known
  <1> HIDE DEF h, i
  <1>5. ASSUME h \notin exited
        PROVE  /\ i <= lastId[h]
               /\ \A q \in Procs, u \in Kinds :
                     Named(h, u, q, i) => o = q /\ "LEAVE_INVITE" = u
    BY <1>1, <1>2, <1>3, <1>5 DEF IInv, NumbersKnown, OneName, Kinds
  <1>6. ASSUME h \notin exited, NEW q \in Procs, Named(h, "LEAVE_INVITE", q, i)
        PROVE  Gone(q)'
    <2>1. o = q
      BY <1>5, <1>6 DEF Kinds
    <2> QED
      BY <2>1
  <1> QED
    BY <1>1, <1>5, <1>6 DEF HarmlessThen

\* A request sent once more is as harmless as the first time.
LEMMA AskAgain ==
  ASSUME IInv, Learns, NEW p \in Procs, Transacting(p),
         pc'[p] = pc[p], NEW r, r = Ask(p, pc[p], msgId[p])
  PROVE  HarmlessThen(r) /\ Expected(r)'
  <1> DEFINE i == msgId[p]
  <1>1. pc[p] \in Waits /\ msgId[p] \in Ids /\ localId[p] \in Ids /\ remoteId[p] \in Ids
    BY Asks DEF Transacting, IInv, TypeInv
  <1>2. CASE pc[p] \in {"lookup", "announce", "leave"}
    <2>1. /\ r.proc = p /\ r.type # "DELETE"
          /\ r.type = "LOOK_UP" => r.host = His(p)
          /\ r.type = "ANNOUNCE" => r.host = His(p)
          /\ r.type = "LEAVE_INVITE" => r.host = Mine(p) /\ pc[p] = "leave"
      BY <1>2, Asks DEF Request
    <2>2. Expected(r)'
      BY <2>1 DEF Expected, Kinds, Where, Mine, His, Party, HasInvited, Inviting
    <2> QED
      BY <2>1, <2>2 DEF HarmlessThen
  <1>3. CASE pc[p] \in {"clear", "dellocal", "delremote"}
    <2>1. r.type = "DELETE" /\ r.id = i
      BY <1>3, Asks DEF Request
    <2>2. Expected(r)'
      BY <2>1 DEF Expected, Kinds
    <2>3. CASE pc[p] = "clear"
      <3>1. r.host = His(p)
        BY <2>3, Asks DEF Request
      <3>2. PICK o \in Procs : o = partner[p] /\ Gone(o)
        BY <2>3 DEF IInv, NumbersKnown, WaitersKnown, WaiterKnown
      <3>3. Gone(o)'
        BY <3>2 DEF Learns
      <3> QED
        BY <2>1, <2>2, <2>3, <3>1, <3>2, <3>3, DeleteOther
    <2>4. CASE pc[p] = "dellocal"
      <3>1. r.host = Where("LEAVE_INVITE", p)
        BY <2>4, Asks DEF Request, Where
      <3>2. i = localId[p] /\ Gone(p)'
        BY <2>4 DEF IInv, NumbersKnown, WaitersKnown, WaiterKnown, Gone
      <3>3. Remembered("LEAVE_INVITE", p, i)
        BY <3>2 DEF Remembered
      <3> QED
        BY <1>1, <2>1, <2>2, <3>1, <3>2, <3>3, DeleteOwn DEF Kinds
    <2>5. CASE pc[p] = "delremote"
      <3>1. r.host = Where("ANNOUNCE", p)
        BY <2>5, Asks DEF Request, Where
      <3>2. i = remoteId[p]
        BY <2>5 DEF IInv, NumbersKnown, WaitersKnown, WaiterKnown
      <3>3. Remembered("ANNOUNCE", p, i)
        BY <3>2 DEF Remembered
      <3> QED
        BY <1>1, <2>1, <2>2, <3>1, <3>3, DeleteOwn DEF Kinds
    <2> QED
      BY <1>3, <2>3, <2>4, <2>5
  <1> QED
    BY <1>1, <1>2, <1>3 DEF Waits

-----------------------------------------------------------------------------
(* Each step of a process: what it sends, and what it waits for then.      *)

SendsKnown == \A r \in requests' : r \in requests \/ (HarmlessThen(r) /\ Expected(r)')

\* A process whose own state is as it was still waits for what it waited for.
LEMMA OthersWait ==
  ASSUME IInv, Learns,
         \A q \in Procs :
            \/ /\ pc'[q] = pc[q] /\ msgId'[q] = msgId[q] /\ partner'[q] = partner[q]
               /\ localId'[q] = localId[q] /\ remoteId'[q] = remoteId[q]
            \/ WaiterKnown(q)'
  PROVE  WaitersKnown'
  <1> SUFFICES ASSUME NEW q \in Procs PROVE WaiterKnown(q)'
    BY DEF WaitersKnown
  <1>1. CASE /\ pc'[q] = pc[q] /\ msgId'[q] = msgId[q] /\ partner'[q] = partner[q]
             /\ localId'[q] = localId[q] /\ remoteId'[q] = remoteId[q]
    <2>1. WaiterKnown(q)
      BY DEF IInv, NumbersKnown, WaitersKnown
    <2>2. pc[q] = "clear" => Gone(partner[q])'
      <3> SUFFICES ASSUME pc[q] = "clear" PROVE Gone(partner[q])'
        OBVIOUS
      <3>1. PICK o \in Procs : o = partner[q] /\ Gone(o)
        BY <2>1 DEF WaiterKnown
      <3>2. Gone(o)'
        BY <3>1 DEF Learns
      <3> QED
        BY <1>1, <3>1, <3>2
    <2> QED
      BY <1>1, <2>1, <2>2 DEF WaiterKnown
  <1> QED
    BY <1>1

LEMMA BeginKnown ==
  ASSUME IInv, Learns, NEW p \in Procs, NEW s \in Waits, NEW id \in Ids, NEW rest,
         Begin(p, s, id, rest),
         \A q \in Procs : q # p => /\ localId'[q] = localId[q] /\ remoteId'[q] = remoteId[q]
                                   /\ partner'[q] = partner[q],
         s = "clear" => /\ pc[p] = "connect" /\ id = msgId[p] /\ partner'[p] = partner[p]
                        /\ Gone(partner[p]),
         s = "dellocal" => id = localId[p] /\ localId'[p] = localId[p],
         s = "delremote" => id = remoteId[p] /\ remoteId'[p] = remoteId[p]
  PROVE  SendsKnown /\ WaitersKnown'
  <1>1. /\ pc'[p] = s /\ msgId'[p] = id /\ requests' = requests \cup {Ask(p, s, id)}
        /\ \A q \in Procs : q # p => pc'[q] = pc[q] /\ msgId'[q] = msgId[q]
    BY DEF Begin, IInv, TypeInv
  <1>2. s = "clear" => \E o \in Procs : o = partner[p] /\ Gone(o) /\ Gone(o)' /\ msgId[p] # 0
    <2> SUFFICES ASSUME s = "clear"
                 PROVE  \E o \in Procs : o = partner[p] /\ Gone(o) /\ Gone(o)' /\ msgId[p] # 0
      OBVIOUS
    <2>1. partner[p] \in Procs /\ Gone(partner[p]) /\ msgId[p] # 0
      BY DEF IInv, NumbersKnown, WaitersKnown, WaiterKnown
    <2>2. PICK o \in Procs : o = partner[p] /\ Gone(o)
      BY <2>1
    <2>3. Gone(o)'
      BY <2>2 DEF Learns
    <2> QED
      BY <2>1, <2>2, <2>3
  <1>3. WaiterKnown(p)'
    <2>1. s = "clear" => partner'[p] \in Procs /\ msgId'[p] # 0 /\ Gone(partner[p])'
      BY <1>1, <1>2
    <2> QED
      BY <1>1, <2>1 DEF WaiterKnown, Waits
  <1>4. WaitersKnown'
    BY <1>1, <1>3, OthersWait
  <1>5. ASSUME NEW r, r = Ask(p, s, id) PROVE HarmlessThen(r) /\ Expected(r)'
    <2>1. CASE s \in {"lookup", "announce", "leave"}
      <3>1. /\ r.proc = p /\ r.type # "DELETE"
            /\ r.type = "LOOK_UP" => r.host = His(p)
            /\ r.type = "ANNOUNCE" => r.host = His(p)
            /\ r.type = "LEAVE_INVITE" => r.host = Mine(p) /\ s = "leave"
        BY <1>5, <2>1, Asks DEF Request
      <3>2. Expected(r)'
        BY <1>1, <3>1 DEF Expected, Kinds, Where, Mine, His, Party, HasInvited, Inviting
      <3> QED
        BY <3>1, <3>2 DEF HarmlessThen
    <2>2. CASE s \in {"clear", "dellocal", "delremote"}
      <3>1. r.type = "DELETE" /\ r.id = id
        BY <1>5, <2>2, Asks DEF Request
      <3>2. Expected(r)'
        BY <3>1 DEF Expected, Kinds
      <3>3. CASE s = "clear"
        <4>1. r.host = His(p) /\ pc[p] \in {"connect", "clear"} /\ r.id = msgId[p]
          BY <1>5, <3>1, <3>3, Asks DEF Request
        <4> QED
          BY <1>2, <3>2, <3>3, <4>1, DeleteOther
      <3>4. CASE s = "dellocal"
        <4>1. r.host = Where("LEAVE_INVITE", p) /\ Gone(p)'
          BY <1>1, <1>5, <3>4, Asks DEF Request, Where, Gone
        <4>2. Remembered("LEAVE_INVITE", p, id)
          BY <3>4 DEF Remembered
        <4> QED
          BY <3>1, <3>2, <4>1, <4>2, DeleteOwn DEF Kinds
      <3>5. CASE s = "delremote"
        <4>1. r.host = Where("ANNOUNCE", p)
          BY <1>5, <3>5, Asks DEF Request, Where
        <4>2. Remembered("ANNOUNCE", p, id)
          BY <3>5 DEF Remembered
        <4> QED
          BY <3>1, <3>2, <4>1, <4>2, DeleteOwn DEF Kinds
      <3> QED
        BY <2>2, <3>3, <3>4, <3>5
    <2> QED
      BY <2>1, <2>2 DEF Waits
  <1> QED
    BY <1>1, <1>4, <1>5 DEF SendsKnown

LEMMA DieKnown ==
  ASSUME IInv, Learns, NEW p \in Procs, Die(p)
  PROVE  WaitersKnown'
  <1>1. /\ pc'[p] = "dead"
        /\ \A q \in Procs : q # p =>
              /\ pc'[q] = pc[q] /\ msgId'[q] = msgId[q] /\ partner'[q] = partner[q]
              /\ localId'[q] = localId[q] /\ remoteId'[q] = remoteId[q]
    BY DEF Die, IInv, TypeInv
  <1>2. WaiterKnown(p)'
    BY <1>1 DEF WaiterKnown
  <1> QED
    BY <1>1, <1>2, OthersWait

\* The process is left as it was; at most it repeats its request.
LEMMA StillKnown ==
  ASSUME IInv, Learns, NEW p \in Procs, UNCHANGED <<pc, msgId, localId, remoteId, partner>>,
         requests' \subseteq requests \/ (Transacting(p) /\ Repeat(p))
  PROVE  SendsKnown /\ WaitersKnown'
  <1>1. WaitersKnown'
    BY OthersWait
  <1>2. CASE requests' \subseteq requests
    BY <1>1, <1>2 DEF SendsKnown
  <1>3. CASE Transacting(p) /\ Repeat(p)
    <2>1. requests' = requests \cup {Ask(p, pc[p], msgId[p])}
      BY <1>3 DEF Repeat
    <2>2. ASSUME NEW r, r = Ask(p, pc[p], msgId[p]) PROVE HarmlessThen(r) /\ Expected(r)'
      BY <1>3, <2>2, AskAgain
    <2> QED
      BY <1>1, <2>1, <2>2 DEF SendsKnown
  <1> QED
    BY <1>2, <1>3

LEMMA ReadKnown ==
  ASSUME IInv, NEW p \in Procs, NEW m \in responses, Read(p, m)
  PROVE  SendsKnown /\ WaitersKnown'
  <1>0. /\ Learns /\ TypeInv /\ m.proc = p /\ Transacting(p) /\ m \in ResponseType /\ m.id \in Ids
        /\ {"announce", "leave", "delremote"} \subseteq Waits /\ requests \subseteq requests
    BY ReadLearns DEF IInv, TypeInv, ResponseType, Read, Waits
  <1>01. /\ msgId[p] \in Ids /\ remoteId[p] \in Ids /\ localId[p] \in Ids /\ Impossible \in Ids
    BY TalkAssumption DEF IInv, TypeInv, Impossible, Ids
  <1>1. CASE Ignore(p, m)
    <2>1. UNCHANGED <<pc, msgId, localId, remoteId, partner>>
      BY <1>1 DEF Ignore, idVars, connVars
    <2>2. requests' = requests \/ Repeat(p)
      BY <1>1 DEF Ignore
    <2> QED
      BY <1>0, <2>1, <2>2, StillKnown
  <1>2. CASE LookedUp(p, m)
    <2>1. CASE m.ok
      <3>1. /\ pc' = [pc EXCEPT ![p] = "connect"] /\ msgId' = [msgId EXCEPT ![p] = m.id]
            /\ partner' = [partner EXCEPT ![p] = m.addr] /\ m.type = "LOOK_UP"
            /\ UNCHANGED <<localId, remoteId, requests>>
        BY <1>2, <2>1 DEF LookedUp
      <3>2. m.id # 0 /\ m.addr \in Procs
        BY <2>1, <3>1 DEF IInv, NumbersKnown, AnswersKnown
      <3>3. /\ pc'[p] = "connect" /\ msgId'[p] = m.id /\ partner'[p] = m.addr
            /\ \A q \in Procs : q # p =>
                  pc'[q] = pc[q] /\ msgId'[q] = msgId[q] /\ partner'[q] = partner[q]
        BY <3>1, <3>2 DEF IInv, TypeInv
      <3>4. WaiterKnown(p)'
        BY <3>2, <3>3 DEF WaiterKnown
      <3> QED
        BY <1>0, <3>1, <3>3, <3>4, OthersWait DEF SendsKnown
    <2>2. CASE ~m.ok
      <3>1. /\ Begin(p, "announce", Impossible, responses \ {m})
            /\ UNCHANGED <<localId, remoteId, partner>>
        BY <1>2, <2>2 DEF LookedUp
      <3> QED
        BY <1>0, <1>01, <3>1, BeginKnown
    <2> QED
      BY <2>1, <2>2
  <1>3. CASE Cleared(p, m)
    <2>1. /\ Begin(p, "announce", Impossible, responses \ {m})
          /\ UNCHANGED <<localId, remoteId>> /\ partner' = [partner EXCEPT ![p] = None]
      BY <1>3 DEF Cleared
    <2>2. \A q \in Procs : q # p => partner'[q] = partner[q]
      BY <2>1 DEF IInv, TypeInv
    <2> QED
      BY <1>0, <1>01, <2>1, <2>2, BeginKnown
  <1>4. CASE Announced(p, m)
    <2>1. /\ Begin(p, "leave", msgId[p], responses \ {m})
          /\ UNCHANGED <<localId, partner>> /\ remoteId' = [remoteId EXCEPT ![p] = m.id]
      BY <1>4 DEF Announced, connVars
    <2>2. \A q \in Procs : q # p => remoteId'[q] = remoteId[q]
      BY <2>1 DEF IInv, TypeInv
    <2> QED
      BY <1>0, <1>01, <2>1, <2>2, BeginKnown
  <1>5. CASE Refused(p, m)
    <2>1. /\ Die(p) /\ m.type = "ANNOUNCE"
          /\ requests' = requests \cup {Request(p, "DELETE", His(p), m.id),
                                        Request(p, "DELETE", Mine(p), localId[p])}
      BY <1>5 DEF Refused
    <2>2. Gone(p)'
      BY <2>1 DEF Die, Gone, IInv, TypeInv
    <2>3. ASSUME NEW r, r = Request(p, "DELETE", His(p), m.id)
          PROVE  HarmlessThen(r) /\ Expected(r)'
      <3>1. r.host = Where("ANNOUNCE", p) /\ r.id = m.id /\ r.type = "DELETE"
        BY <2>3 DEF Request, Where
      <3>2. Remembered("ANNOUNCE", p, m.id)
        BY <1>0, <2>1 DEF Remembered
      <3> QED
        BY <1>0, <3>1, <3>2, DeleteOwn DEF Kinds, Expected
    <2>4. ASSUME NEW r, r = Request(p, "DELETE", Mine(p), localId[p])
          PROVE  HarmlessThen(r) /\ Expected(r)'
      <3>1. r.host = Where("LEAVE_INVITE", p) /\ r.id = localId[p] /\ r.type = "DELETE"
        BY <2>4 DEF Request, Where
      <3>2. Remembered("LEAVE_INVITE", p, localId[p])
        BY DEF Remembered
      <3> QED
        BY <1>01, <2>2, <3>1, <3>2, DeleteOwn DEF Kinds, Expected
    <2> QED
      BY <1>0, <2>1, <2>3, <2>4, DieKnown DEF SendsKnown
  <1>6. CASE Left(p, m)
    <2>1. /\ pc' = [pc EXCEPT ![p] = "accept"] /\ m.type = "LEAVE_INVITE"
          /\ localId' = [localId EXCEPT ![p] = m.id]
          /\ UNCHANGED <<requests, msgId, remoteId, partner>>
      BY <1>6 DEF Left, connVars
    <2>2. m.id # 0
      BY <2>1 DEF IInv, NumbersKnown, AnswersKnown
    <2>3. /\ pc'[p] = "accept" /\ localId'[p] = m.id
          /\ \A q \in Procs : q # p => pc'[q] = pc[q] /\ localId'[q] = localId[q]
      BY <2>1 DEF IInv, TypeInv
    <2>4. WaiterKnown(p)'
      BY <2>2, <2>3 DEF WaiterKnown
    <2> QED
      BY <1>0, <2>1, <2>3, <2>4, OthersWait DEF SendsKnown
  <1>7. CASE Deleted(p, m)
    <2>1. CASE pc[p] = "dellocal"
      <3>1. /\ Begin(p, "delremote", remoteId[p], responses \ {m})
            /\ UNCHANGED <<localId, remoteId, partner>>
        BY <1>7, <2>1 DEF Deleted, connVars
      <3> QED
        BY <1>0, <1>01, <3>1, BeginKnown
    <2>2. CASE pc[p] # "dellocal"
      <3>1. /\ pc' = [pc EXCEPT ![p] = "talking"]
            /\ UNCHANGED <<requests, msgId, localId, remoteId, partner>>
        BY <1>7, <2>2 DEF Deleted, connVars
      <3>2. pc'[p] = "talking" /\ \A q \in Procs : q # p => pc'[q] = pc[q]
        BY <3>1 DEF IInv, TypeInv
      <3>3. WaiterKnown(p)'
        BY <3>2 DEF WaiterKnown
      <3> QED
        BY <1>0, <3>1, <3>2, <3>3, OthersWait DEF SendsKnown
    <2> QED
      BY <2>1, <2>2
  <1> QED
    BY <1>1, <1>2, <1>3, <1>4, <1>5, <1>6, <1>7 DEF Read

\* Nobody listens at the process that left the invitation: it is gone for good.
LEMMA NobodyListens ==
  ASSUME IInv, NEW p \in Procs, pc[p] = "connect", pc[partner[p]] \notin Inviting
  PROVE  Gone(partner[p])
  <1> DEFINE o == partner[p]
             i == msgId[p]
  <1>1. o \in Procs /\ i # 0 /\ i \in Ids /\ His(p) \in Hosts
    BY Machines DEF IInv, TypeInv, NumbersKnown, WaitersKnown, WaiterKnown
  <1>2. Named(His(p), "LEAVE_INVITE", o, i)
    BY <1>1 DEF Named, Known
  <1> HIDE DEF o, i
  <1>3. HasInvited(o)
    BY <1>1, <1>2 DEF IInv, NumbersKnown, InPlace, Kinds
  <1> QED
    BY <1>3 DEF HasInvited, o

LEMMA ProcessKnown ==
  ASSUME IInv, NEW p \in Procs,
         \/ Start(p) \/ Resend(p) \/ Interrupt(p) \/ Connect(p)
         \/ Ring(p) \/ Proceed(p) \/ Kill(p) \/ HangUp(p)
  PROVE  SendsKnown /\ WaitersKnown'
  <1>0. Learns /\ {"lookup", "clear", "announce", "dellocal"} \subseteq Waits
    BY ProcessLearns DEF IInv, Waits
  <1>01. /\ msgId[p] \in Ids /\ remoteId[p] + 1 \in Ids /\ localId[p] \in Ids /\ 0 \in Ids
    BY TalkAssumption DEF IInv, TypeInv, Ids
  <1>1. CASE Start(p)
    BY <1>0, <1>01, <1>1, BeginKnown DEF Start, connVars
  <1>2. CASE Resend(p)
    BY <1>0, <1>2, StillKnown DEF Resend, idVars, connVars
  <1>3. CASE Interrupt(p)
    BY <1>0, <1>3, StillKnown DEF Interrupt, idVars, connVars
  <1>4. CASE Connect(p)
    <2>0. pc[p] = "connect" /\ UNCHANGED <<localId, remoteId, partner>>
      BY <1>4 DEF Connect
    <2>1. CASE pc[partner[p]] \in Inviting
      <3>1. pc' = [pc EXCEPT ![p] = "talking"] /\ UNCHANGED <<requests, msgId>>
        BY <1>4, <2>1 DEF Connect, netVars
      <3>2. pc'[p] = "talking" /\ \A q \in Procs : q # p => pc'[q] = pc[q]
        BY <3>1 DEF IInv, TypeInv
      <3>3. WaiterKnown(p)'
        BY <3>2 DEF WaiterKnown
      <3> QED
        BY <1>0, <2>0, <3>1, <3>2, <3>3, OthersWait DEF SendsKnown
    <2>2. CASE pc[partner[p]] \notin Inviting
      <3>1. Begin(p, "clear", msgId[p], responses)
        BY <1>4, <2>2 DEF Connect
      <3>2. Gone(partner[p])
        BY <2>0, <2>2, NobodyListens
      <3> QED
        BY <1>0, <1>01, <2>0, <3>1, <3>2, BeginKnown
    <2> QED
      BY <2>1, <2>2
  <1>5. CASE Ring(p)
    <2>1. /\ Begin(p, "announce", remoteId[p] + 1, responses)
          /\ UNCHANGED <<localId, remoteId>>
          /\ \A q \in Procs : q # p => partner'[q] = partner[q]
      BY <1>5 DEF Ring, IInv, TypeInv
    <2> QED
      BY <1>0, <1>01, <2>1, BeginKnown
  <1>6. CASE Proceed(p)
    <2>1. /\ Begin(p, "dellocal", localId[p], responses)
          /\ UNCHANGED <<localId, remoteId, partner>>
      BY <1>6 DEF Proceed
    <2> QED
      BY <1>0, <1>01, <2>1, BeginKnown
  <1>7. CASE Kill(p)
    BY <1>0, <1>7, DieKnown DEF Kill, SendsKnown
  <1>8. CASE HangUp(p)
    BY <1>0, <1>8, DieKnown DEF HangUp, SendsKnown
  <1> QED
    BY <1>1, <1>2, <1>3, <1>4, <1>5, <1>6, <1>7, <1>8

LEMMA AcceptKnown ==
  ASSUME IInv, NEW p \in Procs, NEW q \in Procs, Accept(p, q)
  PROVE  SendsKnown /\ WaitersKnown'
  <1>1. /\ pc' = [pc EXCEPT ![p] = "accepted"] /\ partner' = [partner EXCEPT ![p] = q]
        /\ UNCHANGED <<requests, msgId, localId, remoteId>> /\ pc[p] = "accept" /\ Learns
    BY AcceptLearns DEF Accept, netVars, idVars, IInv
  <1>2. pc'[p] = "accepted"
        /\ \A x \in Procs : x # p => pc'[x] = pc[x] /\ partner'[x] = partner[x]
    BY <1>1 DEF IInv, TypeInv
  <1>3. localId[p] # 0
    BY <1>1 DEF IInv, NumbersKnown, WaitersKnown, WaiterKnown
  <1>4. WaiterKnown(p)'
    BY <1>1, <1>2, <1>3 DEF WaiterKnown
  <1> QED
    BY <1>1, <1>2, <1>4, OthersWait DEF SendsKnown

LEMMA LoseKnown ==
  ASSUME IInv, Lose
  PROVE  SendsKnown /\ WaitersKnown'
  <1>1. Learns
    BY LoseLearns DEF IInv
  <1> QED
    BY <1>1, OthersWait DEF Lose, idVars, connVars, SendsKnown

\* None of them disturbs what is known of numbers.
LEMMA StepKnown ==
  ASSUME IInv, Learns, SendsKnown, WaitersKnown'
  PROVE  NumbersKnown'
  <1>1. \A r \in requests' : r \in requests \/ (HarmlessThen(r) /\ Expected(r)')
    BY DEF SendsKnown
  <1> QED
    BY <1>1, LearnsKeeps, LearnsRequests DEF NumbersKnown

-----------------------------------------------------------------------------
(* The steps of the daemon: it gives out numbers, and the answers carry    *)
(* them.                                                                   *)

\* The name that a request may give the next number.
Fresh(r, h, t, p, i) ==
    /\ h = r.host /\ t = r.type /\ p = r.proc
    /\ i = NewId(r.host) /\ lastId'[r.host] = NewId(r.host)
    /\ Listed(h, t, p, i)'

LEMMA NewIdFresh ==
  ASSUME TypeInv, NotComeRound, NEW h \in Hosts
  PROVE  NewId(h) = lastId[h] + 1 /\ lastId[h] \in Nat
  BY NewIdType, TypeFacts, TalkAssumption DEF NotComeRound

\* No name appears but that one.
LEMMA HandledNamed ==
  ASSUME IInv, NEW r \in requests, NEW m, Handled(r, m), NEW h \in Hosts, NEW t \in Kinds,
         NEW p \in Procs, NEW i, Named(h, t, p, i)'
  PROVE  Named(h, t, p, i) \/ Fresh(r, h, t, p, i)
  <1>0. /\ i # 0 /\ UNCHANGED <<pc, msgId, localId, remoteId, partner>>
        /\ responses' = responses \cup {m} /\ m.proc = r.proc /\ m.type = r.type
        /\ Expected(r) /\ Tabled(r, m)
    BY DEF Named, Handled, idVars, connVars, IInv, NumbersKnown, RequestsKnown
  <1>1. ASSUME Listed(h, t, p, i)'
        PROVE  Named(h, t, p, i) \/ Fresh(r, h, t, p, i)
    <2>1. CASE h # r.host
      <3>1. table'[h] = table[h]
        BY <1>0, <2>1 DEF Tabled
      <3>2. Listed(h, t, p, i)
        BY <1>1, <3>1 DEF Listed
      <3> QED
        BY <1>0, <3>2 DEF Named
    <2>2. CASE h = r.host
      <3>1. Holds(table'[r.host], Entry(t, p, i))
        BY <1>1, <2>2 DEF Listed
      <3>2. CASE Holds(table[r.host], Entry(t, p, i))
        BY <1>0, <2>2, <3>2 DEF Named, Listed
      <3>3. CASE /\ lastId'[r.host] = NewId(r.host)
                 /\ Entry(t, p, i) = Entry(r.type, r.proc, NewId(r.host))
        <4>1. t = r.type /\ p = r.proc /\ i = NewId(r.host)
          BY <3>3 DEF Entry
        <4> QED
          BY <1>1, <2>2, <3>3, <4>1 DEF Fresh
      <3> QED
        BY <1>0, <3>1, <3>2, <3>3 DEF Tabled
    <2> QED
      BY <2>1, <2>2
  <1>2. ASSUME h = Where(t, p), Remembered(t, p, i)'
        PROVE  Named(h, t, p, i) \/ Listed(h, t, p, i)'
    <2>1. CASE Remembered(t, p, i)
      BY <1>0, <1>2, <2>1 DEF Named
    <2>2. CASE m.type = t /\ m.proc = p /\ m.id = i
      <3>1. h = r.host /\ t = r.type /\ p = r.proc
        BY <1>0, <1>2, <2>2 DEF Expected
      <3>2. Holds(table'[r.host], Entry(r.type, r.proc, m.id))
        BY <1>0, <2>2, <3>1 DEF Tabled, Kinds
      <3> QED
        BY <2>2, <3>1, <3>2 DEF Listed
    <2> QED
      BY <1>0, <1>2, <2>1, <2>2 DEF Remembered
  <1>3. ASSUME t = "LEAVE_INVITE", Known(h, p, i)'
        PROVE  Named(h, t, p, i)
    <2>1. CASE Known(h, p, i)
      BY <1>0, <1>3, <2>1 DEF Named
    <2>2. CASE m.type = "LOOK_UP" /\ m.ok /\ h = His(m.proc) /\ m.addr = p /\ m.id = i
      <3>1. h = r.host
        BY <1>0, <2>2 DEF Expected
      <3>2. Holds(table[r.host], Entry("LEAVE_INVITE", p, i))
        BY <1>0, <2>2 DEF Tabled
      <3> QED
        BY <1>0, <1>3, <3>1, <3>2 DEF Named, Listed
    <2> QED
      BY <1>0, <1>3, <2>1, <2>2 DEF Known, His, Party
  <1>4. h = Where(t, p) <=> h = Where(t, p)'
    BY DEF Where, Mine, His, Party
  <1> QED
    BY <1>1, <1>2, <1>3, <1>4 DEF Named, Where, Mine, His, Party

LEMMA HandleOneName ==
  ASSUME IInv, NotComeRound, NEW r \in requests, NEW m, Handled(r, m)
  PROVE  OneName'
  <1> SUFFICES ASSUME NEW h \in Hosts \ exited, NEW i \in Ids, NEW p \in Procs, NEW t \in Kinds,
                      Named(h, t, p, i)'
               PROVE  /\ i <= lastId'[h]
                      /\ \A q \in Procs, u \in Kinds : Named(h, u, q, i)' => p = q /\ t = u
    BY DEF OneName, Handled
  <1>1. NewId(h) = lastId[h] + 1 /\ lastId[h] \in Nat
    BY NewIdFresh DEF IInv
  <1>2. lastId'[h] \in {lastId[h], NewId(h)}
    BY DEF Handled, Tabled
  <1>3. \A q \in Procs, u \in Kinds : Named(h, u, q, i)' => Named(h, u, q, i) \/ Fresh(r, h, u, q, i)
    BY HandledNamed
  <1>4. CASE Named(h, t, p, i)
    <2>1. /\ i <= lastId[h]
          /\ \A q \in Procs, u \in Kinds : Named(h, u, q, i) => p = q /\ t = u
      BY <1>4 DEF IInv, NumbersKnown, OneName
    <2>2. i # NewId(h)
      BY <1>1, <2>1 DEF Ids
    <2>3. i <= lastId'[h]
      BY <1>1, <1>2, <2>1, TalkAssumption DEF Ids
    <2> QED
      BY <1>3, <2>1, <2>2, <2>3 DEF Fresh
  <1>5. CASE Fresh(r, h, t, p, i)
    <2>1. i = lastId[h] + 1 /\ i = lastId'[h]
      BY <1>1, <1>5 DEF Fresh
    <2>2. \A q \in Procs, u \in Kinds : ~Named(h, u, q, i)
      <3> SUFFICES ASSUME NEW q \in Procs, NEW u \in Kinds, Named(h, u, q, i) PROVE FALSE
        OBVIOUS
      <3>1. i <= lastId[h]
        BY DEF IInv, NumbersKnown, OneName
      <3> QED
        BY <1>1, <2>1, <3>1
    <2>3. \A q \in Procs, u \in Kinds : Named(h, u, q, i)' => p = q /\ t = u
      BY <1>3, <1>5, <2>2 DEF Fresh
    <2>4. i <= lastId'[h]
      BY <1>1, <2>1
    <2> QED
      BY <2>3, <2>4
  <1> QED
    BY <1>3, <1>4, <1>5

LEMMA HandleInPlace ==
  ASSUME IInv, NEW r \in requests, NEW m, Handled(r, m)
  PROVE  InPlace'
  <1> SUFFICES ASSUME NEW h \in Hosts, NEW i \in Ids, NEW p \in Procs, NEW t \in Kinds,
                      Named(h, t, p, i)'
               PROVE  h = Where(t, p) /\ (t = "LEAVE_INVITE" => HasInvited(p))
    BY DEF InPlace, Handled, Where, Mine, His, Party, HasInvited, Gone
  <1>1. CASE Named(h, t, p, i)
    BY <1>1 DEF IInv, NumbersKnown, InPlace
  <1>2. CASE Fresh(r, h, t, p, i)
    BY <1>2 DEF Fresh, IInv, NumbersKnown, RequestsKnown, Expected
  <1> QED
    BY <1>1, <1>2, HandledNamed

\* Whatever is in a table has a name.
LEMMA HoldsNamed ==
  ASSUME TypeInv, NEW h \in Hosts, NEW e, Holds(table[h], e)
  PROVE  /\ e \in EntryType /\ e = Entry(e.type, e.proc, e.id)
         /\ Named(h, e.type, e.proc, e.id)
  <1>1. PICK k \in 1 .. Len(table[h]) : table[h][k] = e
    BY DEF Holds
  <1>2. e \in EntryType /\ e = Entry(e.type, e.proc, e.id)
    BY <1>1, HoldsAt
  <1>3. e.id # 0
    BY <1>2, TalkAssumption DEF EntryType
  <1> QED
    BY <1>2, <1>3 DEF Named, Listed

LEMMA HandleApart ==
  ASSUME IInv, NotComeRound, NEW r \in requests, NEW m, Handled(r, m)
  PROVE  TablesApart'
  <1> SUFFICES ASSUME NEW h \in Hosts \ exited PROVE Apart(table'[h])
    BY DEF TablesApart, Handled
  <1>1. Apart(table[h])
    BY DEF IInv, NumbersKnown, TablesApart
  <1>2. CASE h # r.host
    BY <1>1, <1>2 DEF Handled, Tabled
  <1>3. CASE h = r.host
    <2>1. \A e \in EntryType : Holds(table[h], e) => e.id # NewId(h)
      <3> SUFFICES ASSUME NEW e \in EntryType, Holds(table[h], e) PROVE e.id # NewId(h)
        OBVIOUS
      <3>1. Named(h, e.type, e.proc, e.id) /\ e.type \in Kinds /\ e.proc \in Procs
        BY HoldsNamed DEF IInv, EntryType
      <3>2. e.id \in Ids
        BY TalkAssumption DEF EntryType, Ids
      <3>3. e.id <= lastId[h]
        BY <3>1, <3>2 DEF IInv, NumbersKnown, OneName
      <3>4. NewId(h) = lastId[h] + 1 /\ lastId[h] \in Nat
        BY NewIdFresh DEF IInv
      <3> QED
        BY <3>2, <3>3, <3>4 DEF Ids
    <2> QED
      BY <1>1, <1>3, <2>1 DEF Handled, Tabled
  <1> QED
    BY <1>2, <1>3

LEMMA HandleAnswers ==
  ASSUME IInv, NEW r \in requests, NEW m, Handled(r, m)
  PROVE  AnswersKnown'
  <1>1. /\ responses' = responses \cup {m} /\ pc' = pc /\ Expected(r) /\ Tabled(r, m)
        /\ m.type = r.type /\ m.proc = r.proc /\ r.host \in Hosts
    BY DEF Handled, IInv, NumbersKnown, RequestsKnown, TypeInv, RequestType
  <1>2. ASSUME m.type = "LEAVE_INVITE" PROVE m.id # 0 /\ HasInvited(m.proc)
    <2> DEFINE u == table'[r.host]
    <2>1. Holds(u, Entry(r.type, r.proc, m.id)) /\ u \in Seq(EntryType)
      BY <1>1, <1>2 DEF Tabled
    <2> HIDE DEF u
    <2>2. Entry(r.type, r.proc, m.id) \in EntryType
      BY <2>1, LenProperties DEF Holds
    <2> QED
      BY <1>1, <1>2, <2>2, TalkAssumption DEF Entry, EntryType, Expected
  <1>3. ASSUME m.type = "LOOK_UP", m.ok PROVE m.id # 0 /\ m.addr \in Procs
    <2>1. Holds(table[r.host], Entry("LEAVE_INVITE", m.addr, m.id)) /\ m.addr \in Procs
      BY <1>1, <1>3 DEF Tabled
    <2>2. Entry("LEAVE_INVITE", m.addr, m.id) \in EntryType
      BY <1>1, <2>1, HoldsNamed DEF IInv
    <2> QED
      BY <2>1, <2>2, TalkAssumption DEF Entry, EntryType
  <1> QED
    BY <1>1, <1>2, <1>3 DEF IInv, NumbersKnown, AnswersKnown, HasInvited, Gone

LEMMA HandleDeletes ==
  ASSUME IInv, NotComeRound, NEW r \in requests, NEW m, Handled(r, m)
  PROVE  DeletesKnown'
  <1> SUFFICES ASSUME NEW d \in requests, d.type = "DELETE", d.host \notin exited
               PROVE  /\ d.id <= lastId'[d.host]
                      /\ \A p \in Procs : Named(d.host, "LEAVE_INVITE", p, d.id)' => Gone(p)
    BY DEF DeletesKnown, Harmless, Handled, Gone
  <1>1. d.host \in Hosts /\ d.id \in Ids
    BY DEF IInv, TypeInv, RequestType
  <1>2. /\ d.id <= lastId[d.host]
        /\ \A p \in Procs : Named(d.host, "LEAVE_INVITE", p, d.id) => Gone(p)
    BY DEF IInv, NumbersKnown, DeletesKnown, Harmless
  <1>3. NewId(d.host) = lastId[d.host] + 1 /\ lastId[d.host] \in Nat
    BY <1>1, NewIdFresh DEF IInv
  <1>4. lastId'[d.host] \in {lastId[d.host], NewId(d.host)}
    BY <1>1 DEF Handled, Tabled
  <1>5. d.id <= lastId'[d.host] /\ d.id # NewId(d.host)
    BY <1>1, <1>2, <1>3, <1>4 DEF Ids
  <1>6. \A p \in Procs : Named(d.host, "LEAVE_INVITE", p, d.id)' =>
           Named(d.host, "LEAVE_INVITE", p, d.id)
    BY <1>1, <1>5, HandledNamed DEF Fresh, Kinds
  <1> QED
    BY <1>2, <1>5, <1>6

\* The heart of it: the only invitation a DELETE takes is one of a process
\* that is gone.
LEMMA HandleTakes ==
  ASSUME IInv, NEW r \in requests, NEW m, Handled(r, m), NEW h \in Hosts \ exited,
         NEW p \in Procs, NEW i \in Ids, Listed(h, "LEAVE_INVITE", p, i), i # 0, ~Gone(p)
  PROVE  Listed(h, "LEAVE_INVITE", p, i)'
  <1> DEFINE e == Entry("LEAVE_INVITE", p, i)
  <1>1. Holds(table[h], e) /\ e.id = i /\ e.type = "LEAVE_INVITE"
    BY DEF Listed, Entry
  <1> HIDE DEF e
  <1>2. CASE h # r.host
    BY <1>1, <1>2 DEF Handled, Tabled, Listed, e
  <1>3. CASE h = r.host
    <2>1. ~(r.type = "DELETE" /\ i = r.id)
      BY <1>3 DEF IInv, NumbersKnown, DeletesKnown, Harmless, Named
    <2>2. ~(r.type = "ANNOUNCE" /\ e.type = r.type)
      BY <1>1
    <2>3. Holds(table'[h], e)
      BY <1>1, <1>3, <2>1, <2>2 DEF Handled, Tabled
    <2> QED
      BY <2>3 DEF Listed, e
  <1> QED
    BY <1>2, <1>3

LEMMA HandleKept ==
  ASSUME IInv, NEW r \in requests, NEW m, Handled(r, m)
  PROVE  Kept'
  <1> SUFFICES ASSUME NEW p \in Procs, NEW i \in Ids, Mine(p) \notin exited, ~Gone(p),
                      Named(Mine(p), "LEAVE_INVITE", p, i)'
               PROVE  Listed(Mine(p), "LEAVE_INVITE", p, i)'
    BY DEF Kept, Handled, Mine, Gone
  <1>1. Mine(p) \in Hosts /\ i # 0
    BY Machines DEF Named
  <1>2. CASE Named(Mine(p), "LEAVE_INVITE", p, i)
    <2>1. Listed(Mine(p), "LEAVE_INVITE", p, i)
      BY <1>2 DEF IInv, NumbersKnown, Kept
    <2> QED
      BY <1>1, <2>1, HandleTakes
  <1>3. CASE Fresh(r, Mine(p), "LEAVE_INVITE", p, i)
    BY <1>3 DEF Fresh
  <1> QED
    BY <1>1, <1>2, <1>3, HandledNamed DEF Kinds

LEMMA HandleKnown ==
  ASSUME IInv, NotComeRound, NEW r \in requests, NEW m, Handled(r, m)
  PROVE  NumbersKnown'
  <1>1. RequestsKnown'
    BY DEF IInv, NumbersKnown, RequestsKnown, Handled, Expected, Where, Mine, His, Party,
           HasInvited, Gone
  <1>2. WaitersKnown'
    BY DEF IInv, NumbersKnown, WaitersKnown, WaiterKnown, Handled, idVars, connVars, Gone
  <1> QED
    BY <1>1, <1>2, HandleOneName, HandleInPlace, HandleApart, HandleAnswers, HandleDeletes,
       HandleKept DEF NumbersKnown

\* The daemon exits, and forgets: there are fewer names.
LEMMA ExitKnown ==
  ASSUME IInv, NEW x \in Hosts, IdleExit(x)
  PROVE  NumbersKnown'
  <1>1. /\ UNCHANGED <<requests, responses, pc, msgId, localId, remoteId, partner>>
        /\ exited' = exited \cup {x} /\ table'[x] = << >>
        /\ \A h \in Hosts : h # x => table'[h] = table[h] /\ lastId'[h] = lastId[h]
    BY DEF IdleExit, idVars, connVars, IInv, TypeInv
  <1>3. ASSUME NEW h \in Hosts, NEW t, NEW p, NEW i, Listed(h, t, p, i)'
        PROVE  Listed(h, t, p, i)
    <2>1. h # x
      BY <1>1, <1>3 DEF Listed, Holds
    <2> QED
      BY <1>1, <1>3, <2>1 DEF Listed
  <1>4. ASSUME NEW h \in Hosts, NEW t, NEW p, NEW i, Named(h, t, p, i)'
        PROVE  Named(h, t, p, i)
    BY <1>1, <1>3, <1>4 DEF Named, Where, Mine, His, Party, Remembered, Known
  <1>5. OneName'
    <2> SUFFICES ASSUME NEW h \in Hosts \ exited', NEW i \in Ids, NEW p \in Procs,
                        NEW t \in Kinds, Named(h, t, p, i)'
                 PROVE  /\ i <= lastId'[h]
                        /\ \A q \in Procs, u \in Kinds : Named(h, u, q, i)' => p = q /\ t = u
      BY DEF OneName
    <2>1. h \in Hosts \ exited /\ lastId'[h] = lastId[h]
      BY <1>1
    <2>2. Named(h, t, p, i)
      BY <1>4
    <2>3. \A q \in Procs, u \in Kinds : Named(h, u, q, i)' => Named(h, u, q, i)
      BY <1>4
    <2> QED
      BY <2>1, <2>2, <2>3 DEF IInv, NumbersKnown, OneName
  <1>6. InPlace'
    BY <1>1, <1>4 DEF IInv, NumbersKnown, InPlace, Where, Mine, His, Party, HasInvited, Gone
  <1>7. TablesApart'
    BY <1>1 DEF IInv, NumbersKnown, TablesApart
  <1>8. RequestsKnown' /\ AnswersKnown'
    BY <1>1 DEF IInv, NumbersKnown, RequestsKnown, Expected, AnswersKnown, Where, Mine, His,
                Party, HasInvited, Gone
  <1>9. DeletesKnown'
    <2> SUFFICES ASSUME NEW d \in requests, d.type = "DELETE", d.host \notin exited'
                 PROVE  /\ d.id <= lastId'[d.host]
                        /\ \A p \in Procs : Named(d.host, "LEAVE_INVITE", p, d.id)' => Gone(p)
      BY <1>1 DEF DeletesKnown, Harmless, Gone
    <2>1. d.host \in Hosts /\ d.host \notin exited /\ lastId'[d.host] = lastId[d.host]
      BY <1>1 DEF IInv, TypeInv, RequestType
    <2> QED
      BY <1>4, <2>1 DEF IInv, NumbersKnown, DeletesKnown, Harmless
  <1>10. WaitersKnown'
    BY <1>1 DEF IInv, NumbersKnown, WaitersKnown, WaiterKnown, Gone
  <1>11. Kept'
    <2> SUFFICES ASSUME NEW p \in Procs, NEW i \in Ids, Mine(p) \notin exited', ~Gone(p),
                        Named(Mine(p), "LEAVE_INVITE", p, i)'
                 PROVE  Listed(Mine(p), "LEAVE_INVITE", p, i)'
      BY <1>1 DEF Kept, Mine, Gone
    <2>1. Mine(p) \in Hosts /\ Mine(p) # x /\ Mine(p) \notin exited
      BY <1>1, Machines
    <2>2. Listed(Mine(p), "LEAVE_INVITE", p, i)
      BY <1>4, <2>1 DEF IInv, NumbersKnown, Kept
    <2> QED
      BY <1>1, <2>1, <2>2 DEF Listed, Mine
  <1> QED
    BY <1>5, <1>6, <1>7, <1>8, <1>9, <1>10, <1>11 DEF NumbersKnown
-----------------------------------------------------------------------------
(* The whole system.                                                       *)

LEMMA StepLearns ==
  ASSUME IInv, [Next]_vars,
         ~(\E r \in requests : Handle(r)), ~(\E x \in Hosts : IdleExit(x))
  PROVE  Learns /\ SendsKnown /\ WaitersKnown'
  <1>1. CASE UNCHANGED vars
    <2>1. UNCHANGED <<table, lastId, exited, requests, responses, pc, msgId, localId, remoteId,
                      partner>>
      BY <1>1 DEF vars, daemonVars, netVars, idVars, connVars
    <2>2. Learns
      BY <2>1 DEF Learns, Gone, HasInvited
    <2> QED
      BY <2>1, <2>2, OthersWait DEF SendsKnown
  <1>2. ASSUME NEW p \in Procs,
               \/ Start(p) \/ Resend(p) \/ Interrupt(p) \/ Connect(p)
               \/ Ring(p) \/ Proceed(p) \/ Kill(p) \/ HangUp(p)
        PROVE  Learns /\ SendsKnown /\ WaitersKnown'
    BY <1>2, ProcessLearns, ProcessKnown DEF IInv
  <1>3. ASSUME NEW p \in Procs, NEW m \in responses, Read(p, m)
        PROVE  Learns /\ SendsKnown /\ WaitersKnown'
    BY <1>3, ReadLearns, ReadKnown DEF IInv
  <1>4. ASSUME NEW p \in Procs, NEW q \in Procs, Accept(p, q)
        PROVE  Learns /\ SendsKnown /\ WaitersKnown'
    BY <1>4, AcceptLearns, AcceptKnown DEF IInv
  <1>5. CASE Lose
    BY <1>5, LoseLearns, LoseKnown DEF IInv
  <1> QED
    BY <1>1, <1>2, <1>3, <1>4, <1>5 DEF Next

LEMMA InitInv == Init => IInv
  <1> SUFFICES ASSUME Init PROVE IInv
    OBVIOUS
  <1>1. TypeInv /\ Linked
    BY InitType, InitLinked
  <1>2. \A h \in Hosts, t \in Kinds, p \in Procs : \A i : ~Named(h, t, p, i)
    BY DEF Init, Named, Listed, Holds, Remembered, Known
  <1>3. OneName /\ InPlace /\ TablesApart
    BY <1>2 DEF Init, OneName, InPlace, TablesApart, Apart
  <1>4. RequestsKnown /\ AnswersKnown /\ DeletesKnown /\ WaitersKnown
    BY DEF Init, RequestsKnown, AnswersKnown, DeletesKnown, WaitersKnown, WaiterKnown
  <1>5. Kept
    BY <1>2, Machines DEF Kept, Kinds
  <1> QED
    BY <1>1, <1>3, <1>4, <1>5 DEF IInv, NumbersKnown

LEMMA StepInv == IInv /\ NotComeRound /\ [Next]_vars => IInv'
  <1> SUFFICES ASSUME IInv, NotComeRound, [Next]_vars PROVE IInv'
    OBVIOUS
  <1>1. TypeInv' /\ Linked'
    BY StepType, StepLinked DEF IInv
  <1>2. CASE \E r \in requests : Handle(r)
    <2>1. PICK r \in requests : Handle(r)
      BY <1>2
    <2>2. PICK m : Handled(r, m)
      BY <2>1, HandleHandled DEF IInv
    <2> QED
      BY <1>1, <2>2, HandleKnown DEF IInv
  <1>3. CASE \E x \in Hosts : IdleExit(x)
    BY <1>1, <1>3, ExitKnown DEF IInv
  <1>4. CASE ~(\E r \in requests : Handle(r)) /\ ~(\E x \in Hosts : IdleExit(x))
    BY <1>1, <1>4, StepLearns, StepKnown DEF IInv
  <1> QED
    BY <1>2, <1>3, <1>4

LEMMA NumbersStand == Spec /\ []NotComeRound => []IInv
  BY InitInv, StepInv, PTL DEF Spec

LEMMA InvFound == IInv => CanBeFound
  <1> SUFFICES ASSUME IInv, NEW p \in Procs, pc[p] = "accept", Mine(p) \notin exited
               PROVE  Invited(p)
    BY DEF CanBeFound
  <1> DEFINE i == localId[p]
             t == table[Mine(p)]
  <1>1. i # 0 /\ i \in Ids /\ ~Gone(p) /\ Mine(p) \in Hosts
    BY Machines DEF IInv, TypeInv, NumbersKnown, WaitersKnown, WaiterKnown, Gone
  <1>2. Named(Mine(p), "LEAVE_INVITE", p, i)
    BY <1>1 DEF Named, Where, Remembered
  <1>3. Listed(Mine(p), "LEAVE_INVITE", p, i)
    BY <1>1, <1>2 DEF IInv, NumbersKnown, Kept
  <1>4. Apart(t) /\ DOMAIN t = 1 .. Len(t)
    BY <1>1, TypeFacts DEF IInv, NumbersKnown, TablesApart
  <1>5. PICK k \in 1 .. Len(t) : t[k] = Entry("LEAVE_INVITE", p, i)
    BY <1>3 DEF Listed, Holds
  <1>6. t[k].id = i /\ t[k].type = "LEAVE_INVITE" /\ t[k].proc = p
    BY <1>5 DEF Entry
  <1> HIDE DEF i, t
  <1>7. \A j \in 1 .. Len(t) : j # k =>
           t[j].id # i /\ ~(t[j].type = "LEAVE_INVITE" /\ t[j].proc = p)
    BY <1>4, <1>6 DEF Apart
  <1> QED
    BY <1>4, <1>5, <1>7 DEF Invited, Entry, i, t

\* Whoever waits to be called back can be found, once, under the number it will
\* be deleted by: whatever is lost, late or repeated, and whoever is killed.
THEOREM InvitationsStay == Spec /\ []NotComeRound => []CanBeFound
  BY NumbersStand, InvFound, PTL

\* One step takes no invitation of a process that listens.
Takes ==
    \A h \in Hosts : \A e \in Entries(h) :
        e.type = "LEAVE_INVITE" /\ pc[e.proc] \in Inviting =>
            e \in Entries(h)' \/ h \in exited'

LEMMA StepTakes == IInv /\ [Next]_vars => Takes
  <1> SUFFICES ASSUME IInv, [Next]_vars, NEW h \in Hosts, NEW e \in Entries(h),
                      e.type = "LEAVE_INVITE", pc[e.proc] \in Inviting
               PROVE  e \in Entries(h)' \/ h \in exited'
    BY DEF Takes
  <1>1. DOMAIN table[h] = 1 .. Len(table[h])
    BY TypeFacts DEF IInv
  <1>2. /\ Holds(table[h], e) /\ e \in EntryType /\ e = Entry(e.type, e.proc, e.id)
        /\ e.id # 0
    <2>1. Holds(table[h], e)
      BY <1>1 DEF Entries, Holds
    <2> QED
      BY <2>1, HoldsNamed DEF IInv, Named
  <1>3. e.proc \in Procs /\ e.id \in Ids /\ ~Gone(e.proc)
    BY <1>2, TalkAssumption DEF EntryType, Ids, Gone, Inviting
  <1>4. CASE \E r \in requests : Handle(r)
    <2>1. PICK r \in requests : Handle(r)
      BY <1>4
    <2>2. PICK m : Handled(r, m)
      BY <2>1, HandleHandled DEF IInv
    <2>3. CASE h \in exited
      BY <2>2, <2>3 DEF Handled
    <2>4. CASE h \notin exited
      <3>1. Listed(h, "LEAVE_INVITE", e.proc, e.id)
        BY <1>2 DEF Listed
      <3>2. Listed(h, "LEAVE_INVITE", e.proc, e.id)'
        BY <1>2, <1>3, <2>2, <2>4, <3>1, HandleTakes
      <3>3. Holds(table'[h], e)
        BY <1>2, <3>2 DEF Listed
      <3>4. DOMAIN table'[h] = 1 .. Len(table'[h])
        <4>1. table' \in [Hosts -> Seq(EntryType)]
          BY <2>2 DEF Handled, Tabled
        <4>2. table'[h] \in Seq(EntryType)
          BY <4>1
        <4> QED
          BY <4>2
      <3> QED
        BY <3>3, <3>4 DEF Entries, Holds
    <2> QED
      BY <2>3, <2>4
  <1>5. CASE \E x \in Hosts : IdleExit(x)
    <2>1. PICK x \in Hosts : IdleExit(x)
      BY <1>5
    <2>2. h = x \/ table'[h] = table[h]
      BY <2>1 DEF IdleExit, IInv, TypeInv
    <2> QED
      BY <2>1, <2>2 DEF IdleExit, Entries
  <1>6. CASE ~(\E r \in requests : Handle(r)) /\ ~(\E x \in Hosts : IdleExit(x))
    <2>1. table' = table
      BY <1>6, StepLearns DEF Learns
    <2> QED
      BY <2>1 DEF Entries
  <1> QED
    BY <1>4, <1>5, <1>6

\* No callee that clears away an old invitation, and no late DELETE of a process
\* that is gone, takes the invitation of a process that listens.
THEOREM OthersInvitationsStay == Spec /\ []NotComeRound => TakesNoOther
  <1>1. Takes => [\A h \in Hosts : \A e \in Entries(h) :
                     e.type = "LEAVE_INVITE" /\ pc[e.proc] \in Inviting =>
                         e \in Entries(h)' \/ h \in exited']_vars
    BY DEF Takes
  <1> QED
    BY <1>1, NumbersStand, StepTakes, PTL DEF Spec, TakesNoOther

-----------------------------------------------------------------------------
(* Where nothing goes wrong.                                               *)

Answered(p) == \E m \in responses : m.proc = p

\* A request on its way is the one its sender waits about, and it waits yet.
AskedNow(r) ==
    /\ Transacting(r.proc) /\ r = Ask(r.proc, pc[r.proc], msgId[r.proc])
    /\ ~Answered(r.proc)

\* An answer on its way is what its reader waits for, the only one.
AwaitedNow(m) ==
    /\ Transacting(m.proc) /\ m.type = Transaction[m.proc][pc[m.proc]][1]
    /\ m.type = "ANNOUNCE" => m.ok
    /\ \A o \in responses : o.proc = m.proc => o = m

\* An invitation is one that its process will still take away, and by its
\* present number.
WillGo(e) ==
    LET p == e.proc IN
    /\ e.type = "LEAVE_INVITE" =>
          /\ pc[p] \in {"announce", "leave", "accept", "accepted", "dellocal"}
          /\ pc[p] = "dellocal" => e.id = localId[p] /\ ~Answered(p)
    /\ e.type = "ANNOUNCE" =>
          /\ pc[p] \in {"announce", "leave", "accept", "accepted", "dellocal", "delremote"}
          /\ pc[p] # "announce" => e.id = remoteId[p]
          /\ pc[p] = "announce" => \A m \in responses : m.proc = p => m.id = e.id
          /\ pc[p] = "delremote" => ~Answered(p)

Calm ==
    /\ exited = {} /\ deaf = {}
    /\ \A r \in requests : AskedNow(r)
    /\ \A m \in responses : AwaitedNow(m)
    /\ \A h \in Hosts : \A e \in EntryType : Holds(table[h], e) => WillGo(e)

LEMMA FaultsGrow ==
  ASSUME TypeInv, [Next]_vars
  PROVE  faults \in Nat /\ faults' \in {faults, faults + 1}
  <1>1. faults \in Nat
    BY TalkAssumption DEF TypeInv
  <1>2. UNCHANGED faults \/ Fault => faults' \in {faults, faults + 1}
    BY DEF Fault
  <1>3. CASE UNCHANGED vars
    BY <1>1, <1>3 DEF vars, netVars
  <1>4. ASSUME NEW r \in requests, Handle(r) PROVE UNCHANGED faults \/ Fault
    BY <1>4 DEF Handle, LookUp, LeaveInvite, NotLoggedIn, Announce, Delete
  <1>5. ASSUME NEW h \in Hosts, IdleExit(h) PROVE Fault
    BY <1>5 DEF IdleExit
  <1>6. ASSUME NEW p \in Procs,
               \/ Start(p) \/ Resend(p) \/ Interrupt(p) \/ Connect(p)
               \/ Ring(p) \/ Proceed(p) \/ Kill(p) \/ HangUp(p)
        PROVE  UNCHANGED faults \/ Fault
    BY <1>6 DEF Start, Resend, Interrupt, Connect, Ring, Proceed, Kill, HangUp, Begin, Repeat,
                netVars
  <1>7. ASSUME NEW p \in Procs, NEW m \in responses, Read(p, m)
        PROVE  UNCHANGED faults \/ Fault
    BY <1>7 DEF Read, Ignore, LookedUp, Cleared, Announced, Refused, Left, Deleted, Begin, Repeat
  <1>8. ASSUME NEW p \in Procs, NEW q \in Procs, Accept(p, q) PROVE UNCHANGED faults
    BY <1>8 DEF Accept, netVars
  <1>9. CASE Lose
    BY <1>9, <1>2, <1>1 DEF Lose
  <1> QED
    BY <1>1, <1>2, <1>3, <1>4, <1>5, <1>6, <1>7, <1>8, <1>9 DEF Next

\* A process between two exchanges has nothing under way; one that reads an
\* answer has no more than that.
LEMMA NothingElse ==
  ASSUME Calm, NEW p
  PROVE  /\ ~Transacting(p) => \A r \in requests : r.proc # p
         /\ ~Transacting(p) => \A m \in responses : m.proc # p
         /\ \A m \in responses : m.proc = p =>
               /\ \A r \in requests : r.proc # p
               /\ \A o \in responses \ {m} : o.proc # p
  BY DEF Calm, AskedNow, AwaitedNow, Answered

\* One process moves on, and at most asks.
LEMMA MoveCalm ==
  ASSUME TypeInv, Calm, NEW p \in Procs, UNCHANGED <<table, exited>>, deaf' \subseteq deaf,
         \A q \in Procs : q # p => /\ pc'[q] = pc[q] /\ msgId'[q] = msgId[q]
                                   /\ localId'[q] = localId[q] /\ remoteId'[q] = remoteId[q],
         \A m \in responses : m \in responses' \/ m.proc = p,
         \A m \in responses' : m \in responses /\ m.proc # p,
         \A r \in requests' : \/ r \in requests /\ r.proc # p
                              \/ pc'[p] \in Waits /\ r = Ask(p, pc'[p], msgId'[p]),
         \A h \in Hosts : \A e \in EntryType : Holds(table[h], e) /\ e.proc = p => WillGo(e)'
  PROVE  Calm'
  <1>1. ~Answered(p)' /\ \A q \in Procs : q # p => (Answered(q)' <=> Answered(q))
    BY DEF Answered
  <1>2. \A q \in Procs : q # p => (Transacting(q)' <=> Transacting(q))
    BY Asks DEF Transacting
  <1>3. ASSUME NEW r \in requests' PROVE AskedNow(r)'
    <2>1. CASE r \in requests /\ r.proc # p
      <3>1. AskedNow(r) /\ r.proc \in Procs
        BY <2>1 DEF Calm, TypeInv, RequestType
      <3>2. Ask(r.proc, pc'[r.proc], msgId'[r.proc]) = Ask(r.proc, pc[r.proc], msgId[r.proc])
        BY <2>1, <3>1
      <3> QED
        BY <1>1, <1>2, <2>1, <3>1, <3>2 DEF AskedNow, Ask, Request, Transaction, His, Mine, Party
    <2>2. CASE pc'[p] \in Waits /\ r = Ask(p, pc'[p], msgId'[p])
      <3>1. r.proc = p
        BY <2>2 DEF Ask, Request
      <3>2. Transacting(p)'
        BY <2>2, Asks DEF Transacting, Transaction, Waits
      <3> QED
        BY <1>1, <2>2, <3>1, <3>2 DEF AskedNow, Ask, Request, Transaction, His, Mine, Party
    <2> QED
      BY <2>1, <2>2
  <1>4. ASSUME NEW m \in responses' PROVE AwaitedNow(m)'
    <2>1. AwaitedNow(m) /\ m.proc \in Procs /\ m.proc # p
      BY DEF Calm, TypeInv, ResponseType
    <2>2. Transacting(m.proc)' /\ pc'[m.proc] = pc[m.proc]
      BY <1>2, <2>1 DEF AwaitedNow
    <2>3. \A o \in responses' : o.proc = m.proc => o = m
      BY <2>1 DEF AwaitedNow
    <2> QED
      BY <2>1, <2>2, <2>3 DEF AwaitedNow, Transaction, His, Mine, Party
  <1>5. ASSUME NEW h \in Hosts, NEW e \in EntryType, Holds(table[h], e) PROVE WillGo(e)'
    <2>1. CASE e.proc = p
      BY <1>5, <2>1
    <2>2. CASE e.proc # p
      <3>1. WillGo(e) /\ e.proc \in Procs
        BY <1>5 DEF Calm, EntryType
      <3> QED
        BY <1>1, <2>2, <3>1 DEF WillGo
    <2> QED
      BY <2>1, <2>2
  <1> QED
    BY <1>3, <1>4, <1>5 DEF Calm

\* MoveCalm, for a step that begins a transaction.
LEMMA BeginCalm ==
  ASSUME TypeInv, Calm, NEW p \in Procs, NEW s \in Waits, NEW id, NEW rest,
         Begin(p, s, id, rest), UNCHANGED <<table, exited>>, deaf' \subseteq deaf,
         \A q \in Procs : q # p => localId'[q] = localId[q] /\ remoteId'[q] = remoteId[q],
         \/ ~Transacting(p) /\ rest = responses
         \/ \E m \in responses : m.proc = p /\ rest = responses \ {m},
         \A h \in Hosts : \A e \in EntryType :
            Holds(table[h], e) /\ e.proc = p /\ pc'[p] = s /\ (\A m \in rest : m.proc # p)
               /\ responses' = rest => WillGo(e)'
  PROVE  Calm'
  <1>1. /\ pc'[p] = s /\ msgId'[p] = id /\ requests' = requests \cup {Ask(p, s, id)}
        /\ responses' = rest
        /\ \A q \in Procs : q # p => pc'[q] = pc[q] /\ msgId'[q] = msgId[q]
    BY DEF Begin, TypeInv
  <1>2. /\ \A m \in rest : m \in responses /\ m.proc # p
        /\ \A m \in responses : m \in rest \/ m.proc = p
        /\ \A r \in requests : r.proc # p
    BY NothingElse
  <1> QED
    BY <1>1, <1>2, MoveCalm

LEMMA ReadCalm ==
  ASSUME IInv, Calm, NEW p \in Procs, NEW m \in responses, Read(p, m), faults' = faults
  PROVE  Calm'
  <1>0. /\ TypeInv /\ m.proc = p /\ AwaitedNow(m) /\ Transacting(p) /\ Answered(p)
        /\ UNCHANGED <<table, exited>> /\ deaf' \subseteq deaf
        /\ {"announce", "leave", "delremote"} \subseteq Waits
    BY DEF IInv, Calm, Read, daemonVars, Waits, Answered
  <1>01. m.type = Transaction[p][pc[p]][1] /\ (m.type = "ANNOUNCE" => m.ok)
    BY <1>0 DEF AwaitedNow
  <1>02. \A h \in Hosts : \A e \in EntryType : Holds(table[h], e) => WillGo(e)
    BY DEF Calm
  <1>03. /\ \A r \in requests : r.proc # p
         /\ \A o \in responses \ {m} : o.proc # p
    BY <1>0, NothingElse
  <1>1. CASE Ignore(p, m)
    BY <1>01, <1>1 DEF Ignore
  <1>2. CASE LookedUp(p, m)
    <2>0. \A h \in Hosts : \A e \in EntryType : Holds(table[h], e) => e.proc # p
      BY <1>02, <1>2 DEF WillGo, LookedUp, EntryType, Kinds
    <2>1. CASE m.ok
      <3>1. /\ pc' = [pc EXCEPT ![p] = "connect"] /\ msgId' = [msgId EXCEPT ![p] = m.id]
            /\ UNCHANGED <<localId, remoteId, requests>> /\ responses' = responses \ {m}
        BY <1>2, <2>1 DEF LookedUp
      <3>2. \A q \in Procs : q # p => pc'[q] = pc[q] /\ msgId'[q] = msgId[q]
        BY <3>1
      <3> QED
        BY <1>0, <1>03, <2>0, <3>1, <3>2, MoveCalm
    <2>2. CASE ~m.ok
      <3>1. /\ Begin(p, "announce", Impossible, responses \ {m})
            /\ UNCHANGED <<localId, remoteId>>
        BY <1>2, <2>2 DEF LookedUp
      <3> QED
        BY <1>0, <2>0, <3>1, BeginCalm
    <2> QED
      BY <2>1, <2>2
  <1>3. CASE Cleared(p, m)
    <2>0. \A h \in Hosts : \A e \in EntryType : Holds(table[h], e) => e.proc # p
      BY <1>02, <1>3 DEF WillGo, Cleared, EntryType, Kinds
    <2>1. /\ Begin(p, "announce", Impossible, responses \ {m})
          /\ UNCHANGED <<localId, remoteId>>
      BY <1>3 DEF Cleared
    <2> QED
      BY <1>0, <2>0, <2>1, BeginCalm
  <1>4. CASE Announced(p, m)
    <2>1. /\ Begin(p, "leave", msgId[p], responses \ {m}) /\ pc[p] = "announce"
          /\ localId' = localId /\ remoteId' = [remoteId EXCEPT ![p] = m.id]
      BY <1>4 DEF Announced
    <2>2. remoteId'[p] = m.id /\ \A q \in Procs : q # p => remoteId'[q] = remoteId[q]
      BY <1>0, <2>1 DEF TypeInv
    <2>3. ASSUME NEW h \in Hosts, NEW e \in EntryType, Holds(table[h], e), e.proc = p,
                 pc'[p] = "leave"
          PROVE  WillGo(e)'
      <3>1. e.type = "ANNOUNCE" => e.id = m.id
        BY <1>0, <1>02, <2>1, <2>3 DEF WillGo
      <3> QED
        BY <2>2, <2>3, <3>1 DEF WillGo
    <2> QED
      BY <1>0, <2>1, <2>2, <2>3, BeginCalm
  <1>5. CASE Refused(p, m)
    BY <1>01, <1>5 DEF Refused
  <1>6. CASE Left(p, m)
    <2>1. /\ pc' = [pc EXCEPT ![p] = "accept"] /\ pc[p] = "leave"
          /\ localId' = [localId EXCEPT ![p] = m.id]
          /\ UNCHANGED <<requests, msgId, remoteId>> /\ responses' = responses \ {m}
      BY <1>6 DEF Left
    <2>2. pc'[p] = "accept"
          /\ \A q \in Procs : q # p => pc'[q] = pc[q] /\ localId'[q] = localId[q]
      BY <1>0, <2>1 DEF TypeInv
    <2>3. \A h \in Hosts : \A e \in EntryType :
             Holds(table[h], e) /\ e.proc = p => WillGo(e)'
      BY <1>02, <2>1, <2>2 DEF WillGo
    <2> QED
      BY <1>0, <1>03, <2>1, <2>2, <2>3, MoveCalm
  <1>7. CASE Deleted(p, m)
    <2>1. CASE pc[p] = "dellocal"
      <3>1. /\ Begin(p, "delremote", remoteId[p], responses \ {m})
            /\ UNCHANGED <<localId, remoteId>>
        BY <1>7, <2>1 DEF Deleted
      <3>2. ASSUME NEW h \in Hosts, NEW e \in EntryType, Holds(table[h], e), e.proc = p,
                   pc'[p] = "delremote", \A o \in responses \ {m} : o.proc # p,
                   responses' = responses \ {m}
            PROVE  WillGo(e)'
        <4>1. e.type # "LEAVE_INVITE" /\ (e.type = "ANNOUNCE" => e.id = remoteId[p])
          BY <1>0, <1>02, <2>1, <3>2 DEF WillGo
        <4>2. ~Answered(p)'
          BY <3>2 DEF Answered
        <4> QED
          BY <3>1, <3>2, <4>1, <4>2 DEF WillGo
      <3> QED
        BY <1>0, <3>1, <3>2, BeginCalm
    <2>2. CASE pc[p] # "dellocal"
      <3>1. /\ pc' = [pc EXCEPT ![p] = "talking"] /\ pc[p] = "delremote"
            /\ UNCHANGED <<requests, msgId, localId, remoteId>> /\ responses' = responses \ {m}
        BY <1>7, <2>2 DEF Deleted
      <3>2. pc'[p] = "talking" /\ \A q \in Procs : q # p => pc'[q] = pc[q]
        BY <1>0, <3>1 DEF TypeInv
      <3>3. \A h \in Hosts : \A e \in EntryType : Holds(table[h], e) => e.proc # p
        BY <1>0, <1>02, <3>1 DEF WillGo, EntryType, Kinds
      <3> QED
        BY <1>0, <1>03, <3>1, <3>2, <3>3, MoveCalm
    <2> QED
      BY <2>1, <2>2
  <1> QED
    BY <1>1, <1>2, <1>3, <1>4, <1>5, <1>6, <1>7 DEF Read

\* The invitation of a process that still invites has the number it remembers.
LEMMA LocalNumber ==
  ASSUME IInv, exited = {}, NEW p \in Procs, pc[p] \in {"accept", "accepted"},
         NEW h \in Hosts, NEW e \in EntryType, Holds(table[h], e), e.proc = p,
         e.type = "LEAVE_INVITE"
  PROVE  e.id = localId[p]
  <1> DEFINE i == localId[p]
             t == table[h]
             f == Entry("LEAVE_INVITE", p, i)
  <1>1. i # 0 /\ i \in Ids /\ ~Gone(p)
    BY DEF IInv, TypeInv, NumbersKnown, WaitersKnown, WaiterKnown, Gone
  <1>2. h = Mine(p)
    <2>1. Named(h, "LEAVE_INVITE", p, e.id)
      BY HoldsNamed DEF IInv
    <2>2. e.id \in Ids
      BY TalkAssumption DEF EntryType, Ids
    <2> QED
      BY <2>1, <2>2 DEF IInv, NumbersKnown, InPlace, Where, Kinds
  <1>3. Listed(h, "LEAVE_INVITE", p, i)
    <2>1. Named(Mine(p), "LEAVE_INVITE", p, i)
      BY <1>1 DEF Named, Where, Remembered
    <2> QED
      BY <1>1, <1>2, <2>1 DEF IInv, NumbersKnown, Kept
  <1>4. Apart(t) /\ Holds(t, e) /\ Holds(t, f)
    BY <1>3 DEF IInv, NumbersKnown, TablesApart, Listed
  <1>5. f.type = "LEAVE_INVITE" /\ f.proc = p /\ f.id = i
    BY DEF Entry
  <1> HIDE DEF i, t, f
  <1>6. e = f
    BY <1>4, <1>5 DEF Apart, Holds
  <1> QED
    BY <1>5, <1>6 DEF i

LEMMA ProcessCalm ==
  ASSUME IInv, Calm, faults \in Nat, faults' = faults, NEW p \in Procs,
         \/ Start(p) \/ Resend(p) \/ Interrupt(p) \/ Connect(p)
         \/ Ring(p) \/ Proceed(p) \/ Kill(p) \/ HangUp(p)
  PROVE  Calm'
  <1>0. /\ TypeInv /\ ~Fault /\ exited = {}
        /\ {"lookup", "clear", "announce", "dellocal"} \subseteq Waits
    BY DEF IInv, Fault, Waits, Calm
  <1>01. Transacting(p) <=> pc[p] \in Waits
    BY Asks DEF Transacting
  <1>02. \A h \in Hosts : \A e \in EntryType : Holds(table[h], e) => WillGo(e)
    BY DEF Calm
  <1>1. CASE Start(p)
    <2>1. /\ Begin(p, "lookup", 0, responses) /\ pc[p] = "off"
          /\ UNCHANGED <<table, exited, localId, remoteId, deaf>>
      BY <1>1 DEF Start, daemonVars, alarmVars
    <2>2. ~Transacting(p)
      BY <1>01, <2>1 DEF Waits
    <2>3. \A h \in Hosts : \A e \in EntryType : Holds(table[h], e) => e.proc # p
      BY <1>02, <2>1 DEF WillGo, EntryType, Kinds
    <2> QED
      BY <1>0, <2>1, <2>2, <2>3, BeginCalm
  <1>2. CASE Resend(p)
    <2>1. /\ Transacting(p) /\ ~UnderWay(p) /\ requests' = requests \cup {Ask(p, pc[p], msgId[p])}
          /\ UNCHANGED <<table, exited, responses, pc, msgId, localId, remoteId, deaf>>
      BY <1>0, <1>2 DEF Resend, Repeat, daemonVars, idVars, alarmVars
    <2>2. ~Answered(p)
      BY <2>1 DEF UnderWay, Answered, Calm, AwaitedNow
    <2>3. /\ \A q : Transacting(q)' <=> Transacting(q)
          /\ \A q : Answered(q)' <=> Answered(q)
      BY <2>1 DEF Transacting, Transaction, Answered, His, Mine, Party
    <2>4. ASSUME NEW r \in requests' PROVE AskedNow(r)'
      <3>1. CASE r \in requests
        BY <2>1, <2>3, <3>1 DEF Calm, AskedNow, Ask, Request, Transaction, His, Mine, Party
      <3>2. CASE r = Ask(p, pc[p], msgId[p])
        <4>1. r.proc = p
          BY <3>2 DEF Ask, Request
        <4> QED
          BY <2>1, <2>2, <2>3, <3>2, <4>1
             DEF AskedNow, Ask, Request, Transaction, His, Mine, Party
      <3> QED
        BY <2>1, <3>1, <3>2
    <2>5. \A m \in responses : AwaitedNow(m)'
      BY <2>1, <2>3 DEF Calm, AwaitedNow, Transaction, His, Mine, Party
    <2>6. \A e : WillGo(e) => WillGo(e)'
      BY <2>1, <2>3 DEF WillGo
    <2> QED
      BY <2>1, <2>4, <2>5, <2>6 DEF Calm
  <1>3. CASE Interrupt(p)
    BY <1>0, <1>3 DEF Interrupt
  <1>4. CASE Connect(p)
    <2>0. /\ pc[p] = "connect" /\ UNCHANGED <<table, exited, localId, remoteId, deaf>>
          /\ ~Transacting(p)
      BY <1>01, <1>4 DEF Connect, daemonVars, alarmVars, Waits
    <2>1. \A h \in Hosts : \A e \in EntryType : Holds(table[h], e) => e.proc # p
      BY <1>02, <2>0 DEF WillGo, EntryType, Kinds
    <2>2. CASE pc[partner[p]] \in Inviting
      <3>1. pc' = [pc EXCEPT ![p] = "talking"] /\ UNCHANGED <<requests, responses, msgId>>
        BY <1>4, <2>2 DEF Connect, netVars
      <3>2. \A q \in Procs : q # p => pc'[q] = pc[q]
        BY <3>1
      <3>3. /\ \A r \in requests : r.proc # p
            /\ \A m \in responses : m.proc # p
        BY <2>0, NothingElse
      <3> QED
        BY <1>0, <2>0, <2>1, <3>1, <3>2, <3>3, MoveCalm
    <2>3. CASE pc[partner[p]] \notin Inviting
      <3>1. Begin(p, "clear", msgId[p], responses)
        BY <1>4, <2>3 DEF Connect
      <3> QED
        BY <1>0, <2>0, <2>1, <3>1, BeginCalm
    <2> QED
      BY <2>2, <2>3
  <1>5. CASE Ring(p)
    <2>1. /\ Begin(p, "announce", remoteId[p] + 1, responses)
          /\ UNCHANGED <<table, exited, localId, remoteId, deaf>>
          /\ pc[p] \in {"accept", "accepted"}
      BY <1>5 DEF Ring, daemonVars
    <2>2. ~Transacting(p)
      BY <1>01, <2>1 DEF Waits
    <2>3. ASSUME NEW e, e.proc = p, pc'[p] = "announce", \A m \in responses : m.proc # p,
                 responses' = responses
          PROVE  WillGo(e)'
      BY <2>3 DEF WillGo
    <2> QED
      BY <1>0, <2>1, <2>2, <2>3, BeginCalm
  <1>6. CASE Proceed(p)
    <2>1. /\ Begin(p, "dellocal", localId[p], responses)
          /\ UNCHANGED <<table, exited, localId, remoteId, deaf>>
          /\ pc[p] = "accepted"
      BY <1>6 DEF Proceed, daemonVars, alarmVars
    <2>2. ~Transacting(p)
      BY <1>01, <2>1 DEF Waits
    <2>3. ASSUME NEW h \in Hosts, NEW e \in EntryType, Holds(table[h], e), e.proc = p,
                 pc'[p] = "dellocal", \A m \in responses : m.proc # p, responses' = responses
          PROVE  WillGo(e)'
      <3>1. e.type = "LEAVE_INVITE" => e.id = localId[p]
        BY <1>0, <2>1, <2>3, LocalNumber
      <3>2. e.type = "ANNOUNCE" => e.id = remoteId[p]
        BY <1>02, <2>1, <2>3 DEF WillGo
      <3>3. ~Answered(p)'
        BY <2>3 DEF Answered
      <3> QED
        BY <2>1, <2>3, <3>1, <3>2, <3>3 DEF WillGo
    <2> QED
      BY <1>0, <2>1, <2>2, <2>3, BeginCalm
  <1>7. CASE Kill(p)
    BY <1>0, <1>7 DEF Kill
  <1>8. CASE HangUp(p)
    <2>1. /\ Die(p) /\ pc[p] = "talking" /\ UNCHANGED <<table, exited, requests, deaf>>
          /\ ~Transacting(p)
      BY <1>01, <1>8 DEF HangUp, daemonVars, Waits
    <2>2. /\ \A q \in Procs : q # p => /\ pc'[q] = pc[q] /\ msgId'[q] = msgId[q]
                                       /\ localId'[q] = localId[q] /\ remoteId'[q] = remoteId[q]
          /\ responses' = {m \in responses : m.proc # p}
      BY <1>0, <2>1 DEF Die, TypeInv
    <2>3. \A h \in Hosts : \A e \in EntryType : Holds(table[h], e) => e.proc # p
      BY <1>02, <2>1 DEF WillGo, EntryType, Kinds
    <2>4. \A r \in requests : r.proc # p
      BY <2>1, NothingElse
    <2> QED
      BY <1>0, <2>1, <2>2, <2>3, <2>4, MoveCalm
  <1> QED
    BY <1>1, <1>2, <1>3, <1>4, <1>5, <1>6, <1>7, <1>8

LEMMA AcceptCalm ==
  ASSUME IInv, Calm, NEW p \in Procs, NEW q \in Procs, Accept(p, q)
  PROVE  Calm'
  <1>1. /\ pc' = [pc EXCEPT ![p] = "accepted"] /\ pc[p] = "accept" /\ TypeInv
        /\ UNCHANGED <<table, exited, requests, responses, msgId, localId, remoteId, deaf>>
    BY DEF Accept, daemonVars, netVars, idVars, alarmVars, IInv
  <1>2. pc'[p] = "accepted" /\ \A x \in Procs : x # p => pc'[x] = pc[x]
    BY <1>1 DEF TypeInv
  <1>3. ~Transacting(p)
    BY <1>1, Asks DEF Transacting, Waits
  <1>4. \A h \in Hosts : \A e \in EntryType : Holds(table[h], e) /\ e.proc = p => WillGo(e)'
    BY <1>1, <1>2 DEF Calm, WillGo
  <1>5. /\ \A r \in requests : r.proc # p
        /\ \A m \in responses : m.proc # p
    BY <1>3, NothingElse
  <1> QED
    BY <1>1, <1>2, <1>4, <1>5, MoveCalm

\* The daemon answers, and what it was to take away is gone.
LEMMA HandleCalm ==
  ASSUME IInv, IInv', Calm, NEW r \in requests, NEW m, Handled(r, m), faults' = faults
  PROVE  Calm'
  <1> DEFINE p == r.proc
  <1>0. /\ requests' = requests \ {r} /\ responses' = responses \cup {m}
        /\ m.proc = p /\ m.type = r.type /\ Tabled(r, m) /\ p \in Procs /\ r.host \in Hosts
        /\ UNCHANGED <<exited, deaf, pc, msgId, localId, remoteId>> /\ exited = {}
    BY DEF Handled, idVars, alarmVars, IInv, TypeInv, RequestType, Calm
  <1>1. /\ Transacting(p) /\ r = Ask(p, pc[p], msgId[p]) /\ ~Answered(p)
        /\ \A d \in requests' : d.proc # p
    BY <1>0 DEF Calm, AskedNow
  <1>2. /\ \A q : q # p => (Answered(q)' <=> Answered(q))
        /\ \A q : Transacting(q)' <=> Transacting(q)
    BY <1>0 DEF Answered, Transacting, Transaction, His, Mine, Party
  <1>3. ASSUME NEW d \in requests' PROVE AskedNow(d)'
    <2>1. AskedNow(d) /\ d.proc # p
      BY <1>0, <1>1 DEF Calm
    <2> QED
      BY <1>0, <1>2, <2>1 DEF AskedNow, Ask, Request, Transaction, His, Mine, Party
  <1>4. m.type = Transaction[p][pc[p]][1] /\ (m.type = "ANNOUNCE" => m.ok)
    <2>1. r.type = Transaction[p][pc[p]][1]
      BY <1>1 DEF Ask, Request
    <2> QED
      BY <1>0, <2>1 DEF Tabled
  <1>5. ASSUME NEW o \in responses' PROVE AwaitedNow(o)'
    <2>1. CASE o \in responses
      <3>1. AwaitedNow(o) /\ o.proc # p
        BY <1>1, <2>1 DEF Calm, Answered
      <3> QED
        BY <1>0, <1>2, <3>1 DEF AwaitedNow, Transaction, His, Mine, Party
    <2>2. CASE o = m
      <3>1. \A a \in responses' : a.proc = p => a = m
        BY <1>0, <1>1 DEF Answered
      <3>2. /\ Transacting(p)' /\ pc'[p] = pc[p] /\ o.proc = p
            /\ o.type = Transaction[p][pc[p]][1] /\ (o.type = "ANNOUNCE" => o.ok)
        BY <1>0, <1>1, <1>2, <1>4, <2>2
      <3>3. Transaction[p]' = Transaction[p]
        BY DEF Transaction, His, Mine, Party
      <3> HIDE DEF p
      <3>4. /\ Transacting(o.proc)' /\ o.type = Transaction[o.proc][pc'[o.proc]][1]
            /\ \A a \in responses' : a.proc = o.proc => a = o
        BY <2>2, <3>1, <3>2, <3>3
      <3> QED
        BY <3>2, <3>4 DEF AwaitedNow
    <2> QED
      BY <1>0, <2>1, <2>2
  <1>6. pc[p] \in Waits
    BY <1>0, <1>1, Asks DEF Transacting
  <1>7. ASSUME NEW h \in Hosts, NEW e \in EntryType, Holds(table'[h], e) PROVE WillGo(e)'
    <2>1. Holds(table[h], e) \/ (h = r.host /\ e = Entry(r.type, p, NewId(r.host)) /\ r.type \in Kinds)
      BY <1>0, <1>7 DEF Tabled
    <2>2. CASE e.proc # p
      <3>1. Holds(table[h], e)
        BY <2>1, <2>2 DEF Entry
      <3> QED
        BY <1>0, <1>2, <2>2, <3>1 DEF Calm, WillGo
    <2>3. CASE e.proc = p
      <3>0. /\ e.type \in Kinds /\ e.id \in Ids
            /\ Named(h, e.type, p, e.id)'
        <4>1. /\ e.type \in Kinds /\ e.id \in Ids /\ e.id # 0
              /\ e = Entry(e.type, p, e.id)
          BY <2>3, TalkAssumption DEF EntryType, Ids, Entry
        <4>2. Listed(h, e.type, p, e.id)'
          BY <1>7, <4>1 DEF Listed
        <4> QED
          BY <4>1, <4>2 DEF Named
      <3>1. h = Where(e.type, p)
        BY <1>0, <3>0 DEF IInv, NumbersKnown, InPlace, Where, Mine, His, Party
      <3>2. Holds(table[h], e) \/ r.type = e.type
        BY <2>1 DEF Entry
      <3>3. Holds(table[h], e) => WillGo(e)
        BY DEF Calm
      <3>4. CASE pc[p] \in {"lookup", "clear"}
        <4>1. r.type \notin Kinds
          BY <1>0, <1>1, <3>4, Asks DEF Request, Kinds
        <4> QED
          BY <2>1, <2>3, <3>0, <3>3, <3>4, <4>1 DEF WillGo, Kinds
      <3>5. CASE pc[p] = "announce"
        <4>1. r.type = "ANNOUNCE" /\ r.host = His(p)
          BY <1>0, <1>1, <3>5, Asks DEF Request
        <4>2. e.type = "LEAVE_INVITE" => WillGo(e)
          BY <3>2, <3>3, <4>1
        <4>3. ASSUME e.type = "ANNOUNCE" PROVE e.id = m.id
          <5> DEFINE u == table'[h]
                     f == Entry("ANNOUNCE", p, m.id)
          <5>1. h = r.host
            BY <3>1, <4>1, <4>3 DEF Where
          <5>2. Holds(u, f) /\ Holds(u, e)
            BY <1>0, <1>4, <1>7, <4>1, <5>1 DEF Tabled
          <5>3. Apart(u)
            BY <1>0 DEF IInv, NumbersKnown, TablesApart
          <5>4. f.type = "ANNOUNCE" /\ f.proc = p /\ f.id = m.id
            BY DEF Entry
          <5> HIDE DEF u, f
          <5>5. e = f
            BY <2>3, <4>3, <5>2, <5>3, <5>4 DEF Apart, Holds
          <5> QED
            BY <5>4, <5>5
        <4>4. \A o \in responses' : o.proc = p => o = m
          BY <1>0, <1>1 DEF Answered
        <4> QED
          BY <1>0, <2>3, <3>0, <3>5, <4>2, <4>3, <4>4 DEF WillGo, Kinds
      <3>6. CASE pc[p] = "leave"
        <4>1. r.type = "LEAVE_INVITE"
          BY <1>0, <1>1, <3>6, Asks DEF Request
        <4> QED
          BY <1>0, <2>3, <3>2, <3>3, <3>6, <4>1 DEF WillGo
      <3>7. CASE pc[p] = "dellocal"
        <4>1. /\ r.type = "DELETE" /\ r.host = Mine(p) /\ r.id = localId[p]
          <5>1. WaiterKnown(p)
            BY <1>0 DEF IInv, NumbersKnown, WaitersKnown
          <5>2. msgId[p] = localId[p]
            BY <3>7, <5>1 DEF WaiterKnown
          <5> QED
            BY <1>0, <1>1, <3>7, <5>2, Asks DEF Request
        <4>2. Holds(table[h], e)
          BY <2>1, <4>1 DEF Kinds
        <4>3. ASSUME e.type = "LEAVE_INVITE" PROVE FALSE
          <5>1. h = r.host
            BY <3>1, <4>1, <4>3 DEF Where
          <5>2. Apart(table[r.host])
            BY <1>0 DEF IInv, NumbersKnown, TablesApart
          <5>3. e.id # r.id
            BY <1>0, <1>7, <4>1, <5>1, <5>2 DEF Tabled
          <5>4. e.id = localId[p]
            BY <2>3, <3>3, <3>7, <4>2, <4>3 DEF WillGo
          <5> QED
            BY <4>1, <5>3, <5>4
        <4> QED
          BY <1>0, <2>3, <3>3, <3>7, <4>2, <4>3 DEF WillGo
      <3>8. CASE pc[p] = "delremote"
        <4>1. /\ r.type = "DELETE" /\ r.host = His(p) /\ r.id = remoteId[p]
          <5>1. WaiterKnown(p)
            BY <1>0 DEF IInv, NumbersKnown, WaitersKnown
          <5>2. msgId[p] = remoteId[p]
            BY <3>8, <5>1 DEF WaiterKnown
          <5> QED
            BY <1>0, <1>1, <3>8, <5>2, Asks DEF Request
        <4>2. Holds(table[h], e)
          BY <2>1, <4>1 DEF Kinds
        <4>3. ASSUME e.type = "ANNOUNCE" PROVE FALSE
          <5>1. h = r.host
            BY <3>1, <4>1, <4>3 DEF Where
          <5>2. Apart(table[r.host])
            BY <1>0 DEF IInv, NumbersKnown, TablesApart
          <5>3. e.id # r.id
            BY <1>0, <1>7, <4>1, <5>1, <5>2 DEF Tabled
          <5>4. e.id = remoteId[p]
            BY <2>3, <3>3, <3>8, <4>2, <4>3 DEF WillGo
          <5> QED
            BY <4>1, <5>3, <5>4
        <4> QED
          BY <1>0, <2>3, <3>3, <3>8, <4>2, <4>3 DEF WillGo
      <3> QED
        BY <1>6, <3>4, <3>5, <3>6, <3>7, <3>8 DEF Waits
    <2> QED
      BY <2>2, <2>3
  <1> QED
    BY <1>0, <1>3, <1>5, <1>7 DEF Calm

\* As long as nothing goes wrong.
Quiet == faults = 0 => Calm

LEMMA InitQuiet == Init => Quiet
  <1> SUFFICES ASSUME Init PROVE Calm
    BY DEF Quiet
  <1>1. \A h \in Hosts : Len(table[h]) = 0
    BY DEF Init
  <1> QED
    BY <1>1 DEF Init, Calm, Holds

LEMMA StepQuiet == IInv /\ IInv' /\ Quiet /\ [Next]_vars => Quiet'
  <1> SUFFICES ASSUME IInv, IInv', Quiet, [Next]_vars, faults' = 0 PROVE Calm'
    BY DEF Quiet
  <1>1. faults \in Nat /\ faults' = faults /\ faults = 0
    BY FaultsGrow DEF IInv
  <1>2. Calm /\ ~Fault
    BY <1>1 DEF Quiet, Fault
  <1>3. CASE UNCHANGED vars
    <2>1. UNCHANGED <<table, exited, requests, responses, pc, msgId, localId, remoteId, deaf>>
      BY <1>3 DEF vars, daemonVars, netVars, idVars, alarmVars
    <2>2. /\ \A q : Transacting(q)' <=> Transacting(q)
          /\ \A q : Answered(q)' <=> Answered(q)
      BY <2>1 DEF Transacting, Transaction, Answered, His, Mine, Party
    <2>3. \A r \in requests : AskedNow(r)'
      BY <1>2, <2>1, <2>2 DEF Calm, AskedNow, Ask, Request, Transaction, His, Mine, Party
    <2>4. \A m \in responses : AwaitedNow(m)'
      BY <1>2, <2>1, <2>2 DEF Calm, AwaitedNow, Transaction, His, Mine, Party
    <2>5. \A e : WillGo(e) => WillGo(e)'
      BY <2>1, <2>2 DEF WillGo
    <2> QED
      BY <1>2, <2>1, <2>3, <2>4, <2>5 DEF Calm
  <1>4. ASSUME NEW r \in requests, Handle(r) PROVE Calm'
    <2>1. PICK m : Handled(r, m)
      BY <1>4, HandleHandled DEF IInv
    <2> QED
      BY <1>1, <1>2, <2>1, HandleCalm
  <1>5. ASSUME NEW h \in Hosts, IdleExit(h) PROVE Calm'
    BY <1>2, <1>5 DEF IdleExit
  <1>6. ASSUME NEW p \in Procs,
               \/ Start(p) \/ Resend(p) \/ Interrupt(p) \/ Connect(p)
               \/ Ring(p) \/ Proceed(p) \/ Kill(p) \/ HangUp(p)
        PROVE  Calm'
    BY <1>1, <1>2, <1>6, ProcessCalm
  <1>7. ASSUME NEW p \in Procs, NEW m \in responses, Read(p, m) PROVE Calm'
    BY <1>1, <1>2, <1>7, ReadCalm
  <1>8. ASSUME NEW p \in Procs, NEW q \in Procs, Accept(p, q) PROVE Calm'
    BY <1>2, <1>8, AcceptCalm
  <1>9. CASE Lose
    BY <1>2, <1>9 DEF Lose
  <1> QED
    BY <1>3, <1>4, <1>5, <1>6, <1>7, <1>8, <1>9 DEF Next

LEMMA QuietTidy == IInv /\ Quiet => Tidy
  <1> SUFFICES ASSUME IInv, Calm, NEW p \in Procs, pc[p] = "talking", NEW h \in Hosts,
                      NEW e \in Entries(h), e.proc = p
               PROVE  FALSE
    BY DEF Quiet, Tidy
  <1>1. DOMAIN table[h] = 1 .. Len(table[h])
    BY TypeFacts DEF IInv
  <1>2. Holds(table[h], e)
    BY <1>1 DEF Entries, Holds
  <1>3. e \in EntryType
    BY <1>2, HoldsNamed DEF IInv
  <1> QED
    BY <1>2, <1>3 DEF Calm, WillGo, EntryType, Kinds

\* Where nothing goes wrong, a caller that talks has left no invitation behind,
\* however often it has rung and been given new numbers.
THEOREM NothingLeftBehind == Spec /\ []NotComeRound => []Tidy
  BY NumbersStand, InitQuiet, StepQuiet, QuietTidy, PTL DEF Spec

=============================================================================
