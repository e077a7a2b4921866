------------------------ MODULE TelnetOptionProofs ------------------------
(***************************************************************************)
(* Proofs about TelnetOption, for any number of requests: the counters are *)
(* bounded by what an end has asked, and an exchange that has come to rest *)
(* leaves both ends of one mind, with nobody waiting for an answer, unless *)
(* an end has asked while its own refusal was not confirmed.               *)
(***************************************************************************)
EXTENDS TelnetOption, Integers, TLAPS

(* The inductive invariant.  A refusal is as if the end had agreed and      *)
(* asked against the option at once, with only the second command sent;     *)
(* the end that hears it answers the second one only if it has heard the    *)
(* first.  Read in this way the commands on a wire take turns: the i-th one *)
(* is number at[i] of a conversation without refusals, and a number is      *)
(* skipped where the command with it is not sent.                           *)

Odd(n) == n % 2 = 1

Heard(e) == half[e].state
Wants(e) == half[e].want
Pending(e) == half[e].resp
OnWire(e) == Len(wire[e])
Said(e, i) == wire[e][i]

\* The numbers of the commands on the wire to e, up to n: they grow by one or
\* two, and a command is what its number says, counted from what e has heard.
\* The last number is skipped only if e's refusal is confirmed by nothing.
Numbered(e, at, n) ==
    /\ at[0] = 0
    /\ \A i, j \in 0 .. OnWire(e) : i < j => at[i] < at[j]
    /\ \A i \in 1 .. OnWire(e) : at[i] - at[i - 1] \in 1 .. 2 /\ at[i] <= n
    /\ \A i \in 1 .. OnWire(e) : Said(e, i) <=> (Heard(e) <=> ~Odd(at[i]))
    /\ n = at[OnWire(e)] \/ (OnWire(e) = 0 /\ n = 1 /\ e \in refused)

\* What is skipped before a request for the option is the confirmation of e's
\* refusal, and only the first number can be; what is skipped before a command
\* against it is a consent, and the command the refusal of a request of e.
Skipped(e, o, at) ==
    \A i \in 1 .. OnWire(e) : at[i] - at[i - 1] = 2 =>
        IF Said(e, i) THEN i = 1 /\ e \in refused
        ELSE o \in refused \/ Pending(e) >= at[i]

\* What e has heard, what it wants and what it waits for, and what o wants.
Minds(e, o, n) ==
    /\ Wants(o) <=> (Heard(e) <=> ~Odd(n))
    /\ Wants(e) <=> (Heard(e) <=> ~Odd(Pending(e)))
    /\ e \in refused => Heard(e) /\ ~Wants(e) /\ Pending(e) = 1

Side(e, o, at, n) == Numbered(e, at, n) /\ Skipped(e, o, at) /\ Minds(e, o, n)

\* Every number is that of a request of one of the two that is not answered
\* yet, or of the answer to one.
Joint(e, o) ==
    \E p, q \in [Nat -> Int], m, n \in Nat :
        /\ Side(e, o, p, m) /\ Side(o, e, q, n)
        /\ Pending(e) + Pending(o) = m + n

\* The request made on a quiet connection is on its way, or granted.
OnItsWay(e, o, new) ==
    /\ OnWire(o) = 1 /\ (Said(o, 1) <=> new) /\ OnWire(e) = 0
    /\ ~(Wants(o) <=> new) /\ (Pending(o) = 0 \/ o \in refused)

IsGranted(e, o, new) ==
    /\ OnWire(o) = 0 /\ (Wants(o) <=> new)
    /\ OnWire(e) <= 1 /\ \A i \in 1 .. OnWire(e) : Said(e, i) <=> new

Followed(e, o, new) ==
    /\ Wants(e) <=> new
    /\ Pending(e) <= 1
    /\ OnItsWay(e, o, new) \/ IsGranted(e, o, new)

IInv ==
    /\ TypeOK
    /\ CountsRequests
    /\ ~overtaken => /\ Joint("performer", "requester")
                     /\ \A r \in lone : Followed(r[1], Other(r[1]), r[2])

USE AsksAssumption

LEMMA TwoEnds ==
    /\ Ends = {"performer", "requester"}
    /\ Other("performer") = "requester" /\ Other("requester") = "performer"
    /\ \A e \in Ends : Other(e) \in Ends /\ Other(e) # e /\ Other(Other(e)) = e
<1>1. Other("performer") = "requester" /\ Other("requester") = "performer"
  BY DEF Other, Ends
<1> QED
  BY <1>1 DEF Ends

LEMMA OddSteps ==
    /\ ~Odd(0) /\ Odd(1) /\ ~Odd(2)
    /\ \A n \in Nat : /\ Odd(n) \in BOOLEAN
                      /\ Odd(n + 1) <=> ~Odd(n)
                      /\ Odd(n + 2) <=> Odd(n)
  BY DEF Odd

LEMMA OddApart ==
    ASSUME NEW a \in Nat, NEW b \in Nat, a <= b
    PROVE  Odd(b - a) <=> ~(Odd(a) <=> Odd(b))
  BY DEF Odd

LEMMA JointBoth ==
    ASSUME NEW e \in Ends, NEW o \in Ends, TypeOK, Joint(e, o)
    PROVE  Joint(o, e)
<1>1. PICK p, q \in [Nat -> Int], m, n \in Nat :
          /\ Side(e, o, p, m) /\ Side(o, e, q, n)
          /\ Pending(e) + Pending(o) = m + n
  BY DEF Joint
<1>2. Pending(e) \in Nat /\ Pending(o) \in Nat
  BY DEF TypeOK, Half, Pending
<1>3. Pending(o) + Pending(e) = n + m
  BY <1>1, <1>2
<1> QED
  BY <1>1, <1>3 DEF Joint

LEMMA Types ==
    ASSUME TypeOK, NEW e \in Ends
    PROVE  /\ Pending(e) \in Nat /\ OnWire(e) \in Nat
           /\ Heard(e) \in BOOLEAN /\ Wants(e) \in BOOLEAN
           /\ \A i \in 1 .. OnWire(e) : Said(e, i) \in BOOLEAN
<1>1. half[e] \in Half /\ wire[e] \in Seq(BOOLEAN)
  BY DEF TypeOK
<1> QED
  BY <1>1 DEF Half, Pending, OnWire, Heard, Wants, Said

LEMMA InitIInv == Init => IInv
<1> SUFFICES ASSUME Init PROVE IInv
  OBVIOUS
<1>1. CountsRequests
  BY DEF Init, CountsRequests, Idle
<1>2. TypeOK
  <2>1. half \in [Ends -> Half]
    BY DEF Init, Half, Idle
  <2>2. wire \in [Ends -> Seq(BOOLEAN)] /\ asks \in [Ends -> 0 .. MaxAsks]
    BY DEF Init
  <2>3. overtaken \in BOOLEAN
    BY DEF Init
  <2>4. refused \subseteq Ends /\ lone \subseteq Ends \X BOOLEAN
    BY DEF Init
  <2> QED
    BY <2>1, <2>2, <2>3, <2>4 DEF TypeOK
<1>3. \A e \in Ends : OnWire(e) = 0 /\ ~Heard(e) /\ ~Wants(e) /\ Pending(e) = 0 /\ e \notin refused
  BY DEF Init, Idle, OnWire, Heard, Wants, Pending
<1>4. Joint("performer", "requester")
  <2> DEFINE none == [i \in Nat |-> 0]
  <2>1. none \in [Nat -> Int] /\ none[0] = 0
    OBVIOUS
  <2> HIDE DEF none
  <2>2. ASSUME NEW e \in Ends, NEW o \in Ends
        PROVE  Side(e, o, none, 0)
    <3>1. /\ OnWire(e) = 0 /\ ~Heard(e) /\ ~Wants(e) /\ Pending(e) = 0 /\ e \notin refused
          /\ OnWire(o) = 0 /\ ~Wants(o)
      BY <1>3
    <3>2. Numbered(e, none, 0) /\ Skipped(e, o, none)
      BY <2>1, <3>1 DEF Numbered, Skipped
    <3>3. Minds(e, o, 0)
      BY <3>1, OddSteps DEF Minds
    <3> QED
      BY <3>2, <3>3 DEF Side
  <2>3. Pending("performer") + Pending("requester") = 0 + 0
    BY <1>3, TwoEnds
  <2> QED
    BY <2>1, <2>2, <2>3, TwoEnds DEF Joint
<1>5. lone = {}
  BY DEF Init
<1> QED
  BY <1>1, <1>2, <1>4, <1>5 DEF IInv

-----------------------------------------------------------------------------
(* What the two actions do, field by field.                                *)

LEMMA AskStep ==
    ASSUME TypeOK, NEW e \in Ends, NEW o \in Ends, o = Other(e),
           NEW new \in BOOLEAN, Ask(e, new)
    PROVE  /\ TypeOK'
           /\ asks' = [asks EXCEPT ![e] = @ + 1]
           /\ refused' = refused /\ overtaken' = (overtaken \/ e \in refused)
           /\ lone' = IF Quiet THEN {<<e, new>>} ELSE {}
           /\ (Heard(e)' <=> Heard(e)) /\ (Wants(e)' <=> new)
           /\ Pending(e)' = Pending(e) + 1
           /\ (Heard(o)' <=> Heard(o)) /\ (Wants(o)' <=> Wants(o))
           /\ Pending(o)' = Pending(o)
           /\ OnWire(e)' = OnWire(e)
           /\ \A i \in 1 .. OnWire(e) : Said(e, i)' <=> Said(e, i)
           /\ OnWire(o)' = OnWire(o) + 1
           /\ \A i \in 1 .. OnWire(o) : Said(o, i)' <=> Said(o, i)
           /\ Said(o, OnWire(o))' <=> new
           /\ ~(Wants(e) <=> new)
<1>1. /\ half[e] \in Half /\ half[o] \in Half
      /\ wire[e] \in Seq(BOOLEAN) /\ wire[o] \in Seq(BOOLEAN) /\ o # e
  BY TwoEnds DEF TypeOK
<1>2. /\ Asked(half[e], new) \in Half
      /\ Asked(half[e], new)
           = [state |-> half[e].state, want |-> new, resp |-> half[e].resp + 1]
  BY <1>1 DEF Half, Asked
<1>3. half' = [half EXCEPT ![e] = Asked(half[e], new)]
  BY DEF Ask
<1>4. wire' = [wire EXCEPT ![o] = Append(wire[o], new)]
  BY DEF Ask, Send
<1>5. asks' = [asks EXCEPT ![e] = @ + 1] /\ asks[e] < MaxAsks
  BY DEF Ask
<1>6. /\ refused' = refused /\ overtaken' = (overtaken \/ e \in refused)
      /\ lone' = IF Quiet THEN {<<e, new>>} ELSE {}
  BY DEF Ask
<1>7. TypeOK'
  <2>1. half' \in [Ends -> Half]
    BY <1>2, <1>3 DEF TypeOK
  <2>2. wire' \in [Ends -> Seq(BOOLEAN)]
    BY <1>1, <1>4 DEF TypeOK
  <2>3. asks' \in [Ends -> 0 .. MaxAsks]
    BY <1>5 DEF TypeOK
  <2>4. overtaken' \in BOOLEAN /\ refused' \subseteq Ends
    BY <1>6 DEF TypeOK
  <2>5. lone' \subseteq Ends \X BOOLEAN
    BY <1>6 DEF TypeOK
  <2> QED
    BY <2>1, <2>2, <2>3, <2>4, <2>5 DEF TypeOK
<1>8. half'[e] = Asked(half[e], new) /\ half'[o] = half[o]
  BY <1>1, <1>3 DEF TypeOK
<1>9. /\ (Heard(e)' <=> Heard(e)) /\ (Wants(e)' <=> new)
      /\ Pending(e)' = Pending(e) + 1
      /\ (Heard(o)' <=> Heard(o)) /\ (Wants(o)' <=> Wants(o))
      /\ Pending(o)' = Pending(o)
  BY <1>2, <1>8 DEF Heard, Wants, Pending
<1>10. wire'[e] = wire[e] /\ wire'[o] = Append(wire[o], new)
  BY <1>1, <1>4 DEF TypeOK
<1>11. /\ OnWire(e)' = OnWire(e)
       /\ \A i \in 1 .. OnWire(e) : Said(e, i)' <=> Said(e, i)
  BY <1>10 DEF OnWire, Said
<1>12. /\ OnWire(o)' = OnWire(o) + 1
       /\ \A i \in 1 .. OnWire(o) : Said(o, i)' <=> Said(o, i)
       /\ Said(o, OnWire(o))' <=> new
  BY <1>1, <1>10 DEF OnWire, Said
<1>13. ~(Wants(e) <=> new)
  BY <1>1 DEF Ask, Needless, Half, Wants
<1> QED
  BY <1>5, <1>6, <1>7, <1>9, <1>11, <1>12, <1>13

\* What is left of the counter, and whether a command is a request.
Rest(h, new) == IF h.resp = 0 THEN 0
                ELSE IF h.resp > 1 /\ (h.state <=> new) THEN h.resp - 2
                ELSE h.resp - 1

Fresh(h, new) == Rest(h, new) = 0 /\ ~(h.want <=> new)

LEMMA OutcomeFields ==
    ASSUME NEW h \in Half, NEW new \in BOOLEAN, NEW agree \in BOOLEAN
    PROVE  LET no == Fresh(h, new) /\ new /\ ~agree
               out == Outcome(h, new, agree) IN
           /\ Refuses(h, new, agree) <=> no
           /\ out \in Half
           /\ out.state <=> new
           /\ out.resp = IF no THEN 1 ELSE Rest(h, new)
           /\ out.want <=> IF Fresh(h, new) /\ ~no THEN new ELSE h.want
           /\ Replies(h, new) <=> Fresh(h, new) /\ (new \/ h.state)
           /\ Answered(h, new).resp = Rest(h, new)
<1> DEFINE now == Answered(h, new)
           no == Fresh(h, new) /\ new /\ ~agree
           out == Outcome(h, new, agree)
<1>1. /\ now \in Half /\ now.state = h.state /\ now.want = h.want
      /\ now.resp = Rest(h, new)
  BY DEF Half, Answered, Rest
<1>2. IsRequest(now, new) <=> Fresh(h, new)
  BY <1>1 DEF IsRequest, Fresh, Half
<1>3. /\ Replies(h, new) <=> Fresh(h, new) /\ (new \/ h.state)
      /\ Refuses(h, new, agree) <=> no
  BY <1>2 DEF Replies, Refuses
<1> HIDE DEF now
<1>4. out = [(IF ~Fresh(h, new) THEN now
              ELSE IF no THEN [now EXCEPT !.resp = @ + 1]
              ELSE [now EXCEPT !.want = new]) EXCEPT !.state = new]
  BY <1>2, <1>3 DEF Outcome, Settled, Accepted, Refused, now
<1>5. now.resp = Answered(h, new).resp
  BY DEF now
<1> HIDE DEF out
<1>6. CASE ~Fresh(h, new)
  <2>1. out \in Half /\ (out.state <=> new) /\ out.want = h.want /\ out.resp = Rest(h, new)
    BY <1>1, <1>4, <1>6 DEF Half
  <2> QED
    BY <1>1, <1>3, <1>5, <1>6, <2>1 DEF out
<1>7. CASE no
  <2>1. now.resp = 0
    BY <1>1, <1>7 DEF Fresh
  <2>2. [now EXCEPT !.resp = @ + 1]
          = [state |-> now.state, want |-> now.want, resp |-> 1]
    BY <1>1, <2>1 DEF Half
  <2>3. out = [state |-> new, want |-> h.want, resp |-> 1]
    BY <1>1, <1>4, <1>7, <2>2
  <2>4. h.want \in BOOLEAN
    BY DEF Half
  <2>5. out \in Half /\ (out.state <=> new) /\ out.want = h.want /\ out.resp = 1
    BY <2>3, <2>4 DEF Half
  <2> QED
    BY <1>1, <1>3, <1>5, <1>7, <2>5 DEF out
<1>8. CASE Fresh(h, new) /\ ~no
  <2>1. out \in Half /\ (out.state <=> new) /\ (out.want <=> new) /\ out.resp = Rest(h, new)
    BY <1>1, <1>4, <1>8 DEF Half
  <2> QED
    BY <1>1, <1>3, <1>5, <1>8, <2>1 DEF out
<1> QED
  BY <1>6, <1>7, <1>8

\* The same of an end and the first command on its wire.
Remaining(e) == IF Pending(e) = 0 THEN 0
                ELSE IF Pending(e) > 1 /\ (Heard(e) <=> Said(e, 1)) THEN Pending(e) - 2
                ELSE Pending(e) - 1

IsNew(e) == Remaining(e) = 0 /\ ~(Wants(e) <=> Said(e, 1))

LEMMA TailSeq ==
    ASSUME NEW s \in Seq(BOOLEAN), s # << >>
    PROVE  /\ Head(s) = s[1] /\ s[1] \in BOOLEAN
           /\ Len(s) >= 1 /\ Tail(s) \in Seq(BOOLEAN)
           /\ Len(Tail(s)) = Len(s) - 1
           /\ \A i \in 1 .. Len(s) - 1 : Tail(s)[i] = s[i + 1]
  OBVIOUS

LEMMA ReceiveStep ==
    ASSUME TypeOK, NEW e \in Ends, NEW o \in Ends, o = Other(e),
           NEW agree \in BOOLEAN, Receive(e, agree)
    PROVE  LET new == Said(e, 1)
               no == IsNew(e) /\ new /\ ~agree
               reply == IsNew(e) /\ (new \/ Heard(e)) IN
           /\ TypeOK' /\ asks' = asks /\ overtaken' = overtaken
           /\ refused' = IF no THEN refused \cup {e}
                         ELSE IF Remaining(e) = 0 THEN refused \ {e} ELSE refused
           /\ lone' = IF no THEN {} ELSE lone
           /\ new \in BOOLEAN /\ OnWire(e) >= 1
           /\ Heard(e)' <=> new
           /\ Pending(e)' = IF no THEN 1 ELSE Remaining(e)
           /\ Wants(e)' <=> IF IsNew(e) /\ ~no THEN new ELSE Wants(e)
           /\ (Heard(o)' <=> Heard(o)) /\ (Wants(o)' <=> Wants(o))
           /\ Pending(o)' = Pending(o)
           /\ OnWire(e)' = OnWire(e) - 1
           /\ \A i \in 1 .. OnWire(e) - 1 : Said(e, i)' <=> Said(e, i + 1)
           /\ OnWire(o)' = IF reply THEN OnWire(o) + 1 ELSE OnWire(o)
           /\ \A i \in 1 .. OnWire(o) : Said(o, i)' <=> Said(o, i)
           /\ reply => (Said(o, OnWire(o))' <=> Wants(e)')
<1> DEFINE new == wire[e][1]
           h == Outcome(half[e], new, agree)
           sent == IF Replies(half[e], new) THEN Append(wire[o], h.want) ELSE wire[o]
           no == IsNew(e) /\ new /\ ~agree
<1>1. /\ half[e] \in Half /\ half[o] \in Half /\ o # e
      /\ wire[e] \in Seq(BOOLEAN) /\ wire[o] \in Seq(BOOLEAN)
  BY TwoEnds DEF TypeOK
<1>2. /\ wire[e] # << >> /\ Head(wire[e]) = new /\ new \in BOOLEAN
      /\ Len(wire[e]) >= 1 /\ Tail(wire[e]) \in Seq(BOOLEAN)
      /\ Len(Tail(wire[e])) = Len(wire[e]) - 1
      /\ \A i \in 1 .. Len(wire[e]) - 1 : Tail(wire[e])[i] = wire[e][i + 1]
  <2>1. wire[e] # << >>
    BY DEF Receive
  <2> QED
    BY <1>1, <2>1, TailSeq
<1>3. /\ half' = [half EXCEPT ![e] = h]
      /\ wire' = [wire EXCEPT ![e] = Tail(wire[e]), ![o] = sent]
      /\ refused' = StillRefused(e, half[e], new, agree)
      /\ lone' = IF Refuses(half[e], new, agree) THEN {} ELSE lone
      /\ UNCHANGED <<asks, overtaken>>
  BY <1>1, <1>2 DEF Receive, TypeOK
<1>4. Said(e, 1) = new
  BY DEF Said
<1> HIDE DEF new
<1>5. /\ h \in Half /\ (h.state <=> new)
      /\ Refuses(half[e], new, agree) <=> Fresh(half[e], new) /\ new /\ ~agree
      /\ h.resp = IF Refuses(half[e], new, agree) THEN 1 ELSE Rest(half[e], new)
      /\ h.want <=> IF Fresh(half[e], new) /\ ~Refuses(half[e], new, agree)
                    THEN new ELSE half[e].want
      /\ Replies(half[e], new) <=> Fresh(half[e], new) /\ (new \/ half[e].state)
      /\ Answered(half[e], new).resp = Rest(half[e], new)
  <2>1. half[e] \in Half /\ new \in BOOLEAN /\ agree \in BOOLEAN
    BY <1>1, <1>2
  <2> QED
    BY <2>1, OutcomeFields DEF h
<1>6. Rest(half[e], new) = Remaining(e) /\ (Fresh(half[e], new) <=> IsNew(e))
  BY <1>4 DEF Rest, Fresh, Remaining, IsNew, Pending, Heard, Wants
<1>7. Refuses(half[e], new, agree) <=> no
  BY <1>5, <1>6
<1>8. /\ refused' = IF no THEN refused \cup {e}
                    ELSE IF Remaining(e) = 0 THEN refused \ {e} ELSE refused
      /\ lone' = IF no THEN {} ELSE lone
  BY <1>3, <1>5, <1>6, <1>7 DEF StillRefused
<1> HIDE DEF h
<1>9. sent \in Seq(BOOLEAN)
  <2>1. h.want \in BOOLEAN
    BY <1>5 DEF Half
  <2>2. Append(wire[o], h.want) \in Seq(BOOLEAN)
    BY <1>1, <2>1
  <2> QED
    BY <1>1, <2>2
<1>10. /\ half' \in [Ends -> Half] /\ half'[e] = h /\ half'[o] = half[o]
  BY <1>1, <1>3, <1>5 DEF TypeOK
<1> HIDE DEF sent
<1>11. /\ wire' \in [Ends -> Seq(BOOLEAN)] /\ wire'[e] = Tail(wire[e])
       /\ wire'[o] = sent
  BY <1>1, <1>2, <1>3, <1>9 DEF TypeOK
<1>12. TypeOK'
  <2>1. refused' \subseteq Ends /\ lone' \subseteq Ends \X BOOLEAN
    BY <1>8 DEF TypeOK
  <2>2. overtaken' \in BOOLEAN /\ asks' \in [Ends -> 0 .. MaxAsks]
    BY <1>3 DEF TypeOK
  <2> QED
    BY <1>10, <1>11, <2>1, <2>2 DEF TypeOK
<1>13. /\ Heard(e)' <=> new
       /\ Pending(e)' = IF no THEN 1 ELSE Remaining(e)
       /\ Wants(e)' <=> IF IsNew(e) /\ ~no THEN new ELSE Wants(e)
       /\ (Heard(o)' <=> Heard(o)) /\ (Wants(o)' <=> Wants(o))
       /\ Pending(o)' = Pending(o)
  BY <1>5, <1>6, <1>7, <1>10 DEF Heard, Pending, Wants
<1>14. /\ OnWire(e) >= 1 /\ OnWire(e)' = OnWire(e) - 1
       /\ \A i \in 1 .. OnWire(e) - 1 : Said(e, i)' <=> Said(e, i + 1)
  BY <1>2, <1>11 DEF OnWire, Said
<1>15. CASE IsNew(e) /\ (new \/ Heard(e))
  <2>1. wire'[o] = Append(wire[o], h.want)
    BY <1>5, <1>6, <1>11, <1>15 DEF sent, Heard
  <2>2. h.want \in BOOLEAN /\ (Wants(e)' <=> h.want)
    BY <1>5, <1>10 DEF Half, Wants
  <2>3. /\ OnWire(o)' = OnWire(o) + 1
        /\ \A i \in 1 .. OnWire(o) : Said(o, i)' <=> Said(o, i)
        /\ Said(o, OnWire(o))' <=> h.want
    BY <1>1, <2>1, <2>2 DEF OnWire, Said
  <2> QED
    BY <1>2, <1>3, <1>4, <1>8, <1>12, <1>13, <1>14, <1>15, <2>2, <2>3
<1>16. CASE ~(IsNew(e) /\ (new \/ Heard(e)))
  <2>1. wire'[o] = wire[o]
    BY <1>5, <1>6, <1>11, <1>16 DEF sent, Heard
  <2>2. /\ OnWire(o)' = OnWire(o)
        /\ \A i \in 1 .. OnWire(o) : Said(o, i)' <=> Said(o, i)
    BY <2>1 DEF OnWire, Said
  <2> QED
    BY <1>2, <1>3, <1>4, <1>8, <1>12, <1>13, <1>14, <1>16, <2>2
<1> QED
  BY <1>15, <1>16

-----------------------------------------------------------------------------
(* The numbers, when a command is sent and when one is received.           *)

\* The new command has the number after the last, or the one after that.
LEMMA Extended ==
    ASSUME TypeOK, NEW x \in Ends, NEW at \in [Nat -> Int], NEW n \in Nat,
           NEW g \in 1 .. 2, Numbered(x, at, n), n = at[OnWire(x)] \/ g = 1,
           Heard(x)' <=> Heard(x), OnWire(x)' = OnWire(x) + 1,
           \A i \in 1 .. OnWire(x) : Said(x, i)' <=> Said(x, i),
           Said(x, OnWire(x))' <=> (Heard(x) <=> ~Odd(n + g))
    PROVE  \E to \in [Nat -> Int] :
               /\ Numbered(x, to, n + g)'
               /\ to[OnWire(x) + 1] = n + g
               /\ \A i \in 0 .. OnWire(x) : to[i] = at[i]
<1>1. PICK l \in Nat : l = OnWire(x)
  BY Types
<1> DEFINE to == [at EXCEPT ![l + 1] = n + g]
<1>2. /\ to \in [Nat -> Int] /\ to[l + 1] = n + g
      /\ \A i \in 0 .. l : to[i] = at[i]
  <2>1. l + 1 \in Nat /\ n + g \in Int
    BY <1>1
  <2> QED
    BY <2>1
<1> HIDE DEF to
<1>3. /\ n = at[l] \/ (l = 0 /\ n = 1 /\ g = 1 /\ at[l] = 0)
      /\ at[0] = 0
      /\ \A i, j \in 0 .. l : i < j => at[i] < at[j]
      /\ \A i \in 1 .. l : at[i] - at[i - 1] \in 1 .. 2 /\ at[i] <= n
      /\ \A i \in 1 .. l : Said(x, i) <=> (Heard(x) <=> ~Odd(at[i]))
  BY <1>1 DEF Numbered
<1>4. \A i \in 0 .. l : at[i] \in Int /\ at[i] <= at[l]
  BY <1>1, <1>3
<1>5. /\ to[l + 1] - to[l] \in 1 .. 2 /\ to[l] < to[l + 1]
      /\ \A i \in 0 .. l : to[i] < to[l + 1]
  BY <1>1, <1>2, <1>3, <1>4
<1>6. /\ to[0] = 0
      /\ \A i, j \in 0 .. l + 1 : i < j => to[i] < to[j]
  BY <1>1, <1>2, <1>3, <1>5
<1>7. \A i \in 1 .. l + 1 : to[i] - to[i - 1] \in 1 .. 2 /\ to[i] <= n + g
  <2> SUFFICES ASSUME NEW i \in 1 .. l + 1
               PROVE  to[i] - to[i - 1] \in 1 .. 2 /\ to[i] <= n + g
    OBVIOUS
  <2>1. CASE i = l + 1
    BY <1>1, <1>2, <1>5, <2>1
  <2>2. CASE i \in 1 .. l
    BY <1>1, <1>2, <1>3, <2>2
  <2> QED
    BY <1>1, <2>1, <2>2
<1>8. \A i \in 1 .. l + 1 : Said(x, i)' <=> (Heard(x) <=> ~Odd(to[i]))
  <2> SUFFICES ASSUME NEW i \in 1 .. l + 1
               PROVE  Said(x, i)' <=> (Heard(x) <=> ~Odd(to[i]))
    OBVIOUS
  <2>1. CASE i = l + 1
    <3>1. i = OnWire(x)'
      BY <1>1, <2>1
    <3> QED
      BY <1>2, <2>1, <3>1
  <2>2. CASE i \in 1 .. l
    BY <1>1, <1>2, <1>3, <2>2
  <2> QED
    BY <1>1, <2>1, <2>2
<1>9. OnWire(x)' = l + 1
  BY <1>1
<1>10. Numbered(x, to, n + g)'
  BY <1>2, <1>6, <1>7, <1>8, <1>9 DEF Numbered
<1> QED
  BY <1>1, <1>2, <1>10

\* The numbers are counted from the command that is received.
LEMMA Shifted ==
    ASSUME TypeOK, NEW x \in Ends, NEW at \in [Nat -> Int], NEW n \in Nat,
           Numbered(x, at, n), OnWire(x) >= 1,
           Heard(x)' <=> Said(x, 1), OnWire(x)' = OnWire(x) - 1,
           \A i \in 1 .. OnWire(x) - 1 : Said(x, i)' <=> Said(x, i + 1)
    PROVE  /\ at[1] \in 1 .. 2 /\ n - at[1] \in Nat
           /\ Said(x, 1) <=> (Heard(x) <=> ~Odd(at[1]))
           /\ \E to \in [Nat -> Int] :
                 /\ Numbered(x, to, n - at[1])'
                 /\ \A i \in 0 .. OnWire(x) - 1 : to[i] = at[i + 1] - at[1]
<1>1. PICK l \in Nat : l = OnWire(x) /\ l >= 1
  BY Types
<1>2. /\ n = at[l] /\ at[0] = 0
      /\ \A i, j \in 0 .. l : i < j => at[i] < at[j]
      /\ \A i \in 1 .. l : at[i] - at[i - 1] \in 1 .. 2 /\ at[i] <= n
      /\ \A i \in 1 .. l : Said(x, i) <=> (Heard(x) <=> ~Odd(at[i]))
  BY <1>1 DEF Numbered
<1>3. at[1] \in 1 .. 2 /\ n - at[1] \in Nat
  <2>1. at[1] - at[0] \in 1 .. 2 /\ at[1] <= n /\ at[1] \in Int
    BY <1>1, <1>2
  <2> QED
    BY <1>2, <2>1
<1>4. Said(x, 1) <=> (Heard(x) <=> ~Odd(at[1]))
  BY <1>1, <1>2
<1> DEFINE to == [i \in Nat |-> at[i + 1] - at[1]]
<1>5. to \in [Nat -> Int] /\ \A i \in 0 .. l - 1 : to[i] = at[i + 1] - at[1]
  BY <1>1
<1> HIDE DEF to
<1>6. to[0] = 0 /\ \A i, j \in 0 .. l - 1 : i < j => to[i] < to[j]
  <2>1. \A i \in 0 .. l - 1 : i + 1 \in 0 .. l /\ at[i + 1] \in Int
    BY <1>1
  <2> QED
    BY <1>1, <1>2, <1>3, <1>5, <2>1
<1>7. \A i \in 1 .. l - 1 : to[i] - to[i - 1] \in 1 .. 2 /\ to[i] <= n - at[1]
  <2> SUFFICES ASSUME NEW i \in 1 .. l - 1
               PROVE  to[i] - to[i - 1] \in 1 .. 2 /\ to[i] <= n - at[1]
    OBVIOUS
  <2>1. /\ i \in 0 .. l - 1 /\ i - 1 \in 0 .. l - 1 /\ i + 1 \in 1 .. l
        /\ (i + 1) - 1 = i /\ (i - 1) + 1 = i
    BY <1>1
  <2>2. /\ to[i] = at[i + 1] - at[1] /\ to[i - 1] = at[i] - at[1]
        /\ at[i + 1] - at[i] \in 1 .. 2 /\ at[i + 1] <= n
        /\ at[i + 1] \in Int /\ at[i] \in Int /\ at[1] \in Int
    <3>1. to[i - 1] = at[(i - 1) + 1] - at[1]
      BY <1>5, <2>1
    <3>2. at[i + 1] - at[(i + 1) - 1] \in 1 .. 2
      BY <1>2, <2>1
    <3> QED
      BY <1>1, <1>2, <1>5, <2>1, <3>1, <3>2
  <2> QED
    BY <2>2
<1>8. \A i \in 1 .. l - 1 : Said(x, i)' <=> (Heard(x)' <=> ~Odd(to[i]))
  <2> SUFFICES ASSUME NEW i \in 1 .. l - 1
               PROVE  Said(x, i)' <=> (Heard(x)' <=> ~Odd(to[i]))
    OBVIOUS
  <2>1. /\ i + 1 \in 1 .. l /\ i \in 0 .. l - 1 /\ i + 1 \in 0 .. l /\ 1 \in 0 .. l
        /\ 0 \in 0 .. l /\ 1 < i + 1
    BY <1>1
  <2>2. Said(x, i)' <=> (Heard(x) <=> ~Odd(at[i + 1]))
    BY <1>1, <1>2, <2>1
  <2>3. at[1] \in Nat /\ at[i + 1] \in Nat /\ at[1] <= at[i + 1]
    <3>1. at[0] < at[1] /\ at[1] < at[i + 1] /\ at[1] \in Int /\ at[i + 1] \in Int
      BY <1>2, <2>1
    <3> QED
      BY <1>2, <3>1
  <2>4. Odd(to[i]) <=> ~(Odd(at[1]) <=> Odd(at[i + 1]))
    BY <1>5, <2>1, <2>3, OddApart
  <2> QED
    BY <1>4, <2>2, <2>4
<1>9. OnWire(x)' = l - 1 /\ to[l - 1] = n - at[1]
  <2>1. l - 1 \in 0 .. l - 1 /\ (l - 1) + 1 = l
    BY <1>1
  <2> QED
    BY <1>1, <1>2, <1>5, <2>1
<1>10. Numbered(x, to, n - at[1])'
  BY <1>6, <1>7, <1>8, <1>9 DEF Numbered
<1> QED
  BY <1>1, <1>3, <1>4, <1>5, <1>10

\* A number is skipped on the wire of an end that has asked.
LEMMA AskKeeps ==
    ASSUME TypeOK, NEW e \in Ends, NEW o \in Ends, o = Other(e), Joint(e, o),
           NEW new \in BOOLEAN, Ask(e, new), e \notin refused
    PROVE  Joint(e, o)'
<1>1. PICK p, q \in [Nat -> Int], m, n \in Nat :
          /\ Side(e, o, p, m) /\ Side(o, e, q, n)
          /\ Pending(e) + Pending(o) = m + n
  BY DEF Joint
<1>2. /\ Pending(e) \in Nat /\ OnWire(e) \in Nat /\ Pending(o) \in Nat /\ OnWire(o) \in Nat
      /\ Heard(e) \in BOOLEAN /\ Wants(e) \in BOOLEAN
      /\ Heard(o) \in BOOLEAN /\ Wants(o) \in BOOLEAN
  BY Types
<1>3. refused' = refused
  BY AskStep
<1>4. Said(o, OnWire(o))' <=> (Heard(o) <=> ~Odd(n + 1))
  <2>1. Wants(e) <=> (Heard(o) <=> ~Odd(n))
    BY <1>1 DEF Side, Minds
  <2> QED
    BY <1>2, <2>1, AskStep, OddSteps
<1>5. PICK to \in [Nat -> Int] :
          /\ Numbered(o, to, n + 1)'
          /\ to[OnWire(o) + 1] = n + 1
          /\ \A i \in 0 .. OnWire(o) : to[i] = q[i]
  <2>1. Numbered(o, q, n) /\ 1 \in 1 .. 2
    BY <1>1 DEF Side
  <2>2. /\ Heard(o)' <=> Heard(o)
        /\ OnWire(o)' = OnWire(o) + 1
        /\ \A i \in 1 .. OnWire(o) : Said(o, i)' <=> Said(o, i)
    BY AskStep
  <2> QED
    BY <1>4, <2>1, <2>2, Extended
<1>6. Skipped(o, e, to)'
  <2> SUFFICES ASSUME NEW i \in 1 .. OnWire(o) + 1, to[i] - to[i - 1] = 2
               PROVE  IF Said(o, i)' THEN i = 1 /\ o \in refused
                      ELSE e \in refused \/ Pending(o) >= to[i]
    BY <1>3, AskStep DEF Skipped
  <2>1. CASE i \in 1 .. OnWire(o)
    <3>1. i \in 0 .. OnWire(o) /\ i - 1 \in 0 .. OnWire(o)
      BY <1>2, <2>1
    <3>2. q[i] - q[i - 1] = 2 /\ to[i] = q[i] /\ (Said(o, i)' <=> Said(o, i))
      BY <1>5, <2>1, <3>1, AskStep
    <3> QED
      BY <1>1, <2>1, <3>2 DEF Side, Skipped
  <2>2. CASE i = OnWire(o) + 1
    <3>1. i - 1 = OnWire(o) /\ OnWire(o) \in 0 .. OnWire(o)
      BY <1>2, <2>2
    <3>2. to[i] = n + 1 /\ to[i - 1] = q[OnWire(o)]
      BY <1>5, <2>2, <3>1
    <3>3. n # q[OnWire(o)]
      BY <3>2
    <3>4. OnWire(o) = 0 /\ n = 1 /\ o \in refused
      BY <1>1, <3>3 DEF Side, Numbered
    <3>5. Heard(o) /\ ~Odd(n + 1)
      BY <1>1, <3>4, OddSteps DEF Side, Minds
    <3>6. Said(o, i)' <=> new
      <4>1. i = OnWire(o)'
        BY <2>2, AskStep
      <4> QED
        BY <4>1, AskStep
    <3>7. Said(o, OnWire(o))' <=> new
      BY AskStep
    <3> QED
      BY <1>4, <2>2, <3>4, <3>5, <3>6, <3>7
  <2> QED
    BY <1>2, <2>1, <2>2
<1>7. Minds(o, e, n + 1)' /\ Minds(e, o, m)'
  <2>1. Minds(o, e, n) /\ Minds(e, o, m)
    BY <1>1 DEF Side
  <2>2. Wants(e)' <=> ~Wants(e)
    BY <1>2, AskStep
  <2> QED
    BY <1>2, <1>3, <2>1, <2>2, AskStep, OddSteps DEF Minds
<1>8. Numbered(e, p, m)'
  <2>1. Numbered(e, p, m)
    BY <1>1 DEF Side
  <2> QED
    BY <1>2, <1>3, <2>1, AskStep DEF Numbered
<1>9. Skipped(e, o, p)'
  <2>1. Skipped(e, o, p)
    BY <1>1 DEF Side
  <2>2. \A i \in 1 .. OnWire(e) : p[i] \in Int
    BY <1>2
  <2> SUFFICES ASSUME NEW i \in 1 .. OnWire(e), p[i] - p[i - 1] = 2
               PROVE  IF Said(e, i)' THEN i = 1 /\ e \in refused
                      ELSE o \in refused \/ Pending(e)' >= p[i]
    BY <1>3, AskStep DEF Skipped
  <2>3. Said(e, i)' <=> Said(e, i)
    BY AskStep
  <2>4. Pending(e)' = Pending(e) + 1
    BY AskStep
  <2> QED
    BY <1>2, <2>1, <2>2, <2>3, <2>4 DEF Skipped
<1>10. n + 1 \in Nat /\ Pending(e)' + Pending(o)' = m + (n + 1)
  BY <1>1, <1>2, AskStep
<1> QED
  BY <1>5, <1>6, <1>7, <1>8, <1>9, <1>10 DEF Joint, Side

\* What a command may do: it answers as many requests as there are numbers up
\* to it; it is a request that is granted and answered; it is refused; or it
\* is a refusal that nobody confirms.
Answers(e, d) ==
    /\ Pending(e)' = Pending(e) - d /\ (Wants(e)' <=> Wants(e))
    /\ ~IsNew(e)

Grants(e, d) ==
    /\ Pending(e) = d - 1 /\ Pending(e)' = 0 /\ (Wants(e)' <=> Said(e, 1))
    /\ IsNew(e) /\ (Said(e, 1) \/ Heard(e)) /\ e \notin refused'

Declines(e, d) ==
    /\ Pending(e) = d - 1 /\ Pending(e)' = 1 /\ ~Wants(e) /\ ~Wants(e)'
    /\ IsNew(e) /\ Said(e, 1) /\ e \in refused'

Accedes(e, o, d) ==
    /\ Pending(e) = 1 /\ d = 2 /\ Pending(e)' = 0 /\ ~Wants(e)'
    /\ ~Said(e, 1) /\ ~Heard(e) /\ o \in refused /\ e \notin refused'

LEMMA ReceiveCases ==
    ASSUME TypeOK, NEW e \in Ends, NEW o \in Ends, o = Other(e),
           NEW agree \in BOOLEAN, Receive(e, agree),
           NEW p \in [Nat -> Int], NEW m \in Nat, Side(e, o, p, m),
           o \in refused => Pending(e) >= p[1] - 1
    PROVE  /\ \/ Answers(e, p[1]) /\ e \notin refused'
              \/ Grants(e, p[1])
              \/ Declines(e, p[1])
              \/ Accedes(e, o, p[1])
           /\ p[1] \in 1 .. 2
           /\ Said(e, 1) <=> (Heard(e) <=> ~Odd(p[1]))
<1>1. /\ Pending(e) \in Nat /\ Pending(o) \in Nat
      /\ OnWire(e) \in Nat /\ OnWire(e) >= 1
      /\ Heard(e) \in BOOLEAN /\ Wants(e) \in BOOLEAN /\ Said(e, 1) \in BOOLEAN
  BY Types, ReceiveStep
<1>2. p[1] \in 1 .. 2 /\ (Said(e, 1) <=> (Heard(e) <=> ~Odd(p[1])))
  <2>1. Numbered(e, p, m)
    BY DEF Side
  <2>2. OnWire(e) >= 1 /\ (Heard(e)' <=> Said(e, 1)) /\ OnWire(e)' = OnWire(e) - 1
    BY ReceiveStep
  <2>3. \A i \in 1 .. OnWire(e) - 1 : Said(e, i)' <=> Said(e, i + 1)
    BY ReceiveStep
  <2> QED
    BY <2>1, <2>2, <2>3, Shifted
<1>3. /\ Wants(e) <=> (Heard(e) <=> ~Odd(Pending(e)))
      /\ e \in refused => Heard(e) /\ ~Wants(e) /\ Pending(e) = 1
  BY DEF Side, Minds
<1>4. p[1] = 2 => IF Said(e, 1) THEN e \in refused ELSE o \in refused \/ Pending(e) >= 2
  <2>1. 1 \in 1 .. OnWire(e) /\ p[0] = 0 /\ p[1] \in Int
    BY <1>1 DEF Side, Numbered
  <2> QED
    BY <2>1 DEF Side, Skipped
<1>5. /\ Pending(e)' = IF IsNew(e) /\ Said(e, 1) /\ ~agree THEN 1 ELSE Remaining(e)
      /\ Wants(e)' <=> IF IsNew(e) /\ ~(Said(e, 1) /\ ~agree) THEN Said(e, 1) ELSE Wants(e)
      /\ refused' = IF IsNew(e) /\ Said(e, 1) /\ ~agree THEN refused \cup {e}
                    ELSE IF Remaining(e) = 0 THEN refused \ {e} ELSE refused
  BY <1>1, ReceiveStep
<1>6. CASE p[1] = 1
  <2>1. Said(e, 1) <=> ~Heard(e)
    BY <1>2, <1>6, OddSteps
  <2>2. CASE Pending(e) = 0
    <3>1. Remaining(e) = 0 /\ IsNew(e) /\ e \notin refused
      BY <1>1, <1>3, <2>1, <2>2, OddSteps DEF Remaining, IsNew
    <3>2. CASE Said(e, 1) /\ ~agree
      <4>1. Declines(e, p[1])
        BY <1>3, <1>5, <1>6, <2>1, <2>2, <3>1, <3>2, OddSteps DEF Declines
      <4> QED
        BY <1>2, <4>1
    <3>3. CASE ~(Said(e, 1) /\ ~agree)
      <4>1. Grants(e, p[1])
        BY <1>1, <1>3, <1>5, <1>6, <2>1, <2>2, <3>1, <3>3 DEF Grants
      <4> QED
        BY <1>2, <4>1
    <3> QED
      BY <3>2, <3>3
  <2>3. CASE Pending(e) = 1
    <3>1. Remaining(e) = 0 /\ ~IsNew(e)
      BY <1>1, <1>3, <2>1, <2>3, OddSteps DEF Remaining, IsNew
    <3>2. Answers(e, p[1]) /\ e \notin refused'
      BY <1>5, <1>6, <2>3, <3>1 DEF Answers
    <3> QED
      BY <1>2, <3>2
  <2>4. CASE Pending(e) > 1
    <3>1. Remaining(e) = Pending(e) - 1 /\ Remaining(e) # 0 /\ ~IsNew(e)
      BY <1>1, <2>1, <2>4 DEF Remaining, IsNew
    <3>2. Answers(e, p[1]) /\ e \notin refused'
      BY <1>3, <1>5, <1>6, <2>4, <3>1 DEF Answers
    <3> QED
      BY <1>2, <3>2
  <2> QED
    BY <1>1, <2>2, <2>3, <2>4
<1>7. CASE p[1] = 2
  <2>1. Said(e, 1) <=> Heard(e)
    BY <1>2, <1>7, OddSteps
  <2>2. CASE Said(e, 1)
    <3>1. Pending(e) = 1 /\ ~Wants(e)
      BY <1>3, <1>4, <1>7, <2>2
    <3>2. Remaining(e) = 0 /\ IsNew(e)
      BY <2>2, <3>1 DEF Remaining, IsNew
    <3>3. CASE ~agree
      <4>1. Declines(e, p[1])
        BY <1>5, <1>7, <2>2, <3>1, <3>2, <3>3 DEF Declines
      <4> QED
        BY <1>2, <4>1
    <3>4. CASE agree
      <4>1. Grants(e, p[1])
        BY <1>1, <1>5, <1>7, <2>2, <3>1, <3>2, <3>4 DEF Grants
      <4> QED
        BY <1>2, <4>1
    <3> QED
      BY <3>3, <3>4
  <2>3. CASE ~Said(e, 1) /\ Pending(e) >= 2
    <3>1. Remaining(e) = Pending(e) - 2
      BY <1>1, <2>1, <2>3 DEF Remaining
    <3>2. ~IsNew(e)
      BY <1>1, <1>3, <2>1, <2>3, <3>1, OddSteps DEF IsNew
    <3>3. e \notin refused
      BY <1>3, <2>1, <2>3
    <3>4. Answers(e, p[1]) /\ e \notin refused'
      BY <1>5, <1>7, <2>3, <3>1, <3>2, <3>3 DEF Answers
    <3> QED
      BY <1>2, <3>4
  <2>4. CASE ~Said(e, 1) /\ ~(Pending(e) >= 2)
    <3>1. o \in refused
      BY <1>4, <1>7, <2>4
    <3>2. Pending(e) = 1
      BY <1>1, <1>7, <2>4, <3>1
    <3>3. Remaining(e) = 0 /\ Wants(e) /\ ~Heard(e) /\ e \notin refused /\ IsNew(e)
      BY <1>1, <1>3, <2>1, <2>4, <3>2, OddSteps DEF Remaining, IsNew
    <3>4. Accedes(e, o, p[1])
      BY <1>1, <1>5, <1>7, <2>4, <3>1, <3>2, <3>3 DEF Accedes
    <3> QED
      BY <1>2, <3>4
  <2> QED
    BY <2>2, <2>3, <2>4
<1> QED
  BY <1>2, <1>6, <1>7

LEMMA PendingNat ==
    ASSUME NEW e \in Ends, TypeOK'
    PROVE  Pending(e)' \in Nat
BY DEF TypeOK, Half, Pending

\* No number is skipped on the wire of the end that receives, but for those
\* that were, and each of them is answered.
LEMMA ReceiverSide ==
    ASSUME TypeOK, NEW e \in Ends, NEW o \in Ends, o = Other(e),
           NEW agree \in BOOLEAN, Receive(e, agree),
           NEW p \in [Nat -> Int], NEW m \in Nat, Side(e, o, p, m),
           o \in refused => Pending(e) >= p[1] - 1
    PROVE  \E to \in [Nat -> Int] : Side(e, o, to, m - p[1])' /\ m - p[1] \in Nat
<1>1. /\ Pending(e) \in Nat /\ Pending(o) \in Nat
      /\ OnWire(e) \in Nat /\ OnWire(e) >= 1
      /\ Heard(e) \in BOOLEAN /\ Wants(e) \in BOOLEAN /\ Said(e, 1) \in BOOLEAN
      /\ Wants(o) \in BOOLEAN
  BY Types, ReceiveStep
<1>2. /\ \/ Answers(e, p[1]) /\ e \notin refused'
         \/ Grants(e, p[1])
         \/ Declines(e, p[1])
         \/ Accedes(e, o, p[1])
      /\ p[1] \in 1 .. 2
      /\ Said(e, 1) <=> (Heard(e) <=> ~Odd(p[1]))
  BY ReceiveCases
<1>3. Numbered(e, p, m) /\ Skipped(e, o, p) /\ Minds(e, o, m)
  BY DEF Side
<1>4. OnWire(e) >= 1 /\ (Heard(e)' <=> Said(e, 1)) /\ OnWire(e)' = OnWire(e) - 1
  BY ReceiveStep
<1>5. \A i \in 1 .. OnWire(e) - 1 : Said(e, i)' <=> Said(e, i + 1)
  BY ReceiveStep
<1>6. /\ m - p[1] \in Nat
      /\ \E to \in [Nat -> Int] :
            /\ Numbered(e, to, m - p[1])'
            /\ \A i \in 0 .. OnWire(e) - 1 : to[i] = p[i + 1] - p[1]
  BY <1>3, <1>4, <1>5, Shifted
<1>7. PICK to \in [Nat -> Int] :
            /\ Numbered(e, to, m - p[1])'
            /\ \A i \in 0 .. OnWire(e) - 1 : to[i] = p[i + 1] - p[1]
  BY <1>6
<1>8. o \in refused' <=> o \in refused
  <2>1. o # e
    BY TwoEnds
  <2> QED
    BY <2>1, ReceiveStep
<1>9. Skipped(e, o, to)'
  <2> SUFFICES ASSUME NEW i \in 1 .. OnWire(e) - 1, to[i] - to[i - 1] = 2
               PROVE  IF Said(e, i)' THEN i = 1 /\ e \in refused'
                      ELSE o \in refused' \/ Pending(e)' >= to[i]
    BY <1>4 DEF Skipped
  <2>1. /\ i + 1 \in 1 .. OnWire(e) /\ (i + 1) - 1 = i /\ i + 1 # 1
        /\ i \in 0 .. OnWire(e) - 1 /\ i - 1 \in 0 .. OnWire(e) - 1 /\ (i - 1) + 1 = i
        /\ 1 \in 0 .. OnWire(e) /\ i + 1 \in 0 .. OnWire(e) /\ 1 < i + 1
    BY <1>1
  <2>2. to[i] = p[i + 1] - p[1] /\ to[i - 1] = p[i] - p[1]
    <3>1. to[i - 1] = p[(i - 1) + 1] - p[1]
      BY <1>7, <2>1
    <3> QED
      BY <1>7, <2>1, <3>1
  <2>3. p[i + 1] - p[(i + 1) - 1] = 2 /\ p[1] < p[i + 1] /\ p[i + 1] \in Int /\ p[1] \in Int
    BY <1>1, <1>3, <2>1, <2>2 DEF Numbered
  <2>4. IF Said(e, i + 1) THEN FALSE ELSE o \in refused \/ Pending(e) >= p[i + 1]
    BY <1>3, <2>1, <2>3 DEF Skipped
  <2>5. Said(e, i)' <=> Said(e, i + 1)
    BY <1>5
  <2>6. CASE o \in refused
    BY <1>8, <2>4, <2>5, <2>6
  <2>7. CASE o \notin refused
    <3>1. Pending(e) >= p[i + 1]
      BY <2>4, <2>7
    <3>2. Answers(e, p[1])
      BY <1>1, <1>2, <2>3, <2>7, <3>1 DEF Grants, Declines, Accedes
    <3>3. Pending(e)' >= to[i]
      BY <1>1, <2>2, <2>3, <3>1, <3>2 DEF Answers
    <3> QED
      BY <2>4, <2>5, <3>3
  <2> QED
    BY <2>6, <2>7
<1>10. Minds(e, o, m - p[1])'
  <2>1. Wants(o)' <=> (Heard(e)' <=> ~Odd(m - p[1]))
    <3>1. p[1] \in Nat /\ p[1] <= m
      BY <1>2, <1>6
    <3>2. Odd(m - p[1]) <=> ~(Odd(p[1]) <=> Odd(m))
      BY <3>1, OddApart
    <3>3. Wants(o)' <=> Wants(o)
      BY ReceiveStep
    <3>4. Wants(o) <=> (Heard(e) <=> ~Odd(m))
      BY <1>3 DEF Minds
    <3> QED
      BY <1>2, <1>4, <3>2, <3>3, <3>4
  <2>2. Wants(e) <=> (Heard(e) <=> ~Odd(Pending(e)))
    BY <1>3 DEF Minds
  <2>3. /\ Wants(e)' <=> (Heard(e)' <=> ~Odd(Pending(e)'))
        /\ e \in refused' => Heard(e)' /\ ~Wants(e)' /\ Pending(e)' = 1
    <3>1. CASE Answers(e, p[1]) /\ e \notin refused'
      <4>1. Pending(e)' \in Nat /\ Pending(e)' = Pending(e) - p[1] /\ (Wants(e)' <=> Wants(e))
        BY <3>1, ReceiveStep, Types, PendingNat DEF Answers
      <4>2. Odd(Pending(e)') <=> ~(Odd(p[1]) <=> Odd(Pending(e)))
        BY <1>1, <1>2, <4>1, OddApart
      <4> QED
        BY <1>2, <1>4, <2>2, <3>1, <4>1, <4>2
    <3>2. CASE Grants(e, p[1])
      BY <1>4, <3>2, OddSteps DEF Grants
    <3>3. CASE Declines(e, p[1])
      BY <1>4, <3>3, OddSteps DEF Declines
    <3>4. CASE Accedes(e, o, p[1])
      BY <1>4, <3>4, OddSteps DEF Accedes
    <3> QED
      BY <1>2, <3>1, <3>2, <3>3, <3>4
  <2> QED
    BY <2>1, <2>3 DEF Minds
<1> QED
  BY <1>6, <1>7, <1>9, <1>10 DEF Side

LEMMA ReceiveKeeps ==
    ASSUME TypeOK, NEW e \in Ends, NEW o \in Ends, o = Other(e), Joint(e, o),
           NEW agree \in BOOLEAN, Receive(e, agree)
    PROVE  Joint(e, o)'
<1>1. PICK p, q \in [Nat -> Int], m, n \in Nat :
          /\ Side(e, o, p, m) /\ Side(o, e, q, n)
          /\ Pending(e) + Pending(o) = m + n
  BY DEF Joint
<1>2. /\ Pending(e) \in Nat /\ OnWire(e) \in Nat /\ Pending(o) \in Nat /\ OnWire(o) \in Nat
      /\ Heard(e) \in BOOLEAN /\ Wants(e) \in BOOLEAN
      /\ Heard(o) \in BOOLEAN /\ Wants(o) \in BOOLEAN /\ Said(e, 1) \in BOOLEAN
  BY Types, ReceiveStep
<1>3. /\ Numbered(e, p, m) /\ Skipped(e, o, p) /\ Minds(e, o, m)
      /\ Numbered(o, q, n) /\ Skipped(o, e, q) /\ Minds(o, e, n)
  BY <1>1 DEF Side
<1>4. p[1] \in 1 .. 2 /\ p[1] <= m
  <2>1. OnWire(e) >= 1 /\ 1 \in 1 .. OnWire(e)
    BY <1>2, ReceiveStep
  <2>2. p[1] - p[0] \in 1 .. 2 /\ p[1] <= m /\ p[0] = 0 /\ p[1] \in Int
    BY <1>3, <2>1 DEF Numbered
  <2> QED
    BY <2>2
<1>5. o \in refused => Pending(e) >= p[1] - 1
  <2>1. o \in refused => Pending(o) = 1
    BY <1>3 DEF Minds
  <2> QED
    BY <1>1, <1>2, <1>4, <2>1
<1>6. /\ \/ Answers(e, p[1]) /\ e \notin refused'
         \/ Grants(e, p[1])
         \/ Declines(e, p[1])
         \/ Accedes(e, o, p[1])
      /\ Said(e, 1) <=> (Heard(e) <=> ~Odd(p[1]))
  BY <1>1, <1>5, ReceiveCases
<1>7. PICK to \in [Nat -> Int] : Side(e, o, to, m - p[1])' /\ m - p[1] \in Nat
  BY <1>1, <1>5, ReceiverSide
<1>8. /\ (Heard(o)' <=> Heard(o)) /\ (Wants(o)' <=> Wants(o)) /\ Pending(o)' = Pending(o)
      /\ o \in refused' <=> o \in refused
  <2>1. o # e
    BY TwoEnds
  <2> QED
    BY <2>1, ReceiveStep
<1>9. \A i \in 1 .. OnWire(o) : q[i] - q[i - 1] = 2 =>
          IF Said(o, i) THEN i = 1 /\ o \in refused ELSE Pending(o) >= q[i]
  <2> SUFFICES ASSUME NEW i \in 1 .. OnWire(o), q[i] - q[i - 1] = 2
               PROVE  IF Said(o, i) THEN i = 1 /\ o \in refused ELSE Pending(o) >= q[i]
    OBVIOUS
  <2>1. IF Said(o, i) THEN i = 1 /\ o \in refused ELSE e \in refused \/ Pending(o) >= q[i]
    BY <1>3 DEF Skipped
  <2>2. e \in refused => Pending(o) >= q[i]
    <3>1. e \in refused => Pending(e) = 1
      BY <1>3 DEF Minds
    <3>2. q[i] <= n /\ q[i] \in Int
      BY <1>2, <1>3 DEF Numbered
    <3> QED
      BY <1>1, <1>2, <1>4, <3>1, <3>2
  <2> QED
    BY <2>1, <2>2
<1>10. Pending(e) = p[1] - 1 => n = q[OnWire(o)]
  <2>1. o \in refused => Pending(o) = 1
    BY <1>3 DEF Minds
  <2> QED
    BY <1>1, <1>2, <1>3, <1>4, <2>1 DEF Numbered
<1>11. ASSUME OnWire(o)' = OnWire(o), NEW k \in Nat,
              k = n \/ (OnWire(o) = 0 /\ k = 1 /\ o \in refused),
              Wants(e)' <=> (Heard(o) <=> ~Odd(k)),
              Pending(e)' + Pending(o) = (m - p[1]) + k
       PROVE  Joint(e, o)'
  <2>1. \A i \in 1 .. OnWire(o) : Said(o, i)' <=> Said(o, i)
    BY ReceiveStep
  <2>2. Numbered(o, q, k)'
    BY <1>2, <1>3, <1>8, <1>11, <2>1 DEF Numbered
  <2>3. Skipped(o, e, q)'
    BY <1>8, <1>9, <1>11, <2>1 DEF Skipped
  <2>4. Minds(o, e, k)'
    BY <1>3, <1>8, <1>11 DEF Minds
  <2>5. Side(o, e, q, k)'
    BY <2>2, <2>3, <2>4 DEF Side
  <2>6. Pending(e)' + Pending(o)' = (m - p[1]) + k
    BY <1>8, <1>11
  <2> QED
    BY <1>7, <2>5, <2>6 DEF Joint
<1>12. ASSUME OnWire(o)' = OnWire(o) + 1, NEW g \in 1 .. 2, n = q[OnWire(o)],
              g = 2 => e \in refused',
              Wants(e)' <=> (Heard(o) <=> ~Odd(n + g)),
              g = 2 => ~Wants(e)',
              Said(o, OnWire(o))' <=> Wants(e)',
              Pending(e)' + Pending(o) = (m - p[1]) + (n + g)
       PROVE  Joint(e, o)'
  <2>1. \A i \in 1 .. OnWire(o) : Said(o, i)' <=> Said(o, i)
    BY ReceiveStep
  <2>2. PICK r \in [Nat -> Int] :
               /\ Numbered(o, r, n + g)'
               /\ r[OnWire(o) + 1] = n + g
               /\ \A i \in 0 .. OnWire(o) : r[i] = q[i]
    <3>1. /\ Heard(o)' <=> Heard(o)
          /\ Said(o, OnWire(o))' <=> (Heard(o) <=> ~Odd(n + g))
      BY <1>8, <1>12
    <3>2. /\ Numbered(o, q, n) /\ OnWire(o)' = OnWire(o) + 1
          /\ n = q[OnWire(o)] \/ g = 1
      BY <1>3, <1>12
    <3>3. (Heard(o)' <=> Heard(o)) /\ g \in 1 .. 2
      BY <3>1
    <3> QED
      BY <2>1, <3>1, <3>2, <3>3, Extended, SMTT(60)
  <2>3. Skipped(o, e, r)'
    <3> SUFFICES ASSUME NEW i \in 1 .. OnWire(o) + 1, r[i] - r[i - 1] = 2
                 PROVE  IF Said(o, i)' THEN i = 1 /\ o \in refused'
                        ELSE e \in refused' \/ Pending(o)' >= r[i]
      BY <1>12 DEF Skipped
    <3>1. CASE i \in 1 .. OnWire(o)
      <4>1. i \in 0 .. OnWire(o) /\ i - 1 \in 0 .. OnWire(o)
        BY <1>2, <3>1
      <4>2. r[i] = q[i] /\ r[i - 1] = q[i - 1]
        BY <2>2, <4>1
      <4>3. IF Said(o, i) THEN i = 1 /\ o \in refused ELSE Pending(o) >= q[i]
        BY <1>9, <3>1, <4>2
      <4> QED
        BY <1>8, <2>1, <3>1, <4>2, <4>3
    <3>2. CASE i = OnWire(o) + 1
      <4>1. i - 1 = OnWire(o) /\ OnWire(o) \in 0 .. OnWire(o)
        BY <1>2, <3>2
      <4>2. r[i] = n + g /\ r[i - 1] = n
        BY <1>12, <2>2, <3>2, <4>1
      <4>3. g = 2
        BY <4>2
      <4>4. i = OnWire(o)'
        BY <1>12, <3>2
      <4>5. Said(o, i)' <=> Said(o, OnWire(o))'
        BY <4>4
      <4> QED
        BY <1>12, <4>3, <4>5
    <3> QED
      BY <1>2, <3>1, <3>2
  <2>4. Minds(o, e, n + g)'
    BY <1>3, <1>8, <1>12 DEF Minds
  <2>5. Side(o, e, r, n + g)' /\ n + g \in Nat
    BY <2>2, <2>3, <2>4 DEF Side
  <2>6. Pending(e)' + Pending(o)' = (m - p[1]) + (n + g)
    BY <1>8, <1>12
  <2> QED
    BY <1>7, <2>5, <2>6 DEF Joint
<1>13. /\ OnWire(o)' = IF IsNew(e) /\ (Said(e, 1) \/ Heard(e)) THEN OnWire(o) + 1 ELSE OnWire(o)
       /\ IsNew(e) /\ (Said(e, 1) \/ Heard(e)) => (Said(o, OnWire(o))' <=> Wants(e)')
  BY ReceiveStep
<1>14. Wants(e) <=> (Heard(o) <=> ~Odd(n))
  BY <1>3 DEF Minds
<1>15. CASE Answers(e, p[1]) /\ e \notin refused'
  <2>1. OnWire(o)' = OnWire(o)
    BY <1>13, <1>15 DEF Answers
  <2>2. Wants(e)' <=> (Heard(o) <=> ~Odd(n))
    BY <1>14, <1>15 DEF Answers
  <2>3. Pending(e)' + Pending(o) = (m - p[1]) + n
    BY <1>1, <1>2, <1>4, <1>15 DEF Answers
  <2> QED
    BY <1>11, <2>1, <2>2, <2>3
<1>16. Wants(e) <=> (Heard(e) <=> ~Odd(Pending(e)))
  BY <1>3 DEF Minds
<1>17. CASE Grants(e, p[1])
  <2>1. OnWire(o)' = OnWire(o) + 1 /\ (Said(o, OnWire(o))' <=> Wants(e)')
    BY <1>13, <1>17 DEF Grants
  <2>2. Wants(e)' <=> (Heard(o) <=> ~Odd(n + 1))
    <3>1. Odd(p[1]) <=> ~Odd(Pending(e))
      <4>1. p[1] = Pending(e) + 1
        BY <1>2, <1>4, <1>17 DEF Grants
      <4> QED
        BY <1>2, <4>1, OddSteps
    <3>2. Wants(e)' <=> ~Wants(e)
      BY <1>2, <1>6, <1>16, <1>17, <3>1 DEF Grants
    <3> QED
      BY <1>2, <1>14, <3>2, OddSteps
  <2>3. Pending(e)' + Pending(o) = (m - p[1]) + (n + 1)
    BY <1>1, <1>2, <1>4, <1>17 DEF Grants
  <2>4. n = q[OnWire(o)] /\ 1 \in 1 .. 2
    BY <1>10, <1>17 DEF Grants
  <2> QED
    BY <1>12, <2>1, <2>2, <2>3, <2>4
<1>18. CASE Declines(e, p[1])
  <2>1. OnWire(o)' = OnWire(o) + 1 /\ (Said(o, OnWire(o))' <=> Wants(e)')
    BY <1>13, <1>18 DEF Declines
  <2>2. Wants(e)' <=> (Heard(o) <=> ~Odd(n + 2))
    BY <1>14, <1>18, OddSteps DEF Declines
  <2>3. Pending(e)' + Pending(o) = (m - p[1]) + (n + 2)
    BY <1>1, <1>2, <1>4, <1>18 DEF Declines
  <2>4. n = q[OnWire(o)] /\ 2 \in 1 .. 2 /\ e \in refused' /\ ~Wants(e)'
    BY <1>10, <1>18 DEF Declines
  <2> QED
    BY <1>12, <2>1, <2>2, <2>3, <2>4
<1>19. CASE Accedes(e, o, p[1])
  <2>1. OnWire(o)' = OnWire(o)
    BY <1>13, <1>19 DEF Accedes
  <2>2. Heard(o) /\ Pending(o) = 1
    BY <1>3, <1>19 DEF Minds, Accedes
  <2>3. n = 0 /\ m - p[1] = 0
    BY <1>1, <1>2, <1>4, <1>19, <2>2 DEF Accedes
  <2>4. OnWire(o) = 0
    <3>1. ASSUME OnWire(o) # 0 PROVE FALSE
      <4>1. 1 \in 1 .. OnWire(o) /\ OnWire(o) \in 0 .. OnWire(o)
        BY <1>2, <3>1
      <4>2. q[1] - q[0] \in 1 .. 2 /\ q[1] <= n /\ q[0] = 0 /\ q[1] \in Int
        BY <1>3, <4>1 DEF Numbered
      <4> QED
        BY <2>3, <4>2
    <3> QED
      BY <3>1
  <2>5. Wants(e)' <=> (Heard(o) <=> ~Odd(1))
    BY <1>19, <2>2, OddSteps DEF Accedes
  <2>6. Pending(e)' + Pending(o) = (m - p[1]) + 1
    BY <1>2, <1>19, <2>2, <2>3 DEF Accedes
  <2>7. o \in refused /\ 1 \in Nat
    BY <1>19 DEF Accedes
  <2> QED
    BY <1>11, <2>1, <2>4, <2>5, <2>6, <2>7
<1> QED
  BY <1>6, <1>15, <1>17, <1>18, <1>19

-----------------------------------------------------------------------------
(* The invariant.                                                          *)

\* What the two ends are left with when nothing is under way.
LEMMA AtRest ==
    ASSUME TypeOK, NEW e \in Ends, NEW o \in Ends, Joint(e, o), Quiet
    PROVE  /\ Wants(e) <=> Wants(o)
           /\ \/ Pending(e) = 0 /\ (Wants(e) <=> Heard(e))
              \/ e \in refused /\ Heard(e) /\ ~Wants(e) /\ Pending(e) = 1
           /\ Pending(o) = 0 \/ o \in refused
<1>1. PICK p, q \in [Nat -> Int], m, n \in Nat :
          /\ Side(e, o, p, m) /\ Side(o, e, q, n)
          /\ Pending(e) + Pending(o) = m + n
  BY DEF Joint
<1>2. /\ Pending(e) \in Nat /\ Pending(o) \in Nat
      /\ Heard(e) \in BOOLEAN /\ Wants(e) \in BOOLEAN
      /\ Heard(o) \in BOOLEAN /\ Wants(o) \in BOOLEAN
  BY Types
<1>3. OnWire(e) = 0 /\ OnWire(o) = 0
  BY DEF Quiet, OnWire
<1>4. /\ m = 0 \/ (m = 1 /\ e \in refused)
      /\ n = 0 \/ (n = 1 /\ o \in refused)
  BY <1>1, <1>3 DEF Side, Numbered
<1>5. /\ Wants(o) <=> (Heard(e) <=> ~Odd(m))
      /\ Wants(e) <=> (Heard(e) <=> ~Odd(Pending(e)))
      /\ e \in refused => Heard(e) /\ ~Wants(e) /\ Pending(e) = 1
      /\ Wants(e) <=> (Heard(o) <=> ~Odd(n))
      /\ Wants(o) <=> (Heard(o) <=> ~Odd(Pending(o)))
      /\ o \in refused => Heard(o) /\ ~Wants(o) /\ Pending(o) = 1
  BY <1>1 DEF Side, Minds
<1>6. CASE m = 1 /\ e \in refused
  BY <1>1, <1>2, <1>4, <1>5, <1>6, OddSteps
<1>7. CASE m = 0 /\ n = 1 /\ o \in refused
  <2>1. Pending(e) = 0
    BY <1>1, <1>2, <1>5, <1>7
  <2> QED
    BY <1>2, <1>5, <1>7, <2>1, OddSteps
<1>8. CASE m = 0 /\ n = 0
  <2>1. Pending(e) = 0 /\ Pending(o) = 0
    BY <1>1, <1>2, <1>8
  <2> QED
    BY <1>2, <1>5, <1>8, <2>1, OddSteps
<1> QED
  BY <1>4, <1>6, <1>7, <1>8

LEMMA JointInv ==
    ASSUME TypeOK, Joint("performer", "requester"), [Next]_vars, ~overtaken'
    PROVE  Joint("performer", "requester")'
<1>1. CASE UNCHANGED vars
  <2>1. half' = half /\ wire' = wire /\ refused' = refused
    BY <1>1 DEF vars
  <2>2. ASSUME NEW e \in Ends, NEW o \in Ends, NEW at \in [Nat -> Int], NEW n \in Nat,
               Side(e, o, at, n)
        PROVE  Side(e, o, at, n)'
    BY <2>1, <2>2 DEF Side, Numbered, Skipped, Minds, Said, Heard, Wants, Pending, OnWire
  <2>3. \A e \in Ends : Pending(e)' = Pending(e)
    BY <2>1 DEF Pending
  <2> QED
    BY <2>2, <2>3, TwoEnds DEF Joint
<1>2. ASSUME NEW e \in Ends, NEW b \in BOOLEAN, Ask(e, b) \/ Receive(e, b)
      PROVE  Joint("performer", "requester")'
  <2>1. PICK o \in Ends : o = Other(e)
    BY TwoEnds
  <2>2. \/ e = "performer" /\ o = "requester"
        \/ e = "requester" /\ o = "performer"
    BY <2>1, TwoEnds
  <2>3. Joint(e, o)
    BY <2>2, JointBoth, TwoEnds
  <2>4. TypeOK' /\ Joint(e, o)'
    <3>1. CASE Ask(e, b)
      <4>1. TypeOK' /\ e \notin refused
        BY <2>1, <3>1, AskStep
      <4> QED
        BY <2>1, <2>3, <3>1, <4>1, AskKeeps
    <3>2. CASE Receive(e, b)
      <4>1. TypeOK'
        BY <2>1, <3>2, ReceiveStep
      <4> QED
        BY <2>1, <2>3, <3>2, <4>1, ReceiveKeeps
    <3> QED
      BY <1>2, <3>1, <3>2
  <2>5. Joint(o, e)'
    <3>1. PICK p, q \in [Nat -> Int], m, n \in Nat :
              /\ Side(e, o, p, m)' /\ Side(o, e, q, n)'
              /\ Pending(e)' + Pending(o)' = m + n
      BY <2>4 DEF Joint
    <3>2. Pending(o)' + Pending(e)' = n + m
      BY <2>4, <3>1, PendingNat
    <3> QED
      BY <3>1, <3>2 DEF Joint
  <2> QED
    BY <2>2, <2>4, <2>5
<1> QED
  BY <1>1, <1>2 DEF Next

\* A request on a quiet connection is followed until it is granted or refused.
LEMMA LoneInv ==
    ASSUME TypeOK, Joint("performer", "requester"), [Next]_vars, ~overtaken',
           \A r \in lone : Followed(r[1], Other(r[1]), r[2])
    PROVE  \A r \in lone' : Followed(r[1], Other(r[1]), r[2])'
<1>1. CASE UNCHANGED vars
  BY <1>1 DEF vars, Followed, OnItsWay, IsGranted, Said, Wants, Pending, OnWire
<1>2. ASSUME NEW x \in Ends, NEW new \in BOOLEAN, Ask(x, new)
      PROVE  \A r \in lone' : Followed(r[1], Other(r[1]), r[2])'
  <2>1. PICK y \in Ends : y = Other(x) /\ x # y
    BY TwoEnds
  <2>2. lone' = IF Quiet THEN {<<x, new>>} ELSE {}
    BY <1>2, <2>1, AskStep
  <2>3. CASE ~Quiet
    BY <2>2, <2>3
  <2>4. CASE Quiet
    <3>1. Joint(x, y)
      BY <2>1, JointBoth, TwoEnds
    <3>2. x \notin refused /\ refused' = refused /\ ~(Wants(x) <=> new)
      BY <1>2, <2>1, AskStep
    <3>3. Pending(x) = 0 /\ (Wants(x) <=> Wants(y)) /\ (Pending(y) = 0 \/ y \in refused)
      BY <2>4, <3>1, <3>2, AtRest
    <3>4. OnWire(x) = 0 /\ OnWire(y) = 0
      BY <2>4 DEF Quiet, OnWire
    <3>5. /\ Wants(x)' <=> new
          /\ Pending(x)' = 1 /\ Pending(y)' = Pending(y) /\ (Wants(y)' <=> Wants(y))
          /\ OnWire(x)' = 0 /\ OnWire(y)' = 1 /\ (Said(y, OnWire(y))' <=> new)
      BY <1>2, <2>1, <3>3, <3>4, AskStep
    <3>6. Said(y, 1)' <=> new
      BY <3>5
    <3>7. Wants(x) \in BOOLEAN /\ Wants(y) \in BOOLEAN
      BY Types
    <3>8. Followed(x, y, new)'
      BY <3>2, <3>3, <3>5, <3>6, <3>7 DEF Followed, OnItsWay
    <3>9. Other(x)' = Other(x)
      BY DEF Other
    <3> QED
      BY <2>1, <2>2, <2>4, <3>8, <3>9
  <2> QED
    BY <2>3, <2>4
<1>3. ASSUME NEW x \in Ends, NEW agree \in BOOLEAN, Receive(x, agree)
      PROVE  \A r \in lone' : Followed(r[1], Other(r[1]), r[2])'
  <2> SUFFICES ASSUME NEW r \in lone'
               PROVE  Followed(r[1], Other(r[1]), r[2])'
    OBVIOUS
  <2>1. PICK y \in Ends : y = Other(x) /\ x # y /\ x = Other(y)
    BY TwoEnds
  <2> DEFINE no == IsNew(x) /\ Said(x, 1) /\ ~agree
  <2>2. lone' = IF no THEN {} ELSE lone
    BY <1>3, <2>1, ReceiveStep
  <2>3. r \in lone /\ ~no
    BY <2>2
  <2>4. r[1] \in Ends /\ r[2] \in BOOLEAN
    BY <2>3 DEF TypeOK
  <2>5. Followed(r[1], Other(r[1]), r[2])
    BY <2>3
  <2>6. /\ Pending(x) \in Nat /\ Pending(y) \in Nat /\ OnWire(x) \in Nat /\ OnWire(y) \in Nat
        /\ Wants(x) \in BOOLEAN /\ Wants(y) \in BOOLEAN /\ Said(x, 1) \in BOOLEAN
    BY <1>3, <2>1, Types, ReceiveStep
  <2>7. /\ OnWire(x) >= 1 /\ OnWire(x)' = OnWire(x) - 1
        /\ Pending(x)' = Remaining(x)
        /\ Wants(x)' <=> IF IsNew(x) THEN Said(x, 1) ELSE Wants(x)
        /\ (Wants(y)' <=> Wants(y)) /\ Pending(y)' = Pending(y)
        /\ OnWire(y)' = IF IsNew(x) /\ (Said(x, 1) \/ Heard(x)) THEN OnWire(y) + 1 ELSE OnWire(y)
        /\ IsNew(x) /\ (Said(x, 1) \/ Heard(x)) => (Said(y, OnWire(y))' <=> Wants(x)')
    BY <1>3, <2>1, <2>3, ReceiveStep
  <2>8. \A e \in Ends : Other(e)' = Other(e)
    BY DEF Other
  <2>9. CASE r[1] = x
    <3>1. Followed(x, y, r[2])
      BY <2>1, <2>5, <2>9
    <3>2. IsGranted(x, y, r[2]) /\ (Wants(x) <=> r[2]) /\ Pending(x) <= 1
      BY <2>7, <3>1 DEF Followed, OnItsWay
    <3>3. OnWire(x) = 1 /\ (Said(x, 1) <=> r[2]) /\ OnWire(y) = 0 /\ (Wants(y) <=> r[2])
      BY <2>6, <2>7, <3>2 DEF IsGranted
    <3>4. Remaining(x) = 0 /\ ~IsNew(x)
      BY <2>6, <3>2, <3>3 DEF Remaining, IsNew
    <3>5. Followed(x, y, r[2])'
      BY <2>7, <3>2, <3>3, <3>4 DEF Followed, IsGranted
    <3> QED
      BY <2>1, <2>8, <2>9, <3>5
  <2>10. CASE r[1] = y
    <3>1. Followed(y, x, r[2])
      BY <2>1, <2>5, <2>10
    <3>2. OnItsWay(y, x, r[2]) /\ (Wants(y) <=> r[2]) /\ Pending(y) <= 1
      BY <2>7, <3>1 DEF Followed, IsGranted
    <3>3. x \in refused => Pending(x) = 1
      <4>1. Joint(x, y)
        BY <2>1, JointBoth, TwoEnds
      <4> QED
        BY <4>1 DEF Joint, Side, Minds
    <3>4. Remaining(x) = 0 /\ IsNew(x) /\ (Said(x, 1) <=> r[2])
      BY <2>6, <3>2, <3>3 DEF OnItsWay, Remaining, IsNew
    <3>5. OnWire(x)' = 0 /\ (Wants(x)' <=> r[2])
      BY <2>7, <3>2, <3>4 DEF OnItsWay
    <3>6. /\ OnWire(y)' <= 1
          /\ OnWire(y)' = 1 => (Said(y, OnWire(y))' <=> r[2])
          /\ OnWire(y)' \in Nat
      BY <2>7, <3>2, <3>4, <3>5 DEF OnItsWay
    <3>7. ASSUME NEW i \in 1 .. OnWire(y)'
          PROVE  Said(y, i)' <=> r[2]
      <4>1. i = 1 /\ OnWire(y)' = 1
        BY <3>6
      <4> QED
        BY <3>6, <4>1
    <3>8. IsGranted(y, x, r[2])'
      BY <3>5, <3>6, <3>7 DEF IsGranted
    <3>9. Followed(y, x, r[2])'
      BY <2>7, <3>2, <3>8 DEF Followed
    <3> QED
      BY <2>1, <2>8, <2>10, <3>9
  <2> QED
    BY <2>1, <2>4, <2>9, <2>10, TwoEnds
<1> QED
  BY <1>1, <1>2, <1>3 DEF Next

LEMMA TypeInv ==
    ASSUME TypeOK, [Next]_vars
    PROVE  TypeOK' /\ (overtaken => overtaken')
<1>1. CASE UNCHANGED vars
  BY <1>1 DEF vars, TypeOK
<1>2. ASSUME NEW e \in Ends, NEW new \in BOOLEAN, Ask(e, new)
      PROVE  TypeOK' /\ (overtaken => overtaken')
  BY <1>2, AskStep, TwoEnds
<1>3. ASSUME NEW e \in Ends, NEW agree \in BOOLEAN, Receive(e, agree)
      PROVE  TypeOK' /\ (overtaken => overtaken')
  BY <1>3, ReceiveStep, TwoEnds
<1> QED
  BY <1>1, <1>2, <1>3 DEF Next

\* A command that is received lowers a counter, or sets it to one.
LEMMA CountsInv ==
    ASSUME TypeOK, CountsRequests, [Next]_vars
    PROVE  CountsRequests'
<1> USE DEF Pending
<1>1. \A x \in Ends : half[x].resp \in Nat /\ asks[x] \in 0 .. MaxAsks
  BY Types DEF TypeOK
<1>2. CASE UNCHANGED vars
  BY <1>2 DEF vars, CountsRequests
<1>3. ASSUME NEW e \in Ends, NEW new \in BOOLEAN, Ask(e, new)
      PROVE  CountsRequests'
  <2>1. /\ half'[e].resp = half[e].resp + 1 /\ half'[Other(e)].resp = half[Other(e)].resp
        /\ asks' = [asks EXCEPT ![e] = @ + 1]
    BY <1>3, AskStep, TwoEnds
  <2>2. \A x \in Ends : x = e \/ x = Other(e)
    BY TwoEnds
  <2>3. asks'[e] = asks[e] + 1 /\ asks'[Other(e)] = asks[Other(e)]
    BY <2>1, TwoEnds DEF TypeOK
  <2>4. half'[e].resp <= asks'[e] + 1
    BY <1>1, <2>1, <2>3 DEF CountsRequests
  <2>5. half'[Other(e)].resp <= asks'[Other(e)] + 1
    BY <1>1, <2>1, <2>3, TwoEnds DEF CountsRequests
  <2> QED
    BY <2>2, <2>4, <2>5 DEF CountsRequests
<1>4. ASSUME NEW e \in Ends, NEW agree \in BOOLEAN, Receive(e, agree)
      PROVE  CountsRequests'
  <2>1. /\ half'[e].resp \in {1, Remaining(e)}
        /\ half'[Other(e)].resp = half[Other(e)].resp /\ asks' = asks
    BY <1>4, ReceiveStep, TwoEnds
  <2>2. \A x \in Ends : x = e \/ x = Other(e)
    BY TwoEnds
  <2>3. Remaining(e) \in Nat /\ Remaining(e) <= half[e].resp
    BY <1>1 DEF Remaining
  <2>4. half[e].resp <= asks[e] + 1 /\ half[Other(e)].resp <= asks[Other(e)] + 1
    BY TwoEnds DEF CountsRequests
  <2>5. half'[e].resp <= asks[e] + 1
    BY <1>1, <2>1, <2>3, <2>4
  <2> QED
    BY <2>1, <2>2, <2>4, <2>5 DEF CountsRequests
<1> QED
  BY <1>2, <1>3, <1>4 DEF Next

LEMMA StepIInv == IInv /\ [Next]_vars => IInv'
<1> SUFFICES ASSUME IInv, [Next]_vars PROVE IInv'
  OBVIOUS
<1>1. TypeOK' /\ (overtaken => overtaken')
  BY TypeInv DEF IInv
<1>2. CountsRequests'
  BY CountsInv DEF IInv
<1>3. ~overtaken' => Joint("performer", "requester")'
  BY <1>1, JointInv DEF IInv
<1>4. ~overtaken' => \A r \in lone' : Followed(r[1], Other(r[1]), r[2])'
  BY <1>1, LoneInv DEF IInv
<1>5. (~overtaken => \A r \in lone : Followed(r[1], Other(r[1]), r[2]))'
  BY <1>4
<1> QED
  BY <1>1, <1>2, <1>3, <1>5 DEF IInv

LEMMA Inductive == Spec => []IInv
  BY InitIInv, StepIInv, PTL DEF Spec

-----------------------------------------------------------------------------
(* Theorems.                                                               *)

\* What the ends keep, and the commands between them, have their types: the
\* counters of willoption, wontoption, dooption and dontoption never go
\* below zero.
THEOREM TypeCorrect == Spec => []TypeOK
<1>1. IInv => TypeOK
  BY DEF IInv
<1> QED
  BY <1>1, Inductive, PTL

\* will_wont_resp and do_dont_resp are at most what the end has asked for
\* with send_do and its sisters, and one refusal.
THEOREM Counted == Spec => []CountsRequests
<1>1. IInv => CountsRequests
  BY DEF IInv
<1> QED
  BY <1>1, Inductive, PTL

LEMMA Rested ==
    ASSUME IInv, Quiet, ~overtaken, NEW e \in Ends
    PROVE  /\ half[e].want <=> half[Other(e)].want
           /\ \/ half[e].resp = 0 /\ ~Changing(half[e])
              \/ e \in refused /\ half[e] = [state |-> TRUE, want |-> FALSE, resp |-> 1]
<1>1. PICK o \in Ends : o = Other(e)
  BY TwoEnds
<1>2. TypeOK /\ Joint(e, o)
  BY <1>1, JointBoth, TwoEnds DEF IInv
<1>3. half[e] \in Half
  BY <1>2 DEF TypeOK
<1>4. /\ Wants(e) <=> Wants(o)
      /\ \/ Pending(e) = 0 /\ (Wants(e) <=> Heard(e))
         \/ e \in refused /\ Heard(e) /\ ~Wants(e) /\ Pending(e) = 1
  BY <1>2, AtRest
<1>5. CASE Pending(e) = 0 /\ (Wants(e) <=> Heard(e))
  BY <1>1, <1>3, <1>4, <1>5 DEF Changing, Pending, Wants, Heard, Half
<1>6. CASE e \in refused /\ Heard(e) /\ ~Wants(e) /\ Pending(e) = 1
  <2>1. half[e].state = TRUE /\ half[e].want = FALSE /\ half[e].resp = 1
    BY <1>3, <1>6 DEF Heard, Wants, Pending, Half
  <2>2. half[e] = [state |-> TRUE, want |-> FALSE, resp |-> 1]
    BY <1>3, <2>1 DEF Half
  <2> QED
    BY <1>1, <1>4, <1>6, <2>2 DEF Wants
<1> QED
  BY <1>4, <1>5, <1>6

\* Whatever requests crossed on the way, two ends that have read everything
\* want the same, as long as neither has asked while its own refusal was not
\* confirmed (willoption, wontoption, dooption, dontoption).
THEOREM OneMind == Spec => []OfOneMind
<1>1. IInv => OfOneMind
  <2> SUFFICES ASSUME IInv, Quiet, ~overtaken
               PROVE  half["performer"].want = half["requester"].want
    BY DEF OfOneMind
  <2>1. \A e \in Ends : half[e].want \in BOOLEAN
    BY DEF IInv, TypeOK, Half
  <2> QED
    BY <2>1, Rested, TwoEnds
<1> QED
  BY <1>1, Inductive, PTL

\* Two ends that have read everything wait for no answer, except an end that
\* has refused, which counts its refusal as a request and takes the option to
\* be on for the other end (state.c, telnet.c: do_dont_resp, will_wont_resp).
THEOREM NobodyWaits == Spec => []NoneForgotten
<1>1. IInv => NoneForgotten
  BY Rested DEF NoneForgotten
<1> QED
  BY <1>1, Inductive, PTL

\* A request that is made when nothing is under way, and that no other request
\* follows, is granted or refused: what earlier exchanges have left in the
\* counters never takes it for an answer (telnet.c:290, state.c:566).
THEOREM NotSwallowed == Spec => []Granted
<1>1. IInv => Granted
  <2> SUFFICES ASSUME IInv, Quiet, ~overtaken, NEW r \in lone, NEW x \in Ends
               PROVE  half[x].want = r[2]
    BY DEF Granted
  <2>1. PICK e \in Ends, o \in Ends : e = r[1] /\ o = Other(e) /\ r[2] \in BOOLEAN /\ x \in {e, o}
    BY TwoEnds DEF IInv, TypeOK
  <2>2. Followed(e, o, r[2])
    BY <2>1 DEF IInv
  <2>3. OnWire(o) = 0
    BY DEF Quiet, OnWire
  <2>4. (Wants(e) <=> r[2]) /\ (Wants(o) <=> r[2])
    BY <2>2, <2>3 DEF Followed, OnItsWay, IsGranted
  <2>5. half[e].want \in BOOLEAN /\ half[o].want \in BOOLEAN
    BY DEF IInv, TypeOK, Half
  <2> QED
    BY <2>1, <2>4, <2>5 DEF Wants
<1> QED
  BY <1>1, Inductive, PTL
=============================================================================
