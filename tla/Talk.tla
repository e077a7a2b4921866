-------------------------------- MODULE Talk --------------------------------
(***************************************************************************)
(* talk and talkd (inetutils): two users who call each other, any number   *)
(* of talk processes of theirs, and the daemon of each machine with its    *)
(* table of invitations.  Client and daemon exchange datagrams, which the  *)
(* network may lose, delay and reorder, and which the client repeats until *)
(* it reads a response of the type it waits for.                           *)
(*                                                                         *)
(* An invitation carries the names, the process number and the address of  *)
(* the talk process that left it; here it carries the process.  Process    *)
(* numbers and addresses are not reused.  Access lists are left out.       *)
(***************************************************************************)
EXTENDS Integers, SequencesExt

CONSTANTS
    Procs,       \* talk processes
    Owner,       \* [Procs -> the two users]
    Home,        \* [users -> the machine of the user]
    None,        \* no process
    MaxId,       \* MAX_ID
    MaskKept,    \* does longjmp() leave SIGALRM blocked, as it does on Linux?
    MaxFaults    \* bound: how much goes wrong (see Fault)

Users == {Owner[p] : p \in Procs}
Hosts == {Home[u] : u \in Users}

ASSUME TalkAssumption ==
    /\ Owner \in [Procs -> Users] /\ Home \in [Users -> Hosts]
    /\ None \notin Procs
    /\ \A u \in Users : \E v \in Users : Users = {u, v} /\ u # v
    /\ MaxId \in Nat /\ MaxId > 1 /\ MaskKept \in BOOLEAN
    /\ MaxFaults \in Nat

VARIABLES
    table,       \* [Hosts -> the invitations, the newest first]
    lastId,      \* [Hosts -> current_id of new_id]
    exited,      \* the machines whose daemon has exited, and forgotten its table
    requests,    \* datagrams on their way to a daemon
    responses,   \* datagrams on their way to a talk process
    pc,          \* [Procs -> what the process is doing]
    msgId,       \* [Procs -> msg.id_num]
    localId,     \* [Procs -> local_id]
    remoteId,    \* [Procs -> remote_id]
    deaf,        \* the processes that block in recv(), and send no more
    blocked,     \* the processes with SIGALRM blocked
    partner,     \* [Procs -> the other end of its connection]
    link,        \* [Procs -> what became of the connection it has made]
    faults       \* how much has gone wrong, up to MaxFaults

daemonVars == <<table, lastId, exited>>
netVars    == <<requests, responses, faults>>
idVars     == <<msgId, localId, remoteId>>
alarmVars  == <<deaf, blocked>>
connVars   == <<partner, link>>
vars == <<daemonVars, netVars, pc, idVars, alarmVars, connVars>>

\* Mutant: a field with a sign.
Signed == -1

\* htonl (-1): the field is unsigned, so this is above every number in use.
Impossible == MaxId

Party(p) == CHOOSE u \in Users : u # Owner[p]
Mine(p) == Home[Owner[p]]     \* my_machine_addr
His(p) == Home[Party(p)]      \* his_machine_addr

\* What each state of a process waits for: the type of the response, and the
\* machine the request goes to.
Transaction == [p \in Procs |->
    [lookup    |-> <<"LOOK_UP", His(p)>>,
     clear     |-> <<"DELETE", His(p)>>,
     announce  |-> <<"ANNOUNCE", His(p)>>,
     leave     |-> <<"LEAVE_INVITE", Mine(p)>>,
     dellocal  |-> <<"DELETE", Mine(p)>>,
     delremote |-> <<"DELETE", His(p)>>]]

Transacting(p) == pc[p] \in DOMAIN Transaction[p]

\* The processes that listen on their socket: it is closed after accept().
Inviting == {"announce", "leave", "accept", "accepted"}
Alive(p) == pc[p] \notin {"off", "dead"}

Request(p, type, host, id) == [proc |-> p, type |-> type, host |-> host, id |-> id]

\* ctl_transact: the request of state s, with msg.id_num = id.
Ask(p, s, id) ==
    Request(p, Transaction[p][s][1], Transaction[p][s][2], id)

TypeOK ==
    LET Ids == 0 .. MaxId
        Types == {"LOOK_UP", "LEAVE_INVITE", "ANNOUNCE", "DELETE"} IN
    /\ faults \in 0 .. MaxFaults
    /\ table \in [Hosts -> Seq([type : {"LEAVE_INVITE", "ANNOUNCE"},
                                proc : Procs, id : 1 .. MaxId - 1])]
    /\ lastId \in [Hosts -> 0 .. MaxId - 1] /\ exited \subseteq Hosts
    /\ requests \subseteq [proc : Procs, type : Types, host : Hosts, id : Ids]
    /\ responses \subseteq
           [proc : Procs, type : Types, ok : BOOLEAN, id : Ids, addr : Procs \cup {None}]
    /\ pc \in [Procs -> {"off", "lookup", "connect", "clear", "announce", "leave",
                         "accept", "accepted", "dellocal", "delremote",
                         "talking", "dead"}]
    /\ {msgId, localId, remoteId} \subseteq [Procs -> Ids]
    /\ deaf \subseteq Procs /\ blocked \subseteq Procs
    /\ partner \in [Procs -> Procs \cup {None}]
    /\ link \in [Procs -> {"none", "queued", "open", "forgotten", "closed"}]

Init ==
    /\ table = [h \in Hosts |-> << >>]
    /\ lastId = [h \in Hosts |-> 0] /\ exited = {}
    /\ requests = {} /\ responses = {} /\ faults = 0
    /\ pc = [p \in Procs |-> "off"]
    /\ msgId = [p \in Procs |-> 0]
    /\ localId = [p \in Procs |-> 0] /\ remoteId = [p \in Procs |-> 0]
    /\ deaf = {} /\ blocked = {}
    /\ partner = [p \in Procs |-> None] /\ link = [p \in Procs |-> "none"]

\* A request repeated while it or its answer is under way, a datagram lost, a
\* process killed or caught by the alarm, a party that cannot be called, a
\* daemon that exits.
Fault == faults < MaxFaults /\ faults' = faults + 1

-----------------------------------------------------------------------------
(* The daemon.                                                             *)

\* new_id
NewId(h) == LET id == (lastId[h] + 1) % MaxId IN IF id = 0 THEN 1 ELSE id

\* Mutant: the process number is not compared.
AnyProcess(r) ==
    SelectInSeq(table[r.host],
        LAMBDA e : e.type = r.type /\ Owner[e.proc] = Owner[r.proc])

\* find_request: the place of the invitation the request repeats.
\* exact_comp also sets its time, which nothing depends on: the test for an
\* old entry subtracts the wrong way round, and no entry ever expires.
SameRequest(r) ==
    SelectInSeq(table[r.host], LAMBDA e : e.type = r.type /\ e.proc = r.proc)

\* find_match: the newest invitation the party has left for the sender.
MatchFor(r) ==
    SelectInSeq(table[r.host],
        LAMBDA e : e.type = "LEAVE_INVITE" /\ Owner[e.proc] # Owner[r.proc])

\* Mutant: the newest invitation is deleted, whatever its number.
NewestInvite(h, id) == IF table[h] = << >> THEN 0 ELSE 1

\* delete_invite
WithId(h, id) == SelectInSeq(table[h], LAMBDA e : e.id = id)

Respond(r, ok, id, addr) ==
    responses' = responses \cup
        {[proc |-> r.proc, type |-> r.type, ok |-> ok, id |-> id, addr |-> addr]}

\* insert_table
Insert(r) ==
    /\ table' = [table EXCEPT ![r.host] =
           <<[type |-> r.type, proc |-> r.proc, id |-> NewId(r.host)]>> \o @]
    /\ lastId' = [lastId EXCEPT ![r.host] = NewId(r.host)]

LookUp(r) ==
    /\ r.type = "LOOK_UP" /\ UNCHANGED faults
    /\ LET i == MatchFor(r) IN
       IF i = 0 THEN Respond(r, FALSE, 0, None)
       ELSE Respond(r, TRUE, table[r.host][i].id, table[r.host][i].proc)
    /\ UNCHANGED <<table, lastId>>

LeaveInvite(r) ==
    /\ r.type = "LEAVE_INVITE" /\ UNCHANGED faults
    /\ LET i == SameRequest(r) IN
       IF i = 0 THEN Insert(r) /\ Respond(r, TRUE, NewId(r.host), None)
       ELSE /\ Respond(r, TRUE, table[r.host][i].id, None)
            /\ UNCHANGED <<table, lastId>>

\* do_announce: find_user may not find the party, and announce() may fail.
NotLoggedIn(r) ==
    /\ r.type = "ANNOUNCE" /\ Fault
    /\ Respond(r, FALSE, 0, None)
    /\ UNCHANGED <<table, lastId>>

Announce(r, heard) ==
    /\ r.type = "ANNOUNCE" /\ (IF heard THEN UNCHANGED faults ELSE Fault)
    /\ LET i == SameRequest(r)
           new == NewId(r.host) IN
       \/ /\ i = 0
          /\ Insert(r) /\ Respond(r, heard, new, None)
       \/ /\ i # 0 /\ r.id > table[r.host][i].id
          /\ table' = [table EXCEPT ![r.host][i].id = new]
          /\ lastId' = [lastId EXCEPT ![r.host] = new]
          /\ Respond(r, heard, new, None)
       \/ /\ i # 0 /\ r.id <= table[r.host][i].id
          /\ Respond(r, TRUE, table[r.host][i].id, None)
          /\ UNCHANGED <<table, lastId>>

Delete(r) ==
    /\ r.type = "DELETE" /\ UNCHANGED faults
    /\ LET i == WithId(r.host, r.id) IN
       /\ Respond(r, i # 0, 0, None)
       /\ table' = [table EXCEPT ![r.host] = IF i = 0 THEN @ ELSE RemoveAt(@, i)]
    /\ UNCHANGED lastId

\* talkd_run: recvfrom, process_request, sendto.
Handle(r) ==
    /\ \/ LookUp(r) \/ LeaveInvite(r) \/ NotLoggedIn(r) \/ Delete(r)
       \/ \E heard \in BOOLEAN : Announce(r, heard)
    /\ requests' = requests \ {r}
    /\ UNCHANGED <<exited, pc, idVars, alarmVars, connVars>>

\* A process that keeps the daemon of machine h busy: one that repeats a
\* request, or that rings again every RING_WAIT seconds.
Busies(p, h) ==
    \/ Transacting(p) /\ p \notin deaf /\ h = Transaction[p][pc[p]][2]
    \/ pc[p] = "accept" /\ p \notin blocked /\ h \in {Mine(p), His(p)}

\* alarm_handler: no request for max_idle_time seconds, which is four times
\* RING_WAIT.  inetd starts the daemon anew with the next request.
IdleExit(h) ==
    /\ Fault /\ table[h] # << >>
    /\ \A r \in requests : r.host # h
    /\ \A p \in Procs : ~Busies(p, h)
    /\ table' = [table EXCEPT ![h] = << >>]
    /\ lastId' = [lastId EXCEPT ![h] = 0]
    /\ exited' = exited \cup {h}
    /\ UNCHANGED <<requests, responses, pc, idVars, alarmVars, connVars>>

-----------------------------------------------------------------------------
(* The talk process.                                                       *)

\* Begin the transaction of state s with msg.id_num = id.  The response set
\* is what is left of rest.
Begin(p, s, id, rest) ==
    /\ pc' = [pc EXCEPT ![p] = s]
    /\ msgId' = [msgId EXCEPT ![p] = id]
    /\ requests' = requests \cup {Ask(p, s, id)}
    /\ responses' = rest
    /\ UNCHANGED faults

\* main: open_ctl, open_sockt, start_msgs, check_local.  A user may run talk
\* while another talk of his is running.
Start(p) ==
    /\ pc[p] = "off"
    /\ Begin(p, "lookup", 0, responses)
    /\ UNCHANGED <<daemonVars, localId, remoteId, alarmVars, connVars>>

UnderWay(p) ==
    \/ Ask(p, pc[p], msgId[p]) \in requests
    \/ \E m \in responses : m.proc = p /\ m.type = Transaction[p][pc[p]][1]

\* A request is sent once more, needlessly or not.
Repeat(p) ==
    /\ IF UnderWay(p) THEN Fault ELSE UNCHANGED faults
    /\ requests' = requests \cup {Ask(p, pc[p], msgId[p])}

\* ctl_transact: CTL_WAIT seconds without a response.
Resend(p) ==
    /\ Transacting(p) /\ p \notin deaf
    /\ Repeat(p)
    /\ UNCHANGED <<daemonVars, responses, pc, idVars, alarmVars, connVars>>

\* disp_msg interrupts select(): nready is -1, "continue" leaves the loop as
\* if a response had come, and recv() blocks.
Interrupt(p) ==
    /\ Transacting(p) /\ p \notin deaf /\ p \notin blocked
    /\ deaf' = deaf \cup {p} /\ Fault
    /\ UNCHANGED <<daemonVars, requests, responses, pc, idVars, blocked, connVars>>

\* A response of another type: more may be queued, or the request is repeated.
Ignore(p, m) ==
    /\ m.type # Transaction[p][pc[p]][1]
    /\ \/ \E o \in responses : o # m /\ o.proc = p /\ UNCHANGED <<requests, faults>>
       \/ Repeat(p)
    /\ responses' = responses \ {m}
    /\ UNCHANGED <<pc, idVars, connVars, blocked>>

\* check_local: with an invitation connect() comes next, without one
\* invite_remote, which listens and announces.
LookedUp(p, m) ==
    /\ pc[p] = "lookup" /\ m.type = "LOOK_UP"
    /\ \/ /\ m.ok /\ pc' = [pc EXCEPT ![p] = "connect"]
          /\ msgId' = [msgId EXCEPT ![p] = m.id]
          /\ partner' = [partner EXCEPT ![p] = m.addr]
          /\ responses' = responses \ {m} /\ UNCHANGED <<requests, faults>>
       \/ /\ ~m.ok /\ Begin(p, "announce", Impossible, responses \ {m})
          /\ UNCHANGED partner
    /\ UNCHANGED <<localId, remoteId, blocked, link>>

\* The stale invitation is deleted: open_sockt, invite_remote.
Cleared(p, m) ==
    /\ pc[p] = "clear" /\ m.type = "DELETE"
    /\ Begin(p, "announce", Impossible, responses \ {m})
    /\ partner' = [partner EXCEPT ![p] = None]
    /\ UNCHANGED <<localId, remoteId, blocked, link>>

\* announce_invite
Announced(p, m) ==
    /\ pc[p] = "announce" /\ m.type = "ANNOUNCE" /\ m.ok
    /\ remoteId' = [remoteId EXCEPT ![p] = m.id]
    /\ Begin(p, "leave", msgId[p], responses \ {m})
    /\ UNCHANGED <<localId, blocked, connVars>>

\* Nothing is left of a process that has died.
Die(p) ==
    /\ pc' = [pc EXCEPT ![p] = "dead"]
    /\ msgId' = [msgId EXCEPT ![p] = 0]
    /\ localId' = [localId EXCEPT ![p] = 0]
    /\ remoteId' = [remoteId EXCEPT ![p] = 0]
    /\ blocked' = blocked \ {p}
    /\ responses' = {m \in responses : m.proc # p}
    /\ link' = [q \in Procs |-> IF partner[q] = p /\ link[q] # "none"
                                THEN "closed" ELSE link[q]]
    /\ UNCHANGED partner

\* The party cannot be called: quit, send_delete.  Both requests go out once,
\* and nobody waits for the answers.
Refused(p, m) ==
    /\ pc[p] = "announce" /\ m.type = "ANNOUNCE" /\ ~m.ok
    /\ Die(p)
    /\ requests' = requests \cup {Request(p, "DELETE", His(p), m.id),
                                  Request(p, "DELETE", Mine(p), localId[p])}
    /\ UNCHANGED faults

\* The end of announce_invite: back to accept(), by longjmp from re_invite,
\* which does not give back the signal mask where MaskKept.
Left(p, m) ==
    /\ pc[p] = "leave" /\ m.type = "LEAVE_INVITE"
    /\ localId' = [localId EXCEPT ![p] = m.id]
    /\ pc' = [pc EXCEPT ![p] = "accept"]
    /\ blocked' = IF MaskKept THEN blocked ELSE blocked \ {p}
    /\ responses' = responses \ {m}
    /\ UNCHANGED <<requests, faults, msgId, remoteId, connVars>>

\* invite_remote: DELETE here, then there, then talk.
Deleted(p, m) ==
    /\ m.type = "DELETE"
    /\ \/ pc[p] = "dellocal" /\ Begin(p, "delremote", remoteId[p], responses \ {m})
       \/ /\ pc[p] = "delremote" /\ pc' = [pc EXCEPT ![p] = "talking"]
          /\ responses' = responses \ {m} /\ UNCHANGED <<requests, faults, msgId>>
    /\ UNCHANGED <<localId, remoteId, blocked, connVars>>

\* recv() in ctl_transact.
Read(p, m) ==
    /\ Transacting(p) /\ m.proc = p
    /\ \/ Ignore(p, m) \/ LookedUp(p, m) \/ Cleared(p, m) \/ Announced(p, m)
       \/ Refused(p, m) \/ Left(p, m) \/ Deleted(p, m)
    /\ deaf' = deaf \ {p}
    /\ UNCHANGED daemonVars

\* check_local: connect() to the process that left the invitation, which has
\* to listen; or ECONNREFUSED.
Connect(p) ==
    /\ pc[p] = "connect"
    /\ \/ /\ pc[partner[p]] \in Inviting
          /\ pc' = [pc EXCEPT ![p] = "talking"]
          /\ link' = [link EXCEPT ![p] = "queued"]
          /\ UNCHANGED <<netVars, msgId>>
       \/ /\ pc[partner[p]] \notin Inviting
          /\ Begin(p, "clear", msgId[p], responses)
          /\ UNCHANGED link
    /\ UNCHANGED <<daemonVars, localId, remoteId, alarmVars, partner>>

\* accept() returns a connection.
Accept(p, q) ==
    /\ pc[p] = "accept" /\ partner[q] = p /\ link[q] = "queued"
    /\ pc' = [pc EXCEPT ![p] = "accepted"]
    /\ partner' = [partner EXCEPT ![p] = q]
    /\ link' = [link EXCEPT ![q] = "open"]
    /\ UNCHANGED <<daemonVars, netVars, idVars, alarmVars>>

\* re_invite, on SIGALRM: announce_invite once more and back to accept().  The
\* timer runs on after accept() has returned: before "sockt = new_sockt" the
\* connection just accepted is forgotten.  (Between that assignment and the
\* end of the timer accept() would fail and talk exit: left out.)
Ring(p) ==
    /\ pc[p] \in {"accept", "accepted"} /\ p \notin blocked
    /\ blocked' = blocked \cup {p}
    /\ Begin(p, "announce", remoteId[p] + 1, responses)
    /\ link' = [q \in Procs |-> IF pc[p] = "accepted" /\ partner[p] = q
                                THEN "forgotten" ELSE link[q]]
    /\ partner' = [partner EXCEPT ![p] = None]
    /\ UNCHANGED <<daemonVars, localId, remoteId, deaf>>

\* Mutants: the listening socket stays open; the wrong number is deleted.
ProceedQueued(p) ==
    /\ pc[p] = "accepted"
    /\ Begin(p, "dellocal", localId[p], responses)
    /\ UNCHANGED <<daemonVars, localId, remoteId, alarmVars, connVars>>

ProceedRemote(p) ==
    /\ pc[p] = "accepted"
    /\ Begin(p, "dellocal", remoteId[p], responses)
    /\ link' = [q \in Procs |-> IF link[q] = "queued" /\ partner[q] = p
                                THEN "closed" ELSE link[q]]
    /\ UNCHANGED <<daemonVars, localId, remoteId, alarmVars, partner>>

\* The listening socket is closed, with what is queued; start_msgs takes the
\* timer, and the invitations are deleted.
Proceed(p) ==
    /\ pc[p] = "accepted"
    /\ Begin(p, "dellocal", localId[p], responses)
    /\ link' = [q \in Procs |-> IF link[q] = "queued" /\ partner[q] = p
                                THEN "closed" ELSE link[q]]
    /\ UNCHANGED <<daemonVars, localId, remoteId, alarmVars, partner>>

\* The process dies, and its sockets with it: the user's interrupt kills talk
\* until init_display has caught it.
Kill(p) ==
    /\ Alive(p) /\ Die(p) /\ Fault
    /\ deaf' = deaf \ {p}
    /\ UNCHANGED <<daemonVars, requests>>

\* talk, set_edit_chars: the connection ends, and so does the process.
HangUp(p) ==
    /\ pc[p] = "talking"
    /\ \/ link[p] = "closed"
       \/ link[p] = "none" /\ pc[partner[p]] = "dead"
    /\ Die(p)
    /\ UNCHANGED <<daemonVars, requests, faults, deaf>>

Lose ==
    /\ \/ \E r \in requests : requests' = requests \ {r} /\ UNCHANGED responses
       \/ \E m \in responses : responses' = responses \ {m} /\ UNCHANGED requests
    /\ Fault
    /\ UNCHANGED <<daemonVars, pc, idVars, alarmVars, connVars>>

Next ==
    \/ \E r \in requests : Handle(r)
    \/ \E h \in Hosts : IdleExit(h)
    \/ \E p \in Procs :
        \/ Start(p) \/ Resend(p) \/ Interrupt(p) \/ Connect(p)
        \/ Ring(p) \/ Proceed(p) \/ Kill(p) \/ HangUp(p)
        \/ \E m \in responses : Read(p, m)
        \/ \E q \in Procs : Accept(p, q)
    \/ Lose

Spec == Init /\ [][Next]_vars

-----------------------------------------------------------------------------
(* Properties.                                                             *)

Entries(h) == {table[h][i] : i \in DOMAIN table[h]}

\* The invitation of p is where its party looks for it, once, under the number
\* p will delete it by and nothing else has.
Invited(p) ==
    LET entries == table[Mine(p)] IN
    \E i \in DOMAIN entries :
        /\ entries[i] = [type |-> "LEAVE_INVITE", proc |-> p, id |-> localId[p]]
        /\ \A j \in DOMAIN entries \ {i} :
               /\ entries[j].id # localId[p]
               /\ <<entries[j].type, entries[j].proc>> # <<"LEAVE_INVITE", p>>

\* Whoever waits for the party to respond can be found by it, unless the
\* daemon has exited: no late or repeated datagram, and nobody else's DELETE,
\* takes an invitation away, and a repeated request makes no second one.
CanBeFound == \A p \in Procs : pc[p] = "accept" => Invited(p) \/ Mine(p) \in exited

\* Two processes that talk, talk to each other; and none is left in the queue
\* of a socket that nobody accepts from any more.
Mutual ==
    \A p, q \in Procs : partner[p] = q =>
        /\ link[p] = "open" /\ pc[q] # "dead" => partner[q] = p
        /\ link[p] = "queued" => pc[q] \in Inviting

\* Where nothing goes wrong, a caller that talks has left no invitation behind,
\* however often it has rung: it deletes both by their present numbers.
Tidy ==
    faults = 0 => \A p \in Procs : pc[p] = "talking" /\ link[p] = "none" =>
        \A h \in Hosts : \A e \in Entries(h) : e.proc # p

\* Nobody deletes the invitation of a process that listens: neither a callee
\* that clears away an old one, nor a late DELETE of a process that is gone.
TakesNoOther ==
    [][\A h \in Hosts : \A e \in Entries(h) :
           e.type = "LEAVE_INVITE" /\ pc[e.proc] \in Inviting =>
               e \in Entries(h)' \/ h \in exited']_vars
=============================================================================
