---------------------------- MODULE InetdProofs ----------------------------
(***************************************************************************)
(* Proofs about Inetd, for every set of services, configurations, process  *)
(* numbers and limits: the state is well typed, se_wait names the server   *)
(* that holds the socket, and a socket has one holder at a time.           *)
(***************************************************************************)
EXTENDS Inetd, FiniteSetTheorems, TLAPS

(* The inductive invariant.  That nobody holds a socket inetd may hand over *)
(* has to be followed along the way of a socket through main's variables:   *)
(* from allsock to readable, and from there to cur.                         *)

\* Nobody holds a socket that inetd watches, unless its descriptor is shut.
Watched == \A s \in allsock \ shut : Holders(s) = {}

\* Nobody holds a socket that is not there.
Unbound == \A s \in Services \ bound : Holders(s) = {}

\* Nobody holds a socket that main has copied and may still choose.
Chosen ==
    pc \in {"copied", "selecting", "scanning"}
       => \A s \in readable \cap (bound \ shut) : Holders(s) = {}

\* The scan goes over descriptors that are open: select() succeeded.
Scanned == pc = "scanning" => readable \cap shut = {}

\* The descriptor main is about to hand over is open and nobody holds it, and
\* a connection has only been accepted for a nowait stream.
Handing ==
    ctrl # "none" /\ cur \in Services =>
        /\ pc \in {"scanning", "crashed"}
        /\ cur \in bound \ shut /\ cur \notin readable
        /\ Holders(cur) = {}
        /\ ctrl = "connection" => wait[cur] = 0 /\ cur \in Streams

\* The server inetd waits for is the only one on its socket.
Reserved == \A s \in table : wait[s] > 1 => s \in bound /\ Holders(s) \subseteq {wait[s]}

\* A datagram service is never nowait, nor will a file make it so.
Datagrams ==
    /\ \A s \in table \ Streams : wait[s] # 0
    /\ \A i \in DOMAIN loading, s \in Services \ Streams : loading[i][s] # "nowait"

Sockets == Watched /\ Unbound /\ Chosen /\ Scanned /\ Handing
Waiting == HeldByServer /\ Reserved /\ SoleHolder /\ Datagrams
IInv == TypeOK /\ Sockets /\ Waiting

USE PidAssumption, ServiceAssumption, ConfigAssumption, LimitAssumption

LEMMA ModeType ==
    ASSUME NEW file \in [Services -> {"absent", "wait", "nowait"}], NEW s \in Services
    PROVE  /\ Mode(file, s) \in {0, 1}
           /\ file[s] \in {"absent", "wait", "nowait"}
           /\ s \in Listed(file) /\ file[s] # "nowait" => Mode(file, s) = 1
  BY DEF Mode, Listed

LEMMA InitIInv == Init => IInv
<1> SUFFICES ASSUME Init PROVE IInv
  OBVIOUS
<1>1. config \in FileSequences
      /\ \A i \in DOMAIN config, s \in Services \ Streams : config[i][s] # "nowait"
  BY DEF Init
<1>2. TypeOK
  <2>1. process \in [Pids -> [state : {"free", "started", "running", "zombie"},
                              sock : Services \cup {None}, entry : {"current", "former"}]]
    BY DEF Init, FreeProcess
  <2>2. count \in [Services -> 0 .. TooMany] /\ reloads \in 0 .. MaxReloads
    BY DEF Init
  <2>3. wait \in [Services -> {0, 1} \cup Pids]
    BY DEF Init
  <2>4. /\ config \in Configs /\ table = {} /\ bound = {} /\ shut = {} /\ allsock = {}
        /\ nsock = 0 /\ timingout = FALSE /\ pending = {} /\ requests = {} /\ readable = {}
        /\ pc = "top" /\ cur = None /\ ctrl = "none" /\ loading = config /\ checked = {}
    BY DEF Init
  <2>5. loading \in FileSequences
    BY <1>1, <2>4
  <2> QED
    <3>1. table \subseteq Services /\ bound \subseteq table /\ shut \subseteq bound
          /\ allsock \subseteq bound /\ requests \subseteq Services /\ readable \subseteq Services
          /\ checked \subseteq Services /\ pending \subseteq {"CHLD", "HUP"}
      BY <2>4
    <3>2. nsock \in Int /\ cur \in Services \cup {None, Freed}
      BY <2>4
    <3>4. timingout \in BOOLEAN
      BY <2>4, Zenon
    <3>3. pc \in {"top", "paused", "copied", "selecting", "scanning", "crashed"}
          /\ ctrl \in {"none", "connection", "socket"} /\ config \in Configs
      BY <2>4
    <3> QED
      BY <2>1, <2>2, <2>3, <2>5, <3>1, <3>2, <3>3, <3>4 DEF TypeOK
<1>3. Sockets
  <2>1. \A s \in Services : Holders(s) = {}
    BY DEF Init, Holders, Servers, FreeProcess
  <2> QED
    BY <2>1 DEF Init, Sockets, Watched, Unbound, Chosen, Scanned, Handing
<1>4. Waiting
  <2>1. \A s \in Services : Holders(s) = {}
    BY DEF Init, Holders, Servers, FreeProcess
  <2> QED
    BY <1>1, <2>1 DEF Init, Waiting, HeldByServer, Reserved, SoleHolder, Datagrams
<1> QED
  BY <1>2, <1>3, <1>4 DEF IInv

\* Steps of main that only move its own variables, and those of a client or
\* of the administrator.
LEMMA QuietInv ==
    ASSUME IInv,
           \/ Pause \/ CopySockets \/ SelectFails \/ SelectBlocks
           \/ SelectReturns \/ ScanEnds
           \/ \E s \in Services : Visit(s)
           \/ \E s \in Services : Request(s)
           \/ \E c \in Configs : Edit(c)
           \/ UNCHANGED vars
    PROVE  IInv'
<1> DEFINE Same == /\ table' = table /\ bound' = bound /\ shut' = shut
                   /\ wait' = wait /\ count' = count /\ process' = process
                   /\ allsock' = allsock /\ nsock' = nsock
<1>1. Same
  BY DEF Pause, CopySockets, SelectFails, SelectBlocks, SelectReturns, ScanEnds,
         Visit, Request, Edit, tabVars, sockVars, vars
<1>2. \A s : Holders(s)' = Holders(s)
  BY <1>1 DEF Holders, Servers
<1>3. Waiting'
  <2>1. loading' = loading
    BY DEF Pause, CopySockets, SelectFails, SelectBlocks, SelectReturns, ScanEnds,
           Visit, Request, Edit, fileVars, vars
  <2> QED
    BY <1>1, <1>2, <2>1 DEF IInv, Waiting, HeldByServer, Reserved, SoleHolder, Datagrams
<1>4. Watched' /\ Unbound'
  BY <1>1, <1>2 DEF IInv, Sockets, Watched, Unbound
<1> DEFINE Rest == TypeOK' /\ Chosen' /\ Scanned' /\ Handing'
<1>5. ASSUME Pause PROVE Rest
  BY <1>1, <1>2, <1>5 DEF Pause, IInv, Sockets, TypeOK, Chosen, Scanned, Handing, fileVars
<1>6. ASSUME CopySockets PROVE Rest
  BY <1>1, <1>2, <1>6 DEF CopySockets, IInv, Sockets, TypeOK, Watched, Chosen, Scanned, Handing, fileVars
<1>7. ASSUME SelectFails PROVE Rest
  BY <1>1, <1>2, <1>7 DEF SelectFails, IInv, Sockets, TypeOK, Chosen, Scanned, Handing, fileVars
<1>8. ASSUME SelectBlocks PROVE Rest
  BY <1>1, <1>2, <1>8 DEF SelectBlocks, IInv, Sockets, TypeOK, Chosen, Scanned, Handing, fileVars
<1>9. ASSUME SelectReturns PROVE Rest
  BY <1>1, <1>2, <1>9 DEF SelectReturns, ClosedInCopy, IInv, Sockets, TypeOK, Chosen, Scanned, Handing, fileVars
<1>10. ASSUME ScanEnds PROVE Rest
  BY <1>1, <1>2, <1>10 DEF ScanEnds, IInv, Sockets, TypeOK, Chosen, Scanned, Handing, fileVars
<1>11. ASSUME NEW s \in Services, Visit(s) PROVE Rest
  BY <1>1, <1>2, <1>11 DEF Visit, IInv, Sockets, TypeOK, Chosen, Scanned, Handing, fileVars
<1>12. ASSUME NEW s \in Services, Request(s) PROVE Rest
  BY <1>1, <1>2, <1>12 DEF Request, IInv, Sockets, TypeOK, Chosen, Scanned, Handing, fileVars, mainVars
<1>13. ASSUME NEW c \in Configs, Edit(c) PROVE Rest
  BY <1>1, <1>2, <1>13 DEF Edit, IInv, Sockets, TypeOK, Chosen, Scanned, Handing, mainVars
<1>14. ASSUME UNCHANGED vars PROVE Rest
  BY <1>1, <1>2, <1>14 DEF vars, IInv, Sockets, TypeOK, Chosen, Scanned, Handing, fileVars, mainVars
<1>15. Rest
  BY <1>5, <1>6, <1>7, <1>8, <1>9, <1>10, <1>11, <1>12, <1>13, <1>14
<1> QED
  BY <1>3, <1>4, <1>15 DEF IInv, Sockets

\* The number in se_wait is that of a process.
LEMMA WaitedType ==
    ASSUME TypeOK
    PROVE  /\ \A p \in Pids : p \in Nat /\ p > 1
           /\ \A s \in table : s \in Services /\ (wait[s] > 1 => wait[s] \in Pids)
           /\ \A s \in table : wait[s] \in Nat
<1>1. \A p \in Pids : p \in Nat /\ p > 1
  <2> SUFFICES ASSUME NEW p \in Pids PROVE p \in Nat /\ p > 1
    OBVIOUS
  <2>1. p \in Nat /\ p # 0 /\ p # 1
    OBVIOUS
  <2> QED
    BY <2>1
<1>2. \A s \in table : s \in Services /\ wait[s] \in {0, 1} \cup Pids
  BY DEF TypeOK
<1>3. ASSUME NEW s \in table
      PROVE  (wait[s] > 1 => wait[s] \in Pids) /\ wait[s] \in Nat
  <2>1. CASE wait[s] \in Pids
    BY <1>1, <2>1
  <2>2. CASE wait[s] = 0 \/ wait[s] = 1
    BY <2>2
  <2> QED
    BY <1>2, <2>1, <2>2
<1> QED
  BY <1>1, <1>2, <1>3

LEMMA SubsetCardinality ==
    ASSUME NEW S \in SUBSET Services
    PROVE  IsFiniteSet(S) /\ Cardinality(S) \in Nat
  BY FS_Subset, FS_CardinalityType

\* What one start does to se_count.
LEMMA StartedType ==
    ASSUME TypeOK, NEW s \in Services
    PROVE  Started(s) \in 0 .. TooMany
  BY DEF TypeOK, Started, LimitReached

\* A server whose socket is closed by inetd goes on, but no longer as a holder.
LEMMA LeftType ==
    ASSUME TypeOK
    PROVE  \A S \in SUBSET Services : Left(S) =>
             /\ process' \in [Pids -> [state : {"free", "started", "running", "zombie"},
                                       sock : Services \cup {None}, entry : {"current", "former"}]]
             /\ \A p \in Pids : /\ process'[p].state = process[p].state
                                /\ process'[p].sock = process[p].sock
                                /\ process[p].sock \notin S => process'[p] = process[p]
             /\ \A s \in S : Holders(s)' = {}
             /\ \A s \in Services \ S : Holders(s)' = Holders(s)
<1> TAKE S \in SUBSET Services
<1> HAVE Left(S)
<1>1. \A p \in Pids : /\ process'[p].state = process[p].state
                      /\ process'[p].sock = process[p].sock
                      /\ process[p].sock \in S => process'[p].entry = "former"
                      /\ process[p].sock \notin S => process'[p] = process[p]
                      /\ process'[p] \in [state : {"free", "started", "running", "zombie"},
                                          sock : Services \cup {None}, entry : {"current", "former"}]
  BY DEF Left, TypeOK
<1>2. process' \in [Pids -> [state : {"free", "started", "running", "zombie"},
                             sock : Services \cup {None}, entry : {"current", "former"}]]
  BY <1>1 DEF Left
<1>3. ASSUME NEW s \in S PROVE Holders(s)' = {}
  <2>1. \A p \in Pids : process'[p].sock = s => process'[p].entry = "former"
    BY <1>1
  <2> QED
    BY <2>1 DEF Holders, Servers
<1>4. ASSUME NEW s \in Services \ S PROVE Holders(s)' = Holders(s)
  <2>1. \A p \in Pids : process'[p].sock = s \/ process[p].sock = s => process'[p] = process[p]
    BY <1>1
  <2> QED
    BY <2>1 DEF Holders, Servers
<1> QED
  BY <1>1, <1>2, <1>3, <1>4

LEMMA TerminateInv == ASSUME IInv, Terminate PROVE IInv'
<1>1. cur \in bound \ shut /\ Holders(cur) = {} /\ cur \in table /\ cur \in Services
  BY DEF IInv, Sockets, Handing, Terminate, TypeOK
<1>2. /\ \A p \in Pids : /\ process'[p].state = process[p].state
                         /\ process'[p].sock = process[p].sock
                         /\ process[p].sock # cur => process'[p] = process[p]
      /\ process' \in [Pids -> [state : {"free", "started", "running", "zombie"},
                                sock : Services \cup {None}, entry : {"current", "former"}]]
      /\ \A s \in Services : Holders(s)' = Holders(s)
  <2>1. Left({cur})
    BY DEF Terminate
  <2> QED
    BY <1>1, <2>1, LeftType DEF IInv
<1>3. TypeOK'
  BY <1>2 DEF IInv, TypeOK, Terminate, fileVars
<1>4. Sockets'
  BY <1>1, <1>2 DEF IInv, TypeOK, Terminate, Sockets, Watched, Unbound, Chosen, Scanned, Handing
<1>5. \A s \in table' : wait'[s] > 1 => s # cur /\ wait'[s] = wait[s] /\ wait[s] \in Pids
  BY <1>1, WaitedType DEF IInv, TypeOK, Terminate
<1>6. HeldByServer'
  <2> SUFFICES ASSUME NEW s \in table', wait'[s] > 1
               PROVE  /\ process'[wait'[s]].state # "free"
                      /\ process'[wait'[s]].sock = s
                      /\ process'[wait'[s]].entry = "current"
                      /\ s \notin allsock'
    BY DEF HeldByServer
  <2>1. s \in table /\ s # cur /\ wait'[s] = wait[s] /\ wait[s] \in Pids
    BY <1>5 DEF Terminate
  <2>2. /\ process[wait[s]].state # "free" /\ process[wait[s]].sock = s
        /\ process[wait[s]].entry = "current" /\ s \notin allsock
    BY <2>1 DEF IInv, Waiting, HeldByServer
  <2>3. process'[wait[s]] = process[wait[s]]
    <3>1. \A q \in Pids : process[q].sock # cur => process'[q] = process[q]
      BY <1>2
    <3> QED
      BY <2>1, <2>2, <3>1
  <2>4. allsock' \subseteq allsock
    BY DEF Terminate
  <2> QED
    BY <2>1, <2>2, <2>3, <2>4
<1>7. Reserved' /\ SoleHolder' /\ Datagrams'
  BY <1>1, <1>2, <1>5 DEF IInv, TypeOK, Terminate, Waiting, Reserved, SoleHolder, Datagrams, fileVars
<1> QED
  BY <1>3, <1>4, <1>6, <1>7 DEF IInv, Waiting

LEMMA ForkErrorInv == ASSUME IInv, ForkError PROVE IInv'
<1>1. cur \in bound \ shut /\ Holders(cur) = {} /\ cur \in table
  BY DEF IInv, Sockets, Handing, ForkError, TypeOK
<1>2. \A s : Holders(s)' = Holders(s)
  BY DEF ForkError, Holders, Servers
<1>3. shut' \in {shut, shut \cup {cur}}
  BY DEF ForkError, CloseCtrl
<1>4. TypeOK'
  BY <1>1, <1>3, StartedType DEF IInv, TypeOK, ForkError, fileVars, sockVars
<1>5. Sockets'
  BY <1>1, <1>2, <1>3 DEF IInv, TypeOK, ForkError, Sockets, Watched, Unbound, Chosen,
                          Scanned, Handing, sockVars
<1>6. Waiting'
  BY <1>1, <1>2, <1>3 DEF IInv, TypeOK, ForkError, fileVars, Waiting, HeldByServer, Reserved,
                          SoleHolder, Datagrams, sockVars
<1> QED
  BY <1>4, <1>5, <1>6 DEF IInv

\* The new server is the only one that may now hold the socket.
LEMMA ForkInv == ASSUME IInv, NEW p \in Pids, Fork(p) PROVE IInv'
<1>1. cur \in bound \ shut /\ Holders(cur) = {} /\ cur \in table
      /\ cur \notin readable /\ cur \in Services
  BY DEF IInv, Sockets, Handing, Fork, TypeOK
<1>2. Child \in [state : {"running", "started"}, sock : Services \cup {None}, entry : {"current"}]
      /\ Child.sock \in {None, cur}
      /\ (ctrl = "connection" => Child.sock = None)
      /\ (ctrl # "connection" => Child.sock = cur)
  BY <1>1 DEF Child
<1>3. /\ process' = [process EXCEPT ![p] = Child] /\ process[p].state = "free"
      /\ cur' = cur
  BY DEF Fork
<1>4. \A s \in Services \ {cur} : Holders(s)' = Holders(s)
  BY <1>1, <1>2, <1>3 DEF Holders, Servers, IInv, TypeOK
<1>5. Holders(cur)' \subseteq {p}
  BY <1>1, <1>2, <1>3 DEF Holders, Servers, IInv, TypeOK
<1>6. ctrl = "connection" => Holders(cur)' = {}
  BY <1>1, <1>2, <1>3 DEF Holders, Servers, IInv, TypeOK
<1>7. ctrl = "connection" => wait[cur] = 0 /\ cur \in Streams
  BY <1>1 DEF IInv, Sockets, Handing, Fork
<1>8. /\ wait[cur] # 0 => /\ wait' = [wait EXCEPT ![cur] = p]
                          /\ allsock' = allsock \ {cur} /\ nsock' = nsock - 1
      /\ wait[cur] = 0 => wait' = wait /\ allsock' = allsock /\ nsock' = nsock
  BY DEF Fork, HandOver
<1>9. /\ shut' \in {shut, shut \cup {cur}}
      /\ ctrl = "socket" /\ wait[cur] = 0 => shut' = shut \cup {cur}
  BY <1>1 DEF Fork, CloseCtrl, IInv, Waiting, Datagrams
<1>10. TypeOK'
  <2>1. config' \in Configs /\ reloads' \in 0 .. MaxReloads
        /\ loading' \in FileSequences /\ checked' \subseteq Services
        /\ table' \subseteq Services /\ bound' \subseteq table' /\ shut' \subseteq bound'
        /\ timingout' \in BOOLEAN /\ pending' \subseteq {"CHLD", "HUP"}
        /\ requests' \subseteq Services /\ readable' \subseteq Services
        /\ cur' \in Services \cup {None, Freed} /\ ctrl' \in {"none", "connection", "socket"}
        /\ pc' \in {"top", "paused", "copied", "selecting", "scanning", "crashed"}
    BY <1>1, <1>9 DEF IInv, TypeOK, Fork, fileVars
  <2>2. wait' \in [Services -> {0, 1} \cup Pids] /\ allsock' \subseteq bound'
        /\ nsock' \in Int
    BY <1>8 DEF IInv, TypeOK, Fork
  <2>3. count' \in [Services -> 0 .. TooMany]
    BY <1>1, StartedType DEF IInv, TypeOK, Fork
  <2>4. process' \in [Pids -> [state : {"free", "started", "running", "zombie"},
                               sock : Services \cup {None}, entry : {"current", "former"}]]
    BY <1>2, <1>3 DEF IInv, TypeOK
  <2> QED
    BY <2>1, <2>2, <2>3, <2>4 DEF TypeOK
<1>11. Watched' /\ Unbound'
  BY <1>1, <1>4, <1>6, <1>8, <1>9 DEF IInv, TypeOK, Fork, Sockets, Watched, Unbound
<1>12. Chosen' /\ Scanned' /\ Handing'
  BY <1>1, <1>4, <1>9 DEF IInv, TypeOK, Fork, Sockets, Chosen, Scanned, Handing
<1>13. HeldByServer'
  <2> SUFFICES ASSUME NEW s \in table', wait'[s] > 1
               PROVE  /\ process'[wait'[s]].state # "free"
                      /\ process'[wait'[s]].sock = s
                      /\ process'[wait'[s]].entry = "current"
                      /\ s \notin allsock'
    BY DEF HeldByServer
  <2>1. s \in table /\ s \in Services
    BY DEF Fork, IInv, TypeOK
  <2>2. CASE s = cur /\ wait[cur] # 0
    <3>1. wait'[s] = p
      BY <1>8, <2>1, <2>2 DEF IInv, TypeOK
    <3>2. ctrl # "connection"
      BY <1>7, <2>2
    <3> QED
      BY <1>2, <1>3, <1>8, <2>2, <3>1, <3>2 DEF IInv, TypeOK
  <2>3. CASE s # cur \/ wait[cur] = 0
    <3>1. wait'[s] = wait[s] /\ allsock' \subseteq allsock
      BY <1>8, <2>1, <2>3 DEF IInv, TypeOK
    <3>2. wait[s] \in Pids
      BY <2>1, <3>1 DEF IInv, TypeOK
    <3>3. /\ process[wait[s]].state # "free" /\ process[wait[s]].sock = s
          /\ process[wait[s]].entry = "current" /\ s \notin allsock
      BY <2>1, <3>1 DEF IInv, Waiting, HeldByServer
    <3>4. process'[wait[s]] = process[wait[s]]
      BY <1>3, <3>2, <3>3 DEF IInv, TypeOK
    <3> QED
      BY <3>1, <3>3, <3>4
  <2> QED
    BY <2>2, <2>3
<1>14. Reserved'
  <2> SUFFICES ASSUME NEW s \in table', wait'[s] > 1
               PROVE  s \in bound' /\ Holders(s)' \subseteq {wait'[s]}
    BY DEF Reserved
  <2>1. s \in table /\ s \in Services /\ bound' = bound
    BY DEF Fork, IInv, TypeOK
  <2>2. CASE s = cur /\ wait[cur] # 0
    <3>1. wait'[s] = p
      BY <1>8, <2>1, <2>2 DEF IInv, TypeOK
    <3>2. Holders(s)' \subseteq {p}
      BY <1>3, <1>5, <2>2 DEF Holders, Servers
    <3> QED
      BY <1>1, <2>1, <2>2, <3>1, <3>2
  <2>3. CASE s = cur /\ wait[cur] = 0
    BY <1>8, <2>3
  <2>4. CASE s # cur
    <3>1. wait'[s] = wait[s]
      BY <1>8, <2>1, <2>4 DEF IInv, TypeOK
    <3> QED
      BY <1>4, <2>1, <2>4, <3>1 DEF IInv, Waiting, Reserved
  <2> QED
    BY <2>2, <2>3, <2>4
<1>15. SoleHolder'
  BY <1>4, <1>5, <1>11 DEF IInv, Waiting, SoleHolder, Watched, Fork
<1>16. Datagrams'
  BY <1>8 DEF IInv, TypeOK, Waiting, Datagrams, Fork, fileVars
<1> QED
  BY <1>10, <1>11, <1>12, <1>13, <1>14, <1>15, <1>16 DEF IInv, Sockets, Waiting

LEMMA UseFreedInv == ASSUME IInv, UseFreed PROVE IInv'
<1>1. \/ process' = process
      \/ \E p \in Pids : /\ process[p].state = "free"
                         /\ process' = [process EXCEPT ![p] = [state |-> "running", sock |-> None,
                                                               entry |-> "current"]]
  BY DEF UseFreed
<1>2. \A s \in Services : Holders(s)' = Holders(s)
  <2>1. \A q \in Pids : \/ process'[q] = process[q]
                        \/ process[q].state = "free" /\ process'[q].sock = None
    BY <1>1 DEF IInv, TypeOK
  <2> QED
    BY <2>1 DEF Holders, Servers
<1>3. \A q \in Pids : process[q].state # "free" => process'[q] = process[q]
  BY <1>1 DEF IInv, TypeOK
<1>4. TypeOK'
  <2>1. process' \in [Pids -> [state : {"free", "started", "running", "zombie"},
                               sock : Services \cup {None}, entry : {"current", "former"}]]
    BY <1>1 DEF IInv, TypeOK
  <2> QED
    BY <2>1 DEF IInv, TypeOK, UseFreed, fileVars, tabVars, sockVars
<1>5. Sockets'
  BY <1>2 DEF IInv, TypeOK, UseFreed, Sockets, Watched, Unbound, Chosen, Scanned, Handing,
              tabVars, sockVars
<1>6. HeldByServer'
  <2>1. table' = table /\ wait' = wait /\ allsock' = allsock
    BY DEF UseFreed, tabVars, sockVars
  <2> QED
    BY <1>3, <2>1, WaitedType DEF IInv, Waiting, HeldByServer
<1>7. Reserved' /\ SoleHolder' /\ Datagrams'
  BY <1>2 DEF IInv, TypeOK, UseFreed, Waiting, Reserved, SoleHolder, Datagrams,
              fileVars, tabVars, sockVars
<1> QED
  BY <1>4, <1>5, <1>6, <1>7 DEF IInv, Waiting

\* A server that reads or ends keeps its socket and its number.
LEMMA ServerInv ==
    ASSUME IInv, NEW p \in Pids, Serve(p) \/ Exit(p)
    PROVE  IInv'
<1>1. \E st \in {"running", "zombie"} : process' = [process EXCEPT ![p].state = st]
  BY DEF Serve, Exit
<1>2. process[p].state \in {"started", "running"}
  BY DEF Serve, Exit
<1>3. UNCHANGED <<tabVars, sockVars, mainVars, fileVars, timingout>>
  BY DEF Serve, Exit
<1>4. \A s \in Services : Holders(s)' \subseteq Holders(s)
  BY <1>1, <1>2 DEF Holders, Servers, IInv, TypeOK
<1>5. \A q \in Pids : /\ process'[q].sock = process[q].sock
                      /\ process'[q].entry = process[q].entry
                      /\ process'[q].state = "free" => process[q].state = "free"
  BY <1>1, <1>2 DEF IInv, TypeOK
<1>6. TypeOK'
  <2>1. process' \in [Pids -> [state : {"free", "started", "running", "zombie"},
                               sock : Services \cup {None}, entry : {"current", "former"}]]
    BY <1>1 DEF IInv, TypeOK
  <2>2. requests' \subseteq Services /\ pending' \subseteq {"CHLD", "HUP"}
    BY DEF IInv, TypeOK, Serve, Exit
  <2> QED
    BY <1>3, <2>1, <2>2 DEF IInv, TypeOK, fileVars, tabVars, sockVars, mainVars
<1>7. Sockets'
  <2>1. Watched' /\ Unbound' /\ Chosen' /\ Scanned'
    BY <1>3, <1>4 DEF IInv, TypeOK, Sockets, Watched, Unbound, Chosen, Scanned,
                      tabVars, sockVars, mainVars
  <2>2. Handing'
    <3>1. cur' = cur
      BY <1>3 DEF mainVars
    <3>2. cur \in Services => Holders(cur)' \subseteq Holders(cur)
      BY <1>1, <1>2, <3>1 DEF Holders, Servers, IInv, TypeOK
    <3> QED
      BY <1>3, <3>1, <3>2 DEF IInv, Sockets, Handing, tabVars, sockVars, mainVars
  <2> QED
    BY <2>1, <2>2 DEF Sockets
<1>8. HeldByServer'
  <2>1. table' = table /\ wait' = wait /\ allsock' = allsock
    BY <1>3 DEF tabVars, sockVars
  <2> QED
    BY <1>5, <2>1, WaitedType DEF IInv, Waiting, HeldByServer
<1>9. Reserved' /\ SoleHolder' /\ Datagrams'
  BY <1>3, <1>4 DEF IInv, TypeOK, Waiting, Reserved, SoleHolder, Datagrams,
                    fileVars, tabVars, sockVars
<1> QED
  BY <1>6, <1>7, <1>8, <1>9 DEF IInv, Waiting

\* A socket that is given back was held by nobody but the server that ended.
LEMMA ReapInv == ASSUME IInv, Reap PROVE IInv'
<1> DEFINE R == {s \in table : wait[s] \in Zombies}
<1>1. /\ process' = [p \in Pids |-> IF p \in Zombies THEN FreeProcess ELSE process[p]]
      /\ wait' = [s \in Services |-> IF s \in R THEN 1 ELSE wait[s]]
      /\ allsock' = allsock \cup R
      /\ nsock' = nsock + Cardinality(R)
  BY DEF Reap, Waited
<1>2. /\ UNCHANGED <<fileVars, table, bound, shut, count, timingout, requests, cur, ctrl>>
      /\ pending' \subseteq pending
  BY DEF Reap
<1>3. /\ readable' \subseteq readable /\ pc' \in {pc, "top"}
      /\ pc = "scanning" => pc' = "scanning"
      /\ pc = "crashed" => pc' = "crashed"
      /\ pc' \in {"top", "paused", "copied", "selecting", "scanning", "crashed"}
  BY DEF Reap, Interrupted, IInv, TypeOK
<1>4. \A s \in Services : Holders(s)' = Holders(s)
  <2>1. \A p \in Zombies : FreeProcess.state \notin {"started", "running"}
                            /\ process[p].state \notin {"started", "running"}
    BY DEF FreeProcess, Zombies
  <2> QED
    BY <1>1, <2>1 DEF Holders, Servers, IInv, TypeOK
<1>5. \A s \in R : /\ wait[s] > 1 /\ s \in bound /\ s \notin allsock /\ Holders(s) = {}
  <2> SUFFICES ASSUME NEW s \in R
               PROVE  wait[s] > 1 /\ s \in bound /\ s \notin allsock /\ Holders(s) = {}
    OBVIOUS
  <2>1. wait[s] > 1
    BY WaitedType DEF Zombies, IInv
  <2>2. Holders(s) \subseteq {wait[s]} /\ s \in bound
    BY <2>1 DEF IInv, Waiting, Reserved
  <2>3. wait[s] \notin Holders(s)
    BY DEF Holders, Servers, Zombies
  <2> QED
    BY <2>1, <2>2, <2>3 DEF IInv, Waiting, HeldByServer
<1>6. TypeOK'
  <2>1. R \subseteq bound
    BY <1>5
  <2>2. Cardinality(R) \in Nat
    BY SubsetCardinality DEF IInv, TypeOK
  <2>3. process' \in [Pids -> [state : {"free", "started", "running", "zombie"},
                               sock : Services \cup {None}, entry : {"current", "former"}]]
    BY <1>1 DEF IInv, TypeOK, FreeProcess
  <2>4. wait' \in [Services -> {0, 1} \cup Pids]
    BY <1>1 DEF IInv, TypeOK
  <2>5. allsock' \subseteq bound' /\ nsock' \in Int
    BY <1>1, <1>2, <2>1, <2>2 DEF IInv, TypeOK
  <2> HIDE DEF R
  <2> QED
    BY <1>2, <1>3, <2>3, <2>4, <2>5 DEF IInv, TypeOK, fileVars
<1>7. Watched' /\ Unbound'
  BY <1>1, <1>2, <1>4, <1>5 DEF IInv, TypeOK, Sockets, Watched, Unbound
<1>8. Chosen' /\ Scanned'
  BY <1>2, <1>3, <1>4 DEF IInv, TypeOK, Sockets, Chosen, Scanned
<1>9. Handing'
  <2> SUFFICES ASSUME ctrl' # "none", cur' \in Services
               PROVE  /\ pc' \in {"scanning", "crashed"}
                      /\ cur' \in bound' \ shut' /\ cur' \notin readable'
                      /\ Holders(cur)' = {}
                      /\ ctrl' = "connection" => wait'[cur'] = 0 /\ cur' \in Streams
    BY DEF Handing
  <2>1. Handing /\ ctrl # "none" /\ cur \in Services /\ cur' = cur
    BY <1>2 DEF IInv, Sockets
  <2>2. Holders(cur)' = {}
    BY <1>1, <2>1 DEF Handing, Holders, Servers, FreeProcess, Zombies
  <2>3. wait[cur] = 0 => wait'[cur] = 0
    BY <1>1, <1>5, <2>1
  <2> QED
    BY <1>2, <1>3, <2>1, <2>2, <2>3 DEF Handing
<1>10. \A s \in table : wait'[s] > 1 =>
          /\ wait'[s] = wait[s] /\ s \notin R /\ wait[s] \in Pids
          /\ process'[wait[s]] = process[wait[s]]
  BY <1>1 DEF IInv, TypeOK
<1>11. HeldByServer'
  BY <1>1, <1>2, <1>10 DEF IInv, Waiting, HeldByServer
<1>12. Reserved' /\ SoleHolder'
  BY <1>2, <1>4, <1>7, <1>10 DEF IInv, TypeOK, Waiting, Reserved, SoleHolder, Watched
<1>13. Datagrams'
  BY <1>1, <1>2 DEF IInv, TypeOK, Waiting, Datagrams, fileVars
<1> QED
  BY <1>6, <1>7, <1>8, <1>9, <1>11, <1>12, <1>13 DEF IInv, Sockets, Waiting

LEMMA RetryInv == ASSUME IInv, Retry PROVE IInv'
<1>1. /\ bound \subseteq bound' /\ bound' \subseteq table
      /\ timingout' \in BOOLEAN
  BY DEF Retry, Unbindable, IInv, TypeOK
<1>2. UNCHANGED <<fileVars, table, shut, wait, count, sockVars, pending,
                  process, requests, cur, ctrl>>
  BY DEF Retry
<1>3. /\ readable' \subseteq readable /\ pc' \in {pc, "top"}
      /\ pc = "scanning" => pc' = "scanning"
      /\ pc = "crashed" => pc' = "crashed"
      /\ pc' \in {"top", "paused", "copied", "selecting", "scanning", "crashed"}
  BY DEF Retry, Interrupted, IInv, TypeOK
<1>4. \A s : Holders(s)' = Holders(s)
  BY <1>2 DEF Holders, Servers
<1>5. TypeOK'
  BY <1>1, <1>2, <1>3 DEF IInv, TypeOK, fileVars, sockVars
<1>6. Sockets'
  BY <1>1, <1>2, <1>3, <1>4 DEF IInv, TypeOK, Sockets, Watched, Unbound, Chosen, Scanned,
                                Handing, sockVars
<1>7. Waiting'
  BY <1>1, <1>2, <1>4 DEF IInv, TypeOK, Waiting, HeldByServer, Reserved, SoleHolder,
                          Datagrams, fileVars, sockVars
<1> QED
  BY <1>5, <1>6, <1>7 DEF IInv

\* config() has only cleared the marks.
LEMMA ReloadInv == ASSUME IInv, Reload PROVE IInv'
<1>1. /\ UNCHANGED <<config, reloads, tabVars, sockVars, timingout, process, requests, cur, ctrl>>
      /\ pending' \subseteq pending /\ loading' = config /\ checked' = {}
  BY DEF Reload
<1>2. /\ readable' \subseteq readable /\ pc' \in {pc, "top"}
      /\ pc = "scanning" => pc' = "scanning"
      /\ pc = "crashed" => pc' = "crashed"
      /\ pc' \in {"top", "paused", "copied", "selecting", "scanning", "crashed"}
  BY DEF Reload, Interrupted, IInv, TypeOK
<1>3. \A s : Holders(s)' = Holders(s)
  BY <1>1 DEF Holders, Servers
<1>4. /\ config \in FileSequences
      /\ \A i \in DOMAIN config, s \in Services \ Streams : config[i][s] # "nowait"
  BY DEF IInv, TypeOK
<1>5. TypeOK'
  BY <1>1, <1>2, <1>4 DEF IInv, TypeOK, tabVars, sockVars
<1>6. Sockets'
  BY <1>1, <1>2, <1>3 DEF IInv, TypeOK, Sockets, Watched, Unbound, Chosen, Scanned,
                          Handing, tabVars, sockVars
<1>7. Waiting'
  BY <1>1, <1>3, <1>4 DEF IInv, Waiting, HeldByServer, Reserved, SoleHolder, Datagrams,
                          tabVars, sockVars
<1> QED
  BY <1>5, <1>6, <1>7 DEF IInv

\* The entries that stay keep their number or lose it, the servers of those
\* that go are no longer holders, and a socket that is made is held by nobody.
LEMMA NextConfigInv == ASSUME IInv, NextConfig PROVE IInv'
<1> DEFINE file == Head(loading)
           L    == Listed(file)
           gone == table \ (checked \cup L)
<1>1. PICK failed \in Unbindable(ToOpen(file)) :
         /\ bound' = (bound \ gone) \cup (ToOpen(file) \ failed)
         /\ allsock' = (allsock \ gone) \cup (ToOpen(file) \ failed)
         /\ nsock' = nsock + Cardinality(ToOpen(file) \ failed) - Cardinality(gone \cap bound)
         /\ timingout' = (timingout \/ failed # {})
  BY DEF NextConfig
<1>2. /\ loading # <<>> /\ loading' = Tail(loading) /\ checked' = checked \cup L
      /\ table' = (table \ gone) \cup L
      /\ shut' = shut \ gone
      /\ wait' = [s \in Services |->
                    IF s \notin L THEN wait[s]
                    ELSE IF s \in table THEN Merged(file, s) ELSE Mode(file, s)]
      /\ count' = [s \in Services |-> IF s \in table \ gone THEN count[s] ELSE 0]
      /\ requests' = requests \ gone
      /\ Left(gone)
      /\ cur' = IF cur \in gone THEN Freed ELSE cur
      /\ readable' = IF pc = "scanning" THEN readable \ gone ELSE readable
      /\ UNCHANGED <<config, reloads, pending, pc, ctrl>>
  BY DEF NextConfig
<1>3. /\ loading' \in FileSequences
      /\ file \in [Services -> {"absent", "wait", "nowait"}]
      /\ \A s \in Services \ Streams : file[s] # "nowait"
      /\ \A i \in DOMAIN loading', s \in Services \ Streams : loading'[i][s] # "nowait"
  <2>1. /\ loading \in Seq([Services -> {"absent", "wait", "nowait"}])
        /\ \A i \in DOMAIN loading, s \in Services \ Streams : loading[i][s] # "nowait"
    BY DEF IInv, TypeOK, Waiting, Datagrams, FileSequences
  <2>2. 1 \in DOMAIN loading /\ file = loading[1]
    BY <1>2, <2>1
  <2>3. \A i \in DOMAIN loading' : i + 1 \in DOMAIN loading /\ loading'[i] = loading[i + 1]
    BY <1>2, <2>1
  <2> QED
    BY <1>2, <2>1, <2>2, <2>3 DEF FileSequences
<1> HIDE DEF file
<1>4. L \subseteq Services /\ ToOpen(file) \subseteq L /\ ToOpen(file) \cap bound = {}
      /\ failed \subseteq ToOpen(file) /\ gone \subseteq Services /\ gone \cap L = {}
  BY DEF Listed, ToOpen, Unbindable, IInv, TypeOK
<1>5. /\ process' \in [Pids -> [state : {"free", "started", "running", "zombie"},
                                sock : Services \cup {None}, entry : {"current", "former"}]]
      /\ \A p \in Pids : /\ process[p].sock \notin gone => process'[p] = process[p]
                         /\ process'[p].sock = process[p].sock
      /\ \A s \in gone : Holders(s)' = {}
      /\ \A s \in Services \ gone : Holders(s)' = Holders(s)
  <2>1. gone \in SUBSET Services /\ Left(gone)
    BY <1>2, <1>4
  <2> HIDE DEF gone
  <2>2. TypeOK
    BY DEF IInv
  <2>3. /\ process' \in [Pids -> [state : {"free", "started", "running", "zombie"},
                                  sock : Services \cup {None}, entry : {"current", "former"}]]
        /\ \A p \in Pids : /\ process[p].sock \notin gone => process'[p] = process[p]
                           /\ process'[p].sock = process[p].sock
    BY <2>1, <2>2 DEF Left, TypeOK
  <2>4. \A s \in gone : Holders(s)' = {}
    BY <2>1, <2>2, LeftType
  <2>5. \A s \in Services \ gone : Holders(s)' = Holders(s)
    BY <2>1, <2>2, LeftType
  <2> QED
    BY <2>3, <2>4, <2>5
<1>6. \A s \in Services \ bound : Holders(s)' = {}
  BY <1>5 DEF IInv, Sockets, Unbound
<1> HIDE DEF gone, L
<1>7. \A s \in Services : Mode(file, s) \in {0, 1} /\ Merged(file, s) \in {0, 1, wait[s]}
  BY <1>3, ModeType DEF Merged
<1>8. TypeOK'
  <2>1. Cardinality(ToOpen(file) \ failed) \in Nat /\ Cardinality(gone \cap bound) \in Nat
    BY <1>4, SubsetCardinality
  <2>2. nsock' \in Int
    BY <1>1, <2>1 DEF IInv, TypeOK
  <2>3. wait' \in [Services -> {0, 1} \cup Pids]
    BY <1>2, <1>7 DEF IInv, TypeOK
  <2>4. count' \in [Services -> 0 .. TooMany]
    BY <1>2 DEF IInv, TypeOK
  <2>5. /\ table' \subseteq Services /\ bound' \subseteq table' /\ allsock' \subseteq bound'
        /\ shut' \subseteq bound'
    BY <1>1, <1>2, <1>4 DEF IInv, TypeOK
  <2>6. timingout' \in BOOLEAN /\ checked' \subseteq Services
    BY <1>1, <1>2, <1>4 DEF IInv, TypeOK
  <2> QED
    BY <1>2, <1>3, <1>5, <2>2, <2>3, <2>4, <2>5, <2>6 DEF IInv, TypeOK
<1>9. Watched' /\ Unbound'
  BY <1>1, <1>2, <1>4, <1>5, <1>6 DEF IInv, TypeOK, Sockets, Watched, Unbound
<1>10. Chosen' /\ Scanned'
  BY <1>1, <1>2, <1>4, <1>5, <1>6 DEF IInv, TypeOK, Sockets, Chosen, Scanned
<1>11. Handing'
  <2> SUFFICES ASSUME ctrl' # "none", cur' \in Services
               PROVE  /\ pc' \in {"scanning", "crashed"}
                      /\ cur' \in bound' \ shut' /\ cur' \notin readable'
                      /\ Holders(cur)' = {}
                      /\ ctrl' = "connection" => wait'[cur'] = 0 /\ cur' \in Streams
    BY DEF Handing
  <2>1. /\ Handing /\ ctrl # "none" /\ ctrl' = ctrl
        /\ cur \in Services \ gone /\ cur' = cur
    BY <1>2 DEF IInv, Sockets
  <2>2. /\ cur \in bound \ shut /\ cur \notin readable /\ Holders(cur) = {}
        /\ pc \in {"scanning", "crashed"}
        /\ ctrl = "connection" => wait[cur] = 0 /\ cur \in Streams
    BY <2>1 DEF Handing
  <2>3. cur \in table
    BY <2>2 DEF IInv, TypeOK
  <2>4. Holders(cur)' = {}
    <3>1. \A p \in Pids : process'[p].sock = cur => process'[p] = process[p]
      BY <1>5, <2>1
    <3> QED
      BY <2>1, <2>2, <3>1 DEF Holders, Servers
  <2>5. wait[cur] = 0 => wait'[cur] = 0
    BY <1>2, <2>1, <2>3 DEF Merged, Mode
  <2>6. cur \in bound' \ shut'
    BY <1>1, <1>2, <2>1, <2>2
  <2>7. cur \notin readable' /\ pc' \in {"scanning", "crashed"}
    BY <1>2, <2>2
  <2> QED
    BY <2>1, <2>2, <2>4, <2>5, <2>6, <2>7
<1>12. \A s \in table' : wait'[s] > 1 =>
          s \in table /\ s \notin gone /\ wait'[s] = wait[s] /\ wait[s] \in Pids
  <2> SUFFICES ASSUME NEW s \in table', wait'[s] > 1
               PROVE  s \in table /\ s \notin gone /\ wait'[s] = wait[s] /\ wait[s] \in Pids
    OBVIOUS
  <2>1. s \in Services /\ s \notin gone
    BY <1>2, <1>4 DEF IInv, TypeOK
  <2>2. s \in table /\ wait'[s] = wait[s]
    <3>1. CASE s \notin L
      BY <1>2, <2>1, <3>1
    <3>2. CASE s \in L
      BY <1>2, <1>7, <2>1, <3>2
    <3> QED
      BY <3>1, <3>2
  <2> QED
    BY <2>1, <2>2, WaitedType DEF IInv
<1>13. HeldByServer'
  <2> SUFFICES ASSUME NEW s \in table', wait'[s] > 1
               PROVE  /\ process'[wait'[s]].state # "free"
                      /\ process'[wait'[s]].sock = s
                      /\ process'[wait'[s]].entry = "current"
                      /\ s \notin allsock'
    BY DEF HeldByServer
  <2>1. s \in table /\ s \notin gone /\ wait'[s] = wait[s] /\ wait[s] \in Pids
    BY <1>12
  <2>2. /\ process[wait[s]].state # "free" /\ process[wait[s]].sock = s
        /\ process[wait[s]].entry = "current"
        /\ s \notin allsock /\ s \in bound
    BY <2>1, SMTT(20) DEF IInv, Waiting, HeldByServer, Reserved
  <2>3. s \notin allsock'
    BY <1>1, <1>4, <2>2
  <2>4. process'[wait[s]] = process[wait[s]]
    BY <1>5, <2>1, <2>2
  <2> QED
    BY <2>1, <2>2, <2>3, <2>4
<1>14. Reserved'
  <2> SUFFICES ASSUME NEW s \in table', wait'[s] > 1
               PROVE  s \in bound' /\ Holders(s)' \subseteq {wait'[s]}
    BY DEF Reserved
  <2>1. s \in table /\ s \notin gone /\ wait'[s] = wait[s] /\ s \in Services
    BY <1>12 DEF IInv, TypeOK
  <2>2. s \in bound /\ Holders(s) \subseteq {wait[s]}
    BY <2>1 DEF IInv, Waiting, Reserved
  <2>3. Holders(s)' = Holders(s)
    BY <1>5, <2>1
  <2> QED
    BY <1>1, <2>1, <2>2, <2>3
<1>15. SoleHolder'
  BY <1>5, <1>9 DEF IInv, Waiting, SoleHolder, Watched
<1>16. Datagrams'
  <2> SUFFICES ASSUME NEW s \in table' \ Streams
               PROVE  wait'[s] # 0
    BY <1>3 DEF Datagrams
  <2>1. s \in Services /\ s \notin Streams
    BY <1>2, <1>4 DEF IInv, TypeOK
  <2>2. s \in L => Mode(file, s) = 1 /\ file[s] # "nowait"
    BY <1>3, <2>1, ModeType DEF L
  <2>3. s \in table => wait[s] # 0
    BY <2>1 DEF IInv, Waiting, Datagrams
  <2>4. s \notin L => s \in table
    BY <1>2
  <2> QED
    BY <1>2, <2>1, <2>2, <2>3, <2>4 DEF Merged
<1> QED
  BY <1>8, <1>9, <1>10, <1>11, <1>13, <1>14, <1>15, <1>16 DEF IInv, Sockets, Waiting

LEMMA StepInv == IInv /\ [Next]_vars => IInv'
  BY QuietInv, TerminateInv, ForkErrorInv, ForkInv, UseFreedInv, ServerInv,
     ReapInv, RetryInv, ReloadInv, NextConfigInv
  DEF Next, Main

LEMMA Inductive == Spec => []IInv
  BY InitIInv, StepInv, PTL DEF Spec

\* The state keeps its shape; in particular se_count never passes the limit.
THEOREM TypeCorrect == Spec => []TypeOK
<1>1. IInv => TypeOK
  BY DEF IInv
<1> QED
  BY <1>1, Inductive, PTL

\* se_wait names an unreaped process that was given the socket, which inetd
\* does not watch, whatever the order of fork(), exit, SIGCHLD and SIGHUP.
THEOREM WaitedIsHolder == Spec => []HeldByServer
<1>1. IInv => HeldByServer
  BY DEF IInv, Waiting
<1> QED
  BY <1>1, Inductive, PTL

\* No socket has two servers, or a server while inetd listens on it, for as
\* long as its entry stays in servtab.
THEOREM OneServer == Spec => []SoleHolder
<1>1. IInv => SoleHolder
  BY DEF IInv, Waiting
<1> QED
  BY <1>1, Inductive, PTL

\* Adding sockets nobody watched, and taking away no more than are counted.
LEMMA Exchanged ==
    ASSUME NEW S, IsFiniteSet(S), NEW G, IsFiniteSet(G), NEW A, IsFiniteSet(A),
           A \cap S = {}, NEW B, IsFiniteSet(B), S \cap G \subseteq B
    PROVE  Cardinality((S \ G) \cup A) >= Cardinality(S) + Cardinality(A) - Cardinality(B)
<1>1. Cardinality(S \ G) = Cardinality(S) - Cardinality(S \cap G) /\ IsFiniteSet(S \ G)
  BY FS_Difference
<1>2. Cardinality((S \ G) \cap A) = 0
  <2>1. (S \ G) \cap A = {}
    OBVIOUS
  <2> QED
    BY <2>1, FS_EmptySet
<1>3. Cardinality((S \ G) \cup A) = Cardinality(S \ G) + Cardinality(A) - Cardinality((S \ G) \cap A)
  BY <1>1, FS_Union
<1>4. Cardinality(S \cap G) <= Cardinality(B)
  BY FS_Subset
<1>5. /\ Cardinality(S) \in Nat /\ Cardinality(A) \in Nat /\ Cardinality(B) \in Nat
      /\ IsFiniteSet(S \cap G) /\ Cardinality(S \cap G) \in Nat
  BY FS_CardinalityType, FS_Subset
<1>6. Cardinality((S \ G) \cup A) = Cardinality(S) - Cardinality(S \cap G) + Cardinality(A)
  BY <1>1, <1>2, <1>3, <1>5
<1> QED
  BY <1>4, <1>5, <1>6

LEMMA CountStep == IInv /\ NotOvercounted /\ [Next]_vars => NotOvercounted'
<1> SUFFICES ASSUME IInv, NotOvercounted, [Next]_vars PROVE NotOvercounted'
  OBVIOUS
<1>1. /\ nsock \in Int /\ nsock <= Cardinality(allsock)
      /\ allsock \subseteq Services /\ IsFiniteSet(allsock) /\ Cardinality(allsock) \in Nat
  BY SubsetCardinality DEF IInv, TypeOK, NotOvercounted
<1>2. ASSUME allsock' = allsock, nsock' = nsock PROVE NotOvercounted'
  BY <1>1, <1>2 DEF NotOvercounted
<1>3. ASSUME allsock' = allsock \ {cur}, nsock' = nsock - 1 PROVE NotOvercounted'
  <2>1. Cardinality(allsock \ {cur}) \in {Cardinality(allsock), Cardinality(allsock) - 1}
    BY <1>1, FS_RemoveElement
  <2> QED
    BY <1>1, <1>3, <2>1 DEF NotOvercounted
<1>4. CASE Terminate
  BY <1>3, <1>4 DEF Terminate
<1>5. ASSUME NEW p \in Pids, Fork(p) PROVE NotOvercounted'
  BY <1>2, <1>3, <1>5 DEF Fork, HandOver
<1>6. CASE Reap
  <2> DEFINE R == {s \in table : wait[s] \in Zombies}
  <2>1. allsock' = allsock \cup R /\ nsock' = nsock + Cardinality(R)
    BY <1>6 DEF Reap, Waited
  <2>2. R \cap allsock = {}
    BY WaitedType DEF IInv, Waiting, HeldByServer, Zombies
  <2>3. R \subseteq Services
    BY DEF IInv, TypeOK
  <2> HIDE DEF R
  <2>4. IsFiniteSet(R) /\ Cardinality(R) \in Nat
    BY <2>3, SubsetCardinality
  <2>5. IsFiniteSet({}) /\ Cardinality({}) = 0
    BY FS_EmptySet
  <2>6. Cardinality((allsock \ {}) \cup R) >= Cardinality(allsock) + Cardinality(R) - Cardinality({})
    BY <1>1, <2>2, <2>4, <2>5, Exchanged
  <2>7. (allsock \ {}) \cup R = allsock'
    BY <2>1
  <2>8. Cardinality(allsock') \in Nat
    BY <1>1, <2>1, <2>3, SubsetCardinality
  <2> QED
    BY <1>1, <2>1, <2>4, <2>5, <2>6, <2>7, <2>8 DEF NotOvercounted
<1>7. CASE NextConfig
  <2> DEFINE made(failed) == ToOpen(Head(loading)) \ failed
             gone == table \ (checked \cup Listed(Head(loading)))
  <2>1. PICK failed :
           /\ allsock' = (allsock \ gone) \cup made(failed)
           /\ nsock' = nsock + Cardinality(made(failed)) - Cardinality(gone \cap bound)
    BY <1>7 DEF NextConfig
  <2>2. allsock \subseteq bound /\ made(failed) \cap allsock = {}
    BY DEF IInv, TypeOK, ToOpen
  <2>3. made(failed) \subseteq Services /\ gone \subseteq Services
    BY DEF IInv, TypeOK, ToOpen, Listed
  <2> HIDE DEF gone, made
  <2>4. /\ IsFiniteSet(made(failed)) /\ Cardinality(made(failed)) \in Nat
        /\ IsFiniteSet(gone) /\ IsFiniteSet(gone \cap bound) /\ Cardinality(gone \cap bound) \in Nat
    BY <2>3, SubsetCardinality
  <2>5. allsock \cap gone \subseteq gone \cap bound
    BY <2>2
  <2>6. Cardinality(allsock')
          >= Cardinality(allsock) + Cardinality(made(failed)) - Cardinality(gone \cap bound)
    BY <1>1, <2>1, <2>2, <2>4, <2>5, Exchanged
  <2>7. Cardinality(allsock') \in Nat
    BY <1>1, <2>1, <2>3, SubsetCardinality
  <2> QED
    BY <1>1, <2>1, <2>4, <2>6, <2>7 DEF NotOvercounted
<1> QED
  BY <1>2, <1>4, <1>5, <1>6, <1>7
  DEF Next, Main, Pause, CopySockets, SelectFails, SelectBlocks, SelectReturns, Visit,
      ForkError, UseFreed, ScanEnds, Retry, Reload, Request, Serve, Exit, Edit, sockVars, vars

\* nsock never exceeds the number of sockets watched: select() is never
\* entered for a socket that has been counted but not set.
THEOREM NeverOvercounted == Spec => []NotOvercounted
<1>1. Init => NotOvercounted
  <2> SUFFICES ASSUME Init PROVE NotOvercounted
    OBVIOUS
  <2>1. Cardinality({}) = 0
    BY FS_EmptySet
  <2> QED
    BY <2>1 DEF Init, NotOvercounted
<1> QED
  BY <1>1, CountStep, Inductive, PTL DEF Spec
=============================================================================
