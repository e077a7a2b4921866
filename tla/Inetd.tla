------------------------------- MODULE Inetd -------------------------------
(***************************************************************************)
(* inetd, the Internet super-server (inetutils, src/inetd.c): its main     *)
(* loop, the three signal handlers that run in the middle of it (SIGCHLD:  *)
(* reapchild, SIGHUP: config, SIGALRM: retry), the servers it starts, and  *)
(* the administrator who edits the configuration files.                    *)
(*                                                                         *)
(* reapchild and retry are one action each, taken whenever their signal is *)
(* not blocked.  config is one action for each file it reads, and the two  *)
(* others may run between its files, as each handler blocks its own signal *)
(* only; that they interrupt one another elsewhere is not represented.     *)
(* What main does between signal_block() and signal_unblock() is one       *)
(* action as well; between its other steps a handler may run.              *)
(* A descriptor is identified with the service it belongs to: that the     *)
(* number of a closed one is used again before main has finished the scan  *)
(* under way is not represented.                                           *)
(***************************************************************************)
EXTENDS Integers, FiniteSets, Sequences

CONSTANTS
    Services,    \* the names of services
    Streams,     \* those of them on a SOCK_STREAM socket
    Pids,        \* the process numbers: this bounds the servers alive at once
    None,        \* no service
    Freed,       \* a servtab entry that has been freed
    Configs,     \* what the configuration files may say, file by file
    TooMany,     \* toomany: the limit of starts in CNT_INTVL seconds
    BindFails,   \* may bind() fail?
    ForkFails,   \* may fork() fail?
    MaxReloads   \* bound: edits of the configuration files

ASSUME PidAssumption == Pids \subseteq Nat \ {0, 1}
ASSUME ServiceAssumption ==
    /\ IsFiniteSet(Services) /\ Streams \subseteq Services
    /\ None \notin Services /\ Freed \notin Services /\ None # Freed
\* The files, one after the other, that config() may find.
FileSequences == Seq([Services -> {"absent", "wait", "nowait"}])

\* The manual: "Datagram servers must use wait".  The parser does not insist.
ASSUME ConfigAssumption ==
    /\ Configs \subseteq FileSequences
    /\ \A c \in Configs : \A i \in DOMAIN c, s \in Services \ Streams : c[i][s] # "nowait"
ASSUME LimitAssumption ==
    /\ TooMany \in Nat \ {0} /\ MaxReloads \in Nat
    /\ {BindFails, ForkFails} \subseteq BOOLEAN

VARIABLES
    config,      \* the files: what each says of each service
    reloads,     \* the number of edits so far
    loading,     \* the files config() has still to read
    checked,     \* the entries with se_checked set
    table,       \* the services in servtab
    bound,       \* those with se_fd # -1
    shut,        \* those of them whose descriptor se_fd has been closed
    wait,        \* se_wait: 0 nowait, 1 wait, above 1 the server waited for
    count,       \* se_count
    allsock,     \* the descriptors select() is to watch
    nsock,       \* their number, as inetd counts it
    timingout,   \* the alarm is set
    pending,     \* the signals sent to inetd and not yet handled
    process,     \* the servers: their state, the service whose socket they
                 \* hold, and whether it is that of the current entry
    requests,    \* the services with a request nobody has read
    pc,          \* where main is
    readable,    \* its copy of allsock, then what is left of select()'s answer
    cur,         \* sep, the entry it looks at
    ctrl         \* and the descriptor it is about to hand over

tabVars  == <<table, bound, shut, wait, count>>
sockVars == <<allsock, nsock>>
mainVars == <<pc, readable, cur, ctrl>>
fileVars == <<config, reloads, loading, checked>>
vars == <<fileVars, tabVars, sockVars, timingout, pending, process, requests,
          mainVars>>

\* A process number nobody uses.
FreeProcess == [state |-> "free", sock |-> None, entry |-> "current"]

\* The services a file lists, and the value of se_wait it asks for.
Listed(file) == {s \in Services : file[s] # "absent"}
Mode(file, s) == IF file[s] = "wait" THEN 1 ELSE 0

\* main() before config(0).
Init ==
    /\ config \in Configs /\ reloads = 0
    /\ loading = config /\ checked = {}
    /\ table = {} /\ bound = {} /\ shut = {}
    /\ wait = [s \in Services |-> 0]
    /\ count = [s \in Services |-> 0]
    /\ allsock = {} /\ nsock = 0
    /\ timingout = FALSE
    /\ pending = {}
    /\ process = [p \in Pids |-> FreeProcess]
    /\ requests = {}
    /\ pc = "top" /\ readable = {} /\ cur = None /\ ctrl = "none"

-----------------------------------------------------------------------------
(* The loop of main().                                                     *)

\* Nothing to listen to: sigsuspend() until nsock is not 0.
Pause ==
    /\ pc = "top" /\ nsock = 0
    /\ pc' = "paused"
    /\ UNCHANGED <<fileVars, tabVars, sockVars, timingout, pending, process,
                   requests, readable, cur, ctrl>>

\* readable = allsock.  From here on a change of allsock goes unnoticed.
CopySockets ==
    /\ pc \in {"top", "paused"} /\ nsock # 0
    /\ pc' = "copied" /\ readable' = allsock
    /\ UNCHANGED <<fileVars, tabVars, sockVars, timingout, pending, process,
                   requests, cur, ctrl>>

\* select() fails with EBADF if a descriptor in the copy is not open.
ClosedInCopy == readable \ (bound \ shut)

SelectFails ==
    /\ pc = "copied" /\ ClosedInCopy # {}
    /\ pc' = "top" /\ readable' = {}
    /\ UNCHANGED <<fileVars, tabVars, sockVars, timingout, pending, process,
                   requests, cur, ctrl>>

SelectBlocks ==
    /\ pc = "copied" /\ ClosedInCopy = {} /\ readable \cap requests = {}
    /\ pc' = "selecting"
    /\ UNCHANGED <<fileVars, tabVars, sockVars, timingout, pending, process,
                   requests, readable, cur, ctrl>>

SelectReturns ==
    /\ pc \in {"copied", "selecting"} /\ ClosedInCopy = {}
    /\ readable \cap requests # {}
    /\ pc' = "scanning" /\ readable' = readable \cap requests
    /\ UNCHANGED <<fileVars, tabVars, sockVars, timingout, pending, process,
                   requests, cur, ctrl>>

\* The scan of servtab comes to a readable service.  The connection of a
\* nowait stream is accepted (if it is there: accept() blocks); any other
\* server is to be given the socket of the service itself.
Visit(s) ==
    /\ pc = "scanning" /\ ctrl = "none"
    /\ s \in readable \cap bound
    /\ cur' = s /\ readable' = readable \ {s}
    /\ \/ /\ wait[s] = 0 /\ s \in Streams /\ s \in requests
          /\ ctrl' = "connection" /\ requests' = requests \ {s}
       \/ /\ wait[s] # 0 \/ s \notin Streams
          /\ ctrl' = "socket" /\ UNCHANGED requests
    /\ UNCHANGED <<fileVars, tabVars, sockVars, timingout, pending, process, pc>>

\* The start that would exceed the limit, unless CNT_INTVL seconds have passed
\* since se_time.
LimitReached(s) == count[s] # 0 /\ count[s] + 1 >= TooMany

\* Mutant: the count is never begun again.
StartedOnly(s) == count[s] + 1

\* se_count after a start: begun again when the interval is over.
Started(s) == IF LimitReached(s) THEN 1 ELSE count[s] + 1

\* if (!sep->se_wait && sep->se_socktype == SOCK_STREAM) close (ctrl);
\* se_wait may have become 0 since the socket was not accepted from.
CloseCtrl(s) ==
    shut' = IF ctrl = "socket" /\ wait[s] = 0 /\ s \in Streams
            THEN shut \cup {s} ELSE shut

\* inetd closes its descriptors of the sockets of the services in S.  A server
\* that was given one of them keeps it.
Left(S) ==
    process' = [p \in Pids |-> IF process[p].sock \in S
                               THEN [process[p] EXCEPT !.entry = "former"]
                               ELSE process[p]]

\* The server is failing (looping): close_sep(), and the alarm.
Terminate ==
    /\ cur \in Services /\ ctrl # "none" /\ LimitReached(cur)
    /\ table' = table /\ bound' = bound \ {cur} /\ shut' = shut \ {cur}
    /\ Left({cur})
    /\ allsock' = allsock \ {cur} /\ nsock' = nsock - 1
    /\ count' = [count EXCEPT ![cur] = 0]
    /\ wait' = [wait EXCEPT ![cur] = IF @ > 1 THEN 1 ELSE @]
    /\ timingout' = TRUE
    /\ requests' = requests \ {cur}
    /\ ctrl' = "none"
    /\ UNCHANGED <<fileVars, pending, pc, readable, cur>>

ForkError ==
    /\ ForkFails
    /\ cur \in Services /\ ctrl # "none"
    /\ count' = [count EXCEPT ![cur] = Started(cur)]
    /\ CloseCtrl(cur)
    /\ ctrl' = "none"
    /\ UNCHANGED <<fileVars, table, bound, wait, sockVars, timingout, pending,
                   process, requests, pc, readable, cur>>

\* The child: it owns the connection, or holds the socket of the service and
\* still has to read the request from it.
Child == IF ctrl = "connection"
         THEN [state |-> "running", sock |-> None, entry |-> "current"]
         ELSE [state |-> "started", sock |-> cur, entry |-> "current"]

\* Mutant: FD_CLR and nsock-- forgotten.
HandOverWatched(p) ==
    /\ wait' = [wait EXCEPT ![cur] = IF @ # 0 THEN p ELSE @]
    /\ UNCHANGED <<allsock, nsock>>

\* inetd's side of a fork: the socket of a wait service is left to its server.
HandOver(p) ==
    IF wait[cur] # 0
    THEN /\ wait' = [wait EXCEPT ![cur] = p]
         /\ allsock' = allsock \ {cur} /\ nsock' = nsock - 1
    ELSE UNCHANGED <<wait, allsock, nsock>>

\* Mutant: the signals are not blocked, and the child may already have been
\* reaped when its number is stored.
ForkUnblocked(p) ==
    /\ cur \in Services /\ ctrl # "none"
    /\ process[p].state = "free"
    /\ count' = [count EXCEPT ![cur] = Started(cur)]
    /\ process' \in {process, [process EXCEPT ![p] = Child]}
    /\ HandOver(p)
    /\ CloseCtrl(cur)
    /\ ctrl' = "none"
    /\ UNCHANGED <<fileVars, table, bound, timingout, pending, requests,
                   pc, readable, cur>>

\* The section between signal_block() and signal_unblock(), with a fork().
Fork(p) ==
    /\ cur \in Services /\ ctrl # "none"
    /\ process[p].state = "free"
    /\ count' = [count EXCEPT ![cur] = Started(cur)]
    /\ process' = [process EXCEPT ![p] = Child]
    /\ HandOver(p)
    /\ CloseCtrl(cur)
    /\ ctrl' = "none"
    /\ UNCHANGED <<fileVars, table, bound, timingout, pending, requests,
                   pc, readable, cur>>

\* A handler has freed the entry the loop is looking at.  Undefined: the
\* program dies, or finds the memory as it was, forks on a closed descriptor,
\* and goes on.
UseFreed ==
    /\ pc = "scanning" /\ cur = Freed
    /\ \/ pc' = "crashed" /\ UNCHANGED <<ctrl, process>>
       \/ /\ ctrl # "none" /\ ctrl' = "none" /\ UNCHANGED pc
          /\ \E p \in Pids :
                /\ process[p].state = "free"
                /\ process' = [process EXCEPT
                                  ![p] = [state |-> "running", sock |-> None,
                                          entry |-> "current"]]
    /\ UNCHANGED <<fileVars, tabVars, sockVars, timingout, pending, requests,
                   readable, cur>>

ScanEnds ==
    /\ pc = "scanning" /\ ctrl = "none" /\ readable \cap bound = {}
    /\ pc' = "top" /\ readable' = {} /\ cur' = None
    /\ UNCHANGED <<fileVars, tabVars, sockVars, timingout, pending, process,
                   requests, ctrl>>

\* main does nothing while config() runs.
Main ==
    /\ loading = <<>>
    /\ \/ Pause \/ CopySockets
       \/ SelectFails \/ SelectBlocks \/ SelectReturns
       \/ \E s \in Services : Visit(s)
       \/ Terminate \/ ForkError \/ UseFreed
       \/ \E p \in Pids : Fork(p)
       \/ ScanEnds

-----------------------------------------------------------------------------
(* The signal handlers.                                                    *)

\* A handler that runs while select() sleeps makes it fail with EINTR, and
\* main starts over; anywhere else main goes on where it was.
Interrupted ==
    /\ pc # "crashed"
    /\ IF pc = "selecting" THEN pc' = "top" /\ readable' = {}
                            ELSE UNCHANGED <<pc, readable>>

Zombies == {p \in Pids : process[p].state = "zombie"}

\* Mutant: one child for each signal.
WaitedOnce == {{p} : p \in Zombies} \cup {Z \in {Zombies} : Z = {}}

\* wait3() in a loop: one SIGCHLD may stand for several children.
Waited == {Zombies}

\* reapchild()
Reap ==
    /\ "CHLD" \in pending /\ pending' = pending \ {"CHLD"}
    /\ \E Z \in Waited :
          LET restored == {s \in table : wait[s] \in Z}
          IN  /\ process' = [p \in Pids |-> IF p \in Z THEN FreeProcess ELSE process[p]]
              /\ wait' = [s \in Services |-> IF s \in restored THEN 1 ELSE wait[s]]
              /\ allsock' = allsock \cup restored
              /\ nsock' = nsock + Cardinality(restored)
    /\ Interrupted
    /\ UNCHANGED <<fileVars, table, bound, shut, count, timingout, requests,
                   cur, ctrl>>

\* The services whose sockets cannot be made: bind() fails, and it does so on
\* the port of a stream service as long as a former socket listens there.
\* Datagram sockets share their port, as setup() asks for SO_REUSEADDR.
Unbindable(S) ==
    LET taken == {s \in S \cap Streams :
                    \E p \in Pids : /\ process[p].state \in {"started", "running"}
                                    /\ process[p].sock = s}
    IN  IF BindFails THEN {F \in SUBSET S : taken \subseteq F} ELSE {taken}

\* retry(): setup(), which binds a socket but does not add it to allsock.
Retry ==
    /\ timingout
    /\ \E failed \in Unbindable(table \ bound) :
          /\ bound' = table \ failed
          /\ timingout' = (failed # {})
    /\ Interrupted
    /\ UNCHANGED <<fileVars, table, shut, wait, count, sockVars, pending,
                   process, requests, cur, ctrl>>

\* se_wait of an entry found again in a file: the number of a running server
\* is kept, unless the file now says nowait.
Merged(file, s) ==
    IF wait[s] = 1 \/ file[s] = "nowait" THEN Mode(file, s) ELSE wait[s]

\* Mutant: a socket is made for every entry of the file.
AlwaysToOpen(file) == Listed(file)

\* The services of a file that are bound and added to allsock: those without
\* a socket.
ToOpen(file) == Listed(file) \ bound

\* config() begins: no entry has been seen in the files.
Reload ==
    /\ "HUP" \in pending /\ pending' = pending \ {"HUP"}
    /\ loading = <<>>
    /\ loading' = config /\ checked' = {}
    /\ Interrupted
    /\ UNCHANGED <<config, reloads, tabVars, sockVars, timingout, process,
                   requests, cur, ctrl>>

\* nextconfig(): every entry of one file is merged into servtab by enter() and
\* set up by servent_setup(); then the entries not seen so far are purged, those
\* of the files still to come among them.
NextConfig ==
    /\ loading # <<>> /\ loading' = Tail(loading)
    /\ LET file == Head(loading)
           gone == table \ (checked \cup Listed(file))
       IN  /\ \E failed \in Unbindable(ToOpen(file)) :
                 /\ bound' = (bound \ gone) \cup (ToOpen(file) \ failed)
                 /\ allsock' = (allsock \ gone) \cup (ToOpen(file) \ failed)
                 /\ nsock' = nsock + Cardinality(ToOpen(file) \ failed)
                                   - Cardinality(gone \cap bound)
                 /\ timingout' = (timingout \/ failed # {})
           /\ checked' = checked \cup Listed(file)
           /\ table' = (table \ gone) \cup Listed(file)
           /\ shut' = shut \ gone
           /\ wait' = [s \in Services |->
                         IF s \notin Listed(file) THEN wait[s]
                         ELSE IF s \in table THEN Merged(file, s) ELSE Mode(file, s)]
           /\ count' = [s \in Services |-> IF s \in table \ gone THEN count[s] ELSE 0]
           /\ requests' = requests \ gone
           /\ Left(gone)
           /\ readable' = IF pc = "scanning" THEN readable \ gone ELSE readable
           /\ cur' = IF cur \in gone THEN Freed ELSE cur
    /\ UNCHANGED <<config, reloads, pending, pc, ctrl>>

-----------------------------------------------------------------------------
(* The world around inetd: clients, servers and the administrator.         *)

\* A client sends a datagram or connects to a socket that exists.
Request(s) ==
    /\ s \in bound \ requests
    /\ requests' = requests \cup {s}
    /\ UNCHANGED <<fileVars, tabVars, sockVars, timingout, pending, process,
                   mainVars>>

\* A server reads a request from the socket it was given; the first it must.
\* What comes in on a former socket is no concern of inetd.
Serve(p) ==
    /\ \/ process[p].state = "started"
       \/ /\ process[p].state = "running" /\ process[p].entry = "current"
          /\ process[p].sock \in requests
    /\ process' = [process EXCEPT ![p].state = "running"]
    /\ requests' = IF process[p].entry = "former" THEN requests
                   ELSE requests \ {process[p].sock}
    /\ UNCHANGED <<fileVars, tabVars, sockVars, timingout, pending, mainVars>>

Exit(p) ==
    /\ process[p].state = "running"
    /\ process' = [process EXCEPT ![p].state = "zombie"]
    /\ pending' = pending \cup {"CHLD"}
    /\ UNCHANGED <<fileVars, tabVars, sockVars, timingout, requests, mainVars>>

\* The administrator edits the files, or leaves them as they are, and sends
\* SIGHUP.  (config() reads the contents the files have when it begins.)
Edit(c) ==
    /\ reloads < MaxReloads
    /\ reloads' = reloads + 1 /\ config' = c
    /\ pending' = pending \cup {"HUP"}
    /\ UNCHANGED <<loading, checked, tabVars, sockVars, timingout, process, requests, mainVars>>

Next ==
    \/ Main
    \/ Reap \/ Retry \/ Reload \/ NextConfig
    \/ \E s \in Services : Request(s)
    \/ \E p \in Pids : Serve(p) \/ Exit(p)
    \/ \E c \in Configs : Edit(c)

\* inetd runs, its signals are delivered and the alarm goes off.  Nobody has to
\* send a request or edit the files.
Fairness ==
    /\ WF_vars(Main) /\ WF_vars(Reap) /\ WF_vars(Retry)
    /\ WF_vars(Reload) /\ WF_vars(NextConfig)

\* Servers read the request they were started for, and end.
ServersEnd == \A p \in Pids : WF_vars(Serve(p)) /\ WF_vars(Exit(p))

Spec == Init /\ [][Next]_vars
FairSpec == Spec /\ Fairness
LiveSpec == FairSpec /\ ServersEnd

-----------------------------------------------------------------------------
(* Properties.                                                             *)

\* The shape of the state; a start count never passes the limit, and what is
\* watched, bound or shut is in the table.
TypeOK ==
    /\ config \in Configs /\ reloads \in 0 .. MaxReloads
    /\ loading \in FileSequences
    /\ checked \subseteq Services
    /\ table \subseteq Services /\ bound \subseteq table /\ shut \subseteq bound
    /\ wait \in [Services -> {0, 1} \cup Pids]
    /\ count \in [Services -> 0 .. TooMany]
    /\ allsock \subseteq bound /\ nsock \in Int
    /\ timingout \in BOOLEAN /\ pending \subseteq {"CHLD", "HUP"}
    /\ process \in [Pids -> [state : {"free", "started", "running", "zombie"},
                             sock : Services \cup {None}, entry : {"current", "former"}]]
    /\ requests \subseteq Services
    /\ pc \in {"top", "paused", "copied", "selecting", "scanning", "crashed"}
    /\ readable \subseteq Services
    /\ cur \in Services \cup {None, Freed}
    /\ ctrl \in {"none", "connection", "socket"}

\* se_wait above 1 is the number of a process inetd has not yet reaped, which
\* was given the very socket that se_fd still is, and inetd does not watch the
\* socket meanwhile: no pid is stored too late, kept too long or left to
\* another service, or to a later entry of the same name.
HeldByServer ==
    \A s \in table :
        wait[s] > 1 => /\ process[wait[s]].state # "free"
                       /\ process[wait[s]].sock = s
                       /\ process[wait[s]].entry = "current"
                       /\ s \notin allsock

\* The servers at work on a socket of service s, and those of them on the one
\* that inetd has open too.
Servers(s) == {p \in Pids : /\ process[p].state \in {"started", "running"}
                            /\ process[p].sock = s}
Holders(s) == {p \in Servers(s) : process[p].entry = "current"}

\* A socket that is handed over is single-threaded for as long as its entry
\* stays in servtab: never two servers on it, and none while inetd itself
\* listens there, whatever is reloaded meanwhile.
SoleHolder ==
    \A s \in Services :
        /\ \A p, q \in Holders(s) : p = q
        /\ s \in allsock \ shut => Holders(s) = {}

\* nsock never counts a socket that is not watched, so the loop does not go
\* into a select() with nothing to watch: the "erroneous increment" that
\* close_sep() guards against does not happen.
NotOvercounted == nsock <= Cardinality(allsock)

\* When the server of a wait service ends, inetd watches the socket again,
\* unless the service has been removed or made nowait in the meantime; also
\* when several servers end before the one SIGCHLD that stands for all of them
\* is handled.
Restored ==
    \A s \in Services :
        (\E p \in Zombies : process[p].sock = s /\ process[p].entry = "current")
            ~> (s \in allsock \/ s \notin table \/ wait[s] = 0 \/ pc = "crashed")

\* What the manual says of a service terminated for looping: once the limit
\* is reached, it will be reenabled automatically.
Reenabled ==
    \A s \in Services : s \in table \ bound ~> s \in allsock \/ s \notin table
=============================================================================
