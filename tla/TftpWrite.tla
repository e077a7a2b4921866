----------------------------- MODULE TftpWrite ------------------------------
(***************************************************************************)
(* Writing files with tftp: the client's send_file() (src/tftp.c), one     *)
(* tftpd process per write request (main, tftp, validate_access and        *)
(* recvfile of src/tftpd.c), the disk they write to, and the network.      *)
(*                                                                         *)
(* Files, blocks, sockets, ports, timers and the network are those of      *)
(* TftpRead.  What is new is the server's side of the double buffer: a     *)
(* block is acknowledged first and written afterwards (write_behind), so a *)
(* server that dies in between has acknowledged a block it never stored.   *)
(***************************************************************************)
EXTENDS Naturals, Sequences, FiniteSets, SequencesExt

CONSTANTS
    Files,          \* names of files, the same on both sides
    FileLen,        \* [Files -> number of DATA blocks of the local file]
    Writable,       \* remote files that exist and are writable by others
    Session,        \* the files the user puts, one after the other
    Servers,        \* transfer identifiers (port numbers) of tftpd processes
    Port,           \* the well-known port, where inetd listens
    BlockMod,       \* 2^16 in the program
    MaxTries,       \* maxtimeout / rexmtval
    SavesMask,      \* does setjmp() save the signal mask?  Not on GNU/Linux
    ReadErrors,     \* may the client's read() of the local file fail?
    DiskErrors,     \* may the server's write() fail?
    Kills,          \* may a tftpd process be killed?
    Duplicates,     \* may the network deliver a packet again?
    MaxLoss,        \* bound: packets the network loses
    TimelyTimers    \* timers expire at one pace, and never before an answer

Turns == 1 .. Len(Session)

ASSUME WriteAssumption ==
    /\ FileLen \in [Files -> Nat \ {0}]
    /\ Writable \subseteq Files
    /\ Session \in Seq(Files) /\ Session # << >>
    /\ Port \notin Servers
    /\ BlockMod \in Nat /\ BlockMod > 1
    /\ MaxTries \in Nat \ {0}
    /\ MaxLoss \in Nat
    /\ {SavesMask, ReadErrors, DiskErrors, Kills, Duplicates, TimelyTimers}
         \subseteq BOOLEAN

VARIABLES
    cpc,        \* "prompt": in command(); "waiting": in recvfrom()
    turn,       \* number of puts issued; each one names its host
    block,      \* send_file: number of the block sent last; 0: the request
    peer,       \* port of peeraddr: where the client sends
    ticks,      \* timeout / rexmtval: expiries since the last progress
    masked,     \* signals that a longjmp out of their handler left blocked
    outcome,    \* [Turns -> how the transfer ended for the user]
    spc,        \* [Servers -> state of the tftpd process]
    sfile,      \* [Servers -> the file it writes]
    sfrom,      \* [Servers -> the client socket its request came from]
    sblock,     \* [Servers -> recvfile: number of the block expected next]
    sticks,     \* [Servers -> expiries since the last new block]
    pending,    \* [Servers -> sequence of blocks in the buffer, unwritten]
    offset,     \* [Servers -> blocks written through its file descriptor]
    disk,       \* [Files -> what the remote file holds]
    failed,     \* [Files -> blocks whose write() failed]: recorded nowhere in
                \* the program, and read by the properties only
    toClient,   \* packets on their way to, or queued at, a client socket
    toServer,   \* packets on their way to, or queued at, a server port
    rung,       \* processes whose period has passed or been renewed
    lost        \* how many packets the network has lost

clientVars == <<cpc, turn, block, peer, ticks, masked, outcome>>
procVars == <<spc, sfile, sfrom, sblock, sticks>>
diskVars == <<pending, offset, disk, failed>>
serverVars == <<procVars, diskVars>>
vars == <<clientVars, serverVars, toClient, toServer, rung, lost>>

-----------------------------------------------------------------------------
(* Packets.                                                                *)

\* htons ((unsigned short) block)
Wire(n) == n % BlockMod

Wrq(f, from) == [op |-> "WRQ", file |-> f, from |-> from]
Data(f, n) == [op |-> "DATA", num |-> Wire(n), file |-> f, pos |-> n]
ErrorBody == [op |-> "ERROR"]
To(d, body) == [dst |-> d, body |-> body]

Ack(s, n) == [op |-> "ACK", src |-> s, dst |-> sfrom[s], num |-> Wire(n)]
Error(s, to) == [op |-> "ERROR", src |-> s, dst |-> to]

Bodies == [op : {"WRQ"}, file : Files, from : Turns]
            \cup [op : {"DATA"}, num : 0 .. BlockMod - 1, file : Files, pos : Nat]
            \cup {ErrorBody}
ServerPackets == [dst : Servers \cup {Port}, body : Bodies]
ClientPackets ==
    [op : {"ACK"}, src : Servers, dst : Turns, num : 0 .. BlockMod - 1]
      \cup [op : {"ERROR"}, src : Servers, dst : Turns]

Received(chan, m) == {chan \ {m}} \cup (IF Duplicates THEN {chan} ELSE {})

\* synchnet()
Flushed(chan, arrived) == {chan \ gone : gone \in SUBSET arrived}

-----------------------------------------------------------------------------
(* The remote file.                                                        *)

Block(f, n) == <<f, n>>
Content(f) == [i \in 1 .. FileLen[f] |-> Block(f, i)]

Hole == << >>

\* write() of one block through a descriptor that has written o blocks: the
\* bytes between the end of the file and the offset, if any, read as zeros.
WriteAt(old, o, blk) ==
    [i \in 1 .. (IF o < Len(old) THEN Len(old) ELSE o + 1) |->
        IF i = o + 1 THEN blk ELSE IF i <= Len(old) THEN old[i] ELSE Hole]

-----------------------------------------------------------------------------
Init ==
    /\ cpc = "prompt"
    /\ turn = 0
    /\ block = 0
    /\ peer = Port
    /\ ticks = 0
    /\ masked = {}
    /\ outcome = [t \in Turns |-> "none"]
    /\ spc = [s \in Servers |-> "free"]
    /\ sfile = [s \in Servers |-> CHOOSE f \in Files : TRUE]
    /\ sfrom = [s \in Servers |-> 1]
    /\ sblock = [s \in Servers |-> 0]
    /\ sticks = [s \in Servers |-> 0]
    /\ pending = [s \in Servers |-> << >>]
    /\ offset = [s \in Servers |-> 0]
    /\ disk = [f \in Files |-> << >>]
    /\ failed = [f \in Files |-> {}]
    /\ toClient = {}
    /\ toServer = {}
    /\ rung = {}
    /\ lost = 0

-----------------------------------------------------------------------------
(* Alarms, as in TftpRead.                                                 *)

Client == "client"

Inbox == {m \in toClient : m.dst = turn}

Receiving == {s \in Servers : spc[s] \in {"waiting", "dallying"}}
Busy == {s \in Servers : spc[s] \in {"flushing", "closing"}}
Waiting == Receiving \cup (IF cpc = "waiting" THEN {Client} ELSE {})

Quiet ==
    /\ cpc = "waiting" => Inbox = {}
    /\ \A p \in toServer : p.dst # Port /\ p.dst \notin Receiving
    /\ Busy = {}

Expire(x) ==
    IF TimelyTimers
    THEN /\ Quiet
         /\ \/ x \notin rung /\ rung' = rung \cup {x}
            \/ Waiting \subseteq rung /\ rung' = {x}
    ELSE UNCHANGED rung

Rearm(x) == rung' = IF TimelyTimers THEN rung \cup {x} ELSE rung

\* Mutant: every transmission, and not only a new one, sets timeout to 0.
CountedFromZero(t) == 1

\* timeout += rexmtval
Counted(t) == t + 1

\* Mutant: off by one.
GivesUpEarly(t) == t + 1 >= MaxTries

\* Mutant: off by one the other way.
GivesUpLate(t) == t > MaxTries

\* timeout >= maxtimeout
GivesUp(t) == t >= MaxTries

-----------------------------------------------------------------------------
(* The client: put() and send_file().                                      *)

ClientSend(d, body) == toServer' = toServer \cup {To(d, body)}

\* The packet that the client sends, and sends again: the request, or the
\* block it has read into the buffer.
Current == IF block = 0 THEN Wrq(Session[turn], turn) ELSE Data(Session[turn], block)

Prompt(how) ==
    /\ cpc' = "prompt"
    /\ outcome' = [outcome EXCEPT ![turn] = how]

StartPut ==
    /\ cpc = "prompt" /\ turn < Len(Session)
    /\ cpc' = "waiting"
    /\ turn' = turn + 1
    /\ block' = 0
    /\ peer' = Port
    /\ ticks' = 0
    /\ ClientSend(Port, Wrq(Session[turn + 1], turn + 1))
    /\ Rearm(Client)
    /\ UNCHANGED <<masked, outcome, serverVars, toClient, lost>>

\* The acknowledgement of the packet sent last, and there is more to send:
\* readit() the next block and send it, or report the read error.
ClientAdvance(m) ==
    /\ cpc = "waiting" /\ m \in Inbox
    /\ m.op = "ACK" /\ m.num = block
    /\ block < FileLen[Session[turn]]
    /\ peer' = m.src
    /\ \/ /\ block' = block + 1
          /\ ticks' = 0
          /\ ClientSend(m.src, Data(Session[turn], block + 1))
          /\ UNCHANGED <<cpc, outcome>>
       \/ /\ ReadErrors
          /\ ClientSend(m.src, ErrorBody)
          /\ Prompt("error")
          /\ UNCHANGED <<block, ticks>>
    /\ toClient' \in Received(toClient, m)
    /\ Rearm(Client)
    /\ UNCHANGED <<turn, masked, serverVars, lost>>

\* The acknowledgement of the short block: the file has been sent.
ClientFinish(m) ==
    /\ cpc = "waiting" /\ m \in Inbox
    /\ m.op = "ACK" /\ m.num = block
    /\ block = FileLen[Session[turn]]
    /\ peer' = m.src
    /\ Prompt("ok")
    /\ toClient' \in Received(toClient, m)
    /\ UNCHANGED <<turn, block, ticks, masked, serverVars, toServer, rung, lost>>

\* Another acknowledgement: resynchronise, and send the block again, to
\* whoever asked for it, if the previous one is being acknowledged again.
ClientResync(m) ==
    /\ cpc = "waiting" /\ m \in Inbox
    /\ m.op = "ACK" /\ m.num # block
    /\ peer' = m.src
    /\ \E rest \in Received(toClient, m) :
          toClient' \in Flushed(rest, rest \cap Inbox)
    /\ IF m.num + 1 = block
       THEN ClientSend(m.src, Current)
       ELSE UNCHANGED toServer
    /\ Rearm(Client)
    /\ UNCHANGED <<cpc, turn, block, ticks, masked, outcome, serverVars, lost>>

ClientError(m) ==
    /\ cpc = "waiting" /\ m \in Inbox
    /\ m.op = "ERROR"
    /\ peer' = m.src
    /\ Prompt("error")
    /\ toClient' \in Received(toClient, m)
    /\ UNCHANGED <<turn, block, ticks, masked, serverVars, toServer, rung, lost>>

JumpedOutOf(sig) == IF SavesMask THEN masked ELSE masked \cup {sig}

\* SIGALRM, also between the return of recvfrom() and alarm(0).
ClientTimeout ==
    /\ cpc = "waiting" /\ "ALRM" \notin masked /\ Expire(Client)
    /\ masked' = JumpedOutOf("ALRM")
    /\ ticks' = Counted(ticks)
    /\ \/ UNCHANGED toClient
       \/ \E m \in Inbox : toClient' = toClient \ {m}
    /\ IF GivesUp(ticks')
       THEN Prompt("timeout") /\ UNCHANGED toServer
       ELSE ClientSend(peer, Current) /\ UNCHANGED <<cpc, outcome>>
    /\ UNCHANGED <<turn, block, peer, serverVars, lost>>

ClientInterrupt ==
    /\ cpc = "waiting" /\ "INT" \notin masked
    /\ masked' = JumpedOutOf("INT")
    /\ Prompt("interrupted")
    /\ UNCHANGED <<turn, block, peer, ticks, serverVars, toClient, toServer,
                   rung, lost>>

-----------------------------------------------------------------------------
(* tftpd: recvfile().                                                      *)

ServerSend(m) == toClient' = toClient \cup {m}

\* main() takes a request from the well-known port and forks; the child
\* binds a port, and validate_access() opens the file, which truncates it,
\* or refuses.  recvfile() acknowledges block 0 and waits for block 1.
ServerStart(s, p) ==
    /\ spc[s] = "free"
    /\ p \in toServer /\ p.dst = Port /\ p.body.op = "WRQ"
    /\ sfile' = [sfile EXCEPT ![s] = p.body.file]
    /\ sfrom' = [sfrom EXCEPT ![s] = p.body.from]
    /\ \/ /\ p.body.file \in Writable
          /\ spc' = [spc EXCEPT ![s] = "waiting"]
          /\ disk' = [disk EXCEPT ![p.body.file] = << >>]
          /\ failed' = [failed EXCEPT ![p.body.file] = {}]
          /\ ServerSend([op |-> "ACK", src |-> s, dst |-> p.body.from, num |-> 0])
       \/ /\ p.body.file \notin Writable
          /\ spc' = [spc EXCEPT ![s] = "failed"]
          /\ ServerSend(Error(s, p.body.from))
          /\ UNCHANGED <<disk, failed>>
    /\ sblock' = [sblock EXCEPT ![s] = 1]
    /\ sticks' = [sticks EXCEPT ![s] = 0]
    /\ toServer' \in Received(toServer, p)
    /\ Rearm(s)
    /\ UNCHANGED <<clientVars, pending, offset, lost>>

\* Packets that recv() can return to process s.  There is never a request
\* among them: the client answers to a port other than the well-known one
\* only after the acknowledgement of its request.
ServerInbox(s) == {p \in toServer : p.dst = s}

\* Mutant: a block that was accepted before is accepted again.
WantedOrEarlier(s, p) == p.body.num <= sblock[s]

\* dp->th_block == block
Wanted(s, p) == p.body.num = sblock[s]

\* The expected block, and a full one: writeit() queues it in the buffer,
\* the next turn of the loop acknowledges it and has yet to write it.
ServerAcceptFull(s, p) ==
    /\ spc[s] = "waiting" /\ p \in ServerInbox(s)
    /\ p.body.op = "DATA" /\ Wanted(s, p)
    /\ p.body.pos < FileLen[p.body.file]
    /\ pending' = [pending EXCEPT ![s] = Append(@, Block(p.body.file, p.body.pos))]
    /\ sblock' = [sblock EXCEPT ![s] = @ + 1]
    /\ sticks' = [sticks EXCEPT ![s] = 0]
    /\ ServerSend(Ack(s, sblock[s]))
    /\ spc' = [spc EXCEPT ![s] = "flushing"]
    /\ toServer' \in Received(toServer, p)
    /\ Rearm(s)
    /\ UNCHANGED <<clientVars, sfile, sfrom, offset, disk, failed, lost>>

\* The expected block, and a short one: the loop ends.
ServerAcceptLast(s, p) ==
    /\ spc[s] = "waiting" /\ p \in ServerInbox(s)
    /\ p.body.op = "DATA" /\ Wanted(s, p)
    /\ p.body.pos >= FileLen[p.body.file]
    /\ pending' = [pending EXCEPT ![s] = Append(@, Block(p.body.file, p.body.pos))]
    /\ spc' = [spc EXCEPT ![s] = "closing"]
    /\ toServer' \in Received(toServer, p)
    /\ Rearm(s)
    /\ UNCHANGED <<clientVars, sfile, sfrom, sblock, sticks, offset, disk,
                   failed, toClient, lost>>

\* Mutant: no write_behind() after the acknowledgement, only before fclose().
WriteBehindAtClose(s) ==
    IF spc[s] = "flushing" THEN UNCHANGED diskVars
    ELSE /\ pending' = [pending EXCEPT ![s] = << >>]
         /\ disk' = [disk EXCEPT ![sfile[s]] = pending[s]]
         /\ offset' = [offset EXCEPT ![s] = Len(pending[s])]
         /\ UNCHANGED failed

\* Mutant: no write_behind() before fclose().
WriteBehindNotAtClose(s) ==
    /\ pending' = [pending EXCEPT ![s] = Tail(@)]
    /\ IF spc[s] = "closing" THEN UNCHANGED <<disk, offset>>
       ELSE /\ disk' = [disk EXCEPT ![sfile[s]] = WriteAt(@, offset[s], Head(pending[s]))]
            /\ offset' = [offset EXCEPT ![s] = @ + 1]
    /\ UNCHANGED failed

\* write_behind(): the buffer is free again whether or not write() worked,
\* for no caller looks at the result.
WriteBehind(s) ==
    /\ pending' = [pending EXCEPT ![s] = Tail(@)]
    /\ \/ /\ disk' = [disk EXCEPT ![sfile[s]] = WriteAt(@, offset[s], Head(pending[s]))]
          /\ offset' = [offset EXCEPT ![s] = @ + 1]
          /\ UNCHANGED failed
       \/ /\ DiskErrors
          /\ failed' = [failed EXCEPT ![sfile[s]] = @ \cup {Head(pending[s])}]
          /\ UNCHANGED <<disk, offset>>

ServerFlush(s) ==
    /\ spc[s] = "flushing"
    /\ WriteBehind(s)
    /\ spc' = [spc EXCEPT ![s] = "waiting"]
    /\ UNCHANGED <<clientVars, sfile, sfrom, sblock, sticks, toClient, toServer,
                   rung, lost>>

\* write_behind(), fclose(), and only then the last acknowledgement.
ServerClose(s) ==
    /\ spc[s] = "closing"
    /\ WriteBehind(s)
    /\ ServerSend(Ack(s, sblock[s]))
    /\ spc' = [spc EXCEPT ![s] = "dallying"]
    /\ Rearm(s)
    /\ UNCHANGED <<clientVars, sfile, sfrom, sblock, sticks, toServer, lost>>

\* The number in the packet header that dp points to once the last block has
\* been handed to writeit(): that of the other buffer, where the block before
\* the last one was received.  A file of one block leaves it untouched.
DpBlock(s) == IF sblock[s] = 1 THEN {} ELSE {Wire(sblock[s] - 1)}

\* The answer to the last acknowledgement is read into buf, but its type and
\* number are looked for in dp.  Whatever they are, the process then exits.
ServerDally(s, p) ==
    /\ spc[s] = "dallying" /\ p \in ServerInbox(s)
    /\ IF sblock[s] \in DpBlock(s)
       THEN ServerSend(Ack(s, sblock[s]))
       ELSE UNCHANGED toClient
    /\ spc' = [spc EXCEPT ![s] = "done"]
    /\ toServer' \in Received(toServer, p)
    /\ UNCHANGED <<clientVars, sfile, sfrom, sblock, sticks, diskVars, rung, lost>>

\* Another block: resynchronise, and acknowledge the previous one again.
ServerResync(s, p) ==
    /\ spc[s] = "waiting" /\ p \in ServerInbox(s)
    /\ p.body.op = "DATA" /\ ~Wanted(s, p)
    /\ \E rest \in Received(toServer, p) :
          toServer' \in Flushed(rest, rest \cap ServerInbox(s))
    /\ IF p.body.num + 1 = sblock[s]
       THEN ServerSend(Ack(s, sblock[s] - 1))
       ELSE UNCHANGED toClient
    /\ Rearm(s)
    /\ UNCHANGED <<clientVars, serverVars, lost>>

ServerError(s, p) ==
    /\ spc[s] = "waiting" /\ p \in ServerInbox(s)
    /\ p.body.op = "ERROR"
    /\ spc' = [spc EXCEPT ![s] = "failed"]
    /\ toServer' \in Received(toServer, p)
    /\ UNCHANGED <<clientVars, sfile, sfrom, sblock, sticks, diskVars, toClient,
                   rung, lost>>

\* SIGALRM: timer() acknowledges again or exits; justquit() exits.
ServerTimeout(s) ==
    /\ spc[s] = "waiting" /\ Expire(s)
    /\ sticks' = [sticks EXCEPT ![s] = Counted(@)]
    /\ \/ UNCHANGED toServer
       \/ \E p \in ServerInbox(s) : toServer' = toServer \ {p}
    /\ IF GivesUp(sticks'[s])
       THEN spc' = [spc EXCEPT ![s] = "expired"] /\ UNCHANGED toClient
       ELSE ServerSend(Ack(s, sblock[s] - 1)) /\ UNCHANGED spc
    /\ UNCHANGED <<clientVars, sfile, sfrom, sblock, diskVars, lost>>

ServerQuit(s) ==
    /\ spc[s] = "dallying" /\ Expire(s)
    /\ spc' = [spc EXCEPT ![s] = "done"]
    /\ UNCHANGED <<clientVars, sfile, sfrom, sblock, sticks, diskVars, toClient,
                   toServer, lost>>

\* The process dies, and the block in its buffer with it.
ServerKill(s) ==
    /\ Kills /\ s \in Receiving \cup Busy
    /\ spc' = [spc EXCEPT ![s] = "killed"]
    /\ pending' = [pending EXCEPT ![s] = << >>]
    /\ UNCHANGED <<clientVars, sfile, sfrom, sblock, sticks, offset, disk,
                   failed, toClient, toServer, rung, lost>>

-----------------------------------------------------------------------------
Lose ==
    /\ lost < MaxLoss
    /\ lost' = lost + 1
    /\ \/ \E m \in toClient : toClient' = toClient \ {m} /\ UNCHANGED toServer
       \/ \E p \in toServer : toServer' = toServer \ {p} /\ UNCHANGED toClient
    /\ UNCHANGED <<clientVars, serverVars, rung>>

ClientReceive ==
    \E m \in toClient : \/ ClientAdvance(m) \/ ClientFinish(m)
                        \/ ClientResync(m)  \/ ClientError(m)

Listen == \E s \in Servers, p \in toServer : ServerStart(s, p)

ServerReceive(s) ==
    \E p \in toServer : \/ ServerAcceptFull(s, p) \/ ServerAcceptLast(s, p)
                        \/ ServerResync(s, p)     \/ ServerError(s, p)
                        \/ ServerDally(s, p)

ServerWrite(s) == ServerFlush(s) \/ ServerClose(s)

ServerAlarm(s) == ServerTimeout(s) \/ ServerQuit(s)

Next ==
    \/ StartPut \/ ClientReceive \/ ClientTimeout \/ ClientInterrupt
    \/ Listen
    \/ \E s \in Servers : \/ ServerReceive(s) \/ ServerWrite(s)
                         \/ ServerAlarm(s)   \/ ServerKill(s)
    \/ Lose

Spec == Init /\ [][Next]_vars

Fairness ==
    /\ WF_vars(ClientReceive) /\ WF_vars(ClientTimeout) /\ WF_vars(Listen)
    /\ \A s \in Servers : /\ WF_vars(ServerReceive(s)) /\ WF_vars(ServerWrite(s))
                          /\ WF_vars(ServerAlarm(s))

FairSpec == Spec /\ Fairness

-----------------------------------------------------------------------------
(* Properties.                                                             *)

\* The types, with what they say of the code: timeout never passes maxtimeout
\* (timer gives up first), and every number in a packet fits its 16 bits.
TypeOK ==
    /\ cpc \in {"prompt", "waiting"}
    /\ turn \in 0 .. Len(Session)
    /\ block \in Nat
    /\ peer \in Servers \cup {Port}
    /\ ticks \in 0 .. MaxTries
    /\ masked \subseteq {"ALRM", "INT"}
    /\ outcome \in [Turns -> {"none", "ok", "error", "timeout", "interrupted"}]
    /\ spc \in [Servers -> {"free", "waiting", "flushing", "closing", "dallying",
                            "done", "failed", "expired", "killed"}]
    /\ sfile \in [Servers -> Files]
    /\ sfrom \in [Servers -> Turns]
    /\ sblock \in [Servers -> Nat]
    /\ sticks \in [Servers -> 0 .. MaxTries]
    /\ pending \in [Servers -> Seq(Files \X Nat)]
    /\ offset \in [Servers -> Nat]
    /\ disk \in [Files -> Seq((Files \X Nat) \cup {Hole})]
    /\ failed \in [Files -> SUBSET (Files \X Nat)]
    /\ toClient \subseteq ClientPackets
    /\ toServer \subseteq ServerPackets
    /\ rung \subseteq Servers \cup {Client}
    /\ lost \in 0 .. MaxLoss

Blocks(f, n) == {Block(f, i) : i \in 1 .. n}

\* What is stored, d, are the first n blocks of file f in their order, once
\* each, without those that the disk refused.
FirstBlocks(d, refused, f, n) ==
    /\ refused \subseteq Blocks(f, n)
    /\ Range(d) = Blocks(f, n) \ refused
    /\ \A i, j \in DOMAIN d : i < j => d[i][2] < d[j][2]

\* The remote file is at all times a prefix of the local one: blocks reach
\* the disk in order, once each, whatever the network repeats or delays and
\* whenever tftpd dies.  A write() that fails takes its own block away (no
\* caller of write_behind() would know) and no other.
Integrity ==
    \A f \in Files : \E n \in 0 .. FileLen[f] :
        FirstBlocks(disk[f], failed[f], f, n)

\* A put that ended with the acknowledgement of the short block has left the
\* whole file on the server's disk: write_behind() and fclose() precede the
\* last acknowledgement, so not even the death of tftpd can undo it.
OkMeansStored ==
    \A t \in Turns : outcome[t] = "ok" =>
        LET f == Session[t] IN FirstBlocks(disk[f], failed[f], f, FileLen[f])

\* At most one acknowledged block has not been given to write(), and only
\* while tftpd is between its acknowledgement and write_behind(): that is all
\* a crash can take away from what the client believes to be stored.
OneBlockBehind ==
    \A s \in Servers :
        spc[s] \in {"waiting", "flushing", "closing", "dallying"} =>
            /\ Len(pending[s]) <= 1
            /\ spc[s] \in {"waiting", "dallying"} => pending[s] = << >>
            /\ cpc = "waiting" /\ turn = sfrom[s] =>
                  block <= offset[s] + Cardinality(failed[sfile[s]])
                             + Len(pending[s]) + 1

Status(t) ==
    IF t > turn THEN "idle"
    ELSE IF outcome[t] = "none" THEN "running"
    ELSE IF outcome[t] = "ok" THEN "ok" ELSE "failed"

Promise == INSTANCE FileTransfer
               WITH Jobs <- Turns,
                    Source <- [t \in Turns |-> Content(Session[t])],
                    copy <- [t \in Turns |-> disk[Session[t]]],
                    given <- [t \in Turns |-> Len(disk[Session[t]])],
                    missing <- [t \in Turns |-> {}],
                    status <- [t \in Turns |-> Status(t)]

\* Both ends, a disk that works and the network implement FileTransfer: the
\* remote file grows by the next block of the local one or not at all, and
\* "ok" is said of complete copies only.
KeepsPromise == Promise!Spec

\* As documented ("timeout: set the total transmission timeout",
\* doc/inetutils.texi:2951): a put command returns to the prompt, whatever is
\* lost (send_file's loops, timer and intr).
Terminates == cpc = "waiting" ~> cpc = "prompt"

\* Every tftpd process exits, also one whose client has gone or was diverted
\* to another (recvfile's loops, timer and justquit).
ServersExit == \A s \in Servers : s \in Receiving ~> s \notin Receiving \cup Busy

\* Retransmission does its work: when fewer packets are lost than the timers
\* have tries, and no timer is premature, the file gets to the server's disk,
\* also where the user is never told so for the last acknowledgement is lost.
Stored ==
    \A t \in Turns :
        turn = t /\ Session[t] \in Writable ~>
            disk[Session[t]] = Content(Session[t]) \/ outcome[t] = "interrupted"
=============================================================================
