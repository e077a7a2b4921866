------------------------------ MODULE TftpRead ------------------------------
(***************************************************************************)
(* Reading files with tftp: the client's recvfile() (src/tftp.c), one      *)
(* tftpd process per request received on the well-known port (main, tftp   *)
(* and send_file of src/tftpd.c), and the UDP network between them.        *)
(*                                                                         *)
(* A file is a sequence of DATA blocks, of which the last one, and only    *)
(* that one, is shorter than SEGSIZE.  A block is written <<file, pos>>:   *)
(* the properties tell blocks apart, not bytes.  Both ends move their data *)
(* through the double buffer of tftpsubs.c, which is modelled in TftpBuf:  *)
(* the client acknowledges a block first and writes it afterwards          *)
(* (write_behind), and nobody looks at the result of the write.            *)
(***************************************************************************)
EXTENDS Naturals, Sequences, FiniteSets, SequencesExt

CONSTANTS
    Files,          \* names of files on the server
    FileLen,        \* [Files -> number of DATA blocks]; 0: access is refused
    Session,        \* the files the user gets, one after the other
    Reconnect,      \* every get names its host, so it opens a new socket
    Servers,        \* transfer identifiers (port numbers) of tftpd processes
    Port,           \* the well-known port, where inetd listens
    BlockMod,       \* 2^16 in the program: th_block is an unsigned short
    MaxTries,       \* maxtimeout / rexmtval: the expiry that gives up
    SavesMask,      \* does setjmp() save the signal mask?  Not on GNU/Linux
    SuppressNaks,   \* tftpd -n: no ERROR for a missing file
    ReadErrors,     \* may the server's read() of the file fail?
    DiskErrors,     \* may the client's write() of the copy fail?
    Duplicates,     \* may the network deliver a packet again?
    MaxLoss,        \* bound: packets the network loses
    TimelyTimers    \* timers expire at one pace, and never before an answer

Turns == 1 .. Len(Session)

ASSUME ReadAssumption ==
    /\ FileLen \in [Files -> Nat]
    /\ Session \in Seq(Files) /\ Session # << >>
    /\ Port \notin Servers
    /\ BlockMod \in Nat /\ BlockMod > 1
    /\ MaxTries \in Nat \ {0}
    /\ MaxLoss \in Nat
    /\ {Reconnect, SavesMask, SuppressNaks, ReadErrors, DiskErrors, Duplicates,
        TimelyTimers} \subseteq BOOLEAN

VARIABLES
    cpc,        \* "prompt": in command(); "waiting": in recvfrom();
                \* "flushing", "closing": before write_behind(), the latter
                \* after the last block
    turn,       \* number of gets issued; the current or last transfer
    sock,       \* the client's socket f, numbered by the turn that opened it
    block,      \* recvfile: number of the block expected next
    peer,       \* port of peeraddr: where the client sends
    ackbuf,     \* the packet body the client sends and sends again
    ticks,      \* timeout / rexmtval: expiries since the last progress
    masked,     \* signals that a longjmp out of their handler left blocked
    amount,     \* [Turns -> recvfile: how much has been accepted, in blocks]
    pending,    \* sequence of blocks in the client's buffer, unwritten
    dst,        \* [Turns -> the blocks written to the local file]
    given,      \* [Turns -> how many blocks write() has been called for]
    refused,    \* [Turns -> blocks whose write() failed]: both are recorded
                \* nowhere in the program, and read by the properties only
    outcome,    \* [Turns -> how the transfer ended for the user]
    spc,        \* [Servers -> state of the tftpd process]
    sfile,      \* [Servers -> the file it serves]
    sfrom,      \* [Servers -> the client socket its request came from]
    sblock,     \* [Servers -> send_file: number of the block sent last]
    sticks,     \* [Servers -> expiries since the last acknowledgement]
    toClient,   \* packets on their way to, or queued at, a client socket
    toServer,   \* packets on their way to, or queued at, a server port
    rung,       \* processes whose period has passed or been renewed, see Expire
    lost        \* how many packets the network has lost

netVars == <<cpc, turn, sock, block, peer, ackbuf, ticks, masked, outcome>>
copyVars == <<amount, pending, dst, given, refused>>
clientVars == <<netVars, copyVars>>
serverVars == <<spc, sfile, sfrom, sblock, sticks>>
vars == <<clientVars, serverVars, toClient, toServer, rung, lost>>

-----------------------------------------------------------------------------
(* Packets.                                                                *)

Outcomes == {"none", "ok", "error", "timeout", "interrupted"}

\* Mutant: the block number is not cut to 16 bits.
WireUncut(n) == n

\* htons ((unsigned short) block)
Wire(n) == n % BlockMod

Rrq(f, from) == [op |-> "RRQ", file |-> f, from |-> from]
Ack(n) == [op |-> "ACK", num |-> Wire(n)]
To(d, body) == [dst |-> d, body |-> body]

Data(s, n) == [op |-> "DATA", src |-> s, dst |-> sfrom[s], num |-> Wire(n),
               file |-> sfile[s], pos |-> n]
Error(s, to) == [op |-> "ERROR", src |-> s, dst |-> to]

Bodies == [op : {"RRQ"}, file : Files, from : Turns]
            \cup [op : {"ACK"}, num : 0 .. BlockMod - 1]
ServerPackets == [dst : Servers \cup {Port}, body : Bodies]
ClientPackets ==
    [op : {"DATA"}, src : Servers, dst : Turns, num : 0 .. BlockMod - 1,
     file : Files, pos : Nat]
      \cup [op : {"ERROR"}, src : Servers, dst : Turns]

\* A received packet leaves the network, unless the network repeats it.
Received(chan, m) == {chan \ {m}} \cup (IF Duplicates THEN {chan} ELSE {})

\* synchnet(): whatever has arrived by now is read and thrown away.
Flushed(chan, arrived) == {chan \ gone : gone \in SUBSET arrived}

-----------------------------------------------------------------------------
Init ==
    /\ cpc = "prompt"
    /\ turn = 0
    /\ sock = 1
    /\ block = 1
    /\ peer = Port
    /\ ackbuf = Ack(0)
    /\ ticks = 0
    /\ masked = {}
    /\ amount = [t \in Turns |-> 0]
    /\ pending = << >>
    /\ dst = [t \in Turns |-> << >>]
    /\ given = [t \in Turns |-> 0]
    /\ refused = [t \in Turns |-> {}]
    /\ outcome = [t \in Turns |-> "none"]
    /\ spc = [s \in Servers |-> "free"]
    /\ sfile = [s \in Servers |-> CHOOSE f \in Files : TRUE]
    /\ sfrom = [s \in Servers |-> 1]
    /\ sblock = [s \in Servers |-> 1]
    /\ sticks = [s \in Servers |-> 0]
    /\ toClient = {}
    /\ toServer = {}
    /\ rung = {}
    /\ lost = 0

-----------------------------------------------------------------------------
(* Alarms.  Every process waits rexmtval seconds for a packet.  Without     *)
(* TimelyTimers an alarm may go off at any time, however late the answer.   *)
(* With it the network is faster than the alarms, and since all periods are *)
(* equal no alarm goes off twice before every other has, or was set anew.   *)

Client == "client"

Inbox == {m \in toClient : m.dst = sock}

Waiting == {s \in Servers : spc[s] = "waiting"}
             \cup (IF cpc = "waiting" THEN {Client} ELSE {})

Quiet ==
    /\ cpc = "waiting" => Inbox = {}
    /\ cpc \notin {"flushing", "closing"}
    /\ \A p \in toServer : p.dst # Port /\ spc[p.dst] # "waiting"

Expire(x) ==
    IF TimelyTimers
    THEN /\ Quiet
         /\ \/ x \notin rung /\ rung' = rung \cup {x}
            \/ Waiting \subseteq rung /\ rung' = {x}
    ELSE UNCHANGED rung

Rearm(x) == rung' = IF TimelyTimers THEN rung \cup {x} ELSE rung

\* Mutant: every transmission, and not only a new one, sets timeout to 0.
CountedFromZero(t) == 1

\* timeout += rexmtval
Counted(t) == t + 1

\* Mutant: off by one.
GivesUpEarly(t) == t + 1 >= MaxTries

\* timeout >= maxtimeout
GivesUp(t) == t >= MaxTries

-----------------------------------------------------------------------------
(* The client: get() and recvfile().                                       *)

ClientSend(d, body) == toServer' = toServer \cup {To(d, body)}

\* get: resolve_name() opens a new socket when the command names the host;
\* set_port() back to the well-known port; recvfile() empties the buffers
\* (w_init), makes the request in ackbuf and sends it.
StartGet ==
    /\ cpc = "prompt" /\ turn < Len(Session)
    /\ cpc' = "waiting"
    /\ turn' = turn + 1
    /\ sock' = IF Reconnect THEN turn + 1 ELSE sock
    /\ block' = 1
    /\ peer' = Port
    /\ ackbuf' = Rrq(Session[turn + 1], sock')
    /\ ticks' = 0
    /\ ClientSend(Port, ackbuf')
    /\ pending' = << >>
    /\ Rearm(Client)
    /\ UNCHANGED <<masked, outcome, amount, dst, given, refused, serverVars,
                   toClient, lost>>

Prompt(how) ==
    /\ cpc' = "prompt"
    /\ outcome' = [outcome EXCEPT ![turn] = how]

\* Mutant: a block that was accepted before is accepted again.
WantedOrEarlier(m) == m.num <= block

\* dp->th_block == block
Wanted(m) == m.num = block

\* Mutant: the block before the short one counts as short.
FullButOne(m) == m.pos + 1 < FileLen[m.file]

\* size == SEGSIZE
Full(m) == m.pos < FileLen[m.file]

\* writeit(): the block stays in the buffer, and amount counts it.
Queue(m) ==
    /\ pending' = Append(pending, <<m.file, m.pos>>)
    /\ amount' = [amount EXCEPT ![turn] = @ + 1]
    /\ UNCHANGED <<dst, given, refused>>

\* The expected block, and a full one: the next turn of the loop acknowledges
\* it, and has yet to write it.
ClientAcceptFull(m) ==
    /\ cpc = "waiting" /\ m \in Inbox
    /\ m.op = "DATA" /\ Wanted(m) /\ Full(m)
    /\ peer' = m.src
    /\ Queue(m)
    /\ block' = block + 1
    /\ ackbuf' = Ack(block)
    /\ ticks' = 0
    /\ ClientSend(m.src, ackbuf')
    /\ cpc' = "flushing"
    /\ toClient' \in Received(toClient, m)
    /\ UNCHANGED <<turn, sock, masked, outcome, serverVars, rung, lost>>

\* The expected block, and a short one: the loop ends and falls through to
\* the acknowledgement after the label abort.
ClientAcceptLast(m) ==
    /\ cpc = "waiting" /\ m \in Inbox
    /\ m.op = "DATA" /\ Wanted(m) /\ ~Full(m)
    /\ peer' = m.src
    /\ Queue(m)
    /\ ackbuf' = Ack(block)
    /\ ClientSend(m.src, ackbuf')
    /\ cpc' = "closing"
    /\ toClient' \in Received(toClient, m)
    /\ UNCHANGED <<turn, sock, block, ticks, masked, outcome, serverVars, rung, lost>>

\* write_behind(): the buffer is free again whether or not write() worked.
WriteBehind ==
    /\ pending' = Tail(pending)
    /\ given' = [given EXCEPT ![turn] = @ + 1]
    /\ \/ /\ dst' = [dst EXCEPT ![turn] = Append(@, Head(pending))]
          /\ UNCHANGED refused
       \/ /\ DiskErrors
          /\ refused' = [refused EXCEPT ![turn] = @ \cup {Head(pending)}]
          /\ UNCHANGED dst
    /\ UNCHANGED amount

\* After the acknowledgement: the block is written, and the alarm set.
ClientFlush ==
    /\ cpc = "flushing"
    /\ WriteBehind
    /\ cpc' = "waiting"
    /\ Rearm(Client)
    /\ UNCHANGED <<turn, sock, block, peer, ackbuf, ticks, masked, outcome,
                   serverVars, toClient, toServer, lost>>

\* After the last one: the block is written, and the file closed.
ClientClose ==
    /\ cpc = "closing"
    /\ WriteBehind
    /\ Prompt("ok")
    /\ UNCHANGED <<turn, sock, block, peer, ackbuf, ticks, masked, serverVars,
                   toClient, toServer, rung, lost>>

\* Any other block number: resynchronise, and answer the previous block by
\* sending the contents of ackbuf again, to whoever sent the block.
ClientResync(m) ==
    /\ cpc = "waiting" /\ m \in Inbox
    /\ m.op = "DATA" /\ ~Wanted(m)
    /\ peer' = m.src
    /\ \E rest \in Received(toClient, m) :
          toClient' \in Flushed(rest, rest \cap Inbox)
    /\ IF m.num + 1 = block
       THEN ClientSend(m.src, ackbuf)
       ELSE UNCHANGED toServer
    /\ Rearm(Client)
    /\ UNCHANGED <<cpc, turn, sock, block, ackbuf, ticks, masked, outcome,
                   copyVars, serverVars, lost>>

\* ERROR: goto abort, where the block that never came is acknowledged; there
\* is nothing left to write.
ClientError(m) ==
    /\ cpc = "waiting" /\ m \in Inbox
    /\ m.op = "ERROR"
    /\ peer' = m.src
    /\ ackbuf' = Ack(block)
    /\ ClientSend(m.src, ackbuf')
    /\ Prompt("error")
    /\ toClient' \in Received(toClient, m)
    /\ UNCHANGED <<turn, sock, block, ticks, masked, copyVars, serverVars, rung, lost>>

\* A handler left through longjmp(): its signal stays blocked unless setjmp()
\* saved the mask that longjmp() then restores.
JumpedOutOf(sig) == IF SavesMask THEN masked ELSE masked \cup {sig}

\* SIGALRM: timer() sends the packet again through longjmp(timeoutbuf), or
\* gives the transfer up through longjmp(toplevel).  A packet that recvfrom()
\* has just returned, before alarm(0), is lost with the jump.
ClientTimeout ==
    /\ cpc = "waiting" /\ "ALRM" \notin masked /\ Expire(Client)
    /\ masked' = JumpedOutOf("ALRM")
    /\ ticks' = Counted(ticks)
    /\ \/ UNCHANGED toClient
       \/ \E m \in Inbox : toClient' = toClient \ {m}
    /\ IF GivesUp(ticks')
       THEN Prompt("timeout") /\ UNCHANGED toServer
       ELSE ClientSend(peer, ackbuf) /\ UNCHANGED <<cpc, outcome>>
    /\ UNCHANGED <<turn, sock, block, peer, ackbuf, copyVars, serverVars, lost>>

\* SIGINT: intr() cancels the alarm and jumps back to the prompt, and what is
\* in the buffer is never written.
ClientInterrupt ==
    /\ cpc # "prompt" /\ "INT" \notin masked
    /\ masked' = JumpedOutOf("INT")
    /\ Prompt("interrupted")
    /\ UNCHANGED <<turn, sock, block, peer, ackbuf, ticks, copyVars,
                   serverVars, toClient, toServer, rung, lost>>

-----------------------------------------------------------------------------
(* tftpd: one process per request, on a port of its own.                   *)

ServerSend(m) == toClient' = toClient \cup {m}

\* Access is also refused to a file whose reading may fail: it may be gone.
AccessFails(f) == FileLen[f] = 0 \/ ReadErrors

\* main() takes a request from the well-known port and forks; the child
\* binds a port of its own, validate_access() opens the file or is refused,
\* and send_file() sends block 1.  With -n nothing is said of a file that
\* does not exist.
ServerStart(s, p) ==
    /\ spc[s] = "free"
    /\ p \in toServer /\ p.dst = Port /\ p.body.op = "RRQ"
    /\ sfile' = [sfile EXCEPT ![s] = p.body.file]
    /\ sfrom' = [sfrom EXCEPT ![s] = p.body.from]
    /\ \/ /\ FileLen[p.body.file] > 0
          /\ spc' = [spc EXCEPT ![s] = "waiting"]
          /\ sblock' = [sblock EXCEPT ![s] = 1]
          /\ ServerSend([op |-> "DATA", src |-> s, dst |-> p.body.from,
                         num |-> Wire(1), file |-> p.body.file, pos |-> 1])
       \/ /\ AccessFails(p.body.file)
          /\ spc' = [spc EXCEPT ![s] = "failed"]
          /\ ServerSend(Error(s, p.body.from))
          /\ UNCHANGED sblock
       \/ /\ AccessFails(p.body.file) /\ SuppressNaks
          /\ spc' = [spc EXCEPT ![s] = "failed"]
          /\ UNCHANGED <<sblock, toClient>>
    /\ sticks' = [sticks EXCEPT ![s] = 0]
    /\ toServer' \in Received(toServer, p)
    /\ Rearm(s)
    /\ UNCHANGED <<clientVars, lost>>

\* Packets that recv() can return to process s.
ServerInbox(s) == {p \in toServer : p.dst = s}

\* Mutant: the acknowledgement of the previous block will do.
AcknowledgesOrPrevious(s, p) == p.body.num \in {Wire(sblock[s]), Wire(sblock[s] - 1)}

\* ap->th_block == block
Acknowledges(s, p) == p.body.num = Wire(sblock[s])

\* The acknowledgement of the block sent last, which was the short one.
ServerFinish(s, p) ==
    /\ spc[s] = "waiting" /\ p \in ServerInbox(s)
    /\ p.body.op = "ACK" /\ Acknowledges(s, p)
    /\ sblock[s] = FileLen[sfile[s]]
    /\ spc' = [spc EXCEPT ![s] = "done"]
    /\ toServer' \in Received(toServer, p)
    /\ UNCHANGED <<clientVars, sfile, sfrom, sblock, sticks, toClient, rung, lost>>

\* The acknowledgement of the block sent last, a full one: read and send the
\* next block, or report the read error and exit.
ServerAdvance(s, p) ==
    /\ spc[s] = "waiting" /\ p \in ServerInbox(s)
    /\ p.body.op = "ACK" /\ Acknowledges(s, p)
    /\ sblock[s] < FileLen[sfile[s]]
    /\ \/ /\ sblock' = [sblock EXCEPT ![s] = @ + 1]
          /\ sticks' = [sticks EXCEPT ![s] = 0]
          /\ ServerSend(Data(s, sblock[s] + 1))
          /\ UNCHANGED spc
       \/ /\ ReadErrors
          /\ spc' = [spc EXCEPT ![s] = "failed"]
          /\ ServerSend(Error(s, sfrom[s]))
          /\ UNCHANGED <<sblock, sticks>>
    /\ toServer' \in Received(toServer, p)
    /\ Rearm(s)
    /\ UNCHANGED <<clientVars, sfile, sfrom, lost>>

\* Another acknowledgement: resynchronise, and send the block again if the
\* previous one is being acknowledged again.
ServerResync(s, p) ==
    /\ spc[s] = "waiting" /\ p \in ServerInbox(s)
    /\ p.body.op = "ACK" /\ ~Acknowledges(s, p)
    /\ \E rest \in Received(toServer, p) :
          toServer' \in Flushed(rest, rest \cap ServerInbox(s))
    /\ IF p.body.num = Wire(sblock[s] - 1)
       THEN ServerSend(Data(s, sblock[s]))
       ELSE UNCHANGED toClient
    /\ Rearm(s)
    /\ UNCHANGED <<clientVars, serverVars, lost>>

\* Anything else, such as a request sent again to this port: the loop goes on.
ServerIgnore(s, p) ==
    /\ spc[s] = "waiting" /\ p \in ServerInbox(s)
    /\ p.body.op = "RRQ"
    /\ toServer' \in Received(toServer, p)
    /\ Rearm(s)
    /\ UNCHANGED <<clientVars, serverVars, toClient, lost>>

\* SIGALRM: send the block again, or exit.  sigsetjmp() saved the mask.
ServerTimeout(s) ==
    /\ spc[s] = "waiting" /\ Expire(s)
    /\ sticks' = [sticks EXCEPT ![s] = Counted(@)]
    /\ \/ UNCHANGED toServer
       \/ \E p \in ServerInbox(s) : toServer' = toServer \ {p}
    /\ IF GivesUp(sticks'[s])
       THEN spc' = [spc EXCEPT ![s] = "expired"] /\ UNCHANGED toClient
       ELSE ServerSend(Data(s, sblock[s])) /\ UNCHANGED spc
    /\ UNCHANGED <<clientVars, sfile, sfrom, sblock, lost>>

-----------------------------------------------------------------------------
(* The network.                                                            *)

Lose ==
    /\ lost < MaxLoss
    /\ lost' = lost + 1
    /\ \/ \E m \in toClient : toClient' = toClient \ {m} /\ UNCHANGED toServer
       \/ \E p \in toServer : toServer' = toServer \ {p} /\ UNCHANGED toClient
    /\ UNCHANGED <<clientVars, serverVars, rung>>

ClientReceive ==
    \E m \in toClient : \/ ClientAcceptFull(m) \/ ClientAcceptLast(m)
                        \/ ClientResync(m)     \/ ClientError(m)

ClientWrite == ClientFlush \/ ClientClose

Listen == \E s \in Servers, p \in toServer : ServerStart(s, p)

ServerReceive(s) ==
    \E p \in toServer : \/ ServerFinish(s, p) \/ ServerAdvance(s, p)
                        \/ ServerResync(s, p) \/ ServerIgnore(s, p)

Next ==
    \/ StartGet \/ ClientReceive \/ ClientWrite
    \/ ClientTimeout \/ ClientInterrupt
    \/ Listen
    \/ \E s \in Servers : ServerReceive(s) \/ ServerTimeout(s)
    \/ Lose

Spec == Init /\ [][Next]_vars

\* A process that can read a packet reads one sooner or later, an armed
\* alarm goes off sooner or later, and inetd starts the server of a request.
Fairness ==
    /\ WF_vars(ClientReceive) /\ WF_vars(ClientWrite) /\ WF_vars(ClientTimeout)
    /\ WF_vars(Listen)
    /\ \A s \in Servers : WF_vars(ServerReceive(s)) /\ WF_vars(ServerTimeout(s))

FairSpec == Spec /\ Fairness
-----------------------------------------------------------------------------
(* Properties.                                                             *)

Content(f) == [i \in 1 .. FileLen[f] |-> <<f, i>>]

\* The types, with what they say of the code: timeout never passes maxtimeout
\* (timer gives up first), and every number in a packet fits its 16 bits.
TypeOK ==
    /\ cpc \in {"prompt", "waiting", "flushing", "closing"}
    /\ turn \in 0 .. Len(Session)
    /\ sock \in Turns
    /\ block \in Nat \ {0}
    /\ peer \in Servers \cup {Port}
    /\ ackbuf \in Bodies
    /\ ticks \in 0 .. MaxTries
    /\ masked \subseteq {"ALRM", "INT"}
    /\ amount \in [Turns -> Nat]
    /\ pending \in Seq(Files \X Nat)
    /\ dst \in [Turns -> Seq(Files \X Nat)]
    /\ given \in [Turns -> Nat]
    /\ refused \in [Turns -> SUBSET (Files \X Nat)]
    /\ outcome \in [Turns -> Outcomes]
    /\ spc \in [Servers -> {"free", "waiting", "done", "failed", "expired"}]
    /\ sfile \in [Servers -> Files]
    /\ sfrom \in [Servers -> Turns]
    /\ sblock \in [Servers -> Nat \ {0}]
    /\ sticks \in [Servers -> 0 .. MaxTries]
    /\ toClient \subseteq ClientPackets
    /\ toServer \subseteq ServerPackets
    /\ rung \subseteq Servers \cup {Client}
    /\ lost \in 0 .. MaxLoss

Blocks(f, n) == {<<f, i>> : i \in 1 .. n}

\* What is stored, d, are the first n blocks of file f in their order, once
\* each, without those that the disk refused.
FirstBlocks(d, missing, f, n) ==
    /\ missing \subseteq Blocks(f, n)
    /\ Range(d) = Blocks(f, n) \ missing
    /\ \A i, j \in DOMAIN d : i < j => d[i][2] < d[j][2]

\* The local file is made of the first blocks of the file asked for, in their
\* order and once each, whatever the network loses, repeats, reorders and
\* delays and however many servers answer one request (recvfile's test of
\* th_block).  A write() that fails takes its own block away and no other.
Integrity ==
    \A t \in Turns :
        /\ given[t] <= amount[t] /\ amount[t] <= FileLen[Session[t]]
        /\ FirstBlocks(dst[t], refused[t], Session[t], given[t])

\* A get that ends with the short block has given the whole file to write(),
\* the last block too.  If the disk refused a block the user is told of
\* success all the same: nobody looks at the result of write_behind().
OkMeansComplete ==
    \A t \in Turns : outcome[t] = "ok" =>
        FirstBlocks(dst[t], refused[t], Session[t], FileLen[Session[t]])

\* tftpd's exit after the acknowledgement of its last block is not a guess:
\* the client that asked has every block.  All are stored, if the disk took
\* them, but for the last one when the client is still between its
\* acknowledgement and write_behind(), or was interrupted there.
DoneMeansReceived ==
    \A s \in Servers : spc[s] = "done" =>
        LET t == sfrom[s]
            f == sfile[s] IN
        /\ amount[t] = FileLen[f]
        /\ \/ FirstBlocks(dst[t], refused[t], f, FileLen[f])
           \/ /\ outcome[t] = "interrupted" \/ (t = turn /\ cpc = "closing")
              /\ FirstBlocks(dst[t], refused[t], f, FileLen[f] - 1)

\* The protocol is lock-step: no server is ever more than one block ahead of
\* what its client has accepted, so a 16-bit number cannot be ambiguous.
LockStep ==
    \A s \in Servers : spc[s] # "free" => sblock[s] <= amount[sfrom[s]] + 1

Status(t) ==
    IF t > turn THEN "idle"
    ELSE IF outcome[t] = "none" THEN "running"
    ELSE IF outcome[t] = "ok" THEN "ok" ELSE "failed"

\* The files asked for, in the order of the session.
Asked == [t \in Turns |-> Content(Session[t])]

Promise == INSTANCE FileTransfer
               WITH Jobs <- Turns,
                    Source <- Asked,
                    copy <- dst,
                    given <- given,
                    missing <- refused,
                    status <- [t \in Turns |-> Status(t)]

\* Both ends and the network together implement FileTransfer: the next block
\* of the remote file is given to the local disk or none is, and "ok" is said
\* when the last one has been, not when it has been acknowledged.
KeepsPromise == Promise!Spec

\* A get command returns to the prompt (recvfile's loops, timer and intr), and
\* every tftpd process exits (send_file's loops and timer).  Without SavesMask
\* that holds as long as a session meets one loss: see TftpWrite!Terminates.
Terminates ==
    /\ cpc # "prompt" ~> cpc = "prompt"
    /\ \A s \in Servers : spc[s] = "waiting" ~> spc[s] # "waiting"

\* Retransmission does its work: when fewer packets are lost than the timers
\* have tries, and no timer is premature, every get brings its whole file,
\* unless the server has refused it.
Delivered ==
    \A t \in Turns :
        turn = t /\ FileLen[Session[t]] > 0 ~> outcome[t] \in {"ok", "interrupted"}
=============================================================================
