# TLA+ models of ki_build_prerequisites

The repository bundles the GNU packages that a build needs: bash 4.3.30, grep
2.24, GRUB 2.00, inetutils 1.9.4, libiconv 1.14, libtool 2.4.6, makedepend
1.0.2, MPC 1.0.3, MPFR 3.1.4, nano 2.5.3, tar 1.28, termutils 2.0 and wget
1.17.1. They are independent programs that share no state. Most of them are
sequential; the ones whose correctness hangs on the order of events are the
network programs of inetutils and the kernel of GRUB. Modelled here are the
TFTP client and server, inetd, talk and talkd, telnet's option negotiation, and
GRUB's memory manager with the disk cache on top of it. Paths below are relative
to `src/inetutils-1.9.4/` unless they begin with `src/<package>`; GRUB's are
relative to `src/grub-2.00/grub-core/`.

| Module | What it is |
| --- | --- |
| `FileTransfer` | what a file transfer promises, without any protocol |
| `TftpRead` | `tftp get`: client, one tftpd process per request, network; implements `FileTransfer` |
| `TftpWrite` | `tftp put`: the same with the server's disk; implements `FileTransfer` |
| `TftpBuf` | the double buffer and the netascii conversion both ends share |
| `Inetd` | the super-server: main loop, signal handlers, servers, edits of the configuration |
| `Talk` | the users' talk processes, the daemon of each machine, datagrams, the connection |
| `OptionHalf` | what telnet and telnetd keep of one option in one direction, as operators |
| `TelnetOption` | that machine at both ends of a connection |
| `GrubMm` | GRUB's allocator, as operators from heap to heap |
| `GrubDisk` | the disk cache and `grub_disk_read` and `_write` on top of it, with nested drivers and other users of the heap |
| `MCTftpRead`, `MCTftpWrite`, `MCTftpBuf`, `MCInetd`, `MCTalk`, `MCGrubDisk` | instances for TLC |
| `TftpReadProofs`, `TftpWriteProofs`, `TftpBufProofs`, `InetdProofs`, `TalkProofs`, `TelnetOptionProofs`, `GrubProofs` | inductive invariants, refinements and theorems |
| `Induction` | induction over numbers and sequences, and what `FlattenSeq` computes, as lemmas |

To run: `tlc -config read_session.cfg MCTftpRead.tla` (and so on, see the table
of runs), `tlapm TftpReadProofs.tla` (and so on).

## 1. Inventory

### TFTP (modelled)

*State.* Both ends keep the number of the block at hand, the packet sent last
(`ackbuf`, or the current buffer), the port they send to, a timeout that grows by
`rexmtval` with every alarm, and two `SEGSIZE` buffers of which one may be ahead
of, or behind, the file (`libinetutils/tftpsubs.c`).

*Operations.* `get` and `recvfile()`, `put` and `send_file()` in `src/tftp.c`;
`main()`, `tftp()`, `validate_access()`, `send_file()`, `recvfile()` in
`src/tftpd.c`; `readit`, `read_ahead`, `writeit`, `write_behind`, `synchnet`.

*Interaction.* UDP packets. inetd, or `main()` of tftpd itself, starts one process
for each request that arrives, each on a port of its own, so a request sent twice
has two servers. The client answers to whichever port sent the last packet.

*What is hard.* Packets come late, twice, out of order or never; an alarm may go
off while the answer is already there, and leaves its handler with `longjmp()`;
the block number has 16 bits; a block is acknowledged before it is written, by either
end, and nobody looks at the result of the write; a server may die in between; two
servers may write one file.

*Correct means.* The copy is a prefix of the source at all times, but for blocks that the
disk refuses; success is reported only when the last block has been written; neither end
runs more than a block ahead; every command returns and every server exits; what can be
delivered is delivered.

### inetd (modelled)

*State.* `servtab`, with a descriptor, `se_wait` (0: nowait, 1: wait, more: the
process waited for) and a start count per service; `allsock` and `nsock`; the alarm.

*Operations.* The loop of `main()`, the handlers `reapchild()`, `config()` and
`retry()`, and `setup`, `servent_setup`, `close_sep`, `enter` beneath them.

*Interaction.* With servers, through `fork()`, an inherited socket and SIGCHLD; with
the administrator, through the configuration files and SIGHUP; with clients, through sockets.

*What is hard.* The handlers run in the middle of the loop, with blocked signals only
around `fork()`; a reload may change or free the entry that main is working on, and purges
once for each file it reads; the server of a removed entry keeps its socket; signals do not
queue.

*Correct means.* The socket inetd has open for a wait service never has two readers; every child is
reaped; a service whose server has ended is listened to again.

### talk and talkd (modelled, but for access lists)

*State.* Per machine a table of invitations with numbers and the daemon's
`current_id`; per talk process the step it has reached, `msg.id_num`, `local_id`,
`remote_id`, its sockets.

*Operations.* LOOK_UP, LEAVE_INVITE, ANNOUNCE and DELETE in `talkd/process.c` and
`table.c`; `check_local`, `announce_invite`, `re_invite`, `send_delete` and the
repeating `ctl_transact` in `talk/`; the alarm that rings again; SIGINT.

*Interaction.* Datagrams between a client and either daemon, a TCP connection between
clients.

*What is hard.* Requests are repeated and answered twice; a user may run several talks;
invitations of dead processes stay; numbers are all a DELETE names; two users call each
other at once; a daemon that has been idle forgets everything.

*Correct means.* An invitation that waits can be found, by its own party, once; the
ends of a conversation talk to each other; what was left in the tables is taken away.

### telnet and telnetd: options (modelled, one option and direction)

*State.* Per option and direction: `my_state`, `my_want_state`, the requests not
answered yet (`do_dont_resp`, `will_wont_resp`).

*Operations.* `send_do`, `send_dont`, `send_will`, `send_wont`; `willoption`,
`wontoption`, `dooption`, `dontoption`: the same in `telnet/telnet.c` and
`telnetd/state.c`.

*What is hard.* Both ends ask at once, perhaps for what they would refuse themselves; an answer
and a request look the same; a refusal is never confirmed.

*Correct means.* The exchange ends, with both ends of one mind and no answer outstanding; a
request that nothing crosses is granted unless it is refused.

### GRUB memory manager and disk cache (modelled, for disks of 512-byte sectors)

*State.* Regions of cells with block headers and a ring of free blocks
(`kern/mm.c`); a table of cached blocks with locks (`kern/disk.c`); `grub_errno`.

*Operations.* `grub_mm_init_region`, `grub_malloc`, `grub_memalign`, `grub_realloc`,
`grub_free`; the cache's fetch, unlock, store, invalidate; `grub_disk_read` with
`grub_disk_read_small`; `grub_disk_write`.

*Interaction.* The allocator empties the cache when memory is short, also in the middle
of a read; the driver of a cryptodisk or a loopback calls `grub_disk_read` again.

*What is hard.* Joining freed blocks at both ends of the ring; cutting aligned blocks;
error paths that free or forget a buffer; entries evicted or replaced by a nested call.

*Correct means.* Blocks lie side by side, each with one owner; memory is refused only
when there is none; a read that succeeds returns what is on the disk.

### Not modelled

`PROJECT.json` gives the reason for every one of them. Those with state worth
modelling:

| Component | State | Operations | What is hard | Properties |
| --- | --- | --- | --- | --- |
| ftp, ftpd | control and data connection, `transflag` | transfer, ABOR, SIGURG | abort through `longjmp` while replies are due | replies stay in step with commands |
| syslogd | last message and repeat count per file | message, SIGALRM, SIGHUP | a flush between two messages | no message lost, counts add up |
| bash jobs (`src/bash-4.3.30/jobs.c`) | jobs, process pipelines, last pid | fork, waitchld, wait_for, notify | SIGCHLD between a fork and its registration, pids used again | a status is reported once, to the right job |
| bash traps (`trap.c`, `sig.c`) | pending traps, handler in use | trap, signal, run_pending_traps | a trap set or unset while it runs | every signal trapped is run, none twice |
| GRUB `net/tcp.c` | sequence numbers, unacknowledged and reassembly queues | send, receive, retransmit | wrap, overlap, loss | the bytes in order, once each |
| nano undo (`text.c`) | undo list, `current_undo` | add, update, undo, redo | updates that merge with the action before | undo restores the text, redo undoes it |
| tar (`extract.c`) | delayed attributes and links | extract, apply | directories made unwritable too early | every attribute is applied, once, last |
| wget (`http.c`, `retr.c`) | one persistent connection, retries | connect, reuse, invalidate | a connection closed while idle | a response belongs to its request |
| libltdl (`ltdl.c`) | handles, `ref_count`, dependencies | open, close, exit | shared dependencies, resident modules | nothing is unloaded in use |

Parsers, interpreters, converters, drivers, arithmetic and generated code (the rest of
bash and GRUB, grep, libiconv, MPC, MPFR, makedepend, termutils, gnulib, the remaining
inetutils) are sequential functions of their input, or too large for a finite instance.

## 2. Plan

Done: `FileTransfer`, `TftpRead`, `TftpWrite`, `TftpBuf` and `Inetd` first, with the
invariants of `TftpRead` and `Inetd` as theorems; then `Talk`, `OptionHalf` and
`TelnetOption`, `GrubMm` and `GrubDisk`, with the invariants of `TelnetOption` and
`TftpWrite` as theorems; then the refinements of `FileTransfer` and all of `TftpBuf`
and `Talk` as theorems; and last those of `GrubMm` and `GrubDisk`. Every invariant that a
passing run checks is now a theorem too.

What would come next, in this order:

1. *`TftpWrite` with two tftpd processes on one file*: what a request sent twice leaves
   on the disk, beyond what a timely network excludes.
2. *inetd*: handlers that interrupt one another in the middle of a file, a service turned
   from wait to nowait while its server runs.
3. *`NanoUndo`* against an abstract pair of stacks; *`BashJobs`*, *`WgetPconn`*,
   *`LtdlCounts`*.

Bounds: as here, the smallest in which two of everything meet, with runs of at most a
few minutes.

## 3. How the modules correspond to the code

### `TftpRead` and `TftpWrite`

One client with a user's session of commands, a set of possible tftpd processes, and
two sets of packets: those addressed to client sockets and those to server ports. A
packet in a set may be received in any order and, with `Duplicates`, any number of
times; `Lose` takes one away. A file is the sequence of its DATA blocks, the last one
short: what the properties tell apart is which block of which file a packet carries.

| Code | Action |
| --- | --- |
| `get`, head of `recvfile()` (tftp.c) | `StartGet` |
| `recvfile()` (tftp.c): expected block, full or short; other block; ERROR | `ClientAcceptFull`, `ClientAcceptLast`; `ClientResync`; `ClientError` |
| `write_behind()` after the acknowledgement, `fclose()` | `ClientFlush`, `ClientClose` |
| `put`, `send_file()` (tftp.c): acknowledgement of the block, of the last one; other; ERROR | `StartPut`; `ClientAdvance`, `ClientFinish`; `ClientResync`; `ClientError` |
| `timer()`, `intr()` (tftp.c) | `ClientTimeout`, `ClientInterrupt` |
| `main()` of tftpd: fork and port; `tftp()`, `validate_access()` | `ServerStart` |
| `send_file()` (tftpd.c) | `ServerFinish`, `ServerAdvance`, `ServerResync`, `ServerIgnore` |
| `recvfile()` (tftpd.c) | `ServerAcceptFull`, `ServerFlush`; `ServerAcceptLast`, `ServerClose`, `ServerDally`; `ServerResync`, `ServerError` |
| `timer()`, `justquit()` (tftpd.c) | `ServerTimeout`, `ServerQuit` |
| death of a tftpd process | `ServerKill` |

Between two calls of `recvfrom()` a process does nothing that another could observe,
except for what the two `recvfile()` do on either side of the acknowledgement. In `tftp.c`
the acknowledgement comes first, of the last block too, and `write_behind()` after it; so
`ClientAcceptFull` and `ClientAcceptLast` leave the block in the buffer (`pending`) and
`ClientFlush` and `ClientClose` write it, with an interrupt possible in between. tftpd does the
same with a full block (`ServerFlush`), but writes and closes before it acknowledges a short one
(`ServerClose`). With `DiskErrors` a write may fail, and nobody notices: `refused` (in `TftpWrite`,
`failed`) keeps for the properties which blocks the disk did not take. A short `write()` counts as
refused. `synchnet()` throws away
what has arrived by then: any subset (`Flushed`). An alarm may also fire after
`recvfrom()` has returned, and the packet is then lost with the jump.

`SavesMask` says whether `setjmp()` saves the signal mask. POSIX leaves that open; glibc's
does not, so on GNU/Linux SIGALRM stays blocked in the client (`masked`) once `timer()` has
been left through `longjmp()`, and SIGINT likewise after `intr()`. Every run takes
`SavesMask = FALSE`; the theorems hold for both. tftpd uses `sigsetjmp()` with a mask and is not
affected. `Reconnect` says whether each get names its host and so opens a new socket.

### `TftpBuf`

The sender's and the receiver's `bfs`, `nextone`, `current`, `newline` and `prevchar`,
with every call in the order of the loops, and a channel reduced to what the other two
modules show of it. `TftpRead` and `TftpWrite` use its result: what a process sends again
is what it sent before, and what it accepts reaches the file in order.

### `Inetd`

`pc` is where `main()` is. The steps `CopySockets`, `SelectFails`, `SelectBlocks`,
`SelectReturns` and `Visit` are apart because a handler may run between any two of them;
what is done between `signal_block()` and `signal_unblock()` (the start count, `fork()`,
`se_wait`, `FD_CLR`) is one step: `Terminate`, `ForkError` or `Fork`. The handlers `Reap`
and `Retry` are single steps, and `config()` is one for each file. In the code a handler
blocks only its own signal, so another may interrupt it outside the sections of `enter()`
and of the purge that block all three. `config()` reads `/etc/inetd.conf` and the files of
`/etc/inetd.d`, and calls `nextconfig()` for each: `Reload` begins (`loading`), and each
`NextConfig` enters and sets up the services of one file and then purges what no file has
named so far (`checked`), the entries of the files still to come among it. `main()` does
nothing meanwhile, but `Reap` and `Retry` may run between two files; section 8 says what is
not represented. `Init` is the state before `config(0)`, so a run begins with the first
reading of the files. A server that was given a socket keeps it when inetd closes its own
descriptor, because the entry was purged or terminated: `entry` becomes "former" (`Left`).
As long as it lives, the `bind()` of a stream service of that port fails (`Unbindable`),
while a datagram socket may be bound once more (SO_REUSEADDR); so an entry that comes back
may have a server while a former one is still at work, on another socket. `Request`,
`Serve`, `Exit` and `Edit` are the world around inetd. When `config()` frees the entry that
the scan is working on (`cur = Freed`), the behaviour is undefined: `UseFreed` lets inetd
die, or fork once more and go on.

### `Talk`

`pc` is the request a process waits to have answered (`lookup`, `clear`, `announce`,
`leave`, `dellocal`, `delremote`) or what it does between two of them (`connect`,
`accept`, `accepted`, `talking`). `ctl_transact` is split where the code may wait:
`Begin` sends, `Resend` and `Repeat` send again, `Ignore` drops a response of another
type, and one action per step takes the answer (`LookedUp`, `Cleared`, `Announced`,
`Left`, `Deleted`). A daemon handles one datagram at a time (`Handle`), or exits idle
(`IdleExit`) and forgets its table. A user may start a
talk while another talk of his is running (`Start`), so two callees may be in one accept queue.
`Ring` is the alarm that announces again;
`Interrupt` is the alarm that interrupts `ctl_transact`'s `select()`, after which the
process only listens (`deaf`). On Linux the `longjmp()` that leaves `re_invite` keeps SIGALRM blocked:
`MaskKept`.

### `OptionHalf` and `TelnetOption`

`Ask` is `send_do (c, 1)` and its sisters, `Receive` the four handlers; TRUE is WILL or
DO. One end performs the option, the other lets it; both programs keep the same three
fields and run the same code on them, so one machine stands for both. Either
end may ask at any time, also for what it would refuse if it were asked: telnetd does (`DO
ECHO`, `telnetd/telnetd.c:551`), and so may the user of telnet (`send do`, `send will`). What it agrees
to is chosen each time (`Receive(e, agree)`), since it depends on the option and on the
moment. `refused`, `overtaken` and `lone` are history, read by the properties only.

### `GrubMm` and `GrubDisk`

A heap is a record: the regions in the order of `grub_mm_base`, the first free block of
each, a header per cell. `InitRegion`, `RealMalloc` (`Search`, then `Cut`) and `Free`
(`Spot`, then `Linked`) are the C functions on it. `GrubDisk` has one thread; `stack`
holds the calls of the disk layer that wait for a driver, with their buffers and what
they have read. `DriverRead` and `DriverWrite` are disks proper, which may fail;
`DriverReadsBelow` and `DriverWritesBelow` are drivers that call the disk layer again.
`Malloc`, `FreeUser` and `Realloc` are other code, also that of a driver in the middle
of a read. The data of a block is a bit, toggled by every write. `errno` is
`grub_errno`: `grub_disk_read` returns it, whoever set it. The loops over the blocks of a
run and over the entries of the cache (`FetchedAll`, `StoreAll`, `InvalidatedAll`,
`InvalidateAll`) and the searches round the ring (`Search`, `Spot`) are recursive functions:
a proof can unfold them.

### `FileTransfer`

Each job gives its source to a file block by block; the disk takes a block or refuses it
(`missing`), and the status says "ok" only when all have been given. Both TFTP modules implement
it: the local (or remote) file is `copy`, the calls of `write()` are `given`, the outcome is
`status`, and everything else is hidden.

## 4. Runs

| Run | What it asks | Bounds | States |
| --- | --- | --- | --- |
| `read_session` | Is the copy always right but for refused blocks, never called complete too early by either end, with servers at most one block ahead? | files of 1 and 3 blocks, a socket each, 2 servers, numbers modulo 3; repeats, reordering, premature alarms, read and write errors, interrupts | 1,113,200 |
| `read_live` | Does every get end, every server exit, and the file arrive? Does the whole implement `FileTransfer`? | a refused get, then a file of 3 blocks; 4 servers, 1 loss, 2 tries, write errors | 21,867 |
| `write_crash` | Is the remote file right up to failed writes, success only for what is stored, and at most one acknowledged block unwritten? | 1 file of 3 blocks, 1 server that may be killed, failing `write()` and `read()`, repeats, premature alarms | 232,811 |
| `write_live` | Does the file of every put get stored, and every server exit? Does the whole implement `FileTransfer`? | refused put, then 3 blocks; 4 servers, 1 loss, 2 tries | 7,007 |
| `write_hangs` | violation of `Terminates`: finding 1 | 1 put of 2 blocks, 1 loss, 3 tries | |
| `buffer` | Do the netascii and octet conversions and the double buffer give back the file, whatever is sent or received again? | all files of up to 4 of CR, LF, NUL and another character; blocks of 2 | 24,196 |
| `inetd` | Has a socket one holder, is every server reaped, is its socket watched again? | a datagram and a stream service, in one file or two, removed, added again, made nowait; 2 edits, 2 processes, limit 2, failing `bind()` and `fork()` | 375,144 |
| `inetd_reenable` | violation of `Reenabled`: finding 2 | one configuration, limit 3 | |
| `talk` | Can every invitation that waits be found, by its party and once? Do the two ends talk to each other, are the tables left tidy, does nobody delete another's invitation? | 3 processes of 2 users on 2 machines, 1 fault (loss, needless repetition, alarm, kill, refusal, idle exit); repetitions after a loss | 1,698,785 |
| `telnet_option` | Does the exchange end, with both ends of one mind, no answer forgotten and no request swallowed? | 5 requests of each end | 24,330 |
| `telnet_refusal` | violation of `NoDisagreement`: finding 3 | 1 request of each end | |
| `grub_disk` | Is the heap sound, every block owned once, memory refused only when there is none? Is what a read returns what is on the disk? | regions of 6 and 3 cells; 3 blocks, one on another disk, one at the end of its disk, a run of two; 2 cache entries; 1 block of other code at a time | 489,806 |

*Why the bounds are enough to be interesting.* In `read_session` the first file is complete
after one block, and the second has as many blocks as there are numbers, so its last number
wraps to 0 and the get stalls, as one of 65536 blocks does. An alarm gives up at once there;
sending a packet again is then what the network does, and the `_live` runs count the tries.
Two servers are what it takes for a request sent twice to have two transfers at once. Four
servers are as many as requests can be sent in the `_live` runs (two commands, two tries
each), so no request goes unserved for want of a model value; that also bounds inetd's
forks. With `MaxLoss < MaxTries` a retry can always succeed, which is the condition of
`Delivered` and `Stored`. A segment of two characters lets an expansion to two characters
fall on every side of a block boundary. In `inetd` two edits are needed to remove an entry
and enter it again (with its old server still running), or to go from wait to nowait and
back, while its server runs. `Pids` is a bound of the model only: `Fork` waits when none is
free. In `talk` two processes of one user show old invitations beside new ones, and the
fault is a loss with the repetition that follows, a late repetition, or a kill and a call
afterwards. Two talks of one user may run at once and answer the same invitation. In
`telnet_option` five requests let several be on their way each way; the theorems need no
bound. In `grub_disk` a cached block takes three cells, so a full cache and a request do not
fit at a time and the allocator has to evict; both small regions can be full, split and
joined at either end; two blocks share a cache entry, and one of them lies on the disk of
the other entry's block.

`read_session` is symmetric in the servers; runs with liveness properties use no symmetry.
`CHECK_DEADLOCK FALSE` is given everywhere: a session ends when its commands are used up,
and an inetd without services waits for a SIGHUP that no longer comes when the edits are
used up.

Every property of a passing run has been seen to fail for a plausible mistake in the
code: `PROJECT.json` lists the mutations (a block accepted again, the retry count never
reaching its limit, a last `write_behind()` left out, a signal left unblocked around `fork()`,
one `wait3()` per SIGCHLD, ...). They are the definitions marked `Mutant` in the modules,
and nothing else refers to them.

## 5. Fairness

*TFTP.* A process that can read a packet eventually does, an armed alarm eventually goes
off, inetd starts a server for a request that stays (`Fairness`). The network and the user
are under no obligation; nor are `ServerKill` or `ClientInterrupt`.
With `TimelyTimers` (the runs with liveness) two more things are assumed: an alarm never
goes off while a packet is on its way to a process that would read it, and all
alarms have the same period, so none goes off twice before every other has (`Expire`, with
`rung` for the processes whose period is already used up). Both are what the default
`rexmtval` of 5 seconds on both sides gives on a network faster than that. Without the first the code
does not deliver (that is what timeouts are), and without the second one end gives up while the
other has hardly begun, which no run of the programs with equal timers can do. Safety is
checked without either.

*inetd.* `main()` goes on, pending signals are handled, the alarm goes off. `LiveSpec` adds
that servers read the request they were started for and end; only the violated
property needs it. No client and no administrator has to do anything.

*telnet.* An end reads what has arrived (`Receive`): TCP delivers, and both programs
poll the connection. No end has to ask for anything.

`Talk` and `GrubDisk` state safety only. A talk process may wait for a user for ever;
GRUB runs in one thread, which only the firmware could stop.

## 6. Proofs

All theorems are for every value of the constants that satisfies the named assumptions.

`TftpReadProofs` (no bound on files, blocks, servers, losses, repeats):

- `TypeCorrect`: `TypeOK`. It needs `ticks < MaxTries` while a process waits (`TypeInv`).
- `ReadIntegrity`, `ReadComplete`, `DoneIsReceived`, `ReadLockStep`: the invariants of
  `read_session`, with a local disk that may refuse any block, under the hypothesis
  `Reconnect` (every get names its host and so has a socket of its own; without it
  `Integrity` is false, section 7).

The invariants are not inductive: none of them speaks of packets. `IInv` adds where packets
come from. `RequestsKnown`: a request on its way was made by the user. `ServersKnown`: a
server serves such a request and is at most one block ahead of its client's file.
`DataKnown`: a DATA packet is a block its server has sent. `AcksKnown`: an acknowledgement
is of a block that the client has accepted. `AmountsKnown`: what is accepted is shorter than
`BlockMod` blocks and no longer than the file. `CopiesKnown`: the copy is made of the first
`given` blocks, and a copy is `Behind` what was accepted by at most the one block in
`pending`, or by the one that an interrupt has left there for ever. `ClientKnown`: `block`
is one more than the blocks accepted, and what is pending is the last of them. The step that
matters is `NextBlock`: a packet with the expected number on the wire is the expected block,
since its position is at most one ahead of the file and the client's number has not wrapped.
That `block` is an `int` and `th_block` 16 bits wide is what makes it true: a longer file
stalls (the client never finds its number) but is never corrupted. `NextGiven` says that a
write, taken or refused, gives the next block.

`ReadImplements` takes from it that every step of client, server, network or user is one of
`FileTransfer` or changes nothing the user can see: a block written or refused is the
next one (`NextGiven`), and a get ends with "ok" in the step that gives the last one, which comes after
its acknowledgement. It has the same hypothesis, and the read and write errors and interrupts that
`read_session` has.

`TftpWriteProofs` (no bound on files, blocks, servers, losses, repeats, write errors, deaths):

- `TypeCorrect`: `TypeOK`, without any condition.
- `WriteIntegrity`, `OkIsStored`, `WriteLockStep`: the invariants of `write_crash`, for the
  behaviours in which a file never gets a second tftpd (`OneEach`, which `write_crash`
  has by its one server). The condition is needed: a request sent twice, or delayed until its
  transfer is over, starts a process that truncates the file, while the first may go on
  writing at its own offset. The code has no defence of its own: in `write_live` it is the
  timely network that keeps the stored file whole.

A packet of the past is harmless because of what `IInv` says of it (`PacketsKnown`): a block on
the wire is at most one ahead of what its server has acknowledged, an acknowledgement is of
a block its server has accepted, and that of the last block comes from a server that has
the file on disk (`OnDisk`). A number that has wrapped is smaller than the block's position,
which is at most the number expected: so a packet with the expected number is the next block
(`NextBlock`). `DiskKnown` ties the rest together: blocks written, refused and in the
buffer are those accepted, in their order (`Given`), and the descriptor's offset is the end
of the file, so `write_behind()` appends (`NextStored`). `OutcomesKnown` keeps, for each put
reported as done, the server that stored it.

`WriteImplements` proves the implementation of `FileTransfer` under `OneEach` and two more
conditions, which `write_live` has as well: the disk works (a refused block leaves a gap,
which is no copy `FileTransfer` knows), and no file is put twice in a session (a job would
begin with the copy of the one before). It needs `Gapless`, that each remote file is exactly
the beginning of the local one and that of a file nobody serves is empty, and `NotToldYet`,
that the put in hand and those to come have no outcome. That a tftpd truncates the file only
when no other had it is where `OneEach` comes in.

`TftpBufProofs` (any characters, any file, any `SegSize`, any number of repeats):

- `TypeCorrect`, `BlockStays` (`SentAgainUnchanged`), `BlocksCutFile` (`CutsIntoBlocks`),
  `FileComesBack` (`RoundTrip`), `NothingOverwritten` (`WrittenWhenWaiting`). The assumption
  beyond sizes is that `NoChar`, the -1 of `prevchar`, is no character (`BufAssumption`).

What is passed along is spread over the receiver's file, the blocks accepted, the block in
hand, the buffer read ahead, half an expansion (`newline`, `prevchar`) and the rest of the
file. `WireWhole` says that these, in this order and the rest of the file encoded, are at
all times `OnTheWire`: each `Turn` of the conversion loop moves one character from one part
of that sum to another, so that a loop of `SEGSIZE` turns does, and the cut may fall
anywhere. `PassedFull` and `EndKnown` say that a block shorter than `SEGSIZE` is read only
when nothing is left (`Drained`). `FileKnown` says of the receiver that its file, with the
block in the buffer still to be written, is `Decoded` of what it has accepted;
`DecodesEncoding`, that this gives the file back. `SenderKnown` and `ReceiverKnown` say
which of the two buffers holds what in each phase: the flags of `tftpsubs.c` have no other
purpose. The loops are recursive functions, `FlattenSeq` is a fold, and what they compute is
proved by induction over the length. The library's induction theorems need an operator for
the predicate; `Induction` states induction for sets instead (`NatInd`, `SeqInd`), from the
well-foundedness of the numbers, and each proof applies it to the set of lengths for which
its claim holds.

`InetdProofs` (no bound on services, files, configurations, processes, reloads):

- `TypeCorrect`, `WaitedIsHolder` (`HeldByServer`), `OneServer` (`SoleHolder`),
  `NeverOvercounted` (`NotOvercounted`), assuming finitely many services and that
  a datagram service is never nowait, as the manual demands (`doc/inetutils.texi`) though the
  parser accepts it.

Here the obstacle is that the decision to hand a socket over is taken long before it is:
the socket goes from `allsock` to `readable` to `cur`, and handlers run in between.
`IInv` follows it (`Watched`, `Chosen`, `Scanned`, `Handing`), says that sockets that do not exist
have no holder (`Unbound`), and that the server waited for is the only one on its socket
(`Reserved`). The one way two servers could meet is that the descriptor is closed by
main while still in `allsock` (a wait entry made nowait in between); `shut` records it, and
`select()` then fails instead. A former server is no holder of the socket inetd has open, but
still a process, and `se_wait` must not hold its number (`HeldByServer`).

`TalkProofs` (no bound on processes, machines, losses, repeats, deaths):

- `TypeCorrect` and `TalksMutually` (`Mutual`).
- `InvitationsStay` (`CanBeFound`), `OthersInvitationsStay` (`TakesNoOther`) and
  `NothingLeftBehind` (`Tidy`), under the hypothesis `NotComeRound`: no daemon has given out its
  last number, `MAX_ID - 1`. `new_id` does not ask whether a number is in use when it begins anew, and
  with `MaxId = 4` instead of 16 TLC finds `CanBeFound` violated in the run `talk`; there the
  16 is never reached.

For `Mutual`, `Linked` says which ends a connection has in each state of its two processes,
and what a process that is not connected cannot have. The others are about numbers. A
DELETE names an invitation by a number only, and between the
moment a process is told the number and the moment it asks for the deletion anything may happen,
so the invariant follows the number wherever it goes: into the table, an answer under way,
`local_id` or `remote_id` of the process that left the invitation, the `msg.id_num` of
another that has found it. `Named` collects these places; `OneName` says that on
one machine a number stands for one invitation, `InPlace` that it is on the machine
where it belongs and of a process that has got as far as to leave it. `DeletesKnown` is the
consequence that matters: whoever is named by a DELETE under way is `Gone`, that is, invites
no more and never will; `Kept`, that what is not `Gone` is still in its table. With these
a step of a process needs to be looked at only for what it `Learns` from an answer and for what it
sends (`SendsKnown`), and a step of the daemon for the one name that is `Fresh`.
A callee may clear an invitation away because the refused connection shows its
process to be `Gone` (`NobodyListens`), which no look at the table would.
`Calm` is the state of affairs while nothing goes wrong: one request or answer per process,
the one it waits for, and each invitation still to be taken away by its present number (`WillGo`);
a lost, late or repeated datagram ends it, and `Tidy` with it.
TLC has checked the inductive invariant and `faults = 0 => Calm` in the run `talk`.

`TelnetOptionProofs` (any number of requests):

- `TypeCorrect`, `Counted` (`CountsRequests`, that the counters are bounded by what an end
  has asked), `OneMind` (`OfOneMind`), `NobodyWaits` (`NoneForgotten`), `NotSwallowed`
  (`Granted`). The last three are for behaviours in which no end has asked while its own
  refusal was not confirmed (`~overtaken`, part of the properties); without that none of the
  three holds, as `telnet_refusal` shows of the first.

The properties speak of moments when nothing is under way; `IInv` says what is under way at
the others. A refusal is read as a consent followed at once by a request against the option,
of which only the second command is sent. In a conversation without refusals the commands on
a wire take turns and the two counters together count the commands on both wires; with
refusals the same is true of numbers given to the commands, of which one is skipped where a
command is not sent. `Numbered` says that numbers grow by one or two and tell what a command
is, `Skipped` which may be skipped (the confirmation of a refusal, and a consent that was
not given), `Minds` what follows for what the two ends have heard, want and wait for, and
`Joint` that the counters add up. That is why a second decrement of the counter, for a
refusal that also answers the request taken back, is right; and where `overtaken` breaks it
is `Skipped`: an end that asks again may hear a refusal where it expects the confirmation.
`Followed` traces the request of `lone`.

`GrubProofs` (any regions of any size, any disks, blocks, runs and sizes of the cache, any
number of allocations, any evictions in the middle of a read):

- `TypeCorrect`, `HeapStaysSound` (`HeapSound`), `OwnedOnce` (`OneOwner`),
  `FailsOnlyWhenFull` (`FailsWhenFull`), `ReadsAreTrue` (`ReadsTrue`).

The assumptions: `AreaAssumption`, that the areas which the firmware leaves to the heap have
no cell in common. `UnderAssumption`, that no two disks lie on the same blocks, or the
cached copy of one would not know of a write to the other: `cryptomount` does not mount a
source twice (`disk/cryptodisk.c:792`), and `loopback` and `diskfilter` do not write.
`CallAssumption`, that nobody allocates nothing and no read or write is of no block.
`DiskAssumption` names the types of the rest; that disks lie one upon another no more than
one deep is a bound of the model (`Base`), the only one that the theorems keep. The run
`grub_disk` evaluates all of them.

*The allocator.* `Good` is `Sound` with the shapes of its parts, regions that lie apart and no
header outside of them. Both searches are functions that call themselves round the ring, and
on a ring that is not sound they need not end. `Ringed` says that each step goes to the next
lower free block, or from the lowest to the highest. So the number of free blocks still to come
falls, and induction over it gives what the searches return: `Search` the block before
one that fits, or NULL only if none fits at all, `Spot` the one place in the ring where the
freed block belongs. Each of the four ways to cut a block, and of the ways to join a freed one
(below, above, both, neither, a full region), then has a lemma that
the blocks still tile the region (`Tiled`) and that the ring is still the free ones in
order. What the rest of the proof needs of all this is that `RealMalloc` adds one pointer to
`Pointers (heap)` and touches no allocated header, or finds no `Room`; and that `Free` takes
its own away.

*The cache.* `MemOK (m, O)` says that the pointers given out are those of the owners O and
those in the cache, with none in both; and that an entry with data is not locked. The
second is why an allocation can always have every cached block back: a look-up that finds
the ids without data locks the entry for good, but such an entry has nothing to give. `Fetched`,
`Invalidate`, `InvalidateAll`, `Memalign`, `Store` and `StoreAll` keep `MemOK`, with O
grown by the new pointer where there is one, and what the cache shows afterwards (`Shown`)
is what it showed before, less what was dropped, with what was stored.

*The disk.* `IInv` adds to that what waits: `StackGood` says who may have called whom, a
write that reads first, a driver of a disk on another one, or both, so that there are never more
than three. `CacheTrue` says that a cached block is what the disk holds, or in `torn`, or
`Pending`: after the driver has written whole sectors and before the outermost
`grub_disk_write` has invalidated them, the cache is stale, and nothing may look. `FramesTrue`
says the same of what `grub_disk_read` has copied so far, including the hit behind
the run it waits for, and `ReplyTrue` of what a driver has just delivered. `PutsClean` is
about writes of a part of a sector, which invalidate first: nothing may enter the block again
until the driver is done. The delicate part is `WriteOK`. Whatever sets
`grub_errno` during a write, other code that finds no memory for instance, makes it
report failure though the driver has written, and the write around it then invalidates
nothing. But memory is short only when the cache has been emptied, so nothing stale remains.
TLC has checked `IInv` on all states of `grub_disk`.

## 7. Findings

Each is a run that must be violated, with the statement of the documents that it contradicts
in `PROJECT.json`.

1. `write_hangs`: on GNU/Linux the client's retransmission timer works once in a session,
   because `timer()` leaves the handler of SIGALRM by `longjmp()` to a plain `setjmp()`
   (`src/tftp.c:1020`, 1133). A put whose last acknowledgement is lost sends its last block once
   more, to a tftpd that is gone, and hangs; the manual's "total transmission timeout" never ends it.
2. `inetd_reenable`: `retry()` makes and binds a socket for a terminated service but neither
   listens nor adds it to `allsock`.
3. `telnet_refusal`: an end that refused once, later asks itself and is refused, takes that for the
   confirmation of its own refusal, and the ends disagree from then on. telnetd asks `DO ECHO`, the
   client refuses; its user says `send will echo`, telnetd refuses; the client goes on wanting the
   option, with an answer outstanding.

Other places where code and comments disagree, seen in the models and without a run of
their own:

- tftpd's `recvfile()` looks for the block that repeats the last one in the wrong buffer
  (`src/tftpd.c:803` has `dp`, the packet was received into `buf`), so a lost last
  acknowledgement is never repeated, although the comments at 803-806 say it is; that is why
  `write_hangs` gets no answer. The file is stored nevertheless (`Stored`).
- A get that does not name its host reuses the socket, and packets of the get before are
  written into the new file; a comment ("should verify client address") marks the check that
  is missing. `read_session` with `Reconnect = FALSE` shows it by `Integrity`. On a reused
  socket a late packet can also divert a second get to a tftpd that does not answer, and
  with one timeout per session it then hangs: `read_live` with `Reconnect = FALSE` and the
  two gets in the other order fails `Terminates`.
- With `-n` tftpd says nothing of a file that does not exist, and the client hangs after one
  repetition, for want of a second timeout: `read_live` with `SuppressNaks = TRUE` fails
  `Terminates`.
- Between `readable = allsock` and `select()` the signals are not blocked
  (`src/inetd.c:2023`): a SIGCHLD there puts a socket into `allsock` but not into the copy,
  and a request on it stays unread until something else wakes inetd. The manual
  (`doc/inetutils.texi:2975`) has inetd listen again when the program is finished. In
  `Inetd` that is `Reap` between `CopySockets` and `SelectBlocks`.
- The manual says of a wait service that inetd waits for the server to exit before it
  listens again (`doc/inetutils.texi:3112`). An entry that is removed while its server runs
  and comes back, as each reload does to the services of every file but the first, is
  listened to at once on a new socket, while the old server goes on with the old one.
- talk's alarm, every four seconds, interrupts the `select()` that is to repeat a request
  (`talk/ctl_transact.c:112`); the comments at lines 65 and 87 say that it is repeated until
  an answer comes. In `Talk`, a process that is `deaf` never sends again.
- The comment at `telnetd/state.c:505` says that the state of an end that refuses reverts
  when the acknowledgement comes. No handler sends one: `NoneForgotten` has the refusing end
  wait until the peer speaks again. It does no harm as long as the peer does (`Granted`);
  finding 3 is what it does otherwise.
- The write functions of loopback and diskfilter (`disk/loopback.c:210`,
  `disk/diskfilter.c:835`) and a decryption that fails (`disk/cryptodisk.c:584`) return an
  error without setting `grub_errno`. `grub_disk_write` and `grub_disk_read_small` return
  `grub_errno` (`kern/disk.c:693`, `:466`), so they report success. `DriverFails` assumes
  that a failing driver sets it: that success is not modelled.
- `kern/mm.c:122` subtracts before line 124 tests for a region that is too small.
- `kern/disk.c:661`, `:677` and `:681` pass a sector number in the wrong unit for disks with
  sectors larger than 512 bytes, which is why the model has none.
- When a block cannot be cached, `grub_errno` stays set (`kern/disk.c:430`, `:568`), and
  `grub_disk_read` reports failure with all data read. `errno` in `SmallRead` and `ManyRead`
  has it.

## 8. What is only model-checked, and what is left out

*Only model-checked*: everything under fairness (the prover has no rule for `ENABLED`);
`TftpWrite` with a second tftpd for a file, and its implementation of `FileTransfer` with a
disk that refuses writes or a file put twice; what
`Talk` does once a daemon's numbers have come round.

*TFTP, left out.* Failures of `sendto()`, of opening the local file and of tftpd's `fork()`;
several files in one command (they share a socket, as without `Reconnect`); options;
malformed packets. The disk of `TftpWrite` is that of octet mode, where `write_behind()` is
`write()`; in netascii mode it goes through stdio, and a killed tftpd loses what is
buffered. The same holds of the copy in `TftpRead`. A `write()` that fails is not noticed by
any caller (a Todo in `tftpsubs.c`), so success is reported of a file with a gap;
`Integrity` says that it costs its own block only. That `fclose()` fails is left out. A
failing `getc()` in netascii mode is taken for the end of the file. A write request delayed
past the end of its transfer starts another tftpd, which truncates the stored file: the
safety run of `TftpWrite` has one server and the others a timely network, so they do not
meet it. The timeout starts again with every block, so the "total transmission timeout" of
the manual is one per block. What a session with more than one loss does on GNU/Linux is
finding 1: `Terminates`, `Delivered` and `Stored` are checked with one loss, after which the
client's timer is dead.

*inetd, left out.* Built-in services, tcpmux, `se_max`, failing `accept()`, parsing,
privileges. A descriptor is identified with its service, so a number closed by a reload and
reused by another service during the scan under way is not represented. Nor is a handler
that interrupts another in the middle of one file. SIGCHLD in the middle of `nextconfig()`
adds nothing, since `enter()` and the purge block it and what it does to one service
commutes with the rest. SIGALRM between `enter()` and `servent_setup()` has the effect of
finding 2. SIGHUP in the middle of `reapchild()` may free the entry it is looking at.
`config()` takes the files as they are when it begins. Two effects are in the model and not
excluded by a property. `nsock` may become too small, when a reload removes an entry that
`close_sep()` or a fork has already taken off the count, so inetd may pause with services
left. And the limit of starts is compared with `>=`, so a limit of N allows N - 1.

*talk, left out.* Access lists and the terminal. Entries never expire, in the code either
(`talkd/table.c:72` subtracts the wrong way round). Process and port numbers are not used
again, and the daemon's numbers do not come round in the run. That an alarm between
`accept()` and `start_msgs()` forgets the connection, and that two users who invite each
other again may both wait, are behaviours of the model that no property excludes.

*telnet, left out.* What an option does once it is on, suboptions, LINEMODE, TIMING-MARK
(which telnet answers outside this machine), and the session around it: the rest is terminal
handling. telnetd behaves for a moment as if it had read a `WILL ECHO` of a peer that never
answered (`telnetd/telnetd.c:584-592`); that peer does not negotiate, and has no model. One
option in one direction is independent of the others.

*GRUB, left out.* Cells stand for `GRUB_MM_ALIGN` bytes, so nothing below that size is
represented; sizes are far from overflow. Writes go to disks that no other disk lies on
(`Outermost`): a write below would leave the upper disk's cached copy, but nothing in GRUB
does it. `ReadsTrue` excepts blocks that a failed write has changed (`torn`), which the code
leaves in the cache. Read hooks, partitions, and the time of opening (two seconds) are left
out; `Open` may come at any time. A read of a partial block, whole blocks and a partial
block is three reads in the model, in any order; a nested read is of whole cache blocks,
while a cryptodisk may begin anywhere within one (`disk/cryptodisk.c:575-578`).

The other parts of the repository are listed in section 1 and in `PROJECT.json`.
