------------------------------ MODULE TftpBuf -------------------------------
(***************************************************************************)
(* The double buffer of tftpsubs.c on both sides of one transfer: the      *)
(* sender's readit() and read_ahead(), the receiver's writeit() and        *)
(* write_behind(), with the netascii conversion each of them performs.     *)
(*                                                                         *)
(* The calls come in the order of the loops of send_file() and recvfile(). *)
(* The network between them is reduced to what TftpRead and TftpWrite show *)
(* of it: every block is accepted once and in order, after it was sent any *)
(* number of times, and blocks accepted before may come in again.          *)
(***************************************************************************)
EXTENDS Integers, Sequences, FiniteSets, SequencesExt

CONSTANTS
    SegSize,        \* SEGSIZE, 512 in the program
    Chars,          \* the characters of a file, among them the next three
    CR, LF, NUL,
    MaxLen          \* bound: the length of the file

NoChar == "none"    \* prevchar == -1

ASSUME BufAssumption ==
    /\ SegSize \in Nat \ {0}
    /\ {CR, LF, NUL} \subseteq Chars
    /\ CR # LF /\ CR # NUL /\ LF # NUL
    /\ NoChar \notin Chars
    /\ MaxLen \in Nat

\* Values of bf.counter that are not the size of the data in the buffer.
BF_ALLOC == -3
BF_FREE == -2

VARIABLES
    source,     \* the sender's file
    convert,    \* transfer mode netascii
    r,          \* the sender's bfs, nextone, current, newline and prevchar,
                \* and what is left to read of its file
    rphase,     \* the sender: "request", "read", "send", "wait" or "end"
    hand,       \* the block that readit() returned last
    accepted,   \* has the receiver accepted it?
    passed,     \* the blocks the receiver has accepted
    w,          \* the receiver's bfs, nextone, current and prevchar, its file
    wphase      \* the receiver: "recv", "ack", "last" or "closed"

vars == <<source, convert, r, rphase, hand, accepted, passed, w, wphase>>

Buffers == {0, 1}
Other(i) == 1 - i

\* rw_init()
Fresh == [i \in Buffers |->
             [counter |-> IF i = 0 THEN BF_ALLOC ELSE BF_FREE, data |-> << >>]]

Init ==
    /\ source \in BoundedSeq(Chars, MaxLen)
    /\ convert \in BOOLEAN
    /\ r = [bfs |-> Fresh, next |-> 1, cur |-> 0, newline |-> FALSE,
            prev |-> NoChar, rest |-> source]
    /\ rphase \in {"request", "read"}
    /\ hand = << >>
    /\ accepted = FALSE
    /\ passed = << >>
    /\ w = [bfs |-> Fresh, next |-> 0, cur |-> 0, prev |-> NoChar, file |-> << >>]
    /\ wphase = "recv"

-----------------------------------------------------------------------------
(* The sender.                                                             *)

\* One turn of the conversion loop, in which out is filled: the second half
\* of an expansion, or one character of the file.  At its end, nothing.
Turn(l) ==
    CASE l.newline ->
           [l EXCEPT !.out = Append(@, IF l.prev = LF THEN LF ELSE NUL),
                     !.newline = FALSE]
      [] ~l.newline /\ l.rest = << >> -> l
      [] ~l.newline /\ l.rest # << >> /\ Head(l.rest) \in {LF, CR} ->
           [l EXCEPT !.out = Append(@, CR), !.newline = TRUE,
                     !.prev = Head(l.rest), !.rest = Tail(@)]
      [] OTHER ->
           [l EXCEPT !.out = Append(@, Head(l.rest)), !.rest = Tail(@)]

\* Mutant: i <= SEGSIZE.
ConvertedOver(l) ==
    LET after[i \in 0 .. SegSize + 1] == IF i = 0 THEN l ELSE Turn(after[i - 1])
    IN  after[SegSize + 1]

\* for (i = 0; i < SEGSIZE; i++)
Converted(l) ==
    LET after[i \in 0 .. SegSize] == IF i = 0 THEN l ELSE Turn(after[i - 1])
    IN  after[SegSize]

\* read() of up to SEGSIZE characters.
Raw(l) ==
    LET n == IF Len(l.rest) < SegSize THEN Len(l.rest) ELSE SegSize
    IN  [l EXCEPT !.out = SubSeq(l.rest, 1, n),
                  !.rest = SubSeq(@, n + 1, Len(@))]

\* Mutant: newline is local to read_ahead().
ResumedAfresh(x) ==
    [out |-> << >>, rest |-> x.rest, newline |-> FALSE, prev |-> x.prev]

\* The conversion goes on where the last block ended.
Resumed(x) ==
    [out |-> << >>, rest |-> x.rest, newline |-> x.newline, prev |-> x.prev]

\* Mutant: read_ahead() does not look whether the buffer is in use.
AlwaysToFill(x) == TRUE

\* b->counter == BF_FREE
ToFill(x) == x.bfs[x.next].counter = BF_FREE

\* read_ahead(): nothing to do, or the next buffer is filled.
ReadAhead(x) ==
    IF ~ToFill(x) THEN x
    ELSE LET l == IF convert THEN Converted(Resumed(x)) ELSE Raw(Resumed(x))
         IN  [x EXCEPT !.bfs[x.next] = [counter |-> Len(l.out), data |-> l.out],
                       !.next = Other(@), !.rest = l.rest,
                       !.newline = l.newline, !.prev = l.prev]

\* readit(): the buffer that was acknowledged becomes free, and the other one
\* current, filled first if read_ahead() has not been there.
Readit(x) ==
    LET y == [x EXCEPT !.bfs[x.cur].counter = BF_FREE, !.cur = Other(@)]
    IN  IF y.bfs[y.cur].counter = BF_FREE THEN ReadAhead(y) ELSE y

\* The client's write request travels in the first buffer; the file is read
\* ahead each time the request is sent.
SendRequest ==
    /\ rphase = "request"
    /\ r' = ReadAhead(r)
    /\ rphase' \in {"request", "read"}
    /\ UNCHANGED <<source, convert, hand, accepted, passed, w, wphase>>

GetBlock ==
    /\ rphase = "read"
    /\ r' = Readit(r)
    /\ hand' = r'.bfs[r'.cur].data
    /\ accepted' = FALSE
    /\ rphase' = "send"
    /\ UNCHANGED <<source, convert, passed, w, wphase>>

\* sendto(), for the first time or again, and read_ahead().
Send ==
    /\ rphase \in {"send", "wait"}
    /\ r' = ReadAhead(r)
    /\ rphase' = "wait"
    /\ UNCHANGED <<source, convert, hand, accepted, passed, w, wphase>>

\* The acknowledgement comes in: while (size == SEGSIZE).
Acknowledged ==
    /\ rphase = "wait" /\ accepted
    /\ rphase' = IF Len(hand) = SegSize THEN "read" ELSE "end"
    /\ UNCHANGED <<source, convert, r, hand, accepted, passed, w, wphase>>

-----------------------------------------------------------------------------
(* The receiver.                                                           *)

\* Mutant: the LF is put behind the CR.
PutBehind(f, c) ==
    IF f.prev = CR /\ c = NUL THEN [file |-> f.file, prev |-> c]
    ELSE [file |-> Append(f.file, c), prev |-> c]

\* putc() of one character, unless it completes CR NUL; fseeko() goes back
\* one character first if it completes CR LF.
Put(f, c) ==
    CASE f.prev = CR /\ c = LF  -> [file |-> Append(Front(f.file), c), prev |-> c]
      [] f.prev = CR /\ c = NUL -> [file |-> f.file, prev |-> c]
      [] OTHER                  -> [file |-> Append(f.file, c), prev |-> c]

\* for (i = 0; i < ct; i++)
Decoded(f, data) ==
    LET after[i \in 0 .. Len(data)] ==
            IF i = 0 THEN f ELSE Put(after[i - 1], data[i])
    IN  after[Len(data)]

\* write_behind(): nothing to do, or the next buffer is written and freed.
WriteBehind(x) ==
    IF x.bfs[x.next].counter < -1 THEN x
    ELSE LET b == x.bfs[x.next]
             data == SubSeq(b.data, 1, b.counter)
             f == IF convert
                  THEN Decoded([file |-> x.file, prev |-> x.prev], data)
                  ELSE [file |-> x.file \o data, prev |-> x.prev]
         IN  [x EXCEPT !.bfs[x.next].counter = BF_FREE, !.next = Other(@),
                       !.file = f.file, !.prev = f.prev]

\* writeit(): the other buffer becomes current, after write_behind() if it is
\* not free.
Writeit(x, ct) ==
    LET y == [x EXCEPT !.bfs[x.cur].counter = ct, !.cur = Other(@)]
        z == IF y.bfs[y.cur].counter # BF_FREE THEN WriteBehind(y) ELSE y
    IN  [z EXCEPT !.bfs[z.cur].counter = BF_ALLOC]

\* recvfrom() puts every packet into the current buffer, wanted or not.
Recv(x, data) == [x EXCEPT !.bfs[x.cur].data = data]

\* The block that is waited for.
Accept ==
    /\ wphase = "recv" /\ rphase = "wait" /\ ~accepted
    /\ w' = Writeit(Recv(w, hand), Len(hand))
    /\ accepted' = TRUE
    /\ passed' = Append(passed, hand)
    /\ wphase' = IF Len(hand) = SegSize THEN "ack" ELSE "last"
    /\ UNCHANGED <<source, convert, r, rphase, hand>>

\* A block accepted before: it is dropped, but it has been in the buffer.
Duplicate ==
    /\ wphase = "recv"
    /\ \E i \in DOMAIN passed : w' = Recv(w, passed[i])
    /\ UNCHANGED <<source, convert, r, rphase, hand, accepted, passed, wphase>>

\* Mutant: no write_behind() after the acknowledgement.
SendAckOnly ==
    /\ wphase \in {"recv", "ack"}
    /\ wphase' = "recv"
    /\ UNCHANGED <<source, convert, r, rphase, hand, accepted, passed, w>>

\* sendto() of the acknowledgement, for the first time or again, and
\* write_behind().
SendAck ==
    /\ wphase \in {"recv", "ack"}
    /\ w' = WriteBehind(w)
    /\ wphase' = "recv"
    /\ UNCHANGED <<source, convert, r, rphase, hand, accepted, passed>>

\* write_behind() and fclose().
Close ==
    /\ wphase = "last"
    /\ w' = WriteBehind(w)
    /\ wphase' = "closed"
    /\ UNCHANGED <<source, convert, r, rphase, hand, accepted, passed>>

Next ==
    \/ SendRequest \/ GetBlock \/ Send \/ Acknowledged
    \/ Accept \/ Duplicate \/ SendAck \/ Close

Spec == Init /\ [][Next]_vars

-----------------------------------------------------------------------------
(* Properties.                                                             *)

BufferType == [counter : {BF_ALLOC, BF_FREE} \cup 0 .. SegSize, data : Seq(Chars)]

\* The types, with what they say of the code: no buffer is ever filled beyond
\* SEGSIZE characters, and a counter is a size or one of the two flags.
TypeOK ==
    /\ source \in Seq(Chars) /\ convert \in BOOLEAN
    /\ r \in [bfs : [Buffers -> BufferType], next : Buffers, cur : Buffers,
              newline : BOOLEAN, prev : {NoChar, CR, LF}, rest : Seq(Chars)]
    /\ rphase \in {"request", "read", "send", "wait", "end"}
    /\ hand \in Seq(Chars) /\ accepted \in BOOLEAN /\ passed \in Seq(Seq(Chars))
    /\ w \in [bfs : [Buffers -> BufferType], next : Buffers, cur : Buffers,
              prev : Chars \cup {NoChar}, file : Seq(Chars)]
    /\ wphase \in {"recv", "ack", "last", "closed"}

\* What goes over the wire in netascii: LF as CR LF, CR as CR NUL.
Code(c) == CASE c = LF -> <<CR, LF>>
             [] c = CR -> <<CR, NUL>>
             [] OTHER  -> <<c>>

Encoding(s) == FlattenSeq([i \in DOMAIN s |-> Code(s[i])])

OnTheWire == IF convert THEN Encoding(source) ELSE source

\* The receiver's file is the sender's, in either mode, for every way the
\* expansion of a line end falls across a block boundary (newline, prevchar).
RoundTrip == wphase = "closed" => w.file = source

\* read_ahead() and the conversion cut the file, as it goes over the wire,
\* into blocks of SEGSIZE and one shorter block that ends it.
CutsIntoBlocks ==
    /\ IsPrefix(FlattenSeq(passed), OnTheWire)
    /\ \A i \in DOMAIN passed : i < Len(passed) => Len(passed[i]) = SegSize
    /\ wphase \in {"last", "closed"} => FlattenSeq(passed) = OnTheWire

\* The block being sent stays as it is until it is acknowledged, although
\* read_ahead() is called after every transmission: what is sent again is
\* what was sent first.
SentAgainUnchanged ==
    rphase \in {"send", "wait"} =>
        r.bfs[r.cur] = [counter |-> Len(hand), data |-> hand]

\* What TftpRead and TftpWrite take from here: while the receiver waits for a
\* packet its file holds every block accepted so far, at most one block is
\* ever in a buffer, and the buffer packets are received into holds none.
WrittenWhenWaiting ==
    /\ Cardinality({i \in Buffers : w.bfs[i].counter >= 0}) <= 1
    /\ wphase \in {"recv", "ack"} => w.bfs[w.cur].counter = BF_ALLOC
    /\ wphase = "recv" =>
          w.file = IF convert
                   THEN Decoded([file |-> << >>, prev |-> NoChar],
                                FlattenSeq(passed)).file
                   ELSE FlattenSeq(passed)
=============================================================================
