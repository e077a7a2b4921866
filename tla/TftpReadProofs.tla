--------------------------- MODULE TftpReadProofs ---------------------------
(***************************************************************************)
(* Proofs about TftpRead, for every session, every set of files and        *)
(* servers, every BlockMod and MaxTries, and any number of lost, repeated  *)
(* and reordered packets.                                                  *)
(***************************************************************************)
EXTENDS TftpRead, TLAPS

-----------------------------------------------------------------------------
(* Lemmas on the operators.                                                *)

\* A block number cut to its width is a block number.
LEMMA WireType == ASSUME NEW n \in Nat PROVE Wire(n) \in 0 .. BlockMod - 1
  BY ReadAssumption DEF Wire

\* Cutting to the width leaves small numbers alone.
LEMMA ModSmall == ASSUME NEW n \in Nat, NEW k \in Nat, n < k PROVE n % k = n
  BY SMTT(30)

LEMMA WireSmall == ASSUME NEW n \in Nat, n < BlockMod PROVE Wire(n) = n
  BY ModSmall, ReadAssumption DEF Wire

\* Receiving a packet and synchnet() add nothing to a channel.
LEMMA ReceivedSubset ==
  ASSUME NEW chan, NEW m, NEW c \in Received(chan, m) PROVE c \subseteq chan
  BY DEF Received

LEMMA FlushedSubset ==
  ASSUME NEW chan, NEW S, NEW c \in Flushed(chan, S) PROVE c \subseteq chan
  BY DEF Flushed

LEMMA SessionType ==
  /\ Turns \subseteq Nat /\ 1 \in Turns /\ Len(Session) \in Nat
  /\ \A t \in Turns : Session[t] \in Files
  BY ReadAssumption DEF Turns

-----------------------------------------------------------------------------
(* Types.                                                                  *)

TypeInv ==
    /\ TypeOK
    /\ cpc # "prompt" => turn \in Turns
    /\ cpc \in {"waiting", "flushing"} => ticks < MaxTries
    /\ cpc \in {"flushing", "closing"} => pending # << >>
    /\ \A s \in Servers : spc[s] = "waiting" => sticks[s] < MaxTries

LEMMA InitType == Init => TypeInv
  <1> SUFFICES ASSUME Init PROVE TypeInv
    OBVIOUS
  <1>1. (CHOOSE f \in Files : TRUE) \in Files
    BY SessionType
  <1>2. Ack(0) \in Bodies
    BY WireType DEF Ack, Bodies
  <1>3. << >> \in Seq(Files \X Nat) /\ {} \in SUBSET (Files \X Nat)
    OBVIOUS
  <1> QED
    BY <1>1, <1>2, <1>3, SessionType, ReadAssumption
       DEF Init, TypeInv, TypeOK, Outcomes, ClientPackets, ServerPackets

\* What a packet of each kind carries.
LEMMA BodyTypes ==
  /\ \A f \in Files, t \in Turns : Rrq(f, t) \in Bodies
  /\ \A n \in Nat : Ack(n) \in Bodies
  BY WireType DEF Rrq, Ack, Bodies

LEMMA ServerTypes ==
  ASSUME TypeOK
  PROVE  /\ sfile \in [Servers -> Files] /\ sfrom \in [Servers -> Turns]
         /\ sblock \in [Servers -> Nat \ {0}]
         /\ spc \in [Servers -> {"free", "waiting", "done", "failed", "expired"}]
         /\ sticks \in [Servers -> 0 .. MaxTries]
  BY DEF TypeOK

LEMMA DataType ==
  ASSUME TypeOK, NEW s \in Servers, NEW n \in Nat
  PROVE  Data(s, n) \in ClientPackets
  BY WireType DEF Data, ClientPackets, TypeOK

LEMMA ErrorType ==
  ASSUME NEW s \in Servers, NEW t \in Turns PROVE Error(s, t) \in ClientPackets
  BY DEF Error, ClientPackets

LEMMA DataFields ==
  ASSUME NEW m \in ClientPackets, m.op = "DATA"
  PROVE  /\ m.src \in Servers /\ m.dst \in Turns /\ m.num \in 0 .. BlockMod - 1
         /\ m.file \in Files /\ m.pos \in Nat
  BY DEF ClientPackets

LEMMA ClientPacketFields ==
  ASSUME NEW m \in ClientPackets
  PROVE  m.op \in {"DATA", "ERROR"} /\ m.src \in Servers /\ m.dst \in Turns
  BY DEF ClientPackets

LEMMA ToType ==
  ASSUME NEW d \in Servers \cup {Port}, NEW b \in Bodies
  PROVE  To(d, b) \in ServerPackets
  BY DEF To, ServerPackets

LEMMA ServerPacketFields ==
  ASSUME NEW p \in ServerPackets
  PROVE  /\ p.dst \in Servers \cup {Port} /\ p.body \in Bodies
         /\ p.body.op \in {"RRQ", "ACK"}
         /\ p.body.op = "RRQ" => p.body.file \in Files /\ p.body.from \in Turns
         /\ p.body.op = "ACK" => p.body.num \in 0 .. BlockMod - 1
  BY DEF ServerPackets, Bodies

LEMMA RungType ==
  ASSUME TypeOK, NEW x \in Servers \cup {Client}, Expire(x) \/ Rearm(x)
  PROVE  rung' \subseteq Servers \cup {Client}
  BY DEF TypeOK, Expire, Rearm

\* A block goes into the buffer, and out of it.
LEMMA QueueType ==
  ASSUME TypeInv, cpc = "waiting", NEW m, <<m.file, m.pos>> \in Files \X Nat, Queue(m)
  PROVE  /\ pending' \in Seq(Files \X Nat) /\ pending' # << >>
         /\ amount' \in [Turns -> Nat] /\ turn \in Turns
         /\ UNCHANGED <<dst, given, refused>>
  <1>1. pending \in Seq(Files \X Nat) /\ amount \in [Turns -> Nat] /\ turn \in Turns
    BY DEF TypeInv, TypeOK
  <1>2. pending' = Append(pending, <<m.file, m.pos>>)
    BY DEF Queue
  <1>3. Len(pending') = Len(pending) + 1 /\ Len(pending) \in Nat
    BY <1>1, <1>2
  <1>4. pending' # << >>
    BY <1>3
  <1>5. pending' \in Seq(Files \X Nat)
    BY <1>1, <1>2
  <1> QED
    BY <1>1, <1>4, <1>5 DEF Queue

LEMMA WriteType ==
  ASSUME TypeInv, cpc \in {"flushing", "closing"}, WriteBehind
  PROVE  /\ pending' \in Seq(Files \X Nat) /\ given' \in [Turns -> Nat]
         /\ dst' \in [Turns -> Seq(Files \X Nat)]
         /\ refused' \in [Turns -> SUBSET (Files \X Nat)] /\ UNCHANGED amount
  <1>1. /\ pending \in Seq(Files \X Nat) /\ pending # << >> /\ turn \in Turns
        /\ given \in [Turns -> Nat] /\ dst \in [Turns -> Seq(Files \X Nat)]
        /\ refused \in [Turns -> SUBSET (Files \X Nat)]
    BY DEF TypeInv, TypeOK
  <1>2. Head(pending) \in Files \X Nat /\ Tail(pending) \in Seq(Files \X Nat)
    BY <1>1
  <1>3. dst[turn] \in Seq(Files \X Nat) /\ refused[turn] \in SUBSET (Files \X Nat)
        /\ given[turn] + 1 \in Nat
    BY <1>1
  <1>4. Append(dst[turn], Head(pending)) \in Seq(Files \X Nat)
    BY <1>2, <1>3
  <1>5. refused[turn] \cup {Head(pending)} \in SUBSET (Files \X Nat)
    BY <1>2, <1>3
  <1>6. dst' \in [Turns -> Seq(Files \X Nat)]
    BY <1>1, <1>4 DEF WriteBehind
  <1>7. refused' \in [Turns -> SUBSET (Files \X Nat)]
    BY <1>1, <1>5 DEF WriteBehind
  <1> QED
    BY <1>1, <1>2, <1>3, <1>6, <1>7 DEF WriteBehind

LEMMA ClientStepType ==
  ASSUME TypeInv,
         StartGet \/ ClientReceive \/ ClientWrite \/ ClientTimeout \/ ClientInterrupt
  PROVE  TypeInv'
  <1> USE DEF TypeInv, clientVars, netVars, copyVars, serverVars
  <1>a. Client \in Servers \cup {Client} /\ TypeOK
    OBVIOUS
  <1>1. CASE StartGet
    <2>1. turn + 1 \in Turns /\ sock' \in Turns /\ turn + 1 \in 0 .. Len(Session)
      BY <1>1, SessionType DEF StartGet, TypeOK, Turns
    <2>2. ackbuf' \in Bodies
      BY <1>1, <2>1, BodyTypes, SessionType DEF StartGet
    <2>3. toServer' \subseteq ServerPackets
      <3>1. To(Port, ackbuf') \in ServerPackets
        BY <2>2, ToType
      <3> QED
        BY <1>1, <3>1 DEF StartGet, ClientSend, TypeOK
    <2>4. rung' \subseteq Servers \cup {Client}
      BY <1>1, <1>a, RungType DEF StartGet
    <2>5. cpc' = "waiting" /\ ticks' = 0 /\ 0 < MaxTries /\ 0 \in 0 .. MaxTries
      BY <1>1, ReadAssumption DEF StartGet
    <2>6. TypeOK'
      <3>1. pending' \in Seq(Files \X Nat)
        BY <1>1 DEF StartGet
      <3>2. /\ turn' = turn + 1 /\ block' = 1 /\ peer' = Port
            /\ UNCHANGED <<masked, outcome, amount, dst, given, refused>>
            /\ UNCHANGED <<serverVars, toClient, lost>>
        BY <1>1 DEF StartGet
      <3>3. /\ turn' \in 0 .. Len(Session) /\ block' \in Nat \ {0}
            /\ peer' \in Servers \cup {Port}
        BY <2>1, <3>2
      <3>4. /\ cpc' \in {"prompt", "waiting", "flushing", "closing"}
            /\ ticks' \in 0 .. MaxTries
        BY <2>5
      <3>5. /\ masked' \subseteq {"ALRM", "INT"} /\ outcome' \in [Turns -> Outcomes]
            /\ amount' \in [Turns -> Nat] /\ dst' \in [Turns -> Seq(Files \X Nat)]
            /\ given' \in [Turns -> Nat]
            /\ refused' \in [Turns -> SUBSET (Files \X Nat)]
        BY <3>2 DEF TypeOK
      <3>6. /\ sfile' \in [Servers -> Files] /\ sfrom' \in [Servers -> Turns]
            /\ sblock' \in [Servers -> Nat \ {0}]
            /\ spc' \in [Servers -> {"free", "waiting", "done", "failed", "expired"}]
            /\ sticks' \in [Servers -> 0 .. MaxTries]
            /\ toClient' \subseteq ClientPackets /\ lost' \in 0 .. MaxLoss
        BY <3>2 DEF TypeOK
      <3> QED
        BY <2>1, <2>2, <2>3, <2>4, <3>1, <3>3, <3>4, <3>5, <3>6 DEF TypeOK
    <2> QED
      BY <1>1, <2>1, <2>5, <2>6 DEF StartGet
  <1>2. ASSUME NEW m \in toClient, ClientAcceptFull(m)
        PROVE  TypeInv'
    <2>1. /\ m.src \in Servers /\ <<m.file, m.pos>> \in Files \X Nat
          /\ toClient' \subseteq ClientPackets
      BY <1>2, DataFields, ReceivedSubset DEF ClientAcceptFull, TypeOK
    <2>2. ackbuf' \in Bodies /\ block + 1 \in Nat \ {0}
      BY <1>2, BodyTypes DEF ClientAcceptFull, TypeOK
    <2>3. toServer' \subseteq ServerPackets
      BY <1>2, <2>1, <2>2, ToType DEF ClientAcceptFull, ClientSend, TypeOK
    <2>4. rung' \subseteq Servers \cup {Client}
      BY <1>2 DEF ClientAcceptFull, TypeOK
    <2>5. /\ pending' \in Seq(Files \X Nat) /\ pending' # << >>
          /\ amount' \in [Turns -> Nat] /\ turn \in Turns
          /\ UNCHANGED <<dst, given, refused>>
      BY <1>2, <2>1, QueueType DEF ClientAcceptFull
    <2>6. ticks' = 0 /\ 0 < MaxTries /\ 0 \in 0 .. MaxTries
      BY <1>2, ReadAssumption DEF ClientAcceptFull
    <2>7. TypeOK'
      BY <1>2, <2>1, <2>2, <2>3, <2>4, <2>5, <2>6 DEF ClientAcceptFull, TypeOK
    <2> QED
      BY <1>2, <2>5, <2>6, <2>7 DEF ClientAcceptFull
  <1>3. ASSUME NEW m \in toClient, ClientAcceptLast(m)
        PROVE  TypeInv'
    <2>1. /\ m.src \in Servers /\ <<m.file, m.pos>> \in Files \X Nat
          /\ toClient' \subseteq ClientPackets
      BY <1>3, DataFields, ReceivedSubset DEF ClientAcceptLast, TypeOK
    <2>2. ackbuf' \in Bodies
      BY <1>3, BodyTypes DEF ClientAcceptLast, TypeOK
    <2>3. toServer' \subseteq ServerPackets
      BY <1>3, <2>1, <2>2, ToType DEF ClientAcceptLast, ClientSend, TypeOK
    <2>4. /\ pending' \in Seq(Files \X Nat) /\ pending' # << >>
          /\ amount' \in [Turns -> Nat] /\ turn \in Turns
          /\ UNCHANGED <<dst, given, refused>>
      BY <1>3, <2>1, QueueType DEF ClientAcceptLast
    <2>5. TypeOK'
      BY <1>3, <2>1, <2>2, <2>3, <2>4 DEF ClientAcceptLast, TypeOK
    <2> QED
      BY <1>3, <2>4, <2>5 DEF ClientAcceptLast
  <1>4. ASSUME NEW m \in toClient, ClientResync(m)
        PROVE  TypeInv'
    <2>1. m.src \in Servers /\ toClient' \subseteq ClientPackets
      BY <1>4, DataFields, ReceivedSubset, FlushedSubset DEF ClientResync, TypeOK
    <2>2. toServer' \subseteq ServerPackets
      BY <1>4, <2>1, ToType DEF ClientResync, ClientSend, TypeOK
    <2>3. rung' \subseteq Servers \cup {Client}
      BY <1>4, <1>a, RungType DEF ClientResync
    <2> QED
      BY <1>4, <2>1, <2>2, <2>3 DEF ClientResync, TypeOK
  <1>5. ASSUME NEW m \in toClient, ClientError(m)
        PROVE  TypeInv'
    <2>1. m.src \in Servers /\ toClient' \subseteq ClientPackets
      BY <1>5, ClientPacketFields, ReceivedSubset DEF ClientError, TypeOK
    <2>2. ackbuf' \in Bodies
      BY <1>5, BodyTypes DEF ClientError, TypeOK
    <2>3. toServer' \subseteq ServerPackets
      BY <1>5, <2>1, <2>2, ToType DEF ClientError, ClientSend, TypeOK
    <2> QED
      BY <1>5, <2>1, <2>2, <2>3 DEF ClientError, Prompt, Outcomes, TypeOK
  <1>6. CASE ClientTimeout
    <2>1. toServer' \subseteq ServerPackets
      BY <1>6, ToType DEF ClientTimeout, ClientSend, TypeOK
    <2>2. ticks' \in 0 .. MaxTries /\ (ticks' < MaxTries \/ cpc' = "prompt")
      BY <1>6, ReadAssumption DEF ClientTimeout, Counted, GivesUp, Prompt, TypeOK
    <2>3. rung' \subseteq Servers \cup {Client}
      BY <1>6, <1>a, RungType DEF ClientTimeout
    <2>4. /\ cpc' \in {"prompt", "waiting"} /\ cpc = "waiting" /\ outcome' \in [Turns -> Outcomes]
          /\ masked' \subseteq {"ALRM", "INT"} /\ toClient' \subseteq ClientPackets
      BY <1>6 DEF ClientTimeout, Prompt, JumpedOutOf, Outcomes, TypeOK
    <2> QED
      BY <1>6, <2>1, <2>2, <2>3, <2>4 DEF ClientTimeout, TypeOK
  <1>7. CASE ClientInterrupt
    BY <1>7 DEF ClientInterrupt, Prompt, JumpedOutOf, Outcomes, TypeOK
  <1>8. CASE ClientFlush
    <2>1. /\ cpc' = "waiting" /\ turn \in Turns /\ ticks < MaxTries
          /\ UNCHANGED <<turn, ticks, spc, sticks>>
          /\ rung' \subseteq Servers \cup {Client}
      BY <1>8, <1>a, RungType DEF ClientFlush
    <2>2. /\ pending' \in Seq(Files \X Nat) /\ given' \in [Turns -> Nat]
          /\ dst' \in [Turns -> Seq(Files \X Nat)]
          /\ refused' \in [Turns -> SUBSET (Files \X Nat)] /\ UNCHANGED amount
      BY <1>8, WriteType DEF ClientFlush
    <2>3. TypeOK'
      BY <1>8, <2>1, <2>2 DEF ClientFlush, TypeOK
    <2> QED
      BY <2>1, <2>3
  <1>9. CASE ClientClose
    <2>1. /\ cpc' = "prompt" /\ outcome' \in [Turns -> Outcomes]
          /\ UNCHANGED <<spc, sticks>>
      BY <1>9 DEF ClientClose, Prompt, Outcomes, TypeOK
    <2>2. /\ pending' \in Seq(Files \X Nat) /\ given' \in [Turns -> Nat]
          /\ dst' \in [Turns -> Seq(Files \X Nat)]
          /\ refused' \in [Turns -> SUBSET (Files \X Nat)] /\ UNCHANGED amount
      BY <1>9, WriteType DEF ClientClose
    <2>3. TypeOK'
      BY <1>9, <2>1, <2>2 DEF ClientClose, TypeOK
    <2> QED
      BY <2>1, <2>3
  <1> QED
    BY <1>1, <1>2, <1>3, <1>4, <1>5, <1>6, <1>7, <1>8, <1>9
       DEF ClientReceive, ClientWrite

LEMMA ServerStepType ==
  ASSUME TypeInv, NEW s \in Servers,
         (\E p \in toServer : ServerStart(s, p)) \/ ServerReceive(s) \/ ServerTimeout(s)
  PROVE  TypeInv'
  <1> USE DEF TypeInv, clientVars, netVars, copyVars, serverVars
  <1>a. s \in Servers \cup {Client} /\ TypeOK
    OBVIOUS
  <1>1. ASSUME NEW p \in toServer, ServerStart(s, p)
        PROVE  TypeInv'
    <2>1. /\ p \in ServerPackets /\ p.body.file \in Files /\ p.body.from \in Turns
          /\ toServer' \subseteq ServerPackets
      BY <1>1, ServerPacketFields, ReceivedSubset DEF ServerStart, TypeOK
    <2>2. /\ sfile' \in [Servers -> Files] /\ sfrom' \in [Servers -> Turns]
          /\ sblock' \in [Servers -> Nat \ {0}]
          /\ spc' \in [Servers -> {"free", "waiting", "done", "failed", "expired"}]
      <3>1. sfile' \in [Servers -> Files] /\ sfrom' \in [Servers -> Turns]
        BY <1>1, <2>1 DEF ServerStart, TypeOK
      <3>2. /\ sblock' = [sblock EXCEPT ![s] = 1] \/ sblock' = sblock
            /\ \/ spc' = [spc EXCEPT ![s] = "waiting"]
               \/ spc' = [spc EXCEPT ![s] = "failed"]
        BY <1>1 DEF ServerStart
      <3>3. sblock' \in [Servers -> Nat \ {0}]
        <4>1. sblock \in [Servers -> Nat \ {0}] /\ 1 \in Nat \ {0}
          BY DEF TypeOK
        <4>2. [sblock EXCEPT ![s] = 1] \in [Servers -> Nat \ {0}]
          BY <4>1
        <4> QED
          BY <4>1, <4>2, <3>2
      <3>4. spc' \in [Servers -> {"free", "waiting", "done", "failed", "expired"}]
        BY <3>2 DEF TypeOK
      <3> QED
        BY <3>1, <3>3, <3>4
    <2>3. toClient' \subseteq ClientPackets
      <3>1. [op |-> "DATA", src |-> s, dst |-> p.body.from, num |-> Wire(1),
             file |-> p.body.file, pos |-> 1] \in ClientPackets
        BY <2>1, WireType DEF ClientPackets
      <3>2. Error(s, p.body.from) \in ClientPackets
        BY <2>1, ErrorType
      <3> QED
        BY <1>1, <3>1, <3>2 DEF ServerStart, ServerSend, TypeOK
    <2>4. rung' \subseteq Servers \cup {Client}
      BY <1>1, <1>a, RungType DEF ServerStart
    <2>5. /\ sticks' \in [Servers -> 0 .. MaxTries]
          /\ \A x \in Servers : spc'[x] = "waiting" => sticks'[x] < MaxTries
      <3>1. /\ sticks \in [Servers -> 0 .. MaxTries]
            /\ spc \in [Servers -> {"free", "waiting", "done", "failed", "expired"}]
            /\ \A x \in Servers : spc[x] = "waiting" => sticks[x] < MaxTries
        BY DEF TypeOK
      <3>2. /\ sticks' = [sticks EXCEPT ![s] = 0]
            /\ \E v : spc' = [spc EXCEPT ![s] = v]
        BY <1>1 DEF ServerStart
      <3>3. 0 \in 0 .. MaxTries /\ 0 < MaxTries
        BY ReadAssumption
      <3>4. sticks' \in [Servers -> 0 .. MaxTries]
        BY <3>1, <3>2, <3>3
      <3>5. ASSUME NEW x \in Servers, spc'[x] = "waiting"
            PROVE  sticks'[x] < MaxTries
        <4>1. CASE x = s
          BY <4>1, <3>1, <3>2, <3>3
        <4>2. CASE x # s
          BY <4>2, <3>1, <3>2, <3>5
        <4> QED
          BY <4>1, <4>2
      <3> QED
        BY <3>4, <3>5
    <2> QED
      BY <1>1, <2>1, <2>2, <2>3, <2>4, <2>5 DEF ServerStart, TypeOK
  <1>2. ASSUME NEW p \in toServer, ServerFinish(s, p)
        PROVE  TypeInv'
    <2>1. toServer' \subseteq ServerPackets
      BY <1>2, ReceivedSubset DEF ServerFinish, TypeOK
    <2> QED
      BY <1>2, <2>1 DEF ServerFinish, TypeOK
  <1>3. ASSUME NEW p \in toServer, ServerAdvance(s, p)
        PROVE  TypeInv'
    <2>1. toServer' \subseteq ServerPackets
      BY <1>3, ReceivedSubset DEF ServerAdvance, TypeOK
    <2>2. toClient' \subseteq ClientPackets
      <3>1. Data(s, sblock[s] + 1) \in ClientPackets
        BY DataType, ServerTypes
      <3>2. Error(s, sfrom[s]) \in ClientPackets
        BY ErrorType, ServerTypes
      <3> QED
        BY <1>3, <3>1, <3>2 DEF ServerAdvance, ServerSend, TypeOK
    <2>3. /\ sblock' \in [Servers -> Nat \ {0}]
          /\ sticks' \in [Servers -> 0 .. MaxTries]
          /\ spc' \in [Servers -> {"free", "waiting", "done", "failed", "expired"}]
          /\ \A x \in Servers : spc'[x] = "waiting" => sticks'[x] < MaxTries
      <3>1. \/ /\ sblock' = [sblock EXCEPT ![s] = @ + 1]
               /\ sticks' = [sticks EXCEPT ![s] = 0] /\ spc' = spc
            \/ /\ spc' = [spc EXCEPT ![s] = "failed"]
               /\ sblock' = sblock /\ sticks' = sticks
        BY <1>3 DEF ServerAdvance
      <3>2. 0 \in 0 .. MaxTries /\ 0 < MaxTries
        BY ReadAssumption
      <3>3. sblock' \in [Servers -> Nat \ {0}]
        <4>1. sblock \in [Servers -> Nat \ {0}] /\ sblock[s] + 1 \in Nat \ {0}
          BY ServerTypes
        <4>2. [sblock EXCEPT ![s] = sblock[s] + 1] \in [Servers -> Nat \ {0}]
          BY <4>1
        <4> QED
          BY <4>1, <4>2, <3>1
      <3>4. sticks' \in [Servers -> 0 .. MaxTries]
        BY <3>1, <3>2 DEF TypeOK
      <3>5. spc' \in [Servers -> {"free", "waiting", "done", "failed", "expired"}]
        BY <3>1 DEF TypeOK
      <3>6. ASSUME NEW x \in Servers, spc'[x] = "waiting"
            PROVE  sticks'[x] < MaxTries
        BY <3>1, <3>2, <3>6 DEF TypeOK
      <3> QED
        BY <3>3, <3>4, <3>5, <3>6
    <2>4. rung' \subseteq Servers \cup {Client}
      BY <1>3, <1>a, RungType DEF ServerAdvance
    <2> QED
      BY <1>3, <2>1, <2>2, <2>3, <2>4 DEF ServerAdvance, TypeOK
  <1>4. ASSUME NEW p \in toServer, ServerResync(s, p)
        PROVE  TypeInv'
    <2>1. toServer' \subseteq ServerPackets
      BY <1>4, ReceivedSubset, FlushedSubset DEF ServerResync, TypeOK
    <2>2. toClient' \subseteq ClientPackets
      <3>1. Data(s, sblock[s]) \in ClientPackets
        BY DataType, ServerTypes
      <3> QED
        BY <1>4, <3>1 DEF ServerResync, ServerSend, TypeOK
    <2>3. rung' \subseteq Servers \cup {Client}
      BY <1>4, <1>a, RungType DEF ServerResync
    <2> QED
      BY <1>4, <2>1, <2>2, <2>3 DEF ServerResync, TypeOK
  <1>5. ASSUME NEW p \in toServer, ServerIgnore(s, p)
        PROVE  TypeInv'
    <2>1. toServer' \subseteq ServerPackets
      BY <1>5, ReceivedSubset DEF ServerIgnore, TypeOK
    <2>2. rung' \subseteq Servers \cup {Client}
      BY <1>5, <1>a, RungType DEF ServerIgnore
    <2> QED
      BY <1>5, <2>1, <2>2 DEF ServerIgnore, TypeOK
  <1>6. CASE ServerTimeout(s)
    <2>1. toClient' \subseteq ClientPackets
      <3>1. Data(s, sblock[s]) \in ClientPackets
        BY DataType, ServerTypes
      <3> QED
        BY <1>6, <3>1 DEF ServerTimeout, ServerSend, TypeOK
    <2>2. /\ sticks' \in [Servers -> 0 .. MaxTries]
          /\ spc' \in [Servers -> {"free", "waiting", "done", "failed", "expired"}]
          /\ \A x \in Servers : spc'[x] = "waiting" => sticks'[x] < MaxTries
      <3>1. /\ sticks' = [sticks EXCEPT ![s] = @ + 1] /\ sticks[s] < MaxTries
            /\ \/ spc' = [spc EXCEPT ![s] = "expired"]
               \/ spc' = spc /\ ~(sticks'[s] >= MaxTries)
        BY <1>6 DEF ServerTimeout, Counted, GivesUp
      <3>a. sticks \in [Servers -> 0 .. MaxTries]
        BY DEF TypeOK
      <3>2. sticks[s] + 1 \in 0 .. MaxTries
        BY ONLY <3>1, <3>a, ReadAssumption, s \in Servers
      <3>3. sticks' \in [Servers -> 0 .. MaxTries]
        BY ONLY <3>1, <3>2, <3>a
      <3>4. spc' \in [Servers -> {"free", "waiting", "done", "failed", "expired"}]
        BY <3>1 DEF TypeOK
      <3>5. ASSUME NEW x \in Servers, spc'[x] = "waiting"
            PROVE  sticks'[x] < MaxTries
        BY SMTT(30), <3>1, <3>2, <3>5, ReadAssumption DEF TypeOK
      <3> QED
        BY <3>3, <3>4, <3>5
    <2>3. rung' \subseteq Servers \cup {Client}
      BY <1>6, <1>a, RungType DEF ServerTimeout
    <2>4. toServer' \subseteq ServerPackets
      BY <1>6 DEF ServerTimeout, TypeOK
    <2> QED
      BY <1>6, <2>1, <2>2, <2>3, <2>4 DEF ServerTimeout, TypeOK
  <1> QED
    BY <1>1, <1>2, <1>3, <1>4, <1>5, <1>6 DEF ServerReceive

LEMMA StepType == TypeInv /\ [Next]_vars => TypeInv'
  <1> SUFFICES ASSUME TypeInv, [Next]_vars PROVE TypeInv'
    OBVIOUS
  <1>1. CASE \/ StartGet \/ ClientReceive \/ ClientWrite
            \/ ClientTimeout \/ ClientInterrupt
    BY <1>1, ClientStepType
  <1>2. CASE \E s \in Servers : \/ \E p \in toServer : ServerStart(s, p)
                               \/ ServerReceive(s) \/ ServerTimeout(s)
    BY <1>2, ServerStepType
  <1>3. CASE Lose
    BY SMTT(30), <1>3, ReadAssumption DEF Lose, TypeInv, TypeOK, clientVars, netVars, copyVars, serverVars
  <1>4. CASE UNCHANGED vars
    BY <1>4 DEF TypeInv, TypeOK, vars, clientVars, netVars, copyVars, serverVars
  <1> QED
    BY <1>1, <1>2, <1>3, <1>4 DEF Next, Listen

\* Every variable keeps to its type: block numbers on the wire fit their
\* field, every packet is well formed and comes from a process that exists,
\* and neither end counts more expiries than it has tries.
THEOREM TypeCorrect == Spec => []TypeOK
  <1>1. TypeInv => TypeOK
    BY DEF TypeInv
  <1> QED
    BY <1>1, InitType, StepType, PTL DEF Spec

-----------------------------------------------------------------------------
(* The inductive invariant, for sessions in which every get opens a socket. *)

Live(s) == spc[s] # "free"

\* Every request on its way is one that the user made.
RequestsKnown ==
    \A p \in toServer :
        p.body.op = "RRQ" =>
            p.body.from \in 1 .. turn /\ p.body.file = Session[p.body.from]

\* Every server serves such a request, and is at most one block ahead of what
\* its client has accepted.
ServersKnown ==
    \A s \in Servers :
        /\ ~Live(s) => sblock[s] = 1
        /\ Live(s) => /\ sfrom[s] \in 1 .. turn
                      /\ sfile[s] = Session[sfrom[s]]
                      /\ sblock[s] <= amount[sfrom[s]] + 1
        /\ spc[s] = "waiting" => sblock[s] <= FileLen[sfile[s]]
        /\ spc[s] = "done" => amount[sfrom[s]] = FileLen[sfile[s]]

\* Every packet to a client comes from a server, which has sent it.
DataKnown ==
    \A m \in toClient :
        /\ Live(m.src) /\ m.dst = sfrom[m.src]
        /\ m.op = "ERROR" => spc[m.src] = "failed"
        /\ m.op = "DATA" => /\ m.file = sfile[m.src]
                            /\ m.pos \in 1 .. sblock[m.src]
                            /\ m.pos <= FileLen[m.file]
                            /\ m.num = Wire(m.pos)

\* Every acknowledgement is of a block that the client has accepted, unless it
\* answers an ERROR, in which case no one is there to read it.
AcksKnown ==
    \A p \in toServer :
        p.body.op = "ACK" =>
            /\ p.dst \in Servers /\ Live(p.dst)
            /\ \/ p.body.num \in 1 .. amount[sfrom[p.dst]]
               \/ spc[p.dst] = "failed"

\* No get has accepted more than the file has, nor so much that a block number
\* is ambiguous, and a get that is yet to come has accepted nothing.
AmountsKnown ==
    \A t \in Turns :
        /\ amount[t] < BlockMod /\ amount[t] <= FileLen[Session[t]]
        /\ t > turn => amount[t] = 0 /\ outcome[t] = "none"

\* The block accepted last may be in the buffer still, or have died there.
Behind(t) ==
    \/ outcome[t] = "interrupted"
    \/ t = turn /\ cpc \in {"flushing", "closing"}

\* What has been accepted has been given to the disk, but for that block.
CopiesKnown ==
    \A t \in Turns :
        /\ FirstBlocks(dst[t], refused[t], Session[t], given[t])
        /\ given[t] = amount[t] \/ (given[t] + 1 = amount[t] /\ Behind(t))
        /\ outcome[t] = "ok" => given[t] = FileLen[Session[t]]

\* A client that waits has the number of blocks that its variables say, and one
\* that has yet to write has one block in its buffer: the last or not.
ClientKnown ==
    /\ turn > 0 => sock = turn
    /\ cpc # "prompt" => turn > 0 /\ outcome[turn] = "none"
    /\ cpc \in {"waiting", "flushing"} =>
          /\ block = amount[turn] + 1
          /\ peer \in Servers => Live(peer) /\ sfrom[peer] = turn
          /\ \/ ackbuf = Rrq(Session[turn], turn)
             \/ /\ ackbuf.op = "ACK" /\ peer \in Servers
                /\ ackbuf.num = block - 1 /\ block > 1
    /\ cpc = "waiting" => pending = << >>
    /\ cpc \in {"flushing", "closing"} =>
          /\ pending = << <<Session[turn], amount[turn]>> >>
          /\ given[turn] + 1 = amount[turn]
    /\ cpc = "flushing" => amount[turn] < FileLen[Session[turn]]
    /\ cpc = "closing" => amount[turn] = FileLen[Session[turn]]

IInv ==
    /\ TypeInv
    /\ RequestsKnown /\ ServersKnown /\ DataKnown
    /\ AcksKnown /\ AmountsKnown /\ CopiesKnown /\ ClientKnown

LEMMA ClientTypes ==
  ASSUME TypeInv
  PROVE  /\ turn \in Nat /\ turn \in 0 .. Len(Session) /\ block \in Nat
         /\ cpc # "prompt" => turn \in Turns
         /\ amount \in [Turns -> Nat] /\ given \in [Turns -> Nat]
         /\ dst \in [Turns -> Seq(Files \X Nat)]
         /\ refused \in [Turns -> SUBSET (Files \X Nat)]
         /\ outcome \in [Turns -> Outcomes]
         /\ \A t \in Turns : t \in Nat /\ Session[t] \in Files
                             /\ FileLen[Session[t]] \in Nat
  <1>1. \A t \in Turns : t \in Nat /\ Session[t] \in Files /\ FileLen[Session[t]] \in Nat
    BY SessionType, ReadAssumption
  <1>2. /\ turn \in 0 .. Len(Session) /\ block \in Nat
        /\ cpc # "prompt" => turn \in Turns
        /\ amount \in [Turns -> Nat] /\ given \in [Turns -> Nat]
        /\ outcome \in [Turns -> Outcomes]
    BY DEF TypeInv, TypeOK
  <1>3. /\ dst \in [Turns -> Seq(Files \X Nat)]
        /\ refused \in [Turns -> SUBSET (Files \X Nat)]
    BY DEF TypeInv, TypeOK
  <1> QED
    BY <1>1, <1>2, <1>3

LEMMA NothingStored == ASSUME NEW f PROVE FirstBlocks(<< >>, {}, f, 0)
  <1>1. Blocks(f, 0) = {} /\ Range(<< >>) = {} /\ DOMAIN << >> = {}
    BY DEF Blocks, Range
  <1> QED
    BY <1>1 DEF FirstBlocks

LEMMA InitInv == Init => IInv
  <1> SUFFICES ASSUME Init PROVE IInv
    OBVIOUS
  <1>1. AmountsKnown
    <2>1. \A t \in Turns : FileLen[Session[t]] \in Nat
      BY SessionType, ReadAssumption
    <2> QED
      BY <2>1, ReadAssumption DEF Init, AmountsKnown
  <1>2. ServersKnown
    BY DEF Init, ServersKnown, Live
  <1>3. RequestsKnown /\ DataKnown /\ AcksKnown /\ ClientKnown
    BY DEF Init, RequestsKnown, DataKnown, AcksKnown, ClientKnown
  <1>4. CopiesKnown
    <2>1. ASSUME NEW t \in Turns
          PROVE  /\ dst[t] = << >> /\ refused[t] = {} /\ given[t] = 0
                 /\ amount[t] = 0 /\ outcome[t] = "none"
      BY DEF Init
    <2> QED
      BY <2>1, NothingStored DEF CopiesKnown
  <1> QED
    BY <1>1, <1>2, <1>3, <1>4, InitType DEF IInv

\* The block that the client waits for is the next one of the file it has
\* asked for: the heart of the matter.  Its number on the wire is that of a
\* block at most one ahead, and too small to have wrapped around.
LEMMA NextBlock ==
  ASSUME IInv, cpc = "waiting", NEW m \in Inbox, m.op = "DATA", Wanted(m)
  PROVE  /\ m.file = Session[turn] /\ m.pos = block
         /\ block < BlockMod /\ block <= FileLen[Session[turn]]
  <1>1. /\ m \in toClient /\ m.dst = turn /\ turn \in Turns
        /\ m.src \in Servers /\ m.pos \in Nat /\ block \in Nat
        /\ m.num \in 0 .. BlockMod - 1 /\ BlockMod \in Nat
    BY DataFields, ReadAssumption
       DEF Inbox, IInv, ClientKnown, TypeInv, TypeOK, Turns
  <1>2. /\ sfrom[m.src] = turn /\ m.file = sfile[m.src]
        /\ m.pos <= sblock[m.src] /\ m.num = Wire(m.pos)
        /\ m.pos <= FileLen[m.file]
    BY <1>1 DEF IInv, DataKnown
  <1>3. sfile[m.src] = Session[turn] /\ sblock[m.src] <= amount[turn] + 1
    BY <1>1, <1>2 DEF IInv, DataKnown, ServersKnown
  <1>4. block = amount[turn] + 1 /\ m.num = block /\ amount[turn] \in Nat
    BY <1>1, ClientTypes DEF IInv, ClientKnown, Wanted
  <1>5. m.pos <= block /\ block < BlockMod
    BY SMTT(30), <1>1, <1>2, <1>3, <1>4 DEF IInv, TypeInv, TypeOK
  <1>6. Wire(m.pos) = m.pos
    BY <1>1, <1>5, WireSmall
  <1> QED
    BY <1>1, <1>2, <1>3, <1>4, <1>5, <1>6

LEMMA StartInv == IInv /\ Reconnect /\ StartGet => IInv'
  <1> SUFFICES ASSUME IInv, Reconnect, StartGet PROVE IInv'
    OBVIOUS
  <1> USE DEF IInv, copyVars, serverVars
  <1>1. TypeInv'
    BY StepType DEF Next
  <1>2. /\ turn' = turn + 1 /\ sock' = turn' /\ turn' \in Turns
        /\ turn \in Nat /\ cpc = "prompt"
        /\ ackbuf' = Rrq(Session[turn'], turn') /\ peer' = Port
        /\ toServer' = toServer \cup {To(Port, ackbuf')}
    BY SessionType DEF StartGet, ClientSend, TypeInv, TypeOK, Turns
  <1>3. RequestsKnown'
    BY <1>2 DEF StartGet, RequestsKnown, To, Rrq
  <1>4. ServersKnown'
    BY <1>2 DEF StartGet, ServersKnown, Live, TypeInv, TypeOK
  <1>5. DataKnown'
    BY DEF StartGet, DataKnown, Live
  <1>6. AcksKnown'
    BY <1>2 DEF StartGet, AcksKnown, Live, To, Rrq
  <1>7. CopiesKnown'
    BY <1>2 DEF StartGet, CopiesKnown, Behind
  <1>8. ClientKnown'
    <2>1. amount[turn'] = 0 /\ outcome[turn'] = "none"
      BY <1>2 DEF AmountsKnown
    <2> QED
      BY <1>2, <2>1, ReadAssumption DEF StartGet, ClientKnown
  <1>9. AmountsKnown'
    BY <1>2, ClientTypes DEF StartGet, AmountsKnown
  <1> QED
    BY <1>1, <1>3, <1>4, <1>5, <1>6, <1>7, <1>8, <1>9

\* The next block is accepted: what has been given to the disk lags behind by
\* that block, and its acknowledgement is genuine.
LEMMA AcceptInv ==
  ASSUME IInv, NEW m \in toClient, ClientAcceptFull(m) \/ ClientAcceptLast(m)
  PROVE  IInv'
  <1> USE DEF IInv, copyVars, serverVars
  <1>0. TypeInv'
    BY StepType DEF Next, ClientReceive
  <1>1. /\ cpc = "waiting" /\ m \in Inbox /\ m.op = "DATA" /\ Wanted(m)
        /\ cpc' \in {"flushing", "closing"}
        /\ UNCHANGED <<serverVars, turn, sock, outcome, dst, given, refused>>
        /\ toServer' = toServer \cup {To(m.src, Ack(block))}
        /\ ackbuf' = Ack(block) /\ toClient' \subseteq toClient /\ peer' = m.src
        /\ amount' = [amount EXCEPT ![turn] = @ + 1]
        /\ pending' = Append(pending, <<m.file, m.pos>>)
    BY ReceivedSubset DEF ClientAcceptFull, ClientAcceptLast, ClientSend, Queue
  <1>2. /\ m.file = Session[turn] /\ m.pos = block /\ block < BlockMod
        /\ block <= FileLen[Session[turn]] /\ block = amount[turn] + 1
    BY <1>1, NextBlock DEF ClientKnown
  <1>3. /\ turn \in Turns /\ turn \in Nat /\ m.dst = turn /\ m.src \in Servers
        /\ block \in Nat /\ amount \in [Turns -> Nat] /\ given \in [Turns -> Nat]
    BY <1>1, DataFields, ClientTypes DEF TypeInv, TypeOK, ClientKnown, Inbox
  <1>4. Live(m.src) /\ sfrom[m.src] = turn
    BY <1>1, <1>3 DEF DataKnown
  <1>5. /\ amount'[turn] = block
        /\ \A t \in Turns : /\ t # turn => amount'[t] = amount[t]
                            /\ amount[t] \in Nat /\ amount'[t] \in Nat
                            /\ amount[t] <= amount'[t]
    BY <1>1, <1>2, <1>3
  <1>6. Ack(block).num = block /\ Ack(block).op = "ACK"
    BY <1>2, <1>3, WireSmall DEF Ack
  <1>7. RequestsKnown'
    BY <1>1, <1>6 DEF RequestsKnown, To
  <1>8. ServersKnown'
    <2> SUFFICES ASSUME NEW s \in Servers
                 PROVE  /\ Live(s) => sblock[s] <= amount'[sfrom[s]] + 1
                        /\ spc[s] = "done" => amount'[sfrom[s]] = FileLen[sfile[s]]
      BY <1>1 DEF ServersKnown, Live
    <2>1. sfrom[s] \in Turns /\ sblock[s] \in Nat
      BY ServerTypes DEF TypeInv
    <2>2. Live(s) => sblock[s] <= amount'[sfrom[s]] + 1
      BY <1>5, <2>1 DEF ServersKnown
    <2>3. ASSUME spc[s] = "done" PROVE amount'[sfrom[s]] = FileLen[sfile[s]]
      <3>1. amount[sfrom[s]] = FileLen[sfile[s]] /\ sfile[s] = Session[sfrom[s]]
        BY <2>3 DEF ServersKnown, Live
      <3>2. sfrom[s] # turn
        BY <1>2, <1>3, <1>5, <3>1
      <3> QED
        BY <1>5, <2>1, <3>1, <3>2
    <2> QED
      BY <2>2, <2>3
  <1>9. DataKnown'
    BY <1>1 DEF DataKnown, Live
  <1>10. AcksKnown'
    <2> SUFFICES ASSUME NEW p \in toServer', p.body.op = "ACK"
                 PROVE  /\ p.dst \in Servers /\ Live(p.dst)
                        /\ \/ p.body.num \in 1 .. amount'[sfrom[p.dst]]
                           \/ spc[p.dst] = "failed"
      BY <1>1 DEF AcksKnown, Live
    <2>1. CASE p \in toServer
      <3>1. p.dst \in Servers /\ sfrom[p.dst] \in Turns
        BY <2>1, ServerTypes DEF AcksKnown, TypeInv
      <3> QED
        BY <1>5, <2>1, <3>1 DEF AcksKnown
    <2>2. CASE p = To(m.src, Ack(block))
      BY <1>2, <1>3, <1>4, <1>5, <1>6, <2>2 DEF To
    <2> QED
      BY <1>1, <2>1, <2>2
  <1>11. AmountsKnown'
    BY <1>1, <1>2, <1>3, <1>5 DEF AmountsKnown
  <1>12. given[turn] = amount[turn] /\ outcome[turn] = "none"
    BY <1>1, <1>3 DEF CopiesKnown, Behind, ClientKnown
  <1>13. CopiesKnown'
    <2> SUFFICES ASSUME NEW t \in Turns
                 PROVE  \/ given[t] = amount'[t]
                        \/ given[t] + 1 = amount'[t] /\ Behind(t)'
      BY <1>1 DEF CopiesKnown
    <2>1. CASE t = turn
      BY <1>1, <1>2, <1>5, <1>12, <2>1 DEF Behind
    <2>2. CASE t # turn
      BY <1>1, <1>5, <2>2 DEF CopiesKnown, Behind
    <2> QED
      BY <2>1, <2>2
  <1>14. ClientKnown'
    <2>1. turn > 0 /\ sock = turn
      BY <1>1 DEF ClientKnown
    <2>2. /\ pending' = << <<Session[turn], amount'[turn]>> >>
          /\ given[turn] + 1 = amount'[turn]
      <3>1. pending = << >>
        BY <1>1 DEF ClientKnown
      <3>2. pending' = Append(<< >>, <<Session[turn], amount'[turn]>>)
        BY <1>1, <1>2, <1>5, <3>1
      <3> QED
        BY <1>2, <1>5, <1>12, <3>2
    <2>3. FileLen[Session[turn]] \in Nat
      BY <1>3, ClientTypes
    <2>4. CASE ClientAcceptFull(m)
      <3>1. /\ cpc' = "flushing" /\ block' = block + 1
            /\ block < FileLen[Session[turn]]
        BY <1>2, <2>4 DEF ClientAcceptFull, Full
      <3>2. ackbuf'.op = "ACK" /\ ackbuf'.num = block' - 1 /\ block' > 1
        BY <1>1, <1>2, <1>3, <1>5, <1>6, <3>1
      <3>3. block' = amount'[turn] + 1
        BY <1>5, <3>1
      <3>4. peer' \in Servers /\ spc'[peer'] # "free" /\ sfrom'[peer'] = turn
        BY <1>1, <1>3, <1>4 DEF Live
      <3> QED
        BY <1>1, <1>5, <1>12, <2>1, <2>2, <3>1, <3>2, <3>3, <3>4 DEF ClientKnown, Live
    <2>5. CASE ClientAcceptLast(m)
      <3>1. cpc' = "closing" /\ ~(block < FileLen[Session[turn]])
        BY <1>2, <2>5 DEF ClientAcceptLast, Full
      <3>2. amount'[turn] = FileLen[Session[turn]]
        BY <1>2, <1>3, <1>5, <2>3, <3>1
      <3> QED
        BY <1>1, <1>12, <2>1, <2>2, <3>1, <3>2 DEF ClientKnown
    <2> QED
      BY <2>4, <2>5
  <1> QED
    BY <1>0, <1>7, <1>8, <1>9, <1>10, <1>11, <1>13, <1>14

\* The next block is stored behind the ones before.
LEMMA NextStored ==
  ASSUME NEW S, NEW d \in Seq(S), NEW missing, NEW f, NEW n \in Nat,
         FirstBlocks(d, missing, f, n), <<f, n + 1>> \in S
  PROVE  FirstBlocks(Append(d, <<f, n + 1>>), missing, f, n + 1)
  <1> DEFINE b == <<f, n + 1>>
             w == Append(d, b)
  <1>1. Len(d) \in Nat /\ DOMAIN d = 1 .. Len(d)
    OBVIOUS
  <1>2. DOMAIN w = 1 .. Len(d) + 1 /\ w[Len(d) + 1] = b
    BY <1>1
  <1>3. \A i \in 1 .. Len(d) : i \in DOMAIN w /\ w[i] = d[i]
    BY <1>1
  <1>4. b[2] = n + 1
    OBVIOUS
  <1> HIDE DEF w
  <1>5. Range(w) = Range(d) \cup {b}
    BY <1>1, <1>2, <1>3 DEF Range
  <1>6. Blocks(f, n + 1) = Blocks(f, n) \cup {b}
    BY DEF Blocks
  <1>7. b \notin Blocks(f, n) /\ \A x \in Blocks(f, n) : x[2] \in 1 .. n
    BY DEF Blocks
  <1>8. missing \subseteq Blocks(f, n) /\ Range(d) = Blocks(f, n) \ missing
    BY DEF FirstBlocks
  <1>9. missing \subseteq Blocks(f, n + 1) /\ Range(w) = Blocks(f, n + 1) \ missing
    BY <1>5, <1>6, <1>7, <1>8
  <1>10. ASSUME NEW i \in DOMAIN w, NEW j \in DOMAIN w, i < j
         PROVE  w[i][2] < w[j][2]
    <2>1. i \in 1 .. Len(d) /\ w[i] = d[i]
      BY <1>1, <1>2, <1>3, <1>10
    <2>2. CASE j = Len(d) + 1
      <3>1. d[i] \in Blocks(f, n)
        BY <1>1, <1>8, <2>1 DEF Range
      <3>2. d[i][2] \in 1 .. n
        BY <1>7, <3>1
      <3> QED
        BY <1>2, <1>4, <2>1, <2>2, <3>2
    <2>3. CASE j # Len(d) + 1
      <3>1. j \in DOMAIN d /\ w[j] = d[j] /\ i \in DOMAIN d
        BY <1>1, <1>2, <1>3, <1>10, <2>1, <2>3
      <3> QED
        BY <1>10, <2>1, <3>1 DEF FirstBlocks
    <2> QED
      BY <2>2, <2>3
  <1>11. FirstBlocks(w, missing, f, n + 1)
    BY <1>9, <1>10 DEF FirstBlocks
  <1> QED
    BY <1>11 DEF w

\* A block that the disk refuses leaves the others as they are.
LEMMA NextRefused ==
  ASSUME NEW d, NEW missing, NEW f, NEW n \in Nat, FirstBlocks(d, missing, f, n)
  PROVE  FirstBlocks(d, missing \cup {<<f, n + 1>>}, f, n + 1)
  <1>1. Blocks(f, n + 1) = Blocks(f, n) \cup {<<f, n + 1>>}
    BY DEF Blocks
  <1>2. <<f, n + 1>> \notin Blocks(f, n)
    BY DEF Blocks
  <1>3. missing \subseteq Blocks(f, n) /\ Range(d) = Blocks(f, n) \ missing
    BY DEF FirstBlocks
  <1>4. /\ missing \cup {<<f, n + 1>>} \subseteq Blocks(f, n + 1)
        /\ Range(d) = Blocks(f, n + 1) \ (missing \cup {<<f, n + 1>>})
    BY <1>1, <1>2, <1>3
  <1> QED
    BY <1>4 DEF FirstBlocks

\* write_behind() gives the block in the buffer, the next one, to the disk.
LEMMA NextGiven ==
  ASSUME IInv, cpc \in {"flushing", "closing"}, WriteBehind
  PROVE  /\ turn \in Turns /\ Session[turn] \in Files /\ given[turn] \in Nat
         /\ given[turn] < amount[turn] /\ amount[turn] <= FileLen[Session[turn]]
         /\ pending' = << >> /\ amount' = amount
         /\ given' = [given EXCEPT ![turn] = @ + 1] /\ given'[turn] = amount[turn]
         /\ \/ /\ dst' = [dst EXCEPT ![turn] = Append(@, <<Session[turn], given[turn] + 1>>)]
               /\ UNCHANGED refused
            \/ /\ refused' = [refused EXCEPT
                                  ![turn] = @ \cup {<<Session[turn], given[turn] + 1>>}]
               /\ UNCHANGED dst
         /\ FirstBlocks(dst'[turn], refused'[turn], Session[turn], given'[turn])
         /\ \A t \in Turns : t # turn => /\ given'[t] = given[t] /\ dst'[t] = dst[t]
                                         /\ refused'[t] = refused[t]
  <1> DEFINE f == Session[turn]
             n == given[turn]
             b == <<f, n + 1>>
  <1>1. /\ turn \in Turns /\ f \in Files /\ n \in Nat /\ amount[turn] \in Nat
        /\ given \in [Turns -> Nat] /\ dst \in [Turns -> Seq(Files \X Nat)]
        /\ refused \in [Turns -> SUBSET (Files \X Nat)]
    BY ClientTypes DEF IInv
  <1>2. pending = <<b>> /\ n + 1 = amount[turn] /\ amount[turn] <= FileLen[f]
    BY <1>1 DEF IInv, ClientKnown, AmountsKnown
  <1>3. FirstBlocks(dst[turn], refused[turn], f, n)
    BY <1>1 DEF IInv, CopiesKnown
  <1>4. b \in Files \X Nat /\ dst[turn] \in Seq(Files \X Nat)
    BY <1>1
  <1>5. FirstBlocks(Append(dst[turn], b), refused[turn], f, n + 1)
    BY <1>1, <1>3, <1>4, NextStored
  <1>6. FirstBlocks(dst[turn], refused[turn] \cup {b}, f, n + 1)
    BY <1>1, <1>3, NextRefused
  <1> HIDE DEF b
  <1>7. Head(pending) = b /\ Tail(pending) = << >>
    BY <1>2
  <1>8. /\ pending' = << >> /\ amount' = amount
        /\ given' = [given EXCEPT ![turn] = @ + 1]
        /\ \/ dst' = [dst EXCEPT ![turn] = Append(@, b)] /\ UNCHANGED refused
           \/ refused' = [refused EXCEPT ![turn] = @ \cup {b}] /\ UNCHANGED dst
    BY <1>7 DEF WriteBehind
  <1>9. given'[turn] = n + 1 /\ \A t \in Turns : t # turn => given'[t] = given[t]
    BY <1>1, <1>8
  <1>10. FirstBlocks(dst'[turn], refused'[turn], f, n + 1)
    BY <1>1, <1>5, <1>6, <1>8
  <1>11. \A t \in Turns : t # turn => dst'[t] = dst[t] /\ refused'[t] = refused[t]
    BY <1>1, <1>8
  <1> QED
    BY <1>1, <1>2, <1>8, <1>9, <1>10, <1>11 DEF b

LEMMA WriteInv == ASSUME IInv, ClientFlush \/ ClientClose PROVE IInv'
  <1> USE DEF IInv, copyVars, serverVars
  <1>1. TypeInv'
    BY StepType DEF Next, ClientWrite
  <1>2. /\ cpc \in {"flushing", "closing"} /\ WriteBehind
        /\ UNCHANGED <<turn, sock, block, peer, ackbuf, serverVars, toClient, toServer>>
        /\ \/ cpc = "flushing" /\ cpc' = "waiting" /\ UNCHANGED outcome
           \/ cpc = "closing" /\ Prompt("ok")
    BY DEF ClientFlush, ClientClose
  <1>3. /\ turn \in Turns /\ turn \in Nat /\ pending' = << >> /\ amount' = amount
        /\ given'[turn] = amount[turn]
        /\ FirstBlocks(dst'[turn], refused'[turn], Session[turn], given'[turn])
        /\ \A t \in Turns : t # turn => /\ given'[t] = given[t] /\ dst'[t] = dst[t]
                                        /\ refused'[t] = refused[t]
    BY <1>2, NextGiven, ClientTypes
  <1>4. /\ \A t \in Turns : t # turn => outcome'[t] = outcome[t]
        /\ outcome'[turn] \in {"none", "ok"}
        /\ outcome'[turn] = "ok" => amount[turn] = FileLen[Session[turn]]
        /\ outcome[turn] = "none" /\ turn > 0 /\ \A t \in Turns : t \in Nat
    BY <1>2, <1>3, ClientTypes DEF ClientKnown, Prompt
  <1>5. RequestsKnown' /\ ServersKnown' /\ DataKnown' /\ AcksKnown'
    BY <1>2, <1>3 DEF RequestsKnown, ServersKnown, DataKnown, AcksKnown, Live
  <1>6. AmountsKnown'
    BY <1>2, <1>3, <1>4 DEF AmountsKnown
  <1>7. CopiesKnown'
    <2> SUFFICES ASSUME NEW t \in Turns
                 PROVE  /\ FirstBlocks(dst'[t], refused'[t], Session[t], given'[t])
                        /\ \/ given'[t] = amount[t]
                           \/ given'[t] + 1 = amount[t] /\ Behind(t)'
                        /\ outcome'[t] = "ok" => given'[t] = FileLen[Session[t]]
      BY <1>3 DEF CopiesKnown
    <2>1. CASE t = turn
      BY <1>3, <1>4, <2>1
    <2>2. CASE t # turn
      BY <1>2, <1>3, <1>4, <2>2 DEF CopiesKnown, Behind
    <2> QED
      BY <2>1, <2>2
  <1>8. ClientKnown'
    <2>1. CASE cpc' = "waiting" /\ cpc = "flushing" /\ UNCHANGED outcome
      BY <1>2, <1>3, <2>1 DEF ClientKnown, Live
    <2>2. CASE cpc' = "prompt"
      BY <1>2, <2>2 DEF ClientKnown
    <2> QED
      BY <1>2, <2>1, <2>2 DEF Prompt
  <1> QED
    BY <1>1, <1>5, <1>6, <1>7, <1>8

\* A step of the client that accepts nothing, and sends at most an answer to
\* one of the servers, keeps what is known of servers and packets.
LEMMA AnswerInv ==
  ASSUME IInv, UNCHANGED <<turn, amount, serverVars>>, toClient' \subseteq toClient,
         NEW d \in Servers \cup {Port}, NEW b \in Bodies,
         toServer' \subseteq toServer \cup {To(d, b)},
         b.op = "RRQ" => b = Rrq(Session[turn], turn) /\ turn > 0 /\ turn \in Nat,
         b.op = "ACK" => /\ d \in Servers /\ Live(d)
                         /\ \/ b.num \in 1 .. amount[sfrom[d]]
                            \/ spc[d] = "failed"
  PROVE  RequestsKnown' /\ ServersKnown' /\ DataKnown' /\ AcksKnown'
  <1> USE DEF IInv, copyVars, serverVars
  <1>1. RequestsKnown'
    <2> SUFFICES ASSUME NEW p \in toServer', p.body.op = "RRQ"
                 PROVE  p.body.from \in 1 .. turn /\ p.body.file = Session[p.body.from]
      BY DEF RequestsKnown
    <2>1. CASE p \in toServer
      BY <2>1 DEF RequestsKnown
    <2>2. CASE p = To(d, b)
      BY <2>2 DEF To, Rrq
    <2> QED
      BY <2>1, <2>2
  <1>2. AcksKnown'
    BY DEF AcksKnown, To, Live
  <1> QED
    BY <1>1, <1>2 DEF ServersKnown, DataKnown, Live

\* The contents of ackbuf may be sent, and sent again, to whoever serves the
\* present transfer.
LEMMA AckbufInv ==
  ASSUME IInv, cpc = "waiting", NEW d,
         d = peer \/ (d \in Servers /\ Live(d) /\ sfrom[d] = turn),
         UNCHANGED <<turn, amount, serverVars>>, toClient' \subseteq toClient,
         toServer' \subseteq toServer \cup {To(d, ackbuf)}
  PROVE  RequestsKnown' /\ ServersKnown' /\ DataKnown' /\ AcksKnown'
  <1>1. d \in Servers \cup {Port} /\ ackbuf \in Bodies
    BY DEF IInv, TypeInv, TypeOK
  <1>2. turn \in Nat /\ turn > 0 /\ turn \in Turns
    BY DEF IInv, TypeInv, TypeOK, Turns
  <1>3. ASSUME ackbuf.op = "RRQ" PROVE ackbuf = Rrq(Session[turn], turn)
    BY <1>3 DEF IInv, ClientKnown
  <1>4. ASSUME ackbuf.op = "ACK"
        PROVE  d \in Servers /\ Live(d) /\ ackbuf.num \in 1 .. amount[sfrom[d]]
    <2>1. /\ peer \in Servers /\ Live(peer) /\ sfrom[peer] = turn
          /\ ackbuf.num = block - 1 /\ block > 1 /\ block = amount[turn] + 1
      BY <1>4 DEF IInv, ClientKnown, Rrq
    <2>2. block \in Nat /\ amount[turn] \in Nat
      BY <1>2, ClientTypes DEF IInv
    <2> QED
      BY <2>1, <2>2
  <1> QED
    BY <1>1, <1>2, <1>3, <1>4, AnswerInv

\* A get that ends without success: at once, or with a block in the buffer when
\* the user interrupts it.
LEMMA EndInv ==
  ASSUME IInv, NEW how \in {"error", "timeout", "interrupted"}, Prompt(how),
         cpc = "waiting" \/ (cpc # "prompt" /\ how = "interrupted"),
         UNCHANGED <<turn, sock, copyVars>>
  PROVE  AmountsKnown' /\ CopiesKnown' /\ ClientKnown'
  <1> USE DEF IInv, copyVars
  <1>1. /\ turn \in Turns /\ turn \in Nat /\ outcome \in [Turns -> Outcomes]
        /\ \A t \in Turns : t \in Nat
    BY ClientTypes
  <1>2. /\ cpc' = "prompt" /\ outcome[turn] = "none" /\ outcome'[turn] = how
        /\ \A t \in Turns : t # turn => outcome'[t] = outcome[t]
    BY <1>1 DEF Prompt, ClientKnown
  <1>3. AmountsKnown'
    BY <1>1, <1>2 DEF AmountsKnown
  <1>4. CopiesKnown'
    <2> SUFFICES ASSUME NEW t \in Turns
                 PROVE  /\ given[t] = amount[t] \/ (given[t] + 1 = amount[t] /\ Behind(t)')
                        /\ outcome'[t] = "ok" => given[t] = FileLen[Session[t]]
      BY DEF CopiesKnown
    <2>1. CASE t = turn
      BY <1>2, <2>1 DEF CopiesKnown, Behind
    <2>2. CASE t # turn
      BY <1>2, <2>2 DEF CopiesKnown, Behind
    <2> QED
      BY <2>1, <2>2
  <1>5. ClientKnown'
    BY <1>2 DEF ClientKnown
  <1> QED
    BY <1>3, <1>4, <1>5

LEMMA ResyncInv ==
  ASSUME IInv, NEW m \in toClient, ClientResync(m) PROVE IInv'
  <1> USE DEF IInv, copyVars, serverVars
  <1>1. TypeInv'
    BY StepType DEF Next, ClientReceive
  <1>2. m.src \in Servers /\ Live(m.src) /\ sfrom[m.src] = turn /\ cpc = "waiting"
    BY ClientPacketFields
       DEF ClientResync, DataKnown, ClientKnown, Inbox, TypeInv, TypeOK
  <1>3. RequestsKnown' /\ ServersKnown' /\ DataKnown' /\ AcksKnown'
    <2>1. toClient' \subseteq toClient
      BY ReceivedSubset, FlushedSubset DEF ClientResync
    <2>2. toServer' \subseteq toServer \cup {To(m.src, ackbuf)}
      BY DEF ClientResync, ClientSend
    <2>3. UNCHANGED <<turn, amount, serverVars>>
      BY DEF ClientResync
    <2> QED
      BY <1>2, <2>1, <2>2, <2>3, AckbufInv
  <1>4. AmountsKnown' /\ CopiesKnown'
    BY DEF ClientResync, AmountsKnown, CopiesKnown, Behind
  <1>5. ClientKnown'
    BY <1>2 DEF ClientResync, ClientKnown, Live
  <1> QED
    BY <1>1, <1>3, <1>4, <1>5

LEMMA ErrorInv ==
  ASSUME IInv, NEW m \in toClient, ClientError(m) PROVE IInv'
  <1> USE DEF IInv, copyVars, serverVars
  <1>1. TypeInv'
    BY StepType DEF Next, ClientReceive
  <1>2. /\ m.src \in Servers /\ Live(m.src) /\ spc[m.src] = "failed"
        /\ Ack(block) \in Bodies /\ Ack(block).op = "ACK"
    BY ClientPacketFields, BodyTypes
       DEF ClientError, DataKnown, TypeInv, TypeOK, Ack
  <1>3. RequestsKnown' /\ ServersKnown' /\ DataKnown' /\ AcksKnown'
    <2>1. toClient' \subseteq toClient /\ UNCHANGED <<turn, amount, serverVars>>
      BY ReceivedSubset DEF ClientError, Prompt
    <2>2. toServer' = toServer \cup {To(m.src, Ack(block))}
      BY DEF ClientError, ClientSend
    <2> QED
      BY <1>2, <2>1, <2>2, AnswerInv
  <1>4. AmountsKnown' /\ CopiesKnown' /\ ClientKnown'
    BY EndInv DEF ClientError
  <1> QED
    BY <1>1, <1>3, <1>4

LEMMA TimeoutInv ==
  ASSUME IInv, ClientTimeout PROVE IInv'
  <1> USE DEF IInv, copyVars, serverVars
  <1>1. TypeInv'
    BY StepType DEF Next
  <1>2. RequestsKnown' /\ ServersKnown' /\ DataKnown' /\ AcksKnown'
    <2>1. /\ toClient' \subseteq toClient /\ UNCHANGED <<turn, amount, serverVars>>
          /\ toServer' \subseteq toServer \cup {To(peer, ackbuf)} /\ cpc = "waiting"
      BY DEF ClientTimeout, Prompt, ClientSend
    <2> QED
      BY <2>1, AckbufInv
  <1>3. AmountsKnown' /\ CopiesKnown' /\ ClientKnown'
    <2>1. CASE Prompt("timeout")
      BY <2>1, EndInv DEF ClientTimeout
    <2>2. CASE UNCHANGED <<cpc, outcome>>
      BY <2>2 DEF ClientTimeout, AmountsKnown, CopiesKnown, Behind, ClientKnown, Live
    <2> QED
      BY <2>1, <2>2 DEF ClientTimeout
  <1> QED
    BY <1>1, <1>2, <1>3

LEMMA InterruptInv ==
  ASSUME IInv, ClientInterrupt PROVE IInv'
  <1> USE DEF IInv, copyVars, serverVars
  <1>1. TypeInv'
    BY StepType DEF Next
  <1>2. RequestsKnown' /\ ServersKnown' /\ DataKnown' /\ AcksKnown'
    BY DEF ClientInterrupt, Prompt, RequestsKnown, ServersKnown, DataKnown,
           AcksKnown, Live
  <1>3. AmountsKnown' /\ CopiesKnown' /\ ClientKnown'
    BY EndInv DEF ClientInterrupt
  <1> QED
    BY <1>1, <1>2, <1>3

\* What is known of one packet to a client.
Sent(m) ==
    /\ Live(m.src) /\ m.dst = sfrom[m.src]
    /\ m.op = "ERROR" => spc[m.src] = "failed"
    /\ m.op = "DATA" => /\ m.file = sfile[m.src]
                        /\ m.pos \in 1 .. sblock[m.src]
                        /\ m.pos <= FileLen[m.file]
                        /\ m.num = Wire(m.pos)

\* A step of a server keeps what is known of everything but itself, because
\* servers never change their client or their file and never go back.
LEMMA ServerFrame ==
  ASSUME IInv, TypeInv', UNCHANGED clientVars, toServer' \subseteq toServer,
         \A x \in Servers :
            Live(x) => /\ Live(x)' /\ sfrom'[x] = sfrom[x] /\ sfile'[x] = sfile[x]
                       /\ sblock[x] <= sblock'[x]
                       /\ spc[x] = "failed" => spc'[x] = "failed",
         \A m \in toClient' : m \in toClient \/ Sent(m)'
  PROVE  /\ RequestsKnown' /\ DataKnown' /\ AcksKnown'
         /\ AmountsKnown' /\ CopiesKnown' /\ ClientKnown'
  <1> USE DEF IInv, clientVars, netVars, copyVars
  <1>1. RequestsKnown'
    BY DEF RequestsKnown
  <1>2. DataKnown'
    <2> SUFFICES ASSUME NEW m \in toClient' PROVE Sent(m)'
      BY DEF DataKnown, Sent
    <2> SUFFICES ASSUME m \in toClient PROVE Sent(m)'
      OBVIOUS
    <2>1. m.src \in Servers /\ Live(m.src)
      BY ClientPacketFields DEF DataKnown, TypeInv, TypeOK
    <2>2. sblock[m.src] \in Nat /\ sblock'[m.src] \in Nat
      BY <2>1 DEF TypeInv, TypeOK
    <2> QED
      BY <2>1, <2>2 DEF DataKnown, Sent
  <1>3. AcksKnown'
    BY DEF AcksKnown
  <1>4. AmountsKnown' /\ CopiesKnown'
    BY DEF AmountsKnown, CopiesKnown, Behind
  <1>5. ClientKnown'
    BY DEF ClientKnown
  <1> QED
    BY <1>1, <1>2, <1>3, <1>4, <1>5

LEMMA ServerStartInv ==
  ASSUME IInv, NEW s \in Servers, NEW p \in toServer, ServerStart(s, p) PROVE IInv'
  <1> USE DEF IInv
  <1>1. TypeInv'
    BY StepType DEF Next, Listen
  <1>2. /\ spc[s] = "free" /\ sblock[s] = 1
        /\ p.body.from \in 1 .. turn /\ p.body.file = Session[p.body.from]
        /\ p.body.from \in Turns /\ p.body.file \in Files
        /\ FileLen[p.body.file] \in Nat
    BY ServerPacketFields, ReadAssumption
       DEF ServerStart, RequestsKnown, ServersKnown, Live, TypeInv, TypeOK
  <1>3. /\ sfile' = [sfile EXCEPT ![s] = p.body.file]
        /\ sfrom' = [sfrom EXCEPT ![s] = p.body.from]
        /\ \/ spc' = [spc EXCEPT ![s] = "waiting"] /\ FileLen[p.body.file] > 0
           \/ spc' = [spc EXCEPT ![s] = "failed"]
        /\ sblock' = [sblock EXCEPT ![s] = 1] \/ sblock' = sblock
        /\ UNCHANGED clientVars
    BY DEF ServerStart
  <1>4. /\ sfile'[s] = p.body.file /\ sfrom'[s] = p.body.from /\ sblock'[s] = 1
        /\ spc'[s] \in {"waiting", "failed"}
        /\ spc'[s] = "waiting" => FileLen[p.body.file] > 0
    BY <1>2, <1>3 DEF TypeInv, TypeOK
  <1>5. \A x \in Servers : x # s => /\ sfile'[x] = sfile[x] /\ sfrom'[x] = sfrom[x]
                                    /\ sblock'[x] = sblock[x] /\ spc'[x] = spc[x]
    BY <1>3 DEF TypeInv, TypeOK
  <1>6. ASSUME NEW m \in toClient' PROVE m \in toClient \/ Sent(m)'
    <2>1. CASE spc' = [spc EXCEPT ![s] = "waiting"] /\ FileLen[p.body.file] > 0
               /\ toClient' = toClient \cup
                    {[op |-> "DATA", src |-> s, dst |-> p.body.from, num |-> Wire(1),
                      file |-> p.body.file, pos |-> 1]}
      BY <1>2, <1>4, <1>6, <2>1 DEF Sent, Live
    <2>2. CASE toClient' = toClient \cup {Error(s, p.body.from)}
               /\ spc' = [spc EXCEPT ![s] = "failed"]
      <3>1. spc'[s] = "failed"
        BY <2>2 DEF TypeInv, TypeOK
      <3> QED
        BY <1>4, <1>6, <2>2, <3>1 DEF Sent, Live, Error
    <2> QED
      BY <1>6, <2>1, <2>2 DEF ServerStart, ServerSend
  <1>7. ServersKnown'
    <2> SUFFICES ASSUME NEW x \in Servers
                 PROVE  /\ ~Live(x)' => sblock'[x] = 1
                        /\ Live(x)' => /\ sfrom'[x] \in 1 .. turn
                                       /\ sfile'[x] = Session[sfrom'[x]]
                                       /\ sblock'[x] <= amount[sfrom'[x]] + 1
                        /\ spc'[x] = "waiting" => sblock'[x] <= FileLen[sfile'[x]]
                        /\ spc'[x] = "done" => amount[sfrom'[x]] = FileLen[sfile'[x]]
      BY <1>3 DEF ServersKnown, Live, clientVars, netVars, copyVars
    <2>1. CASE x = s
      <3>1. amount[p.body.from] \in Nat
        BY <1>2, ClientTypes
      <3> QED
        BY <1>2, <1>4, <2>1, <3>1 DEF Live
    <2>2. CASE x # s
      BY <1>5, <2>2 DEF ServersKnown, Live
    <2> QED
      BY <2>1, <2>2
  <1>8. /\ RequestsKnown' /\ DataKnown' /\ AcksKnown'
        /\ AmountsKnown' /\ CopiesKnown' /\ ClientKnown'
    <2>1. toServer' \subseteq toServer
      BY ReceivedSubset DEF ServerStart
    <2>2. \A x \in Servers :
            Live(x) => /\ Live(x)' /\ sfrom'[x] = sfrom[x] /\ sfile'[x] = sfile[x]
                       /\ sblock[x] <= sblock'[x]
                       /\ spc[x] = "failed" => spc'[x] = "failed"
      BY <1>2, <1>5, ServerTypes DEF Live, TypeInv
    <2> QED
      BY <1>1, <1>3, <1>6, <2>1, <2>2, ServerFrame
  <1> QED
    BY <1>1, <1>7, <1>8

\* An acknowledgement that a waiting server takes for its last block is of its
\* last block: the client has accepted it.
LEMMA AckIsGenuine ==
  ASSUME IInv, NEW s \in Servers, spc[s] = "waiting", NEW p \in ServerInbox(s),
         p.body.op = "ACK", Acknowledges(s, p)
  PROVE  sblock[s] <= amount[sfrom[s]]
  <1>1. p \in toServer /\ p.dst = s
    BY DEF ServerInbox
  <1>2. /\ sfrom[s] \in Turns /\ amount[sfrom[s]] \in Nat
        /\ sblock[s] \in Nat /\ BlockMod \in Nat
    BY ReadAssumption DEF IInv, TypeInv, TypeOK
  <1>3. /\ amount[sfrom[s]] < BlockMod
        /\ sblock[s] <= amount[sfrom[s]] + 1
    BY <1>2 DEF IInv, AmountsKnown, ServersKnown, Live
  <1>4. Wire(sblock[s]) \in 1 .. amount[sfrom[s]]
    BY <1>1 DEF IInv, AcksKnown, Acknowledges
  <1>5. CASE sblock[s] < BlockMod
    BY <1>2, <1>4, <1>5, WireSmall
  <1>6. CASE sblock[s] = BlockMod
    <2>1. Wire(BlockMod) = 0
      BY <1>2, ReadAssumption, SMTT(30) DEF Wire
    <2> QED
      BY <1>2, <1>4, <1>6, <2>1
  <1> QED
    BY <1>2, <1>3, <1>5, <1>6

LEMMA ServerFinishInv ==
  ASSUME IInv, NEW s \in Servers, NEW p \in toServer, ServerFinish(s, p) PROVE IInv'
  <1> USE DEF IInv, clientVars, netVars, copyVars
  <1>1. TypeInv'
    BY StepType DEF Next, ServerReceive
  <1>2. /\ spc[s] = "waiting" /\ spc' = [spc EXCEPT ![s] = "done"]
        /\ UNCHANGED <<clientVars, sfile, sfrom, sblock, toClient>>
        /\ toServer' \subseteq toServer /\ sblock[s] = FileLen[sfile[s]]
    BY ReceivedSubset DEF ServerFinish
  <1>3. amount[sfrom[s]] = FileLen[sfile[s]]
    <2>1. sblock[s] <= amount[sfrom[s]]
      BY AckIsGenuine DEF ServerFinish
    <2>2. /\ sfrom[s] \in Turns /\ sfile[s] = Session[sfrom[s]]
          /\ amount[sfrom[s]] \in Nat /\ FileLen[sfile[s]] \in Nat
      BY <1>2, ReadAssumption, ServerTypes, ClientTypes DEF ServersKnown, Live, TypeInv
    <2> QED
      BY <1>2, <2>1, <2>2 DEF AmountsKnown
  <1>4. \A x \in Servers : spc'[x] = IF x = s THEN "done" ELSE spc[x]
    BY <1>2 DEF TypeInv, TypeOK
  <1>5. ServersKnown'
    BY <1>2, <1>3, <1>4 DEF ServersKnown, Live
  <1>6. /\ RequestsKnown' /\ DataKnown' /\ AcksKnown'
        /\ AmountsKnown' /\ CopiesKnown' /\ ClientKnown'
    <2>1. \A x \in Servers :
            Live(x) => /\ Live(x)' /\ sfrom'[x] = sfrom[x] /\ sfile'[x] = sfile[x]
                       /\ sblock[x] <= sblock'[x]
                       /\ spc[x] = "failed" => spc'[x] = "failed"
      BY <1>2, <1>4, ServerTypes DEF Live, TypeInv
    <2> QED
      BY <1>1, <1>2, <2>1, ServerFrame
  <1> QED
    BY <1>1, <1>5, <1>6

LEMMA ServerAdvanceInv ==
  ASSUME IInv, NEW s \in Servers, NEW p \in toServer, ServerAdvance(s, p) PROVE IInv'
  <1> USE DEF IInv, clientVars, netVars, copyVars
  <1>1. TypeInv'
    BY StepType DEF Next, ServerReceive
  <1>2. /\ spc[s] = "waiting" /\ UNCHANGED <<clientVars, sfile, sfrom>>
        /\ toServer' \subseteq toServer /\ sblock[s] < FileLen[sfile[s]]
        /\ \/ /\ sblock' = [sblock EXCEPT ![s] = @ + 1] /\ spc' = spc
              /\ toClient' = toClient \cup {Data(s, sblock[s] + 1)}
           \/ /\ spc' = [spc EXCEPT ![s] = "failed"] /\ sblock' = sblock
              /\ toClient' = toClient \cup {Error(s, sfrom[s])}
    BY ReceivedSubset DEF ServerAdvance, ServerSend
  <1>3. /\ sblock[s] \in Nat /\ sfile[s] \in Files /\ FileLen[sfile[s]] \in Nat
        /\ sfrom[s] \in Turns /\ amount[sfrom[s]] \in Nat
    BY ReadAssumption DEF TypeInv, TypeOK
  <1>4. sblock[s] <= amount[sfrom[s]]
    BY AckIsGenuine DEF ServerAdvance
  <1>5. CASE /\ sblock' = [sblock EXCEPT ![s] = @ + 1] /\ spc' = spc
             /\ toClient' = toClient \cup {Data(s, sblock[s] + 1)}
    <2>1. \A x \in Servers : sblock'[x] = IF x = s THEN sblock[s] + 1 ELSE sblock[x]
      BY <1>5 DEF TypeInv, TypeOK
    <2>2. ServersKnown'
      BY <1>2, <1>3, <1>4, <1>5, <2>1 DEF ServersKnown, Live
    <2>3. \A x \in Servers :
            Live(x) => /\ Live(x)' /\ sfrom'[x] = sfrom[x] /\ sfile'[x] = sfile[x]
                       /\ sblock[x] <= sblock'[x]
                       /\ spc[x] = "failed" => spc'[x] = "failed"
      BY <1>2, <1>5, <2>1, ServerTypes DEF Live, TypeInv
    <2>4. ASSUME NEW m, m = Data(s, sblock[s] + 1) PROVE Sent(m)'
      <3>1. /\ m.src = s /\ m.dst = sfrom[s] /\ m.op = "DATA" /\ m.file = sfile[s]
            /\ m.pos = sblock[s] + 1 /\ m.num = Wire(sblock[s] + 1)
        BY <2>4 DEF Data
      <3> QED
        BY <1>2, <1>3, <1>5, <2>1, <3>1 DEF Sent, Live
    <2>5. \A m \in toClient' : m \in toClient \/ Sent(m)'
      BY <1>5, <2>4
    <2> QED
      BY <1>1, <1>2, <2>2, <2>3, <2>5, ServerFrame
  <1>6. CASE /\ spc' = [spc EXCEPT ![s] = "failed"] /\ sblock' = sblock
             /\ toClient' = toClient \cup {Error(s, sfrom[s])}
    <2>1. \A x \in Servers : spc'[x] = IF x = s THEN "failed" ELSE spc[x]
      BY <1>6 DEF TypeInv, TypeOK
    <2>2. ServersKnown'
      BY <1>2, <1>6, <2>1 DEF ServersKnown, Live
    <2>3. \A x \in Servers :
            Live(x) => /\ Live(x)' /\ sfrom'[x] = sfrom[x] /\ sfile'[x] = sfile[x]
                       /\ sblock[x] <= sblock'[x]
                       /\ spc[x] = "failed" => spc'[x] = "failed"
      BY <1>2, <1>6, <2>1 DEF Live, TypeInv, TypeOK
    <2>4. ASSUME NEW m, m = Error(s, sfrom[s]) PROVE Sent(m)'
      BY <1>2, <2>1, <2>4 DEF Sent, Error, Live
    <2>5. \A m \in toClient' : m \in toClient \/ Sent(m)'
      BY <1>6, <2>4
    <2> QED
      BY <1>1, <1>2, <2>2, <2>3, <2>5, ServerFrame
  <1> QED
    BY <1>2, <1>5, <1>6

\* Sending a block again, ignoring a packet and giving up.
LEMMA ServerOtherInv ==
  ASSUME IInv, NEW s \in Servers,
         ServerTimeout(s) \/ \E p \in toServer : ServerResync(s, p) \/ ServerIgnore(s, p)
  PROVE  IInv'
  <1> USE DEF IInv, clientVars, netVars, copyVars, serverVars
  <1>1. TypeInv'
    BY StepType DEF Next, ServerReceive
  <1>2. /\ spc[s] = "waiting" /\ UNCHANGED <<clientVars, sfile, sfrom, sblock>>
        /\ toServer' \subseteq toServer
        /\ toClient' \subseteq toClient \cup {Data(s, sblock[s])}
        /\ spc' = spc \/ spc' = [spc EXCEPT ![s] = "expired"]
    BY ReceivedSubset, FlushedSubset
       DEF ServerTimeout, ServerResync, ServerIgnore, ServerSend
  <1>3. \A x \in Servers : spc'[x] = spc[x] \/ (x = s /\ spc'[x] = "expired")
    BY <1>2 DEF TypeInv, TypeOK
  <1>4. ServersKnown'
    BY <1>2, <1>3 DEF ServersKnown, Live
  <1>5. \A x \in Servers :
          Live(x) => /\ Live(x)' /\ sfrom'[x] = sfrom[x] /\ sfile'[x] = sfile[x]
                     /\ sblock[x] <= sblock'[x]
                     /\ spc[x] = "failed" => spc'[x] = "failed"
    BY <1>2, <1>3, ServerTypes DEF Live, TypeInv
  <1>6. ASSUME NEW m, m = Data(s, sblock[s]) PROVE Sent(m)'
    <2>1. sblock[s] \in Nat \ {0} /\ sblock[s] <= FileLen[sfile[s]]
      BY <1>2 DEF ServersKnown, TypeInv, TypeOK
    <2>2. /\ m.src = s /\ m.dst = sfrom[s] /\ m.op = "DATA" /\ m.file = sfile[s]
          /\ m.pos = sblock[s] /\ m.num = Wire(sblock[s])
      BY <1>6 DEF Data
    <2> QED
      BY <1>2, <1>3, <2>1, <2>2 DEF Sent, Live
  <1>7. \A m \in toClient' : m \in toClient \/ Sent(m)'
    BY <1>2, <1>6
  <1> QED
    BY <1>1, <1>2, <1>4, <1>5, <1>7, ServerFrame

LEMMA LoseInv == ASSUME IInv, Lose PROVE IInv'
  <1> USE DEF IInv, clientVars, netVars, copyVars, serverVars
  <1>1. TypeInv'
    BY StepType DEF Next
  <1>2. /\ UNCHANGED <<clientVars, serverVars>>
        /\ toClient' \subseteq toClient /\ toServer' \subseteq toServer
    BY DEF Lose
  <1>3. RequestsKnown' /\ ServersKnown' /\ DataKnown' /\ AcksKnown'
    BY <1>2 DEF RequestsKnown, ServersKnown, DataKnown, AcksKnown, Live
  <1>4. AmountsKnown' /\ CopiesKnown' /\ ClientKnown'
    BY <1>2 DEF AmountsKnown, CopiesKnown, Behind, ClientKnown, Live
  <1> QED
    BY <1>1, <1>3, <1>4

LEMMA StepInv == ASSUME Reconnect PROVE IInv /\ [Next]_vars => IInv'
  <1> SUFFICES ASSUME IInv, [Next]_vars PROVE IInv'
    OBVIOUS
  <1>1. CASE StartGet
    BY <1>1, StartInv
  <1>2. CASE ClientReceive
    BY <1>2, AcceptInv, ResyncInv, ErrorInv DEF ClientReceive
  <1>3. CASE ClientTimeout
    BY <1>3, TimeoutInv
  <1>4. CASE ClientInterrupt
    BY <1>4, InterruptInv
  <1>5. CASE Listen
    BY <1>5, ServerStartInv DEF Listen
  <1>6. ASSUME NEW s \in Servers, ServerReceive(s) \/ ServerTimeout(s) PROVE IInv'
    BY <1>6, ServerFinishInv, ServerAdvanceInv, ServerOtherInv DEF ServerReceive
  <1>7. CASE Lose
    BY <1>7, LoseInv
  <1>8. CASE ClientWrite
    BY <1>8, WriteInv DEF ClientWrite
  <1>9. CASE UNCHANGED vars
    <2>1. TypeInv'
      BY StepType DEF IInv
    <2> QED
      BY <1>9, <2>1 DEF IInv, RequestsKnown, ServersKnown, DataKnown, AcksKnown,
         AmountsKnown, CopiesKnown, Behind, ClientKnown, Live, vars, clientVars,
         netVars, copyVars, serverVars
  <1> QED
    BY <1>1, <1>2, <1>3, <1>4, <1>5, <1>6, <1>7, <1>8, <1>9 DEF Next

LEMMA AlwaysIInv == ASSUME Reconnect PROVE Spec => []IInv
  BY InitInv, StepInv, PTL DEF Spec

-----------------------------------------------------------------------------
(* The theorems.                                                           *)

\* The local file is at all times made of the first blocks of the file asked
\* for, but for those that the disk refused: for every session of gets that
\* name their host, with any number of servers and of lost, repeated, reordered
\* and late packets, and for files longer than 65535 blocks too.
THEOREM ReadIntegrity == ASSUME Reconnect PROVE Spec => []Integrity
  <1>1. IInv => Integrity
    <2> SUFFICES ASSUME IInv, NEW t \in Turns
                 PROVE  /\ given[t] <= amount[t] /\ amount[t] <= FileLen[Session[t]]
                        /\ FirstBlocks(dst[t], refused[t], Session[t], given[t])
      BY DEF Integrity
    <2>1. amount[t] \in Nat /\ given[t] \in Nat
      BY ClientTypes DEF IInv
    <2> QED
      BY <2>1 DEF IInv, AmountsKnown, CopiesKnown
  <1> QED
    BY <1>1, AlwaysIInv, PTL

\* A get that ended with a short block has given the whole file to the disk,
\* whichever blocks the disk refused.
THEOREM ReadComplete == ASSUME Reconnect PROVE Spec => []OkMeansComplete
  <1>1. IInv => OkMeansComplete
    BY DEF OkMeansComplete, IInv, CopiesKnown
  <1> QED
    BY <1>1, AlwaysIInv, PTL

\* A server that exits after its last acknowledgement is right: the client has
\* every block, and all are given to the disk but for the last, which is still
\* to be written, or was lost when the user interrupted.
THEOREM DoneIsReceived == ASSUME Reconnect PROVE Spec => []DoneMeansReceived
  <1>1. ASSUME IInv, NEW s \in Servers, spc[s] = "done",
               NEW t, t = sfrom[s], NEW f, f = sfile[s]
        PROVE  /\ amount[t] = FileLen[f]
               /\ \/ FirstBlocks(dst[t], refused[t], f, FileLen[f])
                  \/ /\ outcome[t] = "interrupted" \/ (t = turn /\ cpc = "closing")
                     /\ FirstBlocks(dst[t], refused[t], f, FileLen[f] - 1)
    <2>1. t \in Turns /\ f = Session[t] /\ amount[t] = FileLen[f]
      BY <1>1, ServerTypes DEF IInv, ServersKnown, Live, TypeInv
    <2>2. amount[t] \in Nat /\ given[t] \in Nat
      BY <1>1, <2>1, ClientTypes DEF IInv
    <2>3. /\ FirstBlocks(dst[t], refused[t], f, given[t])
          /\ given[t] = amount[t] \/ (given[t] + 1 = amount[t] /\ Behind(t))
      BY <1>1, <2>1 DEF IInv, CopiesKnown
    <2>4. CASE given[t] = amount[t]
      BY <2>1, <2>3, <2>4
    <2>5. CASE given[t] + 1 = amount[t] /\ Behind(t)
      <3>1. given[t] = FileLen[f] - 1
        BY <2>1, <2>2, <2>5
      <3>2. outcome[t] = "interrupted" \/ (t = turn /\ cpc = "closing")
        <4>1. ~(t = turn /\ cpc = "flushing")
          BY <1>1, <2>1, <2>2 DEF IInv, ClientKnown
        <4> QED
          BY <2>5, <4>1 DEF Behind
      <3> QED
        BY <2>1, <2>3, <3>1, <3>2
    <2> QED
      BY <2>3, <2>4, <2>5
  <1>2. IInv => DoneMeansReceived
    BY <1>1 DEF DoneMeansReceived
  <1> QED
    BY <1>2, AlwaysIInv, PTL

\* No server is more than one block ahead of its client.
THEOREM ReadLockStep == ASSUME Reconnect PROVE Spec => []LockStep
  <1>1. IInv => LockStep
    BY DEF LockStep, IInv, ServersKnown, Live
  <1> QED
    BY <1>1, AlwaysIInv, PTL

-----------------------------------------------------------------------------
(* The refinement of FileTransfer.                                         *)

LEMMA ContentType ==
  ASSUME NEW f \in Files
  PROVE  /\ Len(Content(f)) = FileLen[f]
         /\ \A i \in 1 .. FileLen[f] : Content(f)[i] = <<f, i>>
  BY ReadAssumption DEF Content

\* The status of every transfer, as FileTransfer has it.
Told == [t \in Turns |-> Status(t)]

\* The get in hand is the one that runs, and those to come are idle.
LEMMA StatusFacts ==
  ASSUME IInv
  PROVE  /\ \A t \in Turns : t > turn => Status(t) = "idle"
         /\ cpc # "prompt" => turn \in Turns /\ Status(turn) = "running"
  BY ClientTypes DEF IInv, ClientKnown, Status

\* A step that leaves turn and outcome alone tells the user nothing new.
LEMMA ToldSame == ASSUME UNCHANGED <<turn, outcome>> PROVE UNCHANGED Told
  BY DEF Told, Status

\* The end of a get changes its own status only.
LEMMA ToldAtEnd ==
  ASSUME IInv, cpc # "prompt", NEW how, Prompt(how), how # "none", UNCHANGED turn
  PROVE  Told' = [Told EXCEPT ![turn] = IF how = "ok" THEN "ok" ELSE "failed"]
  <1>1. /\ turn \in Turns /\ turn \in Nat /\ Turns \subseteq Nat
        /\ outcome \in [Turns -> Outcomes] /\ turn' = turn
        /\ outcome' = [outcome EXCEPT ![turn] = how]
    BY SessionType, ClientTypes DEF Prompt, IInv
  <1>2. ASSUME NEW t \in Turns
        PROVE  Status(t)' = IF t = turn THEN IF how = "ok" THEN "ok" ELSE "failed"
                            ELSE Status(t)
    BY <1>1 DEF Status
  <1> QED
    BY <1>1, <1>2 DEF Told

LEMMA PromiseInit == Init => Promise!Init
  <1> SUFFICES ASSUME Init PROVE Promise!Init
    OBVIOUS
  <1>1. \A t \in Turns : Status(t) = "idle"
    BY SessionType DEF Init, Status, Turns
  <1> QED
    BY <1>1 DEF Init, Promise!Init

\* A get that is issued begins a transfer.
LEMMA StartBegins == ASSUME IInv, StartGet PROVE Promise!Next
  <1>1. /\ turn' = turn + 1 /\ turn + 1 \in Turns /\ turn \in Nat
        /\ UNCHANGED <<outcome, dst, given, refused>>
    BY SessionType, ClientTypes DEF StartGet, IInv, Turns
  <1>2. ASSUME NEW t \in Turns
        PROVE  Status(t)' = IF t = turn + 1 THEN "running" ELSE Status(t)
    <2>1. t \in Nat /\ (t > turn => outcome[t] = "none")
      BY SessionType DEF IInv, AmountsKnown
    <2> QED
      BY <1>1, <2>1 DEF Status
  <1>3. Told' = [Told EXCEPT ![turn + 1] = "running"]
    BY <1>1, <1>2 DEF Told
  <1>4. Status(turn + 1) = "idle"
    BY <1>1, StatusFacts
  <1>5. Promise!Begin(turn + 1)
    BY <1>1, <1>3, <1>4 DEF Told, Promise!Begin
  <1> QED
    BY <1>1, <1>5 DEF Promise!Next

\* The block that is written is the next one of the file asked for, and "ok" is
\* said with the last.
LEMMA WriteGives == ASSUME IInv, ClientFlush \/ ClientClose PROVE Promise!Next
  <1> DEFINE n == given[turn]
             b == <<Session[turn], n + 1>>
  <1>1. /\ cpc \in {"flushing", "closing"} /\ WriteBehind /\ UNCHANGED turn
        /\ \/ cpc = "flushing" /\ UNCHANGED outcome
           \/ cpc = "closing" /\ Prompt("ok")
    BY DEF ClientFlush, ClientClose
  <1>2. /\ turn \in Turns /\ Session[turn] \in Files /\ n \in Nat
        /\ n < amount[turn] /\ amount[turn] <= FileLen[Session[turn]]
        /\ given' = [given EXCEPT ![turn] = @ + 1]
        /\ \/ dst' = [dst EXCEPT ![turn] = Append(@, b)] /\ UNCHANGED refused
           \/ refused' = [refused EXCEPT ![turn] = @ \cup {b}] /\ UNCHANGED dst
    BY <1>1, NextGiven
  <1>3. amount[turn] \in Nat /\ FileLen[Session[turn]] \in Nat /\ n + 1 \in Nat
    BY <1>2, ClientTypes DEF IInv
  <1>4. /\ Asked[turn] = Content(Session[turn])
        /\ Len(Asked[turn]) = FileLen[Session[turn]] /\ n < Len(Asked[turn])
    BY <1>2, <1>3, ContentType DEF Asked
  <1>5. Asked[turn][given[turn] + 1] = b
    BY <1>2, <1>3, <1>4, ContentType
  <1> HIDE DEF b
  <1>6. \/ /\ dst' = [dst EXCEPT ![turn] = Append(@, Asked[turn][given[turn] + 1])]
           /\ UNCHANGED refused
        \/ /\ refused' = [refused EXCEPT ![turn] = @ \cup {Asked[turn][given[turn] + 1]}]
           /\ UNCHANGED dst
    BY <1>2, <1>5
  <1>7. \/ UNCHANGED Told
        \/ Told' = [Told EXCEPT ![turn] = "ok"] /\ given[turn] + 1 = Len(Asked[turn])
    <2>1. CASE UNCHANGED outcome
      BY <1>1, <2>1, ToldSame
    <2>2. CASE cpc = "closing" /\ Prompt("ok")
      <3>1. Told' = [Told EXCEPT ![turn] = "ok"]
        BY <1>1, <2>2, ToldAtEnd
      <3>2. given[turn] + 1 = amount[turn] /\ amount[turn] = FileLen[Session[turn]]
        BY <2>2 DEF IInv, ClientKnown
      <3> QED
        BY <1>4, <3>1, <3>2
    <2> QED
      BY <1>1, <2>1, <2>2
  <1>8. Status(turn) = "running"
    BY <1>1, StatusFacts
  <1>9. Promise!Give(turn)
    BY <1>2, <1>4, <1>6, <1>7, <1>8 DEF Told, Promise!Give
  <1> QED
    BY <1>2, <1>9 DEF Promise!Next

\* A get that ends in any other way fails, and one that goes on stutters.
LEMMA FailsOrStutters ==
  ASSUME IInv, cpc # "prompt", UNCHANGED <<turn, dst, given, refused>>,
         \/ UNCHANGED outcome
         \/ \E how \in {"error", "timeout", "interrupted"} : Prompt(how)
  PROVE  [Promise!Next]_Promise!vars
  <1>1. CASE UNCHANGED outcome
    BY <1>1, ToldSame DEF Told, Promise!vars
  <1>2. ASSUME NEW how \in {"error", "timeout", "interrupted"}, Prompt(how)
        PROVE  Promise!Next
    <2>1. Told' = [Told EXCEPT ![turn] = "failed"]
      BY <1>2, ToldAtEnd
    <2>2. turn \in Turns /\ Status(turn) = "running"
      BY StatusFacts
    <2>3. Promise!Fail(turn)
      BY <2>1, <2>2 DEF Told, Promise!Fail
    <2> QED
      BY <2>2, <2>3 DEF Promise!Next
  <1> QED
    BY <1>1, <1>2

LEMMA StepKeepsPromise ==
  ASSUME IInv, [Next]_vars PROVE [Promise!Next]_Promise!vars
  <1>1. CASE StartGet
    BY <1>1, StartBegins
  <1>2. CASE ClientWrite
    BY <1>2, WriteGives DEF ClientWrite
  <1>3. CASE ClientReceive \/ ClientTimeout \/ ClientInterrupt
    <2>1. /\ cpc # "prompt" /\ UNCHANGED <<turn, dst, given, refused>>
          /\ \/ UNCHANGED outcome
             \/ \E how \in {"error", "timeout", "interrupted"} : Prompt(how)
      <3>1. ASSUME NEW m \in toClient, ClientAcceptFull(m) \/ ClientAcceptLast(m)
            PROVE  cpc # "prompt" /\ UNCHANGED <<turn, dst, given, refused, outcome>>
        BY <3>1 DEF ClientAcceptFull, ClientAcceptLast, Queue
      <3>2. ASSUME NEW m \in toClient, ClientResync(m)
            PROVE  cpc # "prompt" /\ UNCHANGED <<turn, dst, given, refused, outcome>>
        BY <3>2 DEF ClientResync, copyVars
      <3>3. ASSUME NEW m \in toClient, ClientError(m)
            PROVE  /\ cpc # "prompt" /\ UNCHANGED <<turn, dst, given, refused>>
                   /\ Prompt("error")
        BY <3>3 DEF ClientError, copyVars
      <3>4. CASE ClientTimeout
        BY <3>4 DEF ClientTimeout, copyVars
      <3>5. CASE ClientInterrupt
        BY <3>5 DEF ClientInterrupt, copyVars
      <3> QED
        BY <1>3, <3>1, <3>2, <3>3, <3>4, <3>5 DEF ClientReceive
    <2> QED
      BY <2>1, FailsOrStutters
  <1>4. CASE \/ Listen \/ Lose \/ UNCHANGED vars
             \/ \E s \in Servers : ServerReceive(s) \/ ServerTimeout(s)
    <2>1. UNCHANGED clientVars
      <3>1. CASE Listen
        BY <3>1 DEF Listen, ServerStart
      <3>2. CASE \E s \in Servers : ServerReceive(s) \/ ServerTimeout(s)
        BY <3>2 DEF ServerReceive, ServerFinish, ServerAdvance, ServerResync,
           ServerIgnore, ServerTimeout
      <3>3. CASE Lose \/ UNCHANGED vars
        BY <3>3 DEF Lose, vars
      <3> QED
        BY <1>4, <3>1, <3>2, <3>3
    <2>2. UNCHANGED <<turn, outcome, dst, given, refused>>
      BY <2>1 DEF clientVars, netVars, copyVars
    <2> QED
      BY <2>2, ToldSame DEF Told, Promise!vars
  <1> QED
    BY <1>1, <1>2, <1>3, <1>4 DEF Next

\* recvfile(), tftpd and the network together implement FileTransfer: the next
\* block of the remote file is given to the local disk or none is, whether the
\* disk takes it or not, a get ends once, and "ok" is said only with the last.
THEOREM ReadImplements == ASSUME Reconnect PROVE Spec => KeepsPromise
  <1>1. Init => Promise!Init
    BY PromiseInit
  <1>2. IInv /\ [Next]_vars => [Promise!Next]_Promise!vars
    BY StepKeepsPromise
  <1> QED
    BY <1>1, <1>2, AlwaysIInv, PTL DEF Spec, KeepsPromise, Promise!Spec
=============================================================================
