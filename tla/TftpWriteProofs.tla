--------------------------- MODULE TftpWriteProofs --------------------------
(***************************************************************************)
(* Proofs about TftpWrite, for every session, every set of files and       *)
(* servers, every BlockMod and MaxTries, disks that fail, processes that   *)
(* are killed, and any number of lost, repeated and reordered packets.     *)
(***************************************************************************)
EXTENDS TftpWrite, SequenceTheorems, FiniteSetTheorems, TLAPS

-----------------------------------------------------------------------------
(* Lemmas on the operators.                                                *)

\* A block number cut to its width is a block number, and not a larger one.
LEMMA ModSmall == ASSUME NEW n \in Nat, NEW k \in Nat, n < k PROVE n % k = n
  BY SMTT(30)

LEMMA WireType ==
  ASSUME NEW n \in Nat
  PROVE  Wire(n) \in 0 .. BlockMod - 1 /\ Wire(n) \in Nat /\ Wire(n) <= n
  <1>1. Wire(n) \in 0 .. BlockMod - 1
    BY WriteAssumption DEF Wire
  <1>2. CASE n < BlockMod
    <2>1. Wire(n) = n
      BY <1>2, ModSmall, WriteAssumption DEF Wire
    <2> QED
      BY <1>1, <2>1, WriteAssumption
  <1>3. CASE ~(n < BlockMod)
    BY <1>1, <1>3, WriteAssumption
  <1> QED
    BY <1>1, <1>2, <1>3, WriteAssumption

\* Receiving a packet and synchnet() add nothing to a channel.
LEMMA ReceivedSubset ==
  ASSUME NEW chan, NEW m, NEW c \in Received(chan, m) PROVE c \subseteq chan
  BY DEF Received

LEMMA FlushedSubset ==
  ASSUME NEW chan, NEW S, NEW c \in Flushed(chan, S) PROVE c \subseteq chan
  BY DEF Flushed

LEMMA SessionType ==
  /\ Turns \subseteq Nat /\ 1 \in Turns /\ Len(Session) \in Nat
  /\ Turns = 1 .. Len(Session)
  /\ \A t \in Turns : Session[t] \in Files
  /\ \A f \in Files : FileLen[f] \in Nat /\ FileLen[f] > 0
  BY WriteAssumption DEF Turns

-----------------------------------------------------------------------------
(* Types.                                                                  *)

TypeInv ==
    /\ TypeOK
    /\ cpc = "waiting" => turn \in Turns /\ ticks < MaxTries
    /\ \A s \in Servers :
          /\ spc[s] # "free" => sblock[s] > 0
          /\ spc[s] \in {"waiting", "flushing"} => sticks[s] < MaxTries
          /\ spc[s] \in {"flushing", "closing"} => pending[s] # << >>

LEMMA InitType == Init => TypeInv
  <1> SUFFICES ASSUME Init PROVE TypeInv
    OBVIOUS
  <1>1. (CHOOSE f \in Files : TRUE) \in Files
    BY SessionType
  <1>2. QED
    BY <1>1, SessionType, WriteAssumption
       DEF Init, TypeInv, TypeOK, ClientPackets, ServerPackets

\* What a packet of each kind carries.
LEMMA BodyTypes ==
  /\ \A f \in Files, t \in Turns : Wrq(f, t) \in Bodies
  /\ \A f \in Files, n \in Nat : Data(f, n) \in Bodies
  /\ ErrorBody \in Bodies
  BY WireType DEF Wrq, Data, Bodies

LEMMA AckType ==
  ASSUME TypeOK, NEW s \in Servers, NEW n \in Nat
  PROVE  Ack(s, n) \in ClientPackets
  BY WireType DEF Ack, ClientPackets, TypeOK

LEMMA ErrorType ==
  ASSUME NEW s \in Servers, NEW t \in Turns PROVE Error(s, t) \in ClientPackets
  BY DEF Error, ClientPackets

LEMMA ClientPacketFields ==
  ASSUME NEW m \in ClientPackets
  PROVE  /\ m.op \in {"ACK", "ERROR"} /\ m.src \in Servers /\ m.dst \in Turns
         /\ m.op = "ACK" => m.num \in 0 .. BlockMod - 1 /\ m.num \in Nat
  BY WriteAssumption DEF ClientPackets

LEMMA ToType ==
  ASSUME NEW d \in Servers \cup {Port}, NEW b \in Bodies
  PROVE  To(d, b) \in ServerPackets
  BY DEF To, ServerPackets

LEMMA ServerPacketFields ==
  ASSUME NEW p \in ServerPackets
  PROVE  /\ p.dst \in Servers \cup {Port} /\ p.body \in Bodies
         /\ p.body.op \in {"WRQ", "DATA", "ERROR"}
         /\ p.body.op = "WRQ" => p.body.file \in Files /\ p.body.from \in Turns
         /\ p.body.op = "DATA" => /\ p.body.num \in Nat /\ p.body.file \in Files
                                  /\ p.body.pos \in Nat
  BY WriteAssumption DEF ServerPackets, Bodies, ErrorBody

LEMMA CurrentType ==
  ASSUME TypeOK, turn \in Turns PROVE Current \in Bodies
  BY BodyTypes, SessionType DEF Current, TypeOK

LEMMA RungType ==
  ASSUME TypeOK, NEW x \in Servers \cup {Client}, Expire(x) \/ Rearm(x)
  PROVE  rung' \subseteq Servers \cup {Client}
  BY DEF TypeOK, Expire, Rearm

LEMMA ClientStepType ==
  ASSUME TypeInv,
         StartPut \/ ClientReceive \/ ClientTimeout \/ ClientInterrupt
  PROVE  TypeInv'
  <1> USE DEF TypeInv, clientVars, serverVars, procVars, diskVars
  <1>a. Client \in Servers \cup {Client} /\ TypeOK
    OBVIOUS
  <1>1. CASE StartPut
    <2>1. turn + 1 \in Turns /\ turn + 1 \in 0 .. Len(Session)
      BY <1>1, SessionType DEF StartPut, TypeOK, Turns
    <2>2. toServer' \subseteq ServerPackets
      <3>1. To(Port, Wrq(Session[turn + 1], turn + 1)) \in ServerPackets
        BY <2>1, BodyTypes, SessionType, ToType
      <3> QED
        BY <1>1, <3>1 DEF StartPut, ClientSend, TypeOK
    <2>3. rung' \subseteq Servers \cup {Client}
      BY <1>1, <1>a, RungType DEF StartPut
    <2>4. cpc' = "waiting" /\ ticks' = 0 /\ 0 < MaxTries /\ 0 \in 0 .. MaxTries
      BY <1>1, WriteAssumption DEF StartPut
    <2>5. TypeOK'
      BY <1>1, <2>1, <2>2, <2>3, <2>4 DEF StartPut, TypeOK
    <2> QED
      BY <1>1, <2>1, <2>4, <2>5 DEF StartPut
  <1>2. ASSUME NEW m \in toClient, ClientAdvance(m)
        PROVE  TypeInv'
    <2>1. m.src \in Servers /\ toClient' \subseteq ClientPackets
      BY <1>2, ClientPacketFields, ReceivedSubset DEF ClientAdvance, TypeOK
    <2>2. /\ block + 1 \in Nat /\ Session[turn] \in Files
          /\ 0 < MaxTries /\ 0 \in 0 .. MaxTries
      BY <1>2, SessionType, WriteAssumption DEF ClientAdvance, TypeOK
    <2>3. toServer' \subseteq ServerPackets
      <3>1. /\ To(m.src, Data(Session[turn], block + 1)) \in ServerPackets
            /\ To(m.src, ErrorBody) \in ServerPackets
        BY <2>1, <2>2, BodyTypes, ToType
      <3> QED
        BY <1>2, <3>1 DEF ClientAdvance, ClientSend, TypeOK
    <2>4. rung' \subseteq Servers \cup {Client}
      BY <1>2, <1>a, RungType DEF ClientAdvance
    <2>5. /\ block' \in Nat /\ ticks' \in 0 .. MaxTries /\ cpc' \in {"prompt", "waiting"}
          /\ outcome' \in [Turns -> {"none", "ok", "error", "timeout", "interrupted"}]
          /\ cpc' = "waiting" => ticks' < MaxTries
      BY <1>2, <2>2 DEF ClientAdvance, Prompt, TypeOK
    <2> QED
      BY <1>2, <2>1, <2>3, <2>4, <2>5 DEF ClientAdvance, TypeOK
  <1>3. ASSUME NEW m \in toClient, ClientFinish(m) \/ ClientError(m)
        PROVE  TypeInv'
    <2>1. m.src \in Servers /\ toClient' \subseteq ClientPackets
      BY <1>3, ClientPacketFields, ReceivedSubset DEF ClientFinish, ClientError, TypeOK
    <2> QED
      BY <1>3, <2>1 DEF ClientFinish, ClientError, Prompt, TypeOK
  <1>4. ASSUME NEW m \in toClient, ClientResync(m)
        PROVE  TypeInv'
    <2>1. m.src \in Servers /\ toClient' \subseteq ClientPackets
      BY <1>4, ClientPacketFields, ReceivedSubset, FlushedSubset DEF ClientResync, TypeOK
    <2>2. toServer' \subseteq ServerPackets
      <3>1. To(m.src, Current) \in ServerPackets
        BY <1>4, <2>1, CurrentType, ToType DEF ClientResync, TypeOK
      <3>2. toServer' \subseteq toServer \cup {To(m.src, Current)}
        BY <1>4 DEF ClientResync, ClientSend
      <3>3. toServer \subseteq ServerPackets
        BY DEF TypeOK
      <3> QED
        BY <3>1, <3>2, <3>3
    <2>3. rung' \subseteq Servers \cup {Client}
      BY <1>4, <1>a, RungType DEF ClientResync
    <2> QED
      BY <1>4, <2>1, <2>2, <2>3 DEF ClientResync, TypeOK
  <1>5. CASE ClientTimeout
    <2>1. toServer' \subseteq ServerPackets
      <3>1. To(peer, Current) \in ServerPackets
        BY <1>5, CurrentType, ToType DEF ClientTimeout, TypeOK
      <3> QED
        BY <1>5, <3>1 DEF ClientTimeout, ClientSend, TypeOK
    <2>2. ticks' \in 0 .. MaxTries /\ (ticks' < MaxTries \/ cpc' = "prompt")
      BY <1>5, WriteAssumption DEF ClientTimeout, Counted, GivesUp, Prompt, TypeOK
    <2>3. rung' \subseteq Servers \cup {Client}
      BY <1>5, <1>a, RungType DEF ClientTimeout
    <2>4. /\ cpc' \in {"prompt", "waiting"}
          /\ outcome' \in [Turns -> {"none", "ok", "error", "timeout", "interrupted"}]
          /\ masked' \subseteq {"ALRM", "INT"} /\ toClient' \subseteq ClientPackets
      BY <1>5 DEF ClientTimeout, Prompt, JumpedOutOf, TypeOK
    <2> QED
      BY <1>5, <2>1, <2>2, <2>3, <2>4 DEF ClientTimeout, TypeOK
  <1>6. CASE ClientInterrupt
    BY <1>6 DEF ClientInterrupt, Prompt, JumpedOutOf, TypeOK
  <1> QED
    BY <1>1, <1>2, <1>3, <1>4, <1>5, <1>6 DEF ClientReceive

LEMMA WriteAtType ==
  ASSUME NEW S, NEW old \in Seq(S \cup {Hole}), NEW o \in Nat, NEW blk \in S
  PROVE  WriteAt(old, o, blk) \in Seq(S \cup {Hole})
  <1> DEFINE n == IF o < Len(old) THEN Len(old) ELSE o + 1
  <1>1. n \in Nat /\ Len(old) \in Nat
    OBVIOUS
  <1>2. \A i \in 1 .. n : i <= Len(old) => old[i] \in S \cup {Hole}
    BY <1>1
  <1>3. \A i \in 1 .. n : (IF i = o + 1 THEN blk
                           ELSE IF i <= Len(old) THEN old[i] ELSE Hole)
                          \in S \cup {Hole}
    BY <1>2
  <1> QED
    BY <1>1, <1>3 DEF WriteAt

\* write_behind() leaves the descriptor, the buffer and the file well typed.
LEMMA WriteBehindType ==
  ASSUME TypeInv, NEW s \in Servers, spc[s] \in {"flushing", "closing"},
         WriteBehind(s)
  PROVE  /\ pending' \in [Servers -> Seq(Files \X Nat)]
         /\ offset' \in [Servers -> Nat]
         /\ disk' \in [Files -> Seq((Files \X Nat) \cup {Hole})]
         /\ failed' \in [Files -> SUBSET (Files \X Nat)]
         /\ \A x \in Servers : x # s => pending'[x] = pending[x]
  <1>1. /\ pending \in [Servers -> Seq(Files \X Nat)] /\ sfile[s] \in Files
        /\ offset \in [Servers -> Nat] /\ pending[s] # << >>
        /\ disk \in [Files -> Seq((Files \X Nat) \cup {Hole})]
        /\ failed \in [Files -> SUBSET (Files \X Nat)]
    BY DEF TypeInv, TypeOK
  <1>2. pending[s] \in Seq(Files \X Nat)
    BY <1>1
  <1>3. Head(pending[s]) \in Files \X Nat /\ Tail(pending[s]) \in Seq(Files \X Nat)
    BY <1>1, <1>2, HeadTailProperties
  <1>4. WriteAt(disk[sfile[s]], offset[s], Head(pending[s]))
           \in Seq((Files \X Nat) \cup {Hole})
    BY <1>1, <1>3, WriteAtType
  <1>5. pending' = [pending EXCEPT ![s] = Tail(pending[s])]
    BY DEF WriteBehind
  <1>6. \/ /\ disk' = [disk EXCEPT ![sfile[s]] =
                           WriteAt(disk[sfile[s]], offset[s], Head(pending[s]))]
           /\ offset' = [offset EXCEPT ![s] = offset[s] + 1]
           /\ failed' = failed
        \/ /\ failed' = [failed EXCEPT ![sfile[s]] =
                             failed[sfile[s]] \cup {Head(pending[s])}]
           /\ disk' = disk /\ offset' = offset
    BY DEF WriteBehind
  <1>7. /\ pending' \in [Servers -> Seq(Files \X Nat)]
        /\ \A x \in Servers : x # s => pending'[x] = pending[x]
    BY <1>1, <1>3, <1>5
  <1>8. offset[s] + 1 \in Nat
    BY <1>1
  <1>9. offset' \in [Servers -> Nat]
    BY <1>1, <1>6, <1>8
  <1>10. disk' \in [Files -> Seq((Files \X Nat) \cup {Hole})]
    BY <1>1, <1>4, <1>6
  <1>11. failed' \in [Files -> SUBSET (Files \X Nat)]
    <2>1. failed[sfile[s]] \cup {Head(pending[s])} \in SUBSET (Files \X Nat)
      BY <1>1, <1>3
    <2> QED
      BY <1>1, <1>6, <2>1
  <1> QED
    BY <1>7, <1>9, <1>10, <1>11

Processes == {"free", "waiting", "flushing", "closing", "dallying",
              "done", "failed", "expired", "killed"}

LEMMA ServerStartType ==
  ASSUME TypeInv, NEW s \in Servers, NEW p \in toServer, ServerStart(s, p)
  PROVE  TypeInv'
  <1> USE DEF TypeInv, clientVars
  <1>1. /\ p.body.file \in Files /\ p.body.from \in Turns
        /\ toServer' \subseteq ServerPackets
    BY ServerPacketFields, ReceivedSubset DEF ServerStart, TypeOK
  <1>2. toClient' \subseteq ClientPackets
    <2>1. 0 \in 0 .. BlockMod - 1
      BY WriteAssumption
    <2>2. [op |-> "ACK", src |-> s, dst |-> p.body.from, num |-> 0] \in ClientPackets
      BY <1>1, <2>1 DEF ClientPackets
    <2>3. Error(s, p.body.from) \in ClientPackets
      BY <1>1, ErrorType
    <2> QED
      BY <2>2, <2>3 DEF ServerStart, ServerSend, TypeOK
  <1>3. rung' \subseteq Servers \cup {Client}
    BY RungType DEF ServerStart
  <1>4. /\ spc' = [spc EXCEPT ![s] = "waiting"] \/ spc' = [spc EXCEPT ![s] = "failed"]
        /\ sticks' = [sticks EXCEPT ![s] = 0] /\ sblock' = [sblock EXCEPT ![s] = 1]
        /\ sfile' = [sfile EXCEPT ![s] = p.body.file]
        /\ sfrom' = [sfrom EXCEPT ![s] = p.body.from]
        /\ pending' = pending
    BY DEF ServerStart
  <1>5. 0 \in 0 .. MaxTries /\ 0 < MaxTries /\ 1 \in Nat
    BY WriteAssumption
  <1>6. /\ spc' \in [Servers -> Processes] /\ sticks' \in [Servers -> 0 .. MaxTries]
        /\ sblock' \in [Servers -> Nat] /\ sfile' \in [Servers -> Files]
        /\ sfrom' \in [Servers -> Turns]
    BY <1>1, <1>4, <1>5 DEF TypeOK, Processes
  <1>7. \A x \in Servers :
          /\ spc'[x] # "free" => sblock'[x] > 0
          /\ spc'[x] \in {"waiting", "flushing"} => sticks'[x] < MaxTries
          /\ spc'[x] \in {"flushing", "closing"} => pending'[x] # << >>
    <2>1. \A x \in Servers : x # s =>
            spc'[x] = spc[x] /\ sblock'[x] = sblock[x]
            /\ sticks'[x] = sticks[x] /\ pending'[x] = pending[x]
      BY <1>4 DEF TypeOK
    <2>2. /\ sblock'[s] = 1 /\ sticks'[s] = 0
          /\ spc'[s] = "waiting" \/ spc'[s] = "failed"
      BY <1>4 DEF TypeOK
    <2> QED
      BY <1>5, <2>1, <2>2
  <1>8. /\ disk' \in [Files -> Seq((Files \X Nat) \cup {Hole})]
        /\ failed' \in [Files -> SUBSET (Files \X Nat)]
    <2>1. << >> \in Seq((Files \X Nat) \cup {Hole})
      OBVIOUS
    <2>2. \/ /\ disk' = [disk EXCEPT ![p.body.file] = << >>]
             /\ failed' = [failed EXCEPT ![p.body.file] = {}]
          \/ disk' = disk /\ failed' = failed
      BY DEF ServerStart
    <2>3. disk' \in [Files -> Seq((Files \X Nat) \cup {Hole})]
      <3>1. disk \in [Files -> Seq((Files \X Nat) \cup {Hole})]
        BY DEF TypeOK
      <3>2. disk' = [disk EXCEPT ![p.body.file] = << >>] \/ disk' = disk
        BY <2>2
      <3> QED
        BY <2>1, <3>1, <3>2
    <2>4. failed' \in [Files -> SUBSET (Files \X Nat)]
      BY <1>1, <2>2 DEF TypeOK
    <2> QED
      BY <2>3, <2>4
  <1>9. TypeOK'
    BY <1>1, <1>2, <1>3, <1>6, <1>8 DEF ServerStart, TypeOK, Processes
  <1> QED
    BY <1>7, <1>9 DEF ServerStart

\* What has to be shown of a step of a server: the client is not involved.
ServerTypes ==
    /\ UNCHANGED <<clientVars, lost>>
    /\ spc' \in [Servers -> Processes] /\ sfile' \in [Servers -> Files]
    /\ sfrom' \in [Servers -> Turns] /\ sblock' \in [Servers -> Nat]
    /\ sticks' \in [Servers -> 0 .. MaxTries]
    /\ \A x \in Servers :
          /\ spc'[x] # "free" => sblock'[x] > 0
          /\ spc'[x] \in {"waiting", "flushing"} => sticks'[x] < MaxTries
          /\ spc'[x] \in {"flushing", "closing"} => pending'[x] # << >>
    /\ pending' \in [Servers -> Seq(Files \X Nat)] /\ offset' \in [Servers -> Nat]
    /\ disk' \in [Files -> Seq((Files \X Nat) \cup {Hole})]
    /\ failed' \in [Files -> SUBSET (Files \X Nat)]
    /\ toClient' \subseteq ClientPackets /\ toServer' \subseteq ServerPackets
    /\ rung' \subseteq Servers \cup {Client}

LEMMA FromServerTypes == ASSUME TypeInv, ServerTypes PROVE TypeInv'
  BY DEF TypeInv, TypeOK, ServerTypes, Processes, clientVars

LEMMA UnchangedTypes ==
  ASSUME TypeInv
  PROVE  /\ spc \in [Servers -> Processes] /\ sfile \in [Servers -> Files]
         /\ sfrom \in [Servers -> Turns] /\ sblock \in [Servers -> Nat]
         /\ sticks \in [Servers -> 0 .. MaxTries]
         /\ pending \in [Servers -> Seq(Files \X Nat)] /\ offset \in [Servers -> Nat]
         /\ disk \in [Files -> Seq((Files \X Nat) \cup {Hole})]
         /\ failed \in [Files -> SUBSET (Files \X Nat)]
         /\ toClient \subseteq ClientPackets /\ toServer \subseteq ServerPackets
         /\ rung \subseteq Servers \cup {Client}
         /\ \A x \in Servers :
               /\ spc[x] # "free" => sblock[x] > 0
               /\ spc[x] \in {"waiting", "flushing"} => sticks[x] < MaxTries
               /\ spc[x] \in {"flushing", "closing"} => pending[x] # << >>
  BY DEF TypeInv, TypeOK, Processes

LEMMA ServerAcceptType ==
  ASSUME TypeInv, NEW s \in Servers, NEW p \in toServer,
         ServerAcceptFull(s, p) \/ ServerAcceptLast(s, p)
  PROVE  ServerTypes
  <1> DEFINE blk == Block(p.body.file, p.body.pos)
  <1>1. blk \in Files \X Nat
    BY ServerPacketFields, UnchangedTypes DEF ServerAcceptFull, ServerAcceptLast, Block
  <1>2. pending[s] \in Seq(Files \X Nat) /\ sblock[s] \in Nat
    BY UnchangedTypes
  <1>3. /\ pending' = [pending EXCEPT ![s] = Append(pending[s], blk)]
        /\ \/ /\ spc' = [spc EXCEPT ![s] = "flushing"]
              /\ sblock' = [sblock EXCEPT ![s] = sblock[s] + 1]
              /\ sticks' = [sticks EXCEPT ![s] = 0]
           \/ /\ spc' = [spc EXCEPT ![s] = "closing"]
              /\ sblock' = sblock /\ sticks' = sticks
        /\ UNCHANGED <<clientVars, lost, sfile, sfrom, offset, disk, failed>>
    BY DEF ServerAcceptFull, ServerAcceptLast
  <1>4. toClient' \subseteq ClientPackets /\ toServer' \subseteq ServerPackets
    <2>1. Ack(s, sblock[s]) \in ClientPackets
      BY <1>2, AckType DEF TypeInv
    <2>2. toClient' \subseteq toClient \cup {Ack(s, sblock[s])}
      BY DEF ServerAcceptFull, ServerAcceptLast, ServerSend
    <2>3. toServer' \subseteq toServer
      BY ReceivedSubset DEF ServerAcceptFull, ServerAcceptLast
    <2> QED
      BY <2>1, <2>2, <2>3, UnchangedTypes
  <1>5. rung' \subseteq Servers \cup {Client}
    BY RungType DEF ServerAcceptFull, ServerAcceptLast, TypeInv
  <1>6. Append(pending[s], blk) \in Seq(Files \X Nat) /\ Append(pending[s], blk) # << >>
    BY <1>1, <1>2, AppendProperties
  <1> HIDE DEF blk
  <1>7. /\ pending' \in [Servers -> Seq(Files \X Nat)] /\ pending'[s] # << >>
        /\ \A x \in Servers : x # s => pending'[x] = pending[x]
    BY <1>3, <1>6, UnchangedTypes
  <1>8. /\ sblock[s] + 1 \in Nat /\ 0 \in 0 .. MaxTries /\ 0 < MaxTries
    BY <1>2, WriteAssumption
  <1>9. sblock' \in [Servers -> Nat] /\ sticks' \in [Servers -> 0 .. MaxTries]
    <2>1. sblock \in [Servers -> Nat] /\ sticks \in [Servers -> 0 .. MaxTries]
      BY UnchangedTypes
    <2>2. sblock' \in [Servers -> Nat]
      BY <1>3, <1>8, <2>1
    <2>3. sticks' \in [Servers -> 0 .. MaxTries]
      BY <1>3, <1>8, <2>1
    <2> QED
      BY <2>2, <2>3
  <1>10. /\ spc' \in [Servers -> Processes]
         /\ \A x \in Servers :
               /\ spc'[x] # "free" => sblock'[x] > 0
               /\ spc'[x] \in {"waiting", "flushing"} => sticks'[x] < MaxTries
               /\ spc'[x] \in {"flushing", "closing"} => pending'[x] # << >>
    <2>1. \A x \in Servers : x # s =>
            /\ spc'[x] = spc[x] /\ sblock'[x] = sblock[x]
            /\ sticks'[x] = sticks[x] /\ pending'[x] = pending[x]
      BY <1>3, <1>7, UnchangedTypes
    <2>2. /\ sblock'[s] > 0 /\ pending'[s] # << >>
          /\ \/ spc'[s] = "flushing" /\ sticks'[s] = 0
             \/ spc'[s] = "closing"
      <3>1. spc[s] # "free"
        BY DEF ServerAcceptFull, ServerAcceptLast
      <3>2. /\ DOMAIN spc = Servers /\ DOMAIN sblock = Servers
            /\ DOMAIN sticks = Servers /\ sblock[s] > 0
        BY <3>1, UnchangedTypes
      <3> QED
        BY <1>2, <1>3, <1>7, <3>2
    <2>3. spc' \in [Servers -> Processes]
      BY <1>3, UnchangedTypes DEF Processes
    <2> QED
      BY <1>8, <2>1, <2>2, <2>3, UnchangedTypes
  <1> QED
    BY <1>3, <1>4, <1>5, <1>7, <1>9, <1>10, UnchangedTypes DEF ServerTypes

LEMMA ServerWriteType ==
  ASSUME TypeInv, NEW s \in Servers, ServerWrite(s)
  PROVE  ServerTypes
  <1>1. spc[s] \in {"flushing", "closing"} /\ WriteBehind(s)
    BY DEF ServerWrite, ServerFlush, ServerClose
  <1>2. /\ pending' \in [Servers -> Seq(Files \X Nat)]
        /\ offset' \in [Servers -> Nat]
        /\ disk' \in [Files -> Seq((Files \X Nat) \cup {Hole})]
        /\ failed' \in [Files -> SUBSET (Files \X Nat)]
        /\ \A x \in Servers : x # s => pending'[x] = pending[x]
    BY <1>1, WriteBehindType
  <1>3. /\ spc' = [spc EXCEPT ![s] = "dallying"] \/ spc' = [spc EXCEPT ![s] = "waiting"]
        /\ UNCHANGED <<clientVars, lost, sfile, sfrom, sblock, sticks, toServer>>
        /\ toClient' \subseteq toClient \cup {Ack(s, sblock[s])}
        /\ spc'[s] = "waiting" => spc[s] = "flushing"
    BY UnchangedTypes DEF ServerWrite, ServerFlush, ServerClose, ServerSend
  <1>4. Ack(s, sblock[s]) \in ClientPackets
    BY AckType, UnchangedTypes DEF TypeInv
  <1>5. rung' \subseteq Servers \cup {Client}
    <2>1. Rearm(s) \/ rung' = rung
      BY DEF ServerWrite, ServerFlush, ServerClose
    <2> QED
      BY <2>1, RungType, UnchangedTypes DEF TypeInv
  <1>6. spc' \in [Servers -> Processes]
    BY <1>3, UnchangedTypes DEF Processes
  <1>7. ASSUME NEW x \in Servers
        PROVE  /\ spc'[x] # "free" => sblock'[x] > 0
               /\ spc'[x] \in {"waiting", "flushing"} => sticks'[x] < MaxTries
               /\ spc'[x] \in {"flushing", "closing"} => pending'[x] # << >>
    <2>1. CASE x = s
      BY <1>1, <1>3, <2>1, UnchangedTypes
    <2>2. CASE x # s
      BY <1>2, <1>3, <2>2, UnchangedTypes
    <2> QED
      BY <2>1, <2>2
  <1> QED
    BY <1>2, <1>3, <1>4, <1>5, <1>6, <1>7, UnchangedTypes DEF ServerTypes

Live == {"waiting", "flushing", "closing", "dallying"}
Ended == {"done", "failed", "expired", "killed"}

\* The steps of a server that bring the transfer on by no block.
Idles(s) ==
    \/ \E p \in toServer :
          ServerResync(s, p) \/ ServerError(s, p) \/ ServerDally(s, p)
    \/ ServerAlarm(s) \/ ServerKill(s)

LEMMA IdlesEffect ==
  ASSUME TypeInv, NEW s \in Servers, Idles(s)
  PROVE  /\ UNCHANGED <<clientVars, lost, sfile, sfrom, sblock, offset, disk, failed>>
         /\ spc[s] \in Live
         /\ \/ spc' = spc /\ pending' = pending
            \/ /\ \E e \in Ended : spc' = [spc EXCEPT ![s] = e]
               /\ pending' = pending \/ pending' = [pending EXCEPT ![s] = << >>]
         /\ toServer' \subseteq toServer
         /\ \/ toClient' \subseteq toClient
            \/ /\ spc[s] = "waiting"
               /\ toClient' \subseteq toClient \cup {Ack(s, sblock[s] - 1)}
            \/ /\ spc[s] = "dallying"
               /\ toClient' \subseteq toClient \cup {Ack(s, sblock[s])}
  <1> USE DEF serverVars, diskVars, procVars, Live, Ended
  <1>1. ASSUME NEW p \in toServer, ServerResync(s, p)
        PROVE  /\ UNCHANGED <<clientVars, serverVars, lost>>
               /\ spc[s] = "waiting" /\ toServer' \subseteq toServer
               /\ toClient' \subseteq toClient \cup {Ack(s, sblock[s] - 1)}
    BY <1>1, ReceivedSubset, FlushedSubset DEF ServerResync, ServerSend
  <1>2. ASSUME NEW p \in toServer, ServerError(s, p)
        PROVE  /\ UNCHANGED <<clientVars, sfile, sfrom, sblock, diskVars, lost, toClient>>
               /\ spc[s] = "waiting" /\ toServer' \subseteq toServer
               /\ spc' = [spc EXCEPT ![s] = "failed"]
    BY <1>2, ReceivedSubset DEF ServerError
  <1>3. ASSUME NEW p \in toServer, ServerDally(s, p)
        PROVE  /\ UNCHANGED <<clientVars, sfile, sfrom, sblock, diskVars, lost>>
               /\ spc[s] = "dallying" /\ toServer' \subseteq toServer
               /\ spc' = [spc EXCEPT ![s] = "done"]
               /\ toClient' \subseteq toClient \cup {Ack(s, sblock[s])}
    BY <1>3, ReceivedSubset DEF ServerDally, ServerSend
  <1>4. CASE ServerTimeout(s)
    <2>1. /\ UNCHANGED <<clientVars, sfile, sfrom, sblock, diskVars, lost>>
          /\ spc[s] = "waiting" /\ toServer' \subseteq toServer
          /\ spc' = spc \/ spc' = [spc EXCEPT ![s] = "expired"]
          /\ toClient' \subseteq toClient \cup {Ack(s, sblock[s] - 1)}
      BY <1>4 DEF ServerTimeout, ServerSend
    <2> QED
      BY <2>1
  <1>5. CASE ServerQuit(s)
    BY <1>5 DEF ServerQuit
  <1>6. CASE ServerKill(s)
    BY <1>6 DEF ServerKill, Receiving, Busy
  <1> QED
    BY <1>1, <1>2, <1>3, <1>4, <1>5, <1>6 DEF Idles, ServerAlarm

LEMMA IdlesType ==
  ASSUME TypeInv, NEW s \in Servers, Idles(s)
  PROVE  ServerTypes
  <1>1. sblock[s] \in Nat /\ sblock[s] > 0
    BY IdlesEffect, UnchangedTypes DEF Live
  <1>2. toClient' \subseteq ClientPackets
    <2>1. /\ Ack(s, sblock[s]) \in ClientPackets
          /\ Ack(s, sblock[s] - 1) \in ClientPackets
      BY <1>1, AckType DEF TypeInv
    <2> QED
      BY <2>1, IdlesEffect, UnchangedTypes
  <1>3. rung' \subseteq Servers \cup {Client}
    <2>1. Rearm(s) \/ Expire(s) \/ rung' = rung
      BY DEF Idles, ServerResync, ServerError, ServerDally, ServerAlarm,
             ServerTimeout, ServerQuit, ServerKill
    <2> QED
      BY <2>1, RungType, UnchangedTypes DEF TypeInv
  <1>4. \/ sticks' = sticks
        \/ /\ spc[s] = "waiting" /\ sticks' = [sticks EXCEPT ![s] = sticks[s] + 1]
           /\ sticks'[s] >= MaxTries \/ spc' = spc
           /\ sticks'[s] >= MaxTries => spc' = [spc EXCEPT ![s] = "expired"]
    BY DEF Idles, ServerResync, ServerError, ServerDally, ServerAlarm,
           ServerTimeout, ServerQuit, ServerKill, Counted, GivesUp,
           serverVars, procVars
  <1>5. sticks' \in [Servers -> 0 .. MaxTries]
    <2>1. CASE sticks' = sticks
      BY <2>1, UnchangedTypes
    <2>2. CASE spc[s] = "waiting" /\ sticks' = [sticks EXCEPT ![s] = sticks[s] + 1]
      <3>1. sticks[s] + 1 \in 0 .. MaxTries
        BY <2>2, UnchangedTypes, WriteAssumption
      <3> QED
        BY <2>2, <3>1, UnchangedTypes
    <2> QED
      BY <1>4, <2>1, <2>2
  <1>6. /\ spc' \in [Servers -> Processes]
        /\ pending' \in [Servers -> Seq(Files \X Nat)]
    <2>1. << >> \in Seq(Files \X Nat)
      OBVIOUS
    <2>2. /\ spc' = spc \/ \E e \in Ended : spc' = [spc EXCEPT ![s] = e]
          /\ pending' = pending \/ pending' = [pending EXCEPT ![s] = << >>]
      BY IdlesEffect
    <2>3. spc' \in [Servers -> Processes]
      BY <2>2, UnchangedTypes DEF Ended, Processes
    <2>4. pending' \in [Servers -> Seq(Files \X Nat)]
      BY <2>1, <2>2, UnchangedTypes
    <2> QED
      BY <2>3, <2>4
  <1>7. ASSUME NEW x \in Servers
        PROVE  /\ spc'[x] # "free" => sblock'[x] > 0
               /\ spc'[x] \in {"waiting", "flushing"} => sticks'[x] < MaxTries
               /\ spc'[x] \in {"flushing", "closing"} => pending'[x] # << >>
    <2>1. spc'[x] # "free" => spc[x] # "free"
      BY IdlesEffect, UnchangedTypes DEF Live
    <2>2. spc'[x] \in {"waiting", "flushing", "closing"} =>
              spc'[x] = spc[x] /\ pending'[x] = pending[x]
      <3>1. CASE spc' = spc /\ pending' = pending
        BY <3>1
      <3>2. ASSUME NEW e \in Ended, spc' = [spc EXCEPT ![s] = e],
                   pending' = pending \/ pending' = [pending EXCEPT ![s] = << >>]
            PROVE  spc'[x] \in {"waiting", "flushing", "closing"} =>
                      spc'[x] = spc[x] /\ pending'[x] = pending[x]
        <4>1. spc'[s] = e
          BY <3>2, UnchangedTypes
        <4>2. x # s => spc'[x] = spc[x] /\ pending'[x] = pending[x]
          BY <3>2, UnchangedTypes
        <4> QED
          BY <4>1, <4>2 DEF Ended
      <3> QED
        BY <3>1, <3>2, IdlesEffect
    <2>3. spc'[x] \in {"waiting", "flushing"} => sticks'[x] < MaxTries
      <3> SUFFICES ASSUME spc'[x] \in {"waiting", "flushing"} PROVE sticks'[x] < MaxTries
        OBVIOUS
      <3>1. CASE sticks'[x] = sticks[x]
        BY <2>2, <3>1, UnchangedTypes
      <3>2. CASE x = s /\ ~(sticks'[s] >= MaxTries)
        <4>1. sticks'[s] \in Nat
          BY <1>5, WriteAssumption
        <4> QED
          BY <3>2, <4>1, WriteAssumption
      <3>3. CASE x = s /\ sticks'[s] >= MaxTries /\ sticks' # sticks
        <4>1. spc'[s] = "expired"
          BY <1>4, <3>3, UnchangedTypes
        <4> QED
          BY <3>3, <4>1
      <3> QED
        BY <1>4, <3>1, <3>2, <3>3, UnchangedTypes
    <2> QED
      BY <2>1, <2>2, <2>3, IdlesEffect, UnchangedTypes
  <1> QED
    BY <1>2, <1>3, <1>5, <1>6, <1>7, IdlesEffect, UnchangedTypes DEF ServerTypes

ServerStep(s) ==
    (\E p \in toServer : ServerStart(s, p)) \/ ServerReceive(s) \/ ServerWrite(s)
        \/ ServerAlarm(s) \/ ServerKill(s)

\* The cases that a step of a server is split into.
LEMMA ServerCases ==
  ASSUME NEW s \in Servers, ServerStep(s)
  PROVE  \/ \E p \in toServer : ServerStart(s, p)
         \/ \E p \in toServer : ServerAcceptFull(s, p) \/ ServerAcceptLast(s, p)
         \/ ServerWrite(s)
         \/ Idles(s)
  BY DEF ServerStep, ServerReceive, Idles

ClientStep == StartPut \/ ClientReceive \/ ClientTimeout \/ ClientInterrupt

LEMMA NextCases ==
  ASSUME [Next]_vars
  PROVE  \/ ClientStep
         \/ \E s \in Servers : ServerStep(s)
         \/ Lose
         \/ UNCHANGED vars
  BY DEF Next, Listen, ClientStep, ServerStep

LEMMA StepType == ASSUME TypeInv, [Next]_vars PROVE TypeInv'
  <1>1. CASE ClientStep
    BY <1>1, ClientStepType DEF ClientStep
  <1>2. ASSUME NEW s \in Servers, ServerStep(s)
        PROVE  TypeInv'
    BY <1>2, ServerCases, ServerStartType, ServerAcceptType, ServerWriteType,
       IdlesType, FromServerTypes
  <1>3. CASE Lose
    <2>1. /\ UNCHANGED <<clientVars, serverVars, rung>>
          /\ toClient' \subseteq toClient /\ toServer' \subseteq toServer
          /\ lost' = lost + 1 /\ lost < MaxLoss
      BY <1>3 DEF Lose
    <2>2. lost \in 0 .. MaxLoss /\ MaxLoss \in Nat
      BY WriteAssumption DEF TypeInv, TypeOK
    <2>3. lost' \in 0 .. MaxLoss
      BY <2>1, <2>2
    <2> QED
      BY <2>1, <2>3 DEF TypeInv, TypeOK, clientVars, serverVars, procVars, diskVars
  <1>4. CASE UNCHANGED vars
    BY <1>4 DEF TypeInv, TypeOK, vars, clientVars, serverVars, procVars, diskVars
  <1> QED
    BY <1>1, <1>2, <1>3, <1>4, NextCases

\* The types are kept: timeout stays within maxtimeout, every number in a
\* packet fits its 16 bits.
THEOREM TypeCorrect == Spec => []TypeOK
<1>1. TypeInv => TypeOK
  BY DEF TypeInv
<1> QED
  BY InitType, StepType, <1>1, PTL DEF Spec

-----------------------------------------------------------------------------
(* What is stored.                                                         *)

LEMMA AppendAtEnd ==
  ASSUME NEW S, NEW d \in Seq(S), NEW blk
  PROVE  /\ WriteAt(d, Len(d), blk) = [i \in 1 .. Len(d) + 1 |->
                                          IF i = Len(d) + 1 THEN blk ELSE d[i]]
         /\ Len(WriteAt(d, Len(d), blk)) = Len(d) + 1
  <1> DEFINE w == [i \in 1 .. Len(d) + 1 |-> IF i = Len(d) + 1 THEN blk ELSE d[i]]
  <1>1. Len(d) \in Nat /\ ~(Len(d) < Len(d))
    OBVIOUS
  <1>2. \A i \in 1 .. Len(d) + 1 : i # Len(d) + 1 => i <= Len(d)
    BY <1>1
  <1>3. WriteAt(d, Len(d), blk) = w
    BY <1>1, <1>2 DEF WriteAt
  <1>4. Len(w) = Len(d) + 1
    BY <1>1
  <1> QED
    BY <1>3, <1>4

\* The next block is written behind the ones before.
LEMMA NextStored ==
  ASSUME NEW S, NEW d \in Seq(S), NEW refused, NEW f, NEW n \in Nat,
         FirstBlocks(d, refused, f, n)
  PROVE  FirstBlocks(WriteAt(d, Len(d), Block(f, n + 1)), refused, f, n + 1)
  <1> DEFINE b == Block(f, n + 1)
             w == WriteAt(d, Len(d), b)
  <1>1. /\ Len(d) \in Nat /\ DOMAIN d = 1 .. Len(d)
        /\ w = [i \in 1 .. Len(d) + 1 |-> IF i = Len(d) + 1 THEN b ELSE d[i]]
    BY AppendAtEnd
  <1>2. DOMAIN w = 1 .. Len(d) + 1 /\ w[Len(d) + 1] = b
    BY <1>1
  <1>3. \A i \in 1 .. Len(d) : i \in DOMAIN w /\ w[i] = d[i]
    BY <1>1
  <1>4. Range(w) = Range(d) \cup {b}
    BY <1>1, <1>2, <1>3 DEF Range
  <1>5. Blocks(f, n + 1) = Blocks(f, n) \cup {b}
    BY DEF Blocks
  <1>6. b \notin Blocks(f, n) /\ \A x \in Blocks(f, n) : x[2] \in 1 .. n
    BY DEF Blocks, Block
  <1>7. refused \subseteq Blocks(f, n) /\ Range(d) = Blocks(f, n) \ refused
    BY DEF FirstBlocks
  <1>8. refused \subseteq Blocks(f, n + 1) /\ Range(w) = Blocks(f, n + 1) \ refused
    BY <1>4, <1>5, <1>6, <1>7
  <1>9. ASSUME NEW i \in DOMAIN w, NEW j \in DOMAIN w, i < j
        PROVE  w[i][2] < w[j][2]
    <2>1. i \in 1 .. Len(d) /\ w[i] = d[i]
      BY <1>1, <1>2, <1>3, <1>9
    <2>2. CASE j = Len(d) + 1
      <3>1. d[i] \in Blocks(f, n)
        BY <1>1, <1>7, <2>1 DEF Range
      <3>2. d[i][2] \in 1 .. n
        BY <1>6, <3>1
      <3>3. w[j][2] = n + 1
        BY <1>2, <2>2 DEF Block
      <3> QED
        BY <2>1, <3>2, <3>3
    <2>3. CASE j # Len(d) + 1
      <3>1. j \in DOMAIN d /\ w[j] = d[j] /\ i \in DOMAIN d
        BY <1>1, <1>2, <1>3, <1>9, <2>1, <2>3
      <3> QED
        BY <1>9, <2>1, <3>1 DEF FirstBlocks
    <2> QED
      BY <2>2, <2>3
  <1> HIDE DEF w
  <1>10. FirstBlocks(w, refused, f, n + 1)
    BY <1>8, <1>9 DEF FirstBlocks
  <1> QED
    BY <1>10 DEF w

\* A block that the disk refuses leaves the others as they are.
LEMMA NextRefused ==
  ASSUME NEW d, NEW refused, NEW f, NEW n \in Nat, FirstBlocks(d, refused, f, n)
  PROVE  /\ FirstBlocks(d, refused \cup {Block(f, n + 1)}, f, n + 1)
         /\ Block(f, n + 1) \notin refused
  <1>1. Blocks(f, n + 1) = Blocks(f, n) \cup {Block(f, n + 1)}
    BY DEF Blocks
  <1>2. Block(f, n + 1) \notin Blocks(f, n)
    BY DEF Blocks, Block
  <1>3. refused \subseteq Blocks(f, n) /\ Range(d) = Blocks(f, n) \ refused
    BY DEF FirstBlocks
  <1>4. /\ refused \cup {Block(f, n + 1)} \subseteq Blocks(f, n + 1)
        /\ Range(d) = Blocks(f, n + 1) \ (refused \cup {Block(f, n + 1)})
    BY <1>1, <1>2, <1>3
  <1> QED
    BY <1>2, <1>3, <1>4 DEF FirstBlocks

LEMMA NothingStored == ASSUME NEW f PROVE FirstBlocks(<< >>, {}, f, 0)
  <1>1. Blocks(f, 0) = {} /\ Range(<< >>) = {} /\ DOMAIN << >> = {}
    BY DEF Blocks, Range
  <1> QED
    BY <1>1 DEF FirstBlocks

-----------------------------------------------------------------------------
(* The inductive invariant: where the packets come from, and how far the   *)
(* two ends and the disk have got.                                         *)

Began(s) == spc[s] # "free"
Writing(s) == spc[s] \in {"waiting", "flushing", "closing"}

\* The condition of the theorems: a file has one tftpd, ever.
OneEach ==
    \A s, r \in Servers : Began(s) /\ Began(r) /\ sfile[s] = sfile[r] => s = r

\* The number of the block that s has acknowledged last, at most.
Sent(s) == IF Writing(s) THEN sblock[s] - 1 ELSE sblock[s]

\* s has got its file to the disk.
OnDisk(s) ==
    /\ ~Writing(s)
    /\ FirstBlocks(disk[sfile[s]], failed[sfile[s]], sfile[s], FileLen[sfile[s]])

\* A request was made by the user; a block has been read for the process that
\* it is sent to, and at most one ahead of its acknowledgements.
KnownToServer(p) ==
    /\ p.body.op = "WRQ" =>
          p.body.from \in 1 .. turn /\ p.body.file = Session[p.body.from]
    /\ p.body.op = "DATA" =>
          /\ p.dst \in Servers /\ Began(p.dst) /\ p.body.file = sfile[p.dst]
          /\ p.body.pos \in 1 .. FileLen[p.body.file]
          /\ p.body.pos <= Sent(p.dst) + 1
          /\ p.body.num = Wire(p.body.pos)

\* An acknowledgement comes from a process that serves that socket, is of a
\* block it has accepted, and that of the last block of a file it has stored.
KnownToClient(m) ==
    m.op = "ACK" =>
        /\ Began(m.src) /\ m.dst = sfrom[m.src] /\ m.num <= Sent(m.src)
        /\ m.num >= FileLen[sfile[m.src]] => OnDisk(m.src)

PacketsKnown ==
    /\ \A p \in toServer : KnownToServer(p)
    /\ \A m \in toClient : KnownToClient(m)

ServerKnown(s) ==
    IF spc[s] = "free" THEN offset[s] = 0 /\ pending[s] = << >>
    ELSE /\ sfrom[s] \in 1 .. turn /\ sfile[s] = Session[sfrom[s]]
         /\ sblock[s] \in 1 .. FileLen[sfile[s]]

ClientKnown ==
    cpc = "waiting" =>
        /\ block <= FileLen[Session[turn]]
        /\ peer \in Servers => Began(peer) /\ sfrom[peer] = turn
        /\ block > 0 => peer \in Servers /\ block <= Sent(peer) + 1

OutcomesKnown ==
    \A t \in Turns : outcome[t] = "ok" =>
        \E s \in Servers : Began(s) /\ sfile[s] = Session[t] /\ OnDisk(s)

\* The number of the block that s has given to write() last.
Given(s) ==
    CASE spc[s] = "flushing" -> sblock[s] - 2
      [] spc[s] = "dallying" -> sblock[s]
      [] OTHER -> sblock[s] - 1

DiskKnown(s) ==
    spc[s] \in Live =>
        LET f == sfile[s] IN
        /\ Given(s) \in Nat
        /\ FirstBlocks(disk[f], failed[f], f, Given(s))
        /\ offset[s] = Len(disk[f])
        /\ IsFiniteSet(failed[f])
        /\ offset[s] + Cardinality(failed[f]) = Given(s)
        /\ pending[s] = IF spc[s] \in {"flushing", "closing"}
                        THEN << Block(f, Given(s) + 1) >> ELSE << >>
        /\ spc[s] \in {"closing", "dallying"} => sblock[s] = FileLen[f]

IInv ==
    /\ TypeInv
    /\ PacketsKnown
    /\ \A s \in Servers : ServerKnown(s) /\ DiskKnown(s)
    /\ ClientKnown
    /\ OutcomesKnown
    /\ Integrity

LEMMA InitInv == Init => IInv
  <1> SUFFICES ASSUME Init PROVE IInv
    OBVIOUS
  <1>1. TypeInv
    BY InitType
  <1>2. PacketsKnown
    BY DEF Init, PacketsKnown
  <1>3. ASSUME NEW s \in Servers PROVE ServerKnown(s) /\ DiskKnown(s)
    BY DEF Init, ServerKnown, DiskKnown, Live
  <1>4. ClientKnown /\ OutcomesKnown
    BY DEF Init, ClientKnown, OutcomesKnown
  <1>5. ASSUME NEW f \in Files
        PROVE  \E n \in 0 .. FileLen[f] : FirstBlocks(disk[f], failed[f], f, n)
    <2>1. disk[f] = << >> /\ failed[f] = {} /\ 0 \in 0 .. FileLen[f]
      BY SessionType DEF Init
    <2> QED
      BY <2>1, NothingStored
  <1> QED
    BY <1>1, <1>2, <1>3, <1>4, <1>5 DEF IInv, Integrity

-----------------------------------------------------------------------------
(* What a step leaves alone, and what only grows.                          *)

\* A process stays with its file and its client, and goes on; what it has
\* stored stays stored.
Onward(x) ==
    Began(x) =>
        /\ Began(x)' /\ sfile'[x] = sfile[x] /\ sfrom'[x] = sfrom[x]
        /\ Sent(x) <= Sent(x)'
        /\ OnDisk(x) => OnDisk(x)'

LEMMA ClientFrame ==
  ASSUME ClientStep
  PROVE  /\ UNCHANGED <<spc, sfile, sfrom, sblock, pending, offset, disk, failed>>
         /\ toClient' \subseteq toClient
  <1> USE DEF serverVars, procVars, diskVars
  <1>1. CASE StartPut
    BY <1>1 DEF StartPut
  <1>2. ASSUME NEW m \in toClient, ClientAdvance(m) \/ ClientFinish(m) \/ ClientError(m)
        PROVE  /\ UNCHANGED serverVars /\ toClient' \subseteq toClient
    BY <1>2, ReceivedSubset DEF ClientAdvance, ClientFinish, ClientError
  <1>3. ASSUME NEW m \in toClient, ClientResync(m)
        PROVE  /\ UNCHANGED serverVars /\ toClient' \subseteq toClient
    BY <1>3, ReceivedSubset, FlushedSubset DEF ClientResync
  <1>4. CASE ClientTimeout
    BY <1>4 DEF ClientTimeout
  <1>5. CASE ClientInterrupt
    BY <1>5 DEF ClientInterrupt
  <1> QED
    BY <1>1, <1>2, <1>3, <1>4, <1>5 DEF ClientStep, ClientReceive

LEMMA ServerFrame ==
  ASSUME TypeInv, NEW s \in Servers, ServerStep(s)
  PROVE  /\ UNCHANGED <<cpc, turn, block, peer, outcome>> /\ toServer' \subseteq toServer
         /\ spc'[s] # "free"
         /\ \A x \in Servers : x # s =>
               /\ spc'[x] = spc[x] /\ sfile'[x] = sfile[x] /\ sfrom'[x] = sfrom[x]
               /\ sblock'[x] = sblock[x] /\ pending'[x] = pending[x]
               /\ offset'[x] = offset[x]
         /\ \A f \in Files : f # sfile'[s] =>
               disk'[f] = disk[f] /\ failed'[f] = failed[f]
  <1> USE DEF clientVars
  <1>1. ASSUME NEW p \in toServer, ServerStart(s, p)
        PROVE  /\ UNCHANGED clientVars /\ toServer' \subseteq toServer
               /\ spc' = [spc EXCEPT ![s] = "waiting"] \/ spc' = [spc EXCEPT ![s] = "failed"]
               /\ sfile' = [sfile EXCEPT ![s] = p.body.file]
               /\ sfrom' = [sfrom EXCEPT ![s] = p.body.from]
               /\ sblock' = [sblock EXCEPT ![s] = 1]
               /\ pending' = pending /\ offset' = offset
               /\ disk' = [disk EXCEPT ![p.body.file] = << >>] \/ disk' = disk
               /\ failed' = [failed EXCEPT ![p.body.file] = {}] \/ failed' = failed
    BY <1>1, ReceivedSubset DEF ServerStart
  <1>2. ASSUME NEW p \in toServer, ServerAcceptFull(s, p) \/ ServerAcceptLast(s, p)
        PROVE  /\ UNCHANGED <<clientVars, sfile, sfrom, offset, disk, failed>>
               /\ toServer' \subseteq toServer
               /\ spc' = [spc EXCEPT ![s] = "flushing"] \/ spc' = [spc EXCEPT ![s] = "closing"]
               /\ sblock' = [sblock EXCEPT ![s] = sblock[s] + 1] \/ sblock' = sblock
               /\ pending' = [pending EXCEPT ![s] =
                                  Append(pending[s], Block(p.body.file, p.body.pos))]
    BY <1>2, ReceivedSubset DEF ServerAcceptFull, ServerAcceptLast
  <1>3. ASSUME ServerWrite(s)
        PROVE  /\ UNCHANGED <<clientVars, sfile, sfrom, sblock, toServer>>
               /\ spc' = [spc EXCEPT ![s] = "waiting"] \/ spc' = [spc EXCEPT ![s] = "dallying"]
               /\ pending' = [pending EXCEPT ![s] = Tail(pending[s])]
               /\ \/ /\ disk' = [disk EXCEPT ![sfile[s]] =
                                     WriteAt(disk[sfile[s]], offset[s], Head(pending[s]))]
                     /\ offset' = [offset EXCEPT ![s] = offset[s] + 1]
                     /\ failed' = failed
                  \/ /\ failed' = [failed EXCEPT ![sfile[s]] =
                                      failed[sfile[s]] \cup {Head(pending[s])}]
                     /\ disk' = disk /\ offset' = offset
    <2>1. /\ UNCHANGED <<clientVars, sfile, sfrom, sblock, toServer>>
          /\ spc' = [spc EXCEPT ![s] = "waiting"] \/ spc' = [spc EXCEPT ![s] = "dallying"]
          /\ WriteBehind(s)
      BY <1>3 DEF ServerWrite, ServerFlush, ServerClose
    <2> QED
      BY <2>1 DEF WriteBehind
  <1>4. CASE \E p \in toServer : ServerStart(s, p)
    <2>1. PICK p \in toServer : ServerStart(s, p)
      BY <1>4
    <2>2. /\ sfile'[s] = p.body.file
          /\ spc'[s] \in {"waiting", "failed"}
      BY <1>1, <2>1, UnchangedTypes
    <2>3. \A x \in Servers : x # s =>
            /\ spc'[x] = spc[x] /\ sfile'[x] = sfile[x] /\ sfrom'[x] = sfrom[x]
            /\ sblock'[x] = sblock[x] /\ pending'[x] = pending[x]
            /\ offset'[x] = offset[x]
      <3> SUFFICES ASSUME NEW x \in Servers, x # s
                   PROVE  /\ spc'[x] = spc[x] /\ sfile'[x] = sfile[x]
                          /\ sfrom'[x] = sfrom[x] /\ sblock'[x] = sblock[x]
                          /\ pending'[x] = pending[x] /\ offset'[x] = offset[x]
        OBVIOUS
      <3>1. spc'[x] = spc[x]
        BY <1>1, <2>1, UnchangedTypes
      <3>2. sfile'[x] = sfile[x] /\ sfrom'[x] = sfrom[x] /\ sblock'[x] = sblock[x]
        BY <1>1, <2>1, UnchangedTypes
      <3>3. pending'[x] = pending[x] /\ offset'[x] = offset[x]
        BY <1>1, <2>1
      <3> QED
        BY <3>1, <3>2, <3>3
    <2>4. \A f \in Files : f # p.body.file =>
            disk'[f] = disk[f] /\ failed'[f] = failed[f]
      <3>1. DOMAIN disk = Files /\ DOMAIN failed = Files
        BY UnchangedTypes
      <3>2. /\ disk' = [disk EXCEPT ![p.body.file] = << >>] \/ disk' = disk
            /\ failed' = [failed EXCEPT ![p.body.file] = {}] \/ failed' = failed
        BY <1>1, <2>1
      <3> QED
        BY <3>1, <3>2
    <2> QED
      BY <1>1, <2>1, <2>2, <2>3, <2>4
  <1>5. CASE \E p \in toServer : ServerAcceptFull(s, p) \/ ServerAcceptLast(s, p)
    BY <1>2, <1>5, UnchangedTypes
  <1>6. CASE ServerWrite(s)
    BY <1>3, <1>6, UnchangedTypes
  <1>7. CASE Idles(s)
    BY <1>7, IdlesEffect, UnchangedTypes DEF Live, Ended
  <1> QED
    BY <1>4, <1>5, <1>6, <1>7, ServerCases

LEMMA OnwardUnchanged ==
  ASSUME TypeInv, NEW x \in Servers,
         UNCHANGED <<spc, sfile, sfrom, sblock, disk, failed>>
  PROVE  Onward(x)
  <1>1. Sent(x)' = Sent(x) /\ (Began(x))' = Began(x) /\ OnDisk(x)' = OnDisk(x)
    BY DEF Sent, Began, OnDisk, Writing
  <1>2. Sent(x) \in Int
    BY UnchangedTypes DEF Sent
  <1> QED
    BY <1>1, <1>2 DEF Onward

\* The disk of another process than s that has a file is left alone.
LEMMA OthersFile ==
  ASSUME TypeInv, OneEach', NEW s \in Servers, ServerStep(s),
         NEW x \in Servers, x # s, Began(x)
  PROVE  sfile[x] # sfile'[s] /\ disk'[sfile[x]] = disk[sfile[x]]
                             /\ failed'[sfile[x]] = failed[sfile[x]]
  <1>1. /\ Began(s)' /\ Began(x)' /\ sfile'[x] = sfile[x] /\ sfile[x] \in Files
    BY ServerFrame, UnchangedTypes DEF Began
  <1>2. sfile'[x] # sfile'[s]
    BY <1>1 DEF OneEach
  <1> QED
    BY <1>1, <1>2, ServerFrame

LEMMA OnwardServer ==
  ASSUME TypeInv, OneEach', NEW s \in Servers, ServerStep(s), NEW x \in Servers
  PROVE  Onward(x)
  <1> SUFFICES ASSUME Began(x) PROVE Onward(x)
    BY DEF Onward
  <1>a. sblock[x] \in Nat
    BY UnchangedTypes
  <1>1. CASE x # s
    <2>1. /\ Began(x)' /\ sfile'[x] = sfile[x] /\ sfrom'[x] = sfrom[x]
          /\ Sent(x)' = Sent(x) /\ Writing(x)' = Writing(x)
      BY <1>1, ServerFrame DEF Began, Sent, Writing
    <2>2. OnDisk(x) => OnDisk(x)'
      BY <1>1, <2>1, OthersFile DEF OnDisk
    <2> QED
      BY <1>a, <2>1, <2>2 DEF Onward, Sent
  <1>2. CASE x = s
    <2>1. spc[s] # "free"
      BY <1>2 DEF Began
    <2>2. Began(s)'
      BY ServerFrame DEF Began
    <2>3. CASE \E p \in toServer : ServerStart(s, p)
      BY <2>1, <2>3 DEF ServerStart
    <2>4. ASSUME NEW p \in toServer, ServerAcceptFull(s, p) \/ ServerAcceptLast(s, p)
          PROVE  Onward(s)
      <3>1. /\ spc[s] = "waiting" /\ spc'[s] \in {"flushing", "closing"}
            /\ sfile' = sfile /\ sfrom' = sfrom
            /\ sblock'[s] = sblock[s] + 1 \/ sblock'[s] = sblock[s]
        BY <2>4, UnchangedTypes DEF ServerAcceptFull, ServerAcceptLast
      <3>2. Writing(s) /\ Writing(s)'
        BY <3>1 DEF Writing
      <3> QED
        BY <1>a, <1>2, <2>2, <3>1, <3>2 DEF Onward, Sent, OnDisk
    <2>5. CASE ServerWrite(s)
      <3>1. /\ spc[s] \in {"flushing", "closing"}
            /\ sfile' = sfile /\ sfrom' = sfrom /\ sblock' = sblock
        BY <2>5 DEF ServerWrite, ServerFlush, ServerClose
      <3>2. Writing(s)
        BY <3>1 DEF Writing
      <3> QED
        BY <1>a, <1>2, <2>2, <3>1, <3>2 DEF Onward, Sent, OnDisk
    <2>6. CASE Idles(s)
      <3>1. /\ UNCHANGED <<sfile, sfrom, sblock, disk, failed>>
            /\ spc'[s] = spc[s] \/ spc'[s] \in Ended
        BY <2>6, IdlesEffect, UnchangedTypes
      <3>2. ~Writing(s) => ~Writing(s)'
        BY <3>1 DEF Writing, Ended
      <3> QED
        BY <1>a, <1>2, <2>2, <3>1, <3>2 DEF Onward, Sent, OnDisk
    <2> QED
      BY <1>2, <2>3, <2>4, <2>5, <2>6, ServerCases
  <1> QED
    BY <1>1, <1>2

\* What is known of a packet stays true.
LEMMA StaysKnown ==
  ASSUME TypeInv, TypeInv', turn <= turn', \A x \in Servers : Onward(x)
  PROVE  /\ \A p \in ServerPackets : KnownToServer(p) => KnownToServer(p)'
         /\ \A m \in ClientPackets : KnownToClient(m) => KnownToClient(m)'
  <1>1. /\ turn \in Nat /\ turn' \in Nat
        /\ \A s \in Servers : sblock[s] \in Nat /\ sblock'[s] \in Nat
    BY DEF TypeInv, TypeOK
  <1>2. \A s \in Servers : Sent(s) \in Int /\ Sent(s)' \in Int
    BY <1>1 DEF Sent
  <1>3. ASSUME NEW p \in ServerPackets, KnownToServer(p)
        PROVE  KnownToServer(p)'
    <2>1. p.body.op = "WRQ" => p.body.from \in 1 .. turn'
      BY <1>1, <1>3, ServerPacketFields DEF KnownToServer
    <2>2. p.body.op = "DATA" =>
            /\ p.dst \in Servers /\ Began(p.dst)' /\ p.body.file = sfile'[p.dst]
            /\ p.body.pos <= Sent(p.dst)' + 1
      BY <1>1, <1>2, <1>3, ServerPacketFields DEF KnownToServer, Onward
    <2> QED
      BY <1>3, <2>1, <2>2 DEF KnownToServer
  <1>4. ASSUME NEW m \in ClientPackets, KnownToClient(m)
        PROVE  KnownToClient(m)'
    <2>1. m.op = "ACK" => m.src \in Servers /\ m.num \in Int
      BY ClientPacketFields
    <2> QED
      BY <1>2, <1>4, <2>1 DEF KnownToClient, Onward
  <1> QED
    BY <1>3, <1>4

-----------------------------------------------------------------------------
(* The packets.                                                            *)

\* The numbers that the arguments are about.
LEMMA Numbers ==
  ASSUME TypeInv
  PROVE  /\ turn \in Nat /\ block \in Nat
         /\ \A s \in Servers : sblock[s] \in Nat /\ Sent(s) \in Int
         /\ \A f \in Files : FileLen[f] \in Nat /\ FileLen[f] > 0
         /\ \A s \in Servers : sfile[s] \in Files /\ sfrom[s] \in Turns
         /\ cpc = "waiting" => turn \in Turns /\ Session[turn] \in Files
  BY SessionType DEF TypeInv, TypeOK, Sent

\* The processes that serve the client's transfer are one.
LEMMA OnePeer ==
  ASSUME IInv, OneEach, NEW s \in Servers, NEW r \in Servers,
         Began(s), Began(r), sfrom[s] = sfrom[r]
  PROVE  s = r
  <1>1. sfile[s] = Session[sfrom[s]] /\ sfile[r] = Session[sfrom[r]]
    BY DEF IInv, ServerKnown, Began
  <1> QED
    BY <1>1 DEF OneEach

\* What the sender of an acknowledgement has got.
LEMMA Answering ==
  ASSUME IInv, cpc = "waiting", NEW m \in Inbox, m.op = "ACK"
  PROVE  /\ m \in toClient /\ m \in ClientPackets /\ m.src \in Servers /\ Began(m.src)
         /\ sfrom[m.src] = turn /\ sfile[m.src] = Session[turn]
         /\ m.num \in Nat /\ m.num <= Sent(m.src)
         /\ m.num >= FileLen[Session[turn]] => OnDisk(m.src)
  <1>1. m \in toClient /\ m \in ClientPackets /\ m.dst = turn
    BY DEF Inbox, IInv, TypeInv, TypeOK
  <1>2. KnownToClient(m) /\ m.src \in Servers /\ m.num \in Nat
    BY <1>1, ClientPacketFields DEF IInv, PacketsKnown
  <1>3. Began(m.src) /\ sfrom[m.src] = turn
    BY <1>1, <1>2 DEF KnownToClient
  <1>4. sfile[m.src] = Session[turn]
    BY <1>2, <1>3 DEF IInv, ServerKnown, Began
  <1> QED
    BY <1>1, <1>2, <1>3, <1>4 DEF KnownToClient

\* The client may send its current packet to d.
LEMMA CurrentKnown ==
  ASSUME IInv, cpc = "waiting", NEW d \in Servers \cup {Port},
         block > 0 => d \in Servers /\ Began(d) /\ sfrom[d] = turn
                                    /\ block <= Sent(d) + 1
  PROVE  KnownToServer(To(d, Current)) /\ To(d, Current) \in ServerPackets
  <1>1. /\ turn \in Turns /\ turn \in Nat /\ turn > 0 /\ block \in Nat
        /\ Session[turn] \in Files /\ TypeOK
    BY SessionType, Numbers DEF IInv, TypeInv, Turns
  <1>2. To(d, Current) \in ServerPackets
    BY <1>1, CurrentType, ToType
  <1>3. CASE block = 0
    <2>1. /\ To(d, Current).body.op = "WRQ" /\ To(d, Current).body.from = turn
          /\ To(d, Current).body.file = Session[turn]
      BY <1>3 DEF To, Current, Wrq
    <2> QED
      BY <1>1, <1>2, <2>1 DEF KnownToServer
  <1>4. CASE block # 0
    <2>1. /\ To(d, Current).body.op = "DATA" /\ To(d, Current).dst = d
          /\ To(d, Current).body.file = Session[turn]
          /\ To(d, Current).body.pos = block /\ To(d, Current).body.num = Wire(block)
      BY <1>4 DEF To, Current, Data
    <2>2. sfile[d] = Session[turn] /\ block <= FileLen[Session[turn]] /\ block > 0
      BY <1>1, <1>4 DEF IInv, ServerKnown, ClientKnown, Began
    <2>3. block \in 1 .. FileLen[Session[turn]]
      BY <1>1, <2>2, Numbers DEF IInv
    <2> QED
      BY <1>1, <1>2, <1>4, <2>1, <2>2, <2>3 DEF KnownToServer
  <1> QED
    BY <1>3, <1>4

\* What the client sends is known already as it sends it.
LEMMA ClientSends ==
  ASSUME IInv, OneEach, ClientStep, ~StartPut, NEW p \in toServer'
  PROVE  KnownToServer(p) /\ p \in ServerPackets /\ turn' = turn
  <1> USE DEF clientVars
  <1>0. /\ TypeInv /\ \A q \in toServer : KnownToServer(q) /\ q \in ServerPackets
    BY DEF IInv, PacketsKnown, TypeInv, TypeOK
  <1>1. ASSUME NEW m \in toClient, ClientAdvance(m)
        PROVE  KnownToServer(p) /\ p \in ServerPackets /\ turn' = turn
    <2>1. cpc = "waiting" /\ m \in Inbox /\ m.op = "ACK" /\ m.num = block
          /\ block < FileLen[Session[turn]] /\ turn' = turn
      BY <1>1 DEF ClientAdvance
    <2>2. /\ m.src \in Servers /\ Began(m.src) /\ sfile[m.src] = Session[turn]
          /\ block <= Sent(m.src)
      BY <2>1, Answering
    <2>3. block + 1 \in 1 .. FileLen[Session[turn]] /\ block + 1 <= Sent(m.src) + 1
          /\ block + 1 \in Nat /\ Session[turn] \in Files
      BY <1>0, <2>1, <2>2, Numbers
    <2>4. To(m.src, Data(Session[turn], block + 1)) \in ServerPackets
      BY <2>2, <2>3, BodyTypes, ToType
    <2>5. KnownToServer(To(m.src, Data(Session[turn], block + 1)))
      BY <2>2, <2>3 DEF KnownToServer, To, Data
    <2>6. To(m.src, ErrorBody) \in ServerPackets
      BY <2>2, BodyTypes, ToType
    <2>7. KnownToServer(To(m.src, ErrorBody))
      BY DEF KnownToServer, To, ErrorBody
    <2>8. \/ toServer' = toServer \cup {To(m.src, Data(Session[turn], block + 1))}
          \/ toServer' = toServer \cup {To(m.src, ErrorBody)}
      BY <1>1 DEF ClientAdvance, ClientSend
    <2> QED
      BY <1>0, <2>1, <2>4, <2>5, <2>6, <2>7, <2>8
  <1>2. ASSUME NEW m \in toClient, ClientFinish(m) \/ ClientError(m)
        PROVE  KnownToServer(p) /\ p \in ServerPackets /\ turn' = turn
    BY <1>0, <1>2 DEF ClientFinish, ClientError
  <1>3. ASSUME NEW m \in toClient, ClientResync(m)
        PROVE  KnownToServer(p) /\ p \in ServerPackets /\ turn' = turn
    <2>1. cpc = "waiting" /\ m \in Inbox /\ m.op = "ACK" /\ turn' = turn
          /\ toServer' \subseteq toServer \cup {To(m.src, Current)}
      BY <1>3 DEF ClientResync, ClientSend
    <2>2. m.src \in Servers /\ Began(m.src) /\ sfrom[m.src] = turn
      BY <2>1, Answering
    <2>3. block > 0 => block <= Sent(m.src) + 1
      BY <2>1, <2>2, OnePeer DEF IInv, ClientKnown
    <2>4. KnownToServer(To(m.src, Current)) /\ To(m.src, Current) \in ServerPackets
      BY <2>1, <2>2, <2>3, CurrentKnown
    <2> QED
      BY <1>0, <2>1, <2>4
  <1>4. CASE ClientTimeout
    <2>1. cpc = "waiting" /\ turn' = turn
          /\ toServer' \subseteq toServer \cup {To(peer, Current)}
      BY <1>4 DEF ClientTimeout, ClientSend
    <2>2. KnownToServer(To(peer, Current)) /\ To(peer, Current) \in ServerPackets
      BY <2>1, CurrentKnown DEF IInv, ClientKnown, TypeInv, TypeOK
    <2> QED
      BY <1>0, <2>1, <2>2
  <1>5. CASE ClientInterrupt
    BY <1>0, <1>5 DEF ClientInterrupt
  <1> QED
    BY <1>1, <1>2, <1>3, <1>4, <1>5 DEF ClientStep, ClientReceive

LEMMA ClientPackets1 ==
  ASSUME IInv, OneEach, ClientStep, TypeInv'
  PROVE  PacketsKnown'
  <1>1. TypeInv /\ toClient' \subseteq toClient /\ toClient \subseteq ClientPackets
    BY ClientFrame DEF IInv, TypeInv, TypeOK
  <1>2. \A x \in Servers : Onward(x)
    BY <1>1, ClientFrame, OnwardUnchanged
  <1>3. turn <= turn'
    <2>1. turn \in Nat /\ (turn' = turn \/ turn' = turn + 1)
      BY <1>1, Numbers DEF ClientStep, ClientReceive, StartPut, ClientAdvance,
         ClientFinish, ClientResync, ClientError, ClientTimeout, ClientInterrupt
    <2> QED
      BY <2>1
  <1>4. \A m \in toClient' : KnownToClient(m)'
    BY <1>1, <1>2, <1>3, StaysKnown DEF IInv, PacketsKnown
  <1>5. CASE ~StartPut
    BY <1>1, <1>2, <1>3, <1>4, <1>5, ClientSends, StaysKnown DEF PacketsKnown
  <1>6. CASE StartPut
    <2>1. /\ toServer' = toServer \cup {To(Port, Wrq(Session[turn + 1], turn + 1))}
          /\ turn' = turn + 1 /\ turn \in Nat
      BY <1>1, <1>6, Numbers DEF StartPut, ClientSend
    <2>2. \A p \in toServer : KnownToServer(p)'
      BY <1>1, <1>2, <1>3, StaysKnown DEF IInv, PacketsKnown, TypeInv, TypeOK
    <2>3. ASSUME NEW p, p = To(Port, Wrq(Session[turn + 1], turn + 1))
          PROVE  KnownToServer(p)'
      <3>1. /\ p.body.op = "WRQ" /\ p.body.from = turn'
            /\ p.body.file = Session[turn'] /\ turn' \in 1 .. turn'
        BY <2>1, <2>3 DEF To, Wrq
      <3> QED
        BY <3>1 DEF KnownToServer
    <2> QED
      BY <1>4, <2>1, <2>2, <2>3 DEF PacketsKnown
  <1> QED
    BY <1>5, <1>6

\* The block that s waits for, and no other, has its number.
LEMMA NextBlock ==
  ASSUME IInv, NEW s \in Servers, NEW p \in ServerInbox(s), spc[s] = "waiting",
         p.body.op = "DATA", Wanted(s, p)
  PROVE  /\ p.body.file = sfile[s] /\ p.body.pos = sblock[s]
         /\ sblock[s] \in 1 .. FileLen[sfile[s]]
  <1>1. p \in toServer /\ p \in ServerPackets /\ p.dst = s /\ KnownToServer(p)
    BY DEF ServerInbox, IInv, PacketsKnown, TypeInv, TypeOK
  <1>2. /\ p.body.file = sfile[s] /\ p.body.pos <= Sent(s) + 1
        /\ p.body.num = Wire(p.body.pos) /\ p.body.pos \in Nat
    BY <1>1, ServerPacketFields DEF KnownToServer
  <1>3. Sent(s) = sblock[s] - 1 /\ sblock[s] \in Nat
    BY Numbers DEF Sent, Writing, IInv
  <1>4. sblock[s] <= p.body.pos
    BY <1>2, WireType DEF Wanted
  <1>5. sblock[s] \in 1 .. FileLen[sfile[s]]
    BY DEF IInv, ServerKnown
  <1> QED
    BY <1>2, <1>3, <1>4, <1>5

\* What a server sends is known once it is sent.
LEMMA ServerSends ==
  ASSUME IInv, OneEach', TypeInv', NEW s \in Servers, ServerStep(s),
         DiskKnown(s)', NEW m \in toClient'
  PROVE  KnownToClient(m)'
  <1>0. /\ TypeInv /\ toClient \subseteq ClientPackets /\ turn' = turn
        /\ \A x \in Servers : Onward(x)
        /\ spc'[s] # "free" /\ turn \in Nat
    BY OnwardServer, ServerFrame, Numbers DEF IInv, TypeInv, TypeOK
  <1>1. ASSUME m \in toClient PROVE KnownToClient(m)'
    BY <1>0, <1>1, StaysKnown DEF IInv, PacketsKnown
  <1>2. ASSUME NEW p \in toServer, ServerStart(s, p)
        PROVE  KnownToClient(m)'
    <2>1. /\ sblock'[s] = 1 /\ sfrom'[s] = p.body.from
          /\ \/ m \in toClient
             \/ m = Error(s, p.body.from)
             \/ /\ m = [op |-> "ACK", src |-> s, dst |-> p.body.from, num |-> 0]
                /\ spc'[s] = "waiting"
      BY <1>0, <1>2, UnchangedTypes DEF ServerStart, ServerSend
    <2>2. CASE m = Error(s, p.body.from)
      BY <2>2 DEF KnownToClient, Error
    <2>3. CASE /\ m = [op |-> "ACK", src |-> s, dst |-> p.body.from, num |-> 0]
               /\ spc'[s] = "waiting"
      <3>1. Began(s)' /\ Sent(s)' = 0
        BY <2>1, <2>3 DEF Began, Sent, Writing
      <3>2. FileLen[sfile'[s]] > 0 /\ FileLen[sfile'[s]] \in Nat
        BY SessionType DEF TypeInv, TypeOK
      <3> QED
        BY <2>1, <2>3, <3>1, <3>2 DEF KnownToClient
    <2> QED
      BY <1>1, <2>1, <2>2, <2>3
  <1>3. ASSUME NEW n \in Nat, m = Ack(s, n), sfrom'[s] = sfrom[s], Began(s),
               n <= Sent(s)', n >= FileLen[sfile[s]] => OnDisk(s)'
        PROVE  KnownToClient(m)'
    <2>1. m.src = s /\ m.dst = sfrom[s] /\ m.num = Wire(n)
      BY <1>3 DEF Ack
    <2>2. /\ Wire(n) \in Nat /\ Wire(n) <= n /\ Sent(s)' \in Int
          /\ FileLen[sfile[s]] \in Nat
      <3>1. sblock'[s] \in Nat
        BY DEF TypeInv, TypeOK
      <3> QED
        BY <1>0, <3>1, WireType, Numbers DEF Sent
    <2>3. Began(s)' /\ sfile'[s] = sfile[s]
      BY <1>0, <1>3 DEF Onward
    <2> QED
      BY <1>3, <2>1, <2>2, <2>3 DEF KnownToClient
  <1>4. ASSUME Began(s)
        PROVE  sblock[s] \in 1 .. FileLen[sfile[s]] /\ FileLen[sfile[s]] \in Nat
    BY <1>0, <1>4, Numbers DEF IInv, ServerKnown, Began
  <1>5. ASSUME NEW p \in toServer, ServerAcceptFull(s, p)
        PROVE  KnownToClient(m)'
    <2>1. /\ spc[s] = "waiting" /\ spc'[s] = "flushing" /\ sfrom' = sfrom
          /\ sblock'[s] = sblock[s] + 1 /\ p \in ServerInbox(s)
          /\ p.body.op = "DATA" /\ Wanted(s, p) /\ p.body.pos < FileLen[p.body.file]
          /\ m \in toClient \/ m = Ack(s, sblock[s])
      BY <1>0, <1>5, UnchangedTypes DEF ServerAcceptFull, ServerSend
    <2>2. Began(s) /\ sblock[s] \in Nat
      BY <1>0, <2>1, Numbers DEF Began
    <2>3. sblock[s] < FileLen[sfile[s]] /\ sblock[s] <= Sent(s)'
      BY <2>1, <2>2, NextBlock DEF Sent, Writing
    <2>4. ~(sblock[s] >= FileLen[sfile[s]])
      BY <1>4, <2>2, <2>3
    <2> QED
      BY <1>1, <1>3, <2>1, <2>2, <2>3, <2>4
  <1>6. ASSUME NEW p \in toServer, ServerAcceptLast(s, p)
        PROVE  KnownToClient(m)'
    BY <1>1, <1>6 DEF ServerAcceptLast
  <1>7. CASE ServerFlush(s)
    BY <1>1, <1>7 DEF ServerFlush
  <1>8. CASE ServerClose(s)
    <2>1. /\ spc[s] = "closing" /\ spc'[s] = "dallying" /\ sfrom' = sfrom
          /\ sblock' = sblock /\ sfile' = sfile
          /\ m \in toClient \/ m = Ack(s, sblock[s])
      BY <1>0, <1>8, UnchangedTypes DEF ServerClose, ServerSend
    <2>2. Began(s) /\ sblock[s] \in Nat /\ sblock[s] <= Sent(s)'
      BY <1>0, <2>1, Numbers DEF Began, Sent, Writing
    <2>3. OnDisk(s)'
      BY <2>1 DEF DiskKnown, Live, Given, OnDisk, Writing
    <2> QED
      BY <1>1, <1>3, <2>1, <2>2, <2>3
  <1>9. CASE Idles(s)
    <2>1. /\ UNCHANGED <<sfrom, sfile, sblock>> /\ spc[s] \in Live
          /\ \/ m \in toClient
             \/ spc[s] = "waiting" /\ m = Ack(s, sblock[s] - 1)
             \/ spc[s] = "dallying" /\ m = Ack(s, sblock[s])
      BY <1>0, <1>9, IdlesEffect
    <2>2. /\ Began(s) /\ sblock[s] \in Nat /\ Sent(s) \in Int /\ Sent(s)' \in Int
          /\ Sent(s) <= Sent(s)'
          /\ OnDisk(s) => OnDisk(s)'
      <3>1. Began(s)
        BY <2>1 DEF Began, Live
      <3>2. sblock[s] \in Nat /\ Sent(s) \in Int
        BY <1>0, Numbers
      <3>3. Sent(s)' \in Int
        BY <2>1, <3>2 DEF Sent
      <3> QED
        BY <1>0, <3>1, <3>2, <3>3 DEF Onward
    <2>3. CASE spc[s] = "waiting" /\ m = Ack(s, sblock[s] - 1)
      <3>1. sblock[s] - 1 \in Nat /\ ~(sblock[s] - 1 >= FileLen[sfile[s]])
        BY <1>4, <2>2
      <3>2. sblock[s] - 1 <= Sent(s)'
        <4>1. Sent(s) = sblock[s] - 1
          BY <2>3 DEF Sent, Writing
        <4> QED
          BY <2>2, <4>1
      <3> QED
        BY <1>3, <2>1, <2>2, <2>3, <3>1, <3>2
    <2>4. CASE spc[s] = "dallying" /\ m = Ack(s, sblock[s])
      <3>1. sblock[s] <= Sent(s)'
        <4>1. Sent(s) = sblock[s]
          BY <2>4 DEF Sent, Writing
        <4> QED
          BY <2>2, <4>1
      <3>2. OnDisk(s)
        <4>1. DiskKnown(s)
          BY DEF IInv
        <4>2. ~Writing(s) /\ Given(s) = sblock[s] /\ spc[s] \in Live
          BY <2>4 DEF Writing, Given, Live
        <4> QED
          BY <2>4, <4>1, <4>2 DEF DiskKnown, OnDisk
      <3> QED
        BY <1>3, <2>1, <2>2, <2>4, <3>1, <3>2
    <2> QED
      BY <1>1, <2>1, <2>3, <2>4
  <1> QED
    BY <1>2, <1>5, <1>6, <1>7, <1>8, <1>9, ServerCases DEF ServerWrite

LEMMA ServerPackets1 ==
  ASSUME IInv, OneEach', TypeInv', NEW s \in Servers, ServerStep(s), DiskKnown(s)'
  PROVE  PacketsKnown'
  <1>1. /\ TypeInv /\ toServer' \subseteq toServer /\ toServer \subseteq ServerPackets
        /\ turn' = turn /\ turn \in Nat /\ \A x \in Servers : Onward(x)
    BY OnwardServer, ServerFrame, Numbers DEF IInv, TypeInv, TypeOK
  <1>2. \A p \in toServer' : KnownToServer(p)'
    BY <1>1, StaysKnown DEF IInv, PacketsKnown
  <1> QED
    BY <1>2, ServerSends DEF PacketsKnown

-----------------------------------------------------------------------------
(* The two ends.                                                           *)

LEMMA ServersStayKnown ==
  ASSUME IInv, [Next]_vars, OneEach'
  PROVE  \A x \in Servers : ServerKnown(x)'
  <1>0. TypeInv /\ turn \in Nat
    BY Numbers DEF IInv
  <1>1. ASSUME UNCHANGED <<spc, sfile, sfrom, sblock, pending, offset>>,
               turn' \in Nat, turn <= turn', NEW x \in Servers
        PROVE  ServerKnown(x)'
    <2>1. ServerKnown(x)
      BY DEF IInv
    <2>2. sfrom[x] \in 1 .. turn => sfrom[x] \in 1 .. turn'
      BY <1>0, <1>1
    <2> QED
      BY <1>1, <2>1, <2>2 DEF ServerKnown
  <1>2. CASE ClientStep
    <2>1. turn' = turn \/ turn' = turn + 1
      BY <1>2 DEF ClientStep, ClientReceive, StartPut, ClientAdvance,
         ClientFinish, ClientResync, ClientError, ClientTimeout, ClientInterrupt
    <2> QED
      BY <1>0, <1>1, <1>2, <2>1, ClientFrame
  <1>3. CASE Lose \/ UNCHANGED vars
    BY <1>0, <1>1, <1>3 DEF Lose, vars, clientVars, serverVars, procVars, diskVars
  <1>4. ASSUME NEW s \in Servers, ServerStep(s), NEW x \in Servers
        PROVE  ServerKnown(x)'
    <2>1. turn' = turn /\ spc'[s] # "free"
      BY <1>0, <1>4, ServerFrame
    <2>2. CASE x # s
      <3>1. ServerKnown(x)
        BY DEF IInv
      <3> QED
        BY <1>0, <1>4, <2>1, <2>2, <3>1, ServerFrame DEF ServerKnown
    <2>3. ASSUME NEW p \in toServer, ServerStart(s, p)
          PROVE  ServerKnown(s)'
      <3>1. p.body.from \in 1 .. turn /\ p.body.file = Session[p.body.from]
        BY <2>3 DEF ServerStart, IInv, PacketsKnown, KnownToServer
      <3>2. /\ sfile'[s] = p.body.file /\ sfrom'[s] = p.body.from /\ sblock'[s] = 1
        BY <1>0, <2>3, UnchangedTypes DEF ServerStart
      <3>3. p.body.file \in Files
        BY <1>0, <2>3, ServerPacketFields DEF ServerStart, TypeInv, TypeOK
      <3>4. 1 \in 1 .. FileLen[p.body.file]
        BY <3>3, SessionType
      <3> QED
        BY <2>1, <3>1, <3>2, <3>4 DEF ServerKnown
    <2>4. ASSUME sfile' = sfile, sfrom' = sfrom, spc[s] # "free",
                 sblock'[s] \in 1 .. FileLen[sfile[s]]
          PROVE  ServerKnown(s)'
      <3>1. ServerKnown(s)
        BY DEF IInv
      <3> QED
        BY <2>1, <2>4, <3>1 DEF ServerKnown
    <2>5. ASSUME spc[s] # "free" PROVE sblock[s] \in 1 .. FileLen[sfile[s]]
      BY <2>5 DEF IInv, ServerKnown
    <2>6. ASSUME NEW p \in toServer, ServerAcceptFull(s, p)
          PROVE  ServerKnown(s)'
      <3>1. /\ spc[s] = "waiting" /\ sblock'[s] = sblock[s] + 1
            /\ p \in ServerInbox(s) /\ p.body.op = "DATA" /\ Wanted(s, p)
            /\ p.body.pos < FileLen[p.body.file] /\ sfile' = sfile /\ sfrom' = sfrom
        BY <1>0, <2>6, UnchangedTypes DEF ServerAcceptFull
      <3>2. sblock[s] < FileLen[sfile[s]] /\ sblock[s] \in 1 .. FileLen[sfile[s]]
        BY <3>1, NextBlock
      <3>3. sblock[s] + 1 \in 1 .. FileLen[sfile[s]]
        BY <1>0, <3>2, Numbers
      <3> QED
        BY <2>4, <3>1, <3>3
    <2>7. ASSUME (\E p \in toServer : ServerAcceptLast(s, p)) \/ ServerWrite(s) \/ Idles(s)
          PROVE  ServerKnown(s)'
      <3>1. sfile' = sfile /\ sfrom' = sfrom /\ sblock' = sblock /\ spc[s] # "free"
        <4>1. CASE \E p \in toServer : ServerAcceptLast(s, p)
          BY <4>1 DEF ServerAcceptLast
        <4>2. CASE ServerWrite(s)
          BY <4>2 DEF ServerWrite, ServerFlush, ServerClose
        <4>3. CASE Idles(s)
          BY <1>0, <4>3, IdlesEffect DEF Live
        <4> QED
          BY <2>7, <4>1, <4>2, <4>3
      <3>2. sblock'[s] \in 1 .. FileLen[sfile[s]]
        BY <2>5, <3>1
      <3> QED
        BY <2>4, <3>1, <3>2
    <2> QED
      BY <1>4, <2>2, <2>3, <2>6, <2>7, ServerCases
  <1> QED
    BY <1>2, <1>3, <1>4, NextCases

LEMMA ClientStaysKnown ==
  ASSUME IInv, [Next]_vars, OneEach, OneEach'
  PROVE  ClientKnown'
  <1>0. /\ TypeInv /\ turn \in Nat /\ block \in Nat
        /\ \A s \in Servers : Sent(s) \in Int
        /\ Port \notin Servers /\ peer \in Servers \cup {Port}
    BY Numbers, WriteAssumption DEF IInv, TypeInv, TypeOK
  <1>1. CASE Lose \/ UNCHANGED vars
    <2>1. /\ UNCHANGED <<cpc, turn, block, peer, spc, sfrom, sblock>>
      BY <1>1 DEF Lose, vars, clientVars, serverVars, procVars
    <2>2. \A x \in Servers : Began(x)' = Began(x) /\ Sent(x)' = Sent(x)
      BY <2>1 DEF Began, Sent, Writing
    <2> QED
      BY <2>1, <2>2 DEF IInv, ClientKnown
  <1>2. ASSUME NEW s \in Servers, ServerStep(s)
        PROVE  ClientKnown'
    <2>1. \A x \in Servers : Onward(x)
      BY <1>0, <1>2, OnwardServer
    <2>2. UNCHANGED <<cpc, turn, block, peer>>
      BY <1>0, <1>2, ServerFrame
    <2>3. \A x \in Servers : Sent(x)' \in Int
      <3>1. TypeInv'
        BY <1>0, StepType
      <3> QED
        BY <3>1 DEF Sent, TypeInv, TypeOK
    <2> SUFFICES ASSUME cpc = "waiting" PROVE ClientKnown'
      BY <2>2 DEF ClientKnown
    <2>4. block <= FileLen[Session[turn]]
      BY DEF IInv, ClientKnown
    <2>5. ASSUME NEW r \in Servers, r = peer
          PROVE  /\ Began(r)' /\ sfrom'[r] = turn
                 /\ block > 0 => block <= Sent(r)' + 1
      <3>1. /\ Began(r) /\ sfrom[r] = turn
            /\ block > 0 => block <= Sent(r) + 1
        BY <2>5 DEF IInv, ClientKnown
      <3>2. Began(r)' /\ sfrom'[r] = sfrom[r] /\ Sent(r) <= Sent(r)'
        BY <2>1, <3>1 DEF Onward
      <3> QED
        BY <1>0, <2>3, <3>1, <3>2
    <2>6. block > 0 => peer \in Servers
      BY DEF IInv, ClientKnown
    <2> QED
      BY <2>2, <2>4, <2>5, <2>6 DEF ClientKnown, Began, Sent, Writing
  <1>3. ASSUME ClientStep
        PROVE  ClientKnown'
    <2>1. UNCHANGED <<spc, sfrom, sblock>>
      BY <1>3, ClientFrame
    <2>2. \A x \in Servers : Began(x)' = Began(x) /\ Sent(x)' = Sent(x)
      BY <2>1 DEF Began, Sent, Writing
    <2>3. CASE StartPut
      BY <1>0, <2>3, SessionType DEF StartPut, ClientKnown, Turns
    <2>4. ASSUME NEW m \in toClient, ClientAdvance(m)
          PROVE  ClientKnown'
      <3>1. /\ cpc = "waiting" /\ m \in Inbox /\ m.op = "ACK" /\ m.num = block
            /\ block < FileLen[Session[turn]] /\ turn' = turn /\ peer' = m.src
            /\ block' = block + 1 \/ cpc' = "prompt"
        BY <2>4 DEF ClientAdvance, Prompt
      <3>2. /\ m.src \in Servers /\ Began(m.src) /\ sfrom[m.src] = turn
            /\ block <= Sent(m.src)
        BY <3>1, Answering
      <3>3. block + 1 <= FileLen[Session[turn]] /\ block + 1 <= Sent(m.src) + 1
        BY <1>0, <3>1, <3>2, Numbers
      <3> QED
        BY <2>1, <2>2, <3>1, <3>2, <3>3 DEF ClientKnown
    <2>5. ASSUME NEW m \in toClient, ClientFinish(m) \/ ClientError(m)
          PROVE  ClientKnown'
      BY <2>5 DEF ClientFinish, ClientError, Prompt, ClientKnown
    <2>6. ASSUME NEW m \in toClient, ClientResync(m)
          PROVE  ClientKnown'
      <3>1. /\ cpc = "waiting" /\ m \in Inbox /\ m.op = "ACK"
            /\ UNCHANGED <<cpc, turn, block>> /\ peer' = m.src
        BY <2>6 DEF ClientResync
      <3>2. m.src \in Servers /\ Began(m.src) /\ sfrom[m.src] = turn
        BY <3>1, Answering
      <3>3. block > 0 => block <= Sent(m.src) + 1
        BY <3>1, <3>2, OnePeer DEF IInv, ClientKnown
      <3>4. block <= FileLen[Session[turn]]
        BY <3>1 DEF IInv, ClientKnown
      <3> QED
        BY <2>1, <2>2, <3>1, <3>2, <3>3, <3>4 DEF ClientKnown
    <2>7. CASE ClientTimeout
      <3>1. /\ UNCHANGED <<turn, block, peer>>
            /\ cpc' = cpc \/ cpc' = "prompt"
        BY <2>7 DEF ClientTimeout, Prompt
      <3> QED
        BY <2>1, <2>2, <3>1 DEF IInv, ClientKnown
    <2>8. CASE ClientInterrupt
      BY <2>8 DEF ClientInterrupt, Prompt, ClientKnown
    <2> QED
      BY <1>3, <2>3, <2>4, <2>5, <2>6, <2>7, <2>8 DEF ClientStep, ClientReceive
  <1> QED
    BY <1>1, <1>2, <1>3, NextCases

\* "ok" is said when the block of that number has been acknowledged.
LEMMA OutcomesStayKnown ==
  ASSUME IInv, [Next]_vars, OneEach'
  PROVE  OutcomesKnown'
  <1>0. TypeInv
    BY DEF IInv
  <1>1. ASSUME \A x \in Servers : Onward(x), NEW t \in Turns, outcome[t] = "ok"
        PROVE  \E s \in Servers : Began(s)' /\ sfile'[s] = Session[t] /\ OnDisk(s)'
    <2>1. PICK s \in Servers : Began(s) /\ sfile[s] = Session[t] /\ OnDisk(s)
      BY <1>1 DEF IInv, OutcomesKnown
    <2> QED
      BY <1>1, <2>1 DEF Onward
  <1>2. ASSUME outcome' = outcome, \A x \in Servers : Onward(x)
        PROVE  OutcomesKnown'
    BY <1>1, <1>2 DEF OutcomesKnown
  <1>3. CASE Lose \/ UNCHANGED vars
    BY <1>0, <1>2, <1>3, OnwardUnchanged
       DEF Lose, vars, clientVars, serverVars, procVars, diskVars
  <1>4. ASSUME NEW s \in Servers, ServerStep(s)
        PROVE  OutcomesKnown'
    BY <1>0, <1>2, <1>4, OnwardServer, ServerFrame
  <1>5. CASE ClientStep
    <2>1. /\ \A x \in Servers : Onward(x)
          /\ UNCHANGED <<spc, sfile, sfrom, sblock, disk, failed>>
      BY <1>0, <1>5, ClientFrame, OnwardUnchanged
    <2>2. ASSUME NEW t \in Turns, outcome'[t] = "ok", outcome[t] # "ok"
          PROVE  \E s \in Servers : Began(s)' /\ sfile'[s] = Session[t] /\ OnDisk(s)'
      <3>1. PICK m \in toClient : ClientFinish(m)
        <4>1. outcome \in [Turns -> {"none", "ok", "error", "timeout", "interrupted"}]
          BY <1>0 DEF TypeInv, TypeOK
        <4>2. ~StartPut /\ ~ClientInterrupt /\ ~ClientTimeout
          BY <2>2, <4>1 DEF StartPut, ClientInterrupt, ClientTimeout, Prompt
        <4>3. \A m \in toClient : ~ClientAdvance(m) /\ ~ClientResync(m) /\ ~ClientError(m)
          BY <2>2, <4>1 DEF ClientAdvance, ClientResync, ClientError, Prompt
        <4> QED
          BY <1>5, <4>2, <4>3 DEF ClientStep, ClientReceive
      <3>2. /\ cpc = "waiting" /\ m \in Inbox /\ m.op = "ACK" /\ m.num = block
            /\ block = FileLen[Session[turn]]
            /\ outcome' = [outcome EXCEPT ![turn] = "ok"]
        BY <3>1 DEF ClientFinish, Prompt
      <3>3. t = turn
        BY <1>0, <2>2, <3>2 DEF TypeInv, TypeOK
      <3>4. /\ m.src \in Servers /\ Began(m.src) /\ sfile[m.src] = Session[turn]
            /\ m.num >= FileLen[Session[turn]] => OnDisk(m.src)
        BY <3>2, Answering
      <3>5. OnDisk(m.src)
        BY <1>0, <3>2, <3>4, Numbers
      <3> QED
        BY <2>1, <3>3, <3>4, <3>5 DEF Onward
    <2> QED
      BY <1>1, <2>1, <2>2 DEF OutcomesKnown
  <1> QED
    BY <1>3, <1>4, <1>5, NextCases

-----------------------------------------------------------------------------
(* The disk.                                                               *)

\* write_behind() gives the next block to the disk.
LEMMA NextGiven ==
  ASSUME TypeInv, NEW s \in Servers, DiskKnown(s), spc[s] \in {"flushing", "closing"},
         WriteBehind(s)
  PROVE  /\ FirstBlocks(disk'[sfile[s]], failed'[sfile[s]], sfile[s], Given(s) + 1)
         /\ offset'[s] = Len(disk'[sfile[s]]) /\ IsFiniteSet(failed'[sfile[s]])
         /\ offset'[s] + Cardinality(failed'[sfile[s]]) = Given(s) + 1
         /\ pending'[s] = << >>
  <1> DEFINE f == sfile[s]
             d == disk[f]
             blk == Block(f, Given(s) + 1)
  <1>1. /\ Given(s) \in Nat /\ FirstBlocks(d, failed[f], f, Given(s))
        /\ offset[s] = Len(d) /\ IsFiniteSet(failed[f])
        /\ offset[s] + Cardinality(failed[f]) = Given(s) /\ pending[s] = << blk >>
    BY DEF DiskKnown, Live
  <1>2. /\ DOMAIN disk = Files /\ DOMAIN failed = Files /\ f \in Files
        /\ DOMAIN offset = Servers /\ DOMAIN pending = Servers /\ offset[s] \in Nat
        /\ d \in Seq((Files \X Nat) \cup {Hole})
    BY UnchangedTypes
  <1>3. Head(pending[s]) = blk /\ Tail(pending[s]) = << >>
    BY <1>1
  <1>4. pending'[s] = << >>
    <2>1. pending' = [pending EXCEPT ![s] = Tail(pending[s])]
      BY DEF WriteBehind
    <2> QED
      BY <1>2, <1>3, <2>1
  <1>5. CASE /\ disk' = [disk EXCEPT ![f] = WriteAt(d, offset[s], Head(pending[s]))]
             /\ offset' = [offset EXCEPT ![s] = offset[s] + 1]
             /\ failed' = failed
    <2>1. /\ disk'[f] = WriteAt(d, Len(d), blk) /\ offset'[s] = offset[s] + 1
          /\ failed'[f] = failed[f]
      BY <1>1, <1>2, <1>3, <1>5
    <2>2. FirstBlocks(disk'[f], failed'[f], f, Given(s) + 1)
      BY <1>1, <1>2, <2>1, NextStored
    <2>3. Len(disk'[f]) = Len(d) + 1
      BY <1>2, <2>1, AppendAtEnd
    <2>4. Cardinality(failed[f]) \in Nat
      BY <1>1, FS_CardinalityType
    <2>5. offset'[s] + Cardinality(failed'[f]) = Given(s) + 1
      BY <1>1, <1>2, <2>1, <2>4
    <2> QED
      BY <1>1, <1>4, <2>1, <2>2, <2>3, <2>5
  <1>6. CASE /\ failed' = [failed EXCEPT ![f] = failed[f] \cup {Head(pending[s])}]
             /\ disk' = disk /\ offset' = offset
    <2>1. /\ failed'[f] = failed[f] \cup {blk} /\ disk'[f] = d /\ offset'[s] = offset[s]
      BY <1>2, <1>3, <1>6
    <2>2. /\ FirstBlocks(disk'[f], failed'[f], f, Given(s) + 1)
          /\ blk \notin failed[f]
      BY <1>1, <2>1, NextRefused
    <2>3. IsFiniteSet(failed'[f]) /\ Cardinality(failed'[f]) = Cardinality(failed[f]) + 1
      <3> DEFINE old == failed[f]
      <3>1. IsFiniteSet(old) /\ blk \notin old
        BY <1>1, <2>2
      <3> HIDE DEF old, blk
      <3>2. IsFiniteSet(old \cup {blk}) /\ Cardinality(old \cup {blk}) = Cardinality(old) + 1
        BY <3>1, FS_AddElement
      <3>3. failed'[f] = old \cup {blk}
        BY <2>1 DEF old
      <3> QED
        BY <3>2, <3>3 DEF old
    <2>4. Cardinality(failed[f]) \in Nat
      BY <1>1, FS_CardinalityType
    <2>5. offset'[s] + Cardinality(failed'[f]) = Given(s) + 1
      BY <1>1, <1>2, <2>1, <2>3, <2>4
    <2> QED
      BY <1>1, <1>4, <2>1, <2>2, <2>3, <2>5
  <1> QED
    BY <1>5, <1>6 DEF WriteBehind

LEMMA DiskStaysKnown ==
  ASSUME IInv, [Next]_vars, OneEach', NEW x \in Servers
  PROVE  DiskKnown(x)'
  <1>0. TypeInv /\ DiskKnown(x) /\ ServerKnown(x)
    BY DEF IInv
  <1>1. CASE UNCHANGED <<spc, sfile, sblock, pending, offset, disk, failed>>
    <2>1. Given(x)' = Given(x)
      BY <1>1 DEF Given
    <2> QED
      BY <1>0, <1>1, <2>1 DEF DiskKnown
  <1>2. ASSUME NEW s \in Servers, ServerStep(s), s # x
        PROVE  DiskKnown(x)'
    <2>1. /\ spc'[x] = spc[x] /\ sfile'[x] = sfile[x] /\ sblock'[x] = sblock[x]
          /\ pending'[x] = pending[x] /\ offset'[x] = offset[x]
      BY <1>0, <1>2, ServerFrame
    <2>2. Given(x)' = Given(x)
      BY <2>1 DEF Given
    <2>3. ASSUME spc[x] \in Live
          PROVE  disk'[sfile[x]] = disk[sfile[x]] /\ failed'[sfile[x]] = failed[sfile[x]]
      BY <1>0, <1>2, <2>3, OthersFile DEF Began, Live
    <2> QED
      BY <1>0, <2>1, <2>2, <2>3 DEF DiskKnown
  <1>a. /\ \A y \in Servers : sblock[y] \in Nat
        /\ DOMAIN spc = Servers /\ DOMAIN sblock = Servers /\ DOMAIN sfile = Servers
        /\ DOMAIN pending = Servers /\ DOMAIN disk = Files /\ DOMAIN failed = Files
    BY <1>0, UnchangedTypes
  <1>3. ASSUME NEW p \in toServer, ServerStart(x, p)
        PROVE  DiskKnown(x)'
    <2>1. CASE spc' = [spc EXCEPT ![x] = "failed"]
      BY <1>a, <2>1 DEF DiskKnown, Live
    <2>2. CASE spc' # [spc EXCEPT ![x] = "failed"]
      <3>1. p.body.file \in Files
        BY <1>0, <1>3, ServerPacketFields DEF ServerStart, TypeInv, TypeOK
      <3>2. /\ spc'[x] = "waiting" /\ sblock'[x] = 1 /\ sfile'[x] = p.body.file
            /\ disk'[p.body.file] = << >> /\ failed'[p.body.file] = {}
            /\ pending' = pending /\ offset' = offset
        BY <1>3, <1>a, <2>2, <3>1 DEF ServerStart
      <3>3. offset[x] = 0 /\ pending[x] = << >>
        BY <1>0, <1>3 DEF ServerStart, ServerKnown
      <3>4. Given(x)' = 0
        BY <3>2 DEF Given
      <3>5. IsFiniteSet({}) /\ Cardinality({}) = 0
        BY FS_EmptySet
      <3> QED
        BY <3>2, <3>3, <3>4, <3>5, NothingStored DEF DiskKnown
    <2> QED
      BY <2>1, <2>2
  <1>4. ASSUME NEW p \in toServer, ServerAcceptFull(x, p) \/ ServerAcceptLast(x, p)
        PROVE  DiskKnown(x)'
    <2>1. /\ spc[x] = "waiting" /\ p \in ServerInbox(x) /\ p.body.op = "DATA"
          /\ Wanted(x, p) /\ UNCHANGED <<sfile, offset, disk, failed>>
          /\ pending' = [pending EXCEPT ![x] =
                             Append(pending[x], Block(p.body.file, p.body.pos))]
          /\ \/ /\ spc' = [spc EXCEPT ![x] = "flushing"]
                /\ sblock' = [sblock EXCEPT ![x] = sblock[x] + 1]
             \/ /\ spc' = [spc EXCEPT ![x] = "closing"] /\ sblock' = sblock
                /\ p.body.pos >= FileLen[p.body.file]
      BY <1>4 DEF ServerAcceptFull, ServerAcceptLast
    <2>2. /\ p.body.file = sfile[x] /\ p.body.pos = sblock[x]
          /\ sblock[x] \in 1 .. FileLen[sfile[x]]
      BY <2>1, NextBlock
    <2>3. /\ Given(x) = sblock[x] - 1 /\ pending[x] = << >>
          /\ FirstBlocks(disk[sfile[x]], failed[sfile[x]], sfile[x], Given(x))
          /\ offset[x] = Len(disk[sfile[x]]) /\ IsFiniteSet(failed[sfile[x]])
          /\ offset[x] + Cardinality(failed[sfile[x]]) = Given(x) /\ Given(x) \in Nat
      BY <1>0, <2>1 DEF DiskKnown, Given, Live
    <2>4. pending'[x] = << Block(sfile[x], sblock[x]) >>
      BY <1>a, <2>1, <2>2, <2>3
    <2>5. /\ Given(x)' = Given(x) /\ spc'[x] \in {"flushing", "closing"}
          /\ spc'[x] = "closing" => sblock'[x] = FileLen[sfile[x]]
      <3>1. CASE /\ spc' = [spc EXCEPT ![x] = "flushing"]
                 /\ sblock' = [sblock EXCEPT ![x] = sblock[x] + 1]
        <4>1. spc'[x] = "flushing" /\ sblock'[x] = sblock[x] + 1
          BY <1>a, <3>1
        <4>2. Given(x)' = sblock'[x] - 2
          BY <4>1 DEF Given
        <4>3. sblock[x] \in Nat
          BY <1>a
        <4> QED
          BY <2>3, <4>1, <4>2, <4>3
      <3>2. CASE /\ spc' = [spc EXCEPT ![x] = "closing"] /\ sblock' = sblock
                 /\ p.body.pos >= FileLen[p.body.file]
        <4>1. spc'[x] = "closing" /\ sblock'[x] = sblock[x]
          BY <1>a, <3>2
        <4>2. Given(x)' = sblock[x] - 1
          BY <4>1 DEF Given
        <4>3. sblock[x] = FileLen[sfile[x]]
          BY <1>0, <2>2, <3>2, Numbers
        <4> QED
          BY <2>3, <4>1, <4>2, <4>3
      <3> QED
        BY <2>1, <3>1, <3>2
    <2>6. sblock[x] = Given(x) + 1
      BY <1>a, <2>3
    <2> QED
      BY <2>1, <2>3, <2>4, <2>5, <2>6 DEF DiskKnown
  <1>5. CASE ServerWrite(x)
    <2>1. /\ spc[x] \in {"flushing", "closing"} /\ WriteBehind(x)
          /\ sfile' = sfile /\ sblock' = sblock
          /\ \/ spc[x] = "flushing" /\ spc' = [spc EXCEPT ![x] = "waiting"]
             \/ spc[x] = "closing" /\ spc' = [spc EXCEPT ![x] = "dallying"]
      BY <1>5 DEF ServerWrite, ServerFlush, ServerClose
    <2>2. /\ FirstBlocks(disk'[sfile[x]], failed'[sfile[x]], sfile[x], Given(x) + 1)
          /\ offset'[x] = Len(disk'[sfile[x]]) /\ IsFiniteSet(failed'[sfile[x]])
          /\ offset'[x] + Cardinality(failed'[sfile[x]]) = Given(x) + 1
          /\ pending'[x] = << >>
      BY <1>0, <2>1, NextGiven
    <2>3. /\ Given(x)' = Given(x) + 1 /\ spc'[x] \in {"waiting", "dallying"}
          /\ spc'[x] = "dallying" => sblock[x] = FileLen[sfile[x]]
      <3>1. CASE spc[x] = "flushing" /\ spc' = [spc EXCEPT ![x] = "waiting"]
        <4>1. Given(x) = sblock[x] - 2 /\ Given(x)' = sblock[x] - 1 /\ spc'[x] = "waiting"
          BY <1>a, <2>1, <3>1 DEF Given
        <4> QED
          BY <1>a, <4>1
      <3>2. CASE spc[x] = "closing" /\ spc' = [spc EXCEPT ![x] = "dallying"]
        <4>1. Given(x) = sblock[x] - 1 /\ Given(x)' = sblock[x] /\ spc'[x] = "dallying"
          BY <1>a, <2>1, <3>2 DEF Given
        <4>2. sblock[x] = FileLen[sfile[x]]
          BY <1>0, <3>2 DEF DiskKnown, Live
        <4> QED
          BY <1>a, <4>1, <4>2
      <3> QED
        BY <2>1, <3>1, <3>2
    <2>4. Given(x) + 1 \in Nat
      BY <1>0, <2>1 DEF DiskKnown, Live
    <2> QED
      BY <2>1, <2>2, <2>3, <2>4 DEF DiskKnown
  <1>6. CASE Idles(x)
    <2>1. /\ UNCHANGED <<sfile, sblock, offset, disk, failed>>
          /\ \/ spc'[x] = spc[x] /\ pending'[x] = pending[x]
             \/ spc'[x] \in Ended
      BY <1>0, <1>6, <1>a, IdlesEffect
    <2>2. CASE spc'[x] \in Ended
      BY <2>2 DEF DiskKnown, Live, Ended
    <2>3. CASE spc'[x] = spc[x] /\ pending'[x] = pending[x]
      <3>1. Given(x)' = Given(x)
        BY <2>1, <2>3 DEF Given
      <3> QED
        BY <1>0, <2>1, <2>3, <3>1 DEF DiskKnown
    <2> QED
      BY <2>1, <2>2, <2>3
  <1>7. CASE ClientStep
    BY <1>1, <1>7, ClientFrame
  <1>8. CASE Lose \/ UNCHANGED vars
    BY <1>1, <1>8 DEF Lose, vars, serverVars, procVars, diskVars
  <1>9. CASE ServerStep(x)
    BY <1>3, <1>4, <1>5, <1>6, <1>9, ServerCases
  <1> QED
    BY <1>2, <1>7, <1>8, <1>9, NextCases

\* One step writes to one file, and writes its next block.
LEMMA IntegrityStays ==
  ASSUME IInv, [Next]_vars
  PROVE  Integrity'
  <1>0. TypeInv
    BY DEF IInv
  <1>1. ASSUME NEW f \in Files, disk'[f] = disk[f], failed'[f] = failed[f]
        PROVE  \E n \in 0 .. FileLen[f] : FirstBlocks(disk'[f], failed'[f], f, n)
    BY <1>1 DEF IInv, Integrity
  <1>2. CASE UNCHANGED <<disk, failed>>
    BY <1>1, <1>2 DEF Integrity
  <1>3. ASSUME NEW s \in Servers, ServerStep(s), NEW f \in Files
        PROVE  \E n \in 0 .. FileLen[f] : FirstBlocks(disk'[f], failed'[f], f, n)
    <2>1. CASE f # sfile'[s]
      <3>1. disk'[f] = disk[f] /\ failed'[f] = failed[f]
        BY <1>0, <1>3, <2>1, ServerFrame
      <3> QED
        BY <1>1, <3>1
    <2>2. CASE UNCHANGED <<disk, failed>>
      BY <1>1, <2>2
    <2>3. ASSUME f = sfile'[s], NEW p \in toServer, ServerStart(s, p),
                 ~UNCHANGED <<disk, failed>>
          PROVE  \E n \in 0 .. FileLen[f] : FirstBlocks(disk'[f], failed'[f], f, n)
      <3>1. /\ sfile' = [sfile EXCEPT ![s] = p.body.file]
            /\ disk' = [disk EXCEPT ![p.body.file] = << >>]
            /\ failed' = [failed EXCEPT ![p.body.file] = {}]
        BY <2>3 DEF ServerStart
      <3>2. f = p.body.file
        BY <1>0, <2>3, <3>1, UnchangedTypes
      <3>3. disk'[f] = << >> /\ failed'[f] = {}
        BY <1>0, <3>1, <3>2, UnchangedTypes
      <3>4. 0 \in 0 .. FileLen[f]
        BY <1>0, Numbers
      <3> QED
        BY <3>3, <3>4, NothingStored
    <2>4. ASSUME f = sfile'[s], ServerWrite(s)
          PROVE  \E n \in 0 .. FileLen[f] : FirstBlocks(disk'[f], failed'[f], f, n)
      <3>1. f = sfile[s] /\ WriteBehind(s) /\ spc[s] \in {"flushing", "closing"}
        BY <2>4 DEF ServerWrite, ServerFlush, ServerClose
      <3>2. DiskKnown(s) /\ sblock[s] \in 1 .. FileLen[f]
        BY <3>1 DEF IInv, ServerKnown
      <3>3. FirstBlocks(disk'[f], failed'[f], f, Given(s) + 1)
        BY <1>0, <3>1, <3>2, NextGiven
      <3>4. Given(s) + 1 \in 0 .. FileLen[f]
        <4>1. Given(s) \in Nat
          BY <3>1, <3>2 DEF DiskKnown, Live
        <4>2. Given(s) = sblock[s] - 2 \/ Given(s) = sblock[s] - 1
          BY <3>1 DEF Given
        <4> QED
          BY <1>0, <3>2, <4>1, <4>2, Numbers
      <3> QED
        BY <3>3, <3>4
    <2>5. CASE (\E p \in toServer : ServerAcceptFull(s, p) \/ ServerAcceptLast(s, p))
                  \/ Idles(s)
      BY <1>0, <2>2, <2>5, IdlesEffect DEF ServerAcceptFull, ServerAcceptLast
    <2> QED
      BY <1>3, <2>1, <2>2, <2>3, <2>4, <2>5, ServerCases
  <1>4. CASE \E s \in Servers : ServerStep(s)
    BY <1>3, <1>4 DEF Integrity
  <1>5. CASE ClientStep
    BY <1>2, <1>5, ClientFrame
  <1>6. CASE Lose \/ UNCHANGED vars
    BY <1>2, <1>6 DEF Lose, vars, serverVars, diskVars
  <1> QED
    BY <1>4, <1>5, <1>6, NextCases

LEMMA PacketsStayKnown ==
  ASSUME IInv, [Next]_vars, OneEach, OneEach'
  PROVE  PacketsKnown'
  <1>0. TypeInv /\ TypeInv'
    BY StepType DEF IInv
  <1>1. CASE Lose \/ UNCHANGED vars
    <2>1. /\ UNCHANGED <<turn, spc, sfile, sfrom, sblock, disk, failed>>
          /\ toServer' \subseteq toServer /\ toClient' \subseteq toClient
      BY <1>1 DEF Lose, vars, clientVars, serverVars, procVars, diskVars
    <2>2. \A x \in Servers : Onward(x)
      BY <1>0, <2>1, OnwardUnchanged
    <2>3. turn <= turn'
      BY <1>0, <2>1, Numbers
    <2>4. toServer \subseteq ServerPackets /\ toClient \subseteq ClientPackets
      BY <1>0, UnchangedTypes
    <2> QED
      BY <1>0, <2>1, <2>2, <2>3, <2>4, StaysKnown DEF IInv, PacketsKnown
  <1>2. CASE ClientStep
    BY <1>0, <1>2, ClientPackets1
  <1>3. ASSUME NEW s \in Servers, ServerStep(s)
        PROVE  PacketsKnown'
    BY <1>0, <1>3, DiskStaysKnown, ServerPackets1
  <1> QED
    BY <1>1, <1>2, <1>3, NextCases

LEMMA StepInv == ASSUME IInv, [Next]_vars, OneEach, OneEach' PROVE IInv'
  <1>1. TypeInv'
    BY StepType DEF IInv
  <1>2. PacketsKnown' /\ ClientKnown' /\ OutcomesKnown' /\ Integrity'
    BY PacketsStayKnown, ClientStaysKnown, OutcomesStayKnown, IntegrityStays
  <1>3. \A s \in Servers : ServerKnown(s)' /\ DiskKnown(s)'
    BY ServersStayKnown, DiskStaysKnown
  <1> QED
    BY <1>1, <1>2, <1>3 DEF IInv

-----------------------------------------------------------------------------
(* The theorems.                                                           *)

LEMMA Inductive == Spec /\ []OneEach => []IInv
  <1>1. IInv /\ OneEach /\ OneEach' /\ [Next]_vars => IInv'
    BY StepInv
  <1> QED
    BY InitInv, <1>1, PTL DEF Spec

\* While no file gets a second tftpd, the remote file is a prefix of the local
\* one at all times, but for the blocks that the disk itself refused (writeit,
\* write_behind): whatever the network repeats, delays or loses and whoever dies.
THEOREM WriteIntegrity == Spec /\ []OneEach => []Integrity
<1>1. IInv => Integrity
  BY DEF IInv
<1> QED
  BY <1>1, Inductive, PTL

\* While no file gets a second tftpd, what send_file() reports as sent is on
\* the server's disk: recvfile() writes and closes before its last answer.
THEOREM OkIsStored == Spec /\ []OneEach => []OkMeansStored
<1>1. IInv => OkMeansStored
  <2> SUFFICES ASSUME IInv, NEW t \in Turns, outcome[t] = "ok"
               PROVE  FirstBlocks(disk[Session[t]], failed[Session[t]],
                                  Session[t], FileLen[Session[t]])
    BY DEF OkMeansStored
  <2>1. PICK s \in Servers : Began(s) /\ sfile[s] = Session[t] /\ OnDisk(s)
    BY DEF IInv, OutcomesKnown
  <2> QED
    BY <2>1 DEF OnDisk
<1> QED
  BY <1>1, Inductive, PTL

\* While no file gets a second tftpd, the client is at most one block ahead of
\* what its server has given to write(), plus the one in the server's buffer.
THEOREM WriteLockStep == Spec /\ []OneEach => []OneBlockBehind
<1>1. IInv /\ OneEach => OneBlockBehind
  <2> SUFFICES ASSUME IInv, OneEach, NEW s \in Servers, spc[s] \in Live
               PROVE  /\ Len(pending[s]) <= 1
                      /\ spc[s] \in {"waiting", "dallying"} => pending[s] = << >>
                      /\ cpc = "waiting" /\ turn = sfrom[s] =>
                            block <= offset[s] + Cardinality(failed[sfile[s]])
                                       + Len(pending[s]) + 1
    BY DEF OneBlockBehind, Live
  <2>1. /\ Given(s) \in Nat
        /\ offset[s] + Cardinality(failed[sfile[s]]) = Given(s)
        /\ pending[s] = IF spc[s] \in {"flushing", "closing"}
                        THEN << Block(sfile[s], Given(s) + 1) >> ELSE << >>
    BY DEF IInv, DiskKnown
  <2>2. Len(pending[s]) = IF spc[s] \in {"flushing", "closing"} THEN 1 ELSE 0
    BY <2>1
  <2>3. spc[s] \in {"waiting", "dallying"} => pending[s] = << >>
    BY <2>1
  <2>4. ASSUME cpc = "waiting", turn = sfrom[s]
        PROVE  block <= Given(s) + Len(pending[s]) + 1
    <3>1. block \in Nat /\ sblock[s] \in Nat
      BY Numbers DEF IInv
    <3>2. block > 0 => block <= Sent(s) + 1
      <4> SUFFICES ASSUME block > 0 PROVE block <= Sent(s) + 1
        OBVIOUS
      <4>1. peer \in Servers /\ block <= Sent(peer) + 1
            /\ Began(peer) /\ sfrom[peer] = turn
        BY <2>4 DEF IInv, ClientKnown
      <4>2. peer = s
        BY <2>4, <4>1, OnePeer DEF Began, Live
      <4> QED
        BY <4>1, <4>2
    <3>3. Sent(s) <= Given(s) + Len(pending[s])
      <4>1. spc[s] = "waiting" => Sent(s) = sblock[s] - 1 /\ Given(s) = sblock[s] - 1
        BY DEF Sent, Writing, Given
      <4>2. spc[s] = "flushing" => Sent(s) = sblock[s] - 1 /\ Given(s) = sblock[s] - 2
        BY DEF Sent, Writing, Given
      <4>3. spc[s] = "closing" => Sent(s) = sblock[s] - 1 /\ Given(s) = sblock[s] - 1
        BY DEF Sent, Writing, Given
      <4>4. spc[s] = "dallying" => Sent(s) = sblock[s] /\ Given(s) = sblock[s]
        BY DEF Sent, Writing, Given
      <4> QED
        BY <2>2, <3>1, <4>1, <4>2, <4>3, <4>4 DEF Live
    <3>4. Sent(s) \in Int
      BY Numbers DEF IInv
    <3> QED
      BY <2>1, <2>2, <3>1, <3>2, <3>3, <3>4
  <2> QED
    BY <2>1, <2>2, <2>3, <2>4
<1> QED
  BY <1>1, Inductive, PTL

-----------------------------------------------------------------------------
(* The refinement of FileTransfer.                                         *)

\* No file is put twice: FileTransfer's copies are apart from each other.
OneTurnEach == \A t, u \in Turns : Session[t] = Session[u] => t = u

\* The first n blocks of f.
Beginning(f, n) == [i \in 1 .. n |-> Block(f, i)]

\* A disk that works holds the beginning of each file, and nothing of a file
\* that no tftpd has been given.
Gapless ==
    \A f \in Files :
        /\ failed[f] = {}
        /\ disk[f] = Beginning(f, Len(disk[f]))
        /\ disk[f] = << >> \/ \E s \in Servers : Began(s) /\ sfile[s] = f

\* The user has not been told yet how the put in hand, and those to come, end.
NotToldYet ==
    /\ \A t \in Turns : t > turn => outcome[t] = "none"
    /\ cpc = "waiting" => outcome[turn] = "none"

RInv == IInv /\ Gapless /\ NotToldYet

LEMMA InitGapless == Init => Gapless /\ NotToldYet
  <1> SUFFICES ASSUME Init PROVE Gapless /\ NotToldYet
    OBVIOUS
  <1>1. NotToldYet
    BY DEF Init, NotToldYet
  <1>2. ASSUME NEW f \in Files
        PROVE  /\ failed[f] = {} /\ disk[f] = << >>
               /\ << >> = Beginning(f, 0) /\ Len(<< >>) = 0
    BY DEF Init, Beginning
  <1> QED
    BY <1>1, <1>2 DEF Gapless

\* What a step of the client does to what the user knows.
LEMMA ClientEffect ==
  ASSUME ClientStep
  PROVE  \/ /\ cpc = "prompt" /\ cpc' = "waiting" /\ turn' = turn + 1
            /\ turn < Len(Session) /\ outcome' = outcome
         \/ /\ cpc = "waiting" /\ turn' = turn /\ cpc' = cpc /\ outcome' = outcome
         \/ /\ cpc = "waiting" /\ turn' = turn /\ Prompt("ok")
            /\ \E m \in toClient : ClientFinish(m)
         \/ /\ cpc = "waiting" /\ turn' = turn
            /\ \E how \in {"error", "timeout", "interrupted"} : Prompt(how)
  <1>1. CASE StartPut
    BY <1>1 DEF StartPut
  <1>2. ASSUME NEW m \in toClient, ClientFinish(m)
        PROVE  cpc = "waiting" /\ turn' = turn /\ Prompt("ok")
    BY <1>2 DEF ClientFinish
  <1>3. ASSUME NEW m \in toClient, ClientAdvance(m) \/ ClientResync(m) \/ ClientError(m)
        PROVE  /\ cpc = "waiting" /\ turn' = turn
               /\ (cpc' = cpc /\ outcome' = outcome) \/ Prompt("error")
    BY <1>3 DEF ClientAdvance, ClientResync, ClientError
  <1>4. CASE ClientTimeout \/ ClientInterrupt
    BY <1>4 DEF ClientTimeout, ClientInterrupt
  <1> QED
    BY <1>1, <1>2, <1>3, <1>4 DEF ClientStep, ClientReceive

LEMMA OutcomeType ==
  ASSUME TypeInv
  PROVE  /\ turn \in Nat /\ turn \in 0 .. Len(Session) /\ DOMAIN outcome = Turns
         /\ cpc = "waiting" => turn \in Turns
         /\ turn < Len(Session) => turn + 1 \in Turns
  BY SessionType DEF TypeInv, TypeOK

LEMMA NotToldYetStays ==
  ASSUME TypeInv, NotToldYet, [Next]_vars PROVE NotToldYet'
  <1>1. CASE UNCHANGED <<cpc, turn, outcome>>
    BY <1>1 DEF NotToldYet
  <1>2. CASE ClientStep
    <2>1. CASE cpc' = "waiting" /\ turn' = turn + 1 /\ turn < Len(Session) /\ outcome' = outcome
      <3>1. turn + 1 \in Turns /\ turn \in Nat /\ \A t \in Turns : t \in Nat
        BY <2>1, OutcomeType, SessionType
      <3> QED
        BY <2>1, <3>1 DEF NotToldYet
    <2>2. CASE turn' = turn /\ cpc' = cpc /\ outcome' = outcome
      BY <1>1, <2>2
    <2>3. CASE turn' = turn /\ \E how : Prompt(how)
      <3>1. turn \in Nat /\ \A t \in Turns : t \in Nat
        BY OutcomeType, SessionType
      <3>2. PICK how : cpc' = "prompt" /\ outcome' = [outcome EXCEPT ![turn] = how]
        BY <2>3 DEF Prompt
      <3>3. \A t \in Turns : t > turn => outcome'[t] = outcome[t]
        BY <3>1, <3>2
      <3> QED
        BY <2>3, <3>2, <3>3 DEF NotToldYet
    <2> QED
      BY <1>2, <2>1, <2>2, <2>3, ClientEffect
  <1>3. ASSUME NEW s \in Servers, ServerStep(s)
        PROVE  NotToldYet'
    BY <1>1, <1>3, ServerFrame
  <1>4. CASE Lose \/ UNCHANGED vars
    BY <1>1, <1>4 DEF Lose, vars, clientVars
  <1> QED
    BY <1>2, <1>3, <1>4, NextCases

\* write_behind() on a disk that works appends the next block of the file.
LEMMA NextAppended ==
  ASSUME ~DiskErrors, IInv, Gapless, NEW s \in Servers, ServerWrite(s)
  PROVE  /\ sfile[s] \in Files /\ Began(s)
         /\ sfrom[s] \in 1 .. turn /\ sfile[s] = Session[sfrom[s]]
         /\ Len(disk[sfile[s]]) \in Nat /\ Len(disk[sfile[s]]) < FileLen[sfile[s]]
         /\ disk' = [disk EXCEPT ![sfile[s]] =
                         Beginning(sfile[s], Len(disk[sfile[s]]) + 1)]
         /\ UNCHANGED <<sfile, failed>>
  <1> DEFINE f == sfile[s]
             d == disk[f]
             blk == Block(f, Len(d) + 1)
  <1>1. /\ spc[s] \in {"flushing", "closing"} /\ WriteBehind(s) /\ sfile' = sfile
    BY DEF ServerWrite, ServerFlush, ServerClose
  <1>2. /\ TypeInv /\ f \in Files /\ d \in Seq((Files \X Nat) \cup {Hole})
        /\ Len(d) \in Nat /\ offset[s] \in Nat
    BY UnchangedTypes DEF IInv
  <1>3. /\ Began(s) /\ sfrom[s] \in 1 .. turn /\ f = Session[sfrom[s]]
        /\ sblock[s] \in 1 .. FileLen[f]
    BY <1>1 DEF IInv, ServerKnown, Began
  <1>4. /\ Given(s) \in Nat /\ offset[s] = Len(d)
        /\ offset[s] + Cardinality(failed[f]) = Given(s)
        /\ pending[s] = << Block(f, Given(s) + 1) >>
    BY <1>1 DEF IInv, DiskKnown, Live
  <1>5. failed[f] = {} /\ d = Beginning(f, Len(d))
    BY <1>2 DEF Gapless
  <1>6. Given(s) = Len(d)
    <2>1. Cardinality(failed[f]) = 0
      BY <1>5, FS_EmptySet
    <2> QED
      BY <1>2, <1>4, <2>1
  <1>7. Len(d) < FileLen[f]
    <2>1. Given(s) = sblock[s] - 2 \/ Given(s) = sblock[s] - 1
      BY <1>1 DEF Given
    <2>2. FileLen[f] \in Nat /\ sblock[s] \in Nat
      BY <1>2, Numbers
    <2> QED
      BY <1>2, <1>3, <1>6, <2>1, <2>2
  <1>8. /\ disk' = [disk EXCEPT ![f] = WriteAt(d, Len(d), blk)] /\ failed' = failed
    <2>1. Head(pending[s]) = blk
      BY <1>4, <1>6
    <2> QED
      BY <1>1, <1>4, <2>1 DEF WriteBehind
  <1>9. WriteAt(d, Len(d), blk) = Beginning(f, Len(d) + 1)
    <2>1. WriteAt(d, Len(d), blk) = [i \in 1 .. Len(d) + 1 |->
                                        IF i = Len(d) + 1 THEN blk ELSE d[i]]
      BY <1>2, AppendAtEnd
    <2>2. ASSUME NEW i \in 1 .. Len(d) + 1, i # Len(d) + 1
          PROVE  d[i] = Block(f, i)
      <3>1. i \in 1 .. Len(d)
        BY <1>2, <2>2
      <3> QED
        BY <1>5, <3>1 DEF Beginning
    <2>3. \A i \in 1 .. Len(d) + 1 :
             (IF i = Len(d) + 1 THEN blk ELSE d[i]) = Block(f, i)
      BY <2>2
    <2> QED
      BY <2>1, <2>3 DEF Beginning
  <1> QED
    BY <1>1, <1>2, <1>3, <1>7, <1>8, <1>9

\* validate_access() truncates a file that nothing has been written to.
LEMMA NothingTruncated ==
  ASSUME IInv, Gapless, OneEach', NEW s \in Servers, NEW p \in toServer,
         ServerStart(s, p)
  PROVE  disk' = disk /\ failed' = failed
  <1> DEFINE f == p.body.file
  <1>1. /\ spc[s] = "free" /\ sfile' = [sfile EXCEPT ![s] = f] /\ f \in Files
        /\ \/ disk' = [disk EXCEPT ![f] = << >>] /\ failed' = [failed EXCEPT ![f] = {}]
           \/ disk' = disk /\ failed' = failed
    <2>1. p.body.op = "WRQ" /\ p \in ServerPackets
      BY UnchangedTypes DEF ServerStart, IInv
    <2> QED
      BY <2>1, ServerPacketFields DEF ServerStart
  <1>2. TypeInv /\ ServerStep(s)
    BY DEF IInv, ServerStep
  <1>3. sfile'[s] = f
    BY <1>1, <1>2, UnchangedTypes
  <1>4. ASSUME NEW r \in Servers, Began(r) PROVE sfile[r] # f
    BY <1>1, <1>2, <1>3, <1>4, OthersFile DEF Began
  <1>5. disk[f] = << >> /\ failed[f] = {}
    BY <1>1, <1>4 DEF Gapless
  <1>6. disk \in [Files -> Seq((Files \X Nat) \cup {Hole})]
        /\ failed \in [Files -> SUBSET (Files \X Nat)]
    BY <1>2, UnchangedTypes
  <1> HIDE DEF f
  <1>7. [disk EXCEPT ![f] = << >>] = disk /\ [failed EXCEPT ![f] = {}] = failed
    BY <1>5, <1>6
  <1> QED
    BY <1>1, <1>7

\* What a step of a server does to the disk.
LEMMA DiskEffect ==
  ASSUME ~DiskErrors, IInv, Gapless, OneEach', NEW s \in Servers, ServerStep(s)
  PROVE  \/ UNCHANGED <<disk, failed>>
         \/ ServerWrite(s)
  <1>0. TypeInv
    BY DEF IInv
  <1>1. CASE \E p \in toServer : ServerStart(s, p)
    BY <1>1, NothingTruncated
  <1>2. CASE \E p \in toServer : ServerAcceptFull(s, p) \/ ServerAcceptLast(s, p)
    BY <1>2 DEF ServerAcceptFull, ServerAcceptLast
  <1>3. CASE Idles(s)
    BY <1>0, <1>3, IdlesEffect
  <1> QED
    BY <1>1, <1>2, <1>3, ServerCases

LEMMA BeginningLength ==
  ASSUME NEW f, NEW n \in Nat
  PROVE  Len(Beginning(f, n)) = n /\ Beginning(f, n) = Beginning(f, Len(Beginning(f, n)))
  <1>1. Len(Beginning(f, n)) = n
    BY DEF Beginning
  <1> QED
    BY <1>1

LEMMA BeginningGrows ==
  ASSUME NEW f, NEW n \in Nat
  PROVE  Append(Beginning(f, n), Block(f, n + 1)) = Beginning(f, n + 1)
  <1> DEFINE b == Beginning(f, n)
             c == Append(b, Block(f, n + 1))
             S == {Block(f, i) : i \in Nat}
  <1>1. b \in Seq(S) /\ Len(b) = n /\ \A i \in 1 .. n : b[i] = Block(f, i)
    BY DEF Beginning
  <1> HIDE DEF b
  <1>2. c = [i \in 1 .. n + 1 |-> IF i = n + 1 THEN Block(f, n + 1) ELSE b[i]]
    BY <1>1
  <1>3. ASSUME NEW i \in 1 .. n + 1, i # n + 1 PROVE b[i] = Block(f, i)
    BY <1>1, <1>3
  <1> QED
    BY <1>2, <1>3 DEF b, Beginning

LEMMA GaplessStays ==
  ASSUME ~DiskErrors, IInv, Gapless, OneEach', [Next]_vars PROVE Gapless'
  <1>0. TypeInv
    BY DEF IInv
  <1>1. ASSUME UNCHANGED <<disk, failed>>, \A x \in Servers : Onward(x)
        PROVE  Gapless'
    BY <1>1 DEF Gapless, Onward
  <1>2. CASE ClientStep \/ Lose \/ UNCHANGED vars
    <2>1. UNCHANGED <<spc, sfile, sfrom, sblock, disk, failed>>
      BY <1>2, ClientFrame DEF Lose, vars, serverVars, procVars, diskVars
    <2> QED
      BY <1>0, <1>1, <2>1, OnwardUnchanged
  <1>3. ASSUME NEW s \in Servers, ServerStep(s)
        PROVE  Gapless'
    <2>1. \A x \in Servers : Onward(x)
      BY <1>0, <1>3, OnwardServer
    <2>2. CASE ServerWrite(s)
      <3> DEFINE f == sfile[s]
                 n == Len(disk[f]) + 1
      <3>1. /\ f \in Files /\ Began(s) /\ n \in Nat
            /\ disk' = [disk EXCEPT ![f] = Beginning(f, n)]
            /\ UNCHANGED <<sfile, failed>>
        BY <2>2, NextAppended
      <3>2. DOMAIN disk = Files
        BY <1>0, UnchangedTypes
      <3>3. ASSUME NEW g \in Files
            PROVE  /\ failed'[g] = {}
                   /\ disk'[g] = Beginning(g, Len(disk'[g]))
                   /\ disk'[g] = << >> \/ \E x \in Servers : Began(x)' /\ sfile'[x] = g
        <4> HIDE DEF n
        <4>1. CASE g = f
          <5>1. disk'[g] = Beginning(f, n) /\ Began(s)' /\ sfile'[s] = g
            BY <2>1, <3>1, <3>2, <4>1 DEF Onward
          <5>2. failed'[g] = {}
            BY <3>1 DEF Gapless
          <5> QED
            BY <3>1, <4>1, <5>1, <5>2, BeginningLength
        <4>2. CASE g # f
          <5>1. disk'[g] = disk[g] /\ failed' = failed
            BY <3>1, <3>2, <4>2
          <5> QED
            BY <2>1, <5>1 DEF Gapless, Onward
        <4> QED
          BY <4>1, <4>2
      <3> QED
        BY <3>3 DEF Gapless
    <2> QED
      BY <1>1, <1>3, <2>1, <2>2, DiskEffect
  <1> QED
    BY <1>2, <1>3, NextCases

LEMMA Refining ==
  ASSUME ~DiskErrors PROVE Spec /\ []OneEach => []RInv
  <1>1. IInv /\ OneEach' /\ [Next]_vars /\ Gapless => Gapless'
    BY GaplessStays
  <1>2. IInv /\ NotToldYet /\ [Next]_vars => NotToldYet'
    BY NotToldYetStays DEF IInv
  <1> QED
    BY <1>1, <1>2, InitGapless, Inductive, PTL DEF Spec, RInv

\* The status of every transfer, the copy it makes and how much it has given, as
\* FileTransfer has them.
Told == [t \in Turns |-> Status(t)]
Copies == [t \in Turns |-> disk[Session[t]]]
Lengths == [t \in Turns |-> Len(disk[Session[t]])]
Wanting == [t \in Turns |-> Content(Session[t])]

LEMMA StatusFacts ==
  ASSUME TypeInv, NotToldYet
  PROVE  /\ \A t \in Turns : t <= turn => Status(t) # "idle"
         /\ turn + 1 \in Turns => Status(turn + 1) = "idle"
         /\ cpc = "waiting" => turn \in Turns /\ Status(turn) = "running"
  BY OutcomeType, SessionType DEF NotToldYet, Status

LEMMA SameToldAndCopies ==
  /\ UNCHANGED <<turn, outcome>> => UNCHANGED Told
  /\ UNCHANGED disk => UNCHANGED <<Copies, Lengths>>
  BY DEF Told, Status, Copies, Lengths

\* The end of a put changes its own status only.
LEMMA ToldAtEnd ==
  ASSUME TypeInv, cpc = "waiting", NEW how, Prompt(how), how # "none", turn' = turn
  PROVE  Told' = [Told EXCEPT ![turn] = IF how = "ok" THEN "ok" ELSE "failed"]
  <1>1. /\ turn \in Turns /\ turn \in Nat /\ DOMAIN outcome = Turns
        /\ outcome' = [outcome EXCEPT ![turn] = how] /\ Turns \subseteq Nat
    BY OutcomeType, SessionType DEF Prompt
  <1>2. ASSUME NEW t \in Turns
        PROVE  Status(t)' = IF t = turn THEN IF how = "ok" THEN "ok" ELSE "failed"
                            ELSE Status(t)
    BY <1>1 DEF Status
  <1> QED
    BY <1>1, <1>2 DEF Told

LEMMA PromiseInit == Init => Promise!Init
  <1> SUFFICES ASSUME Init PROVE Promise!Init
    OBVIOUS
  <1>1. \A t \in Turns : /\ Status(t) = "idle" /\ disk[Session[t]] = << >>
                         /\ Len(disk[Session[t]]) = 0
    BY SessionType DEF Init, Status
  <1> QED
    BY <1>1 DEF Promise!Init

\* A put that is issued begins a transfer.
LEMMA StartBegins ==
  ASSUME TypeInv, NotToldYet, turn < Len(Session), turn' = turn + 1,
         UNCHANGED <<outcome, disk>>
  PROVE  Promise!Next
  <1>1. turn + 1 \in Turns /\ turn \in Nat /\ Turns \subseteq Nat
    BY OutcomeType, SessionType
  <1>2. ASSUME NEW t \in Turns
        PROVE  Status(t)' = IF t = turn + 1 THEN "running" ELSE Status(t)
    BY <1>1 DEF Status, NotToldYet
  <1>3. Told' = [Told EXCEPT ![turn + 1] = "running"] /\ UNCHANGED <<Copies, Lengths>>
    BY <1>1, <1>2, SameToldAndCopies DEF Told
  <1>4. Told[turn + 1] = "idle"
    BY <1>1, StatusFacts DEF Told
  <1>5. Promise!Begin(turn + 1)
    BY <1>3, <1>4 DEF Told, Copies, Lengths, Promise!Begin
  <1> QED
    BY <1>1, <1>5 DEF Promise!Next

LEMMA GiveMaps ==
  ASSUME NEW t \in Turns, Told[t] # "idle", UNCHANGED Told,
         Lengths[t] < Len(Wanting[t]),
         Lengths' = [Lengths EXCEPT ![t] = @ + 1],
         Copies' = [Copies EXCEPT ![t] = Append(Copies[t], Wanting[t][Lengths[t] + 1])]
  PROVE  Promise!Give(t)
  BY DEF Told, Copies, Lengths, Wanting, Promise!Give

\* The block that write_behind() gives to the disk is the next one that the
\* put of this file wants there.
LEMMA WriteGives ==
  ASSUME ~DiskErrors, OneTurnEach, RInv, NEW s \in Servers, ServerWrite(s),
         UNCHANGED <<turn, outcome>>, NEW t, t = sfrom[s]
  PROVE  Promise!Next
  <1> DEFINE f == sfile[s]
             n == Len(disk[f])
  <1>1. /\ f \in Files /\ t \in 1 .. turn /\ f = Session[t] /\ n \in Nat /\ n < FileLen[f]
        /\ disk' = [disk EXCEPT ![f] = Beginning(f, n + 1)]
    BY NextAppended DEF RInv
  <1>2. TypeInv /\ NotToldYet /\ disk[f] = Beginning(f, n)
    BY <1>1 DEF RInv, IInv, Gapless
  <1>3. t \in Turns /\ t <= turn /\ FileLen[f] \in Nat /\ DOMAIN disk = Files
    BY <1>1, <1>2, Numbers, UnchangedTypes
  <1>4. Told[t] # "idle" /\ UNCHANGED Told
    BY <1>2, <1>3, StatusFacts, SameToldAndCopies DEF Told
  <1>5. Copies[t] = disk[f] /\ Lengths[t] = n /\ Wanting[t] = Content(f)
    BY <1>1, <1>3 DEF Copies, Lengths, Wanting
  <1>6. Len(Content(f)) = FileLen[f] /\ Content(f)[n + 1] = Block(f, n + 1)
    BY <1>1, <1>3 DEF Content
  <1>7. Append(disk[f], Block(f, n + 1)) = Beginning(f, n + 1)
    BY <1>1, <1>2, BeginningGrows
  <1>8. /\ Copies' = [Copies EXCEPT ![t] = Append(Copies[t], Wanting[t][Lengths[t] + 1])]
        /\ Lengths' = [Lengths EXCEPT ![t] = @ + 1]
    <2>1. ASSUME NEW u \in Turns
          PROVE  disk'[Session[u]] = IF u = t THEN Append(disk[f], Block(f, n + 1))
                                     ELSE disk[Session[u]]
      <3>1. Session[u] \in Files /\ (u # t => Session[u] # f)
        BY <1>1, <1>3, SessionType DEF OneTurnEach
      <3>2. CASE u = t
        BY <1>1, <1>3, <1>7, <3>2
      <3>3. CASE u # t
        BY <1>1, <1>3, <3>1, <3>3
      <3> QED
        BY <3>2, <3>3
    <2>2. Append(Copies[t], Wanting[t][Lengths[t] + 1]) = Append(disk[f], Block(f, n + 1))
      BY <1>5, <1>6
    <2>3. Len(Append(disk[f], Block(f, n + 1))) = n + 1
      BY <1>1, <1>7, BeginningLength
    <2>4. ASSUME NEW u \in Turns
          PROVE  Len(disk'[Session[u]]) = IF u = t THEN n + 1 ELSE Len(disk[Session[u]])
      BY <2>1, <2>3
    <2>5. Lengths' = [Lengths EXCEPT ![t] = n + 1]
      BY <1>3, <2>4 DEF Lengths
    <2> QED
      BY <1>3, <1>5, <2>1, <2>2, <2>5 DEF Copies
  <1>9. Promise!Give(t)
    <2>1. Lengths[t] < Len(Wanting[t])
      BY <1>1, <1>5, <1>6
    <2> QED
      BY <1>3, <1>4, <1>8, <2>1, GiveMaps
  <1> QED
    BY <1>3, <1>9 DEF Promise!Next

\* A gapless copy in which all blocks are is the whole file.
LEMMA WholeFile ==
  ASSUME NEW f \in Files, NEW d, NEW n \in Nat, d = Beginning(f, n),
         FirstBlocks(d, {}, f, FileLen[f])
  PROVE  d = Content(f)
  <1>1. FileLen[f] \in Nat /\ FileLen[f] > 0
    BY SessionType
  <1>2. /\ DOMAIN d = 1 .. n /\ \A i \in 1 .. n : d[i] = Block(f, i)
        /\ Range(d) = Blocks(f, FileLen[f])
    BY DEF Beginning, FirstBlocks
  <1>3. FileLen[f] <= n
    <2>1. Block(f, FileLen[f]) \in Range(d)
      BY <1>1, <1>2 DEF Blocks
    <2>2. PICK i \in 1 .. n : d[i] = Block(f, FileLen[f])
      BY <1>2, <2>1 DEF Range
    <2>3. i = FileLen[f]
      BY <1>2, <2>2 DEF Block
    <2> QED
      BY <2>3
  <1>4. n <= FileLen[f]
    <2>1. CASE n = 0
      BY <1>1, <2>1
    <2>2. CASE n # 0
      <3>1. n \in DOMAIN d /\ d[n] = Block(f, n)
        BY <1>2, <2>2
      <3>2. Block(f, n) \in Blocks(f, FileLen[f])
        BY <1>2, <3>1 DEF Range
      <3> QED
        BY <1>1, <3>2 DEF Blocks, Block
    <2> QED
      BY <2>1, <2>2
  <1>5. n = FileLen[f]
    BY <1>1, <1>3, <1>4
  <1> QED
    BY <1>5 DEF Beginning, Content

\* What the client calls sent is on the disk.
LEMMA FinishIsFinished ==
  ASSUME RInv, RInv', NEW m \in toClient, ClientFinish(m), ClientStep
  PROVE  Promise!Next
  <1>1. /\ TypeInv /\ NotToldYet /\ cpc = "waiting" /\ turn' = turn /\ Prompt("ok")
        /\ UNCHANGED <<disk, failed>>
    BY ClientFrame DEF ClientFinish, RInv, IInv
  <1>2. turn \in Turns /\ Told[turn] = "running" /\ Session[turn] \in Files
    BY <1>1, StatusFacts, SessionType DEF Told
  <1>3. Told' = [Told EXCEPT ![turn] = "ok"] /\ UNCHANGED <<Copies, Lengths>>
    BY <1>1, ToldAtEnd, SameToldAndCopies
  <1>4. disk[Session[turn]] = Content(Session[turn])
    <2>1. outcome'[turn] = "ok"
      BY <1>1, <1>2, OutcomeType DEF Prompt
    <2>2. PICK s \in Servers : sfile'[s] = Session[turn] /\ OnDisk(s)'
      BY <1>2, <2>1 DEF RInv, IInv, OutcomesKnown
    <2>3. FirstBlocks(disk[Session[turn]], failed[Session[turn]], Session[turn],
                      FileLen[Session[turn]])
      BY <1>1, <2>2 DEF OnDisk
    <2>4. /\ failed[Session[turn]] = {}
          /\ disk[Session[turn]] = Beginning(Session[turn], Len(disk[Session[turn]]))
      BY <1>2 DEF RInv, Gapless
    <2>5. Len(disk[Session[turn]]) \in Nat
      BY <1>1, <1>2, UnchangedTypes
    <2> QED
      BY <1>2, <2>3, <2>4, <2>5, WholeFile
  <1>5. Lengths[turn] = Len(Wanting[turn])
    BY <1>2, <1>4 DEF Lengths, Wanting
  <1>6. Promise!Finish(turn)
    BY <1>2, <1>3, <1>5 DEF Told, Copies, Lengths, Wanting, Promise!Finish
  <1> QED
    BY <1>2, <1>6 DEF Promise!Next

LEMMA StepKeepsPromise ==
  ASSUME ~DiskErrors, OneTurnEach, RInv, RInv', OneEach', [Next]_vars
  PROVE  [Promise!Next]_Promise!vars
  <1>0. TypeInv /\ NotToldYet /\ IInv /\ Gapless
    BY DEF RInv, IInv
  <1>1. CASE UNCHANGED <<turn, outcome, disk>>
    BY <1>1, SameToldAndCopies DEF Told, Copies, Lengths, Promise!vars
  <1>2. CASE ClientStep
    <2>1. UNCHANGED <<disk, failed>>
      BY <1>2, ClientFrame
    <2>2. CASE turn' = turn + 1 /\ turn < Len(Session) /\ outcome' = outcome
      BY <1>0, <2>1, <2>2, StartBegins
    <2>3. CASE turn' = turn /\ outcome' = outcome
      BY <1>1, <2>1, <2>3
    <2>4. CASE \E m \in toClient : ClientFinish(m)
      BY <1>2, <2>4, FinishIsFinished
    <2>5. ASSUME cpc = "waiting", turn' = turn,
                 NEW how \in {"error", "timeout", "interrupted"}, Prompt(how)
          PROVE  Promise!Next
      <3>1. Told' = [Told EXCEPT ![turn] = "failed"] /\ UNCHANGED <<Copies, Lengths>>
        BY <1>0, <2>1, <2>5, ToldAtEnd, SameToldAndCopies
      <3>2. turn \in Turns /\ Told[turn] = "running"
        BY <1>0, <2>5, StatusFacts DEF Told
      <3>3. Promise!Fail(turn)
        BY <3>1, <3>2 DEF Told, Copies, Lengths, Promise!Fail
      <3> QED
        BY <3>2, <3>3 DEF Promise!Next
    <2> QED
      BY <1>2, <2>2, <2>3, <2>4, <2>5, ClientEffect
  <1>3. ASSUME NEW s \in Servers, ServerStep(s)
        PROVE  [Promise!Next]_Promise!vars
    <2>1. UNCHANGED <<turn, outcome>>
      BY <1>0, <1>3, ServerFrame
    <2>2. CASE UNCHANGED <<disk, failed>>
      BY <1>1, <2>1, <2>2
    <2>3. CASE ServerWrite(s)
      BY <2>1, <2>3, WriteGives
    <2> QED
      BY <1>0, <1>3, <2>2, <2>3, DiskEffect
  <1>4. CASE Lose \/ UNCHANGED vars
    BY <1>1, <1>4 DEF Lose, vars, clientVars, serverVars, diskVars
  <1> QED
    BY <1>2, <1>3, <1>4, NextCases

\* While no file gets a second tftpd, and with a disk that works, send_file(),
\* tftpd and the network together implement FileTransfer for a session that
\* puts no file twice: the remote file grows by the next block of the local
\* one or not at all, and "ok" is said of complete copies only.
THEOREM WriteImplements ==
  ASSUME ~DiskErrors, OneTurnEach PROVE Spec /\ []OneEach => KeepsPromise
  <1>1. RInv /\ RInv' /\ OneEach' /\ [Next]_vars => [Promise!Next]_Promise!vars
    BY StepKeepsPromise
  <1>2. Init => Promise!Init
    BY PromiseInit
  <1> QED
    BY <1>1, <1>2, Refining, PTL DEF Spec, KeepsPromise, Promise!Spec
=============================================================================
