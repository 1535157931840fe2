-------------------------- MODULE I2cMasterProofs --------------------------
(***************************************************************************)
(* Proofs about I2cMaster: types, that Ok means every byte was moved, that *)
(* errors surface and that the bus is held within an operation, for every  *)
(* set of lengths, size of the buffers, patience and number of calls.      *)
(***************************************************************************)
EXTENDS I2cMaster, SequenceTheorems, TLAPS

Active == {"op", "stage", "issue", "poll", "check"}
InOp == {"stage", "issue", "poll", "check"}

(* The invariant, of any call.                                             *)
Control ==
  /\ pc \in Active => /\ ncalls \in 1 .. MaxCalls /\ prog \in Programs
                      /\ cur \notin DOMAIN prog => \A i \in DOMAIN prog : i < cur
  /\ pc \in InOp => cur \in DOMAIN prog /\ off < prog[cur].len
  /\ pc = "op" => off = 0
  /\ pc \in {"poll", "recover"} => left > 0

(* The chunk in hand; the bus has moved o bytes of the operation in hand,  *)
(* all of those before and none of those behind; the caller has been given *)
(* what it read.                                                           *)
Chunk == Bytes(ncalls, cur, off, ChunkLen)

Moved(o) ==
  \A i \in DOMAIN prog :
    log[i] = IF i < cur THEN Message(i)
             ELSE IF i = cur THEN Bytes(ncalls, i, 0, o) ELSE <<>>

Copied ==
  \A i \in DOMAIN prog :
    got[i] = IF prog[i].dir = "write" THEN <<>>
             ELSE IF i < cur THEN Message(i)
             ELSE IF i = cur THEN Bytes(ncalls, i, 0, off) ELSE <<>>

(* While a call that found the engine idle waits: the engine runs its      *)
(* command, has acknowledged it, or has failed it.                         *)
Waiting ==
  /\ eng = NextCommand /\ sts = {} /\ fault = "none" /\ Moved(off)
  /\ prog[cur].dir = "write" => fifo = Chunk
  /\ off > 0 => bus = "ours"

Answered ==
  /\ eng = NoCmd /\ fault = "none" /\ Moved(off + ChunkLen) /\ fifo = Chunk
  /\ sts \subseteq PacketStatus /\ "PKT_DONE" \in sts /\ "PKT_ERROR" \notin sts
  /\ ~IsLast => bus = "ours"

Failed == eng = NoCmd /\ \E f \in Failure : sts = f.sts /\ fault = f.error

Fresh ==
  /\ pc # "recover"
  /\ pc \in Active => Copied
  /\ pc \in Active \ {"poll"} => eng = NoCmd /\ fault = "none"
  /\ pc = "op" => Moved(0)
  /\ pc \in {"stage", "issue"} => Moved(off) /\ (off > 0 => bus = "ours")
  /\ pc = "stage" /\ mode = "ByteMode" => sts = {}
  /\ pc = "issue" => sts = {} /\ (prog[cur].dir = "write" => fifo = Chunk)
  /\ pc = "poll" => Waiting \/ Answered \/ Failed
  /\ pc = "check" => /\ Moved(off + ChunkLen) /\ fifo = Chunk /\ sts = {}
                     /\ ~IsLast => bus = "ours"
  /\ pc = "idle" /\ result = "Ok" => eng = NoCmd

Inv ==
  /\ TypeOK /\ Control /\ (fresh => Fresh)
  /\ OkMeansDelivered /\ ErrorsSurface


-----------------------------------------------------------------------------
(* Messages and chunks.                                                    *)

LEMMA BytesType ==
  ASSUME NEW c \in 1 .. MaxCalls, NEW i \in {1, 2}, NEW o \in Nat, NEW n \in Nat
  PROVE  Bytes(c, i, o, n) \in Seq(Byte)
BY DEF Bytes, Byte

(* No bytes make the empty sequence.                                       *)
LEMMA BytesEmpty ==
  ASSUME NEW c, NEW i, NEW o
  PROVE  Bytes(c, i, o, 0) = <<>>
BY DEF Bytes

(* A chunk continues what came before it.                                  *)
LEMMA BytesAppend ==
  ASSUME NEW c, NEW i, NEW o \in Nat, NEW n \in Nat
  PROVE  Bytes(c, i, 0, o) \o Bytes(c, i, o, n) = Bytes(c, i, 0, o + n)
<1> DEFINE S == [call : {c}, op : {i}, off : Nat]
           a == Bytes(c, i, 0, o)
           b == Bytes(c, i, o, n)
           r == Bytes(c, i, 0, o + n)
<1>1. a \in Seq(S) /\ Len(a) = o
  BY DEF Bytes
<1>2. b \in Seq(S) /\ Len(b) = n
  BY DEF Bytes
<1>3. r \in Seq(S) /\ Len(r) = o + n
  BY DEF Bytes
<1>4. \A j \in 1 .. o + n : r[j] = IF j <= o THEN a[j] ELSE b[j - o]
  BY DEF Bytes
<1> HIDE DEF S, a, b, r
<1>5. /\ a \o b \in Seq(S) /\ Len(a \o b) = o + n
      /\ \A j \in 1 .. o + n : (a \o b)[j] = IF j <= o THEN a[j] ELSE b[j - o]
  BY <1>1, <1>2, ConcatProperties
<1>6. a \o b = r
  BY <1>3, <1>4, <1>5, SeqEqual
<1> QED
  BY <1>6 DEF a, b, r

(* The operation in hand and its next chunk.                               *)
LEMMA ChunkFacts ==
  ASSUME TypeOK, Control, pc \in InOp
  PROVE  /\ cur \in DOMAIN prog /\ cur \in {1, 2} /\ DOMAIN prog \subseteq {1, 2}
         /\ prog[cur] \in Operation /\ prog[cur].len \in Nat /\ off \in Nat
         /\ ChunkLen \in Nat \ {0} /\ off + ChunkLen <= prog[cur].len
         /\ IsLast <=> off + ChunkLen = prog[cur].len
         /\ ncalls \in 1 .. MaxCalls
<1>1. prog \in Programs /\ cur \in DOMAIN prog /\ off < prog[cur].len
      /\ ncalls \in 1 .. MaxCalls /\ off \in Nat
  BY DEF Control, TypeOK, InOp, Active
<1>2. DOMAIN prog \subseteq {1, 2} /\ prog[cur] \in Operation
  BY <1>1 DEF Programs
<1>3. prog[cur].len \in Nat
  BY <1>2, MasterAssumption DEF Operation
<1>4. ChunkMax \in Nat \ {0}
  BY MasterAssumption DEF ChunkMax
<1>5. ChunkLen \in Nat \ {0} /\ off + ChunkLen <= prog[cur].len
  BY <1>1, <1>3, <1>4 DEF ChunkLen, MinOf
<1> QED
  BY <1>1, <1>2, <1>3, <1>5 DEF IsLast

(* The command issued is a command.                                        *)
LEMMA CommandType ==
  ASSUME TypeOK, Control, pc \in InOp
  PROVE  NextCommand \in Command
<1>1. IsLast \in BOOLEAN
  BY DEF IsLast
<1> QED
  BY ChunkFacts, <1>1 DEF NextCommand, Command, Operation

(* What handle_interrupt returns has its type.                             *)
LEMMA HandleType ==
  ASSUME TypeOK
  PROVE  /\ HandleInterrupt.rest \subseteq Status
         /\ HandleInterrupt.error \in I2cError \cup {"Ok"}
         /\ HandleInterrupt.completion \in BOOLEAN
BY DEF TypeOK, HandleInterrupt, PacketError, BareError, I2cError

-----------------------------------------------------------------------------
(* Types and control.                                                      *)

LEMMA ControlInit ==
  Init => TypeOK /\ Control
BY MasterAssumption DEF Init, TypeOK, Control, Active, InOp, I2cError

(* Every step keeps the types and the control part of the invariant.       *)
LEMMA ControlStep ==
  TypeOK /\ Control /\ [Next]_vars => TypeOK' /\ Control'
<1> SUFFICES ASSUME TypeOK, Control, [Next]_vars
             PROVE  TypeOK' /\ Control'
  OBVIOUS
<1> USE DEF TypeOK, Control, Active, InOp
<1>1. CASE Begin
  <2>1. prog' \in Programs /\ ncalls' \in 1 .. MaxCalls /\ 1 \in DOMAIN prog'
    BY <1>1, MasterAssumption DEF Begin, Programs
  <2>2. /\ DOMAIN log' = DOMAIN prog' /\ DOMAIN got' = DOMAIN prog'
        /\ \A i \in DOMAIN prog' : log'[i] = <<>> /\ got'[i] = <<>>
    BY <1>1 DEF Begin
  <2>3. <<>> \in Seq(Byte)
    OBVIOUS
  <2> QED
    BY <1>1, <2>1, <2>2, <2>3, MasterAssumption DEF Begin, Byte, Command
<1>2. CASE RecoverBus
  <2>1. sts' \subseteq Status /\ bus' \in {"free", "ours", "other"}
        /\ eng' \in Command \cup {NoCmd, RecoverCmd} /\ fresh' \in BOOLEAN
    BY <1>2 DEF RecoverBus
  <2> HIDE DEF TypeOK, Control
  <2>2. CASE Return("BusRecoveryFailed")
    BY <1>2, <2>1, <2>2, MasterAssumption
    DEF RecoverBus, Return, TypeOK, Control, I2cError
  <2>3. CASE Proceed("recover") /\ left' = Patience
    BY <1>2, <2>1, <2>3, MasterAssumption
    DEF RecoverBus, Proceed, TypeOK, Control
  <2> QED
    BY <1>2, <2>2, <2>3 DEF RecoverBus
<1>3. CASE StartOp
  <2>1. DOMAIN prog = {1} \/ DOMAIN prog = {1, 2}
    BY <1>3 DEF StartOp, Programs
  <2>2. prog[cur] \in Operation /\ prog[cur].len \in Nat
    BY <1>3, MasterAssumption DEF StartOp, Programs, Operation
  <2> QED
    <3>1. CASE prog[cur].len = 0
      <4>1. cur' = cur + 1 /\ cur \in DOMAIN prog /\ pc' = "op" /\ off = 0
            /\ UNCHANGED <<mode, dma, ncalls, prog, off, left, result, eng,
                           fifo, bus, log, got, fresh, fault, sts>>
        BY <1>3, <3>1 DEF StartOp
      <4>2. /\ cur' \in 1 .. 3
            /\ cur' \notin DOMAIN prog => \A i \in DOMAIN prog : i < cur'
        <5>1. CASE DOMAIN prog = {1}
          BY <4>1, <5>1
        <5>2. CASE DOMAIN prog = {1, 2}
          BY <4>1, <5>2
        <5> QED
          BY <2>1, <5>1, <5>2
      <4> HIDE DEF TypeOK, Control
      <4>3. TypeOK'
        BY <4>1, <4>2 DEF TypeOK
      <4> QED
        BY <1>3, <4>1, <4>2, <4>3 DEF StartOp, Control
    <3>2. CASE prog[cur].len # 0
      <4>1. sts' \subseteq Status /\ off < prog[cur].len
        BY <1>3, <2>2, <3>2 DEF StartOp
      <4> QED
        BY <1>3, <3>2, <4>1 DEF StartOp
    <3> QED
      BY <3>1, <3>2
<1>4. CASE Done
  BY <1>4, MasterAssumption DEF Done, Return
<1>5. CASE Stage
  <2>1. /\ cur \in {1, 2} /\ ncalls \in 1 .. MaxCalls /\ off \in Nat
        /\ ChunkLen \in Nat
    BY <1>5, ChunkFacts DEF Stage
  <2>2. Bytes(ncalls, cur, off, ChunkLen) \in Seq(Byte)
    BY <2>1, BytesType
  <2>3. fifo' \in Seq(Byte)
    BY <1>5, <2>2 DEF Stage
  <2> HIDE DEF TypeOK, Control
  <2>4. sts' \subseteq Status
    BY <1>5 DEF Stage, ClearedForCommand, TypeOK
  <2>5. CASE Return("Invalid")
    BY <1>5, <2>3, <2>4, <2>5, MasterAssumption
    DEF Stage, Return, TypeOK, Control, I2cError
  <2>6. CASE Proceed("issue") /\ UNCHANGED left
    BY <1>5, <2>3, <2>4, <2>6, MasterAssumption
    DEF Stage, Proceed, TypeOK, Control
  <2> QED
    BY <1>5, <2>5, <2>6 DEF Stage
<1>6. CASE Issue
  <2>1. NextCommand \in Command
    BY <1>6, CommandType DEF Issue
  <2>2. eng' \in Command \cup {NoCmd, RecoverCmd}
    BY <1>6, <2>1 DEF Issue, Accept
  <2> QED
    BY <1>6, <2>2, MasterAssumption DEF Issue, Proceed
<1>7. CASE Poll
  <2> HIDE DEF TypeOK, Control
  <2>1. sts' \subseteq Status /\ HandleInterrupt.error \in I2cError \cup {"Ok"}
    BY <1>7, HandleType DEF Poll
  <2>2. CASE Return(HandleInterrupt.error) \/ Return("Timeout")
    BY <1>7, <2>1, <2>2, MasterAssumption
    DEF Poll, Return, TypeOK, Control, I2cError
  <2>3. CASE Proceed("check") /\ left' = 0
    BY <1>7, <2>1, <2>3, MasterAssumption DEF Poll, Proceed, TypeOK, Control
  <2>4. CASE Proceed("poll") /\ left' = left - 1 /\ left # 1
    BY <1>7, <2>1, <2>4, MasterAssumption DEF Poll, Proceed, TypeOK, Control
  <2> QED
    BY <1>7, <2>2, <2>3, <2>4 DEF Poll, AgainUntil
<1>8. CASE Check
  <2>1. /\ cur \in DOMAIN prog /\ cur \in {1, 2} /\ DOMAIN prog \subseteq {1, 2}
        /\ ncalls \in 1 .. MaxCalls /\ off \in Nat /\ ChunkLen \in Nat \ {0}
        /\ off + ChunkLen <= prog[cur].len /\ prog[cur].len \in Nat
        /\ IsLast <=> off + ChunkLen = prog[cur].len
    BY <1>8, ChunkFacts DEF Check
  <2>2. DOMAIN prog = {1} \/ DOMAIN prog = {1, 2}
    BY <1>8 DEF Check, Programs
  <2>3. got[cur] \o fifo \in Seq(Byte)
    BY <2>1, ConcatProperties
  <2>4. /\ DOMAIN got' = DOMAIN prog
        /\ \A i \in DOMAIN prog : got'[i] \in Seq(Byte)
    BY <1>8, <2>3 DEF Check
  <2> HIDE DEF TypeOK, Control
  <2>5. CASE Return(CheckError) /\ CheckError # "Ok"
    BY <1>8, <2>4, <2>5, MasterAssumption
    DEF Check, CheckError, Return, TypeOK, Control, I2cError
  <2>6. CASE IsLast /\ pc' = "op" /\ cur' = cur + 1 /\ off' = 0
             /\ UNCHANGED <<result, left>>
    BY <1>8, <2>1, <2>2, <2>4, <2>6 DEF Check, TypeOK, Control
  <2>7. CASE ~IsLast /\ pc' = "stage" /\ cur' = cur /\ off' = off + ChunkLen
             /\ UNCHANGED <<result, left>>
    <3>1. off' \in Nat /\ off' < prog[cur].len
      BY <2>1, <2>7
    <3> QED
      BY <1>8, <2>1, <2>4, <2>7, <3>1 DEF Check, TypeOK, Control
  <2> QED
    BY <1>8, <2>5, <2>6, <2>7 DEF Check
<1>9. CASE RecoverPoll
  <2> HIDE DEF TypeOK, Control
  <2>1. sts' \subseteq Status
    BY <1>9 DEF RecoverPoll, TypeOK
  <2>2. CASE \E r \in {"BusRecoveryFailed", "Ok", "Timeout"} : Return(r)
    BY <1>9, <2>1, <2>2, MasterAssumption
    DEF RecoverPoll, Return, TypeOK, Control, I2cError
  <2>3. CASE Proceed("recover") /\ left' = left - 1 /\ left # 1
    BY <1>9, <2>1, <2>3, MasterAssumption
    DEF RecoverPoll, Proceed, TypeOK, Control
  <2> QED
    BY <1>9, <2>2, <2>3 DEF RecoverPoll, AgainUntil
<1>10. CASE EngineAcks
  <2>1. eng \in Command
    BY <1>10 DEF EngineAcks, Runs, NoCmd, RecoverCmd
  <2>2. fifo' \in Seq(Byte)
    <3>1. Bytes(eng.call, eng.op, eng.off, eng.len) \in Seq(Byte)
      BY <2>1, BytesType DEF Command
    <3> QED
      BY <1>10, <3>1 DEF EngineAcks
  <2>3. \A i \in DOMAIN prog : log[i] \o fifo' \in Seq(Byte)
    BY <2>2, ConcatProperties
  <2>4. /\ DOMAIN log' = DOMAIN prog
        /\ \A i \in DOMAIN prog : log'[i] \in Seq(Byte)
    BY <1>10, <2>3 DEF EngineAcks
  <2>5. sts' \subseteq Status
    BY <1>10 DEF EngineAcks, Status, PacketStatus
  <2> QED
    BY <1>10, <2>2, <2>4, <2>5 DEF EngineAcks, driverVars
<1>11. CASE EngineFails
  <2>1. sts' \subseteq Status /\ fault' \in I2cError \cup {"none"}
        /\ bus' \in {"free", "ours", "other"}
    <3>1. \A f \in Failure : f.sts \subseteq Status /\ f.error \in I2cError
      BY DEF Failure, Status, PacketStatus, I2cError
    <3> QED
      BY <1>11, <3>1 DEF EngineFails
  <2> QED
    BY <1>11, <2>1 DEF EngineFails, driverVars
<1>12. CASE EngineRecovers
  BY <1>12 DEF EngineRecovers, Status, driverVars
<1>13. CASE OtherTakes
  BY <1>13 DEF OtherTakes, driverVars
<1>14. CASE OtherReleases
  BY <1>14 DEF OtherReleases, driverVars
<1>15. CASE UNCHANGED vars
  BY <1>15 DEF vars, driverVars
<1> QED
  BY <1>1, <1>2, <1>3, <1>4, <1>5, <1>6, <1>7, <1>8, <1>9, <1>10, <1>11, <1>12,
     <1>13, <1>14, <1>15 DEF Next, Driver, Engine

-----------------------------------------------------------------------------
(* What is claimed of a call that found the engine idle.                   *)

Claims == (fresh => Fresh) /\ OkMeansDelivered /\ ErrorsSurface

(* Nothing is claimed before the first call.                               *)
LEMMA ClaimsInit ==
  Init => Claims
BY DEF Init, Claims, Fresh, Active, OkMeansDelivered, ErrorsSurface

(* What is made of the call's position stays when the position does.       *)
LEMMA Frame ==
  ASSUME UNCHANGED <<mode, ncalls, prog, cur, off>>
  PROVE  /\ ChunkLen' = ChunkLen /\ (IsLast' <=> IsLast)
         /\ NextCommand' = NextCommand /\ Chunk' = Chunk
         /\ \A i : Message(i)' = Message(i)
         /\ UNCHANGED got => (Copied' <=> Copied)
         /\ UNCHANGED log => /\ Moved(off)' <=> Moved(off)
                             /\ Moved(off + ChunkLen)' <=> Moved(off + ChunkLen)
                             /\ Moved(0)' <=> Moved(0)
<1>1. ChunkLen' = ChunkLen /\ (IsLast' <=> IsLast)
  BY DEF ChunkLen, ChunkMax, IsLast
<1>2. NextCommand' = NextCommand /\ Chunk' = Chunk
  BY <1>1 DEF NextCommand, Chunk
<1>3. \A i : Message(i)' = Message(i)
  BY DEF Message
<1>4. UNCHANGED got => (Copied' <=> Copied)
  BY <1>3 DEF Copied
<1>5. UNCHANGED log => /\ Moved(off)' <=> Moved(off)
                       /\ Moved(off + ChunkLen)' <=> Moved(off + ChunkLen)
                       /\ Moved(0)' <=> Moved(0)
  BY <1>1, <1>3 DEF Moved
<1> QED
  BY <1>1, <1>2, <1>3, <1>4, <1>5

(* A call begins with nothing moved.                                       *)
LEMMA BeginClaims ==
  ASSUME Begin PROVE Claims'
<1>1. /\ pc' = "op" /\ cur' = 1 /\ off' = 0 /\ fault' = "none"
      /\ \A i \in DOMAIN prog' : log'[i] = <<>> /\ got'[i] = <<>>
      /\ fresh' => eng' = NoCmd
  BY DEF Begin
<1>2. \A i \in DOMAIN prog' : ~(i < cur')
  <2>1. prog' \in Programs
    BY DEF Begin
  <2> QED
    BY <1>1, <2>1 DEF Programs
<1>3. Copied' /\ Moved(0)'
  BY <1>1, <1>2, BytesEmpty DEF Copied, Moved
<1> QED
  BY <1>1, <1>3 DEF Claims, Fresh, Active, OkMeansDelivered, ErrorsSurface

(* An operation starts with nothing of it moved; an empty one is complete. *)
LEMMA StartOpClaims ==
  ASSUME TypeOK, Control, Claims, fresh, StartOp PROVE Claims'
<1>1. /\ Copied /\ Moved(0) /\ eng = NoCmd /\ fault = "none" /\ off = 0
      /\ cur \in DOMAIN prog /\ DOMAIN prog \subseteq {1, 2}
  BY DEF Claims, Fresh, Active, StartOp, Control, Programs
<1>2. CASE prog[cur].len = 0
  <2>1. cur' = cur + 1 /\ pc' = "op" /\ UNCHANGED <<ncalls, prog, off, log, got>>
    BY <1>2 DEF StartOp
  <2>2. \A i : Message(i)' = Message(i)
    BY <2>1 DEF Message
  <2>3. Message(cur) = <<>>
    BY <1>2, BytesEmpty DEF Message
  <2>4. \A i \in DOMAIN prog : i < cur' <=> i < cur \/ i = cur
    BY <1>1, <2>1
  <2>5. \A i \in DOMAIN prog : Bytes(ncalls, i, 0, 0) = <<>>
    BY BytesEmpty
  <2>6. \A i \in DOMAIN prog :
          /\ log'[i] = IF i < cur' THEN Message(i) ELSE <<>>
          /\ got'[i] = IF prog[i].dir = "write" THEN <<>>
                       ELSE IF i < cur' THEN Message(i) ELSE <<>>
    BY <1>1, <2>1, <2>3, <2>4, <2>5 DEF Moved, Copied
  <2>7. Moved(0)' /\ Copied'
    BY <1>1, <2>1, <2>2, <2>5, <2>6 DEF Moved, Copied
  <2> QED
    BY <1>1, <2>1, <2>7
    DEF StartOp, Claims, Fresh, Active, OkMeansDelivered, ErrorsSurface
<1>3. CASE prog[cur].len # 0
  <2>1. /\ pc' = "stage"
        /\ mode = "ByteMode" => sts' = {}
        /\ UNCHANGED <<mode, ncalls, prog, cur, off, log, got, eng, fault, fresh>>
    BY <1>3 DEF StartOp
  <2>2. Copied' /\ Moved(off)' /\ off' = 0 /\ mode' = mode /\ pc' = "stage"
    BY <1>1, <1>3, <2>1, Frame DEF StartOp
  <2> QED
    BY <1>1, <1>3, <2>1, <2>2
    DEF StartOp, Claims, Fresh, Active, OkMeansDelivered, ErrorsSurface
<1> QED
  BY <1>2, <1>3

(* A call ends with Ok after its last operation.                           *)
LEMMA DoneClaims ==
  ASSUME TypeOK, Control, Claims, fresh, Done PROVE Claims'
<1>1. /\ Copied /\ Moved(0) /\ eng = NoCmd /\ fault = "none"
      /\ \A i \in DOMAIN prog : i < cur
      /\ prog \in Programs
  BY DEF Claims, Fresh, Active, Done, Control
<1>2. \A i \in DOMAIN prog :
        /\ log[i] = Message(i)
        /\ got[i] = IF prog[i].dir = "read" THEN Message(i) ELSE <<>>
  BY <1>1 DEF Moved, Copied, Programs, Operation
<1>3. \A i : Message(i)' = Message(i)
  BY DEF Done, Message
<1>4. OkMeansDelivered'
  BY <1>2, <1>3 DEF Done, OkMeansDelivered
<1> QED
  BY <1>1, <1>4 DEF Done, Return, Claims, Fresh, Active, ErrorsSurface

(* Staging changes nothing on the bus; a refusal moves nothing.            *)
LEMMA StageClaims ==
  ASSUME TypeOK, Control, Claims, fresh, Stage PROVE Claims'
<1>1. /\ Copied /\ Moved(off) /\ eng = NoCmd /\ fault = "none"
      /\ mode = "ByteMode" => sts = {}
      /\ off > 0 => bus = "ours"
  BY DEF Claims, Fresh, Active, Stage
<1>2. CASE Return("Invalid")
  BY <1>1, <1>2
  DEF Stage, Return, Claims, Fresh, Active, OkMeansDelivered, ErrorsSurface
<1>3. CASE /\ Proceed("issue") /\ sts' = ClearedForCommand
           /\ fifo' = IF prog[cur].dir = "write"
                      THEN Bytes(ncalls, cur, off, ChunkLen) ELSE fifo
  <2>1. UNCHANGED <<mode, ncalls, prog, cur, off, log, got>>
    BY <1>3 DEF Stage, Proceed
  <2>2. sts' = {}
    BY <1>1, <1>3 DEF ClearedForCommand
  <2>3. prog'[cur'].dir = "write" => fifo' = Chunk'
    BY <1>3, <2>1, Frame DEF Chunk
  <2>4. Copied' /\ Moved(off)'
    BY <1>1, <2>1, Frame
  <2> QED
    BY <1>1, <1>3, <2>1, <2>2, <2>3, <2>4
    DEF Stage, Proceed, Claims, Fresh, Active, OkMeansDelivered, ErrorsSurface
<1> QED
  BY <1>2, <1>3 DEF Stage

(* The command issued is for the chunk that is due.                        *)
LEMMA IssueClaims ==
  ASSUME TypeOK, Control, Claims, fresh, Issue PROVE Claims'
<1>1. /\ Copied /\ Moved(off) /\ eng = NoCmd /\ fault = "none" /\ sts = {}
      /\ prog[cur].dir = "write" => fifo = Chunk
      /\ off > 0 => bus = "ours"
  BY DEF Claims, Fresh, Active, Issue
<1>2. /\ UNCHANGED <<mode, ncalls, prog, cur, off, log, got, sts, fifo, bus,
                     fault, fresh>>
      /\ pc' = "poll" /\ eng' = NextCommand
  BY <1>1 DEF Issue, Proceed, Accept
<1>3. Waiting' /\ Copied'
  BY <1>1, <1>2, Frame DEF Waiting
<1> QED
  BY <1>2, <1>3 DEF Claims, Fresh, Active, OkMeansDelivered, ErrorsSurface

(* The wait ends with what the engine answered, or with Timeout.           *)
LEMMA PollClaims ==
  ASSUME TypeOK, Control, Claims, fresh, Poll PROVE Claims'
<1>1. Copied /\ (Waiting \/ Answered \/ Failed) /\ pc = "poll"
  BY DEF Claims, Fresh, Active, Poll
<1>2. CASE Waiting
  <2>1. /\ HandleInterrupt.error = "Ok" /\ HandleInterrupt.completion = FALSE
        /\ HandleInterrupt.rest = {}
    BY <1>2 DEF Waiting, HandleInterrupt, BareError
  <2>2. AgainUntil("poll") /\ sts' = {} /\ fault' = "none" /\ fresh' = fresh
    BY <1>2, <2>1 DEF Poll, Waiting
  <2>3. CASE Return("Timeout")
    BY <2>2, <2>3
    DEF Return, Claims, Fresh, Active, OkMeansDelivered, ErrorsSurface
  <2>4. CASE Proceed("poll")
    <3>1. UNCHANGED <<mode, ncalls, prog, cur, off, log, got, eng, fifo, bus>>
      BY <2>4 DEF Poll, Proceed
    <3>2. Waiting' /\ Copied'
      BY <1>1, <1>2, <2>2, <3>1, Frame DEF Waiting
    <3> QED
      BY <2>4, <3>2
      DEF Proceed, Claims, Fresh, Active, OkMeansDelivered, ErrorsSurface
  <2> QED
    BY <2>2, <2>3, <2>4 DEF AgainUntil
<1>3. CASE Answered
  <2>1. /\ HandleInterrupt.error = "Ok" /\ HandleInterrupt.completion = TRUE
        /\ HandleInterrupt.rest = {}
    BY <1>3 DEF Answered, HandleInterrupt, PacketError
  <2>2. Proceed("check") /\ sts' = {}
    BY <2>1 DEF Poll
  <2>3. UNCHANGED <<mode, ncalls, prog, cur, off, log, got, eng, fifo, bus,
                    fault, fresh>>
    BY <2>2 DEF Poll, Proceed
  <2>4. /\ Moved(off + ChunkLen)' /\ fifo' = Chunk' /\ Copied'
        /\ ~IsLast' => bus' = "ours"
    BY <1>1, <1>3, <2>3, Frame DEF Answered
  <2> QED
    BY <1>3, <2>2, <2>3, <2>4
    DEF Answered, Proceed, Claims, Fresh, Active, OkMeansDelivered, ErrorsSurface
<1>4. CASE Failed
  <2>1. PICK f \in Failure : sts = f.sts /\ fault = f.error
    BY <1>4 DEF Failed
  <2>2. HandleInterrupt.error = f.error /\ f.error # "Ok"
    BY <2>1 DEF Failure, HandleInterrupt, PacketError, BareError
  <2>3. Return(f.error) /\ fault' = f.error
    BY <2>1, <2>2 DEF Poll
  <2> QED
    BY <2>2, <2>3
    DEF Return, Claims, Fresh, Active, OkMeansDelivered, ErrorsSurface
<1> QED
  BY <1>1, <1>2, <1>3, <1>4

(* After a good check the chunk counts as moved.                           *)
LEMMA CheckClaims ==
  ASSUME TypeOK, Control, Claims, fresh, Check PROVE Claims'
<1>1. /\ Copied /\ Moved(off + ChunkLen) /\ fifo = Chunk /\ sts = {}
      /\ eng = NoCmd /\ fault = "none" /\ pc = "check"
  BY DEF Claims, Fresh, Active, Check
<1>2. ~IsLast => bus = "ours"
  BY DEF Claims, Fresh, Check
<1>3. /\ cur \in DOMAIN prog /\ cur \in {1, 2} /\ DOMAIN prog \subseteq {1, 2}
      /\ prog[cur] \in Operation /\ prog[cur].len \in Nat /\ off \in Nat
      /\ ChunkLen \in Nat \ {0} /\ off + ChunkLen <= prog[cur].len
      /\ IsLast <=> off + ChunkLen = prog[cur].len
      /\ DOMAIN got = DOMAIN prog
  BY <1>1, ChunkFacts DEF InOp, TypeOK
<1>4. CheckError = "Ok" /\ (Copies <=> prog[cur].dir = "read")
  BY <1>1 DEF CheckError, Copies
<1>5. Bytes(ncalls, cur, 0, off) \o fifo = Bytes(ncalls, cur, 0, off + ChunkLen)
  <2>1. off \in Nat /\ ChunkLen \in Nat
    BY <1>3
  <2>2. Bytes(ncalls, cur, 0, off) \o Bytes(ncalls, cur, off, ChunkLen)
          = Bytes(ncalls, cur, 0, off + ChunkLen)
    BY <2>1, BytesAppend, Zenon
  <2> QED
    BY <1>1, <2>2 DEF Chunk
<1>6. \A i \in DOMAIN prog :
        got'[i] = IF prog[i].dir = "write" THEN <<>>
                  ELSE IF i < cur THEN Message(i)
                  ELSE IF i = cur THEN Bytes(ncalls, i, 0, off + ChunkLen)
                  ELSE <<>>
  <2>1. CASE prog[cur].dir = "read"
    <3>1. got' = [got EXCEPT ![cur] = got[cur] \o fifo]
      BY <1>4, <2>1 DEF Check
    <3>2. got[cur] = Bytes(ncalls, cur, 0, off)
      BY <1>1, <1>3, <2>1 DEF Copied
    <3>3. \A i \in DOMAIN prog : i # cur => got'[i] = got[i]
      BY <1>3, <3>1
    <3>4. /\ got'[cur] = Bytes(ncalls, cur, 0, off + ChunkLen)
          /\ ~(cur < cur) /\ prog[cur].dir # "write"
      BY <1>3, <1>5, <2>1, <3>1, <3>2
    <3> QED
      BY <1>1, <3>3, <3>4 DEF Copied
  <2>2. CASE prog[cur].dir = "write"
    <3>1. got' = got
      BY <1>4, <2>2 DEF Check
    <3> QED
      BY <1>1, <2>2, <3>1 DEF Copied
  <2> QED
    BY <1>3, <2>1, <2>2 DEF Operation
<1>7. UNCHANGED <<mode, ncalls, prog, log, eng, bus, fault, fresh, sts>>
  BY DEF Check
<1>8. \A i : Message(i)' = Message(i)
  BY <1>7 DEF Message
<1>9. CASE IsLast
  <2>1. cur' = cur + 1 /\ off' = 0 /\ pc' = "op"
    BY <1>4, <1>9 DEF Check
  <2>2. \A i \in DOMAIN prog : i < cur' <=> i < cur \/ i = cur
    BY <1>3, <2>1
  <2>3. Message(cur) = Bytes(ncalls, cur, 0, off + ChunkLen)
    BY <1>3, <1>9 DEF Message
  <2>4. \A i \in DOMAIN prog : Bytes(ncalls, i, 0, 0) = <<>>
    BY BytesEmpty
  <2>5. Moved(0)'
    BY <1>1, <1>7, <1>8, <2>2, <2>3, <2>4 DEF Moved
  <2>6. Copied'
    BY <1>6, <1>7, <1>8, <2>1, <2>2, <2>3, <2>4 DEF Copied
  <2> QED
    BY <1>1, <1>7, <2>1, <2>5, <2>6
    DEF Claims, Fresh, Active, OkMeansDelivered, ErrorsSurface
<1>10. CASE ~IsLast
  <2>1. cur' = cur /\ off' = off + ChunkLen /\ pc' = "stage"
    BY <1>4, <1>10 DEF Check
  <2>2. Moved(off)' /\ Copied'
    BY <1>1, <1>6, <1>7, <1>8, <2>1 DEF Moved, Copied
  <2> QED
    BY <1>1, <1>2, <1>7, <1>10, <2>1, <2>2
    DEF Claims, Fresh, Active, OkMeansDelivered, ErrorsSurface
<1> QED
  BY <1>9, <1>10

(* The engine runs only for a call that waits, or one that gave up.        *)
LEMMA EngineStates ==
  ASSUME Control, Claims, fresh, eng # NoCmd,
         pc \in Active \cup {"idle", "recover"}
  PROVE  \/ pc = "idle" /\ result # "Ok"
         \/ pc = "poll" /\ Waiting /\ Copied
BY DEF Claims, Fresh, Active, Answered, Failed

(* A command carried out moves exactly the chunk that is due.              *)
LEMMA EngineAcksClaims ==
  ASSUME TypeOK, Control, Claims, fresh, EngineAcks PROVE Claims'
<1>1. /\ eng # NoCmd /\ eng' = NoCmd /\ pc \in Active \cup {"idle", "recover"}
      /\ UNCHANGED <<mode, ncalls, prog, cur, off, pc, result, got, fresh, fault>>
  BY DEF EngineAcks, Runs, NoCmd, driverVars, TypeOK, Active
<1>2. CASE pc = "idle" /\ result # "Ok"
  BY <1>1, <1>2 DEF Claims, Fresh, Active, OkMeansDelivered, ErrorsSurface
<1>3. CASE pc = "poll" /\ Waiting /\ Copied
  <2>1. /\ cur \in DOMAIN prog /\ prog[cur] \in Operation /\ off \in Nat
        /\ ChunkLen \in Nat \ {0} /\ DOMAIN log = DOMAIN prog
    BY <1>3, ChunkFacts DEF InOp, TypeOK
  <2>2. /\ eng = NextCommand /\ eng.call = ncalls /\ eng.op = cur
        /\ eng.off = off /\ eng.len = ChunkLen /\ eng.dir = prog[cur].dir
        /\ eng.stop = IsLast
    BY <1>3 DEF Waiting, NextCommand
  <2>3. fifo' = Chunk
    BY <1>3, <2>2 DEF EngineAcks, Waiting, Chunk
  <2>4. log' = [log EXCEPT ![cur] = log[cur] \o fifo']
    BY <2>2 DEF EngineAcks, Recorded
  <2>5. log[cur] \o fifo' = Bytes(ncalls, cur, 0, off + ChunkLen)
    <3>1. log[cur] = Bytes(ncalls, cur, 0, off)
      BY <1>3, <2>1 DEF Waiting, Moved, TypeOK
    <3> QED
      <4>1. off \in Nat /\ ChunkLen \in Nat
        BY <2>1
      <4>2. Bytes(ncalls, cur, 0, off) \o Bytes(ncalls, cur, off, ChunkLen)
              = Bytes(ncalls, cur, 0, off + ChunkLen)
        BY <4>1, BytesAppend, Zenon
      <4> QED
        BY <2>3, <3>1, <4>2 DEF Chunk
  <2>6. Moved(off + ChunkLen)'
    <3>1. \A i \in DOMAIN prog : log'[i] =
            IF i < cur THEN Message(i)
            ELSE IF i = cur THEN Bytes(ncalls, i, 0, off + ChunkLen) ELSE <<>>
      <4>1. \A i \in DOMAIN prog : i # cur => log'[i] = log[i]
        BY <2>1, <2>4
      <4>2. log'[cur] = Bytes(ncalls, cur, 0, off + ChunkLen) /\ ~(cur < cur)
        BY <2>1, <2>4, <2>5 DEF TypeOK
      <4> QED
        BY <1>3, <4>1, <4>2 DEF Waiting, Moved
    <3> QED
      BY <1>1, <3>1, Frame DEF Moved
  <2>7. /\ sts' \subseteq PacketStatus /\ "PKT_DONE" \in sts'
        /\ "PKT_ERROR" \notin sts'
    BY <1>3 DEF EngineAcks, Waiting, PacketStatus
  <2>8. ~IsLast' => bus' = "ours"
    BY <1>1, <2>2, Frame DEF EngineAcks
  <2>9. Answered' /\ Copied'
    BY <1>1, <1>3, <2>3, <2>6, <2>7, <2>8, Frame DEF Answered, Waiting
  <2> QED
    BY <1>1, <1>3, <2>9 DEF Claims, Fresh, Active, OkMeansDelivered, ErrorsSurface
<1> QED
  BY <1>1, <1>2, <1>3, EngineStates

(* A failed command moves nothing and leaves its error in the status.      *)
LEMMA EngineFailsClaims ==
  ASSUME TypeOK, Control, Claims, fresh, EngineFails PROVE Claims'
<1>1. /\ eng # NoCmd /\ eng' = NoCmd /\ pc \in Active \cup {"idle", "recover"}
      /\ UNCHANGED <<mode, ncalls, prog, cur, off, pc, result, got, log, fresh>>
  BY DEF EngineFails, Runs, NoCmd, driverVars, TypeOK, Active
<1>2. CASE pc = "idle" /\ result # "Ok"
  <2>1. fault' = fault
    BY <1>2 DEF EngineFails
  <2> QED
    BY <1>1, <1>2, <2>1
    DEF Claims, Fresh, Active, OkMeansDelivered, ErrorsSurface
<1>3. CASE pc = "poll" /\ Waiting /\ Copied
  <2>1. Recorded /\ sts = {}
    BY <1>3 DEF Waiting, NextCommand, Recorded
  <2>2. PICK f \in Failure : sts' = f.sts /\ fault' = f.error
    BY <1>3, <2>1 DEF EngineFails, Failure
  <2>3. Failed' /\ Copied'
    BY <1>1, <1>3, <2>2, Frame DEF Failed
  <2> QED
    BY <1>1, <1>3, <2>3 DEF Claims, Fresh, Active, OkMeansDelivered, ErrorsSurface
<1> QED
  BY <1>1, <1>2, <1>3, EngineStates

(* Every step keeps the claims.                                            *)
LEMMA ClaimsStep ==
  TypeOK /\ Control /\ Claims /\ [Next]_vars => Claims'
<1> SUFFICES ASSUME TypeOK, Control, Claims, [Next]_vars
             PROVE  Claims'
  OBVIOUS
<1>1. CASE Begin
  BY <1>1, BeginClaims
<1>2. CASE RecoverBus
  BY <1>2 DEF RecoverBus, Claims, OkMeansDelivered, ErrorsSurface
<1>3. CASE ~fresh /\ ~Begin
  <2>1. fresh' = FALSE
    BY <1>3 DEF Next, Driver, Engine, RecoverBus, StartOp, Done, Stage, Issue,
                Poll, Check, RecoverPoll, EngineAcks, EngineFails,
                EngineRecovers, OtherTakes, OtherReleases, TypeOK, vars
  <2> QED
    BY <2>1 DEF Claims, OkMeansDelivered, ErrorsSurface
<1>4. CASE fresh /\ (StartOp \/ Done \/ Stage \/ Issue \/ Poll \/ Check)
  BY <1>4, StartOpClaims, DoneClaims, StageClaims, IssueClaims, PollClaims,
     CheckClaims
<1>5. CASE fresh /\ RecoverPoll
  BY <1>5 DEF RecoverPoll, Claims, Fresh
<1>6. CASE fresh /\ (EngineAcks \/ EngineFails)
  BY <1>6, EngineAcksClaims, EngineFailsClaims
<1>7. CASE fresh /\ EngineRecovers
  <2>1. /\ pc = "idle" /\ result # "Ok"
        /\ UNCHANGED <<ncalls, prog, pc, result, log, got, fresh, fault>>
        /\ eng' = NoCmd
    <3>1. eng = RecoverCmd
      BY <1>7 DEF EngineRecovers
    <3>2. eng # NoCmd
      BY <3>1 DEF RecoverCmd, NoCmd
    <3>3. pc = "poll" => prog[cur].dir # "recover"
      BY ChunkFacts DEF InOp, Operation
    <3>4. ~(pc = "poll" /\ Waiting)
      BY <3>1, <3>3 DEF Waiting, NextCommand, RecoverCmd
    <3>5. pc = "idle" /\ result # "Ok"
      BY <1>7, <3>2, <3>4, EngineStates DEF TypeOK, Active
    <3> QED
      BY <1>7, <3>5 DEF EngineRecovers, driverVars
  <2> QED
    BY <1>7, <2>1
    DEF Claims, Fresh, Active, OkMeansDelivered, ErrorsSurface
<1>8. CASE fresh /\ (OtherTakes \/ OtherReleases \/ UNCHANGED vars)
  <2>1. /\ UNCHANGED <<mode, ncalls, prog, cur, off, pc, result, sts, eng, fifo,
                       log, got, fresh, fault>>
        /\ bus = "ours" => bus' = "ours"
    BY <1>8 DEF OtherTakes, OtherReleases, vars, driverVars
  <2>2. /\ ChunkLen' = ChunkLen /\ (IsLast' <=> IsLast)
        /\ NextCommand' = NextCommand /\ Chunk' = Chunk
        /\ \A i : Message(i)' = Message(i)
        /\ (Copied' <=> Copied) /\ (Moved(off)' <=> Moved(off))
        /\ (Moved(off + ChunkLen)' <=> Moved(off + ChunkLen))
        /\ (Moved(0)' <=> Moved(0))
    BY <2>1, Frame
  <2>3. /\ Waiting => Waiting'
        /\ Answered => Answered'
        /\ Failed => Failed'
    BY <2>1, <2>2 DEF Waiting, Answered, Failed
  <2>4. Fresh => Fresh'
    BY <2>1, <2>2, <2>3 DEF Fresh, Active
  <2> QED
    BY <1>8, <2>1, <2>2, <2>4 DEF Claims, OkMeansDelivered, ErrorsSurface
<1> QED
  BY <1>1, <1>2, <1>3, <1>4, <1>5, <1>6, <1>7, <1>8
  DEF Next, Driver, Engine

-----------------------------------------------------------------------------
(* The theorems.                                                           *)

(* Types, control and claims together are kept by every step of a call.    *)
THEOREM InductiveInvariant == Spec => []Inv
<1>1. Init => Inv
  BY ControlInit, ClaimsInit DEF Inv, Claims
<1>2. Inv /\ [Next]_vars => Inv'
  BY ControlStep, ClaimsStep DEF Inv, Claims
<1> QED
  BY <1>1, <1>2, PTL DEF Spec

(* The types are right for every set of lengths and every bound.           *)
THEOREM TypeCorrect == Spec => []TypeOK
<1>1. Inv => TypeOK
  BY DEF Inv
<1> QED
  BY <1>1, InductiveInvariant, PTL

(* Ok means that all was moved, whatever was left over from before.        *)
THEOREM OkCorrect == Spec => []OkMeansDelivered
<1>1. Inv => OkMeansDelivered
  BY DEF Inv
<1> QED
  BY <1>1, InductiveInvariant, PTL

(* An error of a command is the error of the call.                         *)
THEOREM ErrorsCorrect == Spec => []ErrorsSurface
<1>1. Inv => ErrorsSurface
  BY DEF Inv
<1> QED
  BY <1>1, InductiveInvariant, PTL

(* The bus is held from the first chunk of an operation to the last.       *)
THEOREM HeldCorrect == Spec => []HeldWithinOp
<1>1. Inv => HeldWithinOp
  BY DEF Inv, Fresh, HeldWithinOp
<1> QED
  BY <1>1, InductiveInvariant, PTL

=============================================================================
