-------------------------- MODULE NcodecCosimProofs --------------------------
(***************************************************************************)
(* Proofs about NcodecCosim, for all nodes, interfaces, bus models and     *)
(* PDUs, and any number of steps.                                          *)
(***************************************************************************)
EXTENDS NcodecCosim, TLAPS

\* What an application writes in a step is a fold over its PDUs.
Writes == INSTANCE SequenceInduction WITH Op <- WriteNext

LEMMA WritesFlattenSeq ==
  ASSUME NEW ss
  PROVE  Writes!FlattenSeq(ss) = FlattenSeq(ss)
BY DEF Writes!FlattenSeq, FlattenSeq

-----------------------------------------------------------------------------
(***************************************************************************)
(* What the operations of an instance leave alone.                         *)
(***************************************************************************)

IsCodec(c) ==
  /\ DOMAIN c = {"stream", "builder", "reader", "stage", "time", "write_time", "held", "bus"}
  /\ DOMAIN c.stage = {"ncodec_consumed", "model_produced", "model_consumed"}

LEMMA NewCodecIs ==
  ASSUME NEW len
  PROVE  /\ IsCodec(NewCodec(len))
         /\ NewCodec(len).builder = <<>> /\ NewCodec(len).reader = NoReader
         /\ NewCodec(len).time = 0 /\ NewCodec(len).write_time = 0
BY DEF NewCodec, IsCodec, Stages

LEMMA FlushedKeeps ==
  ASSUME NEW c, IsCodec(c)
  PROVE  /\ IsCodec(Flushed(c))
         /\ Flushed(c).builder = <<>> /\ Flushed(c).reader = c.reader
         /\ Flushed(c).time = c.time /\ Flushed(c).write_time = c.write_time
BY DEF Flushed, IsCodec

LEMMA WriteMsgKeeps ==
  ASSUME NEW k, NEW c, IsCodec(c), NEW p, c.builder = <<>> \/ \E m : c.builder = <<m>>
  PROVE  /\ IsCodec(WriteMsg(k, c, p))
         /\ WriteMsg(k, c, p).reader = c.reader
         /\ WriteMsg(k, c, p).time = c.time /\ WriteMsg(k, c, p).write_time = c.write_time
         /\ \E m : WriteMsg(k, c, p).builder = <<m>>
BY DEF WriteMsg, IsCodec

LEMMA TruncatedKeeps ==
  ASSUME NEW k, NEW c, IsCodec(c)
  PROVE  /\ IsCodec(Truncated(k, c))
         /\ Truncated(k, c).builder = <<>>
         /\ Truncated(k, c).reader = IF k.type = "pdu" THEN NoReader ELSE c.reader
         /\ Truncated(k, c).time = c.time /\ Truncated(k, c).write_time = c.write_time
BY DEF Truncated, IsCodec, Stages

LEMMA ReadFrameKeeps ==
  ASSUME NEW k, NEW c, IsCodec(c)
  PROVE  /\ IsCodec(ReadFrame(k, c).c)
         /\ ReadFrame(k, c).c.builder = c.builder
         /\ ReadFrame(k, c).got = <<>> => ReadFrame(k, c).c.reader = NoReader
<1> DEFINE unread == Unread(c.stream, c.reader, Identifier("frame"))
           i == SelectInSeq(unread, LAMBDA u : ~Filtered(k, u.pdu))
<1> HIDE DEF unread, i
<1>1. ReadFrame(k, c) =
        IF i = 0
        THEN [got |-> <<>>,
              c |-> [c EXCEPT !.reader = NoReader, !.stream = SeekEnd(c.stream)]]
        ELSE [got |-> <<unread[i].pdu>>,
              c |-> [c EXCEPT !.reader = ReaderAt(c.stream, c.reader, unread[i]),
                              !.stream = StreamAt(c.stream, c.reader, unread[i])]]
  BY DEF ReadFrame, unread, i
<1>2. CASE i = 0
  <2>1. ReadFrame(k, c).c = [c EXCEPT !.reader = NoReader, !.stream = SeekEnd(c.stream)]
    BY <1>1, <1>2
  <2> QED
    BY <2>1 DEF IsCodec
<1>3. CASE i # 0
  <2>1. /\ ReadFrame(k, c).c = [c EXCEPT !.reader = ReaderAt(c.stream, c.reader, unread[i]),
                                         !.stream = StreamAt(c.stream, c.reader, unread[i])]
        /\ ReadFrame(k, c).got = <<unread[i].pdu>>
    BY <1>1, <1>3
  <2>2. ReadFrame(k, c).got # <<>>
    BY <2>1
  <2> QED
    BY <2>1, <2>2 DEF IsCodec
<1> QED
  BY <1>2, <1>3

\* Until a read finds nothing, the times of an instance stay.
Timeless(c, d) ==
  /\ IsCodec(d) /\ d.builder = c.builder
  /\ d.time = c.time /\ d.write_time = c.write_time

LEMMA NCodecStageKeeps ==
  ASSUME NEW k, NEW c, IsCodec(c)
  PROVE  Timeless(c, NCodecStage(k, c).c)
<1> DEFINE unread == Unread(c.stream, c.reader, Identifier("pdu"))
           i == SelectInSeq(unread, LAMBDA u : ~Consumes(k, u.pdu) /\ ~Filtered(k, u.pdu))
           seen == IF i = 0 THEN unread ELSE SubSeq(unread, 1, i)
           held == c.held \o FlattenSeq([j \in DOMAIN seen |->
                                IF Consumes(k, seen[j].pdu) THEN <<seen[j].pdu>> ELSE <<>>])
<1> HIDE DEF unread, i, held
<1>1. NCodecStage(k, c).c =
        IF i = 0
        THEN [c EXCEPT !.reader = NoReader, !.stream = SeekSet(c.stream, 0),
                       !.stage.ncodec_consumed = TRUE, !.held = held]
        ELSE [c EXCEPT !.reader = ReaderAt(c.stream, c.reader, unread[i]),
                       !.stream = StreamAt(c.stream, c.reader, unread[i]),
                       !.held = held]
  BY DEF NCodecStage, unread, i, held
<1> QED
  BY <1>1 DEF IsCodec, Timeless

LEMMA BusModelStageKeeps ==
  ASSUME NEW k, NEW c, IsCodec(c)
  PROVE  Timeless(c, BusModelStage(k, c))
BY DEF BusModelStage, IsCodec, Timeless

LEMMA AdvanceTimeSets ==
  ASSUME NEW c, IsCodec(c)
  PROVE  /\ IsCodec(AdvanceTime(c)) /\ AdvanceTime(c).builder = c.builder
         /\ AdvanceTime(c).reader = c.reader
         /\ AdvanceTime(c).time = c.time + 1 /\ AdvanceTime(c).write_time = c.time
BY DEF AdvanceTime, IsCodec

\* The last read of a step advances the time, and no other.
LEMMA ModelStageTime ==
  ASSUME NEW k, NEW c, IsCodec(c)
  PROVE  /\ IsCodec(ModelStage(k, c).c) /\ ModelStage(k, c).c.builder = c.builder
         /\ ModelStage(k, c).got # <<>> => Timeless(c, ModelStage(k, c).c)
         /\ ModelStage(k, c).got = <<>> =>
              /\ ModelStage(k, c).c.time = c.time + 1 /\ ModelStage(k, c).c.write_time = c.time
              /\ ModelStage(k, c).c.reader = NoReader
<1> DEFINE unread == IF k.model /\ ~c.stage.model_consumed
                     THEN Unread(c.bus.stream, c.reader, Identifier("pdu")) ELSE <<>>
           at_end == [c EXCEPT !.reader = NoReader, !.stage.model_consumed = TRUE,
                               !.bus.stream = IF k.model THEN SeekEnd(c.bus.stream)
                                              ELSE c.bus.stream]
           next == [c EXCEPT !.reader = ReaderAt(c.bus.stream, c.reader, unread[1]),
                             !.bus.stream = StreamAt(c.bus.stream, c.reader, unread[1])]
<1>1. ModelStage(k, c) = IF unread = <<>> THEN [got |-> <<>>, c |-> AdvanceTime(at_end)]
                         ELSE [got |-> <<unread[1].pdu>>, c |-> next]
  BY DEF ModelStage
<1> HIDE DEF unread
<1>2. Timeless(c, at_end) /\ at_end.reader = NoReader /\ Timeless(c, next)
  BY DEF IsCodec, Timeless
<1> HIDE DEF at_end, next
<1>3. CASE unread = <<>>
  <2>1. ModelStage(k, c).got = <<>> /\ ModelStage(k, c).c = AdvanceTime(at_end)
    BY <1>1, <1>3
  <2> QED
    BY <1>2, <2>1, AdvanceTimeSets DEF Timeless
<1>4. CASE unread # <<>>
  <2>1. ModelStage(k, c).got # <<>> /\ ModelStage(k, c).c = next
    BY <1>1, <1>4
  <2> QED
    BY <1>2, <2>1 DEF Timeless
<1> QED
  BY <1>3, <1>4

LEMMA ReadPduTime ==
  ASSUME NEW k, NEW c, IsCodec(c)
  PROVE  /\ IsCodec(ReadPdu(k, c).c) /\ ReadPdu(k, c).c.builder = c.builder
         /\ ReadPdu(k, c).got # <<>> => Timeless(c, ReadPdu(k, c).c)
         /\ ReadPdu(k, c).got = <<>> =>
              /\ ReadPdu(k, c).c.time = c.time + 1 /\ ReadPdu(k, c).c.write_time = c.time
              /\ ReadPdu(k, c).c.reader = NoReader
<1> DEFINE first  == IF c.stage.ncodec_consumed THEN [got |-> <<>>, c |-> c]
                     ELSE NCodecStage(k, c)
           second == IF first.c.stage.model_produced THEN first.c
                     ELSE BusModelStage(k, first.c)
<1>1. ReadPdu(k, c) = IF first.got # <<>> THEN first ELSE ModelStage(k, second)
  BY DEF ReadPdu
<1>2. Timeless(c, first.c)
  BY NCodecStageKeeps DEF Timeless
<1> HIDE DEF first
<1>3. Timeless(c, second)
  <2>1. IsCodec(first.c)
    BY <1>2 DEF Timeless
  <2>2. Timeless(first.c, BusModelStage(k, first.c))
    BY <2>1, BusModelStageKeeps
  <2> QED
    BY <1>2, <2>2 DEF Timeless
<1> HIDE DEF second
<1>4. CASE first.got # <<>>
  BY <1>1, <1>2, <1>4 DEF Timeless
<1>5. CASE first.got = <<>>
  <2>1. IsCodec(second) /\ ReadPdu(k, c) = ModelStage(k, second)
    BY <1>1, <1>3, <1>5 DEF Timeless
  <2> QED
    BY <1>3, <2>1, ModelStageTime DEF Timeless
<1> QED
  BY <1>4, <1>5

LEMMA UtimeSets ==
  ASSUME NEW c, IsCodec(c), NEW time, NEW force
  PROVE  /\ IsCodec(Utime(c, time, force))
         /\ Utime(c, time, force).builder = c.builder /\ Utime(c, time, force).reader = c.reader
         /\ Utime(c, time, force).write_time = c.write_time
BY DEF Utime, IsCodec

-----------------------------------------------------------------------------
(***************************************************************************)
(* The invariants.                                                         *)
(***************************************************************************)

Phases == {"reading", "read", "writing", "done"}

\* Nothing is being built unless a node writes, and what is built has the time of
\* the instance.
Building(n) ==
  LET c == codec[n]
  IN  \/ c.builder = <<>>
      \/ /\ phase[n] = "writing"
         /\ \E m : /\ c.builder = <<m>>
                   /\ Config[n].type = "pdu" => m.time = c.write_time

IInvCodecs ==
  /\ step \in Nat
  /\ phase \in [Node -> Phases] /\ DOMAIN codec = Node
  /\ \A n \in Node : phase[n] \in {"reading", "read"} => step # 0
  /\ \A n \in Node : IsCodec(codec[n]) /\ Building(n)

\* What the time of an instance is, if it is not late.
Before(s) == IF s = 0 THEN 0 ELSE s - 1

IInvTime ==
  \A n \in Node \ late : Config[n].type = "pdu" =>
    /\ phase[n] = "reading" => codec[n].time = step - 1
    /\ phase[n] # "reading" => codec[n].time = step /\ codec[n].write_time = Before(step)

\* A node that stops before it read everything has a PDU interface, the codec of
\* which resets its reader.
PatientFrames == \A n \in Impatient : Config[n].type = "pdu"

LEMMA ReadKeeps ==
  ASSUME NEW k, NEW c, IsCodec(c)
  PROVE  /\ IsCodec(Read(k, c).c) /\ Read(k, c).c.builder = c.builder
         /\ Read(k, c).got = <<>> => Read(k, c).c.reader = NoReader
BY ReadPduTime, ReadFrameKeeps DEF Read

LEMMA InitCodecs == Init => IInvCodecs /\ IInvTime
BY NewCodecIs DEF Init, IInvCodecs, IInvTime, Building, Phases, Before

LEMMA CodecsStep == IInvCodecs /\ [Next]_vars => IInvCodecs'
<1> SUFFICES ASSUME IInvCodecs, [Next]_vars PROVE IInvCodecs'
  OBVIOUS
<1>1. CASE SimBus
  <2>1. /\ phase' = [n \in Node |-> "reading"] /\ step' = step + 1 /\ DOMAIN codec' = Node
        /\ \A n \in Node : codec'[n] = [codec[n] EXCEPT
             !.stream = SeekSet(Write(SeekReset(codec[n].stream), Consolidated), 0)]
    BY <1>1 DEF SimBus
  <2>2. \A n \in Node : codec[n].builder = <<>>
    BY <1>1 DEF SimBus, IInvCodecs, Building
  <2>3. \A n \in Node : IsCodec(codec'[n]) /\ codec'[n].builder = <<>>
    BY <2>1, <2>2 DEF IInvCodecs, IsCodec
  <2> QED
    BY <2>1, <2>3 DEF IInvCodecs, Phases, Building
<1>2. ASSUME NEW n \in Node, NcodecRead(n) \/ ReadOn(n) PROVE IInvCodecs'
  <2>1. PICK r : /\ r = Read(Config[n], codec[n]) /\ codec' = [codec EXCEPT ![n] = r.c]
                 /\ phase' = [phase EXCEPT ![n] = phase'[n]]
                 /\ phase[n] \in {"reading", "read"} /\ phase'[n] \in {"reading", "read"}
                 /\ step' = step
    BY <1>2 DEF NcodecRead, ReadOn, IInvCodecs
  <2>2. IsCodec(r.c) /\ r.c.builder = codec[n].builder
    BY <2>1, ReadKeeps DEF IInvCodecs
  <2>3. codec[n].builder = <<>>
    BY <2>1 DEF IInvCodecs, Building
  <2> QED
    BY <2>1, <2>2, <2>3 DEF IInvCodecs, Building, Phases
<1>3. ASSUME NEW n \in Node, StopReading(n) PROVE IInvCodecs'
  BY <1>3 DEF StopReading, IInvCodecs, Building, Phases
<1>4. ASSUME NEW n \in Node, NEW force \in BOOLEAN, NcodecUtime(n, force) PROVE IInvCodecs'
  <2>1. PICK c : c = Utime(codec[n], step - 1, force) /\ codec' = [codec EXCEPT ![n] = c]
    BY <1>4 DEF NcodecUtime
  <2>2. IsCodec(c) /\ c.builder = codec[n].builder
    BY <2>1, UtimeSets DEF IInvCodecs
  <2>3. phase[n] = "reading" /\ phase' = phase /\ step' = step
    BY <1>4 DEF NcodecUtime
  <2> QED
    BY <2>1, <2>2, <2>3 DEF IInvCodecs, Building
<1>5. ASSUME NEW n \in Node, NcodecTruncate(n) PROVE IInvCodecs'
  <2>1. IsCodec(Truncated(Config[n], codec[n])) /\ Truncated(Config[n], codec[n]).builder = <<>>
    BY TruncatedKeeps DEF IInvCodecs
  <2> QED
    BY <1>5, <2>1 DEF NcodecTruncate, IInvCodecs, Building, Phases
<1>6. ASSUME NEW n \in Node, NEW p \in Input[n], NcodecWrite(n, p) PROVE IInvCodecs'
  <2>1. PICK c : c = WriteMsg(Config[n], codec[n], p) /\ codec' = [codec EXCEPT ![n] = c]
    BY <1>6 DEF NcodecWrite
  <2>2. IsCodec(codec[n]) /\ (codec[n].builder = <<>> \/ \E m : codec[n].builder = <<m>>)
    BY DEF IInvCodecs, Building
  <2>3. IsCodec(c) /\ c.write_time = codec[n].write_time
    BY <2>1, <2>2, WriteMsgKeeps
  <2>4. \E m : c.builder = <<m>> /\ (Config[n].type = "pdu" => m.time = c.write_time)
    <3>0. DOMAIN codec[n] = {"stream", "builder", "reader", "stage", "time", "write_time", "held", "bus"}
      BY <2>2 DEF IsCodec
    <3>1. CASE codec[n].builder = <<>>
      <4> DEFINE m == [ident |-> Identifier(Config[n].type),
                       time |-> IF Config[n].type = "pdu" THEN codec[n].write_time ELSE 0,
                       vector |-> <<>>]
                 m1 == [m EXCEPT !.vector = Append(m.vector, Written(Config[n], p))]
      <4>1. c = [codec[n] EXCEPT !.builder = <<m1>>]
        BY <2>1, <3>1 DEF WriteMsg
      <4>2. m1.time = m.time
        OBVIOUS
      <4>3. Config[n].type = "pdu" => m1.time = codec[n].write_time
        BY <4>2
      <4> HIDE DEF m1
      <4>4. c.builder = <<m1>>
        BY <4>1, <3>0
      <4> QED
        BY <2>3, <4>3, <4>4
    <3>2. CASE codec[n].builder # <<>>
      <4>1. PICK m : /\ codec[n].builder = <<m>>
                     /\ Config[n].type = "pdu" => m.time = codec[n].write_time
        BY <3>2 DEF IInvCodecs, Building
      <4> DEFINE m1 == [m EXCEPT !.vector = Append(m.vector, Written(Config[n], p))]
      <4>2. c = [codec[n] EXCEPT !.builder = <<m1>>]
        BY <2>1, <3>2, <4>1 DEF WriteMsg
      <4>3. m1.time = m.time
        OBVIOUS
      <4>4. Config[n].type = "pdu" => m1.time = codec[n].write_time
        BY <4>1, <4>3
      <4> HIDE DEF m1
      <4>5. c.builder = <<m1>>
        BY <4>2, <3>0
      <4> QED
        BY <2>3, <4>4, <4>5
    <3> QED
      BY <3>1, <3>2
  <2>5. phase[n] = "writing" /\ phase' = phase /\ step' = step
    BY <1>6 DEF NcodecWrite
  <2> QED
    BY <2>1, <2>3, <2>4, <2>5 DEF IInvCodecs, Building
<1>7. ASSUME NEW n \in Node, NcodecFlush(n) PROVE IInvCodecs'
  <2>1. IsCodec(Flushed(codec[n])) /\ Flushed(codec[n]).builder = <<>>
    BY FlushedKeeps DEF IInvCodecs
  <2> QED
    BY <1>7, <2>1 DEF NcodecFlush, IInvCodecs, Building, Phases
<1>8. CASE UNCHANGED vars
  BY <1>8 DEF vars, IInvCodecs, Building
<1> QED
  BY <1>1, <1>2, <1>3, <1>4, <1>5, <1>6, <1>7, <1>8 DEF Next, NodeStep

LEMMA TimeStep == IInvCodecs /\ IInvTime /\ [Next]_vars => IInvTime'
<1> SUFFICES ASSUME IInvCodecs, IInvTime, [Next]_vars PROVE IInvTime'
  OBVIOUS
<1>1. CASE SimBus
  <2>1. /\ phase' = [n \in Node |-> "reading"] /\ step' = step + 1 /\ late' = late
        /\ codec' = [n \in Node |-> [codec[n] EXCEPT
             !.stream = SeekSet(Write(SeekReset(codec[n].stream), Consolidated), 0)]]
        /\ \A n \in Node : phase[n] # "reading"
    BY <1>1 DEF SimBus
  <2>2. \A n \in Node : codec'[n].time = codec[n].time
    BY <2>1 DEF IInvCodecs, IsCodec
  <2>3. step \in Nat
    BY DEF IInvCodecs
  <2>4. ASSUME NEW m \in Node \ late', Config[m].type = "pdu"
        PROVE  phase'[m] = "reading" /\ codec'[m].time = step' - 1
    <3>1. codec[m].time = step
      BY <2>1, <2>4 DEF IInvTime
    <3>2. codec'[m].time = codec[m].time
      BY <2>2
    <3>3. step' - 1 = step
      BY <2>1, <2>3
    <3> QED
      BY <2>1, <3>1, <3>2, <3>3
  <2> QED
    BY <2>4 DEF IInvTime
<1>2. ASSUME NEW n \in Node, NcodecRead(n) PROVE IInvTime'
  <2>1. PICK r : /\ r = Read(Config[n], codec[n]) /\ codec' = [codec EXCEPT ![n] = r.c]
                 /\ phase' = [phase EXCEPT ![n] = IF r.got = <<>> THEN "read" ELSE "reading"]
    BY <1>2 DEF NcodecRead
  <2>2. phase[n] = "reading" /\ step' = step /\ late' = late
    BY <1>2 DEF NcodecRead
  <2>3. step \in Nat /\ step # 0 /\ IsCodec(codec[n])
    BY <2>2 DEF IInvCodecs
  <2>4. ASSUME Config[n].type = "pdu", n \notin late
        PROVE  /\ phase'[n] = "reading" => r.c.time = step - 1
               /\ phase'[n] # "reading" => r.c.time = step /\ r.c.write_time = step - 1
    <3>1. codec[n].time = step - 1
      BY <2>2, <2>4 DEF IInvTime
    <3>2. r = ReadPdu(Config[n], codec[n])
      BY <2>1, <2>4 DEF Read
    <3>3. phase'[n] = IF r.got = <<>> THEN "read" ELSE "reading"
      BY <2>1 DEF IInvCodecs
    <3>4. /\ r.got # <<>> => r.c.time = step - 1
          /\ r.got = <<>> => r.c.time = (step - 1) + 1 /\ r.c.write_time = step - 1
      BY <2>3, <3>1, <3>2, ReadPduTime DEF Timeless
    <3> QED
      BY <2>3, <3>3, <3>4
  <2>5. codec'[n] = r.c
    BY <2>1 DEF IInvCodecs
  <2>6. ASSUME NEW m \in Node \ late', Config[m].type = "pdu"
        PROVE  /\ phase'[m] = "reading" => codec'[m].time = step' - 1
               /\ phase'[m] # "reading" => codec'[m].time = step' /\ codec'[m].write_time = Before(step')
    <3>1. CASE m = n
      BY <2>2, <2>3, <2>4, <2>5, <2>6, <3>1 DEF Before
    <3>2. CASE m # n
      <4>1. codec'[m] = codec[m] /\ phase'[m] = phase[m]
        BY <2>1, <3>2 DEF IInvCodecs
      <4> QED
        BY <2>2, <2>6, <4>1 DEF IInvTime
    <3> QED
      BY <3>1, <3>2
  <2> QED
    BY <2>6 DEF IInvTime
<1>3. ASSUME NEW n \in Node, ReadOn(n) PROVE IInvTime'
  <2>1. /\ \A m \in Node : m # n => codec'[m] = codec[m]
        /\ late' = late \union {n} /\ phase' = phase /\ step' = step
    BY <1>3 DEF ReadOn, IInvCodecs
  <2> QED
    BY <2>1 DEF IInvTime
<1>4. ASSUME NEW n \in Node, StopReading(n) PROVE IInvTime'
  <2>1. /\ \A m \in Node : m # n => phase'[m] = phase[m]
        /\ late' = late \union {n} /\ codec' = codec /\ step' = step
    BY <1>4 DEF StopReading, IInvCodecs
  <2> QED
    BY <2>1 DEF IInvTime
<1>5. ASSUME NEW n \in Node, NEW force \in BOOLEAN, NcodecUtime(n, force) PROVE IInvTime'
  <2>1. PICK c : /\ codec' = [codec EXCEPT ![n] = c]
                 /\ late' = IF c.time = step - 1 THEN late \ {n} ELSE late
    BY <1>5 DEF NcodecUtime
  <2>2. phase[n] = "reading" /\ n \in late /\ phase' = phase /\ step' = step
    BY <1>5 DEF NcodecUtime
  <2>3. codec'[n] = c /\ \A m \in Node : m # n => codec'[m] = codec[m]
    BY <2>1 DEF IInvCodecs
  <2> QED
    BY <2>1, <2>2, <2>3 DEF IInvTime
<1>6. ASSUME NEW n \in Node, NcodecTruncate(n) \/ NcodecFlush(n) \/ \E p \in Input[n] : NcodecWrite(n, p)
      PROVE  IInvTime'
  <2>1. PICK c : /\ codec' = [codec EXCEPT ![n] = c]
                 /\ c.time = codec[n].time /\ c.write_time = codec[n].write_time
    <3>1. CASE NcodecTruncate(n)
      <4>1. codec' = [codec EXCEPT ![n] = Truncated(Config[n], codec[n])]
        BY <3>1 DEF NcodecTruncate
      <4>2. Truncated(Config[n], codec[n]).time = codec[n].time /\ Truncated(Config[n], codec[n]).write_time = codec[n].write_time
        BY TruncatedKeeps DEF IInvCodecs, Building
      <4> QED
        BY <4>1, <4>2
    <3>2. CASE NcodecFlush(n)
      BY <3>2, FlushedKeeps DEF NcodecFlush, IInvCodecs
    <3>3. ASSUME NEW p \in Input[n], NcodecWrite(n, p)
          PROVE  \E c : /\ codec' = [codec EXCEPT ![n] = c]
                        /\ c.time = codec[n].time /\ c.write_time = codec[n].write_time
      <4>1. codec' = [codec EXCEPT ![n] = WriteMsg(Config[n], codec[n], p)]
        BY <3>3 DEF NcodecWrite
      <4>2. WriteMsg(Config[n], codec[n], p).time = codec[n].time /\ WriteMsg(Config[n], codec[n], p).write_time = codec[n].write_time
        BY WriteMsgKeeps DEF IInvCodecs, Building
      <4> QED
        BY <4>1, <4>2
    <3> QED
      BY <1>6, <3>1, <3>2, <3>3
  <2>2. /\ phase[n] # "reading" /\ phase'[n] # "reading"
        /\ \A m \in Node : m # n => phase'[m] = phase[m]
        /\ step' = step /\ late' = late
    BY <1>6 DEF NcodecTruncate, NcodecFlush, NcodecWrite, IInvCodecs
  <2>3. \A m \in Node : codec'[m].time = codec[m].time /\ codec'[m].write_time = codec[m].write_time
    BY <2>1 DEF IInvCodecs
  <2> QED
    BY <2>2, <2>3 DEF IInvTime
<1>7. CASE UNCHANGED vars
  BY <1>7 DEF vars, IInvTime
<1> QED
  BY <1>1, <1>2, <1>3, <1>4, <1>5, <1>6, <1>7 DEF Next, NodeStep

-----------------------------------------------------------------------------
(***************************************************************************)
(* Streams: messages fill the memory from its start to the length.         *)
(***************************************************************************)

Msg == [ident : {"SPDU", "SFRA"}, time : Nat, vector : Seq(PduType)]

Cell == {<<>>} \union {<<m>> : m \in Msg}

\* Whole messages fill the first len cells: there are positions from the
\* first to the last where one message ends and the next starts.
Whole(mem, len) ==
  \E X \in SUBSET (0 .. len) :
    /\ 0 \in X
    /\ \A j \in X : j = len \/ (mem[j + 1] # <<>> /\ j + Size(mem[j + 1][1]) \in X)

WholeCells == {data \in Seq(Cell) : Whole(data, Len(data))}

Memory == [mem : Seq(Cell), buffer_len : Nat, len : Nat, pos : Nat]

Stream == {s \in Memory : InBounds(s) /\ Whole(s.mem, s.len)}

LEMMA CellIs ==
  ASSUME NEW c \in Cell, c # <<>>
  PROVE  c[1] \in Msg /\ c = <<c[1]>>
BY DEF Cell

LEMMA SizeIs ==
  ASSUME NEW m \in Msg
  PROVE  /\ Size(m) \in Nat \ {0}
         /\ Encode(m) \in Seq(Cell) /\ Len(Encode(m)) = Size(m) /\ Encode(m)[1] = <<m>>
<1> DEFINE rest == [i \in 1 .. Len(m.vector) |-> <<>>]
<1>1. m.vector \in Seq(PduType) /\ Len(m.vector) \in Nat
  BY DEF Msg
<1>2. rest \in Seq(Cell) /\ Len(rest) = Len(m.vector)
  BY <1>1 DEF Cell
<1>3. <<<<m>>>> \in Seq(Cell)
  BY DEF Cell
<1> HIDE DEF rest
<1>4. Encode(m) = <<<<m>>>> \o rest
  BY DEF Encode, rest
<1>5. Encode(m) \in Seq(Cell) /\ Len(Encode(m)) = 1 + Len(m.vector) /\ Encode(m)[1] = <<m>>
  BY <1>1, <1>2, <1>3, <1>4
<1> QED
  BY <1>1, <1>5 DEF Size

\* Only the cells up to the length matter.
LEMMA WholeOfSame ==
  ASSUME NEW len \in Nat, NEW mem, NEW mem1, \A i \in 1 .. len : mem1[i] = mem[i],
         Whole(mem, len)
  PROVE  Whole(mem1, len)
<1>1. PICK X \in SUBSET (0 .. len) :
        /\ 0 \in X
        /\ \A j \in X : j = len \/ (mem[j + 1] # <<>> /\ j + Size(mem[j + 1][1]) \in X)
  BY DEF Whole
<1>2. ASSUME NEW j \in X, j # len
      PROVE  mem1[j + 1] # <<>> /\ j + Size(mem1[j + 1][1]) \in X
  <2>0. j \in 0 .. len /\ j # len
    BY <1>1, <1>2
  <2>1. j + 1 \in 1 .. len
    BY <2>0
  <2>2. mem1[j + 1] = mem[j + 1]
    BY <2>1
  <2> QED
    BY <1>1, <1>2, <2>2
<1> QED
  BY <1>1, <1>2 DEF Whole

LEMMA NoneIsWhole ==
  ASSUME NEW mem
  PROVE  Whole(mem, 0)
<1>1. {0} \in SUBSET (0 .. 0)
  OBVIOUS
<1> QED
  BY <1>1 DEF Whole

LEMMA EncodedIsWhole ==
  ASSUME NEW m \in Msg
  PROVE  Encode(m) \in WholeCells
<1>1. /\ Size(m) \in Nat \ {0} /\ Encode(m) \in Seq(Cell)
      /\ Len(Encode(m)) = Size(m) /\ Encode(m)[1] = <<m>>
  BY SizeIs
<1> DEFINE X == {0, Size(m)}
<1>2. X \in SUBSET (0 .. Size(m))
  BY <1>1
<1>3. ASSUME NEW j \in X, j # Size(m)
      PROVE  Encode(m)[j + 1] # <<>> /\ j + Size(Encode(m)[j + 1][1]) \in X
  <2>1. j = 0 /\ Encode(m)[j + 1] = <<m>>
    BY <1>1, <1>3
  <2>2. <<m>> # <<>> /\ <<m>>[1] = m
    OBVIOUS
  <2>3. 0 + Size(m) = Size(m)
    BY <1>1
  <2> QED
    BY <2>1, <2>2, <2>3
<1>4. Whole(Encode(m), Size(m))
  BY <1>2, <1>3 DEF Whole
<1> QED
  BY <1>1, <1>4 DEF WholeCells

LEMMA ConcatIsWhole ==
  ASSUME NEW s \in WholeCells, NEW t \in WholeCells
  PROVE  s \o t \in WholeCells
<1>0. PICK a \in Nat, b \in Nat : a = Len(s) /\ b = Len(t)
  BY DEF WholeCells
<1>1. s \in Seq(Cell) /\ t \in Seq(Cell) /\ s \o t \in Seq(Cell) /\ Len(s \o t) = a + b
  BY <1>0 DEF WholeCells
<1>2. PICK X \in SUBSET (0 .. a) :
        /\ 0 \in X
        /\ \A j \in X : j = a \/ (s[j + 1] # <<>> /\ j + Size(s[j + 1][1]) \in X)
  BY <1>0 DEF WholeCells, Whole
<1>3. PICK Y \in SUBSET (0 .. b) :
        /\ 0 \in Y
        /\ \A j \in Y : j = b \/ (t[j + 1] # <<>> /\ j + Size(t[j + 1][1]) \in Y)
  BY <1>0 DEF WholeCells, Whole
<1> DEFINE Z == X \union {a + j : j \in Y}
<1>4. Z \in SUBSET (0 .. a + b) /\ 0 \in Z
  <2>1. ASSUME NEW j \in Y PROVE a + j \in 0 .. a + b
    BY <1>0, <1>3
  <2>2. ASSUME NEW j \in X PROVE j \in 0 .. a + b
    BY <1>0, <1>2
  <2> QED
    BY <1>2, <2>1, <2>2
<1>5. ASSUME NEW k \in Z, k # a + b
      PROVE  (s \o t)[k + 1] # <<>> /\ k + Size((s \o t)[k + 1][1]) \in Z
  <2>1. CASE k \in X /\ k # a
    <3>1. k + 1 \in 1 .. a
      BY <1>2, <2>1
    <3>2. (s \o t)[k + 1] = s[k + 1]
      BY <1>0, <1>1, <3>1
    <3> QED
      BY <1>2, <2>1, <3>2
  <2>2. ASSUME NEW j \in Y, k = a + j
        PROVE  (s \o t)[k + 1] # <<>> /\ k + Size((s \o t)[k + 1][1]) \in Z
    <3>1. j \in 0 .. b /\ j # b /\ j + 1 \in 1 .. b
      BY <1>3, <1>5, <2>2
    <3>2. (s \o t)[k + 1] = t[j + 1]
      <4>1. k + 1 \in 1 .. a + b /\ k + 1 > a /\ (k + 1) - a = j + 1
        BY <2>2, <3>1
      <4> QED
        BY <1>0, <1>1, <4>1
    <3>3. t[j + 1] # <<>> /\ j + Size(t[j + 1][1]) \in Y
      BY <1>3, <3>1
    <3>4. t[j + 1][1] \in Msg
      <4>1. t[j + 1] \in Cell
        BY <1>0, <1>1, <3>1
      <4> QED
        BY <3>3, <4>1, CellIs
    <3>5. Size(t[j + 1][1]) \in Nat
      BY <3>4, SizeIs
    <3> DEFINE z == Size(t[j + 1][1])
    <3>6. a + (j + z) \in Z
      BY <3>3
    <3>7. a + (j + z) = k + z
      BY <2>2, <3>5
    <3> QED
      BY <3>2, <3>3, <3>6, <3>7
  <2>3. CASE k = a
    <3>1. 0 \in Y /\ k = a + 0
      BY <1>3, <2>3
    <3> QED
      BY <2>2, <3>1
  <2> QED
    BY <2>1, <2>2, <2>3
<1>6. Whole(s \o t, a + b)
  <2> HIDE DEF Z
  <2> QED
    BY <1>4, <1>5 DEF Whole
<1> QED
  BY <1>1, <1>6 DEF WholeCells

LEMMA AllAreWhole ==
  ASSUME NEW ss \in Seq(WholeCells)
  PROVE  FlattenSeq(ss) \in WholeCells
<1>1. <<>> \in WholeCells
  BY NoneIsWhole DEF WholeCells
<1>2. \A s, t \in WholeCells : s \o t \in WholeCells
  BY ConcatIsWhole
<1> QED
  BY <1>1, <1>2, Writes!FlattenSeqStaysIn, WritesFlattenSeq

\* A stream that is read from its start.
LEMMA ContentIsWhole ==
  ASSUME NEW s \in Stream
  PROVE  Content(SeekSet(s, 0)) \in WholeCells
<1> DEFINE d == SubSeq(s.mem, 1, s.len)
<1>1. /\ s.mem \in Seq(Cell) /\ s.len \in Nat /\ s.len <= Len(s.mem) /\ s.pos \in Nat
      /\ Whole(s.mem, s.len)
  BY DEF Stream, Memory, InBounds
<1>2. Content(SeekSet(s, 0)) = d
  BY <1>1 DEF Content, SeekSet, Stream, Memory
<1>3. d \in Seq(Cell) /\ Len(d) = s.len /\ \A i \in 1 .. s.len : d[i] = s.mem[i]
  BY <1>1
<1> HIDE DEF d
<1>4. Whole(d, s.len)
  BY <1>1, <1>3, WholeOfSame
<1> QED
  BY <1>2, <1>3, <1>4 DEF WholeCells

\* Seeking.
LEMMA SeekIs ==
  ASSUME NEW s \in Stream
  PROVE  /\ \A p \in Nat : SeekSet(s, p) \in Stream
         /\ SeekEnd(s) \in Stream /\ SeekReset(s) \in Stream
         /\ SeekReset(s).pos = 0 /\ SeekReset(s).len = 0
<1>1. /\ s.mem \in Seq(Cell) /\ s.buffer_len \in Nat /\ s.len \in Nat /\ s.pos \in Nat
      /\ s.pos <= s.len /\ s.len <= Len(s.mem) /\ s.buffer_len <= Len(s.mem)
      /\ Whole(s.mem, s.len) /\ s \in Memory
  BY DEF Stream, Memory, InBounds
<1>2. ASSUME NEW p \in Nat, p <= s.len PROVE [s EXCEPT !.pos = p] \in Stream
  BY <1>1, <1>2 DEF Stream, Memory, InBounds
<1>3. \A p \in Nat : SeekSet(s, p) \in Stream
  BY <1>1, <1>2 DEF SeekSet
<1>4. SeekEnd(s) \in Stream
  BY <1>1, <1>2 DEF SeekEnd
<1>5. SeekReset(s) \in Memory /\ SeekReset(s).pos = 0 /\ SeekReset(s).len = 0
      /\ SeekReset(s).mem = s.mem /\ SeekReset(s).buffer_len = s.buffer_len
  BY <1>1 DEF SeekReset, Memory
<1>6. SeekReset(s) \in Stream
  BY <1>1, <1>5, NoneIsWhole DEF Stream, InBounds
<1> QED
  BY <1>3, <1>4, <1>5, <1>6

\* A write into a stream that was reset: what it had is gone, and the memory has
\* room for what it was given, whatever realloc() did to it.
LEMMA WriteIs ==
  ASSUME NEW s \in Stream, s.pos = 0, s.len = 0, NEW data \in WholeCells
  PROVE  /\ Write(s, data) \in Stream
         /\ Write(s, data).pos = Len(data) /\ Write(s, data).len = Len(data)
         /\ \A i \in 1 .. Len(data) : Write(s, data).mem[i] = data[i]
<1> DEFINE end == s.pos + Len(data)
           mem == IF end > s.buffer_len THEN Resize(s.mem, end) ELSE s.mem
           mem1 == [i \in DOMAIN mem |->
                      IF i \in s.pos + 1 .. end THEN data[i - s.pos] ELSE mem[i]]
           out == [s EXCEPT !.mem = mem1, !.pos = end, !.len = IF end > s.len THEN end ELSE s.len]
<1>0. Write(s, data) = out
  BY DEF Write
<1>1. /\ s.mem \in Seq(Cell) /\ s.buffer_len \in Nat /\ s.buffer_len <= Len(s.mem)
      /\ s \in Memory
  BY DEF Stream, Memory, InBounds
<1>2. data \in Seq(Cell) /\ Len(data) \in Nat /\ Whole(data, Len(data)) /\ end = Len(data)
  BY DEF WholeCells
<1>3. mem \in Seq(Cell) /\ end <= Len(mem) /\ s.buffer_len <= Len(mem)
  <2>1. CASE end > s.buffer_len
    <3>1. mem = [i \in 1 .. end |-> IF i <= Len(s.mem) THEN s.mem[i] ELSE <<>>]
      BY <2>1 DEF Resize
    <3>2. \A i \in 1 .. end : (IF i <= Len(s.mem) THEN s.mem[i] ELSE <<>>) \in Cell
      BY <1>1, <1>2 DEF Cell
    <3> HIDE DEF mem, end
    <3>3. mem \in Seq(Cell) /\ Len(mem) = end
      BY <1>2, <3>1, <3>2
    <3> QED
      BY <1>1, <1>2, <2>1, <3>3
  <2>2. CASE ~(end > s.buffer_len)
    BY <1>1, <1>2, <2>2
  <2> QED
    BY <2>1, <2>2
<1> HIDE DEF mem
<1>4. mem1 \in Seq(Cell) /\ Len(mem1) = Len(mem) /\ \A i \in 1 .. Len(data) : mem1[i] = data[i]
  <2>1. DOMAIN mem = 1 .. Len(mem) /\ Len(mem) \in Nat
    BY <1>3
  <2>2. ASSUME NEW i \in DOMAIN mem
        PROVE  (IF i \in s.pos + 1 .. end THEN data[i - s.pos] ELSE mem[i]) \in Cell
    BY <1>2, <1>3, <2>1
  <2>3. mem1 \in Seq(Cell) /\ Len(mem1) = Len(mem)
    BY <2>1, <2>2
  <2>4. ASSUME NEW i \in 1 .. Len(data) PROVE mem1[i] = data[i]
    <3>1. i \in DOMAIN mem /\ i \in s.pos + 1 .. end /\ i - s.pos = i
      BY <1>2, <1>3, <2>1
    <3> QED
      BY <3>1
  <2> QED
    BY <2>3, <2>4
<1> HIDE DEF mem1
<1>5. Whole(mem1, Len(data))
  BY <1>2, <1>4, WholeOfSame
<1>6. out \in Memory /\ out.mem = mem1 /\ out.pos = Len(data) /\ out.len = Len(data)
      /\ out.buffer_len = s.buffer_len
  <2>1. (IF end > s.len THEN end ELSE s.len) = Len(data)
    BY <1>2
  <2>2. out = [s EXCEPT !.mem = mem1, !.pos = Len(data), !.len = Len(data)]
    BY <1>2, <2>1
  <2> HIDE DEF out
  <2> QED
    BY <1>1, <1>2, <1>4, <2>2 DEF Memory
<1> HIDE DEF out
<1>7. out \in Stream
  BY <1>2, <1>3, <1>4, <1>5, <1>6 DEF Stream, InBounds
<1> QED
  BY <1>0, <1>4, <1>6, <1>7

-----------------------------------------------------------------------------
(***************************************************************************)
(* Parsing a stream.  A recursive function has a value if there is a function *)
(* that satisfies its equation: here one that is made from the end of the  *)
(* stream backwards, and one of the least set closed under the equation.   *)
(***************************************************************************)

\* What the memory of a stream is known to be.
LEMMA StreamIs ==
  ASSUME NEW s \in Stream
  PROVE  /\ s.mem \in Seq(Cell) /\ s.buffer_len \in Nat /\ s.len \in Nat /\ s.pos \in Nat
         /\ s.pos <= s.len /\ s.len <= Len(s.mem) /\ s.buffer_len <= Len(s.mem)
         /\ Whole(s.mem, s.len)
         /\ \A i \in 1 .. s.len : s.mem[i] # <<>> =>
              s.mem[i][1] \in Msg /\ Size(s.mem[i][1]) \in Nat \ {0}
<1>1. /\ s.mem \in Seq(Cell) /\ s.buffer_len \in Nat /\ s.len \in Nat /\ s.pos \in Nat
      /\ s.pos <= s.len /\ s.len <= Len(s.mem) /\ s.buffer_len <= Len(s.mem)
      /\ Whole(s.mem, s.len)
  BY DEF Stream, Memory, InBounds
<1>2. ASSUME NEW i \in 1 .. s.len, s.mem[i] # <<>>
      PROVE  s.mem[i][1] \in Msg /\ Size(s.mem[i][1]) \in Nat \ {0}
  <2>1. s.mem[i] \in Cell
    BY <1>1
  <2>2. s.mem[i][1] \in Msg
    BY <1>2, <2>1, CellIs
  <2> QED
    BY <2>2, SizeIs
<1> QED
  BY <1>1, <1>2

\* The recursion of get_stream_from_buffer(), from the position lo on.
FromHere(f, i, s, ident) ==
  IF i >= s.len \/ s.mem[i + 1] = <<>> THEN <<>>
  ELSE LET m == s.mem[i + 1][1]
       IN (IF m.ident = ident THEN <<i + 1>> ELSE <<>>)
          \o (IF i + Size(m) <= s.len THEN f[i + Size(m)] ELSE <<>>)

From(f, lo, s, ident) == f = [i \in lo .. s.len |-> FromHere(f, i, s, ident)]

\* The messages behind position i.
Starts(s, ident, i) ==
  {j \in i + 1 .. s.len : s.mem[j] # <<>> /\ s.mem[j][1].ident = ident}

\* It reads on behind the message only.
LEMMA FromHereIs ==
  ASSUME NEW s \in Stream, NEW ident, NEW i \in 0 .. s.len, NEW f, NEW g,
         \A j \in i + 1 .. s.len : f[j] = g[j]
  PROVE  FromHere(f, i, s, ident) = FromHere(g, i, s, ident)
<1>1. CASE i >= s.len \/ s.mem[i + 1] = <<>>
  BY <1>1 DEF FromHere
<1>2. CASE ~(i >= s.len \/ s.mem[i + 1] = <<>>)
  <2> DEFINE m == s.mem[i + 1][1]
  <2>1. s.len \in Nat /\ i + 1 \in 1 .. s.len
    BY <1>2, StreamIs
  <2>2. Size(m) \in Nat \ {0}
    BY <1>2, <2>1, StreamIs
  <2>3. i + Size(m) <= s.len => f[i + Size(m)] = g[i + Size(m)]
    <3> HIDE DEF m
    <3> SUFFICES ASSUME i + Size(m) <= s.len PROVE i + Size(m) \in i + 1 .. s.len
      OBVIOUS
    <3> QED
      BY <2>1, <2>2
  <2> QED
    BY <1>2, <2>3 DEF FromHere
<1> QED
  BY <1>1, <1>2

LEMMA FromExists ==
  ASSUME NEW s \in Stream, NEW ident
  PROVE  \E f : From(f, 0, s, ident)
<1> DEFINE S == {k \in 0 .. s.len : \E f : From(f, s.len - k, s, ident)}
<1>0. s.len \in Nat
  BY StreamIs
<1>1. 0 \in S
  <2> DEFINE f == [i \in s.len .. s.len |-> <<>>]
  <2>1. \A i \in s.len .. s.len : FromHere(f, i, s, ident) = <<>>
    BY <1>0 DEF FromHere
  <2>2. s.len - 0 = s.len
    BY <1>0
  <2>3. From(f, s.len - 0, s, ident)
    BY <2>1, <2>2 DEF From
  <2> HIDE DEF f
  <2>4. \E g : From(g, s.len - 0, s, ident)
    BY <2>3
  <2> QED
    BY <1>0, <2>4
<1>2. ASSUME NEW k \in 0 .. s.len - 1, k \in S PROVE k + 1 \in S
  <2>1. PICK f : From(f, s.len - k, s, ident)
    BY <1>2
  <2> DEFINE lo == s.len - (k + 1)
             g == [i \in lo .. s.len |-> IF i = lo THEN FromHere(f, lo, s, ident) ELSE f[i]]
  <2>2. lo \in 0 .. s.len /\ lo + 1 = s.len - k /\ lo \in lo .. s.len
    BY <1>0
  <2> HIDE DEF lo
  <2>3. \A j \in lo + 1 .. s.len : f[j] = g[j]
    BY <1>0, <2>2
  <2>4. ASSUME NEW i \in lo .. s.len PROVE g[i] = FromHere(g, i, s, ident)
    <3>1. i \in 0 .. s.len /\ \A j \in i + 1 .. s.len : f[j] = g[j]
      <4> HIDE DEF g
      <4> QED
        BY <1>0, <2>2, <2>3
    <3>2. FromHere(f, i, s, ident) = FromHere(g, i, s, ident)
      <4> HIDE DEF g
      <4> QED
        BY <3>1, FromHereIs
    <3>3. g[i] = IF i = lo THEN FromHere(f, lo, s, ident) ELSE f[i]
      OBVIOUS
    <3>4. i # lo => f[i] = FromHere(f, i, s, ident)
      <4>1. i # lo => i \in s.len - k .. s.len
        BY <1>0, <2>2
      <4> QED
        BY <2>1, <4>1 DEF From
    <3> HIDE DEF g
    <3> QED
      BY <3>2, <3>3, <3>4
  <2>5. g = [i \in lo .. s.len |-> FromHere(g, i, s, ident)]
    <3>1. g = [i \in lo .. s.len |-> g[i]]
      OBVIOUS
    <3> HIDE DEF g
    <3> QED
      BY <2>4, <3>1
  <2> HIDE DEF g
  <2>6. From(g, s.len - (k + 1), s, ident)
    BY <2>5 DEF From, lo
  <2>7. k + 1 \in 0 .. s.len
    BY <1>0
  <2> QED
    BY <2>6, <2>7
<1>3. s.len \in S
  <2> HIDE DEF S
  <2>1. 0 .. s.len \subseteq S
    BY <1>0, <1>1, <1>2, Writes!UpTo
  <2> QED
    BY <1>0, <2>1
<1>4. s.len - s.len = 0
  BY <1>0
<1> QED
  BY <1>3, <1>4

\* get_stream_from_buffer() finds messages with the identifier that start behind
\* the position, inside the stream.
LEMMA MessagesType ==
  ASSUME NEW s \in Stream, NEW ident
  PROVE  Messages(s, ident) \in Seq(Starts(s, ident, s.pos))
<1> DEFINE f == CHOOSE f : From(f, 0, s, ident)
<1>1. From(f, 0, s, ident)
  BY FromExists
<1>2. Messages(s, ident) = f[s.pos]
  BY DEF Messages, From, FromHere
<1> HIDE DEF f
<1>3. s.len \in Nat /\ s.pos \in 0 .. s.len
  BY StreamIs
<1> DEFINE Good(i) == f[i] \in Seq(Starts(s, ident, i))
           Bad == {k \in 0 .. s.len : ~Good(s.len - k)}
<1>4. Bad = {}
  <2> SUFFICES ASSUME Bad # {} PROVE FALSE
    OBVIOUS
  <2>1. PICK k \in Bad : \A l \in Bad : k <= l
    <3>1. Bad \in SUBSET Nat
      BY <1>3
    <3> HIDE DEF Bad
    <3> QED
      BY <3>1, Writes!LeastOf
  <2> DEFINE i == s.len - k
  <2>2. k \in 0 .. s.len /\ ~Good(i) /\ i \in 0 .. s.len
    BY <1>3
  <2>3. f[i] = FromHere(f, i, s, ident)
    BY <1>1, <2>2 DEF From
  <2> HIDE DEF i
  <2>4. ~(i >= s.len) /\ s.mem[i + 1] # <<>>
    <3> SUFFICES ASSUME i >= s.len \/ s.mem[i + 1] = <<>> PROVE FALSE
      OBVIOUS
    <3>1. f[i] = <<>>
      BY <2>3 DEF FromHere
    <3> QED
      BY <2>2, <3>1
  <2> DEFINE m == s.mem[i + 1][1]
             one == IF m.ident = ident THEN <<i + 1>> ELSE <<>>
             rest == IF i + Size(m) <= s.len THEN f[i + Size(m)] ELSE <<>>
  <2>5. f[i] = one \o rest
    BY <2>3, <2>4 DEF FromHere
  <2>6. i + 1 \in 1 .. s.len
    BY <1>3, <2>2, <2>4
  <2>7. Size(m) \in Nat \ {0}
    BY <2>4, <2>6, StreamIs
  <2>8. one \in Seq(Starts(s, ident, i))
    <3>1. m.ident = ident => i + 1 \in Starts(s, ident, i)
      BY <1>3, <2>2, <2>4, <2>6 DEF Starts
    <3> QED
      BY <3>1
  <2> HIDE DEF one
  <2>9. rest \in Seq(Starts(s, ident, i))
    <3> DEFINE z == Size(m)
    <3>1. CASE i + z <= s.len
      <4>1. i + z \in 0 .. s.len /\ s.len - (i + z) \in 0 .. s.len /\ s.len - (i + z) < k
            /\ s.len - (s.len - (i + z)) = i + z
        <5>1. z \in Nat \ {0}
          BY <2>7
        <5> HIDE DEF z
        <5>2. i = s.len - k /\ k \in Nat /\ i \in Nat
          BY <1>3, <2>2 DEF i
        <5>3. i + z \in 0 .. s.len
          BY <1>3, <3>1, <5>1, <5>2
        <5> DEFINE p == i + z
        <5>4. p \in 0 .. s.len /\ p > i
          BY <5>1, <5>2, <5>3
        <5> HIDE DEF p
        <5>5. s.len - p \in 0 .. s.len /\ s.len - p < k /\ s.len - (s.len - p) = p
          BY <1>3, <5>2, <5>4
        <5> QED
          BY <5>3, <5>5 DEF p
      <4>2. ~(k <= s.len - (i + z))
        <5> HIDE DEF m
        <5> QED
          BY <1>3, <2>2, <4>1
      <4>3. Good(i + z)
        <5> HIDE DEF m, Good
        <5> QED
          BY <2>1, <4>1, <4>2
      <4>4. Starts(s, ident, i + z) \subseteq Starts(s, ident, i)
        <5>1. i + z + 1 .. s.len \subseteq i + 1 .. s.len
          <6> HIDE DEF m
          <6> QED
            BY <1>3, <2>2, <2>7
        <5> HIDE DEF z
        <5> QED
          BY <5>1 DEF Starts
      <4>5. f[i + z] \in Seq(Starts(s, ident, i))
        <5> HIDE DEF z
        <5> QED
          BY <4>3, <4>4
      <4> QED
        BY <3>1, <4>5
    <3>2. CASE ~(i + z <= s.len)
      BY <3>2
    <3> QED
      BY <3>1, <3>2
  <2> HIDE DEF rest
  <2>10. one \o rest \in Seq(Starts(s, ident, i))
    BY <2>8, <2>9
  <2> QED
    BY <2>2, <2>5, <2>10
<1>5. Good(s.pos)
  <2>1. s.len - s.pos \in 0 .. s.len /\ s.len - (s.len - s.pos) = s.pos
    BY <1>3
  <2> HIDE DEF Good
  <2> QED
    BY <1>4, <2>1
<1> QED
  BY <1>2, <1>5

\* Positions from which whole messages follow each other up to the end.
EndHere(f, i, s) ==
  i = s.len \/ (/\ s.mem[i + 1] # <<>>
                /\ i + Size(s.mem[i + 1][1]) <= s.len
                /\ f[i + Size(s.mem[i + 1][1])])

LEMMA EndExists ==
  ASSUME NEW s \in Stream
  PROVE  \E f : f = [i \in 0 .. s.len |-> EndHere(f, i, s)]
<1> DEFINE Next1(i) == i + Size(s.mem[i + 1][1])
           Closed(X) == \A i \in 0 .. s.len :
                          \/ i = s.len
                          \/ s.mem[i + 1] # <<>> /\ Next1(i) <= s.len /\ Next1(i) \in X
                          => i \in X
           L == {i \in 0 .. s.len : \A X \in SUBSET (0 .. s.len) : Closed(X) => i \in X}
           f == [i \in 0 .. s.len |-> i \in L]
<1>0. /\ s.len \in Nat
      /\ \A i \in 0 .. s.len : i # s.len /\ s.mem[i + 1] # <<>> => Next1(i) \in Nat /\ Next1(i) > i
  <2>1. s.len \in Nat
    BY StreamIs
  <2>2. ASSUME NEW i \in 0 .. s.len, i # s.len, s.mem[i + 1] # <<>>
        PROVE  Next1(i) \in Nat /\ Next1(i) > i
    <3>1. i + 1 \in 1 .. s.len
      BY <2>1, <2>2
    <3>2. Size(s.mem[i + 1][1]) \in Nat \ {0}
      BY <2>2, <3>1, StreamIs
    <3> QED
      BY <3>2
  <2> QED
    BY <2>1, <2>2
<1> HIDE DEF Next1
<1>1. ASSUME NEW i \in 0 .. s.len
      PROVE  i \in L <=> \/ i = s.len
                         \/ s.mem[i + 1] # <<>> /\ Next1(i) <= s.len /\ Next1(i) \in L
  <2>1. ASSUME \/ i = s.len
               \/ s.mem[i + 1] # <<>> /\ Next1(i) <= s.len /\ Next1(i) \in L
        PROVE  i \in L
    <3> SUFFICES ASSUME NEW X \in SUBSET (0 .. s.len), Closed(X) PROVE i \in X
      OBVIOUS
    <3> QED
      BY <2>1
  <2>2. ASSUME i \in L, i # s.len,
               ~(s.mem[i + 1] # <<>> /\ Next1(i) <= s.len /\ Next1(i) \in L)
        PROVE  FALSE
    <3> DEFINE X == L \ {i}
    <3>1. Closed(X)
      <4> SUFFICES ASSUME NEW j \in 0 .. s.len,
                          \/ j = s.len
                          \/ s.mem[j + 1] # <<>> /\ Next1(j) <= s.len /\ Next1(j) \in X
                   PROVE  j \in X
        OBVIOUS
      <4>1. j \in L
        <5> SUFFICES ASSUME NEW Y \in SUBSET (0 .. s.len), Closed(Y) PROVE j \in Y
          OBVIOUS
        <5> QED
          OBVIOUS
      <4>2. j # i
        BY <2>2
      <4> QED
        BY <4>1, <4>2
    <3>2. X \in SUBSET (0 .. s.len)
      OBVIOUS
    <3>3. i \in X
      <4> HIDE DEF X, Closed
      <4> QED
        BY <2>2, <3>1, <3>2
    <3> QED
      BY <3>3
  <2> QED
    BY <2>1, <2>2
<1> HIDE DEF L
<1>2. ASSUME NEW i \in 0 .. s.len PROVE f[i] = EndHere(f, i, s)
  <2>1. f[i] = (i \in L)
    OBVIOUS
  <2>2. CASE i = s.len
    BY <1>1, <2>1, <2>2 DEF EndHere
  <2>3. CASE i # s.len /\ s.mem[i + 1] # <<>> /\ Next1(i) <= s.len
    <3>1. Next1(i) \in 0 .. s.len
      BY <1>0, <2>3
    <3>2. f[Next1(i)] = (Next1(i) \in L)
      BY <3>1
    <3>3. (i \in L) <=> (Next1(i) \in L)
      BY <1>1, <2>3
    <3> HIDE DEF f
    <3>4. CASE Next1(i) \in L
      <4>1. f[i] = TRUE /\ f[Next1(i)] = TRUE
        BY <2>1, <3>2, <3>3, <3>4
      <4>2. EndHere(f, i, s) = TRUE
        BY <2>3, <4>1 DEF EndHere, Next1
      <4> QED
        BY <4>1, <4>2
    <3>5. CASE Next1(i) \notin L
      <4>0. (i \in L) = FALSE /\ (Next1(i) \in L) = FALSE
        BY <3>3, <3>5
      <4>1. f[i] = FALSE /\ f[Next1(i)] = FALSE
        BY <2>1, <3>2, <4>0, Zenon
      <4>2. EndHere(f, i, s) = FALSE
        BY <2>3, <4>1 DEF EndHere, Next1
      <4> QED
        BY <4>1, <4>2
    <3> QED
      BY <3>4, <3>5
  <2>4. CASE i # s.len /\ ~(s.mem[i + 1] # <<>> /\ Next1(i) <= s.len)
    <3>1. EndHere(f, i, s) = FALSE
      <4> HIDE DEF f
      <4> QED
        BY <2>4 DEF EndHere, Next1
    <3>2. i \notin L
      BY <1>1, <2>4
    <3> HIDE DEF f
    <3>3. (i \in L) = FALSE
      BY <3>2
    <3>4. f[i] = FALSE
      BY <2>1, <3>3, Zenon
    <3> QED
      BY <3>1, <3>4
  <2> QED
    BY <2>2, <2>3, <2>4
<1>3. f = [i \in 0 .. s.len |-> EndHere(f, i, s)]
  <2>1. f = [i \in 0 .. s.len |-> f[i]]
    OBVIOUS
  <2> HIDE DEF f
  <2> QED
    BY <1>2, <2>1
<1> HIDE DEF f
<1> QED
  BY <1>3

\* A stream of whole messages is what StreamSound says of it.
LEMMA StreamIsSound ==
  ASSUME NEW s \in Stream
  PROVE  LET end[i \in 0 .. s.len] ==
               i = s.len \/ (/\ s.mem[i + 1] # <<>>
                             /\ i + Size(s.mem[i + 1][1]) <= s.len
                             /\ end[i + Size(s.mem[i + 1][1])])
         IN end[0]
<1> DEFINE f == CHOOSE f : f = [i \in 0 .. s.len |-> EndHere(f, i, s)]
<1>1. f = [i \in 0 .. s.len |-> EndHere(f, i, s)]
  BY EndExists
<1> SUFFICES f[0]
  BY DEF EndHere
<1> HIDE DEF f
<1>2. PICK X \in SUBSET (0 .. s.len) :
        /\ 0 \in X
        /\ \A j \in X : j = s.len \/ (s.mem[j + 1] # <<>> /\ j + Size(s.mem[j + 1][1]) \in X)
  BY StreamIs DEF Whole
<1>3. s.len \in Nat
  BY StreamIs
<1> DEFINE Bad == {s.len - j : j \in {j \in X : ~f[j]}}
<1>4. Bad = {}
  <2> SUFFICES ASSUME Bad # {} PROVE FALSE
    OBVIOUS
  <2>1. PICK k \in Bad : \A l \in Bad : k <= l
    <3>1. Bad \in SUBSET Nat
      BY <1>2, <1>3
    <3> HIDE DEF Bad
    <3> QED
      BY <3>1, Writes!LeastOf
  <2>2. PICK j \in X : k = s.len - j /\ ~f[j]
    BY <2>1
  <2>3. j \in 0 .. s.len /\ f[j] = EndHere(f, j, s)
    BY <1>1, <1>2, <2>2
  <2>4. j # s.len
    BY <2>2, <2>3 DEF EndHere
  <2> DEFINE z == Size(s.mem[j + 1][1])
  <2>5. s.mem[j + 1] # <<>> /\ j + z \in X
    BY <1>2, <2>2, <2>4
  <2>6. z \in Nat \ {0}
    <3>1. j + 1 \in 1 .. s.len
      BY <1>3, <2>3, <2>4
    <3> QED
      BY <2>5, <3>1, StreamIs
  <2>7. j + z <= s.len /\ ~f[j + z]
    <3>1. j + z \in 0 .. s.len
      BY <1>2, <2>5
    <3>2. j + z <= s.len
      <4> HIDE DEF z
      <4> QED
        BY <1>3, <3>1
    <3> QED
      BY <2>2, <2>3, <2>5, <3>2 DEF EndHere
  <2> HIDE DEF z
  <2>8. s.len - (j + z) \in Bad
    BY <2>5, <2>7
  <2>9. ~(k <= s.len - (j + z))
    BY <1>3, <2>2, <2>3, <2>6
  <2> HIDE DEF Bad
  <2> QED
    BY <2>1, <2>8, <2>9
<1>5. s.len - 0 \notin Bad
  BY <1>4
<1> QED
  BY <1>2, <1>5

-----------------------------------------------------------------------------
(***************************************************************************)
(* What a reader has still to return.                                      *)
(***************************************************************************)

Reader == [msg : Nat, idx : Nat, len : Nat]

\* The elements idx + 1 .. len of a vector.
ElementSet(s, msg, idx, len) ==
  {[pdu |-> PduAt(s, msg, i), msg |-> msg, idx |-> i] : i \in idx + 1 .. len}

\* The elements of the messages to come.
Ahead(s, ident) ==
  UNION {ElementSet(s, m, 0, Len(s.mem[m][1].vector)) : m \in Starts(s, ident, s.pos)}

LEMMA ElementsType ==
  ASSUME NEW s, NEW msg, NEW idx \in Nat, NEW len \in Nat
  PROVE  Elements(s, msg, idx, len) \in Seq(ElementSet(s, msg, idx, len))
<1> DEFINE elem(i) == [pdu |-> PduAt(s, msg, i), msg |-> msg, idx |-> i]
           E == ElementSet(s, msg, idx, len)
<1>1. \A i \in idx + 1 .. len : elem(i) \in E
  BY DEF ElementSet
<1>2. Elements(s, msg, idx, len) = [j \in 1 .. len - idx |-> elem(idx + j)]
  BY DEF Elements
<1> HIDE DEF elem, E
<1>3. CASE idx <= len
  <2>1. \A j \in 1 .. len - idx : idx + j \in idx + 1 .. len
    BY <1>3
  <2>2. len - idx \in Nat
    BY <1>3
  <2>3. Elements(s, msg, idx, len) \in Seq(E)
    BY <1>1, <1>2, <2>1, <2>2
  <2> QED
    BY <2>3 DEF E
<1>4. CASE ~(idx <= len)
  <2>1. 1 .. len - idx = {}
    BY <1>4
  <2>2. Elements(s, msg, idx, len) = <<>>
    BY <1>2, <2>1
  <2> QED
    BY <2>2
<1> QED
  BY <1>3, <1>4

LEMMA UnreadType ==
  ASSUME NEW s \in Stream, NEW r \in Reader, NEW ident
  PROVE  Unread(s, r, ident) \in Seq(ElementSet(s, r.msg, r.idx, r.len) \union Ahead(s, ident))
<1> DEFINE start == Messages(s, ident)
           of(m) == Elements(s, m, 0, Len(s.mem[m][1].vector))
           later == [j \in DOMAIN start |-> of(start[j])]
           H == ElementSet(s, r.msg, r.idx, r.len)
           A == Ahead(s, ident)
           M == Starts(s, ident, s.pos)
<1>1. start \in Seq(M)
  BY MessagesType
<1>2. ASSUME NEW m \in M PROVE of(m) \in Seq(A)
  <2>1. m \in s.pos + 1 .. s.len /\ s.mem[m] # <<>>
    BY <1>2 DEF Starts
  <2>2. s.mem[m][1] \in Msg
    BY <2>1, StreamIs
  <2>3. Len(s.mem[m][1].vector) \in Nat
    BY <2>2 DEF Msg
  <2>4. of(m) \in Seq(ElementSet(s, m, 0, Len(s.mem[m][1].vector)))
    BY <2>3, ElementsType
  <2>5. ElementSet(s, m, 0, Len(s.mem[m][1].vector)) \subseteq A
    BY DEF Ahead
  <2> QED
    BY <2>4, <2>5
<1>3. Unread(s, r, ident) = Elements(s, r.msg, r.idx, r.len) \o FlattenSeq(later)
  BY DEF Unread
<1> HIDE DEF start, of, A, M
<1>4. later \in Seq(Seq(A))
  <2>1. DOMAIN start = 1 .. Len(start) /\ Len(start) \in Nat
    BY <1>1
  <2>2. \A j \in 1 .. Len(start) : of(start[j]) \in Seq(A)
    BY <1>1, <1>2
  <2> QED
    BY <2>1, <2>2
<1> HIDE DEF later
<1>5. FlattenSeq(later) \in Seq(A)
  BY <1>4, Writes!FlattenSeqType, WritesFlattenSeq
<1>6. Elements(s, r.msg, r.idx, r.len) \in Seq(H)
  BY ElementsType DEF Reader
<1> HIDE DEF H
<1>7. Elements(s, r.msg, r.idx, r.len) \o FlattenSeq(later) \in Seq(H \union A)
  BY <1>5, <1>6
<1> QED
  BY <1>3, <1>7 DEF A, H

\* The reader holds a vector of the stream, or is at rest.
Holds(s, r) ==
  \/ r = NoReader
  \/ /\ r.msg \in 1 .. s.pos /\ s.mem[r.msg] # <<>>
     /\ r.len = Len(s.mem[r.msg][1].vector) /\ r.idx \in 1 .. r.len

\* After an element was returned.
LEMMA AtElement ==
  ASSUME NEW s \in Stream, NEW r \in Reader, NEW ident,
         NEW u \in ElementSet(s, r.msg, r.idx, r.len) \union Ahead(s, ident)
  PROVE  /\ StreamAt(s, r, u) \in Stream /\ ReaderAt(s, r, u) \in Reader
         /\ Holds(s, r) => /\ u.pdu \in PduType
                           /\ Holds(StreamAt(s, r, u), ReaderAt(s, r, u))
<1>0. /\ s.mem \in Seq(Cell) /\ s.len \in Nat /\ s.pos \in Nat
      /\ s.pos <= s.len /\ s.len <= Len(s.mem)
  BY StreamIs
<1>1. CASE u \in ElementSet(s, r.msg, r.idx, r.len)
  <2>1. PICK i \in r.idx + 1 .. r.len : u = [pdu |-> PduAt(s, r.msg, i), msg |-> r.msg, idx |-> i]
    BY <1>1 DEF ElementSet
  <2>2. r.idx \in Nat /\ r.len \in Nat /\ r.msg \in Nat /\ i \in Nat
    BY <2>1 DEF Reader
  <2>3. StreamAt(s, r, u) = s /\ ReaderAt(s, r, u) = [msg |-> r.msg, idx |-> i, len |-> r.len]
    BY <2>1 DEF StreamAt, ReaderAt
  <2>4. ASSUME Holds(s, r)
        PROVE  u.pdu \in PduType /\ Holds(s, ReaderAt(s, r, u))
    <3>1. r # NoReader
      BY <2>1, <2>2 DEF NoReader
    <3>2. /\ r.msg \in 1 .. s.pos /\ s.mem[r.msg] # <<>>
          /\ r.len = Len(s.mem[r.msg][1].vector)
      BY <2>4, <3>1 DEF Holds
    <3>3. i \in 1 .. r.len
      BY <2>1, <2>2
    <3>4. Holds(s, ReaderAt(s, r, u))
      BY <2>3, <3>2, <3>3 DEF Holds
    <3>5. s.mem[r.msg][1].vector \in Seq(PduType)
      <4>1. r.msg \in 1 .. s.len
        BY <1>0, <3>2
      <4> QED
        BY <3>2, <4>1, StreamIs DEF Msg
    <3>6. PduAt(s, r.msg, i) = s.mem[r.msg][1].vector[i]
      BY <3>2, <3>3 DEF PduAt
    <3> QED
      BY <2>1, <3>2, <3>3, <3>4, <3>5, <3>6
  <2> QED
    BY <2>2, <2>3, <2>4 DEF Reader
<1>2. CASE u \in Ahead(s, ident)
  <2>1. PICK m \in Starts(s, ident, s.pos) : u \in ElementSet(s, m, 0, Len(s.mem[m][1].vector))
    BY <1>2 DEF Ahead
  <2> DEFINE v == s.mem[m][1].vector
  <2>2. PICK i \in 0 + 1 .. Len(v) : u = [pdu |-> PduAt(s, m, i), msg |-> m, idx |-> i]
    BY <2>1 DEF ElementSet
  <2>3. m \in s.pos + 1 .. s.len /\ s.mem[m] # <<>>
    BY <2>1 DEF Starts
  <2>4. m \in 1 .. s.len /\ s.mem[m][1] \in Msg /\ Size(s.mem[m][1]) \in Nat \ {0}
    <3>1. m \in 1 .. s.len
      BY <1>0, <2>3
    <3> QED
      BY <2>3, <3>1, StreamIs
  <2>5. v \in Seq(PduType) /\ Len(v) \in Nat /\ i \in 1 .. Len(v)
    BY <2>2, <2>4 DEF Msg
  <2>6. u.pdu \in PduType
    <3>1. PduAt(s, m, i) = v[i]
      BY <2>3, <2>5 DEF PduAt
    <3> QED
      BY <2>2, <2>5, <3>1
  <2>7. u.msg = m /\ u.idx = i
    BY <2>2
  <2> DEFINE z == Size(s.mem[m][1])
             p == (m - 1) + z
  <2>8. p \in Nat /\ m <= p
    <3> HIDE DEF z
    <3>1. z \in Nat \ {0}
      BY <2>4 DEF z
    <3> QED
      BY <2>4, <3>1
  <2>9. CASE m = r.msg
    <3>1. StreamAt(s, r, u) = s /\ ReaderAt(s, r, u) = [msg |-> m, idx |-> i, len |-> r.len]
      BY <2>7, <2>9 DEF StreamAt, ReaderAt
    <3>2. ~Holds(s, r)
      <4>1. m # 0 /\ ~(m \in 1 .. s.pos)
        BY <1>0, <2>3
      <4> QED
        BY <2>9, <4>1 DEF Holds, NoReader
    <3>3. ReaderAt(s, r, u) \in Reader
      BY <2>4, <2>5, <3>1 DEF Reader
    <3> QED
      BY <3>1, <3>2, <3>3
  <2>10. CASE m # r.msg
    <3>1. StreamAt(s, r, u) = SeekSet(s, p) /\ ReaderAt(s, r, u) = [msg |-> m, idx |-> i, len |-> Len(v)]
      BY <2>7, <2>10 DEF StreamAt, ReaderAt
    <3> HIDE DEF p, v
    <3>2. SeekSet(s, p) \in Stream
      BY <2>8, SeekIs
    <3>3. SeekSet(s, p).mem = s.mem /\ SeekSet(s, p).pos = (IF p > s.len THEN s.len ELSE p)
      <4>1. s \in Memory
        BY DEF Stream
      <4> QED
        BY <4>1 DEF SeekSet, Memory
    <3>4. m \in 1 .. SeekSet(s, p).pos
      BY <1>0, <2>4, <2>8, <3>3
    <3>5. Holds(SeekSet(s, p), [msg |-> m, idx |-> i, len |-> Len(v)])
      BY <2>3, <2>5, <3>3, <3>4 DEF Holds, v
    <3>6. [msg |-> m, idx |-> i, len |-> Len(v)] \in Reader
      BY <2>4, <2>5 DEF Reader
    <3> QED
      BY <2>6, <3>1, <3>2, <3>5, <3>6
  <2> QED
    BY <2>9, <2>10
<1> QED
  BY <1>1, <1>2

-----------------------------------------------------------------------------
(***************************************************************************)
(* The operations of an instance.                                          *)
(***************************************************************************)

Bus == [stream : Stream, builder : {<<>>}, write_time : Nat]

Stage == [ncodec_consumed : BOOLEAN, model_produced : BOOLEAN, model_consumed : BOOLEAN]

Codec ==
  [stream : Stream, builder : Cell, reader : Reader, stage : Stage, time : Nat,
   write_time : Nat, held : Seq(PduType), bus : Bus]

IsSetting(k) == k.type \in {"pdu", "frame"} /\ k.id \in Nat

LEMMA WritesIsFold ==
  ASSUME NEW b, NEW ws
  PROVE  Writes!Fold(b, ws) = FoldLeft(WriteNext, b, ws)
BY DEF Writes!Fold, Writes!FoldLeft, FoldLeft, Writes!MapThenFoldSet, MapThenFoldSet,
       Writes!Max, Max

\* A message that a PDU is added to is a message.
LEMMA WriteMsgType ==
  ASSUME NEW k, IsSetting(k), NEW b, b.builder \in Cell, b.write_time \in Nat, NEW p \in PduType
  PROVE  \E m \in Msg : WriteMsg(k, b, p) = [b EXCEPT !.builder = <<m>>]
<1> DEFINE stamp == IF k.type = "pdu" THEN b.write_time ELSE 0
           m0 == IF b.builder = <<>>
                 THEN [ident |-> Identifier(k.type), time |-> stamp, vector |-> <<>>]
                 ELSE b.builder[1]
           m1 == [m0 EXCEPT !.vector = Append(m0.vector, Written(k, p))]
<1>1. WriteMsg(k, b, p) = [b EXCEPT !.builder = <<m1>>]
  BY DEF WriteMsg
<1>2. m0 \in Msg
  <2>1. CASE b.builder = <<>>
    <3>0. Identifier(k.type) \in {"SPDU", "SFRA"} /\ stamp \in Nat /\ <<>> \in Seq(PduType)
      BY DEF Identifier
    <3>1. [ident |-> Identifier(k.type), time |-> stamp, vector |-> <<>>] \in Msg
      BY <3>0 DEF Msg
    <3> QED
      BY <2>1, <3>1
  <2>2. CASE b.builder # <<>>
    BY <2>2, CellIs
  <2> QED
    BY <2>1, <2>2
<1>3. Written(k, p) \in PduType
  <2>1. (IF k.type = "pdu" /\ p.sender # 0 THEN p.sender ELSE k.id) \in Nat
    BY DEF PduType, IsSetting
  <2> QED
    BY <2>1 DEF Written, PduType
<1> HIDE DEF m0
<1>4. m1 \in Msg
  <2>1. Append(m0.vector, Written(k, p)) \in Seq(PduType)
    BY <1>2, <1>3 DEF Msg
  <2> QED
    BY <1>2, <2>1 DEF Msg
<1> HIDE DEF m1
<1> QED
  BY <1>1, <1>4

LEMMA ProgressType ==
  ASSUME NEW k, IsSetting(k), NEW t, NEW w \in Nat, NEW held \in Seq(PduType)
  PROVE  \E x \in Cell :
           Progress(k, [stream |-> t, builder |-> <<>>, write_time |-> w], held)
             = [stream |-> t, builder |-> x, write_time |-> w]
<1> DEFINE S == {[stream |-> t, builder |-> x, write_time |-> w] : x \in Cell}
           T == [by : {k}, pdu : PduType]
           base == [stream |-> t, builder |-> <<>>, write_time |-> w]
           ws == [j \in DOMAIN held |-> [by |-> k, pdu |-> held[j]]]
<1>1. base \in S
  BY DEF Cell
<1>2. ws \in Seq(T)
  <2>1. DOMAIN held = 1 .. Len(held) /\ Len(held) \in Nat
    OBVIOUS
  <2>2. \A j \in 1 .. Len(held) : [by |-> k, pdu |-> held[j]] \in T
    OBVIOUS
  <2> HIDE DEF T
  <2> QED
    BY <2>1, <2>2
<1>3. ASSUME NEW b \in S, NEW x \in T PROVE WriteNext(b, x) \in S
  <2>1. PICK c \in Cell : b = [stream |-> t, builder |-> c, write_time |-> w]
    OBVIOUS
  <2>2. b.builder \in Cell /\ b.write_time \in Nat /\ x.pdu \in PduType /\ x.by = k
    BY <2>1
  <2>3. PICK m \in Msg : WriteMsg(k, b, x.pdu) = [b EXCEPT !.builder = <<m>>]
    BY <2>2, WriteMsgType
  <2>4. WriteNext(b, x) = [stream |-> t, builder |-> <<m>>, write_time |-> w]
    BY <2>1, <2>2, <2>3 DEF WriteNext
  <2>5. <<m>> \in Cell
    BY DEF Cell
  <2> QED
    BY <2>4, <2>5
<1>4. Writes!Fold(base, ws) \in S
  <2> HIDE DEF S, T, base, ws
  <2> QED
    BY <1>1, <1>2, <1>3, Writes!FoldStaysIn
<1>5. Progress(k, base, held) = Writes!Fold(base, ws)
  BY WritesIsFold DEF Progress
<1> QED
  BY <1>4, <1>5

\* A flush into a stream that was reset.
LEMMA FlushedType ==
  ASSUME NEW b, b.builder \in Cell, b.stream \in Stream, b.stream.pos = 0, b.stream.len = 0
  PROVE  \/ Flushed(b) = b /\ b.builder = <<>>
         \/ \E t \in Stream : Flushed(b) = [b EXCEPT !.stream = t, !.builder = <<>>]
<1>1. CASE b.builder = <<>>
  BY <1>1 DEF Flushed
<1>2. CASE b.builder # <<>>
  <2>1. b.builder[1] \in Msg
    BY <1>2, CellIs
  <2>2. Write(b.stream, Encode(b.builder[1])) \in Stream
    BY <2>1, EncodedIsWhole, WriteIs
  <2> QED
    BY <1>2, <2>2 DEF Flushed
<1> QED
  BY <1>1, <1>2

\* The vector of a codec that reads is one of the stream, and when that was
\* consumed one of the bus model's.
Fits(c) == Holds(IF c.stage.ncodec_consumed THEN c.bus.stream ELSE c.stream, c.reader)

Got == {<<>>} \union {<<p>> : p \in PduType}

LEMMA ReadFrameType ==
  ASSUME NEW k, NEW c \in Codec
  PROVE  /\ ReadFrame(k, c).c \in Codec /\ ReadFrame(k, c).c.stage = c.stage
         /\ ~c.stage.ncodec_consumed /\ Fits(c) =>
              Fits(ReadFrame(k, c).c) /\ ReadFrame(k, c).got \in Got
<1> DEFINE unread == Unread(c.stream, c.reader, Identifier("frame"))
           I == {j \in 1 .. Len(unread) : ~Filtered(k, unread[j].pdu)}
           i == SelectInSeq(unread, LAMBDA u : ~Filtered(k, u.pdu))
           E == ElementSet(c.stream, c.reader.msg, c.reader.idx, c.reader.len)
                  \union Ahead(c.stream, Identifier("frame"))
<1>1. ReadFrame(k, c) =
        IF i = 0
        THEN [got |-> <<>>,
              c |-> [c EXCEPT !.reader = NoReader, !.stream = SeekEnd(c.stream)]]
        ELSE [got |-> <<unread[i].pdu>>,
              c |-> [c EXCEPT !.reader = ReaderAt(c.stream, c.reader, unread[i]),
                              !.stream = StreamAt(c.stream, c.reader, unread[i])]]
  BY DEF ReadFrame
<1>2. c.stream \in Stream /\ c.reader \in Reader
  BY DEF Codec
<1>3. unread \in Seq(E)
  BY <1>2, UnreadType
<1>4. i = (IF I # {} THEN Min(I) ELSE 0)
  BY DEF SelectInSeq
<1> HIDE DEF unread, E, i
<1>5. CASE i = 0
  <2>1. /\ ReadFrame(k, c).c = [c EXCEPT !.reader = NoReader, !.stream = SeekEnd(c.stream)]
        /\ ReadFrame(k, c).got = <<>>
    BY <1>1, <1>5
  <2>2. SeekEnd(c.stream) \in Stream /\ NoReader \in Reader
    BY <1>2, SeekIs DEF NoReader, Reader
  <2> QED
    BY <2>1, <2>2 DEF Codec, Fits, Holds, Got
<1>6. CASE i # 0
  <2>1. i \in I
    <3>1. I \in SUBSET Nat /\ I # {}
      BY <1>4, <1>6
    <3> HIDE DEF I
    <3> QED
      BY <1>4, <3>1, Writes!LeastOf DEF Min
  <2> DEFINE u == unread[i]
             s1 == StreamAt(c.stream, c.reader, u)
             r1 == ReaderAt(c.stream, c.reader, u)
  <2>2. u \in E
    BY <1>3, <2>1
  <2>3. /\ ReadFrame(k, c).c = [c EXCEPT !.reader = r1, !.stream = s1]
        /\ ReadFrame(k, c).got = <<u.pdu>>
    BY <1>1, <1>6
  <2> HIDE DEF u
  <2>4. /\ s1 \in Stream /\ r1 \in Reader
        /\ Holds(c.stream, c.reader) => u.pdu \in PduType /\ Holds(s1, r1)
    BY <1>2, <2>2, AtElement DEF E
  <2> HIDE DEF s1, r1
  <2>5. ReadFrame(k, c).c \in Codec /\ ReadFrame(k, c).c.stage = c.stage
        /\ ReadFrame(k, c).c.stream = s1 /\ ReadFrame(k, c).c.reader = r1
    BY <2>3, <2>4 DEF Codec
  <2> QED
    BY <2>3, <2>4, <2>5 DEF Fits, Got
<1> QED
  BY <1>5, <1>6

LEMMA NCodecStageType ==
  ASSUME NEW k, NEW c \in Codec, Fits(c), ~c.stage.ncodec_consumed
  PROVE  /\ NCodecStage(k, c).c \in Codec /\ NCodecStage(k, c).got \in Got
         /\ NCodecStage(k, c).c.stage.model_produced = c.stage.model_produced
         /\ NCodecStage(k, c).got # <<>> =>
              Fits(NCodecStage(k, c).c) /\ NCodecStage(k, c).c.stage = c.stage
         /\ NCodecStage(k, c).got = <<>> =>
              /\ NCodecStage(k, c).c.reader = NoReader
              /\ NCodecStage(k, c).c.stage.ncodec_consumed
<1> DEFINE unread == Unread(c.stream, c.reader, Identifier("pdu"))
           I == {j \in 1 .. Len(unread) : ~Consumes(k, unread[j].pdu) /\ ~Filtered(k, unread[j].pdu)}
           i == SelectInSeq(unread, LAMBDA u : ~Consumes(k, u.pdu) /\ ~Filtered(k, u.pdu))
           seen == IF i = 0 THEN unread ELSE SubSeq(unread, 1, i)
           parts == [j \in DOMAIN seen |->
                       IF Consumes(k, seen[j].pdu) THEN <<seen[j].pdu>> ELSE <<>>]
           held == c.held \o FlattenSeq(parts)
           E == ElementSet(c.stream, c.reader.msg, c.reader.idx, c.reader.len)
                  \union Ahead(c.stream, Identifier("pdu"))
<1>1. NCodecStage(k, c) =
        IF i = 0
        THEN [got |-> <<>>,
              c |-> [c EXCEPT !.reader = NoReader, !.stream = SeekSet(c.stream, 0),
                              !.stage.ncodec_consumed = TRUE, !.held = held]]
        ELSE [got |-> <<unread[i].pdu>>,
              c |-> [c EXCEPT !.reader = ReaderAt(c.stream, c.reader, unread[i]),
                              !.stream = StreamAt(c.stream, c.reader, unread[i]),
                              !.held = held]]
  BY DEF NCodecStage
<1>2. /\ c.stream \in Stream /\ c.reader \in Reader /\ c.held \in Seq(PduType) /\ c.stage \in Stage
      /\ Holds(c.stream, c.reader)
  BY DEF Codec, Fits
<1>3. unread \in Seq(E)
  BY <1>2, UnreadType
<1>4. i = (IF I # {} THEN Min(I) ELSE 0)
  BY DEF SelectInSeq
<1>5. \A u \in E : /\ u.pdu \in PduType
                   /\ StreamAt(c.stream, c.reader, u) \in Stream
                   /\ ReaderAt(c.stream, c.reader, u) \in Reader
                   /\ Holds(StreamAt(c.stream, c.reader, u), ReaderAt(c.stream, c.reader, u))
  BY <1>2, AtElement
<1> HIDE DEF unread, E, i
<1>6. i # 0 => i \in I
  <2> SUFFICES ASSUME i # 0 PROVE i \in I
    OBVIOUS
  <2>1. I \in SUBSET Nat /\ I # {}
    BY <1>4
  <2> HIDE DEF I
  <2> QED
    BY <1>4, <2>1, Writes!LeastOf DEF Min
<1>7. seen \in Seq(E)
  <2>1. CASE i = 0
    BY <1>3, <2>1
  <2>2. CASE i # 0
    <3>1. i \in 1 .. Len(unread)
      BY <1>6, <2>2
    <3>2. SubSeq(unread, 1, i) \in Seq(E)
      BY <1>3, <3>1
    <3> QED
      BY <2>2, <3>2
  <2> QED
    BY <2>1, <2>2
<1> HIDE DEF seen
<1>8. parts \in Seq(Seq(PduType))
  <2>1. DOMAIN seen = 1 .. Len(seen) /\ Len(seen) \in Nat
    BY <1>7
  <2>2. ASSUME NEW j \in 1 .. Len(seen)
        PROVE  (IF Consumes(k, seen[j].pdu) THEN <<seen[j].pdu>> ELSE <<>>) \in Seq(PduType)
    <3>1. seen[j].pdu \in PduType
      BY <1>5, <1>7, <2>2
    <3> QED
      BY <3>1
  <2> QED
    BY <2>1, <2>2
<1> HIDE DEF parts
<1>9. held \in Seq(PduType)
  <2>1. FlattenSeq(parts) \in Seq(PduType)
    BY <1>8, Writes!FlattenSeqType, WritesFlattenSeq
  <2>2. c.held \in Seq(PduType)
    BY <1>2
  <2> QED
    BY <2>1, <2>2
<1> HIDE DEF held
<1>10. CASE i = 0
  <2> DEFINE d == [c EXCEPT !.reader = NoReader, !.stream = SeekSet(c.stream, 0),
                            !.stage.ncodec_consumed = TRUE, !.held = held]
             t == SeekSet(c.stream, 0)
  <2>1. NCodecStage(k, c).c = d /\ NCodecStage(k, c).got = <<>>
    BY <1>1, <1>10
  <2>2. t \in Stream /\ NoReader \in Reader
    BY <1>2, SeekIs DEF NoReader, Reader
  <2> HIDE DEF t
  <2>3. [c.stage EXCEPT !.ncodec_consumed = TRUE] \in Stage
    BY <1>2 DEF Stage
  <2>4. d = [c EXCEPT !.reader = NoReader, !.stream = t,
                      !.stage = [c.stage EXCEPT !.ncodec_consumed = TRUE], !.held = held]
    BY DEF t, Codec
  <2> HIDE DEF d
  <2>5. d \in Codec /\ d.reader = NoReader /\ d.stage = [c.stage EXCEPT !.ncodec_consumed = TRUE]
    BY <1>9, <2>2, <2>3, <2>4 DEF Codec
  <2>6. d.stage.ncodec_consumed /\ d.stage.model_produced = c.stage.model_produced
    BY <1>2, <2>5 DEF Stage
  <2> QED
    BY <2>1, <2>5, <2>6 DEF Got
<1>11. CASE i # 0
  <2> DEFINE u == unread[i]
             s1 == StreamAt(c.stream, c.reader, u)
             r1 == ReaderAt(c.stream, c.reader, u)
             d == [c EXCEPT !.reader = r1, !.stream = s1, !.held = held]
  <2>1. u \in E
    BY <1>3, <1>6, <1>11
  <2>2. NCodecStage(k, c).c = d /\ NCodecStage(k, c).got = <<u.pdu>>
    BY <1>1, <1>11
  <2> HIDE DEF u
  <2>3. u.pdu \in PduType /\ s1 \in Stream /\ r1 \in Reader /\ Holds(s1, r1)
    BY <1>5, <2>1
  <2> HIDE DEF s1, r1
  <2>4. d \in Codec /\ d.stage = c.stage /\ d.stream = s1 /\ d.reader = r1
    BY <1>9, <2>3 DEF Codec
  <2> HIDE DEF d
  <2>5. Fits(d)
    BY <2>3, <2>4 DEF Fits
  <2> QED
    BY <2>2, <2>3, <2>4, <2>5 DEF Got
<1> QED
  BY <1>10, <1>11

LEMMA BusModelStageType ==
  ASSUME NEW k, IsSetting(k), NEW c \in Codec
  PROVE  /\ BusModelStage(k, c) \in Codec /\ BusModelStage(k, c).reader = c.reader
         /\ BusModelStage(k, c).stage.ncodec_consumed = c.stage.ncodec_consumed
         /\ BusModelStage(k, c).stage.model_produced
<1> DEFINE t == SeekReset(c.bus.stream)
           w == c.bus.write_time
           bus == [c.bus EXCEPT !.stream = t, !.builder = <<>>]
           base == [stream |-> t, builder |-> <<>>, write_time |-> w]
           out == Flushed(Progress(k, bus, c.held))
           produced == [c EXCEPT !.stage = [c.stage EXCEPT !.model_produced = TRUE]]
<1>1. BusModelStage(k, c) =
        IF k.model THEN [produced EXCEPT !.held = <<>>,
                                         !.bus = [out EXCEPT !.stream = SeekSet(out.stream, 0)]]
        ELSE produced
  <2>1. [c EXCEPT !.stage.model_produced = TRUE] = produced
    BY DEF Codec
  <2> QED
    BY <2>1 DEF BusModelStage
<1>2. /\ c.bus \in Bus /\ c.bus.stream \in Stream /\ w \in Nat /\ c.stage \in Stage
      /\ c.held \in Seq(PduType)
  BY DEF Codec, Bus
<1>3. t \in Stream /\ t.pos = 0 /\ t.len = 0
  BY <1>2, SeekIs
<1>4. bus = base
  <2>1. PICK v \in Stream, w1 \in Nat : c.bus = [stream |-> v, builder |-> <<>>, write_time |-> w1]
    BY <1>2 DEF Bus
  <2>2. w = w1
    BY <2>1
  <2> HIDE DEF t, w
  <2>3. /\ DOMAIN bus = {"stream", "builder", "write_time"}
        /\ bus.stream = t /\ bus.builder = <<>> /\ bus.write_time = w1
    BY <2>1
  <2>4. bus = [f \in {"stream", "builder", "write_time"} |-> bus[f]]
    BY <2>1
  <2>5. base = [f \in {"stream", "builder", "write_time"} |-> base[f]]
    OBVIOUS
  <2>6. base.stream = t /\ base.builder = <<>> /\ base.write_time = w1
    BY <2>2
  <2> HIDE DEF bus, base
  <2> QED
    BY <2>3, <2>4, <2>5, <2>6
<1>5. PICK x \in Cell : Progress(k, base, c.held) = [stream |-> t, builder |-> x, write_time |-> w]
  BY <1>2, ProgressType
<1>6. out = Flushed([stream |-> t, builder |-> x, write_time |-> w])
  BY <1>4, <1>5
<1> HIDE DEF t, w, out
<1>7. out \in Bus
  <2> DEFINE b == [stream |-> t, builder |-> x, write_time |-> w]
  <2>1. b.builder = x /\ b.stream = t
    OBVIOUS
  <2> HIDE DEF b
  <2>2. \/ Flushed(b) = b /\ b.builder = <<>>
        \/ \E v \in Stream : Flushed(b) = [b EXCEPT !.stream = v, !.builder = <<>>]
    BY <1>3, <2>1, FlushedType
  <2>3. CASE Flushed(b) = b /\ b.builder = <<>>
    BY <1>2, <1>3, <1>6, <2>3 DEF b, Bus
  <2>4. ASSUME NEW v \in Stream, Flushed(b) = [b EXCEPT !.stream = v, !.builder = <<>>]
        PROVE  out \in Bus
    <3>1. out = [stream |-> v, builder |-> <<>>, write_time |-> w]
      BY <1>6, <2>4 DEF b
    <3> QED
      BY <1>2, <3>1 DEF Bus
  <2> QED
    BY <2>2, <2>3, <2>4
<1>8. [out EXCEPT !.stream = SeekSet(out.stream, 0)] \in Bus
  <2>1. SeekSet(out.stream, 0) \in Stream
    BY <1>7, SeekIs DEF Bus
  <2> QED
    BY <1>7, <2>1 DEF Bus
<1>9. /\ produced \in Codec /\ produced.reader = c.reader
      /\ produced.stage.ncodec_consumed = c.stage.ncodec_consumed
      /\ produced.stage.model_produced
  <2>1. [c.stage EXCEPT !.model_produced = TRUE] \in Stage
    BY <1>2 DEF Stage
  <2>2. produced \in Codec /\ produced.reader = c.reader
        /\ produced.stage = [c.stage EXCEPT !.model_produced = TRUE]
    BY <2>1 DEF Codec
  <2> HIDE DEF produced
  <2> QED
    BY <1>2, <2>2 DEF Stage
<1> HIDE DEF produced
<1> DEFINE bus1 == [out EXCEPT !.stream = SeekSet(out.stream, 0)]
           d == [produced EXCEPT !.held = <<>>, !.bus = bus1]
<1> HIDE DEF bus1
<1>10. d \in Codec /\ d.reader = produced.reader /\ d.stage = produced.stage
  <2>1. bus1 \in Bus /\ <<>> \in Seq(PduType)
    BY <1>8 DEF bus1
  <2> QED
    BY <1>9, <2>1 DEF Codec
<1>11. BusModelStage(k, c) = IF k.model THEN d ELSE produced
  BY <1>1 DEF bus1
<1> HIDE DEF d
<1> QED
  BY <1>9, <1>10, <1>11

LEMMA AdvanceTimeType ==
  ASSUME NEW c \in Codec
  PROVE  /\ AdvanceTime(c) \in Codec /\ AdvanceTime(c).reader = c.reader
         /\ AdvanceTime(c).stage = c.stage
<1> DEFINE b == [c.bus EXCEPT !.write_time = c.time]
<1>1. c.time \in Nat /\ c.time + 1 \in Nat /\ c.bus \in Bus
  BY DEF Codec
<1>2. b \in Bus
  BY <1>1 DEF Bus
<1>3. AdvanceTime(c) = [c EXCEPT !.write_time = c.time, !.time = c.time + 1, !.bus = b]
  BY DEF AdvanceTime, Codec
<1> HIDE DEF b
<1> QED
  BY <1>1, <1>2, <1>3 DEF Codec

LEMMA ModelStageType ==
  ASSUME NEW k, NEW c \in Codec, Fits(c), c.stage.ncodec_consumed
  PROVE  /\ ModelStage(k, c).c \in Codec /\ ModelStage(k, c).got \in Got
         /\ Fits(ModelStage(k, c).c)
         /\ ModelStage(k, c).c.stage.ncodec_consumed
         /\ ModelStage(k, c).c.stage.model_produced = c.stage.model_produced
<1> DEFINE all == Unread(c.bus.stream, c.reader, Identifier("pdu"))
           unread == IF k.model /\ ~c.stage.model_consumed THEN all ELSE <<>>
           stage1 == [c.stage EXCEPT !.model_consumed = TRUE]
           bus0 == [c.bus EXCEPT !.stream = IF k.model THEN SeekEnd(c.bus.stream)
                                            ELSE c.bus.stream]
           at_end == [c EXCEPT !.reader = NoReader, !.stage = stage1, !.bus = bus0]
           r1 == ReaderAt(c.bus.stream, c.reader, unread[1])
           s1 == StreamAt(c.bus.stream, c.reader, unread[1])
           bus1 == [c.bus EXCEPT !.stream = s1]
           next == [c EXCEPT !.reader = r1, !.bus = bus1]
           E == ElementSet(c.bus.stream, c.reader.msg, c.reader.idx, c.reader.len)
                  \union Ahead(c.bus.stream, Identifier("pdu"))
<1>0. /\ c.bus \in Bus /\ c.bus.stream \in Stream /\ c.reader \in Reader /\ c.stage \in Stage
      /\ Holds(c.bus.stream, c.reader)
  BY DEF Codec, Bus, Fits
<1>1. ModelStage(k, c) = IF unread = <<>> THEN [got |-> <<>>, c |-> AdvanceTime(at_end)]
                         ELSE [got |-> <<unread[1].pdu>>, c |-> next]
  <2>1. [c EXCEPT !.reader = NoReader, !.stage.model_consumed = TRUE,
                  !.bus.stream = IF k.model THEN SeekEnd(c.bus.stream) ELSE c.bus.stream] = at_end
    BY DEF Codec
  <2>2. [c EXCEPT !.reader = ReaderAt(c.bus.stream, c.reader, unread[1]),
                  !.bus.stream = StreamAt(c.bus.stream, c.reader, unread[1])] = next
    BY DEF Codec
  <2> QED
    BY <2>1, <2>2 DEF ModelStage
<1> HIDE DEF unread, E, next, at_end
<1>2. CASE unread = <<>>
  <2>1. bus0 \in Bus /\ stage1 \in Stage
    <3>1. (IF k.model THEN SeekEnd(c.bus.stream) ELSE c.bus.stream) \in Stream
      BY <1>0, SeekIs
    <3> QED
      BY <1>0, <3>1 DEF Bus, Stage
  <2>2. NoReader \in Reader
    BY DEF NoReader, Reader
  <2> HIDE DEF bus0, stage1
  <2>3. at_end \in Codec /\ at_end.reader = NoReader /\ at_end.stage = stage1
    BY <2>1, <2>2 DEF Codec, at_end
  <2>4. ModelStage(k, c).c = AdvanceTime(at_end) /\ ModelStage(k, c).got = <<>>
    BY <1>1, <1>2
  <2>5. /\ AdvanceTime(at_end) \in Codec /\ AdvanceTime(at_end).reader = NoReader
        /\ AdvanceTime(at_end).stage = stage1
    BY <2>3, AdvanceTimeType
  <2>6. /\ stage1.ncodec_consumed
        /\ stage1.model_produced = c.stage.model_produced
    BY <1>0 DEF Stage, stage1
  <2> QED
    BY <2>4, <2>5, <2>6 DEF Got, Fits, Holds
<1>3. CASE unread # <<>>
  <2>1. unread = all
    BY <1>3 DEF unread
  <2>2. unread \in Seq(E)
    BY <1>0, <2>1, UnreadType DEF E
  <2> DEFINE u == unread[1]
  <2>3. u \in E
    BY <1>3, <2>2
  <2>4. ModelStage(k, c).c = next /\ ModelStage(k, c).got = <<u.pdu>>
    BY <1>1, <1>3
  <2> HIDE DEF u
  <2>5. u.pdu \in PduType /\ s1 \in Stream /\ r1 \in Reader /\ Holds(s1, r1)
    BY <1>0, <2>3, AtElement DEF E, u
  <2> HIDE DEF s1, r1
  <2>6. bus1 \in Bus /\ bus1.stream = s1
    BY <1>0, <2>5 DEF Bus
  <2> HIDE DEF bus1
  <2>7. next \in Codec /\ next.reader = r1 /\ next.bus = bus1 /\ next.stage = c.stage
    BY <2>5, <2>6 DEF Codec, next
  <2>8. Fits(next)
    BY <2>5, <2>6, <2>7 DEF Fits
  <2> QED
    BY <2>4, <2>5, <2>7, <2>8 DEF Got
<1> QED
  BY <1>2, <1>3

\* All of the stream is consumed in the read in which the bus model progresses.
Staged(c) == c.stage.ncodec_consumed = c.stage.model_produced

LEMMA ReadPduType ==
  ASSUME NEW k, IsSetting(k), NEW c \in Codec, Fits(c), Staged(c)
  PROVE  /\ ReadPdu(k, c).c \in Codec /\ ReadPdu(k, c).got \in Got
         /\ Fits(ReadPdu(k, c).c) /\ Staged(ReadPdu(k, c).c)
<1> DEFINE first  == IF c.stage.ncodec_consumed THEN [got |-> <<>>, c |-> c]
                     ELSE NCodecStage(k, c)
           second == IF first.c.stage.model_produced THEN first.c
                     ELSE BusModelStage(k, first.c)
<1>1. ReadPdu(k, c) = IF first.got # <<>> THEN first ELSE ModelStage(k, second)
  BY DEF ReadPdu
<1>0. c.stage \in Stage /\ c.stage.ncodec_consumed \in BOOLEAN /\ c.stage.model_produced \in BOOLEAN
  BY DEF Codec, Stage
<1>2. CASE c.stage.ncodec_consumed
  <2>1. first.got = <<>> /\ first.c = c
    BY <1>2
  <2> HIDE DEF first
  <2>2. second = c
    BY <1>2, <2>1 DEF Staged
  <2> HIDE DEF second
  <2>3. ReadPdu(k, c) = ModelStage(k, c)
    BY <1>1, <2>1, <2>2
  <2>4. c.stage.model_produced
    BY <1>2 DEF Staged
  <2>5. /\ ModelStage(k, c).c \in Codec /\ ModelStage(k, c).got \in Got
        /\ Fits(ModelStage(k, c).c)
        /\ ModelStage(k, c).c.stage.ncodec_consumed
        /\ ModelStage(k, c).c.stage.model_produced = c.stage.model_produced
    BY <1>2, ModelStageType
  <2>6. ModelStage(k, c).c.stage.ncodec_consumed \in BOOLEAN
    BY <2>5 DEF Codec, Stage
  <2>7. Staged(ModelStage(k, c).c)
    BY <1>0, <2>4, <2>5, <2>6 DEF Staged
  <2> QED
    BY <2>3, <2>5, <2>7
<1>3. CASE ~c.stage.ncodec_consumed
  <2>1. first = NCodecStage(k, c)
    BY <1>3
  <2> HIDE DEF first
  <2>2. /\ first.c \in Codec /\ first.got \in Got
        /\ first.c.stage.model_produced = c.stage.model_produced
        /\ first.got # <<>> => Fits(first.c) /\ first.c.stage = c.stage
        /\ first.got = <<>> => first.c.reader = NoReader /\ first.c.stage.ncodec_consumed
    BY <1>3, <2>1, NCodecStageType
  <2>3. CASE first.got # <<>>
    BY <1>1, <2>2, <2>3 DEF Staged
  <2>4. CASE first.got = <<>>
    <3>1. second = BusModelStage(k, first.c)
      BY <1>3, <2>2 DEF Staged
    <3> HIDE DEF second
    <3>2. /\ second \in Codec /\ second.reader = NoReader
          /\ second.stage.ncodec_consumed = first.c.stage.ncodec_consumed
          /\ second.stage.model_produced
      BY <2>2, <2>4, <3>1, BusModelStageType
    <3>3. second.stage.ncodec_consumed /\ Fits(second)
      BY <2>2, <2>4, <3>2 DEF Fits, Holds
    <3>4. ReadPdu(k, c) = ModelStage(k, second)
      BY <1>1, <2>4
    <3>5. /\ ModelStage(k, second).c \in Codec /\ ModelStage(k, second).got \in Got
          /\ Fits(ModelStage(k, second).c)
          /\ ModelStage(k, second).c.stage.ncodec_consumed
          /\ ModelStage(k, second).c.stage.model_produced = second.stage.model_produced
      BY <3>2, <3>3, ModelStageType
    <3>6. /\ ModelStage(k, second).c.stage.ncodec_consumed \in BOOLEAN
          /\ second.stage.model_produced \in BOOLEAN
      BY <3>2, <3>5 DEF Codec, Stage
    <3>7. Staged(ModelStage(k, second).c)
      BY <3>2, <3>5, <3>6 DEF Staged
    <3> QED
      BY <3>4, <3>5, <3>7
  <2> QED
    BY <2>3, <2>4
<1> QED
  BY <1>2, <1>3

-----------------------------------------------------------------------------
(***************************************************************************)
(* The invariant of streams and readers.                                   *)
(***************************************************************************)

Resting(n) ==
  codec[n].reader # NoReader =>
    \/ phase[n] = "reading"
    \/ phase[n] = "read" /\ Config[n].type = "pdu"

\* Every stream has whole messages, a node writes into one that was reset, and,
\* save with a frame interface that an application does not read to the end, the
\* reader holds a vector of the stream that is read.
IInvStreams ==
  /\ got = [n \in Node |-> got[n]]
  /\ \A n \in Node :
       /\ codec[n] \in Codec /\ Staged(codec[n])
       /\ phase[n] = "writing" => codec[n].stream.pos = 0 /\ codec[n].stream.len = 0
       /\ Config[n].type = "frame" => ~codec[n].stage.ncodec_consumed
       /\ Config[n].type = "pdu" \/ PatientFrames =>
            Fits(codec[n]) /\ Resting(n) /\ got[n] \in Got

LEMMA Settings ==
  /\ \A n \in Node : IsSetting(Config[n]) /\ Input[n] \subseteq PduType
  /\ Nodes \in Seq(Node) /\ BufferLen \in Nat
BY CosimAssumption DEF Node, IsSetting

LEMMA NewCodecType ==
  /\ NewCodec(BufferLen) \in Codec /\ Staged(NewCodec(BufferLen))
  /\ Fits(NewCodec(BufferLen)) /\ NewCodec(BufferLen).reader = NoReader
  /\ ~NewCodec(BufferLen).stage.ncodec_consumed
  /\ NewCodec(BufferLen).stream.pos = 0 /\ NewCodec(BufferLen).stream.len = 0
<1> DEFINE s == Create(BufferLen)
           c == NewCodec(BufferLen)
           b == [stream |-> s, builder |-> <<>>, write_time |-> 0]
<1>1. BufferLen \in Nat
  BY Settings
<1>2. s.mem \in Seq(Cell) /\ Len(s.mem) = BufferLen
  <2>1. s.mem = [i \in 1 .. BufferLen |-> <<>>]
    BY DEF Create
  <2>2. <<>> \in Cell
    BY DEF Cell
  <2> HIDE DEF s
  <2> QED
    BY <1>1, <2>1, <2>2
<1>3. s \in Memory /\ s.pos = 0 /\ s.len = 0 /\ s.buffer_len = BufferLen
  BY <1>1, <1>2 DEF Create, Memory
<1> HIDE DEF s
<1>4. s \in Stream
  BY <1>1, <1>2, <1>3, NoneIsWhole DEF Stream, InBounds
<1>5. b \in Bus
  BY <1>4 DEF Bus
<1>6. c = [stream |-> s, builder |-> <<>>, reader |-> NoReader, stage |-> Stages(FALSE),
           time |-> 0, write_time |-> 0, held |-> <<>>, bus |-> b]
  BY DEF NewCodec, s
<1> HIDE DEF b, c
<1>7. /\ NoReader \in Reader /\ Stages(FALSE) \in Stage /\ <<>> \in Cell /\ <<>> \in Seq(PduType)
      /\ ~Stages(FALSE).ncodec_consumed /\ ~Stages(FALSE).model_produced
  BY DEF NoReader, Reader, Stages, Stage, Cell
<1>8. /\ c \in Codec /\ c.reader = NoReader /\ c.stage = Stages(FALSE) /\ c.stream = s
  BY <1>4, <1>5, <1>6, <1>7 DEF Codec
<1>9. Staged(c)
  BY <1>8 DEF Staged, Stages
<1>10. Fits(c)
  BY <1>8 DEF Fits, Holds
<1> QED
  BY <1>3, <1>7, <1>8, <1>9, <1>10 DEF c

LEMMA InitStreams == Init => IInvStreams
BY NewCodecType DEF Init, IInvStreams, Resting, Got

\* Only the builder changes.
LEMMA WriteMsgKeepsType ==
  ASSUME NEW k, IsSetting(k), NEW c \in Codec, NEW p \in PduType
  PROVE  /\ WriteMsg(k, c, p) \in Codec
         /\ WriteMsg(k, c, p).stream = c.stream /\ WriteMsg(k, c, p).reader = c.reader
         /\ WriteMsg(k, c, p).stage = c.stage /\ WriteMsg(k, c, p).bus = c.bus
<1>1. c.builder \in Cell /\ c.write_time \in Nat
  BY DEF Codec
<1>2. PICK m \in Msg : WriteMsg(k, c, p) = [c EXCEPT !.builder = <<m>>]
  BY <1>1, WriteMsgType
<1>3. <<m>> \in Cell
  BY DEF Cell
<1> QED
  BY <1>2, <1>3 DEF Codec

LEMMA FlushedKeepsType ==
  ASSUME NEW c \in Codec, c.stream.pos = 0, c.stream.len = 0
  PROVE  /\ Flushed(c) \in Codec /\ Flushed(c).reader = c.reader
         /\ Flushed(c).stage = c.stage /\ Flushed(c).bus = c.bus
<1>1. c.builder \in Cell /\ c.stream \in Stream /\ <<>> \in Cell
  BY DEF Codec, Cell
<1>2. \/ Flushed(c) = c
      \/ \E t \in Stream : Flushed(c) = [c EXCEPT !.stream = t, !.builder = <<>>]
  BY <1>1, FlushedType
<1> QED
  BY <1>1, <1>2 DEF Codec

LEMMA TruncatedKeepsType ==
  ASSUME NEW k, NEW c \in Codec, Staged(c)
  PROVE  /\ Truncated(k, c) \in Codec /\ Staged(Truncated(k, c))
         /\ Truncated(k, c).stream.pos = 0 /\ Truncated(k, c).stream.len = 0
         /\ k.type = "pdu" => Truncated(k, c).reader = NoReader
         /\ k.type # "pdu" => /\ Truncated(k, c).reader = c.reader
                              /\ Truncated(k, c).stage = c.stage
<1> DEFINE t == SeekReset(c.stream)
           d == [c EXCEPT !.builder = <<>>, !.stream = t]
           e == [d EXCEPT !.reader = NoReader, !.stage = Stages(FALSE)]
<1>1. c.stream \in Stream /\ t \in Stream /\ t.pos = 0 /\ t.len = 0
  BY SeekIs DEF Codec
<1>2. /\ NoReader \in Reader /\ Stages(FALSE) \in Stage /\ <<>> \in Cell
      /\ Stages(FALSE).ncodec_consumed = Stages(FALSE).model_produced
  BY DEF NoReader, Reader, Stages, Stage, Cell
<1>3. Truncated(k, c) = IF k.type = "pdu" THEN e ELSE d
  BY DEF Truncated
<1> HIDE DEF t
<1>4. d \in Codec /\ d.stream = t /\ d.reader = c.reader /\ d.stage = c.stage
  BY <1>1, <1>2 DEF Codec
<1> HIDE DEF d
<1>5. e \in Codec /\ e.stream = t /\ e.reader = NoReader /\ e.stage = Stages(FALSE)
  BY <1>2, <1>4 DEF Codec
<1> HIDE DEF e
<1> QED
  BY <1>1, <1>2, <1>3, <1>4, <1>5 DEF Staged

LEMMA UtimeKeepsType ==
  ASSUME NEW c \in Codec, NEW t \in Nat, NEW force
  PROVE  /\ Utime(c, t, force) \in Codec
         /\ Utime(c, t, force).stream = c.stream /\ Utime(c, t, force).reader = c.reader
         /\ Utime(c, t, force).stage = c.stage /\ Utime(c, t, force).bus = c.bus
BY DEF Utime, Codec

LEMMA ConsolidatedIsWhole ==
  ASSUME IInvStreams
  PROVE  Consolidated \in WholeCells
<1> DEFINE ss == [i \in DOMAIN Nodes |-> Content(SeekSet(codec[Nodes[i]].stream, 0))]
<1>1. ss \in Seq(WholeCells)
  <2>1. DOMAIN Nodes = 1 .. Len(Nodes) /\ Len(Nodes) \in Nat
    BY Settings
  <2>2. ASSUME NEW i \in 1 .. Len(Nodes)
        PROVE  Content(SeekSet(codec[Nodes[i]].stream, 0)) \in WholeCells
    <3>1. Nodes[i] \in Node
      BY <2>2, Settings
    <3>2. codec[Nodes[i]].stream \in Stream
      BY <3>1 DEF IInvStreams, Codec
    <3> QED
      BY <3>2, ContentIsWhole
  <2> QED
    BY <2>1, <2>2
<1> QED
  BY <1>1, AllAreWhole DEF Consolidated

\* What a read leaves.
LEMMA ReadType ==
  ASSUME IInvStreams, NEW n \in Node
  PROVE  LET r == Read(Config[n], codec[n])
         IN  /\ r.c \in Codec /\ Staged(r.c)
             /\ Config[n].type = "frame" => ~r.c.stage.ncodec_consumed
             /\ Config[n].type = "pdu" \/ PatientFrames => Fits(r.c) /\ r.got \in Got
<1>1. IsSetting(Config[n])
  BY Settings
<1>2. codec[n] \in Codec /\ Staged(codec[n])
  BY DEF IInvStreams
<1>3. CASE Config[n].type = "pdu"
  <2>1. Fits(codec[n])
    BY <1>3 DEF IInvStreams
  <2> QED
    BY <1>1, <1>2, <1>3, <2>1, ReadPduType DEF Read
<1>4. CASE Config[n].type = "frame"
  <2>1. ~codec[n].stage.ncodec_consumed /\ (PatientFrames => Fits(codec[n]))
    BY <1>4 DEF IInvStreams
  <2>2. /\ ReadFrame(Config[n], codec[n]).c \in Codec
        /\ ReadFrame(Config[n], codec[n]).c.stage = codec[n].stage
        /\ Fits(codec[n]) => Fits(ReadFrame(Config[n], codec[n]).c)
                             /\ ReadFrame(Config[n], codec[n]).got \in Got
    BY <1>2, <2>1, ReadFrameType
  <2>3. Staged(ReadFrame(Config[n], codec[n]).c)
    BY <1>2, <2>2 DEF Staged
  <2>4. Read(Config[n], codec[n]) = ReadFrame(Config[n], codec[n])
    BY <1>4 DEF Read
  <2> QED
    BY <1>4, <2>1, <2>2, <2>3, <2>4
<1> QED
  BY <1>1, <1>3, <1>4 DEF IsSetting

LEMMA StreamsStep == IInvCodecs /\ IInvStreams /\ [Next]_vars => IInvStreams'
<1> SUFFICES ASSUME IInvCodecs, IInvStreams, [Next]_vars PROVE IInvStreams'
  OBVIOUS
<1> USE DEF IInvCodecs
<1>1. CASE SimBus
  <2>1. /\ phase' = [n \in Node |-> "reading"] /\ got' = got
        /\ \A n \in Node : phase[n] = "done"
        /\ codec' = [n \in Node |-> [codec[n] EXCEPT
             !.stream = SeekSet(Write(SeekReset(codec[n].stream), Consolidated), 0)]]
    BY <1>1 DEF SimBus
  <2>2. ASSUME NEW n \in Node
        PROVE  /\ codec'[n] \in Codec /\ codec'[n].stage = codec[n].stage
               /\ codec'[n].reader = codec[n].reader
    <3> DEFINE c == codec[n]
               t == SeekSet(Write(SeekReset(c.stream), Consolidated), 0)
    <3>1. c \in Codec /\ c.stream \in Stream
      BY DEF IInvStreams, Codec
    <3>2. Write(SeekReset(c.stream), Consolidated) \in Stream
      BY <3>1, SeekIs, ConsolidatedIsWhole, WriteIs
    <3>3. t \in Stream
      BY <3>2, SeekIs
    <3>4. codec'[n] = [c EXCEPT !.stream = t]
      BY <2>1
    <3> HIDE DEF c, t
    <3>5. codec'[n] \in Codec /\ codec'[n].stage = c.stage /\ codec'[n].reader = c.reader
      BY <3>1, <3>3, <3>4 DEF Codec
    <3> QED
      BY <3>5 DEF c
  <2>3. ASSUME NEW n \in Node, Config[n].type = "pdu" \/ PatientFrames
        PROVE  Fits(codec'[n]) /\ Resting(n)'
    <3>1. codec[n].reader = NoReader
      BY <2>1, <2>3 DEF IInvStreams, Resting
    <3> QED
      BY <2>1, <2>2, <3>1 DEF Fits, Holds, Resting
  <2> QED
    BY <2>1, <2>2, <2>3 DEF IInvStreams, Staged
<1>2. ASSUME NEW n \in Node, NcodecRead(n) \/ ReadOn(n) PROVE IInvStreams'
  <2>1. PICK r : /\ r = Read(Config[n], codec[n]) /\ codec' = [codec EXCEPT ![n] = r.c]
                 /\ got' = [got EXCEPT ![n] = r.got]
                 /\ \/ phase[n] = "reading"
                       /\ phase' = [phase EXCEPT ![n] = IF r.got = <<>> THEN "read" ELSE "reading"]
                    \/ phase[n] = "read" /\ phase' = phase /\ n \in Impatient
    BY <1>2 DEF NcodecRead, ReadOn
  <2>2. /\ codec'[n] = r.c /\ got'[n] = r.got
        /\ \A m \in Node : m # n => codec'[m] = codec[m] /\ got'[m] = got[m] /\ phase'[m] = phase[m]
        /\ phase'[n] \in {"reading", "read"} /\ got' = [m \in Node |-> got'[m]]
    BY <2>1 DEF IInvStreams
  <2>3. /\ r.c \in Codec /\ Staged(r.c)
        /\ Config[n].type = "frame" => ~r.c.stage.ncodec_consumed
        /\ Config[n].type = "pdu" \/ PatientFrames => Fits(r.c) /\ r.got \in Got
    BY <2>1, ReadType
  <2>4. Config[n].type = "pdu" \/ PatientFrames => Resting(n)'
    <3> SUFFICES ASSUME Config[n].type # "pdu", PatientFrames, r.c.reader # NoReader
                 PROVE  phase'[n] = "reading"
      BY <2>2 DEF Resting
    <3>1. n \notin Impatient
      BY DEF PatientFrames
    <3>2. r.got # <<>>
      BY <2>1, ReadKeeps
    <3> QED
      BY <2>1, <3>1, <3>2
  <2> QED
    BY <2>2, <2>3, <2>4 DEF IInvStreams, Resting
<1>3. ASSUME NEW n \in Node, StopReading(n) PROVE IInvStreams'
  <2>1. /\ codec' = codec /\ got' = got /\ phase' = [phase EXCEPT ![n] = "read"]
        /\ phase[n] = "reading" /\ n \in Impatient
    BY <1>3 DEF StopReading
  <2>2. PatientFrames => Config[n].type = "pdu"
    BY <2>1 DEF PatientFrames
  <2> QED
    BY <2>1, <2>2 DEF IInvStreams, Resting
<1>4. ASSUME NEW n \in Node,
             \/ \E force \in BOOLEAN : NcodecUtime(n, force)
             \/ \E p \in Input[n] : NcodecWrite(n, p)
      PROVE  IInvStreams'
  <2>1. PICK c : /\ codec' = [codec EXCEPT ![n] = c] /\ phase' = phase /\ got' = got
                 /\ c \in Codec /\ c.stream = codec[n].stream /\ c.reader = codec[n].reader
                 /\ c.stage = codec[n].stage /\ c.bus = codec[n].bus
    <3>0. codec[n] \in Codec
      BY DEF IInvStreams
    <3>1. ASSUME NEW force \in BOOLEAN, NcodecUtime(n, force)
          PROVE  \E c : /\ codec' = [codec EXCEPT ![n] = c] /\ phase' = phase /\ got' = got
                        /\ c \in Codec /\ c.stream = codec[n].stream /\ c.reader = codec[n].reader
                        /\ c.stage = codec[n].stage /\ c.bus = codec[n].bus
      <4>1. step - 1 \in Nat
        BY <3>1 DEF NcodecUtime
      <4>2. /\ codec' = [codec EXCEPT ![n] = Utime(codec[n], step - 1, force)]
            /\ phase' = phase /\ got' = got
        BY <3>1 DEF NcodecUtime
      <4> DEFINE c == Utime(codec[n], step - 1, force)
      <4>3. /\ c \in Codec /\ c.stream = codec[n].stream /\ c.reader = codec[n].reader
            /\ c.stage = codec[n].stage /\ c.bus = codec[n].bus
        BY <3>0, <4>1, UtimeKeepsType
      <4> HIDE DEF c
      <4> QED
        BY <4>2, <4>3 DEF c
    <3>2. ASSUME NEW p \in Input[n], NcodecWrite(n, p)
          PROVE  \E c : /\ codec' = [codec EXCEPT ![n] = c] /\ phase' = phase /\ got' = got
                        /\ c \in Codec /\ c.stream = codec[n].stream /\ c.reader = codec[n].reader
                        /\ c.stage = codec[n].stage /\ c.bus = codec[n].bus
      <4>1. p \in PduType /\ IsSetting(Config[n])
        BY Settings
      <4>2. /\ codec' = [codec EXCEPT ![n] = WriteMsg(Config[n], codec[n], p)]
            /\ phase' = phase /\ got' = got
        BY <3>2 DEF NcodecWrite
      <4> DEFINE c == WriteMsg(Config[n], codec[n], p)
      <4>3. /\ c \in Codec /\ c.stream = codec[n].stream /\ c.reader = codec[n].reader
            /\ c.stage = codec[n].stage /\ c.bus = codec[n].bus
        BY <3>0, <4>1, WriteMsgKeepsType
      <4> HIDE DEF c
      <4> QED
        BY <4>2, <4>3 DEF c
    <3> QED
      BY <1>4, <3>1, <3>2
  <2>2. codec'[n] = c /\ \A m \in Node : m # n => codec'[m] = codec[m]
    BY <2>1
  <2> QED
    BY <2>1, <2>2 DEF IInvStreams, Resting, Fits, Staged
<1>5. ASSUME NEW n \in Node, NcodecTruncate(n) PROVE IInvStreams'
  <2> DEFINE d == Truncated(Config[n], codec[n])
  <2>1. /\ codec' = [codec EXCEPT ![n] = d] /\ phase[n] = "read"
        /\ phase' = [phase EXCEPT ![n] = "writing"] /\ got' = got
    BY <1>5 DEF NcodecTruncate
  <2>2. /\ d \in Codec /\ Staged(d) /\ d.stream.pos = 0 /\ d.stream.len = 0
        /\ Config[n].type = "pdu" => d.reader = NoReader
        /\ Config[n].type # "pdu" => d.reader = codec[n].reader /\ d.stage = codec[n].stage
    BY TruncatedKeepsType DEF IInvStreams
  <2> HIDE DEF d
  <2>3. Config[n].type = "pdu" \/ PatientFrames => d.reader = NoReader
    BY <2>1, <2>2 DEF IInvStreams, Resting
  <2>4. codec'[n] = d /\ \A m \in Node : m # n => codec'[m] = codec[m] /\ phase'[m] = phase[m]
    BY <2>1
  <2>5. phase'[n] = "writing"
    BY <2>1
  <2>6. Config[n].type = "pdu" \/ PatientFrames => Fits(d) /\ Resting(n)'
    BY <2>3, <2>4 DEF Fits, Holds, Resting
  <2>7. Staged(d) /\ (Config[n].type = "frame" => ~d.stage.ncodec_consumed)
    BY <2>2 DEF IInvStreams, Staged
  <2> QED
    BY <2>1, <2>2, <2>4, <2>5, <2>6, <2>7 DEF IInvStreams, Resting
<1>6. ASSUME NEW n \in Node, NcodecFlush(n) PROVE IInvStreams'
  <2> DEFINE d == Flushed(codec[n])
  <2>1. /\ codec' = [codec EXCEPT ![n] = d] /\ phase[n] = "writing"
        /\ phase' = [phase EXCEPT ![n] = "done"] /\ got' = got
    BY <1>6 DEF NcodecFlush
  <2>2. d \in Codec /\ d.reader = codec[n].reader /\ d.stage = codec[n].stage
    BY <2>1, FlushedKeepsType DEF IInvStreams
  <2> HIDE DEF d
  <2>3. Config[n].type = "pdu" \/ PatientFrames => d.reader = NoReader
    BY <2>1, <2>2 DEF IInvStreams, Resting
  <2>4. codec'[n] = d /\ \A m \in Node : m # n => codec'[m] = codec[m] /\ phase'[m] = phase[m]
    BY <2>1
  <2>5. phase'[n] = "done"
    BY <2>1
  <2>6. Config[n].type = "pdu" \/ PatientFrames => Fits(d) /\ Resting(n)'
    BY <2>3, <2>4 DEF Fits, Holds, Resting
  <2>7. Staged(d) /\ (Config[n].type = "frame" => ~d.stage.ncodec_consumed)
    BY <2>2 DEF IInvStreams, Staged
  <2> QED
    BY <2>1, <2>2, <2>4, <2>5, <2>6, <2>7 DEF IInvStreams, Resting
<1>7. CASE UNCHANGED vars
  BY <1>7 DEF vars, IInvStreams, Resting
<1> QED
  BY <1>1, <1>2, <1>3, <1>4, <1>5, <1>6, <1>7 DEF Next, NodeStep

LEMMA StreamsAreSound == IInvStreams => StreamSound
<1> SUFFICES ASSUME IInvStreams, NEW n \in Node,
                    NEW s \in {codec[n].stream, codec[n].bus.stream}
             PROVE  /\ InBounds(s)
                    /\ LET end[i \in 0 .. s.len] ==
                             i = s.len \/ (/\ s.mem[i + 1] # <<>>
                                           /\ i + Size(s.mem[i + 1][1]) <= s.len
                                           /\ end[i + Size(s.mem[i + 1][1])])
                       IN end[0]
  BY DEF StreamSound
<1>1. s \in Stream
  BY DEF IInvStreams, Codec, Bus
<1> QED
  BY <1>1, StreamIsSound DEF Stream

IInvSteps == step \in 0 .. MaxStep /\ late \subseteq Impatient

LEMMA InitSteps == Init => IInvSteps
BY CosimAssumption DEF Init, IInvSteps

LEMMA StepsStep == IInvSteps /\ [Next]_vars => IInvSteps'
<1> SUFFICES ASSUME IInvSteps, [Next]_vars PROVE IInvSteps'
  OBVIOUS
<1>1. CASE SimBus
  BY <1>1, CosimAssumption DEF SimBus, IInvSteps
<1>2. ASSUME NEW n \in Node, NodeStep(n) PROVE IInvSteps'
  BY <1>2 DEF NodeStep, NcodecRead, StopReading, ReadOn, NcodecTruncate, NcodecUtime,
              NcodecWrite, NcodecFlush, IInvSteps
<1>3. CASE UNCHANGED vars
  BY <1>3 DEF vars, IInvSteps
<1> QED
  BY <1>1, <1>2, <1>3 DEF Next

LEMMA TypesAreOK ==
  ASSUME PatientFrames
  PROVE  IInvCodecs /\ IInvStreams /\ IInvSteps => TypeOK
<1> SUFFICES ASSUME IInvCodecs, IInvStreams, IInvSteps PROVE TypeOK
  OBVIOUS
<1>1. ASSUME NEW n \in Node
      PROVE  LET c == codec[n]
             IN  /\ c.reader \in [msg : Nat, idx : 0 .. c.reader.len, len : Nat]
                 /\ DOMAIN c.stage = DOMAIN Stages(FALSE) /\ Range(c.stage) \subseteq BOOLEAN
                 /\ {c.time, c.write_time, c.bus.write_time} \subseteq Nat
                 /\ \A p \in Range(c.held \o got[n]) : p \in PduType
                 /\ Len(got[n]) <= 1
  <2> DEFINE c == codec[n]
  <2>1. c \in Codec /\ Fits(c) /\ got[n] \in Got
    BY DEF IInvStreams
  <2> HIDE DEF c
  <2>2. c.reader \in [msg : Nat, idx : 0 .. c.reader.len, len : Nat]
    <3>1. c.reader \in Reader
      BY <2>1 DEF Codec
    <3>2. c.reader.idx \in 0 .. c.reader.len
      <4>1. CASE c.reader = NoReader
        BY <4>1 DEF NoReader
      <4>2. CASE c.reader # NoReader
        BY <2>1, <4>2 DEF Fits, Holds
      <4> QED
        BY <4>1, <4>2
    <3> QED
      BY <3>1, <3>2 DEF Reader
  <2>3. DOMAIN c.stage = DOMAIN Stages(FALSE) /\ Range(c.stage) \subseteq BOOLEAN
    <3>1. c.stage \in Stage
      BY <2>1 DEF Codec
    <3> QED
      BY <3>1 DEF Stage, Stages, Range
  <2>4. {c.time, c.write_time, c.bus.write_time} \subseteq Nat
    BY <2>1 DEF Codec, Bus
  <2>5. got[n] \in Seq(PduType) /\ Len(got[n]) <= 1
    <3>1. CASE got[n] = <<>>
      BY <3>1
    <3>2. ASSUME NEW p \in PduType, got[n] = <<p>>
          PROVE  got[n] \in Seq(PduType) /\ Len(got[n]) <= 1
      BY <3>2
    <3> QED
      BY <2>1, <3>1, <3>2 DEF Got
  <2>6. \A p \in Range(c.held \o got[n]) : p \in PduType
    <3> DEFINE q == c.held \o got[n]
    <3>1. q \in Seq(PduType)
      BY <2>1, <2>5 DEF Codec
    <3> HIDE DEF q
    <3>2. \A i \in DOMAIN q : q[i] \in PduType
      BY <3>1
    <3>3. \A p \in Range(q) : p \in PduType
      BY <3>2 DEF Range
    <3> QED
      BY <3>3 DEF q
  <2> QED
    BY <2>2, <2>3, <2>4, <2>5, <2>6 DEF c
<1>2. phase \in [Node -> {"reading", "read", "writing", "done"}]
  BY DEF IInvCodecs, Phases
<1> QED
  BY <1>1, <1>2 DEF TypeOK, IInvSteps

-----------------------------------------------------------------------------
(***************************************************************************)
(* What a stream holds, message by message.                                *)
(***************************************************************************)

\* The messages found from each position of a memory on.
FoundIn(mem, len, ident) ==
  CHOOSE f : f = [i \in 0 .. len |->
    IF i >= len \/ mem[i + 1] = <<>> THEN <<>>
    ELSE LET m == mem[i + 1][1]
         IN (IF m.ident = ident THEN <<i + 1>> ELSE <<>>)
            \o (IF i + Size(m) <= len THEN f[i + Size(m)] ELSE <<>>)]

LEMMA MessagesAreFound ==
  ASSUME NEW s \in Stream, NEW ident
  PROVE  /\ Messages(s, ident) = FoundIn(s.mem, s.len, ident)[s.pos]
         /\ From(FoundIn(s.mem, s.len, ident), 0, s, ident)
<1> DEFINE f == CHOOSE f : From(f, 0, s, ident)
<1>1. From(f, 0, s, ident)
  BY FromExists
<1>2. f = FoundIn(s.mem, s.len, ident)
  BY DEF FoundIn, From, FromHere
<1>3. Messages(s, ident) = f[s.pos]
  BY DEF Messages, From, FromHere
<1> HIDE DEF f
<1> QED
  BY <1>1, <1>2, <1>3

\* Seeking moves the position only.
LEMMA SeekSetIs ==
  ASSUME NEW s \in Stream, NEW p \in Nat
  PROVE  /\ SeekSet(s, p) \in Stream
         /\ SeekSet(s, p).mem = s.mem /\ SeekSet(s, p).len = s.len
         /\ SeekSet(s, p).pos = IF p > s.len THEN s.len ELSE p
<1>1. SeekSet(s, p) \in Stream
  BY SeekIs
<1>2. s \in Memory
  BY DEF Stream
<1> QED
  BY <1>1, <1>2 DEF SeekSet, Memory

\* The position is at the end of the messages.
AtEnd(s) == s.pos >= s.len \/ s.mem[s.pos + 1] = <<>>

\* The message at the position.
Here(s) == s.mem[s.pos + 1][1]

Behind(s) == SeekSet(s, s.pos + Size(Here(s)))

LEMMA HereIs ==
  ASSUME NEW s \in Stream, ~AtEnd(s)
  PROVE  /\ s.pos + 1 \in 1 .. s.len /\ s.mem[s.pos + 1] # <<>> /\ Here(s) \in Msg
         /\ Size(Here(s)) \in Nat \ {0} /\ s.pos + Size(Here(s)) \in Nat
         /\ Behind(s) \in Stream /\ Behind(s).mem = s.mem /\ Behind(s).len = s.len
         /\ Behind(s).pos > s.pos /\ Behind(s).pos <= s.len
<1>1. s.len \in Nat /\ s.pos \in Nat /\ s.pos + 1 \in 1 .. s.len /\ s.mem[s.pos + 1] # <<>>
  BY StreamIs DEF AtEnd
<1>2. Here(s) \in Msg /\ Size(Here(s)) \in Nat \ {0}
  BY <1>1, StreamIs DEF Here
<1> DEFINE z == Size(Here(s))
<1>3. s.pos + z \in Nat
  <2> HIDE DEF z
  <2> QED
    BY <1>1, <1>2 DEF z
<1>4. Behind(s) \in Stream /\ Behind(s).mem = s.mem /\ Behind(s).len = s.len
      /\ Behind(s).pos = IF s.pos + z > s.len THEN s.len ELSE s.pos + z
  BY <1>3, SeekSetIs DEF Behind
<1>5. Behind(s).pos > s.pos /\ Behind(s).pos <= s.len
  <2> HIDE DEF z
  <2>1. z \in Nat \ {0}
    BY <1>2 DEF z
  <2> QED
    BY <1>1, <1>4, <2>1
<1> QED
  BY <1>1, <1>2, <1>3, <1>4, <1>5

LEMMA MessagesStep ==
  ASSUME NEW s \in Stream, NEW ident
  PROVE  /\ AtEnd(s) => Messages(s, ident) = <<>>
         /\ ~AtEnd(s) =>
              Messages(s, ident) = (IF Here(s).ident = ident THEN <<s.pos + 1>> ELSE <<>>)
                                   \o Messages(Behind(s), ident)
<1> DEFINE f == FoundIn(s.mem, s.len, ident)
<1>0. s.len \in Nat /\ s.pos \in 0 .. s.len
  BY StreamIs
<1>1. Messages(s, ident) = f[s.pos] /\ From(f, 0, s, ident)
  BY MessagesAreFound
<1> HIDE DEF f
<1>2. \A i \in 0 .. s.len : f[i] = FromHere(f, i, s, ident)
  BY <1>1 DEF From
<1>3. Messages(s, ident) = FromHere(f, s.pos, s, ident)
  BY <1>0, <1>1, <1>2
<1>4. AtEnd(s) => Messages(s, ident) = <<>>
  BY <1>3 DEF FromHere, AtEnd
<1>5. ASSUME ~AtEnd(s)
      PROVE  Messages(s, ident) = (IF Here(s).ident = ident THEN <<s.pos + 1>> ELSE <<>>)
                                  \o Messages(Behind(s), ident)
  <2> DEFINE q == s.pos + Size(Here(s))
             t == Behind(s)
  <2>1. q \in Nat /\ t \in Stream /\ t.mem = s.mem /\ t.len = s.len
        /\ t.pos = IF q > s.len THEN s.len ELSE q
    BY <1>5, HereIs, SeekSetIs DEF Behind
  <2>2. Messages(t, ident) = f[t.pos]
    BY <2>1, MessagesAreFound DEF f
  <2>3. f[s.len] = <<>>
    <3>1. s.len \in 0 .. s.len /\ s.len >= s.len
      BY <1>0
    <3>2. FromHere(f, s.len, s, ident) = <<>>
      BY <3>1 DEF FromHere
    <3> QED
      BY <1>2, <3>1, <3>2
  <2>4. Messages(s, ident) = (IF Here(s).ident = ident THEN <<s.pos + 1>> ELSE <<>>)
                             \o (IF q <= s.len THEN f[q] ELSE <<>>)
    BY <1>3, <1>5 DEF FromHere, AtEnd, Here
  <2> HIDE DEF q, t
  <2>5. (IF q <= s.len THEN f[q] ELSE <<>>) = Messages(t, ident)
    BY <1>0, <2>1, <2>2, <2>3
  <2> QED
    BY <2>4, <2>5 DEF t
<1> QED
  BY <1>4, <1>5

\* The elements of a vector are in the memory, wherever the position is.
LEMMA SameElements ==
  ASSUME NEW s, NEW t, s.mem = t.mem, NEW msg, NEW idx, NEW len
  PROVE  Elements(s, msg, idx, len) = Elements(t, msg, idx, len)
<1>1. \A i : PduAt(s, msg, i) = PduAt(t, msg, i)
  BY DEF PduAt
<1> QED
  BY <1>1 DEF Elements

Element == [pdu : PduType, msg : Nat, idx : Nat]

LEMMA ElementsOf ==
  ASSUME NEW s \in Stream, NEW m \in 1 .. s.len, s.mem[m] # <<>>, NEW i \in Nat
  PROVE  LET v == s.mem[m][1].vector
         IN  /\ v \in Seq(PduType) /\ Len(v) \in Nat
             /\ Elements(s, m, i, Len(v)) \in Seq(Element)
             /\ Len(Elements(s, m, i, Len(v))) = (IF i <= Len(v) THEN Len(v) - i ELSE 0)
             /\ \A j \in 1 .. Len(v) - i :
                  Elements(s, m, i, Len(v))[j] = [pdu |-> v[i + j], msg |-> m, idx |-> i + j]
<1> DEFINE v == s.mem[m][1].vector
           e == Elements(s, m, i, Len(v))
<1>1. v \in Seq(PduType) /\ Len(v) \in Nat
  BY StreamIs DEF Msg
<1>2. e = [j \in 1 .. Len(v) - i |-> [pdu |-> PduAt(s, m, i + j), msg |-> m, idx |-> i + j]]
  BY DEF Elements
<1>3. ASSUME NEW j \in 1 .. Len(v) - i
      PROVE  /\ PduAt(s, m, i + j) = v[i + j] /\ v[i + j] \in PduType /\ i + j \in Nat
             /\ e[j] = [pdu |-> v[i + j], msg |-> m, idx |-> i + j] /\ e[j] \in Element
  <2>1. i + j \in 1 .. Len(v)
    <3> HIDE DEF v
    <3> QED
      BY <1>1
  <2>2. PduAt(s, m, i + j) = v[i + j]
    BY <2>1 DEF PduAt
  <2> HIDE DEF v, e
  <2>3. e[j] = [pdu |-> v[i + j], msg |-> m, idx |-> i + j]
    BY <1>2, <2>2
  <2>4. v[i + j] \in PduType /\ i + j \in Nat /\ m \in Nat
    <3>1. s.len \in Nat
      BY StreamIs
    <3> QED
      BY <1>1, <2>1, <3>1
  <2> QED
    BY <2>2, <2>3, <2>4 DEF Element
<1> HIDE DEF v
<1>4. e \in Seq(Element) /\ Len(e) = (IF i <= Len(v) THEN Len(v) - i ELSE 0)
  <2> HIDE DEF Element
  <2>1. CASE i <= Len(v)
    <3>1. Len(v) - i \in Nat
      BY <1>1, <2>1
    <3>2. DOMAIN e = 1 .. Len(v) - i /\ e = [j \in 1 .. Len(v) - i |-> e[j]]
      BY <1>2
    <3> HIDE DEF e
    <3> QED
      BY <1>3, <2>1, <3>1, <3>2
  <2>2. CASE ~(i <= Len(v))
    <3>1. 1 .. Len(v) - i = {}
      BY <1>1, <2>2
    <3>2. e = <<>>
      BY <1>2, <3>1
    <3> HIDE DEF e
    <3> QED
      BY <2>2, <3>2
  <2> QED
    BY <2>1, <2>2
<1> HIDE DEF e
<1> QED
  BY <1>1, <1>3, <1>4 DEF e, v

LEMMA ElementsFromStart ==
  ASSUME NEW s \in Stream, NEW m \in 1 .. s.len, s.mem[m] # <<>>
  PROVE  LET v == s.mem[m][1].vector
         IN  /\ v \in Seq(PduType) /\ Len(v) \in Nat
             /\ Elements(s, m, 0, Len(v)) \in Seq(Element)
             /\ Len(Elements(s, m, 0, Len(v))) = Len(v)
             /\ \A j \in 1 .. Len(v) :
                  Elements(s, m, 0, Len(v))[j] = [pdu |-> v[j], msg |-> m, idx |-> j]
<1> DEFINE v == s.mem[m][1].vector
<1>1. PICK o \in Nat : o = 0
  OBVIOUS
<1>2. /\ v \in Seq(PduType) /\ Len(v) \in Nat
      /\ Elements(s, m, o, Len(v)) \in Seq(Element)
      /\ Len(Elements(s, m, o, Len(v))) = (IF o <= Len(v) THEN Len(v) - o ELSE 0)
      /\ \A j \in 1 .. Len(v) - o :
           Elements(s, m, o, Len(v))[j] = [pdu |-> v[o + j], msg |-> m, idx |-> o + j]
  BY ElementsOf
<1> HIDE DEF v
<1>3. o <= Len(v) /\ Len(v) - o = Len(v) /\ \A j \in 1 .. Len(v) : o + j = j
  BY <1>1, <1>2
<1> DEFINE e == Elements(s, m, o, Len(v))
<1>5. \A j \in 1 .. Len(v) : e[j] = [pdu |-> v[o + j], msg |-> m, idx |-> o + j]
  BY <1>2, <1>3
<1> HIDE DEF e
<1>6. \A j \in 1 .. Len(v) : e[j] = [pdu |-> v[j], msg |-> m, idx |-> j]
  BY <1>3, <1>5
<1>4. Elements(s, m, 0, Len(v)) = e
  BY <1>1 DEF e
<1> QED
  BY <1>2, <1>3, <1>4, <1>6 DEF v, e

LEMMA NoElements == \A s : Elements(s, 0, 0, 0) = <<>>
BY DEF Elements

\* The elements of all messages from the position on.
Coming(s, ident) == Unread(s, NoReader, ident)

\* The elements of the messages that start at the cells that are given.
ElementsAt(s, start) ==
  [j \in DOMAIN start |-> Elements(s, start[j], 0, Len(s.mem[start[j]][1].vector))]

LEMMA ComingIs ==
  ASSUME NEW s \in Stream, NEW ident
  PROVE  /\ ElementsAt(s, Messages(s, ident)) \in Seq(Seq(Element))
         /\ Coming(s, ident) = FlattenSeq(ElementsAt(s, Messages(s, ident)))
         /\ Coming(s, ident) \in Seq(Element)
         /\ \A r : Unread(s, r, ident) = Elements(s, r.msg, r.idx, r.len) \o Coming(s, ident)
<1> DEFINE start == Messages(s, ident)
           later == ElementsAt(s, start)
<1>1. start \in Seq(Starts(s, ident, s.pos))
  BY MessagesType
<1>2. \A m \in Starts(s, ident, s.pos) : Elements(s, m, 0, Len(s.mem[m][1].vector)) \in Seq(Element)
  <2> TAKE m \in Starts(s, ident, s.pos)
  <2>1. m \in 1 .. s.len /\ s.mem[m] # <<>>
    BY StreamIs DEF Starts
  <2> QED
    BY <2>1, ElementsOf
<1>3. \A r : Unread(s, r, ident) = Elements(s, r.msg, r.idx, r.len) \o FlattenSeq(later)
  BY DEF Unread, ElementsAt
<1> HIDE DEF start
<1>4. later \in Seq(Seq(Element))
  <2>1. DOMAIN start = 1 .. Len(start) /\ Len(start) \in Nat
    BY <1>1
  <2>2. later = [j \in 1 .. Len(start) |-> Elements(s, start[j], 0, Len(s.mem[start[j]][1].vector))]
    BY <2>1 DEF ElementsAt
  <2>3. ASSUME NEW j \in 1 .. Len(start)
        PROVE  Elements(s, start[j], 0, Len(s.mem[start[j]][1].vector)) \in Seq(Element)
    <3>1. start[j] \in Starts(s, ident, s.pos)
      BY <1>1
    <3> QED
      BY <1>2, <3>1
  <2> HIDE DEF later, Element
  <2> QED
    BY <2>1, <2>2, <2>3
<1> HIDE DEF later
<1>5. FlattenSeq(later) \in Seq(Element)
  BY <1>4, Writes!FlattenSeqType, WritesFlattenSeq
<1>6. Coming(s, ident) = FlattenSeq(later)
  <2>1. Coming(s, ident) = Elements(s, 0, 0, 0) \o FlattenSeq(later)
    <3>1. NoReader.msg = 0 /\ NoReader.idx = 0 /\ NoReader.len = 0
      BY DEF NoReader
    <3>2. Coming(s, ident) = Elements(s, NoReader.msg, NoReader.idx, NoReader.len) \o FlattenSeq(later)
      BY <1>3 DEF Coming
    <3> QED
      BY <3>1, <3>2
  <2> QED
    BY <1>5, <2>1, NoElements
<1> QED
  BY <1>3, <1>4, <1>5, <1>6 DEF later, start

LEMMA ElementsAtConcat ==
  ASSUME NEW S, NEW a \in Seq(S), NEW b \in Seq(S), NEW s
  PROVE  ElementsAt(s, a \o b) = ElementsAt(s, a) \o ElementsAt(s, b)
<1> DEFINE of(m) == Elements(s, m, 0, Len(s.mem[m][1].vector))
<1>1. \A x \in Seq(S) : ElementsAt(s, x) = [j \in 1 .. Len(x) |-> of(x[j])]
  BY DEF ElementsAt
<1> HIDE DEF of
<1>2. a \o b \in Seq(S) /\ Len(a \o b) = Len(a) + Len(b) /\ Len(a) \in Nat /\ Len(b) \in Nat
  OBVIOUS
<1> DEFINE x == [j \in 1 .. Len(a) |-> of(a[j])]
           y == [j \in 1 .. Len(b) |-> of(b[j])]
           z == [j \in 1 .. Len(a) + Len(b) |-> of((a \o b)[j])]
           T == {of(e) : e \in S}
<1>3. x \in Seq(T) /\ y \in Seq(T) /\ z \in Seq(T)
      /\ Len(x) = Len(a) /\ Len(y) = Len(b) /\ Len(z) = Len(a) + Len(b)
  <2>1. \A j \in 1 .. Len(a) : of(a[j]) \in T
    OBVIOUS
  <2>2. \A j \in 1 .. Len(b) : of(b[j]) \in T
    OBVIOUS
  <2>3. \A j \in 1 .. Len(a) + Len(b) : of((a \o b)[j]) \in T
    BY <1>2
  <2> HIDE DEF T
  <2> QED
    BY <1>2, <2>1, <2>2, <2>3
<1>4. \A j \in 1 .. Len(a) : z[j] = x[j]
  BY <1>2
<1>5. \A j \in 1 .. Len(b) : z[Len(a) + j] = y[j]
  BY <1>2
<1>6. ElementsAt(s, a) = x /\ ElementsAt(s, b) = y /\ ElementsAt(s, a \o b) = z
  BY <1>1, <1>2
<1> HIDE DEF x, y, z, T
<1>7. z = x \o y
  <2>1. /\ x \in Seq(T) /\ y \in Seq(T) /\ z \in Seq(T) /\ Len(z) = Len(x) + Len(y)
        /\ \A j \in 1 .. Len(x) : z[j] = x[j]
        /\ \A j \in 1 .. Len(y) : z[Len(x) + j] = y[j]
    BY <1>3, <1>4, <1>5
  <2> QED
    BY <2>1, Writes!ConcatIs
<1> QED
  BY <1>6, <1>7

LEMMA ComingStep ==
  ASSUME NEW s \in Stream, NEW ident
  PROVE  /\ AtEnd(s) => Coming(s, ident) = <<>>
         /\ ~AtEnd(s) =>
              Coming(s, ident) = (IF Here(s).ident = ident
                                  THEN Elements(s, s.pos + 1, 0, Len(Here(s).vector)) ELSE <<>>)
                                 \o Coming(Behind(s), ident)
<1>1. CASE AtEnd(s)
  <2>1. Messages(s, ident) = <<>>
    BY <1>1, MessagesStep
  <2>2. ElementsAt(s, <<>>) = <<>>
    BY DEF ElementsAt
  <2>3. Coming(s, ident) = FlattenSeq(<<>>)
    BY <2>1, <2>2, ComingIs
  <2> QED
    BY <1>1, <2>3, Writes!FlattenSeqOfNone, WritesFlattenSeq
<1>2. CASE ~AtEnd(s)
  <2> DEFINE t == Behind(s)
             one == IF Here(s).ident = ident THEN <<s.pos + 1>> ELSE <<>>
             rest == Messages(t, ident)
             first == IF Here(s).ident = ident
                      THEN Elements(s, s.pos + 1, 0, Len(Here(s).vector)) ELSE <<>>
  <2>1. t \in Stream /\ t.mem = s.mem /\ s.pos + 1 \in 1 .. s.len /\ s.mem[s.pos + 1] # <<>>
    BY <1>2, HereIs
  <2> HIDE DEF t
  <2>2. Messages(s, ident) = one \o rest
    BY <1>2, MessagesStep DEF t
  <2>3. one \in Seq(Nat) /\ rest \in Seq(Nat)
    <3>0. t.pos \in Nat
      BY <2>1, StreamIs
    <3>1. Starts(t, ident, t.pos) \subseteq Nat
      BY <3>0 DEF Starts
    <3>3. rest \in Seq(Starts(t, ident, t.pos))
      BY <2>1, MessagesType
    <3>2. one \in Seq(Nat)
      BY <2>1
    <3> HIDE DEF rest
    <3> QED
      BY <3>1, <3>2, <3>3
  <2>4. ElementsAt(s, rest) = ElementsAt(t, rest)
    <3>1. \A m : Elements(s, m, 0, Len(s.mem[m][1].vector)) = Elements(t, m, 0, Len(t.mem[m][1].vector))
      BY <2>1, SameElements
    <3> QED
      BY <3>1 DEF ElementsAt
  <2>5. ElementsAt(t, rest) \in Seq(Seq(Element)) /\ Coming(t, ident) = FlattenSeq(ElementsAt(t, rest))
    BY <2>1, ComingIs
  <2>6. ElementsAt(s, one) \in Seq(Seq(Element)) /\ FlattenSeq(ElementsAt(s, one)) = first
    <3>1. CASE Here(s).ident = ident
      <4> DEFINE e == Elements(s, s.pos + 1, 0, Len(Here(s).vector))
      <4>1. e \in Seq(Element)
        BY <2>1, ElementsOf DEF Here
      <4>2. ElementsAt(s, one) = <<e>>
        BY <3>1 DEF ElementsAt, Here
      <4> HIDE DEF e, Element
      <4>3. FlattenSeq(<<e>>) = e
        BY <4>1, Writes!FlattenSeqOfOne, WritesFlattenSeq
      <4>4. <<e>> \in Seq(Seq(Element))
        BY <4>1
      <4>5. first = e
        BY <3>1 DEF e
      <4> QED
        BY <4>2, <4>3, <4>4, <4>5
    <3>2. CASE Here(s).ident # ident
      <4>1. ElementsAt(s, one) = <<>> /\ first = <<>>
        BY <3>2 DEF ElementsAt
      <4>2. FlattenSeq(<<>>) = <<>>
        BY Writes!FlattenSeqOfNone, WritesFlattenSeq
      <4>3. <<>> \in Seq(Seq(Element))
        OBVIOUS
      <4> HIDE DEF one, first
      <4> QED
        BY <4>1, <4>2, <4>3
    <3> QED
      BY <3>1, <3>2
  <2> HIDE DEF one, rest, first
  <2>7. Coming(s, ident) = FlattenSeq(ElementsAt(s, one \o rest))
    BY <2>2, ComingIs
  <2>8. ElementsAt(s, one \o rest) = ElementsAt(s, one) \o ElementsAt(t, rest)
    BY <2>3, <2>4, ElementsAtConcat
  <2> DEFINE x == ElementsAt(s, one)
             y == ElementsAt(t, rest)
  <2> HIDE DEF x, y
  <2>9. FlattenSeq(x \o y) = FlattenSeq(x) \o FlattenSeq(y)
    <3>1. x \in Seq(Seq(Element)) /\ y \in Seq(Seq(Element))
      BY <2>5, <2>6 DEF x, y
    <3> QED
      BY <3>1, Writes!FlattenSeqOfConcat, WritesFlattenSeq
  <2>10. Coming(s, ident) = first \o Coming(t, ident)
    BY <2>5, <2>6, <2>7, <2>8, <2>9 DEF x, y
  <2> QED
    BY <1>2, <2>10 DEF t, first
<1> QED
  BY <1>1, <1>2

-----------------------------------------------------------------------------
(***************************************************************************)
(* What is left when an element was returned.                              *)
(***************************************************************************)

LEMMA ElementsSplit ==
  ASSUME NEW s \in Stream, NEW m \in 1 .. s.len, s.mem[m] # <<>>, NEW idx \in Nat,
         NEW i \in 1 .. Len(s.mem[m][1].vector) - idx
  PROVE  LET l == Len(s.mem[m][1].vector)
         IN  \E a \in Seq(Element) :
               Len(a) = i /\ Elements(s, m, idx, l) = a \o Elements(s, m, idx + i, l)
<1> DEFINE v == s.mem[m][1].vector
           x == Elements(s, m, idx, Len(v))
           y == Elements(s, m, idx + i, Len(v))
           a == SubSeq(x, 1, i)
<1>0. v \in Seq(PduType) /\ Len(v) \in Nat /\ i \in Nat /\ idx + i \in Nat /\ idx + i <= Len(v)
      /\ idx <= Len(v)
  <2>1. v \in Seq(PduType)
    BY ElementsOf
  <2> HIDE DEF v
  <2> QED
    BY <2>1 DEF v
<1>1. x \in Seq(Element) /\ Len(x) = Len(v) - idx
      /\ \A j \in 1 .. Len(v) - idx : x[j] = [pdu |-> v[idx + j], msg |-> m, idx |-> idx + j]
  BY <1>0, ElementsOf
<1>2. y \in Seq(Element) /\ Len(y) = Len(v) - (idx + i)
      /\ \A j \in 1 .. Len(v) - (idx + i) :
           y[j] = [pdu |-> v[(idx + i) + j], msg |-> m, idx |-> (idx + i) + j]
  BY <1>0, ElementsOf
<1> HIDE DEF v, x, y, Element
<1>3. i \in 1 .. Len(x)
  BY <1>0, <1>1 DEF v
<1>4. a \in Seq(Element) /\ Len(a) = i /\ \A j \in 1 .. i : x[j] = a[j]
  BY <1>1, <1>3
<1> HIDE DEF a
<1>5. ASSUME NEW j \in 1 .. Len(y) PROVE x[Len(a) + j] = y[j]
  <2>1. i + j \in 1 .. Len(v) - idx /\ idx + (i + j) = (idx + i) + j
    BY <1>0, <1>2
  <2>2. x[i + j] = [pdu |-> v[(idx + i) + j], msg |-> m, idx |-> (idx + i) + j]
    BY <1>1, <2>1
  <2> QED
    BY <1>2, <1>4, <2>2
<1>6. Len(x) = Len(a) + Len(y)
  BY <1>0, <1>1, <1>2, <1>4
<1>7. x = a \o y
  BY <1>1, <1>2, <1>4, <1>5, <1>6, Writes!ConcatIs
<1> QED
  BY <1>4, <1>7 DEF x, y, v

\* What a reader at the element u of a stream has not returned yet.
PastItem(s, u) == SeekSet(s, u.msg - 1 + Size(s.mem[u.msg][1]))

LeftBehind(s, u, ident) ==
  Elements(s, u.msg, u.idx, Len(s.mem[u.msg][1].vector)) \o Coming(PastItem(s, u), ident)

\* It is an element of a message that starts behind position p.
IsAhead(s, p, u) ==
  /\ u.msg \in p + 1 .. s.len /\ s.mem[u.msg] # <<>>
  /\ u.idx \in 1 .. Len(s.mem[u.msg][1].vector)

\* That is what comes behind the element.
Resumes(s, ident) ==
  \A i \in 1 .. Len(Coming(s, ident)) :
    /\ IsAhead(s, s.pos, Coming(s, ident)[i])
    /\ \E a \in Seq(Element) :
         Len(a) = i /\ Coming(s, ident) = a \o LeftBehind(s, Coming(s, ident)[i], ident)

LEMMA SeekTwice ==
  ASSUME NEW s \in Stream, NEW p \in Nat, NEW q \in Nat
  PROVE  SeekSet(SeekSet(s, p), q) = SeekSet(s, q)
<1>1. s \in Memory /\ s.len \in Nat
  BY DEF Stream, Memory
<1> QED
  BY <1>1 DEF SeekSet, Memory

LEMMA SeekHere ==
  ASSUME NEW s \in Stream
  PROVE  SeekSet(s, s.pos) = s
<1>1. s \in Memory /\ s.pos <= s.len /\ s.pos \in Nat /\ s.len \in Nat
  BY StreamIs DEF Stream
<1> QED
  BY <1>1 DEF SeekSet, Memory

LEMMA LeftBehindType ==
  ASSUME NEW s \in Stream, NEW ident, NEW p \in Nat, NEW u, IsAhead(s, p, u)
  PROVE  /\ u.msg \in 1 .. s.len /\ u.idx \in Nat /\ PastItem(s, u) \in Stream
         /\ LeftBehind(s, u, ident) \in Seq(Element)
         /\ \A q \in Nat : LeftBehind(SeekSet(s, q), u, ident) = LeftBehind(s, u, ident)
<1> DEFINE m == s.mem[u.msg][1]
           w == m.vector
           z == u.msg - 1 + Size(m)
           x == Elements(s, u.msg, u.idx, Len(w))
           y == Coming(PastItem(s, u), ident)
<1>1. u.msg \in p + 1 .. s.len /\ s.mem[u.msg] # <<>> /\ u.idx \in 1 .. Len(w)
  BY DEF IsAhead
<1>2. s.len \in Nat
  BY StreamIs
<1>3. u.msg \in 1 .. s.len
  <2> HIDE DEF w
  <2> QED
    BY <1>1, <1>2
<1>4. m \in Msg /\ Size(m) \in Nat /\ w \in Seq(PduType)
  BY <1>1, <1>3, StreamIs DEF Msg
<1>5. u.idx \in Nat
  <2> HIDE DEF w
  <2> QED
    BY <1>1, <1>4
<1>6. z \in Nat
  <2>1. Size(m) \in Nat
    BY <1>4
  <2> HIDE DEF m
  <2> QED
    BY <1>2, <1>3, <2>1
<1>7. PastItem(s, u) \in Stream
  BY <1>6, SeekSetIs DEF PastItem
<1>8. x \in Seq(Element)
  BY <1>1, <1>3, <1>5, ElementsOf
<1>9. y \in Seq(Element)
  BY <1>7, ComingIs
<1>10. LeftBehind(s, u, ident) = x \o y
  BY DEF LeftBehind
<1>11. ASSUME NEW q \in Nat PROVE LeftBehind(SeekSet(s, q), u, ident) = LeftBehind(s, u, ident)
  <2>1. SeekSet(s, q).mem = s.mem
    BY SeekSetIs
  <2>2. Elements(SeekSet(s, q), u.msg, u.idx, Len(w)) = x
    BY <2>1, SameElements
  <2>3. SeekSet(SeekSet(s, q), z) = SeekSet(s, z)
    BY <1>6, SeekTwice
  <2> QED
    BY <2>1, <2>2, <2>3 DEF LeftBehind, PastItem
<1> HIDE DEF x, y, Element
<1>12. x \o y \in Seq(Element)
  BY <1>8, <1>9
<1> QED
  BY <1>3, <1>5, <1>7, <1>10, <1>11, <1>12

\* An element of the message at the position.
LEMMA ResumesHere ==
  ASSUME NEW s \in Stream, NEW ident, ~AtEnd(s), Here(s).ident = ident,
         NEW i \in 1 .. Len(Here(s).vector)
  PROVE  LET u == Coming(s, ident)[i]
         IN  /\ IsAhead(s, s.pos, u)
             /\ \E a \in Seq(Element) : Len(a) = i /\ Coming(s, ident) = a \o LeftBehind(s, u, ident)
<1> DEFINE m == s.pos + 1
           w == s.mem[m][1].vector
           x == Elements(s, m, 0, Len(w))
           y == Coming(Behind(s), ident)
           z == Elements(s, m, i, Len(w))
<1>1. /\ m \in 1 .. s.len /\ s.mem[m] # <<>> /\ Here(s) = s.mem[m][1] /\ Behind(s) \in Stream
  BY HereIs DEF Here
<1>2. s.pos \in Nat /\ s.len \in Nat
  BY StreamIs
<1>3. w \in Seq(PduType) /\ Len(w) \in Nat
  BY <1>1, ElementsOf
<1>4. i \in Nat /\ i \in 1 .. Len(w)
  <2>1. i \in 1 .. Len(w)
    BY <1>1
  <2> HIDE DEF w
  <2> QED
    BY <1>3, <2>1
<1>5. x \in Seq(Element) /\ x[i] = [pdu |-> w[i], msg |-> m, idx |-> i] /\ Len(x) = Len(w)
  BY <1>1, <1>4, ElementsFromStart
<1>6. z \in Seq(Element)
  BY <1>1, <1>4, ElementsOf
<1>7. PICK a \in Seq(Element) : Len(a) = i /\ x = a \o z
  <2>1. PICK o \in Nat : o = 0
    OBVIOUS
  <2>2. i \in 1 .. Len(w) - o /\ o + i = i
    <3> HIDE DEF w
    <3> QED
      BY <1>3, <1>4, <2>1
  <2>3. PICK a \in Seq(Element) : Len(a) = i /\ Elements(s, m, o, Len(w)) = a \o Elements(s, m, o + i, Len(w))
    BY <1>1, <2>2, ElementsSplit
  <2> QED
    BY <2>1, <2>2, <2>3
<1>8. y \in Seq(Element)
  BY <1>1, ComingIs
<1>9. Coming(s, ident) = x \o y
  BY <1>1, ComingStep
<1> HIDE DEF w, x, y, z, Element
<1>11. x \o y = a \o (z \o y)
  <2>1. \A b, c, d \in Seq(Element) : b \o (c \o d) = (b \o c) \o d
    BY Writes!ConcatAssociates, SMTT(60)
  <2> QED
    BY <1>6, <1>7, <1>8, <2>1, Zenon
<1> DEFINE u == Coming(s, ident)[i]
<1>12. u = x[i]
  <2>1. i \in 1 .. Len(x)
    BY <1>3, <1>4, <1>5
  <2> QED
    BY <1>5, <1>8, <1>9, <2>1
<1>13. u.msg = m /\ u.idx = i
  BY <1>4, <1>5, <1>12
<1> HIDE DEF u
<1>14. m - 1 = s.pos /\ m \in s.pos + 1 .. s.len
  BY <1>1, <1>2
<1>15. PastItem(s, u) = Behind(s)
  BY <1>1, <1>13, <1>14 DEF PastItem, Behind
<1>16. LeftBehind(s, u, ident) = z \o y
  BY <1>13, <1>15 DEF LeftBehind, z, y, w
<1>17. IsAhead(s, s.pos, u)
  BY <1>1, <1>4, <1>13, <1>14 DEF IsAhead, w
<1>18. Coming(s, ident) = a \o LeftBehind(s, u, ident)
  BY <1>9, <1>11, <1>16
<1> QED
  BY <1>7, <1>17, <1>18 DEF u

\* An element of a message behind the one at the position.
LEMMA ResumesBehind ==
  ASSUME NEW s \in Stream, NEW ident, ~AtEnd(s), Resumes(Behind(s), ident),
         NEW x \in Seq(Element), Coming(s, ident) = x \o Coming(Behind(s), ident),
         NEW i \in 1 .. Len(Coming(s, ident)), i > Len(x)
  PROVE  LET u == Coming(s, ident)[i]
         IN  /\ IsAhead(s, s.pos, u)
             /\ \E a \in Seq(Element) : Len(a) = i /\ Coming(s, ident) = a \o LeftBehind(s, u, ident)
<1> DEFINE b == Behind(s)
           y == Coming(b, ident)
           j == i - Len(x)
           u == y[j]
<1>1. /\ b \in Stream /\ b.mem = s.mem /\ b.len = s.len /\ b.pos > s.pos /\ b.pos \in Nat
      /\ s.pos \in Nat /\ s.len \in Nat
  <2>1. b \in Stream
    BY HereIs
  <2>2. b.pos \in Nat /\ s.pos \in Nat /\ s.len \in Nat
    BY <2>1, StreamIs
  <2> QED
    BY <2>1, <2>2, HereIs
<1>2. y \in Seq(Element)
  BY <1>1, ComingIs
<1>3. Resumes(b, ident) /\ Coming(s, ident) = x \o y
  OBVIOUS
<1>4. b = SeekSet(s, s.pos + Size(Here(s))) /\ s.pos + Size(Here(s)) \in Nat
  BY HereIs DEF Behind
<1> HIDE DEF b
<1>5. \A k \in 1 .. Len(y) :
        /\ IsAhead(b, b.pos, y[k])
        /\ \E a \in Seq(Element) : Len(a) = k /\ y = a \o LeftBehind(b, y[k], ident)
  BY <1>3 DEF Resumes
<1> HIDE DEF y, Element
<1>6. j \in 1 .. Len(y) /\ Len(x) + j = i /\ Coming(s, ident)[i] = y[j]
  BY <1>2, <1>3
<1> HIDE DEF j
<1>7. IsAhead(b, b.pos, u) /\ \E a \in Seq(Element) : Len(a) = j /\ y = a \o LeftBehind(b, u, ident)
  BY <1>5, <1>6
<1>8. PICK a \in Seq(Element) : Len(a) = j /\ y = a \o LeftBehind(b, u, ident)
  BY <1>7
<1> HIDE DEF u
<1>9. IsAhead(s, s.pos, u)
  <2>1. u.msg \in b.pos + 1 .. b.len
    BY <1>7 DEF IsAhead
  <2>2. u.msg \in s.pos + 1 .. s.len
    BY <1>1, <2>1
  <2> QED
    BY <1>1, <1>7, <2>2 DEF IsAhead
<1>10. LeftBehind(b, u, ident) = LeftBehind(s, u, ident) /\ LeftBehind(s, u, ident) \in Seq(Element)
  <2>1. /\ LeftBehind(s, u, ident) \in Seq(Element)
        /\ \A q \in Nat : LeftBehind(SeekSet(s, q), u, ident) = LeftBehind(s, u, ident)
    BY <1>1, <1>9, LeftBehindType
  <2> QED
    BY <1>4, <2>1
<1> DEFINE z == LeftBehind(s, u, ident)
<1>11. y = a \o z /\ z \in Seq(Element)
  BY <1>8, <1>10
<1> HIDE DEF z
<1>12. x \o y = (x \o a) \o z
  <2>1. \A c, d, e \in Seq(Element) : c \o (d \o e) = (c \o d) \o e
    BY Writes!ConcatAssociates, SMTT(60)
  <2> QED
    BY <1>11, <2>1, Zenon
<1>13. x \o a \in Seq(Element) /\ Len(x \o a) = i
  <2>1. Len(x \o a) = Len(x) + Len(a) /\ x \o a \in Seq(Element)
    OBVIOUS
  <2>2. Len(a) = j
    BY <1>8
  <2> QED
    BY <1>6, <2>1, <2>2
<1>14. Coming(s, ident)[i] = u
  BY <1>6 DEF u
<1> QED
  BY <1>3, <1>9, <1>12, <1>13, <1>14 DEF z

LEMMA ComingResumes ==
  ASSUME NEW s \in Stream, NEW ident
  PROVE  Resumes(s, ident)
<1> DEFINE G == {p \in 0 .. s.len : Resumes(SeekSet(s, p), ident)}
<1>0. s.len \in Nat /\ s.pos \in 0 .. s.len
  BY StreamIs
<1>1. ASSUME NEW p \in 0 .. s.len, \A q \in p + 1 .. s.len : q \in G
      PROVE  Resumes(SeekSet(s, p), ident)
  <2> DEFINE t == SeekSet(s, p)
             b == Behind(t)
             c == Coming(t, ident)
  <2>1. t \in Stream /\ t.len = s.len /\ t.pos = p
    <3>1. p \in Nat /\ ~(p > s.len)
      BY <1>0
    <3> QED
      BY <3>1, SeekSetIs
  <2> HIDE DEF t
  <2>2. CASE AtEnd(t)
    <3>1. c = <<>>
      BY <2>1, <2>2, ComingStep
    <3>2. 1 .. Len(<<>>) = {}
      OBVIOUS
    <3>3. Resumes(t, ident)
      BY <3>1, <3>2 DEF Resumes
    <3> QED
      BY <3>3 DEF t
  <2>3. CASE ~AtEnd(t)
    <3>1. b \in Stream /\ b.len = t.len /\ b.pos > t.pos /\ b.pos <= t.len /\ b.pos \in Nat
          /\ t.pos + Size(Here(t)) \in Nat /\ t.pos + 1 \in 1 .. t.len
          /\ t.mem[t.pos + 1] # <<>> /\ Here(t) = t.mem[t.pos + 1][1]
      <4>1. b \in Stream
        BY <2>1, <2>3, HereIs
      <4>2. b.pos \in Nat
        BY <4>1, StreamIs
      <4> QED
        BY <2>1, <2>3, <4>1, <4>2, HereIs DEF Here
    <3>2. Resumes(b, ident)
      <4>1. b.pos \in p + 1 .. s.len
        <5> HIDE DEF b
        <5> QED
          BY <1>0, <2>1, <3>1
      <4>2. Resumes(SeekSet(s, b.pos), ident)
        BY <1>1, <4>1
      <4>3. SeekSet(t, b.pos) = SeekSet(s, b.pos)
        BY <3>1, SeekTwice DEF t
      <4>4. SeekSet(b, b.pos) = SeekSet(t, b.pos)
        BY <2>1, <3>1, SeekTwice DEF Behind
      <4>5. SeekSet(b, b.pos) = b
        BY <3>1, SeekHere
      <4> QED
        BY <4>2, <4>3, <4>4, <4>5
    <3> DEFINE e == Elements(t, t.pos + 1, 0, Len(Here(t).vector))
               x == IF Here(t).ident = ident THEN e ELSE <<>>
    <3>3. e \in Seq(Element) /\ Len(e) = Len(Here(t).vector) /\ Len(e) \in Nat
      <4> DEFINE m == t.pos + 1
                 w == t.mem[m][1].vector
      <4>1. m \in 1 .. t.len /\ t.mem[m] # <<>>
        BY <3>1
      <4> HIDE DEF m
      <4>2. /\ w \in Seq(PduType) /\ Len(w) \in Nat
            /\ Elements(t, m, 0, Len(w)) \in Seq(Element) /\ Len(Elements(t, m, 0, Len(w))) = Len(w)
        BY <2>1, <4>1, ElementsFromStart
      <4>3. w = Here(t).vector
        BY <3>1 DEF m
      <4> QED
        BY <4>2, <4>3 DEF m
    <3>4. x \in Seq(Element) /\ c = x \o Coming(b, ident)
      <4>1. c = x \o Coming(b, ident)
        BY <2>1, <2>3, ComingStep
      <4> HIDE DEF e
      <4> QED
        BY <3>3, <4>1
    <3>5. ASSUME NEW i \in 1 .. Len(c)
          PROVE  /\ IsAhead(t, t.pos, c[i])
                 /\ \E a \in Seq(Element) : Len(a) = i /\ c = a \o LeftBehind(t, c[i], ident)
      <4>1. CASE i > Len(x)
        BY <2>1, <2>3, <3>2, <3>4, <4>1, ResumesBehind
      <4>2. CASE ~(i > Len(x))
        <5>1. Here(t).ident = ident /\ i \in 1 .. Len(Here(t).vector)
          <6>1. Len(x) \in Nat /\ i \in Nat /\ i >= 1 /\ i <= Len(x)
            <7> HIDE DEF x, c
            <7> QED
              BY <3>4, <4>2
          <6>2. x # <<>>
            <7> HIDE DEF x
            <7> QED
              BY <6>1
          <6>3. x = e /\ Here(t).ident = ident
            BY <6>2
          <6> HIDE DEF x, e
          <6> QED
            BY <3>3, <6>1, <6>3
        <5> QED
          BY <2>1, <2>3, <5>1, ResumesHere
      <4> QED
        BY <4>1, <4>2
    <3>6. Resumes(t, ident)
      BY <3>5 DEF Resumes
    <3> QED
      BY <3>6 DEF t
  <2> QED
    BY <2>2, <2>3
<1>2. s.pos \in G
  <2>1. \A p \in 0 .. s.len : (\A q \in p + 1 .. s.len : q \in G) => p \in G
    BY <1>1
  <2> HIDE DEF G
  <2> QED
    BY <1>0, <2>1, Writes!DownFrom
<1>3. SeekSet(s, s.pos) = s
  BY SeekHere
<1> QED
  BY <1>2, <1>3

\* A reader that holds a vector of the stream, and returns the element at i, has the
\* elements behind it left.
LEMMA UnreadResumes ==
  ASSUME NEW s \in Stream, NEW r \in Reader, Holds(s, r), NEW ident,
         NEW i \in 1 .. Len(Unread(s, r, ident))
  PROVE  LET un == Unread(s, r, ident)
             left == Unread(StreamAt(s, r, un[i]), ReaderAt(s, r, un[i]), ident)
         IN  /\ un \in Seq(Element) /\ left \in Seq(Element)
             /\ \E a \in Seq(Element) : Len(a) = i /\ un = a \o left
<1> DEFINE un == Unread(s, r, ident)
           u == un[i]
           left == Unread(StreamAt(s, r, u), ReaderAt(s, r, u), ident)
           x == Elements(s, r.msg, r.idx, r.len)
           y == Coming(s, ident)
<1>1. y \in Seq(Element) /\ un = x \o y
  BY ComingIs
<1>2. s.pos \in Nat /\ s.len \in Nat /\ s.pos <= s.len
  BY StreamIs
<1>3. r.msg \in 0 .. s.pos /\ x \in Seq(Element) /\ Len(x) \in Nat
  <2>1. CASE r = NoReader
    <3>1. r.msg = 0 /\ r.idx = 0 /\ r.len = 0
      BY <2>1 DEF NoReader
    <3>2. x = <<>>
      BY <3>1, NoElements
    <3> HIDE DEF x, Element
    <3> QED
      BY <1>2, <3>1, <3>2
  <2>2. CASE r # NoReader
    <3>1. r.msg \in 1 .. s.pos /\ s.mem[r.msg] # <<>> /\ r.len = Len(s.mem[r.msg][1].vector)
      BY <2>2 DEF Holds
    <3>2. r.msg \in 1 .. s.len /\ r.idx \in Nat /\ r.msg \in 0 .. s.pos
      BY <1>2, <3>1 DEF Reader
    <3>3. x \in Seq(Element)
      BY <3>1, <3>2, ElementsOf
    <3> HIDE DEF x, Element
    <3> QED
      BY <3>2, <3>3
  <2> QED
    BY <2>1, <2>2
<1>4. CASE i > Len(x)
  <2> DEFINE j == i - Len(x)
  <2>1. j \in 1 .. Len(y) /\ u = y[j] /\ Len(x) + j = i
    <3> HIDE DEF x, y, Element
    <3> QED
      BY <1>1, <1>3, <1>4
  <2> HIDE DEF j
  <2>2. /\ IsAhead(s, s.pos, y[j])
        /\ \E b \in Seq(Element) : Len(b) = j /\ y = b \o LeftBehind(s, y[j], ident)
    BY <2>1, ComingResumes DEF Resumes
  <2>3. IsAhead(s, s.pos, u)
    BY <2>1, <2>2
  <2>4. PICK b \in Seq(Element) : Len(b) = j /\ y = b \o LeftBehind(s, u, ident)
    BY <2>1, <2>2
  <2>5. LeftBehind(s, u, ident) \in Seq(Element) /\ PastItem(s, u) \in Stream
    BY <1>2, <2>3, LeftBehindType
  <2>6. left = LeftBehind(s, u, ident)
    <3> HIDE DEF un
    <3>1. u.msg # r.msg
      <4>1. u.msg \in s.pos + 1 .. s.len
        BY <2>3 DEF IsAhead
      <4> QED
        BY <1>2, <1>3, <4>1
    <3>2. StreamAt(s, r, u) = PastItem(s, u)
      BY <3>1 DEF StreamAt, PastItem
    <3> DEFINE q == ReaderAt(s, r, u)
    <3>3. q.msg = u.msg /\ q.idx = u.idx /\ q.len = Len(s.mem[u.msg][1].vector)
      BY <3>1 DEF ReaderAt
    <3> HIDE DEF q
    <3>4. left = Elements(PastItem(s, u), q.msg, q.idx, q.len) \o Coming(PastItem(s, u), ident)
      BY <2>5, <3>2, ComingIs DEF q
    <3>5. PastItem(s, u).mem = s.mem
      <4>1. s \in Memory
        BY DEF Stream
      <4> QED
        BY <4>1 DEF PastItem, SeekSet, Memory
    <3>6. Elements(PastItem(s, u), q.msg, q.idx, q.len) = Elements(s, q.msg, q.idx, q.len)
      BY <3>5, SameElements
    <3> QED
      BY <3>3, <3>4, <3>6 DEF LeftBehind
  <2> HIDE DEF x, y, left, un, Element
  <2>7. x \o y = (x \o b) \o left
    <3>1. \A c, d, e \in Seq(Element) : c \o (d \o e) = (c \o d) \o e
      BY Writes!ConcatAssociates, SMTT(60)
    <3> QED
      BY <1>3, <2>4, <2>5, <2>6, <3>1, Zenon
  <2>8. x \o b \in Seq(Element) /\ Len(x \o b) = Len(x) + Len(b)
    BY <1>3
  <2>9. Len(x \o b) = i
    BY <2>1, <2>4, <2>8
  <2>10. un \in Seq(Element) /\ left \in Seq(Element) /\ un = (x \o b) \o left
    <3>1. left \in Seq(Element)
      BY <2>5, <2>6
    <3>2. (x \o b) \o left \in Seq(Element)
      BY <2>8, <3>1
    <3> QED
      BY <1>1, <2>7, <3>1, <3>2, Zenon
  <2> QED
    BY <2>8, <2>9, <2>10 DEF left, un
<1>5. CASE ~(i > Len(x))
  <2> DEFINE m == r.msg
             w == s.mem[m][1].vector
             z == Elements(s, m, r.idx + i, Len(w))
  <2>1. i \in 1 .. Len(x) /\ x # <<>>
    <3> HIDE DEF x, y, Element
    <3>1. i \in 1 .. Len(x)
      BY <1>1, <1>3, <1>5
    <3> QED
      BY <3>1
  <2>2. r # NoReader
    <3> SUFFICES ASSUME r = NoReader PROVE FALSE
      OBVIOUS
    <3>1. r.msg = 0 /\ r.idx = 0 /\ r.len = 0
      BY DEF NoReader
    <3> QED
      BY <2>1, <3>1, NoElements
  <2>3. m \in 1 .. s.len /\ s.mem[m] # <<>> /\ r.len = Len(w) /\ r.idx \in Nat /\ m \in Nat
    <3>1. m \in 1 .. s.pos /\ s.mem[m] # <<>> /\ r.len = Len(w)
      BY <2>2 DEF Holds
    <3>2. m \in 1 .. s.len
      BY <1>2, <3>1
    <3> QED
      BY <3>1, <3>2 DEF Reader
  <2>4. /\ Len(w) \in Nat /\ Len(x) = (IF r.idx <= Len(w) THEN Len(w) - r.idx ELSE 0)
        /\ \A j \in 1 .. Len(w) - r.idx : x[j] = [pdu |-> w[r.idx + j], msg |-> m, idx |-> r.idx + j]
    <3> DEFINE e == Elements(s, m, r.idx, Len(w))
    <3>1. /\ Len(w) \in Nat /\ Len(e) = (IF r.idx <= Len(w) THEN Len(w) - r.idx ELSE 0)
          /\ \A j \in 1 .. Len(w) - r.idx : e[j] = [pdu |-> w[r.idx + j], msg |-> m, idx |-> r.idx + j]
      BY <2>3, ElementsOf
    <3>2. x = e
      BY <2>3
    <3> HIDE DEF x, e, w
    <3> QED
      BY <3>1, <3>2
  <2>5. i \in 1 .. Len(w) - r.idx
    <3> HIDE DEF x, w
    <3> QED
      BY <2>1, <2>3, <2>4
  <2>6. x[i] = [pdu |-> w[r.idx + i], msg |-> m, idx |-> r.idx + i]
    BY <2>4, <2>5
  <2>7. u = x[i]
    <3> HIDE DEF x, y, Element
    <3> QED
      BY <1>1, <1>3, <2>1
  <2>8. u.msg = m /\ u.idx = r.idx + i
    BY <2>6, <2>7
  <2>9. left = z \o y
    <3> HIDE DEF u
    <3>1. StreamAt(s, r, u) = s
      BY <2>8 DEF StreamAt
    <3> DEFINE q == ReaderAt(s, r, u)
    <3>2. q.msg = m /\ q.idx = r.idx + i /\ q.len = Len(w)
      BY <2>3, <2>8 DEF ReaderAt
    <3> HIDE DEF q
    <3>3. left = Elements(s, q.msg, q.idx, q.len) \o y
      BY <3>1, ComingIs DEF q
    <3> QED
      BY <3>2, <3>3
  <2>10. PICK a \in Seq(Element) : Len(a) = i /\ x = a \o z
    <3>1. PICK a \in Seq(Element) : Len(a) = i /\ Elements(s, m, r.idx, Len(w)) = a \o z
      BY <2>3, <2>5, ElementsSplit
    <3> QED
      BY <2>3, <3>1
  <2>11. z \in Seq(Element)
    <3>1. r.idx + i \in Nat
      BY <2>3, <2>5
    <3> QED
      BY <2>3, <3>1, ElementsOf
  <2> HIDE DEF x, y, z, left, un, Element
  <2>12. x \o y = a \o (z \o y)
    <3>1. \A c, d, e \in Seq(Element) : c \o (d \o e) = (c \o d) \o e
      BY Writes!ConcatAssociates, SMTT(60)
    <3> QED
      BY <1>1, <2>10, <2>11, <3>1, Zenon
  <2>13. un \in Seq(Element) /\ left \in Seq(Element) /\ un = a \o left
    BY <1>1, <1>3, <2>9, <2>11, <2>12
  <2> QED
    BY <2>10, <2>13 DEF left, un
<1> QED
  BY <1>4, <1>5

-----------------------------------------------------------------------------
(***************************************************************************)
(* The PDUs of a stream, and how they follow from what was written.        *)
(***************************************************************************)

LEMMA PdusAre ==
  ASSUME NEW a \in Seq(Element)
  PROVE  /\ Pdus(a) \in Seq(PduType) /\ Len(Pdus(a)) = Len(a)
         /\ \A i \in 1 .. Len(a) : Pdus(a)[i] = a[i].pdu
<1>1. Pdus(a) = [i \in 1 .. Len(a) |-> a[i].pdu]
  BY DEF Pdus
<1>2. \A i \in 1 .. Len(a) : a[i].pdu \in PduType
  <2>1. \A i \in 1 .. Len(a) : a[i] \in Element
    OBVIOUS
  <2> QED
    BY <2>1 DEF Element
<1> HIDE DEF Element
<1> QED
  BY <1>1, <1>2

LEMMA PdusOfConcat ==
  ASSUME NEW a \in Seq(Element), NEW b \in Seq(Element)
  PROVE  Pdus(a \o b) = Pdus(a) \o Pdus(b)
<1> DEFINE c == a \o b
           x == Pdus(a)
           y == Pdus(b)
           z == Pdus(c)
<1>1. /\ c \in Seq(Element) /\ Len(c) = Len(a) + Len(b)
      /\ \A i \in 1 .. Len(a) : c[i] = a[i]
      /\ \A i \in 1 .. Len(b) : c[Len(a) + i] = b[i]
  BY Writes!ConcatHas
<1>2. /\ x \in Seq(PduType) /\ y \in Seq(PduType) /\ z \in Seq(PduType)
      /\ Len(x) = Len(a) /\ Len(y) = Len(b) /\ Len(z) = Len(c)
      /\ \A i \in 1 .. Len(a) : x[i] = a[i].pdu
      /\ \A i \in 1 .. Len(b) : y[i] = b[i].pdu
      /\ \A i \in 1 .. Len(c) : z[i] = c[i].pdu
  BY <1>1, PdusAre
<1>3. Len(a) \in Nat /\ Len(b) \in Nat
  OBVIOUS
<1> HIDE DEF c, x, y, z, Element
<1>4. ASSUME NEW i \in 1 .. Len(a) PROVE z[i] = x[i]
  <2>1. i \in 1 .. Len(c)
    BY <1>1, <1>3
  <2> QED
    BY <1>1, <1>2, <2>1, Zenon
<1>5. ASSUME NEW i \in 1 .. Len(b) PROVE z[Len(a) + i] = y[i]
  <2>1. Len(a) + i \in 1 .. Len(c)
    BY <1>1, <1>3
  <2> QED
    BY <1>1, <1>2, <2>1, Zenon
<1>6. z = x \o y
  <2>1. /\ Len(z) = Len(x) + Len(y) /\ Len(x) = Len(a) /\ Len(y) = Len(b)
        /\ x \in Seq(PduType) /\ y \in Seq(PduType) /\ z \in Seq(PduType)
    BY <1>1, <1>2
  <2>2. \A i \in 1 .. Len(x) : z[i] = x[i]
    BY <1>4, <2>1
  <2>3. \A i \in 1 .. Len(y) : z[Len(x) + i] = y[i]
    BY <1>5, <2>1
  <2> QED
    BY <2>1, <2>2, <2>3, Writes!ConcatIs, Zenon
<1> QED
  BY <1>6 DEF x, y, z, c

PdusOf(s, ident) == Pdus(Coming(s, ident))

LEMMA PdusOfElements ==
  ASSUME NEW s \in Stream, NEW m \in 1 .. s.len, s.mem[m] # <<>>
  PROVE  LET v == s.mem[m][1].vector IN Pdus(Elements(s, m, 0, Len(v))) = v
<1> DEFINE v == s.mem[m][1].vector
           e == Elements(s, m, 0, Len(v))
<1>1. /\ v \in Seq(PduType) /\ Len(v) \in Nat /\ e \in Seq(Element) /\ Len(e) = Len(v)
      /\ \A j \in 1 .. Len(v) : e[j] = [pdu |-> v[j], msg |-> m, idx |-> j]
  BY ElementsFromStart
<1> HIDE DEF v, e
<1>2. Pdus(e) \in Seq(PduType) /\ Len(Pdus(e)) = Len(v) /\ \A j \in 1 .. Len(v) : Pdus(e)[j] = e[j].pdu
  BY <1>1, PdusAre
<1>3. ASSUME NEW j \in 1 .. Len(v) PROVE Pdus(e)[j] = v[j]
  <2>1. e[j] = [pdu |-> v[j], msg |-> m, idx |-> j]
    BY <1>1
  <2>2. Pdus(e)[j] = e[j].pdu
    BY <1>2
  <2> QED
    BY <2>1, <2>2
<1> DEFINE p == Pdus(e)
<1> HIDE DEF p
<1>4. p = v
  BY <1>1, <1>2, <1>3, Writes!SeqEqual DEF p
<1> QED
  BY <1>4 DEF p, e, v

LEMMA PdusStep ==
  ASSUME NEW s \in Stream, NEW ident
  PROVE  /\ PdusOf(s, ident) \in Seq(PduType)
         /\ AtEnd(s) => PdusOf(s, ident) = <<>>
         /\ ~AtEnd(s) =>
              PdusOf(s, ident) = (IF Here(s).ident = ident THEN Here(s).vector ELSE <<>>)
                                 \o PdusOf(Behind(s), ident)
<1>1. Coming(s, ident) \in Seq(Element) /\ PdusOf(s, ident) \in Seq(PduType)
  BY ComingIs, PdusAre DEF PdusOf
<1>0. Pdus(<<>>) = <<>>
  BY DEF Pdus
<1>2. AtEnd(s) => PdusOf(s, ident) = <<>>
  BY <1>0, ComingStep DEF PdusOf
<1>3. ASSUME ~AtEnd(s)
      PROVE  PdusOf(s, ident) = (IF Here(s).ident = ident THEN Here(s).vector ELSE <<>>)
                                \o PdusOf(Behind(s), ident)
  <2> DEFINE m == s.pos + 1
             v == s.mem[m][1].vector
             e == Elements(s, m, 0, Len(v))
             x == IF Here(s).ident = ident THEN e ELSE <<>>
             y == Coming(Behind(s), ident)
  <2>1. m \in 1 .. s.len /\ s.mem[m] # <<>> /\ Here(s) = s.mem[m][1] /\ Behind(s) \in Stream
    BY <1>3, HereIs DEF Here
  <2>2. e \in Seq(Element) /\ Pdus(e) = v
    BY <2>1, ElementsFromStart, PdusOfElements
  <2>3. y \in Seq(Element)
    BY <2>1, ComingIs
  <2>4. Coming(s, ident) = x \o y
    BY <1>3, <2>1, ComingStep
  <2> HIDE DEF e, y, v
  <2>5. x \in Seq(Element)
    BY <2>2
  <2>6. Pdus(x) = IF Here(s).ident = ident THEN v ELSE <<>>
    BY <1>0, <2>2
  <2> HIDE DEF x
  <2>7. PdusOf(s, ident) = Pdus(x) \o Pdus(y)
    BY <2>3, <2>4, <2>5, PdusOfConcat DEF PdusOf
  <2> QED
    BY <2>1, <2>6, <2>7 DEF PdusOf, y, v
<1> QED
  BY <1>1, <1>2, <1>3

\* Two streams that have the same cells from some position on hold the same there.
LEMMA SameCells ==
  ASSUME NEW s \in Stream, NEW t \in Stream, NEW ident, NEW d \in Nat, s.len = d + t.len,
         \A j \in 1 .. t.len : s.mem[d + j] = t.mem[j],
         s.pos = d + t.pos
  PROVE  PdusOf(s, ident) = PdusOf(t, ident)
<1> DEFINE G == {p \in 0 .. t.len : PdusOf(SeekSet(s, d + p), ident) = PdusOf(SeekSet(t, p), ident)}
<1>0. s.len \in Nat /\ t.len \in Nat /\ t.pos \in 0 .. t.len
  BY StreamIs
<1>1. ASSUME NEW p \in 0 .. t.len, \A q \in p + 1 .. t.len : q \in G
      PROVE  PdusOf(SeekSet(s, d + p), ident) = PdusOf(SeekSet(t, p), ident)
  <2> DEFINE a == SeekSet(s, d + p)
             b == SeekSet(t, p)
  <2>1. /\ a \in Stream /\ a.mem = s.mem /\ a.len = s.len /\ a.pos = d + p
        /\ b \in Stream /\ b.mem = t.mem /\ b.len = t.len /\ b.pos = p
    <3>1. p \in Nat /\ d + p \in Nat /\ ~(p > t.len) /\ ~(d + p > s.len)
      BY <1>0
    <3> QED
      BY <3>1, SeekSetIs
  <2> HIDE DEF a, b
  <2>2. p < t.len => s.mem[(d + p) + 1] = t.mem[p + 1]
    <3>1. p < t.len => p + 1 \in 1 .. t.len /\ d + (p + 1) = (d + p) + 1
      BY <1>0
    <3> QED
      BY <3>1
  <2>3. AtEnd(a) <=> AtEnd(b)
    <3>1. d + p >= s.len <=> p >= t.len
      BY <1>0
    <3>2. p >= t.len \/ p < t.len
      BY <1>0
    <3> QED
      BY <2>1, <2>2, <3>1, <3>2 DEF AtEnd
  <2>4. CASE AtEnd(b)
    BY <2>1, <2>3, <2>4, PdusStep DEF a, b
  <2>5. CASE ~AtEnd(b)
    <3>1. Here(a) = Here(b)
      <4>1. p < t.len
        BY <1>0, <2>1, <2>5 DEF AtEnd
      <4> QED
        BY <2>1, <2>2, <4>1 DEF Here
    <3>2. Size(Here(b)) \in Nat /\ Behind(b) \in Stream /\ Behind(b).pos \in p + 1 .. t.len
      <4>1. Behind(b) \in Stream /\ Behind(b).pos > p /\ Behind(b).pos <= t.len
        BY <2>1, <2>5, HereIs
      <4>2. Behind(b).pos \in Nat
        BY <4>1, StreamIs
      <4>3. Size(Here(b)) \in Nat
        BY <2>1, <2>5, HereIs
      <4> QED
        BY <1>0, <4>1, <4>2, <4>3
    <3> DEFINE z == Size(Here(b))
               q == Behind(b).pos
    <3>3. q = (IF p + z > t.len THEN t.len ELSE p + z) /\ p + z \in Nat /\ (d + p) + z \in Nat
      <4>1. p + z \in Nat /\ (d + p) + z \in Nat
        <5> HIDE DEF z
        <5> QED
          BY <3>2 DEF z
      <4> QED
        BY <2>1, <4>1, SeekSetIs DEF Behind
    <3>4. Behind(b) = SeekSet(t, q)
      <4>1. Behind(b) = SeekSet(t, p + z)
        BY <2>1, <3>3, SeekTwice DEF Behind, b
      <4>2. SeekSet(t, p + z) = SeekSet(t, q)
        <5> HIDE DEF z, q
        <5>1. CASE p + z > t.len
          <6>1. q = t.len /\ ~(t.len > t.len)
            BY <1>0, <3>3, <5>1
          <6> QED
            BY <5>1, <6>1 DEF SeekSet
        <5>2. CASE ~(p + z > t.len)
          BY <3>3, <5>2
        <5> QED
          BY <5>1, <5>2
      <4> QED
        BY <4>1, <4>2
    <3>5. Behind(a) = SeekSet(s, d + q)
      <4>1. Behind(a) = SeekSet(s, (d + p) + z)
        <5>1. d + p \in Nat
          OBVIOUS
        <5> QED
          BY <2>1, <3>1, <3>3, <5>1, SeekTwice DEF Behind, a
      <4>2. SeekSet(s, (d + p) + z) = SeekSet(s, d + q)
        <5>0. z \in Nat
          BY <3>2
        <5> HIDE DEF z, q
        <5>1. CASE p + z > t.len
          <6>1. (d + p) + z > s.len /\ d + q = s.len /\ ~(s.len > s.len)
            BY <1>0, <3>3, <5>0, <5>1
          <6> QED
            BY <6>1 DEF SeekSet
        <5>2. CASE ~(p + z > t.len)
          <6>1. d + q = (d + p) + z
            BY <3>3, <5>0, <5>2
          <6> QED
            BY <6>1
        <5> QED
          BY <5>1, <5>2
      <4> QED
        BY <4>1, <4>2
    <3>6. PdusOf(Behind(a), ident) = PdusOf(Behind(b), ident)
      <4>1. q \in G
        BY <1>1, <3>2
      <4> HIDE DEF q
      <4> QED
        BY <3>4, <3>5, <4>1
    <3>7. PdusOf(a, ident) = PdusOf(b, ident)
      <4> DEFINE v == IF Here(b).ident = ident THEN Here(b).vector ELSE <<>>
      <4>1. PdusOf(a, ident) = v \o PdusOf(Behind(a), ident)
        BY <2>1, <2>3, <2>5, <3>1, PdusStep
      <4>2. PdusOf(b, ident) = v \o PdusOf(Behind(b), ident)
        BY <2>1, <2>5, PdusStep
      <4> QED
        BY <3>6, <4>1, <4>2
    <3> QED
      BY <3>7 DEF a, b
  <2> QED
    BY <2>4, <2>5
<1>2. t.pos \in G
  <2>1. \A p \in 0 .. t.len : (\A q \in p + 1 .. t.len : q \in G) => p \in G
    BY <1>1
  <2> HIDE DEF G
  <2> QED
    BY <1>0, <2>1, Writes!DownFrom
<1>3. SeekSet(t, t.pos) = t /\ SeekSet(s, d + t.pos) = s
  BY SeekHere
<1> QED
  BY <1>2, <1>3

\* Cells as a stream that is read from its start.
Cells(data) == [mem |-> data, buffer_len |-> 0, len |-> Len(data), pos |-> 0]

PdusIn(data, ident) == PdusOf(Cells(data), ident)

LEMMA CellsAre ==
  ASSUME NEW data \in WholeCells
  PROVE  /\ Cells(data) \in Stream /\ data \in Seq(Cell) /\ Len(data) \in Nat
         /\ Cells(data).mem = data /\ Cells(data).len = Len(data) /\ Cells(data).pos = 0
<1>1. data \in Seq(Cell) /\ Len(data) \in Nat /\ Whole(data, Len(data))
  BY DEF WholeCells
<1>2. /\ Cells(data).mem = data /\ Cells(data).len = Len(data) /\ Cells(data).pos = 0
      /\ Cells(data).buffer_len = 0
  BY DEF Cells
<1>3. Cells(data) \in Memory
  BY <1>1 DEF Cells, Memory
<1>4. 0 <= Len(data) /\ Len(data) <= Len(data)
  BY <1>1
<1> QED
  BY <1>1, <1>2, <1>3, <1>4 DEF Stream, InBounds

LEMMA NoPdusInNone ==
  ASSUME NEW ident
  PROVE  <<>> \in WholeCells /\ PdusIn(<<>>, ident) = <<>>
<1>1. <<>> \in WholeCells
  BY NoneIsWhole DEF WholeCells
<1>2. Cells(<<>>) \in Stream /\ Cells(<<>>).len = Len(<<>>) /\ Cells(<<>>).pos = 0
  BY <1>1, CellsAre
<1>3. AtEnd(Cells(<<>>))
  BY <1>2 DEF AtEnd
<1> QED
  BY <1>1, <1>2, <1>3, PdusStep DEF PdusIn

\* What a node reads from the start of a stream is what it holds.
LEMMA PdusOfContent ==
  ASSUME NEW s \in Stream, NEW ident
  PROVE  PdusOf(SeekSet(s, 0), ident) = PdusIn(Content(SeekSet(s, 0)), ident)
<1> DEFINE t == SeekSet(s, 0)
           data == Content(t)
<1>1. data \in WholeCells
  BY ContentIsWhole
<1>2. t \in Stream /\ t.mem = s.mem /\ t.len = s.len /\ t.pos = 0
  <2>1. s.len \in Nat /\ ~(0 > s.len)
    BY StreamIs
  <2> QED
    BY <2>1, SeekSetIs
<1>3. s.mem \in Seq(Cell) /\ s.len \in Nat /\ s.len <= Len(s.mem)
  BY StreamIs
<1>4. data = SubSeq(s.mem, 1, s.len)
  <2>1. 0 + 1 = 1
    OBVIOUS
  <2> QED
    BY <1>2, <2>1 DEF Content
<1>5. Len(data) = s.len /\ \A j \in 1 .. s.len : data[j] = s.mem[j]
  BY <1>3, <1>4
<1> HIDE DEF t, data
<1>6. Cells(data) \in Stream /\ Cells(data).mem = data /\ Cells(data).len = s.len /\ Cells(data).pos = 0
  BY <1>1, <1>5, CellsAre
<1> DEFINE c == Cells(data)
<1> HIDE DEF c
<1>7. /\ t.len = 0 + c.len /\ t.pos = 0 + c.pos
      /\ \A j \in 1 .. c.len : t.mem[0 + j] = c.mem[j]
  BY <1>2, <1>3, <1>5, <1>6 DEF c
<1>8. PdusOf(t, ident) = PdusOf(c, ident)
  <2>1. PICK d \in Nat : d = 0
    OBVIOUS
  <2>2. /\ t.len = d + c.len /\ t.pos = d + c.pos
        /\ \A j \in 1 .. c.len : t.mem[d + j] = c.mem[j]
    BY <1>7, <2>1
  <2> QED
    BY <1>2, <1>6, <2>2, SameCells DEF c
<1> QED
  BY <1>8 DEF c, t, data, PdusIn

LEMMA CellsConcat ==
  \A x, y \in Seq(Cell) :
    /\ Len(x \o y) = Len(x) + Len(y)
    /\ \A j \in 1 .. Len(x) : (x \o y)[j] = x[j]
    /\ \A j \in 1 .. Len(y) : (x \o y)[Len(x) + j] = y[j]
BY Writes!ConcatHas

\* A message, and what is behind it.
LEMMA PdusInMessage ==
  ASSUME NEW m \in Msg, NEW data \in WholeCells, NEW ident
  PROVE  /\ Encode(m) \o data \in WholeCells
         /\ PdusIn(Encode(m) \o data, ident)
              = (IF m.ident = ident THEN m.vector ELSE <<>>) \o PdusIn(data, ident)
<1> DEFINE e == Encode(m)
           all == e \o data
           s == Cells(all)
           t == Cells(data)
           z == Size(m)
<1>1. e \in WholeCells /\ e \in Seq(Cell) /\ Len(e) = z /\ e[1] = <<m>> /\ z \in Nat \ {0}
  BY EncodedIsWhole, SizeIs
<1>2. all \in WholeCells
  BY <1>1, ConcatIsWhole
<1>3. /\ s \in Stream /\ s.mem = all /\ s.len = Len(all) /\ s.pos = 0
      /\ t \in Stream /\ t.mem = data /\ t.len = Len(data) /\ t.pos = 0
      /\ data \in Seq(Cell) /\ Len(data) \in Nat
  BY <1>2, CellsAre
<1> HIDE DEF e, s, t, z
<1>4. Len(all) = z + Len(data) /\ all[1] = <<m>> /\ \A j \in 1 .. Len(data) : all[z + j] = data[j]
  <2>1. /\ Len(all) = Len(e) + Len(data)
        /\ \A j \in 1 .. Len(e) : all[j] = e[j]
        /\ \A j \in 1 .. Len(data) : all[Len(e) + j] = data[j]
    <3>1. e \in Seq(Cell) /\ data \in Seq(Cell)
      BY <1>1, <1>3
    <3> QED
      BY <3>1, CellsConcat DEF all
  <2>2. 1 \in 1 .. Len(e) /\ Len(e) = z
    BY <1>1
  <2> HIDE DEF all
  <2> QED
    BY <1>1, <2>1, <2>2
<1> HIDE DEF all
<1>5. ~AtEnd(s) /\ Here(s) = m
  <2>1. ~(0 >= z + Len(data))
    BY <1>1, <1>3
  <2>2. 0 + 1 = 1 /\ <<m>> # <<>> /\ <<m>>[1] = m
    OBVIOUS
  <2> QED
    BY <1>3, <1>4, <2>1, <2>2 DEF AtEnd, Here
<1>6. PdusOf(s, ident) = (IF m.ident = ident THEN m.vector ELSE <<>>) \o PdusOf(Behind(s), ident)
  BY <1>3, <1>5, PdusStep
<1>7. Behind(s) \in Stream /\ Behind(s).mem = all /\ Behind(s).len = z + Len(data) /\ Behind(s).pos = z
  <2>1. Behind(s) = SeekSet(s, 0 + z)
    BY <1>3, <1>5 DEF Behind, z
  <2>2. 0 + z = z /\ z \in Nat /\ ~(z > z + Len(data))
    BY <1>1, <1>3
  <2>3. SeekSet(s, z) \in Stream /\ SeekSet(s, z).mem = s.mem /\ SeekSet(s, z).len = s.len
        /\ SeekSet(s, z).pos = IF z > s.len THEN s.len ELSE z
    BY <1>3, <2>2, SeekSetIs
  <2>4. Behind(s) = SeekSet(s, z)
    BY <2>1, <2>2
  <2> QED
    BY <1>3, <1>4, <2>2, <2>3, <2>4
<1>8. PdusOf(Behind(s), ident) = PdusOf(t, ident)
  <2> DEFINE b == Behind(s)
  <2> HIDE DEF b
  <2>1. /\ b \in Stream /\ z \in Nat /\ b.len = z + t.len /\ b.pos = z + t.pos
        /\ \A j \in 1 .. t.len : b.mem[z + j] = t.mem[j]
    BY <1>1, <1>3, <1>4, <1>7 DEF b
  <2>2. PdusOf(b, ident) = PdusOf(t, ident)
    BY <1>3, <2>1, SameCells
  <2> QED
    BY <2>2 DEF b
<1> QED
  BY <1>2, <1>6, <1>8 DEF PdusIn, s, t, all, e

LEMMA PdusInOne ==
  ASSUME NEW m \in Msg, NEW ident
  PROVE  PdusIn(Encode(m), ident) = IF m.ident = ident THEN m.vector ELSE <<>>
<1> DEFINE e == Encode(m)
           v == IF m.ident = ident THEN m.vector ELSE <<>>
<1>1. e \in Seq(Cell)
  BY SizeIs
<1>2. v \in Seq(PduType)
  BY DEF Msg
<1>3. <<>> \in WholeCells /\ PdusIn(<<>>, ident) = <<>>
  BY NoPdusInNone
<1>4. PdusIn(e \o <<>>, ident) = v \o <<>>
  <2>1. PdusIn(e \o <<>>, ident) = v \o PdusIn(<<>>, ident)
    <3>1. \A data \in WholeCells : PdusIn(e \o data, ident) = v \o PdusIn(data, ident)
      BY PdusInMessage
    <3> HIDE DEF e, v
    <3> QED
      BY <1>3, <3>1
  <2> QED
    BY <1>3, <2>1
<1> HIDE DEF e, v
<1>5. e \o <<>> = e /\ v \o <<>> = v
  BY <1>1, <1>2
<1> QED
  BY <1>4, <1>5 DEF e, v

\* What a stream holds that is put together of nothing and of single messages.
Matching(ss, tt, ident) ==
  /\ ss \in Seq(Seq(Cell)) /\ tt \in Seq(Seq(PduType)) /\ Len(ss) = Len(tt)
  /\ \A i \in 1 .. Len(ss) :
       \/ ss[i] = <<>> /\ tt[i] = <<>>
       \/ \E m \in Msg : ss[i] = Encode(m) /\ tt[i] = IF m.ident = ident THEN m.vector ELSE <<>>

LEMMA PdusInAll ==
  ASSUME NEW ss, NEW tt, NEW ident, Matching(ss, tt, ident)
  PROVE  PdusIn(FlattenSeq(ss), ident) = FlattenSeq(tt)
<1>0. PICK n \in Nat :
        /\ ss \in Seq(Seq(Cell)) /\ Len(ss) = n /\ tt \in Seq(Seq(PduType)) /\ Len(tt) = n
        /\ \A i \in 1 .. n :
             \/ ss[i] = <<>> /\ tt[i] = <<>>
             \/ \E m \in Msg : ss[i] = Encode(m) /\ tt[i] = IF m.ident = ident THEN m.vector ELSE <<>>
  <2>1. Len(ss) \in Nat
    BY DEF Matching
  <2> QED
    BY <2>1 DEF Matching
<1> DEFINE R == {x \in WholeCells \X Seq(PduType) : PdusIn(x[1], ident) = x[2]}
<1>1. <<<<>>, <<>>>> \in R
  <2>1. <<>> \in WholeCells /\ PdusIn(<<>>, ident) = <<>> /\ <<>> \in Seq(PduType)
    BY NoPdusInNone
  <2> DEFINE x == <<<<>>, <<>>>>
  <2>2. x \in WholeCells \X Seq(PduType) /\ x[1] = <<>> /\ x[2] = <<>>
    BY <2>1
  <2> HIDE DEF x
  <2> QED
    BY <2>1, <2>2 DEF x
<1>2. ASSUME NEW i \in 1 .. n, NEW a, NEW b, <<a, b>> \in R
      PROVE  <<ss[i] \o a, tt[i] \o b>> \in R
  <2>1. a \in WholeCells /\ b \in Seq(PduType) /\ PdusIn(a, ident) = b
    BY <1>2
  <2>2. a \in Seq(Cell)
    BY <2>1 DEF WholeCells
  <2>3. CASE ss[i] = <<>> /\ tt[i] = <<>>
    <3>1. ss[i] \o a = a /\ tt[i] \o b = b
      BY <2>1, <2>2, <2>3
    <3> QED
      BY <1>2, <3>1
  <2>4. ASSUME NEW m \in Msg, ss[i] = Encode(m),
               tt[i] = IF m.ident = ident THEN m.vector ELSE <<>>
        PROVE  <<ss[i] \o a, tt[i] \o b>> \in R
    <3> DEFINE x == ss[i] \o a
               y == tt[i] \o b
    <3>1. x \in WholeCells /\ PdusIn(x, ident) = y
      <4>0. a \in WholeCells
        BY <2>1
      <4>1. Encode(m) \o a \in WholeCells
        BY <4>0, PdusInMessage, Zenon
      <4>2. PdusIn(Encode(m) \o a, ident) = (IF m.ident = ident THEN m.vector ELSE <<>>) \o PdusIn(a, ident)
        <5>1. \A data \in WholeCells :
                PdusIn(Encode(m) \o data, ident)
                  = (IF m.ident = ident THEN m.vector ELSE <<>>) \o PdusIn(data, ident)
          BY PdusInMessage
        <5> HIDE DEF R
        <5> QED
          BY <4>0, <5>1
      <4> QED
        BY <2>1, <2>4, <4>1, <4>2
    <3>2. y \in Seq(PduType)
      <4>1. tt[i] \in Seq(PduType)
        BY <1>0
      <4> QED
        BY <2>1, <4>1
    <3> HIDE DEF x, y
    <3>3. <<x, y>> \in R
      BY <3>1, <3>2
    <3> QED
      BY <3>3 DEF x, y
  <2> QED
    BY <1>0, <2>3, <2>4
<1>3. <<FlattenSeq(ss), FlattenSeq(tt)>> \in R
  <2> HIDE DEF R
  <2>1. <<Writes!FlattenSeq(ss), Writes!FlattenSeq(tt)>> \in R
    BY <1>0, <1>1, <1>2, Writes!FlattenSeqPairs
  <2> QED
    BY <2>1, WritesFlattenSeq
<1> QED
  BY <1>3

-----------------------------------------------------------------------------
(***************************************************************************)
(* What a codec returns of the PDUs of a stream.                           *)
(***************************************************************************)

\* The PDUs of s that are in T.
Choice(s, T) == [i \in DOMAIN s |-> IF s[i] \in T THEN <<s[i]>> ELSE <<>>]

Chosen(s, T) == FlattenSeq(Choice(s, T))

LEMMA ChoiceIs ==
  ASSUME NEW T, NEW s \in Seq(PduType)
  PROVE  /\ Choice(s, T) \in Seq(Seq(PduType)) /\ Len(Choice(s, T)) = Len(s)
         /\ \A i \in 1 .. Len(s) : Choice(s, T)[i] = IF s[i] \in T THEN <<s[i]>> ELSE <<>>
<1> DEFINE f(i) == IF s[i] \in T THEN <<s[i]>> ELSE <<>>
           U == Seq(PduType)
<1>1. Choice(s, T) = [i \in 1 .. Len(s) |-> f(i)]
  BY DEF Choice
<1>2. ASSUME NEW i \in 1 .. Len(s) PROVE f(i) \in U
  <2>1. s[i] \in PduType
    OBVIOUS
  <2> HIDE DEF f
  <2>2. <<s[i]>> \in Seq(PduType) /\ <<>> \in Seq(PduType)
    BY <2>1
  <2> QED
    BY <2>2 DEF f
<1>3. Len(s) \in Nat
  OBVIOUS
<1> HIDE DEF f, U
<1>4. Choice(s, T) \in Seq(U) /\ Len(Choice(s, T)) = Len(s)
      /\ \A i \in 1 .. Len(s) : Choice(s, T)[i] = f(i)
  BY <1>1, <1>2, <1>3
<1> QED
  BY <1>4 DEF f, U

LEMMA ChosenType ==
  ASSUME NEW T, NEW s \in Seq(PduType)
  PROVE  Chosen(s, T) \in Seq(PduType)
<1>1. Choice(s, T) \in Seq(Seq(PduType))
  BY ChoiceIs
<1>2. Writes!FlattenSeq(Choice(s, T)) \in Seq(PduType)
  BY <1>1, Writes!FlattenSeqType
<1> QED
  BY <1>2, WritesFlattenSeq DEF Chosen

LEMMA ChosenOfConcat ==
  ASSUME NEW T, NEW a \in Seq(PduType), NEW b \in Seq(PduType)
  PROVE  Chosen(a \o b, T) = Chosen(a, T) \o Chosen(b, T)
<1> DEFINE c == a \o b
           x == Choice(a, T)
           y == Choice(b, T)
           z == Choice(c, T)
           U == Seq(PduType)
<1>1. /\ c \in Seq(PduType) /\ Len(c) = Len(a) + Len(b)
      /\ \A i \in 1 .. Len(a) : c[i] = a[i]
      /\ \A i \in 1 .. Len(b) : c[Len(a) + i] = b[i]
  BY Writes!ConcatHas
<1> HIDE DEF c
<1>2. /\ x \in Seq(U) /\ Len(x) = Len(a)
      /\ \A i \in 1 .. Len(a) : x[i] = IF a[i] \in T THEN <<a[i]>> ELSE <<>>
  BY ChoiceIs
<1>3. /\ y \in Seq(U) /\ Len(y) = Len(b)
      /\ \A i \in 1 .. Len(b) : y[i] = IF b[i] \in T THEN <<b[i]>> ELSE <<>>
  BY ChoiceIs
<1>4. /\ z \in Seq(U) /\ Len(z) = Len(c)
      /\ \A i \in 1 .. Len(c) : z[i] = IF c[i] \in T THEN <<c[i]>> ELSE <<>>
  BY <1>1, ChoiceIs
<1>5. Len(a) \in Nat /\ Len(b) \in Nat
  OBVIOUS
<1> HIDE DEF x, y, z, U
<1>6. ASSUME NEW i \in 1 .. Len(x) PROVE z[i] = x[i]
  <2>1. i \in 1 .. Len(c) /\ i \in 1 .. Len(a)
    BY <1>1, <1>2, <1>5
  <2>2. c[i] = a[i]
    BY <1>1, <2>1
  <2> QED
    BY <1>2, <1>4, <2>1, <2>2
<1>7. ASSUME NEW i \in 1 .. Len(y) PROVE z[Len(x) + i] = y[i]
  <2>1. Len(a) + i \in 1 .. Len(c) /\ i \in 1 .. Len(b) /\ Len(x) = Len(a)
    BY <1>1, <1>2, <1>3, <1>5
  <2>2. c[Len(a) + i] = b[i]
    BY <1>1, <2>1
  <2>3. z[Len(a) + i] = IF b[i] \in T THEN <<b[i]>> ELSE <<>>
    BY <1>4, <2>1, <2>2
  <2> QED
    BY <1>3, <2>1, <2>3
<1>8. Len(z) = Len(x) + Len(y)
  BY <1>1, <1>2, <1>3, <1>4
<1>9. z = x \o y
  BY <1>2, <1>3, <1>4, <1>6, <1>7, <1>8, Writes!ConcatIs
<1>10. Writes!FlattenSeq(x \o y) = Writes!FlattenSeq(x) \o Writes!FlattenSeq(y)
  BY <1>2, <1>3, Writes!FlattenSeqOfConcat DEF U
<1> QED
  BY <1>9, <1>10, WritesFlattenSeq DEF Chosen, x, y, z, c

LEMMA NothingChosen ==
  ASSUME NEW T, NEW s \in Seq(PduType), \A i \in 1 .. Len(s) : s[i] \notin T
  PROVE  Chosen(s, T) = <<>>
<1> DEFINE W == {<<>>}
<1>1. Choice(s, T) = [i \in 1 .. Len(s) |-> <<>>]
  <2>1. Choice(s, T) = [i \in 1 .. Len(s) |-> IF s[i] \in T THEN <<s[i]>> ELSE <<>>]
    BY DEF Choice
  <2> QED
    BY <2>1
<1>2. Choice(s, T) \in Seq(W)
  BY <1>1
<1>3. <<>> \in W /\ \A x, y \in W : x \o y \in W
  OBVIOUS
<1>4. Writes!FlattenSeq(Choice(s, T)) \in W
  <2> HIDE DEF W
  <2> QED
    BY <1>2, <1>3, Writes!FlattenSeqStaysIn
<1> QED
  BY <1>4, WritesFlattenSeq DEF Chosen

LEMMA OneChosen ==
  ASSUME NEW T, NEW p \in PduType
  PROVE  Chosen(<<p>>, T) = IF p \in T THEN <<p>> ELSE <<>>
<1> DEFINE v == IF p \in T THEN <<p>> ELSE <<>>
<1>1. v \in Seq(PduType)
  OBVIOUS
<1>2. Choice(<<p>>, T) = <<v>>
  <2>1. DOMAIN <<p>> = 1 .. 1 /\ <<p>>[1] = p
    OBVIOUS
  <2>2. Choice(<<p>>, T) = [i \in 1 .. 1 |-> v]
    BY <2>1 DEF Choice
  <2> HIDE DEF v
  <2> QED
    BY <2>2
<1> HIDE DEF v
<1>3. Writes!FlattenSeq(<<v>>) = v
  BY <1>1, Writes!FlattenSeqOfOne
<1> QED
  BY <1>2, <1>3, WritesFlattenSeq DEF Chosen, v

LEMMA ChosenOfNone == \A T : Chosen(<<>>, T) = <<>>
<1> TAKE T
<1>1. <<>> \in Seq(PduType) /\ \A i \in 1 .. Len(<<>>) : <<>>[i] \notin T
  OBVIOUS
<1> QED
  BY <1>1, NothingChosen

\* What is the first that is chosen, is the only one up to it.
LEMMA FirstChosen ==
  ASSUME NEW T, NEW s \in Seq(PduType), s # <<>>, s[Len(s)] \in T,
         \A i \in 1 .. Len(s) - 1 : s[i] \notin T
  PROVE  Chosen(s, T) = <<s[Len(s)]>>
<1> DEFINE p == s[Len(s)]
           a == SubSeq(s, 1, Len(s) - 1)
<1>0. Len(s) \in Nat \ {0}
  OBVIOUS
<1>1. a \in Seq(PduType) /\ Len(a) = Len(s) - 1 /\ \A i \in 1 .. Len(a) : a[i] = s[i]
  <2>1. PICK n \in Nat : Len(s) = n + 1
    BY <1>0
  <2>2. Len(s) - 1 = n
    BY <2>1
  <2>3. SubSeq(s, 1, n) \in Seq(PduType) /\ Len(SubSeq(s, 1, n)) = n
        /\ \A i \in 1 .. n : SubSeq(s, 1, n)[i] = s[i]
    BY <2>1
  <2> QED
    BY <2>2, <2>3
<1>2. p \in PduType
  OBVIOUS
<1>3. s = a \o <<p>>
  OBVIOUS
<1> HIDE DEF a, p
<1>4. Chosen(s, T) = Chosen(a, T) \o Chosen(<<p>>, T)
  <2>1. <<p>> \in Seq(PduType)
    BY <1>2
  <2>2. Chosen(a \o <<p>>, T) = Chosen(a, T) \o Chosen(<<p>>, T)
    BY <1>1, <2>1, ChosenOfConcat
  <2> QED
    BY <1>3, <2>2
<1>5. Chosen(a, T) = <<>>
  BY <1>1, NothingChosen
<1>6. Chosen(<<p>>, T) = <<p>>
  BY <1>2, OneChosen DEF p
<1>7. <<>> \o <<p>> = <<p>>
  BY <1>2
<1> QED
  BY <1>4, <1>5, <1>6, <1>7 DEF p

ForModel(k) == {p \in PduType : Consumes(k, p)}

ForReader(k) == {p \in PduType : ~Consumes(k, p) /\ ~Filtered(k, p)}

\* What the bus model makes of the PDUs it consumed.
Sends(k, held) == [i \in DOMAIN held |-> Written(k, held[i])]

LEMMA WrittenType ==
  ASSUME NEW k, IsSetting(k), NEW p \in PduType
  PROVE  Written(k, p) \in PduType
<1>1. (IF k.type = "pdu" /\ p.sender # 0 THEN p.sender ELSE k.id) \in Nat
  BY DEF PduType, IsSetting
<1> QED
  BY <1>1 DEF Written, PduType

LEMMA SendsType ==
  ASSUME NEW k, IsSetting(k), NEW held \in Seq(PduType)
  PROVE  Sends(k, held) \in Seq(PduType)
<1>1. \A i \in 1 .. Len(held) : Written(k, held[i]) \in PduType
  BY WrittenType
<1> QED
  BY <1>1 DEF Sends

LEMMA ReturnsIs ==
  ASSUME NEW k, NEW held \in Seq(PduType), NEW net \in Seq(PduType)
  PROVE  Returns(k, held, net)
           = Chosen(net, ForReader(k)) \o Sends(k, held \o Chosen(net, ForModel(k)))
<1>0. \A i \in DOMAIN net : net[i] \in PduType
  OBVIOUS
<1>1. [i \in DOMAIN net |-> IF Consumes(k, net[i]) THEN <<net[i]>> ELSE <<>>]
        = Choice(net, ForModel(k))
  BY <1>0 DEF Choice, ForModel
<1>2. [i \in DOMAIN net |->
        IF Consumes(k, net[i]) \/ Filtered(k, net[i]) THEN <<>> ELSE <<net[i]>>]
        = Choice(net, ForReader(k))
  BY <1>0 DEF Choice, ForReader
<1> QED
  BY <1>1, <1>2 DEF Returns, Chosen, Sends

\* Some of the PDUs are read, the others are left.
LEMMA ReturnsOfConcat ==
  ASSUME NEW k, IsSetting(k), NEW held \in Seq(PduType), NEW a \in Seq(PduType),
         NEW b \in Seq(PduType)
  PROVE  Returns(k, held, a \o b)
           = Chosen(a, ForReader(k)) \o Returns(k, held \o Chosen(a, ForModel(k)), b)
<1> DEFINE ra == Chosen(a, ForReader(k))
           rb == Chosen(b, ForReader(k))
           ma == Chosen(a, ForModel(k))
           mb == Chosen(b, ForModel(k))
           h1 == held \o ma
<1>1. /\ ra \in Seq(PduType) /\ rb \in Seq(PduType) /\ ma \in Seq(PduType) /\ mb \in Seq(PduType)
      /\ a \o b \in Seq(PduType)
  BY ChosenType
<1>2. Chosen(a \o b, ForReader(k)) = ra \o rb /\ Chosen(a \o b, ForModel(k)) = ma \o mb
  BY ChosenOfConcat
<1> HIDE DEF ra, rb, ma, mb
<1>3. Returns(k, held, a \o b) = (ra \o rb) \o Sends(k, held \o (ma \o mb))
  <2> DEFINE ab == a \o b
  <2>1. ab \in Seq(PduType)
    BY <1>1
  <2> HIDE DEF ab
  <2>2. Returns(k, held, ab) = Chosen(ab, ForReader(k)) \o Sends(k, held \o Chosen(ab, ForModel(k)))
    BY <2>1, ReturnsIs
  <2> QED
    BY <1>2, <2>2 DEF ab
<1>4. \A x, y, z \in Seq(PduType) : x \o (y \o z) = (x \o y) \o z
  BY Writes!ConcatAssociates, SMTT(60)
<1>5. held \o (ma \o mb) = h1 \o mb
  <2>1. held \in Seq(PduType) /\ ma \in Seq(PduType) /\ mb \in Seq(PduType)
    BY <1>1
  <2> HIDE DEF h1
  <2>2. held \o (ma \o mb) = (held \o ma) \o mb
    BY <1>4, <2>1
  <2> QED
    BY <2>2 DEF h1
<1>6. h1 \in Seq(PduType) /\ h1 \o mb \in Seq(PduType)
  BY <1>1
<1> HIDE DEF h1
<1>7. Sends(k, h1 \o mb) \in Seq(PduType)
  BY <1>6, SendsType
<1>8. (ra \o rb) \o Sends(k, h1 \o mb) = ra \o (rb \o Sends(k, h1 \o mb))
  <2> DEFINE w == Sends(k, h1 \o mb)
  <2>1. ra \in Seq(PduType) /\ rb \in Seq(PduType) /\ w \in Seq(PduType)
    BY <1>1, <1>7
  <2> HIDE DEF w
  <2>2. ra \o (rb \o w) = (ra \o rb) \o w
    <3>1. \A z \in Seq(PduType) : ra \o (rb \o z) = (ra \o rb) \o z
      <4>1. ra \in Seq(PduType) /\ rb \in Seq(PduType)
        BY <2>1
      <4> QED
        BY <1>4, <4>1
    <3> QED
      BY <2>1, <3>1
  <2> QED
    BY <2>2 DEF w
<1>9. Returns(k, h1, b) = rb \o Sends(k, h1 \o mb)
  BY <1>6, ReturnsIs DEF rb, mb
<1> QED
  BY <1>3, <1>5, <1>8, <1>9 DEF ra, ma, h1

LEMMA ReturnsOfNone ==
  ASSUME NEW k, IsSetting(k), NEW held \in Seq(PduType)
  PROVE  Returns(k, held, <<>>) = Sends(k, held)
<1>1. <<>> \in Seq(PduType)
  OBVIOUS
<1>2. Returns(k, held, <<>>) = <<>> \o Sends(k, held \o <<>>)
  BY <1>1, ReturnsIs, ChosenOfNone
<1>3. held \o <<>> = held
  OBVIOUS
<1>4. Sends(k, held) \in Seq(PduType)
  BY SendsType
<1>5. <<>> \o Sends(k, held) = Sends(k, held)
  BY <1>4
<1> QED
  BY <1>2, <1>3, <1>5

LEMMA SendsNone == \A k : Sends(k, <<>>) = <<>>
BY DEF Sends

-----------------------------------------------------------------------------
(***************************************************************************)
(* What a codec has still to return, and what a read takes from it.        *)
(***************************************************************************)

LEMMA UnreadIs ==
  ASSUME NEW s \in Stream, NEW r \in Reader, Holds(s, r), NEW ident
  PROVE  Unread(s, r, ident) \in Seq(Element)
<1> DEFINE x == Elements(s, r.msg, r.idx, r.len)
           y == Coming(s, ident)
<1>1. y \in Seq(Element) /\ Unread(s, r, ident) = x \o y
  BY ComingIs
<1>2. s.pos \in Nat /\ s.len \in Nat /\ s.pos <= s.len
  BY StreamIs
<1>3. x \in Seq(Element)
  <2>1. CASE r = NoReader
    <3>1. r.msg = 0 /\ r.idx = 0 /\ r.len = 0
      BY <2>1 DEF NoReader
    <3>2. x = <<>>
      BY <3>1, NoElements
    <3> HIDE DEF x, Element
    <3> QED
      BY <3>2
  <2>2. CASE r # NoReader
    <3>1. r.msg \in 1 .. s.pos /\ s.mem[r.msg] # <<>> /\ r.len = Len(s.mem[r.msg][1].vector)
      BY <2>2 DEF Holds
    <3>2. r.msg \in 1 .. s.len /\ r.idx \in Nat
      BY <1>2, <3>1 DEF Reader
    <3> QED
      BY <3>1, <3>2, ElementsOf
  <2> QED
    BY <2>1, <2>2
<1> HIDE DEF x, y, Element
<1> QED
  BY <1>1, <1>3

\* The element at i is the first one that is for a reader.
FirstFor(k, un, i) ==
  un[i].pdu \in ForReader(k) /\ \A j \in 1 .. i - 1 : un[j].pdu \notin ForReader(k)

\* A read that returns the last element of a, and leaves those of left.
LEMMA ReadsUpTo ==
  ASSUME NEW k, IsSetting(k), NEW held \in Seq(PduType),
         NEW a \in Seq(Element), NEW left \in Seq(Element), a # <<>>,
         FirstFor(k, a, Len(a))
  PROVE  Returns(k, held, Pdus(a \o left))
           = <<a[Len(a)].pdu>> \o Returns(k, held \o Chosen(Pdus(a), ForModel(k)), Pdus(left))
<1> DEFINE p == Pdus(a)
           q == Pdus(left)
<1>1. Len(a) \in Nat \ {0}
  <2> HIDE DEF Element
  <2> QED
    OBVIOUS
<1>2. /\ p \in Seq(PduType) /\ Len(p) = Len(a) /\ q \in Seq(PduType)
      /\ \A j \in 1 .. Len(a) : p[j] = a[j].pdu
  BY PdusAre
<1>3. Pdus(a \o left) = p \o q
  BY PdusOfConcat
<1> HIDE DEF p, q, Element
<1>4. Chosen(p, ForReader(k)) = <<a[Len(a)].pdu>>
  <2>1. p # <<>> /\ p[Len(p)] = a[Len(a)].pdu
    BY <1>1, <1>2
  <2>2. ASSUME NEW j \in 1 .. Len(p) - 1 PROVE p[j] \notin ForReader(k)
    <3>1. j \in 1 .. Len(a) - 1 /\ j \in 1 .. Len(a)
      BY <1>1, <1>2
    <3>2. a[j].pdu \notin ForReader(k)
      BY <3>1 DEF FirstFor
    <3> QED
      BY <1>2, <3>1, <3>2
  <2>3. Chosen(p, ForReader(k)) = <<p[Len(p)]>>
    <3>1. p[Len(p)] \in ForReader(k)
      BY <2>1 DEF FirstFor
    <3> QED
      BY <1>2, <2>1, <2>2, <3>1, FirstChosen
  <2> QED
    BY <2>1, <2>3
<1>5. Returns(k, held, p \o q)
         = Chosen(p, ForReader(k)) \o Returns(k, held \o Chosen(p, ForModel(k)), q)
  BY <1>2, ReturnsOfConcat
<1> QED
  BY <1>3, <1>4, <1>5 DEF p, q

\* A read that finds nothing to return, and consumes all.
LEMMA ReadsAll ==
  ASSUME NEW k, IsSetting(k), NEW held \in Seq(PduType), NEW un \in Seq(Element),
         \A j \in 1 .. Len(un) : un[j].pdu \notin ForReader(k)
  PROVE  Returns(k, held, Pdus(un)) = Sends(k, held \o Chosen(Pdus(un), ForModel(k)))
<1> DEFINE p == Pdus(un)
           h == held \o Chosen(p, ForModel(k))
<1>1. p \in Seq(PduType) /\ Len(p) = Len(un) /\ \A j \in 1 .. Len(un) : p[j] = un[j].pdu
  BY PdusAre
<1> HIDE DEF p, Element
<1>2. Chosen(p, ForReader(k)) = <<>>
  BY <1>1, NothingChosen
<1>3. Returns(k, held, p) = <<>> \o Sends(k, h)
  BY <1>1, <1>2, ReturnsIs
<1>4. h \in Seq(PduType)
  <2>1. Chosen(p, ForModel(k)) \in Seq(PduType)
    BY <1>1, ChosenType
  <2> QED
    BY <2>1
<1> HIDE DEF h
<1>5. Sends(k, h) \in Seq(PduType)
  BY <1>4, SendsType
<1>6. <<>> \o Sends(k, h) = Sends(k, h)
  BY <1>5
<1> QED
  BY <1>3, <1>6 DEF h, p

LEMMA SeenIs ==
  ASSUME NEW k, NEW seen \in Seq(Element)
  PROVE  FlattenSeq([j \in DOMAIN seen |->
                      IF Consumes(k, seen[j].pdu) THEN <<seen[j].pdu>> ELSE <<>>])
           = Chosen(Pdus(seen), ForModel(k))
<1> DEFINE p == Pdus(seen)
<1>1. p \in Seq(PduType) /\ Len(p) = Len(seen) /\ \A j \in 1 .. Len(seen) : p[j] = seen[j].pdu
  BY PdusAre
<1>2. DOMAIN p = DOMAIN seen /\ \A j \in DOMAIN seen : p[j] = seen[j].pdu /\ p[j] \in PduType
  <2> HIDE DEF p, Element
  <2> QED
    BY <1>1
<1> HIDE DEF p, Element
<1>3. [j \in DOMAIN seen |-> IF Consumes(k, seen[j].pdu) THEN <<seen[j].pdu>> ELSE <<>>]
        = Choice(p, ForModel(k))
  BY <1>2 DEF Choice, ForModel
<1> QED
  BY <1>3 DEF Chosen, p

\* A read from stream s that returns the element at i, the first for a reader.
ReadsAt(k, s, r, ident, i) ==
  /\ s \in Stream /\ r \in Reader /\ Holds(s, r)
  /\ i \in 1 .. Len(Unread(s, r, ident))
  /\ FirstFor(k, Unread(s, r, ident), i)

Takes(k, held, s, r, ident, i) ==
  LET un == Unread(s, r, ident)
      seen == SubSeq(un, 1, i)
      left == Unread(StreamAt(s, r, un[i]), ReaderAt(s, r, un[i]), ident)
  IN  /\ seen \in Seq(Element) /\ left \in Seq(Element)
      /\ Returns(k, held, Pdus(un))
           = <<un[i].pdu>> \o Returns(k, held \o Chosen(Pdus(seen), ForModel(k)), Pdus(left))

LEMMA ReadTakes ==
  ASSUME NEW k, IsSetting(k), NEW held \in Seq(PduType), NEW s, NEW r, NEW ident, NEW i,
         ReadsAt(k, s, r, ident, i)
  PROVE  Takes(k, held, s, r, ident, i)
<1> DEFINE un == Unread(s, r, ident)
           left == Unread(StreamAt(s, r, un[i]), ReaderAt(s, r, un[i]), ident)
<1>0. /\ s \in Stream /\ r \in Reader /\ Holds(s, r) /\ i \in 1 .. Len(un)
      /\ FirstFor(k, un, i)
  BY DEF ReadsAt
<1>1. un \in Seq(Element) /\ left \in Seq(Element)
      /\ \E a \in Seq(Element) : Len(a) = i /\ un = a \o left
  BY <1>0, UnreadResumes, Zenon
<1> HIDE DEF un, left
<1>2. PICK a \in Seq(Element) : Len(a) = i /\ un = a \o left
  BY <1>1
<1>3. SubSeq(un, 1, i) = a
  <2>1. \A x, y \in Seq(Element) : SubSeq(x \o y, 1, Len(x)) = x
    BY Writes!FirstPart
  <2> HIDE DEF Element
  <2> QED
    BY <1>1, <1>2, <2>1
<1>4. \A j \in 1 .. i : a[j] = un[j]
  <2>1. \A x, y \in Seq(Element) : \A j \in 1 .. Len(x) : (x \o y)[j] = x[j]
    BY Writes!ConcatHas
  <2> HIDE DEF Element
  <2> QED
    BY <1>1, <1>2, <2>1
<1> HIDE DEF Element
<1>5. i \in Nat \ {0}
  BY <1>0, <1>1, <1>2
<1>6. a # <<>> /\ a[Len(a)].pdu = un[i].pdu /\ FirstFor(k, a, Len(a))
  <2>1. a # <<>> /\ a[i] = un[i] /\ Len(a) = i
    BY <1>2, <1>4, <1>5
  <2>2. \A j \in 1 .. i - 1 : a[j] = un[j]
    BY <1>4, <1>5
  <2> QED
    BY <1>0, <2>1, <2>2 DEF FirstFor
<1>7. Returns(k, held, Pdus(a \o left))
        = <<a[Len(a)].pdu>> \o Returns(k, held \o Chosen(Pdus(a), ForModel(k)), Pdus(left))
  <2>1. left \in Seq(Element) /\ a # <<>> /\ FirstFor(k, a, Len(a))
    BY <1>1, <1>6
  <2> QED
    BY <2>1, ReadsUpTo, Zenon
<1> QED
  BY <1>1, <1>2, <1>3, <1>6, <1>7 DEF un, left, Takes

\* ToReturn() of an instance, of a node that reads.
Left(k, c) ==
  IF ~c.stage.ncodec_consumed
  THEN Returns(k, c.held, Pdus(Unread(c.stream, c.reader, Identifier(k.type))))
  ELSE IF k.model THEN Pdus(Unread(c.bus.stream, c.reader, Identifier("pdu"))) ELSE <<>>

\* What a frame interface reads is no longer left.
LEMMA FrameLeft ==
  ASSUME NEW k, IsSetting(k), k.type = "frame", k.model = FALSE,
         NEW c \in Codec, Fits(c), ~c.stage.ncodec_consumed, c.held = <<>>
  PROVE  LET r == ReadFrame(k, c)
         IN  /\ Left(k, c) = r.got \o Left(k, r.c)
             /\ r.got = <<>> => Left(k, r.c) = <<>>
             /\ r.c.held = <<>> /\ r.c.stage = c.stage
             /\ r.c.builder = c.builder
<1> DEFINE un == Unread(c.stream, c.reader, Identifier("frame"))
           I == {j \in 1 .. Len(un) : ~Filtered(k, un[j].pdu)}
           i == SelectInSeq(un, LAMBDA u : ~Filtered(k, u.pdu))
           r == ReadFrame(k, c)
           s1 == StreamAt(c.stream, c.reader, un[i])
           r1 == ReaderAt(c.stream, c.reader, un[i])
<1>1. r = IF i = 0
          THEN [got |-> <<>>, c |-> [c EXCEPT !.reader = NoReader, !.stream = SeekEnd(c.stream)]]
          ELSE [got |-> <<un[i].pdu>>, c |-> [c EXCEPT !.reader = r1, !.stream = s1]]
  BY DEF ReadFrame
<1>2. c.stream \in Stream /\ c.reader \in Reader /\ Holds(c.stream, c.reader)
  BY DEF Codec, Fits
<1>3. un \in Seq(Element)
  BY <1>2, UnreadIs
<1>4. i = (IF I # {} THEN Min(I) ELSE 0)
  BY DEF SelectInSeq
<1>5. Left(k, c) = Returns(k, <<>>, Pdus(un))
  BY DEF Left
<1>6. \A p \in PduType : p \in ForReader(k) <=> ~Filtered(k, p)
  BY DEF ForReader, Consumes
<1>7. \A p \in PduType : p \notin ForModel(k)
  BY DEF ForModel, Consumes
<1>8. \A j \in 1 .. Len(un) : un[j].pdu \in PduType
  <2>1. \A j \in 1 .. Len(un) : un[j] \in Element
    BY <1>3
  <2> QED
    BY <2>1 DEF Element
<1> HIDE DEF un, i, Element, s1, r1
<1>9. CASE i = 0
  <2>1. r.got = <<>> /\ r.c = [c EXCEPT !.reader = NoReader, !.stream = SeekEnd(c.stream)]
    BY <1>1, <1>9
  <2> HIDE DEF r
  <2>2. /\ r.c.reader = NoReader /\ r.c.stream = SeekEnd(c.stream) /\ r.c.held = <<>>
        /\ r.c.stage = c.stage /\ r.c.builder = c.builder
    BY <2>1 DEF Codec
  <2>3. I = {}
    <3> SUFFICES ASSUME I # {} PROVE FALSE
      OBVIOUS
    <3>1. I \in SUBSET Nat
      OBVIOUS
    <3>2. 0 \notin I
      OBVIOUS
    <3> HIDE DEF I
    <3> QED
      BY <1>4, <1>9, <3>1, <3>2, Writes!LeastOf DEF Min
  <2>4. Left(k, c) = <<>>
    <3>1. \A j \in 1 .. Len(un) : un[j].pdu \notin ForReader(k)
      BY <1>6, <1>8, <2>3
    <3> DEFINE p == Pdus(un)
    <3>2. p \in Seq(PduType)
      BY <1>3, PdusAre
    <3> HIDE DEF p
    <3>3. Chosen(p, ForModel(k)) = <<>>
      <4>1. \A j \in 1 .. Len(p) : p[j] \notin ForModel(k)
        BY <1>7, <3>2
      <4> QED
        BY <3>2, <4>1, NothingChosen
    <3>4. <<>> \in Seq(PduType) /\ <<>> \o <<>> = <<>>
      OBVIOUS
    <3>5. Returns(k, <<>>, p) = Sends(k, <<>> \o Chosen(p, ForModel(k)))
      BY <1>3, <3>1, <3>4, ReadsAll DEF p
    <3> QED
      BY <1>5, <3>3, <3>4, <3>5, SendsNone DEF p
  <2>5. Left(k, r.c) = <<>>
    <3>1. AtEnd(SeekEnd(c.stream)) /\ SeekEnd(c.stream) \in Stream
      <4>1. c.stream \in Memory /\ c.stream.len \in Nat
        BY <1>2, StreamIs DEF Stream
      <4>2. SeekEnd(c.stream).pos = c.stream.len /\ SeekEnd(c.stream).len = c.stream.len
        BY <4>1 DEF SeekEnd, Memory
      <4> QED
        BY <1>2, <4>1, <4>2, SeekIs DEF AtEnd
    <3>2. Pdus(Unread(r.c.stream, r.c.reader, Identifier(k.type))) = <<>>
      BY <2>2, <3>1, PdusStep DEF PdusOf, Coming
    <3>3. Left(k, r.c) = Returns(k, <<>>, <<>>)
      BY <2>2, <3>2 DEF Left
    <3>4. <<>> \in Seq(PduType)
      OBVIOUS
    <3> QED
      BY <3>3, <3>4, ReturnsOfNone, SendsNone
  <2> QED
    BY <2>1, <2>2, <2>4, <2>5 DEF r
<1>10. CASE i # 0
  <2>1. r.got = <<un[i].pdu>> /\ r.c = [c EXCEPT !.reader = r1, !.stream = s1]
    BY <1>1, <1>10
  <2> HIDE DEF r
  <2>2. /\ r.c.reader = r1 /\ r.c.stream = s1 /\ r.c.held = <<>>
        /\ r.c.stage = c.stage /\ r.c.builder = c.builder
    BY <2>1 DEF Codec
  <2>3. i \in I /\ \A j \in I : i <= j
    <3>1. I \in SUBSET Nat /\ I # {}
      BY <1>4, <1>10
    <3> HIDE DEF I
    <3> QED
      BY <1>4, <3>1, Writes!LeastOf DEF Min
  <2>4. i \in 1 .. Len(un) /\ FirstFor(k, un, i)
    <3>1. i \in 1 .. Len(un) /\ un[i].pdu \in ForReader(k)
      BY <1>6, <1>8, <2>3
    <3>2. ASSUME NEW j \in 1 .. i - 1 PROVE un[j].pdu \notin ForReader(k)
      <4>1. j \in 1 .. Len(un) /\ ~(i <= j)
        BY <1>3, <3>1
      <4>2. j \notin I
        BY <2>3, <4>1
      <4> QED
        BY <1>6, <1>8, <4>1, <4>2
    <3> QED
      BY <3>1, <3>2 DEF FirstFor
  <2> DEFINE seen == SubSeq(un, 1, i)
             left == Unread(s1, r1, Identifier("frame"))
             h == <<>> \o Chosen(Pdus(seen), ForModel(k))
  <2>6. /\ seen \in Seq(Element)
        /\ Returns(k, <<>>, Pdus(un)) = <<un[i].pdu>> \o Returns(k, h, Pdus(left))
    <3>1. <<>> \in Seq(PduType)
      OBVIOUS
    <3> HIDE DEF I
    <3>2. ReadsAt(k, c.stream, c.reader, Identifier("frame"), i)
      BY <1>2, <2>4 DEF ReadsAt, un
    <3>3. Takes(k, <<>>, c.stream, c.reader, Identifier("frame"), i)
      BY <3>1, <3>2, ReadTakes
    <3> QED
      BY <3>3 DEF Takes, un, s1, r1
  <2> HIDE DEF seen
  <2>7. h = <<>>
    <3> DEFINE p == Pdus(seen)
    <3>1. p \in Seq(PduType)
      BY <2>6, PdusAre
    <3> HIDE DEF p
    <3>2. \A j \in 1 .. Len(p) : p[j] \notin ForModel(k)
      BY <1>7, <3>1
    <3>3. Chosen(p, ForModel(k)) = <<>>
      BY <3>1, <3>2, NothingChosen
    <3>4. <<>> \o <<>> = <<>>
      OBVIOUS
    <3> QED
      BY <3>3, <3>4 DEF p
  <2>8. Left(k, r.c) = Returns(k, <<>>, Pdus(left))
    BY <2>2 DEF Left
  <2> HIDE DEF h, left
  <2>9. Left(k, c) = r.got \o Left(k, r.c)
    BY <1>5, <2>1, <2>6, <2>7, <2>8
  <2>10. r.got # <<>>
    BY <2>1
  <2> QED
    BY <2>2, <2>9, <2>10 DEF r
<1> QED
  BY <1>9, <1>10

\* What the bus model writes is one message of what it was given.
LEMMA ProgressIs ==
  ASSUME NEW k, NEW t, NEW w, NEW held \in Seq(PduType), k.type = "pdu"
  PROVE  Progress(k, [stream |-> t, builder |-> <<>>, write_time |-> w], held)
           = [stream |-> t, write_time |-> w,
              builder |-> IF held = <<>> THEN <<>>
                          ELSE <<[ident |-> "SPDU", time |-> w, vector |-> Sends(k, held)]>>]
<1> DEFINE n == Len(held)
           base == [stream |-> t, builder |-> <<>>, write_time |-> w]
           ws == [j \in DOMAIN held |-> [by |-> k, pdu |-> held[j]]]
           V(i) == [j \in 1 .. i |-> Written(k, held[j])]
           M(i) == [ident |-> "SPDU", time |-> w, vector |-> V(i)]
           B(i) == [stream |-> t, write_time |-> w, builder |-> IF i = 0 THEN <<>> ELSE <<M(i)>>]
           R == {<<i, B(i)>> : i \in 0 .. n}
<1>1. n \in Nat /\ DOMAIN held = 1 .. n /\ DOMAIN ws = 1 .. n
  OBVIOUS
<1>2. \A j \in 1 .. n : ws[j].by = k /\ ws[j].pdu = held[j]
  OBVIOUS
<1>3. B(0) = base
  OBVIOUS
<1> HIDE DEF ws
<1>4. ASSUME NEW i \in 0 .. n - 1 PROVE WriteNext(B(i), ws[i + 1]) = B(i + 1)
  <2> DEFINE p == held[i + 1]
             m0 == IF B(i).builder = <<>>
                   THEN [ident |-> "SPDU", time |-> w, vector |-> <<>>]
                   ELSE B(i).builder[1]
             m1 == [m0 EXCEPT !.vector = Append(m0.vector, Written(k, p))]
  <2>1. i \in Nat /\ i + 1 \in 1 .. n /\ i + 1 # 0
    BY <1>1
  <2>2. WriteNext(B(i), ws[i + 1]) = [B(i) EXCEPT !.builder = <<m1>>]
    <3>1. ws[i + 1].by = k /\ ws[i + 1].pdu = p
      BY <1>2, <2>1
    <3> HIDE DEF p
    <3>2. B(i).write_time = w
      OBVIOUS
    <3> HIDE DEF B
    <3> QED
      BY <3>1, <3>2 DEF WriteNext, WriteMsg, Identifier
  <2>3. m0 = M(i)
    <3>1. CASE i = 0
      <4>1. V(i) = <<>>
        BY <3>1
      <4>2. B(i).builder = <<>>
        BY <3>1
      <4> HIDE DEF V, B
      <4> QED
        BY <4>1, <4>2
    <3>2. CASE i # 0
      <4>1. B(i).builder = <<M(i)>>
        BY <3>2
      <4> HIDE DEF M, B
      <4> QED
        BY <4>1
    <3> QED
      BY <3>1, <3>2
  <2>4. Append(V(i), Written(k, p)) = V(i + 1)
    <3> DEFINE T == {Written(k, held[j]) : j \in 1 .. n}
               x == V(i)
               y == V(i + 1)
               e == Written(k, p)
    <3>1. x \in Seq(T) /\ Len(x) = i /\ \A j \in 1 .. i : x[j] = Written(k, held[j])
      <4>1. \A j \in 1 .. i : Written(k, held[j]) \in T
        BY <1>1
      <4> HIDE DEF T
      <4> QED
        BY <2>1, <4>1
    <3>2. y \in Seq(T) /\ Len(y) = i + 1 /\ \A j \in 1 .. i + 1 : y[j] = Written(k, held[j])
      <4>1. \A j \in 1 .. i + 1 : Written(k, held[j]) \in T
        BY <1>1, <2>1
      <4> HIDE DEF T
      <4> QED
        BY <2>1, <4>1
    <3>3. e \in T /\ y[i + 1] = e
      BY <2>1, <3>2
    <3>4. \A j \in 1 .. i : y[j] = x[j]
      <4> HIDE DEF x, y, T
      <4> QED
        BY <2>1, <3>1, <3>2
    <3> HIDE DEF x, y, T, e
    <3>5. Append(x, e) \in Seq(T) /\ Len(Append(x, e)) = i + 1
          /\ \A j \in 1 .. i + 1 : Append(x, e)[j] = IF j = i + 1 THEN e ELSE x[j]
      BY <2>1, <3>1, <3>3
    <3>6. \A j \in 1 .. i + 1 : Append(x, e)[j] = y[j]
      BY <2>1, <3>3, <3>4, <3>5
    <3>7. Append(x, e) = y
      BY <3>2, <3>5, <3>6, Writes!SeqEqual
    <3> QED
      BY <3>7 DEF x, y, e
  <2>5. m1 = M(i + 1)
    <3>1. m0.vector = V(i)
      BY <2>3
    <3>2. Append(m0.vector, Written(k, p)) = V(i + 1)
      BY <2>4, <3>1
    <3> HIDE DEF V, m0, p
    <3>3. m1 = [m0 EXCEPT !.vector = V(i + 1)]
      BY <3>2
    <3>4. m0 = [ident |-> "SPDU", time |-> w, vector |-> V(i)]
      BY <2>3
    <3> HIDE DEF m1
    <3> QED
      BY <3>3, <3>4
  <2>6. B(i + 1).builder = <<M(i + 1)>>
    BY <2>1
  <2> HIDE DEF m1, M
  <2> QED
    BY <2>1, <2>2, <2>5
<1> HIDE DEF B
<1>5. <<0, base>> \in R
  BY <1>1, <1>3
<1>6. ASSUME NEW i \in 0 .. n - 1, NEW r, <<i, r>> \in R
      PROVE  <<i + 1, WriteNext(r, ws[i + 1])>> \in R
  <2>1. r = B(i)
    BY <1>6
  <2>2. WriteNext(r, ws[i + 1]) = B(i + 1)
    BY <1>4, <2>1
  <2>3. i + 1 \in 0 .. n
    BY <1>1
  <2> QED
    BY <2>2, <2>3
<1>7. <<n, Writes!Fold(base, ws)>> \in R
  <2> HIDE DEF R, base, n
  <2> QED
    BY <1>1, <1>5, <1>6, Writes!FoldPasses
<1>8. Writes!Fold(base, ws) = B(n)
  BY <1>7
<1>9. Progress(k, base, held) = Writes!Fold(base, ws)
  BY WritesIsFold DEF Progress, ws
<1>10. (n = 0 <=> held = <<>>) /\ V(n) = Sends(k, held)
  BY <1>1 DEF Sends
<1> HIDE DEF n, V
<1> QED
  BY <1>8, <1>9, <1>10 DEF B

\* What is written into a stream that was reset is read from its start.
LEMMA WrittenContent ==
  ASSUME NEW s \in Stream, s.pos = 0, s.len = 0, NEW data \in WholeCells
  PROVE  /\ SeekSet(Write(s, data), 0) \in Stream
         /\ Content(SeekSet(Write(s, data), 0)) = data
         /\ \A ident : PdusOf(SeekSet(Write(s, data), 0), ident) = PdusIn(data, ident)
<1> DEFINE w == Write(s, data)
           t == SeekSet(w, 0)
<1>1. /\ w \in Stream /\ w.len = Len(data) /\ \A i \in 1 .. Len(data) : w.mem[i] = data[i]
  BY WriteIs
<1>2. data \in Seq(Cell) /\ Len(data) \in Nat
  BY DEF WholeCells
<1>3. w.mem \in Seq(Cell) /\ w.len <= Len(w.mem)
  BY <1>1, StreamIs
<1> HIDE DEF w
<1>4. t \in Stream /\ t.mem = w.mem /\ t.len = Len(data) /\ t.pos = 0
  <2>1. ~(0 > Len(data))
    BY <1>2
  <2> QED
    BY <1>1, <2>1, SeekSetIs
<1> HIDE DEF t
<1>5. Content(t) = data
  <2> DEFINE x == SubSeq(w.mem, 1, Len(data))
  <2>1. Content(t) = x
    <3>1. 0 + 1 = 1
      OBVIOUS
    <3> QED
      BY <1>4, <3>1 DEF Content
  <2>2. x \in Seq(Cell) /\ Len(x) = Len(data) /\ \A i \in 1 .. Len(data) : x[i] = w.mem[i]
    BY <1>1, <1>2, <1>3
  <2> HIDE DEF x
  <2>3. x = data
    BY <1>1, <1>2, <2>2, Writes!SeqEqual
  <2> QED
    BY <2>1, <2>3
<1>6. ASSUME NEW ident PROVE PdusOf(t, ident) = PdusIn(data, ident)
  BY <1>1, <1>5, PdusOfContent DEF t
<1> QED
  BY <1>4, <1>5, <1>6 DEF t, w

\* What the bus model was given, is left in its stream.
LEMMA BusLeft ==
  ASSUME NEW k, IsSetting(k), k.type = "pdu", k.model \in BOOLEAN,
         NEW c \in Codec, c.reader = NoReader, c.stage.ncodec_consumed,
         k.model \/ c.held = <<>>
  PROVE  LET b == BusModelStage(k, c)
         IN  /\ Left(k, b) = Sends(k, c.held)
             /\ b.held = <<>> /\ b.builder = c.builder
             /\ b.stage.ncodec_consumed /\ b.stage.model_consumed = c.stage.model_consumed
<1> DEFINE t == SeekReset(c.bus.stream)
           w == c.bus.write_time
           bus == [c.bus EXCEPT !.stream = t, !.builder = <<>>]
           base == [stream |-> t, builder |-> <<>>, write_time |-> w]
           out == Flushed(Progress(k, bus, c.held))
           bus1 == [out EXCEPT !.stream = SeekSet(out.stream, 0)]
           produced == [c EXCEPT !.stage = [c.stage EXCEPT !.model_produced = TRUE]]
           b == BusModelStage(k, c)
<1>1. b = IF k.model THEN [produced EXCEPT !.held = <<>>, !.bus = bus1] ELSE produced
  <2>1. [c EXCEPT !.stage.model_produced = TRUE] = produced
    BY DEF Codec
  <2> QED
    BY <2>1 DEF BusModelStage
<1>2. /\ c.bus \in Bus /\ c.bus.stream \in Stream /\ w \in Nat /\ c.stage \in Stage
      /\ c.held \in Seq(PduType)
  BY DEF Codec, Bus
<1>3. t \in Stream /\ t.pos = 0 /\ t.len = 0
  BY <1>2, SeekIs
<1>4. /\ produced.reader = NoReader /\ produced.held = c.held /\ produced.builder = c.builder
      /\ produced.stage.ncodec_consumed /\ produced.stage.model_consumed = c.stage.model_consumed
      /\ produced.bus = c.bus
  <2>1. produced.stage = [c.stage EXCEPT !.model_produced = TRUE]
        /\ produced.reader = NoReader /\ produced.held = c.held /\ produced.builder = c.builder
        /\ produced.bus = c.bus
    BY DEF Codec
  <2>2. [c.stage EXCEPT !.model_produced = TRUE].ncodec_consumed = c.stage.ncodec_consumed
        /\ [c.stage EXCEPT !.model_produced = TRUE].model_consumed = c.stage.model_consumed
    BY <1>2 DEF Stage
  <2> HIDE DEF produced
  <2> QED
    BY <2>1, <2>2
<1>5. DOMAIN produced = {"stream", "builder", "reader", "stage", "time", "write_time", "held", "bus"}
  BY DEF Codec
<1> HIDE DEF produced
<1>6. CASE ~k.model
  <2>1. b = produced /\ c.held = <<>>
    BY <1>1, <1>6
  <2> HIDE DEF b
  <2>2. Left(k, b) = <<>>
    BY <1>4, <1>6, <2>1 DEF Left
  <2> QED
    BY <1>4, <2>1, <2>2, SendsNone DEF b
<1>7. CASE k.model
  <2> DEFINE m == [ident |-> "SPDU", time |-> w, vector |-> Sends(k, c.held)]
             x == IF c.held = <<>> THEN <<>> ELSE <<m>>
             u == [stream |-> t, write_time |-> w, builder |-> x]
  <2>1. bus = base
    <3>1. PICK v \in Stream, w1 \in Nat : c.bus = [stream |-> v, builder |-> <<>>, write_time |-> w1]
      BY <1>2 DEF Bus
    <3>2. w = w1
      BY <3>1
    <3> HIDE DEF t, w
    <3>3. /\ DOMAIN bus = {"stream", "builder", "write_time"}
          /\ bus.stream = t /\ bus.builder = <<>> /\ bus.write_time = w1
      BY <3>1
    <3>4. bus = [f \in {"stream", "builder", "write_time"} |-> bus[f]]
      BY <3>1
    <3>5. base = [f \in {"stream", "builder", "write_time"} |-> base[f]]
      OBVIOUS
    <3>6. base.stream = t /\ base.builder = <<>> /\ base.write_time = w1
      BY <3>2
    <3> HIDE DEF bus, base
    <3> QED
      BY <3>3, <3>4, <3>5, <3>6
  <2>2. out = Flushed(u)
    <3>1. Progress(k, base, c.held) = u
      BY <1>2, ProgressIs
    <3> HIDE DEF base, bus, u
    <3> QED
      BY <2>1, <3>1
  <2>3. PdusOf(bus1.stream, "SPDU") = Sends(k, c.held)
    <3> HIDE DEF t, w, bus, out
    <3>1. CASE c.held = <<>>
      <4>1. u.builder = <<>> /\ u.stream = t
        BY <3>1
      <4>2. out = u
        BY <2>2, <4>1 DEF Flushed
      <4>3. bus1.stream = SeekSet(t, 0)
        BY <4>2
      <4>4. SeekSet(t, 0) \in Stream /\ AtEnd(SeekSet(t, 0))
        <5>1. 0 \in Nat /\ ~(0 > 0) /\ 0 >= 0
          OBVIOUS
        <5> QED
          BY <1>3, <5>1, SeekSetIs DEF AtEnd
      <4> HIDE DEF bus1
      <4> QED
        BY <3>1, <4>3, <4>4, PdusStep, SendsNone
    <3>2. CASE c.held # <<>>
      <4>1. m \in Msg
        <5>1. Sends(k, c.held) \in Seq(PduType)
          BY <1>2, SendsType
        <5> QED
          BY <1>2, <5>1 DEF Msg
      <4>2. m.ident = "SPDU" /\ m.vector = Sends(k, c.held)
        OBVIOUS
      <4> HIDE DEF m
      <4>3. u.builder = <<m>> /\ u.stream = t /\ <<m>> # <<>> /\ <<m>>[1] = m
        BY <3>2
      <4> HIDE DEF u
      <4>4. out = [u EXCEPT !.stream = Write(t, Encode(m)), !.builder = <<>>]
        BY <2>2, <4>3 DEF Flushed
      <4>5. bus1.stream = SeekSet(Write(t, Encode(m)), 0)
        BY <4>4 DEF u
      <4>6. Encode(m) \in WholeCells
        BY <4>1, EncodedIsWhole
      <4> HIDE DEF bus1
      <4>7. PdusOf(bus1.stream, "SPDU") = PdusIn(Encode(m), "SPDU")
        BY <1>3, <4>5, <4>6, WrittenContent
      <4> QED
        BY <4>1, <4>2, <4>7, PdusInOne
    <3> QED
      BY <3>1, <3>2
  <2> HIDE DEF bus1, m, u
  <2>4. b = [produced EXCEPT !.held = <<>>, !.bus = bus1]
    BY <1>1, <1>7
  <2> HIDE DEF b
  <2>5. /\ b.held = <<>> /\ b.bus = bus1 /\ b.reader = NoReader /\ b.builder = c.builder
        /\ b.stage.ncodec_consumed /\ b.stage.model_consumed = c.stage.model_consumed
    BY <1>4, <1>5, <2>4
  <2>6. Left(k, b) = PdusOf(bus1.stream, "SPDU")
    BY <1>7, <2>5 DEF Left, PdusOf, Coming, Identifier
  <2> QED
    BY <2>3, <2>5, <2>6 DEF b
<1> QED
  BY <1>6, <1>7

\* The first of what is not read yet.
LEMMA ReadsFirst ==
  ASSUME NEW s \in Stream, NEW r \in Reader, Holds(s, r), NEW ident, Unread(s, r, ident) # <<>>
  PROVE  LET un == Unread(s, r, ident)
             left == Unread(StreamAt(s, r, un[1]), ReaderAt(s, r, un[1]), ident)
         IN  Pdus(un) = <<un[1].pdu>> \o Pdus(left)
<1>1. PICK i \in Nat : i = 1
  OBVIOUS
<1> DEFINE un == Unread(s, r, ident)
           left == Unread(StreamAt(s, r, un[i]), ReaderAt(s, r, un[i]), ident)
<1>2. i \in 1 .. Len(un)
  <2>1. un \in Seq(Element) /\ un # <<>>
    BY UnreadIs
  <2> HIDE DEF un, Element
  <2> QED
    BY <1>1, <2>1
<1>3. un \in Seq(Element) /\ left \in Seq(Element)
      /\ \E a \in Seq(Element) : Len(a) = i /\ un = a \o left
  BY <1>2, UnreadResumes, Zenon
<1> HIDE DEF un, left
<1>4. PICK a \in Seq(Element) : Len(a) = i /\ un = a \o left
  BY <1>3
<1>5. Pdus(un) = Pdus(a) \o Pdus(left)
  BY <1>3, <1>4, PdusOfConcat
<1>6. un[1] = a[1]
  <2>1. \A x, y \in Seq(Element) : \A j \in 1 .. Len(x) : (x \o y)[j] = x[j]
    BY Writes!ConcatHas
  <2> HIDE DEF Element
  <2>2. \A j \in 1 .. Len(a) : (a \o left)[j] = a[j]
    BY <1>3, <2>1
  <2>3. 1 \in 1 .. Len(a)
    BY <1>1, <1>4
  <2> QED
    BY <1>4, <2>2, <2>3
<1>7. Pdus(a) = <<a[1].pdu>>
  <2> DEFINE p == Pdus(a)
  <2>1. p \in Seq(PduType) /\ Len(p) = 1 /\ p[1] = a[1].pdu
    BY <1>1, <1>4, PdusAre
  <2> HIDE DEF p
  <2>2. p = <<p[1]>>
    BY <2>1
  <2> QED
    BY <2>1, <2>2 DEF p
<1> QED
  BY <1>1, <1>5, <1>6, <1>7 DEF un, left

\* What a read takes of what the bus model made.
LEMMA ModelLeft ==
  ASSUME NEW k, IsSetting(k), k.type = "pdu", k.model \in BOOLEAN,
         NEW c \in Codec, Fits(c), c.stage.ncodec_consumed,
         k.model => ~c.stage.model_consumed
  PROVE  LET r == ModelStage(k, c)
         IN  /\ Left(k, c) = r.got \o Left(k, r.c)
             /\ r.got = <<>> => Left(k, r.c) = <<>>
             /\ r.c.held = c.held /\ r.c.builder = c.builder
             /\ r.c.stage.ncodec_consumed /\ (r.c.stage.model_consumed => r.got = <<>>)
<1> DEFINE all == Unread(c.bus.stream, c.reader, "SPDU")
           unread == IF k.model /\ ~c.stage.model_consumed THEN all ELSE <<>>
           stage1 == [c.stage EXCEPT !.model_consumed = TRUE]
           end == IF k.model THEN SeekEnd(c.bus.stream) ELSE c.bus.stream
           bus0 == [c.bus EXCEPT !.stream = end]
           at_end == [c EXCEPT !.reader = NoReader, !.stage = stage1, !.bus = bus0]
           r1 == ReaderAt(c.bus.stream, c.reader, all[1])
           s1 == StreamAt(c.bus.stream, c.reader, all[1])
           bus1 == [c.bus EXCEPT !.stream = s1]
           next == [c EXCEPT !.reader = r1, !.bus = bus1]
           r == ModelStage(k, c)
<1>0. /\ c.bus \in Bus /\ c.bus.stream \in Stream /\ c.reader \in Reader /\ c.stage \in Stage
      /\ Holds(c.bus.stream, c.reader) /\ c.bus.stream \in Memory
  BY DEF Codec, Bus, Fits, Stream
<1>1. r = IF unread = <<>> THEN [got |-> <<>>, c |-> AdvanceTime(at_end)]
          ELSE [got |-> <<all[1].pdu>>, c |-> next]
  <2>1. [c EXCEPT !.reader = NoReader, !.stage.model_consumed = TRUE,
                  !.bus.stream = IF k.model THEN SeekEnd(c.bus.stream) ELSE c.bus.stream] = at_end
    BY DEF Codec
  <2>2. [c EXCEPT !.reader = ReaderAt(c.bus.stream, c.reader, all[1]),
                  !.bus.stream = StreamAt(c.bus.stream, c.reader, all[1])] = next
    BY DEF Codec
  <2>3. Identifier("pdu") = "SPDU"
    BY DEF Identifier
  <2> QED
    BY <2>1, <2>2, <2>3 DEF ModelStage
<1>2. Left(k, c) = Pdus(unread)
  <2>1. Identifier("pdu") = "SPDU"
    BY DEF Identifier
  <2>2. Pdus(<<>>) = <<>>
    BY DEF Pdus
  <2> QED
    BY <2>1, <2>2 DEF Left
<1> HIDE DEF next, at_end, r
<1>3. CASE unread = <<>>
  <2>1. r.got = <<>> /\ r.c = AdvanceTime(at_end)
    BY <1>1, <1>3
  <2>2. stage1.ncodec_consumed
    BY <1>0 DEF Stage
  <2>3. bus0.stream = end
    BY <1>0 DEF Bus
  <2> HIDE DEF stage1, bus0, unread, all
  <2>4. /\ r.c.reader = NoReader /\ r.c.stage = stage1 /\ r.c.bus.stream = end
        /\ r.c.held = c.held /\ r.c.builder = c.builder
    <3>1. /\ at_end.reader = NoReader /\ at_end.stage = stage1 /\ at_end.bus = bus0
          /\ at_end.held = c.held /\ at_end.builder = c.builder
          /\ DOMAIN at_end = {"stream", "builder", "reader", "stage", "time", "write_time", "held", "bus"}
      BY DEF at_end, Codec
    <3>2. DOMAIN bus0 = {"stream", "builder", "write_time"}
      BY <1>0 DEF bus0, Bus
    <3> DEFINE b == [bus0 EXCEPT !.write_time = at_end.time]
    <3>3. b.stream = end
      BY <2>3, <3>2
    <3>4. AdvanceTime(at_end) = [at_end EXCEPT !.write_time = at_end.time, !.time = at_end.time + 1,
                                               !.bus = b]
      BY <3>1 DEF AdvanceTime
    <3> HIDE DEF b, end
    <3> QED
      BY <2>1, <3>1, <3>3, <3>4
  <2>5. Left(k, r.c) = <<>>
    <3>1. CASE ~k.model
      BY <2>2, <2>4, <3>1 DEF Left
    <3>2. CASE k.model
      <4>1. AtEnd(end) /\ end \in Stream
        <5>1. end = SeekEnd(c.bus.stream)
          BY <3>2
        <5>2. c.bus.stream.len \in Nat
          BY <1>0, StreamIs
        <5>3. SeekEnd(c.bus.stream).pos = c.bus.stream.len /\ SeekEnd(c.bus.stream).len = c.bus.stream.len
          BY <1>0 DEF SeekEnd, Memory
        <5> QED
          BY <1>0, <5>1, <5>2, <5>3, SeekIs DEF AtEnd
      <4> HIDE DEF end
      <4>2. PdusOf(end, Identifier("pdu")) = <<>>
        BY <4>1, PdusStep
      <4> QED
        BY <2>2, <2>4, <3>2, <4>2 DEF Left, PdusOf, Coming
    <3> QED
      BY <3>1, <3>2
  <2>6. Left(k, c) = <<>>
    BY <1>2, <1>3 DEF Pdus
  <2>7. <<>> \o <<>> = <<>>
    OBVIOUS
  <2> QED
    BY <2>1, <2>2, <2>4, <2>5, <2>6, <2>7 DEF r
<1>4. CASE unread # <<>>
  <2>1. unread = all /\ k.model /\ ~c.stage.model_consumed
    BY <1>4
  <2>2. r.got = <<all[1].pdu>> /\ r.c = next
    BY <1>1, <1>4
  <2>3. Pdus(all) = <<all[1].pdu>> \o Pdus(Unread(s1, r1, "SPDU"))
    <3>1. all # <<>>
      BY <1>4, <2>1
    <3> QED
      BY <1>0, <3>1, ReadsFirst
  <2> HIDE DEF all, unread, s1, r1
  <2>4. bus1.stream = s1
    BY <1>0 DEF Bus
  <2> HIDE DEF bus1
  <2>5. /\ r.c.reader = r1 /\ r.c.bus.stream = s1 /\ r.c.stage = c.stage
        /\ r.c.held = c.held /\ r.c.builder = c.builder
    BY <2>2, <2>4 DEF next, Codec
  <2>6. Left(k, r.c) = Pdus(Unread(s1, r1, "SPDU"))
    BY <2>1, <2>5 DEF Left, Identifier
  <2>7. r.got # <<>>
    BY <2>2
  <2> QED
    BY <1>2, <2>1, <2>2, <2>3, <2>5, <2>6, <2>7 DEF r
<1> QED
  BY <1>3, <1>4

\* What a read takes of the PDUs of the stream.
LEMMA NCodecLeft ==
  ASSUME NEW k, IsSetting(k), k.type = "pdu", k.model \in BOOLEAN,
         NEW c \in Codec, Fits(c), ~c.stage.ncodec_consumed, k.model \/ c.held = <<>>
  PROVE  LET r == NCodecStage(k, c)
         IN  /\ r.got # <<>> => Left(k, c) = r.got \o Left(k, r.c) /\ r.c.stage = c.stage
             /\ r.got = <<>> => /\ Left(k, c) = Sends(k, r.c.held)
                                /\ r.c.stage.model_consumed = c.stage.model_consumed
             /\ r.c.builder = c.builder /\ (k.model \/ r.c.held = <<>>)
<1> DEFINE T == Identifier("pdu")
           un == Unread(c.stream, c.reader, T)
           I == {j \in 1 .. Len(un) : ~Consumes(k, un[j].pdu) /\ ~Filtered(k, un[j].pdu)}
           i == SelectInSeq(un, LAMBDA u : ~Consumes(k, u.pdu) /\ ~Filtered(k, u.pdu))
           seen == IF i = 0 THEN un ELSE SubSeq(un, 1, i)
           held == c.held \o FlattenSeq([j \in DOMAIN seen |->
                                     IF Consumes(k, seen[j].pdu) THEN <<seen[j].pdu>> ELSE <<>>])
           h == c.held \o Chosen(Pdus(seen), ForModel(k))
           r == NCodecStage(k, c)
           s1 == StreamAt(c.stream, c.reader, un[i])
           r1 == ReaderAt(c.stream, c.reader, un[i])
           stage1 == [c.stage EXCEPT !.ncodec_consumed = TRUE]
<1>1. r = IF i = 0
          THEN [got |-> <<>>,
                c |-> [c EXCEPT !.reader = NoReader, !.stream = SeekSet(c.stream, 0),
                                !.stage = stage1, !.held = held]]
          ELSE [got |-> <<un[i].pdu>>,
                c |-> [c EXCEPT !.reader = r1, !.stream = s1, !.held = held]]
  <2>1. [c EXCEPT !.reader = NoReader, !.stream = SeekSet(c.stream, 0),
                  !.stage.ncodec_consumed = TRUE, !.held = held]
          = [c EXCEPT !.reader = NoReader, !.stream = SeekSet(c.stream, 0),
                      !.stage = stage1, !.held = held]
    BY DEF Codec
  <2> QED
    BY <2>1 DEF NCodecStage
<1>2. /\ c.stream \in Stream /\ c.reader \in Reader /\ Holds(c.stream, c.reader)
      /\ c.held \in Seq(PduType) /\ c.stage \in Stage
  BY DEF Codec, Fits
<1>3. un \in Seq(Element)
  BY <1>2, UnreadIs
<1>4. i = (IF I # {} THEN Min(I) ELSE 0)
  BY DEF SelectInSeq
<1>5. Left(k, c) = Returns(k, c.held, Pdus(un))
  BY DEF Left
<1>6. \A p \in PduType : p \in ForReader(k) <=> ~Consumes(k, p) /\ ~Filtered(k, p)
  BY DEF ForReader
<1>8. \A j \in 1 .. Len(un) : un[j].pdu \in PduType
  <2>1. \A j \in 1 .. Len(un) : un[j] \in Element
    BY <1>3
  <2> QED
    BY <2>1 DEF Element
<1>9. stage1.model_consumed = c.stage.model_consumed
  BY <1>2 DEF Stage
<1> HIDE DEF un, i, Element, s1, r1, held, stage1, r, T
<1>10. ASSUME seen \in Seq(Element) PROVE held = h /\ h \in Seq(PduType) /\ (k.model \/ h = <<>>)
  <2>1. held = h
    BY <1>10, SeenIs DEF held
  <2> DEFINE p == Pdus(seen)
  <2>2. p \in Seq(PduType)
    BY <1>10, PdusAre
  <2> HIDE DEF p, seen
  <2>3. Chosen(p, ForModel(k)) \in Seq(PduType)
    BY <2>2, ChosenType
  <2>4. c.held \o Chosen(p, ForModel(k)) \in Seq(PduType)
    BY <1>2, <2>3
  <2>5. ASSUME ~k.model PROVE c.held \o Chosen(p, ForModel(k)) = <<>>
    <3>1. \A j \in 1 .. Len(p) : p[j] \notin ForModel(k)
      BY <2>2, <2>5 DEF ForModel, Consumes
    <3>2. Chosen(p, ForModel(k)) = <<>>
      BY <2>2, <3>1, NothingChosen
    <3>3. c.held = <<>> /\ <<>> \o <<>> = <<>>
      BY <2>5
    <3> QED
      BY <3>2, <3>3
  <2> QED
    BY <2>1, <2>4, <2>5 DEF p
<1>11. CASE i = 0
  <2>1. r.got = <<>> /\ r.c = [c EXCEPT !.reader = NoReader, !.stream = SeekSet(c.stream, 0),
                                        !.stage = stage1, !.held = held]
    BY <1>1, <1>11
  <2>2. r.c.held = held /\ r.c.stage = stage1 /\ r.c.builder = c.builder
    BY <2>1 DEF Codec
  <2>3. I = {}
    <3> SUFFICES ASSUME I # {} PROVE FALSE
      OBVIOUS
    <3>1. I \in SUBSET Nat
      OBVIOUS
    <3>2. 0 \notin I
      OBVIOUS
    <3> HIDE DEF I
    <3> QED
      BY <1>4, <1>11, <3>1, <3>2, Writes!LeastOf DEF Min
  <2>4. seen = un
    BY <1>11
  <2> HIDE DEF seen
  <2>5. held = h /\ (k.model \/ h = <<>>)
    BY <1>3, <1>10, <2>4
  <2>6. Left(k, c) = Sends(k, h)
    <3>1. \A j \in 1 .. Len(un) : un[j].pdu \notin ForReader(k)
      BY <1>6, <1>8, <2>3
    <3> QED
      BY <1>2, <1>3, <1>5, <2>4, <3>1, ReadsAll
  <2> HIDE DEF h
  <2> QED
    BY <1>9, <2>1, <2>2, <2>5, <2>6 DEF r
<1>12. CASE i # 0
  <2>1. r.got = <<un[i].pdu>> /\ r.c = [c EXCEPT !.reader = r1, !.stream = s1, !.held = held]
    BY <1>1, <1>12
  <2>2. /\ r.c.reader = r1 /\ r.c.stream = s1 /\ r.c.held = held
        /\ r.c.stage = c.stage /\ r.c.builder = c.builder
    BY <2>1 DEF Codec
  <2>3. i \in I /\ \A j \in I : i <= j
    <3>1. I \in SUBSET Nat /\ I # {}
      BY <1>4, <1>12
    <3> HIDE DEF I
    <3> QED
      BY <1>4, <3>1, Writes!LeastOf DEF Min
  <2>4. i \in 1 .. Len(un) /\ FirstFor(k, un, i)
    <3>1. i \in 1 .. Len(un) /\ un[i].pdu \in ForReader(k)
      BY <1>6, <1>8, <2>3
    <3>2. ASSUME NEW j \in 1 .. i - 1 PROVE un[j].pdu \notin ForReader(k)
      <4>1. j \in 1 .. Len(un) /\ ~(i <= j)
        BY <1>3, <3>1
      <4>2. j \notin I
        BY <2>3, <4>1
      <4> QED
        BY <1>6, <1>8, <4>1, <4>2
    <3> QED
      BY <3>1, <3>2 DEF FirstFor
  <2> DEFINE left == Unread(s1, r1, T)
  <2>5. seen = SubSeq(un, 1, i)
    BY <1>12
  <2> HIDE DEF seen
  <2>6. /\ seen \in Seq(Element)
        /\ Returns(k, c.held, Pdus(un)) = <<un[i].pdu>> \o Returns(k, h, Pdus(left))
    <3> HIDE DEF I
    <3>1. ReadsAt(k, c.stream, c.reader, T, i)
      BY <1>2, <2>4 DEF ReadsAt, un
    <3>2. Takes(k, c.held, c.stream, c.reader, T, i)
      BY <1>2, <3>1, ReadTakes
    <3> QED
      BY <2>5, <3>2 DEF Takes, un, s1, r1
  <2>7. held = h /\ (k.model \/ h = <<>>)
    BY <1>10, <2>6
  <2> HIDE DEF h
  <2>8. Left(k, r.c) = Returns(k, h, Pdus(left))
    BY <2>2, <2>7 DEF Left, T
  <2>9. Left(k, c) = r.got \o Left(k, r.c)
    BY <1>5, <2>1, <2>6, <2>8
  <2>10. r.got # <<>>
    BY <2>1
  <2> QED
    BY <2>2, <2>7, <2>9, <2>10 DEF r
<1> QED
  BY <1>11, <1>12

\* What an instance has to return, and what was returned.
Honest(k, c) ==
  /\ (k.model /\ ~c.stage.ncodec_consumed) \/ c.held = <<>>
  /\ c.stage.model_consumed => c.stage.ncodec_consumed

\* A read returns the first of what is left, or nothing if nothing is.
LEMMA PduLeft ==
  ASSUME NEW k, IsSetting(k), k.type = "pdu", k.model \in BOOLEAN,
         NEW c \in Codec, Fits(c), Staged(c), Honest(k, c),
         k.model => ~c.stage.model_consumed
  PROVE  LET r == ReadPdu(k, c)
         IN  /\ Left(k, c) = r.got \o Left(k, r.c)
             /\ r.got = <<>> => Left(k, r.c) = <<>> /\ r.c.stage.ncodec_consumed
             /\ Honest(k, r.c) /\ r.c.builder = c.builder
             /\ r.c.stage.model_consumed => r.got = <<>>
<1> DEFINE first  == IF c.stage.ncodec_consumed THEN [got |-> <<>>, c |-> c]
                     ELSE NCodecStage(k, c)
           second == IF first.c.stage.model_produced THEN first.c
                     ELSE BusModelStage(k, first.c)
           r == ReadPdu(k, c)
<1>1. r = IF first.got # <<>> THEN first ELSE ModelStage(k, second)
  BY DEF ReadPdu
<1>0. c.stage \in Stage /\ c.stage.ncodec_consumed \in BOOLEAN /\ c.stage.model_produced \in BOOLEAN
  BY DEF Codec, Stage
<1> HIDE DEF r
<1>2. CASE c.stage.ncodec_consumed
  <2>1. first.got = <<>> /\ first.c = c
    BY <1>2
  <2> HIDE DEF first
  <2>2. second = c
    BY <1>2, <2>1 DEF Staged
  <2> HIDE DEF second
  <2>3. r = ModelStage(k, c)
    BY <1>1, <2>1, <2>2
  <2>4. /\ Left(k, c) = r.got \o Left(k, r.c)
        /\ r.got = <<>> => Left(k, r.c) = <<>>
        /\ r.c.held = c.held /\ r.c.builder = c.builder
        /\ r.c.stage.ncodec_consumed /\ (r.c.stage.model_consumed => r.got = <<>>)
    BY <1>2, <2>3, ModelLeft
  <2>5. c.held = <<>>
    BY <1>2 DEF Honest
  <2> QED
    BY <2>4, <2>5 DEF Honest, r
<1>3. CASE ~c.stage.ncodec_consumed
  <2>1. first = NCodecStage(k, c)
    BY <1>3
  <2> HIDE DEF first
  <2>2. k.model \/ c.held = <<>>
    BY DEF Honest
  <2>3. /\ first.got # <<>> => Left(k, c) = first.got \o Left(k, first.c) /\ first.c.stage = c.stage
        /\ first.got = <<>> => /\ Left(k, c) = Sends(k, first.c.held)
                               /\ first.c.stage.model_consumed = c.stage.model_consumed
        /\ first.c.builder = c.builder /\ (k.model \/ first.c.held = <<>>)
    BY <1>3, <2>1, <2>2, NCodecLeft
  <2>4. /\ first.c \in Codec
        /\ first.c.stage.model_produced = c.stage.model_produced
        /\ first.got = <<>> => first.c.reader = NoReader /\ first.c.stage.ncodec_consumed
    BY <1>3, <2>1, NCodecStageType
  <2>5. ~c.stage.model_consumed
    BY <1>3 DEF Honest
  <2>6. CASE first.got # <<>>
    <3>1. r = first
      BY <1>1, <2>6
    <3>2. Honest(k, r.c)
      BY <1>3, <2>3, <2>5, <2>6, <3>1 DEF Honest
    <3> QED
      BY <2>3, <2>5, <2>6, <3>1, <3>2 DEF r
  <2>7. CASE first.got = <<>>
    <3>1. second = BusModelStage(k, first.c)
      BY <1>3, <2>4 DEF Staged
    <3> HIDE DEF second
    <3>2. /\ Left(k, second) = Sends(k, first.c.held)
          /\ second.held = <<>> /\ second.builder = first.c.builder
          /\ second.stage.ncodec_consumed /\ second.stage.model_consumed = first.c.stage.model_consumed
      BY <2>3, <2>4, <2>7, <3>1, BusLeft
    <3>3. second \in Codec /\ second.reader = NoReader
      BY <2>4, <2>7, <3>1, BusModelStageType
    <3>4. Fits(second)
      BY <3>3 DEF Fits, Holds
    <3>5. r = ModelStage(k, second)
      BY <1>1, <2>7
    <3>6. ~second.stage.model_consumed
      BY <2>3, <2>5, <2>7, <3>2
    <3>7. /\ Left(k, second) = r.got \o Left(k, r.c)
          /\ r.got = <<>> => Left(k, r.c) = <<>>
          /\ r.c.held = second.held /\ r.c.builder = second.builder
          /\ r.c.stage.ncodec_consumed /\ (r.c.stage.model_consumed => r.got = <<>>)
      BY <3>2, <3>3, <3>4, <3>5, <3>6, ModelLeft
    <3> QED
      BY <2>3, <2>7, <3>2, <3>7 DEF Honest, r
  <2> QED
    BY <2>6, <2>7
<1> QED
  BY <1>2, <1>3

-----------------------------------------------------------------------------
(***************************************************************************)
(* The invariant of what is exchanged.                                     *)
(***************************************************************************)

\* Data that is nothing, or one message with this identifier.
OneMessage(data, ident) ==
  data = <<>> \/ \E m \in Msg : m.ident = ident /\ data = Encode(m)

\* Of an instance c with configuration k, whose node is in phase ph and read g last.
Exchanges(k, ph, g, c) ==
  /\ Honest(k, c)
  /\ ph # "reading" => c.held = <<>>
  /\ ph = "reading" => ~c.stage.model_consumed
  /\ c.stage.model_consumed => g = <<>>
  /\ ph \in {"writing", "done"} => ~c.stage.ncodec_consumed
  /\ c.builder = <<>> \/ c.builder[1].ident = Identifier(k.type)
  /\ ph = "done" => OneMessage(Content(SeekSet(c.stream, 0)), Identifier(k.type))

IInvExchange == \A n \in Node : Exchanges(Config[n], phase[n], got[n], codec[n])

LEMMA Models ==
  \A n \in Node : /\ Config[n].model \in BOOLEAN
                  /\ Config[n].model => Config[n].type = "pdu"
                  /\ n \in Impatient => ~Config[n].model
BY CosimAssumption DEF Node

\* ToReturn() and GivenToWrite(), of an instance.
InboxOf(k, ph, c) ==
  IF ph \in {"writing", "done"}
  THEN Pdus(Elements(c.stream, c.reader.msg, c.reader.idx, c.reader.len))
  ELSE Left(k, c)

PutOf(k, ph, c) ==
  IF ph \in {"writing", "done"}
  THEN PdusOf(SeekSet(c.stream, 0), Identifier(k.type)) \o Pending(c)
  ELSE <<>>

LEMMA OneNet ==
  ASSUME NEW k, NEW held, NEW un
  PROVE  (CHOOSE ps \in {Returns(k, held, net) : net \in {un}} : TRUE) = Returns(k, held, un)
<1> DEFINE v == Returns(k, held, un)
<1>1. {Returns(k, held, net) : net \in {un}} = {v}
  OBVIOUS
<1> HIDE DEF v
<1>2. (CHOOSE ps \in {v} : TRUE) = v
  OBVIOUS
<1> QED
  BY <1>1, <1>2 DEF v

\* Once it read what the stream had, an instance without a bus model has no more.
LEMMA ReadsOn ==
  ASSUME NEW k, IsSetting(k), k.type = "pdu", k.model = FALSE,
         NEW c \in Codec, Fits(c), Staged(c), Honest(k, c), c.stage.ncodec_consumed
  PROVE  LET r == ReadPdu(k, c)
         IN  /\ r.got = <<>> /\ Left(k, c) = <<>> /\ Left(k, r.c) = <<>>
             /\ Honest(k, r.c) /\ r.c.builder = c.builder
<1> DEFINE r == ReadPdu(k, c)
<1>1. /\ Left(k, c) = r.got \o Left(k, r.c)
      /\ r.got = <<>> => Left(k, r.c) = <<>> /\ r.c.stage.ncodec_consumed
      /\ Honest(k, r.c) /\ r.c.builder = c.builder
  BY PduLeft
<1>2. r.got \in Got
  BY ReadPduType
<1>3. r.c.stage.ncodec_consumed /\ r.got = <<>>
  <2> DEFINE first == [got |-> <<>>, c |-> c]
  <2>1. r = ModelStage(k, c)
    <3>1. c.stage.model_produced
      BY DEF Staged
    <3> QED
      BY <3>1 DEF ReadPdu
  <2>2. ModelStage(k, c).c.stage.ncodec_consumed
    BY ModelStageType
  <2>3. ModelStage(k, c).got = <<>>
    BY DEF ModelStage
  <2> QED
    BY <2>1, <2>2, <2>3
<1> HIDE DEF r
<1>4. Left(k, c) = <<>>
  BY DEF Left
<1> QED
  BY <1>1, <1>3, <1>4 DEF r

\* ncodec_read() returns the first of what is left, or nothing if nothing is left.
LEMMA ReadExchanges ==
  ASSUME NEW k, IsSetting(k), k.model \in BOOLEAN, k.model => k.type = "pdu",
         NEW c \in Codec, Fits(c), Staged(c), k.type = "frame" => ~c.stage.ncodec_consumed,
         NEW g, Exchanges(k, "reading", g, c)
  PROVE  LET r == Read(k, c)
             ph == IF r.got = <<>> THEN "read" ELSE "reading"
         IN  /\ Exchanges(k, ph, r.got, r.c)
             /\ Left(k, c) = r.got \o Left(k, r.c)
             /\ r.got = <<>> => Left(k, r.c) = <<>>
<1> DEFINE r == Read(k, c)
           ph == IF r.got = <<>> THEN "read" ELSE "reading"
<1>1. /\ Honest(k, c) /\ ~c.stage.model_consumed
      /\ c.builder = <<>> \/ c.builder[1].ident = Identifier(k.type)
  BY DEF Exchanges
<1>2. CASE k.type = "pdu"
  <2>1. r = ReadPdu(k, c)
    BY <1>2 DEF Read
  <2> HIDE DEF r
  <2>2. /\ Left(k, c) = r.got \o Left(k, r.c)
        /\ r.got = <<>> => Left(k, r.c) = <<>> /\ r.c.stage.ncodec_consumed
        /\ Honest(k, r.c) /\ r.c.builder = c.builder
        /\ r.c.stage.model_consumed => r.got = <<>>
    <3> DEFINE d == ReadPdu(k, c)
    <3>1. k.model => ~c.stage.model_consumed
      BY <1>1
    <3>2. /\ Left(k, c) = d.got \o Left(k, d.c)
          /\ d.got = <<>> => Left(k, d.c) = <<>> /\ d.c.stage.ncodec_consumed
          /\ Honest(k, d.c) /\ d.c.builder = c.builder
          /\ d.c.stage.model_consumed => d.got = <<>>
      BY <1>1, <1>2, <3>1, PduLeft
    <3> HIDE DEF d
    <3> QED
      BY <2>1, <3>2 DEF d
  <2>3. r.got = <<>> => r.c.held = <<>>
    BY <2>2 DEF Honest
  <2>4. Exchanges(k, ph, r.got, r.c)
    BY <1>1, <2>2, <2>3 DEF Exchanges
  <2> QED
    BY <2>2, <2>4 DEF r
<1>3. CASE k.type = "frame"
  <2>1. r = ReadFrame(k, c) /\ k.model = FALSE /\ ~c.stage.ncodec_consumed
    BY <1>3 DEF Read
  <2>2. c.held = <<>>
    BY <1>1, <2>1 DEF Honest
  <2> HIDE DEF r
  <2>3. /\ Left(k, c) = r.got \o Left(k, r.c)
        /\ r.got = <<>> => Left(k, r.c) = <<>>
        /\ r.c.held = <<>> /\ r.c.stage = c.stage /\ r.c.builder = c.builder
    BY <1>3, <2>1, <2>2, FrameLeft
  <2>4. Exchanges(k, ph, r.got, r.c)
    BY <1>1, <2>1, <2>3 DEF Exchanges, Honest
  <2> QED
    BY <2>3, <2>4 DEF r
<1> QED
  BY <1>2, <1>3 DEF IsSetting

LEMMA NothingToRead ==
  ASSUME NEW s \in Stream, s.len = 0, NEW ident
  PROVE  PdusOf(SeekSet(s, 0), ident) = <<>>
<1>1. SeekSet(s, 0) \in Stream
  <2>1. \A p \in Nat : SeekSet(s, p) \in Stream
    BY SeekIs
  <2> QED
    BY <2>1
<1>2. SeekSet(s, 0).pos = 0 /\ SeekSet(s, 0).len = 0
  BY StreamIs DEF SeekSet, Stream, Memory
<1>3. AtEnd(SeekSet(s, 0))
  BY <1>2 DEF AtEnd
<1> QED
  BY <1>1, <1>3, PdusStep

\* A reader at rest holds on to nothing.
LEMMA RestingLeaves ==
  ASSUME NEW k, NEW c, c.reader = NoReader, NEW ph \in {"writing", "done"}
  PROVE  InboxOf(k, ph, c) = <<>>
<1>1. NoReader.msg = 0 /\ NoReader.idx = 0 /\ NoReader.len = 0
  BY DEF NoReader
<1>2. Elements(c.stream, c.reader.msg, c.reader.idx, c.reader.len) = <<>>
  BY <1>1, NoElements
<1>3. Pdus(<<>>) = <<>>
  BY DEF Pdus
<1> QED
  BY <1>2, <1>3 DEF InboxOf

LEMMA PendingIs ==
  ASSUME NEW c \in Codec
  PROVE  /\ Pending(c) \in Seq(PduType)
         /\ c.builder = <<>> => Pending(c) = <<>>
         /\ c.builder # <<>> => /\ c.builder[1] \in Msg /\ c.builder = <<c.builder[1]>>
                                /\ Pending(c) = c.builder[1].vector
<1>1. c.builder \in Cell
  BY DEF Codec
<1>2. c.builder # <<>> => c.builder[1] \in Msg /\ c.builder = <<c.builder[1]>>
  BY <1>1, CellIs
<1>3. c.builder # <<>> => c.builder[1].vector \in Seq(PduType)
  BY <1>2 DEF Msg
<1> QED
  BY <1>2, <1>3 DEF Pending

\* What is put while a node writes, is what is being built.
LEMMA PutIs ==
  ASSUME NEW k, NEW c \in Codec, c.stream.len = 0
  PROVE  PutOf(k, "writing", c) = Pending(c)
<1>1. c.stream \in Stream
  BY DEF Codec
<1>2. PdusOf(SeekSet(c.stream, 0), Identifier(k.type)) = <<>>
  BY <1>1, NothingToRead
<1>3. Pending(c) \in Seq(PduType)
  BY PendingIs
<1>4. <<>> \o Pending(c) = Pending(c)
  BY <1>3
<1> QED
  BY <1>2, <1>4 DEF PutOf

LEMMA TruncateExchanges ==
  ASSUME NEW k, IsSetting(k), NEW c \in Codec, Staged(c),
         k.type = "frame" => ~c.stage.ncodec_consumed,
         NEW g, Exchanges(k, "read", g, c), Truncated(k, c).reader = NoReader
  PROVE  LET d == Truncated(k, c)
         IN  /\ Exchanges(k, "writing", g, d)
             /\ InboxOf(k, "writing", d) = <<>> /\ PutOf(k, "writing", d) = <<>>
<1> DEFINE t == SeekReset(c.stream)
           e == [c EXCEPT !.builder = <<>>, !.stream = t]
           f == [e EXCEPT !.reader = NoReader, !.stage = Stages(FALSE)]
           d == Truncated(k, c)
<1>1. d = IF k.type = "pdu" THEN f ELSE e
  BY DEF Truncated
<1>2. c.held = <<>>
  BY DEF Exchanges
<1> HIDE DEF t
<1>3. e.builder = <<>> /\ e.stage = c.stage /\ e.held = c.held
      /\ DOMAIN e = {"stream", "builder", "reader", "stage", "time", "write_time", "held", "bus"}
  BY DEF Codec
<1> HIDE DEF e
<1>4. f.builder = <<>> /\ f.stage = Stages(FALSE) /\ f.held = c.held
  BY <1>3
<1> HIDE DEF f
<1>5. ~Stages(FALSE).ncodec_consumed /\ ~Stages(FALSE).model_consumed
  BY DEF Stages
<1>6. d.builder = <<>> /\ d.held = <<>> /\ ~d.stage.ncodec_consumed /\ ~d.stage.model_consumed
  <2>1. CASE k.type = "pdu"
    BY <1>1, <1>2, <1>4, <1>5, <2>1
  <2>2. CASE k.type = "frame"
    <3>1. ~c.stage.ncodec_consumed /\ ~c.stage.model_consumed
      BY <2>2 DEF Exchanges, Honest
    <3>2. d = e
      BY <1>1, <2>2
    <3> HIDE DEF d
    <3> QED
      BY <1>2, <1>3, <3>1, <3>2
  <2> QED
    BY <2>1, <2>2 DEF IsSetting
<1>7. d \in Codec /\ d.stream.len = 0
  BY TruncatedKeepsType
<1>8. d.reader = NoReader
  OBVIOUS
<1> HIDE DEF d
<1>9. Exchanges(k, "writing", g, d)
  BY <1>6 DEF Exchanges, Honest
<1>10. PutOf(k, "writing", d) = <<>>
  BY <1>6, <1>7, PutIs, PendingIs
<1>11. InboxOf(k, "writing", d) = <<>>
  BY <1>8, RestingLeaves
<1> QED
  BY <1>9, <1>10, <1>11 DEF d

LEMMA WriteExchanges ==
  ASSUME NEW k, IsSetting(k), NEW c \in Codec, c.stream.len = 0, NEW p \in PduType,
         NEW g, Exchanges(k, "writing", g, c)
  PROVE  LET d == WriteMsg(k, c, p)
         IN  /\ Exchanges(k, "writing", g, d)
             /\ InboxOf(k, "writing", d) = InboxOf(k, "writing", c)
             /\ PutOf(k, "writing", d) = Append(Pending(c), Written(k, p))
<1> DEFINE d == WriteMsg(k, c, p)
           stamp == IF k.type = "pdu" THEN c.write_time ELSE 0
           m0 == IF c.builder = <<>>
                 THEN [ident |-> Identifier(k.type), time |-> stamp, vector |-> <<>>]
                 ELSE c.builder[1]
           m1 == [m0 EXCEPT !.vector = Append(m0.vector, Written(k, p))]
<1>1. d = [c EXCEPT !.builder = <<m1>>]
  BY DEF WriteMsg
<1>2. /\ d \in Codec /\ d.stream = c.stream /\ d.reader = c.reader /\ d.stage = c.stage
  BY WriteMsgKeepsType
<1>3. DOMAIN m0 = {"ident", "time", "vector"} /\ m0.ident = Identifier(k.type)
      /\ m0.vector = Pending(c)
  <2>1. CASE c.builder = <<>>
    BY <2>1 DEF Pending
  <2>2. CASE c.builder # <<>>
    <3>1. m0 = c.builder[1] /\ m0 \in Msg /\ Pending(c) = m0.vector
      BY <2>2, PendingIs
    <3> HIDE DEF m0
    <3>2. c.builder[1].ident = Identifier(k.type)
      BY <2>2 DEF Exchanges
    <3> QED
      BY <3>1, <3>2 DEF Msg
  <2> QED
    BY <2>1, <2>2
<1> HIDE DEF m0, d
<1>4. m1.ident = Identifier(k.type) /\ m1.vector = Append(Pending(c), Written(k, p))
  BY <1>3
<1> HIDE DEF m1
<1>5. d.builder = <<m1>> /\ d.held = c.held
  BY <1>1 DEF Codec
<1>6. <<m1>>[1] = m1 /\ <<m1>> # <<>>
  OBVIOUS
<1>7. Exchanges(k, "writing", g, d)
  BY <1>2, <1>4, <1>5, <1>6 DEF Exchanges, Honest
<1>8. InboxOf(k, "writing", d) = InboxOf(k, "writing", c)
  BY <1>2 DEF InboxOf
<1>9. PutOf(k, "writing", d) = Pending(d)
  BY <1>2, PutIs
<1>10. Pending(d) = Append(Pending(c), Written(k, p))
  BY <1>4, <1>5, <1>6 DEF Pending
<1> QED
  BY <1>7, <1>8, <1>9, <1>10 DEF d

LEMMA FlushExchanges ==
  ASSUME NEW k, IsSetting(k), NEW c \in Codec, c.stream.pos = 0, c.stream.len = 0,
         c.reader = NoReader, NEW g, Exchanges(k, "writing", g, c)
  PROVE  LET d == Flushed(c)
         IN  /\ Exchanges(k, "done", g, d)
             /\ InboxOf(k, "done", d) = InboxOf(k, "writing", c)
             /\ PutOf(k, "done", d) = PutOf(k, "writing", c)
<1> DEFINE d == Flushed(c)
           ident == Identifier(k.type)
           m == c.builder[1]
           t == SeekSet(d.stream, 0)
<1>1. d \in Codec /\ d.reader = NoReader /\ d.stage = c.stage
  BY FlushedKeepsType
<1>2. InboxOf(k, "done", d) = <<>> /\ InboxOf(k, "writing", c) = <<>>
  BY <1>1, RestingLeaves
<1>3. d.builder = <<>> /\ d.held = c.held
  BY DEF Flushed, Codec
<1>4. Content(t) = (IF c.builder = <<>> THEN <<>> ELSE Encode(m))
      /\ PdusOf(t, ident) = Pending(c)
  <2>1. c.stream \in Stream
    BY DEF Codec
  <2>2. CASE c.builder = <<>>
    <3>1. d = c
      BY <2>2 DEF Flushed
    <3>2. PdusOf(t, ident) = <<>> /\ Pending(c) = <<>>
      BY <2>1, <2>2, <3>1, NothingToRead, PendingIs
    <3>3. Content(t) = <<>>
      <4>1. t.pos = 0 /\ t.len = 0
        BY <2>1, <3>1, StreamIs DEF SeekSet, Stream, Memory
      <4> HIDE DEF t
      <4>2. Content(t) = SubSeq(t.mem, 1, 0)
        BY <4>1 DEF Content
      <4> QED
        BY <4>2
    <3> QED
      BY <2>2, <3>2, <3>3
  <2>3. CASE c.builder # <<>>
    <3>1. m \in Msg /\ Pending(c) = m.vector /\ m.ident = ident
      BY <2>3, PendingIs DEF Exchanges
    <3>2. d = [c EXCEPT !.stream = Write(c.stream, Encode(m)), !.builder = <<>>]
      BY <2>3 DEF Flushed
    <3>3. d.stream = Write(c.stream, Encode(m))
      BY <3>2 DEF Codec
    <3> HIDE DEF d, m, ident
    <3>4. Encode(m) \in WholeCells
      BY <3>1, EncodedIsWhole
    <3>5. Content(t) = Encode(m) /\ PdusOf(t, ident) = PdusIn(Encode(m), ident)
      BY <2>1, <3>3, <3>4, WrittenContent
    <3>6. PdusIn(Encode(m), ident) = m.vector
      BY <3>1, PdusInOne
    <3> QED
      BY <2>3, <3>1, <3>5, <3>6
  <2> QED
    BY <2>2, <2>3
<1>5. OneMessage(Content(t), ident)
  <2> HIDE DEF t
  <2>1. c.builder # <<>> => m \in Msg /\ m.ident = ident
    BY PendingIs DEF Exchanges
  <2> HIDE DEF m, ident
  <2> QED
    BY <1>4, <2>1 DEF OneMessage
<1>6. PutOf(k, "done", d) = PutOf(k, "writing", c)
  <2>1. PutOf(k, "writing", c) = Pending(c)
    BY PutIs
  <2>2. Pending(d) = <<>>
    BY <1>1, <1>3, PendingIs
  <2>3. PutOf(k, "done", d) = Pending(c) \o <<>>
    BY <1>4, <2>2 DEF PutOf
  <2>4. Pending(c) \o <<>> = Pending(c)
    BY PendingIs
  <2> QED
    BY <2>1, <2>3, <2>4
<1> HIDE DEF d
<1>7. Exchanges(k, "done", g, d)
  BY <1>1, <1>3, <1>5 DEF Exchanges, Honest
<1> QED
  BY <1>2, <1>6, <1>7 DEF d

-----------------------------------------------------------------------------
(***************************************************************************)
(* The exchange.                                                           *)
(***************************************************************************)

LEMMA PromiseFlattenSeq ==
  ASSUME NEW ss
  PROVE  Promise!FlattenSeq(ss) = FlattenSeq(ss)
BY DEF Promise!FlattenSeq, FlattenSeq

LEMMA ToReturnIs ==
  ASSUME NEW n
  PROVE  /\ ToReturn(n) = InboxOf(Config[n], phase[n], codec[n])
         /\ GivenToWrite(n) = PutOf(Config[n], phase[n], codec[n])
<1> DEFINE k == Config[n]
           c == codec[n]
           un == Pdus(Unread(c.stream, c.reader, Identifier(k.type)))
<1>1. (CHOOSE ps \in {Returns(k, c.held, net) : net \in {un}} : TRUE) = Returns(k, c.held, un)
  BY OneNet
<1>2. ToReturn(n) = InboxOf(k, phase[n], c)
  BY <1>1 DEF ToReturn, InboxOf, Left
<1>3. GivenToWrite(n) = PutOf(k, phase[n], c)
  BY DEF GivenToWrite, PutOf, PdusOf, Coming
<1> QED
  BY <1>2, <1>3

\* What the nodes with an interface of this type put, in their order.
PutOfType(type) ==
  FlattenSeq([i \in DOMAIN Nodes |->
    IF Config[Nodes[i]].type = type THEN GivenToWrite(Nodes[i]) ELSE <<>>])

\* simbus() gives each node what all nodes put: it reads the messages of its type.
LEMMA ConsolidatedHas ==
  ASSUME IInvCodecs, IInvStreams, IInvExchange, \A n \in Node : phase[n] = "done",
         NEW type \in {"pdu", "frame"}
  PROVE  /\ PdusIn(Consolidated, Identifier(type)) = PutOfType(type)
         /\ PutOfType(type) \in Seq(PduType)
<1> DEFINE ident == Identifier(type)
           ss == [i \in DOMAIN Nodes |-> Content(SeekSet(codec[Nodes[i]].stream, 0))]
           tt == [i \in DOMAIN Nodes |->
                   IF Config[Nodes[i]].type = type THEN GivenToWrite(Nodes[i]) ELSE <<>>]
           len == Len(Nodes)
<1>1. len \in Nat /\ DOMAIN Nodes = 1 .. len /\ \A i \in 1 .. len : Nodes[i] \in Node
  BY Settings
<1>2. ASSUME NEW i \in 1 .. len
      PROVE  /\ ss[i] \in Seq(Cell) /\ tt[i] \in Seq(PduType)
             /\ \/ ss[i] = <<>> /\ tt[i] = <<>>
                \/ \E m \in Msg : ss[i] = Encode(m)
                                  /\ tt[i] = IF m.ident = ident THEN m.vector ELSE <<>>
  <2> DEFINE n == Nodes[i]
             own == Identifier(Config[n].type)
             data == Content(SeekSet(codec[n].stream, 0))
  <2>1. n \in Node /\ phase[n] = "done" /\ IsSetting(Config[n])
    BY <1>1, Settings
  <2>2. ss[i] = data /\ tt[i] = IF Config[n].type = type THEN GivenToWrite(n) ELSE <<>>
    BY <1>1
  <2> HIDE DEF ss, tt
  <2>3. codec[n] \in Codec /\ codec[n].stream \in Stream /\ codec[n].builder = <<>>
    BY <2>1 DEF IInvStreams, IInvCodecs, Building, Codec
  <2>4. data \in WholeCells /\ data \in Seq(Cell)
    BY <2>3, ContentIsWhole DEF WholeCells
  <2>5. GivenToWrite(n) = PdusIn(data, own)
    <3>1. GivenToWrite(n) = PdusOf(SeekSet(codec[n].stream, 0), own) \o Pending(codec[n])
      BY <2>1, ToReturnIs DEF PutOf
    <3>2. Pending(codec[n]) = <<>>
      BY <2>3, PendingIs
    <3>3. PdusOf(SeekSet(codec[n].stream, 0), own) = PdusIn(data, own)
      BY <2>3, PdusOfContent
    <3>4. PdusIn(data, own) \in Seq(PduType)
      BY <2>4, CellsAre, PdusStep DEF PdusIn
    <3> HIDE DEF data, own
    <3> QED
      BY <3>1, <3>2, <3>3, <3>4
  <2>6. GivenToWrite(n) \in Seq(PduType)
    BY <2>4, <2>5, CellsAre, PdusStep DEF PdusIn
  <2>7. tt[i] \in Seq(PduType)
    BY <2>2, <2>6
  <2>8. OneMessage(data, own)
    BY <2>1 DEF IInvExchange, Exchanges
  <2>9. own = ident <=> Config[n].type = type
    BY <2>1 DEF Identifier, IsSetting
  <2> HIDE DEF n, own, data, ident
  <2>10. CASE data = <<>>
    BY <2>2, <2>4, <2>5, <2>7, <2>10, NoPdusInNone
  <2>11. ASSUME NEW m \in Msg, m.ident = own, data = Encode(m)
         PROVE  ss[i] = Encode(m) /\ tt[i] = IF m.ident = ident THEN m.vector ELSE <<>>
    <3>1. PdusIn(data, own) = m.vector
      BY <2>11, PdusInOne
    <3> QED
      BY <2>2, <2>5, <2>9, <2>11, <3>1
  <2> QED
    BY <2>2, <2>4, <2>7, <2>8, <2>10, <2>11 DEF OneMessage
<1>3. DOMAIN ss = 1 .. len /\ DOMAIN tt = 1 .. len
  BY <1>1
<1>3a. ss = [i \in 1 .. len |-> ss[i]] /\ tt = [i \in 1 .. len |-> tt[i]]
  BY <1>1
<1>4. Consolidated = FlattenSeq(ss) /\ PutOfType(type) = FlattenSeq(tt)
  BY DEF Consolidated, PutOfType
<1> HIDE DEF ss, tt, len, ident
<1>5. ss \in Seq(Seq(Cell)) /\ tt \in Seq(Seq(PduType)) /\ Len(ss) = len /\ Len(tt) = len
  BY <1>1, <1>2, <1>3, <1>3a
<1>6. PdusIn(FlattenSeq(ss), ident) = FlattenSeq(tt)
  <2>1. \A i \in 1 .. len :
          \/ ss[i] = <<>> /\ tt[i] = <<>>
          \/ \E m \in Msg : ss[i] = Encode(m) /\ tt[i] = IF m.ident = ident THEN m.vector ELSE <<>>
    BY <1>2
  <2>2. Matching(ss, tt, ident)
    BY <1>5, <2>1 DEF Matching
  <2> QED
    BY <2>2, PdusInAll
<1>7. FlattenSeq(tt) \in Seq(PduType)
  BY <1>5, Writes!FlattenSeqType, WritesFlattenSeq
<1> QED
  BY <1>4, <1>6, <1>7 DEF ident

\* What the exchange promises a node is what its codec returns of all that was put.
LEMMA ReceivedIs ==
  ASSUME NEW n \in Node, PutOfType(Config[n].type) \in Seq(PduType)
  PROVE  Promise!Received(n) = Returns(Config[n], <<>>, PutOfType(Config[n].type))
<1> DEFINE k == Config[n]
           all == PutOfType(k.type)
           put == [m \in Node |-> GivenToWrite(m)]
           gross == [i \in DOMAIN Nodes |->
                      IF Config[Nodes[i]].type = Config[n].type THEN put[Nodes[i]] ELSE <<>>]
           f(a) == FlattenSeq([i \in DOMAIN a |->
                     IF Promise!ForBus(n, a[i]) THEN <<a[i]>> ELSE <<>>])
           g(a) == FlattenSeq([i \in DOMAIN a |->
                     IF Promise!ForBus(n, a[i]) \/ Promise!Own(n, a[i]) THEN <<>> ELSE <<a[i]>>])
<1>1. Promise!Received(n)
        = g(FlattenSeq(gross)) \o [i \in DOMAIN f(FlattenSeq(gross)) |->
                                    Promise!Sent(n, f(FlattenSeq(gross))[i])]
  BY PromiseFlattenSeq DEF Promise!Received
<1>2. FlattenSeq(gross) = all
  <2>1. \A i \in DOMAIN Nodes : Nodes[i] \in Node
    BY Settings
  <2>2. \A i \in DOMAIN Nodes : put[Nodes[i]] = GivenToWrite(Nodes[i])
    BY <2>1
  <2> HIDE DEF put
  <2>3. gross = [i \in DOMAIN Nodes |->
                  IF Config[Nodes[i]].type = Config[n].type THEN GivenToWrite(Nodes[i]) ELSE <<>>]
    BY <2>2
  <2> HIDE DEF gross
  <2> QED
    BY <2>3 DEF PutOfType
<1> HIDE DEF all, gross
<1>3. /\ \A p : Promise!ForBus(n, p) <=> Consumes(k, p)
      /\ \A p : Promise!Own(n, p) <=> Filtered(k, p)
      /\ \A p : Promise!Sent(n, p) = Written(k, p)
  BY DEF Promise!ForBus, Promise!Own, Promise!Sent, Consumes, Filtered, Written
<1> DEFINE bus == FlattenSeq([i \in DOMAIN all |-> IF Consumes(k, all[i]) THEN <<all[i]>> ELSE <<>>])
           own == FlattenSeq([i \in DOMAIN all |->
                    IF Consumes(k, all[i]) \/ Filtered(k, all[i]) THEN <<>> ELSE <<all[i]>>])
<1>4. f(all) = bus /\ g(all) = own
  BY <1>3
<1>5. <<>> \o bus = bus
  <2>1. bus = Chosen(all, ForModel(k))
    <3>1. \A i \in DOMAIN all : all[i] \in PduType
      BY DEF all
    <3>2. [i \in DOMAIN all |-> IF Consumes(k, all[i]) THEN <<all[i]>> ELSE <<>>]
            = Choice(all, ForModel(k))
      BY <3>1 DEF Choice, ForModel
    <3> QED
      BY <3>2 DEF Chosen
  <2>2. all \in Seq(PduType)
    BY DEF all
  <2>3. bus \in Seq(PduType)
    BY <2>1, <2>2, ChosenType
  <2> HIDE DEF bus
  <2> QED
    BY <2>3
<1>6. Promise!Received(n) = own \o [i \in DOMAIN bus |-> Written(k, bus[i])]
  <2> HIDE DEF bus, own, f, g
  <2> QED
    BY <1>1, <1>2, <1>3, <1>4
<1>7. Returns(k, <<>>, all) = own \o [i \in DOMAIN bus |-> Written(k, bus[i])]
  <2>1. Returns(k, <<>>, all) = own \o [i \in DOMAIN (<<>> \o bus) |-> Written(k, (<<>> \o bus)[i])]
    BY DEF Returns
  <2> HIDE DEF bus, own
  <2> QED
    BY <1>5, <2>1
<1> QED
  BY <1>6, <1>7 DEF all

LEMMA LeftType ==
  ASSUME NEW k, IsSetting(k), NEW c \in Codec, Fits(c)
  PROVE  Left(k, c) \in Seq(PduType)
<1>1. c.stream \in Stream /\ c.reader \in Reader /\ c.held \in Seq(PduType)
      /\ c.bus.stream \in Stream
  BY DEF Codec, Bus
<1>2. CASE ~c.stage.ncodec_consumed
  <2> DEFINE un == Unread(c.stream, c.reader, Identifier(k.type))
             p == Pdus(un)
             r == Chosen(p, ForReader(k))
             h == c.held \o Chosen(p, ForModel(k))
  <2>1. un \in Seq(Element)
    BY <1>1, <1>2, UnreadIs DEF Fits
  <2>2. p \in Seq(PduType)
    BY <2>1, PdusAre
  <2> HIDE DEF p
  <2>3. r \in Seq(PduType) /\ h \in Seq(PduType)
    BY <1>1, <2>2, ChosenType
  <2>4. Returns(k, c.held, p) = r \o Sends(k, h)
    BY <1>1, <2>2, ReturnsIs
  <2> HIDE DEF r, h
  <2>5. Sends(k, h) \in Seq(PduType)
    BY <2>3, SendsType
  <2>6. Returns(k, c.held, p) \in Seq(PduType)
    BY <2>3, <2>4, <2>5
  <2> QED
    BY <1>2, <2>6 DEF Left, p
<1>3. CASE c.stage.ncodec_consumed
  <2> DEFINE un == Unread(c.bus.stream, c.reader, Identifier("pdu"))
  <2>1. un \in Seq(Element)
    BY <1>1, <1>3, UnreadIs DEF Fits
  <2>2. Pdus(un) \in Seq(PduType)
    BY <2>1, PdusAre
  <2>3. <<>> \in Seq(PduType)
    OBVIOUS
  <2> QED
    BY <1>3, <2>2, <2>3 DEF Left
<1> QED
  BY <1>2, <1>3

LEMMA ToReturnNext ==
  ASSUME NEW n
  PROVE  /\ ToReturn(n)' = InboxOf(Config[n], phase'[n], codec'[n])
         /\ GivenToWrite(n)' = PutOf(Config[n], phase'[n], codec'[n])
<1> DEFINE k == Config[n]
           c == codec'[n]
           un == Pdus(Unread(c.stream, c.reader, Identifier(k.type)))
<1>1. (CHOOSE ps \in {Returns(k, c.held, net) : net \in {un}} : TRUE) = Returns(k, c.held, un)
  BY OneNet
<1>2. ToReturn(n)' = InboxOf(k, phase'[n], c)
  BY <1>1 DEF ToReturn, InboxOf, Left
<1>3. GivenToWrite(n)' = PutOf(k, phase'[n], c)
  BY DEF GivenToWrite, PutOf, PdusOf, Coming
<1> QED
  BY <1>2, <1>3

Inboxes == [n \in Node |-> ToReturn(n)]
Puts == [n \in Node |-> GivenToWrite(n)]

\* A step of one node leaves the others what they had.
LEMMA OneNode ==
  ASSUME NEW n \in Node, \A m \in Node : m # n => codec'[m] = codec[m] /\ phase'[m] = phase[m]
  PROVE  /\ Inboxes[n] = InboxOf(Config[n], phase[n], codec[n])
         /\ Puts[n] = PutOf(Config[n], phase[n], codec[n])
         /\ Inboxes' = [Inboxes EXCEPT ![n] = InboxOf(Config[n], phase'[n], codec'[n])]
         /\ Puts' = [Puts EXCEPT ![n] = PutOf(Config[n], phase'[n], codec'[n])]
<1>1. /\ \A m \in Node : m # n => ToReturn(m)' = ToReturn(m) /\ GivenToWrite(m)' = GivenToWrite(m)
      /\ ToReturn(n)' = InboxOf(Config[n], phase'[n], codec'[n])
      /\ GivenToWrite(n)' = PutOf(Config[n], phase'[n], codec'[n])
  BY ToReturnIs, ToReturnNext
<1>2. Inboxes' = [m \in Node |-> ToReturn(m)'] /\ Puts' = [m \in Node |-> GivenToWrite(m)']
  BY DEF Inboxes, Puts, Node
<1>3. Inboxes[n] = ToReturn(n) /\ Puts[n] = GivenToWrite(n)
  BY DEF Inboxes, Puts
<1> QED
  BY <1>1, <1>2, <1>3, ToReturnIs DEF Inboxes, Puts

LEMMA Unchanged ==
  ASSUME NEW n \in Node
  PROVE  Inboxes = [Inboxes EXCEPT ![n] = Inboxes[n]] /\ Puts = [Puts EXCEPT ![n] = Puts[n]]
BY DEF Inboxes, Puts

LEMMA PromiseNode ==
  /\ Promise!Node = Node
  /\ \A n : Promise!Turn(n) <=> Turn(n)
  /\ \A n, p : Promise!Sent(n, p) = Written(Config[n], p)
<1>1. Promise!Node = Node
  BY DEF Promise!Node, Node, Promise!Range, Range
<1>2. \A n : Promise!Turn(n) <=> Turn(n)
  BY DEF Promise!Turn, Turn
<1>3. \A n, p : Promise!Sent(n, p) = Written(Config[n], p)
  BY DEF Promise!Sent, Written
<1> QED
  BY <1>1, <1>2, <1>3

\* The actions of the exchange, of what the codecs have to return and were given.
LEMMA PromiseActions ==
  ASSUME NEW n \in Node, Turn(n)
  PROVE  /\ /\ phase[n] = "reading" /\ Inboxes[n] # <<>>
            /\ got' = [got EXCEPT ![n] = <<Head(Inboxes[n])>>]
            /\ Inboxes' = [Inboxes EXCEPT ![n] = Tail(Inboxes[n])]
            /\ phase' = phase /\ step' = step /\ Puts' = Puts
            => Promise!Next
         /\ /\ phase[n] = "reading" /\ Inboxes[n] = <<>>
            /\ got' = [got EXCEPT ![n] = <<>>] /\ phase' = [phase EXCEPT ![n] = "read"]
            /\ step' = step /\ Inboxes' = Inboxes /\ Puts' = Puts
            => Promise!Next
         /\ /\ phase[n] = "reading" /\ n \in Impatient /\ phase' = [phase EXCEPT ![n] = "read"]
            /\ got' = got /\ step' = step /\ Inboxes' = Inboxes /\ Puts' = Puts
            => Promise!Next
         /\ /\ phase[n] = "read" /\ phase' = [phase EXCEPT ![n] = "writing"]
            /\ Inboxes' = [Inboxes EXCEPT ![n] = <<>>]
            /\ got' = got /\ step' = step /\ Puts' = Puts
            => Promise!Next
         /\ \A p \in Input[n] :
            /\ phase[n] = "writing" /\ Len(Puts[n]) < MaxPut[n] /\ step < MaxStep
            /\ Puts' = [Puts EXCEPT ![n] = Append(Puts[n], Written(Config[n], p))]
            /\ got' = got /\ step' = step /\ Inboxes' = Inboxes /\ phase' = phase
            => Promise!Next
         /\ /\ phase[n] = "writing" /\ phase' = [phase EXCEPT ![n] = "done"]
            /\ got' = got /\ step' = step /\ Inboxes' = Inboxes /\ Puts' = Puts
            => Promise!Next
<1>1. Promise!NodeStep(n) => Promise!Next
  BY PromiseNode DEF Promise!Next
<1>2. Promise!Turn(n)
  BY PromiseNode
<1> USE DEF Inboxes, Puts
<1>3. Promise!Take(n) \/ Promise!TakenAll(n) \/ Promise!StopEarly(n) \/ Promise!Truncate(n)
      \/ (\E p \in Input[n] : Promise!Put(n, p)) \/ Promise!Flush(n)
      => Promise!Next
  BY <1>1, <1>2 DEF Promise!NodeStep
<1>4. \A p : Promise!Sent(n, p) = Written(Config[n], p)
  BY PromiseNode
<1> QED
  BY <1>3, <1>4 DEF Promise!Take, Promise!TakenAll, Promise!StopEarly, Promise!Truncate,
     Promise!Put, Promise!Flush

Refines == Promise!Next \/ (/\ phase' = phase /\ got' = got /\ step' = step
                            /\ Inboxes' = Inboxes /\ Puts' = Puts)

\* The other nodes keep what they have.
LEMMA OnlyExchanges ==
  ASSUME IInvExchange, NEW n \in Node,
         \A m \in Node : m # n => codec'[m] = codec[m] /\ phase'[m] = phase[m] /\ got'[m] = got[m],
         Exchanges(Config[n], phase'[n], got'[n], codec'[n])
  PROVE  IInvExchange'
<1>1. ASSUME NEW m \in Node PROVE Exchanges(Config[m], phase'[m], got'[m], codec'[m])
  <2>1. CASE m = n
    BY <2>1
  <2>2. CASE m # n
    BY <2>2 DEF IInvExchange
  <2> QED
    BY <2>1, <2>2
<1> QED
  BY <1>1 DEF IInvExchange

\* What the invariants say of a node.
LEMMA OfNode ==
  ASSUME PatientFrames, IInvCodecs, IInvStreams, IInvExchange, NEW n \in Node
  PROVE  LET k == Config[n]
             c == codec[n]
         IN  /\ IsSetting(k) /\ k.model \in BOOLEAN /\ (k.model => k.type = "pdu")
             /\ c \in Codec /\ Fits(c) /\ Staged(c) /\ got[n] \in Got
             /\ k.type = "frame" => ~c.stage.ncodec_consumed
             /\ phase[n] = "writing" => c.stream.pos = 0 /\ c.stream.len = 0
             /\ phase[n] \in {"writing", "done"} => c.reader = NoReader
             /\ k.type = "frame" /\ phase[n] = "read" => c.reader = NoReader
             /\ Exchanges(k, phase[n], got[n], c)
             /\ n \in DOMAIN codec /\ n \in DOMAIN phase /\ n \in DOMAIN got
             /\ n \in Impatient => ~k.model /\ k.type = "pdu"
BY Settings, Models DEF IInvStreams, IInvExchange, Resting, IInvCodecs, PatientFrames

LEMMA ReadStep ==
  ASSUME PatientFrames, IInvCodecs, IInvStreams, IInvExchange, NEW n \in Node, Turn(n),
         NcodecRead(n)
  PROVE  IInvExchange' /\ Refines
<1> DEFINE k == Config[n]
           c == codec[n]
           r == Read(k, c)
           ph == IF r.got = <<>> THEN "read" ELSE "reading"
<1>0. /\ IsSetting(k) /\ k.model \in BOOLEAN /\ (k.model => k.type = "pdu")
      /\ c \in Codec /\ Fits(c) /\ Staged(c) /\ Exchanges(k, phase[n], got[n], c)
      /\ k.type = "frame" => ~c.stage.ncodec_consumed
      /\ n \in DOMAIN codec /\ n \in DOMAIN phase /\ n \in DOMAIN got
  BY OfNode
<1>1. /\ phase[n] = "reading" /\ codec' = [codec EXCEPT ![n] = r.c]
      /\ got' = [got EXCEPT ![n] = r.got] /\ phase' = [phase EXCEPT ![n] = ph] /\ step' = step
  BY DEF NcodecRead
<1>2. /\ Exchanges(k, ph, r.got, r.c)
      /\ Left(k, c) = r.got \o Left(k, r.c)
      /\ r.got = <<>> => Left(k, r.c) = <<>>
  BY <1>0, <1>1, ReadExchanges
<1>3. r.c \in Codec /\ Fits(r.c) /\ r.got \in Got
  BY ReadType
<1>4. Left(k, r.c) \in Seq(PduType)
  BY <1>0, <1>3, LeftType
<1> HIDE DEF r
<1>5. /\ codec'[n] = r.c /\ got'[n] = r.got /\ phase'[n] = ph
      /\ \A m \in Node : m # n => codec'[m] = codec[m] /\ phase'[m] = phase[m] /\ got'[m] = got[m]
  BY <1>0, <1>1
<1>6. IInvExchange'
  BY <1>2, <1>5, OnlyExchanges
<1>7. /\ Inboxes[n] = Left(k, c) /\ Puts[n] = <<>>
      /\ Inboxes' = [Inboxes EXCEPT ![n] = Left(k, r.c)] /\ Puts' = [Puts EXCEPT ![n] = <<>>]
  <2>1. ph \notin {"writing", "done"} /\ phase[n] \notin {"writing", "done"}
    BY <1>1
  <2>2. /\ Inboxes[n] = InboxOf(k, phase[n], c) /\ Puts[n] = PutOf(k, phase[n], c)
        /\ Inboxes' = [Inboxes EXCEPT ![n] = InboxOf(k, ph, r.c)]
        /\ Puts' = [Puts EXCEPT ![n] = PutOf(k, ph, r.c)]
    BY <1>5, OneNode
  <2> HIDE DEF ph, k, c
  <2> QED
    BY <2>1, <2>2 DEF InboxOf, PutOf
<1>8. Puts' = Puts
  BY <1>7, Unchanged
<1>9. CASE r.got = <<>>
  <2>1. Left(k, c) = <<>> /\ Left(k, r.c) = <<>>
    BY <1>2, <1>9
  <2>2. Inboxes' = Inboxes /\ Inboxes[n] = <<>>
    BY <1>7, <2>1, Unchanged
  <2>3. got' = [got EXCEPT ![n] = <<>>] /\ phase' = [phase EXCEPT ![n] = "read"]
    BY <1>1, <1>9
  <2>4. Promise!Next
    BY <1>1, <1>8, <2>2, <2>3, PromiseActions
  <2> QED
    BY <1>6, <2>4 DEF Refines
<1>10. ASSUME NEW p \in PduType, r.got = <<p>> PROVE Promise!Next
  <2> DEFINE left == Left(k, r.c)
  <2>1. left \in Seq(PduType) /\ Inboxes[n] = <<p>> \o left
    BY <1>2, <1>4, <1>7, <1>10
  <2> HIDE DEF left
  <2>2. Inboxes[n] # <<>> /\ Head(Inboxes[n]) = p /\ Tail(Inboxes[n]) = left
    BY <2>1
  <2>3. phase' = phase
    <3>1. r.got # <<>>
      BY <1>10
    <3>2. phase = [phase EXCEPT ![n] = phase[n]]
      BY DEF IInvCodecs
    <3> QED
      BY <1>1, <3>1, <3>2
  <2>4. got' = [got EXCEPT ![n] = <<Head(Inboxes[n])>>]
        /\ Inboxes' = [Inboxes EXCEPT ![n] = Tail(Inboxes[n])]
    BY <1>1, <1>7, <1>10, <2>2 DEF left
  <2> QED
    BY <1>1, <1>8, <2>2, <2>3, <2>4, PromiseActions
<1> QED
  BY <1>3, <1>6, <1>9, <1>10 DEF Got, Refines

LEMMA StopStep ==
  ASSUME PatientFrames, IInvCodecs, IInvStreams, IInvExchange, NEW n \in Node, Turn(n),
         StopReading(n)
  PROVE  IInvExchange' /\ Refines
<1> DEFINE k == Config[n]
           c == codec[n]
<1>0. /\ Exchanges(k, phase[n], got[n], c) /\ n \in DOMAIN phase /\ ~k.model
  BY OfNode DEF StopReading
<1>1. /\ phase[n] = "reading" /\ n \in Impatient /\ codec' = codec /\ got' = got /\ step' = step
      /\ phase' = [phase EXCEPT ![n] = "read"]
  BY DEF StopReading
<1>2. phase'[n] = "read" /\ \A m \in Node : m # n => phase'[m] = phase[m]
  BY <1>0, <1>1
<1>3. Exchanges(k, "read", got[n], c)
  BY <1>0, <1>1 DEF Exchanges, Honest
<1>4. IInvExchange'
  BY <1>1, <1>2, <1>3, OnlyExchanges
<1>5. Inboxes' = Inboxes /\ Puts' = Puts
  <2>1. /\ Inboxes[n] = InboxOf(k, "reading", c) /\ Puts[n] = PutOf(k, "reading", c)
        /\ Inboxes' = [Inboxes EXCEPT ![n] = InboxOf(k, "read", c)]
        /\ Puts' = [Puts EXCEPT ![n] = PutOf(k, "read", c)]
    BY <1>1, <1>2, OneNode
  <2>2. InboxOf(k, "reading", c) = InboxOf(k, "read", c) /\ PutOf(k, "reading", c) = PutOf(k, "read", c)
    BY DEF InboxOf, PutOf
  <2> QED
    BY <2>1, <2>2, Unchanged
<1>6. Promise!Next
  BY <1>1, <1>5, PromiseActions
<1> QED
  BY <1>4, <1>6 DEF Refines

\* A read after the last is seen by no one.
LEMMA ReadOnStep ==
  ASSUME PatientFrames, IInvCodecs, IInvStreams, IInvExchange, NEW n \in Node, Turn(n),
         ReadOn(n)
  PROVE  IInvExchange' /\ Refines
<1> DEFINE k == Config[n]
           c == codec[n]
           r == ReadPdu(k, c)
<1>0. /\ IsSetting(k) /\ k.model = FALSE /\ k.type = "pdu"
      /\ c \in Codec /\ Fits(c) /\ Staged(c) /\ Exchanges(k, phase[n], got[n], c)
      /\ n \in DOMAIN codec /\ n \in DOMAIN phase /\ n \in DOMAIN got
  BY OfNode DEF ReadOn
<1>1. /\ phase[n] = "read" /\ codec' = [codec EXCEPT ![n] = r.c] /\ c.stage.model_consumed
      /\ got' = [got EXCEPT ![n] = r.got] /\ phase' = phase /\ step' = step
  BY <1>0 DEF ReadOn, Read
<1>2. Honest(k, c) /\ c.stage.ncodec_consumed /\ got[n] = <<>>
      /\ (c.builder = <<>> \/ c.builder[1].ident = Identifier(k.type))
  BY <1>0, <1>1 DEF Exchanges, Honest
<1>3. /\ r.got = <<>> /\ Left(k, c) = <<>> /\ Left(k, r.c) = <<>>
      /\ Honest(k, r.c) /\ r.c.builder = c.builder
  BY <1>0, <1>2, ReadsOn
<1> HIDE DEF r
<1>4. got' = got
  BY <1>0, <1>1, <1>2, <1>3 DEF IInvStreams
<1>5. codec'[n] = r.c /\ \A m \in Node : m # n => codec'[m] = codec[m]
  BY <1>0, <1>1
<1>6. Exchanges(k, "read", <<>>, r.c)
  BY <1>0, <1>2, <1>3 DEF Exchanges, Honest
<1>7. IInvExchange'
  <2>1. Exchanges(Config[n], phase'[n], got'[n], codec'[n])
    BY <1>1, <1>2, <1>4, <1>5, <1>6
  <2> QED
    BY <1>1, <1>4, <1>5, <2>1, OnlyExchanges
<1>8. Inboxes' = Inboxes /\ Puts' = Puts
  <2>1. /\ Inboxes[n] = InboxOf(k, "read", c) /\ Puts[n] = PutOf(k, "read", c)
        /\ Inboxes' = [Inboxes EXCEPT ![n] = InboxOf(k, "read", r.c)]
        /\ Puts' = [Puts EXCEPT ![n] = PutOf(k, "read", r.c)]
    BY <1>1, <1>5, OneNode
  <2>2. InboxOf(k, "read", c) = InboxOf(k, "read", r.c) /\ PutOf(k, "read", c) = PutOf(k, "read", r.c)
    BY <1>3 DEF InboxOf, PutOf
  <2> QED
    BY <2>1, <2>2, Unchanged
<1> QED
  BY <1>1, <1>4, <1>7, <1>8 DEF Refines

LEMMA UtimeStep ==
  ASSUME PatientFrames, IInvCodecs, IInvStreams, IInvExchange, NEW n \in Node, Turn(n),
         NEW force \in BOOLEAN, NcodecUtime(n, force)
  PROVE  IInvExchange' /\ Refines
<1> DEFINE k == Config[n]
           c == codec[n]
           d == Utime(c, step - 1, force)
<1>0. c \in Codec /\ Exchanges(k, phase[n], got[n], c) /\ n \in DOMAIN codec
  BY OfNode
<1>1. /\ phase[n] = "reading" /\ codec' = [codec EXCEPT ![n] = d]
      /\ got' = got /\ phase' = phase /\ step' = step
  BY DEF NcodecUtime
<1>2. /\ d.stream = c.stream /\ d.reader = c.reader /\ d.stage = c.stage /\ d.bus = c.bus
      /\ d.held = c.held /\ d.builder = c.builder
  BY <1>0 DEF Utime, Codec
<1> HIDE DEF d
<1>3. codec'[n] = d /\ \A m \in Node : m # n => codec'[m] = codec[m]
  BY <1>0, <1>1
<1>4. Exchanges(k, phase[n], got[n], d)
  BY <1>0, <1>2 DEF Exchanges, Honest
<1>5. IInvExchange'
  BY <1>1, <1>3, <1>4, OnlyExchanges
<1>6. Inboxes' = Inboxes /\ Puts' = Puts
  <2>1. /\ Inboxes[n] = InboxOf(k, phase[n], c) /\ Puts[n] = PutOf(k, phase[n], c)
        /\ Inboxes' = [Inboxes EXCEPT ![n] = InboxOf(k, phase[n], d)]
        /\ Puts' = [Puts EXCEPT ![n] = PutOf(k, phase[n], d)]
    BY <1>1, <1>3, OneNode
  <2>2. InboxOf(k, phase[n], c) = InboxOf(k, phase[n], d) /\ PutOf(k, phase[n], c) = PutOf(k, phase[n], d)
    BY <1>2 DEF InboxOf, PutOf, Left, Pending
  <2> QED
    BY <2>1, <2>2, Unchanged
<1> QED
  BY <1>1, <1>5, <1>6 DEF Refines

LEMMA TruncateStep ==
  ASSUME PatientFrames, IInvCodecs, IInvStreams, IInvExchange, NEW n \in Node, Turn(n),
         NcodecTruncate(n)
  PROVE  IInvExchange' /\ Refines
<1> DEFINE k == Config[n]
           c == codec[n]
           d == Truncated(k, c)
<1>0. /\ IsSetting(k) /\ c \in Codec /\ Staged(c) /\ Exchanges(k, phase[n], got[n], c)
      /\ k.type = "frame" => ~c.stage.ncodec_consumed
      /\ k.type = "frame" /\ phase[n] = "read" => c.reader = NoReader
      /\ n \in DOMAIN codec /\ n \in DOMAIN phase
  BY OfNode
<1>1. /\ phase[n] = "read" /\ codec' = [codec EXCEPT ![n] = d]
      /\ got' = got /\ phase' = [phase EXCEPT ![n] = "writing"] /\ step' = step
  BY DEF NcodecTruncate
<1>2. d.reader = NoReader
  BY <1>0, <1>1, TruncatedKeepsType DEF IsSetting
<1>3. /\ Exchanges(k, "writing", got[n], d)
      /\ InboxOf(k, "writing", d) = <<>> /\ PutOf(k, "writing", d) = <<>>
  BY <1>0, <1>1, <1>2, TruncateExchanges
<1> HIDE DEF d
<1>4. codec'[n] = d /\ phase'[n] = "writing"
      /\ \A m \in Node : m # n => codec'[m] = codec[m] /\ phase'[m] = phase[m]
  BY <1>0, <1>1
<1>5. IInvExchange'
  BY <1>1, <1>3, <1>4, OnlyExchanges
<1>6. Inboxes' = [Inboxes EXCEPT ![n] = <<>>] /\ Puts' = Puts
  <2>1. /\ Puts[n] = PutOf(k, "read", c)
        /\ Inboxes' = [Inboxes EXCEPT ![n] = InboxOf(k, "writing", d)]
        /\ Puts' = [Puts EXCEPT ![n] = PutOf(k, "writing", d)]
    BY <1>1, <1>4, OneNode
  <2>2. PutOf(k, "read", c) = <<>>
    BY DEF PutOf
  <2> QED
    BY <1>3, <2>1, <2>2, Unchanged
<1>7. Promise!Next
  BY <1>1, <1>6, PromiseActions
<1> QED
  BY <1>5, <1>7 DEF Refines

LEMMA WriteStep ==
  ASSUME PatientFrames, IInvCodecs, IInvStreams, IInvExchange, NEW n \in Node, Turn(n),
         NEW p \in Input[n], NcodecWrite(n, p)
  PROVE  IInvExchange' /\ Refines
<1> DEFINE k == Config[n]
           c == codec[n]
           d == WriteMsg(k, c, p)
<1>0. /\ IsSetting(k) /\ c \in Codec /\ Exchanges(k, phase[n], got[n], c)
      /\ phase[n] = "writing" => c.stream.len = 0
      /\ n \in DOMAIN codec /\ p \in PduType
  BY OfNode, Settings
<1>1. /\ phase[n] = "writing" /\ codec' = [codec EXCEPT ![n] = d] /\ Len(Pending(c)) < MaxPut[n]
      /\ got' = got /\ phase' = phase /\ step' = step /\ step < MaxStep
  BY DEF NcodecWrite
<1>2. /\ Exchanges(k, "writing", got[n], d)
      /\ InboxOf(k, "writing", d) = InboxOf(k, "writing", c)
      /\ PutOf(k, "writing", d) = Append(Pending(c), Written(k, p))
  BY <1>0, <1>1, WriteExchanges
<1>3. PutOf(k, "writing", c) = Pending(c)
  BY <1>0, <1>1, PutIs
<1> HIDE DEF d
<1>4. codec'[n] = d /\ \A m \in Node : m # n => codec'[m] = codec[m]
  BY <1>0, <1>1
<1>5. IInvExchange'
  BY <1>1, <1>2, <1>4, OnlyExchanges
<1>6. Inboxes' = Inboxes /\ Puts[n] = Pending(c)
      /\ Puts' = [Puts EXCEPT ![n] = Append(Puts[n], Written(k, p))]
  <2>1. /\ Inboxes[n] = InboxOf(k, "writing", c) /\ Puts[n] = PutOf(k, "writing", c)
        /\ Inboxes' = [Inboxes EXCEPT ![n] = InboxOf(k, "writing", d)]
        /\ Puts' = [Puts EXCEPT ![n] = PutOf(k, "writing", d)]
    BY <1>1, <1>4, OneNode
  <2> QED
    BY <1>2, <1>3, <2>1, Unchanged
<1>7. Promise!Next
  BY <1>1, <1>6, PromiseActions
<1> QED
  BY <1>5, <1>7 DEF Refines

LEMMA FlushStep ==
  ASSUME PatientFrames, IInvCodecs, IInvStreams, IInvExchange, NEW n \in Node, Turn(n),
         NcodecFlush(n)
  PROVE  IInvExchange' /\ Refines
<1> DEFINE k == Config[n]
           c == codec[n]
           d == Flushed(c)
<1>0. /\ IsSetting(k) /\ c \in Codec /\ Exchanges(k, phase[n], got[n], c)
      /\ phase[n] = "writing" => c.stream.pos = 0 /\ c.stream.len = 0 /\ c.reader = NoReader
      /\ n \in DOMAIN codec /\ n \in DOMAIN phase
  BY OfNode
<1>1. /\ phase[n] = "writing" /\ codec' = [codec EXCEPT ![n] = d]
      /\ got' = got /\ phase' = [phase EXCEPT ![n] = "done"] /\ step' = step
  BY DEF NcodecFlush
<1>2. /\ Exchanges(k, "done", got[n], d)
      /\ InboxOf(k, "done", d) = InboxOf(k, "writing", c)
      /\ PutOf(k, "done", d) = PutOf(k, "writing", c)
  BY <1>0, <1>1, FlushExchanges
<1> HIDE DEF d
<1>4. codec'[n] = d /\ phase'[n] = "done"
      /\ \A m \in Node : m # n => codec'[m] = codec[m] /\ phase'[m] = phase[m]
  BY <1>0, <1>1
<1>5. IInvExchange'
  BY <1>1, <1>2, <1>4, OnlyExchanges
<1>6. Inboxes' = Inboxes /\ Puts' = Puts
  <2>1. /\ Inboxes[n] = InboxOf(k, "writing", c) /\ Puts[n] = PutOf(k, "writing", c)
        /\ Inboxes' = [Inboxes EXCEPT ![n] = InboxOf(k, "done", d)]
        /\ Puts' = [Puts EXCEPT ![n] = PutOf(k, "done", d)]
    BY <1>1, <1>4, OneNode
  <2> QED
    BY <1>2, <2>1, Unchanged
<1>7. Promise!Next
  BY <1>1, <1>6, PromiseActions
<1> QED
  BY <1>5, <1>7 DEF Refines

LEMMA SimBusStep ==
  ASSUME PatientFrames, IInvCodecs, IInvStreams, IInvExchange, SimBus
  PROVE  IInvExchange' /\ Refines
<1>1. /\ \A n \in Node : phase[n] = "done"
      /\ phase' = [n \in Node |-> "reading"] /\ step' = step + 1 /\ got' = got /\ step < MaxStep
      /\ codec' = [n \in Node |-> [codec[n] EXCEPT
           !.stream = SeekSet(Write(SeekReset(codec[n].stream), Consolidated), 0)]]
  BY DEF SimBus
<1>2. Consolidated \in WholeCells
  BY ConsolidatedIsWhole
<1>3. ASSUME NEW n \in Node
      PROVE  /\ Exchanges(Config[n], phase'[n], got'[n], codec'[n])
             /\ ToReturn(n)' = Promise!Received(n)
             /\ GivenToWrite(n)' = <<>>
  <2> DEFINE k == Config[n]
             c == codec[n]
             d == codec'[n]
             t == SeekReset(c.stream)
             s == SeekSet(Write(t, Consolidated), 0)
             ident == Identifier(k.type)
  <2>0. /\ IsSetting(k) /\ c \in Codec /\ Exchanges(k, "done", got[n], c) /\ c.reader = NoReader
    BY <1>1, OfNode
  <2>1. t \in Stream /\ t.pos = 0 /\ t.len = 0
    BY <2>0, SeekIs DEF Codec
  <2>2. PdusOf(s, ident) = PdusIn(Consolidated, ident)
    <3> HIDE DEF t
    <3> QED
      BY <1>2, <2>1, WrittenContent
  <2>3. d = [c EXCEPT !.stream = s]
    BY <1>1
  <2> HIDE DEF t, s, d
  <2>4. /\ d.stream = s /\ d.reader = NoReader /\ d.stage = c.stage /\ d.held = c.held
        /\ d.builder = c.builder
    BY <2>0, <2>3 DEF Codec
  <2>5. /\ Honest(k, c) /\ c.held = <<>> /\ ~c.stage.ncodec_consumed /\ ~c.stage.model_consumed
        /\ c.builder = <<>> \/ c.builder[1].ident = ident
    BY <2>0 DEF Exchanges, Honest
  <2>6. Exchanges(k, "reading", got[n], d)
    BY <2>4, <2>5 DEF Exchanges, Honest
  <2>7. /\ PdusIn(Consolidated, ident) = PutOfType(k.type)
        /\ PutOfType(k.type) \in Seq(PduType)
    BY <1>1, <2>0, ConsolidatedHas DEF IsSetting
  <2>8. ToReturn(n)' = Promise!Received(n)
    <3>1. ToReturn(n)' = InboxOf(k, phase'[n], d) /\ phase'[n] = "reading"
      BY <1>1, ToReturnNext DEF d
    <3>2. ToReturn(n)' = Left(k, d)
      BY <3>1 DEF InboxOf
    <3>3. Left(k, d) = Returns(k, <<>>, PdusOf(s, ident))
      BY <2>4, <2>5 DEF Left, PdusOf, Coming
    <3>4. Promise!Received(n) = Returns(k, <<>>, PutOfType(k.type))
      BY <2>7, ReceivedIs
    <3> QED
      BY <2>2, <2>7, <3>2, <3>3, <3>4
  <2>9. GivenToWrite(n)' = <<>>
    BY <1>1, ToReturnNext DEF PutOf
  <2> QED
    BY <1>1, <2>6, <2>8, <2>9 DEF d
<1>4. IInvExchange'
  BY <1>3 DEF IInvExchange
<1>5. Promise!Exchange
  <2>1. Promise!Node = Node
    BY PromiseNode
  <2>2. [n \in Node |-> ToReturn(n)]' = [n \in Node |-> Promise!Received(n)]
    BY <1>3 DEF Node
  <2>3. [n \in Node |-> GivenToWrite(n)]' = [n \in Node |-> <<>>]
    BY <1>3 DEF Node
  <2> QED
    BY <1>1, <2>1, <2>2, <2>3 DEF Promise!Exchange
<1> QED
  BY <1>4, <1>5 DEF Refines, Promise!Next

LEMMA ExchangeStep ==
  ASSUME PatientFrames
  PROVE  IInvCodecs /\ IInvStreams /\ IInvExchange /\ [Next]_vars
           => IInvExchange' /\ [Promise!Next]_Promise!vars
<1> SUFFICES ASSUME IInvCodecs, IInvStreams, IInvExchange, [Next]_vars
             PROVE  IInvExchange' /\ [Promise!Next]_Promise!vars
  OBVIOUS
<1>1. IInvExchange' /\ Refines
  <2>1. CASE SimBus
    BY <2>1, SimBusStep
  <2>2. ASSUME NEW n \in Node, NodeStep(n) PROVE IInvExchange' /\ Refines
    BY <2>2, ReadStep, StopStep, ReadOnStep, UtimeStep, TruncateStep, WriteStep, FlushStep
       DEF NodeStep
  <2>3. CASE UNCHANGED vars
    <3>1. codec' = codec /\ phase' = phase /\ got' = got /\ step' = step
      BY <2>3 DEF vars
    <3>2. IInvExchange'
      BY <3>1 DEF IInvExchange
    <3>3. \A n \in Node : ToReturn(n)' = ToReturn(n) /\ GivenToWrite(n)' = GivenToWrite(n)
      BY <3>1, ToReturnIs, ToReturnNext
    <3>4. Inboxes' = Inboxes /\ Puts' = Puts
      BY <3>3 DEF Inboxes, Puts, Node
    <3> QED
      BY <3>1, <3>2, <3>4 DEF Refines
  <2> QED
    BY <2>1, <2>2, <2>3 DEF Next
<1>2. Refines => [Promise!Next]_Promise!vars
  BY DEF Refines, Promise!vars, Inboxes, Puts
<1> QED
  BY <1>1, <1>2

LEMMA InitExchange == Init => IInvExchange /\ Promise!Init
<1> SUFFICES ASSUME Init PROVE IInvExchange /\ Promise!Init
  OBVIOUS
<1> DEFINE d == NewCodec(BufferLen)
<1>1. /\ codec = [n \in Node |-> d] /\ phase = [n \in Node |-> "writing"]
      /\ got = [n \in Node |-> <<>>] /\ step = 0
  BY DEF Init
<1>2. d \in Codec /\ d.stream.len = 0 /\ d.reader = NoReader /\ ~d.stage.ncodec_consumed
  BY NewCodecType
<1>3. d.held = <<>> /\ d.builder = <<>> /\ ~d.stage.model_consumed
  BY DEF NewCodec, Stages
<1> HIDE DEF d
<1>4. ASSUME NEW n \in Node
      PROVE  /\ Exchanges(Config[n], phase[n], got[n], codec[n])
             /\ ToReturn(n) = <<>> /\ GivenToWrite(n) = <<>>
  <2>1. codec[n] = d /\ phase[n] = "writing" /\ got[n] = <<>>
    BY <1>1
  <2>2. InboxOf(Config[n], "writing", d) = <<>>
    BY <1>2, RestingLeaves
  <2>3. PutOf(Config[n], "writing", d) = <<>>
    BY <1>2, <1>3, PutIs, PendingIs
  <2>4. Exchanges(Config[n], "writing", <<>>, d)
    BY <1>2, <1>3 DEF Exchanges, Honest
  <2> QED
    BY <2>1, <2>2, <2>3, <2>4, ToReturnIs
<1>5. Promise!Init
  <2>1. Promise!Node = Node
    BY PromiseNode
  <2> QED
    BY <1>1, <1>4, <2>1 DEF Promise!Init
<1> QED
  BY <1>4, <1>5 DEF IInvExchange

-----------------------------------------------------------------------------
(***************************************************************************)
(* The results.                                                            *)
(***************************************************************************)

\* The time that the codec of a node keeps for itself is that of the SimBus, and
\* what it writes carries the time of the step that it read
\* (_advance_simulation_time, pdu_utime): in every co-simulation of nodes with
\* any interfaces, of any length.
THEOREM TimeKept == Spec => []TimeInStep
<1>1. IInvCodecs /\ IInvTime => TimeInStep
  <2> SUFFICES ASSUME IInvCodecs, IInvTime, NEW n \in Node \ late, Config[n].type = "pdu"
               PROVE  LET read == IF phase[n] = "reading" THEN step - 1 ELSE step
                          c == codec[n]
                      IN /\ c.time = read
                         /\ c.builder # <<>> =>
                              c.builder[1].time = (IF read = 0 THEN 0 ELSE read - 1)
    BY DEF TimeInStep
  <2>1. CASE phase[n] = "reading"
    BY <2>1 DEF IInvCodecs, IInvTime, Building
  <2>2. CASE phase[n] # "reading"
    <3>1. codec[n].time = step /\ codec[n].write_time = Before(step)
      BY <2>2 DEF IInvTime
    <3>2. codec[n].builder # <<>> => codec[n].builder[1].time = codec[n].write_time
      BY DEF IInvCodecs, Building
    <3> QED
      BY <2>2, <3>1, <3>2 DEF Before
  <2> QED
    BY <2>1, <2>2
<1> QED
  BY <1>1, InitCodecs, CodecsStep, TimeStep, PTL DEF Spec

\* When a stream is truncated, written or exchanged, the reader of its codec
\* holds no vector in it (_reader_reset): where every application with a frame
\* interface reads until there is no frame left.  can_truncate() resets no reader,
\* so one that stops early is outside of this.
THEOREM ReaderAtRest == ASSUME PatientFrames PROVE Spec => []NoStaleReader
<1>1. IInvStreams => NoStaleReader
  BY DEF IInvStreams, Resting, NoStaleReader, NoReader
<1> QED
  BY <1>1, InitCodecs, CodecsStep, InitStreams, StreamsStep, PTL DEF Spec

\* In every co-simulation, however its applications read, all streams hold
\* whole messages in memory that they have: what is truncated, resized, seeked
\* and exchanged never cuts a message (stream_write, pdu_truncate, simbus).
THEOREM StreamsWhole == Spec => []StreamSound
BY InitCodecs, CodecsStep, InitStreams, StreamsStep, StreamsAreSound, PTL DEF Spec

\* Instances have their types, the index of a reader is one of its vector, and what
\* is read is a PDU: where every application with a frame interface reads until
\* there is no frame left.
THEOREM TypeCorrect == ASSUME PatientFrames PROVE Spec => []TypeOK
BY InitCodecs, CodecsStep, InitStreams, StreamsStep, InitSteps, StepsStep, TypesAreOK,
   PTL DEF Spec

\* The codecs and the SimBus implement the exchange of PduExchange: each node
\* receives every PDU of its interface's type once and in order, none of its own
\* without loopback, and its bus model is given all of a step before it makes
\* anything of it (_next_pdu, get_stream_from_buffer, pdu_truncate, simbus). Again
\* where every application with a frame interface reads to the end.
THEOREM ImplementsPduExchange == ASSUME PatientFrames PROVE Spec => ImplementsExchange
BY InitCodecs, CodecsStep, InitStreams, StreamsStep, InitExchange, ExchangeStep,
   PTL DEF Spec, ImplementsExchange, Promise!Spec
=============================================================================
