----------------------------- MODULE NcodecCosim -----------------------------
(***************************************************************************)
(* A co-simulation of codec instances over a SimBus: the step of an        *)
(* application as in examples/ab-codec/fray_cosim.c and pdu_cosim.c, and   *)
(* the exchange of streams of examples/ab-codec/simbus.c.  It implements   *)
(* PduExchange.                                                            *)
(*                                                                         *)
(* Instances share nothing between two exchanges, and the examples step    *)
(* one node after the other in one thread: so do the nodes here (Turn).    *)
(***************************************************************************)
EXTENDS AbCodec

CONSTANTS
  Nodes, Config, Input, MaxPut, MaxStep, Impatient,  \* as in PduExchange
  BufferLen                                          \* initial size of a stream

ASSUME CosimAssumption ==
  /\ BufferLen \in Nat
  /\ Nodes \in Seq(Range(Nodes)) /\ Len(Nodes) > 0 /\ IsInjective(Nodes)
  /\ DOMAIN Config = Range(Nodes) /\ DOMAIN Input = Range(Nodes)
  /\ \A n \in Range(Nodes) :
       /\ Config[n].type \in {"pdu", "frame"} /\ Config[n].id \in Nat
       /\ {Config[n].loopback, Config[n].model} \subseteq BOOLEAN
       /\ Config[n].model => Config[n].type = "pdu"
       /\ Input[n] \subseteq PduType
  /\ MaxPut \in [Range(Nodes) -> Nat] /\ MaxStep \in Nat
  /\ Impatient \subseteq {n \in Range(Nodes) : ~Config[n].model}

VARIABLES
  codec,   \* the instance of each node
  phase,   \* where each node is in its step
  got,     \* what the last read of each node returned
  step,    \* the number of exchanges so far
  late     \* history: nodes that did not read to just the end, and whose time
           \* was not set since

vars == <<codec, phase, got, step, late>>

Node == Range(Nodes)

Turn(n) == \A i, j \in DOMAIN Nodes : Nodes[j] = n /\ i < j => phase[Nodes[i]] = "done"

\* The nodes have written nothing yet: as fray_cosim.c does, they write
\* before the first exchange.
Init ==
  /\ codec = [n \in Node |-> NewCodec(BufferLen)]
  /\ phase = [n \in Node |-> "writing"]
  /\ got = [n \in Node |-> <<>>]
  /\ step = 0
  /\ late = {}

\* ncodec_read(): the application reads until -ENOMSG.
NcodecRead(n) ==
  /\ phase[n] = "reading"
  /\ \E r \in {Read(Config[n], codec[n])} :
       /\ codec' = [codec EXCEPT ![n] = r.c]
       /\ got' = [got EXCEPT ![n] = r.got]
       /\ phase' = [phase EXCEPT ![n] = IF r.got = <<>> THEN "read" ELSE "reading"]
  /\ UNCHANGED <<step, late>>

\* An application that does not read until -ENOMSG.
StopReading(n) ==
  /\ phase[n] = "reading" /\ n \in Impatient
  /\ phase' = [phase EXCEPT ![n] = "read"]
  /\ late' = late \union {n}
  /\ UNCHANGED <<codec, got, step>>

\* One that reads once more after -ENOMSG.
ReadOn(n) ==
  /\ phase[n] = "read" /\ n \in Impatient
  /\ codec[n].stage.model_consumed /\ codec[n].time <= step
  /\ \E r \in {Read(Config[n], codec[n])} :
       /\ codec' = [codec EXCEPT ![n] = r.c]
       /\ got' = [got EXCEPT ![n] = r.got]
  /\ late' = late \union {n}
  /\ UNCHANGED <<phase, step>>

\* ncodec_utime(): such an application may tell its codec the time of the
\* SimBus before it reads.
NcodecUtime(n, force) ==
  /\ phase[n] = "reading" /\ n \in late /\ Config[n].type = "pdu"
  /\ \E c \in {Utime(codec[n], step - 1, force)} :
       /\ codec' = [codec EXCEPT ![n] = c]
       /\ late' = IF c.time = step - 1 THEN late \ {n} ELSE late
  /\ UNCHANGED <<phase, got, step>>

\* ncodec_truncate(), once per step.
NcodecTruncate(n) ==
  /\ phase[n] = "read"
  /\ codec' = [codec EXCEPT ![n] = Truncated(Config[n], codec[n])]
  /\ phase' = [phase EXCEPT ![n] = "writing"]
  /\ UNCHANGED <<got, step, late>>

Pending(c) == IF c.builder = <<>> THEN <<>> ELSE c.builder[1].vector

\* ncodec_write()
NcodecWrite(n, p) ==
  /\ phase[n] = "writing" /\ Len(Pending(codec[n])) < MaxPut[n] /\ step < MaxStep
  /\ codec' = [codec EXCEPT ![n] = WriteMsg(Config[n], codec[n], p)]
  /\ UNCHANGED <<phase, got, step, late>>

\* ncodec_flush()
NcodecFlush(n) ==
  /\ phase[n] = "writing"
  /\ codec' = [codec EXCEPT ![n] = Flushed(codec[n])]
  /\ phase' = [phase EXCEPT ![n] = "done"]
  /\ UNCHANGED <<got, step, late>>

\* simbus(): the streams of all nodes are concatenated, and each node gets all.
Consolidated ==
  FlattenSeq([i \in DOMAIN Nodes |-> Content(SeekSet(codec[Nodes[i]].stream, 0))])

SimBus ==
  /\ \A n \in Node : phase[n] = "done"
  /\ step < MaxStep
  /\ codec' = [n \in Node |-> [codec[n] EXCEPT
       !.stream = SeekSet(Write(SeekReset(codec[n].stream), Consolidated), 0)]]
  /\ phase' = [n \in Node |-> "reading"]
  /\ step' = step + 1
  /\ UNCHANGED <<got, late>>

NodeStep(n) ==
  /\ Turn(n)
  /\ \/ NcodecRead(n) \/ StopReading(n) \/ ReadOn(n) \/ NcodecTruncate(n)
     \/ (\E force \in BOOLEAN : NcodecUtime(n, force))
     \/ (\E p \in Input[n] : NcodecWrite(n, p)) \/ NcodecFlush(n)

Next == SimBus \/ \E n \in Node : NodeStep(n)

Spec == Init /\ [][Next]_vars
-----------------------------------------------------------------------------
(* The refinement mapping.                                                 *)

\* What a codec returns of the PDUs of its stream, and after them of those that
\* its bus model is given: net are the PDUs it has not read yet.
Returns(k, held, net) ==
  LET bus == held \o FlattenSeq([i \in DOMAIN net |->
               IF Consumes(k, net[i]) THEN <<net[i]>> ELSE <<>>])
  IN FlattenSeq([i \in DOMAIN net |->
       IF Consumes(k, net[i]) \/ Filtered(k, net[i]) THEN <<>> ELSE <<net[i]>>])
     \o [i \in DOMAIN bus |-> Written(k, bus[i])]

\* The PDUs a codec has still to return.  Once it writes again, that is what
\* its reader still holds on to.  (net is bound, to be evaluated once.)
ToReturn(n) ==
  LET k == Config[n]
      c == codec[n]
  IN IF phase[n] \in {"writing", "done"}
     THEN Pdus(Elements(c.stream, c.reader.msg, c.reader.idx, c.reader.len))
     ELSE IF ~c.stage.ncodec_consumed
     THEN CHOOSE ps \in {Returns(k, c.held, net) :
                          net \in {Pdus(Unread(c.stream, c.reader, Identifier(k.type)))}} : TRUE
     ELSE IF k.model
     THEN Pdus(Unread(c.bus.stream, c.reader, Identifier("pdu")))
     ELSE <<>>

\* What was written to a codec since the last exchange.
GivenToWrite(n) ==
  IF phase[n] \in {"writing", "done"}
  THEN Pdus(Unread(SeekSet(codec[n].stream, 0), NoReader, Identifier(Config[n].type)))
       \o Pending(codec[n])
  ELSE <<>>

Promise == INSTANCE PduExchange
  WITH inbox <- [n \in Node |-> ToReturn(n)], put <- [n \in Node |-> GivenToWrite(n)]

-----------------------------------------------------------------------------
(* Properties.                                                             *)

\* Types; the index of the reader is one of its vector (save the vector index
\* in _reader_get_pdu).
TypeOK ==
  /\ \A n \in Node : \E c \in {codec[n]} :
       /\ c.reader \in [msg : Nat, idx : 0 .. c.reader.len, len : Nat]
       /\ DOMAIN c.stage = DOMAIN Stages(FALSE) /\ Range(c.stage) \subseteq BOOLEAN
       /\ {c.time, c.write_time, c.bus.write_time} \subseteq Nat
       /\ \A p \in Range(c.held \o got[n]) : p \in PduType
       /\ Len(got[n]) <= 1
  /\ phase \in [Node -> {"reading", "read", "writing", "done"}]
  /\ step \in 0 .. MaxStep
  /\ late \subseteq Impatient

\* The codecs and the SimBus implement the exchange: every PDU is received
\* once, by the nodes it is for, in order, and the bus model is given all of a
\* step before it progresses (_next_pdu, get_stream_from_buffer, simbus).
ImplementsExchange == Promise!Spec

\* A stream holds whole messages from its start to its length, inside the
\* memory it has: nothing is overwritten in part, or cut off by realloc()
\* (stream_write, pdu_truncate).
StreamSound ==
  \A n \in Node : \A s \in {codec[n].stream, codec[n].bus.stream} :
    /\ InBounds(s)
    /\ LET end[i \in 0 .. s.len] ==
             i = s.len \/ (/\ s.mem[i + 1] # <<>>
                           /\ i + Size(s.mem[i + 1][1]) <= s.len
                           /\ end[i + Size(s.mem[i + 1][1])])
       IN end[0]

\* The reader never holds a vector in memory that was rewritten: it is at rest
\* when a stream is truncated or exchanged (_reader_reset).
NoStaleReader ==
  \A n \in Node : codec[n].reader.msg # 0 => phase[n] \in {"reading", "read"}

\* The simulation time a node with a PDU interface keeps for itself is that of
\* the SimBus, and what it writes carries the time of the step that it read
\* (_advance_simulation_time: "same algo as SimBus").  A node that did not read
\* to just the end of a step is excepted until its time is set (pdu_utime).
TimeInStep ==
  \A n \in Node \ late : Config[n].type = "pdu" =>
    LET read == IF phase[n] = "reading" THEN step - 1 ELSE step
        c == codec[n]
    IN /\ c.time = read
       /\ c.builder # <<>> => c.builder[1].time = (IF read = 0 THEN 0 ELSE read - 1)
=============================================================================
