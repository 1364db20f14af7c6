------------------------------- MODULE AbCodec -------------------------------
(***************************************************************************)
(* A codec instance of the Automotive Bus codec: writing, flushing,        *)
(* reading and truncating PDUs (ab/pdu_fbs.c) and CAN frames               *)
(* (ab/frame_fbs.c), each operation a function of the instance.            *)
(*                                                                         *)
(* A PDU, or a frame, is a record [id, kind, sender]: kind is the type of  *)
(* its transport, sender the swc_id (of a frame the node_id) of its        *)
(* writer.  A message is a record of its FlatBuffers identifier, the       *)
(* simulation time it is stamped with, and a vector of PDUs.               *)
(*                                                                         *)
(* k is the configuration of an instance, a record:                        *)
(*   type      "pdu" or "frame", the interface                             *)
(*   id        swc_id or node_id, 0 if not set                             *)
(*   loopback  TRUE: own PDUs are received                                 *)
(*   model     TRUE: the instance has a bus model                          *)
(* c is the state of an instance, a record:                                *)
(*   stream    the stream of the instance                                  *)
(*   builder   <<>>, or <<m>> with the message that is being built         *)
(*   reader    [msg, idx, len]: where in the stream the message of the     *)
(*             current vector is (0: NULL), the elements read of it and    *)
(*             its length                                                  *)
(*   stage     the three stages of reading                                 *)
(*   time, write_time   simulation_time.value and .write_value, in steps   *)
(*   held      the PDUs the bus model consumed, and did not progress yet   *)
(*   bus       stream, builder and write_time of the bus model's instance  *)
(*                                                                         *)
(* The bus model is external: it consumes PDUs of kind "Flexray", and      *)
(* progress() writes each of them to its own instance (FlexrayNetwork      *)
(* models what it really writes).                                          *)
(***************************************************************************)
EXTENDS BufferStream, SequencesExt

PduType == [id : Nat, kind : STRING, sender : Nat]

Identifier(type) == IF type = "pdu" THEN "SPDU" ELSE "SFRA"

NoReader == [msg |-> 0, idx |-> 0, len |-> 0]

Stages(b) == [ncodec_consumed |-> b, model_produced |-> b, model_consumed |-> b]

NewCodec(buffer_len) ==
  [stream |-> Create(buffer_len), builder |-> <<>>, reader |-> NoReader,
   stage |-> Stages(FALSE), time |-> 0, write_time |-> 0, held |-> <<>>,
   bus |-> [stream |-> Create(buffer_len), builder |-> <<>>, write_time |-> 0]]

-----------------------------------------------------------------------------
(* Writing.  instance is a codec, or the bus of one.                       *)

\* pdu_write() and can_write(): the sender of a PDU may be set by its
\* writer, the sender of a frame is always the node.
Written(k, p) ==
  [p EXCEPT !.sender = IF k.type = "pdu" /\ p.sender # 0 THEN p.sender ELSE k.id]

WriteMsg(k, instance, p) ==
  LET stamp == IF k.type = "pdu" THEN instance.write_time ELSE 0
      m == IF instance.builder = <<>>
           THEN [ident |-> Identifier(k.type), time |-> stamp, vector |-> <<>>]
           ELSE instance.builder[1]
  IN [instance EXCEPT !.builder = <<[m EXCEPT !.vector = Append(m.vector, Written(k, p))]>>]

\* pdu_flush(), can_flush()
Flushed(instance) ==
  IF instance.builder = <<>> THEN instance
  ELSE [instance EXCEPT !.stream = Write(instance.stream, Encode(instance.builder[1])),
                        !.builder = <<>>]

\* Mutation: no codec resets its reader.
TruncatedOnly(k, c) == [c EXCEPT !.builder = <<>>, !.stream = SeekReset(c.stream)]

\* pdu_truncate() and can_truncate(): only the first resets the reader.
Truncated(k, c) ==
  LET t == [c EXCEPT !.builder = <<>>, !.stream = SeekReset(c.stream)]
  IN IF k.type = "pdu"
     THEN [t EXCEPT !.reader = NoReader, !.stage = Stages(FALSE)]
     ELSE t

-----------------------------------------------------------------------------
(* Parsing a stream.                                                       *)

\* get_stream_from_buffer(): the messages from the position on that have the
\* identifier, each the cell it starts in.  The end of the stream and a size
\* prefix of 0 end the search.
Messages(s, ident) ==
  LET from[i \in 0 .. s.len] ==
        IF i >= s.len \/ s.mem[i + 1] = <<>> THEN <<>>
        ELSE LET m == s.mem[i + 1][1]
             IN (IF m.ident = ident THEN <<i + 1>> ELSE <<>>)
                \o (IF i + Size(m) <= s.len THEN from[i + Size(m)] ELSE <<>>)
  IN from[s.pos]

\* What a read returns where the memory no longer holds that vector.
Garbage == [id |-> 0, kind |-> "Garbage", sender |-> 0]

PduAt(s, msg, idx) ==
  IF s.mem[msg] # <<>> /\ idx <= Len(s.mem[msg][1].vector)
  THEN s.mem[msg][1].vector[idx]
  ELSE Garbage

\* Elements idx + 1 .. len of the vector of the message at msg.
Elements(s, msg, idx, len) ==
  [j \in 1 .. len - idx |->
    [pdu |-> PduAt(s, msg, idx + j), msg |-> msg, idx |-> idx + j]]

\* What the reader has not returned yet: the rest of the current vector, then
\* the vectors of the messages to come.
Unread(s, reader, ident) ==
  LET start == Messages(s, ident)
  IN Elements(s, reader.msg, reader.idx, reader.len)
     \o FlattenSeq([j \in DOMAIN start |->
                     Elements(s, start[j], 0, Len(s.mem[start[j]][1].vector))])

Pdus(unread) == [i \in DOMAIN unread |-> unread[i].pdu]

\* Mutation: the index is that of the next element, as if the loop had
\* counted it already.
ReaderAtNext(s, reader, u) ==
  [msg |-> u.msg, idx |-> u.idx + 1,
   len |-> IF u.msg = reader.msg THEN reader.len ELSE Len(s.mem[u.msg][1].vector)]

\* The element u is returned: its vector is the current one ...
ReaderAt(s, reader, u) ==
  [msg |-> u.msg, idx |-> u.idx,
   len |-> IF u.msg = reader.msg THEN reader.len ELSE Len(s.mem[u.msg][1].vector)]

\* ... and the position is behind its message.
StreamAt(s, reader, u) ==
  IF u.msg = reader.msg THEN s ELSE SeekSet(s, u.msg - 1 + Size(s.mem[u.msg][1]))

-----------------------------------------------------------------------------
(* Reading.  The result is [got, c]: the PDU read, <<>> for -ENOMSG, and   *)
(* the instance after it.                                                  *)

\* Mutation: own PDUs are filtered before the bus model sees them.
ConsumesOthers(k, p) == k.model /\ p.kind = "Flexray" /\ (k.id = p.sender => k.loopback)

\* flexray_bus_model_consume()
Consumes(k, p) == k.model /\ p.kind = "Flexray"

\* Filter: sender==receiver.  can_read() does not look at loopback.
Filtered(k, p) == k.id # 0 /\ k.id = p.sender /\ (k.type = "frame" \/ ~k.loopback)

\* can_read()
ReadFrame(k, c) ==
  LET unread == Unread(c.stream, c.reader, Identifier("frame"))
      i == SelectInSeq(unread, LAMBDA u : ~Filtered(k, u.pdu))
  IN IF i = 0
     THEN [got |-> <<>>,
           c |-> [c EXCEPT !.reader = NoReader, !.stream = SeekEnd(c.stream)]]
     ELSE [got |-> <<unread[i].pdu>>,
           c |-> [c EXCEPT !.reader = ReaderAt(c.stream, c.reader, unread[i]),
                           !.stream = StreamAt(c.stream, c.reader, unread[i])]]

\* _next_pdu(), Stage: NCodec PDUs.  The bus model takes what it consumes.
NCodecStage(k, c) ==
  LET unread == Unread(c.stream, c.reader, Identifier("pdu"))
      i == SelectInSeq(unread, LAMBDA u : ~Consumes(k, u.pdu) /\ ~Filtered(k, u.pdu))
      seen == IF i = 0 THEN unread ELSE SubSeq(unread, 1, i)
      held == c.held \o FlattenSeq([j \in DOMAIN seen |->
                                     IF Consumes(k, seen[j].pdu) THEN <<seen[j].pdu>> ELSE <<>>])
  IN IF i = 0
     THEN [got |-> <<>>,
           c |-> [c EXCEPT !.reader = NoReader, !.stream = SeekSet(c.stream, 0),
                           !.stage.ncodec_consumed = TRUE, !.held = held]]
     ELSE [got |-> <<unread[i].pdu>>,
           c |-> [c EXCEPT !.reader = ReaderAt(c.stream, c.reader, unread[i]),
                           !.stream = StreamAt(c.stream, c.reader, unread[i]),
                           !.held = held]]

\* progress() of the bus model: PDUs are written, and flushed by the caller.
WriteNext(bus, w) == WriteMsg(w.by, bus, w.pdu)

Progress(k, bus, held) ==
  FoldLeft(WriteNext, bus, [j \in DOMAIN held |-> [by |-> k, pdu |-> held[j]]])

\* _next_pdu(), Stage: Bus Model.
BusModelStage(k, c) ==
  LET bus == [c.bus EXCEPT !.stream = SeekReset(c.bus.stream), !.builder = <<>>]
      out == Flushed(Progress(k, bus, c.held))
      produced == [c EXCEPT !.stage.model_produced = TRUE]
  IN IF k.model
     THEN [produced EXCEPT !.held = <<>>,
                           !.bus = [out EXCEPT !.stream = SeekSet(out.stream, 0)]]
     ELSE produced

\* Mutation: the time is advanced before the write time is taken from it.
AdvanceTimeFirst(c) ==
  [c EXCEPT !.write_time = c.time + 1, !.time = c.time + 1, !.bus.write_time = c.time + 1]

\* The end of _next_pdu(): the simulation time advances.
AdvanceTime(c) ==
  [c EXCEPT !.write_time = c.time, !.time = c.time + 1, !.bus.write_time = c.time]

\* pdu_utime(), with a simulation time: it is not set back, unless forced to.
Utime(c, time, force) ==
  IF time > c.time \/ force THEN [c EXCEPT !.time = time] ELSE c

\* _next_pdu(), Stage: Model PDUs.
ModelStage(k, c) ==
  LET unread == IF k.model /\ ~c.stage.model_consumed
                THEN Unread(c.bus.stream, c.reader, Identifier("pdu")) ELSE <<>>
  IN IF unread = <<>>
     THEN [got |-> <<>>,
           c |-> AdvanceTime(
                   [c EXCEPT !.reader = NoReader, !.stage.model_consumed = TRUE,
                             !.bus.stream = IF k.model THEN SeekEnd(c.bus.stream)
                                            ELSE c.bus.stream])]
     ELSE [got |-> <<unread[1].pdu>>,
           c |-> [c EXCEPT !.reader = ReaderAt(c.bus.stream, c.reader, unread[1]),
                           !.bus.stream = StreamAt(c.bus.stream, c.reader, unread[1])]]

\* pdu_read()
ReadPdu(k, c) ==
  LET first  == IF c.stage.ncodec_consumed THEN [got |-> <<>>, c |-> c]
                ELSE NCodecStage(k, c)
      second == IF first.c.stage.model_produced THEN first.c
                ELSE BusModelStage(k, first.c)
  IN IF first.got # <<>> THEN first ELSE ModelStage(k, second)

Read(k, c) == IF k.type = "pdu" THEN ReadPdu(k, c) ELSE ReadFrame(k, c)
=============================================================================
