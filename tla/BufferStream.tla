----------------------------- MODULE BufferStream -----------------------------
(***************************************************************************)
(* The buffer stream of an NCodec (stream/buffer.c): memory that holds     *)
(* the messages of a step, a length and a position.                        *)
(*                                                                         *)
(* The unit of length is a cell, not a byte.  A message (a record, see     *)
(* AbCodec) takes Size(m) cells: one for its size prefix and header, from  *)
(* which the message can be read, and one for each element of its vector.  *)
(* A cell is <<m>> where message m starts, and <<>> anywhere else.         *)
(* A position counts the cells before it, as in C.                         *)
(*                                                                         *)
(* buffer_len is what the field of that name holds, Len(mem) the size that *)
(* the memory really has.  resizable is TRUE in every stream               *)
(* (ncodec_buffer_stream_create), so a write is never refused.             *)
(***************************************************************************)
EXTENDS Integers, Sequences

Size(m) == 1 + Len(m.vector)

\* The cells a message is encoded to.
Encode(m) == <<<<m>>>> \o [i \in 1 .. Len(m.vector) |-> <<>>]

Create(n) == [mem |-> [i \in 1 .. n |-> <<>>], buffer_len |-> n, len |-> 0, pos |-> 0]

\* stream_read() with NCODEC_POS_NC: the cells from the position on.
Content(s) == SubSeq(s.mem, s.pos + 1, s.len)

\* realloc(): new memory is uninitialised, and written before it is read.
Resize(mem, n) == [i \in 1 .. n |-> IF i <= Len(mem) THEN mem[i] ELSE <<>>]

Write(s, data) ==
  LET end == s.pos + Len(data)
      mem == IF end > s.buffer_len THEN Resize(s.mem, end) ELSE s.mem
  IN [s EXCEPT !.mem = [i \in DOMAIN mem |->
                         IF i \in s.pos + 1 .. end THEN data[i - s.pos] ELSE mem[i]],
               !.pos = end,
               !.len = IF end > s.len THEN end ELSE s.len]

SeekSet(s, p) == [s EXCEPT !.pos = IF p > s.len THEN s.len ELSE p]
SeekCur(s, p) == SeekSet(s, s.pos + p)
SeekEnd(s)    == [s EXCEPT !.pos = s.len]

\* Mutation: the length stays.
SeekStart(s)  == [s EXCEPT !.pos = 0]

SeekReset(s)  == [s EXCEPT !.pos = 0, !.len = 0]

\* The position and the length lie in memory that the stream has.
InBounds(s) == s.pos <= s.len /\ s.len <= Len(s.mem) /\ s.buffer_len <= Len(s.mem)
=============================================================================
