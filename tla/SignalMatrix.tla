----------------------------- MODULE SignalMatrix -----------------------------
(***************************************************************************)
(* The signals of a PDU network: matrix.c, from a physical value to a raw  *)
(* value to the bits of a payload, and back.                               *)
(*                                                                         *)
(* A signal is a record of its PDU, start (bit), length (bits), factor,    *)
(* offset, min, max, and of                                                *)
(*   invalid          factor or offset is NaN: the signal is not scaled    *)
(*   exact            the scaling loses nothing in floating point          *)
(*   encode, decode   what a call of its Lua function may do, {} if it has *)
(*                    none: [sets |-> "phys" | "raw" | "none", to |-> v]   *)
(* Physical values are integers, in a unit in which all of a layout are.   *)
(* A payload is a sequence of bytes.                                       *)
(***************************************************************************)
EXTENDS Integers, Sequences, FiniteSets, SequencesExt

CONSTANT RawBits  \* width of a raw value; 64 in the code

ASSUME RawAssumption == RawBits \in Nat \ {0}

\* 2^n
Two[n \in Nat] == IF n = 0 THEN 1 ELSE 2 * Two[n - 1]

\* A signal lies in its PDU and fits in a raw value (the code does not check it).
IsSignal(s, pdus) ==
  /\ s.pdu \in DOMAIN pdus
  /\ s.length \in 1 .. RawBits
  /\ s.start \in Nat /\ s.start + s.length <= 8 * pdus[s.pdu].len
  /\ s.factor \in Nat \ {0} /\ {s.offset, s.min, s.max} \subseteq Int
  /\ {s.invalid, s.exact} \subseteq BOOLEAN
  /\ \A run \in s.encode \union s.decode :
       \/ run.sets = "none"
       \/ run.sets = "phys" /\ run.to \in Int
       \/ run.sets = "raw" /\ run.to \in 0 .. Two[RawBits] - 1

SignalBits(s) == s.start .. s.start + s.length - 1

-----------------------------------------------------------------------------
(***************************************************************************)
(* Scaling: pdunet_pdu_calculate_linear_tx_active() and _range().          *)
(***************************************************************************)
InLimits(s, phys) == s.min <= phys /\ phys <= s.max

\* (phys - offset) / factor truncated to zero, and what rounding may make of an
\* exact multiple.
Quotients(s, phys) ==
  LET x == phys - s.offset
      q == IF x >= 0 THEN x \div s.factor ELSE -((-x) \div s.factor)
  IN  IF s.exact \/ q <= 0 \/ x % s.factor # 0 THEN {q} ELSE {q, q - 1}

\* Mutation: the conversion goes by way of int64_t, which is kept.
CastSigned(q) == {q}

\* The conversion of a double to uint64_t: out of the range it is undefined, and
\* wraps, or is the smallest or the largest raw value.
Cast(q) ==
  IF q \in 0 .. Two[RawBits] - 1 THEN {q} ELSE {q % Two[RawBits], 0, Two[RawBits] - 1}

RawsOf(s, phys) == UNION {Cast(q) : q \in Quotients(s, phys)}

Scaled(s, phys) == [phys : {phys}, raw : RawsOf(s, phys)]

\* Mutation: the limits are tested on the value before the call (as in
\* pdunet_pdu_calculate_linear_range()).
EncodeFuncUnchecked(s, phys, raw, run) ==
  IF run.sets = "phys" /\ run.to # phys THEN Scaled(s, run.to)
  ELSE {[phys |-> phys, raw |-> IF run.sets = "raw" THEN run.to ELSE raw]}

\* The Lua function may change the physical value, or the raw value.
EncodeFunc(s, phys, raw, run) ==
  IF run.sets = "phys" /\ run.to # phys
  THEN IF InLimits(s, run.to) THEN Scaled(s, run.to) ELSE {[phys |-> phys, raw |-> raw]}
  ELSE {[phys |-> phys, raw |-> IF run.sets = "raw" THEN run.to ELSE raw]}

\* What a physical value is encoded to; a value out of the limits leaves the
\* raw value as it was.
Encode(s, phys, raw) ==
  IF s.invalid \/ ~InLimits(s, phys) THEN {[phys |-> phys, raw |-> raw]}
  ELSE IF s.encode = {} THEN Scaled(s, phys)
  ELSE UNION {EncodeFunc(s, phys, r, run) : r \in RawsOf(s, phys), run \in s.encode}

Decoded(s, raw) == raw * s.factor + s.offset

\* A physical value out of the limits is not taken.
Accept(s, val, phys) == IF InLimits(s, val) THEN val ELSE phys

DecodeFunc(s, phys, raw, run) ==
  IF run.sets = "raw" /\ run.to # raw
  THEN [phys |-> Accept(s, Decoded(s, run.to), phys), raw |-> run.to]
  ELSE [phys |-> IF run.sets = "phys" THEN Accept(s, run.to, phys) ELSE phys, raw |-> raw]

\* What a raw value is decoded to.
Decode(s, phys, raw) ==
  IF s.invalid THEN {[phys |-> phys, raw |-> raw]}
  ELSE LET val == Accept(s, Decoded(s, raw), phys)
       IN  IF s.decode = {} THEN {[phys |-> val, raw |-> raw]}
           ELSE {DecodeFunc(s, val, raw, run) : run \in s.decode}

-----------------------------------------------------------------------------
(***************************************************************************)
(* Bits: pdunet_pdu_pack_range().                                          *)
(***************************************************************************)

\* The signal byte by byte: n bits of the raw value, starting with bit `from',
\* are bits `at' and following of a byte.  The first piece is one that does not
\* start with its byte; the last one has 1 to 8 bits.
Pieces(s) ==
  LET head == IF s.start % 8 = 0 THEN 0 ELSE Min({8 - (s.start % 8), s.length})
      rest == s.length - head
  IN  (IF head = 0 THEN <<>>
       ELSE <<[byte |-> s.start \div 8, at |-> s.start % 8, n |-> head, from |-> 0]>>)
      \o [i \in 1 .. (rest + 7) \div 8 |->
            [byte |-> (s.start + head) \div 8 + i - 1, at |-> 0,
             n |-> Min({8, rest - 8 * (i - 1)}), from |-> head + 8 * (i - 1)]]

\* Mutation: the bits after those that are written are lost.
WriteBitsToEnd(byte, piece, value) ==
  (byte % Two[piece.at]) + (value % Two[piece.n]) * Two[piece.at]

\* A byte in which the bits of a piece are those of a value.
WriteBits(byte, piece, value) ==
  (byte % Two[piece.at]) + (value % Two[piece.n]) * Two[piece.at]
    + (byte \div Two[piece.at + piece.n]) * Two[piece.at + piece.n]

ReadBits(byte, piece) == (byte \div Two[piece.at]) % Two[piece.n]

Pack(payload, s, raw) ==
  [b \in DOMAIN payload |->
     LET here == {i \in DOMAIN Pieces(s) : Pieces(s)[i].byte = b - 1}
     IN  IF here = {} THEN payload[b]
         ELSE LET piece == Pieces(s)[CHOOSE i \in here : TRUE]
              IN  WriteBits(payload[b], piece, raw \div Two[piece.from])]

\* Mutation: the position in the raw value is that in the byte.
ChunkUnshifted(payload, piece) == ReadBits(payload[piece.byte + 1], piece) * Two[piece.at]

\* What a piece contributes to the raw value.
Chunk(payload, piece) == ReadBits(payload[piece.byte + 1], piece) * Two[piece.from]

Combine(value, bits) == value + bits

Unpack(payload, s) ==
  FoldLeft(Combine, 0, [i \in DOMAIN Pieces(s) |-> Chunk(payload, Pieces(s)[i])])

\* What the Lua function of a PDU writes: bytes of the payload.
Script(payload, writes) ==
  [b \in DOMAIN payload |-> IF b \in DOMAIN writes THEN writes[b] ELSE payload[b]]
=============================================================================
