----------------------------- MODULE SignalNetwork -----------------------------
(***************************************************************************)
(* Signals from one model to another: in a step the sender's pdunet_tx()   *)
(* encodes and packs the signals of the PDUs that are due, and writes the  *)
(* PDUs that have changed; the receiver's pdunet_rx() unpacks and decodes  *)
(* those that have arrived.  Both have the same description of the PDUs.   *)
(*                                                                         *)
(* Which PDUs are due, which of them are periodic, and when the bus sends  *)
(* what was written for a PDU last, is open here (PduNetwork has schedule, *)
(* containers and bus).                                                    *)
(***************************************************************************)
EXTENDS SignalMatrix

CONSTANT Layouts  \* descriptions of the PDUs and of their signals

\* pdus: a sequence of [len, encode, decode], the bytes that a call of the Lua
\* functions of the PDU may write ({}: none); signals: a sequence, in the order
\* of the matrix; set: the values that the model gives to each signal.
ASSUME LayoutAssumption ==
  \A l \in Layouts :
    /\ Len(l.signals) \in Nat /\ DOMAIN l.signals = 1 .. Len(l.signals)
    /\ \A i \in DOMAIN l.signals : IsSignal(l.signals[i], l.pdus)
    /\ \A p \in DOMAIN l.pdus :
         /\ l.pdus[p].len \in Nat
         /\ \A writes \in l.pdus[p].encode \union l.pdus[p].decode :
              \A b \in DOMAIN writes : writes[b] \in 0 .. 255
    /\ DOMAIN l.set = DOMAIN l.signals
    /\ \A i \in DOMAIN l.set : l.set[i] \subseteq Int
    /\ \A i, j \in DOMAIN l.signals :
         i # j /\ l.signals[i].pdu = l.signals[j].pdu =>
           SignalBits(l.signals[i]) \cap SignalBits(l.signals[j]) = {}

VARIABLES
  layout,  \* the description of this network
  tx,      \* the sender: raw of each signal, payload and checksum of each PDU
  wire,    \* the payload written for each PDU and not sent, a sequence
  rx,      \* the receiver: phys and raw of each signal, payload of each PDU
  taken,   \* history: the physical value that raw was encoded of, a sequence
  heard    \* history: the PDUs that the receiver has got

vars == <<layout, tx, wire, rx, taken, heard>>

Sig == DOMAIN layout.signals
Pdu == DOMAIN layout.pdus
S(i) == layout.signals[i]

ZeroPayload(pdu) == [b \in 1 .. pdu.len |-> 0]

\* pdunet_matrix_transform(); the checksums are those of the first payloads.
Init ==
  /\ layout \in Layouts
  /\ tx = [raw |-> [i \in Sig |-> 0],
           payload |-> [p \in Pdu |-> ZeroPayload(layout.pdus[p])],
           checksum |-> [p \in Pdu |-> ZeroPayload(layout.pdus[p])]]
  /\ wire = [p \in Pdu |-> <<>>]
  /\ rx = [phys |-> [i \in Sig |-> 0], raw |-> [i \in Sig |-> 0],
           payload |-> [p \in Pdu |-> ZeroPayload(layout.pdus[p])]]
  /\ taken = [i \in Sig |-> <<>>]
  /\ heard = {}

\* One outcome for each signal.
OutcomesOf(outcomes) ==
  {f \in [DOMAIN outcomes -> UNION Range(outcomes)] :
     \A i \in DOMAIN outcomes : f[i] \in outcomes[i]}

\* The bytes written by the Lua function of each PDU in a set.
Scripts(func, pdus) ==
  OutcomesOf([p \in pdus |-> IF func[p] = {} THEN {<<>>} ELSE func[p]])

\* The payloads after a signal is packed, unless it is skipped.
PackSignal(payloads, x) ==
  IF x.skip THEN payloads
  ELSE [payloads EXCEPT ![x.signal.pdu] = Pack(@, x.signal, x.raw)]

\* The payloads after the signals of the PDUs in a set are packed.
Packed(payloads, due, raw) ==
  FoldLeft(PackSignal, payloads,
           [i \in Sig |-> [signal |-> S(i), raw |-> raw[i], skip |-> S(i).pdu \notin due]])

\* The Lua function of a PDU without signals is not called.
EncodeOf(p) == IF \E i \in Sig : S(i).pdu = p THEN layout.pdus[p].encode ELSE {}

\* pdunet_tx() with the physical values that the model has set.  The checksum of
\* a periodic PDU is 0 when it is due: it is written then, changed or not.
Tx(due, periodic, phys) ==
  \E enc \in OutcomesOf([i \in Sig |->
                        IF S(i).pdu \in due THEN Encode(S(i), phys[i], tx.raw[i])
                        ELSE {[phys |-> phys[i], raw |-> tx.raw[i]]}]) :
  \E writes \in Scripts([p \in due |-> EncodeOf(p)], due) :
  \E raw \in {[i \in Sig |-> enc[i].raw]} :
  \E payload \in {[p \in Pdu |->
                     IF p \in due THEN Script(Packed(tx.payload, due, raw)[p], writes[p])
                     ELSE tx.payload[p]]} :
    /\ tx' = [raw |-> raw, payload |-> payload, checksum |-> payload]
    /\ wire' = [p \in Pdu |->
                  IF payload[p] # tx.checksum[p] \/ p \in periodic THEN <<payload[p]>>
                  ELSE wire[p]]
    /\ taken' = [i \in Sig |->
                   IF S(i).pdu \in due /\ InLimits(S(i), phys[i]) THEN <<enc[i].phys>>
                   ELSE taken[i]]
    /\ UNCHANGED <<layout, rx, heard>>

\* pdunet_rx(): the PDUs of which the bus sends what was written.  Those that
\* did not arrive are neither unpacked nor decoded.
Rx(got) ==
  \E writes \in Scripts([p \in got |-> layout.pdus[p].decode], got) :
  \E payload \in {[p \in Pdu |-> IF p \in got THEN Script(Head(wire[p]), writes[p])
                                 ELSE rx.payload[p]]} :
  \E dec \in OutcomesOf([i \in Sig |->
                        IF S(i).pdu \in got
                        THEN Decode(S(i), rx.phys[i], Unpack(payload[S(i).pdu], S(i)))
                        ELSE {[phys |-> rx.phys[i], raw |-> rx.raw[i]]}]) :
    /\ rx' = [phys |-> [i \in Sig |-> dec[i].phys], raw |-> [i \in Sig |-> dec[i].raw],
              payload |-> payload]
    /\ wire' = [p \in Pdu |-> IF p \in got THEN <<>> ELSE wire[p]]
    /\ heard' = heard \union got
    /\ UNCHANGED <<layout, tx, taken>>

Next ==
  \/ \E due \in SUBSET Pdu : \E periodic \in SUBSET due :
       \E phys \in OutcomesOf(layout.set) : Tx(due, periodic, phys)
  \/ \E got \in SUBSET {p \in Pdu : wire[p] # <<>>} : Rx(got)

Spec == Init /\ [][Next]_vars

-----------------------------------------------------------------------------
(***************************************************************************)
(* Properties.                                                             *)
(***************************************************************************)
\* The payloads of a PDU.
Bytes(p) == [1 .. layout.pdus[p].len -> 0 .. 255]

\* Types: raw values and bytes have their width.
TypeOK ==
  /\ layout \in Layouts
  /\ \A i \in Sig : {tx.raw[i], rx.raw[i]} \subseteq 0 .. Two[RawBits] - 1
  /\ \A p \in Pdu :
       {tx.payload[p], tx.checksum[p], rx.payload[p]} \union ToSet(wire[p])
         \subseteq Bytes(p)
  /\ heard \subseteq Pdu

BitOf(value, k) == (value \div Two[k]) % 2

\* Bit `start + k' of the payload is bit k of the raw value.
Holds(payload, s, raw) ==
  \A k \in 0 .. s.length - 1 :
    LET bit == s.start + k
    IN  BitOf(payload[(bit \div 8) + 1], bit % 8) = BitOf(raw, k)

\* The Lua function of a PDU writes no byte of a signal.
Untouched(s, funcs) ==
  \A writes \in funcs : \A k \in SignalBits(s) : (k \div 8) + 1 \notin DOMAIN writes

\* On both sides, at any time, every bit of a payload belongs to the raw value
\* of its signal, whatever was packed around it, before or after it and in a
\* step in which the PDU was due or not, unless the Lua function of the sender's
\* PDU writes it; and no value is wider than its signal when it is received.
BitsOfSignals ==
  \A i \in Sig : LET s == S(i) IN
    /\ Untouched(s, layout.pdus[s.pdu].encode) => Holds(tx.payload[s.pdu], s, tx.raw[i])
    /\ s.decode = {} =>
         /\ Holds(rx.payload[s.pdu], s, rx.raw[i])
         /\ rx.raw[i] < Two[s.length]

\* No Lua function sets the raw value itself.
NoOverride(s) == \A run \in s.encode : run.sets # "raw"

\* The code scales all values in the limits to raw values.
Castable(s) == s.min >= s.offset /\ s.max - s.offset < s.factor * Two[RawBits]

\* Only values in the limits are sent, but for what truncation takes off (one
\* factor, if the quotient is rounded), and only such values are received,
\* whatever Lua functions do to them.
OnlyInLimits ==
  \A i \in Sig : LET s == S(i) IN
    /\ rx.phys[i] # 0 => InLimits(s, rx.phys[i])
    /\ NoOverride(s) /\ Castable(s) /\ tx.raw[i] # 0 =>
         /\ Decoded(s, tx.raw[i]) <= s.max
         /\ \/ s.min - Decoded(s, tx.raw[i]) < s.factor
            \/ ~s.exact /\ s.min - Decoded(s, tx.raw[i]) = s.factor

\* What is left of a value when its fraction is cut off.
Grid(s, phys) == s.offset + s.factor * ((phys - s.offset) \div s.factor)

\* The value survives the way: no Lua function changes it, it is not less than
\* the offset, its raw value has no more bits than the signal, and the limits
\* hold without its fraction.
Transferable(s, phys) ==
  /\ s.encode = {} /\ s.decode = {} /\ ~s.invalid
  /\ Untouched(s, layout.pdus[s.pdu].encode \union layout.pdus[s.pdu].decode)
  /\ phys >= s.offset
  /\ (phys - s.offset) \div s.factor < Two[s.length]
  /\ \A g \in {Grid(s, phys), Grid(s, phys) - (IF s.exact THEN 0 ELSE s.factor)} : InLimits(s, g)

\* When nothing is left on the wire, the receiver of a PDU has for each signal
\* what the sender has encoded last, less than one factor off (one factor, if
\* the quotient is rounded).
PhysReachesReceiver ==
  \A i \in Sig : LET s == S(i) IN
    s.pdu \in heard /\ wire[s.pdu] = <<>> /\ taken[i] # <<>> /\ Transferable(s, taken[i][1]) =>
      \/ 0 <= taken[i][1] - rx.phys[i] /\ taken[i][1] - rx.phys[i] < s.factor
      \/ ~s.exact /\ taken[i][1] - rx.phys[i] = s.factor
=============================================================================
