--------------------------- MODULE MCFlexrayNetwork ---------------------------
(***************************************************************************)
(* Two nodes and three slots.  Slot 1 carries a single shot LPDU of node 1 *)
(* in every cycle, longer than the LPDU that receives it; slot 2 one of    *)
(* node 2 in every other cycle, continuous and pending from the start,     *)
(* without a payload; slot 3, the first of the dynamic part, a single shot *)
(* LPDU of node 1 that takes two minislots and is shorter than its         *)
(* receiver.                                                               *)
(***************************************************************************)
EXTENDS FlexrayNetwork

Lpdu(n, slot, frame, dir, rep_, base, continuous, len) ==
  [node |-> n, slot |-> slot, frame |-> frame, dir |-> dir, rep |-> rep_,
   base |-> base, continuous |-> continuous, inhibit |-> FALSE, len |-> len,
   status |-> IF dir = "Rx" THEN "NotReceived"
              ELSE IF continuous THEN "NotTransmitted" ELSE "None",
   payload |-> NoPayload,
   cycle |-> 0, mt |-> 0, null |-> FALSE]

MCFrameTable ==
  [n \in Node |->
     CASE n = 1 -> <<Lpdu(1, 1, 1, "Tx", 1, 0, FALSE, 2),
                     Lpdu(1, 2, 2, "Rx", 1, 0, FALSE, 1),
                     Lpdu(1, 3, 3, "Tx", 1, 0, FALSE, 1)>>
       [] n = 2 -> <<Lpdu(2, 1, 1, "Rx", 1, 0, FALSE, 1),
                     Lpdu(2, 2, 2, "Tx", 2, 1, TRUE, 1),
                     Lpdu(2, 3, 3, "Rx", 1, 0, FALSE, 2)>>]

\* The dynamic slot is shared by two LPDUs, one for even, one for odd cycles.
MCMultiplexed ==
  [n \in Node |->
     CASE n = 1 -> <<Lpdu(1, 3, 1, "Tx", 2, 0, FALSE, 1),
                     Lpdu(1, 3, 2, "Tx", 2, 1, FALSE, 1)>>
       [] n = 2 -> <<Lpdu(2, 3, 1, "Rx", 1, 0, FALSE, 1)>>]

MCInhibit == [n \in Node |-> FALSE]

\* Each node an ECU of its own, and two controllers of one ECU.
MCEcuOf == [n \in Node |-> n]
MCOneEcu == [n \in Node |-> 1]

\* Bounds: node 1 is busy, node 2 is halted and refused.
MCMaxWrites == [n \in Node |-> IF n = 1 THEN 2 ELSE 0]
MCMaxHalts == [n \in Node |-> IF n = 1 THEN 0 ELSE 1]
MCMaxRefusals == [n \in Node |-> IF n = 1 THEN 0 ELSE 1]

MCNone == [n \in Node |-> 0]

MCPayload == {<<1>>}
=============================================================================
