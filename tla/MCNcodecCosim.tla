---------------------------- MODULE MCNcodecCosim ----------------------------
(***************************************************************************)
(* Instances of NcodecCosim: PDU nodes with and without a bus model,       *)
(* nodes of CAN frames with loopback and without an id, on one SimBus.     *)
(***************************************************************************)
EXTENDS NcodecCosim

MCNodes == <<"listener", "bus", "can", "frame">>
MCConfig ==
  [bus   |-> [type |-> "pdu",   id |-> 1, loopback |-> FALSE, model |-> TRUE],
   can   |-> [type |-> "pdu",   id |-> 2, loopback |-> FALSE, model |-> FALSE],
   frame |-> [type |-> "frame", id |-> 3, loopback |-> TRUE, model |-> FALSE],
   listener |-> [type |-> "frame", id |-> 0, loopback |-> FALSE, model |-> FALSE]]
MCInput ==
  [bus   |-> {[id |-> 1, kind |-> "Flexray", sender |-> 0],
              [id |-> 2, kind |-> "Can", sender |-> 2]},
   can   |-> {[id |-> 3, kind |-> "Flexray", sender |-> 0]},
   frame |-> {[id |-> 4, kind |-> "Frame", sender |-> 0]},
   listener |-> {}]
MCMaxPut == [bus |-> 2, can |-> 1, frame |-> 2, listener |-> 0]
=============================================================================
