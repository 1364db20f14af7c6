----------------------------- MODULE MCFlexrayPop -----------------------------
(***************************************************************************)
(* A PoP and two nodes.  A cycle is 10 macroticks, 40 microticks: two      *)
(* static slots of 2 macroticks and a dynamic part; a step is 12           *)
(* microticks, 3 macroticks.                                               *)
(***************************************************************************)
EXTENDS FlexrayPopNetwork

MCMembers == <<Pop, <<1, 0>>, <<2, 0>>>>

Report(cycle, mt, tcvr) ==
  [type |-> "Status", pop |-> Pop, body |-> [cycle |-> cycle, mt |-> mt, tcvr |-> tcvr]]

ToNode(n, slot, status) ==
  [type |-> "Lpdu", pop |-> n, body |-> [slot |-> slot, status |-> status]]

MCConfig(ut, mt) ==
  [type |-> "Config", pop |-> Pop,
   body |-> [rate |-> TRUE, ut |-> ut, mt |-> mt, len |-> 2, count |-> 2]]

\* A node with LPDUs, and one that is configured.
MCNodePdus ==
  [n \in Node |->
     IF n = <<1, 0>>
     THEN {[type |-> "Lpdu", body |-> [slot |-> 1, status |-> "NotTransmitted"]]}
     ELSE {[type |-> "Config", body |-> MCConfig(40, 10).body]}]

MCPopPdus ==
  {MCConfig(40, 10), MCConfig(0, 0),
   Report(0, 0, "FrameSync"), Report(1, 3, "FrameSync"),
   Report(0, 0, "NoSignal"),
   [Report(0, 0, "NoSignal") EXCEPT !.pop = <<1, 0>>],
   ToNode(<<1, 0>>, 1, "Transmitted"), ToNode(<<1, 0>>, 3, "Transmitted"),
   ToNode(<<2, 0>>, 1, "Received")}

MCMaxPut == [m \in Member |-> IF m = Pop THEN 2 ELSE 1]
=============================================================================
