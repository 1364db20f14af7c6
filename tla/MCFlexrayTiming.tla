-------------------------- MODULE MCFlexrayTiming --------------------------
(***************************************************************************)
(* FlexrayTiming on a cycle of 8 macroticks and 17 microticks: two static  *)
(* slots, minislots of one macrotick, and an odd microtick at the end.     *)
(***************************************************************************)
EXTENDS FlexrayTiming

\* To the start of the first and the second static slot, and, forced, into
\* the dynamic part and to the end of the cycle; one is refused.
MCShiftTargets ==
  {[mt |-> 0, cycle |-> 0,  force |-> FALSE],
   [mt |-> 2, cycle |-> 3,  force |-> FALSE],
   [mt |-> 5, cycle |-> 1,  force |-> TRUE],
   [mt |-> 5, cycle |-> 1,  force |-> FALSE],
   [mt |-> 8, cycle |-> 62, force |-> TRUE]}
=============================================================================
