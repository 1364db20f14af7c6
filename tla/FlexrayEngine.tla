--------------------------- MODULE FlexrayEngine ---------------------------
(***************************************************************************)
(* The FlexRay engine of the AB codec (codec/ab/flexray/engine.c): the     *)
(* position of the bus within the communication cycle and the budget of    *)
(* time the bus may still consume in the current simulation step.          *)
(*                                                                         *)
(* Every NCodec runs an engine of its own, a replica of the bus, so the    *)
(* engine is written as operators from an engine record to an engine       *)
(* record; FlexrayTiming runs one of them, FlexrayNetwork one per node.    *)
(*                                                                         *)
(*   mt, slot, cycle   engine.pos_mt, pos_slot, pos_cycle                  *)
(*   ut, budget_mt     engine.step_budget_ut, step_budget_mt               *)
(*                                                                         *)
(* Time is counted in microticks (ut) and macroticks (mt).                 *)
(***************************************************************************)
EXTENDS Integers

CONSTANTS
  MicrotickPerCycle,  \* microticks in a communication cycle
  MacrotickPerCycle,  \* macroticks in a communication cycle
  StaticSlotLength,   \* macroticks in a static slot
  StaticSlotCount,    \* static slots in a cycle
  MinislotLength,     \* macroticks in a minislot
  NetworkIdleStart,   \* macrotick where the network idle time starts
  MaxCycle            \* cycles before the cycle counter wraps (64)

Macro2Micro   == MicrotickPerCycle \div MacrotickPerCycle
OffsetDynamic == StaticSlotLength * StaticSlotCount
OffsetNetwork == NetworkIdleStart

(***************************************************************************)
(* What a FlexRay parameter set satisfies.  process_config() checks none   *)
(* of it: the README lists what happens when it does not hold.             *)
(***************************************************************************)
ASSUME ConfigAssumption ==
  /\ MacrotickPerCycle \in Nat \ {0}
  /\ MicrotickPerCycle \in Nat
  /\ MacrotickPerCycle <= MicrotickPerCycle
  /\ StaticSlotLength \in Nat \ {0}
  /\ StaticSlotCount \in Nat
  /\ MinislotLength \in Nat \ {0}
  /\ NetworkIdleStart \in Nat
  /\ OffsetDynamic <= NetworkIdleStart
  /\ NetworkIdleStart <= MacrotickPerCycle
  /\ MaxCycle \in Nat \ {0}

Engine == [mt : Nat, slot : Nat, cycle : 0 .. MaxCycle - 1,
           ut : Nat, budget_mt : Int]

\* The engine as calloc() leaves it; slot 0 means that it has no config yet.
ZeroEngine == [mt |-> 0, slot |-> 0, cycle |-> 0, ut |-> 0, budget_mt |-> 0]

Configured(e) == e.slot > 0

(***************************************************************************)
(* The part of process_config() that concerns the position: slots count    *)
(* from 1, and only the first config moves the position.                   *)
(***************************************************************************)
ConfigurePosition(e) == IF Configured(e) THEN e ELSE [e EXCEPT !.slot = 1]

\* Mutation: the macrotick budget is taken from the step alone.
BudgetFromStep(e, step_ut) ==
  [e EXCEPT !.ut = @ + step_ut, !.budget_mt = step_ut \div Macro2Micro]

\* Mutation: what the last step left over is dropped.
BudgetNotCarried(e, step_ut) ==
  [e EXCEPT !.ut = step_ut, !.budget_mt = step_ut \div Macro2Micro]

(***************************************************************************)
(* calculate_budget(): a simulation step of `step_ut` microticks is added  *)
(* to what the last step left over.                                        *)
(***************************************************************************)
CalculateBudget(e, step_ut) ==
  [e EXCEPT !.ut        = @ + step_ut,
            !.budget_mt = (e.ut + step_ut) \div Macro2Micro]

InStatic(e)   == e.mt < OffsetDynamic
InDynamic(e)  == ~InStatic(e) /\ e.mt < OffsetNetwork
AtCycleEnd(e) == ~InStatic(e) /\ ~InDynamic(e)

\* Mutation: a dynamic slot is not cut at the end of the cycle.
UnclampedNeed(e, minislots) == minislots * MinislotLength

(***************************************************************************)
(* The macroticks the current slot needs.  In the dynamic part a slot is   *)
(* as many minislots as its pending transmission takes, one when there is  *)
(* none, cut at the end of the cycle.                                      *)
(***************************************************************************)
DynamicNeed(e, minislots) ==
  LET need == minislots * MinislotLength
  IN  IF need + e.mt > MacrotickPerCycle THEN MacrotickPerCycle - e.mt ELSE need

SlotNeed(e, minislots) ==
  IF InStatic(e) THEN StaticSlotLength ELSE DynamicNeed(e, minislots)

\* The microticks from the current position to the end of the cycle.
RemainingUt(e) ==
  IF e.mt * Macro2Micro < MicrotickPerCycle
  THEN MicrotickPerCycle - e.mt * Macro2Micro
  ELSE 0

NeedUt(e, minislots) ==
  IF AtCycleEnd(e) THEN RemainingUt(e) ELSE SlotNeed(e, minislots) * Macro2Micro

\* The budget test of each of consume_slot()'s three branches.
CanConsume(e, minislots) == NeedUt(e, minislots) <= e.ut

\* Mutation: the slot counter follows the minislots, not the slots.
CountMinislots(e, minislots) ==
  LET need == SlotNeed(e, minislots)
  IN  [e EXCEPT !.ut        = @ - need * Macro2Micro,
                !.budget_mt = @ - need,
                !.slot      = @ + minislots,
                !.mt        = @ + need]

(***************************************************************************)
(* consume_slot(), its static and dynamic branches.                        *)
(***************************************************************************)
ConsumeSlot(e, minislots) ==
  LET need == SlotNeed(e, minislots)
  IN  [e EXCEPT !.ut        = @ - need * Macro2Micro,
                !.budget_mt = @ - need,
                !.slot      = @ + 1,
                !.mt        = @ + need]

\* Mutation: the remainder of the cycle is not taken from the budget.
FreeCycleEnd(e) ==
  [e EXCEPT !.slot = 1, !.mt = 0, !.cycle = (@ + 1) % MaxCycle]

\* Mutation: the cycle counter wraps one cycle late.
LateWrap(e) ==
  [e EXCEPT !.ut    = @ - RemainingUt(e),
            !.slot  = 1,
            !.mt    = 0,
            !.cycle = (@ + 1) % (MaxCycle + 1)]

(***************************************************************************)
(* consume_slot(), its last branch.  step_budget_mt keeps its value.       *)
(***************************************************************************)
ConsumeCycleEnd(e) ==
  [e EXCEPT !.ut    = @ - RemainingUt(e),
            !.slot  = 1,
            !.mt    = 0,
            !.cycle = (@ + 1) % MaxCycle]

\* Mutation: slots of the static part are counted from 0.
ZeroBasedShift(e, mt, cycle) ==
  [e EXCEPT !.mt    = mt,
            !.cycle = cycle % MaxCycle,
            !.slot  = IF mt < OffsetDynamic
                      THEN mt \div StaticSlotLength
                      ELSE (mt - OffsetDynamic) \div MinislotLength
                             + StaticSlotCount,
            !.ut        = 0,
            !.budget_mt = 0]

(***************************************************************************)
(* shift_cycle(): set the position and drop the budget.  Into the dynamic  *)
(* part only when forced.                                                  *)
(***************************************************************************)
CanShift(mt, force) == mt < OffsetDynamic \/ force

ShiftCycle(e, mt, cycle) ==
  [e EXCEPT !.mt    = mt,
            !.cycle = cycle % MaxCycle,
            !.slot  = IF mt < OffsetDynamic
                      THEN mt \div StaticSlotLength + 1
                      ELSE (mt - OffsetDynamic) \div MinislotLength
                             + StaticSlotCount + 1,
            !.ut        = 0,
            !.budget_mt = 0]
=============================================================================
