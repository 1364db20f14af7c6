--------------------------- MODULE FlexrayTiming ---------------------------
(***************************************************************************)
(* One FlexRay engine run by simulation steps: the loop over               *)
(* consume_slot() in flexray_bus_model_progress() (flexray.c), one action  *)
(* per branch of consume_slot().  What a slot carries is left to           *)
(* FlexrayNetwork; here a dynamic slot may need any of Minislots, whatever *)
(* LPDUs are pending, which covers every schedule of the applications.     *)
(*                                                                         *)
(* sim_ns and cycles are history variables: the simulation time granted    *)
(* and the number of the cycle, not wrapped.                               *)
(***************************************************************************)
EXTENDS FlexrayEngine

CONSTANTS
  MicrotickNs,   \* nanoseconds in a microtick (25 or 50)
  StepNs,        \* the lengths of a simulation step, in nanoseconds
  Minislots,     \* the minislots a dynamic slot may take, 1 when it is idle
  ShiftTargets,  \* the positions shift_cycle() is called with
  HorizonNs      \* bound on sim_ns, to keep the model finite

(***************************************************************************)
(* calculate_budget() cuts a step down to whole microticks, so the bus     *)
(* keeps up with the simulation only when steps are whole microticks.      *)
(***************************************************************************)
ASSUME StepAssumption ==
  /\ MicrotickNs \in Nat \ {0}
  /\ StepNs \subseteq Nat
  /\ \A s \in StepNs : s = MicrotickNs * (s \div MicrotickNs)
  /\ HorizonNs \in Nat

ASSUME MinislotsAssumption == Minislots \subseteq Nat \ {0} /\ 1 \in Minislots

\* The bus is moved to the start of a slot: of a static slot, or beyond them.
ASSUME ShiftAssumption ==
  \A t \in ShiftTargets :
    /\ t.mt \in 0 .. MacrotickPerCycle
    /\ t.mt < OffsetDynamic
         => t.mt = StaticSlotLength * (t.mt \div StaticSlotLength)
    /\ t.cycle \in Nat
    /\ t.force \in BOOLEAN

VARIABLES
  engine,       \* the engine record
  progressing,  \* the loop over consume_slot() is running
  sim_ns,       \* simulation time granted since the bus was synchronised
  cycles        \* communication cycles since then

vars == <<engine, progressing, sim_ns, cycles>>

\* How far the bus has come, in microticks.
ElapsedUt == cycles * MicrotickPerCycle + engine.mt * Macro2Micro

Init ==
  /\ engine = ZeroEngine
  /\ progressing = FALSE
  /\ sim_ns = 0
  /\ cycles = 0

\* A Config is consumed between two steps.
ProcessConfig ==
  /\ ~progressing
  /\ engine' = ConfigurePosition(engine)
  /\ UNCHANGED <<progressing, sim_ns, cycles>>

\* A step begins; calculate_budget() fails (-EINVAL) before the first config.
StartStep(s) ==
  /\ ~progressing
  /\ Configured(engine)
  /\ sim_ns + s <= HorizonNs
  /\ engine' = CalculateBudget(engine, s \div MicrotickNs)
  /\ progressing' = TRUE
  /\ sim_ns' = sim_ns + s
  /\ UNCHANGED cycles

ConsumeStaticSlot ==
  /\ progressing
  /\ InStatic(engine)
  /\ CanConsume(engine, 1)
  /\ engine' = ConsumeSlot(engine, 1)
  /\ UNCHANGED <<progressing, sim_ns, cycles>>

ConsumeDynamicSlot(minislots) ==
  /\ progressing
  /\ InDynamic(engine)
  /\ CanConsume(engine, minislots)
  /\ engine' = ConsumeSlot(engine, minislots)
  /\ UNCHANGED <<progressing, sim_ns, cycles>>

EndCycle ==
  /\ progressing
  /\ AtCycleEnd(engine)
  /\ CanConsume(engine, 1)
  /\ engine' = ConsumeCycleEnd(engine)
  /\ cycles' = cycles + 1
  /\ UNCHANGED <<progressing, sim_ns>>

\* Mutation: the loop goes on while any budget is left.
EndWithoutBudget(minislots) ==
  /\ progressing
  /\ engine.ut = 0
  /\ progressing' = FALSE
  /\ UNCHANGED <<engine, sim_ns, cycles>>

\* consume_slot() returns 1: not enough budget, the loop ends.
EndStep(minislots) ==
  /\ progressing
  /\ ~CanConsume(engine, minislots)
  /\ progressing' = FALSE
  /\ UNCHANGED <<engine, sim_ns, cycles>>

Shift(t) ==
  /\ ~progressing
  /\ Configured(engine)
  /\ CanShift(t.mt, t.force)
  /\ engine' = ShiftCycle(engine, t.mt, t.cycle)
  /\ cycles' = t.cycle
  /\ sim_ns' = MicrotickNs * ElapsedUt'
  /\ UNCHANGED progressing

Consume ==
  \/ ConsumeStaticSlot
  \/ \E n \in Minislots : ConsumeDynamicSlot(n)
  \/ EndCycle
  \/ \E n \in Minislots : EndStep(n)

Next ==
  \/ ProcessConfig
  \/ \E s \in StepNs : StartStep(s)
  \/ Consume
  \/ \E t \in ShiftTargets : Shift(t)

\* The loop runs inside one call: once begun, it is run to its end.
Spec == Init /\ [][Next]_vars /\ WF_vars(Consume)

-----------------------------------------------------------------------------
(***************************************************************************)
(* Properties.                                                             *)
(***************************************************************************)

\* The position stays within the cycle and nothing becomes negative.
TypeOK ==
  /\ engine \in Engine
  /\ engine.mt <= MacrotickPerCycle
  /\ progressing \in BOOLEAN
  /\ sim_ns \in Nat
  /\ cycles \in Nat

\* consume_slot() tests the microtick budget alone and subtracts from both
\* budgets (unsigned): the whole macroticks of the microtick budget are always
\* covered by the macrotick budget, so step_budget_mt never wraps.
NoBudgetWrap == engine.ut < Macro2Micro * (engine.budget_mt + 1)

\* No time is lost or invented, whatever slots, clamped slots, cycle ends and
\* steps there were: granted time is elapsed time plus the unspent budget.
TimeConserved == sim_ns = MicrotickNs * (ElapsedUt + engine.ut)

\* The slot counter and the macrotick counter, advanced separately, describe
\* the same position: slot k of the static part is at its nominal offset, and
\* a dynamic slot id is never reached before its minislots have passed.
SlotAligned ==
  Configured(engine) =>
    /\ InStatic(engine) => engine.mt = StaticSlotLength * (engine.slot - 1)
    /\ ~InStatic(engine) => engine.slot > StaticSlotCount
    /\ InDynamic(engine) =>
         OffsetDynamic + MinislotLength * (engine.slot - StaticSlotCount - 1)
           <= engine.mt

\* No slot of the static part is skipped or repeated: while a step is consumed
\* the slot counter moves by one, or back to 1 once all static slots are done.
SlotsInOrder ==
  [][progressing /\ engine'.slot # engine.slot =>
       \/ engine'.slot = engine.slot + 1 /\ engine'.cycle = engine.cycle
       \/ /\ engine'.slot = 1
          /\ engine.slot > StaticSlotCount
          /\ engine'.cycle = (engine.cycle + 1) % MaxCycle]_vars

\* The loop over consume_slot() in flexray_bus_model_progress() ends.
LoopEnds == progressing ~> ~progressing

\* The cycle counter, wrapped at every cycle, is the cycle number modulo 64.
CycleCounter == engine.cycle = cycles % MaxCycle

\* The engine keeps the promise of BusClock: the bus follows simulation time.
Clock == INSTANCE BusClock WITH
           CycleTime <- MicrotickNs * MicrotickPerCycle,
           Steps     <- StepNs,
           now       <- sim_ns,
           done      <- MicrotickNs * ElapsedUt,
           stepping  <- progressing

FollowsSimulationTime == Clock!ClockSpec
=============================================================================
