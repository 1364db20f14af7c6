------------------------ MODULE FlexrayTimingProofs ------------------------
(***************************************************************************)
(* Proofs about FlexrayTiming, for every FlexRay parameter set, every set  *)
(* of step lengths and every demand of the dynamic slots.                  *)
(***************************************************************************)
EXTENDS FlexrayTiming, TLAPS

-----------------------------------------------------------------------------
(***************************************************************************)
(* Arithmetic.  The provers need products and quotients of parameters      *)
(* spelled out.                                                            *)
(***************************************************************************)

LEMMA ProductIsNat ==
  ASSUME NEW a \in Nat, NEW b \in Nat
  PROVE  a * b \in Nat
OBVIOUS

LEMMA ProductOfSum ==
  ASSUME NEW m \in Int, NEW a \in Int, NEW b \in Int
  PROVE  m * (a + b) = m * a + m * b
OBVIOUS

LEMMA ProductMonotone ==
  ASSUME NEW m \in Nat, NEW a \in Int, NEW b \in Int, a <= b
  PROVE  m * a <= m * b
OBVIOUS

LEMMA QuotientIsNat ==
  ASSUME NEW a \in Nat, NEW m \in Nat \ {0}
  PROVE  a \div m \in Nat
OBVIOUS

\* A number is below the next multiple, and not below the last.
LEMMA Quotient ==
  ASSUME NEW a \in Nat, NEW m \in Nat \ {0}
  PROVE  /\ m * (a \div m) <= a
         /\ a < m * ((a \div m) + 1)
OBVIOUS

\* A division with remainder is the only one.
LEMMA Remainders ==
  ASSUME NEW m \in Nat \ {0}, NEW q \in Nat, NEW r \in 0 .. m - 1
  PROVE  (m * q + r) % m = r
<1> DEFINE p == (m * q + r) \div m
           s == (m * q + r) % m
<1>1. m * q \in Nat
  BY ProductIsNat
<1>2. m * q + r = m * p + s /\ s \in 0 .. m - 1 /\ p \in Nat
  BY <1>1
<1> HIDE DEF p, s
<1>3. ~(q < p)
  <2>1. SUFFICES ASSUME q + 1 <= p PROVE FALSE
    BY <1>2
  <2>2. m * (q + 1) <= m * p
    BY <1>2, <2>1, ProductMonotone
  <2> QED
    BY <1>1, <1>2, <2>2
<1>4. ~(p < q)
  <2>1. SUFFICES ASSUME p + 1 <= q PROVE FALSE
    BY <1>2
  <2>2. m * (p + 1) <= m * q
    BY <1>2, <2>1, ProductMonotone
  <2> QED
    BY <1>1, <1>2, <2>2
<1>5. p = q
  BY <1>2, <1>3, <1>4
<1>6. s = r
  BY <1>1, <1>2, <1>5
<1> QED
  BY <1>6 DEF s

\* Counting modulo m agrees with counting and wrapping at the end.
LEMMA NextRemainder ==
  ASSUME NEW m \in Nat \ {0}, NEW a \in Nat
  PROVE  ((a % m) + 1) % m = (a + 1) % m
<1> DEFINE q == a \div m
           r == a % m
<1>1. a = m * q + r /\ r \in 0 .. m - 1 /\ q \in Nat
  OBVIOUS
<1> HIDE DEF q, r
<1>2. CASE r + 1 < m
  <2>1. a + 1 = m * q + (r + 1) /\ r + 1 = m * 0 + (r + 1)
    BY <1>1
  <2>2. (m * q + (r + 1)) % m = r + 1 /\ (m * 0 + (r + 1)) % m = r + 1
    BY <1>1, <1>2, Remainders
  <2> QED
    BY <2>1, <2>2 DEF r
<1>3. CASE r + 1 = m
  <2>1. a + 1 = m * (q + 1) + 0 /\ r + 1 = m * 1 + 0
    BY <1>1, <1>3
  <2>2. (m * (q + 1) + 0) % m = 0 /\ (m * 1 + 0) % m = 0
    BY <1>1, Remainders
  <2> QED
    BY <2>1, <2>2 DEF r
<1> QED
  BY <1>1, <1>2, <1>3

\* A strict inequality of multiples is one of the factors.
LEMMA NextMultiple ==
  ASSUME NEW m \in Nat \ {0}, NEW a \in Int, NEW b \in Int, m * a < m * b
  PROVE  m * (a + 1) <= m * b
<1>1. a < b
  <2>1. SUFFICES ASSUME b <= a PROVE FALSE
    OBVIOUS
  <2>2. m * b <= m * a
    BY <2>1, ProductMonotone
  <2> QED
    BY <2>2
<1>2. a + 1 <= b
  BY <1>1
<1> QED
  BY <1>2, ProductMonotone
-----------------------------------------------------------------------------
(***************************************************************************)
(* What the parameter set gives: a macrotick is at least one microtick,    *)
(* and the macroticks of a cycle fit into its microticks.                  *)
(***************************************************************************)

LEMMA Parameters ==
  /\ Macro2Micro \in Nat \ {0}
  /\ OffsetDynamic \in Nat
  /\ OffsetDynamic <= MacrotickPerCycle
  /\ Macro2Micro * MacrotickPerCycle <= MicrotickPerCycle
<1> USE ConfigAssumption DEF OffsetNetwork
<1>1. /\ MicrotickPerCycle \div MacrotickPerCycle \in Nat
      /\ MacrotickPerCycle * (MicrotickPerCycle \div MacrotickPerCycle)
           <= MicrotickPerCycle
      /\ MicrotickPerCycle
           < MacrotickPerCycle * ((MicrotickPerCycle \div MacrotickPerCycle) + 1)
  BY Quotient, QuotientIsNat
<1>2. Macro2Micro \in Nat \ {0}
  <2>1. SUFFICES ASSUME Macro2Micro = 0 PROVE FALSE
    BY <1>1 DEF Macro2Micro
  <2>2. MicrotickPerCycle < MacrotickPerCycle
    BY <1>1, <2>1 DEF Macro2Micro
  <2> QED
    BY <2>2
<1>3. OffsetDynamic \in Nat
  BY ProductIsNat DEF OffsetDynamic
<1> QED
  BY <1>1, <1>2, <1>3 DEF Macro2Micro

-----------------------------------------------------------------------------
(***************************************************************************)
(* The inductive invariant.  SlotAligned is what keeps a static slot from  *)
(* running over the end of the static part, and so mt within the cycle;    *)
(* mt within the cycle is what makes the remainder of a cycle exact, and   *)
(* so TimeConserved.  AtRest is what a step leaves behind.                 *)
(***************************************************************************)

Unconfigured ==
  ~Configured(engine) => engine.mt = 0 /\ ~progressing

IInv ==
  /\ TypeOK
  /\ NoBudgetWrap
  /\ TimeConserved
  /\ SlotAligned
  /\ CycleCounter
  /\ Unconfigured

LEMMA InitIInv == Init => IInv
<1> SUFFICES ASSUME Init PROVE IInv
  OBVIOUS
<1> USE ConfigAssumption, Parameters DEF Init
<1>1. TypeOK
  <2>1. ZeroEngine \in Engine /\ ZeroEngine.mt = 0
    BY DEF Engine, ZeroEngine
  <2>2. progressing \in BOOLEAN
    OBVIOUS
  <2> QED
    BY <2>1, <2>2 DEF TypeOK
<1>2. NoBudgetWrap
  BY DEF NoBudgetWrap, ZeroEngine
<1>3. TimeConserved
  BY StepAssumption DEF TimeConserved, ElapsedUt, ZeroEngine
<1>4. SlotAligned /\ CycleCounter /\ Unconfigured
  BY DEF SlotAligned, CycleCounter, Unconfigured, Configured, ZeroEngine
<1> QED
  BY <1>1, <1>2, <1>3, <1>4 DEF IInv

-----------------------------------------------------------------------------
(***************************************************************************)
(* The steps.  What the two branches of consume_slot() for slots share is  *)
(* proved once: they differ in the slot's need and in SlotAligned.         *)
(***************************************************************************)

LEMMA SlotStep ==
  ASSUME IInv, progressing, NEW need \in Nat,
         need * Macro2Micro <= engine.ut,
         engine.mt + need <= MacrotickPerCycle,
         engine' = [engine EXCEPT !.ut        = @ - need * Macro2Micro,
                                  !.budget_mt = @ - need,
                                  !.slot      = @ + 1,
                                  !.mt        = @ + need],
         UNCHANGED <<progressing, sim_ns, cycles>>
  PROVE  /\ TypeOK' /\ NoBudgetWrap' /\ TimeConserved'
         /\ CycleCounter' /\ Unconfigured'
<1> USE ConfigAssumption, Parameters
<1>1. engine \in Engine /\ cycles \in Nat /\ sim_ns \in Nat
  BY DEF IInv, TypeOK
<1>2. /\ engine'.ut = engine.ut - need * Macro2Micro
      /\ engine'.budget_mt = engine.budget_mt - need
      /\ engine'.slot = engine.slot + 1
      /\ engine'.mt = engine.mt + need
      /\ engine'.cycle = engine.cycle
  BY <1>1 DEF Engine
<1>3. need * Macro2Micro \in Nat
  BY ProductIsNat
<1>4. TypeOK'
  <2>1. engine.ut - need * Macro2Micro \in Nat
    BY <1>1, <1>3 DEF Engine
  <2>2. engine' \in Engine
    <3>1. /\ engine.mt + need \in Nat /\ engine.slot + 1 \in Nat
          /\ engine.budget_mt - need \in Int
      BY <1>1 DEF Engine
    <3> QED
      BY <1>1, <2>1, <3>1 DEF Engine
  <2>3. engine'.mt <= MacrotickPerCycle
    BY <1>2
  <2>4. progressing' \in BOOLEAN
    BY DEF IInv, TypeOK
  <2> QED
    BY <1>1, <2>2, <2>3, <2>4 DEF TypeOK
<1>5. NoBudgetWrap'
  <2>1. engine.ut < Macro2Micro * (engine.budget_mt + 1)
    BY DEF IInv, NoBudgetWrap
  <2>2. Macro2Micro * (engine.budget_mt + 1) - need * Macro2Micro
          = Macro2Micro * ((engine.budget_mt - need) + 1)
    BY <1>1 DEF Engine
  <2> QED
    BY <1>1, <1>2, <1>3, <2>1, <2>2 DEF NoBudgetWrap, Engine
<1>6. TimeConserved'
  <2>1. (engine.mt + need) * Macro2Micro
          = engine.mt * Macro2Micro + need * Macro2Micro
    BY <1>1 DEF Engine
  <2>2. ElapsedUt' = ElapsedUt + need * Macro2Micro
    BY <1>1, <1>2, <2>1, ProductIsNat DEF ElapsedUt, Engine
  <2>3. ElapsedUt \in Nat
    BY <1>1, ProductIsNat DEF ElapsedUt, Engine
  <2>4. ElapsedUt' + engine'.ut = ElapsedUt + engine.ut
    BY <1>1, <1>2, <1>3, <2>2, <2>3 DEF Engine
  <2> QED
    BY <2>4 DEF IInv, TimeConserved
<1>7. CycleCounter' /\ Unconfigured'
  BY <1>1, <1>2 DEF IInv, CycleCounter, Unconfigured, Configured, Engine
<1> QED
  BY <1>4, <1>5, <1>6, <1>7

LEMMA StaticSlotStep == IInv /\ ConsumeStaticSlot => IInv'
<1> SUFFICES ASSUME IInv, ConsumeStaticSlot PROVE IInv'
  OBVIOUS
<1> USE ConfigAssumption, Parameters
<1>1. engine \in Engine /\ engine.mt < StaticSlotLength * StaticSlotCount
  BY DEF IInv, TypeOK, ConsumeStaticSlot, InStatic, OffsetDynamic
<1>2. Configured(engine)
  BY DEF IInv, Unconfigured, ConsumeStaticSlot
<1>3. engine.mt = StaticSlotLength * (engine.slot - 1)
  BY <1>2 DEF IInv, SlotAligned, ConsumeStaticSlot
<1>4. StaticSlotLength * engine.slot <= StaticSlotLength * StaticSlotCount
  BY <1>1, <1>3, NextMultiple DEF Engine
<1>5. engine.mt + StaticSlotLength = StaticSlotLength * engine.slot
  BY <1>1, <1>3 DEF Engine
<1>6. StaticSlotLength * Macro2Micro <= engine.ut
  BY DEF ConsumeStaticSlot, CanConsume, NeedUt, SlotNeed, AtCycleEnd
<1>7. /\ TypeOK' /\ NoBudgetWrap' /\ TimeConserved'
      /\ CycleCounter' /\ Unconfigured'
  <2>1. engine.mt + StaticSlotLength <= MacrotickPerCycle
    BY <1>1, <1>4, <1>5 DEF OffsetDynamic, Engine
  <2>2. SlotNeed(engine, 1) = StaticSlotLength
    BY DEF ConsumeStaticSlot, SlotNeed
  <2> QED
    BY <1>6, <2>1, <2>2, SlotStep DEF ConsumeStaticSlot, ConsumeSlot
<1>8. SlotAligned'
  <2>1. engine'.slot = engine.slot + 1 /\ engine'.mt = engine.mt + StaticSlotLength
    BY <1>1 DEF ConsumeStaticSlot, ConsumeSlot, SlotNeed, Engine
  <2>2. engine'.mt = StaticSlotLength * (engine'.slot - 1)
    BY <1>1, <1>5, <2>1 DEF Engine
  <2>3. ASSUME ~(engine'.mt < OffsetDynamic)
        PROVE  engine.slot = StaticSlotCount /\ engine'.mt = OffsetDynamic
    <3>1. StaticSlotLength * engine.slot = StaticSlotLength * StaticSlotCount
      BY <1>1, <1>4, <1>5, <2>1, <2>3 DEF OffsetDynamic, Engine
    <3>2. ~(engine.slot < StaticSlotCount) /\ ~(StaticSlotCount < engine.slot)
      <4>1. ASSUME engine.slot < StaticSlotCount PROVE FALSE
        BY <1>1, <3>1, <4>1, ProductMonotone,
           StaticSlotLength * (engine.slot + 1) <= StaticSlotLength * StaticSlotCount
           DEF Engine
      <4>2. ASSUME StaticSlotCount < engine.slot PROVE FALSE
        BY <1>1, <3>1, <4>2, ProductMonotone,
           StaticSlotLength * (StaticSlotCount + 1) <= StaticSlotLength * engine.slot
           DEF Engine
      <4> QED
        BY <4>1, <4>2
    <3> QED
      BY <1>1, <1>5, <2>1, <3>1, <3>2 DEF OffsetDynamic, Engine
  <2> QED
    BY <1>1, <2>1, <2>2, <2>3 DEF SlotAligned, InStatic, InDynamic, Engine
<1> QED
  BY <1>7, <1>8 DEF IInv

\* A dynamic slot is cut at the end of the cycle; a slot that was cut leaves
\* the dynamic part, any other takes at least one minislot.
LEMMA DynamicSlotStep ==
  ASSUME IInv, NEW n \in Minislots, ConsumeDynamicSlot(n)
  PROVE  IInv'
<1> USE ConfigAssumption, Parameters, MinislotsAssumption
<1> DEFINE need == DynamicNeed(engine, n)
<1>1. engine \in Engine /\ engine.mt <= MacrotickPerCycle /\ n \in Nat \ {0}
  BY DEF IInv, TypeOK
<1>2. /\ ~(engine.mt < OffsetDynamic)
      /\ engine.mt < NetworkIdleStart
      /\ Configured(engine)
  BY DEF ConsumeDynamicSlot, InDynamic, InStatic, OffsetNetwork, IInv, Unconfigured
<1>3. n * MinislotLength \in Nat /\ MinislotLength <= n * MinislotLength
  BY <1>1, ProductIsNat, ProductMonotone, MinislotLength * 1 <= MinislotLength * n
<1>4. /\ need \in Nat
      /\ engine.mt + need <= MacrotickPerCycle
      /\ \/ engine.mt + need = MacrotickPerCycle
         \/ MinislotLength <= need
  <2>1. CASE n * MinislotLength + engine.mt > MacrotickPerCycle
    BY <1>1, <1>2, <2>1 DEF DynamicNeed, Engine
  <2>2. CASE ~(n * MinislotLength + engine.mt > MacrotickPerCycle)
    BY <1>1, <1>2, <1>3, <2>2 DEF DynamicNeed, Engine
  <2> QED
    BY <2>1, <2>2
<1>5. need = SlotNeed(engine, n)
  BY DEF ConsumeDynamicSlot, InDynamic, SlotNeed
<1>6. need * Macro2Micro <= engine.ut
  BY <1>5 DEF ConsumeDynamicSlot, CanConsume, NeedUt, AtCycleEnd
<1>7. engine' = [engine EXCEPT !.ut        = @ - need * Macro2Micro,
                               !.budget_mt = @ - need,
                               !.slot      = @ + 1,
                               !.mt        = @ + need]
  BY <1>5 DEF ConsumeDynamicSlot, ConsumeSlot
<1> HIDE DEF need
<1>8. /\ TypeOK' /\ NoBudgetWrap' /\ TimeConserved'
      /\ CycleCounter' /\ Unconfigured'
  BY <1>4, <1>6, <1>7, SlotStep DEF ConsumeDynamicSlot
<1>9. SlotAligned'
  <2>1. engine'.slot = engine.slot + 1 /\ engine'.mt = engine.mt + need
    BY <1>1, <1>7 DEF Engine
  <2>2. ~InStatic(engine')
    BY <1>1, <1>2, <1>4, <2>1 DEF InStatic, Engine
  <2>3. engine.slot > StaticSlotCount /\ engine'.slot > StaticSlotCount
    BY <1>1, <1>2, <2>1 DEF IInv, SlotAligned, ConsumeDynamicSlot, InDynamic, Engine
  <2>4. ASSUME InDynamic(engine')
        PROVE  OffsetDynamic + MinislotLength * (engine'.slot - StaticSlotCount - 1)
                 <= engine'.mt
    <3>1. MinislotLength <= need
      BY <1>1, <1>4, <2>1, <2>4 DEF InDynamic, OffsetNetwork, Engine
    <3>2. OffsetDynamic + MinislotLength * (engine.slot - StaticSlotCount - 1)
            <= engine.mt
      BY <1>2 DEF IInv, SlotAligned, ConsumeDynamicSlot
    <3>3. MinislotLength * ((engine.slot + 1) - StaticSlotCount - 1)
            = MinislotLength * (engine.slot - StaticSlotCount - 1) + MinislotLength
      BY <1>1 DEF Engine
    <3>4. MinislotLength * (engine.slot - StaticSlotCount - 1) \in Nat
      BY <1>1, <2>3, ProductIsNat, engine.slot - StaticSlotCount - 1 \in Nat
         DEF Engine
    <3> QED
      BY <1>1, <1>4, <2>1, <3>1, <3>2, <3>3, <3>4 DEF Engine
  <2> QED
    BY <2>2, <2>3, <2>4 DEF SlotAligned
<1> QED
  BY <1>8, <1>9 DEF IInv

\* The microticks left in the cycle, whatever the macrotick.
LEMMA Remainder ==
  ASSUME NEW mt \in Nat, mt <= MacrotickPerCycle
  PROVE  /\ mt * Macro2Micro \in Nat
         /\ mt * Macro2Micro <= MicrotickPerCycle
<1> USE ConfigAssumption, Parameters
<1>1. mt * Macro2Micro \in Nat
  BY ProductIsNat
<1>2. Macro2Micro * mt <= Macro2Micro * MacrotickPerCycle
  BY ProductMonotone
<1> QED
  BY <1>1, <1>2

\* The first slot starts the cycle, in the dynamic part when there is no other.
LEMMA FirstSlotAligned ==
  engine'.slot = 1 /\ engine'.mt = 0 => SlotAligned'
<1> SUFFICES ASSUME engine'.slot = 1, engine'.mt = 0 PROVE SlotAligned'
  OBVIOUS
<1> USE ConfigAssumption
<1>1. CASE StaticSlotCount = 0
  BY <1>1 DEF SlotAligned, InStatic, InDynamic, OffsetDynamic
<1>2. CASE StaticSlotCount # 0
  <2>1. StaticSlotLength * 1 <= StaticSlotLength * StaticSlotCount
    BY <1>2, ProductMonotone
  <2> QED
    BY <2>1 DEF SlotAligned, InStatic, InDynamic, OffsetDynamic
<1> QED
  BY <1>1, <1>2

LEMMA EndCycleStep == IInv /\ EndCycle => IInv'
<1> SUFFICES ASSUME IInv, EndCycle PROVE IInv'
  OBVIOUS
<1> USE ConfigAssumption, Parameters
<1>1. /\ engine \in Engine /\ engine.mt <= MacrotickPerCycle
      /\ sim_ns \in Nat /\ cycles \in Nat
  BY DEF IInv, TypeOK
<1>2. /\ engine.mt * Macro2Micro \in Nat
      /\ engine.mt * Macro2Micro <= MicrotickPerCycle
  BY <1>1, Remainder DEF Engine
<1> DEFINE rest == RemainingUt(engine)
<1>3. rest = MicrotickPerCycle - engine.mt * Macro2Micro /\ rest \in Nat
  BY <1>2 DEF RemainingUt
<1>4. rest <= engine.ut
  BY DEF EndCycle, CanConsume, NeedUt
<1>5. /\ engine' = [engine EXCEPT !.ut = @ - rest, !.slot = 1, !.mt = 0,
                                  !.cycle = (@ + 1) % MaxCycle]
      /\ cycles' = cycles + 1
      /\ UNCHANGED <<progressing, sim_ns>>
  BY DEF EndCycle, ConsumeCycleEnd
<1> HIDE DEF rest
<1>6. /\ engine'.ut = engine.ut - rest
      /\ engine'.budget_mt = engine.budget_mt
      /\ engine'.slot = 1
      /\ engine'.mt = 0
      /\ engine'.cycle = (engine.cycle + 1) % MaxCycle
  BY <1>1, <1>5 DEF Engine
<1>7. TypeOK'
  <2>1. engine.ut - rest \in Nat /\ (engine.cycle + 1) % MaxCycle \in 0 .. MaxCycle - 1
    BY <1>1, <1>3, <1>4 DEF Engine
  <2>2. engine' \in Engine
    BY <1>1, <1>5, <2>1 DEF Engine
  <2>3. progressing' \in BOOLEAN
    BY <1>5 DEF IInv, TypeOK
  <2> QED
    BY <1>1, <1>5, <1>6, <2>2, <2>3 DEF TypeOK
<1>8. NoBudgetWrap'
  BY <1>1, <1>3, <1>4, <1>6, ProductIsNat DEF IInv, NoBudgetWrap, Engine
<1>9. TimeConserved'
  <2>1. (cycles + 1) * MicrotickPerCycle = cycles * MicrotickPerCycle + MicrotickPerCycle
    BY <1>1
  <2>2. cycles * MicrotickPerCycle \in Nat
    BY <1>1, ProductIsNat
  <2>3. ElapsedUt' = cycles * MicrotickPerCycle + MicrotickPerCycle
    BY <1>5, <1>6, <2>1, <2>2 DEF ElapsedUt
  <2>4. ElapsedUt' + engine'.ut = ElapsedUt + engine.ut
    BY <1>1, <1>2, <1>3, <1>6, <2>2, <2>3 DEF ElapsedUt, Engine
  <2> QED
    BY <1>5, <2>4 DEF IInv, TimeConserved
<1>10. SlotAligned'
  BY <1>6, FirstSlotAligned
<1>11. CycleCounter'
  <2>1. engine.cycle = cycles % MaxCycle
    BY DEF IInv, CycleCounter
  <2>2. ((cycles % MaxCycle) + 1) % MaxCycle = (cycles + 1) % MaxCycle
    BY <1>1, NextRemainder
  <2> QED
    BY <1>5, <1>6, <2>1, <2>2 DEF CycleCounter
<1>12. Unconfigured'
  BY <1>6 DEF Unconfigured, Configured
<1> QED
  BY <1>7, <1>8, <1>9, <1>10, <1>11, <1>12 DEF IInv

LEMMA StartStepStep ==
  ASSUME IInv, NEW s \in StepNs, StartStep(s)
  PROVE  IInv'
<1> USE ConfigAssumption, Parameters, StepAssumption
<1> DEFINE step_ut == s \div MicrotickNs
           ut == engine.ut + step_ut
<1>1. engine \in Engine /\ sim_ns \in Nat /\ cycles \in Nat
  BY DEF IInv, TypeOK
<1>2. s \in Nat /\ s = MicrotickNs * step_ut /\ step_ut \in Nat
  BY QuotientIsNat
<1> HIDE DEF step_ut
<1>3. ut \in Nat
  BY <1>1, <1>2 DEF Engine
<1>4. ut \div Macro2Micro \in Nat /\ ut < Macro2Micro * ((ut \div Macro2Micro) + 1)
  BY <1>3, QuotientIsNat, Quotient
<1>5. engine' = [engine EXCEPT !.ut = ut, !.budget_mt = ut \div Macro2Micro]
  BY <1>1 DEF StartStep, CalculateBudget, Engine, step_ut
<1> HIDE DEF ut
<1>6. /\ engine'.ut = ut /\ engine'.budget_mt = ut \div Macro2Micro
      /\ engine'.mt = engine.mt /\ engine'.slot = engine.slot
      /\ engine'.cycle = engine.cycle
  BY <1>1, <1>5 DEF Engine
<1>7. TypeOK'
  <2>1. engine' \in Engine
    <3>1. ut \div Macro2Micro \in Int
      BY <1>4
    <3> QED
      BY <1>1, <1>3, <1>5, <3>1, Zenon DEF Engine
  <2>2. progressing' \in BOOLEAN
    BY DEF StartStep
  <2>3. engine'.mt <= MacrotickPerCycle
    BY <1>6 DEF IInv, TypeOK
  <2>4. sim_ns' \in Nat /\ cycles' \in Nat
    BY <1>1, <1>2 DEF StartStep
  <2> QED
    BY <2>1, <2>2, <2>3, <2>4 DEF TypeOK
<1>8. NoBudgetWrap'
  BY <1>4, <1>6 DEF NoBudgetWrap
<1>9. TimeConserved'
  <2>1. ElapsedUt' = ElapsedUt
    BY <1>6 DEF ElapsedUt, StartStep
  <2>2. ElapsedUt \in Nat
    BY <1>1, ProductIsNat DEF ElapsedUt, Engine
  <2>3. MicrotickNs * (ElapsedUt + ut)
          = MicrotickNs * (ElapsedUt + engine.ut) + MicrotickNs * step_ut
    <3> DEFINE before == ElapsedUt + engine.ut
    <3>1. ElapsedUt + ut = before + step_ut /\ before \in Int
      BY <1>1, <1>2, <2>2 DEF ut, Engine
    <3> HIDE DEF before
    <3>2. MicrotickNs * (before + step_ut) = MicrotickNs * before + MicrotickNs * step_ut
      BY <1>2, <3>1, ProductOfSum
    <3> QED
      BY <3>1, <3>2 DEF before
  <2>4. sim_ns = MicrotickNs * (ElapsedUt + engine.ut) /\ sim_ns' = sim_ns + s
    BY DEF IInv, TimeConserved, StartStep
  <2>5. sim_ns' = MicrotickNs * (ElapsedUt + ut)
    BY <1>2, <2>3, <2>4
  <2> QED
    BY <1>6, <2>1, <2>5 DEF TimeConserved
<1>10. SlotAligned'
  BY <1>6 DEF IInv, SlotAligned, InStatic, InDynamic, Configured
<1>11. CycleCounter' /\ Unconfigured'
  BY <1>6 DEF IInv, CycleCounter, Unconfigured, StartStep, Configured
<1> QED
  BY <1>7, <1>8, <1>9, <1>10, <1>11 DEF IInv

LEMMA EndStepStep ==
  ASSUME IInv, NEW n \in Minislots, EndStep(n)
  PROVE  IInv'
<1>1. UNCHANGED <<engine, sim_ns, cycles>> /\ progressing' = FALSE
  BY DEF EndStep
<1>2. TypeOK'
  <2>1. progressing' \in BOOLEAN
    BY <1>1
  <2> QED
    BY <1>1, <2>1 DEF IInv, TypeOK
<1>3. NoBudgetWrap' /\ CycleCounter' /\ TimeConserved'
  BY <1>1 DEF IInv, NoBudgetWrap, CycleCounter, TimeConserved, ElapsedUt
<1>4. SlotAligned' /\ Unconfigured'
  BY <1>1 DEF IInv, SlotAligned, InStatic, InDynamic, Configured, Unconfigured
<1> QED
  BY <1>2, <1>3, <1>4 DEF IInv

LEMMA ProcessConfigStep == IInv /\ ProcessConfig => IInv'
<1> SUFFICES ASSUME IInv, ProcessConfig PROVE IInv'
  OBVIOUS
<1> USE ConfigAssumption, Parameters
<1>1. engine \in Engine /\ UNCHANGED <<progressing, sim_ns, cycles>> /\ ~progressing
  BY DEF IInv, TypeOK, ProcessConfig
<1>2. CASE Configured(engine)
  <2>1. UNCHANGED vars
    BY <1>1, <1>2 DEF ProcessConfig, ConfigurePosition, vars
  <2>2. TypeOK' /\ NoBudgetWrap' /\ CycleCounter' /\ TimeConserved'
    BY <2>1 DEF IInv, TypeOK, NoBudgetWrap, CycleCounter, TimeConserved, ElapsedUt, vars
  <2>3. SlotAligned' /\ Unconfigured'
    BY <2>1 DEF IInv, SlotAligned, InStatic, InDynamic, Configured, Unconfigured, vars
  <2> QED
    BY <2>2, <2>3 DEF IInv
<1>3. CASE ~Configured(engine)
  <2>1. engine' = [engine EXCEPT !.slot = 1] /\ engine.mt = 0
    BY <1>1, <1>3 DEF ProcessConfig, ConfigurePosition, IInv, Unconfigured
  <2>2. /\ engine'.slot = 1 /\ engine'.mt = 0 /\ engine'.cycle = engine.cycle
        /\ engine'.ut = engine.ut /\ engine'.budget_mt = engine.budget_mt
    BY <1>1, <2>1 DEF Engine
  <2>3. TypeOK'
    <3>1. engine' \in Engine
      BY <1>1, <2>1 DEF Engine
    <3>2. progressing' \in BOOLEAN
      BY <1>1 DEF IInv, TypeOK
    <3> QED
      BY <1>1, <2>2, <3>1, <3>2 DEF IInv, TypeOK
  <2>4. NoBudgetWrap' /\ CycleCounter' /\ TimeConserved'
    BY <1>1, <2>1, <2>2 DEF IInv, NoBudgetWrap, CycleCounter, TimeConserved, ElapsedUt
  <2>5. SlotAligned' /\ Unconfigured'
    BY <1>1, <2>2, FirstSlotAligned DEF Unconfigured, Configured
  <2> QED
    BY <2>3, <2>4, <2>5 DEF IInv
<1> QED
  BY <1>2, <1>3

LEMMA ShiftStep ==
  ASSUME IInv, NEW t \in ShiftTargets, Shift(t)
  PROVE  IInv'
<1> USE ConfigAssumption, Parameters, StepAssumption
<1> DEFINE slot == IF t.mt < OffsetDynamic
                   THEN t.mt \div StaticSlotLength + 1
                   ELSE (t.mt - OffsetDynamic) \div MinislotLength
                          + StaticSlotCount + 1
           cycle == t.cycle % MaxCycle
<1>1. engine \in Engine
  BY DEF IInv, TypeOK
<1>2. /\ t.mt \in Nat /\ t.mt <= MacrotickPerCycle /\ t.cycle \in Nat
      /\ t.mt < OffsetDynamic => t.mt = StaticSlotLength * (t.mt \div StaticSlotLength)
  BY ShiftAssumption
<1>3. cycle \in 0 .. MaxCycle - 1
  BY <1>2
<1>4. /\ slot \in Nat /\ slot > 0
      /\ t.mt < OffsetDynamic => t.mt = StaticSlotLength * (slot - 1)
      /\ ~(t.mt < OffsetDynamic) =>
           /\ slot > StaticSlotCount
           /\ OffsetDynamic + MinislotLength * (slot - StaticSlotCount - 1) <= t.mt
  <2>1. CASE t.mt < OffsetDynamic
    <3>1. t.mt \div StaticSlotLength \in Nat
      BY <1>2, QuotientIsNat
    <3>2. slot = t.mt \div StaticSlotLength + 1
      BY <2>1
    <3> QED
      BY <1>2, <2>1, <3>1, <3>2
  <2>2. CASE ~(t.mt < OffsetDynamic)
    <3> DEFINE q == (t.mt - OffsetDynamic) \div MinislotLength
    <3>1. t.mt - OffsetDynamic \in Nat
      BY <1>2, <2>2
    <3>2. q \in Nat /\ MinislotLength * q <= t.mt - OffsetDynamic
      BY <3>1, QuotientIsNat, Quotient
    <3>3. slot = q + StaticSlotCount + 1
      BY <2>2
    <3> HIDE DEF q, slot
    <3>4. slot - StaticSlotCount - 1 = q
      BY <3>2, <3>3
    <3> QED
      BY <1>2, <2>2, <3>2, <3>3, <3>4, ProductIsNat
  <2> QED
    BY <2>1, <2>2
<1>5. /\ engine' = [engine EXCEPT !.mt = t.mt, !.cycle = cycle, !.slot = slot,
                                  !.ut = 0, !.budget_mt = 0]
      /\ cycles' = t.cycle
      /\ sim_ns' = MicrotickNs * ElapsedUt'
      /\ progressing' = progressing
  BY Zenon DEF Shift, ShiftCycle
<1> HIDE DEF slot, cycle
<1>6. /\ engine'.mt = t.mt /\ engine'.cycle = cycle /\ engine'.slot = slot
      /\ engine'.ut = 0 /\ engine'.budget_mt = 0
  BY <1>1, <1>5 DEF Engine
<1>7. ElapsedUt' \in Nat
  BY <1>2, <1>5, <1>6, ProductIsNat DEF ElapsedUt
<1>8. TypeOK'
  <2>1. engine' \in Engine
    <3>1. slot \in Nat /\ 0 \in Nat /\ 0 \in Int
      BY <1>4
    <3> QED
      BY <1>1, <1>2, <1>3, <1>5, <3>1, Zenon DEF Engine
  <2>2. progressing' \in BOOLEAN
    BY <1>5 DEF IInv, TypeOK
  <2>3. sim_ns' \in Nat
    BY <1>5, <1>7, ProductIsNat
  <2> QED
    BY <1>2, <1>5, <1>6, <2>1, <2>2, <2>3 DEF TypeOK
<1>9. NoBudgetWrap'
  BY <1>6 DEF NoBudgetWrap
<1>10. TimeConserved'
  BY <1>5, <1>6, <1>7 DEF TimeConserved
<1>11. SlotAligned'
  BY <1>4, <1>6 DEF SlotAligned, InStatic, InDynamic
<1>12. CycleCounter' /\ Unconfigured'
  BY <1>4, <1>5, <1>6 DEF CycleCounter, Unconfigured, Configured, cycle
<1> QED
  BY <1>8, <1>9, <1>10, <1>11, <1>12 DEF IInv

-----------------------------------------------------------------------------
(***************************************************************************)
(* The theorems.                                                           *)
(***************************************************************************)

\* Every action of the engine preserves the inductive invariant.
LEMMA NextIInv == IInv /\ [Next]_vars => IInv'
<1> SUFFICES ASSUME IInv, [Next]_vars PROVE IInv'
  OBVIOUS
<1>1. CASE ProcessConfig
  BY <1>1, ProcessConfigStep
<1>2. ASSUME NEW s \in StepNs, StartStep(s) PROVE IInv'
  BY <1>2, StartStepStep
<1>3. CASE ConsumeStaticSlot
  BY <1>3, StaticSlotStep
<1>4. ASSUME NEW n \in Minislots, ConsumeDynamicSlot(n) PROVE IInv'
  BY <1>4, DynamicSlotStep
<1>5. CASE EndCycle
  BY <1>5, EndCycleStep
<1>6. ASSUME NEW n \in Minislots, EndStep(n) PROVE IInv'
  BY <1>6, EndStepStep
<1>7. ASSUME NEW t \in ShiftTargets, Shift(t) PROVE IInv'
  BY <1>7, ShiftStep
<1>8. CASE UNCHANGED vars
  <2>1. TypeOK' /\ NoBudgetWrap' /\ CycleCounter' /\ TimeConserved'
    BY <1>8 DEF IInv, TypeOK, NoBudgetWrap, CycleCounter, TimeConserved, ElapsedUt, vars
  <2>2. SlotAligned' /\ Unconfigured'
    BY <1>8 DEF IInv, SlotAligned, InStatic, InDynamic, Configured, Unconfigured, vars
  <2> QED
    BY <2>1, <2>2 DEF IInv
<1> QED
  BY <1>1, <1>2, <1>3, <1>4, <1>5, <1>6, <1>7, <1>8 DEF Next, Consume

THEOREM Invariance == Spec => []IInv
BY InitIInv, NextIInv, PTL DEF Spec

\* The type invariant: position and budget stay in range.
THEOREM TypeCorrect == Spec => []TypeOK
BY Invariance, PTL DEF IInv

\* The unsigned budgets of calculate_budget() and consume_slot() never wrap.
THEOREM BudgetNeverWraps == Spec => []NoBudgetWrap
BY Invariance, PTL DEF IInv

\* Time is conserved over slots, clamped slots, cycle ends and steps.
THEOREM TimeIsConserved == Spec => []TimeConserved
BY Invariance, PTL DEF IInv

\* Slot counter and macrotick counter describe the same position.
THEOREM SlotsAreAligned == Spec => []SlotAligned
BY Invariance, PTL DEF IInv

\* The wrapped cycle counter follows the cycles.
THEOREM CyclesAreCounted == Spec => []CycleCounter
BY Invariance, PTL DEF IInv

-----------------------------------------------------------------------------
\* Static slots are neither skipped nor repeated within a step.
THEOREM SlotOrder == Spec => SlotsInOrder
<1> DEFINE Order ==
      progressing /\ engine'.slot # engine.slot =>
        \/ engine'.slot = engine.slot + 1 /\ engine'.cycle = engine.cycle
        \/ /\ engine'.slot = 1
           /\ engine.slot > StaticSlotCount
           /\ engine'.cycle = (engine.cycle + 1) % MaxCycle
<1>1. IInv /\ [Next]_vars => [Order]_vars
  <2> SUFFICES ASSUME IInv, [Next]_vars, progressing, engine'.slot # engine.slot
               PROVE  Order
    OBVIOUS
  <2>1. engine \in Engine
    BY DEF IInv, TypeOK
  <2>2. ASSUME NEW n, engine' = ConsumeSlot(engine, n) PROVE Order
    BY <2>1, <2>2 DEF ConsumeSlot, Engine
  <2>3. CASE EndCycle
    <3>1. /\ engine'.slot = 1
          /\ engine'.cycle = (engine.cycle + 1) % MaxCycle
      BY <2>1, <2>3 DEF EndCycle, ConsumeCycleEnd, Engine
    <3>2. engine.slot > StaticSlotCount
      BY <2>3 DEF IInv, SlotAligned, Unconfigured, EndCycle, AtCycleEnd
    <3> QED
      BY <3>1, <3>2
  <2> QED
    BY <2>2, <2>3 DEF Next, Consume, ProcessConfig, StartStep, ConsumeStaticSlot,
       ConsumeDynamicSlot, EndStep, Shift, vars
<1> QED
  BY <1>1, Invariance, PTL DEF Spec, SlotsInOrder

-----------------------------------------------------------------------------
(***************************************************************************)
(* The refinement of BusClock.  The bus comes further with every slot and  *)
(* stays within the simulation time by TimeConserved; a step is over when  *)
(* the budget is below the need of one slot, which is less than a cycle.   *)
(***************************************************************************)

\* The clock as TimeConserved describes it.
Lagging ==
  /\ ElapsedUt \in Nat /\ engine.ut \in Nat
  /\ MicrotickNs * ElapsedUt \in Nat
  /\ MicrotickNs * engine.ut \in Nat
  /\ sim_ns = MicrotickNs * ElapsedUt + MicrotickNs * engine.ut

LEMMA Lag == IInv => Lagging
<1> SUFFICES ASSUME IInv PROVE Lagging
  OBVIOUS
<1> USE ConfigAssumption, Parameters, StepAssumption
<1>1. engine \in Engine /\ cycles \in Nat
  BY DEF IInv, TypeOK
<1>2. ElapsedUt \in Nat /\ engine.ut \in Nat
  BY <1>1, ProductIsNat DEF ElapsedUt, Engine
<1>3. sim_ns = MicrotickNs * (ElapsedUt + engine.ut)
  BY DEF IInv, TimeConserved
<1>4. MicrotickNs * (ElapsedUt + engine.ut)
        = MicrotickNs * ElapsedUt + MicrotickNs * engine.ut
  BY <1>2, ProductOfSum
<1>5. MicrotickNs * ElapsedUt \in Nat /\ MicrotickNs * engine.ut \in Nat
  BY <1>2, ProductIsNat
<1> QED
  BY <1>2, <1>3, <1>4, <1>5 DEF Lagging

\* Whatever slot comes next, it needs no more than a cycle.
LEMMA NeedWithinCycle ==
  ASSUME IInv, NEW n \in Minislots
  PROVE  NeedUt(engine, n) \in Nat /\ NeedUt(engine, n) <= MicrotickPerCycle
<1> USE ConfigAssumption, Parameters, MinislotsAssumption
<1>1. engine \in Engine /\ engine.mt <= MacrotickPerCycle /\ n \in Nat \ {0}
  BY DEF IInv, TypeOK
<1>2. CASE AtCycleEnd(engine)
  <2>1. /\ engine.mt * Macro2Micro \in Nat
        /\ engine.mt * Macro2Micro <= MicrotickPerCycle
    BY <1>1, Remainder DEF Engine
  <2> QED
    BY <1>2, <2>1 DEF NeedUt, RemainingUt
<1>3. ASSUME NEW need \in Nat, need <= MacrotickPerCycle
      PROVE  need * Macro2Micro \in Nat /\ need * Macro2Micro <= MicrotickPerCycle
  BY <1>3, Remainder
<1>4. CASE InStatic(engine)
  <2>1. StaticSlotCount # 0
    BY <1>1, <1>4 DEF InStatic, OffsetDynamic, Engine
  <2>2. StaticSlotLength * 1 <= StaticSlotLength * StaticSlotCount
    BY <2>1, ProductMonotone
  <2>3. StaticSlotLength <= MacrotickPerCycle
    BY <2>2 DEF OffsetDynamic
  <2> QED
    BY <1>3, <1>4, <2>3 DEF NeedUt, SlotNeed, AtCycleEnd
<1>5. CASE InDynamic(engine)
  <2>1. n * MinislotLength \in Nat
    BY <1>1, ProductIsNat
  <2>2. /\ DynamicNeed(engine, n) \in Nat
        /\ DynamicNeed(engine, n) <= MacrotickPerCycle
    BY <1>1, <2>1 DEF DynamicNeed, Engine
  <2> QED
    BY <1>3, <1>5, <2>2 DEF NeedUt, SlotNeed, AtCycleEnd, InDynamic
<1> QED
  BY <1>2, <1>4, <1>5 DEF AtCycleEnd

\* A slot or a cycle end takes time from the budget or is invisible.
LEMMA ConsumeAdvances ==
  ASSUME IInv, IInv', progressing, UNCHANGED <<progressing, sim_ns>>,
         engine'.ut <= engine.ut
  PROVE  [Clock!ClockNext]_(Clock!clockVars)
<1> USE StepAssumption
<1> DEFINE lag == MicrotickNs * engine.ut
           lag1 == MicrotickNs * engine'.ut
           done == MicrotickNs * ElapsedUt
           done1 == MicrotickNs * ElapsedUt'
<1>1. /\ lag \in Nat /\ done \in Nat /\ sim_ns = done + lag
      /\ engine.ut \in Nat
  BY Lag DEF Lagging
<1>2. /\ lag1 \in Nat /\ done1 \in Nat /\ sim_ns' = done1 + lag1
      /\ engine'.ut \in Nat
  <2>1. IInv' => Lagging'
    BY Lag, PTL
  <2> QED
    BY <2>1 DEF Lagging
<1>3. lag1 <= lag
  <2>1. MicrotickNs \in Nat /\ engine'.ut \in Int /\ engine.ut \in Int
    BY <1>1, <1>2
  <2> QED
    BY <2>1, ProductMonotone DEF lag, lag1
<1> HIDE DEF lag, lag1
<1>4. done1 = done \/ (done < done1 /\ done1 <= sim_ns)
  <2> HIDE DEF done, done1
  <2> QED
    BY <1>1, <1>2, <1>3
<1>5. CASE done1 = done
  BY <1>5 DEF Clock!clockVars
<1>6. CASE done < done1 /\ done1 <= sim_ns
  BY <1>2, <1>6 DEF Clock!ClockNext, Clock!Advance
<1> QED
  BY <1>4, <1>5, <1>6

LEMMA InitClock == Init => Clock!ClockInit
<1> SUFFICES ASSUME Init PROVE Clock!ClockInit
  OBVIOUS
<1>1. ElapsedUt = 0
  BY ConfigAssumption, Parameters DEF Init, ElapsedUt, ZeroEngine
<1> QED
  BY <1>1, StepAssumption DEF Init, Clock!ClockInit

\* Each step of the engine is a step of the clock, or none.
LEMMA NextClock ==
  IInv /\ IInv' /\ [Next]_vars => [Clock!ClockNext]_(Clock!clockVars)
<1> SUFFICES ASSUME IInv, IInv', [Next]_vars
             PROVE  [Clock!ClockNext]_(Clock!clockVars)
  OBVIOUS
<1> USE ConfigAssumption, Parameters, StepAssumption
<1>1. /\ engine \in Engine /\ engine.mt <= MacrotickPerCycle
      /\ engine' \in Engine
  BY DEF IInv, TypeOK
<1>2. CASE ProcessConfig
  <2>1. engine'.mt = engine.mt
    BY <1>1, <1>2 DEF ProcessConfig, ConfigurePosition, Engine
  <2>2. ElapsedUt' = ElapsedUt
    BY <1>2, <2>1 DEF ElapsedUt, ProcessConfig
  <2> QED
    BY <1>2, <2>2 DEF ProcessConfig, Clock!clockVars
<1>3. ASSUME NEW s \in StepNs, StartStep(s)
      PROVE  [Clock!ClockNext]_(Clock!clockVars)
  <2>1. engine'.mt = engine.mt
    BY <1>1, <1>3 DEF StartStep, CalculateBudget, Engine
  <2>2. ElapsedUt' = ElapsedUt
    BY <1>3, <2>1 DEF ElapsedUt, StartStep
  <2> QED
    BY <1>3, <2>2 DEF StartStep, Clock!ClockNext, Clock!Tick
<1>4. ASSUME NEW n \in Minislots, engine' = ConsumeSlot(engine, n),
             progressing, UNCHANGED <<progressing, sim_ns>>, ~AtCycleEnd(engine)
      PROVE  [Clock!ClockNext]_(Clock!clockVars)
  <2>1. NeedUt(engine, n) \in Nat
    BY NeedWithinCycle
  <2>2. engine'.ut = engine.ut - NeedUt(engine, n)
    BY <1>1, <1>4 DEF ConsumeSlot, NeedUt, Engine
  <2>3. engine'.ut <= engine.ut
    BY <1>1, <2>1, <2>2 DEF Engine
  <2> QED
    BY <1>4, <2>3, ConsumeAdvances
<1>5. CASE EndCycle
  <2>1. RemainingUt(engine) \in Nat
    BY <1>1, Remainder DEF RemainingUt, Engine
  <2>2. engine'.ut = engine.ut - RemainingUt(engine)
    BY <1>1, <1>5 DEF EndCycle, ConsumeCycleEnd, Engine
  <2>3. engine'.ut <= engine.ut
    BY <1>1, <2>1, <2>2 DEF Engine
  <2> QED
    BY <1>5, <2>3, ConsumeAdvances DEF EndCycle
<1>6. ASSUME NEW n \in Minislots, EndStep(n)
      PROVE  [Clock!ClockNext]_(Clock!clockVars)
  <2>1. engine.ut + 1 <= MicrotickPerCycle
    BY <1>1, <1>6, NeedWithinCycle DEF EndStep, CanConsume, Engine
  <2>2. MicrotickNs * (engine.ut + 1) <= MicrotickNs * MicrotickPerCycle
    BY <1>1, <2>1, ProductMonotone DEF Engine
  <2>3. MicrotickNs * (engine.ut + 1) = MicrotickNs * engine.ut + MicrotickNs
    BY <1>1 DEF Engine
  <2>4. /\ MicrotickNs * engine.ut \in Nat /\ MicrotickNs * ElapsedUt \in Nat
        /\ sim_ns = MicrotickNs * ElapsedUt + MicrotickNs * engine.ut
    BY Lag DEF Lagging
  <2>5. sim_ns - MicrotickNs * ElapsedUt < MicrotickNs * MicrotickPerCycle
    BY <2>2, <2>3, <2>4, ProductIsNat
  <2>6. ElapsedUt' = ElapsedUt
    BY <1>6 DEF EndStep, ElapsedUt
  <2> QED
    BY <1>6, <2>5, <2>6 DEF EndStep, Clock!ClockNext, Clock!Rest
<1>7. ASSUME NEW t \in ShiftTargets, Shift(t)
      PROVE  [Clock!ClockNext]_(Clock!clockVars)
  <2>1. IInv' => Lagging'
    BY Lag, PTL
  <2>2. MicrotickNs * ElapsedUt' \in Nat
    BY <2>1 DEF Lagging
  <2> QED
    BY <1>7, <2>2 DEF Shift, Clock!ClockNext, Clock!Resync
<1>8. CASE UNCHANGED vars
  BY <1>8 DEF vars, ElapsedUt, Clock!clockVars
<1>9. CASE ConsumeStaticSlot
  BY <1>4, <1>9, MinislotsAssumption DEF ConsumeStaticSlot, AtCycleEnd
<1>10. ASSUME NEW n \in Minislots, ConsumeDynamicSlot(n)
       PROVE  [Clock!ClockNext]_(Clock!clockVars)
  BY <1>4, <1>10 DEF ConsumeDynamicSlot, AtCycleEnd
<1> QED
  BY <1>2, <1>3, <1>5, <1>6, <1>7, <1>8, <1>9, <1>10 DEF Next, Consume

\* The engine implements BusClock: it is never ahead of the simulation and,
\* when a step is over, less than one communication cycle behind.
THEOREM ImplementsBusClock == Spec => FollowsSimulationTime
BY InitClock, NextClock, Invariance, PTL
   DEF Spec, FollowsSimulationTime, Clock!ClockSpec
=============================================================================
