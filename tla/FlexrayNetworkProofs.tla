------------------------- MODULE FlexrayNetworkProofs -------------------------
(***************************************************************************)
(* Proofs about FlexrayNetwork, for every FlexRay parameter set, every set *)
(* of nodes and frame tables, and whatever the applications write when.    *)
(***************************************************************************)
EXTENDS FlexrayNetwork, SequenceTheorems, TLAPS

\* What a replica has read is a fold over the PDUs of a step, in their order.
Reading == INSTANCE SequenceInduction WITH Op <- Consume

LEMMA ReadingFlattenSeq ==
  ASSUME NEW ss
  PROVE  Reading!FlattenSeq(ss) = FlattenSeq(ss)
BY DEF Reading!FlattenSeq, FlattenSeq

-----------------------------------------------------------------------------
(***************************************************************************)
(* The engine.                                                             *)
(***************************************************************************)

LEMMA ProductIsNat ==
  ASSUME NEW a \in Nat, NEW b \in Nat
  PROVE  a * b \in Nat
OBVIOUS

LEMMA ProductIsPositive ==
  ASSUME NEW a \in Nat \ {0}, NEW b \in Nat \ {0}
  PROVE  a * b \in Nat \ {0}
OBVIOUS

LEMMA QuotientIsNat ==
  ASSUME NEW a \in Nat, NEW m \in Nat \ {0}
  PROVE  a \div m \in Nat
OBVIOUS

LEMMA QuotientIsPositive ==
  ASSUME NEW a \in Nat, NEW m \in Nat \ {0}, m <= a
  PROVE  a \div m \in Nat \ {0}
OBVIOUS

LEMMA RemainderIsBelow ==
  ASSUME NEW a \in Nat, NEW m \in Nat \ {0}
  PROVE  a % m \in 0 .. m - 1
OBVIOUS

LEMMA Parameters ==
  /\ Macro2Micro \in Nat \ {0}
  /\ OffsetDynamic \in Nat
  /\ OffsetDynamic <= OffsetNetwork /\ OffsetNetwork <= MacrotickPerCycle
  /\ StepUt \in Nat
<1>1. Macro2Micro \in Nat \ {0}
  BY ConfigAssumption, QuotientIsPositive DEF Macro2Micro
<1>2. OffsetDynamic \in Nat
  BY ConfigAssumption, ProductIsNat DEF OffsetDynamic
<1> QED
  BY <1>1, <1>2, ConfigAssumption, NetworkAssumption DEF OffsetNetwork

\* A slot needs time, and what it needs is in the budget when it is consumed.
LEMMA SlotNeedIs ==
  ASSUME NEW e \in Engine, ~AtCycleEnd(e), NEW minislots \in Nat \ {0}
  PROVE  SlotNeed(e, minislots) \in Nat \ {0}
<1>1. e.mt \in Nat
  BY DEF Engine
<1>2. CASE InStatic(e)
  BY <1>2, ConfigAssumption DEF SlotNeed
<1>3. CASE ~InStatic(e)
  <2>1. e.mt < MacrotickPerCycle
    BY <1>1, <1>3, ConfigAssumption DEF AtCycleEnd, InDynamic, OffsetNetwork
  <2>2. minislots * MinislotLength \in Nat \ {0}
    BY ConfigAssumption, ProductIsPositive
  <2> QED
    BY <1>1, <1>3, <2>1, <2>2, ConfigAssumption DEF SlotNeed, DynamicNeed
<1> QED
  BY <1>2, <1>3

LEMMA RemainingUtIs ==
  ASSUME NEW e \in Engine
  PROVE  RemainingUt(e) \in Nat
<1>1. e.mt * Macro2Micro \in Nat
  BY Parameters, ProductIsNat DEF Engine
<1> QED
  BY <1>1, ConfigAssumption DEF RemainingUt

LEMMA ZeroEngineType == ZeroEngine \in Engine
BY ConfigAssumption DEF ZeroEngine, Engine

LEMMA ConfigurePositionType ==
  ASSUME NEW e \in Engine
  PROVE  ConfigurePosition(e) \in Engine
BY DEF ConfigurePosition, Engine

LEMMA CalculateBudgetType ==
  ASSUME NEW e \in Engine
  PROVE  CalculateBudget(e, StepUt) \in Engine
<1>1. e.ut + StepUt \in Nat
  BY Parameters DEF Engine
<1>2. (e.ut + StepUt) \div Macro2Micro \in Int
  BY <1>1, Parameters, QuotientIsNat
<1> QED
  BY <1>1, <1>2 DEF CalculateBudget, Engine

\* A slot takes from the budget.
LEMMA ConsumeSlotType ==
  ASSUME NEW e \in Engine, NEW minislots \in Nat \ {0},
         ~AtCycleEnd(e), CanConsume(e, minislots)
  PROVE  /\ ConsumeSlot(e, minislots) \in Engine
         /\ ConsumeSlot(e, minislots).ut < e.ut
<1> DEFINE need == SlotNeed(e, minislots)
<1>1. need \in Nat \ {0}
  BY SlotNeedIs
<1>2. need * Macro2Micro \in Nat \ {0}
  BY <1>1, Parameters, ProductIsPositive
<1>3. need * Macro2Micro <= e.ut
  BY DEF CanConsume, NeedUt
<1>4. ConsumeSlot(e, minislots) =
        [e EXCEPT !.ut = @ - need * Macro2Micro, !.budget_mt = @ - need,
                  !.slot = @ + 1, !.mt = @ + need]
  BY DEF ConsumeSlot
<1> DEFINE cost == need * Macro2Micro
<1>5. cost \in Nat \ {0} /\ cost <= e.ut
  BY <1>2, <1>3
<1> HIDE DEF need, cost
<1>6. ConsumeSlot(e, minislots) =
        [e EXCEPT !.ut = e.ut - cost, !.budget_mt = e.budget_mt - need,
                  !.slot = e.slot + 1, !.mt = e.mt + need]
  BY <1>4 DEF cost
<1>7. /\ e.ut - cost \in Nat /\ e.ut - cost < e.ut /\ e.budget_mt - need \in Int
      /\ e.slot + 1 \in Nat /\ e.mt + need \in Nat
  BY <1>1, <1>5 DEF Engine
<1> QED
  BY <1>6, <1>7 DEF Engine

\* The end of a cycle gives nothing back, and a slot follows it.
LEMMA ConsumeCycleEndType ==
  ASSUME NEW e \in Engine, NEW minislots, AtCycleEnd(e), CanConsume(e, minislots)
  PROVE  /\ ConsumeCycleEnd(e) \in Engine
         /\ ConsumeCycleEnd(e).ut <= e.ut
         /\ OffsetNetwork > 0 => ~AtCycleEnd(ConsumeCycleEnd(e))
<1>1. RemainingUt(e) \in Nat /\ RemainingUt(e) <= e.ut
  BY RemainingUtIs DEF CanConsume, NeedUt
<1> DEFINE rest == RemainingUt(e)
           next == (e.cycle + 1) % MaxCycle
<1>2. next \in 0 .. MaxCycle - 1
  <2>1. e.cycle + 1 \in Nat
    BY ConfigAssumption DEF Engine
  <2> QED
    BY <2>1, ConfigAssumption, RemainderIsBelow
<1>3. ConsumeCycleEnd(e) = [e EXCEPT !.ut = e.ut - rest, !.slot = 1, !.mt = 0, !.cycle = next]
  BY DEF ConsumeCycleEnd
<1>4. rest \in Nat /\ rest <= e.ut
  BY <1>1
<1> HIDE DEF rest, next
<1>5. e.ut - rest \in Nat /\ e.ut - rest <= e.ut
  BY <1>4 DEF Engine
<1>6. ConsumeCycleEnd(e) \in Engine
  <2>1. [e EXCEPT !.ut = e.ut - rest, !.slot = 1, !.mt = 0] \in Engine
    BY <1>5 DEF Engine
  <2> DEFINE q == [e EXCEPT !.ut = e.ut - rest, !.slot = 1, !.mt = 0]
  <2>2. ConsumeCycleEnd(e) = [q EXCEPT !.cycle = next]
    BY <1>3
  <2> HIDE DEF q
  <2>3. q \in Engine
    BY <2>1 DEF q
  <2> QED
    BY <1>2, <2>2, <2>3 DEF Engine
<1>7. ConsumeCycleEnd(e).ut = e.ut - rest /\ ConsumeCycleEnd(e).mt = 0
  BY <1>3 DEF Engine
<1> QED
  BY <1>5, <1>6, <1>7, ConfigAssumption DEF AtCycleEnd, InStatic, InDynamic, OffsetNetwork

-----------------------------------------------------------------------------
(***************************************************************************)
(* The node states.                                                        *)
(***************************************************************************)

LEMMA ZeroStateType == ZeroState \in NodeStates
BY DEF ZeroState, NodeStates, PocState, TcvrState

LEMMA TcvrOfState ==
  ASSUME NEW p \in PocState
  PROVE  TcvrOf[p] \in TcvrState
BY DEF TcvrOf, PocState, TcvrState

LEMMA SetTransceiverType ==
  ASSUME NEW s \in NodeStates, NEW nodes
  PROVE  SetTransceiver(s, nodes) \in NodeStates
BY TcvrOfState DEF SetTransceiver, NodeStates

LEMMA ConfigureType ==
  ASSUME NEW s \in NodeStates, NEW n \in Node, NEW poc \in PocState
  PROVE  SetPocState(RegisterNode(RegisterVcn(s, {}), n, "on"), n, poc) \in NodeStates
<1> DEFINE q == RegisterNode(RegisterVcn(s, {}), n, "on")
<1>1. RegisterVcn(s, {}) \in NodeStates
  BY DEF RegisterVcn, NodeStates
<1>2. q \in NodeStates
  <2> DEFINE v == RegisterVcn(s, {})
  <2>1. v \in NodeStates
    BY <1>1
  <2> HIDE DEF v
  <2>2. RegisterNode(v, n, "on") \in NodeStates
    BY <2>1 DEF RegisterNode, NodeStates, TcvrState
  <2> QED
    BY <2>2 DEF v
<1> HIDE DEF q
<1>3. [q EXCEPT !.poc[n] = poc] \in NodeStates
  BY <1>2 DEF NodeStates
<1>4. SetPocState(q, n, poc) \in NodeStates
  BY <1>2, <1>3, SetTransceiverType DEF SetPocState
<1> QED
  BY <1>4 DEF q

LEMMA PushNodeStateType ==
  ASSUME NEW s \in NodeStates, NEW n \in Node, NEW command
  PROVE  PushNodeState(s, n, command) \in NodeStates
<1>1. PocNext(s.poc[n], command) \in PocState
  BY DEF NodeStates, PocNext, Commanded, Joining, PocState
<1>2. [s EXCEPT !.poc[n] = PocNext(s.poc[n], command)] \in NodeStates
  BY <1>1 DEF NodeStates
<1>3. [s EXCEPT !.poc[n] = PocNext(@, command)] = [s EXCEPT !.poc[n] = PocNext(s.poc[n], command)]
  OBVIOUS
<1> QED
  BY <1>2, <1>3, SetTransceiverType DEF PushNodeState

LEMMA CalculateBusConditionType ==
  ASSUME NEW s \in NodeStates, NEW from
  PROVE  CalculateBusCondition(s, from) \in NodeStates
<1> DEFINE lone == {n \in NodesFrom(s, from.demote) : s.poc[n] = "NormalActive"}
           poc  == [n \in Node |-> IF n \in lone THEN "NormalPassive" ELSE s.poc[n]]
           t    == [s EXCEPT !.bus = "FrameError", !.poc = poc]
<1>1. t \in NodeStates
  <2>1. poc \in [Node -> PocState]
    BY DEF NodeStates, PocState
  <2> HIDE DEF poc
  <2> QED
    BY <2>1 DEF NodeStates, TcvrState
<1>2. [s EXCEPT !.bus = "NoSignal"] \in NodeStates /\ [s EXCEPT !.bus = "FrameSync"] \in NodeStates
  BY DEF NodeStates, TcvrState
<1>3. CalculateBusCondition(s, from) =
        IF SyncCount(s, from) = 0 THEN [s EXCEPT !.bus = "NoSignal"]
        ELSE IF SyncCount(s, from) = 1 THEN SetTransceiver(t, lone)
        ELSE [s EXCEPT !.bus = "FrameSync"]
  BY DEF CalculateBusCondition
<1> HIDE DEF t, lone
<1> QED
  BY <1>1, <1>2, <1>3, SetTransceiverType

-----------------------------------------------------------------------------
(***************************************************************************)
(* What is left of a sequence.                                             *)
(***************************************************************************)

\* The elements of a sequence at the indexes of a set, in their order.
Chosen(s, I) == FlattenSeq([i \in DOMAIN s |-> IF i \in I THEN <<s[i]>> ELSE <<>>])

\* Where they come from is decided by the indexes.
Chooses(h, k, I, indexes) ==
  /\ Reading!Enumerates(h, k, I)
  /\ \A t : DOMAIN t = indexes => Chosen(t, I) = [a \in 1 .. k |-> t[h[a]]]

LEMMA ChosenIs ==
  ASSUME NEW S, NEW s \in Seq(S), NEW I \in SUBSET DOMAIN s
  PROVE  \E k \in Nat : \E h : Chooses(h, k, I, DOMAIN s)
<1>0. Len(s) \in Nat /\ DOMAIN s = 1 .. Len(s)
  OBVIOUS
<1>1. PICK n \in Nat : n = Len(s)
  BY <1>0
<1>2a. PICK k \in Nat : \E h :
        /\ Reading!Enumerates(h, k, I)
        /\ \A t : Reading!FlattenSeq(Reading!Singles(t, n, I)) = [a \in 1 .. k |-> t[h[a]]]
  <2>1. n \in Nat /\ I \in SUBSET (1 .. n)
    BY <1>0, <1>1
  <2> QED
    BY <2>1, Reading!SelectionIs
<1>2b. PICK h :
        /\ Reading!Enumerates(h, k, I)
        /\ \A t : Reading!FlattenSeq(Reading!Singles(t, n, I)) = [a \in 1 .. k |-> t[h[a]]]
  BY <1>2a
<1>2. \A t : FlattenSeq(Reading!Singles(t, n, I)) = [a \in 1 .. k |-> t[h[a]]]
  BY <1>2b, ReadingFlattenSeq
<1>3. ASSUME NEW t, DOMAIN t = DOMAIN s
      PROVE  Chosen(t, I) = [a \in 1 .. k |-> t[h[a]]]
  <2>1. [i \in DOMAIN t |-> IF i \in I THEN <<t[i]>> ELSE <<>>] = Reading!Singles(t, n, I)
    BY <1>0, <1>1, <1>3 DEF Reading!Singles
  <2> QED
    BY <1>2, <2>1 DEF Chosen
<1>4. Chooses(h, k, I, DOMAIN s)
  BY <1>2b, <1>3 DEF Chooses
<1> QED
  BY <1>4

LEMMA ChosenType ==
  ASSUME NEW S, NEW s \in Seq(S), NEW I \in SUBSET DOMAIN s
  PROVE  Chosen(s, I) \in Seq({s[i] : i \in I})
<1>1a. PICK k \in Nat : \E h : Chooses(h, k, I, DOMAIN s)
  BY ChosenIs
<1>1. PICK h : Chooses(h, k, I, DOMAIN s)
  BY <1>1a
<1>2. [a \in 1 .. k |-> s[h[a]]] \in Seq({s[i] : i \in I})
  BY <1>1 DEF Chooses, Reading!Enumerates
<1> QED
  BY <1>1, <1>2 DEF Chooses

LEMMA ConcatIsAssociative ==
  ASSUME NEW S, NEW a \in Seq(S), NEW b \in Seq(S), NEW c \in Seq(S)
  PROVE  a \o b \o c = a \o (b \o c)
BY ConcatAssociative

LEMMA SubsetOfSeq ==
  ASSUME NEW S, NEW T, S \subseteq T, NEW s \in Seq(S)
  PROVE  s \in Seq(T)
OBVIOUS

-----------------------------------------------------------------------------
(***************************************************************************)
(* Types.                                                                  *)
(***************************************************************************)

LpduType ==
  [node : Node, slot : Slot, frame : Nat, dir : {"Tx", "Rx"}, rep : Nat, base : Nat,
   continuous : BOOLEAN, inhibit : BOOLEAN, len : Nat \ {0}, status : LpduStatus,
   payload : Seq(Nat), cycle : Nat, mt : Nat, null : BOOLEAN]

\* The LPDUs of a slot.
LpduIn(s) ==
  {l \in LpduType : l.slot = s /\ (l.payload = NoPayload \/ Len(l.payload) = l.len)}

SlotMap == {f \in [Slot -> Seq(LpduType)] : \A s \in Slot : f[s] \in Seq(LpduIn(s))}

Ref == [slot : Slot, pos : Nat]

Replica(n) ==
  [node : {n}, engine : Engine, st : NodeStates, slots : SlotMap,
   txrx : Seq(Ref), trace : Seq(Ref), inhibit : BOOLEAN]

ConfigPdus ==
  [type : {"Config"}, node : Node, accepted : BOOLEAN, vcns : {{}}, poc : PocState,
   table : Seq(LpduType), inhibit : BOOLEAN]

StatusPdus == [type : {"Status"}, node : Node, command : PocCommand]

LpduPdus ==
  [type : {"Lpdu"}, node : Node, slot : Slot, frame : Nat, status : LpduStatus,
   payload : Seq(Nat)]

\* What applications write.  A node's table has its own LPDUs, without payload.
Packet ==
  {p \in ConfigPdus : /\ p.table = FrameTable[p.node]
                      /\ \A i \in DOMAIN p.table : p.table[i].payload = NoPayload}
  \union StatusPdus \union LpduPdus

\* What applications read.
EmittedPdu ==
  [slot : Slot, frame : Nat, status : LpduStatus, null : BOOLEAN, cycle : Nat, mt : Nat,
   payload : Seq(Nat)]

LEMMA FitIs ==
  ASSUME NEW payload \in Seq(Nat), NEW len \in Nat \ {0}
  PROVE  Fit(payload, len) \in Seq(Nat) /\ Len(Fit(payload, len)) = len
<1> DEFINE zeros == [i \in 1 .. len |-> 0]
<1>1. zeros \in Seq(Nat) /\ Len(zeros) = len
  OBVIOUS
<1> HIDE DEF zeros
<1>2. payload \o zeros \in Seq(Nat) /\ Len(payload \o zeros) = Len(payload) + len
  BY <1>1
<1>3. Len(payload) \in Nat
  OBVIOUS
<1> DEFINE all == payload \o zeros
<1>4. all \in Seq(Nat) /\ len <= Len(all)
  BY <1>2, <1>3
<1> HIDE DEF all
<1>5. SubSeq(all, 1, len) \in Seq(Nat) /\ Len(SubSeq(all, 1, len)) = len
  BY <1>4
<1> QED
  BY <1>5 DEF Fit, zeros, all

LEMMA LpduInType ==
  ASSUME NEW s \in Slot, NEW l \in LpduIn(s)
  PROVE  /\ l \in LpduType /\ l.slot = s /\ l.payload \in Seq(Nat) /\ l.len \in Nat \ {0}
         /\ l.cycle \in Nat /\ l.mt \in Nat /\ l.null \in BOOLEAN /\ l.status \in LpduStatus
BY DEF LpduIn, LpduType

LEMMA StampedIs ==
  ASSUME NEW s \in Slot, NEW l \in LpduIn(s), NEW n, NEW r \in Replica(n)
  PROVE  /\ Stamped(r, l) \in LpduIn(s) /\ Stamped(r, l).status = l.status
         /\ Stamped(r, l).payload = l.payload /\ Stamped(r, l).len = l.len
         /\ Stamped(r, l).continuous = l.continuous
<1>1. r.engine.cycle \in Nat /\ r.engine.mt \in Nat
  BY ConfigAssumption DEF Replica, Engine
<1>2. Stamped(r, l) = [l EXCEPT !.cycle = r.engine.cycle, !.mt = r.engine.mt]
  BY DEF Stamped
<1> QED
  BY <1>1, <1>2 DEF LpduIn, LpduType

LEMMA TransmittedType ==
  ASSUME NEW s \in Slot, NEW l \in LpduIn(s), NEW n, NEW r \in Replica(n)
  PROVE  Transmitted(r, l) \in LpduIn(s)
<1> DEFINE q == Stamped(r, l)
           status == IF q.continuous THEN q.status ELSE "Transmitted"
<1>1. q \in LpduIn(s)
  BY StampedIs
<1> HIDE DEF q
<1>2. Transmitted(r, l) = [q EXCEPT !.status = IF l.continuous THEN q.status ELSE "Transmitted"]
  BY DEF Transmitted, q
<1>3. [q EXCEPT !.status = IF l.continuous THEN q.status ELSE "Transmitted"] \in LpduIn(s)
  BY <1>1 DEF LpduIn, LpduType, LpduStatus
<1> QED
  BY <1>2, <1>3

LEMMA ReceivedType ==
  ASSUME NEW s \in Slot, NEW l \in LpduIn(s), NEW n, NEW r \in Replica(n),
         NEW sent \in Seq(Nat)
  PROVE  Received(r, l, sent) \in LpduIn(s)
<1> DEFINE q == Stamped(r, l)
<1>1. q \in LpduIn(s) /\ q.len = l.len /\ q.payload = l.payload
  BY StampedIs
<1>2. /\ l.len \in Nat \ {0} /\ q.payload \in Seq(Nat) /\ q.status \in LpduStatus
      /\ q.cycle \in Nat /\ q.mt \in Nat
  BY <1>1, LpduInType
<1> DEFINE payload == IF sent = NoPayload THEN Fit(q.payload, l.len) ELSE Fit(sent, l.len)
<1>3. payload \in Seq(Nat) /\ Len(payload) = l.len
  BY <1>2, FitIs
<1>4. Received(r, l, sent) = IF IsNullFrame(r) THEN [q EXCEPT !.null = TRUE]
                             ELSE [q EXCEPT !.null = FALSE, !.status = "Received",
                                            !.payload = payload]
  BY DEF Received
<1> HIDE DEF q, payload
<1>5. [q EXCEPT !.null = TRUE] \in LpduIn(s)
  BY <1>1 DEF LpduIn, LpduType
<1>6. [q EXCEPT !.null = FALSE, !.status = "Received", !.payload = payload] \in LpduIn(s)
  <2> DEFINE a == [q EXCEPT !.null = FALSE, !.status = "Received"]
  <2>1. a \in LpduIn(s) /\ a.len = q.len
    BY <1>1 DEF LpduIn, LpduType, LpduStatus
  <2>2. [q EXCEPT !.null = FALSE, !.status = "Received", !.payload = payload]
          = [a EXCEPT !.payload = payload]
    OBVIOUS
  <2> HIDE DEF a
  <2>3. [a EXCEPT !.payload = payload] \in LpduIn(s)
    BY <1>1, <1>3, <2>1 DEF LpduIn, LpduType
  <2> QED
    BY <2>2, <2>3
<1> QED
  BY <1>4, <1>5, <1>6

-----------------------------------------------------------------------------
(***************************************************************************)
(* A slot.                                                                 *)
(***************************************************************************)

LEMMA MaxIs ==
  ASSUME NEW n \in Nat, NEW T \in SUBSET (1 .. n), T # {}
  PROVE  Max(T) \in T /\ \A x \in T : x <= Max(T)
<1> DEFINE U == {n - x : x \in T}
<1>1. U \in SUBSET Nat /\ U # {}
  <2>1. \A x \in T : n - x \in Nat
    OBVIOUS
  <2>2. PICK x \in T : TRUE
    OBVIOUS
  <2>3. n - x \in U
    OBVIOUS
  <2> QED
    BY <2>1, <2>3
<1> HIDE DEF U
<1>2. PICK u \in U : \A y \in U : u <= y
  BY <1>1, Reading!LeastOf
<1> USE DEF U
<1>3. PICK x \in T : u = n - x
  BY <1>2
<1>4. ASSUME NEW y \in T PROVE x >= y
  <2>1. n - y \in U
    OBVIOUS
  <2>2. n - x <= n - y
    BY <1>2, <1>3, <2>1
  <2> QED
    BY <2>2
<1>5. \E z \in T : \A y \in T : z >= y
  BY <1>4
<1>6. Max(T) \in T /\ \A y \in T : Max(T) >= y
  BY <1>5 DEF Max
<1>7. \A y \in T : y \in Int /\ Max(T) \in Int
  BY <1>6
<1> QED
  BY <1>6, <1>7

\* A slot of the slot map is the one at the position, or there is none.
LEMMA LpdusType ==
  ASSUME NEW n, NEW r \in Replica(n)
  PROVE  /\ r.engine.slot \in Slot => /\ Lpdus(r) = r.slots[r.engine.slot]
                                      /\ Lpdus(r) \in Seq(LpduIn(r.engine.slot))
         /\ r.engine.slot \notin Slot => Lpdus(r) = <<>>
BY DEF Lpdus, Replica, SlotMap

LEMMA LpduAt ==
  ASSUME NEW n, NEW r \in Replica(n), NEW i \in DOMAIN Lpdus(r)
  PROVE  r.engine.slot \in Slot /\ Lpdus(r)[i] \in LpduIn(r.engine.slot)
<1>1. r.engine.slot \in Slot
  <2>1. SUFFICES ASSUME r.engine.slot \notin Slot PROVE FALSE
    OBVIOUS
  <2>2. Lpdus(r) = <<>>
    BY <2>1, LpdusType
  <2> QED
    BY <2>2
<1>2. Lpdus(r) \in Seq(LpduIn(r.engine.slot))
  BY <1>1, LpdusType
<1> QED
  BY <1>1, <1>2

LEMMA LpdusLen ==
  ASSUME NEW n, NEW r \in Replica(n)
  PROVE  Len(Lpdus(r)) \in Nat /\ DOMAIN Lpdus(r) = 1 .. Len(Lpdus(r))
<1>1. CASE r.engine.slot \in Slot
  <2>1. Lpdus(r) \in Seq(LpduIn(r.engine.slot))
    BY <1>1, LpdusType
  <2> QED
    BY <2>1
<1>2. CASE r.engine.slot \notin Slot
  <2>1. Lpdus(r) = <<>>
    BY <1>2, LpdusType
  <2> QED
    BY <2>1
<1> QED
  BY <1>1, <1>2

LEMMA TxIndexesIs ==
  ASSUME NEW n, NEW r \in Replica(n), TxIndexes(r) # {}
  PROVE  /\ r.engine.slot \in Slot
         /\ Max(TxIndexes(r)) \in TxIndexes(r) /\ Max(TxIndexes(r)) \in DOMAIN Lpdus(r)
<1>1. TxIndexes(r) \subseteq DOMAIN Lpdus(r)
  BY DEF TxIndexes
<1>2. PICK k \in Nat : DOMAIN Lpdus(r) = 1 .. k
  BY LpdusLen
<1>3. Max(TxIndexes(r)) \in TxIndexes(r)
  BY <1>1, <1>2, MaxIs
<1> QED
  BY <1>1, <1>3, LpduAt

LEMMA AfterFrameType ==
  ASSUME NEW n, NEW r \in Replica(n), NEW tx \in DOMAIN Lpdus(r)
  PROVE  AfterFrame(r, tx) \in Seq(LpduIn(r.engine.slot))
<1> DEFINE s == r.engine.slot
           after(i) == LET l == Lpdus(r)[i]
                       IN  IF i = tx /\ Sends(r, tx) THEN Transmitted(r, l)
                           ELSE IF Receives(r, l) THEN Received(r, l, Lpdus(r)[tx].payload)
                           ELSE l
<1>1. s \in Slot /\ \A i \in DOMAIN Lpdus(r) : Lpdus(r)[i] \in LpduIn(s)
  BY LpduAt
<1>2. Lpdus(r)[tx].payload \in Seq(Nat)
  BY <1>1, LpduInType
<1>3. \A i \in DOMAIN Lpdus(r) : after(i) \in LpduIn(s)
  BY <1>1, <1>2, TransmittedType, ReceivedType
<1>4. AfterFrame(r, tx) = [i \in DOMAIN Lpdus(r) |-> after(i)]
  BY DEF AfterFrame
<1> HIDE DEF after, s
<1>5. PICK k \in Nat : DOMAIN Lpdus(r) = 1 .. k
  BY LpdusLen
<1>6. [i \in 1 .. k |-> after(i)] \in Seq(LpduIn(s))
  BY <1>3, <1>5
<1> QED
  BY <1>4, <1>5, <1>6 DEF s

\* The references that a frame adds.
FrameRefs(r, tx) ==
  LET refs == [i \in DOMAIN Lpdus(r) |-> [slot |-> r.engine.slot, pos |-> i]]
  IN  (IF InformsOf(r, tx) THEN <<refs[tx]>> ELSE <<>>)
      \o Selected(refs, LAMBDA ref : Receives(r, Lpdus(r)[ref.pos]))

LEMMA ReceiverRefs ==
  ASSUME NEW n, NEW r \in Replica(n), r.engine.slot \in Slot
  PROVE  LET refs == [i \in DOMAIN Lpdus(r) |-> [slot |-> r.engine.slot, pos |-> i]]
             I == {i \in DOMAIN Lpdus(r) : Receives(r, Lpdus(r)[i])}
         IN  /\ refs \in Seq(Ref)
             /\ Selected(refs, LAMBDA ref : Receives(r, Lpdus(r)[ref.pos])) = Chosen(refs, I)
             /\ Chosen(refs, I) \in Seq({refs[i] : i \in I})
<1> DEFINE refs == [i \in DOMAIN Lpdus(r) |-> [slot |-> r.engine.slot, pos |-> i]]
           I == {i \in DOMAIN Lpdus(r) : Receives(r, Lpdus(r)[i])}
<1>1. PICK k \in Nat : DOMAIN Lpdus(r) = 1 .. k
  BY LpdusLen
<1>2. refs \in Seq(Ref) /\ DOMAIN refs = DOMAIN Lpdus(r)
  BY <1>1 DEF Ref
<1>3. \A i \in DOMAIN refs : Receives(r, Lpdus(r)[refs[i].pos]) <=> i \in I
  OBVIOUS
<1> HIDE DEF I
<1>4. [i \in DOMAIN refs |-> IF Receives(r, Lpdus(r)[refs[i].pos]) THEN <<refs[i]>> ELSE <<>>]
        = [i \in DOMAIN refs |-> IF i \in I THEN <<refs[i]>> ELSE <<>>]
  BY <1>3
<1>5. Selected(refs, LAMBDA ref : Receives(r, Lpdus(r)[ref.pos])) = Chosen(refs, I)
  BY <1>4 DEF Selected, Chosen
<1>6. I \in SUBSET DOMAIN refs
  BY DEF I
<1> HIDE DEF refs
<1>7. Chosen(refs, I) \in Seq({refs[i] : i \in I})
  BY <1>2, <1>6, ChosenType
<1> QED
  BY <1>2, <1>5, <1>7 DEF refs, I

LEMMA FrameRefsType ==
  ASSUME NEW n, NEW r \in Replica(n), NEW tx \in DOMAIN Lpdus(r)
  PROVE  FrameRefs(r, tx) \in Seq(Ref)
<1> DEFINE refs == [i \in DOMAIN Lpdus(r) |-> [slot |-> r.engine.slot, pos |-> i]]
           I == {i \in DOMAIN Lpdus(r) : Receives(r, Lpdus(r)[i])}
           first == IF InformsOf(r, tx) THEN <<refs[tx]>> ELSE <<>>
<1>1. r.engine.slot \in Slot
  BY LpduAt
<1>2. refs \in Seq(Ref) /\ Chosen(refs, I) \in Seq({refs[i] : i \in I})
  BY <1>1, ReceiverRefs
<1>3. refs[tx] \in Ref /\ {refs[i] : i \in I} \subseteq Ref
  <2>1. DOMAIN refs = DOMAIN Lpdus(r)
    OBVIOUS
  <2> HIDE DEF refs
  <2>2. \A i \in DOMAIN refs : refs[i] \in Ref
    BY <1>2
  <2> QED
    BY <2>1, <2>2
<1>4. FrameRefs(r, tx) = first \o Chosen(refs, I)
  BY <1>1, ReceiverRefs DEF FrameRefs
<1> HIDE DEF refs, I
<1>5. Chosen(refs, I) \in Seq(Ref)
  BY <1>2, <1>3, SubsetOfSeq
<1>6. first \in Seq(Ref)
  BY <1>3
<1> HIDE DEF first
<1> QED
  BY <1>4, <1>5, <1>6

\* A frame, as three changes of the replica.
LEMMA ProcessSlotIs ==
  ASSUME NEW n, NEW r \in Replica(n), TxIndexes(r) # {}
  PROVE  LET tx == Max(TxIndexes(r))
         IN  ProcessSlot(r) =
               [r EXCEPT !.slots = [r.slots EXCEPT ![r.engine.slot] = AfterFrame(r, tx)],
                         !.txrx  = r.txrx \o FrameRefs(r, tx),
                         !.trace = IF Sends(r, tx)
                                   THEN Append(r.trace, [slot |-> r.engine.slot, pos |-> tx])
                                   ELSE r.trace]
<1> DEFINE tx == Max(TxIndexes(r))
           refs == [i \in DOMAIN Lpdus(r) |-> [slot |-> r.engine.slot, pos |-> i]]
           I == {i \in DOMAIN Lpdus(r) : Receives(r, Lpdus(r)[i])}
           first == IF InformsOf(r, tx) THEN <<refs[tx]>> ELSE <<>>
           rest == Selected(refs, LAMBDA ref : Receives(r, Lpdus(r)[ref.pos]))
<1>1. tx \in DOMAIN Lpdus(r) /\ r.engine.slot \in Slot
  BY TxIndexesIs
<1>2. refs[tx] = [slot |-> r.engine.slot, pos |-> tx]
  BY <1>1
<1>3. ProcessSlot(r) =
        [r EXCEPT !.slots[r.engine.slot] = AfterFrame(r, tx),
                  !.txrx  = @ \o first \o rest,
                  !.trace = IF Sends(r, tx) THEN Append(@, refs[tx]) ELSE @]
  BY DEF ProcessSlot
<1>4. FrameRefs(r, tx) = first \o rest
  BY DEF FrameRefs
<1>5. r.txrx \in Seq(Ref)
  BY DEF Replica
<1>6. rest = Chosen(refs, I) /\ Chosen(refs, I) \in Seq({refs[i] : i \in I})
      /\ refs \in Seq(Ref)
  BY <1>1, ReceiverRefs
<1>7. rest \in Seq(Ref) /\ first \in Seq(Ref)
  <2>1. \A i \in DOMAIN refs : refs[i] \in Ref
    BY <1>6
  <2>2. {refs[i] : i \in I} \subseteq Ref
    BY <2>1
  <2>3. first \in Seq(Ref)
    BY <1>1, <2>1
  <2> HIDE DEF rest, refs, I, first
  <2>4. rest \in Seq(Ref)
    BY <1>6, <2>2, SubsetOfSeq
  <2> QED
    BY <2>3, <2>4
<1> HIDE DEF first, rest, refs, tx, I
<1>8. r.txrx \o first \o rest = r.txrx \o (first \o rest)
  <2>1. ASSUME NEW a \in Seq(Ref), NEW b \in Seq(Ref), NEW c \in Seq(Ref)
        PROVE  a \o b \o c = a \o (b \o c)
    BY ConcatIsAssociative
  <2> QED
    BY <1>5, <1>7, <2>1
<1>9. ProcessSlot(r) =
        [r EXCEPT !.slots = [r.slots EXCEPT ![r.engine.slot] = AfterFrame(r, tx)],
                  !.txrx  = r.txrx \o FrameRefs(r, tx),
                  !.trace = IF Sends(r, tx)
                            THEN Append(r.trace, [slot |-> r.engine.slot, pos |-> tx])
                            ELSE r.trace]
  BY <1>2, <1>3, <1>4, <1>8 DEF Replica
<1> QED
  BY <1>9 DEF tx

LEMMA ProcessSlotType ==
  ASSUME NEW n, NEW r \in Replica(n)
  PROVE  ProcessSlot(r) \in Replica(n) /\ ProcessSlot(r).engine = r.engine
<1>1. CASE TxIndexes(r) = {}
  BY <1>1 DEF ProcessSlot
<1>2. CASE TxIndexes(r) # {}
  <2> DEFINE tx == Max(TxIndexes(r))
             slots == [r.slots EXCEPT ![r.engine.slot] = AfterFrame(r, tx)]
             txrx == r.txrx \o FrameRefs(r, tx)
             trace == IF Sends(r, tx)
                      THEN Append(r.trace, [slot |-> r.engine.slot, pos |-> tx])
                      ELSE r.trace
  <2>1. tx \in DOMAIN Lpdus(r) /\ r.engine.slot \in Slot
    BY <1>2, TxIndexesIs
  <2>2. ProcessSlot(r) = [r EXCEPT !.slots = slots, !.txrx = txrx, !.trace = trace]
    BY <1>2, ProcessSlotIs
  <2>3. AfterFrame(r, tx) \in Seq(LpduIn(r.engine.slot))
    BY <2>1, AfterFrameType
  <2>4. FrameRefs(r, tx) \in Seq(Ref)
    BY <2>1, FrameRefsType
  <2>5. [slot |-> r.engine.slot, pos |-> tx] \in Ref
    <3>1. tx \in Nat
      BY <2>1, LpdusLen
    <3> QED
      BY <2>1, <3>1 DEF Ref
  <2> HIDE DEF tx
  <2>6. slots \in SlotMap
    <3>1. r.slots \in SlotMap
      BY DEF Replica
    <3>2. LpduIn(r.engine.slot) \subseteq LpduType
      BY DEF LpduIn
    <3>3. AfterFrame(r, tx) \in Seq(LpduType)
      BY <2>3, <3>2, SubsetOfSeq
    <3> QED
      BY <2>3, <3>1, <3>3 DEF SlotMap
  <2>7. txrx \in Seq(Ref) /\ trace \in Seq(Ref)
    BY <2>4, <2>5 DEF Replica
  <2> HIDE DEF slots, txrx, trace
  <2> QED
    BY <2>2, <2>6, <2>7 DEF Replica
<1> QED
  BY <1>1, <1>2

LEMMA MinislotsIs ==
  ASSUME NEW n, NEW r \in Replica(n)
  PROVE  Minislots(r) \in Nat \ {0}
<1>1. CASE InDynamic(r.engine) /\ PendingTx(r) # 0
  <2> DEFINE I == {i \in 1 .. Len(Lpdus(r)) : Lpdus(r)[i].dir = "Tx"
                                              /\ Lpdus(r)[i].status = "NotTransmitted"}
  <2>1. PendingTx(r) = IF I # {} THEN Max(I) ELSE 0
    BY DEF PendingTx, SelectLastInSeq
  <2>2. Len(Lpdus(r)) \in Nat /\ DOMAIN Lpdus(r) = 1 .. Len(Lpdus(r))
    BY LpdusLen
  <2>3. I \in SUBSET (1 .. Len(Lpdus(r)))
    OBVIOUS
  <2> HIDE DEF I
  <2>4. PendingTx(r) \in DOMAIN Lpdus(r)
    BY <1>1, <2>1, <2>2, <2>3, MaxIs
  <2> DEFINE len == Lpdus(r)[PendingTx(r)].len
             bits == HeaderBits + 8 * len + BitsPerMinislot - 1
  <2>5. len \in Nat \ {0}
    BY <2>4, LpduAt, LpduInType
  <2> HIDE DEF len
  <2>6. bits \in Nat /\ BitsPerMinislot <= bits
    BY <2>5, BusModelAssumption
  <2> HIDE DEF bits
  <2>7. bits \div BitsPerMinislot \in Nat \ {0}
    BY <2>6, BusModelAssumption, QuotientIsPositive
  <2>8. Minislots(r) = bits \div BitsPerMinislot
    BY <1>1 DEF Minislots, MinislotCount, bits, len
  <2> QED
    BY <2>7, <2>8
<1>2. CASE ~(InDynamic(r.engine) /\ PendingTx(r) # 0)
  BY <1>2 DEF Minislots
<1> QED
  BY <1>1, <1>2

\* The slots that are left in the budget of a step, and one for the end of a
\* cycle, which may take nothing.
Measure(e) == 2 * e.ut + (IF AtCycleEnd(e) THEN 1 ELSE 0)

LEMMA MeasureIs ==
  ASSUME NEW e \in Engine
  PROVE  /\ Measure(e) \in Nat
         /\ AtCycleEnd(e) => Measure(e) = 2 * e.ut + 1
         /\ ~AtCycleEnd(e) => Measure(e) = 2 * e.ut
BY DEF Measure, Engine

LEMMA ConsumeBusSlotType ==
  ASSUME NEW n, NEW r \in Replica(n), HasBudget(r)
  PROVE  /\ ConsumeBusSlot(r) \in Replica(n)
         /\ OffsetNetwork > 0 => Measure(ConsumeBusSlot(r).engine) < Measure(r.engine)
<1> DEFINE k == Minislots(r)
<1>1. r.engine \in Engine /\ k \in Nat \ {0} /\ CanConsume(r.engine, k)
  BY MinislotsIs DEF Replica, HasBudget
<1>2. CASE AtCycleEnd(r.engine)
  <2> DEFINE e == ConsumeCycleEnd(r.engine)
  <2>1. OffsetNetwork > 0 => ~AtCycleEnd(e)
    BY <1>1, <1>2, ConsumeCycleEndType
  <2>2. e \in Engine /\ e.ut <= r.engine.ut
    BY <1>1, <1>2, ConsumeCycleEndType
  <2>3. ConsumeBusSlot(r) = [r EXCEPT !.engine = e]
    BY <1>2 DEF ConsumeBusSlot
  <2> HIDE DEF e
  <2>4. ConsumeBusSlot(r) \in Replica(n) /\ ConsumeBusSlot(r).engine = e
    BY <2>2, <2>3 DEF Replica
  <2>5. OffsetNetwork > 0 => Measure(e) < Measure(r.engine)
    BY <1>1, <1>2, <2>1, <2>2 DEF Measure, Engine
  <2> QED
    BY <2>4, <2>5
<1>3. CASE ~AtCycleEnd(r.engine)
  <2> DEFINE busy == InStatic(r.engine) \/ PendingTx(r) # 0
             q == IF busy THEN ProcessSlot(r) ELSE r
             e == ConsumeSlot(r.engine, k)
  <2>1. q \in Replica(n) /\ q.engine = r.engine
    BY ProcessSlotType
  <2>2. e \in Engine /\ e.ut < r.engine.ut
    BY <1>1, <1>3, ConsumeSlotType
  <2>3. ConsumeBusSlot(r) = [q EXCEPT !.engine = ConsumeSlot(q.engine, k)]
    BY <1>3 DEF ConsumeBusSlot
  <2> HIDE DEF q, k, busy
  <2>4. ConsumeBusSlot(r) = [q EXCEPT !.engine = e]
    BY <2>1, <2>3
  <2> HIDE DEF e
  <2>5. ConsumeBusSlot(r) \in Replica(n) /\ ConsumeBusSlot(r).engine = e
    BY <2>1, <2>2, <2>4 DEF Replica
  <2>6. Measure(e) < Measure(r.engine)
    BY <1>1, <2>2 DEF Measure, Engine
  <2> QED
    BY <2>5, <2>6
<1> QED
  BY <1>2, <1>3

-----------------------------------------------------------------------------
(***************************************************************************)
(* The loop over the slots.                                                *)
(***************************************************************************)

NextSlot(q, i) == IF HasBudget(q) THEN ConsumeBusSlot(q) ELSE q

Slots == INSTANCE SequenceInduction WITH Op <- NextSlot

Turns(r) == [i \in 1 .. 2 * r.engine.ut + 1 |-> i]

LEMMA SlotsIsFold ==
  ASSUME NEW r
  PROVE  ConsumeSlots(r) = Slots!Fold(r, Turns(r))
BY DEF ConsumeSlots, Turns, NextSlot, Slots!Fold, Slots!FoldLeft, FoldLeft,
       Slots!MapThenFoldSet, MapThenFoldSet, Slots!Max, Max

LEMMA TurnsType ==
  ASSUME NEW n, NEW r \in Replica(n)
  PROVE  /\ 2 * r.engine.ut + 1 \in Nat
         /\ Turns(r) \in Seq(Nat) /\ DOMAIN Turns(r) = 1 .. 2 * r.engine.ut + 1
BY DEF Turns, Replica, Engine

LEMMA NextSlotType ==
  ASSUME NEW n, NEW r \in Replica(n), NEW i
  PROVE  NextSlot(r, i) \in Replica(n)
BY ConsumeBusSlotType DEF NextSlot

LEMMA ConsumeSlotsType ==
  ASSUME NEW n, NEW r \in Replica(n)
  PROVE  ConsumeSlots(r) \in Replica(n)
<1>1. \A q \in Replica(n), i \in Nat : NextSlot(q, i) \in Replica(n)
  BY NextSlotType
<1>2. Slots!Fold(r, Turns(r)) \in Replica(n)
  BY <1>1, TurnsType, Slots!FoldStaysIn
<1> QED
  BY <1>2, SlotsIsFold

\* The bound of the loop is no bound: it ends for want of budget.
LEMMA LoopEnds ==
  ASSUME NEW n, NEW r \in Replica(n), OffsetNetwork > 0
  PROVE  ~HasBudget(ConsumeSlots(r))
<1>1. PICK k \in Nat : k = 2 * r.engine.ut + 1 /\ DOMAIN Turns(r) = 1 .. k
  BY TurnsType
<1>2. PICK f : Slots!Results(f, k, r, Turns(r)) /\ Slots!Fold(r, Turns(r)) = f[k]
  BY <1>1, Slots!FoldIsLastResult
<1> DEFINE I == {i \in 0 .. k : /\ f[i] \in Replica(n)
                                /\ HasBudget(f[i]) =>
                                     Measure(f[i].engine) + i <= Measure(r.engine)}
<1>3. 0 \in I
  <2>1. f[0] = r
    BY <1>2 DEF Slots!Results
  <2>2. Measure(r.engine) \in Nat
    BY DEF Measure, Replica, Engine
  <2> QED
    BY <2>1, <2>2
<1>4. ASSUME NEW i \in 0 .. k - 1, i \in I PROVE i + 1 \in I
  <2>1. i + 1 \in 0 .. k /\ i + 1 # 0 /\ (i + 1) - 1 = i
    OBVIOUS
  <2>2. f[i + 1] = NextSlot(f[i], Turns(r)[i + 1])
    BY <1>2, <2>1 DEF Slots!Results
  <2>3. f[i] \in Replica(n) /\ f[i + 1] \in Replica(n)
    BY <1>4, <2>2, NextSlotType
  <2>4. ASSUME HasBudget(f[i + 1])
        PROVE  Measure(f[i + 1].engine) + (i + 1) <= Measure(r.engine)
    <3>1. HasBudget(f[i]) /\ f[i + 1] = ConsumeBusSlot(f[i])
      BY <2>2, <2>4 DEF NextSlot
    <3>2. Measure(f[i + 1].engine) < Measure(f[i].engine)
      BY <2>3, <3>1, ConsumeBusSlotType
    <3>3. Measure(f[i].engine) + i <= Measure(r.engine)
      BY <1>4, <3>1
    <3>4. /\ Measure(f[i + 1].engine) \in Nat /\ Measure(f[i].engine) \in Nat
          /\ Measure(r.engine) \in Nat
      BY <2>3, MeasureIs DEF Replica
    <3> QED
      BY <3>2, <3>3, <3>4
  <2> QED
    BY <2>1, <2>3, <2>4
<1>5. k \in I
  <2>1. k \in 0 .. k
    OBVIOUS
  <2> HIDE DEF I
  <2> QED
    BY <1>3, <1>4, <2>1, Reading!UpTo
<1>6. ASSUME HasBudget(f[k]) PROVE FALSE
  <2> DEFINE e == f[k].engine
  <2>1. f[k] \in Replica(n) /\ e \in Engine /\ r.engine \in Engine
    BY <1>5 DEF Replica
  <2>2. Measure(e) + k <= Measure(r.engine)
    BY <1>5, <1>6
  <2>3. CanConsume(e, Minislots(f[k])) /\ Minislots(f[k]) \in Nat \ {0}
    BY <1>6, <2>1, MinislotsIs DEF HasBudget
  <2> HIDE DEF e
  <2>4. e.ut = 0 /\ ~AtCycleEnd(e)
    <3>1. e.ut \in Nat /\ r.engine.ut \in Nat
      BY <2>1 DEF Engine
    <3>2. Measure(e) \in Nat /\ Measure(r.engine) \in Nat /\ Measure(r.engine) <= k
      BY <1>1, <2>1, <3>1, MeasureIs
    <3>3. Measure(e) = 0
      BY <2>2, <3>2
    <3> QED
      BY <2>1, <3>1, <3>3, MeasureIs
  <2>5. ConsumeSlot(e, Minislots(f[k])) \in Engine
        /\ ConsumeSlot(e, Minislots(f[k])).ut < e.ut
    BY <2>1, <2>3, <2>4, ConsumeSlotType
  <2> QED
    BY <2>4, <2>5 DEF Engine
<1> QED
  BY <1>2, <1>6, SlotsIsFold

-----------------------------------------------------------------------------
(***************************************************************************)
(* Consuming PDUs, and progressing.                                        *)
(***************************************************************************)

LEMMA ZeroReplicaType ==
  ASSUME NEW n \in Node
  PROVE  ZeroReplica(n) \in Replica(n)
<1>1. [s \in Slot |-> <<>>] \in SlotMap
  <2>1. <<>> \in Seq(LpduType) /\ \A s \in Slot : <<>> \in Seq(LpduIn(s))
    OBVIOUS
  <2> QED
    BY <2>1 DEF SlotMap
<1> DEFINE slots == [s \in Slot |-> <<>>]
<1> HIDE DEF slots
<1>2. ZeroReplica(n) = [node |-> n, engine |-> ZeroEngine, st |-> ZeroState, slots |-> slots,
                        txrx |-> <<>>, trace |-> <<>>, inhibit |-> FALSE]
  BY DEF ZeroReplica, slots
<1> QED
  BY <1>1, <1>2, ZeroEngineType, ZeroStateType DEF Replica, slots

LEMMA MovedType ==
  ASSUME NEW refs \in Seq(Ref), NEW slots
  PROVE  Moved(refs, slots) \in Seq(Ref)
<1>1. ASSUME NEW i \in DOMAIN refs PROVE refs[i] \in Ref /\ [refs[i] EXCEPT !.pos = 0] \in Ref
  <2>1. refs[i] \in Ref
    OBVIOUS
  <2> QED
    BY <2>1 DEF Ref
<1> QED
  BY <1>1 DEF Moved

\* The LPDUs of a table that go to a slot.
TableOf(table, s) == Selected(table, LAMBDA l : l.slot = s)

LEMMA TableOfType ==
  ASSUME NEW table \in Seq(LpduType), NEW s \in Slot,
         \A i \in DOMAIN table : table[i].payload = NoPayload
  PROVE  /\ TableOf(table, s) = Chosen(table, {i \in DOMAIN table : table[i].slot = s})
         /\ TableOf(table, s) \in Seq(LpduIn(s))
<1> DEFINE I == {i \in DOMAIN table : table[i].slot = s}
<1>1. TableOf(table, s) = Chosen(table, I)
  <2>1. [i \in DOMAIN table |-> IF table[i].slot = s THEN <<table[i]>> ELSE <<>>]
          = [i \in DOMAIN table |-> IF i \in I THEN <<table[i]>> ELSE <<>>]
    OBVIOUS
  <2> QED
    BY <2>1 DEF TableOf, Selected, Chosen
<1>2. \A i \in I : table[i] \in LpduIn(s)
  BY DEF LpduIn
<1>3. I \in SUBSET DOMAIN table
  OBVIOUS
<1> HIDE DEF I
<1>4. Chosen(table, I) \in Seq({table[i] : i \in I}) /\ {table[i] : i \in I} \subseteq LpduIn(s)
  BY <1>2, <1>3, ChosenType
<1>5. Chosen(table, I) \in Seq(LpduIn(s))
  BY <1>4, SubsetOfSeq
<1> QED
  BY <1>1, <1>5 DEF I

LEMMA ProcessConfigType ==
  ASSUME NEW n, NEW r \in Replica(n), NEW p \in Packet, p.type = "Config"
  PROVE  ProcessConfig(r, p) \in Replica(n)
<1>1. /\ p \in ConfigPdus /\ \A i \in DOMAIN p.table : p.table[i].payload = NoPayload
  BY DEF Packet, ConfigPdus, StatusPdus, LpduPdus
<1>2. p.table \in Seq(LpduType) /\ p.inhibit \in BOOLEAN
  BY <1>1 DEF ConfigPdus
<1>3. CASE ~p.accepted
  BY <1>3 DEF ProcessConfig
<1>4. CASE p.accepted
  <2> DEFINE grows == {p.table[i].slot : i \in DOMAIN p.table}
             engine == ConfigurePosition(r.engine)
             slots == [s \in Slot |-> r.slots[s] \o TableOf(p.table, s)]
             txrx == Moved(r.txrx, grows)
             trace == Moved(r.trace, grows)
  <2>1. ProcessConfig(r, p) = [r EXCEPT !.engine = engine, !.slots = slots, !.txrx = txrx,
                                        !.trace = trace, !.inhibit = p.inhibit]
    BY <1>4 DEF ProcessConfig, Replica, TableOf
  <2> HIDE DEF grows
  <2>2. engine \in Engine /\ txrx \in Seq(Ref) /\ trace \in Seq(Ref)
    BY MovedType, ConfigurePositionType DEF Replica
  <2>3. slots \in SlotMap
    <3>1. ASSUME NEW s \in Slot PROVE slots[s] \in Seq(LpduType) /\ slots[s] \in Seq(LpduIn(s))
      <4>1. r.slots[s] \in Seq(LpduIn(s)) /\ TableOf(p.table, s) \in Seq(LpduIn(s))
        BY <1>1, <1>2, TableOfType DEF Replica, SlotMap
      <4>2. slots[s] \in Seq(LpduIn(s))
        BY <4>1
      <4>3. LpduIn(s) \subseteq LpduType
        BY DEF LpduIn
      <4> QED
        BY <4>2, <4>3, SubsetOfSeq
    <3> QED
      BY <3>1 DEF SlotMap
  <2> HIDE DEF engine, slots, txrx, trace
  <2>4. [r EXCEPT !.engine = engine, !.slots = slots, !.txrx = txrx,
                  !.trace = trace, !.inhibit = p.inhibit] \in Replica(n)
    BY <1>2, <2>2, <2>3 DEF Replica
  <2> QED
    BY <2>1, <2>4
<1> QED
  BY <1>3, <1>4

LEMMA ConsumeConfigType ==
  ASSUME NEW n, NEW r \in Replica(n), NEW p \in Packet, p.type = "Config"
  PROVE  ConsumeConfig(r, p) \in Replica(n)
<1>1. p.node \in Node /\ p.vcns = {} /\ p.poc \in PocState
  BY DEF Packet, ConfigPdus, StatusPdus, LpduPdus
<1> DEFINE q == ProcessConfig(r, p)
           st == SetPocState(RegisterNode(RegisterVcn(q.st, {}), p.node, "on"), p.node, p.poc)
<1>2. q \in Replica(n)
  BY ProcessConfigType
<1>3. ConsumeConfig(r, p) = [q EXCEPT !.st = st]
  BY <1>1 DEF ConsumeConfig
<1> HIDE DEF q
<1>4. q.st \in NodeStates
  BY <1>2 DEF Replica
<1>5. st \in NodeStates
  BY <1>1, <1>4, ConfigureType
<1> HIDE DEF st
<1> QED
  BY <1>2, <1>3, <1>5 DEF Replica

\* The indexes that are kept when a node is brought to DefaultConfig.
Others(s, n) == {i \in DOMAIN s : EcuOf[s[i].node] # EcuOf[n]}

LEMMA DropLpdusIs ==
  ASSUME NEW m, NEW r \in Replica(m), NEW n
  PROVE  /\ DropLpdus(r, n) =
              [r EXCEPT !.slots = [s \in Slot |-> Chosen(r.slots[s], Others(r.slots[s], n))]]
         /\ DropLpdus(r, n) \in Replica(m)
<1> DEFINE slots == [s \in Slot |-> Chosen(r.slots[s], Others(r.slots[s], n))]
<1>1. ASSUME NEW s \in Slot
      PROVE  /\ Selected(r.slots[s], LAMBDA l : EcuOf[l.node] # EcuOf[n]) = slots[s]
             /\ slots[s] \in Seq(LpduIn(s))
  <2> DEFINE t == r.slots[s]
             I == Others(t, n)
  <2>1. t \in Seq(LpduIn(s))
    BY DEF Replica, SlotMap
  <2>2. slots[s] = Chosen(t, I)
    OBVIOUS
  <2> HIDE DEF slots
  <2>3. [i \in DOMAIN t |-> IF EcuOf[t[i].node] # EcuOf[n] THEN <<t[i]>> ELSE <<>>]
          = [i \in DOMAIN t |-> IF i \in I THEN <<t[i]>> ELSE <<>>]
    BY DEF Others
  <2>4. Selected(t, LAMBDA l : EcuOf[l.node] # EcuOf[n]) = Chosen(t, I)
    BY <2>3 DEF Selected, Chosen
  <2>5. I \in SUBSET DOMAIN t
    BY DEF Others
  <2> HIDE DEF t, I
  <2>6. Chosen(t, I) \in Seq({t[i] : i \in I}) /\ {t[i] : i \in I} \subseteq LpduIn(s)
    BY <2>1, <2>5, ChosenType
  <2>7. Chosen(t, I) \in Seq(LpduIn(s))
    BY <2>6, SubsetOfSeq
  <2> QED
    BY <2>2, <2>4, <2>7 DEF t
<1>2. DropLpdus(r, n) = [r EXCEPT !.slots = slots]
  <2>1. DropLpdus(r, n) =
          [r EXCEPT !.slots = [s \in Slot |-> Selected(r.slots[s], LAMBDA l : EcuOf[l.node] # EcuOf[n])]]
    BY DEF DropLpdus, Replica
  <2>2. [s \in Slot |-> Selected(r.slots[s], LAMBDA l : EcuOf[l.node] # EcuOf[n])]
          = [s \in Slot |-> slots[s]]
    BY <1>1
  <2>3. [s \in Slot |-> slots[s]] = slots
    OBVIOUS
  <2> QED
    BY <2>1, <2>2, <2>3
<1>3. slots \in SlotMap
  <2>1. \A s \in Slot : slots[s] \in Seq(LpduType)
    <3>1. \A s \in Slot : LpduIn(s) \subseteq LpduType
      BY DEF LpduIn
    <3> QED
      BY <1>1, <3>1, SubsetOfSeq
  <2> QED
    BY <1>1, <2>1 DEF SlotMap
<1>4. [r EXCEPT !.slots = slots] \in Replica(m)
  <2> HIDE DEF slots
  <2> QED
    BY <1>3 DEF Replica
<1> QED
  BY <1>2, <1>4

LEMMA ConsumeStatusType ==
  ASSUME NEW n, NEW r \in Replica(n), NEW p \in Packet, p.type = "Status"
  PROVE  ConsumeStatus(r, p) \in Replica(n)
<1>1. p.node \in Node
  BY DEF Packet, ConfigPdus, StatusPdus, LpduPdus
<1> DEFINE enters == /\ p.node \in r.st.known
                     /\ EntersDefaultConfig(r.st.poc[p.node], p.command)
           q == IF enters THEN DropLpdus(r, p.node) ELSE r
<1>2. q \in Replica(n)
  BY DropLpdusIs
<1>3. ConsumeStatus(r, p) = [q EXCEPT !.st = PushNodeState(q.st, p.node, p.command)]
  BY DEF ConsumeStatus
<1> HIDE DEF q
<1>4. PushNodeState(q.st, p.node, p.command) \in NodeStates
  BY <1>1, <1>2, PushNodeStateType DEF Replica
<1> QED
  BY <1>2, <1>3, <1>4 DEF Replica

\* The LPDU that is set.
Target(r, p) ==
  SelectInSeq(r.slots[p.slot], LAMBDA l : l.node = p.node /\ l.frame = p.frame)

LEMMA TargetIs ==
  ASSUME NEW n, NEW r \in Replica(n), NEW p \in LpduPdus, Target(r, p) # 0
  PROVE  /\ Target(r, p) \in DOMAIN r.slots[p.slot]
         /\ r.slots[p.slot][Target(r, p)].node = p.node
         /\ r.slots[p.slot][Target(r, p)].frame = p.frame
<1> DEFINE t == r.slots[p.slot]
           I == {i \in 1 .. Len(t) : t[i].node = p.node /\ t[i].frame = p.frame}
<1>1. p.slot \in Slot
  BY DEF LpduPdus
<1>2. DOMAIN t = 1 .. Len(t) /\ Len(t) \in Nat
  BY <1>1 DEF Replica, SlotMap
<1>3. Target(r, p) = IF I # {} THEN Min(I) ELSE 0
  BY DEF Target, SelectInSeq
<1>4. I \in SUBSET Nat
  BY <1>2
<1> HIDE DEF I
<1>5. Target(r, p) \in I
  BY <1>3, <1>4, Reading!LeastOf DEF Min
<1> QED
  BY <1>2, <1>5 DEF I

LEMMA SetLpduType ==
  ASSUME NEW s \in Slot, NEW l \in LpduIn(s), NEW p \in LpduPdus
  PROVE  SetLpdu(l, p) \in LpduIn(s)
<1> DEFINE payload == IF l.dir = "Tx" THEN Fit(p.payload, l.len) ELSE l.payload
           q == [l EXCEPT !.status = p.status]
<1>1. p.status \in LpduStatus /\ p.payload \in Seq(Nat)
  BY DEF LpduPdus
<1>2. /\ l.payload \in Seq(Nat) /\ l.len \in Nat \ {0}
      /\ l.payload = NoPayload \/ Len(l.payload) = l.len
  BY LpduInType DEF LpduIn
<1>3. payload \in Seq(Nat) /\ (payload = NoPayload \/ Len(payload) = l.len)
  BY <1>1, <1>2, FitIs
<1>4. q \in LpduIn(s) /\ q.len = l.len
  BY <1>1 DEF LpduIn, LpduType
<1>5. SetLpdu(l, p) = [q EXCEPT !.payload = payload]
  BY DEF SetLpdu
<1> HIDE DEF payload, q
<1>6. [q EXCEPT !.payload = payload] \in LpduIn(s)
  BY <1>3, <1>4 DEF LpduIn, LpduType
<1> QED
  BY <1>5, <1>6

LEMMA ConsumeLpduIs ==
  ASSUME NEW n, NEW r \in Replica(n), NEW p \in LpduPdus
  PROVE  LET t == r.slots[p.slot]
             i == Target(r, p)
         IN  ConsumeLpdu(r, p) =
               IF i = 0 THEN r
               ELSE [r EXCEPT !.slots =
                       [r.slots EXCEPT ![p.slot] = [t EXCEPT ![i] = SetLpdu(t[i], p)]]]
<1> DEFINE t == r.slots[p.slot]
           i == Target(r, p)
<1>1. CASE i = 0
  BY <1>1 DEF ConsumeLpdu, Target
<1>2. CASE i # 0
  <2>1. i \in DOMAIN t /\ p.slot \in Slot
    BY <1>2, TargetIs DEF LpduPdus
  <2>2. p.slot \in DOMAIN r.slots /\ "slots" \in DOMAIN r
    BY <2>1 DEF Replica, SlotMap
  <2>3. ConsumeLpdu(r, p) = [r EXCEPT !.slots[p.slot][i] = SetLpdu(@, p)]
    BY <1>2 DEF ConsumeLpdu, Target
  <2> HIDE DEF i
  <2>4. [r EXCEPT !.slots[p.slot][i] = SetLpdu(@, p)]
          = [r EXCEPT !.slots = [r.slots EXCEPT ![p.slot] = [t EXCEPT ![i] = SetLpdu(t[i], p)]]]
    OBVIOUS
  <2>5. ConsumeLpdu(r, p) =
          [r EXCEPT !.slots = [r.slots EXCEPT ![p.slot] = [t EXCEPT ![i] = SetLpdu(t[i], p)]]]
    BY <2>3, <2>4
  <2> QED
    BY <1>2, <2>5 DEF i
<1> QED
  BY <1>1, <1>2

LEMMA ConsumeLpduType ==
  ASSUME NEW n, NEW r \in Replica(n), NEW p \in LpduPdus
  PROVE  ConsumeLpdu(r, p) \in Replica(n)
<1> DEFINE t == r.slots[p.slot]
           i == Target(r, p)
           slots == [r.slots EXCEPT ![p.slot] = [t EXCEPT ![i] = SetLpdu(t[i], p)]]
<1>1. CASE i = 0
  BY <1>1, ConsumeLpduIs
<1>2. CASE i # 0
  <2>1. p.slot \in Slot /\ i \in DOMAIN t
    BY <1>2, TargetIs DEF LpduPdus
  <2>2. t \in Seq(LpduIn(p.slot))
    BY <2>1 DEF Replica, SlotMap
  <2>3. SetLpdu(t[i], p) \in LpduIn(p.slot)
    BY <2>1, <2>2, SetLpduType
  <2> HIDE DEF i
  <2>4. [t EXCEPT ![i] = SetLpdu(t[i], p)] \in Seq(LpduIn(p.slot))
    <3> DEFINE x == SetLpdu(t[i], p)
    <3> HIDE DEF t, x
    <3>1. [t EXCEPT ![i] = x] \in Seq(LpduIn(p.slot))
      BY <2>1, <2>2, <2>3 DEF x
    <3> QED
      BY <3>1 DEF x
  <2>5. LpduIn(p.slot) \subseteq LpduType
    BY DEF LpduIn
  <2>6. [t EXCEPT ![i] = SetLpdu(t[i], p)] \in Seq(LpduType)
    BY <2>4, <2>5, SubsetOfSeq
  <2>7. slots \in SlotMap
    <3> DEFINE u == [t EXCEPT ![i] = SetLpdu(t[i], p)]
    <3> HIDE DEF u
    <3>1. [r.slots EXCEPT ![p.slot] = u] \in SlotMap
      BY <2>1, <2>4, <2>6 DEF Replica, SlotMap, u
    <3> QED
      BY <3>1 DEF u
  <2>8. ConsumeLpdu(r, p) = [r EXCEPT !.slots = slots]
    BY <1>2, ConsumeLpduIs DEF i
  <2> HIDE DEF slots
  <2> QED
    BY <2>7, <2>8 DEF Replica
<1> QED
  BY <1>1, <1>2

LEMMA ConsumeType ==
  ASSUME NEW n, NEW r \in Replica(n), NEW p \in Packet
  PROVE  Consume(r, p) \in Replica(n)
<1>1. CASE p.type = "Config"
  BY <1>1, ConsumeConfigType DEF Consume
<1>2. CASE p.type = "Status"
  BY <1>2, ConsumeStatusType DEF Consume
<1>3. CASE p.type = "Lpdu"
  <2>1. p \in LpduPdus
    BY <1>3 DEF Packet, ConfigPdus, StatusPdus
  <2> QED
    BY <1>3, <2>1, ConsumeLpduType DEF Consume
<1> QED
  BY <1>1, <1>2, <1>3 DEF Packet, ConfigPdus, StatusPdus, LpduPdus

\* The parts of Progress().
LEMMA ProgressIs ==
  ASSUME NEW n, NEW r \in Replica(n)
  PROVE  LET from  == CHOOSE f \in Starts : TRUE
             q     == [r EXCEPT !.st = CalculateBusCondition(r.st, from)]
             begun == BeginBusStep(q, StepUt)
         IN  /\ q \in Replica(n) /\ begun \in Replica(n)
             /\ Progress(r) = IF Synchronised(begun) THEN ConsumeSlots(begun) ELSE begun
<1> DEFINE from  == CHOOSE f \in Starts : TRUE
           cond  == CalculateBusCondition(r.st, from)
           q     == [r EXCEPT !.st = cond]
           begun == BeginBusStep(q, StepUt)
<1>1. q \in Replica(n)
  <2>1. cond \in NodeStates
    BY CalculateBusConditionType DEF Replica
  <2> HIDE DEF cond
  <2> QED
    BY <2>1 DEF Replica
<1>2. Progress(r) = IF Synchronised(begun) THEN ConsumeSlots(begun) ELSE begun
  BY DEF Progress
<1> HIDE DEF q
<1>3. begun \in Replica(n)
  <2>1. CalculateBudget(q.engine, StepUt) \in Engine
    BY <1>1, CalculateBudgetType DEF Replica
  <2> DEFINE e == CalculateBudget(q.engine, StepUt)
             a == [q EXCEPT !.engine = e, !.txrx = <<>>, !.trace = <<>>]
  <2>2. begun = IF Synchronised(q) THEN a ELSE q
    BY DEF BeginBusStep
  <2> HIDE DEF e
  <2>3. a \in Replica(n)
    <3>1. e \in Engine /\ <<>> \in Seq(Ref)
      BY <2>1 DEF e
    <3> QED
      BY <1>1, <3>1 DEF Replica
  <2> HIDE DEF begun, a
  <2> QED
    BY <1>1, <2>2, <2>3
<1> QED
  BY <1>1, <1>2, <1>3 DEF q

LEMMA ProgressType ==
  ASSUME NEW n, NEW r \in Replica(n)
  PROVE  Progress(r) \in Replica(n)
BY ProgressIs, ConsumeSlotsType

-----------------------------------------------------------------------------
(***************************************************************************)
(* What a node reads, and what it writes.                                  *)
(***************************************************************************)

LEMMA ReadingIsFold ==
  ASSUME NEW r, NEW pdus
  PROVE  FoldLeft(Consume, r, pdus) = Reading!Fold(r, pdus)
BY DEF Reading!Fold, Reading!FoldLeft, FoldLeft, Reading!MapThenFoldSet, MapThenFoldSet,
       Reading!Max, Max

LEMMA ReadingType ==
  ASSUME NEW n, NEW r \in Replica(n), NEW pdus \in Seq(Packet)
  PROVE  FoldLeft(Consume, r, pdus) \in Replica(n)
<1>1. \A q \in Replica(n), p \in Packet : Consume(q, p) \in Replica(n)
  BY ConsumeType
<1>2. Reading!Fold(r, pdus) \in Replica(n)
  BY <1>1, Reading!FoldStaysIn
<1> QED
  BY <1>2, ReadingIsFold

Output ==
  [poc : PocState, tcvr : TcvrState, lpdus : Seq(EmittedPdu \union {UnpredictablePdu})]

LEMMA LpduPduType ==
  ASSUME NEW l \in LpduType
  PROVE  LpduPdu(l) \in EmittedPdu
<1>1. EmittedStatus(l) \in LpduStatus
  BY DEF EmittedStatus, LpduStatus
<1>2. (IF l.dir = "Rx" /\ ~l.null THEN l.payload ELSE NoPayload) \in Seq(Nat)
  BY DEF LpduType, NoPayload
<1> DEFINE payload == IF l.dir = "Rx" /\ ~l.null THEN l.payload ELSE NoPayload
<1>3. LpduPdu(l) = [slot |-> l.slot, frame |-> l.frame, status |-> EmittedStatus(l),
                    null |-> l.null, cycle |-> l.cycle, mt |-> l.mt, payload |-> payload]
  BY DEF LpduPdu
<1>4. payload \in Seq(Nat)
  BY <1>2
<1> HIDE DEF payload
<1> QED
  BY <1>1, <1>3, <1>4 DEF LpduType, EmittedPdu

\* A part of a sequence is a sequence of the same elements.
LEMMA ChosenIsPart ==
  ASSUME NEW S, NEW s \in Seq(S), NEW I \in SUBSET DOMAIN s
  PROVE  Chosen(s, I) \in Seq(S)
<1>1. \A i \in DOMAIN s : s[i] \in S
  OBVIOUS
<1> DEFINE T == {s[i] : i \in I}
<1>2. T \subseteq S
  BY <1>1
<1>3. Chosen(s, I) \in Seq(T)
  BY ChosenType
<1> HIDE DEF T
<1> QED
  BY <1>2, <1>3, SubsetOfSeq

LEMMA EmitType ==
  ASSUME NEW n \in Node, NEW r \in Replica(n)
  PROVE  Emit(r) \in Output
<1> DEFINE all == [i \in DOMAIN r.txrx |-> EmitRef(r, r.txrx[i])]
           T == EmittedPdu \union {UnpredictablePdu}
           I == {i \in DOMAIN all : all[i].status # "None"}
<1>1. ASSUME NEW ref \in Ref
      PROVE  EmitRef(r, ref) \in T
  <2>1. ref.slot \in Slot
    BY DEF Ref
  <2>2. r.slots[ref.slot] \in Seq(LpduType)
    BY <2>1 DEF Replica, SlotMap
  <2>3. CASE ref.pos \in DOMAIN r.slots[ref.slot]
    <3>1. r.slots[ref.slot][ref.pos] \in LpduType
      BY <2>2, <2>3
    <3> QED
      BY <2>3, <3>1, LpduPduType DEF EmitRef
  <2>4. CASE ref.pos \notin DOMAIN r.slots[ref.slot]
    BY <2>4 DEF EmitRef
  <2> QED
    BY <2>3, <2>4
<1>2. r.txrx \in Seq(Ref)
  BY DEF Replica
<1>3. all \in Seq(T)
  <2>1. PICK k \in Nat : DOMAIN r.txrx = 1 .. k
    BY <1>2
  <2>2. \A i \in 1 .. k : EmitRef(r, r.txrx[i]) \in T
    BY <1>1, <1>2, <2>1
  <2> HIDE DEF T
  <2> QED
    BY <2>1, <2>2
<1>4. Emit(r).lpdus = FlattenSeq([i \in DOMAIN all |-> IF all[i].status # "None" THEN <<all[i]>> ELSE <<>>])
  BY DEF Emit, Selected
<1> HIDE DEF all, T
<1>5. [i \in DOMAIN all |-> IF all[i].status # "None" THEN <<all[i]>> ELSE <<>>]
        = [i \in DOMAIN all |-> IF i \in I THEN <<all[i]>> ELSE <<>>]
  OBVIOUS
<1>6. I \in SUBSET DOMAIN all
  OBVIOUS
<1> HIDE DEF I
<1>7. Emit(r).lpdus \in Seq(T)
  <2>1. Emit(r).lpdus = Chosen(all, I)
    BY <1>4, <1>5 DEF Chosen
  <2> QED
    BY <1>3, <1>6, <2>1, ChosenIsPart
<1>8. r.st.poc[r.node] \in PocState /\ r.st.tcvr[r.node] \in TcvrState
  BY DEF Replica, NodeStates
<1>9. Emit(r) = [poc |-> r.st.poc[r.node], tcvr |-> r.st.tcvr[r.node], lpdus |-> Emit(r).lpdus]
  BY DEF Emit
<1> DEFINE lpdus == Emit(r).lpdus
<1>10. lpdus \in Seq(T)
  BY <1>7
<1> HIDE DEF lpdus
<1> QED
  BY <1>8, <1>9, <1>10 DEF Output, T, lpdus

AppState == [configured : BOOLEAN, writes : Nat, halts : Nat, refusals : Nat]

\* The types of all variables, also of what TypeOK does not speak of: what is
\* consumed and emitted decides the types of the replicas.
IInvTypes ==
  /\ rep \in [Node -> UNION {Replica(n) : n \in Node}]
  /\ \A n \in Node : rep[n] \in Replica(n)
  /\ out \in [Node -> Output]
  /\ inbox \in Seq(Packet)
  /\ wire \in Seq(Packet)
  /\ todo \in SUBSET Node
  /\ silent \in SUBSET Node
  /\ due \in [Node -> SUBSET (Slot \X Nat)]
  /\ \A n \in Node : due[n] \subseteq Ids(ToSet(FrameTable[n]))
  /\ app \in [Node -> AppState]

TableEntry ==
  [node : Node, slot : Slot, frame : Nat, dir : {"Tx", "Rx"}, rep : Nat, base : Nat,
   continuous : BOOLEAN, inhibit : BOOLEAN, len : Nat \ {0}, status : LpduStatus,
   payload : {NoPayload}, cycle : {0}, mt : {0}, null : {FALSE}]

LEMMA FrameTableType ==
  ASSUME NEW n \in Node
  PROVE  /\ FrameTable[n] \in Seq(TableEntry) /\ FrameTable[n] \in Seq(LpduType)
         /\ \A i \in DOMAIN FrameTable[n] : FrameTable[n][i].payload = NoPayload
         /\ ToSet(FrameTable[n]) \subseteq TableEntry
<1>1. FrameTable[n] \in Seq(TableEntry)
  BY NetworkAssumption DEF TableEntry
<1>2. TableEntry \subseteq LpduType
  <2>1. <<>> \in Seq(Nat)
    OBVIOUS
  <2> DEFINE P == {NoPayload}
             Q == Seq(Nat)
             C == {0}
             F == {FALSE}
             B == BOOLEAN
  <2>2. P \subseteq Q /\ C \subseteq Nat /\ F \subseteq B
    BY <2>1 DEF NoPayload
  <2> SUFFICES ASSUME NEW l \in TableEntry PROVE l \in LpduType
    OBVIOUS
  <2>3. /\ TableEntry = [node : Node, slot : Slot, frame : Nat, dir : {"Tx", "Rx"}, rep : Nat,
                         base : Nat, continuous : BOOLEAN, inhibit : BOOLEAN,
                         len : Nat \ {0}, status : LpduStatus, payload : P,
                         cycle : C, mt : C, null : F]
        /\ LpduType = [node : Node, slot : Slot, frame : Nat, dir : {"Tx", "Rx"}, rep : Nat,
                       base : Nat, continuous : BOOLEAN, inhibit : BOOLEAN,
                       len : Nat \ {0}, status : LpduStatus, payload : Q,
                       cycle : Nat, mt : Nat, null : B]
    BY DEF TableEntry, LpduType
  <2> HIDE DEF P, Q, C, F, B
  <2> QED
    BY <2>2, <2>3
<1>3. FrameTable[n] \in Seq(LpduType)
  BY <1>1, <1>2, SubsetOfSeq
<1>4. \A i \in DOMAIN FrameTable[n] : FrameTable[n][i] \in TableEntry
  BY <1>1
<1>5. \A l \in TableEntry : l.payload = NoPayload
  BY DEF TableEntry
<1> QED
  BY <1>1, <1>3, <1>4, <1>5 DEF ToSet

LEMMA StatusPduType ==
  ASSUME NEW n \in Node, NEW command \in PocCommand
  PROVE  StatusPdu(n, command) \in Packet
BY DEF StatusPdu, Packet, StatusPdus

LEMMA ConfigPduType ==
  ASSUME NEW n \in Node, NEW accepted \in BOOLEAN
  PROVE  ConfigPdu(n, accepted) \in Packet
<1> DEFINE table == FrameTable[n]
<1>1. table \in Seq(LpduType) /\ \A i \in DOMAIN table : table[i].payload = NoPayload
  BY FrameTableType
<1>2. Inhibit[n] \in BOOLEAN
  BY NetworkAssumption
<1>3. ConfigPdu(n, accepted) =
        [type |-> "Config", node |-> n, accepted |-> accepted, vcns |-> {},
         poc |-> "NormalActive", table |-> table, inhibit |-> Inhibit[n]]
  BY DEF ConfigPdu
<1>4. FrameTable[n] = table
  OBVIOUS
<1> HIDE DEF table
<1> QED
  BY <1>1, <1>2, <1>3, <1>4 DEF Packet, ConfigPdus, PocState

\* A PDU that is received was read through a reference to an LPDU.
LEMMA ReceivedOfType ==
  ASSUME IInvTypes, NEW n \in Node
  PROVE  ReceivedOf(n) \in Seq(EmittedPdu)
<1> DEFINE all == out[n].lpdus
           T == EmittedPdu \union {UnpredictablePdu}
           I == {i \in DOMAIN all : all[i].status = "Received"}
<1>1. all \in Seq(T)
  BY DEF IInvTypes, Output
<1>2. ReceivedOf(n) = Chosen(all, I)
  <2>1. [i \in DOMAIN all |-> IF all[i].status = "Received" THEN <<all[i]>> ELSE <<>>]
          = [i \in DOMAIN all |-> IF i \in I THEN <<all[i]>> ELSE <<>>]
    OBVIOUS
  <2> QED
    BY <2>1 DEF ReceivedOf, Selected, Chosen
<1>3. ASSUME NEW p \in T, p.status = "Received" PROVE p \in EmittedPdu
  BY <1>3 DEF UnpredictablePdu
<1>4. \A i \in I : all[i] \in EmittedPdu
  <2>1. \A i \in DOMAIN all : all[i] \in T
    BY <1>1
  <2> HIDE DEF T
  <2> QED
    BY <1>3, <2>1
<1>5. I \in SUBSET DOMAIN all
  OBVIOUS
<1> HIDE DEF all, I, T
<1> DEFINE U == {all[i] : i \in I}
<1>6. Chosen(all, I) \in Seq(U)
  BY <1>1, <1>5, ChosenType
<1>7. U \subseteq EmittedPdu
  BY <1>4
<1> HIDE DEF U
<1> QED
  BY <1>2, <1>6, <1>7, SubsetOfSeq

LEMMA RearmedType ==
  ASSUME IInvTypes, NEW n \in Node
  PROVE  Rearmed(n) \in Seq(Packet)
<1>1. PICK k \in Nat : DOMAIN ReceivedOf(n) = 1 .. k
  BY ReceivedOfType
<1>2. ASSUME NEW i \in 1 .. k
      PROVE  [type |-> "Lpdu", node |-> n, slot |-> ReceivedOf(n)[i].slot,
              frame |-> ReceivedOf(n)[i].frame, status |-> "NotReceived",
              payload |-> NoPayload] \in Packet
  <2>1. ReceivedOf(n)[i] \in EmittedPdu
    BY <1>1, ReceivedOfType
  <2> QED
    BY <2>1 DEF EmittedPdu, Packet, LpduPdus, LpduStatus, NoPayload
<1>3. [i \in 1 .. k |->
         [type |-> "Lpdu", node |-> n, slot |-> ReceivedOf(n)[i].slot,
          frame |-> ReceivedOf(n)[i].frame, status |-> "NotReceived",
          payload |-> NoPayload]] \in Seq(Packet)
  BY <1>2
<1> QED
  BY <1>1, <1>3 DEF Rearmed

LEMMA InitTypes == Init => IInvTypes
<1> SUFFICES ASSUME Init PROVE IInvTypes
  OBVIOUS
<1>1. \A n \in Node : ZeroReplica(n) \in Replica(n) /\ Emit(ZeroReplica(n)) \in Output
  BY ZeroReplicaType, EmitType
<1>2. \A n \in Node : [configured |-> FALSE, writes |-> 0, halts |-> 0, refusals |-> 0] \in AppState
  BY DEF AppState
<1>3. <<>> \in Seq(Packet)
  OBVIOUS
<1>4. rep \in [Node -> UNION {Replica(n) : n \in Node}] /\ \A n \in Node : rep[n] \in Replica(n)
  BY <1>1 DEF Init
<1>5. out \in [Node -> Output] /\ app \in [Node -> AppState]
  BY <1>1, <1>2 DEF Init
<1>6. due \in [Node -> SUBSET (Slot \X Nat)] /\ \A n \in Node : due[n] \subseteq Ids(ToSet(FrameTable[n]))
  BY DEF Init
<1> QED
  BY <1>3, <1>4, <1>5, <1>6 DEF Init, IInvTypes

LEMMA RunTypes ==
  ASSUME IInvTypes, NEW n \in Node, Run(n)
  PROVE  IInvTypes'
<1> DEFINE r == Progress(FoldLeft(Consume, rep[n], inbox))
<1>1. r \in Replica(n)
  <2>1. FoldLeft(Consume, rep[n], inbox) \in Replica(n)
    BY ReadingType DEF IInvTypes
  <2> QED
    BY <2>1, ProgressType
<1>2. rep' = [rep EXCEPT ![n] = r] /\ out' = [out EXCEPT ![n] = Emit(rep'[n])]
      /\ todo' = todo \ {n} /\ UNCHANGED <<inbox, wire, silent, app>>
  BY DEF Run
<1> HIDE DEF r
<1>3. rep'[n] = r /\ \A m \in Node \ {n} : rep'[m] = rep[m]
  BY <1>2 DEF IInvTypes
<1>4. /\ rep' \in [Node -> UNION {Replica(m) : m \in Node}]
      /\ \A m \in Node : rep'[m] \in Replica(m)
  <2>1. r \in UNION {Replica(m) : m \in Node}
    BY <1>1
  <2> QED
    BY <1>1, <1>2, <1>3, <2>1 DEF IInvTypes
<1>5. out' \in [Node -> Output]
  <2>1. Emit(rep'[n]) \in Output
    BY <1>1, <1>3, EmitType
  <2> QED
    BY <1>2, <2>1 DEF IInvTypes
<1>6. PICK taken : due' = [due EXCEPT ![n] = IF InSync(n)' THEN @ \ taken ELSE @]
  BY DEF Run
<1>7. /\ due' \in [Node -> SUBSET (Slot \X Nat)]
      /\ \A m \in Node : due'[m] \subseteq Ids(ToSet(FrameTable[m]))
  <2>1. due'[n] \subseteq due[n] /\ \A m \in Node \ {n} : due'[m] = due[m]
    BY <1>6 DEF IInvTypes
  <2>2. due' \in [Node -> SUBSET (Slot \X Nat)]
    BY <1>6 DEF IInvTypes
  <2> QED
    BY <2>1, <2>2 DEF IInvTypes
<1> QED
  BY <1>2, <1>4, <1>5, <1>7 DEF IInvTypes

LEMMA WriteTypes ==
  ASSUME IInvTypes, NEW n \in Node, NEW pdus \in Seq(Packet), Write(n, pdus),
         /\ due' \in [Node -> SUBSET (Slot \X Nat)]
         /\ \A m \in Node : due'[m] \subseteq Ids(ToSet(FrameTable[m])),
         app' \in [Node -> AppState]
  PROVE  IInvTypes'
<1>1. Rearmed(n) \in Seq(Packet)
  BY RearmedType
<1>2. wire' \in Seq(Packet)
  BY <1>1 DEF Write, IInvTypes
<1> QED
  BY <1>2 DEF Write, IInvTypes

LEMMA IdsOf ==
  ASSUME NEW n \in Node, NEW l \in ToSet(FrameTable[n])
  PROVE  /\ Ids({l}) \subseteq Ids(ToSet(FrameTable[n])) /\ Ids({l}) \in SUBSET (Slot \X Nat)
         /\ l.slot \in Slot /\ l.frame \in Nat
<1>1. l \in TableEntry
  BY FrameTableType
<1>2. l.slot \in Slot /\ l.frame \in Nat
  BY <1>1 DEF TableEntry
<1> QED
  BY <1>2 DEF Ids

LEMMA NextTypes == IInvTypes /\ [Next]_vars => IInvTypes'
<1> SUFFICES ASSUME IInvTypes, [Next]_vars PROVE IInvTypes'
  OBVIOUS
<1>1. ASSUME NEW n \in Node, Run(n) PROVE IInvTypes'
  BY <1>1, RunTypes
<1>2. ASSUME NEW n \in Node, NEW accepted \in BOOLEAN, WriteConfig(n, accepted)
      PROVE  IInvTypes'
  <2>1. Write(n, <<ConfigPdu(n, accepted)>>) /\ due' = due
    BY <1>2 DEF WriteConfig
  <2>2. <<ConfigPdu(n, accepted)>> \in Seq(Packet)
    BY ConfigPduType
  <2>3. app' \in [Node -> AppState]
    <3> DEFINE refusals == IF accepted THEN app[n].refusals ELSE app[n].refusals + 1
               a == [app[n] EXCEPT !.configured = accepted, !.refusals = refusals]
    <3>1. app[n] \in AppState
      BY DEF IInvTypes
    <3>2. refusals \in Nat
      BY <3>1 DEF AppState
    <3>3. app' = [app EXCEPT ![n] = a]
      BY <1>2 DEF WriteConfig
    <3> HIDE DEF refusals
    <3>4. a \in AppState
      BY <3>1, <3>2 DEF AppState
    <3> HIDE DEF a
    <3> QED
      BY <3>3, <3>4 DEF IInvTypes
  <2> QED
    BY <2>1, <2>2, <2>3, WriteTypes DEF IInvTypes
<1>3. ASSUME NEW n \in Node, NEW l \in ToSet(FrameTable[n]), NEW p \in Payload, WriteLpdu(n, l, p)
      PROVE  IInvTypes'
  <2> DEFINE pdu == [type |-> "Lpdu", node |-> n, slot |-> l.slot, frame |-> l.frame,
                     status |-> "NotTransmitted", payload |-> p]
  <2>1. Write(n, <<pdu>>)
    BY <1>3 DEF WriteLpdu
  <2>2. pdu \in Packet
    <3>1. p \in Seq(Nat)
      BY NetworkAssumption
    <3> QED
      BY <3>1, IdsOf DEF Packet, LpduPdus, LpduStatus
  <2> HIDE DEF pdu
  <2>3. <<pdu>> \in Seq(Packet)
    BY <2>2
  <2>4. app' \in [Node -> AppState]
    <3> DEFINE a == [app[n] EXCEPT !.writes = app[n].writes + 1]
    <3>1. app[n] \in AppState
      BY DEF IInvTypes
    <3>2. app' = [app EXCEPT ![n] = a]
      BY <1>3 DEF WriteLpdu
    <3>3. a \in AppState
      BY <3>1 DEF AppState
    <3> HIDE DEF a
    <3> QED
      BY <3>2, <3>3 DEF IInvTypes
  <2>5. due' = [due EXCEPT ![n] = @ \union Ids({l})]
    BY <1>3 DEF WriteLpdu
  <2>6. /\ due' \in [Node -> SUBSET (Slot \X Nat)]
        /\ \A m \in Node : due'[m] \subseteq Ids(ToSet(FrameTable[m]))
    BY <2>5, IdsOf DEF IInvTypes
  <2> QED
    BY <2>1, <2>3, <2>4, <2>6, WriteTypes
<1>4. ASSUME NEW n \in Node, WriteRearm(n) PROVE IInvTypes'
  <2>1. Write(n, <<>>) /\ due' = due /\ app' = app
    BY <1>4 DEF WriteRearm
  <2>2. <<>> \in Seq(Packet)
    OBVIOUS
  <2> QED
    BY <2>1, <2>2, WriteTypes DEF IInvTypes
<1>5. ASSUME NEW n \in Node, WriteHalt(n) PROVE IInvTypes'
  <2>1. Write(n, <<StatusPdu(n, "Halt")>>) /\ due' = due
    BY <1>5 DEF WriteHalt
  <2>2. <<StatusPdu(n, "Halt")>> \in Seq(Packet)
    BY StatusPduType DEF PocCommand
  <2>3. app' \in [Node -> AppState]
    <3> DEFINE a == [app[n] EXCEPT !.halts = app[n].halts + 1]
    <3>1. app[n] \in AppState
      BY DEF IInvTypes
    <3>2. app' = [app EXCEPT ![n] = a]
      BY <1>5 DEF WriteHalt
    <3>3. a \in AppState
      BY <3>1 DEF AppState
    <3> HIDE DEF a
    <3> QED
      BY <3>2, <3>3 DEF IInvTypes
  <2> QED
    BY <2>1, <2>2, <2>3, WriteTypes DEF IInvTypes
<1>6. ASSUME NEW n \in Node, WriteRestart(n) PROVE IInvTypes'
  <2>1. Write(n, <<StatusPdu(n, "Config"), ConfigPdu(n, TRUE)>>)
    BY <1>6 DEF WriteRestart
  <2>2. <<StatusPdu(n, "Config"), ConfigPdu(n, TRUE)>> \in Seq(Packet)
    <3> DEFINE a == StatusPdu(n, "Config")
               b == ConfigPdu(n, TRUE)
    <3>1. a \in Packet
      BY StatusPduType DEF PocCommand
    <3>2. b \in Packet
      BY ConfigPduType
    <3> HIDE DEF a, b
    <3>3. <<a, b>> \in Seq(Packet)
      BY <3>1, <3>2
    <3> USE DEF a, b
    <3> QED
      BY <3>3
  <2>3. app' \in [Node -> AppState]
    BY <1>6 DEF WriteRestart, IInvTypes, AppState
  <2>4. due' = [due EXCEPT ![n] = {}]
    BY <1>6 DEF WriteRestart
  <2>5. /\ due' \in [Node -> SUBSET (Slot \X Nat)]
        /\ \A m \in Node : due'[m] \subseteq Ids(ToSet(FrameTable[m]))
    BY <2>4 DEF IInvTypes
  <2> QED
    BY <2>1, <2>2, <2>3, <2>5, WriteTypes
<1>7. ASSUME NEW n \in Node, WriteRejoin(n) PROVE IInvTypes'
  <2>1. Write(n, <<StatusPdu(n, "Nop")>>) /\ due' = due /\ app' = app
    BY <1>7 DEF WriteRejoin
  <2>2. <<StatusPdu(n, "Nop")>> \in Seq(Packet)
    BY StatusPduType DEF PocCommand
  <2> QED
    BY <2>1, <2>2, WriteTypes DEF IInvTypes
<1>8. CASE Exchange
  <2>1. <<>> \in Seq(Packet)
    OBVIOUS
  <2> QED
    BY <1>8, <2>1 DEF Exchange, IInvTypes
<1>9. CASE UNCHANGED vars
  BY <1>9 DEF vars, IInvTypes
<1> QED
  BY <1>1, <1>2, <1>3, <1>4, <1>5, <1>6, <1>7, <1>8, <1>9 DEF Next

LEMMA TypesHold == Spec => []IInvTypes
BY InitTypes, NextTypes, PTL DEF Spec

LEMMA TypesAreOK == IInvTypes => TypeOK
<1> SUFFICES ASSUME IInvTypes PROVE TypeOK
  OBVIOUS
<1>1. ASSUME NEW n \in Node, NEW s \in Slot, NEW l \in ToSet(rep[n].slots[s])
      PROVE  l \in LpduIn(s)
  <2>1. rep[n].slots[s] \in Seq(LpduIn(s))
    BY DEF IInvTypes, Replica, SlotMap
  <2> QED
    BY <1>1, <2>1 DEF ToSet
<1>2. \A n \in Node : rep[n].node = n /\ rep[n].engine \in Engine /\ rep[n].st \in NodeStates
  BY DEF IInvTypes, Replica
<1> QED
  BY <1>1, <1>2, LpduInType DEF TypeOK, IInvTypes, LpduIn

\* Whatever the applications write, in whatever order the nodes run: the engine
\* and the node states of every replica stay in their range, an LPDU stays in
\* the slot it was configured for, and its payload is absent or as long as its
\* configuration says (memcpy() and memset() of set_lpdu() and process_slot()
\* fill exactly the buffer that was allocated).
THEOREM TypeCorrect == Spec => []TypeOK
BY TypesHold, TypesAreOK, PTL

-----------------------------------------------------------------------------
(***************************************************************************)
(* Replicas that are alike.                                                *)
(***************************************************************************)

\* The configuration of an LPDU, which no frame and no PDU changes.
Conf(l) == <<l.node, l.slot, l.frame, l.dir, l.rep, l.base, l.continuous, l.inhibit, l.len>>

LEMMA ConfIs ==
  ASSUME NEW l, NEW k, Conf(l) = Conf(k)
  PROVE  /\ l.node = k.node /\ l.slot = k.slot /\ l.frame = k.frame /\ l.dir = k.dir
         /\ l.rep = k.rep /\ l.base = k.base /\ l.continuous = k.continuous
         /\ l.inhibit = k.inhibit /\ l.len = k.len
BY DEF Conf

LEMMA SetLpduKeepsConf ==
  ASSUME NEW l \in LpduType, NEW p
  PROVE  Conf(SetLpdu(l, p)) = Conf(l)
BY DEF Conf, SetLpdu, LpduType

LEMMA StampedKeepsConf ==
  ASSUME NEW l \in LpduType, NEW r
  PROVE  Conf(Stamped(r, l)) = Conf(l)
BY DEF Conf, Stamped, LpduType

LEMMA TransmittedKeepsConf ==
  ASSUME NEW l \in LpduType, NEW r
  PROVE  Conf(Transmitted(r, l)) = Conf(l)
BY DEF Conf, Transmitted, Stamped, LpduType

LEMMA ReceivedKeepsConf ==
  ASSUME NEW l \in LpduType, NEW r, NEW sent
  PROVE  Conf(Received(r, l, sent)) = Conf(l)
<1>1. CASE IsNullFrame(r)
  BY <1>1 DEF Conf, Received, Stamped, LpduType
<1>2. CASE ~IsNullFrame(r)
  BY <1>2 DEF Conf, Received, Stamped, LpduType
<1> QED
  BY <1>1, <1>2

\* Of the LPDUs they receive, replicas share the configuration only.
AlikeLpdu(l, k) == Conf(l) = Conf(k) /\ (l.dir = "Tx" => l = k)

AlikeLpdus(s, t) ==
  /\ DOMAIN s = DOMAIN t
  /\ \A i \in DOMAIN s : AlikeLpdu(s[i], t[i])

Alike(r, q) ==
  /\ r.engine = q.engine /\ r.st = q.st /\ r.trace = q.trace /\ r.inhibit = q.inhibit
  /\ \A s \in Slot : AlikeLpdus(r.slots[s], q.slots[s])

LEMMA AlikeSlotLpdus ==
  ASSUME NEW r, NEW q, Alike(r, q)
  PROVE  AlikeLpdus(Lpdus(r), Lpdus(q))
<1>1. CASE r.engine.slot \in Slot
  BY <1>1 DEF Alike, Lpdus
<1>2. CASE r.engine.slot \notin Slot
  BY <1>2 DEF Alike, Lpdus, AlikeLpdus
<1> QED
  BY <1>1, <1>2

\* Alike replicas have the same sender in the slot, and take the same time.
LEMMA AlikeTests ==
  ASSUME NEW r, NEW q, Alike(r, q)
  PROVE  /\ TxIndexes(r) = TxIndexes(q)
         /\ IsNullFrame(r) <=> IsNullFrame(q)
         /\ \A i \in TxIndexes(r) : Lpdus(r)[i] = Lpdus(q)[i] /\ Lpdus(r)[i].dir = "Tx"
         /\ \A i \in TxIndexes(r) : Sends(r, i) <=> Sends(q, i)
<1>1. DOMAIN Lpdus(r) = DOMAIN Lpdus(q) /\ r.engine = q.engine
  BY AlikeSlotLpdus DEF Alike, AlikeLpdus
<1>2. \A i \in DOMAIN Lpdus(r) :
        /\ Lpdus(r)[i].dir = Lpdus(q)[i].dir
        /\ Lpdus(r)[i].rep = Lpdus(q)[i].rep /\ Lpdus(r)[i].base = Lpdus(q)[i].base
        /\ Lpdus(r)[i].dir = "Tx" => Lpdus(r)[i] = Lpdus(q)[i]
  BY AlikeSlotLpdus, ConfIs DEF AlikeLpdus, AlikeLpdu
<1>3. \A i \in DOMAIN Lpdus(r) : InCycle(r, Lpdus(r)[i]) <=> InCycle(q, Lpdus(q)[i])
  BY <1>1, <1>2 DEF InCycle
<1>4. TxIndexes(r) = TxIndexes(q)
  BY <1>1, <1>2, <1>3 DEF TxIndexes
<1>5. \A i \in TxIndexes(r) : Lpdus(r)[i] = Lpdus(q)[i] /\ Lpdus(r)[i].dir = "Tx"
  BY <1>2 DEF TxIndexes
<1>6. IsNullFrame(r) <=> IsNullFrame(q)
  BY <1>1, <1>4, <1>5 DEF IsNullFrame
<1>7. \A i \in TxIndexes(r) : Sends(r, i) <=> Sends(q, i)
  BY <1>5, <1>6 DEF Sends
<1> QED
  BY <1>4, <1>5, <1>6, <1>7

LEMMA AlikeMinislots ==
  ASSUME NEW n, NEW m, NEW r \in Replica(n), NEW q \in Replica(m), Alike(r, q)
  PROVE  PendingTx(r) = PendingTx(q) /\ Minislots(r) = Minislots(q) /\ (HasBudget(r) <=> HasBudget(q))
<1> DEFINE I == {i \in 1 .. Len(Lpdus(r)) : Lpdus(r)[i].dir = "Tx"
                                            /\ Lpdus(r)[i].status = "NotTransmitted"}
           J == {i \in 1 .. Len(Lpdus(q)) : Lpdus(q)[i].dir = "Tx"
                                            /\ Lpdus(q)[i].status = "NotTransmitted"}
<1>1. r.engine = q.engine
  BY DEF Alike
<1>2. /\ DOMAIN Lpdus(r) = DOMAIN Lpdus(q)
      /\ \A i \in DOMAIN Lpdus(r) :
           /\ Lpdus(r)[i].dir = Lpdus(q)[i].dir /\ Lpdus(r)[i].len = Lpdus(q)[i].len
           /\ Lpdus(r)[i].dir = "Tx" => Lpdus(r)[i] = Lpdus(q)[i]
  BY AlikeSlotLpdus, ConfIs DEF AlikeLpdus, AlikeLpdu
<1>3. DOMAIN Lpdus(r) = 1 .. Len(Lpdus(r)) /\ DOMAIN Lpdus(q) = 1 .. Len(Lpdus(q))
      /\ Len(Lpdus(r)) \in Nat
  BY LpdusLen
<1>4. I = J
  BY <1>2, <1>3
<1>5. /\ PendingTx(r) = IF I # {} THEN Max(I) ELSE 0
      /\ PendingTx(q) = IF J # {} THEN Max(J) ELSE 0
  BY DEF PendingTx, SelectLastInSeq
<1>6. I \in SUBSET (1 .. Len(Lpdus(r)))
  OBVIOUS
<1> HIDE DEF I, J
<1>7. PendingTx(r) = PendingTx(q)
  BY <1>4, <1>5
<1>8. PendingTx(r) # 0 => PendingTx(r) \in DOMAIN Lpdus(r)
  BY <1>3, <1>5, <1>6, MaxIs
<1>9. Minislots(r) = Minislots(q)
  BY <1>1, <1>2, <1>7, <1>8 DEF Minislots
<1> QED
  BY <1>1, <1>7, <1>9 DEF HasBudget

LEMMA AfterFrameAlike ==
  ASSUME NEW n, NEW m, NEW r \in Replica(n), NEW q \in Replica(m), Alike(r, q),
         NEW tx \in TxIndexes(r)
  PROVE  AlikeLpdus(AfterFrame(r, tx), AfterFrame(q, tx))
<1>1. /\ DOMAIN Lpdus(r) = DOMAIN Lpdus(q)
      /\ \A i \in DOMAIN Lpdus(r) : AlikeLpdu(Lpdus(r)[i], Lpdus(q)[i])
  BY AlikeSlotLpdus DEF AlikeLpdus
<1>2. DOMAIN AfterFrame(r, tx) = DOMAIN Lpdus(r) /\ DOMAIN AfterFrame(q, tx) = DOMAIN Lpdus(q)
  BY DEF AfterFrame
<1>3. ASSUME NEW i \in DOMAIN Lpdus(r)
      PROVE  AlikeLpdu(AfterFrame(r, tx)[i], AfterFrame(q, tx)[i])
  <2> DEFINE l == Lpdus(r)[i]
             k == Lpdus(q)[i]
             u == Lpdus(r)[tx].payload
             v == Lpdus(q)[tx].payload
  <2>1. l \in LpduType /\ k \in LpduType
    BY <1>1, LpduAt, LpduInType
  <2>2. Conf(l) = Conf(k) /\ (l.dir = "Tx" => l = k) /\ l.dir = k.dir
    BY <1>1, ConfIs DEF AlikeLpdu
  <2>3. /\ AfterFrame(r, tx)[i] = IF i = tx /\ Sends(r, tx) THEN Transmitted(r, l)
                                  ELSE IF Receives(r, l) THEN Received(r, l, u) ELSE l
        /\ AfterFrame(q, tx)[i] = IF i = tx /\ Sends(q, tx) THEN Transmitted(q, k)
                                  ELSE IF Receives(q, k) THEN Received(q, k, v) ELSE k
    BY <1>1 DEF AfterFrame
  <2>4. Sends(r, tx) <=> Sends(q, tx)
    BY AlikeTests
  <2>5. i = tx => l.dir = "Tx"
    BY AlikeTests
  <2>6. (Receives(r, l) => l.dir = "Rx") /\ (Receives(q, k) => k.dir = "Rx")
    BY DEF Receives
  <2>7. r.engine = q.engine
    BY DEF Alike
  <2> HIDE DEF l, k, u, v
  <2>8. CASE l.dir = "Tx"
    <3>1. l = k /\ ~Receives(r, l) /\ ~Receives(q, k)
      BY <2>2, <2>6, <2>8
    <3>2. Transmitted(r, l) = Transmitted(q, k)
      BY <2>7, <3>1 DEF Transmitted, Stamped
    <3>3. AfterFrame(r, tx)[i] = AfterFrame(q, tx)[i]
      BY <2>3, <2>4, <3>1, <3>2
    <3> QED
      BY <3>3 DEF AlikeLpdu
  <2>9. CASE l.dir # "Tx"
    <3>1. i # tx
      BY <2>5, <2>9
    <3>2. Conf(AfterFrame(r, tx)[i]) = Conf(l) /\ Conf(AfterFrame(q, tx)[i]) = Conf(k)
      BY <2>1, <2>3, <3>1, ReceivedKeepsConf
    <3>3. AfterFrame(r, tx)[i].dir = l.dir
      BY <3>2, ConfIs
    <3> QED
      BY <2>2, <2>9, <3>2, <3>3 DEF AlikeLpdu
  <2> QED
    BY <2>8, <2>9
<1> QED
  BY <1>1, <1>2, <1>3 DEF AlikeLpdus

LEMMA ProcessSlotAlike ==
  ASSUME NEW n, NEW m, NEW r \in Replica(n), NEW q \in Replica(m), Alike(r, q)
  PROVE  Alike(ProcessSlot(r), ProcessSlot(q))
<1>1. CASE TxIndexes(r) = {}
  BY <1>1, AlikeTests DEF ProcessSlot
<1>2. CASE TxIndexes(r) # {}
  <2> DEFINE tx == Max(TxIndexes(r))
             s == r.engine.slot
             a == AfterFrame(r, tx)
             b == AfterFrame(q, tx)
             ta == IF Sends(r, tx) THEN Append(r.trace, [slot |-> s, pos |-> tx]) ELSE r.trace
             tb == IF Sends(q, tx) THEN Append(q.trace, [slot |-> s, pos |-> tx]) ELSE q.trace
  <2>1. TxIndexes(q) = TxIndexes(r) /\ q.engine = r.engine /\ q.trace = r.trace
    BY AlikeTests DEF Alike
  <2>2. tx \in TxIndexes(r) /\ s \in Slot
    BY <1>2, TxIndexesIs
  <2>3. ta = tb
    BY <2>1, <2>2, AlikeTests
  <2>4. AlikeLpdus(a, b)
    BY <2>2, AfterFrameAlike
  <2>5. PICK x : ProcessSlot(r) = [r EXCEPT !.slots = [r.slots EXCEPT ![s] = a],
                                            !.txrx = x, !.trace = ta]
    BY <1>2, ProcessSlotIs
  <2>6. PICK y : ProcessSlot(q) = [q EXCEPT !.slots = [q.slots EXCEPT ![s] = b],
                                            !.txrx = y, !.trace = tb]
    BY <1>2, <2>1, ProcessSlotIs
  <2> HIDE DEF tx, s, a, b, ta, tb
  <2>7. /\ ProcessSlot(r).engine = r.engine /\ ProcessSlot(r).st = r.st
        /\ ProcessSlot(r).trace = ta /\ ProcessSlot(r).inhibit = r.inhibit
        /\ ProcessSlot(r).slots = [r.slots EXCEPT ![s] = a]
    BY <2>5 DEF Replica
  <2>8. /\ ProcessSlot(q).engine = q.engine /\ ProcessSlot(q).st = q.st
        /\ ProcessSlot(q).trace = tb /\ ProcessSlot(q).inhibit = q.inhibit
        /\ ProcessSlot(q).slots = [q.slots EXCEPT ![s] = b]
    BY <2>6 DEF Replica
  <2>9. ASSUME NEW z \in Slot
        PROVE  AlikeLpdus(ProcessSlot(r).slots[z], ProcessSlot(q).slots[z])
    <3>1. r.slots \in [Slot -> Seq(LpduType)] /\ q.slots \in [Slot -> Seq(LpduType)]
      BY DEF Replica, SlotMap
    <3>2. AlikeLpdus(r.slots[z], q.slots[z])
      BY DEF Alike
    <3> QED
      BY <2>2, <2>4, <2>7, <2>8, <3>1, <3>2
  <2> QED
    BY <2>1, <2>3, <2>7, <2>8, <2>9 DEF Alike
<1> QED
  BY <1>1, <1>2

LEMMA ConsumeBusSlotAlike ==
  ASSUME NEW n, NEW m, NEW r \in Replica(n), NEW q \in Replica(m), Alike(r, q)
  PROVE  Alike(ConsumeBusSlot(r), ConsumeBusSlot(q))
<1>1. r.engine = q.engine /\ PendingTx(r) = PendingTx(q) /\ Minislots(r) = Minislots(q)
  BY AlikeMinislots DEF Alike
<1>2. ASSUME NEW a \in Replica(n), NEW b \in Replica(m), Alike(a, b), NEW e
      PROVE  Alike([a EXCEPT !.engine = e], [b EXCEPT !.engine = e])
  BY <1>2 DEF Alike, Replica
<1>3. CASE AtCycleEnd(r.engine)
  <2>1. ConsumeBusSlot(r) = [r EXCEPT !.engine = ConsumeCycleEnd(r.engine)]
        /\ ConsumeBusSlot(q) = [q EXCEPT !.engine = ConsumeCycleEnd(r.engine)]
    BY <1>1, <1>3 DEF ConsumeBusSlot
  <2> QED
    BY <1>2, <2>1
<1>4. CASE ~AtCycleEnd(r.engine)
  <2> DEFINE busy == InStatic(r.engine) \/ PendingTx(r) # 0
             a == IF busy THEN ProcessSlot(r) ELSE r
             b == IF busy THEN ProcessSlot(q) ELSE q
             e == ConsumeSlot(r.engine, Minislots(r))
  <2>1. a \in Replica(n) /\ b \in Replica(m) /\ a.engine = r.engine /\ b.engine = r.engine
    BY <1>1, ProcessSlotType
  <2>2. Alike(a, b)
    BY ProcessSlotAlike
  <2>3. /\ ConsumeBusSlot(r) = [a EXCEPT !.engine = ConsumeSlot(a.engine, Minislots(r))]
        /\ ConsumeBusSlot(q) = [b EXCEPT !.engine = ConsumeSlot(b.engine, Minislots(r))]
    BY <1>1, <1>4 DEF ConsumeBusSlot
  <2> HIDE DEF a, b, busy
  <2>4. ConsumeBusSlot(r) = [a EXCEPT !.engine = e] /\ ConsumeBusSlot(q) = [b EXCEPT !.engine = e]
    BY <2>1, <2>3
  <2> HIDE DEF e
  <2> QED
    BY <1>2, <2>1, <2>2, <2>4
<1> QED
  BY <1>3, <1>4

AlikePairs(n, m) == {p \in Replica(n) \X Replica(m) : Alike(p[1], p[2])}

LEMMA ConsumeSlotsAlike ==
  ASSUME NEW n, NEW m, NEW r \in Replica(n), NEW q \in Replica(m), Alike(r, q)
  PROVE  Alike(ConsumeSlots(r), ConsumeSlots(q))
<1> DEFINE R == AlikePairs(n, m)
<1>1. <<r, q>> \in R
  BY DEF AlikePairs
<1>2. Turns(r) = Turns(q) /\ Turns(r) \in Seq(Nat)
  BY TurnsType DEF Turns, Alike
<1>3. ASSUME NEW a, NEW b, NEW i \in Nat, <<a, b>> \in R
      PROVE  <<NextSlot(a, i), NextSlot(b, i)>> \in R
  <2>1. a \in Replica(n) /\ b \in Replica(m) /\ Alike(a, b)
    BY <1>3 DEF AlikePairs
  <2>2. HasBudget(a) <=> HasBudget(b)
    BY <2>1, AlikeMinislots
  <2>3. Alike(NextSlot(a, i), NextSlot(b, i))
    BY <2>1, <2>2, ConsumeBusSlotAlike DEF NextSlot
  <2>4. NextSlot(a, i) \in Replica(n) /\ NextSlot(b, i) \in Replica(m)
    BY <2>1, NextSlotType
  <2> QED
    BY <2>3, <2>4 DEF AlikePairs
<1> HIDE DEF R
<1>4. <<Slots!Fold(r, Turns(r)), Slots!Fold(q, Turns(r))>> \in R
  BY <1>1, <1>2, <1>3, Slots!FoldKeeps
<1>5. <<ConsumeSlots(r), ConsumeSlots(q)>> \in R
  BY <1>2, <1>4, SlotsIsFold
<1> QED
  BY <1>5 DEF R, AlikePairs

LEMMA ConcatAlike ==
  ASSUME NEW a \in Seq(LpduType), NEW b \in Seq(LpduType), NEW t \in Seq(LpduType),
         AlikeLpdus(a, b)
  PROVE  AlikeLpdus(a \o t, b \o t)
<1>1. PICK k \in Nat, l \in Nat : k = Len(a) /\ l = Len(t)
  OBVIOUS
<1>2. DOMAIN a = 1 .. k /\ DOMAIN b = 1 .. k /\ Len(b) = k /\ DOMAIN t = 1 .. l
  <2>1. DOMAIN a = 1 .. k /\ DOMAIN t = 1 .. l /\ DOMAIN b = DOMAIN a
    BY <1>1 DEF AlikeLpdus
  <2>2. PICK j \in Nat : j = Len(b) /\ DOMAIN b = 1 .. j
    OBVIOUS
  <2>3. j = k
    BY <2>1, <2>2
  <2> QED
    BY <2>1, <2>2, <2>3
<1>3. /\ DOMAIN (a \o t) = 1 .. k + l /\ DOMAIN (b \o t) = 1 .. k + l
      /\ \A i \in 1 .. k + l :
           /\ (a \o t)[i] = IF i <= k THEN a[i] ELSE t[i - k]
           /\ (b \o t)[i] = IF i <= k THEN b[i] ELSE t[i - k]
  BY <1>1, <1>2
<1>4. ASSUME NEW i \in 1 .. k + l PROVE AlikeLpdu((a \o t)[i], (b \o t)[i])
  <2>1. CASE i <= k
    <3>1. i \in DOMAIN a
      BY <1>2, <2>1
    <3> QED
      BY <1>3, <2>1, <3>1 DEF AlikeLpdus
  <2>2. CASE ~(i <= k)
    BY <1>3, <2>2 DEF AlikeLpdu
  <2> QED
    BY <2>1, <2>2
<1> QED
  BY <1>3, <1>4 DEF AlikeLpdus

\* What is chosen by the same indexes.
LEMMA ChosenAlike ==
  ASSUME NEW a \in Seq(LpduType), NEW b \in Seq(LpduType), AlikeLpdus(a, b),
         NEW I \in SUBSET DOMAIN a
  PROVE  AlikeLpdus(Chosen(a, I), Chosen(b, I))
<1>1a. PICK k \in Nat : \E h : Chooses(h, k, I, DOMAIN a)
  BY ChosenIs
<1>1. PICK h : Chooses(h, k, I, DOMAIN a)
  BY <1>1a
<1>2. DOMAIN b = DOMAIN a
  BY DEF AlikeLpdus
<1>3. Chosen(a, I) = [x \in 1 .. k |-> a[h[x]]] /\ Chosen(b, I) = [x \in 1 .. k |-> b[h[x]]]
  BY <1>1, <1>2 DEF Chooses
<1>4. \A x \in 1 .. k : h[x] \in DOMAIN a
  BY <1>1 DEF Chooses, Reading!Enumerates
<1> QED
  BY <1>3, <1>4 DEF AlikeLpdus

LEMMA ConsumeConfigAlike ==
  ASSUME NEW n, NEW m, NEW r \in Replica(n), NEW q \in Replica(m), Alike(r, q),
         NEW p \in Packet, p.type = "Config"
  PROVE  Alike(ConsumeConfig(r, p), ConsumeConfig(q, p))
<1>1. /\ p \in ConfigPdus /\ \A i \in DOMAIN p.table : p.table[i].payload = NoPayload
  BY DEF Packet, ConfigPdus, StatusPdus, LpduPdus
<1>2. p.table \in Seq(LpduType)
  BY <1>1 DEF ConfigPdus
<1> DEFINE a == ProcessConfig(r, p)
           b == ProcessConfig(q, p)
<1>3. a \in Replica(n) /\ b \in Replica(m)
  BY ProcessConfigType
<1>4. Alike(a, b)
  <2>1. CASE ~p.accepted
    BY <2>1 DEF ProcessConfig
  <2>2. CASE p.accepted
    <3> DEFINE grows == {p.table[i].slot : i \in DOMAIN p.table}
               sa == [s \in Slot |-> r.slots[s] \o TableOf(p.table, s)]
               sb == [s \in Slot |-> q.slots[s] \o TableOf(p.table, s)]
               engine == ConfigurePosition(r.engine)
               trace == Moved(r.trace, grows)
    <3>1. q.engine = r.engine /\ q.st = r.st /\ q.trace = r.trace
      BY DEF Alike
    <3>2. PICK x : a = [r EXCEPT !.engine = engine, !.slots = sa, !.txrx = x,
                                 !.trace = trace, !.inhibit = p.inhibit]
      BY <2>2 DEF ProcessConfig, Replica, TableOf
    <3>3. PICK y : b = [q EXCEPT !.engine = ConfigurePosition(q.engine), !.slots = sb, !.txrx = y,
                                 !.trace = Moved(q.trace, grows), !.inhibit = p.inhibit]
      BY <2>2 DEF ProcessConfig, Replica, TableOf
    <3>4. ASSUME NEW s \in Slot PROVE AlikeLpdus(sa[s], sb[s])
      <4>1. TableOf(p.table, s) \in Seq(LpduIn(s)) /\ LpduIn(s) \subseteq LpduType
        BY <1>1, <1>2, TableOfType DEF LpduIn
      <4>2. TableOf(p.table, s) \in Seq(LpduType)
        BY <4>1, SubsetOfSeq
      <4>3. r.slots[s] \in Seq(LpduType) /\ q.slots[s] \in Seq(LpduType)
        BY DEF Replica, SlotMap
      <4>4. AlikeLpdus(r.slots[s], q.slots[s])
        BY DEF Alike
      <4> QED
        BY <4>2, <4>3, <4>4, ConcatAlike
    <3> HIDE DEF sa, sb, grows, a, b, engine
    <3>5. /\ a.engine = engine /\ a.slots = sa /\ a.st = r.st /\ a.trace = trace
          /\ a.inhibit = p.inhibit
      BY <3>2 DEF Replica
    <3>6. /\ b.engine = engine /\ b.slots = sb /\ b.st = r.st /\ b.trace = trace
          /\ b.inhibit = p.inhibit
      BY <3>1, <3>3 DEF Replica, engine
    <3> QED
      BY <3>4, <3>5, <3>6 DEF Alike
  <2> QED
    BY <2>1, <2>2
<1> DEFINE st == SetPocState(RegisterNode(RegisterVcn(a.st, p.vcns), p.node, "on"), p.node, p.poc)
<1>5. /\ ConsumeConfig(r, p) = [a EXCEPT !.st = st]
      /\ ConsumeConfig(q, p) =
           [b EXCEPT !.st = SetPocState(RegisterNode(RegisterVcn(b.st, p.vcns), p.node, "on"),
                                        p.node, p.poc)]
  BY DEF ConsumeConfig
<1> HIDE DEF a, b
<1>6. b.st = a.st
  BY <1>4 DEF Alike
<1>7. ConsumeConfig(q, p) = [b EXCEPT !.st = st]
  BY <1>5, <1>6
<1> HIDE DEF st
<1> QED
  BY <1>3, <1>4, <1>5, <1>7 DEF Alike, Replica

LEMMA ConsumeStatusAlike ==
  ASSUME NEW n, NEW m, NEW r \in Replica(n), NEW q \in Replica(m), Alike(r, q),
         NEW p \in Packet, p.type = "Status"
  PROVE  Alike(ConsumeStatus(r, p), ConsumeStatus(q, p))
<1> DEFINE enters == /\ p.node \in r.st.known
                     /\ EntersDefaultConfig(r.st.poc[p.node], p.command)
           a == IF enters THEN DropLpdus(r, p.node) ELSE r
           b == IF enters THEN DropLpdus(q, p.node) ELSE q
<1>1. r.st = q.st
  BY DEF Alike
<1>2. a \in Replica(n) /\ b \in Replica(m)
  BY DropLpdusIs
<1>3. Alike(DropLpdus(r, p.node), DropLpdus(q, p.node))
  <2> DEFINE sa == [s \in Slot |-> Chosen(r.slots[s], Others(r.slots[s], p.node))]
             sb == [s \in Slot |-> Chosen(q.slots[s], Others(q.slots[s], p.node))]
  <2>1. DropLpdus(r, p.node) = [r EXCEPT !.slots = sa] /\ DropLpdus(q, p.node) = [q EXCEPT !.slots = sb]
    BY DropLpdusIs
  <2>2. ASSUME NEW s \in Slot PROVE AlikeLpdus(sa[s], sb[s])
    <3> DEFINE t == r.slots[s]
               u == q.slots[s]
               I == Others(t, p.node)
    <3>1. AlikeLpdus(t, u)
      BY DEF Alike
    <3>2. Others(u, p.node) = I
      BY <3>1, ConfIs DEF Others, AlikeLpdus, AlikeLpdu
    <3>3. t \in Seq(LpduType) /\ u \in Seq(LpduType)
      BY DEF Replica, SlotMap
    <3>4. I \in SUBSET DOMAIN t
      BY DEF Others
    <3>5. sa[s] = Chosen(t, I) /\ sb[s] = Chosen(u, I)
      BY <3>2
    <3> HIDE DEF sa, sb, t, u, I
    <3> QED
      BY <3>1, <3>3, <3>4, <3>5, ChosenAlike
  <2> HIDE DEF sa, sb
  <2> QED
    BY <2>1, <2>2 DEF Alike, Replica
<1>4. Alike(a, b)
  BY <1>3
<1>5. /\ ConsumeStatus(r, p) = [a EXCEPT !.st = PushNodeState(a.st, p.node, p.command)]
      /\ ConsumeStatus(q, p) = [b EXCEPT !.st = PushNodeState(b.st, p.node, p.command)]
  BY <1>1 DEF ConsumeStatus
<1> HIDE DEF a, b
<1>6. a.st = b.st
  BY <1>4 DEF Alike
<1> QED
  BY <1>2, <1>4, <1>5, <1>6 DEF Alike, Replica

LEMMA ConsumeLpduAlike ==
  ASSUME NEW n, NEW m, NEW r \in Replica(n), NEW q \in Replica(m), Alike(r, q),
         NEW p \in LpduPdus
  PROVE  Alike(ConsumeLpdu(r, p), ConsumeLpdu(q, p))
<1> DEFINE s == p.slot
           t == r.slots[s]
           u == q.slots[s]
           i == Target(r, p)
           I == {x \in 1 .. Len(t) : t[x].node = p.node /\ t[x].frame = p.frame}
           J == {x \in 1 .. Len(u) : u[x].node = p.node /\ u[x].frame = p.frame}
           a == [t EXCEPT ![i] = SetLpdu(t[i], p)]
           b == [u EXCEPT ![i] = SetLpdu(u[i], p)]
<1>1. s \in Slot /\ t \in Seq(LpduType) /\ u \in Seq(LpduType)
  BY DEF LpduPdus, Replica, SlotMap
<1>2. AlikeLpdus(t, u)
  BY <1>1 DEF Alike
<1>3. I = J
  <2>1. 1 .. Len(t) = DOMAIN t /\ 1 .. Len(u) = DOMAIN u
    BY <1>1
  <2>2. \A x \in DOMAIN t : t[x].node = u[x].node /\ t[x].frame = u[x].frame
    BY <1>2, ConfIs DEF AlikeLpdus, AlikeLpdu
  <2> QED
    BY <1>2, <2>1, <2>2 DEF AlikeLpdus
<1>4. Target(q, p) = i
  <2>1. i = (IF I # {} THEN Min(I) ELSE 0) /\ Target(q, p) = (IF J # {} THEN Min(J) ELSE 0)
    BY DEF Target, SelectInSeq
  <2> HIDE DEF I, J, i
  <2> QED
    BY <1>3, <2>1
<1>5. CASE i = 0
  BY <1>4, <1>5, ConsumeLpduIs
<1>6. CASE i # 0
  <2>1. i \in DOMAIN t
    BY <1>6, TargetIs
  <2>2. ConsumeLpdu(r, p) = [r EXCEPT !.slots = [r.slots EXCEPT ![s] = a]]
    BY <1>6, ConsumeLpduIs
  <2>3. ConsumeLpdu(q, p) = [q EXCEPT !.slots = [q.slots EXCEPT ![s] = b]]
    BY <1>4, <1>6, ConsumeLpduIs
  <2>4. AlikeLpdus(a, b)
    <3>1. t[i] \in LpduType /\ u[i] \in LpduType /\ DOMAIN u = DOMAIN t
      BY <1>1, <1>2, <2>1 DEF AlikeLpdus
    <3>2. Conf(t[i]) = Conf(u[i]) /\ (t[i].dir = "Tx" => t[i] = u[i])
      BY <1>2, <2>1 DEF AlikeLpdus, AlikeLpdu
    <3>3. Conf(SetLpdu(t[i], p)) = Conf(t[i]) /\ Conf(SetLpdu(u[i], p)) = Conf(u[i])
      BY <3>1, SetLpduKeepsConf
    <3>4. SetLpdu(t[i], p).dir = t[i].dir
      BY <3>3, ConfIs
    <3>5. AlikeLpdu(SetLpdu(t[i], p), SetLpdu(u[i], p))
      BY <3>2, <3>3, <3>4 DEF AlikeLpdu
    <3>6. /\ DOMAIN a = DOMAIN t /\ DOMAIN b = DOMAIN t
          /\ \A x \in DOMAIN t : /\ a[x] = IF x = i THEN SetLpdu(t[i], p) ELSE t[x]
                                 /\ b[x] = IF x = i THEN SetLpdu(u[i], p) ELSE u[x]
      BY <3>1
    <3> HIDE DEF a, b, t, u, i
    <3> QED
      BY <1>2, <3>5, <3>6 DEF AlikeLpdus
  <2> HIDE DEF a, b, t, u, i, s
  <2>5. ASSUME NEW z \in Slot
        PROVE  AlikeLpdus([r.slots EXCEPT ![s] = a][z], [q.slots EXCEPT ![s] = b][z])
    <3>1. r.slots \in [Slot -> Seq(LpduType)] /\ q.slots \in [Slot -> Seq(LpduType)]
      BY DEF Replica, SlotMap
    <3>2. AlikeLpdus(r.slots[z], q.slots[z])
      BY DEF Alike
    <3> QED
      BY <1>1, <2>4, <3>1, <3>2
  <2> QED
    BY <2>2, <2>3, <2>5 DEF Alike, Replica
<1> QED
  BY <1>5, <1>6

LEMMA ConsumeAlike ==
  ASSUME NEW n, NEW m, NEW r \in Replica(n), NEW q \in Replica(m), Alike(r, q),
         NEW p \in Packet
  PROVE  Alike(Consume(r, p), Consume(q, p))
<1>1. CASE p.type = "Config"
  BY <1>1, ConsumeConfigAlike DEF Consume
<1>2. CASE p.type = "Status"
  BY <1>2, ConsumeStatusAlike DEF Consume
<1>3. CASE p.type = "Lpdu"
  <2>1. p \in LpduPdus
    BY <1>3 DEF Packet, ConfigPdus, StatusPdus
  <2> QED
    BY <1>3, <2>1, ConsumeLpduAlike DEF Consume
<1> QED
  BY <1>1, <1>2, <1>3 DEF Packet, ConfigPdus, StatusPdus, LpduPdus

LEMMA ReadingAlike ==
  ASSUME NEW n, NEW m, NEW r \in Replica(n), NEW q \in Replica(m), Alike(r, q),
         NEW pdus \in Seq(Packet)
  PROVE  Alike(FoldLeft(Consume, r, pdus), FoldLeft(Consume, q, pdus))
<1> DEFINE R == AlikePairs(n, m)
<1>1. <<r, q>> \in R
  BY DEF AlikePairs
<1>2. ASSUME NEW a, NEW b, NEW p \in Packet, <<a, b>> \in R
      PROVE  <<Consume(a, p), Consume(b, p)>> \in R
  <2>1. a \in Replica(n) /\ b \in Replica(m) /\ Alike(a, b)
    BY <1>2 DEF AlikePairs
  <2>2. Alike(Consume(a, p), Consume(b, p))
    BY <2>1, ConsumeAlike
  <2>3. Consume(a, p) \in Replica(n) /\ Consume(b, p) \in Replica(m)
    BY <2>1, ConsumeType
  <2> QED
    BY <2>2, <2>3 DEF AlikePairs
<1> HIDE DEF R
<1>3. <<Reading!Fold(r, pdus), Reading!Fold(q, pdus)>> \in R
  BY <1>1, <1>2, Reading!FoldKeeps
<1>4. <<FoldLeft(Consume, r, pdus), FoldLeft(Consume, q, pdus)>> \in R
  BY <1>3, ReadingIsFold
<1> QED
  BY <1>4 DEF R, AlikePairs

LEMMA ProgressAlike ==
  ASSUME NEW n, NEW m, NEW r \in Replica(n), NEW q \in Replica(m), Alike(r, q)
  PROVE  Alike(Progress(r), Progress(q))
<1> DEFINE from == CHOOSE f \in Starts : TRUE
           a == [r EXCEPT !.st = CalculateBusCondition(r.st, from)]
           b == [q EXCEPT !.st = CalculateBusCondition(q.st, from)]
           c == BeginBusStep(a, StepUt)
           d == BeginBusStep(b, StepUt)
<1>1. /\ a \in Replica(n) /\ c \in Replica(n)
      /\ Progress(r) = IF Synchronised(c) THEN ConsumeSlots(c) ELSE c
  BY ProgressIs
<1>2. /\ b \in Replica(m) /\ d \in Replica(m)
      /\ Progress(q) = IF Synchronised(d) THEN ConsumeSlots(d) ELSE d
  BY ProgressIs
<1>3. Alike(a, b)
  <2> DEFINE x == CalculateBusCondition(r.st, from)
             y == CalculateBusCondition(q.st, from)
  <2>1. x = y
    BY DEF Alike
  <2>2. a = [r EXCEPT !.st = x] /\ b = [q EXCEPT !.st = y]
    OBVIOUS
  <2> HIDE DEF x, y, a, b
  <2> QED
    BY <2>1, <2>2 DEF Alike, Replica
<1> HIDE DEF a, b
<1>4. Alike(c, d)
  <2>1. Synchronised(a) <=> Synchronised(b)
    BY <1>3 DEF Synchronised, Alike
  <2> DEFINE e == CalculateBudget(a.engine, StepUt)
  <2>2. CalculateBudget(b.engine, StepUt) = e
    BY <1>3 DEF Alike
  <2> HIDE DEF e
  <2>3. /\ c = IF Synchronised(a) THEN [a EXCEPT !.engine = e, !.txrx = <<>>, !.trace = <<>>] ELSE a
        /\ d = IF Synchronised(a) THEN [b EXCEPT !.engine = e, !.txrx = <<>>, !.trace = <<>>] ELSE b
    BY <2>1, <2>2 DEF BeginBusStep, e
  <2> HIDE DEF c, d
  <2> QED
    BY <1>1, <1>2, <1>3, <2>3 DEF Alike, Replica
<1>5. Synchronised(c) <=> Synchronised(d)
  BY <1>4 DEF Synchronised, Alike
<1> HIDE DEF c, d
<1> QED
  BY <1>1, <1>2, <1>4, <1>5, ConsumeSlotsAlike

\* The replica of a node as it will be at the end of the step.
Later(n) ==
  IF n \in todo THEN Progress(FoldLeft(Consume, rep[n], inbox)) ELSE rep[n]

\* A node that has still to run will be like those that have run: stronger than
\* ReplicasAgree, which says nothing in the middle of a step.
IInvAgree == \A n, m \in Node : Alike(Later(n), Later(m))

LEMMA AlikeAfterStep ==
  ASSUME NEW n, NEW m, NEW r \in Replica(n), NEW q \in Replica(m), Alike(r, q),
         NEW pdus \in Seq(Packet)
  PROVE  Alike(Progress(FoldLeft(Consume, r, pdus)), Progress(FoldLeft(Consume, q, pdus)))
<1>1. /\ FoldLeft(Consume, r, pdus) \in Replica(n) /\ FoldLeft(Consume, q, pdus) \in Replica(m)
      /\ Alike(FoldLeft(Consume, r, pdus), FoldLeft(Consume, q, pdus))
  BY ReadingType, ReadingAlike
<1> QED
  BY <1>1, ProgressAlike

LEMMA InitAgree == Init => IInvAgree
<1> SUFFICES ASSUME Init, NEW n \in Node, NEW m \in Node PROVE Alike(Later(n), Later(m))
  BY DEF IInvAgree
<1>1. Later(n) = ZeroReplica(n) /\ Later(m) = ZeroReplica(m)
  BY DEF Init, Later
<1>2. Alike(ZeroReplica(n), ZeroReplica(m))
  BY DEF Alike, ZeroReplica, AlikeLpdus
<1> QED
  BY <1>1, <1>2

\* A node that runs becomes what it will be.
LEMMA RunLater ==
  ASSUME IInvTypes, NEW k \in Node, Run(k)
  PROVE  /\ \A n \in Node : Later(n)' = Later(n)
         /\ rep'[k] = Later(k) /\ \A n \in Node \ {k} : rep'[n] = rep[n]
<1>1. /\ rep' = [rep EXCEPT ![k] = Progress(FoldLeft(Consume, rep[k], inbox))]
      /\ todo' = todo \ {k} /\ inbox' = inbox /\ k \in todo
  BY DEF Run
<1>2. rep'[k] = Later(k) /\ \A n \in Node \ {k} : rep'[n] = rep[n]
  BY <1>1 DEF Later, IInvTypes
<1>3. ASSUME NEW n \in Node PROVE Later(n)' = Later(n)
  <2>1. CASE n = k
    BY <1>1, <2>1 DEF Later, IInvTypes
  <2>2. CASE n # k
    <3>1. rep'[n] = rep[n] /\ (n \in todo' <=> n \in todo)
      BY <1>1, <2>2 DEF IInvTypes
    <3> QED
      BY <1>1, <3>1 DEF Later
  <2> QED
    BY <2>1, <2>2
<1> QED
  BY <1>2, <1>3

\* A write changes nothing of what a node will be.
LEMMA NextAgree == IInvTypes /\ IInvAgree /\ [Next]_vars => IInvAgree'
<1> SUFFICES ASSUME IInvTypes, IInvAgree, [Next]_vars PROVE IInvAgree'
  OBVIOUS
<1>1. ASSUME UNCHANGED <<rep, todo, inbox>> PROVE IInvAgree'
  BY <1>1 DEF IInvAgree, Later
<1>2. ASSUME NEW k \in Node, Run(k) PROVE IInvAgree'
  BY <1>2, RunLater DEF IInvAgree
<1>3. CASE Exchange
  <2>1. todo = {} /\ todo' = Node /\ rep' = rep /\ inbox' = wire
    BY <1>3 DEF Exchange
  <2>2. ASSUME NEW n \in Node, NEW m \in Node PROVE Alike(Later(n)', Later(m)')
    <3>1. Alike(rep[n], rep[m])
      BY <2>1 DEF IInvAgree, Later
    <3>2. rep[n] \in Replica(n) /\ rep[m] \in Replica(m) /\ wire \in Seq(Packet)
      BY DEF IInvTypes
    <3>3. Later(n)' = Progress(FoldLeft(Consume, rep[n], wire))
          /\ Later(m)' = Progress(FoldLeft(Consume, rep[m], wire))
      BY <2>1 DEF Later
    <3> QED
      BY <3>1, <3>2, <3>3, AlikeAfterStep
  <2> QED
    BY <2>2 DEF IInvAgree
<1>4. ASSUME NEW n \in Node, NEW pdus, Write(n, pdus) PROVE IInvAgree'
  BY <1>1, <1>4 DEF Write
<1>5. ASSUME NEW n \in Node, NEW accepted, WriteConfig(n, accepted) PROVE IInvAgree'
  BY <1>4, <1>5 DEF WriteConfig
<1>6. ASSUME NEW n \in Node, NEW l, NEW p, WriteLpdu(n, l, p) PROVE IInvAgree'
  BY <1>4, <1>6 DEF WriteLpdu
<1>7. ASSUME NEW n \in Node, WriteRearm(n) \/ WriteHalt(n) \/ WriteRestart(n) \/ WriteRejoin(n)
      PROVE  IInvAgree'
  BY <1>4, <1>7 DEF WriteRearm, WriteHalt, WriteRestart, WriteRejoin
<1>8. CASE UNCHANGED vars
  BY <1>1, <1>8 DEF vars
<1> QED
  BY <1>2, <1>3, <1>5, <1>6, <1>7, <1>8 DEF Next

LEMMA AlikeViews ==
  ASSUME NEW n, NEW m, NEW r \in Replica(n), NEW q \in Replica(m), Alike(r, q)
  PROVE  View(r) = View(q)
<1>1. ASSUME NEW s \in Slot
      PROVE  Selected(r.slots[s], LAMBDA l : l.dir = "Tx")
               = Selected(q.slots[s], LAMBDA l : l.dir = "Tx")
  <2> DEFINE t == r.slots[s]
             u == q.slots[s]
  <2>1. DOMAIN t = DOMAIN u /\ \A i \in DOMAIN t : AlikeLpdu(t[i], u[i])
    BY DEF Alike, AlikeLpdus
  <2>2. \A i \in DOMAIN t : t[i].dir = u[i].dir /\ (t[i].dir = "Tx" => t[i] = u[i])
    BY <2>1, ConfIs DEF AlikeLpdu
  <2> HIDE DEF t, u
  <2>3. [i \in DOMAIN t |-> IF t[i].dir = "Tx" THEN <<t[i]>> ELSE <<>>]
          = [i \in DOMAIN u |-> IF u[i].dir = "Tx" THEN <<u[i]>> ELSE <<>>]
    BY <2>1, <2>2
  <2> QED
    BY <2>3 DEF Selected, t, u
<1>2. [s \in Slot |-> Selected(r.slots[s], LAMBDA l : l.dir = "Tx")]
        = [s \in Slot |-> Selected(q.slots[s], LAMBDA l : l.dir = "Tx")]
  BY <1>1
<1>3. r.engine = q.engine /\ r.st = q.st /\ r.trace = q.trace /\ r.inhibit = q.inhibit
  BY DEF Alike
<1> QED
  BY <1>2, <1>3 DEF View

\* Each node keeps a replica of the whole bus and none ever sends it to another:
\* at the end of every step all replicas have the same position, node states, Tx
\* LPDUs and trace.  It holds because what consume() and progress() do to these
\* does not depend on the node whose replica it is, and because all nodes read
\* the same PDUs in the same order.
THEOREM Agreement == Spec => []ReplicasAgree
<1>1. Init => IInvTypes /\ IInvAgree
  BY InitTypes, InitAgree
<1>2. IInvTypes /\ IInvAgree /\ [Next]_vars => (IInvTypes /\ IInvAgree)'
  BY NextTypes, NextAgree
<1>3. IInvTypes /\ IInvAgree => ReplicasAgree
  <2> SUFFICES ASSUME IInvTypes, IInvAgree, todo = {}, NEW n \in Node, NEW m \in Node
               PROVE  View(rep[n]) = View(rep[m])
    BY DEF ReplicasAgree
  <2>1. Alike(rep[n], rep[m])
    BY DEF IInvAgree, Later
  <2>2. rep[n] \in Replica(n) /\ rep[m] \in Replica(m)
    BY DEF IInvTypes
  <2> QED
    BY <2>1, <2>2, AlikeViews
<1> QED
  BY <1>1, <1>2, <1>3, PTL DEF Spec

-----------------------------------------------------------------------------
(***************************************************************************)
(* The tables of a replica: the configurations of its LPDUs.  Just Config  *)
(* PDUs, and Status PDUs that restart a node, change them.                 *)
(***************************************************************************)

SameConfs(s, t) ==
  DOMAIN s = DOMAIN t /\ \A i \in DOMAIN s : Conf(s[i]) = Conf(t[i])

SameTables(r, q) == \A s \in Slot : SameConfs(r.slots[s], q.slots[s])

LEMMA TablesAreTransitive ==
  ASSUME NEW r, NEW q, NEW t, SameTables(r, q), SameTables(q, t)
  PROVE  SameTables(r, t)
BY DEF SameTables, SameConfs

LEMMA TablesAreReflexive ==
  ASSUME NEW r
  PROVE  SameTables(r, r)
BY DEF SameTables, SameConfs

LEMMA ConsumeLpduTables ==
  ASSUME NEW n, NEW r \in Replica(n), NEW p \in LpduPdus
  PROVE  SameTables(r, ConsumeLpdu(r, p)) /\ ConsumeLpdu(r, p).st = r.st
<1> DEFINE s == p.slot
           t == r.slots[s]
           i == Target(r, p)
           a == [t EXCEPT ![i] = SetLpdu(t[i], p)]
<1>1. CASE i = 0
  BY <1>1, ConsumeLpduIs, TablesAreReflexive
<1>2. CASE i # 0
  <2>1. s \in Slot /\ i \in DOMAIN t /\ t \in Seq(LpduType)
    BY <1>2, TargetIs DEF LpduPdus, Replica, SlotMap
  <2>2. ConsumeLpdu(r, p) = [r EXCEPT !.slots = [r.slots EXCEPT ![s] = a]]
    BY <1>2, ConsumeLpduIs
  <2>3. SameConfs(t, a)
    <3>1. t[i] \in LpduType
      BY <2>1
    <3>2. Conf(SetLpdu(t[i], p)) = Conf(t[i])
      BY <3>1, SetLpduKeepsConf
    <3> HIDE DEF t, i
    <3> QED
      BY <2>1, <3>2 DEF SameConfs
  <2> HIDE DEF i, a, s
  <2>4. r.slots \in [Slot -> Seq(LpduType)]
    BY DEF Replica, SlotMap
  <2>5. ConsumeLpdu(r, p).slots = [r.slots EXCEPT ![s] = a] /\ ConsumeLpdu(r, p).st = r.st
    BY <2>2 DEF Replica
  <2> QED
    BY <2>1, <2>3, <2>4, <2>5 DEF SameTables, SameConfs
<1> QED
  BY <1>1, <1>2

LEMMA ProcessSlotTables ==
  ASSUME NEW n, NEW r \in Replica(n)
  PROVE  SameTables(r, ProcessSlot(r))
<1>1. CASE TxIndexes(r) = {}
  BY <1>1, TablesAreReflexive DEF ProcessSlot
<1>2. CASE TxIndexes(r) # {}
  <2> DEFINE tx == Max(TxIndexes(r))
             s == r.engine.slot
             a == AfterFrame(r, tx)
             t == Lpdus(r)
  <2>1. s \in Slot /\ tx \in DOMAIN t
    BY <1>2, TxIndexesIs
  <2> DEFINE x == r.txrx \o FrameRefs(r, tx)
             y == IF Sends(r, tx) THEN Append(r.trace, [slot |-> s, pos |-> tx]) ELSE r.trace
  <2>2. ProcessSlot(r) = [r EXCEPT !.slots = [r.slots EXCEPT ![s] = a], !.txrx = x, !.trace = y]
    BY <1>2, ProcessSlotIs
  <2> HIDE DEF x, y
  <2>3. t = r.slots[s] /\ \A i \in DOMAIN t : t[i] \in LpduType
    BY <2>1, LpdusType, LpduAt, LpduInType
  <2>4. SameConfs(t, a)
    <3>1. DOMAIN a = DOMAIN t
      BY DEF AfterFrame
    <3>2. ASSUME NEW i \in DOMAIN t PROVE Conf(a[i]) = Conf(t[i])
      <4> DEFINE l == t[i]
                 u == t[tx].payload
      <4>1. l \in LpduType
        BY <2>3
      <4>2. a[i] = IF i = tx /\ Sends(r, tx) THEN Transmitted(r, l)
                   ELSE IF Receives(r, l) THEN Received(r, l, u) ELSE l
        BY DEF AfterFrame
      <4> HIDE DEF l, u, a, tx
      <4>3. Conf(a[i]) = Conf(l)
        BY <4>1, <4>2, TransmittedKeepsConf, ReceivedKeepsConf
      <4> QED
        BY <4>3 DEF l
    <3> HIDE DEF a, t
    <3> QED
      BY <3>1, <3>2 DEF SameConfs
  <2> HIDE DEF a, s, t, tx
  <2>5. r.slots \in [Slot -> Seq(LpduType)]
    BY DEF Replica, SlotMap
  <2>6. ProcessSlot(r).slots = [r.slots EXCEPT ![s] = a]
    BY <2>2 DEF Replica
  <2> QED
    BY <2>1, <2>3, <2>4, <2>5, <2>6 DEF SameTables, SameConfs
<1> QED
  BY <1>1, <1>2

LEMMA NextSlotTables ==
  ASSUME NEW n, NEW r \in Replica(n), NEW i
  PROVE  SameTables(r, NextSlot(r, i))
<1> DEFINE q == IF InStatic(r.engine) \/ PendingTx(r) # 0 THEN ProcessSlot(r) ELSE r
<1>1. SameTables(r, q) /\ q \in Replica(n)
  BY ProcessSlotTables, ProcessSlotType, TablesAreReflexive
<1>2. CASE ~HasBudget(r)
  BY <1>2, TablesAreReflexive DEF NextSlot
<1>3. CASE HasBudget(r) /\ AtCycleEnd(r.engine)
  <2>1. NextSlot(r, i).slots = r.slots
    BY <1>3 DEF NextSlot, ConsumeBusSlot, Replica
  <2> QED
    BY <2>1 DEF SameTables, SameConfs
<1>4. CASE HasBudget(r) /\ ~AtCycleEnd(r.engine)
  <2>1. NextSlot(r, i) = [q EXCEPT !.engine = ConsumeSlot(q.engine, Minislots(r))]
    BY <1>4 DEF NextSlot, ConsumeBusSlot
  <2> HIDE DEF q
  <2>2. NextSlot(r, i).slots = q.slots
    BY <1>1, <2>1 DEF Replica
  <2> QED
    BY <1>1, <2>2 DEF SameTables
<1> QED
  BY <1>2, <1>3, <1>4

LEMMA ConsumeSlotsTables ==
  ASSUME NEW n, NEW r \in Replica(n)
  PROVE  SameTables(r, ConsumeSlots(r))
<1> DEFINE S == {q \in Replica(n) : SameTables(r, q)}
<1>1. r \in S
  BY TablesAreReflexive
<1>2. ASSUME NEW q \in S, NEW i \in Nat PROVE NextSlot(q, i) \in S
  <2>1. SameTables(q, NextSlot(q, i)) /\ NextSlot(q, i) \in Replica(n)
    BY NextSlotTables, NextSlotType
  <2> QED
    BY <2>1, TablesAreTransitive
<1> HIDE DEF S
<1>3. Slots!Fold(r, Turns(r)) \in S
  BY <1>1, <1>2, TurnsType, Slots!FoldStaysIn
<1> QED
  BY <1>3, SlotsIsFold DEF S

LEMMA ProgressTables ==
  ASSUME NEW n, NEW r \in Replica(n)
  PROVE  SameTables(r, Progress(r))
<1> DEFINE from  == CHOOSE f \in Starts : TRUE
           q     == [r EXCEPT !.st = CalculateBusCondition(r.st, from)]
           begun == BeginBusStep(q, StepUt)
<1>1. /\ q \in Replica(n) /\ begun \in Replica(n)
      /\ Progress(r) = IF Synchronised(begun) THEN ConsumeSlots(begun) ELSE begun
  BY ProgressIs
<1>2. q.slots = r.slots
  BY DEF Replica
<1> HIDE DEF q
<1>3. begun.slots = q.slots
  BY <1>1 DEF BeginBusStep, Replica
<1> HIDE DEF begun
<1>4. SameTables(r, begun)
  BY <1>2, <1>3 DEF SameTables, SameConfs
<1> QED
  BY <1>1, <1>4, ConsumeSlotsTables, TablesAreTransitive

\* A replica has an LPDU of a node.
Has(r, m, s, f) ==
  \E i \in DOMAIN r.slots[s] : r.slots[s][i].node = m /\ r.slots[s][i].frame = f

\* Whatever LPDUs of a node one has, the other has.
Keeps(r, q, m) == \A s \in Slot : \A f : Has(r, m, s, f) => Has(q, m, s, f)

LEMMA SameTablesKeep ==
  ASSUME NEW r, NEW q, SameTables(r, q), NEW m
  PROVE  Keeps(r, q, m)
<1> SUFFICES ASSUME NEW s \in Slot, NEW f, Has(r, m, s, f) PROVE Has(q, m, s, f)
  BY DEF Keeps
<1>1. PICK i \in DOMAIN r.slots[s] : r.slots[s][i].node = m /\ r.slots[s][i].frame = f
  BY DEF Has
<1>2. i \in DOMAIN q.slots[s] /\ Conf(r.slots[s][i]) = Conf(q.slots[s][i])
  BY DEF SameTables, SameConfs
<1> QED
  BY <1>1, <1>2, ConfIs DEF Has

\* What is chosen, and from where.
LEMMA ChosenElements ==
  ASSUME NEW S, NEW s \in Seq(S), NEW I \in SUBSET DOMAIN s
  PROVE  /\ \A i \in I : \E a \in DOMAIN Chosen(s, I) : Chosen(s, I)[a] = s[i]
         /\ \A a \in DOMAIN Chosen(s, I) : \E i \in I : Chosen(s, I)[a] = s[i]
<1>1a. PICK k \in Nat : \E h : Chooses(h, k, I, DOMAIN s)
  BY ChosenIs
<1>1. PICK h : Chooses(h, k, I, DOMAIN s)
  BY <1>1a
<1>2. Chosen(s, I) = [a \in 1 .. k |-> s[h[a]]]
  BY <1>1 DEF Chooses
<1>3. /\ \A i \in I : \E a \in 1 .. k : h[a] = i
      /\ \A a \in 1 .. k : h[a] \in I
  BY <1>1 DEF Chooses, Reading!Enumerates
<1> QED
  BY <1>2, <1>3

LEMMA ConcatElements ==
  ASSUME NEW S, NEW s \in Seq(S), NEW t \in Seq(S)
  PROVE  \A i \in DOMAIN s : i \in DOMAIN (s \o t) /\ (s \o t)[i] = s[i]
OBVIOUS

LEMMA ConfigKeeps ==
  ASSUME NEW n, NEW r \in Replica(n), NEW p \in Packet, p.type = "Config", NEW m
  PROVE  Keeps(r, ConsumeConfig(r, p), m)
<1>1. /\ p \in ConfigPdus /\ \A i \in DOMAIN p.table : p.table[i].payload = NoPayload
  BY DEF Packet, ConfigPdus, StatusPdus, LpduPdus
<1> DEFINE q == ProcessConfig(r, p)
<1>2. q \in Replica(n)
  BY ProcessConfigType
<1>3. ConsumeConfig(r, p).slots = q.slots
  <2>1. PICK st : ConsumeConfig(r, p) = [q EXCEPT !.st = st]
    BY DEF ConsumeConfig
  <2> HIDE DEF q
  <2> QED
    BY <1>2, <2>1 DEF Replica
<1>4. CASE ~p.accepted
  BY <1>3, <1>4 DEF ProcessConfig, Keeps, Has
<1>5. CASE p.accepted
  <2>1. q.slots = [s \in Slot |-> r.slots[s] \o TableOf(p.table, s)]
    BY <1>5 DEF ProcessConfig, Replica, TableOf
  <2> HIDE DEF q
  <2>2. ASSUME NEW s \in Slot, NEW i \in DOMAIN r.slots[s]
        PROVE  i \in DOMAIN q.slots[s] /\ q.slots[s][i] = r.slots[s][i]
    <3>1. r.slots[s] \in Seq(LpduIn(s)) /\ TableOf(p.table, s) \in Seq(LpduIn(s))
      BY <1>1, TableOfType DEF Replica, SlotMap, ConfigPdus
    <3> DEFINE a == r.slots[s]
               b == TableOf(p.table, s)
    <3>2. q.slots[s] = a \o b
      BY <2>1
    <3> HIDE DEF b
    <3>3. i \in DOMAIN (a \o b) /\ (a \o b)[i] = a[i]
      BY <3>1, ConcatElements DEF b
    <3> QED
      BY <3>2, <3>3
  <2> QED
    BY <1>3, <2>2 DEF Keeps, Has
<1> QED
  BY <1>4, <1>5

\* No two nodes are controllers of one ECU.
OneControllerPerEcu == \A n, m \in Node : EcuOf[n] = EcuOf[m] => n = m

LEMMA StatusKeeps ==
  ASSUME NEW n, NEW r \in Replica(n), NEW p \in Packet, p.type = "Status",
         NEW m \in Node, OneControllerPerEcu, p # StatusPdu(m, "Config")
  PROVE  Keeps(r, ConsumeStatus(r, p), m)
<1>1. p \in StatusPdus
  BY DEF Packet, ConfigPdus, LpduPdus
<1> DEFINE enters == /\ p.node \in r.st.known
                     /\ EntersDefaultConfig(r.st.poc[p.node], p.command)
           q == IF enters THEN DropLpdus(r, p.node) ELSE r
<1>2. q \in Replica(n)
  BY DropLpdusIs
<1>3. PICK st : ConsumeStatus(r, p) = [q EXCEPT !.st = st]
  BY DEF ConsumeStatus
<1>4. CASE ~enters
  <2>1. q = r
    BY <1>4
  <2>2. ConsumeStatus(r, p).slots = r.slots
    BY <1>3, <2>1 DEF Replica
  <2> QED
    BY <2>2 DEF Keeps, Has
<1>5. CASE enters
  <2>1. p.command = "Config"
    BY <1>5 DEF EntersDefaultConfig
  <2>2. p.node # m
    BY <1>1, <2>1 DEF StatusPdus, StatusPdu
  <2>3. EcuOf[p.node] # EcuOf[m]
    BY <1>1, <2>2 DEF OneControllerPerEcu, StatusPdus
  <2>4. q = [r EXCEPT !.slots = [s \in Slot |-> Chosen(r.slots[s], Others(r.slots[s], p.node))]]
    BY <1>5, DropLpdusIs
  <2> HIDE DEF q
  <2>5. ConsumeStatus(r, p).slots
          = [s \in Slot |-> Chosen(r.slots[s], Others(r.slots[s], p.node))]
    BY <1>2, <1>3, <2>4 DEF Replica
  <2>6. ASSUME NEW s \in Slot, NEW f, Has(r, m, s, f)
        PROVE  Has(ConsumeStatus(r, p), m, s, f)
    <3> DEFINE t == r.slots[s]
               I == Others(t, p.node)
    <3>1. PICK i \in DOMAIN t : t[i].node = m /\ t[i].frame = f
      BY <2>6 DEF Has
    <3>2. i \in I
      BY <2>3, <3>1 DEF Others
    <3>3. t \in Seq(LpduType) /\ I \in SUBSET DOMAIN t
      BY DEF Replica, SlotMap, Others
    <3>4. ConsumeStatus(r, p).slots[s] = Chosen(t, I)
      BY <2>5
    <3> HIDE DEF t, I
    <3>5. PICK a \in DOMAIN Chosen(t, I) : Chosen(t, I)[a] = t[i]
      BY <3>2, <3>3, ChosenElements
    <3> QED
      BY <3>1, <3>4, <3>5 DEF Has
  <2> QED
    BY <2>6 DEF Keeps
<1> QED
  BY <1>4, <1>5

LEMMA ConsumeKeeps ==
  ASSUME NEW n, NEW r \in Replica(n), NEW p \in Packet, NEW m \in Node,
         OneControllerPerEcu, p # StatusPdu(m, "Config")
  PROVE  Keeps(r, Consume(r, p), m)
<1>1. CASE p.type = "Config"
  BY <1>1, ConfigKeeps DEF Consume
<1>2. CASE p.type = "Status"
  BY <1>2, StatusKeeps DEF Consume
<1>3. CASE p.type = "Lpdu"
  <2>1. p \in LpduPdus
    BY <1>3 DEF Packet, ConfigPdus, StatusPdus
  <2> QED
    BY <1>3, <2>1, ConsumeLpduTables, SameTablesKeep DEF Consume
<1> QED
  BY <1>1, <1>2, <1>3 DEF Packet, ConfigPdus, StatusPdus, LpduPdus

LEMMA StepKeeps ==
  ASSUME NEW n, NEW r \in Replica(n), NEW pdus \in Seq(Packet), NEW m \in Node,
         OneControllerPerEcu, StatusPdu(m, "Config") \notin ToSet(pdus)
  PROVE  Keeps(r, Progress(FoldLeft(Consume, r, pdus)), m)
<1> DEFINE S == {q \in Replica(n) : Keeps(r, q, m)}
           T == Packet \ {StatusPdu(m, "Config")}
           read == FoldLeft(Consume, r, pdus)
<1>1. r \in S
  BY DEF Keeps
<1>2. pdus \in Seq(T)
  BY DEF ToSet
<1>3. ASSUME NEW q \in S, NEW p \in T PROVE Consume(q, p) \in S
  <2>1. Keeps(q, Consume(q, p), m) /\ Consume(q, p) \in Replica(n)
    BY ConsumeKeeps, ConsumeType
  <2> QED
    BY <2>1 DEF Keeps
<1> HIDE DEF S, T
<1>4. Reading!Fold(r, pdus) \in S
  BY <1>1, <1>2, <1>3, Reading!FoldStaysIn
<1>5. read \in Replica(n) /\ Keeps(r, read, m)
  BY <1>4, ReadingIsFold DEF S
<1> HIDE DEF read
<1>6. Keeps(read, Progress(read), m)
  BY <1>5, ProgressTables, SameTablesKeep
<1>7. Keeps(r, Progress(read), m)
  BY <1>5, <1>6 DEF Keeps
<1> QED
  BY <1>7 DEF read

LEMMA IdsOfLpdus ==
  ASSUME NEW n, NEW m, NEW r \in Replica(n), NEW q \in Replica(m), NEW x, Keeps(r, q, x)
  PROVE  Ids(LpdusOf(r, x)) \subseteq Ids(LpdusOf(q, x))
<1> SUFFICES ASSUME NEW id \in Ids(LpdusOf(r, x)) PROVE id \in Ids(LpdusOf(q, x))
  OBVIOUS
<1>1. PICK l \in LpdusOf(r, x) : id = <<l.slot, l.frame>>
  BY DEF Ids
<1>2. PICK s \in Slot : l \in ToSet(r.slots[s]) /\ l.node = x
  BY DEF LpdusOf
<1>3. r.slots[s] \in Seq(LpduIn(s)) /\ q.slots[s] \in Seq(LpduIn(s))
  BY DEF Replica, SlotMap
<1>4. PICK i \in DOMAIN r.slots[s] : r.slots[s][i] = l
  BY <1>2, <1>3 DEF ToSet
<1>5. l.slot = s
  BY <1>3, <1>4, LpduInType
<1>6. Has(q, x, s, l.frame)
  BY <1>2, <1>4 DEF Keeps, Has
<1>7. PICK j \in DOMAIN q.slots[s] : q.slots[s][j].node = x /\ q.slots[s][j].frame = l.frame
  BY <1>6 DEF Has
<1>8. q.slots[s][j].slot = s
  BY <1>3, LpduInType
<1>9. q.slots[s][j] \in LpdusOf(q, x)
  BY <1>7, <1>3 DEF LpdusOf, ToSet
<1> QED
  BY <1>1, <1>5, <1>7, <1>8, <1>9 DEF Ids

\* A node that need not run any more has run.
LEMMA LeavingRuns ==
  ASSUME IInvTypes, [Next]_vars, NEW n \in todo \ todo'
  PROVE  n \in Node /\ Run(n)
<1>1. n \in Node
  BY DEF IInvTypes
<1>2. PICK k \in Node : Run(k)
  <2>1. ASSUME NEW k, NEW pdus, Write(k, pdus) PROVE todo' = todo
    BY <2>1 DEF Write
  <2>2. Exchange => todo = {}
    BY DEF Exchange
  <2>3. UNCHANGED vars => todo' = todo
    BY DEF vars
  <2> QED
    BY <2>1, <2>2, <2>3
       DEF Next, WriteConfig, WriteLpdu, WriteRearm, WriteHalt, WriteRestart, WriteRejoin
<1>3. todo' = todo \ {k}
  BY <1>2 DEF Run
<1> QED
  BY <1>1, <1>2, <1>3

\* Where no ECU has two controllers, a node that runs loses an LPDU of a node only
\* in a step in which that node restarts: __poc_state_defaultconfig() removes by
\* ECU, and nothing else removes from the slots.
THEOREM RestartsAreLocal ==
  ASSUME OneControllerPerEcu
  PROVE  Spec => RestartKeepsOthers
<1>1. ASSUME IInvTypes, [Next]_vars
      PROVE  [\A n \in todo \ todo', m \in Node :
                StatusPdu(m, "Config") \notin ToSet(inbox) =>
                  Ids(LpdusOf(rep[n], m)) \subseteq Ids(LpdusOf(rep[n], m)')]_vars
  <2> SUFFICES ASSUME NEW n \in todo \ todo', NEW m \in Node,
                      StatusPdu(m, "Config") \notin ToSet(inbox)
               PROVE  Ids(LpdusOf(rep[n], m)) \subseteq Ids(LpdusOf(rep[n], m)')
    OBVIOUS
  <2>1. n \in Node
    BY <1>1 DEF IInvTypes
  <2>2. Run(n)
    BY <1>1, LeavingRuns
  <2>3. rep' = [rep EXCEPT ![n] = Progress(FoldLeft(Consume, rep[n], inbox))]
    BY <2>2 DEF Run
  <2>4. rep'[n] = Progress(FoldLeft(Consume, rep[n], inbox))
    BY <1>1, <2>1, <2>3 DEF IInvTypes
  <2>5. rep[n] \in Replica(n) /\ inbox \in Seq(Packet) /\ rep'[n] \in Replica(n)
    BY <1>1, <2>1, <2>2, RunTypes DEF IInvTypes
  <2>6. Keeps(rep[n], rep'[n], m)
    BY <2>4, <2>5, StepKeeps
  <2> QED
    BY <2>5, <2>6, IdsOfLpdus
<1> QED
  BY <1>1, TypesHold, PTL DEF Spec, RestartKeepsOthers

-----------------------------------------------------------------------------
(***************************************************************************)
(* An LPDU is in a replica once.                                           *)
(***************************************************************************)

\* A frame index is used once in a slot of a node's frame table.
DistinctFrames ==
  \A n \in Node : \A i, j \in DOMAIN FrameTable[n] :
    /\ FrameTable[n][i].slot = FrameTable[n][j].slot
    /\ FrameTable[n][i].frame = FrameTable[n][j].frame
    => i = j

Unique(r, m) ==
  \A s \in Slot : \A i, j \in DOMAIN r.slots[s] :
    /\ r.slots[s][i].node = m /\ r.slots[s][j].node = m
    /\ r.slots[s][i].frame = r.slots[s][j].frame
    => i = j

Absent(r, m) == \A s \in Slot : \A i \in DOMAIN r.slots[s] : r.slots[s][i].node # m

\* A node that was halted is known.
HaltKnown(r) == \A m \in Node : r.st.poc[m] = "Halt" => m \in r.st.known

LEMMA SameTablesUnique ==
  ASSUME NEW r, NEW q, SameTables(r, q), NEW m
  PROVE  /\ Unique(r, m) => Unique(q, m)
         /\ Absent(r, m) => Absent(q, m)
<1>1. ASSUME NEW s \in Slot, NEW i \in DOMAIN q.slots[s]
      PROVE  /\ i \in DOMAIN r.slots[s] /\ r.slots[s][i].node = q.slots[s][i].node
             /\ r.slots[s][i].frame = q.slots[s][i].frame
  BY ConfIs DEF SameTables, SameConfs
<1> QED
  BY <1>1 DEF Unique, Absent

LEMMA ConditionState ==
  ASSUME NEW st \in NodeStates, NEW from, NEW m \in Node,
         CalculateBusCondition(st, from).poc[m] = "Halt"
  PROVE  st.poc[m] = "Halt" /\ CalculateBusCondition(st, from).known = st.known
<1> DEFINE lone == {n \in NodesFrom(st, from.demote) : st.poc[n] = "NormalActive"}
           poc  == [n \in Node |-> IF n \in lone THEN "NormalPassive" ELSE st.poc[n]]
           t    == [st EXCEPT !.bus = "FrameError", !.poc = poc]
<1>1. CalculateBusCondition(st, from) =
        IF SyncCount(st, from) = 0 THEN [st EXCEPT !.bus = "NoSignal"]
        ELSE IF SyncCount(st, from) = 1 THEN SetTransceiver(t, lone)
        ELSE [st EXCEPT !.bus = "FrameSync"]
  BY DEF CalculateBusCondition
<1>2. poc[m] = "Halt" => st.poc[m] = "Halt"
  OBVIOUS
<1> HIDE DEF poc, lone
<1>3. SetTransceiver(t, lone).poc = poc /\ SetTransceiver(t, lone).known = st.known
  BY DEF SetTransceiver, NodeStates
<1>4. /\ [st EXCEPT !.bus = "NoSignal"].poc = st.poc /\ [st EXCEPT !.bus = "FrameSync"].poc = st.poc
      /\ [st EXCEPT !.bus = "NoSignal"].known = st.known
      /\ [st EXCEPT !.bus = "FrameSync"].known = st.known
  BY DEF NodeStates
<1> HIDE DEF t
<1> QED
  BY <1>1, <1>2, <1>3, <1>4

LEMMA ProcessSlotState ==
  ASSUME NEW n, NEW r \in Replica(n)
  PROVE  ProcessSlot(r).st = r.st
<1>1. CASE TxIndexes(r) = {}
  BY <1>1 DEF ProcessSlot
<1>2. CASE TxIndexes(r) # {}
  <2> DEFINE tx == Max(TxIndexes(r))
             a == [r.slots EXCEPT ![r.engine.slot] = AfterFrame(r, tx)]
             x == r.txrx \o FrameRefs(r, tx)
             y == IF Sends(r, tx) THEN Append(r.trace, [slot |-> r.engine.slot, pos |-> tx])
                  ELSE r.trace
  <2>1. ProcessSlot(r) = [r EXCEPT !.slots = a, !.txrx = x, !.trace = y]
    BY <1>2, ProcessSlotIs
  <2> HIDE DEF a, x, y
  <2> QED
    BY <2>1 DEF Replica
<1> QED
  BY <1>1, <1>2

LEMMA ConsumeSlotsState ==
  ASSUME NEW n, NEW r \in Replica(n)
  PROVE  ConsumeSlots(r).st = r.st
<1> DEFINE S == {q \in Replica(n) : q.st = r.st}
<1>1. ASSUME NEW q \in S, NEW i \in Nat PROVE NextSlot(q, i) \in S
  <2> DEFINE u == IF InStatic(q.engine) \/ PendingTx(q) # 0 THEN ProcessSlot(q) ELSE q
  <2>1. u \in Replica(n) /\ u.st = q.st
    BY ProcessSlotType, ProcessSlotState
  <2>2. NextSlot(q, i) \in Replica(n)
    BY NextSlotType
  <2>3. \/ NextSlot(q, i) = q
        \/ NextSlot(q, i) = [q EXCEPT !.engine = ConsumeCycleEnd(q.engine)]
        \/ NextSlot(q, i) = [u EXCEPT !.engine = ConsumeSlot(u.engine, Minislots(q))]
    BY DEF NextSlot, ConsumeBusSlot
  <2> HIDE DEF u
  <2>4. NextSlot(q, i).st = q.st
    BY <2>1, <2>3 DEF Replica
  <2> QED
    BY <2>2, <2>4
<1>2. r \in S
  OBVIOUS
<1> HIDE DEF S
<1>3. Slots!Fold(r, Turns(r)) \in S
  BY <1>1, <1>2, TurnsType, Slots!FoldStaysIn
<1> QED
  BY <1>3, SlotsIsFold DEF S

LEMMA ProgressHaltKnown ==
  ASSUME NEW n, NEW r \in Replica(n), HaltKnown(r)
  PROVE  HaltKnown(Progress(r))
<1> DEFINE from  == CHOOSE f \in Starts : TRUE
           cond  == CalculateBusCondition(r.st, from)
           q     == [r EXCEPT !.st = cond]
           begun == BeginBusStep(q, StepUt)
<1>1. /\ q \in Replica(n) /\ begun \in Replica(n)
      /\ Progress(r) = IF Synchronised(begun) THEN ConsumeSlots(begun) ELSE begun
  BY ProgressIs
<1>2. q.st = cond /\ r.st \in NodeStates
  BY DEF Replica
<1>3. \A m \in Node : cond.poc[m] = "Halt" => m \in cond.known
  BY <1>2, ConditionState DEF HaltKnown
<1> HIDE DEF q, cond
<1>4. begun.st = q.st
  BY <1>1 DEF BeginBusStep, Replica
<1> HIDE DEF begun
<1>5. Progress(r).st = cond
  BY <1>1, <1>2, <1>4, ConsumeSlotsState
<1> QED
  BY <1>3, <1>5 DEF HaltKnown

\* What a PDU does to the states of the nodes.
LEMMA ConsumePoc ==
  ASSUME NEW n, NEW r \in Replica(n), NEW p \in Packet
  PROVE  /\ HaltKnown(r) => HaltKnown(Consume(r, p))
         /\ \A m \in Node : m # p.node => Consume(r, p).st.poc[m] = r.st.poc[m]
<1>1. r.st \in NodeStates /\ p.node \in Node
  BY DEF Replica, Packet, ConfigPdus, StatusPdus, LpduPdus
<1>2. CASE p.type = "Config"
  <2> DEFINE q == ProcessConfig(r, p)
             a == RegisterNode(RegisterVcn(q.st, p.vcns), p.node, "on")
             b == SetPocState(a, p.node, p.poc)
  <2>1. q \in Replica(n) /\ q.st = r.st
    BY <1>2, ProcessConfigType DEF ProcessConfig, Replica
  <2>2. Consume(r, p) = [q EXCEPT !.st = b]
    BY <1>2 DEF Consume, ConsumeConfig
  <2> HIDE DEF q
  <2>3. a.poc = r.st.poc /\ a.known = r.st.known \union {p.node} /\ DOMAIN a = DOMAIN r.st
    <3>1. q.st \in NodeStates
      BY <2>1 DEF Replica
    <3> QED
      BY <2>1, <3>1 DEF RegisterNode, RegisterVcn, NodeStates
  <2> HIDE DEF a
  <2>4. b.poc = [r.st.poc EXCEPT ![p.node] = p.poc] /\ b.known = r.st.known \union {p.node}
    BY <1>1, <2>3 DEF SetPocState, SetTransceiver, NodeStates
  <2> HIDE DEF b
  <2>5. Consume(r, p).st = b
    BY <2>1, <2>2 DEF Replica
  <2> QED
    BY <1>1, <2>4, <2>5 DEF HaltKnown, NodeStates
<1>3. CASE p.type = "Status"
  <2> DEFINE q == IF p.node \in r.st.known /\ EntersDefaultConfig(r.st.poc[p.node], p.command)
                  THEN DropLpdus(r, p.node) ELSE r
             b == PushNodeState(q.st, p.node, p.command)
  <2>1. q \in Replica(n) /\ q.st = r.st
    BY DropLpdusIs DEF Replica
  <2>2. Consume(r, p) = [q EXCEPT !.st = b]
    BY <1>3 DEF Consume, ConsumeStatus
  <2> HIDE DEF q
  <2>3. b.known = r.st.known /\ \A m \in Node : m # p.node => b.poc[m] = r.st.poc[m]
    BY <1>1, <2>1 DEF PushNodeState, SetTransceiver, NodeStates
  <2>4. p.node \notin r.st.known => b = r.st
    BY <2>1 DEF PushNodeState
  <2> HIDE DEF b
  <2>5. Consume(r, p).st = b
    BY <2>1, <2>2 DEF Replica
  <2> QED
    BY <2>3, <2>4, <2>5 DEF HaltKnown
<1>4. CASE p.type = "Lpdu"
  <2>1. p \in LpduPdus
    BY <1>4 DEF Packet, ConfigPdus, StatusPdus
  <2>2. Consume(r, p).st = r.st
    BY <1>4, <2>1, ConsumeLpduTables DEF Consume
  <2> QED
    BY <2>2 DEF HaltKnown
<1> QED
  BY <1>2, <1>3, <1>4 DEF Packet, ConfigPdus, StatusPdus, LpduPdus

\* Two positions of what is chosen come from two positions.
LEMMA ChosenIsInjective ==
  ASSUME NEW S, NEW s \in Seq(S), NEW I \in SUBSET DOMAIN s,
         NEW a \in DOMAIN Chosen(s, I), NEW b \in DOMAIN Chosen(s, I)
  PROVE  \E i \in I, j \in I : /\ Chosen(s, I)[a] = s[i] /\ Chosen(s, I)[b] = s[j]
                               /\ i = j => a = b
<1>1a. PICK k \in Nat : \E h : Chooses(h, k, I, DOMAIN s)
  BY ChosenIs
<1>1. PICK h : Chooses(h, k, I, DOMAIN s)
  BY <1>1a
<1>2. Chosen(s, I) = [x \in 1 .. k |-> s[h[x]]]
  BY <1>1 DEF Chooses
<1>3. a \in 1 .. k /\ b \in 1 .. k
  BY <1>2
<1>4. h[a] \in I /\ h[b] \in I /\ (a < b => h[a] < h[b]) /\ (b < a => h[b] < h[a])
  BY <1>1, <1>3 DEF Chooses, Reading!Enumerates
<1>5. \A x \in I : x \in Int
  OBVIOUS
<1>6. h[a] = h[b] => a = b
  BY <1>3, <1>4, <1>5
<1> QED
  BY <1>2, <1>3, <1>4, <1>6

LEMMA DropUnique ==
  ASSUME NEW n, NEW r \in Replica(n), NEW m, NEW x
  PROVE  /\ Unique(r, m) => Unique(DropLpdus(r, x), m)
         /\ Absent(r, m) => Absent(DropLpdus(r, x), m)
         /\ Absent(DropLpdus(r, x), x)
<1> DEFINE q == DropLpdus(r, x)
<1>1. q.slots = [s \in Slot |-> Chosen(r.slots[s], Others(r.slots[s], x))]
  <2>1. q = [r EXCEPT !.slots = [s \in Slot |-> Chosen(r.slots[s], Others(r.slots[s], x))]]
    BY DropLpdusIs
  <2> HIDE DEF q
  <2> QED
    BY <2>1 DEF Replica
<1> HIDE DEF q
<1>2. ASSUME NEW s \in Slot, NEW a \in DOMAIN q.slots[s], NEW b \in DOMAIN q.slots[s]
      PROVE  \E i, j \in DOMAIN r.slots[s] :
               /\ q.slots[s][a] = r.slots[s][i] /\ q.slots[s][b] = r.slots[s][j]
               /\ i = j => a = b
               /\ EcuOf[r.slots[s][i].node] # EcuOf[x]
  <2> DEFINE t == r.slots[s]
             I == Others(t, x)
  <2>1. t \in Seq(LpduType) /\ I \in SUBSET DOMAIN t /\ q.slots[s] = Chosen(t, I)
    BY <1>1 DEF Replica, SlotMap, Others
  <2>2. \A i \in I : EcuOf[t[i].node] # EcuOf[x]
    BY DEF Others
  <2> HIDE DEF t, I
  <2>3. PICK i \in I, j \in I : /\ Chosen(t, I)[a] = t[i] /\ Chosen(t, I)[b] = t[j]
                                /\ i = j => a = b
    BY <2>1, ChosenIsInjective
  <2> QED
    BY <2>1, <2>2, <2>3 DEF t
<1>3. Unique(r, m) => Unique(q, m)
  BY <1>2 DEF Unique
<1>4. Absent(r, m) => Absent(q, m)
  BY <1>2 DEF Absent
<1>5. Absent(q, x)
  BY <1>2 DEF Absent
<1> QED
  BY <1>3, <1>4, <1>5 DEF q

LEMMA ConfigUnique ==
  ASSUME NEW n, NEW r \in Replica(n), NEW p \in Packet, p.type = "Config", NEW m \in Node,
         DistinctFrames
  PROVE  /\ (Unique(r, m) /\ (p.node = m /\ p.accepted => Absent(r, m)))
              => Unique(ConsumeConfig(r, p), m)
         /\ (Absent(r, m) /\ ~(p.node = m /\ p.accepted)) => Absent(ConsumeConfig(r, p), m)
<1>1. /\ p \in ConfigPdus /\ \A i \in DOMAIN p.table : p.table[i].payload = NoPayload
      /\ p.table = FrameTable[p.node] /\ p.node \in Node /\ p.table \in Seq(LpduType)
  BY DEF Packet, ConfigPdus, StatusPdus, LpduPdus
<1> DEFINE q == ProcessConfig(r, p)
<1>2. q \in Replica(n)
  BY ProcessConfigType
<1>3. ConsumeConfig(r, p).slots = q.slots
  <2>1. PICK st : ConsumeConfig(r, p) = [q EXCEPT !.st = st]
    BY DEF ConsumeConfig
  <2> HIDE DEF q
  <2> QED
    BY <1>2, <2>1 DEF Replica
<1>4. CASE ~p.accepted
  BY <1>3, <1>4 DEF ProcessConfig, Unique, Absent
<1>5. CASE p.accepted
  <2>1. q.slots = [s \in Slot |-> r.slots[s] \o TableOf(p.table, s)]
    BY <1>5 DEF ProcessConfig, Replica, TableOf
  <2> HIDE DEF q
  <2>2. ASSUME NEW s \in Slot
        PROVE  \E k \in Nat, l \in Nat :
                 /\ DOMAIN r.slots[s] = 1 .. k
                 /\ DOMAIN q.slots[s] = 1 .. k + l
                 /\ \A i \in 1 .. k : q.slots[s][i] = r.slots[s][i]
                 /\ \A i, j \in 1 .. l :
                      /\ q.slots[s][k + i].node = p.node
                      /\ q.slots[s][k + i].frame = q.slots[s][k + j].frame => i = j
    <3> DEFINE t == r.slots[s]
               u == TableOf(p.table, s)
               I == {i \in DOMAIN p.table : p.table[i].slot = s}
    <3>1. t \in Seq(LpduType)
      BY DEF Replica, SlotMap
    <3>2. u = Chosen(p.table, I) /\ u \in Seq(LpduIn(s)) /\ LpduIn(s) \subseteq LpduType
      BY <1>1, TableOfType DEF LpduIn
    <3>3. u \in Seq(LpduType) /\ q.slots[s] = t \o u
      BY <2>1, <3>2, SubsetOfSeq
    <3>4. I \in SUBSET DOMAIN p.table
      OBVIOUS
    <3>5. \A i \in I : p.table[i].slot = s /\ p.table[i].node = p.node
      BY <1>1, NetworkAssumption DEF ToSet
    <3> HIDE DEF t, u, I
    <3>6. PICK k \in Nat, l \in Nat : k = Len(t) /\ l = Len(u)
      BY <3>1, <3>3
    <3>7. /\ DOMAIN t = 1 .. k /\ DOMAIN u = 1 .. l /\ DOMAIN (t \o u) = 1 .. k + l
          /\ \A i \in 1 .. k : (t \o u)[i] = t[i]
          /\ \A i \in 1 .. l : (t \o u)[k + i] = u[i]
      BY <3>1, <3>3, <3>6
    <3>8. ASSUME NEW a \in 1 .. l, NEW b \in 1 .. l
          PROVE  u[a].node = p.node /\ (u[a].frame = u[b].frame => a = b)
      <4> DEFINE table == p.table
      <4>0. table \in Seq(LpduType) /\ I \in SUBSET DOMAIN table /\ u = Chosen(table, I)
            /\ a \in DOMAIN u /\ b \in DOMAIN u
        BY <1>1, <3>2, <3>4, <3>7
      <4>1. PICK i \in I, j \in I : /\ u[a] = p.table[i] /\ u[b] = p.table[j]
                                    /\ i = j => a = b
        <5> HIDE DEF table
        <5>1. a \in DOMAIN Chosen(table, I) /\ b \in DOMAIN Chosen(table, I)
          BY <4>0
        <5>2. PICK i \in I, j \in I : /\ Chosen(table, I)[a] = table[i]
                                      /\ Chosen(table, I)[b] = table[j]
                                      /\ i = j => a = b
          BY <4>0, <5>1, ChosenIsInjective
        <5>3. u[a] = table[i] /\ u[b] = table[j]
          BY <4>0, <5>2
        <5> QED
          BY <5>2, <5>3 DEF table
      <4>2. p.table[i].frame = p.table[j].frame => i = j
        BY <1>1, <3>4, <3>5 DEF DistinctFrames
      <4> QED
        BY <3>5, <4>1, <4>2
    <3>9. /\ DOMAIN r.slots[s] = 1 .. k
          /\ DOMAIN q.slots[s] = 1 .. k + l
          /\ \A i \in 1 .. k : q.slots[s][i] = r.slots[s][i]
          /\ \A i \in 1 .. l : q.slots[s][k + i] = u[i]
      BY <3>3, <3>7 DEF t
    <3>10. ASSUME NEW i \in 1 .. l, NEW j \in 1 .. l
           PROVE  /\ q.slots[s][k + i].node = p.node
                  /\ q.slots[s][k + i].frame = q.slots[s][k + j].frame => i = j
      <4>1. q.slots[s][k + i] = u[i] /\ q.slots[s][k + j] = u[j]
        BY <3>9
      <4>2. u[i].node = p.node /\ (u[i].frame = u[j].frame => i = j)
        BY <3>8
      <4> QED
        BY <4>1, <4>2
    <3> QED
      BY <3>9, <3>10
  <2>3. ASSUME NEW s \in Slot, NEW a \in DOMAIN q.slots[s]
        PROVE  \/ a \in DOMAIN r.slots[s] /\ q.slots[s][a] = r.slots[s][a]
               \/ a \notin DOMAIN r.slots[s] /\ q.slots[s][a].node = p.node
    <3>1. PICK k \in Nat, l \in Nat :
            /\ DOMAIN r.slots[s] = 1 .. k
            /\ DOMAIN q.slots[s] = 1 .. k + l
            /\ \A i \in 1 .. k : q.slots[s][i] = r.slots[s][i]
            /\ \A i, j \in 1 .. l :
                 /\ q.slots[s][k + i].node = p.node
                 /\ q.slots[s][k + i].frame = q.slots[s][k + j].frame => i = j
      BY <2>2
    <3>2. CASE a <= k
      BY <3>1, <3>2
    <3>3. CASE ~(a <= k)
      <4>1. a - k \in 1 .. l /\ k + (a - k) = a
        BY <3>1, <3>3
      <4> QED
        BY <3>1, <3>3, <4>1
    <3> QED
      BY <3>2, <3>3
  <2>4. ASSUME NEW s \in Slot, NEW a \in DOMAIN q.slots[s], NEW b \in DOMAIN q.slots[s],
               a \notin DOMAIN r.slots[s], b \notin DOMAIN r.slots[s],
               q.slots[s][a].frame = q.slots[s][b].frame
        PROVE  a = b
    <3>1. PICK k \in Nat, l \in Nat :
            /\ DOMAIN r.slots[s] = 1 .. k
            /\ DOMAIN q.slots[s] = 1 .. k + l
            /\ \A i \in 1 .. k : q.slots[s][i] = r.slots[s][i]
            /\ \A i, j \in 1 .. l :
                 /\ q.slots[s][k + i].node = p.node
                 /\ q.slots[s][k + i].frame = q.slots[s][k + j].frame => i = j
      BY <2>2
    <3>2. /\ a - k \in 1 .. l /\ k + (a - k) = a
          /\ b - k \in 1 .. l /\ k + (b - k) = b
      BY <2>4, <3>1
    <3>3. a - k = b - k
      BY <2>4, <3>1, <3>2
    <3> QED
      BY <3>2, <3>3
  <2>5. ASSUME Unique(r, m), p.node = m => Absent(r, m) PROVE Unique(q, m)
    <3> SUFFICES ASSUME NEW s \in Slot, NEW a \in DOMAIN q.slots[s], NEW b \in DOMAIN q.slots[s],
                        q.slots[s][a].node = m, q.slots[s][b].node = m,
                        q.slots[s][a].frame = q.slots[s][b].frame
                 PROVE  a = b
      BY DEF Unique
    <3>1. CASE p.node = m
      <4>1. a \notin DOMAIN r.slots[s] /\ b \notin DOMAIN r.slots[s]
        BY <2>3, <2>5, <3>1 DEF Absent
      <4> QED
        BY <2>4, <4>1
    <3>2. CASE p.node # m
      <4>1. /\ a \in DOMAIN r.slots[s] /\ q.slots[s][a] = r.slots[s][a]
            /\ b \in DOMAIN r.slots[s] /\ q.slots[s][b] = r.slots[s][b]
        BY <2>3, <3>2
      <4> QED
        BY <2>5, <4>1 DEF Unique
    <3> QED
      BY <3>1, <3>2
  <2>6. ASSUME Absent(r, m), p.node # m PROVE Absent(q, m)
    BY <2>3, <2>6 DEF Absent
  <2> QED
    BY <1>3, <1>5, <2>5, <2>6 DEF Unique, Absent
<1> QED
  BY <1>4, <1>5

\* Only an accepted Config adds LPDUs, those of its node; they are not there
\* twice if there were none.
LEMMA ConsumeUnique ==
  ASSUME NEW n, NEW r \in Replica(n), NEW p \in Packet, NEW m \in Node, DistinctFrames
  PROVE  LET adds == p.type = "Config" /\ p.node = m /\ p.accepted
         IN  /\ (Unique(r, m) /\ (adds => Absent(r, m))) => Unique(Consume(r, p), m)
             /\ (Absent(r, m) /\ ~adds) => Absent(Consume(r, p), m)
<1>1. CASE p.type = "Config"
  BY <1>1, ConfigUnique DEF Consume
<1>2. CASE p.type = "Status"
  <2> DEFINE q == IF p.node \in r.st.known /\ EntersDefaultConfig(r.st.poc[p.node], p.command)
                  THEN DropLpdus(r, p.node) ELSE r
  <2>1. q \in Replica(n) /\ (Unique(r, m) => Unique(q, m)) /\ (Absent(r, m) => Absent(q, m))
    BY DropLpdusIs, DropUnique
  <2>2. Consume(r, p) = [q EXCEPT !.st = PushNodeState(q.st, p.node, p.command)]
    BY <1>2 DEF Consume, ConsumeStatus
  <2> HIDE DEF q
  <2>3. Consume(r, p).slots = q.slots
    BY <2>1, <2>2 DEF Replica
  <2> QED
    BY <1>2, <2>1, <2>3 DEF Unique, Absent
<1>3. CASE p.type = "Lpdu"
  <2>1. p \in LpduPdus
    BY <1>3 DEF Packet, ConfigPdus, StatusPdus
  <2> QED
    BY <1>3, <2>1, ConsumeLpduTables, SameTablesUnique DEF Consume
<1> QED
  BY <1>1, <1>2, <1>3 DEF Packet, ConfigPdus, StatusPdus, LpduPdus

\* A node that is restarted after a halt has nothing left in the slots.
LEMMA RestartDrops ==
  ASSUME NEW n, NEW r \in Replica(n), NEW m \in Node, r.st.poc[m] = "Halt", m \in r.st.known
  PROVE  Absent(Consume(r, StatusPdu(m, "Config")), m)
<1> DEFINE p == StatusPdu(m, "Config")
           q == DropLpdus(r, m)
<1>1. p.type = "Status" /\ p.node = m /\ p.command = "Config"
  BY DEF StatusPdu
<1>2. Consume(r, p) = [q EXCEPT !.st = PushNodeState(q.st, m, "Config")]
  <2>1. Consume(r, p) = ConsumeStatus(r, p)
    BY <1>1 DEF Consume
  <2> HIDE DEF p
  <2> QED
    BY <1>1, <2>1 DEF ConsumeStatus, EntersDefaultConfig
<1>3. q \in Replica(n) /\ Absent(q, m)
  BY DropLpdusIs, DropUnique
<1> HIDE DEF p, q
<1>4. Consume(r, p).slots = q.slots
  BY <1>2, <1>3 DEF Replica
<1>5. Absent(Consume(r, p), m)
  BY <1>3, <1>4 DEF Absent
<1> QED
  BY <1>5 DEF p

\* A replica as it will be when the PDUs written so far are read.
After(n) == FoldLeft(Consume, Later(n), wire)

\* No LPDU is in a replica twice, neither now nor when the PDUs on their way are
\* read; for that a node that was not configured yet must have none, and a node
\* that reads of itself that it is halted must still be so, in every replica, when
\* its Status and its Config arrive.
IInvTables ==
  \A n \in Node :
    /\ out[n] = Emit(rep[n])
    /\ HaltKnown(After(n))
    /\ \A m \in Node :
         /\ Unique(rep[n], m) /\ Unique(Later(n), m) /\ Unique(After(n), m)
         /\ ~app[m].configured => Absent(After(n), m)
         /\ m \in silent => After(n).st.poc[m] = Later(n).st.poc[m]

LEMMA AfterType ==
  ASSUME IInvTypes, NEW n \in Node
  PROVE  Later(n) \in Replica(n) /\ After(n) \in Replica(n)
<1>1. Later(n) \in Replica(n)
  <2>1. FoldLeft(Consume, rep[n], inbox) \in Replica(n)
    BY ReadingType DEF IInvTypes
  <2> QED
    BY <2>1, ProgressType DEF Later, IInvTypes
<1>2. After(n) \in Replica(n)
  BY <1>1, ReadingType DEF After, IInvTypes
<1> QED
  BY <1>1, <1>2

Adds(p, m) == p.type = "Config" /\ p.node = m /\ p.accepted

LEMMA ReadingUnique ==
  ASSUME DistinctFrames, NEW n, NEW r \in Replica(n), NEW m \in Node,
         NEW pdus \in Seq(Packet), \A i \in DOMAIN pdus : ~Adds(pdus[i], m)
  PROVE  LET q == FoldLeft(Consume, r, pdus)
         IN  /\ HaltKnown(r) => HaltKnown(q)
             /\ Unique(r, m) => Unique(q, m)
             /\ Absent(r, m) => Absent(q, m)
<1> DEFINE S == {q \in Replica(n) : /\ HaltKnown(r) => HaltKnown(q)
                                    /\ Unique(r, m) => Unique(q, m)
                                    /\ Absent(r, m) => Absent(q, m)}
           T == {p \in Packet : ~Adds(p, m)}
<1>1. r \in S
  OBVIOUS
<1>2. pdus \in Seq(T)
  OBVIOUS
<1>3. ASSUME NEW q \in S, NEW p \in T PROVE Consume(q, p) \in S
  <2>1. /\ Consume(q, p) \in Replica(n)
        /\ HaltKnown(q) => HaltKnown(Consume(q, p))
    BY ConsumeType, ConsumePoc
  <2>2. /\ Unique(q, m) => Unique(Consume(q, p), m)
        /\ Absent(q, m) => Absent(Consume(q, p), m)
    BY ConsumeUnique DEF Adds
  <2> QED
    BY <2>1, <2>2
<1> HIDE DEF S, T
<1>4. Reading!Fold(r, pdus) \in S
  BY <1>1, <1>2, <1>3, Reading!FoldStaysIn
<1>5. FoldLeft(Consume, r, pdus) \in S
  BY <1>4, ReadingIsFold
<1> QED
  BY <1>5 DEF S

\* Only its own PDUs change the state of a node.
LEMMA ReadingPoc ==
  ASSUME NEW n, NEW r \in Replica(n), NEW m \in Node,
         NEW pdus \in Seq(Packet), \A i \in DOMAIN pdus : pdus[i].node # m
  PROVE  FoldLeft(Consume, r, pdus).st.poc[m] = r.st.poc[m]
<1> DEFINE S == {q \in Replica(n) : q.st.poc[m] = r.st.poc[m]}
           T == {p \in Packet : p.node # m}
<1>1. r \in S
  OBVIOUS
<1>2. pdus \in Seq(T)
  OBVIOUS
<1>3. ASSUME NEW q \in S, NEW p \in T PROVE Consume(q, p) \in S
  BY ConsumeType, ConsumePoc
<1> HIDE DEF S, T
<1>4. Reading!Fold(r, pdus) \in S
  BY <1>1, <1>2, <1>3, Reading!FoldStaysIn
<1>5. FoldLeft(Consume, r, pdus) \in S
  BY <1>4, ReadingIsFold
<1> QED
  BY <1>5 DEF S

LEMMA ReadingConcat ==
  ASSUME NEW r, NEW a \in Seq(Packet), NEW b \in Seq(Packet)
  PROVE  FoldLeft(Consume, r, a \o b) = FoldLeft(Consume, FoldLeft(Consume, r, a), b)
<1>1. Reading!Fold(r, a \o b) = Reading!Fold(Reading!Fold(r, a), b)
  BY Reading!FoldOfConcat
<1> QED
  BY <1>1, ReadingIsFold

LEMMA ReadingOne ==
  ASSUME NEW r, NEW p
  PROVE  FoldLeft(Consume, r, <<p>>) = Consume(r, p) /\ FoldLeft(Consume, r, <<>>) = r
<1>1. Reading!Fold(r, <<p>>) = Consume(r, p) /\ Reading!Fold(r, <<>>) = r
  BY Reading!FoldOfOne, Reading!FoldOfNone
<1> QED
  BY <1>1, ReadingIsFold

\* What a write adds is read after what was written before.
LEMMA AfterWrite ==
  ASSUME IInvTypes, NEW m \in Node, NEW pdus \in Seq(Packet), Write(m, pdus), NEW n \in Node
  PROVE  /\ Later(n)' = Later(n)
         /\ After(n)' = FoldLeft(Consume, FoldLeft(Consume, After(n), pdus), Rearmed(m))
<1>1. UNCHANGED <<rep, inbox, todo>> /\ wire' = wire \o pdus \o Rearmed(m)
  BY DEF Write
<1>2. Rearmed(m) \in Seq(Packet)
  BY RearmedType
<1>3. Later(n)' = Later(n)
  BY <1>1 DEF Later
<1>4. wire \in Seq(Packet) /\ wire \o pdus \in Seq(Packet)
  BY DEF IInvTypes
<1>5. After(n)' = FoldLeft(Consume, Later(n), wire \o pdus \o Rearmed(m))
  BY <1>1, <1>3 DEF After
<1> DEFINE a == wire \o pdus
<1> HIDE DEF a
<1>6. FoldLeft(Consume, Later(n), a \o Rearmed(m))
        = FoldLeft(Consume, FoldLeft(Consume, Later(n), a), Rearmed(m))
  BY <1>2, <1>4, ReadingConcat DEF a
<1>7. FoldLeft(Consume, Later(n), a) = FoldLeft(Consume, After(n), pdus)
  BY <1>4, ReadingConcat DEF a, After
<1> QED
  BY <1>3, <1>5, <1>6, <1>7 DEF a

\* What a write has to do to keep the invariant.
LEMMA WriteTables ==
  ASSUME IInvTypes, IInvTables, DistinctFrames, NEW m \in Node, NEW pdus \in Seq(Packet),
         \A i \in DOMAIN pdus : pdus[i].node = m, Write(m, pdus),
         \A k \in Node \ {m} : app'[k].configured = app[k].configured,
         \A n \in Node : LET q == FoldLeft(Consume, After(n), pdus)
                         IN  /\ HaltKnown(q) /\ Unique(q, m)
                             /\ ~app'[m].configured => Absent(q, m)
  PROVE  IInvTables'
<1>1. UNCHANGED <<rep, out, inbox, todo>> /\ silent' = silent \ {m}
      /\ wire' = wire \o pdus \o Rearmed(m)
  BY DEF Write
<1>2. Rearmed(m) \in Seq(Packet) /\ \A i \in DOMAIN Rearmed(m) : /\ Rearmed(m)[i].node = m
                                                                /\ Rearmed(m)[i].type = "Lpdu"
  <2>1. Rearmed(m) \in Seq(Packet)
    BY RearmedType
  <2> QED
    BY <2>1 DEF Rearmed
<1>3. ASSUME NEW n \in Node
      PROVE  /\ out'[n] = Emit(rep'[n])
             /\ HaltKnown(After(n)')
             /\ \A k \in Node :
                  /\ Unique(rep'[n], k) /\ Unique(Later(n)', k) /\ Unique(After(n)', k)
                  /\ ~app'[k].configured => Absent(After(n)', k)
                  /\ k \in silent' => After(n)'.st.poc[k] = Later(n)'.st.poc[k]
  <2> DEFINE q == FoldLeft(Consume, After(n), pdus)
             z == FoldLeft(Consume, q, Rearmed(m))
  <2>1. Later(n)' = Later(n) /\ out'[n] = Emit(rep'[n]) /\ rep' = rep
    BY <1>1, AfterWrite DEF IInvTables
  <2>2. After(n)' = z
    BY AfterWrite
  <2>3. After(n) \in Replica(n) /\ q \in Replica(n)
    BY AfterType, ReadingType
  <2>4. HaltKnown(q) /\ Unique(q, m) /\ (~app'[m].configured => Absent(q, m))
    OBVIOUS
  <2>5. ASSUME NEW k \in Node
        PROVE  /\ HaltKnown(q) => HaltKnown(z)
               /\ Unique(q, k) => Unique(z, k)
               /\ Absent(q, k) => Absent(z, k)
    <3>1. \A i \in DOMAIN Rearmed(m) : ~Adds(Rearmed(m)[i], k)
      BY <1>2 DEF Adds
    <3> HIDE DEF q
    <3> QED
      BY <1>2, <2>3, <3>1, ReadingUnique
  <2>6. ASSUME NEW k \in Node \ {m}
        PROVE  /\ Unique(After(n), k) => Unique(q, k)
               /\ Absent(After(n), k) => Absent(q, k)
               /\ z.st.poc[k] = After(n).st.poc[k]
    <3>1. \A i \in DOMAIN pdus : ~Adds(pdus[i], k)
      BY DEF Adds
    <3>2. /\ Unique(After(n), k) => Unique(q, k)
          /\ Absent(After(n), k) => Absent(q, k)
      BY <2>3, <3>1, ReadingUnique
    <3>3. q.st.poc[k] = After(n).st.poc[k]
      BY <2>3, ReadingPoc
    <3> HIDE DEF q
    <3>4. z.st.poc[k] = q.st.poc[k]
      BY <1>2, <2>3, ReadingPoc
    <3> QED
      BY <3>2, <3>3, <3>4
  <2> HIDE DEF q, z
  <2>7. HaltKnown(z)
    BY <2>4, <2>5
  <2>8. ASSUME NEW k \in Node
        PROVE  /\ Unique(rep[n], k) /\ Unique(Later(n), k) /\ Unique(z, k)
               /\ ~app'[k].configured => Absent(z, k)
               /\ k \in silent' => z.st.poc[k] = Later(n).st.poc[k]
    <3>1. /\ Unique(rep[n], k) /\ Unique(Later(n), k) /\ Unique(After(n), k)
          /\ ~app[k].configured => Absent(After(n), k)
          /\ k \in silent => After(n).st.poc[k] = Later(n).st.poc[k]
      BY DEF IInvTables
    <3>2. CASE k = m
      BY <1>1, <2>4, <2>5, <3>1, <3>2
    <3>3. CASE k # m
      <4>1. k \in Node \ {m} /\ app'[k].configured = app[k].configured
        BY <3>3
      <4> QED
        BY <1>1, <2>5, <2>6, <3>1, <4>1
    <3> QED
      BY <3>2, <3>3
  <2> QED
    BY <2>1, <2>2, <2>7, <2>8
<1> QED
  BY <1>3 DEF IInvTables

LEMMA InitTables == Init => IInvTables
<1> SUFFICES ASSUME Init, NEW n \in Node
             PROVE  /\ out[n] = Emit(rep[n])
                    /\ HaltKnown(After(n))
                    /\ \A m \in Node :
                         /\ Unique(rep[n], m) /\ Unique(Later(n), m) /\ Unique(After(n), m)
                         /\ ~app[m].configured => Absent(After(n), m)
                         /\ m \in silent => After(n).st.poc[m] = Later(n).st.poc[m]
  BY DEF IInvTables
<1>1. rep[n] = ZeroReplica(n) /\ out[n] = Emit(rep[n]) /\ Later(n) = rep[n]
  BY DEF Init, Later
<1>2. After(n) = Later(n)
  BY ReadingOne DEF Init, After
<1>3. HaltKnown(ZeroReplica(n))
  BY DEF HaltKnown, ZeroReplica, ZeroState
<1>4. \A m \in Node : Unique(ZeroReplica(n), m) /\ Absent(ZeroReplica(n), m)
  BY DEF Unique, Absent, ZeroReplica
<1> QED
  BY <1>1, <1>2, <1>3, <1>4

\* PDUs that add nothing keep the invariant.
LEMMA PlainWriteTables ==
  ASSUME IInvTypes, IInvTables, DistinctFrames, NEW m \in Node, NEW pdu \in Packet,
         pdu.node = m, ~Adds(pdu, m), Write(m, <<pdu>>) \/ Write(m, <<>>),
         \A k \in Node : app'[k].configured = app[k].configured
  PROVE  IInvTables'
<1>1. ASSUME NEW n \in Node, NEW pdus \in Seq(Packet), \A i \in DOMAIN pdus : ~Adds(pdus[i], m)
      PROVE  LET q == FoldLeft(Consume, After(n), pdus)
             IN  /\ HaltKnown(q) /\ Unique(q, m)
                 /\ ~app'[m].configured => Absent(q, m)
  <2>1. After(n) \in Replica(n)
    BY AfterType
  <2>2. /\ HaltKnown(After(n)) /\ Unique(After(n), m)
        /\ ~app[m].configured => Absent(After(n), m)
    BY DEF IInvTables
  <2> QED
    BY <1>1, <2>1, <2>2, ReadingUnique
<1>2. CASE Write(m, <<pdu>>)
  <2> DEFINE pdus == <<pdu>>
  <2>1. pdus \in Seq(Packet) /\ \A i \in DOMAIN pdus : pdus[i] = pdu
    OBVIOUS
  <2> HIDE DEF pdus
  <2>2. Write(m, pdus)
    BY <1>2 DEF pdus
  <2> QED
    BY <1>1, <2>1, <2>2, WriteTables
<1>3. CASE Write(m, <<>>)
  <2> DEFINE pdus == <<>>
  <2>1. pdus \in Seq(Packet) /\ DOMAIN pdus = {}
    OBVIOUS
  <2> HIDE DEF pdus
  <2>2. Write(m, pdus)
    BY <1>3 DEF pdus
  <2> QED
    BY <1>1, <2>1, <2>2, WriteTables
<1> QED
  BY <1>2, <1>3

\* The first Config that is accepted adds to slots that have nothing of its node.
LEMMA ConfigTables ==
  ASSUME IInvTypes, IInvTables, DistinctFrames, NEW m \in Node, NEW accepted \in BOOLEAN,
         WriteConfig(m, accepted)
  PROVE  IInvTables'
<1> DEFINE pdu == ConfigPdu(m, accepted)
           pdus == <<pdu>>
<1>1. pdu \in Packet /\ pdu.node = m /\ pdu.type = "Config" /\ pdu.accepted = accepted
  BY ConfigPduType DEF ConfigPdu
<1>2. Write(m, pdus) /\ ~app[m].configured
  BY DEF WriteConfig
<1>3. /\ app'[m].configured = accepted
      /\ \A k \in Node \ {m} : app'[k].configured = app[k].configured
  BY DEF WriteConfig, IInvTypes, AppState
<1>4. \A n \in Node : FoldLeft(Consume, After(n), pdus) = Consume(After(n), pdu)
  BY ReadingOne
<1> HIDE DEF pdu
<1>5. pdus \in Seq(Packet) /\ \A i \in DOMAIN pdus : pdus[i].node = m
  BY <1>1
<1> HIDE DEF pdus
<1>6. ASSUME NEW n \in Node
      PROVE  LET q == FoldLeft(Consume, After(n), pdus)
             IN  /\ HaltKnown(q) /\ Unique(q, m)
                 /\ ~app'[m].configured => Absent(q, m)
  <2>1. After(n) \in Replica(n)
    BY AfterType
  <2>2. HaltKnown(After(n)) /\ Unique(After(n), m) /\ Absent(After(n), m)
    BY <1>2 DEF IInvTables
  <2>3. HaltKnown(Consume(After(n), pdu))
    BY <1>1, <2>1, <2>2, ConsumePoc
  <2>4. /\ Unique(Consume(After(n), pdu), m)
        /\ ~accepted => Absent(Consume(After(n), pdu), m)
    BY <1>1, <2>1, <2>2, ConsumeUnique
  <2> QED
    BY <1>3, <1>4, <2>3, <2>4
<1> QED
  BY <1>2, <1>3, <1>5, <1>6, WriteTables

\* The two packets of a restart are read one after the other.
LEMMA PairConcat ==
  ASSUME NEW S, NEW x \in S, NEW y \in S
  PROVE  <<x>> \in Seq(S) /\ <<y>> \in Seq(S) /\ <<x, y>> = <<x>> \o <<y>>
<1>1. <<x>> \in Seq(S) /\ <<y>> \in Seq(S) /\ <<x, y>> \in Seq(S)
  OBVIOUS
<1>2. <<x>> \o <<y>> \in Seq(S) /\ Len(<<x>> \o <<y>>) = 2
  BY <1>1
<1>3. (<<x>> \o <<y>>)[1] = x /\ (<<x>> \o <<y>>)[2] = y
  BY <1>1
<1> DEFINE s == <<x>> \o <<y>>
           t == <<x, y>>
<1>4. t \in Seq(S) /\ Len(t) = 2 /\ t[1] = x /\ t[2] = y
  BY <1>1
<1>5. s \in Seq(S) /\ Len(s) = 2 /\ s[1] = x /\ s[2] = y
  BY <1>2, <1>3
<1> HIDE DEF s, t
<1>6. s = t
  BY <1>4, <1>5, SeqEqual
<1> QED
  BY <1>1, <1>6 DEF s, t

\* When a node reads of itself that it is halted it is so in every replica, and
\* still when its restart arrives, which removes its LPDUs.
LEMMA HaltedGone ==
  ASSUME IInvTypes, IInvAgree, IInvTables, NEW m \in Node, WriteRestart(m), NEW n \in Node
  PROVE  LET u == Consume(After(n), StatusPdu(m, "Config"))
         IN  u \in Replica(n) /\ HaltKnown(u) /\ Absent(u, m)
<1> DEFINE a == StatusPdu(m, "Config")
           r == After(n)
<1>1. a \in Packet
  BY StatusPduType DEF PocCommand
<1>2. m \in silent /\ m \notin todo /\ out[m].poc = "Halt"
  BY DEF WriteRestart, Write
<1>3. Later(m).st.poc[m] = "Halt"
  <2>1. Emit(rep[m]).poc = rep[m].st.poc[rep[m].node]
    BY DEF Emit
  <2>2. rep[m].node = m /\ out[m] = Emit(rep[m]) /\ Later(m) = rep[m]
    BY <1>2 DEF IInvTypes, Replica, IInvTables, Later
  <2> QED
    BY <1>2, <2>1, <2>2
<1>4. Later(n).st = Later(m).st
  BY DEF IInvAgree, Alike
<1>5. r \in Replica(n) /\ HaltKnown(r) /\ r.st.poc[m] = "Halt"
  BY <1>2, <1>3, <1>4, AfterType DEF IInvTables
<1>6. m \in r.st.known
  BY <1>5 DEF HaltKnown
<1> HIDE DEF r
<1>7. Consume(r, a) \in Replica(n) /\ HaltKnown(Consume(r, a)) /\ Absent(Consume(r, a), m)
  BY <1>1, <1>5, <1>6, ConsumeType, ConsumePoc, RestartDrops
<1> QED
  BY <1>7 DEF r

LEMMA ReadingPair ==
  ASSUME NEW r, NEW a \in Packet, NEW b \in Packet
  PROVE  FoldLeft(Consume, r, <<a, b>>) = Consume(Consume(r, a), b)
<1>1. <<a>> \in Seq(Packet) /\ <<b>> \in Seq(Packet) /\ <<a, b>> = <<a>> \o <<b>>
  BY PairConcat
<1> DEFINE x == <<a>>
           y == <<b>>
           z == <<a, b>>
<1>2. x \in Seq(Packet) /\ y \in Seq(Packet) /\ z = x \o y
  BY <1>1
<1>3. FoldLeft(Consume, r, x) = Consume(r, a) /\ FoldLeft(Consume, Consume(r, a), y) = Consume(Consume(r, a), b)
  BY ReadingOne
<1> HIDE DEF x, y, z
<1>4. FoldLeft(Consume, r, z) = FoldLeft(Consume, FoldLeft(Consume, r, x), y)
  BY <1>2, ReadingConcat
<1> QED
  BY <1>3, <1>4 DEF z

\* What a node writes to restart removes its LPDUs before it adds others.
LEMMA RestartTables ==
  ASSUME IInvTypes, IInvAgree, IInvTables, DistinctFrames, NEW m \in Node, WriteRestart(m)
  PROVE  IInvTables'
<1> DEFINE a == StatusPdu(m, "Config")
           b == ConfigPdu(m, TRUE)
           pdus == <<a, b>>
<1>1. a \in Packet /\ a.node = m /\ b \in Packet /\ b.node = m
  BY StatusPduType, ConfigPduType DEF PocCommand, StatusPdu, ConfigPdu
<1>2. Write(m, pdus)
  BY DEF WriteRestart
<1>3. app'[m].configured /\ \A k \in Node \ {m} : app'[k].configured = app[k].configured
  BY DEF WriteRestart, IInvTypes, AppState
<1>4. ASSUME NEW n \in Node
      PROVE  LET q == FoldLeft(Consume, After(n), pdus)
             IN  /\ HaltKnown(q) /\ Unique(q, m)
                 /\ ~app'[m].configured => Absent(q, m)
  <2> DEFINE u == Consume(After(n), a)
  <2>1. u \in Replica(n) /\ HaltKnown(u) /\ Absent(u, m)
    BY HaltedGone
  <2>2. Unique(u, m)
    BY <2>1 DEF Absent, Unique
  <2> HIDE DEF a, b
  <2>3. FoldLeft(Consume, After(n), pdus) = Consume(u, b)
    BY <1>1, ReadingPair
  <2> HIDE DEF u
  <2>4. HaltKnown(Consume(u, b)) /\ Unique(Consume(u, b), m)
    BY <1>1, <2>1, <2>2, ConsumePoc, ConsumeUnique
  <2> HIDE DEF pdus
  <2> QED
    BY <1>3, <2>3, <2>4
<1>5. pdus \in Seq(Packet) /\ \A i \in DOMAIN pdus : pdus[i].node = m
  <2> HIDE DEF a, b
  <2> QED
    BY <1>1
<1> HIDE DEF pdus
<1> QED
  BY <1>2, <1>3, <1>4, <1>5, WriteTables

LEMMA NextTables ==
  ASSUME DistinctFrames
  PROVE  IInvTypes /\ IInvAgree /\ IInvTables /\ [Next]_vars => IInvTables'
<1> SUFFICES ASSUME IInvTypes, IInvAgree, IInvTables, [Next]_vars PROVE IInvTables'
  OBVIOUS
<1>1. ASSUME NEW k \in Node, Run(k) PROVE IInvTables'
  <2>1. /\ \A n \in Node : Later(n)' = Later(n)
        /\ rep'[k] = Later(k) /\ \A n \in Node \ {k} : rep'[n] = rep[n]
    BY <1>1, RunLater
  <2>2. wire' = wire /\ silent' = silent /\ app' = app /\ out' = [out EXCEPT ![k] = Emit(rep'[k])]
    BY <1>1 DEF Run
  <2>3. \A n \in Node : After(n)' = After(n)
    BY <2>1, <2>2 DEF After
  <2>4. \A n \in Node : out'[n] = Emit(rep'[n])
    BY <2>1, <2>2 DEF IInvTypes, IInvTables
  <2>5. \A n, m \in Node : Unique(rep'[n], m)
    BY <2>1 DEF IInvTables
  <2> QED
    BY <2>1, <2>2, <2>3, <2>4, <2>5 DEF IInvTables
<1>2. ASSUME NEW m \in Node, NEW accepted \in BOOLEAN, WriteConfig(m, accepted)
      PROVE  IInvTables'
  BY <1>2, ConfigTables
<1>3. ASSUME NEW m \in Node, NEW l \in ToSet(FrameTable[m]), NEW p \in Payload, WriteLpdu(m, l, p)
      PROVE  IInvTables'
  <2> DEFINE pdu == [type |-> "Lpdu", node |-> m, slot |-> l.slot, frame |-> l.frame,
                     status |-> "NotTransmitted", payload |-> p]
  <2>1. pdu \in Packet
    <3>1. p \in Seq(Nat)
      BY NetworkAssumption
    <3> QED
      BY <3>1, IdsOf DEF Packet, LpduPdus, LpduStatus
  <2>2. pdu.node = m /\ ~Adds(pdu, m) /\ Write(m, <<pdu>>)
    BY <1>3 DEF WriteLpdu, Adds
  <2>3. \A k \in Node : app'[k].configured = app[k].configured
    BY <1>3 DEF WriteLpdu, IInvTypes, AppState
  <2> HIDE DEF pdu
  <2> QED
    BY <2>1, <2>2, <2>3, PlainWriteTables
<1>4. ASSUME NEW m \in Node, NEW command \in PocCommand,
             Write(m, <<StatusPdu(m, command)>>) \/ Write(m, <<>>),
             \A k \in Node : app'[k].configured = app[k].configured
      PROVE  IInvTables'
  <2>1. /\ StatusPdu(m, command) \in Packet /\ StatusPdu(m, command).node = m
        /\ ~Adds(StatusPdu(m, command), m)
    BY StatusPduType DEF StatusPdu, Adds
  <2> QED
    BY <1>4, <2>1, PlainWriteTables
<1>5. ASSUME NEW m \in Node, WriteRearm(m) \/ WriteRejoin(m) PROVE IInvTables'
  <2>1. /\ "Nop" \in PocCommand /\ app' = app
        /\ Write(m, <<StatusPdu(m, "Nop")>>) \/ Write(m, <<>>)
    BY <1>5 DEF WriteRearm, WriteRejoin, PocCommand
  <2> QED
    BY <1>4, <2>1
<1>6. ASSUME NEW m \in Node, WriteHalt(m) PROVE IInvTables'
  <2>1. "Halt" \in PocCommand /\ Write(m, <<StatusPdu(m, "Halt")>>)
    BY <1>6 DEF WriteHalt, PocCommand
  <2>2. \A k \in Node : app'[k].configured = app[k].configured
    BY <1>6 DEF WriteHalt, IInvTypes, AppState
  <2> QED
    BY <1>4, <2>1, <2>2
<1>7. ASSUME NEW m \in Node, WriteRestart(m) PROVE IInvTables'
  BY <1>7, RestartTables
<1>8. CASE Exchange
  <2>1. /\ todo = {} /\ todo' = Node /\ rep' = rep /\ inbox' = wire /\ wire' = <<>>
        /\ out' = out /\ app' = app
    BY <1>8 DEF Exchange
  <2>2. ASSUME NEW n \in Node
        PROVE  /\ Later(n)' = Progress(After(n)) /\ After(n)' = Progress(After(n))
    <3>1. After(n) = FoldLeft(Consume, rep[n], wire)
      BY <2>1 DEF After, Later
    <3>2. Later(n)' = Progress(After(n))
      BY <2>1, <3>1 DEF Later
    <3>3. After(n)' = FoldLeft(Consume, Later(n)', <<>>)
      BY <2>1 DEF After
    <3> QED
      BY <3>2, <3>3, ReadingOne
  <2>3. ASSUME NEW n \in Node
        PROVE  /\ HaltKnown(Progress(After(n)))
               /\ \A m \in Node : /\ Unique(Progress(After(n)), m)
                                  /\ ~app[m].configured => Absent(Progress(After(n)), m)
    <3>1. After(n) \in Replica(n)
      BY AfterType
    <3>2. HaltKnown(Progress(After(n)))
      BY <3>1, ProgressHaltKnown DEF IInvTables
    <3> QED
      BY <3>1, <3>2, ProgressTables, SameTablesUnique DEF IInvTables
  <2> QED
    BY <2>1, <2>2, <2>3 DEF IInvTables
<1>9. CASE UNCHANGED vars
  <2>1. \A n \in Node : Later(n)' = Later(n) /\ After(n)' = After(n)
    BY <1>9 DEF vars, Later, After
  <2> QED
    BY <1>9, <2>1 DEF vars, IInvTables
<1> QED
  BY <1>1, <1>2, <1>3, <1>5, <1>6, <1>7, <1>8, <1>9 DEF Next

\* Where a frame table names each LPDU once, no replica ever has an LPDU twice,
\* however nodes are halted, restarted and refused: the Config of a restart adds
\* the node's table again, and __poc_state_defaultconfig() has removed the LPDUs
\* of its earlier life from every replica by then.
THEOREM NoneTwice ==
  ASSUME DistinctFrames
  PROVE  Spec => []NoDuplicateLpdus
<1>1. Init => IInvTypes /\ IInvAgree /\ IInvTables
  BY InitTypes, InitAgree, InitTables
<1>2. IInvTypes /\ IInvAgree /\ IInvTables /\ [Next]_vars => (IInvTypes /\ IInvAgree /\ IInvTables)'
  BY NextTypes, NextAgree, NextTables
<1>3. IInvTables => NoDuplicateLpdus
  BY DEF IInvTables, Unique, NoDuplicateLpdus
<1> QED
  BY <1>1, <1>2, <1>3, PTL DEF Spec
-----------------------------------------------------------------------------
(***************************************************************************)
(* Single shot LPDUs are transmitted once.                                 *)
(***************************************************************************)

\* A single shot LPDU is not pending when it is configured: what it would send
\* nobody has set.
QuietTables ==
  \A n \in Node : \A l \in ToSet(FrameTable[n]) :
    l.dir = "Tx" /\ l.status = "NotTransmitted" => l.continuous

Id(l) == <<l.slot, l.frame>>

\* A pending Tx LPDU of a node is a continuous one or one that it has set.
Awaited(l, n, D) ==
  l.node = n /\ l.dir = "Tx" =>
    IF l.continuous THEN Id(l) \in Continuous(n)
    ELSE l.status = "NotTransmitted" => Id(l) \in D

\* What a node is told of in a step: the Tx LPDUs that it had set and that are not
\* pending any more, the continuous ones, and the Rx LPDUs.
Told(l, n, D) ==
  /\ l.node = n
  /\ IF l.dir = "Tx" THEN ~l.continuous => l.status = "Transmitted" /\ Id(l) \in D
     ELSE l.status \in {"NotReceived", "Received"}

LEMMA IdOfConf ==
  ASSUME NEW l, NEW k, Conf(l) = Conf(k)
  PROVE  Id(l) = Id(k) /\ l.node = k.node /\ l.dir = k.dir /\ l.continuous = k.continuous
BY ConfIs DEF Id

LEMMA TransmittedStatus ==
  ASSUME NEW s \in Slot, NEW l \in LpduIn(s), NEW n, NEW r \in Replica(n), ~l.continuous
  PROVE  Transmitted(r, l).status = "Transmitted"
<1> DEFINE q == Stamped(r, l)
<1>1. q \in LpduIn(s)
  BY StampedIs
<1>2. Transmitted(r, l) = [q EXCEPT !.status = "Transmitted"]
  BY DEF Transmitted
<1> HIDE DEF q
<1> QED
  BY <1>1, <1>2, LpduInType DEF LpduType

LEMMA ReceivedStatus ==
  ASSUME NEW s \in Slot, NEW l \in LpduIn(s), NEW n, NEW r \in Replica(n),
         NEW sent \in Seq(Nat)
  PROVE  Received(r, l, sent).status \in {l.status, "Received"}
<1> DEFINE q == Stamped(r, l)
<1>1. q \in LpduType /\ q.status = l.status
  BY StampedIs, LpduInType
<1> HIDE DEF q
<1>2. CASE IsNullFrame(r)
  <2>1. Received(r, l, sent) = [q EXCEPT !.null = TRUE]
    BY <1>2 DEF Received, q
  <2> QED
    BY <1>1, <2>1 DEF LpduType
<1>3. CASE ~IsNullFrame(r)
  <2> DEFINE payload == IF sent = NoPayload THEN Fit(q.payload, l.len) ELSE Fit(sent, l.len)
  <2>1. Received(r, l, sent) = [q EXCEPT !.null = FALSE, !.status = "Received", !.payload = payload]
    BY <1>3 DEF Received, q
  <2> HIDE DEF payload
  <2> QED
    BY <1>1, <2>1 DEF LpduType
<1> QED
  BY <1>2, <1>3

\* What a frame does to an LPDU of the slot.
LEMMA FrameTells ==
  ASSUME NEW n, NEW r \in Replica(n), NEW tx \in TxIndexes(r), NEW i \in DOMAIN Lpdus(r), NEW D,
         Awaited(Lpdus(r)[i], n, D)
  PROVE  /\ Awaited(AfterFrame(r, tx)[i], n, D)
         /\ Told(Lpdus(r)[i], n, D) => Told(AfterFrame(r, tx)[i], n, D)
         /\ i = tx /\ InformsOf(r, tx) => Told(AfterFrame(r, tx)[i], n, D)
         /\ Receives(r, Lpdus(r)[i]) => Told(AfterFrame(r, tx)[i], n, D)
<1> DEFINE l == Lpdus(r)[i]
           u == Lpdus(r)[tx].payload
           k == AfterFrame(r, tx)[i]
<1>1. /\ r.engine.slot \in Slot /\ l \in LpduIn(r.engine.slot) /\ l \in LpduType
      /\ u \in Seq(Nat) /\ r.node = n
  <2>1. tx \in DOMAIN Lpdus(r)
    BY DEF TxIndexes
  <2>2. r.engine.slot \in Slot /\ l \in LpduIn(r.engine.slot)
    BY LpduAt
  <2>3. Lpdus(r)[tx] \in LpduIn(r.engine.slot)
    BY <2>1, LpduAt
  <2> QED
    BY <2>2, <2>3, LpduInType DEF Replica
<1>2. k = IF i = tx /\ Sends(r, tx) THEN Transmitted(r, l)
          ELSE IF Receives(r, l) THEN Received(r, l, u) ELSE l
  BY DEF AfterFrame
<1>3. i = tx => l.dir = "Tx"
  BY DEF TxIndexes
<1>4. i = tx /\ InformsOf(r, tx) => l.node = n /\ l.status = "NotTransmitted" /\ Sends(r, tx)
  BY <1>1 DEF InformsOf, Sends
<1>5. Receives(r, l) => l.dir = "Rx" /\ l.node = n /\ l.status \in {"NotReceived", "Received"}
  BY <1>1 DEF Receives
<1>6. Awaited(l, n, D)
  OBVIOUS
<1> HIDE DEF l, u, k
<1>7. CASE i = tx /\ Sends(r, tx)
  <2>1. k = Transmitted(r, l) /\ l.dir = "Tx" /\ l.status = "NotTransmitted"
    BY <1>2, <1>3, <1>7 DEF Sends, l
  <2>2. /\ Id(k) = Id(l) /\ k.node = l.node /\ k.dir = l.dir /\ k.continuous = l.continuous
        /\ ~l.continuous => k.status = "Transmitted"
    BY <1>1, <2>1, TransmittedKeepsConf, IdOfConf, TransmittedStatus
  <2>3. Awaited(k, n, D)
    BY <1>6, <2>2 DEF Awaited
  <2>4. l.node = n => Told(k, n, D)
    BY <1>6, <2>1, <2>2 DEF Awaited, Told
  <2> QED
    BY <1>4, <1>5, <2>1, <2>3, <2>4 DEF Told, l, k
<1>8. CASE ~(i = tx /\ Sends(r, tx)) /\ Receives(r, l)
  <2>1. k = Received(r, l, u) /\ l.dir = "Rx" /\ l.node = n /\ l.status \in {"NotReceived", "Received"}
    BY <1>2, <1>5, <1>8
  <2>2. /\ k.node = l.node /\ k.dir = l.dir /\ k.status \in {l.status, "Received"}
    BY <1>1, <2>1, ReceivedKeepsConf, IdOfConf, ReceivedStatus
  <2>3. Awaited(k, n, D) /\ Told(k, n, D)
    BY <2>1, <2>2 DEF Awaited, Told
  <2> QED
    BY <2>3 DEF k
<1>9. CASE ~(i = tx /\ Sends(r, tx)) /\ ~Receives(r, l)
  BY <1>2, <1>4, <1>6, <1>9 DEF k, l
<1> QED
  BY <1>7, <1>8, <1>9

Expected(r, n, D) == \A s \in Slot : \A i \in DOMAIN r.slots[s] : Awaited(r.slots[s][i], n, D)

\* A reference leads to an LPDU that a node is told of.
Tells(r, ref, n, D) ==
  ref.pos \in DOMAIN r.slots[ref.slot] /\ Told(r.slots[ref.slot][ref.pos], n, D)

Reports(r, n, D) == \A a \in DOMAIN r.txrx : Tells(r, r.txrx[a], n, D)

LEMMA ConcatParts ==
  ASSUME NEW S, NEW s \in Seq(S), NEW t \in Seq(S), NEW b \in DOMAIN (s \o t)
  PROVE  \/ b \in DOMAIN s /\ (s \o t)[b] = s[b]
         \/ \E c \in DOMAIN t : (s \o t)[b] = t[c]
<1>1. PICK k \in Nat : k = Len(s)
  OBVIOUS
<1>2. CASE b <= k
  BY <1>1, <1>2
<1>3. CASE ~(b <= k)
  <2>1. b - k \in DOMAIN t /\ (s \o t)[b] = t[b - k]
    BY <1>1, <1>3
  <2> QED
    BY <2>1
<1> QED
  BY <1>2, <1>3

LEMMA FrameRefsAre ==
  ASSUME NEW n, NEW r \in Replica(n), NEW tx \in DOMAIN Lpdus(r),
         NEW a \in DOMAIN FrameRefs(r, tx)
  PROVE  \E i \in DOMAIN Lpdus(r) :
           /\ FrameRefs(r, tx)[a] = [slot |-> r.engine.slot, pos |-> i]
           /\ (i = tx /\ InformsOf(r, tx)) \/ Receives(r, Lpdus(r)[i])
<1> DEFINE refs == [i \in DOMAIN Lpdus(r) |-> [slot |-> r.engine.slot, pos |-> i]]
           I == {i \in DOMAIN Lpdus(r) : Receives(r, Lpdus(r)[i])}
           J == {i \in DOMAIN Lpdus(r) : (i = tx /\ InformsOf(r, tx)) \/ Receives(r, Lpdus(r)[i])}
           first == IF InformsOf(r, tx) THEN <<refs[tx]>> ELSE <<>>
           E == {refs[i] : i \in J}
<1>1. r.engine.slot \in Slot
  BY LpduAt
<1>2. Chosen(refs, I) \in Seq({refs[i] : i \in I})
  BY <1>1, ReceiverRefs
<1>3. FrameRefs(r, tx) = first \o Chosen(refs, I)
  BY <1>1, ReceiverRefs DEF FrameRefs
<1>4. I \subseteq J /\ (InformsOf(r, tx) => tx \in J)
  OBVIOUS
<1>5. \A i \in J : refs[i] = [slot |-> r.engine.slot, pos |-> i] /\ i \in DOMAIN Lpdus(r)
  OBVIOUS
<1> HIDE DEF refs, I
<1>6. first \in Seq(E) /\ {refs[i] : i \in I} \subseteq E
  <2> HIDE DEF J
  <2>1. \A i \in J : refs[i] \in E
    OBVIOUS
  <2> HIDE DEF E
  <2>2. InformsOf(r, tx) => refs[tx] \in E
    BY <1>4, <2>1
  <2>3. first \in Seq(E)
    BY <2>2
  <2> QED
    BY <1>4, <2>1, <2>3
<1> HIDE DEF E
<1>7. Chosen(refs, I) \in Seq(E)
  BY <1>2, <1>6, SubsetOfSeq
<1> HIDE DEF first
<1>8. FrameRefs(r, tx) \in Seq(E)
  BY <1>3, <1>6, <1>7
<1>9. FrameRefs(r, tx)[a] \in E
  BY <1>8
<1> QED
  BY <1>5, <1>9 DEF E

LEMMA ProcessSlotTells ==
  ASSUME NEW n, NEW r \in Replica(n), NEW D, Expected(r, n, D), Reports(r, n, D)
  PROVE  Expected(ProcessSlot(r), n, D) /\ Reports(ProcessSlot(r), n, D)
<1>1. CASE TxIndexes(r) = {}
  BY <1>1 DEF ProcessSlot
<1>2. CASE TxIndexes(r) # {}
  <2> DEFINE tx == Max(TxIndexes(r))
             s == r.engine.slot
             a == AfterFrame(r, tx)
             t == Lpdus(r)
             refs == FrameRefs(r, tx)
             x == r.txrx \o refs
             y == IF Sends(r, tx) THEN Append(r.trace, [slot |-> s, pos |-> tx]) ELSE r.trace
             q == ProcessSlot(r)
  <2>1. s \in Slot /\ tx \in DOMAIN t /\ tx \in TxIndexes(r)
    BY <1>2, TxIndexesIs
  <2>2. q = [r EXCEPT !.slots = [r.slots EXCEPT ![s] = a], !.txrx = x, !.trace = y]
    BY <1>2, ProcessSlotIs
  <2>3. t = r.slots[s] /\ DOMAIN a = DOMAIN t
    BY <2>1, LpdusType DEF AfterFrame
  <2>4. ASSUME NEW i \in DOMAIN t
        PROVE  /\ Awaited(a[i], n, D)
               /\ Told(t[i], n, D) => Told(a[i], n, D)
               /\ i = tx /\ InformsOf(r, tx) => Told(a[i], n, D)
               /\ Receives(r, t[i]) => Told(a[i], n, D)
    <3>1. Awaited(t[i], n, D)
      BY <2>1, <2>3 DEF Expected
    <3> QED
      BY <2>1, <3>1, FrameTells
  <2>5. ASSUME NEW b \in DOMAIN refs
        PROVE  \E i \in DOMAIN t : /\ refs[b] = [slot |-> s, pos |-> i]
                                   /\ (i = tx /\ InformsOf(r, tx)) \/ Receives(r, t[i])
    BY <2>1, FrameRefsAre
  <2>6. r.txrx \in Seq(Ref) /\ refs \in Seq(Ref)
    BY <2>1, FrameRefsType DEF Replica
  <2>7. r.slots \in [Slot -> Seq(LpduType)]
    BY DEF Replica, SlotMap
  <2> HIDE DEF x, y, q, a, t, refs, tx, s
  <2>8. q.slots = [r.slots EXCEPT ![s] = a] /\ q.txrx = x
    BY <2>2 DEF Replica
  <2>9. q.slots[s] = a /\ \A z \in Slot : z # s => q.slots[z] = r.slots[z]
    BY <2>1, <2>7, <2>8
  <2>10. Expected(q, n, D)
    BY <2>3, <2>4, <2>9 DEF Expected
  <2>11. ASSUME NEW ref \in Ref, Tells(r, ref, n, D) PROVE Tells(q, ref, n, D)
    <3>1. ref.slot \in Slot
      BY DEF Ref
    <3>2. CASE ref.slot = s
      BY <2>3, <2>4, <2>9, <2>11, <3>2 DEF Tells
    <3>3. CASE ref.slot # s
      BY <2>9, <2>11, <3>1, <3>3 DEF Tells
    <3> QED
      BY <3>2, <3>3
  <2>12. \A b \in DOMAIN r.txrx : r.txrx[b] \in Ref
    BY <2>6
  <2>13. ASSUME NEW b \in DOMAIN refs PROVE Tells(q, refs[b], n, D)
    <3>1. PICK i \in DOMAIN t : /\ refs[b] = [slot |-> s, pos |-> i]
                                /\ (i = tx /\ InformsOf(r, tx)) \/ Receives(r, t[i])
      BY <2>5
    <3>2. Told(a[i], n, D) /\ i \in DOMAIN a
      BY <2>3, <2>4, <3>1
    <3>3. refs[b].slot = s /\ refs[b].pos = i
      BY <3>1
    <3> QED
      BY <2>9, <3>2, <3>3 DEF Tells
  <2>14. ASSUME NEW b \in DOMAIN x PROVE Tells(q, x[b], n, D)
    <3>1. \/ b \in DOMAIN r.txrx /\ x[b] = r.txrx[b]
          \/ \E c \in DOMAIN refs : x[b] = refs[c]
      BY <2>6, ConcatParts DEF x
    <3> QED
      BY <2>11, <2>12, <2>13, <3>1 DEF Reports
  <2> QED
    BY <2>8, <2>10, <2>14 DEF Reports, q
<1> QED
  BY <1>1, <1>2

LEMMA NextSlotTells ==
  ASSUME NEW n, NEW r \in Replica(n), NEW i, NEW D,
         Expected(r, n, D), Reports(r, n, D), Configured(r.engine)
  PROVE  /\ Expected(NextSlot(r, i), n, D) /\ Reports(NextSlot(r, i), n, D)
         /\ Configured(NextSlot(r, i).engine)
<1> DEFINE q == IF InStatic(r.engine) \/ PendingTx(r) # 0 THEN ProcessSlot(r) ELSE r
<1>1. q \in Replica(n) /\ q.engine = r.engine /\ Expected(q, n, D) /\ Reports(q, n, D)
  BY ProcessSlotType, ProcessSlotTells
<1>2. CASE ~HasBudget(r)
  BY <1>2 DEF NextSlot
<1>3. CASE HasBudget(r) /\ AtCycleEnd(r.engine)
  <2> DEFINE e == ConsumeCycleEnd(r.engine)
  <2>1. e.slot = 1
    BY DEF ConsumeCycleEnd, Replica, Engine
  <2>2. NextSlot(r, i) = [r EXCEPT !.engine = e]
    BY <1>3 DEF NextSlot, ConsumeBusSlot
  <2> HIDE DEF e
  <2>3. NextSlot(r, i).slots = r.slots /\ NextSlot(r, i).txrx = r.txrx /\ NextSlot(r, i).engine = e
    BY <2>2 DEF Replica
  <2> QED
    BY <2>1, <2>3 DEF Expected, Reports, Tells, Configured
<1>4. CASE HasBudget(r) /\ ~AtCycleEnd(r.engine)
  <2> DEFINE e == ConsumeSlot(q.engine, Minislots(r))
  <2>1. NextSlot(r, i) = [q EXCEPT !.engine = e]
    BY <1>4 DEF NextSlot, ConsumeBusSlot
  <2> HIDE DEF q
  <2>2. e.slot = r.engine.slot + 1 /\ r.engine.slot \in Nat
    BY <1>1 DEF ConsumeSlot, Replica, Engine
  <2> HIDE DEF e
  <2>3. NextSlot(r, i).slots = q.slots /\ NextSlot(r, i).txrx = q.txrx /\ NextSlot(r, i).engine = e
    BY <1>1, <2>1 DEF Replica
  <2> QED
    BY <1>1, <2>2, <2>3 DEF Expected, Reports, Tells, Configured
<1> QED
  BY <1>2, <1>3, <1>4

LEMMA ConsumeSlotsTells ==
  ASSUME NEW n, NEW r \in Replica(n), NEW D,
         Expected(r, n, D), Reports(r, n, D), Configured(r.engine)
  PROVE  LET q == ConsumeSlots(r)
         IN  Expected(q, n, D) /\ Reports(q, n, D) /\ Configured(q.engine)
<1> DEFINE S == {q \in Replica(n) : Expected(q, n, D) /\ Reports(q, n, D) /\ Configured(q.engine)}
<1>1. r \in S
  OBVIOUS
<1>2. ASSUME NEW q \in S, NEW i \in Nat PROVE NextSlot(q, i) \in S
  BY NextSlotTells, NextSlotType
<1> HIDE DEF S
<1>3. Slots!Fold(r, Turns(r)) \in S
  BY <1>1, <1>2, TurnsType, Slots!FoldStaysIn
<1>4. ConsumeSlots(r) \in S
  BY <1>3, SlotsIsFold
<1> QED
  BY <1>4 DEF S

\* What a replica of its own node needs: its pending LPDUs are awaited, and before
\* its first Config it has nothing to report.
Waits(r, n, D) ==
  Expected(r, n, D) /\ (~Configured(r.engine) => r.txrx = <<>>)

\* A PDU that sets an LPDU of a node that waits for it, or none.
Expects(p, n, D) ==
  p.type = "Lpdu" /\ p.node = n /\ p.status = "NotTransmitted" => <<p.slot, p.frame>> \in D

LEMMA ConfigWaits ==
  ASSUME NEW n \in Node, NEW r \in Replica(n), NEW p \in Packet, p.type = "Config", NEW D,
         QuietTables, Waits(r, n, D)
  PROVE  Waits(ConsumeConfig(r, p), n, D)
<1>1. /\ p \in ConfigPdus /\ \A i \in DOMAIN p.table : p.table[i].payload = NoPayload
      /\ p.table = FrameTable[p.node] /\ p.node \in Node /\ p.table \in Seq(LpduType)
  BY DEF Packet, ConfigPdus, StatusPdus, LpduPdus
<1> DEFINE q == ProcessConfig(r, p)
<1>2. q \in Replica(n)
  BY ProcessConfigType
<1>3. /\ ConsumeConfig(r, p).slots = q.slots /\ ConsumeConfig(r, p).txrx = q.txrx
      /\ ConsumeConfig(r, p).engine = q.engine
  <2>1. PICK st : ConsumeConfig(r, p) = [q EXCEPT !.st = st]
    BY DEF ConsumeConfig
  <2> HIDE DEF q
  <2> QED
    BY <1>2, <2>1 DEF Replica
<1>4. CASE ~p.accepted
  <2>1. q = r
    BY <1>4 DEF ProcessConfig
  <2> QED
    BY <1>3, <2>1 DEF Waits, Expected
<1>5. CASE p.accepted
  <2>1. q.slots = [s \in Slot |-> r.slots[s] \o TableOf(p.table, s)]
    BY <1>5 DEF ProcessConfig, Replica, TableOf
  <2>2. Configured(q.engine)
    <3>1. q.engine = ConfigurePosition(r.engine)
      BY <1>5 DEF ProcessConfig, Replica
    <3> QED
      BY <3>1 DEF ConfigurePosition, Configured, Replica, Engine
  <2> HIDE DEF q
  <2>3. ASSUME NEW j \in DOMAIN p.table PROVE Awaited(p.table[j], n, D)
    <3> DEFINE l == p.table[j]
    <3>1. l \in ToSet(FrameTable[p.node]) /\ l.node = p.node
      BY <1>1, NetworkAssumption DEF ToSet
    <3> HIDE DEF l
    <3>2. l.dir = "Tx" /\ l.continuous => Id(l) \in Continuous(p.node)
      BY <3>1 DEF Continuous, Ids, Id
    <3>3. l.dir = "Tx" /\ l.status = "NotTransmitted" => l.continuous
      BY <1>1, <3>1 DEF QuietTables
    <3>4. Awaited(l, n, D)
      BY <3>1, <3>2, <3>3 DEF Awaited
    <3> QED
      BY <3>4 DEF l
  <2>4. ASSUME NEW s \in Slot, NEW b \in DOMAIN q.slots[s] PROVE Awaited(q.slots[s][b], n, D)
    <3> DEFINE t == r.slots[s]
               u == TableOf(p.table, s)
               I == {i \in DOMAIN p.table : p.table[i].slot = s}
    <3>1. t \in Seq(LpduType)
      BY DEF Replica, SlotMap
    <3>2. u = Chosen(p.table, I) /\ u \in Seq(LpduIn(s)) /\ LpduIn(s) \subseteq LpduType
      BY <1>1, TableOfType DEF LpduIn
    <3>3. u \in Seq(LpduType) /\ q.slots[s] = t \o u
      BY <2>1, <3>2, SubsetOfSeq
    <3>4. I \in SUBSET DOMAIN p.table
      OBVIOUS
    <3>5. \A i \in DOMAIN t : Awaited(t[i], n, D)
      BY DEF Waits, Expected
    <3> HIDE DEF t, u, I
    <3>6. ASSUME NEW c \in DOMAIN u PROVE \E i \in DOMAIN p.table : u[c] = p.table[i]
      <4> DEFINE table == p.table
      <4>1. table \in Seq(LpduType) /\ I \in SUBSET DOMAIN table /\ u = Chosen(table, I)
        BY <1>1, <3>2, <3>4
      <4> HIDE DEF table
      <4>2. \E i \in I : u[c] = table[i]
        BY <4>1, ChosenElements
      <4> QED
        BY <4>1, <4>2 DEF table
    <3>7. \/ b \in DOMAIN t /\ q.slots[s][b] = t[b]
          \/ \E c \in DOMAIN u : q.slots[s][b] = u[c]
      BY <3>1, <3>3, ConcatParts
    <3> QED
      BY <2>3, <3>5, <3>6, <3>7
  <2> QED
    BY <1>3, <2>2, <2>4 DEF Waits, Expected
<1> QED
  BY <1>4, <1>5

LEMMA StatusWaits ==
  ASSUME NEW n \in Node, NEW r \in Replica(n), NEW p \in Packet, p.type = "Status", NEW D,
         Waits(r, n, D)
  PROVE  Waits(ConsumeStatus(r, p), n, D)
<1> DEFINE d == DropLpdus(r, p.node)
<1>1. d \in Replica(n) /\ Waits(d, n, D)
  <2>1. d = [r EXCEPT !.slots = [s \in Slot |-> Chosen(r.slots[s], Others(r.slots[s], p.node))]]
        /\ d \in Replica(n)
    BY DropLpdusIs
  <2> HIDE DEF d
  <2>2. /\ d.slots = [s \in Slot |-> Chosen(r.slots[s], Others(r.slots[s], p.node))]
        /\ d.engine = r.engine /\ d.txrx = r.txrx
    BY <2>1 DEF Replica
  <2>3. ASSUME NEW s \in Slot, NEW a \in DOMAIN d.slots[s] PROVE Awaited(d.slots[s][a], n, D)
    <3> DEFINE t == r.slots[s]
               I == Others(t, p.node)
    <3>1. t \in Seq(LpduType) /\ I \in SUBSET DOMAIN t /\ d.slots[s] = Chosen(t, I)
      BY <2>2 DEF Replica, SlotMap, Others
    <3>2. \A i \in DOMAIN t : Awaited(t[i], n, D)
      BY DEF Waits, Expected
    <3> HIDE DEF t, I
    <3>3. \E i \in I : d.slots[s][a] = t[i]
      BY <3>1, ChosenElements
    <3> QED
      BY <3>1, <3>2, <3>3
  <2> QED
    BY <2>1, <2>2, <2>3 DEF Waits, Expected
<1> DEFINE q == IF p.node \in r.st.known /\ EntersDefaultConfig(r.st.poc[p.node], p.command)
                THEN d ELSE r
<1>2. ConsumeStatus(r, p) = [q EXCEPT !.st = PushNodeState(q.st, p.node, p.command)]
  BY DEF ConsumeStatus
<1>3. q \in Replica(n) /\ Waits(q, n, D)
  BY <1>1
<1> HIDE DEF q
<1>4. /\ ConsumeStatus(r, p).slots = q.slots /\ ConsumeStatus(r, p).txrx = q.txrx
      /\ ConsumeStatus(r, p).engine = q.engine
  BY <1>2, <1>3 DEF Replica
<1> QED
  BY <1>3, <1>4 DEF Waits, Expected

LEMMA LpduWaits ==
  ASSUME NEW n \in Node, NEW r \in Replica(n), NEW p \in LpduPdus, NEW D,
         Expects(p, n, D), Waits(r, n, D)
  PROVE  Waits(ConsumeLpdu(r, p), n, D)
<1> DEFINE s == p.slot
           t == r.slots[s]
           i == Target(r, p)
           l == t[i]
           k == SetLpdu(l, p)
           a == [t EXCEPT ![i] = k]
<1>1. CASE i = 0
  BY <1>1, ConsumeLpduIs
<1>2. CASE i # 0
  <2>1. /\ s \in Slot /\ i \in DOMAIN t /\ t \in Seq(LpduIn(s))
        /\ l.node = p.node /\ l.frame = p.frame
    <3>1. s \in Slot
      BY DEF LpduPdus
    <3>2. t \in Seq(LpduIn(s))
      BY <3>1 DEF Replica, SlotMap
    <3> QED
      BY <1>2, <3>1, <3>2, TargetIs
  <2>2. ConsumeLpdu(r, p) = [r EXCEPT !.slots = [r.slots EXCEPT ![s] = a]]
    BY <1>2, ConsumeLpduIs
  <2>3. \A j \in DOMAIN t : Awaited(t[j], n, D)
    BY <2>1 DEF Waits, Expected
  <2>4. p.type = "Lpdu"
    BY DEF LpduPdus
  <2>5. Awaited(k, n, D)
    <3>1. l \in LpduIn(s) /\ Awaited(l, n, D)
      BY <2>1, <2>3
    <3>2. l \in LpduType /\ l.slot = s
      BY <2>1, <3>1, LpduInType
    <3> HIDE DEF l
    <3>3. Id(k) = Id(l) /\ k.node = l.node /\ k.dir = l.dir /\ k.continuous = l.continuous
      BY <3>2, SetLpduKeepsConf, IdOfConf
    <3>4. k.status = p.status
      <4> DEFINE payload == IF l.dir = "Tx" THEN Fit(p.payload, l.len) ELSE l.payload
      <4>1. k = [l EXCEPT !.status = p.status, !.payload = payload]
        BY DEF SetLpdu
      <4> HIDE DEF payload, k
      <4> QED
        BY <3>2, <4>1 DEF LpduType
    <3>5. Id(l) = <<s, p.frame>>
      BY <2>1, <3>2 DEF Id, l
    <3> HIDE DEF k
    <3> QED
      BY <2>1, <2>4, <3>1, <3>3, <3>4, <3>5 DEF Awaited, Expects, l
  <2>6. DOMAIN a = DOMAIN t /\ \A j \in DOMAIN a : Awaited(a[j], n, D)
    <3> HIDE DEF k, t, i
    <3> QED
      BY <2>1, <2>3, <2>5
  <2> HIDE DEF a, k, l, i, t, s
  <2>7. r.slots \in [Slot -> Seq(LpduType)]
    BY DEF Replica, SlotMap
  <2>8. /\ ConsumeLpdu(r, p).slots = [r.slots EXCEPT ![s] = a]
        /\ ConsumeLpdu(r, p).engine = r.engine /\ ConsumeLpdu(r, p).txrx = r.txrx
    BY <2>2 DEF Replica
  <2> QED
    BY <2>1, <2>6, <2>7, <2>8 DEF Waits, Expected
<1> QED
  BY <1>1, <1>2

LEMMA ConsumeWaits ==
  ASSUME NEW n \in Node, NEW r \in Replica(n), NEW p \in Packet, NEW D,
         QuietTables, Expects(p, n, D), Waits(r, n, D)
  PROVE  Waits(Consume(r, p), n, D)
<1>1. CASE p.type = "Config"
  BY <1>1, ConfigWaits DEF Consume
<1>2. CASE p.type = "Status"
  BY <1>2, StatusWaits DEF Consume
<1>3. CASE p.type = "Lpdu"
  <2>1. p \in LpduPdus
    BY <1>3 DEF Packet, ConfigPdus, StatusPdus
  <2> QED
    BY <1>3, <2>1, LpduWaits DEF Consume
<1> QED
  BY <1>1, <1>2, <1>3 DEF Packet, ConfigPdus, StatusPdus, LpduPdus

LEMMA ReadingWaits ==
  ASSUME QuietTables, NEW n \in Node, NEW r \in Replica(n), NEW D,
         NEW pdus \in Seq(Packet), \A i \in DOMAIN pdus : Expects(pdus[i], n, D),
         Waits(r, n, D)
  PROVE  Waits(FoldLeft(Consume, r, pdus), n, D)
<1> DEFINE S == {q \in Replica(n) : Waits(q, n, D)}
           T == {p \in Packet : Expects(p, n, D)}
<1>1. r \in S
  OBVIOUS
<1>2. pdus \in Seq(T)
  OBVIOUS
<1>3. ASSUME NEW q \in S, NEW p \in T PROVE Consume(q, p) \in S
  BY ConsumeType, ConsumeWaits
<1> HIDE DEF S, T
<1>4. Reading!Fold(r, pdus) \in S
  BY <1>1, <1>2, <1>3, Reading!FoldStaysIn
<1>5. FoldLeft(Consume, r, pdus) \in S
  BY <1>4, ReadingIsFold
<1> QED
  BY <1>5 DEF S

LEMMA ProgressWaits ==
  ASSUME NEW n, NEW r \in Replica(n), NEW D, Waits(r, n, D)
  PROVE  /\ Waits(Progress(r), n, D)
         /\ Progress(r).st.bus = "FrameSync" => Reports(Progress(r), n, D)
<1> DEFINE from  == CHOOSE f \in Starts : TRUE
           cond  == CalculateBusCondition(r.st, from)
           q     == [r EXCEPT !.st = cond]
           begun == BeginBusStep(q, StepUt)
<1>1. /\ q \in Replica(n) /\ begun \in Replica(n)
      /\ Progress(r) = IF Synchronised(begun) THEN ConsumeSlots(begun) ELSE begun
  BY ProgressIs
<1> HIDE DEF cond
<1>2. q.slots = r.slots /\ q.engine = r.engine /\ q.txrx = r.txrx
  BY DEF Replica
<1> HIDE DEF q
<1>3. Waits(q, n, D)
  BY <1>2 DEF Waits, Expected
<1>4. CASE Synchronised(q)
  <2> DEFINE e == CalculateBudget(q.engine, StepUt)
  <2>1. begun = [q EXCEPT !.engine = e, !.txrx = <<>>, !.trace = <<>>]
    BY <1>4 DEF BeginBusStep
  <2>2. e.slot = q.engine.slot
    BY <1>1 DEF CalculateBudget, Replica, Engine
  <2> HIDE DEF begun, e
  <2>3. begun.slots = q.slots /\ begun.st = q.st /\ begun.engine = e /\ begun.txrx = <<>>
    BY <1>1, <2>1 DEF Replica
  <2>4. Synchronised(begun) /\ Configured(begun.engine)
    BY <1>4, <2>2, <2>3 DEF Synchronised, Configured
  <2>5. Expected(begun, n, D) /\ Reports(begun, n, D)
    BY <1>3, <2>3 DEF Waits, Expected, Reports
  <2>6. LET z == ConsumeSlots(begun)
        IN  Expected(z, n, D) /\ Reports(z, n, D) /\ Configured(z.engine)
    BY <1>1, <2>4, <2>5, ConsumeSlotsTells
  <2> QED
    BY <1>1, <2>4, <2>6 DEF Waits
<1>5. CASE ~Synchronised(q)
  <2>1. begun = q
    BY <1>5 DEF BeginBusStep
  <2>2. Progress(r) = q
    BY <1>1, <1>5, <2>1
  <2>3. q.st.bus = "FrameSync" => q.txrx = <<>>
    BY <1>3, <1>5 DEF Synchronised, Waits
  <2> QED
    BY <1>3, <2>2, <2>3 DEF Reports
<1> QED
  BY <1>4, <1>5

\* The ids of the LPDUs that are emitted as transmitted.
Sent(r) == Ids({p \in ToSet(Emit(r).lpdus) : p.status = "Transmitted"})

LEMMA EmittedAre ==
  ASSUME NEW n, NEW r \in Replica(n), NEW D, Reports(r, n, D), NEW p \in ToSet(Emit(r).lpdus)
  PROVE  \E s \in Slot : \E i \in DOMAIN r.slots[s] :
           Told(r.slots[s][i], n, D) /\ p = LpduPdu(r.slots[s][i])
<1> DEFINE all == [a \in DOMAIN r.txrx |-> EmitRef(r, r.txrx[a])]
           U == {EmitRef(r, r.txrx[a]) : a \in DOMAIN r.txrx}
           I == {i \in DOMAIN all : all[i].status # "None"}
<1>1. r.txrx \in Seq(Ref)
  BY DEF Replica
<1>2. all \in Seq(U)
  <2>1. PICK k \in Nat : DOMAIN r.txrx = 1 .. k
    BY <1>1
  <2>2. \A a \in 1 .. k : EmitRef(r, r.txrx[a]) \in U
    BY <2>1
  <2> HIDE DEF U
  <2> QED
    BY <2>1, <2>2
<1>3. Emit(r).lpdus = FlattenSeq([i \in DOMAIN all |-> IF all[i].status # "None" THEN <<all[i]>> ELSE <<>>])
  BY DEF Emit, Selected
<1> HIDE DEF all, U
<1>4. [i \in DOMAIN all |-> IF all[i].status # "None" THEN <<all[i]>> ELSE <<>>]
        = [i \in DOMAIN all |-> IF i \in I THEN <<all[i]>> ELSE <<>>]
  OBVIOUS
<1>5. I \in SUBSET DOMAIN all
  OBVIOUS
<1> HIDE DEF I
<1>6. Emit(r).lpdus = Chosen(all, I)
  BY <1>3, <1>4 DEF Chosen
<1> DEFINE lpdus == Emit(r).lpdus
<1>7. lpdus \in Seq(U)
  BY <1>2, <1>5, <1>6, ChosenIsPart
<1>8. p \in ToSet(lpdus)
  OBVIOUS
<1> HIDE DEF lpdus
<1>9. p \in U
  BY <1>7, <1>8 DEF ToSet
<1>10. PICK a \in DOMAIN r.txrx : p = EmitRef(r, r.txrx[a])
  BY <1>9 DEF U
<1>11. r.txrx[a] \in Ref /\ Tells(r, r.txrx[a], n, D)
  BY <1>1 DEF Reports
<1> QED
  BY <1>10, <1>11 DEF Tells, EmitRef, Ref

\* A transmission that is told of is one of an LPDU of the node.
LEMMA SentAre ==
  ASSUME NEW n, NEW r \in Replica(n), NEW D, Reports(r, n, D), Expected(r, n, D),
         NEW x \in Sent(r)
  PROVE  /\ x \in D \union Continuous(n)
         /\ \E s \in Slot : \E i \in DOMAIN r.slots[s] :
              /\ r.slots[s][i].node = n /\ Id(r.slots[s][i]) = x
              /\ ~r.slots[s][i].continuous => r.slots[s][i].status = "Transmitted"
<1>1. PICK p \in ToSet(Emit(r).lpdus) : p.status = "Transmitted" /\ x = <<p.slot, p.frame>>
  BY DEF Sent, Ids
<1>2. PICK s \in Slot : \E i \in DOMAIN r.slots[s] :
               Told(r.slots[s][i], n, D) /\ p = LpduPdu(r.slots[s][i])
  BY EmittedAre
<1>3. PICK i \in DOMAIN r.slots[s] : Told(r.slots[s][i], n, D) /\ p = LpduPdu(r.slots[s][i])
  BY <1>2
<1> DEFINE l == r.slots[s][i]
<1>4. Awaited(l, n, D) /\ l \in LpduType
  BY DEF Expected, Replica, SlotMap
<1>5. Told(l, n, D) /\ p = LpduPdu(l)
  BY <1>3
<1> HIDE DEF l
<1>6. Id(l) = x /\ EmittedStatus(l) = "Transmitted"
  BY <1>1, <1>5 DEF LpduPdu, Id
<1>7. l.node = n /\ l.dir = "Tx"
  BY <1>4, <1>5, <1>6 DEF Told, EmittedStatus, LpduType
<1>8. /\ x \in D \union Continuous(n)
      /\ ~l.continuous => l.status = "Transmitted"
  BY <1>4, <1>5, <1>6, <1>7 DEF Told, Awaited
<1> QED
  BY <1>6, <1>7, <1>8 DEF l

\* What was told of is not awaited any more.
LEMMA SentIsSettled ==
  ASSUME NEW n, NEW r \in Replica(n), NEW D, Reports(r, n, D), Waits(r, n, D), Unique(r, n)
  PROVE  Waits(r, n, D \ Sent(r))
<1> SUFFICES ASSUME NEW s \in Slot, NEW i \in DOMAIN r.slots[s]
             PROVE  Awaited(r.slots[s][i], n, D \ Sent(r))
  BY DEF Waits, Expected
<1> DEFINE l == r.slots[s][i]
<1>1. Awaited(l, n, D) /\ l \in LpduIn(s) /\ Expected(r, n, D)
  BY DEF Waits, Expected, Replica, SlotMap
<1>2. l.slot = s
  BY <1>1, LpduInType
<1>3. ASSUME l.node = n, ~l.continuous, Id(l) \in Sent(r) PROVE l.status = "Transmitted"
  <2>1. PICK z \in Slot : \E j \in DOMAIN r.slots[z] :
          /\ r.slots[z][j].node = n /\ Id(r.slots[z][j]) = Id(l)
          /\ ~r.slots[z][j].continuous => r.slots[z][j].status = "Transmitted"
    BY <1>1, <1>3, SentAre
  <2>2. PICK j \in DOMAIN r.slots[z] :
          /\ r.slots[z][j].node = n /\ Id(r.slots[z][j]) = Id(l)
          /\ ~r.slots[z][j].continuous => r.slots[z][j].status = "Transmitted"
    BY <2>1
  <2>3. r.slots[z][j] \in LpduIn(z)
    BY DEF Replica, SlotMap
  <2>4. r.slots[z][j].slot = z
    BY <2>3, LpduInType
  <2>5. z = s /\ r.slots[z][j].frame = l.frame
    BY <1>2, <2>2, <2>4 DEF Id
  <2>6. j = i
    BY <1>3, <2>2, <2>5 DEF Unique
  <2> QED
    BY <1>3, <2>2, <2>5, <2>6
<1> HIDE DEF l
<1>4. Awaited(l, n, D \ Sent(r))
  BY <1>1, <1>3 DEF Awaited
<1> QED
  BY <1>4 DEF l

\* The replica of a node with all that it has set.
Coming(n) == IF n \in todo THEN FoldLeft(Consume, rep[n], inbox) ELSE After(n)

\* due is what a node waits for when all that it wrote has been read, by its own
\* replica: it is counted when an LPDU is set, two steps before it may be sent, and
\* a node that has not run has written nothing since.
IInvDue ==
  /\ todo \subseteq silent
  /\ \A n \in Node :
       /\ n \in silent => \A i \in DOMAIN wire : wire[i].node # n
       /\ Waits(Coming(n), n, due[n])

LEMMA ComingType ==
  ASSUME IInvTypes, NEW n \in Node
  PROVE  Coming(n) \in Replica(n) /\ (n \in todo => Later(n) = Progress(Coming(n)))
BY AfterType, ReadingType DEF Coming, Later, IInvTypes

LEMMA InitDue == Init => IInvDue
<1> SUFFICES ASSUME Init, NEW n \in Node PROVE Waits(Coming(n), n, due[n])
  BY DEF IInvDue, Init
<1>1. Coming(n) = ZeroReplica(n)
  BY ReadingOne DEF Init, Coming, After, Later
<1>2. Waits(ZeroReplica(n), n, due[n])
  BY DEF Waits, Expected, ZeroReplica
<1> QED
  BY <1>1, <1>2

\* A node that runs settles what it is told of.
LEMMA RunSettles ==
  ASSUME IInvTypes, IInvTables, IInvDue, NEW n \in Node, Run(n)
  PROVE  /\ Waits(rep'[n], n, due'[n])
         /\ InSync(n)' => Ids(Emitted(n, "Transmitted")') \subseteq due[n] \union Continuous(n)
<1> DEFINE z == rep'[n]
<1>1. n \in todo /\ rep'[n] = Later(n)
  BY RunLater DEF Run
<1>2. z = Progress(Coming(n)) /\ Coming(n) \in Replica(n) /\ Waits(Coming(n), n, due[n])
  BY <1>1, ComingType DEF IInvDue
<1>3. z \in Replica(n) /\ Unique(z, n)
  BY <1>1, AfterType DEF IInvTables
<1>4. Waits(z, n, due[n]) /\ (z.st.bus = "FrameSync" => Reports(z, n, due[n]))
  BY <1>2, ProgressWaits
<1>5. out'[n] = Emit(z)
  BY DEF Run, IInvTypes
<1>6. Ids(Emitted(n, "Transmitted")') = Sent(z)
  BY <1>5 DEF Emitted, Sent
<1>7. InSync(n)' <=> z.st.bus = "FrameSync"
  BY DEF InSync
<1>8. due'[n] = IF InSync(n)' THEN due[n] \ Sent(z) ELSE due[n]
  <2>1. due' = [due EXCEPT ![n] = IF InSync(n)' THEN due[n] \ Ids(Emitted(n, "Transmitted")') ELSE due[n]]
    BY DEF Run
  <2> QED
    BY <1>6, <2>1 DEF IInvTypes
<1> HIDE DEF z
<1>9. z.st.bus = "FrameSync" => Waits(z, n, due[n] \ Sent(z))
  BY <1>3, <1>4, SentIsSettled
<1>10. z.st.bus = "FrameSync" => Sent(z) \subseteq due[n] \union Continuous(n)
  <2> SUFFICES ASSUME z.st.bus = "FrameSync", NEW x \in Sent(z)
               PROVE  x \in due[n] \union Continuous(n)
    OBVIOUS
  <2> QED
    BY <1>3, <1>4, SentAre DEF Waits
<1> QED
  BY <1>4, <1>6, <1>7, <1>8, <1>9, <1>10 DEF z

LEMMA RunDue ==
  ASSUME QuietTables, IInvTypes, IInvTables, IInvDue, NEW k \in Node, Run(k)
  PROVE  IInvDue'
<1>1. /\ \A n \in Node : Later(n)' = Later(n)
      /\ rep'[k] = Later(k) /\ \A n \in Node \ {k} : rep'[n] = rep[n]
  BY RunLater
<1>2. /\ k \in todo /\ todo' = todo \ {k} /\ silent' = silent /\ inbox' = inbox /\ wire' = wire
      /\ \A n \in Node \ {k} : due'[n] = due[n]
  BY DEF Run, IInvTypes
<1>3. \A n \in Node : After(n)' = After(n)
  BY <1>1, <1>2 DEF After
<1>4. ASSUME NEW n \in Node \ {k} PROVE Waits(Coming(n), n, due[n])'
  <2>1. Coming(n)' = Coming(n)
    BY <1>1, <1>2, <1>3 DEF Coming
  <2> QED
    BY <1>2, <2>1 DEF IInvDue
<1>5. Waits(Coming(k), k, due[k])'
  <2>1. Coming(k)' = FoldLeft(Consume, rep'[k], wire)
    BY <1>1, <1>2, <1>3 DEF Coming, After
  <2>2. \A i \in DOMAIN wire : Expects(wire[i], k, due'[k])
    BY <1>2 DEF IInvDue, Expects
  <2>3. rep'[k] \in Replica(k) /\ wire \in Seq(Packet) /\ Waits(rep'[k], k, due'[k])
    BY <1>1, AfterType, RunSettles DEF IInvTypes
  <2> QED
    BY <2>1, <2>2, <2>3, ReadingWaits
<1> QED
  BY <1>2, <1>4, <1>5 DEF IInvDue

\* What a write has to do to keep the invariant.
LEMMA WriteDue ==
  ASSUME QuietTables, IInvTypes, IInvDue, NEW m \in Node, NEW pdus \in Seq(Packet),
         \A i \in DOMAIN pdus : pdus[i].node = m, Write(m, pdus),
         \A k \in Node \ {m} : due'[k] = due[k],
         Waits(FoldLeft(Consume, After(m), pdus), m, due'[m])
  PROVE  IInvDue'
<1>1. /\ UNCHANGED <<rep, out, inbox, todo>> /\ silent' = silent \ {m} /\ m \notin todo
      /\ wire' = wire \o pdus \o Rearmed(m)
  BY DEF Write
<1>2. Rearmed(m) \in Seq(Packet)
      /\ \A i \in DOMAIN Rearmed(m) : /\ Rearmed(m)[i].node = m
                                      /\ Rearmed(m)[i].status = "NotReceived"
  <2>1. Rearmed(m) \in Seq(Packet)
    BY RearmedType
  <2> QED
    BY <2>1 DEF Rearmed
<1>3. ASSUME NEW n \in Node, n \notin todo
      PROVE  Coming(n)' = FoldLeft(Consume, FoldLeft(Consume, After(n), pdus), Rearmed(m))
  BY <1>1, <1>3, AfterWrite DEF Coming
<1>4. ASSUME NEW n \in Node PROVE Waits(Coming(n), n, due[n])'
  <2> DEFINE q == FoldLeft(Consume, After(n), pdus)
  <2>1. After(n) \in Replica(n) /\ q \in Replica(n)
    BY AfterType, ReadingType
  <2>2. CASE n = m
    <3>1. \A i \in DOMAIN Rearmed(m) : Expects(Rearmed(m)[i], n, due'[n])
      BY <1>2 DEF Expects
    <3>2. Waits(q, n, due'[n])
      BY <2>2
    <3> HIDE DEF q
    <3>3. Waits(FoldLeft(Consume, q, Rearmed(m)), n, due'[n])
      BY <1>2, <2>1, <3>1, <3>2, ReadingWaits
    <3> QED
      BY <1>1, <1>3, <2>2, <3>3 DEF q
  <2>3. CASE n # m /\ n \in todo
    <3>1. Coming(n)' = Coming(n) /\ due'[n] = due[n]
      BY <1>1, <2>3 DEF Coming
    <3> QED
      BY <3>1 DEF IInvDue
  <2>4. CASE n # m /\ n \notin todo
    <3>1. due'[n] = due[n] /\ Waits(After(n), n, due[n])
      BY <2>4 DEF IInvDue, Coming
    <3>2. /\ \A i \in DOMAIN pdus : Expects(pdus[i], n, due[n])
          /\ \A i \in DOMAIN Rearmed(m) : Expects(Rearmed(m)[i], n, due[n])
      BY <1>2, <2>4 DEF Expects
    <3>3. Waits(q, n, due[n])
      BY <2>1, <3>1, <3>2, ReadingWaits
    <3> HIDE DEF q
    <3>4. Waits(FoldLeft(Consume, q, Rearmed(m)), n, due[n])
      BY <1>2, <2>1, <3>2, <3>3, ReadingWaits
    <3> QED
      BY <1>3, <2>4, <3>1, <3>4 DEF q
  <2> QED
    BY <2>2, <2>3, <2>4
<1>5. ASSUME NEW n \in silent', NEW i \in DOMAIN wire', n \in Node PROVE wire'[i].node # n
  <2>1. n # m /\ n \in silent
    BY <1>1, <1>5
  <2>2. wire \in Seq(Packet) /\ \A j \in DOMAIN wire : wire[j].node # n
    BY <1>5, <2>1 DEF IInvTypes, IInvDue
  <2> DEFINE a == wire \o pdus
             b == Rearmed(m)
             w == a \o b
  <2>3. a \in Seq(Packet)
    BY <2>2
  <2>4. \A j \in DOMAIN a : a[j].node # n
    BY <2>1, <2>2, ConcatParts
  <2>5. i \in DOMAIN w /\ wire'[i] = w[i]
    BY <1>1
  <2>6. b \in Seq(Packet) /\ \A j \in DOMAIN b : b[j].node # n
    BY <1>2, <2>1
  <2> HIDE DEF a, b
  <2>7. w[i].node # n
    BY <2>3, <2>4, <2>5, <2>6, ConcatParts
  <2> QED
    BY <2>5, <2>7
<1> QED
  BY <1>1, <1>4, <1>5 DEF IInvDue

\* A single PDU or none.
LEMMA PlainWriteDue ==
  ASSUME QuietTables, IInvTypes, IInvDue, NEW m \in Node, NEW pdu \in Packet, pdu.node = m,
         Write(m, <<pdu>>) \/ Write(m, <<>>), Expects(pdu, m, due'[m]),
         due[m] \subseteq due'[m], \A k \in Node \ {m} : due'[k] = due[k]
  PROVE  IInvDue'
<1>1. m \notin todo
  BY DEF Write
<1>2. After(m) \in Replica(m) /\ Waits(After(m), m, due[m])
  BY <1>1, AfterType DEF IInvDue, Coming
<1>3. Waits(After(m), m, due'[m])
  BY <1>2 DEF Waits, Expected, Awaited
<1>4. CASE Write(m, <<pdu>>)
  <2> DEFINE pdus == <<pdu>>
  <2>1. pdus \in Seq(Packet) /\ \A i \in DOMAIN pdus : pdus[i] = pdu
    OBVIOUS
  <2> HIDE DEF pdus
  <2>2. Write(m, pdus)
    BY <1>4 DEF pdus
  <2>3. Waits(FoldLeft(Consume, After(m), pdus), m, due'[m])
    BY <1>2, <1>3, <2>1, ReadingWaits
  <2> QED
    BY <2>1, <2>2, <2>3, WriteDue
<1>5. CASE Write(m, <<>>)
  <2> DEFINE pdus == <<>>
  <2>1. pdus \in Seq(Packet) /\ DOMAIN pdus = {}
    OBVIOUS
  <2>2. FoldLeft(Consume, After(m), pdus) = After(m)
    BY ReadingOne
  <2> HIDE DEF pdus
  <2>3. Write(m, pdus)
    BY <1>5 DEF pdus
  <2> QED
    BY <1>3, <2>1, <2>2, <2>3, WriteDue
<1> QED
  BY <1>4, <1>5

\* A restart takes away what was set, and due with it.
LEMMA RestartDue ==
  ASSUME QuietTables, IInvTypes, IInvAgree, IInvTables, IInvDue, NEW m \in Node, WriteRestart(m)
  PROVE  IInvDue'
<1> DEFINE a == StatusPdu(m, "Config")
           b == ConfigPdu(m, TRUE)
           pdus == <<a, b>>
           u == Consume(After(m), a)
<1>1. /\ a \in Packet /\ a.node = m /\ a.type = "Status"
      /\ b \in Packet /\ b.node = m /\ b.type = "Config"
  BY StatusPduType, ConfigPduType DEF PocCommand, StatusPdu, ConfigPdu
<1>2. Write(m, pdus) /\ m \notin todo
  BY DEF WriteRestart, Write
<1>3. due'[m] = {} /\ \A k \in Node \ {m} : due'[k] = due[k]
  BY DEF WriteRestart, IInvTypes
<1>4. u \in Replica(m) /\ Absent(u, m)
  BY HaltedGone
<1>5. After(m) \in Replica(m) /\ Waits(After(m), m, due[m])
  BY <1>2, AfterType DEF IInvDue, Coming
<1> HIDE DEF a, b
<1>6. Expects(a, m, due[m]) /\ Expects(b, m, {})
  BY <1>1 DEF Expects
<1>7. Waits(u, m, due[m])
  BY <1>1, <1>5, <1>6, ConsumeWaits
<1>8. Waits(u, m, {})
  BY <1>4, <1>7 DEF Waits, Expected, Awaited, Absent
<1>9. FoldLeft(Consume, After(m), pdus) = Consume(u, b)
  BY <1>1, ReadingPair
<1> HIDE DEF u
<1>10. Waits(Consume(u, b), m, {})
  BY <1>1, <1>4, <1>6, <1>8, ConsumeWaits
<1>11. pdus \in Seq(Packet) /\ \A i \in DOMAIN pdus : pdus[i].node = m
  BY <1>1
<1> HIDE DEF pdus
<1> QED
  BY <1>2, <1>3, <1>9, <1>10, <1>11, WriteDue

LEMMA NextDue ==
  ASSUME QuietTables
  PROVE  IInvTypes /\ IInvAgree /\ IInvTables /\ IInvDue /\ [Next]_vars => IInvDue'
<1> SUFFICES ASSUME IInvTypes, IInvAgree, IInvTables, IInvDue, [Next]_vars PROVE IInvDue'
  OBVIOUS
<1>1. ASSUME NEW n \in Node, Run(n) PROVE IInvDue'
  BY <1>1, RunDue
<1>2. ASSUME NEW m \in Node, NEW accepted \in BOOLEAN, WriteConfig(m, accepted)
      PROVE  IInvDue'
  <2> DEFINE pdu == ConfigPdu(m, accepted)
  <2>1. pdu \in Packet /\ pdu.node = m /\ pdu.type = "Config"
    BY ConfigPduType DEF ConfigPdu
  <2>2. Write(m, <<pdu>>) /\ due' = due
    BY <1>2 DEF WriteConfig
  <2> HIDE DEF pdu
  <2> QED
    BY <2>1, <2>2, PlainWriteDue DEF Expects
<1>3. ASSUME NEW m \in Node, NEW l \in ToSet(FrameTable[m]), NEW p \in Payload, WriteLpdu(m, l, p)
      PROVE  IInvDue'
  <2> DEFINE pdu == [type |-> "Lpdu", node |-> m, slot |-> l.slot, frame |-> l.frame,
                     status |-> "NotTransmitted", payload |-> p]
  <2>1. pdu \in Packet
    <3>1. p \in Seq(Nat)
      BY NetworkAssumption
    <3> QED
      BY <3>1, IdsOf DEF Packet, LpduPdus, LpduStatus
  <2>2. Write(m, <<pdu>>) /\ due' = [due EXCEPT ![m] = due[m] \union Ids({l})]
    BY <1>3 DEF WriteLpdu
  <2>3. due'[m] = due[m] \union Ids({l}) /\ \A k \in Node \ {m} : due'[k] = due[k]
    BY <2>2 DEF IInvTypes
  <2>4. <<pdu.slot, pdu.frame>> \in Ids({l}) /\ pdu.node = m
    BY DEF Ids
  <2> HIDE DEF pdu
  <2>5. Expects(pdu, m, due'[m])
    BY <2>3, <2>4 DEF Expects
  <2> QED
    BY <2>1, <2>2, <2>3, <2>4, <2>5, PlainWriteDue
<1>4. ASSUME NEW m \in Node, WriteRearm(m) \/ WriteRejoin(m) \/ WriteHalt(m) PROVE IInvDue'
  <2>1. PICK command \in PocCommand :
          due' = due /\ (Write(m, <<StatusPdu(m, command)>>) \/ Write(m, <<>>))
    BY <1>4 DEF WriteRearm, WriteRejoin, WriteHalt, PocCommand
  <2> DEFINE pdu == StatusPdu(m, command)
  <2>2. pdu \in Packet /\ pdu.node = m /\ pdu.type = "Status"
    BY StatusPduType DEF StatusPdu
  <2>3. Write(m, <<pdu>>) \/ Write(m, <<>>)
    BY <2>1
  <2> HIDE DEF pdu
  <2> QED
    BY <2>1, <2>2, <2>3, PlainWriteDue DEF Expects
<1>5. ASSUME NEW m \in Node, WriteRestart(m) PROVE IInvDue'
  BY <1>5, RestartDue
<1>6. CASE Exchange
  <2>1. /\ todo = {} /\ todo' = Node /\ silent' = Node /\ rep' = rep /\ inbox' = wire
        /\ wire' = <<>> /\ due' = due
    BY <1>6 DEF Exchange
  <2>2. \A n \in Node : Coming(n)' = Coming(n)
    BY <2>1 DEF Coming, After, Later
  <2> QED
    BY <2>1, <2>2 DEF IInvDue
<1>7. CASE UNCHANGED vars
  <2>1. \A n \in Node : Coming(n)' = Coming(n)
    BY <1>7 DEF vars, Coming, After, Later
  <2> QED
    BY <1>7, <2>1 DEF vars, IInvDue
<1> QED
  BY <1>1, <1>2, <1>3, <1>4, <1>5, <1>6, <1>7 DEF Next

\* Where frame tables name each LPDU once and configure no single shot LPDU as
\* pending, a node is told that a single shot LPDU was transmitted only while it
\* waits for that: however often it writes, whoever else is halted, restarted or
\* refused, and whenever the bus loses and finds its sync.
THEOREM OnceEach ==
  ASSUME DistinctFrames, QuietTables
  PROVE  Spec => TransmittedOnce
<1>1. Init => IInvTypes /\ IInvAgree /\ IInvTables /\ IInvDue
  BY InitTypes, InitAgree, InitTables, InitDue
<1>2. IInvTypes /\ IInvAgree /\ IInvTables /\ IInvDue /\ [Next]_vars
        => (IInvTypes /\ IInvAgree /\ IInvTables /\ IInvDue)'
  BY NextTypes, NextAgree, NextTables, NextDue
<1>3. ASSUME IInvTypes, IInvTables, IInvDue, [Next]_vars
      PROVE  [\A n \in todo \ todo' : InSync(n)' =>
                Ids(Emitted(n, "Transmitted")') \subseteq due[n] \union Continuous(n)]_vars
  BY <1>3, LeavingRuns, RunSettles
<1> QED
  BY <1>1, <1>2, <1>3, PTL DEF Spec, TransmittedOnce
-----------------------------------------------------------------------------
(***************************************************************************)
(* What is transmitted is received, and nothing else is.                   *)
(***************************************************************************)

\* A slot in which an LPDU may be sent that was never set.
Bare(s) ==
  \E n \in Node : \E k \in ToSet(FrameTable[n]) :
    k.dir = "Tx" /\ k.slot = s /\ k.status = "NotTransmitted"

\* Rx LPDUs wait for a frame, Tx LPDUs are idle, sent or pending.
StatusOfDir(l) ==
  l.status \in (IF l.dir = "Rx" THEN {"NotReceived", "Received"}
                ELSE {"None", "Transmitted", "NotTransmitted"})

\* The frame tables of a cluster that delivers what it transmits.  An LPDU that
\* is pending without having been set shares its slot with none that is ever set:
\* its receivers would keep the payload of another.  A slot of the dynamic part
\* has one sender, and of single shot: its place in the cycle moves, a step may
\* reach it twice, and one pending in another cycle would make a frame of nothing.
DeliveringTables ==
  \A n \in Node : \A l \in ToSet(FrameTable[n]) :
    /\ StatusOfDir(l)
    /\ l.dir = "Tx" /\ Bare(l.slot) => MaxWrites[n] = 0
    /\ \A m \in Node : \A k \in ToSet(FrameTable[m]) :
         l.dir = "Tx" /\ k.dir = "Tx" /\ l.slot = k.slot /\ l.slot > StaticSlotCount
           => l.node = k.node /\ l.frame = k.frame /\ ~l.continuous

\* The microticks of a static slot, and of the cycle up to a position.
SlotUt == StaticSlotLength * Macro2Micro
PassedUt(e) == e.mt * Macro2Micro

\* The slot follows from the macrotick in the static part; later slots are those of
\* the dynamic part.
Aligned(e) ==
  /\ e.mt <= MacrotickPerCycle
  /\ IF ~Configured(e) THEN e.mt = 0
     ELSE IF InStatic(e) THEN e.mt = (e.slot - 1) * StaticSlotLength
     ELSE e.slot > StaticSlotCount

\* At the end of a step there is less left than the position has yet to pass.
Rested(e) ==
  IF InStatic(e) THEN e.ut < SlotUt ELSE e.ut + PassedUt(e) < MicrotickPerCycle

\* Within a step it is a cycle more.
Bounded(e) ==
  IF InStatic(e) THEN e.ut < SlotUt + MicrotickPerCycle
  ELSE e.ut + PassedUt(e) < 2 * MicrotickPerCycle

\* The microticks until static slot s ends the next time.
UntilEnd(e, s) ==
  (s - 1) * StaticSlotLength * Macro2Micro + SlotUt - PassedUt(e)
    + (IF InStatic(e) /\ e.slot <= s THEN 0 ELSE MicrotickPerCycle)

\* What is left of the budget does not reach that.
Behind(e, s) == e.ut < UntilEnd(e, s)

NonePending(r, s) ==
  \A i \in DOMAIN r.slots[s] :
    r.slots[s][i].dir = "Tx" => r.slots[s][i].status # "NotTransmitted"

\* A slot that is not processed again in this step.
Closed(r, s) ==
  IF s <= StaticSlotCount THEN Behind(r.engine, s) ELSE NonePending(r, s)

\* An LPDU of a frame table, with a payload that can be told.
SoundLpdu(l) ==
  /\ \E k \in ToSet(FrameTable[l.node]) : Conf(k) = Conf(l)
  /\ StatusOfDir(l)
  /\ IF Bare(l.slot) THEN \A i \in DOMAIN l.payload : l.payload[i] = 0
     ELSE l.dir = "Tx" /\ l.status = "NotTransmitted" => l.payload # NoPayload

SoundLpdus(r) == \A s \in Slot : \A i \in DOMAIN r.slots[s] : SoundLpdu(r.slots[s][i])

Leads(r, ref) == ref.pos \in DOMAIN r.slots[ref.slot]
LpduOf(r, ref) == r.slots[ref.slot][ref.pos]

\* The LPDUs of the node of a replica that a frame of t is for.
Takes(r, l, t) ==
  l.dir = "Rx" /\ l.node = r.node /\ l.rep # 0 /\ t.cycle % l.rep = l.base

Got(l, t) ==
  /\ l.status = "Received" /\ ~l.null
  /\ l.cycle = t.cycle /\ l.mt = t.mt /\ l.payload = Fit(t.payload, l.len)

\* A traced transmission was received, and the node is told of all that concerns it.
Carried(r, ref) ==
  /\ Leads(r, ref)
  /\ LpduOf(r, ref).dir = "Tx" /\ LpduOf(r, ref).status # "None"
  /\ LpduOf(r, ref).node = r.node => ref \in ToSet(r.txrx)
  /\ \A i \in DOMAIN r.slots[ref.slot] :
       Takes(r, r.slots[ref.slot][i], LpduOf(r, ref)) =>
         /\ [slot |-> ref.slot, pos |-> i] \in ToSet(r.txrx)
         /\ Got(r.slots[ref.slot][i], LpduOf(r, ref))

\* What the node is told of is a traced transmission, or the reception of one, or
\* a null frame.
Caused(r, ref) ==
  /\ Leads(r, ref)
  /\ LpduOf(r, ref).node = r.node
  /\ IF LpduOf(r, ref).dir = "Tx" THEN ref \in ToSet(r.trace)
     ELSE ~LpduOf(r, ref).null =>
            \E c \in ToSet(r.trace) :
              /\ c.slot = ref.slot
              /\ LpduOf(r, c).cycle = LpduOf(r, ref).cycle
              /\ LpduOf(r, c).mt = LpduOf(r, ref).mt

Heard(r) ==
  /\ \A ref \in ToSet(r.trace) : Carried(r, ref)
  /\ \A ref \in ToSet(r.txrx) : Caused(r, ref)

\* The references of an earlier step lead to LPDUs of the node, or nowhere.
OwnRefs(r) ==
  \A ref \in ToSet(r.txrx) : Leads(r, ref) => LpduOf(r, ref).node = r.node

\* A replica between two steps.
Sound(r) ==
  /\ Aligned(r.engine) /\ Rested(r.engine)
  /\ ~Configured(r.engine) => r.txrx = <<>> /\ r.trace = <<>>
  /\ SoundLpdus(r)

\* What a replica holds of the last step it holds until the next one, sync or not;
\* what it is told of in a step in sync is just what was transmitted in it.
IInvHeard ==
  \A n \in Node :
    /\ Sound(Later(n)) /\ OwnRefs(Later(n))
    /\ Sound(After(n)) /\ OwnRefs(After(n))
    /\ Later(n).st.bus = "FrameSync" => Heard(Later(n))

-----------------------------------------------------------------------------
(***************************************************************************)
(* The position and the budget within a step.                              *)
(***************************************************************************)

LEMMA SumTimes ==
  ASSUME NEW a \in Int, NEW b \in Int, NEW c \in Int
  PROVE  (a + b) * c = a * c + b * c
OBVIOUS

LEMMA TimesMonotone ==
  ASSUME NEW a \in Int, NEW b \in Int, NEW c \in Nat, a <= b
  PROVE  a * c <= b * c
OBVIOUS

LEMMA TimesStrict ==
  ASSUME NEW a \in Int, NEW b \in Int, NEW c \in Nat, a * c < b * c
  PROVE  a < b
<1>1. SUFFICES ASSUME b <= a PROVE FALSE
  OBVIOUS
<1>2. b * c <= a * c
  BY <1>1, TimesMonotone
<1>3. a * c \in Int /\ b * c \in Int
  OBVIOUS
<1> QED
  BY <1>2, <1>3

LEMMA QuotientTimes ==
  ASSUME NEW a \in Nat, NEW m \in Nat \ {0}
  PROVE  m * (a \div m) <= a
OBVIOUS

\* The macroticks of a cycle fit into its microticks.
LEMMA PassedIs ==
  ASSUME NEW e \in Engine, e.mt <= MacrotickPerCycle
  PROVE  /\ PassedUt(e) \in Nat /\ PassedUt(e) <= MicrotickPerCycle
         /\ MicrotickPerCycle \in Nat \ {0} /\ SlotUt \in Nat \ {0}
<1>1. Macro2Micro \in Nat \ {0} /\ e.mt \in Nat /\ MacrotickPerCycle \in Nat \ {0}
      /\ MicrotickPerCycle \in Nat \ {0} /\ StaticSlotLength \in Nat \ {0}
  BY Parameters, ConfigAssumption DEF Engine
<1>2. e.mt * Macro2Micro <= MacrotickPerCycle * Macro2Micro
  BY <1>1, TimesMonotone
<1>3. MacrotickPerCycle * Macro2Micro <= MicrotickPerCycle
  BY <1>1, QuotientTimes DEF Macro2Micro
<1>4. e.mt * Macro2Micro \in Nat /\ MacrotickPerCycle * Macro2Micro \in Nat
  BY <1>1, ProductIsNat
<1>5. StaticSlotLength * Macro2Micro \in Nat \ {0}
  BY <1>1, ProductIsPositive
<1> QED
  BY <1>1, <1>2, <1>3, <1>4, <1>5 DEF PassedUt, SlotUt

\* A slot of the static part, one of the dynamic part, and the end of a cycle.
LEMMA StaticStep ==
  ASSUME NEW e \in Engine, NEW k \in Nat \ {0}, Aligned(e), Configured(e), InStatic(e),
         CanConsume(e, k)
  PROVE  LET f == ConsumeSlot(e, k)
         IN  /\ f.slot = e.slot + 1 /\ f.ut = e.ut - SlotUt /\ PassedUt(f) = PassedUt(e) + SlotUt
             /\ SlotUt <= e.ut
             /\ Aligned(f) /\ f \in Engine
             /\ e.slot \in 1 .. StaticSlotCount
             /\ PassedUt(e) = (e.slot - 1) * StaticSlotLength * Macro2Micro
<1> DEFINE f == ConsumeSlot(e, k)
<1>1. /\ Macro2Micro \in Nat \ {0} /\ StaticSlotLength \in Nat \ {0} /\ StaticSlotCount \in Nat
      /\ OffsetDynamic \in Nat /\ OffsetDynamic = StaticSlotLength * StaticSlotCount
      /\ OffsetDynamic <= MacrotickPerCycle /\ MacrotickPerCycle \in Nat
  BY Parameters, ConfigAssumption DEF OffsetNetwork, OffsetDynamic
<1>2. e.mt \in Nat /\ e.slot \in Nat /\ e.ut \in Nat /\ e.slot > 0
  BY DEF Engine, Configured
<1>3. ~AtCycleEnd(e) /\ SlotNeed(e, k) = StaticSlotLength
  BY DEF AtCycleEnd, SlotNeed
<1>4. f \in Engine
  BY <1>3, ConsumeSlotType
<1>5. f.slot = e.slot + 1 /\ f.mt = e.mt + StaticSlotLength /\ f.ut = e.ut - SlotUt
  BY <1>3 DEF ConsumeSlot, Engine, SlotUt
<1>6. SlotUt <= e.ut
  BY <1>3 DEF CanConsume, NeedUt, SlotUt
<1>7. e.mt = (e.slot - 1) * StaticSlotLength /\ e.mt < OffsetDynamic
  BY DEF Aligned, InStatic
<1> HIDE DEF f
<1>8. PassedUt(f) = PassedUt(e) + SlotUt
  BY <1>1, <1>2, <1>5, SumTimes DEF PassedUt, SlotUt
<1>9. e.slot - 1 < StaticSlotCount
  <2>1. (e.slot - 1) * StaticSlotLength < StaticSlotCount * StaticSlotLength
    BY <1>1, <1>7
  <2> QED
    BY <1>1, <1>2, <2>1, TimesStrict
<1>10. e.slot * StaticSlotLength = e.mt + StaticSlotLength
  <2>1. ((e.slot - 1) + 1) * StaticSlotLength = (e.slot - 1) * StaticSlotLength + 1 * StaticSlotLength
    BY <1>1, <1>2, SumTimes
  <2>2. (e.slot - 1) + 1 = e.slot /\ 1 * StaticSlotLength = StaticSlotLength
    BY <1>1, <1>2
  <2> QED
    BY <1>7, <2>1, <2>2
<1>11. f.mt <= OffsetDynamic
  <2>1. e.slot * StaticSlotLength <= StaticSlotCount * StaticSlotLength
    BY <1>1, <1>2, <1>9, TimesMonotone
  <2>2. StaticSlotCount * StaticSlotLength = OffsetDynamic
    BY <1>1
  <2> QED
    BY <1>5, <1>10, <2>1, <2>2
<1>12. Aligned(f)
  <2>1. f.mt \in Nat /\ f.slot \in Nat /\ Configured(f) /\ f.mt <= MacrotickPerCycle
    BY <1>1, <1>2, <1>4, <1>5, <1>11 DEF Engine, Configured
  <2>2. CASE InStatic(f)
    <3>1. f.mt = (f.slot - 1) * StaticSlotLength
      BY <1>2, <1>5, <1>10
    <3> QED
      BY <2>1, <2>2, <3>1 DEF Aligned
  <2>3. CASE ~InStatic(f)
    <3>1. f.mt = OffsetDynamic
      BY <1>1, <1>11, <2>1, <2>3 DEF InStatic
    <3>2. e.slot * StaticSlotLength = StaticSlotCount * StaticSlotLength
      BY <1>1, <1>5, <1>10, <3>1
    <3>3. ~(e.slot < StaticSlotCount)
      <4>1. SUFFICES ASSUME e.slot + 1 <= StaticSlotCount PROVE FALSE
        BY <1>1, <1>2
      <4>2. (e.slot + 1) * StaticSlotLength <= StaticSlotCount * StaticSlotLength
        BY <1>1, <1>2, <4>1, TimesMonotone
      <4>3. (e.slot + 1) * StaticSlotLength = e.slot * StaticSlotLength + 1 * StaticSlotLength
        BY <1>1, <1>2, SumTimes
      <4>4. e.slot * StaticSlotLength \in Nat
        BY <1>1, <1>2, ProductIsNat
      <4> QED
        BY <1>1, <3>2, <4>2, <4>3, <4>4
    <3>4. f.slot > StaticSlotCount
      BY <1>1, <1>2, <1>5, <3>3
    <3> QED
      BY <2>1, <2>3, <3>4 DEF Aligned
  <2> QED
    BY <2>2, <2>3
<1>13. PassedUt(e) = (e.slot - 1) * StaticSlotLength * Macro2Micro
  BY <1>7 DEF PassedUt
<1>14. e.slot \in 1 .. StaticSlotCount
  BY <1>1, <1>2, <1>9
<1> QED
  BY <1>4, <1>5, <1>6, <1>8, <1>12, <1>13, <1>14 DEF f

LEMMA DynamicStep ==
  ASSUME NEW e \in Engine, NEW k \in Nat \ {0}, Aligned(e), Configured(e), InDynamic(e),
         CanConsume(e, k)
  PROVE  LET f == ConsumeSlot(e, k)
         IN  /\ f.slot = e.slot + 1 /\ f.ut + PassedUt(f) = e.ut + PassedUt(e)
             /\ ~InStatic(f) /\ Aligned(f) /\ f \in Engine
<1> DEFINE f == ConsumeSlot(e, k)
           need == SlotNeed(e, k)
<1>1. /\ Macro2Micro \in Nat \ {0} /\ StaticSlotCount \in Nat /\ OffsetDynamic \in Nat
      /\ MacrotickPerCycle \in Nat /\ MinislotLength \in Nat \ {0}
  BY Parameters, ConfigAssumption DEF OffsetNetwork, OffsetDynamic
<1>2. e.mt \in Nat /\ e.slot \in Nat /\ e.ut \in Nat /\ e.slot > 0 /\ e.mt <= MacrotickPerCycle
  BY DEF Engine, Configured, Aligned
<1>3. ~AtCycleEnd(e) /\ ~InStatic(e) /\ need = DynamicNeed(e, k)
  BY DEF AtCycleEnd, InDynamic, SlotNeed
<1>4. f \in Engine /\ need \in Nat \ {0}
  BY <1>3, ConsumeSlotType, SlotNeedIs
<1>5. e.mt + need <= MacrotickPerCycle
  <2> DEFINE x == k * MinislotLength
  <2>1. x \in Nat
    BY <1>1, ProductIsNat
  <2>2. need = IF x + e.mt > MacrotickPerCycle THEN MacrotickPerCycle - e.mt ELSE x
    BY <1>3 DEF DynamicNeed
  <2> HIDE DEF x, need
  <2> QED
    BY <1>1, <1>2, <2>1, <2>2
<1>6. f.slot = e.slot + 1 /\ f.mt = e.mt + need /\ f.ut = e.ut - need * Macro2Micro
  BY DEF ConsumeSlot, Engine
<1> HIDE DEF f, need
<1>7. (e.mt + need) * Macro2Micro = e.mt * Macro2Micro + need * Macro2Micro
  BY <1>1, <1>2, <1>4, SumTimes
<1>8. e.mt * Macro2Micro \in Nat /\ need * Macro2Micro \in Nat
  BY <1>1, <1>2, <1>4, ProductIsNat
<1>9. f.ut + PassedUt(f) = e.ut + PassedUt(e)
  BY <1>2, <1>6, <1>7, <1>8 DEF PassedUt
<1>10. ~InStatic(f)
  BY <1>1, <1>2, <1>3, <1>4, <1>6 DEF InStatic
<1>11. Aligned(f)
  <2>1. e.slot > StaticSlotCount
    BY <1>3 DEF Aligned
  <2>2. f.slot > StaticSlotCount /\ Configured(f) /\ f.mt <= MacrotickPerCycle
    BY <1>1, <1>2, <1>5, <1>6, <2>1 DEF Configured
  <2> QED
    BY <1>10, <2>2 DEF Aligned
<1> QED
  BY <1>4, <1>6, <1>9, <1>10, <1>11 DEF f

LEMMA CycleEndStep ==
  ASSUME NEW e \in Engine, NEW k, Aligned(e), Configured(e), AtCycleEnd(e), CanConsume(e, k)
  PROVE  LET f == ConsumeCycleEnd(e)
         IN  /\ f.slot = 1 /\ f.ut + MicrotickPerCycle = e.ut + PassedUt(e) /\ PassedUt(f) = 0
             /\ Aligned(f) /\ f \in Engine
<1> DEFINE f == ConsumeCycleEnd(e)
<1>1. PassedUt(e) \in Nat /\ PassedUt(e) <= MicrotickPerCycle /\ MicrotickPerCycle \in Nat \ {0}
  BY PassedIs DEF Aligned
<1>2. RemainingUt(e) = MicrotickPerCycle - PassedUt(e)
  BY <1>1 DEF RemainingUt, PassedUt
<1>3. f \in Engine
  BY ConsumeCycleEndType
<1>4. f.slot = 1 /\ f.mt = 0 /\ f.ut = e.ut - RemainingUt(e)
  BY DEF ConsumeCycleEnd, Engine
<1>5. e.ut \in Nat
  BY DEF Engine
<1> HIDE DEF f
<1>6. f.ut + MicrotickPerCycle = e.ut + PassedUt(e)
  BY <1>1, <1>2, <1>4, <1>5
<1>7. PassedUt(f) = 0
  BY <1>4, Parameters DEF PassedUt
<1>8. Aligned(f)
  <2>1. /\ StaticSlotLength \in Nat \ {0} /\ StaticSlotCount \in Nat /\ MacrotickPerCycle \in Nat
        /\ OffsetDynamic = StaticSlotLength * StaticSlotCount
    BY ConfigAssumption DEF OffsetDynamic
  <2>2. Configured(f) /\ f.mt <= MacrotickPerCycle /\ f.mt = (f.slot - 1) * StaticSlotLength
    BY <1>4, <2>1 DEF Configured
  <2>3. ~InStatic(f) => f.slot > StaticSlotCount
    <3>1. SUFFICES ASSUME StaticSlotCount # 0, ~InStatic(f) PROVE FALSE
      BY <1>4, <2>1
    <3>2. OffsetDynamic \in Nat \ {0}
      BY <2>1, <3>1, ProductIsPositive
    <3> QED
      BY <1>4, <3>1, <3>2 DEF InStatic
  <2> QED
    BY <2>2, <2>3 DEF Aligned
<1> QED
  BY <1>3, <1>4, <1>6, <1>7, <1>8 DEF f

\* What consume_slot() does to the engine.
Advanced(e, k) == IF AtCycleEnd(e) THEN ConsumeCycleEnd(e) ELSE ConsumeSlot(e, k)

LEMMA AdvancedAligned ==
  ASSUME NEW e \in Engine, NEW k \in Nat \ {0}, Aligned(e), Configured(e), CanConsume(e, k)
  PROVE  /\ Advanced(e, k) \in Engine /\ Aligned(Advanced(e, k)) /\ Configured(Advanced(e, k))
         /\ Bounded(e) => Bounded(Advanced(e, k))
<1> DEFINE f == Advanced(e, k)
<1>1. /\ PassedUt(e) \in Nat /\ PassedUt(e) <= MicrotickPerCycle
      /\ MicrotickPerCycle \in Nat \ {0} /\ SlotUt \in Nat \ {0}
  BY PassedIs DEF Aligned
<1>2. e.ut \in Nat /\ e.slot \in Nat
  BY DEF Engine
<1>3. CASE InStatic(e)
  <2>1. f = ConsumeSlot(e, k)
    BY <1>3 DEF Advanced, AtCycleEnd
  <2>2. /\ f.slot = e.slot + 1 /\ f.ut = e.ut - SlotUt /\ PassedUt(f) = PassedUt(e) + SlotUt
        /\ Aligned(f) /\ f \in Engine
    BY <1>3, <2>1, StaticStep
  <2> HIDE DEF f
  <2>3. PassedUt(f) <= MicrotickPerCycle
    BY <2>2, PassedIs DEF Aligned
  <2>4. Configured(f)
    BY <1>2, <2>2 DEF Configured
  <2>5. Bounded(e) => Bounded(f)
    BY <1>1, <1>2, <1>3, <2>2, <2>3 DEF Bounded
  <2> QED
    BY <2>2, <2>4, <2>5 DEF f
<1>4. CASE InDynamic(e)
  <2>1. f = ConsumeSlot(e, k)
    BY <1>4 DEF Advanced, AtCycleEnd
  <2>2. /\ f.slot = e.slot + 1 /\ f.ut + PassedUt(f) = e.ut + PassedUt(e)
        /\ ~InStatic(f) /\ Aligned(f) /\ f \in Engine
    BY <1>4, <2>1, DynamicStep
  <2> HIDE DEF f
  <2>4. Configured(f)
    BY <1>2, <2>2 DEF Configured
  <2>5. Bounded(e) => Bounded(f)
    BY <1>4, <2>2 DEF Bounded, InDynamic
  <2> QED
    BY <2>2, <2>4, <2>5 DEF f
<1>5. CASE AtCycleEnd(e)
  <2>1. f = ConsumeCycleEnd(e)
    BY <1>5 DEF Advanced
  <2>2. /\ f.slot = 1 /\ f.ut + MicrotickPerCycle = e.ut + PassedUt(e) /\ PassedUt(f) = 0
        /\ Aligned(f) /\ f \in Engine
    BY <1>5, <2>1, CycleEndStep
  <2> HIDE DEF f
  <2>3. f.ut \in Nat
    BY <2>2 DEF Engine
  <2>4. Configured(f)
    BY <2>2 DEF Configured
  <2>5. Bounded(e) => Bounded(f)
    BY <1>1, <1>2, <1>5, <2>2, <2>3 DEF Bounded, AtCycleEnd
  <2> QED
    BY <2>2, <2>4, <2>5 DEF f
<1> QED
  BY <1>3, <1>4, <1>5 DEF AtCycleEnd

\* A static slot that the budget does not reach is not the current one, and is not
\* reached by going on; the current one is not reached again.
LEMMA AdvancedBehind ==
  ASSUME NEW e \in Engine, NEW k \in Nat \ {0}, Aligned(e), Configured(e), CanConsume(e, k),
         NEW s \in Nat
  PROVE  /\ Behind(e, s) => Behind(Advanced(e, k), s) /\ (InStatic(e) => e.slot # s)
         /\ Bounded(e) /\ InStatic(e) => Behind(Advanced(e, k), e.slot)
<1> DEFINE f == Advanced(e, k)
           start(x) == (x - 1) * StaticSlotLength * Macro2Micro
           P == PassedUt(e)
           M == MicrotickPerCycle
           N == SlotUt
<1>1. P \in Nat /\ P <= M /\ M \in Nat \ {0} /\ N \in Nat \ {0}
  BY PassedIs DEF Aligned
<1>2. e.ut \in Nat /\ e.slot \in Nat
  BY DEF Engine
<1>3. ASSUME NEW x \in Nat PROVE start(x) \in Int
  BY <1>3, Parameters, ConfigAssumption
<1>4. ASSUME NEW g, NEW x
      PROVE  UntilEnd(g, x) = start(x) + N - PassedUt(g) + (IF InStatic(g) /\ g.slot <= x THEN 0 ELSE M)
  BY DEF UntilEnd
<1>5. CASE InStatic(e)
  <2>1. f = ConsumeSlot(e, k)
    BY <1>5 DEF Advanced, AtCycleEnd
  <2>2. /\ f.slot = e.slot + 1 /\ f.ut = e.ut - N /\ PassedUt(f) = P + N
        /\ N <= e.ut /\ P = start(e.slot)
    BY <1>5, <2>1, StaticStep
  <2> HIDE DEF f, start, P, M, N
  <2>3. /\ start(s) \in Int
        /\ UntilEnd(e, s) = start(s) + N - P + (IF e.slot <= s THEN 0 ELSE M)
        /\ UntilEnd(f, s) = start(s) + N - (P + N) + (IF InStatic(f) /\ e.slot + 1 <= s THEN 0 ELSE M)
        /\ UntilEnd(f, e.slot) = P + N - (P + N) + (IF InStatic(f) /\ e.slot + 1 <= e.slot THEN 0 ELSE M)
    BY <1>2, <1>3, <1>4, <1>5, <2>2 DEF P
  <2>4. e.slot = s => ~Behind(e, s)
    BY <1>1, <1>2, <2>2, <2>3 DEF Behind
  <2>5. Behind(e, s) => Behind(f, s)
    <3>1. CASE e.slot <= s
      BY <1>1, <1>2, <2>2, <2>3, <3>1 DEF Behind
    <3>2. CASE ~(e.slot <= s)
      BY <1>1, <1>2, <2>2, <2>3, <3>2 DEF Behind
    <3> QED
      BY <3>1, <3>2
  <2>6. Bounded(e) => Behind(f, e.slot)
    BY <1>1, <1>2, <1>5, <2>2, <2>3 DEF Behind, Bounded, M, N
  <2> QED
    BY <2>4, <2>5, <2>6 DEF f
<1>6. CASE InDynamic(e)
  <2>1. f = ConsumeSlot(e, k)
    BY <1>6 DEF Advanced, AtCycleEnd
  <2>2. f.ut + PassedUt(f) = e.ut + P /\ ~InStatic(f) /\ ~InStatic(e) /\ f \in Engine /\ Aligned(f)
    BY <1>6, <2>1, DynamicStep DEF InDynamic
  <2>3. f.ut \in Nat /\ PassedUt(f) \in Nat
    BY <2>2, PassedIs DEF Engine, Aligned
  <2> HIDE DEF f, start, P, M, N
  <2>4. /\ start(s) \in Int
        /\ UntilEnd(e, s) = start(s) + N - P + M
        /\ UntilEnd(f, s) = start(s) + N - PassedUt(f) + M
    BY <1>3, <1>4, <2>2 DEF P
  <2> QED
    BY <1>1, <1>2, <2>2, <2>3, <2>4 DEF Behind, f
<1>7. CASE AtCycleEnd(e)
  <2>1. f = ConsumeCycleEnd(e)
    BY <1>7 DEF Advanced
  <2>2. f.ut + M = e.ut + P /\ PassedUt(f) = 0 /\ ~InStatic(e) /\ f \in Engine
    BY <1>7, <2>1, CycleEndStep DEF AtCycleEnd
  <2>3. f.ut \in Nat
    BY <2>2 DEF Engine
  <2> HIDE DEF f, start, P, M, N
  <2>4. /\ start(s) \in Int
        /\ UntilEnd(e, s) = start(s) + N - P + M
        /\ UntilEnd(f, s) = start(s) + N - 0 + (IF InStatic(f) /\ f.slot <= s THEN 0 ELSE M)
    BY <1>3, <1>4, <2>2 DEF P
  <2>5. Behind(e, s) => Behind(f, s)
    <3>1. CASE InStatic(f) /\ f.slot <= s
      BY <1>1, <1>2, <2>2, <2>3, <2>4, <3>1 DEF Behind
    <3>2. CASE ~(InStatic(f) /\ f.slot <= s)
      BY <1>1, <1>2, <2>2, <2>3, <2>4, <3>2 DEF Behind
    <3> QED
      BY <3>1, <3>2
  <2> QED
    BY <2>2, <2>5 DEF f
<1> QED
  BY <1>5, <1>6, <1>7 DEF AtCycleEnd

\* The budget of a step, and what is left when it does not suffice.
LEMMA BudgetIsBounded ==
  ASSUME NEW e \in Engine, Aligned(e), Rested(e)
  PROVE  LET f == CalculateBudget(e, StepUt)
         IN  Aligned(f) /\ Bounded(f) /\ f.slot = e.slot
<1> DEFINE f == CalculateBudget(e, StepUt)
<1>1. /\ PassedUt(e) \in Nat /\ MicrotickPerCycle \in Nat \ {0} /\ SlotUt \in Nat \ {0}
  BY PassedIs DEF Aligned
<1>2. e.ut \in Nat /\ StepUt \in Nat /\ StepUt <= MicrotickPerCycle
  BY <1>1, NetworkAssumption DEF Engine
<1>3. f.mt = e.mt /\ f.slot = e.slot /\ f.ut = e.ut + StepUt
  BY DEF CalculateBudget, Engine
<1> HIDE DEF f
<1>4. PassedUt(f) = PassedUt(e) /\ (InStatic(f) <=> InStatic(e)) /\ (Configured(f) <=> Configured(e))
  BY <1>3 DEF PassedUt, InStatic, Configured
<1>5. Aligned(f)
  BY <1>3, <1>4 DEF Aligned
<1>6. Bounded(f)
  BY <1>1, <1>2, <1>3, <1>4 DEF Bounded, Rested
<1> QED
  BY <1>3, <1>5, <1>6 DEF f

LEMMA SpentIsRested ==
  ASSUME NEW e \in Engine, NEW k \in Nat \ {0}, Aligned(e), Configured(e), ~CanConsume(e, k)
  PROVE  Rested(e)
<1>1. /\ PassedUt(e) \in Nat /\ PassedUt(e) <= MicrotickPerCycle
      /\ MicrotickPerCycle \in Nat \ {0} /\ SlotUt \in Nat \ {0}
  BY PassedIs DEF Aligned
<1>2. e.ut \in Nat /\ e.mt \in Nat /\ e.mt <= MacrotickPerCycle
  BY DEF Engine, Aligned
<1>3. /\ Macro2Micro \in Nat \ {0} /\ MacrotickPerCycle \in Nat \ {0} /\ MinislotLength \in Nat \ {0}
      /\ MicrotickPerCycle \in Nat
  BY Parameters, ConfigAssumption
<1>4. CASE InStatic(e)
  <2>1. NeedUt(e, k) = SlotUt
    BY <1>4 DEF NeedUt, AtCycleEnd, SlotNeed, SlotUt
  <2> QED
    BY <1>1, <1>2, <1>4, <2>1 DEF CanConsume, Rested
<1>5. CASE InDynamic(e)
  <2> DEFINE need == DynamicNeed(e, k)
             x == k * MinislotLength
  <2>1. NeedUt(e, k) = need * Macro2Micro
    BY <1>5 DEF NeedUt, AtCycleEnd, SlotNeed, InDynamic
  <2>2. x \in Nat
    BY <1>3, ProductIsNat
  <2>3. need = IF x + e.mt > MacrotickPerCycle THEN MacrotickPerCycle - e.mt ELSE x
    BY DEF DynamicNeed
  <2> HIDE DEF x, need
  <2>4. need \in Nat /\ e.mt + need <= MacrotickPerCycle
    BY <1>2, <1>3, <2>2, <2>3
  <2>5. (e.mt + need) * Macro2Micro <= MacrotickPerCycle * Macro2Micro
    BY <1>2, <1>3, <2>4, TimesMonotone
  <2>6. MacrotickPerCycle * Macro2Micro <= MicrotickPerCycle
    BY <1>3, QuotientTimes DEF Macro2Micro
  <2>7. (e.mt + need) * Macro2Micro = PassedUt(e) + need * Macro2Micro
    BY <1>2, <1>3, <2>4, SumTimes DEF PassedUt
  <2>8. need * Macro2Micro \in Nat /\ MacrotickPerCycle * Macro2Micro \in Nat
    BY <1>3, <2>4, ProductIsNat
  <2>9. e.ut < need * Macro2Micro
    BY <1>2, <2>1, <2>8 DEF CanConsume
  <2>10. e.ut + PassedUt(e) < MicrotickPerCycle
    BY <1>1, <1>2, <1>3, <2>5, <2>6, <2>7, <2>8, <2>9
  <2> QED
    BY <1>5, <2>10 DEF Rested, InDynamic
<1>6. CASE AtCycleEnd(e)
  <2>1. RemainingUt(e) = MicrotickPerCycle - PassedUt(e)
    BY <1>1 DEF RemainingUt, PassedUt
  <2> QED
    BY <1>1, <1>2, <1>6, <2>1 DEF CanConsume, NeedUt, Rested, AtCycleEnd
<1> QED
  BY <1>4, <1>5, <1>6 DEF AtCycleEnd

-----------------------------------------------------------------------------
(***************************************************************************)
(* What frames and PDUs do to an LPDU.                                     *)
(***************************************************************************)

Zeros(payload) == \A i \in DOMAIN payload : payload[i] = 0

LEMMA FitOfZeros ==
  ASSUME NEW payload \in Seq(Nat), Zeros(payload), NEW len \in Nat \ {0}
  PROVE  Fit(payload, len) = [i \in 1 .. len |-> 0] /\ Zeros(Fit(payload, len))
<1> DEFINE zeros == [i \in 1 .. len |-> 0]
           all == payload \o zeros
<1>1. zeros \in Seq(Nat) /\ Len(zeros) = len /\ \A i \in 1 .. len : zeros[i] = 0
  OBVIOUS
<1>2. PICK k \in Nat : k = Len(payload) /\ DOMAIN payload = 1 .. k
  OBVIOUS
<1> HIDE DEF zeros
<1>3. all \in Seq(Nat) /\ Len(all) = k + len
  <2>1. all \in Seq(Nat) /\ Len(all) = Len(payload) + len
    BY <1>1
  <2> QED
    BY <1>2, <2>1
<1>4. ASSUME NEW i \in 1 .. len PROVE all[i] = 0
  <2>1. CASE i \in 1 .. k
    BY <1>1, <1>2, <2>1 DEF Zeros
  <2>2. CASE i \notin 1 .. k
    <3>1. all[i] = zeros[i - k] /\ i - k \in 1 .. len
      BY <1>1, <1>2, <2>2
    <3> QED
      BY <1>1, <3>1
  <2> QED
    BY <2>1, <2>2
<1> HIDE DEF all
<1>5. SubSeq(all, 1, len) = [i \in 1 .. len |-> all[i]]
  BY <1>2, <1>3
<1>6. Fit(payload, len) = SubSeq(all, 1, len)
  BY DEF Fit, all, zeros
<1>7. Fit(payload, len) = [i \in 1 .. len |-> 0]
  BY <1>4, <1>5, <1>6
<1> QED
  BY <1>7 DEF Zeros

LEMMA StampedFields ==
  ASSUME NEW l \in LpduType, NEW r
  PROVE  LET k == Stamped(r, l)
         IN  /\ k.cycle = r.engine.cycle /\ k.mt = r.engine.mt /\ k.status = l.status
             /\ k.payload = l.payload /\ k.null = l.null /\ k.len = l.len
BY DEF Stamped, LpduType

LEMMA TransmittedFields ==
  ASSUME NEW s \in Slot, NEW l \in LpduIn(s), NEW n, NEW r \in Replica(n)
  PROVE  LET k == Transmitted(r, l)
         IN  /\ k.cycle = r.engine.cycle /\ k.mt = r.engine.mt /\ k.payload = l.payload
             /\ k.status = IF l.continuous THEN l.status ELSE "Transmitted"
<1> DEFINE q == Stamped(r, l)
           status == IF l.continuous THEN q.status ELSE "Transmitted"
<1>1. q \in LpduIn(s) /\ l \in LpduType
  BY StampedIs, LpduInType
<1>2. q.cycle = r.engine.cycle /\ q.mt = r.engine.mt /\ q.payload = l.payload /\ q.status = l.status
  BY <1>1, StampedFields
<1>3. Transmitted(r, l) = [q EXCEPT !.status = status]
  BY DEF Transmitted
<1>4. q \in LpduType
  BY <1>1, LpduInType
<1>5. status = IF l.continuous THEN l.status ELSE "Transmitted"
  BY <1>2
<1> HIDE DEF q, status
<1> QED
  BY <1>2, <1>3, <1>4, <1>5 DEF LpduType

LEMMA ReceivedFields ==
  ASSUME NEW s \in Slot, NEW l \in LpduIn(s), NEW n, NEW r \in Replica(n), NEW sent
  PROVE  LET k == Received(r, l, sent)
         IN  /\ IsNullFrame(r) => k.null /\ k.payload = l.payload /\ k.status = l.status
             /\ ~IsNullFrame(r) =>
                  /\ ~k.null /\ k.status = "Received"
                  /\ k.cycle = r.engine.cycle /\ k.mt = r.engine.mt
                  /\ k.payload = IF sent = NoPayload THEN Fit(l.payload, l.len)
                                 ELSE Fit(sent, l.len)
<1> DEFINE q == Stamped(r, l)
           payload == IF sent = NoPayload THEN Fit(q.payload, l.len) ELSE Fit(sent, l.len)
<1>1. q \in LpduIn(s) /\ l \in LpduType
  BY StampedIs, LpduInType
<1>2. q.cycle = r.engine.cycle /\ q.mt = r.engine.mt /\ q.payload = l.payload /\ q.status = l.status
  BY <1>1, StampedFields
<1>3. q \in LpduType
  BY <1>1, LpduInType
<1>4. payload = IF sent = NoPayload THEN Fit(l.payload, l.len) ELSE Fit(sent, l.len)
  BY <1>2
<1>5. /\ IsNullFrame(r) => Received(r, l, sent) = [q EXCEPT !.null = TRUE]
      /\ ~IsNullFrame(r) => Received(r, l, sent) =
           [q EXCEPT !.null = FALSE, !.status = "Received", !.payload = payload]
  BY DEF Received
<1> HIDE DEF q, payload
<1>6. CASE IsNullFrame(r)
  BY <1>2, <1>3, <1>5, <1>6 DEF LpduType
<1>7. CASE ~IsNullFrame(r)
  BY <1>2, <1>3, <1>4, <1>5, <1>7 DEF LpduType
<1> QED
  BY <1>6, <1>7

LEMMA SetLpduFields ==
  ASSUME NEW l \in LpduType, NEW p
  PROVE  LET k == SetLpdu(l, p)
         IN  /\ k.status = p.status
             /\ k.payload = IF l.dir = "Tx" THEN Fit(p.payload, l.len) ELSE l.payload
<1> DEFINE payload == IF l.dir = "Tx" THEN Fit(p.payload, l.len) ELSE l.payload
<1>1. SetLpdu(l, p) = [l EXCEPT !.status = p.status, !.payload = payload]
  BY DEF SetLpdu
<1> HIDE DEF payload
<1>2. SetLpdu(l, p).status = p.status /\ SetLpdu(l, p).payload = payload
  BY <1>1 DEF LpduType
<1> QED
  BY <1>2 DEF payload

LEMMA SoundEntry ==
  ASSUME DeliveringTables, NEW n \in Node, NEW l \in ToSet(FrameTable[n])
  PROVE  SoundLpdu(l) /\ l.node = n
<1>1. l \in TableEntry
  BY FrameTableType
<1>2. l.node = n /\ StatusOfDir(l)
  BY NetworkAssumption DEF DeliveringTables
<1>3. l.payload = <<>>
  BY <1>1 DEF TableEntry, NoPayload
<1>4. \A i \in DOMAIN l.payload : l.payload[i] = 0
  BY <1>3
<1>5. l.dir = "Tx" /\ l.status = "NotTransmitted" => Bare(l.slot)
  BY DEF Bare
<1> QED
  BY <1>2, <1>4, <1>5 DEF SoundLpdu

\* What an LPDU that keeps its configuration needs to be sound.
LEMMA StaysSound ==
  ASSUME NEW l, NEW k, SoundLpdu(l), Conf(k) = Conf(l), StatusOfDir(k),
         Bare(l.slot) => Zeros(k.payload),
         ~Bare(l.slot) /\ k.dir = "Tx" /\ k.status = "NotTransmitted" => k.payload # NoPayload
  PROVE  SoundLpdu(k)
<1>1. k.node = l.node /\ k.slot = l.slot
  BY ConfIs
<1> QED
  BY <1>1 DEF SoundLpdu, Zeros

LEMMA TransmittedSound ==
  ASSUME NEW s \in Slot, NEW l \in LpduIn(s), NEW n, NEW r \in Replica(n),
         SoundLpdu(l), l.dir = "Tx", l.status = "NotTransmitted"
  PROVE  SoundLpdu(Transmitted(r, l))
<1> DEFINE k == Transmitted(r, l)
<1>1. l \in LpduType
  BY LpduInType
<1>2. Conf(k) = Conf(l) /\ k.dir = "Tx"
  BY <1>1, TransmittedKeepsConf, ConfIs
<1>3. k.payload = l.payload /\ k.status \in {"NotTransmitted", "Transmitted"}
  BY TransmittedFields
<1> HIDE DEF k
<1>4. StatusOfDir(k)
  BY <1>2, <1>3 DEF StatusOfDir
<1>5. SoundLpdu(k)
  BY <1>2, <1>3, <1>4, StaysSound DEF SoundLpdu, Zeros
<1> QED
  BY <1>5 DEF k

\* What is sent in a slot can be told.
Tellable(s, sent) == IF Bare(s) THEN Zeros(sent) ELSE sent # NoPayload

LEMMA ReceivedSound ==
  ASSUME NEW s \in Slot, NEW l \in LpduIn(s), NEW n, NEW r \in Replica(n),
         NEW sent \in Seq(Nat), SoundLpdu(l), l.dir = "Rx",
         ~IsNullFrame(r) => Tellable(s, sent)
  PROVE  /\ SoundLpdu(Received(r, l, sent))
         /\ ~IsNullFrame(r) => Received(r, l, sent).payload = Fit(sent, l.len)
<1> DEFINE k == Received(r, l, sent)
<1>1. l \in LpduType /\ l.slot = s /\ l.payload \in Seq(Nat) /\ l.len \in Nat \ {0}
  BY LpduInType
<1>2. Conf(k) = Conf(l) /\ k.dir = "Rx"
  BY <1>1, ReceivedKeepsConf, ConfIs
<1>3. /\ IsNullFrame(r) => k.payload = l.payload /\ k.status = l.status
      /\ ~IsNullFrame(r) =>
           /\ k.status = "Received"
           /\ k.payload = IF sent = NoPayload THEN Fit(l.payload, l.len) ELSE Fit(sent, l.len)
  BY ReceivedFields
<1> HIDE DEF k
<1>4. StatusOfDir(k)
  BY <1>2, <1>3 DEF StatusOfDir, SoundLpdu
<1>5. CASE IsNullFrame(r)
  <2>1. Bare(l.slot) => Zeros(k.payload)
    BY <1>3, <1>5 DEF SoundLpdu, Zeros
  <2> QED
    BY <1>2, <1>4, <1>5, <2>1, StaysSound DEF k
<1>6. CASE ~IsNullFrame(r) /\ Bare(s)
  <2>1. Zeros(sent) /\ Zeros(l.payload)
    BY <1>1, <1>6 DEF Tellable, SoundLpdu, Zeros
  <2>2. /\ Fit(l.payload, l.len) = Fit(sent, l.len) /\ Zeros(Fit(sent, l.len))
    BY <1>1, <2>1, FitOfZeros
  <2>3. k.payload = Fit(sent, l.len)
    BY <1>3, <1>6, <2>2
  <2>4. SoundLpdu(k)
    BY <1>1, <1>2, <1>4, <1>6, <2>2, <2>3, StaysSound
  <2> QED
    BY <2>3, <2>4 DEF k
<1>7. CASE ~IsNullFrame(r) /\ ~Bare(s)
  <2>1. k.payload = Fit(sent, l.len)
    BY <1>3, <1>7 DEF Tellable
  <2>2. SoundLpdu(k)
    BY <1>1, <1>2, <1>4, <1>7, StaysSound
  <2> QED
    BY <2>1, <2>2 DEF k
<1> QED
  BY <1>5, <1>6, <1>7

\* A PDU that the applications of a cluster write for an LPDU: of a Tx LPDU that
\* may be set, or of an Rx LPDU that is to be received again.
SoundPdu(p) ==
  p.type = "Lpdu" =>
    \E k \in ToSet(FrameTable[p.node]) :
      /\ k.slot = p.slot /\ k.frame = p.frame
      /\ IF k.dir = "Tx" THEN p.status = "NotTransmitted" /\ ~Bare(k.slot)
         ELSE p.status = "NotReceived"

LEMMA SetLpduSound ==
  ASSUME DistinctFrames, NEW s \in Slot, NEW l \in LpduIn(s), NEW p \in LpduPdus,
         SoundPdu(p), SoundLpdu(l), l.node = p.node, l.slot = p.slot, l.frame = p.frame
  PROVE  SoundLpdu(SetLpdu(l, p))
<1> DEFINE q == SetLpdu(l, p)
<1>1. l \in LpduType /\ l.len \in Nat \ {0} /\ p.node \in Node /\ p.payload \in Seq(Nat)
  BY LpduInType DEF LpduPdus
<1>2. Conf(q) = Conf(l) /\ q.dir = l.dir
  BY <1>1, SetLpduKeepsConf, ConfIs
<1>3. /\ q.status = p.status
      /\ q.payload = IF l.dir = "Tx" THEN Fit(p.payload, l.len) ELSE l.payload
  BY <1>1, SetLpduFields
<1> HIDE DEF q
<1>4. PICK k \in ToSet(FrameTable[p.node]) :
        /\ k.slot = p.slot /\ k.frame = p.frame
        /\ IF k.dir = "Tx" THEN p.status = "NotTransmitted" /\ ~Bare(k.slot)
           ELSE p.status = "NotReceived"
  BY DEF SoundPdu, LpduPdus
<1>5. PICK c \in ToSet(FrameTable[p.node]) : Conf(c) = Conf(l)
  BY DEF SoundLpdu
<1>6. c = k
  <2>1. c.slot = k.slot /\ c.frame = k.frame
    BY <1>4, <1>5, ConfIs
  <2> QED
    BY <1>1, <2>1 DEF DistinctFrames, ToSet
<1>7. k.dir = l.dir /\ k.slot = l.slot
  BY <1>5, <1>6, ConfIs
<1>8. l.dir \in {"Tx", "Rx"}
  BY <1>1 DEF LpduType
<1>9. CASE l.dir = "Tx"
  <2>1. ~Bare(l.slot) /\ q.status = "NotTransmitted"
    BY <1>3, <1>4, <1>7, <1>9
  <2>2. q.payload # NoPayload
    <3>1. Fit(p.payload, l.len) \in Seq(Nat) /\ Len(Fit(p.payload, l.len)) = l.len
      BY <1>1, FitIs
    <3> QED
      BY <1>1, <1>3, <1>9, <3>1 DEF NoPayload
  <2>3. StatusOfDir(q)
    BY <1>2, <1>9, <2>1 DEF StatusOfDir
  <2> QED
    BY <1>2, <2>1, <2>2, <2>3, StaysSound DEF q
<1>10. CASE l.dir = "Rx"
  <2>1. q.status = "NotReceived" /\ q.payload = l.payload
    BY <1>3, <1>4, <1>7, <1>10
  <2>2. StatusOfDir(q)
    BY <1>2, <1>10, <2>1 DEF StatusOfDir
  <2>3. Bare(l.slot) => Zeros(q.payload)
    BY <2>1 DEF SoundLpdu, Zeros
  <2> QED
    BY <1>2, <1>10, <2>2, <2>3, StaysSound DEF q
<1> QED
  BY <1>8, <1>9, <1>10

-----------------------------------------------------------------------------
(***************************************************************************)
(* A frame, and who it is for.                                             *)
(***************************************************************************)

LEMMA LpdusAre ==
  ASSUME NEW n, NEW r \in Replica(n), SoundLpdus(r), NEW i \in DOMAIN Lpdus(r)
  PROVE  /\ r.engine.slot \in Slot /\ Lpdus(r) = r.slots[r.engine.slot]
         /\ Lpdus(r)[i] \in LpduIn(r.engine.slot) /\ Lpdus(r)[i] \in LpduType
         /\ SoundLpdu(Lpdus(r)[i]) /\ Lpdus(r)[i].payload \in Seq(Nat)
         /\ Lpdus(r)[i].slot = r.engine.slot
<1>1. r.engine.slot \in Slot /\ Lpdus(r)[i] \in LpduIn(r.engine.slot)
  BY LpduAt
<1>2. Lpdus(r) = r.slots[r.engine.slot]
  BY <1>1, LpdusType
<1>3. SoundLpdu(Lpdus(r)[i])
  BY <1>1, <1>2 DEF SoundLpdus
<1> QED
  BY <1>1, <1>2, <1>3, LpduInType

LEMMA PendingIs ==
  ASSUME NEW n, NEW r \in Replica(n), PendingTx(r) # 0
  PROVE  \E j \in DOMAIN Lpdus(r) :
           Lpdus(r)[j].dir = "Tx" /\ Lpdus(r)[j].status = "NotTransmitted"
<1> DEFINE I == {i \in 1 .. Len(Lpdus(r)) : Lpdus(r)[i].dir = "Tx"
                                            /\ Lpdus(r)[i].status = "NotTransmitted"}
<1>1. PendingTx(r) = IF I # {} THEN Max(I) ELSE 0
  BY DEF PendingTx, SelectLastInSeq
<1>2. I # {}
  BY <1>1
<1>3. DOMAIN Lpdus(r) = 1 .. Len(Lpdus(r))
  BY LpdusLen
<1> QED
  BY <1>2, <1>3

LEMMA OneSender ==
  ASSUME DeliveringTables, NEW n, NEW r \in Replica(n), SoundLpdus(r),
         \A m \in Node : Unique(r, m), NEW s \in Slot, s > StaticSlotCount,
         NEW i \in DOMAIN r.slots[s], NEW j \in DOMAIN r.slots[s],
         r.slots[s][i].dir = "Tx", r.slots[s][j].dir = "Tx"
  PROVE  i = j /\ ~r.slots[s][i].continuous
<1> DEFINE l == r.slots[s][i]
           k == r.slots[s][j]
<1>1. l \in LpduIn(s) /\ k \in LpduIn(s)
  BY DEF Replica, SlotMap
<1>2. l.slot = s /\ k.slot = s /\ l.node \in Node /\ k.node \in Node
  BY <1>1, LpduInType DEF LpduType
<1>3. SoundLpdu(l) /\ SoundLpdu(k)
  BY DEF SoundLpdus
<1> HIDE DEF l, k
<1>4. PICK c \in ToSet(FrameTable[l.node]) : Conf(c) = Conf(l)
  BY <1>3 DEF SoundLpdu
<1>5. PICK d \in ToSet(FrameTable[k.node]) : Conf(d) = Conf(k)
  BY <1>3 DEF SoundLpdu
<1>6. /\ c.dir = l.dir /\ c.slot = s /\ c.node = l.node /\ c.frame = l.frame
      /\ c.continuous = l.continuous
  BY <1>2, <1>4, ConfIs
<1>7. d.dir = k.dir /\ d.slot = s /\ d.node = k.node /\ d.frame = k.frame
  BY <1>2, <1>5, ConfIs
<1>8. l.dir = "Tx" /\ k.dir = "Tx"
  BY DEF l, k
<1>9. c.node = d.node /\ c.frame = d.frame /\ ~c.continuous
  BY <1>2, <1>6, <1>7, <1>8 DEF DeliveringTables
<1>10. l.node = k.node /\ l.frame = k.frame /\ ~l.continuous
  BY <1>6, <1>7, <1>9
<1>11. i = j
  BY <1>2, <1>10 DEF Unique, l, k
<1> QED
  BY <1>10, <1>11 DEF l


LEMMA StaticSlot ==
  ASSUME NEW e \in Engine, Aligned(e), Configured(e)
  PROVE  IF InStatic(e) THEN e.slot \in 1 .. StaticSlotCount ELSE e.slot > StaticSlotCount
<1>1. /\ StaticSlotLength \in Nat \ {0} /\ StaticSlotCount \in Nat
      /\ OffsetDynamic = StaticSlotLength * StaticSlotCount
  BY ConfigAssumption DEF OffsetDynamic
<1>2. e.slot \in Nat /\ e.slot > 0 /\ e.mt \in Nat
  BY DEF Engine, Configured
<1>3. CASE InStatic(e)
  <2>1. e.mt = (e.slot - 1) * StaticSlotLength /\ e.mt < OffsetDynamic
    BY <1>3 DEF Aligned, InStatic
  <2>2. (e.slot - 1) * StaticSlotLength < StaticSlotCount * StaticSlotLength
    BY <1>1, <2>1
  <2>3. e.slot - 1 < StaticSlotCount
    BY <1>1, <1>2, <2>2, TimesStrict
  <2> QED
    BY <1>1, <1>2, <1>3, <2>3
<1>4. CASE ~InStatic(e)
  BY <1>4 DEF Aligned
<1> QED
  BY <1>3, <1>4

\* A frame is a null frame or one that is sent: what has a slot and is not idle is
\* pending.
LEMMA SentOrNull ==
  ASSUME DeliveringTables, NEW n, NEW r \in Replica(n), SoundLpdus(r),
         \A m \in Node : Unique(r, m), Aligned(r.engine), Configured(r.engine),
         InStatic(r.engine) \/ PendingTx(r) # 0, NEW tx \in TxIndexes(r)
  PROVE  /\ Sends(r, tx) <=> ~IsNullFrame(r)
         /\ ~InStatic(r.engine) => Sends(r, tx)
<1>1. tx \in DOMAIN Lpdus(r) /\ Lpdus(r)[tx].dir = "Tx"
  BY DEF TxIndexes
<1>2. SoundLpdu(Lpdus(r)[tx])
  BY <1>1, LpdusAre
<1>3. Lpdus(r)[tx].status \in {"None", "Transmitted", "NotTransmitted"}
  BY <1>1, <1>2 DEF SoundLpdu, StatusOfDir
<1>4. CASE InStatic(r.engine)
  <2>1. ~IsNullFrame(r) => Lpdus(r)[tx].status = "NotTransmitted"
    BY <1>3, <1>4 DEF IsNullFrame
  <2> QED
    BY <1>4, <2>1 DEF Sends
<1>5. CASE ~InStatic(r.engine)
  <2>1. PICK j \in DOMAIN Lpdus(r) :
          Lpdus(r)[j].dir = "Tx" /\ Lpdus(r)[j].status = "NotTransmitted"
    BY <1>5, PendingIs
  <2>2. r.engine.slot \in Slot /\ Lpdus(r) = r.slots[r.engine.slot]
    BY <1>1, LpdusAre
  <2>3. r.engine.slot > StaticSlotCount
    BY <1>5 DEF Aligned
  <2>4. tx = j
    BY <1>1, <2>1, <2>2, <2>3, OneSender
  <2> QED
    BY <1>5, <2>1, <2>4 DEF Sends, IsNullFrame
<1> QED
  BY <1>4, <1>5

LEMMA SentIsTellable ==
  ASSUME NEW n, NEW r \in Replica(n), SoundLpdus(r), NEW tx \in TxIndexes(r), Sends(r, tx)
  PROVE  Tellable(r.engine.slot, Lpdus(r)[tx].payload)
<1>1. tx \in DOMAIN Lpdus(r) /\ Lpdus(r)[tx].dir = "Tx" /\ Lpdus(r)[tx].status = "NotTransmitted"
  BY DEF TxIndexes, Sends
<1>2. SoundLpdu(Lpdus(r)[tx]) /\ Lpdus(r)[tx].slot = r.engine.slot
  BY <1>1, LpdusAre
<1> QED
  BY <1>1, <1>2 DEF SoundLpdu, Tellable, Zeros

\* What is left of an LPDU of the slot after a frame.
Frames(r, l, k, tx) ==
  /\ Conf(k) = Conf(l)
  /\ SoundLpdu(k)
  /\ Receives(r, l) =>
       IF IsNullFrame(r) THEN k.null
       ELSE /\ ~k.null /\ k.status = "Received"
            /\ k.cycle = r.engine.cycle /\ k.mt = r.engine.mt
            /\ k.payload = Fit(Lpdus(r)[tx].payload, l.len)

LEMMA FrameIs ==
  ASSUME NEW n, NEW r \in Replica(n), SoundLpdus(r), NEW tx \in TxIndexes(r),
         Sends(r, tx) <=> ~IsNullFrame(r), NEW i \in DOMAIN Lpdus(r)
  PROVE  /\ Frames(r, Lpdus(r)[i], AfterFrame(r, tx)[i], tx)
         /\ i = tx /\ Sends(r, tx) =>
              LET t == AfterFrame(r, tx)[i]
              IN  /\ t.cycle = r.engine.cycle /\ t.mt = r.engine.mt
                  /\ t.payload = Lpdus(r)[tx].payload
                  /\ t.status = IF t.continuous THEN "NotTransmitted" ELSE "Transmitted"
<1> DEFINE l == Lpdus(r)[i]
           u == Lpdus(r)[tx].payload
           k == AfterFrame(r, tx)[i]
           s == r.engine.slot
<1>1. s \in Slot /\ l \in LpduIn(s) /\ l \in LpduType /\ SoundLpdu(l)
  BY LpdusAre
<1>2. tx \in DOMAIN Lpdus(r) /\ Lpdus(r)[tx].dir = "Tx"
  BY DEF TxIndexes
<1>3. u \in Seq(Nat)
  BY <1>2, LpdusAre
<1>4. ~IsNullFrame(r) => Tellable(s, u)
  BY SentIsTellable
<1>5. k = IF i = tx /\ Sends(r, tx) THEN Transmitted(r, l)
          ELSE IF Receives(r, l) THEN Received(r, l, u) ELSE l
  BY DEF AfterFrame
<1>6. i = tx => l.dir = "Tx"
  BY <1>2
<1>7. Sends(r, tx) /\ i = tx => l.status = "NotTransmitted" /\ u = l.payload
  BY DEF Sends
<1>8. Receives(r, l) => l.dir = "Rx"
  BY DEF Receives
<1> HIDE DEF l, u, k, s
<1>9. CASE i = tx /\ Sends(r, tx)
  <2>1. k = Transmitted(r, l) /\ l.dir = "Tx" /\ l.status = "NotTransmitted" /\ ~Receives(r, l)
    BY <1>5, <1>6, <1>7, <1>8, <1>9
  <2>2. Conf(k) = Conf(l) /\ k.continuous = l.continuous
    BY <1>1, <2>1, TransmittedKeepsConf, ConfIs
  <2>3. SoundLpdu(k)
    BY <1>1, <2>1, TransmittedSound
  <2>4. /\ k.cycle = r.engine.cycle /\ k.mt = r.engine.mt /\ k.payload = l.payload
        /\ k.status = IF l.continuous THEN l.status ELSE "Transmitted"
    BY <1>1, <2>1, TransmittedFields
  <2>5. Frames(r, l, k, tx)
    BY <2>1, <2>2, <2>3 DEF Frames
  <2> QED
    BY <1>7, <1>9, <2>1, <2>2, <2>4, <2>5 DEF l, k, u
<1>10. CASE ~(i = tx /\ Sends(r, tx)) /\ Receives(r, l)
  <2>1. k = Received(r, l, u) /\ l.dir = "Rx"
    BY <1>5, <1>8, <1>10
  <2>2. Conf(k) = Conf(l)
    BY <1>1, <2>1, ReceivedKeepsConf
  <2>3. SoundLpdu(k) /\ (~IsNullFrame(r) => k.payload = Fit(u, l.len))
    BY <1>1, <1>3, <1>4, <2>1, ReceivedSound
  <2>4. /\ IsNullFrame(r) => k.null
        /\ ~IsNullFrame(r) => /\ ~k.null /\ k.status = "Received"
                              /\ k.cycle = r.engine.cycle /\ k.mt = r.engine.mt
    BY <1>1, <2>1, ReceivedFields
  <2>5. Frames(r, l, k, tx)
    BY <2>2, <2>3, <2>4 DEF Frames, u
  <2> QED
    BY <1>10, <2>5 DEF l, k
<1>11. CASE ~(i = tx /\ Sends(r, tx)) /\ ~Receives(r, l)
  <2>1. k = l
    BY <1>5, <1>11
  <2>2. Frames(r, l, k, tx)
    BY <1>1, <1>11, <2>1 DEF Frames
  <2> QED
    BY <1>11, <2>2 DEF l, k
<1> QED
  BY <1>9, <1>10, <1>11

\* Who a frame is for receives it.
LEMMA TakesIsReceives ==
  ASSUME NEW n, NEW r \in Replica(n), SoundLpdus(r), ~IsNullFrame(r),
         NEW i \in DOMAIN Lpdus(r), NEW t, NEW k,
         t.cycle = r.engine.cycle, Conf(k) = Conf(Lpdus(r)[i]), Takes(r, k, t)
  PROVE  Receives(r, Lpdus(r)[i])
<1> DEFINE l == Lpdus(r)[i]
<1>1. SoundLpdu(l)
  BY LpdusAre
<1>2. Conf(k) = Conf(l)
  OBVIOUS
<1> HIDE DEF l
<1>3. l.dir = "Rx" /\ l.node = r.node /\ l.rep # 0 /\ r.engine.cycle % l.rep = l.base
  BY <1>2, ConfIs DEF Takes
<1>4. l.status \in {"NotReceived", "Received"}
  BY <1>1, <1>3 DEF SoundLpdu, StatusOfDir
<1>5. Receives(r, l)
  BY <1>3, <1>4 DEF Receives, InCycle
<1> QED
  BY <1>5 DEF l

LEMMA ConcatSecond ==
  ASSUME NEW S, NEW s \in Seq(S), NEW t \in Seq(S)
  PROVE  \A i \in DOMAIN t : Len(s) + i \in DOMAIN (s \o t) /\ (s \o t)[Len(s) + i] = t[i]
OBVIOUS

\* The references of a frame are those of all who are told of it.
LEMMA FrameRefsHave ==
  ASSUME NEW n, NEW r \in Replica(n), NEW tx \in DOMAIN Lpdus(r), NEW i \in DOMAIN Lpdus(r),
         (i = tx /\ InformsOf(r, tx)) \/ Receives(r, Lpdus(r)[i])
  PROVE  [slot |-> r.engine.slot, pos |-> i] \in ToSet(FrameRefs(r, tx))
<1> DEFINE refs == [j \in DOMAIN Lpdus(r) |-> [slot |-> r.engine.slot, pos |-> j]]
           I == {j \in DOMAIN Lpdus(r) : Receives(r, Lpdus(r)[j])}
           first == IF InformsOf(r, tx) THEN <<refs[tx]>> ELSE <<>>
           rest == Chosen(refs, I)
           x == [slot |-> r.engine.slot, pos |-> i]
<1>1. r.engine.slot \in Slot
  BY LpduAt
<1>2. refs \in Seq(Ref) /\ FrameRefs(r, tx) = first \o rest
  BY <1>1, ReceiverRefs DEF FrameRefs
<1>3. I \in SUBSET DOMAIN refs /\ DOMAIN refs = DOMAIN Lpdus(r) /\ refs[i] = x
  OBVIOUS
<1>4. Receives(r, Lpdus(r)[i]) => i \in I
  OBVIOUS
<1>5. (i = tx /\ InformsOf(r, tx)) => first = <<x>>
  OBVIOUS
<1>6. first \in Seq(Ref)
  <2>1. InformsOf(r, tx) => refs[tx] \in Ref
    BY <1>2, <1>3
  <2> QED
    BY <2>1
<1> HIDE DEF first, refs, I, x
<1>7. rest \in Seq(Ref)
  BY <1>2, <1>3, ChosenIsPart
<1>8. Receives(r, Lpdus(r)[i]) => \E a \in DOMAIN rest : rest[a] = x
  BY <1>2, <1>3, <1>4, ChosenElements
<1> HIDE DEF rest
<1>9. x \in ToSet(first \o rest)
  <2>1. CASE i = tx /\ InformsOf(r, tx)
    <3>1. 1 \in DOMAIN first /\ first[1] = x
      BY <1>5, <2>1
    <3>2. 1 \in DOMAIN (first \o rest) /\ (first \o rest)[1] = x
      BY <1>6, <1>7, <3>1, ConcatElements
    <3> QED
      BY <3>2 DEF ToSet
  <2>2. CASE Receives(r, Lpdus(r)[i])
    <3>1. PICK a \in DOMAIN rest : rest[a] = x
      BY <1>8, <2>2
    <3>2. Len(first) + a \in DOMAIN (first \o rest) /\ (first \o rest)[Len(first) + a] = x
      BY <1>6, <1>7, <3>1, ConcatSecond
    <3> QED
      BY <3>2 DEF ToSet
  <2> QED
    BY <2>1, <2>2
<1> QED
  BY <1>2, <1>9 DEF x

-----------------------------------------------------------------------------
(***************************************************************************)
(* A slot, in a step.                                                      *)
(***************************************************************************)

LEMMA ToSetConcat ==
  ASSUME NEW S, NEW s \in Seq(S), NEW t \in Seq(S)
  PROVE  ToSet(s \o t) = ToSet(s) \union ToSet(t)
<1> DEFINE z == s \o t
<1>1. /\ \A i \in DOMAIN s : i \in DOMAIN z /\ z[i] = s[i]
      /\ \A i \in DOMAIN t : Len(s) + i \in DOMAIN z /\ z[Len(s) + i] = t[i]
      /\ \A b \in DOMAIN z : \/ b \in DOMAIN s /\ z[b] = s[b]
                             \/ \E c \in DOMAIN t : z[b] = t[c]
  BY ConcatElements, ConcatSecond, ConcatParts
<1> HIDE DEF z
<1>2. ToSet(z) = ToSet(s) \union ToSet(t)
  BY <1>1 DEF ToSet
<1> QED
  BY <1>2 DEF z

LEMMA ToSetAppend ==
  ASSUME NEW S, NEW s \in Seq(S), NEW x \in S
  PROVE  ToSet(Append(s, x)) = ToSet(s) \union {x}
<1> DEFINE z == Append(s, x)
<1>1. /\ DOMAIN z = DOMAIN s \union {Len(s) + 1}
      /\ z[Len(s) + 1] = x /\ \A i \in DOMAIN s : z[i] = s[i]
  OBVIOUS
<1> HIDE DEF z
<1>2. ToSet(z) = ToSet(s) \union {x}
  BY <1>1 DEF ToSet
<1> QED
  BY <1>2 DEF z

\* Whom a frame is told to.
ToldOf(r, tx) ==
  {i \in DOMAIN Lpdus(r) : (i = tx /\ InformsOf(r, tx)) \/ Receives(r, Lpdus(r)[i])}

RefTo(s, i) == [slot |-> s, pos |-> i]

\* What a frame does to a replica.
Framed(r, q, tx) ==
  LET s == r.engine.slot
  IN  /\ q.node = r.node
      /\ q.slots[s] = AfterFrame(r, tx)
      /\ \A z \in Slot : z # s => q.slots[z] = r.slots[z]
      /\ ToSet(q.txrx) = ToSet(r.txrx) \union {RefTo(s, i) : i \in ToldOf(r, tx)}
      /\ ToSet(q.trace) =
           ToSet(r.trace) \union (IF Sends(r, tx) THEN {RefTo(s, tx)} ELSE {})

LEMMA FrameRefsSet ==
  ASSUME NEW n, NEW r \in Replica(n), NEW tx \in DOMAIN Lpdus(r)
  PROVE  ToSet(FrameRefs(r, tx)) = {RefTo(r.engine.slot, i) : i \in ToldOf(r, tx)}
<1>1. ASSUME NEW x \in ToSet(FrameRefs(r, tx)) PROVE \E i \in ToldOf(r, tx) : x = RefTo(r.engine.slot, i)
  <2>1. PICK a \in DOMAIN FrameRefs(r, tx) : x = FrameRefs(r, tx)[a]
    BY DEF ToSet
  <2> QED
    BY <2>1, FrameRefsAre DEF ToldOf, RefTo
<1>2. ASSUME NEW i \in ToldOf(r, tx) PROVE RefTo(r.engine.slot, i) \in ToSet(FrameRefs(r, tx))
  BY FrameRefsHave DEF ToldOf, RefTo
<1> QED
  BY <1>1, <1>2

LEMMA FramedIs ==
  ASSUME NEW n, NEW r \in Replica(n), TxIndexes(r) # {}
  PROVE  Framed(r, ProcessSlot(r), Max(TxIndexes(r)))
<1> DEFINE tx == Max(TxIndexes(r))
           s == r.engine.slot
           a == AfterFrame(r, tx)
           refs == FrameRefs(r, tx)
           x == r.txrx \o refs
           y == IF Sends(r, tx) THEN Append(r.trace, [slot |-> s, pos |-> tx]) ELSE r.trace
           q == ProcessSlot(r)
<1>1. s \in Slot /\ tx \in DOMAIN Lpdus(r)
  BY TxIndexesIs
<1>2. q = [r EXCEPT !.slots = [r.slots EXCEPT ![s] = a], !.txrx = x, !.trace = y]
  BY ProcessSlotIs
<1>3. r.txrx \in Seq(Ref) /\ refs \in Seq(Ref) /\ r.trace \in Seq(Ref) /\ RefTo(s, tx) \in Ref
  <2>1. refs \in Seq(Ref)
    BY <1>1, FrameRefsType
  <2>2. tx \in Nat
    BY <1>1, LpdusLen
  <2> HIDE DEF refs, tx
  <2>3. RefTo(s, tx) \in Ref
    BY <1>1, <2>2 DEF RefTo, Ref
  <2>4. r.txrx \in Seq(Ref) /\ r.trace \in Seq(Ref)
    BY DEF Replica
  <2> QED
    BY <2>1, <2>3, <2>4
<1>4. ToSet(refs) = {RefTo(s, i) : i \in ToldOf(r, tx)}
  BY <1>1, FrameRefsSet
<1>5. y = IF Sends(r, tx) THEN Append(r.trace, RefTo(s, tx)) ELSE r.trace
  BY DEF RefTo
<1>6. r.slots \in [Slot -> Seq(LpduType)]
  BY DEF Replica, SlotMap
<1> HIDE DEF q, x, y, a, refs, tx, s
<1>7. ToSet(x) = ToSet(r.txrx) \union {RefTo(s, i) : i \in ToldOf(r, tx)}
  BY <1>3, <1>4, ToSetConcat DEF x
<1>8. ToSet(y) = ToSet(r.trace) \union (IF Sends(r, tx) THEN {RefTo(s, tx)} ELSE {})
  BY <1>3, <1>5, ToSetAppend
<1>9. q.node = r.node /\ q.slots = [r.slots EXCEPT ![s] = a] /\ q.txrx = x /\ q.trace = y
  BY <1>2 DEF Replica
<1>10. q.slots[s] = a /\ \A z \in Slot : z # s => q.slots[z] = r.slots[z]
  BY <1>1, <1>6, <1>9
<1> QED
  BY <1>7, <1>8, <1>9, <1>10 DEF Framed, a, q, tx, s

\* A frame leaves the slots and the references of others alone.
LEMMA FramedKeeps ==
  ASSUME NEW r, NEW q, NEW tx, Framed(r, q, tx), NEW ref \in Ref, ref.slot # r.engine.slot
  PROVE  /\ Carried(r, ref) => Carried(q, ref)
         /\ Caused(r, ref) => Caused(q, ref)
<1>1. /\ q.slots[ref.slot] = r.slots[ref.slot] /\ q.node = r.node
      /\ ToSet(r.txrx) \subseteq ToSet(q.txrx) /\ ToSet(r.trace) \subseteq ToSet(q.trace)
  BY DEF Framed, Ref
<1>2. Carried(r, ref) => Carried(q, ref)
  BY <1>1 DEF Carried, Leads, LpduOf, Takes
<1>3. \A c : c.slot = ref.slot => LpduOf(q, c) = LpduOf(r, c)
  BY <1>1 DEF LpduOf
<1>4. Caused(r, ref) => Caused(q, ref)
  BY <1>1, <1>3 DEF Caused, Leads
<1> QED
  BY <1>2, <1>4

\* What an LPDU of the slot is when its frame has passed.
LEMMA AfterFrameIs ==
  ASSUME DeliveringTables, NEW n, NEW r \in Replica(n), SoundLpdus(r),
         \A m \in Node : Unique(r, m), Aligned(r.engine), Configured(r.engine),
         InStatic(r.engine) \/ PendingTx(r) # 0, NEW tx \in TxIndexes(r),
         NEW i \in DOMAIN Lpdus(r)
  PROVE  LET k == AfterFrame(r, tx)[i]
             t == AfterFrame(r, tx)[tx]
         IN  /\ tx \in DOMAIN Lpdus(r) /\ DOMAIN AfterFrame(r, tx) = DOMAIN Lpdus(r)
             /\ Conf(k) = Conf(Lpdus(r)[i]) /\ SoundLpdu(k)
             /\ t.dir = "Tx" /\ t.node = Lpdus(r)[tx].node
             /\ Sends(r, tx) =>
                  /\ t.cycle = r.engine.cycle /\ t.mt = r.engine.mt /\ t.status # "None"
                  /\ Takes(r, k, t) => Receives(r, Lpdus(r)[i])
                  /\ Receives(r, Lpdus(r)[i]) => Got(k, t)
             /\ Receives(r, Lpdus(r)[i]) =>
                  /\ k.dir = "Rx" /\ k.node = r.node
                  /\ ~k.null => Sends(r, tx)
<1> DEFINE l == Lpdus(r)[i]
           k == AfterFrame(r, tx)[i]
           t == AfterFrame(r, tx)[tx]
           x == Lpdus(r)[tx]
<1>1. tx \in DOMAIN Lpdus(r) /\ x.dir = "Tx" /\ DOMAIN AfterFrame(r, tx) = DOMAIN Lpdus(r)
  BY DEF TxIndexes, AfterFrame
<1>2. Sends(r, tx) <=> ~IsNullFrame(r)
  BY SentOrNull
<1>3. Frames(r, l, k, tx) /\ Frames(r, x, t, tx)
  BY <1>1, <1>2, FrameIs
<1>4. Sends(r, tx) => /\ t.cycle = r.engine.cycle /\ t.mt = r.engine.mt
                      /\ t.payload = x.payload
                      /\ t.status = IF t.continuous THEN "NotTransmitted" ELSE "Transmitted"
  BY <1>1, <1>2, FrameIs
<1>5. Sends(r, tx) /\ Conf(k) = Conf(l) /\ Takes(r, k, t) => Receives(r, l)
  BY <1>2, <1>4, TakesIsReceives
<1>6. Receives(r, l) => l.dir = "Rx" /\ l.node = r.node
  BY DEF Receives
<1> HIDE DEF l, k, t, x
<1>7. Conf(k) = Conf(l) /\ SoundLpdu(k) /\ Conf(t) = Conf(x)
  BY <1>3 DEF Frames
<1>8. /\ k.dir = l.dir /\ k.node = l.node /\ k.len = l.len
      /\ t.dir = x.dir /\ t.node = x.node
  BY <1>7, ConfIs
<1>9. ASSUME Sends(r, tx), Receives(r, l) PROVE Got(k, t)
  BY <1>2, <1>3, <1>4, <1>8, <1>9 DEF Frames, Got, x
<1>10. ASSUME Receives(r, l), ~k.null PROVE Sends(r, tx)
  BY <1>2, <1>3, <1>10 DEF Frames
<1>11. Sends(r, tx) => t.status # "None"
  BY <1>4
<1> QED
  BY <1>1, <1>4, <1>5, <1>6, <1>7, <1>8, <1>9, <1>10, <1>11 DEF l, k, t, x

\* A replica within a step in sync.
Listens(r) ==
  /\ Aligned(r.engine) /\ Bounded(r.engine) /\ Configured(r.engine)
  /\ SoundLpdus(r)
  /\ \A m \in Node : Unique(r, m)
  /\ Heard(r)
  /\ \A ref \in ToSet(r.trace) \union ToSet(r.txrx) : Closed(r, ref.slot)

Busy(r) == InStatic(r.engine) \/ PendingTx(r) # 0

LEMMA RefsAre ==
  ASSUME NEW n, NEW r \in Replica(n)
  PROVE  ToSet(r.trace) \subseteq Ref /\ ToSet(r.txrx) \subseteq Ref
<1>1. r.trace \in Seq(Ref) /\ r.txrx \in Seq(Ref)
  BY DEF Replica
<1> QED
  BY <1>1 DEF ToSet

\* A slot that is processed was not closed.
LEMMA BusyIsOpen ==
  ASSUME NEW n, NEW r \in Replica(n), Listens(r), HasBudget(r), ~AtCycleEnd(r.engine), Busy(r)
  PROVE  /\ \A s \in Slot : Closed(r, s) => s # r.engine.slot
         /\ InStatic(r.engine) <=> r.engine.slot <= StaticSlotCount
<1> DEFINE e == r.engine
           k == Minislots(r)
<1>1. /\ e \in Engine /\ k \in Nat \ {0} /\ CanConsume(e, k)
      /\ Aligned(e) /\ Bounded(e) /\ Configured(e)
  BY MinislotsIs DEF Replica, HasBudget, Listens
<1>2. IF InStatic(e) THEN e.slot \in 1 .. StaticSlotCount ELSE e.slot > StaticSlotCount
  BY <1>1, StaticSlot
<1>3. e.slot \in Nat /\ StaticSlotCount \in Nat
  BY <1>1, ConfigAssumption DEF Engine
<1>4. InStatic(e) <=> e.slot <= StaticSlotCount
  BY <1>2, <1>3
<1>5. ASSUME NEW s \in Slot, Closed(r, s), s = e.slot PROVE FALSE
  <2>1. CASE InStatic(e)
    <3>1. Behind(e, s) /\ s \in Nat
      BY <1>3, <1>4, <1>5, <2>1 DEF Closed
    <3> QED
      BY <1>1, <1>5, <2>1, <3>1, AdvancedBehind
  <2>2. CASE ~InStatic(e)
    <3>1. PICK j \in DOMAIN Lpdus(r) :
            Lpdus(r)[j].dir = "Tx" /\ Lpdus(r)[j].status = "NotTransmitted"
      BY <2>2, PendingIs DEF Busy
    <3>2. Lpdus(r) = r.slots[s]
      BY <1>5, LpdusType
    <3>3. NonePending(r, s)
      BY <1>3, <1>4, <1>5, <2>2 DEF Closed
    <3> QED
      BY <3>1, <3>2, <3>3 DEF NonePending
  <2> QED
    BY <2>1, <2>2
<1> QED
  BY <1>4, <1>5

\* A frame: its references are carried and caused, and those of others are still.
LEMMA ProcessSlotListens ==
  ASSUME DeliveringTables, NEW n, NEW r \in Replica(n), Listens(r), HasBudget(r),
         ~AtCycleEnd(r.engine), Busy(r)
  PROVE  LET q == ProcessSlot(r)
         IN  /\ SoundLpdus(q) /\ Heard(q)
             /\ \A ref \in ToSet(q.trace) \union ToSet(q.txrx) :
                  \/ ref.slot # r.engine.slot /\ Closed(r, ref.slot)
                       /\ q.slots[ref.slot] = r.slots[ref.slot]
                  \/ ref.slot = r.engine.slot /\ (~InStatic(r.engine) => NonePending(q, ref.slot))
<1>1. CASE TxIndexes(r) = {}
  <2>1. ProcessSlot(r) = r
    BY <1>1 DEF ProcessSlot
  <2>2. \A ref \in ToSet(r.trace) \union ToSet(r.txrx) : ref.slot \in Slot
    BY RefsAre DEF Ref
  <2>3. \A ref \in ToSet(r.trace) \union ToSet(r.txrx) :
          Closed(r, ref.slot) /\ ref.slot # r.engine.slot
    BY <2>2, BusyIsOpen DEF Listens
  <2> QED
    BY <2>1, <2>3 DEF Listens
<1>2. CASE TxIndexes(r) # {}
  <2> DEFINE tx == Max(TxIndexes(r))
             s == r.engine.slot
             a == AfterFrame(r, tx)
             t == Lpdus(r)
             q == ProcessSlot(r)
  <2>1. s \in Slot /\ tx \in DOMAIN t /\ tx \in TxIndexes(r)
    BY <1>2, TxIndexesIs
  <2>2. Framed(r, q, tx)
    BY <1>2, FramedIs
  <2>3. /\ SoundLpdus(r) /\ \A m \in Node : Unique(r, m)
        /\ Aligned(r.engine) /\ Configured(r.engine) /\ Heard(r)
    BY DEF Listens
  <2>4. /\ DOMAIN a = DOMAIN t /\ t[tx].dir = "Tx" /\ t = r.slots[s]
        /\ a[tx].dir = "Tx" /\ a[tx].node = t[tx].node
    BY <2>1, <2>3, AfterFrameIs, LpdusType DEF TxIndexes, Busy
  <2>5. ASSUME NEW i \in DOMAIN t
        PROVE  /\ Conf(a[i]) = Conf(t[i]) /\ SoundLpdu(a[i])
               /\ Sends(r, tx) =>
                    /\ a[tx].cycle = r.engine.cycle /\ a[tx].mt = r.engine.mt
                    /\ a[tx].status # "None"
                    /\ Takes(r, a[i], a[tx]) => Receives(r, t[i])
                    /\ Receives(r, t[i]) => Got(a[i], a[tx])
               /\ Receives(r, t[i]) => /\ a[i].dir = "Rx" /\ a[i].node = r.node
                                       /\ ~a[i].null => Sends(r, tx)
    BY <2>1, <2>3, AfterFrameIs DEF Busy
  <2>6. ~InStatic(r.engine) => Sends(r, tx) /\ s > StaticSlotCount
    <3>1. ~InStatic(r.engine) => Sends(r, tx)
      BY <2>1, <2>3, SentOrNull DEF Busy
    <3> QED
      BY <3>1, <2>3 DEF Aligned
  <2>7. ASSUME ~InStatic(r.engine), NEW i \in DOMAIN a, a[i].dir = "Tx"
        PROVE  a[i].status # "NotTransmitted"
    <3>1. Conf(a[i]) = Conf(t[i])
      BY <2>4, <2>5, <2>7
    <3>2. t[i].dir = "Tx" /\ t[tx].dir = "Tx" /\ i \in DOMAIN t
      BY <2>4, <2>7, <3>1, ConfIs
    <3>3. i = tx /\ ~t[i].continuous
      BY <2>1, <2>3, <2>4, <2>6, <2>7, <3>2, OneSender
    <3>4. t[i] \in LpduIn(s)
      BY <2>1, <3>2, LpduAt
    <3>5. a[i] = Transmitted(r, t[i])
      BY <2>1, <2>6, <2>7, <3>3 DEF AfterFrame
    <3>6. a[i].status = "Transmitted"
      BY <2>1, <3>3, <3>4, <3>5, TransmittedStatus
    <3> QED
      BY <3>6
  <2>8. ToSet(r.trace) \subseteq Ref /\ ToSet(r.txrx) \subseteq Ref
    BY RefsAre
  <2>9. \A ref \in ToSet(r.trace) \union ToSet(r.txrx) :
          Closed(r, ref.slot) /\ ref.slot # s /\ ref.slot \in Slot
    BY <2>8, BusyIsOpen DEF Listens, Ref
  <2>10. \A i \in DOMAIN t : Receives(r, t[i]) => t[i].dir = "Rx"
    BY DEF Receives
  <2> HIDE DEF a, t, q
  <2>11. /\ q.node = r.node /\ q.slots[s] = a
         /\ \A z \in Slot : z # s => q.slots[z] = r.slots[z]
         /\ ToSet(q.txrx) = ToSet(r.txrx) \union {RefTo(s, i) : i \in ToldOf(r, tx)}
         /\ ToSet(q.trace) = ToSet(r.trace) \union (IF Sends(r, tx) THEN {RefTo(s, tx)} ELSE {})
    BY <2>2 DEF Framed, a
  <2>12. \A i \in ToldOf(r, tx) :
           i \in DOMAIN t /\ ((i = tx /\ InformsOf(r, tx)) \/ Receives(r, t[i]))
    BY DEF ToldOf, t
  <2>13. \A i \in DOMAIN t :
           (i = tx /\ InformsOf(r, tx)) \/ Receives(r, t[i]) => RefTo(s, i) \in ToSet(q.txrx)
    BY <2>11 DEF ToldOf, t
  <2>14. SoundLpdus(q)
    BY <2>3, <2>4, <2>5, <2>11 DEF SoundLpdus
  <2>15. \A i : /\ RefTo(s, i).slot = s /\ RefTo(s, i).pos = i
                /\ LpduOf(q, RefTo(s, i)) = a[i] /\ (Leads(q, RefTo(s, i)) <=> i \in DOMAIN a)
    BY <2>11 DEF RefTo, LpduOf, Leads
  <2> HIDE DEF tx, s
  <2>16. ASSUME Sends(r, tx) PROVE Carried(q, RefTo(s, tx))
    <3>1. Leads(q, RefTo(s, tx)) /\ LpduOf(q, RefTo(s, tx)) = a[tx]
      BY <2>1, <2>4, <2>15
    <3>2. a[tx].dir = "Tx" /\ a[tx].status # "None"
      BY <2>1, <2>4, <2>5, <2>16
    <3>3. a[tx].node = q.node => RefTo(s, tx) \in ToSet(q.txrx)
      BY <2>1, <2>4, <2>11, <2>13, <2>16 DEF InformsOf, t
    <3>4. ASSUME NEW i \in DOMAIN q.slots[s], Takes(q, q.slots[s][i], a[tx])
          PROVE  [slot |-> s, pos |-> i] \in ToSet(q.txrx) /\ Got(q.slots[s][i], a[tx])
      <4>1. i \in DOMAIN t /\ q.slots[s][i] = a[i] /\ Takes(r, a[i], a[tx])
        BY <2>4, <2>11, <3>4 DEF Takes
      <4>2. Receives(r, t[i]) /\ Got(a[i], a[tx])
        BY <2>5, <2>16, <4>1
      <4> QED
        BY <2>13, <4>1, <4>2 DEF RefTo
    <3>5. RefTo(s, tx).slot = s
      BY <2>15
    <3> QED
      BY <3>1, <3>2, <3>3, <3>4, <3>5 DEF Carried
  <2>17. ASSUME NEW i \in ToldOf(r, tx) PROVE Caused(q, RefTo(s, i))
    <3>1. i \in DOMAIN t /\ ((i = tx /\ InformsOf(r, tx)) \/ Receives(r, t[i]))
      BY <2>12
    <3>2. /\ Leads(q, RefTo(s, i)) /\ LpduOf(q, RefTo(s, i)) = a[i]
          /\ LpduOf(q, RefTo(s, tx)) = a[tx]
      BY <2>1, <2>4, <2>15, <3>1
    <3>3. CASE Receives(r, t[i])
      <4>1. a[i].dir = "Rx" /\ a[i].node = q.node /\ (~a[i].null => Sends(r, tx))
        BY <2>5, <2>11, <3>1, <3>3
      <4>2. ASSUME ~a[i].null
            PROVE  /\ RefTo(s, tx) \in ToSet(q.trace) /\ RefTo(s, tx).slot = RefTo(s, i).slot
                   /\ a[tx].cycle = a[i].cycle /\ a[tx].mt = a[i].mt
        <5>1. Sends(r, tx)
          BY <4>1, <4>2
        <5>2. Got(a[i], a[tx]) /\ RefTo(s, tx) \in ToSet(q.trace)
          BY <2>5, <2>11, <3>1, <3>3, <5>1
        <5> QED
          BY <2>15, <5>2 DEF Got
      <4>3. a[i].dir # "Tx"
        BY <4>1
      <4> QED
        BY <3>2, <4>1, <4>2, <4>3 DEF Caused
    <3>4. CASE ~Receives(r, t[i])
      <4>1. i = tx /\ Sends(r, tx) /\ t[tx].node = r.node
        BY <3>1, <3>4 DEF InformsOf, t
      <4>2. a[i].dir = "Tx" /\ a[i].node = q.node /\ RefTo(s, i) \in ToSet(q.trace)
        BY <2>4, <2>11, <4>1
      <4> QED
        BY <3>2, <4>2 DEF Caused
    <3> QED
      BY <3>3, <3>4
  <2>18. Heard(q)
    <3>1. ASSUME NEW ref \in ToSet(r.trace) PROVE Carried(q, ref)
      BY <2>2, <2>3, <2>8, <2>9, FramedKeeps DEF Heard, s
    <3>2. ASSUME NEW ref \in ToSet(r.txrx) PROVE Caused(q, ref)
      BY <2>2, <2>3, <2>8, <2>9, FramedKeeps DEF Heard, s
    <3> QED
      BY <2>11, <2>16, <2>17, <3>1, <3>2 DEF Heard
  <2>19. \A ref \in ToSet(q.trace) \union ToSet(q.txrx) :
           ref \in ToSet(r.trace) \union ToSet(r.txrx) \/ \E i : ref = RefTo(s, i)
    BY <2>11
  <2>20. ~InStatic(r.engine) => NonePending(q, s)
    BY <2>7, <2>11 DEF NonePending
  <2>21. ASSUME NEW ref \in ToSet(q.trace) \union ToSet(q.txrx)
         PROVE  \/ ref.slot # s /\ Closed(r, ref.slot)
                     /\ q.slots[ref.slot] = r.slots[ref.slot]
                \/ ref.slot = s /\ (~InStatic(r.engine) => NonePending(q, ref.slot))
    BY <2>9, <2>11, <2>15, <2>19, <2>20
  <2> QED
    BY <2>14, <2>18, <2>21 DEF q, s
<1> QED
  BY <1>1, <1>2

\* What is heard does not depend on the position.
LEMMA SameHeard ==
  ASSUME NEW q, NEW z, z.node = q.node, z.slots = q.slots, z.txrx = q.txrx, z.trace = q.trace,
         Heard(q)
  PROVE  Heard(z)
<1>1. \A ref : LpduOf(z, ref) = LpduOf(q, ref) /\ (Leads(z, ref) <=> Leads(q, ref))
  BY DEF LpduOf, Leads
<1>2. \A l, t : Takes(z, l, t) <=> Takes(q, l, t)
  BY DEF Takes
<1>3. ASSUME NEW ref, Carried(q, ref) PROVE Carried(z, ref)
  BY <1>1, <1>2, <1>3 DEF Carried
<1>4. ASSUME NEW ref, Caused(q, ref) PROVE Caused(z, ref)
  BY <1>1, <1>4 DEF Caused
<1> QED
  BY <1>3, <1>4 DEF Heard

\* The position moves on; what was closed stays so, and so is the slot it leaves.
LEMMA AdvancedListens ==
  ASSUME NEW n, NEW r \in Replica(n), Listens(r), HasBudget(r),
         NEW q \in Replica(n), q.engine = r.engine, SoundLpdus(q), Heard(q),
         \A m \in Node : Unique(q, m),
         \A ref \in ToSet(q.trace) \union ToSet(q.txrx) :
           IF ref.slot <= StaticSlotCount
           THEN Behind(r.engine, ref.slot) \/ (InStatic(r.engine) /\ ref.slot = r.engine.slot)
           ELSE NonePending(q, ref.slot)
  PROVE  Listens([q EXCEPT !.engine = Advanced(r.engine, Minislots(r))])
<1> DEFINE e == r.engine
           k == Minislots(r)
           f == Advanced(e, k)
           z == [q EXCEPT !.engine = f]
<1>1. /\ e \in Engine /\ k \in Nat \ {0} /\ CanConsume(e, k)
      /\ Aligned(e) /\ Bounded(e) /\ Configured(e)
  BY MinislotsIs DEF Replica, HasBudget, Listens
<1>2. f \in Engine /\ Aligned(f) /\ Configured(f) /\ Bounded(f)
  BY <1>1, AdvancedAligned
<1>3. ASSUME NEW s \in Nat, Behind(e, s) \/ (InStatic(e) /\ s = e.slot)
      PROVE  Behind(f, s)
  BY <1>1, <1>3, AdvancedBehind
<1>4. \A ref \in ToSet(q.trace) \union ToSet(q.txrx) : ref.slot \in Nat
  <2>1. \A ref \in ToSet(q.trace) \union ToSet(q.txrx) : ref.slot \in Slot
    BY RefsAre DEF Ref
  <2> QED
    BY <2>1, BusModelAssumption
<1> HIDE DEF e, f, k
<1>5. /\ z.node = q.node /\ z.engine = f /\ z.slots = q.slots
      /\ z.txrx = q.txrx /\ z.trace = q.trace
  BY DEF Replica
<1> HIDE DEF z
<1>6. SoundLpdus(z) /\ \A m \in Node : Unique(z, m)
  BY <1>5 DEF SoundLpdus, Unique
<1>7. Heard(z)
  BY <1>5, SameHeard
<1>8. ASSUME NEW ref \in ToSet(z.trace) \union ToSet(z.txrx) PROVE Closed(z, ref.slot)
  <2>1. ref \in ToSet(q.trace) \union ToSet(q.txrx) /\ ref.slot \in Nat
    BY <1>4, <1>5
  <2>2. CASE ref.slot <= StaticSlotCount
    <3>1. Behind(f, ref.slot)
      BY <1>3, <2>1, <2>2 DEF e
    <3> QED
      BY <1>5, <2>2, <3>1 DEF Closed
  <2>3. CASE ~(ref.slot <= StaticSlotCount)
    <3>1. NonePending(q, ref.slot)
      BY <2>1, <2>3
    <3>2. NonePending(z, ref.slot)
      BY <1>5, <3>1 DEF NonePending
    <3> QED
      BY <2>3, <3>2 DEF Closed
  <2> QED
    BY <2>2, <2>3
<1>9. Listens(z)
  BY <1>2, <1>5, <1>6, <1>7, <1>8 DEF Listens
<1> QED
  BY <1>9 DEF z, f, e, k

LEMMA NextSlotListens ==
  ASSUME DeliveringTables, NEW n, NEW r \in Replica(n), NEW i, Listens(r)
  PROVE  Listens(NextSlot(r, i))
<1>1. CASE ~HasBudget(r)
  BY <1>1 DEF NextSlot
<1>2. ASSUME HasBudget(r), ~Busy(r) \/ AtCycleEnd(r.engine) PROVE Listens(NextSlot(r, i))
  <2>1. NextSlot(r, i) = [r EXCEPT !.engine = Advanced(r.engine, Minislots(r))]
    BY <1>2 DEF NextSlot, ConsumeBusSlot, Advanced, Busy
  <2>2. /\ SoundLpdus(r) /\ Heard(r) /\ \A m \in Node : Unique(r, m)
        /\ \A ref \in ToSet(r.trace) \union ToSet(r.txrx) : Closed(r, ref.slot)
    BY DEF Listens
  <2>3. Listens([r EXCEPT !.engine = Advanced(r.engine, Minislots(r))])
    BY <1>2, <2>2, AdvancedListens DEF Closed
  <2> QED
    BY <2>1, <2>3
<1>3. CASE HasBudget(r) /\ Busy(r) /\ ~AtCycleEnd(r.engine)
  <2> DEFINE q == ProcessSlot(r)
  <2>1. q \in Replica(n) /\ q.engine = r.engine
    BY ProcessSlotType
  <2>2. NextSlot(r, i) = [q EXCEPT !.engine = Advanced(r.engine, Minislots(r))]
    <3>1. NextSlot(r, i) = [q EXCEPT !.engine = ConsumeSlot(q.engine, Minislots(r))]
      BY <1>3 DEF NextSlot, ConsumeBusSlot, Busy
    <3>2. Advanced(r.engine, Minislots(r)) = ConsumeSlot(r.engine, Minislots(r))
      BY <1>3 DEF Advanced
    <3> HIDE DEF q
    <3> QED
      BY <2>1, <3>1, <3>2
  <2>3. /\ SoundLpdus(q) /\ Heard(q)
        /\ \A ref \in ToSet(q.trace) \union ToSet(q.txrx) :
             \/ ref.slot # r.engine.slot /\ Closed(r, ref.slot)
                  /\ q.slots[ref.slot] = r.slots[ref.slot]
             \/ ref.slot = r.engine.slot /\ (~InStatic(r.engine) => NonePending(q, ref.slot))
    BY <1>3, ProcessSlotListens
  <2>4. \A m \in Node : Unique(q, m)
    BY ProcessSlotTables, SameTablesUnique DEF Listens
  <2>5. InStatic(r.engine) <=> r.engine.slot <= StaticSlotCount
    BY <1>3, BusyIsOpen
  <2> HIDE DEF q
  <2>6. ASSUME NEW ref \in ToSet(q.trace) \union ToSet(q.txrx)
        PROVE  IF ref.slot <= StaticSlotCount
               THEN Behind(r.engine, ref.slot) \/ (InStatic(r.engine) /\ ref.slot = r.engine.slot)
               ELSE NonePending(q, ref.slot)
    <3>1. CASE ref.slot # r.engine.slot /\ Closed(r, ref.slot)
                 /\ q.slots[ref.slot] = r.slots[ref.slot]
      BY <3>1 DEF Closed, NonePending
    <3>2. CASE ref.slot = r.engine.slot /\ (~InStatic(r.engine) => NonePending(q, ref.slot))
      BY <2>5, <3>2
    <3> QED
      BY <2>3, <3>1, <3>2
  <2>7. Listens([q EXCEPT !.engine = Advanced(r.engine, Minislots(r))])
    BY <1>3, <2>1, <2>3, <2>4, <2>6, AdvancedListens
  <2> QED
    BY <2>2, <2>7
<1> QED
  BY <1>1, <1>2, <1>3

LEMMA ConsumeSlotsListens ==
  ASSUME DeliveringTables, NEW n, NEW r \in Replica(n), Listens(r)
  PROVE  Listens(ConsumeSlots(r))
<1> DEFINE S == {q \in Replica(n) : Listens(q)}
<1>1. r \in S
  OBVIOUS
<1>2. ASSUME NEW q \in S, NEW i \in Nat PROVE NextSlot(q, i) \in S
  BY NextSlotListens, NextSlotType
<1> HIDE DEF S
<1>3. Slots!Fold(r, Turns(r)) \in S
  BY <1>1, <1>2, TurnsType, Slots!FoldStaysIn
<1>4. ConsumeSlots(r) \in S
  BY <1>3, SlotsIsFold
<1> QED
  BY <1>4 DEF S

\* The references of a node that is told of what was caused are its own.
LEMMA HeardIsOwn ==
  ASSUME NEW r, Heard(r)
  PROVE  OwnRefs(r)
BY DEF Heard, Caused, OwnRefs

\* A step.
LEMMA ProgressHears ==
  ASSUME DeliveringTables, OffsetNetwork > 0, NEW n, NEW r \in Replica(n),
         Sound(r), OwnRefs(r), \A m \in Node : Unique(r, m)
  PROVE  /\ Sound(Progress(r)) /\ OwnRefs(Progress(r))
         /\ Progress(r).st.bus = "FrameSync" => Heard(Progress(r))
<1> DEFINE from  == CHOOSE f \in Starts : TRUE
           cond  == CalculateBusCondition(r.st, from)
           q     == [r EXCEPT !.st = cond]
           begun == BeginBusStep(q, StepUt)
<1>1. /\ q \in Replica(n) /\ begun \in Replica(n)
      /\ Progress(r) = IF Synchronised(begun) THEN ConsumeSlots(begun) ELSE begun
  BY ProgressIs
<1> HIDE DEF cond
<1>2. /\ q.slots = r.slots /\ q.engine = r.engine /\ q.txrx = r.txrx /\ q.trace = r.trace
      /\ q.node = r.node
  BY DEF Replica
<1> HIDE DEF q
<1>3. Sound(q) /\ OwnRefs(q) /\ \A m \in Node : Unique(q, m)
  BY <1>2 DEF Sound, SoundLpdus, OwnRefs, Leads, LpduOf, Unique
<1>4. CASE Synchronised(q)
  <2> DEFINE e == CalculateBudget(q.engine, StepUt)
             z == ConsumeSlots(begun)
  <2>1. begun = [q EXCEPT !.engine = e, !.txrx = <<>>, !.trace = <<>>]
    BY <1>4 DEF BeginBusStep
  <2>2. q.engine \in Engine /\ Aligned(q.engine) /\ Rested(q.engine)
    BY <1>1, <1>3 DEF Replica, Sound
  <2>3. Aligned(e) /\ Bounded(e) /\ e.slot = q.engine.slot
    BY <2>2, BudgetIsBounded
  <2> HIDE DEF begun, e
  <2>4. /\ begun.slots = q.slots /\ begun.st = q.st /\ begun.engine = e
        /\ begun.txrx = <<>> /\ begun.trace = <<>>
    BY <1>1, <2>1 DEF Replica
  <2>5. Synchronised(begun) /\ Configured(begun.engine)
    BY <1>4, <2>3, <2>4 DEF Synchronised, Configured
  <2>6. ToSet(begun.txrx) = {} /\ ToSet(begun.trace) = {}
    BY <2>4 DEF ToSet
  <2>7. SoundLpdus(begun) /\ \A m \in Node : Unique(begun, m)
    BY <1>3, <2>4 DEF Sound, SoundLpdus, Unique
  <2>8. Heard(begun)
    BY <2>6 DEF Heard
  <2>9. Listens(begun)
    BY <2>3, <2>4, <2>5, <2>6, <2>7, <2>8 DEF Listens
  <2>10. Listens(z) /\ z \in Replica(n) /\ ~HasBudget(z)
    BY <1>1, <2>9, ConsumeSlotsListens, ConsumeSlotsType, LoopEnds
  <2> HIDE DEF z
  <2>11. /\ Aligned(z.engine) /\ Configured(z.engine) /\ SoundLpdus(z) /\ Heard(z)
         /\ z.engine \in Engine
    BY <2>10 DEF Listens, Replica
  <2>12. Rested(z.engine)
    BY <2>10, <2>11, MinislotsIs, SpentIsRested DEF HasBudget
  <2>13. Sound(z) /\ OwnRefs(z)
    BY <2>11, <2>12, HeardIsOwn DEF Sound
  <2> QED
    BY <1>1, <2>5, <2>11, <2>13 DEF z
<1>5. CASE ~Synchronised(q)
  <2>1. begun = q
    BY <1>5 DEF BeginBusStep
  <2>2. Progress(r) = q
    BY <1>1, <1>5, <2>1
  <2>3. ASSUME q.st.bus = "FrameSync" PROVE Heard(q)
    <3>1. q.txrx = <<>> /\ q.trace = <<>>
      BY <1>3, <1>5, <2>3 DEF Synchronised, Sound
    <3>2. ToSet(q.txrx) = {} /\ ToSet(q.trace) = {}
      BY <3>1 DEF ToSet
    <3> QED
      BY <3>2 DEF Heard
  <2> QED
    BY <1>3, <2>2, <2>3
<1> QED
  BY <1>4, <1>5

-----------------------------------------------------------------------------
(***************************************************************************)
(* What the PDUs of a step do to a replica that is heard from.             *)
(***************************************************************************)

LEMMA PositionSound ==
  ASSUME NEW e \in Engine, Aligned(e), Rested(e)
  PROVE  LET f == ConfigurePosition(e)
         IN  Aligned(f) /\ Rested(f) /\ Configured(f)
<1> DEFINE f == ConfigurePosition(e)
<1>1. CASE Configured(e)
  BY <1>1 DEF ConfigurePosition
<1>2. CASE ~Configured(e)
  <2>1. f.slot = 1 /\ f.mt = e.mt /\ f.ut = e.ut
    BY <1>2 DEF ConfigurePosition, Engine
  <2>2. e.mt = 0 /\ e.mt <= MacrotickPerCycle
    BY <1>2 DEF Aligned
  <2> HIDE DEF f
  <2>3. (InStatic(f) <=> InStatic(e)) /\ PassedUt(f) = PassedUt(e) /\ Configured(f)
    BY <2>1 DEF InStatic, PassedUt, Configured
  <2>4. Rested(f)
    BY <2>1, <2>3 DEF Rested
  <2>5. /\ StaticSlotLength \in Nat \ {0} /\ StaticSlotCount \in Nat
        /\ OffsetDynamic = StaticSlotLength * StaticSlotCount
    BY ConfigAssumption DEF OffsetDynamic
  <2>6. f.mt = (f.slot - 1) * StaticSlotLength
    BY <2>1, <2>2, <2>5
  <2>7. ~InStatic(f) => f.slot > StaticSlotCount
    <3>1. SUFFICES ASSUME StaticSlotCount # 0, ~InStatic(f) PROVE FALSE
      BY <2>1, <2>5
    <3>2. OffsetDynamic \in Nat \ {0}
      BY <2>5, <3>1, ProductIsPositive
    <3> QED
      BY <2>1, <2>2, <3>1, <3>2 DEF InStatic
  <2>8. f.mt <= MacrotickPerCycle
    BY <2>1, <2>2
  <2> QED
    BY <2>3, <2>4, <2>6, <2>7, <2>8 DEF Aligned, f
<1> QED
  BY <1>1, <1>2

\* The slots of a table, and references that are not into any of some slots.
SlotsOf(table) == {table[i].slot : i \in DOMAIN table}

OwnOutside(r, slots) ==
  \A ref \in ToSet(r.txrx) :
    ref.slot \notin slots /\ Leads(r, ref) => LpduOf(r, ref).node = r.node

\* A table has nothing for other slots, and entries for its own.
LEMMA TableParts ==
  ASSUME NEW table \in Seq(LpduType), NEW s \in Slot,
         \A i \in DOMAIN table : table[i].payload = NoPayload
  PROVE  /\ TableOf(table, s) \in Seq(LpduType)
         /\ \A a \in DOMAIN TableOf(table, s) :
              \E i \in DOMAIN table : TableOf(table, s)[a] = table[i] /\ table[i].slot = s
         /\ s \notin SlotsOf(table) => TableOf(table, s) = <<>>
<1> DEFINE I == {i \in DOMAIN table : table[i].slot = s}
           u == TableOf(table, s)
<1>1. u = Chosen(table, I) /\ u \in Seq(LpduIn(s)) /\ LpduIn(s) \subseteq LpduType
  BY TableOfType DEF LpduIn
<1>2. I \in SUBSET DOMAIN table
  OBVIOUS
<1>3. u \in Seq(LpduType)
  BY <1>1, SubsetOfSeq
<1> HIDE DEF u, I
<1>4. \A a \in DOMAIN u : \E i \in I : u[a] = table[i]
  BY <1>1, <1>2, ChosenElements
<1>5. ASSUME s \notin SlotsOf(table) PROVE u = <<>>
  <2>1. I = {}
    BY <1>5 DEF I, SlotsOf
  <2>2. DOMAIN u = {}
    BY <1>4, <2>1
  <2> QED
    BY <1>3, <2>2
<1> QED
  BY <1>3, <1>4, <1>5 DEF u, I

\* References into slots that grow lead nowhere, the others where they led.
LEMMA MovedRefs ==
  ASSUME NEW refs \in Seq(Ref), NEW slots
  PROVE  \A ref \in ToSet(Moved(refs, slots)) :
           IF ref.slot \in slots THEN ref.pos = 0 ELSE ref \in ToSet(refs)
<1>1. SUFFICES ASSUME NEW i \in DOMAIN refs
               PROVE  LET ref == Moved(refs, slots)[i]
                      IN  IF ref.slot \in slots THEN ref.pos = 0 ELSE ref \in ToSet(refs)
  BY DEF ToSet, Moved
<1>2. refs[i] \in Ref
  OBVIOUS
<1>3. Moved(refs, slots)[i] = IF refs[i].slot \in slots THEN [refs[i] EXCEPT !.pos = 0] ELSE refs[i]
  BY DEF Moved
<1>4. refs[i] \in ToSet(refs)
  BY DEF ToSet
<1>5. CASE refs[i].slot \in slots
  <2>1. Moved(refs, slots)[i] = [refs[i] EXCEPT !.pos = 0]
    BY <1>3, <1>5
  <2>2. Moved(refs, slots)[i].slot = refs[i].slot /\ Moved(refs, slots)[i].pos = 0
    BY <1>2, <2>1 DEF Ref
  <2> QED
    BY <1>5, <2>2
<1>6. CASE refs[i].slot \notin slots
  BY <1>3, <1>4, <1>6
<1> QED
  BY <1>5, <1>6

LEMMA ConfigSound ==
  ASSUME DeliveringTables, NEW n, NEW r \in Replica(n), NEW p \in Packet, p.type = "Config",
         Sound(r)
  PROVE  /\ Sound(ConsumeConfig(r, p))
         /\ OwnRefs(r) => OwnRefs(ConsumeConfig(r, p))
         /\ p.accepted /\ OwnOutside(r, SlotsOf(FrameTable[p.node]))
              => OwnRefs(ConsumeConfig(r, p))
<1>1. /\ p \in ConfigPdus /\ \A i \in DOMAIN p.table : p.table[i].payload = NoPayload
      /\ p.table = FrameTable[p.node] /\ p.node \in Node /\ p.table \in Seq(LpduType)
  BY DEF Packet, ConfigPdus, StatusPdus, LpduPdus
<1> DEFINE q == ProcessConfig(r, p)
           z == ConsumeConfig(r, p)
<1>2. q \in Replica(n)
  BY ProcessConfigType
<1>3. /\ z.slots = q.slots /\ z.txrx = q.txrx /\ z.trace = q.trace
      /\ z.engine = q.engine /\ z.node = q.node
  <2>1. PICK st : z = [q EXCEPT !.st = st]
    BY DEF ConsumeConfig
  <2> HIDE DEF q, z
  <2> QED
    BY <1>2, <2>1 DEF Replica
<1> HIDE DEF z
<1>4. CASE ~p.accepted
  <2>1. q = r
    BY <1>4 DEF ProcessConfig
  <2>2. Sound(z)
    BY <1>3, <2>1 DEF Sound, SoundLpdus
  <2>3. OwnRefs(r) => OwnRefs(z)
    BY <1>3, <2>1 DEF OwnRefs, Leads, LpduOf
  <2> QED
    BY <1>4, <2>2, <2>3 DEF z
<1>5. CASE p.accepted
  <2> DEFINE grows == SlotsOf(p.table)
  <2>1. /\ q.slots = [s \in Slot |-> r.slots[s] \o TableOf(p.table, s)]
        /\ q.txrx = Moved(r.txrx, grows) /\ q.trace = Moved(r.trace, grows)
        /\ q.engine = ConfigurePosition(r.engine) /\ q.node = r.node
    BY <1>5 DEF ProcessConfig, Replica, TableOf, SlotsOf
  <2>2. Aligned(q.engine) /\ Rested(q.engine) /\ Configured(q.engine)
    BY <2>1, PositionSound DEF Sound, Replica
  <2> HIDE DEF q, grows
  <2>3. ASSUME NEW j \in DOMAIN p.table PROVE SoundLpdu(p.table[j])
    <3>1. p.table[j] \in ToSet(FrameTable[p.node])
      BY <1>1 DEF ToSet
    <3> QED
      BY <1>1, <3>1, SoundEntry
  <2>4. ASSUME NEW s \in Slot, NEW b \in DOMAIN q.slots[s] PROVE SoundLpdu(q.slots[s][b])
    <3> DEFINE t == r.slots[s]
               u == TableOf(p.table, s)
    <3>1. t \in Seq(LpduType)
      BY DEF Replica, SlotMap
    <3>2. u \in Seq(LpduType) /\ \A c \in DOMAIN u : \E i \in DOMAIN p.table : u[c] = p.table[i]
      BY <1>1, TableParts
    <3>3. q.slots[s] = t \o u
      BY <2>1
    <3>4. \A i \in DOMAIN t : SoundLpdu(t[i])
      BY DEF Sound, SoundLpdus
    <3> HIDE DEF t, u
    <3>5. \/ b \in DOMAIN t /\ q.slots[s][b] = t[b]
          \/ \E c \in DOMAIN u : q.slots[s][b] = u[c]
      BY <3>1, <3>2, <3>3, ConcatParts
    <3> QED
      BY <2>3, <3>2, <3>4, <3>5
  <2>5. Sound(z)
    BY <1>3, <2>2, <2>4 DEF Sound, SoundLpdus
  <2>6. ASSUME OwnOutside(r, grows) PROVE OwnRefs(z)
    <3>1. SUFFICES ASSUME NEW ref \in ToSet(q.txrx), Leads(q, ref)
                   PROVE  LpduOf(q, ref).node = q.node
      BY <1>3 DEF OwnRefs, Leads, LpduOf
    <3>2. ref \in Ref /\ r.txrx \in Seq(Ref)
      <4>1. r.txrx \in Seq(Ref) /\ ToSet(q.txrx) \subseteq Ref
        BY <1>2, RefsAre DEF Replica
      <4> QED
        BY <4>1
    <3>3. IF ref.slot \in grows THEN ref.pos = 0 ELSE ref \in ToSet(r.txrx)
      BY <2>1, <3>2, MovedRefs
    <3>4. ref.slot \in Slot /\ ref.pos \in DOMAIN q.slots[ref.slot]
      BY <3>1, <3>2 DEF Leads, Ref
    <3>5. ref.slot \notin grows
      <4>1. q.slots[ref.slot] \in Seq(LpduType)
        BY <1>2, <3>4 DEF Replica, SlotMap
      <4>2. ref.pos # 0
        BY <3>4, <4>1
      <4> QED
        BY <3>3, <4>2
    <3>6. q.slots[ref.slot] = r.slots[ref.slot]
      <4> DEFINE t == r.slots[ref.slot]
                 u == TableOf(p.table, ref.slot)
      <4>1. t \in Seq(LpduType) /\ q.slots[ref.slot] = t \o u
        BY <2>1, <3>4 DEF Replica, SlotMap
      <4>2. u = <<>>
        BY <1>1, <3>4, <3>5, TableParts DEF grows
      <4> HIDE DEF t, u
      <4>3. q.slots[ref.slot] = t
        BY <4>1, <4>2
      <4> QED
        BY <4>3 DEF t
    <3>7. Leads(r, ref) /\ LpduOf(r, ref) = LpduOf(q, ref)
      BY <3>4, <3>6 DEF Leads, LpduOf
    <3> QED
      BY <2>1, <2>6, <3>3, <3>5, <3>7 DEF OwnOutside
  <2>7. OwnRefs(r) => OwnOutside(r, grows)
    BY DEF OwnRefs, OwnOutside
  <2> QED
    BY <1>1, <2>5, <2>6, <2>7 DEF z, grows
<1> QED
  BY <1>4, <1>5

\* All of a sequence is chosen.
LEMMA ChosenAll ==
  ASSUME NEW S, NEW s \in Seq(S)
  PROVE  Chosen(s, DOMAIN s) = s
<1>1. PICK n \in Nat : n = Len(s) /\ DOMAIN s = 1 .. n
  OBVIOUS
<1>2a. PICK k \in Nat : \E h : Chooses(h, k, DOMAIN s, DOMAIN s)
  BY ChosenIs
<1>2. PICK h : Chooses(h, k, DOMAIN s, DOMAIN s)
  BY <1>2a
<1>3. /\ \A a \in 1 .. k : h[a] \in 1 .. n
      /\ \A a \in 1 .. k, b \in 1 .. k : a < b => h[a] < h[b]
      /\ \A i \in 1 .. n : \E a \in 1 .. k : h[a] = i
  BY <1>1, <1>2 DEF Chooses, Reading!Enumerates
<1> DEFINE T == {i \in 0 .. k : i = 0 \/ h[i] = i}
<1>4. ASSUME NEW i \in 0 .. k - 1, i \in T PROVE i + 1 \in T
  <2>1. i + 1 \in 1 .. k /\ i \in Nat /\ i + 1 \in 0 .. k
    OBVIOUS
  <2>2. h[i + 1] \in 1 .. n
    BY <1>3, <2>1
  <2>3. i + 1 <= h[i + 1]
    <3>1. CASE i = 0
      BY <2>2, <3>1
    <3>2. CASE i # 0
      <4>1. i \in 1 .. k /\ h[i] = i
        BY <1>4, <2>1, <3>2
      <4>2. h[i] < h[i + 1]
        BY <1>3, <2>1, <4>1
      <4> QED
        BY <2>1, <2>2, <4>1, <4>2
    <3> QED
      BY <3>1, <3>2
  <2>4. ASSUME i + 1 < h[i + 1] PROVE FALSE
    <3>1. i + 1 \in 1 .. n
      BY <2>1, <2>2, <2>4
    <3>2. PICK b \in 1 .. k : h[b] = i + 1
      BY <1>3, <3>1
    <3>3. CASE b < i + 1
      <4>1. i \in 1 .. k /\ h[i] = i
        BY <1>4, <2>1, <3>3
      <4>2. b < i => h[b] < h[i]
        BY <1>3, <4>1
      <4> QED
        BY <2>1, <3>2, <3>3, <4>1, <4>2
    <3>4. CASE b = i + 1
      BY <2>4, <3>2, <3>4
    <3>5. CASE b > i + 1
      <4>1. h[i + 1] < h[b]
        BY <1>3, <2>1, <3>5
      <4> QED
        BY <2>1, <2>2, <2>4, <3>2, <4>1
    <3> QED
      BY <2>1, <3>3, <3>4, <3>5
  <2>5. h[i + 1] = i + 1
    BY <2>1, <2>2, <2>3, <2>4
  <2> QED
    BY <2>1, <2>5
<1>5. 0 .. k \subseteq T
  <2>1. 0 \in T
    OBVIOUS
  <2> HIDE DEF T
  <2> QED
    BY <1>4, <2>1, Reading!UpTo
<1>6. ASSUME NEW a \in 1 .. k PROVE h[a] = a
  <2>1. a \in T /\ a # 0
    BY <1>5
  <2> QED
    BY <2>1
<1> HIDE DEF T
<1>7. k = n
  <2>1. n # 0 => n \in 1 .. k
    <3>1. SUFFICES ASSUME n # 0 PROVE n \in 1 .. k
      OBVIOUS
    <3>2. PICK a \in 1 .. k : h[a] = n
      BY <1>3, <3>1
    <3> QED
      BY <1>6, <3>2
  <2>2. k # 0 => k \in 1 .. n
    <3>1. SUFFICES ASSUME k # 0 PROVE k \in 1 .. n
      OBVIOUS
    <3>2. k \in 1 .. k
      BY <3>1
    <3> QED
      BY <1>3, <1>6, <3>2
  <2> QED
    BY <2>1, <2>2
<1>8. Chosen(s, DOMAIN s) = [a \in 1 .. k |-> s[h[a]]]
  BY <1>2 DEF Chooses
<1>9. [a \in 1 .. k |-> s[h[a]]] = [a \in 1 .. n |-> s[a]]
  BY <1>6, <1>7
<1> QED
  BY <1>1, <1>8, <1>9

LEMMA StatusSound ==
  ASSUME NEW n, NEW r \in Replica(n), NEW p \in Packet, p.type = "Status", Sound(r)
  PROVE  /\ Sound(ConsumeStatus(r, p))
         /\ p.command # "Config" /\ OwnRefs(r) => OwnRefs(ConsumeStatus(r, p))
         /\ OneControllerPerEcu /\ OwnRefs(r)
              => OwnOutside(ConsumeStatus(r, p), SlotsOf(FrameTable[p.node]))
<1> DEFINE d == DropLpdus(r, p.node)
           q == IF p.node \in r.st.known /\ EntersDefaultConfig(r.st.poc[p.node], p.command)
                THEN d ELSE r
           z == ConsumeStatus(r, p)
<1>0. p.node \in Node
  BY DEF Packet, ConfigPdus, StatusPdus, LpduPdus
<1>1. /\ d \in Replica(n) /\ d.engine = r.engine /\ d.txrx = r.txrx /\ d.trace = r.trace
      /\ d.node = r.node
      /\ d.slots = [s \in Slot |-> Chosen(r.slots[s], Others(r.slots[s], p.node))]
  <2>1. d = [r EXCEPT !.slots = [s \in Slot |-> Chosen(r.slots[s], Others(r.slots[s], p.node))]]
        /\ d \in Replica(n)
    BY DropLpdusIs
  <2> HIDE DEF d
  <2> QED
    BY <2>1 DEF Replica
<1>2. SoundLpdus(r)
  BY DEF Sound
<1> HIDE DEF d
<1>3. ASSUME NEW s \in Slot, NEW a \in DOMAIN d.slots[s] PROVE SoundLpdu(d.slots[s][a])
  <2> DEFINE t == r.slots[s]
             I == Others(t, p.node)
  <2>1. t \in Seq(LpduType) /\ I \in SUBSET DOMAIN t /\ d.slots[s] = Chosen(t, I)
    BY <1>1 DEF Replica, SlotMap, Others
  <2>2. \A i \in DOMAIN t : SoundLpdu(t[i])
    BY <1>2 DEF SoundLpdus
  <2> HIDE DEF t, I
  <2>3. \E i \in I : d.slots[s][a] = t[i]
    BY <2>1, ChosenElements
  <2> QED
    BY <2>1, <2>2, <2>3
<1>4. z = [q EXCEPT !.st = PushNodeState(q.st, p.node, p.command)]
  BY DEF ConsumeStatus, d
<1>5. q \in Replica(n) /\ q.engine = r.engine /\ q.txrx = r.txrx /\ q.trace = r.trace
      /\ q.node = r.node
  BY <1>1
<1>6. p.command # "Config" => q = r
  BY DEF EntersDefaultConfig
<1>7. SoundLpdus(q)
  BY <1>2, <1>3 DEF SoundLpdus
<1>8. q = r \/ q = d
  OBVIOUS
<1> HIDE DEF q, z
<1>9. /\ z.slots = q.slots /\ z.txrx = q.txrx /\ z.trace = q.trace
      /\ z.engine = q.engine /\ z.node = q.node
  BY <1>4, <1>5 DEF Replica
<1>10. Sound(z)
  BY <1>5, <1>7, <1>9 DEF Sound, SoundLpdus
<1>11. ASSUME p.command # "Config", OwnRefs(r) PROVE OwnRefs(z)
  <2>1. z.slots = r.slots /\ z.txrx = r.txrx /\ z.node = r.node
    BY <1>6, <1>9, <1>11
  <2> QED
    BY <1>11, <2>1 DEF OwnRefs, Leads, LpduOf
<1>12. ASSUME OneControllerPerEcu, OwnRefs(r)
       PROVE  OwnOutside(z, SlotsOf(FrameTable[p.node]))
  <2> SUFFICES ASSUME NEW ref \in ToSet(z.txrx), ref.slot \notin SlotsOf(FrameTable[p.node]),
                      Leads(z, ref)
               PROVE  LpduOf(z, ref).node = z.node
    BY DEF OwnOutside
  <2> DEFINE s == ref.slot
             t == r.slots[s]
  <2>1. ref \in ToSet(r.txrx) /\ s \in Slot
    BY <1>5, <1>9, RefsAre DEF Ref
  <2>2. t \in Seq(LpduType) /\ t \in Seq(LpduIn(s))
    BY <2>1 DEF Replica, SlotMap
  <2>3. ASSUME NEW i \in DOMAIN t PROVE EcuOf[t[i].node] # EcuOf[p.node]
    <3> DEFINE l == t[i]
    <3>1. SoundLpdu(l) /\ l \in LpduIn(s)
      BY <1>2, <2>1, <2>2 DEF SoundLpdus
    <3>2. l \in LpduType /\ l.slot = s
      BY <2>1, <3>1, LpduInType
    <3> HIDE DEF l
    <3>3. PICK k \in ToSet(FrameTable[l.node]) : Conf(k) = Conf(l)
      BY <3>1 DEF SoundLpdu
    <3>4. k.slot = s
      BY <3>2, <3>3, ConfIs
    <3>5. l.node # p.node
      <4>1. SUFFICES ASSUME l.node = p.node PROVE FALSE
        OBVIOUS
      <4>2. s \in SlotsOf(FrameTable[p.node])
        BY <3>3, <3>4, <4>1 DEF ToSet, SlotsOf
      <4> QED
        BY <4>2
    <3>6. l.node \in Node
      BY <3>2 DEF LpduType
    <3>7. EcuOf[l.node] # EcuOf[p.node]
      BY <1>0, <1>12, <3>5, <3>6 DEF OneControllerPerEcu
    <3> QED
      BY <3>7 DEF l
  <2>4. Others(t, p.node) = DOMAIN t
    BY <2>3 DEF Others
  <2>5. d.slots[s] = t
    <3>1. d.slots[s] = Chosen(t, DOMAIN t)
      BY <1>1, <2>1, <2>4
    <3> HIDE DEF t
    <3>2. Chosen(t, DOMAIN t) = t
      BY <2>2, ChosenAll
    <3> QED
      BY <3>1, <3>2
  <2>6. z.slots[s] = r.slots[s]
    BY <1>8, <1>9, <2>5
  <2>7. Leads(r, ref) /\ LpduOf(r, ref) = LpduOf(z, ref)
    BY <2>6 DEF Leads, LpduOf
  <2> QED
    BY <1>5, <1>9, <1>12, <2>1, <2>7 DEF OwnRefs
<1> QED
  BY <1>10, <1>11, <1>12 DEF z

LEMMA LpduSound ==
  ASSUME DistinctFrames, NEW n, NEW r \in Replica(n), NEW p \in LpduPdus,
         SoundPdu(p), Sound(r)
  PROVE  /\ Sound(ConsumeLpdu(r, p))
         /\ OwnRefs(r) => OwnRefs(ConsumeLpdu(r, p))
<1> DEFINE s == p.slot
           t == r.slots[s]
           i == Target(r, p)
           l == t[i]
           k == SetLpdu(l, p)
           a == [t EXCEPT ![i] = k]
           z == ConsumeLpdu(r, p)
<1>1. CASE i = 0
  BY <1>1, ConsumeLpduIs
<1>2. CASE i # 0
  <2>1. /\ s \in Slot /\ i \in DOMAIN t /\ t \in Seq(LpduIn(s))
        /\ l.node = p.node /\ l.frame = p.frame
    <3>1. s \in Slot
      BY DEF LpduPdus
    <3>2. t \in Seq(LpduIn(s))
      BY <3>1 DEF Replica, SlotMap
    <3> QED
      BY <1>2, <3>1, <3>2, TargetIs
  <2>2. z = [r EXCEPT !.slots = [r.slots EXCEPT ![s] = a]]
    BY <1>2, ConsumeLpduIs
  <2>3. \A j \in DOMAIN t : SoundLpdu(t[j])
    BY <2>1 DEF Sound, SoundLpdus
  <2>4. SoundLpdu(k) /\ k.node = l.node
    <3>1. l \in LpduIn(s) /\ SoundLpdu(l)
      BY <2>1, <2>3
    <3>2. l \in LpduType /\ l.slot = s
      BY <2>1, <3>1, LpduInType
    <3> HIDE DEF l
    <3>3. k.node = l.node
      BY <3>2, SetLpduKeepsConf, ConfIs
    <3>4. l.node = p.node /\ l.frame = p.frame
      BY <2>1 DEF l
    <3>5. SoundLpdu(k)
      BY <2>1, <3>1, <3>2, <3>4, SetLpduSound
    <3> QED
      BY <3>3, <3>5
  <2>5. DOMAIN a = DOMAIN t /\ \A j \in DOMAIN a : SoundLpdu(a[j]) /\ a[j].node = t[j].node
    <3> HIDE DEF k, t, i
    <3> QED
      BY <2>1, <2>3, <2>4
  <2> HIDE DEF a, k, l, i, t, s, z
  <2>6. r.slots \in [Slot -> Seq(LpduType)]
    BY DEF Replica, SlotMap
  <2>7. /\ z.slots = [r.slots EXCEPT ![s] = a]
        /\ z.engine = r.engine /\ z.txrx = r.txrx /\ z.trace = r.trace /\ z.node = r.node
    BY <2>2 DEF Replica
  <2>8. \A x \in Slot : z.slots[x] = IF x = s THEN a ELSE r.slots[x]
    BY <2>1, <2>6, <2>7
  <2>9. SoundLpdus(z)
    BY <2>5, <2>8 DEF SoundLpdus, Sound
  <2>10. Sound(z)
    BY <2>7, <2>9 DEF Sound
  <2>11. ASSUME OwnRefs(r) PROVE OwnRefs(z)
    <3> SUFFICES ASSUME NEW ref \in ToSet(z.txrx), Leads(z, ref)
                 PROVE  LpduOf(z, ref).node = z.node
      BY DEF OwnRefs
    <3>1. ref \in ToSet(r.txrx) /\ ref.slot \in Slot
      BY <2>7, RefsAre DEF Ref
    <3>2. Leads(r, ref) /\ LpduOf(r, ref).node = LpduOf(z, ref).node
      BY <2>5, <2>8, <3>1 DEF Leads, LpduOf, t
    <3> QED
      BY <2>7, <2>11, <3>1, <3>2 DEF OwnRefs
  <2> QED
    BY <2>10, <2>11 DEF z
<1> QED
  BY <1>1, <1>2

\* A PDU that leaves references as they are.
Calm(p) == SoundPdu(p) /\ ~(p.type = "Status" /\ p.command = "Config")

Fine(r) == Sound(r) /\ OwnRefs(r)

LEMMA ConsumeSound ==
  ASSUME DistinctFrames, DeliveringTables, NEW n, NEW r \in Replica(n), NEW p \in Packet,
         Calm(p), Fine(r)
  PROVE  Fine(Consume(r, p))
<1>1. CASE p.type = "Config"
  BY <1>1, ConfigSound DEF Consume, Fine
<1>2. CASE p.type = "Status"
  BY <1>2, StatusSound DEF Consume, Fine, Calm
<1>3. CASE p.type = "Lpdu"
  <2>1. p \in LpduPdus
    BY <1>3 DEF Packet, ConfigPdus, StatusPdus
  <2> QED
    BY <1>3, <2>1, LpduSound DEF Consume, Fine, Calm
<1> QED
  BY <1>1, <1>2, <1>3 DEF Packet, ConfigPdus, StatusPdus, LpduPdus

LEMMA ReadingSound ==
  ASSUME DistinctFrames, DeliveringTables, NEW n, NEW r \in Replica(n),
         NEW pdus \in Seq(Packet), \A i \in DOMAIN pdus : Calm(pdus[i]), Fine(r)
  PROVE  Fine(FoldLeft(Consume, r, pdus))
<1> DEFINE S == {q \in Replica(n) : Fine(q)}
           T == {p \in Packet : Calm(p)}
<1>1. r \in S
  OBVIOUS
<1>2. pdus \in Seq(T)
  OBVIOUS
<1>3. ASSUME NEW q \in S, NEW p \in T PROVE Consume(q, p) \in S
  BY ConsumeType, ConsumeSound
<1> HIDE DEF S, T
<1>4. Reading!Fold(r, pdus) \in S
  BY <1>1, <1>2, <1>3, Reading!FoldStaysIn
<1>5. FoldLeft(Consume, r, pdus) \in S
  BY <1>4, ReadingIsFold
<1> QED
  BY <1>5 DEF S

\* A restart: its Config renews the references into the slots that its Status shrank.
LEMMA RestartSound ==
  ASSUME DistinctFrames, DeliveringTables, OneControllerPerEcu, NEW n, NEW r \in Replica(n),
         NEW m \in Node, Fine(r)
  PROVE  Fine(Consume(Consume(r, StatusPdu(m, "Config")), ConfigPdu(m, TRUE)))
<1> DEFINE a == StatusPdu(m, "Config")
           b == ConfigPdu(m, TRUE)
           u == Consume(r, a)
<1>1. /\ a \in Packet /\ a.node = m /\ a.type = "Status"
      /\ b \in Packet /\ b.node = m /\ b.type = "Config" /\ b.accepted
  BY StatusPduType, ConfigPduType DEF PocCommand, StatusPdu, ConfigPdu
<1> HIDE DEF a, b
<1>2. u \in Replica(n) /\ u = ConsumeStatus(r, a)
  BY <1>1, ConsumeType DEF Consume
<1> HIDE DEF u
<1>3. Sound(u) /\ OwnOutside(u, SlotsOf(FrameTable[m]))
  BY <1>1, <1>2, StatusSound DEF Fine
<1>4. Consume(u, b) = ConsumeConfig(u, b)
  BY <1>1 DEF Consume
<1>5. Fine(Consume(u, b))
  BY <1>1, <1>2, <1>3, <1>4, ConfigSound DEF Fine
<1> QED
  BY <1>5 DEF u, a, b

\* What is emitted is read through the references, and nothing of them is left out.
LEMMA EmittedRefs ==
  ASSUME NEW n, NEW r \in Replica(n)
  PROVE  /\ \A p \in ToSet(Emit(r).lpdus) : \E ref \in ToSet(r.txrx) : p = EmitRef(r, ref)
         /\ \A ref \in ToSet(r.txrx) :
              EmitRef(r, ref).status # "None" => EmitRef(r, ref) \in ToSet(Emit(r).lpdus)
<1> DEFINE all == [a \in DOMAIN r.txrx |-> EmitRef(r, r.txrx[a])]
           U == {EmitRef(r, r.txrx[a]) : a \in DOMAIN r.txrx}
           I == {i \in DOMAIN all : all[i].status # "None"}
           lpdus == Emit(r).lpdus
<1>1. r.txrx \in Seq(Ref)
  BY DEF Replica
<1>2. all \in Seq(U)
  <2>1. PICK k \in Nat : DOMAIN r.txrx = 1 .. k
    BY <1>1
  <2>2. \A a \in 1 .. k : EmitRef(r, r.txrx[a]) \in U
    BY <2>1
  <2> HIDE DEF U
  <2> QED
    BY <2>1, <2>2
<1>3. lpdus = FlattenSeq([i \in DOMAIN all |-> IF all[i].status # "None" THEN <<all[i]>> ELSE <<>>])
  BY DEF Emit, Selected
<1>4. DOMAIN all = DOMAIN r.txrx /\ \A a \in DOMAIN r.txrx : all[a] = EmitRef(r, r.txrx[a])
  OBVIOUS
<1>5. \A ref \in ToSet(r.txrx) : \E a \in DOMAIN r.txrx : ref = r.txrx[a]
  BY DEF ToSet
<1>6. \A a \in DOMAIN r.txrx : r.txrx[a] \in ToSet(r.txrx)
  BY DEF ToSet
<1> HIDE DEF all, U, lpdus
<1>7. [i \in DOMAIN all |-> IF all[i].status # "None" THEN <<all[i]>> ELSE <<>>]
        = [i \in DOMAIN all |-> IF i \in I THEN <<all[i]>> ELSE <<>>]
  OBVIOUS
<1>8. I \in SUBSET DOMAIN all /\ \A i \in DOMAIN all : all[i].status # "None" <=> i \in I
  OBVIOUS
<1> HIDE DEF I
<1>9. lpdus = Chosen(all, I)
  BY <1>3, <1>7 DEF Chosen
<1>10. /\ \A i \in I : \E a \in DOMAIN lpdus : lpdus[a] = all[i]
       /\ \A a \in DOMAIN lpdus : \E i \in I : lpdus[a] = all[i]
  BY <1>2, <1>8, <1>9, ChosenElements
<1>11. ASSUME NEW p \in ToSet(lpdus) PROVE \E ref \in ToSet(r.txrx) : p = EmitRef(r, ref)
  <2>1. PICK a \in DOMAIN lpdus : p = lpdus[a]
    BY <1>11 DEF ToSet
  <2>2. PICK i \in I : lpdus[a] = all[i]
    BY <1>10
  <2>3. i \in DOMAIN r.txrx /\ p = EmitRef(r, r.txrx[i])
    BY <1>4, <1>8, <2>1, <2>2
  <2> QED
    BY <1>6, <2>3
<1>12. ASSUME NEW ref \in ToSet(r.txrx), EmitRef(r, ref).status # "None"
       PROVE  EmitRef(r, ref) \in ToSet(lpdus)
  <2>1. PICK a \in DOMAIN r.txrx : ref = r.txrx[a]
    BY <1>5
  <2>2. a \in I /\ all[a] = EmitRef(r, ref)
    BY <1>4, <1>8, <1>12, <2>1
  <2>3. PICK b \in DOMAIN lpdus : lpdus[b] = all[a]
    BY <1>10, <2>2
  <2> QED
    BY <2>2, <2>3 DEF ToSet
<1> QED
  BY <1>11, <1>12 DEF lpdus

\* What a frame was emitted for.
LEMMA EmittedOf ==
  ASSUME NEW n, NEW r \in Replica(n), SoundLpdus(r), OwnRefs(r), NEW p \in ToSet(Emit(r).lpdus),
         p.status \in {"Transmitted", "Received"}
  PROVE  \E ref \in ToSet(r.txrx) :
           /\ ref.slot \in Slot /\ Leads(r, ref)
           /\ LpduOf(r, ref).node = r.node /\ p = LpduPdu(LpduOf(r, ref))
           /\ SoundLpdu(LpduOf(r, ref)) /\ LpduOf(r, ref) \in LpduIn(ref.slot)
           /\ p.status = "Transmitted" => LpduOf(r, ref).dir = "Tx"
           /\ p.status = "Received" => LpduOf(r, ref).dir = "Rx" /\ ~LpduOf(r, ref).null
<1>1. PICK ref \in ToSet(r.txrx) : p = EmitRef(r, ref)
  BY EmittedRefs
<1> DEFINE l == LpduOf(r, ref)
<1>2. ref.slot \in Slot
  BY RefsAre DEF Ref
<1>3. Leads(r, ref) /\ p = LpduPdu(l)
  BY <1>1 DEF EmitRef, UnpredictablePdu, Leads, LpduOf
<1>4. l \in LpduIn(ref.slot) /\ SoundLpdu(l)
  <2>1. r.slots[ref.slot] \in Seq(LpduIn(ref.slot))
    BY <1>2 DEF Replica, SlotMap
  <2> QED
    BY <1>2, <1>3, <2>1 DEF Leads, LpduOf, SoundLpdus
<1>5. l.node = r.node
  BY <1>3 DEF OwnRefs
<1>6. l \in LpduType
  BY <1>2, <1>4, LpduInType
<1> HIDE DEF l
<1>7. EmittedStatus(l) = p.status
  BY <1>3 DEF LpduPdu
<1>8. l.dir \in {"Tx", "Rx"} /\ StatusOfDir(l)
  BY <1>4, <1>6 DEF LpduType, SoundLpdu
<1>9. /\ p.status = "Transmitted" => l.dir = "Tx"
      /\ p.status = "Received" => l.dir = "Rx" /\ ~l.null
  BY <1>7, <1>8 DEF EmittedStatus, StatusOfDir
<1> QED
  BY <1>2, <1>3, <1>4, <1>5, <1>9 DEF l

LEMMA ReceivedOfElements ==
  ASSUME IInvTypes, NEW n \in Node
  PROVE  \A i \in DOMAIN ReceivedOf(n) :
           ReceivedOf(n)[i] \in ToSet(out[n].lpdus) /\ ReceivedOf(n)[i].status = "Received"
<1> DEFINE all == out[n].lpdus
           T == EmittedPdu \union {UnpredictablePdu}
           I == {i \in DOMAIN all : all[i].status = "Received"}
<1>1. all \in Seq(T)
  BY DEF IInvTypes, Output
<1>2. ReceivedOf(n) = Chosen(all, I)
  <2>1. [i \in DOMAIN all |-> IF all[i].status = "Received" THEN <<all[i]>> ELSE <<>>]
          = [i \in DOMAIN all |-> IF i \in I THEN <<all[i]>> ELSE <<>>]
    OBVIOUS
  <2> QED
    BY <2>1 DEF ReceivedOf, Selected, Chosen
<1>3. /\ I \in SUBSET DOMAIN all
      /\ \A i \in I : all[i] \in ToSet(all) /\ all[i].status = "Received"
  BY DEF ToSet
<1> HIDE DEF all, I, T
<1>4. \A a \in DOMAIN Chosen(all, I) : \E i \in I : Chosen(all, I)[a] = all[i]
  BY <1>1, <1>3, ChosenElements
<1>5. \A a \in DOMAIN Chosen(all, I) :
        Chosen(all, I)[a] \in ToSet(all) /\ Chosen(all, I)[a].status = "Received"
  BY <1>3, <1>4
<1> QED
  BY <1>2, <1>5 DEF all

\* What is set to be received again are Rx LPDUs of the node.
LEMMA RearmedCalm ==
  ASSUME IInvTypes, IInvTables, NEW n \in Node, n \notin todo, Fine(Later(n))
  PROVE  \A i \in DOMAIN Rearmed(n) : Calm(Rearmed(n)[i])
<1>1. /\ Later(n) = rep[n] /\ rep[n] \in Replica(n) /\ out[n] = Emit(rep[n])
      /\ rep[n].node = n
  BY DEF Later, IInvTables, IInvTypes, Replica
<1>2. SUFFICES ASSUME NEW i \in DOMAIN Rearmed(n) PROVE Calm(Rearmed(n)[i])
  OBVIOUS
<1> DEFINE p == ReceivedOf(n)[i]
           c == Rearmed(n)[i]
<1>3. /\ i \in DOMAIN ReceivedOf(n)
      /\ c.type = "Lpdu" /\ c.node = n /\ c.slot = p.slot /\ c.frame = p.frame
      /\ c.status = "NotReceived"
  BY DEF Rearmed
<1>4. p \in ToSet(Emit(rep[n]).lpdus) /\ p.status = "Received"
  BY <1>1, <1>3, ReceivedOfElements
<1> HIDE DEF p, c
<1>5. SoundLpdus(rep[n]) /\ OwnRefs(rep[n])
  BY <1>1 DEF Fine, Sound
<1>6. PICK ref \in ToSet(rep[n].txrx) :
           /\ LpduOf(rep[n], ref).node = rep[n].node /\ p = LpduPdu(LpduOf(rep[n], ref))
           /\ SoundLpdu(LpduOf(rep[n], ref))
           /\ p.status = "Received" => LpduOf(rep[n], ref).dir = "Rx"
  BY <1>1, <1>4, <1>5, EmittedOf
<1> DEFINE l == LpduOf(rep[n], ref)
<1>7. l.node = n /\ p = LpduPdu(l) /\ SoundLpdu(l) /\ l.dir = "Rx"
  BY <1>1, <1>4, <1>6
<1> HIDE DEF l
<1>8. PICK k \in ToSet(FrameTable[n]) : Conf(k) = Conf(l)
  BY <1>7 DEF SoundLpdu
<1>9. k.slot = c.slot /\ k.frame = c.frame /\ k.dir = "Rx"
  <2>1. p.slot = l.slot /\ p.frame = l.frame
    BY <1>7 DEF LpduPdu
  <2> QED
    BY <1>3, <1>7, <1>8, <2>1, ConfIs
<1>10. Calm(c)
  BY <1>3, <1>8, <1>9 DEF Calm, SoundPdu
<1> QED
  BY <1>10 DEF c

LEMMA InitHeard == Init => IInvHeard
<1> SUFFICES ASSUME Init, NEW n \in Node
             PROVE  /\ Sound(Later(n)) /\ OwnRefs(Later(n))
                    /\ Sound(After(n)) /\ OwnRefs(After(n))
                    /\ Later(n).st.bus = "FrameSync" => Heard(Later(n))
  BY DEF IInvHeard
<1> DEFINE r == ZeroReplica(n)
<1>1. Later(n) = r /\ After(n) = r
  BY ReadingOne DEF Init, After, Later
<1>2. /\ r.engine = ZeroEngine /\ r.txrx = <<>> /\ r.trace = <<>>
      /\ r.slots = [s \in Slot |-> <<>>]
  BY DEF ZeroReplica
<1> HIDE DEF r
<1>3. ZeroEngine \in Engine /\ ZeroEngine.mt = 0 /\ ZeroEngine.slot = 0 /\ ZeroEngine.ut = 0
  BY ZeroEngineType DEF ZeroEngine
<1>4. MacrotickPerCycle \in Nat
  BY ConfigAssumption
<1>5. Aligned(ZeroEngine)
  BY <1>3, <1>4 DEF Aligned, Configured
<1>6. PassedUt(ZeroEngine) = 0 /\ MicrotickPerCycle \in Nat \ {0} /\ SlotUt \in Nat \ {0}
  <2>1. PassedUt(ZeroEngine) = 0
    BY <1>3, Parameters DEF PassedUt
  <2> QED
    BY <1>3, <1>4, <2>1, PassedIs
<1>7. Rested(ZeroEngine)
  BY <1>3, <1>6 DEF Rested
<1>8. \A s \in Slot : DOMAIN r.slots[s] = {}
  BY <1>2
<1>9. Sound(r)
  BY <1>2, <1>5, <1>7, <1>8 DEF Sound, SoundLpdus
<1>10. ToSet(r.txrx) = {} /\ ToSet(r.trace) = {}
  BY <1>2 DEF ToSet
<1>11. OwnRefs(r) /\ Heard(r)
  BY <1>10 DEF OwnRefs, Heard
<1> QED
  BY <1>1, <1>9, <1>11

\* What a write has to do to keep the invariant.
LEMMA WriteHeard ==
  ASSUME DistinctFrames, DeliveringTables, IInvTypes, IInvTables, IInvHeard,
         NEW m \in Node, NEW pdus \in Seq(Packet), Write(m, pdus),
         \A n \in Node : Fine(FoldLeft(Consume, After(n), pdus))
  PROVE  IInvHeard'
<1>1. Rearmed(m) \in Seq(Packet) /\ \A i \in DOMAIN Rearmed(m) : Calm(Rearmed(m)[i])
  <2>1. m \notin todo
    BY DEF Write
  <2>2. Fine(Later(m))
    BY DEF IInvHeard, Fine
  <2> QED
    BY <2>1, <2>2, RearmedType, RearmedCalm
<1>2. ASSUME NEW n \in Node PROVE Later(n)' = Later(n) /\ Fine(After(n)')
  <2> DEFINE q == FoldLeft(Consume, After(n), pdus)
  <2>1. Later(n)' = Later(n) /\ After(n)' = FoldLeft(Consume, q, Rearmed(m))
    BY AfterWrite
  <2>2. q \in Replica(n) /\ Fine(q)
    BY AfterType, ReadingType
  <2> HIDE DEF q
  <2>3. Fine(FoldLeft(Consume, q, Rearmed(m)))
    BY <1>1, <2>2, ReadingSound
  <2> QED
    BY <2>1, <2>3
<1>3. \A n \in Node : Sound(After(n)') /\ OwnRefs(After(n)')
  BY <1>2 DEF Fine
<1> QED
  BY <1>2, <1>3 DEF IInvHeard

\* A single PDU or none.
LEMMA PlainWriteHeard ==
  ASSUME DistinctFrames, DeliveringTables, IInvTypes, IInvTables, IInvHeard,
         NEW m \in Node, NEW pdu \in Packet, Calm(pdu),
         Write(m, <<pdu>>) \/ Write(m, <<>>)
  PROVE  IInvHeard'
<1>1. \A n \in Node : After(n) \in Replica(n) /\ Fine(After(n))
  BY AfterType DEF IInvHeard, Fine
<1>2. CASE Write(m, <<pdu>>)
  <2> DEFINE pdus == <<pdu>>
  <2>1. pdus \in Seq(Packet) /\ \A i \in DOMAIN pdus : pdus[i] = pdu
    OBVIOUS
  <2> HIDE DEF pdus
  <2>2. Write(m, pdus)
    BY <1>2 DEF pdus
  <2>3. \A n \in Node : Fine(FoldLeft(Consume, After(n), pdus))
    BY <1>1, <2>1, ReadingSound
  <2> QED
    BY <2>1, <2>2, <2>3, WriteHeard
<1>3. CASE Write(m, <<>>)
  <2> DEFINE pdus == <<>>
  <2>1. pdus \in Seq(Packet) /\ DOMAIN pdus = {}
    OBVIOUS
  <2>2. \A n \in Node : FoldLeft(Consume, After(n), pdus) = After(n)
    BY ReadingOne
  <2> HIDE DEF pdus
  <2>3. Write(m, pdus)
    BY <1>3 DEF pdus
  <2> QED
    BY <1>1, <2>1, <2>2, <2>3, WriteHeard
<1> QED
  BY <1>2, <1>3

LEMMA NextHeard ==
  ASSUME DistinctFrames, DeliveringTables, OneControllerPerEcu, NetworkIdleStart > 0
  PROVE  IInvTypes /\ IInvTables /\ IInvHeard /\ [Next]_vars => IInvHeard'
<1> SUFFICES ASSUME IInvTypes, IInvTables, IInvHeard, [Next]_vars PROVE IInvHeard'
  OBVIOUS
<1>1. ASSUME NEW k \in Node, Run(k) PROVE IInvHeard'
  <2>1. \A n \in Node : Later(n)' = Later(n)
    BY <1>1, RunLater
  <2>2. \A n \in Node : After(n)' = After(n)
    BY <1>1, <2>1 DEF After, Run
  <2> QED
    BY <2>1, <2>2 DEF IInvHeard
<1>2. ASSUME NEW m \in Node, NEW accepted \in BOOLEAN, WriteConfig(m, accepted)
      PROVE  IInvHeard'
  <2> DEFINE pdu == ConfigPdu(m, accepted)
  <2>1. pdu \in Packet /\ pdu.type = "Config"
    BY ConfigPduType DEF ConfigPdu
  <2>2. Write(m, <<pdu>>)
    BY <1>2 DEF WriteConfig
  <2> HIDE DEF pdu
  <2>3. Calm(pdu)
    BY <2>1 DEF Calm, SoundPdu
  <2> QED
    BY <2>1, <2>2, <2>3, PlainWriteHeard
<1>3. ASSUME NEW m \in Node, NEW l \in ToSet(FrameTable[m]), NEW p \in Payload, WriteLpdu(m, l, p)
      PROVE  IInvHeard'
  <2> DEFINE pdu == [type |-> "Lpdu", node |-> m, slot |-> l.slot, frame |-> l.frame,
                     status |-> "NotTransmitted", payload |-> p]
  <2>1. pdu \in Packet
    <3>1. p \in Seq(Nat)
      BY NetworkAssumption
    <3> QED
      BY <3>1, IdsOf DEF Packet, LpduPdus, LpduStatus
  <2>2. Write(m, <<pdu>>)
    BY <1>3 DEF WriteLpdu
  <2>3. l.dir = "Tx" /\ ~Bare(l.slot)
    <3>1. l.dir = "Tx" /\ app[m].writes < MaxWrites[m] /\ app[m].writes \in Nat
      BY <1>3 DEF WriteLpdu, IInvTypes, AppState
    <3>2. MaxWrites[m] # 0
      BY <3>1
    <3> QED
      BY <3>1, <3>2 DEF DeliveringTables
  <2>4. /\ pdu.type = "Lpdu" /\ pdu.node = m /\ pdu.slot = l.slot /\ pdu.frame = l.frame
        /\ pdu.status = "NotTransmitted"
    OBVIOUS
  <2> HIDE DEF pdu
  <2>5. Calm(pdu)
    BY <2>3, <2>4 DEF Calm, SoundPdu
  <2> QED
    BY <2>1, <2>2, <2>5, PlainWriteHeard
<1>4. ASSUME NEW m \in Node, WriteRearm(m) \/ WriteRejoin(m) \/ WriteHalt(m) PROVE IInvHeard'
  <2>1. PICK command \in PocCommand :
          command # "Config" /\ (Write(m, <<StatusPdu(m, command)>>) \/ Write(m, <<>>))
    BY <1>4 DEF WriteRearm, WriteRejoin, WriteHalt, PocCommand
  <2> DEFINE pdu == StatusPdu(m, command)
  <2>2. pdu \in Packet /\ pdu.type = "Status" /\ pdu.command # "Config"
    BY <2>1, StatusPduType DEF StatusPdu
  <2>3. Write(m, <<pdu>>) \/ Write(m, <<>>)
    BY <2>1
  <2> HIDE DEF pdu
  <2>4. Calm(pdu)
    BY <2>2 DEF Calm, SoundPdu
  <2> QED
    BY <2>2, <2>3, <2>4, PlainWriteHeard
<1>5. ASSUME NEW m \in Node, WriteRestart(m) PROVE IInvHeard'
  <2> DEFINE a == StatusPdu(m, "Config")
             b == ConfigPdu(m, TRUE)
             pdus == <<a, b>>
  <2>1. a \in Packet /\ b \in Packet
    BY StatusPduType, ConfigPduType DEF PocCommand
  <2>2. Write(m, pdus)
    BY <1>5 DEF WriteRestart
  <2>3. ASSUME NEW n \in Node PROVE Fine(FoldLeft(Consume, After(n), pdus))
    <3>1. After(n) \in Replica(n) /\ Fine(After(n))
      BY AfterType DEF IInvHeard, Fine
    <3>2. Fine(Consume(Consume(After(n), a), b))
      BY <3>1, RestartSound
    <3> HIDE DEF a, b
    <3>3. FoldLeft(Consume, After(n), pdus) = Consume(Consume(After(n), a), b)
      BY <2>1, ReadingPair
    <3> HIDE DEF pdus
    <3> QED
      BY <3>2, <3>3
  <2>4. pdus \in Seq(Packet)
    <3> HIDE DEF a, b
    <3> QED
      BY <2>1
  <2> HIDE DEF pdus
  <2> QED
    BY <2>2, <2>3, <2>4, WriteHeard
<1>6. CASE Exchange
  <2>1. /\ todo = {} /\ todo' = Node /\ rep' = rep /\ inbox' = wire /\ wire' = <<>>
    BY <1>6 DEF Exchange
  <2>2. ASSUME NEW n \in Node
        PROVE  /\ Later(n)' = Progress(After(n)) /\ After(n)' = Progress(After(n))
    <3>1. After(n) = FoldLeft(Consume, rep[n], wire)
      BY <2>1 DEF After, Later
    <3>2. Later(n)' = Progress(After(n))
      BY <2>1, <3>1 DEF Later
    <3>3. After(n)' = FoldLeft(Consume, Later(n)', <<>>)
      BY <2>1 DEF After
    <3> QED
      BY <3>2, <3>3, ReadingOne
  <2>3. ASSUME NEW n \in Node
        PROVE  /\ Sound(Progress(After(n))) /\ OwnRefs(Progress(After(n)))
               /\ Progress(After(n)).st.bus = "FrameSync" => Heard(Progress(After(n)))
    <3>1. After(n) \in Replica(n) /\ Sound(After(n)) /\ OwnRefs(After(n))
      BY AfterType DEF IInvHeard
    <3>2. \A m \in Node : Unique(After(n), m)
      BY DEF IInvTables
    <3>3. OffsetNetwork > 0
      BY DEF OffsetNetwork
    <3> QED
      BY <3>1, <3>2, <3>3, ProgressHears
  <2> QED
    BY <2>2, <2>3 DEF IInvHeard
<1>7. CASE UNCHANGED vars
  <2>1. \A n \in Node : Later(n)' = Later(n) /\ After(n)' = After(n)
    BY <1>7 DEF vars, Later, After
  <2> QED
    BY <2>1 DEF IInvHeard
<1> QED
  BY <1>1, <1>2, <1>3, <1>4, <1>5, <1>6, <1>7 DEF Next

\* At the end of a step in sync.
LEMMA AllHeard ==
  ASSUME IInvTypes, IInvAgree, IInvTables, IInvHeard, todo = {}, NEW n \in Node, InSync(n),
         NEW m \in Node
  PROVE  /\ rep[m] \in Replica(m) /\ rep[m].node = m /\ out[m] = Emit(rep[m])
         /\ SoundLpdus(rep[m]) /\ OwnRefs(rep[m]) /\ Heard(rep[m])
         /\ rep[m].trace = rep[n].trace
         /\ \A s \in Slot : AlikeLpdus(rep[n].slots[s], rep[m].slots[s])
<1>1. Later(n) = rep[n] /\ Later(m) = rep[m]
  BY DEF Later
<1>2. rep[m] \in Replica(m) /\ rep[m].node = m /\ out[m] = Emit(rep[m])
  BY DEF IInvTypes, IInvTables, Replica
<1>3. Alike(rep[n], rep[m])
  BY <1>1 DEF IInvAgree
<1>4. rep[m].st.bus = "FrameSync"
  BY <1>3 DEF InSync, Alike
<1>5. Sound(rep[m]) /\ OwnRefs(rep[m]) /\ Heard(rep[m])
  BY <1>1, <1>4 DEF IInvHeard
<1> QED
  BY <1>2, <1>3, <1>5 DEF Alike, Sound

\* The LPDU of a traced transmission is the same in every replica, and is carried.
LEMMA TracedIs ==
  ASSUME IInvTypes, IInvAgree, IInvTables, IInvHeard, todo = {}, NEW n \in Node, InSync(n),
         NEW m \in Node, NEW ref \in ToSet(rep[n].trace)
  PROVE  /\ ref \in Ref /\ Carried(rep[m], ref)
         /\ LpduOf(rep[m], ref) = LpduOf(rep[n], ref)
         /\ LpduOf(rep[n], ref) \in LpduIn(ref.slot) /\ SoundLpdu(LpduOf(rep[n], ref))
<1>1. rep[n] \in Replica(n) /\ SoundLpdus(rep[n]) /\ Heard(rep[n])
  BY AllHeard
<1>2. Heard(rep[m]) /\ rep[m].trace = rep[n].trace
      /\ \A s \in Slot : AlikeLpdus(rep[n].slots[s], rep[m].slots[s])
  BY AllHeard
<1>3. ref \in Ref /\ ref.slot \in Slot
  BY <1>1, RefsAre DEF Ref
<1>4. Carried(rep[n], ref) /\ Carried(rep[m], ref)
  BY <1>1, <1>2 DEF Heard
<1>5. Leads(rep[n], ref) /\ LpduOf(rep[n], ref).dir = "Tx"
  BY <1>4 DEF Carried
<1>6. LpduOf(rep[m], ref) = LpduOf(rep[n], ref)
  BY <1>2, <1>3, <1>5 DEF Leads, LpduOf, AlikeLpdus, AlikeLpdu
<1>7. LpduOf(rep[n], ref) \in LpduIn(ref.slot) /\ SoundLpdu(LpduOf(rep[n], ref))
  <2>1. rep[n].slots[ref.slot] \in Seq(LpduIn(ref.slot))
    BY <1>1, <1>3 DEF Replica, SlotMap
  <2> QED
    BY <1>1, <1>3, <1>5, <2>1 DEF Leads, LpduOf, SoundLpdus
<1> QED
  BY <1>3, <1>4, <1>6, <1>7

\* What is told of at the end of a step in sync.
LEMMA ToldIs ==
  ASSUME IInvTypes, IInvAgree, IInvTables, IInvHeard, todo = {}, NEW n \in Node, InSync(n),
         NEW status \in {"Transmitted", "Received"}, NEW p \in Emitted(n, status)
  PROVE  \E ref \in ToSet(rep[n].txrx) :
           /\ ref.slot \in Slot /\ Leads(rep[n], ref) /\ Caused(rep[n], ref)
           /\ LpduOf(rep[n], ref).node = n /\ p = LpduPdu(LpduOf(rep[n], ref))
           /\ LpduOf(rep[n], ref).slot = ref.slot
           /\ status = "Transmitted" => LpduOf(rep[n], ref).dir = "Tx"
           /\ status = "Received" => LpduOf(rep[n], ref).dir = "Rx" /\ ~LpduOf(rep[n], ref).null
<1>1. /\ rep[n] \in Replica(n) /\ rep[n].node = n /\ out[n] = Emit(rep[n])
      /\ SoundLpdus(rep[n]) /\ OwnRefs(rep[n]) /\ Heard(rep[n])
  BY AllHeard
<1>2. p \in ToSet(Emit(rep[n]).lpdus) /\ p.status = status
  BY <1>1 DEF Emitted
<1>3. PICK ref \in ToSet(rep[n].txrx) :
           /\ ref.slot \in Slot /\ Leads(rep[n], ref)
           /\ LpduOf(rep[n], ref).node = rep[n].node /\ p = LpduPdu(LpduOf(rep[n], ref))
           /\ LpduOf(rep[n], ref) \in LpduIn(ref.slot)
           /\ p.status = "Transmitted" => LpduOf(rep[n], ref).dir = "Tx"
           /\ p.status = "Received" => LpduOf(rep[n], ref).dir = "Rx" /\ ~LpduOf(rep[n], ref).null
  BY <1>1, <1>2, EmittedOf
<1>4. LpduOf(rep[n], ref).slot = ref.slot
  BY <1>3, LpduInType
<1>5. Caused(rep[n], ref)
  BY <1>1 DEF Heard
<1> QED
  BY <1>1, <1>2, <1>3, <1>4, <1>5

LEMMA HeardDelivers ==
  ASSUME IInvTypes, IInvAgree, IInvTables, IInvHeard
  PROVE  FramesDelivered
<1> SUFFICES ASSUME todo = {}, NEW n \in Node, NEW m \in Node, InSync(n),
                    NEW p \in Emitted(n, "Transmitted"), NEW l \in LpdusOf(rep[m], m),
                    l.dir = "Rx", l.slot = p.slot, l.rep # 0, p.cycle % l.rep = l.base
             PROVE  \E q \in Emitted(m, "Received"), t \in LpdusOf(rep[n], n) :
                      /\ SameFrame(p, q) /\ q.frame = l.frame
                      /\ t.slot = p.slot /\ t.frame = p.frame
                      /\ q.payload = Fit(t.payload, l.len)
  BY DEF FramesDelivered
<1>1. PICK ref \in ToSet(rep[n].txrx) :
           /\ ref.slot \in Slot /\ Leads(rep[n], ref) /\ Caused(rep[n], ref)
           /\ LpduOf(rep[n], ref).node = n /\ p = LpduPdu(LpduOf(rep[n], ref))
           /\ LpduOf(rep[n], ref).slot = ref.slot
           /\ LpduOf(rep[n], ref).dir = "Tx"
  BY ToldIs
<1> DEFINE t == LpduOf(rep[n], ref)
           s == ref.slot
<1>2. p.slot = t.slot /\ p.frame = t.frame /\ p.cycle = t.cycle /\ p.mt = t.mt /\ t.slot = s
  BY <1>1 DEF LpduPdu
<1>3. ref \in ToSet(rep[n].trace)
  BY <1>1 DEF Caused
<1>4. Carried(rep[m], ref) /\ LpduOf(rep[m], ref) = t
  BY <1>3, TracedIs
<1>5. t \in LpdusOf(rep[n], n)
  <2>1. t \in ToSet(rep[n].slots[s])
    BY <1>1 DEF Leads, LpduOf, ToSet
  <2> QED
    BY <1>1, <2>1 DEF LpdusOf
<1>6. rep[m] \in Replica(m) /\ rep[m].node = m /\ out[m] = Emit(rep[m])
  BY AllHeard
<1>7. l.node = m /\ \E z \in Slot : l \in ToSet(rep[m].slots[z])
  BY DEF LpdusOf
<1>8. PICK z \in Slot : l \in ToSet(rep[m].slots[z])
  BY <1>7
<1>9. rep[m].slots[z] \in Seq(LpduIn(z))
  BY <1>6 DEF Replica, SlotMap
<1>10. PICK i \in DOMAIN rep[m].slots[z] : l = rep[m].slots[z][i]
  BY <1>8 DEF ToSet
<1>11. l \in LpduIn(z)
  BY <1>9, <1>10
<1>12. z = s
  BY <1>2, <1>11, LpduInType
<1> HIDE DEF t
<1>13. Takes(rep[m], l, t)
  BY <1>2, <1>6, <1>7 DEF Takes
<1> DEFINE told == [slot |-> s, pos |-> i]
           q == LpduPdu(l)
<1>14. told \in ToSet(rep[m].txrx) /\ Got(l, t)
  BY <1>4, <1>10, <1>12, <1>13 DEF Carried
<1>15. EmitRef(rep[m], told) = q
  BY <1>10, <1>12 DEF EmitRef
<1>16. q.status = "Received"
  BY <1>14 DEF Got, LpduPdu, EmittedStatus
<1>17. /\ q.slot = l.slot /\ q.frame = l.frame /\ q.cycle = l.cycle /\ q.mt = l.mt
       /\ q.payload = l.payload
  BY <1>14 DEF LpduPdu, Got
<1> HIDE DEF told, q
<1>18. q \in Emitted(m, "Received")
  <2>1. q \in ToSet(Emit(rep[m]).lpdus)
    BY <1>6, <1>14, <1>15, <1>16, EmittedRefs
  <2> QED
    BY <1>6, <1>16, <2>1 DEF Emitted
<1>19. SameFrame(p, q) /\ q.payload = Fit(t.payload, l.len)
  BY <1>2, <1>14, <1>17 DEF SameFrame, Got
<1> QED
  BY <1>2, <1>5, <1>17, <1>18, <1>19

LEMMA HeardHasNoGhosts ==
  ASSUME IInvTypes, IInvAgree, IInvTables, IInvHeard
  PROVE  NoGhostFrames
<1> SUFFICES ASSUME todo = {}, NEW n \in Node, InSync(n), NEW q \in Emitted(n, "Received")
             PROVE  \E m \in Node : \E p \in Emitted(m, "Transmitted") : SameFrame(p, q)
  BY DEF NoGhostFrames
<1>1. PICK ref \in ToSet(rep[n].txrx) :
           /\ ref.slot \in Slot /\ Leads(rep[n], ref) /\ Caused(rep[n], ref)
           /\ q = LpduPdu(LpduOf(rep[n], ref))
           /\ LpduOf(rep[n], ref).slot = ref.slot
           /\ LpduOf(rep[n], ref).dir = "Rx" /\ ~LpduOf(rep[n], ref).null
  BY ToldIs
<1>2. PICK c \in ToSet(rep[n].trace) :
        /\ c.slot = ref.slot
        /\ LpduOf(rep[n], c).cycle = LpduOf(rep[n], ref).cycle
        /\ LpduOf(rep[n], c).mt = LpduOf(rep[n], ref).mt
  BY <1>1 DEF Caused
<1> DEFINE t == LpduOf(rep[n], c)
           m == t.node
<1>3. q.slot = c.slot /\ q.cycle = t.cycle /\ q.mt = t.mt
  BY <1>1, <1>2 DEF LpduPdu
<1>4. c \in Ref /\ t \in LpduIn(c.slot) /\ SoundLpdu(t)
  BY TracedIs
<1>5. t \in LpduType /\ t.slot = c.slot
  BY <1>4, LpduInType DEF Ref
<1>6. m \in Node
  BY <1>5 DEF LpduType
<1>7. Carried(rep[m], c) /\ LpduOf(rep[m], c) = t
  BY <1>6, TracedIs
<1>8. rep[m] \in Replica(m) /\ rep[m].node = m /\ out[m] = Emit(rep[m])
  BY <1>6, AllHeard
<1> HIDE DEF t
<1>9. Leads(rep[m], c) /\ t.dir = "Tx" /\ t.status # "None" /\ c \in ToSet(rep[m].txrx)
  BY <1>7, <1>8 DEF Carried
<1> DEFINE p == LpduPdu(t)
<1>10. EmitRef(rep[m], c) = p
  BY <1>7, <1>9 DEF EmitRef, Leads, LpduOf
<1>11. p.status = "Transmitted"
  <2>1. t.status \in {"Transmitted", "NotTransmitted"}
    BY <1>4, <1>9 DEF SoundLpdu, StatusOfDir
  <2> QED
    BY <2>1 DEF LpduPdu, EmittedStatus
<1>12. p.slot = t.slot /\ p.cycle = t.cycle /\ p.mt = t.mt
  BY DEF LpduPdu
<1> HIDE DEF p, m
<1>13. p \in Emitted(m, "Transmitted")
  <2>1. p \in ToSet(Emit(rep[m]).lpdus)
    BY <1>8, <1>9, <1>10, <1>11, EmittedRefs
  <2> QED
    BY <1>8, <1>11, <2>1 DEF Emitted
<1>14. SameFrame(p, q)
  BY <1>3, <1>5, <1>12 DEF SameFrame
<1> QED
  BY <1>6, <1>13, <1>14

LEMMA HeardInvariant ==
  ASSUME DistinctFrames, DeliveringTables, OneControllerPerEcu, NetworkIdleStart > 0
  PROVE  Spec => [](IInvTypes /\ IInvAgree /\ IInvTables /\ IInvHeard)
<1>1. Init => IInvTypes /\ IInvAgree /\ IInvTables /\ IInvHeard
  BY InitTypes, InitAgree, InitTables, InitHeard
<1>2. IInvTypes /\ IInvAgree /\ IInvTables /\ IInvHeard /\ [Next]_vars
        => (IInvTypes /\ IInvAgree /\ IInvTables /\ IInvHeard)'
  BY NextTypes, NextAgree, NextTables, NextHeard
<1> QED
  BY <1>1, <1>2, PTL DEF Spec

\* A frame that one node is told was transmitted, process_slot() of every other
\* node's replica has received in the same step, slot and cycle, in each Rx LPDU of
\* that node for that slot and cycle, with the sender's payload: whatever the step,
\* the communication parameters and the frame tables that deliver are, however often
\* nodes write, halt, restart and are refused, and however sync is lost and found.
THEOREM Delivery ==
  ASSUME DistinctFrames, DeliveringTables, OneControllerPerEcu, NetworkIdleStart > 0
  PROVE  Spec => []FramesDelivered
<1>1. IInvTypes /\ IInvAgree /\ IInvTables /\ IInvHeard => FramesDelivered
  BY HeardDelivers
<1> QED
  BY <1>1, HeardInvariant, PTL

\* A frame that a node is told it received, some node is told it transmitted, in the
\* same step, slot and cycle: the references that process_slot() has left in the
\* list of a node are to frames of this step, and none to LPDUs of another life.
THEOREM NoGhosts ==
  ASSUME DistinctFrames, DeliveringTables, OneControllerPerEcu, NetworkIdleStart > 0
  PROVE  Spec => []NoGhostFrames
<1>1. IInvTypes /\ IInvAgree /\ IInvTables /\ IInvHeard => NoGhostFrames
  BY HeardHasNoGhosts
<1> QED
  BY <1>1, HeardInvariant, PTL
=============================================================================
