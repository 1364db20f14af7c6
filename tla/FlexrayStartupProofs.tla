------------------------ MODULE FlexrayStartupProofs ------------------------
(***************************************************************************)
(* Proofs about FlexrayStartup: for every set of nodes, whatever they are  *)
(* commanded and however often they are configured and powered.            *)
(***************************************************************************)
EXTENDS FlexrayStartup, TLAPS, FiniteSetTheorems

USE StateAssumption, StartupAssumption

-----------------------------------------------------------------------------
(***************************************************************************)
(* The operators of FlexrayState.                                          *)
(***************************************************************************)

\* What a transceiver puts on the bus is a transceiver state, it is frame sync
\* in NormalActive only, and never "no power".
LEMMA TcvrOfState ==
  ASSUME NEW p \in PocState
  PROVE  /\ TcvrOf[p] \in TcvrState
         /\ TcvrOf[p] = "FrameSync" <=> p = "NormalActive"
         /\ TcvrOf[p] # "NoPower"
  BY DEF TcvrOf, PocState, TcvrState

\* A node's transceiver state belongs to its POC state.
Follows(s, n) ==
  n \in s.known /\ s.tcvr[n] # "NoPower" =>
    \/ s.tcvr[n] = TcvrOf[s.poc[n]]
    \/ s.tcvr[n] = "NoConnection" /\ s.poc[n] = "DefaultConfig"

AllFollow(s) == \A n \in Node : Follows(s, n)

LEMMA SetTransceiverType ==
  ASSUME NEW s \in NodeStates, NEW nodes
  PROVE  SetTransceiver(s, nodes) \in NodeStates
  BY TcvrOfState DEF SetTransceiver, NodeStates, TcvrState

\* Wherever __set_transceiver_state() is called the transceiver follows; at
\* other nodes nothing changes.
LEMMA SetTransceiverFollows ==
  ASSUME NEW s \in NodeStates, NEW nodes,
         \A n \in Node : n \notin nodes => Follows(s, n)
  PROVE  AllFollow(SetTransceiver(s, nodes))
<1> SUFFICES ASSUME NEW n \in Node PROVE Follows(SetTransceiver(s, nodes), n)
  BY DEF AllFollow
<1> DEFINE t == SetTransceiver(s, nodes)
<1>1. t.known = s.known /\ t.poc = s.poc
  BY DEF SetTransceiver, NodeStates
<1>2. t.tcvr[n] = IF n \in nodes /\ s.tcvr[n] # "NoPower" THEN TcvrOf[s.poc[n]] ELSE s.tcvr[n]
  BY DEF SetTransceiver, NodeStates
<1> QED
  BY <1>1, <1>2 DEF Follows

LEMMA PocNextState ==
  ASSUME NEW p \in PocState, NEW c
  PROVE  PocNext(p, c) \in PocState
  BY DEF PocNext, Commanded, Joining, PocState

LEMMA VcnsAreVcns ==
  ASSUME NEW n \in Node, NEW k \in VcnCounts
  PROVE  VcnsOf(n, k) \subseteq Vcn
  BY DEF VcnsOf, Vcn

-----------------------------------------------------------------------------
(***************************************************************************)
(* The handlers.                                                           *)
(***************************************************************************)

LEMMA ConfigureStep ==
  ASSUME NEW s \in NodeStates, AllFollow(s), NEW n \in Node,
         NEW initial \in PocState, NEW vcns \in SUBSET Vcn
  PROVE  /\ Configure(s, n, initial, vcns) \in NodeStates
         /\ AllFollow(Configure(s, n, initial, vcns))
<1> DEFINE r == RegisterNode(RegisterVcn(s, vcns), n, "on")
           q == [r EXCEPT !.poc[n] = initial]
<1>1. /\ r.known = s.known \union {n}
      /\ r.poc = s.poc
      /\ r.tcvr = [s.tcvr EXCEPT ![n] = "NoConnection"]
  BY DEF RegisterNode, RegisterVcn, NodeStates
<1>2. r \in NodeStates /\ n \in r.known
  <2>1. [s EXCEPT !.vcs = @ \union vcns] \in NodeStates
    BY DEF NodeStates
  <2> QED
    BY <2>1 DEF RegisterNode, RegisterVcn, NodeStates, TcvrState
<1>3. q \in NodeStates
  BY <1>2 DEF NodeStates
<1>4. Configure(s, n, initial, vcns) = SetTransceiver(q, {n})
  BY <1>2 DEF Configure, SetPocState
<1>5. ASSUME NEW m \in Node, m \notin {n} PROVE Follows(q, m)
  <2>1. q.tcvr[m] = s.tcvr[m] /\ q.poc[m] = s.poc[m] /\ (m \in q.known <=> m \in s.known)
    BY <1>1, <1>2, <1>5 DEF NodeStates
  <2> QED
    BY <2>1 DEF AllFollow, Follows
<1> QED
  BY <1>3, <1>4, <1>5, SetTransceiverType, SetTransceiverFollows

LEMMA PushNodeStateStep ==
  ASSUME NEW s \in NodeStates, AllFollow(s), NEW n \in Node, NEW c
  PROVE  /\ PushNodeState(s, n, c) \in NodeStates
         /\ AllFollow(PushNodeState(s, n, c))
<1>1. CASE n \notin s.known
  BY <1>1 DEF PushNodeState
<1>2. CASE n \in s.known
  <2> DEFINE q == [s EXCEPT !.poc[n] = PocNext(@, c)]
  <2>1. q \in NodeStates
    BY PocNextState DEF NodeStates
  <2>2. ASSUME NEW m \in Node, m \notin {n} PROVE Follows(q, m)
    BY <2>2 DEF AllFollow, Follows, NodeStates
  <2>3. PushNodeState(s, n, c) = SetTransceiver(q, {n})
    BY <1>2 DEF PushNodeState
  <2> QED
    BY <2>1, <2>2, <2>3, SetTransceiverType, SetTransceiverFollows
<1> QED
  BY <1>1, <1>2

LEMMA SetNodePowerStep ==
  ASSUME NEW s \in NodeStates, AllFollow(s), NEW n \in Node, NEW on \in BOOLEAN
  PROVE  /\ SetNodePower(s, n, on) \in NodeStates
         /\ AllFollow(SetNodePower(s, n, on))
<1> DEFINE t == SetNodePower(s, n, on)
<1>1. t \in NodeStates
  BY DEF SetNodePower, NodeStates, PocState, TcvrState
<1>2. ASSUME NEW m \in Node PROVE Follows(t, m)
  BY DEF AllFollow, Follows, SetNodePower, NodeStates
<1> QED
  BY <1>1, <1>2 DEF AllFollow

LEMMA CalculateBusConditionStep ==
  ASSUME NEW s \in NodeStates, AllFollow(s), NEW from \in Starts
  PROVE  /\ CalculateBusCondition(s, from) \in NodeStates
         /\ AllFollow(CalculateBusCondition(s, from))
<1> DEFINE count == SyncCount(s, from)
           lone  == {n \in NodesFrom(s, from.demote) : s.poc[n] = "NormalActive"}
           q     == [s EXCEPT !.bus = "FrameError",
                              !.poc = [n \in Node |-> IF n \in lone THEN "NormalPassive"
                                                      ELSE @[n]]]
<1>1. CASE count = 1
  <2>1. q \in NodeStates
    BY DEF NodeStates, PocState, TcvrState
  <2>2. ASSUME NEW n \in Node, n \notin lone PROVE Follows(q, n)
    <3>1. q.known = s.known /\ q.tcvr = s.tcvr /\ q.poc[n] = s.poc[n]
      BY <2>2 DEF NodeStates
    <3> QED
      BY <3>1 DEF AllFollow, Follows
  <2>3. CalculateBusCondition(s, from) = SetTransceiver(q, lone)
    BY <1>1 DEF CalculateBusCondition
  <2> QED
    BY <2>1, <2>2, <2>3, SetTransceiverType, SetTransceiverFollows
<1>2. CASE count # 1
  <2>1. PICK b \in TcvrState : CalculateBusCondition(s, from) = [s EXCEPT !.bus = b]
    BY <1>2 DEF CalculateBusCondition, TcvrState
  <2>2. [s EXCEPT !.bus = b] \in NodeStates
    BY DEF NodeStates
  <2>3. AllFollow([s EXCEPT !.bus = b])
    BY DEF AllFollow, Follows, NodeStates
  <2> QED
    BY <2>1, <2>2, <2>3
<1> QED
  BY <1>1, <1>2

-----------------------------------------------------------------------------
(***************************************************************************)
(* The inductive invariant: the types and TransceiverFollowsPoc together.  *)
(***************************************************************************)

IInv == TypeOK /\ AllFollow(st)

\* TransceiverFollowsPoc is AllFollow of the node states.
LEMMA FollowsIsTransceiverFollowsPoc == TransceiverFollowsPoc <=> AllFollow(st)
  BY DEF TransceiverFollowsPoc, AllFollow, Follows, Powered

LEMMA InitIInv == Init => IInv
<1> SUFFICES ASSUME Init PROVE IInv
  OBVIOUS
<1>1. ZeroState \in NodeStates
  BY DEF ZeroState, NodeStates, PocState, TcvrState
<1>2. AllFollow(ZeroState)
  BY DEF AllFollow, Follows, ZeroState
<1>3. shown \in [Node -> PocState]
  BY <1>1 DEF Init, NodeStates
<1>4. configs \in [Node -> Nat] /\ \A n \in Node : configs[n] <= MaxConfigs[n]
  BY DEF Init
<1> QED
  BY <1>1, <1>2, <1>3, <1>4 DEF Init, IInv, TypeOK

LEMMA NextIInv == IInv /\ [Next]_vars => IInv'
<1> SUFFICES ASSUME IInv, [Next]_vars PROVE IInv'
  OBVIOUS
<1> USE DEF IInv, TypeOK
<1>1. ASSUME NEW n \in Node, Config(n) PROVE IInv'
  <2>1. PICK initial \in InitialPoc, k \in VcnCounts :
          st' = Configure(st, n, initial, VcnsOf(n, k))
    BY <1>1 DEF Config
  <2>2. st' \in NodeStates /\ AllFollow(st')
    BY <2>1, ConfigureStep, VcnsAreVcns
  <2>3. configs' \in [Node -> Nat] /\ \A m \in Node : configs'[m] <= MaxConfigs[m]
    BY <1>1 DEF Config
  <2> QED
    BY <1>1, <2>2, <2>3 DEF Config
<1>2. ASSUME NEW n \in Node, NEW c \in PocCommand, Status(n, c) PROVE IInv'
  <2>1. st' \in NodeStates /\ AllFollow(st')
    BY <1>2, PushNodeStateStep DEF Status
  <2> QED
    BY <1>2, <2>1 DEF Status
<1>3. ASSUME NEW n \in Node, NEW on \in BOOLEAN, Power(n, on) PROVE IInv'
  <2>1. st' \in NodeStates /\ AllFollow(st')
    BY <1>3, SetNodePowerStep DEF Power
  <2> QED
    BY <1>3, <2>1 DEF Power
<1>4. ASSUME NEW from \in Starts, Progress(from) PROVE IInv'
  <2>1. st' \in NodeStates /\ AllFollow(st')
    BY <1>4, CalculateBusConditionStep DEF Progress
  <2>2. shown' \in [Node -> PocState]
    BY <1>4, <2>1 DEF Progress, NodeStates
  <2> QED
    BY <1>4, <2>1, <2>2 DEF Progress
<1>5. CASE UNCHANGED vars
  BY <1>5 DEF vars, AllFollow, Follows
<1> QED
  BY <1>1, <1>2, <1>3, <1>4, <1>5 DEF Next

THEOREM Invariance == Spec => []IInv
  BY InitIInv, NextIInv, PTL DEF Spec

\* Every state of the node-state machine has its types.
THEOREM TypeCorrect == Spec => []TypeOK
<1>1. IInv => TypeOK
  BY DEF IInv
<1> QED
  BY <1>1, Invariance, PTL

\* POC state and transceiver state never come apart.
THEOREM PocAndTransceiver == Spec => []TransceiverFollowsPoc
<1>1. IInv => TransceiverFollowsPoc
  BY FollowsIsTransceiverFollowsPoc DEF IInv
<1> QED
  BY <1>1, Invariance, PTL

-----------------------------------------------------------------------------
(***************************************************************************)
(* The power of a node.                                                    *)
(***************************************************************************)

\* The transceiver is switched off and on by the power alone: whatever
\* __set_transceiver_state() is called for, a node without power stays so.
LEMMA UnpoweredStaysUnpowered ==
  ASSUME NEW s \in NodeStates, NEW nodes, NEW n \in Node, s.tcvr[n] = "NoPower"
  PROVE  SetTransceiver(s, nodes).tcvr[n] = "NoPower"
  BY DEF SetTransceiver, NodeStates

\* Commands that reach a node while it has no power have no effect on the bus.
THEOREM PowerRestarts == Spec => PowerOnRestarts
<1> DEFINE Restarts(n) ==
             st.tcvr[n] = "NoPower" /\ st'.tcvr[n] # "NoPower" =>
               \/ st'.poc[n] = "DefaultConfig" /\ st'.tcvr[n] = "NoConnection"
               \/ configs'[n] # configs[n]
<1>1. IInv /\ [Next]_vars => [\A n \in Node : Restarts(n)]_vars
  <2> SUFFICES ASSUME IInv, Next, NEW n \in Node, st.tcvr[n] = "NoPower",
                      st'.tcvr[n] # "NoPower"
               PROVE  \/ st'.poc[n] = "DefaultConfig" /\ st'.tcvr[n] = "NoConnection"
                      \/ configs'[n] # configs[n]
    OBVIOUS
  <2> USE DEF IInv, TypeOK
  <2>1. ASSUME NEW m \in Node, Config(m) PROVE configs'[n] # configs[n]
    <3>1. PICK initial \in InitialPoc, k \in VcnCounts :
            st' = Configure(st, m, initial, VcnsOf(m, k))
      BY <2>1 DEF Config
    <3> DEFINE r == RegisterNode(RegisterVcn(st, VcnsOf(m, k)), m, "on")
               q == [r EXCEPT !.poc[m] = initial]
    <3>2. CASE n = m
      BY <2>1, <3>2 DEF Config
    <3>3. CASE n # m
      <4>1. q.tcvr[n] = "NoPower"
        BY <3>3 DEF RegisterNode, RegisterVcn, NodeStates
      <4>2. m \in r.known
        BY DEF RegisterNode, RegisterVcn, NodeStates
      <4>3. st'.tcvr = SetTransceiver(q, {m}).tcvr
        BY <3>1, <4>2 DEF Configure, SetPocState
      <4>4. r \in NodeStates
        BY VcnsAreVcns DEF RegisterNode, RegisterVcn, NodeStates, TcvrState
      <4>5. q \in NodeStates
        BY <4>4 DEF NodeStates
      <4>6. SetTransceiver(q, {m}).tcvr[n] = "NoPower"
        <5> HIDE DEF q
        <5> QED
          BY <4>1, <4>5, UnpoweredStaysUnpowered
      <4> QED
        BY <4>3, <4>6
    <3> QED
      BY <3>2, <3>3
  <2>2. ASSUME NEW m \in Node, NEW c \in PocCommand, Status(m, c) PROVE FALSE
    <3> DEFINE q == [st EXCEPT !.poc[m] = PocNext(@, c)]
    <3>1. q \in NodeStates /\ q.tcvr[n] = "NoPower"
      BY PocNextState DEF NodeStates
    <3>2. st' = st \/ st' = SetTransceiver(q, {m})
      BY <2>2 DEF Status, PushNodeState
    <3> HIDE DEF q
    <3>3. SetTransceiver(q, {m}).tcvr[n] = "NoPower"
      BY <3>1, UnpoweredStaysUnpowered
    <3> QED
      BY <3>2, <3>3
  <2>3. ASSUME NEW m \in Node, NEW on \in BOOLEAN, Power(m, on)
        PROVE  st'.poc[n] = "DefaultConfig" /\ st'.tcvr[n] = "NoConnection"
    BY <2>3 DEF Power, SetNodePower, NodeStates
  <2>4. ASSUME NEW from \in Starts, Progress(from) PROVE FALSE
    <3> DEFINE lone == {m \in NodesFrom(st, from.demote) : st.poc[m] = "NormalActive"}
               q    == [st EXCEPT !.bus = "FrameError",
                                  !.poc = [m \in Node |-> IF m \in lone THEN "NormalPassive"
                                                          ELSE @[m]]]
    <3>1. q \in NodeStates
      BY DEF NodeStates, PocState, TcvrState
    <3>2. q.tcvr[n] = "NoPower"
      BY DEF NodeStates
    <3>3. st'.tcvr = st.tcvr \/ st' = SetTransceiver(q, lone)
      BY <2>4 DEF Progress, CalculateBusCondition, NodeStates
    <3> HIDE DEF q, lone
    <3>4. SetTransceiver(q, lone).tcvr[n] = "NoPower"
      BY <3>1, <3>2, UnpoweredStaysUnpowered
    <3> QED
      BY <3>3, <3>4
  <2> QED
    BY <2>1, <2>2, <2>3, <2>4 DEF Next
<1> QED
  BY <1>1, Invariance, PTL DEF Spec, PowerOnRestarts

-----------------------------------------------------------------------------
(***************************************************************************)
(* The bus condition, when the loops that make it start at index 0.        *)
(***************************************************************************)

\* The nodes whose transceiver is in frame sync, which the code counts; by
\* AllFollow these are the powered nodes that are active.
InFrameSync(s) == {n \in s.known : s.tcvr[n] = "FrameSync"}

IsActive(s, n) == n \in s.known /\ s.tcvr[n] # "NoPower" /\ s.poc[n] = "NormalActive"

SourcesOf(s) == s.vcs \union {<<n, 0>> : n \in {m \in Node : IsActive(s, m)}}

LEMMA ActiveIsInFrameSync ==
  ASSUME NEW s \in NodeStates, AllFollow(s)
  PROVE  {n \in Node : IsActive(s, n)} = InFrameSync(s)
<1>1. ASSUME NEW n \in Node
      PROVE  IsActive(s, n) <=> n \in InFrameSync(s)
  <2>1. Follows(s, n) /\ s.poc[n] \in PocState
    BY DEF AllFollow, NodeStates
  <2> QED
    BY <2>1, TcvrOfState DEF Follows, IsActive, InFrameSync
<1>2. InFrameSync(s) \subseteq Node
  BY DEF InFrameSync, NodeStates
<1> QED
  BY <1>1, <1>2

\* From index 0 on the loops visit all nodes.
LEMMA NodesFromZero ==
  ASSUME NEW s \in NodeStates
  PROVE  NodesFrom(s, 0) = s.known
<1> SUFFICES ASSUME NEW n \in s.known
             PROVE  Cardinality({m \in s.known : m < n}) >= 0
  BY DEF NodesFrom
<1>1. s.known \in SUBSET Node /\ {m \in s.known : m < n} \in SUBSET Node
  BY DEF NodeStates
<1>2. IsFiniteSet({m \in s.known : m < n})
  BY <1>1, FS_Subset
<1> QED
  BY <1>2, FS_CardinalityType

\* What the code counts is the number of sources.
LEMMA SourcesCount ==
  ASSUME NEW s \in NodeStates, AllFollow(s), NEW from \in Starts, StartIndex = {0}
  PROVE  /\ IsFiniteSet(SourcesOf(s)) /\ IsFiniteSet(s.vcs)
         /\ SyncCount(s, from) = Cardinality(SourcesOf(s))
<1> DEFINE A    == InFrameSync(s)
           R    == {<<n, 0>> : n \in A}
           Pair == [n \in A |-> <<n, 0>>]
<1>1. A \in SUBSET Node /\ s.vcs \in SUBSET Vcn
  BY DEF InFrameSync, NodeStates
<1>2. IsFiniteSet(A)
  BY <1>1, FS_Subset
<1>3. IsFiniteSet(s.vcs)
  <2>1. IsFiniteSet(1 .. 2)
    <3>1. 1 \in Int /\ 2 \in Int
      OBVIOUS
    <3> QED
      BY <3>1, FS_Interval, Zenon
  <2>2. IsFiniteSet(Vcn)
    BY <2>1, FS_Product DEF Vcn
  <2> QED
    BY <1>1, <2>2, FS_Subset
<1>4. IsFiniteSet(R) /\ Cardinality(R) = Cardinality(A)
  <2>1. Pair \in Bijection(A, R)
    BY DEF Bijection, Injection, Surjection, IsInjective
  <2>2. ExistsBijection(A, R)
    BY <2>1 DEF ExistsBijection
  <2> HIDE DEF A, R
  <2> QED
    BY <1>2, <2>2, FS_Bijection
<1>5. s.vcs \intersect R = {}
  BY <1>1 DEF Vcn
<1>6. SourcesOf(s) = s.vcs \union R
  BY ActiveIsInFrameSync DEF SourcesOf
<1>7. /\ IsFiniteSet(s.vcs \union R)
      /\ Cardinality(s.vcs \union R) = Cardinality(s.vcs) + Cardinality(A)
  <2>1. Cardinality(s.vcs) \in Nat /\ Cardinality(A) \in Nat
    BY <1>2, <1>3, FS_CardinalityType
  <2> HIDE DEF A, R
  <2> QED
    BY <1>3, <1>4, <1>5, <2>1, FS_Union, FS_EmptySet
<1>8. SyncCount(s, from) = Cardinality(s.vcs) + Cardinality(A)
  <2>1. from.vcs = 0 /\ from.count = 0
    BY DEF Starts
  <2>2. Cardinality(s.vcs) \in Nat
    BY <1>3, FS_CardinalityType
  <2>3. {n \in NodesFrom(s, from.count) : s.tcvr[n] = "FrameSync"} = A
    BY <2>1, NodesFromZero DEF InFrameSync
  <2>4. (IF Cardinality(s.vcs) - from.vcs > 0 THEN Cardinality(s.vcs) - from.vcs ELSE 0)
          = Cardinality(s.vcs)
    BY <2>1, <2>2
  <2> HIDE DEF A
  <2> QED
    BY <2>3, <2>4 DEF SyncCount
<1> QED
  BY <1>3, <1>6, <1>7, <1>8

\* Two sources, the bus is in sync; without sync no powered node is active.
SyncIsTwo(s) ==
  /\ (s.bus = "FrameSync") <=> (Cardinality(SourcesOf(s)) >= 2)
  /\ s.bus # "FrameSync" => \A n \in Node : ~IsActive(s, n)

LEMMA SyncIsTwoStep ==
  ASSUME NEW s \in NodeStates, AllFollow(s), NEW from \in Starts, StartIndex = {0}
  PROVE  SyncIsTwo(CalculateBusCondition(s, from))
<1> DEFINE count == SyncCount(s, from)
           t     == CalculateBusCondition(s, from)
<1> SUFFICES SyncIsTwo(t)
  OBVIOUS
<1>1. count = Cardinality(SourcesOf(s)) /\ count \in Nat
  BY SourcesCount, FS_CardinalityType
<1>2. CASE count # 1
  <2>1. t = [s EXCEPT !.bus = IF count = 0 THEN "NoSignal" ELSE "FrameSync"]
    BY <1>2 DEF CalculateBusCondition
  <2>2. \A n \in Node : IsActive(t, n) <=> IsActive(s, n)
    BY <2>1 DEF IsActive, NodeStates
  <2>3. SourcesOf(t) = SourcesOf(s)
    <3>1. t.vcs = s.vcs
      BY <2>1 DEF NodeStates
    <3> QED
      BY <2>2, <3>1 DEF SourcesOf
  <2>4. t.bus = IF count = 0 THEN "NoSignal" ELSE "FrameSync"
    BY <2>1 DEF NodeStates
  <2>5. count = 0 => \A n \in Node : ~IsActive(s, n)
    <3> SUFFICES ASSUME count = 0, NEW n \in Node PROVE ~IsActive(s, n)
      OBVIOUS
    <3>1. SourcesOf(s) = {}
      BY <1>1, SourcesCount, FS_EmptySet
    <3> QED
      BY <3>1 DEF SourcesOf
  <2> HIDE DEF t, count
  <2> QED
    BY <1>1, <1>2, <2>2, <2>3, <2>4, <2>5 DEF SyncIsTwo
<1>3. CASE count = 1
  <2> DEFINE lone == {n \in NodesFrom(s, from.demote) : s.poc[n] = "NormalActive"}
  <2>1. lone = {n \in s.known : s.poc[n] = "NormalActive"}
    BY NodesFromZero DEF Starts
  <2>2. /\ t.bus = "FrameError" /\ t.vcs = s.vcs /\ t.known = s.known
        /\ t.poc = [n \in Node |-> IF n \in lone THEN "NormalPassive" ELSE s.poc[n]]
    BY <1>3 DEF CalculateBusCondition, SetTransceiver, NodeStates
  <2>3. \A n \in Node : ~IsActive(t, n)
    <3> HIDE DEF t
    <3> QED
      BY <2>1, <2>2 DEF IsActive
  <2>4. SourcesOf(t) = s.vcs
    BY <2>2, <2>3 DEF SourcesOf
  <2>5. Cardinality(s.vcs) \in Nat /\ Cardinality(s.vcs) <= 1
    <3>1. IsFiniteSet(SourcesOf(s)) /\ IsFiniteSet(s.vcs)
      BY SourcesCount
    <3>2. s.vcs \in SUBSET SourcesOf(s)
      BY DEF SourcesOf
    <3>3. Cardinality(s.vcs) <= Cardinality(SourcesOf(s))
      BY <3>1, <3>2, FS_Subset
    <3> HIDE DEF count
    <3> QED
      BY <1>1, <1>3, <3>1, <3>3, FS_CardinalityType
  <2> HIDE DEF t
  <2> QED
    BY <2>2, <2>3, <2>4, <2>5 DEF SyncIsTwo
<1> QED
  BY <1>2, <1>3

\* The bus is in sync exactly when two nodes keep it in sync, provided that the
\* loops that count them start at index 0.
THEOREM BusCondition == ASSUME StartIndex = {0} PROVE Spec => []SyncNeedsTwo
<1> DEFINE Inv == settled => SyncIsTwo(st)
<1>1. Init => Inv
  BY DEF Init
<1>2. IInv /\ Inv /\ [Next]_vars => Inv'
  <2> SUFFICES ASSUME IInv, Inv, [Next]_vars, settled' PROVE SyncIsTwo(st')
    BY DEF SyncIsTwo, SourcesOf, IsActive
  <2>1. CASE UNCHANGED vars
    BY <2>1 DEF vars
  <2>2. ASSUME NEW from \in Starts, Progress(from) PROVE SyncIsTwo(st')
    BY <2>2, SyncIsTwoStep DEF Progress, IInv, TypeOK
  <2> QED
    BY <2>1, <2>2 DEF Next, Config, Status, Power
<1>3. IInv /\ Inv => SyncNeedsTwo
  BY DEF IInv, TypeOK, SyncNeedsTwo, SyncIsTwo, SourcesOf, Sources, IsActive, Powered
<1> QED
  BY <1>1, <1>2, <1>3, Invariance, PTL DEF Spec
=============================================================================
