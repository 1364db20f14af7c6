--------------------------- MODULE FlexrayPopProofs ---------------------------
(***************************************************************************)
(* Proofs about FlexrayPopNetwork, for every cluster, every step length    *)
(* and whatever PDUs the applications of nodes and PoP write.              *)
(***************************************************************************)
EXTENDS FlexrayPopNetwork, FiniteSetTheorems, TLAPS

\* What a replica has read is a fold over the PDUs.
Reading == INSTANCE SequenceInduction WITH Op <- Consume

LEMMA ReadingFlattenSeq ==
  ASSUME NEW ss
  PROVE  Reading!FlattenSeq(ss) = FlattenSeq(ss)
BY DEF Reading!FlattenSeq, FlattenSeq

LEMMA ReadingIsFold ==
  ASSUME NEW r, NEW pdus
  PROVE  Reading!Fold(r, pdus) = FoldLeft(Consume, r, pdus)
BY DEF Reading!Fold, Reading!FoldLeft, FoldLeft, Reading!MapThenFoldSet,
       MapThenFoldSet, Reading!Max, Max

-----------------------------------------------------------------------------
(***************************************************************************)
(* Types.                                                                  *)
(***************************************************************************)

Types == {"Config", "Status", "Lpdu"}

\* PDUs of members, and those that the members exchange.
Addressed ==
  [type : Types, node : Member, pop : Member,
   body : Body("Config") \union Body("Status") \union Body("Lpdu")]

Packet ==
  {p \in Addressed :
     /\ p.body \in Body(p.type)
     /\ p.type = "Config" => p.pop = Pop /\ (p.node = Pop => p.body.ut >= p.body.mt)}

FromNode == {p \in Packet : p.node # Pop}

Config == [ut : Nat, mt : Nat, len : Nat, count : Nat, budget : Nat]

Position == [running : BOOLEAN, cycle : Nat, mt : Nat]

Routes == UNION {[S -> Seq(Packet)] : S \in SUBSET Member}

\* A replica of a member, the route to the PoP with PDUs of nodes only.
Replica(m) ==
  {r \in [self : {m}, router : Routes, config : Config, pos : Position] :
     /\ m \in DOMAIN r.router
     /\ Pop \in DOMAIN r.router => r.router[Pop] \in Seq(FromNode)}

LEMMA MembersAre ==
  /\ Members \in Seq(Nat \X {0}) /\ Pop \in Member
  /\ Member = {Members[i] : i \in 1 .. Len(Members)}
  /\ \A i, j \in 1 .. Len(Members) : Members[i] = Members[j] => i = j
  /\ \A m \in Member : m \in Nat \X {0} /\ (m[1] = 0 => m = Pop)
<1>1. Members \in Seq(Nat \X {0}) /\ Pop \in Member
  BY PopNetworkAssumption DEF Member
<1>2. DOMAIN Members = 1 .. Len(Members)
  BY <1>1
<1>3. Member = {Members[i] : i \in 1 .. Len(Members)}
  BY <1>2 DEF Member, ToSet
<1>4. \A i, j \in 1 .. Len(Members) : Members[i] = Members[j] => i = j
  BY <1>2, PopNetworkAssumption DEF IsInjective
<1>5. \A m \in Member : m \in Nat \X {0} /\ (m[1] = 0 => m = Pop)
  <2>1. \A i \in 1 .. Len(Members) : Members[i] \in Nat \X {0}
    BY <1>1
  <2> QED
    BY <1>3, <2>1 DEF Pop
<1> QED
  BY <1>1, <1>3, <1>4, <1>5

LEMMA ProductIsNat ==
  ASSUME NEW a \in Nat, NEW b \in Nat
  PROVE  a * b \in Nat
OBVIOUS

LEMMA QuotientIsNat ==
  ASSUME NEW a \in Nat, NEW m \in Nat \ {0}
  PROVE  a \div m \in Nat
OBVIOUS

\* A Config of the PoP: the budget of a step is a number, since a microtick is
\* not longer than a macrotick.
LEMMA BudgetIsNat ==
  ASSUME NEW ut \in Nat \ {0}, NEW mt \in Nat \ {0}, ut >= mt
  PROVE  StepUt \div (ut \div mt) \in Nat
<1>1. ut \div mt \in Nat \ {0}
  OBVIOUS
<1> QED
  BY <1>1, PopAssumption, QuotientIsNat

LEMMA ConfiguredType ==
  ASSUME NEW m \in Member, NEW r \in Replica(m), NEW c \in Body("Config"), c.ut >= c.mt
  PROVE  Configured(r, c) \in Replica(m)
<1>1. c \in [rate : BOOLEAN, ut : Nat, mt : Nat, len : Nat, count : Nat]
  BY DEF Body
<1>2. r.config \in Config
  BY DEF Replica
<1> DEFINE budget == IF c.rate /\ Complete(c) THEN StepUt \div (c.ut \div c.mt)
                     ELSE r.config.budget
<1>3. budget \in Nat
  <2>1. CASE c.rate /\ Complete(c)
    BY <1>1, <2>1, BudgetIsNat DEF Complete
  <2>2. CASE ~(c.rate /\ Complete(c))
    BY <1>2, <2>2 DEF Config
  <2> QED
    BY <2>1, <2>2
<1>4. Configured(r, c) = [r EXCEPT !.config =
        [ut |-> c.ut, mt |-> c.mt, len |-> c.len, count |-> c.count, budget |-> budget]]
  BY DEF Configured, Replica
<1> HIDE DEF budget
<1>5. [ut |-> c.ut, mt |-> c.mt, len |-> c.len, count |-> c.count, budget |-> budget]
        \in Config
  BY <1>1, <1>3 DEF Config
<1> QED
  BY <1>4, <1>5 DEF Replica

LEMMA EdgeIsNat ==
  ASSUME NEW c \in Config, NEW slot \in Nat
  PROVE  Edge(c, slot) \in Nat
<1>1. Least(slot, c.count) + 1 \in Nat /\ c.len \in Nat
  BY DEF Config, Least
<1> QED
  BY <1>1, ProductIsNat DEF Edge

\* A replica at another position.
LEMMA PositionType ==
  ASSUME NEW m \in Member, NEW r \in Replica(m), NEW p \in Position
  PROVE  [r EXCEPT !.pos = p] \in Replica(m)
BY DEF Replica

LEMMA ObservedType ==
  ASSUME NEW m \in Member, NEW r \in Replica(m), NEW s \in Body("Status")
  PROVE  Observed(r, s) \in Replica(m)
<1>1. s.cycle \in Nat /\ s.mt \in Nat
  BY DEF Body
<1>2. r.pos \in Position /\ r.config \in Config
  BY DEF Replica
<1>3. Synced(r, s) \in Position
  BY <1>1, <1>2 DEF Synced, Position, Config, Least
<1>4. [running |-> FALSE, cycle |-> 0, mt |-> 0] \in Position
  BY DEF Position
<1> QED
  BY <1>3, <1>4, PositionType DEF Observed

LEMMA AdjustedType ==
  ASSUME NEW m \in Member, NEW r \in Replica(m), NEW p \in Packet, p.type = "Lpdu"
  PROVE  Adjusted(r, p) \in Replica(m)
<1>1. p.body.slot \in Nat
  BY DEF Packet, Addressed, Body
<1> DEFINE edge == Edge(r.config, p.body.slot)
<1>2. edge \in Nat /\ r.pos \in Position
  BY <1>1, EdgeIsNat DEF Replica
<1>3. [r.pos EXCEPT !.mt = edge] \in Position
  BY <1>2 DEF Position
<1>4. [r EXCEPT !.pos.mt = edge] = [r EXCEPT !.pos = [r.pos EXCEPT !.mt = edge]]
  BY DEF Replica
<1>5. Adjusted(r, p) = r \/ Adjusted(r, p) = [r EXCEPT !.pos.mt = edge]
  BY DEF Adjusted
<1> QED
  BY <1>3, <1>4, <1>5, PositionType

LEMMA RoutedType ==
  ASSUME NEW m \in Member, NEW r \in Replica(m), NEW to \in Member, NEW p \in Packet,
         to = Pop => p.node # Pop
  PROVE  Routed(r, to, p) \in Replica(m)
<1> DEFINE queue(i) == IF i \in DOMAIN r.router THEN r.router[i] ELSE <<>>
           D        == DOMAIN r.router \union {p.node, to}
           router   == [i \in D |-> IF i = to THEN Append(queue(i), p) ELSE queue(i)]
<1>1. PICK S \in SUBSET Member : r.router \in [S -> Seq(Packet)]
  BY DEF Replica, Routes
<1>2. D \in SUBSET Member
  BY <1>1 DEF Packet, Addressed
<1>3. \A i \in D : queue(i) \in Seq(Packet)
  BY <1>1
<1>4. router \in [D -> Seq(Packet)]
  BY <1>3
<1>5. Pop \in D => router[Pop] \in Seq(FromNode)
  <2>1. SUFFICES ASSUME Pop \in D PROVE router[Pop] \in Seq(FromNode)
    OBVIOUS
  <2>2. queue(Pop) \in Seq(FromNode)
    BY DEF Replica
  <2>3. to = Pop => p \in FromNode
    BY DEF FromNode
  <2>4. CASE to = Pop
    <3>1. router[Pop] = Append(queue(Pop), p)
      BY <2>1, <2>4
    <3> HIDE DEF queue, router
    <3> QED
      BY <2>2, <2>3, <2>4, <3>1
  <2>5. CASE to # Pop
    BY <2>1, <2>2, <2>5
  <2> QED
    BY <2>4, <2>5
<1>6. m \in D
  BY DEF Replica
<1>7. router \in Routes
  BY <1>2, <1>4 DEF Routes
<1>8. Routed(r, to, p) = [r EXCEPT !.router = router]
  BY DEF Routed
<1>9. DOMAIN router = D
  OBVIOUS
<1> HIDE DEF router, D
<1> QED
  BY <1>5, <1>6, <1>7, <1>8, <1>9 DEF Replica

LEMMA ConsumeType ==
  ASSUME NEW m \in Member, NEW r \in Replica(m), NEW p \in Packet
  PROVE  Consume(r, p) \in Replica(m)
<1>1. p.node \in Member /\ p.pop \in Member /\ Pop \in Member
  BY MembersAre DEF Packet, Addressed
<1>2. p.type \in Types
  BY DEF Packet, Addressed
<1>3. CASE p.type = "Config"
  <2>1. CASE p.node # Pop
    BY <1>1, <1>3, <2>1, RoutedType DEF Consume, ConsumeConfig
  <2>2. CASE p.node = Pop
    <3>1. p.body \in Body("Config") /\ p.body.ut >= p.body.mt
      BY <1>3, <2>2 DEF Packet
    <3> QED
      BY <1>3, <2>2, <3>1, ConfiguredType DEF Consume, ConsumeConfig
  <2> QED
    BY <2>1, <2>2
<1>4. CASE p.type = "Status"
  <2>1. p.body \in Body("Status")
    BY <1>4 DEF Packet
  <2> QED
    BY <1>1, <1>4, <2>1, RoutedType, ObservedType DEF Consume, ConsumeStatus
<1>5. CASE p.type = "Lpdu"
  <2> DEFINE q == IF p.node # Pop THEN Routed(r, Pop, p)
                  ELSE IF p.pop # Pop THEN Routed(r, p.pop, p) ELSE r
  <2>1. q \in Replica(m)
    BY <1>1, RoutedType
  <2>2. Consume(r, p) = Adjusted(q, p)
    BY <1>5 DEF Consume, ConsumeLpdu
  <2> HIDE DEF q
  <2> QED
    BY <1>5, <2>1, <2>2, AdjustedType
<1> QED
  BY <1>2, <1>3, <1>4, <1>5 DEF Types

\* A replica that has read PDUs is one still.
LEMMA ReadType ==
  ASSUME NEW m \in Member, NEW r \in Replica(m), NEW pdus \in Seq(Packet)
  PROVE  FoldLeft(Consume, r, pdus) \in Replica(m)
<1>1. \A q \in Replica(m), p \in Packet : Consume(q, p) \in Replica(m)
  BY ConsumeType
<1>2. Reading!Fold(r, pdus) \in Replica(m)
  BY <1>1, Reading!FoldStaysIn
<1> QED
  BY <1>2, ReadingIsFold

-----------------------------------------------------------------------------
(***************************************************************************)
(* What a member emits.                                                    *)
(***************************************************************************)

LEMMA NoConnectionType ==
  ASSUME NEW m \in Member
  PROVE  NoConnection(m) \in Packet /\ IsStatus(NoConnection(m))
<1>1. Pop \in Member
  BY MembersAre
<1>2. [cycle |-> 0, mt |-> 0, tcvr |-> "NoConnection"] \in Body("Status")
  BY DEF Body
<1> QED
  BY <1>1, <1>2 DEF NoConnection, Pdu, Packet, Addressed, Types, IsStatus

\* The order of a sort has the same PDUs, a Status first if there is one.
LEMMA SortsStatusFirst ==
  ASSUME NEW n \in Nat, NEW pdus \in [1 .. n -> Packet],
         \E i \in 1 .. n : IsStatus(pdus[i]), NEW s \in Sorts(pdus)
  PROVE  s \in [1 .. n -> Packet] /\ n # 0 /\ IsStatus(s[1])
<1>1. PICK f \in Bijection(1 .. n, 1 .. n) : s = [i \in 1 .. n |-> pdus[f[i]]]
  BY DEF Sorts
<1>2. f \in [1 .. n -> 1 .. n] /\ \A i \in 1 .. n : \E j \in 1 .. n : f[j] = i
  BY DEF Bijection, Injection, Surjection
<1>3. s \in [1 .. n -> Packet]
  BY <1>1, <1>2
<1>4. PICK j \in 1 .. n : IsStatus(s[j])
  BY <1>1, <1>2
<1>5. 1 \in 1 .. n /\ n # 0
  OBVIOUS
<1>6. IsStatus(s[1])
  <2>1. DOMAIN s = 1 .. n
    BY <1>3
  <2>2. IsStatus(s[j]) /\ ~IsStatus(s[1]) => j < 1
    BY <1>5, <2>1 DEF Sorts
  <2> QED
    BY <1>4, <2>2
<1> QED
  BY <1>3, <1>5, <1>6

LEMMA WithStatusFirst ==
  ASSUME NEW m \in Member, NEW pdus \in Seq(Packet), NEW s \in WithStatus(m, pdus)
  PROVE  \E n \in Nat \ {0} : s \in [1 .. n -> Packet] /\ IsStatus(s[1])
<1>1. PICK n \in Nat : n = Len(pdus)
  OBVIOUS
<1>2. pdus \in [1 .. n -> Packet] /\ DOMAIN pdus = 1 .. n
  BY <1>1
<1>3. CASE \E i \in DOMAIN pdus : IsStatus(pdus[i])
  <2>1. n # 0 /\ \E i \in 1 .. n : IsStatus(pdus[i])
    BY <1>2, <1>3
  <2>2. CASE IsStatus(pdus[1])
    BY <1>2, <1>3, <2>1, <2>2 DEF WithStatus
  <2>3. CASE ~IsStatus(pdus[1])
    <3>1. s \in Sorts(pdus)
      BY <1>3, <2>3 DEF WithStatus
    <3> QED
      BY <1>2, <2>1, <3>1, SortsStatusFirst
  <2> QED
    BY <2>2, <2>3
<1>4. CASE ~\E i \in DOMAIN pdus : IsStatus(pdus[i])
  <2>1. PICK more : more = Append(pdus, NoConnection(m))
    OBVIOUS
  <2>2. more \in [1 .. n + 1 -> Packet] /\ IsStatus(more[n + 1])
    <3>1. Len(more) = n + 1 /\ more \in Seq(Packet) /\ more[n + 1] = NoConnection(m)
      BY <1>1, <2>1, NoConnectionType
    <3> QED
      BY <3>1, NoConnectionType
  <2>3. s \in Sorts(more)
    BY <1>4, <2>1 DEF WithStatus
  <2>4. n + 1 \in Nat \ {0} /\ n + 1 \in 1 .. n + 1
    OBVIOUS
  <2> QED
    BY <2>2, <2>3, <2>4, SortsStatusFirst
<1> QED
  BY <1>3, <1>4

\* The node of a PDU that a member emits, and that of one that it was written for.
LEMMA WrittenType ==
  ASSUME NEW m \in Member, NEW p, p.node \in Member,
         p = [type |-> p.type, node |-> p.node, pop |-> p.pop, body |-> p.body]
  PROVE  /\ Written(m, p) = [p EXCEPT !.node = IF p.node = Pop THEN m ELSE p.node]
         /\ Written(m, p).type = p.type /\ Written(m, p).body = p.body
         /\ Written(m, p).pop = p.pop
         /\ Written(m, p).node = IF p.node = Pop THEN m ELSE p.node
<1>1. /\ p.node \in Nat \X {0} /\ (p.node[1] = 0 => p.node = Pop)
      /\ m \in Nat \X {0}
  BY MembersAre
<1>2. p.node = <<p.node[1], 0>> /\ m = <<m[1], 0>> /\ m[2] = 0
  BY <1>1
<1>3. <<IF p.node[1] # 0 THEN p.node[1] ELSE m[1], m[2]>>
        = IF p.node = Pop THEN m ELSE p.node
  <2>1. CASE p.node = Pop
    <3>1. p.node[1] = 0
      BY <2>1 DEF Pop
    <3> QED
      BY <1>2, <2>1, <3>1
  <2>2. CASE p.node # Pop
    BY <1>1, <1>2, <2>2
  <2> QED
    BY <2>1, <2>2
<1>4. Written(m, p) = [p EXCEPT !.node = IF p.node = Pop THEN m ELSE p.node]
  BY <1>3 DEF Written
<1> QED
  BY <1>4

LEMMA StampedFirst ==
  ASSUME NEW m \in Member, NEW r \in Replica(m), NEW n \in Nat \ {0},
         NEW s \in [1 .. n -> Packet], IsStatus(s[1])
  PROVE  /\ DOMAIN Stamped(r, s) = 1 .. n
         /\ \A i \in 1 .. n : i # 1 => Stamped(r, s)[i] = s[i]
         /\ Stamped(r, s)[1] =
              [s[1] EXCEPT !.body = [cycle |-> r.pos.cycle, mt |-> r.pos.mt,
                                     tcvr |-> s[1].body.tcvr]]
<1>1. 1 \in 1 .. n
  OBVIOUS
<1>2. s[1] \in Packet /\ s[1].type = "Status"
  BY <1>1 DEF IsStatus
<1>3. s[1].body \in [cycle : Nat, mt : Nat, tcvr : {"FrameSync", "NoSignal", "NoConnection"}]
  BY <1>2 DEF Packet, Addressed, Body
<1>4. [s[1].body EXCEPT !.cycle = r.pos.cycle, !.mt = r.pos.mt]
        = [cycle |-> r.pos.cycle, mt |-> r.pos.mt, tcvr |-> s[1].body.tcvr]
  <2>1. r.pos.cycle \in Nat /\ r.pos.mt \in Nat
    BY DEF Replica, Position
  <2>2. PICK b \in [cycle : Nat, mt : Nat, tcvr : {"FrameSync", "NoSignal", "NoConnection"}] :
          b = s[1].body
    BY <1>3
  <2>3. PICK c \in Nat, mt \in Nat : c = r.pos.cycle /\ mt = r.pos.mt
    BY <2>1
  <2>4. [b EXCEPT !.cycle = c, !.mt = mt] = [cycle |-> c, mt |-> mt, tcvr |-> b.tcvr]
    <3> DEFINE q == [b EXCEPT !.cycle = c, !.mt = mt]
    <3>1. q.cycle = c /\ q.mt = mt /\ q.tcvr = b.tcvr
      OBVIOUS
    <3>2. q \in [cycle : Nat, mt : Nat, tcvr : {"FrameSync", "NoSignal", "NoConnection"}]
      OBVIOUS
    <3> HIDE DEF q
    <3> QED
      BY <3>1, <3>2
  <2> QED
    BY <2>2, <2>3, <2>4
<1>5. Stamped(r, s) =
        [s EXCEPT ![1] = [s[1] EXCEPT !.body =
           [s[1].body EXCEPT !.cycle = r.pos.cycle, !.mt = r.pos.mt]]]
  BY <1>1 DEF Stamped
<1> QED
  BY <1>1, <1>4, <1>5

\* What a PDU becomes when it is emitted.
LEMMA EmittedType ==
  ASSUME NEW m \in Member, NEW p \in Addressed
  PROVE  /\ Written(m, p) \in Addressed
         /\ Written(m, p).type = p.type /\ Written(m, p).body = p.body
         /\ p.node # Pop => Written(m, p).node # Pop
<1>1. p = [type |-> p.type, node |-> p.node, pop |-> p.pop, body |-> p.body]
      /\ p.node \in Member
  BY DEF Addressed
<1> QED
  BY <1>1, WrittenType DEF Addressed

\* A member emits PDUs of members; a node a Status with the position first, and
\* the PoP PDUs of nodes only.
LEMMA EmissionsType ==
  ASSUME NEW m \in Member, NEW r \in Replica(m), NEW pdus \in Emissions(r)
  PROVE  /\ pdus \in Seq(Addressed)
         /\ m = Pop => \A i \in DOMAIN pdus : pdus[i].node # Pop
         /\ m # Pop => /\ pdus # <<>> /\ IsStatus(pdus[1])
                       /\ pdus[1].body.cycle = r.pos.cycle
                       /\ pdus[1].body.mt = r.pos.mt
<1>1. r.self = m /\ r.router[m] \in Seq(Packet)
  BY DEF Replica, Routes
<1>2. CASE m = Pop
  <2>1. r.router[m] \in Seq(FromNode)
    BY <1>2 DEF Replica
  <2>2. PICK n \in Nat : n = Len(r.router[m])
    BY <1>1
  <2>3. PICK own \in [1 .. n -> FromNode] : own = r.router[m]
    BY <2>1, <2>2
  <2>4. pdus = [i \in 1 .. n |-> Written(m, own[i])]
    BY <1>1, <1>2, <2>3 DEF Emissions
  <2>5. \A i \in 1 .. n : own[i] \in Addressed /\ own[i].node # Pop
    BY DEF FromNode, Packet
  <2>6. \A i \in 1 .. n : pdus[i] \in Addressed /\ pdus[i].node # Pop
    BY <2>4, <2>5, EmittedType
  <2> QED
    BY <1>2, <2>4, <2>6
<1>3. CASE m # Pop
  <2>1. PICK s \in WithStatus(m, r.router[m]) :
          pdus = [i \in DOMAIN Stamped(r, s) |-> Written(m, Stamped(r, s)[i])]
    BY <1>1, <1>3 DEF Emissions
  <2>2. PICK n \in Nat \ {0} : s \in [1 .. n -> Packet] /\ IsStatus(s[1])
    BY <1>1, <2>1, WithStatusFirst
  <2>3. PICK q : q = Stamped(r, s)
    OBVIOUS
  <2>4. /\ DOMAIN q = 1 .. n
        /\ \A i \in 1 .. n : i # 1 => q[i] = s[i]
        /\ q[1] = [s[1] EXCEPT !.body = [cycle |-> r.pos.cycle, mt |-> r.pos.mt,
                                         tcvr |-> s[1].body.tcvr]]
    BY <2>2, <2>3, StampedFirst
  <2>5. pdus = [i \in 1 .. n |-> Written(m, q[i])]
    BY <2>1, <2>3, <2>4
  <2>6. 1 \in 1 .. n
    BY <2>2
  <2>7. /\ q[1] \in Addressed /\ IsStatus(q[1])
        /\ q[1].body.cycle = r.pos.cycle /\ q[1].body.mt = r.pos.mt
    <3>1. s[1] \in Packet /\ s[1].type = "Status" /\ s[1] \in Addressed
      BY <2>2, <2>6 DEF IsStatus, Packet
    <3>2. s[1].body \in Body("Status")
      BY <3>1 DEF Packet
    <3>3. r.pos.cycle \in Nat /\ r.pos.mt \in Nat
      BY DEF Replica, Position
    <3>4. [cycle |-> r.pos.cycle, mt |-> r.pos.mt, tcvr |-> s[1].body.tcvr]
            \in Body("Status")
      BY <3>2, <3>3 DEF Body
    <3> QED
      BY <2>4, <3>1, <3>4 DEF Addressed, IsStatus
  <2>8. \A i \in 1 .. n : q[i] \in Addressed
    BY <2>2, <2>4, <2>7 DEF Packet
  <2>9. \A i \in 1 .. n : pdus[i] \in Addressed
    BY <2>5, <2>8, EmittedType
  <2>10. pdus \in Seq(Addressed) /\ pdus # <<>>
    BY <2>2, <2>5, <2>9
  <2>11. pdus[1] = Written(m, q[1])
    BY <2>5, <2>6
  <2>12. IsStatus(pdus[1]) /\ pdus[1].body = q[1].body
    BY <2>7, <2>11, EmittedType DEF IsStatus
  <2> QED
    BY <1>3, <2>7, <2>10, <2>12
<1> QED
  BY <1>2, <1>3

-----------------------------------------------------------------------------
(***************************************************************************)
(* The invariants.                                                         *)
(***************************************************************************)

Index == 1 .. Len(Members)

IInvTypes ==
  /\ turn \in [phase : {"read", "write"}, of : 1 .. Len(Members) + 1]
  /\ rep \in [Member -> UNION {Replica(m) : m \in Member}]
  /\ \A m \in Member : rep[m] \in Replica(m)
  /\ out \in [Member -> Seq(Addressed)]
  /\ inbox \in Seq(Packet)
  /\ wire \in [Member -> Seq(Packet)]
  /\ asked \subseteq Node /\ waiting \subseteq Node

\* Replicas that estimate the position of the bus alike.
Alike(r, q) == r.pos = q.pos /\ r.config = q.config

HasRead(i) == turn.phase = "read" /\ i < turn.of

\* Members that have read in this step agree, and so do those that have not; and
\* what the latter will have read makes them agree with the former.
IInvAgree ==
  \A i, j \in Index :
    /\ (HasRead(i) <=> HasRead(j)) => Alike(rep[Members[i]], rep[Members[j]])
    /\ turn.phase = "read" /\ HasRead(i) /\ ~HasRead(j) =>
         Alike(rep[Members[i]], FoldLeft(Consume, rep[Members[j]], inbox))

\* A node that has read was told the position that its replica has.
IInvTold ==
  \A i \in Index : HasRead(i) /\ Members[i] # Pop =>
    LET m == Members[i]
    IN  /\ out[m] # <<>> /\ IsStatus(out[m][1])
        /\ out[m][1].body.cycle = rep[m].pos.cycle
        /\ out[m][1].body.mt = rep[m].pos.mt

LEMMA ZeroReplicaType ==
  ASSUME NEW m \in Member
  PROVE  ZeroReplica(m) \in Replica(m)
<1>1. [i \in {m} |-> <<>>] \in [{m} -> Seq(Packet)]
  OBVIOUS
<1>2. [i \in {m} |-> <<>>] \in Routes
  BY <1>1 DEF Routes
<1>3. <<>> \in Seq(FromNode)
  OBVIOUS
<1> DEFINE router == [i \in {m} |-> <<>>]
<1>4. m \in DOMAIN router /\ \A i \in DOMAIN router : router[i] \in Seq(FromNode)
  BY <1>3
<1> HIDE DEF router
<1>5. router \in Routes
  BY <1>2 DEF router
<1>6. ZeroReplica(m) = [self |-> m, router |-> router,
                        config |-> [ut |-> 0, mt |-> 0, len |-> 0, count |-> 0, budget |-> 0],
                        pos |-> [running |-> FALSE, cycle |-> 0, mt |-> 0]]
  BY DEF ZeroReplica, router
<1> QED
  BY <1>4, <1>5, <1>6 DEF Replica, Config, Position

LEMMA ClearedType ==
  ASSUME NEW m \in Member, NEW r \in Replica(m)
  PROVE  Cleared(r) \in Replica(m) /\ Alike(Cleared(r), r)
<1>1. PICK S \in SUBSET Member : r.router \in [S -> Seq(Packet)]
  BY DEF Replica, Routes
<1>2. [i \in S |-> <<>>] \in [S -> Seq(Packet)]
  OBVIOUS
<1>3. [i \in S |-> <<>>] \in Routes
  BY <1>2 DEF Routes
<1>4. Cleared(r) = [r EXCEPT !.router = [i \in S |-> <<>>]]
  BY <1>1 DEF Cleared, Replica
<1>5. <<>> \in Seq(FromNode)
  OBVIOUS
<1> DEFINE router == [i \in S |-> <<>>]
<1>6. m \in DOMAIN router /\ \A i \in DOMAIN router : router[i] \in Seq(FromNode)
  BY <1>1, <1>5 DEF Replica
<1> HIDE DEF router
<1>7. router \in Routes /\ Cleared(r) = [r EXCEPT !.router = router]
  BY <1>3, <1>4 DEF router
<1> QED
  BY <1>6, <1>7 DEF Replica, Alike

LEMMA InitTypes == Init => IInvTypes
<1> SUFFICES ASSUME Init PROVE IInvTypes
  OBVIOUS
<1>1. Len(Members) \in Nat
  BY MembersAre
<1>2. turn \in [phase : {"read", "write"}, of : 1 .. Len(Members) + 1]
  BY <1>1 DEF Init
<1>3. \A m \in Member : rep[m] \in Replica(m)
  BY ZeroReplicaType DEF Init
<1>4. rep \in [Member -> UNION {Replica(m) : m \in Member}]
  BY <1>3 DEF Init
<1> QED
  BY <1>2, <1>3, <1>4 DEF Init, IInvTypes

LEMMA NextTurnType ==
  ASSUME IInvTypes, NEW m, NEW phase, Has(m, phase), NextTurn
  PROVE  turn' = [phase |-> phase, of |-> turn.of + 1] /\ turn.of + 1 \in 1 .. Len(Members) + 1
<1>1. PICK n \in Nat : n = Len(Members)
  BY MembersAre
<1>2. turn \in [phase : {"read", "write"}, of : 1 .. n + 1] /\ turn.of <= n /\ turn.phase = phase
  BY <1>1 DEF IInvTypes, Has
<1> QED
  BY <1>1, <1>2 DEF NextTurn

\* What a member writes is a PDU as they are exchanged.
LEMMA PutType ==
  ASSUME IInvTypes, NEW m \in Member, NEW type \in Types, NEW to \in Member,
         NEW body \in Body(type), type = "Config" => to = Pop,
         m = Pop /\ type = "Config" => body.ut >= body.mt,
         Put(m, Pdu(type, Pop, to, body))
  PROVE  wire' \in [Member -> Seq(Packet)]
<1> DEFINE p == Pdu(type, Pop, to, body)
<1>1. p.node \in Member /\ p.node = Pop
  BY MembersAre DEF Pdu
<1>2. p = [type |-> type, node |-> Pop, pop |-> to, body |-> body]
  BY DEF Pdu
<1>3. Written(m, p) = [type |-> type, node |-> m, pop |-> to, body |-> body]
  BY <1>1, <1>2, WrittenType
<1>4. Written(m, p) \in Packet
  BY <1>3 DEF Packet, Addressed, Types
<1> QED
  BY <1>4 DEF Put, IInvTypes

LEMMA PdusAre ==
  /\ \A p \in PopPdus : /\ p.type \in Types /\ p.body \in Body(p.type) /\ p.pop \in Member
                        /\ p.type = "Config" => p.pop = Pop /\ p.body.ut >= p.body.mt
  /\ \A n \in Node : \A p \in NodePdus[n] : p.type \in Types /\ p.body \in Body(p.type)
<1>1. ASSUME NEW n \in Node, NEW p \in NodePdus[n]
      PROVE  p \in UNION Range(NodePdus)
  BY PopNetworkAssumption DEF Range, Node, Member
<1> QED
  BY <1>1, PopNetworkAssumption DEF Types, Member

LEMMA TypesStep == IInvTypes /\ [Next]_vars => IInvTypes'
<1> SUFFICES ASSUME IInvTypes, [Next]_vars PROVE IInvTypes'
  OBVIOUS
<1>0. Len(Members) \in Nat /\ Pop \in Member /\ Node \subseteq Member
  BY MembersAre DEF Node
<1>1. ASSUME NEW m \in Member, Read(m) PROVE IInvTypes'
  <2>1. PICK r : r = FoldLeft(Consume, rep[m], inbox)
    OBVIOUS
  <2>2. PICK pdus \in Emissions(r) :
          /\ rep' = [rep EXCEPT ![m] = Cleared(r)]
          /\ out' = [out EXCEPT ![m] = pdus]
          /\ asked' = IF m = Pop THEN Asking(pdus) ELSE asked
          /\ waiting' = IF m # Pop /\ \E p \in ToSet(pdus) : IsAnswer(p)
                        THEN waiting \ {m} ELSE waiting
    BY <1>1, <2>1 DEF Read
  <2>3. r \in Replica(m)
    BY <2>1, ReadType DEF IInvTypes
  <2>4. Cleared(r) \in Replica(m) /\ pdus \in Seq(Addressed)
    BY <2>3, ClearedType, EmissionsType
  <2>5. rep' \in [Member -> UNION {Replica(n) : n \in Member}] /\ \A n \in Member : rep'[n] \in Replica(n)
    BY <2>2, <2>4 DEF IInvTypes
  <2>6. out' \in [Member -> Seq(Addressed)]
    BY <2>2, <2>4 DEF IInvTypes
  <2>7. asked' \subseteq Node
    <3>1. CASE m = Pop
      <4>1. \A i \in DOMAIN pdus : pdus[i].node \in Node
        <5>1. \A i \in DOMAIN pdus : pdus[i] \in Addressed
          BY <2>4
        <5> QED
          BY <3>1, <2>3, <5>1, EmissionsType DEF Addressed, Node
      <4>2. Asking(pdus) \subseteq Node
        BY <4>1 DEF Asking, ToSet
      <4> QED
        BY <2>2, <3>1, <4>2
    <3>2. CASE m # Pop
      BY <2>2, <3>2 DEF IInvTypes
    <3> QED
      BY <3>1, <3>2
  <2>8. waiting' \subseteq Node
    BY <2>2 DEF IInvTypes
  <2>9. turn' \in [phase : {"read", "write"}, of : 1 .. Len(Members) + 1]
    BY <1>0, <1>1, NextTurnType DEF Read
  <2>10. inbox' = inbox /\ wire' = wire
    BY <1>1 DEF Read
  <2> QED
    BY <2>5, <2>6, <2>7, <2>8, <2>9, <2>10 DEF IInvTypes
<1>2. ASSUME NEW m \in Member, Flush(m) PROVE IInvTypes'
  <2>1. turn' \in [phase : {"read", "write"}, of : 1 .. Len(Members) + 1]
    BY <1>0, <1>2, NextTurnType DEF Flush
  <2> QED
    BY <1>2, <2>1 DEF Flush, IInvTypes
<1>3. ASSUME NEW n \in Node, WriteCommand(n) PROVE IInvTypes'
  <2>1. Command \in Body("Status")
    BY DEF Command, Body
  <2>2. wire' \in [Member -> Seq(Packet)]
    BY <1>0, <1>3, <2>1, PutType DEF WriteCommand, Types
  <2> QED
    BY <1>3, <2>2 DEF WriteCommand, Put, IInvTypes
<1>4. ASSUME NEW n \in asked, WriteAnswer(n) PROVE IInvTypes'
  <2>1. [cycle |-> 0, mt |-> 0, tcvr |-> "FrameSync"] \in Body("Status")
    BY DEF Body
  <2>2. n \in Member
    BY <1>0 DEF IInvTypes
  <2>3. wire' \in [Member -> Seq(Packet)]
    BY <1>0, <1>4, <2>1, <2>2, PutType DEF WriteAnswer, Types
  <2> QED
    BY <1>4, <2>3 DEF WriteAnswer, Put, IInvTypes
<1>5. ASSUME NEW n \in Node, NEW p \in NodePdus[n], WriteNode(n, p) PROVE IInvTypes'
  <2>1. wire' \in [Member -> Seq(Packet)]
    BY <1>0, <1>5, PdusAre, PutType DEF WriteNode, Node
  <2> QED
    BY <1>5, <2>1 DEF WriteNode, Put, IInvTypes
<1>6. ASSUME NEW p \in PopPdus, WritePop(p) PROVE IInvTypes'
  <2>1. wire' \in [Member -> Seq(Packet)]
    BY <1>0, <1>6, PdusAre, PutType DEF WritePop
  <2> QED
    BY <1>6, <2>1 DEF WritePop, Put, IInvTypes
<1>7. ASSUME Truncate PROVE IInvTypes'
  BY <1>0, <1>7 DEF Truncate, IInvTypes
<1>8. ASSUME Exchange PROVE IInvTypes'
  <2>1. [i \in DOMAIN Members |-> wire[Members[i]]] \in Seq(Seq(Packet))
    <3>1. DOMAIN Members = 1 .. Len(Members)
      BY MembersAre
    <3>2. \A i \in 1 .. Len(Members) : wire[Members[i]] \in Seq(Packet)
      BY MembersAre DEF IInvTypes
    <3> QED
      BY <1>0, <3>1, <3>2
  <2>2. inbox' \in Seq(Packet)
    BY <1>8, <2>1, Reading!FlattenSeqType, ReadingFlattenSeq DEF Exchange
  <2>3. wire' \in [Member -> Seq(Packet)]
    BY <1>8 DEF Exchange
  <2>4. turn' \in [phase : {"read", "write"}, of : 1 .. Len(Members) + 1]
    <3>1. 1 \in 1 .. Len(Members) + 1
      BY <1>0
    <3> QED
      BY <1>8, <3>1 DEF Exchange
  <2>5. rep' = rep /\ out' = out /\ asked' = asked /\ waiting' = waiting
    BY <1>8 DEF Exchange
  <2> QED
    BY <2>2, <2>3, <2>4, <2>5 DEF IInvTypes
<1>9. ASSUME UNCHANGED vars PROVE IInvTypes'
  BY <1>9 DEF vars, IInvTypes
<1> QED
  BY <1>1, <1>2, <1>3, <1>4, <1>5, <1>6, <1>7, <1>8, <1>9 DEF Next

-----------------------------------------------------------------------------
(***************************************************************************)
(* Agreement.                                                              *)
(***************************************************************************)

LEMMA RoutedIsAlike ==
  ASSUME NEW m \in Member, NEW r \in Replica(m), NEW to, NEW p
  PROVE  Alike(Routed(r, to, p), r)
BY DEF Routed, Replica, Alike

LEMMA AdjustedIsAlike ==
  ASSUME NEW m \in Member, NEW n \in Member, NEW r \in Replica(m), NEW q \in Replica(n),
         Alike(r, q), NEW p
  PROVE  Alike(Adjusted(r, p), Adjusted(q, p))
<1>1. r.config = q.config /\ r.pos = q.pos
  BY DEF Alike
<1>2. TooFar(r, p.body) <=> TooFar(q, p.body)
  BY <1>1 DEF TooFar
<1> DEFINE edge == Edge(r.config, p.body.slot)
           takes == /\ p.pop # Pop /\ p.body.status = "Transmitted"
                    /\ edge > r.pos.mt \/ TooFar(r, p.body)
<1>3. Adjusted(r, p) = IF takes THEN [r EXCEPT !.pos.mt = edge] ELSE r
  BY DEF Adjusted
<1>4. Adjusted(q, p) = IF takes THEN [q EXCEPT !.pos.mt = edge] ELSE q
  BY <1>1, <1>2 DEF Adjusted
<1> HIDE DEF edge, takes
<1> QED
  BY <1>1, <1>3, <1>4 DEF Replica, Alike

\* What replicas make of their position by a PDU does not depend on whose they
\* are, or on what they route.
LEMMA ConsumeKeepsAlike ==
  ASSUME NEW m \in Member, NEW n \in Member, NEW r \in Replica(m), NEW q \in Replica(n),
         Alike(r, q), NEW p \in Packet
  PROVE  Alike(Consume(r, p), Consume(q, p))
<1>1. p.type \in Types /\ p.node \in Member /\ p.pop \in Member /\ Pop \in Member
  BY MembersAre DEF Packet, Addressed
<1>2. \A to : Alike(Routed(r, to, p), Routed(q, to, p))
  BY RoutedIsAlike DEF Alike
<1>3. CASE p.type = "Config"
  <2>1. Alike(Configured(r, p.body), Configured(q, p.body))
    BY DEF Configured, Replica, Alike
  <2> QED
    BY <1>2, <1>3, <2>1 DEF Consume, ConsumeConfig
<1>4. CASE p.type = "Status"
  <2>1. Synced(r, p.body) = Synced(q, p.body)
    BY DEF Synced, Alike
  <2>2. Alike(Observed(r, p.body), Observed(q, p.body))
    BY <2>1 DEF Observed, Replica, Alike
  <2> QED
    BY <1>2, <1>4, <2>2 DEF Consume, ConsumeStatus
<1>5. CASE p.type = "Lpdu"
  <2> DEFINE routed(x) == IF p.node # Pop THEN Routed(x, Pop, p)
                          ELSE IF p.pop # Pop THEN Routed(x, p.pop, p) ELSE x
  <2>1. routed(r) \in Replica(m) /\ routed(q) \in Replica(n)
    BY <1>1, RoutedType
  <2>2. Alike(routed(r), routed(q))
    BY <1>2
  <2>3. Consume(r, p) = Adjusted(routed(r), p) /\ Consume(q, p) = Adjusted(routed(q), p)
    BY <1>5 DEF Consume, ConsumeLpdu
  <2> HIDE DEF routed
  <2> QED
    BY <2>1, <2>2, <2>3, AdjustedIsAlike
<1> QED
  BY <1>1, <1>3, <1>4, <1>5 DEF Types

\* Replicas that agree still do when they have read the same PDUs.
LEMMA ReadKeepsAlike ==
  ASSUME NEW m \in Member, NEW n \in Member, NEW r \in Replica(m), NEW q \in Replica(n),
         Alike(r, q), NEW pdus \in Seq(Packet)
  PROVE  Alike(FoldLeft(Consume, r, pdus), FoldLeft(Consume, q, pdus))
<1> DEFINE R == {a \in Replica(m) \X Replica(n) : Alike(a[1], a[2])}
<1>1. ASSUME NEW x, NEW y, NEW p \in Packet, <<x, y>> \in R
      PROVE  <<Consume(x, p), Consume(y, p)>> \in R
  BY <1>1, ConsumeType, ConsumeKeepsAlike
<1>2. <<r, q>> \in R
  OBVIOUS
<1>3. <<Reading!Fold(r, pdus), Reading!Fold(q, pdus)>> \in R
  <2> HIDE DEF R
  <2> QED
    BY <1>1, <1>2, Reading!FoldKeeps
<1>4. Alike(Reading!Fold(r, pdus), Reading!Fold(q, pdus))
  BY <1>3
<1> QED
  BY <1>4, ReadingIsFold

\* A step in which no member reads: the members start anew, or nothing happens
\* to what they have read.
LEMMA NobodyReads ==
  ASSUME IInvTypes, [Next]_vars, ~\E m \in Member : Read(m)
  PROVE  /\ rep' = rep
         /\ \/ UNCHANGED <<out, inbox, turn>>
            \/ /\ \A i \in Index : ~HasRead(i)'
               /\ (\A i \in Index : ~HasRead(i)) \/ (\A i \in Index : HasRead(i))
<1>1. PICK n \in Nat : n = Len(Members) /\ Index = 1 .. n
  BY MembersAre DEF Index
<1>2. ASSUME NEW m \in Member, Flush(m)
      PROVE  rep' = rep /\ \A i \in Index : ~HasRead(i) /\ ~HasRead(i)'
  BY <1>2, NextTurnType DEF Flush, Has, HasRead
<1>3. ASSUME Truncate
      PROVE  rep' = rep /\ \A i \in Index : HasRead(i) /\ ~HasRead(i)'
  <2>1. turn.phase = "read" /\ turn.of = n + 1 /\ turn'.phase = "write" /\ rep' = rep
    BY <1>1, <1>3 DEF Truncate
  <2> QED
    BY <1>1, <2>1 DEF HasRead
<1>4. ASSUME Exchange
      PROVE  rep' = rep /\ \A i \in Index : ~HasRead(i) /\ ~HasRead(i)'
  <2>1. turn.phase = "write" /\ turn'.phase = "read" /\ turn'.of = 1 /\ rep' = rep
    BY <1>4 DEF Exchange
  <2> QED
    BY <1>1, <2>1 DEF HasRead
<1>5. CASE UNCHANGED vars \/ (\E k \in Node : WriteCommand(k)) \/ (\E k \in asked : WriteAnswer(k))
           \/ (\E k \in Node : \E p \in NodePdus[k] : WriteNode(k, p))
           \/ (\E p \in PopPdus : WritePop(p))
  BY <1>5 DEF vars, WriteCommand, WriteAnswer, WriteNode, WritePop, Put
<1> QED
  BY <1>2, <1>3, <1>4, <1>5 DEF Next

LEMMA ReadStep ==
  ASSUME IInvTypes, NEW m \in Member, Read(m)
  PROVE  \E k \in Index, r \in Replica(m) :
           /\ m = Members[k] /\ turn = [phase |-> "read", of |-> k]
           /\ turn' = [phase |-> "read", of |-> k + 1]
           /\ r = FoldLeft(Consume, rep[m], inbox)
           /\ rep'[m] = Cleared(r) /\ rep'[m] \in Replica(m) /\ Alike(rep'[m], r)
           /\ out'[m] \in Emissions(r) /\ inbox' = inbox
           /\ \A i \in Index : i # k =>
                rep'[Members[i]] = rep[Members[i]] /\ out'[Members[i]] = out[Members[i]]
<1>1. PICK k \in Index : m = Members[k] /\ turn.phase = "read" /\ turn.of = k
  <2>0. Len(Members) \in Nat
    BY MembersAre
  <2>1. PICK n \in Nat : n = Len(Members)
    BY <2>0
  <2>2. turn.phase = "read" /\ turn.of <= n /\ Members[turn.of] = m
    BY <2>1 DEF Read, Has
  <2>3. turn.of \in 1 .. n
    BY <2>1, <2>2 DEF IInvTypes
  <2> QED
    BY <2>1, <2>2, <2>3 DEF Index
<1>2. turn = [phase |-> "read", of |-> k]
  BY <1>1 DEF IInvTypes
<1>3. turn' = [phase |-> "read", of |-> k + 1]
  BY <1>1, NextTurnType DEF Read
<1>4. PICK r : r = FoldLeft(Consume, rep[m], inbox)
  OBVIOUS
<1>5. PICK pdus \in Emissions(r) :
        rep' = [rep EXCEPT ![m] = Cleared(r)] /\ out' = [out EXCEPT ![m] = pdus]
  BY <1>4 DEF Read
<1>6. r \in Replica(m)
  BY <1>4, ReadType DEF IInvTypes
<1>7. rep'[m] = Cleared(r) /\ out'[m] = pdus /\ inbox' = inbox
  BY <1>5 DEF IInvTypes, Read
<1>8. rep'[m] \in Replica(m) /\ Alike(rep'[m], r)
  BY <1>6, <1>7, ClearedType
<1>9. \A i \in Index : i # k => Members[i] # m /\ Members[i] \in Member
  BY <1>1, MembersAre DEF Index
<1>10. \A i \in Index : i # k =>
         rep'[Members[i]] = rep[Members[i]] /\ out'[Members[i]] = out[Members[i]]
  BY <1>5, <1>9 DEF IInvTypes
<1> QED
  BY <1>1, <1>2, <1>3, <1>4, <1>6, <1>7, <1>8, <1>10

LEMMA InitAgree == Init => IInvAgree /\ IInvTold
<1> SUFFICES ASSUME Init PROVE IInvAgree /\ IInvTold
  OBVIOUS
<1>1. \A i \in Index : ~HasRead(i)
  BY DEF Init, HasRead
<1>2. \A i \in Index : Members[i] \in Member
  BY MembersAre DEF Index
<1>3. \A i, j \in Index : Alike(rep[Members[i]], rep[Members[j]])
  BY <1>2 DEF Init, ZeroReplica, Alike
<1> QED
  BY <1>1, <1>3 DEF IInvAgree, IInvTold

LEMMA AgreeStep == IInvTypes /\ IInvAgree /\ [Next]_vars => IInvAgree'
<1> SUFFICES ASSUME IInvTypes, IInvAgree, [Next]_vars PROVE IInvAgree'
  OBVIOUS
<1>1. ASSUME NEW m \in Member, Read(m) PROVE IInvAgree'
  <2>1. PICK k \in Index, r \in Replica(m) :
          /\ m = Members[k] /\ turn = [phase |-> "read", of |-> k]
          /\ turn' = [phase |-> "read", of |-> k + 1]
          /\ r = FoldLeft(Consume, rep[m], inbox)
          /\ rep'[m] = Cleared(r) /\ rep'[m] \in Replica(m) /\ Alike(rep'[m], r)
          /\ out'[m] \in Emissions(r) /\ inbox' = inbox
          /\ \A i \in Index : i # k =>
               rep'[Members[i]] = rep[Members[i]] /\ out'[Members[i]] = out[Members[i]]
    BY <1>1, ReadStep
  <2>2. Index \subseteq Nat
    BY MembersAre DEF Index
  <2>3. \A i \in Index : (HasRead(i) <=> i < k) /\ (HasRead(i)' <=> i < k \/ i = k)
    BY <2>1, <2>2 DEF HasRead
  <2>4. \A i \in Index : Members[i] \in Member /\ rep[Members[i]] \in Replica(Members[i])
    BY MembersAre DEF Index, IInvTypes
  <2>5. ASSUME NEW i \in Index, HasRead(i)' PROVE Alike(rep'[Members[i]], rep'[m])
    <3>1. CASE i = k
      BY <2>1, <3>1 DEF Alike
    <3>2. CASE i # k
      <4>1. rep'[Members[i]] = rep[Members[i]]
        BY <2>1, <3>2
      <4>2. HasRead(i) /\ ~HasRead(k)
        BY <2>2, <2>3, <2>5, <3>2
      <4>3. Alike(rep[Members[i]], r)
        BY <2>1, <4>2 DEF IInvAgree
      <4> QED
        BY <2>1, <4>1, <4>3 DEF Alike
    <3> QED
      BY <3>1, <3>2
  <2>6. ASSUME NEW j \in Index, ~HasRead(j)'
        PROVE  Alike(rep'[m], FoldLeft(Consume, rep'[Members[j]], inbox'))
    <3>1. j # k /\ ~HasRead(j) /\ ~HasRead(k)
      BY <2>2, <2>3, <2>6
    <3>2. rep'[Members[j]] = rep[Members[j]] /\ inbox' = inbox
      BY <2>1, <3>1
    <3>3. Alike(rep[m], rep[Members[j]])
      BY <2>1, <3>1 DEF IInvAgree
    <3>4. Alike(r, FoldLeft(Consume, rep[Members[j]], inbox))
      <4>1. rep[m] \in Replica(m) /\ rep[Members[j]] \in Replica(Members[j])
            /\ Members[j] \in Member /\ inbox \in Seq(Packet)
        BY <2>4 DEF IInvTypes
      <4>2. Alike(FoldLeft(Consume, rep[m], inbox),
                  FoldLeft(Consume, rep[Members[j]], inbox))
        BY <3>3, <4>1, ReadKeepsAlike
      <4> QED
        BY <2>1, <4>2
    <3> QED
      BY <2>1, <3>2, <3>4 DEF Alike
  <2>7. ASSUME NEW i \in Index, NEW j \in Index, HasRead(i)' <=> HasRead(j)'
        PROVE  Alike(rep'[Members[i]], rep'[Members[j]])
    <3>1. CASE HasRead(i)'
      BY <2>5, <2>7, <3>1 DEF Alike
    <3>2. CASE ~HasRead(i)'
      <4>1. ~HasRead(i) /\ ~HasRead(j) /\ i # k /\ j # k
        BY <2>2, <2>3, <2>7, <3>2
      <4> QED
        BY <2>1, <4>1 DEF IInvAgree
    <3> QED
      BY <3>1, <3>2
  <2>8. ASSUME NEW i \in Index, NEW j \in Index, HasRead(i)', ~HasRead(j)'
        PROVE  Alike(rep'[Members[i]], FoldLeft(Consume, rep'[Members[j]], inbox'))
    BY <2>5, <2>6, <2>8 DEF Alike
  <2> QED
    BY <2>7, <2>8 DEF IInvAgree
<1>2. ASSUME ~\E m \in Member : Read(m) PROVE IInvAgree'
  <2>1. rep' = rep
    BY <1>2, NobodyReads
  <2>2. CASE UNCHANGED <<out, inbox, turn>>
    BY <2>1, <2>2 DEF IInvAgree, HasRead
  <2>3. CASE /\ \A i \in Index : ~HasRead(i)'
             /\ (\A i \in Index : ~HasRead(i)) \/ (\A i \in Index : HasRead(i))
    BY <2>1, <2>3 DEF IInvAgree
  <2> QED
    BY <1>2, <2>2, <2>3, NobodyReads
<1> QED
  BY <1>1, <1>2

LEMMA ToldStep == IInvTypes /\ IInvTold /\ [Next]_vars => IInvTold'
<1> SUFFICES ASSUME IInvTypes, IInvTold, [Next]_vars PROVE IInvTold'
  OBVIOUS
<1>1. ASSUME NEW m \in Member, Read(m) PROVE IInvTold'
  <2>1. PICK k \in Index, r \in Replica(m) :
          /\ m = Members[k] /\ turn = [phase |-> "read", of |-> k]
          /\ turn' = [phase |-> "read", of |-> k + 1]
          /\ r = FoldLeft(Consume, rep[m], inbox)
          /\ rep'[m] = Cleared(r) /\ rep'[m] \in Replica(m) /\ Alike(rep'[m], r)
          /\ out'[m] \in Emissions(r) /\ inbox' = inbox
          /\ \A i \in Index : i # k =>
               rep'[Members[i]] = rep[Members[i]] /\ out'[Members[i]] = out[Members[i]]
    BY <1>1, ReadStep
  <2>3. Index \subseteq Nat
    BY MembersAre DEF Index
  <2>4. m # Pop => /\ out'[m] # <<>> /\ IsStatus(out'[m][1])
                   /\ out'[m][1].body.cycle = rep'[m].pos.cycle
                   /\ out'[m][1].body.mt = rep'[m].pos.mt
    BY <2>1, EmissionsType DEF Alike
  <2>5. ASSUME NEW i \in Index, HasRead(i)', Members[i] # Pop, i # k
        PROVE  /\ HasRead(i)
               /\ rep'[Members[i]] = rep[Members[i]] /\ out'[Members[i]] = out[Members[i]]
    <3>1. i \in Nat /\ k \in Nat /\ i < k + 1
      BY <2>1, <2>3, <2>5 DEF HasRead
    <3>2. HasRead(i)
      BY <2>1, <2>5, <3>1 DEF HasRead
    <3> QED
      BY <2>1, <2>5, <3>2
  <2> QED
    BY <2>1, <2>4, <2>5 DEF IInvTold
<1>2. ASSUME ~\E m \in Member : Read(m) PROVE IInvTold'
  <2>1. rep' = rep
    BY <1>2, NobodyReads
  <2>2. CASE UNCHANGED <<out, inbox, turn>>
    BY <2>1, <2>2 DEF IInvTold, HasRead
  <2>3. CASE \A i \in Index : ~HasRead(i)'
    BY <2>3 DEF IInvTold
  <2> QED
    BY <1>2, <2>2, <2>3, NobodyReads
<1> QED
  BY <1>1, <1>2

\* After all have read.
LEMMA AllHaveRead ==
  ASSUME AllRead, NEW m \in Member
  PROVE  \E i, k \in Index :
           /\ m = Members[i] /\ HasRead(i)
           /\ Pop = Members[k] /\ HasRead(k)
<1>1. PICK n \in Nat : n = Len(Members) /\ Index = 1 .. n
  BY MembersAre DEF Index
<1>2. (\E i \in Index : m = Members[i]) /\ (\E k \in Index : Pop = Members[k])
  BY MembersAre DEF Index
<1>3. \A i \in Index : HasRead(i)
  BY <1>1 DEF AllRead, HasRead
<1> QED
  BY <1>2, <1>3

LEMMA AgreeImplies == IInvAgree => ReplicasAgree
<1> SUFFICES ASSUME IInvAgree, AllRead, NEW m \in Member
             PROVE  rep[m].pos = rep[Pop].pos /\ rep[m].config = rep[Pop].config
  BY DEF ReplicasAgree
<1> QED
  BY AllHaveRead DEF IInvAgree, Alike

LEMMA ToldImplies == IInvAgree /\ IInvTold => StatusFirst
<1> SUFFICES ASSUME IInvAgree, IInvTold, AllRead, NEW n \in Node
             PROVE  /\ out[n] # <<>> /\ IsStatus(out[n][1])
                    /\ out[n][1].body.cycle = rep[Pop].pos.cycle
                    /\ out[n][1].body.mt = rep[Pop].pos.mt
  BY DEF StatusFirst
<1>1. n \in Member /\ n # Pop
  BY DEF Node
<1>2. PICK i \in Index : n = Members[i] /\ HasRead(i)
  BY <1>1, AllHaveRead
<1>3. rep[n].pos = rep[Pop].pos
  BY <1>1, AgreeImplies DEF ReplicasAgree
<1> QED
  BY <1>1, <1>2, <1>3 DEF IInvTold

\* The inductive invariant holds.
LEMMA Invariants == Spec => [](IInvTypes /\ IInvAgree /\ IInvTold)
<1>1. Init => IInvTypes /\ IInvAgree /\ IInvTold
  BY InitTypes, InitAgree
<1>2. IInvTypes /\ IInvAgree /\ IInvTold /\ [Next]_vars
        => (IInvTypes /\ IInvAgree /\ IInvTold)'
  BY TypesStep, AgreeStep, ToldStep
<1> QED
  BY <1>1, <1>2, PTL DEF Spec

\* Every replica has the same estimate of the position of the external bus when
\* all have read, whatever it routed in between and in whatever order the members
\* took their turns (flexray_pop_bus_model_consume).
THEOREM Agreement == Spec => []ReplicasAgree
<1>1. IInvTypes /\ IInvAgree /\ IInvTold => ReplicasAgree
  BY AgreeImplies
<1> QED
  BY <1>1, Invariants, PTL

\* A node always reads a Status before anything else, and it has the position
\* that the PoP estimates (flexray_pop_bus_model_progress, __pdu_status_first).
THEOREM FirstIsStatus == Spec => []StatusFirst
<1>1. IInvTypes /\ IInvAgree /\ IInvTold => StatusFirst
  BY ToldImplies
<1> QED
  BY <1>1, Invariants, PTL

-----------------------------------------------------------------------------
(***************************************************************************)
(* The estimate stays in the cycle.                                        *)
(***************************************************************************)

\* A Config for a cycle of L macroticks, a partial one included.
ForCycle(c, L) ==
  c.mt <= L /\ Edge(c, c.count) <= L /\ (Complete(c) => c.mt = L)

\* What the PoP says of the bus is of a cycle of L macroticks.
SaysOfCycle(p, L) ==
  /\ p.type = "Config" => ForCycle(p.body, L)
  /\ p.type = "Status" => p.body.mt <= L

\* The application of the PoP reports a bus with a cycle of L macroticks.
OneCycle(L) == \A p \in PopPdus : SaysOfCycle(p, L)

PacketOf(L) == {p \in Packet : p.node = Pop => SaysOfCycle(p, L)}

InCycle(r, L) == r.pos.mt <= L /\ ForCycle(r.config, L)

IInvCycle(L) ==
  /\ \A m \in Member : InCycle(rep[m], L)
  /\ inbox \in Seq(PacketOf(L))
  /\ wire \in [Member -> Seq(PacketOf(L))]

LEMMA ProductMonotone ==
  ASSUME NEW m \in Nat, NEW a \in Nat, NEW b \in Nat, a <= b
  PROVE  a * m <= b * m
OBVIOUS

\* No slot has an edge behind that of the last one.
LEMMA EdgeInStatic ==
  ASSUME NEW c \in Config, NEW slot \in Nat
  PROVE  Edge(c, slot) <= Edge(c, c.count)
<1>1. c.count \in Nat /\ c.len \in Nat
  BY DEF Config
<1>2. Least(slot, c.count) + 1 <= Least(c.count, c.count) + 1
      /\ Least(slot, c.count) + 1 \in Nat /\ Least(c.count, c.count) + 1 \in Nat
  BY <1>1 DEF Least
<1> QED
  BY <1>1, <1>2, ProductMonotone DEF Edge

LEMMA ConsumeInCycle ==
  ASSUME NEW L \in Nat, NEW m \in Member, NEW r \in Replica(m), InCycle(r, L),
         NEW p \in PacketOf(L)
  PROVE  InCycle(Consume(r, p), L)
<1>1. /\ p \in Packet /\ (p.node = Pop => SaysOfCycle(p, L))
      /\ p.type \in Types /\ p.node \in Member /\ p.pop \in Member /\ Pop \in Member
  BY MembersAre DEF PacketOf, Packet, Addressed
<1>2. \A to : InCycle(Routed(r, to, p), L)
  BY RoutedIsAlike DEF Alike, InCycle
<1>3. CASE p.type = "Config"
  <2>1. CASE p.node # Pop
    BY <1>2, <1>3, <2>1 DEF Consume, ConsumeConfig
  <2>2. CASE p.node = Pop
    <3>1. PICK c : c = Configured(r, p.body).config
      OBVIOUS
    <3>2. /\ Configured(r, p.body).pos = r.pos
          /\ c.mt = p.body.mt /\ c.ut = p.body.ut /\ c.len = p.body.len /\ c.count = p.body.count
      BY <3>1 DEF Configured, Replica
    <3>3. ForCycle(c, L)
      BY <1>1, <1>3, <2>2, <3>2 DEF SaysOfCycle, ForCycle, Edge, Complete
    <3> QED
      BY <1>3, <2>2, <3>1, <3>2, <3>3 DEF Consume, ConsumeConfig, InCycle
  <2> QED
    BY <2>1, <2>2
<1>4. CASE p.type = "Status"
  <2>1. CASE p.node # Pop \/ p.pop # Pop
    BY <1>2, <1>4, <2>1 DEF Consume, ConsumeStatus
  <2>2. CASE p.node = Pop /\ p.pop = Pop
    <3>1. p.body \in Body("Status") /\ p.body.mt <= L
      BY <1>1, <1>4, <2>2 DEF Packet, SaysOfCycle
    <3>2. p.body.mt \in Nat /\ r.pos.mt \in Nat /\ r.config.mt \in Nat /\ r.config.budget \in Nat
      BY <3>1 DEF Body, Replica, Position, Config
    <3>3. Synced(r, p.body).mt <= L
      BY <3>1, <3>2 DEF Synced, Least, InCycle, ForCycle
    <3>4. Observed(r, p.body).pos.mt <= L /\ Observed(r, p.body).config = r.config
      BY <3>3 DEF Observed, Replica
    <3>5. Consume(r, p) = Observed(r, p.body)
      BY <1>4, <2>2 DEF Consume, ConsumeStatus
    <3> QED
      BY <3>4, <3>5 DEF InCycle
  <2> QED
    BY <2>1, <2>2
<1>5. CASE p.type = "Lpdu"
  <2>1. PICK q : q = IF p.node # Pop THEN Routed(r, Pop, p)
                     ELSE IF p.pop # Pop THEN Routed(r, p.pop, p) ELSE r
    OBVIOUS
  <2>2. q \in Replica(m) /\ InCycle(q, L)
    BY <1>1, <1>2, <2>1, RoutedType
  <2>3. Consume(r, p) = Adjusted(q, p)
    BY <1>5, <2>1 DEF Consume, ConsumeLpdu
  <2>4. p.body.slot \in Nat
    BY <1>1, <1>5 DEF Packet, Body
  <2>5. PICK edge : edge = Edge(q.config, p.body.slot)
    OBVIOUS
  <2>6. edge <= L
    <3>1. q.config \in Config /\ q.config.count \in Nat
      BY <2>2 DEF Replica, Config
    <3>2. edge \in Nat /\ Edge(q.config, q.config.count) \in Nat
          /\ edge <= Edge(q.config, q.config.count)
      BY <2>4, <2>5, <3>1, EdgeIsNat, EdgeInStatic
    <3> QED
      BY <2>2, <3>2 DEF InCycle, ForCycle
  <2>7. Adjusted(q, p) = q \/ Adjusted(q, p) = [q EXCEPT !.pos.mt = edge]
    BY <2>5 DEF Adjusted
  <2>8. InCycle([q EXCEPT !.pos.mt = edge], L)
    BY <2>2, <2>6 DEF InCycle, Replica, Position
  <2> QED
    BY <2>2, <2>3, <2>7, <2>8
<1> QED
  BY <1>1, <1>3, <1>4, <1>5 DEF Types

LEMMA ReadInCycle ==
  ASSUME NEW L \in Nat, NEW m \in Member, NEW r \in Replica(m), InCycle(r, L),
         NEW pdus \in Seq(PacketOf(L))
  PROVE  InCycle(FoldLeft(Consume, r, pdus), L)
<1> DEFINE S == {q \in Replica(m) : InCycle(q, L)}
<1>1. \A q \in S, p \in PacketOf(L) : Consume(q, p) \in S
  BY ConsumeType, ConsumeInCycle DEF PacketOf
<1>2. Reading!Fold(r, pdus) \in S
  <2>1. r \in S
    OBVIOUS
  <2> HIDE DEF S
  <2> QED
    BY <1>1, <2>1, Reading!FoldStaysIn
<1> QED
  BY <1>2, ReadingIsFold

LEMMA InitCycle ==
  ASSUME NEW L \in Nat, Init
  PROVE  IInvCycle(L)
<1>1. ASSUME NEW m \in Member PROVE InCycle(rep[m], L)
  <2>1. rep[m] = ZeroReplica(m)
    BY DEF Init
  <2>2. Edge(ZeroReplica(m).config, 0) = 0
    <3>1. ZeroReplica(m).config.count = 0 /\ ZeroReplica(m).config.len = 0
      BY DEF ZeroReplica
    <3>2. Edge(ZeroReplica(m).config, 0) = (0 + 1) * 0
      BY <3>1 DEF Edge, Least
    <3> QED
      BY <3>2
  <2> QED
    BY <2>1, <2>2 DEF ZeroReplica, InCycle, ForCycle, Complete
<1>2. inbox \in Seq(PacketOf(L)) /\ wire \in [Member -> Seq(PacketOf(L))]
  BY DEF Init
<1> QED
  BY <1>1, <1>2 DEF IInvCycle

LEMMA PutOfCycle ==
  ASSUME NEW L \in Nat, IInvTypes, IInvCycle(L),
         NEW m \in Member, NEW type \in Types, NEW to \in Member, NEW body \in Body(type),
         type = "Config" => to = Pop, m = Pop /\ type = "Config" => body.ut >= body.mt,
         m = Pop => SaysOfCycle(Pdu(type, Pop, to, body), L),
         Put(m, Pdu(type, Pop, to, body))
  PROVE  wire' \in [Member -> Seq(PacketOf(L))]
<1> DEFINE p == Pdu(type, Pop, to, body)
<1>1. p.node \in Member /\ p.node = Pop
  BY MembersAre DEF Pdu
<1>2. p = [type |-> type, node |-> Pop, pop |-> to, body |-> body]
  BY DEF Pdu
<1>3. Written(m, p) = [type |-> type, node |-> m, pop |-> to, body |-> body]
  BY <1>1, <1>2, WrittenType
<1>4. Written(m, p) \in Packet
  BY <1>3 DEF Packet, Addressed, Types
<1>5. Written(m, p) \in PacketOf(L)
  BY <1>2, <1>3, <1>4 DEF PacketOf, SaysOfCycle
<1> QED
  BY <1>5 DEF Put, IInvCycle

LEMMA CycleStep ==
  ASSUME NEW L \in Nat, OneCycle(L), IInvTypes, IInvCycle(L), [Next]_vars
  PROVE  IInvCycle(L)'
<1>0. Pop \in Member /\ Node \subseteq Member /\ Pop \notin Node
  BY MembersAre DEF Node
<1>1. ASSUME NEW m \in Member, Read(m) PROVE IInvCycle(L)'
  <2>1. PICK r : r = FoldLeft(Consume, rep[m], inbox) /\ rep' = [rep EXCEPT ![m] = Cleared(r)]
    BY <1>1 DEF Read
  <2>2. r \in Replica(m) /\ InCycle(r, L)
    BY <2>1, ReadType, ReadInCycle DEF IInvTypes, IInvCycle
  <2>3. InCycle(Cleared(r), L)
    BY <2>2, ClearedType DEF Alike, InCycle
  <2>4. \A n \in Member : InCycle(rep'[n], L)
    BY <2>1, <2>3 DEF IInvTypes, IInvCycle
  <2> QED
    BY <1>1, <2>4 DEF Read, IInvCycle
<1>2. ASSUME NEW m \in Member, Flush(m) PROVE IInvCycle(L)'
  BY <1>2 DEF Flush, IInvCycle
<1>3. ASSUME NEW n \in Node, WriteCommand(n) PROVE IInvCycle(L)'
  <2>1. Command \in Body("Status")
    BY DEF Command, Body
  <2>2. wire' \in [Member -> Seq(PacketOf(L))]
    BY <1>0, <1>3, <2>1, PutOfCycle DEF WriteCommand, Types
  <2> QED
    BY <1>3, <2>2 DEF WriteCommand, Put, IInvCycle
<1>4. ASSUME NEW n \in asked, WriteAnswer(n) PROVE IInvCycle(L)'
  <2>1. PICK body : body = [cycle |-> 0, mt |-> 0, tcvr |-> "FrameSync"]
    OBVIOUS
  <2>2. body \in Body("Status")
    BY <2>1 DEF Body
  <2>3. n \in Member
    BY <1>0 DEF IInvTypes
  <2>4. SaysOfCycle(Pdu("Status", Pop, n, body), L)
    BY <2>1 DEF SaysOfCycle, Pdu
  <2>5. wire' \in [Member -> Seq(PacketOf(L))]
    BY <1>0, <1>4, <2>1, <2>2, <2>3, <2>4, PutOfCycle DEF WriteAnswer, Types
  <2> QED
    BY <1>4, <2>5 DEF WriteAnswer, Put, IInvCycle
<1>5. ASSUME NEW n \in Node, NEW p \in NodePdus[n], WriteNode(n, p) PROVE IInvCycle(L)'
  <2>1. wire' \in [Member -> Seq(PacketOf(L))]
    BY <1>0, <1>5, PdusAre, PutOfCycle DEF WriteNode
  <2> QED
    BY <1>5, <2>1 DEF WriteNode, Put, IInvCycle
<1>6. ASSUME NEW p \in PopPdus, WritePop(p) PROVE IInvCycle(L)'
  <2>1. SaysOfCycle(Pdu(p.type, Pop, p.pop, p.body), L)
    BY DEF OneCycle, SaysOfCycle, Pdu
  <2>2. wire' \in [Member -> Seq(PacketOf(L))]
    BY <1>0, <1>6, <2>1, PdusAre, PutOfCycle DEF WritePop
  <2> QED
    BY <1>6, <2>2 DEF WritePop, Put, IInvCycle
<1>7. ASSUME Truncate PROVE IInvCycle(L)'
  BY <1>7 DEF Truncate, IInvCycle
<1>8. ASSUME Exchange PROVE IInvCycle(L)'
  <2>1. [i \in DOMAIN Members |-> wire[Members[i]]] \in Seq(Seq(PacketOf(L)))
    <3>1. DOMAIN Members = 1 .. Len(Members) /\ Len(Members) \in Nat
      BY MembersAre
    <3>2. \A i \in 1 .. Len(Members) : wire[Members[i]] \in Seq(PacketOf(L))
      BY MembersAre DEF IInvCycle
    <3> QED
      BY <3>1, <3>2
  <2>2. inbox' \in Seq(PacketOf(L))
    BY <1>8, <2>1, Reading!FlattenSeqType, ReadingFlattenSeq DEF Exchange
  <2>3. wire' \in [Member -> Seq(PacketOf(L))]
    BY <1>8 DEF Exchange
  <2> QED
    BY <1>8, <2>2, <2>3 DEF Exchange, IInvCycle
<1>9. ASSUME UNCHANGED vars PROVE IInvCycle(L)'
  BY <1>9 DEF vars, IInvCycle
<1> QED
  BY <1>1, <1>2, <1>3, <1>4, <1>5, <1>6, <1>7, <1>8, <1>9 DEF Next

LEMMA CycleImplies ==
  ASSUME NEW L \in Nat, IInvTypes, IInvCycle(L)
  PROVE  TypeOK
<1>1. ASSUME NEW m \in Member
      PROVE  /\ rep[m].self = m
             /\ m \in DOMAIN rep[m].router /\ DOMAIN rep[m].router \subseteq Member
             /\ rep[m].pos \in [running : BOOLEAN, cycle : Nat, mt : Nat]
  BY DEF IInvTypes, Replica, Routes, Position
<1>2. ASSUME NEW m \in Member, Complete(rep[m].config)
      PROVE  rep[m].pos.mt <= rep[m].config.mt
  BY <1>2 DEF IInvCycle, InCycle, ForCycle
<1>3. ASSUME NEW m \in Member, NEW p \in ToSet(out[m] \o wire[m])
      PROVE  p.node \in Member /\ p.pop \in Member
  <2>1. out[m] \in Seq(Addressed) /\ wire[m] \in Seq(Addressed)
    <3>1. out[m] \in Seq(Addressed) /\ wire[m] \in Seq(Packet)
      BY DEF IInvTypes
    <3>2. Packet \subseteq Addressed
      BY DEF Packet
    <3> QED
      BY <3>1, <3>2
  <2>2. PICK s \in Seq(Addressed) : s = out[m] \o wire[m]
    <3>1. out[m] \o wire[m] \in Seq(Addressed)
      BY <2>1
    <3> QED
      BY <3>1
  <2>3. PICK i \in DOMAIN s : p = s[i]
    BY <1>3, <2>2 DEF ToSet
  <2>4. s[i] \in Addressed
    OBVIOUS
  <2> QED
    BY <2>3, <2>4 DEF Addressed
<1> QED
  BY <1>1, <1>2, <1>3 DEF TypeOK, IInvTypes

\* Types, and the estimate of a complete configuration stays in the cycle,
\* whatever PDUs are consumed in whatever order, if the application of the PoP
\* reports positions and configurations of cycles of one length.
THEOREM TypeCorrect ==
  ASSUME NEW L \in Nat, OneCycle(L)
  PROVE  Spec => []TypeOK
<1>1. Init => IInvTypes /\ IInvCycle(L)
  BY InitTypes, InitCycle
<1>2. IInvTypes /\ IInvCycle(L) /\ [Next]_vars => (IInvTypes /\ IInvCycle(L))'
  BY TypesStep, CycleStep
<1>3. IInvTypes /\ IInvCycle(L) => TypeOK
  BY CycleImplies
<1> QED
  BY <1>1, <1>2, <1>3, PTL DEF Spec

-----------------------------------------------------------------------------
(***************************************************************************)
(* The estimate advances.                                                  *)
(***************************************************************************)

\* A PDU that goes on with the cycle moves the estimate forward, or to an edge that
\* is further ahead, or more than a step back.
LEMMA ConsumeAdvances ==
  ASSUME NEW L \in Nat, NEW m \in Member, NEW r \in Replica(m), InCycle(r, L),
         Complete(r.config), r.pos.running, NEW p \in Packet,
         p.node = Pop => p.type # "Config",
         IsReport(p) => p.body.tcvr = "FrameSync" /\ p.body.cycle = r.pos.cycle /\ p.body.mt = 0,
         NEW q, q = Consume(r, p)
  PROVE  /\ q.config = r.config /\ q.pos.running /\ q.pos.cycle = r.pos.cycle
         /\ \/ q.pos.mt = r.pos.mt
            \/ IsReport(p) /\ q.pos.mt >= r.pos.mt
            \/ /\ SaysSent(p) /\ q.pos.mt = Edge(r.config, p.body.slot)
               /\ q.pos.mt > r.pos.mt \/ r.pos.mt > q.pos.mt + r.config.budget
<1>1. /\ p.type \in Types /\ p.node \in Member /\ p.pop \in Member /\ Pop \in Member
      /\ r.pos \in Position /\ r.config \in Config
  BY MembersAre DEF Packet, Addressed, Replica
<1>2. \A to : Alike(Routed(r, to, p), r)
  BY RoutedIsAlike DEF Alike
<1>3. CASE p.type = "Config"
  <2>1. q = Routed(r, Pop, p)
    BY <1>3 DEF Consume, ConsumeConfig
  <2> QED
    BY <1>2, <2>1 DEF Alike
<1>4. CASE p.type = "Status" /\ ~IsReport(p)
  <2>1. \E to : q = Routed(r, to, p)
    BY <1>4 DEF Consume, ConsumeStatus, IsReport
  <2> QED
    BY <1>2, <2>1 DEF Alike
<1>5. CASE IsReport(p)
  <2>1. q = [r EXCEPT !.pos = Synced(r, p.body)]
    BY <1>5 DEF Consume, ConsumeStatus, IsReport, Observed
  <2>2. Synced(r, p.body) = [running |-> TRUE, cycle |-> r.pos.cycle,
                             mt |-> Least(r.pos.mt + r.config.budget, r.config.mt)]
    BY <1>5 DEF Synced
  <2>3. r.pos.mt \in Nat /\ r.config.mt \in Nat /\ r.config.budget \in Nat
        /\ r.pos.mt <= r.config.mt
    BY <1>1 DEF Position, Config, InCycle, ForCycle
  <2>4. Least(r.pos.mt + r.config.budget, r.config.mt) >= r.pos.mt
    BY <2>3 DEF Least
  <2>5. q.config = r.config /\ q.pos = Synced(r, p.body)
    BY <2>1 DEF Replica
  <2> QED
    BY <1>5, <2>2, <2>4, <2>5
<1>6. CASE p.type = "Lpdu"
  <2>1. PICK s : s = IF p.node # Pop THEN Routed(r, Pop, p)
                     ELSE IF p.pop # Pop THEN Routed(r, p.pop, p) ELSE r
    OBVIOUS
  <2>2. s \in Replica(m) /\ s.pos = r.pos /\ s.config = r.config
    BY <1>1, <1>2, <2>1, RoutedType DEF Alike
  <2>3. q = Adjusted(s, p)
    BY <1>6, <2>1 DEF Consume, ConsumeLpdu
  <2>4. PICK edge : edge = Edge(r.config, p.body.slot)
    OBVIOUS
  <2>5. \/ q = s
        \/ /\ SaysSent(p) /\ q = [s EXCEPT !.pos.mt = edge]
           /\ edge > r.pos.mt \/ r.pos.mt > edge + r.config.budget
    BY <1>6, <2>2, <2>3, <2>4 DEF Adjusted, TooFar, SaysSent
  <2>6. CASE q = s
    BY <2>2, <2>6
  <2>7. CASE /\ SaysSent(p) /\ q = [s EXCEPT !.pos.mt = edge]
             /\ edge > r.pos.mt \/ r.pos.mt > edge + r.config.budget
    <3>1. q.pos = [s.pos EXCEPT !.mt = edge] /\ q.config = s.config
      BY <2>2, <2>7 DEF Replica
    <3>2. q.pos.mt = edge /\ q.pos.running /\ q.pos.cycle = r.pos.cycle
      BY <1>1, <2>2, <3>1 DEF Position
    <3> QED
      BY <2>2, <2>4, <2>7, <3>1, <3>2
  <2> QED
    BY <2>5, <2>6, <2>7
<1> QED
  BY <1>1, <1>3, <1>4, <1>5, <1>6 DEF Types, IsReport

\* With a report, a step is added once at least.
LEMMA OneStep ==
  ASSUME NEW pdus \in Seq(Packet), NEW budget \in Nat
  PROVE  LET steps == Cardinality({j \in DOMAIN pdus : IsReport(pdus[j])})
         IN  /\ steps * budget \in Nat
             /\ (\E i \in DOMAIN pdus : IsReport(pdus[i])) => budget <= steps * budget
<1> DEFINE S == {j \in DOMAIN pdus : IsReport(pdus[j])}
<1>1. PICK n \in Nat : n = Len(pdus)
  OBVIOUS
<1>2. S \subseteq 1 .. n
  BY <1>1
<1>3. IsFiniteSet(1 .. n)
  BY FS_Interval
<1>4. (\E i \in DOMAIN pdus : IsReport(pdus[i])) => S # {}
  OBVIOUS
<1> HIDE DEF S
<1>5. IsFiniteSet(S)
  BY <1>2, <1>3, FS_Subset
<1>6. PICK k \in Nat : k = Cardinality(S)
  BY <1>5, FS_CardinalityType
<1>7. S # {} => 1 <= k
  BY <1>5, <1>6, FS_EmptySet
<1>8. k * budget \in Nat
  BY ProductIsNat
<1>9. S # {} => 1 * budget <= k * budget
  BY <1>7, ProductMonotone
<1>10. 1 * budget = budget
  OBVIOUS
<1> QED
  BY <1>4, <1>6, <1>8, <1>9, <1>10 DEF S

LEMMA ReadAdvances ==
  ASSUME NEW L \in Nat, NEW m \in Member, NEW r \in Replica(m), InCycle(r, L),
         Complete(r.config), r.pos.running, inbox \in Seq(PacketOf(L)), InCycleOf(r.pos),
         NEW q, q = FoldLeft(Consume, r, inbox)
  PROVE  q.pos.mt >= r.pos.mt \/ TakenBack(r, q.pos.mt)
<1> DEFINE c     == r.config
           was   == r.pos
           steps == Cardinality({i \in DOMAIN inbox : IsReport(inbox[i])})
           edges == {Edge(c, p.body.slot) : p \in {s \in ToSet(inbox) : SaysSent(s)}}
           ahead == edges \union {was.mt + steps * c.budget}
           T     == {p \in PacketOf(L) : p \in ToSet(inbox)}
           Back(s) == \E e \in edges, far \in ahead : s.pos.mt >= e /\ e + c.budget < far
           Reported == \E p \in ToSet(inbox) : IsReport(p)
           S     == {s \in Replica(m) :
                       /\ InCycle(s, L) /\ s.config = c
                       /\ s.pos.running /\ s.pos.cycle = was.cycle
                       /\ Reported \/ s.pos.mt = was.mt \/ s.pos.mt \in edges
                       /\ s.pos.mt >= was.mt \/ Back(s)}
<1>0. c \in Config /\ was.mt \in Nat /\ c.budget \in Nat
  BY DEF Replica, Position, Config
<1>1. \A e \in edges : e \in Nat
  <2>1. ASSUME NEW p \in ToSet(inbox), SaysSent(p) PROVE Edge(c, p.body.slot) \in Nat
    <3>1. p \in Packet /\ p.type = "Lpdu"
      BY <2>1 DEF ToSet, PacketOf, SaysSent
    <3>2. p.body.slot \in Nat
      BY <3>1 DEF Packet, Body
    <3> QED
      BY <1>0, <3>2, EdgeIsNat
  <2> QED
    BY <2>1
<1>2. r \in S
  BY <1>0
<1>3. ASSUME NEW s \in S, NEW p \in T PROVE Consume(s, p) \in S
  <2>1. PICK t : t = Consume(s, p)
    OBVIOUS
  <2>2. s \in Replica(m) /\ InCycle(s, L) /\ s.config = c /\ s.pos.running
        /\ s.pos.cycle = was.cycle /\ p \in PacketOf(L) /\ p \in Packet /\ p \in ToSet(inbox)
    BY DEF PacketOf
  <2>3. t \in Replica(m) /\ InCycle(t, L)
    BY <2>1, <2>2, ConsumeType, ConsumeInCycle
  <2>4. s.pos.mt \in Nat /\ t.pos.mt \in Nat
    BY <2>2, <2>3 DEF Replica, Position
  <2>5. /\ p.node = Pop => p.type # "Config"
        /\ IsReport(p) => p.body.tcvr = "FrameSync" /\ p.body.cycle = s.pos.cycle
                          /\ p.body.mt = 0
    BY <2>2 DEF InCycleOf
  <2>6. /\ t.config = c /\ t.pos.running /\ t.pos.cycle = was.cycle
        /\ \/ t.pos.mt = s.pos.mt
           \/ IsReport(p) /\ t.pos.mt >= s.pos.mt
           \/ /\ SaysSent(p) /\ t.pos.mt = Edge(c, p.body.slot)
              /\ t.pos.mt > s.pos.mt \/ s.pos.mt > t.pos.mt + c.budget
    BY <2>1, <2>2, <2>5, ConsumeAdvances
  <2>7. Reported \/ s.pos.mt = was.mt \/ s.pos.mt \in edges
    OBVIOUS
  <2>8. s.pos.mt >= was.mt \/ Back(s)
    OBVIOUS
  <2>9. SaysSent(p) => Edge(c, p.body.slot) \in edges
    BY <2>2
  <2>10. IsReport(p) => Reported
    BY <2>2
  <2>11. steps * c.budget \in Nat /\ (Reported => c.budget <= steps * c.budget)
    <3>1. inbox \in Seq(Packet)
      BY DEF PacketOf
    <3>2. Reported => \E i \in DOMAIN inbox : IsReport(inbox[i])
      BY DEF ToSet
    <3> QED
      BY <1>0, <3>1, <3>2, OneStep
  <2>12. was.mt + steps * c.budget \in ahead /\ edges \subseteq ahead
    OBVIOUS
  <2> HIDE DEF edges, ahead, Reported, c, was, steps
  <2>13. Reported \/ t.pos.mt = was.mt \/ t.pos.mt \in edges
    BY <2>6, <2>7, <2>9, <2>10
  <2>14. t.pos.mt >= was.mt \/ Back(t)
    <3>1. CASE t.pos.mt >= s.pos.mt
      BY <1>0, <1>1, <2>4, <2>8, <3>1
    <3>2. CASE /\ SaysSent(p) /\ t.pos.mt = Edge(c, p.body.slot)
               /\ s.pos.mt > t.pos.mt + c.budget /\ t.pos.mt < was.mt
      <4>1. t.pos.mt \in edges
        BY <2>9, <3>2
      <4>2. \E far \in ahead : t.pos.mt + c.budget < far
        <5>1. CASE Reported
          <6>1. t.pos.mt + c.budget < was.mt + steps * c.budget
            BY <1>0, <2>4, <2>11, <3>2, <5>1
          <6> QED
            BY <2>12, <6>1
        <5>2. CASE s.pos.mt \in edges
          BY <2>12, <3>2, <5>2
        <5>3. CASE ~Reported /\ s.pos.mt = was.mt
          <6>1. t.pos.mt + c.budget < was.mt + steps * c.budget
            BY <1>0, <2>4, <2>11, <3>2, <5>3
          <6> QED
            BY <2>12, <6>1
        <5> QED
          BY <2>7, <5>1, <5>2, <5>3
      <4>3. t.pos.mt >= t.pos.mt
        BY <2>4
      <4> QED
        BY <4>1, <4>2, <4>3
    <3> QED
      BY <1>0, <2>4, <2>6, <3>1, <3>2
  <2> QED
    BY <2>1, <2>3, <2>6, <2>13, <2>14
<1>4. inbox \in Seq(T)
  <2>1. \A i \in DOMAIN inbox : inbox[i] \in T
    BY DEF ToSet
  <2> QED
    BY <2>1
<1>5. Reading!Fold(r, inbox) \in S
  <2> HIDE DEF S, T
  <2> QED
    BY <1>2, <1>3, <1>4, Reading!FoldStaysIn
<1>6. q \in S
  BY <1>5, ReadingIsFold
<1>7. q.pos.mt >= was.mt \/ Back(q)
  BY <1>6
<1> QED
  BY <1>7 DEF TakenBack

\* While the cycle goes on, the position that nodes are told does not go back,
\* unless an LPDU says that it is more than a step ahead, whatever PDUs are
\* consumed in whatever order, if what the PoP reports is of cycles of one length.
THEOREM Advancing ==
  ASSUME NEW L \in Nat, OneCycle(L)
  PROVE  Spec => EstimateAdvances
<1> DEFINE Step == \A m \in Member :
       LET was == rep[m].pos
           mt  == rep'[m].pos.mt
       IN  was.running /\ Complete(rep[m].config) /\ InCycleOf(was) /\ mt # was.mt =>
             mt > was.mt \/ TakenBack(rep[m], mt)
<1>1. Init => IInvTypes /\ IInvCycle(L)
  BY InitTypes, InitCycle
<1>2. IInvTypes /\ IInvCycle(L) /\ [Next]_vars => (IInvTypes /\ IInvCycle(L))'
  BY TypesStep, CycleStep
<1>3. IInvTypes /\ IInvCycle(L) /\ [Next]_vars => [Step]_vars
  <2> SUFFICES ASSUME IInvTypes, IInvCycle(L), [Next]_vars PROVE Step
    OBVIOUS
  <2>1. CASE ~\E m \in Member : Read(m)
    BY <2>1, NobodyReads
  <2>2. ASSUME NEW n \in Member, Read(n) PROVE Step
    <3>1. PICK k \in Index, r \in Replica(n) :
            /\ n = Members[k] /\ r = FoldLeft(Consume, rep[n], inbox) /\ Alike(rep'[n], r)
            /\ rep'[n] \in Replica(n)
            /\ \A i \in Index : i # k => rep'[Members[i]] = rep[Members[i]]
      BY <2>2, ReadStep
    <3>2. ASSUME NEW m \in Member, m # n PROVE rep'[m] = rep[m]
      BY <3>1, <3>2, MembersAre DEF Index
    <3>3. /\ rep[n] \in Replica(n) /\ InCycle(rep[n], L) /\ inbox \in Seq(PacketOf(L))
          /\ rep'[n].pos = r.pos
      BY <3>1 DEF IInvTypes, IInvCycle, Alike
    <3>4. rep[n].pos.mt \in Nat /\ r.pos.mt \in Nat
      BY <3>1, <3>3 DEF Replica, Position
    <3>5. ASSUME Complete(rep[n].config), rep[n].pos.running, InCycleOf(rep[n].pos)
          PROVE  r.pos.mt >= rep[n].pos.mt \/ TakenBack(rep[n], r.pos.mt)
      BY <3>1, <3>3, <3>5, ReadAdvances
    <3> QED
      BY <3>2, <3>3, <3>4, <3>5
  <2> QED
    BY <2>1, <2>2
<1>4. [][Step]_vars => EstimateAdvances
  BY PTL DEF EstimateAdvances
<1> QED
  BY <1>1, <1>2, <1>3, <1>4, PTL DEF Spec

-----------------------------------------------------------------------------
(***************************************************************************)
(* PDUs arrive.                                                            *)
(***************************************************************************)

LEMMA BijectionIs ==
  ASSUME NEW S, NEW T, NEW f
  PROVE  f \in Bijection(S, T) <=>
           /\ f \in [S -> T]
           /\ \A a, b \in S : f[a] = f[b] => a = b
           /\ \A y \in T : \E x \in S : f[x] = y
<1>1. ASSUME f \in [S -> T]
      PROVE  IsInjective(f) <=> \A a, b \in S : f[a] = f[b] => a = b
  BY <1>1 DEF IsInjective
<1> QED
  BY <1>1 DEF Bijection, Injection, Surjection

\* A sequence has the PDUs at certain indexes, in order.
InOrder(q, pdus, S) ==
  \E f \in Bijection(DOMAIN q, S) :
    \A i, j \in DOMAIN q : q[i] = pdus[f[i]] /\ (i < j => f[i] < f[j])

LEMMA InOrderAppend ==
  ASSUME NEW n \in Nat, NEW pdus, NEW S \in SUBSET (1 .. n), NEW q \in Seq(Packet),
         InOrder(q, pdus, S)
  PROVE  InOrder(Append(q, pdus[n + 1]), pdus, S \union {n + 1})
<1>1. PICK k \in Nat : k = Len(q)
  OBVIOUS
<1>2. DOMAIN q = 1 .. k
  BY <1>1
<1>3. PICK f \in Bijection(1 .. k, S) :
        \A i, j \in 1 .. k : q[i] = pdus[f[i]] /\ (i < j => f[i] < f[j])
  BY <1>2 DEF InOrder
<1>4. /\ f \in [1 .. k -> S]
      /\ \A a, b \in 1 .. k : f[a] = f[b] => a = b
      /\ \A y \in S : \E x \in 1 .. k : f[x] = y
  BY <1>3, BijectionIs
<1>5. PICK t : t = Append(q, pdus[n + 1])
  OBVIOUS
<1>6. DOMAIN t = 1 .. k + 1 /\ t[k + 1] = pdus[n + 1] /\ \A i \in 1 .. k : t[i] = q[i]
  BY <1>1, <1>5
<1> DEFINE g == [i \in 1 .. k + 1 |-> IF i = k + 1 THEN n + 1 ELSE f[i]]
<1>7. \A i \in 1 .. k : g[i] = f[i] /\ g[i] \in S /\ g[i] \in Nat /\ g[i] < n + 1
  <2>1. ASSUME NEW i \in 1 .. k PROVE g[i] = f[i] /\ f[i] \in S
    BY <1>4
  <2>2. \A y \in S : y \in Nat /\ y < n + 1
    OBVIOUS
  <2> HIDE DEF g
  <2> QED
    BY <2>1, <2>2
<1>8. g[k + 1] = n + 1
  OBVIOUS
<1>9. \A i \in 1 .. k + 1 : i = k + 1 \/ i \in 1 .. k
  OBVIOUS
<1>10. g \in [1 .. k + 1 -> S \union {n + 1}]
  BY <1>7, <1>9
<1> HIDE DEF g
<1>11. \A a, b \in 1 .. k + 1 : g[a] = g[b] => a = b
  BY <1>4, <1>7, <1>8, <1>9
<1>12. \A y \in S \union {n + 1} : \E x \in 1 .. k + 1 : g[x] = y
  <2>1. ASSUME NEW y \in S PROVE \E x \in 1 .. k + 1 : g[x] = y
    <3>1. PICK x \in 1 .. k : f[x] = y
      BY <1>4
    <3>2. x \in 1 .. k + 1
      OBVIOUS
    <3> QED
      BY <1>7, <3>1, <3>2
  <2>2. k + 1 \in 1 .. k + 1
    OBVIOUS
  <2> QED
    BY <1>8, <2>1, <2>2
<1>13. g \in Bijection(1 .. k + 1, S \union {n + 1})
  <2> DEFINE D == 1 .. k + 1
             T == S \union {n + 1}
  <2>1. /\ g \in [D -> T]
        /\ \A a, b \in D : g[a] = g[b] => a = b
        /\ \A y \in T : \E x \in D : g[x] = y
    BY <1>10, <1>11, <1>12
  <2> HIDE DEF D, T
  <2>2. g \in Bijection(D, T)
    BY <2>1, BijectionIs
  <2> QED
    BY <2>2 DEF D, T
<1>14. ASSUME NEW i \in 1 .. k + 1, NEW j \in 1 .. k + 1
       PROVE  t[i] = pdus[g[i]] /\ (i < j => g[i] < g[j])
  <2>1. t[i] = pdus[g[i]]
    BY <1>3, <1>6, <1>7, <1>8, <1>9
  <2>2. ASSUME i < j PROVE g[i] < g[j]
    <3>1. i \in 1 .. k
      BY <2>2
    <3>2. CASE j = k + 1
      BY <1>7, <1>8, <3>1, <3>2
    <3>3. CASE j \in 1 .. k
      BY <1>3, <1>7, <2>2, <3>1, <3>3
    <3> QED
      BY <1>9, <3>2, <3>3
  <2> QED
    BY <2>1, <2>2
<1> QED
  BY <1>5, <1>6, <1>13, <1>14 DEF InOrder

IsFor(m, p) == IF m = Pop THEN p.node # Pop ELSE p.node = Pop /\ p.pop = m

LEMMA RoutedQueue ==
  ASSUME NEW m \in Member, NEW r \in Replica(m), NEW to, NEW p
  PROVE  Routed(r, to, p).router[m] =
           IF m = to THEN Append(r.router[m], p) ELSE r.router[m]
<1>1. m \in DOMAIN r.router
  BY DEF Replica
<1> DEFINE queue(i) == IF i \in DOMAIN r.router THEN r.router[i] ELSE <<>>
           router   == [i \in DOMAIN r.router \union {p.node, to} |->
                          IF i = to THEN Append(queue(i), p) ELSE queue(i)]
<1>2. Routed(r, to, p) = [r EXCEPT !.router = router]
  BY DEF Routed
<1>3. router[m] = IF m = to THEN Append(r.router[m], p) ELSE r.router[m]
  BY <1>1
<1> HIDE DEF router
<1> QED
  BY <1>2, <1>3 DEF Replica

\* A member's own route gets the PDUs that are for it, and no other.
LEMMA ConsumeQueue ==
  ASSUME NEW m \in Member, NEW r \in Replica(m), NEW p \in Packet
  PROVE  Consume(r, p).router[m] =
           IF IsFor(m, p) THEN Append(r.router[m], p) ELSE r.router[m]
<1>1. p.type \in Types /\ p.node \in Member /\ p.pop \in Member /\ Pop \in Member
  BY MembersAre DEF Packet, Addressed
<1>2. \A to : Routed(r, to, p).router[m] =
                IF m = to THEN Append(r.router[m], p) ELSE r.router[m]
  BY RoutedQueue
<1>3. CASE p.type = "Config"
  <2>1. p.pop = Pop
    BY <1>3 DEF Packet
  <2>2. Configured(r, p.body).router = r.router
    BY DEF Configured, Replica
  <2> QED
    BY <1>2, <1>3, <2>1, <2>2 DEF Consume, ConsumeConfig, IsFor
<1>4. CASE p.type = "Status"
  <2>1. Observed(r, p.body).router = r.router
    BY DEF Observed, Replica
  <2> QED
    BY <1>2, <1>4, <2>1 DEF Consume, ConsumeStatus, IsFor
<1>5. CASE p.type = "Lpdu"
  <2>1. PICK q : q = IF p.node # Pop THEN Routed(r, Pop, p)
                     ELSE IF p.pop # Pop THEN Routed(r, p.pop, p) ELSE r
    OBVIOUS
  <2>2. q \in Replica(m)
    BY <1>1, <2>1, RoutedType
  <2>3. Adjusted(q, p).router = q.router
    BY <2>2 DEF Adjusted, Replica
  <2>4. Consume(r, p) = Adjusted(q, p)
    BY <1>5, <2>1 DEF Consume, ConsumeLpdu
  <2> QED
    BY <1>2, <2>1, <2>3, <2>4 DEF IsFor
<1> QED
  BY <1>1, <1>3, <1>4, <1>5 DEF Types

LEMMA ReadQueue ==
  ASSUME NEW m \in Member, NEW r \in Replica(m), r.router[m] = <<>>,
         NEW pdus \in Seq(Packet)
  PROVE  InOrder(FoldLeft(Consume, r, pdus).router[m], pdus,
                 {i \in DOMAIN pdus : IsFor(m, pdus[i])})
<1>1. PICK n \in Nat : n = Len(pdus)
  OBVIOUS
<1>2. DOMAIN pdus = 1 .. n /\ \A i \in 1 .. n : pdus[i] \in Packet
  BY <1>1
<1>3. PICK f : Reading!Results(f, n, r, pdus) /\ Reading!Fold(r, pdus) = f[n]
  BY <1>2, Reading!FoldIsLastResult
<1> DEFINE Mine(k) == {i \in 1 .. k : IsFor(m, pdus[i])}
           I == {k \in 0 .. n : f[k] \in Replica(m) /\ InOrder(f[k].router[m], pdus, Mine(k))}
<1>4. 0 \in I
  <2>1. f[0] = r
    BY <1>3 DEF Reading!Results
  <2>2. Mine(0) = {}
    OBVIOUS
  <2>3. DOMAIN <<>> = {}
    OBVIOUS
  <2>4. [x \in {} |-> 0] \in Bijection({}, {})
    BY BijectionIs
  <2>5. InOrder(<<>>, pdus, {})
    BY <2>3, <2>4 DEF InOrder
  <2>6. f[0].router[m] = <<>>
    BY <2>1
  <2>7. InOrder(f[0].router[m], pdus, Mine(0))
    BY <2>2, <2>5, <2>6
  <2> QED
    BY <2>1, <2>7
<1>5. ASSUME NEW k \in 0 .. n - 1, k \in I PROVE k + 1 \in I
  <2>1. k + 1 \in 0 .. n /\ k + 1 # 0 /\ (k + 1) - 1 = k /\ k \in Nat /\ pdus[k + 1] \in Packet
    BY <1>2
  <2>2. f[k + 1] = Consume(f[k], pdus[k + 1])
    BY <1>3, <2>1 DEF Reading!Results
  <2>3. f[k] \in Replica(m) /\ InOrder(f[k].router[m], pdus, Mine(k))
    BY <1>5
  <2>4. f[k + 1] \in Replica(m)
    BY <2>1, <2>2, <2>3, ConsumeType
  <2>5. f[k].router[m] \in Seq(Packet)
    BY <2>3 DEF Replica, Routes
  <2>6. InOrder(f[k + 1].router[m], pdus, Mine(k + 1))
    <3>1. CASE IsFor(m, pdus[k + 1])
      <4>1. Mine(k + 1) = Mine(k) \union {k + 1}
        BY <2>1, <3>1
      <4>2. f[k + 1].router[m] = Append(f[k].router[m], pdus[k + 1])
        BY <2>1, <2>2, <2>3, <3>1, ConsumeQueue
      <4>3. Mine(k) \in SUBSET (1 .. k)
        OBVIOUS
      <4> HIDE DEF Mine
      <4> QED
        <5>1. InOrder(Append(f[k].router[m], pdus[k + 1]), pdus, Mine(k) \union {k + 1})
          BY <2>1, <2>3, <2>5, <4>3, InOrderAppend
        <5> QED
          BY <4>1, <4>2, <5>1
    <3>2. CASE ~IsFor(m, pdus[k + 1])
      <4>1. Mine(k + 1) = Mine(k)
        BY <2>1, <3>2
      <4>2. f[k + 1].router[m] = f[k].router[m]
        BY <2>1, <2>2, <2>3, <3>2, ConsumeQueue
      <4> HIDE DEF Mine
      <4> QED
        BY <2>3, <4>1, <4>2
    <3> QED
      BY <3>1, <3>2
  <2> QED
    BY <2>1, <2>4, <2>6
<1>6. n \in I
  <2>1. n \in 0 .. n
    OBVIOUS
  <2> HIDE DEF I
  <2> QED
    BY <1>4, <1>5, <2>1, Reading!UpTo
<1>7. InOrder(Reading!Fold(r, pdus).router[m], pdus, {i \in 1 .. n : IsFor(m, pdus[i])})
  BY <1>3, <1>6
<1> QED
  BY <1>2, <1>7, ReadingIsFold

LEMMA EmissionsOfPop ==
  ASSUME NEW r \in Replica(Pop), NEW pdus \in Emissions(r)
  PROVE  pdus = r.router[Pop]
<1>1. Pop \in Member /\ r.self = Pop /\ r.router[Pop] \in Seq(FromNode)
  BY MembersAre DEF Replica
<1>2. PICK own \in Seq(FromNode) : own = r.router[Pop]
  BY <1>1
<1>3. PICK n \in Nat : n = Len(own)
  OBVIOUS
<1>4. own \in [1 .. n -> FromNode]
  BY <1>3
<1>5. pdus = [i \in 1 .. n |-> Written(Pop, own[i])]
  BY <1>1, <1>2, <1>4 DEF Emissions
<1>6. ASSUME NEW p \in FromNode PROVE Written(Pop, p) = p
  <2>1. /\ p = [type |-> p.type, node |-> p.node, pop |-> p.pop, body |-> p.body]
        /\ p.node \in Member /\ p.node # Pop
    BY DEF FromNode, Packet, Addressed
  <2> QED
    BY <1>1, <2>1, WrittenType
<1>7. pdus = own
  BY <1>4, <1>5, <1>6
<1> QED
  BY <1>2, <1>7

\* Where the PDUs of a list come from, to which a Status may have been added.
Sources(own) ==
  IF \E i \in DOMAIN own : IsStatus(own[i]) THEN DOMAIN own ELSE DOMAIN own \union {0}

Source(m, own, i) == IF i = 0 THEN NoConnection(m) ELSE own[i]

LEMMA SortsPermute ==
  ASSUME NEW pdus, NEW s \in Sorts(pdus)
  PROVE  \E f \in Bijection(DOMAIN pdus, DOMAIN pdus) : s = [i \in DOMAIN pdus |-> pdus[f[i]]]
BY DEF Sorts

LEMMA WithStatusPermutes ==
  ASSUME NEW m \in Member, NEW own \in Seq(Packet), NEW s \in WithStatus(m, own)
  PROVE  \E g \in Bijection(DOMAIN s, Sources(own)) :
           \A i \in DOMAIN s : s[i] = Source(m, own, g[i])
<1>1. PICK k \in Nat : k = Len(own)
  OBVIOUS
<1>2. DOMAIN own = 1 .. k /\ 0 \notin 1 .. k
  BY <1>1
<1>3. CASE \E i \in 1 .. k : IsStatus(own[i])
  <2>1. Sources(own) = 1 .. k
    BY <1>2, <1>3 DEF Sources
  <2>2. CASE s = own
    <3> DEFINE g == [i \in 1 .. k |-> i]
    <3>1. g \in Bijection(1 .. k, 1 .. k)
      BY BijectionIs
    <3>2. \A i \in 1 .. k : own[i] = Source(m, own, g[i])
      BY DEF Source
    <3> HIDE DEF g
    <3> QED
      BY <1>2, <2>1, <2>2, <3>1, <3>2
  <2>3. CASE s \in Sorts(own)
    <3>1. PICK f \in Bijection(1 .. k, 1 .. k) : s = [i \in 1 .. k |-> own[f[i]]]
      BY <1>2, <2>3, SortsPermute
    <3>2. \A i \in 1 .. k : f[i] \in 1 .. k /\ f[i] # 0
      BY DEF Bijection, Injection
    <3>3. \A i \in 1 .. k : s[i] = Source(m, own, f[i])
      BY <3>1, <3>2 DEF Source
    <3>4. DOMAIN s = 1 .. k
      BY <3>1
    <3> QED
      BY <2>1, <3>3, <3>4
  <2> QED
    BY <1>2, <1>3, <2>2, <2>3 DEF WithStatus
<1>4. CASE ~\E i \in 1 .. k : IsStatus(own[i])
  <2>1. Sources(own) = 1 .. k \union {0}
    BY <1>2, <1>4 DEF Sources
  <2>2. PICK more : more = Append(own, NoConnection(m))
    OBVIOUS
  <2>3. DOMAIN more = 1 .. k + 1 /\ more[k + 1] = NoConnection(m)
        /\ \A i \in 1 .. k : more[i] = own[i]
    BY <1>1, <2>2
  <2>4. s \in Sorts(more)
    BY <1>2, <1>4, <2>2 DEF WithStatus
  <2>5. PICK f \in Bijection(1 .. k + 1, 1 .. k + 1) : s = [i \in 1 .. k + 1 |-> more[f[i]]]
    BY <2>3, <2>4, SortsPermute
  <2>6. /\ f \in [1 .. k + 1 -> 1 .. k + 1]
        /\ \A a, b \in 1 .. k + 1 : f[a] = f[b] => a = b
        /\ \A y \in 1 .. k + 1 : \E x \in 1 .. k + 1 : f[x] = y
    BY DEF Bijection, Injection, Surjection, IsInjective
  <2> DEFINE g == [i \in 1 .. k + 1 |-> IF f[i] = k + 1 THEN 0 ELSE f[i]]
             T == 1 .. k \union {0}
             D == 1 .. k + 1
  <2>7. \A i \in D : f[i] # k + 1 => f[i] \in 1 .. k /\ f[i] # 0
    <3>1. ASSUME NEW x \in 1 .. k + 1, x # k + 1 PROVE x \in 1 .. k /\ x # 0
      BY <3>1
    <3>2. ASSUME NEW i \in D, f[i] # k + 1 PROVE f[i] \in 1 .. k /\ f[i] # 0
      <4>1. f[i] \in 1 .. k + 1
        BY <2>6
      <4> QED
        BY <3>1, <3>2, <4>1
    <3> QED
      BY <3>2
  <2>8. g \in [D -> T]
    BY <2>7
  <2>9. ASSUME NEW a \in D, NEW b \in D, g[a] = g[b] PROVE a = b
    <3>1. f[a] = f[b]
      BY <2>7, <2>9
    <3> QED
      BY <2>6, <3>1
  <2>10. ASSUME NEW y \in T PROVE \E x \in D : g[x] = y
    <3>1. PICK z \in 1 .. k + 1 : z = IF y = 0 THEN k + 1 ELSE y
      OBVIOUS
    <3>2. PICK x \in D : f[x] = z
      BY <2>6
    <3>3. y = 0 \/ (y # 0 /\ y # k + 1)
      OBVIOUS
    <3> QED
      BY <3>1, <3>2, <3>3
  <2>11. \A i \in D : s[i] = Source(m, own, g[i])
    <3> SUFFICES ASSUME NEW i \in D PROVE s[i] = Source(m, own, g[i])
      OBVIOUS
    <3>1. s[i] = more[f[i]]
      BY <2>5
    <3>2. CASE f[i] = k + 1
      BY <2>3, <3>1, <3>2 DEF Source
    <3>3. CASE f[i] \in 1 .. k
      <4>1. g[i] = f[i] /\ f[i] # 0
        BY <3>3
      <4> QED
        BY <2>3, <3>1, <3>3, <4>1 DEF Source
    <3> QED
      BY <2>7, <3>2, <3>3
  <2>12. g \in Bijection(D, T)
    <3> HIDE DEF g, D, T
    <3> QED
      BY <2>8, <2>9, <2>10, BijectionIs
  <2>13. DOMAIN s = D
    BY <2>5
  <2> HIDE DEF g
  <2> QED
    BY <2>1, <2>11, <2>12, <2>13
<1> QED
  BY <1>3, <1>4

\* Neither the position nor the ident of the node is content.
LEMMA EmissionsOfNode ==
  ASSUME NEW m \in Member, m # Pop, NEW r \in Replica(m), NEW pdus \in Emissions(r)
  PROVE  \E g \in Bijection(DOMAIN pdus, Sources(r.router[m])) :
           \A i \in DOMAIN pdus : Content(pdus[i]) = Content(Source(m, r.router[m], g[i]))
<1>1. r.self = m /\ r.router[m] \in Seq(Packet)
  BY DEF Replica, Routes
<1>2. PICK s \in WithStatus(m, r.router[m]) :
        pdus = [i \in DOMAIN Stamped(r, s) |-> Written(m, Stamped(r, s)[i])]
  BY <1>1 DEF Emissions
<1>3. PICK n \in Nat \ {0} : s \in [1 .. n -> Packet] /\ IsStatus(s[1])
  BY <1>1, <1>2, WithStatusFirst
<1>4. PICK q : q = Stamped(r, s)
  OBVIOUS
<1>5. /\ DOMAIN q = 1 .. n
      /\ \A i \in 1 .. n : i # 1 => q[i] = s[i]
      /\ q[1] = [s[1] EXCEPT !.body = [cycle |-> r.pos.cycle, mt |-> r.pos.mt,
                                       tcvr |-> s[1].body.tcvr]]
  BY <1>3, <1>4, StampedFirst
<1>6. pdus = [i \in 1 .. n |-> Written(m, q[i])] /\ DOMAIN s = 1 .. n
  BY <1>2, <1>3, <1>4, <1>5
<1>7. ASSUME NEW p \in Packet PROVE Content(Written(m, p)) = Content(p)
  <2>1. /\ p = [type |-> p.type, node |-> p.node, pop |-> p.pop, body |-> p.body]
        /\ p.node \in Member
    BY DEF Packet, Addressed
  <2>2. Written(m, p).type = p.type /\ Written(m, p).body = p.body /\ Written(m, p).pop = p.pop
    BY <2>1, WrittenType
  <2> QED
    BY <2>2 DEF Content, IsStatus
<1>8. ASSUME NEW i \in 1 .. n PROVE Content(pdus[i]) = Content(s[i])
  <2>1. s[i] \in Packet
    BY <1>3
  <2>2. CASE i # 1
    BY <1>5, <1>6, <1>7, <2>1, <2>2
  <2>3. CASE i = 1
    <3>1. s[1] \in Packet /\ s[1].type = "Status"
      BY <1>3, <2>1, <2>3 DEF IsStatus
    <3>2. /\ q[1].type = "Status" /\ q[1].pop = s[1].pop /\ q[1].node = s[1].node
          /\ q[1].body.tcvr = s[1].body.tcvr
          /\ q[1] = [type |-> q[1].type, node |-> q[1].node, pop |-> q[1].pop, body |-> q[1].body]
          /\ q[1].node \in Member
      BY <1>5, <3>1 DEF Packet, Addressed
    <3>3. /\ Written(m, q[1]).type = "Status" /\ Written(m, q[1]).body = q[1].body
          /\ Written(m, q[1]).pop = q[1].pop
      BY <3>2, WrittenType
    <3>4. pdus[1] = Written(m, q[1])
      BY <1>6, <2>3
    <3> QED
      BY <2>3, <3>1, <3>2, <3>3, <3>4 DEF Content, IsStatus
  <2> QED
    BY <2>2, <2>3
<1>9. PICK g \in Bijection(1 .. n, Sources(r.router[m])) :
        \A i \in 1 .. n : s[i] = Source(m, r.router[m], g[i])
  BY <1>1, <1>2, <1>6, WithStatusPermutes
<1> QED
  BY <1>6, <1>8, <1>9

\* What comes from a route comes from where the PDUs of the route come from.
WhenTold(pdus, S) == IF \E i \in S : IsStatus(pdus[i]) THEN S ELSE S \union {0}

LEMMA SourcesOfRoute ==
  ASSUME NEW own \in Seq(Packet), NEW pdus, NEW S \in SUBSET (Nat \ {0}),
         InOrder(own, pdus, S), NEW E, NEW g \in Bijection(E, Sources(own))
  PROVE  \E h \in Bijection(E, WhenTold(pdus, S)) :
           \A i \in E : /\ g[i] = 0 <=> h[i] = 0
                        /\ g[i] # 0 => own[g[i]] = pdus[h[i]]
<1>1. PICK k \in Nat : k = Len(own)
  OBVIOUS
<1>2. DOMAIN own = 1 .. k /\ 0 \notin 1 .. k /\ 0 \notin S
  BY <1>1
<1>3. PICK f \in Bijection(1 .. k, S) :
        \A i, j \in 1 .. k : own[i] = pdus[f[i]] /\ (i < j => f[i] < f[j])
  BY <1>2 DEF InOrder
<1>4. /\ f \in [1 .. k -> S]
      /\ \A a, b \in 1 .. k : f[a] = f[b] => a = b
      /\ \A y \in S : \E x \in 1 .. k : f[x] = y
  BY DEF Bijection, Injection, Surjection, IsInjective
<1>5. (\E i \in 1 .. k : IsStatus(own[i])) <=> \E i \in S : IsStatus(pdus[i])
  <2>1. \A i \in 1 .. k : own[i] = pdus[f[i]] /\ f[i] \in S
    BY <1>3, <1>4
  <2>2. ASSUME NEW i \in 1 .. k, IsStatus(own[i]) PROVE \E y \in S : IsStatus(pdus[y])
    BY <2>1, <2>2
  <2>3. ASSUME NEW y \in S, IsStatus(pdus[y]) PROVE \E i \in 1 .. k : IsStatus(own[i])
    <3>1. PICK x \in 1 .. k : f[x] = y
      BY <1>4
    <3>2. IsStatus(own[x])
      BY <2>1, <2>3, <3>1
    <3> QED
      BY <3>2
  <2> QED
    BY <2>2, <2>3
<1> DEFINE told == \E i \in S : IsStatus(pdus[i])
           T == IF told THEN S ELSE S \union {0}
<1>6. Sources(own) = IF told THEN 1 .. k ELSE (1 .. k) \union {0}
  BY <1>2, <1>5 DEF Sources
<1>7. /\ g \in [E -> Sources(own)]
      /\ \A a, b \in E : g[a] = g[b] => a = b
      /\ \A y \in Sources(own) : \E x \in E : g[x] = y
  BY DEF Bijection, Injection, Surjection, IsInjective
<1> DEFINE h == [i \in E |-> IF g[i] = 0 THEN 0 ELSE f[g[i]]]
<1> HIDE DEF told
<1>8. ASSUME NEW i \in E
      PROVE  /\ g[i] \in Sources(own)
             /\ g[i] = 0 => ~told /\ h[i] = 0
             /\ g[i] # 0 => g[i] \in 1 .. k /\ h[i] = f[g[i]] /\ h[i] \in S /\ h[i] # 0
  <2>1. g[i] \in Sources(own)
    BY <1>7
  <2>2. ASSUME g[i] = 0 PROVE ~told /\ h[i] = 0
    BY <1>2, <1>6, <2>1, <2>2
  <2>3. ASSUME g[i] # 0 PROVE g[i] \in 1 .. k /\ h[i] = f[g[i]] /\ h[i] \in S /\ h[i] # 0
    <3>1. g[i] \in 1 .. k
      BY <1>6, <2>1, <2>3
    <3>2. f[g[i]] \in S
      BY <1>4, <3>1
    <3> QED
      BY <1>2, <2>3, <3>1, <3>2
  <2> QED
    BY <2>1, <2>2, <2>3
<1>9. h \in [E -> T]
  <2>1. ASSUME NEW i \in E PROVE h[i] \in T
    BY <1>8
  <2> QED
    BY <2>1
<1> HIDE DEF h
<1>10. ASSUME NEW a \in E, NEW b \in E, h[a] = h[b] PROVE a = b
  <2>1. CASE g[a] = 0
    BY <1>7, <1>8, <1>10, <2>1
  <2>2. CASE g[a] # 0
    <3>1. g[b] # 0 /\ f[g[a]] = f[g[b]]
      BY <1>8, <1>10, <2>2
    <3>2. g[a] = g[b]
      BY <1>4, <1>8, <2>2, <3>1
    <3> QED
      BY <1>7, <3>2
  <2> QED
    BY <2>1, <2>2
<1>11. ASSUME NEW y \in T PROVE \E x \in E : h[x] = y
  <2>1. CASE y \in S
    <3>1. PICK z \in 1 .. k : f[z] = y
      BY <1>4, <2>1
    <3>2. z \in Sources(own) /\ z # 0
      BY <1>2, <1>6
    <3>3. PICK x \in E : g[x] = z
      BY <1>7, <3>2
    <3> QED
      BY <1>8, <3>1, <3>2, <3>3
  <2>2. CASE y \notin S
    <3>1. y = 0 /\ 0 \in Sources(own)
      BY <1>6, <2>2
    <3>2. PICK x \in E : g[x] = 0
      BY <1>7, <3>1
    <3> QED
      BY <1>8, <3>1, <3>2
  <2> QED
    BY <2>1, <2>2
<1>12. h \in Bijection(E, T)
  <2> HIDE DEF T
  <2> QED
    BY <1>9, <1>10, <1>11, BijectionIs
<1>13. \A i \in E : (g[i] = 0 <=> h[i] = 0) /\ (g[i] # 0 => own[g[i]] = pdus[h[i]])
  BY <1>3, <1>8
<1> QED
  BY <1>12, <1>13 DEF told, WhenTold

Arrived(m) ==
  IF m = Pop
  THEN \E f \in Bijection(DOMAIN out[Pop], For(Pop)) :
         \A i, j \in DOMAIN out[Pop] :
           out[Pop][i] = inbox[f[i]] /\ (i < j => f[i] < f[j])
  ELSE \E f \in Bijection(DOMAIN out[m], Origins(m)) : \A i \in DOMAIN out[m] :
         Content(out[m][i]) = Content(IF f[i] = 0 THEN NoConnection(m) ELSE inbox[f[i]])

\* The routes are empty before a member reads, and what it reads is what is for it.
IInvArrive ==
  /\ \A m \in Member : \A i \in DOMAIN rep[m].router : rep[m].router[i] = <<>>
  /\ \A i \in Index : HasRead(i) => Arrived(Members[i])

LEMMA InitArrive == Init => IInvArrive
<1> SUFFICES ASSUME Init PROVE IInvArrive
  OBVIOUS
<1>1. \A i \in Index : ~HasRead(i)
  BY DEF Init, HasRead
<1>2. \A m \in Member : \A i \in DOMAIN rep[m].router : rep[m].router[i] = <<>>
  BY DEF Init, ZeroReplica
<1> QED
  BY <1>1, <1>2 DEF IInvArrive

LEMMA ArrivedStays ==
  ASSUME NEW m, Arrived(m), out'[m] = out[m], inbox' = inbox
  PROVE  Arrived(m)'
<1>1. For(m)' = For(m) /\ Origins(m)' = Origins(m)
  BY DEF For, Origins
<1>2. CASE m = Pop
  <2>1. For(Pop)' = For(Pop) /\ out'[Pop] = out[Pop]
    BY <1>1, <1>2
  <2> QED
    BY <1>2, <2>1 DEF Arrived
<1>3. CASE m # Pop
  BY <1>1, <1>3 DEF Arrived
<1> QED
  BY <1>2, <1>3

LEMMA ForIs ==
  ASSUME NEW m
  PROVE  For(m) = {i \in DOMAIN inbox : IsFor(m, inbox[i])}
BY DEF For, IsFor

LEMMA ArriveStep == IInvTypes /\ IInvArrive /\ [Next]_vars => IInvArrive'
<1> SUFFICES ASSUME IInvTypes, IInvArrive, [Next]_vars PROVE IInvArrive'
  OBVIOUS
<1>1. ASSUME NEW m \in Member, Read(m) PROVE IInvArrive'
  <2>1. PICK k \in Index, r \in Replica(m) :
          /\ m = Members[k] /\ turn = [phase |-> "read", of |-> k]
          /\ turn' = [phase |-> "read", of |-> k + 1]
          /\ r = FoldLeft(Consume, rep[m], inbox)
          /\ rep'[m] = Cleared(r) /\ rep'[m] \in Replica(m) /\ Alike(rep'[m], r)
          /\ out'[m] \in Emissions(r) /\ inbox' = inbox
          /\ \A i \in Index : i # k =>
               rep'[Members[i]] = rep[Members[i]] /\ out'[Members[i]] = out[Members[i]]
    BY <1>1, ReadStep
  <2>2. Index \subseteq Nat /\ Member = {Members[i] : i \in Index} /\ Pop \in Member
    BY MembersAre DEF Index
  <2>3. \A i \in DOMAIN rep'[m].router : rep'[m].router[i] = <<>>
    BY <2>1 DEF Cleared, Replica
  <2>4. \A n \in Member : \A i \in DOMAIN rep'[n].router : rep'[n].router[i] = <<>>
    BY <2>1, <2>2, <2>3 DEF IInvArrive
  <2>5. InOrder(r.router[m], inbox, For(m))
    <3>1. rep[m] \in Replica(m) /\ rep[m].router[m] = <<>> /\ inbox \in Seq(Packet)
      BY DEF IInvTypes, IInvArrive, Replica
    <3> QED
      BY <2>1, <3>1, ReadQueue, ForIs
  <2>6. For(m)' = For(m) /\ Origins(m)' = Origins(m)
    BY <2>1 DEF For, Origins
  <2>7. Arrived(m)'
    <3>1. CASE m = Pop
      <4>1. out'[Pop] = r.router[Pop]
        BY <2>1, <3>1, EmissionsOfPop
      <4>2. For(Pop)' = For(Pop)
        BY <2>6, <3>1
      <4>3. \E f \in Bijection(DOMAIN out'[Pop], For(Pop)) :
              \A i, j \in DOMAIN out'[Pop] :
                out'[Pop][i] = inbox[f[i]] /\ (i < j => f[i] < f[j])
        BY <2>5, <3>1, <4>1 DEF InOrder
      <4> QED
        BY <2>1, <3>1, <4>2, <4>3 DEF Arrived
    <3>2. CASE m # Pop
      <4>1. PICK own \in Seq(Packet) : own = r.router[m]
        BY DEF Replica, Routes
      <4>2. PICK g \in Bijection(DOMAIN out'[m], Sources(own)) :
              \A i \in DOMAIN out'[m] :
                Content(out'[m][i]) = Content(Source(m, own, g[i]))
        BY <2>1, <3>2, <4>1, EmissionsOfNode
      <4>3. For(m) \in SUBSET (Nat \ {0})
        <5>0. inbox \in Seq(Packet)
          BY DEF IInvTypes
        <5>1. PICK n \in Nat : n = Len(inbox)
          BY <5>0
        <5>2. DOMAIN inbox = 1 .. n
          BY <5>0, <5>1
        <5> QED
          BY <5>2 DEF For
      <4>4. PICK h \in Bijection(DOMAIN out'[m], Origins(m)) :
              \A i \in DOMAIN out'[m] : /\ g[i] = 0 <=> h[i] = 0
                                        /\ g[i] # 0 => own[g[i]] = inbox[h[i]]
        <5>1. InOrder(own, inbox, For(m))
          BY <2>5, <4>1
        <5>2. \E h \in Bijection(DOMAIN out'[m], WhenTold(inbox, For(m))) :
                \A i \in DOMAIN out'[m] : /\ g[i] = 0 <=> h[i] = 0
                                          /\ g[i] # 0 => own[g[i]] = inbox[h[i]]
          BY <4>3, <5>1, SourcesOfRoute
        <5> QED
          BY <5>2 DEF Origins, WhenTold
      <4>5. \A i \in DOMAIN out'[m] :
              Content(out'[m][i]) = Content(IF h[i] = 0 THEN NoConnection(m) ELSE inbox[h[i]])
        BY <4>2, <4>4 DEF Source
      <4> QED
        BY <2>1, <2>6, <3>2, <4>5 DEF Arrived
    <3> QED
      BY <3>1, <3>2
  <2>8. ASSUME NEW i \in Index, HasRead(i)' PROVE Arrived(Members[i])'
    <3>1. CASE i = k
      BY <2>1, <2>7, <3>1
    <3>2. CASE i # k
      <4>1. HasRead(i) /\ out'[Members[i]] = out[Members[i]] /\ inbox' = inbox
        BY <2>1, <2>2, <2>8, <3>2 DEF HasRead
      <4>2. Arrived(Members[i])
        BY <4>1 DEF IInvArrive
      <4> QED
        BY <4>1, <4>2, ArrivedStays
    <3> QED
      BY <3>1, <3>2
  <2> QED
    BY <2>4, <2>8 DEF IInvArrive
<1>2. ASSUME ~\E m \in Member : Read(m) PROVE IInvArrive'
  <2>1. rep' = rep
    BY <1>2, NobodyReads
  <2>2. CASE UNCHANGED <<out, inbox, turn>>
    BY <2>1, <2>2, ArrivedStays DEF IInvArrive, HasRead
  <2>3. CASE \A i \in Index : ~HasRead(i)'
    BY <2>1, <2>3 DEF IInvArrive
  <2> QED
    BY <1>2, <2>2, <2>3, NobodyReads
<1> QED
  BY <1>1, <1>2

LEMMA ArriveImplies == IInvArrive => PdusArrive
<1> SUFFICES ASSUME IInvArrive, AllRead PROVE PdusArrive
  BY DEF PdusArrive, NodePdusReachPop, PopPdusReachNode
<1>1. ASSUME NEW m \in Member PROVE Arrived(m)
  BY AllHaveRead DEF IInvArrive
<1>2. NodePdusReachPop
  BY <1>1, MembersAre DEF Arrived, NodePdusReachPop
<1>3. PopPdusReachNode
  BY <1>1 DEF Arrived, PopPdusReachNode, Node
<1> QED
  BY <1>2, <1>3 DEF PdusArrive

\* Whatever nodes and PoP write arrives in the next step where it is meant to, and
\* nowhere else: at the PoP in the order of the exchange, at a node with a Status
\* first (__pdu_router_push, flexray_pop_bus_model_progress).
THEOREM Arrival == Spec => []PdusArrive
<1>1. Init => IInvTypes /\ IInvArrive
  BY InitTypes, InitArrive
<1>2. IInvTypes /\ IInvArrive /\ [Next]_vars => (IInvTypes /\ IInvArrive)'
  BY TypesStep, ArriveStep
<1>3. IInvTypes /\ IInvArrive => PdusArrive
  BY ArriveImplies
<1> QED
  BY <1>1, <1>2, <1>3, PTL DEF Spec
=============================================================================
