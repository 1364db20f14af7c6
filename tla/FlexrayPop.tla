------------------------------ MODULE FlexrayPop ------------------------------
(***************************************************************************)
(* The bus model of an NCodec in mode=pop (flexray_pop.c).  A point of     *)
(* presence (PoP, ECU 0) connects the nodes of a cluster to an external    *)
(* controller.  The bus model of the PoP, and that of every node, routes   *)
(* PDUs between the nodes and the PoP, and estimates the position of the   *)
(* external bus from what the PoP writes.                                  *)
(*                                                                         *)
(* A replica is a record:                                                  *)
(*   self    m->node_ident: <<ECU, communication controller>>              *)
(*   router  m->pdu_router: the PDUs of each route                         *)
(*   config  m->config: ut, mt, len, count and the budget of a step        *)
(*   pos     m->status: running, cycle, mt                                 *)
(* A PDU is a record: its type, node (node_ident), pop (pop_node_ident)    *)
(* and body, of which the metadata that the bus model looks at is kept.    *)
(* ECU and SWC of a node_ident are treated alike; there are no SWCs here.  *)
(***************************************************************************)
EXTENDS Integers, SequencesExt

CONSTANT StepUt   \* microticks in a simulation step of SIM_STEP_SIZE

ASSUME PopAssumption == StepUt \in Nat

\* node_id 0: the PoP, and "no node".
Pop == <<0, 0>>

Body(type) ==
  CASE type = "Config" -> [rate : BOOLEAN, ut : Nat, mt : Nat, len : Nat, count : Nat]
    [] type = "Status" -> [cycle : Nat, mt : Nat,
                           tcvr : {"FrameSync", "NoSignal", "NoConnection"}]
    [] type = "Lpdu"   -> [slot : Nat, status : {"Transmitted", "NotTransmitted", "Received"}]

Pdu(type, node, pop, body) == [type |-> type, node |-> node, pop |-> pop, body |-> body]

ZeroReplica(n) ==
  [self   |-> n,
   router |-> [i \in {n} |-> <<>>],
   config |-> [ut |-> 0, mt |-> 0, len |-> 0, count |-> 0, budget |-> 0],
   pos    |-> [running |-> FALSE, cycle |-> 0, mt |-> 0]]

\* pdu_write(): the ECU of a PDU is kept, if it has one; its controller is
\* always that of the codec that writes it.
Written(self, p) ==
  [p EXCEPT !.node = <<IF p.node[1] # 0 THEN p.node[1] ELSE self[1], self[2]>>]

(***************************************************************************)
(* The estimated position.                                                 *)
(***************************************************************************)

\* Of a partial config the step budget is not calculated; the last one stays.
Complete(c) == c.ut # 0 /\ c.mt # 0 /\ c.len # 0 /\ c.count # 0

Configured(r, c) ==
  [r EXCEPT !.config =
     [ut |-> c.ut, mt |-> c.mt, len |-> c.len, count |-> c.count,
      budget |-> IF c.rate /\ Complete(c) THEN StepUt \div (c.ut \div c.mt) ELSE @.budget]]

Least(a, b) == IF a < b THEN a ELSE b

\* Mutation: the estimate is not kept in the cycle.
SyncedUnclamped(r, s) ==
  LET turns == s.cycle # r.pos.cycle \/ ~r.pos.running
  IN  [running |-> TRUE, cycle |-> s.cycle,
       mt |-> IF s.mt # 0 THEN s.mt ELSE IF turns THEN 0 ELSE r.pos.mt + r.config.budget]

\* A Status of the PoP in sync: a provided macrotick is taken, or else the
\* position is moved by a step, and set to 0 with a new cycle.
Synced(r, s) ==
  LET turns == s.cycle # r.pos.cycle \/ ~r.pos.running
  IN  [running |-> TRUE, cycle |-> s.cycle,
       mt |-> IF s.mt # 0 THEN s.mt
              ELSE IF turns THEN 0 ELSE Least(r.pos.mt + r.config.budget, r.config.mt)]

Observed(r, s) ==
  [r EXCEPT !.pos = IF s.tcvr = "FrameSync" THEN Synced(r, s)
                    ELSE [running |-> FALSE, cycle |-> 0, mt |-> 0]]

\* The trailing edge of a static slot, or else the end of the static part, as
\* the code has them: slots are numbered from 1, which makes it a slot too many.
Edge(c, slot) == (Least(slot, c.count) + 1) * c.len

\* Mutation: an earlier edge always takes the position back.
TooFarAtOnce(r, l) ==
  l.slot <= r.config.count /\ r.pos.mt > Edge(r.config, l.slot)

\* Only the edge of a static slot, and only by more than a step, takes the
\* position back.
TooFar(r, l) ==
  l.slot <= r.config.count /\ r.pos.mt > Edge(r.config, l.slot) + r.config.budget

\* Mutation: each node looks at its own LPDUs.
AdjustedOwn(r, p) ==
  LET edge == Edge(r.config, p.body.slot)
  IN  IF /\ p.pop = r.self /\ p.body.status = "Transmitted"
         /\ edge > r.pos.mt \/ TooFar(r, p.body)
      THEN [r EXCEPT !.pos.mt = edge] ELSE r

\* An LPDU of a node that the PoP says was transmitted.
Adjusted(r, p) ==
  LET edge == Edge(r.config, p.body.slot)
  IN  IF /\ p.pop # Pop /\ p.body.status = "Transmitted"
         /\ edge > r.pos.mt \/ TooFar(r, p.body)
      THEN [r EXCEPT !.pos.mt = edge] ELSE r

(***************************************************************************)
(* Consuming PDUs: flexray_pop_bus_model_consume().                        *)
(***************************************************************************)

\* __pdu_router_push(): the route to the origin is made as well.
Routed(r, to, p) ==
  LET queue(i) == IF i \in DOMAIN r.router THEN r.router[i] ELSE <<>>
  IN  [r EXCEPT !.router =
         [i \in DOMAIN r.router \union {p.node, to} |->
            IF i = to THEN Append(queue(i), p) ELSE queue(i)]]

ConsumeLpdu(r, p) ==
  LET routed == IF p.node # Pop THEN Routed(r, Pop, p)
                ELSE IF p.pop # Pop THEN Routed(r, p.pop, p)
                ELSE r
  IN  Adjusted(routed, p)

\* Mutation: a Status for a node is taken for one of a node.
ConsumeStatusToPop(r, p) ==
  IF p.node # Pop \/ p.pop # Pop THEN Routed(r, Pop, p) ELSE Observed(r, p.body)

ConsumeStatus(r, p) ==
  IF p.node # Pop THEN Routed(r, Pop, p)
  ELSE IF p.pop # Pop THEN Routed(r, p.pop, p)
  ELSE Observed(r, p.body)

ConsumeConfig(r, p) ==
  IF p.node # Pop THEN Routed(r, Pop, p) ELSE Configured(r, p.body)

Consume(r, p) ==
  CASE p.type = "Config" -> ConsumeConfig(r, p)
    [] p.type = "Status" -> ConsumeStatus(r, p)
    [] p.type = "Lpdu"   -> ConsumeLpdu(r, p)

(***************************************************************************)
(* Producing PDUs: flexray_pop_bus_model_progress().                       *)
(***************************************************************************)
IsStatus(p) == p.type = "Status"

\* vector_sort() by __pdu_status_first(): in which order PDUs follow that the
\* comparison does not tell apart is not defined.
Sorts(pdus) ==
  {s \in {[i \in DOMAIN pdus |-> pdus[f[i]]] : f \in Bijection(DOMAIN pdus, DOMAIN pdus)} :
     \A i, j \in DOMAIN s : IsStatus(s[j]) /\ ~IsStatus(s[i]) => j < i}

\* The Status of a route that has none.
NoConnection(n) ==
  Pdu("Status", n, Pop, [cycle |-> 0, mt |-> 0, tcvr |-> "NoConnection"])

\* Mutation: the Status that is added stays behind the other PDUs.
WithStatusUnsorted(n, pdus) ==
  IF \E i \in DOMAIN pdus : IsStatus(pdus[i])
  THEN IF IsStatus(pdus[1]) THEN {pdus} ELSE Sorts(pdus)
  ELSE {Append(pdus, NoConnection(n))}

\* Mutation: the list is not searched for a Status that is not the first.
WithStatusAdded(n, pdus) ==
  IF pdus # <<>> /\ IsStatus(pdus[1]) THEN {pdus}
  ELSE Sorts(Append(pdus, NoConnection(n)))

\* What the list of a node may be made: a Status first.
WithStatus(n, pdus) ==
  IF \E i \in DOMAIN pdus : IsStatus(pdus[i])
  THEN IF IsStatus(pdus[1]) THEN {pdus} ELSE Sorts(pdus)
  ELSE Sorts(Append(pdus, NoConnection(n)))

\* Just the first Status gets the position.
Stamped(r, pdus) ==
  [pdus EXCEPT ![1].body = [@ EXCEPT !.cycle = r.pos.cycle, !.mt = r.pos.mt]]

\* What a replica may emit.  The lists of other nodes are completed likewise,
\* and cleared.
Emissions(r) ==
  LET own == r.router[r.self]
  IN  {[i \in DOMAIN pdus |-> Written(r.self, pdus[i])] :
         pdus \in IF r.self = Pop THEN {own}
                  ELSE {Stamped(r, s) : s \in WithStatus(r.self, own)}}

\* __pdu_router_clear(): the routes stay.
Cleared(r) == [r EXCEPT !.router = [i \in DOMAIN @ |-> <<>>]]
=============================================================================
