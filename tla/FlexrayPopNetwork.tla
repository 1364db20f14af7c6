--------------------------- MODULE FlexrayPopNetwork ---------------------------
(***************************************************************************)
(* A cluster of NCodecs in mode=pop on a SimBus: nodes, and the point of   *)
(* presence with the application that connects it to an external           *)
(* controller.  In every simulation step each member reads what all wrote  *)
(* in the last step, truncates its stream, and writes.                     *)
(*                                                                         *)
(* The applications are the environment.  Nodes write their commands (a    *)
(* Status) and other PDUs; the application of the PoP answers every        *)
(* command it reads with a Status for the node it read it of, and reports  *)
(* the external bus as it likes.  Members share nothing between two        *)
(* exchanges: one reads after the other, then one writes after the other.  *)
(***************************************************************************)
EXTENDS FlexrayPop

CONSTANTS
  Members,   \* the idents of PoP and nodes, in the order the SimBus has them
  NodePdus,  \* types and bodies of PDUs that each node writes, besides commands
  PopPdus,   \* PDUs that the application of the PoP writes, besides answers
  MaxPut     \* bound on the PDUs a member writes in a step

ASSUME PopNetworkAssumption ==
  \* one controller, 0, in an ECU: what a replica emits carries the controller
  \* of the codec that emits it (Written), whoever wrote it
  /\ Members \in Seq(Nat \X {0}) /\ IsInjective(Members) /\ Pop \in ToSet(Members)
  /\ DOMAIN NodePdus = ToSet(Members) \ {Pop}
  /\ \A p \in PopPdus \union UNION Range(NodePdus) :
       p.type \in {"Config", "Status", "Lpdu"} /\ p.body \in Body(p.type)
  /\ \A p \in PopPdus :
       /\ p.pop \in ToSet(Members)
       \* a Config is not for a node, and not of microticks that are longer
       \* than macroticks: the code would divide by zero
       /\ p.type = "Config" => p.pop = Pop /\ p.body.ut >= p.body.mt
  /\ MaxPut \in [ToSet(Members) -> Nat]

VARIABLES
  rep,      \* the replica of each member
  out,      \* what each member read from its replica in this step
  inbox,    \* the PDUs of the last step, the same for every member
  wire,     \* the PDUs each member wrote in this step
  turn,     \* the phase of the step, and the member whose turn it is
  asked,    \* nodes of which the PoP read a command it has still to answer
  waiting   \* nodes that wrote a command and have not read an answer

vars == <<rep, out, inbox, wire, turn, asked, waiting>>

Member == ToSet(Members)
Node == Member \ {Pop}

Command == [cycle |-> 0, mt |-> 0, tcvr |-> "NoConnection"]

Init ==
  /\ rep = [m \in Member |-> ZeroReplica(m)]
  /\ out = [m \in Member |-> <<>>]
  /\ inbox = <<>>
  /\ wire = [m \in Member |-> <<>>]
  /\ turn = [phase |-> "write", of |-> 1]
  /\ asked = {}
  /\ waiting = {}

Has(m, phase) ==
  turn.phase = phase /\ turn.of <= Len(Members) /\ Members[turn.of] = m

NextTurn == turn' = [turn EXCEPT !.of = @ + 1]

\* The nodes whose commands are among PDUs that the PoP read.
Asking(pdus) == {p.node : p \in {q \in ToSet(pdus) : IsStatus(q)}}

\* An answer of the controller, in contrast to the Status of the bus model.
IsAnswer(p) == IsStatus(p) /\ p.body.tcvr # "NoConnection"

\* ncodec_read() until -ENOMSG: all PDUs are consumed, the bus progresses, and
\* what it produced is read.
Read(m) ==
  /\ Has(m, "read")
  /\ \E r \in {FoldLeft(Consume, rep[m], inbox)} : \E pdus \in Emissions(r) :
       /\ rep' = [rep EXCEPT ![m] = Cleared(r)]
       /\ out' = [out EXCEPT ![m] = pdus]
       /\ asked' = IF m = Pop THEN Asking(pdus) ELSE asked
       /\ waiting' = IF m # Pop /\ \E p \in ToSet(pdus) : IsAnswer(p)
                     THEN waiting \ {m} ELSE waiting
  /\ NextTurn
  /\ UNCHANGED <<inbox, wire>>

\* ncodec_truncate() of every member, which may write then.
Truncate ==
  /\ turn = [phase |-> "read", of |-> Len(Members) + 1]
  /\ out' = [m \in Member |-> <<>>]
  /\ inbox' = <<>>
  /\ turn' = [phase |-> "write", of |-> 1]
  /\ UNCHANGED <<rep, wire, asked, waiting>>

Put(m, p) ==
  /\ Has(m, "write")
  /\ wire' = [wire EXCEPT ![m] = Append(@, Written(m, p))]
  /\ UNCHANGED <<rep, out, inbox, turn>>

WriteCommand(n) ==
  /\ n \in Node \ waiting /\ Len(wire[n]) < MaxPut[n]
  /\ Put(n, Pdu("Status", Pop, Pop, Command))
  /\ waiting' = waiting \union {n}
  /\ UNCHANGED asked

WriteNode(n, p) ==
  /\ n \in Node /\ Len(wire[n]) < MaxPut[n]
  /\ Put(n, Pdu(p.type, Pop, Pop, p.body))
  /\ UNCHANGED <<asked, waiting>>

\* The answer of the controller, before anything else that the PoP writes.
WriteAnswer(n) ==
  /\ Put(Pop, Pdu("Status", Pop, n, [cycle |-> 0, mt |-> 0, tcvr |-> "FrameSync"]))
  /\ asked' = asked \ {n}
  /\ UNCHANGED waiting

WritePop(p) ==
  /\ asked = {} /\ Len(wire[Pop]) < MaxPut[Pop]
  /\ Put(Pop, Pdu(p.type, Pop, p.pop, p.body))
  /\ UNCHANGED <<asked, waiting>>

\* ncodec_flush().
Flush(m) ==
  /\ Has(m, "write")
  /\ m = Pop => asked = {}
  /\ NextTurn
  /\ UNCHANGED <<rep, out, inbox, wire, asked, waiting>>

\* The SimBus concatenates the streams; every member gets them all.
Exchange ==
  /\ turn = [phase |-> "write", of |-> Len(Members) + 1]
  /\ inbox' = FlattenSeq([i \in DOMAIN Members |-> wire[Members[i]]])
  /\ wire' = [m \in Member |-> <<>>]
  /\ turn' = [phase |-> "read", of |-> 1]
  /\ UNCHANGED <<rep, out, asked, waiting>>

Next ==
  \/ \E m \in Member : Read(m) \/ Flush(m)
  \/ \E n \in Node : WriteCommand(n)
  \/ \E n \in asked : WriteAnswer(n)
  \/ \E n \in Node : \E p \in NodePdus[n] : WriteNode(n, p)
  \/ \E p \in PopPdus : WritePop(p)
  \/ Truncate
  \/ Exchange

\* The simulation goes on: the members take their turns in every step, and the
\* PoP answers what it read before its turn is over.
Proceed == turn' \in [phase : {"read", "write"}, of : 1 .. Len(Members) + 1]

Spec == Init /\ [][Next]_vars /\ WF_turn(Proceed)

-----------------------------------------------------------------------------
(***************************************************************************)
(* Properties.                                                             *)
(***************************************************************************)

\* Types; a router has the routes of its own member and of those that wrote, and
\* an estimate does not leave the cycle, if the slots are those of the cycle.
TypeOK ==
  /\ \A m \in Member :
       /\ rep[m].self = m
       /\ m \in DOMAIN rep[m].router /\ DOMAIN rep[m].router \subseteq Member
       /\ rep[m].pos \in [running : BOOLEAN, cycle : Nat, mt : Nat]
       /\ LET c == rep[m].config
          IN  Complete(c) /\ Edge(c, c.count) <= c.mt => rep[m].pos.mt <= c.mt
       /\ \A p \in ToSet(out[m] \o wire[m]) : p.node \in Member /\ p.pop \in Member
  /\ asked \subseteq Node /\ waiting \subseteq Node

AllRead == turn = [phase |-> "read", of |-> Len(Members) + 1]

\* The PDUs of the last step that are for a member.
For(m) ==
  {i \in DOMAIN inbox : IF m = Pop THEN inbox[i].node # Pop
                        ELSE inbox[i].node = Pop /\ inbox[i].pop = m}

\* What the application of the PoP reads in a step is what the nodes wrote in
\* the last one: every PDU once, in order, with the ident of its node.
NodePdusReachPop ==
  AllRead => \E f \in Bijection(DOMAIN out[Pop], For(Pop)) :
    \A i, j \in DOMAIN out[Pop] :
      out[Pop][i] = inbox[f[i]] /\ (i < j => f[i] < f[j])

\* A PDU without what the bus model of a node makes of it.
Content(p) ==
  [type |-> p.type, pop |-> p.pop,
   body |-> IF IsStatus(p) THEN [tcvr |-> p.body.tcvr] ELSE p.body]

\* Where what a node reads comes from: 0 is the NoConnection, which is added only
\* if no Status is there.
Origins(n) == IF \E i \in For(n) : IsStatus(inbox[i]) THEN For(n) ELSE For(n) \union {0}

\* What a node reads in a step is what the PoP addressed to it in the last one,
\* every PDU once, in whatever order.
PopPdusReachNode ==
  AllRead => \A n \in Node :
    \E f \in Bijection(DOMAIN out[n], Origins(n)) : \A i \in DOMAIN out[n] :
      Content(out[n][i]) = Content(IF f[i] = 0 THEN NoConnection(n) ELSE inbox[f[i]])

\* What PoP and nodes write arrives in the next step: nothing of it is lost,
\* doubled, or read by another node (__pdu_router_push, progress).
PdusArrive == NodePdusReachPop /\ PopPdusReachNode

\* The first PDU that a node reads in a step is a Status, and it tells every
\* node the same position of the bus.
StatusFirst ==
  AllRead => \A n \in Node :
    /\ out[n] # <<>> /\ IsStatus(out[n][1])
    /\ out[n][1].body.cycle = rep[Pop].pos.cycle
    /\ out[n][1].body.mt = rep[Pop].pos.mt

\* The replicas estimate the position alike, each from its own stream, whoever
\* the PDUs are for.
ReplicasAgree ==
  AllRead => \A m \in Member :
    rep[m].pos = rep[Pop].pos /\ rep[m].config = rep[Pop].config

\* A PDU by which the PoP reports the bus, and one by which it says to a node that
\* an LPDU was sent.
IsReport(p) == p.type = "Status" /\ p.node = Pop /\ p.pop = Pop
SaysSent(p) == p.type = "Lpdu" /\ p.pop # Pop /\ p.body.status = "Transmitted"

\* The PoP has only said that the cycle goes on.
InCycleOf(pos) ==
  \A p \in ToSet(inbox) :
    /\ p.node = Pop => p.type # "Config"
    /\ IsReport(p) => p.body.tcvr = "FrameSync" /\ p.body.cycle = pos.cycle /\ p.body.mt = 0

\* Where an LPDU said that the bus is, at mt or before, while a replica has been more
\* than a step ahead.
TakenBack(r, mt) ==
  LET steps == Cardinality({i \in DOMAIN inbox : IsReport(inbox[i])})
      edges == {Edge(r.config, p.body.slot) : p \in {q \in ToSet(inbox) : SaysSent(q)}}
      ahead == edges \union {r.pos.mt + steps * r.config.budget}
  IN  \E e \in edges, far \in ahead : mt >= e /\ e + r.config.budget < far

\* While the cycle goes on, the position that nodes are told does not go back,
\* unless an LPDU says that it is more than a step ahead.
EstimateAdvances ==
  [][\A m \in Member :
       LET was == rep[m].pos
           mt  == rep'[m].pos.mt
       IN  was.running /\ Complete(rep[m].config) /\ InCycleOf(was) /\ mt # was.mt =>
             mt > was.mt \/ TakenBack(rep[m], mt)]_vars

\* A command of a node is answered by the controller.
CommandAnswered == \A n \in Node : n \in waiting ~> n \notin waiting
=============================================================================
