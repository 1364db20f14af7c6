---------------------------- MODULE FlexrayNetwork ----------------------------
(***************************************************************************)
(* A FlexRay cluster of NCodecs on a SimBus.  In each simulation step each *)
(* NCodec reads the PDUs that all nodes wrote in the last step, advances   *)
(* its replica of the bus, and its application reads what the replica      *)
(* emits and may write a PDU for the next step.  The SimBus combines what  *)
(* was written to one buffer, the input of every node in the next step.    *)
(*                                                                         *)
(* The applications are the environment: they configure their node, set    *)
(* their Tx LPDUs, set Rx LPDUs to be received again as a PDU network does *)
(* with those that it got, halt and restart their node as its reported POC *)
(* state asks for, and command a passive node back into the traffic.       *)
(***************************************************************************)
EXTENDS FlexrayBusModel

CONSTANTS
  FrameTable,   \* the LPDUs of each node's Config PDU, a sequence per node
  Rearming,     \* the nodes whose application is a PDU network
  Inhibit,      \* inhibit_null_frames of each node's Config PDU
  Payload,      \* payloads the applications write
  StepUt,       \* microticks in a simulation step, at most a cycle
  MaxWrites,    \* bound on the Lpdu PDUs written by each node
  MaxHalts,     \* bound on the times each node is halted
  MaxRefusals   \* bound on the Config PDUs of each node that are refused

\* A longer step could reach a slot twice; the README says what happens then.
ASSUME NetworkAssumption ==
  /\ StartIndex = {0}
  /\ StepUt \in 1 .. MicrotickPerCycle
  /\ FrameTable \in [Node -> Seq([node : Node, slot : Slot, frame : Nat,
                                  dir : {"Tx", "Rx"}, rep : Nat, base : Nat,
                                  continuous : BOOLEAN, inhibit : BOOLEAN,
                                  len : Nat \ {0}, status : LpduStatus,
                                  payload : {NoPayload}, cycle : {0}, mt : {0},
                                  null : {FALSE}])]
  /\ \A n \in Node : \A l \in ToSet(FrameTable[n]) : l.node = n
  /\ Rearming \subseteq Node
  /\ Payload \subseteq Seq(Nat)
  /\ Inhibit \in [Node -> BOOLEAN]
  /\ {MaxWrites, MaxHalts, MaxRefusals} \subseteq [Node -> Nat]

VARIABLES
  rep,     \* the replica of each node
  out,     \* what each application read from its replica in this step
  inbox,   \* the PDUs of the last step, the same for every node
  wire,    \* the PDUs written in this step
  todo,    \* nodes that have still to run in this step
  silent,  \* nodes that have not written in this step
  due,     \* LPDUs an application set that it was not told were transmitted
  app      \* of each application: configured, PDUs written, halts, refusals

vars == <<rep, out, inbox, wire, todo, silent, due, app>>

Init ==
  /\ rep = [n \in Node |-> ZeroReplica(n)]
  /\ out = [n \in Node |-> Emit(ZeroReplica(n))]
  /\ inbox = <<>>
  /\ wire = <<>>
  /\ todo = {}
  /\ silent = Node
  /\ due = [n \in Node |-> {}]
  /\ app = [n \in Node |-> [configured |-> FALSE, writes |-> 0, halts |-> 0, refusals |-> 0]]

InSync(n) == rep[n].st.bus = "FrameSync"

\* The LPDU PDUs of a status that a replica emitted in this step.
Emitted(n, status) == {p \in ToSet(out[n].lpdus) : p.status = status}

\* The Rx LPDUs for which it emitted a frame.
ReceivedOf(n) == Selected(out[n].lpdus, LAMBDA p : p.status = "Received")

\* LPDUs, and PDUs about them, are known to the application by slot and frame.
Ids(lpdus) == {<<l.slot, l.frame>> : l \in lpdus}

\* The loop `for (; consume_slot(m) == 0;)`.  A slot takes from the budget; the
\* end of a cycle may take nothing, but a slot follows it.
ConsumeSlots(r) ==
  FoldLeft(LAMBDA q, i : IF HasBudget(q) THEN ConsumeBusSlot(q) ELSE q,
           r, [i \in 1 .. 2 * r.engine.ut + 1 |-> i])

\* flexray_bus_model_progress().
Progress(r) ==
  LET from  == CHOOSE f \in Starts : TRUE
      begun == BeginBusStep([r EXCEPT !.st = CalculateBusCondition(@, from)], StepUt)
  IN  IF Synchronised(begun) THEN ConsumeSlots(begun) ELSE begun

\* _next_pdu(): all PDUs of the step are consumed, then the bus progresses.
Run(n) ==
  /\ n \in todo
  /\ rep' = [rep EXCEPT ![n] = Progress(FoldLeft(Consume, @, inbox))]
  /\ out' = [out EXCEPT ![n] = Emit(rep'[n])]
  /\ todo' = todo \ {n}
  /\ due' = [due EXCEPT ![n] = IF InSync(n)' THEN @ \ Ids(Emitted(n, "Transmitted")') ELSE @]
  /\ UNCHANGED <<inbox, wire, silent, app>>

\* pdunet_flexray_lpdu_tx(): the Rx LPDUs that a PDU network has read are set to
\* be received again, without a payload.
Rearmed(n) ==
  IF n \notin Rearming THEN <<>>
  ELSE [i \in DOMAIN ReceivedOf(n) |->
          [type |-> "Lpdu", node |-> n, slot |-> ReceivedOf(n)[i].slot,
           frame |-> ReceivedOf(n)[i].frame, status |-> "NotReceived",
           payload |-> NoPayload]]

\* The application writes, once in a step, after it has read.
Write(n, pdus) ==
  /\ n \in silent \ todo
  /\ wire' = wire \o pdus \o Rearmed(n)
  /\ silent' = silent \ {n}
  /\ UNCHANGED <<rep, out, inbox, todo>>

StatusPdu(n, command) == [type |-> "Status", node |-> n, command |-> command]

ConfigPdu(n, accepted) ==
  [type |-> "Config", node |-> n, accepted |-> accepted, vcns |-> {},
   poc |-> "NormalActive", table |-> FrameTable[n], inhibit |-> Inhibit[n]]

\* The first Config; a refused one, say without a bit rate, is sent again.
WriteConfig(n, accepted) ==
  /\ ~app[n].configured
  /\ ~accepted => app[n].refusals < MaxRefusals[n]
  /\ Write(n, <<ConfigPdu(n, accepted)>>)
  /\ app' = [app EXCEPT ![n].configured = accepted,
                        ![n].refusals = IF accepted THEN @ ELSE @ + 1]
  /\ UNCHANGED due

WriteLpdu(n, l, payload) ==
  /\ app[n].configured
  /\ app[n].writes < MaxWrites[n]
  /\ l.dir = "Tx"
  /\ Write(n, <<[type |-> "Lpdu", node |-> n, slot |-> l.slot, frame |-> l.frame,
                 status |-> "NotTransmitted", payload |-> payload]>>)
  /\ app' = [app EXCEPT ![n].writes = @ + 1]
  /\ due' = [due EXCEPT ![n] = @ \union Ids({l})]

\* A PDU network that has nothing else to write.
WriteRearm(n) ==
  /\ Rearmed(n) # <<>>
  /\ Write(n, <<>>)
  /\ UNCHANGED <<due, app>>

WriteHalt(n) ==
  /\ out[n].poc = "NormalActive"
  /\ app[n].halts < MaxHalts[n]
  /\ Write(n, <<StatusPdu(n, "Halt")>>)
  /\ app' = [app EXCEPT ![n].halts = @ + 1]
  /\ UNCHANGED due

\* A halted node is brought to DefaultConfig and configured again; what it had
\* set is gone.
WriteRestart(n) ==
  /\ out[n].poc = "Halt"
  /\ Write(n, <<StatusPdu(n, "Config"), ConfigPdu(n, TRUE)>>)
  /\ app' = [app EXCEPT ![n].configured = TRUE]
  /\ due' = [due EXCEPT ![n] = {}]

\* A node that was demoted is commanded back into the traffic.
WriteRejoin(n) ==
  /\ out[n].poc \in Joining
  /\ Write(n, <<StatusPdu(n, "Nop")>>)
  /\ UNCHANGED <<due, app>>

\* The SimBus exchanges the buffers: the next step begins.
Exchange ==
  /\ todo = {}
  /\ inbox' = wire
  /\ wire' = <<>>
  /\ todo' = Node
  /\ silent' = Node
  /\ UNCHANGED <<rep, out, due, app>>

Next ==
  \/ \E n \in Node : Run(n)
  \/ \E n \in Node, accepted \in BOOLEAN : WriteConfig(n, accepted)
  \/ \E n \in Node : \E l \in ToSet(FrameTable[n]), p \in Payload : WriteLpdu(n, l, p)
  \/ \E n \in Node : WriteRearm(n) \/ WriteHalt(n) \/ WriteRestart(n) \/ WriteRejoin(n)
  \/ Exchange

(***************************************************************************)
(* The simulation goes on: nodes run and buffers are exchanged again and   *)
(* again.  In every state a Run or the Exchange is enabled and just these  *)
(* change todo, so their fairness is that of Turn (whose ENABLED, unlike   *)
(* theirs, TLC decides without advancing a replica).  The applications owe *)
(* nothing.                                                                *)
(***************************************************************************)
Turn == todo' \in SUBSET Node

Spec == Init /\ [][Next]_vars /\ WF_todo(Turn)

-----------------------------------------------------------------------------
(***************************************************************************)
(* Properties.                                                             *)
(***************************************************************************)

TypeOK ==
  /\ \A n \in Node :
       /\ rep[n].node = n
       /\ rep[n].engine \in Engine
       /\ rep[n].st \in NodeStates
       /\ \A s \in Slot : \A l \in ToSet(rep[n].slots[s]) :
            /\ l.slot = s /\ l.status \in LpduStatus
            /\ l.payload = NoPayload \/ Len(l.payload) = l.len
  /\ todo \subseteq Node
  /\ silent \subseteq Node
  /\ \A n \in Node : due[n] \subseteq Ids(ToSet(FrameTable[n]))

\* What all replicas should see alike: everything but the LPDUs they receive,
\* and the references to them.
View(r) ==
  [engine |-> r.engine, st |-> r.st, trace |-> r.trace, inhibit |-> r.inhibit,
   tx |-> [s \in Slot |-> Selected(r.slots[s], LAMBDA l : l.dir = "Tx")]]

\* No node ever sends its replica to another: they agree on the position, the
\* node states and every Tx LPDU because each follows all nodes' PDUs alike.
ReplicasAgree == todo = {} => \A n, m \in Node : View(rep[n]) = View(rep[m])

LpdusOf(r, n) == UNION {{l \in ToSet(r.slots[s]) : l.node = n} : s \in Slot}

SameFrame(p, q) == p.slot = q.slot /\ p.cycle = q.cycle /\ p.mt = q.mt

\* A frame that one replica reports as transmitted, every other replica
\* receives in the same step, slot and cycle, with the sender's payload.
FramesDelivered ==
  todo = {} =>
    \A n, m \in Node : InSync(n) =>
      \A p \in Emitted(n, "Transmitted") : \A l \in LpdusOf(rep[m], m) :
        l.dir = "Rx" /\ l.slot = p.slot /\ l.rep # 0 /\ p.cycle % l.rep = l.base =>
          \E q \in Emitted(m, "Received"), t \in LpdusOf(rep[n], n) :
            /\ SameFrame(p, q) /\ q.frame = l.frame
            /\ t.slot = p.slot /\ t.frame = p.frame
            /\ q.payload = Fit(t.payload, l.len)

\* A frame that is reported as received was transmitted in this step.
NoGhostFrames ==
  todo = {} =>
    \A n \in Node : InSync(n) =>
      \A q \in Emitted(n, "Received") :
        \E m \in Node : \E p \in Emitted(m, "Transmitted") : SameFrame(p, q)

Continuous(n) == Ids({l \in ToSet(FrameTable[n]) : l.dir = "Tx" /\ l.continuous})

\* A single shot LPDU is transmitted once for every time it is set: a node is
\* told of a transmission only while it waits for one.
TransmittedOnce ==
  [][\A n \in todo \ todo' : InSync(n)' =>
       Ids(Emitted(n, "Transmitted")') \subseteq due[n] \union Continuous(n)]_vars

\* A node that is restarted does not leave LPDUs of its earlier life behind:
\* set_lpdu() would set those, and the slot would send others.
NoDuplicateLpdus ==
  \A n, m \in Node, s \in Slot :
    \A i, j \in DOMAIN rep[n].slots[s] :
      /\ rep[n].slots[s][i].node = m /\ rep[n].slots[s][j].node = m
      /\ rep[n].slots[s][i].frame = rep[n].slots[s][j].frame
      => i = j

\* Only the restart of a node takes LPDUs of that node away, not that of
\* another node.
RestartKeepsOthers ==
  [][\A n \in todo \ todo', m \in Node :
       StatusPdu(m, "Config") \notin ToSet(inbox) =>
         Ids(LpdusOf(rep[n], m)) \subseteq Ids(LpdusOf(rep[n], m)')]_vars

\* Once the bus stays in sync, an LPDU of the static part that was set is
\* transmitted, whatever else the bus carries.
PendingTransmitted ==
  \A n \in Node : \A l \in ToSet(FrameTable[n]) :
    l.dir = "Tx" /\ ~l.continuous /\ l.slot <= StaticSlotCount =>
      (<>[]InSync(n) => []<>(Ids({l}) \cap due[n] = {}))

\* Without sync the bus carries nothing.
NoTrafficWithoutSync ==
  todo = {} => \A n \in Node : ~InSync(n) => out[n].lpdus = <<>>
=============================================================================
