--------------------------- MODULE FlexrayBusModel ---------------------------
(***************************************************************************)
(* The FlexRay bus model of one NCodec (codec/ab/flexray/flexray.c with    *)
(* engine.c and state.c): a replica of the whole bus, which consumes the   *)
(* PDUs of all nodes and produces the PDUs of its own node.                *)
(*                                                                         *)
(* A replica is a record:                                                  *)
(*   node          m->node_ident, the node of this NCodec                  *)
(*   engine        the position and the budget, see FlexrayEngine          *)
(*   st            the node states, see FlexrayState                       *)
(*   slots         engine.slot_map: the LPDUs of each slot                 *)
(*   txrx, trace   engine.txrx_list and trace_tx_list: references to LPDUs *)
(*   inhibit       engine.inhibit_null_frames                              *)
(*                                                                         *)
(* An LPDU is a record of its configuration (node, slot, frame, dir, rep,  *)
(* base, continuous, inhibit, len), its status, payload, and the position  *)
(* (cycle, mt) and kind (null) of its last frame.  A payload is a sequence *)
(* of bytes, NoPayload the NULL pointer.                                   *)
(***************************************************************************)
EXTENDS FlexrayEngine, FlexrayState, SequencesExt

CONSTANTS
  Slot,             \* slots of the slot map
  EcuOf,            \* the ECU of each node; an ECU may have several controllers
  BitsPerMinislot,  \* bits that fit in a minislot
  HeaderBits        \* bits of a frame besides its payload (40)

ASSUME BusModelAssumption ==
  /\ Slot \subseteq Nat \ {0}
  /\ EcuOf \in [Node -> Nat]
  /\ BitsPerMinislot \in Nat \ {0}
  /\ HeaderBits \in Nat

LpduStatus == {"None", "Transmitted", "NotTransmitted", "Received", "NotReceived"}

NoPayload == <<>>

\* SelectSeq of Sequences, which has no definition to reason from.
Selected(s, Test(_)) ==
  FlattenSeq([i \in DOMAIN s |-> IF Test(s[i]) THEN <<s[i]>> ELSE <<>>])

\* Mutation: the bytes that are left are not there.
FitUnpadded(payload, len) == SubSeq(payload, 1, IF len < Len(payload) THEN len ELSE Len(payload))

\* memcpy() of the bytes that fit, memset() of the bytes that are left.
Fit(payload, len) == SubSeq(payload \o [i \in 1 .. len |-> 0], 1, len)

ZeroReplica(n) ==
  [node |-> n, engine |-> ZeroEngine, st |-> ZeroState,
   slots |-> [s \in Slot |-> <<>>], txrx |-> <<>>, trace |-> <<>>,
   inhibit |-> FALSE]

(***************************************************************************)
(* Consuming PDUs: flexray_bus_model_consume().                            *)
(***************************************************************************)

\* References are pointers into the vector of a slot.  Position 0 is a pointer
\* that may dangle: its slot's vector may have moved when it grew.
Moved(refs, slots) ==
  [i \in DOMAIN refs |-> IF refs[i].slot \in slots THEN [refs[i] EXCEPT !.pos = 0]
                         ELSE refs[i]]

(***************************************************************************)
(* process_config(): a config that is not accepted (without a usable bit   *)
(* rate, or of other parameters) leaves the engine as it is.  An accepted  *)
(* one appends its frame table to the slots, whatever they hold already.   *)
(***************************************************************************)
ProcessConfig(r, pdu) ==
  LET grows == {pdu.table[i].slot : i \in DOMAIN pdu.table}
  IN  IF ~pdu.accepted THEN r
      ELSE [r EXCEPT !.engine  = ConfigurePosition(@),
                     !.slots   = [s \in Slot |->
                                    @[s] \o Selected(pdu.table, LAMBDA l : l.slot = s)],
                     !.txrx    = Moved(@, grows),
                     !.trace   = Moved(@, grows),
                     !.inhibit = pdu.inhibit]

ConsumeConfig(r, pdu) ==
  [ProcessConfig(r, pdu) EXCEPT
     !.st = SetPocState(RegisterNode(RegisterVcn(@, pdu.vcns), pdu.node, "on"),
                        pdu.node, pdu.poc)]

\* Mutation: the LPDUs of every node are removed.
DropAllLpdus(r, n) == [r EXCEPT !.slots = [s \in Slot |-> <<>>]]

\* Mutation: the LPDUs of the node are kept.
KeepLpdus(r, n) == r

(***************************************************************************)
(* __poc_state_defaultconfig(): the LPDUs of the node's ECU are removed    *)
(* from the slots; references to them are not.                             *)
(***************************************************************************)
DropLpdus(r, n) ==
  [r EXCEPT !.slots =
     [s \in Slot |-> Selected(@[s], LAMBDA l : EcuOf[l.node] # EcuOf[n])]]

ConsumeStatus(r, pdu) ==
  LET enters == /\ pdu.node \in r.st.known
                /\ EntersDefaultConfig(r.st.poc[pdu.node], pdu.command)
      q      == IF enters THEN DropLpdus(r, pdu.node) ELSE r
  IN  [q EXCEPT !.st = PushNodeState(@, pdu.node, pdu.command)]

\* set_lpdu(), of the LPDU it found.  Only a Tx LPDU is given the payload.
SetLpdu(l, pdu) ==
  [l EXCEPT !.status  = pdu.status,
            !.payload = IF l.dir = "Tx" THEN Fit(pdu.payload, l.len) ELSE @]

\* set_lpdu(): the first LPDU of the node with this frame index.
ConsumeLpdu(r, pdu) ==
  LET i == SelectInSeq(r.slots[pdu.slot],
                       LAMBDA l : l.node = pdu.node /\ l.frame = pdu.frame)
  IN  IF i = 0 THEN r ELSE [r EXCEPT !.slots[pdu.slot][i] = SetLpdu(@, pdu)]

Consume(r, pdu) ==
  CASE pdu.type = "Config" -> ConsumeConfig(r, pdu)
    [] pdu.type = "Status" -> ConsumeStatus(r, pdu)
    [] pdu.type = "Lpdu"   -> ConsumeLpdu(r, pdu)

(***************************************************************************)
(* Processing a slot: process_slot() and the slot's part of consume_slot().*)
(***************************************************************************)
Lpdus(r) == IF r.engine.slot \in Slot THEN r.slots[r.engine.slot] ELSE <<>>

\* Mutation: base cycles are counted from 1.
InCycleFromOne(r, l) == l.rep # 0 /\ (r.engine.cycle % l.rep) + 1 = l.base

\* An LPDU without a cycle repetition is never used.
InCycle(r, l) == l.rep # 0 /\ r.engine.cycle % l.rep = l.base

\* The Tx LPDUs of this cycle, and the one that has the slot: the last one.
TxIndexes(r) == {i \in DOMAIN Lpdus(r) : Lpdus(r)[i].dir = "Tx" /\ InCycle(r, Lpdus(r)[i])}

\* Mutation: an LPDU that was transmitted does not make a null frame.
NullUntilFirstSet(r) ==
  /\ InStatic(r.engine)
  /\ \E i \in TxIndexes(r) : Lpdus(r)[i].status = "None"

\* In the static part an idle LPDU makes the frame a null frame.
IsNullFrame(r) ==
  /\ InStatic(r.engine)
  /\ \E i \in TxIndexes(r) : Lpdus(r)[i].status \in {"None", "Transmitted"}

\* Mutation: a replica follows the transmissions of its own node only.
SendsOwn(r, tx) ==
  /\ Lpdus(r)[tx].status = "NotTransmitted" /\ ~IsNullFrame(r)
  /\ Lpdus(r)[tx].node = r.node

Sends(r, tx) == Lpdus(r)[tx].status = "NotTransmitted" /\ ~IsNullFrame(r)

Stamped(r, l) == [l EXCEPT !.cycle = r.engine.cycle, !.mt = r.engine.mt]

\* Mutation: every transmission is a continuous one.
NeverTransmitted(r, l) == Stamped(r, l)

\* The LPDU of a frame that is sent.  A continuous one stays pending.
Transmitted(r, l) ==
  [Stamped(r, l) EXCEPT !.status = IF l.continuous THEN @ ELSE "Transmitted"]

\* Mutation: an LPDU receives one frame only.
ReceivesOnce(r, l) ==
  /\ l.dir = "Rx" /\ l.node = r.node
  /\ l.status = "NotReceived"
  /\ InCycle(r, l)
  /\ IsNullFrame(r) => ~l.inhibit /\ ~r.inhibit

\* The node's own Rx LPDUs of this cycle receive the frame; null frames may be
\* inhibited.
Receives(r, l) ==
  /\ l.dir = "Rx" /\ l.node = r.node
  /\ l.status \in {"NotReceived", "Received"}
  /\ InCycle(r, l)
  /\ IsNullFrame(r) => ~l.inhibit /\ ~r.inhibit

Received(r, l, sent) ==
  IF IsNullFrame(r) THEN [Stamped(r, l) EXCEPT !.null = TRUE]
  ELSE [Stamped(r, l) EXCEPT
          !.null    = FALSE,
          !.status  = "Received",
          !.payload = IF sent = NoPayload THEN Fit(@, l.len) ELSE Fit(sent, l.len)]

\* The application is informed of the transmissions of its own node.
InformsOf(r, tx) == Sends(r, tx) /\ Lpdus(r)[tx].node = r.node

\* The LPDUs of the slot after it: the sender's, then each receiver's.
AfterFrame(r, tx) ==
  [i \in DOMAIN Lpdus(r) |->
     LET l == Lpdus(r)[i]
     IN  IF i = tx /\ Sends(r, tx) THEN Transmitted(r, l)
         ELSE IF Receives(r, l) THEN Received(r, l, Lpdus(r)[tx].payload)
         ELSE l]

ProcessSlot(r) ==
  LET lpdus == Lpdus(r)
      tx    == Max(TxIndexes(r))
      refs  == [i \in DOMAIN lpdus |-> [slot |-> r.engine.slot, pos |-> i]]
  IN  IF TxIndexes(r) = {} THEN r
      ELSE [r EXCEPT
              !.slots[r.engine.slot] = AfterFrame(r, tx),
              !.txrx  = @ \o (IF InformsOf(r, tx) THEN <<refs[tx]>> ELSE <<>>)
                          \o Selected(refs, LAMBDA ref : Receives(r, lpdus[ref.pos])),
              !.trace = IF Sends(r, tx) THEN Append(@, refs[tx]) ELSE @]

\* The last pending Tx LPDU of a dynamic slot, of whatever cycle; 0 if none.
PendingTx(r) ==
  SelectLastInSeq(Lpdus(r), LAMBDA l : l.dir = "Tx" /\ l.status = "NotTransmitted")

MinislotCount(len) == (HeaderBits + 8 * len + BitsPerMinislot - 1) \div BitsPerMinislot

\* What the current slot takes of the budget, in minislots.
Minislots(r) ==
  IF InDynamic(r.engine) /\ PendingTx(r) # 0
  THEN MinislotCount(Lpdus(r)[PendingTx(r)].len) ELSE 1

HasBudget(r) == CanConsume(r.engine, Minislots(r))

\* consume_slot(), once there is a budget for the slot.
ConsumeBusSlot(r) ==
  IF AtCycleEnd(r.engine) THEN [r EXCEPT !.engine = ConsumeCycleEnd(@)]
  ELSE LET busy == InStatic(r.engine) \/ PendingTx(r) # 0
           q    == IF busy THEN ProcessSlot(r) ELSE r
       IN  [q EXCEPT !.engine = ConsumeSlot(@, Minislots(r))]

(***************************************************************************)
(* flexray_bus_model_progress(), without the loop over consume_slot().     *)
(***************************************************************************)
Synchronised(r) == r.st.bus = "FrameSync" /\ Configured(r.engine)

\* The budget of the step; the lists are cleared only when it is calculated.
BeginBusStep(r, step_ut) ==
  IF Synchronised(r)
  THEN [r EXCEPT !.engine = CalculateBudget(@, step_ut), !.txrx = <<>>, !.trace = <<>>]
  ELSE r

\* The status of an emitted LPDU PDU; "None" is not emitted.
EmittedStatus(l) ==
  CASE l.status \in {"Transmitted", "NotTransmitted"} -> "Transmitted"
    [] l.status \in {"Received", "NotReceived"}       ->
         IF l.null THEN "NotReceived" ELSE "Received"
    [] OTHER -> "None"

\* A PDU read through a reference that may dangle: anything, or a crash.
UnpredictablePdu == [status |-> "Unpredictable"]

LpduPdu(l) ==
  [slot |-> l.slot, frame |-> l.frame, status |-> EmittedStatus(l), null |-> l.null,
   cycle |-> l.cycle, mt |-> l.mt,
   payload |-> IF l.dir = "Rx" /\ ~l.null THEN l.payload ELSE NoPayload]

EmitRef(r, ref) ==
  IF ref.pos \in DOMAIN r.slots[ref.slot] THEN LpduPdu(r.slots[ref.slot][ref.pos])
  ELSE UnpredictablePdu

\* What the application reads: its node's state and the PDUs of the list.
Emit(r) ==
  [poc   |-> r.st.poc[r.node],
   tcvr  |-> r.st.tcvr[r.node],
   lpdus |-> Selected([i \in DOMAIN r.txrx |-> EmitRef(r, r.txrx[i])],
                      LAMBDA p : p.status # "None")]
=============================================================================
