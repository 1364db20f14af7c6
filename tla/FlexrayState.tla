---------------------------- MODULE FlexrayState ----------------------------
(***************************************************************************)
(* The node states of the FlexRay bus model (codec/ab/flexray/state.c):    *)
(* POC commands change the POC state of a node, the POC state decides what *)
(* its transceiver puts on the bus, the transceivers of all nodes make the *)
(* bus condition, and the bus condition reflects on the POC states.        *)
(*                                                                         *)
(* Every NCodec keeps the states of all nodes, so they are one record:     *)
(*                                                                         *)
(*   known        the nodes in state.node_state                            *)
(*   poc, tcvr    poc_state and tcvr_state; of a node that is not known    *)
(*                what get_node_state() returns, a zeroed FlexrayNodeState *)
(*   vcs          the virtual coldstart nodes in state.vcs_node            *)
(*   bus          state.bus_condition                                      *)
(***************************************************************************)
EXTENDS Integers, FiniteSets

CONSTANTS
  Node,        \* node identifiers, consolidated (swc_id 0); ordered as in the vector
  StartIndex   \* where a loop `for (size_t i = i; ...)` may start, see Starts

ASSUME StateAssumption ==
  /\ Node \subseteq Nat /\ IsFiniteSet(Node)
  /\ StartIndex \subseteq Nat

PocState == {"DefaultConfig", "Config", "Ready", "Wakeup", "Startup",
             "NormalActive", "NormalPassive", "Halt", "Freeze", "Undefined"}

TcvrState == {"None", "NoPower", "NoConnection", "NoSignal", "CAS", "WUP",
              "FrameSync", "FrameError"}

PocCommand == {"None", "Config", "Ready", "Wakeup", "Run", "AllSlots", "Halt",
               "Freeze", "AllowColdstart", "Nop"}

\* The virtual coldstart nodes a Config PDU with a vcn_count of k registers:
\* decoding gives them the identifier of the node with swc_id 1 and 2.
Vcn == Node \X (1 .. 2)

\* Mutation: swc_id counts from 0, which identifies the node itself.
VcnsFromZero(n, k) == {<<n, i - 1>> : i \in 1 .. k}

VcnsOf(n, k) == {<<n, i>> : i \in 1 .. k}

NodeStates ==
  [known : SUBSET Node, poc : [Node -> PocState], tcvr : [Node -> TcvrState],
   vcs : SUBSET Vcn, bus : TcvrState]

ZeroState ==
  [known |-> {},
   poc   |-> [n \in Node |-> "DefaultConfig"],
   tcvr  |-> [n \in Node |-> "None"],
   vcs   |-> {},
   bus   |-> "None"]

(***************************************************************************)
(* __set_transceiver_state(): the transceiver of a POC state, unless the   *)
(* node is without power.                                                  *)
(***************************************************************************)
TcvrOf ==
  [p \in PocState |->
     CASE p \in {"DefaultConfig", "Config"}            -> "NoSignal"
       [] p \in {"Ready", "Startup", "NormalPassive"}  -> "FrameError"
       [] p = "Wakeup"                                 -> "WUP"
       [] p = "NormalActive"                           -> "FrameSync"
       [] p \in {"Halt", "Freeze", "Undefined"}        -> "NoConnection"]

\* Mutation: a node without power gets the transceiver state of its POC state.
SetTransceiverUnpowered(st, nodes) ==
  [st EXCEPT !.tcvr = [n \in Node |-> IF n \in nodes THEN TcvrOf[st.poc[n]] ELSE @[n]]]

SetTransceiver(st, nodes) ==
  [st EXCEPT !.tcvr =
     [n \in Node |-> IF n \in nodes /\ st.tcvr[n] # "NoPower"
                     THEN TcvrOf[st.poc[n]] ELSE @[n]]]

(***************************************************************************)
(* register_node_state(): a new node starts in DefaultConfig; of a known   *)
(* one only the transceiver changes, and only when the power is forced.    *)
(* `power` is "on", "off" or "keep" (pwr_on, pwr_off, neither).            *)
(***************************************************************************)
RegisterNode(st, n, power) ==
  [st EXCEPT !.known   = @ \union {n},
             !.tcvr[n] = IF power = "off" THEN "NoPower"
                         ELSE IF power = "on" \/ n \notin st.known
                         THEN "NoConnection" ELSE @]

\* register_vcn_node_state(): a virtual coldstart node is registered once.
RegisterVcn(st, vcns) == [st EXCEPT !.vcs = @ \union vcns]

\* set_poc_state(), of a known node.
SetPocState(st, n, poc) ==
  IF n \notin st.known THEN st
  ELSE SetTransceiver([st EXCEPT !.poc[n] = poc], {n})

(***************************************************************************)
(* process_poc_command(): the POC state after a command.  From Wakeup,     *)
(* Startup and NormalPassive any command leads to NormalActive.            *)
(***************************************************************************)
Joining == {"Wakeup", "Startup", "NormalPassive"}

Commanded(poc, command) ==
  CASE poc = "DefaultConfig" /\ command = "Config" -> "Config"
    [] poc = "Config"        /\ command = "Ready"  -> "Ready"
    [] poc = "Ready"         /\ command = "Config" -> "Config"
    [] poc = "Ready"         /\ command = "Run"    -> "NormalActive"
    [] poc = "NormalActive"  /\ command = "Halt"   -> "Halt"
    [] poc = "NormalActive"  /\ command = "Freeze" -> "Freeze"
    [] poc = "Halt"          /\ command = "Config" -> "DefaultConfig"
    [] OTHER -> poc

\* Mutation: a node that lost synchronisation never gets it back.
StayPassive(poc, command) == Commanded(poc, command)

PocNext(poc, command) ==
  IF poc \in Joining /\ command # "None" THEN "NormalActive"
  ELSE Commanded(poc, command)

\* The command runs __poc_state_defaultconfig(), which removes the node's LPDUs.
EntersDefaultConfig(poc, command) == poc = "Halt" /\ command = "Config"

(***************************************************************************)
(* push_node_state(): the command and, always, the transceiver.            *)
(***************************************************************************)
PushNodeState(st, n, command) ==
  IF n \notin st.known THEN st
  ELSE SetTransceiver([st EXCEPT !.poc[n] = PocNext(@, command)], {n})

\* set_node_power().
SetNodePower(st, n, on) ==
  IF n \notin st.known \/ (on /\ st.tcvr[n] # "NoPower") THEN st
  ELSE [st EXCEPT !.poc[n]  = "DefaultConfig",
                  !.tcvr[n] = IF on THEN "NoConnection" ELSE "NoPower"]

(***************************************************************************)
(* calculate_bus_condition() has three loops, over the virtual coldstart   *)
(* nodes and twice over the nodes, and each starts at an index that is     *)
(* never initialised.  Starts are the indices they may start at; with      *)
(* StartIndex = {0} they are the loops the code means.                     *)
(***************************************************************************)
Starts == [vcs : StartIndex, count : StartIndex, demote : StartIndex]

\* The nodes in the vector from index i on.
NodesFrom(st, i) ==
  {n \in st.known : Cardinality({m \in st.known : m < n}) >= i}

SyncCount(st, from) ==
  LET vcs == Cardinality(st.vcs) - from.vcs
  IN  (IF vcs > 0 THEN vcs ELSE 0)
        + Cardinality({n \in NodesFrom(st, from.count) : st.tcvr[n] = "FrameSync"})

\* Mutation: one node in frame sync is enough for the bus.
OneNodeSyncs(st, from) ==
  LET count == SyncCount(st, from)
  IN  [st EXCEPT !.bus = IF count = 0 THEN "NoSignal" ELSE "FrameSync"]

\* Mutation: the lone node keeps its transceiver state when it is demoted.
DemotePocOnly(st, from) ==
  LET count == SyncCount(st, from)
      lone  == {n \in NodesFrom(st, from.demote) : st.poc[n] = "NormalActive"}
  IN  IF count # 1
      THEN [st EXCEPT !.bus = IF count = 0 THEN "NoSignal" ELSE "FrameSync"]
      ELSE [st EXCEPT !.bus = "FrameError",
                      !.poc = [n \in Node |-> IF n \in lone THEN "NormalPassive" ELSE @[n]]]

CalculateBusCondition(st, from) ==
  LET count == SyncCount(st, from)
      lone  == {n \in NodesFrom(st, from.demote) : st.poc[n] = "NormalActive"}
  IN  IF count = 0 THEN [st EXCEPT !.bus = "NoSignal"]
      ELSE IF count = 1
      THEN SetTransceiver(
             [st EXCEPT !.bus = "FrameError",
                        !.poc = [n \in Node |-> IF n \in lone THEN "NormalPassive"
                                                ELSE @[n]]], lone)
      ELSE [st EXCEPT !.bus = "FrameSync"]
=============================================================================
