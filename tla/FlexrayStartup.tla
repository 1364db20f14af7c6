--------------------------- MODULE FlexrayStartup ---------------------------
(***************************************************************************)
(* The startup of a FlexRay cluster, as one bus model sees it: the Config  *)
(* and Status PDUs of all nodes are consumed in any order, and at the end  *)
(* of a simulation step flexray_bus_model_progress() (flexray.c) makes the *)
(* bus condition and reports the POC states back to the applications.      *)
(*                                                                         *)
(* The applications are the environment.  Those of Driver drive their node *)
(* through the startup: in every step they command what the POC state last *)
(* reported to them calls for.  The others command anything, or nothing.   *)
(***************************************************************************)
EXTENDS FlexrayState

CONSTANTS
  Driver,      \* nodes whose application drives the startup
  InitialPoc,  \* initial_poc_state_cha of the Config PDUs
  VcnCounts,   \* vcn_count of the Config PDUs
  MaxConfigs   \* bound on the Config PDUs of each node

ASSUME StartupAssumption ==
  /\ Driver \subseteq Node
  /\ InitialPoc \subseteq PocState
  /\ VcnCounts \subseteq 0 .. 2
  /\ MaxConfigs \in [Node -> Nat]

VARIABLES
  st,       \* the node states
  heard,    \* nodes whose Status PDU of this step was consumed
  shown,    \* the POC states in the Status PDUs of the last step
  configs,  \* Config PDUs consumed, per node
  settled   \* no PDU was consumed since the bus condition was made

vars == <<st, heard, shown, configs, settled>>

Init ==
  /\ st = ZeroState
  /\ heard = {}
  /\ shown = ZeroState.poc
  /\ configs = [n \in Node |-> 0]
  /\ settled = FALSE

\* flexray_bus_model_consume(), a Config PDU; the engine's part is left out.
Configure(s, n, initial, vcns) ==
  SetPocState(RegisterNode(RegisterVcn(s, vcns), n, "on"), n, initial)

Config(n) ==
  /\ configs[n] < MaxConfigs[n]
  /\ \E initial \in InitialPoc, k \in VcnCounts :
       st' = Configure(st, n, initial, VcnsOf(n, k))
  /\ configs' = [configs EXCEPT ![n] = @ + 1]
  /\ settled' = FALSE
  /\ UNCHANGED <<heard, shown>>

\* What an application that wants to take part in the traffic commands next.
DriveCommand ==
  [p \in PocState |->
     CASE p \in {"DefaultConfig", "Halt"} -> "Config"
       [] p = "Config"                    -> "Ready"
       [] p = "Ready"                     -> "Run"
       [] OTHER                           -> "Nop"]

\* flexray_bus_model_consume(), a Status PDU.
Status(n, command) ==
  /\ n \notin heard
  /\ n \in Driver => command = DriveCommand[shown[n]]
  /\ st' = PushNodeState(st, n, command)
  /\ heard' = heard \union {n}
  /\ settled' = FALSE
  /\ UNCHANGED <<shown, configs>>

\* The power of a node is switched.  Nothing in the codec calls
\* set_node_power() yet, flexray.c:101 leaves that open.
Power(n, on) ==
  /\ n \notin Driver
  /\ st' = SetNodePower(st, n, on)
  /\ settled' = FALSE
  /\ UNCHANGED <<heard, shown, configs>>

\* The end of a step, in which every driver has sent its command.
Progress(from) ==
  /\ Driver \subseteq heard
  /\ st' = CalculateBusCondition(st, from)
  /\ heard' = {}
  /\ shown' = st'.poc
  /\ settled' = TRUE
  /\ UNCHANGED configs

Next ==
  \/ \E n \in Node : Config(n)
  \/ \E n \in Node, c \in PocCommand : Status(n, c)
  \/ \E n \in Node, on \in BOOLEAN : Power(n, on)
  \/ \E from \in Starts : Progress(from)

(***************************************************************************)
(* The simulation does not stop: every driver gets to send its command and *)
(* every step ends.                                                        *)
(***************************************************************************)
Fairness ==
  /\ \A n \in Driver : WF_vars(\E c \in PocCommand : Status(n, c))
  /\ WF_vars(\E from \in Starts : Progress(from))

Spec == Init /\ [][Next]_vars /\ Fairness

-----------------------------------------------------------------------------
(***************************************************************************)
(* Properties.                                                             *)
(***************************************************************************)

TypeOK ==
  /\ st \in NodeStates
  /\ heard \subseteq Node
  /\ shown \in [Node -> PocState]
  /\ configs \in [Node -> Nat]
  /\ \A n \in Node : configs[n] <= MaxConfigs[n]
  /\ settled \in BOOLEAN

Powered(n) == n \in st.known /\ st.tcvr[n] # "NoPower"

\* The nodes (swc_id 0) and virtual nodes that keep the bus in sync.
Sources ==
  st.vcs \union
    {<<n, 0>> : n \in {m \in Node : Powered(m) /\ st.poc[m] = "NormalActive"}}

\* POC state and transceiver state, set in different places, belong together:
\* a powered node drives the bus as its POC state says, or was just powered on.
TransceiverFollowsPoc ==
  \A n \in Node : Powered(n) =>
    \/ st.tcvr[n] = TcvrOf[st.poc[n]]
    \/ st.tcvr[n] = "NoConnection" /\ st.poc[n] = "DefaultConfig"

\* Once the bus condition is made, the bus is in sync exactly when two nodes,
\* virtual ones included, keep it in sync, and without sync no node that has
\* power believes that it is active.
SyncNeedsTwo ==
  settled =>
    /\ (st.bus = "FrameSync") <=> (Cardinality(Sources) >= 2)
    /\ st.bus # "FrameSync" =>
         \A n \in Node : Powered(n) => st.poc[n] # "NormalActive"

\* Commands that reach a node while it has no power have no effect on the bus:
\* when its power returns the node starts again from DefaultConfig.
PowerOnRestarts ==
  [][\A n \in Node :
       st.tcvr[n] = "NoPower" /\ st'.tcvr[n] # "NoPower" =>
         \/ st'.poc[n] = "DefaultConfig" /\ st'.tcvr[n] = "NoConnection"
         \/ configs'[n] # configs[n]]_vars

\* Two drivers are enough: once they are configured the bus gets into sync,
\* whatever the other nodes do, and although a driver that comes up alone is
\* first demoted to NormalPassive.
StartupCompletes ==
  (Cardinality(Driver) >= 2 /\ Driver \subseteq st.known) ~> (st.bus = "FrameSync")

\* Two registered virtual coldstart nodes bring the bus into sync,
\* whatever state the nodes are in (the case "Two VCS Nodes" of the tests).
VcnsKeepSync == settled /\ Cardinality(st.vcs) >= 2 => st.bus = "FrameSync"
=============================================================================
