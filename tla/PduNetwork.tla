------------------------------ MODULE PduNetwork ------------------------------
(***************************************************************************)
(* A PDU network from the signals of one model to those of another: in     *)
(* every simulation step the sender calls pdunet_rx() and pdunet_tx(), the *)
(* bus carries what was written, and the receiver calls pdunet_rx().       *)
(*                                                                         *)
(* The bus is what FlexrayNetwork shows of it: it keeps the last payload   *)
(* written for an L-PDU and sends it once, in the slot of the L-PDU, as    *)
(* soon as it is in sync.  A CAN bus is one with a cycle of one step.      *)
(***************************************************************************)
EXTENDS PduNetTx

CONSTANTS
  Value,      \* values of the signals of a PDU, 0 the first
  CycleTime,  \* steps in a communication cycle
  SlotStep,   \* the step of the cycle with the slot of each L-PDU
  InSync,     \* the bus is in sync when the simulation starts
  Period,     \* a common multiple of the cycle and all intervals
  Horizon     \* bound on time, which goes on from Horizon - Period

\* Time, beyond all phases, matters only modulo the common multiple.
ASSUME NetworkAssumption ==
  /\ 0 \in Value /\ Value \subseteq Nat
  /\ CycleTime \in Nat \ {0} /\ Period \in Nat \ {0}
  /\ SlotStep \in [Pdu -> 0 .. CycleTime - 1]
  /\ InSync \in BOOLEAN
  /\ Period % CycleTime = 0
  /\ Horizon \in Nat /\ Horizon - Period > CycleTime
  /\ \A p \in Pdu :
       Table[p].interval # 0 =>
         /\ Period % Table[p].interval = 0
         /\ Horizon - Period > CycleTime + 2 * Table[p].interval

VARIABLES
  time,    \* the step that is run next
  epoch,   \* schedule.epoch_offset, in steps
  origin,  \* the step in which the cycle of the bus starts, modulo CycleTime
  sig,     \* the signals of each PDU that the sender's model sets
  obj,     \* the sender's PDUs
  bus,     \* the payload written for each L-PDU and not sent, a sequence
  rx       \* the receiver's payloads

vars == <<time, epoch, origin, sig, obj, bus, rx>>

NotSynced == -1

ZeroPayload(p) == [val |-> IF IsContainer(p) THEN <<>> ELSE 0, ext |-> 0]

\* pdunet_create(): the checksums are those of the first payloads.
Init ==
  /\ time = 0
  /\ epoch = 0
  /\ origin = IF InSync THEN 0 ELSE NotSynced
  /\ sig = [p \in Signals |-> 0]
  /\ obj = [p \in Pdu |-> [payload |-> ZeroPayload(p),
                           checksum |-> Checksum(ZeroPayload(p)),
                           needs_tx |-> FALSE]]
  /\ bus = [p \in Pdu |-> <<>>]
  /\ rx = [p \in Pdu |-> ZeroPayload(p)]

\* The model sets the signals of a PDU.
Set(p, v) ==
  /\ sig' = [sig EXCEPT ![p] = v]
  /\ UNCHANGED <<time, epoch, origin, obj, bus, rx>>

\* The position of the bus in its cycle, in this step.
AtCycleStep(k) == origin # NotSynced /\ (time - origin) % CycleTime = k

Sent == {p \in Pdu : bus[p] # <<>> /\ AtCycleStep(SlotStep[p])}

(***************************************************************************)
(* pdunet_flexray_lpdu_rx(): with a new cycle the epoch is set to the      *)
(* position of the last step in a cycle of the schedule.                   *)
(* The code keeps it in seconds, which is taken to be exact.               *)
(***************************************************************************)
Previous == IF time = 0 THEN 0 ELSE time - 1

EpochShift == IF AtCycleStep(0) THEN Previous % CycleTime ELSE epoch

Later == IF time + 1 = Horizon THEN Horizon - Period ELSE time + 1

\* What the Tx functions do in a step; what the others would do is not used.
Runs == {run \in [Pdu -> [accepted : BOOLEAN, ext : {0, 1}]] :
           \A p \in Pdu : \/ run[p] \in Table[p].runs
                          \/ Table[p].runs = {} /\ run[p] = [accepted |-> TRUE, ext |-> 0]}

Step(run) ==
  /\ rx' = Receive(rx, [p \in Sent |-> Head(bus[p])])
  /\ epoch' = EpochShift
  /\ \E changed \in {Changed(obj, sig, time, EpochShift, run)} :
     \E ready \in {MapContainers(changed, run)} :
         /\ obj' = LpduTx(ready)
         /\ bus' = [p \in Pdu |-> IF p \in Written(ready) THEN <<ready[p].payload>>
                                  ELSE IF p \in Sent THEN <<>> ELSE bus[p]]
  /\ origin' \in IF origin = NotSynced THEN {NotSynced, time % CycleTime} ELSE {origin}
  /\ time' = Later
  /\ UNCHANGED sig

Next ==
  \/ \E p \in Signals, v \in Value : Set(p, v)
  \/ \E run \in Runs : Step(run)

\* The simulation is stepped for ever: a step is always possible, and is the
\* only action that changes time.  What the model sets is its own affair.
Stepped == []<><<time' # time>>_vars

Spec == Init /\ [][Next]_vars /\ Stepped

-----------------------------------------------------------------------------
(***************************************************************************)
(* Properties.                                                             *)
(***************************************************************************)
Payload(p) ==
  IF IsContainer(p)
  THEN [val : Seq([id : {Table[q].id : q \in Pdu},
                   payload : [val : Value, ext : {0, 1}]]), ext : {0, 1}]
  ELSE [val : Value, ext : {0, 1}]

Add(m, n) == m + n

\* What entries take of their container.
Size(c, entries) ==
  FoldLeft(Add, 0, [i \in DOMAIN entries |->
                      Takes(c, CHOOSE p \in Pdu : Table[p].id = entries[i].id)])

\* The I-PDUs that a container holds fit in its payload with their headers.
ContainerFits == \A c \in Containers : Size(c, obj[c].payload.val) <= Table[c].len

\* Types; a container holds what it has room for.
TypeOK ==
  /\ time \in 0 .. Horizon - 1
  /\ epoch \in 0 .. CycleTime - 1
  /\ origin \in {NotSynced} \union 0 .. CycleTime - 1
  /\ sig \in [Signals -> Value]
  /\ ContainerFits
  /\ \A p \in Pdu : /\ obj[p].payload \in Payload(p)
                    /\ obj[p].needs_tx \in BOOLEAN
                    /\ rx[p] \in Payload(p)
                    /\ ToSet(bus[p]) \subseteq Payload(p)

\* What the receiver has, once the bus has sent what it holds.
Ahead == Receive(rx, [p \in {q \in Pdu : bus[q] # <<>>} |-> Head(bus[p])])

\* No change is forgotten: if the receiver has not, and will not get, what the
\* signals of a PDU were packed to, then the PDU is still marked as changed,
\* however often it was delayed and whatever else its container carried.
NothingForgotten ==
  LET ahead == Ahead
  IN  \A p \in Signals :
        \/ ahead[p].val = obj[p].payload.val
        \/ obj[p].checksum # Checksum(obj[p].payload)

\* A PDU with a schedule is written only when it is due.
SentWhenDue ==
  [][\A p \in Signals :
       /\ time' # time
       /\ IsLpdu(p) /\ bus'[p] # <<>> /\ (bus'[p] # bus[p] \/ p \in Sent)
       => IsDue(p, time, epoch')]_vars

\* Once the signals are no longer set the receiver gets to have all of them.
Delivered ==
  (<>[][UNCHANGED sig]_sig) => <>[](\A p \in Signals : rx[p].val = sig[p])
=============================================================================
