------------------------------- MODULE PduNetTx -------------------------------
(***************************************************************************)
(* Sending and receiving in a PDU network: pdunet_tx() and pdunet_rx()     *)
(* (pdunet.c, network/network.c, network/can.c, network/flexray.c).        *)
(*                                                                         *)
(* A PDU is its index in the matrix.  Its configuration is a record:       *)
(*   id, len               identifier and length of the payload            *)
(*   header                "None", or the header format of a container PDU *)
(*   container, priority   id of the container that carries it (0: none)   *)
(*   interval, phase       the schedule, in steps (interval 0: none)       *)
(*   phased                a phase is configured, perhaps of less than a   *)
(*                         step                                            *)
(*   periodic              trigger: sent when due, else when also changed  *)
(*   covered               the bytes the Tx function writes are signals    *)
(*   runs                  what a call of its Tx function may do, {} if it *)
(*                         has none                                        *)
(*                                                                         *)
(* The state of a PDU (PduObject) is a record of its payload, checksum and *)
(* needs_tx.  A payload is a record: val, what the signals are packed to,  *)
(* or the I-PDUs mapped to a container; and ext, what the Tx function of   *)
(* the PDU writes.  Payloads of length 0 are left out.                     *)
(***************************************************************************)
EXTENDS Integers, Sequences, FiniteSets, SequencesExt

CONSTANTS
  Pdu,    \* the Tx PDUs, in the order of the matrix: 1 .. n
  Table   \* the configuration of each

ASSUME TableAssumption ==
  /\ IsFiniteSet(Pdu) /\ Pdu = 1 .. Cardinality(Pdu)
  /\ \A p \in Pdu :
       /\ {Table[p].id, Table[p].interval, Table[p].container, Table[p].priority,
           Table[p].len} \subseteq Nat
       /\ Table[p].id # 0 /\ Table[p].len # 0
       /\ Table[p].phase \in Int /\ Table[p].phased \in BOOLEAN
       /\ Table[p].phase # 0 => Table[p].phased
       /\ Table[p].header \in {"None", "Static", "Short", "Full"}
       /\ Table[p].header # "None" => Table[p].container = 0
  /\ \A p, q \in Pdu : Table[p].id = Table[q].id => p = q
  /\ \A p, q \in Pdu :
       Table[p].container = Table[q].container /\ Table[p].container # 0 /\ p # q =>
         Table[p].priority # Table[q].priority
  /\ \A p \in Pdu : Table[p].container # 0 =>
       \E c \in Pdu : Table[c].id = Table[p].container /\ Table[c].header # "None"
  /\ \A c, p \in Pdu :
       Table[c].header = "Short" /\ Table[p].container = Table[c].id =>
         Table[p].id < 2^24 /\ Table[p].len < 256

IsContainer(p) == Table[p].header # "None"

\* The PDUs that are written to the NCodec.
IsLpdu(p) == Table[p].container = 0

Containers == {p \in Pdu : IsContainer(p)}
Signals    == Pdu \ Containers
IPdus      == {p \in Pdu : ~IsLpdu(p)}

\* The I-PDUs of a container.
IPdusOf(c) == {p \in IPdus : Table[p].container = Table[c].id}

\* container.pdu_list: the I-PDUs of each container, sorted by priority.
PduList ==
  [c \in Containers |->
     CHOOSE list \in [1 .. Cardinality(IPdusOf(c)) -> IPdusOf(c)] :
       \A i, j \in DOMAIN list : i < j => Table[list[i]].priority < Table[list[j]].priority]

\* The container of each I-PDU.
ContainerOf ==
  [p \in IPdus |-> CHOOSE c \in Pdu : Table[c].id = Table[p].container]

(***************************************************************************)
(* pdunet_checksum(): XXH32 as an injection, no two payloads of a PDU have *)
(* the same checksum, and none has the checksum 0 (Forced).                *)
(***************************************************************************)
Checksum(payload) == <<payload.val, payload.ext>>

Forced == <<>>

(***************************************************************************)
(* The schedule: pdunet_matrix_transform(), pdunet_schedule().             *)
(***************************************************************************)

\* The phase, in the bounds of the interval and absolute to the epoch: of one that
\* is less than a step, the interval is left.
PhaseOf(p) ==
  LET k == Table[p].interval
      f == Table[p].phase
  IN  IF ~Table[p].phased \/ k = 0 THEN 0
      ELSE IF f > 0 THEN k + (f % k) ELSE k - ((-f) % k)

\* The schedule of the PDU fires at a time.
Fires(p, time, epoch) ==
  LET base == epoch + PhaseOf(p)
  IN  /\ Table[p].interval # 0
      /\ 0 <= base /\ base <= time
      /\ (time - base) % Table[p].interval = 0

\* Its signals are packed, or it is evaluated if it is a container.
IsDue(p, time, epoch) == Table[p].interval = 0 \/ Fires(p, time, epoch)

Schedule(o, p, time, epoch) ==
  IF IsContainer(p) THEN [o EXCEPT !.needs_tx = @ \/ IsDue(p, time, epoch)]
  ELSE IF Table[p].periodic /\ Fires(p, time, epoch) THEN [o EXCEPT !.checksum = Forced]
  ELSE o

(***************************************************************************)
(* pdunet_encode_linear(), pdunet_encode_pack(): the signals of the PDUs   *)
(* that are due are packed, those of the others are skipped.               *)
(***************************************************************************)

\* Mutation: signals are not skipped.
EncodeAll(o, p, sig, time, epoch) ==
  [o EXCEPT !.payload = [val |-> sig[p], ext |-> IF Table[p].covered THEN 0 ELSE @.ext]]

Encode(o, p, sig, time, epoch) ==
  IF ~IsDue(p, time, epoch) THEN o
  ELSE [o EXCEPT !.payload = [val |-> sig[p], ext |-> IF Table[p].covered THEN 0 ELSE @.ext]]

(***************************************************************************)
(* pdunet_call_tx_func(): the function changes the payload in place, and   *)
(* may reject the PDU.                                                     *)
(***************************************************************************)
CallTxFunc(o, p, run) ==
  IF ~o.needs_tx \/ Table[p].runs = {} THEN o
  ELSE [o EXCEPT !.payload.ext = run.ext, !.needs_tx = run.accepted]

\* Mutation: the checksum of an I-PDU is updated before it is mapped.
NeedsTxEager(o, p, run) ==
  LET sum == Checksum(o.payload)
      changed == [o EXCEPT !.needs_tx = TRUE, !.checksum = sum]
  IN  IF sum = o.checksum THEN [o EXCEPT !.needs_tx = FALSE]
      ELSE IF IsLpdu(p) THEN CallTxFunc(changed, p, run[p])
      ELSE changed

\* pdunet_visit_needs_tx(): the checksum of an I-PDU is updated only when it
\* is mapped.
NeedsTx(o, p, run) ==
  LET sum == Checksum(o.payload)
  IN  IF sum = o.checksum THEN [o EXCEPT !.needs_tx = FALSE]
      ELSE IF IsLpdu(p)
      THEN CallTxFunc([o EXCEPT !.needs_tx = TRUE, !.checksum = sum], p, run[p])
      ELSE [o EXCEPT !.needs_tx = TRUE]

(***************************************************************************)
(* Containers: pdunet_visit_container_mapto() and _mapfrom().              *)
(***************************************************************************)
HeaderLength == [None |-> 0, Static |-> 0, Short |-> 4, Full |-> 8]

\* What an I-PDU takes of its container.
Takes(c, p) == HeaderLength[Table[c].header] + Table[p].len

\* Mutation: room for the header is not asked for.
HasRoomForPayload(c, p, used) == Table[p].len <= Table[c].len - used

HasRoom(c, p, used) == Takes(c, p) <= Table[c].len - used

\* Mutation: a delayed I-PDU counts as sent.
DelayAsSent(o) == [o EXCEPT !.needs_tx = FALSE, !.checksum = Checksum(o.payload)]

\* An I-PDU for which there is no room is delayed: it is forced next time.
Delay(o) == [o EXCEPT !.needs_tx = FALSE, !.checksum = Forced]

\* What the Tx function makes of an I-PDU for which there is room.
Called(o, p, run) == CallTxFunc([o EXCEPT !.checksum = Checksum(o.payload)], p, run[p])

\* An I-PDU of pdu_list is delayed, rejected, or mapped.  m: the PDUs, and the
\* container c with its entries and how much of it is used.
MapIpdu(m, p) ==
  LET o == m.obj[p]
      called == Called(o, p, m.run)
  IN  IF ~o.needs_tx THEN m
      ELSE IF ~HasRoom(m.c, p, m.used) THEN [m EXCEPT !.obj[p] = Delay(o)]
      ELSE IF ~called.needs_tx THEN [m EXCEPT !.obj[p] = called]
      ELSE [m EXCEPT !.obj[p] = [called EXCEPT !.needs_tx = FALSE],
                     !.used = @ + Takes(m.c, p),
                     !.entries = Append(@, [id |-> Table[p].id, payload |-> called.payload])]

\* The container is sent when an I-PDU was mapped.
Fill(o, c, run, entries) ==
  CallTxFunc([o EXCEPT !.needs_tx = entries # <<>>,
                       !.payload = [val |-> entries, ext |-> 0]], c, run[c])

\* The PDUs after a container was cleared and filled.
MapTo(obj, c, run) ==
  LET cleared == [obj |-> obj, c |-> c, run |-> run, used |-> 0, entries |-> <<>>]
      mapped == FoldLeft(MapIpdu, cleared, PduList[c])
  IN  IF ~obj[c].needs_tx THEN obj
      ELSE [mapped.obj EXCEPT ![c] = Fill(@, c, run, mapped.entries)]

\* All containers.  An I-PDU is on the list of one container, their order does
\* not matter.
MapContainers(obj, run) ==
  [p \in Pdu |-> IF IsContainer(p) THEN MapTo(obj, p, run)[p]
                 ELSE IF p \in IPdus THEN MapTo(obj, ContainerOf[p], run)[p]
                 ELSE obj[p]]

(***************************************************************************)
(* pdunet_tx(): what the I-PDUs and the containers are mapped from, and    *)
(* what is written of them.                                                *)
(***************************************************************************)
Changed(obj, sig, time, epoch, run) ==
  [p \in Pdu |->
     LET o == Schedule(obj[p], p, time, epoch)
     IN  IF IsContainer(p) THEN o ELSE NeedsTx(Encode(o, p, sig, time, epoch), p, run)]

\* lpdu_tx(): the L-PDUs that are written, and a PDU after it.
Written(obj) == {p \in Pdu : IsLpdu(p) /\ obj[p].needs_tx}

LpduTx(obj) ==
  [p \in Pdu |-> IF IsLpdu(p) THEN [obj[p] EXCEPT !.needs_tx = FALSE] ELSE obj[p]]

(***************************************************************************)
(* pdunet_rx() of a network whose Rx PDUs mirror these Tx PDUs.  rx is the *)
(* payload of each, frames the payloads of the L-PDUs that were received.  *)
(***************************************************************************)

\* An I-PDU gets the payload of the entry with its id.  A static container has
\* no ids: nothing is taken from it.
Receive(rx, frames) ==
  [p \in Pdu |->
     IF IsLpdu(p) THEN IF p \in DOMAIN frames THEN frames[p] ELSE rx[p]
     ELSE LET c == ContainerOf[p]
              found == IF c \in DOMAIN frames /\ Table[c].header # "Static"
                       THEN {e \in ToSet(frames[c].val) : e.id = Table[p].id} ELSE {}
          IN  IF found = {} THEN rx[p] ELSE (CHOOSE e \in found : TRUE).payload]
=============================================================================
