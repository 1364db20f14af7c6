----------------------------- MODULE MCPduNetwork -----------------------------
(***************************************************************************)
(* A container that has room for two of its three I-PDUs, a periodic PDU,  *)
(* and a PDU with a Tx function.                                           *)
(***************************************************************************)
EXTENDS PduNetwork

Container(id, len, interval) ==
  [id |-> id, len |-> len, header |-> "Short", container |-> 0, priority |-> 0,
   interval |-> interval, phase |-> 0, phased |-> FALSE, periodic |-> FALSE,
   covered |-> FALSE, runs |-> {}]

IPdu(id, priority, interval) ==
  [id |-> id, len |-> 2, header |-> "None", container |-> 10, priority |-> priority,
   interval |-> interval, phase |-> 0, phased |-> FALSE, periodic |-> interval # 0,
   covered |-> FALSE, runs |-> {}]

LPdu(id, interval, phase, covered, runs) ==
  [id |-> id, len |-> 2, header |-> "None", container |-> 0, priority |-> 0,
   interval |-> interval, phase |-> phase, phased |-> phase # 0, periodic |-> interval # 0,
   covered |-> covered, runs |-> runs]

Accepted == {[accepted |-> TRUE, ext |-> 1]}
Rejected == [accepted : BOOLEAN, ext : {0}]

\* I-PDU 12 has a phase of less than a step.
MCTable ==
  <<Container(10, 15, 2), IPdu(11, 5, 0), [IPdu(12, 25, 4) EXCEPT !.phased = TRUE],
    [IPdu(13, 50, 0) EXCEPT !.covered = TRUE, !.runs = Accepted],
    LPdu(20, 4, -1, FALSE, {})>>

MCSlotStep == [p \in Pdu |-> 1]

\* An I-PDU with a Tx function that may reject it.
MCRejected == <<Container(10, 15, 0), [IPdu(11, 5, 0) EXCEPT !.runs = Rejected]>>
=============================================================================
