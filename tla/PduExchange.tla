----------------------------- MODULE PduExchange -----------------------------
(***************************************************************************)
(* What the codecs of a co-simulation promise together, without streams,   *)
(* messages, readers or stages.  In each step the nodes, one after the     *)
(* other, take what they have received and put PDUs; then all that was put *)
(* is exchanged, and a node receives, each PDU once:                       *)
(*   - in the order they were put, the PDUs of nodes of its own type that  *)
(*     are not for its bus model and, without loopback, not its own;       *)
(*   - then what its bus model makes of those that are for it.             *)
(***************************************************************************)
EXTENDS Integers, Sequences, SequencesExt

\* CosimAssumption of NcodecCosim says what they are.
CONSTANTS
  Nodes,       \* a sequence: the order in which they take their step
  Config,      \* type, id, loopback and model of each, as in AbCodec
  Input,       \* the PDUs a node may put
  MaxPut,      \* how many each node may put in a step
  MaxStep,     \* the number of exchanges; nothing is put after the last
  Impatient    \* nodes that may stop before they took everything

VARIABLES
  inbox,   \* what each node has still to take
  put,     \* what each node put since the last exchange
  phase,   \* "reading", "read", "writing" or "done", of each node
  got,     \* what the last read of each node gave, <<>> for nothing
  step     \* the number of exchanges so far

vars == <<phase, got, step, inbox, put>>

Node == Range(Nodes)

\* Nodes take their step one after the other.
Turn(n) == \A i, j \in DOMAIN Nodes : Nodes[j] = n /\ i < j => phase[Nodes[i]] = "done"

Sent(n, p) ==
  [p EXCEPT !.sender = IF Config[n].type = "pdu" /\ p.sender # 0 THEN p.sender
                       ELSE Config[n].id]

ForBus(n, p) == Config[n].model /\ p.kind = "Flexray"

\* Loopback is of PDUs only.
Own(n, p) == /\ Config[n].id # 0 /\ p.sender = Config[n].id
             /\ Config[n].type = "frame" \/ ~Config[n].loopback

\* What node n receives of everything that was put.
Received(n) ==
  LET all == FlattenSeq([i \in DOMAIN Nodes |->
               IF Config[Nodes[i]].type = Config[n].type THEN put[Nodes[i]] ELSE <<>>])
      forBus == FlattenSeq([i \in DOMAIN all |->
                  IF ForBus(n, all[i]) THEN <<all[i]>> ELSE <<>>])
  IN FlattenSeq([i \in DOMAIN all |->
       IF ForBus(n, all[i]) \/ Own(n, all[i]) THEN <<>> ELSE <<all[i]>>])
     \o [i \in DOMAIN forBus |-> Sent(n, forBus[i])]

Init ==
  /\ inbox = [n \in Node |-> <<>>]
  /\ put = [n \in Node |-> <<>>]
  /\ phase = [n \in Node |-> "writing"]
  /\ got = [n \in Node |-> <<>>]
  /\ step = 0

Take(n) ==
  /\ phase[n] = "reading" /\ inbox[n] # <<>>
  /\ got' = [got EXCEPT ![n] = <<Head(inbox[n])>>]
  /\ inbox' = [inbox EXCEPT ![n] = Tail(inbox[n])]
  /\ UNCHANGED <<phase, step, put>>

TakenAll(n) ==
  /\ phase[n] = "reading" /\ inbox[n] = <<>>
  /\ got' = [got EXCEPT ![n] = <<>>]
  /\ phase' = [phase EXCEPT ![n] = "read"]
  /\ UNCHANGED <<step, inbox, put>>

StopEarly(n) ==
  /\ phase[n] = "reading" /\ n \in Impatient
  /\ phase' = [phase EXCEPT ![n] = "read"]
  /\ UNCHANGED <<got, step, inbox, put>>

Truncate(n) ==
  /\ phase[n] = "read"
  /\ inbox' = [inbox EXCEPT ![n] = <<>>]
  /\ phase' = [phase EXCEPT ![n] = "writing"]
  /\ UNCHANGED <<got, step, put>>

Put(n, p) ==
  /\ phase[n] = "writing" /\ Len(put[n]) < MaxPut[n] /\ step < MaxStep
  /\ put' = [put EXCEPT ![n] = Append(put[n], Sent(n, p))]
  /\ UNCHANGED <<phase, got, step, inbox>>

Flush(n) ==
  /\ phase[n] = "writing"
  /\ phase' = [phase EXCEPT ![n] = "done"]
  /\ UNCHANGED <<got, step, inbox, put>>

Exchange ==
  /\ \A n \in Node : phase[n] = "done"
  /\ step < MaxStep
  /\ inbox' = [n \in Node |-> Received(n)]
  /\ put' = [n \in Node |-> <<>>]
  /\ phase' = [n \in Node |-> "reading"]
  /\ step' = step + 1
  /\ UNCHANGED got

NodeStep(n) ==
  /\ Turn(n)
  /\ \/ Take(n) \/ TakenAll(n) \/ StopEarly(n) \/ Truncate(n)
     \/ (\E p \in Input[n] : Put(n, p)) \/ Flush(n)

Next == Exchange \/ \E n \in Node : NodeStep(n)

Spec == Init /\ [][Next]_vars
=============================================================================
