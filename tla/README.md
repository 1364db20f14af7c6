# Verification of dse.ncodec

TLA+ specifications of the network codec library `dse.ncodec`: the AB codec
with its FlexRay bus model (`src/dse/ncodec`) and the PDU network layer above
it (`src/dse/pdunet`).  Every definition is a translation of the C code; paths
below are relative to `src/dse/`.

## 1. The system

An application (a *model* in a simulation) opens an NCodec on a byte stream.
In each simulation step it reads PDUs from the stream, writes PDUs, flushes and
truncates.  The SimBus collects the streams of all models at the end of the
step, concatenates them, and every model reads the result in the next step.
There is no other communication: a bus like FlexRay exists only as a *replica*
inside each NCodec, and all replicas must come to the same conclusions from the
same PDUs.

Everything runs in one thread per model; what makes the system hard is not
preemption but (a) replicas that agree only if each follows all PDUs alike,
(b) a protocol of several steps between applications that do not know each
other, (c) arithmetic that carries remainders from step to step, and (d) lists
of references that live longer than what they refer to.

### Components

| component | code | state | operations |
|---|---|---|---|
| FlexRay engine | `ncodec/codec/ab/flexray/engine.c` | position (slot, cycle, macrotick), budgets of the step, slot map, TxRx list | `process_config`, `calculate_budget`, `consume_slot`, `shift_cycle`, `set_lpdu` |
| FlexRay node states | `.../flexray/state.c` | POC and transceiver state per node, virtual coldstart nodes, bus condition | `register_node_state`, `register_vcn_node_state`, `push_node_state`, `set_poc_state`, `set_node_power`, `calculate_bus_condition` |
| FlexRay bus model | `.../flexray/flexray.c`, `fbs.c` | one engine, one set of node states | `consume`, `progress` |
| AB codec, PDUs | `ncodec/codec/ab/pdu_fbs.c` | reader stage, buffer positions, simulation time | `pdu_write`, `pdu_read`, `pdu_flush`, `pdu_truncate` |
| buffer stream | `ncodec/stream/buffer.c` | buffer, its length, position, content length | `read`, `write`, `seek`, `tell`, `eof` |
| codec instance | `ncodec/codec.c`, `codec/ab/codec.c` | MIME configuration, trace files | `ncodec_create/open/config/close` |
| frame interface | `codec/ab/frame_fbs.c` | as the PDU reader, for CAN frames | `can_write`, `can_read`, ... |
| FlexRay PoP | `codec/ab/flexray_pop/flexray_pop.c` | PDUs of each route, config, estimated cycle and macrotick | `consume`, `progress` |
| PDU network Tx | `pdunet/pdunet.c`, `network/network.c` | schedule, `needs_tx`, checksums, containers | `pdunet_tx`, `pdunet_schedule`, container mapping |
| PDU network FlexRay / CAN | `pdunet/network/flexray.c`, `can.c` | epoch, LPDU status | `config`, `lpdu_tx`, `lpdu_rx` |
| PDU network signals | `network/matrix.c` | signal vectors, payload ranges | linear encoding, packing |
| Lua functions, YAML schema | `network/lua.c`, `schema.c` | - | - |
| SimBus, applications | `ncodec/examples/ab-codec` | streams of all models | exchange, Config/Status/LPDU PDUs |
| vendored FlatBuffers code, examples, benches | `schema/abs/flatcc`, `examples` | - | - |

### Interactions

* application -> NCodec: Config, Status and LPDU PDUs of a node (`pdu_write`),
  sent to **every** node's NCodec by the SimBus, its own included.
* NCodec -> bus model: `consume()` for every PDU of the step, then `progress()`
  once; the bus model writes its Status PDU and the LPDUs of its TxRx list to a
  stream of its own, which the application reads instead of the original PDUs.
* engine -> node states: the engine runs only when the bus condition is
  `FrameSync`; a node that enters `DefaultConfig` removes LPDUs from the engine.
* point of presence (PoP, ECU 0) -> nodes: in `mode=pop` there is no bus but one
  outside.  The bus models of the PoP and of its nodes route PDUs: what a node
  writes is read by the PoP, what the PoP writes by the node that it names; all of
  them estimate the position of the external bus from what the PoP writes.
* pdunet -> NCodec: writes LPDUs for changed and scheduled PDUs, reads LPDUs,
  and takes its schedule epoch from the FlexRay cycle.

### What makes each component correct

* **Engine**: bus time follows simulation time exactly; slot, cycle and
  macrotick describe one position; no static slot is skipped or repeated;
  unsigned budgets do not wrap; the loop over slots ends.
* **Node states**: transceiver and POC state belong together; the bus is in
  sync exactly when two nodes keep it so; the cluster comes up although the
  first node to become active is demoted.
* **Bus model in a cluster**: replicas agree; a frame that is sent is received,
  in the same slot and cycle and with the sender's payload; a single shot LPDU is
  sent once for every time it was set; a restart affects only the node that
  restarts; a bus without sync is silent.
* **PDU reader**: each PDU is given to the bus model once and to the
  application once; the bus progresses once in each step.
* **PDU network**: a change or a due period reaches the wire once; a container
  never holds more than fits, and its contents are what the receiver unpacks;
  a PDU that is delayed is not forgotten.
* **Signals**: packing and unpacking are inverse, and signals of one PDU do not
  disturb one another; a value in its limits arrives, less than a factor off; one
  outside is neither sent nor received.
* **Point of presence**: each PDU is read by whom it is for, once; a node reads a
  Status first, in every step; PoP and nodes tell the same position, and it does
  not jump back.

The hazards behind these are listed, each at its line, in `PROJECT.json`.

## 2. The modules

```
FlexrayEngine ---- FlexrayTiming ---- MCFlexrayTiming      BusClock (abstract)
   |                    \------------ FlexrayTimingProofs ---/  ^ refined
   |
   +--- FlexrayBusModel ---- FlexrayNetwork ---- MCFlexrayNetwork
   |                              \-------------- FlexrayNetworkProofs
   |
FlexrayState ----- FlexrayStartup --- MCFlexrayStartup
                        \------------ FlexrayStartupProofs

FlexrayPop ------- FlexrayPopNetwork --- MCFlexrayPop
                        \----------------- FlexrayPopProofs

PduNetTx --------- PduNetwork ------- MCPduNetwork
                        \------------ PduNetworkProofs

SignalMatrix ----- SignalNetwork ---- MCSignalNetwork
                        \------------ SignalNetworkProofs

BufferStream ----- AbCodec ---------- NcodecCosim ------ MCNcodecCosim
                                           |  \--- NcodecCosimProofs
                                           | refines
                                      PduExchange (abstract)

SequenceInduction                     lemmas for the proofs of FlexrayNetwork,
                                      FlexrayPopNetwork, NcodecCosim, PduNetwork
                                      and SignalNetwork
```

`FlexrayEngine`, `FlexrayState` and `FlexrayBusModel` hold the handlers as
operators from a record to a record; `FlexrayTiming`, `FlexrayStartup` and
`FlexrayNetwork` are the specifications that use them.  `PduNetTx` and
`PduNetwork` stand to each other in the same way; they sit above the NCodec and
see the bus only as what it does to a payload.  `SignalMatrix` and
`SignalNetwork` are what `PduNetwork` takes as one value for each PDU: how signals
become a payload and a payload signals.  `FlexrayPop` and `FlexrayPopNetwork` are
the other bus model and its cluster.  `BufferStream` and `AbCodec` are
the operations of a stream and of a codec instance, and `NcodecCosim` composes
instances over a SimBus; there the bus model is external.  `FlexrayNetwork` takes
from it that each replica is given every PDU of a step, in the same order, and
progresses once: that is what `PduExchange` promises.

| module | models | state <-> code |
|---|---|---|
| `FlexrayEngine` | position and budget of `engine.c` | `engine.slot/.cycle/.mt` = `pos_slot`, `pos_cycle`, `pos_mt`; `.ut`, `.budget_mt` = `step_budget_ut`, `step_budget_mt`; `.offset` = `bits`/offsets set by the config |
| `FlexrayTiming` | the loop over `consume_slot()` in `flexray_bus_model_progress()` | one action per branch of `consume_slot()`; `StartStep` = `calculate_budget()`, `Shift` = `shift_cycle()` |
| `BusClock` | what a bus model promises about time | abstract specification |
| `FlexrayState` | `state.c` | `st.known` = `ns.nodes`, `st.poc`, `st.tcvr` = per node states (channel A, as in the code), `st.vcs` = `vcs_node`, `st.bus` = `bus_condition` |
| `FlexrayStartup` | one replica's startup with any applications | actions = PDUs consumed, power switched, `calculate_bus_condition()` |
| `FlexrayBusModel` | `flexray.c`, and the slot processing of `engine.c` | replica record: engine, states, `slots` = `slot_map`, `txrx` = `txrx_list`, `trace` = `trace_tx_list` |
| `FlexrayNetwork` | a cluster: replicas, SimBus, applications | `Run` = one `_next_pdu()` pass of a node, `Exchange` = the SimBus, `Write...` = applications; `Rearmed` = the Rx branch of `pdunet_flexray_lpdu_tx()`, for the nodes in `Rearming` |
| `FlexrayPop` | `flexray_pop.c` | replica record: `router` = `pdu_router`, `config` = `m->config` with `step_budget_mt`, `pos` = `m->status`; `Consume` = `consume()`, `Emissions` and `Cleared` = `progress()` |
| `FlexrayPopNetwork` | PoP, nodes, SimBus, applications | `Read` = reading until `-ENOMSG`, `Put` = `pdu_write()`, `Truncate`, `Flush`, `Exchange` as in the examples; members take turns |
| `PduNetTx` | `pdunet_tx()` from the schedule to `lpdu_tx()`, `pdunet_rx()` | a record per PDU: `payload`, `checksum`, `needs_tx` of `PduObject` and its payload in the matrix; `Table` = what the YAML configures |
| `PduNetwork` | a sender, a bus and a receiver | `epoch` = `schedule.epoch_offset`, `sig` = the signals the model sets, `bus` = what NCodec and bus hold, `rx` = the receiver's payloads; `Step` = `pdunet_rx()` and `pdunet_tx()` |
| `SignalMatrix` | `network/matrix.c` | a record per signal, with `start_bit`, `length_bits`, `factor`, `offset`, `min`, `max`, `invalid`; `Encode`, `Decode` = `pdunet_pdu_calculate_linear_*()`, `Pack`, `Unpack`, `Script` = `pdunet_pdu_pack_range()` |
| `SignalNetwork` | a sender and a receiver of signals | `tx.raw`, `rx.phys`, `rx.raw`, `.payload` = the vectors of the matrix; `Tx` = `pdunet_tx()` from encoding to writing, `Rx` = `pdunet_rx()` |
| `BufferStream` | `stream/buffer.c` | `mem` = the memory `buffer` points to, `buffer_len`, `len`, `pos` as in the code |
| `AbCodec` | `pdu_fbs.c`, `frame_fbs.c` | a record per `ABCodecInstance`: `reader` = `reader.state`, `stage` = `reader.stage`, `builder` = the FlatBuffers builder, `time`, `write_time` = `simulation_time.value`, `.write_value`, `bus` = `reader.bus_model.nc`, `held` = what the bus model consumed |
| `NcodecCosim` | `examples/ab-codec/fray_cosim.c`, `pdu_cosim.c`, `simbus.c` | one action per call of an application to its NCodec; `SimBus` = `simbus()` |
| `PduExchange` | what the codecs promise together | abstract specification |
| `SequenceInduction` | no code | what `FlattenSeq`, a selection from a sequence and `FoldLeft` compute, proved by induction |

Some abstractions deserve a word.

*Messages.*  A stream is measured in cells: one for the header of a message and
one per PDU.  Only the first cell of a message can be parsed; a reader that comes
to stand anywhere else, or whose pointer shows to memory that was written again,
reads `Garbage`.  Each message has a vector with at least one PDU, since a message
is begun by the write of its first.  Simulation time counts steps, so the Kahan
summation of `_advance_simulation_time()` is exact.  A call of read is one action
with all that happens in it, the three stages included.

*References.*  `txrx_list` and `trace_tx_list` hold pointers into vectors.  A
reference is a slot and a position; when a Config appends to the vector of the
slot the pointer may dangle (`pos` 0) and what is read through it is
`Unpredictable`.  Deleting elements leaves the pointer where it is, and it
then reads another LPDU or, behind the end, anything.

*Uninitialised loop indices.*  `calculate_bus_condition()` starts its loops
with `for (size_t i = i; ...)` (`state.c:367, 376, 392`).  The start is a
choice among `StartIndex`, the same for the three loops of a call.  The
project is built with `-O3` (`src/dse/CMakeLists.txt:24`), where GCC starts at
0; without optimisation it reads whatever the stack holds.  Passing runs use
`{0}`; the run `startup_uninit` and the theorems that do not
mention `StartIndex` take any.

*Values.*  Physical values are integers in a unit in which offset, factor and
limits are whole.  A scaling that floating point does not represent exactly is one
whose exact quotient may come out one less (`exact` FALSE).  The conversion of a
quotient out of range is undefined in C: it wraps, or gives the smallest or the
largest raw value (what x86 and ARM do).  A signal is packed by byte, in the
`Pieces` that the code writes and reads; `BitsOfSignals` says the same bit by bit.

*Sorting.*  `vector_sort()` leaves the order of PDUs that the comparison of
`flexray_pop.c` does not tell apart open; `Sorts` has all of them.

*Payloads.*  What the signals of a PDU are packed to is one value; the bytes
that its Tx function writes are another.  They are the same bytes if the PDU is
`covered`: packing the signals again overwrites what the function wrote.  The
payload of a container is the sequence of its I-PDUs.  A checksum is the payload
itself, so no two payloads share one, and none has the checksum 0 that forces a
PDU.  Time, phases and intervals are whole steps.  Beyond the first phases only
time modulo a common multiple matters, so time runs into a loop.

## 3. Runs

| run | question | bounds and why they are enough |
|---|---|---|
| `flexray_timing` | does one engine keep its position and budgets consistent for any steps, shifts and dynamic slots? | A cycle of 8 macroticks and 17 microticks, so that macroticks do not divide the cycle and a microtick is left at its end; 2 static slots of 2, minislots of 1, idle phase of 1.  Steps of 125 ns (no whole slot fits) and 450 ns (more than a cycle).  Dynamic slots of 1, 2, 5 minislots: idle, fitting, cut off.  `HorizonNs` 28050 is more than 64 cycles, so the cycle counter wraps. |
| `flexray_startup` | does the cluster come up, whatever a third node does? | 3 nodes, two of them drivers; the third is commanded, configured twice and powered off and on at any time, with or without a virtual coldstart node.  The bus condition depends only on whether there are 0, 1, or at least 2 sources. |
| `flexray_network` | do replicas agree and frames arrive exactly once? | 2 nodes, an Rx and a Tx LPDU in either direction, single shot and continuous, static and dynamic, cycle multiplexed, with payloads shorter and longer than the frame.  Steps of half a cycle, so that slots are reached in different steps.  Node 1 writes 2 LPDU PDUs, node 2 is halted once and refused once, and sets its Rx LPDUs again when it has read them: one failure of each kind, at any time. |
| `startup_uninit` | finding: uninitialised index | `StartIndex` {0, 1} |
| `network_stale` | finding: LPDUs emitted again without sync | as `flexray_network`, without refusals |
| `network_ghost` | finding: received frames that nobody sent | two LPDUs share a dynamic slot |
| `network_one_ecu` | finding: restart of a controller removes another's LPDUs | two controllers of one ECU |
| `pdunet` | is every change delivered, and nothing sent off schedule? | A container evaluated every second step with room for two of its three I-PDUs: one on change, one periodic, one with a Tx function whose bytes are signals; and a periodic PDU with a negative phase; the phase of the periodic I-PDU is less than a step, which delays it by an interval.  Two values per PDU, set at any time.  A bus cycle of 2 steps against a schedule of 4, so each new epoch moves the schedule.  The bus is in sync from the start, and the container is evaluated once a cycle. |
| `pdunet_rejected` | finding: a rejected change is lost | one I-PDU, its Tx function accepts or rejects |
| `ncodec_cosim` | is every PDU received once, by whom it is for, in order? | A PDU node with a bus model, one without, and two frame nodes, one of them without an id (it receives what it sent), the other with loopback, which is for PDUs only; all on one SimBus, so that readers skip messages of the other interface.  Up to 2 PDUs in a message, for the bus model or not, and one with the sender id of another node; 2 exchanges, so that streams are written again after having been read.  Streams start with 2 cells and grow.  The PDU node without a bus model may stop reading at any PDU or read on after -ENOMSG, which leaves its simulation time behind or ahead (`pdu_fbs.c:670`), and may set it again with `ncodec_utime()`: `TimeInStep` then covers it again. A variant with 3 exchanges and one PDU in each message holds as well. |
| `flexray_pop` | does each PDU reach whom it is for, and do all agree on the position of the external bus? | A PoP and two nodes, in a cycle of 10 macroticks with two static slots; a step is 3 macroticks.  A node writes a command or an LPDU or a Config in a step, the PoP its answers and two PDUs more: a full or a partial Config, a Status of the bus with or without a macrotick, in the same or another cycle, in sync or not, or for a node, and LPDUs of the static and the dynamic part.  Two PDUs of the PoP in a step are enough for each pair of them, in either order, for one node or two. |
| `signals` | does a physical value survive the way, and is nothing else touched? | Six layouts: signals that begin and end in and across bytes, whole last bytes, single bits, in another order than their bits; two PDUs; limits off the grid, values wider than their signal, less than the offset, or rounded; functions for signals and PDUs.  Raw values have 20 bits instead of 64: signals have up to 16, and TLC's integers 32. |

`PduExchange` is checked as a property of `ncodec_cosim` (`ImplementsExchange`):
what a node has still to take is mapped to what its reader has not returned, and
what was put to what is in its stream and builder.  The nodes take their step one
after the other, as in the examples; between two exchanges they share nothing.

`BusClock` is checked as a property of `flexray_timing` (`FollowsSimulationTime`):
the engine with its history variables `sim_ns` and `cycles` implements it.

### Fairness

* `FlexrayTiming`: `WF(Consume)`.  The loop runs inside one call of
  `flexray_bus_model_progress()`; once begun it is executed to its end.
* `FlexrayStartup`: every driver's Status PDU and every step's end happen
  (weak fairness of each).  A simulation steps its models for ever; the driver
  is an application that answers the reported POC state.
* `FlexrayNetwork`: `WF_todo(Turn)`: nodes run and the SimBus exchanges.  In
  every state `Run` or `Exchange` is enabled and only these change `todo`.
  Applications owe nothing: `PendingTransmitted` assumes instead that the bus
  stays in sync, since the applications decide that.
* `PduNetwork`: time goes on for ever (`Stepped`).  A step is always possible,
  and no other action changes time.  The model owes nothing: `Delivered` speaks
  of behaviours in which the signals settle.
* `FlexrayPopNetwork`: `WF_turn(Proceed)`: the members take their turns, as the
  models of a simulation do, and the application of the PoP answers the commands
  it read before it flushes.
* `NcodecCosim`, `SignalNetwork`: none; their properties are safety properties.

### Findings

1. **Uninitialised loop index** (`state.c:367, 376, 392`; run `startup_uninit`).
   Two virtual coldstart nodes do not make `FrameSync`, contrary to the test
   "Two VCS Nodes", unless the index happens to be 0.
2. **Stale LPDUs** (`flexray.c:188`, `engine.c:227`; run `network_stale`).  The
   list of the "previous step" is cleared only when a new budget is calculated;
   without sync it is emitted in every step.
3. **Frames nobody sent** (`engine.c:319, 425`; run `network_ghost`).  A pending
   LPDU of another cycle makes a dynamic slot busy, and the Rx part of
   `process_slot()` runs although nothing was sent.
4. **Restart by ECU** (`state.c:435`; run `network_one_ecu`).  LPDUs are removed
   by `ecu_id` although nodes are identified by `ecu_id` and `cc_id`.
5. **Rejected changes** (`network.c:576`; run `pdunet_rejected`).  The checksum of
   an I-PDU is updated before its Tx function rejects it, against the comment
   that it is updated only after mapping; the change is not offered again.

## 4. Proofs

`tlapm` proves the following for every value of the constants that satisfies
the named assumptions.

* `FlexrayTimingProofs`: `TypeCorrect`, `BudgetNeverWraps`, `TimeIsConserved`,
  `SlotsAreAligned`, `CyclesAreCounted`, `SlotOrder`, and `ImplementsBusClock`,
  the refinement.  The inductive invariant adds to the checked
  properties that the engine is configured as soon as time passes and that the
  position is bounded by the phase it is in.  It is needed because, for
  instance, `NoBudgetWrap` alone does not survive `ConsumeCycleEnd`, which
  subtracts the odd microticks of the cycle from one budget only; and bus time
  is conserved at the end of a cycle only since the position there is exactly
  `MacrotickPerCycle`.
* `FlexrayStartupProofs`: `TypeCorrect`, `PocAndTransceiver`, `PowerRestarts`
  and, for `StartIndex = {0}`, `BusCondition`.  The invariant is
  `TransceiverFollowsPoc` for all nodes; `SyncNeedsTwo` then follows from what
  `CalculateBusCondition` computes, with two lemmas on cardinalities.
* `FlexrayNetworkProofs`, for any number of nodes, any frame tables and parameters
  of the cycle, and whatever the applications write when:
  * `TypeCorrect` (`TypeOK`).  The lemma `LoopEnds` comes first: every pass of the
    loop `while (consume_slot() == 0)` takes of the budget if the cycle has any slot, so
    a replica has none left after as many passes as its budget allows, and the bounded
    fold of `ConsumeSlots` is the unbounded loop of the code.  The invariant `IInvTypes`
    types the packets on their way and the slots of a replica: an LPDU is in the slot
    of its configuration, and its payload is absent or as long as configured.
  * `Agreement` (`ReplicasAgree`).  `ReplicasAgree` speaks only of the end of a step
    and is not inductive.  `IInvAgree` is: it compares `Later(n)`, the replica as it
    is if its node ran already and as it will be if it has still to run.  One
    lemma for each operator of the bus model says that its effect on position, node
    states, Tx LPDUs and trace does not depend on the node whose replica it is.
  * `RestartsAreLocal` (`RestartKeepsOthers`), where no ECU has two controllers
    (`OneControllerPerEcu`); the run `network_one_ecu` shows that it is needed.
  * `NoneTwice` (`NoDuplicateLpdus`), where a frame table names each LPDU once
    (`DistinctFrames`): another table is appended as it is.  The LPDUs of a Config
    arrive a step after it was written, so `IInvTables` speaks of `After(n)`,
    the replica when what is on the wire has arrived too.  A node that was not configured
    has no LPDU there, and one that reads of itself that it is halted is still
    halted there: its LPDUs are removed before its new Config adds them.
  * `OnceEach` (`TransmittedOnce`), where in addition no single shot LPDU is pending
    in a table (`QuietTables`): nobody has set what such an LPDU would send, and
    `due` counts only what an application has set.  `IInvDue` speaks of
    `Coming(n)`, the replica of a node when it has read all that the node wrote: each
    single shot LPDU of the node that is pending there is in `due`.  The lemmas
    `FrameTells`, `ProcessSlotTells` and `ConsumeSlotsTells` follow an LPDU through the
    loop over slots: what is listed in `txrx` is an LPDU of another node, a continuous
    one, or one that was pending and is not any more.  That no second LPDU with
    the same configuration stays pending is what `IInvTables` is needed for.
  * `Delivery` (`FramesDelivered`) and `NoGhosts` (`NoGhostFrames`), where in addition
    to `DistinctFrames` and `OneControllerPerEcu` the cycle has any slot
    (`NetworkIdleStart > 0`) and the frame tables are those of a cluster that delivers
    (`DeliveringTables`): an LPDU has a status of its direction; a node with a Tx LPDU
    in a slot where one is pending in a table never writes, as a frame that was never set
    leaves its receivers the payload they had; and a slot of the dynamic part has one
    sender, of a single shot LPDU, as one pending in another cycle makes a frame of
    nothing (finding 3; run `network_ghost`).  The cluster of the run
    `flexray_network` satisfies all four.

    Both properties compare what one node emits with an LPDU of another node, at the
    end of a step in sync only, and neither is inductive: the list `txrx` of a node
    outlives a step without sync, and its references outlive the LPDUs they are to.
    `IInvHeard` says of `Later(n)` and `After(n)` that the replica is `Sound` (between
    steps its position is the start of a slot, less budget is left than the slot has, and
    each LPDU is one of its node's table with a payload that can be told)
    and that each reference in `txrx` dangles or is to an LPDU of its own node
    (`OwnRefs`); and, in sync, that what is in `trace` and in `txrx` is exactly what this
    step transmitted (`Heard`), each reception with the sender's payload.  The argument
    within a step is one of time: the budget of one step cannot pass a static slot
    twice, and in a dynamic slot nothing is pending any more, so the loop over slots never
    changes an LPDU that it has listed.  That all
    replicas have the same trace is `Agreement`, and that the receiver's replica names
    the sender's LPDU is `IInvTables`.
* `FlexrayPopProofs`, for any cluster, routes and PDUs:
  * `TypeCorrect` (`TypeOK`) if the application of the PoP reports positions and
    configurations of cycles of one length (`OneCycle`): the code does not
    compare a position with the configuration it has.
  * `Agreement` (`ReplicasAgree`) and `FirstIsStatus` (`StatusFirst`).  Members read one after
    the other, so `IInvAgree` compares one that has read with what another will
    be when it has consumed the same PDUs; `IInvTold` ties the Status that a node
    was given to the position of its replica.
  * `Advancing` (`EstimateAdvances`), under `OneCycle`.  The fold over the PDUs of a step
    stays in a set of replicas: each has moved forward, or to the edge of an LPDU that
    it was more than a step ahead of; and one that read no report of the bus is
    where it was or at such an edge, which is what makes the distance one to something
    that was said.
  * `Arrival` (`PdusArrive`): what a member reads is, for some bijection, what the
    inbox holds for it.  The proof follows the three operations that
    rearrange PDUs: a fold that routes them, the sort, and the Status put first; the
    invariant is that the routes are empty between two steps.
* `NcodecCosimProofs`, for any nodes, interfaces and bus models, and any number of
  steps:
  * `TimeKept` (`TimeInStep`): the invariant ties the time of an instance to the phase
    of its node.
  * `StreamsWhole` (`StreamSound`), however the applications read.  A content is `Whole`
    if there is a set of positions, from its first to its last, from each of which one
    message leads to the next.  That is kept when contents are put one behind the
    other, which is all that a codec and the SimBus do, and a node writes only
    into a stream that was reset; so `IInvStreams` holds `Whole` for the stream of
    every instance and of its bus model.  The lemmas `FromExists` and `EndExists` give
    the recursive functions in `Messages` and `StreamSound` a value, the one from the
    end of the stream backwards, the other as the least set closed under its rule.
  * `TypeCorrect` (`TypeOK`) and `ReaderAtRest` (`NoStaleReader`).  `IInvStreams` adds that a
    reader is at rest or holds a vector of the stream that it reads, which is that of
    the bus model once `ncodec_consumed` is set, and holds one only while its node
    reads or has stopped early.  `can_truncate()` does not reset the reader, so this
    takes frame nodes that read to the end (`PatientFrames`); what happens otherwise
    is described in section 5.
  * `ImplementsPduExchange` (`ImplementsExchange`), the refinement of `PduExchange`,
    for the same nodes.  Three things are followed from one side to the other.  What a
    stream holds for a reader (`PdusOf`) is that of its messages, one after the other
    (`PdusStep`); it depends on the cells up to the length only (`SameCells`), and is
    that of the contents it was put together of (`PdusInAll`): so what the SimBus
    exchanges is what all nodes put, in their order (`ConsolidatedHas`).  What is
    unread behind an element that was returned is what was unread before it, less the
    elements up to it (`UnreadResumes`), although the reader then holds a vector and the
    stream stands behind its message.  And `Left` is what an instance has to return, of
    its stream, of what its bus model holds or of what the bus model wrote: each read
    takes the first of it, or nothing if nothing is left, in whatever stage
    (`FrameLeft`, `PduLeft`).  `IInvExchange` adds what an instance may not have at rest: no
    PDU that the bus model was given and did not progress, no consumed stage in a node
    that writes, and a flushed stream is nothing or one message of its own type.  Each action
    then is one of `PduExchange` (`PromiseActions`), save `ncodec_utime()` and a read after the
    last, which no one sees.
* `PduNetworkProofs`, for any table of PDUs, of any size:
  * `TypeCorrect` (`TypeOK`).  A container is a fold of `MapIpdu` over its I-PDUs, so
    that it never holds more than its payload, and each I-PDU at most once, is an
    induction over the list (`FillSteps`, `FillingFacts`).  The list itself is a
    CHOICE, the I-PDUs by priority; the lemma `SortedListExists` shows that there is one.
  * `OnSchedule` (`SentWhenDue`), if what the Tx function of a PDU with a schedule
    writes does not outlive the message (`PlainWhenScheduled`).  `SettledInv` says that
    the payload of such a PDU is what its checksum is of, unless a signal changed
    it; so its schedule alone decides.
  * `NothingLost` (`NothingForgotten`), for every table that satisfies four
    conditions.  `NothingForgotten` speaks of one moment, and of one change;
    `MarkedInv` says at all times that the checksum of a PDU is `Forced`, or that the last
    payload on its way to the receiver (in a container, in the frame of the step, or
    received) is the one the checksum is of.  A container that is filled again must have
    been sent since, which is `TimingInv`: a container that waits is sent in the next slot of
    its cycle, and is not due before.
    The conditions are named in the module and each is needed: the bus is in sync
    (`InSync`); no Tx function rejects a PDU (`NoneRejected`, see finding 5); the
    I-PDUs of a container have the headers that it is unpacked by
    (`EntriesHaveIds`); and a container is filled at most once in a cycle of the bus, and
    if it has a phase not first in the step of its slot (`SlotsSuffice`).  With a table that violates one of them TLC
    finds `NothingForgotten` violated; section 5 says what the code does then.
    The table of `MCPduNetwork` satisfies all four.
* `SignalNetworkProofs`, for every width of a raw value and every description of
  PDUs and signals, of any size, with the Lua functions of both:
  * `TypeCorrect` (`TypeOK`): raw values and bytes keep their width.
  * `BitsKept` (`BitsOfSignals`).  The provers know nothing of powers of two, so
    `Two` is a recursive function that an induction shows to exist (`PowersExist`,
    `TwoIs`), and a value is its bits (`SameBits`).  The pieces in which a signal is
    copied cover each of its bits once, for any start and length; so packing writes these bits
    and no others, and unpacking, a fold that adds pieces, reads the value they
    make.  What is packed before and after, for other signals of the PDU or of other PDUs, is a
    fold of `PackSignal`; `SenderInv` and `ReceiverInv` hold what is true of each
    signal on either side.
  * `LimitsKept` (`OnlyInLimits`): what truncation and a rounded quotient may take off
    is bounded by a factor, also when a Lua function changes the value.
  * `Arrival` (`PhysReachesReceiver`): `SenderInv` ties the raw value to the
    value it was encoded of, `ReceiverInv` the bytes that the receiver has to the
    ones sent; then the receiver has the raw value (`ReceiverHasRaw`), and scaling it back
    is less than a factor off.

Assumptions, and what the code does when they do not hold:

* `ConfigAssumption` (`FlexrayEngine`): the parameters of a usable config.  The
  code does not validate them: `macrotick_per_cycle` 0 divides by zero
  (`engine.c:73`); more macroticks than microticks make `macro2micro` 0, and
  `calculate_budget()` returns `-EINVAL`; a network idle start behind the end
  of the cycle may keep the loop from ending.
* `StepAssumption` (`FlexrayTiming`): steps are whole microticks.
  `calculate_budget()` cuts the rest off, so the bus would fall behind.
* `MinislotsAssumption`, `ShiftAssumption`: a dynamic slot takes at least one
  minislot; the bus is shifted to starts of slots.
* `StateAssumption`, `StartupAssumption`: finite sets of nodes, virtual
  nodes as `vcn_count` 0..2 makes them.
* `NetworkAssumption`: a step is at most a cycle.  A longer step reaches a
  slot twice and lists its LPDU twice; both PDUs then show the last frame.  The
  LPDUs of a table are those of the node that sends it: `process_config()` gives
  them the node of the Config (`engine.c:125`).  Payloads are sequences of bytes.
* `PopNetworkAssumption`: one controller, 0, per ECU; the PDUs that nodes and PoP may
  write are of the types that the code tells apart, and a Config of the PoP has no
  more macroticks than microticks (`flexray_pop.c:188` divides by their quotient).
* `CosimAssumption`: the nodes are a sequence without repetition, in which the SimBus
  goes through them; what is written are PDUs; a bus model belongs to a PDU interface.
* `TableAssumption` (`PduNetTx`) and `NetworkAssumption` (`PduNetwork`): a finite
  table; ids are unique, as the code finds PDUs by them, and so are the priorities of
  the I-PDUs of a container (`qsort()` leaves the order of equal ones open); ids and
  lengths fit a Short header.  The times of schedules repeat after `Period`, so that
  `Horizon` bounds what is counted and not what happens.

* `RawAssumption` (`SignalMatrix`) and `LayoutAssumption` (`SignalNetwork`): a raw value has
  a positive number of bits and a signal no more; a signal lies in its PDU, two signals of
  a PDU share no bit, and factors are positive, of which the code checks none; what a Lua
  function sets is a raw value or a byte.

Induction.  The induction theorems of the prover's library take an operator as
parameter, which its backends cannot instantiate.  `SequenceInduction` states induction over
*sets* of numbers instead, from well-foundedness: a fact is proved for every
number by the set of those for which it holds.  It has the operator
of a fold as a CONSTANT and is instantiated once per operator.  For this the loop
over slots, the frames of a slot, the selection of LPDUs and the entries of a
container are written as
folds and functions, not as RECURSIVE operators or with `SelectSeq`.

### Only model-checked

* `LoopEnds` (the property of `FlexrayTiming`), `StartupCompletes`,
  `PendingTransmitted`, `CommandAnswered` and `Delivered` are liveness
  properties, out of reach of the proof system.

## 5. Not modelled

* FlatBuffers: the runtime and the generated readers and builders under
  `ncodec/schema/abs` are vendored or generated, and are most of the C code of the
  repository; a message that is written is a message that is read.  So the
  definitions here stand for a small share of all lines, and for most of the code
  that keeps state.
* The MIME configuration string, trace files, YAML and ASCII85: no state a property
  could be about.  Of Lua, what a call may do to a PDU or a signal is modelled, the
  interpreter is not.
* Writing trace PDUs (`flexray.c`, the end of `progress`): the list is kept,
  what is written from it is not.
* Channel B and wakeup: the code keeps fields for them but has no behaviour.
* The config list of the engine (memory bookkeeping) and its parameters as
  state: an accepted Config has the parameters of the first
  (`process_config()` compares them), so they are constants.  A refused config
  may leave parameters behind that were still 0; that is not modelled.
* A second Config of a node that runs: the code appends its LPDUs again
  (`engine.c:124`).  No application of the repository writes one; here a node
  writes one Config, and another after a restart.
* A node without power: `set_node_power()` is modelled with the node states, but
  only tests call it (the registration of nodes has it as a TODO, `flexray.c:101`).
* The LPDUs for reception that a PDU network writes in its first step, before it
  received any (`flexray.c:189` of `pdunet/network`; their status is not `NotReceived`
  yet): they are set to what they already are.
* The epoch of a PDU network is kept in seconds and truncated to steps when it is used
  (`network.c:98`), which is taken to be exact.  In `double` it is for up to 2000 steps of
  0.5 ms; with a step of 0.1 ms an epoch of 49 steps is read as 48.
* PDU network: Rx functions (they discard PDUs), visitors and ranges of the
  caller, a configured epoch offset.  The Tx function of a PDU changes its payload
  in place after the checksum was taken (`pdunet.c:465` says so); bytes of it that no
  signal covers are found changed in the next step (`pdunet.c:424`) and the PDU is
  sent again, also when its schedule does not fire.  The passing run has no such
  function for an L-PDU with a schedule.  Before the bus is in sync, and when a container is evaluated more
  often than its slot comes, a container that waits is overwritten and its
  on-change I-PDUs are lost (`network/flexray.c:171`); `InSync = FALSE` shows it.
  The same happens once, at the start, to a container whose phase is smaller than its
  cycle and that is first filled in the step of its slot: the first new cycle moves
  the epoch back by one step, and the container is due again before its next slot.
  The I-PDUs of a Static container have no headers, and the receiver does not
  find them.
* Signals: physical values that are NaN, negative factors, functions of signals that
  write the payload, signals that overlap or leave their PDU (the code checks
  neither), and `pdunet_encode_linear()` for a range of the caller, which tests the
  limits on the value of before the Lua call (`matrix.c:470`).  A PDU on change is
  not written before its payload differs from zeros, so its receiver keeps phys 0,
  also if raw 0 is another value (`pdunet.c:124`): `PhysReachesReceiver` speaks of PDUs
  that were received.
* Point of presence: SWCs are treated like ECUs; an ECU has one controller, since
  `pdu_write()` puts the controller of the codec that emits a PDU in place of the
  one that wrote it (`pdu_fbs.c:224`); a Config with more macroticks than microticks
  divides by zero (`flexray_pop.c:188`); only the first Status of a node in a step is
  given the position; slots whose end the code takes one slot too far
  (`flexray_pop.c:276, 288`) may leave the cycle, which `TypeOK` excepts.
* A frame codec that is truncated before it was read to its end: `can_truncate()`
  does not reset the reader as `pdu_truncate()` does (`frame_fbs.c:225`), and frames
  that were left are returned later, from memory that is written again.  In the
  passing run frame nodes read to the end; `Impatient` = {"listener"} shows it.
* NCodec: the step size and the broadcast of `pdu_utime()` (the broadcast is a
  TODO of the code), the trace streams, writing into a stream that was
  not truncated (`buffer.c:58` then shrinks the memory below the length), and a
  bus model whose application stops reading early (it does not progress in that
  step).  The examples and the README of the library do none of these.

## 6. Plan

The plan of this project was to model FlexRay first, then the way of PDUs from a
network to the bus, then codecs and streams; to check all of it, and then to prove
what the runs check.  Every safety invariant, every action property and both
refinements that the passing runs check are proved now.  What is left:

1. A second Config of a node without a restart in between, on which `NoDuplicateLpdus`
   would no longer hold as it stands.
2. The epoch as the code computes it, truncated from seconds (`network.c:98`).
3. The parts of section 5 that could be modelled: codec instances of other MIME
   types, PDU networks whose ranges are the caller's.
