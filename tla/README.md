# A TLA+ model of the ISRSS simulator

The repository simulates servers ("nodes") that process network packets on
many cores behind receive side scaling (RSS).  A node moves flows between its
cores when some are overloaded, and passes packets on to the next node of a ring
when all are.  The simulator is written for OMNeT++: modules exchange messages
and set timers, and a kernel executes one event at a time.  Each module is small;
what is hard is what happens when their events meet in one instant, when a
decision is stored and applied later, and when a packet travels through several
of them.  That is what is modelled, checked and proved here.

## The system

| component | state | operations | talks to | correct if |
|---|---|---|---|---|
| `PCAPGenerator` | trace position, offset, flows, timer | send a packet, schedule the next one | TorSwitch | no trace but a malformed one stops the simulation; the traces keep their distances |
| `TorSwitch` | a queue and a timer per port | packet from a generator, packet from a node, timer | all nodes, Sink | nothing lost, no transmission on a busy link, no packet twice around the ring |
| `Ingress` | none | mark the arrival port | Offload | |
| `Offload` | RSS table, hash table, overload flags | dispatch a packet, take an announcement, `update_rss_reta_entry` | Processing, OutputBuffer | existing cores only, hop limit, load respected, bursts not split |
| `OffloadTrigger` | a flag per queue | `report_queue_len` (a call) | Offload (a message) | a flag means a backlog; Offload learns every change |
| `Processing` | per core: queue, busy flag, timer; busy counter | packet arrives, timer: packet processed | OffloadTrigger (call), OutputBuffer | asserts hold, no packet skipped, no core idle with work |
| `ProcessingDynamicRSS` | a second RSS table, counters | as Processing, and reassign a table entry | Offload (call) | tables agree, the entry that is moved is the right one |
| `OutputBuffer` | queue, waiting flag, timer | packet arrives, timer: link is free | TorSwitch | nothing forgotten, link serial, one hop counted |
| `Sink` | expected id and counter per flow, histograms | take a packet, record percentiles at the end | | overtaken packets are counted exactly, percentiles are those of the packets |
| `Latency` (in a packet) | list of durations | add one, sum them up | filled by every queue, read by Sink | the parts add up to the whole |
| `assign_network_functions` | flows with their bytes, actions | load, try an assignment, export | writes what PCAPGenerator reads | exports are one assignment within the margin; it ends if there is one |
| `identify_flow_pkt_ids`, `calc_..._hashes` | flows seen | a line per packet | write what PCAPGenerator reads | they agree on what a flow is |

The hard behaviours are the order of events of one instant (arrival and
completion, arrival and end of a transmission, packet and overload
announcement), decisions kept in tables and applied to later packets, and
lifetimes (a table entry, an overload flag, a packet's way round the ring), and
files of which each line must fit the same line of three others.
`PROJECT.json` lists each at its line, under "hazards".  Nothing is persisted,
no message is lost or duplicated by the kernel, and nothing runs in parallel.

## How an event simulation is modelled

A step is one event, run to completion: a handler with everything it calls.
A connection without delay is a sequence of messages that are due now; a
self-message (timer) is an instant; a link with a data rate is a sequence of
packets with the instants at which they arrive.  Time is a natural number, the
number of instructions a core could have executed (all cores of a node have the
same `m_t_inst`), and `Tick` actions move it by one, only when no event of the
present instant is left.

The kernel orders the events of an instant by insertion.  The model leaves that
order open: it contains every behaviour of the simulator, and what holds in it
does not depend on how messages happen to be scheduled.  Messages on one
connection keep their order.  Function calls between modules
(`report_queue_len`, `update_rss_reta_entry`) are part of the caller's step.

Left out: signals that are only emitted, packet lengths, message names.  A flow is a
model value, or in `Network` the pair of a generator and a key, since every
generator creates its own `Flow` objects; its two hashes are constants.
Transmission and processing durations are drawn from small sets.  Quotients of the
code (shares, steps of a distribution) are compared exactly, by
cross-multiplication; where rounding could decide, `RoundedUp` leaves it open which
steps are rounded upwards.

## Modules

| module | models | note |
|---|---|---|
| `Packet`, `Wires` | `Packet.cc`, `PacketNodeContext.h`, `OffloadTriggerMsg.msg`, the clock and the connections inside a node | shared by the modules of a node |
| `OffloadTrigger` | `OffloadTrigger.cc` | an operator called by Processing |
| `Processing` | `Processing.cc` | `HandlePacket`, `HandleProcDone` are the branches of `handleMessage` |
| `FifoServers` | abstract | what Processing promises: FIFO servers that are never idle with work |
| `Offload` | `Offload.cc` | with the contents of uninitialised fields left open (`UninitQueues`) |
| `OutputBuffer` | `OutputBuffer.cc` and the link behind it | |
| `Node` | `Node.ned`, `Ingress.cc` | composes the four; each action is a handler of one with the others left alone |
| `Sink` | `Sink.cc`, the reorder check | used by three compositions |
| `SinkStatistics` | `Sink.cc` as a whole | the five histograms of the code are filled alike, one is modelled |
| `Latency` | `Latency.cc` | the lists of all packets, kept beside them |
| `PCAPGenerator` | `PCAPGenerator.cc`; `flow_id` and `pkt_id` are `identify_flow_pkt_ids`, `crc32_of` and `toeplitz_of` the fields the hash tools read | any number of generators |
| `Network` | `FourNodes.ned` with two nodes | generators, switch, two complete nodes and Sink; the second node is an instance of `Node` |
| `AssignActions` | `assign_network_functions/main.go` | one trace of its configuration |
| `TracedNode` | a node between a numbered trace and the Sink | adds when packets came in |
| `NodeContract` | abstract | what a node promises to the ring |
| `TorSwitch` | `TorSwitch.cc` in `FourNodes.ned` | the nodes of the ring are `NodeContract` |
| `ProcessingDynamicRSS` | `ProcessingDynamicRSS.cc` in a node | |
| `MC...` | bounded instances for TLC | bounds, fairness, liveness |
| `...Proofs` | theorems and proofs | |

`Processing` and `Offload` are specified each with an open environment and share
only `now` and the connections between them (`Wires`), so that they can be
composed by conjunction in `Node`; that `Node` implements both specifications
is checked (`ProcSpec` and `OffloadSpec` in run `node_balance`) and proved.  The
ring is composed with the contract instead of the node: `TracedNode` implements
`NodeContract` (run `node_offload`, theorem `NodeKeepsContract`), and the actions
`NodeTakes` and `NodeForwards` of `TorSwitch` are those of the contract, written for each
port, so that what holds of the ring holds with real nodes.  `Network` puts everything
together without an abstraction, on a smaller ring: `Tor` is an instance of
`TorSwitch` of which only the handlers are used, and the latency records are written
where the handlers of the three kinds of queues pop a packet.

A definition has the name it has in the code where there is one.  Next to some
definitions stand mutants, marked as such: a change a slip in the code could
make.  No specification uses them; each is there to show that a property
notices (`PROJECT.json`, "mutants").

## What is checked

| run | instance | shows |
|---|---|---|
| `processing` | 2 cores, threshold 1, packets of 1 and 2 instructions, fair | asserts of the handlers, busy counter, overload flags, announcements; refinement of `FifoServers`; every packet is processed; overload flags are taken back |
| `offload` | 3 cores, 2 flows that share a hash table entry but prefer different cores | garbage in the hash table is never used; decisions respect the load; migration only to relief |
| `node_balance` | 2 cores, balancing, a trace of 4 packets of 2 flows, 1 or 4 instructions each | the two views of overload; bursts; reordering only of late packets; refinement of the parts |
| `node_offload` | 1 core, balancing and offloading, fair | output buffer, link; refinement of `NodeContract`; every packet leaves |
| `node_rss` | 2 cores, neither feature | no reordering at all |
| `ring` | 3 nodes, one flow in each direction, 3 packets | hop asserts, position, exactly one copy, serial links |
| `ring_live` | 2 packets, fair | every packet reaches the sink |
| `dynamic_rss` | 2 cores, 3 table entries, 3 flows | the tables agree, the counters balance, one move per interval, only packets that a move found waiting are left behind, and a core without entries counts no others |
| `dynamic_rss_comment` | 3 cores, 4 entries | a comment that does not hold, see below |
| `sink` | 2 flows in one bucket, 3 ids, 4 arrivals, 3 bins, latencies in and around the range | the reorder check counts what was overtaken; each percentile is the least latency in the range that its share of the packets does not exceed |
| `network` | 2 generators with 384 pairs of traces of 3 packets and 2 of 4, 2 nodes with one core each | which traces stop the simulation; offsets of the traces; latency adds up; what comes to a node passes its asserts, its hop count included; reordering only of packets older than the timeout |
| `assign` | 3 flows, 3 actions, every trace of up to 4 packets of 5 kinds, 2 runs, fair | bound on what an action gets; exports within the margin; the tool ends if it can |

Type invariants are not among the invariants of the runs: `ProcTypeOK`,
`OffloadTypeOK`, `NodeTypeOK` and `RingTypeOK` are theorems.  So are `NextHopAllowed`, which
`ImplementsContract` and `DeliveriesExpected` contain, and `NodesAsSpecified`, whose one
assumption on the other parts of the network is `DeliveriesExpected`.

### Bounds, and why they are enough

Every bound is a constant of an MC module (`MaxPackets`, `MaxHeld`, `MaxWire`,
`TraceLen`: packets; `TraceEnd`, `MaxTime`: instants) and is named in a guard;
bounds restrict only what the environment sends and, in `MCOffload` and
`MCDynamicRSS`, how far time goes.  They were chosen by asking TLC for the interesting states first: with two
cores, threshold 1 and four packets there are overloads that are announced and
taken back, flows that change their core, packets that are reordered at the
sink (after the timeout), and packets that wait in the output buffer; with 3
cores "all but one are overloaded" leaves a choice of two; with three nodes a
packet can pass the end of the list of ports in both directions.  The timeout is at
least two instants, so that "just before", "at" and "after" differ; in `node_balance`
it is five and packets take one or four instructions, so that a later packet of a
flow can overtake an earlier one on a slow core before the timeout as well, if the
table let it.

The traces of `network` begin with a packet that occupies its node for long; the
distances between packets include one below, one equal to and one above the
transmission time of a generator's link (`GenTx`), the seconds of the two traces
begin equal or one apart, the options of one flow's packets agree or differ, and the
two traces lead their packets to the same node or to different ones, so
that nodes are overloaded, packets are sent on, and later packets of their flow
overtake them.  Two more pairs of traces (`Burst`) overload both nodes at once, so that a
packet that is sent on must be kept by a node that would send it on as well.  The hash tables start with zeroes there; other contents are
covered by `offload` and `node_offload`.  `MaxArrivals` in `sink` is one more than the
ids of a flow, so that the flows interleave.  In `assign` the flows differ in
size, so that the order decides whether an assignment is within the margin;
with some traces no order is, and the tool goes on for ever.  `withinMargin` compares
exact shares where `main.go:294` compares rounded ones, which differs only for a share
that lies on the margin; none does in the run.

No symmetry is used: flows have different hashes and cores are numbers.

`CHECK_DEADLOCK FALSE` stands in every configuration because the simulation
really stops: when the trace has ended and no timer is set, nothing is left to do.

### Fairness

The kernel executes every event in its list, so each handler that has an event,
and the clock, are weakly fair.  Senders and traces are not: a trace may end at any
time.  In the ring a node is fair in letting each packet go, which is what
`EveryPacketLeaves` establishes for a node.  `OverloadClears` assumes a
threshold of at least one: the reported length counts the packet that is
about to be popped, so that with a threshold of zero no report could clear a
flag.  `AssignActions` shuffles with `rand.Intn`: an order that can be drawn again
and again is drawn at some time, with probability one, which is strong fairness of
`Shuffle` for each order.  The other runs check safety only and state no fairness.

### What some properties tell about the code

* `AbortOnlyByTrace`: beside packets that are out of order or too close for the
  link, one kind of trace ends a simulation: packets of one flow with
  different IP options.  The hash tools read the ports at a fixed offset behind
  the header, the flow ids come from a library that parses options, and
  `PCAPGenerator.cc:178` asserts that a flow has one hash.
* `InStep`: traces that start in different seconds are moved together,
  so that packets of different generators may be sent in another order than they
  were captured in.  Within a trace all distances are kept.
* `LatencyAccounted`: the end-to-end latency of a packet that visits n nodes holds
  2n transmissions and every waiting time; the generation time is set one
  transmission later than the packet's arrival at the switch (the TODO at
  `PCAPGenerator.cc:201`), so that the sum is one transmission too small.
* `PercentilesCorrect`: latencies below the range of a histogram move all recorded
  percentiles upwards, and those above leave the last ones zero.
* `LeftoversCounted`: the core with the highest load may own no entry, and then
  no entry moves (`ProcessingDynamicRSS.cc:92`).  As the counters are reset all the same,
  such a core counts only what was bound to it before, which gets less in every
  interval it spoils: it delays the reassignment but cannot stop it.
* `OvershootBounded`: an action gets at most its share and one flow, also action 0,
  which is given the first flow unasked.

### What a run disagreed with

`ProcessingDynamicRSS.cc:75` says that the table entry to be reassigned is the one
"that causes the highest load on the core that has the highest load".  The code
compares what was executed for each entry on *any* core since the last
reassignment.  Packets that are queued at the old core when an entry moves
are executed there and counted for the entry at its new core, so that an
entry may be moved away from the most loaded core although it caused no
load there; `dynamic_rss_comment` shows it.

## What is proved

TLAPS checks these for all values of the constants that satisfy the stated
assumptions: any number of cores (up to 255), flows, table sizes (below 65536),
thresholds, timeouts, hash functions and initial garbage, and, unlike the
runs, without a bound on packets or time.

Every safety property that a passing run checks is proved, but for the one named
at the end of this section; so are the refinements of abstract specifications.

* `NodeProofs`, the parts of a node.  Of `Processing`: types, `CoreConsistent`,
  `BusyCountExact`, `OverloadMeansBacklog`, `OneAnnouncementPerQueue`, and the
  refinement of `FifoServers` (`ProcessingImplementsServers`).  `CoreInv` (types and
  `CoreConsistent`) is inductive only with the shape of the packets under way, since a
  handler trusts their queue number.  The counter needs that the set of busy
  cores is finite and grows or shrinks by one element.  `OverloadMeansBacklog`
  needs `CoreConsistent`: the core pops only with a non-empty queue.  Of `Offload`:
  types, `UninitialisedNeverUsed`, `NextHopAllowed`, `DecisionRespectsLoad`,
  `MigrateOnlyToRelief`.  `OffloadInv` adds to the first
  two that packets under way have the shape and hop counts of
  `ArrivingPackets`; the two action properties follow from it, and from a lemma
  that the n-th queue of a set of queues exists and lies in the set.
* `NodeProofs`, the node: it implements `ProcSpec` and `OffloadSpec`, which
  carries every theorem above over to it; `NodeTyped`; `ViewAgrees` from
  `OneAnnouncementPerQueue`; `BufferConsistent` and `LinkSerial`; and
  `BurstsStayTogether`, whose inductive invariant says for every
  packet at a core that its entry either still names that core and was hit no
  earlier than the packet came in, or names another one and was last
  redirected at least the timeout after the packet came in.
* `TracedProofs`: the node implements `NodeContract` (`NodeKeepsContract`), the
  abstraction with which `ring` replaces it.  The proof looks at a node as a
  few first-in-first-out queues (into it, to its cores, at each core, finished, sent on,
  at the link), of which every event only appends to one, takes the
  head of one, or does both (`Came`, `Left`, `Moved`).  `TracedInv` says that no two
  places hold the same packet (`Unique`), that ids are numbers that have been given
  out (`Numbered`), and that whatever waits to leave is fit to leave (`Sendable`: it is
  processed or, if the node offloads, not at its last hop).  Then what the node
  holds is a set that grows by the packet that comes in and shrinks by the one that
  leaves, as the contract wants.
* `TracedProofs`, the order of packets (`LateReorderingOnly` for `ReorderedOnlyIfLate`): the
  queues are stages on the way of a packet (`stage`), and `InLine` says that a packet that is
  behind a later one of its flow is late, that is, the node balances its cores and the packet
  has been in it for longer than the timeout.  Packets at different cores are not compared: only
  when a core is done with a packet does it pass those of its flow at other cores, which
  are late by then (`CompletesLate`).  This is where `BurstsStayTogether` is needed, with
  `TimesInv`: packets came in when they say and in the order of their ids, processing takes
  time, and without balancing the tables name one core for each flow.  Buffer and link are
  one queue (`exits`), in which packets for the next node are not counted.
  `Collected` and `TableKnown` relate the order to what the Sink expects next.  All of it is preserved
  by packets that move on, leave, or come in (`OrderMoved`, `OrderDropped`, `OrderAdded`,
  `OrderCollected`), and what an event does to the queues is known from the proof of the
  contract.
* `RingProofs`: `RingTyped`, `HopAsserts` and `RingPosition` for a ring of any size,
  from a position for every packet (`GoodAt`, `GoodFrom`, `GoodInSink`) and the
  arithmetic of remainders in both directions.  `LinksAreSerial` (`PortSerial`): `SerialInv` relates
  the timer of a port to its link, on which only the packet the timer was set with
  is not due yet.  `PacketsAreConserved` (`ExactlyOnce`): `OnceInv` counts
  how often a packet is in each queue, on each link, in each node and in the sink;
  the sum over all ports is one from its generation on.
* `DynamicProofs`: `TablesAgree` and `OneMovePerInterval`, from one fact: a step
  either leaves tables and clock of reassignment alone (`Keep`), or is the one
  that moves an entry in both tables when the interval is over (`Move`).
  `CountersAgree` (`CountersBalance`): a step adds the same amount to one counter of a
  core and one of an entry, or clears all, and the two sums stay equal.
  `OnlyOldLeftBehind` (`LeftBehindByMove`), and that the node of
  this module implements `ProcSpec` and `OffloadSpec` too.  `LeftoversOnlyShrink`
  (`LeftoversCounted`): what a step adds to the counter of a core is what it takes off the
  sum over the core's queue and the packets on their way to it (`Started`), and Offload
  adds to this sum only where the table names the core (`DispatchStarts`).  It and
  `OnlyOldLeftBehind` assume that the hash table is off (`~Enabled`), as it is in the
  configuration that uses this module.
* `SinkProofs`: `ReorderCountExact`.  `CheckInv` says that the entries of a bucket
  belong to different flows (`Distinct`) and that the entry of each flow knows
  its greatest id and the number of its overtaken packets (`Tracked`).  It relies on no
  packet arriving twice, which is `ExactlyOnce` of the ring.  `PercentilesRecorded`
  (`PercentilesCorrect`): `StatInv` says that each bin counts the latencies that belong in it;
  the loop over the bins then has, after each of them, the values that a
  closed formula gives for the bins so far.
* `AssignProofs`: `NoActionOvershoots` (`OvershootBounded`) and `ExportsAreConsistent`
  (`ExportsMeetMargin`).  `AssignInv` says that a flow's bytes are those of its packets in
  the trace (`Loaded`), that an action's bytes are the sum of those of the flows it was
  given (`Accounted`), and that an attempt that was accepted was within the margin when it
  was made (`AttemptsMeetMargin`).
* `NetworkProofs`: `OnlyTracesAbort` (`AbortOnlyByTrace`) and `GeneratorsInStep` (`InStep`).
  `GenInv` says that a generator has sent the first lines of its trace, each at its
  timestamp less the second the trace starts in, has scheduled the next one (`Played`),
  and knows the flows of the lines it has read and no others (`FlowsKnown`).
* `NetworkProofs`, the way of a packet: `LatenciesAddUp` (`LatencyAccounted`), for any number
  of generators and cores, with both features and with any order of the events of an instant.
  A packet at the Sink tells nothing of where it has been, so that the inductive invariant,
  `JourneyInv`, is about every packet on its way.  `Holdings` puts what the generators' links,
  the switch and both nodes hold into one function from places to packets, and `Placed` says
  of it that no two places hold the same packet, and that each packet fits its place (`Fits`):
  what has been recorded for it, and the instant its present waiting began or its transmission
  ends, account for the time since its generation.  A step that moves a packet writes the
  time it waited to its list, and then it fits the next place with the present instant; all
  other places, whose packets are different ones, have nothing changed in their lists.
  `KeysKnown` makes sure that a new packet finds no list under its key: ids
  do not repeat within a flow (`GenInv`).  The second node has the same lemmas, from the
  instance `Other` of `Node`; both rest on the same relations (`Works`, `Receives`,
  `Departs`) between what a node holds before and after a step.
* `NetworkProofs`, the nodes in the network: `LinksDeliverExpected` (`DeliveriesExpected`) and
  `NodesImplementNode` (`NodesAsSpecified`).  `NodeProofs` and `TracedProofs` look at one node
  and assume of its traffic what `LinkPackets` says; here the generators, the switch and the
  other node are shown to send nothing else, and every event of the network to be one of a
  node or none of it.  So the theorems of `NodeProofs` hold of both nodes.  For this
  `JourneyInv` also says what a packet may carry at each place (`Shaped`): outside a node no
  core and no port, at its output either the result or a hop count below the limit.
  Both theorems are stated for nodes that take any packet id (`Ids = Nat`), since a generator
  numbers the packets of a flow without a bound.
* `SumProofs`: facts about sums, counts and numbers that the modules above cite.  The
  library's induction theorems take an operator as a parameter, which the
  backends cannot instantiate; the induction here is over a *set*.  `SubsetInduction` says that a
  family of subsets of a finite set that has each set of which it has all those with one element
  less, has all of them.  Applied to the family of domains on which a recursively defined
  function exists and is unique, it shows that sums and folds are what
  their equations say, in whatever order they pick their elements.

Assumptions on constants are named, stand in the module that declares the
constant, and are evaluated by TLC on every run.

Only model-checked: liveness (`OverloadClears`, `Drains`, `EveryPacketLeaves`,
`ReachesSink`, `FinishesIfFeasible`), since TLAPS does not reason about ENABLED; and
`ReorderedOnlyIfSlow`, for which the argument of `LateReorderingOnly` would have to be
made for two nodes and the switch between them.

## Not modelled, and the plan

Done in this order: Processing with its trigger; Offload; Node; TorSwitch
and the ring; ProcessingDynamicRSS; proofs of each; Sink and its statistics;
generators, latency records and the whole network; assign_network_functions;
proofs about the Sink and ProcessingDynamicRSS; refinements, sums, tool and
generators; the order of packets in a node; the way of
packets through the network.  Left: a proof of `ReorderedOnlyIfSlow`, with the argument of
`LateReorderingOnly` across the nodes of `Network`; `JourneyInv` tells already where its
packets are and since when.

Not modelled: reading, writing and formatting of pcap and text files, the CRC-32 and
Toeplitz functions (the model is correct for any two functions), copying of packets
(`Packet::dup`, which no module calls), packet lengths, the configurations (they
select features and sizes), and OMNeT++ itself, which is modelled only by what the
modules use of it.  A threshold of zero for a node that may offload is not run: no
configuration has one, and the flag would stay set as explained above.
