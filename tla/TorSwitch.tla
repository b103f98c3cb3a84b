----------------------------- MODULE TorSwitch ------------------------------
(***************************************************************************)
(* simulator/src/modules/TorSwitch.cc in its network FourNodes.ned: the    *)
(* switch gives every flow a node to start at and sends what that node     *)
(* does not process around a ring, until a node does process it.  The      *)
(* nodes are as NodeContract says, that is, they may offload or keep any   *)
(* packet for any time and reorder them at will.                           *)
(***************************************************************************)
EXTENDS Integers, Sequences, FiniteSets, Functions

CONSTANTS
  NPorts,     \* m_n_ports_nodes, one node and one sink port for each
  MaxHopCnt,  \* max_hop_cnt of the nodes
  MayOffload, \* enable_offload of the nodes
  Flows,
  Ids,
  Crc32,      \* get_crc32_hash() of each flow
  Toeplitz,   \* get_toeplitz_hash() of each flow
  TxTimes     \* transmission times of packets on the links to the nodes

\* FourNodes.ned gives the nodes as many hops as there are nodes.
ASSUME RingAssumption ==
  /\ NPorts \in 1..255 /\ MaxHopCnt \in 1 .. NPorts /\ MayOffload \in BOOLEAN
  /\ Crc32 \in [Flows -> Nat] /\ Toeplitz \in [Flows -> Nat]
  /\ Ids \subseteq Nat
  /\ TxTimes \subseteq Nat \ {0} /\ TxTimes # {}

VARIABLES
  now,
  generated,    \* the packets the trace has delivered so far
  m_queues,     \* of each port
  m_self_msgs,  \* the instant each is scheduled for, or Unset
  to_node,      \* links to the nodes: packets and when they arrive
  held,         \* the packets in each node
  from_node,    \* links from the nodes
  sink          \* what has arrived at the sink, and from which node

switchVars == <<m_queues, m_self_msgs, to_node>>
ringVars == <<now, generated, switchVars, held, from_node, sink>>

Ports == 0 .. NPorts - 1
Unset == -1

Unprocessed == [flow : Flows, id : Ids, hop_cnt : 0..255]
Forwarded   == [flow : Flows, id : Ids, hop_cnt : 0..255, done : BOOLEAN]

RingTypeOK ==
  /\ now \in Nat
  /\ generated \subseteq Flows \X Ids
  /\ m_queues \in [Ports -> Seq(Unprocessed)]
  /\ m_self_msgs \in [Ports -> Nat \cup {Unset}]
  /\ to_node \in [Ports -> Seq([pkt : Unprocessed, at : Nat])]
  /\ held \in [Ports -> SUBSET Unprocessed]
  /\ from_node \in [Ports -> Seq(Forwarded)]
  /\ sink \in Seq([pkt : Forwarded, port : Ports])

RingInit ==
  /\ now = 0
  /\ generated = {}
  /\ m_queues = [p \in Ports |-> <<>>]
  /\ m_self_msgs = [p \in Ports |-> Unset]
  /\ to_node = [p \in Ports |-> <<>>]
  /\ held = [p \in Ports |-> {}]
  /\ from_node = [p \in Ports |-> <<>>]
  /\ sink = <<>>

-----------------------------------------------------------------------------
select_output_port(f) == Crc32[f] % NPorts

\* Mutant: the direction is taken from the other hash.
next_port_crc(f, port) ==
  IF Crc32[f] % 2 = 0 THEN (port + 1) % NPorts
  ELSE IF port > 0 THEN port - 1 ELSE NPorts - 1

\* The next node of the ring, "right" or "left" of this one.
next_port(f, port) ==
  IF Toeplitz[f] % 2 = 0 THEN (port + 1) % NPorts
  ELSE IF port > 0 THEN port - 1 ELSE NPorts - 1

\* queue is the content of the port's queue when the method is called.
send_packet_from_buffer_to_node(port, queue) ==
  \E tx \in TxTimes :
    /\ m_queues' = [m_queues EXCEPT ![port] = Tail(queue)]
    /\ to_node' = [to_node EXCEPT ![port] =
                     Append(@, [pkt |-> Head(queue), at |-> now + tx])]
    /\ m_self_msgs' = [m_self_msgs EXCEPT ![port] = now + tx]

\* Mutant: a packet for a link that is occupied is dropped.
send_packet_to_node_dropping(pkt, port) ==
  \/ m_self_msgs[port] = Unset /\ send_packet_from_buffer_to_node(port, <<pkt>>)
  \/ m_self_msgs[port] # Unset /\ UNCHANGED switchVars

\* Mutant: a packet is sent although the link is occupied.
send_packet_to_node_rash(pkt, port) ==
  send_packet_from_buffer_to_node(port, Append(m_queues[port], pkt))

\* A self-message that is due and not delivered yet is still scheduled.
send_packet_to_node(pkt, port) ==
  LET queue == Append(m_queues[port], pkt)
  IN  \/ /\ m_self_msgs[port] = Unset
         /\ send_packet_from_buffer_to_node(port, queue)
      \/ /\ m_self_msgs[port] # Unset
         /\ m_queues' = [m_queues EXCEPT ![port] = queue]
         /\ UNCHANGED <<m_self_msgs, to_node>>

send_packet_to_sink(pkt, port) == sink' = Append(sink, [pkt |-> pkt, port |-> port])

\* handle_packet: a packet arrives from a generator.
HandleGenerated(f, id) ==
  /\ <<f, id>> \notin generated
  /\ generated' = generated \cup {<<f, id>>}
  /\ send_packet_to_node([flow |-> f, id |-> id, hop_cnt |-> 0], select_output_port(f))
  /\ UNCHANGED <<now, held, from_node, sink>>

\* handle_packet: a packet arrives from a node.
HandleFromNode(port) ==
  /\ from_node[port] # <<>>
  /\ from_node' = [from_node EXCEPT ![port] = Tail(@)]
  /\ LET pkt == Head(from_node[port])
     IN  \/ /\ pkt.done
            /\ send_packet_to_sink(pkt, port)
            /\ UNCHANGED switchVars
         \/ /\ ~pkt.done
            /\ send_packet_to_node([flow |-> pkt.flow, id |-> pkt.id, hop_cnt |-> pkt.hop_cnt],
                                   next_port(pkt.flow, port))
            /\ UNCHANGED sink
  /\ UNCHANGED <<now, generated, held>>

\* Mutant: the port becomes idle although packets are in its queue.
HandleSelf_forgetful(port) ==
  /\ m_self_msgs[port] = now
  /\ m_self_msgs' = [m_self_msgs EXCEPT ![port] = Unset]
  /\ UNCHANGED <<m_queues, to_node, now, generated, held, from_node, sink>>

\* handleMessage: the self-message of the port says that its link is free.
HandleSelf(port) ==
  /\ m_self_msgs[port] = now
  /\ \/ /\ m_queues[port] = <<>>
        /\ m_self_msgs' = [m_self_msgs EXCEPT ![port] = Unset]
        /\ UNCHANGED <<m_queues, to_node>>
     \/ /\ m_queues[port] # <<>>
        /\ send_packet_from_buffer_to_node(port, m_queues[port])
  /\ UNCHANGED <<now, generated, held, from_node, sink>>

-----------------------------------------------------------------------------
(* The nodes, each as NodeContract, and the clock.                         *)

NodeTakes(port) ==
  /\ to_node[port] # <<>>
  /\ Head(to_node[port]).at = now
  /\ to_node' = [to_node EXCEPT ![port] = Tail(@)]
  /\ held' = [held EXCEPT ![port] = @ \cup {Head(to_node[port]).pkt}]
  /\ UNCHANGED <<now, generated, m_queues, m_self_msgs, from_node, sink>>

\* Mutant: the last node is not forced to process the packet.
NodeForwards_unforced(port, p, done) ==
  /\ p \in held[port]
  /\ done \/ MayOffload
  /\ held' = [held EXCEPT ![port] = @ \ {p}]
  /\ from_node' = [from_node EXCEPT ![port] =
       Append(@, [flow |-> p.flow, id |-> p.id, hop_cnt |-> p.hop_cnt + 1, done |-> done])]
  /\ UNCHANGED <<now, generated, switchVars, sink>>

NodeForwards(port, p, done) ==
  /\ p \in held[port]
  /\ done \/ (MayOffload /\ p.hop_cnt + 1 < MaxHopCnt)
  /\ held' = [held EXCEPT ![port] = @ \ {p}]
  /\ from_node' = [from_node EXCEPT ![port] =
       Append(@, [flow |-> p.flow, id |-> p.id, hop_cnt |-> p.hop_cnt + 1, done |-> done])]
  /\ UNCHANGED <<now, generated, switchVars, sink>>

\* Time matters only while a link to a node is occupied.
RingTick ==
  /\ \E port \in Ports : m_self_msgs[port] # Unset
  /\ \A port \in Ports :
       /\ m_self_msgs[port] # now
       /\ \A i \in DOMAIN to_node[port] : to_node[port][i].at > now
  /\ now' = now + 1
  /\ UNCHANGED <<generated, switchVars, held, from_node, sink>>

RingNext ==
  \/ \E f \in Flows, id \in Ids : HandleGenerated(f, id)
  \/ \E port \in Ports : HandleFromNode(port)
  \/ \E port \in Ports : HandleSelf(port)
  \/ \E port \in Ports : NodeTakes(port)
  \/ \E port \in Ports : \E p \in held[port], done \in BOOLEAN : NodeForwards(port, p, done)
  \/ RingTick

RingSpec == RingInit /\ [][RingNext]_ringVars

\* The kernel executes every event of its list, and a node lets every packet
\* go in the end (EveryPacketLeaves of MCTracedNode).
RingFairness ==
  /\ \A port \in Ports : WF_ringVars(HandleFromNode(port))
  /\ \A port \in Ports : WF_ringVars(HandleSelf(port))
  /\ \A port \in Ports : WF_ringVars(NodeTakes(port))
  /\ \A port \in Ports : \A f \in Flows, id \in Ids :
       WF_ringVars(\E p \in held[port], done \in BOOLEAN :
                     p.flow = f /\ p.id = id /\ NodeForwards(port, p, done))
  /\ WF_ringVars(RingTick)

RingFairSpec == RingSpec /\ RingFairness

-----------------------------------------------------------------------------
(* Properties.                                                             *)

items(s) == {s[i] : i \in DOMAIN s}

\* Unprocessed packets on their way to a node, or in it.
atPort(port) ==
  items(m_queues[port]) \cup {m.pkt : m \in items(to_node[port])} \cup held[port]

\* The ASSERTs of handle_packet and of Offload::handle_pkt: a packet that is
\* not processed yet has not been around the ring, and a processed one has not
\* been at more nodes than there are.
HopAsserts ==
  \A port \in Ports :
    /\ \A p \in atPort(port) : p.hop_cnt < MaxHopCnt
    /\ \A p \in items(from_node[port]) : p.hop_cnt <= NPorts /\ (~p.done => p.hop_cnt < NPorts)

\* The node a packet of flow f is sent to after hops hops.
node_after(f, hops) ==
  (Crc32[f] + (IF Toeplitz[f] % 2 = 0 THEN hops ELSE 0 - hops)) % NPorts

\* Wherever a packet is, its hop count tells its distance from the first node
\* of its flow in the direction of the flow: it never visits a node twice, all
\* packets of a flow come to a node with the same hop count, and the sink port
\* is the one of the node that processed the packet.
RingPosition ==
  /\ \A port \in Ports :
       /\ \A p \in atPort(port) : port = node_after(p.flow, p.hop_cnt)
       /\ \A p \in items(from_node[port]) : port = node_after(p.flow, p.hop_cnt - 1)
  /\ \A i \in DOMAIN sink :
       sink[i].port = node_after(sink[i].pkt.flow, sink[i].pkt.hop_cnt - 1)

\* How often packet id of flow f is at a port and its node, and in the network.
copies_at(port, f, id) ==
  LET among(s) == Cardinality({i \in DOMAIN s : s[i].flow = f /\ s[i].id = id})
  IN  among(m_queues[port]) + among(from_node[port]) +
      Cardinality({i \in DOMAIN to_node[port] :
                     to_node[port][i].pkt.flow = f /\ to_node[port][i].pkt.id = id}) +
      Cardinality({p \in held[port] : p.flow = f /\ p.id = id})

copies(f, id) ==
  SumFunction([port \in Ports |-> copies_at(port, f, id)]) +
  Cardinality({i \in DOMAIN sink : sink[i].pkt.flow = f /\ sink[i].pkt.id = id})

\* A packet that was generated is at exactly one place of the network at any
\* time, the sink included: none is lost and none is processed twice.
ExactlyOnce ==
  \A f \in Flows, id \in Ids :
    copies(f, id) = IF <<f, id>> \in generated THEN 1 ELSE 0

\* The ASSERT of send_packet_from_buffer_to_node: packets are put on a link one
\* after the other, also when one arrives at the instant the link becomes free.
PortSerial ==
  \A port \in Ports :
    /\ m_self_msgs[port] = Unset => m_queues[port] = <<>>
    /\ \A i, j \in DOMAIN to_node[port] :
         i < j => to_node[port][i].at < to_node[port][j].at
    /\ \A i \in DOMAIN to_node[port] :
         to_node[port][i].at > now => to_node[port][i].at = m_self_msgs[port]

\* Every packet reaches the sink, whatever the nodes offload: none circles the
\* ring for ever or starves behind others.
ReachesSink ==
  \A f \in Flows, id \in Ids :
    <<f, id>> \in generated ~>
      \E i \in DOMAIN sink : sink[i].pkt.flow = f /\ sink[i].pkt.id = id
=============================================================================
