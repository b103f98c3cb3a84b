------------------------------ MODULE Network -------------------------------
(***************************************************************************)
(* simulator/simulations/nets/FourNodes.ned with all of its modules in     *)
(* full: the generators, the TorSwitch, a ring of two nodes and the Sink,  *)
(* with the latency records the packets gather on their way.  One node has *)
(* the variables of Node, those of the other end in _1.                    *)
(***************************************************************************)
EXTENDS Node, PCAPGenerator, Sink

CONSTANTS
  Crc32,  \* get_crc32_hash() of each flow
  NodeTx  \* transmission time on a link between switch and node

ASSUME NodeTxAssumption == TxTimes = {NodeTx}
ASSUME CrcAssumption == Crc32 \in [Flows -> Nat]

VARIABLES
  rx_queue_1, busy_1, m_n_cores_busy_1, msg_proc_done_1, proc_out_1, out_proc_1,
  m_offload_enabled_1, offloadTriggerOut_1, m_rss_reta_1, m_hashtable_1,
  m_rx_queue_overload_1, offload_in_1, offload_out_1, m_pkt_queue_1,
  m_waiting_for_input_1, m_self_msg_1, port_out_1, received_1,
  m_queues, m_self_msgs, to_node,  \* the TorSwitch
  reported                         \* history: what the Sink has collected

Other == INSTANCE Node WITH
  rx_queue <- rx_queue_1, busy <- busy_1, m_n_cores_busy <- m_n_cores_busy_1,
  msg_proc_done <- msg_proc_done_1, proc_out <- proc_out_1, out_proc <- out_proc_1,
  m_offload_enabled <- m_offload_enabled_1, offloadTriggerOut <- offloadTriggerOut_1,
  m_rss_reta <- m_rss_reta_1, m_hashtable <- m_hashtable_1,
  m_rx_queue_overload <- m_rx_queue_overload_1, offload_in <- offload_in_1,
  offload_out <- offload_out_1, m_pkt_queue <- m_pkt_queue_1,
  m_waiting_for_input <- m_waiting_for_input_1, m_self_msg <- m_self_msg_1,
  port_out <- port_out_1, received <- received_1

\* The handlers of the switch; in place of the rest of its module there are
\* the nodes, generators and the Sink of this one.
Tor == INSTANCE TorSwitch WITH
  NPorts <- 2, MayOffload <- EnableOffload,
  generated <- {}, held <- {}, from_node <- {}, sink <- {}

otherVars ==
  <<now, rx_queue_1, busy_1, m_n_cores_busy_1, msg_proc_done_1, proc_out_1, out_proc_1,
    m_offload_enabled_1, offloadTriggerOut_1, m_rss_reta_1, m_hashtable_1,
    m_rx_queue_overload_1, offload_in_1, offload_out_1, m_pkt_queue_1,
    m_waiting_for_input_1, m_self_msg_1, port_out_1, received_1>>
switchVars == <<m_queues, m_self_msgs, to_node>>
sinkVars == <<m_reorder_check_table, reported>>
netVars == <<nodeVars, otherVars, switchVars, genVars, m_latency, sinkVars>>

NetInit ==
  /\ NodeInit /\ Other!NodeInit
  /\ LatencyInit /\ GenInit /\ SinkInit
  /\ m_queues = [p \in 0..1 |-> <<>>]
  /\ m_self_msgs = [p \in 0..1 |-> Unset]
  /\ to_node = [p \in 0..1 |-> <<>>]
  /\ reported = <<>>

-----------------------------------------------------------------------------
(* The latency records.                                                    *)

\* Processing::process_packet, where it has been called.
recorded_by_core(before, after) ==
  LET started == {c \in Cores : after[c] # before[c] /\ after[c] # NoMsg}
      pkt(c)  == after[c].pkt
  IN  IF started = {} THEN m_latency
      ELSE LET c == CHOOSE c \in started : TRUE
           IN  add_elements(pkt(c),
                 <<LatencyElement("NODE_BUFFER_IN", now - pkt(c).arrival_time),
                   LatencyElement("NODE_PROC", pkt(c).instr)>>)

\* OutputBuffer::send_packet and TorSwitch::send_packet_from_buffer_to_node.
recorded_by_link(type, before, after) ==
  IF Len(after) <= Len(before) THEN m_latency
  ELSE add_elements(Last(after).pkt,
         <<LatencyElement(type, now - Last(after).pkt.arrival_time)>>)

recorded_by_tor(before, after) ==
  LET grown == {p \in 0..1 : Len(after[p]) > Len(before[p])}
  IN  IF grown = {} THEN m_latency
      ELSE LET p == CHOOSE p \in grown : TRUE
           IN  recorded_by_link("TOR", before[p], after[p])

-----------------------------------------------------------------------------
(* The events.                                                             *)

Generate(g) ==
  /\ GenInitialize(g) \/ GenHandleMessage(g)
  /\ UNCHANGED <<nodeVars, otherVars, switchVars, sinkVars>>

\* TorSwitch::handle_packet, a packet from a generator.
SwitchTakes(g) ==
  /\ gen_out[g] # <<>> /\ Head(gen_out[g]).at = now
  /\ gen_out' = [gen_out EXCEPT ![g] = Tail(@)]
  /\ LET pkt == Head(gen_out[g]).pkt
     IN  Tor!send_packet_to_node(pkt, Tor!select_output_port(pkt.flow))
  /\ m_latency' = recorded_by_tor(to_node, to_node')
  /\ UNCHANGED <<nodeVars, otherVars, sinkVars, traces, n_read, m_pcap_offset_sec,
                 m_flows, m_gen_msg, sent, failed>>

SwitchNext(port) ==
  /\ Tor!HandleSelf(port)
  /\ m_latency' = recorded_by_tor(to_node, to_node')
  /\ UNCHANGED <<nodeVars, otherVars, sinkVars, genVars>>

due(port) == to_node[port] # <<>> /\ Head(to_node[port]).at = now

link_delivers(port) ==
  /\ to_node' = [to_node EXCEPT ![port] = Tail(@)]
  /\ UNCHANGED <<m_queues, m_self_msgs, sinkVars, genVars, m_latency>>

NodeReceives ==
  /\ due(0)
  /\ Receive(delivered(Head(to_node[0]).pkt, now))
  /\ link_delivers(0)
  /\ UNCHANGED otherVars

OtherReceives ==
  /\ due(1)
  /\ Other!Receive(delivered(Head(to_node[1]).pkt, now))
  /\ link_delivers(1)
  /\ UNCHANGED nodeVars

NodeWorks ==
  /\ \/ Dispatch \/ LearnOverload \/ OutputProcessed \/ OutputOffloaded \/ OutputNext
     \/ Enqueue
     \/ \E m \in Cores : Complete(m)
  /\ m_latency' = IF UNCHANGED port_out
                  THEN recorded_by_core(msg_proc_done, msg_proc_done')
                  ELSE recorded_by_link("NODE_BUFFER_OUT", port_out, port_out')
  /\ UNCHANGED <<otherVars, switchVars, genVars, sinkVars>>

OtherWorks ==
  /\ \/ Other!Dispatch \/ Other!LearnOverload \/ Other!OutputProcessed
     \/ Other!OutputOffloaded \/ Other!OutputNext
     \/ Other!Enqueue
     \/ \E m \in Cores : Other!Complete(m)
  /\ m_latency' = IF UNCHANGED port_out_1
                  THEN recorded_by_core(msg_proc_done_1, msg_proc_done_1')
                  ELSE recorded_by_link("NODE_BUFFER_OUT", port_out_1, port_out_1')
  /\ UNCHANGED <<nodeVars, switchVars, genVars, sinkVars>>

\* Sink::handleMessage.
SinkTakes(pkt) ==
  LET lat == m_latency[<<pkt.flow, pkt.id>>]
  IN  /\ reorder_check(pkt.flow, pkt.id)
      /\ reported' = Append(reported,
           [flow |-> pkt.flow, id |-> pkt.id, hop_cnt |-> pkt.hop_cnt,
            end_to_end |-> get_end_to_end_latency(lat),
            parts |-> [t \in LatencyTypes |-> get_total_latency_by_type(lat, t)]])

\* TorSwitch::handle_packet, a packet from a node; a processed one goes to the
\* Sink without delay.
from_node(pkt, port) ==
  \/ /\ pkt.processing_done
     /\ SinkTakes(pkt)
     /\ UNCHANGED <<switchVars, m_latency>>
  \/ /\ ~pkt.processing_done
     /\ Tor!send_packet_to_node(delivered(pkt, now), Tor!next_port(pkt.flow, port))
     /\ m_latency' = recorded_by_tor(to_node, to_node')
     /\ UNCHANGED sinkVars

NodeSends ==
  /\ Depart
  /\ from_node(Head(port_out).pkt, 0)
  /\ UNCHANGED <<otherVars, genVars>>

OtherSends ==
  /\ Other!Depart
  /\ from_node(Head(port_out_1).pkt, 1)
  /\ UNCHANGED <<nodeVars, genVars>>

SwitchQuiet ==
  \A p \in 0..1 :
    /\ m_self_msgs[p] # now
    /\ \A i \in DOMAIN to_node[p] : to_node[p][i].at > now

\* The kernel stops when no event is left.
EventsLeft ==
  \/ \E g \in Generators : m_gen_msg[g] # NoPacket \/ gen_out[g] # <<>>
  \/ \E p \in 0..1 : m_self_msgs[p] # Unset
  \/ \E c \in Cores : msg_proc_done[c] # NoMsg \/ msg_proc_done_1[c] # NoMsg
  \/ m_self_msg # Unset \/ m_self_msg_1 # Unset

NetTick ==
  /\ EventsLeft /\ GenQuiet /\ SwitchQuiet
  /\ NodeTick /\ Other!NodeTick
  /\ UNCHANGED <<switchVars, genVars, m_latency, sinkVars>>

NetNext ==
  /\ ~failed
  /\ \/ \E g \in Generators : Generate(g) \/ SwitchTakes(g)
     \/ \E port \in 0..1 : SwitchNext(port)
     \/ NodeReceives \/ NodeWorks \/ NodeSends
     \/ OtherReceives \/ OtherWorks \/ OtherSends
     \/ NetTick

NetSpec == NetInit /\ [][NetNext]_netVars

-----------------------------------------------------------------------------
(* Properties.                                                             *)

\* The end-to-end latency of a packet that the Sink collects is the sum of what
\* the modules on its way have recorded, and of its transmissions: two on the
\* links of each node it was in, less the one on its generator's link that
\* t_generation counts too much.  Whatever order the events of an instant are
\* executed in, no waiting time is missed, counted twice or carried from one
\* queue to the next by an outdated arrival time.
LatencyAccounted ==
  \A i \in DOMAIN reported :
    reported[i].end_to_end =
      SumFunction(reported[i].parts) + 2 * reported[i].hop_cnt * NodeTx - GenTx

\* A packet is reported as reordered only if it has been in the network for
\* longer than the hash table timeout, however often it and the packets that
\* overtook it have been sent on to the other node.
ReorderedOnlyIfSlow ==
  [][\A f \in Flows :
       n_reordered(f)' # n_reordered(f) =>
         now > m_latency[<<f, Last(reported').id>>].t_generation - GenTx
                 + HashtableEntryTimeout]_netVars

\* A packet that is due at a node is one that its asserts let pass, whatever has
\* happened to it before: it carries nothing of another node, neither a core nor
\* an arrival port, although it brings its node context along, it has not been
\* processed, and its hop count is zero where nothing is offloaded and below the
\* maximum where it is.
DeliveriesExpected ==
  \A p \in 0..1 : due(p) => delivered(Head(to_node[p]).pkt, now) \in LinkPackets

\* In the network both nodes behave as Node specifies, although they share a
\* clock and their traffic is what the generators, the switch and the other node
\* make of it: what holds of a node on its own holds of each of them.
NodesAsSpecified == NodeSpec /\ Other!NodeSpec
=============================================================================
