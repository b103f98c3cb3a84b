----------------------------- MODULE TracedNode -----------------------------
(***************************************************************************)
(* A Node between a trace and the Sink.  The trace numbers the packets of  *)
(* each flow 0, 1, 2, ... (the .ids files) and all packets of a flow come  *)
(* to this node after the same number of hops (TorSwitch.cc).  TorSwitch   *)
(* passes a processed packet on to the Sink without delay.                 *)
(***************************************************************************)
EXTENDS Node, Sink

CONSTANT HopOf  \* hop count with which the packets of a flow arrive

ASSUME HopOfAssumption == HopOf \in [Flows -> 0 .. MaxHopCnt - 1]

VARIABLE entered  \* entered[f][i + 1]: when packet i of flow f came in

tracedVars == <<nodeVars, m_reorder_check_table, entered>>

TracedInit ==
  /\ NodeInit
  /\ SinkInit
  /\ entered = [f \in Flows |-> <<>>]

TracedReceive(pkt) ==
  /\ pkt.id = Len(entered[pkt.flow])
  /\ pkt.hop_cnt = HopOf[pkt.flow]
  /\ Receive(pkt)
  /\ entered' = [entered EXCEPT ![pkt.flow] = Append(@, now)]
  /\ UNCHANGED m_reorder_check_table

\* The packet leaves the link for the TorSwitch, a processed one for the Sink.
TracedDepart ==
  /\ Depart
  /\ LET pkt == Head(port_out).pkt
     IN  \/ /\ pkt.processing_done
            /\ reorder_check(pkt.flow, pkt.id)
         \/ /\ ~pkt.processing_done
            /\ UNCHANGED m_reorder_check_table
  /\ UNCHANGED entered

Inside ==
  \/ Dispatch
  \/ LearnOverload
  \/ Enqueue
  \/ \E m \in Cores : Complete(m)
  \/ OutputProcessed
  \/ OutputOffloaded
  \/ OutputNext
  \/ NodeTick

TracedNext ==
  \/ \E pkt \in LinkPackets : TracedReceive(pkt)
  \/ TracedDepart
  \/ Inside /\ UNCHANGED <<m_reorder_check_table, entered>>

TracedSpec == TracedInit /\ [][TracedNext]_tracedVars

-----------------------------------------------------------------------------
(* The node as the ring sees it.                                           *)

items(s) == {s[i] : i \in DOMAIN s}

held ==
  {[flow |-> p.flow, id |-> p.id, hop_cnt |-> p.hop_cnt] :
     p \in items(offload_in) \cup items(offload_out) \cup items(out_proc) \cup
           items(proc_out) \cup items(m_pkt_queue) \cup
           (UNION {items(rx_queue[c]) : c \in Cores}) \cup
           {msg_proc_done[c].pkt : c \in {d \in Cores : busy[d]}}}

link ==
  [i \in DOMAIN port_out |->
     LET p == port_out[i].pkt
     IN  [flow |-> p.flow, id |-> p.id, hop_cnt |-> p.hop_cnt,
          done |-> p.processing_done]]

Contract == INSTANCE NodeContract WITH MayOffload <- EnableOffload

\* No event order loses or duplicates a packet, sends on an unprocessed packet
\* that may not hop any more, or counts a hop twice.
ImplementsContract ==
  Contract!ContractInit /\
  [][Contract!ContractNext([flow : Flows, id : Ids, hop_cnt : 0 .. MaxHopCnt - 1])]_<<held, link>>

-----------------------------------------------------------------------------
(* Properties.                                                             *)

\* The Sink reports a packet as reordered only if the node distributes flows
\* over its cores by load, and only if the packet has been in the node for
\* longer than the hash table timeout: then a later packet of its flow may
\* have found the entry expired and have been given a faster core.
ReorderedOnlyIfLate ==
  [][\A f \in Flows :
       n_reordered(f)' # n_reordered(f) =>
         /\ EnableBalanceCores
         /\ now > entered[f][Head(port_out).pkt.id + 1] + HashtableEntryTimeout]_tracedVars
=============================================================================
