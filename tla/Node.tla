-------------------------------- MODULE Node --------------------------------
(***************************************************************************)
(* simulator/src/modules/node/Node.ned: one node of the network, that is   *)
(* Ingress, Offload, OffloadTrigger, Processing and OutputBuffer with the  *)
(* connections between them.  Each action is one event of the simulation   *)
(* kernel: a handler of one module, the others being left alone.  The node *)
(* has one port, as in FourNodes.ned.                                      *)
(***************************************************************************)
EXTENDS Processing, Offload, OutputBuffer

\* enabled = enable_balance_cores || enable_offload
ASSUME WiringAssumption == TriggerEnabled = Enabled

VARIABLE received  \* has the link delivered a packet at this instant?

nodeVars ==
  <<procVars, tableVars, offload_in, offload_out, outVars, received>>

\* What may arrive on the link: a packet that was not processed in another
\* node and whose hop count the TorSwitch lets pass.
LinkPackets ==
  [flow : Flows, id : Ids, instr : Instrs,
   hop_cnt : IF EnableOffload THEN 0 .. MaxHopCnt - 1 ELSE {0},
   rx_queue : {Unset}, arrival_port_id : {Unset}, processing_done : {FALSE},
   arrival_time : {now}]

NodeTypeOK ==
  /\ ProcTypeOK
  /\ OffloadTypeOK
  /\ OutTypeOK
  /\ received \in BOOLEAN

NodeInit == ProcInit /\ OffloadInit /\ OutInit /\ received = FALSE

-----------------------------------------------------------------------------
\* Mutant: Ingress does not write the arrival port to the packet.
Receive_unmarked(pkt) ==
  /\ ~received
  /\ received' = TRUE
  /\ offload_in' = Append(offload_in, delivered(pkt, now))
  /\ UNCHANGED <<procVars, tableVars, offload_out, outVars>>

\* Ingress::handleMessage.  A transmission takes time, so the link delivers at
\* most one packet per instant.
Receive(pkt) ==
  /\ ~received
  /\ received' = TRUE
  /\ offload_in' = Append(offload_in, delivered(set_arrival_port_id(pkt, 0), now))
  /\ UNCHANGED <<procVars, tableVars, offload_out, outVars>>

Dispatch ==
  /\ OffloadHandlePkt
  /\ UNCHANGED <<coreVars, proc_out, m_offload_enabled, outVars, received>>

LearnOverload ==
  /\ OffloadHandleTrigger
  /\ UNCHANGED <<coreVars, proc_out, m_offload_enabled, outVars, received>>

Enqueue ==
  /\ HandlePacket
  /\ UNCHANGED <<tableVars, offload_in, offload_out, outVars, received>>

Complete(m) ==
  /\ HandleProcDone(m)
  /\ UNCHANGED <<tableVars, offload_in, offload_out, outVars, received>>

OutputProcessed ==
  /\ TakeProcessed
  /\ OutHandlePacket(Head(proc_out))
  /\ UNCHANGED <<tableVars, offload_in, offload_out, received>>

OutputOffloaded ==
  /\ TakeOffloaded
  /\ OutHandlePacket(Head(offload_out))
  /\ UNCHANGED <<coreVars, proc_out, m_offload_enabled, received>>

OutputNext ==
  /\ OutHandleSelf
  /\ UNCHANGED <<procVars, tableVars, offload_in, offload_out, received>>

Depart ==
  /\ LinkDelivers
  /\ UNCHANGED <<procVars, tableVars, offload_in, offload_out, received>>

NodeQuiet == ProcQuiet /\ OffloadQuiet /\ OutQuiet

NodeTick ==
  /\ NodeQuiet
  /\ now' = now + 1
  /\ received' = FALSE
  /\ UNCHANGED <<out_proc, coreVars, proc_out, triggerVars, tableVars,
                 offload_in, offload_out, outVars>>

NodeNext ==
  \/ \E pkt \in LinkPackets : Receive(pkt)
  \/ Dispatch
  \/ LearnOverload
  \/ Enqueue
  \/ \E m \in Cores : Complete(m)
  \/ OutputProcessed
  \/ OutputOffloaded
  \/ OutputNext
  \/ Depart
  \/ NodeTick

NodeSpec == NodeInit /\ [][NodeNext]_nodeVars

-----------------------------------------------------------------------------
(* Properties.                                                             *)

\* Offload's copy of a queue's state differs from OffloadTrigger's only while
\* the announcement of the change is on its way, and a message on its way
\* always carries the current state: once the events of an instant have been
\* executed the two agree.
ViewAgrees ==
  \A q \in Cores :
    m_rx_queue_overload[q] # m_offload_enabled[q] =>
      \E i \in DOMAIN offloadTriggerOut :
        offloadTriggerOut[i] = [queueId |-> q, active |-> m_offload_enabled[q]]

\* The packets of core c that are not processed yet.
atCore(c) ==
  {out_proc[i] : i \in {j \in DOMAIN out_proc : out_proc[j].rx_queue = c}} \cup
  {rx_queue[c][i] : i \in DOMAIN rx_queue[c]} \cup
  IF busy[c] THEN {msg_proc_done[c].pkt} ELSE {}

\* Two packets of the same hash table entry, and therefore any two packets of
\* a flow, wait at different cores of a node only if they arrived at least the
\* entry's timeout apart: a burst shorter than that is never split.
BurstsStayTogether ==
  \A c, d \in Cores : c # d =>
    \A p \in atCore(c), r \in atCore(d) :
      entry(p) = entry(r) =>
        \/ p.arrival_time >= r.arrival_time + HashtableEntryTimeout
        \/ r.arrival_time >= p.arrival_time + HashtableEntryTimeout
=============================================================================
