---------------------------- MODULE MCProcessing ----------------------------
(* Bounded instance of Processing for TLC. *)
EXTENDS Processing, FiniteSetsExt

CONSTANTS
  MaxPackets,  \* packets in the module and on its connections at once
  TraceEnd     \* the last instant at which a packet comes in

resident ==
  Len(out_proc) + Len(proc_out) +
  MapThenSumSet(LAMBDA c : Len(rx_queue[c]) + IF busy[c] THEN 1 ELSE 0, Cores)

BoundedSend ==
  now <= TraceEnd /\ resident < MaxPackets /\ \E pkt \in LocalPackets : SendLocal(pkt)

\* The simulation ends when the trace has ended and no self-message is left.
BoundedTick ==
  /\ now < TraceEnd \/ \E c \in Cores : msg_proc_done[c] # NoMsg
  /\ ProcTick

MCNext ==
  \/ HandlePacket
  \/ \E m \in Cores : HandleProcDone(m)
  \/ BoundedSend
  \/ TakeProcessed
  \/ TakeTrigger
  \/ BoundedTick

\* The kernel executes every event of its list: each handler that has an event
\* and the clock are fair, the senders are not.
MCFairness ==
  /\ WF_procVars(HandlePacket)
  /\ \A m \in Cores : WF_procVars(HandleProcDone(m))
  /\ WF_procVars(TakeProcessed)
  /\ WF_procVars(TakeTrigger)
  /\ WF_procVars(BoundedTick)

MCSpec == ProcInit /\ [][MCNext]_procVars

MCFairSpec == MCSpec /\ MCFairness

\* An overload flag never sticks: with a threshold of at least one packet,
\* once no new packets come in, the core works off its queue and the last
\* report clears the flag again.
OverloadClears == \A c \in Cores : m_offload_enabled[c] ~> ~m_offload_enabled[c]

\* Every packet that was handed over is processed and sent on, whatever its
\* queue looked like: in the end all queues are empty and all cores idle.
Drains ==
  <>[](/\ resident = 0
       /\ \A c \in Cores : msg_proc_done[c] = NoMsg)
=============================================================================
