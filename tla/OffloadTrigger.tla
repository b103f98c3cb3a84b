--------------------------- MODULE OffloadTrigger ---------------------------
(***************************************************************************)
(* simulator/src/modules/node/OffloadTrigger.cc: overload detection.       *)
(* Processing calls report_queue_len synchronously each time a core is     *)
(* about to pop a packet; a change of the queue's state is announced to    *)
(* the Offload module by a message.                                        *)
(***************************************************************************)
EXTENDS Wires

CONSTANTS
  TriggerEnabled,  \* "enabled": enable_balance_cores || enable_offload
  Threshold        \* "threshold", in packets

ASSUME TriggerAssumption == TriggerEnabled \in BOOLEAN /\ Threshold \in Nat

VARIABLE m_offload_enabled  \* is queue q currently reported as overloaded?

triggerVars == <<m_offload_enabled, offloadTriggerOut>>

TriggerInit == m_offload_enabled = [q \in Cores |-> FALSE]

\* Mutant: the message is filled in with the flag as it was before the change.
set_offload_enable_stale(q, enable) ==
  /\ m_offload_enabled' = [m_offload_enabled EXCEPT ![q] = enable]
  /\ offloadTriggerOut' =
       Append(offloadTriggerOut, [queueId |-> q, active |-> m_offload_enabled[q]])

set_offload_enable(q, enable) ==
  /\ m_offload_enabled' = [m_offload_enabled EXCEPT ![q] = enable]
  /\ offloadTriggerOut' =
       Append(offloadTriggerOut, [queueId |-> q, active |-> enable])

\* Mutant: a queue that has become short again is not reported.
report_queue_len_sticky(q, len) ==
  \/ /\ TriggerEnabled
     /\ ~m_offload_enabled[q] /\ len > Threshold
     /\ set_offload_enable(q, TRUE)
  \/ /\ TriggerEnabled => m_offload_enabled[q] \/ len <= Threshold
     /\ UNCHANGED triggerVars

report_queue_len(q, len) ==
  \/ /\ TriggerEnabled
     /\ m_offload_enabled[q] /\ len <= Threshold
     /\ set_offload_enable(q, FALSE)
  \/ /\ TriggerEnabled
     /\ ~m_offload_enabled[q] /\ len > Threshold
     /\ set_offload_enable(q, TRUE)
  \/ /\ TriggerEnabled => (m_offload_enabled[q] <=> len > Threshold)
     /\ UNCHANGED triggerVars
=============================================================================
