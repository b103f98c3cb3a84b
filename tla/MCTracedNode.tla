---------------------------- MODULE MCTracedNode ----------------------------
(* Bounded instances of TracedNode for TLC. *)
EXTENDS TracedNode, FiniteSetsExt, TLC

CONSTANTS
  f1, f2,    \* the flows
  TraceLen,  \* packets of the trace
  TraceEnd   \* the last instant at which one of them comes in

\* f1 and f2 share an entry of a table of one or two, and prefer different
\* cores of two.
MCToeplitz == f1 :> 4 @@ f2 :> 2

\* The Sink keeps both flows in the same bucket.
MCCheckBucket == [f \in Flows |-> 0]

\* f1 comes from its first node; f2 has, with offloading, been sent on once.
MCHopOf == f1 :> 0 @@ f2 :> IF EnableOffload THEN 1 ELSE 0

total == MapThenSumSet(LAMBDA f : Len(entered[f]), Flows)

BoundedReceive ==
  total < TraceLen /\ now <= TraceEnd /\ \E pkt \in LinkPackets : TracedReceive(pkt)

\* The simulation ends when the trace has ended and no event is left.
BoundedTick ==
  /\ \/ now < TraceEnd /\ total < TraceLen
     \/ \E c \in Cores : msg_proc_done[c] # NoMsg
     \/ m_self_msg # Unset
  /\ NodeTick
  /\ UNCHANGED <<m_reorder_check_table, entered>>

Handler(A) == A /\ UNCHANGED <<m_reorder_check_table, entered>>

MCNext ==
  \/ BoundedReceive
  \/ TracedDepart
  \/ Handler(Dispatch)
  \/ Handler(LearnOverload)
  \/ Handler(Enqueue)
  \/ \E m \in Cores : Handler(Complete(m))
  \/ Handler(OutputProcessed)
  \/ Handler(OutputOffloaded)
  \/ Handler(OutputNext)
  \/ BoundedTick

\* The kernel executes every event of its list; the trace owes nothing.
MCFairness ==
  /\ WF_tracedVars(TracedDepart)
  /\ WF_tracedVars(Handler(Dispatch))
  /\ WF_tracedVars(Handler(LearnOverload))
  /\ WF_tracedVars(Handler(Enqueue))
  /\ \A m \in Cores : WF_tracedVars(Handler(Complete(m)))
  /\ WF_tracedVars(Handler(OutputProcessed))
  /\ WF_tracedVars(Handler(OutputOffloaded))
  /\ WF_tracedVars(Handler(OutputNext))
  /\ WF_tracedVars(BoundedTick)

MCSpec == TracedInit /\ [][MCNext]_tracedVars

MCFairSpec == MCSpec /\ MCFairness

\* Every packet that comes in leaves the node again: once the trace has ended
\* nothing stays behind in a queue, on a core or on the link.
EveryPacketLeaves == <>[](held = {} /\ link = <<>>)
=============================================================================
