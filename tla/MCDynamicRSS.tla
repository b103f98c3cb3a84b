---------------------------- MODULE MCDynamicRSS ----------------------------
(* Bounded instances of ProcessingDynamicRSS for TLC. *)
EXTENDS ProcessingDynamicRSS

CONSTANTS
  f1, f2, f3,  \* the flows
  MaxHeld,     \* packets in front of and at the cores
  TraceEnd,    \* the last instant at which a packet comes in
  MaxTime      \* the last instant

\* Three flows of three entries: f1 at core 0, f2 at core 1, f3 at core 0.
MCToeplitz == [f \in Flows |-> CASE f = f1 -> 3 [] f = f2 -> 1 [] f = f3 -> 2]

resident ==
  Len(offload_in) + Len(out_proc) +
  MapThenSumSet(LAMBDA c : Len(rx_queue[c]) + IF busy[c] THEN 1 ELSE 0, Cores)

BoundedReceive ==
  /\ now <= TraceEnd /\ resident < MaxHeld
  /\ \E pkt \in LinkPackets : Receive(pkt)
  /\ UNCHANGED dynVars

BoundedTick == now < MaxTime /\ NodeTick /\ UNCHANGED dynVars

Handler(A) == A /\ UNCHANGED dynVars

MCNext ==
  \/ BoundedReceive
  \/ Handler(Dispatch)
  \/ DynEnqueue
  \/ \E m \in Cores : DynComplete(m)
  \/ Handler(OutputProcessed)
  \/ Handler(OutputNext)
  \/ Handler(Depart)
  \/ BoundedTick

MCSpec == DynInit /\ [][MCNext]_<<nodeVars, dynVars>>
=============================================================================
