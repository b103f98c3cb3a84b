---------------------------- MODULE MCTorSwitch -----------------------------
(* Bounded instances of TorSwitch for TLC. *)
EXTENDS TorSwitch, TLC

CONSTANTS
  f1, f2,   \* the flows
  TraceLen  \* packets of the trace

\* f1 starts at node 2 of three and goes right, f2 at node 0 and goes left;
\* both have to go round the end of the list of ports.
MCCrc32 == f1 :> 5 @@ f2 :> 3
MCToeplitz == f1 :> 4 @@ f2 :> 7

MCNext ==
  \/ Cardinality(generated) < TraceLen /\ \E f \in Flows, id \in Ids : HandleGenerated(f, id)
  \/ \E port \in Ports : HandleFromNode(port)
  \/ \E port \in Ports : HandleSelf(port)
  \/ \E port \in Ports : NodeTakes(port)
  \/ \E port \in Ports : \E p \in held[port], done \in BOOLEAN : NodeForwards(port, p, done)
  \/ RingTick

MCSpec == RingInit /\ [][MCNext]_ringVars

MCFairSpec == MCSpec /\ RingFairness
=============================================================================
