------------------------------- MODULE MCSink -------------------------------
(* Bounded instance of SinkStatistics for TLC. *)
EXTENDS SinkStatistics

CONSTANTS
  f1, f2,      \* the flows
  MaxArrivals  \* packets that reach the sink

\* f1 and f2 share a bucket.
MCCheckBucket == [f \in Flows |-> 0]

\* The range is 0 .. 6: below it, in each bin, at its end.
MCLatencies == {0 - 1, 0, 3, 5, 6}

MCNext ==
  \/ /\ Len(arrivals) < MaxArrivals
     /\ \E f \in Flows, id \in Ids, l \in Latencies : ~seen(f, id) /\ HandleMessage(f, id, l)
  \/ Finish

MCSpec == StatInit /\ [][MCNext]_statVars
=============================================================================
