----------------------------- MODULE MCNetwork ------------------------------
(* Bounded instance of Network for TLC. *)
EXTENDS Network

CONSTANTS
  g1, g2,     \* the generators
  k1, k2      \* the flow keys

MCFlows == Generators \X Keys

\* The flows with key k1 start at the one node, those with k2 at the other.  The
\* flows of a trace share a hash table entry.
MCCrc32 == [f \in Flows |-> IF f[2] = k1 THEN 0 ELSE 1]
MCToeplitz == [f \in Flows |-> IF f[1] = g1 THEN 0 ELSE 1]
MCCheckBucket == [f \in Flows |-> 0]

Line(sec, frac, key, options, instr) ==
  [sec |-> sec, frac |-> frac, key |-> key, options |-> options, instr |-> instr]

\* A packet that occupies its node for long; the next may come too early, and
\* a third of another flow even before that.
Trace1 ==
  {<<Line(s, 0, k, 0, 7), Line(s, a, k, o, 1), Line(s, b, k2, o, 2)>> :
     s \in {0, 1}, k \in Keys, a \in {1, 2, 3}, b \in {2, 6}, o \in {0, 1}}

\* Its node is overloaded for the second packet, and is not for the third, which
\* comes as soon as it can or after a pause.
Trace2 ==
  {<<Line(1, 0, k, 0, 1), Line(1, 7, k, 0, i), Line(2, b, k, 0, 1)>> :
     k \in Keys, b \in {1, 5}, i \in {2, 6}}

\* Its node is overloaded while the second packet is executed, and sends on the
\* last one; if the other node is too, it has to take that packet all the same.
Burst(k) == <<Line(0, 0, k, 0, 7), Line(0, 2, k, 0, 7), Line(0, 4, k, 0, 1), Line(1, 2, k, 0, 1)>>

\* The hash tables hold zeroes at first; MCNodeOffload and MCOffload look at
\* every other content.
MCInit ==
  /\ traces \in {g1 :> t1 @@ g2 :> t2 : t1 \in Trace1, t2 \in Trace2}
                 \cup {g1 :> Burst(k1) @@ g2 :> Burst(k) : k \in Keys}
  /\ NetInit
  /\ \A e \in Entries : ~m_hashtable[e].offload /\ ~m_hashtable_1[e].offload

MCSpec == MCInit /\ [][NetNext]_netVars
=============================================================================
