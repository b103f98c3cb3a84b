-------------------------------- MODULE Sink --------------------------------
(***************************************************************************)
(* simulator/src/modules/Sink.cc, the reorder check: a hash table of       *)
(* vectors with an entry for each flow that has been seen.  A flow is an   *)
(* object (the code compares addresses), that is, a flow of one trace.     *)
(***************************************************************************)
EXTENDS Packet, Sequences

CONSTANT CheckBucket  \* get_toeplitz_hash() % CHECK_HASHTABLE_ENTRIES of a flow

ASSUME BucketAssumption == CheckBucket \in [Flows -> Nat]

VARIABLE m_reorder_check_table

CheckBuckets == {CheckBucket[f] : f \in Flows}

\* nxt_exptected_pkt_id is the spelling of the code.
CheckEntries ==
  [flow : Flows, nxt_exptected_pkt_id : Nat, reorder_cntr : Nat]

SinkInit == m_reorder_check_table = [b \in CheckBuckets |-> <<>>]

-----------------------------------------------------------------------------
\* Where in its bucket the entry of flow f is: a set of at most one position.
reorder_check_find(f) ==
  LET bucket == m_reorder_check_table[CheckBucket[f]]
  IN  {i \in DOMAIN bucket :
         bucket[i].flow = f /\ \A j \in 1 .. i - 1 : bucket[j].flow # f}

\* Mutant: the packet after a reordered one is expected next.
checked_restarting(entry, pkt_id) ==
  [entry EXCEPT !.reorder_cntr = IF entry.nxt_exptected_pkt_id > pkt_id THEN @ + 1 ELSE @,
                !.nxt_exptected_pkt_id = pkt_id + 1]

checked(entry, pkt_id) ==
  IF entry.nxt_exptected_pkt_id > pkt_id
  THEN [entry EXCEPT !.reorder_cntr = @ + 1]
  ELSE [entry EXCEPT !.nxt_exptected_pkt_id = pkt_id + 1]

reorder_check(flow, pkt_id) ==
  LET b == CheckBucket[flow]
  IN  \/ \E i \in reorder_check_find(flow) :
           m_reorder_check_table' =
             [m_reorder_check_table EXCEPT ![b][i] = checked(@, pkt_id)]
      \/ /\ reorder_check_find(flow) = {}
         /\ m_reorder_check_table' =
              [m_reorder_check_table EXCEPT ![b] =
                 Append(@, [flow |-> flow, nxt_exptected_pkt_id |-> pkt_id + 1,
                            reorder_cntr |-> 0])]

\* The packets of flow f that have been reported as reordered.
n_reordered(f) ==
  IF reorder_check_find(f) = {} THEN 0
  ELSE m_reorder_check_table[CheckBucket[f]]
         [CHOOSE i \in reorder_check_find(f) : TRUE].reorder_cntr
=============================================================================
