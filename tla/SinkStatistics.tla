--------------------------- MODULE SinkStatistics ---------------------------
(***************************************************************************)
(* simulator/src/modules/Sink.cc as a whole: every packet that arrives has *)
(* its latency collected in a histogram and its id checked for reordering; *)
(* when the simulation ends, the percentiles of the histogram are          *)
(* recorded.  The five histograms of the code are treated alike; here is   *)
(* one.  Latencies are counted in halves of the width of a bin.            *)
(***************************************************************************)
EXTENDS Sink, SequencesExt

CONSTANTS
  Latencies,  \* what the packets' latencies may be
  NumBins,    \* setNumBinsHint; the range is 0 .. 2 * NumBins
  NSteps,     \* n_steps of record_cdf_simtime
  RoundedUp   \* the steps k for which k * step_size is rounded upwards

ASSUME StatisticsAssumption ==
  /\ Latencies \subseteq Int
  /\ NumBins \in Nat \ {0} /\ NSteps \in Nat \ {0}
  /\ RoundedUp \subseteq 1 .. NSteps - 1

VARIABLES
  hist,        \* how many latencies are in each bin
  n_outside,   \* the underflows and overflows: counted, but in no bin
  cdf_values,  \* what finish() records, <<>> before
  arrivals     \* history: the packets in the order in which they came

statVars == <<m_reorder_check_table, hist, n_outside, cdf_values, arrivals>>

Bins == 0 .. NumBins - 1
Steps == 1 .. NSteps

bin_of(latency) == latency \div 2
bin_middle(bin) == 2 * bin + 1

StatInit ==
  /\ SinkInit
  /\ hist = [b \in Bins |-> 0]
  /\ n_outside = 0
  /\ cdf_values = <<>>
  /\ arrivals = <<>>

-----------------------------------------------------------------------------
\* cHistogram::collect with a range that was set.
collect(latency) ==
  IF bin_of(latency) \in Bins
  THEN /\ hist' = [hist EXCEPT ![bin_of(latency)] = @ + 1]
       /\ UNCHANGED n_outside
  ELSE /\ n_outside' = n_outside + 1
       /\ UNCHANGED hist

getCount == SumFunction(hist) + n_outside

\* s >= k * step_size, where n_acc of the packets are in the bins so far.
step_reached(n_acc, k) ==
  \/ n_acc * NSteps > k * getCount
  \/ n_acc * NSteps = k * getCount /\ k \notin RoundedUp

\* Mutant: one step is recorded per bin.
after_bin_if(st, bin) ==
  LET n_acc == st.n_packets_acc + hist[bin]
      upto  == {k \in Steps : k <= st.cur_step + 1 /\ step_reached(n_acc, k)}
  IN  [n_packets_acc |-> n_acc,
       cur_step      |-> Cardinality(upto),
       values |-> [k \in Steps |-> IF k > st.cur_step /\ k \in upto
                                   THEN bin_middle(bin) ELSE st.values[k]]]

\* One turn of the for loop, with its while loop.
after_bin(st, bin) ==
  LET n_acc == st.n_packets_acc + hist[bin]
      upto  == {k \in Steps : step_reached(n_acc, k)}
  IN  [n_packets_acc |-> n_acc,
       cur_step      |-> Cardinality(upto),
       values |-> [k \in Steps |-> IF k > st.cur_step /\ k \in upto
                                   THEN bin_middle(bin) ELSE st.values[k]]]

\* A simtime_t is zero until it is assigned to.  Without a packet the quotient
\* is not a number, and no step is reached.
record_cdf_simtime ==
  LET unset == [n_packets_acc |-> 0, cur_step |-> 0, values |-> [k \in Steps |-> 0]]
  IN  IF getCount = 0 THEN unset.values
      ELSE FoldLeft(after_bin, unset, [i \in 1 .. NumBins |-> i - 1]).values

HandleMessage(flow, pkt_id, latency) ==
  /\ cdf_values = <<>>
  /\ collect(latency)
  /\ reorder_check(flow, pkt_id)
  /\ arrivals' = Append(arrivals, [flow |-> flow, id |-> pkt_id, latency |-> latency])
  /\ UNCHANGED cdf_values

Finish ==
  /\ cdf_values = <<>>
  /\ cdf_values' = record_cdf_simtime
  /\ UNCHANGED <<m_reorder_check_table, hist, n_outside, arrivals>>

seen(flow, pkt_id) ==
  \E i \in DOMAIN arrivals : arrivals[i].flow = flow /\ arrivals[i].id = pkt_id

\* A packet reaches the sink once (ExactlyOnce of TorSwitch).
StatNext ==
  \/ \E f \in Flows, id \in Ids, l \in Latencies : ~seen(f, id) /\ HandleMessage(f, id, l)
  \/ Finish

StatSpec == StatInit /\ [][StatNext]_statVars

-----------------------------------------------------------------------------
(* Properties.                                                             *)

\* The packets of flow f that came after one with a greater id.
overtaken(f) ==
  {i \in DOMAIN arrivals :
     /\ arrivals[i].flow = f
     /\ \E j \in 1 .. i - 1 : arrivals[j].flow = f /\ arrivals[j].id > arrivals[i].id}

\* The reorder check counts for every flow exactly the packets that have been
\* overtaken, whatever arrives before them, in whatever order, and whichever
\* flows share the bucket.
ReorderCountExact == \A f \in Flows : n_reordered(f) = Cardinality(overtaken(f))

\* The packets whose latencies are within the range and do not exceed l.
within(l) ==
  {i \in DOMAIN arrivals :
     bin_of(arrivals[i].latency) \in Bins /\ arrivals[i].latency <= l}

\* The latencies within the range that are not exceeded by the share of all
\* packets that step k stands for.
percentile(k) ==
  {l \in Latencies :
     /\ \E i \in DOMAIN arrivals : arrivals[i].latency = l /\ bin_of(l) \in Bins
     /\ step_reached(Cardinality(within(l)), k)}

\* The value recorded for a step is the middle of the bin of the least latency
\* that this share of the packets did not exceed, as long as every latency is
\* within the range.  Each latency below the range makes the steps name the
\* next greater one; steps that would have to name one outside of the range
\* are recorded as zero.
PercentilesCorrect ==
  cdf_values # <<>> /\ arrivals # <<>> =>
    \A k \in Steps :
      \/ percentile(k) = {} /\ cdf_values[k] = 0
      \/ \E l \in percentile(k) :
           /\ \A m \in percentile(k) : l <= m
           /\ cdf_values[k] = bin_middle(bin_of(l))
=============================================================================
