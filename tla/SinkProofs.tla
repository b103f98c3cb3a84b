----------------------------- MODULE SinkProofs -----------------------------
(***************************************************************************)
(* Proofs about the Sink: its reorder check, for any flows, any hash       *)
(* function and any order of arrivals, and its percentiles, for any range, *)
(* number of steps and rounding.                                           *)
(***************************************************************************)
EXTENDS SinkStatistics, SumProofs, SequenceTheorems

Arrivals == [flow : Flows, id : Ids, latency : Latencies]

TableTyped ==
  /\ m_reorder_check_table \in [CheckBuckets -> Seq(CheckEntries)]
  /\ arrivals \in Seq(Arrivals)

\* The entry at position i of the bucket of flow f.
entry_at(f, i) == m_reorder_check_table[CheckBucket[f]][i]

of(f) == {j \in DOMAIN arrivals : arrivals[j].flow = f}

\* What the entry of a flow knows of its arrivals.
Tracked(f) ==
  /\ of(f) # {} => reorder_check_find(f) # {}
  /\ \A i \in reorder_check_find(f) :
       /\ \A j \in of(f) : arrivals[j].id < entry_at(f, i).nxt_exptected_pkt_id
       /\ \E j \in of(f) : arrivals[j].id + 1 = entry_at(f, i).nxt_exptected_pkt_id
       /\ entry_at(f, i).reorder_cntr = Cardinality(overtaken(f))

\* Every entry is another flow's.
Distinct ==
  \A b \in CheckBuckets : \A i, j \in DOMAIN m_reorder_check_table[b] :
    m_reorder_check_table[b][i].flow = m_reorder_check_table[b][j].flow => i = j

CheckInv == TableTyped /\ Distinct /\ \A f \in Flows : Tracked(f)

-----------------------------------------------------------------------------
\* What is found for a flow is an entry of its own.
LEMMA EntriesTyped ==
  ASSUME TableTyped, NEW f \in Flows
  PROVE  /\ m_reorder_check_table[CheckBucket[f]] \in Seq(CheckEntries)
         /\ \A i \in reorder_check_find(f) :
              /\ i \in 1 .. Len(m_reorder_check_table[CheckBucket[f]])
              /\ entry_at(f, i) \in CheckEntries
              /\ entry_at(f, i).flow = f
BY BucketAssumption DEF TableTyped, CheckBuckets, reorder_check_find, entry_at

\* An arrival changes what is overtaken for its own flow only, by itself.
LEMMA OvertakenGrows ==
  ASSUME TableTyped, NEW r \in Arrivals, arrivals' = Append(arrivals, r), NEW f \in Flows
  PROVE  LET late == r.flow = f /\ \E j \in of(f) : arrivals[j].id > r.id
         IN  /\ IsFiniteSet(overtaken(f))
             /\ ~late => Cardinality(overtaken(f)') = Cardinality(overtaken(f))
             /\ late => Cardinality(overtaken(f)') = Cardinality(overtaken(f)) + 1
<1> DEFINE n    == Len(arrivals)
           late == r.flow = f /\ \E j \in of(f) : arrivals[j].id > r.id
<1>1. /\ n \in Nat /\ DOMAIN arrivals = 1 .. n
      /\ DOMAIN arrivals' = 1 .. n + 1
      /\ \A i \in 1 .. n : arrivals'[i] = arrivals[i]
      /\ arrivals'[n + 1] = r
      BY DEF TableTyped
<1> HIDE DEF n
<1>2. overtaken(f) \subseteq 1 .. n /\ n + 1 \notin overtaken(f)
      BY <1>1 DEF overtaken
<1>3. IsFiniteSet(overtaken(f))
  <2>1. IsFiniteSet(1 .. n)  BY <1>1, FS_Interval
  <2>2. QED  BY <1>2, <2>1, FS_Subset
<1>4. \A i \in 1 .. n : i \in overtaken(f)' <=> i \in overtaken(f)
  <2>1. \A i \in 1 .. n : \A j \in 1 .. i - 1 : arrivals'[j] = arrivals[j]
        BY <1>1
  <2>2. QED  BY <1>1, <2>1 DEF overtaken
<1>5. n + 1 \in overtaken(f)' <=> late
  <2>1. \A j \in 1 .. (n + 1) - 1 : j \in 1 .. n /\ arrivals'[j] = arrivals[j]
        BY <1>1
  <2>2. 1 .. (n + 1) - 1 = 1 .. n /\ n + 1 \in 1 .. n + 1
        BY <1>1
  <2>3. n + 1 \in overtaken(f)' <=>
          r.flow = f /\ \E j \in 1 .. n : arrivals[j].flow = f /\ arrivals[j].id > r.id
        BY <1>1, <2>1, <2>2 DEF overtaken
  <2>4. QED  BY <1>1, <2>3 DEF of
<1>6. overtaken(f)' \subseteq 1 .. n + 1
      BY <1>1 DEF overtaken
<1>7. 1 .. n + 1 = (1 .. n) \cup {n + 1}
      BY <1>1
<1>8. /\ ~late => overtaken(f)' = overtaken(f)
      /\ late => overtaken(f)' = overtaken(f) \cup {n + 1}
      BY <1>2, <1>4, <1>5, <1>6, <1>7
<1>9. Cardinality(overtaken(f) \cup {n + 1}) = Cardinality(overtaken(f)) + 1
      BY <1>2, <1>3, FS_AddElement
<1>10. QED  BY <1>3, <1>8, <1>9

\* The arrivals of a flow after one more packet.
LEMMA ArrivalsGrow ==
  ASSUME TableTyped, NEW r \in Arrivals, arrivals' = Append(arrivals, r), NEW f \in Flows
  PROVE  /\ arrivals' \in Seq(Arrivals)
         /\ \A j \in of(f) : j \in of(f)' /\ arrivals'[j] = arrivals[j]
         /\ \A j \in of(f)' : j \in of(f) \/ (arrivals'[j] = r /\ r.flow = f)
         /\ r.flow = f => \E j \in of(f)' : arrivals'[j] = r
<1> DEFINE n == Len(arrivals)
<1>1. /\ n \in Nat /\ DOMAIN arrivals = 1 .. n
      /\ DOMAIN arrivals' = 1 .. n + 1
      /\ \A i \in 1 .. n : arrivals'[i] = arrivals[i]
      /\ arrivals'[n + 1] = r
      /\ arrivals' \in Seq(Arrivals)
      BY DEF TableTyped
<1> HIDE DEF n
<1>2. QED  BY <1>1 DEF of

-----------------------------------------------------------------------------
\* The check leaves an entry to its flow.
LEMMA CheckedEntry ==
  ASSUME NEW e \in CheckEntries, NEW id \in Ids
  PROVE  checked(e, id) \in CheckEntries /\ checked(e, id).flow = e.flow
<1>1. id \in Nat  BY InputsAssumption
<1>2. CASE e.nxt_exptected_pkt_id > id
      BY <1>2 DEF checked, CheckEntries
<1>3. CASE ~(e.nxt_exptected_pkt_id > id)
      BY <1>1, <1>3 DEF checked, CheckEntries
<1>4. QED  BY <1>2, <1>3

\* The entry of a flow that has been seen is the only one that changes.
LEMMA EntryChecked ==
  ASSUME TableTyped, Distinct, NEW f \in Flows, NEW id \in Ids,
         NEW i \in reorder_check_find(f),
         m_reorder_check_table' =
           [m_reorder_check_table EXCEPT ![CheckBucket[f]][i] = checked(@, id)]
  PROVE  /\ m_reorder_check_table' \in [CheckBuckets -> Seq(CheckEntries)]
         /\ Distinct'
         /\ \A g \in Flows : reorder_check_find(g)' = reorder_check_find(g)
         /\ \A g \in Flows \ {f} : \A k \in reorder_check_find(g) :
              entry_at(g, k)' = entry_at(g, k)
         /\ entry_at(f, i)' = checked(entry_at(f, i), id)
<1> DEFINE b      == CheckBucket[f]
           bucket == m_reorder_check_table[b]
           new    == checked(bucket[i], id)
<1>1. /\ bucket \in Seq(CheckEntries) /\ i \in 1 .. Len(bucket) /\ b \in CheckBuckets
      /\ bucket[i] \in CheckEntries /\ bucket[i].flow = f
      BY EntriesTyped, BucketAssumption DEF CheckBuckets, entry_at
<1>2. new \in CheckEntries /\ new.flow = f
      BY <1>1, CheckedEntry
<1>3. m_reorder_check_table' = [m_reorder_check_table EXCEPT ![b] = [bucket EXCEPT ![i] = new]]
      OBVIOUS
<1> DEFINE after == [bucket EXCEPT ![i] = new]
<1>4. after \in Seq(CheckEntries) /\ Len(after) = Len(bucket)
      BY <1>1, <1>2, ExceptSeq
<1>5. /\ DOMAIN after = DOMAIN bucket
      /\ \A k \in DOMAIN bucket : /\ after[k].flow = bucket[k].flow
                                  /\ k # i => after[k] = bucket[k]
      /\ after[i] = new
      BY <1>1, <1>2
<1> HIDE DEF new, after
<1>6. m_reorder_check_table \in [CheckBuckets -> Seq(CheckEntries)]
      BY DEF TableTyped
<1>7. /\ m_reorder_check_table' \in [CheckBuckets -> Seq(CheckEntries)]
      /\ m_reorder_check_table'[b] = after
      /\ \A c \in CheckBuckets \ {b} : m_reorder_check_table'[c] = m_reorder_check_table[c]
      BY <1>1, <1>3, <1>4, <1>6 DEF after
<1>8. ASSUME NEW g \in Flows
      PROVE  reorder_check_find(g)' = reorder_check_find(g)
  <2>1. CheckBucket[g] \in CheckBuckets
        BY DEF CheckBuckets
  <2>2. CASE CheckBucket[g] # b
        BY <1>7, <2>1, <2>2 DEF reorder_check_find
  <2>3. CASE CheckBucket[g] = b
    <3>1. \A k \in DOMAIN bucket : \A j \in 1 .. k - 1 : j \in DOMAIN bucket
          BY <1>1
    <3>2. QED  BY <1>5, <1>7, <2>3, <3>1 DEF reorder_check_find
  <2>4. QED  BY <2>2, <2>3
<1>9. ASSUME NEW g \in Flows \ {f}, NEW k \in reorder_check_find(g)
      PROVE  entry_at(g, k)' = entry_at(g, k)
  <2>1. CheckBucket[g] \in CheckBuckets
        BY DEF CheckBuckets
  <2>2. CASE CheckBucket[g] # b
        BY <1>7, <2>1, <2>2 DEF entry_at
  <2>3. CASE CheckBucket[g] = b
    <3>1. k \in DOMAIN bucket /\ bucket[k].flow = g
          BY <2>3 DEF reorder_check_find
    <3>2. QED  BY <1>1, <1>5, <1>7, <2>3, <3>1 DEF entry_at
  <2>4. QED  BY <2>2, <2>3
<1>10. entry_at(f, i)' = checked(entry_at(f, i), id)
       BY <1>5, <1>7 DEF entry_at, new
<1>11. Distinct'
  <2>1. \A j, k \in DOMAIN after : after[j].flow = after[k].flow => j = k
        BY <1>1, <1>5 DEF Distinct
  <2>2. QED  BY <1>7, <2>1 DEF Distinct
<1>12. QED  BY <1>7, <1>8, <1>9, <1>10, <1>11

\* A flow that has not been seen is given an entry behind the others.
LEMMA EntryAdded ==
  ASSUME TableTyped, Distinct, NEW f \in Flows, reorder_check_find(f) = {},
         NEW e \in CheckEntries, e.flow = f,
         m_reorder_check_table' =
           [m_reorder_check_table EXCEPT ![CheckBucket[f]] = Append(@, e)]
  PROVE  /\ m_reorder_check_table' \in [CheckBuckets -> Seq(CheckEntries)]
         /\ Distinct'
         /\ \A g \in Flows \ {f} : /\ reorder_check_find(g)' = reorder_check_find(g)
                                   /\ \A k \in reorder_check_find(g) :
                                        entry_at(g, k)' = entry_at(g, k)
         /\ reorder_check_find(f)' # {}
         /\ \A k \in reorder_check_find(f)' : entry_at(f, k)' = e
<1> DEFINE b      == CheckBucket[f]
           bucket == m_reorder_check_table[b]
           n      == Len(bucket)
           after  == Append(bucket, e)
<1>1. bucket \in Seq(CheckEntries) /\ b \in CheckBuckets /\ n \in Nat
      BY EntriesTyped DEF CheckBuckets
<1>2. /\ after \in Seq(CheckEntries)
      /\ DOMAIN bucket = 1 .. n /\ DOMAIN after = 1 .. n + 1
      /\ \A k \in 1 .. n : after[k] = bucket[k]
      /\ after[n + 1] = e
      BY <1>1
<1>3. m_reorder_check_table \in [CheckBuckets -> Seq(CheckEntries)]
      BY DEF TableTyped
<1> HIDE DEF after, n
<1>4. /\ m_reorder_check_table' \in [CheckBuckets -> Seq(CheckEntries)]
      /\ m_reorder_check_table'[b] = after
      /\ \A c \in CheckBuckets \ {b} : m_reorder_check_table'[c] = m_reorder_check_table[c]
      BY <1>1, <1>2, <1>3 DEF after
<1>5. ASSUME NEW g \in Flows \ {f}
      PROVE  /\ reorder_check_find(g)' = reorder_check_find(g)
             /\ \A k \in reorder_check_find(g) : entry_at(g, k)' = entry_at(g, k)
  <2>1. CheckBucket[g] \in CheckBuckets
        BY DEF CheckBuckets
  <2>2. CASE CheckBucket[g] # b
        BY <1>4, <2>1, <2>2 DEF reorder_check_find, entry_at
  <2>3. CASE CheckBucket[g] = b
    <3>1. n + 1 \notin reorder_check_find(g)'
          BY <1>2, <1>4, <2>3 DEF reorder_check_find
    <3>2. \A k \in 1 .. n : \A j \in 1 .. k - 1 : j \in 1 .. n
          BY <1>1
    <3>3. \A k \in 1 .. n : k \in reorder_check_find(g)' <=> k \in reorder_check_find(g)
          BY <1>1, <1>2, <1>4, <2>3, <3>2 DEF reorder_check_find
    <3>4. reorder_check_find(g)' \subseteq 1 .. n + 1 /\ reorder_check_find(g) \subseteq 1 .. n
          BY <1>2, <1>4, <2>3 DEF reorder_check_find
    <3>5. reorder_check_find(g)' = reorder_check_find(g)
      <4>1. \A k \in 1 .. n + 1 : k \in 1 .. n \/ k = n + 1  BY <1>1
      <4>2. QED  BY <3>1, <3>3, <3>4, <4>1
    <3>6. \A k \in 1 .. n : entry_at(g, k)' = entry_at(g, k)
      <4>1. m_reorder_check_table'[CheckBucket[g]] = after
            BY <1>4, <2>3
      <4>2. \A k \in 1 .. n : after[k] = m_reorder_check_table[CheckBucket[g]][k]
            BY <1>2, <2>3
      <4>3. QED  BY <4>1, <4>2 DEF entry_at
    <3>7. QED  BY <3>4, <3>5, <3>6
  <2>4. QED  BY <2>2, <2>3
<1>6. \A k \in 1 .. n : bucket[k].flow # f
  <2> SUFFICES ASSUME NEW k \in 1 .. n, bucket[k].flow = f PROVE FALSE
      OBVIOUS
  <2>1. \A j \in 1 .. k - 1 : j \in 1 .. n /\ j # k
        BY <1>1
  <2>2. \A j \in 1 .. k - 1 : bucket[j].flow # f
        BY <1>1, <1>2, <2>1 DEF Distinct
  <2>3. k \in reorder_check_find(f)
        BY <1>2, <2>2 DEF reorder_check_find
  <2>4. QED  BY <2>3
<1>7. reorder_check_find(f)' = {n + 1}
  <2>1. \A j \in 1 .. (n + 1) - 1 : j \in 1 .. n
        BY <1>1
  <2>2. QED  BY <1>1, <1>2, <1>4, <1>6, <2>1 DEF reorder_check_find
<1>8. Distinct'
  <2>1. \A k \in 1 .. n + 1 : k \in 1 .. n \/ k = n + 1
        BY <1>1
  <2>2. \A j, k \in DOMAIN after : after[j].flow = after[k].flow => j = k
        BY <1>1, <1>2, <1>6, <2>1 DEF Distinct
  <2>3. QED  BY <1>4, <2>2 DEF Distinct
<1>9. QED  BY <1>2, <1>4, <1>5, <1>7, <1>8 DEF entry_at

-----------------------------------------------------------------------------
\* A flow of which no packet has just arrived keeps its entry.
LEMMA OthersTracked ==
  ASSUME CheckInv, NEW r \in Arrivals, arrivals' = Append(arrivals, r),
         NEW g \in Flows, g # r.flow, reorder_check_find(g)' = reorder_check_find(g),
         \A k \in reorder_check_find(g) : entry_at(g, k)' = entry_at(g, k)
  PROVE  Tracked(g)'
<1>1. /\ of(g)' = of(g)
      /\ \A j \in of(g) : arrivals'[j] = arrivals[j]
      BY ArrivalsGrow DEF CheckInv
<1>2. Cardinality(overtaken(g)') = Cardinality(overtaken(g))
      BY OvertakenGrows DEF CheckInv
<1>3. Tracked(g)
      BY DEF CheckInv
<1>4. QED  BY <1>1, <1>2, <1>3 DEF Tracked

\* The entry of the flow of the packet counts it if it has been overtaken.
LEMMA ArrivalTracked ==
  ASSUME CheckInv, NEW r \in Arrivals, arrivals' = Append(arrivals, r),
         ~seen(r.flow, r.id), NEW i \in reorder_check_find(r.flow),
         reorder_check_find(r.flow)' = reorder_check_find(r.flow),
         entry_at(r.flow, i)' = checked(entry_at(r.flow, i), r.id)
  PROVE  Tracked(r.flow)'
<1> DEFINE f == r.flow
           e == entry_at(f, i)
           late == \E j \in of(f) : arrivals[j].id > r.id
<1>1. f \in Flows /\ r.id \in Nat
      BY InputsAssumption DEF Arrivals
<1>2. /\ \A j \in of(f) : arrivals[j].id < e.nxt_exptected_pkt_id
      /\ \E j \in of(f) : arrivals[j].id + 1 = e.nxt_exptected_pkt_id
      /\ e.reorder_cntr = Cardinality(overtaken(f))
      BY <1>1 DEF CheckInv, Tracked
<1>3. \A j \in of(f) : arrivals[j].id \in Nat /\ arrivals[j].id # r.id
  <2>1. \A j \in DOMAIN arrivals : arrivals[j] \in Arrivals
        BY DEF CheckInv, TableTyped
  <2>2. \A j \in DOMAIN arrivals : arrivals[j].id \in Nat
        BY <2>1, InputsAssumption DEF Arrivals
  <2>3. QED  BY <2>2 DEF of, seen
<1>4. e \in CheckEntries /\ e.nxt_exptected_pkt_id \in Nat
      BY <1>1, EntriesTyped DEF CheckInv, CheckEntries
<1>5. \A k \in reorder_check_find(f)' : k = i
      BY <1>1, EntriesTyped DEF CheckInv, Distinct, entry_at, CheckBuckets
<1>6. /\ \A j \in of(f) : j \in of(f)' /\ arrivals'[j] = arrivals[j]
      /\ \A j \in of(f)' : j \in of(f) \/ arrivals'[j] = r
      /\ \E j \in of(f)' : arrivals'[j] = r
      BY <1>1, ArrivalsGrow DEF CheckInv
<1>7. /\ ~late => Cardinality(overtaken(f)') = Cardinality(overtaken(f))
      /\ late => Cardinality(overtaken(f)') = Cardinality(overtaken(f)) + 1
      BY <1>1, OvertakenGrows DEF CheckInv
<1>8. entry_at(f, i)' = checked(e, r.id)
      OBVIOUS
<1>9. late <=> e.nxt_exptected_pkt_id > r.id
      BY <1>1, <1>2, <1>3, <1>4
<1> HIDE DEF f, e, late
<1>10. /\ \A j \in of(f)' : arrivals'[j].id < checked(e, r.id).nxt_exptected_pkt_id
       /\ \E j \in of(f)' : arrivals'[j].id + 1 = checked(e, r.id).nxt_exptected_pkt_id
       /\ checked(e, r.id).reorder_cntr = Cardinality(overtaken(f)')
  <2>1. CASE late
    <3>1. checked(e, r.id) = [e EXCEPT !.reorder_cntr = @ + 1]
          BY <1>9, <2>1 DEF checked
    <3>2. /\ checked(e, r.id).nxt_exptected_pkt_id = e.nxt_exptected_pkt_id
          /\ checked(e, r.id).reorder_cntr = e.reorder_cntr + 1
          BY <1>4, <3>1 DEF CheckEntries
    <3>3. QED  BY <1>1, <1>2, <1>4, <1>6, <1>7, <1>9, <2>1, <3>2
  <2>2. CASE ~late
    <3>1. checked(e, r.id) = [e EXCEPT !.nxt_exptected_pkt_id = r.id + 1]
          BY <1>9, <2>2 DEF checked
    <3>2. /\ checked(e, r.id).nxt_exptected_pkt_id = r.id + 1
          /\ checked(e, r.id).reorder_cntr = e.reorder_cntr
          BY <1>4, <3>1 DEF CheckEntries
    <3>3. \A j \in of(f) : arrivals[j].id < r.id + 1
          BY <1>1, <1>3, <2>2 DEF late
    <3>4. r.id < r.id + 1  BY <1>1
    <3>5. \A j \in of(f)' : arrivals'[j].id < r.id + 1
          BY <1>6, <3>3, <3>4
    <3>6. \E j \in of(f)' : arrivals'[j].id + 1 = r.id + 1
          BY <1>6
    <3>7. QED  BY <1>2, <1>7, <2>2, <3>2, <3>5, <3>6
  <2>3. QED  BY <2>1, <2>2
<1>11. i \in reorder_check_find(f)'
       BY DEF f
<1>12. Tracked(f)'
       BY <1>5, <1>8, <1>10, <1>11 DEF Tracked
<1>13. QED  BY <1>12 DEF f

\* A first packet is not late, and the next one is expected.
LEMMA FirstTracked ==
  ASSUME CheckInv, NEW r \in Arrivals, arrivals' = Append(arrivals, r),
         reorder_check_find(r.flow) = {}, reorder_check_find(r.flow)' # {},
         \A k \in reorder_check_find(r.flow)' : entry_at(r.flow, k)' =
           [flow |-> r.flow, nxt_exptected_pkt_id |-> r.id + 1, reorder_cntr |-> 0]
  PROVE  Tracked(r.flow)'
<1> DEFINE f == r.flow
<1>1. f \in Flows /\ r.id \in Nat
      BY InputsAssumption DEF Arrivals
<1>2. of(f) = {}
      BY <1>1 DEF CheckInv, Tracked
<1>3. Cardinality(overtaken(f)) = 0
  <2>1. overtaken(f) = {}  BY <1>2 DEF overtaken, of
  <2>2. QED  BY <2>1, FS_EmptySet
<1>4. Cardinality(overtaken(f)') = 0
      BY <1>1, <1>2, <1>3, OvertakenGrows DEF CheckInv
<1>5. /\ \A j \in of(f)' : arrivals'[j] = r
      /\ \E j \in of(f)' : arrivals'[j] = r
      BY <1>1, <1>2, ArrivalsGrow DEF CheckInv
<1> DEFINE e == [flow |-> f, nxt_exptected_pkt_id |-> r.id + 1, reorder_cntr |-> 0]
<1>6. e.nxt_exptected_pkt_id = r.id + 1 /\ e.reorder_cntr = 0 /\ r.id < r.id + 1
      BY <1>1
<1>7. \A k \in reorder_check_find(f)' : entry_at(f, k)' = e
      OBVIOUS
<1>8. reorder_check_find(f)' # {}
      OBVIOUS
<1> HIDE DEF e, f
<1>9. /\ \A j \in of(f)' : arrivals'[j].id < e.nxt_exptected_pkt_id
      /\ \E j \in of(f)' : arrivals'[j].id + 1 = e.nxt_exptected_pkt_id
      BY <1>5, <1>6
<1>10. Tracked(f)'
       BY <1>4, <1>6, <1>7, <1>8, <1>9 DEF Tracked
<1>11. QED  BY <1>10 DEF f

LEMMA HandleMessageKeeps ==
  ASSUME CheckInv, NEW f \in Flows, NEW id \in Ids, NEW l \in Latencies,
         ~seen(f, id), HandleMessage(f, id, l)
  PROVE  CheckInv'
<1> DEFINE r == [flow |-> f, id |-> id, latency |-> l]
           e == [flow |-> f, nxt_exptected_pkt_id |-> id + 1, reorder_cntr |-> 0]
<1>1. /\ r \in Arrivals /\ r.flow = f /\ r.id = id
      /\ arrivals' = Append(arrivals, r)
      /\ reorder_check(f, id)
      BY DEF Arrivals, HandleMessage
<1>2. e \in CheckEntries /\ e.flow = f
      BY InputsAssumption DEF CheckEntries
<1>3. TableTyped /\ Distinct
      BY DEF CheckInv
<1> HIDE DEF r
<1>4. arrivals' \in Seq(Arrivals)
      BY <1>1, <1>3, ArrivalsGrow
<1>5. ASSUME NEW i \in reorder_check_find(f),
             m_reorder_check_table' =
               [m_reorder_check_table EXCEPT ![CheckBucket[f]][i] = checked(@, id)]
      PROVE  CheckInv'
  <2>1. Tracked(f)'
        BY <1>1, <1>3, <1>5, EntryChecked, ArrivalTracked
  <2>2. \A g \in Flows \ {f} : Tracked(g)'
        BY <1>1, <1>3, <1>5, EntryChecked, OthersTracked
  <2>3. QED  BY <1>3, <1>4, <1>5, <2>1, <2>2, EntryChecked DEF CheckInv, TableTyped
<1>6. ASSUME reorder_check_find(f) = {},
             m_reorder_check_table' =
               [m_reorder_check_table EXCEPT ![CheckBucket[f]] = Append(@, e)]
      PROVE  CheckInv'
  <2> HIDE DEF e
  <2>1. /\ m_reorder_check_table' \in [CheckBuckets -> Seq(CheckEntries)]
        /\ Distinct'
        /\ \A g \in Flows \ {f} : /\ reorder_check_find(g)' = reorder_check_find(g)
                                  /\ \A k \in reorder_check_find(g) :
                                       entry_at(g, k)' = entry_at(g, k)
        /\ reorder_check_find(f)' # {}
        /\ \A k \in reorder_check_find(f)' : entry_at(f, k)' = e
        BY <1>2, <1>3, <1>6, EntryAdded
  <2>2. Tracked(f)'
        BY <1>1, <1>6, <2>1, FirstTracked DEF e
  <2>3. \A g \in Flows \ {f} : Tracked(g)'
        BY <1>1, <2>1, OthersTracked
  <2>4. QED  BY <1>4, <2>1, <2>2, <2>3 DEF CheckInv, TableTyped
<1>7. QED  BY <1>1, <1>5, <1>6 DEF reorder_check

LEMMA CheckInvInit == StatInit => CheckInv
<1> SUFFICES ASSUME StatInit PROVE CheckInv
    OBVIOUS
<1>1. /\ m_reorder_check_table = [b \in CheckBuckets |-> <<>>]
      /\ arrivals = <<>>
      BY DEF StatInit, SinkInit
<1>2. TableTyped /\ Distinct
      BY <1>1 DEF TableTyped, Distinct
<1>3. ASSUME NEW f \in Flows
      PROVE  of(f) = {} /\ reorder_check_find(f) = {}
      BY <1>1 DEF of, reorder_check_find, CheckBuckets
<1>4. QED  BY <1>2, <1>3 DEF CheckInv, Tracked

LEMMA CheckInvariant == StatSpec => []CheckInv
<1>1. CheckInv /\ [StatNext]_statVars => CheckInv'
  <2> SUFFICES ASSUME CheckInv, [StatNext]_statVars PROVE CheckInv'
      OBVIOUS
  <2>1. CASE \E f \in Flows, id \in Ids, l \in Latencies :
               ~seen(f, id) /\ HandleMessage(f, id, l)
        BY <2>1, HandleMessageKeeps
  <2>2. CASE UNCHANGED <<m_reorder_check_table, arrivals>>
    <3>1. TableTyped' /\ Distinct'
          BY <2>2 DEF CheckInv, TableTyped, Distinct
    <3>2. ASSUME NEW f \in Flows
          PROVE  /\ of(f)' = of(f) /\ overtaken(f)' = overtaken(f)
                 /\ reorder_check_find(f)' = reorder_check_find(f)
                 /\ \A i : entry_at(f, i)' = entry_at(f, i)
          BY <2>2 DEF of, overtaken, reorder_check_find, entry_at
    <3>3. \A f \in Flows : Tracked(f)'
          BY <2>2, <3>2 DEF CheckInv, Tracked
    <3>4. QED  BY <3>1, <3>3 DEF CheckInv
  <2>3. QED  BY <2>1, <2>2 DEF StatNext, Finish, statVars
<1>2. QED  BY <1>1, CheckInvInit, PTL DEF StatSpec

\* The Sink reports exactly the packets that have been overtaken, whichever
\* flows share a bucket and in whatever order the packets come.
THEOREM ReorderingCounted == StatSpec => []ReorderCountExact
<1>1. CheckInv => ReorderCountExact
  <2> SUFFICES ASSUME CheckInv, NEW f \in Flows
               PROVE  n_reordered(f) = Cardinality(overtaken(f))
      BY DEF ReorderCountExact
  <2>1. CASE reorder_check_find(f) = {}
    <3>1. overtaken(f) = {}
          BY <2>1 DEF CheckInv, Tracked, of, overtaken
    <3>2. QED  BY <2>1, <3>1, FS_EmptySet DEF n_reordered
  <2>2. CASE reorder_check_find(f) # {}
        BY <2>2 DEF CheckInv, Tracked, n_reordered, entry_at
  <2>3. QED  BY <2>1, <2>2
<1>2. QED  BY <1>1, CheckInvariant, PTL

-----------------------------------------------------------------------------
(* The percentiles.                                                        *)

in_bin(b) == {i \in DOMAIN arrivals : bin_of(arrivals[i].latency) = b}

\* The histogram counts the arrivals.
HistInv ==
  /\ arrivals \in Seq(Arrivals)
  /\ hist \in [Bins -> Nat]
  /\ n_outside \in Nat
  /\ \A b \in Bins : hist[b] = Cardinality(in_bin(b))
  /\ getCount = Len(arrivals)

\* What it means to reach a step.
LEMMA StepsReached ==
  ASSUME NEW n \in Nat, NEW m \in Nat, n <= m, NEW j \in Steps, NEW k \in Steps, j <= k,
         getCount \in Nat, getCount > 0, step_reached(n, k)
  PROVE  step_reached(m, j)
<1> DEFINE c  == getCount
           nn == n * NSteps
           mm == m * NSteps
           jc == j * c
           kc == k * c
<1>1. /\ NSteps \in Nat /\ NSteps > 0 /\ RoundedUp \subseteq 1 .. NSteps - 1
      /\ j \in Nat /\ k \in Nat /\ c \in Nat /\ c > 0
      BY StatisticsAssumption DEF Steps
<1> HIDE DEF c
<1>2. mm = nn + (m - n) * NSteps /\ (m - n) * NSteps >= 0
  <2>1. PICK d \in Nat : m = n + d  BY m - n \in Nat /\ m = n + (m - n)
  <2>2. (n + d) * NSteps = n * NSteps + d * NSteps /\ d * NSteps >= 0  BY <1>1
  <2>3. m - n = d  BY <2>1
  <2>4. QED  BY <2>1, <2>2, <2>3
<1>3. kc = jc + (k - j) * c /\ (k > j => (k - j) * c > 0)
  <2>1. PICK d \in Nat : k = j + d  BY <1>1, k - j \in Nat /\ k = j + (k - j)
  <2>2. (j + d) * c = j * c + d * c /\ (d > 0 => d * c > 0)  BY <1>1
  <2>3. k - j = d  BY <1>1, <2>1
  <2>4. QED  BY <2>1, <2>2, <2>3
<1>4. nn \in Nat /\ mm \in Nat /\ jc \in Nat /\ kc \in Nat
      BY <1>1
<1>5. nn > kc \/ (nn = kc /\ k \notin RoundedUp)
      BY DEF step_reached, c
<1>6. mm >= nn /\ kc >= jc /\ (k > j => kc > jc)
  <2> DEFINE u == (m - n) * NSteps
             v == (k - j) * c
  <2>1. u \in Int /\ v \in Int  BY <1>1
  <2>2. v >= 0 /\ u >= 0
    <3>1. CASE k > j  BY <1>2, <1>3, <2>1, <3>1
    <3>2. CASE k = j
      <4>1. v = 0  BY <1>1, <3>2
      <4>2. QED  BY <4>1, <1>2
    <3>3. QED  BY <3>1, <3>2, <1>1
  <2>3. mm = nn + u /\ kc = jc + v /\ (k > j => v > 0)  BY <1>2, <1>3
  <2> HIDE DEF u, v, nn, mm, jc, kc
  <2>4. QED  BY <1>4, <2>1, <2>2, <2>3
<1> HIDE DEF nn, mm, jc, kc
<1>7. mm > jc \/ (mm = jc /\ j \notin RoundedUp)
  <2>1. CASE k > j  BY <1>4, <1>5, <1>6, <2>1
  <2>2. CASE k = j
    <3>1. kc = jc  BY <2>2 DEF kc, jc
    <3>2. QED  BY <1>4, <1>5, <1>6, <2>2, <3>1
  <2>3. QED  BY <1>1, <2>1, <2>2
<1>8. QED  BY <1>7 DEF step_reached, mm, jc, c

\* cur_step: the steps reached are the first ones.
LEMMA CurStep ==
  ASSUME NEW n \in Nat, getCount \in Nat, getCount > 0, NEW k \in Steps
  PROVE  k > Cardinality({j \in Steps : step_reached(n, j)}) <=> ~step_reached(n, k)
<1> DEFINE R == {j \in Steps : step_reached(n, j)}
           id == [j \in R |-> j]
<1>1. NSteps \in Nat /\ Steps = 1 .. NSteps /\ IsFiniteSet(Steps)
      BY StatisticsAssumption, FS_Interval DEF Steps
<1>2. R \in SUBSET Steps /\ IsFiniteSet(R) /\ \A j \in R : id[j] = j /\ id[j] \in Int
      BY <1>1, FS_Subset
<1>3. CASE R = {}
  <2>1. Cardinality(R) = 0  BY <1>3, FS_EmptySet
  <2>2. QED  BY <1>1, <1>3, <2>1
<1>4. CASE R # {}
  <2>1. PICK t \in R : \A j \in R : j <= t
    <3> HIDE DEF R
    <3>1. \E t \in R : \A j \in R : id[j] <= id[t]
      <4> HIDE DEF id
      <4>1. QED  BY <1>2, <1>4, Greatest
    <3>2. QED  BY <1>2, <3>1
  <2>2. t \in 1 .. NSteps /\ step_reached(n, t)  BY <1>1
  <2>3. \A j \in Steps : j <= t => step_reached(n, j)
    <3> TAKE j \in Steps
    <3> HAVE j <= t
    <3>1. n <= n /\ t \in Steps  BY <1>1, <2>2
    <3>2. QED  BY <2>2, <3>1, StepsReached
  <2>4. R = 1 .. t  BY <1>1, <2>1, <2>2, <2>3
  <2>5. Cardinality(1 .. t) = t  BY <2>2, FS_Interval
  <2>6. k \in R <=> step_reached(n, k)  OBVIOUS
  <2>7. k \in 1 .. NSteps  BY <1>1
  <2> HIDE DEF R
  <2>8. k > Cardinality(R) <=> ~step_reached(n, k)  BY <2>2, <2>4, <2>5, <2>6, <2>7
  <2>9. QED  BY <2>8 DEF R
<1>5. QED  BY <1>3, <1>4

\* The arrivals in the bins of a set, which is given by indices of the loop.
in_bins(T) == {i \in DOMAIN arrivals : bin_of(arrivals[i].latency) + 1 \in T}
acc(T) == Cardinality(in_bins(T))
upto(T, m) == {j \in T : j <= m}

LEMMA BinsFinite ==
  ASSUME HistInv
  PROVE  /\ IsFiniteSet(DOMAIN arrivals)
         /\ \A T : IsFiniteSet(in_bins(T)) /\ acc(T) \in Nat
         /\ \A T : \A U \in SUBSET T : acc(U) <= acc(T)
         /\ \A i \in DOMAIN arrivals : arrivals[i] \in Arrivals /\ arrivals[i].latency \in Int
<1>1. IsFiniteSet(DOMAIN arrivals)
  <2>1. DOMAIN arrivals = 1 .. Len(arrivals) /\ Len(arrivals) \in Nat  BY DEF HistInv
  <2>2. QED  BY <2>1, FS_Interval
<1>2. \A T : IsFiniteSet(in_bins(T))
  <2>1. \A T : in_bins(T) \in SUBSET DOMAIN arrivals  BY DEF in_bins
  <2>2. QED  BY <1>1, <2>1, FS_Subset
<1>3. \A T : acc(T) \in Nat  BY <1>2, FS_CardinalityType DEF acc
<1>4. ASSUME NEW T, NEW U \in SUBSET T PROVE acc(U) <= acc(T)
  <2>1. in_bins(U) \in SUBSET in_bins(T)  BY DEF in_bins
  <2>2. QED  BY <1>2, <2>1, FS_Subset DEF acc
<1>5. ASSUME NEW i \in DOMAIN arrivals
      PROVE  arrivals[i] \in Arrivals /\ arrivals[i].latency \in Int
  <2>1. arrivals \in Seq(Arrivals)  BY DEF HistInv
  <2>2. arrivals[i] \in Arrivals  BY <2>1
  <2>3. arrivals[i].latency \in Latencies  BY <2>2 DEF Arrivals
  <2>4. QED  BY <2>2, <2>3, StatisticsAssumption
<1>6. QED  BY <1>1, <1>2, <1>3, <1>4, <1>5

-----------------------------------------------------------------------------
(* The fold over the bins.                                                 *)

BinNumbers == 1 .. NumBins

LEMMA NumbersFinite ==
  BinNumbers \subseteq Nat /\ \A T \in SUBSET BinNumbers : IsFiniteSet(T)
<1>1. NumBins \in Nat  BY StatisticsAssumption
<1>2. IsFiniteSet(BinNumbers)  BY <1>1, FS_Interval DEF BinNumbers
<1>3. \A T \in SUBSET BinNumbers : IsFiniteSet(T)  BY <1>2, FS_Subset
<1>4. QED  BY <1>3 DEF BinNumbers

\* The bin at which a step is reached first.
reached_at(T, k, m) ==
  /\ m \in T
  /\ step_reached(acc(upto(T, m)), k)
  /\ \A j \in T : j < m => ~step_reached(acc(upto(T, j)), k)

value_of(T, k) ==
  IF step_reached(acc(T), k)
  THEN bin_middle(pick({m \in T : reached_at(T, k, m)}) - 1) ELSE 0

\* The state of the loops after the bins of T.
after(T) ==
  [n_packets_acc |-> acc(T),
   cur_step      |-> Cardinality({k \in Steps : step_reached(acc(T), k)}),
   values        |-> [k \in Steps |-> value_of(T, k)]]

\* Each latency is in one bin.
LEMMA AccStep ==
  ASSUME HistInv, NEW T \in SUBSET BinNumbers, NEW x \in T
  PROVE  acc(T) = acc(T \ {x}) + hist[x - 1]
<1> DEFINE A == in_bins(T \ {x})
           B == in_bin(x - 1)
<1>1. x \in Nat /\ x - 1 \in Bins
      BY StatisticsAssumption DEF BinNumbers, Bins
<1>2. \A i \in DOMAIN arrivals : bin_of(arrivals[i].latency) \in Int
      BY BinsFinite DEF bin_of
<1>3. in_bins(T) = A \cup B /\ A \cap B = {}
      BY <1>1, <1>2 DEF in_bins, in_bin
<1>4. IsFiniteSet(A) /\ IsFiniteSet(B)
  <2>1. B \in SUBSET DOMAIN arrivals  BY DEF in_bin
  <2>2. QED  BY <2>1, BinsFinite, FS_Subset
<1>5. Cardinality(B) = hist[x - 1]  BY <1>1 DEF HistInv
<1> HIDE DEF A, B
<1>6. Cardinality(A \cup B) = Cardinality(A) + Cardinality(B)
  <2>1. Cardinality(A) \in Nat /\ Cardinality(B) \in Nat /\ Cardinality(A \cap B) = 0
        BY <1>3, <1>4, FS_CardinalityType, FS_EmptySet
  <2>2. Cardinality(A \cup B) = Cardinality(A) + Cardinality(B) - Cardinality(A \cap B)
        BY <1>4, FS_Union
  <2>3. QED  BY <2>1, <2>2
<1>7. QED  BY <1>3, <1>5, <1>6 DEF acc, A

\* The greatest number of a set of bins.
LEMMA LastBin ==
  ASSUME NEW T \in SUBSET BinNumbers, T # {}
  PROVE  Max(T) \in T /\ \A y \in T : y <= Max(T)
<1> DEFINE id == [j \in T |-> j]
<1>1. IsFiniteSet(T) /\ \A j \in T : id[j] = j /\ id[j] \in Int
  <2>1. T \subseteq Nat /\ IsFiniteSet(T)  BY NumbersFinite
  <2>2. QED  BY <2>1
<1>2. \E x \in T : \A y \in T : id[y] <= id[x]
  <2> HIDE DEF id
  <2>1. QED  BY <1>1, Greatest
<1>3. \E x \in T : \A y \in T : x >= y
      BY <1>1, <1>2 DEF BinNumbers
<1>4. Max(T) \in T /\ \A y \in T : Max(T) >= y
      BY <1>3 DEF Max
<1>5. QED  BY <1>4 DEF BinNumbers

\* No step is reached before the first packet.
LEMMA NoneAtFirst ==
  ASSUME HistInv, arrivals # <<>>
  PROVE  /\ getCount \in Nat /\ getCount > 0
         /\ acc({}) = 0
         /\ \A k \in Steps : ~step_reached(0, k)
<1>1. getCount \in Nat /\ getCount > 0
  <2>1. Len(arrivals) \in Nat /\ Len(arrivals) > 0  BY DEF HistInv
  <2>2. QED  BY <2>1 DEF HistInv
<1>2. acc({}) = 0
  <2>1. in_bins({}) = {}  BY DEF in_bins
  <2>2. QED  BY <2>1, FS_EmptySet DEF acc
<1>3. ASSUME NEW k \in Steps PROVE ~step_reached(0, k)
  <2> DEFINE c == getCount
             kc == k * c
  <2>1. k \in Nat /\ k > 0 /\ NSteps \in Nat  BY StatisticsAssumption DEF Steps
  <2>2. c \in Nat /\ c > 0  BY <1>1
  <2> HIDE DEF c
  <2>3. kc \in Int /\ kc > 0  BY <2>1, <2>2
  <2>4. 0 * NSteps = 0  BY <2>1
  <2> HIDE DEF kc
  <2>5. ~(0 > kc) /\ 0 # kc  BY <2>3
  <2>6. QED  BY <2>4, <2>5 DEF step_reached, kc, c
<1>4. QED  BY <1>1, <1>2, <1>3

\* A step that is reached is reached at exactly one bin.
LEMMA ReachedOnce ==
  ASSUME HistInv, arrivals # <<>>, NEW T \in SUBSET BinNumbers, NEW k \in Steps,
         step_reached(acc(T), k)
  PROVE  \E m \in T : /\ reached_at(T, k, m)
                      /\ \A j \in T : reached_at(T, k, j) => j = m
<1> DEFINE W == {m \in T : step_reached(acc(upto(T, m)), k)}
           f == [m \in W |-> 0 - m]
<1>1. T # {}
      BY NoneAtFirst
<1>2. PICK x \in T : \A y \in T : y <= x
      BY <1>1, LastBin
<1>3. upto(T, x) = T  BY <1>2 DEF upto
<1>4. x \in W  BY <1>3
<1>5. T \subseteq Nat /\ IsFiniteSet(W)
  <2>1. W \in SUBSET BinNumbers  OBVIOUS
  <2> HIDE DEF W
  <2>2. QED  BY <2>1, NumbersFinite
<1>6. \A m \in W : f[m] = 0 - m /\ f[m] \in Int  BY <1>5
<1>7. \E m \in W : \A j \in W : f[j] <= f[m]
  <2> HIDE DEF f, W
  <2>1. QED  BY <1>4, <1>5, <1>6, Greatest
<1>8. PICK m \in W : \A j \in W : m <= j
  <2> HIDE DEF f
  <2>1. W \subseteq Nat  BY <1>5
  <2>2. QED  BY <1>6, <1>7, <2>1
<1>9. reached_at(T, k, m)
      BY <1>5, <1>8 DEF reached_at
<1>10. \A j \in T : reached_at(T, k, j) => j = m
  <2> TAKE j \in T
  <2> HAVE reached_at(T, k, j)
  <2>1. j \in W  BY DEF reached_at
  <2>2. ~(m < j)  BY <1>9 DEF reached_at
  <2>3. QED  BY <1>5, <1>8, <2>1, <2>2
<1>11. QED  BY <1>9, <1>10

\* One turn of the outer loop.
LEMMA TurnOfLoop ==
  ASSUME HistInv, arrivals # <<>>, NEW T \in SUBSET BinNumbers, T # {}
  PROVE  after(T) = after_bin(after(T \ {Max(T)}), Max(T) - 1)
<1> DEFINE x == Max(T)
           U == T \ {x}
           n == acc(T)
           o == acc(U)
           reached(i) == {j \in Steps : step_reached(i, j)}
<1>1. x \in T /\ (\A y \in T : y <= x) /\ T \subseteq Nat
      BY LastBin DEF BinNumbers
<1> HIDE DEF x
<1>2. n = o + hist[x - 1] /\ n \in Nat /\ o \in Nat /\ o <= n
      BY <1>1, AccStep, BinsFinite
<1>3. getCount \in Nat /\ getCount > 0
      BY NoneAtFirst
<1>4. /\ U \in SUBSET BinNumbers /\ U \subseteq T /\ x \notin U
      /\ upto(T, x) = T
      /\ \A j \in T : j = x \/ j \in U
      /\ \A j \in U : upto(T, j) = upto(U, j) /\ j < x
  <2>1. \A j \in U : j \in T /\ j < x  BY <1>1
  <2>2. upto(T, x) = T  BY <1>1 DEF upto
  <2>3. \A j \in U : upto(T, j) = upto(U, j)
    <3> TAKE j \in U
    <3>1. ~(x <= j)  BY <1>1, <2>1
    <3>2. QED  BY <3>1 DEF upto
  <2>4. QED  BY <1>1, <2>1, <2>2, <2>3
<1>5. \A j \in U : acc(upto(U, j)) \in Nat /\ acc(upto(U, j)) <= o
  <2>1. \A j \in U : upto(U, j) \in SUBSET U  BY DEF upto
  <2>2. QED  BY <2>1, BinsFinite
<1> HIDE DEF U, n, o
<1>6. ASSUME NEW k \in Steps
      PROVE  value_of(T, k) =
               IF k > Cardinality(reached(o)) /\ k \in reached(n)
               THEN bin_middle(x - 1) ELSE value_of(U, k)
  <2>1. k > Cardinality(reached(o)) <=> ~step_reached(o, k)
        BY <1>2, <1>3, CurStep
  <2>2. k \in reached(n) <=> step_reached(n, k)  OBVIOUS
  <2>3. k \in Nat  BY StatisticsAssumption DEF Steps
  <2> HIDE DEF reached
  <2>4. CASE step_reached(o, k)
    <3>1. step_reached(n, k)
      <4>1. k <= k  BY <2>3
      <4>2. QED  BY <1>2, <1>3, <2>4, <4>1, StepsReached
    <3>2. PICK z \in U : /\ reached_at(U, k, z)
                         /\ \A m \in U : reached_at(U, k, m) => m = z
          BY <1>4, <2>4, ReachedOnce DEF o
    <3>3. reached_at(T, k, z)
          BY <1>1, <1>4, <3>2 DEF reached_at
    <3>4. \A m \in T : reached_at(T, k, m) => m = z
      <4>1. \E y \in T : \A m \in T : reached_at(T, k, m) => m = y
            BY <3>1, ReachedOnce DEF n
      <4>2. QED  BY <1>4, <3>3, <4>1
    <3>5. pick({m \in T : reached_at(T, k, m)}) = z
          BY <1>4, <3>3, <3>4 DEF pick
    <3>6. pick({m \in U : reached_at(U, k, m)}) = z
          BY <3>2 DEF pick
    <3>7. value_of(T, k) = bin_middle(z - 1)
          BY <3>1, <3>5 DEF value_of, n
    <3>8. value_of(U, k) = bin_middle(z - 1)
          BY <2>4, <3>6 DEF value_of, o
    <3>9. QED  BY <2>1, <2>4, <3>7, <3>8
  <2>5. CASE ~step_reached(o, k) /\ step_reached(n, k)
    <3>1. \A j \in U : ~step_reached(acc(upto(U, j)), k)
      <4>1. k <= k  BY <2>3
      <4>2. QED  BY <1>2, <1>3, <1>5, <2>5, <4>1, StepsReached
    <3>2. \A j \in T : reached_at(T, k, j) => j = x
          BY <1>4, <3>1 DEF reached_at
    <3>3. \E j \in T : reached_at(T, k, j)
          BY <2>5, ReachedOnce DEF n
    <3>4. pick({m \in T : reached_at(T, k, m)}) = x
          BY <3>2, <3>3 DEF pick
    <3>5. value_of(T, k) = bin_middle(x - 1)
          BY <2>5, <3>4 DEF value_of, n
    <3>6. QED  BY <2>1, <2>2, <2>5, <3>5
  <2>6. CASE ~step_reached(n, k)
    <3>1. ~step_reached(o, k)
      <4>1. k <= k  BY <2>3
      <4>2. QED  BY <1>2, <1>3, <2>6, <4>1, StepsReached
    <3>2. value_of(T, k) = 0 /\ value_of(U, k) = 0
          BY <2>6, <3>1 DEF value_of, n, o
    <3>3. QED  BY <2>2, <2>6, <3>2
  <2>7. QED  BY <2>4, <2>5, <2>6
<1> DEFINE st == after(U)
<1>7. /\ st.n_packets_acc = o
      /\ st.cur_step = Cardinality(reached(o))
      /\ \A k \in Steps : st.values[k] = value_of(U, k)
      BY DEF after, o
<1>8. after(T) = [n_packets_acc |-> n, cur_step |-> Cardinality(reached(n)),
                  values |-> [k \in Steps |-> value_of(T, k)]]
      BY DEF after, n
<1> HIDE DEF st
<1>9. after_bin(st, x - 1) =
        [n_packets_acc |-> n, cur_step |-> Cardinality(reached(n)),
         values |-> [k \in Steps |-> IF k > Cardinality(reached(o)) /\ k \in reached(n)
                                     THEN bin_middle(x - 1) ELSE value_of(U, k)]]
  <2>1. st.n_packets_acc + hist[x - 1] = n  BY <1>2, <1>7
  <2>2. QED  BY <1>7, <2>1 DEF after_bin
<1>10. after(T) = after_bin(st, x - 1)
       BY <1>6, <1>8, <1>9
<1>11. QED  BY <1>10 DEF st, U, x

\* The function that FoldLeft is defined by.
Folded(g, base) ==
  g = [T \in SUBSET BinNumbers |->
         IF T = {} THEN base ELSE after_bin(g[T \ {Max(T)}], Max(T) - 1)]

LEMMA LoopsEnd ==
  ASSUME HistInv, arrivals # <<>>
  PROVE  record_cdf_simtime = [k \in Steps |-> value_of(BinNumbers, k)]
<1> DEFINE unset == [n_packets_acc |-> 0, cur_step |-> 0, values |-> [k \in Steps |-> 0]]
           bins == [i \in 1 .. NumBins |-> i - 1]
           h == [T \in SUBSET BinNumbers |-> after(T)]
           iter == CHOOSE g : Folded(g, unset)
<1>1. DOMAIN bins = BinNumbers /\ \A i \in BinNumbers : bins[i] = i - 1
      BY DEF BinNumbers
<1>2. FoldLeft(after_bin, unset, bins) =
        (CHOOSE g : g = [T \in SUBSET DOMAIN bins |->
            IF T = {} THEN unset
            ELSE after_bin(g[T \ {Max(T)}], bins[Max(T)])])[DOMAIN bins]
  <2> HIDE DEF bins, unset
  <2>1. QED  BY DEF FoldLeft, MapThenFoldSet
<1>3. \A g : (g = [T \in SUBSET DOMAIN bins |->
                    IF T = {} THEN unset
                    ELSE after_bin(g[T \ {Max(T)}], bins[Max(T)])])
             <=> Folded(g, unset)
  <2>1. \A T \in SUBSET BinNumbers : T # {} => bins[Max(T)] = Max(T) - 1
        BY <1>1, LastBin
  <2> HIDE DEF bins, unset
  <2>2. ASSUME NEW g
        PROVE [T \in SUBSET DOMAIN bins |->
                    IF T = {} THEN unset
                    ELSE after_bin(g[T \ {Max(T)}], bins[Max(T)])]
              = [T \in SUBSET BinNumbers |->
                    IF T = {} THEN unset
                    ELSE after_bin(g[T \ {Max(T)}], Max(T) - 1)]
        BY <1>1, <2>1
  <2>3. QED  BY <2>2 DEF Folded
<1>4. FoldLeft(after_bin, unset, bins) = iter[BinNumbers]
  <2> HIDE DEF bins, unset
  <2>1. QED  BY <1>1, <1>2, <1>3
<1>5. after({}) = unset
  <2>1. \A k \in Steps : ~step_reached(acc({}), k)  BY NoneAtFirst
  <2>2. {k \in Steps : step_reached(acc({}), k)} = {}  BY <2>1
  <2>3. \A k \in Steps : value_of({}, k) = 0  BY <2>1 DEF value_of
  <2>4. QED  BY <2>2, <2>3, NoneAtFirst, FS_EmptySet DEF after
<1> HIDE DEF unset
<1>6. Folded(h, unset)
  <2>1. ASSUME NEW T \in SUBSET BinNumbers
        PROVE  after(T) = IF T = {} THEN unset
                          ELSE after_bin(h[T \ {Max(T)}], Max(T) - 1)
    <3>1. CASE T = {}  BY <1>5, <3>1
    <3>2. CASE T # {}
      <4>1. h[T \ {Max(T)}] = after(T \ {Max(T)})  OBVIOUS
      <4> HIDE DEF h
      <4>2. QED  BY <3>2, <4>1, TurnOfLoop
    <3>3. QED  BY <3>1, <3>2
  <2>2. h = [T \in SUBSET BinNumbers |->
               IF T = {} THEN unset ELSE after_bin(h[T \ {Max(T)}], Max(T) - 1)]
        BY <2>1
  <2> HIDE DEF h
  <2>3. QED  BY <2>2 DEF Folded
<1>7. Folded(iter, unset)
  <2> HIDE DEF h
  <2>1. QED  BY <1>6
<1> HIDE DEF iter
<1>8. \A T \in SUBSET BinNumbers : iter[T] = h[T]
  <2> DEFINE F == {T \in SUBSET BinNumbers : iter[T] = h[T]}
  <2>1. ASSUME NEW T \in SUBSET BinNumbers, \A x \in T : T \ {x} \in F
        PROVE  T \in F
    <3> HIDE DEF h
    <3>1. CASE T = {}
          BY <1>6, <1>7, <3>1 DEF Folded
    <3>2. CASE T # {}
      <4>1. T \ {Max(T)} \in F  BY <2>1, <3>2, LastBin
      <4>2. /\ iter[T] = after_bin(iter[T \ {Max(T)}], Max(T) - 1)
            /\ h[T] = after_bin(h[T \ {Max(T)}], Max(T) - 1)
            BY <1>6, <1>7, <3>2 DEF Folded
      <4>3. QED  BY <4>1, <4>2
    <3>3. QED  BY <3>1, <3>2
  <2>2. IsFiniteSet(BinNumbers)  BY NumbersFinite
  <2> HIDE DEF F
  <2>3. \A T \in SUBSET BinNumbers : T \in F  BY <2>1, <2>2, SubsetInduction
  <2>4. QED  BY <2>3 DEF F
<1>9. iter[BinNumbers] = after(BinNumbers)
      BY <1>8
<1>10. getCount # 0  BY NoneAtFirst
<1>11. record_cdf_simtime = FoldLeft(after_bin, unset, bins).values
       BY <1>10 DEF record_cdf_simtime, unset
<1>12. QED  BY <1>4, <1>9, <1>11 DEF after

-----------------------------------------------------------------------------
\* The bin at which a step is reached is that of its percentile.
LEMMA Percentile ==
  ASSUME HistInv, arrivals # <<>>, NEW k \in Steps
  PROVE  \/ percentile(k) = {} /\ value_of(BinNumbers, k) = 0
         \/ \E l \in percentile(k) :
              /\ \A m \in percentile(k) : l <= m
              /\ value_of(BinNumbers, k) = bin_middle(bin_of(l))
<1> DEFINE lat(i) == arrivals[i].latency
           N == BinNumbers
<1>1. /\ \A i \in DOMAIN arrivals : lat(i) \in Latencies /\ lat(i) \in Int
      /\ IsFiniteSet(DOMAIN arrivals)
      BY BinsFinite DEF Arrivals
<1>2. getCount \in Nat /\ getCount > 0 /\ k \in Nat /\ k <= k
  <2>1. k \in Nat  BY StatisticsAssumption DEF Steps
  <2>2. QED  BY <2>1, NoneAtFirst
<1>3. \A l, m \in Int : l <= m => bin_of(l) <= bin_of(m) /\ bin_of(l) \in Int /\ bin_of(m) \in Int
      BY DEF bin_of
<1>4. \A b \in Int : b \in Bins <=> b + 1 \in N
      BY StatisticsAssumption DEF Bins, BinNumbers
<1>5. Latencies \subseteq Int  BY StatisticsAssumption
<1> HIDE DEF N
\* A latency that reaches the step is in a bin that reaches it.
<1>6. ASSUME NEW l \in percentile(k)
      PROVE  /\ l \in Int /\ bin_of(l) + 1 \in N
             /\ step_reached(acc(upto(N, bin_of(l) + 1)), k)
  <2>1. l \in Int /\ bin_of(l) \in Bins /\ step_reached(Cardinality(within(l)), k)
        BY <1>5 DEF percentile
  <2>2. within(l) \in SUBSET in_bins(upto(N, bin_of(l) + 1))
    <3> SUFFICES ASSUME NEW i \in within(l)
                 PROVE  i \in in_bins(upto(N, bin_of(l) + 1))
        OBVIOUS
    <3>1. i \in DOMAIN arrivals /\ bin_of(lat(i)) \in Bins /\ lat(i) <= l
          BY DEF within
    <3>2. bin_of(lat(i)) <= bin_of(l) /\ bin_of(lat(i)) \in Int /\ bin_of(l) \in Int
          BY <1>1, <1>3, <2>1, <3>1
    <3>3. bin_of(lat(i)) + 1 \in N /\ bin_of(lat(i)) + 1 <= bin_of(l) + 1
          BY <1>4, <3>1, <3>2
    <3>4. QED  BY <3>1, <3>3 DEF in_bins, upto
  <2>3. /\ Cardinality(within(l)) <= acc(upto(N, bin_of(l) + 1))
        /\ Cardinality(within(l)) \in Nat
    <3>1. IsFiniteSet(within(l))  BY <2>2, BinsFinite, FS_Subset
    <3>2. QED  BY <2>2, <3>1, BinsFinite, FS_Subset, FS_CardinalityType DEF acc
  <2>4. acc(upto(N, bin_of(l) + 1)) \in Nat  BY BinsFinite
  <2>5. step_reached(acc(upto(N, bin_of(l) + 1)), k)
        BY <1>2, <2>1, <2>3, <2>4, StepsReached
  <2>6. bin_of(l) \in Int  BY <1>3, <2>1
  <2>7. QED  BY <1>4, <2>1, <2>5, <2>6
<1>7. CASE ~step_reached(acc(N), k)
  <2>1. ASSUME NEW l \in percentile(k) PROVE FALSE
    <3>1. upto(N, bin_of(l) + 1) \in SUBSET N  BY DEF upto
    <3>2. /\ acc(upto(N, bin_of(l) + 1)) <= acc(N)
          /\ acc(upto(N, bin_of(l) + 1)) \in Nat /\ acc(N) \in Nat
          BY <3>1, BinsFinite
    <3>3. QED  BY <1>2, <1>6, <1>7, <3>2, StepsReached
  <2>2. value_of(BinNumbers, k) = 0  BY <1>7 DEF value_of, N
  <2>3. QED  BY <2>1, <2>2
<1>8. CASE step_reached(acc(N), k)
  <2>1. PICK b \in N : /\ reached_at(N, k, b)
                       /\ \A m \in N : reached_at(N, k, m) => m = b
        BY <1>8, ReachedOnce DEF N
  <2>2. value_of(BinNumbers, k) = bin_middle(b - 1)
    <3>1. pick({m \in N : reached_at(N, k, m)}) = b  BY <2>1 DEF pick
    <3>2. QED  BY <1>8, <3>1 DEF value_of, N
  <2>3. N \subseteq Nat /\ b \in Nat /\ b > 0
        BY NumbersFinite DEF N, BinNumbers
  \* Some packet is in that bin, or the step would have been reached before.
  <2>4. in_bin(b - 1) # {}
    <3> SUFFICES ASSUME in_bin(b - 1) = {} PROVE FALSE
        OBVIOUS
    <3>1. \A i \in DOMAIN arrivals : bin_of(lat(i)) \in Int /\ bin_of(lat(i)) # b - 1
          BY <1>1, <1>3 DEF in_bin
    <3>2. in_bins(upto(N, b)) = in_bins(upto(N, b - 1))
          BY <2>3, <3>1 DEF in_bins, upto
    <3>3. step_reached(acc(upto(N, b - 1)), k)
          BY <2>1, <3>2 DEF acc, reached_at
    <3>4. CASE b - 1 \in N
          BY <2>1, <2>3, <3>3, <3>4 DEF reached_at
    <3>5. CASE b - 1 \notin N
      <4>1. NumBins \in Nat /\ b \in 1 .. NumBins /\ b - 1 \notin 1 .. NumBins
            BY <2>1, <3>5, StatisticsAssumption DEF N, BinNumbers
      <4>2. b = 1  BY <4>1
      <4>3. upto(N, b - 1) = {}  BY <4>1, <4>2 DEF upto, N, BinNumbers
      <4>4. QED  BY <3>3, <4>3, NoneAtFirst
    <3>6. QED  BY <3>4, <3>5
  \* With the greatest latency of that bin the step is reached.
  <2>5. PICK h \in in_bin(b - 1) : \A i \in in_bin(b - 1) : lat(i) <= lat(h)
    <3> DEFINE f == [i \in in_bin(b - 1) |-> lat(i)]
    <3>1. in_bin(b - 1) \in SUBSET DOMAIN arrivals  BY DEF in_bin
    <3>2. /\ IsFiniteSet(in_bin(b - 1))
          /\ \A i \in in_bin(b - 1) : f[i] = lat(i) /\ f[i] \in Int
          BY <1>1, <3>1, FS_Subset
    <3>3. \E h \in in_bin(b - 1) : \A i \in in_bin(b - 1) : f[i] <= f[h]
      <4> HIDE DEF f, lat
      <4>1. QED  BY <2>4, <3>2, Greatest
    <3>4. QED  BY <3>2, <3>3
  <2>6. h \in DOMAIN arrivals /\ bin_of(lat(h)) = b - 1 /\ lat(h) \in Int /\ lat(h) \in Latencies
        BY <1>1 DEF in_bin
  <2>7. in_bins(upto(N, b)) \in SUBSET within(lat(h))
    <3> SUFFICES ASSUME NEW i \in in_bins(upto(N, b))
                 PROVE  i \in within(lat(h))
        OBVIOUS
    <3>1. i \in DOMAIN arrivals /\ bin_of(lat(i)) + 1 \in N /\ bin_of(lat(i)) + 1 <= b
          BY DEF in_bins, upto
    <3>2. bin_of(lat(i)) \in Int /\ lat(i) \in Int  BY <1>1, <1>3, <3>1
    <3>3. bin_of(lat(i)) \in Bins  BY <1>4, <3>1, <3>2
    <3>4. lat(i) <= lat(h)
      <4>1. CASE bin_of(lat(i)) = b - 1
            BY <2>5, <3>1, <4>1 DEF in_bin
      <4>2. CASE bin_of(lat(i)) # b - 1
        <5>1. ~(bin_of(lat(h)) <= bin_of(lat(i)))
          <6> DEFINE u == bin_of(lat(i))
          <6>1. u \in Int /\ u + 1 <= b /\ u # b - 1  BY <3>1, <3>2, <4>2
          <6> HIDE DEF u
          <6>2. ~(b - 1 <= u)  BY <2>3, <6>1
          <6>3. QED  BY <2>6, <6>2 DEF u
        <5>2. ~(lat(h) <= lat(i))  BY <1>3, <2>6, <3>2, <5>1
        <5> HIDE DEF lat
        <5>3. QED  BY <2>6, <3>2, <5>2
      <4>3. QED  BY <4>1, <4>2
    <3>5. QED  BY <3>1, <3>3, <3>4 DEF within
  <2>8. lat(h) \in percentile(k)
    <3>1. within(lat(h)) \in SUBSET DOMAIN arrivals  BY DEF within
    <3>2. IsFiniteSet(within(lat(h)))  BY <1>1, <3>1, FS_Subset
    <3>3. /\ acc(upto(N, b)) <= Cardinality(within(lat(h)))
          /\ acc(upto(N, b)) \in Nat /\ Cardinality(within(lat(h))) \in Nat
          BY <2>7, <3>2, BinsFinite, FS_Subset, FS_CardinalityType DEF acc
    <3>4. step_reached(Cardinality(within(lat(h))), k)
          BY <1>2, <2>1, <3>3, StepsReached DEF reached_at
    <3>5. bin_of(lat(h)) \in Bins
      <4>1. bin_of(lat(h)) \in Int /\ bin_of(lat(h)) + 1 = b  BY <2>3, <2>6
      <4>2. QED  BY <1>4, <2>1, <4>1
    <3>6. QED  BY <2>6, <3>4, <3>5 DEF percentile
  \* The least latency that reaches the step.
  <2>9. PICK l \in percentile(k) : \A m \in percentile(k) : l <= m
    <3> DEFINE I == {i \in DOMAIN arrivals : lat(i) \in percentile(k)}
               f == [i \in I |-> 0 - lat(i)]
    <3>1. /\ IsFiniteSet(I) /\ h \in I
          /\ \A i \in I : f[i] = 0 - lat(i) /\ f[i] \in Int /\ lat(i) \in percentile(k)
      <4>1. I \in SUBSET DOMAIN arrivals  OBVIOUS
      <4>2. QED  BY <1>1, <2>6, <2>8, <4>1, FS_Subset
    <3>2. PICK j \in I : \A i \in I : f[i] <= f[j]
      <4> HIDE DEF f, I
      <4>1. QED  BY <3>1, Greatest
    <3>3. \A i \in I : lat(j) <= lat(i)
      <4> TAKE i \in I
      <4>1. lat(i) \in Int /\ lat(j) \in Int  BY <1>1
      <4>2. f[i] = 0 - lat(i) /\ f[j] = 0 - lat(j) /\ f[i] <= f[j]
            BY <3>1, <3>2
      <4> HIDE DEF lat, f
      <4>3. QED  BY <4>1, <4>2
    <3>4. \A m \in percentile(k) : \E i \in I : lat(i) = m
          BY DEF percentile
    <3>5. QED  BY <3>1, <3>3, <3>4
  <2>10. bin_of(l) = b - 1
    <3> DEFINE u == bin_of(l)
    <3>1. l \in Int /\ u + 1 \in N /\ step_reached(acc(upto(N, u + 1)), k)
          BY <1>6
    <3>2. l <= lat(h)  BY <2>8, <2>9
    <3>3. u \in Int /\ u <= b - 1
          BY <1>3, <2>6, <3>1, <3>2
    <3> HIDE DEF u
    <3>4. ~(u + 1 < b)  BY <2>1, <3>1 DEF reached_at
    <3>5. u = b - 1  BY <2>3, <3>3, <3>4
    <3>6. QED  BY <3>5 DEF u
  <2>11. QED  BY <2>2, <2>9, <2>10
<1>9. QED  BY <1>7, <1>8

Recorded ==
  cdf_values # <<>> /\ arrivals # <<>> =>
    \A k \in Steps : cdf_values[k] = value_of(BinNumbers, k)

StatInv == HistInv /\ Recorded

LEMMA StatInvInit == StatInit => StatInv
<1> SUFFICES ASSUME StatInit PROVE StatInv
    OBVIOUS
<1>1. arrivals = <<>> /\ hist = [b \in Bins |-> 0] /\ n_outside = 0 /\ cdf_values = <<>>
      BY DEF StatInit
<1>2. \A b \in Bins : Cardinality(in_bin(b)) = 0
  <2>1. \A b \in Bins : in_bin(b) = {}  BY <1>1 DEF in_bin
  <2>2. QED  BY <2>1, FS_EmptySet
<1>3. SumFunction(hist) = 0
  <2>1. IsFiniteSet(Bins)  BY StatisticsAssumption, FS_Interval DEF Bins
  <2>2. QED  BY <1>1, <2>1, SumZero DEF SumFunction
<1>4. QED  BY <1>1, <1>2, <1>3 DEF StatInv, HistInv, Recorded, getCount

\* Each packet goes to a bin or is counted outside.
LEMMA HistStep ==
  ASSUME HistInv, NEW f \in Flows, NEW id \in Ids, NEW l \in Latencies,
         HandleMessage(f, id, l)
  PROVE  HistInv'
<1> DEFINE r == [flow |-> f, id |-> id, latency |-> l]
           n == Len(arrivals)
           x == bin_of(l)
<1>1. /\ arrivals' = Append(arrivals, r) /\ r \in Arrivals /\ r.latency = l
      /\ collect(l)
      BY DEF HandleMessage, Arrivals
<1>2. /\ arrivals \in Seq(Arrivals) /\ hist \in [Bins -> Nat] /\ n_outside \in Nat
      /\ \A b \in Bins : hist[b] = Cardinality(in_bin(b))
      /\ SumFunction(hist) + n_outside = n
      BY DEF HistInv, getCount
<1> HIDE DEF r
<1>3. /\ n \in Nat /\ DOMAIN arrivals = 1 .. n
      /\ arrivals' \in Seq(Arrivals) /\ Len(arrivals') = n + 1
      /\ DOMAIN arrivals' = 1 .. n + 1
      /\ \A i \in 1 .. n : arrivals'[i] = arrivals[i]
      /\ arrivals'[n + 1] = r
      BY <1>1, <1>2
<1> HIDE DEF n
<1>4. \A b \in Bins : /\ b # x => in_bin(b)' = in_bin(b)
                      /\ b = x => in_bin(b)' = in_bin(b) \cup {n + 1}
  <2>1. \A i : i \in 1 .. n + 1 <=> i \in 1 .. n \/ i = n + 1  BY <1>3
  <2>2. n + 1 \notin 1 .. n  BY <1>3
  <2>3. bin_of(arrivals'[n + 1].latency) = x  BY <1>1, <1>3
  <2> HIDE DEF x
  <2>4. QED  BY <1>3, <2>1, <2>2, <2>3 DEF in_bin
<1>5. \A b \in Bins : IsFiniteSet(in_bin(b)) /\ n + 1 \notin in_bin(b)
  <2>1. IsFiniteSet(1 .. n)  BY <1>3, FS_Interval
  <2>2. \A b \in Bins : in_bin(b) \in SUBSET (1 .. n)  BY <1>3 DEF in_bin
  <2>3. n + 1 \notin 1 .. n  BY <1>3
  <2>4. QED  BY <2>1, <2>2, <2>3, FS_Subset
<1>6. \A b \in Bins : Cardinality(in_bin(b)') = IF b = x THEN hist[b] + 1 ELSE hist[b]
  <2> HIDE DEF x
  <2>1. QED  BY <1>2, <1>4, <1>5, FS_AddElement
<1>7. SumFunction(hist) \in Int
  <2>1. IsFiniteSet(Bins)  BY StatisticsAssumption, FS_Interval DEF Bins
  <2>2. QED  BY <1>2, <2>1, SumNat DEF SumFunction
<1> HIDE DEF x
<1>8. CASE x \in Bins
  <2>1. hist' = [hist EXCEPT ![x] = @ + 1] /\ n_outside' = n_outside
        BY <1>1, <1>8 DEF collect, x
  <2>2. /\ hist' \in [Bins -> Nat]
        /\ \A b \in Bins : hist'[b] = IF b = x THEN hist[b] + 1 ELSE hist[b]
        BY <1>2, <1>8, <2>1
  <2>3. SumFunction(hist') = SumFunction(hist) + 1
    <3>1. IsFiniteSet(Bins)  BY StatisticsAssumption, FS_Interval DEF Bins
    <3>2. \A b \in Bins : hist[b] \in Int /\ hist'[b] \in Int
          BY <1>2, <2>2
    <3>3. \A b \in Bins \ {x} : hist[b] = hist'[b]  BY <2>2
    <3> DEFINE h == hist'
    <3>4. SumFunctionOnSet(h, Bins) = SumFunctionOnSet(hist, Bins) - hist[x] + h[x]
      <4>1. (\A b \in Bins : hist[b] \in Int /\ h[b] \in Int) /\ \A b \in Bins \ {x} : hist[b] = h[b]
            BY <3>2, <3>3
      <4> HIDE DEF h
      <4>2. QED  BY <1>8, <3>1, <4>1, SumChange
    <3>5. DOMAIN hist = Bins /\ DOMAIN hist' = Bins  BY <1>2, <2>2
    <3>6. h[x] = hist[x] + 1 /\ hist[x] \in Int  BY <1>8, <2>2, <3>2
    <3>7. SumFunctionOnSet(hist, Bins) \in Int  BY <1>7, <3>5 DEF SumFunction
    <3>8. SumFunctionOnSet(h, Bins) = SumFunctionOnSet(hist, Bins) + 1
      <4> HIDE DEF h
      <4>1. QED  BY <3>4, <3>6, <3>7
    <3>9. QED  BY <3>5, <3>8 DEF SumFunction
  <2>4. getCount' = n + 1
        BY <1>2, <1>3, <1>7, <2>1, <2>3 DEF getCount
  <2>5. QED  BY <1>2, <1>3, <1>6, <2>1, <2>2, <2>4 DEF HistInv
<1>9. CASE x \notin Bins
  <2>1. hist' = hist /\ n_outside' = n_outside + 1
        BY <1>1, <1>9 DEF collect, x
  <2>2. getCount' = n + 1
        BY <1>2, <1>3, <1>7, <2>1 DEF getCount
  <2>3. QED  BY <1>2, <1>3, <1>6, <1>9, <2>1, <2>2 DEF HistInv
<1>10. QED  BY <1>8, <1>9

LEMMA StatInvStep == StatInv /\ [StatNext]_statVars => StatInv'
<1> SUFFICES ASSUME StatInv, [StatNext]_statVars PROVE StatInv'
    OBVIOUS
<1>1. ASSUME NEW f \in Flows, NEW id \in Ids, NEW l \in Latencies, HandleMessage(f, id, l)
      PROVE  StatInv'
  <2>1. cdf_values' = <<>>  BY <1>1 DEF HandleMessage
  <2>2. QED  BY <1>1, <2>1, HistStep DEF StatInv, Recorded
<1>2. ASSUME UNCHANGED <<hist, n_outside, arrivals>>
      PROVE  HistInv' /\ \A k \in Steps : value_of(BinNumbers, k)' = value_of(BinNumbers, k)
  <2>1. HistInv'
        BY <1>2 DEF StatInv, HistInv, getCount, in_bin
  <2>2. \A n, k : step_reached(n, k)' <=> step_reached(n, k)
        BY <1>2 DEF step_reached, getCount
  <2>3. \A T : acc(T)' = acc(T)
        BY <1>2 DEF acc, in_bins
  <2>4. \A k, m : reached_at(BinNumbers, k, m)' <=> reached_at(BinNumbers, k, m)
        BY <2>2, <2>3 DEF reached_at, upto
  <2>5. \A k : {m \in BinNumbers : reached_at(BinNumbers, k, m)}' =
                 {m \in BinNumbers : reached_at(BinNumbers, k, m)}
        BY <2>4
  <2>6. \A k \in Steps : value_of(BinNumbers, k)' = value_of(BinNumbers, k)
        BY <2>2, <2>3, <2>5 DEF value_of
  <2>7. QED  BY <2>1, <2>6
<1>3. CASE Finish
  <2>1. UNCHANGED <<hist, n_outside, arrivals>> /\ cdf_values' = record_cdf_simtime
        BY <1>3 DEF Finish
  <2>2. arrivals # <<>> => record_cdf_simtime = [k \in Steps |-> value_of(BinNumbers, k)]
        BY LoopsEnd DEF StatInv
  <2>3. arrivals # <<>> => \A k \in Steps : cdf_values'[k] = value_of(BinNumbers, k)
        BY <2>1, <2>2
  <2>4. QED  BY <1>2, <2>1, <2>3 DEF StatInv, Recorded
<1>4. CASE UNCHANGED statVars
  <2>1. UNCHANGED <<hist, n_outside, cdf_values, arrivals>>
        BY <1>4 DEF statVars
  <2>2. QED  BY <1>2, <2>1 DEF StatInv, Recorded
<1>5. QED  BY <1>1, <1>3, <1>4 DEF StatNext

\* The percentiles that are recorded are those of the latencies that have been
\* seen, whatever the range of the histogram, the number of steps and the
\* rounding of the quotients.
THEOREM PercentilesRecorded == StatSpec => []PercentilesCorrect
<1>1. StatInv => PercentilesCorrect
  <2> SUFFICES ASSUME StatInv, cdf_values # <<>>, arrivals # <<>>, NEW k \in Steps
               PROVE  \/ percentile(k) = {} /\ cdf_values[k] = 0
                      \/ \E l \in percentile(k) :
                           /\ \A m \in percentile(k) : l <= m
                           /\ cdf_values[k] = bin_middle(bin_of(l))
      BY DEF PercentilesCorrect
  <2>1. cdf_values[k] = value_of(BinNumbers, k)  BY DEF StatInv, Recorded
  <2>2. QED  BY <2>1, Percentile DEF StatInv
<1>2. QED  BY <1>1, StatInvInit, StatInvStep, PTL DEF StatSpec
=============================================================================
