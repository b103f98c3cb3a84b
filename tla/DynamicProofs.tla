--------------------------- MODULE DynamicProofs ----------------------------
(***************************************************************************)
(* Proofs about a node with ProcessingDynamicRSS, for any number of cores  *)
(* and table entries, any traffic and any interval.                        *)
(***************************************************************************)
EXTENDS ProcessingDynamicRSS, NodeProofs, SumProofs

allVars == <<nodeVars, dynVars>>

\* The redirection tables and what decides when an entry moves.
MoveInv ==
  /\ m_t_last_reassignment \in Nat
  /\ TablesAgree

CountersInv ==
  /\ m_core_instr_cntr \in [Cores -> Nat]
  /\ m_rss_reta_instr_cntr \in [Entries -> Nat]
  /\ CountersBalance

\* The parts of the node, the tables and the counters.
DynInv == NodeInv /\ MoveInv /\ CountersInv

\* What a step may do to the tables: nothing, but let the time pass, or move one
\* entry in both when the interval is over.
Keep ==
  /\ now' \in {now, now + 1}
  /\ UNCHANGED <<m_rss_reta_proc, m_rss_reta, m_t_last_reassignment>>

Move ==
  /\ now' = now
  /\ due /\ m_t_last_reassignment' = now
  /\ \/ UNCHANGED <<m_rss_reta_proc, m_rss_reta>>
     \/ \E e \in Entries, q \in Cores :
          /\ m_rss_reta_proc' = [m_rss_reta_proc EXCEPT ![e] = q]
          /\ m_rss_reta' = [m_rss_reta EXCEPT ![e] = q]

-----------------------------------------------------------------------------
\* There is a first element with the highest value, and one with the lowest.
LEMMA ExtremesExist ==
  ASSUME NEW S, IsFiniteSet(S), S # {}, S \subseteq Int,
         NEW cntr, \A i \in S : cntr[i] \in Int
  PROVE  highest(cntr, S) \in S /\ lowest(cntr, S) \in S
<1>1. ASSUME NEW value \in [S -> Int]
      PROVE  \E i \in S : \A j \in S :
               value[i] > value[j] \/ (value[i] = value[j] /\ i <= j)
  <2> DEFINE first(T, i) ==
               \A j \in T : value[i] > value[j] \/ (value[i] = value[j] /\ i <= j)
             F == {T \in SUBSET S : T # {} => \E i \in T : first(T, i)}
  <2>1. ASSUME NEW T \in SUBSET S, \A x \in T : T \ {x} \in F
        PROVE  T \in F
    <3>1. SUFFICES ASSUME T # {} PROVE \E i \in T : first(T, i)
          OBVIOUS
    <3>2. PICK x \in T : TRUE  BY <3>1
    <3>3. CASE T = {x}
          BY <3>2, <3>3
    <3>4. CASE T # {x}
      <4>1. PICK i \in T \ {x} : first(T \ {x}, i)  BY <2>1, <3>2, <3>4
      <4>2. /\ i \in Int /\ x \in Int /\ value[i] \in Int /\ value[x] \in Int
            /\ \A j \in T : j \in Int /\ value[j] \in Int
            BY <3>2
      <4>3. CASE value[i] > value[x] \/ (value[i] = value[x] /\ i <= x)
            BY <4>1, <4>3
      <4>4. CASE value[x] > value[i] \/ (value[x] = value[i] /\ x <= i)
            BY <3>2, <4>1, <4>2, <4>4
      <4>5. QED  BY <4>2, <4>3, <4>4
    <3>5. QED  BY <3>3, <3>4
  <2> HIDE DEF F
  <2>2. \A T \in SUBSET S : T \in F  BY <2>1, SubsetInduction
  <2>3. S \in F  BY <2>2
  <2>4. QED  BY <2>3 DEF F
<1>2. highest(cntr, S) \in S
  <2>1. [i \in S |-> cntr[i]] \in [S -> Int]  OBVIOUS
  <2>2. QED  BY <1>1, <2>1 DEF highest
<1>3. lowest(cntr, S) \in S
  <2> DEFINE down == [i \in S |-> 0 - cntr[i]]
  <2>1. down \in [S -> Int]  OBVIOUS
  <2>2. PICK i \in S : \A j \in S : down[i] > down[j] \/ (down[i] = down[j] /\ i <= j)
        BY <1>1, <2>1
  <2>3. \A j \in S : cntr[i] < cntr[j] \/ (cntr[i] = cntr[j] /\ i <= j)
        BY <2>2
  <2>4. QED  BY <2>3 DEF lowest
<1>4. QED  BY <1>2, <1>3

\* The indices of the tables.
LEMMA IndicesFinite ==
  /\ IsFiniteSet(Cores) /\ Cores # {} /\ Cores \subseteq Int
  /\ IsFiniteSet(Entries) /\ Entries \subseteq Int
<1>1. NCores \in Int /\ NCores > 0 /\ HashtableSize \in Int
      BY CoresAssumption, TableAssumption
<1>2. IsFiniteSet(Cores)  BY CoresFinite
<1>3. IsFiniteSet(Entries)  BY <1>1, FS_Interval DEF Entries
<1>4. QED  BY <1>1, <1>2, <1>3 DEF Cores, Entries

\* Both tables are written in the same place, and within their bounds.
LEMMA ReassignMoves ==
  ASSUME NEW cores \in [Cores -> Nat], NEW entries \in [Entries -> Nat],
         reassign(cores, entries)
  PROVE  \/ UNCHANGED <<m_rss_reta_proc, m_rss_reta>>
         \/ \E e \in Entries, q \in Cores :
              /\ m_rss_reta_proc' = [m_rss_reta_proc EXCEPT ![e] = q]
              /\ m_rss_reta' = [m_rss_reta EXCEPT ![e] = q]
<1> DEFINE owned == {e \in Entries : m_rss_reta_proc[e] = highest(cores, Cores)}
           e == highest(entries, owned)
           q == lowest(cores, Cores)
<1>1. q \in Cores
  <2>1. \A c \in Cores : cores[c] \in Int  OBVIOUS
  <2>2. QED  BY <2>1, IndicesFinite, ExtremesExist
<1>2. CASE owned # {}
  <2>1. owned \subseteq Entries  OBVIOUS
  <2>2. IsFiniteSet(owned) /\ owned \subseteq Int  BY <2>1, IndicesFinite, FS_Subset
  <2>3. \A d \in owned : entries[d] \in Int  OBVIOUS
  <2>4. e \in owned
    <3> HIDE DEF owned
    <3>1. QED  BY <1>2, <2>2, <2>3, ExtremesExist
  <2>5. /\ m_rss_reta_proc' = [m_rss_reta_proc EXCEPT ![e] = q]
        /\ m_rss_reta' = [m_rss_reta EXCEPT ![e] = q]
        BY <1>2 DEF reassign, update_rss_reta_entry
  <2> HIDE DEF e, q
  <2>6. QED  BY <1>1, <2>1, <2>4, <2>5
<1>3. CASE owned = {}
      BY <1>3 DEF reassign
<1>4. QED  BY <1>2, <1>3

\* The operator of CountersBalance is a sum over a function.
LEMMA CountersAreSums ==
  /\ MapThenSumSet(LAMBDA c : m_core_instr_cntr[c], Cores) =
       SumFunctionOnSet(m_core_instr_cntr, Cores)
  /\ MapThenSumSet(LAMBDA e : m_rss_reta_instr_cntr[e], Entries) =
       SumFunctionOnSet(m_rss_reta_instr_cntr, Entries)
BY DEF MapThenSumSet, SumFunctionOnSet, FoldFunctionOnSet, MapThenFoldSet

\* A counter of a table goes up by n and the others stay.
Counted(old, new, S, i, n) ==
  /\ new \in [S -> Nat]
  /\ new[i] = old[i] + n
  /\ \A j \in S \ {i} : new[j] = old[j]

\* What is counted for a packet is counted once on either side.
LEMMA CountKeepsBalance ==
  ASSUME CountersInv, NEW c \in Cores, NEW e \in Entries, NEW n \in Nat,
         NEW cores, Counted(m_core_instr_cntr, cores, Cores, c, n),
         NEW entries, Counted(m_rss_reta_instr_cntr, entries, Entries, e, n)
  PROVE  SumFunctionOnSet(cores, Cores) = SumFunctionOnSet(entries, Entries)
<1>1. ASSUME NEW S, IsFiniteSet(S), NEW old \in [S -> Nat],
             NEW i \in S, NEW new, Counted(old, new, S, i, n)
      PROVE  /\ SumFunctionOnSet(new, S) = SumFunctionOnSet(old, S) + n
             /\ SumFunctionOnSet(old, S) \in Int
  <2>1. \A x \in S : old[x] \in Int /\ new[x] \in Int
        BY <1>1 DEF Counted
  <2>2. \A x \in S \ {i} : old[x] = new[x]
        BY <1>1 DEF Counted
  <2>3. SumFunctionOnSet(new, S) = SumFunctionOnSet(old, S) - old[i] + new[i]
        BY <1>1, <2>1, <2>2, SumChange
  <2>4. SumFunctionOnSet(old, S) \in Int
        BY <1>1, <2>1, SumInt
  <2>5. QED  BY <2>1, <2>3, <2>4, <1>1 DEF Counted
<1>2. SumFunctionOnSet(cores, Cores) = SumFunctionOnSet(m_core_instr_cntr, Cores) + n
      BY <1>1, IndicesFinite DEF CountersInv
<1>3. SumFunctionOnSet(entries, Entries) =
        SumFunctionOnSet(m_rss_reta_instr_cntr, Entries) + n
      BY <1>1, IndicesFinite DEF CountersInv
<1>4. SumFunctionOnSet(m_core_instr_cntr, Cores) =
        SumFunctionOnSet(m_rss_reta_instr_cntr, Entries)
      BY CountersAreSums DEF CountersInv, CountersBalance
<1>5. QED  BY <1>2, <1>3, <1>4

\* process_packet keeps the counters balanced and the tables equal.
LEMMA CountKeepsOrMoves ==
  ASSUME CountersInv, OffloadTypeOK, NEW c \in Cores, NEW pkt \in Packets,
         count_and_reassign(c, pkt), now' = now
  PROVE  (Keep \/ Move) /\ CountersInv'
<1> DEFINE cores   == [m_core_instr_cntr EXCEPT ![c] = @ + pkt.instr]
           entries == [m_rss_reta_instr_cntr EXCEPT ![entry(pkt)] = @ + pkt.instr]
<1>1. entry(pkt) \in Entries /\ pkt.instr \in Nat
      BY EntryInTable, InputsAssumption DEF Packets
<1>2. /\ cores \in [Cores -> Nat] /\ entries \in [Entries -> Nat]
      /\ SumFunctionOnSet(cores, Cores) = SumFunctionOnSet(entries, Entries)
  <2>1. Counted(m_core_instr_cntr, cores, Cores, c, pkt.instr)
        BY <1>1 DEF CountersInv, Counted
  <2>2. Counted(m_rss_reta_instr_cntr, entries, Entries, entry(pkt), pkt.instr)
        BY <1>1 DEF CountersInv, Counted
  <2> HIDE DEF cores, entries
  <2>3. QED  BY <1>1, <2>1, <2>2, CountKeepsBalance DEF Counted
<1>3. \/ /\ ~due /\ m_core_instr_cntr' = cores /\ m_rss_reta_instr_cntr' = entries
         /\ UNCHANGED <<m_rss_reta_proc, m_rss_reta, m_t_last_reassignment>>
      \/ /\ due /\ reassign(cores, entries) /\ reset_counters
         /\ m_t_last_reassignment' = now
      BY DEF count_and_reassign
<1> HIDE DEF cores, entries
<1>4. CASE /\ ~due /\ m_core_instr_cntr' = cores /\ m_rss_reta_instr_cntr' = entries
           /\ UNCHANGED <<m_rss_reta_proc, m_rss_reta, m_t_last_reassignment>>
  <2>1. CountersBalance'
        BY <1>2, <1>4 DEF CountersBalance, MapThenSumSet, SumFunctionOnSet,
                          FoldFunctionOnSet, MapThenFoldSet
  <2>2. QED  BY <1>2, <1>4, <2>1 DEF Keep, CountersInv
<1>5. CASE /\ due /\ reassign(cores, entries) /\ reset_counters
           /\ m_t_last_reassignment' = now
  <2>1. /\ m_core_instr_cntr' = [d \in Cores |-> 0]
        /\ m_rss_reta_instr_cntr' = [i \in Entries |-> 0]
        BY <1>5 DEF reset_counters
  <2>2. /\ SumFunctionOnSet(m_core_instr_cntr', Cores) = 0
        /\ SumFunctionOnSet(m_rss_reta_instr_cntr', Entries) = 0
        BY <2>1, IndicesFinite, SumZero
  <2>3. CountersBalance'
        BY <2>2 DEF CountersBalance, MapThenSumSet, SumFunctionOnSet,
                    FoldFunctionOnSet, MapThenFoldSet
  <2>4. CountersInv'  BY <2>1, <2>3 DEF CountersInv
  <2>5. Move  BY <1>2, <1>5, ReassignMoves DEF Move
  <2>6. QED  BY <2>4, <2>5
<1>6. QED  BY <1>3, <1>4, <1>5

\* The cores only ever count packets that are bound to them.
LEMMA DynPopped ==
  ASSUME NodeInv, DynEnqueue \/ \E m \in Cores : DynComplete(m)
  PROVE  /\ now' = now
         /\ HandlePacket \/ \E m \in Cores : HandleProcDone(m)
         /\ UNCHANGED <<m_hashtable, m_rx_queue_overload, offload_in, offload_out, outVars, received>>
         /\ \/ UNCHANGED <<dynVars, m_rss_reta>>
            \/ \E c \in Cores, pkt \in Packets : count_and_reassign(c, pkt)
<1>1. out_proc \in Seq(Packets) /\ rx_queue \in [Cores -> Seq(Packets)]
      BY DEF NodeInv, CoreInv, ProcTypeOK, WiresTypeOK
<1>2. CASE DynEnqueue
  <2>1. HandlePacket /\ now' = now /\ out_proc # <<>>
        BY <1>2 DEF DynEnqueue, HandlePacket
  <2>2. Head(out_proc) = out_proc[1] /\ 1 \in DOMAIN out_proc /\ Head(out_proc) \in Packets
        BY <1>1, <2>1, TailItems
  <2>3. Head(out_proc).rx_queue \in Cores
        BY <2>2 DEF NodeInv, CoreInv, Routed
  <2>4. QED  BY <1>2, <2>1, <2>2, <2>3 DEF DynEnqueue
<1>3. ASSUME NEW m \in Cores, DynComplete(m)
      PROVE  /\ now' = now /\ HandleProcDone(m)
             /\ \/ UNCHANGED <<dynVars, m_rss_reta>>
                \/ \E c \in Cores, pkt \in Packets : count_and_reassign(c, pkt)
  <2>1. HandleProcDone(m) /\ now' = now
        BY <1>3 DEF DynComplete, HandleProcDone
  <2> DEFINE c == msg_proc_done[m].pkt.rx_queue
  <2>2. c \in Cores
        BY <2>1 DEF HandleProcDone, NodeInv, CoreInv, CoreConsistent
  <2>3. \/ UNCHANGED <<dynVars, m_rss_reta>>
        \/ rx_queue[c] # <<>> /\ count_and_reassign(c, Head(rx_queue[c]))
        BY <1>3 DEF DynComplete
  <2>4. rx_queue[c] # <<>> => Head(rx_queue[c]) \in Packets
        BY <1>1, <2>2
  <2> HIDE DEF c
  <2>5. QED  BY <2>1, <2>2, <2>3, <2>4
<1>4. QED  BY <1>2, <1>3 DEF DynComplete

\* The steps of the other modules are those of a Node without reassignment.
LEMMA OtherSteps ==
  ASSUME DynNext, ~DynEnqueue, ~\E m \in Cores : DynComplete(m)
  PROVE  /\ NodeNext /\ UNCHANGED dynVars
         /\ now' \in {now, now + 1} /\ UNCHANGED m_rss_reta
         /\ Dispatch \/ UNCHANGED <<out_proc, rx_queue, busy, msg_proc_done>>
<1>1. CASE \E pkt \in LinkPackets : Receive(pkt) /\ UNCHANGED dynVars
      BY <1>1 DEF Receive, procVars, coreVars, tableVars, NodeNext
<1>2. CASE OtherModules /\ UNCHANGED dynVars
  <2>1. NodeNext  BY <1>2 DEF OtherModules, NodeNext
  <2>2. /\ now' \in {now, now + 1} /\ UNCHANGED m_rss_reta
        /\ Dispatch \/ UNCHANGED <<out_proc, rx_queue, busy, msg_proc_done>>
    <3>1. CASE Dispatch
          BY <3>1 DEF Dispatch, OffloadHandlePkt
    <3>2. CASE LearnOverload
          BY <3>2 DEF LearnOverload, OffloadHandleTrigger, coreVars
    <3>3. CASE OutputProcessed
          BY <3>3 DEF OutputProcessed, TakeProcessed, coreVars, tableVars
    <3>4. CASE OutputOffloaded
          BY <3>4 DEF OutputOffloaded, TakeOffloaded, coreVars, tableVars
    <3>5. CASE OutputNext
          BY <3>5 DEF OutputNext, procVars, coreVars, tableVars
    <3>6. CASE Depart
          BY <3>6 DEF Depart, procVars, coreVars, tableVars
    <3>7. CASE NodeTick
          BY <3>7 DEF NodeTick, coreVars, tableVars
    <3>8. QED  BY <1>2, <3>1, <3>2, <3>3, <3>4, <3>5, <3>6, <3>7 DEF OtherModules
  <2>3. QED  BY <1>2, <2>1, <2>2
<1>3. QED  BY <1>1, <1>2 DEF DynNext

\* Every step keeps the tables or moves one entry, and keeps the counters
\* balanced.
LEMMA StepKeepsOrMoves ==
  ASSUME DynInv, [DynNext]_allVars
  PROVE  (Keep \/ Move) /\ CountersInv'
<1>1. ASSUME UNCHANGED <<m_core_instr_cntr, m_rss_reta_instr_cntr>>
      PROVE  CountersInv'
      BY <1>1 DEF DynInv, CountersInv, CountersBalance, MapThenSumSet, MapThenFoldSet
<1>2. CASE DynEnqueue \/ \E m \in Cores : DynComplete(m)
  <2>1. now' = now
        BY <1>2, DynPopped DEF DynInv
  <2>2. CASE UNCHANGED <<dynVars, m_rss_reta>>
        BY <1>1, <2>1, <2>2 DEF dynVars, Keep
  <2>3. CASE \E c \in Cores, pkt \in Packets : count_and_reassign(c, pkt)
        BY <2>1, <2>3, CountKeepsOrMoves DEF DynInv, NodeInv, OffloadInv
  <2>4. QED  BY <1>2, <2>2, <2>3, DynPopped DEF DynInv
<1>3. CASE DynNext /\ ~DynEnqueue /\ ~\E m \in Cores : DynComplete(m)
      BY <1>1, <1>3, OtherSteps DEF dynVars, Keep
<1>4. CASE UNCHANGED allVars
      BY <1>1, <1>4 DEF allVars, nodeVars, procVars, tableVars, dynVars, Keep
<1>5. QED  BY <1>2, <1>3, <1>4

\* Seen from Processing and from Offload, a reassignment is a step their
\* specifications allow.
LEMMA DynSteps ==
  ASSUME DynInv, [DynNext]_allVars
  PROVE  [ProcNext]_procVars /\ [OffloadNext]_offloadVars /\ Arrivals'
<1>1. CASE DynEnqueue \/ \E m \in Cores : DynComplete(m)
  <2>1. /\ HandlePacket \/ \E m \in Cores : HandleProcDone(m)
        /\ now' = now
        /\ UNCHANGED <<m_hashtable, m_rx_queue_overload, offload_in, offload_out>>
        BY <1>1, DynPopped DEF DynInv
  <2>2. \/ \E e \in Entries, q \in Cores : update_rss_reta_entry(e, q)
        \/ UNCHANGED m_rss_reta
        BY StepKeepsOrMoves DEF Keep, Move, update_rss_reta_entry
  <2>3. ProcessingStep
        BY <2>1, <2>2, CoresStep DEF DynInv, NodeInv
  <2>4. Arrivals'
        BY <2>1 DEF DynInv, NodeInv, Arrivals, ArrivingPackets
  <2>5. QED  BY <2>1, <2>3, <2>4 DEF ProcNext, OffloadNext
<1>2. CASE DynNext /\ ~DynEnqueue /\ ~\E m \in Cores : DynComplete(m)
      BY <1>2, OtherSteps, NodeStepsProcessing, NodeStepsOffload, ArrivalsStep DEF DynInv
<1>3. CASE UNCHANGED allVars
  <2>1. UNCHANGED nodeVars  BY <1>3 DEF allVars
  <2>2. QED  BY <2>1, NodeStepsProcessing, NodeStepsOffload, ArrivalsStep DEF DynInv
<1>4. QED  BY <1>1, <1>2, <1>3

LEMMA DynInvStep == DynInv /\ [DynNext]_allVars => DynInv'
<1> SUFFICES ASSUME DynInv, [DynNext]_allVars PROVE DynInv'
    OBVIOUS
<1>1. NodeInv'
      BY DynSteps, CoreInvStep, OffloadInvStep DEF DynInv, NodeInv
<1>2. now \in Nat  BY DEF DynInv, NodeInv, CoreInv, ProcTypeOK, WiresTypeOK
<1>3. MoveInv'
      BY <1>2, StepKeepsOrMoves DEF DynInv, MoveInv, TablesAgree, Keep, Move
<1>4. QED  BY <1>1, <1>3, StepKeepsOrMoves DEF DynInv

LEMMA DynInvInit == DynInit => DynInv
<1> SUFFICES ASSUME DynInit PROVE DynInv
    OBVIOUS
<1>1. NodeInv  BY NodeInvInit DEF DynInit
<1>2. MoveInv  BY DEF DynInit, NodeInit, OffloadInit, MoveInv, TablesAgree
<1>3. CountersInv
  <2>1. /\ m_core_instr_cntr = [c \in Cores |-> 0]
        /\ m_rss_reta_instr_cntr = [i \in Entries |-> 0]
        BY DEF DynInit
  <2>2. /\ SumFunctionOnSet(m_core_instr_cntr, Cores) = 0
        /\ SumFunctionOnSet(m_rss_reta_instr_cntr, Entries) = 0
        BY <2>1, IndicesFinite, SumZero
  <2>3. QED  BY <2>1, <2>2, CountersAreSums DEF CountersInv, CountersBalance
<1>4. QED  BY <1>1, <1>2, <1>3 DEF DynInv

LEMMA DynInvariant == DynSpec => []DynInv
<1>1. DynInv /\ [DynNext]_allVars => DynInv'
      BY DynInvStep
<1>2. QED  BY <1>1, DynInvInit, PTL DEF DynSpec, allVars

-----------------------------------------------------------------------------
\* Reassignment keeps within what Processing promises: all that is proved of
\* ProcSpec also holds of a node that moves entries of its redirection table.
THEOREM DynImplementsProcessing == DynSpec => ProcSpec
<1>1. DynInit => ProcInit  BY DEF DynInit, NodeInit
<1>2. DynInv /\ [DynNext]_allVars => [ProcNext]_procVars
      BY DynSteps
<1>3. QED  BY <1>1, <1>2, DynInvariant, PTL DEF DynSpec, ProcSpec, allVars

\* Offload is told only of entries and cores that exist, whatever the counters
\* say: all that is proved of OffloadSpec also holds of such a node.
THEOREM DynImplementsOffload == DynSpec => OffloadSpec
<1>1. DynInit => WiresInit /\ OffloadInit  BY DEF DynInit, NodeInit, ProcInit
<1>2. DynInv /\ [DynNext]_allVars => [OffloadNext]_offloadVars
      BY DynSteps
<1>3. QED  BY <1>1, <1>2, DynInvariant, PTL DEF DynSpec, OffloadSpec, allVars

\* Offload, which dispatches by its copy of the redirection table, and this
\* module, which counts and decides by its own, never disagree on the owner of
\* an entry.
THEOREM TablesNeverDiffer == DynSpec => []TablesAgree
BY DynInvariant, PTL DEF DynInv, MoveInv

\* The two kinds of counters add up to the same number of instructions, for any
\* number of cores and entries.
THEOREM CountersAgree == DynSpec => []CountersBalance
BY DynInvariant, PTL DEF DynInv, CountersInv

\* An entry is reassigned only when the interval has passed since the last
\* time, and never two of them at once.
THEOREM MovesAreRare == DynSpec => OneMovePerInterval
<1>1. DynInv /\ [DynNext]_allVars =>
        [\A e \in Entries :
           m_rss_reta'[e] # m_rss_reta[e] =>
             /\ now >= m_t_last_reassignment + ReassignmentInterval
             /\ m_t_last_reassignment' = now
             /\ \A d \in Entries \ {e} : m_rss_reta'[d] = m_rss_reta[d]]_<<nodeVars, dynVars>>
  <2> SUFFICES ASSUME DynInv, [DynNext]_allVars,
                      NEW e \in Entries, m_rss_reta'[e] # m_rss_reta[e]
               PROVE  /\ now >= m_t_last_reassignment + ReassignmentInterval
                      /\ m_t_last_reassignment' = now
                      /\ \A d \in Entries \ {e} : m_rss_reta'[d] = m_rss_reta[d]
      OBVIOUS
  <2>1. Move  BY StepKeepsOrMoves DEF Keep
  <2>2. /\ now \in Nat /\ m_t_last_reassignment \in Nat
        /\ m_rss_reta \in [Entries -> Cores]
        BY DEF DynInv, MoveInv, NodeInv, OffloadInv, OffloadTypeOK, WiresTypeOK
  <2>3. now >= m_t_last_reassignment + ReassignmentInterval
        BY <2>1, <2>2, IntervalAssumption DEF Move, due
  <2>4. PICK x \in Entries, q \in Cores : m_rss_reta' = [m_rss_reta EXCEPT ![x] = q]
        BY <2>1 DEF Move
  <2>5. \A d \in Entries : d # x => m_rss_reta'[d] = m_rss_reta[d]
        BY <2>2, <2>4
  <2>6. QED  BY <2>1, <2>3, <2>5 DEF Move
<1>2. QED  BY <1>1, DynInvariant, PTL DEF DynSpec, OneMovePerInterval, allVars

-----------------------------------------------------------------------------
(* What is left behind by a move.                                          *)

\* A packet at core c was sent there by the redirection table as it is, or came
\* in no later than the table was last changed.
Placed(c, p) ==
  /\ p \in Packets
  /\ p.arrival_time <= now
  /\ m_rss_reta[entry(p)] # c => p.arrival_time <= m_t_last_reassignment

AllPlaced == \A c \in Cores : \A p \in atCore(c) : Placed(c, p)

\* A packet that stays at its core, marked or not, is as well placed there as
\* before, also when an entry moves.
LEMMA PlacedKept ==
  ASSUME DynInv, Keep \/ Move, NEW c \in Cores, NEW r, Placed(c, r),
         NEW p, p = r \/ p = set_processing_done(r)
  PROVE  Placed(c, p)'
<1>1. /\ r \in Packets /\ r.arrival_time <= now /\ r.arrival_time \in Nat
      /\ m_rss_reta[entry(r)] # c => r.arrival_time <= m_t_last_reassignment
      BY DEF Placed, Packets
<1>2. /\ p \in Packets /\ p.arrival_time = r.arrival_time /\ p.flow = r.flow
      BY <1>1 DEF Packets, set_processing_done
<1>3. entry(p)' = entry(r)  BY <1>2 DEF entry
<1>4. now \in Nat  BY DEF DynInv, NodeInv, CoreInv, ProcTypeOK, WiresTypeOK
<1>5. CASE Keep
      BY <1>1, <1>2, <1>3, <1>4, <1>5 DEF Keep, Placed
<1>6. CASE Move
      BY <1>1, <1>2, <1>6 DEF Move, Placed
<1>7. QED  BY <1>5, <1>6

\* Offload sends a packet to the core its copy of the table names.
LEMMA PlacedDispatch ==
  ASSUME DynInv, ~Enabled, Dispatch, UNCHANGED m_t_last_reassignment,
         NEW c \in Cores, NEW p \in atCore(c)', p \notin atCore(c)
  PROVE  Placed(c, p)'
<1> DEFINE pkt == Head(offload_in)
           sent == delivered(set_rx_queue(pkt, calc_rss_rx_queue(pkt)), now)
<1>1. /\ offload_in # <<>> /\ out_proc' = Append(out_proc, sent)
      /\ UNCHANGED <<now, m_rss_reta, rx_queue, busy, msg_proc_done>>
      BY DEF Dispatch, OffloadHandlePkt, handle_pkt, send_pkt_local, coreVars
<1>2. /\ out_proc \in Seq(Packets) /\ offload_in \in Seq(Packets) /\ now \in Nat
      /\ OffloadTypeOK
      BY DEF DynInv, NodeInv, OffloadInv, OffloadTypeOK, WiresTypeOK
<1>3. pkt \in Packets  BY <1>1, <1>2, TailItems
<1>4. calc_rss_rx_queue(pkt) \in Cores  BY <1>2, <1>3, EntryInTable
<1> HIDE DEF pkt
<1>5. /\ sent \in Packets /\ sent.rx_queue = calc_rss_rx_queue(pkt)
      /\ sent.flow = pkt.flow /\ sent.arrival_time = now
      BY <1>2, <1>3, <1>4 DEF Packets, delivered, set_rx_queue
<1> HIDE DEF sent
<1>6. \A i \in DOMAIN out_proc' :
        out_proc'[i] = IF i \in DOMAIN out_proc THEN out_proc[i] ELSE sent
      BY <1>1, <1>2, <1>5, AppendItems
<1>7. p = sent /\ c = sent.rx_queue
      BY <1>1, <1>6 DEF atCore
<1>8. entry(p)' = entry(pkt)  BY <1>5, <1>7 DEF entry
<1>9. now <= now  BY <1>2
<1>10. QED  BY <1>1, <1>5, <1>7, <1>8, <1>9 DEF Placed, calc_rss_rx_queue

\* Every step preserves AllPlaced.
LEMMA PlacedStep ==
  ASSUME DynInv, DynInv', ~Enabled, AllPlaced, [DynNext]_allVars
  PROVE  AllPlaced'
<1>1. SUFFICES ASSUME NEW c \in Cores, NEW p \in atCore(c)'
               PROVE  Placed(c, p)'
      BY DEF AllPlaced
<1>2. ASSUME NEW r \in atCore(c), p = r \/ p = set_processing_done(r)
      PROVE  Placed(c, p)'
      BY <1>2, StepKeepsOrMoves, PlacedKept DEF AllPlaced
<1>3. CASE DynEnqueue \/ \E m \in Cores : DynComplete(m)
      BY <1>2, <1>3, DynPopped, CoresKeepPackets DEF DynInv
<1>4. CASE DynNext /\ ~DynEnqueue /\ ~\E m \in Cores : DynComplete(m)
  <2>1. CASE Dispatch
    <3>1. UNCHANGED m_t_last_reassignment  BY <1>4, OtherSteps DEF dynVars
    <3>2. QED  BY <1>2, <2>1, <3>1, PlacedDispatch
  <2>2. CASE UNCHANGED <<out_proc, rx_queue, busy, msg_proc_done>>
    <3>1. atCore(c)' = atCore(c)  BY <2>2 DEF atCore
    <3>2. QED  BY <1>2, <3>1
  <2>3. QED  BY <1>4, <2>1, <2>2, OtherSteps
<1>5. CASE UNCHANGED allVars
  <2>1. atCore(c)' = atCore(c)
        BY <1>5 DEF allVars, nodeVars, procVars, coreVars, atCore
  <2>2. QED  BY <1>2, <2>1
<1>6. QED  BY <1>3, <1>4, <1>5

\* No packet that comes in after a move is sent to the core that lost its entry:
\* what waits at a core that does not own its entry was there already.  The
\* hash table is off in this configuration (ExpFourNodesDynamicRSS.ini), else it
\* would keep sending a flow to the core its entry names.
THEOREM OnlyOldLeftBehind ==
  ASSUME ~Enabled
  PROVE  DynSpec => []LeftBehindByMove
<1>1. DynInit => AllPlaced
  <2> SUFFICES ASSUME DynInit PROVE AllPlaced
      OBVIOUS
  <2>1. \A c \in Cores : atCore(c) = {}
        BY DEF DynInit, NodeInit, ProcInit, WiresInit, atCore
  <2>2. QED  BY <2>1 DEF AllPlaced
<1>2. DynInv /\ DynInv' /\ AllPlaced /\ [DynNext]_allVars => AllPlaced'
      BY PlacedStep
<1>3. AllPlaced => LeftBehindByMove
      BY DEF AllPlaced, Placed, LeftBehindByMove
<1>4. QED  BY <1>1, <1>2, <1>3, DynInvariant, PTL DEF DynSpec, allVars

-----------------------------------------------------------------------------
(* What a core that owns no entry counts.                                  *)

\* The instructions of the packets of a sequence, and of those bound to core c.
workOf(s) == SumFunction([i \in DOMAIN s |-> s[i].instr])

workFor(s, c) ==
  SumFunction([i \in DOMAIN s |-> IF s[i].rx_queue = c THEN s[i].instr ELSE 0])

forCore(p, c) == IF p.rx_queue = c THEN p.instr ELSE 0

LEMMA InstrInt == \A p \in Packets : p.instr \in Int
<1>1. \A p \in Packets : p.instr \in Instrs  BY DEF Packets
<1>2. \A n \in Instrs : n \in Int  BY InputsAssumption
<1>3. QED  BY <1>1, <1>2

LEMMA WorkInt ==
  ASSUME NEW s \in Seq(Packets), NEW c
  PROVE  workOf(s) \in Int /\ workFor(s, c) \in Int
<1> DEFINE f == [i \in DOMAIN s |-> s[i].instr]
           g == [i \in DOMAIN s |-> IF s[i].rx_queue = c THEN s[i].instr ELSE 0]
<1>1. DOMAIN s = 1 .. Len(s) /\ Len(s) \in Nat /\ \A i \in DOMAIN s : s[i] \in Packets
      OBVIOUS
<1>2. IsFiniteSet(DOMAIN s)  BY <1>1, FS_Interval
<1>3. \A i \in DOMAIN s : f[i] \in Int /\ g[i] \in Int  BY <1>1, InstrInt
<1>4. DOMAIN f = DOMAIN s /\ DOMAIN g = DOMAIN s  OBVIOUS
<1>5. workOf(s) = SumFunctionOnSet(f, DOMAIN s) /\ workFor(s, c) = SumFunctionOnSet(g, DOMAIN s)
      BY <1>4 DEF workOf, workFor, SumFunction
<1> HIDE DEF f, g
<1>6. QED  BY <1>2, <1>3, <1>5, SumInt

\* A packet more at the end.
LEMMA WorkAppended ==
  ASSUME NEW s \in Seq(Packets), NEW p \in Packets, NEW c
  PROVE  /\ workOf(Append(s, p)) = workOf(s) + p.instr
         /\ workFor(Append(s, p), c) = workFor(s, c) + forCore(p, c)
<1> DEFINE t == Append(s, p)
           n == Len(s)
           f == [i \in DOMAIN s |-> s[i].instr]
           g == [i \in DOMAIN s |-> IF s[i].rx_queue = c THEN s[i].instr ELSE 0]
           h == [i \in DOMAIN t |-> t[i].instr]
           k == [i \in DOMAIN t |-> IF t[i].rx_queue = c THEN t[i].instr ELSE 0]
<1>1. /\ n \in Nat /\ DOMAIN s = 1 .. n /\ DOMAIN t = 1 .. n + 1
      /\ \A i \in 1 .. n : s[i] \in Packets /\ t[i] = s[i] /\ i \in 1 .. n + 1
      /\ t[n + 1] = p /\ n + 1 \in 1 .. n + 1
      OBVIOUS
<1> HIDE DEF t, n
<1>2. /\ \A i \in 1 .. n : f[i] \in Int /\ h[i] = f[i]
      /\ \A i \in 1 .. n : g[i] \in Int /\ k[i] = g[i]
      BY <1>1, InstrInt
<1>3. h[n + 1] = p.instr /\ k[n + 1] = forCore(p, c)
      BY <1>1 DEF forCore
<1>4. h[n + 1] \in Int /\ k[n + 1] \in Int
      BY <1>3, InstrInt DEF forCore
<1>5. /\ workOf(s) = SumFunctionOnSet(f, 1 .. n) /\ workOf(t) = SumFunctionOnSet(h, 1 .. n + 1)
      /\ workFor(s, c) = SumFunctionOnSet(g, 1 .. n)
      /\ workFor(t, c) = SumFunctionOnSet(k, 1 .. n + 1)
      BY <1>1 DEF workOf, workFor, SumFunction
<1> HIDE DEF f, g, h, k
<1>6. SumFunctionOnSet(h, 1 .. n + 1) = SumFunctionOnSet(f, 1 .. n) + h[n + 1]
      BY <1>1, <1>2, <1>4, SumLonger
<1>7. SumFunctionOnSet(k, 1 .. n + 1) = SumFunctionOnSet(g, 1 .. n) + k[n + 1]
      BY <1>1, <1>2, <1>4, SumLonger
<1>8. QED  BY <1>3, <1>5, <1>6, <1>7 DEF t

\* The first packet less.
LEMMA WorkTaken ==
  ASSUME NEW s \in Seq(Packets), s # <<>>, NEW c
  PROVE  /\ workOf(s) = Head(s).instr + workOf(Tail(s))
         /\ workFor(s, c) = forCore(Head(s), c) + workFor(Tail(s), c)
<1> DEFINE t == Tail(s)
           n == Len(s) - 1
           f == [i \in DOMAIN s |-> s[i].instr]
           g == [i \in DOMAIN s |-> IF s[i].rx_queue = c THEN s[i].instr ELSE 0]
           h == [i \in DOMAIN t |-> t[i].instr]
           k == [i \in DOMAIN t |-> IF t[i].rx_queue = c THEN t[i].instr ELSE 0]
<1>1. /\ n \in Nat /\ DOMAIN s = 1 .. n + 1 /\ DOMAIN t = 1 .. n
      /\ \A i \in 1 .. n + 1 : s[i] \in Packets
      /\ \A i \in 1 .. n : t[i] = s[i + 1] /\ i + 1 \in 1 .. n + 1
      /\ s[1] = Head(s) /\ 1 \in 1 .. n + 1
      OBVIOUS
<1> HIDE DEF t, n
<1>2. /\ \A i \in 1 .. n + 1 : f[i] \in Int /\ g[i] \in Int
      /\ \A i \in 1 .. n : h[i] = f[i + 1] /\ k[i] = g[i + 1]
      BY <1>1, InstrInt
<1>3. f[1] = Head(s).instr /\ g[1] = forCore(Head(s), c)
      BY <1>1 DEF forCore
<1>4. /\ workOf(s) = SumFunctionOnSet(f, 1 .. n + 1) /\ workOf(t) = SumFunctionOnSet(h, 1 .. n)
      /\ workFor(s, c) = SumFunctionOnSet(g, 1 .. n + 1)
      /\ workFor(t, c) = SumFunctionOnSet(k, 1 .. n)
      BY <1>1 DEF workOf, workFor, SumFunction
<1> HIDE DEF f, g, h, k
<1>5. SumFunctionOnSet(f, 1 .. n + 1) = f[1] + SumFunctionOnSet(h, 1 .. n)
      BY <1>1, <1>2, SumShifted
<1>6. SumFunctionOnSet(g, 1 .. n + 1) = g[1] + SumFunctionOnSet(k, 1 .. n)
      BY <1>1, <1>2, SumShifted
<1>7. QED  BY <1>3, <1>4, <1>5, <1>6 DEF t

LEMMA BacklogIs ==
  /\ \A c : backlog(c) = workOf(rx_queue[c]) + workFor(out_proc, c)
  /\ \A c : backlog(c)' = workOf(rx_queue'[c]) + workFor(out_proc', c)
BY DEF backlog, workOf, workFor

LEMMA BacklogInt ==
  ASSUME NodeInv, NEW c \in Cores
  PROVE  backlog(c) \in Int
<1>1. out_proc \in Seq(Packets) /\ rx_queue[c] \in Seq(Packets)
      BY DEF NodeInv, CoreInv, ProcTypeOK, WiresTypeOK
<1>2. workOf(rx_queue[c]) \in Int /\ workFor(out_proc, c) \in Int
      BY <1>1, WorkInt
<1>3. QED  BY <1>2, BacklogIs

\* What a core starts is taken off its backlog, and nothing else is.
Started(c, n) ==
  \A d \in Cores : backlog(d)' = backlog(d) - (IF d = c THEN n ELSE 0)

\* A packet that comes to a core waits there instead of on the way, or, at a
\* core that is not busy, is started.
LEMMA EnqueueStarts ==
  ASSUME NodeInv, DynEnqueue
  PROVE  \E c \in Cores, n \in Int :
           /\ Started(c, n)
           /\ \/ n = 0 /\ UNCHANGED <<dynVars, m_rss_reta>>
              \/ \E pkt \in Packets : pkt.instr = n /\ count_and_reassign(c, pkt)
<1> DEFINE pkt   == Head(out_proc)
           c     == pkt.rx_queue
           queue == Append(rx_queue[c], pkt)
<1>1. /\ out_proc \in Seq(Packets) /\ rx_queue \in [Cores -> Seq(Packets)]
      /\ \A d \in Cores : ~busy[d] => rx_queue[d] = <<>>
      BY DEF NodeInv, CoreInv, ProcTypeOK, WiresTypeOK, CoreConsistent
<1>2. out_proc # <<>> /\ out_proc' = Tail(out_proc)
      BY DEF DynEnqueue, HandlePacket
<1>3. pkt \in Packets /\ c \in Cores
  <2>1. pkt = out_proc[1] /\ 1 \in DOMAIN out_proc /\ pkt \in Packets
        BY <1>1, <1>2, TailItems
  <2>2. QED  BY <2>1 DEF NodeInv, CoreInv, Routed
<1>4. \/ /\ busy[c] /\ UNCHANGED <<dynVars, m_rss_reta>>
         /\ rx_queue' = [rx_queue EXCEPT ![c] = queue]
      \/ /\ ~busy[c] /\ count_and_reassign(c, pkt)
         /\ rx_queue' = [rx_queue EXCEPT ![c] = Tail(queue)]
      BY DEF DynEnqueue, HandlePacket, process_packet
<1>5. pkt.instr \in Int  BY <1>3, InstrInt
<1>6. \A d \in Cores : workFor(out_proc, d) = forCore(pkt, d) + workFor(out_proc', d)
      BY <1>1, <1>2, WorkTaken
<1>7. Tail(out_proc) \in Seq(Packets)  BY <1>1, <1>2, TailItems
<1>8. \A d \in Cores : /\ workOf(rx_queue[d]) \in Int
                       /\ workFor(out_proc, d) \in Int /\ workFor(out_proc', d) \in Int
      BY <1>1, <1>2, <1>7, WorkInt
<1>9. \A d \in Cores : forCore(pkt, d) = IF d = c THEN pkt.instr ELSE 0
      BY DEF forCore
<1>10. workOf(queue) = workOf(rx_queue[c]) + pkt.instr
      BY <1>1, <1>3, WorkAppended
<1> HIDE DEF pkt, c
<1>11. CASE /\ busy[c] /\ UNCHANGED <<dynVars, m_rss_reta>>
            /\ rx_queue' = [rx_queue EXCEPT ![c] = queue]
  <2>1. /\ rx_queue'[c] = queue
        /\ \A d \in Cores : d # c => rx_queue'[d] = rx_queue[d]
        BY <1>1, <1>3, <1>11
  <2>2. ASSUME NEW d \in Cores
        PROVE  backlog(d)' = backlog(d) - (IF d = c THEN 0 ELSE 0)
    <3>1. /\ backlog(d) = workOf(rx_queue[d]) + workFor(out_proc, d)
          /\ backlog(d)' = workOf(rx_queue'[d]) + workFor(out_proc', d)
          BY BacklogIs
    <3>2. CASE d = c
      <4>1. workOf(rx_queue'[d]) = workOf(rx_queue[d]) + pkt.instr
            BY <1>10, <2>1, <3>2
      <4>2. workFor(out_proc, d) = pkt.instr + workFor(out_proc', d)
            BY <1>6, <1>9, <3>2
      <4>3. QED  BY <1>5, <1>8, <3>1, <4>1, <4>2
    <3>3. CASE d # c
      <4>1. rx_queue'[d] = rx_queue[d]  BY <2>1, <3>3
      <4>2. workFor(out_proc, d) = 0 + workFor(out_proc', d)
            BY <1>6, <1>9, <3>3
      <4>3. QED  BY <1>8, <3>1, <4>1, <4>2
    <3>4. QED  BY <3>2, <3>3
  <2>3. Started(c, 0)  BY <2>2 DEF Started
  <2>4. QED  BY <1>3, <1>11, <2>3
<1>12. CASE /\ ~busy[c] /\ count_and_reassign(c, pkt)
            /\ rx_queue' = [rx_queue EXCEPT ![c] = Tail(queue)]
  <2>1. rx_queue[c] = <<>>  BY <1>1, <1>3, <1>12
  <2>2. Tail(queue) = <<>>  BY <2>1
  <2>3. /\ rx_queue'[c] = rx_queue[c]
        /\ \A d \in Cores : d # c => rx_queue'[d] = rx_queue[d]
        BY <1>1, <1>3, <1>12, <2>1, <2>2
  <2>4. ASSUME NEW d \in Cores
        PROVE  backlog(d)' = backlog(d) - (IF d = c THEN pkt.instr ELSE 0)
    <3>1. /\ backlog(d) = workOf(rx_queue[d]) + workFor(out_proc, d)
          /\ backlog(d)' = workOf(rx_queue'[d]) + workFor(out_proc', d)
          BY BacklogIs
    <3>2. rx_queue'[d] = rx_queue[d]  BY <2>3
    <3>3. workFor(out_proc, d) = (IF d = c THEN pkt.instr ELSE 0) + workFor(out_proc', d)
          BY <1>6, <1>9
    <3>4. (IF d = c THEN pkt.instr ELSE 0) \in Int  BY <1>5
    <3>5. QED  BY <1>8, <3>1, <3>2, <3>3, <3>4
  <2>5. Started(c, pkt.instr)  BY <2>4 DEF Started
  <2>6. QED  BY <1>3, <1>5, <1>12, <2>5
<1>13. QED  BY <1>4, <1>11, <1>12

\* A core that is done starts the next packet, if there is one.
LEMMA CompleteStarts ==
  ASSUME NodeInv, NEW m \in Cores, DynComplete(m)
  PROVE  \E c \in Cores, n \in Int :
           /\ Started(c, n)
           /\ \/ n = 0 /\ UNCHANGED <<dynVars, m_rss_reta>>
              \/ \E pkt \in Packets : pkt.instr = n /\ count_and_reassign(c, pkt)
<1> DEFINE c   == msg_proc_done[m].pkt.rx_queue
           pkt == Head(rx_queue[c])
<1>1. out_proc \in Seq(Packets) /\ rx_queue \in [Cores -> Seq(Packets)]
      BY DEF NodeInv, CoreInv, ProcTypeOK, WiresTypeOK
<1>2. HandleProcDone(m) /\ UNCHANGED out_proc
      BY DEF DynComplete, HandleProcDone
<1>3. c \in Cores
      BY <1>2 DEF HandleProcDone, NodeInv, CoreInv, CoreConsistent
<1>4. \/ /\ rx_queue[c] = <<>> /\ UNCHANGED <<dynVars, m_rss_reta>>
         /\ UNCHANGED rx_queue
      \/ /\ rx_queue[c] # <<>> /\ count_and_reassign(c, pkt)
         /\ rx_queue' = [rx_queue EXCEPT ![c] = Tail(rx_queue[c])]
      BY <1>2 DEF DynComplete, HandleProcDone, process_packet
<1>5. \A d \in Cores : workOf(rx_queue[d]) \in Int /\ workFor(out_proc, d) \in Int
      BY <1>1, WorkInt
<1>6. rx_queue[c] # <<>> => /\ pkt \in Packets
                            /\ Tail(rx_queue[c]) \in Seq(Packets)
                            /\ workOf(rx_queue[c]) = pkt.instr + workOf(Tail(rx_queue[c]))
      BY <1>1, <1>3, TailItems, WorkTaken
<1> HIDE DEF c, pkt
<1>7. CASE /\ rx_queue[c] = <<>> /\ UNCHANGED <<dynVars, m_rss_reta>>
           /\ UNCHANGED rx_queue
  <2>1. ASSUME NEW d \in Cores
        PROVE  backlog(d)' = backlog(d) - (IF d = c THEN 0 ELSE 0)
    <3>1. /\ backlog(d) = workOf(rx_queue[d]) + workFor(out_proc, d)
          /\ backlog(d)' = workOf(rx_queue'[d]) + workFor(out_proc', d)
          BY BacklogIs
    <3>2. rx_queue'[d] = rx_queue[d] /\ out_proc' = out_proc  BY <1>2, <1>7
    <3>3. QED  BY <1>5, <3>1, <3>2
  <2>2. Started(c, 0)  BY <2>1 DEF Started
  <2>3. QED  BY <1>3, <1>7, <2>2
<1>8. CASE /\ rx_queue[c] # <<>> /\ count_and_reassign(c, pkt)
           /\ rx_queue' = [rx_queue EXCEPT ![c] = Tail(rx_queue[c])]
  <2>1. /\ rx_queue'[c] = Tail(rx_queue[c])
        /\ \A d \in Cores : d # c => rx_queue'[d] = rx_queue[d]
        BY <1>1, <1>3, <1>8
  <2>2. pkt.instr \in Int  BY <1>6, <1>8, InstrInt
  <2>3. workOf(Tail(rx_queue[c])) \in Int  BY <1>6, <1>8, WorkInt
  <2>4. ASSUME NEW d \in Cores
        PROVE  backlog(d)' = backlog(d) - (IF d = c THEN pkt.instr ELSE 0)
    <3>1. /\ backlog(d) = workOf(rx_queue[d]) + workFor(out_proc, d)
          /\ backlog(d)' = workOf(rx_queue'[d]) + workFor(out_proc', d)
          BY BacklogIs
    <3>2. out_proc' = out_proc  BY <1>2
    <3>3. CASE d = c
      <4>1. workOf(rx_queue[d]) = pkt.instr + workOf(rx_queue'[d]) /\ workOf(rx_queue'[d]) \in Int
            BY <1>6, <1>8, <2>1, <2>3, <3>3
      <4>2. QED  BY <1>5, <2>2, <3>1, <3>2, <3>3, <4>1
    <3>4. CASE d # c
      <4>1. rx_queue'[d] = rx_queue[d]  BY <2>1, <3>4
      <4>2. QED  BY <1>5, <3>1, <3>2, <3>4, <4>1
    <3>5. QED  BY <3>3, <3>4
  <2>5. Started(c, pkt.instr)  BY <2>4 DEF Started
  <2>6. QED  BY <1>3, <1>6, <1>8, <2>2, <2>5
<1>9. QED  BY <1>4, <1>7, <1>8

\* Offload sends nothing to a core that owns no entry.
LEMMA DispatchStarts ==
  ASSUME DynInv, ~Enabled, Dispatch, NEW c \in Cores, \A e \in Entries : m_rss_reta[e] # c
  PROVE  backlog(c)' = backlog(c)
<1> DEFINE pkt  == Head(offload_in)
           sent == delivered(set_rx_queue(pkt, calc_rss_rx_queue(pkt)), now)
<1>1. /\ offload_in # <<>> /\ out_proc' = Append(out_proc, sent)
      /\ UNCHANGED rx_queue
      BY DEF Dispatch, OffloadHandlePkt, handle_pkt, send_pkt_local, coreVars
<1>2. /\ out_proc \in Seq(Packets) /\ offload_in \in Seq(Packets) /\ now \in Nat
      /\ OffloadTypeOK /\ rx_queue \in [Cores -> Seq(Packets)]
      BY DEF DynInv, NodeInv, OffloadInv, OffloadTypeOK, WiresTypeOK, CoreInv, ProcTypeOK
<1>3. pkt \in Packets  BY <1>1, <1>2, TailItems
<1>4. calc_rss_rx_queue(pkt) \in Cores /\ calc_rss_rx_queue(pkt) # c
      BY <1>2, <1>3, EntryInTable DEF calc_rss_rx_queue
<1> HIDE DEF pkt
<1>5. sent \in Packets /\ sent.rx_queue = calc_rss_rx_queue(pkt)
      BY <1>2, <1>3, <1>4 DEF Packets, delivered, set_rx_queue
<1> HIDE DEF sent
<1>6. workFor(out_proc', c) = workFor(out_proc, c) + 0
      BY <1>1, <1>2, <1>4, <1>5, WorkAppended DEF forCore
<1>7. workOf(rx_queue[c]) \in Int /\ workFor(out_proc, c) \in Int
      BY <1>2, WorkInt
<1>8. QED  BY <1>1, <1>6, <1>7, BacklogIs

\* What process_packet counts is what the core has started.
LEMMA CountKeepsLeftovers ==
  ASSUME DynInv, DynInv', LeftoversCounted, NEW c \in Cores, NEW pkt \in Packets,
         Started(c, pkt.instr), count_and_reassign(c, pkt)
  PROVE  LeftoversCounted'
<1>1. \A d \in Cores : backlog(d) \in Int  BY BacklogInt DEF DynInv
<1>2. pkt.instr \in Int  BY InstrInt
<1>3. m_core_instr_cntr \in [Cores -> Nat]  BY DEF DynInv, CountersInv
<1>4. CASE due
  <2>1. /\ m_core_instr_cntr' = [d \in Cores |-> 0]
        /\ leftover' = [d \in Cores |-> backlog(d)']
        BY <1>4 DEF count_and_reassign, reset_counters
  <2>2. ASSUME NEW d \in Cores
        PROVE  m_core_instr_cntr'[d] + backlog(d)' = leftover'[d]
    <3>1. backlog(d)' \in Int
      <4>1. backlog(d)' = backlog(d) - (IF d = c THEN pkt.instr ELSE 0)  BY DEF Started
      <4>2. (IF d = c THEN pkt.instr ELSE 0) \in Int  BY <1>2
      <4>3. QED  BY <1>1, <4>1, <4>2
    <3>2. m_core_instr_cntr'[d] = 0 /\ leftover'[d] = backlog(d)'  BY <2>1
    <3>3. QED  BY <3>1, <3>2
  <2>3. QED  BY <2>2 DEF LeftoversCounted
<1>5. CASE ~due
  <2>1. /\ m_core_instr_cntr' = [m_core_instr_cntr EXCEPT ![c] = @ + pkt.instr]
        /\ UNCHANGED <<m_rss_reta, leftover>>
        BY <1>5 DEF count_and_reassign
  <2>2. ASSUME NEW d \in Cores, \A e \in Entries : m_rss_reta'[e] # d
        PROVE  m_core_instr_cntr'[d] + backlog(d)' = leftover'[d]
    <3>1. m_core_instr_cntr[d] + backlog(d) = leftover[d]
          BY <2>1, <2>2 DEF LeftoversCounted
    <3>2. m_core_instr_cntr'[d] = m_core_instr_cntr[d] + (IF d = c THEN pkt.instr ELSE 0)
          BY <1>3, <2>1
    <3>3. backlog(d)' = backlog(d) - (IF d = c THEN pkt.instr ELSE 0)  BY DEF Started
    <3>4. (IF d = c THEN pkt.instr ELSE 0) \in Int  BY <1>2
    <3>5. backlog(d) \in Int /\ m_core_instr_cntr[d] \in Int  BY <1>1, <1>3
    <3>6. leftover'[d] = leftover[d]  BY <2>1
    <3>7. QED  BY <3>1, <3>2, <3>3, <3>4, <3>5, <3>6
  <2>3. QED  BY <2>2 DEF LeftoversCounted
<1>6. QED  BY <1>4, <1>5

LEMMA LeftoversStep ==
  ASSUME DynInv, DynInv', ~Enabled, LeftoversCounted, [DynNext]_allVars
  PROVE  LeftoversCounted'
<1>1. \A d \in Cores : backlog(d) \in Int  BY BacklogInt DEF DynInv
<1>2. ASSUME UNCHANGED <<m_rss_reta, m_core_instr_cntr, leftover>>,
             \A d \in Cores : (\A e \in Entries : m_rss_reta[e] # d) => backlog(d)' = backlog(d)
      PROVE  LeftoversCounted'
  <2> SUFFICES ASSUME NEW d \in Cores, \A e \in Entries : m_rss_reta'[e] # d
               PROVE  m_core_instr_cntr'[d] + backlog(d)' = leftover'[d]
      BY DEF LeftoversCounted
  <2>1. \A e \in Entries : m_rss_reta[e] # d  BY <1>2
  <2>2. m_core_instr_cntr[d] + backlog(d) = leftover[d]  BY <2>1 DEF LeftoversCounted
  <2>3. backlog(d)' = backlog(d)  BY <1>2, <2>1
  <2>4. m_core_instr_cntr' = m_core_instr_cntr /\ leftover' = leftover  BY <1>2
  <2>5. QED  BY <2>2, <2>3, <2>4
<1>3. CASE DynEnqueue \/ \E m \in Cores : DynComplete(m)
  <2>1. PICK c \in Cores, n \in Int :
           /\ Started(c, n)
           /\ \/ n = 0 /\ UNCHANGED <<dynVars, m_rss_reta>>
              \/ \E pkt \in Packets : pkt.instr = n /\ count_and_reassign(c, pkt)
        BY <1>3, EnqueueStarts, CompleteStarts DEF DynInv
  <2>2. CASE n = 0 /\ UNCHANGED <<dynVars, m_rss_reta>>
    <3>1. UNCHANGED <<m_rss_reta, m_core_instr_cntr, leftover>>  BY <2>2 DEF dynVars
    <3>2. \A d \in Cores : backlog(d)' = backlog(d)
      <4>1. \A d \in Cores : backlog(d)' = backlog(d) - (IF d = c THEN n ELSE 0)
            BY <2>1 DEF Started
      <4>2. \A d \in Cores : backlog(d)' = backlog(d) - 0  BY <2>2, <4>1
      <4>3. QED  BY <1>1, <4>2
    <3>3. QED  BY <1>2, <3>1, <3>2
  <2>3. CASE \E pkt \in Packets : pkt.instr = n /\ count_and_reassign(c, pkt)
        BY <2>1, <2>3, CountKeepsLeftovers
  <2>4. QED  BY <2>1, <2>2, <2>3
<1>4. ASSUME UNCHANGED <<out_proc, rx_queue>>
      PROVE  \A d \in Cores : backlog(d)' = backlog(d)
      BY <1>4, BacklogIs
<1>5. CASE DynNext /\ ~DynEnqueue /\ ~\E m \in Cores : DynComplete(m)
  <2>1. UNCHANGED <<m_rss_reta, m_core_instr_cntr, leftover>>
        BY <1>5, OtherSteps DEF dynVars
  <2>2. CASE Dispatch
    <3>1. \A d \in Cores : (\A e \in Entries : m_rss_reta[e] # d) => backlog(d)' = backlog(d)
          BY <2>2, DispatchStarts
    <3>2. QED  BY <1>2, <2>1, <3>1
  <2>3. CASE UNCHANGED <<out_proc, rx_queue, busy, msg_proc_done>>
        BY <1>2, <1>4, <2>1, <2>3
  <2>4. QED  BY <1>5, <2>2, <2>3, OtherSteps
<1>6. CASE UNCHANGED allVars
  <2>1. UNCHANGED <<m_rss_reta, m_core_instr_cntr, leftover, out_proc, rx_queue>>
        BY <1>6 DEF allVars, nodeVars, procVars, coreVars, tableVars, dynVars
  <2>2. QED  BY <1>2, <1>4, <2>1
<1>7. QED  BY <1>3, <1>5, <1>6

\* The core with the highest load may own no entry, and then nothing moves.  As
\* the counters are reset all the same, such a core counts from then on only
\* what it had left at that time, which never grows: for any number of cores
\* and any traffic, it cannot hold up the reassignment for good.  The hash table
\* is off, as in OnlyOldLeftBehind.
THEOREM LeftoversOnlyShrink ==
  ASSUME ~Enabled
  PROVE  DynSpec => []LeftoversCounted
<1>1. DynInit => LeftoversCounted
  <2> SUFFICES ASSUME DynInit, NEW c \in Cores
               PROVE  m_core_instr_cntr[c] + backlog(c) = leftover[c]
      BY DEF LeftoversCounted
  <2>1. rx_queue[c] = <<>> /\ out_proc = <<>> /\ m_core_instr_cntr[c] = 0 /\ leftover[c] = 0
        BY DEF DynInit, NodeInit, ProcInit, WiresInit
  <2>2. workOf(<<>>) = 0 /\ workFor(<<>>, c) = 0
    <3>1. DOMAIN <<>> = {}  OBVIOUS
    <3>2. QED  BY <3>1, SumEmpty DEF workOf, workFor, SumFunction
  <2>3. backlog(c) = workOf(rx_queue[c]) + workFor(out_proc, c)  BY BacklogIs
  <2>4. QED  BY <2>1, <2>2, <2>3
<1>2. DynInv /\ DynInv' /\ LeftoversCounted /\ [DynNext]_allVars => LeftoversCounted'
      BY LeftoversStep
<1>3. QED  BY <1>1, <1>2, DynInvariant, PTL DEF DynSpec, allVars
=============================================================================
