--------------------------- MODULE NetworkProofs ----------------------------
(***************************************************************************)
(* Proofs about the whole Network, for every number of generators, every   *)
(* trace and every order of the events of an instant.  The first part is   *)
(* about the generators: none of them falls behind its trace.  The second  *)
(* follows every packet from its generator over the switch, a node, the    *)
(* ring and the Sink: it is at one place at any time, and its latency      *)
(* record accounts for all the time it has spent (LatenciesAddUp).         *)
(***************************************************************************)
EXTENDS Network, SumProofs

-----------------------------------------------------------------------------
\* What the tools make of a trace.

\* The positions before one, and what is found there.
LEMMA BeforeFinite ==
  ASSUME NEW trace, NEW i \in Nat
  PROVE  /\ IsFiniteSet({trace[m].key : m \in 1 .. i - 1})
         /\ \A T \in SUBSET (1 .. i - 1) : IsFiniteSet(T)
<1> DEFINE P == 1 .. i - 1
           S == {trace[m].key : m \in P}
           f == [m \in P |-> trace[m].key]
<1>1. IsFiniteSet(P)  BY FS_Interval
<1>2. f \in Surjection(P, S)  BY DEF Surjection
<1> HIDE DEF f, P
<1>3. IsFiniteSet(S)  BY <1>1, <1>2, FS_Surjection
<1>4. QED  BY <1>1, <1>3, FS_Subset DEF P

\* Where the flow of the i-th packet comes up in a trace.
keys_before(trace, j) == {trace[m].key : m \in 1 .. j - 1}
firstOf(trace, i) ==
  CHOOSE j \in 1 .. i : trace[j].key = trace[i].key /\ trace[i].key \notin keys_before(trace, j)

\* It is in range, has the key, and no line before it does.
LEMMA FirstOf ==
  ASSUME NEW trace, NEW i \in Nat \ {0}
  PROVE  /\ firstOf(trace, i) \in 1 .. i
         /\ trace[firstOf(trace, i)].key = trace[i].key
         /\ trace[i].key \notin keys_before(trace, firstOf(trace, i))
         /\ flow_id(trace, i) = Cardinality(keys_before(trace, firstOf(trace, i)))
<1> DEFINE T == {j \in 1 .. i : trace[j].key = trace[i].key}
           f == [j \in T |-> -j]
<1>1. IsFiniteSet(T) /\ i \in T
  <2>1. T \in SUBSET (1 .. (i + 1) - 1) /\ i + 1 \in Nat /\ i \in T  OBVIOUS
  <2> HIDE DEF T
  <2>2. QED  BY <2>1, BeforeFinite
<1>2. \A j \in T : f[j] = -j /\ f[j] \in Int  OBVIOUS
<1> HIDE DEF f, T
<1>3. PICK j \in T : \A m \in T : f[m] <= f[j]  BY <1>1, <1>2, Greatest
<1>4. \A m \in T : -m <= -j  BY <1>2, <1>3
<1>5. \A m \in T : j <= m  BY <1>4 DEF T
<1>6. j \in 1 .. i /\ trace[j].key = trace[i].key  BY DEF T
<1>7. trace[i].key \notin keys_before(trace, j)
  <2>1. ASSUME NEW m \in 1 .. j - 1, trace[m].key = trace[i].key PROVE FALSE
    <3>1. m \in T /\ m < j  BY <1>6, <2>1 DEF T
    <3>2. QED  BY <1>5, <1>6, <3>1
  <2>2. QED  BY <2>1 DEF keys_before
<1>8. QED  BY <1>6, <1>7 DEF firstOf, flow_id, keys_before

\* Two packets have the same flow id if and only if they have the same key.
LEMMA FlowIds ==
  ASSUME NEW trace, NEW i \in Nat \ {0}, NEW j \in Nat \ {0}
  PROVE  flow_id(trace, i) = flow_id(trace, j) <=> trace[i].key = trace[j].key
<1> DEFINE a == firstOf(trace, i)
           b == firstOf(trace, j)
<1>1. /\ a \in 1 .. i /\ trace[a].key = trace[i].key
      /\ trace[i].key \notin keys_before(trace, a)
      /\ flow_id(trace, i) = Cardinality(keys_before(trace, a))
      BY FirstOf
<1>2. /\ b \in 1 .. j /\ trace[b].key = trace[j].key
      /\ trace[j].key \notin keys_before(trace, b)
      /\ flow_id(trace, j) = Cardinality(keys_before(trace, b))
      BY FirstOf
<1> HIDE DEF a, b
\* The keys before a later first packet are more.
<1>3. ASSUME NEW m \in Nat, NEW n \in Nat, 1 <= m, m < n,
             trace[m].key \notin keys_before(trace, m)
      PROVE  Cardinality(keys_before(trace, m)) # Cardinality(keys_before(trace, n))
  <2> DEFINE S == keys_before(trace, m)
             T == keys_before(trace, n)
  <2>1. S \subseteq T /\ trace[m].key \in T /\ trace[m].key \notin S
        BY <1>3 DEF keys_before
  <2>2. IsFiniteSet(T)  BY BeforeFinite DEF keys_before
  <2> HIDE DEF S, T
  <2>3. Cardinality(S) = Cardinality(T) => S = T  BY <2>1, <2>2, FS_Subset
  <2>4. QED  BY <2>1, <2>3 DEF S, T
<1>4. CASE a = b  BY <1>1, <1>2, <1>4
<1>5. CASE a < b
  <2>1. flow_id(trace, i) # flow_id(trace, j)  BY <1>1, <1>2, <1>3, <1>5
  <2>2. trace[a].key \in keys_before(trace, b)  BY <1>1, <1>2, <1>5 DEF keys_before
  <2>3. QED  BY <1>1, <1>2, <2>1, <2>2
<1>6. CASE b < a
  <2>1. flow_id(trace, i) # flow_id(trace, j)  BY <1>1, <1>2, <1>3, <1>6
  <2>2. trace[b].key \in keys_before(trace, a)  BY <1>1, <1>2, <1>6 DEF keys_before
  <2>3. QED  BY <1>1, <1>2, <2>1, <2>2
<1>7. a < b \/ a = b \/ b < a  BY <1>1, <1>2
<1>8. QED  BY <1>4, <1>5, <1>6, <1>7

\* A packet has id zero if and only if it is the first of its flow.
LEMMA FirstPacketId ==
  ASSUME NEW trace, NEW i \in Nat \ {0}
  PROVE  /\ pkt_id(trace, i) \in Nat
         /\ pkt_id(trace, i) > 0 <=> \E j \in 1 .. i - 1 : trace[j].key = trace[i].key
<1> DEFINE T == {j \in 1 .. i - 1 : trace[j].key = trace[i].key}
<1>1. T \in SUBSET (1 .. i - 1) /\ pkt_id(trace, i) = Cardinality(T)  BY DEF pkt_id
<1> DEFINE earlier == \E j \in 1 .. i - 1 : trace[j].key = trace[i].key
<1>2. (T # {}) <=> earlier  OBVIOUS
<1> HIDE DEF T, earlier
<1>3. IsFiniteSet(T)  BY <1>1, BeforeFinite
<1>4. Cardinality(T) \in Nat /\ (Cardinality(T) = 0 <=> T = {})
      BY <1>3, FS_CardinalityType, FS_EmptySet
<1>5. Cardinality(T) > 0 <=> T # {}  BY <1>4
<1>6. pkt_id(trace, i) \in Nat  BY <1>1, <1>4
<1>7. pkt_id(trace, i) > 0 <=> earlier  BY <1>1, <1>2, <1>5, Zenon
<1>8. QED  BY <1>6, <1>7 DEF earlier

-----------------------------------------------------------------------------
\* The generators, seen from the rest of the network.

GenOther == <<traces, n_read, m_pcap_offset_sec, m_flows, m_gen_msg, sent, failed>>

\* A step of the network is one of a generator, or leaves them alone but for
\* what arrives on their links, or lets time pass when they have nothing to do.
LEMMA NetStepsGenerators ==
  ASSUME [NetNext]_netVars
  PROVE  \/ \E g \in Generators : (GenInitialize(g) \/ GenHandleMessage(g)) /\ UNCHANGED now
         \/ UNCHANGED <<now, GenOther>>
         \/ GenQuiet /\ now' = now + 1 /\ UNCHANGED GenOther
<1>1. ASSUME NEW g \in Generators, Generate(g)
      PROVE  (GenInitialize(g) \/ GenHandleMessage(g)) /\ UNCHANGED now
      BY <1>1 DEF Generate, nodeVars, procVars
<1>2. ASSUME NEW g \in Generators, SwitchTakes(g) PROVE UNCHANGED <<now, GenOther>>
      BY <1>2 DEF SwitchTakes, GenOther, nodeVars, procVars
<1>3. ASSUME NEW port \in 0 .. 1, SwitchNext(port) PROVE UNCHANGED <<now, GenOther>>
      BY <1>3 DEF SwitchNext, GenOther, genVars, nodeVars, procVars
<1>4. CASE NodeReceives \/ OtherReceives
      BY <1>4 DEF NodeReceives, OtherReceives, link_delivers, otherVars, nodeVars, procVars,
                  GenOther, genVars
<1>5. CASE NodeWorks \/ OtherWorks
      BY <1>5 DEF NodeWorks, OtherWorks, otherVars, nodeVars, procVars, GenOther, genVars
<1>6. CASE NodeSends \/ OtherSends
      BY <1>6 DEF NodeSends, OtherSends, otherVars, nodeVars, procVars, GenOther, genVars
<1>7. CASE NetTick
      BY <1>7 DEF NetTick, NodeTick, GenOther, genVars
<1>8. CASE UNCHANGED netVars
      BY <1>8 DEF netVars, nodeVars, procVars, GenOther, genVars
<1>9. QED  BY <1>1, <1>2, <1>3, <1>4, <1>5, <1>6, <1>7, <1>8 DEF NetNext

-----------------------------------------------------------------------------
\* The inductive invariant.

\* When the i-th packet of a trace is sent: its timestamp, moved by the second
\* the trace starts in.
due_at(g, i) == stamp(traces[g][i]) - traces[g][1].sec * Second

GenTypes ==
  /\ now \in Nat
  /\ traces \in [Generators -> Seq(TraceLines) \ {<<>>}]
  /\ n_read \in [Generators -> Nat]
  /\ m_pcap_offset_sec \in [Generators -> Nat]
  /\ DOMAIN m_flows = Generators /\ DOMAIN m_gen_msg = Generators
  /\ sent \in [Generators -> Seq(Int)]

\* The clock starts when all generators are initialised.
Started == (\A g \in Generators : initialized(g)) \/ now = 0

\* What has been sent and what is scheduled next are a prefix of the trace.
Played(g) ==
  /\ n_read[g] <= Len(traces[g])
  /\ n_read[g] > 0 => m_pcap_offset_sec[g] = traces[g][1].sec
  /\ n_read[g] = 0 => sent[g] = <<>>
  /\ \A i \in DOMAIN sent[g] : i <= Len(traces[g]) /\ sent[g][i] = due_at(g, i)
  /\ m_gen_msg[g] # NoPacket => /\ n_read[g] > 0
                                /\ Len(sent[g]) = n_read[g] - 1
                                /\ m_gen_msg[g].at = due_at(g, n_read[g])

\* A generator knows the flows of the lines it has read, each with the hashes
\* of one of them.
FlowsKnown(g) ==
  /\ \A i \in 1 .. n_read[g] : flow_id(traces[g], i) \in DOMAIN m_flows[g]
  /\ \A fid \in DOMAIN m_flows[g] : \E i \in 1 .. n_read[g] :
       fid = flow_id(traces[g], i) /\ m_flows[g][fid] = new_flow(g, traces[g][i])

GenInv ==
  /\ GenTypes /\ Started
  /\ \A g \in Generators : Played(g) /\ FlowsKnown(g)
  /\ AbortOnlyByTrace

\* What the lines of a trace are made of.
LEMMA TraceLine ==
  ASSUME GenTypes, NEW g \in Generators, NEW i \in 1 .. Len(traces[g])
  PROVE  /\ traces[g][i].sec \in Nat /\ traces[g][i].frac \in Nat
         /\ traces[g][1].sec \in Nat
         /\ stamp(traces[g][i]) \in Int /\ due_at(g, i) \in Int
         /\ Len(traces[g]) \in Nat \ {0}
         /\ DOMAIN traces[g] = 1 .. Len(traces[g])
<1>1. traces[g] \in Seq(TraceLines) /\ traces[g] # <<>>  BY DEF GenTypes
<1> DEFINE trace == traces[g]
<1> HIDE DEF trace
<1>2. trace \in Seq(TraceLines) /\ trace # <<>>  BY <1>1 DEF trace
<1>3. DOMAIN trace = 1 .. Len(trace) /\ Len(trace) \in Nat \ {0}  BY <1>2
<1>4. \A j \in 1 .. Len(trace) : trace[j] \in TraceLines  BY <1>2
<1>5. Second \in Nat  BY GeneratorsAssumption
<1>6. \A j \in 1 .. Len(trace) : trace[j].sec \in Nat /\ trace[j].frac \in Nat
      BY <1>4, <1>5 DEF TraceLines
<1>7. i \in 1 .. Len(trace) /\ 1 \in 1 .. Len(trace)  BY <1>3 DEF trace
<1>8. trace[i].sec * Second \in Int /\ trace[1].sec * Second \in Int
      BY <1>5, <1>6, <1>7
<1>9. stamp(trace[i]) \in Int /\ stamp(trace[i]) - trace[1].sec * Second \in Int
      BY <1>6, <1>7, <1>8 DEF stamp
<1>10. QED  BY <1>3, <1>6, <1>7, <1>9 DEF trace, due_at

\* The next line, if there is one, is sent when it is due: the first line's
\* second is dropped at once, and subtracted from those of the later ones.
LEMMA Scheduled ==
  ASSUME GenInv, NEW g \in Generators, NEW first \in BOOLEAN,
         first <=> n_read[g] = 0,
         schedule_pcap_packet(g, first)
  PROVE  LET i == n_read[g] + 1
             line == traces[g][i]
             fid == flow_id(traces[g], i)
         IN  \/ /\ m_gen_msg' = [m_gen_msg EXCEPT ![g] = NoPacket]
                /\ UNCHANGED <<n_read, m_pcap_offset_sec, m_flows, failed>>
             \/ /\ i \in 1 .. Len(traces[g])
                /\ n_read' = [n_read EXCEPT ![g] = i]
                /\ m_pcap_offset_sec' = [m_pcap_offset_sec EXCEPT ![g] = traces[g][1].sec]
                /\ m_flows' = [m_flows EXCEPT ![g] = inserted(@, fid, new_flow(g, line))]
                /\ \E pkt :
                     m_gen_msg' = [m_gen_msg EXCEPT ![g] = [pkt |-> pkt, at |-> due_at(g, i)]]
                /\ failed' = ~(/\ flow_matches(g, line, fid, pkt_id(traces[g], i))
                               /\ due_at(g, i) >= now)
<1> DEFINE i == n_read[g] + 1
           line == traces[g][i]
           offset == IF first THEN line.sec ELSE m_pcap_offset_sec[g]
           t == t_of(line, offset, first)
<1>1. n_read[g] \in Nat /\ Played(g) /\ GenTypes  BY DEF GenInv, GenTypes
<1>2. CASE i > Len(traces[g])
      BY <1>1, <1>2 DEF schedule_pcap_packet
<1>3. CASE i <= Len(traces[g])
  <2>1. i \in 1 .. Len(traces[g])  BY <1>1, <1>3
  <2>2. offset = traces[g][1].sec
    <3>1. CASE first  BY <3>1
    <3>2. CASE ~first  BY <1>1, <3>2 DEF Played
    <3>3. QED  BY <3>1, <3>2
  <2>3. t = due_at(g, i)
    <3> DEFINE s == line.sec
               o == traces[g][1].sec
               u == line.frac
    <3>1. s \in Nat /\ o \in Nat /\ u \in Nat /\ Second \in Nat
          BY <1>1, <2>1, TraceLine, GeneratorsAssumption
    <3>2. due_at(g, i) = (s * Second + u) - o * Second  BY DEF due_at, stamp
    <3>3. CASE first
      <4>1. t = 0 + u /\ s = o  BY <3>3, <2>2 DEF t_of
      <4> HIDE DEF s, o, u, t
      <4>2. (s * Second + u) - s * Second = u  BY <3>1
      <4>3. QED  BY <3>1, <3>2, <4>1, <4>2
    <3>4. CASE ~first
      <4>1. t = (s - o) * Second + u  BY <3>4, <2>2 DEF t_of
      <4> HIDE DEF s, o, u, t
      <4>2. (s - o) * Second + u = (s * Second + u) - o * Second  BY <3>1
      <4>3. QED  BY <3>2, <4>1, <4>2
    <3>5. QED  BY <3>3, <3>4
  <2>4. \E pkt :
          /\ n_read' = [n_read EXCEPT ![g] = i]
          /\ m_pcap_offset_sec' = [m_pcap_offset_sec EXCEPT ![g] = offset]
          /\ m_flows' = [m_flows EXCEPT ![g] =
                           inserted(m_flows[g], flow_id(traces[g], i), new_flow(g, line))]
          /\ m_gen_msg' = [m_gen_msg EXCEPT ![g] = [pkt |-> pkt, at |-> t]]
          /\ failed' = ~(/\ flow_matches(g, line, flow_id(traces[g], i), pkt_id(traces[g], i))
                         /\ t >= now)
    <3> DEFINE fid == flow_id(traces[g], i)
               flows == inserted(m_flows[g], fid, new_flow(g, line))
               packet == new_packet(flows[fid].flow, pkt_id(traces[g], i), line.instr, t + GenTx)
    <3>1. /\ n_read' = [n_read EXCEPT ![g] = i]
          /\ m_pcap_offset_sec' = [m_pcap_offset_sec EXCEPT ![g] = offset]
          /\ m_flows' = [m_flows EXCEPT ![g] = flows]
          /\ m_gen_msg' = [m_gen_msg EXCEPT ![g] = [pkt |-> packet, at |-> t]]
          /\ failed' = ~(flow_matches(g, line, fid, pkt_id(traces[g], i)) /\ t >= now)
          BY <1>1, <1>3 DEF schedule_pcap_packet
    <3> HIDE DEF packet, i, line, offset, t
    <3>2. QED  BY <3>1
  <2> HIDE DEF i, offset, t
  <2>5. QED  BY <2>1, <2>2, <2>3, <2>4 DEF i
<1>4. QED
  <2>1. Len(traces[g]) \in Nat  BY <1>1 DEF GenTypes
  <2>2. QED  BY <1>1, <1>2, <1>3, <2>1

\* A flow that comes up again is known, with its hashes, unless they differ.
LEMMA FlowsMatch ==
  ASSUME GenInv, NEW g \in Generators, n_read[g] + 1 \in 1 .. Len(traces[g])
  PROVE  LET i == n_read[g] + 1
             line == traces[g][i]
         IN  \/ flow_matches(g, line, flow_id(traces[g], i), pkt_id(traces[g], i))
             \/ \E j \in DOMAIN traces[g] :
                  /\ line.key = traces[g][j].key /\ line.key \in PortKeys
                  /\ line.options # traces[g][j].options
<1> DEFINE i == n_read[g] + 1
           trace == traces[g]
           line == trace[i]
           fid == flow_id(trace, i)
           pid == pkt_id(trace, i)
<1>1. /\ n_read[g] \in Nat /\ i \in Nat \ {0} /\ i - 1 = n_read[g] /\ FlowsKnown(g)
      /\ n_read[g] <= Len(trace)
      BY DEF GenInv, GenTypes, Played
<1>2. DOMAIN trace = 1 .. Len(trace) /\ Len(trace) \in Nat
      BY TraceLine DEF GenInv
<1>3. pid \in Nat /\ (pid > 0 <=> \E j \in 1 .. n_read[g] : trace[j].key = line.key)
      BY <1>1, FirstPacketId
<1>4. \A j \in 1 .. n_read[g] : flow_id(trace, j) = fid <=> trace[j].key = line.key
  <2> TAKE j \in 1 .. n_read[g]
  <2>1. j \in Nat \ {0}  BY <1>1
  <2>2. QED  BY <1>1, <2>1, FlowIds
<1> HIDE DEF fid, pid, line, i
<1>5. CASE fid \notin DOMAIN m_flows[g]
  <2>1. pid = 0
    <3>1. ASSUME NEW j \in 1 .. n_read[g], trace[j].key = line.key PROVE FALSE
      <4>1. fid = flow_id(trace, j)  BY <1>4, <3>1
      <4>2. QED  BY <1>1, <1>5, <4>1 DEF FlowsKnown
    <3>2. ~\E j \in 1 .. n_read[g] : trace[j].key = line.key  BY <3>1
    <3> HIDE DEF trace
    <3>3. QED  BY <1>3, <3>2
  <2>2. flow_matches(g, line, fid, pid)  BY <1>5, <2>1 DEF flow_matches
  <2>3. QED  BY <2>2 DEF fid, pid, line, i
<1>6. CASE fid \in DOMAIN m_flows[g]
  <2>1. PICK j \in 1 .. n_read[g] :
          fid = flow_id(trace, j) /\ m_flows[g][fid] = new_flow(g, trace[j])
        BY <1>1, <1>6 DEF FlowsKnown
  <2>2. line.key = trace[j].key /\ pid > 0 /\ j \in DOMAIN trace
        BY <1>1, <1>2, <1>3, <1>4, <2>1
  <2>3. CASE line.key \in PortKeys /\ line.options # trace[j].options
        BY <2>2, <2>3 DEF line, i
  <2>4. CASE ~(line.key \in PortKeys /\ line.options # trace[j].options)
    <3>1. crc32_of(line) = crc32_of(trace[j]) /\ toeplitz_of(g, line) = toeplitz_of(g, trace[j])
          BY <2>2, <2>4 DEF crc32_of, toeplitz_of
    <3>2. flow_matches(g, line, fid, pid)
          BY <1>6, <2>1, <2>2, <3>1 DEF flow_matches, new_flow
    <3>3. QED  BY <3>2 DEF fid, pid, line, i
  <2>5. QED  BY <2>3, <2>4
<1>7. QED  BY <1>5, <1>6

\* What is known of the flows after one more line.
LEMMA FlowAdded ==
  ASSUME GenInv, NEW g \in Generators, n_read[g] + 1 \in 1 .. Len(traces[g]),
         UNCHANGED traces, n_read' = [n_read EXCEPT ![g] = n_read[g] + 1],
         m_flows' = [m_flows EXCEPT ![g] =
           inserted(@, flow_id(traces[g], n_read[g] + 1), new_flow(g, traces[g][n_read[g] + 1]))]
  PROVE  \A h \in Generators : FlowsKnown(h)'
<1> DEFINE i == n_read[g] + 1
           trace == traces[g]
           fid == flow_id(trace, i)
           old == m_flows[g]
           new == m_flows'[g]
<1>1. /\ \A h \in Generators : FlowsKnown(h)
      /\ n_read \in [Generators -> Nat] /\ DOMAIN m_flows = Generators
      BY DEF GenInv, GenTypes
<1>2. \A h \in Generators \ {g} : n_read'[h] = n_read[h] /\ m_flows'[h] = m_flows[h]
      BY <1>1
<1>3. n_read'[g] = i /\ n_read[g] \in Nat /\ i = n_read[g] + 1  BY <1>1
<1>4. /\ DOMAIN new = DOMAIN old \cup {fid}
      /\ \A x \in DOMAIN old : new[x] = old[x]
      /\ fid \notin DOMAIN old => new[fid] = new_flow(g, trace[i])
  <2>1. new = inserted(old, fid, new_flow(g, trace[i]))  BY <1>1
  <2> HIDE DEF new, old, fid, trace, i
  <2>2. QED  BY <2>1 DEF inserted
<1>5. \A h \in Generators \ {g} : FlowsKnown(h)'
      BY <1>1, <1>2 DEF FlowsKnown
<1>6. FlowsKnown(g)'
  <2>1. /\ \A j \in 1 .. n_read[g] : flow_id(trace, j) \in DOMAIN old
        /\ \A x \in DOMAIN old : \E j \in 1 .. n_read[g] :
             x = flow_id(trace, j) /\ old[x] = new_flow(g, trace[j])
        BY <1>1 DEF FlowsKnown
  <2>2. 1 .. i = (1 .. n_read[g]) \cup {i}  BY <1>3
  <2> HIDE DEF new, old, trace, i
  <2>3. \A j \in 1 .. i : flow_id(trace, j) \in DOMAIN new
        BY <1>4, <2>1, <2>2
  <2> HIDE DEF fid
  <2>4. ASSUME NEW x \in DOMAIN new
        PROVE  \E j \in 1 .. i : x = flow_id(trace, j) /\ new[x] = new_flow(g, trace[j])
    <3>1. CASE x \in DOMAIN old
          BY <1>4, <2>1, <2>2, <3>1
    <3>2. CASE x \notin DOMAIN old
      <4>1. x = fid /\ i \in 1 .. i  BY <1>4, <2>2, <3>2
      <4>2. QED  BY <1>4, <3>2, <4>1 DEF fid
    <3>3. QED  BY <3>1, <3>2
  <2>5. QED  BY <1>3, <2>3, <2>4 DEF FlowsKnown, new, trace
<1>7. QED  BY <1>5, <1>6

\* The next line of a generator is due in order and its flow is known, unless
\* there is something wrong with its trace.
TraceFault(g) ==
  \/ \E i \in 2 .. Len(traces[g]) : stamp(traces[g][i]) < stamp(traces[g][i - 1]) + GenTx
  \/ \E i, j \in DOMAIN traces[g] :
       /\ traces[g][i].key = traces[g][j].key
       /\ traces[g][i].key \in PortKeys
       /\ traces[g][i].options # traces[g][j].options

\* A line that is due before its predecessor is at fault.
LEMMA DueInOrder ==
  ASSUME GenInv, NEW g \in Generators, NEW i \in 2 .. Len(traces[g]),
         due_at(g, i) < due_at(g, i - 1) + GenTx
  PROVE  TraceFault(g)
<1>1. i \in 1 .. Len(traces[g]) /\ i - 1 \in 1 .. Len(traces[g])  OBVIOUS
<1> DEFINE x == stamp(traces[g][i])
           y == stamp(traces[g][i - 1])
           z == traces[g][1].sec * Second
<1>2. x \in Int /\ y \in Int /\ z \in Int
  <2>1. traces[g][1].sec \in Nat /\ Second \in Nat
        BY <1>1, TraceLine, GeneratorsAssumption DEF GenInv
  <2>2. z \in Int  BY <2>1
  <2>3. QED  BY <1>1, <2>2, TraceLine DEF GenInv
<1>3. x - z < y - z + GenTx  BY DEF due_at
<1> HIDE DEF x, y, z
<1>4. x < y + GenTx  BY <1>2, <1>3, GeneratorsAssumption
<1>5. QED  BY <1>4 DEF TraceFault, x, y

\* A generator schedules its next packet, and may have sent one.
LEMMA ReadStep ==
  ASSUME GenInv, NEW g \in Generators, NEW first \in BOOLEAN,
         first <=> n_read[g] = 0,
         schedule_pcap_packet(g, first),
         UNCHANGED <<traces, now>>,
         \/ first /\ UNCHANGED sent
         \/ /\ ~first /\ m_gen_msg[g] # NoPacket /\ now = m_gen_msg[g].at
            /\ sent' = [sent EXCEPT ![g] = Append(@, now)]
  PROVE  GenInv'
<1> DEFINE n == n_read[g]
           i == n + 1
           trace == traces[g]
           line == trace[i]
           fid == flow_id(trace, i)
           pid == pkt_id(trace, i)
<1>1. /\ GenTypes /\ Started /\ AbortOnlyByTrace
      /\ \A h \in Generators : Played(h) /\ FlowsKnown(h)
      BY DEF GenInv
<1>2. /\ now \in Nat /\ n_read \in [Generators -> Nat] /\ n \in Nat
      /\ m_pcap_offset_sec \in [Generators -> Nat]
      /\ DOMAIN m_flows = Generators /\ DOMAIN m_gen_msg = Generators
      /\ sent \in [Generators -> Seq(Int)]
      BY <1>1 DEF GenTypes
\* What has been sent.
<1>3. /\ sent' \in [Generators -> Seq(Int)]
      /\ \A h \in Generators \ {g} : sent'[h] = sent[h]
      /\ \A j \in DOMAIN sent'[g] : j <= Len(trace) /\ sent'[g][j] = due_at(g, j)
      /\ Len(sent'[g]) = n
  <2>1. CASE first
    <3>1. sent' = sent /\ n = 0  BY <2>1
    <3>2. sent[g] = <<>>  BY <1>1, <3>1 DEF Played
    <3>3. QED  BY <1>1, <1>2, <3>1, <3>2 DEF Played
  <2>2. CASE ~first
    <3>1. /\ n <= Len(trace) /\ n > 0 /\ Len(sent[g]) = n - 1 /\ now = due_at(g, n)
          /\ \A j \in DOMAIN sent[g] : j <= Len(trace) /\ sent[g][j] = due_at(g, j)
          BY <1>1, <1>2, <2>2 DEF Played
    <3>2. sent' = [sent EXCEPT ![g] = Append(sent[g], now)]  BY <2>2
    <3>3. sent[g] \in Seq(Int) /\ now \in Int  BY <1>2
    <3> DEFINE s == sent[g]
               t == Append(s, now)
    <3>4. sent'[g] = t /\ \A h \in Generators \ {g} : sent'[h] = sent[h]
          BY <1>2, <3>2
    <3> HIDE DEF s
    <3>5. s \in Seq(Int)  BY <3>3 DEF s
    <3>6. /\ t \in Seq(Int) /\ Len(t) = Len(s) + 1 /\ DOMAIN t = 1 .. Len(s) + 1
          /\ \A j \in 1 .. Len(s) : t[j] = s[j]
          /\ t[Len(s) + 1] = now /\ DOMAIN s = 1 .. Len(s) /\ Len(s) \in Nat
          BY <3>3, <3>5
    <3> HIDE DEF t
    <3>7. Len(s) = n - 1 /\ \A j \in 1 .. Len(s) : j <= Len(trace) /\ s[j] = due_at(g, j)
          BY <3>1, <3>6 DEF s
    <3>8. sent' \in [Generators -> Seq(Int)]  BY <1>2, <3>2, <3>4, <3>6
    <3>9. DOMAIN t = 1 .. n /\ Len(t) = n /\ t[n] = now
      <4>1. Len(s) + 1 = n  BY <1>2, <3>7
      <4>2. QED  BY <3>6, <4>1
    <3>10. ASSUME NEW j \in DOMAIN t PROVE j <= Len(trace) /\ t[j] = due_at(g, j)
      <4>1. CASE j = n  BY <3>1, <3>9, <4>1
      <4>2. CASE j # n
        <5>1. j \in 1 .. Len(s)  BY <1>2, <3>7, <3>9, <4>2
        <5>2. QED  BY <3>6, <3>7, <5>1
      <4>3. QED  BY <4>1, <4>2
    <3>11. QED  BY <3>4, <3>8, <3>9, <3>10
  <2>3. QED  BY <2>1, <2>2
<1>4. \A h, j : due_at(h, j)' = due_at(h, j)  BY DEF due_at
<1>5. Started'
  <2>1. n_read' = n_read \/ n_read' = [n_read EXCEPT ![g] = i]  BY Scheduled
  <2>2. ASSUME NEW h \in Generators, n_read[h] > 0 PROVE n_read'[h] > 0
    <3>1. n_read'[h] = n_read[h] \/ n_read'[h] = n + 1  BY <1>2, <2>1
    <3>2. n + 1 > 0  BY <1>2
    <3>3. QED  BY <2>2, <3>1, <3>2
  <2>3. QED  BY <1>1, <2>2 DEF Started, initialized
<1>6. CASE /\ m_gen_msg' = [m_gen_msg EXCEPT ![g] = NoPacket]
           /\ UNCHANGED <<n_read, m_pcap_offset_sec, m_flows, failed>>
  <2>1. GenTypes'  BY <1>1, <1>3, <1>6 DEF GenTypes
  <2>2. \A h \in Generators : m_gen_msg'[h] # NoPacket => h # g /\ m_gen_msg'[h] = m_gen_msg[h]
        BY <1>2, <1>6
  <2>3. ASSUME NEW h \in Generators PROVE Played(h)'
        BY <1>1, <1>3, <1>4, <1>6, <2>2 DEF Played
  <2>4. ASSUME NEW h \in Generators PROVE FlowsKnown(h)'
        BY <1>1, <1>6 DEF FlowsKnown
  <2>5. AbortOnlyByTrace'  BY <1>1, <1>6 DEF AbortOnlyByTrace
  <2>6. QED  BY <1>5, <2>1, <2>3, <2>4, <2>5 DEF GenInv
<1>7. CASE /\ i \in 1 .. Len(trace)
           /\ n_read' = [n_read EXCEPT ![g] = i]
           /\ m_pcap_offset_sec' = [m_pcap_offset_sec EXCEPT ![g] = trace[1].sec]
           /\ m_flows' = [m_flows EXCEPT ![g] = inserted(@, fid, new_flow(g, line))]
           /\ \E pkt : m_gen_msg' = [m_gen_msg EXCEPT ![g] = [pkt |-> pkt, at |-> due_at(g, i)]]
           /\ failed' = ~(flow_matches(g, line, fid, pid) /\ due_at(g, i) >= now)
  <2>1. /\ trace[1].sec \in Nat /\ due_at(g, i) \in Int /\ Len(trace) \in Nat
        BY <1>1, <1>7, TraceLine
  <2>2. GenTypes'  BY <1>1, <1>2, <1>3, <1>7, <2>1 DEF GenTypes
  <2>3. /\ n_read'[g] = i /\ m_pcap_offset_sec'[g] = trace[1].sec
        /\ m_gen_msg'[g].at = due_at(g, i)
        /\ \A h \in Generators \ {g} : /\ n_read'[h] = n_read[h]
                                       /\ m_pcap_offset_sec'[h] = m_pcap_offset_sec[h]
                                       /\ m_gen_msg'[h] = m_gen_msg[h]
        BY <1>2, <1>7
  <2>4. Len(sent'[g]) = i - 1  BY <1>2, <1>3
  <2>5. Played(g)'
    <3>1. i <= Len(trace) /\ i > 0 /\ i # 0 /\ traces' = traces  BY <1>2, <1>7
    <3> HIDE DEF i
    <3>2. QED  BY <1>3, <1>4, <2>3, <2>4, <3>1 DEF Played
  <2>6. ASSUME NEW h \in Generators, h # g PROVE Played(h)'
    <3>1. /\ n_read'[h] = n_read[h] /\ m_pcap_offset_sec'[h] = m_pcap_offset_sec[h]
          /\ m_gen_msg'[h] = m_gen_msg[h] /\ sent'[h] = sent[h] /\ traces' = traces
          BY <1>3, <2>3, <2>6
    <3>2. QED  BY <1>1, <1>4, <3>1 DEF Played
  <2>7. \A h \in Generators : FlowsKnown(h)'
        BY <1>7, FlowAdded
  <2>8. failed' => TraceFault(g)
    <3>1. CASE ~flow_matches(g, line, fid, pid)
          BY <1>7, <3>1, FlowsMatch DEF TraceFault
    <3>2. CASE due_at(g, i) < now
      <4>1. CASE first
        <5>1. now = 0 /\ i = 1  BY <1>1, <1>2, <4>1 DEF Started, initialized
        <5> DEFINE a == trace[1].sec
                   b == trace[1].frac
        <5>2. a \in Nat /\ b \in Nat /\ Second \in Nat
              BY <1>1, <1>7, <5>1, TraceLine, GeneratorsAssumption
        <5>3. due_at(g, i) = (a * Second + b) - a * Second  BY <5>1 DEF due_at, stamp
        <5> HIDE DEF a, b
        <5>4. (a * Second + b) - a * Second = b  BY <5>2
        <5>5. QED  BY <3>2, <5>1, <5>2, <5>3, <5>4
      <4>2. CASE ~first
        <5>1. n > 0 /\ now = due_at(g, n)  BY <1>1, <1>2, <4>2 DEF Played
        <5>2. i \in 2 .. Len(trace) /\ i - 1 = n  BY <1>2, <1>7, <2>1, <5>1
        <5>3. due_at(g, i) < due_at(g, i - 1) + GenTx
          <6>1. GenTx \in Nat  BY GeneratorsAssumption
          <6> HIDE DEF n, i
          <6>2. QED  BY <1>2, <2>1, <3>2, <5>1, <5>2, <6>1
        <5>4. QED  BY <5>2, <5>3, DueInOrder
      <4>3. QED  BY <4>1, <4>2
    <3>3. due_at(g, i) >= now \/ due_at(g, i) < now  BY <1>2, <2>1
    <3>4. failed' => ~(flow_matches(g, line, fid, pid) /\ due_at(g, i) >= now)
          BY <1>7
    <3>5. QED  BY <3>1, <3>2, <3>3, <3>4, Zenon
  <2>9. AbortOnlyByTrace'
    <3>1. TraceFault(g)' <=> TraceFault(g)  BY DEF TraceFault
    <3>2. QED  BY <2>8, <3>1 DEF AbortOnlyByTrace, TraceFault
  <2>10. QED  BY <1>5, <2>2, <2>5, <2>6, <2>7, <2>9 DEF GenInv
<1>8. QED  BY <1>6, <1>7, Scheduled

\* Every step of the network preserves the invariant.
LEMMA GenInvStep == GenInv /\ [NetNext]_netVars => GenInv'
<1> SUFFICES ASSUME GenInv, [NetNext]_netVars PROVE GenInv'
    OBVIOUS
<1>1. ASSUME UNCHANGED GenOther, \/ now' = now
                                 \/ GenQuiet /\ now' = now + 1
      PROVE  GenInv'
  <2>1. \A h, j : due_at(h, j)' = due_at(h, j)  BY <1>1 DEF due_at, GenOther
  <2>2. GenTypes'  BY <1>1 DEF GenInv, GenTypes, GenOther
  <2>3. Started'  BY <1>1 DEF GenInv, Started, GenQuiet, initialized, GenOther
  <2>4. ASSUME NEW h \in Generators PROVE Played(h)' /\ FlowsKnown(h)'
    <3>1. Played(h) /\ FlowsKnown(h)  BY DEF GenInv
    <3>2. /\ traces' = traces /\ n_read' = n_read /\ m_pcap_offset_sec' = m_pcap_offset_sec
          /\ m_flows' = m_flows /\ m_gen_msg' = m_gen_msg /\ sent' = sent
          BY <1>1 DEF GenOther
    <3>3. Played(h)'  BY <2>1, <3>1, <3>2 DEF Played
    <3>4. FlowsKnown(h)'  BY <3>1, <3>2 DEF FlowsKnown
    <3>5. QED  BY <3>3, <3>4
  <2>5. AbortOnlyByTrace'  BY <1>1 DEF GenInv, AbortOnlyByTrace, GenOther
  <2>6. QED  BY <2>2, <2>3, <2>4, <2>5 DEF GenInv
<1>2. ASSUME NEW g \in Generators, GenInitialize(g), UNCHANGED now PROVE GenInv'
  <2>1. n_read[g] = 0
    <3>1. n_read[g] \in Nat /\ ~(n_read[g] > 0)
          BY <1>2 DEF GenInitialize, initialized, GenInv, GenTypes
    <3>2. QED  BY <3>1
  <2>2. schedule_pcap_packet(g, TRUE) /\ UNCHANGED <<traces, sent>>
        BY <1>2 DEF GenInitialize
  <2>3. QED  BY <1>2, <2>1, <2>2, ReadStep
<1>3. ASSUME NEW g \in Generators, GenHandleMessage(g), UNCHANGED now PROVE GenInv'
  <2>1. /\ initialized(g) /\ m_gen_msg[g] # NoPacket /\ m_gen_msg[g].at = now
        /\ UNCHANGED traces
        BY <1>3 DEF GenHandleMessage
  <2>2. CASE /\ isBusy(g) /\ failed' = TRUE
             /\ UNCHANGED <<n_read, m_pcap_offset_sec, m_flows, m_gen_msg, sent>>
    <3> DEFINE n == n_read[g]
               s == sent[g]
    <3>1. /\ Len(s) = n - 1 /\ now = due_at(g, n) /\ n <= Len(traces[g]) /\ n \in Nat
          /\ \A j \in DOMAIN s : s[j] = due_at(g, j)
          /\ s \in Seq(Int)
          BY <2>1 DEF GenInv, Played, GenTypes
    <3>2. s # <<>> /\ Last(s) + GenTx > now  BY <2>2 DEF isBusy
    <3>3. Len(traces[g]) \in Nat  BY DEF GenInv, GenTypes
    <3> HIDE DEF s, n
    <3>4. Len(s) \in Nat /\ Len(s) > 0 /\ DOMAIN s = 1 .. Len(s) /\ Last(s) = s[Len(s)]
          BY <3>1, <3>2 DEF Last
    <3>5. n \in 2 .. Len(traces[g])  BY <3>1, <3>3, <3>4
    <3>6. Last(s) = due_at(g, n - 1)  BY <3>1, <3>4
    <3>7. due_at(g, n) < due_at(g, n - 1) + GenTx
      <4>1. n \in 1 .. Len(traces[g]) /\ n - 1 \in 1 .. Len(traces[g])  BY <3>3, <3>5
      <4>2. due_at(g, n) \in Int /\ due_at(g, n - 1) \in Int
            BY <4>1, TraceLine DEF GenInv
      <4>3. QED  BY <3>1, <3>2, <3>6, <4>2, GeneratorsAssumption
    <3>8. TraceFault(g)  BY <3>5, <3>7, DueInOrder
    <3>9. AbortOnlyByTrace'
      <4>1. traces' = traces  BY <2>1
      <4>2. QED  BY <3>8, <4>1 DEF AbortOnlyByTrace, TraceFault
    <3>10. \A h, j : due_at(h, j)' = due_at(h, j)  BY <2>1 DEF due_at
    <3>11. GenTypes' /\ Started'
           BY <1>3, <2>1, <2>2 DEF GenInv, GenTypes, Started, initialized
    <3>12. ASSUME NEW h \in Generators PROVE Played(h)' /\ FlowsKnown(h)'
      <4>1. Played(h) /\ FlowsKnown(h)  BY DEF GenInv
      <4>2. Played(h)'  BY <2>1, <2>2, <3>10, <4>1 DEF Played
      <4>3. FlowsKnown(h)'  BY <2>1, <2>2, <4>1 DEF FlowsKnown
      <4>4. QED  BY <4>2, <4>3
    <3>13. QED  BY <3>9, <3>11, <3>12 DEF GenInv
  <2>3. CASE /\ sent' = [sent EXCEPT ![g] = Append(@, now)]
             /\ schedule_pcap_packet(g, FALSE)
    <3>1. n_read[g] # 0
      <4>1. n_read[g] \in Nat /\ n_read[g] > 0
            BY <2>1 DEF initialized, GenInv, GenTypes
      <4>2. QED  BY <4>1
    <3>2. QED  BY <1>3, <2>1, <2>3, <3>1, ReadStep
  <2>4. QED  BY <1>3, <2>2, <2>3 DEF GenHandleMessage
<1>4. QED  BY <1>1, <1>2, <1>3, NetStepsGenerators

\* Initially nothing has been read.
LEMMA GenInvInit == NetInit => GenInv
<1> SUFFICES ASSUME NetInit PROVE GenInv
    OBVIOUS
<1>1. GenInit /\ now = 0  BY DEF NetInit, NodeInit, ProcInit, WiresInit
<1>2. GenTypes
  <2>1. traces \in [Generators -> Seq(TraceLines) \ {<<>>}]  BY <1>1 DEF GenInit
  <2>2. <<>> \in Seq(Int) /\ 0 \in Nat  OBVIOUS
  <2>3. QED  BY <1>1, <2>1, <2>2 DEF GenInit, GenTypes
<1>3. Started  BY <1>1 DEF Started
<1>4. ASSUME NEW g \in Generators PROVE Played(g) /\ FlowsKnown(g)
  <2>1. /\ n_read[g] = 0 /\ m_flows[g] = <<>> /\ sent[g] = <<>> /\ m_gen_msg[g] = NoPacket
        BY <1>1 DEF GenInit
  <2>2. Len(traces[g]) \in Nat  BY <1>2 DEF GenTypes
  <2>3. DOMAIN m_flows[g] = {} /\ DOMAIN sent[g] = {}  BY <2>1
  <2>4. QED  BY <2>1, <2>2, <2>3 DEF Played, FlowsKnown
<1>5. AbortOnlyByTrace  BY <1>1 DEF GenInit, AbortOnlyByTrace
<1>6. QED  BY <1>2, <1>3, <1>4, <1>5 DEF GenInv

\* The invariant of the generators.
LEMMA GenInvariant == NetSpec => []GenInv
BY GenInvInit, GenInvStep, PTL DEF NetSpec

\* No trace but one that is out of order, too dense for the link, or has a flow
\* with different IP options ends the simulation: the ASSERTs on flow ids, packet
\* ids and hashes, and the conditions of send() and scheduleAt(), hold for what
\* the tools make of any other, however many generators there are.
THEOREM OnlyTracesAbort == NetSpec => []AbortOnlyByTrace
<1>1. GenInv => AbortOnlyByTrace  BY DEF GenInv
<1>2. QED  BY <1>1, GenInvariant, PTL

\* All generators send their packets at the distances they were captured with,
\* up to the seconds in which their traces start.
THEOREM GeneratorsInStep == NetSpec => []InStep
<1>1. GenInv => InStep
  <2> SUFFICES ASSUME GenInv, NEW g \in Generators, NEW h \in Generators,
                      NEW i \in DOMAIN sent[g], NEW j \in DOMAIN sent[h]
               PROVE  sent[g][i] - sent[h][j] =
                        (stamp(traces[g][i]) - stamp(traces[h][j]))
                          - (traces[g][1].sec - traces[h][1].sec) * Second
      BY DEF InStep
  <2> DEFINE x == stamp(traces[g][i])
             y == stamp(traces[h][j])
             a == traces[g][1].sec
             b == traces[h][1].sec
  <2>1. i \in 1 .. Len(traces[g]) /\ j \in 1 .. Len(traces[h])
    <3>1. sent[g] \in Seq(Int) /\ sent[h] \in Seq(Int)  BY DEF GenInv, GenTypes
    <3>2. i \in Nat \ {0} /\ j \in Nat \ {0}  BY <3>1
    <3>3. i <= Len(traces[g]) /\ j <= Len(traces[h])  BY DEF GenInv, Played
    <3>4. Len(traces[g]) \in Nat /\ Len(traces[h]) \in Nat  BY DEF GenInv, GenTypes
    <3>5. QED  BY <3>2, <3>3, <3>4
  <2>2. x \in Int /\ y \in Int /\ a \in Nat /\ b \in Nat /\ Second \in Nat
        BY <2>1, TraceLine, GeneratorsAssumption DEF GenInv
  <2>3. sent[g][i] = x - a * Second /\ sent[h][j] = y - b * Second
        BY DEF GenInv, Played, due_at
  <2> HIDE DEF x, y, a, b
  <2>4. (x - a * Second) - (y - b * Second) = (x - y) - (a - b) * Second
        BY <2>2
  <2>5. QED  BY <2>3, <2>4 DEF x, y, a, b
<1>2. QED  BY <1>1, GenInvariant, PTL

-----------------------------------------------------------------------------
(* What the records of a packet add up to.                                 *)

Elements == [type : LatencyTypes, latency : Int]

\* What an element counts for a type.
counted(e, type) == IF e.type = type THEN e.latency ELSE 0

\* g folds get_total_latency_by_type's addition over each of the subsets of the
\* positions in elements.
AddsUp(g, elements, type) ==
  g = [T \in SUBSET DOMAIN elements |->
         IF T = {} THEN 0
         ELSE IF elements[Max(T)].type = type
              THEN g[T \ {Max(T)}] + elements[Max(T)].latency
              ELSE g[T \ {Max(T)}]]

\* The definition of the total of one type, with the sum that FoldLeft chooses.
LEMMA TotalDef ==
  ASSUME NEW lat, NEW type
  PROVE  get_total_latency_by_type(lat, type) =
           (CHOOSE g : AddsUp(g, lat.elements, type))[DOMAIN lat.elements]
BY DEF get_total_latency_by_type, FoldLeft, MapThenFoldSet, AddsUp

\* The last position of some.
LEMMA MaxPosition ==
  ASSUME NEW n \in Nat, NEW T \in SUBSET (1 .. n), T # {}
  PROVE  Max(T) \in T
<1> DEFINE f == [i \in T |-> i]
<1>1. IsFiniteSet(T)
  <2>1. IsFiniteSet(1 .. n)  BY FS_Interval
  <2>2. QED  BY <2>1, FS_Subset
<1>2. \A i \in T : f[i] = i /\ f[i] \in Int  OBVIOUS
<1> HIDE DEF f
<1>3. PICK i \in T : \A j \in T : f[j] <= f[i]  BY <1>1, <1>2, Greatest
<1>4. \A j \in T : i >= j  BY <1>2, <1>3
<1>5. QED  BY <1>4 DEF Max

\* The total of a type is the sum of what each element counts for it.
LEMMA TotalIsSum ==
  ASSUME NEW lat, lat.elements \in Seq(Elements), NEW type
  PROVE  get_total_latency_by_type(lat, type) =
           SumFunctionOnSet([i \in DOMAIN lat.elements |-> counted(lat.elements[i], type)],
                            DOMAIN lat.elements)
<1> DEFINE s == lat.elements
           S == DOMAIN s
           f == [i \in S |-> counted(s[i], type)]
           c == CHOOSE g : AddsUp(g, s, type)
           sums == [T \in SUBSET S |-> SumFunctionOnSet(f, T)]
<1>1. S = 1 .. Len(s) /\ Len(s) \in Nat /\ \A i \in S : s[i] \in Elements  OBVIOUS
<1>2. /\ IsFiniteSet(S) /\ \A i \in S : f[i] = counted(s[i], type) /\ f[i] \in Int
  <2>1. \A i \in S : s[i].latency \in Int  BY <1>1 DEF Elements
  <2>2. IsFiniteSet(S)
    <3>1. IsFiniteSet(1 .. Len(s))  BY <1>1, FS_Interval
    <3> HIDE DEF S
    <3>2. QED  BY <1>1, <3>1
  <2> HIDE DEF s, S
  <2>3. \A i \in S : counted(s[i], type) \in Int  BY <2>1 DEF counted
  <2>4. QED  BY <2>2, <2>3
<1> HIDE DEF s, f
<1>3. \A T \in SUBSET S : T # {} => Max(T) \in T
      BY <1>1, MaxPosition
<1> HIDE DEF S
<1>4. ASSUME NEW T \in SUBSET S, T # {}
      PROVE  SumFunctionOnSet(f, T) =
               IF s[Max(T)].type = type
               THEN SumFunctionOnSet(f, T \ {Max(T)}) + s[Max(T)].latency
               ELSE SumFunctionOnSet(f, T \ {Max(T)})
  <2>1. PICK m : m = Max(T)  OBVIOUS
  <2>2. m \in T /\ m \in S  BY <1>3, <1>4, <2>1
  <2>3. IsFiniteSet(T) /\ IsFiniteSet(T \ {m}) /\ \A i \in T : f[i] \in Int
        BY <1>2, FS_Subset
  <2>4. PICK a : a = SumFunctionOnSet(f, T \ {m})  OBVIOUS
  <2>5. a \in Int
    <3>1. \A i \in T \ {m} : f[i] \in Int  BY <2>3
    <3>2. QED  BY <2>3, <2>4, <3>1, SumInt
  <2>6. SumFunctionOnSet(f, T) = f[m] + a  BY <2>2, <2>3, <2>4, SumRemove
  <2>7. f[m] = IF s[m].type = type THEN s[m].latency ELSE 0
        BY <1>2, <2>2 DEF counted
  <2>8. f[m] \in Int  BY <1>2, <2>2
  <2>9. f[m] + a = IF s[m].type = type THEN a + s[m].latency ELSE a
        BY <2>5, <2>7, <2>8
  <2>10. QED  BY <2>1, <2>4, <2>6, <2>9
<1>5. AddsUp(sums, s, type)
  <2>1. SumFunctionOnSet(f, {}) = 0  BY SumEmpty
  <2>2. \A T \in SUBSET S : T # {} => T \ {Max(T)} \in SUBSET S  OBVIOUS
  <2>3. \A T \in SUBSET S : sums[T] = SumFunctionOnSet(f, T)  OBVIOUS
  <2>4. \A T \in SUBSET S :
          sums[T] = IF T = {} THEN 0
                    ELSE IF s[Max(T)].type = type
                         THEN sums[T \ {Max(T)}] + s[Max(T)].latency
                         ELSE sums[T \ {Max(T)}]
    <3> TAKE T \in SUBSET S
    <3>1. CASE T = {}  BY <2>1, <2>3, <3>1
    <3>2. CASE T # {}
      <4>1. sums[T \ {Max(T)}] = SumFunctionOnSet(f, T \ {Max(T)})  BY <2>2, <2>3, <3>2
      <4> HIDE DEF sums
      <4>2. QED  BY <1>4, <2>3, <3>2, <4>1
    <3>3. QED  BY <3>1, <3>2
  <2>5. sums = [T \in SUBSET S |-> sums[T]]  OBVIOUS
  <2> HIDE DEF sums
  <2>6. QED  BY <2>4, <2>5 DEF AddsUp, S
<1>6. AddsUp(c, s, type)  BY <1>5
<1> HIDE DEF c
<1>7. \A T \in SUBSET S : c[T] = sums[T]
  <2> DEFINE F == {T \in SUBSET S : c[T] = sums[T]}
  <2>1. ASSUME NEW T \in SUBSET S, \A x \in T : T \ {x} \in F
        PROVE  T \in F
    <3> HIDE DEF sums
    <3>1. /\ c[T] = IF T = {} THEN 0
                    ELSE IF s[Max(T)].type = type THEN c[T \ {Max(T)}] + s[Max(T)].latency
                                                  ELSE c[T \ {Max(T)}]
          /\ sums[T] = IF T = {} THEN 0
                       ELSE IF s[Max(T)].type = type
                            THEN sums[T \ {Max(T)}] + s[Max(T)].latency
                            ELSE sums[T \ {Max(T)}]
          BY <1>5, <1>6 DEF AddsUp, S
    <3>2. CASE T = {}  BY <3>1, <3>2
    <3>3. CASE T # {}
      <4>1. c[T \ {Max(T)}] = sums[T \ {Max(T)}]  BY <1>3, <2>1, <3>3
      <4>2. c[T] = sums[T]  BY <3>1, <3>3, <4>1
      <4>3. QED  BY <4>2
    <3>4. QED  BY <3>2, <3>3
  <2> HIDE DEF F
  <2>2. \A T \in SUBSET S : T \in F  BY <1>2, <2>1, SubsetInduction
  <2>3. QED  BY <2>2 DEF F
<1>8. c[S] = SumFunctionOnSet(f, S)  BY <1>7
<1>9. get_total_latency_by_type(lat, type) = c[S]  BY TotalDef DEF c, s, S
<1>10. QED  BY <1>8, <1>9 DEF f, s, S

\* The total of all types, which the end-to-end latency is compared with.
Total(elements) ==
  SumFunction([t \in LatencyTypes |->
                 get_total_latency_by_type([elements |-> elements], t)])

\* Only the elements matter.
LEMMA TotalOfElements ==
  ASSUME NEW lat, lat.elements \in Seq(Elements), NEW type
  PROVE  get_total_latency_by_type(lat, type) =
           get_total_latency_by_type([elements |-> lat.elements], type)
<1> DEFINE r == [elements |-> lat.elements]
<1>1. r.elements = lat.elements  OBVIOUS
<1> HIDE DEF r
<1>2. QED  BY <1>1, TotalIsSum

\* One more element counts for its own type.
LEMMA TypeTotalAppend ==
  ASSUME NEW s \in Seq(Elements), NEW e \in Elements, NEW type
  PROVE  /\ get_total_latency_by_type([elements |-> s], type) \in Int
         /\ get_total_latency_by_type([elements |-> Append(s, e)], type) =
              get_total_latency_by_type([elements |-> s], type) + counted(e, type)
<1> DEFINE t == Append(s, e)
           S == DOMAIN s
           n == Len(s) + 1
           f == [i \in S |-> counted(s[i], type)]
           g == [i \in DOMAIN t |-> counted(t[i], type)]
<1>1. /\ Len(s) \in Nat /\ S = 1 .. Len(s) /\ \A i \in S : s[i] \in Elements
      /\ t \in Seq(Elements) /\ DOMAIN t = S \cup {n} /\ n \notin S
      /\ t[n] = e /\ \A i \in S : t[i] = s[i]
      OBVIOUS
<1>2. get_total_latency_by_type([elements |-> s], type) = SumFunctionOnSet(f, S)
  <2> DEFINE lat == [elements |-> s]
  <2>1. lat.elements = s  OBVIOUS
  <2> HIDE DEF lat
  <2>2. QED  BY <2>1, TotalIsSum
<1>3. get_total_latency_by_type([elements |-> t], type) = SumFunctionOnSet(g, S \cup {n})
  <2> DEFINE lat == [elements |-> t]
  <2>1. lat.elements = t /\ t \in Seq(Elements)  BY <1>1
  <2> HIDE DEF lat, t
  <2>2. QED  BY <1>1, <2>1, TotalIsSum
<1>4. IsFiniteSet(S)  BY <1>1, FS_Interval
<1>5. \A x \in Elements : counted(x, type) \in Int  BY DEF counted, Elements
<1>6. /\ \A i \in S : f[i] = counted(s[i], type)
      /\ \A i \in S \cup {n} : g[i] = counted(t[i], type)
      BY <1>1
<1> HIDE DEF f, g, t, n, S
<1>7. /\ \A i \in S : f[i] = g[i] /\ f[i] \in Int
      /\ \A i \in S \cup {n} : g[i] \in Int
      /\ g[n] = counted(e, type)
      BY <1>1, <1>5, <1>6
<1>8. SumFunctionOnSet(f, S) = SumFunctionOnSet(g, S)  BY <1>4, <1>7, SumEqual
<1>9. SumFunctionOnSet(g, S \cup {n}) = g[n] + SumFunctionOnSet(g, S)
      BY <1>1, <1>4, <1>7, SumAdd
<1>10. SumFunctionOnSet(f, S) \in Int  BY <1>4, <1>7, SumInt
<1>11. g[n] \in Int  BY <1>7
<1>12. QED  BY <1>2, <1>3, <1>7, <1>8, <1>9, <1>10, <1>11 DEF t

\* There are finitely many types of elements.
LEMMA TypesFinite == IsFiniteSet(LatencyTypes)
<1>1. IsFiniteSet({"NODE_BUFFER_IN"})  BY FS_Singleton
<1>2. IsFiniteSet({"NODE_BUFFER_IN", "NODE_BUFFER_OUT"})
      BY <1>1, FS_AddElement
<1>3. IsFiniteSet({"NODE_BUFFER_IN", "NODE_BUFFER_OUT", "NODE_PROC"})
      BY <1>2, FS_AddElement
<1>4. QED  BY <1>3, FS_AddElement DEF LatencyTypes

\* Every element is part of the total.
LEMMA TotalAppend ==
  ASSUME NEW s \in Seq(Elements), NEW e \in Elements
  PROVE  /\ Total(s) \in Int
         /\ Total(Append(s, e)) = Total(s) + e.latency
<1> DEFINE f == [t \in LatencyTypes |-> get_total_latency_by_type([elements |-> s], t)]
           h == [t \in LatencyTypes |->
                   get_total_latency_by_type([elements |-> Append(s, e)], t)]
<1>1. /\ Total(s) = SumFunctionOnSet(f, LatencyTypes)
      /\ Total(Append(s, e)) = SumFunctionOnSet(h, LatencyTypes)
      BY DEF Total, SumFunction
<1>2. \A t \in LatencyTypes : f[t] \in Int /\ h[t] = f[t] + counted(e, t)
      BY TypeTotalAppend
<1>3. e.type \in LatencyTypes /\ e.latency \in Int  BY DEF Elements
<1> HIDE DEF f, h
<1>4. \A t \in LatencyTypes : counted(e, t) \in Int  BY <1>3 DEF counted
<1>5. \A t \in LatencyTypes : h[t] \in Int  BY <1>2, <1>4
<1>6. \A t \in LatencyTypes \ {e.type} : f[t] = h[t]
  <2>1. \A t \in LatencyTypes \ {e.type} : counted(e, t) = 0  BY DEF counted
  <2>2. QED  BY <1>2, <2>1
<1>7. SumFunctionOnSet(h, LatencyTypes) =
        SumFunctionOnSet(f, LatencyTypes) - f[e.type] + h[e.type]
  <2> DEFINE y == e.type
  <2>1. y \in LatencyTypes  BY <1>3
  <2>2. \A t \in LatencyTypes \ {y} : f[t] = h[t]  BY <1>6
  <2>3. \A t \in LatencyTypes : f[t] \in Int /\ h[t] \in Int  BY <1>2, <1>5
  <2> HIDE DEF y
  <2>4. SumFunctionOnSet(h, LatencyTypes) = SumFunctionOnSet(f, LatencyTypes) - f[y] + h[y]
        BY <2>1, <2>2, <2>3, TypesFinite, SumChange
  <2>5. QED  BY <2>4 DEF y
<1>8. SumFunctionOnSet(f, LatencyTypes) \in Int  BY <1>2, TypesFinite, SumInt
<1>9. h[e.type] = f[e.type] + e.latency /\ f[e.type] \in Int
  <2>1. counted(e, e.type) = e.latency  BY DEF counted
  <2>2. QED  BY <1>2, <1>3, <2>1
<1>10. QED  BY <1>1, <1>3, <1>7, <1>8, <1>9

\* An empty list adds up to nothing.
LEMMA TotalEmpty == Total(<<>>) = 0
<1> DEFINE f == [t \in LatencyTypes |-> get_total_latency_by_type([elements |-> <<>>], t)]
           z == [t \in LatencyTypes |-> 0]
<1>1. Total(<<>>) = SumFunctionOnSet(f, LatencyTypes)
      BY DEF Total, SumFunction
<1>2. ASSUME NEW t \in LatencyTypes
      PROVE  get_total_latency_by_type([elements |-> <<>>], t) = 0
  <2> DEFINE lat == [elements |-> <<>>]
  <2>1. lat.elements = <<>>  OBVIOUS
  <2>2. <<>> \in Seq(Elements) /\ DOMAIN <<>> = {}  OBVIOUS
  <2> HIDE DEF lat
  <2>3. lat.elements \in Seq(Elements) /\ DOMAIN lat.elements = {}  BY <2>1, <2>2
  <2>4. get_total_latency_by_type(lat, t) = 0  BY <2>3, TotalIsSum, SumEmpty
  <2>5. QED  BY <2>4 DEF lat
<1>3. \A t \in LatencyTypes : f[t] = 0 /\ z[t] = 0  BY <1>2
<1> HIDE DEF f
<1>4. SumFunctionOnSet(z, LatencyTypes) = 0  BY TypesFinite, SumZero
<1> HIDE DEF z
<1>5. SumFunctionOnSet(f, LatencyTypes) = SumFunctionOnSet(z, LatencyTypes)
      BY <1>3, TypesFinite, SumEqual
<1>6. QED  BY <1>1, <1>4, <1>5

\* A list of one element, or of two, is added.
LEMMA TotalAdded ==
  ASSUME NEW s \in Seq(Elements)
  PROVE  /\ Total(s) \in Int
         /\ \A e \in Elements : /\ s \o <<e>> \in Seq(Elements)
                                /\ Total(s \o <<e>>) = Total(s) + e.latency
         /\ \A e, f \in Elements : /\ s \o <<e, f>> \in Seq(Elements)
                                   /\ Total(s \o <<e, f>>) = Total(s) + (e.latency + f.latency)
<1>1. Total(s) \in Int
  <2>1. PICK e : e = [type |-> "TOR", latency |-> 0]  OBVIOUS
  <2>2. e \in Elements  BY <2>1 DEF Elements, LatencyTypes
  <2>3. QED  BY <2>2, TotalAppend
<1>2. ASSUME NEW e \in Elements
      PROVE  s \o <<e>> \in Seq(Elements) /\ Total(s \o <<e>>) = Total(s) + e.latency
  <2>1. s \o <<e>> = Append(s, e)  OBVIOUS
  <2>2. Append(s, e) \in Seq(Elements)  OBVIOUS
  <2>3. Total(Append(s, e)) = Total(s) + e.latency  BY TotalAppend
  <2>4. QED  BY <2>1, <2>2, <2>3
<1>3. ASSUME NEW e \in Elements, NEW f \in Elements
      PROVE  /\ s \o <<e, f>> \in Seq(Elements)
             /\ Total(s \o <<e, f>>) = Total(s) + (e.latency + f.latency)
  <2>1. s \o <<e, f>> = Append(Append(s, e), f)  OBVIOUS
  <2>2. PICK r : r = Append(s, e)  OBVIOUS
  <2>3. r \in Seq(Elements) /\ Append(r, f) \in Seq(Elements)  BY <2>2
  <2>4. Total(Append(r, f)) = Total(r) + f.latency  BY <2>3, TotalAppend
  <2>5. Total(r) = Total(s) + e.latency  BY <2>2, TotalAppend
  <2>6. e.latency \in Int /\ f.latency \in Int  BY DEF Elements
  <2>7. Total(s \o <<e, f>>) = (Total(s) + e.latency) + f.latency
        BY <2>1, <2>2, <2>4, <2>5
  <2>8. (Total(s) + e.latency) + f.latency = Total(s) + (e.latency + f.latency)
        BY <1>1, <2>6
  <2>9. s \o <<e, f>> \in Seq(Elements)  BY <2>1, <2>2, <2>3
  <2>10. QED  BY <2>7, <2>8, <2>9
<1>4. QED  BY <1>1, <1>2, <1>3

-----------------------------------------------------------------------------
(* Where the packets are.                                                  *)

Owners == {"gen", "tor", "node", "other"}

SpotsOf(o) ==
  IF o = "gen" THEN {"m_gen_msg", "gen_out"} \X Generators
  ELSE IF o = "tor" THEN {"m_queues", "to_node"} \X (0 .. 1)
  ELSE {"offload_in", "out_proc", "offload_out", "proc_out", "m_pkt_queue", "port_out"} \X {0}
         \cup {"rx_queue", "core"} \X Cores

PlacesOf(o) == {o} \X SpotsOf(o)

Places == UNION {PlacesOf(o) : o \in Owners}

kind(pl) == pl[2][1]
index(pl) == pl[2][2]

\* What each owner's places hold, the first to leave first.
GenHolds(msg, out) ==
  [pl \in PlacesOf("gen") |->
     IF kind(pl) = "gen_out" THEN out[index(pl)]
     ELSE IF msg[index(pl)] = NoPacket THEN <<>> ELSE <<msg[index(pl)]>>]

TorHolds(queues, links) ==
  [pl \in PlacesOf("tor") |->
     IF kind(pl) = "m_queues" THEN queues[index(pl)] ELSE links[index(pl)]]

\* A node: what is on its connections, in its queues and at its cores.
NodeHolds(o, n) ==
  [pl \in PlacesOf(o) |->
     CASE kind(pl) = "offload_in"  -> n.in
       [] kind(pl) = "out_proc"    -> n.proc
       [] kind(pl) = "offload_out" -> n.off
       [] kind(pl) = "proc_out"    -> n.done
       [] kind(pl) = "m_pkt_queue" -> n.queue
       [] kind(pl) = "port_out"    -> n.link
       [] kind(pl) = "rx_queue"    -> n.rx[index(pl)]
       [] OTHER -> IF n.core[index(pl)] = NoMsg THEN <<>> ELSE <<n.core[index(pl)]>>]

This ==
  [in |-> offload_in, proc |-> out_proc, off |-> offload_out, rx |-> rx_queue,
   core |-> msg_proc_done, done |-> proc_out, queue |-> m_pkt_queue, link |-> port_out,
   busy |-> busy]

That ==
  [in |-> offload_in_1, proc |-> out_proc_1, off |-> offload_out_1, rx |-> rx_queue_1,
   core |-> msg_proc_done_1, done |-> proc_out_1, queue |-> m_pkt_queue_1,
   link |-> port_out_1, busy |-> busy_1]

Holdings ==
  [o \in Owners |-> IF o = "gen" THEN GenHolds(m_gen_msg, gen_out)
                    ELSE IF o = "tor" THEN TorHolds(m_queues, to_node)
                    ELSE IF o = "node" THEN NodeHolds("node", This)
                    ELSE NodeHolds("other", That)]

\* All places, from what the owners hold.
Joined(H) == [pl \in Places |-> H[pl[1]][pl]]

-----------------------------------------------------------------------------
(* The packets there.                                                      *)

Fields ==
  {"flow", "id", "instr", "hop_cnt", "rx_queue", "arrival_port_id", "processing_done",
   "arrival_time"}

\* What is on a link or scheduled comes with the instant at which it is due.
timed(pl) == kind(pl) \in {"m_gen_msg", "gen_out", "to_node", "core", "port_out"}

pkt_of(pl, x) == IF timed(pl) THEN x.pkt ELSE x
key(pl, x) == <<pkt_of(pl, x).flow, pkt_of(pl, x).id>>

\* The time of a packet x at a place is accounted for until then: until it is
\* there if it has to wait for its turn, or until it leaves.
until(pl, x) ==
  IF timed(pl) /\ kind(pl) # "m_gen_msg" THEN x.at ELSE pkt_of(pl, x).arrival_time

\* Transmissions on links of the nodes, the one it is in included.
transmissions(pl, x) ==
  2 * pkt_of(pl, x).hop_cnt +
    IF kind(pl) \in {"m_gen_msg", "gen_out", "m_queues", "port_out"} THEN 0 ELSE 1

Accounted(L, pl, x) ==
  /\ key(pl, x) \in DOMAIN L
  /\ until(pl, x) - L[key(pl, x)].t_generation =
       Total(L[key(pl, x)].elements) + transmissions(pl, x) * NodeTx - GenTx

\* What a node notes about a packet is with it only there, only processed
\* packets leave a node that does not offload, and none comes back.
outside(pl) == kind(pl) \in {"m_gen_msg", "gen_out", "m_queues", "to_node"}

Shaped(pl, p) ==
  /\ p.id \in Nat /\ p.instr \in Instrs /\ p.processing_done \in BOOLEAN
  /\ kind(pl) # "port_out" => EnableOffload \/ p.hop_cnt = 0
  /\ outside(pl) \/ kind(pl) = "offload_in" => p.processing_done = FALSE
  /\ outside(pl) \/ kind(pl) = "port_out" => p.rx_queue = Unset /\ p.arrival_port_id = Unset
  /\ kind(pl) \in {"offload_out", "m_pkt_queue", "port_out"} =>
       EnableOffload \/ p.processing_done = TRUE

\* What the module at a place relies on.
Suits(pl, x, t) ==
  LET p == pkt_of(pl, x)
  IN  /\ DOMAIN p = Fields /\ Shaped(pl, p)
      /\ p.flow \in Flows /\ p.instr \in Nat \ {0}
      /\ p.hop_cnt \in Nat /\ p.arrival_time \in Int
      /\ timed(pl) => x.at \in Int
      /\ kind(pl) = "m_gen_msg" => p.arrival_time = x.at + GenTx
      /\ kind(pl) = "gen_out" => p.arrival_time = x.at
      /\ kind(pl) = "offload_in" => p.arrival_time = t
      /\ kind(pl) \in {"rx_queue", "core"} => p.rx_queue = index(pl)
      /\ kind(pl) \in {"core", "proc_out"} => p.processing_done = TRUE
      /\ kind(pl) = "offload_out" => p.hop_cnt + 1 < MaxHopCnt
      /\ kind(pl) = "m_pkt_queue" => p.processing_done = TRUE \/ p.hop_cnt + 1 < MaxHopCnt
      /\ kind(pl) = "port_out" => p.processing_done = TRUE \/ p.hop_cnt < MaxHopCnt
      /\ kind(pl) # "port_out" => p.hop_cnt < MaxHopCnt

Fits(L, pl, x, t) == Accounted(L, pl, x) /\ Suits(pl, x, t)

Records == [t_generation : Int, elements : Seq(Elements)]

IsSeq(s) == s \in Seq({s[i] : i \in DOMAIN s})

\* Each packet is at one place, where it fits.
Placed(Q, L, t) ==
  /\ \A k \in DOMAIN L : L[k] \in Records
  /\ \A a \in Places : IsSeq(Q[a]) /\ \A i \in DOMAIN Q[a] : Fits(L, a, Q[a][i], t)
  /\ \A a, b \in Places : \A i \in DOMAIN Q[a], j \in DOMAIN Q[b] :
       key(a, Q[a][i]) = key(b, Q[b][j]) => a = b /\ i = j

-----------------------------------------------------------------------------
(* The inductive invariant.                                                *)

\* A core that is not busy has no packet.
NodeKept(n) ==
  /\ n.busy \in [Cores -> BOOLEAN] /\ DOMAIN n.core = Cores /\ DOMAIN n.rx = Cores
  /\ \A c \in Cores : ~n.busy[c] => n.core[c] = NoMsg

\* An entry that has been hit says offload only if that is enabled.
TableKept(table) ==
  /\ DOMAIN table = Entries
  /\ \A e \in Entries : table[e].valid /\ table[e].offload => EnableOffload

\* The packet of a line.
packet_key(g, i) == <<<<g, traces[g][i].key>>, pkt_id(traces[g], i)>>

KeysKnown ==
  \A k \in DOMAIN m_latency : \E g \in Generators : \E i \in 1 .. n_read[g] : k = packet_key(g, i)

NodesKept == NodeKept(This) /\ NodeKept(That) /\ TableKept(m_hashtable) /\ TableKept(m_hashtable_1)

LinksKept == DOMAIN gen_out = Generators /\ DOMAIN m_queues = 0 .. 1 /\ DOMAIN to_node = 0 .. 1

JourneyInv ==
  /\ GenInv
  /\ KeysKnown /\ NodesKept /\ LinksKept
  /\ Placed(Joined(Holdings), m_latency, now)
  /\ IsSeq(reported) /\ LatencyAccounted

-----------------------------------------------------------------------------
(* Moving packets.                                                         *)

\* A sequence with one more element, and with one less.
LEMMA LongerSeq ==
  ASSUME NEW s, IsSeq(s), NEW x
  PROVE  /\ IsSeq(Append(s, x)) /\ Len(s) \in Nat /\ Len(s) + 1 \notin DOMAIN s
         /\ DOMAIN Append(s, x) = DOMAIN s \cup {Len(s) + 1}
         /\ Append(s, x)[Len(s) + 1] = x
         /\ \A i \in DOMAIN s : i \in Nat /\ Append(s, x)[i] = s[i]
         /\ Append(s, x) # <<>>
<1> DEFINE S == {s[i] : i \in DOMAIN s}
           t == Append(s, x)
           T == S \cup {x}
<1>1. s \in Seq(S)  BY DEF IsSeq
<1> HIDE DEF S
<1>2. /\ DOMAIN s = 1 .. Len(s) /\ Len(s) \in Nat
      /\ DOMAIN t = 1 .. Len(s) + 1 /\ t[Len(s) + 1] = x
      /\ \A i \in DOMAIN s : t[i] = s[i]
      /\ t # <<>>
      BY <1>1
<1>3. DOMAIN t = DOMAIN s \cup {Len(s) + 1}  BY <1>2
<1>4. S \cup {x} \subseteq {t[i] : i \in DOMAIN t}  BY <1>2, <1>3 DEF S
<1>5. t \in Seq(S \cup {x})  BY <1>1
<1> HIDE DEF t
<1>6. t \in Seq({t[i] : i \in DOMAIN t})
  <2> DEFINE U == {t[i] : i \in DOMAIN t}
  <2>1. T \subseteq U  BY <1>4
  <2>2. t \in Seq(T)  BY <1>5
  <2> HIDE DEF U, T
  <2>3. t \in Seq(U)  BY <2>1, <2>2
  <2>4. QED  BY <2>3 DEF U
<1>7. QED  BY <1>2, <1>3, <1>6 DEF t, IsSeq

\* A sequence without its first element.
LEMMA ShorterSeq ==
  ASSUME NEW s, IsSeq(s), s # <<>>
  PROVE  /\ IsSeq(Tail(s)) /\ 1 \in DOMAIN s /\ Head(s) = s[1]
         /\ \A i \in DOMAIN Tail(s) :
              i \in Nat \ {0} /\ i + 1 \in DOMAIN s /\ Tail(s)[i] = s[i + 1]
<1> DEFINE S == {s[i] : i \in DOMAIN s}
           t == Tail(s)
           U == {t[i] : i \in DOMAIN t}
<1>1. s \in Seq(S)  BY DEF IsSeq
<1> HIDE DEF S
<1>2. /\ DOMAIN s = 1 .. Len(s) /\ Len(s) \in Nat \ {0}
      /\ t \in Seq(S) /\ Len(t) = Len(s) - 1
      /\ \A i \in 1 .. Len(s) - 1 : t[i] = s[i + 1]
      /\ Head(s) = s[1]
      BY <1>1
<1> HIDE DEF t
<1>3. DOMAIN t = 1 .. Len(t) /\ Len(t) \in Nat  BY <1>2
<1>4. t \in Seq(U)
  <2>1. \A i \in 1 .. Len(t) : t[i] \in U  BY <1>3
  <2>2. t = [i \in 1 .. Len(t) |-> t[i]]  BY <1>2
  <2> HIDE DEF U
  <2>3. QED  BY <1>3, <2>1, <2>2
<1>5. \A i \in DOMAIN t : i \in Nat \ {0} /\ i + 1 \in DOMAIN s /\ t[i] = s[i + 1]
      BY <1>2, <1>3
<1>6. IsSeq(t)  BY <1>4 DEF U, IsSeq
<1>7. 1 \in DOMAIN s  BY <1>2
<1>8. QED  BY <1>2, <1>5, <1>6, <1>7 DEF t

\* An empty sequence has no positions.
LEMMA NoElements ==
  ASSUME NEW s, s = <<>>
  PROVE  IsSeq(s) /\ DOMAIN s = {}
<1> DEFINE S == {s[i] : i \in DOMAIN s}
<1>1. DOMAIN s = {}  OBVIOUS
<1>2. s \in Seq({})  OBVIOUS
<1>3. S = {}  BY <1>1
<1> HIDE DEF S
<1>4. s \in Seq(S)  BY <1>2, <1>3
<1>5. IsSeq(s)  BY <1>4 DEF S, IsSeq
<1>6. QED  BY <1>1, <1>5

\* Nowhere.
Absent(Q, k) == \A a \in Places : \A i \in DOMAIN Q[a] : key(a, Q[a][i]) # k

Removes(S, Q, Q2, a) ==
  /\ Q[a] # <<>> /\ Q2[a] = Tail(Q[a])
  /\ \A c \in S \ {a} : Q2[c] = Q[c]

Inserts(S, Q, Q2, b, x) ==
  /\ Q2[b] = Append(Q[b], x)
  /\ \A c \in S \ {b} : Q2[c] = Q[c]

Moves(S, Q, Q2, a, b, x) ==
  /\ a # b /\ Q[a] # <<>>
  /\ Q2[a] = Tail(Q[a]) /\ Q2[b] = Append(Q[b], x)
  /\ \A c \in S \ {a, b} : Q2[c] = Q[c]

\* Only what is recorded for k may change.
Extends(L, L2, k) ==
  /\ DOMAIN L \subseteq DOMAIN L2
  /\ \A j \in DOMAIN L2 : L2[j] \in Records
  /\ \A j \in DOMAIN L \ {k} : L2[j] = L[j]

\* A packet that leaves is gone.
LEMMA RemoveKeeps ==
  ASSUME NEW Q, NEW Q2, NEW L, NEW t, NEW a \in Places,
         Placed(Q, L, t), Removes(Places, Q, Q2, a)
  PROVE  /\ Placed(Q2, L, t) /\ Absent(Q2, key(a, Head(Q[a])))
         /\ Fits(L, a, Head(Q[a]), t)
<1>1. /\ IsSeq(Tail(Q[a])) /\ 1 \in DOMAIN Q[a] /\ Head(Q[a]) = Q[a][1]
      /\ \A i \in DOMAIN Tail(Q[a]) :
           i \in Nat \ {0} /\ i + 1 \in DOMAIN Q[a] /\ Tail(Q[a])[i] = Q[a][i + 1]
      BY ShorterSeq DEF Placed, Removes
<1>2. Fits(L, a, Head(Q[a]), t)  BY <1>1 DEF Placed
\* Where the packets of a place were.
<1> DEFINE was(c, i) == IF c = a THEN i + 1 ELSE i
<1>3. ASSUME NEW c \in Places, NEW i \in DOMAIN Q2[c]
      PROVE  /\ was(c, i) \in DOMAIN Q[c] /\ Q2[c][i] = Q[c][was(c, i)]
             /\ c = a => was(c, i) # 1
  <2>1. CASE c = a
    <3>1. i \in DOMAIN Tail(Q[a]) /\ Q2[c][i] = Tail(Q[a])[i]  BY <2>1 DEF Removes
    <3>2. i \in Nat \ {0} /\ i + 1 \in DOMAIN Q[a] /\ Tail(Q[a])[i] = Q[a][i + 1]
          BY <1>1, <3>1
    <3>3. i + 1 # 1  BY <3>2
    <3>4. QED  BY <2>1, <3>1, <3>2, <3>3
  <2>2. CASE c # a  BY <2>2 DEF Removes
  <2>3. QED  BY <2>1, <2>2
<1>4. ASSUME NEW c \in Places
      PROVE  IsSeq(Q2[c]) /\ \A i \in DOMAIN Q2[c] : Fits(L, c, Q2[c][i], t)
  <2>1. IsSeq(Q2[c])  BY <1>1 DEF Removes, Placed
  <2>2. QED  BY <1>3, <2>1 DEF Placed
<1>5. ASSUME NEW c \in Places, NEW d \in Places, NEW i \in DOMAIN Q2[c], NEW j \in DOMAIN Q2[d],
             key(c, Q2[c][i]) = key(d, Q2[d][j])
      PROVE  c = d /\ i = j
  <2>1. c = d /\ was(c, i) = was(d, j)  BY <1>3, <1>5 DEF Placed
  <2>2. c = a => i \in Nat /\ j \in Nat  BY <1>1, <2>1 DEF Removes
  <2>3. QED  BY <2>1, <2>2
<1>6. ASSUME NEW c \in Places, NEW i \in DOMAIN Q2[c], key(c, Q2[c][i]) = key(a, Head(Q[a]))
      PROVE  FALSE
  <2>1. c = a /\ was(c, i) = 1  BY <1>1, <1>3, <1>6 DEF Placed
  <2>2. QED  BY <1>3, <2>1
<1>7. Placed(Q2, L, t)  BY <1>4, <1>5 DEF Placed
<1>8. Absent(Q2, key(a, Head(Q[a])))  BY <1>6 DEF Absent
<1>9. QED  BY <1>2, <1>7, <1>8

\* A packet that is nowhere else may be put where it fits.
LEMMA InsertKeeps ==
  ASSUME NEW Q, NEW Q2, NEW L, NEW L2, NEW t, NEW b \in Places, NEW x,
         Placed(Q, L, t), Inserts(Places, Q, Q2, b, x), Absent(Q, key(b, x)),
         Extends(L, L2, key(b, x)), Fits(L2, b, x, t)
  PROVE  Placed(Q2, L2, t)
<1> DEFINE n == Len(Q[b]) + 1
           k == key(b, x)
<1>1. /\ IsSeq(Q2[b]) /\ n \notin DOMAIN Q[b]
      /\ DOMAIN Q2[b] = DOMAIN Q[b] \cup {n} /\ Q2[b][n] = x
      /\ \A i \in DOMAIN Q[b] : Q2[b][i] = Q[b][i]
      BY LongerSeq DEF Placed, Inserts
<1> HIDE DEF n
<1>2. ASSUME NEW c \in Places, NEW i \in DOMAIN Q2[c]
      PROVE  \/ c = b /\ i = n /\ Q2[c][i] = x /\ key(c, Q2[c][i]) = k
             \/ i \in DOMAIN Q[c] /\ Q2[c][i] = Q[c][i] /\ key(c, Q2[c][i]) # k
  <2>1. CASE c = b /\ i = n  BY <1>1, <2>1
  <2>2. CASE i \in DOMAIN Q[c] /\ Q2[c][i] = Q[c][i]  BY <2>2 DEF Absent
  <2>3. QED  BY <1>1, <2>1, <2>2 DEF Inserts
<1>3. ASSUME NEW c \in Places, NEW i \in DOMAIN Q[c]
      PROVE  Fits(L2, c, Q[c][i], t)
  <2>1. PICK y : y = Q[c][i]  OBVIOUS
  <2>2. Fits(L, c, y, t) /\ key(c, y) # k  BY <2>1 DEF Placed, Absent
  <2>3. PICK j : j = key(c, y)  OBVIOUS
  <2>4. j \in DOMAIN L2 /\ L2[j] = L[j]  BY <2>2, <2>3 DEF Extends, Fits, Accounted
  <2>5. Accounted(L2, c, y)  BY <2>2, <2>3, <2>4 DEF Fits, Accounted
  <2>6. QED  BY <2>1, <2>2, <2>5 DEF Fits
<1>4. ASSUME NEW c \in Places
      PROVE  IsSeq(Q2[c]) /\ \A i \in DOMAIN Q2[c] : Fits(L2, c, Q2[c][i], t)
  <2>1. IsSeq(Q2[c])  BY <1>1 DEF Inserts, Placed
  <2>2. QED  BY <1>2, <1>3, <2>1
<1>5. ASSUME NEW c \in Places, NEW d \in Places, NEW i \in DOMAIN Q2[c], NEW j \in DOMAIN Q2[d],
             key(c, Q2[c][i]) = key(d, Q2[d][j])
      PROVE  c = d /\ i = j
  <2>1. CASE key(c, Q2[c][i]) = k
    <3>1. c = b /\ i = n  BY <1>2, <2>1
    <3>2. d = b /\ j = n  BY <1>2, <1>5, <2>1
    <3>3. QED  BY <3>1, <3>2
  <2>2. CASE key(c, Q2[c][i]) # k
    <3>1. i \in DOMAIN Q[c] /\ Q2[c][i] = Q[c][i]  BY <1>2, <2>2
    <3>2. j \in DOMAIN Q[d] /\ Q2[d][j] = Q[d][j]  BY <1>2, <1>5, <2>2
    <3>3. QED  BY <1>5, <3>1, <3>2 DEF Placed
  <2>3. QED  BY <2>1, <2>2
<1>6. QED  BY <1>4, <1>5 DEF Placed, Extends

\* A packet may be moved to where it fits.
LEMMA MoveKeeps ==
  ASSUME NEW Q, NEW Q2, NEW L, NEW L2, NEW t, NEW a \in Places, NEW b \in Places, NEW x,
         Placed(Q, L, t), Moves(Places, Q, Q2, a, b, x),
         key(b, x) = key(a, Head(Q[a])), Extends(L, L2, key(b, x)), Fits(L2, b, x, t)
  PROVE  Placed(Q2, L2, t)
<1> DEFINE R == [c \in Places |-> IF c = a THEN Tail(Q[a]) ELSE Q[c]]
<1>1. Removes(Places, Q, R, a)  BY DEF Moves, Removes
<1>2. Inserts(Places, R, Q2, b, x)  BY DEF Moves, Inserts
<1> HIDE DEF R
<1>3. Placed(R, L, t) /\ Absent(R, key(b, x))  BY <1>1, RemoveKeeps
<1>4. QED  BY <1>2, <1>3, InsertKeeps

\* The records stay as they are.
LEMMA ExtendsSame ==
  ASSUME NEW Q, NEW L, NEW t, Placed(Q, L, t), NEW k
  PROVE  Extends(L, L, k)
BY DEF Placed, Extends

\* Elements may be added to the list of k.
LEMMA ExtendsGiven ==
  ASSUME NEW L, \A j \in DOMAIN L : L[j] \in Records, NEW k, NEW s, k \in DOMAIN L,
         s \in Seq(Elements)
  PROVE  Extends(L, [L EXCEPT ![k].elements = s], k)
<1> DEFINE M == [L EXCEPT ![k].elements = s]
<1>1. DOMAIN M = DOMAIN L /\ \A j \in DOMAIN L \ {k} : M[j] = L[j]  OBVIOUS
<1>2. M[k] = [L[k] EXCEPT !.elements = s]  OBVIOUS
<1>3. M[k] \in Records  BY <1>2 DEF Records
<1> HIDE DEF M
<1>4. QED  BY <1>1, <1>3 DEF Extends, M

-----------------------------------------------------------------------------
(* What fits at one place fits at the next.                                *)

\* A place.
at(o, k, i) == <<o, <<k, i>>>>

\* The kind and the number of a place.
LEMMA AtPlace ==
  ASSUME NEW o, NEW k, NEW i
  PROVE  kind(at(o, k, i)) = k /\ index(at(o, k, i)) = i
BY DEF kind, index, at

\* What the accessors of Packet do.
LEMMA DeliveredFields ==
  ASSUME NEW p, DOMAIN p = Fields, NEW t
  PROVE  /\ DOMAIN delivered(p, t) = Fields
         /\ delivered(p, t).arrival_time = t
         /\ \A f \in Fields \ {"arrival_time"} : delivered(p, t)[f] = p[f]
BY DEF delivered, Fields

\* set_rx_queue changes one field.
LEMMA QueueFields ==
  ASSUME NEW p, DOMAIN p = Fields, NEW q
  PROVE  /\ DOMAIN set_rx_queue(p, q) = Fields
         /\ set_rx_queue(p, q).rx_queue = q
         /\ \A f \in Fields \ {"rx_queue"} : set_rx_queue(p, q)[f] = p[f]
BY DEF set_rx_queue, Fields

\* set_arrival_port_id changes one field.
LEMMA PortFields ==
  ASSUME NEW p, DOMAIN p = Fields, NEW q
  PROVE  /\ DOMAIN set_arrival_port_id(p, q) = Fields
         /\ \A f \in Fields \ {"arrival_port_id"} : set_arrival_port_id(p, q)[f] = p[f]
BY DEF set_arrival_port_id, Fields

\* set_processing_done changes one field.
LEMMA DoneFields ==
  ASSUME NEW p, DOMAIN p = Fields
  PROVE  /\ DOMAIN set_processing_done(p) = Fields
         /\ set_processing_done(p).processing_done = TRUE
         /\ \A f \in Fields \ {"processing_done"} : set_processing_done(p)[f] = p[f]
BY DEF set_processing_done, Fields

\* incrm_hop_cnt changes one field, of eight bits.
LEMMA HopFields ==
  ASSUME NEW p, DOMAIN p = Fields
  PROVE  /\ DOMAIN incrm_hop_cnt(p) = Fields
         /\ incrm_hop_cnt(p).hop_cnt = (p.hop_cnt + 1) % 256
         /\ \A f \in Fields \ {"hop_cnt"} : incrm_hop_cnt(p)[f] = p[f]
BY DEF incrm_hop_cnt, Fields

\* clear resets what only a node is concerned with.
LEMMA ClearFields ==
  ASSUME NEW p, DOMAIN p = Fields
  PROVE  /\ DOMAIN clear(p) = Fields
         /\ clear(p).rx_queue = Unset /\ clear(p).arrival_port_id = Unset
         /\ \A f \in Fields \ {"rx_queue", "arrival_port_id"} : clear(p)[f] = p[f]
BY DEF clear, Fields

\* Nothing is recorded and no time passes.
LEMMA AccountedSame ==
  ASSUME NEW L, NEW a, NEW y, NEW b, NEW x, Accounted(L, a, y),
         key(b, x) = key(a, y), until(b, x) = until(a, y),
         transmissions(b, x) = transmissions(a, y)
  PROVE  Accounted(L, b, x)
BY DEF Accounted

\* Transmissions take time, and those between switch and nodes the same.
LEMMA TimesInt == NodeTx \in Nat \ {0} /\ TxTimes = {NodeTx} /\ GenTx \in Nat \ {0}
BY NodeTxAssumption, TxAssumption, GeneratorsAssumption

\* The lists after elements have been added to that of k.
Added(L, k, elements) == [L EXCEPT ![k].elements = @ \o elements]

\* What is recorded is the time that passes, but for a transmission.
LEMMA AccountedMore ==
  ASSUME NEW L, \A j \in DOMAIN L : L[j] \in Records, NEW a, NEW y, NEW b, NEW x, NEW k,
         NEW els, NEW d \in Int, NEW n \in {0, 1},
         Accounted(L, a, y), key(a, y) = k, key(b, x) = k,
         until(a, y) \in Int, transmissions(a, y) \in Int,
         until(b, x) = until(a, y) + d + n * NodeTx,
         transmissions(b, x) = transmissions(a, y) + n,
         \A s \in Seq(Elements) : /\ Total(s) \in Int /\ s \o els \in Seq(Elements)
                                  /\ Total(s \o els) = Total(s) + d
  PROVE  Accounted(Added(L, k, els), b, x) /\ Extends(L, Added(L, k, els), k)
<1> DEFINE M == Added(L, k, els)
<1>1. k \in DOMAIN L /\ L[k] \in Records  BY DEF Accounted
<1>2. PICK s : s = L[k].elements  OBVIOUS
<1>3. s \in Seq(Elements) /\ L[k].t_generation \in Int  BY <1>1, <1>2 DEF Records
<1>4. Total(s) \in Int /\ s \o els \in Seq(Elements) /\ Total(s \o els) = Total(s) + d
      BY <1>3
<1>5. M = [L EXCEPT ![k].elements = s \o els]  BY <1>1, <1>2 DEF Added
<1>6. k \in DOMAIN M /\ M[k].elements = s \o els /\ M[k].t_generation = L[k].t_generation
      BY <1>1, <1>5 DEF Records
<1>7. Extends(L, M, k)
  <2>1. PICK r : r = s \o els  OBVIOUS
  <2>2. r \in Seq(Elements)  BY <1>4, <2>1
  <2>3. Extends(L, [L EXCEPT ![k].elements = r], k)  BY <1>1, <2>2, ExtendsGiven
  <2>4. QED  BY <1>5, <2>1, <2>3
<1> HIDE DEF M
<1>8. PICK tr : tr = transmissions(a, y)  OBVIOUS
<1>9. tr \in Int /\ tr * NodeTx \in Int /\ (tr + n) * NodeTx = tr * NodeTx + n * NodeTx
  <2>1. tr \in Int /\ NodeTx \in Int  BY <1>8, TimesInt
  <2>2. (tr + 0) * NodeTx = tr * NodeTx + 0 * NodeTx
        /\ (tr + 1) * NodeTx = tr * NodeTx + 1 * NodeTx
        BY <2>1
  <2>3. QED  BY <2>1, <2>2
<1>10. until(a, y) - L[k].t_generation = Total(s) + tr * NodeTx - GenTx
       BY <1>2, <1>8 DEF Accounted
<1>11. until(b, x) - L[k].t_generation = (Total(s) + d) + (tr + n) * NodeTx - GenTx
  <2>1. PICK u : u = until(a, y)  OBVIOUS
  <2>2. PICK v : v = tr * NodeTx  OBVIOUS
  <2>3. PICK w : w = n * NodeTx  OBVIOUS
  <2>4. w \in Int  BY <2>3, TimesInt
  <2>5. PICK z : z = Total(s)  OBVIOUS
  <2>6. PICK tg : tg = L[k].t_generation  OBVIOUS
  <2>7. u \in Int /\ v \in Int /\ z \in Int /\ tg \in Int /\ GenTx \in Int
        BY <1>3, <1>4, <1>9, <2>1, <2>2, <2>5, <2>6, TimesInt
  <2>8. u - tg = z + v - GenTx  BY <1>10, <2>1, <2>2, <2>5, <2>6
  <2>9. (u + d + w) - tg = (z + d) + (v + w) - GenTx  BY <2>4, <2>7, <2>8
  <2>10. QED  BY <1>9, <2>1, <2>2, <2>3, <2>5, <2>6, <2>9
<1>12. Accounted(M, b, x)
       BY <1>4, <1>6, <1>8, <1>11 DEF Accounted
<1>13. QED  BY <1>7, <1>12 DEF M

\* A generator sends its packet.
LEMMA FitsSent ==
  ASSUME NEW L, NEW t \in Int, NEW a, NEW b, NEW y,
         kind(a) = "m_gen_msg", kind(b) = "gen_out", Fits(L, a, y, t), y.at = t
  PROVE  LET x == [pkt |-> y.pkt, at |-> t + GenTx]
         IN  Fits(L, b, x, t) /\ key(b, x) = key(a, y)
<1> DEFINE x == [pkt |-> y.pkt, at |-> t + GenTx]
<1>1. x.pkt = y.pkt /\ x.at = t + GenTx /\ timed(a) /\ timed(b)  BY DEF timed
<1> HIDE DEF x
<1>2. key(b, x) = key(a, y)  BY <1>1 DEF key, pkt_of
<1>3. until(b, x) = until(a, y)  BY <1>1 DEF until, pkt_of, Fits, Suits
<1>4. transmissions(b, x) = transmissions(a, y)  BY <1>1 DEF transmissions, pkt_of
<1>5. Accounted(L, b, x)  BY <1>2, <1>3, <1>4, AccountedSame DEF Fits
<1>6. Suits(b, x, t)  BY <1>1, TimesInt DEF Fits, Suits, pkt_of, Shaped, outside
<1>7. QED  BY <1>2, <1>5, <1>6 DEF Fits, x

\* The switch takes it.
LEMMA FitsTaken ==
  ASSUME NEW L, NEW t \in Int, NEW a, NEW b, NEW y,
         kind(a) = "gen_out", kind(b) = "m_queues", Fits(L, a, y, t)
  PROVE  Fits(L, b, y.pkt, t) /\ key(b, y.pkt) = key(a, y)
<1> DEFINE x == y.pkt
<1>1. x = y.pkt /\ timed(a) /\ ~timed(b)  BY DEF timed
<1> HIDE DEF x
<1>2. key(b, x) = key(a, y)  BY <1>1 DEF key, pkt_of
<1>3. until(b, x) = until(a, y)  BY <1>1 DEF until, pkt_of, Fits, Suits
<1>4. transmissions(b, x) = transmissions(a, y)  BY <1>1 DEF transmissions, pkt_of
<1>5. Accounted(L, b, x)  BY <1>2, <1>3, <1>4, AccountedSame DEF Fits
<1>6. Suits(b, x, t)  BY <1>1 DEF Fits, Suits, pkt_of, timed, Shaped, outside
<1>7. QED  BY <1>2, <1>5, <1>6 DEF Fits, x

\* A packet that is not processed comes back to the switch.
LEMMA FitsBack ==
  ASSUME NEW L, NEW t \in Int, NEW a, NEW b, NEW y,
         kind(a) = "port_out", kind(b) = "m_queues", Fits(L, a, y, t), y.at = t,
         ~y.pkt.processing_done
  PROVE  LET x == delivered(y.pkt, t)
         IN  Fits(L, b, x, t) /\ key(b, x) = key(a, y)
<1> DEFINE p == y.pkt
           x == delivered(p, t)
<1>1. timed(a) /\ ~timed(b)  BY DEF timed
<1>2. pkt_of(a, y) = p /\ pkt_of(b, x) = x  BY <1>1 DEF pkt_of
<1>3. /\ DOMAIN p = Fields /\ p.hop_cnt \in Nat /\ p.instr \in Nat \ {0} /\ p.flow \in Flows
      /\ p.hop_cnt < MaxHopCnt /\ Shaped(a, p)
      BY <1>2 DEF Fits, Suits
<1>4. /\ DOMAIN x = Fields /\ x.flow = p.flow /\ x.id = p.id /\ x.hop_cnt = p.hop_cnt
      /\ x.instr = p.instr /\ x.arrival_time = t /\ x.processing_done = p.processing_done
      /\ x.rx_queue = p.rx_queue /\ x.arrival_port_id = p.arrival_port_id
  <2> HIDE DEF p
  <2>1. /\ DOMAIN x = Fields /\ x.arrival_time = t
        /\ \A f \in Fields \ {"arrival_time"} : x[f] = p[f]
        BY <1>3, DeliveredFields
  <2> HIDE DEF x
  <2>2. QED  BY <2>1 DEF Fields
<1>5. ~p.processing_done  OBVIOUS
<1> HIDE DEF p, x
<1>6. key(b, x) = key(a, y)  BY <1>2, <1>4 DEF key
<1>7. until(b, x) = until(a, y)  BY <1>1, <1>2, <1>4 DEF until
<1>8. transmissions(b, x) = transmissions(a, y)  BY <1>2, <1>4 DEF transmissions
<1>9. Accounted(L, b, x)  BY <1>6, <1>7, <1>8, AccountedSame DEF Fits
<1>10. Suits(b, x, t)  BY <1>1, <1>2, <1>3, <1>4, <1>5 DEF Suits, Shaped, outside
<1>11. QED  BY <1>6, <1>9, <1>10 DEF Fits, x, p

\* The switch sends it to a node.
LEMMA FitsForwarded ==
  ASSUME NEW L, \A j \in DOMAIN L : L[j] \in Records, NEW t \in Int, NEW a, NEW b, NEW y,
         kind(a) = "m_queues", kind(b) = "to_node", Fits(L, a, y, t)
  PROVE  LET x == [pkt |-> y, at |-> t + NodeTx]
             k == <<y.flow, y.id>>
             M == Added(L, k, <<LatencyElement("TOR", t - y.arrival_time)>>)
         IN  /\ Fits(M, b, x, t) /\ Extends(L, M, k)
             /\ key(a, y) = k /\ key(b, x) = k
<1> DEFINE x == [pkt |-> y, at |-> t + NodeTx]
           k == <<y.flow, y.id>>
           e == LatencyElement("TOR", t - y.arrival_time)
           M == Added(L, k, <<e>>)
<1>1. /\ x.pkt = y /\ x.at = t + NodeTx /\ ~timed(a) /\ timed(b)
      BY DEF timed
<1>2. pkt_of(a, y) = y /\ pkt_of(b, x) = y  BY <1>1 DEF pkt_of
<1>3. key(a, y) = k /\ key(b, x) = k  BY <1>2 DEF key
<1>4. /\ DOMAIN y = Fields /\ y.hop_cnt \in Nat /\ y.arrival_time \in Int
      /\ y.instr \in Nat \ {0} /\ y.flow \in Flows
      /\ y.hop_cnt < MaxHopCnt /\ Shaped(a, y)
      BY <1>2 DEF Fits, Suits
<1>5. e \in Elements /\ e.latency = t - y.arrival_time
      BY <1>4 DEF LatencyElement, Elements, LatencyTypes
<1>6. until(a, y) = y.arrival_time /\ until(b, x) = t + NodeTx
      BY <1>1, <1>2 DEF until
<1>7. transmissions(a, y) = 2 * y.hop_cnt + 0 /\ transmissions(b, x) = 2 * y.hop_cnt + 1
      BY <1>2 DEF transmissions
<1> HIDE DEF x, e, k
<1>8. \A s \in Seq(Elements) : /\ Total(s) \in Int /\ s \o <<e>> \in Seq(Elements)
                               /\ Total(s \o <<e>>) = Total(s) + (t - y.arrival_time)
      BY <1>5, TotalAdded
<1>9. PICK d : d = t - y.arrival_time  OBVIOUS
<1>10. d \in Int /\ 1 \in {0, 1} /\ until(a, y) \in Int /\ transmissions(a, y) \in Int
       BY <1>4, <1>6, <1>7, <1>9
<1>11. /\ until(b, x) = until(a, y) + d + 1 * NodeTx
       /\ transmissions(b, x) = transmissions(a, y) + 1
       BY <1>4, <1>6, <1>7, <1>9, TimesInt
<1>12. Accounted(L, a, y)  BY DEF Fits
<1>13. PICK els : els = <<e>>  OBVIOUS
<1>14. \A s \in Seq(Elements) : /\ Total(s) \in Int /\ s \o els \in Seq(Elements)
                                /\ Total(s \o els) = Total(s) + d
       BY <1>8, <1>9, <1>13
<1>15. Accounted(Added(L, k, els), b, x) /\ Extends(L, Added(L, k, els), k)
       BY <1>3, <1>10, <1>11, <1>12, <1>14, AccountedMore
<1>16. Suits(b, x, t)  BY <1>1, <1>2, <1>4, TimesInt DEF Suits, Shaped, outside
<1>17. QED  BY <1>3, <1>13, <1>15, <1>16 DEF Fits, x, e, k

\* Where the transmission that a packet is counted to be in is over.
UncountedKinds == {"m_gen_msg", "gen_out", "m_queues", "port_out"}

\* A packet that is moved on and has to wait from the instant on to which it
\* was accounted for.
LEMMA Carried ==
  ASSUME NEW L, NEW t, NEW a, NEW y, NEW b, NEW x, NEW p, NEW q, Fits(L, a, y, t),
         pkt_of(a, y) = p, pkt_of(b, x) = q,
         q.flow = p.flow, q.id = p.id, q.hop_cnt = p.hop_cnt,
         until(b, x) = until(a, y),
         kind(a) \in UncountedKinds <=> kind(b) \in UncountedKinds
  PROVE  Accounted(L, b, x) /\ key(b, x) = key(a, y)
<1>1. key(b, x) = key(a, y)  BY DEF key
<1>2. transmissions(b, x) = transmissions(a, y)  BY DEF transmissions, UncountedKinds
<1>3. QED  BY <1>1, <1>2, AccountedSame DEF Fits

\* The fields that only Offload and the switch are concerned with.
Same(p, q) == q.flow = p.flow /\ q.id = p.id /\ q.hop_cnt = p.hop_cnt /\ q.instr = p.instr

\* A node receives the packet that the link delivers.
LEMMA FitsReceived ==
  ASSUME NEW L, NEW t \in Int, NEW a, NEW b, NEW y,
         kind(a) = "to_node", kind(b) = "offload_in", Fits(L, a, y, t), y.at = t
  PROVE  LET x == delivered(set_arrival_port_id(delivered(y.pkt, t), 0), t)
         IN  Fits(L, b, x, t) /\ key(b, x) = key(a, y)
<1> DEFINE p == y.pkt
           q == delivered(p, t)
           r == set_arrival_port_id(q, 0)
           x == delivered(r, t)
<1>1. timed(a) /\ ~timed(b)  BY DEF timed
<1>2. pkt_of(a, y) = p /\ pkt_of(b, x) = x  BY <1>1 DEF pkt_of
<1>3. /\ DOMAIN p = Fields /\ p.hop_cnt \in Nat /\ p.instr \in Nat \ {0} /\ p.flow \in Flows
      /\ p.hop_cnt < MaxHopCnt /\ Shaped(a, p)
      BY <1>2 DEF Fits, Suits
<1>4. /\ DOMAIN x = Fields /\ Same(p, x) /\ x.arrival_time = t
      /\ x.processing_done = p.processing_done
  <2> HIDE DEF p
  <2>1. DOMAIN q = Fields /\ \A f \in Fields \ {"arrival_time"} : q[f] = p[f]
        BY <1>3, DeliveredFields
  <2> HIDE DEF q
  <2>2. DOMAIN r = Fields /\ \A f \in Fields \ {"arrival_port_id"} : r[f] = q[f]
        BY <2>1, PortFields
  <2> HIDE DEF r
  <2>3. /\ DOMAIN x = Fields /\ x.arrival_time = t
        /\ \A f \in Fields \ {"arrival_time"} : x[f] = r[f]
        BY <2>2, DeliveredFields
  <2> HIDE DEF x
  <2>4. QED  BY <2>1, <2>2, <2>3 DEF Fields, Same
<1> HIDE DEF p, q, r, x
<1>5. until(b, x) = until(a, y)  BY <1>1, <1>2, <1>4 DEF until
<1>6. Accounted(L, b, x) /\ key(b, x) = key(a, y)
      BY <1>2, <1>4, <1>5, Carried DEF Same, UncountedKinds
<1>7. Suits(b, x, t)  BY <1>1, <1>2, <1>3, <1>4 DEF Suits, Same, Shaped, outside
<1>8. QED  BY <1>6, <1>7 DEF Fits, x, r, q, p

\* Offload hands a packet to Processing.
LEMMA FitsLocal ==
  ASSUME NEW L, NEW t \in Int, NEW a, NEW b, NEW y, NEW q,
         kind(a) = "offload_in", kind(b) = "out_proc", Fits(L, a, y, t)
  PROVE  LET x == delivered(set_rx_queue(y, q), t)
         IN  Fits(L, b, x, t) /\ key(b, x) = key(a, y)
<1> DEFINE r == set_rx_queue(y, q)
           x == delivered(r, t)
<1>1. ~timed(a) /\ ~timed(b)  BY DEF timed
<1>2. pkt_of(a, y) = y /\ pkt_of(b, x) = x  BY <1>1 DEF pkt_of
<1>3. /\ DOMAIN y = Fields /\ y.hop_cnt \in Nat /\ y.instr \in Nat \ {0} /\ y.flow \in Flows
      /\ y.hop_cnt < MaxHopCnt /\ Shaped(a, y)
      /\ y.arrival_time = t
      BY <1>2 DEF Fits, Suits
<1>4. /\ DOMAIN x = Fields /\ Same(y, x) /\ x.arrival_time = t
      /\ x.processing_done = y.processing_done
  <2>1. DOMAIN r = Fields /\ \A f \in Fields \ {"rx_queue"} : r[f] = y[f]
        BY <1>3, QueueFields
  <2> HIDE DEF r
  <2>2. /\ DOMAIN x = Fields /\ x.arrival_time = t
        /\ \A f \in Fields \ {"arrival_time"} : x[f] = r[f]
        BY <2>1, DeliveredFields
  <2> HIDE DEF x
  <2>3. QED  BY <2>1, <2>2 DEF Fields, Same
<1> HIDE DEF r, x
<1>5. until(b, x) = until(a, y)  BY <1>1, <1>2, <1>3, <1>4 DEF until
<1>6. Accounted(L, b, x) /\ key(b, x) = key(a, y)
      BY <1>2, <1>4, <1>5, Carried DEF Same, UncountedKinds
<1>7. Suits(b, x, t)  BY <1>1, <1>2, <1>3, <1>4 DEF Suits, Same, Shaped, outside
<1>8. QED  BY <1>6, <1>7 DEF Fits, x, r

\* Offload sends a packet on.
LEMMA FitsOffloaded ==
  ASSUME NEW L, NEW t \in Int, NEW a, NEW b, NEW y,
         y.hop_cnt + 1 < MaxHopCnt, EnableOffload,
         kind(a) = "offload_in", kind(b) = "offload_out", Fits(L, a, y, t)
  PROVE  LET x == delivered(y, t)
         IN  Fits(L, b, x, t) /\ key(b, x) = key(a, y)
<1> DEFINE x == delivered(y, t)
<1>1. ~timed(a) /\ ~timed(b)  BY DEF timed
<1>2. pkt_of(a, y) = y /\ pkt_of(b, x) = x  BY <1>1 DEF pkt_of
<1>3. /\ DOMAIN y = Fields /\ y.hop_cnt \in Nat /\ y.instr \in Nat \ {0} /\ y.flow \in Flows
      /\ y.hop_cnt < MaxHopCnt /\ Shaped(a, y)
      /\ y.arrival_time = t
      BY <1>2 DEF Fits, Suits
<1>4. /\ DOMAIN x = Fields /\ Same(y, x) /\ x.arrival_time = t
      /\ x.processing_done = y.processing_done
  <2>1. /\ DOMAIN x = Fields /\ x.arrival_time = t
        /\ \A f \in Fields \ {"arrival_time"} : x[f] = y[f]
        BY <1>3, DeliveredFields
  <2> HIDE DEF x
  <2>2. QED  BY <2>1 DEF Fields, Same
<1> HIDE DEF x
<1>5. until(b, x) = until(a, y)  BY <1>1, <1>2, <1>3, <1>4 DEF until
<1>6. Accounted(L, b, x) /\ key(b, x) = key(a, y)
      BY <1>2, <1>4, <1>5, Carried DEF Same, UncountedKinds
<1>7. Suits(b, x, t)  BY <1>1, <1>2, <1>3, <1>4 DEF Suits, Same, Shaped, outside
<1>8. QED  BY <1>6, <1>7 DEF Fits, x

\* A packet waits for its core, and for its turn on the link of the node.
LEMMA FitsWaits ==
  ASSUME NEW L, NEW t \in Int, NEW a, NEW b, NEW y, Fits(L, a, y, t),
         \/ kind(a) = "out_proc" /\ kind(b) = "rx_queue" /\ y.rx_queue = index(b)
         \/ kind(a) \in {"proc_out", "offload_out"} /\ kind(b) = "m_pkt_queue"
  PROVE  Fits(L, b, y, t) /\ key(b, y) = key(a, y)
<1>1. ~timed(a) /\ ~timed(b)  BY DEF timed
<1>2. pkt_of(a, y) = y /\ pkt_of(b, y) = y  BY <1>1 DEF pkt_of
<1>3. until(b, y) = until(a, y)  BY <1>1, <1>2 DEF until
<1>4. Accounted(L, b, y) /\ key(b, y) = key(a, y)
      BY <1>2, <1>3, Carried DEF UncountedKinds
<1>5. Suits(b, y, t)  BY <1>1, <1>2 DEF Fits, Suits, Shaped, outside
<1>6. QED  BY <1>4, <1>5 DEF Fits

\* A packet is processed.
LEMMA FitsDone ==
  ASSUME NEW L, NEW t \in Int, NEW a, NEW b, NEW y,
         kind(a) = "core", kind(b) = "proc_out", Fits(L, a, y, t), y.at = t
  PROVE  LET x == delivered(y.pkt, t)
         IN  /\ Fits(L, b, x, t) /\ key(b, x) = key(a, y)
             /\ y.pkt.rx_queue = index(a)
<1> DEFINE p == y.pkt
           x == delivered(p, t)
<1>1. timed(a) /\ ~timed(b)  BY DEF timed
<1>2. pkt_of(a, y) = p /\ pkt_of(b, x) = x  BY <1>1 DEF pkt_of
<1>3. /\ DOMAIN p = Fields /\ p.hop_cnt \in Nat /\ p.instr \in Nat \ {0} /\ p.flow \in Flows
      /\ p.hop_cnt < MaxHopCnt
      /\ p.processing_done = TRUE /\ p.rx_queue = index(a) /\ Shaped(a, p)
      BY <1>2 DEF Fits, Suits
<1>4. /\ DOMAIN x = Fields /\ Same(p, x) /\ x.arrival_time = t
      /\ x.processing_done = p.processing_done
  <2> HIDE DEF p
  <2>1. /\ DOMAIN x = Fields /\ x.arrival_time = t
        /\ \A f \in Fields \ {"arrival_time"} : x[f] = p[f]
        BY <1>3, DeliveredFields
  <2> HIDE DEF x
  <2>2. QED  BY <2>1 DEF Fields, Same
<1> HIDE DEF p, x
<1>5. until(b, x) = until(a, y)  BY <1>1, <1>2, <1>4 DEF until
<1>6. Accounted(L, b, x) /\ key(b, x) = key(a, y)
      BY <1>2, <1>4, <1>5, Carried DEF Same, UncountedKinds
<1>7. Suits(b, x, t)  BY <1>1, <1>2, <1>3, <1>4 DEF Suits, Same, Shaped, outside
<1>8. QED  BY <1>3, <1>6, <1>7 DEF Fits, x, p

\* A core starts with a packet.
LEMMA FitsStarted ==
  ASSUME NEW L, \A j \in DOMAIN L : L[j] \in Records, NEW t \in Int, NEW a, NEW b, NEW y,
         kind(a) = "rx_queue", kind(b) = "core", index(b) = index(a), Fits(L, a, y, t)
  PROVE  LET p == set_processing_done(y)
             x == [pkt |-> p, at |-> t + y.instr]
             k == <<p.flow, p.id>>
             M == Added(L, k, <<LatencyElement("NODE_BUFFER_IN", t - p.arrival_time),
                                LatencyElement("NODE_PROC", p.instr)>>)
         IN  /\ Fits(M, b, x, t) /\ Extends(L, M, k)
             /\ key(a, y) = k /\ key(b, x) = k
<1> DEFINE p == set_processing_done(y)
           x == [pkt |-> p, at |-> t + y.instr]
           k == <<p.flow, p.id>>
           e == LatencyElement("NODE_BUFFER_IN", t - p.arrival_time)
           f == LatencyElement("NODE_PROC", p.instr)
<1>1. /\ x.pkt = p /\ x.at = t + y.instr /\ ~timed(a) /\ timed(b)
      BY DEF timed
<1>2. pkt_of(a, y) = y /\ pkt_of(b, x) = p  BY <1>1 DEF pkt_of
<1>3. /\ DOMAIN y = Fields /\ y.hop_cnt \in Nat /\ y.arrival_time \in Int
      /\ y.instr \in Nat \ {0} /\ y.flow \in Flows
      /\ y.hop_cnt < MaxHopCnt /\ y.rx_queue = index(a) /\ Shaped(a, y)
      BY <1>2 DEF Fits, Suits
<1>4. /\ DOMAIN p = Fields /\ Same(y, p) /\ p.arrival_time = y.arrival_time
      /\ p.processing_done = TRUE /\ p.rx_queue = y.rx_queue
  <2>1. /\ DOMAIN p = Fields /\ p.processing_done = TRUE
        /\ \A g \in Fields \ {"processing_done"} : p[g] = y[g]
        BY <1>3, DoneFields
  <2> HIDE DEF p
  <2>2. QED  BY <2>1 DEF Fields, Same
<1> HIDE DEF p
<1>5. key(a, y) = k /\ key(b, x) = k  BY <1>2, <1>4 DEF key, Same
<1>6. /\ e \in Elements /\ e.latency = t - y.arrival_time
      /\ f \in Elements /\ f.latency = y.instr
      BY <1>3, <1>4 DEF LatencyElement, Elements, LatencyTypes, Same
<1>7. until(a, y) = y.arrival_time /\ until(b, x) = t + y.instr
      BY <1>1, <1>2 DEF until
<1>8. transmissions(a, y) = 2 * y.hop_cnt + 1 /\ transmissions(b, x) = 2 * y.hop_cnt + 1
      BY <1>2, <1>4 DEF transmissions, Same
<1> HIDE DEF x, e, f, k
<1>9. PICK d : d = e.latency + f.latency  OBVIOUS
<1>10. /\ d \in Int /\ 0 \in {0, 1} /\ until(a, y) \in Int /\ transmissions(a, y) \in Int
       BY <1>3, <1>6, <1>7, <1>8, <1>9
<1>11. /\ until(b, x) = until(a, y) + d + 0 * NodeTx
       /\ transmissions(b, x) = transmissions(a, y) + 0
       BY <1>3, <1>6, <1>7, <1>8, <1>9, TimesInt
<1>12. PICK els : els = <<e, f>>  OBVIOUS
<1>13. \A s \in Seq(Elements) : /\ Total(s) \in Int /\ s \o els \in Seq(Elements)
                                /\ Total(s \o els) = Total(s) + d
       BY <1>6, <1>9, <1>12, TotalAdded
<1>14. Accounted(L, a, y)  BY DEF Fits
<1>15. Accounted(Added(L, k, els), b, x) /\ Extends(L, Added(L, k, els), k)
       BY <1>5, <1>10, <1>11, <1>13, <1>14, AccountedMore
<1>16. Shaped(b, p)  BY <1>3, <1>4 DEF Same, Shaped, outside
<1>17. Suits(b, x, t)  BY <1>1, <1>2, <1>3, <1>4, <1>16 DEF Suits, Same
<1>18. QED  BY <1>5, <1>12, <1>15, <1>17 DEF Fits, x, e, f, k, p

\* A packet leaves a node.
LEMMA FitsLeaving ==
  ASSUME NEW L, \A j \in DOMAIN L : L[j] \in Records, NEW t \in Int, NEW a, NEW b, NEW y,
         kind(a) = "m_pkt_queue", kind(b) = "port_out", Fits(L, a, y, t)
  PROVE  LET p == clear(incrm_hop_cnt(y))
             x == [pkt |-> p, at |-> t + NodeTx]
             k == <<p.flow, p.id>>
             M == Added(L, k, <<LatencyElement("NODE_BUFFER_OUT", t - p.arrival_time)>>)
         IN  /\ Fits(M, b, x, t) /\ Extends(L, M, k)
             /\ key(a, y) = k /\ key(b, x) = k
<1> DEFINE r == incrm_hop_cnt(y)
           p == clear(r)
           x == [pkt |-> p, at |-> t + NodeTx]
           k == <<p.flow, p.id>>
           e == LatencyElement("NODE_BUFFER_OUT", t - p.arrival_time)
<1>1. /\ x.pkt = p /\ x.at = t + NodeTx /\ ~timed(a) /\ timed(b)
      BY DEF timed
<1>2. pkt_of(a, y) = y /\ pkt_of(b, x) = p  BY <1>1 DEF pkt_of
<1>3. /\ DOMAIN y = Fields /\ y.hop_cnt \in Nat /\ y.arrival_time \in Int
      /\ y.instr \in Nat \ {0} /\ y.flow \in Flows
      /\ y.hop_cnt < MaxHopCnt /\ (y.processing_done = TRUE \/ y.hop_cnt + 1 < MaxHopCnt)
      /\ Shaped(a, y)
      BY <1>2 DEF Fits, Suits
<1>4. /\ DOMAIN p = Fields /\ p.flow = y.flow /\ p.id = y.id /\ p.instr = y.instr
      /\ p.hop_cnt = (y.hop_cnt + 1) % 256 /\ p.arrival_time = y.arrival_time
      /\ p.processing_done = y.processing_done
      /\ p.rx_queue = Unset /\ p.arrival_port_id = Unset
  <2>1. /\ DOMAIN r = Fields /\ r.hop_cnt = (y.hop_cnt + 1) % 256
        /\ \A g \in Fields \ {"hop_cnt"} : r[g] = y[g]
        BY <1>3, HopFields
  <2> HIDE DEF r
  <2>2. /\ DOMAIN p = Fields /\ p.rx_queue = Unset /\ p.arrival_port_id = Unset
        /\ \A g \in Fields \ {"rx_queue", "arrival_port_id"} : p[g] = r[g]
        BY <2>1, ClearFields
  <2> HIDE DEF p
  <2>3. QED  BY <2>1, <2>2 DEF Fields
\* The eight bits of the hop count suffice.
<1>5. p.hop_cnt = y.hop_cnt + 1
  <2>1. y.hop_cnt + 1 \in 0 .. 255  BY <1>3, HopsAssumption
  <2>2. QED  BY <1>4, <2>1
<1> HIDE DEF r, p
<1>6. key(a, y) = k /\ key(b, x) = k  BY <1>2, <1>4 DEF key
<1>7. e \in Elements /\ e.latency = t - y.arrival_time
      BY <1>3, <1>4 DEF LatencyElement, Elements, LatencyTypes
<1>8. until(a, y) = y.arrival_time /\ until(b, x) = t + NodeTx
      BY <1>1, <1>2 DEF until
<1>9. transmissions(a, y) = 2 * y.hop_cnt + 1 /\ transmissions(b, x) = 2 * (y.hop_cnt + 1) + 0
      BY <1>2, <1>5 DEF transmissions
<1> HIDE DEF x, e, k
<1>10. PICK d : d = e.latency  OBVIOUS
<1>11. /\ d \in Int /\ 1 \in {0, 1} /\ until(a, y) \in Int /\ transmissions(a, y) \in Int
       BY <1>3, <1>7, <1>8, <1>9, <1>10
<1>12. /\ until(b, x) = until(a, y) + d + 1 * NodeTx
       /\ transmissions(b, x) = transmissions(a, y) + 1
       BY <1>3, <1>7, <1>8, <1>9, <1>10, TimesInt
<1>13. PICK els : els = <<e>>  OBVIOUS
<1>14. \A s \in Seq(Elements) : /\ Total(s) \in Int /\ s \o els \in Seq(Elements)
                                /\ Total(s \o els) = Total(s) + d
       BY <1>7, <1>10, <1>13, TotalAdded
<1>15. Accounted(L, a, y)  BY DEF Fits
<1>16. Accounted(Added(L, k, els), b, x) /\ Extends(L, Added(L, k, els), k)
       BY <1>6, <1>11, <1>12, <1>14, <1>15, AccountedMore
<1>17. Suits(b, x, t)  BY <1>1, <1>2, <1>3, <1>4, <1>5, TimesInt DEF Suits, Shaped, outside
<1>18. QED  BY <1>6, <1>13, <1>16, <1>17 DEF Fits, x, e, k, p, r

\* A generator creates a packet.
LEMMA FitsNew ==
  ASSUME NEW L, \A j \in DOMAIN L : L[j] \in Records, NEW t, NEW u \in Int, NEW b,
         kind(b) = "m_gen_msg", NEW flow \in Flows, NEW pid \in Nat, NEW instr \in Instrs,
         <<flow, pid>> \notin DOMAIN L
  PROVE  LET x == [pkt |-> new_packet(flow, pid, instr, u + GenTx), at |-> u]
             k == <<flow, pid>>
             M == inserted(L, k, [t_generation |-> u + 2 * GenTx, elements |-> <<>>])
         IN  Fits(M, b, x, t) /\ Extends(L, M, k) /\ key(b, x) = k
<1> DEFINE p == new_packet(flow, pid, instr, u + GenTx)
           x == [pkt |-> p, at |-> u]
           k == <<flow, pid>>
           r == [t_generation |-> u + 2 * GenTx, elements |-> <<>>]
           M == inserted(L, k, r)
<1>1. /\ x.pkt = p /\ x.at = u /\ timed(b)
      BY DEF timed
<1>2. pkt_of(b, x) = p  BY <1>1 DEF pkt_of
<1>3. /\ DOMAIN p = Fields /\ p.flow = flow /\ p.id = pid /\ p.hop_cnt = 0 /\ p.instr = instr
      /\ p.arrival_time = u + GenTx /\ p.processing_done = FALSE
      /\ p.rx_queue = Unset /\ p.arrival_port_id = Unset
      BY DEF new_packet, Fields
<1> HIDE DEF p, x
<1>4. key(b, x) = k  BY <1>2, <1>3 DEF key
<1>5. until(b, x) = u + GenTx /\ transmissions(b, x) = 0
      BY <1>2, <1>3 DEF until, transmissions
<1>6. r.t_generation = u + 2 * GenTx /\ r.elements = <<>> /\ r \in Records
      BY TimesInt DEF Records
<1> HIDE DEF r
<1>7. /\ DOMAIN M = DOMAIN L \cup {k} /\ M[k] = r /\ \A j \in DOMAIN L : M[j] = L[j]
      BY DEF inserted
<1> HIDE DEF M, k
<1>8. Extends(L, M, k)  BY <1>6, <1>7 DEF Extends
<1>9. Accounted(M, b, x)
  <2>1. Total(M[k].elements) = 0  BY <1>6, <1>7, TotalEmpty
  <2>2. (u + GenTx) - (u + 2 * GenTx) = 0 + 0 * NodeTx - GenTx  BY TimesInt
  <2>3. k \in DOMAIN M  BY <1>7
  <2>4. QED  BY <1>4, <1>5, <1>6, <1>7, <2>1, <2>2, <2>3 DEF Accounted
<1>10. Shaped(b, p)  BY <1>3 DEF Shaped, outside
<1>11. p.instr \in Nat \ {0} /\ 0 < MaxHopCnt
       BY <1>3, HopsAssumption, InputsAssumption
<1>12. Suits(b, x, t)  BY <1>1, <1>2, <1>3, <1>10, <1>11, TimesInt DEF Suits
<1>13. QED  BY <1>4, <1>8, <1>9, <1>12 DEF Fits, M, k, r, x, p

-----------------------------------------------------------------------------
(* What moves where in each module.                                        *)

\* The places of a generator, a port of the switch, and a node.
LEMMA SomePlaces ==
  /\ \A g \in Generators : /\ at("gen", "m_gen_msg", g) \in PlacesOf("gen")
                           /\ at("gen", "gen_out", g) \in PlacesOf("gen")
  /\ \A p \in 0 .. 1 : /\ at("tor", "m_queues", p) \in PlacesOf("tor")
                       /\ at("tor", "to_node", p) \in PlacesOf("tor")
  /\ \A o \in {"node", "other"} :
       /\ \A k \in {"offload_in", "out_proc", "offload_out", "proc_out", "m_pkt_queue",
                    "port_out"} : at(o, k, 0) \in PlacesOf(o)
       /\ \A c \in Cores : /\ at(o, "rx_queue", c) \in PlacesOf(o)
                           /\ at(o, "core", c) \in PlacesOf(o)
BY DEF PlacesOf, SpotsOf, at

\* The other way round.
LEMMA GenPlaces ==
  ASSUME NEW pl \in PlacesOf("gen")
  PROVE  \E g \in Generators : pl = at("gen", "m_gen_msg", g) \/ pl = at("gen", "gen_out", g)
BY DEF PlacesOf, SpotsOf, at

\* The places of the switch are those of its ports.
LEMMA TorPlaces ==
  ASSUME NEW pl \in PlacesOf("tor")
  PROVE  \E p \in 0 .. 1 : pl = at("tor", "m_queues", p) \/ pl = at("tor", "to_node", p)
BY DEF PlacesOf, SpotsOf, at

\* The places of a node are those of its connections, and of its cores.
LEMMA NodePlaces ==
  ASSUME NEW o \in {"node", "other"}, NEW pl \in PlacesOf(o)
  PROVE  \/ \E k \in {"offload_in", "out_proc", "offload_out", "proc_out", "m_pkt_queue",
                      "port_out"} : pl = at(o, k, 0)
         \/ \E c \in Cores : pl = at(o, "rx_queue", c) \/ pl = at(o, "core", c)
BY DEF PlacesOf, SpotsOf, at

\* Every place has one owner.
LEMMA OwnerPlaces ==
  /\ \A o \in Owners : \A pl \in PlacesOf(o) : pl \in Places /\ pl[1] = o
  /\ \A pl \in Places : pl[1] \in Owners /\ pl \in PlacesOf(pl[1])
BY DEF Places, PlacesOf

\* What at most one message makes of a place.
waiting(msg, none) == IF msg = none THEN <<>> ELSE <<msg>>

\* What the places of a generator hold.
LEMMA GenAt ==
  ASSUME NEW msg, NEW out, NEW g \in Generators
  PROVE  LET H == GenHolds(msg, out)
         IN  /\ H[at("gen", "m_gen_msg", g)] = waiting(msg[g], NoPacket)
             /\ H[at("gen", "gen_out", g)] = out[g]
BY SomePlaces, AtPlace DEF GenHolds, waiting

\* What the places of a port of the switch hold.
LEMMA TorAt ==
  ASSUME NEW queues, NEW links, NEW p \in 0 .. 1
  PROVE  LET H == TorHolds(queues, links)
         IN  /\ H[at("tor", "m_queues", p)] = queues[p]
             /\ H[at("tor", "to_node", p)] = links[p]
BY SomePlaces, AtPlace DEF TorHolds

\* What the places of a node hold.
LEMMA NodeAt ==
  ASSUME NEW o \in {"node", "other"}, NEW n
  PROVE  LET H == NodeHolds(o, n)
         IN  /\ H[at(o, "offload_in", 0)] = n.in
             /\ H[at(o, "out_proc", 0)] = n.proc
             /\ H[at(o, "offload_out", 0)] = n.off
             /\ H[at(o, "proc_out", 0)] = n.done
             /\ H[at(o, "m_pkt_queue", 0)] = n.queue
             /\ H[at(o, "port_out", 0)] = n.link
             /\ \A c \in Cores : /\ H[at(o, "rx_queue", c)] = n.rx[c]
                                 /\ H[at(o, "core", c)] = waiting(n.core[c], NoMsg)
<1> DEFINE H == NodeHolds(o, n)
<1>1. /\ H[at(o, "offload_in", 0)] = n.in
      /\ H[at(o, "out_proc", 0)] = n.proc
      /\ H[at(o, "offload_out", 0)] = n.off
      BY SomePlaces, AtPlace DEF NodeHolds
<1>2. /\ H[at(o, "proc_out", 0)] = n.done
      /\ H[at(o, "m_pkt_queue", 0)] = n.queue
      /\ H[at(o, "port_out", 0)] = n.link
      BY SomePlaces, AtPlace DEF NodeHolds
<1>3. \A c \in Cores : H[at(o, "rx_queue", c)] = n.rx[c]
      BY SomePlaces, AtPlace DEF NodeHolds
<1>4. \A c \in Cores : H[at(o, "core", c)] = waiting(n.core[c], NoMsg)
      BY SomePlaces, AtPlace DEF NodeHolds, waiting
<1>5. QED  BY <1>1, <1>2, <1>3, <1>4

\* What an owner does with its places, others leave theirs alone.
LEMMA LiftRemoves ==
  ASSUME NEW H, NEW H2, NEW o \in Owners, NEW a \in PlacesOf(o),
         \A p \in Owners \ {o} : H2[p] = H[p], Removes(PlacesOf(o), H[o], H2[o], a)
  PROVE  Removes(Places, Joined(H), Joined(H2), a)
BY OwnerPlaces DEF Removes, Joined

\* An insertion by one owner is one into the network.
LEMMA LiftInserts ==
  ASSUME NEW H, NEW H2, NEW o \in Owners, NEW b \in PlacesOf(o), NEW x,
         \A p \in Owners \ {o} : H2[p] = H[p], Inserts(PlacesOf(o), H[o], H2[o], b, x)
  PROVE  Inserts(Places, Joined(H), Joined(H2), b, x)
BY OwnerPlaces DEF Inserts, Joined

\* A packet that one owner moves is moved in the network.
LEMMA LiftMoves ==
  ASSUME NEW H, NEW H2, NEW o \in Owners, NEW a \in PlacesOf(o), NEW b \in PlacesOf(o), NEW x,
         \A p \in Owners \ {o} : H2[p] = H[p], Moves(PlacesOf(o), H[o], H2[o], a, b, x)
  PROVE  Moves(Places, Joined(H), Joined(H2), a, b, x)
BY OwnerPlaces DEF Moves, Joined

\* From one owner to another.
LEMMA LiftCross ==
  ASSUME NEW H, NEW H2, NEW o \in Owners, NEW q \in Owners, o # q,
         NEW a \in PlacesOf(o), NEW b \in PlacesOf(q), NEW x,
         \A p \in Owners \ {o, q} : H2[p] = H[p],
         Removes(PlacesOf(o), H[o], H2[o], a), Inserts(PlacesOf(q), H[q], H2[q], b, x)
  PROVE  Moves(Places, Joined(H), Joined(H2), a, b, x)
<1>1. a # b  BY OwnerPlaces
<1>2. QED  BY <1>1, OwnerPlaces DEF Moves, Removes, Inserts, Joined

Nodes == {"node", "other"}

\* The places, o being a node as n says.
With(H, o, n) == Joined([p \in Owners |-> IF p = o THEN NodeHolds(o, n) ELSE H[p]])

\* What changes from n to m is in S.
Untouched(o, n, m, S) ==
  /\ m.in = n.in \/ at(o, "offload_in", 0) \in S
  /\ m.proc = n.proc \/ at(o, "out_proc", 0) \in S
  /\ m.off = n.off \/ at(o, "offload_out", 0) \in S
  /\ m.done = n.done \/ at(o, "proc_out", 0) \in S
  /\ m.queue = n.queue \/ at(o, "m_pkt_queue", 0) \in S
  /\ m.link = n.link \/ at(o, "port_out", 0) \in S
  /\ \A c \in Cores : /\ m.rx[c] = n.rx[c] \/ at(o, "rx_queue", c) \in S
                      /\ m.core[c] = n.core[c] \/ at(o, "core", c) \in S

\* What the queue of a core holds.
LEMMA RxAt ==
  ASSUME NEW o \in Nodes, NEW n, NEW c \in Cores
  PROVE  /\ NodeHolds(o, n)[at(o, "rx_queue", c)] = n.rx[c]
         /\ at(o, "rx_queue", c) \in PlacesOf(o)
<1>1. NodeHolds(o, n)[at(o, "rx_queue", c)] = n.rx[c]  BY NodeAt DEF Nodes
<1>2. at(o, "rx_queue", c) \in PlacesOf(o)  BY SomePlaces DEF Nodes
<1>3. QED  BY <1>1, <1>2

\* What a core holds.
LEMMA CoreAt ==
  ASSUME NEW o \in Nodes, NEW n, NEW c \in Cores
  PROVE  /\ NodeHolds(o, n)[at(o, "core", c)] = waiting(n.core[c], NoMsg)
         /\ at(o, "core", c) \in PlacesOf(o)
<1>1. NodeHolds(o, n)[at(o, "core", c)] = waiting(n.core[c], NoMsg)  BY NodeAt DEF Nodes
<1>2. at(o, "core", c) \in PlacesOf(o)  BY SomePlaces DEF Nodes
<1>3. QED  BY <1>1, <1>2

\* Places that a node leaves alone hold what they held.
LEMMA UntouchedSame ==
  ASSUME NEW o \in Nodes, NEW n, NEW m, NEW S, Untouched(o, n, m, S),
         NEW pl \in PlacesOf(o), pl \notin S
  PROVE  NodeHolds(o, m)[pl] = NodeHolds(o, n)[pl]
<1>1. ASSUME NEW k, pl = at(o, k, 0) PROVE at(o, k, 0) \notin S  BY <1>1
<1>2. CASE pl = at(o, "offload_in", 0)  BY <1>1, <1>2, NodeAt DEF Untouched, Nodes
<1>3. CASE pl = at(o, "out_proc", 0)  BY <1>1, <1>3, NodeAt DEF Untouched, Nodes
<1>4. CASE pl = at(o, "offload_out", 0)  BY <1>1, <1>4, NodeAt DEF Untouched, Nodes
<1>5. CASE pl = at(o, "proc_out", 0)  BY <1>1, <1>5, NodeAt DEF Untouched, Nodes
<1>6. CASE pl = at(o, "m_pkt_queue", 0)  BY <1>1, <1>6, NodeAt DEF Untouched, Nodes
<1>7. CASE pl = at(o, "port_out", 0)  BY <1>1, <1>7, NodeAt DEF Untouched, Nodes
<1>8. CASE \E c \in Cores : pl = at(o, "rx_queue", c) \/ pl = at(o, "core", c)
  <2>1. PICK c \in Cores : pl = at(o, "rx_queue", c) \/ pl = at(o, "core", c)  BY <1>8
  <2>2. CASE pl = at(o, "rx_queue", c)
    <3>1. m.rx[c] = n.rx[c]  BY <2>2 DEF Untouched
    <3>2. NodeHolds(o, n)[at(o, "rx_queue", c)] = n.rx[c]  BY NodeAt DEF Nodes
    <3>3. NodeHolds(o, m)[at(o, "rx_queue", c)] = m.rx[c]  BY NodeAt DEF Nodes
    <3>4. QED  BY <2>2, <3>1, <3>2, <3>3
  <2>3. CASE pl = at(o, "core", c)
    <3>1. m.core[c] = n.core[c]  BY <2>3 DEF Untouched
    <3>2. NodeHolds(o, n)[at(o, "core", c)] = waiting(n.core[c], NoMsg)  BY NodeAt DEF Nodes
    <3>3. NodeHolds(o, m)[at(o, "core", c)] = waiting(m.core[c], NoMsg)  BY NodeAt DEF Nodes
    <3>4. QED  BY <2>3, <3>1, <3>2, <3>3
  <2>4. QED  BY <2>1, <2>2, <2>3
<1>9. QED  BY <1>2, <1>3, <1>4, <1>5, <1>6, <1>7, <1>8, NodePlaces DEF Nodes

\* Places of different kinds, or with different numbers, differ.
LEMMA AtDiffers ==
  ASSUME NEW o, NEW k, NEW i, NEW l, NEW j, at(o, k, i) = at(o, l, j)
  PROVE  k = l /\ i = j
BY DEF at

\* The places of a node in the network.
LEMMA WithIn ==
  ASSUME NEW H, NEW o \in Nodes, NEW n, NEW pl \in PlacesOf(o)
  PROVE  pl \in Places /\ With(H, o, n)[pl] = NodeHolds(o, n)[pl]
<1>1. o \in Owners  BY DEF Nodes, Owners
<1>2. pl \in Places /\ pl[1] = o  BY <1>1, OwnerPlaces
<1>3. QED  BY <1>1, <1>2 DEF With, Joined

\* The places of the others do not depend on the node.
LEMMA WithOut ==
  ASSUME NEW H, NEW o \in Nodes, NEW n, NEW m, NEW pl \in Places, pl \notin PlacesOf(o)
  PROVE  With(H, o, m)[pl] = With(H, o, n)[pl]
<1>1. pl[1] \in Owners /\ pl[1] # o  BY OwnerPlaces
<1>2. QED  BY <1>1 DEF With, Joined

\* What is first at a place of a node fits there.
LEMMA FirstFits ==
  ASSUME NEW Q, NEW a \in Places, NEW L, NEW t, Placed(Q, L, t), Q[a] # <<>>
  PROVE  Fits(L, a, Head(Q[a]), t)
BY ShorterSeq DEF Placed

\* The same, for a place of a node.
LEMMA NodeFirst ==
  ASSUME NEW H, NEW o \in Nodes, NEW n, NEW a \in PlacesOf(o), NEW s, NEW L, NEW t,
         Placed(With(H, o, n), L, t), NodeHolds(o, n)[a] = s, s # <<>>
  PROVE  Fits(L, a, Head(s), t) /\ IsSeq(s)
<1>1. With(H, o, n)[a] = s /\ a \in Places  BY WithIn
<1>2. QED  BY <1>1, FirstFits DEF Placed

\* A packet is moved within a node, or lost there.
LEMMA NodeMoved ==
  ASSUME NEW H, NEW o \in Nodes, NEW n, NEW m, NEW a \in PlacesOf(o), NEW b \in PlacesOf(o),
         NEW x, NEW s, NEW L, NEW L2, NEW t, Placed(With(H, o, n), L, t),
         a # b, NodeHolds(o, n)[a] = s, s # <<>>, NodeHolds(o, m)[a] = Tail(s),
         NodeHolds(o, m)[b] = Append(NodeHolds(o, n)[b], x), Untouched(o, n, m, {a, b}),
         key(b, x) = key(a, Head(s)), Extends(L, L2, key(b, x)), Fits(L2, b, x, t)
  PROVE  Placed(With(H, o, m), L2, t)
<1> DEFINE Q == With(H, o, n)
           R == With(H, o, m)
<1>1. /\ a \in Places /\ b \in Places /\ Q[a] = s /\ R[a] = Tail(s) /\ R[b] = Append(Q[b], x)
  <2>1. a \in Places /\ Q[a] = s /\ R[a] = Tail(s)  BY WithIn
  <2>2. b \in Places /\ R[b] = Append(Q[b], x)  BY WithIn
  <2>3. QED  BY <2>1, <2>2
<1>2. ASSUME NEW pl \in Places \ {a, b} PROVE R[pl] = Q[pl]
  <2>1. CASE pl \in PlacesOf(o)  BY <1>2, <2>1, WithIn, UntouchedSame
  <2>2. CASE pl \notin PlacesOf(o)  BY <1>2, <2>2, WithOut
  <2>3. QED  BY <2>1, <2>2
<1> HIDE DEF Q, R
<1>3. Moves(Places, Q, R, a, b, x)  BY <1>1, <1>2 DEF Moves
<1>4. Placed(Q, L, t)  BY DEF Q
<1>5. Placed(R, L2, t)  BY <1>1, <1>3, <1>4, MoveKeeps
<1>6. QED  BY <1>5 DEF R

\* A packet that leaves a node leaves the others where they are.
LEMMA NodeLoses ==
  ASSUME NEW H, NEW o \in Nodes, NEW n, NEW m, NEW a \in PlacesOf(o), NEW s, NEW L, NEW t,
         Placed(With(H, o, n), L, t), NodeHolds(o, n)[a] = s, s # <<>>,
         NodeHolds(o, m)[a] = Tail(s), Untouched(o, n, m, {a})
  PROVE  Placed(With(H, o, m), L, t)
<1> DEFINE Q == With(H, o, n)
           R == With(H, o, m)
<1>1. a \in Places /\ Q[a] = s /\ R[a] = Tail(s)  BY WithIn
<1>2. ASSUME NEW pl \in Places \ {a} PROVE R[pl] = Q[pl]
  <2>1. CASE pl \in PlacesOf(o)  BY <1>2, <2>1, WithIn, UntouchedSame
  <2>2. CASE pl \notin PlacesOf(o)  BY <1>2, <2>2, WithOut
  <2>3. QED  BY <2>1, <2>2
<1> HIDE DEF Q, R
<1>3. Removes(Places, Q, R, a)  BY <1>1, <1>2 DEF Removes
<1>4. Placed(Q, L, t)  BY DEF Q
<1>5. Placed(R, L, t)  BY <1>1, <1>3, <1>4, RemoveKeeps
<1>6. QED  BY <1>5 DEF R

-----------------------------------------------------------------------------
(* Steps of a node.                                                        *)

\* Offload hands the first packet to Processing, or sends it on.
Dispatched(n, m, t) ==
  /\ n.in # <<>> /\ m.in = Tail(n.in)
  /\ \/ /\ \E q : m.proc = Append(n.proc, delivered(set_rx_queue(Head(n.in), q), t))
        /\ m.off = n.off
     \/ /\ Head(n.in).hop_cnt # MaxHopCnt - 1 /\ EnableOffload
        /\ m.off = Append(n.off, delivered(Head(n.in), t))
        /\ m.proc = n.proc
  /\ m.rx = n.rx /\ m.core = n.core /\ m.done = n.done /\ m.queue = n.queue /\ m.link = n.link
  /\ m.busy = n.busy

\* The packet fits where Offload puts it.
LEMMA DispatchKeeps ==
  ASSUME NEW H, NEW L, NEW t \in Int, NEW o \in Nodes, NEW n, NEW m,
         Placed(With(H, o, n), L, t), Dispatched(n, m, t)
  PROVE  Placed(With(H, o, m), L, t)
<1> DEFINE a == at(o, "offload_in", 0)
           b == at(o, "out_proc", 0)
           c == at(o, "offload_out", 0)
           s == n.in
           y == Head(s)
<1>1. /\ a \in PlacesOf(o) /\ b \in PlacesOf(o) /\ c \in PlacesOf(o)
      /\ kind(a) = "offload_in" /\ kind(b) = "out_proc" /\ kind(c) = "offload_out"
      BY SomePlaces, AtPlace DEF Nodes
<1>2. /\ NodeHolds(o, n)[a] = s /\ NodeHolds(o, m)[a] = m.in
      /\ NodeHolds(o, n)[b] = n.proc /\ NodeHolds(o, m)[b] = m.proc
      /\ NodeHolds(o, n)[c] = n.off /\ NodeHolds(o, m)[c] = m.off
      BY NodeAt DEF Nodes
<1>3. /\ m.off = n.off => Untouched(o, n, m, {a, b})
      /\ m.proc = n.proc => Untouched(o, n, m, {a, c})
      BY DEF Dispatched, Untouched
<1>4. s # <<>> /\ m.in = Tail(s)  BY DEF Dispatched
<1> HIDE DEF a, b, c, s
<1>5. Fits(L, a, y, t)  BY <1>1, <1>2, <1>4, NodeFirst
<1>6. \A k : Extends(L, L, k)  BY ExtendsSame
<1>7. CASE (\E q : m.proc = Append(n.proc, delivered(set_rx_queue(y, q), t))) /\ m.off = n.off
  <2>1. PICK q : m.proc = Append(n.proc, delivered(set_rx_queue(y, q), t))  BY <1>7
  <2>2. PICK x : x = delivered(set_rx_queue(y, q), t)  OBVIOUS
  <2>3. Fits(L, b, x, t) /\ key(b, x) = key(a, y)  BY <1>1, <1>5, <2>2, FitsLocal
  <2>4. NodeHolds(o, m)[b] = Append(NodeHolds(o, n)[b], x) /\ a # b
        BY <1>1, <1>2, <2>1, <2>2
  <2>5. QED  BY <1>1, <1>2, <1>3, <1>4, <1>6, <1>7, <2>3, <2>4, NodeMoved
<1>8. CASE /\ y.hop_cnt # MaxHopCnt - 1 /\ EnableOffload
           /\ m.off = Append(n.off, delivered(y, t))
           /\ m.proc = n.proc
  <2>1. PICK x : x = delivered(y, t)  OBVIOUS
  <2>2. y.hop_cnt + 1 < MaxHopCnt
    <3>1. y.hop_cnt \in Nat /\ y.hop_cnt < MaxHopCnt
          BY <1>1, <1>5 DEF Fits, Suits, pkt_of, timed
    <3>2. y.hop_cnt # MaxHopCnt - 1  BY <1>8
    <3>3. QED  BY <3>1, <3>2, HopsAssumption
  <2>3. Fits(L, c, x, t) /\ key(c, x) = key(a, y)
        BY <1>1, <1>5, <1>8, <2>1, <2>2, FeatureAssumption, FitsOffloaded
  <2>4. NodeHolds(o, m)[c] = Append(NodeHolds(o, n)[c], x) /\ a # c
        BY <1>1, <1>2, <1>8, <2>1
  <2>5. QED  BY <1>1, <1>2, <1>3, <1>4, <1>6, <1>8, <2>3, <2>4, NodeMoved
<1>9. QED  BY <1>7, <1>8 DEF Dispatched, s

\* recorded_by_core.
CoreRecord(L, t, before, after) ==
  LET started == {c \in Cores : after[c] # before[c] /\ after[c] # NoMsg}
      pkt(c)  == after[c].pkt
  IN  IF started = {} THEN L
      ELSE LET c == CHOOSE c \in started : TRUE
           IN  Added(L, <<pkt(c).flow, pkt(c).id>>,
                 <<LatencyElement("NODE_BUFFER_IN", t - pkt(c).arrival_time),
                   LatencyElement("NODE_PROC", pkt(c).instr)>>)

\* recorded_by_link.
LinkRecord(L, type, t, before, after) ==
  IF Len(after) <= Len(before) THEN L
  ELSE Added(L, <<Last(after).pkt.flow, Last(after).pkt.id>>,
         <<LatencyElement(type, t - Last(after).pkt.arrival_time)>>)

\* What a core adds when it starts with pkt.
StartRecord(L, t, pkt) ==
  Added(L, <<pkt.flow, pkt.id>>, <<LatencyElement("NODE_BUFFER_IN", t - pkt.arrival_time),
                                   LatencyElement("NODE_PROC", pkt.instr)>>)

\* Nothing is recorded if no core starts.
LEMMA NoneStarted ==
  ASSUME NEW L, NEW t, NEW before, NEW after,
         \A c \in Cores : after[c] = before[c] \/ after[c] = NoMsg
  PROVE  CoreRecord(L, t, before, after) = L
<1> DEFINE started == {c \in Cores : after[c] # before[c] /\ after[c] # NoMsg}
<1>1. started = {}  OBVIOUS
<1>2. QED  BY <1>1 DEF CoreRecord

\* What is recorded is of the core that starts.
LEMMA OneStarted ==
  ASSUME NEW L, NEW t, NEW before, NEW after, NEW c \in Cores,
         after[c] # before[c], after[c] # NoMsg,
         \A d \in Cores \ {c} : after[d] = before[d] \/ after[d] = NoMsg
  PROVE  CoreRecord(L, t, before, after) = StartRecord(L, t, after[c].pkt)
<1> DEFINE started == {d \in Cores : after[d] # before[d] /\ after[d] # NoMsg}
           ch == CHOOSE d \in started : TRUE
           pkt(d) == after[d].pkt
<1>1. started = {c}  OBVIOUS
<1>2. CoreRecord(L, t, before, after) =
        IF started = {} THEN L
        ELSE Added(L, <<pkt(ch).flow, pkt(ch).id>>,
               <<LatencyElement("NODE_BUFFER_IN", t - pkt(ch).arrival_time),
                 LatencyElement("NODE_PROC", pkt(ch).instr)>>)
      BY DEF CoreRecord
<1> HIDE DEF started
<1>3. ch = c  BY <1>1
<1> HIDE DEF ch
<1>4. QED  BY <1>1, <1>2, <1>3 DEF StartRecord

\* A core that has no packet starts with the next one.
Starts(n, m, c, t) ==
  LET y == Head(n.rx[c])
  IN  /\ n.rx[c] # <<>> /\ m.rx[c] = Tail(n.rx[c])
      /\ m.core[c] = [pkt |-> set_processing_done(y), at |-> t + y.instr]
      /\ \A d \in Cores \ {c} : m.rx[d] = n.rx[d] /\ m.core[d] = n.core[d]
      /\ m.in = n.in /\ m.proc = n.proc /\ m.off = n.off /\ m.done = n.done
      /\ m.queue = n.queue /\ m.link = n.link

\* The packet fits at its core, with what is recorded of it.
LEMMA StartKeeps ==
  ASSUME NEW H, NEW L, NEW t \in Int, NEW o \in Nodes, NEW n, NEW m, NEW c \in Cores,
         Placed(With(H, o, n), L, t), Starts(n, m, c, t),
         n.core[c] = NoMsg
  PROVE  /\ m.core[c] = NoMsg => Placed(With(H, o, m), L, t)
         /\ m.core[c] # NoMsg =>
              Placed(With(H, o, m), StartRecord(L, t, m.core[c].pkt), t)
         /\ m.core[c].at > t
<1> DEFINE a == at(o, "rx_queue", c)
           b == at(o, "core", c)
           s == n.rx[c]
           y == Head(s)
           p == set_processing_done(y)
           x == [pkt |-> p, at |-> t + y.instr]
<1>1. /\ a \in PlacesOf(o) /\ b \in PlacesOf(o)
      /\ kind(a) = "rx_queue" /\ kind(b) = "core" /\ index(b) = index(a)
      BY SomePlaces, AtPlace DEF Nodes
<1>2. /\ s # <<>> /\ m.rx[c] = Tail(s) /\ m.core[c] = x
      /\ \A d \in Cores \ {c} : m.rx[d] = n.rx[d] /\ m.core[d] = n.core[d]
      BY DEF Starts
<1>3. NodeHolds(o, n)[a] = s /\ NodeHolds(o, m)[a] = m.rx[c]
  <2>1. NodeHolds(o, n)[at(o, "rx_queue", c)] = n.rx[c]  BY NodeAt DEF Nodes
  <2>2. NodeHolds(o, m)[at(o, "rx_queue", c)] = m.rx[c]  BY NodeAt DEF Nodes
  <2>3. QED  BY <2>1, <2>2
<1>4. /\ NodeHolds(o, n)[b] = waiting(n.core[c], NoMsg)
      /\ NodeHolds(o, m)[b] = waiting(m.core[c], NoMsg)
  <2>1. NodeHolds(o, n)[at(o, "core", c)] = waiting(n.core[c], NoMsg)  BY NodeAt DEF Nodes
  <2>2. NodeHolds(o, m)[at(o, "core", c)] = waiting(m.core[c], NoMsg)  BY NodeAt DEF Nodes
  <2>3. QED  BY <2>1, <2>2
<1>5. Untouched(o, n, m, {a, b})  BY <1>2 DEF Starts, Untouched
<1>6. m.core[c] = n.core[c] => Untouched(o, n, m, {a})  BY <1>2 DEF Starts, Untouched
<1> HIDE DEF a, b, s, y
<1>7. Fits(L, a, Head(s), t) /\ y = Head(s)  BY <1>1, <1>2, <1>3, NodeFirst DEF y
<1>8. x.at > t
  <2>1. y.instr \in Nat \ {0}  BY <1>1, <1>7 DEF Fits, Suits, pkt_of, timed
  <2>2. x.at = t + y.instr  OBVIOUS
  <2>3. QED  BY <2>1, <2>2
<1>9. CASE m.core[c] = NoMsg
      BY <1>1, <1>2, <1>3, <1>6, <1>8, <1>9, NodeLoses
<1>10. CASE m.core[c] # NoMsg
  <2> DEFINE k == <<p.flow, p.id>>
             M == StartRecord(L, t, p)
  <2>1. \A j \in DOMAIN L : L[j] \in Records  BY DEF Placed
  <2>2. Fits(M, b, x, t) /\ Extends(L, M, k) /\ key(a, y) = k /\ key(b, x) = k
    <3> DEFINE N == Added(L, k, <<LatencyElement("NODE_BUFFER_IN", t - p.arrival_time),
                                  LatencyElement("NODE_PROC", p.instr)>>)
    <3>1. Fits(L, a, y, t)  BY <1>7
    <3>2. Fits(N, b, x, t) /\ Extends(L, N, k) /\ key(a, y) = k /\ key(b, x) = k
          BY <1>1, <2>1, <3>1, FitsStarted, SMTT(30)
    <3>3. M = N  BY DEF StartRecord
    <3>4. QED  BY <3>2, <3>3
  <2>3. NodeHolds(o, m)[b] = Append(NodeHolds(o, n)[b], x)
        BY <1>2, <1>4, <1>10 DEF waiting
  <2>4. x.pkt = p  OBVIOUS
  <2> HIDE DEF M, k, x, p
  <2>5. a # b  BY <1>1
  <2>6. Placed(With(H, o, m), M, t)
        BY <1>1, <1>2, <1>3, <1>5, <1>7, <2>2, <2>3, <2>5, NodeMoved
  <2>7. QED  BY <1>2, <1>8, <1>10, <2>4, <2>6 DEF M
<1>11. QED  BY <1>9, <1>10

\* Nothing changes but the queues and cores in between.
SameEnds(n, m) == m.in = n.in /\ m.off = n.off /\ m.queue = n.queue /\ m.link = n.link

\* Processing takes a packet that Offload hands it.
Enqueued(n, m, t) ==
  LET y == Head(n.proc)
      c == y.rx_queue
      queue == Append(n.rx[c], y)
  IN  /\ n.proc # <<>> /\ m.proc = Tail(n.proc) /\ m.done = n.done /\ SameEnds(n, m)
      /\ \/ /\ n.busy[c]
            /\ m.rx = [n.rx EXCEPT ![c] = queue]
            /\ m.core = n.core /\ m.busy = n.busy
         \/ /\ ~n.busy[c]
            /\ m.busy = [n.busy EXCEPT ![c] = TRUE]
            /\ m.rx = [n.rx EXCEPT ![c] = Tail(queue)]
            /\ m.core = [n.core EXCEPT ![c] =
                 [pkt |-> set_processing_done(Head(queue)), at |-> t + Head(queue).instr]]

\* A packet for a core that a node does not have would be lost.
LEMMA EnqueueElsewhere ==
  ASSUME NEW H, NEW L, NEW t \in Int, NEW o \in Nodes, NEW n, NEW m,
         Placed(With(H, o, n), L, t), NodeKept(n), Enqueued(n, m, t),
         Head(n.proc).rx_queue \notin Cores
  PROVE  /\ Placed(With(H, o, m), CoreRecord(L, t, n.core, m.core), t)
         /\ NodeKept(m) /\ m.link = n.link
<1> DEFINE a == at(o, "out_proc", 0)
           s == n.proc
<1>1. a \in PlacesOf(o)  BY SomePlaces DEF Nodes
<1>2. NodeHolds(o, n)[a] = s /\ NodeHolds(o, m)[a] = m.proc  BY NodeAt DEF Nodes
<1>3. \A c \in Cores : m.rx[c] = n.rx[c] /\ m.core[c] = n.core[c] /\ m.busy[c] = n.busy[c]
      BY DEF Enqueued, NodeKept
<1>4. NodeKept(m)
  <2>1. DOMAIN m.core = Cores /\ DOMAIN m.rx = Cores  BY DEF NodeKept, Enqueued
  <2>2. m.busy \in [Cores -> BOOLEAN]  BY DEF NodeKept, Enqueued
  <2>3. QED  BY <1>3, <2>1, <2>2 DEF NodeKept
<1>5. Untouched(o, n, m, {a})  BY <1>3 DEF Enqueued, SameEnds, Untouched
<1>6. s # <<>> /\ m.proc = Tail(s) /\ m.link = n.link  BY DEF Enqueued, SameEnds
<1> HIDE DEF a, s
<1>7. Placed(With(H, o, m), L, t)  BY <1>1, <1>2, <1>5, <1>6, NodeLoses
<1>8. CoreRecord(L, t, n.core, m.core) = L  BY <1>3, NoneStarted
<1>9. QED  BY <1>4, <1>6, <1>7, <1>8

\* The packet waits for a core.
LEMMA EnqueueWaits ==
  ASSUME NEW H, NEW L, NEW t \in Int, NEW o \in Nodes, NEW n, NEW m,
         Placed(With(H, o, n), L, t), NEW c \in Cores, c = Head(n.proc).rx_queue,
         n.proc # <<>>, m.proc = Tail(n.proc), m.done = n.done, SameEnds(n, m),
         m.rx[c] = Append(n.rx[c], Head(n.proc)),
         \A d \in Cores \ {c} : m.rx[d] = n.rx[d],
         \A d \in Cores : m.core[d] = n.core[d]
  PROVE  Placed(With(H, o, m), L, t)
<1> DEFINE a == at(o, "out_proc", 0)
           b == at(o, "rx_queue", c)
           s == n.proc
           y == Head(s)
<1>1. /\ a \in PlacesOf(o) /\ b \in PlacesOf(o)
      /\ kind(a) = "out_proc" /\ kind(b) = "rx_queue" /\ index(b) = c
  <2>1. a \in PlacesOf(o)  BY SomePlaces DEF Nodes
  <2>2. b \in PlacesOf(o)  BY RxAt
  <2>3. kind(a) = "out_proc" /\ kind(b) = "rx_queue" /\ index(b) = c
        BY DEF at, kind, index
  <2>4. QED  BY <2>1, <2>2, <2>3
<1>2. NodeHolds(o, n)[a] = s /\ NodeHolds(o, m)[a] = m.proc  BY NodeAt DEF Nodes
<1>3. NodeHolds(o, n)[at(o, "rx_queue", c)] = n.rx[c]  BY RxAt
<1>4. NodeHolds(o, m)[at(o, "rx_queue", c)] = m.rx[c]  BY RxAt
<1>5. NodeHolds(o, m)[b] = Append(NodeHolds(o, n)[b], y)  BY <1>3, <1>4
<1>6. Untouched(o, n, m, {a, b})  BY DEF SameEnds, Untouched
<1>7. s # <<>> /\ m.proc = Tail(s) /\ c = y.rx_queue  OBVIOUS
<1> HIDE DEF a, b, s
<1>8. Fits(L, a, y, t)  BY <1>1, <1>2, <1>7, NodeFirst
<1>9. Fits(L, b, y, t) /\ key(b, y) = key(a, y)
  <2>1. kind(a) = "out_proc" /\ kind(b) = "rx_queue" /\ y.rx_queue = index(b)
        BY <1>1, <1>7
  <2> HIDE DEF y
  <2>2. \/ kind(a) = "out_proc" /\ kind(b) = "rx_queue" /\ y.rx_queue = index(b)
        \/ kind(a) \in {"proc_out", "offload_out"} /\ kind(b) = "m_pkt_queue"
        BY <2>1
  <2>3. QED  BY ONLY <1>8, <2>2, t \in Int, FitsWaits
<1>10. Extends(L, L, key(b, y))  BY ExtendsSame
<1>11. a # b  BY <1>1
<1>12. QED  BY <1>1, <1>2, <1>5, <1>6, <1>7, <1>9, <1>10, <1>11, NodeMoved

\* A core that starts is the only one whose message changes.
LEMMA StartRecorded ==
  ASSUME NEW H, NEW L, NEW t \in Int, NEW o \in Nodes, NEW n, NEW r, NEW m, NEW c \in Cores,
         Placed(With(H, o, r), L, t), Starts(r, m, c, t), r.core[c] = NoMsg,
         \A d \in Cores \ {c} : r.core[d] = n.core[d],
         n.core[c] = NoMsg \/ n.core[c].at = t
  PROVE  Placed(With(H, o, m), CoreRecord(L, t, n.core, m.core), t)
<1>1. \A d \in Cores \ {c} : m.core[d] = n.core[d]  BY DEF Starts
<1>2. /\ m.core[c] = NoMsg => Placed(With(H, o, m), L, t)
      /\ m.core[c] # NoMsg => Placed(With(H, o, m), StartRecord(L, t, m.core[c].pkt), t)
      /\ m.core[c].at > t
      BY StartKeeps
<1>3. CASE m.core[c] = NoMsg
  <2>1. CoreRecord(L, t, n.core, m.core) = L  BY <1>1, <1>3, NoneStarted
  <2>2. QED  BY <1>2, <1>3, <2>1
<1>4. CASE m.core[c] # NoMsg
  <2>1. m.core[c] # n.core[c]  BY <1>2, <1>4
  <2> DEFINE before == n.core
             after == m.core
  <2>2. /\ after[c] # before[c] /\ after[c] # NoMsg
        /\ \A d \in Cores \ {c} : after[d] = before[d] \/ after[d] = NoMsg
        BY <1>1, <1>4, <2>1
  <2> HIDE DEF before, after
  <2>3. CoreRecord(L, t, before, after) = StartRecord(L, t, after[c].pkt)
        BY <2>2, OneStarted
  <2> USE DEF before, after
  <2>4. QED  BY <1>2, <1>4, <2>3
<1>5. QED  BY <1>3, <1>4

\* A packet fits where Processing puts it, its queue or its core.
LEMMA EnqueueKeeps ==
  ASSUME NEW H, NEW L, NEW t \in Int, NEW o \in Nodes, NEW n, NEW m,
         Placed(With(H, o, n), L, t), NodeKept(n), Enqueued(n, m, t)
  PROVE  /\ Placed(With(H, o, m), CoreRecord(L, t, n.core, m.core), t)
         /\ NodeKept(m) /\ m.link = n.link
<1>1. CASE Head(n.proc).rx_queue \notin Cores  BY <1>1, EnqueueElsewhere
<1>2. CASE Head(n.proc).rx_queue \in Cores
  <2> DEFINE c == Head(n.proc).rx_queue
             queue == Append(n.rx[c], Head(n.proc))
  <2>1. c \in Cores /\ n.proc # <<>> /\ m.proc = Tail(n.proc) /\ m.done = n.done
        BY <1>2 DEF Enqueued
  <2>2. SameEnds(n, m) /\ m.link = n.link  BY DEF Enqueued, SameEnds
  <2>3. CASE n.busy[c] /\ m.rx = [n.rx EXCEPT ![c] = queue] /\ m.core = n.core /\ m.busy = n.busy
    <3>1. m.rx[c] = queue /\ DOMAIN m.rx = Cores /\ \A d \in Cores \ {c} : m.rx[d] = n.rx[d]
          BY <2>1, <2>3 DEF NodeKept
    <3>2. \A d \in Cores : m.core[d] = n.core[d]  BY <2>3
    <3>3. Placed(With(H, o, m), L, t)  BY <2>1, <2>2, <3>1, <3>2, EnqueueWaits
    <3>4. CoreRecord(L, t, n.core, m.core) = L  BY <3>2, NoneStarted
    <3>5. NodeKept(m)  BY <2>3, <3>1 DEF NodeKept
    <3>6. QED  BY <2>2, <3>3, <3>4, <3>5
  <2>4. CASE /\ ~n.busy[c]
             /\ m.busy = [n.busy EXCEPT ![c] = TRUE]
             /\ m.rx = [n.rx EXCEPT ![c] = Tail(queue)]
             /\ m.core = [n.core EXCEPT ![c] =
                  [pkt |-> set_processing_done(Head(queue)), at |-> t + Head(queue).instr]]
    <3> DEFINE r == [in |-> n.in, proc |-> m.proc, off |-> n.off, done |-> n.done,
                     queue |-> n.queue, link |-> n.link, core |-> n.core,
                     rx |-> [n.rx EXCEPT ![c] = queue]]
    <3>1. /\ m.rx[c] = Tail(queue) /\ DOMAIN m.rx = Cores
          /\ \A d \in Cores \ {c} : m.rx[d] = n.rx[d]
          BY <2>1, <2>4 DEF NodeKept
    <3>2. /\ m.core[c] = [pkt |-> set_processing_done(Head(queue)), at |-> t + Head(queue).instr]
          /\ DOMAIN m.core = Cores
          /\ \A d \in Cores \ {c} : m.core[d] = n.core[d]
          BY <2>1, <2>4 DEF NodeKept
    <3>3. r.rx[c] = queue /\ \A d \in Cores \ {c} : r.rx[d] = n.rx[d]  BY <2>1 DEF NodeKept
    <3>4. \A d \in Cores : r.core[d] = n.core[d]  OBVIOUS
    <3>5. SameEnds(n, r) /\ r.proc = Tail(n.proc) /\ r.done = n.done  BY <2>1 DEF SameEnds
    <3>6. /\ m.in = r.in /\ m.proc = r.proc /\ m.off = r.off /\ m.done = r.done
          /\ m.queue = r.queue /\ m.link = r.link
          BY <2>1, <2>2 DEF SameEnds
    <3>7. IsSeq(n.rx[c])
      <4>1. NodeHolds(o, n)[at(o, "rx_queue", c)] = n.rx[c]  BY <2>1, NodeAt DEF Nodes
      <4>2. at(o, "rx_queue", c) \in PlacesOf(o)  BY <2>1, SomePlaces DEF Nodes
      <4>3. QED  BY <4>1, <4>2, WithIn DEF Placed
    <3>8. queue # <<>>  BY <3>7, LongerSeq
    <3>9. n.core[c] = NoMsg  BY <2>1, <2>4 DEF NodeKept
    <3>10. NodeKept(m)
      <4>1. n.busy \in [Cores -> BOOLEAN]  BY DEF NodeKept
      <4> HIDE DEF c
      <4>2. m.busy \in [Cores -> BOOLEAN]  BY <2>1, <2>4, <4>1
      <4>3. m.busy[c] = TRUE  BY <2>1, <2>4, <4>1, Zenon
      <4>4. \A d \in Cores \ {c} : m.busy[d] = n.busy[d]  BY <2>1, <2>4, <4>1
      <4>5. QED  BY <3>1, <3>2, <4>2, <4>3, <4>4 DEF NodeKept
    <3> HIDE DEF r
    <3>11. Placed(With(H, o, r), L, t)
           BY <2>1, <3>3, <3>4, <3>5, EnqueueWaits
    <3>12. Starts(r, m, c, t)  BY <3>1, <3>2, <3>3, <3>4, <3>6, <3>8 DEF Starts
    <3>13. Placed(With(H, o, m), CoreRecord(L, t, n.core, m.core), t)
           BY <2>1, <3>4, <3>9, <3>11, <3>12, StartRecorded
    <3>14. QED  BY <2>2, <3>10, <3>13
  <2>5. QED  BY <2>3, <2>4 DEF Enqueued
<1>3. QED  BY <1>1, <1>2

\* A core has processed its packet, and starts with the next one if there is one.
Completed(n, m, i, t) ==
  LET pkt == n.core[i].pkt
      c == pkt.rx_queue
      queue == n.rx[c]
  IN  /\ n.core[i] # NoMsg /\ n.core[i].at = t
      /\ m.done = Append(n.done, delivered(pkt, t)) /\ m.proc = n.proc /\ SameEnds(n, m)
      /\ \/ /\ queue # <<>>
            /\ m.rx = [n.rx EXCEPT ![c] = Tail(queue)]
            /\ m.core = [n.core EXCEPT ![c] =
                 [pkt |-> set_processing_done(Head(queue)), at |-> t + Head(queue).instr]]
            /\ m.busy = n.busy
         \/ /\ queue = <<>>
            /\ m.busy = [n.busy EXCEPT ![c] = FALSE]
            /\ m.core = [n.core EXCEPT ![i] = NoMsg]
            /\ m.rx = n.rx

\* The processed packet leaves its core.
LEMMA ProcessedKeeps ==
  ASSUME NEW H, NEW L, NEW t \in Int, NEW o \in Nodes, NEW n, NEW m, NEW i \in Cores,
         Placed(With(H, o, n), L, t), n.core[i] # NoMsg, n.core[i].at = t,
         m.done = Append(n.done, delivered(n.core[i].pkt, t)), m.proc = n.proc,
         SameEnds(n, m), m.core[i] = NoMsg,
         \A d \in Cores : m.rx[d] = n.rx[d],
         \A d \in Cores \ {i} : m.core[d] = n.core[d]
  PROVE  Placed(With(H, o, m), L, t) /\ n.core[i].pkt.rx_queue = i
<1> DEFINE a == at(o, "core", i)
           b == at(o, "proc_out", 0)
           y == n.core[i]
           s == <<y>>
           x == delivered(y.pkt, t)
<1>1. /\ a \in PlacesOf(o) /\ b \in PlacesOf(o)
      /\ kind(a) = "core" /\ kind(b) = "proc_out" /\ index(a) = i
  <2>1. a \in PlacesOf(o)  BY CoreAt
  <2>2. b \in PlacesOf(o)  BY SomePlaces DEF Nodes
  <2>3. kind(a) = "core" /\ kind(b) = "proc_out" /\ index(a) = i  BY DEF at, kind, index
  <2>4. QED  BY <2>1, <2>2, <2>3
<1>2. NodeHolds(o, n)[a] = s /\ s # <<>> /\ Head(s) = y
  <2>1. NodeHolds(o, n)[at(o, "core", i)] = waiting(n.core[i], NoMsg)  BY CoreAt
  <2>2. QED  BY <2>1 DEF waiting
<1>3. NodeHolds(o, m)[a] = Tail(s)
  <2>1. NodeHolds(o, m)[at(o, "core", i)] = waiting(m.core[i], NoMsg)  BY CoreAt
  <2>2. QED  BY <2>1 DEF waiting
<1>4. NodeHolds(o, m)[b] = Append(NodeHolds(o, n)[b], x)
  <2>1. NodeHolds(o, n)[at(o, "proc_out", 0)] = n.done  BY NodeAt DEF Nodes
  <2>2. NodeHolds(o, m)[at(o, "proc_out", 0)] = m.done  BY NodeAt DEF Nodes
  <2>3. QED  BY <2>1, <2>2
<1>5. Untouched(o, n, m, {a, b})  BY DEF SameEnds, Untouched
<1>6. y.at = t  OBVIOUS
<1> HIDE DEF a, b, s, y
<1>7. Fits(L, a, y, t)  BY <1>1, <1>2, NodeFirst
<1>8. Fits(L, b, x, t) /\ key(b, x) = key(a, y) /\ y.pkt.rx_queue = i
      BY <1>1, <1>6, <1>7, FitsDone
<1>9. a # b  BY <1>1
<1> HIDE DEF x
<1>10. Extends(L, L, key(b, x))  BY ExtendsSame
<1>11. Placed(With(H, o, m), L, t)
       BY <1>1, <1>2, <1>3, <1>4, <1>5, <1>8, <1>9, <1>10, NodeMoved
<1>12. QED  BY <1>8, <1>11 DEF y

\* Both packets fit: the processed one and the one that is started.
LEMMA CompleteKeeps ==
  ASSUME NEW H, NEW L, NEW t \in Int, NEW o \in Nodes, NEW n, NEW m, NEW i \in Cores,
         Placed(With(H, o, n), L, t), NodeKept(n), Completed(n, m, i, t)
  PROVE  /\ Placed(With(H, o, m), CoreRecord(L, t, n.core, m.core), t)
         /\ NodeKept(m) /\ m.link = n.link
<1> DEFINE r == [in |-> n.in, proc |-> n.proc, off |-> n.off, done |-> m.done,
                 queue |-> n.queue, link |-> n.link, rx |-> n.rx,
                 core |-> [n.core EXCEPT ![i] = NoMsg]]
           queue == n.rx[i]
<1>1. /\ n.core[i] # NoMsg /\ n.core[i].at = t /\ m.proc = n.proc /\ SameEnds(n, m)
      /\ m.done = Append(n.done, delivered(n.core[i].pkt, t)) /\ m.link = n.link
      BY DEF Completed, SameEnds
<1>2. r.core[i] = NoMsg /\ \A d \in Cores \ {i} : r.core[d] = n.core[d]  BY DEF NodeKept
<1>3. SameEnds(n, r) /\ r.proc = n.proc /\ r.done = m.done /\ r.rx = n.rx  BY DEF SameEnds
<1>4. /\ m.in = r.in /\ m.proc = r.proc /\ m.off = r.off /\ m.done = r.done
      /\ m.queue = r.queue /\ m.link = r.link
      BY <1>1 DEF SameEnds
<1> HIDE DEF r
<1>5. Placed(With(H, o, r), L, t) /\ n.core[i].pkt.rx_queue = i
      BY <1>1, <1>2, <1>3, ProcessedKeeps
<1>6. CASE /\ queue # <<>>
           /\ m.rx = [n.rx EXCEPT ![i] = Tail(queue)]
           /\ m.core = [n.core EXCEPT ![i] =
                [pkt |-> set_processing_done(Head(queue)), at |-> t + Head(queue).instr]]
           /\ m.busy = n.busy
  <2>1. /\ m.rx[i] = Tail(queue) /\ DOMAIN m.rx = Cores
        /\ \A d \in Cores \ {i} : m.rx[d] = n.rx[d]
        BY <1>6 DEF NodeKept
  <2>2. /\ m.core[i] = [pkt |-> set_processing_done(Head(queue)), at |-> t + Head(queue).instr]
        /\ DOMAIN m.core = Cores
        /\ \A d \in Cores \ {i} : m.core[d] = n.core[d]
        BY <1>6 DEF NodeKept
  <2>3. n.busy[i]  BY <1>1 DEF NodeKept
  <2>4. NodeKept(m)
    <3>1. m.busy \in [Cores -> BOOLEAN]  BY <1>6 DEF NodeKept
    <3>2. ASSUME NEW d \in Cores, ~m.busy[d] PROVE m.core[d] = NoMsg
      <4>1. ~n.busy[d]  BY <1>6, <3>2
      <4>2. n.core[d] = NoMsg  BY <4>1 DEF NodeKept
      <4>3. d # i  BY <2>3, <4>1
      <4>4. QED  BY <2>2, <4>2, <4>3
    <3>3. QED  BY <2>1, <2>2, <3>1, <3>2 DEF NodeKept
  <2>5. Starts(r, m, i, t)  BY <1>2, <1>3, <1>4, <1>6, <2>1, <2>2 DEF Starts
  <2>6. Placed(With(H, o, m), CoreRecord(L, t, n.core, m.core), t)
        BY <1>1, <1>2, <1>5, <2>5, StartRecorded
  <2>7. QED  BY <1>1, <2>4, <2>6
<1>7. CASE /\ queue = <<>>
           /\ m.busy = [n.busy EXCEPT ![i] = FALSE]
           /\ m.core = [n.core EXCEPT ![i] = NoMsg]
           /\ m.rx = n.rx
  <2>1. /\ m.core[i] = NoMsg /\ DOMAIN m.core = Cores
        /\ \A d \in Cores \ {i} : m.core[d] = n.core[d]
        BY <1>7 DEF NodeKept
  <2>2. NodeKept(m)
    <3>1. n.busy \in [Cores -> BOOLEAN]  BY DEF NodeKept
    <3>2. m.busy \in [Cores -> BOOLEAN]  BY <1>7, <3>1
    <3>3. \A d \in Cores \ {i} : m.busy[d] = n.busy[d]  BY <1>7, <3>1
    <3>4. DOMAIN m.rx = Cores  BY <1>7 DEF NodeKept
    <3>5. ASSUME NEW d \in Cores, ~m.busy[d] PROVE m.core[d] = NoMsg
      <4>1. CASE d = i  BY <2>1, <4>1
      <4>2. CASE d # i
        <5>1. ~n.busy[d]  BY <3>3, <3>5, <4>2
        <5>2. n.core[d] = NoMsg  BY <5>1 DEF NodeKept
        <5>3. QED  BY <2>1, <4>2, <5>2
      <4>3. QED  BY <4>1, <4>2
    <3>6. QED  BY <2>1, <3>2, <3>4, <3>5 DEF NodeKept
  <2>3. Placed(With(H, o, m), L, t)  BY <1>1, <1>7, <2>1, ProcessedKeeps
  <2>4. CoreRecord(L, t, n.core, m.core) = L
    <3>1. \A d \in Cores : m.core[d] = n.core[d] \/ m.core[d] = NoMsg  BY <2>1
    <3>2. QED  BY <3>1, NoneStarted
  <2>5. QED  BY <1>1, <2>2, <2>3, <2>4
<1>8. QED  BY <1>5, <1>6, <1>7 DEF Completed

\* A packet is sent on the link of the node.
Sends(n, m, t) ==
  LET y == Head(n.queue)
  IN  /\ n.queue # <<>> /\ m.queue = Tail(n.queue)
      /\ m.link = Append(n.link, [pkt |-> clear(incrm_hop_cnt(y)), at |-> t + NodeTx])

\* The other places of a node.
SameInside(n, m) == m.in = n.in /\ m.proc = n.proc /\ m.rx = n.rx /\ m.core = n.core

\* A packet fits on the link of the node, with what is recorded of it.
LEMMA SendKeeps ==
  ASSUME NEW H, NEW L, NEW t \in Int, NEW o \in Nodes, NEW n, NEW m,
         Placed(With(H, o, n), L, t), Sends(n, m, t), SameInside(n, m),
         m.off = n.off, m.done = n.done
  PROVE  /\ Placed(With(H, o, m), LinkRecord(L, "NODE_BUFFER_OUT", t, n.link, m.link), t)
         /\ m.link # n.link
<1> DEFINE a == at(o, "m_pkt_queue", 0)
           b == at(o, "port_out", 0)
           s == n.queue
           y == Head(s)
           p == clear(incrm_hop_cnt(y))
           x == [pkt |-> p, at |-> t + NodeTx]
           k == <<p.flow, p.id>>
           M == Added(L, k, <<LatencyElement("NODE_BUFFER_OUT", t - p.arrival_time)>>)
<1>1. /\ a \in PlacesOf(o) /\ b \in PlacesOf(o)
      /\ kind(a) = "m_pkt_queue" /\ kind(b) = "port_out"
  <2>1. a \in PlacesOf(o) /\ b \in PlacesOf(o)  BY SomePlaces DEF Nodes
  <2>2. kind(a) = "m_pkt_queue" /\ kind(b) = "port_out"  BY DEF at, kind
  <2>3. QED  BY <2>1, <2>2
<1>2. /\ NodeHolds(o, n)[a] = s /\ NodeHolds(o, m)[a] = m.queue
      /\ NodeHolds(o, n)[b] = n.link /\ NodeHolds(o, m)[b] = m.link
      BY NodeAt DEF Nodes
<1>3. s # <<>> /\ m.queue = Tail(s) /\ m.link = Append(n.link, x)  BY DEF Sends
<1>4. Untouched(o, n, m, {a, b})  BY DEF SameInside, Untouched
<1>5. IsSeq(n.link)  BY <1>1, <1>2, WithIn DEF Placed
<1>6. LinkRecord(L, "NODE_BUFFER_OUT", t, n.link, m.link) = M /\ m.link # n.link
  <2> DEFINE before == n.link
             after == Append(before, x)
             S == {before[i] : i \in DOMAIN before} \cup {x}
  <2>1. before \in Seq(S)  BY <1>5 DEF IsSeq
  <2> HIDE DEF before, S, x
  <2>2. x \in S  BY DEF S
  <2>3. /\ Len(after) = Len(before) + 1 /\ Len(before) \in Nat /\ after[Len(after)] = x
        BY <2>1, <2>2
  <2>4. ~(Len(after) <= Len(before)) /\ Last(after) = x  BY <2>3 DEF Last
  <2>5. x.pkt = p  BY DEF x
  <2> HIDE DEF p, after
  <2>6. LinkRecord(L, "NODE_BUFFER_OUT", t, before, after) = M
        BY <2>4, <2>5 DEF LinkRecord
  <2>7. after # before  BY <2>3
  <2>8. m.link = after /\ n.link = before  BY <1>3 DEF after, before
  <2>9. QED  BY <2>6, <2>7, <2>8
<1> HIDE DEF a, b, s, y
<1>7. Fits(L, a, y, t) /\ y = Head(s)  BY <1>1, <1>2, <1>3, NodeFirst DEF y
<1>8. \A j \in DOMAIN L : L[j] \in Records  BY DEF Placed
<1>9. Fits(M, b, x, t) /\ Extends(L, M, k) /\ key(a, y) = k /\ key(b, x) = k
  <2>1. Fits(L, a, y, t) /\ kind(a) = "m_pkt_queue" /\ kind(b) = "port_out"
        BY <1>1, <1>7
  <2>2. QED  BY ONLY <1>8, <2>1, t \in Int, FitsLeaving, SMTT(30)
<1> HIDE DEF M, k, x, p
<1>10. NodeHolds(o, m)[b] = Append(NodeHolds(o, n)[b], x) /\ a # b  BY <1>1, <1>2, <1>3
<1>11. Placed(With(H, o, m), M, t)
  <2>1. key(b, x) = key(a, Head(s)) /\ Extends(L, M, key(b, x))  BY <1>7, <1>9
  <2>2. a \in PlacesOf(o) /\ b \in PlacesOf(o) /\ a # b  BY <1>1, <1>10
  <2>3. NodeHolds(o, n)[a] = s /\ NodeHolds(o, m)[a] = Tail(s) /\ s # <<>>  BY <1>2, <1>3
  <2>4. Fits(M, b, x, t)  BY <1>9
  <2>5. QED  BY <1>4, <1>10, <2>1, <2>2, <2>3, <2>4, NodeMoved
<1>12. QED  BY <1>6, <1>11

\* The output buffer takes the first of the packets s, processed or offloaded.
Takes(n, m, k, s) ==
  \/ k = "proc_out" /\ s = n.done /\ m.done = Tail(s) /\ m.off = n.off
  \/ k = "offload_out" /\ s = n.off /\ m.off = Tail(s) /\ m.done = n.done

Buffered(n, m, k, s, t) ==
  LET queue == Append(n.queue, Head(s))
  IN  /\ s # <<>> /\ Takes(n, m, k, s) /\ SameInside(n, m) /\ m.busy = n.busy
      /\ \/ m.queue = queue /\ m.link = n.link
         \/ /\ m.queue = Tail(queue)
            /\ m.link = Append(n.link,
                 [pkt |-> clear(incrm_hop_cnt(Head(queue))), at |-> t + NodeTx])

\* A packet fits in the queue of the output buffer.
LEMMA BufferWaits ==
  ASSUME NEW H, NEW L, NEW t \in Int, NEW o \in Nodes, NEW n, NEW m, NEW k, NEW s,
         Placed(With(H, o, n), L, t), s # <<>>, Takes(n, m, k, s), SameInside(n, m),
         m.queue = Append(n.queue, Head(s)), m.link = n.link
  PROVE  Placed(With(H, o, m), L, t) /\ IsSeq(n.queue)
<1> DEFINE a == at(o, k, 0)
           b == at(o, "m_pkt_queue", 0)
           y == Head(s)
<1>1. /\ a \in PlacesOf(o) /\ b \in PlacesOf(o)
      /\ kind(a) \in {"proc_out", "offload_out"} /\ kind(b) = "m_pkt_queue" /\ a # b
  <2>1. b \in PlacesOf(o)  BY SomePlaces DEF Nodes
  <2>2. a \in PlacesOf(o)  BY SomePlaces DEF Nodes, Takes
  <2>3. kind(a) \in {"proc_out", "offload_out"} /\ kind(b) = "m_pkt_queue"
        BY DEF at, kind, Takes
  <2>4. a # b  BY <2>3
  <2>5. QED  BY <2>1, <2>2, <2>3, <2>4
<1>2. NodeHolds(o, n)[a] = s /\ NodeHolds(o, m)[a] = Tail(s)
  <2>1. CASE k = "proc_out"
    <3>1. /\ NodeHolds(o, n)[at(o, "proc_out", 0)] = n.done
          /\ NodeHolds(o, m)[at(o, "proc_out", 0)] = m.done
          BY NodeAt DEF Nodes
    <3>2. QED  BY <2>1, <3>1 DEF Takes
  <2>2. CASE k = "offload_out"
    <3>1. /\ NodeHolds(o, n)[at(o, "offload_out", 0)] = n.off
          /\ NodeHolds(o, m)[at(o, "offload_out", 0)] = m.off
          BY NodeAt DEF Nodes
    <3>2. QED  BY <2>2, <3>1 DEF Takes
  <2>3. QED  BY <2>1, <2>2 DEF Takes
<1>3. /\ NodeHolds(o, n)[b] = n.queue
      /\ NodeHolds(o, m)[b] = Append(NodeHolds(o, n)[b], y)
  <2>1. NodeHolds(o, n)[b] = n.queue /\ NodeHolds(o, m)[b] = m.queue  BY NodeAt DEF Nodes
  <2>2. QED  BY <2>1
<1>4. Untouched(o, n, m, {a, b})  BY DEF SameInside, Takes, Untouched
<1> HIDE DEF a, b
<1>5. Fits(L, a, y, t)  BY <1>1, <1>2, NodeFirst
<1>6. Fits(L, b, y, t) /\ key(b, y) = key(a, y)
  <2>1. \/ kind(a) = "out_proc" /\ kind(b) = "rx_queue" /\ y.rx_queue = index(b)
        \/ kind(a) \in {"proc_out", "offload_out"} /\ kind(b) = "m_pkt_queue"
        BY <1>1
  <2>2. QED  BY ONLY <1>5, <2>1, t \in Int, FitsWaits
<1>7. Extends(L, L, key(b, y))  BY ExtendsSame
<1>8. Placed(With(H, o, m), L, t)
      BY <1>1, <1>2, <1>3, <1>4, <1>6, <1>7, NodeMoved
<1>9. IsSeq(n.queue)
  <2>1. b \in Places /\ With(H, o, n)[b] = n.queue  BY <1>1, <1>3, WithIn
  <2>2. QED  BY <2>1 DEF Placed
<1>10. QED  BY <1>8, <1>9

\* What a step of a node records.
WorkRecord(L, t, n, m) ==
  IF m.link = n.link THEN CoreRecord(L, t, n.core, m.core)
  ELSE LinkRecord(L, "NODE_BUFFER_OUT", t, n.link, m.link)

\* Nothing is recorded if nothing is started and nothing is sent.
LEMMA SameCores ==
  ASSUME NEW L, NEW t, NEW n, NEW m, m.core = n.core, m.link = n.link
  PROVE  WorkRecord(L, t, n, m) = L
<1>1. CoreRecord(L, t, n.core, m.core) = L  BY NoneStarted
<1>2. QED  BY <1>1 DEF WorkRecord

\* The packet fits in the output buffer or, sent at once, on the link.
LEMMA BufferKeeps ==
  ASSUME NEW H, NEW L, NEW t \in Int, NEW o \in Nodes, NEW n, NEW m, NEW k, NEW s,
         Placed(With(H, o, n), L, t), Buffered(n, m, k, s, t)
  PROVE  Placed(With(H, o, m), WorkRecord(L, t, n, m), t)
<1> DEFINE queue == Append(n.queue, Head(s))
           r == [in |-> n.in, proc |-> n.proc, off |-> m.off, done |-> m.done,
                 queue |-> queue, link |-> n.link, rx |-> n.rx, core |-> n.core]
<1>1. s # <<>> /\ Takes(n, m, k, s) /\ SameInside(n, m)  BY DEF Buffered
<1>2. CASE m.queue = queue /\ m.link = n.link
  <2>1. Placed(With(H, o, m), L, t)  BY <1>1, <1>2, BufferWaits
  <2>2. m.core = n.core  BY <1>1 DEF SameInside
  <2>3. WorkRecord(L, t, n, m) = L  BY <1>2, <2>2, SameCores
  <2>4. QED  BY <2>1, <2>3
<1>3. CASE /\ m.queue = Tail(queue)
           /\ m.link = Append(n.link,
                [pkt |-> clear(incrm_hop_cnt(Head(queue))), at |-> t + NodeTx])
  <2>1. /\ Takes(n, r, k, s) /\ SameInside(n, r) /\ r.queue = Append(n.queue, Head(s))
        /\ r.link = n.link
        BY <1>1 DEF Takes, SameInside
  <2>2. r.queue = queue /\ m.off = r.off /\ m.done = r.done /\ SameInside(r, m)
        BY <1>1 DEF SameInside
  <2> HIDE DEF r
  <2>3. Placed(With(H, o, r), L, t) /\ IsSeq(n.queue)  BY <1>1, <2>1, BufferWaits
  <2>4. queue # <<>>  BY <2>3, LongerSeq
  <2>5. Sends(r, m, t)  BY <1>3, <2>1, <2>2, <2>4 DEF Sends
  <2>6. /\ Placed(With(H, o, m), LinkRecord(L, "NODE_BUFFER_OUT", t, r.link, m.link), t)
        /\ m.link # r.link
        BY <2>2, <2>3, <2>5, SendKeeps
  <2>7. QED  BY <2>1, <2>6 DEF WorkRecord
<1>4. QED  BY <1>2, <1>3 DEF Buffered

\* A step of a node.
Learned(n, m) ==
  /\ m.in = n.in /\ m.proc = n.proc /\ m.off = n.off /\ m.done = n.done /\ m.queue = n.queue
  /\ m.link = n.link /\ m.rx = n.rx /\ m.core = n.core /\ m.busy = n.busy

Sent(n, m, t) ==
  \/ Learned(n, m)
  \/ Sends(n, m, t) /\ SameInside(n, m) /\ m.off = n.off /\ m.done = n.done /\ m.busy = n.busy

Works(n, m, t) ==
  \/ Dispatched(n, m, t)
  \/ Enqueued(n, m, t)
  \/ \E i \in Cores : Completed(n, m, i, t)
  \/ \E k, s : Buffered(n, m, k, s, t)
  \/ Sent(n, m, t)

\* Whatever a node does, its packets fit where it puts them.
LEMMA WorkKeeps ==
  ASSUME NEW H, NEW L, NEW t \in Int, NEW o \in Nodes, NEW n, NEW m,
         Placed(With(H, o, n), L, t), NodeKept(n), Works(n, m, t)
  PROVE  Placed(With(H, o, m), WorkRecord(L, t, n, m), t) /\ NodeKept(m)
<1>1. CASE Dispatched(n, m, t)
  <2>1. Placed(With(H, o, m), L, t)  BY <1>1, DispatchKeeps
  <2>2. m.core = n.core /\ m.link = n.link /\ m.busy = n.busy /\ m.rx = n.rx
        BY <1>1 DEF Dispatched
  <2>3. WorkRecord(L, t, n, m) = L  BY <2>2, SameCores
  <2>4. NodeKept(m)  BY <2>2 DEF NodeKept
  <2>5. QED  BY <2>1, <2>3, <2>4
<1>2. CASE Enqueued(n, m, t)
  <2>1. /\ Placed(With(H, o, m), CoreRecord(L, t, n.core, m.core), t)
        /\ NodeKept(m) /\ m.link = n.link
        BY <1>2, EnqueueKeeps
  <2>2. QED  BY <2>1 DEF WorkRecord
<1>3. CASE \E i \in Cores : Completed(n, m, i, t)
  <2>1. PICK i \in Cores : Completed(n, m, i, t)  BY <1>3
  <2>2. /\ Placed(With(H, o, m), CoreRecord(L, t, n.core, m.core), t)
        /\ NodeKept(m) /\ m.link = n.link
        BY <2>1, CompleteKeeps
  <2>3. QED  BY <2>2 DEF WorkRecord
<1>4. CASE \E k, s : Buffered(n, m, k, s, t)
  <2>1. PICK k, s : Buffered(n, m, k, s, t)  BY <1>4
  <2>2. Placed(With(H, o, m), WorkRecord(L, t, n, m), t)  BY <2>1, BufferKeeps
  <2>3. m.core = n.core /\ m.busy = n.busy /\ m.rx = n.rx  BY <2>1 DEF Buffered, SameInside
  <2>4. NodeKept(m)  BY <2>3 DEF NodeKept
  <2>5. QED  BY <2>2, <2>4
<1>5. CASE Learned(n, m)
  <2>1. WorkRecord(L, t, n, m) = L  BY <1>5, SameCores DEF Learned
  <2>2. NodeKept(m)  BY <1>5 DEF NodeKept, Learned
  <2>3. NodeHolds(o, m) = NodeHolds(o, n)  BY <1>5 DEF NodeHolds, Learned
  <2>4. With(H, o, m) = With(H, o, n)  BY <2>3 DEF With
  <2>5. QED  BY <2>1, <2>2, <2>4
<1>6. CASE /\ Sends(n, m, t) /\ SameInside(n, m) /\ m.off = n.off /\ m.done = n.done
           /\ m.busy = n.busy
  <2>1. /\ Placed(With(H, o, m), LinkRecord(L, "NODE_BUFFER_OUT", t, n.link, m.link), t)
        /\ m.link # n.link
        BY <1>6, SendKeeps
  <2>2. NodeKept(m)  BY <1>6 DEF NodeKept, SameInside
  <2>3. QED  BY <2>1, <2>2 DEF WorkRecord
<1>7. QED  BY <1>1, <1>2, <1>3, <1>4, <1>5, <1>6 DEF Works, Sent

-----------------------------------------------------------------------------
(* The handlers of a node do such steps.                                   *)

\* The steps of a node, and what they do with its hash table.
LEMMA DispatchHolds ==
  ASSUME Dispatch, TableKept(m_hashtable), Head(offload_in).flow \in Flows
  PROVE  Dispatched(This, This', now) /\ TableKept(m_hashtable')
<1> DEFINE pkt == Head(offload_in)
           e == entry(pkt)
           new == updated(pkt)
<1>1. /\ offload_in # <<>> /\ offload_in' = Tail(offload_in) /\ handle_pkt(pkt)
      /\ UNCHANGED <<coreVars, proc_out, outVars>>
      BY DEF Dispatch, OffloadHandlePkt
<1>2. /\ UNCHANGED <<rx_queue, busy, msg_proc_done, proc_out, m_pkt_queue, port_out>>
      BY <1>1 DEF coreVars, outVars
<1>3. e \in Entries
  <2>1. Toeplitz[pkt.flow] \in Nat  BY HashAssumption
  <2>2. QED  BY <2>1, TableAssumption DEF entry, Entries
<1>4. new.offload => EnableOffload
  <2>1. CASE expired(e)  BY <2>1 DEF updated
  <2>2. CASE ~expired(e)
    <3>1. m_hashtable[e].valid  BY <2>2 DEF expired
    <3>2. new.offload = m_hashtable[e].offload  BY <2>2 DEF updated
    <3>3. QED  BY <1>3, <3>1, <3>2 DEF TableKept
  <2>3. QED  BY <2>1, <2>2
<1>5. send_pkt_offload(pkt) =>
        /\ offload_out' = Append(offload_out, delivered(pkt, now)) /\ out_proc' = out_proc
      BY DEF send_pkt_offload
<1>6. \A q : send_pkt_local(pkt, q) =>
        /\ out_proc' = Append(out_proc, delivered(set_rx_queue(pkt, q), now))
        /\ offload_out' = offload_out
      BY DEF send_pkt_local
<1>7. (m_hashtable' = [m_hashtable EXCEPT ![e] = new]) => TableKept(m_hashtable')
  <2> HAVE m_hashtable' = [m_hashtable EXCEPT ![e] = new]
  <2>1. /\ DOMAIN m_hashtable' = Entries
        /\ \A d \in Entries \ {e} : m_hashtable'[d] = m_hashtable[d]
        BY DEF TableKept
  <2>2. m_hashtable'[e] = new  BY <1>3 DEF TableKept
  <2>3. QED  BY <1>4, <2>1, <2>2 DEF TableKept
<1>8. Enabled \/ m_hashtable' = m_hashtable  BY <1>1 DEF handle_pkt
<1>9. TableKept(m_hashtable')
  <2>1. CASE m_hashtable' = m_hashtable  BY <2>1
  <2>2. CASE m_hashtable' # m_hashtable
    <3>1. m_hashtable' = [m_hashtable EXCEPT ![e] = new]  BY <1>1, <2>2 DEF handle_pkt
    <3>2. QED  BY <1>7, <3>1
  <2>3. QED  BY <2>1, <2>2
<1>10. \/ \E q : send_pkt_local(pkt, q)
       \/ send_pkt_offload(pkt) /\ new.offload /\ ~force_local(pkt)
       BY <1>1 DEF handle_pkt
<1>11. new.offload /\ ~force_local(pkt) => pkt.hop_cnt # MaxHopCnt - 1 /\ EnableOffload
       BY <1>4 DEF force_local
<1>12. \/ /\ \E q : out_proc' = Append(out_proc, delivered(set_rx_queue(pkt, q), now))
          /\ offload_out' = offload_out
       \/ /\ pkt.hop_cnt # MaxHopCnt - 1 /\ EnableOffload
          /\ offload_out' = Append(offload_out, delivered(pkt, now))
          /\ out_proc' = out_proc
       BY <1>5, <1>6, <1>10, <1>11
<1>13. Dispatched(This, This', now)  BY <1>1, <1>2, <1>12 DEF Dispatched, This
<1>14. QED  BY <1>9, <1>13

\* Enqueue, in terms of the places of the node.
LEMMA EnqueueHolds ==
  ASSUME Enqueue
  PROVE  Enqueued(This, This', now) /\ UNCHANGED m_hashtable
<1> DEFINE y == Head(out_proc)
           c == y.rx_queue
           queue == Append(rx_queue[c], y)
<1>1. /\ out_proc # <<>> /\ out_proc' = Tail(out_proc)
      /\ UNCHANGED <<proc_out, offload_in, offload_out, m_pkt_queue, port_out, m_hashtable>>
      BY DEF Enqueue, HandlePacket, outVars, tableVars
<1>2. \/ /\ busy[c] /\ rx_queue' = [rx_queue EXCEPT ![c] = queue]
         /\ UNCHANGED <<busy, msg_proc_done>>
      \/ /\ ~busy[c] /\ busy' = [busy EXCEPT ![c] = TRUE]
         /\ rx_queue' = [rx_queue EXCEPT ![c] = Tail(queue)]
         /\ msg_proc_done' = [msg_proc_done EXCEPT ![c] =
              [pkt |-> set_processing_done(Head(queue)), at |-> now + Head(queue).instr]]
      BY DEF Enqueue, HandlePacket, set_busy, process_packet
<1>3. QED  BY <1>1, <1>2 DEF Enqueued, SameEnds, This

\* Complete, in the same terms.
LEMMA CompleteHolds ==
  ASSUME NEW i \in Cores, Complete(i)
  PROVE  Completed(This, This', i, now) /\ UNCHANGED m_hashtable
<1> DEFINE pkt == msg_proc_done[i].pkt
           c == pkt.rx_queue
           queue == rx_queue[c]
<1>1. /\ msg_proc_done[i] # NoMsg /\ msg_proc_done[i].at = now
      /\ proc_out' = Append(proc_out, delivered(pkt, now))
      /\ UNCHANGED <<out_proc, offload_in, offload_out, m_pkt_queue, port_out, m_hashtable>>
      BY DEF Complete, HandleProcDone, outVars, tableVars
<1>2. \/ /\ queue # <<>> /\ rx_queue' = [rx_queue EXCEPT ![c] = Tail(queue)]
         /\ msg_proc_done' = [msg_proc_done EXCEPT ![c] =
              [pkt |-> set_processing_done(Head(queue)), at |-> now + Head(queue).instr]]
         /\ busy' = busy
      \/ /\ queue = <<>> /\ busy' = [busy EXCEPT ![c] = FALSE]
         /\ msg_proc_done' = [msg_proc_done EXCEPT ![i] = NoMsg]
         /\ rx_queue' = rx_queue
      BY DEF Complete, HandleProcDone, set_busy, process_packet
<1>3. QED  BY <1>1, <1>2 DEF Completed, SameEnds, This

\* What the output buffer does with a packet.
LEMMA OutputHolds ==
  ASSUME NEW pkt, OutHandlePacket(pkt)
  PROVE  LET queue == Append(m_pkt_queue, pkt)
         IN  \/ m_pkt_queue' = queue /\ port_out' = port_out
             \/ /\ m_pkt_queue' = Tail(queue)
                /\ port_out' = Append(port_out,
                     [pkt |-> clear(incrm_hop_cnt(Head(queue))), at |-> now + NodeTx])
<1> DEFINE queue == Append(m_pkt_queue, pkt)
<1>1. CASE m_pkt_queue' = queue /\ port_out' = port_out  BY <1>1
<1>2. CASE send_packet(queue)
  <2>1. \A tx \in TxTimes : tx = NodeTx  BY NodeTxAssumption
  <2> HIDE DEF queue
  <2>2. QED  BY <1>2, <2>1 DEF send_packet, queue
<1>3. QED  BY <1>1, <1>2 DEF OutHandlePacket

\* OutputProcessed, in the same terms.
LEMMA OutputProcessedHolds ==
  ASSUME OutputProcessed
  PROVE  Buffered(This, This', "proc_out", proc_out, now) /\ UNCHANGED m_hashtable
<1> DEFINE pkt == Head(proc_out)
           queue == Append(m_pkt_queue, pkt)
<1>1. /\ proc_out # <<>> /\ proc_out' = Tail(proc_out) /\ OutHandlePacket(pkt)
      /\ UNCHANGED <<out_proc, rx_queue, busy, msg_proc_done, offload_in, offload_out,
                     m_hashtable>>
      BY DEF OutputProcessed, TakeProcessed, coreVars, tableVars
<1>2. \/ m_pkt_queue' = queue /\ port_out' = port_out
      \/ /\ m_pkt_queue' = Tail(queue)
         /\ port_out' = Append(port_out,
              [pkt |-> clear(incrm_hop_cnt(Head(queue))), at |-> now + NodeTx])
      BY <1>1, OutputHolds
<1>3. QED  BY <1>1, <1>2 DEF Buffered, Takes, SameInside, This

\* OutputOffloaded, in the same terms.
LEMMA OutputOffloadedHolds ==
  ASSUME OutputOffloaded
  PROVE  Buffered(This, This', "offload_out", offload_out, now) /\ UNCHANGED m_hashtable
<1> DEFINE pkt == Head(offload_out)
           queue == Append(m_pkt_queue, pkt)
<1>1. /\ offload_out # <<>> /\ offload_out' = Tail(offload_out) /\ OutHandlePacket(pkt)
      /\ UNCHANGED <<out_proc, rx_queue, busy, msg_proc_done, offload_in, proc_out,
                     m_hashtable>>
      BY DEF OutputOffloaded, TakeOffloaded, coreVars, tableVars
<1>2. \/ m_pkt_queue' = queue /\ port_out' = port_out
      \/ /\ m_pkt_queue' = Tail(queue)
         /\ port_out' = Append(port_out,
              [pkt |-> clear(incrm_hop_cnt(Head(queue))), at |-> now + NodeTx])
      BY <1>1, OutputHolds
<1>3. QED  BY <1>1, <1>2 DEF Buffered, Takes, SameInside, This

\* LearnOverload moves no packet.
LEMMA LearnOverloadHolds ==
  ASSUME LearnOverload
  PROVE  Sent(This, This', now) /\ UNCHANGED m_hashtable
BY DEF LearnOverload, OffloadHandleTrigger, coreVars, outVars, Sent, Learned, This

\* OutputNext, in the same terms.
LEMMA OutputNextHolds ==
  ASSUME OutputNext
  PROVE  Sent(This, This', now) /\ UNCHANGED m_hashtable
<1>1. UNCHANGED <<out_proc, rx_queue, busy, msg_proc_done, proc_out, offload_in, offload_out,
                  m_hashtable>>
      BY DEF OutputNext, procVars, coreVars, tableVars
<1>2. CASE m_pkt_queue' = m_pkt_queue /\ port_out' = port_out
      BY <1>1, <1>2 DEF Sent, Learned, This
<1>3. CASE m_pkt_queue # <<>> /\ send_packet(m_pkt_queue)
  <2>1. \A tx \in TxTimes : tx = NodeTx  BY NodeTxAssumption
  <2>2. /\ m_pkt_queue' = Tail(m_pkt_queue)
        /\ port_out' = Append(port_out,
             [pkt |-> clear(incrm_hop_cnt(Head(m_pkt_queue))), at |-> now + NodeTx])
        BY <1>3, <2>1 DEF send_packet
  <2>3. QED  BY <1>1, <1>3, <2>2 DEF Sent, Sends, SameInside, This
<1>4. QED  BY <1>2, <1>3 DEF OutputNext, OutHandleSelf

\* What a step of the node that NodeWorks describes does.
LEMMA NodeWorksHolds ==
  ASSUME NodeWorks, TableKept(m_hashtable),
         offload_in # <<>> => Head(offload_in).flow \in Flows
  PROVE  /\ Works(This, This', now) /\ TableKept(m_hashtable')
         /\ m_latency' = WorkRecord(m_latency, now, This, This')
         /\ now' = now /\ UNCHANGED <<otherVars, switchVars, genVars, sinkVars>>
<1>1. Works(This, This', now) /\ TableKept(m_hashtable')
  <2>1. CASE Dispatch
    <3>1. offload_in # <<>>  BY <2>1 DEF Dispatch, OffloadHandlePkt
    <3>2. QED  BY <2>1, <3>1, DispatchHolds DEF Works
  <2>2. CASE LearnOverload  BY <2>2, LearnOverloadHolds DEF Works
  <2>3. CASE OutputProcessed  BY <2>3, OutputProcessedHolds DEF Works
  <2>4. CASE OutputOffloaded  BY <2>4, OutputOffloadedHolds DEF Works
  <2>5. CASE OutputNext  BY <2>5, OutputNextHolds DEF Works
  <2>6. CASE Enqueue  BY <2>6, EnqueueHolds DEF Works
  <2>7. CASE \E i \in Cores : Complete(i)
    <3>1. PICK i \in Cores : Complete(i)  BY <2>7
    <3>2. Completed(This, This', i, now) /\ UNCHANGED m_hashtable  BY <3>1, CompleteHolds
    <3>3. QED  BY <3>2 DEF Works
  <2>8. QED  BY <2>1, <2>2, <2>3, <2>4, <2>5, <2>6, <2>7 DEF NodeWorks
<1>2. m_latency' = WorkRecord(m_latency, now, This, This')
      BY DEF NodeWorks, WorkRecord, CoreRecord, LinkRecord, Added, This, recorded_by_core,
             recorded_by_link, add_elements
<1>3. now' = now /\ UNCHANGED <<otherVars, switchVars, genVars, sinkVars>>
      BY DEF NodeWorks, otherVars
<1>4. QED  BY <1>1, <1>2, <1>3

\* The steps of a node, and what they do with its hash table.
LEMMA ThatDispatchHolds ==
  ASSUME Other!Dispatch, TableKept(m_hashtable_1), Head(offload_in_1).flow \in Flows
  PROVE  Dispatched(That, That', now) /\ TableKept(m_hashtable_1')
<1> DEFINE pkt == Head(offload_in_1)
           e == Other!entry(pkt)
           new == Other!updated(pkt)
<1>1. /\ offload_in_1 # <<>> /\ offload_in_1' = Tail(offload_in_1) /\ Other!handle_pkt(pkt)
      /\ UNCHANGED <<Other!coreVars, proc_out_1, Other!outVars>>
      BY DEF Other!Dispatch, Other!OffloadHandlePkt
<1>2. /\ UNCHANGED <<rx_queue_1, busy_1, msg_proc_done_1, proc_out_1, m_pkt_queue_1, port_out_1>>
      BY <1>1 DEF Other!coreVars, Other!outVars
<1>3. e \in Entries
  <2>1. Toeplitz[pkt.flow] \in Nat  BY HashAssumption
  <2>2. QED  BY <2>1, TableAssumption DEF Other!entry, Entries
<1>4. new.offload => EnableOffload
  <2>1. CASE Other!expired(e)  BY <2>1 DEF Other!updated
  <2>2. CASE ~Other!expired(e)
    <3>1. m_hashtable_1[e].valid  BY <2>2 DEF Other!expired
    <3>2. new.offload = m_hashtable_1[e].offload  BY <2>2 DEF Other!updated
    <3>3. QED  BY <1>3, <3>1, <3>2 DEF TableKept
  <2>3. QED  BY <2>1, <2>2
<1>5. Other!send_pkt_offload(pkt) =>
        /\ offload_out_1' = Append(offload_out_1, delivered(pkt, now)) /\ out_proc_1' = out_proc_1
      BY DEF Other!send_pkt_offload, Other!delivered, delivered
<1>6. \A q : Other!send_pkt_local(pkt, q) =>
        /\ out_proc_1' = Append(out_proc_1, delivered(set_rx_queue(pkt, q), now))
        /\ offload_out_1' = offload_out_1
      BY DEF Other!send_pkt_local, Other!delivered, delivered, Other!set_rx_queue, set_rx_queue
<1>7. (m_hashtable_1' = [m_hashtable_1 EXCEPT ![e] = new]) => TableKept(m_hashtable_1')
  <2> HAVE m_hashtable_1' = [m_hashtable_1 EXCEPT ![e] = new]
  <2>1. /\ DOMAIN m_hashtable_1' = Entries
        /\ \A d \in Entries \ {e} : m_hashtable_1'[d] = m_hashtable_1[d]
        BY DEF TableKept
  <2>2. m_hashtable_1'[e] = new  BY <1>3 DEF TableKept
  <2>3. QED  BY <1>4, <2>1, <2>2 DEF TableKept
<1>8. Enabled \/ m_hashtable_1' = m_hashtable_1
      BY <1>1 DEF Other!handle_pkt, Other!Enabled, Enabled
<1>9. TableKept(m_hashtable_1')
  <2>1. CASE m_hashtable_1' = m_hashtable_1  BY <2>1
  <2>2. CASE m_hashtable_1' # m_hashtable_1
    <3>1. m_hashtable_1' = [m_hashtable_1 EXCEPT ![e] = new]  BY <1>1, <2>2 DEF Other!handle_pkt
    <3>2. QED  BY <1>7, <3>1
  <2>3. QED  BY <2>1, <2>2
<1>10. \/ \E q : Other!send_pkt_local(pkt, q)
       \/ Other!send_pkt_offload(pkt) /\ new.offload /\ ~Other!force_local(pkt)
       BY <1>1 DEF Other!handle_pkt
<1>11. new.offload /\ ~Other!force_local(pkt) => pkt.hop_cnt # MaxHopCnt - 1 /\ EnableOffload
       BY <1>4 DEF Other!force_local
<1>12. \/ /\ \E q : out_proc_1' = Append(out_proc_1, delivered(set_rx_queue(pkt, q), now))
          /\ offload_out_1' = offload_out_1
       \/ /\ pkt.hop_cnt # MaxHopCnt - 1 /\ EnableOffload
          /\ offload_out_1' = Append(offload_out_1, delivered(pkt, now))
          /\ out_proc_1' = out_proc_1
       BY <1>5, <1>6, <1>10, <1>11
<1>13. Dispatched(That, That', now)  BY <1>1, <1>2, <1>12 DEF Dispatched, That
<1>14. QED  BY <1>9, <1>13

\* Enqueue of the other node.
LEMMA ThatEnqueueHolds ==
  ASSUME Other!Enqueue
  PROVE  Enqueued(That, That', now) /\ UNCHANGED m_hashtable_1
<1> DEFINE y == Head(out_proc_1)
           c == y.rx_queue
           queue == Append(rx_queue_1[c], y)
<1>1. /\ out_proc_1 # <<>> /\ out_proc_1' = Tail(out_proc_1)
     
      /\ UNCHANGED <<proc_out_1, offload_in_1, offload_out_1, m_pkt_queue_1, port_out_1,
                     m_hashtable_1>>
      BY DEF Other!Enqueue, Other!HandlePacket, Other!outVars, Other!tableVars
<1>2. \/ /\ busy_1[c] /\ rx_queue_1' = [rx_queue_1 EXCEPT ![c] = queue]
         /\ UNCHANGED <<busy_1, msg_proc_done_1>>
      \/ /\ ~busy_1[c] /\ busy_1' = [busy_1 EXCEPT ![c] = TRUE]
         /\ rx_queue_1' = [rx_queue_1 EXCEPT ![c] = Tail(queue)]
         /\ msg_proc_done_1' = [msg_proc_done_1 EXCEPT ![c] =
              [pkt |-> set_processing_done(Head(queue)), at |-> now + Head(queue).instr]]
      BY DEF Other!Enqueue, Other!HandlePacket, Other!set_busy, Other!process_packet,
             Other!set_processing_done, set_processing_done
<1>3. QED  BY <1>1, <1>2 DEF Enqueued, SameEnds, That

\* Complete of the other node.
LEMMA ThatCompleteHolds ==
  ASSUME NEW i \in Cores, Other!Complete(i)
  PROVE  Completed(That, That', i, now) /\ UNCHANGED m_hashtable_1
<1> DEFINE pkt == msg_proc_done_1[i].pkt
           c == pkt.rx_queue
           queue == rx_queue_1[c]
<1>1. /\ msg_proc_done_1[i] # NoMsg /\ msg_proc_done_1[i].at = now
      /\ proc_out_1' = Append(proc_out_1, delivered(pkt, now))
     
      /\ UNCHANGED <<out_proc_1, offload_in_1, offload_out_1, m_pkt_queue_1, port_out_1,
                     m_hashtable_1>>
      BY DEF Other!Complete, Other!HandleProcDone, Other!outVars, Other!tableVars,
             Other!delivered, delivered
<1>2. \/ /\ queue # <<>> /\ rx_queue_1' = [rx_queue_1 EXCEPT ![c] = Tail(queue)]
         /\ msg_proc_done_1' = [msg_proc_done_1 EXCEPT ![c] =
              [pkt |-> set_processing_done(Head(queue)), at |-> now + Head(queue).instr]]
         /\ busy_1' = busy_1
      \/ /\ queue = <<>> /\ busy_1' = [busy_1 EXCEPT ![c] = FALSE]
         /\ msg_proc_done_1' = [msg_proc_done_1 EXCEPT ![i] = NoMsg]
         /\ rx_queue_1' = rx_queue_1
      BY DEF Other!Complete, Other!HandleProcDone, Other!set_busy, Other!process_packet,
             Other!set_processing_done, set_processing_done
<1>3. QED  BY <1>1, <1>2 DEF Completed, SameEnds, That

\* What the output buffer does with a packet.
LEMMA ThatOutputHolds ==
  ASSUME NEW pkt, Other!OutHandlePacket(pkt)
  PROVE  LET queue == Append(m_pkt_queue_1, pkt)
         IN  \/ m_pkt_queue_1' = queue /\ port_out_1' = port_out_1
             \/ /\ m_pkt_queue_1' = Tail(queue)
                /\ port_out_1' = Append(port_out_1,
                     [pkt |-> clear(incrm_hop_cnt(Head(queue))), at |-> now + NodeTx])
<1> DEFINE queue == Append(m_pkt_queue_1, pkt)
<1>1. CASE m_pkt_queue_1' = queue /\ port_out_1' = port_out_1  BY <1>1
<1>2. CASE Other!send_packet(queue)
  <2>1. \A tx \in TxTimes : tx = NodeTx  BY NodeTxAssumption
  <2> HIDE DEF queue
  <2>2. QED  BY <1>2, <2>1 DEF Other!send_packet, queue, Other!clear, clear, Other!Unset, Unset,
             Other!incrm_hop_cnt, incrm_hop_cnt
<1>3. QED  BY <1>1, <1>2 DEF Other!OutHandlePacket

\* OutputProcessed of the other node.
LEMMA ThatOutputProcessedHolds ==
  ASSUME Other!OutputProcessed
  PROVE  Buffered(That, That', "proc_out", proc_out_1, now) /\ UNCHANGED m_hashtable_1
<1> DEFINE pkt == Head(proc_out_1)
           queue == Append(m_pkt_queue_1, pkt)
<1>1. /\ proc_out_1 # <<>> /\ proc_out_1' = Tail(proc_out_1) /\ Other!OutHandlePacket(pkt)
      /\ UNCHANGED <<out_proc_1, rx_queue_1, busy_1, msg_proc_done_1, offload_in_1, offload_out_1,
                     m_hashtable_1>>
      BY DEF Other!OutputProcessed, Other!TakeProcessed, Other!coreVars, Other!tableVars
<1>2. \/ m_pkt_queue_1' = queue /\ port_out_1' = port_out_1
      \/ /\ m_pkt_queue_1' = Tail(queue)
         /\ port_out_1' = Append(port_out_1,
              [pkt |-> clear(incrm_hop_cnt(Head(queue))), at |-> now + NodeTx])
      BY <1>1, ThatOutputHolds
<1>3. QED  BY <1>1, <1>2 DEF Buffered, Takes, SameInside, That

\* OutputOffloaded of the other node.
LEMMA ThatOutputOffloadedHolds ==
  ASSUME Other!OutputOffloaded
  PROVE  Buffered(That, That', "offload_out", offload_out_1, now) /\ UNCHANGED m_hashtable_1
<1> DEFINE pkt == Head(offload_out_1)
           queue == Append(m_pkt_queue_1, pkt)
<1>1. /\ offload_out_1 # <<>> /\ offload_out_1' = Tail(offload_out_1) /\ Other!OutHandlePacket(pkt)
      /\ UNCHANGED <<out_proc_1, rx_queue_1, busy_1, msg_proc_done_1, offload_in_1, proc_out_1,
                     m_hashtable_1>>
      BY DEF Other!OutputOffloaded, Other!TakeOffloaded, Other!coreVars, Other!tableVars
<1>2. \/ m_pkt_queue_1' = queue /\ port_out_1' = port_out_1
      \/ /\ m_pkt_queue_1' = Tail(queue)
         /\ port_out_1' = Append(port_out_1,
              [pkt |-> clear(incrm_hop_cnt(Head(queue))), at |-> now + NodeTx])
      BY <1>1, ThatOutputHolds
<1>3. QED  BY <1>1, <1>2 DEF Buffered, Takes, SameInside, That

\* LearnOverload of the other node.
LEMMA ThatLearnOverloadHolds ==
  ASSUME Other!LearnOverload
  PROVE  Sent(That, That', now) /\ UNCHANGED m_hashtable_1
BY DEF Other!LearnOverload, Other!OffloadHandleTrigger, Other!coreVars, Other!outVars, Sent,
       Learned, That

\* OutputNext of the other node.
LEMMA ThatOutputNextHolds ==
  ASSUME Other!OutputNext
  PROVE  Sent(That, That', now) /\ UNCHANGED m_hashtable_1
<1>1. UNCHANGED <<out_proc_1, rx_queue_1, busy_1, msg_proc_done_1, proc_out_1, offload_in_1,
                  offload_out_1, m_hashtable_1>>
      BY DEF Other!OutputNext, Other!procVars, Other!coreVars, Other!tableVars
<1>2. CASE m_pkt_queue_1' = m_pkt_queue_1 /\ port_out_1' = port_out_1
      BY <1>1, <1>2 DEF Sent, Learned, That
<1>3. CASE m_pkt_queue_1 # <<>> /\ Other!send_packet(m_pkt_queue_1)
  <2>1. \A tx \in TxTimes : tx = NodeTx  BY NodeTxAssumption
  <2>2. /\ m_pkt_queue_1' = Tail(m_pkt_queue_1)
        /\ port_out_1' = Append(port_out_1,
             [pkt |-> clear(incrm_hop_cnt(Head(m_pkt_queue_1))), at |-> now + NodeTx])
        BY <1>3, <2>1 DEF Other!send_packet, Other!clear, clear, Other!Unset, Unset,
             Other!incrm_hop_cnt, incrm_hop_cnt
  <2>3. QED  BY <1>1, <1>3, <2>2 DEF Sent, Sends, SameInside, That
<1>4. QED  BY <1>2, <1>3 DEF Other!OutputNext, Other!OutHandleSelf

\* What a step of the node that OtherWorks describes does.
LEMMA ThatNodeWorksHolds ==
  ASSUME OtherWorks, TableKept(m_hashtable_1),
         offload_in_1 # <<>> => Head(offload_in_1).flow \in Flows
  PROVE  /\ Works(That, That', now) /\ TableKept(m_hashtable_1')
         /\ m_latency' = WorkRecord(m_latency, now, That, That')
         /\ now' = now /\ UNCHANGED <<nodeVars, switchVars, genVars, sinkVars>>
<1>1. Works(That, That', now) /\ TableKept(m_hashtable_1')
  <2>1. CASE Other!Dispatch
    <3>1. offload_in_1 # <<>>  BY <2>1 DEF Other!Dispatch, Other!OffloadHandlePkt
    <3>2. QED  BY <2>1, <3>1, ThatDispatchHolds DEF Works
  <2>2. CASE Other!LearnOverload  BY <2>2, ThatLearnOverloadHolds DEF Works
  <2>3. CASE Other!OutputProcessed  BY <2>3, ThatOutputProcessedHolds DEF Works
  <2>4. CASE Other!OutputOffloaded  BY <2>4, ThatOutputOffloadedHolds DEF Works
  <2>5. CASE Other!OutputNext  BY <2>5, ThatOutputNextHolds DEF Works
  <2>6. CASE Other!Enqueue  BY <2>6, ThatEnqueueHolds DEF Works
  <2>7. CASE \E i \in Cores : Other!Complete(i)
    <3>1. PICK i \in Cores : Other!Complete(i)  BY <2>7
    <3>2. Completed(That, That', i, now) /\ UNCHANGED m_hashtable_1  BY <3>1, ThatCompleteHolds
    <3>3. QED  BY <3>2 DEF Works
  <2>8. QED  BY <2>1, <2>2, <2>3, <2>4, <2>5, <2>6, <2>7 DEF OtherWorks
<1>2. m_latency' = WorkRecord(m_latency, now, That, That')
      BY DEF OtherWorks, WorkRecord, CoreRecord, LinkRecord, Added, That, recorded_by_core,
             recorded_by_link, add_elements
<1>3. now' = now /\ UNCHANGED <<nodeVars, switchVars, genVars, sinkVars>>
      BY DEF OtherWorks, nodeVars, procVars
<1>4. QED  BY <1>1, <1>2, <1>3

\* The network, seen from each of its nodes.
LEMMA ThisView == Joined(Holdings) = With(Holdings, "node", This)
<1>1. [p \in Owners |-> IF p = "node" THEN NodeHolds("node", This) ELSE Holdings[p]] = Holdings
      BY DEF Holdings, Owners
<1>2. QED  BY <1>1 DEF With

\* The same from the other node.
LEMMA ThatView == Joined(Holdings) = With(Holdings, "other", That)
<1>1. [p \in Owners |-> IF p = "other" THEN NodeHolds("other", That) ELSE Holdings[p]] = Holdings
      BY DEF Holdings, Owners
<1>2. QED  BY <1>1 DEF With

\* The network after a step of one node, and of the other.
LEMMA ThisStepView ==
  ASSUME That' = That, UNCHANGED <<m_gen_msg, gen_out, m_queues, to_node>>
  PROVE  Joined(Holdings') = With(Holdings, "node", This')
<1>1. [p \in Owners |-> IF p = "node" THEN NodeHolds("node", This') ELSE Holdings[p]] = Holdings'
      BY DEF Holdings, Owners
<1>2. QED  BY <1>1 DEF With

\* The network after a step of the other node.
LEMMA ThatStepView ==
  ASSUME This' = This, UNCHANGED <<m_gen_msg, gen_out, m_queues, to_node>>
  PROVE  Joined(Holdings') = With(Holdings, "other", That')
<1>1. [p \in Owners |-> IF p = "other" THEN NodeHolds("other", That') ELSE Holdings[p]] = Holdings'
      BY DEF Holdings, Owners
<1>2. QED  BY <1>1 DEF With

\* Adding elements creates no list.
LEMMA AddedDomain ==
  ASSUME NEW L, NEW k, NEW els
  PROVE  DOMAIN Added(L, k, els) = DOMAIN L
BY DEF Added

\* No step of a node creates a list.
LEMMA WorkDomain ==
  ASSUME NEW L, NEW t, NEW n, NEW m
  PROVE  DOMAIN WorkRecord(L, t, n, m) = DOMAIN L
<1>1. DOMAIN CoreRecord(L, t, n.core, m.core) = DOMAIN L
  <2> DEFINE before == n.core
             after == m.core
             started == {c \in Cores : after[c] # before[c] /\ after[c] # NoMsg}
             c == CHOOSE c \in started : TRUE
             k == <<after[c].pkt.flow, after[c].pkt.id>>
             els == <<LatencyElement("NODE_BUFFER_IN", t - after[c].pkt.arrival_time),
                      LatencyElement("NODE_PROC", after[c].pkt.instr)>>
  <2>1. CoreRecord(L, t, n.core, m.core) = IF started = {} THEN L ELSE Added(L, k, els)
        BY DEF CoreRecord
  <2> HIDE DEF started, k, els
  <2>2. QED  BY <2>1, AddedDomain
<1>2. DOMAIN LinkRecord(L, "NODE_BUFFER_OUT", t, n.link, m.link) = DOMAIN L
      BY AddedDomain DEF LinkRecord
<1>3. QED  BY <1>1, <1>2 DEF WorkRecord

\* The packet at the head of a node's ingress.
LEMMA ThisFirst ==
  ASSUME Placed(Joined(Holdings), m_latency, now)
  PROVE  offload_in # <<>> => Head(offload_in).flow \in Flows
<1> DEFINE a == at("node", "offload_in", 0)
<1>1. a \in PlacesOf("node") /\ kind(a) = "offload_in"  BY SomePlaces DEF at, kind
<1>2. NodeHolds("node", This)[a] = offload_in  BY NodeAt DEF This
<1>3. "node" \in Nodes  BY DEF Nodes
<1>4. Placed(With(Holdings, "node", This), m_latency, now)  BY ThisView
<1> HIDE DEF a
<1>5. offload_in # <<>> => Fits(m_latency, a, Head(offload_in), now)
      BY <1>1, <1>2, <1>3, <1>4, NodeFirst
<1>6. QED  BY <1>1, <1>5 DEF Fits, Suits, pkt_of, timed

\* The packet at the head of the ingress of the other node.
LEMMA ThatFirst ==
  ASSUME Placed(Joined(Holdings), m_latency, now)
  PROVE  offload_in_1 # <<>> => Head(offload_in_1).flow \in Flows
<1> DEFINE a == at("other", "offload_in", 0)
<1>1. a \in PlacesOf("other") /\ kind(a) = "offload_in"  BY SomePlaces DEF at, kind
<1>2. NodeHolds("other", That)[a] = offload_in_1  BY NodeAt DEF That
<1>3. "other" \in Nodes  BY DEF Nodes
<1>4. Placed(With(Holdings, "other", That), m_latency, now)  BY ThatView
<1> HIDE DEF a
<1>5. offload_in_1 # <<>> => Fits(m_latency, a, Head(offload_in_1), now)
      BY <1>1, <1>2, <1>3, <1>4, NodeFirst
<1>6. QED  BY <1>1, <1>5 DEF Fits, Suits, pkt_of, timed

\* What is left to show of a step that leaves the generators alone.
LEMMA StepTaken ==
  ASSUME JourneyInv, [NetNext]_netVars,
         UNCHANGED <<traces, n_read>>, DOMAIN m_latency' = DOMAIN m_latency,
         NodesKept', LinksKept', Placed(Joined(Holdings'), m_latency', now'),
         IsSeq(reported'), LatencyAccounted'
  PROVE  JourneyInv'
<1>1. GenInv'  BY GenInvStep DEF JourneyInv
<1>2. KeysKnown'
  <2>1. \A g, i : packet_key(g, i)' = packet_key(g, i)  BY DEF packet_key
  <2>2. QED  BY <2>1 DEF JourneyInv, KeysKnown
<1>3. QED  BY <1>1, <1>2 DEF JourneyInv

\* And of one that leaves the Sink alone, too.
LEMMA StepKept ==
  ASSUME JourneyInv, [NetNext]_netVars,
         UNCHANGED <<traces, n_read, reported>>, DOMAIN m_latency' = DOMAIN m_latency,
         NodesKept', LinksKept', Placed(Joined(Holdings'), m_latency', now')
  PROVE  JourneyInv'
<1>1. IsSeq(reported') /\ LatencyAccounted'  BY DEF JourneyInv, LatencyAccounted
<1>2. QED  BY <1>1, StepTaken

\* A step of one node keeps the invariant.
LEMMA NodeWorksStep ==
  ASSUME JourneyInv, [NetNext]_netVars, NodeWorks
  PROVE  JourneyInv'
<1>1. Placed(Joined(Holdings), m_latency, now) /\ NodesKept /\ LinksKept /\ now \in Int
      BY DEF JourneyInv, GenInv, GenTypes
<1>2. /\ Works(This, This', now) /\ TableKept(m_hashtable')
      /\ m_latency' = WorkRecord(m_latency, now, This, This')
      /\ now' = now /\ UNCHANGED <<otherVars, switchVars, genVars, sinkVars>>
      BY <1>1, ThisFirst, NodeWorksHolds DEF NodesKept
<1>3. "node" \in Nodes  BY DEF Nodes
<1>4. /\ Placed(With(Holdings, "node", This'), WorkRecord(m_latency, now, This, This'), now)
      /\ NodeKept(This')
  <2>1. Placed(With(Holdings, "node", This), m_latency, now)  BY <1>1, ThisView
  <2>2. NodeKept(This)  BY <1>1 DEF NodesKept
  <2>3. QED  BY <1>1, <1>2, <1>3, <2>1, <2>2, WorkKeeps
<1>5. /\ That' = That /\ m_hashtable_1' = m_hashtable_1
      /\ UNCHANGED <<m_gen_msg, gen_out, m_queues, to_node, traces, n_read, reported>>
      BY <1>2 DEF otherVars, switchVars, genVars, sinkVars, That
<1>6. Placed(Joined(Holdings'), m_latency', now')  BY <1>2, <1>4, <1>5, ThisStepView
<1>7. DOMAIN m_latency' = DOMAIN m_latency  BY <1>2, WorkDomain
<1>8. NodesKept'  BY <1>1, <1>2, <1>4, <1>5 DEF NodesKept
<1>9. LinksKept'  BY <1>1, <1>5 DEF LinksKept
<1>10. QED  BY <1>5, <1>6, <1>7, <1>8, <1>9, StepKept

\* A step of the other node keeps it.
LEMMA OtherWorksStep ==
  ASSUME JourneyInv, [NetNext]_netVars, OtherWorks
  PROVE  JourneyInv'
<1>1. Placed(Joined(Holdings), m_latency, now) /\ NodesKept /\ LinksKept /\ now \in Int
      BY DEF JourneyInv, GenInv, GenTypes
<1>2. /\ Works(That, That', now) /\ TableKept(m_hashtable_1')
      /\ m_latency' = WorkRecord(m_latency, now, That, That')
      /\ now' = now /\ UNCHANGED <<nodeVars, switchVars, genVars, sinkVars>>
      BY <1>1, ThatFirst, ThatNodeWorksHolds DEF NodesKept
<1>3. "other" \in Nodes  BY DEF Nodes
<1>4. /\ Placed(With(Holdings, "other", That'), WorkRecord(m_latency, now, That, That'), now)
      /\ NodeKept(That')
  <2>1. Placed(With(Holdings, "other", That), m_latency, now)  BY <1>1, ThatView
  <2>2. NodeKept(That)  BY <1>1 DEF NodesKept
  <2>3. QED  BY <1>1, <1>2, <1>3, <2>1, <2>2, WorkKeeps
<1>5. /\ This' = This /\ m_hashtable' = m_hashtable
      /\ UNCHANGED <<m_gen_msg, gen_out, m_queues, to_node, traces, n_read, reported>>
      BY <1>2 DEF nodeVars, procVars, coreVars, outVars, tableVars, switchVars, genVars,
                  sinkVars, This
<1>6. Placed(Joined(Holdings'), m_latency', now')  BY <1>2, <1>4, <1>5, ThatStepView
<1>7. DOMAIN m_latency' = DOMAIN m_latency  BY <1>2, WorkDomain
<1>8. NodesKept'  BY <1>1, <1>2, <1>4, <1>5 DEF NodesKept
<1>9. LinksKept'  BY <1>1, <1>5 DEF LinksKept
<1>10. QED  BY <1>5, <1>6, <1>7, <1>8, <1>9, StepKept

-----------------------------------------------------------------------------
(* Between owners.                                                         *)

\* What a node gets and what it lets go.
LEMMA NodeGets ==
  ASSUME NEW o \in Nodes, NEW n, NEW m, NEW b, NEW x, Untouched(o, n, m, {b}),
         NodeHolds(o, m)[b] = Append(NodeHolds(o, n)[b], x)
  PROVE  Inserts(PlacesOf(o), NodeHolds(o, n), NodeHolds(o, m), b, x)
BY UntouchedSame DEF Inserts

\* What a node lets go.
LEMMA NodeLets ==
  ASSUME NEW o \in Nodes, NEW n, NEW m, NEW a, Untouched(o, n, m, {a}),
         NodeHolds(o, n)[a] # <<>>, NodeHolds(o, m)[a] = Tail(NodeHolds(o, n)[a])
  PROVE  Removes(PlacesOf(o), NodeHolds(o, n), NodeHolds(o, m), a)
BY UntouchedSame DEF Removes

\* What stays as it is in the switch.
TorUntouched(q, l, q2, l2, S) ==
  \A p \in 0 .. 1 : /\ q2[p] = q[p] \/ at("tor", "m_queues", p) \in S
                    /\ l2[p] = l[p] \/ at("tor", "to_node", p) \in S

\* Places that the switch leaves alone hold what they held.
LEMMA TorSame ==
  ASSUME NEW q, NEW l, NEW q2, NEW l2, NEW S, TorUntouched(q, l, q2, l2, S),
         NEW pl \in PlacesOf("tor"), pl \notin S
  PROVE  TorHolds(q2, l2)[pl] = TorHolds(q, l)[pl]
<1>1. PICK p \in 0 .. 1 : pl = at("tor", "m_queues", p) \/ pl = at("tor", "to_node", p)
      BY TorPlaces
<1>2. CASE pl = at("tor", "m_queues", p)
  <2>1. q2[p] = q[p]  BY <1>2 DEF TorUntouched
  <2>2. TorHolds(q, l)[at("tor", "m_queues", p)] = q[p]  BY TorAt
  <2>3. TorHolds(q2, l2)[at("tor", "m_queues", p)] = q2[p]  BY TorAt
  <2>4. QED  BY <1>2, <2>1, <2>2, <2>3
<1>3. CASE pl = at("tor", "to_node", p)
  <2>1. l2[p] = l[p]  BY <1>3 DEF TorUntouched
  <2>2. TorHolds(q, l)[at("tor", "to_node", p)] = l[p]  BY TorAt
  <2>3. TorHolds(q2, l2)[at("tor", "to_node", p)] = l2[p]  BY TorAt
  <2>4. QED  BY <1>3, <2>1, <2>2, <2>3
<1>4. QED  BY <1>1, <1>2, <1>3

\* The switch's link to node p delivers.
LEMMA TorLets ==
  ASSUME NEW q, NEW l, NEW l2, NEW p \in 0 .. 1, l[p] # <<>>, l2[p] = Tail(l[p]),
         \A r \in (0 .. 1) \ {p} : l2[r] = l[r]
  PROVE  LET a == at("tor", "to_node", p)
         IN  /\ Removes(PlacesOf("tor"), TorHolds(q, l), TorHolds(q, l2), a)
             /\ TorHolds(q, l)[a] = l[p] /\ a \in PlacesOf("tor") /\ kind(a) = "to_node"
<1> DEFINE a == at("tor", "to_node", p)
<1>1. TorHolds(q, l)[a] = l[p] /\ TorHolds(q, l2)[a] = l2[p]
  <2>1. TorHolds(q, l)[at("tor", "to_node", p)] = l[p]  BY TorAt
  <2>2. TorHolds(q, l2)[at("tor", "to_node", p)] = l2[p]  BY TorAt
  <2>3. QED  BY <2>1, <2>2
<1>2. ASSUME NEW pl \in PlacesOf("tor") \ {a}
      PROVE  TorHolds(q, l2)[pl] = TorHolds(q, l)[pl]
  <2>1. TorUntouched(q, l, q, l2, {a})  BY DEF TorUntouched
  <2> HIDE DEF a
  <2>2. QED  BY <1>2, <2>1, TorSame
<1>3. a \in PlacesOf("tor") /\ kind(a) = "to_node"  BY SomePlaces DEF at, kind
<1> HIDE DEF a
<1>4. Removes(PlacesOf("tor"), TorHolds(q, l), TorHolds(q, l2), a)
      BY <1>1, <1>2 DEF Removes
<1>5. QED  BY <1>1, <1>3, <1>4 DEF a

\* A node receives what the link delivers.
Receives(n, m, pkt, t) ==
  /\ m.in = Append(n.in, delivered(set_arrival_port_id(delivered(pkt, t), 0), t))
  /\ m.proc = n.proc /\ m.off = n.off /\ m.rx = n.rx /\ m.core = n.core /\ m.done = n.done
  /\ m.queue = n.queue /\ m.link = n.link /\ m.busy = n.busy

\* Link p of the switch hands node o a packet.
Hands(H, H2, o, n, m, q, l, l2, p, t) ==
  /\ Receives(n, m, Head(l[p]).pkt, t)
  /\ H["tor"] = TorHolds(q, l) /\ H2["tor"] = TorHolds(q, l2)
  /\ H[o] = NodeHolds(o, n) /\ H2[o] = NodeHolds(o, m)
  /\ \A r \in Owners \ {"tor", o} : H2[r] = H[r]
  /\ l[p] # <<>> /\ Head(l[p]).at = t /\ l2[p] = Tail(l[p])
  /\ \A r \in (0 .. 1) \ {p} : l2[r] = l[r]

\* The packet fits at the ingress of the node.
LEMMA ReceiveKeeps ==
  ASSUME NEW H, NEW H2, NEW L, NEW t \in Int, NEW o \in Nodes, NEW n, NEW m,
         NEW q, NEW l, NEW l2, NEW p \in 0 .. 1,
         Placed(Joined(H), L, t), Hands(H, H2, o, n, m, q, l, l2, p, t)
  PROVE  Placed(Joined(H2), L, t)
<1> DEFINE a == at("tor", "to_node", p)
           b == at(o, "offload_in", 0)
           y == Head(l[p])
           x == delivered(set_arrival_port_id(delivered(y.pkt, t), 0), t)
<1>0. /\ Receives(n, m, y.pkt, t)
      /\ H["tor"] = TorHolds(q, l) /\ H2["tor"] = TorHolds(q, l2)
      /\ H[o] = NodeHolds(o, n) /\ H2[o] = NodeHolds(o, m)
      /\ \A r \in Owners \ {"tor", o} : H2[r] = H[r]
      /\ l[p] # <<>> /\ y.at = t /\ l2[p] = Tail(l[p])
      /\ \A r \in (0 .. 1) \ {p} : l2[r] = l[r]
      BY DEF Hands
<1>1. /\ Removes(PlacesOf("tor"), H["tor"], H2["tor"], a)
      /\ H["tor"][a] = l[p] /\ a \in PlacesOf("tor") /\ kind(a) = "to_node"
      BY <1>0, TorLets
<1>2. b \in PlacesOf(o) /\ kind(b) = "offload_in"
  <2>1. b \in PlacesOf(o)  BY SomePlaces DEF Nodes
  <2>2. QED  BY <2>1 DEF at, kind
<1>3. Inserts(PlacesOf(o), H[o], H2[o], b, x)
  <2>1. NodeHolds(o, n)[b] = n.in /\ NodeHolds(o, m)[b] = m.in  BY NodeAt DEF Nodes
  <2>2. Untouched(o, n, m, {b})  BY <1>0 DEF Receives, Untouched
  <2>3. NodeHolds(o, m)[b] = Append(NodeHolds(o, n)[b], x)  BY <1>0, <2>1 DEF Receives
  <2> HIDE DEF b, x
  <2>4. QED  BY <1>0, <2>2, <2>3, NodeGets
<1>4. "tor" \in Owners /\ o \in Owners /\ "tor" # o  BY DEF Owners, Nodes
<1>5. y.at = t /\ Head(H["tor"][a]) = y  BY <1>0, <1>1
<1> HIDE DEF a, b
<1>6. Moves(Places, Joined(H), Joined(H2), a, b, x)  BY <1>0, <1>1, <1>2, <1>3, <1>4, LiftCross
<1>7. a \in Places /\ Joined(H)[a] = H["tor"][a] /\ b \in Places
      BY <1>1, <1>2, <1>4, OwnerPlaces DEF Joined
<1>8. Joined(H)[a] # <<>> /\ Head(Joined(H)[a]) = y  BY <1>0, <1>1, <1>5, <1>7
<1> HIDE DEF y
<1>9. Fits(L, a, y, t)  BY <1>7, <1>8, FirstFits
<1>10. Fits(L, b, x, t) /\ key(b, x) = key(a, y)
       BY <1>1, <1>2, <1>5, <1>9, FitsReceived
<1> HIDE DEF x
<1>11. Extends(L, L, key(b, x))  BY ExtendsSame
<1>12. QED  BY <1>6, <1>7, <1>8, <1>10, <1>11, MoveKeeps

\* Reception by one node keeps the invariant.
LEMMA NodeReceivesStep ==
  ASSUME JourneyInv, [NetNext]_netVars, NodeReceives
  PROVE  JourneyInv'
<1>1. Placed(Joined(Holdings), m_latency, now) /\ NodesKept /\ LinksKept /\ now \in Int
      BY DEF JourneyInv, GenInv, GenTypes
<1>2. /\ to_node[0] # <<>> /\ Head(to_node[0]).at = now
      /\ to_node' = [to_node EXCEPT ![0] = Tail(@)]
      /\ Receive(delivered(Head(to_node[0]).pkt, now))
      /\ UNCHANGED <<m_queues, sinkVars, genVars, m_latency, otherVars>>
      BY DEF NodeReceives, due, link_delivers
<1>3. /\ Receives(This, This', Head(to_node[0]).pkt, now)
      /\ now' = now /\ m_hashtable' = m_hashtable
      BY <1>2 DEF Receive, procVars, coreVars, tableVars, outVars, Receives, This
<1>4. /\ That' = That /\ m_hashtable_1' = m_hashtable_1
      /\ UNCHANGED <<m_gen_msg, gen_out, m_queues, traces, n_read, reported>>
      BY <1>2 DEF otherVars, genVars, sinkVars, That
<1>5. /\ Holdings["tor"] = TorHolds(m_queues, to_node)
      /\ Holdings'["tor"] = TorHolds(m_queues, to_node')
      /\ Holdings["node"] = NodeHolds("node", This)
      /\ Holdings'["node"] = NodeHolds("node", This')
      /\ \A r \in Owners \ {"tor", "node"} : Holdings'[r] = Holdings[r]
      BY <1>4 DEF Holdings, Owners
<1>6. /\ to_node'[0] = Tail(to_node[0]) /\ DOMAIN to_node' = 0 .. 1
      /\ \A r \in (0 .. 1) \ {0} : to_node'[r] = to_node[r]
      BY <1>1, <1>2 DEF LinksKept
<1>7. "node" \in Nodes /\ 0 \in 0 .. 1  BY DEF Nodes
<1>8. Placed(Joined(Holdings'), m_latency', now')
  <2>0. Hands(Holdings, Holdings', "node", This, This', m_queues, to_node, to_node', 0, now)
        BY <1>2, <1>3, <1>5, <1>6 DEF Hands
  <2>1. Placed(Joined(Holdings'), m_latency, now)
        BY <1>1, <1>7, <2>0, ReceiveKeeps
  <2>2. m_latency' = m_latency  BY <1>2
  <2>3. QED  BY <1>3, <2>1, <2>2
<1>9. NodesKept'
  <2>1. NodeKept(This')  BY <1>1, <1>3 DEF NodesKept, NodeKept, Receives
  <2>2. QED  BY <1>1, <1>3, <1>4, <2>1 DEF NodesKept
<1>10. LinksKept'  BY <1>1, <1>4, <1>6 DEF LinksKept
<1>11. QED  BY <1>2, <1>4, <1>8, <1>9, <1>10, StepKept

\* Reception by the other node keeps it.
LEMMA OtherReceivesStep ==
  ASSUME JourneyInv, [NetNext]_netVars, OtherReceives
  PROVE  JourneyInv'
<1>1. Placed(Joined(Holdings), m_latency, now) /\ NodesKept /\ LinksKept /\ now \in Int
      BY DEF JourneyInv, GenInv, GenTypes
<1>2. /\ to_node[1] # <<>> /\ Head(to_node[1]).at = now
      /\ to_node' = [to_node EXCEPT ![1] = Tail(@)]
      /\ Other!Receive(delivered(Head(to_node[1]).pkt, now))
      /\ UNCHANGED <<m_queues, sinkVars, genVars, m_latency, nodeVars>>
      BY DEF OtherReceives, due, link_delivers
<1>3. /\ Receives(That, That', Head(to_node[1]).pkt, now)
      /\ now' = now /\ m_hashtable_1' = m_hashtable_1
      BY <1>2 DEF Other!Receive, Other!procVars, Other!coreVars, Other!tableVars, Other!outVars,
                  Other!delivered, delivered, Other!set_arrival_port_id, set_arrival_port_id,
                  Receives, That
<1>4. /\ This' = This /\ m_hashtable' = m_hashtable
      /\ UNCHANGED <<m_gen_msg, gen_out, m_queues, traces, n_read, reported>>
      BY <1>2 DEF nodeVars, procVars, coreVars, outVars, tableVars, genVars, sinkVars, This
<1>5. /\ Holdings["tor"] = TorHolds(m_queues, to_node)
      /\ Holdings'["tor"] = TorHolds(m_queues, to_node')
      /\ Holdings["other"] = NodeHolds("other", That)
      /\ Holdings'["other"] = NodeHolds("other", That')
      /\ \A r \in Owners \ {"tor", "other"} : Holdings'[r] = Holdings[r]
      BY <1>4 DEF Holdings, Owners
<1>6. /\ to_node'[1] = Tail(to_node[1]) /\ DOMAIN to_node' = 0 .. 1
      /\ \A r \in (0 .. 1) \ {1} : to_node'[r] = to_node[r]
      BY <1>1, <1>2 DEF LinksKept
<1>7. "other" \in Nodes /\ 1 \in 0 .. 1  BY DEF Nodes
<1>8. Placed(Joined(Holdings'), m_latency', now')
  <2>0. Hands(Holdings, Holdings', "other", That, That', m_queues, to_node, to_node', 1, now)
        BY <1>2, <1>3, <1>5, <1>6 DEF Hands
  <2>1. Placed(Joined(Holdings'), m_latency, now)
        BY <1>1, <1>7, <2>0, ReceiveKeeps
  <2>2. m_latency' = m_latency  BY <1>2
  <2>3. QED  BY <1>3, <2>1, <2>2
<1>9. NodesKept'
  <2>1. NodeKept(That')  BY <1>1, <1>3 DEF NodesKept, NodeKept, Receives
  <2>2. QED  BY <1>1, <1>3, <1>4, <2>1 DEF NodesKept
<1>10. LinksKept'  BY <1>1, <1>4, <1>6 DEF LinksKept
<1>11. QED  BY <1>2, <1>4, <1>8, <1>9, <1>10, StepKept

-----------------------------------------------------------------------------
(* The switch.                                                             *)

\* recorded_by_tor.
TorRecord(L, t, before, after) ==
  LET grown == {p \in 0 .. 1 : Len(after[p]) > Len(before[p])}
  IN  IF grown = {} THEN L
      ELSE LET p == CHOOSE p \in grown : TRUE
           IN  LinkRecord(L, "TOR", t, before[p], after[p])

\* The links of the switch are sequences.
SeqLinks(l) == \A p \in 0 .. 1 : IsSeq(l[p])

\* The length and the last element of a sequence with one more.
LEMMA LinkLength ==
  ASSUME NEW s, IsSeq(s)
  PROVE  /\ Len(s) \in Nat
         /\ \A x : Len(Append(s, x)) = Len(s) + 1 /\ Last(Append(s, x)) = x
<1> DEFINE S == {s[i] : i \in DOMAIN s}
<1>1. s \in Seq(S)  BY DEF IsSeq
<1> HIDE DEF S
<1>2. ASSUME NEW x PROVE Len(Append(s, x)) = Len(s) + 1 /\ Last(Append(s, x)) = x
  <2> DEFINE T == S \cup {x}
  <2>1. s \in Seq(T) /\ x \in T  BY <1>1
  <2> HIDE DEF T
  <2>2. Len(Append(s, x)) = Len(s) + 1 /\ Append(s, x)[Len(s) + 1] = x  BY <2>1
  <2>3. QED  BY <2>2 DEF Last
<1>3. QED  BY <1>1, <1>2

\* The switch records nothing if it sends nothing.
LEMMA NoneGrown ==
  ASSUME NEW L, NEW t, NEW l, NEW l2, SeqLinks(l), \A p \in 0 .. 1 : l2[p] = l[p]
  PROVE  TorRecord(L, t, l, l2) = L
<1> DEFINE grown == {p \in 0 .. 1 : Len(l2[p]) > Len(l[p])}
<1>1. ASSUME NEW p \in 0 .. 1 PROVE ~(Len(l2[p]) > Len(l[p]))
  <2>1. Len(l[p]) \in Nat /\ l2[p] = l[p]  BY LinkLength DEF SeqLinks
  <2>2. QED  BY <2>1
<1>2. grown = {}  BY <1>1
<1>3. QED  BY <1>2 DEF TorRecord

\* It records how long the packet that it sends has waited.
LEMMA OneGrown ==
  ASSUME NEW L, NEW t, NEW l, NEW l2, NEW p \in 0 .. 1, NEW x, SeqLinks(l),
         l2[p] = Append(l[p], x), \A r \in (0 .. 1) \ {p} : l2[r] = l[r]
  PROVE  TorRecord(L, t, l, l2) =
           Added(L, <<x.pkt.flow, x.pkt.id>>, <<LatencyElement("TOR", t - x.pkt.arrival_time)>>)
<1> DEFINE grown == {r \in 0 .. 1 : Len(l2[r]) > Len(l[r])}
           ch == CHOOSE r \in grown : TRUE
<1>1. /\ Len(l[p]) \in Nat /\ Len(l2[p]) = Len(l[p]) + 1 /\ Last(l2[p]) = x
      BY LinkLength DEF SeqLinks
<1>2. grown = {p}
  <2>1. ASSUME NEW r \in (0 .. 1) \ {p} PROVE ~(Len(l2[r]) > Len(l[r]))
    <3>1. Len(l[r]) \in Nat /\ l2[r] = l[r]  BY LinkLength DEF SeqLinks
    <3>2. QED  BY <3>1
  <2>2. Len(l2[p]) > Len(l[p])  BY <1>1
  <2>3. QED  BY <2>1, <2>2
<1>3. TorRecord(L, t, l, l2) =
        IF grown = {} THEN L ELSE LinkRecord(L, "TOR", t, l[ch], l2[ch])
      BY DEF TorRecord
<1> HIDE DEF grown
<1>4. ch = p  BY <1>2
<1> HIDE DEF ch
<1>5. TorRecord(L, t, l, l2) = LinkRecord(L, "TOR", t, l[p], l2[p])  BY <1>2, <1>3, <1>4
<1>6. ~(Len(l2[p]) <= Len(l[p]))  BY <1>1
<1>7. QED  BY <1>1, <1>5, <1>6 DEF LinkRecord

\* It creates no list.
LEMMA TorDomain ==
  ASSUME NEW L, NEW t, NEW l, NEW l2
  PROVE  DOMAIN TorRecord(L, t, l, l2) = DOMAIN L
<1>1. \A p : DOMAIN LinkRecord(L, "TOR", t, l[p], l2[p]) = DOMAIN L
      BY AddedDomain DEF LinkRecord
<1>2. \/ TorRecord(L, t, l, l2) = L
      \/ \E p : TorRecord(L, t, l, l2) = LinkRecord(L, "TOR", t, l[p], l2[p])
  <2> DEFINE grown == {p \in 0 .. 1 : Len(l2[p]) > Len(l[p])}
             p == CHOOSE p \in grown : TRUE
  <2>1. TorRecord(L, t, l, l2) = IF grown = {} THEN L ELSE LinkRecord(L, "TOR", t, l[p], l2[p])
        BY DEF TorRecord
  <2> HIDE DEF grown, p
  <2>2. QED  BY <2>1
<1>3. QED  BY <1>1, <1>2

\* The switch sends the next packet for node p.
Forwards(H, H2, q, l, q2, l2, p, t) ==
  /\ H["tor"] = TorHolds(q, l) /\ H2["tor"] = TorHolds(q2, l2)
  /\ \A r \in Owners \ {"tor"} : H2[r] = H[r]
  /\ q[p] # <<>> /\ q2[p] = Tail(q[p])
  /\ l2[p] = Append(l[p], [pkt |-> Head(q[p]), at |-> t + NodeTx])
  /\ \A r \in (0 .. 1) \ {p} : q2[r] = q[r] /\ l2[r] = l[r]

\* Its queues and links are sequences.
LEMMA TorSeqs ==
  ASSUME NEW H, NEW L, NEW t, Placed(Joined(H), L, t), NEW q, NEW l, H["tor"] = TorHolds(q, l)
  PROVE  SeqLinks(q) /\ SeqLinks(l)
<1>1. "tor" \in Owners  BY DEF Owners
<1>2. ASSUME NEW p \in 0 .. 1 PROVE IsSeq(q[p]) /\ IsSeq(l[p])
  <2> DEFINE a == at("tor", "m_queues", p)
             b == at("tor", "to_node", p)
  <2>1. a \in PlacesOf("tor") /\ b \in PlacesOf("tor")  BY SomePlaces
  <2>2. TorHolds(q, l)[a] = q[p] /\ TorHolds(q, l)[b] = l[p]  BY TorAt
  <2> HIDE DEF a, b
  <2>3. a \in Places /\ b \in Places /\ a[1] = "tor" /\ b[1] = "tor"
        BY <1>1, <2>1, OwnerPlaces
  <2>4. Joined(H)[a] = q[p] /\ Joined(H)[b] = l[p]  BY <2>2, <2>3 DEF Joined
  <2>5. QED  BY <2>3, <2>4 DEF Placed
<1>3. QED  BY <1>2 DEF SeqLinks

\* The packet fits on the link, with what is recorded of it.
LEMMA ForwardKeeps ==
  ASSUME NEW H, NEW H2, NEW L, NEW t \in Int, NEW q, NEW l, NEW q2, NEW l2, NEW p \in 0 .. 1,
         Placed(Joined(H), L, t), Forwards(H, H2, q, l, q2, l2, p, t)
  PROVE  Placed(Joined(H2), TorRecord(L, t, l, l2), t)
<1> DEFINE a == at("tor", "m_queues", p)
           b == at("tor", "to_node", p)
           y == Head(q[p])
           x == [pkt |-> y, at |-> t + NodeTx]
           k == <<y.flow, y.id>>
           M == Added(L, k, <<LatencyElement("TOR", t - y.arrival_time)>>)
<1>1. /\ a \in PlacesOf("tor") /\ b \in PlacesOf("tor") /\ "tor" \in Owners
      /\ kind(a) = "m_queues" /\ kind(b) = "to_node" /\ a # b
  <2>1. a \in PlacesOf("tor") /\ b \in PlacesOf("tor")  BY SomePlaces
  <2>2. kind(a) = "m_queues" /\ kind(b) = "to_node"  BY DEF at, kind
  <2>3. a # b  BY <2>2
  <2>4. QED  BY <2>1, <2>2, <2>3 DEF Owners
<1>2. /\ H["tor"] = TorHolds(q, l) /\ H2["tor"] = TorHolds(q2, l2)
      /\ \A r \in Owners \ {"tor"} : H2[r] = H[r]
      /\ q[p] # <<>> /\ q2[p] = Tail(q[p]) /\ l2[p] = Append(l[p], x)
      /\ \A r \in (0 .. 1) \ {p} : q2[r] = q[r] /\ l2[r] = l[r]
      BY DEF Forwards
<1>3. H["tor"][a] = q[p] /\ H2["tor"][a] = q2[p]
  <2>1. TorHolds(q, l)[at("tor", "m_queues", p)] = q[p]  BY TorAt
  <2>2. TorHolds(q2, l2)[at("tor", "m_queues", p)] = q2[p]  BY TorAt
  <2>3. QED  BY <1>2, <2>1, <2>2
<1>4. H["tor"][b] = l[p] /\ H2["tor"][b] = l2[p]
  <2>1. TorHolds(q, l)[at("tor", "to_node", p)] = l[p]  BY TorAt
  <2>2. TorHolds(q2, l2)[at("tor", "to_node", p)] = l2[p]  BY TorAt
  <2>3. QED  BY <1>2, <2>1, <2>2
<1>5. TorUntouched(q, l, q2, l2, {a, b})  BY <1>2 DEF TorUntouched
<1> HIDE DEF a, b
<1>6. ASSUME NEW pl \in PlacesOf("tor") \ {a, b} PROVE H2["tor"][pl] = H["tor"][pl]
      BY <1>2, <1>5, <1>6, TorSame
<1>7. Moves(PlacesOf("tor"), H["tor"], H2["tor"], a, b, x)
      BY <1>1, <1>2, <1>3, <1>4, <1>6 DEF Moves
<1>8. Moves(Places, Joined(H), Joined(H2), a, b, x)  BY <1>1, <1>2, <1>7, LiftMoves
<1>9. TorRecord(L, t, l, l2) = M
  <2>1. SeqLinks(l)  BY <1>2, TorSeqs
  <2>2. x.pkt = y  OBVIOUS
  <2> HIDE DEF x, y
  <2>0. l2[p] = Append(l[p], x) /\ \A r \in (0 .. 1) \ {p} : l2[r] = l[r]  BY <1>2
  <2>3. TorRecord(L, t, l, l2) =
          Added(L, <<x.pkt.flow, x.pkt.id>>,
                <<LatencyElement("TOR", t - x.pkt.arrival_time)>>)
        BY ONLY p \in 0 .. 1, <2>0, <2>1, OneGrown
  <2>4. QED  BY <2>2, <2>3
<1>10. a \in Places /\ b \in Places /\ a[1] = "tor"  BY <1>1, OwnerPlaces
<1>11. Joined(H)[a] = q[p]  BY <1>3, <1>10 DEF Joined
<1> HIDE DEF y
<1>12. Fits(L, a, y, t) /\ y = Head(Joined(H)[a])
  <2>1. y = Head(Joined(H)[a])  BY <1>11 DEF y
  <2>2. QED  BY <1>2, <1>10, <1>11, <2>1, FirstFits
<1>13. \A j \in DOMAIN L : L[j] \in Records  BY DEF Placed
<1>14. Fits(M, b, x, t) /\ Extends(L, M, k) /\ key(a, y) = k /\ key(b, x) = k
  <2>1. Fits(L, a, y, t) /\ kind(a) = "m_queues" /\ kind(b) = "to_node"  BY <1>1, <1>12
  <2>2. QED  BY ONLY <1>13, <2>1, t \in Int, FitsForwarded, SMTT(30)
<1> HIDE DEF M, k, x
<1>15. Placed(Joined(H2), M, t)
  <2>1. key(b, x) = key(a, Head(Joined(H)[a])) /\ Extends(L, M, key(b, x)) /\ Fits(M, b, x, t)
        BY <1>12, <1>14
  <2>2. QED  BY <1>8, <1>10, <2>1, MoveKeeps
<1>16. QED  BY <1>9, <1>15

\* Owner o gives its first packet at place a to the switch, whose queues and
\* links become q2 and l2.
Gives(H, H2, o, a, q, l, q2, l2) ==
  /\ o \in Owners \ {"tor"} /\ a \in PlacesOf(o)
  /\ H["tor"] = TorHolds(q, l) /\ H2["tor"] = TorHolds(q2, l2)
  /\ \A r \in Owners \ {o, "tor"} : H2[r] = H[r]
  /\ Removes(PlacesOf(o), H[o], H2[o], a)

\* The switch puts a packet x into the queue of node p.
Queued(q, l, q2, l2, p, x) ==
  /\ q2[p] = Append(q[p], x) /\ l2[p] = l[p]
  /\ \A r \in (0 .. 1) \ {p} : q2[r] = q[r] /\ l2[r] = l[r]

\* It may send the first packet of the queue at once.
Routed(q, l, q2, l2, p, x, t) ==
  LET queue == Append(q[p], x)
  IN  /\ \/ q2[p] = queue /\ l2[p] = l[p]
         \/ /\ q2[p] = Tail(queue)
            /\ l2[p] = Append(l[p], [pkt |-> Head(queue), at |-> t + NodeTx])
      /\ \A r \in (0 .. 1) \ {p} : q2[r] = q[r] /\ l2[r] = l[r]

\* The packet that is given away.
LEMMA GivenFits ==
  ASSUME NEW H, NEW L, NEW t, Placed(Joined(H), L, t), NEW o \in Owners, NEW a \in PlacesOf(o),
         H[o][a] # <<>>
  PROVE  /\ Fits(L, a, Head(H[o][a]), t) /\ a \in Places /\ Joined(H)[a] = H[o][a]
<1>1. a \in Places /\ a[1] = o  BY OwnerPlaces
<1>2. Joined(H)[a] = H[o][a]  BY <1>1 DEF Joined
<1>3. QED  BY <1>1, <1>2, FirstFits

\* A packet that fits in a queue of the switch may be put there.
LEMMA QueueKeeps ==
  ASSUME NEW H, NEW H2, NEW L, NEW t, NEW o, NEW a, NEW q, NEW l, NEW q2, NEW l2,
         NEW p \in 0 .. 1, NEW x,
         Placed(Joined(H), L, t), Gives(H, H2, o, a, q, l, q2, l2), Queued(q, l, q2, l2, p, x),
         key(at("tor", "m_queues", p), x) = key(a, Head(H[o][a])),
         Fits(L, at("tor", "m_queues", p), x, t)
  PROVE  Placed(Joined(H2), L, t)
<1> DEFINE b == at("tor", "m_queues", p)
<1>1. /\ o \in Owners /\ "tor" \in Owners /\ o # "tor" /\ a \in PlacesOf(o)
      /\ H["tor"] = TorHolds(q, l) /\ H2["tor"] = TorHolds(q2, l2)
      /\ \A r \in Owners \ {o, "tor"} : H2[r] = H[r]
      /\ Removes(PlacesOf(o), H[o], H2[o], a)
      BY DEF Gives, Owners
<1>2. b \in PlacesOf("tor") /\ b \in Places
  <2>1. b \in PlacesOf("tor")  BY SomePlaces
  <2>2. QED  BY <1>1, <2>1, OwnerPlaces
<1>3. H["tor"][b] = q[p] /\ H2["tor"][b] = q2[p]
  <2>1. TorHolds(q, l)[at("tor", "m_queues", p)] = q[p]  BY TorAt
  <2>2. TorHolds(q2, l2)[at("tor", "m_queues", p)] = q2[p]  BY TorAt
  <2>3. QED  BY <1>1, <2>1, <2>2
<1>4. TorUntouched(q, l, q2, l2, {b})  BY DEF TorUntouched, Queued
<1>5. Fits(L, b, x, t) /\ key(b, x) = key(a, Head(H[o][a])) /\ q2[p] = Append(q[p], x)
      BY DEF Queued
<1> HIDE DEF b
<1>6. ASSUME NEW pl \in PlacesOf("tor") \ {b} PROVE H2["tor"][pl] = H["tor"][pl]
      BY <1>1, <1>4, <1>6, TorSame
<1>7. Inserts(PlacesOf("tor"), H["tor"], H2["tor"], b, x)  BY <1>3, <1>5, <1>6 DEF Inserts
<1>8. Moves(Places, Joined(H), Joined(H2), a, b, x)  BY <1>1, <1>2, <1>7, LiftCross
<1>9. a \in Places /\ Joined(H)[a] = H[o][a]
      BY <1>1, GivenFits DEF Removes
<1>10. Extends(L, L, key(b, x))  BY ExtendsSame
<1>11. QED  BY <1>2, <1>5, <1>8, <1>9, <1>10, MoveKeeps

\* It may also be sent at once, or another one in its place.
LEMMA RouteKeeps ==
  ASSUME NEW H, NEW H2, NEW L, NEW t \in Int, NEW o, NEW a, NEW q, NEW l, NEW q2, NEW l2,
         NEW p \in 0 .. 1, NEW x,
         Placed(Joined(H), L, t), Gives(H, H2, o, a, q, l, q2, l2), Routed(q, l, q2, l2, p, x, t),
         key(at("tor", "m_queues", p), x) = key(a, Head(H[o][a])),
         Fits(L, at("tor", "m_queues", p), x, t)
  PROVE  Placed(Joined(H2), TorRecord(L, t, l, l2), t)
<1> DEFINE queue == Append(q[p], x)
<1>1. SeqLinks(q) /\ SeqLinks(l)  BY TorSeqs DEF Gives
<1>2. CASE q2[p] = queue /\ l2[p] = l[p]
  <2>1. Queued(q, l, q2, l2, p, x)  BY <1>2 DEF Queued, Routed
  <2>2. Placed(Joined(H2), L, t)  BY <2>1, QueueKeeps
  <2>3. \A r \in 0 .. 1 : l2[r] = l[r]  BY <1>2 DEF Routed
  <2>4. TorRecord(L, t, l, l2) = L  BY <1>1, <2>3, NoneGrown
  <2>5. QED  BY <2>2, <2>4
<1>3. CASE /\ q2[p] = Tail(queue)
           /\ l2[p] = Append(l[p], [pkt |-> Head(queue), at |-> t + NodeTx])
  <2> DEFINE q1 == [r \in 0 .. 1 |-> IF r = p THEN queue ELSE q[r]]
             H1 == [r \in Owners |-> IF r = "tor" THEN TorHolds(q1, l) ELSE H2[r]]
  <2>1. q1[p] = queue /\ \A r \in (0 .. 1) \ {p} : q1[r] = q[r]  OBVIOUS
  <2> HIDE DEF q1
  <2>2. /\ H1["tor"] = TorHolds(q1, l) /\ H2["tor"] = TorHolds(q2, l2)
        /\ \A r \in Owners \ {"tor"} : H1[r] = H2[r]
        BY DEF Owners, Gives
  <2> HIDE DEF H1
  <2>3. Gives(H, H1, o, a, q, l, q1, l)  BY <2>2 DEF Gives
  <2>4. Queued(q, l, q1, l, p, x)  BY <2>1 DEF Queued
  <2>5. Placed(Joined(H1), L, t)  BY <2>3, <2>4, QueueKeeps
  <2>6. queue # <<>>  BY <1>1, LongerSeq DEF SeqLinks
  <2>7. Forwards(H1, H2, q1, l, q2, l2, p, t)
        BY <1>3, <2>1, <2>2, <2>6 DEF Forwards, Routed
  <2>8. QED  BY <2>5, <2>7, ForwardKeeps
<1>4. QED  BY <1>2, <1>3 DEF Routed

\* The handlers of the switch.
LEMMA SwitchSends ==
  ASSUME NEW pkt, NEW port \in 0 .. 1, Tor!send_packet_to_node(pkt, port), LinksKept
  PROVE  /\ Routed(m_queues, to_node, m_queues', to_node', port, pkt, now)
         /\ DOMAIN m_queues' = 0 .. 1 /\ DOMAIN to_node' = 0 .. 1
<1> DEFINE queue == Append(m_queues[port], pkt)
<1>1. CASE m_queues' = [m_queues EXCEPT ![port] = queue] /\ to_node' = to_node
      BY <1>1 DEF Routed, LinksKept
<1>2. CASE /\ m_queues' = [m_queues EXCEPT ![port] = Tail(queue)]
           /\ to_node' = [to_node EXCEPT ![port] =
                            Append(@, [pkt |-> Head(queue), at |-> now + NodeTx])]
      BY <1>2 DEF Routed, LinksKept
<1>3. \A tx \in TxTimes : tx = NodeTx  BY NodeTxAssumption
<1> HIDE DEF queue
<1>4. Tor!send_packet_from_buffer_to_node(port, queue) =>
        /\ m_queues' = [m_queues EXCEPT ![port] = Tail(queue)]
        /\ to_node' = [to_node EXCEPT ![port] =
                         Append(@, [pkt |-> Head(queue), at |-> now + NodeTx])]
      BY <1>3 DEF Tor!send_packet_from_buffer_to_node
<1>5. QED  BY <1>1, <1>2, <1>4 DEF Tor!send_packet_to_node, queue

\* What the module of the network says of the records of the switch.
LEMMA TorRecorded ==
  ASSUME m_latency' = recorded_by_tor(to_node, to_node')
  PROVE  m_latency' = TorRecord(m_latency, now, to_node, to_node')
BY DEF TorRecord, LinkRecord, Added, recorded_by_tor, recorded_by_link, add_elements

\* The self-message of a port keeps the invariant.
LEMMA SwitchNextStep ==
  ASSUME JourneyInv, [NetNext]_netVars, NEW port \in 0 .. 1, SwitchNext(port)
  PROVE  JourneyInv'
<1>1. /\ Placed(Joined(Holdings), m_latency, now) /\ NodesKept /\ LinksKept /\ now \in Int
      BY DEF JourneyInv, GenInv, GenTypes
<1>2. /\ m_latency' = TorRecord(m_latency, now, to_node, to_node')
      /\ UNCHANGED <<nodeVars, otherVars, sinkVars, genVars>>
      BY TorRecorded DEF SwitchNext
<1>3. /\ now' = now /\ This' = This /\ That' = That
      /\ UNCHANGED <<m_hashtable, m_hashtable_1, m_gen_msg, gen_out, traces, n_read, reported>>
      BY <1>2 DEF otherVars, nodeVars, procVars, coreVars, outVars, tableVars, genVars, sinkVars,
                  This, That
<1>4. NodesKept'  BY <1>1, <1>3 DEF NodesKept
<1>5. /\ Holdings["tor"] = TorHolds(m_queues, to_node)
      /\ Holdings'["tor"] = TorHolds(m_queues', to_node')
      /\ \A r \in Owners \ {"tor"} : Holdings'[r] = Holdings[r]
      BY <1>3 DEF Holdings, Owners
<1>6. CASE UNCHANGED <<m_queues, to_node>>
  <2>1. Holdings' = Holdings  BY <1>3, <1>6 DEF Holdings
  <2>2. SeqLinks(to_node)  BY <1>1, <1>5, TorSeqs
  <2>3. m_latency' = m_latency  BY <1>2, <1>6, <2>2, NoneGrown
  <2>4. LinksKept'  BY <1>1, <1>3, <1>6 DEF LinksKept
  <2>5. QED  BY <1>1, <1>3, <1>4, <2>1, <2>3, <2>4, StepKept
<1>7. CASE /\ m_queues[port] # <<>>
           /\ Tor!send_packet_from_buffer_to_node(port, m_queues[port])
  <2>1. \A tx \in TxTimes : tx = NodeTx  BY NodeTxAssumption
  <2>2. /\ m_queues' = [m_queues EXCEPT ![port] = Tail(m_queues[port])]
        /\ to_node' = [to_node EXCEPT ![port] =
                         Append(@, [pkt |-> Head(m_queues[port]), at |-> now + NodeTx])]
        BY <1>7, <2>1 DEF Tor!send_packet_from_buffer_to_node
  <2>3. Forwards(Holdings, Holdings', m_queues, to_node, m_queues', to_node', port, now)
        BY <1>1, <1>5, <1>7, <2>2 DEF Forwards, LinksKept
  <2>4. Placed(Joined(Holdings'), m_latency', now')  BY <1>1, <1>2, <1>3, <2>3, ForwardKeeps
  <2>5. LinksKept'  BY <1>1, <1>3, <2>2 DEF LinksKept
  <2>6. DOMAIN m_latency' = DOMAIN m_latency  BY <1>2, TorDomain
  <2>7. QED  BY <1>3, <1>4, <2>4, <2>5, <2>6, StepKept
<1>8. QED  BY <1>6, <1>7 DEF SwitchNext, Tor!HandleSelf

\* The link of generator g delivers.
LEMMA GenLets ==
  ASSUME NEW msg, NEW out, NEW out2, NEW g \in Generators, out[g] # <<>>, out2[g] = Tail(out[g]),
         \A h \in Generators \ {g} : out2[h] = out[h]
  PROVE  LET a == at("gen", "gen_out", g)
         IN  /\ Removes(PlacesOf("gen"), GenHolds(msg, out), GenHolds(msg, out2), a)
             /\ GenHolds(msg, out)[a] = out[g] /\ a \in PlacesOf("gen") /\ kind(a) = "gen_out"
<1> DEFINE a == at("gen", "gen_out", g)
<1>1. GenHolds(msg, out)[a] = out[g] /\ GenHolds(msg, out2)[a] = out2[g]
  <2>1. GenHolds(msg, out)[at("gen", "gen_out", g)] = out[g]  BY GenAt
  <2>2. GenHolds(msg, out2)[at("gen", "gen_out", g)] = out2[g]  BY GenAt
  <2>3. QED  BY <2>1, <2>2
<1>2. ASSUME NEW pl \in PlacesOf("gen") \ {a}
      PROVE  GenHolds(msg, out2)[pl] = GenHolds(msg, out)[pl]
  <2>1. PICK h \in Generators : pl = at("gen", "m_gen_msg", h) \/ pl = at("gen", "gen_out", h)
        BY <1>2, GenPlaces
  <2>2. CASE pl = at("gen", "m_gen_msg", h)
    <3>1. GenHolds(msg, out)[at("gen", "m_gen_msg", h)] = waiting(msg[h], NoPacket)  BY GenAt
    <3>2. GenHolds(msg, out2)[at("gen", "m_gen_msg", h)] = waiting(msg[h], NoPacket)  BY GenAt
    <3>3. QED  BY <2>2, <3>1, <3>2
  <2>3. CASE pl = at("gen", "gen_out", h)
    <3>1. h # g  BY <1>2, <2>3
    <3>2. GenHolds(msg, out)[at("gen", "gen_out", h)] = out[h]  BY GenAt
    <3>3. GenHolds(msg, out2)[at("gen", "gen_out", h)] = out2[h]  BY GenAt
    <3>4. QED  BY <2>3, <3>1, <3>2, <3>3
  <2>4. QED  BY <2>1, <2>2, <2>3
<1>3. a \in PlacesOf("gen") /\ kind(a) = "gen_out"  BY SomePlaces DEF at, kind
<1> HIDE DEF a
<1>4. Removes(PlacesOf("gen"), GenHolds(msg, out), GenHolds(msg, out2), a)
      BY <1>1, <1>2 DEF Removes
<1>5. QED  BY <1>1, <1>3, <1>4 DEF a

\* A packet that comes from a generator keeps it.
LEMMA SwitchTakesStep ==
  ASSUME JourneyInv, [NetNext]_netVars, NEW g \in Generators, SwitchTakes(g)
  PROVE  JourneyInv'
<1> DEFINE a == at("gen", "gen_out", g)
           y == Head(gen_out[g])
           port == Tor!select_output_port(y.pkt.flow)
           b == at("tor", "m_queues", port)
<1>1. /\ Placed(Joined(Holdings), m_latency, now) /\ NodesKept /\ LinksKept /\ now \in Int
      BY DEF JourneyInv, GenInv, GenTypes
<1>2. /\ gen_out[g] # <<>> /\ gen_out' = [gen_out EXCEPT ![g] = Tail(@)]
      /\ Tor!send_packet_to_node(y.pkt, port)
      /\ m_latency' = TorRecord(m_latency, now, to_node, to_node')
      /\ UNCHANGED <<nodeVars, otherVars, sinkVars, traces, n_read, m_gen_msg>>
  <2>1. m_latency' = TorRecord(m_latency, now, to_node, to_node')
        BY TorRecorded DEF SwitchTakes
  <2>2. Tor!send_packet_to_node(y.pkt, port)  BY DEF SwitchTakes
  <2>3. QED  BY <2>1, <2>2 DEF SwitchTakes
<1>3. /\ now' = now /\ This' = This /\ That' = That
      /\ UNCHANGED <<m_hashtable, m_hashtable_1, reported>>
      BY <1>2 DEF otherVars, nodeVars, procVars, coreVars, outVars, tableVars, sinkVars,
                  This, That
<1>4. NodesKept'  BY <1>1, <1>3 DEF NodesKept
<1>5. /\ gen_out'[g] = Tail(gen_out[g]) /\ DOMAIN gen_out' = Generators
      /\ \A h \in Generators \ {g} : gen_out'[h] = gen_out[h]
      BY <1>1, <1>2 DEF LinksKept
<1>6. /\ Holdings["tor"] = TorHolds(m_queues, to_node)
      /\ Holdings'["tor"] = TorHolds(m_queues', to_node')
      /\ Holdings["gen"] = GenHolds(m_gen_msg, gen_out)
      /\ Holdings'["gen"] = GenHolds(m_gen_msg, gen_out')
      /\ \A r \in Owners \ {"gen", "tor"} : Holdings'[r] = Holdings[r]
      BY <1>2, <1>3 DEF Holdings, Owners
<1>7. /\ Removes(PlacesOf("gen"), Holdings["gen"], Holdings'["gen"], a)
      /\ Holdings["gen"][a] = gen_out[g] /\ a \in PlacesOf("gen") /\ kind(a) = "gen_out"
  <2>1. PICK out2 : out2 = gen_out'  OBVIOUS
  <2>2. out2[g] = Tail(gen_out[g]) /\ \A h \in Generators \ {g} : out2[h] = gen_out[h]
        BY <1>5, <2>1
  <2>0. gen_out[g] # <<>>  BY <1>2
  <2>3. /\ Removes(PlacesOf("gen"), GenHolds(m_gen_msg, gen_out), GenHolds(m_gen_msg, out2), a)
        /\ GenHolds(m_gen_msg, gen_out)[a] = gen_out[g]
        /\ a \in PlacesOf("gen") /\ kind(a) = "gen_out"
        BY ONLY <2>0, <2>2, g \in Generators, GenLets
  <2>4. QED  BY <1>6, <2>1, <2>3
<1>8. "gen" \in Owners /\ "gen" # "tor"  BY DEF Owners
<1> HIDE DEF a
<1>9. Fits(m_latency, a, y, now)
  <2>1. Holdings["gen"][a] # <<>>  BY <1>2, <1>7
  <2>2. Fits(m_latency, a, Head(Holdings["gen"][a]), now)  BY <1>1, <1>7, <1>8, <2>1, GivenFits
  <2>3. QED  BY <1>7, <2>2
<1> HIDE DEF y
<1>10. port \in 0 .. 1
  <2>1. y.pkt.flow \in Flows  BY <1>7, <1>9 DEF Fits, Suits, pkt_of, timed
  <2>2. Crc32[y.pkt.flow] \in Nat  BY <2>1, CrcAssumption
  <2>3. port = Crc32[y.pkt.flow] % 2  BY DEF Tor!select_output_port
  <2>4. QED  BY <2>2, <2>3
<1> HIDE DEF port
<1>11. Fits(m_latency, b, y.pkt, now) /\ key(b, y.pkt) = key(a, y)
  <2>1. kind(b) = "m_queues"  BY DEF at, kind
  <2> HIDE DEF b
  <2>2. QED  BY <1>1, <1>7, <1>9, <2>1, FitsTaken
<1>12. /\ Routed(m_queues, to_node, m_queues', to_node', port, y.pkt, now)
       /\ DOMAIN m_queues' = 0 .. 1 /\ DOMAIN to_node' = 0 .. 1
       BY <1>1, <1>2, <1>10, SwitchSends
<1>13. Gives(Holdings, Holdings', "gen", a, m_queues, to_node, m_queues', to_node')
       BY <1>6, <1>7, <1>8 DEF Gives
<1>14. y = Head(Holdings["gen"][a])  BY <1>7 DEF y
<1>15. Placed(Joined(Holdings'), m_latency', now')
  <2>1. Placed(Joined(Holdings'), TorRecord(m_latency, now, to_node, to_node'), now)
        BY <1>1, <1>10, <1>11, <1>12, <1>13, <1>14, RouteKeeps
  <2>2. QED  BY <1>2, <1>3, <2>1
<1>16. LinksKept'  BY <1>5, <1>12 DEF LinksKept
<1>17. DOMAIN m_latency' = DOMAIN m_latency  BY <1>2, TorDomain
<1>18. QED  BY <1>2, <1>3, <1>4, <1>15, <1>16, <1>17, StepKept

-----------------------------------------------------------------------------
(* What leaves a node.                                                     *)

\* What the Sink reports of a packet that comes out of a node.
LEMMA SinkReports ==
  ASSUME IsSeq(reported), LatencyAccounted, NEW a, NEW y, kind(a) = "port_out",
         Fits(m_latency, a, y, now), y.at = now, SinkTakes(y.pkt),
         \A k \in DOMAIN m_latency : m_latency[k] \in Records
  PROVE  IsSeq(reported') /\ LatencyAccounted'
<1> DEFINE pkt == y.pkt
           lat == m_latency[<<pkt.flow, pkt.id>>]
           parts == [t \in LatencyTypes |-> get_total_latency_by_type(lat, t)]
           r == [flow |-> pkt.flow, id |-> pkt.id, hop_cnt |-> pkt.hop_cnt,
                 end_to_end |-> get_end_to_end_latency(lat), parts |-> parts]
           n == Len(reported) + 1
<1>1. reported' = Append(reported, r)  BY DEF SinkTakes
<1>2. /\ IsSeq(reported') /\ DOMAIN reported' = DOMAIN reported \cup {n}
      /\ reported'[n] = r /\ \A i \in DOMAIN reported : reported'[i] = reported[i]
  <2> HIDE DEF r
  <2>1. QED  BY <1>1, LongerSeq
<1>3. timed(a) /\ pkt_of(a, y) = pkt  BY DEF timed, pkt_of
<1>4. key(a, y) = <<pkt.flow, pkt.id>> /\ until(a, y) = now
      BY <1>3 DEF key, until
<1>5. transmissions(a, y) = 2 * pkt.hop_cnt /\ pkt.hop_cnt \in Nat
  <2>1. pkt.hop_cnt \in Nat  BY <1>3 DEF Fits, Suits
  <2>2. QED  BY <1>3, <2>1 DEF transmissions
<1>6. now - lat.t_generation = Total(lat.elements) + 2 * pkt.hop_cnt * NodeTx - GenTx
      BY <1>4, <1>5 DEF Fits, Accounted
<1>7. lat.elements \in Seq(Elements)  BY <1>4 DEF Fits, Accounted, Records
<1>8. parts = [t \in LatencyTypes |->
                 get_total_latency_by_type([elements |-> lat.elements], t)]
  <2> HIDE DEF lat
  <2>1. QED  BY <1>7, TotalOfElements
<1>9. SumFunction(parts) = Total(lat.elements)  BY <1>8 DEF Total
<1>10. r.end_to_end = SumFunction(r.parts) + 2 * r.hop_cnt * NodeTx - GenTx
  <2> HIDE DEF lat, parts
  <2>1. /\ r.end_to_end = now - lat.t_generation /\ r.parts = parts
        /\ r.hop_cnt = pkt.hop_cnt
        BY DEF get_end_to_end_latency
  <2> HIDE DEF r, pkt
  <2>2. QED  BY <1>6, <1>9, <2>1
<1> HIDE DEF r, n
<1>11. NodeTx' = NodeTx /\ GenTx' = GenTx  OBVIOUS
<1>12. ASSUME NEW i \in DOMAIN reported'
       PROVE  reported'[i].end_to_end =
                SumFunction(reported'[i].parts) + 2 * reported'[i].hop_cnt * NodeTx - GenTx
  <2>1. CASE i = n  BY <1>2, <1>10, <2>1
  <2>2. CASE i # n  BY <1>2, <1>12, <2>2 DEF LatencyAccounted
  <2>3. QED  BY <2>1, <2>2
<1>13. QED  BY <1>2, <1>12 DEF LatencyAccounted

\* The link of node o delivers.
Departs(n, m) ==
  /\ n.link # <<>> /\ m.link = Tail(n.link)
  /\ m.in = n.in /\ m.proc = n.proc /\ m.off = n.off /\ m.rx = n.rx /\ m.core = n.core
  /\ m.done = n.done /\ m.queue = n.queue /\ m.busy = n.busy

\* The packet is no longer on the link.
LEMMA DepartRemoves ==
  ASSUME NEW o \in Nodes, NEW n, NEW m, Departs(n, m)
  PROVE  /\ Removes(PlacesOf(o), NodeHolds(o, n), NodeHolds(o, m), at(o, "port_out", 0))
         /\ NodeHolds(o, n)[at(o, "port_out", 0)] = n.link
<1> DEFINE a == at(o, "port_out", 0)
<1>1. NodeHolds(o, n)[a] = n.link /\ NodeHolds(o, m)[a] = m.link  BY NodeAt DEF Nodes
<1>2. Untouched(o, n, m, {a})  BY DEF Departs, Untouched
<1>3. NodeHolds(o, n)[a] # <<>> /\ NodeHolds(o, m)[a] = Tail(NodeHolds(o, n)[a])
      BY <1>1 DEF Departs
<1> HIDE DEF a
<1>4. Removes(PlacesOf(o), NodeHolds(o, n), NodeHolds(o, m), a)  BY <1>2, <1>3, NodeLets
<1>5. QED  BY <1>1, <1>4 DEF a

\* The Sink takes the packet.
Collects(H, H2, o, n, m) ==
  /\ Departs(n, m) /\ H[o] = NodeHolds(o, n) /\ H2[o] = NodeHolds(o, m)
  /\ \A r \in Owners \ {o} : H2[r] = H[r]

\* Until then it fits there.
LEMMA DepartFits ==
  ASSUME NEW H, NEW L, NEW t, NEW o \in Nodes, NEW n, H[o] = NodeHolds(o, n), n.link # <<>>,
         Placed(Joined(H), L, t)
  PROVE  Fits(L, at(o, "port_out", 0), Head(n.link), t)
<1> DEFINE a == at(o, "port_out", 0)
<1>1. a \in PlacesOf(o)  BY SomePlaces DEF Nodes
<1>2. NodeHolds(o, n)[a] = n.link  BY NodeAt DEF Nodes
<1>3. o \in Owners  BY DEF Nodes, Owners
<1> HIDE DEF a
<1>4. Fits(L, a, Head(H[o][a]), t)  BY <1>1, <1>2, <1>3, GivenFits
<1>5. QED  BY <1>2, <1>4 DEF a

\* The other packets stay where they are.
LEMMA CollectKeeps ==
  ASSUME NEW H, NEW H2, NEW L, NEW t, NEW o \in Nodes, NEW n, NEW m,
         Placed(Joined(H), L, t), Collects(H, H2, o, n, m)
  PROVE  Placed(Joined(H2), L, t)
<1> DEFINE a == at(o, "port_out", 0)
<1>1. Departs(n, m) /\ H[o] = NodeHolds(o, n) /\ H2[o] = NodeHolds(o, m)
      BY DEF Collects
<1>2. Removes(PlacesOf(o), H[o], H2[o], a)  BY <1>1, DepartRemoves
<1>3. a \in PlacesOf(o)  BY SomePlaces DEF Nodes
<1>4. o \in Owners /\ \A r \in Owners \ {o} : H2[r] = H[r]  BY DEF Nodes, Owners, Collects
<1> HIDE DEF a
<1>5. Removes(Places, Joined(H), Joined(H2), a)  BY <1>2, <1>3, <1>4, LiftRemoves
<1>6. a \in Places  BY <1>3, <1>4, OwnerPlaces
<1>7. QED  BY <1>5, <1>6, RemoveKeeps

\* The switch sends the packet of a node on.
Returns(H, H2, o, n, m, q, l, q2, l2) ==
  /\ Departs(n, m) /\ H[o] = NodeHolds(o, n) /\ H2[o] = NodeHolds(o, m)
  /\ H["tor"] = TorHolds(q, l) /\ H2["tor"] = TorHolds(q2, l2)
  /\ \A r \in Owners \ {o, "tor"} : H2[r] = H[r]

\* The packet that is not processed fits where the switch puts it.
LEMMA ReturnKeeps ==
  ASSUME NEW H, NEW H2, NEW L, NEW t \in Int, NEW o \in Nodes, NEW n, NEW m,
         NEW q, NEW l, NEW q2, NEW l2, NEW p \in 0 .. 1,
         Placed(Joined(H), L, t), Returns(H, H2, o, n, m, q, l, q2, l2),
         Head(n.link).at = t, ~Head(n.link).pkt.processing_done,
         Routed(q, l, q2, l2, p, delivered(Head(n.link).pkt, t), t)
  PROVE  Placed(Joined(H2), TorRecord(L, t, l, l2), t)
<1> DEFINE a == at(o, "port_out", 0)
           b == at("tor", "m_queues", p)
           y == Head(n.link)
           x == delivered(y.pkt, t)
<1>1. Departs(n, m) /\ H[o] = NodeHolds(o, n) /\ H2[o] = NodeHolds(o, m)
      BY DEF Returns
<1>2. Removes(PlacesOf(o), H[o], H2[o], a) /\ H[o][a] = n.link  BY <1>1, DepartRemoves
<1>3. a \in PlacesOf(o)  BY SomePlaces DEF Nodes
<1>4. kind(a) = "port_out" /\ kind(b) = "m_queues"  BY DEF at, kind
<1>5. n.link # <<>>  BY <1>1 DEF Departs
<1>6. Fits(L, a, y, t)  BY <1>1, <1>5, DepartFits
<1>7. y.at = t /\ ~y.pkt.processing_done /\ Routed(q, l, q2, l2, p, x, t)  OBVIOUS
<1> HIDE DEF a
<1>8. Gives(H, H2, o, a, q, l, q2, l2)  BY <1>2, <1>3 DEF Gives, Returns, Nodes, Owners
<1>9. Head(H[o][a]) = y  BY <1>2
<1>10. Fits(L, b, x, t) /\ key(b, x) = key(a, y)
  <2> HIDE DEF b, y
  <2>1. QED  BY <1>4, <1>6, <1>7, FitsBack
<1> HIDE DEF x, y
<1>11. QED  BY <1>7, <1>8, <1>9, <1>10, RouteKeeps

\* A packet that leaves one node keeps the invariant.
LEMMA NodeSendsStep ==
  ASSUME JourneyInv, [NetNext]_netVars, NodeSends
  PROVE  JourneyInv'
<1> DEFINE y == Head(port_out)
           a == at("node", "port_out", 0)
           next == Tor!next_port(y.pkt.flow, 0)
<1>1. /\ Placed(Joined(Holdings), m_latency, now) /\ NodesKept /\ LinksKept /\ now \in Int
      /\ IsSeq(reported) /\ LatencyAccounted
      BY DEF JourneyInv, GenInv, GenTypes
<1>2. /\ Depart /\ y.at = now /\ from_node(y.pkt, 0)
      /\ UNCHANGED <<otherVars, genVars>>
      BY DEF NodeSends, Depart, LinkDelivers
<1>3. /\ Departs(This, This') /\ This.link = port_out /\ now' = now /\ m_hashtable' = m_hashtable
      BY <1>2 DEF Depart, LinkDelivers, Departs, This, procVars, coreVars, tableVars
<1>4. /\ That' = That /\ m_hashtable_1' = m_hashtable_1
      /\ UNCHANGED <<m_gen_msg, gen_out, traces, n_read>>
      BY <1>2 DEF otherVars, genVars, That
<1>5. NodesKept'
  <2>1. NodeKept(This')  BY <1>1, <1>3 DEF NodesKept, NodeKept, Departs
  <2>2. QED  BY <1>1, <1>3, <1>4, <2>1 DEF NodesKept
<1>6. /\ Holdings["tor"] = TorHolds(m_queues, to_node)
      /\ Holdings'["tor"] = TorHolds(m_queues', to_node')
      /\ Holdings["node"] = NodeHolds("node", This)
      /\ Holdings'["node"] = NodeHolds("node", This')
      /\ \A r \in Owners \ {"node", "tor"} : Holdings'[r] = Holdings[r]
      BY <1>4 DEF Holdings, Owners
<1>7. "node" \in Nodes /\ "node" # "tor"  BY DEF Nodes
<1>8. Fits(m_latency, a, y, now) /\ kind(a) = "port_out"
  <2>1. This.link # <<>>  BY <1>3 DEF Departs
  <2>2. Fits(m_latency, a, Head(This.link), now)  BY <1>1, <1>6, <1>7, <2>1, DepartFits
  <2>3. kind(a) = "port_out"  BY DEF at, kind
  <2>4. QED  BY <1>3, <2>2, <2>3
<1>9. y = Head(This.link)  BY <1>3
<1> HIDE DEF a, y
<1>10. CASE y.pkt.processing_done /\ SinkTakes(y.pkt) /\ UNCHANGED <<switchVars, m_latency>>
  <2>1. UNCHANGED <<m_queues, to_node, m_latency>>  BY <1>10 DEF switchVars
  <2>2. Collects(Holdings, Holdings', "node", This, This')
    <3>1. Holdings'["tor"] = Holdings["tor"]  BY <1>6, <2>1
    <3>2. \A r \in Owners \ {"node"} : Holdings'[r] = Holdings[r]  BY <1>6, <3>1
    <3>3. QED  BY <1>3, <1>6, <3>2 DEF Collects
  <2>3. Placed(Joined(Holdings'), m_latency, now)  BY <1>1, <1>7, <2>2, CollectKeeps
  <2>4. \A k \in DOMAIN m_latency : m_latency[k] \in Records  BY <1>1 DEF Placed
  <2>5. IsSeq(reported') /\ LatencyAccounted'
        BY <1>1, <1>2, <1>8, <1>10, <2>4, SinkReports
  <2>6. LinksKept'  BY <1>1, <1>4, <2>1 DEF LinksKept
  <2>7. Placed(Joined(Holdings'), m_latency', now')  BY <1>3, <2>1, <2>3
  <2>8. QED  BY <1>4, <1>5, <2>1, <2>5, <2>6, <2>7, StepTaken
<1>11. CASE /\ ~y.pkt.processing_done
            /\ Tor!send_packet_to_node(delivered(y.pkt, now), next)
            /\ m_latency' = recorded_by_tor(to_node, to_node')
            /\ UNCHANGED sinkVars
  <2>1. next \in 0 .. 1
    <3>1. y.pkt.flow \in Flows  BY <1>8 DEF Fits, Suits, pkt_of, timed
    <3>2. next = IF Toeplitz[y.pkt.flow] % 2 = 0 THEN (0 + 1) % 2
                 ELSE IF 0 > 0 THEN 0 - 1 ELSE 2 - 1
          BY DEF Tor!next_port
    <3>3. QED  BY <3>2
  <2>2. m_latency' = TorRecord(m_latency, now, to_node, to_node')  BY <1>11, TorRecorded
  <2>3. reported' = reported  BY <1>11 DEF sinkVars
  <2> HIDE DEF next
  <2>4. /\ Routed(m_queues, to_node, m_queues', to_node', next, delivered(y.pkt, now), now)
        /\ DOMAIN m_queues' = 0 .. 1 /\ DOMAIN to_node' = 0 .. 1
        BY <1>1, <1>11, <2>1, SwitchSends
  <2>5. Returns(Holdings, Holdings', "node", This, This', m_queues, to_node, m_queues', to_node')
        BY <1>3, <1>6 DEF Returns
  <2>6. Placed(Joined(Holdings'), TorRecord(m_latency, now, to_node, to_node'), now)
    <3>1. /\ Head(This.link).at = now /\ ~Head(This.link).pkt.processing_done
          /\ Routed(m_queues, to_node, m_queues', to_node', next,
                    delivered(Head(This.link).pkt, now), now)
          BY <1>2, <1>9, <1>11, <2>4
    <3>2. QED  BY <1>1, <1>7, <2>1, <2>5, <3>1, ReturnKeeps
  <2>7. Placed(Joined(Holdings'), m_latency', now')  BY <1>3, <2>2, <2>6
  <2>8. LinksKept'  BY <1>1, <1>4, <2>4 DEF LinksKept
  <2>9. DOMAIN m_latency' = DOMAIN m_latency  BY <2>2, TorDomain
  <2>10. QED  BY <1>4, <1>5, <2>3, <2>7, <2>8, <2>9, StepKept
<1>12. QED  BY <1>2, <1>10, <1>11 DEF from_node

\* A packet that leaves the other node keeps it.
LEMMA OtherSendsStep ==
  ASSUME JourneyInv, [NetNext]_netVars, OtherSends
  PROVE  JourneyInv'
<1> DEFINE y == Head(port_out_1)
           a == at("other", "port_out", 0)
           next == Tor!next_port(y.pkt.flow, 1)
<1>1. /\ Placed(Joined(Holdings), m_latency, now) /\ NodesKept /\ LinksKept /\ now \in Int
      /\ IsSeq(reported) /\ LatencyAccounted
      BY DEF JourneyInv, GenInv, GenTypes
<1>2. /\ Other!Depart /\ y.at = now /\ from_node(y.pkt, 1)
      /\ UNCHANGED <<nodeVars, genVars>>
      BY DEF OtherSends, Other!Depart, Other!LinkDelivers
<1>3. /\ Departs(That, That') /\ That.link = port_out_1 /\ now' = now
      /\ m_hashtable_1' = m_hashtable_1
      BY <1>2 DEF Other!Depart, Other!LinkDelivers, Departs, That, Other!procVars,
             Other!coreVars, Other!tableVars
<1>4. /\ This' = This /\ m_hashtable' = m_hashtable
      /\ UNCHANGED <<m_gen_msg, gen_out, traces, n_read>>
      BY <1>2 DEF nodeVars, procVars, coreVars, outVars, tableVars, genVars, This
<1>5. NodesKept'
  <2>1. NodeKept(That')  BY <1>1, <1>3 DEF NodesKept, NodeKept, Departs
  <2>2. QED  BY <1>1, <1>3, <1>4, <2>1 DEF NodesKept
<1>6. /\ Holdings["tor"] = TorHolds(m_queues, to_node)
      /\ Holdings'["tor"] = TorHolds(m_queues', to_node')
      /\ Holdings["other"] = NodeHolds("other", That)
      /\ Holdings'["other"] = NodeHolds("other", That')
      /\ \A r \in Owners \ {"other", "tor"} : Holdings'[r] = Holdings[r]
      BY <1>4 DEF Holdings, Owners
<1>7. "other" \in Nodes /\ "other" # "tor"  BY DEF Nodes
<1>8. Fits(m_latency, a, y, now) /\ kind(a) = "port_out"
  <2>1. That.link # <<>>  BY <1>3 DEF Departs
  <2>2. Fits(m_latency, a, Head(That.link), now)  BY <1>1, <1>6, <1>7, <2>1, DepartFits
  <2>3. kind(a) = "port_out"  BY DEF at, kind
  <2>4. QED  BY <1>3, <2>2, <2>3
<1>9. y = Head(That.link)  BY <1>3
<1> HIDE DEF a, y
<1>10. CASE y.pkt.processing_done /\ SinkTakes(y.pkt) /\ UNCHANGED <<switchVars, m_latency>>
  <2>1. UNCHANGED <<m_queues, to_node, m_latency>>  BY <1>10 DEF switchVars
  <2>2. Collects(Holdings, Holdings', "other", That, That')
    <3>1. Holdings'["tor"] = Holdings["tor"]  BY <1>6, <2>1
    <3>2. \A r \in Owners \ {"other"} : Holdings'[r] = Holdings[r]  BY <1>6, <3>1
    <3>3. QED  BY <1>3, <1>6, <3>2 DEF Collects
  <2>3. Placed(Joined(Holdings'), m_latency, now)  BY <1>1, <1>7, <2>2, CollectKeeps
  <2>4. \A k \in DOMAIN m_latency : m_latency[k] \in Records  BY <1>1 DEF Placed
  <2>5. IsSeq(reported') /\ LatencyAccounted'
        BY <1>1, <1>2, <1>8, <1>10, <2>4, SinkReports
  <2>6. LinksKept'  BY <1>1, <1>4, <2>1 DEF LinksKept
  <2>7. Placed(Joined(Holdings'), m_latency', now')  BY <1>3, <2>1, <2>3
  <2>8. QED  BY <1>4, <1>5, <2>1, <2>5, <2>6, <2>7, StepTaken
<1>11. CASE /\ ~y.pkt.processing_done
            /\ Tor!send_packet_to_node(delivered(y.pkt, now), next)
            /\ m_latency' = recorded_by_tor(to_node, to_node')
            /\ UNCHANGED sinkVars
  <2>1. next \in 0 .. 1
    <3>1. y.pkt.flow \in Flows  BY <1>8 DEF Fits, Suits, pkt_of, timed
    <3>2. next = IF Toeplitz[y.pkt.flow] % 2 = 0 THEN (1 + 1) % 2
                 ELSE IF 1 > 0 THEN 1 - 1 ELSE 2 - 1
          BY DEF Tor!next_port
    <3>3. QED  BY <3>2
  <2>2. m_latency' = TorRecord(m_latency, now, to_node, to_node')  BY <1>11, TorRecorded
  <2>3. reported' = reported  BY <1>11 DEF sinkVars
  <2> HIDE DEF next
  <2>4. /\ Routed(m_queues, to_node, m_queues', to_node', next, delivered(y.pkt, now), now)
        /\ DOMAIN m_queues' = 0 .. 1 /\ DOMAIN to_node' = 0 .. 1
        BY <1>1, <1>11, <2>1, SwitchSends
  <2>5. Returns(Holdings, Holdings', "other", That, That', m_queues, to_node, m_queues', to_node')
        BY <1>3, <1>6 DEF Returns
  <2>6. Placed(Joined(Holdings'), TorRecord(m_latency, now, to_node, to_node'), now)
    <3>1. /\ Head(That.link).at = now /\ ~Head(That.link).pkt.processing_done
          /\ Routed(m_queues, to_node, m_queues', to_node', next,
                    delivered(Head(That.link).pkt, now), now)
          BY <1>2, <1>9, <1>11, <2>4
    <3>2. QED  BY <1>1, <1>7, <2>1, <2>5, <3>1, ReturnKeeps
  <2>7. Placed(Joined(Holdings'), m_latency', now')  BY <1>3, <2>2, <2>6
  <2>8. LinksKept'  BY <1>1, <1>4, <2>4 DEF LinksKept
  <2>9. DOMAIN m_latency' = DOMAIN m_latency  BY <2>2, TorDomain
  <2>10. QED  BY <1>4, <1>5, <2>3, <2>7, <2>8, <2>9, StepKept
<1>12. QED  BY <1>2, <1>10, <1>11 DEF from_node

-----------------------------------------------------------------------------
(* Time.                                                                   *)

\* Only at the ingress of a node does it matter what time it is.
LEMMA TimeSuits ==
  ASSUME NEW pl, NEW x, NEW t, NEW u, Suits(pl, x, t), kind(pl) # "offload_in"
  PROVE  Suits(pl, x, u)
BY DEF Suits

\* Time may pass when nothing is at an ingress.
LEMMA TimeKeeps ==
  ASSUME NEW Q, NEW L, NEW t, NEW u, Placed(Q, L, t),
         \A a \in Places : kind(a) = "offload_in" => Q[a] = <<>>
  PROVE  Placed(Q, L, u)
<1>1. ASSUME NEW a \in Places, NEW i \in DOMAIN Q[a] PROVE Fits(L, a, Q[a][i], u)
  <2>1. kind(a) # "offload_in"  BY <1>1, NoElements
  <2>2. Fits(L, a, Q[a][i], t)  BY DEF Placed
  <2>3. QED  BY <2>1, <2>2, TimeSuits DEF Fits
<1>2. QED  BY <1>1 DEF Placed

\* Nothing is at an ingress if nothing is at either node.
LEMMA IngressEmpty ==
  ASSUME offload_in = <<>>, offload_in_1 = <<>>, NEW a \in Places, kind(a) = "offload_in"
  PROVE  Joined(Holdings)[a] = <<>>
<1>1. a[1] \in Owners /\ a \in PlacesOf(a[1])  BY OwnerPlaces
<1>2. Joined(Holdings)[a] = Holdings[a[1]][a]  BY DEF Joined
<1>3. a[1] # "gen" /\ a[1] # "tor"  BY <1>1 DEF PlacesOf, SpotsOf, kind
<1>4. CASE a[1] = "node"
  <2>1. Holdings["node"] = NodeHolds("node", This)  BY DEF Holdings, Owners
  <2>2. NodeHolds("node", This)[a] = This.in  BY <1>1, <1>4 DEF NodeHolds
  <2>3. QED  BY <1>2, <1>4, <2>1, <2>2 DEF This
<1>5. CASE a[1] = "other"
  <2>1. Holdings["other"] = NodeHolds("other", That)  BY DEF Holdings, Owners
  <2>2. NodeHolds("other", That)[a] = That.in  BY <1>1, <1>5 DEF NodeHolds
  <2>3. QED  BY <1>2, <1>5, <2>1, <2>2 DEF That
<1>6. QED  BY <1>1, <1>3, <1>4, <1>5 DEF Owners

\* The passing of time keeps the invariant.
LEMMA NetTickStep ==
  ASSUME JourneyInv, [NetNext]_netVars, NetTick
  PROVE  JourneyInv'
<1>1. Placed(Joined(Holdings), m_latency, now) /\ NodesKept /\ LinksKept
      BY DEF JourneyInv
<1>2. offload_in = <<>> /\ offload_in_1 = <<>>
      BY DEF NetTick, NodeTick, NodeQuiet, OffloadQuiet, Other!NodeTick, Other!NodeQuiet,
             Other!OffloadQuiet
<1>3. /\ This' = This /\ m_hashtable' = m_hashtable
      BY DEF NetTick, NodeTick, coreVars, tableVars, outVars, This
<1>4. /\ That' = That /\ m_hashtable_1' = m_hashtable_1
      BY DEF NetTick, Other!NodeTick, Other!coreVars, Other!tableVars, Other!outVars, That
<1>5. UNCHANGED <<m_queues, to_node, m_gen_msg, gen_out, traces, n_read, m_latency, reported>>
      BY DEF NetTick, switchVars, genVars, sinkVars
<1>6. Holdings' = Holdings  BY <1>3, <1>4, <1>5 DEF Holdings
<1>7. Placed(Joined(Holdings'), m_latency', now')
  <2>1. \A a \in Places : kind(a) = "offload_in" => Joined(Holdings)[a] = <<>>
        BY <1>2, IngressEmpty
  <2>2. Placed(Joined(Holdings), m_latency, now')  BY <1>1, <2>1, TimeKeeps
  <2>3. QED  BY <1>5, <1>6, <2>2
<1>8. NodesKept'  BY <1>1, <1>3, <1>4 DEF NodesKept
<1>9. LinksKept'  BY <1>1, <1>5 DEF LinksKept
<1>10. QED  BY <1>5, <1>7, <1>8, <1>9, StepKept

\* So does a step that changes nothing.
LEMMA StutterStep ==
  ASSUME JourneyInv, [NetNext]_netVars, UNCHANGED netVars
  PROVE  JourneyInv'
<1>1. Placed(Joined(Holdings), m_latency, now) /\ NodesKept /\ LinksKept
      BY DEF JourneyInv
<1>2. /\ This' = This /\ m_hashtable' = m_hashtable /\ now' = now
      BY DEF netVars, nodeVars, procVars, coreVars, tableVars, outVars, This
<1>3. /\ That' = That /\ m_hashtable_1' = m_hashtable_1
      BY DEF netVars, otherVars, That
<1>4. UNCHANGED <<m_queues, to_node, m_gen_msg, gen_out, traces, n_read, m_latency, reported>>
      BY DEF netVars, switchVars, genVars, sinkVars
<1>5. Holdings' = Holdings  BY <1>2, <1>3, <1>4 DEF Holdings
<1>6. Placed(Joined(Holdings'), m_latency', now')  BY <1>1, <1>2, <1>4, <1>5
<1>7. NodesKept'  BY <1>1, <1>2, <1>3 DEF NodesKept
<1>8. LinksKept'  BY <1>1, <1>4 DEF LinksKept
<1>9. QED  BY <1>4, <1>6, <1>7, <1>8, StepKept

-----------------------------------------------------------------------------
(* New packets.                                                            *)

\* No two packets of a flow of a trace have the same id.
LEMMA PacketIdsDiffer ==
  ASSUME NEW trace, NEW i \in Nat \ {0}, NEW j \in 1 .. i - 1, trace[j].key = trace[i].key
  PROVE  pkt_id(trace, j) # pkt_id(trace, i)
<1> DEFINE T(n) == {m \in 1 .. n - 1 : trace[m].key = trace[i].key}
<1>1. /\ pkt_id(trace, i) = Cardinality(T(i))
      /\ pkt_id(trace, j) = Cardinality(T(j))
      BY DEF pkt_id
<1>2. j \in Nat /\ j - 1 \in Nat /\ j < i  OBVIOUS
<1>3. T(j) \subseteq T(i) /\ j \in T(i) /\ j \notin T(j)  BY <1>2
<1>4. T(i) \in SUBSET (1 .. i - 1)  OBVIOUS
<1> HIDE DEF T
<1>5. IsFiniteSet(T(i))  BY <1>4, BeforeFinite
<1>6. Cardinality(T(i)) = Cardinality(T(j)) => T(i) = T(j)  BY <1>3, <1>5, FS_Subset
<1>7. QED  BY <1>1, <1>3, <1>6

\* A generator that creates the packet of a line has not created it before.
LEMMA FreshKey ==
  ASSUME GenInv, KeysKnown, NEW g \in Generators
  PROVE  packet_key(g, n_read[g] + 1) \notin DOMAIN m_latency
<1> DEFINE i == n_read[g] + 1
<1>1. n_read[g] \in Nat  BY DEF GenInv, GenTypes
<1>2. SUFFICES ASSUME NEW h \in Generators, NEW j \in 1 .. n_read[h],
                      packet_key(g, i) = packet_key(h, j)
               PROVE  FALSE
      BY DEF KeysKnown
<1>3. /\ g = h /\ traces[g][i].key = traces[h][j].key
      /\ pkt_id(traces[g], i) = pkt_id(traces[h], j)
      BY <1>2 DEF packet_key
<1>4. i \in Nat \ {0} /\ j \in 1 .. i - 1  BY <1>1, <1>2, <1>3
<1> HIDE DEF i
<1>5. QED  BY <1>3, <1>4, PacketIdsDiffer

\* A new packet of generator g, with its list.
Creates(g, t, instr, msg2, M) ==
  LET i == n_read[g] + 1
  IN  /\ msg2[g] = [pkt |-> new_packet(<<g, traces[g][i].key>>, pkt_id(traces[g], i), instr,
                                       t + GenTx),
                    at |-> t]
      /\ M = inserted(m_latency, packet_key(g, i),
                      [t_generation |-> t + 2 * GenTx, elements |-> <<>>])

\* The Flow of a packet is that of its line.
LEMMA FlowOfLine ==
  ASSUME GenInv, NEW g \in Generators
  PROVE  LET i == n_read[g] + 1
             fid == flow_id(traces[g], i)
         IN  inserted(m_flows[g], fid, new_flow(g, traces[g][i]))[fid].flow =
               <<g, traces[g][i].key>>
<1> DEFINE i == n_read[g] + 1
           fid == flow_id(traces[g], i)
           flows == inserted(m_flows[g], fid, new_flow(g, traces[g][i]))
<1>1. n_read[g] \in Nat /\ FlowsKnown(g) /\ i \in Nat \ {0}  BY DEF GenInv, GenTypes
<1>2. flows[fid] = IF fid \in DOMAIN m_flows[g] THEN m_flows[g][fid] ELSE new_flow(g, traces[g][i])
  <2> HIDE DEF fid
  <2>1. QED  BY DEF inserted
<1>3. CASE fid \in DOMAIN m_flows[g]
  <2>1. PICK j \in 1 .. n_read[g] :
          fid = flow_id(traces[g], j) /\ m_flows[g][fid] = new_flow(g, traces[g][j])
        BY <1>1, <1>3 DEF FlowsKnown
  <2>2. j \in Nat \ {0}  BY <1>1
  <2>3. traces[g][i].key = traces[g][j].key  BY <1>1, <2>1, <2>2, FlowIds
  <2> HIDE DEF fid, flows, i
  <2>4. flows[fid] = new_flow(g, traces[g][j])  BY <1>2, <1>3, <2>1
  <2>5. flows[fid].flow = <<g, traces[g][i].key>>  BY <2>3, <2>4 DEF new_flow
  <2>6. QED  BY <2>5 DEF fid, flows, i
<1>4. CASE fid \notin DOMAIN m_flows[g]
  <2> HIDE DEF fid, flows, i
  <2>1. flows[fid] = new_flow(g, traces[g][i])  BY <1>2, <1>4
  <2>2. flows[fid].flow = <<g, traces[g][i].key>>  BY <2>1 DEF new_flow
  <2>3. QED  BY <2>2 DEF fid, flows, i
<1>5. QED  BY <1>3, <1>4

\* What a generator does when it reads the next line.
Reads(g, msg2, M) ==
  /\ n_read[g] + 1 \in 1 .. Len(traces[g])
  /\ n_read' = [n_read EXCEPT ![g] = n_read[g] + 1]
  /\ \E t \in Int, instr \in Instrs : Creates(g, t, instr, msg2, M)

\* What a line of a trace is made of.
LEMMA LineTypes ==
  ASSUME GenTypes, NEW g \in Generators, NEW i \in 1 .. Len(traces[g])
  PROVE  /\ traces[g][i].sec \in Nat /\ traces[g][i].frac \in Nat
         /\ traces[g][i].key \in Keys /\ traces[g][i].instr \in Instrs
<1>1. traces[g] \in Seq(TraceLines)  BY DEF GenTypes
<1>2. traces[g][i] \in TraceLines  BY <1>1
<1>3. Second \in Nat  BY GeneratorsAssumption
<1>4. \A l \in TraceLines : /\ l.sec \in Nat /\ l.frac \in 0 .. Second - 1
                            /\ l.key \in Keys /\ l.instr \in Instrs
      BY DEF TraceLines
<1>5. \A f \in 0 .. Second - 1 : f \in Nat  BY <1>3
<1>6. QED  BY <1>2, <1>4, <1>5

\* A generator reads a line and creates its packet, or the trace is over.
LEMMA ScheduledPacket ==
  ASSUME GenInv, NEW g \in Generators, NEW first \in BOOLEAN, schedule_pcap_packet(g, first)
  PROVE  \/ /\ m_gen_msg' = [m_gen_msg EXCEPT ![g] = NoPacket]
            /\ UNCHANGED <<n_read, m_latency>>
         \/ /\ \A h \in Generators \ {g} : m_gen_msg'[h] = m_gen_msg[h]
            /\ Reads(g, m_gen_msg', m_latency')
<1> DEFINE i == n_read[g] + 1
           line == traces[g][i]
           offset == IF first THEN line.sec ELSE m_pcap_offset_sec[g]
           t == t_of(line, offset, first)
           fid == flow_id(traces[g], i)
           pid == pkt_id(traces[g], i)
           flow == inserted(m_flows[g], fid, new_flow(g, line))[fid].flow
           packet == new_packet(flow, pid, line.instr, t + GenTx)
<1>1. /\ n_read[g] \in Nat /\ Len(traces[g]) \in Nat /\ DOMAIN m_gen_msg = Generators
      /\ m_pcap_offset_sec[g] \in Nat
      BY DEF GenInv, GenTypes
<1>2. CASE /\ m_gen_msg' = [m_gen_msg EXCEPT ![g] = NoPacket]
           /\ UNCHANGED <<n_read, m_latency>>
      BY <1>2
<1>3. CASE /\ i <= Len(traces[g])
           /\ n_read' = [n_read EXCEPT ![g] = i]
           /\ m_latency' = set_t_generation(flow, pid, t_generation(t))
           /\ m_gen_msg' = [m_gen_msg EXCEPT ![g] = [pkt |-> packet, at |-> t]]
  <2>1. i \in 1 .. Len(traces[g])  BY <1>1, <1>3
  <2>2. flow = <<g, line.key>>  BY FlowOfLine
  <2>3. line.sec \in Nat /\ line.frac \in Nat /\ line.instr \in Instrs
        BY <2>1, LineTypes DEF GenInv
  <2>4. t \in Int
    <3>1. Second \in Nat  BY GeneratorsAssumption
    <3>2. offset \in Nat  BY <1>1, <2>3
    <3>3. \A a, b \in Int : a - b \in Int /\ a * b \in Int /\ a + b \in Int  OBVIOUS
    <3> HIDE DEF offset, line
    <3>4. (IF first THEN 0 ELSE (line.sec - offset) * Second) \in Int  BY <2>3, <3>1, <3>2, <3>3
    <3>5. QED  BY <2>3, <3>3, <3>4 DEF t_of
  <2>5. m_latency' = inserted(m_latency, <<flow, pid>>,
                              [t_generation |-> t + 2 * GenTx, elements |-> <<>>])
        BY <1>3 DEF set_t_generation, t_generation
  <2>6. m_gen_msg'[g] = [pkt |-> packet, at |-> t]  BY <1>1, <1>3
  <2>7. \A h \in Generators \ {g} : m_gen_msg'[h] = m_gen_msg[h]  BY <1>1, <1>3
  <2>8. packet_key(g, i) = <<flow, pid>>  BY <2>2 DEF packet_key
  <2> HIDE DEF t, flow
  <2>9. Creates(g, t, line.instr, m_gen_msg', m_latency')
        BY <2>2, <2>5, <2>6, <2>8 DEF Creates
  <2>10. Reads(g, m_gen_msg', m_latency')
    <3> HIDE DEF line
    <3>1. QED  BY <1>3, <2>1, <2>3, <2>4, <2>9 DEF Reads
  <2>11. QED  BY <2>7, <2>10
<1>4. QED  BY <1>2, <1>3 DEF schedule_pcap_packet

\* What changes in the generators is in S.
GenUntouched(msg, out, msg2, out2, S) ==
  \A h \in Generators : /\ msg2[h] = msg[h] \/ at("gen", "m_gen_msg", h) \in S
                        /\ out2[h] = out[h] \/ at("gen", "gen_out", h) \in S

\* Places that the generators leave alone hold what they held.
LEMMA GenSame ==
  ASSUME NEW msg, NEW out, NEW msg2, NEW out2, NEW S, GenUntouched(msg, out, msg2, out2, S),
         NEW pl \in PlacesOf("gen"), pl \notin S
  PROVE  GenHolds(msg2, out2)[pl] = GenHolds(msg, out)[pl]
<1>1. PICK h \in Generators : pl = at("gen", "m_gen_msg", h) \/ pl = at("gen", "gen_out", h)
      BY GenPlaces
<1>2. CASE pl = at("gen", "m_gen_msg", h)
  <2>1. msg2[h] = msg[h]  BY <1>2 DEF GenUntouched
  <2>2. GenHolds(msg, out)[at("gen", "m_gen_msg", h)] = waiting(msg[h], NoPacket)  BY GenAt
  <2>3. GenHolds(msg2, out2)[at("gen", "m_gen_msg", h)] = waiting(msg2[h], NoPacket)  BY GenAt
  <2>4. QED  BY <1>2, <2>1, <2>2, <2>3
<1>3. CASE pl = at("gen", "gen_out", h)
  <2>1. out2[h] = out[h]  BY <1>3 DEF GenUntouched
  <2>2. GenHolds(msg, out)[at("gen", "gen_out", h)] = out[h]  BY GenAt
  <2>3. GenHolds(msg2, out2)[at("gen", "gen_out", h)] = out2[h]  BY GenAt
  <2>4. QED  BY <1>3, <2>1, <2>2, <2>3
<1>4. QED  BY <1>1, <1>2, <1>3

\* Generator g puts its packet on the link.
Plays(H, H2, msg, out, msg2, out2, g, t) ==
  /\ H["gen"] = GenHolds(msg, out) /\ H2["gen"] = GenHolds(msg2, out2)
  /\ \A r \in Owners \ {"gen"} : H2[r] = H[r]
  /\ msg[g] # NoPacket /\ msg[g].at = t /\ msg2[g] = NoPacket
  /\ out2[g] = Append(out[g], [pkt |-> msg[g].pkt, at |-> t + GenTx])
  /\ \A h \in Generators \ {g} : msg2[h] = msg[h] /\ out2[h] = out[h]

\* The packet fits on the link of its generator.
LEMMA PlayKeeps ==
  ASSUME NEW H, NEW H2, NEW L, NEW t \in Int, NEW msg, NEW out, NEW msg2, NEW out2,
         NEW g \in Generators,
         Placed(Joined(H), L, t), Plays(H, H2, msg, out, msg2, out2, g, t)
  PROVE  Placed(Joined(H2), L, t)
<1> DEFINE a == at("gen", "m_gen_msg", g)
           b == at("gen", "gen_out", g)
           y == msg[g]
           x == [pkt |-> y.pkt, at |-> t + GenTx]
<1>1. /\ H["gen"] = GenHolds(msg, out) /\ H2["gen"] = GenHolds(msg2, out2)
      /\ \A r \in Owners \ {"gen"} : H2[r] = H[r]
      /\ y # NoPacket /\ y.at = t /\ msg2[g] = NoPacket
      /\ out2[g] = Append(out[g], x)
      /\ \A h \in Generators \ {g} : msg2[h] = msg[h] /\ out2[h] = out[h]
      BY DEF Plays
<1>2. H["gen"][a] = <<y>> /\ H2["gen"][a] = <<>>
  <2>1. GenHolds(msg, out)[at("gen", "m_gen_msg", g)] = waiting(msg[g], NoPacket)  BY GenAt
  <2>2. GenHolds(msg2, out2)[at("gen", "m_gen_msg", g)] = waiting(msg2[g], NoPacket)  BY GenAt
  <2>3. QED  BY <1>1, <2>1, <2>2 DEF waiting
<1>3. H["gen"][b] = out[g] /\ H2["gen"][b] = out2[g]
  <2>1. GenHolds(msg, out)[at("gen", "gen_out", g)] = out[g]  BY GenAt
  <2>2. GenHolds(msg2, out2)[at("gen", "gen_out", g)] = out2[g]  BY GenAt
  <2>3. QED  BY <1>1, <2>1, <2>2
<1>4. /\ kind(a) = "m_gen_msg" /\ kind(b) = "gen_out" /\ a # b
      /\ a \in PlacesOf("gen") /\ b \in PlacesOf("gen")
      BY SomePlaces DEF at, kind
<1>5. GenUntouched(msg, out, msg2, out2, {a, b})  BY <1>1 DEF GenUntouched
<1> HIDE DEF a, b
<1>6. ASSUME NEW pl \in PlacesOf("gen") \ {a, b} PROVE H2["gen"][pl] = H["gen"][pl]
      BY <1>1, <1>5, <1>6, GenSame
<1>7. H["gen"][a] # <<>> /\ Head(H["gen"][a]) = y /\ Tail(H["gen"][a]) = <<>>  BY <1>2
<1> HIDE DEF x
<1>8. Moves(PlacesOf("gen"), H["gen"], H2["gen"], a, b, x)
      BY <1>1, <1>2, <1>3, <1>4, <1>6, <1>7 DEF Moves
<1>9. "gen" \in Owners  BY DEF Owners
<1>10. Moves(Places, Joined(H), Joined(H2), a, b, x)  BY <1>1, <1>4, <1>8, <1>9, LiftMoves
<1>11. a \in Places /\ b \in Places /\ Joined(H)[a] = H["gen"][a]
       BY <1>4, <1>9, OwnerPlaces DEF Joined
<1>12. Fits(L, a, y, t)  BY <1>7, <1>11, FirstFits
<1>13. Fits(L, b, x, t) /\ key(b, x) = key(a, y)
  <2> HIDE DEF y
  <2>1. QED  BY <1>1, <1>4, <1>12, FitsSent DEF x
<1>14. Extends(L, L, key(b, x))  BY ExtendsSame
<1>15. key(b, x) = key(a, Head(Joined(H)[a]))  BY <1>7, <1>11, <1>13
<1>16. QED  BY <1>10, <1>11, <1>13, <1>14, <1>15, MoveKeeps

\* Generator g has no packet, and creates one.
Schedules(H, H2, msg, msg2, out, g) ==
  /\ H["gen"] = GenHolds(msg, out) /\ H2["gen"] = GenHolds(msg2, out)
  /\ \A r \in Owners \ {"gen"} : H2[r] = H[r]
  /\ msg[g] = NoPacket
  /\ \A h \in Generators \ {g} : msg2[h] = msg[h]

\* A list that is new does not concern the packets there are.
LEMMA NobodyHas ==
  ASSUME NEW Q, NEW L, NEW t, Placed(Q, L, t), NEW k, k \notin DOMAIN L
  PROVE  Absent(Q, k)
<1>1. ASSUME NEW a \in Places, NEW i \in DOMAIN Q[a], key(a, Q[a][i]) = k PROVE FALSE
  <2>1. Fits(L, a, Q[a][i], t)  BY DEF Placed
  <2>2. QED  BY <1>1, <2>1 DEF Fits, Accounted
<1>2. QED  BY <1>1 DEF Absent

\* The packets that there are fit as before.
LEMMA ListAdded ==
  ASSUME NEW Q, NEW L, NEW t, Placed(Q, L, t), NEW k, k \notin DOMAIN L, NEW M, Extends(L, M, k)
  PROVE  Placed(Q, M, t)
<1>1. ASSUME NEW a \in Places, NEW i \in DOMAIN Q[a] PROVE Fits(M, a, Q[a][i], t)
  <2>1. PICK y : y = Q[a][i]  OBVIOUS
  <2>2. Fits(L, a, y, t)  BY <2>1 DEF Placed
  <2>3. PICK j : j = key(a, y)  OBVIOUS
  <2>4. j \in DOMAIN M /\ M[j] = L[j]  BY <2>2, <2>3 DEF Extends, Fits, Accounted
  <2>5. Accounted(M, a, y)  BY <2>2, <2>3, <2>4 DEF Fits, Accounted
  <2>6. QED  BY <2>1, <2>2, <2>5 DEF Fits
<1>2. QED  BY <1>1 DEF Placed, Extends

\* The new packet fits where it waits to be sent.
LEMMA ScheduleKeeps ==
  ASSUME NEW H, NEW H2, NEW L, NEW M, NEW t, NEW msg, NEW msg2, NEW out, NEW g \in Generators,
         Placed(Joined(H), L, t), Schedules(H, H2, msg, msg2, out, g),
         NEW k, k \notin DOMAIN L, Extends(L, M, k),
         Fits(M, at("gen", "m_gen_msg", g), msg2[g], t),
         key(at("gen", "m_gen_msg", g), msg2[g]) = k
  PROVE  Placed(Joined(H2), M, t)
<1> DEFINE b == at("gen", "m_gen_msg", g)
           x == msg2[g]
<1>1. /\ H["gen"] = GenHolds(msg, out) /\ H2["gen"] = GenHolds(msg2, out)
      /\ \A r \in Owners \ {"gen"} : H2[r] = H[r]
      BY DEF Schedules
<1>2. H["gen"][b] = <<>> /\ H2["gen"][b] = waiting(x, NoPacket)
  <2>1. GenHolds(msg, out)[at("gen", "m_gen_msg", g)] = waiting(msg[g], NoPacket)  BY GenAt
  <2>2. GenHolds(msg2, out)[at("gen", "m_gen_msg", g)] = waiting(msg2[g], NoPacket)  BY GenAt
  <2>3. QED  BY <1>1, <2>1, <2>2 DEF waiting, Schedules
<1>3. b \in PlacesOf("gen") /\ "gen" \in Owners  BY SomePlaces DEF Owners
<1>4. GenUntouched(msg, out, msg2, out, {b})  BY DEF GenUntouched, Schedules
<1>5. Fits(M, b, x, t) /\ key(b, x) = k  OBVIOUS
<1> HIDE DEF b, x
<1>6. ASSUME NEW pl \in PlacesOf("gen") \ {b} PROVE H2["gen"][pl] = H["gen"][pl]
      BY <1>1, <1>4, <1>6, GenSame
<1>7. CASE x = NoPacket
  <2>1. \A pl \in PlacesOf("gen") : H2["gen"][pl] = H["gen"][pl]
        BY <1>2, <1>6, <1>7 DEF waiting
  <2>2. Joined(H2) = Joined(H)  BY <1>1, <2>1, OwnerPlaces DEF Joined
  <2>3. QED  BY <2>2, ListAdded
<1>8. CASE x # NoPacket
  <2>1. H2["gen"][b] = Append(H["gen"][b], x)  BY <1>2, <1>8 DEF waiting
  <2>2. Inserts(PlacesOf("gen"), H["gen"], H2["gen"], b, x)  BY <1>6, <2>1 DEF Inserts
  <2>3. Inserts(Places, Joined(H), Joined(H2), b, x)  BY <1>1, <1>3, <2>2, LiftInserts
  <2>4. Absent(Joined(H), key(b, x))  BY <1>5, NobodyHas
  <2>5. b \in Places  BY <1>3, OwnerPlaces
  <2>6. QED  BY <1>5, <2>3, <2>4, <2>5, InsertKeeps
<1>9. QED  BY <1>7, <1>8

\* The packet that a generator creates.
LEMMA CreatedFits ==
  ASSUME GenInv, KeysKnown, Placed(Joined(Holdings), m_latency, now), NEW g \in Generators,
         n_read[g] + 1 \in 1 .. Len(traces[g]), NEW u \in Int, NEW instr \in Instrs,
         NEW msg2, NEW M, Creates(g, u, instr, msg2, M)
  PROVE  LET b == at("gen", "m_gen_msg", g)
             k == packet_key(g, n_read[g] + 1)
         IN  /\ k \notin DOMAIN m_latency /\ Extends(m_latency, M, k)
             /\ Fits(M, b, msg2[g], now) /\ key(b, msg2[g]) = k
<1> DEFINE b == at("gen", "m_gen_msg", g)
           i == n_read[g] + 1
           flow == <<g, traces[g][i].key>>
           pid == pkt_id(traces[g], i)
           k == <<flow, pid>>
<1>1. packet_key(g, i) = k  BY DEF packet_key
<1>2. k \notin DOMAIN m_latency  BY <1>1, FreshKey
<1>3. flow \in Flows
  <2>1. traces[g][i].key \in Keys  BY LineTypes DEF GenInv
  <2>2. QED  BY <2>1, GeneratorsAssumption
<1>4. kind(b) = "m_gen_msg"  BY DEF at, kind
<1>5. \A j \in DOMAIN m_latency : m_latency[j] \in Records  BY DEF Placed
<1>6. /\ msg2[g] = [pkt |-> new_packet(flow, pid, instr, u + GenTx), at |-> u]
      /\ M = inserted(m_latency, k, [t_generation |-> u + 2 * GenTx, elements |-> <<>>])
      BY <1>1 DEF Creates
<1>7. pid \in Nat
  <2>1. i \in Nat \ {0}  OBVIOUS
  <2> HIDE DEF i
  <2>2. QED  BY <2>1, FirstPacketId
<1> HIDE DEF b, flow, pid
<1>8. Fits(M, b, msg2[g], now) /\ Extends(m_latency, M, k) /\ key(b, msg2[g]) = k
  <2> DEFINE x == [pkt |-> new_packet(flow, pid, instr, u + GenTx), at |-> u]
             N == inserted(m_latency, k, [t_generation |-> u + 2 * GenTx, elements |-> <<>>])
  <2> HIDE DEF i
  <2>1. Fits(N, b, x, now) /\ Extends(m_latency, N, k) /\ key(b, x) = k
        BY <1>2, <1>3, <1>4, <1>5, <1>7, FitsNew
  <2>2. msg2[g] = x /\ M = N  BY <1>6
  <2> HIDE DEF x, N
  <2>3. QED  BY <2>1, <2>2
<1>9. QED  BY <1>1, <1>2, <1>8 DEF b

\* It has a list, and no other packet gets one.
LEMMA CreatedDomain ==
  ASSUME NEW g, NEW u, NEW instr, NEW msg2, NEW M, Creates(g, u, instr, msg2, M)
  PROVE  DOMAIN M = DOMAIN m_latency \cup {packet_key(g, n_read[g] + 1)}
BY DEF Creates, inserted

\* The generator has read a line or come to the end of its trace.
LEMMA ReadKeeps ==
  ASSUME JourneyInv, NEW g \in Generators, NEW first \in BOOLEAN,
         schedule_pcap_packet(g, first), traces' = traces, now' = now,
         NEW H, NEW msg, Placed(Joined(H), m_latency, now),
         Schedules(H, Holdings', msg, m_gen_msg', gen_out', g),
         \A h \in Generators \ {g} : msg[h] = m_gen_msg[h]
  PROVE  Placed(Joined(Holdings'), m_latency', now') /\ KeysKnown'
<1>1. /\ GenInv /\ KeysKnown /\ Placed(Joined(Holdings), m_latency, now)
      /\ n_read \in [Generators -> Nat] /\ DOMAIN m_gen_msg = Generators
      BY DEF JourneyInv, GenInv, GenTypes
<1>2. \A h, i : packet_key(h, i)' = packet_key(h, i)  BY DEF packet_key
<1>3. CASE /\ m_gen_msg' = [m_gen_msg EXCEPT ![g] = NoPacket]
           /\ UNCHANGED <<n_read, m_latency>>
  <2>1. /\ m_gen_msg'[g] = NoPacket
        /\ \A h \in Generators \ {g} : m_gen_msg'[h] = msg[h]
        BY <1>1, <1>3
  <2>2. GenUntouched(msg, gen_out', m_gen_msg', gen_out', {})
        BY <2>1 DEF GenUntouched, Schedules
  <2>3. \A pl \in PlacesOf("gen") : Holdings'["gen"][pl] = H["gen"][pl]
        BY <2>2, GenSame DEF Schedules
  <2>4. \A r \in Owners \ {"gen"} : Holdings'[r] = H[r]  BY DEF Schedules
  <2>5. Joined(Holdings') = Joined(H)  BY <2>3, <2>4, OwnerPlaces DEF Joined
  <2>6. KeysKnown'  BY <1>1, <1>2, <1>3 DEF KeysKnown
  <2>7. m_latency' = m_latency  BY <1>3
  <2>8. QED  BY <2>5, <2>6, <2>7
<1>4. CASE Reads(g, m_gen_msg', m_latency')
  <2> DEFINE k == packet_key(g, n_read[g] + 1)
             b == at("gen", "m_gen_msg", g)
  <2>1. PICK u \in Int, instr \in Instrs : Creates(g, u, instr, m_gen_msg', m_latency')
        BY <1>4 DEF Reads
  <2>2. /\ n_read[g] + 1 \in 1 .. Len(traces[g])
        /\ n_read' = [n_read EXCEPT ![g] = n_read[g] + 1]
        BY <1>4 DEF Reads
  <2>3. PICK msg2, M : msg2 = m_gen_msg' /\ M = m_latency'  OBVIOUS
  <2>4. Creates(g, u, instr, msg2, M)  BY <2>1, <2>3
  <2>5. /\ k \notin DOMAIN m_latency /\ Extends(m_latency, M, k)
        /\ Fits(M, b, msg2[g], now) /\ key(b, msg2[g]) = k
        BY <1>1, <2>2, <2>4, CreatedFits
  <2>6. DOMAIN M = DOMAIN m_latency \cup {k}  BY <2>4, CreatedDomain
  <2>7. Schedules(H, Holdings', msg, msg2, gen_out', g)  BY <2>3
  <2> HIDE DEF k
  <2>8. Placed(Joined(Holdings'), M, now)  BY <2>5, <2>7, ScheduleKeeps
  <2>9. KeysKnown'
    <3>1. SUFFICES ASSUME NEW j \in DOMAIN m_latency'
                   PROVE  \E h \in Generators : \E i \in 1 .. n_read'[h] : j = packet_key(h, i)
          BY <1>2 DEF KeysKnown
    <3>2. n_read'[g] = n_read[g] + 1 /\ n_read[g] \in Nat  BY <1>1, <2>2
    <3>3. CASE j = k
      <4>1. n_read[g] + 1 \in 1 .. n_read'[g]  BY <3>2
      <4>2. QED  BY <3>3, <4>1 DEF k
    <3>4. CASE j # k
      <4>1. j \in DOMAIN m_latency  BY <2>3, <2>6, <3>4
      <4>2. PICK h \in Generators : \E i \in 1 .. n_read[h] : j = packet_key(h, i)
            BY <1>1, <4>1 DEF KeysKnown
      <4>3. PICK i \in 1 .. n_read[h] : j = packet_key(h, i)  BY <4>2
      <4>4. n_read[h] \in Nat /\ (n_read'[h] = n_read[h] \/ n_read'[h] = n_read[h] + 1)
            BY <1>1, <2>2
      <4>5. i \in 1 .. n_read'[h]  BY <4>4
      <4>6. QED  BY <4>3, <4>5
    <3>5. QED  BY <3>3, <3>4
  <2>10. QED  BY <2>3, <2>8, <2>9
<1>5. QED  BY <1>1, <1>3, <1>4, ScheduledPacket

\* What is left to show of a step of a generator.
LEMMA StepGenerated ==
  ASSUME JourneyInv, [NetNext]_netVars, NEW g, Generate(g),
         DOMAIN gen_out' = Generators, KeysKnown',
         Placed(Joined(Holdings'), m_latency', now')
  PROVE  JourneyInv'
<1>1. GenInv'  BY GenInvStep DEF JourneyInv
<1>2. UNCHANGED <<nodeVars, otherVars, switchVars, sinkVars>>  BY DEF Generate
<1>3. /\ This' = This /\ That' = That
      /\ UNCHANGED <<m_hashtable, m_hashtable_1, m_queues, to_node, reported>>
      BY <1>2 DEF otherVars, nodeVars, procVars, coreVars, outVars, tableVars, switchVars,
                  sinkVars, This, That
<1>4. NodesKept /\ LinksKept /\ IsSeq(reported) /\ LatencyAccounted  BY DEF JourneyInv
<1>5. NodesKept' /\ LinksKept'  BY <1>3, <1>4 DEF NodesKept, LinksKept
<1>6. IsSeq(reported') /\ LatencyAccounted'  BY <1>3, <1>4 DEF LatencyAccounted
<1>7. QED  BY <1>1, <1>5, <1>6 DEF JourneyInv

\* A step of a generator keeps the invariant.
LEMMA GenerateStep ==
  ASSUME JourneyInv, [NetNext]_netVars, NEW g \in Generators, Generate(g)
  PROVE  JourneyInv'
<1>1. /\ GenInv /\ KeysKnown /\ Placed(Joined(Holdings), m_latency, now) /\ LinksKept
      /\ now \in Int /\ n_read[g] \in Nat /\ Played(g) /\ DOMAIN m_gen_msg = Generators
      BY DEF JourneyInv, GenInv, GenTypes
<1>2. UNCHANGED <<nodeVars, otherVars, switchVars, sinkVars>>  BY DEF Generate
<1>3. /\ now' = now /\ This' = This /\ That' = That /\ UNCHANGED <<m_queues, to_node>>
      BY <1>2 DEF otherVars, nodeVars, procVars, coreVars, outVars, tableVars, switchVars,
                  This, That
<1>4. /\ Holdings["gen"] = GenHolds(m_gen_msg, gen_out)
      /\ Holdings'["gen"] = GenHolds(m_gen_msg', gen_out')
      /\ \A r \in Owners \ {"gen"} : Holdings'[r] = Holdings[r]
      BY <1>3 DEF Holdings, Owners
<1>5. CASE GenInitialize(g)
  <2>1. /\ schedule_pcap_packet(g, TRUE) /\ traces' = traces /\ gen_out' = gen_out
        /\ n_read[g] = 0
    <3>1. ~(n_read[g] > 0)  BY <1>5 DEF GenInitialize, initialized
    <3>2. n_read[g] = 0  BY <1>1, <3>1
    <3>3. schedule_pcap_packet(g, TRUE)  BY <1>5, Zenon DEF GenInitialize
    <3>4. traces' = traces /\ gen_out' = gen_out  BY <1>5 DEF GenInitialize
    <3>5. QED  BY <3>2, <3>3, <3>4
  <2>2. m_gen_msg[g] = NoPacket  BY <1>1, <2>1 DEF Played
  <2>3. \A h \in Generators \ {g} : m_gen_msg'[h] = m_gen_msg[h]
        BY <1>1, <2>1, ScheduledPacket
  <2>4. Schedules(Holdings, Holdings', m_gen_msg, m_gen_msg', gen_out', g)
        BY <1>4, <2>1, <2>2, <2>3 DEF Schedules
  <2>5. Placed(Joined(Holdings'), m_latency', now') /\ KeysKnown'
        BY <1>1, <1>3, <2>1, <2>4, ReadKeeps
  <2>6. DOMAIN gen_out' = Generators  BY <1>1, <2>1 DEF LinksKept
  <2>7. QED  BY <2>5, <2>6, StepGenerated
<1>6. CASE GenHandleMessage(g) /\ isBusy(g)
  <2>1. CASE UNCHANGED <<n_read, m_gen_msg, m_latency, gen_out, traces>>
    <3>1. Holdings' = Holdings  BY <1>3, <2>1 DEF Holdings
    <3>2. KeysKnown'
      <4>1. \A h, i : packet_key(h, i)' = packet_key(h, i)  BY <2>1 DEF packet_key
      <4>2. QED  BY <1>1, <2>1, <4>1 DEF KeysKnown
    <3>3. Placed(Joined(Holdings'), m_latency', now')  BY <1>1, <1>3, <2>1, <3>1
    <3>4. DOMAIN gen_out' = Generators  BY <1>1, <2>1 DEF LinksKept
    <3>5. QED  BY <3>2, <3>3, <3>4, StepGenerated
  <2>2. QED  BY <1>6, <2>1 DEF GenHandleMessage
<1>7. CASE GenHandleMessage(g) /\ ~isBusy(g)
  <2> DEFINE msg == [h \in Generators |-> IF h = g THEN NoPacket ELSE m_gen_msg[h]]
             H == [r \in Owners |-> IF r = "gen" THEN GenHolds(msg, gen_out') ELSE Holdings[r]]
  <2>1. /\ schedule_pcap_packet(g, FALSE) /\ traces' = traces
        /\ m_gen_msg[g] # NoPacket /\ m_gen_msg[g].at = now
        /\ gen_out' = [gen_out EXCEPT ![g] =
                         Append(@, [pkt |-> m_gen_msg[g].pkt, at |-> now + GenTx])]
        BY <1>7 DEF GenHandleMessage
  <2>2. /\ gen_out'[g] = Append(gen_out[g], [pkt |-> m_gen_msg[g].pkt, at |-> now + GenTx])
        /\ \A h \in Generators \ {g} : gen_out'[h] = gen_out[h]
        /\ DOMAIN gen_out' = Generators
        BY <1>1, <2>1 DEF LinksKept
  <2>3. \A h \in Generators \ {g} : m_gen_msg'[h] = m_gen_msg[h]
        BY <1>1, <2>1, ScheduledPacket
  <2>4. msg[g] = NoPacket /\ \A h \in Generators \ {g} : msg[h] = m_gen_msg[h]  OBVIOUS
  <2> HIDE DEF msg
  <2>5. H["gen"] = GenHolds(msg, gen_out') /\ \A r \in Owners \ {"gen"} : H[r] = Holdings[r]
        BY DEF Owners
  <2> HIDE DEF H
  <2>6. PICK out2 : out2 = gen_out'  OBVIOUS
  <2>7. Plays(Holdings, H, m_gen_msg, gen_out, msg, out2, g, now)
        BY <1>4, <2>1, <2>2, <2>4, <2>5, <2>6 DEF Plays
  <2>8. Placed(Joined(H), m_latency, now)  BY <1>1, <2>7, PlayKeeps
  <2>9. Schedules(H, Holdings', msg, m_gen_msg', gen_out', g)
        BY <1>4, <2>3, <2>4, <2>5 DEF Schedules
  <2>10. Placed(Joined(Holdings'), m_latency', now') /\ KeysKnown'
    <3>1. schedule_pcap_packet(g, FALSE)  BY <2>1
    <3>2. traces' = traces /\ now' = now  BY <1>3, <2>1
    <3>3. \A h \in Generators \ {g} : msg[h] = m_gen_msg[h]  BY <2>4
    <3>4. Placed(Joined(Holdings'), m_latency', now) /\ KeysKnown'
          BY ONLY JourneyInv, g \in Generators, FALSE \in BOOLEAN, <3>1, <3>2, <3>3, <2>8, <2>9,
                  ReadKeeps
    <3>5. QED  BY <3>2, <3>4
  <2>11. QED  BY <2>2, <2>10, StepGenerated
<1>8. QED  BY <1>5, <1>6, <1>7 DEF Generate

-----------------------------------------------------------------------------
(* The theorem.                                                            *)

\* Nothing is anywhere.
LEMMA NothingPlaced ==
  ASSUME NEW H, NEW msg, NEW out, NEW q, NEW l, NEW n, NEW m, NEW t,
         H["gen"] = GenHolds(msg, out), H["tor"] = TorHolds(q, l),
         H["node"] = NodeHolds("node", n), H["other"] = NodeHolds("other", m),
         \A g \in Generators : msg[g] = NoPacket /\ out[g] = <<>>,
         \A p \in 0 .. 1 : q[p] = <<>> /\ l[p] = <<>>,
         \A v \in {n, m} :
           /\ v.in = <<>> /\ v.proc = <<>> /\ v.off = <<>> /\ v.done = <<>>
           /\ v.queue = <<>> /\ v.link = <<>>
           /\ \A c \in Cores : v.rx[c] = <<>> /\ v.core[c] = NoMsg
  PROVE  Placed(Joined(H), <<>>, t)
<1>1. ASSUME NEW a \in PlacesOf("gen") PROVE H["gen"][a] = <<>>
  <2>1. PICK g \in Generators : a = at("gen", "m_gen_msg", g) \/ a = at("gen", "gen_out", g)
        BY GenPlaces
  <2>2. GenHolds(msg, out)[at("gen", "m_gen_msg", g)] = waiting(msg[g], NoPacket)  BY GenAt
  <2>3. GenHolds(msg, out)[at("gen", "gen_out", g)] = out[g]  BY GenAt
  <2>4. QED  BY <2>1, <2>2, <2>3 DEF waiting
<1>2. ASSUME NEW a \in PlacesOf("tor") PROVE H["tor"][a] = <<>>
  <2>1. PICK p \in 0 .. 1 : a = at("tor", "m_queues", p) \/ a = at("tor", "to_node", p)
        BY TorPlaces
  <2>2. TorHolds(q, l)[at("tor", "m_queues", p)] = q[p]  BY TorAt
  <2>3. TorHolds(q, l)[at("tor", "to_node", p)] = l[p]  BY TorAt
  <2>4. QED  BY <2>1, <2>2, <2>3
<1>3. ASSUME NEW o \in Nodes, NEW v \in {n, m}, NEW a \in PlacesOf(o)
      PROVE  NodeHolds(o, v)[a] = <<>>
  <2>1. CASE \E c \in Cores : a = at(o, "rx_queue", c) \/ a = at(o, "core", c)
    <3>1. PICK c \in Cores : a = at(o, "rx_queue", c) \/ a = at(o, "core", c)  BY <2>1
    <3>2. NodeHolds(o, v)[at(o, "rx_queue", c)] = v.rx[c]  BY RxAt
    <3>3. NodeHolds(o, v)[at(o, "core", c)] = waiting(v.core[c], NoMsg)  BY CoreAt
    <3>4. QED  BY <3>1, <3>2, <3>3 DEF waiting
  <2>2. CASE \E k \in {"offload_in", "out_proc", "offload_out", "proc_out", "m_pkt_queue",
                       "port_out"} : a = at(o, k, 0)
    <3>1. /\ NodeHolds(o, v)[at(o, "offload_in", 0)] = <<>>
          /\ NodeHolds(o, v)[at(o, "out_proc", 0)] = <<>>
          /\ NodeHolds(o, v)[at(o, "offload_out", 0)] = <<>>
          /\ NodeHolds(o, v)[at(o, "proc_out", 0)] = <<>>
          /\ NodeHolds(o, v)[at(o, "m_pkt_queue", 0)] = <<>>
          /\ NodeHolds(o, v)[at(o, "port_out", 0)] = <<>>
      <4>1. /\ v.in = <<>> /\ v.proc = <<>> /\ v.off = <<>> /\ v.done = <<>>
            /\ v.queue = <<>> /\ v.link = <<>>
            OBVIOUS
      <4>2. /\ NodeHolds(o, v)[at(o, "offload_in", 0)] = v.in
            /\ NodeHolds(o, v)[at(o, "out_proc", 0)] = v.proc
            /\ NodeHolds(o, v)[at(o, "offload_out", 0)] = v.off
            /\ NodeHolds(o, v)[at(o, "proc_out", 0)] = v.done
            /\ NodeHolds(o, v)[at(o, "m_pkt_queue", 0)] = v.queue
            /\ NodeHolds(o, v)[at(o, "port_out", 0)] = v.link
            BY ONLY o \in Nodes, NodeAt DEF Nodes
      <4>3. QED  BY ONLY <4>1, <4>2
    <3>2. QED  BY <2>2, <3>1
  <2>3. QED  BY <2>1, <2>2, NodePlaces DEF Nodes
<1>4. ASSUME NEW a \in Places PROVE Joined(H)[a] = <<>>
  <2>1. a[1] \in Owners /\ a \in PlacesOf(a[1]) /\ Joined(H)[a] = H[a[1]][a]
        BY OwnerPlaces DEF Joined
  <2>2. QED  BY <1>1, <1>2, <1>3, <2>1 DEF Owners, Nodes
<1>5. ASSUME NEW a \in Places PROVE IsSeq(Joined(H)[a]) /\ DOMAIN Joined(H)[a] = {}
      BY <1>4, NoElements
<1>6. QED  BY <1>5, NoElements DEF Placed

\* Initially no packet is anywhere.
LEMMA JourneyInvInit == NetInit => JourneyInv
<1> SUFFICES ASSUME NetInit PROVE JourneyInv
    OBVIOUS
<1>1. /\ NodeInit /\ Other!NodeInit /\ LatencyInit /\ GenInit /\ reported = <<>>
      /\ m_queues = [p \in 0 .. 1 |-> <<>>] /\ to_node = [p \in 0 .. 1 |-> <<>>]
      BY DEF NetInit
<1>2. /\ This.in = <<>> /\ This.proc = <<>> /\ This.off = <<>> /\ This.done = <<>>
      /\ This.queue = <<>> /\ This.link = <<>>
      /\ This.rx = [c \in Cores |-> <<>>] /\ This.core = [c \in Cores |-> NoMsg]
      /\ This.busy = [c \in Cores |-> FALSE]
      BY <1>1 DEF This, NodeInit, ProcInit, WiresInit, OffloadInit, OutInit
<1>3. /\ That.in = <<>> /\ That.proc = <<>> /\ That.off = <<>> /\ That.done = <<>>
      /\ That.queue = <<>> /\ That.link = <<>>
      /\ That.rx = [c \in Cores |-> <<>>] /\ That.core = [c \in Cores |-> NoMsg]
      /\ That.busy = [c \in Cores |-> FALSE]
      BY <1>1 DEF That, Other!NodeInit, Other!ProcInit, Other!WiresInit, Other!OffloadInit,
                  Other!OutInit, Other!Cores, Cores
<1>4. NodeKept(This) /\ NodeKept(That)  BY <1>2, <1>3 DEF NodeKept
<1>5. TableKept(m_hashtable)
      BY <1>1 DEF NodeInit, OffloadInit, TableKept
<1>6. TableKept(m_hashtable_1)
      BY <1>1 DEF Other!NodeInit, Other!OffloadInit, TableKept,
                  Entries, Other!Entries
<1>7. LinksKept  BY <1>1 DEF GenInit, LinksKept
<1>8. /\ Holdings["gen"] = GenHolds(m_gen_msg, gen_out)
      /\ Holdings["tor"] = TorHolds(m_queues, to_node)
      /\ Holdings["node"] = NodeHolds("node", This)
      /\ Holdings["other"] = NodeHolds("other", That)
      BY DEF Holdings, Owners
<1>9. Placed(Joined(Holdings), <<>>, now)
  <2>1. \A g \in Generators : m_gen_msg[g] = NoPacket /\ gen_out[g] = <<>>
        BY <1>1 DEF GenInit
  <2>2. \A p \in 0 .. 1 : m_queues[p] = <<>> /\ to_node[p] = <<>>  BY <1>1
  <2>3. \A v \in {This, That} :
          /\ v.in = <<>> /\ v.proc = <<>> /\ v.off = <<>> /\ v.done = <<>>
          /\ v.queue = <<>> /\ v.link = <<>>
          /\ \A c \in Cores : v.rx[c] = <<>> /\ v.core[c] = NoMsg
        BY <1>2, <1>3
  <2>4. QED  BY <1>8, <2>1, <2>2, <2>3, NothingPlaced
<1>10. m_latency = <<>>  BY <1>1 DEF LatencyInit
<1>11. KeysKnown  BY <1>10, NoElements DEF KeysKnown
<1>12. IsSeq(reported) /\ LatencyAccounted  BY <1>1, NoElements DEF LatencyAccounted
<1>13. GenInv  BY GenInvInit
<1>14. QED  BY <1>4, <1>5, <1>6, <1>7, <1>9, <1>10, <1>11, <1>12, <1>13 DEF JourneyInv, NodesKept

\* Every step of the network keeps the invariant.
LEMMA JourneyInvStep == JourneyInv /\ [NetNext]_netVars => JourneyInv'
<1> SUFFICES ASSUME JourneyInv, [NetNext]_netVars PROVE JourneyInv'
    OBVIOUS
<1>1. CASE UNCHANGED netVars  BY <1>1, StutterStep
<1>2. ASSUME NEW g \in Generators, Generate(g) PROVE JourneyInv'  BY <1>2, GenerateStep
<1>3. ASSUME NEW g \in Generators, SwitchTakes(g) PROVE JourneyInv'  BY <1>3, SwitchTakesStep
<1>4. ASSUME NEW port \in 0 .. 1, SwitchNext(port) PROVE JourneyInv'  BY <1>4, SwitchNextStep
<1>5. CASE NodeReceives  BY <1>5, NodeReceivesStep
<1>6. CASE NodeWorks  BY <1>6, NodeWorksStep
<1>7. CASE NodeSends  BY <1>7, NodeSendsStep
<1>8. CASE OtherReceives  BY <1>8, OtherReceivesStep
<1>9. CASE OtherWorks  BY <1>9, OtherWorksStep
<1>10. CASE OtherSends  BY <1>10, OtherSendsStep
<1>11. CASE NetTick  BY <1>11, NetTickStep
<1>12. QED  BY <1>1, <1>2, <1>3, <1>4, <1>5, <1>6, <1>7, <1>8, <1>9, <1>10, <1>11 DEF NetNext

\* It holds at any time.
LEMMA JourneyInvariant == NetSpec => []JourneyInv
BY JourneyInvInit, JourneyInvStep, PTL DEF NetSpec

\* For every network of this shape, whatever its flows, traces, number of cores,
\* table and thresholds, the end-to-end latency of a packet at the Sink is what
\* the modules on its way have recorded, plus its transmissions.
THEOREM LatenciesAddUp == NetSpec => []LatencyAccounted
<1>1. JourneyInv => LatencyAccounted  BY DEF JourneyInv
<1>2. QED  BY <1>1, JourneyInvariant, PTL

-----------------------------------------------------------------------------
(* The nodes of the network.                                               *)

\* What the switch sends to a node is there what the node expects on its link.
LEMMA LinkExpected ==
  ASSUME Ids = Nat, JourneyInv, NEW p \in 0 .. 1, due(p)
  PROVE  delivered(Head(to_node[p]).pkt, now) \in LinkPackets
<1> DEFINE a == at("tor", "to_node", p)
           y == Head(to_node[p])
           x == delivered(y.pkt, now)
<1>1. Placed(Joined(Holdings), m_latency, now) /\ to_node[p] # <<>>
      BY DEF JourneyInv, due
<1>2. a \in PlacesOf("tor") /\ kind(a) = "to_node"  BY SomePlaces, AtPlace
<1>3. a \in Places /\ a[1] = "tor"  BY <1>2, OwnerPlaces DEF Owners
<1>4. Joined(Holdings)[a] = to_node[p]
  <2>1. Joined(Holdings)[a] = Holdings["tor"][a]  BY <1>3 DEF Joined
  <2>2. Holdings["tor"] = TorHolds(m_queues, to_node)  BY DEF Holdings, Owners
  <2>3. QED  BY <2>1, <2>2, TorAt
<1> HIDE DEF a
<1>5. Fits(m_latency, a, y, now)  BY <1>1, <1>3, <1>4, FirstFits
<1>6. timed(a) /\ outside(a) /\ kind(a) # "port_out"  BY <1>2 DEF timed, outside
<1>7. Suits(a, y, now) /\ pkt_of(a, y) = y.pkt  BY <1>5, <1>6 DEF Fits, pkt_of
<1>8. PICK q : q = y.pkt  OBVIOUS
<1>9. /\ DOMAIN q = Fields /\ q.flow \in Flows /\ q.hop_cnt \in Nat /\ q.hop_cnt < MaxHopCnt
      /\ Shaped(a, q)
      BY <1>2, <1>7, <1>8 DEF Suits
<1>10. /\ q.id \in Ids /\ q.instr \in Instrs /\ q.processing_done = FALSE
       /\ q.rx_queue = Unset /\ q.arrival_port_id = Unset
       /\ EnableOffload \/ q.hop_cnt = 0
       BY <1>6, <1>9 DEF Shaped
<1>11. q.hop_cnt \in IF EnableOffload THEN 0 .. MaxHopCnt - 1 ELSE {0}
  <2>1. q.hop_cnt \in 0 .. MaxHopCnt - 1  BY <1>9, HopsAssumption
  <2>2. QED  BY <1>10, <2>1
<1>12. PICK r : r = delivered(q, now)  OBVIOUS
<1>13. /\ DOMAIN r = Fields /\ r.arrival_time = now
       /\ \A f \in Fields \ {"arrival_time"} : r[f] = q[f]
       BY <1>9, <1>12, DeliveredFields
<1>14. r = [f \in Fields |-> r[f]]  BY <1>9, <1>12 DEF delivered
<1>15. /\ r.flow = q.flow /\ r.id = q.id /\ r.instr = q.instr /\ r.hop_cnt = q.hop_cnt
       /\ r.rx_queue = q.rx_queue /\ r.arrival_port_id = q.arrival_port_id
       /\ r.processing_done = q.processing_done
       BY <1>13 DEF Fields
<1>16. r \in LinkPackets
       BY <1>9, <1>10, <1>11, <1>13, <1>14, <1>15 DEF Fields, LinkPackets
<1>17. QED  BY <1>8, <1>12, <1>16

\* The switch never delivers a packet to a node that the node's asserts would
\* stop at, for any hop limit, any traffic and any order of the events of an
\* instant, if Node lets packets have any id.
THEOREM LinksDeliverExpected == ASSUME Ids = Nat PROVE NetSpec => []DeliveriesExpected
<1>1. JourneyInv => DeliveriesExpected  BY LinkExpected DEF DeliveriesExpected
<1>2. QED  BY <1>1, JourneyInvariant, PTL

\* The one node.
LEMMA NodeStep ==
  ASSUME Ids = Nat, JourneyInv, [NetNext]_netVars
  PROVE  [NodeNext]_nodeVars
<1>1. CASE UNCHANGED netVars  BY <1>1 DEF netVars
<1>2. ASSUME NEW g \in Generators, Generate(g) PROVE UNCHANGED nodeVars  BY <1>2 DEF Generate
<1>3. ASSUME NEW g \in Generators, SwitchTakes(g) PROVE UNCHANGED nodeVars
      BY <1>3 DEF SwitchTakes
<1>4. ASSUME NEW port \in 0 .. 1, SwitchNext(port) PROVE UNCHANGED nodeVars
      BY <1>4 DEF SwitchNext
<1>5. CASE NodeReceives
  <2>1. delivered(Head(to_node[0]).pkt, now) \in LinkPackets
        BY <1>5, LinkExpected DEF NodeReceives
  <2>2. Receive(delivered(Head(to_node[0]).pkt, now))  BY <1>5 DEF NodeReceives
  <2>3. QED  BY <2>1, <2>2 DEF NodeNext
<1>6. CASE NodeWorks  BY <1>6 DEF NodeWorks, NodeNext
<1>7. CASE NodeSends  BY <1>7 DEF NodeSends, NodeNext
<1>8. CASE OtherReceives  BY <1>8 DEF OtherReceives
<1>9. CASE OtherWorks  BY <1>9 DEF OtherWorks
<1>10. CASE OtherSends  BY <1>10 DEF OtherSends
<1>11. CASE NetTick  BY <1>11 DEF NetTick, NodeNext
<1>12. QED  BY <1>1, <1>2, <1>3, <1>4, <1>5, <1>6, <1>7, <1>8, <1>9, <1>10, <1>11 DEF NetNext

\* The other one.
LEMMA OtherStep ==
  ASSUME Ids = Nat, JourneyInv, [NetNext]_netVars
  PROVE  [Other!NodeNext]_(Other!nodeVars)
<1>1. UNCHANGED otherVars => UNCHANGED Other!nodeVars
      BY DEF otherVars, Other!nodeVars, Other!procVars, Other!coreVars, Other!triggerVars,
             Other!tableVars, Other!outVars
<1>2. CASE UNCHANGED netVars  BY <1>1, <1>2 DEF netVars
<1>3. ASSUME NEW g \in Generators, Generate(g) PROVE UNCHANGED otherVars  BY <1>3 DEF Generate
<1>4. ASSUME NEW g \in Generators, SwitchTakes(g) PROVE UNCHANGED otherVars
      BY <1>4 DEF SwitchTakes
<1>5. ASSUME NEW port \in 0 .. 1, SwitchNext(port) PROVE UNCHANGED otherVars
      BY <1>5 DEF SwitchNext
<1>6. CASE OtherReceives
  <2>1. delivered(Head(to_node[1]).pkt, now) \in LinkPackets
        BY <1>6, LinkExpected DEF OtherReceives
  <2>2. Other!Receive(delivered(Head(to_node[1]).pkt, now))  BY <1>6 DEF OtherReceives
  <2>3. Other!LinkPackets = LinkPackets
        BY DEF Other!LinkPackets, LinkPackets, Other!Unset, Unset
  <2>4. QED  BY <2>1, <2>2, <2>3 DEF Other!NodeNext
<1>7. CASE OtherWorks
  <2>1. Other!Cores = Cores  BY DEF Other!Cores, Cores
  <2>2. QED  BY <1>7, <2>1 DEF OtherWorks, Other!NodeNext
<1>8. CASE OtherSends  BY <1>8 DEF OtherSends, Other!NodeNext
<1>9. CASE NodeReceives  BY <1>1, <1>9 DEF NodeReceives
<1>10. CASE NodeWorks  BY <1>1, <1>10 DEF NodeWorks
<1>11. CASE NodeSends  BY <1>1, <1>11 DEF NodeSends
<1>12. CASE NetTick  BY <1>12 DEF NetTick, Other!NodeNext
<1>13. QED  BY <1>1, <1>2, <1>3, <1>4, <1>5, <1>6, <1>7, <1>8, <1>9, <1>10, <1>11, <1>12
            DEF NetNext

\* Both nodes of the network implement the specification of a node that lets
\* packets have any id, so that the theorems of NodeProofs hold of each of them:
\* an event of the network is one of a node or leaves that node alone, and what
\* a node is sent is a packet that Node lets arrive.
THEOREM NodesImplementNode == ASSUME Ids = Nat PROVE NetSpec => NodesAsSpecified
<1>1. NetInit => NodeInit /\ Other!NodeInit  BY DEF NetInit
<1>2. JourneyInv /\ [NetNext]_netVars =>
        [NodeNext]_nodeVars /\ [Other!NodeNext]_(Other!nodeVars)
      BY NodeStep, OtherStep
<1>3. QED
  BY <1>1, <1>2, JourneyInvariant, PTL DEF NetSpec, NodesAsSpecified, NodeSpec, Other!NodeSpec
=============================================================================
