---------------------------- MODULE TracedProofs ----------------------------
(***************************************************************************)
(* Proofs about a node between a trace and the Sink: that it keeps its     *)
(* contract, and that only late packets are reordered, for any number of   *)
(* cores, any traffic and any order of the events of an instant.           *)
(***************************************************************************)
EXTENDS TracedNode, NodeProofs

-----------------------------------------------------------------------------
(* The queues of a node.  A core and its rx queue are one of them.         *)

HeldPackets == [flow : Flows, id : Ids, hop_cnt : 0 .. MaxHopCnt - 1]

summary(p) == [flow |-> p.flow, id |-> p.id, hop_cnt |-> p.hop_cnt]
brief(s) == [i \in DOMAIN s |-> summary(s[i])]

\* The packet on core c and those that wait for the core.
serving(c) == <<msg_proc_done[c].pkt>> \o rx_queue[c]
line(c) == IF busy[c] THEN brief(serving(c)) ELSE <<>>

In     == <<"in", 0>>
Local  == <<"local", 0>>
Done   == <<"done", 0>>
Away   == <<"away", 0>>
Buffer == <<"buffer", 0>>
Core(c) == <<"core", c>>

QueueIds == {In, Local, Done, Away, Buffer} \cup {Core(c) : c \in Cores}

Queues ==
  [q \in QueueIds |->
     CASE q = In     -> brief(offload_in)
       [] q = Local  -> brief(out_proc)
       [] q = Done   -> brief(proc_out)
       [] q = Away   -> brief(offload_out)
       [] q = Buffer -> brief(m_pkt_queue)
       [] OTHER      -> line(q[2])]

LEMMA QueueNames ==
  /\ In # Local /\ In # Done /\ In # Away /\ In # Buffer
  /\ Local # Done /\ Local # Away /\ Local # Buffer
  /\ Done # Away /\ Done # Buffer /\ Away # Buffer
  /\ \A c \in Cores : /\ Core(c) # In /\ Core(c) # Local /\ Core(c) # Done
                      /\ Core(c) # Away /\ Core(c) # Buffer
                      /\ Core(c)[2] = c
  /\ \A c, d \in Cores : Core(c) = Core(d) => c = d
BY DEF In, Local, Done, Away, Buffer, Core

LEMMA QueueOf ==
  /\ Queues[In] = brief(offload_in) /\ Queues[Local] = brief(out_proc)
  /\ Queues[Done] = brief(proc_out) /\ Queues[Away] = brief(offload_out)
  /\ Queues[Buffer] = brief(m_pkt_queue)
  /\ \A c \in Cores : Queues[Core(c)] = line(c)
  /\ DOMAIN Queues = QueueIds
<1>1. {In, Local, Done, Away, Buffer} \subseteq QueueIds /\ \A c \in Cores : Core(c) \in QueueIds
      BY DEF QueueIds
<1>2. QED  BY <1>1, QueueNames DEF Queues

\* A sequence is a function on its places.
LEMMA SequenceItems ==
  ASSUME NEW S, NEW seq \in Seq(S)
  PROVE  seq \in [1 .. Len(seq) -> S]
OBVIOUS

\* The list of the images of the elements of a sequence, as the sequence
\* changes at its ends.
mapped(m, s) == [i \in DOMAIN s |-> m[s[i]]]

ChangesAlike(m, S, s) ==
  /\ DOMAIN mapped(m, s) = 1 .. Len(s)
  /\ mapped(m, s) = <<>> <=> s = <<>>
  /\ \A p \in S : mapped(m, Append(s, p)) = Append(mapped(m, s), m[p])
  /\ s # <<>> => /\ mapped(m, Tail(s)) = Tail(mapped(m, s))
                 /\ Head(mapped(m, s)) = m[Head(s)]

LEMMA MappedList ==
  ASSUME NEW S, NEW T, NEW m \in [S -> T], NEW s \in Seq(S)
  PROVE  ChangesAlike(m, S, s)
<1>1. /\ Len(s) \in Nat /\ DOMAIN s = 1 .. Len(s)
      /\ \A i \in 1 .. Len(s) : s[i] \in S
      OBVIOUS
<1>2. /\ mapped(m, s) \in Seq(T)
      /\ DOMAIN mapped(m, s) = 1 .. Len(s) /\ Len(mapped(m, s)) = Len(s)
      /\ \A i \in 1 .. Len(s) : mapped(m, s)[i] = m[s[i]]
  <2>1. mapped(m, s) = [i \in 1 .. Len(s) |-> m[s[i]]]  BY <1>1 DEF mapped
  <2>2. QED  BY <1>1, <2>1
<1>3. ASSUME NEW p \in S
      PROVE  mapped(m, Append(s, p)) = Append(mapped(m, s), m[p])
  <2>1. /\ DOMAIN Append(s, p) = 1 .. Len(s) + 1
        /\ \A i \in 1 .. Len(s) + 1 : Append(s, p)[i] = IF i = Len(s) + 1 THEN p ELSE s[i]
        BY <1>1
  <2>2. mapped(m, Append(s, p)) = [i \in 1 .. Len(s) + 1 |-> m[Append(s, p)[i]]]
        BY <2>1 DEF mapped
  <2>3. /\ Append(mapped(m, s), m[p]) \in Seq(T)
        /\ Len(Append(mapped(m, s), m[p])) = Len(s) + 1
        /\ \A i \in 1 .. Len(s) + 1 : Append(mapped(m, s), m[p])[i] =
             IF i = Len(s) + 1 THEN m[p] ELSE mapped(m, s)[i]
        BY <1>2
  <2>4. ASSUME NEW i \in 1 .. Len(s) + 1
        PROVE  m[Append(s, p)[i]] = Append(mapped(m, s), m[p])[i]
        BY <1>1, <1>2, <2>1, <2>3
  <2>5. Append(mapped(m, s), m[p]) =
          [i \in 1 .. Len(s) + 1 |-> Append(mapped(m, s), m[p])[i]]
    <3>1. Append(mapped(m, s), m[p]) \in [1 .. Len(s) + 1 -> T]
          BY <2>3, SequenceItems
    <3>2. QED  BY <3>1
  <2>6. QED  BY <2>2, <2>4, <2>5
<1>4. ASSUME s # <<>>
      PROVE  /\ mapped(m, Tail(s)) = Tail(mapped(m, s))
             /\ Head(mapped(m, s)) = m[Head(s)]
  <2>1. /\ DOMAIN Tail(s) = 1 .. Len(s) - 1
        /\ \A i \in 1 .. Len(s) - 1 : Tail(s)[i] = s[i + 1]
        /\ Head(s) = s[1] /\ 1 \in 1 .. Len(s)
        BY <1>1, <1>4
  <2>2. mapped(m, Tail(s)) = [i \in 1 .. Len(s) - 1 |-> m[s[i + 1]]]
        BY <2>1 DEF mapped
  <2>3. mapped(m, s) # <<>>  BY <1>2, <2>1
  <2>4. /\ Tail(mapped(m, s)) \in Seq(T)
        /\ Len(Tail(mapped(m, s))) = Len(s) - 1
        /\ \A i \in 1 .. Len(s) - 1 : Tail(mapped(m, s))[i] = mapped(m, s)[i + 1]
        /\ Head(mapped(m, s)) = mapped(m, s)[1]
        BY <1>2, <2>3
  <2>5. \A i \in 1 .. Len(s) - 1 : Tail(mapped(m, s))[i] = m[s[i + 1]]
        BY <1>2, <2>4
  <2>6. Tail(mapped(m, s)) = [i \in 1 .. Len(s) - 1 |-> Tail(mapped(m, s))[i]]
    <3>1. Tail(mapped(m, s)) \in [1 .. Len(s) - 1 -> T]
          BY <2>4, SequenceItems
    <3>2. QED  BY <3>1
  <2>7. QED  BY <1>2, <2>1, <2>2, <2>4, <2>5, <2>6
<1>5. mapped(m, s) = <<>> <=> s = <<>>
      BY <1>1, <1>2
<1>6. QED  BY <1>2, <1>3, <1>4, <1>5 DEF ChangesAlike

LEMMA BriefList ==
  ASSUME NEW s \in Seq(Packets)
  PROVE  /\ DOMAIN brief(s) = 1 .. Len(s)
         /\ \A i \in 1 .. Len(s) : brief(s)[i] = summary(s[i])
         /\ brief(s) = <<>> <=> s = <<>>
         /\ \A p \in Packets : brief(Append(s, p)) = Append(brief(s), summary(p))
         /\ s # <<>> => /\ brief(Tail(s)) = Tail(brief(s))
                        /\ Head(brief(s)) = summary(Head(s))
<1> DEFINE T == {summary(p) : p \in Packets}
           m == [p \in Packets |-> summary(p)]
<1>1. m \in [Packets -> T] /\ \A p \in Packets : m[p] = summary(p)  OBVIOUS
<1>2. ASSUME NEW t \in Seq(Packets)
      PROVE  brief(t) = mapped(m, t)
  <2>1. \A i \in DOMAIN t : t[i] \in Packets  OBVIOUS
  <2>2. QED  BY <2>1 DEF brief, mapped
<1> HIDE DEF m, T
<1>3. s # <<>> => Tail(s) \in Seq(Packets) /\ Head(s) \in Packets  OBVIOUS
<1>4. \A p \in Packets : Append(s, p) \in Seq(Packets)  OBVIOUS
<1>5. /\ DOMAIN mapped(m, s) = 1 .. Len(s)
      /\ mapped(m, s) = <<>> <=> s = <<>>
      /\ \A p \in Packets : mapped(m, Append(s, p)) = Append(mapped(m, s), m[p])
      /\ s # <<>> => /\ mapped(m, Tail(s)) = Tail(mapped(m, s))
                     /\ Head(mapped(m, s)) = m[Head(s)]
  <2>1. ChangesAlike(m, Packets, s)  BY <1>1, MappedList
  <2>2. QED  BY <2>1 DEF ChangesAlike
<1>6. \A i \in 1 .. Len(s) : brief(s)[i] = summary(s[i])
  <2>1. DOMAIN s = 1 .. Len(s)  OBVIOUS
  <2>2. QED  BY <2>1 DEF brief
<1>7. \A p \in Packets : brief(Append(s, p)) = Append(brief(s), summary(p))
      BY <1>1, <1>2, <1>4, <1>5
<1>8. s # <<>> => /\ brief(Tail(s)) = Tail(brief(s))
                  /\ Head(brief(s)) = summary(Head(s))
      BY <1>1, <1>2, <1>3, <1>5
<1>9. QED  BY <1>2, <1>5, <1>6, <1>7, <1>8

\* A packet in front of others.
LEMMA InFront ==
  ASSUME NEW a \in Packets, NEW s \in Seq(Packets)
  PROVE  /\ <<a>> \o s \in Seq(Packets) /\ <<a>> \o s # <<>>
         /\ Head(<<a>> \o s) = a /\ Tail(<<a>> \o s) = s
         /\ \A p \in Packets : Append(<<a>> \o s, p) = <<a>> \o Append(s, p)
OBVIOUS

\* Processing marks a packet, which the ring does not see.
LEMMA Restarted ==
  ASSUME NEW s \in Seq(Packets), s # <<>>
  PROVE  /\ set_processing_done(Head(s)) \in Packets
         /\ brief(<<set_processing_done(Head(s))>> \o Tail(s)) = brief(s)
<1>1. Head(s) \in Packets /\ Tail(s) \in Seq(Packets)  OBVIOUS
<1>2. /\ set_processing_done(Head(s)) \in Packets
      /\ summary(set_processing_done(Head(s))) = summary(Head(s))
      BY <1>1 DEF Packets, set_processing_done, summary
<1> DEFINE a == set_processing_done(Head(s))
           t == <<a>> \o Tail(s)
<1>3. /\ t \in Seq(Packets) /\ Len(t) = Len(s)
      /\ \A i \in 1 .. Len(s) : t[i] = IF i = 1 THEN a ELSE s[i]
      BY <1>1, <1>2
<1>4. s[1] = Head(s) /\ Len(s) \in Nat  OBVIOUS
<1> HIDE DEF t
<1>5. \A i \in 1 .. Len(s) : summary(t[i]) = summary(s[i])
      BY <1>2, <1>3, <1>4
<1>6. DOMAIN t = 1 .. Len(s) /\ DOMAIN s = 1 .. Len(s)
      BY <1>3
<1>7. brief(t) = brief(s)
      BY <1>5, <1>6 DEF brief
<1>8. QED  BY <1>2, <1>7 DEF t

-----------------------------------------------------------------------------
(* What happens to packets in the queues.                                  *)

same(p, r) == p.flow = r.flow /\ p.id = r.id

Typed(K) == K \in [QueueIds -> Seq(HeldPackets)]

\* Every packet is in one place.
Unique(K) ==
  \A q, r \in QueueIds : \A i \in DOMAIN K[q], j \in DOMAIN K[r] :
    same(K[q][i], K[r][j]) => q = r /\ i = j

contents(K) == UNION {items(K[q]) : q \in QueueIds}

\* The packet at the head of q goes to the end of r, leaves, or comes in at r.
Moved(K, L, q, r) ==
  /\ K[q] # <<>>
  /\ L[q] = Tail(K[q])
  /\ L[r] = Append(K[r], Head(K[q]))
  /\ \A s \in QueueIds \ {q, r} : L[s] = K[s]

Left(K, L, q) ==
  /\ K[q] # <<>>
  /\ L[q] = Tail(K[q])
  /\ \A s \in QueueIds \ {q} : L[s] = K[s]

Came(K, L, r, p) ==
  /\ L[r] = Append(K[r], p)
  /\ \A s \in QueueIds \ {r} : L[s] = K[s]

\* What is left when the first packet of q leaves: the same places, those of q
\* moved up by one.
LEMMA LeftStep ==
  ASSUME NEW K, Typed(K), Unique(K), NEW L, L = [s \in QueueIds |-> L[s]],
         NEW q \in QueueIds, Left(K, L, q)
  PROVE  /\ Typed(L) /\ Unique(L)
         /\ Head(K[q]) \in contents(K) /\ Head(K[q]) \in HeldPackets
         /\ contents(L) = contents(K) \ {Head(K[q])}
         /\ \A p \in contents(L) : ~same(p, Head(K[q]))
<1> DEFINE from(s, i) == IF s = q THEN i + 1 ELSE i
<1>1. K[q] \in Seq(HeldPackets) /\ K[q] # <<>> /\ L[q] = Tail(K[q])
      BY DEF Typed, Left
<1>2. /\ Head(K[q]) = K[q][1] /\ 1 \in DOMAIN K[q] /\ Head(K[q]) \in HeldPackets
      /\ L[q] \in Seq(HeldPackets)
      /\ \A i \in DOMAIN L[q] : /\ L[q][i] = K[q][i + 1] /\ i + 1 \in DOMAIN K[q]
                                /\ i \in Nat /\ i + 1 # 1
      /\ \A j \in DOMAIN K[q] : j # 1 => j - 1 \in DOMAIN L[q] /\ L[q][j - 1] = K[q][j]
  <2>1. /\ Head(K[q]) = K[q][1] /\ 1 \in DOMAIN K[q] /\ Head(K[q]) \in HeldPackets
        /\ L[q] \in Seq(HeldPackets)
        BY <1>1
  <2>2. /\ Len(K[q]) \in Nat /\ DOMAIN K[q] = 1 .. Len(K[q])
        /\ Len(L[q]) = Len(K[q]) - 1 /\ DOMAIN L[q] = 1 .. Len(K[q]) - 1
        BY <1>1
  <2>3. \A i \in 1 .. Len(K[q]) - 1 : L[q][i] = K[q][i + 1]
        BY <1>1
  <2>4. ASSUME NEW j \in DOMAIN K[q], j # 1
        PROVE  j - 1 \in DOMAIN L[q] /\ L[q][j - 1] = K[q][j]
    <3>1. j - 1 \in 1 .. Len(K[q]) - 1 /\ (j - 1) + 1 = j
          BY ONLY <2>2, <2>4
    <3>2. QED  BY ONLY <2>2, <2>3, <3>1
  <2>5. ASSUME NEW i \in DOMAIN L[q]
        PROVE  /\ L[q][i] = K[q][i + 1] /\ i + 1 \in DOMAIN K[q]
               /\ i \in Nat /\ i + 1 # 1
        BY ONLY <2>2, <2>3, <2>5
  <2>6. QED  BY ONLY <2>1, <2>4, <2>5
<1>3. \A s \in QueueIds \ {q} : L[s] = K[s] /\ L[s] \in Seq(HeldPackets)
      BY DEF Typed, Left
<1>4. \A s \in QueueIds \ {q} : \A i \in DOMAIN L[s] : i \in Nat
      BY <1>3
<1>5. Typed(L)
  <2>1. \A s \in QueueIds : L[s] \in Seq(HeldPackets)  BY <1>2, <1>3
  <2>2. QED  BY <2>1 DEF Typed
<1>6. \A s \in QueueIds : \A i \in DOMAIN L[s] :
        /\ i \in Nat /\ from(s, i) \in DOMAIN K[s] /\ L[s][i] = K[s][from(s, i)]
        /\ s = q => from(s, i) # 1
      BY <1>2, <1>3, <1>4
<1>7. \A s \in QueueIds : \A i, j \in DOMAIN L[s] : from(s, i) = from(s, j) => i = j
      BY <1>6
<1>8. \A s \in QueueIds : \A j \in DOMAIN K[s] :
        (s = q /\ j = 1) \/ \E i \in DOMAIN L[s] : L[s][i] = K[s][j]
      BY <1>2, <1>3
<1> HIDE DEF from
<1>9. Unique(L)
      BY <1>6, <1>7 DEF Unique
<1>10. \A s \in QueueIds : \A i \in DOMAIN L[s] : ~same(L[s][i], Head(K[q]))
      BY <1>2, <1>6 DEF Unique
<1>11. \A p \in contents(L) : p \in contents(K) /\ ~same(p, Head(K[q]))
      BY <1>6, <1>10 DEF contents, items
<1>12. \A p \in contents(K) : p = Head(K[q]) \/ p \in contents(L)
      BY <1>2, <1>8 DEF contents, items
<1>13. Head(K[q]) \in contents(K)
      BY <1>2 DEF contents, items
<1>14. ~ (Head(K[q]) \in contents(L))
      BY <1>11 DEF same
<1>15. QED  BY <1>2, <1>5, <1>9, <1>11, <1>12, <1>13, <1>14

\* What is there when a packet has come in at the end of r.
LEMMA CameStep ==
  ASSUME NEW K, Typed(K), Unique(K), NEW L, L = [s \in QueueIds |-> L[s]],
         NEW r \in QueueIds, NEW p \in HeldPackets, Came(K, L, r, p),
         \A o \in contents(K) : ~same(o, p)
  PROVE  /\ Typed(L) /\ Unique(L)
         /\ contents(L) = contents(K) \cup {p}
<1>1. K[r] \in Seq(HeldPackets) /\ L[r] = Append(K[r], p)
      BY DEF Typed, Came
<1>2. /\ L[r] \in Seq(HeldPackets)
      /\ Len(K[r]) + 1 \in DOMAIN L[r] /\ L[r][Len(K[r]) + 1] = p
      /\ \A i \in DOMAIN L[r] :
           \/ i \in DOMAIN K[r] /\ L[r][i] = K[r][i]
           \/ i = Len(K[r]) + 1 /\ L[r][i] = p
      /\ \A i \in DOMAIN K[r] : i \in DOMAIN L[r] /\ L[r][i] = K[r][i]
      BY <1>1
<1>3. \A s \in QueueIds \ {r} : L[s] = K[s] /\ L[s] \in Seq(HeldPackets)
      BY DEF Typed, Came
<1>4. Typed(L)
  <2>1. \A s \in QueueIds : L[s] \in Seq(HeldPackets)  BY <1>2, <1>3
  <2>2. QED  BY <2>1 DEF Typed
<1> DEFINE new(s, i) == s = r /\ i = Len(K[r]) + 1
<1>5. \A s \in QueueIds : \A i \in DOMAIN L[s] :
        \/ i \in DOMAIN K[s] /\ L[s][i] = K[s][i]
        \/ new(s, i) /\ L[s][i] = p
      BY <1>2, <1>3
<1>6. \A s \in QueueIds : \A i \in DOMAIN K[s] : i \in DOMAIN L[s] /\ L[s][i] = K[s][i]
      BY <1>2, <1>3
<1>7. \A s, t \in QueueIds : \A i \in DOMAIN L[s], j \in DOMAIN L[t] :
        new(s, i) /\ new(t, j) => s = t /\ i = j
      OBVIOUS
<1>8. \A s \in QueueIds : \A i \in DOMAIN K[s] : K[s][i] \in contents(K)
      BY DEF contents, items
<1>9. \A o \in contents(K) : ~same(p, o)  BY DEF same
<1> HIDE DEF new
<1>10. Unique(L)
  <2>1. ASSUME NEW s \in QueueIds, NEW t \in QueueIds, NEW i \in DOMAIN L[s],
               NEW j \in DOMAIN L[t], same(L[s][i], L[t][j])
        PROVE  s = t /\ i = j
    <3>1. CASE new(s, i) /\ L[s][i] = p /\ new(t, j) /\ L[t][j] = p
          BY <3>1, <1>7
    <3>2. CASE /\ i \in DOMAIN K[s] /\ L[s][i] = K[s][i]
               /\ j \in DOMAIN K[t] /\ L[t][j] = K[t][j]
          BY <3>2, <2>1 DEF Unique
    <3>3. CASE i \in DOMAIN K[s] /\ L[s][i] = K[s][i] /\ L[t][j] = p
          BY <3>3, <2>1, <1>8
    <3>4. CASE j \in DOMAIN K[t] /\ L[t][j] = K[t][j] /\ L[s][i] = p
          BY <3>4, <2>1, <1>8, <1>9
    <3>5. QED  BY <3>1, <3>2, <3>3, <3>4, <1>5
  <2>2. QED  BY <2>1 DEF Unique
<1>11. \A o \in contents(L) : o \in contents(K) \/ o = p
      BY <1>5, <1>8 DEF contents, items
<1>12. \A o \in contents(K) : o \in contents(L)
      BY <1>6 DEF contents, items
<1>13. p \in contents(L)
      BY <1>2 DEF contents, items
<1>14. QED  BY <1>4, <1>10, <1>11, <1>12, <1>13

\* A packet that moves on from one queue to the next is still there, once.
LEMMA MovedStep ==
  ASSUME NEW K, Typed(K), Unique(K), NEW L, L = [s \in QueueIds |-> L[s]],
         NEW q \in QueueIds, NEW r \in QueueIds, q # r, Moved(K, L, q, r)
  PROVE  /\ Typed(L) /\ Unique(L)
         /\ contents(L) = contents(K)
<1> DEFINE M == [s \in QueueIds |-> IF s = q THEN Tail(K[q]) ELSE K[s]]
<1>1. /\ M = [s \in QueueIds |-> M[s]]
      /\ M[q] = Tail(K[q]) /\ \A s \in QueueIds \ {q} : M[s] = K[s]
      OBVIOUS
<1> HIDE DEF M
<1>2. Left(K, M, q)  BY <1>1 DEF Left, Moved
<1>3. Came(M, L, r, Head(K[q]))  BY <1>1 DEF Came, Moved
<1>4. /\ Typed(M) /\ Unique(M)
      /\ Head(K[q]) \in contents(K) /\ Head(K[q]) \in HeldPackets
      /\ contents(M) = contents(K) \ {Head(K[q])}
      /\ \A p \in contents(M) : ~same(p, Head(K[q]))
      BY <1>1, <1>2, LeftStep
<1>5. /\ Typed(L) /\ Unique(L)
      /\ contents(L) = contents(M) \cup {Head(K[q])}
      BY <1>3, <1>4, CameStep
<1>6. QED  BY <1>4, <1>5

-----------------------------------------------------------------------------
(* The inductive invariant.                                                *)

\* Every packet in the node has come in.
Numbered == \A p \in contents(Queues) : p.id < Len(entered[p.flow])

\* What waits for the link is processed or may hop once more.
mayLeave(p) == p.processing_done \/ (EnableOffload /\ p.hop_cnt + 1 < MaxHopCnt)

Sendable ==
  /\ \A i \in DOMAIN proc_out : proc_out[i].processing_done
  /\ \A i \in DOMAIN offload_out : mayLeave(offload_out[i])
  /\ \A i \in DOMAIN m_pkt_queue : mayLeave(m_pkt_queue[i])

TracedInv ==
  /\ NodeInv /\ BufferInv
  /\ entered \in [Flows -> Seq(Nat)]
  /\ Typed(Queues) /\ Unique(Queues) /\ Numbered /\ Sendable

\* The types the proofs below rely on.
SequencesOK ==
  /\ offload_in \in Seq(Packets) /\ offload_out \in Seq(Packets)
  /\ out_proc \in Seq(Packets) /\ proc_out \in Seq(Packets)
  /\ m_pkt_queue \in Seq(Packets) /\ now \in Nat
  /\ rx_queue \in [Cores -> Seq(Packets)] /\ busy \in [Cores -> BOOLEAN]
  /\ msg_proc_done \in [Cores -> DoneMsgs \cup {NoMsg}]
  /\ \A c \in Cores : busy[c] => msg_proc_done[c].pkt \in Packets
  /\ \A c \in Cores : ~busy[c] => rx_queue[c] = <<>>

LEMMA SequencesTyped == NodeInv /\ BufferInv => SequencesOK
<1> SUFFICES ASSUME NodeInv, BufferInv PROVE SequencesOK
    OBVIOUS
<1>1. /\ offload_in \in Seq(Packets) /\ offload_out \in Seq(Packets)
      /\ out_proc \in Seq(Packets) /\ now \in Nat
      BY DEF NodeInv, OffloadInv, OffloadTypeOK, WiresTypeOK
<1>2. /\ proc_out \in Seq(Packets)
      /\ rx_queue \in [Cores -> Seq(Packets)] /\ busy \in [Cores -> BOOLEAN]
      /\ msg_proc_done \in [Cores -> DoneMsgs \cup {NoMsg}]
      BY DEF NodeInv, CoreInv, ProcTypeOK
<1>3. m_pkt_queue \in Seq(Packets)
      BY DEF BufferInv, OutTypeOK
<1>4. \A c \in Cores : /\ busy[c] => msg_proc_done[c] # NoMsg
                       /\ ~busy[c] => rx_queue[c] = <<>>
      BY DEF NodeInv, CoreInv, CoreConsistent
<1>5. \A c \in Cores : busy[c] => msg_proc_done[c].pkt \in Packets
  <2>1. \A c \in Cores : busy[c] => msg_proc_done[c] \in DoneMsgs
        BY <1>2, <1>4
  <2>2. QED  BY <2>1 DEF DoneMsgs
<1>6. QED  BY <1>1, <1>2, <1>3, <1>4, <1>5 DEF SequencesOK

-----------------------------------------------------------------------------
(* What each event does to the queues.                                     *)

LEMMA QueuesNext ==
  /\ Queues'[In] = brief(offload_in') /\ Queues'[Local] = brief(out_proc')
  /\ Queues'[Done] = brief(proc_out') /\ Queues'[Away] = brief(offload_out')
  /\ Queues'[Buffer] = brief(m_pkt_queue')
  /\ \A c \in Cores : Queues'[Core(c)] = line(c)'
  /\ Queues' = [q \in QueueIds |-> Queues'[q]]
<1>1. {In, Local, Done, Away, Buffer} \subseteq QueueIds /\ \A c \in Cores : Core(c) \in QueueIds
      BY DEF QueueIds
<1>2. QED  BY <1>1, QueueNames DEF Queues

\* Two families of queues agree if they agree on each.
LEMMA OtherQueues ==
  ASSUME NEW q \in QueueIds, q # In, q # Local, q # Done, q # Away, q # Buffer
  PROVE  \E c \in Cores : q = Core(c)
BY DEF QueueIds

LEMMA ReceiveStep ==
  ASSUME SequencesOK, NEW pkt \in LinkPackets, Receive(pkt)
  PROVE  Came(Queues, Queues', In, summary(pkt))
<1> DEFINE p == delivered(set_arrival_port_id(pkt, 0), now)
<1>1. /\ offload_in' = Append(offload_in, p)
      /\ UNCHANGED <<out_proc, proc_out, offload_out, m_pkt_queue, rx_queue, busy, msg_proc_done>>
      BY DEF Receive, procVars, coreVars, outVars
<1>2. p \in Packets /\ summary(p) = summary(pkt)
  <2>1. now \in Nat /\ 0 .. MaxHopCnt - 1 \subseteq 0 .. 255 /\ {0} \subseteq 0 .. 255
        BY HopsAssumption DEF SequencesOK
  <2>2. p \in ArrivingPackets
        BY DEF LinkPackets, ArrivingPackets, delivered, set_arrival_port_id
  <2>3. p.hop_cnt \in 0 .. 255
        BY <2>1, <2>2 DEF ArrivingPackets
  <2>4. p \in Packets
        BY <2>1, <2>2, <2>3 DEF ArrivingPackets, Packets
  <2>5. summary(p) = summary(pkt)
        BY DEF LinkPackets, delivered, set_arrival_port_id, summary
  <2>6. QED  BY <2>4, <2>5
<1> HIDE DEF p
<1>3. brief(offload_in') = Append(brief(offload_in), summary(pkt))
      BY <1>1, <1>2, BriefList DEF SequencesOK
<1>4. \A c \in Cores : line(c)' = line(c)
      BY <1>1 DEF line, serving
<1>5. \A q \in QueueIds \ {In} : Queues'[q] = Queues[q]
      BY <1>1, <1>4, QueueOf, QueuesNext, OtherQueues
<1>6. QED  BY <1>3, <1>5, QueueOf, QueuesNext DEF Came

LEMMA DispatchStep ==
  ASSUME SequencesOK, OffloadInv, Dispatch
  PROVE  Moved(Queues, Queues', In, Local) \/ Moved(Queues, Queues', In, Away)
<1> DEFINE pkt == Head(offload_in)
<1>1. /\ offload_in # <<>> /\ offload_in' = Tail(offload_in) /\ handle_pkt(pkt)
      /\ UNCHANGED <<proc_out, m_pkt_queue, rx_queue, busy, msg_proc_done>>
      BY DEF Dispatch, OffloadHandlePkt, coreVars, outVars
<1>2. pkt \in Packets  BY <1>1 DEF SequencesOK
<1>3. /\ brief(offload_in) # <<>>
      /\ brief(offload_in') = Tail(brief(offload_in))
      /\ Head(brief(offload_in)) = summary(pkt)
      BY <1>1, BriefList DEF SequencesOK
<1>4. \A c \in Cores : line(c)' = line(c)
      BY <1>1 DEF line, serving
<1>5. \/ /\ \E q \in Cores : out_proc' = Append(out_proc, delivered(set_rx_queue(pkt, q), now))
         /\ UNCHANGED offload_out
      \/ /\ offload_out' = Append(offload_out, delivered(pkt, now))
         /\ UNCHANGED out_proc
  <2>1. calc_rss_rx_queue(pkt) \in Cores
        BY <1>2, EntryInTable DEF OffloadInv
  <2>2. updated(pkt).local_rx_queue \in Cores
        BY <1>2, UpdatedEntry
  <2>3. QED  BY <1>1, <2>1, <2>2 DEF handle_pkt, send_pkt_local, send_pkt_offload
<1> HIDE DEF pkt
<1>6. CASE /\ \E q \in Cores : out_proc' = Append(out_proc, delivered(set_rx_queue(pkt, q), now))
           /\ UNCHANGED offload_out
  <2>1. PICK q \in Cores : out_proc' = Append(out_proc, delivered(set_rx_queue(pkt, q), now))
        BY <1>6
  <2> DEFINE p == delivered(set_rx_queue(pkt, q), now)
  <2>2. p \in Packets
        BY <1>2, SentPackets DEF SequencesOK
  <2>3. summary(p) = summary(pkt)
        BY <1>2 DEF Packets, delivered, set_rx_queue, summary
  <2>4. out_proc' = Append(out_proc, p)  BY <2>1
  <2> HIDE DEF p
  <2>5. brief(out_proc') = Append(brief(out_proc), summary(pkt))
        BY <2>2, <2>3, <2>4, BriefList DEF SequencesOK
  <2>6. \A s \in QueueIds \ {In, Local} : Queues'[s] = Queues[s]
        BY <1>1, <1>4, <1>6, QueueOf, QueuesNext, OtherQueues
  <2>7. Moved(Queues, Queues', In, Local)
        BY <1>3, <2>5, <2>6, QueueOf, QueuesNext DEF Moved
  <2>8. QED  BY <2>7
<1>7. CASE /\ offload_out' = Append(offload_out, delivered(pkt, now))
           /\ UNCHANGED out_proc
  <2> DEFINE p == delivered(pkt, now)
  <2>2. p \in Packets /\ summary(p) = summary(pkt)
        BY <1>2 DEF SequencesOK, Packets, delivered, summary
  <2>4. offload_out' = Append(offload_out, p)  BY <1>7
  <2> HIDE DEF p
  <2>5. brief(offload_out') = Append(brief(offload_out), summary(pkt))
        BY <2>2, <2>4, BriefList DEF SequencesOK
  <2>6. \A s \in QueueIds \ {In, Away} : Queues'[s] = Queues[s]
        BY <1>1, <1>4, <1>7, QueueOf, QueuesNext, OtherQueues
  <2>7. Moved(Queues, Queues', In, Away)
        BY <1>3, <2>5, <2>6, QueueOf, QueuesNext DEF Moved
  <2>8. QED  BY <2>7
<1>8. QED  BY <1>5, <1>6, <1>7

LEMMA EnqueueStep ==
  ASSUME SequencesOK, CoreInv, Enqueue
  PROVE  \E c \in Cores : Moved(Queues, Queues', Local, Core(c))
<1>1. /\ out_proc # <<>> /\ out_proc' = Tail(out_proc)
      /\ UNCHANGED <<offload_in, offload_out, proc_out, m_pkt_queue>>
      BY DEF Enqueue, HandlePacket, outVars
<1>2. PICK pkt \in Packets : pkt = Head(out_proc) /\ pkt.rx_queue \in Cores
      BY <1>1, TailItems DEF SequencesOK, CoreInv, Routed
<1>3. PICK c \in Cores : c = pkt.rx_queue
      BY <1>2
<1> DEFINE queue == Append(rx_queue[c], pkt)
<1>4. /\ rx_queue[c] \in Seq(Packets)
       /\ queue \in Seq(Packets) /\ queue # <<>> /\ Head(queue) \in Packets
  <2>1. rx_queue[c] \in Seq(Packets)  BY DEF SequencesOK
  <2>2. queue \in Seq(Packets) /\ queue # <<>>  BY <2>1, AppendElements
  <2>3. QED  BY <2>1, <2>2, TailItems
<1>5. \/ /\ busy[c] /\ rx_queue' = [rx_queue EXCEPT ![c] = queue]
          /\ UNCHANGED <<busy, msg_proc_done>>
       \/ /\ ~busy[c] /\ busy' = [busy EXCEPT ![c] = TRUE]
          /\ rx_queue' = [rx_queue EXCEPT ![c] = Tail(queue)]
          /\ \E t \in Nat : msg_proc_done' = [msg_proc_done EXCEPT ![c] =
               [pkt |-> set_processing_done(Head(queue)), at |-> t]]
  <2>1. Head(queue).instr \in Nat
        BY <1>4, InputsAssumption DEF Packets
  <2>2. now + Head(queue).instr \in Nat
        BY <2>1 DEF SequencesOK
  <2>3. QED  BY <1>2, <1>3, <2>2 DEF Enqueue, HandlePacket, process_packet, set_busy
<1>6. /\ brief(out_proc) # <<>>
      /\ brief(out_proc') = Tail(brief(out_proc))
      /\ Head(brief(out_proc)) = summary(pkt)
      BY <1>1, <1>2, BriefList DEF SequencesOK
<1>7. /\ line(c)' = Append(line(c), summary(pkt))
      /\ \A d \in Cores \ {c} : line(d)' = line(d)
  <2>1. CASE /\ busy[c] /\ rx_queue' = [rx_queue EXCEPT ![c] = queue]
             /\ UNCHANGED <<busy, msg_proc_done>>
    <3>1. /\ rx_queue'[c] = queue
          /\ \A d \in Cores \ {c} : rx_queue'[d] = rx_queue[d]
          BY <2>1 DEF SequencesOK
    <3>2. \A d \in Cores \ {c} : line(d)' = line(d)
          BY <2>1, <3>1 DEF line, serving
    <3>3. msg_proc_done[c].pkt \in Packets  BY <2>1 DEF SequencesOK
    <3>4. serving(c) \in Seq(Packets) /\ serving(c)' = Append(serving(c), pkt)
          BY <1>4, <2>1, <3>1, <3>3, InFront DEF serving
    <3>5. line(c) = brief(serving(c)) /\ line(c)' = brief(serving(c)')
          BY <2>1 DEF line
    <3>6. brief(Append(serving(c), pkt)) = Append(brief(serving(c)), summary(pkt))
          BY <3>4, BriefList
    <3>7. QED  BY <3>2, <3>4, <3>5, <3>6
  <2>2. CASE /\ ~busy[c] /\ busy' = [busy EXCEPT ![c] = TRUE]
             /\ rx_queue' = [rx_queue EXCEPT ![c] = Tail(queue)]
             /\ \E t \in Nat : msg_proc_done' = [msg_proc_done EXCEPT ![c] =
                  [pkt |-> set_processing_done(Head(queue)), at |-> t]]
    <3>1. PICK t \in Nat : msg_proc_done' = [msg_proc_done EXCEPT ![c] =
                  [pkt |-> set_processing_done(Head(queue)), at |-> t]]
          BY <2>2
    <3>2. rx_queue[c] = <<>> /\ rx_queue[c] \in Seq(Packets)
          BY <2>2 DEF SequencesOK
    <3>3. queue \in Seq(Packets) /\ queue # <<>> /\ queue = Append(<<>>, pkt)
          BY <1>4, <3>2
    <3> HIDE DEF queue
    <3>4. /\ busy'[c] /\ rx_queue'[c] = Tail(queue)
          /\ msg_proc_done'[c].pkt = set_processing_done(Head(queue))
          /\ \A d \in Cores \ {c} : /\ busy'[d] = busy[d] /\ rx_queue'[d] = rx_queue[d]
                                    /\ msg_proc_done'[d] = msg_proc_done[d]
          BY <2>2, <3>1 DEF SequencesOK
    <3>5. \A d \in Cores \ {c} : line(d)' = line(d)
          BY <3>4 DEF line, serving
    <3>6. line(c)' = brief(queue)
      <4>1. serving(c)' = <<set_processing_done(Head(queue))>> \o Tail(queue)
            BY <3>4 DEF serving
      <4>2. line(c)' = brief(serving(c)')
            BY <3>4 DEF line
      <4>3. QED  BY <3>3, <4>1, <4>2, Restarted
    <3>7. <<>> \in Seq(Packets) /\ brief(<<>>) = <<>>
      <4>1. <<>> \in Seq(Packets)  OBVIOUS
      <4>2. QED  BY <4>1, BriefList
    <3>8. brief(queue) = Append(<<>>, summary(pkt))
          BY <3>3, <3>7, BriefList
    <3>9. line(c) = <<>>  BY <2>2 DEF line
    <3>10. QED  BY <3>5, <3>6, <3>8, <3>9
  <2>3. QED  BY <1>5, <2>1, <2>2
<1>8. \A d \in Cores : Core(d) # Core(c) => line(d)' = line(d)
      BY <1>7
<1>9. \A s \in QueueIds \ {Local, Core(c)} : Queues'[s] = Queues[s]
      BY <1>1, <1>8, QueueOf, QueuesNext, OtherQueues
<1>10. Moved(Queues, Queues', Local, Core(c))
      BY <1>6, <1>7, <1>9, QueueOf, QueuesNext DEF Moved
<1>11. QED  BY <1>10

LEMMA CompleteStep ==
  ASSUME SequencesOK, CoreInv, NEW m \in Cores, Complete(m)
  PROVE  /\ Moved(Queues, Queues', Core(m), Done)
         /\ \E p \in Packets : p.processing_done /\ proc_out' = Append(proc_out, p)
<1> DEFINE pkt == msg_proc_done[m].pkt
           p   == delivered(pkt, now)
<1>1. /\ busy[m] /\ pkt.rx_queue = m /\ pkt.processing_done /\ pkt \in Packets
      /\ rx_queue[m] \in Seq(Packets)
  <2>1. msg_proc_done[m] # NoMsg  BY DEF Complete, HandleProcDone
  <2>2. busy[m]  BY <2>1 DEF CoreInv, CoreConsistent
  <2>3. QED  BY <2>2 DEF CoreInv, CoreConsistent, SequencesOK
<1>2. /\ proc_out' = Append(proc_out, p)
      /\ UNCHANGED <<offload_in, out_proc, offload_out, m_pkt_queue>>
      BY DEF Complete, HandleProcDone, outVars
<1>3. p \in Packets /\ p.processing_done /\ summary(p) = summary(pkt)
      BY <1>1 DEF SequencesOK, Packets, delivered, summary
<1>4. \/ /\ rx_queue[m] # <<>>
         /\ rx_queue' = [rx_queue EXCEPT ![m] = Tail(rx_queue[m])]
         /\ \E t \in Nat : msg_proc_done' = [msg_proc_done EXCEPT ![m] =
              [pkt |-> set_processing_done(Head(rx_queue[m])), at |-> t]]
         /\ UNCHANGED busy
      \/ /\ rx_queue[m] = <<>>
         /\ busy' = [busy EXCEPT ![m] = FALSE]
         /\ msg_proc_done' = [msg_proc_done EXCEPT ![m] = NoMsg]
         /\ UNCHANGED rx_queue
  <2>1. CASE rx_queue[m] # <<>>
    <3>1. Head(rx_queue[m]) \in Packets  BY <1>1, <2>1
    <3>2. Head(rx_queue[m]).instr \in Nat
          BY <3>1, InputsAssumption DEF Packets
    <3>3. now + Head(rx_queue[m]).instr \in Nat
          BY <3>2 DEF SequencesOK
    <3>4. QED  BY <1>1, <2>1, <3>3 DEF Complete, HandleProcDone, process_packet
  <2>2. CASE rx_queue[m] = <<>>
        BY <1>1, <2>2 DEF Complete, HandleProcDone, set_busy
  <2>3. QED  BY <2>1, <2>2
<1>5. /\ serving(m) \in Seq(Packets) /\ serving(m) # <<>>
      /\ Head(serving(m)) = pkt /\ Tail(serving(m)) = rx_queue[m]
      BY <1>1, InFront DEF serving
<1>6. line(m) = brief(serving(m))  BY <1>1 DEF line
<1> HIDE DEF p, pkt
<1>7. /\ line(m) # <<>> /\ Head(line(m)) = summary(p)
      /\ Tail(line(m)) = brief(rx_queue[m])
      BY <1>3, <1>5, <1>6, BriefList
<1>8. /\ line(m)' = brief(rx_queue[m])
      /\ \A d \in Cores \ {m} : line(d)' = line(d)
  <2>1. CASE /\ rx_queue[m] # <<>>
             /\ rx_queue' = [rx_queue EXCEPT ![m] = Tail(rx_queue[m])]
             /\ \E t \in Nat : msg_proc_done' = [msg_proc_done EXCEPT ![m] =
                  [pkt |-> set_processing_done(Head(rx_queue[m])), at |-> t]]
             /\ UNCHANGED busy
    <3>1. PICK t \in Nat : msg_proc_done' = [msg_proc_done EXCEPT ![m] =
                  [pkt |-> set_processing_done(Head(rx_queue[m])), at |-> t]]
          BY <2>1
    <3>2. /\ busy'[m] /\ rx_queue'[m] = Tail(rx_queue[m])
          /\ msg_proc_done'[m].pkt = set_processing_done(Head(rx_queue[m]))
          /\ \A d \in Cores \ {m} : /\ busy'[d] = busy[d] /\ rx_queue'[d] = rx_queue[d]
                                    /\ msg_proc_done'[d] = msg_proc_done[d]
          BY <1>1, <2>1, <3>1 DEF SequencesOK
    <3>3. \A d \in Cores \ {m} : line(d)' = line(d)
          BY <3>2 DEF line, serving
    <3>4. serving(m)' = <<set_processing_done(Head(rx_queue[m]))>> \o Tail(rx_queue[m])
          BY <3>2 DEF serving
    <3>5. line(m)' = brief(serving(m)')
          BY <3>2 DEF line
    <3>6. QED  BY <1>1, <2>1, <3>3, <3>4, <3>5, Restarted
  <2>2. CASE /\ rx_queue[m] = <<>>
             /\ busy' = [busy EXCEPT ![m] = FALSE]
             /\ msg_proc_done' = [msg_proc_done EXCEPT ![m] = NoMsg]
             /\ UNCHANGED rx_queue
    <3>1. /\ ~busy'[m]
          /\ \A d \in Cores \ {m} : /\ busy'[d] = busy[d] /\ rx_queue'[d] = rx_queue[d]
                                    /\ msg_proc_done'[d] = msg_proc_done[d]
          BY <2>2 DEF SequencesOK
    <3>2. \A d \in Cores \ {m} : line(d)' = line(d)
          BY <3>1 DEF line, serving
    <3>3. brief(rx_queue[m]) = <<>>  BY <1>1, <2>2, BriefList
    <3>4. line(m)' = <<>>  BY <3>1 DEF line
    <3>5. QED  BY <3>2, <3>3, <3>4
  <2>3. QED  BY <1>4, <2>1, <2>2
<1>9. \A d \in Cores : Core(d) # Core(m) => line(d)' = line(d)
      BY <1>8
<1>10. \A s \in QueueIds \ {Core(m), Done} : Queues'[s] = Queues[s]
      BY <1>2, <1>9, QueueOf, QueuesNext, OtherQueues
<1>11. brief(proc_out') = Append(brief(proc_out), summary(p))
      BY <1>2, <1>3, BriefList DEF SequencesOK
<1>12. Moved(Queues, Queues', Core(m), Done)
      BY <1>7, <1>8, <1>10, <1>11, QueueOf, QueuesNext DEF Moved
<1>13. QED  BY <1>2, <1>3, <1>12

-----------------------------------------------------------------------------
(* The output buffer and the link.                                         *)

Seen == [flow : Flows, id : Ids, hop_cnt : 0 .. 255, done : BOOLEAN]

LEMMA LinkList ==
  ASSUME port_out \in Seq(LinkMsgs)
  PROVE  /\ link = <<>> <=> port_out = <<>>
         /\ port_out # <<>> /\ port_out' = Tail(port_out) => link' = Tail(link)
         /\ \A p \in Packets, t \in Nat :
              port_out' = Append(port_out, [pkt |-> p, at |-> t]) =>
                link' = Append(link, [flow |-> p.flow, id |-> p.id,
                                      hop_cnt |-> p.hop_cnt, done |-> p.processing_done])
<1> DEFINE seen(p) == [flow |-> p.flow, id |-> p.id, hop_cnt |-> p.hop_cnt,
                       done |-> p.processing_done]
           m == [l \in LinkMsgs |-> seen(l.pkt)]
<1>1. m \in [LinkMsgs -> Seen]
      BY DEF LinkMsgs, Packets, Seen
<1>2. ASSUME NEW s \in Seq(LinkMsgs)
      PROVE  [i \in DOMAIN s |-> LET p == s[i].pkt IN seen(p)] = mapped(m, s)
  <2>1. \A i \in DOMAIN s : s[i] \in LinkMsgs  OBVIOUS
  <2>2. QED  BY <2>1 DEF mapped
<1>3. ChangesAlike(m, LinkMsgs, port_out)  BY <1>1, MappedList
<1>4. link = mapped(m, port_out)  BY <1>2 DEF link
<1>5. port_out' \in Seq(LinkMsgs) => link' = mapped(m, port_out')
      BY <1>2 DEF link
<1>6. ASSUME NEW p \in Packets, NEW t \in Nat
      PROVE  [pkt |-> p, at |-> t] \in LinkMsgs /\ m[[pkt |-> p, at |-> t]] = seen(p)
      BY DEF LinkMsgs
<1>7. /\ \A l \in LinkMsgs : Append(port_out, l) \in Seq(LinkMsgs)
      /\ port_out # <<>> => Tail(port_out) \in Seq(LinkMsgs)
      OBVIOUS
<1> HIDE DEF m
<1>8. link = <<>> <=> port_out = <<>>
      BY <1>3, <1>4 DEF ChangesAlike
<1>9. ASSUME port_out # <<>>, port_out' = Tail(port_out)
      PROVE  link' = Tail(link)
      BY <1>3, <1>4, <1>5, <1>7, <1>9 DEF ChangesAlike
<1>10. ASSUME NEW p \in Packets, NEW t \in Nat,
              port_out' = Append(port_out, [pkt |-> p, at |-> t])
       PROVE  link' = Append(link, seen(p))
      BY <1>3, <1>4, <1>5, <1>6, <1>7, <1>10 DEF ChangesAlike
<1>11. QED  BY <1>8, <1>9, <1>10

\* The packet at the head of queue q leaves for the link, one hop older.
Sent(q) ==
  /\ Left(Queues, Queues', q)
  /\ LET s == Head(Queues[q])
     IN  \E done \in BOOLEAN :
           /\ done \/ (EnableOffload /\ s.hop_cnt + 1 < MaxHopCnt)
           /\ link' = Append(link, [flow |-> s.flow, id |-> s.id,
                                    hop_cnt |-> s.hop_cnt + 1, done |-> done])

\* send_packet counts the hop and sends the first packet of the buffer.
LEMMA SendStep ==
  ASSUME BufferInv, now \in Nat, NEW queue \in Seq(Packets), queue # <<>>,
         mayLeave(Head(queue)), summary(Head(queue)) \in HeldPackets, send_packet(queue)
  PROVE  LET s == summary(Head(queue))
         IN  \E done \in BOOLEAN :
               /\ done \/ (EnableOffload /\ s.hop_cnt + 1 < MaxHopCnt)
               /\ link' = Append(link, [flow |-> s.flow, id |-> s.id,
                                        hop_cnt |-> s.hop_cnt + 1, done |-> done])
<1> DEFINE p == Head(queue)
           o == clear(incrm_hop_cnt(p))
<1>1. p \in Packets  OBVIOUS
<1>2. PICK tx \in TxTimes : port_out' = Append(port_out, [pkt |-> o, at |-> now + tx])
      BY DEF send_packet
<1>3. now + tx \in Nat  BY TxAssumption
<1> HIDE DEF p
<1>4. PICK h \in 0 .. MaxHopCnt - 1 : h = p.hop_cnt
  <2>1. p.hop_cnt \in 0 .. MaxHopCnt - 1  BY DEF HeldPackets, summary, p
  <2>2. QED  BY <2>1
<1>5. /\ o \in Packets /\ o.flow = p.flow /\ o.id = p.id
      /\ o.hop_cnt = p.hop_cnt + 1 /\ o.processing_done = p.processing_done
  <2>1. h + 1 \in 0 .. 255 /\ (h + 1) % 256 = h + 1  BY HopsAssumption
  <2>2. (p.hop_cnt + 1) % 256 = h + 1 /\ p.hop_cnt + 1 = h + 1
        BY <1>4, <2>1
  <2> DEFINE u == incrm_hop_cnt(p)
  <2>3. u = [p EXCEPT !.hop_cnt = h + 1]
        BY <2>2 DEF incrm_hop_cnt
  <2>4. /\ u \in Packets /\ u.flow = p.flow /\ u.id = p.id
        /\ u.hop_cnt = h + 1 /\ u.processing_done = p.processing_done
        BY <1>1, <2>1, <2>3 DEF Packets
  <2> HIDE DEF u
  <2>5. /\ clear(u) \in Packets /\ clear(u).flow = u.flow /\ clear(u).id = u.id
        /\ clear(u).hop_cnt = u.hop_cnt /\ clear(u).processing_done = u.processing_done
        BY <2>4 DEF Packets, clear
  <2>6. QED  BY <2>2, <2>4, <2>5 DEF u
<1>6. p.processing_done \in BOOLEAN  BY <1>1 DEF Packets
<1> HIDE DEF o
<1>7. link' = Append(link, [flow |-> p.flow, id |-> p.id, hop_cnt |-> p.hop_cnt + 1,
                            done |-> p.processing_done])
      BY <1>2, <1>3, <1>5, LinkList DEF BufferInv, OutTypeOK
<1>8. /\ summary(p).flow = p.flow /\ summary(p).id = p.id
      /\ summary(p).hop_cnt = p.hop_cnt
      BY DEF summary
<1>9. mayLeave(p)  BY DEF p
<1>10. QED  BY <1>6, <1>7, <1>8, <1>9 DEF mayLeave, p

\* A packet arrives at the buffer: it is sent at once or waits behind others.
LEMMA ArriveStep ==
  ASSUME SequencesOK, BufferInv, Typed(Queues), NEW q \in {Done, Away},
         NEW s \in Seq(Packets), s # <<>>, Queues[q] = brief(s), Queues'[q] = brief(Tail(s)),
         mayLeave(Head(s)), OutHandlePacket(Head(s)),
         \A r \in QueueIds \ {q, Buffer} : Queues'[r] = Queues[r]
  PROVE  \/ Moved(Queues, Queues', q, Buffer) /\ link' = link
         \/ Sent(q)
<1> DEFINE pkt == Head(s)
<1>1. /\ pkt \in Packets /\ brief(s) # <<>> /\ brief(Tail(s)) = Tail(brief(s))
      /\ Head(brief(s)) = summary(pkt)
      BY BriefList
<1>2. q \in QueueIds /\ q # Buffer /\ Buffer \in QueueIds
      BY QueueNames DEF QueueIds
<1>3. summary(pkt) \in HeldPackets
  <2>1. brief(s) \in Seq(HeldPackets)  BY <1>2 DEF Typed
  <2>2. QED  BY <1>1, <2>1
<1>4. CASE /\ m_waiting_for_input
           /\ send_packet(Append(m_pkt_queue, pkt))
  <2>1. m_pkt_queue = <<>>  BY <1>4 DEF BufferInv, BufferConsistent
  <2> DEFINE queue == Append(m_pkt_queue, pkt)
  <2>2. queue \in Seq(Packets) /\ queue # <<>> /\ Head(queue) = pkt /\ Tail(queue) = <<>>
        BY <1>1, <2>1
  <2>3. m_pkt_queue' = m_pkt_queue
        BY <1>4, <2>1, <2>2 DEF send_packet
  <2>4. mayLeave(Head(queue)) /\ summary(Head(queue)) \in HeldPackets
        BY <1>3, <2>2
  <2> HIDE DEF queue
  <2>5. \E done \in BOOLEAN :
          /\ done \/ (EnableOffload /\ summary(pkt).hop_cnt + 1 < MaxHopCnt)
          /\ link' = Append(link, [flow |-> summary(pkt).flow, id |-> summary(pkt).id,
                                   hop_cnt |-> summary(pkt).hop_cnt + 1, done |-> done])
        BY <1>4, <2>2, <2>4, SendStep DEF SequencesOK, queue
  <2>6. Queues'[Buffer] = Queues[Buffer]
        BY <2>3, QueueOf, QueuesNext
  <2>7. Left(Queues, Queues', q)
        BY <1>1, <1>2, <2>6 DEF Left
  <2>8. QED  BY <1>1, <2>5, <2>7 DEF Sent
<1>5. CASE /\ ~m_waiting_for_input
           /\ m_pkt_queue' = Append(m_pkt_queue, pkt)
           /\ UNCHANGED port_out
  <2>1. Queues'[Buffer] = Append(Queues[Buffer], summary(pkt))
        BY <1>1, <1>5, BriefList, QueueOf, QueuesNext DEF SequencesOK
  <2>2. Moved(Queues, Queues', q, Buffer)
        BY <1>1, <1>2, <2>1 DEF Moved
  <2>3. link' = link  BY <1>5 DEF link
  <2>4. QED  BY <2>2, <2>3
<1>6. QED  BY <1>4, <1>5 DEF OutHandlePacket

\* The other events leave the queues alone.
LEMMA OtherStep ==
  ASSUME UNCHANGED <<offload_in, out_proc, proc_out, offload_out, m_pkt_queue,
                     rx_queue, busy, msg_proc_done>>
  PROVE  Queues' = Queues
<1>1. \A c \in Cores : line(c)' = line(c)
      BY DEF line, serving
<1>2. \A q \in QueueIds : Queues'[q] = Queues[q]
      BY <1>1, QueueOf, QueuesNext, OtherQueues
<1>3. DOMAIN Queues = QueueIds /\ Queues = [q \in QueueIds |-> Queues[q]]
      BY DEF Queues
<1>4. QED  BY <1>2, <1>3, QueuesNext

LEMMA OutputProcessedStep ==
  ASSUME SequencesOK, BufferInv, Typed(Queues), Sendable, OutputProcessed
  PROVE  \/ Moved(Queues, Queues', Done, Buffer) /\ link' = link
         \/ Sent(Done)
<1>1. /\ proc_out # <<>> /\ proc_out' = Tail(proc_out) /\ OutHandlePacket(Head(proc_out))
      /\ UNCHANGED <<offload_in, out_proc, offload_out, rx_queue, busy, msg_proc_done>>
      BY DEF OutputProcessed, TakeProcessed, coreVars
<1>2. mayLeave(Head(proc_out))
      BY <1>1, TailItems DEF SequencesOK, Sendable, mayLeave
<1>3. \A c \in Cores : line(c)' = line(c)
      BY <1>1 DEF line, serving
<1>4. \A r \in QueueIds \ {Done, Buffer} : Queues'[r] = Queues[r]
      BY <1>1, <1>3, QueueOf, QueuesNext, OtherQueues
<1>5. Queues[Done] = brief(proc_out) /\ Queues'[Done] = brief(Tail(proc_out))
      BY <1>1, QueueOf, QueuesNext
<1>6. QED  BY <1>1, <1>2, <1>4, <1>5, ArriveStep DEF SequencesOK

LEMMA OutputOffloadedStep ==
  ASSUME SequencesOK, BufferInv, Typed(Queues), Sendable, OutputOffloaded
  PROVE  \/ Moved(Queues, Queues', Away, Buffer) /\ link' = link
         \/ Sent(Away)
<1>1. /\ offload_out # <<>> /\ offload_out' = Tail(offload_out)
      /\ OutHandlePacket(Head(offload_out))
      /\ UNCHANGED <<offload_in, out_proc, proc_out, rx_queue, busy, msg_proc_done>>
      BY DEF OutputOffloaded, TakeOffloaded, coreVars
<1>2. mayLeave(Head(offload_out))
      BY <1>1, TailItems DEF SequencesOK, Sendable
<1>3. \A c \in Cores : line(c)' = line(c)
      BY <1>1 DEF line, serving
<1>4. \A r \in QueueIds \ {Away, Buffer} : Queues'[r] = Queues[r]
      BY <1>1, <1>3, QueueOf, QueuesNext, OtherQueues
<1>5. Queues[Away] = brief(offload_out) /\ Queues'[Away] = brief(Tail(offload_out))
      BY <1>1, QueueOf, QueuesNext
<1>6. QED  BY <1>1, <1>2, <1>4, <1>5, ArriveStep DEF SequencesOK

LEMMA OutputNextStep ==
  ASSUME SequencesOK, BufferInv, Typed(Queues), Sendable, OutputNext
  PROVE  \/ Queues' = Queues /\ link' = link
         \/ Sent(Buffer)
<1>1. /\ OutHandleSelf
      /\ UNCHANGED <<offload_in, out_proc, proc_out, offload_out, rx_queue, busy, msg_proc_done>>
      BY DEF OutputNext, procVars, coreVars
<1>2. \A c \in Cores : line(c)' = line(c)
      BY <1>1 DEF line, serving
<1>3. CASE m_pkt_queue = <<>>
  <2>1. UNCHANGED <<m_pkt_queue, port_out>>  BY <1>1, <1>3 DEF OutHandleSelf
  <2>2. brief(m_pkt_queue)' = brief(m_pkt_queue) /\ link' = link
        BY <2>1 DEF link
  <2>3. Queues' = Queues
        BY <1>1, <2>1, OtherStep
  <2>4. QED  BY <2>2, <2>3
<1>4. CASE m_pkt_queue # <<>>
  <2>1. send_packet(m_pkt_queue)  BY <1>1, <1>4 DEF OutHandleSelf
  <2>2. m_pkt_queue' = Tail(m_pkt_queue)  BY <2>1 DEF send_packet
  <2>3. mayLeave(Head(m_pkt_queue))
        BY <1>4, TailItems DEF SequencesOK, Sendable
  <2>4. /\ Queues[Buffer] = brief(m_pkt_queue) /\ brief(m_pkt_queue) # <<>>
        /\ Queues'[Buffer] = Tail(Queues[Buffer])
        /\ Head(Queues[Buffer]) = summary(Head(m_pkt_queue))
        BY <1>4, <2>2, BriefList, QueueOf, QueuesNext DEF SequencesOK
  <2>5. Queues[Buffer] \in Seq(HeldPackets)  BY DEF Typed, QueueIds
  <2>6. summary(Head(m_pkt_queue)) \in HeldPackets
        BY <2>4, <2>5
  <2>7. \A r \in QueueIds \ {Buffer} : Queues'[r] = Queues[r]
        BY <1>1, <1>2, QueueOf, QueuesNext, OtherQueues
  <2>8. Left(Queues, Queues', Buffer)
        BY <2>4, <2>7 DEF Left
  <2>9. LET s == Head(Queues[Buffer])
        IN  \E done \in BOOLEAN :
              /\ done \/ (EnableOffload /\ s.hop_cnt + 1 < MaxHopCnt)
              /\ link' = Append(link, [flow |-> s.flow, id |-> s.id,
                                       hop_cnt |-> s.hop_cnt + 1, done |-> done])
        BY <1>4, <2>1, <2>3, <2>4, <2>6, SendStep DEF SequencesOK
  <2>10. QED  BY <2>8, <2>9 DEF Sent
<1>5. QED  BY <1>3, <1>4

-----------------------------------------------------------------------------
(* The invariant holds in every state.                                     *)

\* What the ring sees of the node are the contents of its queues.
LEMMA HeldInQueues == SequencesOK => held = contents(Queues)
<1> SUFFICES ASSUME SequencesOK PROVE held = contents(Queues)
    OBVIOUS
<1> DEFINE stored == items(offload_in) \cup items(offload_out) \cup items(out_proc) \cup
                     items(proc_out) \cup items(m_pkt_queue) \cup
                     (UNION {items(rx_queue[c]) : c \in Cores}) \cup
                     {msg_proc_done[c].pkt : c \in {d \in Cores : busy[d]}}
           moving(p) == p \in items(offload_in) \cup items(offload_out) \cup items(out_proc)
                                \cup items(proc_out) \cup items(m_pkt_queue)
           atCores(p, c) == p \in items(rx_queue[c]) \cup
                                    IF busy[c] THEN {msg_proc_done[c].pkt} ELSE {}
<1>1. held = {summary(p) : p \in stored}
      BY DEF held, summary
<1>2. ASSUME NEW s \in Seq(Packets)
      PROVE  items(brief(s)) = {summary(p) : p \in items(s)}
  <2>1. DOMAIN brief(s) = DOMAIN s /\ \A i \in DOMAIN s : brief(s)[i] = summary(s[i])
        BY DEF brief
  <2>2. QED  BY <2>1 DEF items
<1>3. ASSUME NEW c \in Cores
      PROVE  items(line(c)) = {summary(p) : p \in
               items(rx_queue[c]) \cup IF busy[c] THEN {msg_proc_done[c].pkt} ELSE {}}
  <2>1. CASE busy[c]
    <3> DEFINE a == msg_proc_done[c].pkt
               s == rx_queue[c]
    <3>1. a \in Packets /\ s \in Seq(Packets)  BY <2>1 DEF SequencesOK
    <3> HIDE DEF a, s
    <3>2. items(<<a>> \o s) = items(s) \cup {a}
      <4>1. /\ Len(s) \in Nat /\ DOMAIN s = 1 .. Len(s) /\ DOMAIN (<<a>> \o s) = 1 .. Len(s) + 1
            /\ (<<a>> \o s)[1] = a
            /\ \A i \in 1 .. Len(s) : (<<a>> \o s)[i + 1] = s[i]
            BY <3>1
      <4>2. \A i \in 1 .. Len(s) + 1 : i = 1 \/ (i - 1 \in 1 .. Len(s) /\ (i - 1) + 1 = i)
            BY <4>1
      <4>3. \A x \in items(<<a>> \o s) : x = a \/ x \in items(s)
            BY <4>1, <4>2 DEF items
      <4>4. 1 \in 1 .. Len(s) + 1 /\ \A i \in 1 .. Len(s) : i + 1 \in 1 .. Len(s) + 1
            BY <4>1
      <4>5. a \in items(<<a>> \o s)
            BY <4>1, <4>4 DEF items
      <4>6. \A i \in 1 .. Len(s) : s[i] \in items(<<a>> \o s)
            BY <4>1, <4>4 DEF items
      <4>7. \A x \in items(s) : x \in items(<<a>> \o s)
            BY <4>1, <4>6 DEF items
      <4>8. QED  BY <4>3, <4>5, <4>7
    <3>3. <<a>> \o s \in Seq(Packets)  BY <3>1, InFront
    <3>4. items(brief(<<a>> \o s)) = {summary(p) : p \in items(s) \cup {a}}
          BY <1>2, <3>2, <3>3
    <3>5. line(c) = brief(<<a>> \o s)  BY <2>1 DEF line, serving, a, s
    <3>6. QED  BY <2>1, <3>4, <3>5 DEF a, s
  <2>2. CASE ~busy[c]
    <3>1. line(c) = <<>> /\ rx_queue[c] = <<>>  BY <2>2 DEF line, SequencesOK
    <3>2. items(<<>>) = {}  BY DEF items
    <3>3. QED  BY <2>2, <3>1, <3>2
  <2>3. QED  BY <2>1, <2>2
<1>4. /\ items(Queues[In]) = {summary(p) : p \in items(offload_in)}
      /\ items(Queues[Local]) = {summary(p) : p \in items(out_proc)}
      /\ items(Queues[Done]) = {summary(p) : p \in items(proc_out)}
      /\ items(Queues[Away]) = {summary(p) : p \in items(offload_out)}
      /\ items(Queues[Buffer]) = {summary(p) : p \in items(m_pkt_queue)}
      BY <1>2, QueueOf DEF SequencesOK
<1>5. \A c \in Cores : items(Queues[Core(c)]) = {summary(p) : p \in
        items(rx_queue[c]) \cup IF busy[c] THEN {msg_proc_done[c].pkt} ELSE {}}
      BY <1>3, QueueOf
<1>6. {In, Local, Done, Away, Buffer} \subseteq QueueIds /\ \A c \in Cores : Core(c) \in QueueIds
      BY DEF QueueIds
<1>7. \A p : p \in stored <=> moving(p) \/ \E c \in Cores : atCores(p, c)
      OBVIOUS
<1> HIDE DEF stored
<1>8. ASSUME NEW p \in stored
      PROVE  summary(p) \in contents(Queues)
  <2>1. CASE \E c \in Cores : atCores(p, c)
        BY <2>1, <1>5, <1>6 DEF contents
  <2>2. CASE moving(p)
        BY <2>2, <1>4, <1>6 DEF contents
  <2>3. QED  BY <1>7, <2>1, <2>2
<1>9. ASSUME NEW q \in QueueIds, NEW x \in items(Queues[q])
      PROVE  \E p \in stored : x = summary(p)
  <2>1. CASE q \in {In, Local, Done, Away, Buffer}
        BY <2>1, <1>4, <1>7, <1>9
  <2>2. CASE \E c \in Cores : q = Core(c)
        BY <2>2, <1>5, <1>7, <1>9
  <2>3. QED  BY <2>1, <2>2, OtherQueues
<1>10. QED  BY <1>1, <1>8, <1>9 DEF contents

LEMMA TracedInitInv == TracedInit => TracedInv
<1> SUFFICES ASSUME TracedInit PROVE TracedInv
    OBVIOUS
<1>1. NodeInv  BY NodeInvInit DEF TracedInit
<1>2. BufferInv
      BY DEF TracedInit, NodeInit, OutInit, BufferInv, OutTypeOK, BufferConsistent, LinkSerial
<1>3. /\ offload_in = <<>> /\ offload_out = <<>> /\ out_proc = <<>> /\ proc_out = <<>>
      /\ m_pkt_queue = <<>> /\ \A c \in Cores : ~busy[c]
      /\ entered = [f \in Flows |-> <<>>]
      BY DEF TracedInit, NodeInit, ProcInit, WiresInit, OffloadInit, OutInit
<1>4. \A q \in QueueIds : Queues[q] = <<>>
  <2>1. brief(<<>>) = <<>>  BY DEF brief
  <2>2. \A c \in Cores : line(c) = <<>>  BY <1>3 DEF line
  <2>3. QED  BY <1>3, <2>1, <2>2, QueueOf, OtherQueues
<1>5. Typed(Queues)
  <2>1. \A q \in QueueIds : Queues[q] \in Seq(HeldPackets)
    <3>1. <<>> \in Seq(HeldPackets)  OBVIOUS
    <3>2. QED  BY <1>4, <3>1
  <2>2. Queues = [q \in QueueIds |-> Queues[q]]  BY DEF Queues
  <2>3. QED  BY <2>1, <2>2 DEF Typed
<1>6. Unique(Queues)  BY <1>4 DEF Unique
<1>7. Numbered  BY <1>4 DEF Numbered, contents, items
<1>8. Sendable  BY <1>3 DEF Sendable
<1>9. entered \in [Flows -> Seq(Nat)]  BY <1>3
<1>10. QED  BY <1>1, <1>2, <1>5, <1>6, <1>7, <1>8, <1>9 DEF TracedInv

\* What a step means for the ring, and what it leaves of the queues.
Stays == /\ held' = held /\ link' = link
         /\ Typed(Queues') /\ Unique(Queues') /\ contents(Queues') = contents(Queues)

LEMMA MovedStays ==
  ASSUME TracedInv, SequencesOK, SequencesOK', NEW q \in QueueIds, NEW r \in QueueIds, q # r,
         Moved(Queues, Queues', q, r), link' = link
  PROVE  Stays
<1>1. Typed(Queues') /\ Unique(Queues') /\ contents(Queues') = contents(Queues)
      BY MovedStep, QueuesNext DEF TracedInv
<1>2. held' = contents(Queues')
  <2>1. (SequencesOK => held = contents(Queues))'  BY HeldInQueues, PTL
  <2>2. QED  BY <2>1
<1>3. QED  BY <1>1, <1>2, HeldInQueues DEF Stays

LEMMA SameStays ==
  ASSUME TracedInv, SequencesOK, SequencesOK', Queues' = Queues, link' = link
  PROVE  Stays
<1>1. held' = contents(Queues')
  <2>1. (SequencesOK => held = contents(Queues))'  BY HeldInQueues, PTL
  <2>2. QED  BY <2>1
<1>2. QED  BY <1>1, HeldInQueues DEF Stays, TracedInv

Forwards ==
  /\ \E p \in HeldPackets, done \in BOOLEAN : Contract!Forward(p, done)
  /\ Typed(Queues') /\ Unique(Queues') /\ contents(Queues') \subseteq contents(Queues)

LEMMA SentForwards ==
  ASSUME TracedInv, SequencesOK, SequencesOK', NEW q \in QueueIds, Sent(q)
  PROVE  Forwards
<1> DEFINE p == Head(Queues[q])
<1>1. PICK done \in BOOLEAN :
        /\ done \/ (EnableOffload /\ p.hop_cnt + 1 < MaxHopCnt)
        /\ link' = Append(link, [flow |-> p.flow, id |-> p.id,
                                 hop_cnt |-> p.hop_cnt + 1, done |-> done])
      BY DEF Sent
<1>2. /\ Typed(Queues') /\ Unique(Queues')
      /\ p \in contents(Queues) /\ p \in HeldPackets
      /\ contents(Queues') = contents(Queues) \ {p}
      BY LeftStep, QueuesNext DEF TracedInv, Sent
<1> HIDE DEF p
<1>3. held' = contents(Queues')
  <2>1. (SequencesOK => held = contents(Queues))'  BY HeldInQueues, PTL
  <2>2. QED  BY <2>1
<1>4. Contract!Forward(p, done)
      BY <1>1, <1>2, <1>3, HeldInQueues DEF Contract!Forward
<1>5. QED  BY <1>2, <1>4 DEF Forwards

-----------------------------------------------------------------------------
(* Every step keeps the invariant and is one of the contract.              *)

Keeps ==
  /\ Typed(Queues') /\ Unique(Queues')
  /\ \A p \in contents(Queues') : p.id < Len(entered'[p.flow])

ContractStep ==
  \/ held' = held /\ link' = link
  \/ Contract!ContractNext(HeldPackets)

LEMMA StaysKeeps ==
  ASSUME TracedInv, Stays, entered' = entered
  PROVE  Keeps /\ ContractStep
BY DEF TracedInv, Numbered, Stays, Keeps, ContractStep

LEMMA ForwardsKeeps ==
  ASSUME TracedInv, Forwards, entered' = entered
  PROVE  Keeps /\ ContractStep
<1>1. Keeps  BY DEF TracedInv, Numbered, Forwards, Keeps
<1>2. ContractStep  BY DEF Forwards, ContractStep, Contract!ContractNext
<1>3. QED  BY <1>1, <1>2

\* A packet that comes in has a new number, so that it is not there yet.
LEMMA ReceiveKeeps ==
  ASSUME TracedInv, SequencesOK, SequencesOK', NEW pkt \in LinkPackets, TracedReceive(pkt)
  PROVE  Keeps /\ ContractStep
<1> DEFINE p == summary(pkt)
<1>1. /\ pkt.id = Len(entered[pkt.flow]) /\ Receive(pkt)
      /\ entered' = [entered EXCEPT ![pkt.flow] = Append(@, now)]
      BY DEF TracedReceive
<1>2. /\ pkt.flow \in Flows /\ pkt.id \in Ids /\ pkt.hop_cnt \in 0 .. MaxHopCnt - 1
  <2>1. 0 \in 0 .. MaxHopCnt - 1  BY HopsAssumption
  <2>2. pkt.hop_cnt \in 0 .. MaxHopCnt - 1  BY <2>1 DEF LinkPackets
  <2>3. QED  BY <2>2 DEF LinkPackets
<1>3. p \in HeldPackets /\ p.flow = pkt.flow /\ p.id = pkt.id
      BY <1>2 DEF HeldPackets, summary
<1>4. Came(Queues, Queues', In, p)
      BY <1>1, ReceiveStep
<1> HIDE DEF p
<1>5. \A o \in contents(Queues) : o.id < Len(entered[o.flow]) /\ o \in HeldPackets
  <2>1. \A q \in QueueIds : Queues[q] \in Seq(HeldPackets)  BY DEF TracedInv, Typed
  <2>2. \A q \in QueueIds : \A i \in DOMAIN Queues[q] : Queues[q][i] \in HeldPackets
        BY <2>1
  <2>3. QED  BY <2>2 DEF TracedInv, Numbered, contents, items
<1>6. \A o \in contents(Queues) : ~same(o, p)
  <2>1. ASSUME NEW o \in contents(Queues), same(o, p) PROVE FALSE
    <3>1. o.id < Len(entered[o.flow]) /\ o.flow = pkt.flow /\ o.id = Len(entered[pkt.flow])
          BY <1>1, <1>3, <1>5, <2>1 DEF same
    <3>2. Len(entered[pkt.flow]) \in Nat  BY <1>2 DEF TracedInv
    <3>3. QED  BY <3>1, <3>2
  <2>2. QED  BY <2>1
<1>7. /\ Typed(Queues') /\ Unique(Queues')
      /\ contents(Queues') = contents(Queues) \cup {p}
  <2>1. In \in QueueIds  BY DEF QueueIds
  <2>2. QED  BY <1>3, <1>4, <1>6, <2>1, CameStep, QueuesNext DEF TracedInv
<1>8. /\ \A f \in Flows : /\ Len(entered[f]) \in Nat /\ Len(entered'[f]) \in Nat
                          /\ Len(entered[f]) <= Len(entered'[f])
      /\ pkt.id < Len(entered'[pkt.flow])
  <2>1. /\ entered[pkt.flow] \in Seq(Nat) /\ now \in Nat
        /\ entered'[pkt.flow] = Append(entered[pkt.flow], now)
        /\ \A f \in Flows : f # pkt.flow => entered'[f] = entered[f]
        BY <1>1, <1>2 DEF TracedInv, SequencesOK
  <2>2. /\ Len(entered[pkt.flow]) \in Nat
        /\ Len(entered'[pkt.flow]) = Len(entered[pkt.flow]) + 1
        BY <2>1
  <2>3. \A f \in Flows : Len(entered[f]) \in Nat  BY DEF TracedInv
  <2>4. ASSUME NEW f \in Flows
        PROVE  /\ Len(entered[f]) \in Nat /\ Len(entered'[f]) \in Nat
               /\ Len(entered[f]) <= Len(entered'[f])
    <3>1. CASE f = pkt.flow  BY <2>2, <3>1
    <3>2. CASE f # pkt.flow  BY <2>1, <2>3, <3>2
    <3>3. QED  BY <3>1, <3>2
  <2>5. QED  BY <1>1, <2>2, <2>4
<1>9. Keeps
  <2>1. ASSUME NEW o \in contents(Queues)
        PROVE  o.id < Len(entered'[o.flow])
    <3>1. o.flow \in Flows /\ o.id \in Nat /\ o.id < Len(entered[o.flow])
          BY <1>5, InputsAssumption DEF HeldPackets
    <3>2. QED  BY <3>1, <1>8
  <2>2. p.id < Len(entered'[p.flow])  BY <1>3, <1>8
  <2>3. QED  BY <1>7, <2>1, <2>2 DEF Keeps
<1>10. Contract!Take(p)
  <2>1. (SequencesOK => held = contents(Queues))'  BY HeldInQueues, PTL
  <2>2. held' = held \cup {p}  BY <1>7, <2>1, HeldInQueues
  <2>3. p \notin held  BY <1>6, HeldInQueues DEF same
  <2>4. link' = link  BY <1>1 DEF Receive, outVars, link
  <2>5. QED  BY <2>2, <2>3, <2>4 DEF Contract!Take
<1>11. QED  BY <1>3, <1>9, <1>10 DEF ContractStep, Contract!ContractNext

LEMMA DepartKeeps ==
  ASSUME TracedInv, SequencesOK, SequencesOK', TracedDepart
  PROVE  Keeps /\ ContractStep
<1>1. /\ port_out # <<>> /\ port_out' = Tail(port_out)
      /\ UNCHANGED <<offload_in, out_proc, proc_out, offload_out, m_pkt_queue,
                     rx_queue, busy, msg_proc_done, entered>>
      BY DEF TracedDepart, Depart, LinkDelivers, procVars, coreVars
<1>2. Queues' = Queues  BY <1>1, OtherStep
<1>3. held' = held
  <2>1. (SequencesOK => held = contents(Queues))'  BY HeldInQueues, PTL
  <2>2. QED  BY <1>2, <2>1, HeldInQueues
<1>4. link # <<>> /\ link' = Tail(link)
      BY <1>1, LinkList DEF TracedInv, BufferInv, OutTypeOK
<1>5. ContractStep
      BY <1>3, <1>4 DEF ContractStep, Contract!ContractNext, Contract!Deliver
<1>6. Keeps
      BY <1>1, <1>2 DEF Keeps, TracedInv, Numbered
<1>7. QED  BY <1>5, <1>6

LEMMA InsideKeeps ==
  ASSUME TracedInv, SequencesOK, SequencesOK', Inside, entered' = entered
  PROVE  Keeps /\ ContractStep
<1>1. /\ NodeInv /\ CoreInv /\ OffloadInv /\ BufferInv /\ Typed(Queues) /\ Sendable
      BY DEF TracedInv, NodeInv
<1>2. /\ In \in QueueIds /\ Local \in QueueIds /\ Done \in QueueIds /\ Away \in QueueIds
      /\ Buffer \in QueueIds /\ \A c \in Cores : Core(c) \in QueueIds
      BY DEF QueueIds
<1>3. CASE Dispatch
  <2>1. link' = link  BY <1>3 DEF Dispatch, outVars, link
  <2>2. Stays
        BY <1>1, <1>2, <1>3, <2>1, DispatchStep, MovedStays, QueueNames
  <2>3. QED  BY <2>2, StaysKeeps
<1>4. CASE LearnOverload
  <2>1. Queues' = Queues /\ link' = link
        BY <1>4, OtherStep DEF LearnOverload, OffloadHandleTrigger, coreVars, outVars, link
  <2>2. QED  BY <2>1, SameStays, StaysKeeps
<1>5. CASE Enqueue
  <2>1. link' = link  BY <1>5 DEF Enqueue, outVars, link
  <2>2. PICK c \in Cores : Moved(Queues, Queues', Local, Core(c))
        BY <1>1, <1>5, EnqueueStep
  <2>3. Stays  BY <1>2, <2>1, <2>2, MovedStays, QueueNames
  <2>4. QED  BY <2>3, StaysKeeps
<1>6. CASE \E m \in Cores : Complete(m)
  <2>1. PICK m \in Cores : Complete(m)  BY <1>6
  <2>2. link' = link  BY <2>1 DEF Complete, outVars, link
  <2>3. Moved(Queues, Queues', Core(m), Done)  BY <1>1, <2>1, CompleteStep
  <2>4. Stays  BY <1>2, <2>2, <2>3, MovedStays, QueueNames
  <2>5. QED  BY <2>4, StaysKeeps
<1>7. CASE OutputProcessed
      BY <1>1, <1>2, <1>7, OutputProcessedStep, MovedStays, StaysKeeps,
         SentForwards, ForwardsKeeps, QueueNames
<1>8. CASE OutputOffloaded
      BY <1>1, <1>2, <1>8, OutputOffloadedStep, MovedStays, StaysKeeps,
         SentForwards, ForwardsKeeps, QueueNames
<1>9. CASE OutputNext
      BY <1>1, <1>2, <1>9, OutputNextStep, SameStays, StaysKeeps,
         SentForwards, ForwardsKeeps
<1>10. CASE NodeTick
  <2>1. Queues' = Queues /\ link' = link
        BY <1>10, OtherStep DEF NodeTick, coreVars, outVars, link
  <2>2. QED  BY <2>1, SameStays, StaysKeeps
<1>11. QED
      BY <1>3, <1>4, <1>5, <1>6, <1>7, <1>8, <1>9, <1>10 DEF Inside

\* The ends of a sequence hold nothing new.
LEMMA SameItems ==
  ASSUME NEW seq \in Seq(Packets)
  PROVE  /\ seq # <<>> => \A i \in DOMAIN Tail(seq) : \E j \in DOMAIN seq : Tail(seq)[i] = seq[j]
         /\ \A p \in Packets : \A i \in DOMAIN Append(seq, p) :
              Append(seq, p)[i] = p \/ \E j \in DOMAIN seq : Append(seq, p)[i] = seq[j]
<1>1. seq # <<>> => \A i \in DOMAIN Tail(seq) : \E j \in DOMAIN seq : Tail(seq)[i] = seq[j]
      BY TailItems
<1>2. ASSUME NEW p \in Packets, NEW i \in DOMAIN Append(seq, p)
      PROVE  Append(seq, p)[i] = p \/ \E j \in DOMAIN seq : Append(seq, p)[i] = seq[j]
  <2>1. Append(seq, p)[i] = IF i \in DOMAIN seq THEN seq[i] ELSE p
        BY AppendItems
  <2>2. QED  BY <2>1
<1>3. QED  BY <1>1, <1>2

\* Only processed packets leave Processing, and Offload passes on only those that
\* may hop once more.
LEMMA SendableKept ==
  ASSUME TracedInv, SequencesOK, SequencesOK', OffloadInv', [NodeNext]_nodeVars
  PROVE  Sendable'
<1>1. ASSUME proc_out' = proc_out, offload_out' = offload_out,
             m_pkt_queue' = m_pkt_queue
      PROVE  Sendable'
      BY <1>1 DEF TracedInv, Sendable
<1>2. ASSUME proc_out' = proc_out, m_pkt_queue' = m_pkt_queue, Dispatch
      PROVE  Sendable'
  <2>1. \A i \in DOMAIN offload_out' : mayLeave(offload_out'[i])
    <3> DEFINE pkt == Head(offload_in)
    <3>1. pkt \in Packets /\ handle_pkt(pkt)
          BY <1>2, TailItems DEF Dispatch, OffloadHandlePkt, SequencesOK
    <3>2. offload_out' = offload_out
          \/ (EnableOffload /\ offload_out' = Append(offload_out, delivered(pkt, now)))
          BY <3>1, UpdatedEntry
             DEF handle_pkt, send_pkt_local, send_pkt_offload, TracedInv, NodeInv
    <3>3. delivered(pkt, now) \in Packets
          BY <3>1 DEF Packets, delivered, SequencesOK
    <3> HIDE DEF pkt
    <3>4. CASE offload_out' = offload_out
          BY <3>4 DEF TracedInv, Sendable
    <3>5. CASE EnableOffload /\ offload_out' = Append(offload_out, delivered(pkt, now))
          BY <3>5 DEF OffloadInv, NextHopAllowed, mayLeave
    <3>6. QED  BY <3>2, <3>4, <3>5
  <2>2. QED  BY <1>2, <2>1 DEF TracedInv, Sendable
<1>3. ASSUME NEW p \in Packets, mayLeave(p), OutHandlePacket(p)
      PROVE  \A i \in DOMAIN m_pkt_queue' : mayLeave(m_pkt_queue'[i])
  <2> DEFINE queue == Append(m_pkt_queue, p)
  <2>1. m_pkt_queue \in Seq(Packets)  BY DEF SequencesOK
  <2>2. queue \in Seq(Packets) /\ queue # <<>>
        BY <2>1, AppendElements
  <2>3. \A i \in DOMAIN queue : mayLeave(queue[i])
        BY <1>3, <2>1, SameItems DEF TracedInv, Sendable
  <2>4. m_pkt_queue' = queue \/ m_pkt_queue' = Tail(queue)
        BY <1>3 DEF OutHandlePacket, send_packet
  <2> HIDE DEF queue
  <2>5. \A i \in DOMAIN Tail(queue) : mayLeave(Tail(queue)[i])
        BY <2>2, <2>3, SameItems
  <2>6. QED  BY <2>3, <2>4, <2>5
<1>4. CASE OutputProcessed
  <2>1. /\ proc_out # <<>> /\ proc_out' = Tail(proc_out) /\ OutHandlePacket(Head(proc_out))
        /\ offload_out' = offload_out
        BY <1>4 DEF OutputProcessed, TakeProcessed
  <2>2. Head(proc_out) \in Packets /\ mayLeave(Head(proc_out))
        BY <2>1, TailItems DEF SequencesOK, TracedInv, Sendable, mayLeave
  <2>3. \A i \in DOMAIN proc_out' : proc_out'[i].processing_done
        BY <2>1, SameItems DEF TracedInv, Sendable, SequencesOK
  <2>4. \A i \in DOMAIN m_pkt_queue' : mayLeave(m_pkt_queue'[i])
        BY <1>3, <2>1, <2>2
  <2>5. QED  BY <2>1, <2>3, <2>4 DEF TracedInv, Sendable
<1>5. CASE OutputOffloaded
  <2>1. /\ offload_out # <<>> /\ offload_out' = Tail(offload_out)
        /\ OutHandlePacket(Head(offload_out)) /\ proc_out' = proc_out
        BY <1>5 DEF OutputOffloaded, TakeOffloaded
  <2>2. Head(offload_out) \in Packets /\ mayLeave(Head(offload_out))
        BY <2>1, TailItems DEF SequencesOK, TracedInv, Sendable
  <2>3. \A i \in DOMAIN offload_out' : mayLeave(offload_out'[i])
        BY <2>1, SameItems DEF TracedInv, Sendable, SequencesOK
  <2>4. \A i \in DOMAIN m_pkt_queue' : mayLeave(m_pkt_queue'[i])
        BY <1>3, <2>1, <2>2
  <2>5. QED  BY <2>1, <2>3, <2>4 DEF TracedInv, Sendable
<1>6. CASE OutputNext
  <2>1. UNCHANGED <<proc_out, offload_out>>
        BY <1>6 DEF OutputNext, procVars
  <2>2. m_pkt_queue' = m_pkt_queue \/ (m_pkt_queue # <<>> /\ m_pkt_queue' = Tail(m_pkt_queue))
        BY <1>6 DEF OutputNext, OutHandleSelf, send_packet
  <2>3. \A i \in DOMAIN m_pkt_queue' : mayLeave(m_pkt_queue'[i])
    <3>1. m_pkt_queue \in Seq(Packets) /\ \A i \in DOMAIN m_pkt_queue : mayLeave(m_pkt_queue[i])
          BY DEF TracedInv, Sendable, SequencesOK
    <3>2. CASE m_pkt_queue' = m_pkt_queue
          BY <3>1, <3>2
    <3>3. CASE m_pkt_queue # <<>> /\ m_pkt_queue' = Tail(m_pkt_queue)
      <4>1. \A i \in DOMAIN Tail(m_pkt_queue) : mayLeave(Tail(m_pkt_queue)[i])
            BY <3>1, <3>3, SameItems
      <4>2. QED  BY <3>3, <4>1
    <3>4. QED  BY <2>2, <3>2, <3>3
  <2>4. QED  BY <2>1, <2>3 DEF TracedInv, Sendable
<1>7. CASE \E m \in Cores : Complete(m)
  <2>1. PICK m \in Cores : Complete(m)  BY <1>7
  <2>2. PICK p \in Packets : p.processing_done /\ proc_out' = Append(proc_out, p)
        BY <2>1, CompleteStep DEF TracedInv, NodeInv
  <2>3. \A i \in DOMAIN proc_out' : proc_out'[i].processing_done
    <3>1. proc_out \in Seq(Packets) /\ \A i \in DOMAIN proc_out : proc_out[i].processing_done
          BY DEF TracedInv, Sendable, SequencesOK
    <3>2. \A i \in DOMAIN Append(proc_out, p) :
            Append(proc_out, p)[i] = p \/ \E j \in DOMAIN proc_out : Append(proc_out, p)[i] = proc_out[j]
          BY ONLY <3>1, SameItems
    <3>3. QED  BY ONLY <2>2, <3>1, <3>2
  <2>4. UNCHANGED <<offload_out, m_pkt_queue>>
        BY <2>1 DEF Complete, outVars
  <2>5. QED  BY <2>3, <2>4 DEF TracedInv, Sendable
<1>8. CASE Dispatch
  <2>1. UNCHANGED <<proc_out, m_pkt_queue>>
        BY <1>8 DEF Dispatch, outVars
  <2>2. QED  BY <1>2, <1>8, <2>1
<1>9. CASE Enqueue \/ LearnOverload \/ NodeTick \/ Depart
           \/ (\E pkt \in LinkPackets : Receive(pkt)) \/ UNCHANGED nodeVars
  <2>1. UNCHANGED <<proc_out, offload_out, m_pkt_queue>>
        BY <1>9 DEF Enqueue, HandlePacket, LearnOverload, OffloadHandleTrigger, NodeTick,
                    Depart, LinkDelivers, Receive, nodeVars, procVars, outVars
  <2>2. QED  BY <1>1, <2>1
<1>10. QED  BY <1>4, <1>5, <1>6, <1>7, <1>8, <1>9 DEF NodeNext

LEMMA TracedStep ==
  ASSUME TracedInv, [TracedNext]_tracedVars
  PROVE  TracedInv' /\ ContractStep
<1>1. [NodeNext]_nodeVars
      BY DEF TracedNext, TracedReceive, TracedDepart, Inside, NodeNext, tracedVars
<1>2. NodeInv' /\ BufferInv'
      BY <1>1, NodeInvStep, BufferStep DEF TracedInv
<1>3. SequencesOK /\ SequencesOK'
  <2>1. (NodeInv /\ BufferInv => SequencesOK)'  BY SequencesTyped, PTL
  <2>2. QED  BY <1>2, <2>1, SequencesTyped DEF TracedInv
<1>4. Sendable'
      BY <1>1, <1>2, <1>3, SendableKept DEF NodeInv
<1>5. Keeps /\ ContractStep
  <2>1. CASE \E pkt \in LinkPackets : TracedReceive(pkt)
        BY <1>3, <2>1, ReceiveKeeps
  <2>2. CASE TracedDepart
        BY <1>3, <2>2, DepartKeeps
  <2>3. CASE Inside /\ UNCHANGED <<m_reorder_check_table, entered>>
        BY <1>3, <2>3, InsideKeeps
  <2>4. CASE UNCHANGED tracedVars
    <3>1. Queues' = Queues /\ link' = link /\ entered' = entered
          BY <2>4, OtherStep DEF tracedVars, nodeVars, procVars, coreVars, outVars, link
    <3>2. QED  BY <1>3, <3>1, SameStays, StaysKeeps
  <2>5. QED  BY <2>1, <2>2, <2>3, <2>4 DEF TracedNext
<1>6. entered' \in [Flows -> Seq(Nat)]
  <2>1. entered' = entered \/ \E pkt \in LinkPackets :
          entered' = [entered EXCEPT ![pkt.flow] = Append(@, now)]
        BY DEF TracedNext, TracedReceive, TracedDepart, tracedVars
  <2>2. entered \in [Flows -> Seq(Nat)] /\ now \in Nat
        BY <1>3 DEF TracedInv, SequencesOK
  <2>3. \A pkt \in LinkPackets : pkt.flow \in Flows  BY DEF LinkPackets
  <2>4. \A f \in Flows : Append(entered[f], now) \in Seq(Nat)  BY <2>2
  <2>5. QED  BY <2>1, <2>2, <2>3, <2>4
<1>7. TracedInv'
      BY <1>2, <1>4, <1>5, <1>6 DEF TracedInv, Keeps, Numbered
<1>8. QED  BY <1>5, <1>7

\* A node keeps its contract with the ring: each packet it takes leaves it once,
\* one hop older, and unprocessed only while it may hop.
THEOREM NodeKeepsContract == TracedSpec => ImplementsContract
<1>1. TracedInit => Contract!ContractInit
  <2> SUFFICES ASSUME TracedInit PROVE Contract!ContractInit
      OBVIOUS
  <2>1. SequencesOK  BY TracedInitInv, SequencesTyped DEF TracedInv
  <2>2. /\ offload_in = <<>> /\ offload_out = <<>> /\ out_proc = <<>> /\ proc_out = <<>>
        /\ m_pkt_queue = <<>> /\ \A c \in Cores : ~busy[c] /\ port_out = <<>>
        BY DEF TracedInit, NodeInit, ProcInit, WiresInit, OffloadInit, OutInit
  <2>3. \A q \in QueueIds : Queues[q] = <<>>
    <3>1. brief(<<>>) = <<>>  BY DEF brief
    <3>2. \A c \in Cores : line(c) = <<>>  BY <2>2 DEF line
    <3>3. QED  BY <2>2, <3>1, <3>2, QueueOf, OtherQueues
  <2>4. held = {}  BY <2>1, <2>3, HeldInQueues DEF contents, items
  <2>5. link = <<>>  BY <2>2, LinkList DEF TracedInit, NodeInit, OutInit
  <2>6. QED  BY <2>4, <2>5 DEF Contract!ContractInit
<1>2. TracedInv /\ [TracedNext]_tracedVars =>
        [Contract!ContractNext([flow : Flows, id : Ids, hop_cnt : 0 .. MaxHopCnt - 1])]_<<held, link>>
      BY TracedStep DEF ContractStep, HeldPackets
<1>3. TracedInv /\ [TracedNext]_tracedVars => TracedInv'
      BY TracedStep
<1>4. QED  BY <1>1, <1>2, <1>3, TracedInitInv, PTL DEF TracedSpec, ImplementsContract

-----------------------------------------------------------------------------
(* The order of packets that are processed in this node.                   *)

\* The buffer and the link behind it are one queue.
Exit == <<"exit", 0>>

Places == {In, Local, Done, Exit} \cup {Core(c) : c \in Cores}

leaving(p) == [flow |-> p.flow, id |-> p.id, done |-> p.processing_done]

exits ==
  [i \in 1 .. Len(port_out) + Len(m_pkt_queue) |->
     IF i <= Len(port_out) THEN leaving(port_out[i].pkt)
     ELSE leaving(m_pkt_queue[i - Len(port_out)])]

Lines == [q \in Places |-> IF q = Exit THEN exits ELSE Queues[q]]

ExitItems == [flow : Flows, id : Ids, done : BOOLEAN]
Listed(K) == \A q \in Places : K[q] \in Seq(HeldPackets \cup ExitItems)

\* How far a place is along the way of a packet.
stage(q) == CASE q = In -> 1 [] q = Local -> 2 [] q = Done -> 4 [] q = Exit -> 5 [] OTHER -> 3

key(p) == <<p.flow, p.id>>

\* The packets on their way to the Sink, and one of them being ahead of another.
counts(q, p) == q = Exit => p.done
ahead(q, i, s, j) == stage(q) > stage(s) \/ (q = s /\ i < j)
passes(r, p) == r.flow = p.flow /\ p.id <= r.id

\* Only packets in S are behind one of their flow that came in later.  Packets at
\* different cores are not compared.
InLine(K, S) ==
  \A q, s \in Places : \A i \in DOMAIN K[q], j \in DOMAIN K[s] :
    /\ ahead(q, i, s, j) /\ passes(K[q][i], K[s][j])
    /\ counts(q, K[q][i]) /\ counts(s, K[s][j])
    => key(K[s][j]) \in S

\* Nothing is in L that has not been in K.
From(K, L) ==
  \A s \in Places : \A j \in DOMAIN L[s] :
    \E t \in Places : \E i \in DOMAIN K[t] :
      same(L[s][j], K[t][i]) /\ (counts(s, L[s][j]) => counts(t, K[t][i]))

\* The first packet of q goes to the end of r, leaves, or comes in at r.
Pushed(K, L, q, r) ==
  /\ K[q] # <<>>
  /\ L[q] = Tail(K[q])
  /\ \E x \in HeldPackets \cup ExitItems : same(x, Head(K[q])) /\ L[r] = Append(K[r], x)
  /\ \A s \in Places \ {q, r} : L[s] = K[s]

Dropped(K, L, q) ==
  /\ K[q] # <<>>
  /\ L[q] = Tail(K[q])
  /\ \A s \in Places \ {q} : L[s] = K[s]

Added(K, L, r, x) ==
  /\ L[r] = Append(K[r], x)
  /\ \A s \in Places \ {r} : L[s] = K[s]

\* What is in L has been in K, except for x.
OneNew(K, L, r, x) ==
  \A s \in Places : \A j \in DOMAIN L[s] :
    \/ L[s][j] = x /\ s = r
    \/ \E i \in DOMAIN K[s] : L[s][j] = K[s][i]

\* x does not go to the Sink, or comes in behind all of its flow.
Last(K, r, x) ==
  \/ r = Exit /\ ~x.done
  \/ r = In /\ \A s \in Places : \A j \in DOMAIN K[s] : ~passes(K[s][j], x)

LEMMA Stages ==
  /\ stage(In) = 1 /\ stage(Local) = 2 /\ stage(Done) = 4 /\ stage(Exit) = 5
  /\ \A c \in Cores : stage(Core(c)) = 3
  /\ \A q \in Places : /\ stage(q) \in 1 .. 5
                       /\ stage(q) = 1 => q = In
                       /\ stage(q) = 2 => q = Local
                       /\ stage(q) = 3 => \E c \in Cores : q = Core(c)
                       /\ stage(q) = 4 => q = Done
                       /\ stage(q) = 5 => q = Exit
<1>1. /\ Exit # In /\ Exit # Local /\ Exit # Done
      /\ \A c \in Cores : Core(c) # Exit
      BY DEF Exit, In, Local, Done, Core
<1>2. stage(In) = 1 /\ stage(Local) = 2 /\ stage(Done) = 4 /\ stage(Exit) = 5
      BY <1>1, QueueNames DEF stage
<1>3. \A c \in Cores : stage(Core(c)) = 3
      BY <1>1, QueueNames DEF stage
<1>4. QED  BY <1>2, <1>3 DEF Places

LEMMA SequenceEnds ==
  ASSUME NEW T, NEW t \in Seq(T)
  PROVE  /\ t # <<>> => /\ Head(t) = t[1] /\ 1 \in DOMAIN t /\ Head(t) \in T
                        /\ Tail(t) \in Seq(T)
                        /\ \A i \in DOMAIN Tail(t) : /\ Tail(t)[i] = t[i + 1] /\ i + 1 \in DOMAIN t
                                                     /\ i \in Nat /\ 1 < i + 1
         /\ \A x \in T : /\ Append(t, x) \in Seq(T)
                         /\ \A i \in DOMAIN Append(t, x) :
                              \/ i \in DOMAIN t /\ Append(t, x)[i] = t[i] /\ i < Len(t) + 1
                              \/ i = Len(t) + 1 /\ Append(t, x)[i] = x
         /\ \A i \in DOMAIN t : i \in Nat /\ t[i] \in T
         /\ Len(t) + 1 \in Nat
<1>1. ASSUME t # <<>>
      PROVE  /\ Head(t) = t[1] /\ 1 \in DOMAIN t /\ Head(t) \in T
             /\ Tail(t) \in Seq(T)
             /\ Len(t) \in Nat /\ DOMAIN t = 1 .. Len(t) /\ DOMAIN Tail(t) = 1 .. Len(t) - 1
             /\ \A i \in 1 .. Len(t) - 1 : Tail(t)[i] = t[i + 1]
      BY <1>1
<1>2. ASSUME t # <<>>, NEW i \in DOMAIN Tail(t)
      PROVE  Tail(t)[i] = t[i + 1] /\ i + 1 \in DOMAIN t /\ i \in Nat /\ 1 < i + 1
      BY ONLY <1>1, <1>2
<1>3. ASSUME NEW x \in T
      PROVE  /\ Append(t, x) \in Seq(T)
             /\ Len(t) \in Nat /\ DOMAIN t = 1 .. Len(t) /\ DOMAIN Append(t, x) = 1 .. Len(t) + 1
             /\ \A i \in 1 .. Len(t) : Append(t, x)[i] = t[i]
             /\ Append(t, x)[Len(t) + 1] = x
      OBVIOUS
<1>4. ASSUME NEW x \in T, NEW i \in DOMAIN Append(t, x)
      PROVE  \/ i \in DOMAIN t /\ Append(t, x)[i] = t[i] /\ i < Len(t) + 1
             \/ i = Len(t) + 1 /\ Append(t, x)[i] = x
      BY ONLY <1>3, <1>4
<1>5. (\A i \in DOMAIN t : i \in Nat /\ t[i] \in T) /\ Len(t) + 1 \in Nat
      OBVIOUS
<1>6. QED  BY ONLY <1>1, <1>2, <1>3, <1>4, <1>5

\* A packet that moves on to the next stage keeps the order, if those at other
\* places of its stage may be passed by it.
LEMMA PushedInLine ==
  ASSUME NEW K, NEW L, NEW S, Listed(K), InLine(K, S),
         NEW q \in Places, NEW r \in Places, stage(r) = stage(q) + 1, Pushed(K, L, q, r),
         \A s \in Places : stage(s) = stage(q) /\ s # q =>
           \A j \in DOMAIN K[s] : passes(Head(K[q]), K[s][j]) => key(K[s][j]) \in S
  PROVE  Listed(L) /\ InLine(L, S) /\ From(K, L)
<1> DEFINE Things == HeldPackets \cup ExitItems
           from(s, i) == IF s = q THEN i + 1 ELSE i
           new(s, i) == s = r /\ i = Len(K[r]) + 1
<1>1. /\ stage(q) \in Nat /\ stage(r) \in Nat /\ q # r /\ q # Exit
      /\ \A s \in Places : stage(s) \in Nat
      /\ \A s \in Places : stage(s) <= stage(q) => s # Exit
  <2>1. /\ stage(Exit) = 5 /\ \A s \in Places : stage(s) \in 1 .. 5
        BY Stages
  <2>2. QED  BY <2>1
<1>2. PICK x \in Things : same(x, Head(K[q])) /\ L[r] = Append(K[r], x)
      BY DEF Pushed
<1>3. /\ K[q] # <<>> /\ L[q] = Tail(K[q]) /\ \A s \in Places \ {q, r} : L[s] = K[s]
      /\ \A s \in Places : K[s] \in Seq(Things)
      BY DEF Pushed, Listed
<1> HIDE DEF Things
<1>4. Head(K[q]) = K[q][1] /\ 1 \in DOMAIN K[q]
      BY <1>3, SequenceEnds
<1>5. \A s \in Places : \A i \in DOMAIN L[s] :
        /\ i \in Nat
        /\ \/ new(s, i) /\ same(L[s][i], K[q][1])
           \/ /\ from(s, i) \in DOMAIN K[s] /\ L[s][i] = K[s][from(s, i)]
              /\ s = r => i < Len(K[r]) + 1
              /\ s = q => 1 < from(s, i)
  <2>1. ASSUME NEW i \in DOMAIN L[r]
        PROVE  /\ i \in Nat
               /\ \/ i = Len(K[r]) + 1 /\ L[r][i] = x
                  \/ i \in DOMAIN K[r] /\ L[r][i] = K[r][i] /\ i < Len(K[r]) + 1
        BY <1>2, <1>3, <2>1, SequenceEnds
  <2>2. ASSUME NEW i \in DOMAIN L[q]
        PROVE  i \in Nat /\ i + 1 \in DOMAIN K[q] /\ L[q][i] = K[q][i + 1] /\ 1 < i + 1
        BY <1>3, <2>2, SequenceEnds
  <2>3. ASSUME NEW s \in Places \ {q, r}, NEW i \in DOMAIN L[s]
        PROVE  i \in Nat /\ i \in DOMAIN K[s] /\ L[s][i] = K[s][i]
        BY <1>3, <2>3, SequenceEnds
  <2>4. QED  BY <1>1, <1>2, <1>4, <2>1, <2>2, <2>3
<1>6. \A s \in Places : L[s] \in Seq(Things)
  <2>1. L[r] \in Seq(Things)  BY <1>2, <1>3, SequenceEnds
  <2>2. L[q] \in Seq(Things)  BY <1>3, SequenceEnds
  <2>3. QED  BY ONLY <1>3, <2>1, <2>2
<1>7. \A s \in Places : \A i, j \in Nat : i < j => from(s, i) < from(s, j)
      OBVIOUS
<1>8. \A s \in Places : s # Exit => \A y : counts(s, y)
      BY DEF counts
<1>9. InLine(L, S)
  <2> SUFFICES ASSUME NEW a \in Places, NEW b \in Places,
                      NEW i \in DOMAIN L[a], NEW j \in DOMAIN L[b],
                      ahead(a, i, b, j), passes(L[a][i], L[b][j]),
                      counts(a, L[a][i]), counts(b, L[b][j])
               PROVE  key(L[b][j]) \in S
      BY DEF InLine
  <2>1. CASE /\ from(a, i) \in DOMAIN K[a] /\ L[a][i] = K[a][from(a, i)]
             /\ from(b, j) \in DOMAIN K[b] /\ L[b][j] = K[b][from(b, j)]
    <3>1. ahead(a, from(a, i), b, from(b, j))
          BY <1>5, <1>7 DEF ahead
    <3> HIDE DEF from
    <3>2. QED  BY <2>1, <3>1 DEF InLine
  <2>2. CASE /\ new(a, i) /\ same(L[a][i], K[q][1])
             /\ from(b, j) \in DOMAIN K[b] /\ L[b][j] = K[b][from(b, j)]
             /\ b = r => j < Len(K[r]) + 1
             /\ b = q => 1 < from(b, j)
    <3>1. stage(b) <= stage(q)
      <4>1. stage(r) > stage(b)  BY <1>5, <2>2 DEF ahead
      <4>2. QED  BY <1>1, <4>1
    <3>2. passes(K[q][1], L[b][j]) /\ counts(q, K[q][1])
          BY <1>1, <1>8, <2>2 DEF passes, same
    <3>3. CASE b = q \/ stage(b) < stage(q)
      <4>1. ahead(q, 1, b, from(b, j))  BY <1>1, <2>2, <3>3 DEF ahead
      <4> HIDE DEF from
      <4>2. QED  BY <1>4, <2>2, <3>2, <4>1 DEF InLine
    <3>4. CASE b # q /\ stage(b) = stage(q)
          BY <1>4, <2>2, <3>2, <3>4
    <3>5. QED  BY <1>1, <3>1, <3>3, <3>4
  <2>3. CASE /\ new(b, j) /\ same(L[b][j], K[q][1])
             /\ from(a, i) \in DOMAIN K[a] /\ L[a][i] = K[a][from(a, i)]
    <3>1. stage(a) > stage(q)
      <4>1. stage(a) > stage(r) \/ a = r  BY <2>3 DEF ahead
      <4>2. QED  BY <1>1, <4>1
    <3>2. passes(K[a][from(a, i)], K[q][1]) /\ counts(q, K[q][1])
          BY <1>1, <1>8, <2>3 DEF passes, same
    <3>3. ahead(a, from(a, i), q, 1)  BY <3>1 DEF ahead
    <3> HIDE DEF from
    <3>4. key(K[q][1]) \in S
          BY <1>4, <2>3, <3>2, <3>3 DEF InLine
    <3>5. QED  BY <2>3, <3>4 DEF same, key
  <2>4. ~(new(a, i) /\ new(b, j))
    <3>1. new(a, i) /\ new(b, j) => a = b /\ i = j  OBVIOUS
    <3>2. i \in Nat /\ stage(a) \in Nat  BY <1>1, <1>5
    <3>3. QED  BY <3>1, <3>2 DEF ahead
  <2>5. QED  BY <1>5, <2>1, <2>2, <2>3, <2>4
<1>10. From(K, L)
  <2> SUFFICES ASSUME NEW s \in Places, NEW j \in DOMAIN L[s]
               PROVE  \E t \in Places : \E i \in DOMAIN K[t] :
                        same(L[s][j], K[t][i]) /\ (counts(s, L[s][j]) => counts(t, K[t][i]))
      BY DEF From
  <2>1. CASE new(s, j) /\ same(L[s][j], K[q][1])
        BY <1>1, <1>4, <1>8, <2>1
  <2>2. CASE from(s, j) \in DOMAIN K[s] /\ L[s][j] = K[s][from(s, j)]
    <3> HIDE DEF from
    <3>1. QED  BY <2>2 DEF same
  <2>3. QED  BY <1>5, <2>1, <2>2
<1>11. QED  BY <1>6, <1>9, <1>10 DEF Listed, Things

LEMMA DroppedInLine ==
  ASSUME NEW K, NEW L, NEW S, Listed(K), InLine(K, S), NEW q \in Places, Dropped(K, L, q)
  PROVE  Listed(L) /\ InLine(L, S) /\ From(K, L)
<1> DEFINE Things == HeldPackets \cup ExitItems
           from(s, i) == IF s = q THEN i + 1 ELSE i
<1>1. /\ K[q] # <<>> /\ L[q] = Tail(K[q]) /\ \A s \in Places \ {q} : L[s] = K[s]
      /\ \A s \in Places : K[s] \in Seq(Things)
      BY DEF Dropped, Listed
<1> HIDE DEF Things
<1>2. \A s \in Places : \A i \in DOMAIN L[s] :
        i \in Nat /\ from(s, i) \in DOMAIN K[s] /\ L[s][i] = K[s][from(s, i)]
  <2>1. ASSUME NEW i \in DOMAIN L[q]
        PROVE  i \in Nat /\ i + 1 \in DOMAIN K[q] /\ L[q][i] = K[q][i + 1]
        BY <1>1, <2>1, SequenceEnds
  <2>2. ASSUME NEW s \in Places \ {q}, NEW i \in DOMAIN L[s]
        PROVE  i \in Nat /\ i \in DOMAIN K[s] /\ L[s][i] = K[s][i]
        BY <1>1, <2>2, SequenceEnds
  <2>3. QED  BY <2>1, <2>2
<1>3. \A s \in Places : L[s] \in Seq(Things)
  <2>1. L[q] \in Seq(Things)  BY <1>1, SequenceEnds
  <2>2. QED  BY ONLY <1>1, <2>1
<1>4. \A s \in Places : \A i, j \in Nat : i < j => from(s, i) < from(s, j)
      OBVIOUS
<1> HIDE DEF from
<1>5. InLine(L, S)
      BY <1>2, <1>4 DEF InLine, ahead
<1>6. From(K, L)  BY <1>2 DEF From, same
<1>7. QED  BY <1>3, <1>5, <1>6 DEF Listed, Things

\* A packet that comes in behind all of its flow, or does not go to the Sink.
LEMMA AddedInLine ==
  ASSUME NEW K, NEW L, NEW S, Listed(K), InLine(K, S), NEW r \in Places,
         NEW x \in HeldPackets \cup ExitItems, Added(K, L, r, x), Last(K, r, x)
  PROVE  Listed(L) /\ InLine(L, S) /\ OneNew(K, L, r, x)
<1> DEFINE Things == HeldPackets \cup ExitItems
           new(s, i) == s = r /\ i = Len(K[r]) + 1
<1>1. /\ x \in Things /\ L[r] = Append(K[r], x) /\ \A s \in Places \ {r} : L[s] = K[s]
      /\ \A s \in Places : K[s] \in Seq(Things)
      BY DEF Added, Listed
<1> HIDE DEF Things
<1>2. \A s \in Places : \A i \in DOMAIN L[s] :
        /\ i \in Nat
        /\ \/ new(s, i) /\ L[s][i] = x
           \/ i \in DOMAIN K[s] /\ L[s][i] = K[s][i] /\ (s = r => i < Len(K[r]) + 1)
  <2>1. ASSUME NEW i \in DOMAIN L[r]
        PROVE  /\ i \in Nat
               /\ \/ i = Len(K[r]) + 1 /\ L[r][i] = x
                  \/ i \in DOMAIN K[r] /\ L[r][i] = K[r][i] /\ i < Len(K[r]) + 1
        BY <1>1, <2>1, SequenceEnds
  <2>2. ASSUME NEW s \in Places \ {r}, NEW i \in DOMAIN L[s]
        PROVE  i \in Nat /\ i \in DOMAIN K[s] /\ L[s][i] = K[s][i]
        BY <1>1, <2>2, SequenceEnds
  <2>3. QED  BY <2>1, <2>2
<1>3. \A s \in Places : L[s] \in Seq(Things)
  <2>1. L[r] \in Seq(Things)  BY <1>1, SequenceEnds
  <2>2. QED  BY ONLY <1>1, <2>1
<1>4. InLine(L, S)
  <2> SUFFICES ASSUME NEW a \in Places, NEW b \in Places,
                      NEW i \in DOMAIN L[a], NEW j \in DOMAIN L[b],
                      ahead(a, i, b, j), passes(L[a][i], L[b][j]),
                      counts(a, L[a][i]), counts(b, L[b][j])
               PROVE  key(L[b][j]) \in S
      BY DEF InLine
  <2>1. CASE /\ i \in DOMAIN K[a] /\ L[a][i] = K[a][i]
             /\ j \in DOMAIN K[b] /\ L[b][j] = K[b][j]
        BY <2>1 DEF InLine
  <2>2. CASE r = Exit /\ ~x.done
    <3>1. ~(new(a, i) /\ L[a][i] = x) /\ ~(new(b, j) /\ L[b][j] = x)
          BY <2>2 DEF counts
    <3>2. QED  BY <1>2, <2>1, <3>1
  <2>3. CASE /\ r = In
             /\ \A s \in Places : \A k \in DOMAIN K[s] : ~passes(K[s][k], x)
    <3>1. ~(new(a, i) /\ L[a][i] = x)
      <4>1. \A s \in Places : ~(1 > stage(s))
        <5>1. \A s \in Places : stage(s) \in 1 .. 5  BY Stages
        <5>2. QED  BY <5>1
      <4>2. stage(r) = 1  BY <2>3, Stages
      <4>3. ASSUME new(a, i), L[a][i] = x PROVE FALSE
        <5>1. b = r /\ i < j  BY <4>1, <4>2, <4>3 DEF ahead
        <5>2. j < Len(K[r]) + 1 \/ j = Len(K[r]) + 1  BY <1>2, <5>1
        <5>3. Len(K[r]) + 1 \in Nat /\ i = Len(K[r]) + 1 /\ j \in Nat
              BY <1>1, <1>2, <4>3, SequenceEnds
        <5>4. QED  BY <5>1, <5>2, <5>3
      <4>4. QED  BY <4>3
    <3>2. ASSUME new(b, j), L[b][j] = x, i \in DOMAIN K[a], L[a][i] = K[a][i]
          PROVE  FALSE
          BY <2>3, <3>2
    <3>3. QED  BY <1>2, <2>1, <3>1, <3>2
  <2>4. QED  BY <2>2, <2>3 DEF Last
<1>5. OneNew(K, L, r, x)  BY <1>2 DEF OneNew
<1>6. QED  BY <1>3, <1>4, <1>5 DEF Listed, Things

-----------------------------------------------------------------------------
(* What the events do to the lines.                                        *)

LEMMA ExitsAre ==
  ASSUME NEW m \in Nat, NEW n \in Nat, m = Len(port_out), n = Len(m_pkt_queue),
         port_out \in Seq(LinkMsgs), m_pkt_queue \in Seq(Packets)
  PROVE  /\ exits \in Seq(ExitItems) /\ Len(exits) = m + n
         /\ \A i \in 1 .. m : exits[i] = leaving(port_out[i].pkt)
         /\ \A i \in 1 .. n : exits[m + i] = leaving(m_pkt_queue[i])
<1>1. \A p \in Packets : leaving(p) \in ExitItems
      BY DEF Packets, leaving, ExitItems
<1>2. /\ \A i \in 1 .. m : port_out[i].pkt \in Packets
      /\ \A i \in 1 .. n : m_pkt_queue[i] \in Packets
  <2>1. \A i \in 1 .. m : port_out[i] \in LinkMsgs  OBVIOUS
  <2>2. QED  BY <2>1 DEF LinkMsgs
<1>3. exits = [i \in 1 .. m + n |-> IF i <= m THEN leaving(port_out[i].pkt)
                                    ELSE leaving(m_pkt_queue[i - m])]
      BY DEF exits
<1> HIDE DEF exits
<1>4. \A i \in 1 .. m + n : ~(i <= m) => i - m \in 1 .. n
      OBVIOUS
<1>5. \A i \in 1 .. m + n : exits[i] \in ExitItems
      BY <1>1, <1>2, <1>3, <1>4
<1>6. exits \in Seq(ExitItems) /\ Len(exits) = m + n
  <2>1. m + n \in Nat /\ DOMAIN exits = 1 .. m + n  BY <1>3
  <2>2. exits = [i \in 1 .. m + n |-> exits[i]]  BY <1>3
  <2>3. QED  BY <1>5, <2>1, <2>2
<1>7. \A i \in 1 .. m : i \in 1 .. m + n /\ i <= m  OBVIOUS
<1>8. \A i \in 1 .. n : m + i \in 1 .. m + n /\ ~(m + i <= m) /\ (m + i) - m = i  OBVIOUS
<1>9. QED  BY <1>3, <1>6, <1>7, <1>8

\* The form in which the queue is used: where it is written and where it is read.
LEMMA LeavingAlike ==
  ASSUME NEW p \in Packets
  PROVE  /\ clear(incrm_hop_cnt(p)) \in Packets
         /\ leaving(clear(incrm_hop_cnt(p))) = leaving(p)
<1>1. (p.hop_cnt + 1) % 256 \in 0 .. 255
  <2>1. PICK h \in 0 .. 255 : p.hop_cnt = h  BY DEF Packets
  <2>2. QED  BY <2>1
<1>2. QED  BY <1>1 DEF Packets, leaving, clear, incrm_hop_cnt

LEMMA ExitsAppend ==
  ASSUME SequencesOK, BufferInv, BufferInv', NEW p \in Packets, OutHandlePacket(p)
  PROVE  /\ exits \in Seq(ExitItems) /\ leaving(p) \in ExitItems
         /\ exits' = Append(exits, leaving(p))
<1>1. /\ port_out \in Seq(LinkMsgs) /\ m_pkt_queue \in Seq(Packets)
      /\ leaving(p) \in ExitItems
      BY DEF BufferInv, OutTypeOK, Packets, leaving, ExitItems
<1>2. PICK m \in Nat, n \in Nat : m = Len(port_out) /\ n = Len(m_pkt_queue)
      BY <1>1
<1>3. exits \in Seq(ExitItems) /\ Len(exits) = m + n
      BY ONLY <1>1, <1>2, ExitsAre
<1>4. PICK t : t = Append(exits, leaving(p))  OBVIOUS
<1>5. /\ DOMAIN t = 1 .. m + n + 1 /\ t = [i \in DOMAIN t |-> t[i]]
      /\ t[m + n + 1] = leaving(p)
      /\ \A i \in 1 .. m + n : t[i] = exits[i]
  <2>1. /\ t \in Seq(ExitItems) /\ Len(t) = Len(exits) + 1 /\ t[Len(exits) + 1] = leaving(p)
        /\ \A i \in 1 .. Len(exits) : t[i] = exits[i]
        BY <1>1, <1>3, <1>4
  <2>2. t = [i \in DOMAIN t |-> t[i]] /\ DOMAIN t = 1 .. Len(t)
        BY <2>1
  <2>3. QED  BY <1>3, <2>1, <2>2
<1>6. \A i \in 1 .. m + n :
        exits[i] = IF i <= m THEN leaving(port_out[i].pkt) ELSE leaving(m_pkt_queue[i - m])
      BY <1>2 DEF exits
<1>7. CASE m_waiting_for_input /\ send_packet(Append(m_pkt_queue, p))
  <2>1. m_pkt_queue = <<>>  BY <1>7 DEF BufferInv, BufferConsistent
  <2>2. Append(m_pkt_queue, p) = <<p>> /\ Head(<<p>>) = p /\ Tail(<<p>>) = <<>>
        BY <2>1
  <2>3. PICK o \in LinkMsgs : /\ port_out' = Append(port_out, o)
                              /\ leaving(o.pkt) = leaving(p)
    <3>1. PICK tx \in TxTimes :
            port_out' = Append(port_out, [pkt |-> clear(incrm_hop_cnt(p)), at |-> now + tx])
          BY <1>7, <2>2 DEF send_packet
    <3>2. [pkt |-> clear(incrm_hop_cnt(p)), at |-> now + tx] \in LinkMsgs
      <4>1. now + tx \in Nat  BY TxAssumption DEF SequencesOK
      <4>2. QED  BY <4>1, LeavingAlike DEF LinkMsgs
    <3>3. [pkt |-> clear(incrm_hop_cnt(p)), at |-> now + tx].pkt = clear(incrm_hop_cnt(p))
          OBVIOUS
    <3>4. QED  BY <3>1, <3>2, <3>3, LeavingAlike
  <2>4. /\ Len(port_out') = m + 1 /\ port_out'[m + 1] = o
        /\ \A i \in 1 .. m : port_out'[i] = port_out[i]
        BY <1>1, <1>2, <2>3
  <2>5. n = 0 /\ Len(m_pkt_queue') = 0
        BY <1>2, <1>7, <2>1, <2>2 DEF send_packet
  <2>6. DOMAIN exits' = 1 .. m + n + 1
    <3>1. (m + 1) + 0 = m + n + 1  BY <2>5
    <3>2. QED  BY <2>4, <2>5, <3>1 DEF exits
  <2>7. ASSUME NEW i \in 1 .. m + n + 1
        PROVE  exits'[i] = t[i]
    <3>1. i \in 1 .. (m + 1) + 0 /\ i <= m + 1  BY <2>5
    <3>2. exits'[i] = leaving(port_out'[i].pkt)
          BY <2>4, <2>5, <3>1 DEF exits
    <3>3. CASE i \in 1 .. m
      <4>1. i <= m /\ i \in 1 .. m + n  BY <3>3
      <4>2. QED  BY <1>5, <1>6, <2>4, <3>2, <3>3, <4>1
    <3>4. CASE i = m + 1
      <4>1. i = m + n + 1  BY <2>5, <3>4
      <4>2. QED  BY <1>5, <2>3, <2>4, <3>2, <3>4, <4>1
    <3>5. QED  BY <3>1, <3>3, <3>4
  <2>8. QED  BY <1>3, <1>1, <1>4, <1>5, <2>6, <2>7 DEF exits
<1>8. CASE /\ m_pkt_queue' = Append(m_pkt_queue, p)
           /\ UNCHANGED port_out
  <2>1. /\ Len(m_pkt_queue') = n + 1 /\ m_pkt_queue'[n + 1] = p
        /\ \A i \in 1 .. n : m_pkt_queue'[i] = m_pkt_queue[i]
        BY <1>1, <1>2, <1>8
  <2>2. DOMAIN exits' = 1 .. m + n + 1
    <3>1. m + (n + 1) = m + n + 1  OBVIOUS
    <3>2. QED  BY <1>2, <1>8, <2>1, <3>1 DEF exits
  <2>3. ASSUME NEW i \in 1 .. m + n + 1
        PROVE  exits'[i] = t[i]
    <3>1. i \in 1 .. m + (n + 1)  OBVIOUS
    <3>2. exits'[i] = IF i <= m THEN leaving(port_out[i].pkt) ELSE leaving(m_pkt_queue'[i - m])
          BY <1>2, <1>8, <2>1, <3>1 DEF exits
    <3>3. CASE i = m + n + 1
      <4>1. ~(i <= m) /\ i - m = n + 1  BY <3>3
      <4>2. QED  BY <1>5, <2>1, <3>2, <3>3, <4>1
    <3>4. CASE i \in 1 .. m + n
      <4>1. ~(i <= m) => i - m \in 1 .. n  BY <3>4
      <4>2. QED  BY <1>5, <1>6, <2>1, <3>2, <3>4, <4>1
    <3>5. QED  BY <3>3, <3>4
  <2>4. QED  BY <1>3, <1>1, <1>4, <1>5, <2>2, <2>3 DEF exits
<1>9. QED  BY <1>7, <1>8 DEF OutHandlePacket

\* The first packet of the buffer follows those on the link.
LEMMA ExitsNext ==
  ASSUME SequencesOK, BufferInv, BufferInv', OutHandleSelf
  PROVE  exits' = exits
<1>1. CASE UNCHANGED <<m_pkt_queue, port_out>>
      BY <1>1 DEF exits
<1>2. CASE m_pkt_queue # <<>> /\ send_packet(m_pkt_queue)
  <2>1. /\ port_out \in Seq(LinkMsgs) /\ m_pkt_queue \in Seq(Packets)
        /\ port_out' \in Seq(LinkMsgs) /\ m_pkt_queue' \in Seq(Packets)
        BY DEF BufferInv, OutTypeOK
  <2> DEFINE p == Head(m_pkt_queue)
  <2>2. PICK o \in LinkMsgs : /\ port_out' = Append(port_out, o)
                              /\ leaving(o.pkt) = leaving(p)
    <3>1. PICK tx \in TxTimes :
            port_out' = Append(port_out, [pkt |-> clear(incrm_hop_cnt(p)), at |-> now + tx])
          BY <1>2 DEF send_packet
    <3>2. p \in Packets  BY <1>2, <2>1
    <3> HIDE DEF p
    <3>3. [pkt |-> clear(incrm_hop_cnt(p)), at |-> now + tx] \in LinkMsgs
      <4>1. now + tx \in Nat  BY TxAssumption DEF SequencesOK
      <4>2. QED  BY <3>2, <4>1, LeavingAlike DEF LinkMsgs
    <3>4. [pkt |-> clear(incrm_hop_cnt(p)), at |-> now + tx].pkt = clear(incrm_hop_cnt(p))
          OBVIOUS
    <3>5. QED  BY <3>1, <3>2, <3>3, <3>4, LeavingAlike
  <2>3. PICK m \in Nat, n \in Nat : m = Len(port_out) /\ n = Len(m_pkt_queue)
        BY <2>1
  <2>4. /\ Len(port_out') = m + 1 /\ port_out'[m + 1] = o
        /\ \A i \in 1 .. m : port_out'[i] = port_out[i]
        BY <2>1, <2>2, <2>3
  <2>5. /\ n > 0 /\ Len(m_pkt_queue') = n - 1 /\ p = m_pkt_queue[1]
        /\ \A i \in 1 .. n - 1 : m_pkt_queue'[i] = m_pkt_queue[i + 1]
    <3>1. m_pkt_queue' = Tail(m_pkt_queue)  BY <1>2 DEF send_packet
    <3>2. QED  BY <1>2, <2>1, <2>3, <3>1
  <2> HIDE DEF p
  <2>6. DOMAIN exits = 1 .. m + n /\ DOMAIN exits' = 1 .. m + n
    <3>1. (m + 1) + (n - 1) = m + n  OBVIOUS
    <3>2. QED  BY <2>3, <2>4, <2>5, <3>1 DEF exits
  <2>7. ASSUME NEW i \in 1 .. m + n
        PROVE  exits'[i] = exits[i]
    <3>1. exits[i] = IF i <= m THEN leaving(port_out[i].pkt) ELSE leaving(m_pkt_queue[i - m])
          BY <2>3 DEF exits
    <3>2. exits'[i] = IF i <= m + 1 THEN leaving(port_out'[i].pkt)
                      ELSE leaving(m_pkt_queue'[i - (m + 1)])
      <4>1. i \in 1 .. (m + 1) + (n - 1)  OBVIOUS
      <4>2. QED  BY <2>4, <2>5, <4>1 DEF exits
    <3>3. CASE i <= m
      <4>1. i \in 1 .. m /\ i <= m + 1  BY <3>3
      <4>2. QED  BY <2>4, <3>1, <3>2, <3>3, <4>1
    <3>4. CASE i = m + 1
      <4>1. ~(i <= m) /\ i <= m + 1 /\ i - m = 1  BY <3>4
      <4>2. QED  BY <2>2, <2>4, <2>5, <3>1, <3>2, <3>4, <4>1
    <3>5. CASE i > m + 1
      <4>1. /\ ~(i <= m) /\ ~(i <= m + 1) /\ i - (m + 1) \in 1 .. n - 1
            /\ (i - (m + 1)) + 1 = i - m
            BY <3>5
      <4>2. m_pkt_queue'[i - (m + 1)] = m_pkt_queue[i - m]
            BY <2>5, <4>1
      <4>3. QED  BY <3>1, <3>2, <4>1, <4>2
    <3>6. QED  BY <3>3, <3>4, <3>5
  <2>8. QED  BY <2>6, <2>7 DEF exits
<1>3. QED  BY <1>1, <1>2 DEF OutHandleSelf

LEMMA ExitsDrop ==
  ASSUME SequencesOK, BufferInv, BufferInv', port_out # <<>>, port_out' = Tail(port_out),
         m_pkt_queue' = m_pkt_queue
  PROVE  exits # <<>> /\ exits' = Tail(exits) /\ exits[1] = leaving(Head(port_out).pkt)
<1>1. /\ port_out \in Seq(LinkMsgs) /\ m_pkt_queue \in Seq(Packets)
      BY DEF BufferInv, OutTypeOK
<1>2. PICK m \in Nat, n \in Nat : m = Len(port_out) /\ n = Len(m_pkt_queue)
      BY <1>1
<1>3. /\ exits \in Seq(ExitItems) /\ Len(exits) = m + n
      /\ \A i \in 1 .. m : exits[i] = leaving(port_out[i].pkt)
      BY <1>1, <1>2, ExitsAre
<1>4. /\ m > 0 /\ Len(port_out') = m - 1 /\ Head(port_out) = port_out[1]
      /\ \A i \in 1 .. m - 1 : port_out'[i] = port_out[i + 1]
      BY <1>1, <1>2
<1>5. PICK t : t = Tail(exits)  OBVIOUS
<1>6. exits # <<>> /\ exits[1] = leaving(Head(port_out).pkt)
      BY <1>2, <1>3, <1>4
<1>7. /\ t \in Seq(ExitItems) /\ Len(t) = m + n - 1
      /\ \A i \in 1 .. m + n - 1 : t[i] = exits[i + 1]
      BY <1>3, <1>5, <1>6
<1>8. exits' = t
  <2>1. DOMAIN exits' = 1 .. m + n - 1
    <3>1. (m - 1) + n = m + n - 1  OBVIOUS
    <3>2. QED  BY <1>2, <1>4, <3>1 DEF exits
  <2>2. DOMAIN t = 1 .. m + n - 1 /\ t = [i \in DOMAIN t |-> t[i]]
        BY <1>7
  <2>3. ASSUME NEW i \in 1 .. m + n - 1
        PROVE  exits'[i] = t[i]
    <3>1. i + 1 \in 1 .. m + n /\ i \in 1 .. (m - 1) + n  OBVIOUS
    <3>2. exits[i + 1] = IF i + 1 <= m THEN leaving(port_out[i + 1].pkt)
                         ELSE leaving(m_pkt_queue[(i + 1) - m])
          BY <1>2, <3>1 DEF exits
    <3>3. exits'[i] = IF i <= m - 1 THEN leaving(port_out'[i].pkt)
                      ELSE leaving(m_pkt_queue[i - (m - 1)])
          BY <1>2, <1>4, <3>1 DEF exits
    <3>4. i + 1 <= m <=> i <= m - 1  OBVIOUS
    <3>5. (i + 1) - m = i - (m - 1) /\ (i <= m - 1 => i \in 1 .. m - 1)  OBVIOUS
    <3>6. QED  BY <1>4, <1>7, <3>2, <3>3, <3>4, <3>5
  <2>4. QED  BY <2>1, <2>2, <2>3 DEF exits
<1>9. QED  BY <1>5, <1>6, <1>8

-----------------------------------------------------------------------------
(* What is known of the packets and of the Sink's table.  In what follows e *)
(* is when the packets came in, n the present instant and t the table.      *)

found(t, f) ==
  {i \in DOMAIN t[CheckBucket[f]] :
     t[CheckBucket[f]][i].flow = f /\ \A j \in 1 .. i - 1 : t[CheckBucket[f]][j].flow # f}

expected(t, f, k) == t[CheckBucket[f]][k].nxt_exptected_pkt_id

\* The packets that have been in the node for longer than the timeout.
lateOnes(e, n) ==
  {k \in Flows \X Ids :
     /\ EnableBalanceCores
     /\ k[2] + 1 \in DOMAIN e[k[1]]
     /\ n > e[k[1]][k[2] + 1] + HashtableEntryTimeout}

\* Every packet has come in.
Known(K, e) ==
  \A s \in Places : \A j \in DOMAIN K[s] : K[s][j].id + 1 \in DOMAIN e[K[s][j].flow]

\* Only packets in S are behind what the Sink has seen of their flow.
Collected(K, S, t) ==
  \A s \in Places : \A j \in DOMAIN K[s] : counts(s, K[s][j]) =>
    \A k \in found(t, K[s][j].flow) :
      expected(t, K[s][j].flow, k) > K[s][j].id => key(K[s][j]) \in S

TableOK(t) == t \in [CheckBuckets -> Seq(CheckEntries)]

\* The Sink expects the packet after the last one that came in, at the most.
TableKnown(t, e) ==
  \A f \in Flows : \A k \in found(t, f) : expected(t, f, k) <= Len(e[f])

OrderOf(K, e, n, t) ==
  /\ InLine(K, lateOnes(e, n)) /\ Known(K, e) /\ Collected(K, lateOnes(e, n), t)
  /\ TableOK(t) /\ TableKnown(t, e)

\* Time goes on, and what came in stays as it was.
Grown(e, g, n, m) ==
  /\ n \in Nat /\ m \in Nat /\ n <= m
  /\ \A f \in Flows :
       /\ e[f] \in Seq(Nat) /\ g[f] \in Seq(Nat)
       /\ Len(e[f]) <= Len(g[f])
       /\ \A i \in DOMAIN e[f] : i \in DOMAIN g[f] /\ g[f][i] = e[f][i]

LEMMA EnteredGrows ==
  ASSUME TracedInv, SequencesOK, SequencesOK', [TracedNext]_tracedVars
  PROVE  Grown(entered, entered', now, now')
<1>1. now \in Nat /\ now' \in Nat /\ entered \in [Flows -> Seq(Nat)]
      BY DEF SequencesOK, TracedInv
<1>2. now' = now \/ now' = now + 1
      BY DEF TracedNext, TracedReceive, TracedDepart, Inside, tracedVars, nodeVars,
             Receive, Depart, Dispatch, LearnOverload, Enqueue, Complete, OutputProcessed,
             OutputOffloaded, OutputNext, NodeTick, procVars, OffloadHandlePkt,
             OffloadHandleTrigger, HandlePacket, HandleProcDone, TakeProcessed, TakeOffloaded
<1>3. entered' = entered \/ \E f \in Flows : entered' = [entered EXCEPT ![f] = Append(@, now)]
  <2>1. \A pkt \in LinkPackets : pkt.flow \in Flows  BY DEF LinkPackets
  <2>2. QED  BY <2>1 DEF TracedNext, TracedReceive, TracedDepart, tracedVars
<1>4. ASSUME NEW t \in Seq(Nat)
      PROVE  /\ Append(t, now) \in Seq(Nat) /\ Len(t) <= Len(Append(t, now)) /\ Len(t) <= Len(t)
             /\ \A i \in DOMAIN t : i \in DOMAIN Append(t, now) /\ Append(t, now)[i] = t[i]
      BY <1>1
<1>5. ASSUME NEW f \in Flows
      PROVE  entered[f] \in Seq(Nat) /\ (entered'[f] = entered[f] \/ entered'[f] = Append(entered[f], now))
      BY <1>1, <1>3
<1>6. ASSUME NEW f \in Flows
      PROVE  /\ entered[f] \in Seq(Nat) /\ entered'[f] \in Seq(Nat)
             /\ Len(entered[f]) <= Len(entered'[f])
             /\ \A i \in DOMAIN entered[f] : i \in DOMAIN entered'[f] /\ entered'[f][i] = entered[f][i]
  <2>1. CASE entered'[f] = entered[f]
        BY <1>4, <1>5, <2>1
  <2>2. CASE entered'[f] = Append(entered[f], now)
        BY <1>4, <1>5, <2>2
  <2>3. QED  BY <1>5, <2>1, <2>2
<1>7. now <= now'  BY <1>1, <1>2
<1>8. QED  BY <1>1, <1>6, <1>7 DEF Grown

LEMMA LateOnesGrow ==
  ASSUME NEW e, NEW g, NEW n, NEW m, Grown(e, g, n, m)
  PROVE  lateOnes(e, n) \subseteq lateOnes(g, m)
<1> SUFFICES ASSUME NEW k \in lateOnes(e, n) PROVE k \in lateOnes(g, m)
    OBVIOUS
<1>1. /\ k \in Flows \X Ids /\ EnableBalanceCores
      /\ k[2] + 1 \in DOMAIN e[k[1]]
      /\ n > e[k[1]][k[2] + 1] + HashtableEntryTimeout
      BY DEF lateOnes
<1>2. k[1] \in Flows  BY <1>1
<1>3. /\ k[2] + 1 \in DOMAIN g[k[1]]
      /\ g[k[1]][k[2] + 1] = e[k[1]][k[2] + 1]
      /\ e[k[1]][k[2] + 1] \in Nat
      BY <1>1, <1>2 DEF Grown
<1>4. m > g[k[1]][k[2] + 1] + HashtableEntryTimeout
      BY <1>1, <1>3, TimeoutAssumption DEF Grown
<1>5. QED  BY <1>1, <1>3, <1>4 DEF lateOnes

LEMMA ListedItems ==
  ASSUME NEW K, Listed(K), NEW s \in Places, NEW j \in DOMAIN K[s]
  PROVE  K[s][j].flow \in Flows /\ K[s][j].id \in Ids /\ K[s][j].id \in Nat
<1>1. K[s][j] \in HeldPackets \cup ExitItems  BY DEF Listed
<1>2. QED  BY <1>1, InputsAssumption DEF HeldPackets, ExitItems

LEMMA EntryTyped ==
  ASSUME NEW t, TableOK(t), NEW f \in Flows, NEW k \in found(t, f)
  PROVE  /\ CheckBucket[f] \in CheckBuckets /\ t[CheckBucket[f]] \in Seq(CheckEntries)
         /\ k \in DOMAIN t[CheckBucket[f]] /\ t[CheckBucket[f]][k] \in CheckEntries
         /\ expected(t, f, k) \in Nat
<1>1. CheckBucket[f] \in CheckBuckets  BY DEF CheckBuckets
<1>2. k \in DOMAIN t[CheckBucket[f]]  BY DEF found
<1>3. t[CheckBucket[f]] \in Seq(CheckEntries)  BY <1>1 DEF TableOK
<1>4. t[CheckBucket[f]][k] \in CheckEntries  BY <1>2, <1>3
<1>5. QED  BY <1>1, <1>2, <1>3, <1>4 DEF CheckEntries, expected

\* If nothing comes in and the Sink gets nothing, all of this stays.
LEMMA OrderCarried ==
  ASSUME NEW K, NEW L, NEW e, NEW g, NEW n, NEW m, NEW t, Grown(e, g, n, m),
         OrderOf(K, e, n, t), Listed(K), Listed(L), From(K, L), InLine(L, lateOnes(e, n))
  PROVE  OrderOf(L, g, m, t)
<1>1. lateOnes(e, n) \subseteq lateOnes(g, m)  BY LateOnesGrow
<1>2. InLine(L, lateOnes(g, m))  BY <1>1 DEF InLine
<1>3. ASSUME NEW s \in Places, NEW j \in DOMAIN L[s]
      PROVE  \E r \in Places : \E i \in DOMAIN K[r] :
               /\ L[s][j].flow = K[r][i].flow /\ L[s][j].id = K[r][i].id
               /\ K[r][i].flow \in Flows
               /\ counts(s, L[s][j]) => counts(r, K[r][i])
      BY ListedItems DEF From, same
<1>4. Known(L, g)
      BY <1>3 DEF Grown, OrderOf, Known
<1>5. Collected(L, lateOnes(g, m), t)
  <2> SUFFICES ASSUME NEW s \in Places, NEW j \in DOMAIN L[s], counts(s, L[s][j]),
                      NEW k \in found(t, L[s][j].flow),
                      expected(t, L[s][j].flow, k) > L[s][j].id
               PROVE  key(L[s][j]) \in lateOnes(g, m)
      BY DEF Collected
  <2>1. PICK r \in Places : \E i \in DOMAIN K[r] :
          /\ L[s][j].flow = K[r][i].flow /\ L[s][j].id = K[r][i].id
          /\ counts(r, K[r][i])
        BY <1>3
  <2>2. PICK i \in DOMAIN K[r] :
          /\ L[s][j].flow = K[r][i].flow /\ L[s][j].id = K[r][i].id
          /\ counts(r, K[r][i])
        BY <2>1
  <2>3. key(K[r][i]) \in lateOnes(e, n)
        BY <2>2 DEF OrderOf, Collected
  <2>4. QED  BY <1>1, <2>2, <2>3 DEF key
<1>6. TableKnown(t, g)
  <2> SUFFICES ASSUME NEW f \in Flows, NEW k \in found(t, f)
               PROVE  expected(t, f, k) <= Len(g[f])
      BY DEF TableKnown
  <2>1. expected(t, f, k) \in Nat /\ expected(t, f, k) <= Len(e[f])
        BY EntryTyped DEF OrderOf, TableKnown
  <2>2. Len(e[f]) \in Nat /\ Len(g[f]) \in Nat /\ Len(e[f]) <= Len(g[f])
        BY DEF Grown
  <2>3. QED  BY <2>1, <2>2
<1>7. QED  BY <1>2, <1>4, <1>5, <1>6 DEF OrderOf

\* A packet that comes in is the next one of its flow, and one that goes on to
\* the next node does not go to the Sink.
LEMMA OrderAdded ==
  ASSUME NEW K, NEW L, NEW e, NEW g, NEW n, NEW m, NEW t, Grown(e, g, n, m),
         OrderOf(K, e, n, t), Listed(K), NEW r \in Places,
         NEW x \in HeldPackets \cup ExitItems, Added(K, L, r, x),
         \/ r = In /\ x.id = Len(e[x.flow])
         \/ r = Exit /\ ~x.done,
         x.id + 1 \in DOMAIN g[x.flow]
  PROVE  OrderOf(L, g, m, t)
<1>0. x.flow \in Flows /\ x.id \in Nat
      BY InputsAssumption DEF HeldPackets, ExitItems
<1>1. Last(K, r, x)
  <2>1. ASSUME NEW s \in Places, NEW j \in DOMAIN K[s], passes(K[s][j], x),
               x.id = Len(e[x.flow])
        PROVE  FALSE
    <3>1. K[s][j].flow = x.flow /\ x.id <= K[s][j].id /\ K[s][j].id \in Nat
          BY <2>1, ListedItems DEF passes
    <3>2. K[s][j].id + 1 \in DOMAIN e[x.flow]  BY <3>1 DEF OrderOf, Known
    <3>3. e[x.flow] \in Seq(Nat)  BY <1>0 DEF Grown
    <3>4. K[s][j].id + 1 <= Len(e[x.flow]) /\ Len(e[x.flow]) \in Nat  BY <3>2, <3>3
    <3>5. QED  BY <2>1, <3>1, <3>4
  <2>2. QED  BY <2>1 DEF Last
<1>2. /\ Listed(L) /\ InLine(L, lateOnes(e, n))
      /\ \A s \in Places : \A j \in DOMAIN L[s] :
           (L[s][j] = x /\ s = r) \/ \E i \in DOMAIN K[s] : L[s][j] = K[s][i]
  <2>1. PICK S : S = lateOnes(e, n)  OBVIOUS
  <2>2. InLine(K, S)  BY <2>1 DEF OrderOf
  <2>3. Listed(L) /\ InLine(L, S) /\ OneNew(K, L, r, x)
        BY <1>1, <2>2, AddedInLine
  <2>4. QED  BY <2>1, <2>3 DEF OneNew
<1>3. lateOnes(e, n) \subseteq lateOnes(g, m)  BY LateOnesGrow
<1>4. InLine(L, lateOnes(g, m))  BY <1>2, <1>3 DEF InLine
<1>5. Known(L, g)
  <2> SUFFICES ASSUME NEW s \in Places, NEW j \in DOMAIN L[s]
               PROVE  L[s][j].id + 1 \in DOMAIN g[L[s][j].flow]
      BY DEF Known
  <2>1. CASE L[s][j] = x  BY <2>1
  <2>2. ASSUME NEW i \in DOMAIN K[s], L[s][j] = K[s][i]
        PROVE  L[s][j].id + 1 \in DOMAIN g[L[s][j].flow]
        BY <2>2, ListedItems DEF OrderOf, Known, Grown
  <2>3. QED  BY <1>2, <2>1, <2>2
<1>6. TableKnown(t, g)
  <2> SUFFICES ASSUME NEW f \in Flows, NEW k \in found(t, f)
               PROVE  expected(t, f, k) <= Len(g[f])
      BY DEF TableKnown
  <2>1. expected(t, f, k) \in Nat /\ expected(t, f, k) <= Len(e[f])
        BY EntryTyped DEF OrderOf, TableKnown
  <2>2. Len(e[f]) \in Nat /\ Len(g[f]) \in Nat /\ Len(e[f]) <= Len(g[f])
        BY DEF Grown
  <2>3. QED  BY <2>1, <2>2
<1>7. Collected(L, lateOnes(g, m), t)
  <2> SUFFICES ASSUME NEW s \in Places, NEW j \in DOMAIN L[s], counts(s, L[s][j]),
                      NEW k \in found(t, L[s][j].flow),
                      expected(t, L[s][j].flow, k) > L[s][j].id
               PROVE  key(L[s][j]) \in lateOnes(g, m)
      BY DEF Collected
  <2>1. CASE L[s][j] = x /\ s = r
    <3>1. Len(e[x.flow]) \in Nat  BY <1>0 DEF Grown
    <3>2. x.id = Len(e[x.flow])  BY <2>1 DEF counts
    <3>3. expected(t, x.flow, k) \in Nat /\ expected(t, x.flow, k) <= Len(e[x.flow])
          BY <1>0, <2>1, EntryTyped DEF OrderOf, TableKnown
    <3>4. QED  BY <2>1, <3>1, <3>2, <3>3
  <2>2. ASSUME NEW i \in DOMAIN K[s], L[s][j] = K[s][i]
        PROVE  key(L[s][j]) \in lateOnes(g, m)
        BY <1>3, <2>2 DEF OrderOf, Collected
  <2>3. QED  BY <1>2, <2>1, <2>2
<1>8. QED  BY <1>4, <1>5, <1>6, <1>7 DEF OrderOf

-----------------------------------------------------------------------------
(* The lines after an event.                                               *)

LEMMA LinesAre ==
  /\ Exit \in Places /\ In \in Places /\ Local \in Places /\ Done \in Places
  /\ \A c \in Cores : Core(c) \in Places /\ Core(c) # Exit
  /\ In # Exit /\ Local # Exit /\ Done # Exit
  /\ Lines[Exit] = exits /\ Lines'[Exit] = exits'
  /\ \A q \in Places \ {Exit} : /\ q \in QueueIds /\ q # Away /\ q # Buffer
                                /\ Lines[q] = Queues[q] /\ Lines'[q] = Queues'[q]
<1>1. /\ Exit # In /\ Exit # Local /\ Exit # Done /\ Exit # Away /\ Exit # Buffer
      /\ \A c \in Cores : Core(c) # Exit
      BY DEF Exit, In, Local, Done, Away, Buffer, Core
<1>2. /\ Exit \in Places /\ In \in Places /\ Local \in Places /\ Done \in Places
      /\ \A c \in Cores : Core(c) \in Places
      BY DEF Places
<1>3. \A q \in Places \ {Exit} : q \in QueueIds /\ q # Away /\ q # Buffer
      BY QueueNames DEF Places, QueueIds
<1>4. QED  BY <1>1, <1>2, <1>3 DEF Lines

LEMMA LinesListed ==
  ASSUME TracedInv
  PROVE  Listed(Lines)
<1>1. exits \in Seq(ExitItems)
  <2>1. port_out \in Seq(LinkMsgs) /\ m_pkt_queue \in Seq(Packets)
        BY DEF TracedInv, BufferInv, OutTypeOK
  <2>2. PICK m \in Nat, n \in Nat : m = Len(port_out) /\ n = Len(m_pkt_queue)
        BY <2>1
  <2>3. QED  BY <2>1, <2>2, ExitsAre
<1>2. \A s : s \in Seq(ExitItems) \/ s \in Seq(HeldPackets) => s \in Seq(HeldPackets \cup ExitItems)
      OBVIOUS
<1>3. \A q \in Places \ {Exit} : Lines[q] \in Seq(HeldPackets)
      BY LinesAre DEF TracedInv, Typed
<1>4. QED  BY <1>1, <1>2, <1>3, LinesAre DEF Listed

LEMMA MovedPushes ==
  ASSUME NEW q \in Places \ {Exit}, NEW r \in Places \ {Exit}, q # r,
         Listed(Lines), Moved(Queues, Queues', q, r), exits' = exits
  PROVE  Pushed(Lines, Lines', q, r)
<1>1. /\ Lines[q] = Queues[q] /\ Lines[r] = Queues[r]
      /\ Lines'[q] = Queues'[q] /\ Lines'[r] = Queues'[r]
      BY LinesAre
<1>2. \A s \in Places \ {q, r} : Lines'[s] = Lines[s]
      BY LinesAre DEF Moved
<1>3. Head(Lines[q]) \in HeldPackets \cup ExitItems
  <2>1. Lines[q] \in Seq(HeldPackets \cup ExitItems)  BY DEF Listed
  <2>2. Lines[q] # <<>>  BY <1>1 DEF Moved
  <2>3. QED  BY <2>1, <2>2, SequenceEnds
<1>4. QED  BY <1>1, <1>2, <1>3 DEF Moved, Pushed, same

\* The first packet of q may pass what is at the other places of its stage.
Free(K, q, S) ==
  \A s \in Places : stage(s) = stage(q) /\ s # q =>
    \A j \in DOMAIN K[s] : passes(Head(K[q]), K[s][j]) => key(K[s][j]) \in S

LEMMA AloneFree ==
  ASSUME NEW K, NEW S, NEW q \in {In, Local, Done, Exit}
  PROVE  Free(K, q, S)
<1>1. \A s \in Places : stage(s) = stage(q) => s = q
      BY Stages
<1>2. QED  BY <1>1 DEF Free

LEMMA OrderMoved ==
  ASSUME NEW K, NEW L, NEW e, NEW g, NEW n, NEW m, NEW t, Grown(e, g, n, m),
         OrderOf(K, e, n, t), Listed(K), NEW q \in Places, NEW r \in Places,
         stage(r) = stage(q) + 1, Pushed(K, L, q, r), Free(K, q, lateOnes(e, n))
  PROVE  OrderOf(L, g, m, t)
<1>1. PICK S : S = lateOnes(e, n)  OBVIOUS
<1>2. InLine(K, S)  BY <1>1 DEF OrderOf
<1>3. \A s \in Places : stage(s) = stage(q) /\ s # q =>
        \A j \in DOMAIN K[s] : passes(Head(K[q]), K[s][j]) => key(K[s][j]) \in S
      BY <1>1 DEF Free
<1>4. Listed(L) /\ InLine(L, S) /\ From(K, L)
      BY <1>2, <1>3, PushedInLine
<1>5. QED  BY <1>1, <1>4, OrderCarried

LEMMA OrderDropped ==
  ASSUME NEW K, NEW L, NEW e, NEW g, NEW n, NEW m, NEW t, Grown(e, g, n, m),
         OrderOf(K, e, n, t), Listed(K), NEW q \in Places, Dropped(K, L, q)
  PROVE  OrderOf(L, g, m, t)
<1>1. PICK S : S = lateOnes(e, n)  OBVIOUS
<1>2. InLine(K, S)  BY <1>1 DEF OrderOf
<1>3. Listed(L) /\ InLine(L, S) /\ From(K, L)
      BY <1>2, DroppedInLine
<1>4. QED  BY <1>1, <1>3, OrderCarried

LEMMA OrderSame ==
  ASSUME NEW K, NEW L, NEW e, NEW g, NEW n, NEW m, NEW t, Grown(e, g, n, m),
         OrderOf(K, e, n, t), Listed(K), \A s \in Places : L[s] = K[s]
  PROVE  OrderOf(L, g, m, t)
<1>1. Listed(L)  BY DEF Listed
<1>2. From(K, L)  BY DEF From, same
<1>3. InLine(L, lateOnes(e, n))  BY DEF OrderOf, InLine
<1>4. QED  BY <1>1, <1>2, <1>3, OrderCarried

-----------------------------------------------------------------------------
(* Every event inside the node keeps the order.                            *)

\* What is sent on to the next node is not processed.
Unmarked == \A i \in DOMAIN offload_out : ~offload_out[i].processing_done

TableOrder == OrderOf(Lines, entered, now, m_reorder_check_table)

LEMMA InsideOrder ==
  ASSUME TracedInv, SequencesOK, SequencesOK', BufferInv', Unmarked, TableOrder,
         Grown(entered, entered', now, now'), Inside,
         UNCHANGED <<m_reorder_check_table, entered>>,
         \A m \in Cores : Complete(m) => Free(Lines, Core(m), lateOnes(entered, now))
  PROVE  TableOrder'
<1> DEFINE t == m_reorder_check_table
           Result == OrderOf(Lines', entered', now', t)
<1>0. SUFFICES Result
      BY DEF TableOrder, OrderOf, InLine, ahead, passes, counts, key, Known, Collected,
             TableOK, TableKnown
<1>1. /\ NodeInv /\ CoreInv /\ OffloadInv /\ BufferInv /\ Typed(Queues) /\ Sendable
      /\ Listed(Lines) /\ OrderOf(Lines, entered, now, t)
      BY LinesListed DEF TracedInv, NodeInv, TableOrder
<1>2. /\ stage(Local) = stage(In) + 1 /\ stage(Exit) = stage(Done) + 1
      /\ \A c \in Cores : /\ stage(Core(c)) = stage(Local) + 1
                          /\ stage(Done) = stage(Core(c)) + 1
      BY Stages
<1>3. \A q \in {In, Local, Done, Exit} : Free(Lines, q, lateOnes(entered, now))
      BY AloneFree
<1>4. \A q \in Places \ {Exit} : \A r \in Places \ {Exit} :
        q # r /\ Moved(Queues, Queues', q, r) /\ exits' = exits => Pushed(Lines, Lines', q, r)
      BY <1>1, MovedPushes
<1> HIDE DEF t, Result
<1>5. \A q, r \in Places : stage(r) = stage(q) + 1 /\ Pushed(Lines, Lines', q, r)
          /\ Free(Lines, q, lateOnes(entered, now)) => Result
      BY <1>1, OrderMoved DEF Result
<1>6. (\A s \in Places : Lines'[s] = Lines[s]) => Result
      BY <1>1, OrderSame DEF Result
<1>7. \A q \in Places : Dropped(Lines, Lines', q) => Result
      BY <1>1, OrderDropped DEF Result
<1>8. UNCHANGED <<m_pkt_queue, port_out>> => exits' = exits
      BY DEF exits
<1>9. Queues' = Queues /\ exits' = exits => Result
      BY <1>6, LinesAre
<1>10. CASE Dispatch
  <2>1. exits' = exits  BY <1>8, <1>10 DEF Dispatch, outVars
  <2>2. CASE Moved(Queues, Queues', In, Local)
        BY <1>2, <1>3, <1>4, <1>5, <2>1, <2>2, LinesAre, QueueNames
  <2>3. CASE Moved(Queues, Queues', In, Away)
    <3>1. Dropped(Lines, Lines', In)
          BY <2>1, <2>3, LinesAre DEF Moved, Dropped
    <3>2. QED  BY <1>7, <3>1, LinesAre
  <2>4. QED  BY <1>1, <1>10, <2>2, <2>3, DispatchStep
<1>11. CASE LearnOverload
      BY <1>8, <1>9, <1>11, OtherStep DEF LearnOverload, OffloadHandleTrigger, coreVars, outVars
<1>12. CASE Enqueue
  <2>1. exits' = exits  BY <1>8, <1>12 DEF Enqueue, outVars
  <2>2. PICK c \in Cores : Moved(Queues, Queues', Local, Core(c))
        BY <1>1, <1>12, EnqueueStep
  <2>3. QED  BY <1>2, <1>3, <1>4, <1>5, <2>1, <2>2, LinesAre, QueueNames
<1>13. CASE \E m \in Cores : Complete(m)
  <2>1. PICK m \in Cores : Complete(m)  BY <1>13
  <2>2. exits' = exits  BY <1>8, <2>1 DEF Complete, outVars
  <2>3. Moved(Queues, Queues', Core(m), Done)  BY <1>1, <2>1, CompleteStep
  <2>4. Free(Lines, Core(m), lateOnes(entered, now))  BY <2>1
  <2>5. QED  BY <1>2, <1>4, <1>5, <2>2, <2>3, <2>4, LinesAre, QueueNames
<1>14. CASE OutputProcessed
  <2> DEFINE p == Head(proc_out)
  <2>1. /\ proc_out # <<>> /\ OutHandlePacket(p) /\ p \in Packets
        /\ brief(proc_out) # <<>> /\ Head(brief(proc_out)) = summary(p)
    <3>1. proc_out # <<>> /\ OutHandlePacket(p) /\ proc_out \in Seq(Packets)
          BY <1>14 DEF OutputProcessed, TakeProcessed, SequencesOK
    <3>2. QED  BY <3>1, BriefList
  <2> HIDE DEF p
  <2>2. leaving(p) \in ExitItems /\ exits' = Append(exits, leaving(p))
        BY <1>1, <2>1, ExitsAppend
  <2>3. /\ Queues'[Done] = Tail(Queues[Done])
        /\ \A s \in QueueIds \ {Done, Buffer} : Queues'[s] = Queues[s]
    <3>1. Moved(Queues, Queues', Done, Buffer) \/ Left(Queues, Queues', Done)
          BY <1>1, <1>14, OutputProcessedStep DEF Sent
    <3>2. QED  BY <3>1 DEF Moved, Left
  <2>4. same(leaving(p), summary(p))  BY DEF same, leaving, summary
  <2>5. Pushed(Lines, Lines', Done, Exit)
    <3>1. Lines[Done] # <<>> /\ Head(Lines[Done]) = summary(p) /\ Lines'[Done] = Tail(Lines[Done])
          BY <2>1, <2>3, LinesAre, QueueOf
    <3>2. \A s \in Places \ {Done, Exit} : Lines'[s] = Lines[s]
          BY <2>3, LinesAre
    <3>3. QED  BY <2>2, <2>4, <3>1, <3>2, LinesAre DEF Pushed
  <2>6. QED  BY <1>2, <1>3, <1>5, <2>5, LinesAre
<1>15. CASE OutputOffloaded
  <2> DEFINE p == Head(offload_out)
  <2>1. /\ offload_out # <<>> /\ OutHandlePacket(p) /\ p \in Packets /\ ~p.processing_done
        /\ summary(p) \in contents(Queues)
    <3>1. /\ offload_out # <<>> /\ OutHandlePacket(p) /\ offload_out \in Seq(Packets)
          BY <1>15 DEF OutputOffloaded, TakeOffloaded, SequencesOK
    <3>2. p = offload_out[1] /\ 1 \in DOMAIN offload_out /\ p \in Packets
          BY <3>1, TailItems
    <3>3. Queues[Away][1] = summary(p) /\ 1 \in DOMAIN Queues[Away] /\ Away \in QueueIds
      <4>1. 1 \in 1 .. Len(offload_out)  BY <3>1, <3>2
      <4>2. QED  BY <3>1, <3>2, <4>1, BriefList, QueueOf DEF QueueIds
    <3>4. QED  BY <3>1, <3>2, <3>3 DEF Unmarked, contents, items
  <2> HIDE DEF p
  <2> DEFINE x == leaving(p)
  <2>2. x \in ExitItems /\ exits' = Append(exits, x)
        BY <1>1, <2>1, ExitsAppend
  <2>3. \A s \in QueueIds \ {Away, Buffer} : Queues'[s] = Queues[s]
    <3>1. Moved(Queues, Queues', Away, Buffer) \/ Left(Queues, Queues', Away)
          BY <1>1, <1>15, OutputOffloadedStep DEF Sent
    <3>2. QED  BY <3>1 DEF Moved, Left
  <2>4. Added(Lines, Lines', Exit, x)
        BY <2>2, <2>3, LinesAre DEF Added
  <2>5. ~x.done /\ x.flow = p.flow /\ x.id = p.id  BY <2>1 DEF leaving
  <2>6. x.id + 1 \in DOMAIN entered'[x.flow]
    <3>1. p.id < Len(entered[p.flow])
          BY <2>1 DEF TracedInv, Numbered, summary
    <3>2. p.flow \in Flows /\ p.id \in Nat
          BY <2>1, InputsAssumption DEF Packets
    <3>3. entered'[p.flow] \in Seq(Nat) /\ entered'[p.flow] = entered[p.flow]
          BY <3>2 DEF Grown
    <3>4. p.id + 1 \in DOMAIN entered'[p.flow]  BY <3>1, <3>2, <3>3
    <3>5. QED  BY <2>5, <3>4
  <2> HIDE DEF x
  <2>7. QED  BY <1>1, <2>2, <2>4, <2>5, <2>6, LinesAre, OrderAdded DEF Result
<1>16. CASE OutputNext
  <2>1. OutHandleSelf  BY <1>16 DEF OutputNext
  <2>2. exits' = exits  BY <1>1, <2>1, ExitsNext
  <2>3. \A s \in QueueIds \ {Buffer} : Queues'[s] = Queues[s]
    <3>1. Queues' = Queues \/ Left(Queues, Queues', Buffer)
          BY <1>1, <1>16, OutputNextStep DEF Sent
    <3>2. QED  BY <3>1 DEF Left
  <2>4. QED  BY <1>6, <2>2, <2>3, LinesAre
<1>17. CASE NodeTick
      BY <1>8, <1>9, <1>17, OtherStep DEF NodeTick, coreVars, outVars
<1>18. QED
      BY <1>10, <1>11, <1>12, <1>13, <1>14, <1>15, <1>16, <1>17 DEF Inside

-----------------------------------------------------------------------------
(* The Sink.                                                               *)

CheckStep(t, u, f, id) ==
  \/ \E i \in found(t, f) : u = [t EXCEPT ![CheckBucket[f]][i] = checked(@, id)]
  \/ /\ found(t, f) = {}
     /\ u = [t EXCEPT ![CheckBucket[f]] =
               Append(@, [flow |-> f, nxt_exptected_pkt_id |-> id + 1, reorder_cntr |-> 0])]

\* n packets of flow f have been reported.
Counts(t, f, n) ==
  \/ found(t, f) = {} /\ n = 0
  \/ \E i \in found(t, f) : n = t[CheckBucket[f]][i].reorder_cntr

Counted == \A f \in Flows : Counts(m_reorder_check_table, f, n_reordered(f))

LEMMA CountedAlways == Counted
<1> SUFFICES ASSUME NEW f \in Flows
             PROVE  Counts(m_reorder_check_table, f, n_reordered(f))
    BY DEF Counted
<1>1. reorder_check_find(f) = found(m_reorder_check_table, f)
      BY DEF reorder_check_find, found
<1>2. CASE reorder_check_find(f) = {}
      BY <1>1, <1>2 DEF n_reordered, Counts
<1>3. CASE reorder_check_find(f) # {}
  <2> DEFINE i == CHOOSE j \in reorder_check_find(f) : TRUE
  <2>1. i \in reorder_check_find(f)  BY <1>3
  <2>2. n_reordered(f) = m_reorder_check_table[CheckBucket[f]][i].reorder_cntr
        BY <1>3 DEF n_reordered
  <2> HIDE DEF i
  <2>3. QED  BY <1>1, <2>1, <2>2 DEF Counts
<1>4. QED  BY <1>2, <1>3

\* A flow has one entry.
LEMMA FoundOne ==
  ASSUME NEW t, TableOK(t), NEW f \in Flows,
         NEW i \in found(t, f), NEW j \in found(t, f)
  PROVE  i = j
<1>1. i \in Nat /\ j \in Nat /\ i > 0 /\ j > 0
  <2>1. /\ t[CheckBucket[f]] \in Seq(CheckEntries)
        /\ i \in DOMAIN t[CheckBucket[f]] /\ j \in DOMAIN t[CheckBucket[f]]
        BY EntryTyped
  <2>2. QED  BY <2>1
<1>2. /\ t[CheckBucket[f]][i].flow = f /\ \A k \in 1 .. i - 1 : t[CheckBucket[f]][k].flow # f
      /\ t[CheckBucket[f]][j].flow = f /\ \A k \in 1 .. j - 1 : t[CheckBucket[f]][k].flow # f
      BY DEF found
<1>3. i < j => i \in 1 .. j - 1  BY <1>1
<1>4. j < i => j \in 1 .. i - 1  BY <1>1
<1>5. QED  BY <1>1, <1>2, <1>3, <1>4

\* reorder_check writes the entry of its flow only, and counts the packet only if
\* a later one was expected.
CheckResult(t, u, f, id) ==
  /\ TableOK(u)
  /\ \A g \in Flows : \A k \in found(u, g) :
       \/ k \in found(t, g) /\ expected(u, g, k) = expected(t, g, k)
       \/ g = f /\ expected(u, g, k) = id + 1
  /\ \A g \in Flows : \A n, m : Counts(t, g, n) /\ Counts(u, g, m) /\ n # m =>
       g = f /\ \E k \in found(t, f) : expected(t, f, k) > id

LEMMA EntryChecked ==
  ASSUME NEW t, NEW u, NEW f \in Flows, NEW id \in Nat, TableOK(t), NEW i \in found(t, f),
         u = [t EXCEPT ![CheckBucket[f]][i] = checked(@, id)]
  PROVE  CheckResult(t, u, f, id)
<1> DEFINE b == CheckBucket[f]
<1>1. /\ b \in CheckBuckets /\ t[b] \in Seq(CheckEntries) /\ i \in DOMAIN t[b]
      /\ t[b][i] \in CheckEntries /\ t[b][i].flow = f /\ expected(t, f, i) \in Nat
  <2>1. t[b][i].flow = f  BY DEF found
  <2>2. QED  BY <2>1, EntryTyped
<1>2. PICK new : new = checked(t[b][i], id)  OBVIOUS
<1>3. /\ new \in CheckEntries /\ new.flow = f
      /\ expected(t, f, i) > id => new = [t[b][i] EXCEPT !.reorder_cntr = @ + 1]
      /\ ~(expected(t, f, i) > id) => /\ new.nxt_exptected_pkt_id = id + 1
                                      /\ new.reorder_cntr = t[b][i].reorder_cntr
      /\ expected(t, f, i) > id => new.nxt_exptected_pkt_id = t[b][i].nxt_exptected_pkt_id
  <2>1. id + 1 \in Nat /\ t[b][i].reorder_cntr + 1 \in Nat
        BY <1>1 DEF CheckEntries
  <2>2. QED  BY <1>1, <1>2, <2>1 DEF checked, expected, CheckEntries
<1>4. PICK s : s = [t[b] EXCEPT ![i] = new]  OBVIOUS
<1>5. /\ s \in Seq(CheckEntries) /\ DOMAIN s = DOMAIN t[b] /\ s[i] = new
      /\ \A j \in DOMAIN t[b] : j # i => s[j] = t[b][j]
      BY <1>1, <1>3, <1>4
<1>6. u = [t EXCEPT ![b] = s]
      BY <1>1, <1>2, <1>4 DEF TableOK
<1>7. /\ u[b] = s /\ TableOK(u)
      /\ \A c \in CheckBuckets : c # b => u[c] = t[c]
      BY <1>1, <1>5, <1>6 DEF TableOK
<1> HIDE DEF b
<1>8. \A g \in Flows : CheckBucket[g] \in CheckBuckets  BY DEF CheckBuckets
<1>9. \A j \in DOMAIN t[b] : s[j].flow = t[b][j].flow
      BY <1>1, <1>3, <1>5
<1>10. ASSUME NEW g \in Flows
       PROVE  found(u, g) = found(t, g)
  <2>1. CASE CheckBucket[g] # b
        BY <1>7, <1>8, <2>1 DEF found
  <2>2. CASE CheckBucket[g] = b
    <3>1. \A k \in DOMAIN t[b] : \A j \in 1 .. k - 1 : j \in DOMAIN t[b]
          BY <1>1
    <3>2. QED  BY <1>5, <1>7, <1>9, <2>2, <3>1 DEF found
  <2>3. QED  BY <2>1, <2>2
<1>11. ASSUME NEW g \in Flows, NEW k \in found(t, g)
       PROVE  \/ g = f /\ k = i /\ CheckBucket[g] = b
              \/ u[CheckBucket[g]][k] = t[CheckBucket[g]][k]
  <2>1. CASE CheckBucket[g] # b
        BY <1>7, <1>8, <2>1
  <2>2. CASE CheckBucket[g] = b
    <3>1. k \in DOMAIN t[b] /\ t[b][k].flow = g  BY <2>2 DEF found
    <3>2. QED  BY <1>1, <1>5, <1>7, <2>2, <3>1
  <2>3. QED  BY <2>1, <2>2
<1>12. \A g \in Flows : \A k \in found(u, g) :
         \/ k \in found(t, g) /\ expected(u, g, k) = expected(t, g, k)
         \/ g = f /\ expected(u, g, k) = id + 1
  <2> SUFFICES ASSUME NEW g \in Flows, NEW k \in found(t, g)
               PROVE  \/ expected(u, g, k) = expected(t, g, k)
                      \/ g = f /\ expected(u, g, k) = id + 1
      BY <1>10
  <2>1. CASE u[CheckBucket[g]][k] = t[CheckBucket[g]][k]
        BY <2>1 DEF expected
  <2>2. CASE g = f /\ k = i /\ CheckBucket[g] = b
    <3>1. u[b][i] = new  BY <1>5, <1>7
    <3>2. QED  BY <1>3, <2>2, <3>1 DEF expected, b
  <2>3. QED  BY <1>11, <2>1, <2>2
<1>13. ASSUME NEW g \in Flows, NEW n, NEW m, Counts(t, g, n), Counts(u, g, m), n # m
       PROVE  g = f /\ \E k \in found(t, f) : expected(t, f, k) > id
  <2>1. CASE found(t, g) = {}
        BY <1>10, <1>13, <2>1 DEF Counts
  <2>2. CASE found(t, g) # {}
    <3>1. PICK k \in found(t, g) : n = t[CheckBucket[g]][k].reorder_cntr
          BY <1>13, <2>2 DEF Counts
    <3>2. PICK l \in found(t, g) : m = u[CheckBucket[g]][l].reorder_cntr
          BY <1>10, <1>13, <2>2 DEF Counts
    <3>3. k = l  BY FoundOne
    <3>4. g = f /\ k = i /\ CheckBucket[g] = b
          BY <1>11, <1>13, <3>1, <3>2, <3>3
    <3>5. u[b][i] = new  BY <1>5, <1>7
    <3>6. expected(t, f, i) > id
          BY <1>3, <1>13, <3>1, <3>2, <3>3, <3>4, <3>5
    <3>7. QED  BY <3>4, <3>6
  <2>3. QED  BY <2>1, <2>2
<1>14. QED  BY <1>7, <1>12, <1>13 DEF CheckResult

LEMMA EntryAdded ==
  ASSUME NEW t, NEW u, NEW f \in Flows, NEW id \in Nat, TableOK(t), found(t, f) = {},
         u = [t EXCEPT ![CheckBucket[f]] =
               Append(@, [flow |-> f, nxt_exptected_pkt_id |-> id + 1, reorder_cntr |-> 0])]
  PROVE  CheckResult(t, u, f, id)
<1> DEFINE b == CheckBucket[f]
<1>1. b \in CheckBuckets /\ t[b] \in Seq(CheckEntries)
      BY DEF CheckBuckets, TableOK
<1>2. PICK new \in CheckEntries :
        new.flow = f /\ new.nxt_exptected_pkt_id = id + 1 /\ new.reorder_cntr = 0
        /\ u = [t EXCEPT ![b] = Append(t[b], new)]
  <2> DEFINE x == [flow |-> f, nxt_exptected_pkt_id |-> id + 1, reorder_cntr |-> 0]
  <2>1. x \in CheckEntries  BY DEF CheckEntries
  <2>2. QED  BY <2>1
<1>3. PICK s : s = Append(t[b], new)  OBVIOUS
<1>4. PICK z \in Nat : z = Len(t[b])  BY <1>1
<1>5. /\ s \in Seq(CheckEntries) /\ DOMAIN s = 1 .. z + 1 /\ DOMAIN t[b] = 1 .. z
      /\ s[z + 1] = new /\ \A j \in 1 .. z : s[j] = t[b][j]
      BY <1>1, <1>3, <1>4
<1>6. /\ u[b] = s /\ TableOK(u)
      /\ \A c \in CheckBuckets : c # b => u[c] = t[c]
      BY <1>1, <1>2, <1>3, <1>5 DEF TableOK
<1> HIDE DEF b
<1>7. \A g \in Flows : CheckBucket[g] \in CheckBuckets  BY DEF CheckBuckets
\* An entry is either the new one, or an old one with what was in front of it.
<1>8. ASSUME NEW g \in Flows, CheckBucket[g] = b, NEW k \in found(u, g)
      PROVE  \/ k \in found(t, g) /\ u[b][k] = t[b][k]
             \/ g = f /\ u[b][k] = new
  <2>1. /\ k \in 1 .. z + 1 /\ s[k].flow = g /\ \A j \in 1 .. k - 1 : s[j].flow # g
        BY <1>5, <1>6, <1>8 DEF found
  <2>2. CASE k = z + 1
        BY <1>2, <1>5, <1>6, <2>1, <2>2
  <2>3. CASE k \in 1 .. z
    <3>1. \A j \in 1 .. k - 1 : j \in 1 .. z  BY <2>3
    <3>2. QED  BY <1>5, <1>6, <1>8, <2>1, <2>3, <3>1 DEF found
  <2>4. k = z + 1 \/ k \in 1 .. z  BY <2>1
  <2>5. QED  BY <2>2, <2>3, <2>4
<1>9. ASSUME NEW g \in Flows, CheckBucket[g] = b, NEW k \in found(t, g)
      PROVE  k \in found(u, g) /\ u[b][k] = t[b][k]
  <2>1. /\ k \in 1 .. z /\ t[b][k].flow = g /\ \A j \in 1 .. k - 1 : t[b][j].flow # g
        BY <1>5, <1>9 DEF found
  <2>2. k \in 1 .. z + 1 /\ \A j \in 1 .. k - 1 : j \in 1 .. z  BY <2>1
  <2>3. QED  BY <1>5, <1>6, <1>9, <2>1, <2>2 DEF found
<1>10. ASSUME NEW g \in Flows, CheckBucket[g] # b
       PROVE  u[CheckBucket[g]] = t[CheckBucket[g]] /\ found(u, g) = found(t, g)
       BY <1>6, <1>7, <1>10 DEF found
<1>11. \A g \in Flows : \A k \in found(u, g) :
         \/ k \in found(t, g) /\ expected(u, g, k) = expected(t, g, k)
         \/ g = f /\ expected(u, g, k) = id + 1
  <2> SUFFICES ASSUME NEW g \in Flows, NEW k \in found(u, g)
               PROVE  \/ k \in found(t, g) /\ expected(u, g, k) = expected(t, g, k)
                      \/ g = f /\ expected(u, g, k) = id + 1
      OBVIOUS
  <2>1. CASE CheckBucket[g] # b
        BY <1>10, <2>1 DEF expected
  <2>2. CASE CheckBucket[g] = b
    <3>1. CASE k \in found(t, g) /\ u[b][k] = t[b][k]
          BY <2>2, <3>1 DEF expected
    <3>2. CASE g = f /\ u[b][k] = new
      <4>1. expected(u, g, k) = id + 1  BY <1>2, <2>2, <3>2 DEF expected
      <4>2. QED  BY <3>2, <4>1
    <3>3. QED  BY <1>8, <2>2, <3>1, <3>2
  <2>3. QED  BY <2>1, <2>2
<1>12. ASSUME NEW g \in Flows, NEW n, NEW m, Counts(t, g, n), Counts(u, g, m)
       PROVE  n = m
  <2>1. CASE CheckBucket[g] # b
    <3>1. CASE found(t, g) = {}
          BY <1>10, <1>12, <2>1, <3>1 DEF Counts
    <3>2. CASE found(t, g) # {}
      <4>1. PICK k \in found(t, g) : n = t[CheckBucket[g]][k].reorder_cntr
            BY <1>12, <3>2 DEF Counts
      <4>2. PICK l \in found(t, g) : m = u[CheckBucket[g]][l].reorder_cntr
            BY <1>10, <1>12, <2>1, <3>2 DEF Counts
      <4>3. k = l  BY FoundOne
      <4>4. QED  BY <1>10, <2>1, <4>1, <4>2, <4>3
    <3>3. QED  BY <3>1, <3>2
  <2>2. CASE CheckBucket[g] = b /\ found(t, g) # {}
    <3>1. PICK k \in found(t, g) : n = t[CheckBucket[g]][k].reorder_cntr
          BY <1>12, <2>2 DEF Counts
    <3>2. k \in found(u, g) /\ u[b][k] = t[b][k]  BY <1>9, <2>2
    <3>3. PICK l \in found(u, g) : m = u[CheckBucket[g]][l].reorder_cntr
          BY <1>12, <3>2 DEF Counts
    <3>4. k = l  BY <1>6, <3>2, FoundOne
    <3>5. QED  BY <2>2, <3>1, <3>2, <3>3, <3>4
  <2>3. CASE CheckBucket[g] = b /\ found(t, g) = {}
    <3>1. n = 0  BY <1>12, <2>3 DEF Counts
    <3>2. \A k \in found(u, g) : u[b][k] = new  BY <1>8, <2>3
    <3>3. m = 0  BY <1>2, <1>12, <2>3, <3>2 DEF Counts
    <3>4. QED  BY <3>1, <3>3
  <2>4. QED  BY <2>1, <2>2, <2>3
<1>13. QED  BY <1>6, <1>11, <1>12 DEF CheckResult

LEMMA ReorderChecked ==
  ASSUME NEW t, NEW u, NEW f \in Flows, NEW id \in Nat, TableOK(t), CheckStep(t, u, f, id)
  PROVE  CheckResult(t, u, f, id)
BY EntryChecked, EntryAdded DEF CheckStep

\* The Sink gets the first of those on their way to it.
LEMMA OrderCollected ==
  ASSUME NEW K, NEW L, NEW e, NEW g, NEW n, NEW m, NEW t, NEW u, Grown(e, g, n, m),
         OrderOf(K, e, n, t), Listed(K), Dropped(K, L, Exit), K[Exit][1].done,
         CheckResult(t, u, K[Exit][1].flow, K[Exit][1].id)
  PROVE  OrderOf(L, g, m, u)
<1> DEFINE x == K[Exit][1]
<1>1. OrderOf(L, g, m, t) /\ Exit \in Places
      BY OrderDropped, LinesAre
<1>2. lateOnes(e, n) \subseteq lateOnes(g, m)  BY LateOnesGrow
<1>3. K[Exit] \in Seq(HeldPackets \cup ExitItems) /\ K[Exit] # <<>> /\ L[Exit] = Tail(K[Exit])
      BY <1>1 DEF Listed, Dropped
<1>4. 1 \in DOMAIN K[Exit]  BY <1>3, SequenceEnds
<1>5. x.flow \in Flows /\ x.id \in Nat  BY <1>1, <1>4, ListedItems
\* What is left was behind it.
<1>6. ASSUME NEW s \in Places, NEW j \in DOMAIN L[s], counts(s, L[s][j]),
             L[s][j].flow = x.flow, L[s][j].id <= x.id
      PROVE  key(L[s][j]) \in lateOnes(e, n)
  <2>1. PICK i \in DOMAIN K[s] : K[s][i] = L[s][j] /\ (s = Exit => 1 < i)
    <3>1. CASE s = Exit
      <4>1. L[s] = Tail(K[s]) /\ j \in DOMAIN Tail(K[s])  BY <1>3, <3>1
      <4>2. K[s][j + 1] = L[s][j] /\ j + 1 \in DOMAIN K[s] /\ 1 < j + 1
        <5>1. PICK T : T = HeldPackets \cup ExitItems  OBVIOUS
        <5>2. PICK k : k = K[s]  OBVIOUS
        <5>3. k \in Seq(T) /\ k # <<>>  BY <1>3, <3>1, <5>1, <5>2
        <5>4. \A i \in DOMAIN Tail(k) : Tail(k)[i] = k[i + 1] /\ i + 1 \in DOMAIN k /\ 1 < i + 1
              BY ONLY <5>3, SequenceEnds
        <5>5. QED  BY ONLY <4>1, <5>2, <5>4
      <4>3. PICK i : i = j + 1  OBVIOUS
      <4>4. i \in DOMAIN K[s] /\ K[s][i] = L[s][j] /\ 1 < i  BY ONLY <4>2, <4>3
      <4>5. QED  BY ONLY <4>4
    <3>2. CASE s # Exit  BY <1>6, <3>2 DEF Dropped
    <3>3. QED  BY <3>1, <3>2
  <2>2. ahead(Exit, 1, s, i)
    <3>1. /\ stage(Exit) = 5 /\ \A q \in Places : stage(q) \in 1 .. 5 /\ (stage(q) = 5 => q = Exit)
          BY Stages
    <3>2. s = Exit \/ stage(Exit) > stage(s)  BY <3>1
    <3>3. QED  BY <2>1, <3>2 DEF ahead
  <2>3. passes(x, K[s][i]) /\ counts(Exit, x) /\ counts(s, K[s][i])
        BY <1>6, <2>1 DEF passes, counts
  <2>4. key(K[s][i]) \in lateOnes(e, n)
        BY <1>1, <1>4, <2>2, <2>3 DEF OrderOf, InLine
  <2>5. QED  BY <2>1, <2>4
<1>7. Listed(L)
  <2>1. PICK S : S = lateOnes(e, n)  OBVIOUS
  <2>2. InLine(K, S)  BY <2>1 DEF OrderOf
  <2>3. QED  BY <1>1, <2>2, DroppedInLine
<1>8. x.id + 1 <= Len(g[x.flow])
  <2>1. x.id + 1 \in DOMAIN e[x.flow]  BY <1>1, <1>4 DEF OrderOf, Known
  <2>2. x.id + 1 \in DOMAIN g[x.flow] /\ g[x.flow] \in Seq(Nat)
        BY <1>5, <2>1 DEF Grown
  <2>3. QED  BY <2>2
<1>9. \A h \in Flows : \A k \in found(u, h) :
        \/ k \in found(t, h) /\ expected(u, h, k) = expected(t, h, k)
        \/ h = x.flow /\ expected(u, h, k) = x.id + 1
      BY DEF CheckResult
<1> HIDE DEF x
<1>10. Collected(L, lateOnes(g, m), u)
  <2> SUFFICES ASSUME NEW s \in Places, NEW j \in DOMAIN L[s], counts(s, L[s][j]),
                      NEW k \in found(u, L[s][j].flow),
                      expected(u, L[s][j].flow, k) > L[s][j].id
               PROVE  key(L[s][j]) \in lateOnes(g, m)
      BY DEF Collected
  <2>1. L[s][j].flow \in Flows /\ L[s][j].id \in Nat  BY <1>7, ListedItems
  <2>2. CASE /\ k \in found(t, L[s][j].flow)
             /\ expected(u, L[s][j].flow, k) = expected(t, L[s][j].flow, k)
    <3>1. expected(t, L[s][j].flow, k) > L[s][j].id  BY <2>2
    <3>2. Collected(L, lateOnes(g, m), t)  BY <1>1 DEF OrderOf
    <3>3. QED  BY <2>2, <3>1, <3>2 DEF Collected
  <2>3. CASE L[s][j].flow = x.flow /\ expected(u, L[s][j].flow, k) = x.id + 1
    <3>1. L[s][j].id <= x.id  BY <1>5, <2>1, <2>3
    <3>2. QED  BY <1>2, <1>6, <2>3, <3>1
  <2>4. QED  BY <1>9, <2>1, <2>2, <2>3
<1>11. TableKnown(u, g)
       BY <1>1, <1>8, <1>9 DEF OrderOf, TableKnown
<1>12. TableOK(u)  BY DEF CheckResult
<1>13. QED  BY <1>1, <1>10, <1>11, <1>12 DEF OrderOf

-----------------------------------------------------------------------------
(* When the packets came in.                                               *)

cameIn(e, p) == p.id + 1 \in DOMAIN e[p.flow] /\ e[p.flow][p.id + 1] = p.arrival_time

\* A packet that is at a core came in when it says, and is there because of the
\* redirection table if the node does not balance its cores.
atHome(c, p) ==
  /\ cameIn(entered, p)
  /\ ~EnableBalanceCores => calc_rss_rx_queue(p) = c

AllAtHome == \A c \in Cores : \A p \in atCore(c) : atHome(c, p)

AllCameIn == \A i \in DOMAIN offload_in : cameIn(entered, offload_in[i])

\* Packets of a flow came in one after the other, and none in the future.
Clocked ==
  \A f \in Flows : \A i \in DOMAIN entered[f] :
    /\ entered[f][i] <= now
    /\ \A j \in DOMAIN entered[f] : i <= j => entered[f][i] <= entered[f][j]

\* Processing a packet takes time.
Running ==
  \A c \in Cores : busy[c] => msg_proc_done[c].at > msg_proc_done[c].pkt.arrival_time

\* Without core balancing the hash table says what the redirection table says.
Homed ==
  ~EnableBalanceCores =>
    \A k \in Entries : m_hashtable[k].valid => m_hashtable[k].local_rx_queue = m_rss_reta[k]

TimesInv == AllAtHome /\ AllCameIn /\ Clocked /\ Running /\ Homed /\ Unmarked

LEMMA ClockedStep ==
  ASSUME TracedInv, SequencesOK, Clocked, [TracedNext]_tracedVars
  PROVE  Clocked'
<1>1. now \in Nat /\ entered \in [Flows -> Seq(Nat)]
      BY DEF SequencesOK, TracedInv
<1>2. /\ now' = now \/ now' = now + 1
      /\ \/ entered' = entered
         \/ /\ now' = now
            /\ \E f \in Flows : entered' = [entered EXCEPT ![f] = Append(@, now)]
  <2>1. CASE \E pkt \in LinkPackets : TracedReceive(pkt)
    <3>1. \A pkt \in LinkPackets : pkt.flow \in Flows  BY DEF LinkPackets
    <3>2. QED  BY <2>1, <3>1 DEF TracedReceive, Receive, procVars
  <2>2. CASE TracedDepart
        BY <2>2 DEF TracedDepart, Depart, procVars
  <2>3. CASE Inside /\ UNCHANGED <<m_reorder_check_table, entered>>
        BY <2>3 DEF Inside, Dispatch, LearnOverload, Enqueue, Complete, OutputProcessed,
           OutputOffloaded, OutputNext, NodeTick, procVars, OffloadHandlePkt,
           OffloadHandleTrigger, HandlePacket, HandleProcDone, TakeProcessed, TakeOffloaded
  <2>4. CASE UNCHANGED tracedVars
        BY <2>4 DEF tracedVars, nodeVars, procVars
  <2>5. QED  BY <2>1, <2>2, <2>3, <2>4 DEF TracedNext
<1>3. now' \in Nat /\ now <= now'  BY <1>1, <1>2
<1>4. \A f \in Flows : \A i \in DOMAIN entered[f] : entered[f][i] \in Nat
      BY <1>1
<1>5. ASSUME NEW f \in Flows, entered'[f] = entered[f], NEW i \in DOMAIN entered'[f]
      PROVE  /\ entered'[f][i] <= now'
             /\ \A j \in DOMAIN entered'[f] : i <= j => entered'[f][i] <= entered'[f][j]
  <2>1. entered[f][i] <= now /\ entered[f][i] \in Nat  BY <1>4, <1>5 DEF Clocked
  <2>2. entered'[f][i] <= now'  BY <1>1, <1>3, <1>5, <2>1
  <2>3. QED  BY <1>5, <2>2 DEF Clocked
<1>6. ASSUME NEW f \in Flows, entered'[f] = Append(entered[f], now), now' = now,
             NEW i \in DOMAIN entered'[f]
      PROVE  /\ entered'[f][i] <= now'
             /\ \A j \in DOMAIN entered'[f] : i <= j => entered'[f][i] <= entered'[f][j]
  <2>1. PICK n \in Nat : n = Len(entered[f])  BY <1>1
  <2>2. /\ DOMAIN entered[f] = 1 .. n /\ DOMAIN entered'[f] = 1 .. n + 1
        /\ entered'[f][n + 1] = now
        /\ \A j \in 1 .. n : entered'[f][j] = entered[f][j]
        BY <1>1, <1>6, <2>1
  <2>3. \A j \in 1 .. n : entered'[f][j] <= now /\ entered'[f][j] \in Nat
        BY <1>4, <2>2 DEF Clocked
  <2>4. i \in 1 .. n + 1  BY <2>2
  <2>5. CASE i = n + 1
    <3>1. \A j \in 1 .. n + 1 : i <= j => j = n + 1  BY <2>5
    <3>2. QED  BY <1>1, <1>6, <2>2, <2>5, <3>1
  <2>6. CASE i \in 1 .. n
    <3>1. ASSUME NEW j \in 1 .. n, i <= j PROVE entered'[f][i] <= entered'[f][j]
          BY <2>2, <2>6, <3>1 DEF Clocked
    <3>2. \A j \in 1 .. n + 1 : j \in 1 .. n \/ j = n + 1  OBVIOUS
    <3>3. QED  BY <1>6, <2>2, <2>3, <2>6, <3>1, <3>2
  <2>7. QED  BY <2>4, <2>5, <2>6
<1>7. \A f \in Flows : \/ entered'[f] = entered[f]
                       \/ entered'[f] = Append(entered[f], now) /\ now' = now
      BY <1>1, <1>2
<1>8. QED  BY <1>5, <1>6, <1>7 DEF Clocked

LEMMA UnmarkedStep ==
  ASSUME NodeInv, SequencesOK, Unmarked, [NodeNext]_nodeVars
  PROVE  Unmarked'
<1>1. offload_in \in Seq(Packets) /\ offload_out \in Seq(Packets) /\ now \in Nat
      BY DEF SequencesOK
<1>2. CASE Dispatch
  <2>1. PICK pkt : pkt = Head(offload_in)  OBVIOUS
  <2>2. offload_in # <<>> /\ handle_pkt(pkt)
        BY <1>2, <2>1 DEF Dispatch, OffloadHandlePkt
  <2>3. pkt \in Packets /\ ~pkt.processing_done
    <3>1. pkt = offload_in[1] /\ 1 \in DOMAIN offload_in /\ pkt \in Packets
          BY <1>1, <2>1, <2>2, TailItems
    <3>2. pkt \in ArrivingPackets  BY <3>1 DEF NodeInv, Arrivals
    <3>3. QED  BY <3>1, <3>2 DEF ArrivingPackets
  <2>4. PICK p : p = delivered(pkt, now)  OBVIOUS
  <2>5. p \in Packets /\ ~p.processing_done
        BY <1>1, <2>3, <2>4 DEF Packets, delivered
  <2>6. offload_out' = offload_out \/ offload_out' = Append(offload_out, p)
        BY <2>2, <2>4 DEF handle_pkt, send_pkt_local, send_pkt_offload
  <2>7. \A i \in DOMAIN Append(offload_out, p) : ~Append(offload_out, p)[i].processing_done
    <3>1. \A i \in DOMAIN offload_out : ~offload_out[i].processing_done  BY DEF Unmarked
    <3>2. \A i \in DOMAIN Append(offload_out, p) :
            Append(offload_out, p)[i] = p \/ \E j \in DOMAIN offload_out : Append(offload_out, p)[i] = offload_out[j]
          BY ONLY <1>1, <2>5, SameItems
    <3>3. QED  BY ONLY <2>5, <3>1, <3>2
  <2>8. CASE offload_out' = offload_out  BY <2>8 DEF Unmarked
  <2>9. CASE offload_out' = Append(offload_out, p)  BY <2>7, <2>9 DEF Unmarked
  <2>10. QED  BY <2>6, <2>8, <2>9
<1>3. CASE OutputOffloaded
  <2>1. offload_out # <<>> /\ offload_out' = Tail(offload_out)
        BY <1>3 DEF OutputOffloaded, TakeOffloaded
  <2>2. \A i \in DOMAIN offload_out' : \E j \in DOMAIN offload_out : offload_out'[i] = offload_out[j]
        BY <1>1, <2>1, SameItems
  <2>3. QED  BY <2>2 DEF Unmarked
<1>4. CASE ~Dispatch /\ ~OutputOffloaded
  <2>1. offload_out' = offload_out
        BY <1>4 DEF NodeNext, nodeVars, Receive, LearnOverload, OffloadHandleTrigger, Enqueue,
           Complete, OutputProcessed, OutputNext, Depart, NodeTick
  <2>2. QED  BY <2>1 DEF Unmarked
<1>5. QED  BY <1>2, <1>3, <1>4

LEMMA HomedStep ==
  ASSUME NodeInv, Homed, [NodeNext]_nodeVars
  PROVE  Homed'
<1> SUFFICES ASSUME ~EnableBalanceCores, NEW k \in Entries, m_hashtable'[k].valid
             PROVE  m_hashtable'[k].local_rx_queue = m_rss_reta'[k]
    BY DEF Homed
<1>1. m_rss_reta' = m_rss_reta
      BY DEF NodeNext, nodeVars, tableVars, Receive, Dispatch, OffloadHandlePkt, LearnOverload,
         OffloadHandleTrigger, Enqueue, Complete, OutputProcessed, OutputOffloaded, TakeOffloaded,
         OutputNext, Depart, NodeTick
<1>2. OffloadInv /\ [OffloadNext]_offloadVars
      BY NodeStepsOffload DEF NodeInv
<1>3. CASE m_hashtable' = m_hashtable
      BY <1>1, <1>3 DEF Homed
<1>4. CASE \E pkt \in Packets :
             /\ entry(pkt) \in Entries
             /\ m_hashtable' = [m_hashtable EXCEPT ![entry(pkt)] = updated(pkt)]
  <2>1. PICK pkt \in Packets :
             /\ entry(pkt) \in Entries
             /\ m_hashtable' = [m_hashtable EXCEPT ![entry(pkt)] = updated(pkt)]
        BY <1>4
  <2>2. m_hashtable \in [Entries -> HashtableEntries]
        BY <1>2 DEF OffloadInv, OffloadTypeOK
  <2>3. CASE k # entry(pkt)
    <3>1. m_hashtable'[k] = m_hashtable[k]  BY <2>1, <2>2, <2>3
    <3>2. QED  BY <1>1, <3>1 DEF Homed
  <2>4. CASE k = entry(pkt)
    <3>1. m_hashtable'[k] = updated(pkt)  BY <2>1, <2>2, <2>4
    <3>2. updated(pkt).local_rx_queue = m_rss_reta[k]  BY <2>4 DEF Homed, updated, expired, local_rx_queue, calc_rss_rx_queue
    <3>3. QED  BY <1>1, <3>1, <3>2
  <2>5. QED  BY <2>3, <2>4
<1>5. QED  BY <1>2, <1>3, <1>4, TableChange

\* A core that starts with p is done with it after p came in.
LEMMA StartedRunning ==
  ASSUME SequencesOK, BurstInv, Running, NEW c \in Cores, NEW p \in atCore(c),
         msg_proc_done' = [msg_proc_done EXCEPT ![c] =
           [pkt |-> set_processing_done(p), at |-> now + p.instr]],
         \A d \in Cores \ {c} : busy'[d] = busy[d]
  PROVE  Running'
<1>1. p \in Packets /\ p.arrival_time <= now
      BY DEF BurstInv, AllAssigned, Assigned
<1>2. p.instr \in Nat /\ p.instr > 0 /\ p.arrival_time \in Nat /\ now \in Nat
  <2>1. p.instr \in Instrs /\ p.arrival_time \in Nat  BY <1>1 DEF Packets
  <2>2. p.instr \in Nat \ {0}  BY <2>1, InputsAssumption
  <2>3. QED  BY <2>1, <2>2 DEF SequencesOK
<1>3. now + p.instr > p.arrival_time  BY <1>1, <1>2
<1>4. set_processing_done(p).arrival_time = p.arrival_time
      BY <1>1 DEF Packets, set_processing_done
<1>5. /\ msg_proc_done'[c].at = now + p.instr
      /\ msg_proc_done'[c].pkt.arrival_time = p.arrival_time
      /\ \A d \in Cores \ {c} : msg_proc_done'[d] = msg_proc_done[d]
      BY <1>4 DEF SequencesOK
<1>6. ASSUME NEW d \in Cores, busy'[d]
      PROVE  msg_proc_done'[d].at > msg_proc_done'[d].pkt.arrival_time
  <2>1. CASE d = c  BY <1>3, <1>5, <2>1
  <2>2. CASE d # c  BY <1>5, <1>6, <2>2 DEF Running
  <2>3. QED  BY <2>1, <2>2
<1>7. QED  BY <1>6 DEF Running

LEMMA RunningStep ==
  ASSUME NodeInv, SequencesOK, BurstInv, Running, [NodeNext]_nodeVars
  PROVE  Running'
<1>1. CoreInv  BY DEF NodeInv
<1>2. CASE Enqueue
  <2>1. PICK p : p = Head(out_proc)  OBVIOUS
  <2>2. PICK c : c = p.rx_queue  OBVIOUS
  <2>3. /\ out_proc # <<>>
        /\ \/ busy[c] /\ UNCHANGED <<busy, msg_proc_done>>
           \/ /\ ~busy[c] /\ set_busy(c, TRUE) /\ process_packet(c, Append(rx_queue[c], p))
        BY <1>2, <2>1, <2>2 DEF Enqueue, HandlePacket
  <2>4. c \in Cores /\ p \in atCore(c) /\ p \in Packets
    <3>1. p = out_proc[1] /\ 1 \in DOMAIN out_proc /\ p \in Packets
          BY <2>1, <2>3, TailItems DEF SequencesOK
    <3>2. c \in Cores  BY <1>1, <2>2, <3>1 DEF CoreInv, Routed
    <3>3. QED  BY <2>2, <3>1, <3>2 DEF atCore
  <2>5. CASE busy[c] /\ UNCHANGED <<busy, msg_proc_done>>
        BY <2>5 DEF Running
  <2>6. CASE ~busy[c] /\ set_busy(c, TRUE) /\ process_packet(c, Append(rx_queue[c], p))
    <3>1. rx_queue[c] = <<>>  BY <2>4, <2>6 DEF SequencesOK
    <3>2. Head(Append(rx_queue[c], p)) = p  BY <2>4, <3>1
    <3>3. msg_proc_done' = [msg_proc_done EXCEPT ![c] =
            [pkt |-> set_processing_done(p), at |-> now + p.instr]]
          BY <2>6, <3>2 DEF process_packet
    <3>4. \A d \in Cores \ {c} : busy'[d] = busy[d]
          BY <2>6 DEF set_busy, SequencesOK
    <3>5. QED  BY <2>4, <3>3, <3>4, StartedRunning
  <2>7. QED  BY <2>3, <2>5, <2>6
<1>3. ASSUME NEW m \in Cores, Complete(m)
      PROVE  Running'
  <2>1. msg_proc_done[m] # NoMsg  BY <1>3 DEF Complete, HandleProcDone
  <2>2. busy[m] /\ msg_proc_done[m].pkt.rx_queue = m
        BY <1>1, <2>1 DEF CoreInv, CoreConsistent
  <2>3. \/ /\ rx_queue[m] # <<>> /\ process_packet(m, rx_queue[m]) /\ UNCHANGED busy
        \/ /\ set_busy(m, FALSE) /\ msg_proc_done' = [msg_proc_done EXCEPT ![m] = NoMsg]
        BY <1>3, <2>2 DEF Complete, HandleProcDone
  <2>4. CASE rx_queue[m] # <<>> /\ process_packet(m, rx_queue[m]) /\ UNCHANGED busy
    <3>1. PICK p : p = Head(rx_queue[m])  OBVIOUS
    <3>2. p \in atCore(m)
      <4>1. p = rx_queue[m][1] /\ 1 \in DOMAIN rx_queue[m]
            BY <2>4, <3>1, TailItems DEF SequencesOK
      <4>2. QED  BY <4>1 DEF atCore
    <3>3. msg_proc_done' = [msg_proc_done EXCEPT ![m] =
            [pkt |-> set_processing_done(p), at |-> now + p.instr]]
          BY <2>4, <3>1 DEF process_packet
    <3>4. \A d \in Cores \ {m} : busy'[d] = busy[d]  BY <2>4
    <3>5. QED  BY <3>2, <3>3, <3>4, StartedRunning
  <2>5. CASE set_busy(m, FALSE) /\ msg_proc_done' = [msg_proc_done EXCEPT ![m] = NoMsg]
    <3>1. \A d \in Cores : busy'[d] => busy[d] /\ msg_proc_done'[d] = msg_proc_done[d]
          BY <2>5 DEF set_busy, SequencesOK
    <3>2. QED  BY <3>1 DEF Running
  <2>6. QED  BY <2>3, <2>4, <2>5
<1>4. CASE UNCHANGED <<busy, msg_proc_done>>
      BY <1>4 DEF Running
<1>5. CASE ~Enqueue /\ ~(\E m \in Cores : Complete(m))
  <2>1. UNCHANGED <<busy, msg_proc_done>>
        BY <1>5 DEF NodeNext, nodeVars, procVars, coreVars, Receive, Dispatch, LearnOverload,
           OutputProcessed, OutputOffloaded, TakeProcessed, OutputNext, Depart, NodeTick
  <2>2. QED  BY <1>4, <2>1
<1>6. QED  BY <1>2, <1>3, <1>5

\* What has come in stays as it was.
LEMMA CameInKept ==
  ASSUME NEW e, NEW g, NEW n, NEW m, Grown(e, g, n, m),
         NEW p \in Packets, NEW r \in Packets, r.flow = p.flow, r.id = p.id,
         r.arrival_time = p.arrival_time, cameIn(e, p)
  PROVE  cameIn(g, r)
<1>1. p.flow \in Flows  BY DEF Packets
<1>2. QED  BY <1>1 DEF Grown, cameIn

LEMMA AllCameInStep ==
  ASSUME TracedInv, SequencesOK, AllCameIn, [TracedNext]_tracedVars,
         Grown(entered, entered', now, now')
  PROVE  AllCameIn'
<1>1. /\ offload_in \in Seq(Packets) /\ now \in Nat
      /\ \A i \in DOMAIN offload_in : offload_in[i] \in Packets
      BY DEF SequencesOK
<1>2. \A i \in DOMAIN offload_in : cameIn(entered', offload_in[i])
      BY <1>1, CameInKept DEF AllCameIn
<1>3. CASE offload_in' = offload_in
      BY <1>2, <1>3 DEF AllCameIn
<1>4. ASSUME NEW pkt \in LinkPackets, TracedReceive(pkt)
      PROVE  AllCameIn'
  <2>1. PICK p : p = delivered(set_arrival_port_id(pkt, 0), now)  OBVIOUS
  <2>2. /\ p.flow = pkt.flow /\ p.id = pkt.id /\ p.arrival_time = now
        /\ pkt.flow \in Flows
        BY <2>1 DEF LinkPackets, delivered, set_arrival_port_id
  <2>3. /\ pkt.id = Len(entered[pkt.flow])
        /\ entered' = [entered EXCEPT ![pkt.flow] = Append(@, now)]
        /\ offload_in' = Append(offload_in, p)
        BY <1>4, <2>1 DEF TracedReceive, Receive
  <2>4. cameIn(entered', p)
    <3>1. entered[pkt.flow] \in Seq(Nat) /\ entered'[pkt.flow] = Append(entered[pkt.flow], now)
          BY <2>2, <2>3 DEF TracedInv
    <3>2. PICK s : s = entered[pkt.flow]  OBVIOUS
    <3>3. Len(s) + 1 \in DOMAIN Append(s, now) /\ Append(s, now)[Len(s) + 1] = now
          BY <1>1, <3>1, <3>2
    <3>4. QED  BY <2>2, <2>3, <3>1, <3>2, <3>3 DEF cameIn
  <2>5. \A i \in DOMAIN offload_in' :
          offload_in'[i] = IF i \in DOMAIN offload_in THEN offload_in[i] ELSE p
    <3>2. p \in Packets
      <4>1. now \in Nat /\ 0 .. MaxHopCnt - 1 \subseteq 0 .. 255 /\ {0} \subseteq 0 .. 255
            BY <1>1, HopsAssumption
      <4>2. p \in ArrivingPackets
            BY <2>1 DEF LinkPackets, ArrivingPackets, delivered, set_arrival_port_id
      <4>3. p.hop_cnt \in 0 .. 255
            BY <4>1, <4>2 DEF ArrivingPackets
      <4>4. QED  BY <4>1, <4>2, <4>3 DEF ArrivingPackets, Packets
    <3>3. QED  BY <1>1, <2>3, <3>2, AppendItems
  <2>6. QED  BY <1>2, <2>4, <2>5 DEF AllCameIn
<1>5. CASE Dispatch /\ UNCHANGED entered
  <2>1. offload_in # <<>> /\ offload_in' = Tail(offload_in)
        BY <1>5 DEF Dispatch, OffloadHandlePkt
  <2>2. \A i \in DOMAIN offload_in' : \E j \in DOMAIN offload_in : offload_in'[i] = offload_in[j]
        BY <1>1, <2>1, SameItems
  <2>3. QED  BY <1>2, <2>2 DEF AllCameIn
<1>6. ASSUME Inside \/ TracedDepart \/ UNCHANGED tracedVars, ~Dispatch
      PROVE  offload_in' = offload_in
      BY <1>6 DEF Inside, TracedDepart, tracedVars, nodeVars, LearnOverload, OffloadHandleTrigger,
         Enqueue, Complete, OutputProcessed, OutputOffloaded, TakeOffloaded, OutputNext, Depart,
         NodeTick
<1>7. \/ \E pkt \in LinkPackets : TracedReceive(pkt)
      \/ (Inside \/ TracedDepart \/ UNCHANGED tracedVars) /\ UNCHANGED entered
      BY DEF TracedNext, TracedDepart, tracedVars
<1>8. CASE \E pkt \in LinkPackets : TracedReceive(pkt)
      BY <1>4, <1>8
<1>9. CASE (Inside \/ TracedDepart \/ UNCHANGED tracedVars) /\ UNCHANGED entered
      BY <1>3, <1>5, <1>6, <1>9
<1>10. QED  BY <1>7, <1>8, <1>9

\* The packets at the cores are those that were there, or one that Offload has
\* sent to the core that its tables say.
LEMMA CoresGain ==
  ASSUME NodeInv, NodeInv', SequencesOK, [NodeNext]_nodeVars,
         NEW c \in Cores, NEW p \in atCore(c)'
  PROVE  \/ \E r \in atCore(c) : p = r \/ p = set_processing_done(r)
         \/ \E i \in DOMAIN offload_in :
              /\ Dispatch
              /\ p = delivered(set_rx_queue(offload_in[i], c), now)
              /\ IF Enabled THEN c = updated(offload_in[i]).local_rx_queue
                            ELSE c = calc_rss_rx_queue(offload_in[i])
<1>1. CASE Enqueue \/ \E m \in Cores : Complete(m)
  <2>1. HandlePacket \/ \E m \in Cores : HandleProcDone(m)
        BY <1>1 DEF Enqueue, Complete
  <2>2. QED  BY <2>1, CoresKeepPackets
<1>2. CASE Dispatch
  <2>1. PICK pkt : pkt = Head(offload_in)  OBVIOUS
  <2>2. /\ offload_in # <<>> /\ handle_pkt(pkt)
        /\ UNCHANGED <<now, m_rss_reta, rx_queue, busy, msg_proc_done>>
        BY <1>2, <2>1 DEF Dispatch, OffloadHandlePkt, coreVars
  <2>3. pkt = offload_in[1] /\ 1 \in DOMAIN offload_in /\ pkt \in Packets
        BY <2>1, <2>2, TailItems DEF SequencesOK
  <2>4. calc_rss_rx_queue(pkt) \in Cores /\ updated(pkt).local_rx_queue \in Cores
        BY <2>3, EntryInTable, UpdatedEntry DEF NodeInv, OffloadInv
  <2>5. ASSUME NEW q \in Cores, out_proc' = Append(out_proc, delivered(set_rx_queue(pkt, q), now))
        PROVE  p \in atCore(c) \/ (c = q /\ p = delivered(set_rx_queue(pkt, c), now))
    <3>1. PICK s : s = delivered(set_rx_queue(pkt, q), now)  OBVIOUS
    <3>2. s \in Packets /\ s.rx_queue = q
          BY <2>3, <3>1 DEF SequencesOK, Packets, delivered, set_rx_queue
    <3>3. \A i \in DOMAIN out_proc' :
            out_proc'[i] = IF i \in DOMAIN out_proc THEN out_proc[i] ELSE s
          BY <2>5, <3>1, <3>2, AppendItems DEF SequencesOK
    <3>4. p \in atCore(c) \/ (c = q /\ p = s)
          BY <2>2, <3>2, <3>3 DEF atCore
    <3>5. QED  BY <3>1, <3>4
  <2>6. CASE ~Enabled /\ send_pkt_local(pkt, calc_rss_rx_queue(pkt))
        BY <1>2, <2>3, <2>4, <2>5, <2>6 DEF send_pkt_local
  <2>7. CASE Enabled /\ send_pkt_local(pkt, updated(pkt).local_rx_queue)
        BY <1>2, <2>3, <2>4, <2>5, <2>7 DEF send_pkt_local
  <2>8. CASE send_pkt_offload(pkt)
        BY <2>2, <2>8 DEF send_pkt_offload, atCore
  <2>9. QED  BY <2>2, <2>6, <2>7, <2>8 DEF handle_pkt
<1>3. CASE ~Dispatch /\ ~Enqueue /\ ~\E m \in Cores : Complete(m)
  <2>1. UNCHANGED <<out_proc, rx_queue, busy, msg_proc_done>>
        BY <1>3 DEF NodeNext, nodeVars, procVars, coreVars, Receive, LearnOverload,
           OffloadHandleTrigger, OutputProcessed, OutputOffloaded, TakeProcessed, TakeOffloaded,
           OutputNext, Depart, NodeTick
  <2>2. QED  BY <2>1 DEF atCore
<1>4. QED  BY <1>1, <1>2, <1>3

LEMMA AllAtHomeStep ==
  ASSUME NodeInv, NodeInv', BurstInv, SequencesOK, AllAtHome, AllCameIn, Homed, [NodeNext]_nodeVars,
         Grown(entered, entered', now, now')
  PROVE  AllAtHome'
<1>1. /\ m_rss_reta' = m_rss_reta
      /\ \A r : calc_rss_rx_queue(r)' = calc_rss_rx_queue(r)
  <2>1. m_rss_reta' = m_rss_reta
        BY DEF NodeNext, nodeVars, tableVars, Receive, Dispatch, OffloadHandlePkt, LearnOverload,
           OffloadHandleTrigger, Enqueue, Complete, OutputProcessed, OutputOffloaded, TakeOffloaded,
           OutputNext, Depart, NodeTick
  <2>2. QED  BY <2>1 DEF calc_rss_rx_queue, entry
<1> SUFFICES ASSUME NEW c \in Cores, NEW p \in atCore(c)'
             PROVE  /\ cameIn(entered', p)
                    /\ ~EnableBalanceCores => calc_rss_rx_queue(p) = c
    BY <1>1 DEF AllAtHome, atHome, cameIn
<1>2. CASE \E r \in atCore(c) : p = r \/ p = set_processing_done(r)
  <2>1. PICK r \in atCore(c) : p = r \/ p = set_processing_done(r)
        BY <1>2
  <2>2. r \in Packets  BY DEF BurstInv, AllAssigned, Assigned
  <2>3. /\ p \in Packets /\ p.flow = r.flow /\ p.id = r.id /\ p.arrival_time = r.arrival_time
        BY <2>1, <2>2 DEF Packets, set_processing_done
  <2>4. atHome(c, r)  BY DEF AllAtHome
  <2>5. cameIn(entered', p)
        BY <2>2, <2>3, <2>4, CameInKept DEF atHome
  <2>6. QED  BY <2>3, <2>4, <2>5 DEF atHome, calc_rss_rx_queue, entry
<1>3. ASSUME NEW i \in DOMAIN offload_in,
             Dispatch,
             p = delivered(set_rx_queue(offload_in[i], c), now),
             IF Enabled THEN c = updated(offload_in[i]).local_rx_queue
                        ELSE c = calc_rss_rx_queue(offload_in[i])
      PROVE  /\ cameIn(entered', p)
             /\ ~EnableBalanceCores => calc_rss_rx_queue(p) = c
  <2>1. PICK r : r = offload_in[i]  OBVIOUS
  <2>2. r \in Packets /\ r.arrival_time = now /\ cameIn(entered, r)
    <3>1. r \in Packets  BY <2>1 DEF SequencesOK
    <3>2. r \in ArrivingPackets  BY <2>1 DEF NodeInv, Arrivals
    <3>3. QED  BY <2>1, <3>1, <3>2 DEF ArrivingPackets, AllCameIn
  <2>3. p \in Packets /\ p.flow = r.flow /\ p.id = r.id /\ p.arrival_time = r.arrival_time
    <3>1. p = delivered(set_rx_queue(r, c), now)  BY <1>3, <2>1
    <3>2. now \in Nat  BY DEF SequencesOK
    <3>3. set_rx_queue(r, c) \in Packets  BY <2>2 DEF Packets, set_rx_queue
    <3>4. set_rx_queue(r, c).flow = r.flow /\ set_rx_queue(r, c).id = r.id
          BY <2>2 DEF Packets, set_rx_queue
    <3>5. \A s \in Packets : /\ delivered(s, now) \in Packets /\ delivered(s, now).flow = s.flow
                             /\ delivered(s, now).id = s.id
                             /\ delivered(s, now).arrival_time = now
          BY <3>2 DEF Packets, delivered
    <3>6. QED  BY <2>2, <3>1, <3>3, <3>4, <3>5
  <2>4. cameIn(entered', p)  BY <2>2, <2>3, CameInKept
  <2>5. ASSUME ~EnableBalanceCores
        PROVE  c = calc_rss_rx_queue(r)
    <3>1. CASE ~Enabled  BY <1>3, <2>1, <3>1
    <3>2. CASE Enabled
      <4>1. entry(r) \in Entries
            BY <2>2, EntryInTable DEF NodeInv, OffloadInv
      <4>2. c = updated(r).local_rx_queue  BY <1>3, <2>1, <3>2
      <4>3. updated(r).local_rx_queue = m_rss_reta[entry(r)]
            BY <2>5, <4>1 DEF Homed, updated, expired, local_rx_queue, calc_rss_rx_queue
      <4>4. QED  BY <4>2, <4>3 DEF calc_rss_rx_queue
    <3>3. QED  BY <3>1, <3>2
  <2>6. QED  BY <2>3, <2>4, <2>5 DEF calc_rss_rx_queue, entry
<1>4. QED  BY <1>2, <1>3, CoresGain

\* A core's queue in the order of the packets at the core.
LEMMA LineItems ==
  ASSUME SequencesOK, NEW c \in Cores, NEW j \in DOMAIN line(c)
  PROVE  \E p \in atCore(c) : line(c)[j] = summary(p)
<1>1. busy[c]  BY DEF line
<1>2. PICK h \in Packets : h = msg_proc_done[c].pkt  BY <1>1 DEF SequencesOK
<1>3. PICK s \in Seq(Packets) : s = rx_queue[c]  BY DEF SequencesOK
<1>4. PICK t : t = <<h>> \o s  OBVIOUS
<1>5. line(c) = brief(t)  BY <1>1, <1>2, <1>3, <1>4 DEF line, serving
<1>6. j \in DOMAIN t /\ line(c)[j] = summary(t[j])
      BY <1>5 DEF brief
<1>7. t[j] = h \/ \E i \in DOMAIN s : t[j] = s[i]
  <2>1. PICK n \in Nat : n = Len(s)  OBVIOUS
  <2>2. /\ DOMAIN t = 1 .. 1 + n /\ t[1] = h /\ DOMAIN s = 1 .. n
        /\ \A i \in 1 .. n : t[i + 1] = s[i]
        BY <1>4, <2>1
  <2>3. j = 1 \/ (j - 1 \in 1 .. n /\ (j - 1) + 1 = j)
        BY <1>6, <2>2
  <2>4. QED  BY <2>2, <2>3
<1>8. h \in atCore(c) /\ \A i \in DOMAIN s : s[i] \in atCore(c)
      BY <1>1, <1>2, <1>3 DEF atCore
<1>9. QED  BY <1>6, <1>7, <1>8

\* Only packets that have been in the node for longer than the timeout may be
\* passed by one that is processed on another core.
LEMMA CompletesLate ==
  ASSUME TracedInv, SequencesOK, BurstInv, TimesInv, NEW m \in Cores, Complete(m)
  PROVE  Free(Lines, Core(m), lateOnes(entered, now))
<1>1. PICK h : h = msg_proc_done[m].pkt  OBVIOUS
<1>2. /\ busy[m] /\ h \in Packets /\ h \in atCore(m) /\ msg_proc_done[m].at = now
      /\ rx_queue[m] \in Seq(Packets)
  <2>1. msg_proc_done[m] # NoMsg /\ msg_proc_done[m].at = now
        BY DEF Complete, HandleProcDone
  <2>2. busy[m]  BY <2>1 DEF TracedInv, NodeInv, CoreInv, CoreConsistent
  <2>3. QED  BY <1>1, <2>1, <2>2 DEF SequencesOK, atCore
<1>3. Head(Lines[Core(m)]) = summary(h)
  <2>1. serving(m) \in Seq(Packets) /\ serving(m) # <<>> /\ Head(serving(m)) = h
        BY <1>1, <1>2, InFront DEF serving
  <2>2. line(m) = brief(serving(m))  BY <1>2 DEF line
  <2>3. Head(line(m)) = summary(h)  BY <2>1, <2>2, BriefList
  <2>4. QED  BY <2>3, LinesAre, QueueOf
<1>4. now > h.arrival_time /\ h.arrival_time \in Nat /\ now \in Nat
      BY <1>1, <1>2 DEF TimesInv, Running, Packets, SequencesOK
<1>5. cameIn(entered, h) /\ (~EnableBalanceCores => calc_rss_rx_queue(h) = m)
      BY <1>2 DEF TimesInv, AllAtHome, atHome
<1>6. ASSUME NEW d \in Cores, d # m, NEW j \in DOMAIN line(d), passes(summary(h), line(d)[j])
      PROVE  key(line(d)[j]) \in lateOnes(entered, now)
  <2>1. PICK p \in atCore(d) : line(d)[j] = summary(p)  BY LineItems
  <2>2. p \in Packets  BY DEF BurstInv, AllAssigned, Assigned
  <2>3. p.flow = h.flow /\ p.id <= h.id
        BY <1>6, <2>1 DEF passes, summary
  <2>4. cameIn(entered, p) /\ (~EnableBalanceCores => calc_rss_rx_queue(p) = d)
        BY DEF TimesInv, AllAtHome, atHome
  <2>5. EnableBalanceCores
        BY <1>5, <1>6, <2>3, <2>4 DEF calc_rss_rx_queue, entry
  <2>6. /\ p.flow \in Flows /\ p.id \in Ids /\ p.id \in Nat /\ h.id \in Nat
        /\ p.arrival_time \in Nat /\ HashtableEntryTimeout \in Nat
        BY <1>2, <2>2, InputsAssumption, TimeoutAssumption DEF Packets
  <2>7. p.arrival_time <= h.arrival_time
    <3>1. /\ p.id + 1 \in DOMAIN entered[p.flow] /\ entered[p.flow][p.id + 1] = p.arrival_time
          /\ h.id + 1 \in DOMAIN entered[p.flow] /\ entered[p.flow][h.id + 1] = h.arrival_time
          BY <1>5, <2>3, <2>4 DEF cameIn
    <3>2. p.id + 1 <= h.id + 1  BY <2>3, <2>6
    <3>3. QED  BY <2>6, <3>1, <3>2 DEF TimesInv, Clocked
  <2>8. \/ p.arrival_time >= h.arrival_time + HashtableEntryTimeout
        \/ h.arrival_time >= p.arrival_time + HashtableEntryTimeout
    <3>1. entry(p) = entry(h)  BY <2>3 DEF entry
    <3>2. QED  BY <1>2, <1>6, <3>1 DEF BurstInv, BurstsStayTogether
  <2>9. now > p.arrival_time + HashtableEntryTimeout
        BY <1>4, <2>6, <2>7, <2>8
  <2>10. /\ p.id + 1 \in DOMAIN entered[p.flow]
         /\ now > entered[p.flow][p.id + 1] + HashtableEntryTimeout
         BY <2>4, <2>9 DEF cameIn
  <2>11. key(line(d)[j]) = <<p.flow, p.id>>  BY <2>1 DEF key, summary
  <2>12. <<p.flow, p.id>> \in Flows \X Ids
         /\ <<p.flow, p.id>>[1] = p.flow /\ <<p.flow, p.id>>[2] = p.id
         BY <2>6
  <2>13. QED  BY <2>5, <2>10, <2>11, <2>12 DEF lateOnes
<1>7. \A s \in Places : stage(s) = stage(Core(m)) /\ s # Core(m) =>
        \E d \in Cores : d # m /\ s = Core(d)
      BY Stages
<1>8. \A d \in Cores : Lines[Core(d)] = line(d)
      BY LinesAre, QueueOf
<1>9. QED  BY <1>3, <1>6, <1>7, <1>8 DEF Free

-----------------------------------------------------------------------------
(* The order of the node and of the Sink is kept.                          *)

LEMMA ReceiveOrder ==
  ASSUME TracedInv, SequencesOK, TableOrder, Grown(entered, entered', now, now'),
         NEW pkt \in LinkPackets, TracedReceive(pkt)
  PROVE  TableOrder'
<1> DEFINE Result == OrderOf(Lines', entered', now', m_reorder_check_table)
           x == summary(pkt)
<1>0. SUFFICES Result
  <2>1. m_reorder_check_table' = m_reorder_check_table  BY DEF TracedReceive
  <2>2. QED  BY <2>1 DEF TableOrder, OrderOf, InLine, ahead, passes, counts, key, Known, Collected,
             TableOK, TableKnown
<1>1. /\ Listed(Lines) /\ OrderOf(Lines, entered, now, m_reorder_check_table)
      BY LinesListed DEF TableOrder
<1>2. /\ pkt.id = Len(entered[pkt.flow]) /\ Receive(pkt)
      /\ entered' = [entered EXCEPT ![pkt.flow] = Append(@, now)]
      BY DEF TracedReceive
<1>3. exits' = exits  BY <1>2 DEF exits, Receive, outVars
<1>4. x \in HeldPackets /\ x.flow = pkt.flow /\ x.id = pkt.id /\ pkt.flow \in Flows
  <2>1. 0 \in 0 .. MaxHopCnt - 1  BY HopsAssumption
  <2>2. pkt.hop_cnt \in 0 .. MaxHopCnt - 1  BY <2>1 DEF LinkPackets
  <2>3. QED  BY <2>2 DEF LinkPackets, HeldPackets, summary
<1>5. Added(Lines, Lines', In, x)
  <2>1. Came(Queues, Queues', In, x)  BY <1>2, ReceiveStep
  <2>2. QED  BY <1>3, <2>1, LinesAre DEF Came, Added
<1>6. x.id + 1 \in DOMAIN entered'[x.flow]
  <2>1. entered[pkt.flow] \in Seq(Nat) /\ entered'[pkt.flow] = Append(entered[pkt.flow], now)
        BY <1>2, <1>4 DEF TracedInv
  <2>2. now \in Nat  BY DEF SequencesOK
  <2>3. Len(entered[pkt.flow]) + 1 \in DOMAIN entered'[pkt.flow]  BY <2>1, <2>2
  <2>4. QED  BY <1>2, <1>4, <2>3
<1> HIDE DEF x, Result
<1>7. QED  BY <1>1, <1>2, <1>4, <1>5, <1>6, LinesAre, OrderAdded DEF Result

\* The first packet on the link leaves the node.
LEMMA DepartDrops ==
  ASSUME TracedInv, SequencesOK, BufferInv', TracedDepart
  PROVE  /\ Dropped(Lines, Lines', Exit) /\ Lines[Exit][1] = leaving(Head(port_out).pkt)
         /\ 1 \in DOMAIN Lines[Exit]
<1>1. /\ port_out # <<>> /\ port_out' = Tail(port_out) /\ m_pkt_queue' = m_pkt_queue
      /\ UNCHANGED <<offload_in, out_proc, proc_out, offload_out, m_pkt_queue,
                     rx_queue, busy, msg_proc_done, entered>>
      BY DEF TracedDepart, Depart, LinkDelivers, procVars, coreVars
<1>2. Queues' = Queues  BY <1>1, OtherStep
<1>3. BufferInv  BY DEF TracedInv
<1>4. exits # <<>> /\ exits' = Tail(exits) /\ exits[1] = leaving(Head(port_out).pkt)
      BY <1>1, <1>3, ExitsDrop
<1>5. Dropped(Lines, Lines', Exit)
      BY <1>2, <1>4, LinesAre DEF Dropped
<1>6. 1 \in DOMAIN exits
  <2>1. Lines[Exit] \in Seq(HeldPackets \cup ExitItems)  BY LinesListed, LinesAre DEF Listed
  <2>2. QED  BY <1>4, <2>1, LinesAre, SequenceEnds
<1>7. QED  BY <1>4, <1>5, <1>6, LinesAre

\* What the Sink does with a processed packet.
LEMMA DepartChecked ==
  ASSUME TracedInv, SequencesOK, BufferInv', TableOrder, TracedDepart, Head(port_out).pkt.processing_done
  PROVE  CheckResult(m_reorder_check_table, m_reorder_check_table',
                     Lines[Exit][1].flow, Lines[Exit][1].id)
<1>1. PICK f, id : f = Lines[Exit][1].flow /\ id = Lines[Exit][1].id
      OBVIOUS
<1>2. f = Head(port_out).pkt.flow /\ id = Head(port_out).pkt.id
      BY <1>1, DepartDrops DEF leaving
<1>3. f \in Flows /\ id \in Nat
      BY <1>1, DepartDrops, LinesListed, LinesAre, ListedItems
<1>4. reorder_check(f, id)  BY <1>2 DEF TracedDepart
<1>5. CheckStep(m_reorder_check_table, m_reorder_check_table', f, id)
  <2>1. reorder_check_find(f) = found(m_reorder_check_table, f)
        BY DEF reorder_check_find, found
  <2>2. QED  BY <1>4, <2>1 DEF reorder_check, CheckStep
<1>6. TableOK(m_reorder_check_table)  BY DEF TableOrder, OrderOf
<1>7. PICK t, u : t = m_reorder_check_table /\ u = m_reorder_check_table'
      OBVIOUS
<1>8. CheckResult(t, u, f, id)
      BY <1>3, <1>5, <1>6, <1>7, ReorderChecked
<1>9. QED  BY <1>1, <1>7, <1>8

LEMMA DepartOrder ==
  ASSUME TracedInv, SequencesOK, BufferInv', TableOrder, Grown(entered, entered', now, now'),
         TracedDepart
  PROVE  TableOrder'
<1>0. SUFFICES OrderOf(Lines', entered', now', m_reorder_check_table')
      BY DEF TableOrder, OrderOf, InLine, ahead, passes, counts, key, Known, Collected,
             TableOK, TableKnown
<1>1. /\ Listed(Lines) /\ OrderOf(Lines, entered, now, m_reorder_check_table)
      BY LinesListed DEF TableOrder
<1>2. Dropped(Lines, Lines', Exit) /\ Lines[Exit][1] = leaving(Head(port_out).pkt)
      BY DepartDrops
<1>3. CASE Head(port_out).pkt.processing_done
  <2>1. Lines[Exit][1].done  BY <1>2, <1>3 DEF leaving
  <2>2. CheckResult(m_reorder_check_table, m_reorder_check_table',
                    Lines[Exit][1].flow, Lines[Exit][1].id)
        BY <1>3, DepartChecked
  <2>3. QED  BY <1>1, <1>2, <2>1, <2>2, OrderCollected
<1>4. CASE ~Head(port_out).pkt.processing_done
  <2>1. m_reorder_check_table' = m_reorder_check_table
        BY <1>4 DEF TracedDepart
  <2>2. OrderOf(Lines', entered', now', m_reorder_check_table)
        BY <1>1, <1>2, LinesAre, OrderDropped
  <2>3. QED  BY <2>1, <2>2
<1>5. QED  BY <1>3, <1>4

\* The inductive invariant: where the packets are, that bursts stay together,
\* when the packets came in, and their order up to the Sink.
OrderInv == TracedInv /\ BurstInv /\ TimesInv /\ TableOrder

LEMMA OrderStep ==
  ASSUME OrderInv, [TracedNext]_tracedVars
  PROVE  OrderInv' /\ SequencesOK /\ BufferInv'
<1>1. TracedInv /\ BurstInv /\ TimesInv /\ TableOrder /\ NodeInv
      BY DEF OrderInv, TracedInv
<1>2. TracedInv'  BY <1>1, TracedStep
<1>3. NodeInv' /\ BufferInv'  BY <1>2 DEF TracedInv
<1>4. SequencesOK /\ SequencesOK'
  <2>1. (NodeInv /\ BufferInv => SequencesOK)'  BY SequencesTyped, PTL
  <2>2. QED  BY <1>1, <1>3, <2>1, SequencesTyped DEF TracedInv
<1>5. [NodeNext]_nodeVars
      BY DEF TracedNext, TracedReceive, TracedDepart, Inside, NodeNext, tracedVars
<1>6. BurstInv'  BY <1>1, <1>3, <1>5, BurstStep
<1>7. Grown(entered, entered', now, now')
      BY <1>1, <1>4, EnteredGrows
<1>8. TimesInv'
  <2>1. AllAtHome /\ AllCameIn /\ Clocked /\ Running /\ Homed /\ Unmarked
        BY <1>1 DEF TimesInv
  <2>2. Clocked'  BY <1>1, <1>4, <2>1, ClockedStep
  <2>3. Running'  BY <1>1, <1>4, <1>5, <2>1, RunningStep
  <2>4. Homed'  BY <1>1, <1>5, <2>1, HomedStep
  <2>5. Unmarked'  BY <1>1, <1>4, <1>5, <2>1, UnmarkedStep
  <2>6. AllCameIn'  BY <1>1, <1>4, <1>7, <2>1, AllCameInStep
  <2>7. AllAtHome'  BY <1>1, <1>3, <1>4, <1>5, <1>7, <2>1, AllAtHomeStep
  <2>8. QED  BY <2>2, <2>3, <2>4, <2>5, <2>6, <2>7 DEF TimesInv
<1>9. TableOrder'
  <2>1. CASE \E pkt \in LinkPackets : TracedReceive(pkt)
        BY <1>1, <1>4, <1>7, <2>1, ReceiveOrder
  <2>2. CASE TracedDepart
        BY <1>1, <1>3, <1>4, <1>7, <2>2, DepartOrder
  <2>3. CASE Inside /\ UNCHANGED <<m_reorder_check_table, entered>>
    <3>1. \A m \in Cores : Complete(m) => Free(Lines, Core(m), lateOnes(entered, now))
          BY <1>1, <1>4, CompletesLate
    <3>2. Unmarked  BY <1>1 DEF TimesInv
    <3>3. QED  BY <1>1, <1>3, <1>4, <1>7, <2>3, <3>1, <3>2, InsideOrder
  <2>4. CASE UNCHANGED tracedVars
    <3>1. Queues' = Queues /\ exits' = exits
          BY <2>4, OtherStep DEF tracedVars, nodeVars, procVars, coreVars, outVars, exits
    <3>2. \A s \in Places : Lines'[s] = Lines[s]  BY <3>1, LinesAre
    <3>3. OrderOf(Lines', entered', now', m_reorder_check_table)
          BY <1>1, <1>7, <3>2, LinesListed, OrderSame DEF TableOrder
    <3>4. m_reorder_check_table' = m_reorder_check_table  BY <2>4 DEF tracedVars
    <3>5. QED  BY <3>3, <3>4 DEF TableOrder, OrderOf, InLine, ahead, passes, counts, key, Known,
               Collected, TableOK, TableKnown
  <2>5. QED  BY <2>1, <2>2, <2>3, <2>4 DEF TracedNext
<1>10. QED  BY <1>2, <1>3, <1>4, <1>6, <1>8, <1>9 DEF OrderInv

LEMMA OrderInit == TracedInit => OrderInv
<1> SUFFICES ASSUME TracedInit PROVE OrderInv
    OBVIOUS
<1>1. TracedInv  BY TracedInitInv
<1>2. /\ offload_in = <<>> /\ offload_out = <<>> /\ out_proc = <<>> /\ proc_out = <<>>
      /\ m_pkt_queue = <<>> /\ (\A c \in Cores : ~busy[c]) /\ port_out = <<>>
      /\ (\A c \in Cores : rx_queue[c] = <<>>)
      /\ \A k \in Entries : ~m_hashtable[k].valid
      BY DEF TracedInit, NodeInit, ProcInit, WiresInit, OffloadInit, OutInit
<1>3. entered = [f \in Flows |-> <<>>] /\ m_reorder_check_table = [b \in CheckBuckets |-> <<>>]
      BY DEF TracedInit, SinkInit
<1>4. \A c \in Cores : atCore(c) = {}
      BY <1>2 DEF atCore
<1>5. BurstInv
      BY <1>4 DEF BurstInv, AllAssigned, BurstsStayTogether
<1>6. TimesInv
  <2>1. AllAtHome  BY <1>4 DEF AllAtHome
  <2>2. AllCameIn  BY <1>2 DEF AllCameIn
  <2>3. Clocked  BY <1>3 DEF Clocked
  <2>4. Running  BY <1>2 DEF Running
  <2>5. Homed  BY <1>2 DEF Homed
  <2>6. Unmarked  BY <1>2 DEF Unmarked
  <2>7. QED  BY <2>1, <2>2, <2>3, <2>4, <2>5, <2>6 DEF TimesInv
<1>7. TableOrder
  <2>1. \A q \in Places : Lines[q] = <<>>
    <3>1. brief(<<>>) = <<>>  BY DEF brief
    <3>2. \A c \in Cores : line(c) = <<>>  BY <1>2 DEF line
    <3>3. \A q \in QueueIds : Queues[q] = <<>>
          BY <1>2, <3>1, <3>2, QueueOf, OtherQueues
    <3>4. exits = <<>>
      <4>1. DOMAIN exits = {}  BY <1>2 DEF exits
      <4>2. exits \in Seq(ExitItems)
        <5>1. port_out \in Seq(LinkMsgs) /\ m_pkt_queue \in Seq(Packets)
              BY <1>1 DEF TracedInv, BufferInv, OutTypeOK
        <5>2. PICK m \in Nat, n \in Nat : m = Len(port_out) /\ n = Len(m_pkt_queue)
              BY <5>1
        <5>3. QED  BY <5>1, <5>2, ExitsAre
      <4>3. QED  BY <4>1, <4>2
    <3>5. QED  BY <3>3, <3>4, LinesAre
  <2>2. \A f \in Flows : found(m_reorder_check_table, f) = {}
        BY <1>3 DEF found, CheckBuckets
  <2>3. TableOK(m_reorder_check_table)  BY <1>3 DEF TableOK
  <2>4. \A q \in Places : DOMAIN Lines[q] = {}  BY <2>1
  <2>5. QED  BY <2>2, <2>3, <2>4 DEF TableOrder, OrderOf, InLine, Known, Collected, TableKnown
<1>8. QED  BY <1>1, <1>5, <1>6, <1>7 DEF OrderInv

LEMMA CountsOnce ==
  ASSUME NEW t, TableOK(t), NEW f \in Flows, NEW n, NEW m, Counts(t, f, n), Counts(t, f, m)
  PROVE  n = m
BY FoundOne DEF Counts

\* The packet that makes the Sink count is behind one of its flow that the Sink
\* has seen.
LEMMA CountedLate ==
  ASSUME OrderInv, SequencesOK, BufferInv', [TracedNext]_tracedVars,
         NEW f \in Flows, n_reordered(f)' # n_reordered(f)
  PROVE  /\ EnableBalanceCores
         /\ now > entered[f][Head(port_out).pkt.id + 1] + HashtableEntryTimeout
<1>1. TracedInv /\ TableOrder /\ TableOK(m_reorder_check_table)
      BY DEF OrderInv, TableOrder, OrderOf
<1>2. PICK t, u : t = m_reorder_check_table /\ u = m_reorder_check_table'
      OBVIOUS
<1>3. PICK n, m : n = n_reordered(f) /\ m = n_reordered(f)'
      OBVIOUS
<1>4. Counts(t, f, n) /\ Counts(u, f, m) /\ n # m /\ TableOK(t)
  <2>1. Counted'  BY CountedAlways, PTL
  <2>2. QED  BY <1>1, <1>2, <1>3, <2>1, CountedAlways DEF Counted
<1>5. t # u  BY <1>4, CountsOnce
<1>6. TracedDepart /\ Head(port_out).pkt.processing_done
      BY <1>2, <1>5 DEF TracedNext, TracedReceive, TracedDepart, tracedVars
<1>7. PICK x : x = Lines[Exit][1]  OBVIOUS
<1>8. /\ x = leaving(Head(port_out).pkt) /\ 1 \in DOMAIN Lines[Exit]
      BY <1>1, <1>6, <1>7, DepartDrops
<1>9. CheckResult(t, u, x.flow, x.id)
      BY <1>1, <1>2, <1>6, <1>7, DepartChecked
<1>10. x.flow = f /\ \E k \in found(t, f) : expected(t, f, k) > x.id
       BY <1>4, <1>9 DEF CheckResult
<1>11. counts(Exit, x)  BY <1>6, <1>8 DEF counts, leaving
<1>12. key(x) \in lateOnes(entered, now)
       BY <1>1, <1>2, <1>7, <1>8, <1>10, <1>11, LinesAre DEF TableOrder, OrderOf, Collected
<1>13. key(x)[1] = f /\ key(x)[2] = Head(port_out).pkt.id
       BY <1>8, <1>10 DEF key, leaving
<1>14. QED  BY <1>12, <1>13 DEF lateOnes

\* For every hash function, table size, timeout, load and order of events, the
\* Sink reports a packet as reordered only if the node balances its cores and
\* the packet was in the node for longer than the timeout of the hash table.
THEOREM LateReorderingOnly == TracedSpec => ReorderedOnlyIfLate
<1> DEFINE Late ==
      \A f \in Flows :
        n_reordered(f)' # n_reordered(f) =>
          /\ EnableBalanceCores
          /\ now > entered[f][Head(port_out).pkt.id + 1] + HashtableEntryTimeout
<1>1. OrderInv /\ [TracedNext]_tracedVars => OrderInv'
      BY OrderStep
<1>2. OrderInv /\ [TracedNext]_tracedVars => [Late]_tracedVars
      BY OrderStep, CountedLate
<1>3. QED  BY <1>1, <1>2, OrderInit, PTL DEF TracedSpec, ReorderedOnlyIfLate

=============================================================================
