---------------------------- MODULE AssignProofs ----------------------------
(***************************************************************************)
(* Proofs about AssignActions, for every trace, every list of actions and  *)
(* every error margin.                                                     *)
(***************************************************************************)
EXTENDS AssignActions, SumProofs

-----------------------------------------------------------------------------
\* The fold over the packets of a trace.

\* The positions of a sequence, and parts of them.
LEMMA PositionsFinite ==
  ASSUME NEW n \in Nat
  PROVE  IsFiniteSet(1 .. n) /\ \A T \in SUBSET (1 .. n) : IsFiniteSet(T)
<1>1. IsFiniteSet(1 .. n)  BY FS_Interval
<1>2. QED  BY <1>1, FS_Subset

\* A non-empty part of the positions of a sequence has a last one.
LEMMA LastPosition ==
  ASSUME NEW n \in Nat, NEW T \in SUBSET (1 .. n), T # {}
  PROVE  Max(T) \in T /\ \A y \in T : y <= Max(T)
<1> DEFINE f == [x \in 1 .. n |-> x]
<1>1. IsFiniteSet(T)  BY PositionsFinite
<1>2. \A x \in T : f[x] = x /\ f[x] \in Int  OBVIOUS
<1> HIDE DEF f
<1>3. \E x \in T : \A y \in T : f[y] <= f[x]  BY <1>1, <1>2, Greatest
<1>4. \E x \in T : \A y \in T : x >= y  BY <1>2, <1>3
<1>5. QED  BY <1>4 DEF Max

\* g maps each part of A to the flow map after the packets at its positions.
Folded(g, base, s, A) ==
  g = [T \in SUBSET A |->
         IF T = {} THEN base ELSE counted(g[T \ {Max(T)}], s[Max(T)])]

fold(base, s) == FoldLeft(counted, base, s)

LEMMA FoldDef ==
  ASSUME NEW base, NEW s
  PROVE  fold(base, s) = (CHOOSE g : Folded(g, base, s, DOMAIN s))[DOMAIN s]
BY DEF fold, FoldLeft, MapThenFoldSet, Folded

\* Two such functions agree on the parts both are defined for.
LEMMA FoldedUnique ==
  ASSUME NEW base, NEW s, NEW n \in Nat, NEW A, NEW g, Folded(g, base, s, A),
         NEW B, NEW h, Folded(h, base, s, B),
         NEW S \in SUBSET (1 .. n), S \subseteq A, S \subseteq B
  PROVE  g[S] = h[S]
<1> DEFINE F == {T \in SUBSET S : g[T] = h[T]}
<1>1. ASSUME NEW T \in SUBSET S, \A x \in T : T \ {x} \in F
      PROVE  T \in F
  <2>1. CASE T = {}
        BY <2>1 DEF Folded
  <2>2. CASE T # {}
    <3>1. Max(T) \in T  BY <2>2, LastPosition
    <3>2. g[T \ {Max(T)}] = h[T \ {Max(T)}]  BY <3>1, <1>1
    <3>3. /\ g[T] = counted(g[T \ {Max(T)}], s[Max(T)])
          /\ h[T] = counted(h[T \ {Max(T)}], s[Max(T)])
          BY <2>2 DEF Folded
    <3>4. QED  BY <3>2, <3>3
  <2>3. QED  BY <2>1, <2>2
<1> HIDE DEF F
<1>2. IsFiniteSet(S)  BY PositionsFinite
<1>3. \A T \in SUBSET S : T \in F  BY <1>1, <1>2, SubsetInduction
<1>4. QED  BY <1>3 DEF F

\* There is such a function.
LEMMA FoldedExists ==
  ASSUME NEW base, NEW s, NEW n \in Nat
  PROVE  \E g : Folded(g, base, s, 1 .. n)
<1> DEFINE F == {T \in SUBSET (1 .. n) : \E g : Folded(g, base, s, T)}
<1>1. ASSUME NEW T \in SUBSET (1 .. n), \A x \in T : T \ {x} \in F
      PROVE  T \in F
  <2>1. CASE T = {}
    <3> DEFINE g == [U \in SUBSET T |-> base]
    <3>1. Folded(g, base, s, T)
      <4>1. \A U \in SUBSET T : U = {}  BY <2>1
      <4>2. QED  BY <4>1 DEF Folded
    <3>2. QED  BY <3>1
  <2>2. CASE T # {}
    <3> DEFINE G(x) == CHOOSE g : Folded(g, base, s, T \ {x})
               out(U) == CHOOSE x \in T : x \notin U
               rest(U) == U \ {Max(U)}
               below(U) == G(out(U))[U]
               g == [U \in SUBSET T |->
                      IF U = T THEN counted(below(rest(U)), s[Max(U)]) ELSE below(U)]
    <3>1. \A x \in T : Folded(G(x), base, s, T \ {x})
          BY <1>1
    <3> HIDE DEF G
    <3>2. \A U \in SUBSET T : U # T => out(U) \in T /\ out(U) \notin U
          OBVIOUS
    <3>3. ASSUME NEW U \in SUBSET T, U # T
          PROVE  below(U) = IF U = {} THEN base ELSE counted(below(rest(U)), s[Max(U)])
      <4> DEFINE x == out(U)
                 y == out(rest(U))
      <4>1. x \in T /\ U \in SUBSET (T \ {x})  BY <3>2, <3>3
      <4> HIDE DEF x
      <4>2. G(x)[U] = IF U = {} THEN base ELSE counted(G(x)[rest(U)], s[Max(U)])
            BY <3>1, <4>1 DEF Folded
      <4>3. rest(U) \in SUBSET T /\ rest(U) # T  BY <3>3
      <4>4. y \in T /\ rest(U) \subseteq T \ {y}  BY <3>2, <4>3
      <4>5. rest(U) \in SUBSET (1 .. n) /\ rest(U) \subseteq T \ {x}  BY <4>1, <4>3
      <4> HIDE DEF y
      <4>6. G(x)[rest(U)] = G(y)[rest(U)]
        <5>1. Folded(G(x), base, s, T \ {x}) /\ Folded(G(y), base, s, T \ {y})
              BY <3>1, <4>1, <4>4
        <5> HIDE DEF rest
        <5>2. QED  BY <4>4, <4>5, <5>1, FoldedUnique
      <4>7. QED  BY <4>2, <4>6 DEF x, y
    <3>4. \A U \in SUBSET T :
            g[U] = IF U = {} THEN base ELSE counted(g[rest(U)], s[Max(U)])
      <4> TAKE U \in SUBSET T
      <4>1. rest(U) \in SUBSET T /\ (U # {} => rest(U) # T)
        <5>1. U # {} => Max(U) \in U  BY LastPosition
        <5>2. QED  BY <5>1
      <4> HIDE DEF rest, below
      <4>2. CASE U = T  BY <2>2, <4>1, <4>2
      <4>3. CASE U # T  BY <3>3, <4>1, <4>3
      <4>4. QED  BY <4>2, <4>3
    <3>5. Folded(g, base, s, T)
      <4> HIDE DEF below
      <4>1. g = [U \in SUBSET T |-> g[U]]  OBVIOUS
      <4> HIDE DEF g
      <4>2. QED  BY <3>4, <4>1 DEF Folded
    <3>6. QED  BY <3>5
  <2>3. QED  BY <2>1, <2>2
<1> HIDE DEF F
<1>2. IsFiniteSet(1 .. n)  BY FS_Interval
<1>3. \A T \in SUBSET (1 .. n) : T \in F  BY <1>1, <1>2, SubsetInduction
<1>4. 1 .. n \in F  BY <1>3
<1>5. QED  BY <1>4 DEF F

\* The flow map grows by one packet after the other.
Grows(up, base, s, n) ==
  /\ up[0] = base /\ up[n] = fold(base, s)
  /\ \A i \in 1 .. n : up[i] = counted(up[i - 1], s[i])

LEMMA FoldSteps ==
  ASSUME NEW base, NEW s, NEW n \in Nat, DOMAIN s = 1 .. n
  PROVE  \E up : Grows(up, base, s, n)
<1> DEFINE g == CHOOSE h : Folded(h, base, s, 1 .. n)
           up == [i \in 0 .. n |-> g[1 .. i]]
<1>1. Folded(g, base, s, 1 .. n)  BY FoldedExists
<1>2. fold(base, s) = g[1 .. n]  BY FoldDef
<1> HIDE DEF g
<1>3. up[n] = fold(base, s)  BY <1>2
<1>4. up[0] = base
  <2>1. 1 .. 0 = {}  OBVIOUS
  <2>2. g[{}] = base  BY <1>1 DEF Folded
  <2>3. QED  BY <2>1, <2>2
<1>5. ASSUME NEW i \in 1 .. n
      PROVE  up[i] = counted(up[i - 1], s[i])
  <2>1. 1 .. i \in SUBSET (1 .. n) /\ 1 .. i # {}  OBVIOUS
  <2>2. Max(1 .. i) = i
    <3>1. Max(1 .. i) \in 1 .. i /\ \A y \in 1 .. i : y <= Max(1 .. i)
          BY <2>1, LastPosition
    <3>2. QED  BY <3>1
  <2>3. (1 .. i) \ {i} = 1 .. i - 1  OBVIOUS
  <2>4. g[1 .. i] = counted(g[(1 .. i) \ {Max(1 .. i)}], s[Max(1 .. i)])
        BY <1>1, <2>1 DEF Folded
  <2>5. up[i] = g[1 .. i] /\ up[i - 1] = g[1 .. i - 1]  OBVIOUS
  <2>6. QED  BY <2>2, <2>3, <2>4, <2>5
<1> HIDE DEF up
<1>6. Grows(up, base, s, n)  BY <1>3, <1>4, <1>5 DEF Grows
<1>7. QED  BY <1>6

FlowData == [nPkts : Nat, nBytes : Nat, nBytesPayload : Nat]

\* What one packet adds.
LEMMA PacketCounted ==
  ASSUME NEW K, NEW d \in [K -> FlowData], NEW pkt \in PacketKinds, pkt.key \in K
  PROVE  /\ counted(d, pkt) \in [K -> FlowData]
         /\ \A k \in K \ {pkt.key} : counted(d, pkt)[k] = d[k]
         /\ counted(d, pkt)[pkt.key].nPkts = d[pkt.key].nPkts + 1
         /\ counted(d, pkt)[pkt.key].nBytes = d[pkt.key].nBytes + pkt.len
         /\ counted(d, pkt)[pkt.key].nBytesPayload = d[pkt.key].nBytesPayload + pkt.payload
         /\ pkt.len \in Nat \ {0} /\ pkt.payload \in Nat
<1>1. pkt.len \in Nat \ {0} /\ pkt.payload \in Nat  BY PacketsAssumption
<1> DEFINE old == d[pkt.key]
           new == [nPkts |-> old.nPkts + 1, nBytes |-> old.nBytes + pkt.len,
                   nBytesPayload |-> old.nBytesPayload + pkt.payload]
<1>2. old \in FlowData  OBVIOUS
<1>3. new \in FlowData
  <2> HIDE DEF old
  <2>1. old.nPkts \in Nat /\ old.nBytes \in Nat /\ old.nBytesPayload \in Nat
        BY <1>2 DEF FlowData
  <2>2. QED  BY <1>1, <2>1 DEF FlowData
<1>4. counted(d, pkt) = [d EXCEPT ![pkt.key] = new]  BY DEF counted
<1>5. /\ new.nPkts = old.nPkts + 1 /\ new.nBytes = old.nBytes + pkt.len
      /\ new.nBytesPayload = old.nBytesPayload + pkt.payload
      OBVIOUS
<1> HIDE DEF new, FlowData
<1>6. QED  BY <1>1, <1>3, <1>4, <1>5

\* The flow map has an entry for each key of the trace, and each has bytes.
LEMMA FlowMapTyped ==
  ASSUME NEW pkts \in Seq(PacketKinds)
  PROVE  /\ flow_map(pkts) \in [keys_of(pkts) -> FlowData]
         /\ \A k \in keys_of(pkts) : flow_map(pkts)[k].nBytes > 0
<1> DEFINE K == keys_of(pkts)
           n == Len(pkts)
           base == [k \in K |-> NoFlow]
<1>1. /\ n \in Nat /\ DOMAIN pkts = 1 .. n
      /\ \A i \in 1 .. n : pkts[i] \in PacketKinds /\ pkts[i].key \in K
      BY DEF keys_of
<1>2. base \in [K -> FlowData]  BY DEF NoFlow, FlowData
<1>3. flow_map(pkts) = fold(base, pkts)  BY DEF flow_map, fold
<1> HIDE DEF base
<1>4. PICK up : /\ up[0] = base /\ up[n] = fold(base, pkts)
                /\ \A i \in 1 .. n : up[i] = counted(up[i - 1], pkts[i])
  <2> HIDE DEF n
  <2>1. n \in Nat /\ DOMAIN pkts = 1 .. n  BY <1>1
  <2>2. \E up : Grows(up, base, pkts, n)  BY <2>1, FoldSteps
  <2>3. QED  BY <2>2 DEF Grows
<1> DEFINE good(i) == /\ up[i] \in [K -> FlowData]
                      /\ \A j \in 1 .. i : up[i][pkts[j].key].nBytes > 0
           F == {i \in Nat : i <= n => good(i)}
<1>5. 0 \in F  BY <1>2, <1>4
<1>6. ASSUME NEW i \in Nat, i \in F PROVE i + 1 \in F
  <2>1. SUFFICES ASSUME i + 1 <= n PROVE good(i + 1)
        OBVIOUS
  <2> DEFINE pkt == pkts[i + 1]
  <2>2. i <= n /\ i + 1 \in 1 .. n /\ (i + 1) - 1 = i  BY <1>1, <2>1
  <2>3. good(i)  BY <1>6, <2>2
  <2>4. pkt \in PacketKinds /\ pkt.key \in K /\ up[i + 1] = counted(up[i], pkt)
        BY <1>1, <1>4, <2>2
  <2> HIDE DEF K, pkt
  <2>5. /\ up[i + 1] \in [K -> FlowData]
        /\ \A k \in K \ {pkt.key} : up[i + 1][k] = up[i][k]
        /\ up[i + 1][pkt.key].nBytes = up[i][pkt.key].nBytes + pkt.len
        /\ pkt.len \in Nat \ {0}
        BY <2>3, <2>4, PacketCounted
  <2>6. up[i][pkt.key].nBytes \in Nat
    <3>1. up[i][pkt.key] \in FlowData  BY <2>3, <2>4
    <3>2. QED  BY <3>1 DEF FlowData
  <2>7. up[i + 1][pkt.key].nBytes > 0  BY <2>5, <2>6
  <2>8. ASSUME NEW j \in 1 .. i + 1 PROVE up[i + 1][pkts[j].key].nBytes > 0
    <3>1. CASE pkts[j].key = pkt.key  BY <2>7, <3>1
    <3>2. CASE pkts[j].key # pkt.key
      <4>1. j # i + 1  BY <3>2 DEF pkt
      <4>2. j \in 1 .. i /\ j \in 1 .. n  BY <2>2, <4>1
      <4>3. up[i][pkts[j].key].nBytes > 0 /\ pkts[j].key \in K \ {pkt.key}
            BY <1>1, <2>3, <3>2, <4>2
      <4>4. QED  BY <2>5, <4>3
    <3>3. QED  BY <3>1, <3>2
  <2>9. QED  BY <2>5, <2>8
<1> HIDE DEF F
<1>7. \A i \in Nat : i \in F  BY <1>5, <1>6, NumberInduction
<1>8. good(n)
  <2>1. n \in F  BY <1>1, <1>7
  <2>2. QED  BY <1>1, <2>1 DEF F
<1>9. \A k \in K : \E j \in 1 .. n : k = pkts[j].key  BY <1>1 DEF keys_of
<1>10. QED  BY <1>3, <1>4, <1>8, <1>9

LEMMA KeysFinite ==
  ASSUME NEW pkts \in Seq(PacketKinds)
  PROVE  IsFiniteSet(keys_of(pkts))
<1> DEFINE n == Len(pkts)
           g == [i \in 1 .. n |-> pkts[i].key]
<1>1. n \in Nat /\ DOMAIN pkts = 1 .. n  OBVIOUS
<1>2. g \in Surjection(1 .. n, keys_of(pkts))  BY <1>1 DEF keys_of, Surjection
<1>3. IsFiniteSet(1 .. n)  BY <1>1, PositionsFinite
<1> HIDE DEF g, n
<1>4. QED  BY <1>2, <1>3, FS_Surjection

\* Every packet costs b and w for each byte of its payload, both given by its
\* key; and so do the packets of every flow together.
PacketCosts(pkts, b, w, cost) ==
  \A i \in DOMAIN pkts : cost[i] = b[pkts[i].key] + pkts[i].payload * w[pkts[i].key]

FlowCosts(pkts, b, w, total) ==
  \A k \in keys_of(pkts) :
    total[k] = flow_map(pkts)[k].nPkts * b[k] + flow_map(pkts)[k].nBytesPayload * w[k]

\* The costs of the packets add up to those of the flows.
LEMMA CostsAgree ==
  ASSUME NEW pkts \in Seq(PacketKinds),
         NEW b \in [keys_of(pkts) -> Nat], NEW w \in [keys_of(pkts) -> Nat],
         NEW cost, PacketCosts(pkts, b, w, cost),
         NEW total, FlowCosts(pkts, b, w, total)
  PROVE  SumFunctionOnSet(cost, DOMAIN pkts) = SumFunctionOnSet(total, keys_of(pkts))
<1>0. /\ \A i \in DOMAIN pkts : cost[i] = b[pkts[i].key] + pkts[i].payload * w[pkts[i].key]
      /\ \A k \in keys_of(pkts) :
           total[k] = flow_map(pkts)[k].nPkts * b[k] + flow_map(pkts)[k].nBytesPayload * w[k]
      BY DEF PacketCosts, FlowCosts
<1> DEFINE K == keys_of(pkts)
           n == Len(pkts)
           base == [k \in K |-> NoFlow]
<1>1. /\ n \in Nat /\ DOMAIN pkts = 1 .. n
      /\ \A i \in 1 .. n : pkts[i] \in PacketKinds /\ pkts[i].key \in K
      BY DEF keys_of
<1>2. base \in [K -> FlowData]  BY DEF NoFlow, FlowData
<1>3. flow_map(pkts) = fold(base, pkts)  BY DEF flow_map, fold
<1>4. \A k \in K : base[k].nPkts = 0 /\ base[k].nBytesPayload = 0  BY DEF NoFlow
<1>5. IsFiniteSet(K)  BY KeysFinite
<1>6. \A k \in K : b[k] \in Nat /\ w[k] \in Nat  OBVIOUS
<1> HIDE DEF base
<1>7. PICK up : /\ up[0] = base /\ up[n] = fold(base, pkts)
                /\ \A i \in 1 .. n : up[i] = counted(up[i - 1], pkts[i])
  <2> HIDE DEF n
  <2>1. n \in Nat /\ DOMAIN pkts = 1 .. n  BY <1>1
  <2>2. \E up : Grows(up, base, pkts, n)  BY <2>1, FoldSteps
  <2>3. QED  BY <2>2 DEF Grows
<1> DEFINE tot(i) == [k \in K |-> up[i][k].nPkts * b[k] + up[i][k].nBytesPayload * w[k]]
           good(i) == /\ up[i] \in [K -> FlowData]
                      /\ SumFunctionOnSet(cost, 1 .. i) = SumFunctionOnSet(tot(i), K)
           F == {i \in Nat : i <= n => good(i)}
<1>8. ASSUME NEW i \in Nat, up[i] \in [K -> FlowData]
      PROVE  \A k \in K : tot(i)[k] \in Int
  <2> TAKE k \in K
  <2> DEFINE x == up[i][k].nPkts
             y == up[i][k].nBytesPayload
             u == b[k]
             v == w[k]
  <2>1. x \in Nat /\ y \in Nat /\ u \in Nat /\ v \in Nat
    <3>1. up[i][k] \in FlowData  BY <1>8
    <3>2. QED  BY <1>6, <3>1 DEF FlowData
  <2>2. tot(i)[k] = x * u + y * v  OBVIOUS
  <2> HIDE DEF x, y, u, v, tot
  <2>3. x * u \in Int /\ y * v \in Int  BY <2>1
  <2>4. QED  BY <2>2, <2>3
<1>9. 0 \in F
  <2>1. \A k \in K : tot(0)[k] = [x \in K |-> 0][k]
    <3> TAKE k \in K
    <3>1. up[0][k].nPkts = 0 /\ up[0][k].nBytesPayload = 0  BY <1>4, <1>7
    <3>2. 0 * b[k] + 0 * w[k] = 0  BY <1>6
    <3>3. QED  BY <3>1, <3>2
  <2> DEFINE t == tot(0)
             z == [x \in K |-> 0]
  <2>2. \A k \in K : t[k] = z[k]  BY <2>1
  <2> HIDE DEF t, z, K
  <2>3. SumFunctionOnSet(t, K) = SumFunctionOnSet(z, K)  BY <1>5, <2>2, SumEqual
  <2>4. SumFunctionOnSet(z, K) = 0  BY <1>5, SumZero DEF z
  <2>5. SumFunctionOnSet(cost, 1 .. 0) = 0
    <3>1. 1 .. 0 = {}  OBVIOUS
    <3>2. QED  BY <3>1, SumEmpty
  <2>6. QED  BY <1>2, <1>7, <2>3, <2>4, <2>5 DEF t
<1>10. ASSUME NEW i \in Nat, i \in F PROVE i + 1 \in F
  <2>1. SUFFICES ASSUME i + 1 <= n PROVE good(i + 1)
        OBVIOUS
  <2> DEFINE pkt == pkts[i + 1]
             key == pkt.key
             old == tot(i)
             new == tot(i + 1)
  <2>2. i <= n /\ i + 1 \in 1 .. n /\ (i + 1) - 1 = i  BY <1>1, <2>1
  <2>3. good(i)  BY <1>10, <2>2
  <2>4. pkt \in PacketKinds /\ key \in K /\ up[i + 1] = counted(up[i], pkt)
        BY <1>1, <1>7, <2>2
  <2>5. /\ up[i + 1] \in [K -> FlowData]
        /\ \A k \in K \ {key} : up[i + 1][k] = up[i][k]
        /\ up[i + 1][key].nPkts = up[i][key].nPkts + 1
        /\ up[i + 1][key].nBytesPayload = up[i][key].nBytesPayload + pkt.payload
        /\ pkt.payload \in Nat
    <3> DEFINE d == up[i]
               e == up[i + 1]
    <3>1. d \in [K -> FlowData] /\ pkt \in PacketKinds /\ pkt.key \in K /\ e = counted(d, pkt)
          BY <2>3, <2>4
    <3> HIDE DEF K, pkt, d, e, old, new, tot
    <3>2. /\ e \in [K -> FlowData]
          /\ \A k \in K \ {pkt.key} : e[k] = d[k]
          /\ e[pkt.key].nPkts = d[pkt.key].nPkts + 1
          /\ e[pkt.key].nBytesPayload = d[pkt.key].nBytesPayload + pkt.payload
          /\ pkt.payload \in Nat
          BY ONLY <3>1, PacketCounted
    <3>3. QED  BY <3>2 DEF d, e
  <2>6. cost[i + 1] = b[key] + pkt.payload * w[key]  BY <1>0, <1>1, <2>2
  <2>7. old[key] + cost[i + 1] = new[key] /\ cost[i + 1] \in Int
    <3> DEFINE x == up[i][key].nPkts
               y == up[i][key].nBytesPayload
               l == pkt.payload
               u == b[key]
               v == w[key]
    <3>1. x \in Nat /\ y \in Nat /\ u \in Nat /\ v \in Nat /\ l \in Nat
      <4>1. up[i][key] \in FlowData  BY <2>3, <2>4
      <4>2. QED  BY <1>6, <2>4, <2>5, <4>1 DEF FlowData
    <3>2. /\ old[key] = x * u + y * v /\ cost[i + 1] = u + l * v
          /\ new[key] = (x + 1) * u + (y + l) * v
          BY <2>4, <2>5, <2>6
    <3> HIDE DEF x, y, l, u, v, old, new, pkt, key
    <3>3. (x + 1) * u + (y + l) * v = (x * u + y * v) + (u + l * v) /\ u + l * v \in Int
          BY <3>1
    <3>4. QED  BY <3>2, <3>3
  <2>8. \A k \in K \ {key} : old[k] = new[k]  BY <2>5
  <2>9. \A k \in K : old[k] \in Int /\ new[k] \in Int
    <3>1. i + 1 \in Nat  OBVIOUS
    <3> HIDE DEF tot
    <3>2. \A k \in K : tot(i)[k] \in Int  BY <1>8, <2>3
    <3>3. \A k \in K : tot(i + 1)[k] \in Int  BY <1>8, <2>5, <3>1
    <3>4. QED  BY <3>2, <3>3
  <2> DEFINE sOld == SumFunctionOnSet(old, K)
             sNew == SumFunctionOnSet(new, K)
             cOld == SumFunctionOnSet(cost, 1 .. i)
             cNew == SumFunctionOnSet(cost, 1 .. i + 1)
  <2>10. sNew = sOld - old[key] + new[key] /\ sOld \in Int
    <3> HIDE DEF K, old, new, key
    <3>1. \A k \in K : old[k] \in Int  BY <2>9
    <3>2. sOld \in Int  BY <1>5, <3>1, SumInt
    <3>3. key \in K /\ IsFiniteSet(K) /\ \A k \in K : old[k] \in Int /\ new[k] \in Int
          BY <1>5, <2>4, <2>9
    <3>4. \A k \in K \ {key} : old[k] = new[k]  BY <2>8
    <3> HIDE DEF tot, sOld, sNew
    <3>5. SumFunctionOnSet(new, K) = SumFunctionOnSet(old, K) - old[key] + new[key]
          BY <3>3, <3>4, SumChange
    <3>6. QED  BY <3>2, <3>5 DEF sOld, sNew
  <2>11. cNew = cost[i + 1] + cOld
    <3>1. 1 .. i + 1 = (1 .. i) \cup {i + 1} /\ i + 1 \notin 1 .. i  OBVIOUS
    <3>2. IsFiniteSet(1 .. i)  BY PositionsFinite
    <3>3. \A j \in (1 .. i) \cup {i + 1} : cost[j] \in Int
      <4> SUFFICES ASSUME NEW j \in 1 .. n PROVE cost[j] \in Int
          BY <1>1, <2>2
      <4> DEFINE l == pkts[j].payload
                 u == b[pkts[j].key]
                 v == w[pkts[j].key]
      <4>1. l \in Nat /\ u \in Nat /\ v \in Nat  BY <1>1, PacketsAssumption
      <4>2. cost[j] = u + l * v  BY <1>0, <1>1
      <4> HIDE DEF l, u, v
      <4>3. u + l * v \in Int  BY <4>1
      <4>4. QED  BY <4>2, <4>3
    <3> DEFINE I == 1 .. i
               j == i + 1
    <3>4. I \cup {j} = 1 .. i + 1  BY <3>1
    <3>5. IsFiniteSet(I) /\ j \notin I /\ \A x \in I \cup {j} : cost[x] \in Int
          BY <3>1, <3>2, <3>3
    <3> HIDE DEF I, j
    <3>6. SumFunctionOnSet(cost, I \cup {j}) = cost[j] + SumFunctionOnSet(cost, I)
          BY <3>5, SumAdd
    <3>7. QED  BY <3>4, <3>6 DEF I, j
  <2>12. cOld = sOld  BY <2>3
  <2>13. old[key] \in Int /\ new[key] \in Int  BY <2>4, <2>9
  <2> HIDE DEF old, new, sOld, sNew, cOld, cNew, key, pkt
  <2>14. cNew = sNew  BY <2>7, <2>10, <2>11, <2>12, <2>13
  <2>15. QED  BY <2>5, <2>14 DEF cNew, sNew, new
<1> HIDE DEF F
<1>11. \A i \in Nat : i \in F  BY <1>9, <1>10, NumberInduction
<1>12. good(n)
  <2>1. n \in F  BY <1>1, <1>11
  <2>2. QED  BY <1>1, <2>1 DEF F
<1> DEFINE t == tot(n)
<1>13. \A k \in K : t[k] = total[k]  BY <1>0, <1>3, <1>7
<1>14. SumFunctionOnSet(cost, 1 .. n) = SumFunctionOnSet(t, K)  BY <1>12
<1> HIDE DEF t, K, n
<1>15. SumFunctionOnSet(t, K) = SumFunctionOnSet(total, K)  BY <1>5, <1>13, SumEqual
<1>16. QED  BY <1>1, <1>14, <1>15 DEF K

-----------------------------------------------------------------------------
\* The inductive invariant.

\* The bytes of each flow, the flows that have been looked at in the present
\* attempt, and those of them that were given action a.
bytes == [k \in DOMAIN data |-> data[k].nBytes]
placed == {flows[i] : i \in DOMAIN assignedActions}
given(a) == {flows[i] : i \in {j \in DOMAIN assignedActions : assignedActions[j] = a}}

AssignTypes ==
  /\ trace \in Seq(PacketKinds) \ {<<>>}
  /\ pc \in {"load", "panic", "shuffle", "assign", "done"}
  /\ successfulAssignments \in Nat
  /\ pc \in {"load", "panic"} => nBytesAssigned = <<>> /\ successfulAssignments = 0
  /\ pc # "done" => exported = <<>>

\* What loadFlowsFromTrace has read, and the successful attempts so far: each
\* flow has one action for each of them.
Loaded ==
  pc \in {"shuffle", "assign", "done"} =>
    /\ data = flow_map(trace)
    /\ flows \in SetToSeqs(DOMAIN data)
    /\ flow_actions \in [DOMAIN data -> Seq(Actions)]
    /\ \A k \in DOMAIN data : Len(flow_actions[k]) = successfulAssignments

\* nBytesAssigned is what the flows looked at so far add up to.
Accounted ==
  pc = "assign" =>
    /\ assignedActions \in Seq(Actions)
    /\ Len(assignedActions) <= Len(flows)
    /\ nBytesAssigned \in [Actions -> Nat]
    /\ \A a \in Actions : nBytesAssigned[a] = SumFunctionOnSet(bytes, given(a))
    /\ SumFunctionOnSet(nBytesAssigned, Actions) = SumFunctionOnSet(bytes, placed)

\* Every successful attempt was within the margin, and still is as it stands
\* in the lists of actions of the flows.
AttemptsMeetMargin ==
  pc \in {"shuffle", "assign", "done"} =>
    \A r \in 1 .. successfulAssignments : withinMargin(nBytesPerAction(r))

AssignInv ==
  /\ AssignTypes /\ Loaded /\ Accounted /\ OvershootBounded
  /\ AttemptsMeetMargin /\ ExportsMeetMargin

-----------------------------------------------------------------------------
\* The constants.
LEMMA ActionsTyped ==
  /\ Actions \subseteq Nat /\ IsFiniteSet(Actions) /\ 1 \in Actions
  /\ Unit \in Nat \ {0} /\ NRuns \in Nat \ {0}
  /\ \A a \in Actions : /\ ActionSeq[a].share \in Nat /\ ActionSeq[a].ippBase \in Nat
                        /\ ActionSeq[a].ippPayload \in Nat
<1> DEFINE A == [ippBase : Nat, ippPayload : Nat, share : 0 .. Unit]
<1>1. ActionSeq \in Seq(A) /\ ActionSeq # <<>> /\ Unit \in Nat \ {0} /\ NRuns \in Nat \ {0}
      BY SharesAssumption
<1>2. \A x \in A : x.share \in Nat /\ x.ippBase \in Nat /\ x.ippPayload \in Nat
      BY <1>1
<1> HIDE DEF A
<1>3. /\ Len(ActionSeq) \in Nat /\ Len(ActionSeq) > 0 /\ DOMAIN ActionSeq = 1 .. Len(ActionSeq)
      /\ \A a \in 1 .. Len(ActionSeq) : ActionSeq[a] \in A
      BY <1>1
<1>4. IsFiniteSet(1 .. Len(ActionSeq))  BY <1>3, PositionsFinite
<1>5. QED  BY <1>1, <1>2, <1>3, <1>4 DEF Actions

\* The flows that were read.
LEMMA DataTyped ==
  ASSUME AssignTypes, Loaded, pc \in {"shuffle", "assign", "done"}
  PROVE  /\ DOMAIN data = keys_of(trace) /\ IsFiniteSet(DOMAIN data)
         /\ DOMAIN data # {}
         /\ data \in [DOMAIN data -> FlowData]
         /\ DOMAIN bytes = DOMAIN data
         /\ \A k \in DOMAIN data : bytes[k] \in Nat /\ bytes[k] > 0 /\ bytes[k] = data[k].nBytes
         /\ nBytesTotal = SumFunctionOnSet(bytes, DOMAIN data)
         /\ nBytesTotal \in Nat
<1>1. trace \in Seq(PacketKinds) /\ trace # <<>>  BY DEF AssignTypes
<1>2. /\ data \in [keys_of(trace) -> FlowData]
      /\ \A k \in keys_of(trace) : data[k].nBytes > 0
      BY <1>1, FlowMapTyped DEF Loaded
<1>3. IsFiniteSet(keys_of(trace))  BY <1>1, KeysFinite
<1>4. keys_of(trace) # {}
  <2>1. 1 \in DOMAIN trace  BY <1>1
  <2>2. QED  BY <2>1 DEF keys_of
<1>5. DOMAIN data = keys_of(trace)  BY <1>2
<1>6. \A k \in DOMAIN data : data[k].nBytes \in Nat  BY <1>2 DEF FlowData
<1>7. DOMAIN bytes = DOMAIN data /\ \A k \in DOMAIN data : bytes[k] = data[k].nBytes
      BY DEF bytes
<1>8. nBytesTotal = SumFunctionOnSet(bytes, DOMAIN data)
      BY DEF nBytesTotal, SumFunction, bytes
<1>9. SumFunctionOnSet(bytes, DOMAIN data) \in Nat
      BY <1>3, <1>5, <1>6, <1>7, SumNat
<1>10. QED  BY <1>2, <1>3, <1>4, <1>5, <1>6, <1>7, <1>8, <1>9

\* An order of a finite set has each of its elements at one position.
LEMMA OrderProperties ==
  ASSUME NEW S, IsFiniteSet(S), NEW order \in SetToSeqs(S)
  PROVE  /\ Len(order) \in Nat /\ DOMAIN order = 1 .. Len(order)
         /\ \A i \in DOMAIN order : order[i] \in S
         /\ \A i, j \in DOMAIN order : order[i] = order[j] => i = j
         /\ \A k \in S : \E i \in DOMAIN order : order[i] = k
<1> DEFINE n == Cardinality(S)
<1>1. n \in Nat  BY FS_CardinalityType
<1>2. /\ order \in [1 .. n -> S]
      /\ \A i, j \in 1 .. n : i # j => order[i] # order[j]
      BY DEF SetToSeqs
<1>3. IsFiniteSet(1 .. n) /\ Cardinality(1 .. n) = n
  <2>1. 1 \in Int /\ n \in Int  BY <1>1
  <2> HIDE DEF n
  <2>2. IsFiniteSet(1 .. n) /\ Cardinality(1 .. n) = IF 1 > n THEN 0 ELSE n - 1 + 1
        BY <2>1, FS_Interval
  <2>3. QED  BY <1>1, <2>2
<1>4. ASSUME NEW k \in S PROVE \E i \in 1 .. n : order[i] = k
  <2> SUFFICES ASSUME \A i \in 1 .. n : order[i] # k PROVE FALSE
      OBVIOUS
  <2> DEFINE T == S \ {k}
  <2>1. order \in [1 .. n -> T]  BY <1>2
  <2>2. IsFiniteSet(T) /\ Cardinality(T) < n
    <3>1. IsFiniteSet(T) /\ Cardinality(T) = n - 1  BY FS_RemoveElement
    <3> HIDE DEF n, T
    <3>2. QED  BY <1>1, <3>1
  <2> HIDE DEF n, T
  <2>3. \E x, y \in 1 .. n : x # y /\ order[x] = order[y]
        BY <1>3, <2>1, <2>2, FS_PigeonHole
  <2>4. QED  BY <1>2, <2>3
<1> HIDE DEF n
<1>5. Len(order) = n /\ DOMAIN order = 1 .. n  BY <1>1, <1>2
<1>6. QED  BY <1>1, <1>2, <1>4, <1>5

\* An action is chosen, and the chosen one is behind its share.
LEMMA ActionChosen ==
  ASSUME NEW i \in Nat, NEW behind, behind = {b \in Actions : currentErr(nBytesAssigned, b) > 0},
         \A b \in Actions : currentErr(nBytesAssigned, b) \in Int, behind # {}
  PROVE  /\ actionID(nBytesAssigned, i) \in Actions
         /\ i # 1 => currentErr(nBytesAssigned, actionID(nBytesAssigned, i)) > 0
<1> DEFINE err == [b \in Actions |-> currentErr(nBytesAssigned, b)]
           most == {b \in behind : \A c \in behind :
                      currentErr(nBytesAssigned, c) <= currentErr(nBytesAssigned, b)}
           chosen == CHOOSE b \in most : \A c \in most : b <= c
<1>1. IsFiniteSet(behind) /\ IsFiniteSet(most) /\ behind \subseteq Actions /\ most \subseteq behind
      BY ActionsTyped, FS_Subset
<1>2. \A b \in behind : err[b] \in Int /\ err[b] = currentErr(nBytesAssigned, b)
      BY <1>1
<1> HIDE DEF err
<1>3. most # {}
  <2>1. \E b \in behind : \A c \in behind : err[c] <= err[b]
        BY <1>1, <1>2, Greatest
  <2>2. QED  BY <1>2, <2>1
<1> DEFINE neg == [b \in Actions |-> 0 - b]
<1>4. \A b \in most : neg[b] = 0 - b /\ neg[b] \in Int /\ b \in Nat
      BY <1>1, ActionsTyped
<1> HIDE DEF neg, most
<1>5. \E b \in most : \A c \in most : b <= c
  <2>1. \E b \in most : \A c \in most : neg[c] <= neg[b]
        BY <1>1, <1>3, <1>4, Greatest
  <2>2. QED  BY <1>4, <2>1
<1>6. chosen \in most  BY <1>5
<1>7. actionID(nBytesAssigned, i) = IF i = 1 THEN 1 ELSE chosen
      BY DEF actionID, most
<1> HIDE DEF chosen
<1>8. currentErr(nBytesAssigned, chosen) > 0 /\ chosen \in Actions
      BY <1>1, <1>6
<1>9. QED  BY <1>7, <1>8, ActionsTyped

\* As long as a flow has no action some action is behind its share: the bytes
\* that are assigned are fewer than there are, and the shares add up to one.
LEMMA SomeoneBehind ==
  ASSUME AssignInv, pc = "assign", Len(assignedActions) < Len(flows)
  PROVE  /\ \A b \in Actions : currentErr(nBytesAssigned, b) \in Int
         /\ \E b \in Actions : currentErr(nBytesAssigned, b) > 0
<1> DEFINE n == Len(assignedActions)
           k == flows[n + 1]
           sum(P) == SumFunctionOnSet(bytes, P)
           share == [a \in Actions |-> ActionSeq[a].share]
           err == [a \in Actions |-> currentErr(nBytesAssigned, a)]
<1> USE DEF AssignInv
<1>1. /\ IsFiniteSet(DOMAIN data) /\ nBytesTotal = sum(DOMAIN data) /\ nBytesTotal \in Nat
      /\ \A x \in DOMAIN data : bytes[x] \in Nat /\ bytes[x] > 0
      BY DataTyped
<1>2. /\ Len(flows) \in Nat /\ DOMAIN flows = 1 .. Len(flows)
      /\ \A i \in DOMAIN flows : flows[i] \in DOMAIN data
      /\ \A i, j \in DOMAIN flows : flows[i] = flows[j] => i = j
      BY <1>1, OrderProperties DEF Loaded
<1>3. n \in Nat /\ DOMAIN assignedActions = 1 .. n /\ n < Len(flows)
      BY DEF Accounted
<1>4. /\ k \in DOMAIN data /\ k \notin placed /\ placed \subseteq DOMAIN data
      BY <1>2, <1>3 DEF placed
<1>5. sum(placed) < nBytesTotal /\ sum(placed) \in Nat
  <2> DEFINE P == placed \cup {k}
  <2>1. P \subseteq DOMAIN data /\ IsFiniteSet(placed)  BY <1>1, <1>4, FS_Subset
  <2>2. \A x \in P : bytes[x] \in Nat /\ bytes[x] \in Int  BY <1>1, <2>1
  <2>3. sum(P) = bytes[k] + sum(placed)  BY <1>4, <2>1, <2>2, SumAdd
  <2>4. (DOMAIN data) \cap P = P  BY <2>1
  <2>5. sum((DOMAIN data) \cap P) <= sum(DOMAIN data)  BY <1>1, SumPart
  <2>6. sum(placed) \in Nat  BY <2>1, <2>2, SumNat
  <2>7. bytes[k] \in Nat /\ bytes[k] > 0  BY <1>1, <1>4
  <2> DEFINE x == sum(placed)
             y == bytes[k]
             z == sum(P)
  <2>8. z = y + x /\ z <= nBytesTotal  BY <1>1, <2>3, <2>4, <2>5
  <2>9. x \in Nat /\ y \in Nat /\ y > 0  BY <2>6, <2>7
  <2> HIDE DEF x, y, z, P, k, nBytesTotal
  <2>10. x < nBytesTotal  BY <1>1, <2>8, <2>9
  <2>11. QED  BY <2>9, <2>10 DEF x
<1>6. /\ \A a \in Actions : nBytesAssigned[a] \in Nat
      /\ SumFunctionOnSet(nBytesAssigned, Actions) = sum(placed)
      BY DEF Accounted
<1>7. /\ IsFiniteSet(Actions) /\ Unit \in Nat \ {0}
      /\ \A a \in Actions : ActionSeq[a].share \in Nat
      BY ActionsTyped
<1>8. SumFunctionOnSet(share, Actions) = Unit
      BY SharesAssumption DEF SumFunction
<1>9. \A a \in Actions : share[a] = ActionSeq[a].share /\ share[a] \in Nat
      BY <1>7
<1>10. \A a \in Actions : err[a] = share[a] * nBytesTotal - nBytesAssigned[a] * Unit
      BY <1>9 DEF currentErr
<1> HIDE DEF share, nBytesTotal
<1>11. \A a \in Actions : err[a] \in Int
  <2> TAKE a \in Actions
  <2>1. share[a] \in Int /\ nBytesTotal \in Int /\ nBytesAssigned[a] \in Int /\ Unit \in Int
        BY <1>1, <1>6, <1>7, <1>9
  <2>2. share[a] * nBytesTotal \in Int /\ nBytesAssigned[a] * Unit \in Int  BY <2>1
  <2> HIDE DEF err
  <2>3. QED  BY <1>10, <2>2
<1>12. \A a \in Actions : err[a] = currentErr(nBytesAssigned, a)  OBVIOUS
<1> HIDE DEF err
<1>13. SumFunctionOnSet(err, Actions)
         = SumFunctionOnSet(share, Actions) * nBytesTotal
             - SumFunctionOnSet(nBytesAssigned, Actions) * Unit
  <2>1. \A a \in Actions : share[a] \in Int /\ nBytesAssigned[a] \in Int  BY <1>6, <1>9
  <2>2. nBytesTotal \in Int /\ Unit \in Int  BY <1>1, <1>7
  <2>3. IsFiniteSet(Actions)  BY <1>7
  <2>4. QED  BY <1>10, <2>1, <2>2, <2>3, SumLinear
<1>14. SumFunctionOnSet(err, Actions) > 0
  <2> DEFINE x == sum(placed)
  <2>1. SumFunctionOnSet(err, Actions) = Unit * nBytesTotal - x * Unit
        BY <1>6, <1>8, <1>13
  <2>2. x < nBytesTotal /\ x \in Nat  BY <1>5
  <2> HIDE DEF x
  <2>3. Unit * nBytesTotal - x * Unit > 0
    <3>1. PICK d \in Nat \ {0} : nBytesTotal = x + d
      <4>1. nBytesTotal - x \in Nat \ {0} /\ nBytesTotal = x + (nBytesTotal - x)
            BY <1>1, <2>2
      <4>2. QED  BY <4>1
    <3>2. Unit * (x + d) - x * Unit = Unit * d  BY <1>7, <2>2, <3>1
    <3>3. Unit * d > 0  BY <1>7, <3>1
    <3>4. QED  BY <3>1, <3>2, <3>3
  <2>4. QED  BY <2>1, <2>3
<1>15. \E a \in Actions : err[a] > 0  BY <1>7, <1>11, <1>14, SumPositive
<1>16. QED  BY <1>11, <1>12, <1>15

-----------------------------------------------------------------------------
\* The trace is read, or refused.
LEMMA AssignInvLoad == AssignInv /\ Load => AssignInv'
<1> SUFFICES ASSUME AssignInv, Load PROVE AssignInv'
    OBVIOUS
<1>1. /\ pc = "load" /\ nBytesAssigned = <<>> /\ successfulAssignments = 0 /\ exported = <<>>
      /\ trace \in Seq(PacketKinds) /\ trace # <<>>
      /\ UNCHANGED <<trace, successfulAssignments, nBytesAssigned, assignedActions, exported>>
      BY DEF AssignInv, AssignTypes, Load
<1>2. pc' = "panic" \/ pc' = "shuffle"  BY DEF Load
<1>3. AssignTypes'  BY <1>1, <1>2 DEF AssignTypes
<1>4. Loaded'
  <2> SUFFICES ASSUME pc' = "shuffle" PROVE Loaded'
      BY <1>2 DEF Loaded
  <2>1. /\ data' = flow_map(trace) /\ flows' \in SetToSeqs(keys_of(trace))
        /\ flow_actions' = [k \in keys_of(trace) |-> <<>>]
        BY DEF Load
  <2>2. DOMAIN data' = keys_of(trace)
        BY <1>1, <2>1, FlowMapTyped
  <2>3. /\ flow_actions' \in [DOMAIN data' -> Seq(Actions)]
        /\ \A k \in DOMAIN data' : Len(flow_actions'[k]) = 0
        BY <2>1, <2>2
  <2>4. QED  BY <1>1, <2>1, <2>2, <2>3 DEF Loaded
<1>5. Accounted'  BY <1>2 DEF Accounted
<1>6. OvershootBounded'  BY <1>1 DEF OvershootBounded
<1>7. AttemptsMeetMargin'  BY <1>1 DEF AttemptsMeetMargin
<1>8. ExportsMeetMargin'  BY <1>1 DEF ExportsMeetMargin
<1>9. QED  BY <1>3, <1>4, <1>5, <1>6, <1>7, <1>8 DEF AssignInv

\* What an attempt does not touch.
LEMMA AttemptLeaves ==
  ASSUME AssignInv, pc \in {"shuffle", "assign"}, pc' \in {"shuffle", "assign"},
         UNCHANGED <<trace, data, flow_actions, successfulAssignments, exported>>,
         flows' \in SetToSeqs(DOMAIN data)
  PROVE  AssignTypes' /\ Loaded' /\ AttemptsMeetMargin' /\ ExportsMeetMargin'
<1>1. AssignTypes'  BY DEF AssignInv, AssignTypes
<1>2. Loaded'  BY DEF AssignInv, Loaded
<1>3. AttemptsMeetMargin'
      BY DEF AssignInv, AttemptsMeetMargin, withinMargin, nBytesPerAction, nBytesTotal
<1>4. exported' = <<>>  BY DEF AssignInv, AssignTypes
<1>5. ExportsMeetMargin'  BY <1>4 DEF ExportsMeetMargin
<1>6. QED  BY <1>1, <1>2, <1>3, <1>5

\* An attempt starts with nothing assigned.
LEMMA AssignInvShuffle ==
  ASSUME AssignInv, NEW order \in Orders, Shuffle(order)
  PROVE  AssignInv'
<1>1. /\ pc = "shuffle" /\ pc' = "assign" /\ flows' = order
      /\ nBytesAssigned' = [a \in Actions |-> 0] /\ assignedActions' = <<>>
      /\ UNCHANGED <<trace, data, flow_actions, successfulAssignments, exported>>
      BY DEF Shuffle, loadVars
<1>2. order \in SetToSeqs(DOMAIN data)  BY DEF Orders
<1>3. AssignTypes' /\ Loaded' /\ AttemptsMeetMargin' /\ ExportsMeetMargin'
      BY <1>1, <1>2, AttemptLeaves
<1>4. /\ IsFiniteSet(DOMAIN data) /\ DOMAIN data # {} /\ nBytesTotal \in Nat
      /\ \A k \in DOMAIN data : data[k].nBytes \in Nat
      BY <1>1, DataTyped DEF AssignInv
<1>5. Accounted'
  <2>1. SumFunctionOnSet(nBytesAssigned', Actions) = 0
        BY <1>1, ActionsTyped, SumZero
  <2>2. placed' = {} /\ \A a \in Actions : given(a)' = {}
        BY <1>1 DEF placed, given
  <2>3. /\ \A a \in Actions : SumFunctionOnSet(bytes', given(a)') = 0
        /\ SumFunctionOnSet(bytes', placed') = 0
        BY <2>2, SumEmpty
  <2>4. assignedActions' \in Seq(Actions) /\ Len(assignedActions') = 0
        BY <1>1
  <2>5. Len(flows') \in Nat  BY <1>1, <1>2, <1>4, OrderProperties
  <2>6. /\ nBytesAssigned' \in [Actions -> Nat]
        /\ \A a \in Actions : nBytesAssigned'[a] = 0
        BY <1>1
  <2>7. \A a \in Actions : nBytesAssigned'[a] = SumFunctionOnSet(bytes', given(a)')
        BY <2>3, <2>6
  <2>8. SumFunctionOnSet(nBytesAssigned', Actions) = SumFunctionOnSet(bytes', placed')
        BY <2>1, <2>3
  <2>9. Len(assignedActions') <= Len(flows')  BY <2>4, <2>5
  <2>10. QED  BY <2>4, <2>6, <2>7, <2>8, <2>9 DEF Accounted
<1>6. OvershootBounded'
  <2> SUFFICES ASSUME NEW a \in Actions
               PROVE  \E k \in DOMAIN data :
                        0 * Unit <= ActionSeq[a].share * nBytesTotal + data[k].nBytes * Unit
      BY <1>1 DEF OvershootBounded, nBytesTotal
  <2>1. PICK k \in DOMAIN data : TRUE  BY <1>4
  <2> DEFINE s == ActionSeq[a].share
             b == data[k].nBytes
             t == nBytesTotal
  <2>2. s \in Nat /\ b \in Nat /\ t \in Nat /\ Unit \in Nat  BY <1>4, ActionsTyped
  <2> HIDE DEF s, b, t
  <2>3. s * t \in Nat /\ b * Unit \in Nat  BY <2>2
  <2>4. 0 * Unit <= s * t + b * Unit  BY <2>2, <2>3
  <2>5. QED  BY <2>4 DEF s, b, t
<1>7. QED  BY <1>3, <1>5, <1>6 DEF AssignInv

\* The next flow is given the action that is furthest behind.
LEMMA AssignInvAssign == AssignInv /\ Assign => AssignInv'
<1> SUFFICES ASSUME AssignInv, Assign PROVE AssignInv'
    OBVIOUS
<1> DEFINE n == Len(assignedActions)
           i == n + 1
           k == flows[i]
           next == actionID(nBytesAssigned, i)
           sum(f, P) == SumFunctionOnSet(f, P)
<1>1. /\ pc = "assign" /\ pc' = "assign" /\ n < Len(flows)
      /\ nBytesAssigned' = [nBytesAssigned EXCEPT ![next] = @ + data[k].nBytes]
      /\ assignedActions' = Append(assignedActions, next)
      /\ UNCHANGED <<trace, data, flows, flow_actions, successfulAssignments, exported>>
      BY DEF Assign, loadVars
<1>2. /\ DOMAIN data # {} /\ IsFiniteSet(DOMAIN data) /\ nBytesTotal \in Nat
      /\ \A x \in DOMAIN data : bytes[x] \in Nat /\ bytes[x] > 0 /\ bytes[x] = data[x].nBytes
      BY <1>1, DataTyped DEF AssignInv
<1>3. flows \in SetToSeqs(DOMAIN data)  BY <1>1 DEF AssignInv, Loaded
<1>4. /\ Len(flows) \in Nat /\ DOMAIN flows = 1 .. Len(flows)
      /\ \A j \in DOMAIN flows : flows[j] \in DOMAIN data
      /\ \A j, l \in DOMAIN flows : flows[j] = flows[l] => j = l
      BY <1>2, <1>3, OrderProperties
<1>5. /\ assignedActions \in Seq(Actions) /\ nBytesAssigned \in [Actions -> Nat]
      /\ \A b \in Actions : nBytesAssigned[b] = sum(bytes, given(b))
      /\ sum(nBytesAssigned, Actions) = sum(bytes, placed)
      BY <1>1 DEF AssignInv, Accounted
<1>6. /\ n \in Nat /\ DOMAIN assignedActions = 1 .. n /\ i \in 1 .. Len(flows)
      BY <1>1, <1>4, <1>5
<1>7. PICK a \in Actions : a = next /\ (i # 1 => currentErr(nBytesAssigned, a) > 0)
  <2> DEFINE behind == {b \in Actions : currentErr(nBytesAssigned, b) > 0}
  <2>1. /\ \A b \in Actions : currentErr(nBytesAssigned, b) \in Int
        /\ behind # {} /\ i \in Nat
        BY <1>1, <1>6, SomeoneBehind
  <2> HIDE DEF i
  <2>2. QED  BY <2>1, ActionChosen
<1> HIDE DEF next
<1>8. /\ k \in DOMAIN data /\ k \notin placed /\ placed \subseteq DOMAIN data
      /\ \A b \in Actions : given(b) \subseteq placed
      BY <1>4, <1>6 DEF placed, given
<1>9. /\ DOMAIN assignedActions' = 1 .. i /\ assignedActions' \in Seq(Actions)
      /\ Len(assignedActions') = i
      /\ \A j \in 1 .. n : assignedActions'[j] = assignedActions[j]
      /\ assignedActions'[i] = a
      BY <1>1, <1>5, <1>7
<1>10. /\ placed' = placed \cup {k} /\ given(a)' = given(a) \cup {k}
       /\ \A b \in Actions \ {a} : given(b)' = given(b)
  <2>1. 1 .. i = (1 .. n) \cup {i} /\ i \notin 1 .. n  BY <1>6
  <2>2. placed' = {flows[j] : j \in 1 .. i}  BY <1>1, <1>9 DEF placed
  <2>3. \A b : given(b)' = {flows[j] : j \in {l \in 1 .. i : assignedActions'[l] = b}}
        BY <1>1, <1>9 DEF given
  <2>4. placed = {flows[j] : j \in 1 .. n}  BY <1>6 DEF placed
  <2>5. \A b : given(b) = {flows[j] : j \in {l \in 1 .. n : assignedActions[l] = b}}
        BY <1>6 DEF given
  <2>6. {l \in 1 .. i : assignedActions'[l] = a} = {l \in 1 .. n : assignedActions[l] = a} \cup {i}
        BY <1>9, <2>1
  <2>7. \A b \in Actions \ {a} : {l \in 1 .. i : assignedActions'[l] = b}
                                   = {l \in 1 .. n : assignedActions[l] = b}
        BY <1>9, <2>1
  <2>8. placed' = placed \cup {k}  BY <2>1, <2>2, <2>4
  <2>9. given(a)' = given(a) \cup {k}
    <3> DEFINE before == {l \in 1 .. n : assignedActions[l] = a}
               after  == {l \in 1 .. i : assignedActions'[l] = a}
    <3>1. given(a)' = {flows[j] : j \in after}  BY <2>3
    <3>2. given(a) = {flows[j] : j \in before}  BY <2>5
    <3>3. after = before \cup {i}  BY <2>6
    <3> HIDE DEF before, after
    <3>4. QED  BY <3>1, <3>2, <3>3
  <2>10. \A b \in Actions \ {a} : given(b)' = given(b)
         BY <2>3, <2>5, <2>7
  <2>11. QED  BY <2>8, <2>9, <2>10
<1>11. bytes' = bytes  BY <1>1 DEF bytes
<1> DEFINE own == bytes[k]
<1>12. own \in Nat /\ own = data[k].nBytes  BY <1>2, <1>8
<1>13. /\ nBytesAssigned' \in [Actions -> Nat]
       /\ nBytesAssigned'[a] = nBytesAssigned[a] + own
       /\ \A b \in Actions \ {a} : nBytesAssigned'[b] = nBytesAssigned[b]
  <2> HIDE DEF own, k
  <2>1. nBytesAssigned[a] \in Nat  BY <1>5, <1>7
  <2>2. nBytesAssigned[a] + own \in Nat  BY <1>12, <2>1
  <2>3. nBytesAssigned' = [nBytesAssigned EXCEPT ![a] = nBytesAssigned[a] + own]
        BY <1>1, <1>7, <1>12
  <2>4. QED  BY <1>5, <1>7, <2>2, <2>3
<1>14. ASSUME NEW P \in SUBSET placed
       PROVE  sum(bytes, P \cup {k}) = own + sum(bytes, P)
  <2>1. P \subseteq DOMAIN data /\ k \notin P  BY <1>8
  <2>2. IsFiniteSet(P) /\ \A x \in P \cup {k} : bytes[x] \in Int
        BY <1>2, <1>8, <2>1, FS_Subset
  <2>3. QED  BY <2>1, <2>2, SumAdd
<1>15. \A b \in Actions : nBytesAssigned'[b] = sum(bytes, given(b)')
  <2>1. sum(bytes, given(a)') = own + sum(bytes, given(a))
        BY <1>7, <1>8, <1>10, <1>14
  <2>2. nBytesAssigned[a] = sum(bytes, given(a)) /\ nBytesAssigned[a] \in Nat  BY <1>5, <1>7
  <2>3. nBytesAssigned'[a] = sum(bytes, given(a)')
    <3> HIDE DEF own, sum, k
    <3>1. QED  BY <1>12, <1>13, <2>1, <2>2
  <2>4. \A b \in Actions \ {a} : nBytesAssigned'[b] = sum(bytes, given(b)')
        BY <1>5, <1>10, <1>13
  <2> TAKE b \in Actions
  <2>5. CASE b = a  BY <2>3, <2>5
  <2>6. CASE b # a  BY <2>4, <2>6
  <2>7. QED  BY <2>5, <2>6
<1>16. sum(nBytesAssigned', Actions) = sum(bytes, placed')
  <2> DEFINE old == nBytesAssigned
             new == nBytesAssigned'
             x == sum(old, Actions)
  <2>1. \A b \in Actions : old[b] \in Int /\ new[b] \in Int  BY <1>5, <1>13
  <2>2. \A b \in Actions \ {a} : old[b] = new[b]  BY <1>13
  <2>3. sum(new, Actions) = sum(old, Actions) - old[a] + new[a]
    <3> HIDE DEF old, new
    <3>1. IsFiniteSet(Actions)  BY ActionsTyped
    <3>2. QED  BY <1>7, <2>1, <2>2, <3>1, SumChange
  <2>4. sum(bytes, placed') = own + x
        BY <1>5, <1>10, <1>14
  <2>5. x \in Int
    <3>1. IsFiniteSet(Actions) /\ \A b \in Actions : old[b] \in Int  BY <2>1, ActionsTyped
    <3> HIDE DEF old
    <3>2. QED  BY <3>1, SumInt
  <2>6. old[a] \in Int /\ new[a] = old[a] + own  BY <1>7, <1>13, <2>1
  <2>7. sum(new, Actions) = x - old[a] + new[a]  BY <2>3
  <2>8. x - old[a] + new[a] = own + x
    <3> HIDE DEF x, own, old, new, k, sum
    <3>1. QED  BY <1>12, <2>5, <2>6
  <2>9. QED  BY <2>4, <2>7, <2>8
<1>17. Accounted'
  <2>1. Len(assignedActions') <= Len(flows')  BY <1>1, <1>4, <1>6, <1>9
  <2>2. QED  BY <1>9, <1>11, <1>13, <1>15, <1>16, <2>1 DEF Accounted
<1>18. AssignTypes' /\ Loaded' /\ AttemptsMeetMargin' /\ ExportsMeetMargin'
       BY <1>1, <1>3, AttemptLeaves
<1>19. OvershootBounded'
  <2>1. nBytesTotal' = nBytesTotal  BY <1>1 DEF nBytesTotal
  <2> SUFFICES ASSUME NEW b \in Actions
               PROVE  \E x \in DOMAIN data :
                        nBytesAssigned'[b] * Unit
                          <= ActionSeq[b].share * nBytesTotal + data[x].nBytes * Unit
      BY <1>1, <1>13, <2>1 DEF OvershootBounded
  <2>2. CASE b # a
    <3>1. nBytesAssigned'[b] = nBytesAssigned[b] /\ b \in DOMAIN nBytesAssigned
          BY <1>5, <1>13, <2>2
    <3>2. QED  BY <3>1 DEF AssignInv, OvershootBounded
  <2>3. CASE b = a
    <3> DEFINE s == ActionSeq[a].share
               t == nBytesTotal
               old == nBytesAssigned[a]
    <3>1. s \in Nat /\ t \in Nat /\ old \in Nat /\ Unit \in Nat
          BY <1>2, <1>5, <1>7, ActionsTyped
    <3>2. old = 0 \/ s * t - old * Unit > 0
      <4>1. CASE i = 1
        <5>1. 1 .. n = {}  BY <1>6, <4>1
        <5>2. given(a) = {}  BY <1>6, <5>1 DEF given
        <5>3. QED  BY <1>5, <1>7, <5>2, SumEmpty
      <4>2. CASE i # 1  BY <1>7, <4>2 DEF currentErr
      <4>3. QED  BY <4>1, <4>2
    <3> HIDE DEF s, t, old, own
    <3>3. (old + own) * Unit <= s * t + own * Unit
      <4>1. (old + own) * Unit = old * Unit + own * Unit  BY <1>12, <3>1
      <4>2. old * Unit \in Nat /\ s * t \in Nat /\ own * Unit \in Nat  BY <1>12, <3>1
      <4>3. old * Unit <= s * t
        <5>1. CASE old = 0
          <6>1. old * Unit = 0  BY <3>1, <5>1
          <6>2. QED  BY <4>2, <6>1
        <5>2. CASE s * t - old * Unit > 0  BY <4>2, <5>2
        <5>3. QED  BY <3>2, <5>1, <5>2
      <4>4. QED  BY <4>1, <4>2, <4>3
    <3>4. QED  BY <1>8, <1>12, <1>13, <2>3, <3>3 DEF s, t, old
  <2>4. QED  BY <2>2, <2>3
<1>20. QED  BY <1>17, <1>18, <1>19 DEF AssignInv

-----------------------------------------------------------------------------
\* The flows that were given action a in the r-th successful attempt.
taken(r, a) == {k \in DOMAIN data : flow_actions[k][r] = a}

LEMMA PerAction ==
  IsFiniteSet(DOMAIN data) =>
    \A r : \A a \in Actions :
      nBytesPerAction(r)[a] = SumFunctionOnSet(bytes, taken(r, a))
<1> SUFFICES ASSUME IsFiniteSet(DOMAIN data), NEW r, NEW a \in Actions
             PROVE  nBytesPerAction(r)[a] = SumFunctionOnSet(bytes, taken(r, a))
    OBVIOUS
<1> DEFINE T == taken(r, a)
           f == [k \in T |-> data[k].nBytes]
<1>1. nBytesPerAction(r)[a] = SumFunctionOnSet(f, DOMAIN f)
      BY DEF nBytesPerAction, SumFunction, taken
<1>2. T \subseteq DOMAIN data /\ DOMAIN f = T  BY DEF taken
<1>3. IsFiniteSet(T)  BY <1>2, FS_Subset
<1>4. \A k \in T : f[k] = bytes[k]  BY <1>2 DEF bytes
<1> HIDE DEF f, T
<1>5. SumFunctionOnSet(f, T) = SumFunctionOnSet(bytes, T)  BY <1>3, <1>4, SumEqual
<1>6. QED  BY <1>1, <1>2, <1>5 DEF T

\* The margin is a matter of the bytes of each action.
LEMMA MarginOf ==
  ASSUME NEW x, NEW y, \A a \in Actions : x[a] = y[a], withinMargin(x)
  PROVE  withinMargin(y)
BY DEF withinMargin

\* At the end of an attempt its actions are appended to those of the flows: the
\* r-th entry of each list, wherever the flow was in the order, is an action of
\* the r-th successful attempt.
LEMMA WrittenActions ==
  ASSUME AssignInv, pc = "assign", Len(assignedActions) = Len(flows)
  PROVE  /\ written \in [DOMAIN data -> Seq(Actions)]
         /\ \A k \in DOMAIN data :
              /\ Len(written[k]) = successfulAssignments + 1
              /\ \A r \in 1 .. successfulAssignments : written[k][r] = flow_actions[k][r]
              /\ \A a : k \in given(a) <=> written[k][successfulAssignments + 1] = a
         /\ \A a : given(a) \subseteq DOMAIN data
<1> DEFINE n == Len(flows)
           at(k) == CHOOSE i \in DOMAIN flows : flows[i] = k
<1>1. /\ flow_actions \in [DOMAIN data -> Seq(Actions)]
      /\ \A k \in DOMAIN data : Len(flow_actions[k]) = successfulAssignments
      /\ successfulAssignments \in Nat
      /\ flows \in SetToSeqs(DOMAIN data) /\ assignedActions \in Seq(Actions)
      BY DEF AssignInv, AssignTypes, Loaded, Accounted
<1>2. IsFiniteSet(DOMAIN data)  BY DataTyped DEF AssignInv
<1>3. /\ n \in Nat /\ DOMAIN flows = 1 .. n /\ DOMAIN assignedActions = 1 .. n
      /\ \A i \in 1 .. n : flows[i] \in DOMAIN data /\ assignedActions[i] \in Actions
      /\ \A i, j \in 1 .. n : flows[i] = flows[j] => i = j
      /\ \A k \in DOMAIN data : \E i \in 1 .. n : flows[i] = k
  <2>1. /\ n \in Nat /\ DOMAIN flows = 1 .. n
        /\ \A i \in DOMAIN flows : flows[i] \in DOMAIN data
        /\ \A i, j \in DOMAIN flows : flows[i] = flows[j] => i = j
        /\ \A k \in DOMAIN data : \E i \in DOMAIN flows : flows[i] = k
        BY <1>1, <1>2, OrderProperties
  <2>2. DOMAIN assignedActions = 1 .. n  BY <1>1
  <2>3. \A i \in DOMAIN assignedActions : assignedActions[i] \in Actions
    <3>1. assignedActions \in Seq(Actions)  BY <1>1
    <3>2. QED  BY <3>1
  <2>4. QED  BY <2>1, <2>2, <2>3
<1>4. \A k \in DOMAIN data : at(k) \in 1 .. n /\ flows[at(k)] = k
      BY <1>3
<1>5. \A a : given(a) \subseteq DOMAIN data  BY <1>3 DEF given
<1>6. DOMAIN flow_actions = DOMAIN data  BY <1>1
<1>7. written = [k \in DOMAIN data |-> flow_actions[k] \o <<assignedActions[at(k)]>>]
      BY <1>6 DEF written
<1> HIDE DEF at, n
<1>8. ASSUME NEW k \in DOMAIN data
      PROVE  /\ written[k] \in Seq(Actions)
             /\ Len(written[k]) = successfulAssignments + 1
             /\ \A r \in 1 .. successfulAssignments : written[k][r] = flow_actions[k][r]
             /\ written[k][successfulAssignments + 1] = assignedActions[at(k)]
  <2> DEFINE q == flow_actions[k]
             x == assignedActions[at(k)]
  <2>1. q \in Seq(Actions) /\ Len(q) = successfulAssignments /\ x \in Actions
        BY <1>1, <1>3, <1>4
  <2>2. written[k] = q \o <<x>>  BY <1>7
  <2> HIDE DEF q, x
  <2>3. /\ q \o <<x>> \in Seq(Actions) /\ Len(q \o <<x>>) = Len(q) + 1
        /\ \A r \in 1 .. Len(q) : (q \o <<x>>)[r] = q[r]
        /\ (q \o <<x>>)[Len(q) + 1] = x
        BY <2>1
  <2>4. QED  BY <2>1, <2>2, <2>3 DEF q, x
<1>9. ASSUME NEW k \in DOMAIN data, NEW a
      PROVE  k \in given(a) <=> assignedActions[at(k)] = a
      BY <1>3, <1>4 DEF given
<1>10. written \in [DOMAIN data -> Seq(Actions)]
       BY <1>7, <1>8
<1>11. QED  BY <1>5, <1>8, <1>9, <1>10

\* The attempt has come to its end.
LEMMA AssignInvCheck == AssignInv /\ Check => AssignInv'
<1> SUFFICES ASSUME AssignInv, Check PROVE AssignInv'
    OBVIOUS
<1>1. /\ pc = "assign" /\ pc' = "shuffle" /\ Len(assignedActions) = Len(flows)
      /\ UNCHANGED <<trace, data, flows, nBytesAssigned, assignedActions, exported>>
      BY DEF Check, loadVars, attemptVars
<1>2. flows' \in SetToSeqs(DOMAIN data)  BY <1>1 DEF AssignInv, Loaded
<1>3. Accounted'  BY <1>1 DEF Accounted
<1>4. OvershootBounded'
      BY <1>1 DEF AssignInv, OvershootBounded, nBytesTotal
<1>5. exported = <<>> /\ exported' = <<>> /\ successfulAssignments \in Nat
      BY <1>1 DEF AssignInv, AssignTypes
<1>6. ExportsMeetMargin'  BY <1>5 DEF ExportsMeetMargin
<1>7. CASE UNCHANGED <<flow_actions, successfulAssignments>>
  <2>1. AssignTypes' /\ Loaded' /\ AttemptsMeetMargin'
        BY <1>1, <1>2, <1>7, AttemptLeaves
  <2>2. QED  BY <1>3, <1>4, <1>6, <2>1 DEF AssignInv
<1>8. CASE /\ withinMargin(nBytesAssigned) /\ flow_actions' = written
           /\ successfulAssignments' = successfulAssignments + 1
  <2> DEFINE s == successfulAssignments
  <2>1. AssignTypes'  BY <1>1, <1>5, <1>8 DEF AssignInv, AssignTypes
  <2>2. /\ written \in [DOMAIN data -> Seq(Actions)]
        /\ \A k \in DOMAIN data :
              /\ Len(written[k]) = s + 1
              /\ \A r \in 1 .. s : written[k][r] = flow_actions[k][r]
              /\ \A a : k \in given(a) <=> written[k][s + 1] = a
        /\ \A a : given(a) \subseteq DOMAIN data
        BY <1>1, WrittenActions
  <2>3. Loaded'  BY <1>1, <1>2, <1>8, <2>2 DEF AssignInv, Loaded
  <2>4. IsFiniteSet(DOMAIN data)  BY <1>1, DataTyped DEF AssignInv
  <2>5. bytes' = bytes /\ nBytesTotal' = nBytesTotal  BY <1>1 DEF bytes, nBytesTotal
  <2>6. \A r : \A a \in Actions :
          nBytesPerAction(r)[a] = SumFunctionOnSet(bytes, taken(r, a))
        BY <2>4, PerAction
  <2>7. \A r : \A a \in Actions :
          nBytesPerAction(r)'[a] = SumFunctionOnSet(bytes', taken(r, a)')
    <3>1. (IsFiniteSet(DOMAIN data) =>
             \A r : \A a \in Actions :
               nBytesPerAction(r)[a] = SumFunctionOnSet(bytes, taken(r, a)))'
          BY PerAction, PTL
    <3>2. QED  BY <1>1, <2>4, <3>1
  <2>8. ASSUME NEW r \in 1 .. s PROVE withinMargin(nBytesPerAction(r))'
    <3>1. \A a : taken(r, a)' = taken(r, a)
          BY <1>1, <1>8, <2>2 DEF taken
    <3>2. withinMargin(nBytesPerAction(r))  BY <1>1 DEF AssignInv, AttemptsMeetMargin
    <3> DEFINE x == nBytesPerAction(r)
               y == nBytesPerAction(r)'
    <3>3. \A a \in Actions : x[a] = y[a]  BY <2>5, <2>6, <2>7, <3>1
    <3>4. withinMargin(y)
      <4> HIDE DEF x, y
      <4>1. withinMargin(x)  BY <3>2 DEF x
      <4>2. QED  BY <3>3, <4>1, MarginOf
    <3>5. QED  BY <2>5, <3>4 DEF withinMargin
  <2>9. PICK r \in Nat : r = s + 1  BY <1>5
  <2>10. withinMargin(nBytesPerAction(r))'
    <3>1. ASSUME NEW a \in Actions PROVE taken(r, a)' = given(a)
          BY <1>1, <1>8, <2>2, <2>9 DEF taken
    <3>2. \A a \in Actions : nBytesAssigned[a] = SumFunctionOnSet(bytes, given(a))
          BY <1>1 DEF AssignInv, Accounted
    <3> DEFINE x == nBytesAssigned
               y == nBytesPerAction(r)'
    <3>3. \A a \in Actions : x[a] = y[a]  BY <2>5, <2>7, <3>1, <3>2
    <3>4. withinMargin(y)
      <4> HIDE DEF x, y
      <4>1. withinMargin(x)  BY <1>8 DEF x
      <4>2. QED  BY <3>3, <4>1, MarginOf
    <3>5. QED  BY <2>5, <3>4 DEF withinMargin
  <2>11. AttemptsMeetMargin'
    <3> SUFFICES ASSUME NEW t \in 1 .. s + 1 PROVE withinMargin(nBytesPerAction(t))'
        BY <1>8 DEF AttemptsMeetMargin
    <3>1. CASE t \in 1 .. s  BY <2>8, <3>1
    <3>2. CASE t \notin 1 .. s
      <4>1. t = r  BY <1>5, <2>9, <3>2
      <4>2. QED  BY <2>10, <4>1
    <3>3. QED  BY <3>1, <3>2
  <2>12. QED  BY <1>3, <1>4, <1>6, <2>1, <2>3, <2>11 DEF AssignInv
<1>9. QED  BY <1>7, <1>8 DEF Check

\* Everything is exported.
LEMMA AssignInvExport == AssignInv /\ Export => AssignInv'
<1> SUFFICES ASSUME AssignInv, Export PROVE AssignInv'
    OBVIOUS
<1>1. /\ pc = "shuffle" /\ pc' = "done" /\ successfulAssignments >= NRuns
      /\ exported' = [r \in 1 .. NRuns |->
           [ipp |-> ipp_file(r), dimensioning |-> instrTotal(r), info |-> nBytesPerAction(r)]]
      /\ UNCHANGED <<trace, data, flows, nBytesAssigned, flow_actions, successfulAssignments>>
      BY DEF Export, loadVars, attemptVars
<1>2. AssignTypes'  BY <1>1 DEF AssignInv, AssignTypes
<1>3. Loaded'  BY <1>1 DEF AssignInv, Loaded
<1>4. Accounted'  BY <1>1 DEF Accounted
<1>5. OvershootBounded'  BY <1>1 DEF AssignInv, OvershootBounded, nBytesTotal
<1>6. AttemptsMeetMargin'
      BY <1>1 DEF AssignInv, AttemptsMeetMargin, withinMargin, nBytesPerAction, nBytesTotal
<1>7. ASSUME NEW r \in 1 .. NRuns
      PROVE  /\ withinMargin(nBytesPerAction(r))
             /\ SumFunction(ipp_file(r)) = instrTotal(r)
  <2>1. r \in 1 .. successfulAssignments
        BY <1>1, ActionsTyped DEF AssignInv, AssignTypes
  <2>2. withinMargin(nBytesPerAction(r))
        BY <1>1, <2>1 DEF AssignInv, AttemptsMeetMargin
  <2> DEFINE K == keys_of(trace)
             act(k) == ActionSeq[flow_actions[k][r]]
             b == [k \in K |-> act(k).ippBase]
             w == [k \in K |-> act(k).ippPayload]
             cost == ipp_file(r)
             total == [k \in DOMAIN data |->
                         data[k].nPkts * act(k).ippBase + data[k].nBytesPayload * act(k).ippPayload]
  <2>3. /\ DOMAIN data = K /\ data = flow_map(trace) /\ trace \in Seq(PacketKinds)
        /\ flow_actions \in [K -> Seq(Actions)]
        /\ \A k \in K : Len(flow_actions[k]) = successfulAssignments
        BY <1>1, DataTyped DEF AssignInv, AssignTypes, Loaded
  <2>4. ASSUME NEW k \in K PROVE act(k).ippBase \in Nat /\ act(k).ippPayload \in Nat
    <3>1. flow_actions[k] \in Seq(Actions) /\ Len(flow_actions[k]) = successfulAssignments
          BY <2>3
    <3>2. flow_actions[k][r] \in Actions  BY <2>1, <3>1
    <3>3. QED  BY <3>2, ActionsTyped
  <2>5. \A i \in DOMAIN trace : trace[i].key \in K  BY DEF keys_of
  <2>6. b \in [K -> Nat] /\ w \in [K -> Nat]
        /\ \A k \in K : b[k] = act(k).ippBase /\ w[k] = act(k).ippPayload
    <3> HIDE DEF act, K
    <3>1. QED  BY <2>4
  <2>7. /\ DOMAIN cost = DOMAIN trace
        /\ \A i \in DOMAIN trace :
             cost[i] = b[trace[i].key] + trace[i].payload * w[trace[i].key]
    <3>1. cost = [i \in DOMAIN trace |->
                    act(trace[i].key).ippBase + trace[i].payload * act(trace[i].key).ippPayload]
          BY DEF ipp_file
    <3> HIDE DEF cost, b, w, act, K
    <3>2. QED  BY <2>5, <2>6, <3>1
  <2>8. /\ DOMAIN total = K
        /\ \A k \in K : total[k] = flow_map(trace)[k].nPkts * b[k]
                                     + flow_map(trace)[k].nBytesPayload * w[k]
    <3> HIDE DEF act, K, b, w
    <3>1. QED  BY <2>3, <2>6
  <2>9. instrTotal(r) = SumFunctionOnSet(total, DOMAIN total)
        BY DEF instrTotal, SumFunction
  <2>10. SumFunction(cost) = SumFunctionOnSet(cost, DOMAIN cost)
         BY DEF SumFunction
  <2>11. SumFunctionOnSet(cost, DOMAIN trace) = SumFunctionOnSet(total, K)
    <3>1. trace \in Seq(PacketKinds)  BY <2>3
    <3> HIDE DEF cost, total, b, w, act
    <3>2. b \in [keys_of(trace) -> Nat] /\ w \in [keys_of(trace) -> Nat]  BY <2>6
    <3>3. PacketCosts(trace, b, w, cost)  BY <2>7 DEF PacketCosts
    <3>4. FlowCosts(trace, b, w, total)  BY <2>8 DEF FlowCosts
    <3>5. QED  BY <3>1, <3>2, <3>3, <3>4, CostsAgree
  <2>12. QED
    <3> HIDE DEF cost, total, K
    <3>1. SumFunction(cost) = instrTotal(r)  BY <2>7, <2>8, <2>9, <2>10, <2>11
    <3>2. QED  BY <2>2, <3>1 DEF cost
<1>8. ExportsMeetMargin'
  <2>1. nBytesTotal' = nBytesTotal  BY <1>1 DEF nBytesTotal
  <2> SUFFICES ASSUME NEW r \in 1 .. NRuns
               PROVE  /\ withinMargin(exported'[r].info)
                      /\ SumFunction(exported'[r].ipp) = exported'[r].dimensioning
      BY <1>1, <2>1 DEF ExportsMeetMargin, withinMargin
  <2>2. /\ exported'[r].info = nBytesPerAction(r) /\ exported'[r].ipp = ipp_file(r)
        /\ exported'[r].dimensioning = instrTotal(r)
        BY <1>1
  <2>3. QED  BY <1>7, <2>2
<1>9. QED  BY <1>2, <1>3, <1>4, <1>5, <1>6, <1>8 DEF AssignInv

LEMMA AssignInvariant == AssignSpec => []AssignInv
<1>1. AssignInit => AssignInv
      BY DEF AssignInit, AssignInv, AssignTypes, Loaded, Accounted, OvershootBounded,
             AttemptsMeetMargin, ExportsMeetMargin
<1>2. AssignInv /\ [AssignNext]_assignVars => AssignInv'
  <2> SUFFICES ASSUME AssignInv, [AssignNext]_assignVars PROVE AssignInv'
      OBVIOUS
  <2>1. CASE UNCHANGED assignVars
    <3>1. UNCHANGED <<trace, data, pc, flows, nBytesAssigned, assignedActions, flow_actions,
                      successfulAssignments, exported>>
          BY <2>1 DEF assignVars, loadVars, attemptVars
    <3>2. AssignTypes' /\ Loaded'  BY <3>1 DEF AssignInv, AssignTypes, Loaded
    <3>3. Accounted'  BY <3>1 DEF AssignInv, Accounted, bytes, given, placed
    <3>4. OvershootBounded' /\ AttemptsMeetMargin' /\ ExportsMeetMargin'
          BY <3>1 DEF AssignInv, OvershootBounded, AttemptsMeetMargin, ExportsMeetMargin,
                      withinMargin, nBytesPerAction, nBytesTotal
    <3>5. QED  BY <3>2, <3>3, <3>4 DEF AssignInv
  <2>2. QED  BY <2>1, AssignInvLoad, AssignInvShuffle, AssignInvAssign, AssignInvCheck,
                AssignInvExport DEF AssignNext
<1>3. QED  BY <1>1, <1>2, PTL DEF AssignSpec

\* However the flows are shuffled, no action is given more than its share of
\* the bytes and one flow on top: assignActions never finds every action at its
\* share while a flow is left, so that the first one is no fallback for those.
THEOREM NoActionOvershoots == AssignSpec => []OvershootBounded
<1>1. AssignInv => OvershootBounded  BY DEF AssignInv
<1>2. QED  BY <1>1, AssignInvariant, PTL

\* What the tool writes for a run is the assignment that was found to be within
\* the margin in the attempt of that run, and the instructions it writes for
\* the packets add up to those it dimensions the capacity for.
THEOREM ExportsAreConsistent == AssignSpec => []ExportsMeetMargin
<1>1. AssignInv => ExportsMeetMargin  BY DEF AssignInv
<1>2. QED  BY <1>1, AssignInvariant, PTL
=============================================================================
