----------------------------- MODULE RingProofs -----------------------------
(***************************************************************************)
(* Proofs about the ring, for every number of nodes, hash functions and    *)
(* whatever the nodes decide to offload.                                   *)
(***************************************************************************)
EXTENDS TorSwitch, SumProofs, SequenceTheorems, TLAPS

\* The packets that may be in front of the node at a port, or in it, the ones
\* that may leave it, and those the sink may get.
GoodAt(port) ==
  {p \in Unprocessed : /\ p.hop_cnt < MaxHopCnt
                       /\ port = node_after(p.flow, p.hop_cnt)}

GoodFrom(port) ==
  {p \in Forwarded : /\ p.hop_cnt > 0 /\ p.hop_cnt <= MaxHopCnt
                     /\ ~p.done => p.hop_cnt < MaxHopCnt
                     /\ port = node_after(p.flow, p.hop_cnt - 1)}

GoodInSink ==
  {m \in [pkt : Forwarded, port : Ports] :
     m.port = node_after(m.pkt.flow, m.pkt.hop_cnt - 1)}

\* What the switch keeps for its ports is of the right kind at each of them.
SwitchOK ==
  /\ m_self_msgs \in [Ports -> Nat \cup {Unset}]
  /\ m_queues = [port \in Ports |-> m_queues[port]]
  /\ to_node = [port \in Ports |-> to_node[port]]
  /\ \A port \in Ports : /\ m_queues[port] \in Seq(GoodAt(port))
                          /\ to_node[port] \in Seq([pkt : GoodAt(port), at : Nat])

NodesOK ==
  /\ held = [port \in Ports |-> held[port]]
  /\ from_node = [port \in Ports |-> from_node[port]]
  /\ \A port \in Ports : /\ held[port] \subseteq GoodAt(port)
                          /\ from_node[port] \in Seq(GoodFrom(port))

RingInv ==
  /\ now \in Nat
  /\ generated \subseteq Flows \X Ids
  /\ SwitchOK
  /\ NodesOK
  /\ sink \in Seq(GoodInSink)

-----------------------------------------------------------------------------
\* Arithmetic of the ring: the remainder after a step up and a step down.
LEMMA RemainderUp ==
  ASSUME NEW N \in Nat, N > 0, NEW a \in Int
  PROVE  /\ a % N \in 0 .. N - 1
         /\ (a + 1) % N = ((a % N) + 1) % N
<1> DEFINE q == a \div N
           r == a % N
<1>1. r \in 0 .. N - 1 /\ q \in Int  OBVIOUS
<1>2. r = a - N * q  BY SMTT(30)
<1> HIDE DEF q, r
<1>3. a + 1 = N * q + (r + 1) /\ N * q \in Int  BY <1>1, <1>2
<1>4. \A x \in Int : \A y \in 0 .. N - 1 : (N * x + y) % N = y  OBVIOUS
<1>5. CASE r + 1 < N
  <2>1. r + 1 \in 0 .. N - 1  BY <1>1, <1>5
  <2>2. (N * q + (r + 1)) % N = r + 1  BY <1>1, <1>4, <2>1
  <2>3. (r + 1) % N = r + 1  BY <2>1
  <2>4. QED  BY <1>1, <1>3, <2>2, <2>3 DEF r
<1>6. CASE r + 1 = N
  <2>1. q + 1 \in Int /\ 0 \in 0 .. N - 1  BY <1>1
  <2>2. (N * (q + 1) + 0) % N = 0  BY <1>4, <2>1
  <2>3. N * (q + 1) + 0 = N * q + (r + 1)  BY <1>1, <1>6
  <2>4. N % N = 0  OBVIOUS
  <2>5. QED  BY <1>1, <1>3, <1>6, <2>2, <2>3, <2>4 DEF r
<1>7. r + 1 < N \/ r + 1 = N  BY <1>1
<1>8. QED  BY <1>1, <1>5, <1>6, <1>7 DEF r

\* The remainder of the number before, the other way round the ring.
LEMMA RemainderDown ==
  ASSUME NEW N \in Nat, N > 0, NEW a \in Int
  PROVE  (a - 1) % N = IF a % N > 0 THEN (a % N) - 1 ELSE N - 1
<1> DEFINE q == a \div N
           r == a % N
<1>1. r \in 0 .. N - 1 /\ q \in Int  OBVIOUS
<1>2. r = a - N * q  BY SMTT(30)
<1> HIDE DEF q, r
<1>3. a - 1 = N * q + (r - 1) /\ N * q \in Int  BY <1>1, <1>2
<1>4. \A x \in Int : \A y \in 0 .. N - 1 : (N * x + y) % N = y  OBVIOUS
<1>5. CASE r > 0
  <2>1. r - 1 \in 0 .. N - 1  BY <1>1, <1>5
  <2>2. (N * q + (r - 1)) % N = r - 1  BY <1>1, <1>4, <2>1
  <2>3. QED  BY <1>3, <1>5, <2>2 DEF r
<1>6. CASE r = 0
  <2>1. q - 1 \in Int /\ N - 1 \in 0 .. N - 1  BY <1>1
  <2>2. (N * (q - 1) + (N - 1)) % N = N - 1  BY <1>4, <2>1
  <2>3. N * (q - 1) + (N - 1) = N * q + (r - 1)  BY <1>1, <1>6
  <2>4. QED  BY <1>3, <1>6, <2>2, <2>3 DEF r
<1>7. r > 0 \/ r = 0  BY <1>1
<1>8. QED  BY <1>5, <1>6, <1>7

\* next_port is one step in the direction of the flow.
LEMMA NextPort ==
  ASSUME NEW f \in Flows, NEW hops \in Nat
  PROVE  /\ node_after(f, hops) \in Ports
         /\ next_port(f, node_after(f, hops)) = node_after(f, hops + 1)
<1>1. /\ NPorts \in Nat /\ NPorts > 0
      /\ Crc32[f] \in Nat
      BY RingAssumption
<1> DEFINE up   == Crc32[f] + hops
           down == Crc32[f] - hops
<1>2. up \in Int /\ down \in Int  BY <1>1
<1>3. Crc32[f] + (hops + 1) = up + 1 /\ Crc32[f] + (0 - (hops + 1)) = down - 1
      BY <1>1
<1>4. Crc32[f] + (0 - hops) = down  BY <1>1
<1> HIDE DEF up, down
<1>5. CASE Toeplitz[f] % 2 = 0
  <2>1. node_after(f, hops) = up % NPorts /\ node_after(f, hops + 1) = (up + 1) % NPorts
        BY <1>3, <1>5 DEF node_after, up
  <2>2. QED  BY <1>1, <1>2, <1>5, <2>1, RemainderUp DEF next_port, Ports
<1>6. CASE Toeplitz[f] % 2 # 0
  <2>1. node_after(f, hops) = down % NPorts /\ node_after(f, hops + 1) = (down - 1) % NPorts
        BY <1>3, <1>4, <1>6 DEF node_after
  <2>2. down % NPorts \in 0 .. NPorts - 1  BY <1>1, <1>2, RemainderUp
  <2>3. (down - 1) % NPorts = IF down % NPorts > 0 THEN (down % NPorts) - 1 ELSE NPorts - 1
        BY <1>1, <1>2, RemainderDown
  <2>4. QED  BY <1>6, <2>1, <2>2, <2>3 DEF next_port, Ports
<1>7. QED  BY <1>5, <1>6

\* A generated packet starts at the position its hop count says.
LEMMA FirstPort ==
  ASSUME NEW f \in Flows
  PROVE  select_output_port(f) = node_after(f, 0) /\ select_output_port(f) \in Ports
<1>1. Crc32[f] \in Nat /\ NPorts \in Nat /\ NPorts > 0  BY RingAssumption
<1>2. Crc32[f] + 0 = Crc32[f] /\ Crc32[f] + (0 - 0) = Crc32[f]  BY <1>1
<1>3. node_after(f, 0) = Crc32[f] % NPorts  BY <1>2 DEF node_after
<1>4. QED  BY <1>1, <1>3 DEF select_output_port, Ports

-----------------------------------------------------------------------------
\* The switch puts a packet on the link or in the queue of the port it chose.
LEMMA BufferSends ==
  ASSUME NEW port \in Ports, NEW queue \in Seq(GoodAt(port)), queue # <<>>,
         send_packet_from_buffer_to_node(port, queue), SwitchOK, now \in Nat
  PROVE  SwitchOK'
<1>1. PICK tx \in TxTimes :
        /\ m_queues' = [m_queues EXCEPT ![port] = Tail(queue)]
        /\ to_node' = [to_node EXCEPT ![port] =
                         Append(@, [pkt |-> Head(queue), at |-> now + tx])]
        /\ m_self_msgs' = [m_self_msgs EXCEPT ![port] = now + tx]
      BY DEF send_packet_from_buffer_to_node
<1> DEFINE S   == [pkt : GoodAt(port), at : Nat]
           msg == [pkt |-> Head(queue), at |-> now + tx]
<1>2. now + tx \in Nat  BY RingAssumption
<1>3. Head(queue) \in GoodAt(port) /\ Tail(queue) \in Seq(GoodAt(port))
  <2> HIDE DEF GoodAt
  <2>1. QED  OBVIOUS
<1>4. msg \in S  BY <1>2, <1>3
<1>5. Append(to_node[port], msg) \in Seq(S)
  <2>1. to_node[port] \in Seq(S)  BY DEF SwitchOK
  <2> HIDE DEF S, msg
  <2>2. QED  BY <1>4, <2>1
<1>6. m_self_msgs' \in [Ports -> Nat \cup {Unset}]
      BY <1>1, <1>2 DEF SwitchOK
<1>7. /\ m_queues' = [p \in Ports |-> m_queues'[p]]
      /\ m_queues'[port] = Tail(queue)
      /\ \A p \in Ports \ {port} : m_queues'[p] = m_queues[p]
      BY <1>1 DEF SwitchOK
<1>8. /\ to_node' = [p \in Ports |-> to_node'[p]]
      /\ to_node'[port] = Append(to_node[port], msg)
      /\ \A p \in Ports \ {port} : to_node'[p] = to_node[p]
      BY <1>1 DEF SwitchOK
<1> HIDE DEF msg
<1>9. \A p \in Ports : /\ m_queues'[p] \in Seq(GoodAt(p))
                       /\ to_node'[p] \in Seq([pkt : GoodAt(p), at : Nat])
      BY <1>3, <1>5, <1>7, <1>8 DEF SwitchOK
<1>10. QED  BY <1>6, <1>7, <1>8, <1>9 DEF SwitchOK

\* Handing a packet to a port keeps everything in the switch in its place.
LEMMA SwitchSends ==
  ASSUME NEW port \in Ports, NEW pkt \in GoodAt(port),
         send_packet_to_node(pkt, port), SwitchOK, now \in Nat
  PROVE  SwitchOK'
<1> DEFINE queue == Append(m_queues[port], pkt)
<1>1. queue \in Seq(GoodAt(port)) /\ queue # <<>>
  <2>1. m_queues[port] \in Seq(GoodAt(port))  BY DEF SwitchOK
  <2> HIDE DEF GoodAt
  <2>2. QED  BY <2>1
<1> HIDE DEF queue
<1>2. CASE send_packet_from_buffer_to_node(port, queue)
      BY <1>1, <1>2, BufferSends
<1>3. CASE /\ m_queues' = [m_queues EXCEPT ![port] = queue]
           /\ UNCHANGED <<m_self_msgs, to_node>>
  <2>1. /\ m_queues' = [p \in Ports |-> m_queues'[p]]
        /\ m_queues'[port] = queue
        /\ \A p \in Ports \ {port} : m_queues'[p] = m_queues[p]
        BY <1>3 DEF SwitchOK
  <2>2. \A p \in Ports : m_queues'[p] \in Seq(GoodAt(p))
        BY <1>1, <2>1 DEF SwitchOK
  <2>3. QED  BY <1>3, <2>1, <2>2 DEF SwitchOK
<1>4. QED  BY <1>2, <1>3 DEF send_packet_to_node, queue

\* Every step preserves RingInv.
LEMMA RingInvStep == RingInv /\ [RingNext]_ringVars => RingInv'
<1> SUFFICES ASSUME RingInv, [RingNext]_ringVars PROVE RingInv'
    OBVIOUS
<1> USE DEF RingInv
<1>1. ASSUME NEW f \in Flows, NEW id \in Ids, HandleGenerated(f, id)
      PROVE  RingInv'
  <2> DEFINE pkt  == [flow |-> f, id |-> id, hop_cnt |-> 0]
             port == select_output_port(f)
  <2>1. pkt \in GoodAt(port) /\ port \in Ports
    <3>1. port = node_after(f, 0) /\ port \in Ports  BY FirstPort
    <3>2. 0 < MaxHopCnt /\ 0 \in 0..255  BY RingAssumption
    <3>3. pkt \in Unprocessed  BY <3>2 DEF Unprocessed
    <3>4. QED  BY <3>1, <3>2, <3>3 DEF GoodAt
  <2>2. /\ send_packet_to_node(pkt, port) /\ UNCHANGED <<now, held, from_node, sink>>
        /\ generated' = generated \cup {<<f, id>>}
        BY <1>1 DEF HandleGenerated
  <2> HIDE DEF pkt, port
  <2>3. SwitchOK'  BY <2>1, <2>2, SwitchSends
  <2>4. NodesOK'  BY <2>2 DEF NodesOK
  <2>5. QED  BY <2>2, <2>3, <2>4
<1>2. ASSUME NEW port \in Ports, HandleFromNode(port)
      PROVE  RingInv'
  <2> DEFINE pkt == Head(from_node[port])
  <2>1. /\ from_node[port] # <<>>
        /\ from_node' = [from_node EXCEPT ![port] = Tail(from_node[port])]
        /\ UNCHANGED <<now, generated, held>>
        BY <1>2 DEF HandleFromNode
  <2>2. from_node[port] \in Seq(GoodFrom(port))  BY DEF NodesOK
  <2>3. pkt \in GoodFrom(port) /\ Tail(from_node[port]) \in Seq(GoodFrom(port))
    <3> HIDE DEF GoodFrom
    <3>1. QED  BY <2>1, <2>2
  <2>4. NodesOK'
    <3>1. /\ from_node' = [p \in Ports |-> from_node'[p]]
          /\ from_node'[port] = Tail(from_node[port])
          /\ \A p \in Ports \ {port} : from_node'[p] = from_node[p]
          BY <2>1 DEF NodesOK
    <3>2. \A p \in Ports : from_node'[p] \in Seq(GoodFrom(p))
          BY <2>3, <3>1 DEF NodesOK
    <3>3. QED  BY <2>1, <3>1, <3>2 DEF NodesOK
  <2> HIDE DEF pkt
  <2>5. CASE pkt.done /\ send_packet_to_sink(pkt, port) /\ UNCHANGED switchVars
    <3> DEFINE m == [pkt |-> pkt, port |-> port]
    <3>1. m \in GoodInSink
          BY <2>3 DEF GoodFrom, GoodInSink
    <3>2. sink' = Append(sink, m)  BY <2>5 DEF send_packet_to_sink
    <3> HIDE DEF m
    <3>3. sink' \in Seq(GoodInSink)
      <4> HIDE DEF GoodInSink
      <4>1. QED  BY <3>1, <3>2
    <3>4. SwitchOK'  BY <2>5 DEF SwitchOK, switchVars
    <3>5. QED  BY <2>1, <2>4, <3>3, <3>4
  <2>6. CASE /\ ~pkt.done /\ UNCHANGED sink
             /\ send_packet_to_node([flow |-> pkt.flow, id |-> pkt.id, hop_cnt |-> pkt.hop_cnt],
                                    next_port(pkt.flow, port))
    <3> DEFINE p == [flow |-> pkt.flow, id |-> pkt.id, hop_cnt |-> pkt.hop_cnt]
               q == next_port(pkt.flow, port)
    <3>1. /\ pkt.flow \in Flows /\ pkt.id \in Ids /\ pkt.hop_cnt \in 0..255
          /\ pkt.hop_cnt > 0 /\ pkt.hop_cnt < MaxHopCnt
          /\ port = node_after(pkt.flow, pkt.hop_cnt - 1)
          BY <2>3, <2>6 DEF GoodFrom, Forwarded
    <3>2. pkt.hop_cnt - 1 \in Nat /\ (pkt.hop_cnt - 1) + 1 = pkt.hop_cnt
      <4>1. \A h \in 0..255 : h > 0 => h - 1 \in Nat /\ (h - 1) + 1 = h
            OBVIOUS
      <4>2. QED  BY <3>1, <4>1
    <3>3. /\ q = node_after(pkt.flow, (pkt.hop_cnt - 1) + 1)
          /\ node_after(pkt.flow, (pkt.hop_cnt - 1) + 1) \in Ports
      <4>1. (pkt.hop_cnt - 1) + 1 \in Nat  BY <3>1, <3>2
      <4>2. QED  BY <3>1, <3>2, <4>1, NextPort
    <3>4. p \in GoodAt(q) /\ q \in Ports
          BY <3>1, <3>2, <3>3 DEF GoodAt, Unprocessed
    <3>5. send_packet_to_node(p, q)  BY <2>6
    <3> HIDE DEF p, q
    <3>6. SwitchOK'  BY <3>4, <3>5, SwitchSends
    <3>7. QED  BY <2>1, <2>4, <2>6, <3>6
  <2>7. QED  BY <1>2, <2>5, <2>6 DEF HandleFromNode, pkt
<1>3. ASSUME NEW port \in Ports, HandleSelf(port)
      PROVE  RingInv'
  <2>1. UNCHANGED <<now, generated, held, from_node, sink>>
        BY <1>3 DEF HandleSelf
  <2>2. SwitchOK'
    <3>1. CASE /\ m_self_msgs' = [m_self_msgs EXCEPT ![port] = Unset]
               /\ UNCHANGED <<m_queues, to_node>>
          BY <3>1 DEF SwitchOK
    <3>2. CASE m_queues[port] # <<>> /\ send_packet_from_buffer_to_node(port, m_queues[port])
      <4>1. m_queues[port] \in Seq(GoodAt(port))  BY DEF SwitchOK
      <4>2. QED  BY <3>2, <4>1, BufferSends
    <3>3. QED  BY <1>3, <3>1, <3>2 DEF HandleSelf
  <2>3. NodesOK'  BY <2>1 DEF NodesOK
  <2>4. QED  BY <2>1, <2>2, <2>3
<1>4. ASSUME NEW port \in Ports, NodeTakes(port)
      PROVE  RingInv'
  <2> DEFINE S == [pkt : GoodAt(port), at : Nat]
  <2>1. /\ to_node[port] # <<>>
        /\ to_node' = [to_node EXCEPT ![port] = Tail(to_node[port])]
        /\ held' = [held EXCEPT ![port] = held[port] \cup {Head(to_node[port]).pkt}]
        /\ UNCHANGED <<now, generated, m_queues, m_self_msgs, from_node, sink>>
        BY <1>4 DEF NodeTakes
  <2>2. to_node[port] \in Seq(S)  BY DEF SwitchOK
  <2>3. Head(to_node[port]) \in S /\ Tail(to_node[port]) \in Seq(S)
    <3> HIDE DEF S
    <3>1. QED  BY <2>1, <2>2
  <2>4. Head(to_node[port]).pkt \in GoodAt(port)  BY <2>3
  <2>5. SwitchOK'
    <3>1. /\ to_node' = [p \in Ports |-> to_node'[p]]
          /\ to_node'[port] = Tail(to_node[port])
          /\ \A p \in Ports \ {port} : to_node'[p] = to_node[p]
          BY <2>1 DEF SwitchOK
    <3>2. \A p \in Ports : to_node'[p] \in Seq([pkt : GoodAt(p), at : Nat])
          BY <2>3, <3>1 DEF SwitchOK
    <3>3. QED  BY <2>1, <3>1, <3>2 DEF SwitchOK
  <2>6. NodesOK'
    <3>1. /\ held' = [p \in Ports |-> held'[p]]
          /\ held'[port] = held[port] \cup {Head(to_node[port]).pkt}
          /\ \A p \in Ports \ {port} : held'[p] = held[p]
          BY <2>1 DEF NodesOK
    <3>2. \A p \in Ports : held'[p] \subseteq GoodAt(p)
          BY <2>4, <3>1 DEF NodesOK
    <3>3. QED  BY <2>1, <3>1, <3>2 DEF NodesOK
  <2>7. QED  BY <2>1, <2>5, <2>6
<1>5. ASSUME NEW port \in Ports, NEW p \in held[port], NEW done \in BOOLEAN,
             NodeForwards(port, p, done)
      PROVE  RingInv'
  <2> DEFINE pkt == [flow |-> p.flow, id |-> p.id, hop_cnt |-> p.hop_cnt + 1, done |-> done]
  <2>1. /\ done \/ (MayOffload /\ p.hop_cnt + 1 < MaxHopCnt)
        /\ held' = [held EXCEPT ![port] = held[port] \ {p}]
        /\ from_node' = [from_node EXCEPT ![port] = Append(from_node[port], pkt)]
        /\ UNCHANGED <<now, generated, switchVars, sink>>
        BY <1>5 DEF NodeForwards
  <2>2. p \in GoodAt(port)  BY DEF NodesOK
  <2>3. pkt \in GoodFrom(port)
    <3>1. /\ p.flow \in Flows /\ p.id \in Ids /\ p.hop_cnt \in 0..255
          /\ p.hop_cnt < MaxHopCnt /\ port = node_after(p.flow, p.hop_cnt)
          BY <2>2 DEF GoodAt, Unprocessed
    <3>2. /\ p.hop_cnt + 1 \in 0..255 /\ p.hop_cnt + 1 > 0
          /\ p.hop_cnt + 1 <= MaxHopCnt /\ (p.hop_cnt + 1) - 1 = p.hop_cnt
      <4>1. \A h \in 0..255 : h < MaxHopCnt =>
              h + 1 \in 0..255 /\ h + 1 > 0 /\ h + 1 <= MaxHopCnt /\ (h + 1) - 1 = h
            BY RingAssumption
      <4>2. QED  BY <3>1, <4>1
    <3>3. QED  BY <2>1, <3>1, <3>2 DEF GoodFrom, Forwarded
  <2> HIDE DEF pkt
  <2>4. NodesOK'
    <3>1. /\ held' = [q \in Ports |-> held'[q]]
          /\ held'[port] = held[port] \ {p}
          /\ \A q \in Ports \ {port} : held'[q] = held[q]
          BY <2>1 DEF NodesOK
    <3>2. /\ from_node' = [q \in Ports |-> from_node'[q]]
          /\ from_node'[port] = Append(from_node[port], pkt)
          /\ \A q \in Ports \ {port} : from_node'[q] = from_node[q]
          BY <2>1 DEF NodesOK
    <3>3. Append(from_node[port], pkt) \in Seq(GoodFrom(port))
      <4>1. from_node[port] \in Seq(GoodFrom(port))  BY DEF NodesOK
      <4> HIDE DEF GoodFrom
      <4>2. QED  BY <2>3, <4>1
    <3>4. \A q \in Ports : /\ held'[q] \subseteq GoodAt(q)
                           /\ from_node'[q] \in Seq(GoodFrom(q))
          BY <3>1, <3>2, <3>3 DEF NodesOK
    <3>5. QED  BY <3>1, <3>2, <3>4 DEF NodesOK
  <2>5. SwitchOK'  BY <2>1 DEF SwitchOK, switchVars
  <2>6. QED  BY <2>1, <2>4, <2>5
<1>6. CASE RingTick
  <2>1. /\ now' = now + 1
        /\ UNCHANGED <<generated, switchVars, held, from_node, sink>>
        BY <1>6 DEF RingTick
  <2>2. SwitchOK' /\ NodesOK'  BY <2>1 DEF SwitchOK, NodesOK, switchVars
  <2>3. QED  BY <2>1, <2>2
<1>7. CASE UNCHANGED ringVars
      BY <1>7 DEF ringVars, switchVars, SwitchOK, NodesOK
<1>8. QED  BY <1>1, <1>2, <1>3, <1>4, <1>5, <1>6, <1>7 DEF RingNext

\* RingInv holds initially.
LEMMA RingInvInit == RingInit => RingInv
<1> SUFFICES ASSUME RingInit PROVE RingInv
    OBVIOUS
<1>1. SwitchOK  BY DEF RingInit, SwitchOK
<1>2. NodesOK  BY DEF RingInit, NodesOK
<1>3. sink \in Seq(GoodInSink)  BY DEF RingInit
<1>4. QED  BY <1>1, <1>2, <1>3 DEF RingInit, RingInv

\* RingInv holds in every state.
LEMMA RingInvariant == RingSpec => []RingInv
BY RingInvInit, RingInvStep, PTL DEF RingSpec

\* What the invariant says of the packets in front of a node, in it, on the way
\* back from it and in the sink.
LEMMA Whereabouts ==
  ASSUME RingInv
  PROVE  /\ \A port \in Ports : /\ atPort(port) \subseteq GoodAt(port)
                                /\ items(from_node[port]) \subseteq GoodFrom(port)
         /\ \A i \in DOMAIN sink : sink[i] \in GoodInSink
<1>1. ASSUME NEW port \in Ports
      PROVE  atPort(port) \subseteq GoodAt(port)
  <2>1. /\ m_queues[port] \in Seq(GoodAt(port)) /\ held[port] \subseteq GoodAt(port)
        /\ to_node[port] \in Seq([pkt : GoodAt(port), at : Nat])
        BY DEF RingInv, SwitchOK, NodesOK
  <2>2. items(m_queues[port]) \subseteq GoodAt(port)
    <3> HIDE DEF GoodAt
    <3>1. QED  BY <2>1 DEF items
  <2>3. \A m \in items(to_node[port]) : m.pkt \in GoodAt(port)
    <3> DEFINE S == [pkt : GoodAt(port), at : Nat]
    <3>1. \A m \in items(to_node[port]) : m \in S
      <4> HIDE DEF S
      <4>1. to_node[port] \in Seq(S)  BY <2>1 DEF S
      <4>2. QED  BY <4>1 DEF items
    <3>2. QED  BY <3>1
  <2>4. QED  BY <2>1, <2>2, <2>3 DEF atPort
<1>2. ASSUME NEW port \in Ports
      PROVE  items(from_node[port]) \subseteq GoodFrom(port)
  <2>1. from_node[port] \in Seq(GoodFrom(port))  BY DEF RingInv, NodesOK
  <2> HIDE DEF GoodFrom
  <2>2. QED  BY <2>1 DEF items
<1>3. \A i \in DOMAIN sink : sink[i] \in GoodInSink
  <2>1. sink \in Seq(GoodInSink)  BY DEF RingInv
  <2> HIDE DEF GoodInSink
  <2>2. QED  BY <2>1
<1>4. QED  BY <1>1, <1>2, <1>3

\* In particular everything has its type.
LEMMA TypesKept == RingInv => RingTypeOK
<1> SUFFICES ASSUME RingInv PROVE RingTypeOK
    OBVIOUS
<1>1. ASSUME NEW port \in Ports
      PROVE  /\ GoodAt(port) \subseteq Unprocessed
             /\ GoodFrom(port) \subseteq Forwarded
      BY DEF GoodAt, GoodFrom
<1>2. m_queues \in [Ports -> Seq(Unprocessed)]
  <2>1. \A port \in Ports : m_queues[port] \in Seq(Unprocessed)
        BY <1>1, SeqMonotonic DEF RingInv, SwitchOK
  <2>2. QED  BY <2>1 DEF RingInv, SwitchOK
<1>3. to_node \in [Ports -> Seq([pkt : Unprocessed, at : Nat])]
  <2>1. \A port \in Ports : to_node[port] \in Seq([pkt : Unprocessed, at : Nat])
    <3> TAKE port \in Ports
    <3> DEFINE good == [pkt : GoodAt(port), at : Nat]
               any  == [pkt : Unprocessed, at : Nat]
    <3>1. to_node[port] \in Seq(good)
          BY DEF RingInv, SwitchOK
    <3>2. good \subseteq any
          BY <1>1
    <3> HIDE DEF good
    <3>3. SUFFICES to_node[port] \in Seq(any)
          OBVIOUS
    <3> HIDE DEF any
    <3>4. QED  BY <3>1, <3>2, SeqMonotonic
  <2>2. QED  BY <2>1 DEF RingInv, SwitchOK
<1>4. held \in [Ports -> SUBSET Unprocessed]
  <2>1. \A port \in Ports : held[port] \in SUBSET Unprocessed
        BY <1>1 DEF RingInv, NodesOK
  <2>2. QED  BY <2>1 DEF RingInv, NodesOK
<1>5. from_node \in [Ports -> Seq(Forwarded)]
  <2>1. \A port \in Ports : from_node[port] \in Seq(Forwarded)
        BY <1>1, SeqMonotonic DEF RingInv, NodesOK
  <2>2. QED  BY <2>1 DEF RingInv, NodesOK
<1>6. sink \in Seq([pkt : Forwarded, port : Ports])
  <2>1. GoodInSink \subseteq [pkt : Forwarded, port : Ports]
        BY DEF GoodInSink
  <2>2. QED  BY <2>1, SeqMonotonic DEF RingInv
<1>7. QED  BY <1>2, <1>3, <1>4, <1>5, <1>6 DEF RingInv, SwitchOK, RingTypeOK

\* The switch and the nodes keep packets, ports and instants where the modules
\* declare them.
THEOREM RingTyped == RingSpec => []RingTypeOK
BY TypesKept, RingInvariant, PTL

\* The ASSERTs on hop counts in TorSwitch and Offload hold for every number of
\* nodes, provided the nodes' max_hop_cnt does not exceed it.
THEOREM HopAssertsHold == RingSpec => []HopAsserts
<1>1. RingInv => HopAsserts
  <2> SUFFICES ASSUME RingInv PROVE HopAsserts
      OBVIOUS
  <2>1. MaxHopCnt \in Nat /\ NPorts \in Nat /\ MaxHopCnt <= NPorts
        BY RingAssumption
  <2>2. ASSUME NEW port \in Ports, NEW p \in items(from_node[port])
        PROVE  p.hop_cnt <= NPorts /\ (~p.done => p.hop_cnt < NPorts)
    <3>1. p \in GoodFrom(port)  BY <2>2, Whereabouts
    <3>2. /\ p.hop_cnt \in 0..255 /\ p.hop_cnt <= MaxHopCnt
          /\ ~p.done => p.hop_cnt < MaxHopCnt
          BY <3>1 DEF GoodFrom, Forwarded
    <3>3. QED  BY <2>1, <3>2
  <2>3. \A port \in Ports : \A p \in atPort(port) : p.hop_cnt < MaxHopCnt
        BY Whereabouts DEF GoodAt
  <2>4. QED  BY <2>2, <2>3 DEF HopAsserts
<1>2. QED  BY <1>1, RingInvariant, PTL

\* A packet's hop count says where in the ring it is, for every number of nodes
\* and all hashes, and processed packets leave through the port of the node
\* that processed them.
THEOREM RingPositionKept == RingSpec => []RingPosition
<1>1. RingInv => RingPosition
  <2> SUFFICES ASSUME RingInv PROVE RingPosition
      OBVIOUS
  <2>1. \A port \in Ports : \A p \in atPort(port) : port = node_after(p.flow, p.hop_cnt)
        BY Whereabouts DEF GoodAt
  <2>2. \A port \in Ports : \A p \in items(from_node[port]) :
          port = node_after(p.flow, p.hop_cnt - 1)
        BY Whereabouts DEF GoodFrom
  <2>3. \A i \in DOMAIN sink :
          sink[i].port = node_after(sink[i].pkt.flow, sink[i].pkt.hop_cnt - 1)
        BY Whereabouts DEF GoodInSink
  <2>4. QED  BY <2>1, <2>2, <2>3 DEF RingPosition
<1>2. QED  BY <1>1, RingInvariant, PTL

-----------------------------------------------------------------------------
(* The links to the nodes.                                                 *)

\* What a port, with this queue, self-message and link, is like at instant t:
\* the self-message is not overdue, and only the packet it was scheduled with
\* is still being transmitted.
Serial(queue, self, link, t) ==
  /\ self = Unset => queue = <<>>
  /\ self # Unset => self >= t
  /\ \A i \in DOMAIN link :
       /\ link[i].at >= t
       /\ link[i].at > t => link[i].at = self
  /\ \A i, j \in DOMAIN link : i < j => link[i].at < link[j].at

SerialInv ==
  \A port \in Ports :
    Serial(m_queues[port], m_self_msgs[port], to_node[port], now)

\* A packet may follow on a link when nothing is being transmitted on it.
LEMMA SerialSends ==
  ASSUME NEW S, NEW link \in Seq([pkt : S, at : Nat]), NEW t \in Nat,
         NEW self \in {Unset, t}, NEW queue, Serial(queue, self, link, t),
         NEW m, NEW tx \in Nat \ {0}, m.at = t + tx, NEW rest
  PROVE  Serial(rest, t + tx, Append(link, m), t)
<1> DEFINE new == Append(link, m)
<1>1. /\ DOMAIN link = 1 .. Len(link) /\ Len(link) \in Nat
      /\ DOMAIN new = 1 .. Len(link) + 1
      /\ \A i \in 1 .. Len(link) : new[i] = link[i]
      /\ new[Len(link) + 1] = m
      OBVIOUS
<1>2. \A i \in DOMAIN link : link[i].at = t
  <2>1. \A i \in DOMAIN link : link[i].at \in Nat
    <3> DEFINE R == [pkt : S, at : Nat]
    <3>1. link \in Seq(R)  OBVIOUS
    <3> HIDE DEF R
    <3>2. \A i \in DOMAIN link : link[i] \in R  BY <3>1
    <3>3. QED  BY <3>2 DEF R
  <2>2. \A n \in Nat : n >= t /\ (n > t => n = self) => n = t
        BY DEF Unset
  <2>3. QED  BY <2>1, <2>2 DEF Serial
<1> HIDE DEF new
<1>3. \A i \in DOMAIN new : i = Len(link) + 1 \/ i \in DOMAIN link
      BY <1>1
<1>4. \A i \in DOMAIN new : new[i].at >= t /\ (new[i].at > t => new[i].at = t + tx)
      BY <1>1, <1>2, <1>3
<1>5. \A i, j \in DOMAIN new : i < j => new[i].at < new[j].at
  <2> SUFFICES ASSUME NEW i \in DOMAIN new, NEW j \in DOMAIN new, i < j
               PROVE  new[i].at < new[j].at
      OBVIOUS
  <2>1. i \in DOMAIN link  BY <1>1
  <2>2. CASE j = Len(link) + 1
        BY <1>1, <1>2, <2>1, <2>2
  <2>3. CASE j \in DOMAIN link
        BY <1>1, <2>1, <2>3 DEF Serial
  <2>4. QED  BY <1>3, <2>2, <2>3
<1>6. t + tx # Unset /\ t + tx >= t  BY DEF Unset
<1>7. QED  BY <1>4, <1>5, <1>6 DEF Serial, new

\* A packet may leave a link.
LEMMA SerialTakes ==
  ASSUME NEW S, NEW link \in Seq(S), link # <<>>,
         NEW t, NEW self, NEW queue, Serial(queue, self, link, t)
  PROVE  Serial(queue, self, Tail(link), t)
<1>1. /\ DOMAIN link = 1 .. Len(link) /\ Len(link) \in Nat
      /\ \A i \in DOMAIN Tail(link) : /\ i \in Nat /\ i + 1 \in DOMAIN link
                                      /\ Tail(link)[i] = link[i + 1]
      OBVIOUS
<1> DEFINE rest == Tail(link)
<1> HIDE DEF rest
<1>2. \A i \in DOMAIN rest : /\ i \in Nat /\ i + 1 \in DOMAIN link
                             /\ rest[i] = link[i + 1]
      BY <1>1 DEF rest
<1>3. \A i, j \in DOMAIN rest : i < j => i + 1 < j + 1
      BY <1>2
<1>4. QED  BY <1>2, <1>3 DEF Serial, rest

\* The kind of sequence on each link.
LEMMA LinkTyped ==
  ASSUME SwitchOK, NEW port \in Ports
  PROVE  to_node[port] \in Seq([pkt : GoodAt(port), at : Nat])
BY DEF SwitchOK

\* The switch sends only on a link that is free, or becomes free now.
LEMMA SerialBuffer ==
  ASSUME NEW port \in Ports, NEW queue, m_self_msgs[port] \in {Unset, now},
         send_packet_from_buffer_to_node(port, queue),
         SwitchOK, now \in Nat, UNCHANGED now, SerialInv
  PROVE  SerialInv'
<1>1. PICK tx \in TxTimes :
        /\ m_queues' = [m_queues EXCEPT ![port] = Tail(queue)]
        /\ to_node' = [to_node EXCEPT ![port] =
                         Append(@, [pkt |-> Head(queue), at |-> now + tx])]
        /\ m_self_msgs' = [m_self_msgs EXCEPT ![port] = now + tx]
      BY DEF send_packet_from_buffer_to_node
<1> DEFINE msg == [pkt |-> Head(queue), at |-> now + tx]
<1>2. /\ m_self_msgs'[port] = now + tx
      /\ to_node'[port] = Append(to_node[port], msg)
      /\ \A p \in Ports \ {port} : /\ m_queues'[p] = m_queues[p]
                                   /\ m_self_msgs'[p] = m_self_msgs[p]
                                   /\ to_node'[p] = to_node[p]
      BY <1>1 DEF SwitchOK
<1>3. tx \in Nat \ {0} /\ msg.at = now + tx  BY RingAssumption
<1> HIDE DEF msg
<1>4. Serial(m_queues'[port], now + tx, Append(to_node[port], msg), now)
  <2>1. Serial(m_queues[port], m_self_msgs[port], to_node[port], now)
        BY DEF SerialInv
  <2>2. QED  BY <1>3, <2>1, LinkTyped, SerialSends
<1>5. ASSUME NEW p \in Ports
      PROVE  Serial(m_queues'[p], m_self_msgs'[p], to_node'[p], now)
      BY <1>2, <1>4 DEF SerialInv
<1>6. QED  BY <1>5 DEF SerialInv

\* A packet waits when the link of its port is occupied.
LEMMA SerialHandsOver ==
  ASSUME NEW port \in Ports, NEW pkt, send_packet_to_node(pkt, port),
         SwitchOK, now \in Nat, UNCHANGED now, SerialInv
  PROVE  SerialInv'
<1> DEFINE queue == Append(m_queues[port], pkt)
<1> HIDE DEF queue
<1>1. CASE m_self_msgs[port] = Unset /\ send_packet_from_buffer_to_node(port, queue)
      BY <1>1, SerialBuffer
<1>2. CASE /\ m_self_msgs[port] # Unset
           /\ m_queues' = [m_queues EXCEPT ![port] = queue]
           /\ UNCHANGED <<m_self_msgs, to_node>>
  <2>1. ASSUME NEW p \in Ports
        PROVE  Serial(m_queues'[p], m_self_msgs'[p], to_node'[p], now)
    <3>1. p # port => m_queues'[p] = m_queues[p]  BY <1>2 DEF SwitchOK
    <3>2. m_self_msgs'[p] = m_self_msgs[p] /\ to_node'[p] = to_node[p]  BY <1>2
    <3>3. Serial(m_queues[p], m_self_msgs[p], to_node[p], now)  BY DEF SerialInv
    <3>4. QED  BY <1>2, <3>1, <3>2, <3>3 DEF Serial
  <2>2. QED  BY <2>1 DEF SerialInv
<1>3. QED  BY <1>1, <1>2 DEF send_packet_to_node, queue

\* Every step preserves SerialInv.
LEMMA SerialStep == RingInv /\ SerialInv /\ [RingNext]_ringVars => SerialInv'
<1> SUFFICES ASSUME RingInv, SerialInv, [RingNext]_ringVars PROVE SerialInv'
    OBVIOUS
<1>0. SwitchOK /\ now \in Nat  BY DEF RingInv
<1>1. ASSUME NEW f \in Flows, NEW id \in Ids, HandleGenerated(f, id)
      PROVE  SerialInv'
  <2>1. UNCHANGED now /\ select_output_port(f) \in Ports
        BY <1>1, FirstPort DEF HandleGenerated
  <2>2. QED  BY <1>0, <1>1, <2>1, SerialHandsOver DEF HandleGenerated
<1>2. ASSUME NEW port \in Ports, HandleFromNode(port)
      PROVE  SerialInv'
  <2> DEFINE pkt == Head(from_node[port])
             p == [flow |-> pkt.flow, id |-> pkt.id, hop_cnt |-> pkt.hop_cnt]
             q == next_port(pkt.flow, port)
  <2>1. UNCHANGED now  BY <1>2 DEF HandleFromNode
  <2>2. CASE UNCHANGED switchVars
        BY <2>1, <2>2 DEF switchVars, SerialInv
  <2>3. CASE send_packet_to_node(p, q)
    <3>1. q \in Ports
          BY RingAssumption DEF next_port, Ports
    <3> HIDE DEF p, q
    <3>2. QED  BY <1>0, <2>1, <2>3, <3>1, SerialHandsOver
  <2>4. QED  BY <1>2, <2>2, <2>3 DEF HandleFromNode
<1>3. ASSUME NEW port \in Ports, HandleSelf(port)
      PROVE  SerialInv'
  <2>1. m_self_msgs[port] = now /\ UNCHANGED now  BY <1>3 DEF HandleSelf
  <2>2. CASE send_packet_from_buffer_to_node(port, m_queues[port])
        BY <1>0, <2>1, <2>2, SerialBuffer
  <2>3. CASE /\ m_queues[port] = <<>>
             /\ m_self_msgs' = [m_self_msgs EXCEPT ![port] = Unset]
             /\ UNCHANGED <<m_queues, to_node>>
    <3>1. ASSUME NEW p \in Ports
          PROVE  Serial(m_queues[p], m_self_msgs'[p], to_node[p], now)
      <4>1. Serial(m_queues[p], m_self_msgs[p], to_node[p], now)  BY DEF SerialInv
      <4>2. CASE p # port
        <5>1. m_self_msgs'[p] = m_self_msgs[p]  BY <2>3, <4>2 DEF SwitchOK
        <5>2. QED  BY <4>1, <5>1
      <4>3. CASE p = port
        <5>1. m_self_msgs'[p] = Unset  BY <1>0, <2>3, <4>3 DEF SwitchOK
        <5>2. \A i \in DOMAIN to_node[p] : to_node[p][i].at \in Nat
          <6> DEFINE S == [pkt : GoodAt(p), at : Nat]
          <6>1. to_node[p] \in Seq(S)  BY <1>0, LinkTyped
          <6> HIDE DEF S
          <6>2. \A i \in DOMAIN to_node[p] : to_node[p][i] \in S  BY <6>1
          <6>3. QED  BY <6>2 DEF S
        <5>3. \A i \in DOMAIN to_node[p] : ~(to_node[p][i].at > now)
              BY <1>0, <2>1, <4>1, <4>3, <5>2 DEF Serial
        <5>4. QED  BY <2>3, <4>1, <4>3, <5>1, <5>3 DEF Serial
      <4>4. QED  BY <4>2, <4>3
    <3>2. QED  BY <2>1, <2>3, <3>1 DEF SerialInv
  <2>4. QED  BY <1>3, <2>2, <2>3 DEF HandleSelf
<1>4. ASSUME NEW port \in Ports, NodeTakes(port)
      PROVE  SerialInv'
  <2>1. /\ to_node[port] # <<>>
        /\ to_node' = [to_node EXCEPT ![port] = Tail(to_node[port])]
        /\ UNCHANGED <<now, m_queues, m_self_msgs>>
        BY <1>4 DEF NodeTakes
  <2>2. /\ to_node'[port] = Tail(to_node[port])
        /\ \A p \in Ports \ {port} : to_node'[p] = to_node[p]
        BY <1>0, <2>1 DEF SwitchOK
  <2>3. Serial(m_queues[port], m_self_msgs[port], Tail(to_node[port]), now)
    <3>1. Serial(m_queues[port], m_self_msgs[port], to_node[port], now)  BY DEF SerialInv
    <3>2. QED  BY <1>0, <2>1, <3>1, LinkTyped, SerialTakes
  <2>4. QED  BY <2>1, <2>2, <2>3 DEF SerialInv
<1>5. ASSUME NEW port \in Ports, NEW p \in held[port], NEW done \in BOOLEAN,
             NodeForwards(port, p, done)
      PROVE  SerialInv'
      BY <1>5 DEF NodeForwards, switchVars, SerialInv
<1>6. CASE RingTick
  <2>1. /\ now' = now + 1 /\ UNCHANGED switchVars
        /\ \A port \in Ports :
             /\ m_self_msgs[port] # now
             /\ \A i \in DOMAIN to_node[port] : to_node[port][i].at > now
        BY <1>6 DEF RingTick
  <2>2. ASSUME NEW port \in Ports
        PROVE  Serial(m_queues[port], m_self_msgs[port], to_node[port], now + 1)
    <3>1. Serial(m_queues[port], m_self_msgs[port], to_node[port], now)  BY DEF SerialInv
    <3>2. m_self_msgs[port] # Unset => m_self_msgs[port] >= now + 1
          BY <1>0, <2>1, <3>1 DEF Serial, SwitchOK
    <3>3. \A i \in DOMAIN to_node[port] : to_node[port][i].at = m_self_msgs[port]
          BY <2>1, <3>1 DEF Serial
    <3>4. \A i \in DOMAIN to_node[port] : to_node[port][i].at >= now + 1
      <4> TAKE i \in DOMAIN to_node[port]
      <4>1. to_node[port][i].at > now /\ to_node[port][i].at = m_self_msgs[port]
            BY <2>1, <3>3
      <4>2. m_self_msgs[port] \in Nat \cup {Unset}  BY <1>0 DEF SwitchOK
      <4>3. QED  BY <1>0, <4>1, <4>2 DEF Unset
    <3>5. QED  BY <3>1, <3>2, <3>3, <3>4 DEF Serial
  <2>3. QED  BY <2>1, <2>2 DEF SerialInv, switchVars
<1>7. CASE UNCHANGED ringVars
      BY <1>7 DEF ringVars, switchVars, SerialInv
<1>8. QED  BY <1>1, <1>2, <1>3, <1>4, <1>5, <1>6, <1>7 DEF RingNext

\* The ASSERT of send_packet_from_buffer_to_node holds for every trace and all
\* transmission times: a port never has two packets on its link at once.
THEOREM LinksAreSerial == RingSpec => []PortSerial
<1>1. RingInit => SerialInv
      BY DEF RingInit, SerialInv, Serial
<1>2. SerialInv => PortSerial
      BY DEF SerialInv, Serial, PortSerial
<1>3. QED  BY <1>1, <1>2, SerialStep, RingInvariant, PTL DEF RingSpec

-----------------------------------------------------------------------------
(* Where packet id of flow f is.                                           *)

\* The forms it has in the queues and nodes, on the links and in the sink.
Waiting(f, id)  == {p \in Unprocessed : p.flow = f /\ p.id = id}
Returning(f, id) == {p \in Forwarded : p.flow = f /\ p.id = id}
InFlight(f, id) == {m \in [pkt : Unprocessed, at : Nat] : m.pkt \in Waiting(f, id)}
Arrived(f, id)  == {m \in [pkt : Forwarded, port : Ports] : m.pkt \in Returning(f, id)}

\* How often it is in the switch for a port, and in the node of that port.
in_switch(port, f, id) ==
  count(m_queues[port], Waiting(f, id)) + count(to_node[port], InFlight(f, id))
in_node(port, f, id) ==
  count(from_node[port], Returning(f, id)) + Cardinality(held[port] \cap Waiting(f, id))

in_ring(f, id) == [port \in Ports |-> in_switch(port, f, id) + in_node(port, f, id)]
total(f, id) == SumFunctionOnSet(in_ring(f, id), Ports)

OnceInv ==
  /\ \A port \in Ports : IsFiniteSet(held[port])
  /\ \A f \in Flows, id \in Ids :
       total(f, id) + count(sink, Arrived(f, id)) = IF <<f, id>> \in generated THEN 1 ELSE 0

\* The counts are natural numbers.
LEMMA PlacesNat ==
  ASSUME RingTypeOK, NEW port \in Ports, IsFiniteSet(held[port]), NEW f, NEW id
  PROVE  /\ count(m_queues[port], Waiting(f, id)) \in Nat
         /\ count(to_node[port], InFlight(f, id)) \in Nat
         /\ count(from_node[port], Returning(f, id)) \in Nat
         /\ Cardinality(held[port] \cap Waiting(f, id)) \in Nat
         /\ in_ring(f, id)[port] = in_switch(port, f, id) + in_node(port, f, id)
         /\ in_switch(port, f, id) \in Nat
         /\ in_node(port, f, id) \in Nat
         /\ in_ring(f, id)[port] \in Nat
<1>1. /\ m_queues[port] \in Seq(Unprocessed)
      /\ from_node[port] \in Seq(Forwarded)
      /\ to_node[port] \in Seq([pkt : Unprocessed, at : Nat])
      BY DEF RingTypeOK
<1>2. /\ count(m_queues[port], Waiting(f, id)) \in Nat
      /\ count(to_node[port], InFlight(f, id)) \in Nat
      /\ count(from_node[port], Returning(f, id)) \in Nat
      BY <1>1, CountNat
<1>3. IsFiniteSet(held[port] \cap Waiting(f, id))
  <2>1. held[port] \cap Waiting(f, id) \in SUBSET held[port]  OBVIOUS
  <2>2. QED  BY <2>1, FS_Subset
<1>4. Cardinality(held[port] \cap Waiting(f, id)) \in Nat
      BY <1>3, FS_CardinalityType
<1>5. in_switch(port, f, id) \in Nat /\ in_node(port, f, id) \in Nat
      BY <1>2, <1>4 DEF in_switch, in_node
<1>6. in_ring(f, id)[port] = in_switch(port, f, id) + in_node(port, f, id)
      BY DEF in_ring
<1>7. QED  BY <1>2, <1>4, <1>5, <1>6

\* The invariant counts the copies that ExactlyOnce counts.
LEMMA CopiesCounted ==
  ASSUME RingTypeOK, OnceInv, NEW f \in Flows, NEW id \in Ids
  PROVE  copies(f, id) = total(f, id) + count(sink, Arrived(f, id))
<1>1. ASSUME NEW port \in Ports
      PROVE  copies_at(port, f, id) = in_ring(f, id)[port]
  <2>1. /\ m_queues[port] \in Seq(Unprocessed) /\ held[port] \subseteq Unprocessed
        /\ from_node[port] \in Seq(Forwarded)
        /\ to_node[port] \in Seq([pkt : Unprocessed, at : Nat])
        BY DEF RingTypeOK
  <2>2. {i \in DOMAIN m_queues[port] : m_queues[port][i].flow = f /\ m_queues[port][i].id = id}
          = hits(m_queues[port], Waiting(f, id))
    <3>1. \A i \in DOMAIN m_queues[port] : m_queues[port][i] \in Unprocessed  BY <2>1
    <3>2. QED  BY <3>1 DEF hits, Waiting
  <2>3. {i \in DOMAIN from_node[port] : from_node[port][i].flow = f /\ from_node[port][i].id = id}
          = hits(from_node[port], Returning(f, id))
    <3>1. \A i \in DOMAIN from_node[port] : from_node[port][i] \in Forwarded  BY <2>1
    <3>2. QED  BY <3>1 DEF hits, Returning
  <2>4. {i \in DOMAIN to_node[port] :
           to_node[port][i].pkt.flow = f /\ to_node[port][i].pkt.id = id}
          = hits(to_node[port], InFlight(f, id))
    <3> DEFINE S == [pkt : Unprocessed, at : Nat]
    <3>1. \A i \in DOMAIN to_node[port] : to_node[port][i] \in S
      <4> HIDE DEF S
      <4>1. to_node[port] \in Seq(S)  BY <2>1 DEF S
      <4>2. QED  BY <4>1
    <3>2. QED  BY <3>1 DEF hits, Waiting, InFlight
  <2>5. {p \in held[port] : p.flow = f /\ p.id = id} = held[port] \cap Waiting(f, id)
        BY <2>1 DEF Waiting
  <2>6. in_ring(f, id)[port] = in_switch(port, f, id) + in_node(port, f, id)
        BY DEF in_ring
  <2>7. copies_at(port, f, id) =
          count(m_queues[port], Waiting(f, id)) + count(from_node[port], Returning(f, id))
            + count(to_node[port], InFlight(f, id))
            + Cardinality(held[port] \cap Waiting(f, id))
        BY <2>2, <2>3, <2>4, <2>5 DEF copies_at, count
  <2>8. /\ count(m_queues[port], Waiting(f, id)) \in Nat
        /\ count(to_node[port], InFlight(f, id)) \in Nat
        /\ count(from_node[port], Returning(f, id)) \in Nat
        /\ Cardinality(held[port] \cap Waiting(f, id)) \in Nat
        BY PlacesNat DEF OnceInv
  <2>9. QED  BY <2>6, <2>7, <2>8 DEF in_switch, in_node
<1>2. SumFunction([port \in Ports |-> copies_at(port, f, id)]) = total(f, id)
  <2> DEFINE c == [port \in Ports |-> copies_at(port, f, id)]
  <2>1. c = in_ring(f, id)  BY <1>1 DEF in_ring
  <2>2. DOMAIN c = Ports  OBVIOUS
  <2> HIDE DEF c
  <2>3. SumFunction(c) = total(f, id)  BY <2>1, <2>2 DEF total, SumFunction
  <2>4. QED  BY <2>3 DEF c
<1>3. {i \in DOMAIN sink : sink[i].pkt.flow = f /\ sink[i].pkt.id = id}
        = hits(sink, Arrived(f, id))
  <2> DEFINE S == [pkt : Forwarded, port : Ports]
  <2>1. \A i \in DOMAIN sink : sink[i] \in S
    <3> HIDE DEF S
    <3>1. sink \in Seq(S)  BY DEF RingTypeOK, S
    <3>2. QED  BY <3>1
  <2>2. QED  BY <2>1 DEF hits, Returning, Arrived
<1>4. QED  BY <1>2, <1>3 DEF copies, count

\* There are no more copies at a port than in the whole network.
LEMMA TotalNat ==
  ASSUME RingTypeOK, OnceInv, NEW f \in Flows, NEW id \in Ids
  PROVE  /\ IsFiniteSet(Ports)
         /\ total(f, id) \in Nat /\ count(sink, Arrived(f, id)) \in Nat
         /\ total(f, id) <= 1
         /\ \A port \in Ports : in_ring(f, id)[port] <= 1
<1>1. IsFiniteSet(Ports)
  <2>1. NPorts - 1 \in Int  BY RingAssumption
  <2>2. QED  BY <2>1, FS_Interval DEF Ports
<1>2. \A port \in Ports : in_ring(f, id)[port] \in Nat
      BY PlacesNat DEF OnceInv
<1>3. total(f, id) \in Nat /\ \A port \in Ports : in_ring(f, id)[port] <= total(f, id)
      BY <1>1, <1>2, SumNat DEF total
<1>4. count(sink, Arrived(f, id)) \in Nat
      BY CountNat DEF RingTypeOK
<1>5. total(f, id) + count(sink, Arrived(f, id)) \in {0, 1}
  <2>1. total(f, id) + count(sink, Arrived(f, id)) = IF <<f, id>> \in generated THEN 1 ELSE 0
        BY DEF OnceInv
  <2>2. QED  BY <2>1
<1>6. QED  BY <1>1, <1>2, <1>3, <1>4, <1>5

\* A packet that leaves port y, or comes to port z, or both.
LEMMA TotalChanges ==
  ASSUME RingTypeOK, OnceInv, NEW f \in Flows, NEW id \in Ids,
         NEW y \in Ports, NEW d \in Int, NEW z \in Ports, NEW e \in Int,
         \A x \in Ports :
           in_switch(x, f, id)' + in_node(x, f, id)' =
             in_switch(x, f, id) + in_node(x, f, id)
               + (IF x = y THEN d ELSE 0) + (IF x = z THEN e ELSE 0)
  PROVE  total(f, id)' = total(f, id) + d + e
<1>1. IsFiniteSet(Ports)  BY TotalNat
<1>2. \A x \in Ports : in_ring(f, id)[x] \in Int
  <2>1. \A x \in Ports : in_ring(f, id)[x] \in Nat  BY PlacesNat DEF OnceInv
  <2>2. QED  BY <2>1
<1>3. \A x \in Ports : in_ring(f, id)'[x] = in_ring(f, id)[x]
                         + (IF x = y THEN d ELSE 0) + (IF x = z THEN e ELSE 0)
      BY DEF in_ring
<1> DEFINE g == in_ring(f, id)
           h == in_ring(f, id)'
<1>4. SumFunctionOnSet(h, Ports) = SumFunctionOnSet(g, Ports) + d + e
  <2>1. \A x \in Ports : g[x] \in Int  BY <1>2
  <2>2. \A x \in Ports : h[x] = g[x] + (IF x = y THEN d ELSE 0) + (IF x = z THEN e ELSE 0)
        BY <1>3
  <2> HIDE DEF g, h
  <2>3. QED  BY <1>1, <2>1, <2>2, SumChanges
<1>5. QED  BY <1>4 DEF total

\* 1 for a packet that is among those of M, 0 for another one.
one_if(pkt, M) == IF pkt \in M THEN 1 ELSE 0

\* Sending on the link of one port leaves the other ports alone.
LEMMA BufferLeavesOthers ==
  ASSUME RingTypeOK, NEW port \in Ports, NEW queue,
         send_packet_from_buffer_to_node(port, queue),
         NEW x \in Ports, x # port, NEW f, NEW id
  PROVE  in_switch(x, f, id)' = in_switch(x, f, id)
<1>1. m_queues'[x] = m_queues[x] /\ to_node'[x] = to_node[x]
      BY DEF send_packet_from_buffer_to_node, RingTypeOK
<1>2. QED  BY <1>1 DEF in_switch

\* Sending the first packet of queue, which replaces that of the port.
LEMMA BufferKeepsCopies ==
  ASSUME RingTypeOK, NEW port \in Ports, NEW queue \in Seq(Unprocessed), queue # <<>>,
         send_packet_from_buffer_to_node(port, queue), NEW f, NEW id
  PROVE  in_switch(port, f, id)' =
           count(queue, Waiting(f, id)) + count(to_node[port], InFlight(f, id))
<1>1. PICK tx \in TxTimes :
        /\ m_queues' = [m_queues EXCEPT ![port] = Tail(queue)]
        /\ to_node' = [to_node EXCEPT ![port] =
                         Append(@, [pkt |-> Head(queue), at |-> now + tx])]
      BY DEF send_packet_from_buffer_to_node
<1> DEFINE msg == [pkt |-> Head(queue), at |-> now + tx]
           S == [pkt : Unprocessed, at : Nat]
           W == Waiting(f, id)
           I == InFlight(f, id)
<1>2. /\ m_queues'[port] = Tail(queue)
      /\ to_node'[port] = Append(to_node[port], msg)
      BY <1>1 DEF RingTypeOK
<1>3. now + tx \in Nat  BY RingAssumption DEF RingTypeOK
<1>4. Head(queue) \in Unprocessed
  <2> HIDE DEF Unprocessed
  <2>1. QED  OBVIOUS
<1>5. msg \in I <=> Head(queue) \in W
      BY <1>3, <1>4 DEF InFlight
<1>6. to_node[port] \in Seq(S)  BY DEF RingTypeOK
<1> HIDE DEF msg, S, W, I
<1>7. count(queue, W) = count(Tail(queue), W) + one_if(Head(queue), W)
      BY CountTail DEF one_if
<1>8. count(Append(to_node[port], msg), I) = count(to_node[port], I) + one_if(Head(queue), W)
      BY <1>5, <1>6, CountAppend DEF one_if
<1>9. /\ count(Tail(queue), W) \in Nat /\ count(to_node[port], I) \in Nat
      /\ one_if(Head(queue), W) \in Nat
  <2>1. Tail(queue) \in Seq(Unprocessed)
    <3> HIDE DEF Unprocessed
    <3>1. QED  OBVIOUS
  <2>2. QED  BY <1>6, <2>1, CountNat DEF one_if
<1>10. in_switch(port, f, id)' = count(Tail(queue), W) + count(Append(to_node[port], msg), I)
      BY <1>2 DEF in_switch, W, I
<1>11. QED  BY <1>2, <1>7, <1>8, <1>9, <1>10 DEF in_switch, W, I

\* The packet that is handed to a port is at that port then.
LEMMA SwitchGains ==
  ASSUME RingTypeOK, NEW port \in Ports, NEW pkt \in Unprocessed,
         send_packet_to_node(pkt, port), NEW f, NEW id
  PROVE  \A x \in Ports : in_switch(x, f, id)' =
           in_switch(x, f, id) + IF x = port THEN one_if(pkt, Waiting(f, id)) ELSE 0
<1> DEFINE queue == Append(m_queues[port], pkt)
           W == Waiting(f, id)
<1>1. m_queues[port] \in Seq(Unprocessed)  BY DEF RingTypeOK
<1>2. queue \in Seq(Unprocessed) /\ queue # <<>>
  <2> HIDE DEF Unprocessed
  <2>1. QED  BY <1>1
<1>3. count(queue, W) = count(m_queues[port], W) + one_if(pkt, W)
  <2> HIDE DEF W
  <2>1. QED  BY <1>1, CountAppend DEF one_if
<1>4. \A x \in Ports : /\ count(m_queues[x], W) \in Nat
                       /\ count(to_node[x], InFlight(f, id)) \in Nat
                       /\ in_switch(x, f, id) \in Nat
  <2> TAKE x \in Ports
  <2>1. m_queues[x] \in Seq(Unprocessed) /\ to_node[x] \in Seq([pkt : Unprocessed, at : Nat])
        BY DEF RingTypeOK
  <2>2. /\ count(m_queues[x], W) \in Nat /\ count(to_node[x], InFlight(f, id)) \in Nat
        BY <2>1, CountNat
  <2>3. QED  BY <2>2 DEF in_switch
<1>5. one_if(pkt, W) \in Nat  BY DEF one_if
<1>6. in_switch(port, f, id) = count(m_queues[port], W) + count(to_node[port], InFlight(f, id))
      BY DEF in_switch
<1> HIDE DEF queue, W
<1>7. SUFFICES /\ in_switch(port, f, id)' =
                    count(queue, W) + count(to_node[port], InFlight(f, id))
               /\ \A x \in Ports \ {port} : in_switch(x, f, id)' = in_switch(x, f, id)
      BY <1>3, <1>4, <1>5, <1>6 DEF W
<1>8. CASE send_packet_from_buffer_to_node(port, queue)
  <2>1. in_switch(port, f, id)' =
          count(queue, Waiting(f, id)) + count(to_node[port], InFlight(f, id))
        BY <1>2, <1>8, BufferKeepsCopies
  <2>2. \A x \in Ports \ {port} : in_switch(x, f, id)' = in_switch(x, f, id)
        BY <1>8, BufferLeavesOthers
  <2>3. QED  BY <2>1, <2>2 DEF W
<1>9. CASE /\ m_queues' = [m_queues EXCEPT ![port] = queue]
           /\ UNCHANGED <<m_self_msgs, to_node>>
  <2>1. /\ m_queues'[port] = queue
        /\ \A x \in Ports \ {port} : m_queues'[x] = m_queues[x]
        BY <1>9 DEF RingTypeOK
  <2>2. QED  BY <1>9, <2>1 DEF in_switch, W
<1>10. QED  BY <1>8, <1>9 DEF send_packet_to_node, queue

\* How the packets in the nodes change, of which OnceInv says where they are.
OnceAt(f, id) ==
  total(f, id) + count(sink, Arrived(f, id)) = IF <<f, id>> \in generated THEN 1 ELSE 0

\* A packet of the trace is new, and starts at one port.
LEMMA OnceGenerated ==
  ASSUME RingTypeOK, OnceInv, NEW f \in Flows, NEW id \in Ids,
         NEW g \in Flows, NEW k \in Ids, HandleGenerated(g, k)
  PROVE  OnceAt(f, id)'
<1> DEFINE pkt  == [flow |-> g, id |-> k, hop_cnt |-> 0]
           port == select_output_port(g)
           one  == one_if(pkt, Waiting(f, id))
<1>1. /\ send_packet_to_node(pkt, port) /\ UNCHANGED <<held, from_node, sink>>
      /\ <<g, k>> \notin generated /\ generated' = generated \cup {<<g, k>>}
      BY DEF HandleGenerated
<1>2. port \in Ports  BY FirstPort
<1>3. pkt \in Unprocessed  BY DEF Unprocessed
<1>4. one = IF f = g /\ id = k THEN 1 ELSE 0
      BY <1>3 DEF one_if, Waiting
<1> HIDE DEF pkt, port
<1>5. \A x \in Ports : in_switch(x, f, id)' = in_switch(x, f, id) + IF x = port THEN one ELSE 0
      BY <1>1, <1>2, <1>3, SwitchGains
<1>6. one \in Int  BY DEF one_if
<1> HIDE DEF one
<1>7. \A x \in Ports : in_node(x, f, id)' = in_node(x, f, id)
      BY <1>1 DEF in_node
<1>8. \A x \in Ports : in_switch(x, f, id) \in Nat /\ in_node(x, f, id) \in Nat
      BY PlacesNat DEF OnceInv
<1>9. total(f, id)' = total(f, id) + one + 0
  <2>1. \A x \in Ports : in_switch(x, f, id)' + in_node(x, f, id)' =
          in_switch(x, f, id) + in_node(x, f, id)
            + (IF x = port THEN one ELSE 0) + (IF x = port THEN 0 ELSE 0)
        BY <1>5, <1>6, <1>7, <1>8
  <2>2. QED  BY <1>2, <1>6, <2>1, TotalChanges
<1>10. total(f, id) \in Nat /\ count(sink, Arrived(f, id)) \in Nat
       BY TotalNat
<1>11. OnceAt(f, id)  BY DEF OnceInv, OnceAt
<1>12. count(sink, Arrived(f, id))' = count(sink, Arrived(f, id))
       BY <1>1
<1>13. <<f, id>> \in generated' <=> <<f, id>> \in generated \/ (f = g /\ id = k)
       BY <1>1
<1>14. CASE f = g /\ id = k
       BY <1>1, <1>4, <1>9, <1>10, <1>11, <1>12, <1>13, <1>14 DEF OnceAt
<1>15. CASE ~(f = g /\ id = k)
       BY <1>4, <1>9, <1>10, <1>11, <1>12, <1>13, <1>15 DEF OnceAt
<1>16. QED  BY <1>14, <1>15

\* A packet from a node goes to the sink or to the next port.
LEMMA OnceFromNode ==
  ASSUME RingTypeOK, OnceInv, NEW f \in Flows, NEW id \in Ids,
         NEW port \in Ports, HandleFromNode(port)
  PROVE  OnceAt(f, id)'
<1> DEFINE pkt == Head(from_node[port])
           one == one_if(pkt, Returning(f, id))
           minus == 0 - one
<1>1. /\ from_node[port] # <<>>
      /\ from_node' = [from_node EXCEPT ![port] = Tail(from_node[port])]
      /\ UNCHANGED <<generated, held>>
      BY DEF HandleFromNode
<1>2. from_node[port] \in Seq(Forwarded)  BY DEF RingTypeOK
<1>3. pkt \in Forwarded /\ Tail(from_node[port]) \in Seq(Forwarded)
  <2> HIDE DEF Forwarded
  <2>1. QED  BY <1>1, <1>2
<1>4. count(from_node[port], Returning(f, id)) =
        count(Tail(from_node[port]), Returning(f, id)) + one
      BY <1>1, <1>2, CountTail DEF one_if
<1> HIDE DEF pkt
<1>5. one \in Nat /\ minus \in Int /\ minus = 0 - one  BY DEF one_if
<1> HIDE DEF minus
<1>6. \A x \in Ports : in_switch(x, f, id) \in Nat /\ in_node(x, f, id) \in Nat
      BY PlacesNat DEF OnceInv
<1>7. \A x \in Ports : in_node(x, f, id)' = in_node(x, f, id) + IF x = port THEN minus ELSE 0
  <2>1. /\ from_node'[port] = Tail(from_node[port])
        /\ \A x \in Ports \ {port} : from_node'[x] = from_node[x]
        BY <1>1 DEF RingTypeOK
  <2>2. count(Tail(from_node[port]), Returning(f, id)) \in Nat
        BY <1>3, CountNat
  <2> HIDE DEF one
  <2>3. \A x \in Ports \ {port} : in_node(x, f, id)' = in_node(x, f, id)
        BY <1>1, <2>1 DEF in_node
  <2>4. in_node(port, f, id)' = in_node(port, f, id) + minus
    <3>1. in_node(port, f, id)' =
            count(Tail(from_node[port]), Returning(f, id))
              + Cardinality(held[port] \cap Waiting(f, id))
          BY <1>1, <2>1 DEF in_node
    <3>2. in_node(port, f, id) =
            count(from_node[port], Returning(f, id))
              + Cardinality(held[port] \cap Waiting(f, id))
          BY DEF in_node
    <3>3. Cardinality(held[port] \cap Waiting(f, id)) \in Nat
          BY PlacesNat DEF OnceInv
    <3>4. QED  BY <1>4, <1>5, <2>2, <3>1, <3>2, <3>3
  <2>5. ASSUME NEW x \in Ports
        PROVE  in_node(x, f, id)' = in_node(x, f, id) + IF x = port THEN minus ELSE 0
    <3>1. CASE x = port  BY <2>4, <3>1
    <3>2. CASE x # port  BY <1>6, <2>3, <3>2
    <3>3. QED  BY <3>1, <3>2
  <2>6. QED  BY <2>5
<1>8. OnceAt(f, id)  BY DEF OnceInv, OnceAt
<1>9. total(f, id) \in Nat /\ count(sink, Arrived(f, id)) \in Nat
      BY TotalNat
<1>10. CASE send_packet_to_sink(pkt, port) /\ UNCHANGED switchVars
  <2> DEFINE m == [pkt |-> pkt, port |-> port]
             S == [pkt : Forwarded, port : Ports]
  <2>1. \A x \in Ports : in_switch(x, f, id)' = in_switch(x, f, id)
        BY <1>10 DEF switchVars, in_switch
  <2>2. total(f, id)' = total(f, id) + minus + 0
    <3> HIDE DEF one
    <3>1. \A x \in Ports : in_switch(x, f, id)' + in_node(x, f, id)' =
            in_switch(x, f, id) + in_node(x, f, id)
              + (IF x = port THEN minus ELSE 0) + (IF x = port THEN 0 ELSE 0)
          BY <1>5, <1>6, <1>7, <2>1
    <3>2. QED  BY <1>5, <3>1, TotalChanges
  <2>3. m \in Arrived(f, id) <=> pkt \in Returning(f, id)
        BY <1>3 DEF Arrived
  <2>4. sink' = Append(sink, m) /\ sink \in Seq(S)
        BY <1>10 DEF send_packet_to_sink, RingTypeOK
  <2> HIDE DEF m, S
  <2>5. count(sink', Arrived(f, id)) = count(sink, Arrived(f, id)) + one
        BY <2>3, <2>4, CountAppend DEF one_if
  <2>6. count(sink, Arrived(f, id))' = count(sink, Arrived(f, id)) + one
        BY <2>5
  <2> HIDE DEF one
  <2>7. QED  BY <1>1, <1>5, <1>8, <1>9, <2>2, <2>6 DEF OnceAt
<1>11. CASE /\ UNCHANGED sink
            /\ send_packet_to_node([flow |-> pkt.flow, id |-> pkt.id, hop_cnt |-> pkt.hop_cnt],
                                   next_port(pkt.flow, port))
  <2> DEFINE p == [flow |-> pkt.flow, id |-> pkt.id, hop_cnt |-> pkt.hop_cnt]
             q == next_port(pkt.flow, port)
  <2>1. q \in Ports
        BY RingAssumption DEF next_port, Ports
  <2>2. p \in Unprocessed  BY <1>3 DEF Forwarded, Unprocessed
  <2>3. one_if(p, Waiting(f, id)) = one
        BY <1>3, <2>2 DEF one_if, Waiting, Returning
  <2> HIDE DEF p, q, one
  <2>4. \A x \in Ports : in_switch(x, f, id)' = in_switch(x, f, id) + IF x = q THEN one ELSE 0
    <3>1. send_packet_to_node(p, q)  BY <1>11 DEF p, q
    <3>2. QED  BY <2>1, <2>2, <2>3, <3>1, SwitchGains
  <2>5. total(f, id)' = total(f, id) + minus + one
    <3>1. \A x \in Ports : in_switch(x, f, id)' + in_node(x, f, id)' =
            in_switch(x, f, id) + in_node(x, f, id)
              + (IF x = port THEN minus ELSE 0) + (IF x = q THEN one ELSE 0)
          BY <1>5, <1>6, <1>7, <2>4
    <3>2. QED  BY <1>5, <2>1, <3>1, TotalChanges
  <2>6. total(f, id)' = total(f, id)  BY <1>5, <1>9, <2>5
  <2>7. QED  BY <1>1, <1>8, <1>11, <2>6 DEF OnceAt
<1>12. QED  BY <1>10, <1>11 DEF HandleFromNode, pkt

\* Within a port and its node a packet only changes its form.
LEMMA OnceAtPort ==
  ASSUME RingTypeOK, OnceInv, NEW f \in Flows, NEW id \in Ids,
         UNCHANGED <<generated, sink>>,
         \A x \in Ports : in_switch(x, f, id)' + in_node(x, f, id)' =
                            in_switch(x, f, id) + in_node(x, f, id)
  PROVE  OnceAt(f, id)'
<1>1. in_ring(f, id)' = in_ring(f, id)
      BY DEF in_ring
<1>2. total(f, id)' = total(f, id)
      BY <1>1 DEF total
<1>3. OnceAt(f, id)  BY DEF OnceInv, OnceAt
<1>4. QED  BY <1>2, <1>3 DEF OnceAt

\* The packets in a node, when one comes or goes.
LEMMA CountHeld ==
  ASSUME NEW H, IsFiniteSet(H), NEW M, NEW p
  PROVE  /\ IsFiniteSet(H \cup {p}) /\ IsFiniteSet(H \ {p})
         /\ Cardinality(H \cap M) \in Nat
         /\ p \notin H => Cardinality((H \cup {p}) \cap M) = Cardinality(H \cap M) + one_if(p, M)
         /\ p \in H => Cardinality(H \cap M) = Cardinality((H \ {p}) \cap M) + one_if(p, M)
<1>1. IsFiniteSet(H \cap M) /\ IsFiniteSet((H \ {p}) \cap M)
  <2>1. H \cap M \in SUBSET H /\ (H \ {p}) \cap M \in SUBSET H  OBVIOUS
  <2>2. QED  BY <2>1, FS_Subset
<1>2. Cardinality(H \cap M) \in Nat /\ Cardinality((H \ {p}) \cap M) \in Nat
      BY <1>1, FS_CardinalityType
<1>3. IsFiniteSet(H \cup {p}) /\ IsFiniteSet(H \ {p})
      BY FS_AddElement, FS_RemoveElement
<1>4. \A T : IsFiniteSet(T) /\ p \notin T => Cardinality(T \cup {p}) = Cardinality(T) + 1
      BY FS_AddElement
<1>5. ASSUME p \notin H
      PROVE  Cardinality((H \cup {p}) \cap M) = Cardinality(H \cap M) + one_if(p, M)
  <2>1. CASE p \in M
    <3>1. (H \cup {p}) \cap M = (H \cap M) \cup {p} /\ p \notin H \cap M  BY <1>5, <2>1
    <3>2. QED  BY <1>1, <1>4, <2>1, <3>1 DEF one_if
  <2>2. CASE p \notin M
    <3>1. (H \cup {p}) \cap M = H \cap M  BY <2>2
    <3>2. Cardinality((H \cup {p}) \cap M) = Cardinality(H \cap M)  BY <3>1
    <3>3. one_if(p, M) = 0  BY <2>2 DEF one_if
    <3>4. QED  BY <1>2, <3>2, <3>3
  <2>3. QED  BY <2>1, <2>2
<1>6. ASSUME p \in H
      PROVE  Cardinality(H \cap M) = Cardinality((H \ {p}) \cap M) + one_if(p, M)
  <2>1. CASE p \in M
    <3>1. H \cap M = ((H \ {p}) \cap M) \cup {p} /\ p \notin (H \ {p}) \cap M  BY <1>6, <2>1
    <3>2. QED  BY <1>1, <1>4, <2>1, <3>1 DEF one_if
  <2>2. CASE p \notin M
    <3>1. (H \ {p}) \cap M = H \cap M  BY <2>2
    <3>2. QED  BY <1>2, <2>2, <3>1 DEF one_if
  <2>3. QED  BY <2>1, <2>2
<1>7. QED  BY <1>2, <1>3, <1>5, <1>6

\* The packet a node takes from its link is not in the node yet.
LEMMA NotHeld ==
  ASSUME RingTypeOK, OnceInv, NEW port \in Ports, to_node[port] # <<>>
  PROVE  Head(to_node[port]).pkt \notin held[port]
<1> DEFINE m == Head(to_node[port])
           S == [pkt : Unprocessed, at : Nat]
<1>1. SUFFICES ASSUME m.pkt \in held[port] PROVE FALSE
      OBVIOUS
<1>2. to_node[port] \in Seq(S)  BY DEF RingTypeOK
<1>3. m \in S
  <2> HIDE DEF S
  <2>1. QED  BY <1>2
<1>4. PICK f \in Flows, id \in Ids : m.pkt.flow = f /\ m.pkt.id = id
  <2>1. m.pkt \in Unprocessed  BY <1>3
  <2>2. QED  BY <2>1 DEF Unprocessed
<1>5. m \in InFlight(f, id) /\ m.pkt \in Waiting(f, id)
      BY <1>3, <1>4 DEF InFlight, Waiting
<1>6. count(to_node[port], InFlight(f, id)) >= 1
  <2>1. Tail(to_node[port]) \in Seq(S)
    <3> HIDE DEF S
    <3>1. QED  BY <1>2
  <2>2. count(Tail(to_node[port]), InFlight(f, id)) \in Nat  BY <2>1, CountNat
  <2> HIDE DEF S
  <2>3. count(to_node[port], InFlight(f, id)) = count(Tail(to_node[port]), InFlight(f, id)) + 1
        BY <1>2, <1>5, CountTail
  <2>4. QED  BY <2>2, <2>3
<1> DEFINE H == held[port] \cap Waiting(f, id)
<1>7. Cardinality(H) >= 1
  <2>1. m.pkt \in H  BY <1>1, <1>5
  <2>2. IsFiniteSet(held[port]) /\ H \in SUBSET held[port]  BY DEF OnceInv
  <2> HIDE DEF H
  <2>3. IsFiniteSet(H)  BY <2>2, FS_Subset
  <2>4. Cardinality(H) \in Nat /\ Cardinality(H) # 0
        BY <2>1, <2>3, FS_CardinalityType, FS_EmptySet
  <2>5. QED  BY <2>4
<1>8. in_ring(f, id)[port] =
        (count(m_queues[port], Waiting(f, id)) + count(to_node[port], InFlight(f, id)))
          + (count(from_node[port], Returning(f, id)) + Cardinality(H))
      BY DEF in_ring, in_switch, in_node
<1>9. /\ count(m_queues[port], Waiting(f, id)) \in Nat
      /\ count(to_node[port], InFlight(f, id)) \in Nat
      /\ count(from_node[port], Returning(f, id)) \in Nat
      /\ Cardinality(H) \in Nat
      BY PlacesNat DEF OnceInv
<1> HIDE DEF H
<1>10. in_ring(f, id)[port] <= 1  BY TotalNat
<1>11. QED  BY <1>6, <1>7, <1>8, <1>9, <1>10

\* A node takes a packet from its link.
LEMMA OnceNodeTakes ==
  ASSUME RingTypeOK, OnceInv, NEW f \in Flows, NEW id \in Ids,
         NEW port \in Ports, NodeTakes(port)
  PROVE  OnceAt(f, id)'
<1> DEFINE m == Head(to_node[port])
           S == [pkt : Unprocessed, at : Nat]
           one == one_if(m.pkt, Waiting(f, id))
           H == held[port]
<1>1. /\ to_node[port] # <<>>
      /\ to_node' = [to_node EXCEPT ![port] = Tail(to_node[port])]
      /\ held' = [held EXCEPT ![port] = H \cup {m.pkt}]
      /\ UNCHANGED <<generated, m_queues, from_node, sink>>
      BY DEF NodeTakes
<1>2. /\ to_node'[port] = Tail(to_node[port]) /\ held'[port] = H \cup {m.pkt}
      /\ \A x \in Ports \ {port} : to_node'[x] = to_node[x] /\ held'[x] = held[x]
      BY <1>1 DEF RingTypeOK
<1>3. to_node[port] \in Seq(S)  BY DEF RingTypeOK
<1>4. m \in S /\ Tail(to_node[port]) \in Seq(S)
  <2> HIDE DEF S
  <2>1. QED  BY <1>1, <1>3
<1>5. m \in InFlight(f, id) <=> m.pkt \in Waiting(f, id)
      BY <1>4 DEF InFlight
<1>6. m.pkt \notin H  BY <1>1, NotHeld
<1> HIDE DEF m, S, H
<1>7. count(to_node[port], InFlight(f, id)) =
        count(Tail(to_node[port]), InFlight(f, id)) + one
      BY <1>1, <1>3, <1>5, CountTail DEF one_if, m
<1>8. IsFiniteSet(H)  BY DEF OnceInv, H
<1>9. Cardinality((H \cup {m.pkt}) \cap Waiting(f, id)) =
        Cardinality(H \cap Waiting(f, id)) + one
      BY <1>6, <1>8, CountHeld
<1>10. one \in Nat /\ count(Tail(to_node[port]), InFlight(f, id)) \in Nat
       BY <1>4, CountNat DEF one_if
<1> HIDE DEF one
<1>11. in_switch(port, f, id)' + in_node(port, f, id)' =
         in_switch(port, f, id) + in_node(port, f, id)
  <2>1. in_switch(port, f, id)' =
          count(m_queues[port], Waiting(f, id)) + count(Tail(to_node[port]), InFlight(f, id))
        BY <1>1, <1>2 DEF in_switch
  <2>2. in_node(port, f, id)' =
          count(from_node[port], Returning(f, id))
            + Cardinality((H \cup {m.pkt}) \cap Waiting(f, id))
        BY <1>1, <1>2 DEF in_node
  <2>3. /\ in_switch(port, f, id) =
             count(m_queues[port], Waiting(f, id)) + count(to_node[port], InFlight(f, id))
        /\ in_node(port, f, id) =
             count(from_node[port], Returning(f, id)) + Cardinality(H \cap Waiting(f, id))
        BY DEF in_switch, in_node, H
  <2>4. /\ count(m_queues[port], Waiting(f, id)) \in Nat
        /\ count(from_node[port], Returning(f, id)) \in Nat
        /\ Cardinality(H \cap Waiting(f, id)) \in Nat
        BY PlacesNat DEF OnceInv, H
  <2>5. QED  BY <1>7, <1>9, <1>10, <2>1, <2>2, <2>3, <2>4
<1>12. \A x \in Ports \ {port} : in_switch(x, f, id)' = in_switch(x, f, id)
                                  /\ in_node(x, f, id)' = in_node(x, f, id)
       BY <1>1, <1>2 DEF in_switch, in_node
<1>13. QED  BY <1>1, <1>11, <1>12, OnceAtPort

\* A node lets a packet go.
LEMMA OnceForwards ==
  ASSUME RingTypeOK, RingInv, OnceInv, NEW f \in Flows, NEW id \in Ids,
         NEW port \in Ports, NEW p \in held[port], NEW done \in BOOLEAN,
         NodeForwards(port, p, done)
  PROVE  OnceAt(f, id)'
<1> DEFINE pkt == [flow |-> p.flow, id |-> p.id, hop_cnt |-> p.hop_cnt + 1, done |-> done]
           one == one_if(p, Waiting(f, id))
           H == held[port]
           R == from_node[port]
<1>1. /\ held' = [held EXCEPT ![port] = H \ {p}]
      /\ from_node' = [from_node EXCEPT ![port] = Append(R, pkt)]
      /\ UNCHANGED <<generated, m_queues, to_node, sink>>
      BY DEF NodeForwards, switchVars
<1>2. /\ held'[port] = H \ {p} /\ from_node'[port] = Append(R, pkt)
      /\ \A x \in Ports \ {port} : held'[x] = held[x] /\ from_node'[x] = from_node[x]
      BY <1>1 DEF RingTypeOK
<1>3. pkt \in Returning(f, id) <=> p \in Waiting(f, id)
  <2>1. p \in GoodAt(port)  BY DEF RingInv, NodesOK
  <2>2. p \in Unprocessed /\ p.hop_cnt \in 0..255 /\ p.hop_cnt < MaxHopCnt
        BY <2>1 DEF GoodAt, Unprocessed
  <2>3. p.hop_cnt + 1 \in 0..255
    <3>1. \A h \in 0..255 : h < MaxHopCnt => h + 1 \in 0..255
          BY RingAssumption
    <3>2. QED  BY <2>2, <3>1
  <2>4. pkt \in Forwarded  BY <2>2, <2>3 DEF Unprocessed, Forwarded
  <2>5. QED  BY <2>2, <2>4 DEF Returning, Waiting
<1>4. R \in Seq(Forwarded)  BY DEF RingTypeOK
<1> HIDE DEF pkt, H, R
<1>5. count(Append(R, pkt), Returning(f, id)) = count(R, Returning(f, id)) + one
      BY <1>3, <1>4, CountAppend DEF one_if
<1>6. IsFiniteSet(H) /\ p \in H  BY DEF OnceInv, H
<1>7. /\ IsFiniteSet(H \ {p})
      /\ Cardinality(H \cap Waiting(f, id)) = Cardinality((H \ {p}) \cap Waiting(f, id)) + one
      BY <1>6, CountHeld
<1>8. one \in Nat /\ Cardinality((H \ {p}) \cap Waiting(f, id)) \in Nat
      BY <1>7, CountHeld DEF one_if
<1> HIDE DEF one
<1>9. in_node(port, f, id)' = in_node(port, f, id)
  <2>1. in_node(port, f, id)' =
          count(Append(R, pkt), Returning(f, id))
            + Cardinality((H \ {p}) \cap Waiting(f, id))
        BY <1>2 DEF in_node
  <2>2. in_node(port, f, id) =
          count(R, Returning(f, id)) + Cardinality(H \cap Waiting(f, id))
        BY DEF in_node, H, R
  <2>3. count(R, Returning(f, id)) \in Nat
        BY <1>4, CountNat
  <2>4. QED  BY <1>5, <1>7, <1>8, <2>1, <2>2, <2>3
<1>10. \A x \in Ports : in_switch(x, f, id)' = in_switch(x, f, id)
       BY <1>1 DEF in_switch
<1>11. \A x \in Ports \ {port} : in_node(x, f, id)' = in_node(x, f, id)
       BY <1>1, <1>2 DEF in_node
<1>12. QED  BY <1>1, <1>9, <1>10, <1>11, OnceAtPort

\* The self-message of a port lets the next packet of its queue go.
LEMMA OnceSelf ==
  ASSUME RingTypeOK, OnceInv, NEW f \in Flows, NEW id \in Ids,
         NEW port \in Ports, HandleSelf(port)
  PROVE  OnceAt(f, id)'
<1>1. UNCHANGED <<generated, held, from_node, sink>>
      BY DEF HandleSelf
<1>2. \A x \in Ports : in_node(x, f, id)' = in_node(x, f, id)
      BY <1>1 DEF in_node
<1>3. \A x \in Ports : in_switch(x, f, id)' = in_switch(x, f, id)
  <2>1. CASE UNCHANGED <<m_queues, to_node>>
        BY <2>1 DEF in_switch
  <2>2. CASE /\ m_queues[port] # <<>>
             /\ send_packet_from_buffer_to_node(port, m_queues[port])
    <3>1. m_queues[port] \in Seq(Unprocessed)  BY DEF RingTypeOK
    <3>2. in_switch(port, f, id)' =
            count(m_queues[port], Waiting(f, id)) + count(to_node[port], InFlight(f, id))
          BY <2>2, <3>1, BufferKeepsCopies
    <3>3. \A x \in Ports \ {port} : in_switch(x, f, id)' = in_switch(x, f, id)
          BY <2>2, BufferLeavesOthers
    <3>4. QED  BY <3>2, <3>3 DEF in_switch
  <2>3. QED  BY <2>1, <2>2 DEF HandleSelf
<1>4. QED  BY <1>1, <1>2, <1>3, OnceAtPort

\* A node holds finitely many packets.
LEMMA HeldFinite ==
  ASSUME RingTypeOK, [RingNext]_ringVars, \A x \in Ports : IsFiniteSet(held[x])
  PROVE  \A x \in Ports : IsFiniteSet(held'[x])
<1>1. CASE UNCHANGED held
      BY <1>1
<1>2. ASSUME NEW port \in Ports, NodeTakes(port)
      PROVE  \A x \in Ports : IsFiniteSet(held'[x])
  <2>1. /\ held'[port] = held[port] \cup {Head(to_node[port]).pkt}
        /\ \A x \in Ports \ {port} : held'[x] = held[x]
        BY <1>2 DEF NodeTakes, RingTypeOK
  <2>2. \A q : IsFiniteSet(held[port] \cup {q})  BY FS_AddElement
  <2>3. QED  BY <2>1, <2>2
<1>3. ASSUME NEW port \in Ports, NEW p \in held[port], NEW done \in BOOLEAN,
             NodeForwards(port, p, done)
      PROVE  \A x \in Ports : IsFiniteSet(held'[x])
  <2>1. /\ held'[port] = held[port] \ {p}
        /\ \A x \in Ports \ {port} : held'[x] = held[x]
        BY <1>3 DEF NodeForwards, RingTypeOK
  <2>2. QED  BY <2>1, FS_RemoveElement
<1>4. QED  BY <1>1, <1>2, <1>3
           DEF RingNext, HandleGenerated, HandleFromNode, HandleSelf, RingTick, ringVars

\* Every step preserves OnceInv.
LEMMA OnceStep == RingInv /\ OnceInv /\ [RingNext]_ringVars => OnceInv'
<1> SUFFICES ASSUME RingInv, OnceInv, [RingNext]_ringVars PROVE OnceInv'
    OBVIOUS
<1>0. RingTypeOK  BY TypesKept
<1>1. \A x \in Ports : IsFiniteSet(held'[x])
      BY <1>0, HeldFinite DEF OnceInv
<1>2. SUFFICES ASSUME NEW f \in Flows, NEW id \in Ids
               PROVE  OnceAt(f, id)'
      BY <1>1 DEF OnceInv, OnceAt
<1>3. ASSUME UNCHANGED <<generated, switchVars, held, from_node, sink>>
      PROVE  OnceAt(f, id)'
  <2>1. \A x \in Ports : /\ in_switch(x, f, id)' = in_switch(x, f, id)
                         /\ in_node(x, f, id)' = in_node(x, f, id)
        BY <1>3 DEF switchVars, in_switch, in_node
  <2>2. QED  BY <1>0, <1>3, <2>1, OnceAtPort
<1>4. ASSUME NEW g \in Flows, NEW k \in Ids, HandleGenerated(g, k)
      PROVE  OnceAt(f, id)'
      BY <1>0, <1>4, OnceGenerated
<1>5. ASSUME NEW port \in Ports, HandleFromNode(port)
      PROVE  OnceAt(f, id)'
      BY <1>0, <1>5, OnceFromNode
<1>6. ASSUME NEW port \in Ports, HandleSelf(port)
      PROVE  OnceAt(f, id)'
      BY <1>0, <1>6, OnceSelf
<1>7. ASSUME NEW port \in Ports, NodeTakes(port)
      PROVE  OnceAt(f, id)'
      BY <1>0, <1>7, OnceNodeTakes
<1>8. ASSUME NEW port \in Ports, NEW p \in held[port], NEW done \in BOOLEAN,
             NodeForwards(port, p, done)
      PROVE  OnceAt(f, id)'
      BY <1>0, <1>8, OnceForwards
<1>9. CASE RingTick
      BY <1>3, <1>9 DEF RingTick
<1>10. CASE UNCHANGED ringVars
      BY <1>3, <1>10 DEF ringVars
<1>11. QED  BY <1>4, <1>5, <1>6, <1>7, <1>8, <1>9, <1>10 DEF RingNext

\* The network starts with no packet in it.
LEMMA OnceStart == RingInit => OnceInv
<1> SUFFICES ASSUME RingInit PROVE OnceInv
    OBVIOUS
<1>1. \A port \in Ports : IsFiniteSet(held[port])
      BY FS_EmptySet DEF RingInit
<1>2. \A M : count(<<>>, M) = 0
  <2>1. \A M : hits(<<>>, M) = {}  BY DEF hits
  <2>2. QED  BY <2>1, FS_EmptySet DEF count
<1>3. ASSUME NEW f \in Flows, NEW id \in Ids
      PROVE  total(f, id) + count(sink, Arrived(f, id)) = IF <<f, id>> \in generated THEN 1 ELSE 0
  <2>1. ASSUME NEW x \in Ports
        PROVE  in_switch(x, f, id) + in_node(x, f, id) = 0
    <3>1. m_queues[x] = <<>> /\ to_node[x] = <<>> /\ from_node[x] = <<>> /\ held[x] = {}
          BY DEF RingInit
    <3>2. held[x] \cap Waiting(f, id) = {}  BY <3>1
    <3>3. QED  BY <1>2, <3>1, <3>2, FS_EmptySet DEF in_switch, in_node
  <2>2. in_ring(f, id) = [x \in Ports |-> 0]  BY <2>1 DEF in_ring
  <2>3. IsFiniteSet(Ports)
    <3>1. NPorts - 1 \in Int  BY RingAssumption
    <3>2. QED  BY <3>1, FS_Interval DEF Ports
  <2>4. total(f, id) = 0  BY <2>2, <2>3, SumZero DEF total
  <2>5. QED  BY <1>2, <2>4 DEF RingInit
<1>4. QED  BY <1>1, <1>3 DEF OnceInv

\* Wherever the nodes send a packet on, and however many packets the trace has,
\* a packet is neither lost nor duplicated, for every number of nodes.
THEOREM PacketsAreConserved == RingSpec => []ExactlyOnce
<1>1. RingInv /\ OnceInv => ExactlyOnce
      BY TypesKept, CopiesCounted DEF OnceInv, ExactlyOnce
<1>2. QED  BY <1>1, OnceStart, OnceStep, RingInvariant, PTL DEF RingSpec
=============================================================================
