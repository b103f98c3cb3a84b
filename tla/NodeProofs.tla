----------------------------- MODULE NodeProofs -----------------------------
(***************************************************************************)
(* Proofs about a Node.  First about Processing alone, for every number of *)
(* cores, every threshold and every sequence of arrivals; about Offload    *)
(* alone, for every size of the hash table, every timeout and hash         *)
(* function, and whatever the unwritten fields of the table hold; then     *)
(* that composing the modules keeps what was proved of each of them, and   *)
(* what only the composition can show.                                     *)
(***************************************************************************)
EXTENDS Node, SumProofs, SequenceTheorems, FunctionTheorems

-----------------------------------------------------------------------------
(* Processing with its OffloadTrigger.                                     *)

\* Packets reach the queue their context names and are not processed yet.
Routed ==
  /\ \A i \in DOMAIN out_proc : /\ out_proc[i].rx_queue \in Cores
                                /\ ~out_proc[i].processing_done
  /\ \A c \in Cores : \A i \in DOMAIN rx_queue[c] : rx_queue[c][i].rx_queue = c

CoreInv == ProcTypeOK /\ Routed /\ CoreConsistent /\ BusyCountExact

-----------------------------------------------------------------------------
\* Cores is finite, and so is every set of cores.
LEMMA CoresFinite == \A S \in SUBSET Cores : IsFiniteSet(S)
<1>1. NCores - 1 \in Int  BY CoresAssumption
<1>2. IsFiniteSet(Cores)  BY <1>1, FS_Interval DEF Cores
<1>3. QED  BY <1>2, FS_Subset

\* The elements of a sequence after an insertion and after a removal.
LEMMA AppendElements ==
  ASSUME NEW S, NEW seq \in Seq(S), NEW x \in S
  PROVE  /\ Append(seq, x) \in Seq(S) /\ Append(seq, x) # <<>>
         /\ Len(Append(seq, x)) = Len(seq) + 1
         /\ DOMAIN Append(seq, x) = 1 .. Len(seq) + 1
         /\ \A i \in DOMAIN Append(seq, x) :
              Append(seq, x)[i] = IF i \in DOMAIN seq THEN seq[i] ELSE x
OBVIOUS

\* What the elements of the tail of a sequence are.
LEMMA TailElements ==
  ASSUME NEW S, NEW seq \in Seq(S), seq # <<>>
  PROVE  /\ Head(seq) = seq[1] /\ 1 \in DOMAIN seq
         /\ Tail(seq) \in Seq(S)
         /\ Len(Tail(seq)) = Len(seq) - 1
         /\ \A i \in DOMAIN Tail(seq) : /\ Tail(seq)[i] = seq[i + 1]
                                        /\ i + 1 \in DOMAIN seq
OBVIOUS

\* What the accessors of Packet do to its type.
LEMMA PacketOps ==
  ASSUME NEW pkt \in Packets, NEW t \in Nat
  PROVE  /\ set_processing_done(pkt) \in Packets
         /\ set_processing_done(pkt).rx_queue = pkt.rx_queue
         /\ set_processing_done(pkt).processing_done
         /\ delivered(pkt, t) \in Packets
         /\ pkt.instr \in Nat \ {0}
BY InputsAssumption DEF Packets, set_processing_done, delivered

\* report_queue_len keeps the types and changes only the flag of its queue.
LEMMA ReportEffect ==
  ASSUME NEW q \in Cores, NEW len \in Nat,
         m_offload_enabled \in [Cores -> BOOLEAN],
         offloadTriggerOut \in Seq(TriggerMsgs),
         report_queue_len(q, len)
  PROVE  /\ m_offload_enabled' \in [Cores -> BOOLEAN]
         /\ offloadTriggerOut' \in Seq(TriggerMsgs)
         /\ \A c \in Cores \ {q} : m_offload_enabled'[c] = m_offload_enabled[c]
         /\ TriggerEnabled => (m_offload_enabled'[q] <=> len > Threshold)
         /\ ~TriggerEnabled => UNCHANGED triggerVars
         /\ \/ UNCHANGED triggerVars
            \/ offloadTriggerOut' =
                 Append(offloadTriggerOut,
                        [queueId |-> q, active |-> m_offload_enabled'[q]])
<1>1. ASSUME NEW b \in BOOLEAN, set_offload_enable(q, b)
      PROVE  /\ m_offload_enabled' \in [Cores -> BOOLEAN]
             /\ offloadTriggerOut' \in Seq(TriggerMsgs)
             /\ m_offload_enabled'[q] = b
             /\ \A c \in Cores \ {q} : m_offload_enabled'[c] = m_offload_enabled[c]
             /\ offloadTriggerOut' =
                  Append(offloadTriggerOut,
                         [queueId |-> q, active |-> m_offload_enabled'[q]])
      BY <1>1 DEF set_offload_enable, TriggerMsgs
<1>2. CASE TriggerEnabled /\ m_offload_enabled[q] /\ len <= Threshold /\ set_offload_enable(q, FALSE)
  <2>1. ~(len > Threshold)  BY <1>2, TriggerAssumption
  <2>2. QED  BY <1>1, <1>2, <2>1
<1>3. CASE TriggerEnabled /\ ~m_offload_enabled[q] /\ len > Threshold /\ set_offload_enable(q, TRUE)
  BY <1>3, <1>1
<1>4. CASE /\ TriggerEnabled => (m_offload_enabled[q] <=> len > Threshold)
           /\ UNCHANGED triggerVars
      BY <1>4 DEF triggerVars
<1>5. QED  BY <1>2, <1>3, <1>4 DEF report_queue_len

\* process_packet schedules the self-message of its core, for the packet at
\* the head of the queue and later than now, and leaves the other cores alone.
LEMMA PopEffect ==
  ASSUME NEW c \in Cores, NEW queue \in Seq(Packets), queue # <<>>,
         \A i \in DOMAIN queue : queue[i].rx_queue = c,
         ProcTypeOK, process_packet(c, queue)
  PROVE  /\ rx_queue' \in [Cores -> Seq(Packets)]
         /\ rx_queue'[c] = Tail(queue)
         /\ \A i \in DOMAIN rx_queue'[c] : rx_queue'[c][i].rx_queue = c
         /\ msg_proc_done' \in [Cores -> DoneMsgs \cup {NoMsg}]
         /\ msg_proc_done'[c] \in DoneMsgs
         /\ msg_proc_done'[c].at > now
         /\ msg_proc_done'[c].pkt.rx_queue = c
         /\ msg_proc_done'[c].pkt.processing_done
         /\ \A d \in Cores \ {c} : /\ rx_queue'[d] = rx_queue[d]
                                   /\ msg_proc_done'[d] = msg_proc_done[d]
<1> DEFINE done == [pkt |-> set_processing_done(Head(queue)),
                    at  |-> now + Head(queue).instr]
<1>1. Head(queue) \in Packets /\ Head(queue).rx_queue = c /\ Tail(queue) \in Seq(Packets)
      OBVIOUS
<1>2. now \in Nat  BY DEF ProcTypeOK, WiresTypeOK
<1>3. done \in DoneMsgs /\ done.at > now
      BY <1>1, <1>2, PacketOps DEF DoneMsgs
<1>4. done.pkt.rx_queue = c /\ done.pkt.processing_done
      BY <1>1, <1>2, PacketOps
<1>5. \A i \in DOMAIN Tail(queue) : Tail(queue)[i].rx_queue = c
      OBVIOUS
<1>6. /\ rx_queue' = [rx_queue EXCEPT ![c] = Tail(queue)]
      /\ msg_proc_done' = [msg_proc_done EXCEPT ![c] = done]
      BY DEF process_packet
<1> HIDE DEF done
<1>7. QED  BY <1>1, <1>3, <1>4, <1>5, <1>6 DEF ProcTypeOK

-----------------------------------------------------------------------------
\* set_busy keeps the counter equal to the number of busy cores.
LEMMA BusyCount ==
  ASSUME NEW c \in Cores, NEW b \in BOOLEAN,
         busy \in [Cores -> BOOLEAN], BusyCountExact,
         busy[c] # b, set_busy(c, b)
  PROVE  /\ busy' \in [Cores -> BOOLEAN]
         /\ busy'[c] = b
         /\ \A d \in Cores \ {c} : busy'[d] = busy[d]
         /\ m_n_cores_busy' \in Nat
         /\ BusyCountExact'
<1> DEFINE B == {d \in Cores : busy[d]}
<1>1. IsFiniteSet(B) /\ Cardinality(B) \in Nat
      BY CoresFinite, FS_CardinalityType
<1>2. busy' = [busy EXCEPT ![c] = b]  BY DEF set_busy
<1>3. m_n_cores_busy = Cardinality(B)  BY DEF BusyCountExact
<1>4. CASE b
  <2>1. c \notin B  BY <1>4
  <2>2. {d \in Cores : busy'[d]} = B \cup {c}  BY <1>2, <1>4
  <2>3. Cardinality(B \cup {c}) = Cardinality(B) + 1
        BY <1>1, <2>1, FS_AddElement
  <2>4. m_n_cores_busy' = m_n_cores_busy + 1  BY <1>4 DEF set_busy
  <2>5. m_n_cores_busy' = Cardinality({d \in Cores : busy'[d]})
        BY <1>3, <2>2, <2>3, <2>4
  <2>6. m_n_cores_busy' \in Nat  BY <1>1, <1>3, <2>4
  <2>7. QED  BY <1>2, <1>4, <2>5, <2>6 DEF BusyCountExact
<1>5. CASE ~b
  <2>1. c \in B  BY <1>5
  <2>2. {d \in Cores : busy'[d]} = B \ {c}  BY <1>2, <1>5
  <2>3. IsFiniteSet(B \ {c}) /\ Cardinality(B \ {c}) = Cardinality(B) - 1
        BY <1>1, <2>1, FS_RemoveElement
  <2>4. Cardinality(B \ {c}) \in Nat  BY <2>3, FS_CardinalityType
  <2>5. m_n_cores_busy' = m_n_cores_busy - 1  BY <1>5 DEF set_busy
  <2>6. BusyCountExact' /\ m_n_cores_busy' \in Nat
        BY <1>3, <2>2, <2>3, <2>4, <2>5 DEF BusyCountExact
  <2>7. QED  BY <1>2, <2>6
<1>6. QED  BY <1>4, <1>5

\* CoreInv holds initially.
LEMMA CoreInvInit == ProcInit => CoreInv
<1> SUFFICES ASSUME ProcInit PROVE CoreInv
    OBVIOUS
<1> USE DEF ProcInit, WiresInit, TriggerInit
<1>1. ProcTypeOK  BY DEF ProcTypeOK, WiresTypeOK
<1>2. Routed  BY DEF Routed
<1>3. CoreConsistent  BY DEF CoreConsistent
<1>4. BusyCountExact
  <2>1. {c \in Cores : busy[c]} = {}  OBVIOUS
  <2>2. QED  BY <2>1, FS_EmptySet DEF BusyCountExact
<1>5. QED  BY <1>1, <1>2, <1>3, <1>4 DEF CoreInv

\* A packet arrives at a core: it waits, or starts at once.
LEMMA CoreInvHandlePacket == CoreInv /\ HandlePacket => CoreInv'
<1> SUFFICES ASSUME CoreInv, HandlePacket PROVE CoreInv'
    OBVIOUS
<1> USE DEF CoreInv
<1> DEFINE pkt   == Head(out_proc)
           c     == pkt.rx_queue
           queue == Append(rx_queue[c], pkt)
<1>1. /\ out_proc \in Seq(Packets) /\ out_proc # <<>>
      /\ now \in Nat /\ offloadTriggerOut \in Seq(TriggerMsgs)
      /\ rx_queue \in [Cores -> Seq(Packets)]
      /\ msg_proc_done \in [Cores -> DoneMsgs \cup {NoMsg}]
      /\ busy \in [Cores -> BOOLEAN] /\ m_n_cores_busy \in Nat
      /\ m_offload_enabled \in [Cores -> BOOLEAN] /\ proc_out \in Seq(Packets)
      BY DEF HandlePacket, ProcTypeOK, WiresTypeOK
<1>2. pkt \in Packets /\ c \in Cores
  <2>1. 1 \in DOMAIN out_proc /\ pkt = out_proc[1] /\ pkt \in Packets  BY <1>1
  <2>2. QED  BY <2>1 DEF Routed
<1>3. out_proc' = Tail(out_proc) /\ now' = now /\ proc_out' = proc_out
      BY DEF HandlePacket
<1>4. /\ out_proc' \in Seq(Packets)
      /\ \A i \in DOMAIN out_proc' : /\ out_proc'[i].rx_queue \in Cores
                                     /\ ~out_proc'[i].processing_done
      BY <1>1, <1>3 DEF Routed
<1>5. /\ queue \in Seq(Packets) /\ queue # <<>>
      /\ \A i \in DOMAIN queue : queue[i].rx_queue = c
  <2>1. rx_queue[c] \in Seq(Packets)  BY <1>1, <1>2
  <2>2. /\ queue \in Seq(Packets) /\ queue # <<>>
        /\ \A i \in DOMAIN queue :
             queue[i] = IF i \in DOMAIN rx_queue[c] THEN rx_queue[c][i] ELSE pkt
        BY <1>2, <2>1, AppendElements
  <2>3. QED  BY <1>2, <2>2 DEF Routed
<1>6. CASE /\ busy[c] /\ rx_queue' = [rx_queue EXCEPT ![c] = queue]
           /\ UNCHANGED <<busy, m_n_cores_busy, msg_proc_done, triggerVars>>
  <2> HIDE DEF queue, c
  <2>1. UNCHANGED <<m_offload_enabled, offloadTriggerOut>>
        BY <1>6 DEF triggerVars
  <2>2. rx_queue' \in [Cores -> Seq(Packets)]  BY <1>1, <1>2, <1>5, <1>6
  <2>3. ProcTypeOK'
        BY <1>1, <1>3, <1>4, <1>6, <2>1, <2>2 DEF ProcTypeOK, WiresTypeOK
  <2>4. Routed'  BY <1>1, <1>2, <1>4, <1>5, <1>6 DEF Routed
  <2>5. CoreConsistent'  BY <1>1, <1>2, <1>3, <1>6 DEF CoreConsistent
  <2>6. BusyCountExact'  BY <1>6 DEF BusyCountExact
  <2>7. QED  BY <2>3, <2>4, <2>5, <2>6
<1>7. CASE ~busy[c] /\ set_busy(c, TRUE) /\ process_packet(c, queue)
  <2>1. report_queue_len(c, Len(queue)) /\ Len(queue) \in Nat
        BY <1>5, <1>7 DEF process_packet
  <2> HIDE DEF queue, c
  <2>2. /\ busy' \in [Cores -> BOOLEAN] /\ busy'[c]
        /\ \A d \in Cores \ {c} : busy'[d] = busy[d]
        /\ m_n_cores_busy' \in Nat /\ BusyCountExact'
        BY <1>1, <1>2, <1>7, BusyCount
  <2>3. /\ rx_queue' \in [Cores -> Seq(Packets)]
        /\ \A i \in DOMAIN rx_queue'[c] : rx_queue'[c][i].rx_queue = c
        /\ msg_proc_done' \in [Cores -> DoneMsgs \cup {NoMsg}]
        /\ msg_proc_done'[c] \in DoneMsgs
        /\ msg_proc_done'[c].at > now
        /\ msg_proc_done'[c].pkt.rx_queue = c
        /\ msg_proc_done'[c].pkt.processing_done
        /\ \A d \in Cores \ {c} : /\ rx_queue'[d] = rx_queue[d]
                                  /\ msg_proc_done'[d] = msg_proc_done[d]
        BY <1>2, <1>5, <1>7, PopEffect
  <2>4. m_offload_enabled' \in [Cores -> BOOLEAN] /\ offloadTriggerOut' \in Seq(TriggerMsgs)
        BY <1>1, <1>2, <2>1, ReportEffect
  <2>5. ProcTypeOK'
        BY <1>1, <1>3, <1>4, <2>2, <2>3, <2>4 DEF ProcTypeOK, WiresTypeOK
  <2>6. Routed'  BY <1>1, <1>4, <2>3 DEF Routed
  <2>7. CoreConsistent'
    <3> SUFFICES ASSUME NEW d \in Cores
                 PROVE  /\ busy'[d] <=> msg_proc_done'[d] # NoMsg
                        /\ ~busy'[d] => rx_queue'[d] = <<>>
                        /\ busy'[d] => /\ msg_proc_done'[d].pkt.rx_queue = d
                                       /\ msg_proc_done'[d].pkt.processing_done
                                       /\ msg_proc_done'[d].at >= now'
        BY DEF CoreConsistent
    <3>1. CASE d = c
      <4>1. msg_proc_done'[c] # NoMsg  BY <2>3, NoMsgAssumption
      <4>2. msg_proc_done'[c].at >= now'  BY <1>1, <1>3, <2>3 DEF DoneMsgs
      <4>3. QED  BY <2>2, <2>3, <3>1, <4>1, <4>2
    <3>2. CASE d # c
      BY <1>3, <2>2, <2>3, <3>2 DEF CoreConsistent
    <3>3. QED  BY <3>1, <3>2
  <2>8. QED  BY <2>2, <2>5, <2>6, <2>7
<1>8. QED  BY <1>6, <1>7 DEF HandlePacket

\* A packet is finished: it is sent, and its core starts the next one or is
\* set idle.  That the core named by the packet is the one whose self-message
\* arrived is the ASSERT at the top of the branch, and part of CoreConsistent.
LEMMA CoreInvHandleProcDone ==
  ASSUME CoreInv, NEW m \in Cores, HandleProcDone(m)
  PROVE  CoreInv'
<1> USE DEF CoreInv
<1> DEFINE pkt == msg_proc_done[m].pkt
           c   == pkt.rx_queue
<1>1. /\ now \in Nat /\ offloadTriggerOut \in Seq(TriggerMsgs)
      /\ rx_queue \in [Cores -> Seq(Packets)]
      /\ msg_proc_done \in [Cores -> DoneMsgs \cup {NoMsg}]
      /\ busy \in [Cores -> BOOLEAN] /\ m_n_cores_busy \in Nat
      /\ m_offload_enabled \in [Cores -> BOOLEAN] /\ proc_out \in Seq(Packets)
      BY DEF ProcTypeOK, WiresTypeOK
<1>2. msg_proc_done[m] \in DoneMsgs /\ busy[m] /\ c = m
      BY <1>1 DEF HandleProcDone, CoreConsistent
<1>3. pkt \in Packets  BY <1>2 DEF DoneMsgs
<1>4. proc_out' \in Seq(Packets) /\ now' = now /\ out_proc' = out_proc
  <2>1. delivered(pkt, now) \in Packets  BY <1>1, <1>3, PacketOps
  <2>2. proc_out' = Append(proc_out, delivered(pkt, now))  BY DEF HandleProcDone
  <2>3. QED  BY <1>1, <2>1, <2>2, AppendElements DEF HandleProcDone
<1>5. CASE /\ rx_queue[m] # <<>> /\ process_packet(m, rx_queue[m])
           /\ UNCHANGED <<busy, m_n_cores_busy>>
  <2>1. /\ rx_queue[m] \in Seq(Packets) /\ Len(rx_queue[m]) \in Nat
        /\ \A i \in DOMAIN rx_queue[m] : rx_queue[m][i].rx_queue = m
        BY <1>1 DEF Routed
  <2>2. report_queue_len(m, Len(rx_queue[m]))
        BY <1>5 DEF process_packet
  <2>3. /\ rx_queue' \in [Cores -> Seq(Packets)]
        /\ \A i \in DOMAIN rx_queue'[m] : rx_queue'[m][i].rx_queue = m
        /\ msg_proc_done' \in [Cores -> DoneMsgs \cup {NoMsg}]
        /\ msg_proc_done'[m] \in DoneMsgs
        /\ msg_proc_done'[m].at > now
        /\ msg_proc_done'[m].pkt.rx_queue = m
        /\ msg_proc_done'[m].pkt.processing_done
        /\ \A d \in Cores \ {m} : /\ rx_queue'[d] = rx_queue[d]
                                  /\ msg_proc_done'[d] = msg_proc_done[d]
        BY <1>5, <2>1, PopEffect
  <2>4. m_offload_enabled' \in [Cores -> BOOLEAN] /\ offloadTriggerOut' \in Seq(TriggerMsgs)
        BY <1>1, <2>1, <2>2, ReportEffect
  <2>5. ProcTypeOK'
        BY <1>1, <1>4, <1>5, <2>3, <2>4 DEF ProcTypeOK, WiresTypeOK
  <2>6. Routed'  BY <1>4, <2>3 DEF Routed
  <2>7. CoreConsistent'
    <3>1. msg_proc_done'[m] # NoMsg  BY <2>3, NoMsgAssumption
    <3>2. msg_proc_done'[m].at >= now'  BY <1>1, <1>4, <2>3 DEF DoneMsgs
    <3>3. QED  BY <1>2, <1>4, <1>5, <2>3, <3>1, <3>2 DEF CoreConsistent
  <2>8. BusyCountExact'  BY <1>5 DEF BusyCountExact
  <2>9. QED  BY <2>5, <2>6, <2>7, <2>8
<1>6. CASE /\ rx_queue[m] = <<>> /\ set_busy(m, FALSE)
           /\ msg_proc_done' = [msg_proc_done EXCEPT ![m] = NoMsg]
           /\ UNCHANGED <<rx_queue, triggerVars>>
  <2>1. UNCHANGED <<m_offload_enabled, offloadTriggerOut>>
        BY <1>6 DEF triggerVars
  <2>2. /\ busy' \in [Cores -> BOOLEAN] /\ ~busy'[m]
        /\ \A d \in Cores \ {m} : busy'[d] = busy[d]
        /\ m_n_cores_busy' \in Nat /\ BusyCountExact'
        BY <1>1, <1>2, <1>6, BusyCount
  <2>3. ProcTypeOK'
        BY <1>1, <1>4, <1>6, <2>1, <2>2 DEF ProcTypeOK, WiresTypeOK
  <2>4. Routed'  BY <1>4, <1>6 DEF Routed
  <2>5. CoreConsistent'
        BY <1>1, <1>4, <1>6, <2>2 DEF CoreConsistent
  <2>6. QED  BY <2>2, <2>3, <2>4, <2>5
<1>7. QED  BY <1>2, <1>5, <1>6 DEF HandleProcDone

\* Every step preserves CoreInv.
LEMMA CoreInvStep == CoreInv /\ [ProcNext]_procVars => CoreInv'
<1> SUFFICES ASSUME CoreInv, [ProcNext]_procVars PROVE CoreInv'
    OBVIOUS
<1> USE DEF CoreInv
<1>1. CASE HandlePacket  BY <1>1, CoreInvHandlePacket
<1>2. ASSUME NEW m \in Cores, HandleProcDone(m) PROVE CoreInv'
      BY <1>2, CoreInvHandleProcDone
<1>3. ASSUME NEW pkt \in LocalPackets, SendLocal(pkt) PROVE CoreInv'
  <2>1. out_proc' = Append(out_proc, pkt) /\ UNCHANGED <<now, coreVars, proc_out, triggerVars>>
        BY <1>3 DEF SendLocal
  <2>2. now \in Nat /\ out_proc \in Seq(Packets)
        BY DEF ProcTypeOK, WiresTypeOK
  <2>3. pkt \in Packets /\ pkt.rx_queue \in Cores /\ ~pkt.processing_done
    <3>1. /\ pkt.rx_queue \in Cores /\ pkt.processing_done = FALSE
          /\ pkt.arrival_port_id = 0 /\ pkt.arrival_time = now
          /\ pkt.hop_cnt \in 0 .. MaxHopCnt - 1
          BY DEF LocalPackets
    <3>2. pkt.hop_cnt \in 0..255  BY <3>1, HopsAssumption
    <3>3. QED  BY <2>2, <3>1, <3>2 DEF LocalPackets, Packets
  <2>4. /\ out_proc' \in Seq(Packets)
        /\ \A i \in DOMAIN out_proc' :
             out_proc'[i] = IF i \in DOMAIN out_proc THEN out_proc[i] ELSE pkt
        BY <2>1, <2>2, <2>3, AppendElements
  <2>5. UNCHANGED <<now, rx_queue, busy, m_n_cores_busy, msg_proc_done, proc_out,
                    m_offload_enabled, offloadTriggerOut>>
        BY <2>1 DEF coreVars, triggerVars
  <2>6. Routed'  BY <2>3, <2>4, <2>5 DEF Routed
  <2>7. ProcTypeOK'  BY <2>4, <2>5 DEF ProcTypeOK, WiresTypeOK
  <2>8. CoreConsistent' /\ BusyCountExact'
        BY <2>5 DEF CoreConsistent, BusyCountExact
  <2>9. QED  BY <2>6, <2>7, <2>8
<1>4. CASE TakeProcessed
  <2>1. proc_out' \in Seq(Packets) /\ UNCHANGED <<now, out_proc, coreVars, triggerVars>>
        BY <1>4, TailElements DEF TakeProcessed, ProcTypeOK
  <2>2. QED  BY <2>1
        DEF coreVars, triggerVars, ProcTypeOK, WiresTypeOK, Routed, CoreConsistent, BusyCountExact
<1>5. CASE TakeTrigger
  <2>1. /\ offloadTriggerOut' \in Seq(TriggerMsgs)
        /\ UNCHANGED <<now, out_proc, coreVars, proc_out, m_offload_enabled>>
        BY <1>5, TailElements DEF TakeTrigger, ProcTypeOK, WiresTypeOK
  <2>2. QED  BY <2>1
        DEF coreVars, ProcTypeOK, WiresTypeOK, Routed, CoreConsistent, BusyCountExact
<1>6. CASE ProcTick
  <2>1. now' = now + 1 /\ UNCHANGED <<out_proc, rx_queue, busy, m_n_cores_busy,
             msg_proc_done, proc_out, m_offload_enabled, offloadTriggerOut>>
        BY <1>6 DEF ProcTick, coreVars, triggerVars
  <2>2. now \in Nat /\ now' \in Nat  BY <2>1 DEF ProcTypeOK, WiresTypeOK
  <2>3. \A c \in Cores : busy[c] => msg_proc_done[c].at >= now'
    <3>1. \A c \in Cores : busy[c] => msg_proc_done[c] \in DoneMsgs /\ msg_proc_done[c].at > now
          BY <1>6 DEF ProcTick, ProcQuiet, CoreConsistent, ProcTypeOK
    <3>2. QED  BY <2>1, <2>2, <3>1 DEF DoneMsgs
  <2>4. CoreConsistent'  BY <2>1, <2>3 DEF CoreConsistent
  <2>5. QED  BY <2>1, <2>2, <2>4 DEF ProcTypeOK, WiresTypeOK, Routed, BusyCountExact
<1>7. CASE UNCHANGED procVars
      BY <1>7 DEF procVars, coreVars, triggerVars, ProcTypeOK, WiresTypeOK, Routed,
                  CoreConsistent, BusyCountExact
<1>8. QED  BY <1>1, <1>2, <1>3, <1>4, <1>5, <1>6, <1>7 DEF ProcNext

\* CoreInv holds in every state.
LEMMA CoreInvariant == ProcSpec => []CoreInv
BY CoreInvInit, CoreInvStep, PTL DEF ProcSpec

\* The self-messages, the queues, the wires and the flags always hold values of
\* their types: no packet is lost track of and the busy counter, decremented
\* each time a core runs out of work, never wraps below zero.
THEOREM ProcTypesCorrect == ProcSpec => []ProcTypeOK
<1>1. CoreInv => ProcTypeOK  BY DEF CoreInv
<1>2. QED  BY <1>1, CoreInvariant, PTL

\* The ASSERTs of handleMessage and process_packet never fail: a self-message
\* belongs to the core of its packet, that core is busy, and process_packet is
\* called only with a packet waiting.
THEOREM CoresConsistent == ProcSpec => []CoreConsistent
<1>1. CoreInv => CoreConsistent  BY DEF CoreInv
<1>2. QED  BY <1>1, CoreInvariant, PTL

\* The ASSERTs of set_busy never fail: its counter is exact.
THEOREM BusyCounterCorrect == ProcSpec => []BusyCountExact
<1>1. CoreInv => BusyCountExact  BY DEF CoreInv
<1>2. QED  BY <1>1, CoreInvariant, PTL

-----------------------------------------------------------------------------
\* The overload flag, and the announcements of its changes.

\* A disabled trigger never marks a queue.
TriggerOff == ~TriggerEnabled => \A c \in Cores : ~m_offload_enabled[c]

FlagInv == OverloadMeansBacklog /\ TriggerOff

\* Each pop leaves the flag of its queue in agreement with what is left.
LEMMA FlagAfterPop ==
  ASSUME CoreInv, FlagInv, NEW c \in Cores,
         NEW queue \in Seq(Packets), queue # <<>>,
         process_packet(c, queue)
  PROVE  FlagInv'
<1>1. /\ m_offload_enabled \in [Cores -> BOOLEAN]
      /\ offloadTriggerOut \in Seq(TriggerMsgs)
      /\ rx_queue \in [Cores -> Seq(Packets)]
      BY DEF CoreInv, ProcTypeOK, WiresTypeOK
<1>2. report_queue_len(c, Len(queue)) /\ Len(queue) \in Nat
      BY DEF process_packet
<1>3. /\ \A d \in Cores \ {c} : m_offload_enabled'[d] = m_offload_enabled[d]
      /\ TriggerEnabled => (m_offload_enabled'[c] <=> Len(queue) > Threshold)
      /\ ~TriggerEnabled => UNCHANGED triggerVars
      BY <1>1, <1>2, ReportEffect
<1>4. rx_queue' = [rx_queue EXCEPT ![c] = Tail(queue)]  BY DEF process_packet
<1>5. Len(rx_queue'[c]) = Len(queue) - 1  BY <1>1, <1>4, TailElements
<1>6. TriggerOff'  BY <1>3 DEF FlagInv, TriggerOff, triggerVars
<1>7. m_offload_enabled'[c] => Len(rx_queue'[c]) >= Threshold
  <2>1. CASE TriggerEnabled
    <3>1. Len(queue) > Threshold => Len(queue) - 1 >= Threshold
          BY <1>2, TriggerAssumption
    <3>2. QED  BY <1>3, <1>5, <2>1, <3>1
  <2>2. CASE ~TriggerEnabled  BY <1>6, <2>2 DEF TriggerOff
  <2>3. QED  BY <2>1, <2>2
<1>8. OverloadMeansBacklog'
      BY <1>1, <1>3, <1>4, <1>7 DEF FlagInv, OverloadMeansBacklog
<1>9. QED  BY <1>6, <1>8 DEF FlagInv

\* Every step preserves FlagInv: a pop takes one packet off a queue and sets
\* the flag from the length before it.
LEMMA FlagInvStep == CoreInv /\ FlagInv /\ [ProcNext]_procVars => FlagInv'
<1> SUFFICES ASSUME CoreInv, FlagInv, [ProcNext]_procVars PROVE FlagInv'
    OBVIOUS
<1>1. rx_queue \in [Cores -> Seq(Packets)]  BY DEF CoreInv, ProcTypeOK
<1>2. CASE HandlePacket
  <2> DEFINE pkt   == Head(out_proc)
             c     == pkt.rx_queue
             queue == Append(rx_queue[c], pkt)
  <2>1. pkt \in Packets /\ c \in Cores
    <3>1. out_proc \in Seq(Packets) /\ out_proc # <<>>
          BY <1>2 DEF HandlePacket, CoreInv, ProcTypeOK, WiresTypeOK
    <3>2. 1 \in DOMAIN out_proc /\ pkt = out_proc[1] /\ pkt \in Packets
          BY <3>1, TailElements
    <3>3. QED  BY <3>2 DEF CoreInv, Routed
  <2>2. queue \in Seq(Packets) /\ queue # <<>> /\ Len(queue) = Len(rx_queue[c]) + 1
        BY <1>1, <2>1, AppendElements
  <2>3. CASE /\ rx_queue' = [rx_queue EXCEPT ![c] = queue]
             /\ UNCHANGED triggerVars
    <3>1. \A d \in Cores : Len(rx_queue[d]) \in Nat  BY <1>1
    <3>2. \A d \in Cores : Len(rx_queue'[d]) >= Len(rx_queue[d])
          BY <1>1, <2>1, <2>2, <2>3, <3>1
    <3>3. \A d \in Cores : Len(rx_queue'[d]) \in Nat
          BY <1>1, <2>1, <2>2, <2>3, <3>1
    <3>4. m_offload_enabled' = m_offload_enabled  BY <2>3 DEF triggerVars
    <3>5. \A d \in Cores : Len(rx_queue[d]) >= Threshold => Len(rx_queue'[d]) >= Threshold
          BY <3>1, <3>2, <3>3, TriggerAssumption
    <3>6. QED  BY <3>4, <3>5 DEF FlagInv, OverloadMeansBacklog, TriggerOff
  <2>4. CASE process_packet(c, queue)
        BY <2>1, <2>2, <2>4, FlagAfterPop
  <2>5. QED  BY <1>2, <2>3, <2>4 DEF HandlePacket
<1>3. ASSUME NEW m \in Cores, HandleProcDone(m) PROVE FlagInv'
  <2>1. msg_proc_done[m].pkt.rx_queue = m
        BY <1>3 DEF HandleProcDone, CoreInv, CoreConsistent
  <2>2. CASE rx_queue[m] # <<>> /\ process_packet(m, rx_queue[m])
        BY <1>1, <2>2, FlagAfterPop
  <2>3. CASE UNCHANGED <<rx_queue, triggerVars>>
        BY <2>3 DEF triggerVars, FlagInv, OverloadMeansBacklog, TriggerOff
  <2>4. QED  BY <1>3, <2>1, <2>2, <2>3 DEF HandleProcDone
<1>4. ASSUME UNCHANGED <<rx_queue, m_offload_enabled>> PROVE FlagInv'
      BY <1>4 DEF FlagInv, OverloadMeansBacklog, TriggerOff
<1>5. QED
      BY <1>2, <1>3, <1>4 DEF ProcNext, SendLocal, TakeProcessed, TakeTrigger,
         ProcTick, procVars, coreVars, triggerVars

\* An overload flag always stands for a backlog that is really there: packets
\* are never diverted from a core that has run out of work.
THEOREM OverloadFlagCorrect == ProcSpec => []OverloadMeansBacklog
<1>1. ProcInit => FlagInv
      BY DEF ProcInit, TriggerInit, FlagInv, OverloadMeansBacklog, TriggerOff
<1>2. FlagInv => OverloadMeansBacklog  BY DEF FlagInv
<1>3. QED  BY <1>1, <1>2, CoreInvariant, FlagInvStep, PTL DEF ProcSpec

-----------------------------------------------------------------------------
\* A pop of core c, none of whose announcements is pending.
LEMMA AnnouncementAfterPop ==
  ASSUME CoreInv, OneAnnouncementPerQueue, NEW c \in Cores,
         NEW queue \in Seq(Packets), queue # <<>>,
         \A i \in DOMAIN queue : queue[i].rx_queue = c,
         process_packet(c, queue), now' = now,
         busy' \in [Cores -> BOOLEAN], busy'[c],
         \A d \in Cores \ {c} : busy'[d] = busy[d],
         \A i \in DOMAIN offloadTriggerOut : offloadTriggerOut[i].queueId # c
  PROVE  OneAnnouncementPerQueue'
<1> DEFINE out == offloadTriggerOut
<1>1. /\ m_offload_enabled \in [Cores -> BOOLEAN]
      /\ out \in Seq(TriggerMsgs)
      BY DEF CoreInv, ProcTypeOK, WiresTypeOK
<1>2. report_queue_len(c, Len(queue)) /\ Len(queue) \in Nat
      BY DEF process_packet
<1>3. /\ m_offload_enabled' \in [Cores -> BOOLEAN]
      /\ \A d \in Cores \ {c} : m_offload_enabled'[d] = m_offload_enabled[d]
      /\ \/ UNCHANGED triggerVars
         \/ out' = Append(out, [queueId |-> c, active |-> m_offload_enabled'[c]])
      BY <1>1, <1>2, ReportEffect
<1>4. /\ msg_proc_done'[c].at > now
      /\ \A d \in Cores \ {c} : msg_proc_done'[d] = msg_proc_done[d]
      BY PopEffect DEF CoreInv
<1>5. \A i \in DOMAIN out : out[i].queueId \in Cores \ {c}
  <2>1. \A i \in DOMAIN out : out[i] \in TriggerMsgs  BY <1>1
  <2>2. QED  BY <2>1 DEF TriggerMsgs
<1>6. CASE UNCHANGED triggerVars
  <2>1. out' = out  BY <1>6 DEF triggerVars
  <2>2. QED  BY <1>3, <1>4, <1>5, <2>1 DEF OneAnnouncementPerQueue
<1>7. CASE out' = Append(out, [queueId |-> c, active |-> m_offload_enabled'[c]])
  <2> DEFINE msg == [queueId |-> c, active |-> m_offload_enabled'[c]]
  <2>1. msg \in TriggerMsgs  BY <1>3 DEF TriggerMsgs
  <2>2. \A i \in DOMAIN out' : out'[i] = IF i \in DOMAIN out THEN out[i] ELSE msg
        BY <1>1, <1>7, <2>1, AppendElements
  <2>3. \A i, j \in DOMAIN out' : i \notin DOMAIN out /\ j \notin DOMAIN out => i = j
    <3>1. DOMAIN out' = 1 .. Len(out) + 1 /\ DOMAIN out = 1 .. Len(out) /\ Len(out) \in Nat
          BY <1>1, <1>7, <2>1, AppendElements
    <3>2. QED  BY <3>1
  <2>4. msg.queueId = c /\ msg.active = m_offload_enabled'[c]  OBVIOUS
  <2> HIDE DEF msg
  <2> SUFFICES ASSUME NEW i \in DOMAIN out', NEW j \in DOMAIN out'
               PROVE  /\ out'[i].active = m_offload_enabled'[out'[i].queueId]
                      /\ busy'[out'[i].queueId]
                      /\ msg_proc_done'[out'[i].queueId].at > now'
                      /\ out'[j].queueId = out'[i].queueId => i = j
      BY DEF OneAnnouncementPerQueue
  <2>5. CASE i \in DOMAIN out
        BY <1>3, <1>4, <1>5, <2>2, <2>4, <2>5 DEF OneAnnouncementPerQueue
  <2>6. CASE i \notin DOMAIN out
        BY <1>4, <1>5, <2>2, <2>3, <2>4, <2>6
  <2>7. QED  BY <2>5, <2>6
<1>8. QED  BY <1>3, <1>6, <1>7

\* Every step preserves OneAnnouncementPerQueue.
LEMMA AnnouncementStep ==
  CoreInv /\ OneAnnouncementPerQueue /\ [ProcNext]_procVars => OneAnnouncementPerQueue'
<1> SUFFICES ASSUME CoreInv, OneAnnouncementPerQueue, [ProcNext]_procVars
             PROVE  OneAnnouncementPerQueue'
    OBVIOUS
<1> DEFINE out == offloadTriggerOut
<1>1. /\ rx_queue \in [Cores -> Seq(Packets)] /\ busy \in [Cores -> BOOLEAN]
      /\ now \in Nat
      /\ \A c \in Cores : \A i \in DOMAIN rx_queue[c] : rx_queue[c][i].rx_queue = c
      BY DEF CoreInv, ProcTypeOK, WiresTypeOK, Routed
<1>2. CASE HandlePacket
  <2> DEFINE pkt   == Head(out_proc)
             c     == pkt.rx_queue
             queue == Append(rx_queue[c], pkt)
  <2>1. pkt \in Packets /\ c \in Cores
    <3>1. out_proc \in Seq(Packets) /\ out_proc # <<>>
          BY <1>2 DEF HandlePacket, CoreInv, ProcTypeOK, WiresTypeOK
    <3>2. 1 \in DOMAIN out_proc /\ pkt = out_proc[1] /\ pkt \in Packets
          BY <3>1, TailElements
    <3>3. QED  BY <3>2 DEF CoreInv, Routed
  <2>2. /\ queue \in Seq(Packets) /\ queue # <<>>
        /\ \A i \in DOMAIN queue : queue[i].rx_queue = c
    <3>1. rx_queue[c] \in Seq(Packets)  BY <1>1, <2>1
    <3>2. /\ queue \in Seq(Packets) /\ queue # <<>>
          /\ \A i \in DOMAIN queue :
               queue[i] = IF i \in DOMAIN rx_queue[c] THEN rx_queue[c][i] ELSE pkt
          BY <2>1, <3>1, AppendElements
    <3>3. QED  BY <1>1, <2>1, <3>2
  <2>3. CASE UNCHANGED <<busy, msg_proc_done, triggerVars>>
    <3>1. now' = now  BY <1>2 DEF HandlePacket
    <3>2. QED  BY <2>3, <3>1 DEF triggerVars, OneAnnouncementPerQueue
  <2>4. CASE ~busy[c] /\ set_busy(c, TRUE) /\ process_packet(c, queue)
    <3> HIDE DEF c, queue
    <3>1. now' = now  BY <1>2 DEF HandlePacket
    <3>2. /\ busy' \in [Cores -> BOOLEAN] /\ busy'[c]
          /\ \A d \in Cores \ {c} : busy'[d] = busy[d]
          BY <1>1, <2>1, <2>4 DEF set_busy
    <3>3. \A i \in DOMAIN out : out[i].queueId # c
          BY <2>4 DEF OneAnnouncementPerQueue
    <3>4. QED  BY <2>1, <2>2, <2>4, <3>1, <3>2, <3>3, AnnouncementAfterPop
  <2>5. QED  BY <1>2, <2>3, <2>4 DEF HandlePacket
<1>3. ASSUME NEW m \in Cores, HandleProcDone(m) PROVE OneAnnouncementPerQueue'
  <2>1. /\ msg_proc_done[m].pkt.rx_queue = m /\ busy[m] /\ msg_proc_done[m].at = now
        /\ now' = now
        BY <1>3 DEF HandleProcDone, CoreInv, CoreConsistent
  <2>2. \A i \in DOMAIN out : out[i].queueId # m
        BY <1>1, <2>1 DEF OneAnnouncementPerQueue
  <2>3. CASE /\ rx_queue[m] # <<>> /\ process_packet(m, rx_queue[m])
             /\ UNCHANGED busy
        BY <1>1, <2>1, <2>2, <2>3, AnnouncementAfterPop
  <2>4. CASE /\ set_busy(m, FALSE)
             /\ msg_proc_done' = [msg_proc_done EXCEPT ![m] = NoMsg]
             /\ UNCHANGED triggerVars
    <3>1. /\ busy' = [busy EXCEPT ![m] = FALSE]
          /\ UNCHANGED <<now, m_offload_enabled, offloadTriggerOut>>
          BY <2>1, <2>4 DEF set_busy, triggerVars
    <3>2. QED
          BY <1>1, <2>2, <2>4, <3>1 DEF OneAnnouncementPerQueue, CoreInv, ProcTypeOK
  <2>5. QED  BY <1>3, <2>1, <2>3, <2>4 DEF HandleProcDone
<1>4. CASE TakeTrigger
  <2>1. /\ out' = Tail(out) /\ out # <<>> /\ out \in Seq(TriggerMsgs)
        /\ UNCHANGED <<now, m_offload_enabled, busy, msg_proc_done>>
        BY <1>4 DEF TakeTrigger, coreVars, CoreInv, ProcTypeOK, WiresTypeOK
  <2>2. \A i \in DOMAIN out' : out'[i] = out[i + 1] /\ i + 1 \in DOMAIN out
        BY <2>1, TailElements
  <2>3. \A i, j \in DOMAIN out' : i + 1 = j + 1 => i = j
    <3>1. DOMAIN out' = 1 .. Len(out) - 1 /\ Len(out) \in Nat  BY <2>1
    <3>2. QED  BY <3>1
  <2>4. QED  BY <2>1, <2>2, <2>3 DEF OneAnnouncementPerQueue
<1>5. CASE ProcTick
      BY <1>5 DEF ProcTick, ProcQuiet, triggerVars, OneAnnouncementPerQueue
<1>6. ASSUME UNCHANGED <<now, busy, msg_proc_done, m_offload_enabled, offloadTriggerOut>>
      PROVE  OneAnnouncementPerQueue'
      BY <1>6 DEF OneAnnouncementPerQueue
<1>7. QED
      BY <1>2, <1>3, <1>4, <1>5, <1>6 DEF ProcNext, SendLocal, TakeProcessed,
         procVars, coreVars, triggerVars

\* Offload's view of the queues cannot be spoiled by the order in which the
\* kernel delivers announcements and packets of one instant.
THEOREM AnnouncementsCorrect == ProcSpec => []OneAnnouncementPerQueue
<1>1. ProcInit => OneAnnouncementPerQueue
      BY DEF ProcInit, WiresInit, OneAnnouncementPerQueue
<1>2. QED  BY <1>1, CoreInvariant, AnnouncementStep, PTL DEF ProcSpec

-----------------------------------------------------------------------------
\* The cores implement first-in first-out servers.

\* g tells when each packet of queue leaves if the one before it leaves at at.
Due(g, at, queue) ==
  g = [i \in 0 .. Len(queue) |->
         IF i = 0 THEN at ELSE g[i - 1] + queue[i].instr]

\* There is such a function for the first n packets, for every n.
LEMMA DueExists ==
  ASSUME NEW at, NEW queue \in Seq(Packets)
  PROVE  \E g : Due(g, at, queue)
<1> DEFINE upto(g, n) ==
             g = [i \in 0 .. n |-> IF i = 0 THEN at ELSE g[i - 1] + queue[i].instr]
           F == {n \in Nat : \E g : upto(g, n)}
<1>1. 0 \in F
  <2>1. upto([i \in 0 .. 0 |-> at], 0)  OBVIOUS
  <2>2. QED  BY <2>1
<1>2. ASSUME NEW n \in Nat, n \in F PROVE n + 1 \in F
  <2>1. PICK g : upto(g, n)  BY <1>2
  <2> DEFINE h == [i \in 0 .. n + 1 |->
                     IF i = n + 1 THEN g[n] + queue[n + 1].instr ELSE g[i]]
  <2>2. \A i \in 0 .. n : g[i] = IF i = 0 THEN at ELSE g[i - 1] + queue[i].instr
        BY <2>1
  <2>3. ASSUME NEW i \in 0 .. n + 1
        PROVE  h[i] = IF i = 0 THEN at ELSE h[i - 1] + queue[i].instr
    <3>1. CASE i = n + 1
      <4>1. i # 0 /\ i - 1 = n /\ n \in 0 .. n + 1 /\ n # n + 1  BY <3>1
      <4>2. QED  BY <3>1, <4>1
    <3>2. CASE i # n + 1
      <4>1. i \in 0 .. n /\ (i # 0 => i - 1 \in 0 .. n + 1 /\ i - 1 # n + 1)  BY <3>2
      <4>2. QED  BY <2>2, <3>2, <4>1
    <3>3. QED  BY <3>1, <3>2
  <2>4. h = [i \in 0 .. n + 1 |-> h[i]]  OBVIOUS
  <2> HIDE DEF h
  <2>5. upto(h, n + 1)  BY <2>3, <2>4
  <2> HIDE DEF upto
  <2>6. n + 1 \in Nat /\ \E x : upto(x, n + 1)  BY <2>5
  <2>7. QED  BY <2>6
<1> HIDE DEF F
<1>3. \A n \in Nat : n \in F  BY <1>1, <1>2, NumberInduction
<1>4. Len(queue) \in F  BY <1>3
<1>5. QED  BY <1>4 DEF F, Due

\* A packet of a queue keeps its core busy for some time.
LEMMA QueueElement ==
  ASSUME NEW queue \in Seq(Packets), NEW i \in DOMAIN queue
  PROVE  queue[i].instr \in Instrs /\ queue[i].instr \in Nat
<1>1. queue[i] \in Packets  OBVIOUS
<1>2. QED  BY <1>1, InputsAssumption DEF Packets

\* Its values are instants.
LEMMA DueTyped ==
  ASSUME NEW at \in Nat, NEW queue \in Seq(Packets), NEW g, Due(g, at, queue)
  PROVE  \A i \in 0 .. Len(queue) : g[i] \in Nat
<1> DEFINE F == {n \in Nat : n <= Len(queue) => g[n] \in Nat}
<1>1. \A i \in 0 .. Len(queue) : g[i] = IF i = 0 THEN at ELSE g[i - 1] + queue[i].instr
      BY DEF Due
<1>2. 0 \in F  BY <1>1
<1>3. ASSUME NEW n \in Nat, n \in F PROVE n + 1 \in F
  <2>1. CASE n + 1 <= Len(queue)
    <3>1. n + 1 \in 0 .. Len(queue) /\ n + 1 \in DOMAIN queue /\ n <= Len(queue)
          BY <2>1
    <3>2. queue[n + 1].instr \in Nat  BY <3>1, QueueElement
    <3>3. g[n + 1] = g[n] + queue[n + 1].instr  BY <1>1, <3>1
    <3>4. QED  BY <1>3, <3>1, <3>2, <3>3
  <2>2. CASE ~(n + 1 <= Len(queue))  BY <2>2
  <2>3. QED  BY <2>1, <2>2
<1> HIDE DEF F
<1>4. \A n \in Nat : n \in F  BY <1>2, <1>3, NumberInduction
<1>5. QED  BY <1>4 DEF F

\* Sequences that start alike and grow alike are the same.
LEMMA SameIncrements ==
  ASSUME NEW s \in Seq(Nat), NEW t \in Seq(Nat), Len(s) = Len(t),
         s # <<>> => s[1] = t[1],
         \A i \in 1 .. Len(s) - 1 : s[i + 1] - s[i] = t[i + 1] - t[i]
  PROVE  s = t
<1> DEFINE F == {n \in Nat : n + 1 \in DOMAIN s => s[n + 1] = t[n + 1]}
<1>1. 0 \in F  OBVIOUS
<1>2. ASSUME NEW n \in Nat, n \in F PROVE n + 1 \in F
  <2>1. CASE (n + 1) + 1 \in DOMAIN s
    <3> DEFINE i == n + 1
               a == s[i]
               b == s[i + 1]
               d == t[i + 1]
    <3>1. i \in 1 .. Len(s) - 1 /\ i \in DOMAIN s /\ i + 1 \in DOMAIN s  BY <2>1
    <3>2. a \in Nat /\ b \in Nat /\ d \in Nat  BY <3>1
    <3>3. t[i] = a  BY <1>2, <3>1
    <3>4. s[i + 1] - s[i] = t[i + 1] - t[i]  BY <3>1
    <3>5. b - a = d - a  BY <3>3, <3>4
    <3> HIDE DEF a, b, d
    <3>6. b = d  BY <3>2, <3>5
    <3>7. QED  BY <3>6 DEF b, d
  <2>2. QED  BY <2>1
<1> HIDE DEF F
<1>3. \A n \in Nat : n \in F  BY <1>1, <1>2, NumberInduction
<1>4. ASSUME NEW i \in 1 .. Len(s) PROVE s[i] = t[i]
  <2>1. i - 1 \in Nat /\ (i - 1) + 1 = i /\ i \in DOMAIN s  OBVIOUS
  <2>2. i - 1 \in F  BY <1>3, <2>1
  <2>3. QED  BY <2>1, <2>2 DEF F
<1>5. QED  BY <1>4, SeqEqual

-----------------------------------------------------------------------------
\* When the packets of a core leave, without the recursion: one entry for each
\* packet, the first when the self-message is due.
Schedule ==
  /\ departure \in [Cores -> Seq(Nat)]
  /\ \A c \in Cores :
       /\ ~busy[c] => departure[c] = <<>>
       /\ busy[c] =>
            /\ Len(departure[c]) = Len(rx_queue[c]) + 1
            /\ departure[c][1] = msg_proc_done[c].at
            /\ \A i \in DOMAIN rx_queue[c] :
                 departure[c][i + 1] - departure[c][i] = rx_queue[c][i].instr

LEMMA DepartureSchedule == CoreInv => Schedule
<1> SUFFICES ASSUME CoreInv PROVE Schedule
    OBVIOUS
<1> SUFFICES ASSUME NEW c \in Cores
             PROVE  /\ departure[c] \in Seq(Nat)
                    /\ ~busy[c] => departure[c] = <<>>
                    /\ busy[c] =>
                         /\ Len(departure[c]) = Len(rx_queue[c]) + 1
                         /\ departure[c][1] = msg_proc_done[c].at
                         /\ \A i \in DOMAIN rx_queue[c] :
                              departure[c][i + 1] - departure[c][i] = rx_queue[c][i].instr
  <2>1. departure = [c \in Cores |-> departure[c]]  BY DEF departure
  <2>2. QED  BY <2>1 DEF Schedule
<1> DEFINE q  == rx_queue[c]
           at == msg_proc_done[c].at
           d  == CHOOSE g : Due(g, at, q)
<1>1. departure[c] = IF busy[c] THEN [i \in 1 .. Len(q) + 1 |-> d[i - 1]] ELSE <<>>
      BY DEF departure, Due
<1>2. CASE ~busy[c]
      BY <1>1, <1>2
<1>3. CASE busy[c]
  <2>1. q \in Seq(Packets) /\ at \in Nat
        BY <1>3 DEF CoreInv, ProcTypeOK, CoreConsistent, DoneMsgs
  <2> HIDE DEF q, at
  <2>2. Due(d, at, q)  BY <2>1, DueExists
  <2> HIDE DEF d
  <2>3. \A i \in 0 .. Len(q) : d[i] \in Nat  BY <2>1, <2>2, DueTyped
  <2>4. \A i \in 0 .. Len(q) : d[i] = IF i = 0 THEN at ELSE d[i - 1] + q[i].instr
        BY <2>2 DEF Due
  <2>5. departure[c] = [i \in 1 .. Len(q) + 1 |-> d[i - 1]]  BY <1>1, <1>3
  <2>6. /\ departure[c] \in Seq(Nat) /\ Len(departure[c]) = Len(q) + 1
        /\ \A i \in 1 .. Len(q) + 1 : departure[c][i] = d[i - 1]
    <3>1. Len(q) + 1 \in Nat /\ \A i \in 1 .. Len(q) + 1 : d[i - 1] \in Nat
          BY <2>1, <2>3
    <3>2. QED  BY <2>5, <3>1
  <2>7. departure[c][1] = at  BY <2>1, <2>4, <2>6
  <2>8. ASSUME NEW i \in DOMAIN q
        PROVE  departure[c][i + 1] - departure[c][i] = q[i].instr
    <3>1. i \in 0 .. Len(q) /\ i # 0 /\ i - 1 \in 0 .. Len(q) /\ (i + 1) - 1 = i
          /\ i \in 1 .. Len(q) + 1 /\ i + 1 \in 1 .. Len(q) + 1
          BY <2>1
    <3>2. departure[c][i + 1] = d[i] /\ departure[c][i] = d[i - 1]
          BY <2>6, <3>1
    <3>3. d[i] = d[i - 1] + q[i].instr  BY <2>4, <3>1
    <3>4. d[i - 1] \in Nat /\ q[i].instr \in Nat
          BY <2>1, <2>3, <3>1, QueueElement
    <3>5. QED  BY <3>2, <3>3, <3>4
  <2>9. QED  BY <1>3, <2>6, <2>7, <2>8 DEF q, at
<1>4. QED  BY <1>2, <1>3

\* Two schedules are the same if the second is that of one core changed.
LEMMA OneCoreChanged ==
  ASSUME Schedule, Schedule', rx_queue \in [Cores -> Seq(Packets)],
         NEW c \in Cores, NEW new \in Seq(Nat),
         departure'[c] = new,
         \A d \in Cores \ {c} : /\ rx_queue'[d] = rx_queue[d] /\ busy'[d] = busy[d]
                                 /\ msg_proc_done'[d] = msg_proc_done[d]
  PROVE  departure' = [departure EXCEPT ![c] = new]
<1>1. departure \in [Cores -> Seq(Nat)] /\ departure' \in [Cores -> Seq(Nat)]
      BY DEF Schedule
<1> HIDE DEF departure
<1>2. ASSUME NEW d \in Cores \ {c} PROVE departure'[d] = departure[d]
  <2>1. departure[d] \in Seq(Nat) /\ departure'[d] \in Seq(Nat)  BY <1>1
  <2>2. CASE ~busy[d]  BY <2>2 DEF Schedule
  <2>3. CASE busy[d]
    <3>1. /\ Len(departure[d]) = Len(rx_queue[d]) + 1
          /\ departure[d][1] = msg_proc_done[d].at
          /\ \A i \in DOMAIN rx_queue[d] :
               departure[d][i + 1] - departure[d][i] = rx_queue[d][i].instr
          BY <2>3 DEF Schedule
    <3>2. /\ Len(departure'[d]) = Len(rx_queue[d]) + 1
          /\ departure'[d][1] = msg_proc_done[d].at
          /\ \A i \in DOMAIN rx_queue[d] :
               departure'[d][i + 1] - departure'[d][i] = rx_queue[d][i].instr
      <4>1. /\ busy'[d] /\ rx_queue'[d] = rx_queue[d]
            /\ msg_proc_done'[d] = msg_proc_done[d] /\ d \in Cores
            BY <2>3
      <4>2. /\ Len(departure'[d]) = Len(rx_queue'[d]) + 1
            /\ departure'[d][1] = msg_proc_done'[d].at
            /\ \A i \in DOMAIN rx_queue'[d] :
                 departure'[d][i + 1] - departure'[d][i] = rx_queue'[d][i].instr
            BY <4>1 DEF Schedule
      <4>3. QED  BY <4>1, <4>2
    <3>3. DOMAIN rx_queue[d] = 1 .. Len(departure[d]) - 1
      <4>1. rx_queue[d] \in Seq(Packets)  OBVIOUS
      <4>2. QED  BY <3>1, <4>1
    <3> DEFINE s == departure[d]
               t == departure'[d]
    <3>4. \A i \in 1 .. Len(s) - 1 : s[i + 1] - s[i] = t[i + 1] - t[i]
          BY <3>1, <3>2, <3>3
    <3>5. s \in Seq(Nat) /\ t \in Seq(Nat) /\ Len(s) = Len(t) /\ s[1] = t[1]
          BY <2>1, <3>1, <3>2
    <3> HIDE DEF s, t
    <3>6. t = s  BY <3>4, <3>5, SameIncrements
    <3>7. QED  BY <3>6 DEF s, t
  <2>4. QED  BY <2>2, <2>3
<1>3. QED  BY <1>1, <1>2

\* A packet arrives at a core: it leaves its instructions later than the one
\* before it, or than now.
LEMMA ArrivalAccepted ==
  ASSUME CoreInv, CoreInv', Schedule, Schedule', HandlePacket
  PROVE  \E c \in Cores : \E instr \in Instrs : Servers!Accept(c, instr)
<1> DEFINE pkt   == Head(out_proc)
           c     == pkt.rx_queue
           q     == rx_queue[c]
           queue == Append(q, pkt)
           free  == IF departure[c] = <<>> THEN now ELSE departure[c][Len(departure[c])]
           new   == Append(departure[c], free + pkt.instr)
<1>1. pkt \in Packets /\ c \in Cores /\ pkt.instr \in Instrs /\ pkt.instr \in Nat
  <2>1. out_proc \in Seq(Packets) /\ out_proc # <<>>
        BY DEF HandlePacket, CoreInv, ProcTypeOK, WiresTypeOK
  <2>2. 1 \in DOMAIN out_proc /\ pkt = out_proc[1] /\ pkt \in Packets
        BY <2>1, TailElements
  <2>3. QED  BY <2>2, InputsAssumption DEF CoreInv, Routed, Packets
<1>2. now \in Nat /\ now' = now /\ q \in Seq(Packets)
      /\ rx_queue \in [Cores -> Seq(Packets)] /\ busy \in [Cores -> BOOLEAN]
      /\ msg_proc_done \in [Cores -> DoneMsgs \cup {NoMsg}]
      BY <1>1 DEF HandlePacket, CoreInv, ProcTypeOK, WiresTypeOK
<1> HIDE DEF departure, c, q, pkt
<1>3. /\ queue \in Seq(Packets) /\ queue # <<>> /\ Len(queue) = Len(q) + 1
      /\ \A i \in DOMAIN queue : queue[i] = IF i \in DOMAIN q THEN q[i] ELSE pkt
      BY <1>1, <1>2, AppendElements
<1> HIDE DEF queue
<1>4. departure[c] \in Seq(Nat) /\ departure'[c] \in Seq(Nat) /\ departure' \in [Cores -> Seq(Nat)]
      BY <1>1 DEF Schedule
<1>5. free \in Nat
      BY <1>2, <1>4
<1> HIDE DEF free
<1>6. /\ new \in Seq(Nat) /\ Len(new) = Len(departure[c]) + 1
      /\ \A i \in 1 .. Len(departure[c]) : new[i] = departure[c][i]
      /\ new[Len(departure[c]) + 1] = free + pkt.instr
      BY <1>1, <1>4, <1>5
<1>7. CASE /\ busy[c] /\ rx_queue' = [rx_queue EXCEPT ![c] = queue]
           /\ UNCHANGED <<busy, m_n_cores_busy, msg_proc_done, triggerVars>>
  <2>1. /\ Len(departure[c]) = Len(q) + 1 /\ departure[c][1] = msg_proc_done[c].at
        /\ \A i \in DOMAIN q : departure[c][i + 1] - departure[c][i] = q[i].instr
        BY <1>1, <1>7 DEF Schedule, q
  <2>2. rx_queue'[c] = queue /\ busy'[c] /\ msg_proc_done'[c] = msg_proc_done[c]
        BY <1>1, <1>2, <1>7
  <2>3. /\ Len(departure'[c]) = Len(queue) + 1
        /\ departure'[c][1] = msg_proc_done[c].at
        /\ \A i \in DOMAIN queue : departure'[c][i + 1] - departure'[c][i] = queue[i].instr
        BY <1>1, <2>2 DEF Schedule
  <2>4. free = departure[c][Len(departure[c])]
        BY <2>1, <1>4, <1>2 DEF free
  <2> HIDE DEF new
  <2>5. Len(new) = Len(departure'[c]) /\ new[1] = departure'[c][1]
    <3>1. 1 \in 1 .. Len(departure[c])  BY <1>2, <2>1
    <3>2. Len(new) = Len(departure'[c])  BY <1>3, <1>6, <2>1, <2>3
    <3>3. QED  BY <1>6, <2>1, <2>3, <3>1, <3>2
  <2>6. ASSUME NEW i \in 1 .. Len(departure'[c]) - 1
        PROVE  departure'[c][i + 1] - departure'[c][i] = new[i + 1] - new[i]
    <3>1. i \in DOMAIN queue /\ i \in 1 .. Len(q) + 1
          BY <1>2, <1>3, <2>3
    <3>2. departure'[c][i + 1] - departure'[c][i] = queue[i].instr
          BY <2>3, <3>1
    <3>3. CASE i \in DOMAIN q
      <4>1. i \in 1 .. Len(departure[c]) /\ i + 1 \in 1 .. Len(departure[c])
            BY <1>2, <2>1, <3>3
      <4>2. new[i] = departure[c][i] /\ new[i + 1] = departure[c][i + 1]
            BY <1>6, <4>1
      <4>3. QED  BY <1>3, <2>1, <3>1, <3>2, <3>3, <4>2
    <3>4. CASE i \notin DOMAIN q
      <4>1. i = Len(departure[c]) /\ i \in 1 .. Len(departure[c])
            BY <1>2, <2>1, <3>1, <3>4
      <4>2. new[i] = free /\ new[i + 1] = free + pkt.instr
            BY <1>6, <2>4, <4>1
      <4>3. queue[i].instr = pkt.instr  BY <1>3, <3>1, <3>4
      <4>4. QED  BY <1>1, <1>5, <3>2, <4>2, <4>3
    <3>5. QED  BY <3>3, <3>4
  <2>7. departure'[c] = new
        BY <1>4, <1>6, <2>5, <2>6, SameIncrements
  <2>8. departure' = [departure EXCEPT ![c] = new]
        BY <1>1, <1>2, <1>6, <1>7, <2>7, OneCoreChanged
  <2>9. QED  BY <1>1, <1>2, <2>8 DEF Servers!Accept, Servers!FreeAt, new, free
<1>8. CASE ~busy[c] /\ set_busy(c, TRUE) /\ process_packet(c, queue)
  <2>1. departure[c] = <<>> /\ q = <<>>
        BY <1>1, <1>8 DEF Schedule, CoreInv, CoreConsistent, q
  <2>2. /\ Head(queue) = pkt /\ Tail(queue) = <<>>
        BY <1>1, <1>2, <2>1 DEF queue
  <2>3. busy' = [busy EXCEPT ![c] = TRUE]  BY <1>8 DEF set_busy
  <2>4. /\ rx_queue' = [rx_queue EXCEPT ![c] = <<>>]
        /\ msg_proc_done' = [msg_proc_done EXCEPT ![c] =
             [pkt |-> set_processing_done(pkt), at |-> now + pkt.instr]]
        BY <1>8, <2>2 DEF process_packet
  <2>5. busy'[c] /\ rx_queue'[c] = <<>> /\ msg_proc_done'[c].at = now + pkt.instr
        BY <1>1, <1>2, <2>3, <2>4
  <2>6. Len(departure'[c]) = 1 /\ departure'[c][1] = now + pkt.instr
    <3>1. /\ Len(departure'[c]) = Len(rx_queue'[c]) + 1
          /\ departure'[c][1] = msg_proc_done'[c].at
          BY <1>1, <2>5 DEF Schedule
    <3>2. Len(rx_queue'[c]) = 0  BY <2>5
    <3>3. QED  BY <2>5, <3>1, <3>2
  <2>7. Len(new) = 1 /\ new[1] = now + pkt.instr /\ new \in Seq(Nat)
        BY <1>4, <1>6, <2>1 DEF free
  <2> HIDE DEF new
  <2>8. departure'[c] = new
        BY <1>4, <2>6, <2>7, SeqEqual
  <2>9. departure' = [departure EXCEPT ![c] = new]
        BY <1>1, <1>2, <2>3, <2>4, <2>7, <2>8, OneCoreChanged
  <2>10. QED  BY <1>1, <1>2, <2>9 DEF Servers!Accept, Servers!FreeAt, new, free
<1>9. QED  BY <1>7, <1>8 DEF HandlePacket, c, q, queue, pkt

\* A core finishes its packet: those that wait leave when they were to leave.
LEMMA DoneLeaves ==
  ASSUME CoreInv, CoreInv', Schedule, Schedule', NEW m \in Cores, HandleProcDone(m)
  PROVE  Servers!Leave(m)
<1> DEFINE q   == rx_queue[m]
           new == Tail(departure[m])
<1>1. /\ msg_proc_done[m].pkt.rx_queue = m /\ busy[m] /\ msg_proc_done[m].at = now
      /\ now' = now
      BY DEF HandleProcDone, CoreInv, CoreConsistent
<1>2. /\ now \in Nat /\ q \in Seq(Packets)
      /\ rx_queue \in [Cores -> Seq(Packets)] /\ busy \in [Cores -> BOOLEAN]
      /\ msg_proc_done \in [Cores -> DoneMsgs \cup {NoMsg}]
      BY DEF CoreInv, ProcTypeOK, WiresTypeOK
<1> HIDE DEF departure, q
<1>3. departure[m] \in Seq(Nat) /\ departure'[m] \in Seq(Nat)
      BY DEF Schedule
<1>4. /\ Len(departure[m]) = Len(q) + 1 /\ departure[m][1] = now
      /\ \A i \in DOMAIN q : departure[m][i + 1] - departure[m][i] = q[i].instr
      BY <1>1 DEF Schedule, q
<1>5. departure[m] # <<>> /\ Head(departure[m]) = now
      BY <1>2, <1>3, <1>4
<1>6. /\ new \in Seq(Nat) /\ Len(new) = Len(q)
      /\ \A i \in 1 .. Len(q) : new[i] = departure[m][i + 1]
  <2>1. /\ new \in Seq(Nat) /\ Len(new) = Len(departure[m]) - 1
        /\ \A i \in DOMAIN new : new[i] = departure[m][i + 1]
        BY <1>3, <1>5, TailElements
  <2>2. QED  BY <1>2, <1>4, <2>1
<1> HIDE DEF new
<1>7. CASE /\ q # <<>> /\ process_packet(m, q)
           /\ UNCHANGED <<busy, m_n_cores_busy>>
  <2>1. /\ rx_queue' = [rx_queue EXCEPT ![m] = Tail(q)]
        /\ msg_proc_done' = [msg_proc_done EXCEPT ![m] =
             [pkt |-> set_processing_done(Head(q)), at |-> now + Head(q).instr]]
        BY <1>7 DEF process_packet
  <2>2. /\ rx_queue'[m] = Tail(q) /\ busy'[m]
        /\ msg_proc_done'[m].at = now + Head(q).instr
        BY <1>1, <1>2, <1>7, <2>1
  <2>3. /\ Head(q) = q[1] /\ 1 \in DOMAIN q /\ Len(Tail(q)) = Len(q) - 1
        /\ \A i \in DOMAIN Tail(q) : Tail(q)[i] = q[i + 1] /\ i + 1 \in DOMAIN q
        BY <1>2, <1>7, TailElements
  <2>4. /\ Len(departure'[m]) = Len(q)
        /\ departure'[m][1] = now + q[1].instr
        /\ \A i \in DOMAIN Tail(q) :
             departure'[m][i + 1] - departure'[m][i] = q[i + 1].instr
    <3>1. /\ Len(departure'[m]) = Len(rx_queue'[m]) + 1
          /\ departure'[m][1] = msg_proc_done'[m].at
          /\ \A i \in DOMAIN rx_queue'[m] :
               departure'[m][i + 1] - departure'[m][i] = rx_queue'[m][i].instr
          BY <2>2 DEF Schedule
    <3>2. QED  BY <1>2, <2>2, <2>3, <3>1
  <2>5. new[1] = departure'[m][1]
    <3> DEFINE one == 1
    <3>1. one \in DOMAIN q /\ one \in 1 .. Len(q) /\ one + 1 = 2  BY <1>2, <2>3
    <3> HIDE DEF one
    <3>2. /\ new[one] = departure[m][one + 1]
          /\ departure[m][one + 1] - departure[m][one] = q[one].instr
          BY <1>4, <1>6, <3>1
    <3>3. q[one].instr \in Nat  BY <1>2, <3>1, QueueElement
    <3>4. departure[m][2] \in Nat
      <4>1. 2 \in 1 .. Len(departure[m])  BY <1>2, <1>4, <2>3
      <4>2. QED  BY <1>3, <4>1
    <3>5. QED  BY <1>2, <1>4, <2>4, <3>1, <3>2, <3>3, <3>4 DEF one
  <2>6. ASSUME NEW i \in 1 .. Len(departure'[m]) - 1
        PROVE  departure'[m][i + 1] - departure'[m][i] = new[i + 1] - new[i]
    <3>1. i \in DOMAIN Tail(q) /\ i + 1 \in DOMAIN q /\ i \in 1 .. Len(q) /\ i + 1 \in 1 .. Len(q)
          BY <1>2, <2>3, <2>4
    <3>2. departure[m][(i + 1) + 1] - departure[m][i + 1] = q[i + 1].instr
          BY <1>4, <3>1
    <3>3. new[i + 1] = departure[m][(i + 1) + 1] /\ new[i] = departure[m][i + 1]
          BY <1>6, <3>1
    <3>4. QED  BY <2>4, <3>1, <3>2, <3>3
  <2>7. departure'[m] = new
        BY <1>3, <1>6, <2>4, <2>5, <2>6, SameIncrements
  <2>8. departure' = [departure EXCEPT ![m] = new]
        BY <1>2, <1>6, <1>7, <2>1, <2>7, OneCoreChanged
  <2>9. QED  BY <1>1, <1>5, <2>8 DEF Servers!Leave, new
<1>8. CASE /\ q = <<>> /\ set_busy(m, FALSE)
           /\ msg_proc_done' = [msg_proc_done EXCEPT ![m] = NoMsg]
           /\ UNCHANGED <<rx_queue, triggerVars>>
  <2>1. busy' = [busy EXCEPT ![m] = FALSE]  BY <1>8 DEF set_busy
  <2>2. departure'[m] = <<>>  BY <1>2, <2>1 DEF Schedule
  <2>3. new = <<>>  BY <1>6, <1>8
  <2>4. departure' = [departure EXCEPT ![m] = new]
        BY <1>2, <1>6, <1>8, <2>1, <2>2, <2>3, OneCoreChanged
  <2>5. QED  BY <1>1, <1>5, <2>4 DEF Servers!Leave, new
<1>9. QED  BY <1>1, <1>7, <1>8 DEF HandleProcDone, q

\* Processing is, for every core, a first-in first-out server that is never
\* idle while it has work: when a packet leaves is settled as it arrives, and
\* no order of handlers makes a core skip, delay or overtake a packet.
THEOREM ProcessingImplementsServers == ProcSpec => ImplementsFifoServers
<1>1. ProcInit => Servers!FifoInit
  <2>1. ProcInit => now = 0 /\ departure = [c \in Cores |-> <<>>]
        BY DEF ProcInit, WiresInit, departure
  <2>2. QED  BY <2>1 DEF Servers!FifoInit
<1>2. CoreInv /\ CoreInv' /\ Schedule /\ Schedule' /\ [ProcNext]_procVars
        => [Servers!FifoNext]_<<now, departure>>
  <2> SUFFICES ASSUME CoreInv, CoreInv', Schedule, Schedule', [ProcNext]_procVars
               PROVE  [Servers!FifoNext]_<<now, departure>>
      OBVIOUS
  <2>1. CASE HandlePacket
        BY <2>1, ArrivalAccepted DEF Servers!FifoNext
  <2>2. ASSUME NEW m \in Cores, HandleProcDone(m)
        PROVE  Servers!FifoNext
        BY <2>2, DoneLeaves DEF Servers!FifoNext
  <2>3. CASE ProcTick
    <3>1. UNCHANGED departure
          BY <2>3 DEF ProcTick, coreVars, departure
    <3>2. ASSUME NEW c \in Cores, departure[c] # <<>>
          PROVE  Head(departure[c]) > now
      <4>1. busy[c]  BY <3>2 DEF Schedule
      <4>2. msg_proc_done[c].at > now
            BY <2>3, <4>1 DEF ProcTick, ProcQuiet, CoreInv, CoreConsistent
      <4>3. departure[c] \in Seq(Nat) /\ departure[c][1] = msg_proc_done[c].at
            BY <4>1 DEF Schedule
      <4> HIDE DEF departure
      <4>4. QED  BY <3>2, <4>2, <4>3
    <3> HIDE DEF departure
    <3>3. QED  BY <2>3, <3>1, <3>2 DEF ProcTick, Servers!FifoNext, Servers!Pass
  <2>4. ASSUME UNCHANGED <<now, coreVars>>
        PROVE  UNCHANGED <<now, departure>>
        BY <2>4 DEF coreVars, departure
  <2>5. QED
        BY <2>1, <2>2, <2>3, <2>4 DEF ProcNext, SendLocal, TakeProcessed,
           TakeTrigger, procVars
<1>3. QED
      BY <1>1, <1>2, CoreInvariant, DepartureSchedule, PTL
      DEF ProcSpec, ImplementsFifoServers, Servers!FifoSpec

-----------------------------------------------------------------------------
(* Offload.                                                                *)

\* The list selected_queues has an element at every index below its length:
\* the ranks of the queues in S are exactly 0 .. |S| - 1.
LEMMA NthElement ==
  ASSUME NEW S \in SUBSET Cores, NEW k \in Nat, k < Cardinality(S)
  PROVE  nth(S, k) \in S
<1> DEFINE below(q) == {r \in S : r < q}
           n == Cardinality(S)
           rank == [q \in S |-> Cardinality(below(q))]
<1>1. IsFiniteSet(S) /\ n \in Nat  BY CoresFinite, FS_CardinalityType
<1>2. \A q \in S : q \in Int  BY CoresAssumption DEF Cores
<1>3. \A q \in S : IsFiniteSet(below(q)) /\ rank[q] \in 0 .. n - 1
  <2> SUFFICES ASSUME NEW q \in S
               PROVE  IsFiniteSet(below(q)) /\ Cardinality(below(q)) \in 0 .. n - 1
      OBVIOUS
  <2>1. below(q) \in SUBSET S /\ below(q) # S  BY <1>2
  <2>2. /\ IsFiniteSet(below(q)) /\ Cardinality(below(q)) <= n
        /\ Cardinality(below(q)) # n
        BY <1>1, <2>1, FS_Subset
  <2>3. Cardinality(below(q)) \in Nat  BY <2>2, FS_CardinalityType
  <2>4. QED  BY <1>1, <2>2, <2>3
<1>4. \A p, q \in S : p < q => rank[p] # rank[q]
  <2> SUFFICES ASSUME NEW p \in S, NEW q \in S, p < q
               PROVE  Cardinality(below(p)) # Cardinality(below(q))
      OBVIOUS
  <2>1. below(p) \in SUBSET below(q) /\ p \in below(q) /\ p \notin below(p)
        BY <1>2
  <2>2. IsFiniteSet(below(q))  BY <1>3
  <2>3. QED  BY <2>1, <2>2, FS_Subset
<1>5. rank \in Injection(S, 0 .. n - 1)
  <2>1. rank \in [S -> 0 .. n - 1]  BY <1>3
  <2>2. \A p, q \in S : rank[p] = rank[q] => p = q
    <3>1. \A p, q \in S : p < q \/ q < p \/ p = q  BY <1>2
    <3>2. QED  BY <1>4, <3>1
  <2>3. QED  BY <2>1, <2>2 DEF Injection, IsInjective
<1>6. rank \in Surjection(S, 0 .. n - 1)
  <2>1. IsFiniteSet(0 .. n - 1) /\ Cardinality(0 .. n - 1) = n
    <3> HIDE DEF n
    <3>1. IsFiniteSet(0 .. n - 1) /\ Cardinality(0 .. n - 1) =
            IF 0 > n - 1 THEN 0 ELSE (n - 1) - 0 + 1
          BY <1>1, FS_Interval
    <3>2. QED  BY <1>1, <3>1
  <2>2. QED  BY <1>5, <2>1, FS_Injection
<1>7. \E q \in S : rank[q] = k
  <2>1. k \in 0 .. n - 1  BY <1>1
  <2>2. QED  BY <1>6, <2>1 DEF Surjection
<1>8. \E q \in S : Cardinality({r \in S : r < q}) = k  BY <1>7
<1>9. QED  BY <1>8 DEF nth

\* The choice among the queues that are not overloaded is one of them, and
\* there is none only if all are overloaded.
LEMMA ChosenNotOverloaded ==
  ASSUME NEW pkt \in Packets
  PROVE  IF notOverloaded = {} THEN calc_local_rx_queue_not_overloaded(pkt) = -1
         ELSE calc_local_rx_queue_not_overloaded(pkt) \in notOverloaded
<1> SUFFICES ASSUME notOverloaded # {}
             PROVE  calc_local_rx_queue_not_overloaded(pkt) \in notOverloaded
    BY DEF calc_local_rx_queue_not_overloaded
<1> DEFINE n == Cardinality(notOverloaded)
           k == Toeplitz[pkt.flow] % n
<1>1. notOverloaded \in SUBSET Cores  BY DEF notOverloaded
<1>2. n \in Nat /\ n # 0
      BY <1>1, CoresFinite, FS_CardinalityType, FS_EmptySet
<1>3. Toeplitz[pkt.flow] \in Nat  BY HashAssumption DEF Packets
<1>4. k \in Nat /\ k < n
  <2> HIDE DEF n
  <2>1. QED  BY <1>2, <1>3
<1>5. nth(notOverloaded, k) \in notOverloaded  BY <1>1, <1>4, NthElement
<1>6. QED  BY <1>5 DEF calc_local_rx_queue_not_overloaded

-----------------------------------------------------------------------------
\* Packets on the connections have the context and hop count the ASSERTs of
\* handle_pkt and send_pkt_local ask for, and the clock never runs back.
WiresOK ==
  /\ \A i \in DOMAIN offload_in :
       offload_in[i].hop_cnt \in (IF EnableOffload THEN 0 .. MaxHopCnt - 1 ELSE {0})
  /\ \A e \in Entries : m_hashtable[e].t_last_arrival <= now

OffloadInv ==
  OffloadTypeOK /\ WiresOK /\ UninitialisedNeverUsed /\ NextHopAllowed

\* The elements of a sequence after an insertion and after a removal.
LEMMA AppendItems ==
  ASSUME NEW S, NEW seq \in Seq(S), NEW x \in S
  PROVE  /\ Append(seq, x) \in Seq(S)
         /\ \A i \in DOMAIN Append(seq, x) :
              Append(seq, x)[i] = IF i \in DOMAIN seq THEN seq[i] ELSE x
OBVIOUS

\* The items of the tail of a sequence are items of the sequence.
LEMMA TailItems ==
  ASSUME NEW S, NEW seq \in Seq(S), seq # <<>>
  PROVE  /\ Head(seq) = seq[1] /\ 1 \in DOMAIN seq /\ Head(seq) \in S
         /\ Tail(seq) \in Seq(S)
         /\ \A i \in DOMAIN Tail(seq) : /\ Tail(seq)[i] = seq[i + 1]
                                        /\ i + 1 \in DOMAIN seq
OBVIOUS

\* The hash of every packet selects an entry, and a queue of the node.
LEMMA EntryInTable ==
  ASSUME NEW pkt \in Packets, OffloadTypeOK
  PROVE  entry(pkt) \in Entries /\ calc_rss_rx_queue(pkt) \in Cores
<1>1. Toeplitz[pkt.flow] \in Nat  BY HashAssumption DEF Packets
<1>2. entry(pkt) \in Entries
      BY <1>1, TableAssumption DEF entry, Entries
<1>3. QED  BY <1>2 DEF OffloadTypeOK, calc_rss_rx_queue

\* The core considered for local processing exists whenever the entry is valid
\* or its core is about to be initialised from the redirection table.
LEMMA LocalQueueExists ==
  ASSUME NEW pkt \in Packets, OffloadTypeOK,
         NEW assigned, EnableBalanceCores => assigned \in Cores
  PROVE  /\ local_rx_queue(pkt, assigned) \in Cores
         /\ EnableBalanceCores =>
              IF notOverloaded # {}
              THEN local_rx_queue(pkt, assigned) \in notOverloaded
              ELSE local_rx_queue(pkt, assigned) = assigned
         /\ EnableBalanceCores /\ ~m_rx_queue_overload[assigned] =>
              local_rx_queue(pkt, assigned) = assigned
<1>1. CASE ~EnableBalanceCores
      BY <1>1, EntryInTable DEF local_rx_queue
<1>2. CASE EnableBalanceCores /\ ~m_rx_queue_overload[assigned]
      BY <1>2 DEF local_rx_queue, notOverloaded
<1>3. CASE EnableBalanceCores /\ m_rx_queue_overload[assigned]
  <2> DEFINE queue == calc_local_rx_queue_not_overloaded(pkt)
  <2>1. notOverloaded \subseteq Cores  BY DEF notOverloaded
  <2>2. IF notOverloaded = {} THEN queue = -1 ELSE queue \in notOverloaded
        BY ChosenNotOverloaded
  <2>3. -1 \notin Cores  BY CoresAssumption DEF Cores
  <2>4. local_rx_queue(pkt, assigned) = IF queue = -1 THEN assigned ELSE queue
        BY <1>3 DEF local_rx_queue
  <2> HIDE DEF queue
  <2>5. QED  BY <1>3, <2>1, <2>2, <2>3, <2>4
<1>4. QED  BY <1>1, <1>2, <1>3

\* The entry handle_pkt leaves behind is fit for use, whatever was there.
LEMMA UpdatedEntry ==
  ASSUME NEW pkt \in Packets, OffloadInv
  PROVE  /\ updated(pkt) \in HashtableEntries
         /\ updated(pkt).valid /\ updated(pkt).t_last_arrival = now
         /\ updated(pkt).local_rx_queue \in Cores
         /\ updated(pkt).offload => EnableOffload
<1> DEFINE e        == entry(pkt)
           old      == m_hashtable[e]
           assigned == IF EnableBalanceCores /\ ~old.valid
                       THEN calc_rss_rx_queue(pkt) ELSE old.local_rx_queue
           queue    == local_rx_queue(pkt, assigned)
           new      == updated(pkt)
<1>1. OffloadTypeOK /\ e \in Entries /\ calc_rss_rx_queue(pkt) \in Cores
      BY EntryInTable DEF OffloadInv
<1>2. /\ old \in HashtableEntries /\ now \in Nat
      /\ m_rx_queue_overload \in [Cores -> BOOLEAN]
      BY <1>1 DEF OffloadTypeOK, WiresTypeOK
<1>3. old.valid => old.local_rx_queue \in Cores /\ (old.offload => EnableOffload)
      BY <1>1 DEF OffloadInv, UninitialisedNeverUsed
<1>4. EnableBalanceCores => assigned \in Cores  BY <1>1, <1>3
<1>5. queue \in Cores  BY <1>1, <1>4, LocalQueueExists
<1>6. new = [valid |-> TRUE, t_last_arrival |-> now,
             local_rx_queue |-> IF expired(e) THEN queue ELSE old.local_rx_queue,
             offload |-> IF expired(e) THEN EnableOffload /\ m_rx_queue_overload[queue]
                                       ELSE old.offload]
      BY DEF updated
<1>7. ~expired(e) => old.valid  BY DEF expired
<1> HIDE DEF queue, new, old, e, assigned
<1>8. new.local_rx_queue \in Cores /\ (new.offload => EnableOffload)
      BY <1>3, <1>5, <1>6, <1>7
<1>9. new.offload \in BOOLEAN
  <2>1. CASE expired(e)  BY <1>2, <1>5, <1>6, <2>1, FeatureAssumption
  <2>2. CASE ~expired(e)  BY <1>2, <1>6, <2>2 DEF HashtableEntries
  <2>3. QED  BY <2>1, <2>2
<1>10. new.valid = TRUE /\ new.t_last_arrival = now  BY <1>6
<1>11. new \in HashtableEntries
  <2>1. new = [valid |-> new.valid, t_last_arrival |-> new.t_last_arrival,
               local_rx_queue |-> new.local_rx_queue, offload |-> new.offload]
        BY <1>6
  <2>2. QED  BY <1>2, <1>8, <1>9, <1>10, <2>1 DEF HashtableEntries
<1>12. QED  BY <1>8, <1>10, <1>11 DEF new

\* What is put on a connection has its type.
LEMMA SentPackets ==
  ASSUME NEW pkt \in Packets, NEW q \in Cores, NEW t \in Nat
  PROVE  /\ delivered(set_rx_queue(pkt, q), t) \in Packets
         /\ delivered(set_rx_queue(pkt, q), t).rx_queue = q
         /\ delivered(pkt, t) \in Packets
         /\ delivered(pkt, t).hop_cnt = pkt.hop_cnt
BY DEF Packets, delivered, set_rx_queue

\* Offload::handleMessage for a packet preserves OffloadInv.
LEMMA OffloadInvHandlePkt == OffloadInv /\ OffloadHandlePkt => OffloadInv'
<1> SUFFICES ASSUME OffloadInv, OffloadHandlePkt PROVE OffloadInv'
    OBVIOUS
<1> DEFINE pkt == Head(offload_in)
           e   == entry(pkt)
           new == updated(pkt)
<1>1. /\ now \in Nat /\ out_proc \in Seq(Packets)
      /\ offload_in \in Seq(Packets) /\ offload_out \in Seq(Packets)
      /\ m_hashtable \in [Entries -> HashtableEntries] /\ OffloadTypeOK
      BY DEF OffloadInv, OffloadTypeOK, WiresTypeOK
<1>2. /\ offload_in # <<>> /\ offload_in' = Tail(offload_in) /\ handle_pkt(pkt)
      /\ UNCHANGED <<now, offloadTriggerOut, m_rss_reta, m_rx_queue_overload>>
      BY DEF OffloadHandlePkt
<1>3. /\ pkt \in Packets
      /\ pkt.hop_cnt \in (IF EnableOffload THEN 0 .. MaxHopCnt - 1 ELSE {0})
      /\ offload_in' \in Seq(Packets)
      /\ \A i \in DOMAIN offload_in' :
           offload_in'[i].hop_cnt \in (IF EnableOffload THEN 0 .. MaxHopCnt - 1 ELSE {0})
  <2>1. /\ pkt = offload_in[1] /\ 1 \in DOMAIN offload_in /\ pkt \in Packets
        /\ offload_in' \in Seq(Packets)
        /\ \A i \in DOMAIN offload_in' :
             offload_in'[i] = offload_in[i + 1] /\ i + 1 \in DOMAIN offload_in
        BY <1>1, <1>2, TailItems
  <2> HIDE DEF pkt
  <2>2. QED  BY <2>1 DEF OffloadInv, WiresOK
<1>4. e \in Entries /\ calc_rss_rx_queue(pkt) \in Cores
      BY <1>1, <1>3, EntryInTable
<1>5. /\ new \in HashtableEntries /\ new.valid /\ new.t_last_arrival = now
      /\ new.local_rx_queue \in Cores /\ (new.offload => EnableOffload)
      BY <1>3, UpdatedEntry
<1>6. \/ m_hashtable' = m_hashtable
      \/ m_hashtable' = [m_hashtable EXCEPT ![e] = new]
      BY <1>2 DEF handle_pkt
<1>7. \/ \E q \in Cores : send_pkt_local(pkt, q)
      \/ EnableOffload /\ ~force_local(pkt) /\ send_pkt_offload(pkt)
      BY <1>2, <1>4, <1>5 DEF handle_pkt
<1> HIDE DEF pkt, e, new
<1>8. /\ m_hashtable' \in [Entries -> HashtableEntries]
      /\ \A d \in Entries : /\ m_hashtable'[d].t_last_arrival <= now
                            /\ m_hashtable'[d].valid =>
                                 /\ m_hashtable'[d].local_rx_queue \in Cores
                                 /\ m_hashtable'[d].offload => EnableOffload
  <2>1. now <= now  BY <1>1
  <2>2. QED  BY <1>1, <1>4, <1>5, <1>6, <2>1
             DEF OffloadInv, WiresOK, UninitialisedNeverUsed
<1>9. /\ out_proc' \in Seq(Packets) /\ offload_out' \in Seq(Packets)
      /\ \A i \in DOMAIN out_proc' : out_proc'[i].rx_queue \in Cores
      /\ \A i \in DOMAIN offload_out' : offload_out'[i].hop_cnt + 1 < MaxHopCnt
      /\ offload_out' # <<>> => EnableOffload
  <2>1. ASSUME NEW q \in Cores, send_pkt_local(pkt, q) PROVE <1>9!:
    <3> DEFINE sent == delivered(set_rx_queue(pkt, q), now)
    <3>1. sent \in Packets /\ sent.rx_queue = q  BY <1>1, <1>3, SentPackets
    <3>2. out_proc' = Append(out_proc, sent) /\ offload_out' = offload_out
          BY <2>1 DEF send_pkt_local
    <3> HIDE DEF sent
    <3>3. /\ out_proc' \in Seq(Packets)
          /\ \A i \in DOMAIN out_proc' :
               out_proc'[i] = IF i \in DOMAIN out_proc THEN out_proc[i] ELSE sent
          BY <1>1, <3>1, <3>2, AppendItems
    <3>4. QED  BY <1>1, <3>1, <3>2, <3>3 DEF OffloadInv, UninitialisedNeverUsed, NextHopAllowed
  <2>2. ASSUME EnableOffload, ~force_local(pkt), send_pkt_offload(pkt) PROVE <1>9!:
    <3> DEFINE sent == delivered(pkt, now)
    <3>1. sent \in Packets /\ sent.hop_cnt = pkt.hop_cnt
          BY <1>1, <1>3, CoresAssumption DEF Packets, delivered
    <3>2. offload_out' = Append(offload_out, sent) /\ out_proc' = out_proc
          BY <2>2 DEF send_pkt_offload
    <3>3. sent.hop_cnt + 1 < MaxHopCnt
      <4>1. pkt.hop_cnt \in 0 .. MaxHopCnt - 1 /\ pkt.hop_cnt # MaxHopCnt - 1
            BY <1>3, <2>2 DEF force_local
      <4>2. QED  BY <3>1, <4>1, HopsAssumption
    <3> HIDE DEF sent
    <3>4. /\ offload_out' \in Seq(Packets)
          /\ \A i \in DOMAIN offload_out' :
               offload_out'[i] = IF i \in DOMAIN offload_out THEN offload_out[i] ELSE sent
          BY <1>1, <3>1, <3>2, AppendItems
    <3>5. QED  BY <1>1, <2>2, <3>2, <3>3, <3>4 DEF OffloadInv, UninitialisedNeverUsed, NextHopAllowed
  <2>3. QED  BY <1>7, <2>1, <2>2
<1>10. OffloadTypeOK'  BY <1>1, <1>2, <1>3, <1>8, <1>9 DEF OffloadTypeOK, WiresTypeOK
<1>11. WiresOK'  BY <1>2, <1>3, <1>8 DEF WiresOK
<1>12. UninitialisedNeverUsed' /\ NextHopAllowed'
       BY <1>8, <1>9 DEF UninitialisedNeverUsed, NextHopAllowed
<1>13. QED  BY <1>10, <1>11, <1>12 DEF OffloadInv

\* OffloadInv holds initially.
LEMMA OffloadInvInit == WiresInit /\ OffloadInit => OffloadInv
<1> SUFFICES ASSUME WiresInit, OffloadInit PROVE OffloadInv
    OBVIOUS
<1> USE DEF WiresInit, OffloadInit
<1>1. m_rss_reta \in [Entries -> Cores]
  <2>1. \A i \in Entries : i % NCores \in Cores
    <3>1. NCores \in Nat /\ NCores > 0  BY CoresAssumption
    <3>2. \A i \in Nat : i % NCores \in 0 .. NCores - 1  BY <3>1
    <3>3. Entries \subseteq Nat  BY TableAssumption DEF Entries
    <3>4. QED  BY <3>2, <3>3 DEF Cores
  <2>2. QED  BY <2>1
<1>2. /\ m_hashtable \in [Entries -> HashtableEntries]
      /\ \A e \in Entries : ~m_hashtable[e].valid /\ m_hashtable[e].t_last_arrival = 0
  <2> DEFINE Blank == [valid : {FALSE}, local_rx_queue : UninitQueues,
                       offload : BOOLEAN, t_last_arrival : {0}]
  <2>1. Blank \subseteq HashtableEntries
    <3>1. {FALSE} \subseteq BOOLEAN /\ {0} \subseteq Nat  OBVIOUS
    <3>2. SUFFICES ASSUME NEW b \in Blank PROVE b \in HashtableEntries
          OBVIOUS
    <3>3. b.valid \in BOOLEAN /\ b.t_last_arrival \in Nat  BY <3>1
    <3>4. b = [valid |-> b.valid, local_rx_queue |-> b.local_rx_queue,
               offload |-> b.offload, t_last_arrival |-> b.t_last_arrival]
          OBVIOUS
    <3>5. QED  BY <3>3, <3>4 DEF HashtableEntries
  <2>2. \A b \in Blank : ~b.valid /\ b.t_last_arrival = 0  OBVIOUS
  <2>3. m_hashtable \in [Entries -> Blank]  OBVIOUS
  <2> HIDE DEF Blank
  <2>4. QED  BY <2>1, <2>2, <2>3
<1>3. OffloadTypeOK  BY <1>1, <1>2 DEF OffloadTypeOK, WiresTypeOK
<1>4. WiresOK /\ UninitialisedNeverUsed /\ NextHopAllowed
      BY <1>2 DEF WiresOK, UninitialisedNeverUsed, NextHopAllowed
<1>5. QED  BY <1>3, <1>4 DEF OffloadInv

\* Every step preserves OffloadInv.
LEMMA OffloadInvStep == OffloadInv /\ [OffloadNext]_offloadVars => OffloadInv'
<1> SUFFICES ASSUME OffloadInv, [OffloadNext]_offloadVars PROVE OffloadInv'
    OBVIOUS
<1> USE DEF OffloadInv
<1>1. /\ now \in Nat /\ out_proc \in Seq(Packets)
      /\ offloadTriggerOut \in Seq(TriggerMsgs)
      /\ offload_in \in Seq(Packets) /\ offload_out \in Seq(Packets)
      /\ m_rx_queue_overload \in [Cores -> BOOLEAN]
      /\ m_rss_reta \in [Entries -> Cores]
      /\ m_hashtable \in [Entries -> HashtableEntries]
      BY DEF OffloadTypeOK, WiresTypeOK
<1>2. CASE OffloadHandlePkt  BY <1>2, OffloadInvHandlePkt
<1>3. CASE OffloadHandleTrigger
  <2> DEFINE msg == Head(offloadTriggerOut)
  <2>1. /\ msg \in TriggerMsgs /\ offloadTriggerOut' \in Seq(TriggerMsgs)
        BY <1>1, <1>3, TailItems DEF OffloadHandleTrigger
  <2>2. m_rx_queue_overload' \in [Cores -> BOOLEAN]
        BY <1>1, <1>3, <2>1 DEF OffloadHandleTrigger, TriggerMsgs
  <2>3. UNCHANGED <<now, out_proc, m_rss_reta, m_hashtable, offload_in, offload_out>>
        BY <1>3 DEF OffloadHandleTrigger
  <2>4. QED  BY <2>1, <2>2, <2>3
        DEF OffloadTypeOK, WiresTypeOK, WiresOK, UninitialisedNeverUsed, NextHopAllowed
<1>4. ASSUME NEW pkt \in ArrivingPackets, SendIn(pkt) PROVE OffloadInv'
  <2>1. /\ pkt \in Packets
        /\ pkt.hop_cnt \in (IF EnableOffload THEN 0 .. MaxHopCnt - 1 ELSE {0})
    <3>1. /\ pkt.hop_cnt \in (IF EnableOffload THEN 0 .. MaxHopCnt - 1 ELSE {0})
          /\ pkt.rx_queue = Unset /\ pkt.arrival_port_id = 0
          /\ pkt.processing_done = FALSE /\ pkt.arrival_time = now
          BY DEF ArrivingPackets
    <3>2. /\ 0 .. MaxHopCnt - 1 \subseteq 0..255
          /\ {0} \subseteq 0..255
          BY HopsAssumption
    <3>3. pkt.hop_cnt \in 0..255
      <4> HIDE DEF ArrivingPackets
      <4>1. CASE EnableOffload  BY <3>1, <3>2, <4>1
      <4>2. CASE ~EnableOffload  BY <3>1, <3>2, <4>2
      <4>3. QED  BY <4>1, <4>2
    <3>4. QED  BY <1>1, <3>1, <3>3 DEF ArrivingPackets, Packets
  <2>2. /\ offload_in' = Append(offload_in, pkt)
        /\ UNCHANGED <<now, out_proc, offloadTriggerOut, tableVars, offload_out>>
        BY <1>4 DEF SendIn
  <2>3. /\ offload_in' \in Seq(Packets)
        /\ \A i \in DOMAIN offload_in' :
             offload_in'[i] = IF i \in DOMAIN offload_in THEN offload_in[i] ELSE pkt
        BY <1>1, <2>1, <2>2, AppendItems
  <2>4. WiresOK'  BY <2>1, <2>2, <2>3 DEF WiresOK, tableVars
  <2>5. QED  BY <2>2, <2>3, <2>4
        DEF tableVars, OffloadTypeOK, WiresTypeOK, UninitialisedNeverUsed, NextHopAllowed
<1>5. CASE ProcessingStep
  <2>1. /\ out_proc' \in Seq(Packets)
        /\ \A i \in DOMAIN out_proc' : out_proc'[i].rx_queue \in Cores
    <3>1. CASE out_proc # <<>> /\ out_proc' = Tail(out_proc)
      <4>1. /\ out_proc' \in Seq(Packets)
            /\ \A i \in DOMAIN out_proc' :
                 out_proc'[i] = out_proc[i + 1] /\ i + 1 \in DOMAIN out_proc
            BY <1>1, <3>1, TailItems
      <4>2. QED  BY <4>1 DEF UninitialisedNeverUsed
    <3>2. CASE UNCHANGED out_proc  BY <1>1, <3>2 DEF UninitialisedNeverUsed
    <3>3. QED  BY <1>5, <3>1, <3>2 DEF ProcessingStep
  <2>2. offloadTriggerOut' \in Seq(TriggerMsgs)
    <3>1. CASE UNCHANGED offloadTriggerOut  BY <1>1, <3>1
    <3>2. ASSUME NEW msg \in TriggerMsgs, offloadTriggerOut' = Append(offloadTriggerOut, msg)
          PROVE  offloadTriggerOut' \in Seq(TriggerMsgs)
          BY <1>1, <3>2, AppendItems
    <3>3. \/ \E msg \in TriggerMsgs : offloadTriggerOut' = Append(offloadTriggerOut, msg)
          \/ UNCHANGED offloadTriggerOut
          BY <1>5 DEF ProcessingStep
    <3>4. QED  BY <3>1, <3>2, <3>3
  <2>3. m_rss_reta' \in [Entries -> Cores]
        BY <1>1, <1>5 DEF ProcessingStep, update_rss_reta_entry
  <2>4. UNCHANGED <<now, m_hashtable, m_rx_queue_overload, offload_in, offload_out>>
        BY <1>5 DEF ProcessingStep
  <2>5. QED  BY <2>1, <2>2, <2>3, <2>4 DEF OffloadTypeOK, WiresTypeOK, WiresOK,
                 UninitialisedNeverUsed, NextHopAllowed
<1>6. CASE TakeOffloaded
  <2>1. /\ offload_out' \in Seq(Packets) /\ offload_out # <<>>
        /\ \A i \in DOMAIN offload_out' :
             offload_out'[i] = offload_out[i + 1] /\ i + 1 \in DOMAIN offload_out
        BY <1>1, <1>6, TailItems DEF TakeOffloaded
  <2>2. UNCHANGED <<now, out_proc, offloadTriggerOut, tableVars, offload_in>>
        BY <1>6 DEF TakeOffloaded
  <2>3. NextHopAllowed'  BY <2>1 DEF NextHopAllowed
  <2>4. UninitialisedNeverUsed'
        BY <2>1, <2>2 DEF UninitialisedNeverUsed, tableVars
  <2>5. QED  BY <2>1, <2>2, <2>3, <2>4
        DEF tableVars, OffloadTypeOK, WiresTypeOK, WiresOK
<1>7. CASE OffloadTick
  <2>1. /\ now' = now + 1
        /\ UNCHANGED <<out_proc, offloadTriggerOut, tableVars, offload_in, offload_out>>
        BY <1>7 DEF OffloadTick
  <2>2. \A e \in Entries : m_hashtable[e].t_last_arrival \in Nat
        BY <1>1 DEF HashtableEntries
  <2>3. WiresOK'  BY <1>1, <2>1, <2>2 DEF WiresOK, tableVars
  <2>4. QED  BY <1>1, <2>1, <2>3
        DEF tableVars, OffloadTypeOK, WiresTypeOK, UninitialisedNeverUsed, NextHopAllowed
<1>8. CASE UNCHANGED offloadVars
       BY <1>8 DEF offloadVars, tableVars, OffloadTypeOK, WiresTypeOK, WiresOK,
                    UninitialisedNeverUsed, NextHopAllowed
<1>9. QED
  BY <1>2, <1>3, <1>4, <1>5, <1>6, <1>7, <1>8 DEF OffloadNext

\* OffloadInv holds in every state.
LEMMA OffloadInvariant == OffloadSpec => []OffloadInv
BY OffloadInvInit, OffloadInvStep, PTL DEF OffloadSpec

\* Every table index, queue number and hop count stays in range, for any hash
\* function and any interleaving of packets and overload announcements.
THEOREM OffloadTypesCorrect == OffloadSpec => []OffloadTypeOK
<1>1. OffloadInv => OffloadTypeOK  BY DEF OffloadInv
<1>2. QED  BY <1>1, OffloadInvariant, PTL

\* Whatever the allocator left in the hash table, no decision depends on it.
THEOREM GarbageNeverUsed == OffloadSpec => []UninitialisedNeverUsed
<1>1. OffloadInv => UninitialisedNeverUsed  BY DEF OffloadInv
<1>2. QED  BY <1>1, OffloadInvariant, PTL

\* No packet is sent to a node that would have to reject it, for any ring size.
THEOREM HopsBounded == OffloadSpec => []NextHopAllowed
<1>1. OffloadInv => NextHopAllowed  BY DEF OffloadInv
<1>2. QED  BY <1>1, OffloadInvariant, PTL

-----------------------------------------------------------------------------
\* The action properties.

\* What one packet does to the decision in its entry, with core balancing: an
\* entry that is not expired keeps it, an expired one is given a core that is
\* not overloaded if there is one.
LEMMA DecisionTaken ==
  ASSUME NEW pkt \in Packets, OffloadInv, EnableBalanceCores
  PROVE  LET old == m_hashtable[entry(pkt)]
             new == updated(pkt)
         IN  /\ ~expired(entry(pkt)) =>
                  new.local_rx_queue = old.local_rx_queue
             /\ expired(entry(pkt)) /\ notOverloaded # {} =>
                  new.local_rx_queue \in notOverloaded /\ ~new.offload
             /\ expired(entry(pkt)) /\ notOverloaded = {} =>
                  /\ new.offload <=> EnableOffload
                  /\ old.valid => new.local_rx_queue = old.local_rx_queue
             /\ old.valid /\ ~m_rx_queue_overload[old.local_rx_queue] =>
                  new.local_rx_queue = old.local_rx_queue
<1> DEFINE e        == entry(pkt)
           old      == m_hashtable[e]
           assigned == IF EnableBalanceCores /\ ~old.valid
                       THEN calc_rss_rx_queue(pkt) ELSE old.local_rx_queue
           queue    == local_rx_queue(pkt, assigned)
           new      == updated(pkt)
<1>1. OffloadTypeOK /\ e \in Entries /\ calc_rss_rx_queue(pkt) \in Cores
      BY EntryInTable DEF OffloadInv
<1>2. m_rx_queue_overload \in [Cores -> BOOLEAN]
      BY <1>1 DEF OffloadTypeOK
<1>3. old.valid => old.local_rx_queue \in Cores
      BY <1>1 DEF OffloadInv, UninitialisedNeverUsed
<1>4. assigned \in Cores /\ (old.valid => assigned = old.local_rx_queue)
      BY <1>1, <1>3
<1>5. /\ queue \in Cores
      /\ IF notOverloaded # {} THEN queue \in notOverloaded ELSE queue = assigned
      /\ ~m_rx_queue_overload[assigned] => queue = assigned
      BY <1>1, <1>4, LocalQueueExists
<1>6. /\ new.local_rx_queue = IF expired(e) THEN queue ELSE old.local_rx_queue
      /\ expired(e) => new.offload = (EnableOffload /\ m_rx_queue_overload[queue])
      BY DEF updated
<1> HIDE DEF e, old, assigned, queue, new
<1>7. notOverloaded # {} => ~m_rx_queue_overload[queue]
      BY <1>5 DEF notOverloaded
<1>8. notOverloaded = {} => m_rx_queue_overload[queue]
      BY <1>5 DEF notOverloaded
<1>9. expired(e) /\ notOverloaded # {} => ~new.offload
      BY <1>6, <1>7
<1>10. expired(e) /\ notOverloaded = {} => (new.offload <=> EnableOffload)
      BY <1>6, <1>8
<1>11. /\ ~expired(e) => new.local_rx_queue = old.local_rx_queue
       /\ expired(e) /\ notOverloaded # {} =>
            new.local_rx_queue \in notOverloaded /\ ~new.offload
       /\ expired(e) /\ notOverloaded = {} =>
            /\ new.offload <=> EnableOffload
            /\ old.valid => new.local_rx_queue = old.local_rx_queue
       /\ old.valid /\ ~m_rx_queue_overload[old.local_rx_queue] =>
            new.local_rx_queue = old.local_rx_queue
       BY <1>4, <1>5, <1>6, <1>9, <1>10
<1>12. QED  BY <1>11 DEF e, old, new

\* Only handling a packet writes the hash table, and only one entry of it.
LEMMA TableChange ==
  ASSUME OffloadInv, [OffloadNext]_offloadVars
  PROVE  \/ m_hashtable' = m_hashtable
         \/ \E pkt \in Packets :
              /\ entry(pkt) \in Entries
              /\ m_hashtable' = [m_hashtable EXCEPT ![entry(pkt)] = updated(pkt)]
<1>1. CASE OffloadHandlePkt
  <2>1. offload_in \in Seq(Packets) /\ OffloadTypeOK
        BY DEF OffloadInv, OffloadTypeOK
  <2>2. Head(offload_in) \in Packets  BY <1>1, <2>1, TailItems DEF OffloadHandlePkt
  <2>3. handle_pkt(Head(offload_in))  BY <1>1 DEF OffloadHandlePkt
  <2>4. entry(Head(offload_in)) \in Entries  BY <2>1, <2>2, EntryInTable
  <2>5. QED  BY <2>2, <2>3, <2>4 DEF handle_pkt
<1>2. CASE ~OffloadHandlePkt
      BY <1>2 DEF OffloadNext, OffloadHandleTrigger, SendIn,
         ProcessingStep, TakeOffloaded, OffloadTick,
         offloadVars, tableVars
<1>3. QED  BY <1>1, <1>2

\* No flow is sent to an overloaded core, or out of the node, as long as the
\* node has a core to spare.
THEOREM LoadRespected == OffloadSpec => DecisionRespectsLoad
<1>1. ASSUME OffloadInv, [OffloadNext]_offloadVars, NEW e \in Entries
      PROVE  RespectsLoad(e)
  <2> SUFFICES ASSUME m_hashtable'[e] # m_hashtable[e], expired(e), EnableBalanceCores
               PROVE  RespectsLoad(e)
      BY DEF RespectsLoad
  <2>1. PICK pkt \in Packets :
          m_hashtable' = [m_hashtable EXCEPT ![entry(pkt)] = updated(pkt)]
        BY <1>1, TableChange
  <2>2. m_hashtable \in [Entries -> HashtableEntries]
        BY <1>1 DEF OffloadInv, OffloadTypeOK
  <2>3. e = entry(pkt) /\ m_hashtable'[e] = updated(pkt)  BY <2>1, <2>2
  <2>4. QED  BY <1>1, <2>3, DecisionTaken DEF RespectsLoad
<1>2. OffloadInv /\ [OffloadNext]_offloadVars => \A e \in Entries : RespectsLoad(e)
      BY <1>1
<1>3. QED
  BY <1>2, OffloadInvariant, PTL DEF OffloadSpec, DecisionRespectsLoad

\* A flow that does not pause for the timeout keeps its core for good, and one
\* that moves goes from an overloaded core to one that is not.
THEOREM MigrationRelieves == OffloadSpec => MigrateOnlyToRelief
<1> DEFINE Relieves(e) ==
      EnableBalanceCores /\ Migrates(e) =>
        /\ now >= m_hashtable[e].t_last_arrival + HashtableEntryTimeout
        /\ m_rx_queue_overload[m_hashtable[e].local_rx_queue]
        /\ ~m_rx_queue_overload[m_hashtable'[e].local_rx_queue]
<1>1. ASSUME OffloadInv, [OffloadNext]_offloadVars, NEW e \in Entries
      PROVE  Relieves(e)
  <2> SUFFICES ASSUME EnableBalanceCores, Migrates(e) PROVE Relieves(e)
      OBVIOUS
  <2>1. PICK pkt \in Packets :
          m_hashtable' = [m_hashtable EXCEPT ![entry(pkt)] = updated(pkt)]
        BY <1>1, TableChange DEF Migrates
  <2>2. m_hashtable \in [Entries -> HashtableEntries]
        BY <1>1 DEF OffloadInv, OffloadTypeOK
  <2>3. e = entry(pkt) /\ m_hashtable'[e] = updated(pkt)
        BY <2>1, <2>2 DEF Migrates
  <2>4. expired(e) /\ notOverloaded # {}
        BY <1>1, <2>3, DecisionTaken DEF Migrates
  <2>5. m_hashtable'[e].local_rx_queue \in notOverloaded
        BY <1>1, <2>3, <2>4, DecisionTaken
  <2>6. m_rx_queue_overload[m_hashtable[e].local_rx_queue]
        BY <1>1, <2>3, DecisionTaken DEF Migrates
  <2>7. QED  BY <2>4, <2>5, <2>6 DEF expired, notOverloaded, Migrates
<1>2. OffloadInv /\ [OffloadNext]_offloadVars => \A e \in Entries : Relieves(e)
      BY <1>1
<1>3. QED
  BY <1>2, OffloadInvariant, PTL DEF OffloadSpec, MigrateOnlyToRelief

-----------------------------------------------------------------------------
\* The composition.

\* Packets wait in front of Offload only within the instant of their arrival.
Arrivals == \A i \in DOMAIN offload_in : offload_in[i] \in ArrivingPackets

NodeInv == CoreInv /\ OffloadInv /\ Arrivals

-----------------------------------------------------------------------------
\* Every step of a Node is a step of Processing's specification or leaves
\* Processing alone, and the same for Offload.

\* A packet leaves Offload for a core of this node as Processing expects it.
LEMMA DispatchLocal ==
  ASSUME NodeInv, Dispatch
  PROVE  [ProcNext]_procVars
<1> DEFINE pkt == Head(offload_in)
<1>1. /\ offload_in # <<>> /\ handle_pkt(pkt)
      /\ UNCHANGED <<now, offloadTriggerOut, coreVars, proc_out, m_offload_enabled>>
      BY DEF Dispatch, OffloadHandlePkt
<1>2. pkt \in ArrivingPackets /\ pkt \in Packets
  <2>1. offload_in \in Seq(Packets)
        BY DEF NodeInv, OffloadInv, OffloadTypeOK
  <2>2. pkt = offload_in[1] /\ 1 \in DOMAIN offload_in /\ pkt \in Packets
        BY <1>1, <2>1, TailItems
  <2>3. QED  BY <2>2 DEF NodeInv, Arrivals
<1> HIDE DEF pkt
<1>3. \/ \E q \in Cores : send_pkt_local(pkt, q)
      \/ send_pkt_offload(pkt)
  <2>1. calc_rss_rx_queue(pkt) \in Cores
        BY <1>2, EntryInTable DEF NodeInv, OffloadInv
  <2>2. updated(pkt).local_rx_queue \in Cores
        BY <1>2, UpdatedEntry DEF NodeInv
  <2>3. QED  BY <1>1, <2>1, <2>2 DEF handle_pkt
<1>4. ASSUME NEW q \in Cores, send_pkt_local(pkt, q)
      PROVE  \E p \in LocalPackets : SendLocal(p)
  <2> DEFINE sent == delivered(set_rx_queue(pkt, q), now)
  <2>1. out_proc' = Append(out_proc, sent)  BY <1>4 DEF send_pkt_local
  <2>2. sent \in LocalPackets
    <3>1. pkt.hop_cnt \in 0 .. MaxHopCnt - 1
      <4>1. pkt.hop_cnt \in (IF EnableOffload THEN 0 .. MaxHopCnt - 1 ELSE {0})
            BY <1>2 DEF ArrivingPackets
      <4>2. 0 \in 0 .. MaxHopCnt - 1  BY HopsAssumption
      <4>3. CASE EnableOffload  BY <4>1, <4>3
      <4>4. CASE ~EnableOffload  BY <4>1, <4>2, <4>4
      <4>5. QED  BY <4>3, <4>4
    <3>2. pkt \in [flow : Flows, id : Ids, instr : Instrs,
                   hop_cnt : 0 .. MaxHopCnt - 1,
                   rx_queue : {Unset}, arrival_port_id : {0},
                   processing_done : {FALSE}, arrival_time : {now}]
          BY <1>2, <3>1 DEF ArrivingPackets
    <3>3. QED  BY <3>2 DEF LocalPackets, delivered, set_rx_queue
  <2> HIDE DEF sent
  <2>3. QED  BY <1>1, <2>1, <2>2 DEF SendLocal, triggerVars
<1>5. CASE send_pkt_offload(pkt)
  <2>1. UNCHANGED procVars
        BY <1>1, <1>5 DEF send_pkt_offload, procVars, triggerVars
  <2>2. QED  BY <2>1
<1>6. QED  BY <1>3, <1>4, <1>5 DEF ProcNext

\* What the cores do is, seen from Offload, a step of Processing, also if they
\* reassign an entry of the redirection table.
LEMMA CoresStep ==
  ASSUME \/ HandlePacket
         \/ \E m \in Cores : HandleProcDone(m),
         CoreInv,
         \/ \E e \in Entries, q \in Cores : update_rss_reta_entry(e, q)
         \/ UNCHANGED m_rss_reta,
         UNCHANGED <<m_hashtable, m_rx_queue_overload, offload_in, offload_out>>
  PROVE  ProcessingStep
<1>1. ASSUME NEW c \in Cores, NEW queue, process_packet(c, queue)
      PROVE  \/ Enabled /\ \E msg \in TriggerMsgs : offloadTriggerOut' = Append(offloadTriggerOut, msg)
             \/ UNCHANGED offloadTriggerOut
  <2>1. report_queue_len(c, Len(queue))  BY <1>1 DEF process_packet
  <2>2. ASSUME NEW enable \in BOOLEAN, TriggerEnabled, set_offload_enable(c, enable)
        PROVE  Enabled /\ \E msg \in TriggerMsgs : offloadTriggerOut' = Append(offloadTriggerOut, msg)
    <3>1. [queueId |-> c, active |-> enable] \in TriggerMsgs  BY DEF TriggerMsgs
    <3>2. QED  BY <2>2, <3>1, WiringAssumption DEF set_offload_enable
  <2>3. QED  BY <2>1, <2>2 DEF report_queue_len, triggerVars
<1>2. /\ now' = now
      /\ (out_proc # <<>> /\ out_proc' = Tail(out_proc)) \/ UNCHANGED out_proc
      BY DEF HandlePacket, HandleProcDone
<1>3. \/ Enabled /\ \E msg \in TriggerMsgs : offloadTriggerOut' = Append(offloadTriggerOut, msg)
      \/ UNCHANGED offloadTriggerOut
  <2>1. CASE HandlePacket
    <3>1. Head(out_proc).rx_queue \in Cores
      <4>1. out_proc \in Seq(Packets) /\ out_proc # <<>>
            BY <2>1 DEF CoreInv, ProcTypeOK, WiresTypeOK, HandlePacket
      <4>2. Head(out_proc) = out_proc[1] /\ 1 \in DOMAIN out_proc
            BY <4>1, TailItems
      <4>3. QED  BY <4>2 DEF CoreInv, Routed
    <3>2. QED  BY <1>1, <2>1, <3>1 DEF HandlePacket, triggerVars
  <2>2. ASSUME NEW m \in Cores, HandleProcDone(m)
        PROVE  <1>3!:
    <3>1. msg_proc_done[m].pkt.rx_queue \in Cores
          BY <2>2 DEF CoreInv, CoreConsistent, HandleProcDone
    <3>2. QED  BY <1>1, <2>2, <3>1 DEF HandleProcDone, triggerVars
  <2>3. QED  BY <2>1, <2>2
<1>4. QED  BY <1>2, <1>3 DEF ProcessingStep

\* What arrives on the link is, after Ingress, what Offload expects.
LEMMA ReceiveSendsIn ==
  ASSUME NEW pkt \in LinkPackets, Receive(pkt), now \in Nat
  PROVE  \E p \in ArrivingPackets : SendIn(p)
<1> DEFINE p == delivered(set_arrival_port_id(pkt, 0), now)
<1>1. p \in ArrivingPackets
      BY DEF LinkPackets, ArrivingPackets, delivered, set_arrival_port_id
<1>2. offload_in' = Append(offload_in, p)  BY DEF Receive
<1> HIDE DEF p
<1>3. UNCHANGED <<now, out_proc, offloadTriggerOut, tableVars, offload_out>>
      BY DEF Receive, procVars, triggerVars
<1>4. QED  BY <1>1, <1>2, <1>3 DEF SendIn

\* A step of the node is, on the variables of Processing, a step of Processing
\* or of its environment.
LEMMA NodeStepsProcessing ==
  ASSUME NodeInv, [NodeNext]_nodeVars
  PROVE  [ProcNext]_procVars
<1>1. ASSUME NEW pkt \in LinkPackets, Receive(pkt) PROVE UNCHANGED procVars
      BY <1>1 DEF Receive
<1>2. CASE Dispatch  BY <1>2, DispatchLocal
<1>3. CASE LearnOverload
  <2>1. TakeTrigger  BY <1>3 DEF LearnOverload, OffloadHandleTrigger, TakeTrigger
  <2>2. QED  BY <2>1 DEF ProcNext
<1>4. CASE Enqueue  BY <1>4 DEF Enqueue, ProcNext
<1>5. ASSUME NEW m \in Cores, Complete(m) PROVE ProcNext
      BY <1>5 DEF Complete, ProcNext
<1>6. CASE OutputProcessed  BY <1>6 DEF OutputProcessed, ProcNext
<1>7. CASE OutputOffloaded
      BY <1>7 DEF OutputOffloaded, TakeOffloaded, procVars, triggerVars
<1>8. CASE OutputNext  BY <1>8 DEF OutputNext
<1>9. CASE Depart  BY <1>9 DEF Depart
<1>10. CASE NodeTick
       BY <1>10 DEF NodeTick, NodeQuiet, ProcTick, ProcNext
<1>11. CASE UNCHANGED nodeVars  BY <1>11 DEF nodeVars
<1>12. QED  BY <1>1, <1>2, <1>3, <1>4, <1>5, <1>6, <1>7, <1>8, <1>9, <1>10, <1>11
            DEF NodeNext

\* A step of the node is, on the variables of Offload, a step of Offload or of
\* its environment.
LEMMA NodeStepsOffload ==
  ASSUME NodeInv, [NodeNext]_nodeVars
  PROVE  [OffloadNext]_offloadVars
<1>1. ASSUME NEW pkt \in LinkPackets, Receive(pkt) PROVE OffloadNext
  <2>1. now \in Nat  BY DEF NodeInv, CoreInv, ProcTypeOK, WiresTypeOK
  <2>2. QED  BY <1>1, <2>1, ReceiveSendsIn DEF OffloadNext
<1>2. CASE Dispatch  BY <1>2 DEF Dispatch, OffloadNext
<1>3. CASE LearnOverload  BY <1>3 DEF LearnOverload, OffloadNext
<1>4. CASE Enqueue
      BY <1>4, CoresStep DEF Enqueue, NodeInv, tableVars, OffloadNext
<1>5. ASSUME NEW m \in Cores, Complete(m) PROVE OffloadNext
      BY <1>5, CoresStep DEF Complete, NodeInv, tableVars, OffloadNext
<1>6. CASE OutputProcessed
      BY <1>6 DEF OutputProcessed, TakeProcessed, offloadVars, triggerVars
<1>7. CASE OutputOffloaded  BY <1>7 DEF OutputOffloaded, OffloadNext
<1>8. CASE OutputNext
      BY <1>8 DEF OutputNext, procVars, triggerVars, offloadVars
<1>9. CASE Depart  BY <1>9 DEF Depart, procVars, triggerVars, offloadVars
<1>10. CASE NodeTick
       BY <1>10 DEF NodeTick, NodeQuiet, OffloadTick, OffloadNext, triggerVars
<1>11. CASE UNCHANGED nodeVars
       BY <1>11 DEF nodeVars, procVars, triggerVars, offloadVars
<1>12. QED  BY <1>1, <1>2, <1>3, <1>4, <1>5, <1>6, <1>7, <1>8, <1>9, <1>10, <1>11
            DEF NodeNext

\* What is on its way to Offload has the shape Ingress gives it.
LEMMA ArrivalsStep ==
  ASSUME NodeInv, [NodeNext]_nodeVars
  PROVE  Arrivals'
<1>1. offload_in \in Seq(Packets) /\ now \in Nat
      BY DEF NodeInv, OffloadInv, OffloadTypeOK, WiresTypeOK
<1>2. CASE offload_in' = offload_in /\ now' = now
      BY <1>2 DEF NodeInv, Arrivals, ArrivingPackets
<1>3. ASSUME NEW pkt \in LinkPackets, Receive(pkt) PROVE Arrivals'
  <2>1. PICK p \in ArrivingPackets : SendIn(p)  BY <1>1, <1>3, ReceiveSendsIn
  <2>2. now' = now /\ offload_in' = Append(offload_in, p)  BY <2>1 DEF SendIn
  <2>3. ArrivingPackets' = ArrivingPackets  BY <2>2 DEF ArrivingPackets
  <2>4. offload_in \in Seq(ArrivingPackets)
        BY <1>1 DEF NodeInv, Arrivals
  <2>5. \A i \in DOMAIN offload_in' :
          offload_in'[i] = IF i \in DOMAIN offload_in THEN offload_in[i] ELSE p
        BY <2>2, <2>4, AppendItems
  <2> HIDE DEF ArrivingPackets
  <2>6. QED  BY <2>3, <2>5 DEF NodeInv, Arrivals
<1>4. CASE Dispatch
  <2>1. offload_in # <<>> /\ offload_in' = Tail(offload_in) /\ now' = now
        BY <1>4 DEF Dispatch, OffloadHandlePkt
  <2>2. ArrivingPackets' = ArrivingPackets  BY <2>1 DEF ArrivingPackets
  <2>3. \A i \in DOMAIN offload_in' :
          offload_in'[i] = offload_in[i + 1] /\ i + 1 \in DOMAIN offload_in
        BY <1>1, <2>1, TailItems
  <2> HIDE DEF ArrivingPackets
  <2>4. QED  BY <2>2, <2>3 DEF NodeInv, Arrivals
<1>5. CASE NodeTick
      BY <1>5 DEF NodeTick, NodeQuiet, OffloadQuiet, Arrivals
<1>6. CASE LearnOverload
      BY <1>2, <1>6 DEF LearnOverload, OffloadHandleTrigger
<1>7. CASE Enqueue  BY <1>2, <1>7 DEF Enqueue, HandlePacket
<1>8. ASSUME NEW m \in Cores, Complete(m) PROVE Arrivals'
      BY <1>2, <1>8 DEF Complete, HandleProcDone
<1>9. CASE OutputProcessed
      BY <1>2, <1>9 DEF OutputProcessed, TakeProcessed
<1>10. CASE OutputOffloaded
       BY <1>2, <1>10 DEF OutputOffloaded, TakeOffloaded
<1>11. CASE OutputNext \/ Depart
       BY <1>2, <1>11 DEF OutputNext, Depart, procVars
<1>12. CASE UNCHANGED nodeVars  BY <1>2, <1>12 DEF nodeVars, procVars
<1>13. QED  BY <1>3, <1>4, <1>5, <1>6, <1>7, <1>8, <1>9, <1>10, <1>11, <1>12
            DEF NodeNext

\* The invariants of the parts are preserved by every step of the whole.
LEMMA NodeInvStep == NodeInv /\ [NodeNext]_nodeVars => NodeInv'
<1> SUFFICES ASSUME NodeInv, [NodeNext]_nodeVars PROVE NodeInv'
    OBVIOUS
<1>1. CoreInv'  BY NodeStepsProcessing, CoreInvStep DEF NodeInv
<1>2. OffloadInv'  BY NodeStepsOffload, OffloadInvStep DEF NodeInv
<1>3. QED  BY <1>1, <1>2, ArrivalsStep DEF NodeInv

\* They hold initially.
LEMMA NodeInvInit == NodeInit => NodeInv
<1> SUFFICES ASSUME NodeInit PROVE NodeInv
    OBVIOUS
<1>1. ProcInit /\ WiresInit /\ OffloadInit  BY DEF NodeInit, ProcInit
<1>2. Arrivals  BY <1>1 DEF OffloadInit, Arrivals
<1>3. QED  BY <1>1, <1>2, CoreInvInit, OffloadInvInit DEF NodeInv

\* They hold in every state of the node.
LEMMA NodeInvariant == NodeSpec => []NodeInv
BY NodeInvInit, NodeInvStep, PTL DEF NodeSpec

\* Within a Node, Processing meets its own specification: Offload sends it only
\* packets bound to an existing core, whatever the load, and time does not pass
\* it by.  All that is proved of ProcSpec therefore holds in every Node.
THEOREM NodeImplementsProcessing == NodeSpec => ProcSpec
<1>1. NodeInit => ProcInit  BY DEF NodeInit
<1>2. NodeInv /\ [NodeNext]_nodeVars => [ProcNext]_procVars
      BY NodeStepsProcessing
<1>3. QED  BY <1>1, <1>2, NodeInvariant, PTL DEF NodeSpec, ProcSpec

\* Within a Node, Offload meets its own specification: Processing announces
\* only existing queues, and Ingress hands over packets fit for a decision.
THEOREM NodeImplementsOffload == NodeSpec => OffloadSpec
<1>1. NodeInit => WiresInit /\ OffloadInit  BY DEF NodeInit, ProcInit
<1>2. NodeInv /\ [NodeNext]_nodeVars => [OffloadNext]_offloadVars
      BY NodeStepsOffload
<1>3. QED  BY <1>1, <1>2, NodeInvariant, PTL DEF NodeSpec, OffloadSpec

-----------------------------------------------------------------------------
\* Offload's view of the queues.

\* report_queue_len either leaves everything alone or changes the flag of its
\* queue and announces the new state.
LEMMA ReportAnnounces ==
  ASSUME NEW c \in Cores, NEW len, report_queue_len(c, len),
         m_offload_enabled \in [Cores -> BOOLEAN],
         offloadTriggerOut \in Seq(TriggerMsgs), ViewAgrees,
         UNCHANGED m_rx_queue_overload
  PROVE  ViewAgrees'
<1>1. CASE UNCHANGED triggerVars  BY <1>1 DEF ViewAgrees, triggerVars
<1>2. ASSUME NEW enable \in BOOLEAN, set_offload_enable(c, enable)
      PROVE  ViewAgrees'
  <2> DEFINE msg == [queueId |-> c, active |-> enable]
             out == offloadTriggerOut
  <2>1. /\ out' = Append(out, msg)
        /\ m_offload_enabled' = [m_offload_enabled EXCEPT ![c] = enable]
        BY <1>2 DEF set_offload_enable
  <2>2. msg \in TriggerMsgs  BY DEF TriggerMsgs
  <2>3. /\ Len(out) \in Nat /\ DOMAIN out = 1 .. Len(out)
        /\ DOMAIN out' = 1 .. Len(out) + 1
        /\ \A i \in DOMAIN out : out'[i] = out[i] /\ i \in DOMAIN out'
        /\ out'[Len(out) + 1] = msg /\ Len(out) + 1 \in DOMAIN out'
        BY <2>1, <2>2
  <2> HIDE DEF out
  <2>4. ASSUME NEW q \in Cores, m_rx_queue_overload'[q] # m_offload_enabled'[q]
        PROVE  \E i \in DOMAIN out' :
                 out'[i] = [queueId |-> q, active |-> m_offload_enabled'[q]]
    <3>1. CASE q = c  BY <2>1, <2>3, <3>1
    <3>2. CASE q # c
      <4>1. m_offload_enabled'[q] = m_offload_enabled[q]  BY <2>1, <3>2
      <4>2. PICK i \in DOMAIN out :
              out[i] = [queueId |-> q, active |-> m_offload_enabled[q]]
            BY <2>4, <4>1 DEF ViewAgrees, out
      <4>3. QED  BY <2>3, <4>1, <4>2
    <3>3. QED  BY <3>1, <3>2
  <2>5. QED  BY <2>4 DEF ViewAgrees, out
<1>3. QED  BY <1>1, <1>2 DEF report_queue_len

\* Every step of the node preserves ViewAgrees: a change is announced as it is
\* made, and only one announcement per queue is under way.
LEMMA ViewStep ==
  ASSUME NodeInv, OneAnnouncementPerQueue, ViewAgrees, [NodeNext]_nodeVars
  PROVE  ViewAgrees'
<1>1. /\ m_offload_enabled \in [Cores -> BOOLEAN]
      /\ m_rx_queue_overload \in [Cores -> BOOLEAN]
      /\ offloadTriggerOut \in Seq(TriggerMsgs)
      BY DEF NodeInv, OffloadInv, OffloadTypeOK, CoreInv, ProcTypeOK, WiresTypeOK
<1>2. CASE UNCHANGED <<m_offload_enabled, offloadTriggerOut, m_rx_queue_overload>>
      BY <1>2 DEF ViewAgrees
<1>3. CASE LearnOverload
  <2> DEFINE out == offloadTriggerOut
             msg == Head(out)
  <2>1. /\ out # <<>> /\ out' = Tail(out) /\ UNCHANGED m_offload_enabled
        /\ m_rx_queue_overload' = [m_rx_queue_overload EXCEPT ![msg.queueId] = msg.active]
        BY <1>3 DEF LearnOverload, OffloadHandleTrigger
  <2>2. /\ msg = out[1] /\ 1 \in DOMAIN out /\ msg \in TriggerMsgs
        /\ Len(out) \in Nat /\ DOMAIN out = 1 .. Len(out)
        /\ DOMAIN out' = 1 .. Len(out) - 1
        /\ \A i \in DOMAIN out' : out'[i] = out[i + 1]
        BY <1>1, <2>1
  <2> HIDE DEF out, msg
  <2>3. msg.queueId \in Cores /\ msg.active = m_offload_enabled[msg.queueId]
        BY <2>2 DEF OneAnnouncementPerQueue, TriggerMsgs, out
  <2>4. ASSUME NEW q \in Cores, m_rx_queue_overload'[q] # m_offload_enabled'[q]
        PROVE  \E i \in DOMAIN out' :
                 out'[i] = [queueId |-> q, active |-> m_offload_enabled'[q]]
    <3>1. q # msg.queueId  BY <1>1, <2>1, <2>3, <2>4
    <3>2. m_rx_queue_overload[q] # m_offload_enabled[q]
          BY <1>1, <2>1, <2>4, <3>1
    <3>3. PICK i \in DOMAIN out :
            out[i] = [queueId |-> q, active |-> m_offload_enabled[q]]
          BY <3>2 DEF ViewAgrees, out
    <3>4. i # 1  BY <2>2, <3>1, <3>3
    <3>5. i - 1 \in DOMAIN out' /\ (i - 1) + 1 = i  BY <2>2, <3>4
    <3>6. QED  BY <2>1, <2>2, <3>3, <3>5
  <2>5. QED  BY <2>4 DEF ViewAgrees, out
<1>4. CASE Enqueue
  <2>1. Head(out_proc).rx_queue \in Cores
    <3>1. out_proc \in Seq(Packets) /\ out_proc # <<>>
          BY <1>4 DEF NodeInv, CoreInv, ProcTypeOK, WiresTypeOK, Enqueue, HandlePacket
    <3>2. Head(out_proc) = out_proc[1] /\ 1 \in DOMAIN out_proc
          BY <3>1, TailItems
    <3>3. QED  BY <3>2 DEF NodeInv, CoreInv, Routed
  <2>2. UNCHANGED m_rx_queue_overload  BY <1>4 DEF Enqueue, tableVars
  <2>3. \/ UNCHANGED triggerVars
        \/ \E len : report_queue_len(Head(out_proc).rx_queue, len)
        BY <1>4 DEF Enqueue, HandlePacket, process_packet
  <2>4. QED  BY <1>1, <1>2, <2>1, <2>2, <2>3, ReportAnnounces DEF triggerVars
<1>5. ASSUME NEW m \in Cores, Complete(m) PROVE ViewAgrees'
  <2>1. msg_proc_done[m].pkt.rx_queue \in Cores
        BY <1>5 DEF NodeInv, CoreInv, CoreConsistent, Complete, HandleProcDone
  <2>2. UNCHANGED m_rx_queue_overload  BY <1>5 DEF Complete, tableVars
  <2>3. \/ UNCHANGED triggerVars
        \/ \E len : report_queue_len(msg_proc_done[m].pkt.rx_queue, len)
        BY <1>5 DEF Complete, HandleProcDone, process_packet
  <2>4. QED  BY <1>1, <1>2, <2>1, <2>2, <2>3, ReportAnnounces DEF triggerVars
<1>6. ASSUME NEW pkt \in LinkPackets, Receive(pkt) PROVE ViewAgrees'
      BY <1>2, <1>6 DEF Receive, procVars, triggerVars, tableVars
<1>7. CASE Dispatch  BY <1>2, <1>7 DEF Dispatch, OffloadHandlePkt
<1>8. CASE OutputProcessed
      BY <1>2, <1>8 DEF OutputProcessed, TakeProcessed, triggerVars, tableVars
<1>9. CASE OutputOffloaded
      BY <1>2, <1>9 DEF OutputOffloaded, TakeOffloaded, tableVars
<1>10. CASE OutputNext \/ Depart
       BY <1>2, <1>10 DEF OutputNext, Depart, procVars, triggerVars, tableVars
<1>11. CASE NodeTick  BY <1>2, <1>11 DEF NodeTick, triggerVars, tableVars
<1>12. CASE UNCHANGED nodeVars
       BY <1>2, <1>12 DEF nodeVars, procVars, triggerVars, tableVars
<1>13. QED  BY <1>3, <1>4, <1>5, <1>6, <1>7, <1>8, <1>9, <1>10, <1>11, <1>12
            DEF NodeNext

\* For every number of cores, threshold and load, Offload can act on an outdated
\* overload state only within the instant of the change.
THEOREM ViewCorrect == NodeSpec => []ViewAgrees
<1>1. NodeInit => ViewAgrees
      BY DEF NodeInit, ProcInit, TriggerInit, OffloadInit, ViewAgrees
<1>2. QED  BY <1>1, NodeInvariant, NodeImplementsProcessing, AnnouncementsCorrect,
               ViewStep, PTL DEF NodeSpec

-----------------------------------------------------------------------------
\* The output buffer.

BufferInv == OutTypeOK /\ BufferConsistent /\ LinkSerial

\* Sending when the link is free keeps transmissions apart.
LEMMA SendKeepsBuffer ==
  ASSUME BufferInv, now \in Nat, NEW queue \in Seq(Packets), queue # <<>>,
         m_self_msg \in {Unset, now}, send_packet(queue), now' = now,
         m_waiting_for_input' = FALSE
  PROVE  BufferInv'
<1>1. PICK tx \in TxTimes :
        /\ m_pkt_queue' = Tail(queue)
        /\ port_out' = Append(port_out,
             [pkt |-> clear(incrm_hop_cnt(Head(queue))), at |-> now + tx])
        /\ m_self_msg' = now + tx
      BY DEF send_packet
<1> DEFINE sent == [pkt |-> clear(incrm_hop_cnt(Head(queue))), at |-> now + tx]
<1>2. tx \in Nat /\ tx > 0  BY TxAssumption
<1>3. Head(queue) \in Packets /\ Tail(queue) \in Seq(Packets)
      BY TailItems
<1>4. clear(incrm_hop_cnt(Head(queue))) \in Packets
  <2> DEFINE p == Head(queue)
  <2>1. p \in Packets  BY <1>3
  <2> HIDE DEF p
  <2>2. p.hop_cnt \in 0..255  BY <2>1 DEF Packets
  <2>3. (p.hop_cnt + 1) % 256 \in 0..255
    <3>1. \A x \in 0..255 : (x + 1) % 256 \in 0..255  OBVIOUS
    <3>2. QED  BY <2>2, <3>1
  <2>4. QED  BY <2>1, <2>3 DEF Packets, clear, incrm_hop_cnt, p
<1>5. sent \in LinkMsgs /\ sent.at = now + tx
      BY <1>2, <1>4 DEF LinkMsgs
<1> HIDE DEF sent
<1>6. /\ port_out \in Seq(LinkMsgs)
      /\ Len(port_out) \in Nat /\ DOMAIN port_out = 1 .. Len(port_out)
      BY DEF BufferInv, OutTypeOK
<1>7. /\ port_out' \in Seq(LinkMsgs)
      /\ DOMAIN port_out' = 1 .. Len(port_out) + 1
      /\ \A i \in DOMAIN port_out : port_out'[i] = port_out[i]
      /\ port_out'[Len(port_out) + 1] = sent
      BY <1>1, <1>5, <1>6 DEF sent
<1>8. OutTypeOK'
  <2>1. m_self_msg' \in Nat  BY <1>1, <1>2
  <2>2. m_waiting_for_input' \in BOOLEAN  OBVIOUS
  <2>3. QED  BY <1>1, <1>3, <1>7, <2>1, <2>2 DEF OutTypeOK
<1>9. BufferConsistent'
      BY <1>1, <1>2 DEF BufferConsistent, Unset
<1>10. \A i \in DOMAIN port_out : port_out[i].at = now
  <2>1. \A i \in DOMAIN port_out : port_out[i].at \in Nat
    <3>1. \A i \in DOMAIN port_out : port_out[i] \in LinkMsgs  BY <1>6
    <3>2. QED  BY <3>1 DEF LinkMsgs
  <2>2. QED  BY <2>1 DEF BufferInv, LinkSerial, Unset
<1>11. \A i, j \in DOMAIN port_out : i < j => port_out[i].at < port_out[j].at
       BY DEF BufferInv, LinkSerial
<1>12. LinkSerial'
  <2>1. \A i \in DOMAIN port_out' :
          \/ i \in DOMAIN port_out /\ port_out'[i].at = now
          \/ i = Len(port_out) + 1 /\ port_out'[i].at = now + tx
        BY <1>5, <1>6, <1>7, <1>10
  <2>2. \A i, j \in DOMAIN port_out' :
          i < j => port_out'[i].at < port_out'[j].at
        BY <1>2, <1>6, <1>7, <1>10, <1>11, <2>1
  <2>3. QED  BY <1>1, <1>2, <2>1, <2>2 DEF LinkSerial
<1>13. QED  BY <1>8, <1>9, <1>12 DEF BufferInv

\* A packet that arrives at the output buffer leaves it consistent.
LEMMA ArrivalKeepsBuffer ==
  ASSUME BufferInv, now \in Nat, NEW pkt \in Packets, OutHandlePacket(pkt), now' = now
  PROVE  BufferInv'
<1> DEFINE queue == Append(m_pkt_queue, pkt)
<1>1. queue \in Seq(Packets) /\ queue # <<>>
      BY DEF BufferInv, OutTypeOK
<1> HIDE DEF queue
<1>2. CASE m_waiting_for_input /\ m_waiting_for_input' = FALSE /\ send_packet(queue)
      BY <1>1, <1>2, SendKeepsBuffer DEF BufferInv, BufferConsistent
<1>3. CASE /\ ~m_waiting_for_input /\ m_pkt_queue' = queue
           /\ UNCHANGED <<m_waiting_for_input, m_self_msg, port_out>>
      BY <1>1, <1>3 DEF BufferInv, OutTypeOK, BufferConsistent, LinkSerial
<1>4. QED  BY <1>2, <1>3 DEF OutHandlePacket, queue

\* Every step of the node preserves BufferInv.
LEMMA BufferStep ==
  ASSUME NodeInv, BufferInv, [NodeNext]_nodeVars
  PROVE  BufferInv'
<1>1. now \in Nat /\ proc_out \in Seq(Packets) /\ offload_out \in Seq(Packets)
      BY DEF NodeInv, OffloadInv, OffloadTypeOK, CoreInv, ProcTypeOK, WiresTypeOK
<1>2. CASE UNCHANGED <<now, outVars>>
      BY <1>2 DEF outVars, BufferInv, OutTypeOK, BufferConsistent, LinkSerial
<1>3. CASE OutputProcessed
  <2>1. proc_out # <<>> /\ now' = now /\ OutHandlePacket(Head(proc_out))
        BY <1>3 DEF OutputProcessed, TakeProcessed
  <2>2. Head(proc_out) \in Packets  BY <1>1, <2>1
  <2>3. QED  BY <1>1, <2>1, <2>2, ArrivalKeepsBuffer
<1>4. CASE OutputOffloaded
  <2>1. offload_out # <<>> /\ now' = now /\ OutHandlePacket(Head(offload_out))
        BY <1>4 DEF OutputOffloaded, TakeOffloaded
  <2>2. Head(offload_out) \in Packets  BY <1>1, <2>1
  <2>3. QED  BY <1>1, <2>1, <2>2, ArrivalKeepsBuffer
<1>5. CASE OutputNext
  <2>1. m_self_msg = now /\ now' = now
        BY <1>5 DEF OutputNext, OutHandleSelf, procVars
  <2>2. CASE m_pkt_queue # <<>> /\ send_packet(m_pkt_queue) /\ UNCHANGED m_waiting_for_input
    <3>1. m_waiting_for_input' = FALSE
          BY <2>2 DEF BufferInv, BufferConsistent, OutTypeOK
    <3>2. QED  BY <1>1, <2>1, <2>2, <3>1, SendKeepsBuffer DEF BufferInv, OutTypeOK
  <2>3. CASE /\ m_pkt_queue = <<>> /\ m_waiting_for_input' = TRUE
             /\ m_self_msg' = Unset /\ UNCHANGED <<m_pkt_queue, port_out>>
    <3>1. \A i \in DOMAIN port_out : ~(port_out[i].at > now)
          BY <1>1, <2>1 DEF BufferInv, LinkSerial
    <3>2. OutTypeOK'  BY <2>3 DEF BufferInv, OutTypeOK
    <3>3. BufferConsistent'  BY <2>3 DEF BufferConsistent
    <3>4. LinkSerial'  BY <2>1, <2>3, <3>1 DEF BufferInv, LinkSerial
    <3>5. QED  BY <3>2, <3>3, <3>4 DEF BufferInv
  <2>4. QED  BY <1>5, <2>2, <2>3 DEF OutputNext, OutHandleSelf
<1>6. CASE Depart
  <2>1. /\ port_out # <<>> /\ port_out' = Tail(port_out) /\ now' = now
        /\ UNCHANGED <<m_pkt_queue, m_waiting_for_input, m_self_msg>>
        BY <1>6 DEF Depart, LinkDelivers, procVars
  <2>2. port_out \in Seq(LinkMsgs)  BY DEF BufferInv, OutTypeOK
  <2>3. /\ port_out' \in Seq(LinkMsgs)
        /\ \A i \in DOMAIN port_out' :
             port_out'[i] = port_out[i + 1] /\ i + 1 \in DOMAIN port_out
        BY <2>1, <2>2, TailItems
  <2>4. \A i \in DOMAIN port_out' : i \in Int
        BY <2>3
  <2>5. LinkSerial'
    <3>1. \A i, j \in DOMAIN port_out' : i < j => i + 1 < j + 1  BY <2>4
    <3>2. QED  BY <2>1, <2>3, <3>1 DEF BufferInv, LinkSerial
  <2>6. QED  BY <2>1, <2>3, <2>5 DEF BufferInv, OutTypeOK, BufferConsistent
<1>7. CASE NodeTick
  <2>1. now' = now + 1 /\ UNCHANGED outVars /\ OutQuiet
        BY <1>7 DEF NodeTick, NodeQuiet
  <2>2. port_out \in Seq(LinkMsgs) /\ m_self_msg \in Nat \cup {Unset}
        BY DEF BufferInv, OutTypeOK
  <2>3. \A i \in DOMAIN port_out : port_out[i].at \in Nat
    <3>1. \A i \in DOMAIN port_out : port_out[i] \in LinkMsgs  BY <2>2
    <3>2. QED  BY <3>1 DEF LinkMsgs
  <2>4. m_self_msg # Unset => m_self_msg \in Nat /\ m_self_msg > now
        BY <2>1, <2>2 DEF OutQuiet
  <2>5. BufferConsistent'
        BY <1>1, <2>1, <2>4 DEF outVars, BufferInv, BufferConsistent
  <2>6. \A i \in DOMAIN port_out : port_out[i].at > now
        BY <2>1 DEF OutQuiet
  <2>7. LinkSerial'
        BY <1>1, <2>1, <2>3, <2>6 DEF outVars, BufferInv, LinkSerial
  <2>8. QED  BY <2>1, <2>5, <2>7 DEF outVars, BufferInv, OutTypeOK
<1>8. ASSUME NEW pkt \in LinkPackets, Receive(pkt) PROVE BufferInv'
      BY <1>2, <1>8 DEF Receive, procVars
<1>9. CASE Dispatch \/ LearnOverload
      BY <1>2, <1>9 DEF Dispatch, LearnOverload, OffloadHandlePkt, OffloadHandleTrigger
<1>10. CASE Enqueue  BY <1>2, <1>10 DEF Enqueue, HandlePacket
<1>11. ASSUME NEW m \in Cores, Complete(m) PROVE BufferInv'
       BY <1>2, <1>11 DEF Complete, HandleProcDone
<1>12. CASE UNCHANGED nodeVars  BY <1>2, <1>12 DEF nodeVars, procVars
<1>13. QED  BY <1>3, <1>4, <1>5, <1>6, <1>7, <1>8, <1>9, <1>10, <1>11, <1>12
            DEF NodeNext

\* BufferInv holds in every state of the node.
LEMMA BufferInvariant == NodeSpec => []BufferInv
<1>1. NodeInit => BufferInv
      BY DEF NodeInit, OutInit, BufferInv, OutTypeOK, BufferConsistent, LinkSerial
<1>2. QED  BY <1>1, NodeInvariant, BufferStep, PTL DEF NodeSpec

\* No arrival, not even one at the instant a transmission ends, makes the buffer
\* forget a packet or schedule its self-message twice.
THEOREM BufferCorrect == NodeSpec => []BufferConsistent
<1>1. BufferInv => BufferConsistent  BY DEF BufferInv
<1>2. QED  BY <1>1, BufferInvariant, PTL

\* The node never sends on a busy channel, whatever the transmission times.
THEOREM LinkCorrect == NodeSpec => []LinkSerial
<1>1. BufferInv => LinkSerial  BY DEF BufferInv
<1>2. QED  BY <1>1, BufferInvariant, PTL

\* All parts of a node keep their types together.
THEOREM NodeTyped == NodeSpec => []NodeTypeOK
<1> DEFINE Received == received \in BOOLEAN
<1>1. NodeInit => Received
      BY DEF NodeInit
<1>2. Received /\ [NodeNext]_nodeVars => Received'
      BY DEF NodeNext, nodeVars, Receive, Dispatch, LearnOverload, Enqueue, Complete,
             OutputProcessed, OutputOffloaded, OutputNext, Depart, NodeTick
<1>3. NodeInv /\ BufferInv /\ Received => NodeTypeOK
      BY DEF NodeInv, CoreInv, OffloadInv, BufferInv, NodeTypeOK
<1> HIDE DEF Received
<1>4. QED  BY <1>1, <1>2, <1>3, NodeInvariant, BufferInvariant, PTL DEF NodeSpec

-----------------------------------------------------------------------------
(* A Node never splits a burst over its cores.                             *)


\* The entry of a packet that waits at core c still names c, unless it expired
\* after the packet had come in and was given another core then.  Without hash
\* table lookups the redirection table, which a Node does not change, says c.
Assigned(c, p) ==
  /\ p \in Packets
  /\ p.rx_queue = c
  /\ p.arrival_time <= now
  /\ IF Enabled
     THEN LET e == m_hashtable[entry(p)]
          IN  /\ e.valid
              /\ p.arrival_time <= e.t_last_arrival
              /\ e.local_rx_queue # c =>
                   e.t_last_arrival >= p.arrival_time + HashtableEntryTimeout
     ELSE calc_rss_rx_queue(p) = c

AllAssigned == \A c \in Cores : \A p \in atCore(c) : Assigned(c, p)

BurstInv == AllAssigned /\ BurstsStayTogether

-----------------------------------------------------------------------------
\* The packets at the cores after a step of the cores are those before it, but
\* for the mark that the one in service carries.
LEMMA CoresKeepPackets ==
  ASSUME NodeInv, NodeInv',
         \/ HandlePacket
         \/ \E m \in Cores : HandleProcDone(m)
  PROVE  \A c \in Cores : \A p \in atCore(c)' :
           \E r \in atCore(c) : p = r \/ p = set_processing_done(r)
<1>1. /\ out_proc \in Seq(Packets) /\ rx_queue \in [Cores -> Seq(Packets)]
      /\ msg_proc_done \in [Cores -> DoneMsgs \cup {NoMsg}]
      /\ busy \in [Cores -> BOOLEAN]
      BY DEF NodeInv, CoreInv, ProcTypeOK, WiresTypeOK
<1>2. /\ \A i \in DOMAIN out_proc : out_proc[i].rx_queue \in Cores
      /\ \A c \in Cores : busy[c] => msg_proc_done[c].pkt.rx_queue = c
      /\ \A c \in Cores : busy[c] <=> msg_proc_done[c] # NoMsg
      BY DEF NodeInv, CoreInv, Routed, CoreConsistent
\* What a step may leave of a core: its own packets and one that came in.
<1>3. ASSUME NEW c \in Cores, NEW queue \in Seq(Packets), queue # <<>>,
             process_packet(c, queue),
             \A i \in DOMAIN queue : queue[i] \in atCore(c)
      PROVE  /\ \A i \in DOMAIN rx_queue'[c] : rx_queue'[c][i] \in atCore(c)
             /\ \E r \in atCore(c) : msg_proc_done'[c].pkt = set_processing_done(r)
             /\ \A d \in Cores \ {c} : /\ rx_queue'[d] = rx_queue[d]
                                       /\ msg_proc_done'[d] = msg_proc_done[d]
  <2>1. /\ Head(queue) = queue[1] /\ 1 \in DOMAIN queue
        /\ \A i \in DOMAIN Tail(queue) :
             Tail(queue)[i] = queue[i + 1] /\ i + 1 \in DOMAIN queue
        BY <1>3, TailItems
  <2>2. /\ rx_queue' = [rx_queue EXCEPT ![c] = Tail(queue)]
        /\ msg_proc_done' = [msg_proc_done EXCEPT ![c] =
             [pkt |-> set_processing_done(Head(queue)), at |-> now + Head(queue).instr]]
        BY <1>3 DEF process_packet
  <2>3. msg_proc_done'[c].pkt = set_processing_done(Head(queue))
        BY <1>1, <2>2
  <2>4. rx_queue'[c] = Tail(queue)  BY <1>1, <2>2
  <2>5. QED  BY <1>1, <1>3, <2>1, <2>2, <2>3, <2>4
<1>4. CASE HandlePacket
  <2> DEFINE pkt   == Head(out_proc)
             c     == pkt.rx_queue
             queue == Append(rx_queue[c], pkt)
  <2>1. /\ out_proc # <<>> /\ out_proc' = Tail(out_proc)
        /\ \/ /\ busy[c] /\ rx_queue' = [rx_queue EXCEPT ![c] = queue]
              /\ UNCHANGED <<busy, msg_proc_done>>
           \/ /\ ~busy[c] /\ set_busy(c, TRUE) /\ process_packet(c, queue)
        BY <1>4 DEF HandlePacket
  <2>2. /\ pkt = out_proc[1] /\ 1 \in DOMAIN out_proc /\ pkt \in Packets
        /\ \A i \in DOMAIN out_proc' :
             out_proc'[i] = out_proc[i + 1] /\ i + 1 \in DOMAIN out_proc
        BY <1>1, <2>1, TailItems
  <2>3. c \in Cores /\ pkt \in atCore(c)
        BY <1>2, <2>2 DEF atCore
  <2>4. /\ queue \in Seq(Packets) /\ queue # <<>>
        /\ \A i \in DOMAIN queue :
             queue[i] = IF i \in DOMAIN rx_queue[c] THEN rx_queue[c][i] ELSE pkt
        BY <1>1, <2>2, <2>3, AppendElements
  <2> HIDE DEF pkt, c, queue
  <2>5. \A i \in DOMAIN queue : queue[i] \in atCore(c)
        BY <2>3, <2>4 DEF atCore
  <2>6. \A d \in Cores : \A i \in DOMAIN out_proc' :
          out_proc'[i].rx_queue = d => out_proc'[i] \in atCore(d)
        BY <2>2 DEF atCore
  <2>7. \A d \in Cores : \A i \in DOMAIN rx_queue[d] : rx_queue[d][i] \in atCore(d)
        BY DEF atCore
  <2>8. \A d \in Cores : busy[d] => msg_proc_done[d].pkt \in atCore(d)
        BY DEF atCore
  <2>9. CASE busy[c] /\ rx_queue' = [rx_queue EXCEPT ![c] = queue]
             /\ UNCHANGED <<busy, msg_proc_done>>
    <3>1. \A d \in Cores : \A i \in DOMAIN rx_queue'[d] : rx_queue'[d][i] \in atCore(d)
          BY <1>1, <2>5, <2>7, <2>9
    <3>2. \A d \in Cores : \A p \in atCore(d)' : p \in atCore(d)
          BY <2>6, <2>8, <2>9, <3>1 DEF atCore
    <3>3. QED  BY <3>2
  <2>10. CASE ~busy[c] /\ set_busy(c, TRUE) /\ process_packet(c, queue)
    <3>1. /\ \A i \in DOMAIN rx_queue'[c] : rx_queue'[c][i] \in atCore(c)
          /\ \E r \in atCore(c) : msg_proc_done'[c].pkt = set_processing_done(r)
          /\ \A d \in Cores \ {c} : /\ rx_queue'[d] = rx_queue[d]
                                    /\ msg_proc_done'[d] = msg_proc_done[d]
          BY <1>3, <2>3, <2>4, <2>5, <2>10
    <3>2. \A d \in Cores \ {c} : busy'[d] = busy[d]
          BY <1>1, <2>10 DEF set_busy
    <3>3. \A d \in Cores : \A i \in DOMAIN rx_queue'[d] : rx_queue'[d][i] \in atCore(d)
          BY <2>7, <3>1
    <3>4. \A d \in Cores : busy'[d] =>
            \E r \in atCore(d) : \/ msg_proc_done'[d].pkt = r
                                 \/ msg_proc_done'[d].pkt = set_processing_done(r)
          BY <2>8, <3>1, <3>2
    <3>5. QED  BY <2>6, <3>3, <3>4 DEF atCore
  <2>11. QED  BY <2>1, <2>9, <2>10
<1>5. ASSUME NEW m \in Cores, HandleProcDone(m)
      PROVE  \A c \in Cores : \A p \in atCore(c)' :
               \E r \in atCore(c) : p = r \/ p = set_processing_done(r)
  <2>1. msg_proc_done[m].pkt.rx_queue = m  BY <1>2, <1>5 DEF HandleProcDone
  <2>2. /\ UNCHANGED out_proc
        /\ \/ /\ rx_queue[m] # <<>> /\ process_packet(m, rx_queue[m])
              /\ UNCHANGED busy
           \/ /\ set_busy(m, FALSE) /\ UNCHANGED rx_queue
              /\ msg_proc_done' = [msg_proc_done EXCEPT ![m] = NoMsg]
        BY <1>5, <2>1 DEF HandleProcDone
  <2>3. \A d \in Cores : \A i \in DOMAIN out_proc' :
          out_proc'[i].rx_queue = d => out_proc'[i] \in atCore(d)
        BY <2>2 DEF atCore
  <2>4. \A d \in Cores : \A i \in DOMAIN rx_queue[d] : rx_queue[d][i] \in atCore(d)
        BY DEF atCore
  <2>5. \A d \in Cores : busy[d] => msg_proc_done[d].pkt \in atCore(d)
        BY DEF atCore
  <2>6. CASE rx_queue[m] # <<>> /\ process_packet(m, rx_queue[m]) /\ UNCHANGED busy
    <3>1. rx_queue[m] \in Seq(Packets)  BY <1>1
    <3>2. /\ \A i \in DOMAIN rx_queue'[m] : rx_queue'[m][i] \in atCore(m)
          /\ \E r \in atCore(m) : msg_proc_done'[m].pkt = set_processing_done(r)
          /\ \A d \in Cores \ {m} : /\ rx_queue'[d] = rx_queue[d]
                                    /\ msg_proc_done'[d] = msg_proc_done[d]
          BY <1>3, <2>4, <2>6, <3>1
    <3>3. \A d \in Cores : \A i \in DOMAIN rx_queue'[d] : rx_queue'[d][i] \in atCore(d)
          BY <2>4, <3>2
    <3>4. \A d \in Cores : busy'[d] =>
            \E r \in atCore(d) : \/ msg_proc_done'[d].pkt = r
                                 \/ msg_proc_done'[d].pkt = set_processing_done(r)
          BY <2>5, <2>6, <3>2
    <3>5. QED  BY <2>3, <3>3, <3>4 DEF atCore
  <2>7. CASE /\ set_busy(m, FALSE) /\ UNCHANGED rx_queue
             /\ msg_proc_done' = [msg_proc_done EXCEPT ![m] = NoMsg]
    <3>1. \A d \in Cores : busy'[d] => busy[d] /\ msg_proc_done'[d] = msg_proc_done[d]
          BY <1>1, <2>7 DEF set_busy
    <3>2. \A d \in Cores : busy'[d] => msg_proc_done'[d].pkt \in atCore(d)
          BY <2>5, <3>1
    <3>3. \A d \in Cores : \A i \in DOMAIN rx_queue'[d] : rx_queue'[d][i] \in atCore(d)
          BY <2>4, <2>7
    <3>4. \A d \in Cores : \A p \in atCore(d)' : p \in atCore(d)
          BY <2>3, <3>2, <3>3 DEF atCore
    <3>5. QED  BY <3>4
  <2>8. QED  BY <2>2, <2>6, <2>7
<1>6. QED  BY <1>4, <1>5

\* A step that brings no packet to a core and leaves the tables alone.
LEMMA BurstKept ==
  ASSUME NodeInv, BurstInv, UNCHANGED <<m_hashtable, m_rss_reta>>,
         now \in Nat, now' \in Nat, now <= now',
         \A c \in Cores : \A p \in atCore(c)' :
           \E r \in atCore(c) : p = r \/ p = set_processing_done(r)
  PROVE  BurstInv'
<1>1. ASSUME NEW r \in Packets
      PROVE  LET p == set_processing_done(r)
             IN  /\ p \in Packets /\ p.flow = r.flow /\ p.rx_queue = r.rx_queue
                 /\ p.arrival_time = r.arrival_time
      BY DEF Packets, set_processing_done
<1>2. \A c \in Cores : \A p \in atCore(c)' : \E r \in atCore(c) :
        /\ Assigned(c, r) /\ p \in Packets /\ p.flow = r.flow
        /\ p.rx_queue = r.rx_queue /\ p.arrival_time = r.arrival_time
  <2>1. \A c \in Cores : \A r \in atCore(c) : Assigned(c, r) /\ r \in Packets
        BY DEF BurstInv, AllAssigned, Assigned
  <2>2. QED  BY <1>1, <2>1
<1>3. \A p, r \in Packets : p.flow = r.flow =>
        /\ entry(p) = entry(r)
        /\ calc_rss_rx_queue(p)' = calc_rss_rx_queue(r)
      BY DEF entry, calc_rss_rx_queue
<1>4. AllAssigned'
  <2> SUFFICES ASSUME NEW c \in Cores, NEW p \in atCore(c)'
               PROVE  Assigned(c, p)'
      BY DEF AllAssigned
  <2>1. PICK r \in atCore(c) :
          /\ Assigned(c, r) /\ p \in Packets /\ p.flow = r.flow
          /\ p.rx_queue = r.rx_queue /\ p.arrival_time = r.arrival_time
        BY <1>2
  <2>2. r \in Packets  BY <2>1 DEF Assigned
  <2>3. /\ entry(p) = entry(r) /\ entry(p)' = entry(p)
        /\ calc_rss_rx_queue(p)' = calc_rss_rx_queue(r)
        BY <1>3, <2>1, <2>2 DEF entry
  <2>4. p.arrival_time <= now'
    <3>1. p.arrival_time \in Nat  BY <2>1 DEF Packets
    <3>2. p.arrival_time <= now  BY <2>1 DEF Assigned
    <3>3. QED  BY <3>1, <3>2
  <2>5. QED  BY <2>1, <2>3, <2>4 DEF Assigned
<1>5. BurstsStayTogether'
  <2> SUFFICES ASSUME NEW c \in Cores, NEW d \in Cores, c # d,
                      NEW p1 \in atCore(c)', NEW p2 \in atCore(d)',
                      entry(p1)' = entry(p2)'
               PROVE  \/ p1.arrival_time >= p2.arrival_time + HashtableEntryTimeout
                      \/ p2.arrival_time >= p1.arrival_time + HashtableEntryTimeout
      BY DEF BurstsStayTogether
  <2>1. PICK r1 \in atCore(c) :
          /\ Assigned(c, r1) /\ p1.flow = r1.flow /\ p1.arrival_time = r1.arrival_time
        BY <1>2
  <2>2. PICK r2 \in atCore(d) :
          /\ Assigned(d, r2) /\ p2.flow = r2.flow /\ p2.arrival_time = r2.arrival_time
        BY <1>2
  <2>3. entry(r1) = entry(r2)  BY <2>1, <2>2 DEF entry
  <2>4. QED  BY <2>1, <2>2, <2>3 DEF BurstInv, BurstsStayTogether
<1>6. QED  BY <1>4, <1>5 DEF BurstInv

\* What Offload leaves in the table suits the packets that are at the cores.
LEMMA UpdateSuitsOthers ==
  ASSUME NodeInv, BurstInv, Enabled, NEW pkt \in Packets, UNCHANGED now,
         m_hashtable' = [m_hashtable EXCEPT ![entry(pkt)] = updated(pkt)],
         NEW c \in Cores, NEW p \in atCore(c)
  PROVE  Assigned(c, p)'
<1> DEFINE e   == entry(pkt)
           old == m_hashtable[e]
           new == updated(pkt)
           T   == HashtableEntryTimeout
<1>1. Assigned(c, p)  BY DEF BurstInv, AllAssigned
<1>2. /\ p \in Packets /\ p.rx_queue = c /\ p.arrival_time <= now
      /\ p.arrival_time \in Nat
      BY <1>1 DEF Assigned, Packets
<1>3. /\ m_hashtable[entry(p)].valid
      /\ p.arrival_time <= m_hashtable[entry(p)].t_last_arrival
      /\ m_hashtable[entry(p)].local_rx_queue # c =>
           m_hashtable[entry(p)].t_last_arrival >= p.arrival_time + T
      BY <1>1 DEF Assigned
<1>4. e \in Entries /\ entry(p) \in Entries
      BY <1>2, EntryInTable DEF NodeInv, OffloadInv
<1>5. /\ m_hashtable \in [Entries -> HashtableEntries]
      /\ now \in Nat /\ T \in Nat /\ old.t_last_arrival <= now
      /\ old.t_last_arrival \in Nat
  <2>1. m_hashtable \in [Entries -> HashtableEntries] /\ now \in Nat
        BY DEF NodeInv, OffloadInv, OffloadTypeOK, WiresTypeOK
  <2>2. old \in HashtableEntries  BY <1>4, <2>1
  <2>3. QED  BY <1>4, <2>1, <2>2, TimeoutAssumption
             DEF NodeInv, OffloadInv, WiresOK, HashtableEntries
<1>6. entry(p)' = entry(p)  BY DEF entry
<1>7. CASE entry(p) # e
  <2>1. m_hashtable'[entry(p)] = m_hashtable[entry(p)]  BY <1>4, <1>5, <1>7
  <2>2. QED  BY <1>2, <1>3, <1>6, <2>1 DEF Assigned
<1>8. CASE entry(p) = e
  <2>1. m_hashtable'[e] = new  BY <1>4, <1>5
  <2>2. new.valid /\ new.t_last_arrival = now
        BY UpdatedEntry DEF NodeInv
  <2>3. expired(e) => now >= old.t_last_arrival + T
        BY <1>3, <1>8 DEF expired
  <2>4. ~expired(e) => new.local_rx_queue = old.local_rx_queue
        BY DEF updated
  <2>5. p.arrival_time <= old.t_last_arrival  BY <1>3, <1>8
  <2>6. old.local_rx_queue # c => old.t_last_arrival >= p.arrival_time + T
        BY <1>3, <1>8
  <2> HIDE DEF e, old, new, T
  <2>7. new.local_rx_queue # c => now >= p.arrival_time + T
    <3>1. CASE expired(e)  BY <1>2, <1>5, <2>3, <2>5, <3>1
    <3>2. CASE ~expired(e)  BY <1>2, <1>5, <2>4, <2>6, <3>2
    <3>3. QED  BY <3>1, <3>2
  <2>8. QED  BY <1>2, <1>6, <1>8, <2>1, <2>2, <2>7 DEF Assigned, T
<1>9. QED  BY <1>7, <1>8

\* Offload hands a packet to a core: the entry has just been refreshed, and if
\* its core changed, everything at the old one came in the timeout before.
LEMMA BurstDispatch ==
  ASSUME NodeInv, BurstInv, Dispatch
  PROVE  BurstInv'
<1> DEFINE pkt == Head(offload_in)
           e   == entry(pkt)
           sent(q) == delivered(set_rx_queue(pkt, q), now)
<1>1. /\ offload_in # <<>> /\ handle_pkt(pkt)
      /\ UNCHANGED <<now, m_rss_reta, rx_queue, busy, msg_proc_done>>
      BY DEF Dispatch, OffloadHandlePkt, coreVars
<1>2. /\ out_proc \in Seq(Packets) /\ offload_in \in Seq(Packets) /\ now \in Nat
      /\ m_hashtable \in [Entries -> HashtableEntries] /\ OffloadTypeOK
      BY DEF NodeInv, OffloadInv, OffloadTypeOK, WiresTypeOK
<1>3. pkt \in Packets  BY <1>1, <1>2, TailItems
<1>4. e \in Entries /\ calc_rss_rx_queue(pkt) \in Cores
      BY <1>2, <1>3, EntryInTable
<1>5. /\ updated(pkt).valid /\ updated(pkt).t_last_arrival = now
      /\ updated(pkt).local_rx_queue \in Cores
      BY <1>3, UpdatedEntry DEF NodeInv
<1>6. \A p, r : p.flow = r.flow => entry(p) = entry(r) /\ entry(p)' = entry(p)
      BY DEF entry
<1>7. ASSUME NEW q \in Cores
      PROVE  /\ sent(q) \in Packets /\ sent(q).rx_queue = q
             /\ sent(q).flow = pkt.flow /\ sent(q).arrival_time = now
      BY <1>2, <1>3 DEF Packets, delivered, set_rx_queue
<1>8. ASSUME NEW q \in Cores, send_pkt_local(pkt, q)
      PROVE  \A c \in Cores : \A p \in atCore(c)' : p \in atCore(c) \/ (c = q /\ p = sent(q))
  <2>1. out_proc' = Append(out_proc, sent(q))  BY <1>8 DEF send_pkt_local
  <2> HIDE DEF sent
  <2>2. \A i \in DOMAIN out_proc' :
          out_proc'[i] = IF i \in DOMAIN out_proc THEN out_proc[i] ELSE sent(q)
        BY <1>2, <1>7, <2>1, AppendItems
  <2>3. QED  BY <1>1, <1>7, <2>2 DEF atCore
<1> HIDE DEF pkt, sent
\* The packets that were there stay assigned.
<1>9. \A c \in Cores : \A p \in atCore(c) : Assigned(c, p)'
  <2>1. CASE Enabled
    <3>1. m_hashtable' = [m_hashtable EXCEPT ![e] = updated(pkt)]
          BY <1>1, <2>1 DEF handle_pkt
    <3>2. QED  BY <1>1, <1>3, <2>1, <3>1, UpdateSuitsOthers
  <2>2. CASE ~Enabled
    <3>1. SUFFICES ASSUME NEW c \in Cores, NEW p \in atCore(c)
                   PROVE  Assigned(c, p)'
          OBVIOUS
    <3>2. Assigned(c, p)  BY DEF BurstInv, AllAssigned
    <3>3. calc_rss_rx_queue(p)' = calc_rss_rx_queue(p)
          BY <1>1, <1>6 DEF calc_rss_rx_queue
    <3>4. Enabled' = Enabled  BY DEF Enabled
    <3>5. QED  BY <1>1, <2>2, <3>2, <3>3, <3>4 DEF Assigned
  <2>3. QED  BY <2>1, <2>2
<1>10. ASSUME NEW q \in Cores, send_pkt_local(pkt, q),
              IF Enabled THEN /\ m_hashtable' = [m_hashtable EXCEPT ![e] = updated(pkt)]
                              /\ q = updated(pkt).local_rx_queue
                         ELSE q = calc_rss_rx_queue(pkt)
       PROVE  BurstInv'
  <2>0. PICK s : s = sent(q)  OBVIOUS
  <2>1. /\ s \in Packets /\ s.rx_queue = q /\ s.arrival_time = now
        /\ entry(s)' = e /\ entry(s) = e
        BY <1>6, <1>7, <2>0
  <2>2. calc_rss_rx_queue(s)' = calc_rss_rx_queue(pkt)
        BY <1>1, <2>1 DEF calc_rss_rx_queue
  <2>3. Assigned(q, s)'
    <3>1. now <= now  BY <1>2
    <3>2. CASE Enabled
      <4>1. m_hashtable'[e] = updated(pkt)  BY <1>2, <1>4, <1>10, <3>2
      <4>2. QED  BY <1>1, <1>5, <1>10, <2>1, <3>1, <3>2, <4>1 DEF Assigned
    <3>3. CASE ~Enabled  BY <1>1, <1>10, <2>1, <2>2, <3>1, <3>3 DEF Assigned
    <3>4. QED  BY <3>2, <3>3
  <2>4. AllAssigned'
        BY <1>8, <1>9, <1>10, <2>0, <2>3 DEF AllAssigned
  <2>5. ASSUME NEW c \in Cores, c # q, NEW p \in atCore(c), entry(p)' = e
        PROVE  now >= p.arrival_time + HashtableEntryTimeout
    <3>1. Assigned(c, p)'  BY <1>9, <2>5
    <3>2. CASE Enabled
      <4>1. m_hashtable'[e] = updated(pkt)  BY <1>2, <1>4, <1>10, <3>2
      <4>2. QED  BY <1>5, <1>10, <2>5, <3>1, <3>2, <4>1 DEF Assigned
    <3>3. CASE ~Enabled
      <4>1. calc_rss_rx_queue(p)' = c  BY <3>1, <3>3 DEF Assigned
      <4>2. calc_rss_rx_queue(p)' = calc_rss_rx_queue(s)'
            BY <2>1, <2>5 DEF calc_rss_rx_queue
      <4>3. QED  BY <1>10, <2>2, <2>5, <3>3, <4>1, <4>2
    <3>4. QED  BY <3>2, <3>3
  <2>6. BurstsStayTogether'
    <3> SUFFICES ASSUME NEW c \in Cores, NEW d \in Cores, c # d,
                        NEW p \in atCore(c)', NEW r \in atCore(d)',
                        entry(p)' = entry(r)'
                 PROVE  \/ p.arrival_time >= r.arrival_time + HashtableEntryTimeout
                        \/ r.arrival_time >= p.arrival_time + HashtableEntryTimeout
        BY DEF BurstsStayTogether
    <3>1. /\ p \in atCore(c) \/ (c = q /\ p = s)
          /\ r \in atCore(d) \/ (d = q /\ r = s)
          BY <1>8, <1>10, <2>0
    <3>2. CASE p \in atCore(c) /\ r \in atCore(d)
      <4>1. entry(p) = entry(r)  BY DEF entry
      <4>2. QED  BY <3>2, <4>1 DEF BurstInv, BurstsStayTogether
    <3>3. CASE c = q /\ p = s /\ r \in atCore(d)
          BY <2>1, <2>5, <3>3
    <3>4. CASE d = q /\ r = s /\ p \in atCore(c)
          BY <2>1, <2>5, <3>4
    <3>5. QED  BY <3>1, <3>2, <3>3, <3>4
  <2>7. QED  BY <2>4, <2>6 DEF BurstInv
<1>11. CASE Enabled /\ send_pkt_offload(pkt)
  <2>1. \A c \in Cores : atCore(c)' = atCore(c)
        BY <1>1, <1>11 DEF send_pkt_offload, atCore
  <2>2. AllAssigned'  BY <1>9, <2>1 DEF AllAssigned
  <2>3. \A p : entry(p)' = entry(p)  BY DEF entry
  <2>4. BurstsStayTogether'
        BY <2>1, <2>3 DEF BurstInv, BurstsStayTogether
  <2>5. QED  BY <2>2, <2>4 DEF BurstInv
<1>12. QED  BY <1>1, <1>4, <1>5, <1>10, <1>11 DEF handle_pkt

\* Every step of the node preserves BurstInv: packets only move from the
\* connection to a queue, to a core, and away.
LEMMA BurstStep ==
  ASSUME NodeInv, NodeInv', BurstInv, [NodeNext]_nodeVars
  PROVE  BurstInv'
<1>1. now \in Nat /\ now' \in Nat
      BY DEF NodeInv, CoreInv, ProcTypeOK, WiresTypeOK
<1>2. ASSUME UNCHANGED <<out_proc, rx_queue, busy, msg_proc_done, m_hashtable, m_rss_reta>>,
             now' = now \/ now' = now + 1
      PROVE  BurstInv'
  <2>1. \A c \in Cores : atCore(c)' = atCore(c)  BY <1>2 DEF atCore
  <2>2. now <= now'  BY <1>1, <1>2
  <2>3. QED  BY <1>1, <1>2, <2>1, <2>2, BurstKept
<1>3. now <= now  BY <1>1
<1>4. CASE Dispatch  BY <1>4, BurstDispatch
<1>5. CASE Enqueue
  <2>1. HandlePacket /\ UNCHANGED <<now, m_hashtable, m_rss_reta>>
        BY <1>5 DEF Enqueue, HandlePacket, tableVars
  <2>2. QED  BY <1>1, <1>3, <2>1, CoresKeepPackets, BurstKept
<1>6. ASSUME NEW m \in Cores, Complete(m) PROVE BurstInv'
  <2>1. HandleProcDone(m) /\ UNCHANGED <<now, m_hashtable, m_rss_reta>>
        BY <1>6 DEF Complete, HandleProcDone, tableVars
  <2>2. QED  BY <1>1, <1>3, <2>1, CoresKeepPackets, BurstKept
<1>7. ASSUME NEW pkt \in LinkPackets, Receive(pkt) PROVE BurstInv'
      BY <1>2, <1>7 DEF Receive, procVars, coreVars, tableVars
<1>8. CASE LearnOverload
      BY <1>2, <1>8 DEF LearnOverload, OffloadHandleTrigger, coreVars
<1>9. CASE OutputProcessed
      BY <1>2, <1>9 DEF OutputProcessed, TakeProcessed, coreVars, tableVars
<1>10. CASE OutputOffloaded
       BY <1>2, <1>10 DEF OutputOffloaded, TakeOffloaded, coreVars, tableVars
<1>11. CASE OutputNext \/ Depart
       BY <1>2, <1>11 DEF OutputNext, Depart, procVars, coreVars, tableVars
<1>12. CASE NodeTick
       BY <1>2, <1>12 DEF NodeTick, coreVars, tableVars
<1>13. CASE UNCHANGED nodeVars
       BY <1>2, <1>13 DEF nodeVars, procVars, coreVars, tableVars
<1>14. QED  BY <1>4, <1>5, <1>6, <1>7, <1>8, <1>9, <1>10, <1>11, <1>12, <1>13
            DEF NodeNext

\* For every hash function, table size, timeout, load and configuration, a node
\* with a fixed redirection table processes the packets of a flow on one core
\* unless they come in at least the timeout apart: this is what the hash table
\* is there for, and why flows are not reordered.
THEOREM BurstsKeepTheirCore == NodeSpec => []BurstsStayTogether
<1>1. NodeInit => BurstInv
  <2> SUFFICES ASSUME NodeInit PROVE BurstInv
      OBVIOUS
  <2>1. \A c \in Cores : atCore(c) = {}
        BY DEF NodeInit, ProcInit, WiresInit, atCore
  <2>2. QED  BY <2>1 DEF BurstInv, AllAssigned, BurstsStayTogether
<1>2. BurstInv => BurstsStayTogether  BY DEF BurstInv
<1>3. QED  BY <1>1, <1>2, NodeInvariant, BurstStep, PTL DEF NodeSpec
=============================================================================
