---------------------------- MODULE OutputBuffer ----------------------------
(***************************************************************************)
(* simulator/src/modules/node/OutputBuffer.cc: the queue in front of a     *)
(* node's link.  A packet occupies the link for its transmission time and  *)
(* arrives at the other end when that time is over; a self-message at the  *)
(* same instant makes the buffer send the next one.                        *)
(***************************************************************************)
EXTENDS Wires

CONSTANT TxTimes  \* transmission times on the link

ASSUME TxAssumption == TxTimes \subseteq Nat \ {0} /\ TxTimes # {}

VARIABLES
  m_pkt_queue,
  m_waiting_for_input,
  m_self_msg,  \* the instant it is scheduled for, or Unset
  port_out     \* link: the packets on it and when they arrive

outVars == <<m_pkt_queue, m_waiting_for_input, m_self_msg, port_out>>

LinkMsgs == [pkt : Packets, at : Nat]

OutTypeOK ==
  /\ m_pkt_queue \in Seq(Packets)
  /\ m_waiting_for_input \in BOOLEAN
  /\ m_self_msg \in Nat \cup {Unset}
  /\ port_out \in Seq(LinkMsgs)

OutInit ==
  /\ m_pkt_queue = <<>>
  /\ m_waiting_for_input = TRUE
  /\ m_self_msg = Unset
  /\ port_out = <<>>

-----------------------------------------------------------------------------
\* Mutant: the hop is not counted.
send_packet_uncounted(queue) ==
  \E tx \in TxTimes :
    /\ m_pkt_queue' = Tail(queue)
    /\ port_out' = Append(port_out, [pkt |-> clear(Head(queue)), at |-> now + tx])
    /\ m_self_msg' = now + tx

\* queue is the content of the queue when the method is called.
send_packet(queue) ==
  \E tx \in TxTimes :
    /\ m_pkt_queue' = Tail(queue)
    /\ port_out' = Append(port_out,
         [pkt |-> clear(incrm_hop_cnt(Head(queue))), at |-> now + tx])
    /\ m_self_msg' = now + tx

\* Mutant: a packet is sent although the link is occupied.
OutHandlePacket_rash(pkt) ==
  /\ m_waiting_for_input' = FALSE
  /\ send_packet(Append(m_pkt_queue, pkt))

\* handleMessage: pkt arrives from Offload or Processing.
OutHandlePacket(pkt) ==
  LET queue == Append(m_pkt_queue, pkt)
  IN  \/ /\ m_waiting_for_input
         /\ m_waiting_for_input' = FALSE
         /\ send_packet(queue)
      \/ /\ ~m_waiting_for_input
         /\ m_pkt_queue' = queue
         /\ UNCHANGED <<m_waiting_for_input, m_self_msg, port_out>>

\* Mutant: the buffer is not told to wait for input when its queue is empty.
OutHandleSelf_unwaiting ==
  /\ m_self_msg = now
  /\ \/ /\ m_pkt_queue = <<>>
        /\ m_self_msg' = Unset
        /\ UNCHANGED <<m_pkt_queue, port_out>>
     \/ /\ m_pkt_queue # <<>>
        /\ send_packet(m_pkt_queue)
  /\ UNCHANGED m_waiting_for_input

\* Mutant: the buffer waits for input although packets are in its queue.
OutHandleSelf_forgetful ==
  /\ m_self_msg = now
  /\ m_waiting_for_input' = TRUE
  /\ m_self_msg' = Unset
  /\ UNCHANGED <<m_pkt_queue, port_out>>

\* handleMessage: the self-message says that the link is free again.
OutHandleSelf ==
  /\ m_self_msg = now
  /\ \/ /\ m_pkt_queue = <<>>
        /\ m_waiting_for_input' = TRUE
        /\ m_self_msg' = Unset
        /\ UNCHANGED <<m_pkt_queue, port_out>>
     \/ /\ m_pkt_queue # <<>>
        /\ send_packet(m_pkt_queue)
        /\ UNCHANGED m_waiting_for_input

\* The packet at the head of the link arrives at its other end.
LinkDelivers ==
  /\ port_out # <<>>
  /\ Head(port_out).at = now
  /\ port_out' = Tail(port_out)
  /\ UNCHANGED <<m_pkt_queue, m_waiting_for_input, m_self_msg>>

OutQuiet ==
  /\ m_self_msg # Unset => m_self_msg > now
  /\ \A i \in DOMAIN port_out : port_out[i].at > now

-----------------------------------------------------------------------------
(* Properties.                                                             *)

\* The buffer waits for input exactly when it has no self-message scheduled,
\* and then its queue is empty: a packet that arrives at the very instant at
\* which a transmission ends is neither forgotten nor sent twice, and
\* scheduleAt is never called for a message that is still scheduled.
BufferConsistent ==
  /\ m_waiting_for_input <=> m_self_msg = Unset
  /\ m_waiting_for_input => m_pkt_queue = <<>>
  /\ m_self_msg # Unset => m_self_msg >= now

\* Transmissions on the link do not overlap, and the self-message is due when
\* the last of them is over: send() is never called on a busy channel.
LinkSerial ==
  /\ \A i, j \in DOMAIN port_out : i < j => port_out[i].at < port_out[j].at
  /\ \A i \in DOMAIN port_out :
       /\ port_out[i].at >= now
       /\ port_out[i].at > now => port_out[i].at = m_self_msg
=============================================================================
