----------------------------- MODULE Processing -----------------------------
(***************************************************************************)
(* simulator/src/modules/node/Processing.cc: the cores of a node, each     *)
(* serving its own rx queue, together with the OffloadTrigger they report  *)
(* to.  A step is one event of the simulation kernel run to completion:    *)
(* the head of a connection delivered to a handler, or a self-message that *)
(* is due.  Time moves only when no event of the present instant is left.  *)
(* The order of events of one instant is left open, which admits every     *)
(* order the kernel (time, then insertion) may choose.                     *)
(***************************************************************************)
EXTENDS OffloadTrigger, FiniteSets

CONSTANT NoMsg  \* a self-message that is not scheduled

VARIABLES
  rx_queue,       \* core.rx_queue
  busy,           \* core.busy
  m_n_cores_busy,
  msg_proc_done,  \* core.msg_proc_done: when it is due and its context
  proc_out        \* connection proc.out --> out_buffer[0].in

coreVars == <<rx_queue, busy, m_n_cores_busy, msg_proc_done>>
procVars == <<now, out_proc, coreVars, proc_out, triggerVars>>

DoneMsgs == [pkt : Packets, at : Nat]

ASSUME NoMsgAssumption == NoMsg \notin DoneMsgs

ProcTypeOK ==
  /\ WiresTypeOK
  /\ m_offload_enabled \in [Cores -> BOOLEAN]
  /\ rx_queue \in [Cores -> Seq(Packets)]
  /\ busy \in [Cores -> BOOLEAN]
  /\ m_n_cores_busy \in Nat
  /\ msg_proc_done \in [Cores -> DoneMsgs \cup {NoMsg}]
  /\ proc_out \in Seq(Packets)

ProcInit ==
  /\ WiresInit
  /\ TriggerInit
  /\ rx_queue = [c \in Cores |-> <<>>]
  /\ busy = [c \in Cores |-> FALSE]
  /\ m_n_cores_busy = 0
  /\ msg_proc_done = [c \in Cores |-> NoMsg]
  /\ proc_out = <<>>

-----------------------------------------------------------------------------
\* Mutant: the counter only ever goes up.
set_busy_up(c, b) ==
  /\ busy' = [busy EXCEPT ![c] = b]
  /\ m_n_cores_busy' = m_n_cores_busy + 1

\* Mutant: the flag of the core is never taken back.
set_busy_stuck(c, b) ==
  /\ busy' = [busy EXCEPT ![c] = TRUE]
  /\ m_n_cores_busy' = IF b THEN m_n_cores_busy + 1 ELSE m_n_cores_busy - 1

set_busy(c, b) ==
  /\ busy' = [busy EXCEPT ![c] = b]
  /\ m_n_cores_busy' = IF b THEN m_n_cores_busy + 1 ELSE m_n_cores_busy - 1

\* Mutant: the packet that came last is served first.
process_packet_lifo(c, queue) ==
  LET last == queue[Len(queue)]
  IN  /\ report_queue_len(c, Len(queue))
      /\ rx_queue' = [rx_queue EXCEPT ![c] = SubSeq(queue, 1, Len(queue) - 1)]
      /\ msg_proc_done' = [msg_proc_done EXCEPT ![c] =
           [pkt |-> set_processing_done(last), at |-> now + last.instr]]

\* queue is the content of the rx queue when the method is called.
process_packet(c, queue) ==
  /\ report_queue_len(c, Len(queue))
  /\ rx_queue' = [rx_queue EXCEPT ![c] = Tail(queue)]
  /\ msg_proc_done' = [msg_proc_done EXCEPT ![c] =
       [pkt |-> set_processing_done(Head(queue)),
        at  |-> now + Head(queue).instr]]

\* handleMessage: a packet arrives from Offload.
HandlePacket ==
  /\ out_proc # <<>>
  /\ out_proc' = Tail(out_proc)
  /\ LET pkt   == Head(out_proc)
         c     == pkt.rx_queue
         queue == Append(rx_queue[c], pkt)
     IN  \/ /\ busy[c]
            /\ rx_queue' = [rx_queue EXCEPT ![c] = queue]
            /\ UNCHANGED <<busy, m_n_cores_busy, msg_proc_done, triggerVars>>
         \/ /\ ~busy[c]
            /\ set_busy(c, TRUE)
            /\ process_packet(c, queue)
  /\ UNCHANGED <<now, proc_out>>

\* handleMessage: self-message m says that its packet is processed.  The core
\* is taken from the packet, not from the message.
HandleProcDone(m) ==
  /\ msg_proc_done[m] # NoMsg
  /\ msg_proc_done[m].at = now
  /\ LET pkt == msg_proc_done[m].pkt
         c   == pkt.rx_queue
     IN  /\ proc_out' = Append(proc_out, delivered(pkt, now))
         /\ \/ /\ rx_queue[c] # <<>>
               /\ process_packet(c, rx_queue[c])
               /\ UNCHANGED <<busy, m_n_cores_busy>>
            \/ /\ rx_queue[c] = <<>>
               /\ set_busy(c, FALSE)
               /\ msg_proc_done' = [msg_proc_done EXCEPT ![m] = NoMsg]
               /\ UNCHANGED <<rx_queue, triggerVars>>
  /\ UNCHANGED <<now, out_proc>>

-----------------------------------------------------------------------------
(* The environment: Offload sends packets and takes the trigger messages,  *)
(* the output buffer takes what was processed, the kernel advances time.   *)

SendLocal(pkt) ==
  /\ out_proc' = Append(out_proc, pkt)
  /\ UNCHANGED <<now, coreVars, proc_out, triggerVars>>

TakeProcessed ==
  /\ proc_out # <<>>
  /\ proc_out' = Tail(proc_out)
  /\ UNCHANGED <<now, out_proc, coreVars, triggerVars>>

TakeTrigger ==
  /\ offloadTriggerOut # <<>>
  /\ offloadTriggerOut' = Tail(offloadTriggerOut)
  /\ UNCHANGED <<now, out_proc, coreVars, proc_out, m_offload_enabled>>

\* Every event of the present instant has been executed.
ProcQuiet ==
  /\ out_proc = <<>> /\ proc_out = <<>> /\ offloadTriggerOut = <<>>
  /\ \A c \in Cores : msg_proc_done[c] # NoMsg => msg_proc_done[c].at > now

ProcTick ==
  /\ ProcQuiet
  /\ now' = now + 1
  /\ UNCHANGED <<out_proc, coreVars, proc_out, triggerVars>>

ProcNext ==
  \/ HandlePacket
  \/ \E m \in Cores : HandleProcDone(m)
  \/ \E pkt \in LocalPackets : SendLocal(pkt)
  \/ TakeProcessed
  \/ TakeTrigger
  \/ ProcTick

ProcSpec == ProcInit /\ [][ProcNext]_procVars

-----------------------------------------------------------------------------
(* Properties.                                                             *)

\* A core that is not busy has nothing waiting, a busy one has exactly its
\* own self-message scheduled, for a packet that is bound to this core and
\* marked as processed.  This is what the ASSERTs of handleMessage and
\* process_packet rely on.
CoreConsistent ==
  \A c \in Cores :
    /\ busy[c] <=> msg_proc_done[c] # NoMsg
    /\ ~busy[c] => rx_queue[c] = <<>>
    /\ busy[c] => /\ msg_proc_done[c].pkt.rx_queue = c
                  /\ msg_proc_done[c].pkt.processing_done
                  /\ msg_proc_done[c].at >= now

\* The counter set_busy keeps beside the flags is the number of busy cores, so
\* that its two ASSERTs (at most m_n_cores, never decremented below zero) hold.
BusyCountExact ==
  m_n_cores_busy = Cardinality({c \in Cores : busy[c]})

\* A queue is marked as overloaded only while at least Threshold packets wait
\* in it, hence (with a threshold of one packet or more) only while its core is
\* busy: the flag is re-evaluated at each pop, before the queue gets shorter,
\* and until the next pop the queue can only grow.
OverloadMeansBacklog ==
  \A c \in Cores : m_offload_enabled[c] => Len(rx_queue[c]) >= Threshold

\* A core pops at most once per instant, so that at most one announcement per
\* queue is on its way to Offload and it carries the state the trigger is in:
\* Offload can never be left with an outdated flag by the order of delivery.
OneAnnouncementPerQueue ==
  \A i, j \in DOMAIN offloadTriggerOut :
    LET msg == offloadTriggerOut[i]
    IN  /\ msg.active = m_offload_enabled[msg.queueId]
        /\ busy[msg.queueId]
        /\ msg_proc_done[msg.queueId].at > now
        /\ offloadTriggerOut[j].queueId = msg.queueId => i = j

-----------------------------------------------------------------------------
(* The abstract specification: the packet in service leaves when its       *)
(* self-message is due, each waiting one its own instructions later than   *)
(* the one before it.                                                      *)

departure ==
  [c \in Cores |->
     LET due[i \in 0 .. Len(rx_queue[c])] ==
           IF i = 0 THEN msg_proc_done[c].at
                    ELSE due[i - 1] + rx_queue[c][i].instr
     IN  IF busy[c] THEN [i \in 1 .. Len(rx_queue[c]) + 1 |-> due[i - 1]]
                    ELSE <<>>]

Servers == INSTANCE FifoServers

\* Processing implements the servers: no order of arrivals, completions and
\* idle periods makes a core skip, delay or overtake a packet.
ImplementsFifoServers == Servers!FifoSpec
=============================================================================
