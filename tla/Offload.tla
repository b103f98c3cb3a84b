------------------------------ MODULE Offload -------------------------------
(***************************************************************************)
(* simulator/src/modules/node/Offload.cc: for each arriving packet, choose *)
(* the core that processes it, or send it on to the next node.  Packets    *)
(* are matched to a hash table entry by their flow's toeplitz hash; the    *)
(* choice recorded in the entry is kept until no packet has hit it for     *)
(* hashtable_entry_timeout, so that the packets of a flow stay in order.   *)
(***************************************************************************)
EXTENDS Wires, FiniteSets

CONSTANTS
  EnableBalanceCores,     \* m_enabled_balance_cores
  EnableOffload,          \* m_enabled_offload
  HashtableSize,          \* m_hashtable_size
  HashtableEntryTimeout,  \* m_hashtable_entry_timeout
  Toeplitz,               \* get_toeplitz_hash() of each flow
  UninitQueues            \* what local_rx_queue may hold before it is written

ASSUME FeatureAssumption == EnableBalanceCores \in BOOLEAN /\ EnableOffload \in BOOLEAN

\* The redirection table is as long as the hash table, its length a uint16_t.
ASSUME TableAssumption == HashtableSize \in Nat /\ HashtableSize > 0 /\ HashtableSize < 65536

ASSUME TimeoutAssumption == HashtableEntryTimeout \in Nat
ASSUME HashAssumption    == Toeplitz \in [Flows -> Nat]
ASSUME UninitAssumption  == UninitQueues \subseteq 0..255 /\ UninitQueues # {}

VARIABLES
  m_rss_reta,           \* redirection table: hash to rx queue
  m_hashtable,
  m_rx_queue_overload,  \* the queues the trigger has announced as overloaded
  offload_in,           \* ingress.out --> offload.in
  offload_out           \* offload.out --> out_buffer[0].in

tableVars == <<m_rss_reta, m_hashtable, m_rx_queue_overload>>
offloadVars == <<now, out_proc, offloadTriggerOut, tableVars, offload_in, offload_out>>

Enabled == EnableBalanceCores \/ EnableOffload

Entries == 0 .. HashtableSize - 1

HashtableEntries ==
  [valid : BOOLEAN, local_rx_queue : Cores \cup UninitQueues,
   offload : BOOLEAN, t_last_arrival : Nat]

\* Packets as Ingress hands them over, with the hop counts handle_pkt asserts.
ArrivingPackets ==
  [flow : Flows, id : Ids, instr : Instrs,
   hop_cnt : IF EnableOffload THEN 0 .. MaxHopCnt - 1 ELSE {0},
   rx_queue : {Unset}, arrival_port_id : {0}, processing_done : {FALSE},
   arrival_time : {now}]

OffloadTypeOK ==
  /\ WiresTypeOK
  /\ m_rss_reta \in [Entries -> Cores]
  /\ m_hashtable \in [Entries -> HashtableEntries]
  /\ m_rx_queue_overload \in [Cores -> BOOLEAN]
  /\ offload_in \in Seq(Packets)
  /\ offload_out \in Seq(Packets)

\* The hash table is allocated but only its valid flags are written.
OffloadInit ==
  /\ m_rss_reta = [i \in Entries |-> i % NCores]
  /\ m_hashtable \in
       [Entries -> [valid : {FALSE}, local_rx_queue : UninitQueues,
                    offload : BOOLEAN, t_last_arrival : {0}]]
  /\ m_rx_queue_overload = [q \in Cores |-> FALSE]
  /\ offload_in = <<>>
  /\ offload_out = <<>>

-----------------------------------------------------------------------------
entry(pkt) == Toeplitz[pkt.flow] % HashtableSize

\* Mutant: the redirection table is taken to be as it was initialised.
calc_rss_rx_queue_initial(pkt) == entry(pkt) % NCores

calc_rss_rx_queue(pkt) == m_rss_reta[entry(pkt)]

notOverloaded == {q \in Cores : ~m_rx_queue_overload[q]}

\* selected_queues[k], the queues of S in ascending order.
nth(S, k) == CHOOSE q \in S : Cardinality({r \in S : r < q}) = k

\* Mutant: the hash selects among all queues.
calc_local_rx_queue_any(pkt) ==
  IF notOverloaded = {} THEN -1 ELSE Toeplitz[pkt.flow] % NCores

calc_local_rx_queue_not_overloaded(pkt) ==
  IF notOverloaded = {} THEN -1
  ELSE nth(notOverloaded, Toeplitz[pkt.flow] % Cardinality(notOverloaded))

\* Mutant: a core that is not overloaded is given up all the same.
local_rx_queue_restless(pkt, assigned) ==
  IF ~EnableBalanceCores THEN calc_rss_rx_queue(pkt)
  ELSE LET queue == calc_local_rx_queue_not_overloaded(pkt)
       IN  IF queue = -1 THEN assigned ELSE queue

\* The core that is to process pkt if it is processed here; assigned is the
\* core recorded in the hash table.
local_rx_queue(pkt, assigned) ==
  IF ~EnableBalanceCores THEN calc_rss_rx_queue(pkt)
  ELSE IF ~m_rx_queue_overload[assigned] THEN assigned
  ELSE LET queue == calc_local_rx_queue_not_overloaded(pkt)
       IN  IF queue = -1 THEN assigned ELSE queue

\* Mutant: off by one, the last node may still send the packet on.
force_local_late(pkt) == EnableOffload /\ pkt.hop_cnt = MaxHopCnt

force_local(pkt) == EnableOffload /\ pkt.hop_cnt = MaxHopCnt - 1

\* Mutant: the valid flag is not looked at.
expired_by_time(e) == now >= m_hashtable[e].t_last_arrival + HashtableEntryTimeout

\* Mutant: the timeout is not waited for.
expired_at_once(e) == ~m_hashtable[e].valid \/ now >= m_hashtable[e].t_last_arrival

expired(e) ==
  \/ ~m_hashtable[e].valid
  \/ now >= m_hashtable[e].t_last_arrival + HashtableEntryTimeout

\* Mutant: the queue is not written to the packet.
send_pkt_local_unset(pkt, q) ==
  /\ out_proc' = Append(out_proc, delivered(pkt, now))
  /\ UNCHANGED offload_out

send_pkt_local(pkt, q) ==
  /\ out_proc' = Append(out_proc, delivered(set_rx_queue(pkt, q), now))
  /\ UNCHANGED offload_out

send_pkt_offload(pkt) ==
  /\ offload_out' = Append(offload_out, delivered(pkt, now))
  /\ UNCHANGED out_proc

\* Mutant: a hit does not refresh the entry.
updated_unrefreshed(pkt) ==
  LET old      == m_hashtable[entry(pkt)]
      assigned == IF EnableBalanceCores /\ ~old.valid
                  THEN calc_rss_rx_queue(pkt) ELSE old.local_rx_queue
      queue    == local_rx_queue(pkt, assigned)
  IN  IF expired(entry(pkt))
      THEN [valid |-> TRUE, t_last_arrival |-> now, local_rx_queue |-> queue,
            offload |-> EnableOffload /\ m_rx_queue_overload[queue]]
      ELSE old

\* The hash table entry as handle_pkt leaves it.
updated(pkt) ==
  LET old      == m_hashtable[entry(pkt)]
      assigned == IF EnableBalanceCores /\ ~old.valid
                  THEN calc_rss_rx_queue(pkt) ELSE old.local_rx_queue
      queue    == local_rx_queue(pkt, assigned)
  IN  [valid          |-> TRUE,
       t_last_arrival |-> now,
       local_rx_queue |-> IF expired(entry(pkt)) THEN queue ELSE old.local_rx_queue,
       offload        |-> IF expired(entry(pkt))
                          THEN EnableOffload /\ m_rx_queue_overload[queue]
                          ELSE old.offload]

handle_pkt(pkt) ==
  \/ /\ ~Enabled
     /\ send_pkt_local(pkt, calc_rss_rx_queue(pkt))
     /\ UNCHANGED m_hashtable
  \/ /\ Enabled
     /\ m_hashtable' = [m_hashtable EXCEPT ![entry(pkt)] = updated(pkt)]
     /\ LET e == updated(pkt)
        IN  \/ /\ e.offload /\ ~force_local(pkt)
               /\ send_pkt_offload(pkt)
            \/ /\ ~e.offload \/ force_local(pkt)
               /\ send_pkt_local(pkt, e.local_rx_queue)

OffloadHandlePkt ==
  /\ offload_in # <<>>
  /\ offload_in' = Tail(offload_in)
  /\ handle_pkt(Head(offload_in))
  /\ UNCHANGED <<now, offloadTriggerOut, m_rss_reta, m_rx_queue_overload>>

\* Mutant: every message is taken as an overload.
OffloadHandleTrigger_always_on ==
  /\ offloadTriggerOut # <<>>
  /\ offloadTriggerOut' = Tail(offloadTriggerOut)
  /\ m_rx_queue_overload' =
       [m_rx_queue_overload EXCEPT ![Head(offloadTriggerOut).queueId] = TRUE]
  /\ UNCHANGED <<now, out_proc, m_rss_reta, m_hashtable, offload_in, offload_out>>

OffloadHandleTrigger ==
  /\ offloadTriggerOut # <<>>
  /\ offloadTriggerOut' = Tail(offloadTriggerOut)
  /\ LET msg == Head(offloadTriggerOut)
     IN  m_rx_queue_overload' = [m_rx_queue_overload EXCEPT ![msg.queueId] = msg.active]
  /\ UNCHANGED <<now, out_proc, m_rss_reta, m_hashtable, offload_in, offload_out>>

-----------------------------------------------------------------------------
(* The environment: Ingress, Processing with its trigger, the output      *)
(* buffer and the clock.                                                   *)

SendIn(pkt) ==
  /\ offload_in' = Append(offload_in, pkt)
  /\ UNCHANGED <<now, out_proc, offloadTriggerOut, tableVars, offload_out>>

update_rss_reta_entry(e, q) == m_rss_reta' = [m_rss_reta EXCEPT ![e] = q]

\* A step of Processing may take a packet, announce a change of a queue's state
\* and, in ProcessingDynamicRSS, call update_rss_reta_entry.
ProcessingStep ==
  /\ \/ out_proc # <<>> /\ out_proc' = Tail(out_proc)
     \/ UNCHANGED out_proc
  /\ \/ /\ Enabled
        /\ \E msg \in TriggerMsgs : offloadTriggerOut' = Append(offloadTriggerOut, msg)
     \/ UNCHANGED offloadTriggerOut
  /\ \/ \E e \in Entries, q \in Cores : update_rss_reta_entry(e, q)
     \/ UNCHANGED m_rss_reta
  /\ UNCHANGED <<now, m_hashtable, m_rx_queue_overload, offload_in, offload_out>>

TakeOffloaded ==
  /\ offload_out # <<>>
  /\ offload_out' = Tail(offload_out)
  /\ UNCHANGED <<now, out_proc, offloadTriggerOut, tableVars, offload_in>>

OffloadQuiet ==
  offload_in = <<>> /\ offload_out = <<>> /\ out_proc = <<>> /\ offloadTriggerOut = <<>>

OffloadTick ==
  /\ OffloadQuiet
  /\ now' = now + 1
  /\ UNCHANGED <<out_proc, offloadTriggerOut, tableVars, offload_in, offload_out>>

OffloadNext ==
  \/ OffloadHandlePkt
  \/ OffloadHandleTrigger
  \/ \E pkt \in ArrivingPackets : SendIn(pkt)
  \/ ProcessingStep
  \/ TakeOffloaded
  \/ OffloadTick

OffloadSpec == WiresInit /\ OffloadInit /\ [][OffloadNext]_offloadVars

-----------------------------------------------------------------------------
(* Properties.                                                             *)

\* The fields of a hash table entry that initialize() leaves unwritten never
\* reach a decision: an entry that has been hit names an existing queue and
\* offloads only if that is enabled, and so does every packet sent on.
UninitialisedNeverUsed ==
  /\ \A e \in Entries :
       m_hashtable[e].valid => /\ m_hashtable[e].local_rx_queue \in Cores
                               /\ m_hashtable[e].offload => EnableOffload
  /\ \A i \in DOMAIN out_proc : out_proc[i].rx_queue \in Cores
  /\ offload_out # <<>> => EnableOffload

\* A packet is sent on only if the next node may still accept it: OutputBuffer
\* increments the hop count, and handle_pkt there asserts it is below the
\* maximum.  This holds although the hash table is keyed by flow only, and an
\* entry that says offload is shared by packets with different hop counts.
NextHopAllowed ==
  \A i \in DOMAIN offload_out : offload_out[i].hop_cnt + 1 < MaxHopCnt

RespectsLoad(e) ==
  /\ m_hashtable'[e] # m_hashtable[e] /\ expired(e)
  /\ EnableBalanceCores
  => IF notOverloaded # {}
     THEN /\ m_hashtable'[e].local_rx_queue \in notOverloaded
          /\ ~m_hashtable'[e].offload
     ELSE /\ m_hashtable'[e].offload <=> EnableOffload
          /\ m_hashtable[e].valid =>
               m_hashtable'[e].local_rx_queue = m_hashtable[e].local_rx_queue

\* With core balancing, a decision that is taken anew takes the load into
\* account: as long as one core is not overloaded the packets stay in this node
\* on such a core; if all are, they leave the node when that is enabled and
\* otherwise stay with the core they were assigned to.
DecisionRespectsLoad == [][\A e \in Entries : RespectsLoad(e)]_offloadVars

Migrates(e) ==
  /\ m_hashtable[e].valid
  /\ m_hashtable'[e].local_rx_queue # m_hashtable[e].local_rx_queue

\* With core balancing, a flow moves to another core only to relieve an
\* overloaded one, and only when the flow has paused for the timeout.
MigrateOnlyToRelief ==
  [][\A e \in Entries :
       EnableBalanceCores /\ Migrates(e) =>
         /\ now >= m_hashtable[e].t_last_arrival + HashtableEntryTimeout
         /\ m_rx_queue_overload[m_hashtable[e].local_rx_queue]
         /\ ~m_rx_queue_overload[m_hashtable'[e].local_rx_queue]]_offloadVars
=============================================================================
