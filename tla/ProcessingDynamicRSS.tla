------------------------ MODULE ProcessingDynamicRSS ------------------------
(***************************************************************************)
(* simulator/src/modules/node/ProcessingDynamicRSS.cc: a node whose cores  *)
(* count the instructions they execute and, from time to time, reassign    *)
(* one entry of the RSS redirection table.  process_packet overrides the   *)
(* one of Processing; both handlers call it through the vtable.  The node  *)
(* is the one of Node.tla with this module in the place of Processing.     *)
(***************************************************************************)
EXTENDS Node, FiniteSetsExt

CONSTANT ReassignmentInterval  \* m_t_reassignment_interval

ASSUME IntervalAssumption == ReassignmentInterval \in Nat \ {0}

VARIABLES
  m_rss_reta_proc,        \* m_rss_reta of this module, a copy of Offload's
  m_core_instr_cntr,
  m_rss_reta_instr_cntr,
  m_t_last_reassignment,
  load,     \* history: instructions executed per core and entry since then
  leftover  \* history: instructions that were waiting for each core then

dynVars ==
  <<m_rss_reta_proc, m_core_instr_cntr, m_rss_reta_instr_cntr, m_t_last_reassignment, load,
    leftover>>

NoLoad == [x \in Cores \X Entries |-> 0]

\* Instructions that core c has not started: at its queue, and on the way there.
backlog(c) ==
  SumFunction([i \in DOMAIN rx_queue[c] |-> rx_queue[c][i].instr]) +
  SumFunction([i \in DOMAIN out_proc |->
                 IF out_proc[i].rx_queue = c THEN out_proc[i].instr ELSE 0])

DynInit ==
  /\ NodeInit
  /\ m_rss_reta_proc = [i \in Entries |-> i % NCores]
  /\ m_core_instr_cntr = [c \in Cores |-> 0]
  /\ m_rss_reta_instr_cntr = [i \in Entries |-> 0]
  /\ m_t_last_reassignment = 0
  /\ load = NoLoad
  /\ leftover = [c \in Cores |-> 0]

-----------------------------------------------------------------------------
\* The least index in S at which cntr is greatest, and at which it is least.
highest(cntr, S) ==
  CHOOSE i \in S : \A j \in S : cntr[i] > cntr[j] \/ (cntr[i] = cntr[j] /\ i <= j)

lowest(cntr, S) ==
  CHOOSE i \in S : \A j \in S : cntr[i] < cntr[j] \/ (cntr[i] = cntr[j] /\ i <= j)

\* Mutant: Offload is not told.
reassign_silently(cores, entries) ==
  LET from  == highest(cores, Cores)
      owned == {e \in Entries : m_rss_reta_proc[e] = from}
  IN  /\ m_rss_reta_proc' =
           IF owned = {} THEN m_rss_reta_proc
           ELSE [m_rss_reta_proc EXCEPT ![highest(entries, owned)] = lowest(cores, Cores)]
      /\ UNCHANGED m_rss_reta

\* cores and entries are the counters with the popped packet counted.
reassign(cores, entries) ==
  LET from  == highest(cores, Cores)
      to    == lowest(cores, Cores)
      owned == {e \in Entries : m_rss_reta_proc[e] = from}
      moved == highest(entries, owned)
  IN  \/ /\ owned # {}
         /\ m_rss_reta_proc' = [m_rss_reta_proc EXCEPT ![moved] = to]
         /\ update_rss_reta_entry(moved, to)
      \/ /\ owned = {}
         /\ UNCHANGED <<m_rss_reta_proc, m_rss_reta>>

\* Mutant: the interval is counted from the start of the simulation.
due_since_start == now >= ReassignmentInterval

\* Has the interval since the last reassignment passed?
due == now - m_t_last_reassignment >= ReassignmentInterval

\* Mutant: the counters of the entries are not reset.
reset_counters_half ==
  /\ m_core_instr_cntr' = [d \in Cores |-> 0]
  /\ UNCHANGED m_rss_reta_instr_cntr

reset_counters ==
  /\ m_core_instr_cntr' = [d \in Cores |-> 0]
  /\ m_rss_reta_instr_cntr' = [i \in Entries |-> 0]

\* Mutant: the counters are reset only if an entry is reassigned.
count_and_reassign_kept(c, pkt) ==
  LET cores   == [m_core_instr_cntr EXCEPT ![c] = @ + pkt.instr]
      entries == [m_rss_reta_instr_cntr EXCEPT ![entry(pkt)] = @ + pkt.instr]
      kept    == ~due \/ UNCHANGED m_rss_reta
  IN  /\ IF due THEN reassign(cores, entries) ELSE UNCHANGED <<m_rss_reta_proc, m_rss_reta>>
      /\ m_core_instr_cntr' = IF kept THEN cores ELSE [d \in Cores |-> 0]
      /\ m_rss_reta_instr_cntr' = IF kept THEN entries ELSE [i \in Entries |-> 0]
      /\ m_t_last_reassignment' = IF due THEN now ELSE m_t_last_reassignment
      /\ load' = IF due THEN NoLoad ELSE [load EXCEPT ![<<c, entry(pkt)>>] = @ + pkt.instr]
      /\ leftover' = IF due THEN [d \in Cores |-> backlog(d)'] ELSE leftover

\* What process_packet does beyond Processing::process_packet.
count_and_reassign(c, pkt) ==
  LET cores   == [m_core_instr_cntr EXCEPT ![c] = @ + pkt.instr]
      entries == [m_rss_reta_instr_cntr EXCEPT ![entry(pkt)] = @ + pkt.instr]
      loads   == [load EXCEPT ![<<c, entry(pkt)>>] = @ + pkt.instr]
  IN  \/ /\ ~due
         /\ m_core_instr_cntr' = cores
         /\ m_rss_reta_instr_cntr' = entries
         /\ load' = loads
         /\ UNCHANGED <<m_rss_reta_proc, m_rss_reta, m_t_last_reassignment, leftover>>
      \/ /\ due
         /\ reassign(cores, entries)
         /\ reset_counters
         /\ m_t_last_reassignment' = now
         /\ load' = NoLoad
         /\ leftover' = [d \in Cores |-> backlog(d)']

DynEnqueue ==
  /\ HandlePacket
  /\ LET pkt == Head(out_proc)
     IN  \/ busy[pkt.rx_queue] /\ UNCHANGED <<dynVars, m_rss_reta>>
         \/ ~busy[pkt.rx_queue] /\ count_and_reassign(pkt.rx_queue, pkt)
  /\ UNCHANGED <<m_hashtable, m_rx_queue_overload, offload_in, offload_out, outVars, received>>

DynComplete(m) ==
  /\ HandleProcDone(m)
  /\ LET c == msg_proc_done[m].pkt.rx_queue
     IN  \/ rx_queue[c] = <<>> /\ UNCHANGED <<dynVars, m_rss_reta>>
         \/ rx_queue[c] # <<>> /\ count_and_reassign(c, Head(rx_queue[c]))
  /\ UNCHANGED <<m_hashtable, m_rx_queue_overload, offload_in, offload_out, outVars, received>>

OtherModules ==
  \/ Dispatch
  \/ LearnOverload
  \/ OutputProcessed
  \/ OutputOffloaded
  \/ OutputNext
  \/ Depart
  \/ NodeTick

DynNext ==
  \/ \E pkt \in LinkPackets : Receive(pkt) /\ UNCHANGED dynVars
  \/ DynEnqueue
  \/ \E m \in Cores : DynComplete(m)
  \/ OtherModules /\ UNCHANGED dynVars

DynSpec == DynInit /\ [][DynNext]_<<nodeVars, dynVars>>

-----------------------------------------------------------------------------
(* Properties.                                                             *)

\* The two copies of the redirection table agree: a packet that is dispatched
\* by Offload's copy goes to the core that this module counts as the owner of
\* its entry.
TablesAgree == m_rss_reta_proc = m_rss_reta

\* A packet waits at a core that does not own its entry only if it came in
\* before, or at the instant of, the last reassignment.  Reassignment has no
\* timeout: the packets it finds waiting can be overtaken by later ones of
\* their flow, but no packet that comes in afterwards is sent to the old core.
LeftBehindByMove ==
  \A c \in Cores : \A p \in atCore(c) :
    m_rss_reta[entry(p)] # c => p.arrival_time <= m_t_last_reassignment

\* No instruction is counted twice or forgotten by one of the two kinds of
\* counters, through any sequence of arrivals, completions and resets.
CountersBalance ==
  MapThenSumSet(LAMBDA c : m_core_instr_cntr[c], Cores) =
  MapThenSumSet(LAMBDA e : m_rss_reta_instr_cntr[e], Entries)

\* What a core that owns no entry counts is taken off what was bound to it when
\* the counters were last reset: nothing is added to that, and nothing counted
\* before is counted on.  The core with the highest load may own no entry, and
\* then no entry moves, but this cannot go on: what holds the reassignment up is
\* bounded, and every interval that it does takes a part of it away.
LeftoversCounted ==
  \A c \in Cores :
    (\A e \in Entries : m_rss_reta[e] # c) => m_core_instr_cntr[c] + backlog(c) = leftover[c]

\* Not before an interval has passed is an entry reassigned again, and then only
\* one entry moves.
OneMovePerInterval ==
  [][\A e \in Entries :
       m_rss_reta'[e] # m_rss_reta[e] =>
         /\ now >= m_t_last_reassignment + ReassignmentInterval
         /\ m_t_last_reassignment' = now
         /\ \A d \in Entries \ {e} : m_rss_reta'[d] = m_rss_reta[d]]_<<nodeVars, dynVars>>

\* The packet whose arrival at a core makes the step count it, and its core.
popped ==
  LET c == CHOOSE d \in Cores : msg_proc_done'[d] # msg_proc_done[d]
  IN  [core |-> c, entry |-> entry(msg_proc_done'[c].pkt), instr |-> msg_proc_done'[c].pkt.instr]

\* The comment at ProcessingDynamicRSS.cc:75: the entry that is reassigned is
\* the one "that causes the highest load on the core that has the highest
\* load".  load is what the entries of the table really did on that core.
HeaviestEntryMoves ==
  [][\A e \in Entries :
       m_rss_reta'[e] # m_rss_reta[e] =>
         LET loads == [load EXCEPT ![<<popped.core, popped.entry>>] = @ + popped.instr]
             from  == m_rss_reta[e]
         IN  \A d \in Entries :
               m_rss_reta[d] = from => loads[from, e] >= loads[from, d]]_<<nodeVars, dynVars>>
=============================================================================
