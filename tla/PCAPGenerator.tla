--------------------------- MODULE PCAPGenerator ----------------------------
(***************************************************************************)
(* simulator/src/modules/PCAPGenerator.cc: the generators, each of which   *)
(* plays a trace.  A trace is a pcap file with the files that the tools    *)
(* made of it: a line of them is the record of one packet.                 *)
(***************************************************************************)
EXTENDS Latency, FiniteSets

CONSTANTS
  Generators,
  Keys,       \* what identifies a flow in a trace
  Second,     \* one second, in units of time
  GenTx,      \* transmission time of a packet on a generator's link
  PortKeys,   \* those of them that have ports: TCP and UDP
  NoPacket    \* a context pointer that is not set

\* options: 0 for none, else the bytes of the IP header's options.
TraceLines ==
  [sec : Nat, frac : 0 .. Second - 1, key : Keys, options : Nat, instr : Instrs]

\* A Flow object is the one a generator has created for a key.
ASSUME GeneratorsAssumption ==
  /\ Second \in Nat \ {0} /\ GenTx \in Nat \ {0}
  /\ PortKeys \subseteq Keys
  /\ Flows = Generators \X Keys

VARIABLES
  traces,             \* of each generator, a sequence of lines
  n_read,             \* how many of its lines have been read
  m_pcap_offset_sec,
  m_flows,            \* by flow id: the Flow and its hashes
  m_gen_msg,          \* m_self_msg: its packet and when it is due
  gen_out,            \* link to the TorSwitch: packets and when they arrive
  sent,               \* history: when each packet was sent
  failed              \* an error or ASSERT has ended the simulation

genVars ==
  <<traces, n_read, m_pcap_offset_sec, m_flows, m_gen_msg, gen_out, sent, failed>>

\* The files of each generator are opened, but nothing has been read.  A trace
\* has a packet.
GenInit ==
  /\ traces \in [Generators -> Seq(TraceLines) \ {<<>>}]
  /\ n_read = [g \in Generators |-> 0]
  /\ m_pcap_offset_sec = [g \in Generators |-> 0]
  /\ m_flows = [g \in Generators |-> <<>>]
  /\ m_gen_msg = [g \in Generators |-> NoPacket]
  /\ gen_out = [g \in Generators |-> <<>>]
  /\ sent = [g \in Generators |-> <<>>]
  /\ failed = FALSE

-----------------------------------------------------------------------------
\* Mutant: packets are numbered through the whole trace.
pkt_id_of_trace(trace, i) == i - 1

\* tools/identify_flow_pkt_ids: the packets of the flow before this one.
pkt_id(trace, i) == Cardinality({j \in 1 .. i - 1 : trace[j].key = trace[i].key})

\* Its flow id: the number of flows that came up in the trace before this one.
flow_id(trace, i) ==
  LET before(j) == {trace[m].key : m \in 1 .. j - 1}
      first     == CHOOSE j \in 1 .. i : trace[j].key = trace[i].key /\ trace[i].key \notin before(j)
  IN  Cardinality(before(first))

\* What a hash is made of is kept in its place: different fields give different
\* hashes.

\* tools/calc_crc32_hashes: the addresses and, if there are any, the ports, which
\* are looked for behind an IP header without options.
crc32_of(line) ==
  [key |-> line.key, shifted |-> IF line.key \in PortKeys THEN line.options ELSE 0]

\* tools/calc_toeplitz_hashes: the same fields and the number of the trace.
toeplitz_of(g, line) ==
  [key |-> line.key, shifted |-> IF line.key \in PortKeys THEN line.options ELSE 0,
   trace_id |-> g]

\* Mutant: the offset is not subtracted.
t_of_unshifted(line, offset, first) == (IF first THEN 0 ELSE line.sec) * Second + line.frac

\* When the packet of a line is sent.  Of the first one only the fraction of
\* its timestamp counts, its second is the offset for the others.
t_of(line, offset, first) ==
  (IF first THEN 0 ELSE (line.sec - offset) * Second) + line.frac

\* The generation time: "currently multiplied by 2".
t_generation(t) == t + 2 * GenTx

\* The ASSERTs on the flow of a packet.
flow_matches(g, line, fid, pid) ==
  IF fid \in DOMAIN m_flows[g]
  THEN /\ pid > 0
       /\ m_flows[g][fid].crc32_hash = crc32_of(line)
       /\ m_flows[g][fid].toeplitz_hash = toeplitz_of(g, line)
  ELSE pid = 0

\* A new Flow with its hashes, and a new Packet with its id and instructions.
new_flow(g, line) ==
  [flow |-> <<g, line.key>>, crc32_hash |-> crc32_of(line), toeplitz_hash |-> toeplitz_of(g, line)]

new_packet(flow, pid, instr, arrival_time) ==
  [flow |-> flow, id |-> pid, instr |-> instr, hop_cnt |-> 0, rx_queue |-> Unset,
   arrival_port_id |-> Unset, processing_done |-> FALSE, arrival_time |-> arrival_time]

schedule_pcap_packet(g, first) ==
  LET i == n_read[g] + 1
  IN  \/ /\ i > Len(traces[g])
         /\ m_gen_msg' = [m_gen_msg EXCEPT ![g] = NoPacket]
         /\ UNCHANGED <<n_read, m_pcap_offset_sec, m_flows, failed, m_latency>>
      \/ /\ i <= Len(traces[g])
         /\ LET line   == traces[g][i]
                offset == IF first THEN line.sec ELSE m_pcap_offset_sec[g]
                t      == t_of(line, offset, first)
                fid    == flow_id(traces[g], i)
                pid    == pkt_id(traces[g], i)
                flows  == inserted(m_flows[g], fid, new_flow(g, line))
                flow   == flows[fid].flow
                packet == new_packet(flow, pid, line.instr, t + GenTx)
            IN  /\ n_read' = [n_read EXCEPT ![g] = i]
                /\ m_pcap_offset_sec' = [m_pcap_offset_sec EXCEPT ![g] = offset]
                /\ m_flows' = [m_flows EXCEPT ![g] = flows]
                /\ m_latency' = set_t_generation(flow, pid, t_generation(t))
                /\ m_gen_msg' = [m_gen_msg EXCEPT ![g] = [pkt |-> packet, at |-> t]]
                \* scheduleAt refuses an instant that is over.
                /\ failed' = ~(flow_matches(g, line, fid, pid) /\ t >= now)

initialized(g) == n_read[g] > 0

\* initialize.
GenInitialize(g) ==
  /\ ~failed /\ ~initialized(g)
  /\ schedule_pcap_packet(g, TRUE)
  /\ UNCHANGED <<traces, gen_out, sent>>

\* The transmission channel is occupied by the packet that was sent last.
isBusy(g) == sent[g] # <<>> /\ Last(sent[g]) + GenTx > now

\* handleMessage: the packet is sent, and the next one scheduled.
GenHandleMessage(g) ==
  /\ ~failed /\ \A h \in Generators : initialized(h)
  /\ m_gen_msg[g] # NoPacket /\ m_gen_msg[g].at = now
  /\ \/ /\ isBusy(g)
        /\ failed' = TRUE
        /\ UNCHANGED <<n_read, m_pcap_offset_sec, m_flows, m_gen_msg, m_latency, gen_out, sent>>
     \/ /\ ~isBusy(g)
        /\ gen_out' = [gen_out EXCEPT ![g] =
                         Append(@, [pkt |-> m_gen_msg[g].pkt, at |-> now + GenTx])]
        /\ sent' = [sent EXCEPT ![g] = Append(@, now)]
        /\ schedule_pcap_packet(g, FALSE)
  /\ UNCHANGED traces

\* Every event of the generators of the present instant has been executed.
GenQuiet ==
  \A g \in Generators :
    /\ initialized(g)
    /\ m_gen_msg[g] # NoPacket => m_gen_msg[g].at > now
    /\ \A i \in DOMAIN gen_out[g] : gen_out[g][i].at > now

-----------------------------------------------------------------------------
(* Properties.                                                             *)

\* When the packet of a line was captured.
stamp(line) == line.sec * Second + line.frac

\* The simulation is aborted only by a trace with a packet that was captured
\* before the one ahead of it, or so shortly after it that the link is still
\* occupied, or with a flow whose packets differ in their IP options, so that
\* their hashes do.  Otherwise the ASSERTs on flow ids, packet ids and hashes
\* hold for what the tools have made of any trace.
AbortOnlyByTrace ==
  failed =>
    \E g \in Generators :
      \/ \E i \in 2 .. Len(traces[g]) : stamp(traces[g][i]) < stamp(traces[g][i - 1]) + GenTx
      \/ \E i, j \in DOMAIN traces[g] :
           /\ traces[g][i].key = traces[g][j].key
           /\ traces[g][i].key \in PortKeys
           /\ traces[g][i].options # traces[g][j].options

\* The packets of all traces keep the distances they were captured with, up to
\* whole seconds: each trace is moved to the second it starts in, so that what
\* was captured later than another trace may be sent before it.
InStep ==
  \A g, h \in Generators : \A i \in DOMAIN sent[g], j \in DOMAIN sent[h] :
    sent[g][i] - sent[h][j] =
      (stamp(traces[g][i]) - stamp(traces[h][j]))
        - (traces[g][1].sec - traces[h][1].sec) * Second
=============================================================================
