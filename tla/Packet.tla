------------------------------- MODULE Packet -------------------------------
(***************************************************************************)
(* The message that travels through the simulator: class Packet with its   *)
(* PacketNodeContext and the Flow it belongs to (simulator/src/msgs).      *)
(*                                                                         *)
(* A packet is a record.  What the control of the simulator never looks at *)
(* (byte length, latency list, message name) is left out; a Flow is a      *)
(* model value and its two hashes are given by the modules that use them.  *)
(* Simulated time is counted in units of m_t_inst, the duration of one     *)
(* instruction, so that a packet occupies a core for pkt.instr units.      *)
(***************************************************************************)
EXTENDS Integers

CONSTANTS
  NCores,     \* n_cores of Node.ned, also the number of rx queues
  MaxHopCnt,  \* max_hop_cnt of Node.ned
  Flows,      \* the flows of the traces
  Ids,        \* per-flow packet ids of the .ids files
  Instrs      \* instruction counts found in the .ipp files

\* m_n_cores and m_max_hop_cnt are uint8_t.  Processing asserts instr > 0.
ASSUME CoresAssumption  == NCores \in 1..255
ASSUME HopsAssumption   == MaxHopCnt \in 1..255
ASSUME InputsAssumption == Ids \subseteq Nat /\ Instrs \subseteq Nat \ {0}

Cores == 0 .. NCores - 1

\* The -1 with which PacketNodeContext::clear() marks a field as not set.
Unset == -1

\* arrival_time is cMessage::getArrivalTime(), stamped by the kernel.
Packets ==
  [flow : Flows, id : Ids, instr : Instrs, hop_cnt : 0..255,
   rx_queue : Cores \cup {Unset}, arrival_port_id : {0, Unset},
   processing_done : BOOLEAN, arrival_time : Nat]

set_rx_queue(pkt, q) == [pkt EXCEPT !.rx_queue = q]

set_arrival_port_id(pkt, port) == [pkt EXCEPT !.arrival_port_id = port]

set_processing_done(pkt) == [pkt EXCEPT !.processing_done = TRUE]

\* uint8_t m_hop_cnt
incrm_hop_cnt(pkt) == [pkt EXCEPT !.hop_cnt = (@ + 1) % 256]

\* Mutant: the arrival port is not cleared.
clear_rx_queue(pkt) == [pkt EXCEPT !.rx_queue = Unset]

clear(pkt) == [pkt EXCEPT !.rx_queue = Unset, !.arrival_port_id = Unset]

\* send(): the kernel stamps a message with the instant of its delivery.
delivered(pkt, t) == [pkt EXCEPT !.arrival_time = t]
=============================================================================
