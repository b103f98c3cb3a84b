------------------------------ MODULE Latency -------------------------------
(***************************************************************************)
(* simulator/src/msgs/Latency.cc: the list of durations that every packet  *)
(* carries.  The modules it waits in add to it, the Sink sums it up.  The  *)
(* list is kept beside the packets, which are the keys of m_latency.       *)
(***************************************************************************)
EXTENDS Wires, SequencesExt

VARIABLE m_latency  \* <<flow, id>> of each packet created so far to its list

LatencyTypes == {"NODE_BUFFER_IN", "NODE_BUFFER_OUT", "NODE_PROC", "TOR"}

LatencyInit == m_latency = <<>>

-----------------------------------------------------------------------------
\* f, with x for a key that it does not have yet.
inserted(f, key, x) ==
  [k \in DOMAIN f \cup {key} |-> IF k \in DOMAIN f THEN f[k] ELSE x]

\* The lists after a packet has been created and its generation time been set.
set_t_generation(f, id, t) ==
  inserted(m_latency, <<f, id>>, [t_generation |-> t, elements |-> <<>>])

LatencyElement(type, latency) == [type |-> type, latency |-> latency]

\* Mutant: an element takes the place of an earlier one of its type.
add_elements_replacing(pkt, elements) ==
  [m_latency EXCEPT ![<<pkt.flow, pkt.id>>].elements =
     SelectSeq(@, LAMBDA e : \A i \in DOMAIN elements : elements[i].type # e.type) \o elements]

\* The lists after elements, one or more, have been added to that of pkt.
add_elements(pkt, elements) ==
  [m_latency EXCEPT ![<<pkt.flow, pkt.id>>].elements = @ \o elements]

get_total_latency_by_type(lat, type) ==
  FoldLeft(LAMBDA sum, e : IF e.type = type THEN sum + e.latency ELSE sum, 0, lat.elements)

get_end_to_end_latency(lat) == now - lat.t_generation
=============================================================================
