----------------------------- MODULE MCOffload ------------------------------
(* Bounded instance of Offload for TLC. *)
EXTENDS Offload

CONSTANTS
  f1, f2, f3,  \* the flows
  MaxTime,     \* the last instant
  MaxWire      \* messages on the connections at once

\* f1 and f3 share an entry of a table of two; modulo three they differ.
MCToeplitz == [f \in Flows |-> CASE f = f1 -> 4 [] f = f2 -> 3 [] f = f3 -> 2]

onWires ==
  Len(offload_in) + Len(offload_out) + Len(out_proc) + Len(offloadTriggerOut)

BoundedSendIn ==
  onWires < MaxWire /\ \E pkt \in ArrivingPackets : SendIn(pkt)

BoundedProcessingStep == ProcessingStep /\ onWires' <= MaxWire

BoundedTick == now < MaxTime /\ OffloadTick

MCNext ==
  \/ OffloadHandlePkt
  \/ OffloadHandleTrigger
  \/ BoundedSendIn
  \/ BoundedProcessingStep
  \/ TakeOffloaded
  \/ BoundedTick

MCInit == WiresInit /\ OffloadInit

MCSpec == MCInit /\ [][MCNext]_offloadVars
=============================================================================
