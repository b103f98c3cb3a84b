------------------------------- MODULE Wires --------------------------------
(***************************************************************************)
(* What the simple modules of a Node (Node.ned) share: the clock of the    *)
(* simulation kernel and the connections between Offload, OffloadTrigger   *)
(* and Processing.  A connection has no delay: a message on it is an event *)
(* of the present instant that the kernel has not executed yet.            *)
(***************************************************************************)
EXTENDS Packet, Sequences

VARIABLES
  now,               \* simTime()
  out_proc,          \* offload.out_proc --> proc.in
  offloadTriggerOut  \* offload_trigger.offloadTriggerOut --> offload

TriggerMsgs == [queueId : Cores, active : BOOLEAN]

WiresTypeOK ==
  /\ now \in Nat
  /\ out_proc \in Seq(Packets)
  /\ offloadTriggerOut \in Seq(TriggerMsgs)

WiresInit == now = 0 /\ out_proc = <<>> /\ offloadTriggerOut = <<>>

\* What Offload::send_pkt_local may hand to Processing at the present instant.
LocalPackets ==
  [flow : Flows, id : Ids, instr : Instrs, hop_cnt : 0 .. MaxHopCnt - 1,
   rx_queue : Cores, arrival_port_id : {0}, processing_done : {FALSE},
   arrival_time : {now}]
=============================================================================
