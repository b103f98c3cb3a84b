-------------------------- MODULE MCAssignActions ---------------------------
(* Bounded instance of AssignActions for TLC. *)
EXTENDS AssignActions

CONSTANTS
  k1, k2, k3,  \* the flow keys
  MaxPackets   \* packets of the trace

MCActionSeq ==
  <<[ippBase |-> 4, ippPayload |-> 0, share |-> 2],
    [ippBase |-> 1, ippPayload |-> 1, share |-> 4],
    [ippBase |-> 2, ippPayload |-> 3, share |-> 4]>>

\* Flows of three sizes; the last kind of packet is one the tool refuses.
MCPacketKinds ==
  {[key |-> k1, len |-> 2, payload |-> 1], [key |-> k2, len |-> 3, payload |-> 0],
   [key |-> k2, len |-> 1, payload |-> 0], [key |-> k3, len |-> 4, payload |-> 3],
   [key |-> k3, len |-> 2, payload |-> 2]}

MCInit ==
  /\ trace \in UNION {[1 .. n -> PacketKinds] : n \in 1 .. MaxPackets}
  /\ pc = "load"
  /\ data = <<>>
  /\ flows = <<>>
  /\ flow_actions = <<>>
  /\ successfulAssignments = 0
  /\ nBytesAssigned = <<>>
  /\ assignedActions = <<>>
  /\ exported = <<>>

\* rand.Seed and rand.Intn: whatever happens again and again happens in every
\* way it can, with probability one.  An order of all keys stands for the one of
\* those that are in the trace.
MCFairness ==
  /\ WF_assignVars(AssignNext)
  /\ \A order \in SetToSeqs(Keys) :
       SF_assignVars(Shuffle(SelectSeq(order, LAMBDA k : k \in DOMAIN data)))

MCSpec == MCInit /\ [][AssignNext]_assignVars

MCFairSpec == MCSpec /\ MCFairness
=============================================================================
