---------------------------- MODULE FifoServers -----------------------------
(***************************************************************************)
(* What Processing promises, without its queues, flags and self-messages:  *)
(* every core is a first-in first-out server that is never idle while it   *)
(* has work.  The instant at which a packet leaves is therefore settled    *)
(* when it arrives: it is served once the packet before it has left, for   *)
(* as long as it has instructions.                                         *)
(***************************************************************************)
EXTENDS Integers, Sequences

CONSTANTS Cores, Instrs

VARIABLES
  now,       \* the present instant
  departure  \* departure[c]: when the packets at core c leave, oldest first

\* The instant at which a server that has nothing to do after d is free.
FreeAt(c) ==
  IF departure[c] = <<>> THEN now ELSE departure[c][Len(departure[c])]

FifoInit == now = 0 /\ departure = [c \in Cores |-> <<>>]

\* A packet with that many instructions is assigned to core c.
Accept(c, instr) ==
  /\ departure' = [departure EXCEPT ![c] = Append(@, FreeAt(c) + instr)]
  /\ UNCHANGED now

Leave(c) ==
  /\ departure[c] # <<>>
  /\ Head(departure[c]) = now
  /\ departure' = [departure EXCEPT ![c] = Tail(@)]
  /\ UNCHANGED now

\* Time does not pass the instant at which a packet is to leave.
Pass ==
  /\ \A c \in Cores : departure[c] # <<>> => Head(departure[c]) > now
  /\ now' = now + 1
  /\ UNCHANGED departure

FifoNext ==
  \/ Pass
  \/ \E c \in Cores : Leave(c) \/ \E instr \in Instrs : Accept(c, instr)

FifoSpec == FifoInit /\ [][FifoNext]_<<now, departure>>
=============================================================================
