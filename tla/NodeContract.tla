---------------------------- MODULE NodeContract ----------------------------
(***************************************************************************)
(* What a node promises to the ring, whatever happens inside of it: every  *)
(* packet it takes leaves it exactly once, one hop older, either processed *)
(* or, while it may still hop, to be processed by another node.            *)
(***************************************************************************)
EXTENDS Integers, Sequences

CONSTANTS MaxHopCnt, MayOffload

VARIABLES
  held,  \* the packets in the node, [flow, id, hop_cnt]
  link   \* those on its outgoing link, [flow, id, hop_cnt, done]

contractVars == <<held, link>>

ContractInit == held = {} /\ link = <<>>

Take(p) ==
  /\ p \notin held
  /\ held' = held \cup {p}
  /\ UNCHANGED link

Forward(p, done) ==
  /\ p \in held
  /\ done \/ (MayOffload /\ p.hop_cnt + 1 < MaxHopCnt)
  /\ held' = held \ {p}
  /\ link' = Append(link, [flow |-> p.flow, id |-> p.id,
                           hop_cnt |-> p.hop_cnt + 1, done |-> done])

Deliver ==
  /\ link # <<>>
  /\ link' = Tail(link)
  /\ UNCHANGED held

ContractNext(P) ==
  \/ \E p \in P : Take(p)
  \/ \E p \in P, done \in BOOLEAN : Forward(p, done)
  \/ Deliver
=============================================================================
