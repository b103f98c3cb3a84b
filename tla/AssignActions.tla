--------------------------- MODULE AssignActions ----------------------------
(***************************************************************************)
(* tools/assign_network_functions/main.go for one trace of its             *)
(* configuration.  The tool gives every flow an action (a network function *)
(* with its costs) such that each action has its share of the bytes, over  *)
(* and over with a new order of the flows, until that has succeeded NRuns  *)
(* times; then it exports the instructions of every packet.  A share is    *)
(* counted in parts of Unit, and quotients are exact: the code's float64   *)
(* are the nearest ones.                                                   *)
(***************************************************************************)
EXTENDS SequencesExt

CONSTANTS
  Keys,        \* what flow.Key() can be
  ActionSeq,   \* actions: [ippBase, ippPayload, share]
  Unit,        \* 1.0
  MaxErr,      \* config.MaxErr
  NRuns,       \* config.NRuns
  PacketKinds  \* what a packet of the trace can be: [key, len, payload]

Actions == DOMAIN ActionSeq

ASSUME SharesAssumption ==
  /\ Unit \in Nat \ {0} /\ MaxErr \in Nat /\ NRuns \in Nat \ {0}
  /\ ActionSeq \in Seq([ippBase : Nat, ippPayload : Nat, share : 0 .. Unit]) \ {<<>>}
  \* assignActions panics when they do not add up to one.
  /\ SumFunction([a \in Actions |-> ActionSeq[a].share]) = Unit
ASSUME PacketsAssumption ==
  PacketKinds \subseteq [key : Keys, len : Nat \ {0}, payload : Nat]

VARIABLES
  trace,                  \* the packets of the pcap file
  pc,                     \* where main and assignActions are
  data,                   \* flowMap: a FlowData for each key in the trace
  flows,                  \* the keys of flowMap in the order of the slice flows
  flow_actions,           \* FlowData.actions, as indices of actions
  successfulAssignments,
  nBytesAssigned,
  assignedActions,        \* of the flows that have been looked at
  exported                \* the three kinds of files that are written

loadVars == <<trace, data>>
attemptVars == <<flows, nBytesAssigned, assignedActions>>
assignVars ==
  <<loadVars, pc, attemptVars, flow_actions, successfulAssignments, exported>>

\* A FlowData, nothing counted yet.
NoFlow == [nPkts |-> 0, nBytes |-> 0, nBytesPayload |-> 0]

\* A trace has a packet; of an empty one every share is not a number.
AssignInit ==
  /\ trace \in Seq(PacketKinds) \ {<<>>}
  /\ pc = "load"
  /\ data = <<>>
  /\ flows = <<>>
  /\ flow_actions = <<>>
  /\ successfulAssignments = 0
  /\ nBytesAssigned = <<>>
  /\ assignedActions = <<>>
  /\ exported = <<>>

-----------------------------------------------------------------------------
counted(d, pkt) ==
  [d EXCEPT ![pkt.key] = [nPkts         |-> @.nPkts + 1,
                          nBytes        |-> @.nBytes + pkt.len,
                          nBytesPayload |-> @.nBytesPayload + pkt.payload]]

keys_of(pkts) == {pkts[i].key : i \in DOMAIN pkts}

\* The flowMap after the packets of the trace.
flow_map(pkts) == FoldLeft(counted, [k \in keys_of(pkts) |-> NoFlow], pkts)

\* loadFlowsFromTrace.  The order in which a map is iterated is not defined.
Load ==
  /\ pc = "load"
  /\ \/ /\ \E i \in DOMAIN trace : trace[i].payload >= trace[i].len
        /\ pc' = "panic"
        /\ UNCHANGED <<data, flows, flow_actions>>
     \/ /\ \A i \in DOMAIN trace : trace[i].payload < trace[i].len
        /\ pc' = "shuffle"
        /\ data' = flow_map(trace)
        /\ flows' \in SetToSeqs(keys_of(trace))
        /\ flow_actions' = [k \in keys_of(trace) |-> <<>>]
  /\ UNCHANGED <<trace, successfulAssignments, nBytesAssigned, assignedActions, exported>>

nBytesTotal == SumFunction([k \in DOMAIN data |-> data[k].nBytes])

\* The orders a shuffle can bring the flows into.
Orders == SetToSeqs(DOMAIN data)

\* Mutant: the flows are not shuffled again.
Shuffle_once(order) ==
  /\ pc = "shuffle" /\ successfulAssignments < NRuns
  /\ IF successfulAssignments = 0 /\ assignedActions = <<>>
     THEN flows' = order ELSE UNCHANGED flows
  /\ nBytesAssigned' = [a \in Actions |-> 0]
  /\ assignedActions' = <<>>
  /\ pc' = "assign"
  /\ UNCHANGED <<loadVars, flow_actions, successfulAssignments, exported>>

\* assignActions, up to its loop over the flows.
Shuffle(order) ==
  /\ pc = "shuffle" /\ successfulAssignments < NRuns
  /\ flows' = order
  /\ nBytesAssigned' = [a \in Actions |-> 0]
  /\ assignedActions' = <<>>
  /\ pc' = "assign"
  /\ UNCHANGED <<loadVars, flow_actions, successfulAssignments, exported>>

\* Mutant: what has been assigned already is not taken into account.
currentErr_absolute(assigned, a) == ActionSeq[a].share * nBytesTotal

\* The error of action a to its target share, times Unit * nBytesTotal.
currentErr(assigned, a) == ActionSeq[a].share * nBytesTotal - assigned[a] * Unit

\* The action the next flow is given: the first for the first flow, then the
\* one with the greatest error, if one is positive.
actionID(assigned, i) ==
  LET behind == {a \in Actions : currentErr(assigned, a) > 0}
      first(S) == CHOOSE a \in S : \A b \in S : a <= b
  IN  IF i = 1 \/ behind = {} THEN 1
      ELSE first({a \in behind : \A b \in behind :
                    currentErr(assigned, b) <= currentErr(assigned, a)})

\* One turn of the loop over the flows.
Assign ==
  /\ pc = "assign" /\ Len(assignedActions) < Len(flows)
  /\ LET i == Len(assignedActions) + 1
         a == actionID(nBytesAssigned, i)
     IN  /\ nBytesAssigned' = [nBytesAssigned EXCEPT ![a] = @ + data[flows[i]].nBytes]
         /\ assignedActions' = Append(assignedActions, a)
  /\ UNCHANGED <<loadVars, pc, flows, flow_actions, successfulAssignments, exported>>

withinMargin(assigned) ==
  \A a \in Actions :
    /\ assigned[a] * Unit >= (ActionSeq[a].share - MaxErr) * nBytesTotal
    /\ assigned[a] * Unit <= (ActionSeq[a].share + MaxErr) * nBytesTotal

\* Mutant: the actions are written to the flows in the order of the map.
written_unshuffled ==
  LET order == CHOOSE o \in Orders : TRUE
  IN  [k \in DOMAIN flow_actions |->
         flow_actions[k] \o <<assignedActions[CHOOSE i \in DOMAIN order : order[i] = k]>>]

\* The flows' lists of actions after a successful assignment.
written ==
  [k \in DOMAIN flow_actions |->
     flow_actions[k] \o <<assignedActions[CHOOSE i \in DOMAIN flows : flows[i] = k]>>]

\* assignActions, after its loop, and the loop of main around it.
Check ==
  /\ pc = "assign" /\ Len(assignedActions) = Len(flows)
  /\ \/ /\ withinMargin(nBytesAssigned)
        /\ flow_actions' = written
        /\ successfulAssignments' = successfulAssignments + 1
     \/ /\ ~withinMargin(nBytesAssigned)
        /\ UNCHANGED <<flow_actions, successfulAssignments>>
  /\ pc' = "shuffle"
  /\ UNCHANGED <<loadVars, attemptVars, exported>>

\* exportInstrPerPacket: the file that PCAPGenerator reads in run r.
ipp_file(r) ==
  [i \in DOMAIN trace |->
     LET action == ActionSeq[flow_actions[trace[i].key][r]]
     IN  action.ippBase + trace[i].payload * action.ippPayload]

\* exportDimensioning: the instructions of run r, added up by flow.
instrTotal(r) ==
  SumFunction([k \in DOMAIN data |->
    LET action == ActionSeq[flow_actions[k][r]]
    IN  data[k].nPkts * action.ippBase + data[k].nBytesPayload * action.ippPayload])

\* exportInfos: the bytes of each action in run r.
nBytesPerAction(r) ==
  [a \in Actions |->
     SumFunction([k \in {l \in DOMAIN data : flow_actions[l][r] = a} |-> data[k].nBytes])]

Export ==
  /\ pc = "shuffle" /\ successfulAssignments >= NRuns
  /\ pc' = "done"
  /\ exported' = [r \in 1 .. NRuns |->
       [ipp |-> ipp_file(r), dimensioning |-> instrTotal(r), info |-> nBytesPerAction(r)]]
  /\ UNCHANGED <<loadVars, attemptVars, flow_actions, successfulAssignments>>

AssignNext ==
  \/ Load
  \/ \E order \in Orders : Shuffle(order)
  \/ Assign
  \/ Check
  \/ Export

AssignSpec == AssignInit /\ [][AssignNext]_assignVars

-----------------------------------------------------------------------------
(* Properties.                                                             *)

\* However the flows are ordered, no action gets more than its share and one
\* flow on top: a flow goes to an action only while that is behind.
OvershootBounded ==
  \A a \in DOMAIN nBytesAssigned : \E k \in DOMAIN data :
    nBytesAssigned[a] * Unit <= ActionSeq[a].share * nBytesTotal + data[k].nBytes * Unit

\* What is exported for a run is one assignment within the error margin, also
\* after the flows have been shuffled for later ones: the bytes per action are
\* within the margin, and the instructions of all packets add up to those the
\* capacity is dimensioned for.
ExportsMeetMargin ==
  \A r \in DOMAIN exported :
    /\ withinMargin(exported[r].info)
    /\ SumFunction(exported[r].ipp) = exported[r].dimensioning

\* The bytes per action at the end of an attempt with that order of the flows.
outcome(order) ==
  FoldLeft(LAMBDA assigned, i :
             [assigned EXCEPT ![actionID(assigned, i)] = @ + data[order[i]].nBytes],
           [a \in Actions |-> 0], [i \in 1 .. Len(order) |-> i])

Feasible == \E order \in Orders : withinMargin(outcome(order))

\* The tool comes to its end if some order of the flows leads to an assignment
\* within the margin.  If none does it tries for ever.
FinishesIfFeasible == (pc = "shuffle" /\ Feasible) ~> (pc = "done")
=============================================================================
