---------------------------- MODULE CascadeStep ----------------------------
(***************************************************************************)
(* The re-run cascade's state machine, Plan/Cascade.elm's                  *)
(*                                                                         *)
(*     cascadeStep : Event -> CascadeState -> ( CascadeState, List Effect) *)
(*                                                                         *)
(* one operator per event.  A state has the source's fields: root and      *)
(* rootOld, the plan that is re-run and its summary before; levels, the    *)
(* ancestors still to go, each with its plan, the node that delegated, its *)
(* session (conv) and its summary before (old); phase; plan and summary,   *)
(* the plan that completed last and its new summary.  Plans, nodes,        *)
(* sessions and summaries are opaque here.                                 *)
(***************************************************************************)
EXTENDS Sequences

Phases == {"WaitingPlan", "WaitingFork", "WaitingNode", "BranchRunning", "Done"}

Ignored(cs) == [cs |-> cs, effects |-> <<>>]
Ended(cs) == [cs |-> [cs EXCEPT !.phase = "Done"], effects |-> <<>>]

Gate_Open(cs, p, summary, old, levels) ==
  [cs |-> [cs EXCEPT !.phase = "WaitingFork", !.levels = levels, !.plan = p, !.summary = summary],
   effects |-> <<[do |-> "ForkInstance", plan |-> p]>>]
\* The gate: an unchanged summary ends the cascade.
Gate(cs, p, summary, old, levels) ==
  IF summary = old THEN Ended(cs)
  ELSE [cs |-> [cs EXCEPT !.phase = "WaitingFork", !.levels = levels, !.plan = p,
                          !.summary = summary],
        effects |-> <<[do |-> "ForkInstance", plan |-> p]>>]

AtHead(cs, p, n) ==
  cs.levels # <<>> /\ Head(cs.levels).plan = p /\ Head(cs.levels).node = n

PlanCompleted(cs, p, summary) ==
  CASE cs.phase = "WaitingPlan" /\ p = cs.root -> Gate(cs, p, summary, cs.rootOld, cs.levels)
    [] cs.phase = "BranchRunning" /\ cs.levels # <<>> /\ p = Head(cs.levels).plan ->
         Gate(cs, p, summary, Head(cs.levels).old, Tail(cs.levels))
    [] OTHER -> Ignored(cs)

NodeSucceeded(cs, p, n) ==
  IF cs.phase = "WaitingNode" /\ AtHead(cs, p, n)
    THEN [cs |-> [cs EXCEPT !.phase = "BranchRunning"],
          effects |-> <<[do |-> "BranchRerun", plan |-> p, node |-> n]>>]
    ELSE Ignored(cs)

LevelFailed(cs, p, n) ==
  IF cs.phase = "WaitingNode" /\ AtHead(cs, p, n) THEN Ended(cs) ELSE Ignored(cs)

ResumeEffects(cs) ==
  IF cs.levels = <<>> THEN <<>>
  ELSE <<[do |-> "ResumeNode", plan |-> Head(cs.levels).plan,
          node |-> Head(cs.levels).node, conv |-> Head(cs.levels).conv]>>

InstanceReady(cs) ==
  IF cs.phase # "WaitingFork" THEN Ignored(cs)
  ELSE [cs |-> [cs EXCEPT !.phase = "WaitingNode"],
        effects |-> <<[do |-> "RegisterFork"],
                      [do |-> "InsertResult", plan |-> cs.plan, summary |-> cs.summary]>>
                    \o ResumeEffects(cs)]

InstanceFailed_ResumesAnyway(cs) ==
  IF cs.phase # "WaitingFork" THEN Ignored(cs)
  ELSE [cs |-> [cs EXCEPT !.phase = "Done"],
        effects |-> <<[do |-> "CascadeError"]>> \o ResumeEffects(cs)]
InstanceFailed(cs) ==
  IF cs.phase # "WaitingFork" THEN Ignored(cs)
  ELSE [cs |-> [cs EXCEPT !.phase = "Done"], effects |-> <<[do |-> "CascadeError"]>>]
=============================================================================================================================================
