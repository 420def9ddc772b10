----------------------------- MODULE RunnerStep -----------------------------
(***************************************************************************)
(* The pure DAG runner of Plan Mode: Plan/Runner.elm's                     *)
(*                                                                         *)
(*     step : Int -> Event -> RunState -> ( RunState, List Effect )        *)
(*                                                                         *)
(* A run is one record whose fields are functions over the nodes, in the   *)
(* source's names: node[n] is the NodeStatus, conv[n] the conversationId,  *)
(* last[n] the lastSessionId, hist[n] the attemptSessions, out[n] the      *)
(* session whose answer is recorded as the node's output.  Timestamps,     *)
(* failure texts and prompt texts are left out.                            *)
(*                                                                         *)
(* Nodes are numbers: the runner walks its Dict in key order, and only     *)
(* that order is kept of the ids.                                          *)
(*                                                                         *)
(* Definitions named X_Y are mistakes one could make in X; no other        *)
(* definition uses them.                                                   *)
(***************************************************************************)
EXTENDS Integers, FiniteSets

CONSTANTS
  Node,         \* the plan's tasks
  DependsOn,    \* DependsOn[n]: the tasks n waits for
  Concurrency,  \* run.concurrency, the parallel cap
  MaxAttempts,  \* MaxAttempts[n]: n's retry cap
  Conv,         \* session ids the backend may hand out
  None          \* Maybe's Nothing

\* What plan validation (Plan/Types.elm) admits: dependencies exist and the
\* graph is acyclic.
ASSUME PlanAssumption ==
  /\ Node \subseteq Nat
  /\ IsFiniteSet(Node)
  /\ DependsOn \in [Node -> SUBSET Node]
  /\ \E rank \in [Node -> 0..Cardinality(Node)] :
        \A n \in Node : \A d \in DependsOn[n] : rank[d] < rank[n]

ASSUME CapAssumption ==
  /\ Concurrency \in Nat \ {0}
  /\ MaxAttempts \in [Node -> Nat \ {0}]

ASSUME NoneAssumption == None \notin Conv

NodeStatus == {"Pending", "Starting", "Running", "Waiting", "Succeeded",
               "Failed", "Blocked", "Canceled", "WaitingForPlan"}

RunStatus == {"NotStarted", "InProgress", "Paused", "Completed",
              "FailedRun", "Stopped"}

MaybeConv == Conv \cup {None}

Run == [status   : RunStatus,
        node     : [Node -> NodeStatus],
        attempts : [Node -> Nat],
        conv     : [Node -> MaybeConv],
        last     : [Node -> MaybeConv],
        hist     : [Node -> SUBSET Conv],
        out      : [Node -> MaybeConv]]

\* A plan that has just been opened (emptyRunState).
EmptyRun == [status   |-> "NotStarted",
             node     |-> [n \in Node |-> "Pending"],
             attempts |-> [n \in Node |-> 0],
             conv     |-> [n \in Node |-> None],
             last     |-> [n \in Node |-> None],
             hist     |-> [n \in Node |-> {}],
             out      |-> [n \in Node |-> None]]

(***************************************************************************)
(* Sets of statuses the runner's conditions name.                          *)
(***************************************************************************)
\* startRun and continueRun apply to these (the latter also to Paused).
Startable == {"NotStarted", "Stopped", "FailedRun", "Completed"}
\* updateRunStatus: every node in one of these ends the run.
TerminalNode == {"Succeeded", "Failed", "Blocked", "Canceled"}
\* closeAndClear: a bound node in one of these loses its session.
Released == {"Waiting", "Failed", "Canceled", "Succeeded"}
\* stopRun cancels these.
Stoppable == {"Pending", "Starting", "Running", "Waiting", "WaitingForPlan"}
\* schedule counts these against the cap.
ActiveStatus == {"Running", "Starting"}

Active(r) == {n \in Node : r.node[n] \in ActiveStatus}

\* nodeBySessionId: the first node, in key order, bound to c.
Bound(r, c) == {n \in Node : r.conv[n] = c}
NodeBySessionId(r, c) ==
  CHOOSE n \in Bound(r, c) : \A m \in Bound(r, c) : n <= m

(***************************************************************************)
(* Event handlers.  Each returns the run before finishStep.                *)
(***************************************************************************)
\* The field reset shared by StartRun, RestartRun and ResumeBranchFrom:
\* everything but attemptSessions goes.
ResetNodes(r, S) ==
  [r EXCEPT !.node     = [n \in Node |-> IF n \in S THEN "Pending" ELSE r.node[n]],
            !.attempts = [n \in Node |-> IF n \in S THEN 0 ELSE r.attempts[n]],
            !.conv     = [n \in Node |-> IF n \in S THEN None ELSE r.conv[n]],
            !.last     = [n \in Node |-> IF n \in S THEN None ELSE r.last[n]],
            !.out      = [n \in Node |-> IF n \in S THEN None ELSE r.out[n]]]

SetStatus(r, s) == [r EXCEPT !.status = s]

StartRun(r) ==
  IF r.status \in Startable THEN SetStatus(ResetNodes(r, Node), "InProgress") ELSE r

ContinueRun(r) ==
  IF r.status \in Startable \cup {"Paused"} THEN SetStatus(r, "InProgress") ELSE r

PauseRun(r) == IF r.status = "InProgress" THEN SetStatus(r, "Paused") ELSE r

ResumeRun(r) == IF r.status = "Paused" THEN SetStatus(r, "InProgress") ELSE r

StopRun_ForgetsDelegated(r) ==
  [r EXCEPT !.status = "Stopped",
            !.node   = [n \in Node |-> IF r.node[n] \in Stoppable \ {"WaitingForPlan"}
                                         THEN "Canceled" ELSE r.node[n]]]
StopRun_ForgetsStarting(r) ==
  [r EXCEPT !.status = "Stopped",
            !.node   = [n \in Node |-> IF r.node[n] \in Stoppable \ {"Starting"}
                                         THEN "Canceled" ELSE r.node[n]]]
StopRun(r) ==
  [r EXCEPT !.status = "Stopped",
            !.node   = [n \in Node |-> IF r.node[n] \in Stoppable
                                         THEN "Canceled" ELSE r.node[n]]]

RestartRun_Everything(r) == SetStatus(ResetNodes(r, Node), "InProgress")
RestartRun(r) ==
  SetStatus(ResetNodes(r, {n \in Node : r.node[n] \notin {"Succeeded", "WaitingForPlan"}}),
            "InProgress")

\* transitiveSuccessors (Plan/Cascade.elm): everything reachable from n
\* along dependency edges, n excluded (the graph is acyclic).
TransitiveSuccessors(n) ==
  {m \in Node : \A S \in SUBSET Node :
      (\A k \in Node : DependsOn[k] \cap (S \cup {n}) # {} => k \in S) => m \in S}

ResumeBranchFrom(r, n) ==
  LET branch == {m \in TransitiveSuccessors(n) : r.node[m] # "WaitingForPlan"}
  IN  IF branch = {} THEN r ELSE SetStatus(ResetNodes(r, branch), "InProgress")

\* bindSession: only a Starting node takes the session.
Binds(r, n) == r.node[n] = "Starting"

SessionCreatedFor_FirstAttemptOnly(r, n, c) ==
  IF Binds(r, n)
    THEN [r EXCEPT !.node[n] = "Running", !.conv[n] = c, !.last[n] = c,
                   !.hist[n] = IF @ = {} THEN {c} ELSE @]
    ELSE r
SessionCreatedFor_KeepsLast(r, n, c) ==
  IF Binds(r, n)
    THEN [r EXCEPT !.node[n] = "Running", !.conv[n] = c, !.hist[n] = @ \cup {c}]
    ELSE r
SessionCreatedFor(r, n, c) ==
  IF Binds(r, n)
    THEN [r EXCEPT !.node[n] = "Running", !.conv[n] = c, !.last[n] = c,
                   !.hist[n] = @ \cup {c}]
    ELSE r

FailNode_OneTooMany(r, n) ==
  [r EXCEPT !.attempts[n] = @ + 1,
            !.node[n] = IF r.attempts[n] + 1 <= MaxAttempts[n] THEN "Waiting" ELSE "Failed"]
\* failNode: retry while attempts remain, otherwise terminal.
FailNode(r, n) ==
  [r EXCEPT !.attempts[n] = @ + 1,
            !.node[n] = IF r.attempts[n] + 1 < MaxAttempts[n] THEN "Waiting" ELSE "Failed"]

Succeed(r, n, c) == [r EXCEPT !.node[n] = "Succeeded", !.out[n] = c]

TaskDone(r, n, c, delegated) ==
  CASE r.node[n] = "Running" /\ delegated -> [r EXCEPT !.node[n] = "WaitingForPlan"]
    [] r.node[n] \in {"Running", "WaitingForPlan"} /\ ~delegated -> Succeed(r, n, c)
    [] OTHER -> r

SessionError(r, n) == IF r.node[n] = "Running" THEN FailNode(r, n) ELSE r

SessionDisconnected_StartingOnly(r, n) ==
  IF r.node[n] = "Starting" THEN FailNode(r, n) ELSE r
SessionDisconnected(r, n) ==
  IF r.node[n] \in {"Running", "Starting"} THEN FailNode(r, n) ELSE r

SessionCreateFailed(r, n) == IF r.node[n] = "Starting" THEN FailNode(r, n) ELSE r

RetryTick_Revives(r, n) ==
  IF r.node[n] \in {"Waiting", "Canceled"} THEN [r EXCEPT !.node[n] = "Pending"] ELSE r
RetryTick(r, n) ==
  IF r.node[n] = "Waiting" THEN [r EXCEPT !.node[n] = "Pending"] ELSE r

\* Manual retry: a finished run is reactivated whatever became of the node.
RetryNode(r, n) ==
  LET r1 == CASE r.node[n] = "Waiting" -> [r EXCEPT !.node[n] = "Pending"]
              [] r.node[n] \in {"Failed", "Canceled"} ->
                   [r EXCEPT !.node[n] = "Pending", !.attempts[n] = 0]
              [] OTHER -> r
  IN  IF r.status \in {"FailedRun", "Completed", "Stopped"}
        THEN SetStatus(r1, "InProgress") ELSE r1

ResumeDelegatedNode(r, n) ==
  IF r.node[n] = "WaitingForPlan" THEN [r EXCEPT !.node[n] = "Running"] ELSE r

\* resumeState: a run read back from run.json, before ContinueRun.
ResumeState(r) ==
  LET revived == {n \in Node : r.node[n] \notin {"Succeeded", "WaitingForPlan", "Pending"}}
      node    == [n \in Node |-> IF n \in revived THEN "Pending" ELSE r.node[n]]
  IN  [r EXCEPT !.node     = node,
                !.attempts = [n \in Node |-> IF r.node[n] \in {"Failed", "Blocked", "Canceled"}
                                               THEN 0 ELSE r.attempts[n]],
                !.conv     = [n \in Node |-> IF r.node[n] \in ActiveStatus
                                               THEN None ELSE r.conv[n]],
                !.status   = IF \E n \in Node : node[n] = "Pending"
                               THEN "InProgress" ELSE r.status]

(***************************************************************************)
(* finishStep: what every event is followed by.                            *)
(***************************************************************************)
\* blockedPropagation iterates "a Pending or Waiting node with a Failed or
\* Blocked dependency becomes Blocked" to its fixpoint: the least set closed
\* under that rule.  (RunnerAlgorithms compares it with the iteration.)
BlockedClosed(st, S) ==
  \A n \in Node :
    (/\ st[n] \in {"Pending", "Waiting"}
     /\ \E d \in DependsOn[n] : st[d] \in {"Failed", "Blocked"} \/ d \in S) => n \in S

BlockedBy(st) == {n \in Node : \A S \in SUBSET Node : BlockedClosed(st, S) => n \in S}

BlockedPropagation(r) ==
  [r EXCEPT !.node = [n \in Node |-> IF n \in BlockedBy(r.node) THEN "Blocked" ELSE r.node[n]]]

Closing(r) == {n \in Node : r.conv[n] # None /\ r.node[n] \in Released}

CloseAndClear(r) ==
  [r EXCEPT !.conv = [n \in Node |-> IF n \in Closing(r) THEN None ELSE r.conv[n]],
            !.last = [n \in Node |-> IF n \in Closing(r) THEN r.conv[n] ELSE r.last[n]]]

UpdateRunStatus_BlockedPends(r) ==
  IF r.status = "InProgress" /\ \A n \in Node : r.node[n] \in TerminalNode \ {"Blocked"}
    THEN SetStatus(r, IF \E n \in Node : r.node[n] = "Failed" THEN "FailedRun" ELSE "Completed")
    ELSE r
UpdateRunStatus(r) ==
  IF r.status = "InProgress" /\ \A n \in Node : r.node[n] \in TerminalNode
    THEN SetStatus(r, IF \E n \in Node : r.node[n] \in {"Failed", "Blocked"}
                        THEN "FailedRun" ELSE "Completed")
    ELSE r

\* A Pending node whose dependencies have all succeeded may be launched.
DepsSucceeded(r, n) == \A d \in DependsOn[n] : r.node[d] = "Succeeded"
Runnable_NoneFailed(r) ==
  {n \in Node : r.node[n] = "Pending" /\ \A d \in DependsOn[n] : r.node[d] # "Failed"}
Runnable(r) == {n \in Node : r.node[n] = "Pending" /\ DepsSucceeded(r, n)}

Chosen_IgnoresActive(r) ==
  IF r.status # "InProgress" THEN {}
  ELSE {n \in Runnable(r) : Cardinality({m \in Runnable(r) : m < n}) < Concurrency}
\* schedule: the first `capacity` runnable nodes in key order.
Chosen(r) ==
  IF r.status # "InProgress" THEN {}
  ELSE {n \in Runnable(r) :
          Cardinality({m \in Runnable(r) : m < n}) < Concurrency - Cardinality(Active(r))}

Schedule(r) ==
  [r EXCEPT !.node = [n \in Node |-> IF n \in Chosen(r) THEN "Starting" ELSE r.node[n]]]

FinishStep_StatusFirst(before, r) ==
  LET r1 == UpdateRunStatus(r)
      r2 == BlockedPropagation(r1)
      r3 == CloseAndClear(r2)
      r4 == Schedule(r3)
  IN  [run    |-> r4,
       close  |-> {r2.conv[n] : n \in Closing(r2)},
       create |-> Chosen(r3),
       retry  |-> {n \in Node : r4.node[n] = "Waiting" /\ before.node[n] # "Waiting"}]
FinishStep_ClosesTooLate(before, r) ==
  LET r1 == UpdateRunStatus(CloseAndClear(BlockedPropagation(r)))
      r2 == Schedule(r1)
  IN  [run    |-> r2,
       close  |-> {r1.conv[n] : n \in Closing(r1)},
       create |-> Chosen(r1),
       retry  |-> {n \in Node : r2.node[n] = "Waiting" /\ before.node[n] # "Waiting"}]
FinishStep_NoBackoff(before, r) ==
  LET r1 == BlockedPropagation(r)
      r2 == UpdateRunStatus(CloseAndClear(r1))
  IN  [run    |-> Schedule(r2),
       close  |-> {r1.conv[n] : n \in Closing(r1)},
       create |-> Chosen(r2),
       retry  |-> {}]
\* The run after the four passes, and the effects they emit:
\*   close   CloseSessionFor's sessions     create  CreateSessionFor's nodes
\*   retry   nodes that entered Waiting in this step (ScheduleRetry)
FinishStep(before, r) ==
  LET r1 == BlockedPropagation(r)
      r2 == CloseAndClear(r1)
      r3 == UpdateRunStatus(r2)
      r4 == Schedule(r3)
  IN  [run    |-> r4,
       close  |-> {r1.conv[n] : n \in Closing(r1)},
       create |-> Chosen(r3),
       retry  |-> {n \in Node : r4.node[n] = "Waiting" /\ before.node[n] # "Waiting"}]
=============================================================================
