----------------------------- MODULE PlanRunner -----------------------------
(***************************************************************************)
(* One plan's run inside the client: the pure runner of RunnerStep driven  *)
(* by the update loop (App/Update.elm), with the effects it emits carried  *)
(* out (Plan/Update.elm, runStepIn and applyEffectsIn).                    *)
(*                                                                         *)
(* Session creation is asynchronous and serialized: one create is in       *)
(* flight (planCreating), later ones wait in planCreateQueue, and a reply  *)
(* arrives at any later time, whatever the user did meanwhile.  Sessions   *)
(* end, fail or die at any time; backoff timers fire at any later time.    *)
(* Messages that the update loop sends to itself (Task.perform ... now)    *)
(* are handled before any of these, so they belong to the action of the    *)
(* message that sent them.                                                 *)
(*                                                                         *)
(* Clicks and MaxClicks bound what the user does.  Another plan's creates  *)
(* and the user's own share the create queue and only delay this plan's;   *)
(* they are left out.                                                      *)
(***************************************************************************)
EXTENDS RunnerStep, Sequences

CONSTANTS
  Clicks,       \* the user operations this instance performs
  MaxClicks     \* how many of them

VARIABLES
  run,              \* win.run
  planCreating,     \* the node whose create is in flight, or None
  planCreateQueue,  \* the nodes whose creates wait
  windows,          \* model.sessions: this plan's sessions with a window
  alive,            \* the sessions among them whose process runs
  used,             \* session ids the backend has handed out
  timers,           \* timers[n]: backoff sleeps pending for n
  loadRead,         \* the run.json a "Load run" read will deliver, or None
  clicks            \* user operations so far

vars == <<run, planCreating, planCreateQueue, windows, alive, used, timers, loadRead, clicks>>

ASSUME ClicksAssumption ==
  /\ Clicks \subseteq {"Start", "Load", "Pause", "Resume", "Stop", "Restart",
                       "Retry", "Close", "Reopen", "Cascade"}
  /\ MaxClicks \in Nat

ASSUME NoneIsNoNode == None \notin Node

Init ==
  /\ run = EmptyRun
  /\ planCreating = None
  /\ planCreateQueue = <<>>
  /\ windows = {} /\ alive = {} /\ used = {}
  /\ timers = [n \in Node |-> 0]
  /\ loadRead = None
  /\ clicks = 0

(***************************************************************************)
(* Effects.                                                                *)
(***************************************************************************)
\* S in Dict key order.
Ordered(S) ==
  [i \in 1..Cardinality(S) |-> CHOOSE n \in S : Cardinality({m \in S : m < n}) = i - 1]

Creates_DropWhenBusy(creating, queue, S) ==
  IF creating = None /\ S # {}
    THEN [creating |-> Head(Ordered(S)), queue |-> queue \o Tail(Ordered(S))]
    ELSE [creating |-> creating, queue |-> queue]
\* CreateSessionFor: a free slot takes the first create at once, ahead of any
\* create already queued; the others join the queue.
Creates(creating, queue, S) ==
  IF creating = None /\ S # {}
    THEN [creating |-> Head(Ordered(S)), queue |-> queue \o Tail(Ordered(S))]
    ELSE [creating |-> creating, queue |-> queue \o Ordered(S)]

StartNextCreate_Forgotten(c) == c
\* startNextCreateIn
StartNextCreate(c) ==
  IF c.creating = None /\ c.queue # <<>>
    THEN [creating |-> Head(c.queue), queue |-> Tail(c.queue)]
    ELSE c

SetCreates(c) == planCreating' = c.creating /\ planCreateQueue' = c.queue

Enact_LeavesProcess(f, open, live, armed) ==
  /\ run' = f.run
  /\ windows' = open \ f.close
  /\ alive' = live
  /\ timers' = [n \in Node |-> IF n \in f.retry THEN armed[n] + 1 ELSE armed[n]]
\* CloseSessionFor and ScheduleRetry, from the windows and processes that
\* the action itself leaves open.
Enact(f, open, live, armed) ==
  /\ run' = f.run
  /\ windows' = open \ f.close
  /\ alive' = live \ f.close
  /\ timers' = [n \in Node |-> IF n \in f.retry THEN armed[n] + 1 ELSE armed[n]]

\* runStepIn, when nothing but the run changes before the step.
RunStepIn(r) ==
  LET f == FinishStep(run, r)
  IN  /\ Enact(f, windows, alive, timers)
      /\ SetCreates(Creates(planCreating, planCreateQueue, f.create))

(***************************************************************************)
(* The user.                                                               *)
(***************************************************************************)
Click(op) == op \in Clicks /\ clicks < MaxClicks /\ clicks' = clicks + 1

\* PlanRunStart -> PlanRunStartAt
PlanRunStart ==
  /\ Click("Start") /\ run.status \in Startable
  /\ RunStepIn(StartRun(run))
  /\ UNCHANGED <<used, loadRead>>

\* PlanResume ("Load run"): read run.json.  The button is offered for a
\* finished run only, and what is read then is what was last persisted.
PlanResume ==
  /\ Click("Load") /\ run.status \in Startable \ {"NotStarted"}
  /\ loadRead' = run
  /\ UNCHANGED <<run, planCreating, planCreateQueue, windows, alive, used, timers>>

\* handlePlanReadTarget with continueRun: the restored run replaces
\* whatever run the window has by now.
PlanReadResult ==
  /\ loadRead # None
  /\ LET r == ResumeState(loadRead)
         f == FinishStep(r, ContinueRun(r))
     IN  /\ Enact(f, windows, alive, timers)
         /\ SetCreates(Creates(planCreating, planCreateQueue, f.create))
  /\ loadRead' = None
  /\ UNCHANGED <<used, clicks>>

PlanRunPause ==
  /\ Click("Pause") /\ run.status = "InProgress"
  /\ RunStepIn(PauseRun(run))
  /\ UNCHANGED <<used, loadRead>>

PlanRunResume ==
  /\ Click("Resume") /\ run.status = "Paused"
  /\ RunStepIn(ResumeRun(run))
  /\ UNCHANGED <<used, loadRead>>

\* The queued creates go; the one in flight cannot be taken back.
PlanRunStop ==
  /\ Click("Stop") /\ run.status \in {"InProgress", "Paused"}
  /\ Enact(FinishStep(run, StopRun(run)), windows, alive, timers)
  /\ planCreateQueue' = <<>>
  /\ UNCHANGED <<planCreating, used, loadRead>>

\* PlanRunRestart, for this plan or, through restartPlanCascade, for the
\* parent of a plan in any state.
PlanRunRestart ==
  /\ Click("Restart") /\ run.status # "NotStarted"
  /\ RunStepIn(RestartRun(run))
  /\ UNCHANGED <<used, loadRead>>

PlanRunRetryNode(n) ==
  /\ Click("Retry") /\ run.node[n] \in {"Failed", "Canceled", "Waiting"}
  /\ RunStepIn(RetryNode(run, n))
  /\ UNCHANGED <<used, loadRead>>

\* minimalCloseSession: a closed window fails the node still bound to it.
CloseSession(c) ==
  /\ Click("Close") /\ c \in windows
  /\ LET f == FinishStep(run, IF Bound(run, c) = {} THEN run
                              ELSE SessionDisconnected(run, NodeBySessionId(run, c)))
     IN  /\ Enact(f, windows \ {c}, alive \ {c}, timers)
         /\ SetCreates(Creates(planCreating, planCreateQueue, f.create))
  /\ UNCHANGED <<used, loadRead>>

\* PlanOpenNodeSession: the session a node is bound to, or was bound to last,
\* is resumed if it has no window.
PlanOpenNodeSession(n) ==
  /\ Click("Reopen")
  /\ LET c == IF run.conv[n] # None THEN run.conv[n] ELSE run.last[n]
     IN  /\ c \notin windows \cup {None}
         /\ windows' = windows \cup {c}
         /\ alive' = alive \cup {c}
  /\ UNCHANGED <<run, planCreating, planCreateQueue, used, timers, loadRead>>

\* A re-run cascade resumes the node that delegated to the re-run plan:
\* resetNodeForResume puts the conversation back, its window open again,
\* and ResumeDelegatedNode follows at once.
CascadeResumeNode(n) ==
  /\ Click("Cascade") /\ run.node[n] = "Succeeded" /\ run.last[n] # None
  /\ LET c == run.last[n]
         r == [run EXCEPT !.node[n] = "WaitingForPlan", !.conv[n] = c, !.status = "InProgress"]
         f == FinishStep(r, ResumeDelegatedNode(r, n))
     IN  /\ Enact(f, windows \cup {c}, alive \cup {c}, timers)
         /\ SetCreates(Creates(planCreating, planCreateQueue, f.create))
  /\ UNCHANGED <<used, loadRead>>

\* ... and, that node having succeeded again, re-runs its branch.
CascadeBranchRerun(n) ==
  /\ Click("Cascade") /\ run.node[n] = "Succeeded"
  /\ RunStepIn(ResumeBranchFrom(run, n))
  /\ UNCHANGED <<used, loadRead>>

(***************************************************************************)
(* The backend and the clock.                                              *)
(***************************************************************************)
\* SessionCreated -> createSessionWindow -> PlanBindSession: bind, start the
\* next create, and close the session if the bind did not take.
PlanBindSession(c) ==
  /\ planCreating # None /\ c \in Conv \ used
  /\ used' = used \cup {c}
  /\ LET n     == planCreating
         f     == FinishStep(run, SessionCreatedFor(run, n, c))
         taken == f.run.node[n] = "Running" /\ f.run.conv[n] = c
         new   == IF taken THEN {c} ELSE {}
     IN  /\ Enact(f, windows \cup new, alive \cup new, timers)
         /\ SetCreates(StartNextCreate(Creates(None, planCreateQueue, f.create)))
  /\ UNCHANGED <<loadRead, clicks>>

SessionCreateError ==
  /\ planCreating # None
  /\ LET f == FinishStep(run, SessionCreateFailed(run, planCreating))
     IN  /\ Enact(f, windows, alive, timers)
         /\ SetCreates(StartNextCreate(Creates(None, planCreateQueue, f.create)))
  /\ UNCHANGED <<used, loadRead, clicks>>

\* PlanRunFrame delivers only the frames of a session some node is bound to.
Routed(c) == c \in alive /\ Bound(run, c) # {}

TaskDoneFrame(c, delegated) ==
  /\ Routed(c)
  /\ RunStepIn(TaskDone(run, NodeBySessionId(run, c), c, delegated))
  /\ UNCHANGED <<used, loadRead, clicks>>

ErrorFrame(c) ==
  /\ Routed(c)
  /\ RunStepIn(SessionError(run, NodeBySessionId(run, c)))
  /\ UNCHANGED <<used, loadRead, clicks>>

\* statusEvent: the process is gone; the window stays.
DisconnectFrame(c) ==
  /\ c \in alive
  /\ LET f == FinishStep(run, IF Bound(run, c) = {} THEN run
                              ELSE SessionDisconnected(run, NodeBySessionId(run, c)))
     IN  /\ Enact(f, windows, alive \ {c}, timers)
         /\ SetCreates(Creates(planCreating, planCreateQueue, f.create))
  /\ UNCHANGED <<used, loadRead, clicks>>

\* feedbackCompletedPlan of a node's sub-plan: the node goes on when the
\* window of its session is still there.
FeedbackFrame(c) ==
  /\ c \in windows /\ Bound(run, c) # {}
  /\ run.node[NodeBySessionId(run, c)] = "WaitingForPlan"
  /\ RunStepIn(ResumeDelegatedNode(run, NodeBySessionId(run, c)))
  /\ UNCHANGED <<used, loadRead, clicks>>

\* A backoff sleep ends.
PlanRunnerTick(n) ==
  /\ timers[n] > 0
  /\ LET f == FinishStep(run, RetryTick(run, n))
     IN  /\ Enact(f, windows, alive, [timers EXCEPT ![n] = @ - 1])
         /\ SetCreates(Creates(planCreating, planCreateQueue, f.create))
  /\ UNCHANGED <<used, loadRead, clicks>>

User ==
  \/ PlanRunStart \/ PlanResume \/ PlanRunPause \/ PlanRunResume
  \/ PlanRunStop \/ PlanRunRestart
  \/ \E n \in Node : \/ PlanRunRetryNode(n) \/ PlanOpenNodeSession(n)
                     \/ CascadeResumeNode(n) \/ CascadeBranchRerun(n)
  \/ \E c \in Conv : CloseSession(c)

CreateReply == SessionCreateError \/ \E c \in Conv : PlanBindSession(c)

SessionEnds(c) ==
  \/ \E delegated \in BOOLEAN : TaskDoneFrame(c, delegated)
  \/ ErrorFrame(c)
  \/ DisconnectFrame(c)

Next ==
  \/ User
  \/ PlanReadResult
  \/ CreateReply
  \/ \E c \in Conv : SessionEnds(c) \/ FeedbackFrame(c)
  \/ \E n \in Node : PlanRunnerTick(n)

Spec == Init /\ [][Next]_vars

\* What keeps a run going is due: a create is answered (every call has a
\* deadline), a read is answered, a sleep ends, and a session that works on a
\* prompt stops working on it.  (WF of these actions, with ENABLED spelt out;
\* only the user's steps count clicks.)
Due ==
  \/ planCreating # None
  \/ loadRead # None
  \/ \E n \in Node : timers[n] > 0
  \/ \E n \in Node : run.node[n] = "Running" /\ run.conv[n] \in alive

Fairness == []<>(~Due) \/ []<><<clicks' = clicks>>_vars

FairSpec == Spec /\ Fairness

(***************************************************************************)
(* Properties.                                                             *)
(***************************************************************************)
\* Every variable keeps its shape; the queue holds nodes of this plan.
TypeOK ==
  /\ run \in Run
  /\ planCreating \in Node \cup {None}
  /\ planCreateQueue \in Seq(Node)
  /\ windows \subseteq Conv /\ alive \subseteq windows /\ used \subseteq Conv
  /\ timers \in [Node -> Nat]
  /\ loadRead \in Run \cup {None}
  /\ clicks \in Nat

\* No event leaves work behind (finishStep): with the run as it stands, one
\* more pass of it would change nothing and emit nothing.  Nothing
\* runnable waits beside a free slot, no Pending or Waiting node has a
\* Failed or Blocked dependency, no finished node keeps a session, and no
\* run with only finished nodes is still InProgress.
Settled ==
  LET f == FinishStep(run, run)
  IN  f.run = run /\ f.close = {} /\ f.create = {} /\ f.retry = {}

\* A session belongs to one node for good (nodeBySessionId takes the first
\* match, so two owners would route one's answer to the other): bound at
\* most once, in the history of at most one node, and a node that works in a
\* session has it recorded as its last and in its history.
OneOwner ==
  \A n \in Node :
    /\ run.node[n] \in {"Running", "WaitingForPlan"} =>
          run.conv[n] # None /\ run.last[n] = run.conv[n]
    /\ run.conv[n] # None => run.conv[n] \in run.hist[n]
    /\ run.hist[n] \subseteq used
    /\ \A m \in Node \ {n} : run.hist[n] \cap run.hist[m] = {}

\* A node in Starting always has a create on its way: the reply that will
\* bind or fail it is in flight or queued.  Otherwise it, and the slot it
\* takes, would be stuck (the deadlock SessionCreateError's comment fears).
CreatePending ==
  \A n \in Node : run.node[n] = "Starting" =>
    planCreating = n \/ \E i \in DOMAIN planCreateQueue : planCreateQueue[i] = n

\* The slot is never idle while creates wait.
SlotBusy == planCreateQueue # <<>> => planCreating # None

\* The retry cap (failNode): only a Failed node has used its attempts up,
\* and a Waiting node, which has some left, has a backoff timer to wake it.
RetryCap ==
  \A n \in Node :
    /\ run.attempts[n] <= MaxAttempts[n]
    /\ run.attempts[n] = MaxAttempts[n] => run.node[n] = "Failed"
    /\ run.node[n] = "Failed" => run.attempts[n] = MaxAttempts[n]
    /\ run.node[n] = "Waiting" => timers[n] > 0

\* The run's status says what its nodes are (updateRunStatus, stopRun): a
\* Stopped run has nothing left to stop, whatever replies and timers came
\* in since; a finished run has only finished nodes, FailedRun exactly when
\* one of them failed or was blocked; an InProgress run has work left.
StatusAgrees ==
  /\ run.status = "NotStarted" => \A n \in Node : run.node[n] = "Pending"
  /\ run.status = "Stopped" => \A n \in Node : run.node[n] \notin Stoppable
  /\ run.status \in {"Completed", "FailedRun"} =>
        \A n \in Node : run.node[n] \in TerminalNode
  /\ run.status = "Completed" => \A n \in Node : run.node[n] \notin {"Failed", "Blocked"}
  /\ run.status = "FailedRun" => \E n \in Node : run.node[n] \in {"Failed", "Blocked"}
  /\ run.status = "InProgress" => \E n \in Node : run.node[n] \notin TerminalNode

\* A node that runs has its session's window in the client: neither closing
\* the window nor the loss of the process leaves it running (the node would
\* wait for an answer that cannot be shown).
RunningHasWindow ==
  \A n \in Node : run.node[n] = "Running" => run.conv[n] \in windows

\* What a run holds is held once and within its bounds: sessions, their
\* windows, the attempts of a node.
ResourcesHeld == OneOwner /\ RunningHasWindow /\ RetryCap

\* What the runner writes down agrees with what happened: after every event
\* nothing is left to do, every create is on its way, and the status of the
\* run is that of its nodes.
RunnerBook == Settled /\ CreatePending /\ SlotBusy /\ StatusAgrees

\* No session outlives its node's interest in it, unless live nodes are reset
\* (Re-run, Load run, cascade): a window that no node is bound to was so
\* before the step, or is one the user has just reopened.
NoLeak ==
  [][\A c \in windows' : Bound(run', c) = {} =>
       \/ c \in windows /\ Bound(run, c) = {}
       \/ \E n \in Node : PlanOpenNodeSession(n)]_vars

\* A node is launched only with all its dependencies Succeeded, never by
\* reviving a node of a run that is not InProgress, and a step that launches
\* leaves at most Concurrency nodes active.
LaunchRules ==
  [][\A n \in Node : run.node[n] # "Starting" /\ run'.node[n] = "Starting" =>
       /\ DepsSucceeded(run', n)
       /\ run'.status = "InProgress"
       /\ Cardinality(Active(run')) <= Concurrency]_vars

\* Stop sticks: without a further user operation (a "Load run" still being
\* read is one), no late create reply, frame or timer restarts anything.
StopSticks ==
  [][run.status = "Stopped" /\ loadRead = None /\ clicks' = clicks =>
       run'.status = "Stopped" /\ run'.node = run.node /\ windows' \subseteq windows]_vars

\* A succeeded result is lost only by the user's hand: to Start, Load or
\* the cascade, never to a late frame, a reply, a timer or a Re-run.
ResultsKept ==
  [][\A n \in Node : run.node[n] = "Succeeded" /\ run'.node[n] # "Succeeded" =>
       PlanRunStart \/ PlanReadResult \/ \E m \in Node : CascadeResumeNode(m) \/ CascadeBranchRerun(m)]_vars

\* What each step may do to what came before: the three rules above.
HistoryKept == LaunchRules /\ StopSticks /\ ResultsKept

\* An InProgress run is never deadlocked (schedule, on an acyclic plan): some
\* node is being started, runs, backs off or waits for its sub-plan, unless
\* a canceled node stands below the ones that wait.
NoDeadlock ==
  run.status = "InProgress" =>
    \E n \in Node : run.node[n] \in {"Starting", "Running", "Waiting", "WaitingForPlan", "Canceled"}

\* The run gets somewhere (schedule, failNode, retryTick): an InProgress run
\* leaves InProgress, unless it waits for a sub-plan, the user canceled a node
\* under a retried one, or a node runs in a session whose process is gone.
RunEnds ==
  run.status = "InProgress" ~>
    \/ run.status # "InProgress"
    \/ \E n \in Node : run.node[n] \in {"WaitingForPlan", "Canceled"}
    \/ \E n \in Node : run.node[n] = "Running" /\ run.conv[n] \notin alive

(***************************************************************************)
(* What the documentation says and the code does not keep.                 *)
(***************************************************************************)
\* docs/plan-mode.md:162 "Parallel cap".
ConcurrencyCap == Cardinality(Active(run)) <= Concurrency

\* feedbackCompletedPlan: a node is not put back to Running when no
\* answer can come ("would leave it stuck in Running forever").
RunningAlive ==
  \A n \in Node : run.node[n] = "Running" => run.conv[n] \in alive

\* docs/plan-mode.md:198 "Blocked <- any dependency Failed terminal".
BlockedJustified ==
  \A n \in Node : run.node[n] = "Blocked" =>
    \E d \in DependsOn[n] : run.node[d] \in {"Failed", "Blocked"}

\* bindSession: "a node is only scheduled once all its deps succeeded, so
\* the referenced outputs always exist by bind time".
OutputsAtBind ==
  [][\A n \in Node : run.node[n] = "Starting" /\ run'.node[n] = "Running" =>
       DepsSucceeded(run, n)]_vars

\* retryNode: "Manual retry on a finished run reactivates scheduling for the
\* retried node": an InProgress run has a node that something will happen to.
RetryReactivates ==
  run.status = "InProgress" =>
    \E n \in Node : run.node[n] \in {"Starting", "Running", "Waiting", "WaitingForPlan"}

\* closeAndClear: "Close sessions of nodes that left Running without success".
LeavingRunningCloses ==
  [][\A n \in Node :
       run.node[n] = "Running" /\ run'.node[n] \notin {"Running", "Succeeded", "WaitingForPlan"}
         => run.conv[n] \notin windows']_vars

\* docs/plan-mode.md:199 "Canceled <- incomplete nodes when user Stops / Pauses".
PauseCancels ==
  run.status \in {"Stopped", "Paused"} => \A n \in Node : run.node[n] \notin Stoppable
=============================================================================
