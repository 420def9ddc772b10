---------------------------- MODULE PlanCascade ----------------------------
(***************************************************************************)
(* Plans that delegate to sub-plans, the results they feed back, and the   *)
(* re-run cascade (Plan/Cascade.elm and its executor in Plan/Update.elm    *)
(* and App/Update.elm).                                                    *)
(*                                                                         *)
(* Each plan lives in the session it was created in, its origin.  A        *)
(* completed plan inserts its result there; when that session is a node's  *)
(* of another plan, the node answers again.  Re-running a plan whose       *)
(* result is already in the conversation forks the origin session at the   *)
(* plan's message, inserts the new result in the fork, resumes the parent  *)
(* node, re-runs what depends on it, and goes on with the parent's parent. *)
(*                                                                         *)
(* The state is one record, the client's Model.  Every plan's run is a run *)
(* of RunnerStep; binding a created session, an answer and a failure of a  *)
(* node are single steps here (PlanRunner has them in detail).  Left out:  *)
(* two plans of one origin, a re-run node that delegates again, the        *)
(* version freezes, and a plan message without a history id.               *)
(***************************************************************************)
EXTENDS RunnerStep, CascadeStep, SequencesExt

CONSTANTS
  Plan,       \* plan ids
  Session,    \* the sessions plans are created in
  Origin,     \* Origin[p]: the session of plan p
  Host,       \* Host[s]: the plan and node whose session s is, or None
  FreshConv,  \* FreshConv[n]: the session a (re-)run node n is given
  Answer,     \* texts a node may answer
  Ops,        \* what the user does
  Budget      \* Budget[op]: how often

VARIABLES
  model,      \* the client's Model
  clicks      \* clicks[op]: operations so far

vars == <<model, clicks>>

ASSUME CascadeAssumption ==
  /\ IsFiniteSet(Plan) /\ Session \subseteq Conv
  /\ Origin \in [Plan -> Session]
  /\ \A p, q \in Plan : Origin[p] = Origin[q] => p = q
  /\ Host \in [Session -> (Plan \X Node) \cup {None}]
  /\ FreshConv \in [Node -> Conv \ Session]
  /\ Budget \in [Ops -> Nat]

Hosted(s) == Host[s] # None
HostPlan(s) == Host[s][1]
HostNode(s) == Host[s][2]

\* A sub-plan is created in the session of a node of a plan there was before.
ASSUME NestingAssumption ==
  \E depth \in [Plan -> 0..Cardinality(Plan)] :
    \A p \in Plan : Hosted(Origin[p]) => depth[HostPlan(Origin[p])] < depth[p]

\* Outputs, what a result consists of, and the model's records.
Output == Answer \cup {None}
Result == UNION {[S -> Output] : S \in SUBSET Node}
Level == [plan : Plan, node : Node \cup {None}, conv : Session]
Cascade == [root : Plan, rootOld : Result, phase : Phases \ {"Done"}, plan : Plan, summary : Result,
            levels : Seq([plan : Plan, node : Node, conv : Session, old : Result])]
Fork == [child : Plan, level : (Plan \X Node) \cup {None}]
Request == [kind : {"fork"}, plan : Plan] \cup [kind : {"resume", "create"}]
Message == ({"PlanClose"} \X Plan) \cup ({"Resume", "Disconnected"} \X Session) \cup {<<"PlanRunStartAt">>}

Model == [run : [Plan -> Run], text : [Plan -> [Node -> Output]], order : Seq(Plan),
          sessions : SUBSET Session, after : [Plan -> Seq(Result \cup {None})],
          copy : [Session -> {"own", "fork", "other"}],
          preview : [root : Plan, levels : Seq(Level)] \cup {None}, queue : Seq(Plan),
          reading : Plan \cup {None}, cascade : Cascade \cup {None}, fork : Fork \cup {None},
          error : BOOLEAN, resuming : Session \cup {None}, wedged : BOOLEAN,
          requests : Seq(Request), self : SUBSET Message]

\* Nothing is none of them.
ASSUME NothingAssumption == None \notin Cascade \cup Fork

(***************************************************************************)
(* Init: every plan but the innermost ones waits for its sub-plan, which   *)
(* has just been created.                                                  *)
(***************************************************************************)
Delegated(p) == {n \in Node : \E s \in Session : Host[s] = <<p, n>>}
SessionOf(p, n) == CHOOSE s \in Session : Host[s] = <<p, n>>

InitialRun(p) ==
  IF Delegated(p) = {} THEN EmptyRun
  ELSE LET bound == [n \in Node |-> IF n \in Delegated(p) THEN SessionOf(p, n) ELSE None]
       IN  [EmptyRun EXCEPT
             !.status = "InProgress",
             !.node = [n \in Node |-> IF n \in Delegated(p) THEN "WaitingForPlan" ELSE "Pending"],
             !.conv = bound, !.last = bound,
             !.hist = [n \in Node |-> IF n \in Delegated(p) THEN {bound[n]} ELSE {}]]

Init ==
  /\ model = [run      |-> [p \in Plan |-> InitialRun(p)],
              text     |-> [p \in Plan |-> [n \in Node |-> None]], \* outputs
              order    |-> SetToSeq(Plan),  \* planOrder, the active plan last
              sessions |-> Session,         \* sessions with a window
              after    |-> [p \in Plan |-> <<>>],  \* what follows p's message
              copy     |-> [s \in Session |-> "own"],  \* sessionWorkCopies
              preview  |-> None,  \* planCascadePreview
              queue    |-> <<>>,  \* planCascadeOpenQueue
              reading  |-> None,  \* planReadTarget
              cascade  |-> None,  \* planCascade
              fork     |-> None,  \* planCascadeFork
              error    |-> FALSE, \* planCascadeError
              resuming |-> None,  \* planResumeFrom
              wedged   |-> FALSE, \* planCreating kept by a reply taken for another
              requests |-> <<>>,  \* fork, resume and create calls in flight
              self     |-> {}]    \* messages the update loop sent itself
  /\ clicks = [op \in Ops |-> 0]

\* The items of s at the places I, and those that are not in S.
Picked(s, I) ==
  [k \in 1..Cardinality(I) |-> s[CHOOSE i \in I : Cardinality({j \in I : j < i}) = k - 1]]
Without(s, S) == Picked(s, {i \in DOMAIN s : s[i] \notin S})

Windows(m) == Range(m.order)
Say(m, msg) == [m EXCEPT !.self = @ \cup {msg}]
Raise(m, p) == [m EXCEPT !.order = Append(Without(@, {p}), p)]

\* feedbackSummary: what each succeeded node answered.
Summary(m, p) ==
  [n \in {k \in Node : m.run[p].node[k] = "Succeeded"} |-> m.text[p][n]]

\* findPlanIdBySession: the open plans (at most one) with a node bound to s.
BoundIn(m, s) == {p \in Windows(m) : Bound(m.run[p], s) # {}}

(***************************************************************************)
(* Closing: the ownership graph below a set of plans closes in one update. *)
(***************************************************************************)
CloseSet_PlansOnly(m, P) == P
\* collectCloseSetHelp
CloseSet(m, P) ==
  {p \in Plan : \A S \in SUBSET Plan :
     (/\ P \subseteq S
      /\ \A q \in Plan : (/\ Hosted(Origin[q]) /\ Origin[q] \in m.sessions
                          /\ HostPlan(Origin[q]) \in S) => q \in S) => p \in S}

Halt(r) == IF r.status \in {"InProgress", "Paused"} THEN FinishStep(r, StopRun(r)).run ELSE r

\* PlanClose -> minimalPlanClose for each plan of the close set.
PlanClosed(m, P) ==
  LET gone == CloseSet(m, P)
  IN  [m EXCEPT !.run = [p \in Plan |-> IF p \in gone \cap Windows(m) THEN Halt(@[p]) ELSE @[p]],
                !.order = Without(@, gone),
                !.sessions = {s \in @ : Hosted(s) => HostPlan(s) \notin gone}]

\* CloseSession, for each of S: the plans created there close first.
SessionsClosed(m, S) ==
  LET m1 == PlanClosed(m, {p \in Plan : Origin[p] \in S})
  IN  [m1 EXCEPT !.sessions = @ \ S]


(***************************************************************************)
(* The executor.                                                           *)
(***************************************************************************)
\* runStepIn without what follows a completion: the run, its closed sessions.
Stepped(m, p, r) ==
  LET f == FinishStep(m.run[p], r)
  IN  SessionsClosed([m EXCEPT !.run[p] = f.run], f.close \cap Session)

ForkLevelFor_NextLevel(m, p) ==
  IF m.cascade = None \/ Len(m.cascade.levels) < 2 THEN None
  ELSE <<m.cascade.levels[2].plan, m.cascade.levels[2].node>>
\* forkLevelFor: the node whose session the fork replaces.
ForkLevelFor(m, p) ==
  IF m.cascade = None THEN None
  ELSE LET ls == m.cascade.levels
           i  == IF m.cascade.root = p THEN 1 ELSE 2
       IN  IF Len(ls) < i THEN None ELSE <<ls[i].plan, ls[i].node>>

ForkParent_CutsAtOnce(m, p) ==
  IF Origin[p] \in m.sessions /\ m.after[p] # <<>>
    THEN [m EXCEPT !.fork = [child |-> p, level |-> ForkLevelFor(m, p)], !.after[p] = <<>>,
                   !.requests = Append(@, [kind |-> "fork", plan |-> p])]
    ELSE [m EXCEPT !.cascade = None, !.fork = None, !.error = TRUE]
\* forkParentForCascade: the fork needs the origin's window and something to
\* cut; otherwise the cascade ends with an error.
ForkParent(m, p) ==
  IF Origin[p] \in m.sessions /\ m.after[p] # <<>>
    THEN [m EXCEPT !.fork = [child |-> p, level |-> ForkLevelFor(m, p)],
                   !.requests = Append(@, [kind |-> "fork", plan |-> p])]
    ELSE [m EXCEPT !.cascade = None, !.fork = None, !.error = TRUE]

RegisterFork_StaysSet(m) ==
  IF m.fork = None THEN m
  ELSE Say([m EXCEPT !.error = FALSE], <<"PlanClose", m.fork.child>>)
\* registerForkInstance
RegisterFork(m) ==
  IF m.fork = None THEN m
  ELSE Say([m EXCEPT !.fork = None, !.error = FALSE], <<"PlanClose", m.fork.child>>)

InsertResult_Nowhere(m, p, summary) == m
InsertResult(m, p, summary) == [m EXCEPT !.after[p] = Append(@, summary)]

\* ResumeNode: resetNodeForResume, and ResumeDelegatedNode as a message.
ResumeNode(m, p, n, conv) ==
  LET r  == m.run[p]
      m1 == IF p \notin Windows(m) THEN m
            ELSE IF r.node[n] # "Succeeded" THEN [m EXCEPT !.run[p].status = "InProgress"]
            ELSE [m EXCEPT !.run[p] = [r EXCEPT !.status = "InProgress",
                                                !.node[n] = "WaitingForPlan", !.conv[n] = conv]]
  IN  Say(m1, <<"Resume", conv>>)

\* applyCascadeEffect.  (No event makes the machine emit OpenAncestor; a
\* branch re-run completes no run that was not complete already.)
ApplyEffect(m, e) ==
  CASE e.do = "ForkInstance" -> ForkParent(m, e.plan)
    [] e.do = "CascadeError" -> [m EXCEPT !.error = TRUE]
    [] e.do = "InsertResult" -> InsertResult(m, e.plan, e.summary)
    [] e.do = "ResumeNode"   -> ResumeNode(m, e.plan, e.node, e.conv)
    [] e.do = "BranchRerun"  -> IF e.plan \in Windows(m)
                                  THEN Stepped(m, e.plan, ResumeBranchFrom(m.run[e.plan], e.node))
                                  ELSE m
    [] e.do = "RegisterFork" -> RegisterFork(m)

\* The effects of one step, in their order; no event has more than three.
Nth(m, es, i) == IF i <= Len(es) THEN ApplyEffect(m, es[i]) ELSE m
Applied(m, es) == Nth(Nth(Nth(m, es, 1), es, 2), es, 3)

Feed_KeepsDone(m, step) == Applied([m EXCEPT !.cascade = step.cs], step.effects)
\* cascadeStepIn: the new state is stored (Nothing once Done), then the
\* effects are carried out.
Feed(m, step) ==
  Applied([m EXCEPT !.cascade = IF step.cs.phase = "Done" THEN None ELSE step.cs], step.effects)

FeedbackCompletedPlan_NoResume(m, p) ==
  IF Origin[p] \notin m.sessions THEN m ELSE [m EXCEPT !.after[p] = Append(@, Summary(m, p))]
\* feedbackCompletedPlan: the result goes to the origin session, if open,
\* and wakes the node whose session that is.
FeedbackCompletedPlan(m, p) ==
  IF Origin[p] \notin m.sessions THEN m
  ELSE LET m1 == [m EXCEPT !.after[p] = Append(@, Summary(m, p))]
       IN  IF BoundIn(m, Origin[p]) = {} THEN m1 ELSE Say(m1, <<"Resume", Origin[p]>>)

CascadeOnPlanCompleted(m, p) ==
  IF m.cascade = None THEN FeedbackCompletedPlan(m, p)
  ELSE Feed(m, PlanCompleted(m.cascade, p, Summary(m, p)))

\* runStepIn: a run that became Completed feeds back and closes its window,
\* unless a fork is pending or failed.
RunStepIn(m, p, r) ==
  LET m1 == Stepped(m, p, r)
      m2 == CascadeOnPlanCompleted(m1, p)
  IN  IF m.run[p].status = "Completed" \/ FinishStep(m.run[p], r).run.status # "Completed"
        THEN m1
        ELSE IF m2.fork = None /\ ~m2.error THEN Say(m2, <<"PlanClose", p>>) ELSE m2

\* cascadeAfterRunnerStep, for the TaskDone of session c.
AfterTaskDone(m, p, c, r) ==
  IF m.cascade = None THEN m
  ELSE LET cs == m.cascade
           lvl == Head(cs.levels)
       IN  IF cs.levels = <<>> \/ lvl.plan # p \/ lvl.conv # c THEN m
           ELSE CASE r.node[lvl.node] = "Succeeded" -> Feed(m, NodeSucceeded(cs, p, lvl.node))
                  [] r.node[lvl.node] = "Failed"    -> Feed(m, LevelFailed(cs, p, lvl.node))
                  [] OTHER -> m

(***************************************************************************)
(* Session replies.  A pending fork takes any SessionCreated, whoever      *)
(* asked for the session.                                                  *)
(***************************************************************************)
ForkSessionCreated_KeepsMessages(m, whose) ==
  LET p == m.fork.child
  IN  [m EXCEPT !.sessions = @ \cup {Origin[p]}, !.copy[Origin[p]] = whose]
\* forkSessionCreated: the origin's window shows the new core session.
ForkSessionCreated(m, whose) ==
  LET p == m.fork.child
  IN  [m EXCEPT !.sessions = @ \cup {Origin[p]}, !.copy[Origin[p]] = whose, !.after[p] = <<>>]

\* resumeSessionCreated
ResumeSessionCreated(m, whose) ==
  [m EXCEPT !.sessions = @ \cup {m.resuming}, !.resuming = None,
            !.copy[m.resuming] = IF whose = "resume" THEN @ ELSE "other"]

\* SessionCreated of a session asked for as `whose'; with neither a fork nor a
\* resume pending it gets a window of its own.
SessionArrives(m, whose) ==
  IF m.fork # None THEN ForkSessionCreated(m, IF whose = "fork" THEN "fork" ELSE "other")
  ELSE IF m.resuming # None THEN ResumeSessionCreated(m, whose) ELSE m

\* The same for a create: when it is taken, planCreating stays set.
CreateArrives(m) ==
  [SessionArrives(m, "create") EXCEPT !.wedged = @ \/ m.fork # None \/ m.resuming # None]

(***************************************************************************)
(* Scope of a re-run (impactScope, walkLevels, buildCascadeState).         *)
(***************************************************************************)
\* bindingInRun, for the parent's open run.
Binding(m, s) ==
  LET q == HostPlan(s)
      B == {n \in Node : m.run[q].conv[n] = s \/ m.run[q].last[n] = s}
  IN  IF q \in Windows(m) /\ B # {} THEN CHOOSE n \in B : \A k \in B : n <= k ELSE None

Levels(m, p) ==
  LET walk[q \in Plan] ==
        LET s == Origin[q]
        IN  IF s \notin m.sessions \/ ~Hosted(s) THEN <<>>
            ELSE <<[plan |-> HostPlan(s), node |-> Binding(m, s), conv |-> s]>>
                   \o walk[HostPlan(s)]
  IN  walk[p]

\* Something follows the plan's message in its open origin.
HasInsertion(m, p) == Origin[p] \in m.sessions /\ m.after[p] # <<>>

ImpactScope(m, p) == [root |-> p, levels |-> IF HasInsertion(m, p) THEN Levels(m, p) ELSE <<>>]

NeedsConfirm(m, p) == HasInsertion(m, p)

BuildCascade_LateSummary(m, scope) ==
  [root |-> scope.root, rootOld |-> None, phase |-> "WaitingPlan",
   plan |-> scope.root, summary |-> Summary(m, scope.root), levels |-> <<>>]
\* buildCascadeState: levels without a node in an open run are dropped.
BuildCascade(m, scope) ==
  LET ls   == scope.levels
      kept == Picked(ls, {i \in DOMAIN ls : ls[i].node # None /\ ls[i].plan \in Windows(m)})
  IN  [root |-> scope.root, rootOld |-> Summary(m, scope.root),
       levels |-> [i \in DOMAIN kept |->
                     [plan |-> kept[i].plan, node |-> kept[i].node, conv |-> kept[i].conv,
                      old |-> Summary(m, kept[i].plan)]],
       phase |-> "WaitingPlan", plan |-> scope.root, summary |-> Summary(m, scope.root)]

StartCascadeNow(m) ==
  IF m.preview = None THEN m
  ELSE Say([m EXCEPT !.cascade = BuildCascade(m, m.preview), !.preview = None], <<"PlanRunStartAt">>)

\* openNextOrStart: read the next queued ancestor, or start the root.
OpenNextOrStart(m) ==
  IF m.queue = <<>> THEN StartCascadeNow(m)
  ELSE [m EXCEPT !.reading = Head(m.queue), !.queue = Tail(@)]

(***************************************************************************)
(* The user.  Actions of the user and of the environment take place when   *)
(* the loop has handled the messages it sent itself.                       *)
(***************************************************************************)
\* The confirmation dialog covers the windows.
Click(op) ==
  /\ model.self = {} /\ (model.preview # None => op = "Cancel")
  /\ op \in Ops /\ clicks[op] < Budget[op]
  /\ clicks' = [clicks EXCEPT ![op] = @ + 1]

\* PlanRunStart: a re-run is confirmed first.
PlanRunStart(p) ==
  /\ Click("Run")
  /\ p \in Windows(model) /\ model.run[p].status \in Startable
  /\ LET m == [Raise(model, p) EXCEPT !.error = FALSE]
     IN  model' = IF NeedsConfirm(m, p) THEN [m EXCEPT !.preview = ImpactScope(m, p)]
                  ELSE Say(m, <<"PlanRunStartAt">>)

\* PlanCascadeConfirm: ancestors that are closed are queued to be opened.
PlanCascadeConfirm ==
  /\ model.self = {} /\ model.preview # None
  /\ LET ls   == model.preview.levels
         shut == Picked(ls, {i \in DOMAIN ls : ls[i].plan \notin Windows(model)})
     IN  model' = OpenNextOrStart(
                    [model EXCEPT !.error = FALSE,
                                  !.queue = [i \in DOMAIN shut |-> shut[i].plan]])
  /\ UNCHANGED clicks

PlanCascadeCancel ==
  /\ Click("Cancel") /\ model.preview # None
  /\ model' = [model EXCEPT !.preview = None, !.cascade = None, !.queue = <<>>,
                            !.fork = None, !.error = FALSE]

PlanRunStop(p) ==
  /\ Click("Stop")
  /\ p \in Windows(model) /\ model.run[p].status = "InProgress"
  /\ model' = RunStepIn(Raise(model, p), p, StopRun(model.run[p]))

\* PlanRunRestart, of a plan that waits for no sub-plan.
PlanRunRestart(p) ==
  /\ Click("Restart")
  /\ p \in Windows(model) /\ model.run[p].status \in {"Stopped", "FailedRun", "Paused"}
  /\ \A n \in Node : model.run[p].node[n] # "WaitingForPlan"
  /\ model' = RunStepIn([model EXCEPT !.error = FALSE], p, RestartRun(model.run[p]))

\* The link of a plan in its origin session: read the plan and its run.
PlanStatusOpen(p) ==
  /\ Click("Open")
  /\ p \notin Windows(model) /\ Origin[p] \in model.sessions
  /\ model' = [model EXCEPT !.reading = p]

PlanClose(p) ==
  /\ Click("Close")
  /\ p \in Windows(model)
  /\ model' = PlanClosed(model, {p})

\* CloseSession by the user: a node still bound to it learns of it.
CloseSession(s) ==
  /\ Click("CloseSession")
  /\ s \in model.sessions
  /\ LET m == SessionsClosed(model, {s})
     IN  model' = IF BoundIn(m, s) = {} THEN m ELSE Say(m, <<"Disconnected", s>>)

\* PlanOpenNodeSession: resume a node's closed session.
PlanOpenNodeSession(s) ==
  /\ Click("OpenSession")
  /\ s \notin model.sessions /\ Hosted(s) /\ HostPlan(s) \in Windows(model)
  /\ LET r == model.run[HostPlan(s)]
         n == HostNode(s)
     IN  r.conv[n] = s \/ (r.conv[n] = None /\ r.last[n] = s)
  /\ model' = [model EXCEPT !.resuming = s,
                            !.requests = Append(@, [kind |-> "resume"])]

\* CreateSessionWith, with the create slot free.
UserCreate ==
  /\ Click("Create") /\ ~model.wedged
  /\ model' = [model EXCEPT !.requests = Append(@, [kind |-> "create"])]

\* The user writes to an origin session (not while its plan runs).
SendPrompt(p) ==
  /\ Click("Chat")
  /\ Origin[p] \in model.sessions /\ model.run[p].status # "InProgress"
  /\ model' = [model EXCEPT !.after[p] = Append(@, None)]

User ==
  \/ \E p \in Plan : \/ PlanRunStart(p) \/ PlanRunStop(p) \/ PlanRunRestart(p)
                     \/ PlanStatusOpen(p) \/ PlanClose(p) \/ SendPrompt(p)
  \/ \E s \in Session : CloseSession(s) \/ PlanOpenNodeSession(s)
  \/ PlanCascadeConfirm \/ PlanCascadeCancel \/ UserCreate

(***************************************************************************)
(* The backend, the nodes and the loop itself.                             *)
(***************************************************************************)
Arrives(m) == model.self = {} /\ model' = m /\ UNCHANGED clicks

\* A sub-plan starts by itself (PlanAutoRunStart).
PlanAutoRunStart(p) ==
  /\ Hosted(Origin[p]) /\ p \in Windows(model) /\ model.run[p].status = "NotStarted"
  /\ Arrives(RunStepIn([model EXCEPT !.error = FALSE], p, StartRun(model.run[p])))

\* The create of a Starting node is answered.
SessionCreated(p, n) ==
  /\ p \in Windows(model) /\ model.run[p].node[n] = "Starting" /\ ~model.wedged
  /\ Arrives(IF model.fork # None \/ model.resuming # None THEN CreateArrives(model)
             ELSE RunStepIn(model, p, SessionCreatedFor(model.run[p], n, FreshConv[n])))

\* A running node answers; a delegating one needs its session's window.
TaskDoneFrame(p, n, a) ==
  LET c == model.run[p].conv[n]
      m == [model EXCEPT !.text[p][n] = a]
      r == TaskDone(m.run[p], n, c, FALSE)
  IN  /\ p \in Windows(model) /\ model.run[p].node[n] = "Running"
      /\ c \in Session => c \in model.sessions
      /\ Arrives(AfterTaskDone(RunStepIn(m, p, r), p, c, FinishStep(m.run[p], r).run))

ErrorFrame(p, n) ==
  /\ p \in Windows(model) /\ model.run[p].node[n] = "Running"
  /\ Arrives(RunStepIn(model, p, SessionError(model.run[p], n)))

Answered(i, m) == [m EXCEPT !.requests = RemoveAt(@, i)]

\* PlanCascadeForkResult
PlanCascadeForkResult(i) ==
  /\ model.requests[i].kind = "fork"
  /\ LET m  == Answered(i, model)
         m1 == SessionArrives(m, IF m.fork # None /\ m.fork.child = model.requests[i].plan
                                   THEN "fork" ELSE "another fork")
     IN  \/ Arrives(IF m.cascade = None THEN m1 ELSE Feed(m1, InstanceReady(m.cascade)))
         \/ Arrives([(IF m.cascade = None THEN m ELSE Feed(m, InstanceFailed(m.cascade)))
                       EXCEPT !.fork = None, !.queue = <<>>])

SessionReply(i) ==
  \/ model.requests[i].kind = "create" /\ Arrives(CreateArrives(Answered(i, model)))
  \/ model.requests[i].kind = "resume" /\ Arrives(SessionArrives(Answered(i, model), "resume"))

\* The plan file and its run.json have been read (handlePlanReadTarget): the
\* window opens on top; queued ancestors follow, if any are left.
PlanReadResult ==
  /\ model.reading # None
  /\ LET m == [Raise(model, model.reading) EXCEPT !.reading = None]
     IN  Arrives(IF m.queue = <<>> THEN m ELSE OpenNextOrStart(m))

\* Messages of one update come in any order (Cmd.batch promises none).
HandleSelf(msg) ==
  LET m == [model EXCEPT !.self = @ \ {msg}]
      bound == BoundIn(m, msg[2])
      p == CHOOSE q \in bound : TRUE
      n == NodeBySessionId(m.run[p], msg[2])
  IN  /\ UNCHANGED clicks
      /\ \/ msg[1] = "PlanClose" /\ model' = PlanClosed(m, {msg[2]})
         \/ msg[1] = "PlanRunStartAt"
            /\ model' = IF m.order = <<>> THEN m
                        ELSE RunStepIn(m, Last(m.order), StartRun(m.run[Last(m.order)]))
         \/ msg[1] = "Resume"
            /\ model' = IF bound = {} THEN m
                        ELSE RunStepIn(m, p, ResumeDelegatedNode(m.run[p], n))
         \/ msg[1] = "Disconnected"
            /\ model' = IF bound = {} THEN m
                        ELSE RunStepIn(m, p, SessionDisconnected(m.run[p], n))

Next ==
  \/ User
  \/ \E p \in Plan : PlanAutoRunStart(p)
  \/ \E p \in Plan, n \in Node :
       SessionCreated(p, n) \/ ErrorFrame(p, n) \/ \E a \in Answer : TaskDoneFrame(p, n, a)
  \/ \E i \in DOMAIN model.requests : PlanCascadeForkResult(i) \/ SessionReply(i)
  \/ PlanReadResult
  \/ \E msg \in model.self : HandleSelf(msg)

Spec == Init /\ [][Next]_vars

\* The backend answers every fork, and the loop handles its own messages.
FairSpec ==
  /\ Spec
  /\ WF_vars(\E msg \in model.self : HandleSelf(msg))
  /\ WF_vars(\E i \in DOMAIN model.requests : PlanCascadeForkResult(i))

(***************************************************************************)
(* Properties.                                                             *)
(***************************************************************************)
\* The shape of the model.
TypeOK == model \in Model /\ clicks \in [Ops -> Nat]

\* The loop has handled what it sent itself.
Idle == model.self = {}
Requested(kind) == {i \in DOMAIN model.requests : model.requests[i].kind = kind}

\* A plan's result replaces the one before: its origin session never shows
\* two (Plan/Cascade.elm: "never appended past later plans").
OneResult == \A p \in Plan : Cardinality({i \in DOMAIN model.after[p] : model.after[p][i] # None}) <= 1

\* A fork that fails leaves every ancestor as it was: a node goes back from
\* Succeeded to WaitingForPlan only as the fork is adopted, and a conversation
\* is cut only while a fork is awaited and by nothing but a session's arrival.
TakenBackByFork ==
  \A p \in Plan :
    /\ (\E n \in Node : model.run[p].node[n] = "Succeeded" /\ model'.run[p].node[n] = "WaitingForPlan")
         => model.fork # None /\ model'.fork = None /\ model'.cascade # None
    /\ Len(model'.after[p]) < Len(model.after[p])
         => model.fork # None /\ (model'.fork = None => model'.cascade # None)
UntouchedUntilForked == [][TakenBackByFork]_vars

\* The gate: a fork is only asked for when the result differs from the one
\* the conversation shows.
ForkOnlyOnChange ==
  model.fork # None /\ model.cascade # None =>
    \A i \in DOMAIN model.after[model.fork.child] :
      model.after[model.fork.child][i] # model.cascade.summary

\* The fork lands in the directory, and gets the configuration, of the node
\* whose session it replaces.
ForkReplacesNode == model.fork # None => model.fork.level = Host[Origin[model.fork.child]]

\* A sub-plan that completed in its open origin has woken its node.
SubPlanResumes ==
  Idle /\ model.fork = None /\ ~model.error =>
    \A p \in Plan : Origin[p] \in model.sessions /\ model.run[p].status = "Completed" =>
      \A q \in BoundIn(model, Origin[p]) :
        model.run[q].node[NodeBySessionId(model.run[q], Origin[p])] # "WaitingForPlan"

\* A plan window outlives neither its session nor a plan above it.
Owned(m) ==
  \A p \in Windows(m) :
    Origin[p] \in m.sessions /\ (Hosted(Origin[p]) => HostPlan(Origin[p]) \in Windows(m))
WindowsOwned == Idle => Owned(model)

\* A completed plan's result is in its origin session, if that is open, even
\* when the plan completed again and the session was cut for it, unless the
\* cascade reported an error.
ResultShown ==
  Idle /\ model.fork = None /\ ~model.error =>
    \A p \in Plan :
      Origin[p] \in model.sessions /\ model.run[p].status = "Completed" =>
        Summary(model, p) \in Range(model.after[p])

\* The result of a plan is kept: it is shown once, it is the last one, and a
\* re-run takes nothing back before its fork has succeeded.
ResultKept == [](OneResult /\ ResultShown) /\ UntouchedUntilForked

\* A fork keeps the plan it was asked for: it is asked for only when the result
\* has changed, the right node's session is replaced, and the sub-plan that
\* completes wakes its node.
ForkKeepsPlan == ForkOnlyOnChange /\ ForkReplacesNode /\ SubPlanResumes

\* A pending fork is settled: adopted or given up.
ForkSettles == (model.fork # None) ~> (model.fork = None)

(***************************************************************************)
(* What comments and docs say, and the code does not do.                   *)
(***************************************************************************)
\* "the cascade must END, not linger"
NoLinger ==
  Idle /\ model.cascade # None /\ model.cascade.phase = "WaitingNode" => model.cascade.levels # <<>>

\* "when a run transitions INTO Completed, feed the results back to the origin
\* session": here, of a first run nothing follows.
CompletionFedBack ==
  [][\A p \in Plan :
       /\ model.run[p].status # "Completed" /\ model'.run[p].status = "Completed"
       /\ model.after[p] = <<>> /\ Origin[p] \in model.sessions
       => model'.after[p] # <<>>]_vars

\* "the head plan's downstream branch is re-running; its completion propagates
\* to the next level": as long as no task of the branch fails, it runs.
BranchRuns ==
  Idle /\ model.cascade # None /\ model.cascade.phase = "BranchRunning" =>
    model.run[Head(model.cascade.levels).plan].status \in {"InProgress", "FailedRun"}

\* "A SUCCESS is registered and adopted in ONE update"
ForkAdopted == model.fork # None => Requested("fork") # {}

\* "failure or Stop of a level (chain stops ...)"
FailureEnds ==
  Idle /\ model.cascade # None /\ model.cascade.phase = "WaitingNode" /\ model.cascade.levels # <<>> =>
    LET l == Head(model.cascade.levels) IN model.run[l.plan].node[l.node] # "Failed"

\* "a user-created session racing the fork can never be mistaken for it"
NeverMistaken == \A s \in Session : model.copy[s] # "other"

\* "the root run starts when the queue drains"
DrainedQueueStarts ==
  [][/\ model.reading # None /\ model'.reading = None
     /\ model.preview # None /\ model.queue = <<>>
     /\ \E i \in DOMAIN model.preview.levels : model.preview.levels[i].plan = model.reading
     => model'.cascade # None]_vars

\* "arm the cascade and fire the root's Run"
ConfirmStartsRoot ==
  <<"PlanRunStartAt">> \in model.self /\ model.cascade # None => Last(model.order) = model.cascade.root

\* "Cancel = nothing happens"
CancelDoesNothing ==
  [][model.preview # None /\ clicks'["Cancel"] # clicks["Cancel"] => model'.cascade = model.cascade]_vars
=============================================================================
