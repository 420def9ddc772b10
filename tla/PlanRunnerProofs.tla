-------------------------- MODULE PlanRunnerProofs --------------------------
(***************************************************************************)
(* What every behaviour of PlanRunner satisfies, whatever the plan, the    *)
(* cap, the retry limits and the user's clicks.                            *)
(***************************************************************************)
EXTENDS PlanRunner, RunnerStepProofs

(***************************************************************************)
(* The create queue.                                                       *)
(***************************************************************************)
LEMMA OrderedElements ==
  ASSUME NEW S \in SUBSET Node
  PROVE  /\ Ordered(S) \in Seq(S)
         /\ Len(Ordered(S)) = Cardinality(S)
         /\ \A n \in S : \E i \in DOMAIN Ordered(S) : Ordered(S)[i] = n
         /\ S # {} => Ordered(S) # <<>>
PROOF
<1> DEFINE card == Cardinality(S)
<1>1. S \in SUBSET Nat /\ IsFiniteSet(S)
  BY PlanAssumption, FS_Subset
<1>2. card \in Nat
  BY <1>1, FS_CardinalityType
<1>3. \A n \in S : Rank(S, n) \in 0..(card - 1)
  BY <1>1, Ranks
<1>4. \A k \in 0..(card - 1) : \E n \in S : Rank(S, n) = k
  BY <1>1, Ranks
<1>5. \A n, m \in S : Rank(S, n) = Rank(S, m) => n = m
  <2> TAKE n, m \in S
  <2> HAVE Rank(S, n) = Rank(S, m)
  <2>1. \A a, b \in S : a < b => Rank(S, a) < Rank(S, b)
    BY <1>1, Ranks
  <2>2. n \in Nat /\ m \in Nat /\ Rank(S, n) \in Nat /\ Rank(S, m) \in Nat
    BY <1>1, <1>2, <1>3
  <2> QED BY <2>1, <2>2
<1>6. \A i \in 1..card : Ordered(S)[i] \in S /\ Rank(S, Ordered(S)[i]) = i - 1
  <2> TAKE i \in 1..card
  <2>1. i - 1 \in 0..(card - 1)
    BY <1>2
  <2>2. \E n \in S : Cardinality({m \in S : m < n}) = i - 1
    BY <1>4, <2>1 DEF Rank
  <2> QED BY <2>2 DEF Ordered, Rank
<1>7. Ordered(S) = [i \in 1..card |-> Ordered(S)[i]]
  BY DEF Ordered
<1>8. Ordered(S) \in Seq(S) /\ Len(Ordered(S)) = card /\ DOMAIN Ordered(S) = 1..card
  <2> DEFINE o == Ordered(S)
  <2>1. o = [i \in 1..card |-> o[i]] /\ \A i \in 1..card : o[i] \in S
    BY <1>6, <1>7
  <2> HIDE DEF o, card
  <2>2. o \in [1..card -> S]
    BY <2>1
  <2>3. o \in Seq(S) /\ Len(o) = card /\ DOMAIN o = 1..card
    BY <1>2, <2>2
  <2> QED BY <2>3 DEF o, card
<1>9. \A n \in S : \E i \in DOMAIN Ordered(S) : Ordered(S)[i] = n
  <2> TAKE n \in S
  <2>1. Rank(S, n) + 1 \in 1..card /\ (Rank(S, n) + 1) - 1 = Rank(S, n)
    BY <1>2, <1>3
  <2>2. Ordered(S)[Rank(S, n) + 1] = n
    BY <1>5, <1>6, <2>1
  <2> QED BY <1>8, <2>1, <2>2
<1>10. S # {} => Ordered(S) # <<>>
  BY <1>9
<1> QED BY <1>8, <1>9, <1>10

\* n's create is in flight or queued.
Awaits(c, n) ==
  c.creating = n \/ \E i \in DOMAIN c.queue : c.queue[i] = n

CreateState == [creating : Node \cup {None}, queue : Seq(Node)]

LEMMA CreatesFacts ==
  ASSUME NEW creating \in Node \cup {None}, NEW queue \in Seq(Node), NEW S \in SUBSET Node
  PROVE  LET c == Creates(creating, queue, S)
         IN  /\ c \in CreateState
             /\ \A n \in S : Awaits(c, n)
             /\ \A n \in Node : Awaits([creating |-> creating, queue |-> queue], n)
                                  => Awaits(c, n)
             /\ (queue # <<>> => creating # None) => (c.queue # <<>> => c.creating # None)
PROOF
<1> DEFINE o == Ordered(S)
           c == Creates(creating, queue, S)
<1>1. /\ o \in Seq(Node) /\ (\A n \in S : \E i \in DOMAIN o : o[i] = n)
      /\ (S # {} => o # <<>>) /\ (S = {} => o = <<>>)
  <2>1. o \in Seq(S) /\ Len(o) = Cardinality(S)
    BY OrderedElements
  <2>2. o \in Seq(Node)
    <3>1. o \in [1..Len(o) -> S] /\ Len(o) \in Nat
      BY <2>1
    <3>2. o \in [1..Len(o) -> Node]
      BY <3>1
    <3> QED BY <3>1, <3>2
  <2>3. S = {} => o = <<>>
    BY <2>1, FS_EmptySet
  <2> QED BY <2>2, <2>3, OrderedElements
<1> HIDE DEF o
<1>2. CASE creating = None /\ S # {}
  <2> DEFINE t == Tail(o)
             q == queue \o t
  <2>1. c.creating = Head(o) /\ c.queue = q /\ c = [creating |-> Head(o), queue |-> q]
    BY <1>2 DEF Creates, o
  <2>2. o # <<>>
    BY <1>1, <1>2
  <2>3. Head(o) \in Node /\ t \in Seq(Node) /\ Head(o) = o[1]
    BY <1>1, <2>2
  <2>4. \A i \in DOMAIN o : i = 1 \/ (i - 1 \in DOMAIN t /\ t[i - 1] = o[i])
    BY <1>1, <2>2
  <2> HIDE DEF t
  <2>5. \A i \in DOMAIN t : Len(queue) + i \in DOMAIN q /\ q[Len(queue) + i] = t[i]
    BY <2>3
  <2>6. \A i \in DOMAIN queue : i \in DOMAIN q /\ q[i] = queue[i]
    BY <2>3
  <2>7. q \in Seq(Node)
    BY <2>3
  <2> HIDE DEF q, c
  <2>8. c \in CreateState
    BY <2>1, <2>3, <2>7 DEF CreateState
  <2>9. \A n \in S : Awaits(c, n)
    <3> TAKE n \in S
    <3>1. PICK i \in DOMAIN o : o[i] = n
      BY <1>1
    <3>2. CASE i = 1
      BY <2>1, <2>3, <3>1, <3>2 DEF Awaits
    <3>3. CASE i # 1
      BY <2>1, <2>4, <2>5, <3>1, <3>3 DEF Awaits
    <3> QED BY <3>2, <3>3
  <2>10. \A n \in Node : Awaits([creating |-> creating, queue |-> queue], n) => Awaits(c, n)
    BY <1>2, <2>1, <2>6, NoneIsNoNode DEF Awaits
  <2>11. c.creating # None
    BY <2>1, <2>3, NoneIsNoNode
  <2> QED BY <2>8, <2>9, <2>10, <2>11 DEF c
<1>3. CASE ~ (creating = None /\ S # {})
  <2> DEFINE q == queue \o o
  <2>1. c.creating = creating /\ c.queue = q /\ c = [creating |-> creating, queue |-> q]
    BY <1>3 DEF Creates, o
  <2>2. \A i \in DOMAIN o : Len(queue) + i \in DOMAIN q /\ q[Len(queue) + i] = o[i]
    BY <1>1
  <2>3. \A i \in DOMAIN queue : i \in DOMAIN q /\ q[i] = queue[i]
    BY <1>1
  <2>4. q \in Seq(Node) /\ (o = <<>> => q = queue)
    BY <1>1
  <2> HIDE DEF q, c
  <2>5. c \in CreateState
    BY <2>1, <2>4 DEF CreateState
  <2>6. \A n \in S : Awaits(c, n)
    BY <1>1, <2>1, <2>2 DEF Awaits
  <2>7. \A n \in Node : Awaits([creating |-> creating, queue |-> queue], n) => Awaits(c, n)
    BY <2>1, <2>3 DEF Awaits
  <2>8. (queue # <<>> => creating # None) => (c.queue # <<>> => c.creating # None)
    BY <1>1, <1>3, <2>1, <2>4
  <2> QED BY <2>5, <2>6, <2>7, <2>8 DEF c
<1> QED BY <1>2, <1>3

LEMMA StartNextCreateFacts ==
  ASSUME NEW c \in CreateState
  PROVE  /\ StartNextCreate(c) \in CreateState
         /\ \A n \in Node : Awaits(c, n) => Awaits(StartNextCreate(c), n)
         /\ StartNextCreate(c).queue # <<>> => StartNextCreate(c).creating # None
PROOF
<1>1. c.creating \in Node \cup {None} /\ c.queue \in Seq(Node)
  BY DEF CreateState
<1>2. CASE c.creating = None /\ c.queue # <<>>
  <2> DEFINE q == c.queue
             t == Tail(q)
             d == StartNextCreate(c)
  <2>1. d.creating = Head(q) /\ d.queue = t /\ d = [creating |-> Head(q), queue |-> t]
    BY <1>2 DEF StartNextCreate
  <2>2. Head(q) \in Node /\ t \in Seq(Node) /\ Head(q) = q[1]
    BY <1>1, <1>2
  <2>3. \A i \in DOMAIN q : i = 1 \/ (i - 1 \in DOMAIN t /\ t[i - 1] = q[i])
    BY <1>1, <1>2
  <2> HIDE DEF t, d
  <2>4. \A n \in Node : Awaits(c, n) => Awaits(d, n)
    <3> SUFFICES ASSUME NEW n \in Node, NEW i \in DOMAIN q, q[i] = n
                 PROVE  Awaits(d, n)
      BY <1>2, NoneIsNoNode DEF Awaits
    <3>1. CASE i = 1
      BY <2>1, <2>2, <3>1 DEF Awaits
    <3>2. CASE i # 1
      BY <2>1, <2>3, <3>2 DEF Awaits
    <3> QED BY <3>1, <3>2
  <2>5. d \in CreateState /\ d.creating # None
    BY <2>1, <2>2, NoneIsNoNode DEF CreateState
  <2> QED BY <2>4, <2>5 DEF d
<1>3. CASE ~ (c.creating = None /\ c.queue # <<>>)
  BY <1>3 DEF StartNextCreate
<1> QED BY <1>2, <1>3

(***************************************************************************)
(* Type correctness.                                                       *)
(***************************************************************************)
LEMMA EnactType ==
  ASSUME NEW b, NEW r \in Run, NEW open \in SUBSET Conv, NEW live \in SUBSET open,
         NEW armed \in [Node -> Nat], Enact(FinishStep(b, r), open, live, armed)
  PROVE  /\ run' \in Run
         /\ windows' \subseteq Conv /\ alive' \subseteq windows'
         /\ timers' \in [Node -> Nat]
PROOF
<1> DEFINE f == FinishStep(b, r)
<1>1. f.run \in Run /\ f.close \subseteq Conv
  BY FinishStepType
<1>2. /\ run' = f.run
      /\ windows' = open \ f.close
      /\ alive' = live \ f.close
      /\ timers' = [n \in Node |-> IF n \in f.retry THEN armed[n] + 1 ELSE armed[n]]
  BY DEF Enact
<1> QED BY <1>1, <1>2

LEMMA CreatesType ==
  ASSUME NEW b, NEW r \in Run, NEW creating \in Node \cup {None}, NEW queue \in Seq(Node)
  PROVE  Creates(creating, queue, FinishStep(b, r).create) \in CreateState
BY FinishStepType, CreatesFacts

LEMMA SetCreatesType ==
  ASSUME NEW c \in CreateState, SetCreates(c)
  PROVE  planCreating' \in Node \cup {None} /\ planCreateQueue' \in Seq(Node)
BY DEF SetCreates, CreateState

\* An action that enacts one step of the runner and updates the queue.
LEMMA EnactCreatesType ==
  ASSUME TypeOK, NEW b, NEW r \in Run, NEW open \in SUBSET Conv, NEW live \in SUBSET open,
         NEW armed \in [Node -> Nat], Enact(FinishStep(b, r), open, live, armed),
         SetCreates(Creates(planCreating, planCreateQueue, FinishStep(b, r).create)),
         used' \in SUBSET Conv, loadRead' \in Run \cup {None}, clicks' \in Nat
  PROVE  TypeOK'
PROOF
<1>1. planCreating' \in Node \cup {None} /\ planCreateQueue' \in Seq(Node)
  BY CreatesType, SetCreatesType DEF TypeOK
<1> QED BY <1>1, EnactType DEF TypeOK

LEMMA RunStepType ==
  ASSUME TypeOK, NEW r \in Run, RunStepIn(r),
         used' \in SUBSET Conv, loadRead' \in Run \cup {None}, clicks' \in Nat
  PROVE  TypeOK'
BY EnactCreatesType DEF RunStepIn, TypeOK

LEMMA TypeStep ==
  ASSUME TypeOK, [Next]_vars
  PROVE  TypeOK'
PROOF
<1> USE DEF Click
<1>0. /\ run \in Run /\ used \subseteq Conv /\ loadRead \in Run \cup {None} /\ clicks \in Nat
      /\ windows \subseteq Conv /\ alive \subseteq windows /\ timers \in [Node -> Nat]
      /\ clicks + 1 \in Nat
  BY DEF TypeOK
<1>1. CASE PlanRunStart
  BY <1>0, <1>1, HandlerTypes, RunStepType DEF PlanRunStart
<1>2. CASE PlanResume
  BY <1>0, <1>2 DEF PlanResume, TypeOK
<1>3. CASE PlanReadResult
  <2> DEFINE b == ResumeState(loadRead)
  <2>1. loadRead \in Run /\ b \in Run /\ ContinueRun(b) \in Run
    BY <1>0, <1>3, HandlerTypes DEF PlanReadResult
  <2>2. /\ Enact(FinishStep(b, ContinueRun(b)), windows, alive, timers)
        /\ SetCreates(Creates(planCreating, planCreateQueue, FinishStep(b, ContinueRun(b)).create))
        /\ loadRead' = None /\ used' = used /\ clicks' = clicks
    BY <1>3 DEF PlanReadResult
  <2> HIDE DEF b
  <2> QED BY <1>0, <2>1, <2>2, EnactCreatesType
<1>4. CASE PlanRunPause
  BY <1>0, <1>4, HandlerTypes, RunStepType DEF PlanRunPause
<1>5. CASE PlanRunResume
  BY <1>0, <1>5, HandlerTypes, RunStepType DEF PlanRunResume
<1>6. CASE PlanRunStop
  <2>1. /\ StopRun(run) \in Run /\ Enact(FinishStep(run, StopRun(run)), windows, alive, timers)
        /\ planCreateQueue' = <<>> /\ planCreating' = planCreating
        /\ used' = used /\ loadRead' = loadRead /\ clicks' = clicks + 1
    BY <1>0, <1>6, HandlerTypes DEF PlanRunStop
  <2>2. planCreateQueue' \in Seq(Node)
    BY <2>1
  <2>3. /\ run' \in Run /\ windows' \subseteq Conv /\ alive' \subseteq windows'
        /\ timers' \in [Node -> Nat]
    BY <1>0, <2>1, EnactType
  <2> QED BY <1>0, <2>1, <2>2, <2>3 DEF TypeOK
<1>7. CASE PlanRunRestart
  BY <1>0, <1>7, HandlerTypes, RunStepType DEF PlanRunRestart
<1>8. ASSUME NEW n \in Node, PlanRunRetryNode(n) PROVE TypeOK'
  BY <1>0, <1>8, NodeHandlerTypes, RunStepType DEF PlanRunRetryNode
<1>9. ASSUME NEW c \in Conv, CloseSession(c) PROVE TypeOK'
  <2> DEFINE r == IF Bound(run, c) = {} THEN run
                  ELSE SessionDisconnected(run, NodeBySessionId(run, c))
  <2>1. r \in Run
    BY <1>0, BoundNode, NodeHandlerTypes
  <2>2. /\ Enact(FinishStep(run, r), windows \ {c}, alive \ {c}, timers)
        /\ SetCreates(Creates(planCreating, planCreateQueue, FinishStep(run, r).create))
        /\ used' = used /\ loadRead' = loadRead /\ clicks' = clicks + 1
    BY <1>9 DEF CloseSession
  <2> HIDE DEF r
  <2> QED BY <1>0, <2>1, <2>2, EnactCreatesType
<1>10. ASSUME NEW n \in Node, PlanOpenNodeSession(n) PROVE TypeOK'
  <2> DEFINE c == IF run.conv[n] # None THEN run.conv[n] ELSE run.last[n]
  <2>1. /\ c # None /\ windows' = windows \cup {c} /\ alive' = alive \cup {c}
        /\ UNCHANGED <<run, planCreating, planCreateQueue, used, timers, loadRead>>
        /\ clicks' = clicks + 1
    BY <1>10 DEF PlanOpenNodeSession, Click
  <2>2. c \in Conv
    BY <1>0, <2>1 DEF Run, MaybeConv
  <2> HIDE DEF c
  <2> QED BY <1>0, <2>1, <2>2 DEF TypeOK
<1>11. ASSUME NEW n \in Node, CascadeResumeNode(n) PROVE TypeOK'
  <2> DEFINE c == run.last[n]
             b == [run EXCEPT !.node[n] = "WaitingForPlan", !.conv[n] = c, !.status = "InProgress"]
             r == ResumeDelegatedNode(b, n)
  <2>1. c \in Conv
    BY <1>0, <1>11 DEF CascadeResumeNode, Run, MaybeConv
  <2>2. b \in Run
    BY <1>0, <2>1 DEF Run, NodeStatus, RunStatus, MaybeConv
  <2>3. /\ Enact(FinishStep(b, r), windows \cup {c}, alive \cup {c}, timers)
        /\ SetCreates(Creates(planCreating, planCreateQueue, FinishStep(b, r).create))
        /\ used' = used /\ loadRead' = loadRead /\ clicks' = clicks + 1
    BY <1>11 DEF CascadeResumeNode
  <2> HIDE DEF b, c
  <2>4. r \in Run
    BY <2>2, NodeHandlerTypes
  <2> HIDE DEF r
  <2> QED BY <1>0, <2>1, <2>3, <2>4, EnactCreatesType
<1>12. ASSUME NEW n \in Node, CascadeBranchRerun(n) PROVE TypeOK'
  BY <1>0, <1>12, NodeHandlerTypes, RunStepType DEF CascadeBranchRerun
<1>13. ASSUME NEW c \in Conv, PlanBindSession(c) PROVE TypeOK'
  <2> DEFINE n   == planCreating
             r   == SessionCreatedFor(run, n, c)
             f   == FinishStep(run, r)
             new == IF f.run.node[n] = "Running" /\ f.run.conv[n] = c THEN {c} ELSE {}
             d   == Creates(None, planCreateQueue, f.create)
  <2>1. n \in Node
    BY <1>13 DEF PlanBindSession, TypeOK
  <2>2. r \in Run
    BY <1>0, <2>1, NodeHandlerTypes
  <2>3. /\ Enact(f, windows \cup new, alive \cup new, timers)
        /\ SetCreates(StartNextCreate(d))
        /\ used' = used \cup {c} /\ loadRead' = loadRead /\ clicks' = clicks
    BY <1>13 DEF PlanBindSession
  <2>4. new \in SUBSET Conv
    OBVIOUS
  <2> HIDE DEF new, r
  <2>5. d \in CreateState
    BY <2>2, CreatesType DEF TypeOK
  <2> HIDE DEF d
  <2>6. planCreating' \in Node \cup {None} /\ planCreateQueue' \in Seq(Node)
    BY <2>3, <2>5, StartNextCreateFacts, SetCreatesType
  <2>7. /\ run' \in Run /\ windows' \subseteq Conv /\ alive' \subseteq windows'
        /\ timers' \in [Node -> Nat]
    BY <1>0, <2>2, <2>3, <2>4, EnactType
  <2> QED BY <1>0, <2>3, <2>6, <2>7 DEF TypeOK
<1>14. CASE SessionCreateError
  <2> DEFINE r == SessionCreateFailed(run, planCreating)
             f == FinishStep(run, r)
             d == Creates(None, planCreateQueue, f.create)
  <2>1. planCreating \in Node
    BY <1>14 DEF SessionCreateError, TypeOK
  <2>2. r \in Run
    BY <1>0, <2>1, NodeHandlerTypes
  <2>3. /\ Enact(f, windows, alive, timers)
        /\ SetCreates(StartNextCreate(d))
        /\ used' = used /\ loadRead' = loadRead /\ clicks' = clicks
    BY <1>14 DEF SessionCreateError
  <2> HIDE DEF r
  <2>4. d \in CreateState
    BY <2>2, CreatesType DEF TypeOK
  <2> HIDE DEF d
  <2>5. planCreating' \in Node \cup {None} /\ planCreateQueue' \in Seq(Node)
    BY <2>3, <2>4, StartNextCreateFacts, SetCreatesType
  <2>6. /\ run' \in Run /\ windows' \subseteq Conv /\ alive' \subseteq windows'
        /\ timers' \in [Node -> Nat]
    BY <1>0, <2>2, <2>3, EnactType
  <2> QED BY <1>0, <2>3, <2>5, <2>6 DEF TypeOK
<1>15. ASSUME NEW c \in Conv, NEW d \in BOOLEAN, TaskDoneFrame(c, d) PROVE TypeOK'
  <2>1. TaskDone(run, NodeBySessionId(run, c), c, d) \in Run
    BY <1>0, <1>15, BoundNode, NodeHandlerTypes DEF TaskDoneFrame, Routed
  <2> QED BY <1>0, <1>15, <2>1, RunStepType DEF TaskDoneFrame
<1>16. ASSUME NEW c \in Conv, ErrorFrame(c) PROVE TypeOK'
  <2>1. SessionError(run, NodeBySessionId(run, c)) \in Run
    BY <1>0, <1>16, BoundNode, NodeHandlerTypes DEF ErrorFrame, Routed
  <2> QED BY <1>0, <1>16, <2>1, RunStepType DEF ErrorFrame
<1>17. ASSUME NEW c \in Conv, DisconnectFrame(c) PROVE TypeOK'
  <2> DEFINE r == IF Bound(run, c) = {} THEN run
                  ELSE SessionDisconnected(run, NodeBySessionId(run, c))
  <2>1. r \in Run
    BY <1>0, BoundNode, NodeHandlerTypes
  <2>2. /\ Enact(FinishStep(run, r), windows, alive \ {c}, timers)
        /\ SetCreates(Creates(planCreating, planCreateQueue, FinishStep(run, r).create))
        /\ used' = used /\ loadRead' = loadRead /\ clicks' = clicks
    BY <1>17 DEF DisconnectFrame
  <2> HIDE DEF r
  <2> QED BY <1>0, <2>1, <2>2, EnactCreatesType
<1>18. ASSUME NEW c \in Conv, FeedbackFrame(c) PROVE TypeOK'
  <2>1. ResumeDelegatedNode(run, NodeBySessionId(run, c)) \in Run
    BY <1>0, <1>18, BoundNode, NodeHandlerTypes DEF FeedbackFrame
  <2> QED BY <1>0, <1>18, <2>1, RunStepType DEF FeedbackFrame
<1>19. ASSUME NEW n \in Node, PlanRunnerTick(n) PROVE TypeOK'
  <2> DEFINE armed == [timers EXCEPT ![n] = @ - 1]
  <2>1. timers[n] > 0
    BY <1>19 DEF PlanRunnerTick
  <2>2. armed \in [Node -> Nat]
    BY <1>0, <2>1
  <2>3. RetryTick(run, n) \in Run
    BY <1>0, NodeHandlerTypes
  <2>4. /\ Enact(FinishStep(run, RetryTick(run, n)), windows, alive, armed)
        /\ SetCreates(Creates(planCreating, planCreateQueue, FinishStep(run, RetryTick(run, n)).create))
        /\ used' = used /\ loadRead' = loadRead /\ clicks' = clicks
    BY <1>19 DEF PlanRunnerTick
  <2> HIDE DEF armed
  <2> QED BY <1>0, <2>2, <2>3, <2>4, EnactCreatesType
<1>20. CASE UNCHANGED vars
  BY <1>20 DEF vars, TypeOK
<1>21. CASE Next
  BY <1>1, <1>2, <1>3, <1>4, <1>5, <1>6, <1>7, <1>8, <1>9, <1>10, <1>11, <1>12, <1>13,
     <1>14, <1>15, <1>16, <1>17, <1>18, <1>19, <1>21
     DEF Next, User, CreateReply, SessionEnds
<1> QED BY <1>20, <1>21

\* Every variable keeps its shape in every behaviour (PlanRunner's TypeOK).
THEOREM TypeCorrect == Spec => []TypeOK
PROOF
<1>1. Init => TypeOK
  BY EmptyRunType DEF Init, TypeOK
<1>2. TypeOK /\ [Next]_vars => TypeOK'
  BY TypeStep
<1> QED BY <1>1, <1>2, PTL DEF Spec

(***************************************************************************)
(* The shape of a step: an event handled on a base run, then finishStep.   *)
(***************************************************************************)
CascadeBase(n) ==
  [run EXCEPT !.node[n] = "WaitingForPlan", !.conv[n] = run.last[n], !.status = "InProgress"]

Handled(b, r) ==
  \/ r \in {b, StartRun(b), PauseRun(b), ResumeRun(b), StopRun(b), RestartRun(b)}
  \/ \E n \in Node :
       \/ r \in {RetryNode(b, n), ResumeBranchFrom(b, n), SessionDisconnected(b, n),
                 SessionError(b, n), SessionCreateFailed(b, n), RetryTick(b, n),
                 ResumeDelegatedNode(b, n)}
       \/ \E c \in Conv : r = SessionCreatedFor(b, n, c)
       \/ \E c \in Conv, d \in BOOLEAN : r = TaskDone(b, n, c, d)

\* From the run itself, from the run a read returns, or from the one a
\* cascade prepares.
Event(b, r) ==
  \/ b = run /\ Handled(b, r)
  \/ /\ loadRead # None
     /\ b = ResumeState(loadRead)
     /\ r = ContinueRun(b)
  \/ \E n \in Node : b = CascadeBase(n) /\ r = ResumeDelegatedNode(b, n)

NewCreates(b, r) ==
  LET new == FinishStep(b, r).create
  IN  \/ SetCreates(Creates(planCreating, planCreateQueue, new))
      \/ /\ r = StopRun(run)
         /\ planCreating' = planCreating /\ planCreateQueue' = <<>>
      \/ /\ planCreating \in Node /\ r.node[planCreating] # "Starting"
         /\ SetCreates(StartNextCreate(Creates(None, planCreateQueue, new)))

Step(b, r) ==
  /\ Event(b, r)
  /\ run' = FinishStep(b, r).run
  /\ NewCreates(b, r)

Idle == UNCHANGED <<run, planCreating, planCreateQueue>>

\* A create reply leaves its node in another status than Starting.
LEMMA ReplyLeavesStarting ==
  ASSUME NEW n \in Node, run \in Run
  PROVE  /\ \A c \in Conv : SessionCreatedFor(run, n, c).node[n] # "Starting"
         /\ SessionCreateFailed(run, n).node[n] # "Starting"
PROOF
<1>1. ASSUME NEW c \in Conv PROVE SessionCreatedFor(run, n, c).node[n] # "Starting"
  BY DEF SessionCreatedFor, Binds, Run
<1>2. SessionCreateFailed(run, n).node[n] # "Starting"
  <2>1. run.node \in [Node -> NodeStatus]
    BY DEF Run
  <2>2. FailNode(run, n).node[n] \in {"Waiting", "Failed"}
    BY <2>1 DEF FailNode, Run
  <2> QED BY <2>2 DEF SessionCreateFailed
<1> QED BY <1>1, <1>2

LEMMA StepShape ==
  ASSUME TypeOK, [Next]_vars
  PROVE  Idle \/ \E b, r \in Run : Step(b, r)
PROOF
<1>0. run \in Run /\ loadRead \in Run \cup {None}
  BY DEF TypeOK
\* An action made of one RunStepIn.
<1>r. ASSUME NEW r \in Run, Handled(run, r), RunStepIn(r)
      PROVE  Step(run, r)
  BY <1>r DEF Step, Event, NewCreates, RunStepIn, Enact
\* An action that enacts it with other windows, processes or timers.
<1>e. ASSUME NEW b \in Run, NEW r \in Run, Event(b, r), NEW open, NEW live, NEW armed,
             Enact(FinishStep(b, r), open, live, armed),
             SetCreates(Creates(planCreating, planCreateQueue, FinishStep(b, r).create))
      PROVE  Step(b, r)
  BY <1>e DEF Step, NewCreates, Enact
<1>1. CASE PlanRunStart
  <2>1. StartRun(run) \in Run /\ Handled(run, StartRun(run)) /\ RunStepIn(StartRun(run))
    BY <1>0, <1>1, HandlerTypes DEF PlanRunStart, Handled
  <2> QED BY <1>0, <1>r, <2>1
<1>2. CASE PlanResume
  BY <1>2 DEF PlanResume, Idle
<1>3. CASE PlanReadResult
  <2> DEFINE b == ResumeState(loadRead)
             r == ContinueRun(b)
  <2>1. b \in Run /\ r \in Run
    BY <1>0, <1>3, HandlerTypes DEF PlanReadResult
  <2>2. Event(b, r)
    BY <1>3 DEF PlanReadResult, Event
  <2>3. /\ Enact(FinishStep(b, r), windows, alive, timers)
        /\ SetCreates(Creates(planCreating, planCreateQueue, FinishStep(b, r).create))
    BY <1>3 DEF PlanReadResult
  <2> HIDE DEF b, r
  <2>4. Step(b, r)
    BY <1>e, <2>1, <2>2, <2>3
  <2> QED BY <2>1, <2>4
<1>4. CASE PlanRunPause
  <2>1. PauseRun(run) \in Run /\ Handled(run, PauseRun(run)) /\ RunStepIn(PauseRun(run))
    BY <1>0, <1>4, HandlerTypes DEF PlanRunPause, Handled
  <2> QED BY <1>0, <1>r, <2>1
<1>5. CASE PlanRunResume
  <2>1. ResumeRun(run) \in Run /\ Handled(run, ResumeRun(run)) /\ RunStepIn(ResumeRun(run))
    BY <1>0, <1>5, HandlerTypes DEF PlanRunResume, Handled
  <2> QED BY <1>0, <1>r, <2>1
<1>6. CASE PlanRunStop
  <2>1. StopRun(run) \in Run /\ Event(run, StopRun(run))
    BY <1>0, HandlerTypes DEF Event, Handled
  <2>2. Step(run, StopRun(run))
    BY <1>6, <2>1 DEF PlanRunStop, Step, NewCreates, Enact
  <2> QED BY <1>0, <2>1, <2>2
<1>7. CASE PlanRunRestart
  <2>1. RestartRun(run) \in Run /\ Handled(run, RestartRun(run)) /\ RunStepIn(RestartRun(run))
    BY <1>0, <1>7, HandlerTypes DEF PlanRunRestart, Handled
  <2> QED BY <1>0, <1>r, <2>1
<1>8. ASSUME NEW n \in Node, PlanRunRetryNode(n) PROVE \E b, r \in Run : Step(b, r)
  <2>1. RetryNode(run, n) \in Run /\ Handled(run, RetryNode(run, n)) /\ RunStepIn(RetryNode(run, n))
    BY <1>0, <1>8, NodeHandlerTypes DEF PlanRunRetryNode, Handled
  <2> QED BY <1>0, <1>r, <2>1
<1>9. ASSUME NEW c \in Conv, NEW open, NEW live,
             LET r == IF Bound(run, c) = {} THEN run
                      ELSE SessionDisconnected(run, NodeBySessionId(run, c))
             IN  /\ Enact(FinishStep(run, r), open, live, timers)
                 /\ SetCreates(Creates(planCreating, planCreateQueue, FinishStep(run, r).create))
      PROVE  \E b, r \in Run : Step(b, r)
  <2> DEFINE r == IF Bound(run, c) = {} THEN run
                  ELSE SessionDisconnected(run, NodeBySessionId(run, c))
  <2>1. r \in Run
    BY <1>0, BoundNode, NodeHandlerTypes
  <2>2. Event(run, r)
    <3>1. CASE Bound(run, c) = {}
      BY <3>1 DEF Event, Handled
    <3>2. CASE Bound(run, c) # {}
      <4>1. NodeBySessionId(run, c) \in Node /\ r = SessionDisconnected(run, NodeBySessionId(run, c))
        BY <1>0, <3>2, BoundNode
      <4> HIDE DEF r
      <4> QED BY <4>1 DEF Event, Handled
    <3> QED BY <3>1, <3>2
  <2>3. /\ Enact(FinishStep(run, r), open, live, timers)
        /\ SetCreates(Creates(planCreating, planCreateQueue, FinishStep(run, r).create))
    BY <1>9
  <2> HIDE DEF r
  <2> QED BY <1>0, <1>e, <2>1, <2>2, <2>3
<1>10. ASSUME NEW c \in Conv, CloseSession(c) PROVE \E b, r \in Run : Step(b, r)
  BY <1>9, <1>10 DEF CloseSession
<1>11. ASSUME NEW n \in Node, PlanOpenNodeSession(n) PROVE Idle
  BY <1>11 DEF PlanOpenNodeSession, Idle
<1>12. ASSUME NEW n \in Node, CascadeResumeNode(n) PROVE \E b, r \in Run : Step(b, r)
  <2> DEFINE b == CascadeBase(n)
             r == ResumeDelegatedNode(b, n)
  <2>1. run.last[n] \in MaybeConv
    BY <1>0 DEF Run
  <2>2. b \in Run
    BY <1>0, <2>1 DEF CascadeBase, Run, NodeStatus, RunStatus
  <2>3. Event(b, r)
    BY DEF Event
  <2>4. /\ Enact(FinishStep(b, r), windows \cup {run.last[n]}, alive \cup {run.last[n]}, timers)
        /\ SetCreates(Creates(planCreating, planCreateQueue, FinishStep(b, r).create))
    BY <1>12 DEF CascadeResumeNode, CascadeBase
  <2> HIDE DEF b
  <2>5. r \in Run
    BY <2>2, NodeHandlerTypes
  <2> HIDE DEF r
  <2> QED BY <1>e, <2>2, <2>3, <2>4, <2>5
<1>13. ASSUME NEW n \in Node, CascadeBranchRerun(n) PROVE \E b, r \in Run : Step(b, r)
  <2>1. /\ ResumeBranchFrom(run, n) \in Run /\ Handled(run, ResumeBranchFrom(run, n))
        /\ RunStepIn(ResumeBranchFrom(run, n))
    BY <1>0, <1>13, NodeHandlerTypes DEF CascadeBranchRerun, Handled
  <2> QED BY <1>0, <1>r, <2>1
<1>14. ASSUME NEW c \in Conv, PlanBindSession(c) PROVE \E b, r \in Run : Step(b, r)
  <2> DEFINE r == SessionCreatedFor(run, planCreating, c)
  <2>1. planCreating \in Node
    BY <1>14 DEF PlanBindSession, TypeOK
  <2>2. r \in Run /\ Event(run, r) /\ r.node[planCreating] # "Starting"
    BY <1>0, <2>1, NodeHandlerTypes, ReplyLeavesStarting DEF Event, Handled
  <2>3. /\ run' = FinishStep(run, r).run
        /\ SetCreates(StartNextCreate(Creates(None, planCreateQueue, FinishStep(run, r).create)))
    BY <1>14 DEF PlanBindSession, Enact
  <2> HIDE DEF r
  <2>4. Step(run, r)
    BY <2>1, <2>2, <2>3 DEF Step, NewCreates
  <2> QED BY <1>0, <2>2, <2>4
<1>15. CASE SessionCreateError
  <2> DEFINE r == SessionCreateFailed(run, planCreating)
  <2>1. planCreating \in Node
    BY <1>15 DEF SessionCreateError, TypeOK
  <2>2. r \in Run /\ Event(run, r) /\ r.node[planCreating] # "Starting"
    BY <1>0, <2>1, NodeHandlerTypes, ReplyLeavesStarting DEF Event, Handled
  <2>3. /\ run' = FinishStep(run, r).run
        /\ SetCreates(StartNextCreate(Creates(None, planCreateQueue, FinishStep(run, r).create)))
    BY <1>15 DEF SessionCreateError, Enact
  <2> HIDE DEF r
  <2>4. Step(run, r)
    BY <2>1, <2>2, <2>3 DEF Step, NewCreates
  <2> QED BY <1>0, <2>2, <2>4
<1>16. ASSUME NEW c \in Conv, NEW d \in BOOLEAN, TaskDoneFrame(c, d)
       PROVE  \E b, r \in Run : Step(b, r)
  <2> DEFINE r == TaskDone(run, NodeBySessionId(run, c), c, d)
  <2>1. NodeBySessionId(run, c) \in Node
    BY <1>0, <1>16, BoundNode DEF TaskDoneFrame, Routed
  <2>2. r \in Run /\ Handled(run, r) /\ RunStepIn(r)
    BY <1>0, <1>16, <2>1, NodeHandlerTypes DEF TaskDoneFrame, Handled
  <2> HIDE DEF r
  <2> QED BY <1>0, <1>r, <2>2
<1>17. ASSUME NEW c \in Conv, ErrorFrame(c) PROVE \E b, r \in Run : Step(b, r)
  <2> DEFINE r == SessionError(run, NodeBySessionId(run, c))
  <2>1. NodeBySessionId(run, c) \in Node
    BY <1>0, <1>17, BoundNode DEF ErrorFrame, Routed
  <2>2. r \in Run /\ Handled(run, r) /\ RunStepIn(r)
    BY <1>0, <1>17, <2>1, NodeHandlerTypes DEF ErrorFrame, Handled
  <2> HIDE DEF r
  <2> QED BY <1>0, <1>r, <2>2
<1>18. ASSUME NEW c \in Conv, DisconnectFrame(c) PROVE \E b, r \in Run : Step(b, r)
  BY <1>9, <1>18 DEF DisconnectFrame
<1>19. ASSUME NEW c \in Conv, FeedbackFrame(c) PROVE \E b, r \in Run : Step(b, r)
  <2> DEFINE r == ResumeDelegatedNode(run, NodeBySessionId(run, c))
  <2>1. NodeBySessionId(run, c) \in Node
    BY <1>0, <1>19, BoundNode DEF FeedbackFrame
  <2>2. r \in Run /\ Handled(run, r) /\ RunStepIn(r)
    BY <1>0, <1>19, <2>1, NodeHandlerTypes DEF FeedbackFrame, Handled
  <2> HIDE DEF r
  <2> QED BY <1>0, <1>r, <2>2
<1>20. ASSUME NEW n \in Node, PlanRunnerTick(n) PROVE \E b, r \in Run : Step(b, r)
  <2> DEFINE r == RetryTick(run, n)
             armed == [timers EXCEPT ![n] = @ - 1]
  <2>1. r \in Run /\ Event(run, r)
    BY <1>0, NodeHandlerTypes DEF Event, Handled
  <2>2. /\ Enact(FinishStep(run, r), windows, alive, armed)
        /\ SetCreates(Creates(planCreating, planCreateQueue, FinishStep(run, r).create))
    BY <1>20 DEF PlanRunnerTick
  <2> HIDE DEF r, armed
  <2> QED BY <1>0, <1>e, <2>1, <2>2
<1>21. CASE UNCHANGED vars
  BY <1>21 DEF vars, Idle
<1>22. CASE Next
  BY <1>1, <1>2, <1>3, <1>4, <1>5, <1>6, <1>7, <1>8, <1>10, <1>11, <1>12, <1>13,
     <1>14, <1>15, <1>16, <1>17, <1>18, <1>19, <1>20, <1>22
     DEF Next, User, CreateReply, SessionEnds
<1> QED BY <1>21, <1>22

(***************************************************************************)
(* finishStep leaves nothing undone.                                       *)
(***************************************************************************)
LEMMA StepQuiet ==
  ASSUME NEW b \in Run, NEW r \in Run, Step(b, r)
  PROVE  Quiet(run')
BY FinishStepQuiet DEF Step

LEMMA AlwaysQuiet == Spec => []Quiet(run)
PROOF
<1>1. Init => Quiet(run)
  <2> SUFFICES ASSUME Init PROVE Quiet(run)
    OBVIOUS
  <2>1. DependsOn \in [Node -> SUBSET Node]
    BY PlanAssumption
  <2>2. run.status = "NotStarted" /\ \A n \in Node : run.node[n] = "Pending" /\ run.conv[n] = None
    BY DEF Init, EmptyRun
  <2> QED BY <2>1, <2>2 DEF Quiet, Blockable, Chosen
<1>2. TypeOK /\ Quiet(run) /\ [Next]_vars => Quiet(run)'
  <2> SUFFICES ASSUME TypeOK, Quiet(run), [Next]_vars PROVE Quiet(run')
    OBVIOUS
  <2>1. CASE Idle
    BY <2>1 DEF Idle
  <2> QED BY <2>1, StepShape, StepQuiet
<1> QED BY <1>1, <1>2, TypeCorrect, PTL DEF Spec

\* No event leaves work behind (PlanRunner's Settled): each one ends with
\* finishStep, and finishStep applied to its own result does nothing.
THEOREM AlwaysSettled == Spec => []Settled
PROOF
<1>1. TypeOK /\ Quiet(run) => Settled
  BY QuietSettled DEF TypeOK, Settled
<1> QED BY <1>1, TypeCorrect, AlwaysQuiet, PTL

\* Of the Pending nodes one of least rank waits for nothing, and schedule would
\* have launched the first such node.
LEMMA QuietRunMoves ==
  ASSUME NEW r \in Run, Quiet(r), r.status = "InProgress"
  PROVE  \E n \in Node :
            r.node[n] \in {"Starting", "Running", "Waiting", "WaitingForPlan", "Canceled"}
PROOF
<1> SUFFICES ASSUME \A n \in Node : r.node[n] \in {"Pending", "Succeeded", "Failed", "Blocked"}
             PROVE  FALSE
  BY DEF Run, NodeStatus
<1>1. PICK rank \in [Node -> 0..Cardinality(Node)] :
        \A n \in Node : \A d \in DependsOn[n] : rank[d] < rank[n]
  BY PlanAssumption
<1>2. Cardinality(Node) \in Nat /\ DependsOn \in [Node -> SUBSET Node]
  BY PlanAssumption, FS_CardinalityType
<1> DEFINE P == {n \in Node : r.node[n] = "Pending"}
<1>3. \E n \in P : TRUE
  BY DEF Quiet, TerminalNode
<1>4. \E n \in P : \A m \in P : rank[n] <= rank[m]
  <2> DEFINE K == {rank[n] : n \in P}
  <2>1. K \in SUBSET (0..Cardinality(Node)) /\ K # {}
    BY <1>3
  <2>2. K \in SUBSET Nat /\ IsFiniteSet(K)
    <3>1. IsFiniteSet(0..Cardinality(Node))
      BY <1>2, FS_Interval
    <3> QED BY <1>2, <2>1, <3>1, FS_Subset
  <2> HIDE DEF K
  <2> DEFINE card == Cardinality(K)
  <2>3. card \in Nat /\ card # 0
    BY <2>1, <2>2, FS_CardinalityType, FS_EmptySet
  <2>4. /\ \A k \in 0..(card - 1) : \E x \in K : Rank(K, x) = k
        /\ \A x \in K : Rank(K, x) \in 0..(card - 1)
        /\ \A x, y \in K : x < y => Rank(K, x) < Rank(K, y)
    BY <2>2, Ranks
  <2> HIDE DEF card
  <2>5. 0 \in 0..(card - 1)
    BY <2>3
  <2>6. PICK x \in K : Rank(K, x) = 0
    BY <2>4, <2>5
  <2>7. \A y \in K : x <= y
    BY <2>2, <2>4, <2>6
  <2> QED BY <2>6, <2>7 DEF K
<1>5. PICK n \in P : \A m \in P : rank[n] <= rank[m]
  BY <1>4
<1>6. \A d \in DependsOn[n] : r.node[d] = "Succeeded"
  <2> TAKE d \in DependsOn[n]
  <2>1. d \in Node /\ n \in Node
    BY <1>2
  <2>2. d \notin P
    BY <1>1, <1>2, <1>5, <2>1
  <2>3. ~ Blockable(r.node, n)
    BY <2>1 DEF Quiet
  <2> QED BY <2>1, <2>2, <2>3 DEF Blockable
<1>7. Active(r) = {}
  BY DEF Active, ActiveStatus
<1>8. Cardinality(Active(r)) = 0
  BY <1>7, FS_EmptySet
<1> DEFINE R == Runnable(r)
<1>9. R \in SUBSET Nat /\ IsFiniteSet(R) /\ R # {}
  <2>1. n \in R
    BY <1>6 DEF Runnable, DepsSucceeded
  <2> QED BY <2>1, PlanAssumption, FS_Subset DEF Runnable
<1>10. \E m \in R : Rank(R, m) = 0
  <2> HIDE DEF R
  <2> DEFINE card == Cardinality(R)
  <2>1. card \in Nat /\ card # 0
    BY <1>9, FS_CardinalityType, FS_EmptySet
  <2>2. \A k \in 0..(card - 1) : \E m \in R : Rank(R, m) = k
    BY <1>9, Ranks
  <2> HIDE DEF card
  <2>3. 0 \in 0..(card - 1)
    BY <2>1
  <2> QED BY <2>2, <2>3
<1>11. PICK m \in R : Rank(R, m) = 0
  BY <1>10
<1>12. m \in Chosen(r)
  <2>1. Rank(R, m) < Concurrency - Cardinality(Active(r))
    BY <1>8, <1>11, CapAssumption
  <2> QED BY <2>1 DEF Chosen, Rank
<1> QED BY <1>12 DEF Quiet

\* An InProgress run always has a node that something will happen to, or one
\* that the user canceled (PlanRunner's NoDeadlock).
THEOREM NeverDeadlocked == Spec => []NoDeadlock
PROOF
<1>1. TypeOK /\ Quiet(run) => NoDeadlock
  BY QuietRunMoves DEF TypeOK, NoDeadlock
<1> QED BY <1>1, TypeCorrect, AlwaysQuiet, PTL

(***************************************************************************)
(* What the run's status says of its nodes.                                *)
(***************************************************************************)
StatusSays(r) ==
  /\ r.status = "NotStarted" => \A n \in Node : r.node[n] = "Pending"
  /\ r.status = "Stopped" => \A n \in Node : r.node[n] \notin Stoppable
  /\ r.status \in {"Completed", "FailedRun"} => \A n \in Node : r.node[n] \in TerminalNode
  /\ r.status = "Completed" => \A n \in Node : r.node[n] \notin {"Failed", "Blocked"}
  /\ r.status = "FailedRun" => \E n \in Node : r.node[n] \in {"Failed", "Blocked"}

\* A run whose nodes no event changes, unless it is InProgress or Paused.
LEMMA HandledSays ==
  ASSUME NEW b \in Run, NEW r \in Run, StatusSays(b), Handled(b, r)
  PROVE  StatusSays(r)
PROOF
<1> DEFINE Live == {"Running", "Starting", "Waiting", "WaitingForPlan"}
<1>0. /\ b.node \in [Node -> NodeStatus] /\ b.status \in RunStatus
      /\ r.node \in [Node -> NodeStatus] /\ r.status \in RunStatus
  BY DEF Run
\* A handler that keeps the status and touches only a live node.
<1>1. ASSUME r.status = b.status, NEW n \in Node,
             r = b \/ (b.node[n] \in Live /\ \A m \in Node \ {n} : r.node[m] = b.node[m])
      PROVE  StatusSays(r)
  <2>1. CASE r = b
    BY <2>1
  <2>2. CASE b.node[n] \in Live
    <3>1. b.status \in {"InProgress", "Paused"}
      BY <1>0, <2>2 DEF StatusSays, Stoppable, TerminalNode, RunStatus
    <3> QED BY <1>1, <3>1 DEF StatusSays
  <2> QED BY <1>1, <2>1, <2>2
\* A handler that leaves the run InProgress or Paused.
<1>2. ASSUME r.status \in {"InProgress", "Paused"} PROVE StatusSays(r)
  BY <1>2 DEF StatusSays
<1>3. CASE r \in {b, StartRun(b), PauseRun(b), ResumeRun(b), RestartRun(b)}
  <2>1. r = b \/ r.status \in {"InProgress", "Paused"}
    BY <1>3 DEF StartRun, PauseRun, ResumeRun, RestartRun, SetStatus, ResetNodes, Run
  <2> QED BY <1>2, <2>1
<1>4. CASE r = StopRun(b)
  <2>1. r.status = "Stopped" /\ \A n \in Node : r.node[n] \notin Stoppable
    BY <1>0, <1>4 DEF StopRun, Stoppable, Run
  <2> QED BY <2>1 DEF StatusSays
<1>5. ASSUME NEW n \in Node, r = RetryNode(b, n) PROVE StatusSays(r)
  <2>1. CASE b.status \in {"FailedRun", "Completed", "Stopped", "InProgress", "Paused"}
    <3>1. r.status \in {"InProgress", "Paused"}
      BY <1>5, <2>1 DEF RetryNode, SetStatus, Run
    <3> QED BY <1>2, <3>1
  <2>2. CASE b.status = "NotStarted"
    <3>1. b.node[n] = "Pending"
      BY <2>2 DEF StatusSays
    <3>2. r = b
      BY <1>5, <2>2, <3>1 DEF RetryNode
    <3> QED BY <3>2
  <2> QED BY <1>0, <2>1, <2>2 DEF RunStatus
<1>6. ASSUME NEW n \in Node, r = ResumeBranchFrom(b, n) PROVE StatusSays(r)
  <2>1. r = b \/ r.status = "InProgress"
    BY <1>6 DEF ResumeBranchFrom, SetStatus, ResetNodes, Run
  <2> QED BY <1>2, <2>1
<1>7. ASSUME NEW n \in Node,
             r \in {SessionDisconnected(b, n), SessionError(b, n), SessionCreateFailed(b, n)}
      PROVE  StatusSays(r)
  <2>1. r = b \/ (b.node[n] \in Live /\ r = FailNode(b, n))
    BY <1>7 DEF SessionDisconnected, SessionError, SessionCreateFailed
  <2>2. FailNode(b, n).status = b.status
        /\ \A m \in Node \ {n} : FailNode(b, n).node[m] = b.node[m]
    BY <1>0 DEF FailNode, Run
  <2> QED BY <1>1, <2>1, <2>2
<1>8. ASSUME NEW n \in Node, r \in {RetryTick(b, n), ResumeDelegatedNode(b, n)}
      PROVE  StatusSays(r)
  <2>1. /\ r.status = b.status
        /\ r = b \/ (b.node[n] \in Live /\ \A m \in Node \ {n} : r.node[m] = b.node[m])
    BY <1>0, <1>8 DEF RetryTick, ResumeDelegatedNode, Run
  <2> QED BY <1>1, <2>1
<1>9. ASSUME NEW n \in Node, NEW c \in Conv, r = SessionCreatedFor(b, n, c) PROVE StatusSays(r)
  <2>1. /\ r.status = b.status
        /\ r = b \/ (b.node[n] \in Live /\ \A m \in Node \ {n} : r.node[m] = b.node[m])
    BY <1>0, <1>9 DEF SessionCreatedFor, Binds, Run
  <2> QED BY <1>1, <2>1
<1>10. ASSUME NEW n \in Node, NEW c \in Conv, NEW d \in BOOLEAN, r = TaskDone(b, n, c, d)
       PROVE  StatusSays(r)
  <2>1. /\ r.status = b.status
        /\ r = b \/ (b.node[n] \in Live /\ \A m \in Node \ {n} : r.node[m] = b.node[m])
    BY <1>0, <1>10 DEF TaskDone, Succeed, Run
  <2> QED BY <1>1, <2>1
<1> QED BY <1>3, <1>4, <1>5, <1>6, <1>7, <1>8, <1>9, <1>10 DEF Handled

LEMMA FinishStepSays ==
  ASSUME NEW r \in Run, NEW before, StatusSays(r)
  PROVE  StatusSays(FinishStep(before, r).run)
PROOF
<1> DEFINE r1 == BlockedPropagation(r)
           r2 == CloseAndClear(r1)
           r3 == UpdateRunStatus(r2)
           f  == Schedule(r3)
<1>1. r1 \in Run /\ r2 \in Run /\ r3 \in Run /\ f \in Run
  BY PassTypes
<1>2. FinishStep(before, r).run = f
  BY DEF FinishStep
<1>3. r1.status = r.status
  BY DEF BlockedPropagation, Run
<1>4. r.status \notin {"InProgress", "Paused"} => r1 = r
  <2> SUFFICES ASSUME r.status \notin {"InProgress", "Paused"} PROVE \A n \in Node : ~ Blockable(r.node, n)
    BY NothingBlockable
  <2>1. r.status \in RunStatus /\ DependsOn \in [Node -> SUBSET Node]
    BY PlanAssumption DEF Run
  <2> QED BY <2>1 DEF StatusSays, Blockable, Stoppable, TerminalNode, RunStatus
<1>5. StatusSays(r1)
  <2>1. CASE r.status \in {"InProgress", "Paused"}
    BY <1>3, <2>1 DEF StatusSays
  <2> QED BY <1>4, <2>1
<1> HIDE DEF r1
<1>6. r2.node = r1.node /\ r2.status = r1.status
  BY <1>1, PassFields
<1> HIDE DEF r2
<1>7. r3.node = r2.node
  BY <1>1, PassFields
<1>8. /\ r3.status = r2.status \/ (/\ r3.status \in {"Completed", "FailedRun"}
                                   /\ \A n \in Node : r2.node[n] \in TerminalNode)
      /\ r3.status = "Completed" => r2.status = "Completed"
                                      \/ \A n \in Node : r2.node[n] \notin {"Failed", "Blocked"}
      /\ r3.status = "FailedRun" => r2.status = "FailedRun"
                                      \/ \E n \in Node : r2.node[n] \in {"Failed", "Blocked"}
  BY <1>1 DEF r3, UpdateRunStatus, SetStatus, Run
<1>9. StatusSays(r3)
  BY <1>5, <1>6, <1>7, <1>8 DEF StatusSays
<1> HIDE DEF r3
<1>10. f.status = r3.status /\ (r3.status # "InProgress" => f = r3)
  <2>1. f.status = r3.status
    BY <1>1, PassFields
  <2>2. ASSUME r3.status # "InProgress" PROVE f = r3
    <3>1. Chosen(r3) = {}
      BY <2>2 DEF Chosen
    <3>2. [n \in Node |-> IF n \in Chosen(r3) THEN "Starting" ELSE r3.node[n]] = r3.node
      BY <1>1, <3>1 DEF Run
    <3> QED BY <1>1, <3>2 DEF Schedule, Run
  <2> QED BY <2>1, <2>2
<1>11. StatusSays(f)
  <2>1. CASE r3.status = "InProgress"
    BY <1>10, <2>1 DEF StatusSays
  <2> QED BY <1>9, <1>10, <2>1
<1> QED BY <1>2, <1>11

\* Stopped, Completed, FailedRun and NotStarted say what the nodes are, however
\* late replies, frames and timers come in (PlanRunner's StatusAgrees).
THEOREM StatusNeverLies == Spec => []StatusAgrees
PROOF
<1>1. Init => StatusSays(run)
  BY DEF Init, EmptyRun, StatusSays
<1>2. TypeOK /\ StatusSays(run) /\ [Next]_vars => StatusSays(run)'
  <2> SUFFICES ASSUME TypeOK, StatusSays(run), [Next]_vars PROVE StatusSays(run')
    OBVIOUS
  <2>1. CASE Idle
    BY <2>1 DEF Idle
  <2>2. ASSUME NEW b \in Run, NEW r \in Run, Step(b, r) PROVE StatusSays(run')
    <3>1. CASE b = run /\ Handled(b, r)
      BY <2>2, <3>1, HandledSays, FinishStepSays DEF Step
    <3>2. CASE r = ContinueRun(b)
      <4>1. b.status \in RunStatus
        BY DEF Run
      <4>2. r.status = "InProgress"
        BY <3>2, <4>1 DEF ContinueRun, SetStatus, Startable, RunStatus, Run
      <4>3. StatusSays(r)
        BY <4>2 DEF StatusSays
      <4> QED BY <2>2, <4>3, FinishStepSays DEF Step
    <3>3. ASSUME NEW n \in Node, b = CascadeBase(n), r = ResumeDelegatedNode(b, n)
          PROVE  StatusSays(run')
      <4>1. b.status = "InProgress"
        BY <3>3 DEF CascadeBase, TypeOK, Run
      <4>2. r.status = "InProgress"
        BY <3>3, <4>1 DEF ResumeDelegatedNode, Run
      <4>3. StatusSays(r)
        BY <4>2 DEF StatusSays
      <4> QED BY <2>2, <4>3, FinishStepSays DEF Step
    <3> QED BY <2>2, <3>1, <3>2, <3>3 DEF Step, Event
  <2> QED BY <2>1, <2>2, StepShape
<1>3. StatusSays(run) /\ Quiet(run) => StatusAgrees
  BY DEF StatusSays, Quiet, StatusAgrees
<1> QED BY <1>1, <1>2, <1>3, TypeCorrect, AlwaysQuiet, PTL DEF Spec

(***************************************************************************)
(* Launching, and the creates it asks for.                                 *)
(***************************************************************************)
\* Only schedule puts a node in Starting.
LEMMA HandledStartsNothing ==
  ASSUME NEW b \in Run, NEW r \in Run, Event(b, r), run \in Run, loadRead \in Run \cup {None},
         NEW n \in Node, r.node[n] = "Starting"
  PROVE  run.node[n] = "Starting"
PROOF
<1>0. /\ b.node \in [Node -> NodeStatus] /\ r.node \in [Node -> NodeStatus]
  BY DEF Run
<1>1. ASSUME Handled(b, r) PROVE b.node[n] = "Starting"
  <2>1. CASE r \in {b, StartRun(b), PauseRun(b), ResumeRun(b), StopRun(b), RestartRun(b)}
    <3>1. \A S : \A m \in Node : ResetNodes(b, S).node[m] = IF m \in S THEN "Pending" ELSE b.node[m]
      BY <1>0 DEF ResetNodes, Run
    <3>2. \A S : ResetNodes(b, S) \in Run
      BY ResetNodesType
    <3>3. \A q \in Run, st \in RunStatus : SetStatus(q, st).node = q.node
      BY DEF SetStatus, Run
    <3>4. {"InProgress", "Paused"} \subseteq RunStatus
      BY DEF RunStatus
    <3>5. CASE r = StartRun(b) \/ r = RestartRun(b)
      BY <3>1, <3>2, <3>3, <3>4, <3>5 DEF StartRun, RestartRun
    <3>6. CASE r = PauseRun(b) \/ r = ResumeRun(b)
      BY <3>3, <3>4, <3>6 DEF PauseRun, ResumeRun
    <3>7. CASE r = StopRun(b)
      BY <1>0, <3>7 DEF StopRun, Run
    <3> QED BY <2>1, <3>5, <3>6, <3>7
  <2>2. ASSUME NEW m \in Node,
               r \in {SessionDisconnected(b, m), SessionError(b, m), SessionCreateFailed(b, m)}
        PROVE  b.node[n] = "Starting"
    <3>1. r = b \/ r = FailNode(b, m)
      BY <2>2 DEF SessionDisconnected, SessionError, SessionCreateFailed
    <3>2. FailNode(b, m).node[n] = "Starting" => b.node[n] = "Starting"
      BY <1>0 DEF FailNode, Run
    <3> QED BY <3>1, <3>2
  <2>3. ASSUME NEW m \in Node, r \in {RetryTick(b, m), ResumeDelegatedNode(b, m)}
        PROVE  b.node[n] = "Starting"
    BY <1>0, <2>3 DEF RetryTick, ResumeDelegatedNode, Run
  <2>4. ASSUME NEW m \in Node, r = RetryNode(b, m) PROVE b.node[n] = "Starting"
    BY <1>0, <2>4 DEF RetryNode, SetStatus, Run
  <2>5. ASSUME NEW m \in Node, r = ResumeBranchFrom(b, m) PROVE b.node[n] = "Starting"
    BY <1>0, <2>5 DEF ResumeBranchFrom, SetStatus, ResetNodes, Run
  <2>6. ASSUME NEW m \in Node, NEW c \in Conv, r = SessionCreatedFor(b, m, c)
        PROVE  b.node[n] = "Starting"
    BY <1>0, <2>6 DEF SessionCreatedFor, Binds, Run
  <2>7. ASSUME NEW m \in Node, NEW c \in Conv, NEW d \in BOOLEAN, r = TaskDone(b, m, c, d)
        PROVE  b.node[n] = "Starting"
    BY <1>0, <2>7 DEF TaskDone, Succeed, Run
  <2> QED BY <1>1, <2>1, <2>2, <2>3, <2>4, <2>5, <2>6, <2>7 DEF Handled
<1>2. CASE b = run /\ Handled(b, r)
  BY <1>1, <1>2
<1>3. CASE loadRead # None /\ b = ResumeState(loadRead) /\ r = ContinueRun(b)
  <2>1. r.node = b.node
    BY <1>3 DEF ContinueRun, SetStatus, Run
  <2>2. b.node[n] # "Starting"
    BY <1>3 DEF ResumeState, Run
  <2> QED BY <2>1, <2>2
<1>4. ASSUME NEW m \in Node, b = CascadeBase(m), r = ResumeDelegatedNode(b, m)
      PROVE  run.node[n] = "Starting"
  <2>1. run.node \in [Node -> NodeStatus]
    BY DEF Run
  <2>2. b.node = [run.node EXCEPT ![m] = "WaitingForPlan"]
    BY <1>4 DEF CascadeBase, Run
  <2>3. b.node[n] = "Starting"
    BY <1>0, <1>4 DEF ResumeDelegatedNode, Run
  <2> QED BY <2>1, <2>2, <2>3
<1> QED BY <1>2, <1>3, <1>4 DEF Event

\* The nodes that Starting has after finishStep.
LEMMA StartingAfter ==
  ASSUME NEW r \in Run, NEW before, NEW n \in Node
  PROVE  LET f == FinishStep(before, r)
         IN  f.run.node[n] = "Starting" => n \in f.create \/ r.node[n] = "Starting"
PROOF
<1> DEFINE r1 == BlockedPropagation(r)
           r2 == CloseAndClear(r1)
           r3 == UpdateRunStatus(r2)
<1>1. r1 \in Run /\ r2 \in Run /\ r3 \in Run
  BY PassTypes
<1>2. FinishStep(before, r).run = Schedule(r3) /\ FinishStep(before, r).create = Chosen(r3)
  BY DEF FinishStep
<1>3. r1.node[n] = "Starting" => r.node[n] = "Starting"
  BY DEF BlockedPropagation, Run
<1> HIDE DEF r1
<1>4. r2.node = r1.node
  BY <1>1, PassFields
<1> HIDE DEF r2
<1>5. r3.node = r2.node
  BY <1>1, PassFields
<1> HIDE DEF r3
<1>6. Schedule(r3).node[n] = IF n \in Chosen(r3) THEN "Starting" ELSE r3.node[n]
  BY <1>1, PassFields
<1> QED BY <1>2, <1>3, <1>4, <1>5, <1>6

Slot == [creating |-> planCreating, queue |-> planCreateQueue]

PendingIn(r, c) ==
  /\ \A n \in Node : r.node[n] = "Starting" => Awaits(c, n)
  /\ c.queue # <<>> => c.creating # None

\* Every node in Starting has its create in flight or queued, and the slot
\* never idles while creates wait (PlanRunner's CreatePending and SlotBusy).
THEOREM CreatesNeverLost == Spec => [](CreatePending /\ SlotBusy)
PROOF
<1>1. Init => PendingIn(run, Slot)
  BY DEF Init, EmptyRun, PendingIn, Slot
<1>2. TypeOK /\ PendingIn(run, Slot) /\ [Next]_vars => PendingIn(run, Slot)'
  <2> SUFFICES ASSUME TypeOK, PendingIn(run, Slot), [Next]_vars
               PROVE  PendingIn(run', [creating |-> planCreating', queue |-> planCreateQueue'])
    BY DEF Slot, PendingIn, Awaits
  <2> DEFINE new == [creating |-> planCreating', queue |-> planCreateQueue']
  <2>0. /\ run \in Run /\ loadRead \in Run \cup {None}
        /\ planCreating \in Node \cup {None} /\ planCreateQueue \in Seq(Node)
        /\ Slot.creating = planCreating /\ Slot.queue = planCreateQueue
    BY DEF TypeOK, Slot
  <2>1. CASE Idle
    BY <2>1 DEF Idle, PendingIn, Slot, Awaits
  <2>2. ASSUME NEW b \in Run, NEW r \in Run, Step(b, r) PROVE PendingIn(run', new)
    <3> DEFINE create == FinishStep(b, r).create
    <3>1. \A n \in Node : r.node[n] = "Starting" => run.node[n] = "Starting"
      BY <2>0, <2>2, HandledStartsNothing DEF Step
    <3>2. \A n \in Node : run'.node[n] = "Starting" => n \in create \/ r.node[n] = "Starting"
      BY <2>2, StartingAfter DEF Step
    <3>3. create \in SUBSET Node
      BY FinishStepType
    <3>4. \A n \in Node : r.node[n] = "Starting" => Awaits(Slot, n)
      BY <3>1 DEF PendingIn
    <3>5. CASE SetCreates(Creates(planCreating, planCreateQueue, create))
      <4> DEFINE c == Creates(planCreating, planCreateQueue, create)
      <4> HIDE DEF create
      <4>1. /\ \A n \in create : Awaits(c, n)
            /\ \A n \in Node : Awaits(Slot, n) => Awaits(c, n)
            /\ c.queue # <<>> => c.creating # None
        BY <2>0, <3>3, CreatesFacts DEF PendingIn, Slot
      <4>2. planCreating' = c.creating /\ planCreateQueue' = c.queue
        BY <3>5 DEF SetCreates
      <4> HIDE DEF c
      <4> QED BY <3>2, <3>4, <4>1, <4>2 DEF PendingIn, Awaits
    <3>6. CASE r = StopRun(run) /\ planCreating' = planCreating /\ planCreateQueue' = <<>>
      <4>1. \A n \in Node : r.node[n] # "Starting"
        BY <2>0, <3>6 DEF StopRun, Stoppable, Run
      <4>2. create = {}
        <5> DEFINE r1 == BlockedPropagation(r)
                   r2 == CloseAndClear(r1)
        <5>1. r1 \in Run /\ r2 \in Run
          BY PassTypes
        <5>2. r1.status = "Stopped"
          BY <2>0, <3>6 DEF BlockedPropagation, StopRun, Run
        <5> HIDE DEF r1
        <5>3. r2.status = "Stopped"
          BY <5>1, <5>2, PassFields
        <5> HIDE DEF r2
        <5>4. UpdateRunStatus(r2).status = "Stopped"
          BY <5>3 DEF UpdateRunStatus
        <5>5. Chosen(UpdateRunStatus(r2)) = {}
          BY <5>4 DEF Chosen
        <5> QED BY <5>5 DEF FinishStep, r1, r2
      <4> QED BY <3>2, <3>6, <4>1, <4>2 DEF PendingIn
    <3>7. CASE /\ planCreating \in Node /\ r.node[planCreating] # "Starting"
               /\ SetCreates(StartNextCreate(Creates(None, planCreateQueue, create)))
      <4> DEFINE c == Creates(None, planCreateQueue, create)
                 d == StartNextCreate(c)
                 rest == [creating |-> None, queue |-> planCreateQueue]
      <4> HIDE DEF create
      <4>1. /\ c \in CreateState
            /\ \A n \in create : Awaits(c, n)
            /\ \A n \in Node : Awaits(rest, n) => Awaits(c, n)
        BY <2>0, <3>3, CreatesFacts
      <4> HIDE DEF c
      <4>2. /\ \A n \in Node : Awaits(c, n) => Awaits(d, n)
            /\ d.queue # <<>> => d.creating # None
        BY <4>1, StartNextCreateFacts
      <4>3. planCreating' = d.creating /\ planCreateQueue' = d.queue
        BY <3>7 DEF SetCreates, c
      <4>4. \A n \in Node : r.node[n] = "Starting" => Awaits(rest, n)
        BY <2>0, <3>4, <3>7 DEF Awaits
      <4> HIDE DEF d
      <4> QED BY <3>2, <3>3, <4>1, <4>2, <4>3, <4>4 DEF PendingIn, Awaits
    <3> QED BY <2>2, <3>5, <3>6, <3>7 DEF Step, NewCreates
  <2> QED BY <2>1, <2>2, StepShape
<1>3. PendingIn(run, Slot) => CreatePending /\ SlotBusy
  BY DEF PendingIn, Slot, Awaits, CreatePending, SlotBusy
<1> QED BY <1>1, <1>2, <1>3, TypeCorrect, PTL DEF Spec

\* The runner's books: the three theorems above together.
THEOREM BooksAgree == Spec => []RunnerBook
PROOF
BY AlwaysSettled, StatusNeverLies, CreatesNeverLost, PTL DEF RunnerBook

\* What schedule launches may run, in a run that is InProgress and within the
\* cap.
LEMMA LaunchesWithinCap ==
  ASSUME NEW r \in Run, NEW before, NEW n \in Node,
         r.node[n] # "Starting", FinishStep(before, r).run.node[n] = "Starting"
  PROVE  LET f == FinishStep(before, r).run
         IN  /\ DepsSucceeded(f, n)
             /\ f.status = "InProgress"
             /\ Cardinality(Active(f)) <= Concurrency
PROOF
<1> DEFINE r3 == UpdateRunStatus(CloseAndClear(BlockedPropagation(r)))
           f  == Schedule(r3)
           cap == Concurrency - Cardinality(Active(r3))
           R  == Runnable(r3)
           C  == Chosen(r3)
           A  == Active(r3)
<1>1. r3 \in Run
  BY PassTypes
<1>2. FinishStep(before, r).run = f /\ FinishStep(before, r).create = C
  BY DEF FinishStep
<1>3. n \in C
  BY <1>2, StartingAfter
<1> HIDE DEF r3
<1>4. f.status = r3.status /\ \A m \in Node : f.node[m] = IF m \in C THEN "Starting" ELSE r3.node[m]
  BY <1>1, PassFields
<1>5. r3.status = "InProgress" /\ C = {m \in R : Rank(R, m) < cap} /\ R \in SUBSET Node
  BY <1>3 DEF Chosen, Rank, Runnable
<1>6. DepsSucceeded(f, n)
  <2>1. n \in R /\ DependsOn \in [Node -> SUBSET Node]
    BY <1>3, <1>5, PlanAssumption
  <2> QED BY <1>4, <1>5, <2>1 DEF DepsSucceeded, Runnable
<1>7. Active(f) = A \cup C /\ A \cap C = {}
  BY <1>4, <1>5 DEF Active, ActiveStatus, Runnable
<1>8. /\ IsFiniteSet(A) /\ Cardinality(A) \in Nat
      /\ R \in SUBSET Nat /\ IsFiniteSet(R)
  BY <1>5, PlanAssumption, FS_Subset, FS_CardinalityType DEF Active
<1> HIDE DEF A, R, C, f
<1>9. cap \in Int
  BY <1>8, CapAssumption DEF A
<1> HIDE DEF cap
<1>10. IsFiniteSet(C) /\ Cardinality(C) <= cap
  BY <1>3, <1>5, <1>8, <1>9, FirstOnes
<1>11. Cardinality(C) \in Nat
  BY <1>10, FS_CardinalityType
<1>12. Cardinality(A \cup C) = Cardinality(A) + Cardinality(C) - Cardinality(A \cap C)
  BY <1>8, <1>10, FS_Union
<1>13. Cardinality(A \cap C) = 0
  BY <1>7, FS_EmptySet
<1>14. Cardinality(Active(f)) <= Concurrency
  BY <1>7, <1>8, <1>10, <1>11, <1>12, <1>13, CapAssumption DEF cap, A
<1> QED BY <1>2, <1>4, <1>5, <1>6, <1>14

\* A node is launched only with all its dependencies Succeeded, in an
\* InProgress run and within the cap (PlanRunner's LaunchRules).
THEOREM LaunchesObeyRules == Spec => LaunchRules
PROOF
<1> DEFINE Launch == \A n \in Node : run.node[n] # "Starting" /\ run'.node[n] = "Starting" =>
                       /\ DepsSucceeded(run', n)
                       /\ run'.status = "InProgress"
                       /\ Cardinality(Active(run')) <= Concurrency
<1>1. TypeOK /\ [Next]_vars => [Launch]_vars
  <2> SUFFICES ASSUME TypeOK, [Next]_vars PROVE Launch
    OBVIOUS
  <2>1. CASE Idle
    BY <2>1 DEF Idle
  <2>2. ASSUME NEW b \in Run, NEW r \in Run, Step(b, r) PROVE Launch
    <3> TAKE n \in Node
    <3> HAVE run.node[n] # "Starting" /\ run'.node[n] = "Starting"
    <3>1. run' = FinishStep(b, r).run
      BY <2>2 DEF Step
    <3>2. r.node[n] # "Starting"
      BY <2>2, HandledStartsNothing DEF Step, TypeOK
    <3> QED BY <3>1, <3>2, LaunchesWithinCap
  <2> QED BY <2>1, <2>2, StepShape
<1> QED BY <1>1, TypeCorrect, PTL DEF Spec, LaunchRules

(***************************************************************************)
(* What a run holds - sessions, windows, attempts, timers - and what its   *)
(* steps keep of what came before.                                         *)
(***************************************************************************)

(***************************************************************************)
(* finishStep, field by field, told from the run it returns.               *)
(***************************************************************************)
LEMMA FinishFields ==
  ASSUME NEW b, NEW r \in Run
  PROVE  LET f == FinishStep(b, r)
         IN  /\ f.run \in Run
             /\ f.run.attempts = r.attempts /\ f.run.hist = r.hist
             /\ \A n \in Node :
                  \/ f.run.node[n] = r.node[n]
                  \/ /\ r.node[n] \in {"Pending", "Waiting"}
                     /\ f.run.node[n] \in {"Blocked", "Starting"}
             /\ \A n \in Node :
                  IF r.conv[n] # None /\ f.run.node[n] \in Released
                    THEN f.run.conv[n] = None /\ f.run.last[n] = r.conv[n]
                    ELSE f.run.conv[n] = r.conv[n] /\ f.run.last[n] = r.last[n]
             /\ \A c \in f.close : \E n \in Node :
                  c = r.conv[n] /\ c # None /\ f.run.node[n] \in Released
             /\ \A n \in Node : r.conv[n] # None /\ f.run.node[n] \in Released
                                  => r.conv[n] \in f.close
             /\ f.retry = {n \in Node : f.run.node[n] = "Waiting" /\ b.node[n] # "Waiting"}
PROOF
<1> DEFINE r1 == BlockedPropagation(r)
           r2 == CloseAndClear(r1)
           r3 == UpdateRunStatus(r2)
           f  == Schedule(r3)
<1>1. r1 \in Run /\ r2 \in Run /\ r3 \in Run /\ f \in Run
  BY PassTypes
<1>2. /\ FinishStep(b, r).run = f
      /\ FinishStep(b, r).close = {r1.conv[n] : n \in Closing(r1)}
      /\ FinishStep(b, r).retry = {n \in Node : f.node[n] = "Waiting" /\ b.node[n] # "Waiting"}
  BY DEF FinishStep
<1>3. /\ r1.attempts = r.attempts /\ r1.hist = r.hist /\ r1.conv = r.conv /\ r1.last = r.last
      /\ \A n \in Node : r1.node[n] = IF n \in BlockedBy(r.node) THEN "Blocked" ELSE r.node[n]
  BY DEF BlockedPropagation, Run
<1>4. \A n \in BlockedBy(r.node) : r.node[n] \in {"Pending", "Waiting"}
  BY BlockedByClosed
<1> HIDE DEF r1
<1>5. /\ r2.attempts = r1.attempts /\ r2.hist = r1.hist /\ r2.node = r1.node
      /\ \A n \in Node : /\ r2.conv[n] = IF n \in Closing(r1) THEN None ELSE r1.conv[n]
                         /\ r2.last[n] = IF n \in Closing(r1) THEN r1.conv[n] ELSE r1.last[n]
  BY <1>1 DEF CloseAndClear, Run
<1> HIDE DEF r2
<1>6. /\ r3.attempts = r2.attempts /\ r3.hist = r2.hist /\ r3.node = r2.node
      /\ r3.conv = r2.conv /\ r3.last = r2.last
  BY <1>1 DEF UpdateRunStatus, SetStatus, Run
<1> HIDE DEF r3
<1>7. /\ f.attempts = r3.attempts /\ f.hist = r3.hist /\ f.conv = r3.conv /\ f.last = r3.last
      /\ \A n \in Node : f.node[n] = IF n \in Chosen(r3) THEN "Starting" ELSE r3.node[n]
  BY <1>1 DEF Schedule, Run
<1>8. \A n \in Chosen(r3) : n \in Node /\ r3.node[n] = "Pending"
  BY DEF Chosen, Runnable
<1> HIDE DEF f
<1>9. \A n \in Node :
        \/ f.node[n] = r.node[n]
        \/ r.node[n] \in {"Pending", "Waiting"} /\ f.node[n] \in {"Blocked", "Starting"}
  BY <1>3, <1>4, <1>5, <1>6, <1>7, <1>8
<1>10. \A n \in Node : n \in Closing(r1) <=> r.conv[n] # None /\ f.node[n] \in Released
  BY <1>3, <1>5, <1>6, <1>7, <1>8 DEF Closing, Released
<1>11. \A n \in Node :
         IF r.conv[n] # None /\ f.node[n] \in Released
           THEN f.conv[n] = None /\ f.last[n] = r.conv[n]
           ELSE f.conv[n] = r.conv[n] /\ f.last[n] = r.last[n]
  BY <1>3, <1>5, <1>6, <1>7, <1>10
<1>12. \A c \in FinishStep(b, r).close : \E n \in Node :
         c = r.conv[n] /\ c # None /\ f.node[n] \in Released
  BY <1>2, <1>3, <1>10 DEF Closing
<1>13. \A n \in Node : r.conv[n] # None /\ f.node[n] \in Released
                         => r.conv[n] \in FinishStep(b, r).close
  BY <1>2, <1>3, <1>10
<1> QED BY <1>1, <1>2, <1>3, <1>5, <1>6, <1>7, <1>9, <1>11, <1>12, <1>13

(***************************************************************************)
(* What a run holds.                                                       *)
(***************************************************************************)
\* The attempts of a node are used up exactly when it has Failed.
Attempts(r) ==
  \A n \in Node : /\ r.attempts[n] <= MaxAttempts[n]
                  /\ r.attempts[n] = MaxAttempts[n] <=> r.node[n] = "Failed"

\* OneOwner of any run, with what a reset node still remembers: its last
\* session is one of its own too.
Owned(r, given) ==
  \A n \in Node :
    /\ r.node[n] \in {"Running", "WaitingForPlan"} => r.conv[n] # None /\ r.last[n] = r.conv[n]
    /\ r.conv[n] # None => r.conv[n] \in r.hist[n]
    /\ r.last[n] # None => r.last[n] \in r.hist[n]
    /\ r.hist[n] \subseteq given
    /\ \A m \in Node \ {n} : r.hist[n] \cap r.hist[m] = {}

Shown(r, open) == \A n \in Node : r.node[n] = "Running" => r.conv[n] \in open

Armed(r, pending) == \A n \in Node : r.node[n] = "Waiting" => pending[n] > 0

Held ==
  /\ Attempts(run) /\ Owned(run, used) /\ Shown(run, windows) /\ Armed(run, timers)
  /\ loadRead # None => Attempts(loadRead) /\ Owned(loadRead, used)

\* Two nodes never share a session.
LEMMA OwnersDiffer ==
  ASSUME NEW r \in Run, NEW given, Owned(r, given),
         NEW n \in Node, NEW m \in Node, r.conv[n] # None, r.conv[n] = r.conv[m]
  PROVE  n = m
BY DEF Owned

\* finishStep preserves what a run holds: it closes the sessions of nodes
\* that are not Running, and arms a timer for each node that entered Waiting.
LEMMA FinishHolds ==
  ASSUME NEW b, NEW r \in Run, NEW given, NEW open,
         Attempts(r), Owned(r, given), Shown(r, open),
         NEW armed \in [Node -> Nat], NEW pending,
         \A n \in Node : r.node[n] = "Waiting" /\ b.node[n] = "Waiting" => armed[n] > 0,
         pending = [n \in Node |-> IF n \in FinishStep(b, r).retry THEN armed[n] + 1 ELSE armed[n]]
  PROVE  LET f == FinishStep(b, r)
         IN  /\ Attempts(f.run) /\ Owned(f.run, given)
             /\ Shown(f.run, open \ f.close) /\ Armed(f.run, pending)
PROOF
<1> DEFINE f == FinishStep(b, r)
<1>1. /\ f.run.attempts = r.attempts /\ f.run.hist = r.hist
      /\ \A n \in Node :
           \/ f.run.node[n] = r.node[n]
           \/ r.node[n] \in {"Pending", "Waiting"} /\ f.run.node[n] \in {"Blocked", "Starting"}
  BY FinishFields
<1>2. /\ \A n \in Node :
           IF r.conv[n] # None /\ f.run.node[n] \in Released
             THEN f.run.conv[n] = None /\ f.run.last[n] = r.conv[n]
             ELSE f.run.conv[n] = r.conv[n] /\ f.run.last[n] = r.last[n]
      /\ \A c \in f.close : \E n \in Node :
           c = r.conv[n] /\ c # None /\ f.run.node[n] \in Released
  BY FinishFields
<1>3. f.retry = {n \in Node : f.run.node[n] = "Waiting" /\ b.node[n] # "Waiting"}
  BY FinishFields
<1>4. pending = [n \in Node |-> IF n \in f.retry THEN armed[n] + 1 ELSE armed[n]]
  OBVIOUS
<1> HIDE DEF f
<1>5. Attempts(f.run)
  BY <1>1 DEF Attempts
<1>6. Owned(f.run, given)
  BY <1>1, <1>2 DEF Owned, Released
<1>7. Shown(f.run, open \ f.close)
  <2> SUFFICES ASSUME NEW n \in Node, f.run.node[n] = "Running"
               PROVE  f.run.conv[n] \in open \ f.close
    BY DEF Shown
  <2>1. r.node[n] = "Running" /\ f.run.conv[n] = r.conv[n] /\ r.conv[n] # None
    BY <1>1, <1>2 DEF Released, Owned
  <2>2. ASSUME r.conv[n] \in f.close PROVE FALSE
    <3>1. PICK m \in Node : r.conv[n] = r.conv[m] /\ f.run.node[m] \in Released
      BY <1>2, <2>2
    <3>2. m = n
      BY <2>1, <3>1, OwnersDiffer
    <3> QED BY <3>1, <3>2 DEF Released
  <2> QED BY <2>1, <2>2 DEF Shown
<1>8. Armed(f.run, pending)
  <2> SUFFICES ASSUME NEW n \in Node, f.run.node[n] = "Waiting" PROVE pending[n] > 0
    BY DEF Armed
  <2>1. r.node[n] = "Waiting" /\ armed[n] \in Nat
    BY <1>1
  <2> QED BY <1>3, <1>4, <2>1
<1> QED BY <1>5, <1>6, <1>7, <1>8 DEF f

(***************************************************************************)
(* The handlers.                                                           *)
(***************************************************************************)
\* What a handler that binds no session makes of the run.
Change(r) ==
  \/ r \in {run, PauseRun(run), ResumeRun(run)}
  \/ r = StopRun(run)
  \/ r = StartRun(run)
  \/ "Restart" \in Clicks /\ r = RestartRun(run)
  \/ \E n \in Node :
       \/ "Cascade" \in Clicks /\ r = ResumeBranchFrom(run, n)
       \/ r = RetryNode(run, n)
       \/ r \in {SessionDisconnected(run, n), SessionError(run, n), SessionCreateFailed(run, n)}
       \/ r = RetryTick(run, n)
       \/ run.conv[n] \in windows /\ r = ResumeDelegatedNode(run, n)
       \/ \E c \in Conv, d \in BOOLEAN : r = TaskDone(run, n, c, d)

Holds(r) == Attempts(r) /\ Owned(r, used) /\ Shown(r, windows)

LEMMA ResetHolds ==
  ASSUME run \in Run, Attempts(run), Owned(run, used), Shown(run, windows), NEW S,
         NEW st \in RunStatus
  PROVE  Holds(SetStatus(ResetNodes(run, S), st))
PROOF
<1> DEFINE r == SetStatus(ResetNodes(run, S), st)
<1>1. r.hist = run.hist /\ \A n \in Node :
        /\ r.node[n] = IF n \in S THEN "Pending" ELSE run.node[n]
        /\ r.attempts[n] = IF n \in S THEN 0 ELSE run.attempts[n]
        /\ r.conv[n] = IF n \in S THEN None ELSE run.conv[n]
        /\ r.last[n] = IF n \in S THEN None ELSE run.last[n]
  BY DEF SetStatus, ResetNodes, Run
<1>2. \A n \in Node : 0 < MaxAttempts[n]
  BY CapAssumption
<1> HIDE DEF r
<1>3. Attempts(r)
  BY <1>1, <1>2, CapAssumption DEF Attempts
<1>4. Owned(r, used) /\ Shown(r, windows)
  BY <1>1 DEF Owned, Shown
<1> QED BY <1>3, <1>4 DEF Holds, r

LEMMA ChangeHolds ==
  ASSUME run \in Run, Attempts(run), Owned(run, used), Shown(run, windows),
         NEW r \in Run, Change(r)
  PROVE  Holds(r)
PROOF
<1>0. /\ run.node \in [Node -> NodeStatus] /\ run.attempts \in [Node -> Nat]
      /\ MaxAttempts \in [Node -> Nat \ {0}] /\ run.status \in RunStatus
      /\ {"InProgress", "Paused"} \subseteq RunStatus
  BY CapAssumption DEF Run, RunStatus
\* A handler that moves a node, if at all, to a status that needs nothing.
<1>k. ASSUME r.hist = run.hist, r.conv = run.conv, r.last = run.last, r.attempts = run.attempts,
             \A n \in Node : \/ r.node[n] = run.node[n]
                             \/ /\ run.node[n] # "Failed"
                                /\ r.node[n] \in {"Pending", "Canceled", "Succeeded"}
                             \/ run.node[n] = "Running" /\ r.node[n] = "WaitingForPlan"
                             \/ /\ run.node[n] = "WaitingForPlan" /\ r.node[n] = "Running"
                                /\ run.conv[n] \in windows
      PROVE  Holds(r)
  <2>1. Attempts(r)
    BY <1>k DEF Attempts
  <2>2. Owned(r, used)
    BY <1>k DEF Owned
  <2>3. Shown(r, windows)
    BY <1>k DEF Shown
  <2> QED BY <2>1, <2>2, <2>3 DEF Holds
<1>s. ASSUME r = run PROVE Holds(r)
  BY <1>k, <1>s
<1>1. CASE r \in {run, PauseRun(run), ResumeRun(run)}
  <2>1. /\ r.hist = run.hist /\ r.conv = run.conv /\ r.last = run.last
        /\ r.attempts = run.attempts /\ r.node = run.node
    BY <1>0, <1>1 DEF PauseRun, ResumeRun, SetStatus, Run
  <2> QED BY <1>k, <2>1
<1>2. CASE r = StopRun(run)
  <2>1. /\ r.hist = run.hist /\ r.conv = run.conv /\ r.last = run.last
        /\ r.attempts = run.attempts
        /\ \A n \in Node : \/ r.node[n] = run.node[n]
                           \/ run.node[n] # "Failed" /\ r.node[n] = "Canceled"
    BY <1>0, <1>2 DEF StopRun, Stoppable, Run
  <2> QED BY <1>k, <2>1
<1>3. CASE r \in {StartRun(run), RestartRun(run)}
  <2>1. r = run \/ \E S : r = SetStatus(ResetNodes(run, S), "InProgress")
    BY <1>3 DEF StartRun, RestartRun
  <2> QED BY <1>0, <1>s, <2>1, ResetHolds
<1>4. ASSUME NEW n \in Node, r = ResumeBranchFrom(run, n) PROVE Holds(r)
  <2>1. r = run \/ \E S : r = SetStatus(ResetNodes(run, S), "InProgress")
    BY <1>4 DEF ResumeBranchFrom
  <2> QED BY <1>0, <1>s, <2>1, ResetHolds
<1>5. ASSUME NEW n \in Node, r = RetryNode(run, n) PROVE Holds(r)
  <2>1. /\ r.hist = run.hist /\ r.conv = run.conv /\ r.last = run.last
        /\ \A m \in Node \ {n} : r.node[m] = run.node[m] /\ r.attempts[m] = run.attempts[m]
        /\ \/ r.node[n] = run.node[n] /\ r.attempts[n] = run.attempts[n]
           \/ run.node[n] = "Waiting" /\ r.node[n] = "Pending" /\ r.attempts[n] = run.attempts[n]
           \/ r.node[n] = "Pending" /\ r.attempts[n] = 0
    BY <1>0, <1>5 DEF RetryNode, SetStatus, Run
  <2>2. Attempts(r)
    BY <1>0, <2>1 DEF Attempts
  <2>3. Owned(r, used) /\ Shown(r, windows)
    BY <2>1 DEF Owned, Shown
  <2> QED BY <2>2, <2>3 DEF Holds
<1>6. ASSUME NEW n \in Node,
             r \in {SessionDisconnected(run, n), SessionError(run, n), SessionCreateFailed(run, n)}
      PROVE  Holds(r)
  <2>1. r = run \/ (run.node[n] \in {"Running", "Starting"} /\ r = FailNode(run, n))
    BY <1>6 DEF SessionDisconnected, SessionError, SessionCreateFailed
  <2>2. CASE r = run
    BY <1>s, <2>2
  <2>3. CASE run.node[n] \in {"Running", "Starting"} /\ r = FailNode(run, n)
    <3>1. /\ r.hist = run.hist /\ r.conv = run.conv /\ r.last = run.last
          /\ \A m \in Node \ {n} : r.node[m] = run.node[m] /\ r.attempts[m] = run.attempts[m]
          /\ r.attempts[n] = run.attempts[n] + 1
          /\ r.node[n] = IF run.attempts[n] + 1 < MaxAttempts[n] THEN "Waiting" ELSE "Failed"
      BY <1>0, <2>3 DEF FailNode, Run
    <3>2. Attempts(r)
      BY <1>0, <2>3, <3>1 DEF Attempts
    <3>3. Owned(r, used) /\ Shown(r, windows)
      BY <3>1 DEF Owned, Shown
    <3> QED BY <3>2, <3>3 DEF Holds
  <2> QED BY <2>1, <2>2, <2>3
<1>7. ASSUME NEW n \in Node, r = RetryTick(run, n) PROVE Holds(r)
  <2>1. /\ r.hist = run.hist /\ r.conv = run.conv /\ r.last = run.last /\ r.attempts = run.attempts
        /\ \A m \in Node : \/ r.node[m] = run.node[m]
                           \/ run.node[m] = "Waiting" /\ r.node[m] = "Pending"
    BY <1>0, <1>7 DEF RetryTick, Run
  <2> QED BY <1>k, <2>1
<1>8. ASSUME NEW n \in Node, run.conv[n] \in windows, r = ResumeDelegatedNode(run, n)
      PROVE  Holds(r)
  <2>1. /\ r.hist = run.hist /\ r.conv = run.conv /\ r.last = run.last /\ r.attempts = run.attempts
        /\ \A m \in Node : \/ r.node[m] = run.node[m]
                           \/ m = n /\ run.node[m] = "WaitingForPlan" /\ r.node[m] = "Running"
    BY <1>0, <1>8 DEF ResumeDelegatedNode, Run
  <2> QED BY <1>8, <1>k, <2>1
<1>9. ASSUME NEW n \in Node, NEW c \in Conv, NEW d \in BOOLEAN, r = TaskDone(run, n, c, d)
      PROVE  Holds(r)
  <2>1. /\ r.hist = run.hist /\ r.conv = run.conv /\ r.last = run.last /\ r.attempts = run.attempts
        /\ \A m \in Node : \/ r.node[m] = run.node[m]
                           \/ /\ run.node[m] \in {"Running", "WaitingForPlan"}
                              /\ r.node[m] = "Succeeded"
                           \/ run.node[m] = "Running" /\ r.node[m] = "WaitingForPlan"
    BY <1>0, <1>9 DEF TaskDone, Succeed, Run
  <2> QED BY <1>k, <2>1
<1> QED BY <1>1, <1>2, <1>3, <1>4, <1>5, <1>6, <1>7, <1>8, <1>9 DEF Change

(***************************************************************************)
(* The steps, with the windows, timers and sessions they touch.            *)
(***************************************************************************)
Enacts(b, r, open, armed) ==
  LET f == FinishStep(b, r)
  IN  /\ run' = f.run
      /\ windows' = open \ f.close
      /\ timers' = [n \in Node |-> IF n \in f.retry THEN armed[n] + 1 ELSE armed[n]]

\* The run changes in none of what it holds, and a window is the user's; what
\* is read is the run.
Reopens == \E n \in Node : PlanOpenNodeSession(n)
Rests ==
  /\ run' = run /\ windows \subseteq windows' /\ timers' = timers /\ used' = used
  /\ windows' = windows \/ Reopens
  /\ loadRead' = loadRead \/ ("Load" \in Clicks /\ loadRead' = run)

Handles(r) == Change(r) /\ Enacts(run, r, windows, timers) /\ used' = used /\ loadRead' = loadRead

\* The session c is lost, and its window perhaps closed.
Without(c) ==
  IF Bound(run, c) = {} THEN run ELSE SessionDisconnected(run, NodeBySessionId(run, c))
Loses(c) ==
  /\ Enacts(run, Without(c), windows \ {c}, timers) \/ Enacts(run, Without(c), windows, timers)
  /\ used' = used /\ loadRead' = loadRead

Ticks(n) ==
  /\ timers[n] > 0 /\ Enacts(run, RetryTick(run, n), windows, [timers EXCEPT ![n] = @ - 1])
  /\ used' = used /\ loadRead' = loadRead

Takes(n, c) ==
  LET f   == FinishStep(run, SessionCreatedFor(run, n, c))
      new == IF f.run.node[n] = "Running" /\ f.run.conv[n] = c THEN {c} ELSE {}
  IN  /\ c \notin used /\ used' = used \cup {c} /\ loadRead' = loadRead
      /\ Enacts(run, SessionCreatedFor(run, n, c), windows \cup new, timers)

Reads ==
  /\ loadRead # None /\ loadRead' = None /\ used' = used
  /\ Enacts(ResumeState(loadRead), ContinueRun(ResumeState(loadRead)), windows, timers)

Revives(n) ==
  /\ "Cascade" \in Clicks /\ run.node[n] = "Succeeded" /\ run.last[n] # None
  /\ Enacts(CascadeBase(n), ResumeDelegatedNode(CascadeBase(n), n),
            windows \cup {run.last[n]}, timers)
  /\ used' = used /\ loadRead' = loadRead

LEMMA StepKinds ==
  ASSUME TypeOK, [Next]_vars
  PROVE  \/ Rests \/ Reads
         \/ \E r \in Run : Handles(r)
         \/ \E c \in Conv : Loses(c)
         \/ \E n \in Node : Ticks(n) \/ Revives(n) \/ \E c \in Conv : Takes(n, c)
PROOF
<1>0. run \in Run
  BY DEF TypeOK
<1>r. ASSUME NEW r \in Run, Change(r), RunStepIn(r), used' = used, loadRead' = loadRead
      PROVE  Handles(r)
  BY <1>r DEF Handles, Enacts, RunStepIn, Enact
<1>1. CASE PlanRunStart
  <2>1. StartRun(run) \in Run /\ Change(StartRun(run))
    BY <1>0, HandlerTypes DEF Change
  <2> QED BY <1>1, <1>r, <2>1 DEF PlanRunStart
<1>2. CASE PlanResume
  BY <1>2 DEF PlanResume, Rests, Click
<1>3. CASE PlanReadResult
  BY <1>3 DEF PlanReadResult, Reads, Enacts, Enact
<1>4. CASE PlanRunPause
  <2>1. PauseRun(run) \in Run /\ Change(PauseRun(run))
    BY <1>0, HandlerTypes DEF Change
  <2> QED BY <1>4, <1>r, <2>1 DEF PlanRunPause
<1>5. CASE PlanRunResume
  <2>1. ResumeRun(run) \in Run /\ Change(ResumeRun(run))
    BY <1>0, HandlerTypes DEF Change
  <2> QED BY <1>5, <1>r, <2>1 DEF PlanRunResume
<1>6. CASE PlanRunStop
  <2>1. StopRun(run) \in Run /\ Change(StopRun(run))
    BY <1>0, HandlerTypes DEF Change
  <2>2. Handles(StopRun(run))
    BY <1>6, <2>1 DEF PlanRunStop, Handles, Enacts, Enact
  <2> QED BY <2>1, <2>2
<1>7. CASE PlanRunRestart
  <2>1. RestartRun(run) \in Run /\ Change(RestartRun(run))
    BY <1>0, <1>7, HandlerTypes DEF Change, PlanRunRestart, Click
  <2> QED BY <1>7, <1>r, <2>1 DEF PlanRunRestart
<1>8. ASSUME NEW n \in Node, PlanRunRetryNode(n) PROVE \E r \in Run : Handles(r)
  <2>1. RetryNode(run, n) \in Run /\ Change(RetryNode(run, n))
    BY <1>0, NodeHandlerTypes DEF Change
  <2> QED BY <1>8, <1>r, <2>1 DEF PlanRunRetryNode
<1>9. ASSUME NEW n \in Node, CascadeBranchRerun(n) PROVE \E r \in Run : Handles(r)
  <2>1. ResumeBranchFrom(run, n) \in Run /\ Change(ResumeBranchFrom(run, n))
    BY <1>0, <1>9, NodeHandlerTypes DEF Change, CascadeBranchRerun, Click
  <2> QED BY <1>9, <1>r, <2>1 DEF CascadeBranchRerun
<1>10. ASSUME NEW c \in Conv, CloseSession(c) PROVE Loses(c)
  BY <1>10 DEF CloseSession, Loses, Without, Enacts, Enact
<1>11. ASSUME NEW c \in Conv, DisconnectFrame(c) PROVE Loses(c)
  BY <1>11 DEF DisconnectFrame, Loses, Without, Enacts, Enact
<1>12. ASSUME NEW n \in Node, PlanOpenNodeSession(n) PROVE Rests
  <2>1. Reopens
    BY <1>12 DEF Reopens
  <2>2. run' = run /\ windows \subseteq windows' /\ UNCHANGED <<timers, used, loadRead>>
    BY <1>12 DEF PlanOpenNodeSession
  <2> QED BY <2>1, <2>2 DEF Rests
<1>13. ASSUME NEW n \in Node, CascadeResumeNode(n) PROVE Revives(n)
  BY <1>13 DEF CascadeResumeNode, Revives, CascadeBase, Enacts, Enact, Click
<1>14. ASSUME NEW c \in Conv, PlanBindSession(c)
       PROVE  planCreating \in Node /\ Takes(planCreating, c)
  <2>1. planCreating \in Node
    BY <1>14 DEF PlanBindSession, TypeOK
  <2>2. Takes(planCreating, c)
    BY <1>14 DEF PlanBindSession, Takes, Enacts, Enact
  <2> QED BY <2>1, <2>2
<1>15. CASE SessionCreateError
  <2>1. planCreating \in Node
    BY <1>15 DEF SessionCreateError, TypeOK
  <2> DEFINE r == SessionCreateFailed(run, planCreating)
  <2>2. r \in Run /\ Change(r)
    BY <1>0, <2>1, NodeHandlerTypes DEF Change
  <2>3. Handles(r)
    BY <1>15, <2>2 DEF SessionCreateError, Handles, Enacts, Enact
  <2> QED BY <2>2, <2>3
<1>16. ASSUME NEW c \in Conv, NEW d \in BOOLEAN, TaskDoneFrame(c, d)
       PROVE  \E r \in Run : Handles(r)
  <2>1. NodeBySessionId(run, c) \in Node
    BY <1>0, <1>16, BoundNode DEF TaskDoneFrame, Routed
  <2> DEFINE r == TaskDone(run, NodeBySessionId(run, c), c, d)
  <2>2. r \in Run /\ Change(r)
    BY <1>0, <2>1, NodeHandlerTypes DEF Change
  <2> QED BY <1>16, <1>r, <2>2 DEF TaskDoneFrame
<1>17. ASSUME NEW c \in Conv, ErrorFrame(c) PROVE \E r \in Run : Handles(r)
  <2>1. NodeBySessionId(run, c) \in Node
    BY <1>0, <1>17, BoundNode DEF ErrorFrame, Routed
  <2> DEFINE r == SessionError(run, NodeBySessionId(run, c))
  <2>2. r \in Run /\ Change(r)
    BY <1>0, <2>1, NodeHandlerTypes DEF Change
  <2> QED BY <1>17, <1>r, <2>2 DEF ErrorFrame
<1>18. ASSUME NEW c \in Conv, FeedbackFrame(c) PROVE \E r \in Run : Handles(r)
  <2> DEFINE n == NodeBySessionId(run, c)
             r == ResumeDelegatedNode(run, n)
  <2>1. n \in Node /\ run.conv[n] = c /\ c \in windows
    BY <1>0, <1>18, BoundNode DEF FeedbackFrame
  <2>2. r \in Run /\ Change(r)
    BY <1>0, <2>1, NodeHandlerTypes DEF Change
  <2> QED BY <1>18, <1>r, <2>2 DEF FeedbackFrame
<1>19. ASSUME NEW n \in Node, PlanRunnerTick(n) PROVE Ticks(n)
  BY <1>19 DEF PlanRunnerTick, Ticks, Enacts, Enact
<1>20. CASE UNCHANGED vars
  BY <1>20 DEF vars, Rests
<1>21. CASE Next
  BY <1>1, <1>2, <1>3, <1>4, <1>5, <1>6, <1>7, <1>8, <1>9, <1>10, <1>11, <1>12, <1>13,
     <1>14, <1>15, <1>16, <1>17, <1>18, <1>19, <1>21
     DEF Next, User, CreateReply, SessionEnds
<1> QED BY <1>20, <1>21

(***************************************************************************)
(* A run holds what it needs, and no more than it may.                     *)
(***************************************************************************)
\* Once r holds what it should beside the open windows and the armed timers,
\* so does the run that finishStep makes of it.
LEMMA EnactedHolds ==
  ASSUME TypeOK, Held, NEW b, NEW r \in Run, NEW open, NEW armed \in [Node -> Nat],
         Enacts(b, r, open, armed),
         used \subseteq used', loadRead' \in {loadRead, None},
         Attempts(r), Owned(r, used'), Shown(r, open),
         \A n \in Node : r.node[n] = "Waiting" /\ b.node[n] = "Waiting" => armed[n] > 0
  PROVE  Held'
PROOF
<1> DEFINE f == FinishStep(b, r)
           pending == [n \in Node |-> IF n \in f.retry THEN armed[n] + 1 ELSE armed[n]]
<1>1. /\ Attempts(f.run) /\ Owned(f.run, used')
      /\ Shown(f.run, open \ f.close) /\ Armed(f.run, pending)
  BY FinishHolds
<1>2. run' = f.run /\ windows' = open \ f.close /\ timers' = pending
  BY DEF Enacts
<1>3. ASSUME loadRead' # None PROVE Attempts(loadRead') /\ Owned(loadRead', used')
  <2>1. loadRead' = loadRead /\ Attempts(loadRead) /\ Owned(loadRead, used)
    BY <1>3 DEF Held
  <2>2. Owned(loadRead, used')
    BY <2>1 DEF Owned
  <2> QED BY <2>1, <2>2
<1> HIDE DEF f, pending
<1>4. Attempts(run') /\ Owned(run', used') /\ Shown(run', windows') /\ Armed(run', timers')
  BY <1>1, <1>2
<1> QED BY <1>3, <1>4 DEF Held, Attempts, Owned, Shown, Armed

LEMMA HeldStep ==
  ASSUME TypeOK, Held, [Next]_vars
  PROVE  Held'
PROOF
<1>0. /\ run \in Run /\ timers \in [Node -> Nat] /\ loadRead \in Run \cup {None}
      /\ Attempts(run) /\ Owned(run, used) /\ Shown(run, windows) /\ Armed(run, timers)
      /\ run.node \in [Node -> NodeStatus]
      /\ \A n \in Node : run.node[n] = "Waiting" => timers[n] > 0
  BY DEF TypeOK, Held, Run, Armed
<1>1. CASE Rests
  <2>1. /\ run' = run /\ timers' = timers /\ used' = used
        /\ Attempts(run') /\ Owned(run', used') /\ Armed(run', timers') /\ Shown(run', windows')
    BY <1>0, <1>1 DEF Rests, Shown
  <2>2. loadRead' # None => Attempts(loadRead') /\ Owned(loadRead', used')
    BY <1>0, <1>1 DEF Rests, Held
  <2> QED BY <2>1, <2>2 DEF Held, Attempts, Owned, Shown, Armed
<1>2. ASSUME NEW r \in Run, Handles(r) PROVE Held'
  <2>1. Holds(r) /\ Enacts(run, r, windows, timers) /\ used' = used /\ loadRead' = loadRead
    BY <1>0, <1>2, ChangeHolds DEF Handles
  <2> QED BY <1>0, <2>1, EnactedHolds DEF Holds
<1>3. ASSUME NEW c \in Conv, Loses(c) PROVE Held'
  <2> DEFINE r == Without(c)
  <2>1. r \in Run /\ Holds(r)
    <3>1. CASE Bound(run, c) = {}
      <4>1. r = run /\ Change(r)
        BY <3>1 DEF Without, Change
      <4> QED BY <1>0, <4>1, ChangeHolds
    <3>2. CASE Bound(run, c) # {}
      <4>1. NodeBySessionId(run, c) \in Node /\ r = SessionDisconnected(run, NodeBySessionId(run, c))
        BY <1>0, <3>2, BoundNode DEF Without
      <4> HIDE DEF r
      <4>2. r \in Run /\ Change(r)
        BY <1>0, <4>1, NodeHandlerTypes DEF Change
      <4> QED BY <1>0, <4>2, ChangeHolds
    <3> QED BY <3>1, <3>2
  <2>2. \A n \in Node : r.node[n] = "Running" => r.conv[n] # c
    <3>1. CASE Bound(run, c) = {}
      BY <3>1 DEF Without, Bound
    <3>2. CASE Bound(run, c) # {}
      <4> DEFINE m == NodeBySessionId(run, c)
      <4>1. m \in Node /\ run.conv[m] = c /\ r = SessionDisconnected(run, m)
        BY <1>0, <3>2, BoundNode DEF Without
      <4> HIDE DEF m, r
      <4>2. /\ r.conv = run.conv
            /\ r.node[m] # "Running"
        BY <1>0, <4>1 DEF SessionDisconnected, FailNode, Run
      <4>3. \A n \in Node : run.conv[n] = c => n = m
        BY <1>0, <4>1, NoneAssumption, OwnersDiffer
      <4> QED BY <4>2, <4>3
    <3> QED BY <3>1, <3>2
  <2> HIDE DEF r
  <2>3. Shown(r, windows \ {c}) /\ Shown(r, windows)
    BY <2>1, <2>2 DEF Holds, Shown
  <2>4. /\ Enacts(run, r, windows \ {c}, timers) \/ Enacts(run, r, windows, timers)
        /\ used' = used /\ loadRead' = loadRead
    BY <1>3 DEF Loses, r
  <2> QED BY <1>0, <2>1, <2>3, <2>4, EnactedHolds DEF Holds
<1>4. ASSUME NEW n \in Node, Ticks(n) PROVE Held'
  <2> DEFINE r == RetryTick(run, n)
             armed == [timers EXCEPT ![n] = @ - 1]
  <2>1. /\ timers[n] > 0 /\ Enacts(run, r, windows, armed)
        /\ used' = used /\ loadRead' = loadRead
    BY <1>4 DEF Ticks
  <2>2. armed \in [Node -> Nat] /\ \A m \in Node \ {n} : armed[m] = timers[m]
    BY <1>0, <2>1
  <2>3. r \in Run /\ Change(r)
    BY <1>0, NodeHandlerTypes DEF Change
  <2>4. Holds(r)
    BY <1>0, <2>3, ChangeHolds
  <2>5. r.node[n] # "Waiting"
    BY <1>0 DEF RetryTick, Run
  <2> HIDE DEF r, armed
  <2>6. \A m \in Node : r.node[m] = "Waiting" /\ run.node[m] = "Waiting" => armed[m] > 0
    BY <1>0, <2>2, <2>5
  <2>7. /\ Attempts(r) /\ Owned(r, used') /\ Shown(r, windows)
        /\ used \subseteq used' /\ loadRead' \in {loadRead, None}
        /\ r \in Run /\ armed \in [Node -> Nat] /\ Enacts(run, r, windows, armed)
    BY <2>1, <2>2, <2>3, <2>4 DEF Holds
  <2> QED BY <2>6, <2>7, EnactedHolds
<1>5. ASSUME NEW n \in Node, NEW c \in Conv, Takes(n, c) PROVE Held'
  <2> DEFINE r   == SessionCreatedFor(run, n, c)
             f   == FinishStep(run, r)
             new == IF f.run.node[n] = "Running" /\ f.run.conv[n] = c THEN {c} ELSE {}
  <2>1. /\ c \notin used /\ used' = used \cup {c} /\ loadRead' = loadRead
        /\ Enacts(run, r, windows \cup new, timers)
    BY <1>5 DEF Takes
  <2>2. r \in Run
    BY <1>0, NodeHandlerTypes
  <2>3. CASE run.node[n] = "Starting"
    <3>1. /\ r.attempts = run.attempts
          /\ r.node[n] = "Running" /\ r.conv[n] = c /\ r.last[n] = c /\ r.hist[n] = run.hist[n] \cup {c}
          /\ \A m \in Node \ {n} : /\ r.node[m] = run.node[m] /\ r.conv[m] = run.conv[m]
                                   /\ r.last[m] = run.last[m] /\ r.hist[m] = run.hist[m]
      BY <1>0, <2>3 DEF SessionCreatedFor, Binds, Run
    <3>2. /\ f.run.node[n] = "Running" /\ f.run.conv[n] = c
      <4>1. f.run.node[n] = r.node[n]
        BY <2>2, <3>1, FinishFields
      <4>2. f.run.conv[n] = r.conv[n]
        BY <2>2, <3>1, <4>1, FinishFields DEF Released
      <4> QED BY <3>1, <4>1, <4>2
    <3>3. new = {c}
      BY <3>2
    <3> HIDE DEF r, new, f
    <3>4. Attempts(r)
      BY <1>0, <2>3, <3>1 DEF Attempts
    <3>5. Owned(r, used')
      BY <1>0, <2>1, <3>1, NoneAssumption DEF Owned
    <3>6. Shown(r, windows \cup new)
      BY <1>0, <3>1, <3>3 DEF Shown
    <3>7. \A m \in Node : r.node[m] = "Waiting" => run.node[m] = "Waiting"
      BY <3>1
    <3> QED BY <1>0, <2>1, <2>2, <3>4, <3>5, <3>6, <3>7, EnactedHolds
  <2>4. CASE run.node[n] # "Starting"
    <3>1. r = run
      BY <2>4 DEF SessionCreatedFor, Binds
    <3> HIDE DEF r, new
    <3>2. Owned(r, used') /\ Shown(r, windows \cup new) /\ Attempts(r)
      BY <1>0, <2>1, <3>1 DEF Owned, Shown
    <3> QED BY <1>0, <2>1, <2>2, <3>1, <3>2, EnactedHolds
  <2> QED BY <2>3, <2>4
<1>6. CASE Reads
  <2> DEFINE b == ResumeState(loadRead)
             r == ContinueRun(b)
  <2>1. /\ loadRead \in Run /\ loadRead' = None /\ used' = used
        /\ Attempts(loadRead) /\ Owned(loadRead, used)
        /\ Enacts(b, r, windows, timers)
    BY <1>0, <1>6 DEF Reads, Held
  <2>2. b \in Run /\ r \in Run
    BY <2>1, HandlerTypes
  <2>3. /\ r.node = b.node /\ r.attempts = b.attempts /\ r.conv = b.conv
        /\ r.last = b.last /\ r.hist = b.hist
    BY <2>2 DEF ContinueRun, SetStatus, Run
  <2>4. /\ b.last = loadRead.last /\ b.hist = loadRead.hist
        /\ \A n \in Node :
             /\ b.node[n] = IF loadRead.node[n] \in {"Succeeded", "WaitingForPlan", "Pending"}
                              THEN loadRead.node[n] ELSE "Pending"
             /\ b.attempts[n] = IF loadRead.node[n] \in {"Failed", "Blocked", "Canceled"}
                                  THEN 0 ELSE loadRead.attempts[n]
             /\ b.conv[n] = IF loadRead.node[n] \in ActiveStatus THEN None ELSE loadRead.conv[n]
    BY <2>1 DEF ResumeState, Run
  <2> HIDE DEF b, r
  <2>5. Attempts(r)
    BY <2>1, <2>3, <2>4, CapAssumption DEF Attempts
  <2>6. Owned(r, used')
    BY <2>1, <2>3, <2>4 DEF Owned, ActiveStatus
  <2>7. \A n \in Node : r.node[n] \notin {"Running", "Waiting"}
    BY <2>3, <2>4
  <2>8. Shown(r, windows)
    BY <2>7 DEF Shown
  <2>9. used \subseteq used' /\ loadRead' \in {loadRead, None}
    BY <2>1
  <2>10. \A n \in Node : ~ (r.node[n] = "Waiting")
    BY <2>7
  <2>11. r \in Run /\ Enacts(b, r, windows, timers) /\ timers \in [Node -> Nat] /\ Owned(r, used')
    BY <1>0, <2>1, <2>2, <2>6
  <2> QED BY <2>5, <2>8, <2>9, <2>10, <2>11, EnactedHolds
<1>7. ASSUME NEW n \in Node, Revives(n) PROVE Held'
  <2> DEFINE b == CascadeBase(n)
             r == ResumeDelegatedNode(b, n)
  <2>1. /\ run.node[n] = "Succeeded" /\ run.last[n] # None
        /\ Enacts(b, r, windows \cup {run.last[n]}, timers)
        /\ used' = used /\ loadRead' = loadRead
    BY <1>7 DEF Revives
  <2>2. run.last[n] \in MaybeConv
    BY <1>0 DEF Run
  <2>3. b \in Run
    BY <1>0, <2>2 DEF CascadeBase, Run, NodeStatus, RunStatus
  <2>4. /\ b.attempts = run.attempts /\ b.last = run.last /\ b.hist = run.hist
        /\ b.node[n] = "WaitingForPlan" /\ b.conv[n] = run.last[n]
        /\ \A m \in Node \ {n} : b.node[m] = run.node[m] /\ b.conv[m] = run.conv[m]
    BY <1>0 DEF CascadeBase, Run
  <2> HIDE DEF b
  <2>5. /\ r \in Run /\ r.attempts = b.attempts /\ r.last = b.last /\ r.hist = b.hist
        /\ r.conv = b.conv /\ r.node[n] = "Running"
        /\ \A m \in Node \ {n} : r.node[m] = b.node[m]
    <3>1. r \in Run
      BY <2>3, NodeHandlerTypes
    <3>2. r = [b EXCEPT !.node[n] = "Running"]
      BY <2>4 DEF ResumeDelegatedNode
    <3> HIDE DEF r
    <3> QED BY <2>3, <3>1, <3>2 DEF Run
  <2> HIDE DEF r
  <2>6. Attempts(r)
    BY <1>0, <2>1, <2>4, <2>5 DEF Attempts
  <2>7. Owned(r, used')
    BY <1>0, <2>1, <2>4, <2>5 DEF Owned
  <2>8. Shown(r, windows \cup {run.last[n]})
    BY <1>0, <2>4, <2>5 DEF Shown
  <2>9. \A m \in Node : r.node[m] = "Waiting" => timers[m] > 0
    BY <1>0, <2>4, <2>5
  <2> QED BY <1>0, <2>1, <2>5, <2>6, <2>7, <2>8, <2>9, EnactedHolds
<1> QED BY <1>1, <1>2, <1>3, <1>4, <1>5, <1>6, <1>7, StepKinds

\* Sessions have one owner, a running node has its window, and the retry cap
\* holds with a timer for every node that backs off (PlanRunner's
\* ResourcesHeld), in every behaviour.
THEOREM HoldsItsResources == Spec => []ResourcesHeld
PROOF
<1>1. Init => Held
  <2> SUFFICES ASSUME Init PROVE Held
    OBVIOUS
  <2>1. /\ loadRead = None /\ \A n \in Node : /\ run.node[n] = "Pending" /\ run.attempts[n] = 0
                          /\ run.conv[n] = None /\ run.last[n] = None /\ run.hist[n] = {}
    BY DEF Init, EmptyRun
  <2>2. \A n \in Node : MaxAttempts[n] > 0
    BY CapAssumption
  <2> QED BY <2>1, <2>2, CapAssumption DEF Held, Attempts, Owned, Shown, Armed
<1>2. TypeOK /\ Held /\ [Next]_vars => Held'
  BY HeldStep
<1>3. TypeOK /\ Held => ResourcesHeld
  BY DEF Held, Attempts, Owned, Shown, Armed, ResourcesHeld, OneOwner, RunningHasWindow, RetryCap
<1> QED BY <1>1, <1>2, <1>3, TypeCorrect, PTL DEF Spec
(***************************************************************************)
(* What a step keeps.                                                      *)
(***************************************************************************)
\* A handler of a reply, a frame, a window's close or a timer touches only a
\* node that was being started, run, waited for or backed off.
LEMMA EventTouchesLive ==
  ASSUME NEW n \in Node, run.node[n] \notin Stoppable, NEW c, NEW d \in BOOLEAN
  PROVE  /\ SessionDisconnected(run, n) = run /\ SessionError(run, n) = run
         /\ SessionCreateFailed(run, n) = run /\ SessionCreatedFor(run, n, c) = run
         /\ TaskDone(run, n, c, d) = run /\ RetryTick(run, n) = run
         /\ ResumeDelegatedNode(run, n) = run
BY DEF Stoppable, SessionDisconnected, SessionError, SessionCreateFailed, SessionCreatedFor,
       Binds, TaskDone, RetryTick, ResumeDelegatedNode

StaysStopped ==
  run.status = "Stopped" /\ loadRead = None /\ clicks' = clicks =>
    run'.status = "Stopped" /\ run'.node = run.node /\ windows' \subseteq windows

LEMMA StoppedStep ==
  ASSUME TypeOK, Quiet(run), StatusSays(run), [Next]_vars
  PROVE  StaysStopped
PROOF
<1> SUFFICES ASSUME run.status = "Stopped", loadRead = None, clicks' = clicks
             PROVE  run' = run /\ windows' \subseteq windows
  BY DEF StaysStopped
<1>0. run \in Run /\ clicks \in Nat /\ \A n \in Node : run.node[n] \notin Stoppable
  BY DEF TypeOK, StatusSays
<1>1. clicks' # clicks + 1
  BY <1>0
<1>2. FinishStep(run, run).run = run
  BY <1>0, QuietSettled
<1>e. ASSUME NEW r, r = run, NEW open, open \subseteq windows, NEW live, NEW armed,
             Enact(FinishStep(run, r), open, live, armed)
      PROVE  run' = run /\ windows' \subseteq windows
  BY <1>2, <1>e DEF Enact
<1>3. ~ User
  BY <1>1 DEF User, Click, PlanRunStart, PlanResume, PlanRunPause, PlanRunResume, PlanRunStop,
              PlanRunRestart, PlanRunRetryNode, PlanOpenNodeSession, CascadeResumeNode,
              CascadeBranchRerun, CloseSession
<1>4. ~ PlanReadResult
  BY DEF PlanReadResult
<1>5. ASSUME NEW c \in Conv, PlanBindSession(c) PROVE run' = run /\ windows' \subseteq windows
  <2>1. planCreating \in Node
    BY <1>5 DEF PlanBindSession, TypeOK
  <2>2. SessionCreatedFor(run, planCreating, c) = run /\ run.node[planCreating] # "Running"
    BY <1>0, <2>1, EventTouchesLive DEF Stoppable
  <2> DEFINE f   == FinishStep(run, SessionCreatedFor(run, planCreating, c))
             new == IF f.run.node[planCreating] = "Running" /\ f.run.conv[planCreating] = c
                      THEN {c} ELSE {}
  <2>3. Enact(f, windows \cup new, alive \cup new, timers)
    BY <1>5 DEF PlanBindSession
  <2>4. new = {}
    BY <1>2, <2>2
  <2> HIDE DEF new
  <2>5. windows \cup new \subseteq windows
    BY <2>4
  <2> QED BY <1>e, <2>2, <2>3, <2>5
<1>6. CASE SessionCreateError
  <2>1. planCreating \in Node
    BY <1>6 DEF SessionCreateError, TypeOK
  <2>2. SessionCreateFailed(run, planCreating) = run
    BY <1>0, <2>1, EventTouchesLive
  <2> QED BY <1>6, <1>e, <2>2 DEF SessionCreateError
<1>7. ASSUME NEW c \in Conv, NEW d \in BOOLEAN, TaskDoneFrame(c, d)
      PROVE  run' = run /\ windows' \subseteq windows
  <2>1. NodeBySessionId(run, c) \in Node
    BY <1>0, <1>7, BoundNode DEF TaskDoneFrame, Routed
  <2>2. TaskDone(run, NodeBySessionId(run, c), c, d) = run
    BY <1>0, <2>1, EventTouchesLive
  <2> QED BY <1>7, <1>e, <2>2 DEF TaskDoneFrame, RunStepIn
<1>8. ASSUME NEW c \in Conv, ErrorFrame(c) PROVE run' = run /\ windows' \subseteq windows
  <2>1. NodeBySessionId(run, c) \in Node
    BY <1>0, <1>8, BoundNode DEF ErrorFrame, Routed
  <2>2. SessionError(run, NodeBySessionId(run, c)) = run
    BY <1>0, <2>1, EventTouchesLive
  <2> QED BY <1>8, <1>e, <2>2 DEF ErrorFrame, RunStepIn
<1>9. ASSUME NEW c \in Conv, DisconnectFrame(c) PROVE run' = run /\ windows' \subseteq windows
  <2>1. Without(c) = run
    <3>1. CASE Bound(run, c) = {}
      BY <3>1 DEF Without
    <3>2. CASE Bound(run, c) # {}
      <4>1. NodeBySessionId(run, c) \in Node
        BY <1>0, <3>2, BoundNode
      <4> QED BY <1>0, <3>2, <4>1, EventTouchesLive DEF Without
    <3> QED BY <3>1, <3>2
  <2>2. Enact(FinishStep(run, Without(c)), windows, alive \ {c}, timers)
    BY <1>9 DEF DisconnectFrame, Without
  <2> QED BY <1>e, <2>1, <2>2
<1>10. ASSUME NEW c \in Conv, FeedbackFrame(c) PROVE run' = run /\ windows' \subseteq windows
  <2>1. NodeBySessionId(run, c) \in Node
    BY <1>0, <1>10, BoundNode DEF FeedbackFrame
  <2>2. ResumeDelegatedNode(run, NodeBySessionId(run, c)) = run
    BY <1>0, <2>1, EventTouchesLive
  <2> QED BY <1>10, <1>e, <2>2 DEF FeedbackFrame, RunStepIn
<1>11. ASSUME NEW n \in Node, PlanRunnerTick(n) PROVE run' = run /\ windows' \subseteq windows
  <2>1. RetryTick(run, n) = run
    BY <1>0, EventTouchesLive
  <2> QED BY <1>11, <1>e, <2>1 DEF PlanRunnerTick
<1>12. CASE UNCHANGED vars
  BY <1>12 DEF vars
<1> QED BY <1>3, <1>4, <1>5, <1>6, <1>7, <1>8, <1>9, <1>10, <1>11, <1>12
        DEF Next, CreateReply, SessionEnds

\* Once stopped, a run stays as it is until the user acts again, whatever
\* replies, frames and timers still come in (PlanRunner's StopSticks).
THEOREM StopHolds == Spec => StopSticks
PROOF
<1>1. TypeOK /\ Quiet(run) /\ StatusAgrees /\ [Next]_vars => [StaysStopped]_vars
  <2>1. StatusAgrees => StatusSays(run)
    BY DEF StatusAgrees, StatusSays
  <2> QED BY <2>1, StoppedStep
<1> QED BY <1>1, TypeCorrect, AlwaysQuiet, StatusNeverLies, PTL DEF Spec, StopSticks, StaysStopped

\* The handlers that leave a Succeeded node alone: all but those of Start,
\* Load and the cascade.
LEMMA HandlersKeepResults ==
  ASSUME run \in Run, NEW n \in Node, run.node[n] = "Succeeded"
  PROVE  /\ run.node[n] = "Succeeded" /\ PauseRun(run).node[n] = "Succeeded"
         /\ ResumeRun(run).node[n] = "Succeeded" /\ StopRun(run).node[n] = "Succeeded"
         /\ RestartRun(run).node[n] = "Succeeded"
         /\ \A m \in Node :
              /\ RetryNode(run, m).node[n] = "Succeeded"
              /\ SessionDisconnected(run, m).node[n] = "Succeeded"
              /\ SessionError(run, m).node[n] = "Succeeded"
              /\ SessionCreateFailed(run, m).node[n] = "Succeeded"
              /\ RetryTick(run, m).node[n] = "Succeeded"
              /\ ResumeDelegatedNode(run, m).node[n] = "Succeeded"
              /\ \A c \in Conv : SessionCreatedFor(run, m, c).node[n] = "Succeeded"
              /\ \A c \in Conv, d \in BOOLEAN : TaskDone(run, m, c, d).node[n] = "Succeeded"
PROOF
<1>0. run.node \in [Node -> NodeStatus]
  BY DEF Run
<1>1. PauseRun(run).node[n] = "Succeeded" /\ ResumeRun(run).node[n] = "Succeeded"
  BY DEF PauseRun, ResumeRun, SetStatus, Run
<1>2. StopRun(run).node[n] = "Succeeded"
  BY DEF StopRun, Stoppable, Run
<1>3. RestartRun(run).node[n] = "Succeeded"
  BY DEF RestartRun, SetStatus, ResetNodes, Run
<1>4. ASSUME NEW m \in Node PROVE RetryNode(run, m).node[n] = "Succeeded"
  BY <1>0 DEF RetryNode, SetStatus, Run
<1>5. ASSUME NEW m \in Node
      PROVE  /\ SessionDisconnected(run, m).node[n] = "Succeeded"
             /\ SessionError(run, m).node[n] = "Succeeded"
             /\ SessionCreateFailed(run, m).node[n] = "Succeeded"
  <2>1. m # n => FailNode(run, m).node[n] = "Succeeded"
    BY <1>0 DEF FailNode, Run
  <2> QED BY <2>1 DEF SessionDisconnected, SessionError, SessionCreateFailed
<1>6. ASSUME NEW m \in Node
      PROVE  /\ RetryTick(run, m).node[n] = "Succeeded"
             /\ ResumeDelegatedNode(run, m).node[n] = "Succeeded"
  BY <1>0 DEF RetryTick, ResumeDelegatedNode, Run
<1>7. ASSUME NEW m \in Node, NEW c \in Conv PROVE SessionCreatedFor(run, m, c).node[n] = "Succeeded"
  BY <1>0 DEF SessionCreatedFor, Binds, Run
<1>8. ASSUME NEW m \in Node, NEW c \in Conv, NEW d \in BOOLEAN
      PROVE  TaskDone(run, m, c, d).node[n] = "Succeeded"
  BY <1>0 DEF TaskDone, Succeed, Run
<1> QED BY <1>1, <1>2, <1>3, <1>4, <1>5, <1>6, <1>7, <1>8

KeepsResults ==
  \A n \in Node : run.node[n] = "Succeeded" /\ run'.node[n] # "Succeeded" =>
    PlanRunStart \/ PlanReadResult \/ \E m \in Node : CascadeResumeNode(m) \/ CascadeBranchRerun(m)

LEMMA ResultsStep ==
  ASSUME TypeOK, [Next]_vars
  PROVE  KeepsResults
PROOF
<1> SUFFICES ASSUME NEW n \in Node, run.node[n] = "Succeeded", ~ PlanRunStart, ~ PlanReadResult,
                    \A m \in Node : ~ CascadeResumeNode(m) /\ ~ CascadeBranchRerun(m)
             PROVE  run'.node[n] = "Succeeded"
  BY DEF KeepsResults
<1>0. run \in Run
  BY DEF TypeOK
<1>e. ASSUME NEW r \in Run, r.node[n] = "Succeeded", run' = FinishStep(run, r).run
      PROVE  run'.node[n] = "Succeeded"
  BY <1>e, FinishFields
<1>1. CASE PlanResume \/ (\E m \in Node : PlanOpenNodeSession(m)) \/ UNCHANGED vars
  BY <1>1 DEF PlanResume, PlanOpenNodeSession, vars
<1>2. CASE PlanRunPause
  BY <1>0, <1>2, <1>e, HandlerTypes, HandlersKeepResults DEF PlanRunPause, RunStepIn, Enact
<1>3. CASE PlanRunResume
  BY <1>0, <1>3, <1>e, HandlerTypes, HandlersKeepResults DEF PlanRunResume, RunStepIn, Enact
<1>4. CASE PlanRunStop
  BY <1>0, <1>4, <1>e, HandlerTypes, HandlersKeepResults DEF PlanRunStop, Enact
<1>5. CASE PlanRunRestart
  BY <1>0, <1>5, <1>e, HandlerTypes, HandlersKeepResults DEF PlanRunRestart, RunStepIn, Enact
<1>6. ASSUME NEW m \in Node, PlanRunRetryNode(m) PROVE run'.node[n] = "Succeeded"
  BY <1>0, <1>6, <1>e, NodeHandlerTypes, HandlersKeepResults DEF PlanRunRetryNode, RunStepIn, Enact
<1>7. ASSUME NEW c \in Conv, CloseSession(c) \/ DisconnectFrame(c) PROVE run'.node[n] = "Succeeded"
  <2>1. run' = FinishStep(run, Without(c)).run
    BY <1>7 DEF CloseSession, DisconnectFrame, Without, Enact
  <2>2. Without(c) \in Run /\ Without(c).node[n] = "Succeeded"
    <3>1. CASE Bound(run, c) = {}
      BY <1>0, <3>1 DEF Without
    <3>2. CASE Bound(run, c) # {}
      BY <1>0, <3>2, BoundNode, NodeHandlerTypes, HandlersKeepResults DEF Without
    <3> QED BY <3>1, <3>2
  <2> QED BY <1>e, <2>1, <2>2
<1>8. ASSUME NEW c \in Conv, PlanBindSession(c) PROVE run'.node[n] = "Succeeded"
  <2>1. planCreating \in Node
    BY <1>8 DEF PlanBindSession, TypeOK
  <2>2. run' = FinishStep(run, SessionCreatedFor(run, planCreating, c)).run
    BY <1>8 DEF PlanBindSession, Enact
  <2> QED BY <1>0, <1>e, <2>1, <2>2, NodeHandlerTypes, HandlersKeepResults
<1>9. CASE SessionCreateError
  <2>1. planCreating \in Node
    BY <1>9 DEF SessionCreateError, TypeOK
  <2>2. run' = FinishStep(run, SessionCreateFailed(run, planCreating)).run
    BY <1>9 DEF SessionCreateError, Enact
  <2> QED BY <1>0, <1>e, <2>1, <2>2, NodeHandlerTypes, HandlersKeepResults
<1>10. ASSUME NEW c \in Conv, NEW d \in BOOLEAN, TaskDoneFrame(c, d)
       PROVE  run'.node[n] = "Succeeded"
  <2>1. NodeBySessionId(run, c) \in Node
    BY <1>0, <1>10, BoundNode DEF TaskDoneFrame, Routed
  <2>2. run' = FinishStep(run, TaskDone(run, NodeBySessionId(run, c), c, d)).run
    BY <1>10 DEF TaskDoneFrame, RunStepIn, Enact
  <2> QED BY <1>0, <1>e, <2>1, <2>2, NodeHandlerTypes, HandlersKeepResults
<1>11. ASSUME NEW c \in Conv, ErrorFrame(c) PROVE run'.node[n] = "Succeeded"
  <2>1. NodeBySessionId(run, c) \in Node
    BY <1>0, <1>11, BoundNode DEF ErrorFrame, Routed
  <2>2. run' = FinishStep(run, SessionError(run, NodeBySessionId(run, c))).run
    BY <1>11 DEF ErrorFrame, RunStepIn, Enact
  <2> QED BY <1>0, <1>e, <2>1, <2>2, NodeHandlerTypes, HandlersKeepResults
<1>12. ASSUME NEW c \in Conv, FeedbackFrame(c) PROVE run'.node[n] = "Succeeded"
  <2>1. NodeBySessionId(run, c) \in Node
    BY <1>0, <1>12, BoundNode DEF FeedbackFrame
  <2>2. run' = FinishStep(run, ResumeDelegatedNode(run, NodeBySessionId(run, c))).run
    BY <1>12 DEF FeedbackFrame, RunStepIn, Enact
  <2> QED BY <1>0, <1>e, <2>1, <2>2, NodeHandlerTypes, HandlersKeepResults
<1>13. ASSUME NEW m \in Node, PlanRunnerTick(m) PROVE run'.node[n] = "Succeeded"
  <2>1. run' = FinishStep(run, RetryTick(run, m)).run
    BY <1>13 DEF PlanRunnerTick, Enact
  <2> QED BY <1>0, <1>e, <2>1, NodeHandlerTypes, HandlersKeepResults
<1> QED BY <1>1, <1>2, <1>3, <1>4, <1>5, <1>6, <1>7, <1>8, <1>9, <1>10, <1>11, <1>12, <1>13
        DEF Next, User, CreateReply, SessionEnds

\* A succeeded result is lost only to Start, Load and the cascade
\* (PlanRunner's ResultsKept).
THEOREM ResultsHold == Spec => ResultsKept
PROOF
<1>1. TypeOK /\ [Next]_vars => [KeepsResults]_vars
  BY ResultsStep
<1> QED BY <1>1, TypeCorrect, PTL DEF Spec, ResultsKept, KeepsResults

\* Nothing is launched against the rules, stop sticks and results are kept
\* (PlanRunner's HistoryKept), at every step of every behaviour.
THEOREM KeepsItsHistory == Spec => HistoryKept
BY LaunchesObeyRules, StopHolds, ResultsHold DEF HistoryKept
(***************************************************************************)
(* No session is left over, while no live node is reset: without Re-run,   *)
(* Load run and the cascade.                                               *)
(***************************************************************************)
\* A node that was launched still has every dependency Succeeded, and what a
\* node is bound to it works in, or finishStep closes.
Launched(r) ==
  \A n \in Node : r.node[n] \notin {"Pending", "Blocked", "Canceled"} => DepsSucceeded(r, n)

Tidy(r, busy, open) ==
  /\ Launched(r)
  /\ \A n \in Node : r.conv[n] # None => r.node[n] \in busy
  /\ \A c \in open : \E n \in Node : r.conv[n] = c

Working == {"Running", "WaitingForPlan"}

\* blockedPropagation blocks only nodes whose dependencies have not all
\* succeeded: those are closed under its rule.
LEMMA BlockedNotReady ==
  ASSUME NEW r \in Run, Launched(r), NEW n \in BlockedBy(r.node)
  PROVE  ~ DepsSucceeded(r, n)
PROOF
<1> DEFINE S == {m \in Node : ~ DepsSucceeded(r, m)}
<1>1. BlockedClosed(r.node, S)
  <2> SUFFICES ASSUME NEW m \in Node, NEW d \in DependsOn[m],
                      r.node[d] \in {"Failed", "Blocked"} \/ d \in S
               PROVE  m \in S
    BY DEF BlockedClosed
  <2>1. d \in Node
    BY PlanAssumption
  <2>2. r.node[d] # "Succeeded"
    BY <2>1 DEF Launched
  <2> QED BY <2>2 DEF DepsSucceeded
<1>2. S \in SUBSET Node
  OBVIOUS
<1> QED BY <1>1, <1>2 DEF BlockedBy

LEMMA FinishTidies ==
  ASSUME NEW b, NEW r \in Run, NEW open \in SUBSET Conv, Tidy(r, Working \cup Released, open)
  PROVE  LET f == FinishStep(b, r) IN Tidy(f.run, Working, open \ f.close)
PROOF
<1> DEFINE f == FinishStep(b, r)
           r1 == BlockedPropagation(r)
           r3 == UpdateRunStatus(CloseAndClear(r1))
<1>1. /\ \A n \in Node :
           \/ f.run.node[n] = r.node[n]
           \/ r.node[n] \in {"Pending", "Waiting"} /\ f.run.node[n] \in {"Blocked", "Starting"}
      /\ \A n \in Node :
           IF r.conv[n] # None /\ f.run.node[n] \in Released
             THEN f.run.conv[n] = None /\ f.run.last[n] = r.conv[n]
             ELSE f.run.conv[n] = r.conv[n] /\ f.run.last[n] = r.last[n]
      /\ \A n \in Node : r.conv[n] # None /\ f.run.node[n] \in Released => r.conv[n] \in f.close
  BY FinishFields
\* What is launched or blocked, by the two passes that move nodes.
<1>2. \A n \in Node : f.run.node[n] # r.node[n] =>
        \/ f.run.node[n] = "Starting" /\ DepsSucceeded(f.run, n) /\ r.node[n] = "Pending"
        \/ f.run.node[n] = "Blocked" /\ ~ DepsSucceeded(r, n)
  <2> SUFFICES ASSUME NEW n \in Node, f.run.node[n] # r.node[n]
               PROVE  \/ f.run.node[n] = "Starting" /\ DepsSucceeded(f.run, n) /\ r.node[n] = "Pending"
                      \/ f.run.node[n] = "Blocked" /\ ~ DepsSucceeded(r, n)
    OBVIOUS
  <2>1. r1 \in Run /\ r3 \in Run /\ f.run = Schedule(r3)
    BY PassTypes DEF FinishStep
  <2>2. CASE f.run.node[n] = "Starting"
    <3>1. DepsSucceeded(f.run, n)
      BY <2>2, LaunchesWithinCap
    <3>2. r.node[n] = "Pending"
      <4>1. r3.node = r1.node
        BY <2>1, PassTypes, PassFields
      <4>2. r1.node[n] = r.node[n] \/ r1.node[n] = "Blocked"
        BY DEF BlockedPropagation, Run
      <4>3. f.run.node[n] = IF n \in Chosen(r3) THEN "Starting" ELSE r3.node[n]
        BY <2>1, PassFields
      <4>4. n \in Chosen(r3) => r3.node[n] = "Pending"
        BY DEF Chosen, Runnable
      <4> HIDE DEF f, r1, r3
      <4> QED BY <2>2, <4>1, <4>2, <4>3, <4>4
    <3> QED BY <2>2, <3>1, <3>2
  <2>3. CASE f.run.node[n] # "Starting"
    <3>1. f.run.node[n] = "Blocked"
      BY <1>1, <2>3
    <3>2. n \in BlockedBy(r.node)
      <4>1. r3.node = r1.node
        BY <2>1, PassTypes, PassFields
      <4>2. r1.node[n] = IF n \in BlockedBy(r.node) THEN "Blocked" ELSE r.node[n]
        BY DEF BlockedPropagation, Run
      <4>3. f.run.node[n] = IF n \in Chosen(r3) THEN "Starting" ELSE r3.node[n]
        BY <2>1, PassFields
      <4> HIDE DEF f, r1, r3
      <4> QED BY <2>3, <4>1, <4>2, <4>3
    <3> QED BY <3>1, <3>2, BlockedNotReady DEF Tidy
  <2> QED BY <2>2, <2>3
<1> HIDE DEF f
<1>3. \A n \in Node : DependsOn[n] \subseteq Node
  BY PlanAssumption
<1>4. \A n \in Node : DepsSucceeded(r, n) => DepsSucceeded(f.run, n)
  BY <1>1, <1>3 DEF DepsSucceeded
<1>5. Launched(f.run)
  BY <1>2, <1>4 DEF Launched, Tidy
<1>6. \A n \in Node : f.run.conv[n] # None => f.run.node[n] \in Working
  <2> SUFFICES ASSUME NEW n \in Node, f.run.conv[n] # None PROVE f.run.node[n] \in Working
    OBVIOUS
  <2>1. r.conv[n] # None /\ f.run.node[n] \notin Released
    BY <1>1
  <2>2. r.node[n] \in Working \cup Released
    BY <2>1 DEF Tidy
  <2>3. r.node[n] \notin {"Pending", "Blocked", "Canceled"}
    BY <1>1, <2>1, <2>2 DEF Working, Released
  <2>4. DepsSucceeded(r, n)
    BY <2>3 DEF Tidy, Launched
  <2> QED BY <1>2, <2>1, <2>2, <2>3, <2>4
<1>7. \A c \in open \ f.close : \E n \in Node : f.run.conv[n] = c
  BY <1>1, NoneAssumption DEF Tidy
<1> QED BY <1>5, <1>6, <1>7 DEF Tidy, f
\* The user neither re-runs, nor loads a run, nor cascades.
NoResets == Clicks \cap {"Restart", "Load", "Cascade"} = {}

\* A handler that moves live nodes, cancels nodes or retries those that hold
\* nothing.
LEMMA MovesTidy ==
  ASSUME NEW held, Tidy(run, Working, held), NEW r \in Run, r.conv = run.conv, NEW open \in SUBSET held,
         \A n \in Node :
           \/ r.node[n] = run.node[n]
           \/ r.node[n] = "Pending" /\ run.conv[n] = None /\ run.node[n] # "Succeeded"
           \/ r.node[n] = "Canceled" /\ run.node[n] # "Succeeded"
           \/ /\ run.node[n] \notin {"Pending", "Blocked", "Canceled", "Succeeded"}
              /\ r.node[n] \in Working \cup Released
  PROVE  Tidy(r, Working \cup Released, open)
PROOF
<1>1. \A n \in Node : DependsOn[n] \subseteq Node
  BY PlanAssumption
<1>2. \A n \in Node : DepsSucceeded(run, n) => DepsSucceeded(r, n)
  BY <1>1 DEF DepsSucceeded
<1>3. Launched(r)
  <2> SUFFICES ASSUME NEW n \in Node, r.node[n] \notin {"Pending", "Blocked", "Canceled"}
               PROVE  DepsSucceeded(run, n)
    BY <1>2 DEF Launched
  <2> QED BY DEF Tidy, Launched
<1>4. \A n \in Node : r.conv[n] # None => r.node[n] \in Working \cup Released
  BY DEF Tidy, Released
<1>5. \A c \in open : \E n \in Node : r.conv[n] = c
  BY DEF Tidy
<1> QED BY <1>3, <1>4, <1>5 DEF Tidy

LEMMA ChangeTidy ==
  ASSUME run \in Run, NoResets, StatusAgrees, NEW held \in SUBSET Conv, Tidy(run, Working, held),
         NEW r \in Run, Change(r), NEW open \in SUBSET held
  PROVE  Tidy(r, Working \cup Released, open)
PROOF
<1>0. /\ run.node \in [Node -> NodeStatus] /\ run.status \in RunStatus
      /\ \A n \in Node : run.conv[n] # None => run.node[n] \in Working
  BY DEF Run, Tidy
<1>1. CASE r \in {run, PauseRun(run), ResumeRun(run)}
  <2>1. r.conv = run.conv /\ r.node = run.node
    BY <1>1 DEF PauseRun, ResumeRun, SetStatus, Run
  <2> QED BY <2>1, MovesTidy
<1>2. CASE r = StopRun(run)
  <2>1. r.conv = run.conv
    BY <1>2 DEF StopRun, Run
  <2>2. \A n \in Node : \/ r.node[n] = run.node[n]
                        \/ r.node[n] = "Canceled" /\ run.node[n] # "Succeeded"
    BY <1>0, <1>2 DEF StopRun, Stoppable, Run
  <2> QED BY <2>1, <2>2, MovesTidy
<1>3. CASE r = StartRun(run)
  <2>1. CASE run.status \notin Startable
    <3>1. r = run
      BY <1>3, <2>1 DEF StartRun
    <3> QED BY <3>1, MovesTidy
  <2>2. CASE run.status \in Startable
    <3>1. \A n \in Node : run.node[n] \notin Working
      BY <2>2 DEF StatusAgrees, Startable, Stoppable, TerminalNode, Working
    <3>2. held = {}
      BY <1>0, <3>1, NoneAssumption DEF Tidy
    <3>3. \A n \in Node : r.node[n] = "Pending" /\ r.conv[n] = None
      BY <1>3, <2>2 DEF StartRun, SetStatus, ResetNodes, Run
    <3> QED BY <3>2, <3>3 DEF Tidy, Launched
  <2> QED BY <2>1, <2>2
<1>4. ASSUME NEW n \in Node, r = RetryNode(run, n)
      PROVE  Tidy(r, Working \cup Released, open)
  <2>1. /\ r.conv = run.conv
        /\ \A m \in Node :
             \/ r.node[m] = run.node[m]
             \/ r.node[m] = "Pending" /\ run.node[m] \in {"Waiting", "Failed", "Canceled"}
    BY <1>0, <1>4 DEF RetryNode, SetStatus, Run
  <2>2. \A m \in Node : run.node[m] \in {"Waiting", "Failed", "Canceled"} => run.conv[m] = None
    BY <1>0 DEF Working
  <2> QED BY <2>1, <2>2, MovesTidy
<1>5. ASSUME NEW n \in Node,
             r \in {SessionDisconnected(run, n), SessionError(run, n), SessionCreateFailed(run, n)}
      PROVE  Tidy(r, Working \cup Released, open)
  <2>1. r = run \/ (run.node[n] \in {"Running", "Starting"} /\ r = FailNode(run, n))
    BY <1>5 DEF SessionDisconnected, SessionError, SessionCreateFailed
  <2>2. /\ r.conv = run.conv
        /\ \A m \in Node :
             \/ r.node[m] = run.node[m]
             \/ run.node[m] \in {"Running", "Starting"} /\ r.node[m] \in {"Waiting", "Failed"}
    <3>1. /\ FailNode(run, n).conv = run.conv
          /\ FailNode(run, n).node[n] \in {"Waiting", "Failed"}
          /\ \A m \in Node \ {n} : FailNode(run, n).node[m] = run.node[m]
      BY <1>0 DEF FailNode, Run
    <3> QED BY <2>1, <3>1
  <2> QED BY <2>2, MovesTidy DEF Released
<1>6. ASSUME NEW n \in Node, r = RetryTick(run, n) PROVE Tidy(r, Working \cup Released, open)
  <2>1. /\ r.conv = run.conv
        /\ \A m \in Node : \/ r.node[m] = run.node[m]
                           \/ r.node[m] = "Pending" /\ run.node[m] = "Waiting"
    BY <1>0, <1>6 DEF RetryTick, Run
  <2>2. \A m \in Node : run.node[m] = "Waiting" => run.conv[m] = None
    BY <1>0 DEF Working
  <2> QED BY <2>1, <2>2, MovesTidy
<1>7. ASSUME NEW n \in Node, r = ResumeDelegatedNode(run, n)
      PROVE  Tidy(r, Working \cup Released, open)
  <2>1. /\ r.conv = run.conv
        /\ \A m \in Node : \/ r.node[m] = run.node[m]
                           \/ r.node[m] = "Running" /\ run.node[m] = "WaitingForPlan"
    BY <1>0, <1>7 DEF ResumeDelegatedNode, Run
  <2> QED BY <2>1, MovesTidy DEF Working
<1>8. ASSUME NEW n \in Node, NEW c \in Conv, NEW d \in BOOLEAN, r = TaskDone(run, n, c, d)
      PROVE  Tidy(r, Working \cup Released, open)
  <2>1. /\ r.conv = run.conv
        /\ \A m \in Node : \/ r.node[m] = run.node[m]
                           \/ /\ r.node[m] \in {"Succeeded", "WaitingForPlan"}
                              /\ run.node[m] \in {"Running", "WaitingForPlan"}
    BY <1>0, <1>8 DEF TaskDone, Succeed, Run
  <2> QED BY <2>1, MovesTidy DEF Working, Released
<1> QED BY <1>1, <1>2, <1>3, <1>4, <1>5, <1>6, <1>7, <1>8 DEF Change, NoResets

\* The windows that have a node, and what Start, Pause, Resume, Stop, Retry,
\* Close and Reopen leave behind.
Manned == {c \in windows : Bound(run, c) # {}}
TidyRun == Tidy(run, Working, Manned) /\ loadRead = None

\* The windows of the next state that a node has left, or that are new.
Watched == {c \in windows' : c \in Manned \/ c \notin windows}

LEMMA TidyEnacted ==
  ASSUME NEW b, NEW r \in Run, NEW open \in SUBSET Conv, NEW armed, Enacts(b, r, open, armed),
         NEW held \in SUBSET Conv, Tidy(r, Working \cup Released, held),
         \A c \in open : c \in Manned \/ c \notin windows => c \in held
  PROVE  Tidy(run', Working, Watched)
PROOF
<1>1. Tidy(run', Working, held \ FinishStep(b, r).close)
  BY FinishTidies DEF Enacts
<1>2. Watched \subseteq held \ FinishStep(b, r).close
  BY DEF Enacts, Watched
<1> QED BY <1>1, <1>2 DEF Tidy

LEMMA TidyStep ==
  ASSUME TypeOK, StatusAgrees, NoResets, TidyRun, [Next]_vars
  PROVE  /\ loadRead' = None
         /\ Tidy(run', Working, Watched) \/ (Reopens /\ run' = run)
PROOF
<1>0. /\ run \in Run /\ windows \subseteq Conv /\ loadRead = None /\ Tidy(run, Working, Manned)
      /\ run.node \in [Node -> NodeStatus] /\ Manned \in SUBSET Conv
  BY DEF TypeOK, TidyRun, Run, Manned
<1>1. CASE Rests
  <2>1. /\ run' = run /\ loadRead' = None
        /\ Reopens \/ windows' = windows
    BY <1>0, <1>1 DEF Rests, NoResets
  <2>2. CASE windows' = windows
    <3>1. Watched \subseteq Manned
      BY <2>2 DEF Watched
    <3> QED BY <1>0, <2>1, <3>1 DEF Tidy, Launched, DepsSucceeded, Working
  <2> QED BY <2>1, <2>2
<1>2. ASSUME NEW r \in Run, Handles(r) PROVE loadRead' = None /\ Tidy(run', Working, Watched)
  <2>1. Change(r) /\ Enacts(run, r, windows, timers) /\ loadRead' = None
    BY <1>0, <1>2 DEF Handles
  <2>2. Tidy(r, Working \cup Released, Manned)
    BY <1>0, <2>1, ChangeTidy
  <2> QED BY <1>0, <2>1, <2>2, TidyEnacted
<1>3. ASSUME NEW c \in Conv, Loses(c) PROVE loadRead' = None /\ Tidy(run', Working, Watched)
  <2> DEFINE r == Without(c)
  <2>1. r \in Run /\ Change(r)
    <3>1. CASE Bound(run, c) = {}
      BY <1>0, <3>1 DEF Without, Change
    <3>2. CASE Bound(run, c) # {}
      <4>1. NodeBySessionId(run, c) \in Node /\ r = SessionDisconnected(run, NodeBySessionId(run, c))
        BY <1>0, <3>2, BoundNode DEF Without
      <4> HIDE DEF r
      <4> QED BY <1>0, <4>1, NodeHandlerTypes DEF Change
    <3> QED BY <3>1, <3>2
  <2> HIDE DEF r
  <2>2. Tidy(r, Working \cup Released, Manned)
    BY <1>0, <2>1, ChangeTidy
  <2>3. /\ Enacts(run, r, windows \ {c}, timers) \/ Enacts(run, r, windows, timers)
        /\ loadRead' = None
    BY <1>0, <1>3 DEF Loses, r
  <2>4. windows \ {c} \in SUBSET Conv /\ windows \in SUBSET Conv
    BY <1>0
  <2> QED BY <1>0, <2>1, <2>2, <2>3, <2>4, TidyEnacted
<1>4. ASSUME NEW n \in Node, Ticks(n) PROVE loadRead' = None /\ Tidy(run', Working, Watched)
  <2>1. /\ RetryTick(run, n) \in Run /\ Change(RetryTick(run, n)) /\ loadRead' = None
        /\ Enacts(run, RetryTick(run, n), windows, [timers EXCEPT ![n] = @ - 1])
    BY <1>0, <1>4, NodeHandlerTypes DEF Ticks, Change
  <2>2. Tidy(RetryTick(run, n), Working \cup Released, Manned)
    BY <1>0, <2>1, ChangeTidy
  <2> QED BY <1>0, <2>1, <2>2, TidyEnacted
<1>5. ASSUME NEW n \in Node, NEW c \in Conv, Takes(n, c)
      PROVE  loadRead' = None /\ Tidy(run', Working, Watched)
  <2> DEFINE r   == SessionCreatedFor(run, n, c)
             f   == FinishStep(run, r)
             new == IF f.run.node[n] = "Running" /\ f.run.conv[n] = c THEN {c} ELSE {}
  <2>1. Enacts(run, r, windows \cup new, timers) /\ loadRead' = None
    BY <1>0, <1>5 DEF Takes
  <2>2. r \in Run
    BY <1>0, NodeHandlerTypes
  <2>3. new \in SUBSET {c}
    OBVIOUS
  <2>4. f.run.node[n] = "Running" /\ f.run.conv[n] = c => r.conv[n] = c
    BY <2>2, NoneAssumption, FinishFields
  <2>5. new # {} => r.conv[n] = c
    BY <2>4
  <2> HIDE DEF f, new
  <2>6. Tidy(r, Working \cup Released, Manned \cup new)
    <3>1. CASE run.node[n] = "Starting"
      <4>1. /\ r.node[n] = "Running" /\ r.conv[n] = c
            /\ \A m \in Node \ {n} : r.node[m] = run.node[m] /\ r.conv[m] = run.conv[m]
        BY <1>0, <3>1 DEF SessionCreatedFor, Binds, Run
      <4>2. run.conv[n] = None
        BY <1>0, <3>1 DEF Tidy, Working
      <4> HIDE DEF r
      <4>3. Launched(r)
        <5>1. \A m \in Node : DependsOn[m] \subseteq Node
          BY PlanAssumption
        <5>2. \A m \in Node : DepsSucceeded(run, m) => DepsSucceeded(r, m)
          BY <3>1, <4>1, <5>1 DEF DepsSucceeded
        <5> QED BY <1>0, <3>1, <4>1, <5>2 DEF Tidy, Launched
      <4>4. \A m \in Node : r.conv[m] # None => r.node[m] \in Working \cup Released
        BY <1>0, <4>1 DEF Tidy, Working
      <4>5. \A x \in Manned \cup new : \E m \in Node : r.conv[m] = x
        <5>1. \A x \in Manned : x # None /\ \E m \in Node : run.conv[m] = x
          BY <1>0, NoneAssumption DEF Tidy
        <5> QED BY <2>3, <4>1, <4>2, <5>1
      <4> QED BY <4>3, <4>4, <4>5 DEF Tidy
    <3>2. CASE run.node[n] # "Starting"
      <4>1. r = run
        BY <3>2 DEF SessionCreatedFor, Binds
      <4> HIDE DEF r
      <4> QED BY <1>0, <2>3, <2>5, <4>1 DEF Tidy
    <3> QED BY <3>1, <3>2
  <2>7. windows \cup new \in SUBSET Conv /\ Manned \cup new \in SUBSET Conv
    BY <1>0, <2>3
  <2> HIDE DEF r
  <2> QED BY <2>1, <2>2, <2>6, <2>7, TidyEnacted
<1>6. ~ Reads /\ \A n \in Node : ~ Revives(n)
  BY <1>0 DEF Reads, Revives, NoResets
<1> QED BY <1>1, <1>2, <1>3, <1>4, <1>5, <1>6, StepKinds

\* No step of TidyRun leaves a window behind.
LEMMA TidyKeepsWindows ==
  ASSUME loadRead' = None, Tidy(run', Working, Watched) \/ (Reopens /\ run' = run), TidyRun
  PROVE  /\ TidyRun'
         /\ \A c \in windows' : Bound(run', c) = {} => (c \in windows /\ Bound(run, c) = {}) \/ Reopens
PROOF
<1>1. \A c \in Manned' : \E n \in Node : run'.conv[n] = c
  BY DEF Manned, Bound
<1>2. TidyRun'
  BY <1>1 DEF TidyRun, Tidy, Launched, DepsSucceeded, Working
<1>3. \A c \in windows' : Bound(run', c) = {} => (c \in windows /\ Bound(run, c) = {}) \/ Reopens
  BY DEF Tidy, Watched, Manned, Bound
<1> QED BY <1>2, <1>3

\* Unless the user resets live nodes - Re-run, Load run, the cascade - every
\* window that no node is bound to is one the user reopened (PlanRunner's
\* NoLeak): failures, retries, stops and late replies leave none behind.
THEOREM NothingLeaks ==
  ASSUME NoResets
  PROVE  Spec => NoLeak
PROOF
<1> DEFINE Kept == \A c \in windows' : Bound(run', c) = {} =>
                     \/ c \in windows /\ Bound(run, c) = {}
                     \/ \E n \in Node : PlanOpenNodeSession(n)
<1>1. Init => TidyRun
  BY DEF Init, EmptyRun, TidyRun, Tidy, Launched, Manned
<1>2. TypeOK /\ StatusAgrees /\ TidyRun /\ [Next]_vars => TidyRun' /\ Kept
  BY TidyStep, TidyKeepsWindows DEF Reopens
<1>3. TypeOK /\ StatusAgrees /\ TidyRun /\ [Next]_vars => TidyRun' /\ [Kept]_vars
  BY <1>2
<1> HIDE DEF Kept
<1>4. Spec => [][Kept]_vars
  BY <1>1, <1>3, TypeCorrect, StatusNeverLies, PTL DEF Spec
<1> QED BY <1>4 DEF NoLeak, Kept
=============================================================================
