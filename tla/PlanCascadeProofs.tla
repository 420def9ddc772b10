------------------------- MODULE PlanCascadeProofs -------------------------
(***************************************************************************)
(* What every behaviour of PlanCascade satisfies, whatever the plans, how  *)
(* deep they are nested, and whatever the user does how often.             *)
(***************************************************************************)
EXTENDS PlanCascade, RunnerStepProofs, SequenceTheorems

(***************************************************************************)
(* Sequences.                                                              *)
(***************************************************************************)
LEMMA PickedItems ==
  ASSUME NEW X, NEW s \in Seq(X), NEW I \in SUBSET DOMAIN s
  PROVE  /\ Picked(s, I) \in Seq(X)
         /\ \A i \in I : \E k \in DOMAIN Picked(s, I) : Picked(s, I)[k] = s[i]
         /\ \A k \in DOMAIN Picked(s, I) : \E i \in I : Picked(s, I)[k] = s[i]
PROOF
<1> DEFINE card == Cardinality(I)
           at(k) == CHOOSE i \in I : Cardinality({j \in I : j < i}) = k - 1
<1>1. I \in SUBSET Nat /\ IsFiniteSet(I)
  <2>1. Len(s) \in Nat /\ DOMAIN s = 1..Len(s)
    OBVIOUS
  <2>2. IsFiniteSet(1..Len(s))
    BY <2>1, FS_Interval
  <2> QED BY <2>1, <2>2, FS_Subset
<1>2. card \in Nat
  BY <1>1, FS_CardinalityType
<1>3. \A k \in 1..card : at(k) \in I /\ Rank(I, at(k)) = k - 1
  <2> TAKE k \in 1..card
  <2>1. k - 1 \in 0..(card - 1)
    BY <1>2
  <2>2. \E i \in I : Rank(I, i) = k - 1
    BY <1>1, <2>1, Ranks
  <2> QED BY <2>2 DEF Rank
<1>4. \A i \in I : \E k \in 1..card : at(k) = i
  <2> TAKE i \in I
  <2> DEFINE k == Rank(I, i) + 1
  <2>1. k \in 1..card /\ k - 1 = Rank(I, i)
    <3>1. Rank(I, i) \in 0..(card - 1)
      BY <1>1, Ranks
    <3> QED BY <1>2, <3>1
  <2>2. at(k) \in I /\ Rank(I, at(k)) = Rank(I, i)
    BY <1>3, <2>1
  <2>3. ~ (at(k) < i) /\ ~ (i < at(k))
    <3>1. Rank(I, i) \in Nat
      BY <1>1, <1>2, Ranks
    <3> HIDE DEF k, at
    <3> QED BY <1>1, <2>2, <3>1, Ranks
  <2>4. at(k) \in Nat /\ i \in Nat
    BY <1>1, <2>2
  <2>5. at(k) = i
    <3> HIDE DEF at, k
    <3> QED BY <2>3, <2>4
  <2> QED BY <2>1, <2>5
<1>5. Picked(s, I) = [k \in 1..card |-> s[at(k)]]
  BY DEF Picked
<1> HIDE DEF card, at
<1>6. Picked(s, I) \in [1..card -> X]
  BY <1>3, <1>5
<1>7. Picked(s, I) \in Seq(X)
  BY <1>2, <1>6
<1>8. \A i \in I : \E k \in DOMAIN Picked(s, I) : Picked(s, I)[k] = s[i]
  BY <1>4, <1>5
<1>9. \A k \in DOMAIN Picked(s, I) : \E i \in I : Picked(s, I)[k] = s[i]
  BY <1>3, <1>5
<1> QED BY <1>7, <1>8, <1>9

LEMMA WithoutItems ==
  ASSUME NEW X, NEW s \in Seq(X), NEW S
  PROVE  Without(s, S) \in Seq(X) /\ Range(Without(s, S)) = Range(s) \ S
PROOF
<1> DEFINE I == {i \in DOMAIN s : s[i] \notin S}
<1>1. I \in SUBSET DOMAIN s /\ Without(s, S) = Picked(s, I)
  BY DEF Without
<1>2. /\ Picked(s, I) \in Seq(X)
      /\ \A i \in I : \E k \in DOMAIN Picked(s, I) : Picked(s, I)[k] = s[i]
      /\ \A k \in DOMAIN Picked(s, I) : \E i \in I : Picked(s, I)[k] = s[i]
  BY <1>1, PickedItems
<1>3. Range(Picked(s, I)) = {s[i] : i \in I}
  <2> DEFINE t == Picked(s, I)
  <2> HIDE DEF t, I
  <2> QED BY <1>2 DEF Range, t
<1>4. {s[i] : i \in I} = Range(s) \ S
  BY DEF Range
<1> QED BY <1>1, <1>2, <1>3, <1>4

LEMMA AppendItems ==
  ASSUME NEW X, NEW s \in Seq(X), NEW x \in X
  PROVE  Append(s, x) \in Seq(X) /\ Range(Append(s, x)) = Range(s) \cup {x} /\ Len(Append(s, x)) = Len(s) + 1
PROOF
<1>1. /\ Append(s, x) \in Seq(X) /\ Len(Append(s, x)) = Len(s) + 1 /\ Len(s) \in Nat
      /\ \A i \in 1..Len(s) : Append(s, x)[i] = s[i]
      /\ Append(s, x)[Len(s) + 1] = x
  OBVIOUS
<1>2. DOMAIN s = 1..Len(s) /\ DOMAIN Append(s, x) = 1..(Len(s) + 1)
  BY <1>1
<1>3. 1..(Len(s) + 1) = 1..Len(s) \cup {Len(s) + 1}
  BY <1>1
<1> DEFINE t == Append(s, x)
           n == Len(s)
<1>4. Range(t) = {t[i] : i \in 1..(n + 1)} /\ Range(s) = {s[i] : i \in 1..n}
  BY <1>2 DEF Range
<1>5. /\ \A i \in 1..n : i \in 1..(n + 1) /\ t[i] = s[i]
      /\ \A i \in 1..(n + 1) : i \in 1..n \/ i = n + 1
      /\ n + 1 \in 1..(n + 1) /\ t[n + 1] = x
  BY <1>1, <1>3
<1> HIDE DEF t, n
<1>6. Range(t) = Range(s) \cup {x}
  BY <1>4, <1>5
<1> QED BY <1>1, <1>6 DEF t, n

(***************************************************************************)
(* Runs.  No event but a delegation makes a node wait for a sub-plan, and  *)
(* no pass of finishStep does.                                             *)
(***************************************************************************)
Waits(r) == {n \in Node : r.node[n] = "WaitingForPlan"}

LEMMA FinishStepWaits ==
  ASSUME NEW b, NEW r \in Run
  PROVE  FinishStep(b, r).run \in Run /\ Waits(FinishStep(b, r).run) \subseteq Waits(r)
PROOF
<1> DEFINE r1 == BlockedPropagation(r)
           r2 == CloseAndClear(r1)
           r3 == UpdateRunStatus(r2)
<1>1. r1 \in Run /\ r2 \in Run /\ r3 \in Run
  BY PassTypes
<1>2. Waits(r1) \subseteq Waits(r)
  BY DEF Waits, BlockedPropagation, Run
<1>3. r2.node = r1.node /\ r3.node = r2.node
  BY <1>1, PassFields
<1>4. \A n \in Node : Schedule(r3).node[n] = IF n \in Chosen(r3) THEN "Starting" ELSE r3.node[n]
  BY <1>1, PassFields
<1>5. FinishStep(b, r).run = Schedule(r3)
  BY DEF FinishStep
<1> HIDE DEF r1, r2, r3
<1>6. Waits(Schedule(r3)) \subseteq Waits(r)
  BY <1>2, <1>3, <1>4 DEF Waits
<1> QED BY <1>5, <1>6, FinishStepType

LEMMA HandlerWaits ==
  ASSUME NEW r \in Run
  PROVE  /\ StartRun(r) \in Run /\ Waits(StartRun(r)) \subseteq Waits(r)
         /\ StopRun(r) \in Run /\ Waits(StopRun(r)) \subseteq Waits(r)
         /\ RestartRun(r) \in Run /\ Waits(RestartRun(r)) \subseteq Waits(r)
PROOF
<1>1. Waits(StartRun(r)) \subseteq Waits(r)
  BY DEF Waits, StartRun, ResetNodes, SetStatus, Run
<1>2. Waits(StopRun(r)) \subseteq Waits(r)
  BY DEF Waits, StopRun, Run
<1>3. Waits(RestartRun(r)) \subseteq Waits(r)
  BY DEF Waits, RestartRun, ResetNodes, SetStatus, Run
<1> QED BY <1>1, <1>2, <1>3, HandlerTypes

LEMMA NodeHandlerWaits ==
  ASSUME NEW r \in Run, NEW n \in Node
  PROVE  /\ ResumeBranchFrom(r, n) \in Run /\ Waits(ResumeBranchFrom(r, n)) \subseteq Waits(r)
         /\ \A c \in Conv : /\ SessionCreatedFor(r, n, c) \in Run
                            /\ Waits(SessionCreatedFor(r, n, c)) \subseteq Waits(r)
         /\ \A c \in MaybeConv : /\ TaskDone(r, n, c, FALSE) \in Run
                                 /\ Waits(TaskDone(r, n, c, FALSE)) \subseteq Waits(r)
         /\ SessionError(r, n) \in Run /\ Waits(SessionError(r, n)) \subseteq Waits(r)
         /\ SessionDisconnected(r, n) \in Run /\ Waits(SessionDisconnected(r, n)) \subseteq Waits(r)
         /\ ResumeDelegatedNode(r, n) \in Run /\ Waits(ResumeDelegatedNode(r, n)) \subseteq Waits(r)
PROOF
<1>1. Waits(ResumeBranchFrom(r, n)) \subseteq Waits(r)
  BY DEF Waits, ResumeBranchFrom, ResetNodes, SetStatus, Run
<1>2. ASSUME NEW c \in Conv PROVE Waits(SessionCreatedFor(r, n, c)) \subseteq Waits(r)
  BY DEF Waits, SessionCreatedFor, Run
<1>3. ASSUME NEW c \in MaybeConv
      PROVE  TaskDone(r, n, c, FALSE) \in Run /\ Waits(TaskDone(r, n, c, FALSE)) \subseteq Waits(r)
  <2>1. TaskDone(r, n, c, FALSE) \in Run
    BY DEF TaskDone, Succeed, Run, NodeStatus
  <2>2. Waits(TaskDone(r, n, c, FALSE)) \subseteq Waits(r)
    BY DEF Waits, TaskDone, Succeed, Run
  <2> QED BY <2>1, <2>2
<1>4. Waits(FailNode(r, n)) \subseteq Waits(r)
  <2>1. \A k \in Node : FailNode(r, n).node[k] \in {"Waiting", "Failed", r.node[k]}
    BY DEF FailNode, Run
  <2> QED BY <2>1 DEF Waits
<1>5. Waits(SessionError(r, n)) \subseteq Waits(r) /\ Waits(SessionDisconnected(r, n)) \subseteq Waits(r)
  BY <1>4 DEF SessionError, SessionDisconnected
<1>6. Waits(ResumeDelegatedNode(r, n)) \subseteq Waits(r)
  BY DEF Waits, ResumeDelegatedNode, Run
<1> QED BY <1>1, <1>2, <1>3, <1>5, <1>6, NodeHandlerTypes

(***************************************************************************)
(* What the executor's functions keep.  m2 takes nothing back of m: no     *)
(* node waits again, no conversation is shorter.  A cascade that waits for *)
(* a fork has one pending.                                                 *)
(***************************************************************************)
TakesNothingBack(m, m2) ==
  \A p \in Plan : Waits(m2.run[p]) \subseteq Waits(m.run[p]) /\ Len(m.after[p]) <= Len(m2.after[p])

Awaited(m) == m.cascade # None /\ m.cascade.phase = "WaitingFork" => m.fork # None

\* Nothing of the cascade's state changes.
Still(m, m2) ==
  /\ m2 \in Model /\ TakesNothingBack(m, m2) /\ (Owned(m) => Owned(m2))
  /\ m2.cascade = m.cascade /\ m2.fork = m.fork

Safe(m, m2) ==
  /\ m2 \in Model /\ TakesNothingBack(m, m2) /\ (Owned(m) => Owned(m2))
  /\ Awaited(m) => Awaited(m2)

LEMMA ModelFields ==
  ASSUME NEW m \in Model
  PROVE  /\ m.run \in [Plan -> Run] /\ m.text \in [Plan -> [Node -> Output]]
         /\ m.order \in Seq(Plan) /\ m.queue \in Seq(Plan) /\ m.requests \in Seq(Request)
         /\ m.sessions \subseteq Session /\ Windows(m) \subseteq Plan /\ m.self \subseteq Message
         /\ m.after \in [Plan -> Seq(Result \cup {None})]
         /\ \A p \in Plan : Len(m.after[p]) \in Nat
         /\ m.cascade \in Cascade \cup {None} /\ m.fork \in Fork \cup {None}
         /\ m.reading \in Plan \cup {None} /\ m.resuming \in Session \cup {None}
PROOF
<1>1. /\ m.run \in [Plan -> Run] /\ m.text \in [Plan -> [Node -> Output]]
      /\ m.order \in Seq(Plan) /\ m.queue \in Seq(Plan) /\ m.requests \in Seq(Request)
      /\ m.sessions \subseteq Session /\ m.self \subseteq Message
      /\ m.after \in [Plan -> Seq(Result \cup {None})]
      /\ m.cascade \in Cascade \cup {None} /\ m.fork \in Fork \cup {None}
      /\ m.reading \in Plan \cup {None} /\ m.resuming \in Session \cup {None}
  BY DEF Model
<1>2. \A p \in Plan : Len(m.after[p]) \in Nat
  BY <1>1
<1>3. Windows(m) \subseteq Plan
  BY <1>1 DEF Windows, Range
<1> QED BY <1>1, <1>2, <1>3

LEMMA StillIsSafe ==
  ASSUME NEW m, NEW m2, Still(m, m2)
  PROVE  Safe(m, m2)
BY DEF Still, Safe, Awaited

LEMMA SafeSteps ==
  ASSUME NEW m \in Model, NEW m1, NEW m2, Safe(m, m1), Safe(m1, m2)
  PROVE  Safe(m, m2)
PROOF
<1>1. m1 \in Model /\ m2 \in Model
  BY DEF Safe
<1>2. \A p \in Plan : Len(m.after[p]) \in Nat /\ Len(m1.after[p]) \in Nat /\ Len(m2.after[p]) \in Nat
  BY <1>1, ModelFields
<1>3. TakesNothingBack(m, m1) /\ TakesNothingBack(m1, m2)
  BY DEF Safe
<1>4. TakesNothingBack(m, m2)
  <2> SUFFICES ASSUME NEW p \in Plan
               PROVE  Waits(m2.run[p]) \subseteq Waits(m.run[p]) /\ Len(m.after[p]) <= Len(m2.after[p])
    BY DEF TakesNothingBack
  <2>1. Waits(m2.run[p]) \subseteq Waits(m1.run[p]) /\ Waits(m1.run[p]) \subseteq Waits(m.run[p])
    BY <1>3 DEF TakesNothingBack
  <2>2. Len(m.after[p]) <= Len(m1.after[p]) /\ Len(m1.after[p]) <= Len(m2.after[p])
    BY <1>3 DEF TakesNothingBack
  <2>3. Len(m.after[p]) <= Len(m2.after[p])
    BY <1>2, <2>2
  <2> QED BY <2>1, <2>3
<1> QED BY <1>4 DEF Safe

LEMMA StillSteps ==
  ASSUME NEW m \in Model, NEW m1, NEW m2, Still(m, m1), Still(m1, m2)
  PROVE  Still(m, m2)
PROOF
<1>1. Safe(m, m2)
  BY StillIsSafe, SafeSteps
<1> QED BY <1>1 DEF Still, Safe

\* An update that leaves runs, conversations, windows and the cascade alone.
LEMMA SameIsStill ==
  ASSUME NEW m \in Model, NEW m2 \in Model,
         m2.run = m.run, m2.after = m.after, m2.order = m.order, m.sessions \subseteq m2.sessions,
         m2.cascade = m.cascade, m2.fork = m.fork
  PROVE  Still(m, m2)
PROOF
<1>1. \A p \in Plan : Len(m.after[p]) \in Nat
  BY ModelFields
<1>2. TakesNothingBack(m, m2)
  BY <1>1 DEF TakesNothingBack
<1>3. Owned(m) => Owned(m2)
  BY DEF Owned, Windows
<1> QED BY <1>2, <1>3 DEF Still

(***************************************************************************)
(* Closing.                                                                *)
(***************************************************************************)
LEMMA CloseSetClosed ==
  ASSUME NEW m, NEW P \in SUBSET Plan
  PROVE  /\ P \subseteq CloseSet(m, P) /\ CloseSet(m, P) \subseteq Plan
         /\ \A q \in Plan : Hosted(Origin[q]) /\ Origin[q] \in m.sessions
                              /\ HostPlan(Origin[q]) \in CloseSet(m, P) => q \in CloseSet(m, P)
BY DEF CloseSet

LEMMA HaltWaits ==
  ASSUME NEW r \in Run
  PROVE  Halt(r) \in Run /\ Waits(Halt(r)) \subseteq Waits(r)
BY HandlerWaits, FinishStepWaits DEF Halt

LEMMA PlanClosedStill ==
  ASSUME NEW m \in Model, NEW P \in SUBSET Plan
  PROVE  /\ Still(m, PlanClosed(m, P))
         /\ PlanClosed(m, P).sessions \subseteq m.sessions
         /\ Windows(PlanClosed(m, P)) \cap P = {}
PROOF
<1> DEFINE gone == CloseSet(m, P)
           m2 == PlanClosed(m, P)
           runs == [p \in Plan |-> IF p \in gone \cap Windows(m) THEN Halt(m.run[p]) ELSE m.run[p]]
           open == {s \in m.sessions : Hosted(s) => HostPlan(s) \notin gone}
<1>1. /\ m.run \in [Plan -> Run] /\ m.order \in Seq(Plan) /\ m.sessions \subseteq Session
      /\ \A p \in Plan : Len(m.after[p]) \in Nat
      /\ Windows(m) \subseteq Plan
  BY ModelFields
<1>2. m2 = [m EXCEPT !.run = runs, !.order = Without(m.order, gone), !.sessions = open]
  BY <1>1 DEF PlanClosed
<1>3. /\ P \subseteq gone
      /\ \A q \in Plan : Hosted(Origin[q]) /\ Origin[q] \in m.sessions
                           /\ HostPlan(Origin[q]) \in gone => q \in gone
  BY CloseSetClosed
<1> HIDE DEF gone
<1>4. runs \in [Plan -> Run] /\ \A p \in Plan : Waits(runs[p]) \subseteq Waits(m.run[p])
  BY <1>1, HaltWaits
<1>5. Without(m.order, gone) \in Seq(Plan) /\ Range(Without(m.order, gone)) = Windows(m) \ gone
  BY <1>1, WithoutItems DEF Windows
<1>6. open \subseteq m.sessions
  OBVIOUS
<1> HIDE DEF runs, open, m2
<1>7. /\ m2 \in Model /\ m2.run = runs /\ m2.order = Without(m.order, gone) /\ m2.sessions = open
      /\ m2.after = m.after /\ m2.cascade = m.cascade /\ m2.fork = m.fork
  BY <1>1, <1>2, <1>4, <1>5, <1>6 DEF Model
<1>8. TakesNothingBack(m, m2)
  BY <1>1, <1>4, <1>7 DEF TakesNothingBack
<1>9. Windows(m2) = Windows(m) \ gone
  BY <1>5, <1>7 DEF Windows
<1>10. ASSUME Owned(m) PROVE Owned(m2)
  <2> SUFFICES ASSUME NEW p \in Windows(m2)
               PROVE  Origin[p] \in m2.sessions /\ (Hosted(Origin[p]) => HostPlan(Origin[p]) \in Windows(m2))
    BY DEF Owned
  <2>1. p \in Plan /\ p \in Windows(m) /\ p \notin gone
    BY <1>1, <1>9
  <2>2. Origin[p] \in m.sessions /\ (Hosted(Origin[p]) => HostPlan(Origin[p]) \in Windows(m))
    BY <1>10, <2>1 DEF Owned
  <2>3. Hosted(Origin[p]) => HostPlan(Origin[p]) \notin gone
    BY <1>3, <2>1, <2>2
  <2> QED BY <1>7, <1>9, <2>2, <2>3 DEF open
<1> QED BY <1>3, <1>6, <1>7, <1>8, <1>9, <1>10 DEF Still, m2

LEMMA SessionsClosedStill ==
  ASSUME NEW m \in Model, NEW S \in SUBSET Session
  PROVE  Still(m, SessionsClosed(m, S))
PROOF
<1> DEFINE P == {p \in Plan : Origin[p] \in S}
           m1 == PlanClosed(m, P)
           m2 == [m1 EXCEPT !.sessions = m1.sessions \ S]
<1>1. Still(m, m1) /\ Windows(m1) \cap P = {}
  BY PlanClosedStill
<1>2. SessionsClosed(m, S) = m2
  BY DEF SessionsClosed
<1>3. m1 \in Model
  BY <1>1 DEF Still
<1> HIDE DEF m1
<1>4. /\ m1.sessions \subseteq Session /\ Windows(m1) \subseteq Plan
      /\ \A p \in Plan : Len(m1.after[p]) \in Nat
  BY <1>3, ModelFields
<1>5. /\ m2 \in Model /\ m2.run = m1.run /\ m2.order = m1.order /\ m2.sessions = m1.sessions \ S
      /\ m2.after = m1.after /\ m2.cascade = m1.cascade /\ m2.fork = m1.fork
  BY <1>3, <1>4 DEF Model
<1> HIDE DEF m2
<1>6. TakesNothingBack(m1, m2)
  BY <1>4, <1>5 DEF TakesNothingBack
<1>7. Owned(m1) => Owned(m2)
  BY <1>1, <1>4, <1>5 DEF Owned, Windows
<1>8. Still(m1, m2)
  BY <1>5, <1>6, <1>7 DEF Still
<1> QED BY <1>1, <1>2, <1>8, StillSteps

\* One plan's run goes on, if no node of it starts to wait.
LEMMA RunStill ==
  ASSUME NEW m \in Model, NEW p \in Plan, NEW r \in Run, Waits(r) \subseteq Waits(m.run[p])
  PROVE  Still(m, [m EXCEPT !.run[p] = r])
PROOF
<1> DEFINE m2 == [m EXCEPT !.run[p] = r]
<1>1. /\ m.run \in [Plan -> Run]
      /\ \A q \in Plan : Len(m.after[q]) \in Nat
  BY ModelFields
<1>2. [m.run EXCEPT ![p] = r] \in [Plan -> Run]
  BY <1>1
<1>3. /\ m2 \in Model /\ m2.run = [m.run EXCEPT ![p] = r] /\ m2.order = m.order
      /\ m2.sessions = m.sessions /\ m2.after = m.after /\ m2.cascade = m.cascade /\ m2.fork = m.fork
  BY <1>2 DEF Model
<1> HIDE DEF m2
<1>4. TakesNothingBack(m, m2)
  BY <1>1, <1>3 DEF TakesNothingBack
<1>5. Owned(m) => Owned(m2)
  BY <1>3 DEF Owned, Windows
<1>6. Still(m, m2)
  BY <1>3, <1>4, <1>5 DEF Still
<1> QED BY <1>6 DEF m2

LEMMA SteppedStill ==
  ASSUME NEW m \in Model, NEW p \in Plan, NEW r \in Run, Waits(r) \subseteq Waits(m.run[p])
  PROVE  Still(m, Stepped(m, p, r))
PROOF
<1> DEFINE f == FinishStep(m.run[p], r)
           m1 == [m EXCEPT !.run[p] = f.run]
<1>1. f.run \in Run /\ Waits(f.run) \subseteq Waits(m.run[p])
  BY FinishStepWaits
<1>2. Still(m, m1)
  <2> HIDE DEF f
  <2> QED BY <1>1, RunStill
<1>3. m1 \in Model
  BY <1>2 DEF Still
<1>4. Stepped(m, p, r) = SessionsClosed(m1, f.close \cap Session)
  BY DEF Stepped
<1> HIDE DEF f, m1
<1>5. Still(m1, SessionsClosed(m1, f.close \cap Session))
  BY <1>3, SessionsClosedStill
<1> QED BY <1>2, <1>4, <1>5, StillSteps

(***************************************************************************)
(* Single updates.                                                         *)
(***************************************************************************)
LEMMA SayStill ==
  ASSUME NEW m \in Model, NEW msg \in Message
  PROVE  Still(m, Say(m, msg))
PROOF
<1>1. /\ Say(m, msg) \in Model /\ Say(m, msg).run = m.run /\ Say(m, msg).after = m.after
      /\ Say(m, msg).order = m.order /\ Say(m, msg).sessions = m.sessions
      /\ Say(m, msg).cascade = m.cascade /\ Say(m, msg).fork = m.fork
  <2> HIDE DEF Message
  <2> QED BY DEF Say, Model
<1> QED BY <1>1, SameIsStill

LEMMA SaidTypes ==
  /\ \A p \in Plan : <<"PlanClose", p>> \in Message
  /\ \A s \in Session : <<"Resume", s>> \in Message /\ <<"Disconnected", s>> \in Message
  /\ <<"PlanRunStartAt">> \in Message
BY DEF Message

LEMMA RaiseStill ==
  ASSUME NEW m \in Model, NEW p \in Windows(m)
  PROVE  Still(m, Raise(m, p))
PROOF
<1> DEFINE t == Append(Without(m.order, {p}), p)
           m2 == Raise(m, p)
<1>1. m.order \in Seq(Plan) /\ p \in Plan /\ \A q \in Plan : Len(m.after[q]) \in Nat
  BY ModelFields
<1>2. Without(m.order, {p}) \in Seq(Plan) /\ Range(Without(m.order, {p})) = Range(m.order) \ {p}
  BY <1>1, WithoutItems
<1>3. t \in Seq(Plan) /\ Range(t) = Range(m.order)
  <2> DEFINE w == Without(m.order, {p})
  <2> HIDE DEF w
  <2>0. w \in Seq(Plan)
    BY <1>2 DEF w
  <2>1. Append(w, p) \in Seq(Plan) /\ Range(Append(w, p)) = Range(w) \cup {p}
    BY <1>1, <2>0, AppendItems
  <2>2. p \in Range(m.order)
    BY DEF Windows
  <2>3. Range(w) = Range(m.order) \ {p}
    BY <1>2 DEF w
  <2> QED BY <2>1, <2>2, <2>3 DEF w
<1>4. m2 = [m EXCEPT !.order = t]
  BY DEF Raise
<1> HIDE DEF t, m2
<1>5. /\ m2 \in Model /\ m2.run = m.run /\ m2.after = m.after /\ m2.order = t
      /\ m2.sessions = m.sessions /\ m2.cascade = m.cascade /\ m2.fork = m.fork
  BY <1>3, <1>4 DEF Model
<1>6. TakesNothingBack(m, m2)
  BY <1>1, <1>5 DEF TakesNothingBack
<1>7. Owned(m) => Owned(m2)
  BY <1>3, <1>5 DEF Owned, Windows
<1>8. Still(m, m2)
  BY <1>5, <1>6, <1>7 DEF Still
<1> QED BY <1>8 DEF m2

LEMMA SummaryType ==
  ASSUME NEW m \in Model, NEW p \in Plan
  PROVE  Summary(m, p) \in Result
PROOF
<1> DEFINE S == {k \in Node : m.run[p].node[k] = "Succeeded"}
<1>1. m.text[p] \in [Node -> Output]
  BY ModelFields
<1>2. S \in SUBSET Node /\ Summary(m, p) = [n \in S |-> m.text[p][n]]
  BY DEF Summary
<1> HIDE DEF S
<1>3. Summary(m, p) \in [S -> Output]
  BY <1>1, <1>2
<1> QED BY <1>2, <1>3 DEF Result

\* A conversation grows.
LEMMA SaidAfter ==
  ASSUME NEW m \in Model, NEW p \in Plan, NEW x \in Result \cup {None}
  PROVE  Still(m, [m EXCEPT !.after[p] = Append(m.after[p], x)])
PROOF
<1> DEFINE X == Result \cup {None}
           a == [m.after EXCEPT ![p] = Append(m.after[p], x)]
           m2 == [m EXCEPT !.after[p] = Append(m.after[p], x)]
<1>1. /\ m.after \in [Plan -> Seq(X)] /\ \A q \in Plan : Len(m.after[q]) \in Nat
  BY ModelFields
<1> HIDE DEF X
<1>2. Append(m.after[p], x) \in Seq(X) /\ Len(Append(m.after[p], x)) = Len(m.after[p]) + 1
  BY <1>1 DEF X
<1>3. a \in [Plan -> Seq(X)] /\ \A q \in Plan : Len(m.after[q]) <= Len(a[q])
  <2>1. a \in [Plan -> Seq(X)]
    BY <1>1, <1>2
  <2>2. ASSUME NEW q \in Plan PROVE Len(m.after[q]) <= Len(a[q])
    <3>1. CASE q = p
      <4>1. a[q] = Append(m.after[p], x)
        BY <1>1, <3>1
      <4> QED BY <1>1, <1>2, <3>1, <4>1
    <3>2. CASE q # p
      <4>1. a[q] = m.after[q]
        BY <1>1, <3>2
      <4> QED BY <1>1, <4>1
    <3> QED BY <3>1, <3>2
  <2> QED BY <2>1, <2>2
<1>4. m2 = [m EXCEPT !.after = a]
  BY DEF Model
<1> HIDE DEF a, m2
<1>5. /\ m2 \in Model /\ m2.run = m.run /\ m2.after = a /\ m2.order = m.order
      /\ m2.sessions = m.sessions /\ m2.cascade = m.cascade /\ m2.fork = m.fork
  BY <1>3, <1>4 DEF Model, X
<1>6. TakesNothingBack(m, m2)
  BY <1>3, <1>5 DEF TakesNothingBack
<1>7. Owned(m) => Owned(m2)
  BY <1>5 DEF Owned, Windows
<1>8. Still(m, m2)
  BY <1>5, <1>6, <1>7 DEF Still
<1> QED BY <1>8 DEF m2

LEMMA FeedbackStill ==
  ASSUME NEW m \in Model, NEW p \in Plan
  PROVE  Still(m, FeedbackCompletedPlan(m, p))
PROOF
<1> DEFINE m1 == [m EXCEPT !.after[p] = Append(m.after[p], Summary(m, p))]
<1>1. Still(m, m1) /\ Still(m, m)
  BY SummaryType, SaidAfter, SameIsStill
<1>2. m1 \in Model /\ Origin[p] \in Session
  BY <1>1, CascadeAssumption DEF Still
<1>3. Still(m1, Say(m1, <<"Resume", Origin[p]>>))
  BY <1>2, SaidTypes, SayStill
<1>4. FeedbackCompletedPlan(m, p) \in {m, m1, Say(m1, <<"Resume", Origin[p]>>)}
  BY DEF FeedbackCompletedPlan
<1> HIDE DEF m1
<1> QED BY <1>1, <1>2, <1>3, <1>4, StillSteps

(***************************************************************************)
(* The machine of CascadeStep: where an event can lead, and which effects  *)
(* it has.                                                                 *)
(***************************************************************************)
\* A step that only ends the cascade or leaves it as it is.
Ends(cs, step) == step.effects = <<>> /\ (step.cs = cs \/ step.cs.phase = "Done")

\* A completed plan asks for a fork only when its result has changed.
LEMMA CompletedSteps ==
  ASSUME NEW cs \in Cascade, NEW p \in Plan, NEW summary \in Result
  PROVE  \/ Ends(cs, PlanCompleted(cs, p, summary))
         \/ /\ PlanCompleted(cs, p, summary).cs \in Cascade
            /\ PlanCompleted(cs, p, summary).effects = <<[do |-> "ForkInstance", plan |-> p]>>
            /\ summary # cs.rootOld \/ (cs.levels # <<>> /\ summary # Head(cs.levels).old)
PROOF
<1> DEFINE Ls == Seq([plan : Plan, node : Node, conv : Session, old : Result])
<1>0. cs.levels \in Ls
  BY DEF Cascade
<1>1. ASSUME NEW old, NEW levels \in Ls
      PROVE  \/ Ends(cs, Gate(cs, p, summary, old, levels))
             \/ /\ Gate(cs, p, summary, old, levels).cs \in Cascade
                /\ Gate(cs, p, summary, old, levels).effects = <<[do |-> "ForkInstance", plan |-> p]>>
                /\ summary # old
  <2>1. CASE summary = old
    BY <2>1 DEF Gate, Ended, Ends, Cascade
  <2>2. CASE summary # old
    <3>1. [cs EXCEPT !.phase = "WaitingFork", !.levels = levels, !.plan = p, !.summary = summary] \in Cascade
      BY <1>1 DEF Cascade, Phases
    <3> QED BY <2>2, <3>1 DEF Gate
  <2> QED BY <2>1, <2>2
<1>2. Ends(cs, Ignored(cs))
  BY DEF Ends, Ignored
<1>3. cs.levels # <<>> => Tail(cs.levels) \in Ls
  <2> DEFINE L == [plan : Plan, node : Node, conv : Session, old : Result]
  <2> HIDE DEF L
  <2> QED BY <1>0 DEF L
<1> HIDE DEF Ls
<1>4. CASE cs.phase = "WaitingPlan" /\ p = cs.root
  <2>1. PlanCompleted(cs, p, summary) = Gate(cs, p, summary, cs.rootOld, cs.levels)
    BY <1>4 DEF PlanCompleted
  <2> QED BY <1>0, <1>1, <2>1
<1>5. CASE cs.phase = "BranchRunning" /\ cs.levels # <<>> /\ p = Head(cs.levels).plan
  <2>1. PlanCompleted(cs, p, summary) = Gate(cs, p, summary, Head(cs.levels).old, Tail(cs.levels))
    BY <1>5 DEF PlanCompleted
  <2> QED BY <1>1, <1>3, <1>5, <2>1
<1>6. CASE /\ ~ (cs.phase = "WaitingPlan" /\ p = cs.root)
           /\ ~ (cs.phase = "BranchRunning" /\ cs.levels # <<>> /\ p = Head(cs.levels).plan)
  <2>1. PlanCompleted(cs, p, summary) = Ignored(cs)
    BY <1>6 DEF PlanCompleted
  <2> QED BY <1>2, <2>1
<1> QED BY <1>4, <1>5, <1>6

LEMMA HeadLevel ==
  ASSUME NEW cs \in Cascade, cs.levels # <<>>
  PROVE  /\ Head(cs.levels).plan \in Plan /\ Head(cs.levels).node \in Node
         /\ Head(cs.levels).conv \in Session
PROOF
<1> DEFINE L == [plan : Plan, node : Node, conv : Session, old : Result]
<1>1. cs.levels \in Seq(L)
  BY DEF Cascade
<1> HIDE DEF L
<1>2. Head(cs.levels) \in L
  BY <1>1
<1> QED BY <1>2 DEF L

LEMMA NodeSteps ==
  ASSUME NEW cs \in Cascade, NEW p \in Plan, NEW n \in Node
  PROVE  /\ Ends(cs, LevelFailed(cs, p, n))
         /\ \/ Ends(cs, NodeSucceeded(cs, p, n))
            \/ /\ NodeSucceeded(cs, p, n).cs \in Cascade
               /\ NodeSucceeded(cs, p, n).cs.phase = "BranchRunning"
               /\ NodeSucceeded(cs, p, n).effects = <<[do |-> "BranchRerun", plan |-> p, node |-> n]>>
PROOF
<1>1. Ends(cs, Ignored(cs)) /\ Ends(cs, Ended(cs))
  BY DEF Ends, Ignored, Ended, Cascade
<1>2. [cs EXCEPT !.phase = "BranchRunning"] \in Cascade
  BY DEF Cascade, Phases
<1>3. [cs EXCEPT !.phase = "BranchRunning"].phase = "BranchRunning"
  BY DEF Cascade
<1> QED BY <1>1, <1>2, <1>3 DEF LevelFailed, NodeSucceeded

\* A fork that has succeeded is waited for no longer; one that has failed
\* ends the cascade, and touches nothing.
LEMMA ForkSteps ==
  ASSUME NEW cs \in Cascade
  PROVE  /\ cs.phase # "WaitingFork" => Ends(cs, InstanceReady(cs)) /\ Ends(cs, InstanceFailed(cs))
         /\ cs.phase = "WaitingFork" =>
              /\ InstanceReady(cs).cs = [cs EXCEPT !.phase = "WaitingNode"]
              /\ InstanceReady(cs).cs \in Cascade /\ InstanceReady(cs).cs.phase = "WaitingNode"
              /\ InstanceFailed(cs).cs.phase = "Done"
              /\ InstanceFailed(cs).effects = <<[do |-> "CascadeError"]>>
PROOF
<1>1. Ends(cs, Ignored(cs))
  BY DEF Ends, Ignored
<1>2. [cs EXCEPT !.phase = "WaitingNode"] \in Cascade /\ [cs EXCEPT !.phase = "WaitingNode"].phase = "WaitingNode"
  BY DEF Cascade, Phases
<1>3. [cs EXCEPT !.phase = "Done"].phase = "Done"
  BY DEF Cascade
<1> QED BY <1>1, <1>2, <1>3 DEF InstanceReady, InstanceFailed

(***************************************************************************)
(* The executor of its effects.                                            *)
(***************************************************************************)
LEMMA AppliedOne ==
  ASSUME NEW m, NEW e
  PROVE  Applied(m, <<e>>) = ApplyEffect(m, e) /\ Applied(m, <<>>) = m
PROOF
<1>1. Len(<<e>>) = 1 /\ <<e>>[1] = e /\ Len(<<>>) = 0
  OBVIOUS
<1>2. \A m1 : Nth(m1, <<e>>, 1) = ApplyEffect(m1, e) /\ Nth(m1, <<e>>, 2) = m1 /\ Nth(m1, <<e>>, 3) = m1
  BY <1>1 DEF Nth
<1>3. \A i \in {1, 2, 3} : Nth(m, <<>>, i) = m
  BY <1>1 DEF Nth
<1> QED BY <1>2, <1>3 DEF Applied

LEMMA ForkLevelType ==
  ASSUME NEW m \in Model, NEW p \in Plan
  PROVE  ForkLevelFor(m, p) \in (Plan \X Node) \cup {None}
PROOF
<1> DEFINE L == [plan : Plan, node : Node, conv : Session, old : Result]
           i == IF m.cascade.root = p THEN 1 ELSE 2
<1>1. CASE m.cascade = None
  BY <1>1 DEF ForkLevelFor
<1>2. CASE m.cascade # None /\ Len(m.cascade.levels) < i
  BY <1>2 DEF ForkLevelFor
<1>3. CASE m.cascade # None /\ ~ (Len(m.cascade.levels) < i)
  <2>1. m.cascade \in Cascade
    BY <1>3, ModelFields
  <2>2. m.cascade.levels \in Seq(L)
    BY <2>1 DEF Cascade
  <2> HIDE DEF L
  <2>3. i \in DOMAIN m.cascade.levels
    <3>1. Len(m.cascade.levels) \in Nat /\ DOMAIN m.cascade.levels = 1..Len(m.cascade.levels)
      BY <2>2
    <3> QED BY <1>3, <3>1
  <2>4. m.cascade.levels[i] \in L
    BY <2>2, <2>3
  <2> HIDE DEF i
  <2>5. m.cascade.levels[i].plan \in Plan /\ m.cascade.levels[i].node \in Node
    BY <2>4 DEF L
  <2>6. ForkLevelFor(m, p) = <<m.cascade.levels[i].plan, m.cascade.levels[i].node>>
    BY <1>3 DEF ForkLevelFor, i
  <2> QED BY <2>5, <2>6
<1> QED BY <1>1, <1>2, <1>3

\* Afterwards a fork is pending, or there is no cascade.
LEMMA ForkParentSafe ==
  ASSUME NEW m \in Model, NEW p \in Plan
  PROVE  /\ ForkParent(m, p) \in Model /\ Awaited(ForkParent(m, p))
         /\ TakesNothingBack(m, ForkParent(m, p)) /\ (Owned(m) => Owned(ForkParent(m, p)))
PROOF
<1> DEFINE m2 == ForkParent(m, p)
           fork == [child |-> p, level |-> ForkLevelFor(m, p)]
           request == [kind |-> "fork", plan |-> p]
<1>1. m.requests \in Seq(Request) /\ \A q \in Plan : Len(m.after[q]) \in Nat
  BY ModelFields
<1>2. fork \in Fork /\ fork # None
  <2>1. fork \in Fork
    BY ForkLevelType DEF Fork
  <2> HIDE DEF fork
  <2> QED BY <2>1, NothingAssumption
<1>3. request \in Request
  BY DEF Request
<1>4. Append(m.requests, request) \in Seq(Request)
  <2> HIDE DEF request
  <2> QED BY <1>1, <1>3
<1>5. \/ m2 = [m EXCEPT !.fork = fork, !.requests = Append(m.requests, request)]
      \/ m2 = [m EXCEPT !.cascade = None, !.fork = None, !.error = TRUE]
  BY DEF ForkParent, Model
<1> HIDE DEF fork, request, m2
<1>6. /\ m2 \in Model /\ m2.run = m.run /\ m2.order = m.order /\ m2.sessions = m.sessions
      /\ m2.after = m.after /\ (m2.fork = fork \/ m2.cascade = None)
  <2>1. CASE m2 = [m EXCEPT !.fork = fork, !.requests = Append(m.requests, request)]
    BY <1>2, <1>4, <2>1 DEF Model
  <2>2. CASE m2 = [m EXCEPT !.cascade = None, !.fork = None, !.error = TRUE]
    BY <2>2 DEF Model
  <2> QED BY <1>5, <2>1, <2>2
<1>7. Awaited(m2)
  BY <1>2, <1>6 DEF Awaited
<1>8. TakesNothingBack(m, m2)
  BY <1>1, <1>6 DEF TakesNothingBack
<1>9. Owned(m) => Owned(m2)
  BY <1>6 DEF Owned, Windows
<1> QED BY <1>6, <1>7, <1>8, <1>9 DEF m2

LEMMA SameIsSafe ==
  ASSUME NEW m \in Model, NEW m2 \in Model,
         m2.run = m.run, m2.after = m.after, m2.order = m.order, m.sessions \subseteq m2.sessions,
         Awaited(m) => Awaited(m2)
  PROVE  Safe(m, m2)
PROOF
<1>1. \A p \in Plan : Len(m.after[p]) \in Nat
  BY ModelFields
<1>2. TakesNothingBack(m, m2)
  BY <1>1 DEF TakesNothingBack
<1>3. Owned(m) => Owned(m2)
  BY DEF Owned, Windows
<1> QED BY <1>2, <1>3 DEF Safe

\* The cascade's state alone.
LEMMA CascadeStored ==
  ASSUME NEW m \in Model, NEW c \in Cascade \cup {None}
  PROVE  LET m1 == [m EXCEPT !.cascade = c]
         IN  /\ m1 \in Model /\ m1.run = m.run /\ m1.after = m.after /\ m1.order = m.order
             /\ m1.sessions = m.sessions /\ m1.cascade = c /\ m1.fork = m.fork
BY DEF Model

LEMMA FeedEnds ==
  ASSUME NEW m \in Model, m.cascade # None, NEW step, Ends(m.cascade, step)
  PROVE  Safe(m, Feed(m, step)) /\ Feed(m, step).fork = m.fork
PROOF
<1> DEFINE c == IF step.cs.phase = "Done" THEN None ELSE step.cs
           m1 == [m EXCEPT !.cascade = c]
<1>1. m.cascade \in Cascade
  BY ModelFields
<1>2. c = None \/ c = m.cascade
  BY DEF Ends
<1>3. c \in Cascade \cup {None}
  BY <1>1, <1>2
<1>4. Feed(m, step) = m1
  BY AppliedOne DEF Feed, Ends
<1> HIDE DEF c
<1>5. /\ m1 \in Model /\ m1.run = m.run /\ m1.after = m.after /\ m1.order = m.order
      /\ m1.sessions = m.sessions /\ m1.cascade = c /\ m1.fork = m.fork
  BY <1>3, CascadeStored
<1> HIDE DEF m1
<1>6. Awaited(m) => Awaited(m1)
  BY <1>2, <1>5 DEF Awaited
<1>7. Safe(m, m1)
  BY <1>5, <1>6, SameIsSafe
<1> QED BY <1>4, <1>5, <1>7

LEMMA CompletionSafe ==
  ASSUME NEW m \in Model, NEW p \in Plan
  PROVE  Safe(m, CascadeOnPlanCompleted(m, p))
PROOF
<1> DEFINE step == PlanCompleted(m.cascade, p, Summary(m, p))
<1>1. CASE m.cascade = None
  BY <1>1, FeedbackStill, StillIsSafe DEF CascadeOnPlanCompleted
<1>2. CASE m.cascade # None
  <2>1. m.cascade \in Cascade /\ Summary(m, p) \in Result
    BY <1>2, ModelFields, SummaryType
  <2>2. CascadeOnPlanCompleted(m, p) = Feed(m, step)
    BY <1>2 DEF CascadeOnPlanCompleted
  <2>3. \/ Ends(m.cascade, step)
        \/ step.cs \in Cascade /\ step.effects = <<[do |-> "ForkInstance", plan |-> p]>>
    BY <2>1, CompletedSteps
  <2> HIDE DEF step
  <2>4. CASE Ends(m.cascade, step)
    BY <1>2, <2>2, <2>4, FeedEnds
  <2>5. CASE step.cs \in Cascade /\ step.effects = <<[do |-> "ForkInstance", plan |-> p]>>
    <3> DEFINE m1 == [m EXCEPT !.cascade = step.cs]
               e == [do |-> "ForkInstance", plan |-> p]
               m2 == ForkParent(m1, p)
    <3>1. step.cs.phase # "Done"
      BY <2>5 DEF Cascade
    <3>2. Feed(m, step) = Applied(m1, <<e>>)
      BY <2>5, <3>1 DEF Feed
    <3>3. ApplyEffect(m1, e) = m2
      BY DEF ApplyEffect
    <3>4. Feed(m, step) = m2
      <4> HIDE DEF m1, m2, e
      <4> QED BY <3>2, <3>3, AppliedOne
    <3>5. /\ m1 \in Model /\ m1.run = m.run /\ m1.after = m.after /\ m1.order = m.order
          /\ m1.sessions = m.sessions
      BY <2>5, CascadeStored
    <3> HIDE DEF m1
    <3>6. /\ m2 \in Model /\ Awaited(m2) /\ TakesNothingBack(m1, m2) /\ (Owned(m1) => Owned(m2))
      BY <3>5, ForkParentSafe
    <3>7. TakesNothingBack(m, m2)
      BY <3>5, <3>6 DEF TakesNothingBack
    <3>8. Owned(m) => Owned(m1)
      BY <3>5 DEF Owned, Windows
    <3> QED BY <2>2, <3>4, <3>6, <3>7, <3>8 DEF Safe
  <2> QED BY <2>3, <2>4, <2>5
<1> QED BY <1>1, <1>2

\* What every event of a run leads to.
LEMMA RunStepInSafe ==
  ASSUME NEW m \in Model, NEW p \in Plan, NEW r \in Run, Waits(r) \subseteq Waits(m.run[p])
  PROVE  Safe(m, RunStepIn(m, p, r))
PROOF
<1> DEFINE m1 == Stepped(m, p, r)
           m2 == CascadeOnPlanCompleted(m1, p)
<1>1. Safe(m, m1) /\ m1 \in Model
  BY SteppedStill, StillIsSafe DEF Safe
<1> HIDE DEF m1
<1>2. Safe(m1, m2) /\ m2 \in Model
  BY <1>1, CompletionSafe DEF Safe
<1> HIDE DEF m2
<1>3. Safe(m, m2)
  BY <1>1, <1>2, SafeSteps
<1>4. Safe(m2, Say(m2, <<"PlanClose", p>>))
  BY <1>2, SaidTypes, SayStill, StillIsSafe
<1>5. Safe(m, Say(m2, <<"PlanClose", p>>))
  BY <1>3, <1>4, SafeSteps
<1>6. RunStepIn(m, p, r) \in {m1, m2, Say(m2, <<"PlanClose", p>>)}
  BY DEF RunStepIn, m1, m2
<1> QED BY <1>1, <1>3, <1>5, <1>6

LEMMA BranchRerunSafe ==
  ASSUME NEW m \in Model, NEW p \in Plan, NEW n \in Node
  PROVE  Still(m, ApplyEffect(m, [do |-> "BranchRerun", plan |-> p, node |-> n]))
PROOF
<1> DEFINE r == ResumeBranchFrom(m.run[p], n)
           e == [do |-> "BranchRerun", plan |-> p, node |-> n]
<1>1. m.run[p] \in Run
  BY ModelFields
<1>2. r \in Run /\ Waits(r) \subseteq Waits(m.run[p])
  BY <1>1, NodeHandlerWaits
<1>3. ApplyEffect(m, e) = IF p \in Windows(m) THEN Stepped(m, p, r) ELSE m
  BY DEF ApplyEffect
<1> HIDE DEF r, e
<1>4. Still(m, Stepped(m, p, r)) /\ Still(m, m)
  BY <1>2, SteppedStill, SameIsStill
<1> QED BY <1>3, <1>4 DEF e

LEMMA AfterTaskDoneSafe ==
  ASSUME NEW m \in Model, NEW p \in Plan, NEW c, NEW r
  PROVE  Safe(m, AfterTaskDone(m, p, c, r))
PROOF
<1> DEFINE cs == m.cascade
           lvl == Head(cs.levels)
           ok == NodeSucceeded(cs, p, lvl.node)
           bad == LevelFailed(cs, p, lvl.node)
<1>0. Safe(m, m)
  BY SameIsSafe
<1>1. CASE cs = None \/ cs.levels = <<>>
  BY <1>0, <1>1 DEF AfterTaskDone
<1>2. CASE cs # None /\ cs.levels # <<>>
  <2>1. cs \in Cascade /\ lvl.node \in Node
    BY <1>2, ModelFields, HeadLevel
  <2>2. AfterTaskDone(m, p, c, r) \in {m, Feed(m, ok), Feed(m, bad)}
    BY <1>2 DEF AfterTaskDone
  <2>3. Ends(cs, bad)
    BY <2>1, NodeSteps
  <2>4. \/ Ends(cs, ok)
        \/ /\ ok.cs \in Cascade /\ ok.cs.phase = "BranchRunning"
           /\ ok.effects = <<[do |-> "BranchRerun", plan |-> p, node |-> lvl.node]>>
    BY <2>1, NodeSteps
  <2> HIDE DEF ok, bad
  <2>5. Safe(m, Feed(m, bad))
    BY <1>2, <2>3, FeedEnds
  <2>6. CASE Ends(cs, ok)
    <3>1. Safe(m, Feed(m, ok))
      BY <1>2, <2>6, FeedEnds
    <3> QED BY <1>0, <2>2, <2>5, <3>1
  <2>7. CASE /\ ok.cs \in Cascade /\ ok.cs.phase = "BranchRunning"
             /\ ok.effects = <<[do |-> "BranchRerun", plan |-> p, node |-> lvl.node]>>
    <3> DEFINE m1 == [m EXCEPT !.cascade = ok.cs]
               e == [do |-> "BranchRerun", plan |-> p, node |-> lvl.node]
    <3>1. Feed(m, ok) = Applied(m1, <<e>>)
      BY <2>7 DEF Feed
    <3>2. /\ m1 \in Model /\ m1.run = m.run /\ m1.after = m.after /\ m1.order = m.order
          /\ m1.sessions = m.sessions /\ m1.cascade = ok.cs
      BY <2>7, CascadeStored
    <3> HIDE DEF m1
    <3>3. Still(m1, ApplyEffect(m1, e))
      BY <2>1, <3>2, BranchRerunSafe
    <3>4. Feed(m, ok) = ApplyEffect(m1, e)
      <4> HIDE DEF e
      <4> QED BY <3>1, AppliedOne
    <3>5. Awaited(m1)
      BY <2>7, <3>2 DEF Awaited
    <3>6. Safe(m, m1)
      BY <3>2, <3>5, SameIsSafe
    <3>7. Safe(m, Feed(m, ok))
      BY <3>3, <3>4, <3>6, StillIsSafe, SafeSteps
    <3> QED BY <1>0, <2>2, <2>5, <3>7
  <2> QED BY <2>4, <2>6, <2>7
<1> QED BY <1>1, <1>2

(***************************************************************************)
(* Adopting a fork.  Here nodes wait again, and conversations are cut.     *)
(***************************************************************************)
\* What adoption keeps, the runs aside.
Further(m, m2) ==
  /\ m2 \in Model /\ (Owned(m) => Owned(m2)) /\ m2.cascade = m.cascade
  /\ \A p \in Plan : Len(m.after[p]) <= Len(m2.after[p])

LEMMA StillIsFurther ==
  ASSUME NEW m, NEW m2, Still(m, m2)
  PROVE  Further(m, m2)
BY DEF Still, Further, TakesNothingBack

LEMMA FurtherSteps ==
  ASSUME NEW m \in Model, NEW m1, NEW m2, Further(m, m1), Further(m1, m2)
  PROVE  Further(m, m2)
PROOF
<1>1. m1 \in Model /\ m2 \in Model
  BY DEF Further
<1>2. ASSUME NEW p \in Plan PROVE Len(m.after[p]) <= Len(m2.after[p])
  <2>1. Len(m.after[p]) \in Nat /\ Len(m1.after[p]) \in Nat /\ Len(m2.after[p]) \in Nat
    BY <1>1, ModelFields
  <2>2. Len(m.after[p]) <= Len(m1.after[p]) /\ Len(m1.after[p]) <= Len(m2.after[p])
    BY DEF Further
  <2> QED BY <2>1, <2>2
<1> QED BY <1>1, <1>2 DEF Further

LEMMA RegisterForkFurther ==
  ASSUME NEW m \in Model, m.fork # None
  PROVE  Further(m, RegisterFork(m)) /\ RegisterFork(m).fork = None
PROOF
<1> DEFINE m1 == [m EXCEPT !.fork = None, !.error = FALSE]
           msg == <<"PlanClose", m.fork.child>>
<1>1. m.fork.child \in Plan
  BY ModelFields DEF Fork
<1>2. msg \in Message
  BY <1>1, SaidTypes
<1>3. /\ m1 \in Model /\ m1.run = m.run /\ m1.after = m.after /\ m1.order = m.order
      /\ m1.sessions = m.sessions /\ m1.cascade = m.cascade /\ m1.fork = None
  BY DEF Model
<1>4. RegisterFork(m) = Say(m1, msg)
  BY DEF RegisterFork
<1> HIDE DEF m1, msg
<1>5. Still(m1, Say(m1, msg))
  BY <1>2, <1>3, SayStill
<1>6. Further(m, m1)
  BY <1>3, ModelFields DEF Further, Owned, Windows
<1> QED BY <1>3, <1>4, <1>5, <1>6, StillIsFurther, FurtherSteps DEF Still

LEMMA ResumeNodeFurther ==
  ASSUME NEW m \in Model, NEW p \in Plan, NEW n \in Node, NEW conv \in Session
  PROVE  Further(m, ResumeNode(m, p, n, conv)) /\ ResumeNode(m, p, n, conv).fork = m.fork
PROOF
<1> DEFINE r == m.run[p]
           ra == [r EXCEPT !.status = "InProgress"]
           rb == [r EXCEPT !.status = "InProgress", !.node[n] = "WaitingForPlan", !.conv[n] = conv]
           m1 == IF p \notin Windows(m) THEN m
                 ELSE IF r.node[n] # "Succeeded" THEN [m EXCEPT !.run[p].status = "InProgress"]
                 ELSE [m EXCEPT !.run[p] = rb]
<1>1. /\ m.run \in [Plan -> Run] /\ r \in Run
      /\ \A q \in Plan : Len(m.after[q]) \in Nat
  BY ModelFields
<1>2. ra \in Run /\ rb \in Run
  BY <1>1, CascadeAssumption DEF Run, RunStatus, NodeStatus, MaybeConv
<1>3. [m EXCEPT !.run[p].status = "InProgress"] = [m EXCEPT !.run[p] = ra]
  BY DEF Model
<1>4. m1 \in {m, [m EXCEPT !.run[p] = ra], [m EXCEPT !.run[p] = rb]}
  BY <1>3
<1>5. ResumeNode(m, p, n, conv) = Say(m1, <<"Resume", conv>>)
  BY DEF ResumeNode
<1> HIDE DEF ra, rb, m1, r
<1>6. ASSUME NEW q \in {ra, rb}
      PROVE  Further(m, [m EXCEPT !.run[p] = q]) /\ [m EXCEPT !.run[p] = q].fork = m.fork
  <2> DEFINE m2 == [m EXCEPT !.run[p] = q]
  <2>1. [m.run EXCEPT ![p] = q] \in [Plan -> Run]
    BY <1>1, <1>2
  <2>2. /\ m2 \in Model /\ m2.order = m.order /\ m2.sessions = m.sessions
        /\ m2.after = m.after /\ m2.cascade = m.cascade /\ m2.fork = m.fork
    BY <2>1 DEF Model
  <2> HIDE DEF m2
  <2>3. Further(m, m2)
    BY <1>1, <2>2 DEF Further, Owned, Windows
  <2> QED BY <2>2, <2>3 DEF m2
<1>7. Further(m, m)
  BY <1>1 DEF Further
<1>8. Further(m, m1) /\ m1.fork = m.fork
  BY <1>4, <1>6, <1>7
<1>9. m1 \in Model
  BY <1>8 DEF Further
<1>10. Still(m1, Say(m1, <<"Resume", conv>>))
  BY <1>9, SaidTypes, SayStill
<1> QED BY <1>5, <1>8, <1>10, StillIsFurther, FurtherSteps DEF Still

LEMMA AppliedThree ==
  ASSUME NEW m, NEW e1, NEW e2, NEW e3
  PROVE  /\ Applied(m, <<e1, e2>> \o <<>>) = ApplyEffect(ApplyEffect(m, e1), e2)
         /\ Applied(m, <<e1, e2>> \o <<e3>>) = ApplyEffect(ApplyEffect(ApplyEffect(m, e1), e2), e3)
PROOF
<1>1. <<e1, e2>> \o <<>> = <<e1, e2>> /\ <<e1, e2>> \o <<e3>> = <<e1, e2, e3>>
  <2> DEFINE X == {e1, e2, e3}
             s == <<e1, e2>>
             t == <<e3>>
             u == <<e1, e2, e3>>
  <2>1. s \in Seq(X) /\ t \in Seq(X) /\ u \in Seq(X) /\ Len(s) = 2 /\ Len(t) = 1 /\ Len(u) = 3
    OBVIOUS
  <2>2. s[1] = e1 /\ s[2] = e2 /\ t[1] = e3 /\ u[1] = e1 /\ u[2] = e2 /\ u[3] = e3
    OBVIOUS
  <2> HIDE DEF X, s, t, u
  <2>3. s \o <<>> = s
    BY <2>1
  <2>4. s \o t \in Seq(X) /\ Len(s \o t) = Len(s) + Len(t) /\ Len(s) + Len(t) = 3
    BY <2>1, ConcatProperties
  <2>5. (s \o t)[1] = s[1] /\ (s \o t)[2] = s[2] /\ (s \o t)[3] = t[1]
    <3>1. \A i \in 1..(Len(s) + Len(t)) : (s \o t)[i] = IF i <= Len(s) THEN s[i] ELSE t[i - Len(s)]
      BY <2>1, ConcatProperties
    <3>2. /\ 1 \in 1..(Len(s) + Len(t)) /\ 2 \in 1..(Len(s) + Len(t)) /\ 3 \in 1..(Len(s) + Len(t))
          /\ 1 <= Len(s) /\ 2 <= Len(s) /\ ~ (3 <= Len(s)) /\ 3 - Len(s) = 1
      BY <2>1
    <3>3. (s \o t)[1] = s[1] /\ (s \o t)[2] = s[2]
      BY <3>1, <3>2
    <3>4. (s \o t)[3] = t[3 - Len(s)]
      BY <3>1, <3>2
    <3> QED BY <3>2, <3>3, <3>4
  <2>6. \A i \in 1..3 : (s \o t)[i] = u[i]
    <3>1. \A i \in 1..3 : i = 1 \/ i = 2 \/ i = 3
      OBVIOUS
    <3> QED BY <2>2, <2>5, <3>1
  <2>7. s \o t = u
    BY <2>1, <2>4, <2>6, SeqEqual
  <2> QED BY <2>3, <2>7 DEF s, t, u
<1>2. /\ Len(<<e1, e2>>) = 2 /\ <<e1, e2>>[1] = e1 /\ <<e1, e2>>[2] = e2
      /\ Len(<<e1, e2, e3>>) = 3 /\ <<e1, e2, e3>>[1] = e1 /\ <<e1, e2, e3>>[2] = e2
      /\ <<e1, e2, e3>>[3] = e3
  OBVIOUS
<1>3. \A m1 : /\ Nth(m1, <<e1, e2>>, 1) = ApplyEffect(m1, e1) /\ Nth(m1, <<e1, e2>>, 2) = ApplyEffect(m1, e2)
              /\ Nth(m1, <<e1, e2>>, 3) = m1
              /\ Nth(m1, <<e1, e2, e3>>, 1) = ApplyEffect(m1, e1)
              /\ Nth(m1, <<e1, e2, e3>>, 2) = ApplyEffect(m1, e2)
              /\ Nth(m1, <<e1, e2, e3>>, 3) = ApplyEffect(m1, e3)
  BY <1>2 DEF Nth
<1> QED BY <1>1, <1>3 DEF Applied

\* The fork is registered, the result inserted, and the head level resumed.
LEMMA ReadyFed ==
  ASSUME NEW m \in Model, m.cascade # None, m.cascade.phase = "WaitingFork", m.fork # None
  PROVE  LET m2 == Feed(m, InstanceReady(m.cascade))
         IN  /\ m2 \in Model /\ (Owned(m) => Owned(m2))
             /\ m2.fork = None /\ m2.cascade # None /\ m2.cascade.phase = "WaitingNode"
             /\ \A p \in Plan : Len(m.after[p]) <= Len(m2.after[p])
PROOF
<1> DEFINE cs == m.cascade
           step == InstanceReady(cs)
           m1 == [m EXCEPT !.cascade = step.cs]
           e1 == [do |-> "RegisterFork"]
           e2 == [do |-> "InsertResult", plan |-> cs.plan, summary |-> cs.summary]
           l == Head(cs.levels)
           e3 == [do |-> "ResumeNode", plan |-> l.plan, node |-> l.node, conv |-> l.conv]
           a == RegisterFork(m1)
           b == [a EXCEPT !.after[cs.plan] = Append(a.after[cs.plan], cs.summary)]
           c == ResumeNode(b, l.plan, l.node, l.conv)
<1>1. cs \in Cascade /\ step.cs \in Cascade /\ step.cs.phase = "WaitingNode" /\ step.cs # None
  <2>1. cs \in Cascade
    BY ModelFields
  <2>2. step.cs \in Cascade /\ step.cs.phase = "WaitingNode"
    BY <2>1, ForkSteps
  <2> QED BY <2>1, <2>2, NothingAssumption
<1>2. cs.plan \in Plan /\ cs.summary \in Result
  BY <1>1 DEF Cascade
<1>3. step.effects = <<e1, e2>> \o IF cs.levels = <<>> THEN <<>> ELSE <<e3>>
  BY DEF InstanceReady, ResumeEffects
<1>4. Feed(m, step) = Applied(m1, step.effects)
  BY <1>1 DEF Feed
<1>5. /\ ApplyEffect(m1, e1) = a
      /\ ApplyEffect(a, e2) = InsertResult(a, cs.plan, cs.summary)
      /\ ApplyEffect(b, e3) = c
  BY DEF ApplyEffect
<1>6. InsertResult(a, cs.plan, cs.summary) = b
  BY DEF InsertResult
<1>7. Feed(m, step) = IF cs.levels = <<>> THEN b ELSE c
  <2> HIDE DEF m1, e1, e2, e3, a, b, c, cs, step
  <2>1. Applied(m1, <<e1, e2>> \o <<>>) = b /\ Applied(m1, <<e1, e2>> \o <<e3>>) = c
    BY <1>5, <1>6, AppliedThree
  <2>2. CASE cs.levels = <<>>
    BY <1>3, <1>4, <2>1, <2>2
  <2>3. CASE cs.levels # <<>>
    BY <1>3, <1>4, <2>1, <2>3
  <2> QED BY <2>2, <2>3
<1>8. /\ m1 \in Model /\ m1.run = m.run /\ m1.after = m.after /\ m1.order = m.order
      /\ m1.sessions = m.sessions /\ m1.cascade = step.cs /\ m1.fork = m.fork
  BY <1>1, CascadeStored
<1> HIDE DEF m1, step
<1>9. Further(m1, a) /\ a.fork = None /\ a \in Model
  BY <1>8, RegisterForkFurther DEF Further
<1> HIDE DEF a
<1>10. Further(a, b) /\ b.fork = None /\ b \in Model
  <2>1. Still(a, b)
    BY <1>2, <1>9, SaidAfter
  <2> QED BY <1>9, <2>1, StillIsFurther DEF Still
<1> HIDE DEF b
<1>11. cs.levels # <<>> => Further(b, c) /\ c.fork = None
  BY <1>1, <1>10, HeadLevel, ResumeNodeFurther
<1> DEFINE m2 == IF cs.levels = <<>> THEN b ELSE c
<1>12. Further(m1, b) /\ (cs.levels # <<>> => Further(m1, c))
  BY <1>8, <1>9, <1>10, <1>11, FurtherSteps
<1> HIDE DEF c, cs
<1>13. Further(m1, m2) /\ m2.fork = None
  BY <1>10, <1>11, <1>12
<1> HIDE DEF m2
<1>14. /\ m2 \in Model /\ (Owned(m1) => Owned(m2)) /\ m2.cascade = step.cs
       /\ \A p \in Plan : Len(m.after[p]) <= Len(m2.after[p])
  BY <1>8, <1>13 DEF Further
<1>15. Owned(m) => Owned(m1)
  BY <1>8 DEF Owned, Windows
<1>16. m2 = Feed(m, InstanceReady(m.cascade))
  BY <1>7 DEF m2, step, cs
<1> QED BY <1>1, <1>13, <1>14, <1>15, <1>16

\* A session that arrives is shown by a window; messages go from the window
\* of an origin only when a fork is pending.
LEMMA ArrivalKeeps ==
  ASSUME NEW m \in Model, NEW whose
  PROVE  LET m2 == SessionArrives(m, whose)
         IN  /\ m2 \in Model /\ m2.run = m.run /\ m2.order = m.order /\ m.sessions \subseteq m2.sessions
             /\ m2.cascade = m.cascade /\ m2.fork = m.fork
             /\ m.fork = None => m2.after = m.after
PROOF
<1>1. CASE m.fork # None
  <2> DEFINE p == m.fork.child
             w == IF whose = "fork" THEN "fork" ELSE "other"
             a == [m.after EXCEPT ![p] = <<>>]
             k == [m.copy EXCEPT ![Origin[p]] = w]
             s == m.sessions \cup {Origin[p]}
  <2>1. p \in Plan /\ Origin[p] \in Session
    <3>1. m.fork \in Fork
      BY <1>1, ModelFields
    <3> QED BY <3>1, CascadeAssumption DEF Fork
  <2>2. SessionArrives(m, whose) = [m EXCEPT !.sessions = s, !.copy = k, !.after = a]
    <3>1. SessionArrives(m, whose) = ForkSessionCreated(m, w)
      BY <1>1 DEF SessionArrives
    <3> HIDE DEF w
    <3>2. ForkSessionCreated(m, w) = [m EXCEPT !.sessions = s, !.copy = k, !.after = a]
      BY DEF ForkSessionCreated, Model
    <3> QED BY <3>1, <3>2
  <2>3. /\ m.after \in [Plan -> Seq(Result \cup {None})] /\ m.sessions \subseteq Session
        /\ m.copy \in [Session -> {"own", "fork", "other"}]
    BY ModelFields DEF Model
  <2>4. a \in [Plan -> Seq(Result \cup {None})]
    <3> DEFINE X == Result \cup {None}
    <3>1. <<>> \in Seq(X)
      OBVIOUS
    <3> HIDE DEF X
    <3>2. a \in [Plan -> Seq(X)]
      BY <2>3, <3>1 DEF X
    <3> QED BY <3>2 DEF X
  <2>5. k \in [Session -> {"own", "fork", "other"}] /\ s \subseteq Session
    BY <2>1, <2>3
  <2> HIDE DEF a, k, s, p
  <2> DEFINE m2 == [m EXCEPT !.sessions = s, !.copy = k, !.after = a]
  <2>6. /\ m2 \in Model /\ m2.run = m.run /\ m2.order = m.order /\ m2.sessions = s
        /\ m2.cascade = m.cascade /\ m2.fork = m.fork
    BY <2>4, <2>5 DEF Model
  <2> QED BY <1>1, <2>2, <2>6 DEF s
<1>2. CASE m.fork = None /\ m.resuming # None
  <2> DEFINE w == IF whose = "resume" THEN m.copy[m.resuming] ELSE "other"
             k == [m.copy EXCEPT ![m.resuming] = w]
             s == m.sessions \cup {m.resuming}
             m2 == [m EXCEPT !.sessions = s, !.resuming = None, !.copy = k]
  <2>1. m.resuming \in Session /\ m.sessions \subseteq Session
    BY <1>2, ModelFields
  <2>2. m.copy \in [Session -> {"own", "fork", "other"}]
    BY DEF Model
  <2>3. SessionArrives(m, whose) = m2
    BY <1>2 DEF SessionArrives, ResumeSessionCreated, Model
  <2>4. k \in [Session -> {"own", "fork", "other"}] /\ s \subseteq Session
    BY <2>1, <2>2
  <2> HIDE DEF k, s, w
  <2>5. /\ m2 \in Model /\ m2.run = m.run /\ m2.order = m.order /\ m2.sessions = s
        /\ m2.cascade = m.cascade /\ m2.fork = m.fork /\ m2.after = m.after
    BY <2>4 DEF Model
  <2> QED BY <2>3, <2>5 DEF s
<1>3. CASE m.fork = None /\ m.resuming = None
  BY <1>3 DEF SessionArrives
<1> QED BY <1>1, <1>2, <1>3

(***************************************************************************)
(* The scope of a re-run.                                                  *)
(***************************************************************************)
LEMMA BindingType ==
  ASSUME NEW m, NEW s
  PROVE  Binding(m, s) \in Node \cup {None}
PROOF
<1> DEFINE q == HostPlan(s)
           B == {n \in Node : m.run[q].conv[n] = s \/ m.run[q].last[n] = s}
<1>1. CASE q \in Windows(m) /\ B # {}
  <2>1. B \in SUBSET Nat
    BY PlanAssumption
  <2>2. \E n \in B : \A k \in B : n <= k
    BY <1>1, <2>1, LeastNumber
  <2>3. Binding(m, s) = CHOOSE n \in B : \A k \in B : n <= k
    BY <1>1 DEF Binding
  <2>4. B \subseteq Node
    OBVIOUS
  <2> HIDE DEF B
  <2> QED BY <2>2, <2>3, <2>4
<1>2. CASE ~ (q \in Windows(m) /\ B # {})
  BY <1>2 DEF Binding
<1> QED BY <1>1, <1>2

\* The walk up the plans ends, since plans are nested.
LEMMA LevelsType ==
  ASSUME NEW m \in Model, NEW p \in Plan
  PROVE  Levels(m, p) \in Seq(Level)
PROOF
<1> DEFINE top(q) == Origin[q] \notin m.sessions \/ ~Hosted(Origin[q])
           level(q) == [plan |-> HostPlan(Origin[q]), node |-> Binding(m, Origin[q]), conv |-> Origin[q]]
           up(g, q) == IF top(q) THEN <<>> ELSE <<level(q)>> \o g[HostPlan(Origin[q])]
           walk == CHOOSE g : g = [q \in Plan |-> up(g, q)]
<1>1. Levels(m, p) = walk[p]
  BY DEF Levels
<1>2. ASSUME NEW q \in Plan, ~ top(q)
      PROVE  HostPlan(Origin[q]) \in Plan /\ level(q) \in Level
  <2>1. Origin[q] \in Session
    BY CascadeAssumption
  <2>2. Host[Origin[q]] \in Plan \X Node
    BY <1>2, <2>1, CascadeAssumption DEF Hosted
  <2>3. HostPlan(Origin[q]) \in Plan
    BY <2>2 DEF HostPlan
  <2> QED BY <2>1, <2>3, BindingType DEF Level
<1>3. PICK depth \in [Plan -> 0..Cardinality(Plan)] :
        \A q \in Plan : Hosted(Origin[q]) => depth[HostPlan(Origin[q])] < depth[q]
  BY NestingAssumption
<1>4. Cardinality(Plan) \in Nat /\ \A q \in Plan : depth[q] \in Nat
  BY CascadeAssumption, FS_CardinalityType
<1>5. \A q \in Plan : ~ top(q) => depth[HostPlan(Origin[q])] < depth[q]
  BY <1>3
<1>6. <<>> \in Seq(Level) /\ \A q \in Plan, t \in Seq(Level) : ~ top(q) => <<level(q)>> \o t \in Seq(Level)
  <2>1. <<>> \in Seq(Level)
    OBVIOUS
  <2>2. ASSUME NEW l \in Level, NEW t \in Seq(Level) PROVE <<l>> \o t \in Seq(Level)
    <3>1. <<l>> \in Seq(Level)
      OBVIOUS
    <3> QED BY <3>1, ConcatProperties
  <2> HIDE DEF level
  <2> QED BY <1>2, <2>1, <2>2
<1> HIDE DEF top, level
\* A function that is a walk below some depth, and what one more step gives.
<1> DEFINE Fits(f, n) == f \in [Plan -> Seq(Level)] /\ \A q \in Plan : depth[q] < n => f[q] = up(f, q)
<1>7. \A n \in Nat : \E f : Fits(f, n)
  <2> DEFINE bad == {n \in Nat : ~ \E f : Fits(f, n)}
  <2> SUFFICES ASSUME bad # {} PROVE FALSE
    OBVIOUS
  <2>1. PICK n \in bad : \A k \in bad : n <= k
    BY LeastNumber
  <2>2. CASE n = 0
    <3> DEFINE f == [q \in Plan |-> <<>>]
    <3>1. f \in [Plan -> Seq(Level)]
      BY <1>6
    <3>2. \A q \in Plan : ~ (depth[q] < 0)
      BY <1>4
    <3>3. Fits(f, 0)
      BY <3>1, <3>2
    <3> HIDE DEF Fits
    <3> QED BY <2>2, <3>3
  <2>3. CASE n # 0
    <3>1. n - 1 \in Nat /\ n - 1 \notin bad
      <4>1. n \in Nat
        OBVIOUS
      <4> HIDE DEF bad
      <4>2. n - 1 \in Nat /\ ~ (n <= n - 1)
        BY <2>3, <4>1
      <4> QED BY <2>1, <4>2
    <3>2. PICK g : Fits(g, n - 1)
      <4> HIDE DEF Fits
      <4> QED BY <3>1
    <3> DEFINE f == [q \in Plan |-> up(g, q)]
    <3>3. f \in [Plan -> Seq(Level)]
      <4> SUFFICES ASSUME NEW q \in Plan PROVE up(g, q) \in Seq(Level)
        OBVIOUS
      <4> QED BY <1>2, <1>6, <3>2
    <3>4. ASSUME NEW q \in Plan, depth[q] < n PROVE f[q] = up(f, q)
      <4>1. CASE top(q)
        BY <4>1
      <4>2. CASE ~ top(q)
        <5> DEFINE h == HostPlan(Origin[q])
        <5>1. h \in Plan /\ depth[h] < n - 1
          BY <1>2, <1>4, <1>5, <3>4, <4>2
        <5>2. g[h] = f[h]
          BY <3>2, <5>1
        <5> HIDE DEF f
        <5>3. f[q] = up(g, q)
          BY DEF f
        <5> QED BY <4>2, <5>2, <5>3
      <4> QED BY <4>1, <4>2
    <3>5. Fits(f, n)
      BY <3>3, <3>4
    <3> HIDE DEF Fits, f
    <3> QED BY <3>5
  <2> QED BY <2>2, <2>3
<1>8. PICK f : Fits(f, Cardinality(Plan) + 1)
  <2> HIDE DEF Fits
  <2>1. Cardinality(Plan) + 1 \in Nat
    BY <1>4
  <2> QED BY <1>7, <2>1
<1>9. f = [q \in Plan |-> up(f, q)]
  <2>1. \A q \in Plan : depth[q] < Cardinality(Plan) + 1
    BY <1>3, <1>4
  <2>2. \A q \in Plan : f[q] = up(f, q)
    BY <1>8, <2>1
  <2>3. f \in [Plan -> Seq(Level)]
    BY <1>8
  <2> QED BY <2>2, <2>3
<1>10. walk = [q \in Plan |-> up(walk, q)]
  BY <1>9
<1>11. \A q \in Plan : walk[q] \in Seq(Level)
  <2> DEFINE bad == {n \in Nat : \E q \in Plan : depth[q] = n /\ walk[q] \notin Seq(Level)}
  <2> HIDE DEF walk
  <2>1. bad = {}
    <3> SUFFICES ASSUME bad # {} PROVE FALSE
      OBVIOUS
    <3>1. PICK n \in bad : \A k \in bad : n <= k
      BY LeastNumber
    <3>2. PICK q \in Plan : depth[q] = n /\ walk[q] \notin Seq(Level)
      BY <3>1
    <3>3. walk[q] = up(walk, q)
      BY <1>10
    <3>4. ~ top(q)
      BY <1>6, <3>2, <3>3
    <3> DEFINE h == HostPlan(Origin[q])
    <3>5. h \in Plan /\ depth[h] < n /\ depth[h] \in Nat
      BY <1>2, <1>4, <1>5, <3>2, <3>4
    <3>6. depth[h] \notin bad
      BY <3>1, <3>5
    <3>7. walk[h] \in Seq(Level)
      BY <3>5, <3>6
    <3> QED BY <1>6, <3>2, <3>3, <3>4, <3>7
  <2> QED BY <1>4, <2>1
<1> QED BY <1>1, <1>11

\* The cascade of a confirmed scope waits for its root.
LEMMA BuildCascadeType ==
  ASSUME NEW m \in Model, NEW scope \in [root : Plan, levels : Seq(Level)]
  PROVE  BuildCascade(m, scope) \in Cascade /\ BuildCascade(m, scope).phase = "WaitingPlan"
PROOF
<1> DEFINE ls == scope.levels
           I == {i \in DOMAIN ls : ls[i].node # None /\ ls[i].plan \in Windows(m)}
           kept == Picked(ls, I)
           level(i) == [plan |-> kept[i].plan, node |-> kept[i].node, conv |-> kept[i].conv,
                        old |-> Summary(m, kept[i].plan)]
           levels == [i \in DOMAIN kept |-> level(i)]
           L == [plan : Plan, node : Node, conv : Session, old : Result]
           summary == Summary(m, scope.root)
<1>1. ls \in Seq(Level) /\ scope.root \in Plan
  OBVIOUS
<1>2. kept \in Seq(Level) /\ \A k \in DOMAIN kept : \E i \in I : kept[k] = ls[i]
  <2> HIDE DEF ls
  <2>1. I \in SUBSET DOMAIN ls
    OBVIOUS
  <2> HIDE DEF I
  <2> QED BY <1>1, <2>1, PickedItems
<1>3. ASSUME NEW k \in DOMAIN kept PROVE level(k) \in L
  <2>1. PICK i \in I : kept[k] = ls[i]
    BY <1>2
  <2>2. kept[k] \in Level /\ kept[k].node # None
    <3>1. ls[i] \in Level
      BY <1>1, <2>1
    <3> QED BY <2>1, <3>1
  <2>3. kept[k].plan \in Plan /\ kept[k].node \in Node /\ kept[k].conv \in Session
    BY <2>2 DEF Level
  <2>4. Summary(m, kept[k].plan) \in Result
    BY <2>3, SummaryType
  <2> HIDE DEF kept
  <2> QED BY <2>3, <2>4
<1> HIDE DEF kept, level, L
<1>4. levels \in Seq(L)
  <2>1. Len(kept) \in Nat /\ DOMAIN kept = 1..Len(kept)
    BY <1>2
  <2>2. levels \in [1..Len(kept) -> L]
    BY <1>3, <2>1
  <2> QED BY <2>1, <2>2
<1>5. summary \in Result
  BY <1>1, SummaryType
<1>6. BuildCascade(m, scope) = [root |-> scope.root, rootOld |-> summary, levels |-> levels,
                                phase |-> "WaitingPlan", plan |-> scope.root, summary |-> summary]
  BY DEF BuildCascade, kept, level
<1> HIDE DEF levels, summary
<1>7. Cascade = [root : Plan, rootOld : Result, phase : Phases \ {"Done"}, plan : Plan,
                 summary : Result, levels : Seq(L)]
  BY DEF Cascade, L
<1>8. "WaitingPlan" \in Phases \ {"Done"}
  BY DEF Phases
<1> QED BY <1>1, <1>4, <1>5, <1>6, <1>7, <1>8

LEMMA StartSafe ==
  ASSUME NEW m \in Model
  PROVE  Safe(m, StartCascadeNow(m))
PROOF
<1>1. CASE m.preview = None
  <2>1. StartCascadeNow(m) = m
    BY <1>1 DEF StartCascadeNow
  <2> QED BY <2>1, SameIsSafe
<1>2. CASE m.preview # None
  <2> DEFINE c == BuildCascade(m, m.preview)
             m1 == [m EXCEPT !.cascade = c, !.preview = None]
  <2>1. m.preview \in [root : Plan, levels : Seq(Level)]
    BY <1>2 DEF Model
  <2>2. c \in Cascade /\ c.phase = "WaitingPlan"
    BY <2>1, BuildCascadeType
  <2> HIDE DEF c
  <2>3. /\ m1 \in Model /\ m1.run = m.run /\ m1.after = m.after /\ m1.order = m.order
        /\ m1.sessions = m.sessions /\ m1.cascade = c
    BY <2>2 DEF Model
  <2>4. StartCascadeNow(m) = Say(m1, <<"PlanRunStartAt">>)
    BY <1>2 DEF StartCascadeNow, c
  <2> HIDE DEF m1
  <2>5. Safe(m, m1)
    <3>1. Awaited(m1)
      BY <2>2, <2>3 DEF Awaited
    <3> QED BY <2>3, <3>1, SameIsSafe
  <2>6. Safe(m1, Say(m1, <<"PlanRunStartAt">>))
    BY <2>3, SayStill, StillIsSafe, SaidTypes
  <2> QED BY <2>4, <2>5, <2>6, SafeSteps
<1> QED BY <1>1, <1>2

LEMMA OpenNextSafe ==
  ASSUME NEW m \in Model
  PROVE  Safe(m, OpenNextOrStart(m))
PROOF
<1>1. CASE m.queue = <<>>
  BY <1>1, StartSafe DEF OpenNextOrStart
<1>2. CASE m.queue # <<>>
  <2> DEFINE h == Head(m.queue)
             t == Tail(m.queue)
             m1 == [m EXCEPT !.reading = h, !.queue = t]
  <2>1. m.queue \in Seq(Plan)
    BY ModelFields
  <2>2. h \in Plan /\ t \in Seq(Plan)
    BY <1>2, <2>1
  <2>3. OpenNextOrStart(m) = m1
    BY <1>2 DEF OpenNextOrStart
  <2> HIDE DEF h, t
  <2>4. /\ m1 \in Model /\ m1.run = m.run /\ m1.after = m.after /\ m1.order = m.order
        /\ m1.sessions = m.sessions /\ m1.cascade = m.cascade /\ m1.fork = m.fork
    BY <2>2 DEF Model
  <2> HIDE DEF m1
  <2>5. Safe(m, m1)
    BY <2>4, SameIsStill, StillIsSafe
  <2> QED BY <2>3, <2>5
<1> QED BY <1>1, <1>2

(***************************************************************************)
(* The user.                                                               *)
(***************************************************************************)
LEMMA ErrorCleared ==
  ASSUME NEW m \in Model
  PROVE  LET m1 == [m EXCEPT !.error = FALSE]
         IN  Still(m, m1) /\ m1.run = m.run
PROOF
<1> DEFINE m1 == [m EXCEPT !.error = FALSE]
<1>1. /\ m1 \in Model /\ m1.run = m.run /\ m1.after = m.after /\ m1.order = m.order
      /\ m1.sessions = m.sessions /\ m1.cascade = m.cascade /\ m1.fork = m.fork
  BY DEF Model
<1> HIDE DEF m1
<1>2. Still(m, m1)
  BY <1>1, SameIsStill
<1> QED BY <1>1, <1>2 DEF m1

LEMMA PreviewSafe ==
  ASSUME NEW m \in Model, NEW p \in Plan
  PROVE  Safe(m, [m EXCEPT !.preview = ImpactScope(m, p)])
PROOF
<1> DEFINE scope == ImpactScope(m, p)
           m1 == [m EXCEPT !.preview = scope]
<1>1. scope \in [root : Plan, levels : Seq(Level)]
  <2>1. Levels(m, p) \in Seq(Level) /\ <<>> \in Seq(Level)
    BY LevelsType
  <2>2. (IF HasInsertion(m, p) THEN Levels(m, p) ELSE <<>>) \in Seq(Level)
    BY <2>1
  <2> QED BY <2>2 DEF ImpactScope
<1> HIDE DEF scope
<1>2. /\ m1 \in Model /\ m1.run = m.run /\ m1.after = m.after /\ m1.order = m.order
      /\ m1.sessions = m.sessions /\ m1.cascade = m.cascade /\ m1.fork = m.fork
  BY <1>1 DEF Model
<1> HIDE DEF m1
<1>3. Safe(m, m1)
  BY <1>2, SameIsStill, StillIsSafe
<1> QED BY <1>3 DEF m1, scope

LEMMA PlanRunStartSafe ==
  ASSUME model \in Model, NEW p \in Plan, PlanRunStart(p)
  PROVE  Safe(model, model')
PROOF
<1> DEFINE m1 == Raise(model, p)
           m == [m1 EXCEPT !.error = FALSE]
<1>1. p \in Windows(model)
  BY DEF PlanRunStart
<1>2. Still(model, m1) /\ m1 \in Model
  BY <1>1, RaiseStill DEF Still
<1> HIDE DEF m1
<1>3. Still(m1, m) /\ m \in Model
  BY <1>2, ErrorCleared DEF Still
<1>4. Safe(model, m)
  BY <1>2, <1>3, StillSteps, StillIsSafe
<1>5. model' = IF NeedsConfirm(m, p) THEN [m EXCEPT !.preview = ImpactScope(m, p)]
               ELSE Say(m, <<"PlanRunStartAt">>)
  BY DEF PlanRunStart, m1
<1> HIDE DEF m
<1>6. Safe(m, [m EXCEPT !.preview = ImpactScope(m, p)]) /\ Safe(m, Say(m, <<"PlanRunStartAt">>))
  BY <1>3, PreviewSafe, SayStill, StillIsSafe, SaidTypes
<1>7. Safe(m, model')
  BY <1>5, <1>6
<1> QED BY <1>4, <1>7, SafeSteps

LEMMA PlanCascadeConfirmSafe ==
  ASSUME model \in Model, PlanCascadeConfirm
  PROVE  Safe(model, model')
PROOF
<1> DEFINE ls == model.preview.levels
           I == {i \in DOMAIN ls : ls[i].plan \notin Windows(model)}
           shut == Picked(ls, I)
           queue == [i \in DOMAIN shut |-> shut[i].plan]
           m == [model EXCEPT !.error = FALSE, !.queue = queue]
<1>1. ls \in Seq(Level)
  BY DEF PlanCascadeConfirm, Model
<1>2. shut \in Seq(Level)
  <2> HIDE DEF ls
  <2>1. I \in SUBSET DOMAIN ls
    OBVIOUS
  <2> HIDE DEF I
  <2> QED BY <1>1, <2>1, PickedItems
<1>3. model' = OpenNextOrStart(m)
  BY DEF PlanCascadeConfirm
<1> HIDE DEF shut
<1>4. queue \in Seq(Plan)
  <2>1. Len(shut) \in Nat /\ DOMAIN shut = 1..Len(shut)
    BY <1>2
  <2>2. ASSUME NEW i \in DOMAIN shut PROVE shut[i].plan \in Plan
    <3>1. shut[i] \in Level
      BY <1>2, <2>1
    <3> QED BY <3>1 DEF Level
  <2>3. queue \in [1..Len(shut) -> Plan]
    BY <2>1, <2>2
  <2> QED BY <2>1, <2>3
<1> HIDE DEF queue
<1>5. /\ m \in Model /\ m.run = model.run /\ m.after = model.after /\ m.order = model.order
      /\ m.sessions = model.sessions /\ m.cascade = model.cascade /\ m.fork = model.fork
  BY <1>4 DEF Model
<1> HIDE DEF m
<1>6. Safe(model, m)
  BY <1>5, SameIsStill, StillIsSafe
<1>7. Safe(m, model')
  BY <1>3, <1>5, OpenNextSafe
<1> QED BY <1>6, <1>7, SafeSteps

LEMMA PlanCascadeCancelSafe ==
  ASSUME model \in Model, PlanCascadeCancel
  PROVE  Safe(model, model')
PROOF
<1> DEFINE m == [model EXCEPT !.preview = None, !.cascade = None, !.queue = <<>>,
                              !.fork = None, !.error = FALSE]
<1>1. /\ m \in Model /\ m.run = model.run /\ m.after = model.after /\ m.order = model.order
      /\ m.sessions = model.sessions /\ m.cascade = None
  <2>1. <<>> \in Seq(Plan)
    OBVIOUS
  <2> QED BY <2>1 DEF Model
<1>2. model' = m
  BY DEF PlanCascadeCancel
<1> HIDE DEF m
<1>3. Awaited(m)
  BY <1>1 DEF Awaited
<1> QED BY <1>1, <1>2, <1>3, SameIsSafe

LEMMA RunActionsSafe ==
  ASSUME model \in Model, NEW p \in Plan, PlanRunStop(p) \/ PlanRunRestart(p) \/ PlanAutoRunStart(p)
  PROVE  Safe(model, model')
PROOF
<1> DEFINE cleared == [model EXCEPT !.error = FALSE]
<1>1. Still(model, cleared) /\ cleared.run = model.run /\ cleared \in Model
  BY ErrorCleared DEF Still
<1>2. Safe(model, cleared)
  BY <1>1, StillIsSafe
<1>3. model.run[p] \in Run
  BY ModelFields
<1>4. CASE PlanRunStop(p)
  <2> DEFINE m == Raise(model, p)
  <2>1. Still(model, m) /\ m \in Model /\ m.run = model.run
    <3>1. p \in Windows(model)
      BY <1>4 DEF PlanRunStop
    <3>2. Still(model, m)
      BY <3>1, RaiseStill
    <3>3. m.run = model.run
      BY DEF Raise, Model
    <3> QED BY <3>2, <3>3 DEF Still
  <2>2. model' = RunStepIn(m, p, StopRun(model.run[p]))
    BY <1>4 DEF PlanRunStop
  <2> HIDE DEF m
  <2>3. Safe(m, model')
    BY <1>3, <2>1, <2>2, HandlerWaits, RunStepInSafe
  <2> QED BY <2>1, <2>3, StillIsSafe, SafeSteps
<1>5. CASE PlanRunRestart(p)
  <2>1. model' = RunStepIn(cleared, p, RestartRun(model.run[p]))
    BY <1>5 DEF PlanRunRestart
  <2> HIDE DEF cleared
  <2>2. Safe(cleared, model')
    BY <1>1, <1>3, <2>1, HandlerWaits, RunStepInSafe
  <2> QED BY <1>2, <2>2, SafeSteps
<1>6. CASE PlanAutoRunStart(p)
  <2>1. model' = RunStepIn(cleared, p, StartRun(model.run[p]))
    BY <1>6 DEF PlanAutoRunStart, Arrives
  <2> HIDE DEF cleared
  <2>2. Safe(cleared, model')
    BY <1>1, <1>3, <2>1, HandlerWaits, RunStepInSafe
  <2> QED BY <1>2, <2>2, SafeSteps
<1> QED BY <1>4, <1>5, <1>6

\* A request is added.
LEMMA RequestedStill ==
  ASSUME NEW m \in Model, NEW x \in Request
  PROVE  Still(m, [m EXCEPT !.requests = Append(m.requests, x)])
PROOF
<1> DEFINE q == Append(m.requests, x)
           m1 == [m EXCEPT !.requests = q]
<1>1. q \in Seq(Request)
  BY ModelFields
<1> HIDE DEF q
<1>2. /\ m1 \in Model /\ m1.run = m.run /\ m1.after = m.after /\ m1.order = m.order
      /\ m1.sessions = m.sessions /\ m1.cascade = m.cascade /\ m1.fork = m.fork
  BY <1>1 DEF Model
<1> HIDE DEF m1
<1>3. Still(m, m1)
  BY <1>2, SameIsStill
<1> QED BY <1>3 DEF m1, q

LEMMA WindowActionsSafe ==
  ASSUME model \in Model, NEW p \in Plan, PlanStatusOpen(p) \/ PlanClose(p) \/ SendPrompt(p)
  PROVE  Safe(model, model')
PROOF
<1>1. CASE PlanStatusOpen(p)
  <2> DEFINE m == [model EXCEPT !.reading = p]
  <2>1. /\ m \in Model /\ m.run = model.run /\ m.after = model.after /\ m.order = model.order
        /\ m.sessions = model.sessions /\ m.cascade = model.cascade /\ m.fork = model.fork
    BY DEF Model
  <2>2. model' = m
    BY <1>1 DEF PlanStatusOpen
  <2> HIDE DEF m
  <2> QED BY <2>1, <2>2, SameIsStill, StillIsSafe
<1>2. CASE PlanClose(p)
  <2>1. model' = PlanClosed(model, {p})
    BY <1>2 DEF PlanClose
  <2>2. Still(model, PlanClosed(model, {p}))
    BY PlanClosedStill
  <2> QED BY <2>1, <2>2, StillIsSafe
<1>3. CASE SendPrompt(p)
  <2>1. model' = [model EXCEPT !.after[p] = Append(model.after[p], None)]
    BY <1>3 DEF SendPrompt, Model
  <2>2. Still(model, [model EXCEPT !.after[p] = Append(model.after[p], None)])
    BY SaidAfter
  <2> QED BY <2>1, <2>2, StillIsSafe
<1> QED BY <1>1, <1>2, <1>3

LEMMA SessionActionsSafe ==
  ASSUME model \in Model, NEW s \in Session, CloseSession(s) \/ PlanOpenNodeSession(s)
  PROVE  Safe(model, model')
PROOF
<1>1. CASE CloseSession(s)
  <2> DEFINE m == SessionsClosed(model, {s})
  <2>1. Still(model, m) /\ m \in Model
    BY SessionsClosedStill DEF Still
  <2>2. model' = IF BoundIn(m, s) = {} THEN m ELSE Say(m, <<"Disconnected", s>>)
    BY <1>1 DEF CloseSession
  <2> HIDE DEF m
  <2>3. Still(m, Say(m, <<"Disconnected", s>>))
    BY <2>1, SayStill, SaidTypes
  <2> QED BY <2>1, <2>2, <2>3, StillSteps, StillIsSafe
<1>2. CASE PlanOpenNodeSession(s)
  <2> DEFINE m == [model EXCEPT !.resuming = s]
             x == [kind |-> "resume"]
  <2>1. /\ m \in Model /\ m.run = model.run /\ m.after = model.after /\ m.order = model.order
        /\ m.sessions = model.sessions /\ m.cascade = model.cascade /\ m.fork = model.fork
        /\ m.requests = model.requests
    BY DEF Model
  <2>2. x \in Request
    BY DEF Request
  <2>3. model' = [m EXCEPT !.requests = Append(model.requests, x)]
    BY <1>2 DEF PlanOpenNodeSession, Model
  <2> HIDE DEF m, x
  <2>4. Still(model, m)
    BY <2>1, SameIsStill
  <2>5. Still(m, model')
    BY <2>1, <2>2, <2>3, RequestedStill
  <2> QED BY <2>4, <2>5, StillSteps, StillIsSafe
<1> QED BY <1>1, <1>2

LEMMA UserSafe ==
  ASSUME model \in Model, User
  PROVE  Safe(model, model')
PROOF
<1>1. CASE UserCreate
  <2>1. [kind |-> "create"] \in Request
    BY DEF Request
  <2>2. model' = [model EXCEPT !.requests = Append(model.requests, [kind |-> "create"])]
    BY <1>1 DEF UserCreate, Model
  <2> QED BY <2>1, <2>2, RequestedStill, StillIsSafe
<1> QED BY <1>1, PlanRunStartSafe, PlanCascadeConfirmSafe, PlanCascadeCancelSafe, RunActionsSafe,
           WindowActionsSafe, SessionActionsSafe DEF User

(***************************************************************************)
(* Sessions that arrive, nodes that answer, and the loop.  A step is       *)
(* lawful if it keeps the types and a cascade's pending fork, and takes    *)
(* something back only as UntouchedUntilForked allows.                     *)
(***************************************************************************)
Lawful(m, m2) ==
  /\ m2 \in Model /\ (Awaited(m) => Awaited(m2))
  /\ \A p \in Plan :
       /\ \/ Waits(m2.run[p]) \subseteq Waits(m.run[p])
          \/ m.fork # None /\ m2.fork = None /\ m2.cascade # None
       /\ \/ Len(m.after[p]) <= Len(m2.after[p])
          \/ m.fork # None /\ (m2.fork = None => m2.cascade # None)

LEMMA SafeIsLawful ==
  ASSUME NEW m, NEW m2, Safe(m, m2)
  PROVE  Lawful(m, m2) /\ (Owned(m) => Owned(m2))
BY DEF Safe, Lawful, TakesNothingBack

\* A session that arrives cuts a conversation only for the fork it is taken
\* for, and leaves that pending.
LEMMA ArrivalLawful ==
  ASSUME NEW m \in Model, NEW m2 \in Model,
         m2.run = m.run, m2.order = m.order, m.sessions \subseteq m2.sessions,
         m2.cascade = m.cascade, m2.fork = m.fork, m.fork = None => m2.after = m.after
  PROVE  Lawful(m, m2) /\ (Owned(m) => Owned(m2))
PROOF
<1>1. CASE m.fork = None
  <2>1. Safe(m, m2)
    BY <1>1, SameIsStill, StillIsSafe
  <2> QED BY <2>1, SafeIsLawful
<1>2. CASE m.fork # None
  <2>1. Awaited(m2)
    BY <1>2 DEF Awaited
  <2>2. \A p \in Plan : Waits(m2.run[p]) \subseteq Waits(m.run[p])
    OBVIOUS
  <2>3. Lawful(m, m2)
    BY <1>2, <2>1, <2>2 DEF Lawful
  <2>4. Owned(m) => Owned(m2)
    BY DEF Owned, Windows
  <2> QED BY <2>3, <2>4
<1> QED BY <1>1, <1>2

LEMMA CreateArrivesLawful ==
  ASSUME NEW m \in Model
  PROVE  Lawful(m, CreateArrives(m)) /\ (Owned(m) => Owned(CreateArrives(m)))
PROOF
<1> DEFINE m1 == SessionArrives(m, "create")
           w == m1.wedged \/ m.fork # None \/ m.resuming # None
           m2 == [m1 EXCEPT !.wedged = w]
<1>1. /\ m1 \in Model /\ m1.run = m.run /\ m1.order = m.order /\ m.sessions \subseteq m1.sessions
      /\ m1.cascade = m.cascade /\ m1.fork = m.fork /\ (m.fork = None => m1.after = m.after)
  BY ArrivalKeeps
<1>2. CreateArrives(m) = m2
  BY <1>1 DEF CreateArrives, Model
<1>3. w \in BOOLEAN
  OBVIOUS
<1> HIDE DEF m1, w
<1>4. /\ m2 \in Model /\ m2.run = m1.run /\ m2.order = m1.order /\ m2.sessions = m1.sessions
      /\ m2.cascade = m1.cascade /\ m2.fork = m1.fork /\ m2.after = m1.after
  BY <1>1, <1>3 DEF Model
<1> HIDE DEF m2
<1> QED BY <1>1, <1>2, <1>4, ArrivalLawful

LEMMA AnsweredStill ==
  ASSUME NEW m \in Model, NEW i \in DOMAIN m.requests
  PROVE  /\ Still(m, Answered(i, m)) /\ Answered(i, m).run = m.run /\ Answered(i, m).after = m.after
         /\ Answered(i, m).order = m.order /\ Answered(i, m).sessions = m.sessions
PROOF
<1> DEFINE q == RemoveAt(m.requests, i)
           m1 == [m EXCEPT !.requests = q]
<1>1. q \in Seq(Request)
  <2> DEFINE s == m.requests
  <2>1. s \in Seq(Request) /\ i \in 1..Len(s) /\ Len(s) \in Nat
    BY ModelFields
  <2> HIDE DEF s
  <2>2. SubSeq(s, 1, i - 1) \in Seq(Request) /\ SubSeq(s, i + 1, Len(s)) \in Seq(Request)
    BY <2>1, SubSeqProperties
  <2>3. SubSeq(s, 1, i - 1) \o SubSeq(s, i + 1, Len(s)) \in Seq(Request)
    BY <2>2, ConcatProperties
  <2> QED BY <2>3 DEF RemoveAt, s
<1>2. Answered(i, m) = m1
  BY DEF Answered, Model
<1> HIDE DEF q
<1>3. /\ m1 \in Model /\ m1.run = m.run /\ m1.after = m.after /\ m1.order = m.order
      /\ m1.sessions = m.sessions /\ m1.cascade = m.cascade /\ m1.fork = m.fork
  BY <1>1 DEF Model
<1> HIDE DEF m1
<1> QED BY <1>2, <1>3, SameIsStill

\* Steps before and after one another: the first of them changes nothing
\* that Lawful and Owned look at.
LEMMA LawfulAfterStill ==
  ASSUME NEW m, NEW m1, NEW m2, Still(m, m1), m1.run = m.run, m1.after = m.after,
         Lawful(m1, m2), Owned(m1) => Owned(m2)
  PROVE  Lawful(m, m2) /\ (Owned(m) => Owned(m2))
PROOF
<1>1. m1.fork = m.fork /\ m1.cascade = m.cascade /\ (Owned(m) => Owned(m1))
  BY DEF Still
<1>2. Awaited(m) => Awaited(m1)
  BY <1>1 DEF Awaited
<1> QED BY <1>1, <1>2 DEF Lawful

LEMMA SessionReplyLawful ==
  ASSUME model \in Model, NEW i \in DOMAIN model.requests, SessionReply(i)
  PROVE  Lawful(model, model') /\ (Owned(model) => Owned(model'))
PROOF
<1> DEFINE m == Answered(i, model)
<1>1. Still(model, m) /\ m \in Model /\ m.run = model.run /\ m.after = model.after
  BY AnsweredStill DEF Still
<1>2. model' = CreateArrives(m) \/ model' = SessionArrives(m, "resume")
  BY DEF SessionReply, Arrives
<1> HIDE DEF m
<1>3. CASE model' = CreateArrives(m)
  BY <1>1, <1>3, CreateArrivesLawful, LawfulAfterStill
<1>4. CASE model' = SessionArrives(m, "resume")
  <2> DEFINE m2 == SessionArrives(m, "resume")
  <2>1. /\ m2 \in Model /\ m2.run = m.run /\ m2.order = m.order /\ m.sessions \subseteq m2.sessions
        /\ m2.cascade = m.cascade /\ m2.fork = m.fork /\ (m.fork = None => m2.after = m.after)
    BY <1>1, ArrivalKeeps
  <2> HIDE DEF m2
  <2>2. Lawful(m, m2) /\ (Owned(m) => Owned(m2))
    BY <1>1, <2>1, ArrivalLawful
  <2>3. Lawful(model, m2) /\ (Owned(model) => Owned(m2))
    BY <1>1, <2>2, LawfulAfterStill
  <2>4. model' = m2
    BY <1>4 DEF m2
  <2> QED BY <2>3, <2>4
<1> QED BY <1>2, <1>3, <1>4

\* A fork that arrived: adopted if the cascade waits for it.
LEMMA ForkArrivesLawful ==
  ASSUME NEW m \in Model, Awaited(m), NEW whose
  PROVE  LET m1 == SessionArrives(m, whose)
             m2 == IF m.cascade = None THEN m1 ELSE Feed(m1, InstanceReady(m.cascade))
         IN  Lawful(m, m2) /\ (Owned(m) => Owned(m2))
PROOF
<1> DEFINE m1 == SessionArrives(m, whose)
           m2 == IF m.cascade = None THEN m1 ELSE Feed(m1, InstanceReady(m.cascade))
<1> SUFFICES Lawful(m, m2) /\ (Owned(m) => Owned(m2))
  OBVIOUS
<1>1. /\ m1 \in Model /\ m1.run = m.run /\ m1.order = m.order /\ m.sessions \subseteq m1.sessions
      /\ m1.cascade = m.cascade /\ m1.fork = m.fork /\ (m.fork = None => m1.after = m.after)
  BY ArrivalKeeps
<1> HIDE DEF m1
<1>2. Lawful(m, m1) /\ (Owned(m) => Owned(m1))
  BY <1>1, ArrivalLawful
<1>3. CASE m.cascade = None
  <2>1. m2 = m1
    BY <1>3
  <2> HIDE DEF m2
  <2> QED BY <1>2, <2>1
<1>4. CASE m.cascade # None /\ m.cascade.phase = "WaitingFork"
  <2>1. m.fork # None
    BY <1>4 DEF Awaited
  <2>2. /\ m2 \in Model /\ (Owned(m1) => Owned(m2))
        /\ m2.fork = None /\ m2.cascade # None /\ m2.cascade.phase = "WaitingNode"
    BY <1>1, <1>4, <2>1, ReadyFed
  <2> HIDE DEF m2
  <2>3. Awaited(m2)
    BY <2>2 DEF Awaited
  <2>4. Lawful(m, m2)
    BY <2>1, <2>2, <2>3 DEF Lawful
  <2>5. Owned(m) => Owned(m2)
    BY <1>2, <2>2
  <2> QED BY <2>4, <2>5
<1>5. CASE m.cascade # None /\ m.cascade.phase # "WaitingFork"
  <2>1. m.cascade \in Cascade
    BY <1>5, ModelFields
  <2>2. Ends(m1.cascade, InstanceReady(m.cascade))
    BY <1>1, <1>5, <2>1, ForkSteps
  <2>3. Safe(m1, m2) /\ m2.fork = m1.fork
    BY <1>1, <1>5, <2>2, FeedEnds
  <2> HIDE DEF m2
  <2>4. m2 \in Model /\ (Awaited(m) => Awaited(m2)) /\ (Owned(m) => Owned(m2))
    BY <1>2, <2>3 DEF Lawful, Safe
  <2>5. CASE m.fork # None
    <3>1. \A p \in Plan : Waits(m2.run[p]) \subseteq Waits(m.run[p])
      BY <1>1, <2>3 DEF Safe, TakesNothingBack
    <3>2. Lawful(m, m2)
      BY <1>1, <2>3, <2>4, <2>5, <3>1 DEF Lawful
    <3> QED BY <2>4, <3>2
  <2>6. CASE m.fork = None
    <3>1. Safe(m, m1)
      BY <1>1, <2>6, SameIsStill, StillIsSafe
    <3>2. Safe(m, m2)
      BY <2>3, <3>1, SafeSteps
    <3> QED BY <3>2, SafeIsLawful
  <2> QED BY <2>5, <2>6
<1> QED BY <1>3, <1>4, <1>5

\* A fork that failed ends the cascade that waits for it, and takes nothing
\* back.
LEMMA ForkFailsSafe ==
  ASSUME NEW m \in Model
  PROVE  Safe(m, [(IF m.cascade = None THEN m ELSE Feed(m, InstanceFailed(m.cascade)))
                    EXCEPT !.fork = None, !.queue = <<>>])
PROOF
<1> DEFINE m1 == IF m.cascade = None THEN m ELSE Feed(m, InstanceFailed(m.cascade))
           m2 == [m1 EXCEPT !.fork = None, !.queue = <<>>]
<1>1. /\ m1 \in Model /\ m1.run = m.run /\ m1.after = m.after /\ m1.order = m.order
      /\ m1.sessions = m.sessions /\ (m1.cascade = None \/ m1.cascade.phase # "WaitingFork")
  <2>1. CASE m.cascade = None
    BY <2>1
  <2>2. CASE m.cascade # None /\ m.cascade.phase = "WaitingFork"
    <3> DEFINE f == InstanceFailed(m.cascade)
               e == [do |-> "CascadeError"]
               m0 == [m EXCEPT !.cascade = None]
    <3>1. m.cascade \in Cascade
      BY <2>2, ModelFields
    <3>2. f.cs.phase = "Done" /\ f.effects = <<e>>
      BY <2>2, <3>1, ForkSteps
    <3>3. Feed(m, f) = Applied(m0, <<e>>)
      BY <3>2 DEF Feed
    <3>4. Applied(m0, <<e>>) = ApplyEffect(m0, e)
      BY AppliedOne
    <3>5. ApplyEffect(m0, e) = [m0 EXCEPT !.error = TRUE]
      BY DEF ApplyEffect
    <3>6. m1 = [m0 EXCEPT !.error = TRUE]
      BY <2>2, <3>3, <3>4, <3>5
    <3> QED BY <3>6 DEF Model
  <2>3. CASE m.cascade # None /\ m.cascade.phase # "WaitingFork"
    <3> DEFINE f == InstanceFailed(m.cascade)
               c == IF f.cs.phase = "Done" THEN None ELSE f.cs
               m0 == [m EXCEPT !.cascade = c]
    <3>1. m.cascade \in Cascade
      BY <2>3, ModelFields
    <3>2. f.effects = <<>> /\ f.cs = m.cascade
      BY <2>3, <3>1 DEF InstanceFailed, Ignored
    <3>3. c \in Cascade \cup {None} /\ (c = None \/ c.phase # "WaitingFork")
      BY <2>3, <3>1, <3>2
    <3>4. Feed(m, f) = Applied(m0, <<>>)
      BY <3>2 DEF Feed
    <3>5. Applied(m0, <<>>) = m0
      BY AppliedOne
    <3>6. m1 = m0
      BY <2>3, <3>4, <3>5
    <3> HIDE DEF c, m1
    <3>7. /\ m0 \in Model /\ m0.run = m.run /\ m0.after = m.after /\ m0.order = m.order
          /\ m0.sessions = m.sessions /\ m0.cascade = c
      BY <3>3, CascadeStored
    <3> HIDE DEF m0
    <3> QED BY <3>3, <3>6, <3>7
  <2> QED BY <2>1, <2>2, <2>3
<1> HIDE DEF m1
<1>2. /\ m2 \in Model /\ m2.run = m1.run /\ m2.after = m1.after /\ m2.order = m1.order
      /\ m2.sessions = m1.sessions /\ m2.cascade = m1.cascade
  <2>1. <<>> \in Seq(Plan)
    OBVIOUS
  <2> QED BY <1>1, <2>1 DEF Model
<1> HIDE DEF m2
<1>3. Awaited(m2)
  BY <1>1, <1>2 DEF Awaited
<1>4. Safe(m, m2)
  BY <1>1, <1>2, <1>3, SameIsSafe
<1> QED BY <1>4 DEF m2, m1

LEMMA ForkResultLawful ==
  ASSUME model \in Model, Awaited(model), NEW i \in DOMAIN model.requests, PlanCascadeForkResult(i)
  PROVE  Lawful(model, model') /\ (Owned(model) => Owned(model'))
PROOF
<1> DEFINE m == Answered(i, model)
           whose == IF m.fork # None /\ m.fork.child = model.requests[i].plan
                      THEN "fork" ELSE "another fork"
           m1 == SessionArrives(m, whose)
           came == IF m.cascade = None THEN m1 ELSE Feed(m1, InstanceReady(m.cascade))
           failed == [(IF m.cascade = None THEN m ELSE Feed(m, InstanceFailed(m.cascade)))
                        EXCEPT !.fork = None, !.queue = <<>>]
<1>1. Still(model, m) /\ m \in Model /\ m.run = model.run /\ m.after = model.after
  BY AnsweredStill DEF Still
<1>2. Awaited(m)
  BY <1>1 DEF Still, Awaited
<1>3. model' = came \/ model' = failed
  BY DEF PlanCascadeForkResult, Arrives
<1> HIDE DEF m
<1>4. Lawful(m, came) /\ (Owned(m) => Owned(came))
  BY <1>1, <1>2, ForkArrivesLawful
<1>5. Lawful(m, failed) /\ (Owned(m) => Owned(failed))
  BY <1>1, ForkFailsSafe, SafeIsLawful
<1> HIDE DEF came, failed
<1>6. Lawful(m, model') /\ (Owned(m) => Owned(model'))
  BY <1>3, <1>4, <1>5
<1> QED BY <1>1, <1>6, LawfulAfterStill

LEMMA TaskDoneFrameSafe ==
  ASSUME model \in Model, NEW p \in Plan, NEW n \in Node, NEW a \in Answer, TaskDoneFrame(p, n, a)
  PROVE  Safe(model, model')
PROOF
<1> DEFINE c == model.run[p].conv[n]
           t == [model.text EXCEPT ![p] = [model.text[p] EXCEPT ![n] = a]]
           m == [model EXCEPT !.text = t]
           r == TaskDone(model.run[p], n, c, FALSE)
           f == FinishStep(model.run[p], r).run
           m1 == RunStepIn(m, p, r)
<1>1. t \in [Plan -> [Node -> Output]]
  <2>1. model.text \in [Plan -> [Node -> Output]]
    BY ModelFields
  <2>2. a \in Output
    BY DEF Output
  <2>3. [model.text[p] EXCEPT ![n] = a] \in [Node -> Output]
    BY <2>1, <2>2
  <2> QED BY <2>1, <2>3
<1>2. [model EXCEPT !.text[p][n] = a] = m
  BY DEF Model
<1> HIDE DEF t
<1>3. /\ m \in Model /\ m.run = model.run /\ m.after = model.after /\ m.order = model.order
      /\ m.sessions = model.sessions /\ m.cascade = model.cascade /\ m.fork = model.fork
  BY <1>1 DEF Model
<1>4. model' = AfterTaskDone(m1, p, c, f)
  BY <1>2, <1>3 DEF TaskDoneFrame, Arrives
<1>5. c \in MaybeConv
  <2>1. model.run[p] \in Run
    BY ModelFields
  <2> QED BY <2>1 DEF Run
<1> HIDE DEF m, f, c
<1>6. Safe(model, m)
  BY <1>3, SameIsStill, StillIsSafe
<1>7. Safe(m, m1) /\ m1 \in Model
  <2>1. model.run[p] \in Run
    BY ModelFields
  <2>2. r \in Run /\ Waits(r) \subseteq Waits(model.run[p])
    BY <1>5, <2>1, NodeHandlerWaits
  <2> HIDE DEF r
  <2> QED BY <1>3, <2>2, RunStepInSafe DEF Safe
<1> HIDE DEF m1
<1>8. Safe(m1, model')
  BY <1>4, <1>7, AfterTaskDoneSafe
<1> QED BY <1>3, <1>6, <1>7, <1>8, SafeSteps

LEMMA NodeActionsLawful ==
  ASSUME model \in Model, NEW p \in Plan, NEW n \in Node, SessionCreated(p, n) \/ ErrorFrame(p, n)
  PROVE  Lawful(model, model') /\ (Owned(model) => Owned(model'))
PROOF
<1> DEFINE r == SessionCreatedFor(model.run[p], n, FreshConv[n])
           e == SessionError(model.run[p], n)
<1>1. model.run[p] \in Run
  BY ModelFields
<1>2. FreshConv[n] \in Conv
  BY CascadeAssumption
<1>3. r \in Run /\ Waits(r) \subseteq Waits(model.run[p]) /\ e \in Run /\ Waits(e) \subseteq Waits(model.run[p])
  BY <1>1, <1>2, NodeHandlerWaits
<1>4. \/ model' = CreateArrives(model)
      \/ model' = RunStepIn(model, p, r)
      \/ model' = RunStepIn(model, p, e)
  BY DEF SessionCreated, ErrorFrame, Arrives
<1> HIDE DEF r, e
<1>5. CASE model' = CreateArrives(model)
  BY <1>5, CreateArrivesLawful
<1>6. CASE model' = RunStepIn(model, p, r)
  BY <1>3, <1>6, RunStepInSafe, SafeIsLawful
<1>7. CASE model' = RunStepIn(model, p, e)
  BY <1>3, <1>7, RunStepInSafe, SafeIsLawful
<1> QED BY <1>4, <1>5, <1>6, <1>7

\* A window that is reopened need not have its session.
LEMMA ReadLawful ==
  ASSUME model \in Model, PlanReadResult
  PROVE  Lawful(model, model')
PROOF
<1> DEFINE p == model.reading
           t == Append(Without(model.order, {p}), p)
           m == [model EXCEPT !.order = t, !.reading = None]
<1>1. p \in Plan /\ model.order \in Seq(Plan) /\ \A q \in Plan : Len(model.after[q]) \in Nat
  BY ModelFields DEF PlanReadResult
<1>2. t \in Seq(Plan)
  <2>1. Without(model.order, {p}) \in Seq(Plan)
    BY <1>1, WithoutItems
  <2> HIDE DEF p
  <2> QED BY <1>1, <2>1, AppendItems
<1>3. [Raise(model, model.reading) EXCEPT !.reading = None] = m
  BY DEF Raise, Model
<1>4. model' = IF m.queue = <<>> THEN m ELSE OpenNextOrStart(m)
  BY <1>3 DEF PlanReadResult, Arrives
<1> HIDE DEF p, t
<1>5. /\ m \in Model /\ m.run = model.run /\ m.after = model.after
      /\ m.cascade = model.cascade /\ m.fork = model.fork
  BY <1>2 DEF Model
<1> HIDE DEF m
<1>6. Safe(m, model')
  <2>1. Safe(m, m)
    BY <1>5, SameIsStill, StillIsSafe
  <2>2. Safe(m, OpenNextOrStart(m))
    BY <1>5, OpenNextSafe
  <2> QED BY <1>4, <2>1, <2>2
<1>7. Lawful(m, model')
  BY <1>6, SafeIsLawful
<1>8. Awaited(model) => Awaited(m)
  BY <1>5 DEF Awaited
<1> QED BY <1>5, <1>7, <1>8 DEF Lawful

\* The message is taken out of the loop's queue.
LEMMA TakenStill ==
  ASSUME NEW m \in Model, NEW msg
  PROVE  LET m1 == [m EXCEPT !.self = m.self \ {msg}]
         IN  Still(m, m1) /\ m1 \in Model /\ m1.run = m.run /\ m1.order = m.order
PROOF
<1> DEFINE s == m.self \ {msg}
           m1 == [m EXCEPT !.self = s]
<1>1. s \subseteq Message
  BY ModelFields
<1> HIDE DEF s
<1>2. /\ m1 \in Model /\ m1.run = m.run /\ m1.after = m.after /\ m1.order = m.order
      /\ m1.sessions = m.sessions /\ m1.cascade = m.cascade /\ m1.fork = m.fork
  BY <1>1 DEF Model
<1> HIDE DEF m1
<1>3. Still(m, m1)
  BY <1>2, SameIsStill
<1> QED BY <1>2, <1>3 DEF m1, s

LEMMA HandleSelfSafe ==
  ASSUME model \in Model, NEW msg \in model.self, HandleSelf(msg)
  PROVE  Safe(model, model')
PROOF
<1> DEFINE m == [model EXCEPT !.self = model.self \ {msg}]
           bound == BoundIn(m, msg[2])
           p == CHOOSE q \in bound : TRUE
           n == NodeBySessionId(m.run[p], msg[2])
<1>1. Still(model, m) /\ m \in Model
  BY TakenStill
<1>2. msg \in Message
  BY ModelFields
<1>3. \/ msg[1] = "PlanClose" /\ model' = PlanClosed(m, {msg[2]})
      \/ msg[1] = "PlanRunStartAt"
         /\ model' = IF m.order = <<>> THEN m
                     ELSE RunStepIn(m, Last(m.order), StartRun(m.run[Last(m.order)]))
      \/ msg[1] = "Resume"
         /\ model' = IF bound = {} THEN m ELSE RunStepIn(m, p, ResumeDelegatedNode(m.run[p], n))
      \/ msg[1] = "Disconnected"
         /\ model' = IF bound = {} THEN m ELSE RunStepIn(m, p, SessionDisconnected(m.run[p], n))
  BY DEF HandleSelf
<1> HIDE DEF m
<1>4. m.run \in [Plan -> Run] /\ m.order \in Seq(Plan) /\ Windows(m) \subseteq Plan
  BY <1>1, ModelFields
<1>5. Safe(m, m)
  BY <1>1, SameIsStill, StillIsSafe
<1>6. CASE msg[1] = "PlanClose"
  <2>1. msg[2] \in Plan
    BY <1>2, <1>6 DEF Message
  <2>2. Still(m, PlanClosed(m, {msg[2]}))
    BY <1>1, <2>1, PlanClosedStill
  <2>3. Safe(m, model')
    BY <1>3, <1>6, <2>2, StillIsSafe
  <2> QED BY <1>1, <2>3, StillIsSafe, SafeSteps
<1>7. CASE msg[1] = "PlanRunStartAt"
  <2> DEFINE q == Last(m.order)
  <2>1. model' = IF m.order = <<>> THEN m ELSE RunStepIn(m, q, StartRun(m.run[q]))
    BY <1>3, <1>7
  <2>2. ASSUME m.order # <<>> PROVE q \in Plan
    <3>1. Len(m.order) \in 1..Len(m.order)
      BY <1>4, <2>2
    <3> QED BY <1>4, <3>1 DEF Last
  <2> HIDE DEF q
  <2>3. ASSUME m.order # <<>> PROVE Safe(m, RunStepIn(m, q, StartRun(m.run[q])))
    <3>1. q \in Plan /\ m.run[q] \in Run
      BY <1>4, <2>2, <2>3
    <3> QED BY <1>1, <3>1, HandlerWaits, RunStepInSafe
  <2>4. Safe(m, model')
    BY <1>5, <2>1, <2>3
  <2> QED BY <1>1, <2>4, StillIsSafe, SafeSteps
<1>8. CASE msg[1] \in {"Resume", "Disconnected"}
  <2>1. CASE bound = {}
    <3>1. model' = m
      BY <1>3, <1>8, <2>1
    <3> QED BY <1>1, <3>1, StillIsSafe
  <2>2. CASE bound # {}
    <3> DEFINE resumed == ResumeDelegatedNode(m.run[p], n)
               lost == SessionDisconnected(m.run[p], n)
    <3>1. p \in Plan /\ Bound(m.run[p], msg[2]) # {}
      <4>1. p \in bound
        BY <2>2
      <4> HIDE DEF p
      <4> QED BY <1>4, <4>1 DEF BoundIn
    <3>2. m.run[p] \in Run
      BY <1>4, <3>1
    <3> HIDE DEF p
    <3>3. n \in Node
      BY <3>1, <3>2, BoundNode
    <3>4. model' = RunStepIn(m, p, resumed) \/ model' = RunStepIn(m, p, lost)
      BY <1>3, <1>8, <2>2
    <3> HIDE DEF n
    <3>5. /\ resumed \in Run /\ Waits(resumed) \subseteq Waits(m.run[p])
          /\ lost \in Run /\ Waits(lost) \subseteq Waits(m.run[p])
      BY <3>2, <3>3, NodeHandlerWaits
    <3> HIDE DEF resumed, lost
    <3>6. Safe(m, model')
      BY <1>1, <3>1, <3>4, <3>5, RunStepInSafe
    <3> QED BY <1>1, <3>6, StillIsSafe, SafeSteps
  <2> QED BY <2>1, <2>2
<1> QED BY <1>3, <1>6, <1>7, <1>8

(***************************************************************************)
(* Every step.                                                             *)
(***************************************************************************)
LEMMA NextLawful ==
  ASSUME model \in Model, Awaited(model), Next
  PROVE  /\ Lawful(model, model')
         /\ PlanReadResult \/ (Owned(model) => Owned(model'))
PROOF
<1>1. CASE User
  BY <1>1, UserSafe, SafeIsLawful
<1>2. CASE \E p \in Plan : PlanAutoRunStart(p)
  BY <1>2, RunActionsSafe, SafeIsLawful
<1>3. CASE \E p \in Plan, n \in Node : SessionCreated(p, n) \/ ErrorFrame(p, n)
  BY <1>3, NodeActionsLawful
<1>4. CASE \E p \in Plan, n \in Node, a \in Answer : TaskDoneFrame(p, n, a)
  BY <1>4, TaskDoneFrameSafe, SafeIsLawful
<1>5. CASE \E i \in DOMAIN model.requests : PlanCascadeForkResult(i) \/ SessionReply(i)
  BY <1>5, ForkResultLawful, SessionReplyLawful
<1>6. CASE PlanReadResult
  BY <1>6, ReadLawful
<1>7. CASE \E msg \in model.self : HandleSelf(msg)
  BY <1>7, HandleSelfSafe, SafeIsLawful
<1> QED BY <1>1, <1>2, <1>3, <1>4, <1>5, <1>6, <1>7 DEF Next

LEMMA ClicksType ==
  ASSUME clicks \in [Ops -> Nat], Next
  PROVE  clicks' \in [Ops -> Nat]
PROOF
<1>1. ASSUME NEW op, Click(op) PROVE clicks' \in [Ops -> Nat]
  BY <1>1 DEF Click
<1>2. CASE User
  BY <1>1, <1>2 DEF User, PlanRunStart, PlanRunStop, PlanRunRestart, PlanStatusOpen, PlanClose,
     SendPrompt, CloseSession, PlanOpenNodeSession, PlanCascadeConfirm, PlanCascadeCancel, UserCreate
<1>3. ASSUME NEW m, Arrives(m) PROVE clicks' = clicks
  BY <1>3 DEF Arrives
<1>4. CASE \E p \in Plan : PlanAutoRunStart(p)
  BY <1>3, <1>4 DEF PlanAutoRunStart
<1>5. CASE \E p \in Plan, n \in Node : SessionCreated(p, n) \/ ErrorFrame(p, n) \/ \E a \in Answer : TaskDoneFrame(p, n, a)
  BY <1>3, <1>5 DEF SessionCreated, ErrorFrame, TaskDoneFrame
<1>6. CASE \E i \in DOMAIN model.requests : PlanCascadeForkResult(i) \/ SessionReply(i)
  BY <1>3, <1>6 DEF PlanCascadeForkResult, SessionReply
<1>7. CASE PlanReadResult
  BY <1>3, <1>7 DEF PlanReadResult
<1>8. CASE \E msg \in model.self : HandleSelf(msg)
  BY <1>8 DEF HandleSelf
<1> QED BY <1>2, <1>4, <1>5, <1>6, <1>7, <1>8 DEF Next

(***************************************************************************)
(* The first state.                                                        *)
(***************************************************************************)
LEMMA InitialRunType ==
  ASSUME NEW p \in Plan
  PROVE  InitialRun(p) \in Run
PROOF
<1> DEFINE D == Delegated(p)
           bound == [n \in Node |-> IF n \in D THEN SessionOf(p, n) ELSE None]
           node == [n \in Node |-> IF n \in D THEN "WaitingForPlan" ELSE "Pending"]
           hist == [n \in Node |-> IF n \in D THEN {bound[n]} ELSE {}]
           r == [EmptyRun EXCEPT !.status = "InProgress", !.node = node, !.conv = bound,
                                 !.last = bound, !.hist = hist]
<1>1. ASSUME NEW n \in D PROVE SessionOf(p, n) \in Conv
  <2>1. \E s \in Session : Host[s] = <<p, n>>
    BY <1>1 DEF Delegated
  <2>2. SessionOf(p, n) \in Session
    BY <2>1 DEF SessionOf
  <2> QED BY <2>2, CascadeAssumption
<1>2. InitialRun(p) = IF D = {} THEN EmptyRun ELSE r
  BY DEF InitialRun
<1> HIDE DEF D
<1>3. bound \in [Node -> MaybeConv] /\ node \in [Node -> NodeStatus]
  BY <1>1 DEF MaybeConv, NodeStatus
<1>4. hist \in [Node -> SUBSET Conv]
  <2>1. \A n \in D : n \in Node => bound[n] \in Conv
    BY <1>1
  <2> HIDE DEF bound
  <2> QED BY <2>1
<1>5. EmptyRun \in Run
  BY EmptyRunType
<1> HIDE DEF bound, node, hist
<1>6. r \in Run
  BY <1>3, <1>4, <1>5 DEF Run, RunStatus
<1> HIDE DEF r
<1> QED BY <1>2, <1>5, <1>6

\* Every plan has its window.
LEMMA InitialOrder == SetToSeq(Plan) \in Seq(Plan) /\ Range(SetToSeq(Plan)) = Plan
PROOF
<1> DEFINE c == Cardinality(Plan)
           s == SetToSeq(Plan)
<1>1. c \in Nat /\ ExistsBijection(1..c, Plan)
  BY CascadeAssumption, FS_CardinalityType
<1>2. \E f \in [1..c -> Plan] : IsInjective(f)
  <2>1. PICK f \in Bijection(1..c, Plan) : TRUE
    BY <1>1 DEF ExistsBijection
  <2>2. f \in [1..c -> Plan] /\ IsInjective(f)
    BY <2>1 DEF Bijection, Injection
  <2> QED BY <2>2
<1>3. s \in [1..c -> Plan] /\ IsInjective(s)
  BY <1>2 DEF SetToSeq
<1> HIDE DEF s
<1>4. s \in Injection(1..c, Plan)
  BY <1>3 DEF Injection
<1>5. Cardinality(1..c) = c
  <2>1. 1 \in Int /\ c \in Int
    BY <1>1
  <2> HIDE DEF c
  <2>2. Cardinality(1..c) = IF 1 > c THEN 0 ELSE c - 1 + 1
    BY <2>1, FS_Interval
  <2> QED BY <1>1, <2>2
<1>6. s \in Surjection(1..c, Plan)
  BY <1>4, <1>5, CascadeAssumption, FS_Injection
<1> HIDE DEF c
<1>7. \A p \in Plan : \E i \in 1..c : s[i] = p
  BY <1>6 DEF Surjection
<1>8. DOMAIN s = 1..c /\ s \in Seq(Plan)
  BY <1>1, <1>3
<1>9. Range(s) = Plan
  BY <1>3, <1>7, <1>8 DEF Range
<1> QED BY <1>8, <1>9 DEF s

LEMMA InitModel ==
  ASSUME Init
  PROVE  model \in Model /\ Awaited(model) /\ Owned(model) /\ clicks \in [Ops -> Nat]
PROOF
<1> DEFINE runs == [p \in Plan |-> InitialRun(p)]
           text == [p \in Plan |-> [n \in Node |-> None]]
           order == SetToSeq(Plan)
           after == [p \in Plan |-> <<>>]
           copy == [s \in Session |-> "own"]
<1>1. runs \in [Plan -> Run] /\ copy \in [Session -> {"own", "fork", "other"}]
  BY InitialRunType
<1>2. text \in [Plan -> [Node -> Output]]
  BY DEF Output
<1>3. order \in Seq(Plan) /\ Range(order) = Plan
  BY InitialOrder
<1>4. after \in [Plan -> Seq(Result \cup {None})]
  <2>1. <<>> \in Seq(Result \cup {None})
    OBVIOUS
  <2> QED BY <2>1
<1>5. <<>> \in Seq(Plan) /\ <<>> \in Seq(Request)
  OBVIOUS
<1>6. /\ model = [run |-> runs, text |-> text, order |-> order, sessions |-> Session,
                  after |-> after, copy |-> copy, preview |-> None, queue |-> <<>>,
                  reading |-> None, cascade |-> None, fork |-> None, error |-> FALSE,
                  resuming |-> None, wedged |-> FALSE, requests |-> <<>>, self |-> {}]
      /\ clicks = [op \in Ops |-> 0]
  BY DEF Init
<1> HIDE DEF runs, text, order, after, copy
<1>7. /\ model \in Model /\ model.cascade = None /\ model.sessions = Session /\ model.order = order
  BY <1>1, <1>2, <1>3, <1>4, <1>5, <1>6 DEF Model
<1>8. Windows(model) = Plan
  BY <1>3, <1>7 DEF Windows
<1>9. ASSUME NEW p \in Plan
      PROVE  Origin[p] \in Session /\ (Hosted(Origin[p]) => HostPlan(Origin[p]) \in Plan)
  <2>1. Origin[p] \in Session
    BY CascadeAssumption
  <2>2. Host[Origin[p]] \in (Plan \X Node) \cup {None}
    BY <2>1, CascadeAssumption
  <2> QED BY <2>1, <2>2 DEF Hosted, HostPlan
<1>10. Owned(model)
  BY <1>7, <1>8, <1>9 DEF Owned
<1>11. Awaited(model)
  BY <1>7 DEF Awaited
<1>12. clicks \in [Ops -> Nat]
  BY <1>6
<1> QED BY <1>7, <1>10, <1>11, <1>12

(***************************************************************************)
(* What holds of every behaviour.                                          *)
(***************************************************************************)
\* The inductive invariant: the types, and that a cascade in WaitingFork has a
\* fork pending, without which an arriving session would feed a cascade whose
\* conversation it did not replace.
CascadeInv == TypeOK /\ Awaited(model)

LEMMA CascadeInvStep ==
  ASSUME CascadeInv, [Next]_vars
  PROVE  CascadeInv'
PROOF
<1>1. CASE Next
  BY <1>1, NextLawful, ClicksType DEF CascadeInv, TypeOK, Lawful
<1>2. CASE UNCHANGED vars
  BY <1>2 DEF CascadeInv, TypeOK, vars, Awaited
<1> QED BY <1>1, <1>2

\* Every field of the model keeps its type through every handler, cascade
\* effect and closing: a cascade's levels name nodes, a walk up the plans ends,
\* every window is a plan's.
THEOREM ModelTyped == Spec => []TypeOK
PROOF
<1>1. Init => CascadeInv
  BY InitModel DEF CascadeInv, TypeOK
<1>2. CascadeInv /\ [Next]_vars => CascadeInv'
  BY CascadeInvStep
<1>3. CascadeInv => TypeOK
  BY DEF CascadeInv
<1> QED BY <1>1, <1>2, <1>3, PTL DEF Spec

\* A cascade that waits for its fork has the fork pending (planCascadeFork),
\* whatever the user cancels and whoever's session arrives.
THEOREM ForkAwaited == Spec => []Awaited(model)
PROOF
<1>1. Init => CascadeInv
  BY InitModel DEF CascadeInv, TypeOK
<1>2. CascadeInv /\ [Next]_vars => CascadeInv'
  BY CascadeInvStep
<1>3. CascadeInv => Awaited(model)
  BY DEF CascadeInv
<1> QED BY <1>1, <1>2, <1>3, PTL DEF Spec

\* A node goes back from Succeeded to WaitingForPlan only as the fork is
\* adopted, and a conversation is cut only under a pending fork: a fork that
\* fails, and a re-run that is cancelled, leave every ancestor as it was
\* (Plan/Cascade.elm: side effects come after the fork has succeeded).
THEOREM AncestorsUntouched == Spec => UntouchedUntilForked
PROOF
<1>1. Init => CascadeInv
  BY InitModel DEF CascadeInv, TypeOK
<1>2. CascadeInv /\ [Next]_vars => CascadeInv'
  BY CascadeInvStep
<1>3. ASSUME CascadeInv, [Next]_vars PROVE [TakenBackByFork]_vars
  <2>1. CASE UNCHANGED vars
    BY <2>1
  <2>2. CASE Next
    <3>1. Lawful(model, model') /\ model \in Model /\ model' \in Model
      BY <1>3, <2>2, NextLawful DEF CascadeInv, TypeOK, Lawful
    <3>2. \A p \in Plan : Len(model.after[p]) \in Nat /\ Len(model'.after[p]) \in Nat
      BY <3>1, ModelFields
    <3>3. ASSUME NEW p \in Plan, NEW n \in Node,
                 model.run[p].node[n] = "Succeeded", model'.run[p].node[n] = "WaitingForPlan"
          PROVE  model.fork # None /\ model'.fork = None /\ model'.cascade # None
      <4>1. n \in Waits(model'.run[p]) /\ n \notin Waits(model.run[p])
        BY <3>3 DEF Waits
      <4> QED BY <3>1, <4>1 DEF Lawful
    <3>4. ASSUME NEW p \in Plan, Len(model'.after[p]) < Len(model.after[p])
          PROVE  model.fork # None /\ (model'.fork = None => model'.cascade # None)
      <4>1. ~ (Len(model.after[p]) <= Len(model'.after[p]))
        BY <3>2, <3>4
      <4> QED BY <3>1, <4>1 DEF Lawful
    <3> QED BY <3>3, <3>4 DEF TakenBackByFork
  <2> QED BY <1>3, <2>1, <2>2
<1> QED BY <1>1, <1>2, <1>3, PTL DEF Spec, UntouchedUntilForked

\* No step but the reopening of a closed plan leaves a plan window without its
\* session or without the plan above it, in whatever order sessions and
\* windows close.
THEOREM OnlyReadingOrphans ==
  Spec => [][PlanReadResult \/ (Owned(model) => Owned(model'))]_vars
PROOF
<1>1. Init => CascadeInv
  BY InitModel DEF CascadeInv, TypeOK
<1>2. CascadeInv /\ [Next]_vars => CascadeInv'
  BY CascadeInvStep
<1>3. CascadeInv /\ [Next]_vars => [PlanReadResult \/ (Owned(model) => Owned(model'))]_vars
  BY NextLawful DEF CascadeInv, TypeOK
<1> QED BY <1>1, <1>2, <1>3, PTL DEF Spec

\* While no plan is reopened from its file, every plan window has its session
\* and the plan above it.
THEOREM ClosingOrphansNone == Spec /\ [](model.reading = None) => []WindowsOwned
PROOF
<1>1. Init => CascadeInv /\ Owned(model)
  BY InitModel DEF CascadeInv, TypeOK
<1>2. CascadeInv /\ Owned(model) /\ model.reading = None /\ [Next]_vars
        => (CascadeInv /\ Owned(model))'
  <2> SUFFICES ASSUME CascadeInv, Owned(model), model.reading = None, [Next]_vars
               PROVE  CascadeInv' /\ Owned(model')
    OBVIOUS
  <2>1. CascadeInv'
    BY CascadeInvStep
  <2>2. CASE Next
    <3>1. ~ PlanReadResult
      BY DEF PlanReadResult
    <3> QED BY <2>1, <2>2, <3>1, NextLawful DEF CascadeInv, TypeOK
  <2>3. CASE UNCHANGED vars
    BY <2>1, <2>3 DEF vars
  <2> QED BY <2>2, <2>3
<1>3. Owned(model) => WindowsOwned
  BY DEF WindowsOwned
<1> QED BY <1>1, <1>2, <1>3, PTL DEF Spec
=============================================================================
