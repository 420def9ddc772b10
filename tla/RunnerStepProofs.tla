-------------------------- MODULE RunnerStepProofs --------------------------
(***************************************************************************)
(* Facts about the operators of RunnerStep, for every plan, cap and retry  *)
(* limit.                                                                  *)
(***************************************************************************)
EXTENDS RunnerStep, FiniteSetTheorems, WellFoundedInduction, TLAPS

(***************************************************************************)
(* Counting.  schedule takes a prefix of the runnable nodes in key order.  *)
(***************************************************************************)
Rank(S, n) == Cardinality({m \in S : m < n})

\* In a finite set of numbers the ranks are 0 .. Cardinality(S) - 1, each
\* taken once, in order.
LEMMA Ranks ==
  ASSUME NEW S \in SUBSET Nat, IsFiniteSet(S)
  PROVE  /\ Cardinality(S) \in Nat
         /\ \A n \in S : Rank(S, n) \in 0..(Cardinality(S) - 1)
         /\ \A n, m \in S : n < m => Rank(S, n) < Rank(S, m)
         /\ \A k \in 0..(Cardinality(S) - 1) : \E n \in S : Rank(S, n) = k
PROOF
<1> DEFINE card  == Cardinality(S)
           low(n) == {m \in S : m < n}
           rank  == [n \in S |-> Rank(S, n)]
<1>1. card \in Nat
  BY FS_CardinalityType
<1>2. \A n : IsFiniteSet(low(n)) /\ Cardinality(low(n)) \in Nat
  BY FS_Subset, FS_CardinalityType
<1>3. \A n \in S : Rank(S, n) \in 0..(card - 1)
  <2> TAKE n \in S
  <2>1. low(n) \in SUBSET S /\ low(n) # S
    BY n \notin low(n)
  <2>2. Cardinality(low(n)) <= card /\ Cardinality(low(n)) # card
    BY <2>1, FS_Subset
  <2> QED BY <1>1, <1>2, <2>2 DEF Rank
<1>4. \A n, m \in S : n < m => Rank(S, n) < Rank(S, m)
  <2> TAKE n, m \in S
  <2> HAVE n < m
  <2>1. n \in Nat /\ m \in Nat
    OBVIOUS
  <2>2. \A k \in S : k < n => k < m
    BY <2>1
  <2>3. low(n) \in SUBSET low(m)
    BY <2>2
  <2>4. n \in low(m) /\ n \notin low(n)
    BY <2>1
  <2>5. Cardinality(low(n)) <= Cardinality(low(m)) /\ Cardinality(low(n)) # Cardinality(low(m))
    BY <1>2, <2>3, <2>4, FS_Subset
  <2> QED BY <1>2, <2>5 DEF Rank
<1>5. rank \in Injection(S, 0..(card - 1))
  <2>1. rank \in [S -> 0..(card - 1)]
    BY <1>3
  <2>2. \A n, m \in S : n # m => rank[n] # rank[m]
    <3> TAKE n, m \in S
    <3> HAVE n # m
    <3>1. n < m \/ m < n
      BY n \in Nat, m \in Nat
    <3>2. Rank(S, n) \in Nat /\ Rank(S, m) \in Nat
      BY <1>1, <1>3
    <3> QED BY <1>4, <3>1, <3>2
  <2> QED BY <2>1, <2>2 DEF Injection, IsInjective
<1>6. IsFiniteSet(0..(card - 1)) /\ Cardinality(0..(card - 1)) = card
  <2>1. 0 \in Int /\ card - 1 \in Int
    BY <1>1
  <2> QED BY <1>1, <2>1, FS_Interval
<1>7. rank \in Surjection(S, 0..(card - 1))
  BY <1>5, <1>6, FS_Injection
<1>8. \A k \in 0..(card - 1) : \E n \in S : Rank(S, n) = k
  BY <1>7 DEF Surjection
<1> QED BY <1>1, <1>3, <1>4, <1>8

\* The first c of a finite set of numbers: c of them, or all.
LEMMA FirstOnes ==
  ASSUME NEW S \in SUBSET Nat, IsFiniteSet(S), NEW c \in Int
  PROVE  LET first == {n \in S : Rank(S, n) < c}
         IN  /\ IsFiniteSet(first)
             /\ Cardinality(first) = c \/ first = S \/ (c < 0 /\ first = {})
             /\ Cardinality(first) <= c \/ first = {}
PROOF
<1> DEFINE card  == Cardinality(S)
           first == {n \in S : Rank(S, n) < c}
           rank  == [n \in first |-> Rank(S, n)]
<1>1. card \in Nat /\ first \in SUBSET S
  BY FS_CardinalityType
<1>2. IsFiniteSet(first) /\ Cardinality(first) \in Nat
  BY <1>1, FS_Subset, FS_CardinalityType
<1>3. \A n \in S : Rank(S, n) \in 0..(card - 1)
  BY Ranks
<1>4. CASE c < 0
  <2> HIDE DEF card
  <2>0. \A n \in S : ~ (Rank(S, n) < c)
    BY <1>1, <1>3, <1>4
  <2>1. first = {}
    BY <2>0
  <2> QED BY <1>2, <1>4, <2>1
<1>5. CASE c >= card
  <2> HIDE DEF card
  <2>0. \A n \in S : Rank(S, n) < c
    BY <1>1, <1>3, <1>5
  <2>1. first = S
    BY <2>0
  <2>2. Cardinality(first) <= c
    BY <1>1, <1>5, <2>1 DEF card
  <2> QED BY <1>2, <2>1, <2>2
<1>6. CASE 0 <= c /\ c < card
  <2>1. rank \in Bijection(first, 0..(c - 1))
    <3>1. rank \in [first -> 0..(c - 1)]
      <4> SUFFICES ASSUME NEW n \in first PROVE Rank(S, n) \in 0..(c - 1)
        OBVIOUS
      <4>1. Rank(S, n) \in 0..(card - 1) /\ Rank(S, n) < c
        BY <1>3
      <4> QED BY <1>1, <4>1
    <3>2. \A n, m \in first : n # m => rank[n] # rank[m]
      <4> TAKE n, m \in first
      <4> HAVE n # m
      <4>1. n \in Nat /\ m \in Nat /\ n \in S /\ m \in S
        OBVIOUS
      <4>2. n < m \/ m < n
        BY <4>1
      <4>3. Rank(S, n) < Rank(S, m) \/ Rank(S, m) < Rank(S, n)
        BY <4>1, <4>2, Ranks
      <4> QED BY <1>1, <1>3, <4>1, <4>3
    <3>3. \A k \in 0..(c - 1) : \E n \in first : rank[n] = k
      <4> TAKE k \in 0..(c - 1)
      <4>1. k \in 0..(card - 1) /\ k < c
        BY <1>1, <1>6
      <4>2. PICK n \in S : Rank(S, n) = k
        BY <4>1, Ranks
      <4> QED BY <4>1, <4>2
    <3> QED BY <3>1, <3>2, <3>3 DEF Bijection, Injection, Surjection, IsInjective
  <2>2. ExistsBijection(first, 0..(c - 1))
    BY <2>1 DEF ExistsBijection
  <2>3. Cardinality(0..(c - 1)) = Cardinality(first)
    BY <1>2, <2>2, FS_Bijection
  <2>4. Cardinality(0..(c - 1)) = c
    <3>1. 0 \in Int /\ c - 1 \in Int
      OBVIOUS
    <3> QED BY <1>6, <3>1, FS_Interval
  <2> QED BY <1>2, <2>3, <2>4
<1> QED BY <1>1, <1>4, <1>5, <1>6

LEMMA LeastNumber ==
  ASSUME NEW T \in SUBSET Nat, T # {}
  PROVE  \E n \in T : \A m \in T : n <= m
PROOF
<1> DEFINE R == OpToRel(<, Nat)
<1>1. \A x, y \in Nat : <<x, y>> \in R <=> x < y
  BY DEF OpToRel
<1>2. IsWellFoundedOn(R, Nat)
  BY NatLessThanWellFounded
<1> HIDE DEF R
<1>3. \E n \in T : \A m \in T : <<m, n>> \notin R
  BY <1>2, WFMin
<1>4. PICK n \in T : \A m \in T : <<m, n>> \notin R
  BY <1>3
<1>5. ASSUME NEW m \in T PROVE n <= m
  <2>1. m \in Nat /\ n \in Nat
    OBVIOUS
  <2>2. <<m, n>> \notin R
    BY <1>4
  <2>3. ~ (m < n)
    BY <1>1, <2>1, <2>2
  <2> QED BY <2>1, <2>3
<1> QED BY <1>5

\* nodeBySessionId finds a node bound to the session, if there is one.
LEMMA BoundNode ==
  ASSUME NEW r \in Run, NEW c, Bound(r, c) # {}
  PROVE  NodeBySessionId(r, c) \in Node /\ r.conv[NodeBySessionId(r, c)] = c
PROOF
<1>1. Bound(r, c) \in SUBSET Nat /\ Bound(r, c) # {}
  BY PlanAssumption DEF Bound
<1>2. \E n \in Bound(r, c) : \A m \in Bound(r, c) : n <= m
  BY <1>1, LeastNumber
<1>3. NodeBySessionId(r, c) \in Bound(r, c)
  BY <1>2 DEF NodeBySessionId
<1> QED BY <1>3 DEF Bound

(***************************************************************************)
(* Every handler and every pass of finishStep maps runs to runs.           *)
(***************************************************************************)
LEMMA StatusTypes ==
  /\ Startable \subseteq RunStatus
  /\ \A x \in {"Pending", "Starting", "Running", "Waiting", "Succeeded", "Failed",
              "Blocked", "Canceled", "WaitingForPlan"} : x \in NodeStatus
BY DEF Startable, RunStatus, NodeStatus

LEMMA EmptyRunType == EmptyRun \in Run
BY DEF EmptyRun, Run, RunStatus, NodeStatus, MaybeConv

LEMMA SetStatusType ==
  ASSUME NEW r \in Run, NEW s \in RunStatus
  PROVE  SetStatus(r, s) \in Run
BY DEF SetStatus, Run

LEMMA ResetNodesType ==
  ASSUME NEW r \in Run, NEW S
  PROVE  ResetNodes(r, S) \in Run
BY DEF ResetNodes, Run, NodeStatus, MaybeConv

LEMMA HandlerTypes ==
  ASSUME NEW r \in Run
  PROVE  /\ StartRun(r) \in Run /\ ContinueRun(r) \in Run
         /\ PauseRun(r) \in Run /\ ResumeRun(r) \in Run
         /\ StopRun(r) \in Run /\ RestartRun(r) \in Run
         /\ ResumeState(r) \in Run
PROOF
<1>1. StartRun(r) \in Run /\ ContinueRun(r) \in Run /\ PauseRun(r) \in Run /\ ResumeRun(r) \in Run
  BY SetStatusType, ResetNodesType DEF StartRun, ContinueRun, PauseRun, ResumeRun, RunStatus
<1>2. StopRun(r) \in Run
  BY DEF StopRun, Run, RunStatus, NodeStatus
<1>3. RestartRun(r) \in Run
  BY SetStatusType, ResetNodesType DEF RestartRun, RunStatus
<1>4. ResumeState(r) \in Run
  BY DEF ResumeState, Run, RunStatus, NodeStatus, MaybeConv
<1> QED BY <1>1, <1>2, <1>3, <1>4

LEMMA NodeHandlerTypes ==
  ASSUME NEW r \in Run, NEW n \in Node
  PROVE  /\ ResumeBranchFrom(r, n) \in Run
         /\ \A c \in Conv : SessionCreatedFor(r, n, c) \in Run
         /\ \A c \in Conv, d \in BOOLEAN : TaskDone(r, n, c, d) \in Run
         /\ FailNode(r, n) \in Run
         /\ SessionError(r, n) \in Run /\ SessionDisconnected(r, n) \in Run
         /\ SessionCreateFailed(r, n) \in Run /\ RetryTick(r, n) \in Run
         /\ RetryNode(r, n) \in Run /\ ResumeDelegatedNode(r, n) \in Run
PROOF
<1>1. ResumeBranchFrom(r, n) \in Run
  BY SetStatusType, ResetNodesType DEF ResumeBranchFrom, RunStatus
<1>2. \A c \in Conv : SessionCreatedFor(r, n, c) \in Run
  BY DEF SessionCreatedFor, Run, NodeStatus, MaybeConv
<1>3. \A c \in Conv, d \in BOOLEAN : TaskDone(r, n, c, d) \in Run
  BY DEF TaskDone, Succeed, Run, NodeStatus, MaybeConv
<1>4. FailNode(r, n) \in Run
  <2> DEFINE more == r.attempts[n] + 1
             st   == IF more < MaxAttempts[n] THEN "Waiting" ELSE "Failed"
  <2>1. r.attempts \in [Node -> Nat] /\ r.node \in [Node -> NodeStatus]
    BY DEF Run
  <2>2. more \in Nat /\ st \in NodeStatus
    BY <2>1 DEF NodeStatus
  <2> DEFINE f == [r EXCEPT !.attempts[n] = more]
  <2>3. f \in Run /\ f.node = r.node
    <3> HIDE DEF more
    <3> QED BY <2>1, <2>2 DEF Run
  <2>4. FailNode(r, n) = [f EXCEPT !.node[n] = st]
    BY DEF FailNode
  <2> HIDE DEF more, st, f
  <2> QED BY <2>2, <2>3, <2>4 DEF Run
<1>5. /\ SessionError(r, n) \in Run /\ SessionDisconnected(r, n) \in Run
      /\ SessionCreateFailed(r, n) \in Run
  BY <1>4 DEF SessionError, SessionDisconnected, SessionCreateFailed
<1>6. RetryTick(r, n) \in Run /\ ResumeDelegatedNode(r, n) \in Run
  BY DEF RetryTick, ResumeDelegatedNode, Run, NodeStatus
<1>7. RetryNode(r, n) \in Run
  BY DEF RetryNode, SetStatus, Run, NodeStatus, RunStatus
<1> QED BY <1>1, <1>2, <1>3, <1>4, <1>5, <1>6, <1>7

LEMMA PassTypes ==
  ASSUME NEW r \in Run
  PROVE  /\ BlockedPropagation(r) \in Run
         /\ CloseAndClear(r) \in Run
         /\ UpdateRunStatus(r) \in Run
         /\ Schedule(r) \in Run
PROOF
<1>1. BlockedPropagation(r) \in Run
  BY DEF BlockedPropagation, Run, NodeStatus
<1>2. CloseAndClear(r) \in Run
  BY DEF CloseAndClear, Run, MaybeConv
<1>3. UpdateRunStatus(r) \in Run
  BY SetStatusType DEF UpdateRunStatus, RunStatus
<1>4. Schedule(r) \in Run
  BY DEF Schedule, Run, NodeStatus
<1> QED BY <1>1, <1>2, <1>3, <1>4

LEMMA FinishStepType ==
  ASSUME NEW r \in Run, NEW before
  PROVE  /\ FinishStep(before, r).run \in Run
         /\ FinishStep(before, r).close \subseteq Conv
         /\ FinishStep(before, r).create \subseteq Node
         /\ FinishStep(before, r).retry \subseteq Node
PROOF
<1> DEFINE r1 == BlockedPropagation(r)
           r2 == CloseAndClear(r1)
           r3 == UpdateRunStatus(r2)
<1>1. r1 \in Run /\ r2 \in Run /\ r3 \in Run /\ Schedule(r3) \in Run
  BY PassTypes
<1>2. {r1.conv[n] : n \in Closing(r1)} \subseteq Conv
  BY <1>1 DEF Closing, Run, MaybeConv
<1>3. Chosen(r3) \subseteq Node
  BY DEF Chosen, Runnable
<1> HIDE DEF r1, r2, r3
<1> QED BY <1>1, <1>2, <1>3 DEF FinishStep, r1, r2, r3

(***************************************************************************)
(* Blocked nodes.                                                          *)
(***************************************************************************)
Blockable(st, n) ==
  /\ st[n] \in {"Pending", "Waiting"}
  /\ \E d \in DependsOn[n] : st[d] \in {"Failed", "Blocked"}

\* The least closed set is itself closed, and holds only nodes that wait.
LEMMA BlockedByClosed ==
  ASSUME NEW st
  PROVE  /\ BlockedClosed(st, BlockedBy(st))
         /\ \A n \in BlockedBy(st) : n \in Node /\ st[n] \in {"Pending", "Waiting"}
PROOF
<1>1. \A n \in BlockedBy(st) : st[n] \in {"Pending", "Waiting"}
  <2> DEFINE W == {n \in Node : st[n] \in {"Pending", "Waiting"}}
  <2>1. W \in SUBSET Node /\ BlockedClosed(st, W)
    BY DEF BlockedClosed
  <2> QED BY <2>1 DEF BlockedBy
<1>2. BlockedClosed(st, BlockedBy(st))
  <2> SUFFICES ASSUME NEW n \in Node, st[n] \in {"Pending", "Waiting"},
                      NEW d \in DependsOn[n],
                      st[d] \in {"Failed", "Blocked"} \/ d \in BlockedBy(st),
                      NEW S \in SUBSET Node, BlockedClosed(st, S)
               PROVE  n \in S
    BY DEF BlockedClosed, BlockedBy
  <2>1. st[d] \in {"Failed", "Blocked"} \/ d \in S
    BY DEF BlockedBy
  <2> QED BY <2>1 DEF BlockedClosed
<1> QED BY <1>1, <1>2 DEF BlockedBy

\* Nothing is left to block once the closed set is blocked, and then one more
\* pass changes nothing.
LEMMA PropagationSettles ==
  ASSUME NEW r \in Run
  PROVE  \A n \in Node : ~ Blockable(BlockedPropagation(r).node, n)
PROOF
<1> DEFINE st == BlockedPropagation(r).node
<1>1. \A n \in Node : st[n] = IF n \in BlockedBy(r.node) THEN "Blocked" ELSE r.node[n]
  BY DEF BlockedPropagation, Run
<1>2. DependsOn \in [Node -> SUBSET Node]
  BY PlanAssumption
<1> SUFFICES ASSUME NEW n \in Node, st[n] \in {"Pending", "Waiting"},
                    NEW d \in DependsOn[n], st[d] \in {"Failed", "Blocked"}
             PROVE  FALSE
  BY DEF Blockable
<1>3. d \in Node
  BY <1>2
<1>4. n \notin BlockedBy(r.node) /\ r.node[n] \in {"Pending", "Waiting"}
  BY <1>1
<1>5. r.node[d] \in {"Failed", "Blocked"} \/ d \in BlockedBy(r.node)
  BY <1>1, <1>3
<1> QED BY <1>4, <1>5, BlockedByClosed DEF BlockedClosed

LEMMA NothingBlockable ==
  ASSUME NEW r \in Run, \A n \in Node : ~ Blockable(r.node, n)
  PROVE  BlockedPropagation(r) = r
PROOF
<1>1. BlockedClosed(r.node, {})
  BY DEF BlockedClosed, Blockable
<1>2. BlockedBy(r.node) = {}
  BY <1>1 DEF BlockedBy
<1>3. [n \in Node |-> IF n \in BlockedBy(r.node) THEN "Blocked" ELSE r.node[n]] = r.node
  BY <1>2 DEF Run
<1> QED BY <1>3 DEF BlockedPropagation, Run

(***************************************************************************)
(* The fields of the run that finishStep returns.                          *)
(***************************************************************************)
LEMMA PassFields ==
  ASSUME NEW r \in Run
  PROVE  /\ CloseAndClear(r).node = r.node /\ CloseAndClear(r).status = r.status
         /\ \A n \in Node : CloseAndClear(r).conv[n] =
               IF r.conv[n] # None /\ r.node[n] \in Released THEN None ELSE r.conv[n]
         /\ UpdateRunStatus(r).node = r.node /\ UpdateRunStatus(r).conv = r.conv
         /\ Schedule(r).status = r.status /\ Schedule(r).conv = r.conv
         /\ \A n \in Node : Schedule(r).node[n] =
               IF n \in Chosen(r) THEN "Starting" ELSE r.node[n]
PROOF
<1>1. CloseAndClear(r).node = r.node /\ CloseAndClear(r).status = r.status
  BY DEF CloseAndClear, Run
<1>2. \A n \in Node : CloseAndClear(r).conv[n] =
               IF r.conv[n] # None /\ r.node[n] \in Released THEN None ELSE r.conv[n]
  BY DEF CloseAndClear, Closing, Run
<1>3. UpdateRunStatus(r).node = r.node /\ UpdateRunStatus(r).conv = r.conv
  BY DEF UpdateRunStatus, SetStatus, Run
<1>4. Schedule(r).status = r.status /\ Schedule(r).conv = r.conv
  BY DEF Schedule, Run
<1>5. \A n \in Node : Schedule(r).node[n] =
               IF n \in Chosen(r) THEN "Starting" ELSE r.node[n]
  BY DEF Schedule, Run
<1> QED BY <1>1, <1>2, <1>3, <1>4, <1>5

(***************************************************************************)
(* finishStep settles a run.                                               *)
(***************************************************************************)
\* Nothing to block, to close, to conclude or to launch.
Quiet(r) ==
  /\ \A n \in Node : ~ Blockable(r.node, n)
  /\ \A n \in Node : r.conv[n] # None => r.node[n] \notin Released
  /\ r.status = "InProgress" => \E n \in Node : r.node[n] \notin TerminalNode
  /\ Chosen(r) = {}

\* After launching what the cap allows, nothing more can be launched.
LEMMA ScheduleSettles ==
  ASSUME NEW r \in Run
  PROVE  Chosen(Schedule(r)) = {}
PROOF
<1> DEFINE f == Schedule(r)
           cap == Concurrency - Cardinality(Active(r))
<1>1. /\ f.status = r.status
      /\ \A n \in Node : f.node[n] = IF n \in Chosen(r) THEN "Starting" ELSE r.node[n]
  BY PassFields
<1>2. CASE r.status # "InProgress"
  BY <1>1, <1>2 DEF Chosen
<1>3. CASE r.status = "InProgress"
  <2>1. /\ IsFiniteSet(Active(r)) /\ Cardinality(Active(r)) \in Nat
        /\ Runnable(r) \in SUBSET Nat /\ IsFiniteSet(Runnable(r))
    BY PlanAssumption, FS_Subset, FS_CardinalityType DEF Active, Runnable
  <2>2. cap \in Int
    BY <2>1, CapAssumption
  <2>3. Chosen(r) = {n \in Runnable(r) : Rank(Runnable(r), n) < cap}
    BY <1>3 DEF Chosen, Rank
  <2>4. /\ IsFiniteSet(Chosen(r))
        /\ Cardinality(Chosen(r)) = cap \/ Chosen(r) = Runnable(r) \/ (cap < 0 /\ Chosen(r) = {})
    <3> HIDE DEF cap
    <3> QED BY <2>1, <2>2, <2>3, FirstOnes
  <2>5. DependsOn \in [Node -> SUBSET Node]
    BY PlanAssumption
  <2>6. Runnable(f) = Runnable(r) \ Chosen(r)
    BY <1>1, <2>3, <2>5 DEF Runnable, DepsSucceeded
  <2>7. Active(f) = Active(r) \cup Chosen(r) /\ Active(r) \cap Chosen(r) = {}
    BY <1>1, <2>3 DEF Active, ActiveStatus, Runnable
  <2>8. Cardinality(Active(f)) = Cardinality(Active(r)) + Cardinality(Chosen(r))
    <3> DEFINE A == Active(r)
               C == Chosen(r)
    <3>1. IsFiniteSet(A) /\ IsFiniteSet(C) /\ A \cap C = {} /\ Active(f) = A \cup C
      BY <2>1, <2>4, <2>7
    <3> HIDE DEF A, C, f
    <3>2. Cardinality(A) \in Nat /\ Cardinality(C) \in Nat
      BY <3>1, FS_CardinalityType
    <3>3. Cardinality(A \cup C) = Cardinality(A) + Cardinality(C) - Cardinality(A \cap C)
      BY <3>1, FS_Union
    <3>4. Cardinality(A \cap C) = 0
      BY <3>1, FS_EmptySet
    <3>5. Cardinality(Active(f)) = Cardinality(A) + Cardinality(C)
      BY <3>1, <3>2, <3>3, <3>4
    <3> QED BY <3>5 DEF A, C
  <2>9. CASE Chosen(r) = Runnable(r)
    BY <2>6, <2>9 DEF Chosen
  <2>10. CASE Chosen(r) # Runnable(r)
    <3>1. Concurrency - Cardinality(Active(f)) <= 0
      <4>1. CASE Cardinality(Chosen(r)) = cap
        BY <2>1, <2>8, <4>1, CapAssumption
      <4>2. CASE cap < 0 /\ Chosen(r) = {}
        BY <2>1, <2>8, <4>2, CapAssumption, FS_EmptySet
      <4> QED BY <2>4, <2>10, <4>1, <4>2
    <3>2. \A n \in Runnable(f) : Cardinality({m \in Runnable(f) : m < n}) \in Nat
      <4> TAKE n \in Runnable(f)
      <4>1. {m \in Runnable(f) : m < n} \in SUBSET Runnable(r)
        BY <2>6
      <4> QED BY <2>1, <4>1, FS_Subset, FS_CardinalityType
    <3>3. Cardinality(Active(f)) \in Nat
      <4>1. Cardinality(Chosen(r)) \in Nat
        BY <2>4, FS_CardinalityType
      <4> QED BY <2>1, <2>8, <4>1
    <3>4. \A n \in Runnable(f) :
            ~ (Cardinality({m \in Runnable(f) : m < n}) < Concurrency - Cardinality(Active(f)))
      <4> TAKE n \in Runnable(f)
      <4> DEFINE k == Cardinality({m \in Runnable(f) : m < n})
      <4>1. k \in Nat
        BY <3>2
      <4> HIDE DEF k, f
      <4>2. ~ (k < Concurrency - Cardinality(Active(f)))
        BY <3>1, <3>3, <4>1, CapAssumption
      <4> QED BY <4>2 DEF k
    <3> HIDE DEF f
    <3>5. Chosen(f) = {}
      BY <3>4 DEF Chosen
    <3> QED BY <3>5 DEF f
  <2> QED BY <2>9, <2>10
<1> QED BY <1>2, <1>3

LEMMA FinishStepQuiet ==
  ASSUME NEW r \in Run, NEW before
  PROVE  Quiet(FinishStep(before, r).run)
PROOF
<1> DEFINE r1 == BlockedPropagation(r)
           r2 == CloseAndClear(r1)
           r3 == UpdateRunStatus(r2)
           f  == Schedule(r3)
<1>1. r1 \in Run /\ r2 \in Run /\ r3 \in Run /\ f \in Run
  BY PassTypes
<1>2. FinishStep(before, r).run = f
  BY DEF FinishStep
<1>3. \A n \in Node : ~ Blockable(r1.node, n)
  BY PropagationSettles
<1> HIDE DEF r1
<1>4. /\ r2.node = r1.node /\ r2.status = r1.status
      /\ \A n \in Node : r2.conv[n] # None => r2.node[n] \notin Released
  BY <1>1, PassFields
<1> HIDE DEF r2
<1>5. r3.node = r2.node /\ r3.conv = r2.conv
  BY <1>1, PassFields
<1>6. r3.status = "InProgress" => \E n \in Node : r3.node[n] \notin TerminalNode
  BY <1>1, <1>5 DEF r3, UpdateRunStatus, SetStatus, Run
<1> HIDE DEF r3
<1>7. /\ f.status = r3.status /\ f.conv = r3.conv
      /\ \A n \in Node : f.node[n] = IF n \in Chosen(r3) THEN "Starting" ELSE r3.node[n]
  BY <1>1, PassFields
<1>8. Chosen(f) = {}
  BY <1>1, ScheduleSettles
<1> HIDE DEF f
<1>9. \A n \in Chosen(r3) : r3.node[n] = "Pending"
  BY DEF Chosen, Runnable
<1>10. \A n \in Node : ~ Blockable(f.node, n)
  <2>1. DependsOn \in [Node -> SUBSET Node]
    BY PlanAssumption
  <2> QED BY <1>3, <1>4, <1>5, <1>7, <1>9, <2>1 DEF Blockable
<1>11. \A n \in Node : f.conv[n] # None => f.node[n] \notin Released
  BY <1>4, <1>5, <1>7 DEF Released
<1>12. f.status = "InProgress" => \E n \in Node : f.node[n] \notin TerminalNode
  BY <1>6, <1>7 DEF TerminalNode
<1> QED BY <1>2, <1>8, <1>10, <1>11, <1>12 DEF Quiet

LEMMA QuietSettled ==
  ASSUME NEW r \in Run, Quiet(r)
  PROVE  LET f == FinishStep(r, r)
         IN  f.run = r /\ f.close = {} /\ f.create = {} /\ f.retry = {}
PROOF
<1>1. BlockedPropagation(r) = r
  BY NothingBlockable DEF Quiet
<1>2. Closing(r) = {}
  BY DEF Quiet, Closing
<1>3. CloseAndClear(r) = r
  <2>1. /\ [n \in Node |-> IF n \in Closing(r) THEN None ELSE r.conv[n]] = r.conv
        /\ [n \in Node |-> IF n \in Closing(r) THEN r.conv[n] ELSE r.last[n]] = r.last
    BY <1>2 DEF Run
  <2> QED BY <2>1 DEF CloseAndClear, Run
<1>4. UpdateRunStatus(r) = r
  BY DEF Quiet, UpdateRunStatus
<1>5. Schedule(r) = r
  <2>1. [n \in Node |-> IF n \in Chosen(r) THEN "Starting" ELSE r.node[n]] = r.node
    BY DEF Quiet, Run
  <2> QED BY <2>1 DEF Schedule, Run
<1> QED BY <1>1, <1>2, <1>3, <1>4, <1>5 DEF FinishStep, Quiet

\* finishStep is idempotent: the run it returns has no work left that it
\* would do, so no event ever finds the run with work overdue.
THEOREM FinishStepIdempotent ==
  ASSUME NEW r \in Run, NEW before
  PROVE  LET f == FinishStep(before, r).run
             g == FinishStep(f, f)
         IN  g.run = f /\ g.close = {} /\ g.create = {} /\ g.retry = {}
BY FinishStepType, FinishStepQuiet, QuietSettled
=============================================================================
