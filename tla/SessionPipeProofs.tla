-------------------------- MODULE SessionPipeProofs --------------------------
(***************************************************************************)
(* What every behaviour of SessionPipe satisfies, for any number of        *)
(* prompts, commands and closers and any size of pipe and of the registry.  *)
(***************************************************************************)
EXTENDS SessionPipe, SequenceTheorems, FiniteSetTheorems, TLAPS

(***************************************************************************)
(* The inductive invariant.                                                *)
(***************************************************************************)
\* g has a frame in the pipe.
InPipe(g) == \E i \in DOMAIN written : written[i][1] = g

\* Before the process is spawned nobody knows the session.
Unborn ==
  pc["create"] = "spawn" =>
    core = "none" /\ ~mapped /\ child = "here" /\ written = <<>> /\ \A g \in Callers : pc[g] = "call"

\* Who has not had the lock has written nothing.
Early == {"call", "naming", "checking", "locking", "taking", "trying"}
Fresh == \A g \in Callers : pc[g] \in Early => at[g] = 0 /\ ~InPipe(g)

\* While g has the lock, what it has written is the end of the pipe.
LastMine ==
  \A g \in Callers : Holding(g) =>
    \A i, j \in DOMAIN written : i <= j /\ written[i][1] = g => written[j][1] = g

\* A prompt that stopped half-way did so because the core is gone, or at a
\* frame too long.
Whole ==
  \A p \in Prompts : InPipe(p) =>
    \/ \E j \in DOMAIN written : written[j] = <<p, Parts>>
    \/ core = "exited" \/ pc[p] = "refused"
    \/ pc[p] = "locked" /\ stdin = "open"

\* A closer with the lock is as far as its counter says.
Counted ==
  \A k \in Closers :
    /\ pc[k] = "locked" => at[k] \in {0, 1}
    /\ pc[k] = "eof" => at[k] = 2
    /\ Holding(k) /\ ~Broken =>
         /\ at[k] <= Len(written)
         /\ at[k] >= 1 => written[Len(written) - at[k] + 1] = <<k, 1>>
         /\ at[k] >= 2 => written[Len(written)] = <<k, 2>>

\* What has been said follows from how far create and the reader are.
Told ==
  /\ pc["create"] \in {"spawn", "failed", "status"} => said = <<>>
  /\ pc["create"] \in {"start", "reply", "done"} =>
       said = IF announced THEN <<"up", "down">> ELSE <<"up">>
  /\ pc["create"] \in {"spawn", "failed", "status", "start"} => pc["reader"] = "off" /\ ~announced
  /\ pc["create"] \in {"spawn", "failed", "status", "start", "reply", "done"}
  /\ pc["reader"] \in {"off", "reading", "reaping", "killing", "announcing", "done"}

\* Of the calls that close, one finds the session in the map.
OneCloser ==
  \A j, k \in Closers : {pc[j], pc[k]} \cap {"call", "failed"} = {} => j = k /\ ~mapped

\* A child that has been taken is with whoever reaps it, or reaped.
ChildOwned ==
  /\ child = "closer" => \E k \in Closers : pc[k] \notin {"call", "failed", "taking"}
  /\ child = "reader" => pc["reader"] = "killing" \/ core = "exited"

IInv ==
  /\ TypeOK /\ Unborn
  /\ MutualExclusion /\ Fresh /\ LastMine /\ FramesTogether
  /\ Whole /\ Counted /\ CancelSaveEOF
  /\ OneCloser /\ ChildOwned /\ ClosedMeansGone /\ Told

(***************************************************************************)
(* Shapes.                                                                 *)
(***************************************************************************)
LEMMA InsertKept ==
  ASSUME NEW p \in Seq(Frame), Len(p) <= MaxPending, NEW f \in Frame
  PROVE  Insert(p, f) \in Seq(Frame) /\ Len(Insert(p, f)) <= MaxPending
PROOF
<1> DEFINE q == Append(p, f)
<1>1. q \in Seq(Frame) /\ Len(q) = Len(p) + 1 /\ q # <<>>
  OBVIOUS
<1> HIDE DEF q
<1>2. Tail(q) \in Seq(Frame) /\ Len(Tail(q)) = Len(q) - 1
  BY <1>1
<1>3. Len(p) \in Nat /\ MaxPending \in Nat
  BY PipeAssumption
<1> QED BY <1>1, <1>2, <1>3 DEF Insert, q

LEMMA WithoutKept ==
  ASSUME NEW p \in Seq(Frame), NEW f
  PROVE  Without(p, f) \in Seq(Frame) /\ Len(Without(p, f)) <= Len(p)
PROOF
<1>1. CASE ~ \E i \in DOMAIN p : p[i] = f
  BY <1>1 DEF Without
<1>2. CASE \E i \in DOMAIN p : p[i] = f
  <2> DEFINE i == CHOOSE i \in DOMAIN p : p[i] = f
             a == SubSeq(p, 1, i - 1)
             b == SubSeq(p, i + 1, Len(p))
  <2>1. i \in 1..Len(p)
    BY <1>2
  <2>2. Without(p, f) = a \o b
    BY <1>2 DEF Without
  <2> HIDE DEF i
  <2>3. a \in Seq(Frame) /\ Len(a) = i - 1
    BY <2>1
  <2>4. b \in Seq(Frame) /\ Len(b) = Len(p) - i
    BY <2>1
  <2> HIDE DEF a, b
  <2>5. a \o b \in Seq(Frame) /\ Len(a \o b) = Len(a) + Len(b)
    BY <2>3, <2>4
  <2> QED BY <2>1, <2>2, <2>3, <2>4, <2>5
<1> QED BY <1>1, <1>2

\* Where a task goes is a place.
LEMMA GoKept ==
  ASSUME pc \in [Callers \cup {"create", "reader"} -> Labels],
         NEW g \in Callers \cup {"create", "reader"}, NEW from, NEW to \in Labels,
         Go(g, from, to)
  PROVE  /\ pc[g] = from /\ pc' \in [Callers \cup {"create", "reader"} -> Labels]
         /\ pc'[g] = to /\ \A h \in Callers \cup {"create", "reader"} : h # g => pc'[h] = pc[h]
PROOF
  BY DEF Go

\* Callers are neither create nor reader.
LEMMA TaskNames ==
  /\ "create" \notin Callers /\ "reader" \notin Callers /\ None \notin Callers
  /\ \A g \in Prompts : g \in Callers /\ g \notin Commands /\ g \notin Closers
  /\ \A g \in Commands : g \in Callers /\ g \notin Prompts /\ g \notin Closers
  /\ \A g \in Closers : g \in Callers /\ g \notin Prompts /\ g \notin Commands
  /\ Callers = Prompts \cup Commands \cup Closers
PROOF
  BY PipeAssumption DEF Callers

LEMMA ServerTypes ==
  ASSUME TypeOK, Server
  PROVE  TypeOK'
PROOF
<1> USE DEF session, pipes, proc, told
<1>1. CASE Create
  BY <1>1, GoKept DEF TypeOK, Create, Labels
<1>2. CASE SpawnFails
  BY <1>2 DEF TypeOK, SpawnFails, Go, Labels
<1>3. CASE EmitUp
  BY <1>3 DEF TypeOK, EmitUp, Go, Labels
<1>4. CASE StartReader
  BY <1>4 DEF TypeOK, StartReader, Labels
<1>5. CASE Reply
  BY <1>5 DEF TypeOK, Reply, Go, Labels
<1>6. CASE ReadFrame
  <2>1. stdout # <<>> /\ stdout \in Seq(Sent) /\ stdout' = Tail(stdout)
    BY <1>6 DEF TypeOK, ReadFrame
  <2>2. stdout' \in Seq(Sent)
    BY <2>1
  <2>3. pending' \in Seq(Frame) /\ Len(pending') <= MaxPending
    <3>1. pending \in Seq(Frame) /\ Len(pending) <= MaxPending /\ pending' = Without(pending, Head(stdout))
      BY <1>6 DEF TypeOK, ReadFrame
    <3>2. Without(pending, Head(stdout)) \in Seq(Frame) /\ Len(Without(pending, Head(stdout))) <= Len(pending)
      BY <3>1, WithoutKept
    <3> QED BY <3>1, <3>2, PipeAssumption
  <2>4. said' \in Seq({"up", "down"}) /\ announced' \in BOOLEAN
    BY <1>6 DEF TypeOK, ReadFrame
  <2> QED BY <1>6, <2>2, <2>3, <2>4 DEF TypeOK, ReadFrame
<1>7. CASE ReadEnd
  BY <1>7 DEF TypeOK, ReadEnd, Go, Labels
<1>8. CASE ReapChild
  BY <1>8 DEF TypeOK, ReapChild, Go, Labels
<1>9. CASE KillChild
  BY <1>9 DEF TypeOK, KillChild, Exits, Go, Labels
<1>10. CASE Announce
  BY <1>10 DEF TypeOK, Announce, Go, Labels
<1> QED BY <1>1, <1>2, <1>3, <1>4, <1>5, <1>6, <1>7, <1>8, <1>9, <1>10 DEF Server

LEMMA WriteTypes ==
  ASSUME TypeOK, NEW g \in Callers,
         Write(g) \/ WriteFails(g) \/ Refuse(g) \/ Register(g) \/ Forget(g)
  PROVE  TypeOK'
PROOF
<1> USE TaskNames DEF session, pipes, proc, told
<1>1. CASE Write(g)
  <2>1. <<g, at[g] + 1>> \in Frame /\ at' \in [Callers -> Nat]
    BY <1>1 DEF TypeOK, Write, Frame
  <2>2. written' \in Seq(Frame) /\ read \in 0..Len(written')
    BY <1>1, <2>1 DEF TypeOK, Write
  <2>3. pc' \in [Callers \cup {"create", "reader"} -> Labels]
    BY <1>1 DEF TypeOK, Write, Go, Labels
  <2> QED BY <1>1, <2>1, <2>2, <2>3 DEF TypeOK, Write
<1>2. CASE WriteFails(g)
  BY <1>2 DEF TypeOK, WriteFails, Unsent, Go, Labels
<1>3. CASE Register(g)
  <2>1. <<g, 1>> \in Frame /\ pending \in Seq(Frame) /\ Len(pending) <= MaxPending
    BY DEF TypeOK, Frame
  <2>2. pending' \in Seq(Frame) /\ Len(pending') <= MaxPending
    BY <1>3, <2>1, InsertKept DEF Register
  <2>3. pc' \in [Callers \cup {"create", "reader"} -> Labels]
    BY <1>3 DEF TypeOK, Register, Go, Labels
  <2> QED BY <1>3, <2>2, <2>3 DEF TypeOK, Register
<1>4. CASE Forget(g)
  <2>1. pending \in Seq(Frame) /\ Len(pending) <= MaxPending /\ pending' = Without(pending, <<g, 1>>)
    BY <1>4 DEF TypeOK, Forget
  <2>2. Without(pending, <<g, 1>>) \in Seq(Frame) /\ Len(Without(pending, <<g, 1>>)) <= Len(pending)
    BY <2>1, WithoutKept
  <2>3. pending' \in Seq(Frame) /\ Len(pending') <= MaxPending
    BY <2>1, <2>2, PipeAssumption
  <2>4. pc' \in [Callers \cup {"create", "reader"} -> Labels]
    BY <1>4 DEF TypeOK, Forget, Go, Labels
  <2> QED BY <1>4, <2>3, <2>4 DEF TypeOK, Forget
<1>5. CASE Refuse(g)
  BY <1>5 DEF TypeOK, Refuse, Go, Labels
<1> QED BY <1>1, <1>2, <1>3, <1>4, <1>5

LEMMA CallTypes ==
  ASSUME TypeOK, NEW g \in Callers,
         \/ Refs(g) \/ Check(g) \/ Lock(g) \/ Close(g) \/ TakeChild(g) \/ TryLock(g)
         \/ GiveUp(g) \/ CloseStdin(g) \/ GraceOver(g) \/ SigKill(g)
  PROVE  TypeOK'
PROOF
<1> USE TaskNames DEF session, pipes, proc, told
<1>0. g \in Callers \cup {"create", "reader"}
  OBVIOUS
<1>1. CASE Refs(g)
  BY <1>1 DEF TypeOK, Refs, Go, Labels
<1>2. CASE Check(g)
  BY <1>2 DEF TypeOK, Check, Unsent, Go, Labels
<1>3. CASE Lock(g)
  BY <1>3 DEF TypeOK, Lock, Go, Labels
<1>4. CASE Close(g)
  BY <1>4 DEF TypeOK, Close, Go, Labels
<1>5. CASE TakeChild(g)
  BY <1>5 DEF TypeOK, TakeChild, Dropped, Go, Labels
<1>6. CASE TryLock(g)
  BY <1>6 DEF TypeOK, TryLock, Go, Labels
<1>7. CASE GiveUp(g)
  BY <1>7 DEF TypeOK, GiveUp, Go, Labels
<1>8. CASE CloseStdin(g)
  BY <1>8 DEF TypeOK, CloseStdin, Go, Labels
<1>9. CASE GraceOver(g)
  BY <1>9 DEF TypeOK, GraceOver, Go, Labels
<1>10. CASE SigKill(g)
  BY <1>10 DEF TypeOK, SigKill, Exits, Dropped, Go, Labels
<1> QED BY <1>1, <1>2, <1>3, <1>4, <1>5, <1>6, <1>7, <1>8, <1>9, <1>10

LEMMA EnvironmentTypes ==
  ASSUME TypeOK, Environment
  PROVE  TypeOK'
PROOF
<1> USE DEF session, pipes, proc, told
<1>1. CASE CoreReads
  <2>1. written[read + 1] \in Frame
    BY <1>1 DEF TypeOK, CoreReads
  <2>2. stdout' \in Seq(Sent)
    BY <1>1, <2>1 DEF TypeOK, CoreReads, Sent
  <2> QED BY <1>1, <2>2 DEF TypeOK, CoreReads
<1>2. CASE CoreSends
  <2>1. stdout' \in Seq(Sent)
    BY <1>2 DEF TypeOK, CoreSends, Sent
  <2>2. frames' \in 0..MaxFrames
    BY <1>2, PipeAssumption DEF TypeOK, CoreSends
  <2> QED BY <1>2, <2>1, <2>2 DEF TypeOK, CoreSends
<1>3. CASE CoreStalls
  BY <1>3 DEF TypeOK, CoreStalls
<1>4. CASE CoreEnds
  <2>1. stdout' \in Seq(Sent)
    BY <1>4 DEF TypeOK, CoreEnds, Sent
  <2> QED BY <1>4, <2>1 DEF TypeOK, CoreEnds
<1>5. CASE CoreHushes
  BY <1>5 DEF TypeOK, CoreHushes
<1>6. CASE CoreExits
  BY <1>6 DEF TypeOK, CoreExits, Exits
<1>7. CASE HolderExits
  BY <1>7 DEF TypeOK, HolderExits
<1> QED BY <1>1, <1>2, <1>3, <1>4, <1>5, <1>6, <1>7 DEF Environment

(***************************************************************************)
(* What a step does to the lock and the pipe: nothing, or one caller g     *)
(* moves outside the critical section, enters it, writes, fails to, is     *)
(* refused, or empties the slot.                                           *)
(***************************************************************************)
Others(g) == \A h \in Callers : h # g => pc'[h] = pc[h] /\ at'[h] = at[h]

\* The core may go, and only then the pipe without its cancel and save.
Dies ==
  /\ core' = core \/ core' = "exited"
  /\ stdin' = stdin \/ (stdin' = "closed" /\ core' = "exited")

Quiet ==
  /\ \A g \in Callers : pc'[g] = pc[g] /\ at'[g] = at[g]
  /\ lock' = lock /\ written' = written /\ stdin' = stdin
  /\ core = "exited" => core' = "exited"

Outside(g) ==
  /\ Others(g) /\ at'[g] = at[g]
  /\ ~Holding(g) /\ pc'[g] \notin {"locked", "eof"}
  /\ pc'[g] \in Early => pc[g] \in Early
  /\ pc[g] # "refused"
  /\ UNCHANGED <<lock, written>> /\ Dies

Enters(g) ==
  /\ Others(g) /\ at'[g] = at[g]
  /\ pc[g] \in {"locking", "trying"} /\ pc'[g] = "locked"
  /\ lock = None /\ lock' = g
  /\ UNCHANGED <<written, stdin, core>>

\* Where g goes with its last frame, and what becomes of the lock then.
Leaves(g) ==
  IF g \in Closers THEN pc'[g] = "eof" /\ lock' = lock
  ELSE pc'[g] \in {"ok", "failed", "forgetting"} /\ lock' = None

Writes(g) ==
  /\ Others(g) /\ at'[g] = at[g] + 1
  /\ pc[g] = "locked" /\ ~Broken
  /\ written' = Append(written, <<g, at[g] + 1>>)
  /\ IF Last(g) THEN Leaves(g) ELSE pc'[g] = "locked" /\ lock' = lock
  /\ UNCHANGED <<stdin, core>>

Fails(g) ==
  /\ Others(g) /\ at'[g] = IF g \in Closers THEN at[g] + 1 ELSE at[g]
  /\ pc[g] = "locked" /\ Broken
  /\ IF g \in Closers /\ ~Last(g) THEN pc'[g] = "locked" /\ lock' = lock ELSE Leaves(g)
  /\ UNCHANGED <<written, stdin, core>>

Refused(g) ==
  /\ Others(g) /\ at'[g] = at[g]
  /\ g \notin Closers /\ pc[g] = "locked"
  /\ pc'[g] \in {"refused", "forgetting"} /\ (g \in Prompts => pc'[g] = "refused")
  /\ lock' = None
  /\ UNCHANGED <<written, stdin, core>>

Shuts(g) ==
  /\ Others(g) /\ at'[g] = at[g]
  /\ g \in Closers /\ pc[g] = "eof" /\ pc'[g] = "grace"
  /\ lock' = None /\ stdin' = "closed"
  /\ UNCHANGED <<written, core>>

Moves(g) == Outside(g) \/ Enters(g) \/ Writes(g) \/ Fails(g) \/ Refused(g) \/ Shuts(g)

LEMMA QuietSteps ==
  ASSUME TypeOK, Unborn, Server \/ Environment
  PROVE  Quiet
PROOF
<1> USE TaskNames DEF session, pipes, proc, told, Quiet
<1>1. pc \in [Callers \cup {"create", "reader"} -> Labels]
  BY DEF TypeOK
<1>2. CASE Create
  BY <1>1, <1>2 DEF Create, Go, Unborn
<1>3. CASE SpawnFails \/ EmitUp \/ Reply \/ ReadEnd \/ ReapChild \/ KillChild \/ Announce
  BY <1>1, <1>3 DEF SpawnFails, EmitUp, Reply, ReadEnd, ReapChild, KillChild, Exits, Announce, Go
<1>4. CASE StartReader
  BY <1>1, <1>4 DEF StartReader
<1>5. CASE ReadFrame
  BY <1>5 DEF ReadFrame
<1>6. CASE Environment
  BY <1>6 DEF Environment, CoreReads, CoreSends, CoreStalls, CoreEnds, CoreHushes, CoreExits, Exits, HolderExits
<1> QED BY <1>2, <1>3, <1>4, <1>5, <1>6 DEF Server

LEMMA WriterMoves ==
  ASSUME TypeOK, NEW g \in Prompts \cup Commands, Writer(g)
  PROVE  Moves(g)
PROOF
<1> USE TaskNames DEF session, pipes, proc, told, Others, Holding, Early, Dies
<1>1. pc \in [Callers \cup {"create", "reader"} -> Labels] /\ at \in [Callers -> Nat] /\ g \in Callers
  BY DEF TypeOK
<1>2. CASE Refs(g)
  BY <1>1, <1>2 DEF Refs, Go, Moves, Outside
<1>3. CASE Register(g)
  BY <1>1, <1>3 DEF Register, Go, Moves, Outside
<1>4. CASE Check(g)
  BY <1>1, <1>4 DEF Check, Unsent, Go, Moves, Outside
<1>5. CASE Lock(g)
  BY <1>1, <1>5 DEF Lock, Go, Moves, Enters
<1>6. CASE Write(g)
  BY <1>1, <1>6 DEF Write, Go, Moves, Writes, Leaves
<1>7. CASE WriteFails(g)
  BY <1>1, <1>7 DEF WriteFails, Unsent, Go, Moves, Fails, Leaves
<1>8. CASE Forget(g)
  BY <1>1, <1>8 DEF Forget, Go, Moves, Outside
<1>9. CASE Refuse(g)
  BY <1>1, <1>9 DEF Refuse, Go, Moves, Refused
<1> QED BY <1>2, <1>3, <1>4, <1>5, <1>6, <1>7, <1>8, <1>9 DEF Writer, Sends

\* A closer that finds the child taken finds it reaped.
LEMMA TakenIsGone ==
  ASSUME OneCloser, ChildOwned, TypeOK, NEW k \in Closers, TakeChild(k), child # "here"
  PROVE  core = "exited"
PROOF
<1>1. pc[k] = "taking" /\ pc["reader"] # "killing"
  BY DEF TakeChild, Go
<1>2. child # "closer"
  BY <1>1 DEF OneCloser, ChildOwned
<1> QED BY <1>1, <1>2 DEF ChildOwned, TypeOK

LEMMA CloserMoves ==
  ASSUME TypeOK, OneCloser, ChildOwned, NEW k \in Closers, Closer(k)
  PROVE  Moves(k)
PROOF
<1> USE TaskNames DEF session, pipes, proc, told, Others, Holding, Early, Dies
<1>1. pc \in [Callers \cup {"create", "reader"} -> Labels] /\ at \in [Callers -> Nat] /\ k \in Callers
      /\ stdin \in {"open", "closed"}
  BY DEF TypeOK
<1>2. CASE Close(k)
  BY <1>1, <1>2 DEF Close, Go, Moves, Outside
<1>3. CASE TakeChild(k)
  <2>1. CASE child = "here"
    BY <1>1, <1>3, <2>1 DEF TakeChild, Go, Moves, Outside
  <2>2. CASE child # "here"
    <3>1. core = "exited"
      BY <1>3, <2>2, TakenIsGone
    <3> QED BY <1>1, <1>3, <2>2, <3>1 DEF TakeChild, Dropped, Go, Moves, Outside
  <2> QED BY <2>1, <2>2
<1>4. CASE TryLock(k)
  BY <1>1, <1>4 DEF TryLock, Go, Moves, Enters
<1>5. CASE GiveUp(k)
  BY <1>1, <1>5 DEF GiveUp, Go, Moves, Outside
<1>6. CASE Write(k)
  BY <1>1, <1>6 DEF Write, Go, Moves, Writes, Leaves
<1>7. CASE WriteFails(k)
  BY <1>1, <1>7 DEF WriteFails, Go, Moves, Fails, Leaves
<1>8. CASE CloseStdin(k)
  BY <1>1, <1>8 DEF CloseStdin, Go, Moves, Shuts
<1>9. CASE GraceOver(k)
  BY <1>1, <1>9 DEF GraceOver, Go, Moves, Outside
<1>10. CASE SigKill(k)
  BY <1>1, <1>10 DEF SigKill, Exits, Dropped, Go, Moves, Outside
<1> QED BY <1>2, <1>3, <1>4, <1>5, <1>6, <1>7, <1>8, <1>9, <1>10 DEF Closer

LEMMA AnyStep ==
  ASSUME TypeOK, Unborn, OneCloser, ChildOwned, Next
  PROVE  Quiet \/ \E g \in Callers : Moves(g)
PROOF
<1>1. CASE Server \/ Environment
  BY <1>1, QuietSteps
<1>2. CASE \E g \in Prompts \cup Commands : Writer(g)
  BY <1>2, WriterMoves, TaskNames
<1>3. CASE \E k \in Closers : Closer(k)
  BY <1>3, CloserMoves, TaskNames
<1> QED BY <1>1, <1>2, <1>3 DEF Next

(***************************************************************************)
(* The lock and the frames.                                                *)
(***************************************************************************)
LEMMA LockKept ==
  ASSUME MutualExclusion, NEW g \in Callers, Moves(g)
  PROVE  MutualExclusion'
PROOF
<1> USE TaskNames DEF MutualExclusion, Holding, Others
<1>1. CASE Outside(g)
  BY <1>1 DEF Outside
<1>2. CASE Enters(g)
  BY <1>2 DEF Enters
<1>3. CASE Writes(g)
  BY <1>3 DEF Writes, Leaves
<1>4. CASE Fails(g)
  BY <1>4 DEF Fails, Leaves
<1>5. CASE Refused(g)
  BY <1>5 DEF Refused
<1>6. CASE Shuts(g)
  BY <1>6 DEF Shuts
<1> QED BY <1>1, <1>2, <1>3, <1>4, <1>5, <1>6 DEF Moves

\* Only a frame of the writer is added, at the end.
LEMMA Appended ==
  ASSUME TypeOK, NEW g \in Callers, Writes(g)
  PROVE  /\ Len(written') = Len(written) + 1 /\ Len(written) \in Nat
         /\ DOMAIN written = 1..Len(written) /\ DOMAIN written' = 1..Len(written) + 1
         /\ \A i \in DOMAIN written : written'[i] = written[i]
         /\ written'[Len(written) + 1] = <<g, at[g] + 1>>
         /\ InPipe(g)' /\ \A h : h # g => (InPipe(h)' <=> InPipe(h))
PROOF
<1> DEFINE n == Len(written)
           f == <<g, at[g] + 1>>
<1>1. written \in Seq(Frame) /\ f \in Frame /\ written' = Append(written, f)
  BY DEF TypeOK, Writes, Frame
<1>2. f[1] = g
  OBVIOUS
<1>3. /\ Len(written') = n + 1 /\ n \in Nat /\ DOMAIN written = 1..n /\ DOMAIN written' = 1..n + 1
      /\ \A i \in 1..n : written'[i] = written[i]
      /\ written'[n + 1] = f
  <2> HIDE DEF f
  <2> QED BY <1>1
<1> HIDE DEF n, f
<1>4. InPipe(g)'
  BY <1>2, <1>3 DEF InPipe
<1>5. \A h : h # g => (InPipe(h)' <=> InPipe(h))
  BY <1>2, <1>3 DEF InPipe
<1> QED BY <1>3, <1>4, <1>5 DEF n, f

LEMMA FreshKept ==
  ASSUME TypeOK, Fresh, NEW g \in Callers, Moves(g)
  PROVE  Fresh'
PROOF
<1> USE DEF Fresh, Others, Early
<1>1. CASE Writes(g)
  <2>1. \A h : h # g => (InPipe(h)' <=> InPipe(h))
    BY <1>1, Appended
  <2>2. pc'[g] \notin Early
    BY <1>1 DEF Writes, Leaves
  <2>3. \A h \in Callers : h # g => pc'[h] = pc[h] /\ at'[h] = at[h]
    BY <1>1 DEF Writes
  <2> QED BY <2>1, <2>2, <2>3
<1>2. CASE ~Writes(g)
  <2>1. written' = written
    BY <1>2 DEF Moves, Outside, Enters, Fails, Refused, Shuts
  <2>2. \A h : InPipe(h)' <=> InPipe(h)
    BY <2>1 DEF InPipe
  <2>3. pc'[g] \in Early => pc[g] \in Early /\ at'[g] = at[g]
    BY <1>2 DEF Moves, Outside, Enters, Fails, Refused, Shuts, Leaves
  <2>4. \A h \in Callers : h # g => pc'[h] = pc[h] /\ at'[h] = at[h]
    BY <1>2 DEF Moves, Outside, Enters, Fails, Refused, Shuts
  <2> QED BY <2>2, <2>3, <2>4
<1> QED BY <1>1, <1>2

\* A caller that was not inside before comes in with nothing in the pipe.
LEMMA InsideBefore ==
  ASSUME Fresh, NEW g \in Callers, Moves(g), NEW h \in Callers, Holding(h)'
  PROVE  Holding(h) \/ ~InPipe(h)
PROOF
  BY DEF Fresh, Early, Moves, Outside, Enters, Writes, Fails, Refused, Shuts, Leaves, Others, Holding

LEMMA LastMineKept ==
  ASSUME TypeOK, MutualExclusion, Fresh, LastMine, NEW g \in Callers, Moves(g)
  PROVE  LastMine'
PROOF
<1> SUFFICES ASSUME NEW h \in Callers, Holding(h)',
                    NEW i \in DOMAIN written', NEW j \in DOMAIN written', i <= j,
                    written'[i][1] = h
             PROVE  written'[j][1] = h
  BY DEF LastMine
<1>1. CASE Writes(g)
  <2> DEFINE n == Len(written)
  <2>1. /\ n \in Nat /\ DOMAIN written = 1..n /\ DOMAIN written' = 1..n + 1
        /\ \A m \in 1..n : written'[m] = written[m]
        /\ written'[n + 1][1] = g
    BY <1>1, Appended
  <2> HIDE DEF n
  <2>2. h = g
    <3>1. Holding(g)
      BY <1>1 DEF Writes, Holding
    <3>2. lock = g
      BY <3>1 DEF MutualExclusion
    <3>3. h # g => Holding(h)
      BY <1>1 DEF Writes, Others, Holding
    <3> QED BY <3>2, <3>3 DEF MutualExclusion
  <2>3. Holding(g)
    BY <1>1 DEF Writes, Holding
  <2>4. CASE j = n + 1
    BY <2>1, <2>2, <2>4
  <2>5. CASE j # n + 1
    BY <2>1, <2>2, <2>3, <2>5 DEF LastMine
  <2> QED BY <2>4, <2>5
<1>2. CASE ~Writes(g)
  <2>1. written' = written
    BY <1>2 DEF Moves, Outside, Enters, Fails, Refused, Shuts
  <2>2. InPipe(h)
    BY <2>1 DEF InPipe
  <2>3. Holding(h)
    BY <2>2, InsideBefore
  <2> QED BY <2>1, <2>3 DEF LastMine
<1> QED BY <1>1, <1>2

LEMMA TogetherKept ==
  ASSUME TypeOK, LastMine, FramesTogether, NEW g \in Callers, Moves(g)
  PROVE  FramesTogether'
PROOF
<1>1. CASE Writes(g)
  <2> DEFINE n == Len(written)
  <2>1. /\ n \in Nat /\ DOMAIN written = 1..n /\ DOMAIN written' = 1..n + 1
        /\ \A m \in 1..n : written'[m] = written[m]
        /\ written'[n + 1][1] = g
    BY <1>1, Appended
  <2> HIDE DEF n
  <2>2. Holding(g)
    BY <1>1 DEF Writes, Holding
  <2>3. ASSUME NEW i \in 1..n + 1, NEW k \in 1..n + 1, i <= k,
               written'[i][1] = written'[k][1], NEW j \in i..k
        PROVE  written'[j][1] = written'[i][1]
    <3>1. CASE k \in 1..n
      <4>1. i \in 1..n /\ j \in 1..n
        BY <2>1, <2>3, <3>1
      <4>2. written[i][1] = written[k][1]
        BY <2>1, <2>3, <3>1, <4>1
      <4>3. written[j][1] = written[i][1]
        BY <2>1, <2>3, <3>1, <4>1, <4>2 DEF FramesTogether
      <4> QED BY <2>1, <4>1, <4>3
    <3>2. CASE k = n + 1 /\ i \in 1..n
      <4>1. written[i][1] = g
        BY <2>1, <2>3, <3>2
      <4>2. CASE j = n + 1
        BY <2>1, <2>3, <3>2, <4>2
      <4>3. CASE j # n + 1
        BY <2>1, <2>2, <2>3, <3>2, <4>1, <4>3 DEF LastMine
      <4> QED BY <4>2, <4>3
    <3>3. CASE i = n + 1
      BY <2>1, <2>3, <3>3
    <3> QED BY <2>1, <3>1, <3>2, <3>3
  <2> QED BY <2>1, <2>3 DEF FramesTogether
<1>2. CASE ~Writes(g)
  <2>1. written' = written
    BY <1>2 DEF Moves, Outside, Enters, Fails, Refused, Shuts
  <2> QED BY <2>1 DEF FramesTogether
<1> QED BY <1>1, <1>2

LEMMA WholeKept ==
  ASSUME TypeOK, MutualExclusion, Fresh, Whole, NEW g \in Callers, Moves(g)
  PROVE  Whole'
PROOF
<1> SUFFICES ASSUME NEW p \in Prompts, InPipe(p)',
                    ~ \E j \in DOMAIN written' : written'[j] = <<p, Parts>>,
                    core' # "exited", pc'[p] # "refused"
             PROVE  pc'[p] = "locked" /\ stdin' = "open"
  BY DEF Whole
<1>0. p \in Callers /\ p \notin Commands /\ p \notin Closers /\ core' = core
      /\ pc \in [Callers \cup {"create", "reader"} -> Labels]
  BY TaskNames DEF TypeOK, Moves, Outside, Dies, Enters, Writes, Fails, Refused, Shuts
<1>00. pc[p] # "refused"
  BY <1>0 DEF Moves, Outside, Enters, Writes, Fails, Refused, Shuts, Others
<1>1. CASE Writes(g)
  <2>1. g # p => Holding(g) /\ lock = g
    BY <1>1 DEF Writes, Holding, MutualExclusion
  <2>2. CASE g = p
    <3>1. ~Last(p)
      <4>1. /\ Len(written) + 1 \in DOMAIN written'
            /\ written'[Len(written) + 1] = <<p, at[p] + 1>>
        BY <1>1, <2>2, Appended
      <4>2. <<p, at[p] + 1>> # <<p, Parts>>
        BY <4>1
      <4>3. Batch(p) = Parts
        BY DEF Batch
      <4> QED BY <4>2, <4>3 DEF Last
    <3> QED BY <1>1, <2>2, <3>1 DEF Writes, Broken, TypeOK
  <2>3. CASE g # p
    <3>1. InPipe(p) /\ ~ \E j \in DOMAIN written : written[j] = <<p, Parts>>
      BY <1>1, <2>3, Appended
    <3>2. pc[p] = "locked"
      BY <1>0, <1>00, <3>1 DEF Whole
    <3> QED BY <1>0, <2>1, <2>3, <3>2 DEF MutualExclusion, Holding
  <2> QED BY <2>2, <2>3
<1>2. CASE ~Writes(g)
  <2>1. written' = written
    BY <1>2 DEF Moves, Outside, Enters, Fails, Refused, Shuts
  <2>2. InPipe(p) /\ ~ \E j \in DOMAIN written : written[j] = <<p, Parts>>
    BY <2>1 DEF InPipe
  <2>3. pc[p] = "locked" /\ stdin = "open" /\ Holding(p) /\ lock = p
    BY <1>0, <1>00, <2>2 DEF Whole, Holding, MutualExclusion
  <2>4. CASE Outside(g)
    BY <2>3, <2>4, <1>0 DEF Outside, Others, Dies
  <2>5. CASE Enters(g)
    BY <2>3, <2>5, <1>0, TaskNames DEF Enters
  <2>7. CASE Fails(g)
    <3>1. ~Broken
      BY <1>0, <2>3 DEF Broken
    <3> QED BY <2>7, <3>1 DEF Fails
  <2>6. CASE Refused(g)
    BY <2>3, <2>6, <1>0 DEF Refused, Others, Holding, MutualExclusion
  <2>8. CASE Shuts(g)
    BY <2>3, <2>8, <1>0 DEF Shuts, MutualExclusion, Holding
  <2> QED BY <1>2, <2>4, <2>5, <2>6, <2>7, <2>8 DEF Moves
<1> QED BY <1>1, <1>2

LEMMA CountedKept ==
  ASSUME TypeOK, MutualExclusion, Fresh, Counted, NEW g \in Callers, Moves(g)
  PROVE  Counted'
PROOF
<1> SUFFICES ASSUME NEW k \in Closers
             PROVE  /\ pc'[k] = "locked" => at'[k] \in {0, 1}
                    /\ pc'[k] = "eof" => at'[k] = 2
                    /\ Holding(k)' /\ ~Broken' =>
                         /\ at'[k] <= Len(written')
                         /\ at'[k] >= 1 => written'[Len(written') - at'[k] + 1] = <<k, 1>>
                         /\ at'[k] >= 2 => written'[Len(written')] = <<k, 2>>
  BY DEF Counted
<1>0. /\ k \in Callers /\ k \notin Prompts /\ k \notin Commands /\ Batch(k) = 2
      /\ written \in Seq(Frame) /\ Len(written) \in Nat /\ at[k] \in Nat
  BY TaskNames DEF TypeOK, Batch
<1>1. CASE g # k
  <2>1. pc'[k] = pc[k] /\ at'[k] = at[k]
    BY <1>0, <1>1 DEF Moves, Outside, Enters, Writes, Fails, Refused, Shuts, Others
  <2>2. Holding(k)' => Holding(k) /\ ~Writes(g) /\ ~Shuts(g)
    BY <1>0, <1>1, <2>1 DEF MutualExclusion, Holding, Writes, Shuts
  <2>3. Holding(k)' => written' = written /\ (Broken => Broken')
    BY <2>2 DEF Moves, Outside, Dies, Enters, Fails, Refused, Broken
  <2>4. CASE ~Holding(k)'
    <3>1. ~Holding(k)
      BY <1>0, <1>1, <2>1, <2>4 DEF Holding
    <3>2. pc[k] = "locked" => Holding(k)
      BY DEF Holding
    <3> QED BY <2>1, <2>4, <3>1, <3>2 DEF Counted, Holding
  <2>5. CASE Holding(k)'
    <3>1. Holding(k) /\ written' = written /\ (~Broken' => ~Broken)
      BY <2>2, <2>3, <2>5
    <3>2. /\ pc[k] = "locked" => at[k] \in {0, 1}
          /\ pc[k] = "eof" => at[k] = 2
      BY DEF Counted
    <3>3. ~Broken => /\ at[k] <= Len(written)
                     /\ at[k] >= 1 => written[Len(written) - at[k] + 1] = <<k, 1>>
                     /\ at[k] >= 2 => written[Len(written)] = <<k, 2>>
      BY <3>1 DEF Counted
    <3>4. /\ pc'[k] = "locked" => at'[k] \in {0, 1}
          /\ pc'[k] = "eof" => at'[k] = 2
      BY <2>1, <3>2
    <3>5. CASE ~Broken
      <4>1. /\ at'[k] <= Len(written')
            /\ at'[k] >= 1 => written'[Len(written') - at'[k] + 1] = <<k, 1>>
            /\ at'[k] >= 2 => written'[Len(written')] = <<k, 2>>
        BY <2>1, <3>1, <3>3, <3>5
      <4> QED BY <3>4, <4>1
    <3>6. CASE Broken
      <4>1. Broken'
        BY <3>1, <3>6
      <4> QED BY <3>4, <4>1
    <3> QED BY <3>5, <3>6
  <2> QED BY <2>4, <2>5
<1>2. CASE g = k
  <2>1. CASE Outside(k)
    BY <2>1 DEF Outside, Holding
  <2>2. CASE Enters(k)
    <3>1. pc[k] \in {"locking", "trying"} /\ pc'[k] = "locked" /\ at'[k] = at[k]
      BY <2>2 DEF Enters
    <3>2. at[k] = 0 /\ written' = written
      BY <1>0, <2>2, <3>1 DEF Fresh, Early, Enters
    <3> QED BY <1>0, <3>1, <3>2
  <2>4. CASE Writes(k)
    <3>1. Holding(k) /\ ~Broken /\ at[k] \in {0, 1} /\ at'[k] = at[k] + 1
      BY <1>0, <2>4 DEF Writes, Counted, Holding
    <3>2. at[k] <= Len(written) /\ (at[k] >= 1 => written[Len(written) - at[k] + 1] = <<k, 1>>)
      BY <3>1 DEF Counted
    <3>3. /\ Len(written') = Len(written) + 1
          /\ \A i \in 1..Len(written) : written'[i] = written[i]
          /\ written'[Len(written) + 1] = <<k, at[k] + 1>>
      BY <1>0, <2>4, Appended
    <3>4. Last(k) <=> at[k] = 1
      BY <1>0, <3>1 DEF Last
    <3>5. IF at[k] = 1 THEN pc'[k] = "eof" ELSE pc'[k] = "locked"
      BY <2>4, <3>4 DEF Writes, Leaves
    <3>6. CASE at[k] = 0
      BY <1>0, <3>1, <3>3, <3>5, <3>6
    <3>7. CASE at[k] = 1
      BY <1>0, <3>1, <3>2, <3>3, <3>5, <3>7
    <3> QED BY <3>1, <3>6, <3>7
  <2>5. CASE Fails(k)
    <3>1. Broken' /\ at[k] \in {0, 1} /\ at'[k] = at[k] + 1
      BY <1>0, <2>5 DEF Fails, Counted, Broken
    <3>2. Last(k) <=> at[k] = 1
      BY <1>0, <3>1 DEF Last
    <3>3. IF at[k] = 1 THEN pc'[k] = "eof" ELSE pc'[k] = "locked"
      BY <2>5, <3>2 DEF Fails, Leaves
    <3> QED BY <3>1, <3>3
  <2>6. CASE Shuts(k)
    BY <2>6 DEF Shuts, Holding
  <2> QED BY <1>2, <2>1, <2>2, <2>4, <2>5, <2>6 DEF Moves, Refused
<1> QED BY <1>1, <1>2

LEMMA CancelSaveKept ==
  ASSUME TypeOK, Counted, CancelSaveEOF, NEW g \in Callers, Moves(g)
  PROVE  CancelSaveEOF'
PROOF
<1>1. CASE Shuts(g)
  <2>1. g \in Closers /\ pc[g] = "eof" /\ written' = written /\ core' = core
    BY <1>1 DEF Shuts
  <2>2. Holding(g) /\ at[g] = 2
    BY <2>1 DEF Holding, Counted
  <2>3. CASE ~Broken
    <3>1. Len(written) >= 2 /\ written[Len(written) - 1] = <<g, 1>> /\ written[Len(written)] = <<g, 2>>
      <4>1. Len(written) \in Nat
        BY DEF TypeOK
      <4>2. 2 <= Len(written) /\ written[Len(written) - 2 + 1] = <<g, 1>> /\ written[Len(written)] = <<g, 2>>
        BY <2>1, <2>2, <2>3 DEF Counted
      <4>3. Len(written) - 2 + 1 = Len(written) - 1
        BY <4>1
      <4> QED BY <4>1, <4>2, <4>3
    <3> QED BY <2>1, <3>1 DEF CancelSaveEOF
  <2>4. CASE Broken
    BY <2>1, <2>4 DEF CancelSaveEOF, Broken
  <2> QED BY <2>3, <2>4
<1>2. CASE Writes(g)
  BY <1>2 DEF Writes, Broken, CancelSaveEOF
<1>3. CASE ~Shuts(g) /\ ~Writes(g)
  <2>1. written' = written /\ (core' # "exited" => stdin' = stdin /\ core' = core)
    BY <1>3 DEF Moves, Outside, Dies, Enters, Fails, Refused
  <2> QED BY <2>1 DEF CancelSaveEOF
<1> QED BY <1>1, <1>2, <1>3

LEMMA QuietKept ==
  ASSUME Unborn, MutualExclusion, Fresh, LastMine, FramesTogether, Whole, Counted, CancelSaveEOF, Quiet
  PROVE  /\ MutualExclusion' /\ Fresh' /\ LastMine' /\ FramesTogether'
         /\ Whole' /\ Counted' /\ CancelSaveEOF'
PROOF
<1> USE TaskNames
<1>1. \A h : InPipe(h)' <=> InPipe(h)
  BY DEF Quiet, InPipe
<1>2. MutualExclusion' /\ LastMine' /\ FramesTogether'
  BY DEF Quiet, MutualExclusion, LastMine, FramesTogether, Holding
<1>3. Fresh'
  BY <1>1 DEF Quiet, Fresh, Early
<1>4. Whole'
  BY <1>1 DEF Quiet, Whole
<1>5. Broken => Broken'
  BY DEF Quiet, Broken
<1>6. Counted'
  BY <1>5 DEF Quiet, Counted, Holding
<1>7. CancelSaveEOF'
  BY DEF Quiet, CancelSaveEOF
<1> QED BY <1>2, <1>3, <1>4, <1>6, <1>7

(***************************************************************************)
(* Who may close, who reaps, and what was said.                            *)
(***************************************************************************)
LEMMA UnbornKept ==
  ASSUME TypeOK, Unborn, Told, Next
  PROVE  Unborn'
PROOF
<1> USE TaskNames DEF session, pipes, proc, told
<1> SUFFICES ASSUME pc'["create"] = "spawn"
             PROVE  core' = "none" /\ ~mapped' /\ child' = "here" /\ written' = <<>> /\ \A g \in Callers : pc'[g] = "call"
  BY DEF Unborn
<1>0. pc \in [Callers \cup {"create", "reader"} -> Labels]
  BY DEF TypeOK
<1>1. CASE Server
  <2>1. CASE Create \/ SpawnFails \/ EmitUp \/ StartReader \/ Reply
    BY <1>0, <2>1 DEF Create, SpawnFails, EmitUp, StartReader, Reply, Go
  <2>2. CASE ReadFrame \/ ReadEnd \/ ReapChild \/ KillChild \/ Announce
    BY <1>0, <2>2 DEF ReadFrame, ReadEnd, ReapChild, KillChild, Announce, Go, Unborn, Told
  <2> QED BY <1>1, <2>1, <2>2 DEF Server
<1>2. CASE \E g \in Prompts \cup Commands : Writer(g)
  BY <1>0, <1>2 DEF Writer, Sends, Refs, Register, Check, Lock, Write, WriteFails, Refuse, Forget, Go, Known, Unborn
<1>3. CASE \E k \in Closers : Closer(k)
  BY <1>0, <1>3 DEF Closer, Close, TakeChild, TryLock, GiveUp, Write, WriteFails, CloseStdin, GraceOver,
      SigKill, Go, Known, Unborn
<1>4. CASE Environment
  BY <1>0, <1>4 DEF Environment, CoreReads, CoreSends, CoreStalls, CoreEnds, CoreHushes, CoreExits,
      HolderExits, Unborn
<1> QED BY <1>1, <1>2, <1>3, <1>4 DEF Next

\* Where a closer comes from, and what it leaves.
LEMMA CloserPath ==
  ASSUME TypeOK, NEW c \in Closers, Closer(c)
  PROVE  /\ \A g \in Callers \cup {"create", "reader"} : g # c => pc'[g] = pc[g]
         /\ \/ pc[c] = "call" /\ ~mapped' /\ pc'[c] = (IF mapped THEN "taking" ELSE "failed") /\ child' = child
            \/ /\ pc[c] = "taking" /\ mapped' = mapped
               /\ IF child = "here" THEN child' = "closer" /\ pc'[c] = "trying" ELSE child' = child /\ pc'[c] = "ok"
            \/ /\ pc[c] \notin {"call", "failed", "taking"} /\ pc'[c] \notin {"call", "failed", "taking"}
               /\ mapped' = mapped /\ child' = child
         /\ core = "exited" => core' = "exited"
PROOF
<1> USE TaskNames DEF session, pipes, proc, told
<1>0. pc \in [Callers \cup {"create", "reader"} -> Labels]
  BY DEF TypeOK
<1>1. CASE Close(c)
  BY <1>0, <1>1 DEF Close, Go
<1>2. CASE TakeChild(c)
  BY <1>0, <1>2 DEF TakeChild, Go
<1>3. CASE TryLock(c) \/ GiveUp(c) \/ CloseStdin(c) \/ GraceOver(c) \/ SigKill(c)
  BY <1>0, <1>3 DEF TryLock, GiveUp, CloseStdin, GraceOver, SigKill, Exits, Go
<1>4. CASE Write(c) \/ WriteFails(c)
  BY <1>0, <1>4 DEF Write, WriteFails, Go
<1> QED BY <1>1, <1>2, <1>3, <1>4 DEF Closer

\* A writer concerns neither the map, nor the child, nor a closer.
LEMMA WriterPath ==
  ASSUME TypeOK, NEW g \in Prompts \cup Commands, Writer(g)
  PROVE  /\ \A h \in Callers \cup {"create", "reader"} : h # g => pc'[h] = pc[h]
         /\ UNCHANGED <<mapped, child, core>>
PROOF
<1>0. pc \in [Callers \cup {"create", "reader"} -> Labels]
  BY DEF TypeOK
<1> QED BY <1>0 DEF Writer, Sends, Refs, Register, Check, Lock, Write, WriteFails, Refuse, Forget, Go, session, pipes, proc, told

LEMMA EnvironmentPath ==
  ASSUME Environment
  PROVE  UNCHANGED <<pc, mapped, child>> /\ (core = "exited" => core' = "exited")
PROOF
  BY DEF Environment, CoreReads, CoreSends, CoreStalls, CoreEnds, CoreHushes, CoreExits,
      HolderExits, Exits, session, pipes, proc, told

\* The steps of create and of the reader.
LEMMA ServerPath ==
  ASSUME TypeOK, Told, Server
  PROVE  \/ Create
         \/ UNCHANGED <<mapped, child, core>> /\ (pc["reader"] = "killing" => pc'["reader"] = "killing")
         \/ ReapChild \/ KillChild
PROOF
<1>0. pc \in [Callers \cup {"create", "reader"} -> Labels]
  BY DEF TypeOK
<1> QED BY <1>0, TaskNames DEF Server, SpawnFails, EmitUp, StartReader, Reply, ReadFrame, ReadEnd, Announce,
      Go, Told, session, pipes, proc, told

LEMMA OneCloserKept ==
  ASSUME TypeOK, Unborn, OneCloser, Next
  PROVE  OneCloser'
PROOF
<1> USE TaskNames DEF session, pipes, proc, told
<1>0. pc \in [Callers \cup {"create", "reader"} -> Labels]
  BY DEF TypeOK
<1> DEFINE Closing(k) == pc[k] \notin {"call", "failed"}
<1>1. \A k \in Closers : Closing(k) => ~mapped /\ \A j \in Closers : Closing(j) => j = k
  BY DEF OneCloser
<1> SUFFICES ASSUME NEW k \in Closers, Closing(k)'
             PROVE  ~mapped' /\ \A j \in Closers : Closing(j)' => j = k
  BY DEF OneCloser
<1>2. CASE Server
  <2>1. CASE Create
    BY <1>0, <2>1 DEF Create, Go, Unborn
  <2>2. CASE ~Create
    <3>1. mapped' = mapped
      BY <1>2, <2>2 DEF Server, SpawnFails, EmitUp, StartReader, Reply, ReadFrame, ReadEnd, ReapChild,
        KillChild, Announce
    <3>2. \A j \in Closers : pc'[j] = pc[j]
      <4>1. Quiet
        BY <1>2, QuietSteps
      <4> QED BY <4>1 DEF Quiet
    <3> QED BY <1>1, <3>1, <3>2
  <2> QED BY <2>1, <2>2
<1>3. CASE \E g \in Prompts \cup Commands : Writer(g)
  <2> PICK g \in Prompts \cup Commands : Writer(g)
    BY <1>3
  <2>1. mapped' = mapped /\ \A j \in Closers : pc'[j] = pc[j]
    BY WriterPath
  <2> QED BY <1>1, <2>1
<1>4. CASE \E c \in Closers : Closer(c)
  <2> PICK c \in Closers : Closer(c)
    BY <1>4
  <2>1. \A j \in Closers : j # c => pc'[j] = pc[j]
    BY CloserPath
  <2>2. CASE pc[c] = "call"
    <3>1. ~mapped' /\ pc'[c] = IF mapped THEN "taking" ELSE "failed"
      BY <2>2, CloserPath
    <3> QED BY <1>1, <2>1, <3>1
  <2>3. CASE pc[c] # "call"
    <3>1. mapped' = mapped /\ Closing(c)
      BY <2>3, CloserPath
    <3> QED BY <1>1, <2>1, <3>1
  <2> QED BY <2>2, <2>3
<1>5. CASE Environment
  BY <1>1, <1>5, EnvironmentPath
<1> QED BY <1>2, <1>3, <1>4, <1>5 DEF Next

LEMMA ChildOwnedKept ==
  ASSUME TypeOK, Unborn, OneCloser, ChildOwned, Told, Next
  PROVE  ChildOwned'
PROOF
<1> USE TaskNames
<1>0. pc \in [Callers \cup {"create", "reader"} -> Labels]
  BY DEF TypeOK
<1>1. CASE Server
  <2>0. \A k \in Closers : pc'[k] = pc[k]
    <3>1. Quiet
      BY <1>1, QuietSteps
    <3> QED BY <3>1 DEF Quiet
  <2>1. CASE Create
    BY <1>0, <2>1 DEF Create, Go, Unborn, ChildOwned, session, pipes, proc, told
  <2>2. CASE ReapChild
    <3>1. pc["reader"] = "reaping" /\ UNCHANGED core
          /\ IF child = "here" THEN pc'["reader"] = "killing" /\ child' = "reader" ELSE child' = child
      BY <1>0, <2>2 DEF ReapChild, Go, session, pipes, proc, told
    <3> QED BY <2>0, <3>1 DEF ChildOwned
  <2>3. CASE KillChild
    <3>1. core' = "exited" /\ child' = child
      BY <2>3 DEF KillChild, Exits, session, pipes, proc, told
    <3> QED BY <2>0, <3>1 DEF ChildOwned
  <2>4. CASE ~Create /\ ~ReapChild /\ ~KillChild
    <3>1. UNCHANGED <<child, core>> /\ (pc["reader"] = "killing" => pc'["reader"] = "killing")
      BY <1>1, <2>4, ServerPath
    <3> QED BY <2>0, <3>1 DEF ChildOwned
  <2> QED BY <2>1, <2>2, <2>3, <2>4
<1>2. CASE \E g \in Prompts \cup Commands : Writer(g)
  BY <1>2, WriterPath DEF ChildOwned
<1>3. CASE \E c \in Closers : Closer(c)
  <2> PICK c \in Closers : Closer(c)
    BY <1>3
  <2>1. \A g \in Callers \cup {"create", "reader"} : g # c => pc'[g] = pc[g]
    BY CloserPath
  <2>2. core = "exited" => core' = "exited"
    BY CloserPath
  <2>3. CASE pc[c] = "taking" /\ child = "here"
    <3>1. child' = "closer" /\ pc'[c] = "trying"
      BY <2>3, CloserPath
    <3> QED BY <3>1 DEF ChildOwned
  <2>4. CASE ~(pc[c] = "taking" /\ child = "here")
    <3>1. child' = child
      BY <2>4, CloserPath
    <3>2. pc[c] \notin {"call", "failed", "taking"} => pc'[c] \notin {"call", "failed", "taking"}
      BY CloserPath
    <3> QED BY <2>1, <2>2, <3>1, <3>2 DEF ChildOwned
  <2> QED BY <2>3, <2>4
<1>4. CASE Environment
  BY <1>4, EnvironmentPath DEF ChildOwned
<1> QED BY <1>1, <1>2, <1>3, <1>4 DEF Next

LEMMA ClosedMeansGoneKept ==
  ASSUME TypeOK, Unborn, OneCloser, ChildOwned, ClosedMeansGone, Told, Next
  PROVE  ClosedMeansGone'
PROOF
<1> USE TaskNames
<1>0. pc \in [Callers \cup {"create", "reader"} -> Labels]
  BY DEF TypeOK
<1> SUFFICES ASSUME NEW k \in Closers, pc'[k] = "ok"
             PROVE  core' = "exited" /\ ~mapped'
  BY DEF ClosedMeansGone
<1>1. CASE pc[k] = "ok"
  <2>1. core = "exited" /\ ~mapped
    BY <1>1 DEF ClosedMeansGone
  <2>2. CASE Server
    <3>1. ~Create
      BY <2>1, <1>1 DEF Create, Go, Unborn
    <3>2. core' = "exited"
      <4>1. Quiet
        BY <2>2, QuietSteps
      <4> QED BY <2>1, <4>1 DEF Quiet
    <3>3. mapped' = mapped
      BY <2>2, <3>1, ServerPath DEF ReapChild, KillChild, session
    <3> QED BY <2>1, <3>2, <3>3
  <2>3. CASE \E g \in Prompts \cup Commands : Writer(g)
    BY <2>1, <2>3, WriterPath
  <2>4. CASE \E c \in Closers : Closer(c)
    BY <2>1, <2>4, CloserPath
  <2>5. CASE Environment
    BY <2>1, <2>5, EnvironmentPath
  <2> QED BY <2>2, <2>3, <2>4, <2>5 DEF Next
<1>2. CASE pc[k] # "ok"
  <2>1. Closer(k)
    <3>1. CASE Server
      <4>1. Quiet
        BY <3>1, QuietSteps
      <4> QED BY <1>2, <4>1 DEF Quiet
    <3>2. CASE \E g \in Prompts \cup Commands : Writer(g)
      BY <1>2, <3>2, WriterPath
    <3>3. CASE \E c \in Closers : Closer(c)
      BY <1>2, <3>3, CloserPath
    <3>4. CASE Environment
      BY <1>2, <3>4, EnvironmentPath
    <3> QED BY <3>1, <3>2, <3>3, <3>4 DEF Next
  <2>2. pc[k] \notin {"call", "failed"} /\ ~mapped'
    <3>1. pc[k] \notin {"call", "failed"} /\ mapped' = mapped
      BY <2>1, CloserPath
    <3> QED BY <3>1 DEF OneCloser
  <2>3. CASE TakeChild(k)
    <3>1. child # "here"
      BY <1>0, <2>3 DEF TakeChild, Go
    <3>2. core = "exited"
      BY <2>3, <3>1, TakenIsGone
    <3> QED BY <2>2, <2>3, <3>2 DEF TakeChild, proc
  <2>4. CASE SigKill(k)
    BY <2>2, <2>4 DEF SigKill, Exits
  <2>5. CASE GraceOver(k)
    <3>1. core = "exited"
      BY <1>0, <2>5 DEF GraceOver, Go
    <3> QED BY <2>2, <2>5, <3>1 DEF GraceOver, proc
  <2>6. ~(Close(k) \/ TryLock(k) \/ GiveUp(k) \/ Write(k) \/ WriteFails(k) \/ CloseStdin(k))
    BY <1>0 DEF Close, TryLock, GiveUp, Write, WriteFails, CloseStdin, Go
  <2> QED BY <2>1, <2>3, <2>4, <2>5, <2>6 DEF Closer
<1> QED BY <1>1, <1>2

\* What an event makes of what was said before.
LEMMA Both ==
  Append(<<>>, "up") = <<"up">> /\ Append(<<"up">>, "down") = <<"up", "down">>
PROOF
<1> DEFINE s == Append(<<"up">>, "down")
           t == <<"up", "down">>
           S == {"up", "down"}
<1>1. s \in Seq(S) /\ Len(s) = 2 /\ s[1] = "up" /\ s[2] = "down"
  OBVIOUS
<1>2. t \in Seq(S) /\ Len(t) = 2 /\ t[1] = "up" /\ t[2] = "down"
  OBVIOUS
<1> HIDE DEF s, t, S
<1>3. \A i \in 1..2 : s[i] = t[i]
  BY <1>1, <1>2
<1>4. s = t
  BY <1>1, <1>2, <1>3, SeqEqual
<1>5. Append(<<>>, "up") = <<"up">>
  OBVIOUS
<1> QED BY <1>4, <1>5 DEF s, t

LEMMA ToldKept ==
  ASSUME TypeOK, Told, Next
  PROVE  Told'
PROOF
<1> USE TaskNames DEF session, pipes, proc, told
<1>0. pc \in [Callers \cup {"create", "reader"} -> Labels] /\ announced \in BOOLEAN
  BY DEF TypeOK
<1>1. Append(<<>>, "up") = <<"up">> /\ Append(<<"up">>, "down") = <<"up", "down">>
  BY Both
<1>2. CASE Create \/ SpawnFails \/ Reply
  BY <1>0, <1>2 DEF Create, SpawnFails, Reply, Go, Told
<1>3. CASE EmitUp
  BY <1>0, <1>1, <1>3 DEF EmitUp, Go, Told
<1>4. CASE StartReader
  BY <1>0, <1>4 DEF StartReader, Told
<1>5. CASE ReadFrame
  <2>1. pc' = pc /\ pc["create"] \in {"reply", "done"}
    BY <1>5 DEF ReadFrame, Told
  <2>2. CASE Head(stdout) = Closed /\ ~announced
    <3>1. said = <<"up">> /\ announced' = TRUE /\ said' = Append(said, "down")
      BY <1>5, <2>1, <2>2 DEF ReadFrame, Told
    <3> QED BY <1>1, <2>1, <3>1 DEF Told
  <2>3. CASE ~(Head(stdout) = Closed /\ ~announced)
    <3>1. (announced' <=> announced) /\ said' = said
      BY <1>5, <2>3 DEF ReadFrame
    <3> QED BY <2>1, <3>1 DEF Told
  <2> QED BY <2>2, <2>3
<1>6. CASE ReadEnd \/ ReapChild \/ KillChild
  BY <1>0, <1>6 DEF ReadEnd, ReapChild, KillChild, Go, Told
<1>7. CASE Announce
  <2>1. /\ pc["reader"] = "announcing" /\ pc' = [pc EXCEPT !["reader"] = "done"] /\ announced' = TRUE
        /\ said' = IF announced THEN said ELSE Append(said, "down")
    BY <1>7 DEF Announce, Go
  <2>2. pc["create"] \in {"reply", "done"} /\ pc'["create"] = pc["create"] /\ pc'["reader"] = "done"
    BY <1>0, <2>1 DEF Told
  <2>3. said = IF announced THEN <<"up", "down">> ELSE <<"up">>
    BY <2>2 DEF Told
  <2>4. said' = <<"up", "down">>
    BY <1>0, <1>1, <2>1, <2>3
  <2> QED BY <2>1, <2>2, <2>4 DEF Told
<1>8. CASE \E g \in Prompts \cup Commands : Writer(g)
  BY <1>0, <1>8 DEF Writer, Sends, Refs, Register, Check, Lock, Write, WriteFails, Refuse, Forget, Go, Told
<1>9. CASE \E k \in Closers : Closer(k)
  BY <1>0, <1>9 DEF Closer, Close, TakeChild, TryLock, GiveUp, Write, WriteFails, CloseStdin, GraceOver,
      SigKill, Go, Told
<1>10. CASE Environment
  BY <1>10 DEF Environment, CoreReads, CoreSends, CoreStalls, CoreEnds, CoreHushes, CoreExits,
      HolderExits, Told
<1> QED BY <1>2, <1>3, <1>4, <1>5, <1>6, <1>7, <1>8, <1>9, <1>10 DEF Next, Server

(***************************************************************************)
(* The invariant, and what follows from it.                                *)
(***************************************************************************)
LEMMA Begins ==
  ASSUME Init
  PROVE  IInv
PROOF
<1> USE TaskNames DEF Init
<1>1. TypeOK
  <2>1. pc \in [Callers \cup {"create", "reader"} -> Labels]
    BY DEF Labels
  <2>2. pending \in Seq(Frame) /\ Len(pending) <= MaxPending /\ frames \in 0..MaxFrames
    BY PipeAssumption
  <2>3. /\ written \in Seq(Frame) /\ read \in 0..Len(written)
        /\ stdout \in Seq(Sent) /\ said \in Seq({"up", "down"})
    OBVIOUS
  <2> QED BY <2>1, <2>2, <2>3 DEF TypeOK
<1>2. \A g \in Callers : pc[g] = "call" /\ at[g] = 0 /\ lock # g
  OBVIOUS
<1>3. \A g : ~InPipe(g)
  BY DEF InPipe
<1>4. Unborn /\ Told
  BY <1>2 DEF Unborn, Told
<1>5. MutualExclusion /\ Fresh /\ LastMine /\ FramesTogether
  BY <1>2, <1>3 DEF MutualExclusion, Fresh, LastMine, FramesTogether, Holding
<1>6. Whole /\ Counted /\ CancelSaveEOF
  BY <1>2, <1>3 DEF Whole, Counted, CancelSaveEOF, Holding
<1>7. OneCloser /\ ChildOwned /\ ClosedMeansGone
  BY <1>2 DEF OneCloser, ChildOwned, ClosedMeansGone
<1> QED BY <1>1, <1>4, <1>5, <1>6, <1>7 DEF IInv

LEMMA Goes ==
  ASSUME IInv, Next
  PROVE  IInv'
PROOF
<1>0. /\ TypeOK /\ Unborn /\ MutualExclusion /\ Fresh /\ LastMine /\ FramesTogether
      /\ Whole /\ Counted /\ CancelSaveEOF /\ OneCloser /\ ChildOwned /\ ClosedMeansGone /\ Told
  BY DEF IInv
<1>1. TypeOK'
  <2>1. CASE Server
    BY <1>0, <2>1, ServerTypes
  <2>2. CASE \E g \in Prompts \cup Commands : Writer(g)
    BY <1>0, <2>2, WriteTypes, CallTypes, TaskNames DEF Writer, Sends
  <2>3. CASE \E k \in Closers : Closer(k)
    BY <1>0, <2>3, WriteTypes, CallTypes, TaskNames DEF Closer
  <2>4. CASE Environment
    BY <1>0, <2>4, EnvironmentTypes
  <2> QED BY <2>1, <2>2, <2>3, <2>4 DEF Next
<1>2. Unborn' /\ OneCloser' /\ ChildOwned' /\ ClosedMeansGone' /\ Told'
  BY <1>0, UnbornKept, OneCloserKept, ChildOwnedKept, ClosedMeansGoneKept, ToldKept
<1>3. /\ MutualExclusion' /\ Fresh' /\ LastMine' /\ FramesTogether'
      /\ Whole' /\ Counted' /\ CancelSaveEOF'
  <2>1. CASE Quiet
    BY <1>0, <2>1, QuietKept
  <2>2. CASE \E g \in Callers : Moves(g)
    BY <1>0, <2>2, LockKept, FreshKept, LastMineKept, TogetherKept, WholeKept, CountedKept, CancelSaveKept
  <2> QED BY <1>0, <2>1, <2>2, AnyStep
<1> QED BY <1>1, <1>2, <1>3 DEF IInv

\* The conjunction is inductive.
THEOREM Invariant == Spec => []IInv
PROOF
<1>1. IInv /\ UNCHANGED vars => IInv'
  BY DEF IInv, vars, session, pipes, proc, told, TypeOK, Unborn, MutualExclusion, Fresh, LastMine,
    FramesTogether, Whole, Counted, CancelSaveEOF, OneCloser, ChildOwned, ClosedMeansGone, Told, Holding,
    InPipe, Broken
<1>2. IInv /\ [Next]_vars => IInv'
  BY <1>1, Goes
<1> QED BY Begins, <1>2, PTL DEF Spec

\* Every variable keeps its shape.
THEOREM TypeCorrect == Spec => []TypeOK
PROOF
<1>1. IInv => TypeOK
  BY DEF IInv
<1> QED BY <1>1, Invariant, PTL

\* The stdin mutex does its work: no two callers' frames are interleaved in
\* the pipe, whatever fails and whoever gives up.
THEOREM FramesNeverInterleave == Spec => []FramesTogether
PROOF
<1>1. IInv => FramesTogether
  BY DEF IInv
<1> QED BY <1>1, Invariant, PTL

\* A closer that gets the lock never cuts a prompt in two: a prompt without its
\* end before EOF is one that encode refused a frame of, and its caller told.
THEOREM CutsReported == Spec => []WholePrompts
PROOF
<1>1. IInv => WholePrompts
  <2> SUFFICES ASSUME IInv, stdin = "closed", core # "exited",
                      NEW i \in DOMAIN written, written[i][1] \in Prompts,
                      pc[written[i][1]] # "refused"
               PROVE  \E j \in DOMAIN written : written[j] = <<written[i][1], Parts>>
    BY DEF WholePrompts
  <2>1. InPipe(written[i][1])
    BY DEF InPipe
  <2> QED BY <2>1 DEF IInv, Whole
<1> QED BY <1>1, Invariant, PTL

\* Both at once: the core reads one message at a time, and whole unless it has
\* a frame too long.
THEOREM MessagesKept == Spec => []FramesWhole
PROOF
BY FramesNeverInterleave, CutsReported, PTL DEF FramesWhole

\* EOF follows cancel and save, and nothing follows them.
THEOREM EOFAfterSave == Spec => []CancelSaveEOF
PROOF
<1>1. IInv => CancelSaveEOF
  BY DEF IInv
<1> QED BY <1>1, Invariant, PTL

\* Whoever reaps the core, the reader or the closer: a close that has returned
\* has seen it go.
THEOREM CloseLeavesNothing == Spec => []ClosedMeansGone
PROOF
<1>1. IInv => ClosedMeansGone
  BY DEF IInv
<1> QED BY <1>1, Invariant, PTL

(***************************************************************************)
(* The registry of pending commands.                                       *)
(***************************************************************************)
In(p, f) == \E i \in DOMAIN p : p[i] = f
Distinct(p) == \A i, j \in DOMAIN p : p[i] = p[j] => i = j

\* A command has one frame, and has it in the pipe only if it has succeeded.
CommandOnce ==
  /\ \A g \in Commands : pc[g] # "ok" => at[g] = 0 /\ ~InPipe(g)
  /\ \A i \in DOMAIN written : written[i][1] \in Commands => written[i] = <<written[i][1], 1>>
  /\ \A i, j \in DOMAIN written : written[i] = written[j] /\ written[i][1] \in Commands => i = j

\* Its answer is one too, and comes after the core has read it.
AnswerOnce ==
  /\ \A i \in DOMAIN stdout : stdout[i][1] \in Commands => \E k \in 1..read : written[k] = stdout[i]
  /\ \A i, j \in DOMAIN stdout : stdout[i] = stdout[j] /\ stdout[i][1] \in Commands => i = j

\* The commands that have got beyond the naming.
Asked == {g \in Commands : pc[g] \notin {"call", "naming"}}

\* The registry holds each command once, and none that failed.
Registered ==
  /\ \A p \in Prompts : pc[p] \notin {"naming", "forgetting"}
  /\ \A i \in DOMAIN pending :
       \E g \in Commands : pending[i] = <<g, 1>> /\ pc[g] \notin {"call", "naming", "failed"}
  /\ Distinct(pending)
  /\ IsFiniteSet(Asked)

\* The command g is about to write, or its frame or its answer is under way.
Awaited(g) ==
  \/ pc[g] \in {"checking", "locking", "locked"}
  \/ \E k \in DOMAIN written : k > read /\ written[k][1] = g
  \/ \E i \in DOMAIN stdout : stdout[i][1] = g

\* Its name may have been pushed out.
PushedOut(g) == Cardinality(Asked \ {g}) >= MaxPending

AwaitedNamed == \A g \in Commands : Awaited(g) => In(pending, <<g, 1>>) \/ PushedOut(g)

RegistryInv == CommandOnce /\ AnswerOnce /\ Registered /\ AwaitedNamed

\* remove takes its one entry out and leaves the others.
LEMMA WithoutSays ==
  ASSUME NEW p \in Seq(Frame), Distinct(p), NEW f
  PROVE  /\ Distinct(Without(p, f)) /\ ~In(Without(p, f), f)
         /\ \A x : x # f => (In(Without(p, f), x) <=> In(p, x))
PROOF
<1> DEFINE q == Without(p, f)
<1>1. CASE ~In(p, f)
  BY <1>1 DEF Without, In
<1>2. CASE In(p, f)
  <2> DEFINE i == CHOOSE i \in DOMAIN p : p[i] = f
             a == SubSeq(p, 1, i - 1)
             b == SubSeq(p, i + 1, Len(p))
  <2>1. i \in 1..Len(p) /\ p[i] = f
    BY <1>2 DEF In
  <2>2. q = a \o b
    BY <1>2 DEF Without, In
  <2> HIDE DEF i, q
  <2>3. a \in Seq(Frame) /\ Len(a) = i - 1 /\ \A j \in 1..(i - 1) : a[j] = p[j]
    BY <2>1
  <2>4. b \in Seq(Frame) /\ Len(b) = Len(p) - i /\ \A j \in 1..(Len(p) - i) : b[j] = p[i + j]
    BY <2>1
  <2> HIDE DEF a, b
  <2>5. Len(q) = Len(p) - 1 /\ DOMAIN q = 1..(Len(p) - 1) /\ DOMAIN p = 1..Len(p)
    BY <2>1, <2>2, <2>3, <2>4
  <2>6. \A j \in 1..(Len(p) - 1) : q[j] = IF j < i THEN p[j] ELSE p[j + 1]
    <3> SUFFICES ASSUME NEW j \in 1..(Len(p) - 1)
                 PROVE  q[j] = IF j < i THEN p[j] ELSE p[j + 1]
      OBVIOUS
    <3>1. CASE j < i
      BY <2>1, <2>2, <2>3, <2>4, <3>1
    <3>2. CASE ~(j < i)
      <4>1. q[j] = b[j - (i - 1)] /\ j - (i - 1) \in 1..(Len(p) - i)
        BY <2>1, <2>2, <2>3, <2>4, <3>2
      <4> QED BY <2>1, <2>4, <3>2, <4>1
    <3> QED BY <3>1, <3>2
  <2>7. Distinct(q)
    <3> SUFFICES ASSUME NEW j \in 1..(Len(p) - 1), NEW k \in 1..(Len(p) - 1), q[j] = q[k]
                 PROVE  j = k
      BY <2>5 DEF Distinct
    <3> DEFINE u == IF j < i THEN j ELSE j + 1
               v == IF k < i THEN k ELSE k + 1
    <3>1. u \in DOMAIN p /\ v \in DOMAIN p /\ p[u] = q[j] /\ p[v] = q[k]
      BY <2>1, <2>5, <2>6
    <3>2. u = v
      BY <3>1 DEF Distinct
    <3> QED BY <2>1, <3>2
  <2>8. ~In(q, f)
    BY <2>1, <2>5, <2>6 DEF Distinct, In
  <2>9. ASSUME NEW x, x # f PROVE In(q, x) <=> In(p, x)
    <3>1. ASSUME NEW j \in DOMAIN p, p[j] = x PROVE In(q, x)
      <4>1. CASE j < i
        <5>1. j \in 1..(Len(p) - 1) /\ q[j] = x
          BY <2>1, <2>5, <2>6, <3>1, <4>1
        <5> QED BY <5>1, <2>5 DEF In
      <4>2. CASE j > i
        <5>1. j - 1 \in 1..(Len(p) - 1) /\ q[j - 1] = x
          BY <2>1, <2>5, <2>6, <3>1, <4>2
        <5> QED BY <5>1, <2>5 DEF In
      <4> QED BY <2>1, <2>5, <2>9, <3>1, <4>1, <4>2
    <3>2. ASSUME NEW j \in DOMAIN q, q[j] = x PROVE In(p, x)
      BY <2>1, <2>5, <2>6, <3>2 DEF In
    <3> QED BY <3>1, <3>2 DEF In
  <2> QED BY <2>7, <2>8, <2>9 DEF q
<1> QED BY <1>1, <1>2

\* insert puts the newcomer last; only a full registry loses its first entry.
LEMMA InsertSays ==
  ASSUME NEW p \in Seq(Frame), Len(p) <= MaxPending, Distinct(p), NEW f \in Frame, ~In(p, f)
  PROVE  /\ Distinct(Insert(p, f)) /\ In(Insert(p, f), f)
         /\ \A x : In(Insert(p, f), x) => x = f \/ In(p, x)
         /\ \A x : In(p, x) /\ ~In(Insert(p, f), x) => Len(p) = MaxPending
PROOF
<1> DEFINE q == Append(p, f)
           r == Tail(q)
<1>1. q \in Seq(Frame) /\ Len(q) = Len(p) + 1 /\ DOMAIN q = 1..(Len(p) + 1) /\ DOMAIN p = 1..Len(p)
      /\ Len(p) \in Nat /\ q # <<>>
  OBVIOUS
<1>2. \A j \in 1..(Len(p) + 1) : q[j] = IF j = Len(p) + 1 THEN f ELSE p[j]
  OBVIOUS
<1>3. MaxPending \in Nat /\ MaxPending >= 1
  BY PipeAssumption
<1>7. Insert(p, f) = IF Len(q) > MaxPending THEN r ELSE q
  BY DEF Insert
<1>8. r \in Seq(Frame) /\ DOMAIN r = 1..Len(p) /\ \A j \in 1..Len(p) : r[j] = q[j + 1]
  BY <1>1
<1> HIDE DEF q, r
<1>4. Distinct(q) /\ In(q, f) /\ \A x : In(q, x) <=> x = f \/ In(p, x)
  <2>1. Distinct(q)
    BY <1>1, <1>2 DEF Distinct, In
  <2>2. \A x : In(q, x) => x = f \/ In(p, x)
    BY <1>1, <1>2 DEF In
  <2>3. In(q, f)
    <3>1. Len(p) + 1 \in DOMAIN q /\ q[Len(p) + 1] = f
      BY <1>1, <1>2
    <3> QED BY <3>1 DEF In
  <2>4. ASSUME NEW x, In(p, x) PROVE In(q, x)
    <3>1. PICK j \in DOMAIN p : p[j] = x
      BY <2>4 DEF In
    <3>2. j \in DOMAIN q /\ q[j] = x
      BY <1>1, <1>2, <3>1
    <3> QED BY <3>2 DEF In
  <2> QED BY <2>1, <2>2, <2>3, <2>4
<1>5. CASE Len(q) <= MaxPending
  <2>1. Insert(p, f) = q
    BY <1>1, <1>3, <1>5, <1>7
  <2> QED BY <2>1, <1>4
<1>6. CASE Len(q) > MaxPending
  <2>1. Insert(p, f) = r /\ Len(p) = MaxPending
    <3>1. Insert(p, f) = r
      BY <1>6, <1>7
    <3>2. Len(q) = Len(p) + 1 /\ Len(p) \in Nat /\ Len(p) <= MaxPending
      BY <1>1
    <3>3. Len(p) = MaxPending
      BY <3>2, <1>3, <1>6
    <3> QED BY <3>1, <3>3
  <2>2. DOMAIN r = 1..Len(p) /\ \A j \in 1..Len(p) : r[j] = q[j + 1]
    BY <1>8
  <2>3. Distinct(r)
    BY <1>1, <1>4, <2>2 DEF Distinct
  <2>4. In(r, f)
    <3>1. Len(p) \in DOMAIN r /\ r[Len(p)] = f
      BY <1>1, <1>2, <1>3, <2>1, <2>2
    <3> QED BY <3>1 DEF In
  <2>5. ASSUME NEW x, In(r, x) PROVE In(q, x)
    <3>1. PICK j \in DOMAIN r : r[j] = x
      BY <2>5 DEF In
    <3>2. j + 1 \in DOMAIN q /\ q[j + 1] = x
      BY <1>1, <2>2, <3>1
    <3> QED BY <3>2 DEF In
  <2> QED BY <1>4, <2>1, <2>3, <2>4, <2>5
<1>9. Len(q) <= MaxPending \/ Len(q) > MaxPending
  BY <1>1, <1>3
<1> QED BY <1>5, <1>6, <1>9

\* The entries of a full registry are as many commands.
LEMMA FullCounts ==
  ASSUME NEW p \in Seq(Frame), Distinct(p), Len(p) = MaxPending, NEW g, In(p, <<g, 1>>),
         NEW S, IsFiniteSet(S), NEW h \in S, ~In(p, <<h, 1>>),
         \A i \in DOMAIN p : p[i][1] \in S /\ p[i] = <<p[i][1], 1>>
  PROVE  Cardinality(S \ {g}) >= MaxPending
PROOF
<1>1. PICK m \in DOMAIN p : p[m] = <<g, 1>>
  BY DEF In
<1>2. DOMAIN p = 1..MaxPending /\ MaxPending \in Nat
  BY PipeAssumption
<1> DEFINE F == [i \in 1..MaxPending |-> IF i = m THEN h ELSE p[i][1]]
<1>3. g # h
  BY <1>1 DEF In
<1>4. F \in [1..MaxPending -> S \ {g}]
  <2> SUFFICES ASSUME NEW i \in 1..MaxPending PROVE F[i] \in S \ {g}
    OBVIOUS
  <2>1. CASE i = m
    BY <1>3, <2>1
  <2>2. CASE i # m
    <3>1. p[i] = <<p[i][1], 1>> /\ p[i][1] \in S
      BY <1>2
    <3>2. p[i] # p[m]
      BY <1>2, <2>2 DEF Distinct
    <3> QED BY <1>1, <2>2, <3>1, <3>2
  <2> QED BY <2>1, <2>2
<1>5. ASSUME NEW i \in 1..MaxPending, NEW j \in 1..MaxPending, F[i] = F[j] PROVE i = j
  <2>1. \A k \in 1..MaxPending : p[k] = <<p[k][1], 1>> /\ p[k][1] # h
    BY <1>2 DEF In
  <2>2. CASE i = m \/ j = m
    BY <1>5, <2>1, <2>2
  <2>3. CASE i # m /\ j # m
    <3>1. p[i][1] = p[j][1]
      BY <1>5, <2>3
    <3>2. p[i] = p[j]
      BY <3>1, <2>1
    <3> QED BY <3>2, <1>2 DEF Distinct
  <2> QED BY <2>2, <2>3
<1> HIDE DEF F
<1>6. F \in Injection(1..MaxPending, S \ {g})
  BY <1>4, <1>5 DEF Injection, IsInjective
<1>7. IsFiniteSet(S \ {g})
  BY FS_Subset
<1>8. Cardinality(1..MaxPending) <= Cardinality(S \ {g})
  BY <1>6, <1>7, FS_Injection
<1>9. Cardinality(1..MaxPending) = MaxPending
  BY <1>2, FS_Interval
<1>10. Cardinality(S \ {g}) \in Nat
  BY <1>7, FS_CardinalityType
<1> QED BY <1>2, <1>8, <1>9, <1>10

(***************************************************************************)
(* Steps as the registry sees them: a command moves, or none does.         *)
(***************************************************************************)
\* No command moves; the pipe may get a frame of someone else.
Aside ==
  /\ \A c \in Commands : pc'[c] = pc[c] /\ at'[c] = at[c]
  /\ \A p \in Prompts : pc'[p] \notin {"naming", "forgetting"}
  /\ \/ written' = written
     \/ \E f \in Frame : f[1] \notin Commands /\ written' = Append(written, f)

\* The core says something that is no answer.
Tells ==
  /\ UNCHANGED <<written, pending, read>>
  /\ \E f \in Sent : f[1] \notin Commands /\ stdout' = Append(stdout, f)

Streams == ReadFrame \/ CoreReads \/ Tells \/ UNCHANGED <<pending, read, stdout>>

LEMMA QuietStreams ==
  ASSUME TypeOK, Server \/ Environment
  PROVE  written' = written /\ Streams
PROOF
<1> USE DEF session, pipes, proc, told, Streams
<1>1. CASE Server
  BY <1>1 DEF Server, Create, SpawnFails, EmitUp, StartReader, Reply, ReadFrame, ReadEnd, ReapChild,
    KillChild, Announce
<1>2. CASE CoreSends
  BY <1>2, TaskNames DEF CoreSends, Tells, Sent, Plain, Bad
<1>3. CASE CoreEnds
  BY <1>3, TaskNames DEF CoreEnds, Tells, Sent, Closed
<1>4. CASE CoreReads \/ CoreStalls \/ CoreHushes \/ CoreExits \/ HolderExits
  BY <1>4 DEF CoreReads, CoreStalls, CoreHushes, CoreExits, HolderExits
<1> QED BY <1>1, <1>2, <1>3, <1>4 DEF Environment

LEMMA NoCommandMoves ==
  ASSUME IInv, Registered, Next, \A c \in Commands : ~Writer(c)
  PROVE  Aside /\ Streams
PROOF
<1>0. /\ TypeOK /\ Unborn /\ OneCloser /\ ChildOwned
      /\ pc \in [Callers \cup {"create", "reader"} -> Labels] /\ at \in [Callers -> Nat]
      /\ \A p \in Prompts : pc[p] \notin {"naming", "forgetting"}
  BY DEF IInv, TypeOK, Registered
<1>1. CASE Server \/ Environment
  <2>1. Quiet /\ Streams /\ written' = written
    BY <1>0, <1>1, QuietSteps, QuietStreams
  <2> QED BY <1>0, <2>1, TaskNames DEF Quiet, Aside
<1>2. ASSUME NEW p \in Prompts, Writer(p) PROVE Aside /\ Streams
  <2>1. Refs(p) \/ Check(p) \/ Lock(p) \/ Write(p) \/ WriteFails(p) \/ Refuse(p)
    BY <1>0, <1>2, TaskNames DEF Writer, Sends, Register, Forget, Go
  <2>2. UNCHANGED <<pending, read, stdout>>
    BY <2>1 DEF Refs, Check, Lock, Write, WriteFails, Refuse, session, pipes
  <2>3. Others(p)
    BY <1>0, <1>2, WriterMoves DEF Moves, Outside, Enters, Writes, Fails, Refused, Shuts
  <2>4. pc'[p] \notin {"naming", "forgetting"}
    BY <1>0, <2>1, TaskNames DEF Refs, Check, Lock, Write, WriteFails, Refuse, Unsent, Go
  <2>5. written' = written \/ \E f \in Frame : f[1] \notin Commands /\ written' = Append(written, f)
    <3>1. CASE Write(p)
      <4>1. <<p, at[p] + 1>> \in Frame /\ <<p, at[p] + 1>>[1] \notin Commands
        BY <1>0, TaskNames DEF Frame
      <4> QED BY <3>1, <4>1 DEF Write
    <3>2. CASE ~Write(p)
      BY <2>1, <3>2 DEF Refs, Check, Lock, WriteFails, Refuse, session, pipes
    <3> QED BY <3>1, <3>2
  <2> QED BY <1>0, <2>2, <2>3, <2>4, <2>5, TaskNames DEF Aside, Streams, Others
<1>3. ASSUME NEW k \in Closers, Closer(k) PROVE Aside /\ Streams
  <2>2. UNCHANGED <<pending, read, stdout>>
    BY <1>3 DEF Closer, Close, TakeChild, TryLock, GiveUp, Write, WriteFails, CloseStdin, GraceOver,
      SigKill, session, pipes
  <2>3. Others(k)
    BY <1>0, <1>3, CloserMoves DEF Moves, Outside, Enters, Writes, Fails, Refused, Shuts
  <2>5. written' = written \/ \E f \in Frame : f[1] \notin Commands /\ written' = Append(written, f)
    <3>1. CASE Write(k)
      <4>1. <<k, at[k] + 1>> \in Frame /\ <<k, at[k] + 1>>[1] \notin Commands
        BY <1>0, TaskNames DEF Frame
      <4> QED BY <3>1, <4>1 DEF Write
    <3>2. CASE ~Write(k)
      BY <1>3, <3>2 DEF Closer, Close, TakeChild, TryLock, GiveUp, WriteFails, CloseStdin, GraceOver,
        SigKill, session, pipes
    <3> QED BY <3>1, <3>2
  <2> QED BY <1>0, <2>2, <2>3, <2>5, TaskNames DEF Aside, Streams, Others
<1> QED BY <1>1, <1>2, <1>3 DEF Next

\* What the command c does with its step.
Walks(c) ==
  /\ written' = written /\ at'[c] = at[c] /\ pending' = pending
  /\ \/ pc[c] = "call" /\ pc'[c] \in {"failed", "naming"}
     \/ pc[c] \in {"checking", "locking", "locked"} /\ pc'[c] \in {"locking", "locked", "forgetting"}

Puts(c) ==
  /\ pc[c] = "locked" /\ pc'[c] = "ok" /\ at'[c] = 1 /\ pending' = pending
  /\ written' = Append(written, <<c, 1>>)

Names(c) ==
  /\ written' = written /\ at'[c] = at[c]
  /\ pc[c] = "naming" /\ pc'[c] = "checking" /\ pending' = Insert(pending, <<c, 1>>)

Drops(c) ==
  /\ written' = written /\ at'[c] = at[c]
  /\ pc[c] = "forgetting" /\ pc'[c] = "failed" /\ pending' = Without(pending, <<c, 1>>)

LEMMA CommandMoves ==
  ASSUME TypeOK, CommandOnce, NEW c \in Commands, Writer(c)
  PROVE  /\ UNCHANGED <<read, stdout>> /\ \A h \in Callers : h # c => pc'[h] = pc[h] /\ at'[h] = at[h]
         /\ Walks(c) \/ Puts(c) \/ Names(c) \/ Drops(c)
PROOF
<1> USE TaskNames DEF session, pipes, proc, told
<1>0. pc \in [Callers \cup {"create", "reader"} -> Labels] /\ at \in [Callers -> Nat] /\ c \in Callers
  BY DEF TypeOK
<1>1. Others(c) /\ UNCHANGED <<read, stdout>>
  <2>1. UNCHANGED <<read, stdout>>
    BY DEF Writer, Sends, Refs, Register, Check, Lock, Write, WriteFails, Refuse, Forget
  <2> QED BY <2>1, WriterMoves DEF Moves, Outside, Enters, Writes, Fails, Refused, Shuts
<1>2. CASE Refs(c)
  BY <1>0, <1>2 DEF Refs, Go, Walks
<1>3. CASE Register(c)
  BY <1>0, <1>3 DEF Register, Go, Names
<1>4. CASE Check(c)
  BY <1>0, <1>4 DEF Check, Unsent, Go, Walks
<1>5. CASE Lock(c)
  BY <1>0, <1>5 DEF Lock, Go, Walks
<1>6. CASE Write(c)
  <2>1. at[c] = 0 /\ Last(c)
    BY <1>0, <1>6 DEF Write, Go, CommandOnce, Last, Batch
  <2> QED BY <1>0, <1>6, <2>1 DEF Write, Go, Puts
<1>7. CASE WriteFails(c)
  BY <1>0, <1>7 DEF WriteFails, Unsent, Go, Walks
<1>8. CASE Forget(c)
  BY <1>0, <1>8 DEF Forget, Go, Drops
<1>9. CASE Refuse(c)
  BY <1>0, <1>9 DEF Refuse, Go, Walks
<1> QED BY <1>1, <1>2, <1>3, <1>4, <1>5, <1>6, <1>7, <1>8, <1>9 DEF Writer, Sends, Others

LEMMA CommandOnceKept ==
  ASSUME IInv, CommandOnce, Registered, Next
  PROVE  CommandOnce'
PROOF
<1>0. written \in Seq(Frame) /\ at \in [Callers -> Nat] /\ TypeOK
  BY DEF IInv, TypeOK
<1>1. ASSUME NEW c \in Commands, Writer(c) PROVE CommandOnce'
  <2>0. \A h \in Commands : h # c => pc'[h] = pc[h] /\ at'[h] = at[h]
    BY <1>0, <1>1, CommandMoves, TaskNames
  <2>1. CASE Puts(c)
    <3>1. ~InPipe(c) /\ written' = Append(written, <<c, 1>>) /\ <<c, 1>> \in Frame
      BY <2>1, TaskNames DEF Puts, CommandOnce, Frame
    <3>2. /\ Len(written') = Len(written) + 1 /\ written'[Len(written) + 1] = <<c, 1>>
          /\ \A i \in 1..Len(written) : written'[i] = written[i]
          /\ DOMAIN written = 1..Len(written) /\ DOMAIN written' = 1..(Len(written) + 1)
          /\ Len(written) \in Nat
      BY <1>0, <3>1
    <3>3. \A g \in Commands : pc'[g] # "ok" => at'[g] = 0 /\ ~InPipe(g)'
      BY <2>0, <2>1, <3>2 DEF Puts, CommandOnce, InPipe
    <3>4. \A i \in DOMAIN written' : written'[i][1] \in Commands => written'[i] = <<written'[i][1], 1>>
      BY <3>2 DEF CommandOnce
    <3>5. \A i \in 1..Len(written) : written[i][1] # c
      BY <3>1, <3>2 DEF InPipe
    <3>6. ASSUME NEW i \in DOMAIN written', NEW j \in DOMAIN written',
                 written'[i] = written'[j], written'[i][1] \in Commands
          PROVE  i = j
      <4>1. CASE i \in 1..Len(written) /\ j \in 1..Len(written)
        BY <3>2, <3>6, <4>1 DEF CommandOnce
      <4>2. CASE i = Len(written) + 1 \/ j = Len(written) + 1
        <5>1. <<c, 1>>[1] = c
          OBVIOUS
        <5> QED BY <3>2, <3>5, <3>6, <4>2, <5>1
      <4> QED BY <3>2, <4>1, <4>2
    <3> QED BY <3>3, <3>4, <3>6 DEF CommandOnce
  <2>2. CASE Walks(c) \/ Names(c) \/ Drops(c)
    BY <2>0, <2>2 DEF Walks, Names, Drops, CommandOnce, InPipe
  <2> QED BY <1>0, <1>1, <2>1, <2>2, CommandMoves
<1>2. CASE Aside
  <2>1. CASE written' = written
    BY <1>2, <2>1 DEF Aside, CommandOnce, InPipe
  <2>2. ASSUME NEW f \in Frame, f[1] \notin Commands, written' = Append(written, f)
        PROVE  CommandOnce'
    <3>1. /\ Len(written') = Len(written) + 1 /\ written'[Len(written) + 1] = f
          /\ \A i \in 1..Len(written) : written'[i] = written[i]
          /\ DOMAIN written = 1..Len(written) /\ DOMAIN written' = 1..(Len(written) + 1)
          /\ Len(written) \in Nat
      BY <1>0, <2>2
    <3>2. \A i \in DOMAIN written' : written'[i][1] \in Commands => i \in DOMAIN written /\ written'[i] = written[i]
      BY <2>2, <3>1
    <3>3. \A g \in Commands : pc'[g] # "ok" => at'[g] = 0 /\ ~InPipe(g)'
      BY <1>2, <3>2 DEF Aside, CommandOnce, InPipe
    <3> QED BY <3>2, <3>3 DEF CommandOnce
  <2> QED BY <1>2, <2>1, <2>2 DEF Aside
<1> QED BY <1>1, <1>2, NoCommandMoves

LEMMA AnswerOnceKept ==
  ASSUME IInv, CommandOnce, AnswerOnce, Registered, Next
  PROVE  AnswerOnce'
PROOF
<1>0. written \in Seq(Frame) /\ stdout \in Seq(Sent) /\ read \in 0..Len(written) /\ TypeOK
      /\ Len(written) \in Nat
  BY DEF IInv, TypeOK
<1>2. \A k \in 1..read : written'[k] = written[k]
  <2>1. ASSUME NEW c \in Commands, Writer(c) PROVE \A k \in 1..read : written'[k] = written[k]
    <3>1. written' = written \/ written' = Append(written, <<c, 1>>)
      BY <1>0, <2>1, CommandMoves DEF Walks, Puts, Names, Drops
    <3> QED BY <1>0, <3>1
  <2>2. ASSUME Aside PROVE \A k \in 1..read : written'[k] = written[k]
    BY <1>0, <2>2 DEF Aside
  <2> QED BY <2>1, <2>2, NoCommandMoves
<1>3. CASE UNCHANGED <<read, stdout>>
  BY <1>2, <1>3 DEF AnswerOnce
<1>4. CASE ReadFrame
  <2>1. /\ DOMAIN stdout' = 1..(Len(stdout) - 1) /\ DOMAIN stdout = 1..Len(stdout) /\ Len(stdout) \in Nat
        /\ \A i \in 1..(Len(stdout) - 1) : stdout'[i] = stdout[i + 1]
        /\ read' = read
    BY <1>0, <1>4 DEF ReadFrame
  <2>2. \A i \in DOMAIN stdout' : i + 1 \in DOMAIN stdout /\ stdout'[i] = stdout[i + 1]
    BY <2>1
  <2>3. \A i \in DOMAIN stdout' : stdout'[i][1] \in Commands => \E k \in 1..read' : written'[k] = stdout'[i]
    BY <1>2, <2>1, <2>2 DEF AnswerOnce
  <2>4. ASSUME NEW i \in DOMAIN stdout', NEW j \in DOMAIN stdout',
               stdout'[i] = stdout'[j], stdout'[i][1] \in Commands
        PROVE  i = j
    <3>1. i + 1 = j + 1
      BY <2>2, <2>4 DEF AnswerOnce
    <3> QED BY <2>1, <3>1
  <2> QED BY <2>3, <2>4 DEF AnswerOnce
<1>5. ASSUME NEW f \in Sent, stdout' = Append(stdout, f), f[1] \in Commands => read < Len(written) /\ f = written[read + 1],
             read' \in {read, read + 1}, f[1] \in Commands => read' = read + 1, written' = written
      PROVE  AnswerOnce'
  <2>1. /\ DOMAIN stdout' = 1..(Len(stdout) + 1) /\ DOMAIN stdout = 1..Len(stdout) /\ Len(stdout) \in Nat
        /\ stdout'[Len(stdout) + 1] = f
        /\ \A i \in 1..Len(stdout) : stdout'[i] = stdout[i]
    BY <1>0, <1>5
  <2>2. \A i \in DOMAIN stdout' : stdout'[i][1] \in Commands => \E k \in 1..read' : written'[k] = stdout'[i]
    <3> SUFFICES ASSUME NEW i \in DOMAIN stdout', stdout'[i][1] \in Commands
                 PROVE  \E k \in 1..read' : written'[k] = stdout'[i]
      OBVIOUS
    <3>1. CASE i \in 1..Len(stdout)
      <4>1. PICK k \in 1..read : written[k] = stdout[i]
        BY <2>1, <3>1 DEF AnswerOnce
      <4>2. k \in 1..read' /\ written'[k] = stdout'[i]
        BY <1>0, <1>5, <2>1, <3>1, <4>1
      <4> QED BY <4>2
    <3>2. CASE i = Len(stdout) + 1
      <4>1. read + 1 \in 1..read' /\ written'[read + 1] = stdout'[i]
        BY <1>0, <1>5, <2>1, <3>2
      <4> QED BY <4>1
    <3> QED BY <2>1, <3>1, <3>2
  <2>3. \A i \in 1..Len(stdout) : stdout[i] = f => f[1] \notin Commands
    <3> SUFFICES ASSUME NEW i \in 1..Len(stdout), stdout[i] = f, f[1] \in Commands PROVE FALSE
      OBVIOUS
    <3>1. PICK k \in 1..read : written[k] = f
      BY <2>1 DEF AnswerOnce
    <3>2. k \in DOMAIN written /\ read + 1 \in DOMAIN written /\ written[read + 1] = f /\ k # read + 1
      BY <1>0, <1>5, <3>1
    <3> QED BY <3>1, <3>2 DEF CommandOnce
  <2>4. ASSUME NEW i \in DOMAIN stdout', NEW j \in DOMAIN stdout',
               stdout'[i] = stdout'[j], stdout'[i][1] \in Commands
        PROVE  i = j
    <3>1. CASE i \in 1..Len(stdout) /\ j \in 1..Len(stdout)
      BY <2>1, <2>4, <3>1 DEF AnswerOnce
    <3>2. CASE i = Len(stdout) + 1 \/ j = Len(stdout) + 1
      BY <2>1, <2>3, <2>4, <3>2
    <3> QED BY <2>1, <3>1, <3>2
  <2> QED BY <2>2, <2>4 DEF AnswerOnce
<1>6. CASE CoreReads
  <2>1. read < Len(written) /\ read' = read + 1 /\ written' = written
    BY <1>6 DEF CoreReads
  <2>2. CASE written[read + 1][1] \in Prompts
    <3>1. stdout' = stdout
      BY <1>6, <2>2 DEF CoreReads
    <3> QED BY <1>0, <2>1, <3>1 DEF AnswerOnce
  <2>3. CASE written[read + 1][1] \notin Prompts
    <3>1. stdout' = Append(stdout, written[read + 1]) /\ written[read + 1] \in Sent
      BY <1>0, <1>6, <2>3 DEF CoreReads, Sent
    <3> QED BY <1>5, <2>1, <3>1
  <2> QED BY <2>2, <2>3
<1>7. CASE Tells
  BY <1>5, <1>7 DEF Tells
<1>8. ASSUME NEW c \in Commands, Writer(c) PROVE UNCHANGED <<read, stdout>>
  BY <1>0, <1>8, CommandMoves
<1> QED BY <1>3, <1>4, <1>6, <1>7, <1>8, NoCommandMoves DEF Streams

\* Commands that have asked stay so, and are finitely many.
LEMMA AskedGrows ==
  ASSUME IInv, CommandOnce, Registered, Next
  PROVE  Asked \subseteq Asked' /\ IsFiniteSet(Asked')
PROOF
<1>0. TypeOK /\ IsFiniteSet(Asked)
  BY DEF IInv, Registered
<1>1. ASSUME NEW c \in Commands, Writer(c) PROVE Asked \subseteq Asked' /\ IsFiniteSet(Asked')
  <2>1. Asked \subseteq Asked' /\ Asked' \subseteq Asked \cup {c}
    BY <1>0, <1>1, CommandMoves, TaskNames DEF Asked, Walks, Puts, Names, Drops
  <2>2. IsFiniteSet(Asked \cup {c})
    BY <1>0, FS_AddElement
  <2> QED BY <2>1, <2>2, FS_Subset
<1>2. CASE Aside
  <2>1. Asked' = Asked
    BY <1>2 DEF Aside, Asked
  <2> QED BY <1>0, <2>1
<1> QED BY <1>1, <1>2, NoCommandMoves

LEMMA RegisteredKept ==
  ASSUME IInv, CommandOnce, Registered, Next
  PROVE  Registered'
PROOF
<1> DEFINE Live(g) == pc[g] \notin {"call", "naming", "failed"}
<1>0. /\ TypeOK /\ pending \in Seq(Frame) /\ Len(pending) <= MaxPending /\ Distinct(pending)
      /\ \A f : In(pending, f) => \E g \in Commands : f = <<g, 1>> /\ Live(g)
      /\ \A p \in Prompts : pc[p] \notin {"naming", "forgetting"}
  BY DEF IInv, TypeOK, Registered, In
<1>1. IsFiniteSet(Asked')
  BY AskedGrows
<1>2. SUFFICES /\ \A p \in Prompts : pc'[p] \notin {"naming", "forgetting"}
               /\ Distinct(pending')
               /\ \A f : In(pending', f) => \E g \in Commands : f = <<g, 1>> /\ Live(g)'
  BY <1>1 DEF Registered, In
<1>3. ASSUME NEW c \in Commands, Writer(c)
      PROVE  /\ \A p \in Prompts : pc'[p] \notin {"naming", "forgetting"}
             /\ Distinct(pending')
             /\ \A f : In(pending', f) => \E g \in Commands : f = <<g, 1>> /\ Live(g)'
  <2>0. \A h \in Callers : h # c => pc'[h] = pc[h]
    BY <1>0, <1>3, CommandMoves
  <2>1. \A p \in Prompts : pc'[p] \notin {"naming", "forgetting"}
    BY <1>0, <2>0, TaskNames
  <2>2. CASE Walks(c) \/ Puts(c)
    <3>1. \A g \in Commands : Live(g) => Live(g)'
      BY <2>0, <2>2, TaskNames DEF Walks, Puts
    <3>2. pending' = pending
      BY <2>2 DEF Walks, Puts
    <3> QED BY <1>0, <2>1, <3>1, <3>2
  <2>3. CASE Names(c)
    <3>1. pending' = Insert(pending, <<c, 1>>) /\ pc[c] = "naming" /\ <<c, 1>> \in Frame
      BY <2>3, TaskNames DEF Names, Frame
    <3>2. ~In(pending, <<c, 1>>)
      BY <1>0, <3>1
    <3>3. Distinct(pending') /\ \A f : In(pending', f) => f = <<c, 1>> \/ In(pending, f)
      BY <1>0, <3>1, <3>2, InsertSays
    <3>4. \A g \in Commands : Live(g) \/ g = c => Live(g)'
      BY <2>0, <2>3, TaskNames DEF Names
    <3> QED BY <1>0, <2>1, <3>3, <3>4
  <2>4. CASE Drops(c)
    <3>1. pending' = Without(pending, <<c, 1>>)
      BY <2>4 DEF Drops
    <3>2. Distinct(pending') /\ \A f : In(pending', f) => f # <<c, 1>> /\ In(pending, f)
      BY <1>0, <3>1, WithoutSays
    <3>3. \A g \in Commands : Live(g) /\ g # c => Live(g)'
      BY <2>0, TaskNames
    <3> QED BY <1>0, <2>1, <3>2, <3>3
  <2> QED BY <1>0, <1>3, <2>2, <2>3, <2>4, CommandMoves
<1>4. CASE Aside /\ Streams
  <2>1. \A p \in Prompts : pc'[p] \notin {"naming", "forgetting"}
    BY <1>4 DEF Aside
  <2>2. \A g \in Commands : Live(g)' = Live(g)
    BY <1>4 DEF Aside
  <2>3. CASE pending' = pending
    BY <1>0, <2>1, <2>2, <2>3
  <2>4. CASE ReadFrame
    <3>1. pending' = Without(pending, Head(stdout))
      BY <2>4 DEF ReadFrame
    <3>2. Distinct(pending') /\ \A f : In(pending', f) => In(pending, f)
      BY <1>0, <3>1, WithoutSays
    <3> QED BY <1>0, <2>1, <2>2, <3>2
  <2>5. ReadFrame \/ pending' = pending
    BY <1>4 DEF Streams, CoreReads, Tells
  <2> QED BY <2>3, <2>4, <2>5
<1> QED BY <1>3, <1>4, NoCommandMoves

LEMMA PushedOutStays ==
  ASSUME IInv, CommandOnce, Registered, Next, NEW g, PushedOut(g)
  PROVE  PushedOut(g)'
PROOF
<1>1. Asked \ {g} \subseteq Asked' \ {g} /\ IsFiniteSet(Asked' \ {g}) /\ IsFiniteSet(Asked \ {g})
  BY AskedGrows, FS_Subset DEF Registered
<1>2. Cardinality(Asked \ {g}) <= Cardinality(Asked' \ {g})
  BY <1>1, FS_Subset
<1>3. Cardinality(Asked \ {g}) \in Nat /\ Cardinality(Asked' \ {g}) \in Nat /\ MaxPending \in Nat
  BY <1>1, FS_CardinalityType, PipeAssumption
<1> QED BY <1>2, <1>3 DEF PushedOut

\* A command that is awaited after a step was so before, or has just been
\* named.
LEMMA AwaitedBefore ==
  ASSUME IInv, CommandOnce, AnswerOnce, Registered, Next, NEW g \in Commands, Awaited(g)'
  PROVE  Awaited(g) \/ Names(g)
PROOF
<1>0. written \in Seq(Frame) /\ stdout \in Seq(Sent) /\ read \in 0..Len(written) /\ Len(written) \in Nat /\ TypeOK
  BY DEF IInv, TypeOK
<1>1. ASSUME NEW c \in Commands, Writer(c) PROVE Awaited(g) \/ Names(g)
  <2>0. UNCHANGED <<read, stdout>> /\ (g # c => pc'[g] = pc[g])
    BY <1>0, <1>1, CommandMoves, TaskNames
  <2>1. CASE Walks(c) \/ Names(c) \/ Drops(c)
    BY <2>0, <2>1 DEF Walks, Names, Drops, Awaited
  <2>2. CASE Puts(c)
    <3>1. /\ Len(written') = Len(written) + 1 /\ written'[Len(written) + 1] = <<c, 1>>
          /\ \A i \in 1..Len(written) : written'[i] = written[i]
          /\ DOMAIN written = 1..Len(written) /\ DOMAIN written' = 1..(Len(written) + 1)
          /\ pc[c] = "locked" /\ pc'[c] = "ok"
      BY <1>0, <2>2, TaskNames DEF Puts, Frame
    <3>2. CASE g = c
      BY <3>1, <3>2 DEF Awaited
    <3>3. CASE g # c
      <4>1. ASSUME NEW k \in DOMAIN written', k > read, written'[k][1] = g
            PROVE  k \in DOMAIN written /\ written[k][1] = g
        <5>1. k # Len(written) + 1
          BY <3>1, <3>3, <4>1
        <5> QED BY <1>0, <3>1, <4>1, <5>1
      <4> QED BY <2>0, <3>3, <4>1 DEF Awaited
    <3> QED BY <3>2, <3>3
  <2> QED BY <1>0, <1>1, <2>1, <2>2, CommandMoves
<1>2. CASE Aside /\ Streams
  <2>1. pc'[g] = pc[g]
    BY <1>2 DEF Aside
  <2>2. ASSUME NEW k \in DOMAIN written', k > read', written'[k][1] = g
        PROVE  k \in DOMAIN written /\ k > read /\ written[k][1] = g
    <3>0. read' \in {read, read + 1}
      BY <1>2 DEF Streams, ReadFrame, CoreReads, Tells
    <3>1. CASE written' = written
      BY <1>0, <2>2, <3>0, <3>1
    <3>2. ASSUME NEW f \in Frame, f[1] \notin Commands, written' = Append(written, f)
          PROVE  k \in DOMAIN written /\ k > read /\ written[k][1] = g
      <4>1. /\ Len(written') = Len(written) + 1 /\ written'[Len(written) + 1] = f
            /\ \A i \in 1..Len(written) : written'[i] = written[i]
            /\ DOMAIN written = 1..Len(written) /\ DOMAIN written' = 1..(Len(written) + 1)
        BY <1>0, <3>2
      <4>2. k # Len(written) + 1
        BY <2>2, <3>2, <4>1
      <4> QED BY <1>0, <2>2, <3>0, <4>1, <4>2
    <3> QED BY <1>2, <3>1, <3>2 DEF Aside
  <2>3. ASSUME NEW i \in DOMAIN stdout', stdout'[i][1] = g PROVE Awaited(g)
    <3>1. CASE UNCHANGED <<pending, read, stdout>>
      BY <2>3, <3>1 DEF Awaited
    <3>2. CASE ReadFrame
      <4>1. i + 1 \in DOMAIN stdout /\ stdout[i + 1][1] = g
        BY <1>0, <2>3, <3>2 DEF ReadFrame
      <4> QED BY <4>1 DEF Awaited
    <3>3. ASSUME NEW f \in Sent, stdout' = Append(stdout, f),
                 f[1] = g => read < Len(written) /\ f = written[read + 1]
          PROVE  Awaited(g)
      <4>1. /\ DOMAIN stdout' = 1..(Len(stdout) + 1) /\ DOMAIN stdout = 1..Len(stdout) /\ Len(stdout) \in Nat
            /\ stdout'[Len(stdout) + 1] = f
            /\ \A j \in 1..Len(stdout) : stdout'[j] = stdout[j]
        BY <1>0, <3>3
      <4>2. CASE i = Len(stdout) + 1
        <5>1. read + 1 \in DOMAIN written /\ read + 1 > read /\ written[read + 1][1] = g
          BY <1>0, <2>3, <3>3, <4>1, <4>2
        <5> QED BY <5>1 DEF Awaited
      <4>3. CASE i \in DOMAIN stdout
        BY <2>3, <4>1, <4>3 DEF Awaited
      <4> QED BY <4>1, <4>2, <4>3
    <3>4. CASE CoreReads
      <4>1. written[read + 1] \in Sent
        BY <1>0, <3>4 DEF CoreReads, Sent
      <4>2. CASE stdout' = stdout
        BY <2>3, <4>2 DEF Awaited
      <4>3. CASE stdout' = Append(stdout, written[read + 1])
        BY <3>3, <3>4, <4>1, <4>3 DEF CoreReads
      <4> QED BY <3>4, <4>2, <4>3 DEF CoreReads
    <3>5. CASE Tells
      BY <3>3, <3>5 DEF Tells
    <3> QED BY <1>2, <3>1, <3>2, <3>4, <3>5 DEF Streams
  <2> QED BY <2>1, <2>2, <2>3 DEF Awaited
<1> QED BY <1>1, <1>2, NoCommandMoves

\* Once its answer is read, or the command given up, nobody awaits it.
LEMMA NotAwaited ==
  ASSUME IInv, CommandOnce, AnswerOnce, NEW g \in Commands,
         \/ Drops(g) /\ UNCHANGED <<read, stdout>>
         \/ ReadFrame /\ Head(stdout) = <<g, 1>>
  PROVE  ~Awaited(g)'
PROOF
<1>0. written \in Seq(Frame) /\ stdout \in Seq(Sent) /\ read \in 0..Len(written) /\ Len(written) \in Nat
  BY DEF IInv, TypeOK
<1>1. ASSUME NEW i \in DOMAIN stdout, stdout[i][1] = g
      PROVE  InPipe(g) /\ \E k \in 1..read : written[k] = <<g, 1>> /\ stdout[i] = <<g, 1>>
  <2>1. PICK k \in 1..read : written[k] = stdout[i]
    BY <1>1 DEF AnswerOnce
  <2>2. k \in DOMAIN written /\ written[k][1] = g
    BY <1>0, <1>1, <2>1
  <2> QED BY <2>1, <2>2 DEF CommandOnce, InPipe
<1>2. CASE Drops(g) /\ UNCHANGED <<read, stdout>>
  <2>1. ~InPipe(g) /\ pc'[g] = "failed" /\ written' = written
    BY <1>2 DEF Drops, CommandOnce
  <2> QED BY <1>1, <1>2, <2>1 DEF Awaited, InPipe
<1>3. CASE ReadFrame /\ Head(stdout) = <<g, 1>>
  <2>0. /\ stdout # <<>> /\ stdout' = Tail(stdout) /\ UNCHANGED <<pc, read, written>>
        /\ 1 \in DOMAIN stdout /\ stdout[1] = <<g, 1>> /\ <<g, 1>>[1] = g
    BY <1>0, <1>3 DEF ReadFrame
  <2>1. PICK k \in 1..read : written[k] = <<g, 1>>
    BY <1>1, <2>0
  <2>2. pc'[g] = "ok"
    BY <1>1, <2>0 DEF CommandOnce
  <2>3. ASSUME NEW j \in DOMAIN written, j > read, written[j][1] = g PROVE FALSE
    <3>1. j \in DOMAIN written /\ k \in DOMAIN written /\ j # k
      BY <1>0, <2>1, <2>3
    <3>2. written[j] = written[k]
      BY <2>1, <2>3, <3>1 DEF CommandOnce
    <3> QED BY <2>3, <3>1, <3>2 DEF CommandOnce
  <2>4. ASSUME NEW i \in DOMAIN stdout', stdout'[i][1] = g PROVE FALSE
    <3>1. i \in Nat \ {0} /\ i + 1 \in DOMAIN stdout /\ stdout'[i] = stdout[i + 1]
      BY <1>0, <2>0
    <3>2. stdout[i + 1] = stdout[1]
      BY <1>1, <2>0, <2>4, <3>1
    <3>3. i + 1 = 1
      BY <2>0, <2>4, <3>1, <3>2 DEF AnswerOnce
    <3> QED BY <3>1, <3>3
  <2> QED BY <2>0, <2>2, <2>3, <2>4 DEF Awaited
<1> QED BY <1>2, <1>3

LEMMA AwaitedNamedKept ==
  ASSUME IInv, RegistryInv, Next
  PROVE  AwaitedNamed'
PROOF
<1>0. /\ TypeOK /\ CommandOnce /\ AnswerOnce /\ Registered /\ AwaitedNamed
      /\ pending \in Seq(Frame) /\ Len(pending) <= MaxPending /\ Distinct(pending)
      /\ \A f : In(pending, f) => \E g \in Commands : f = <<g, 1>> /\ pc[g] \notin {"call", "naming", "failed"}
  BY DEF IInv, TypeOK, RegistryInv, Registered, In
<1> SUFFICES ASSUME NEW g \in Commands, Awaited(g)', ~PushedOut(g)'
             PROVE  In(pending', <<g, 1>>)
  BY DEF AwaitedNamed
<1>1. ASSUME NEW c \in Commands, Names(c)
      PROVE  pending' = Insert(pending, <<c, 1>>) /\ ~In(pending, <<c, 1>>) /\ <<c, 1>> \in Frame
  BY <1>0, <1>1, TaskNames DEF Names, Frame
<1>2. CASE Names(g)
  BY <1>0, <1>1, <1>2, InsertSays
<1>3. CASE ~Names(g)
  <2>1. In(pending, <<g, 1>>)
    BY <1>0, <1>3, AwaitedBefore, PushedOutStays DEF AwaitedNamed
  <2>2. ASSUME NEW c \in Commands, Writer(c) PROVE In(pending', <<g, 1>>)
    <3>0. UNCHANGED <<read, stdout>>
      BY <1>0, <2>2, CommandMoves
    <3>1. CASE Walks(c) \/ Puts(c)
      BY <2>1, <3>1 DEF Walks, Puts
    <3>2. CASE Names(c)
      <4> SUFFICES ASSUME ~In(pending', <<g, 1>>) PROVE FALSE
        OBVIOUS
      <4>1. Len(pending) = MaxPending
        BY <1>0, <1>1, <2>1, <3>2, InsertSays
      <4>2. Asked \subseteq Asked' /\ IsFiniteSet(Asked')
        BY <1>0, AskedGrows
      <4>3. c \in Asked'
        BY <3>2 DEF Names, Asked
      <4>4. \A i \in DOMAIN pending : pending[i][1] \in Asked' /\ pending[i] = <<pending[i][1], 1>>
        BY <1>0, <4>2 DEF In, Asked
      <4>5. ~In(pending, <<c, 1>>)
        BY <1>1, <3>2
      <4>6. Cardinality(Asked' \ {g}) >= MaxPending
        BY <1>0, <2>1, <4>1, <4>2, <4>3, <4>4, <4>5, FullCounts
      <4> QED BY <4>6 DEF PushedOut
    <3>3. CASE Drops(c)
      <4>1. c # g
        <5> SUFFICES ASSUME c = g PROVE FALSE
          OBVIOUS
        <5>1. Drops(g) /\ UNCHANGED <<read, stdout>>
          BY <3>0, <3>3
        <5>2. ~Awaited(g)'
          BY <1>0, <5>1, NotAwaited
        <5> QED BY <5>2
      <4> QED BY <1>0, <2>1, <3>3, <4>1, WithoutSays DEF Drops
    <3> QED BY <1>0, <2>2, <3>1, <3>2, <3>3, CommandMoves
  <2>3. CASE Streams
    <3>1. CASE pending' = pending
      BY <2>1, <3>1
    <3>2. CASE ReadFrame
      <4>1. Head(stdout) # <<g, 1>>
        BY <1>0, <3>2, NotAwaited
      <4> QED BY <1>0, <2>1, <3>2, <4>1, WithoutSays DEF ReadFrame
    <3> QED BY <2>3, <3>1, <3>2 DEF Streams, CoreReads, Tells
  <2> QED BY <1>0, <2>2, <2>3, NoCommandMoves
<1> QED BY <1>2, <1>3

LEMMA RegistryBegins == Init => RegistryInv
PROOF
<1> SUFFICES ASSUME Init PROVE RegistryInv
  OBVIOUS
<1>1. /\ \A g \in Commands : pc[g] = "call" /\ at[g] = 0
      /\ \A p \in Prompts : pc[p] = "call"
      /\ read = 0
  BY TaskNames DEF Init
<1>2. written = <<>> /\ stdout = <<>> /\ pending = <<>>
  BY DEF Init
<1>3. Asked = {}
  BY <1>1 DEF Asked
<1>4. CommandOnce /\ AnswerOnce
  BY <1>1, <1>2 DEF CommandOnce, AnswerOnce, InPipe
<1>5. Registered
  BY <1>1, <1>2, <1>3, FS_EmptySet DEF Registered, Distinct
<1>6. AwaitedNamed
  BY <1>1, <1>2 DEF AwaitedNamed, Awaited
<1> QED BY <1>4, <1>5, <1>6 DEF RegistryInv

\* What is in the registry, the pipe and the answers goes together, always.
THEOREM RegistryInvariant == Spec => []RegistryInv
PROOF
<1>1. IInv /\ RegistryInv /\ Next => RegistryInv'
  BY CommandOnceKept, AnswerOnceKept, RegisteredKept, AwaitedNamedKept DEF RegistryInv
<1>2. RegistryInv /\ UNCHANGED vars => RegistryInv'
  BY DEF vars, session, pipes, proc, told, RegistryInv, CommandOnce, AnswerOnce, Registered, AwaitedNamed,
    InPipe, Asked, Awaited, PushedOut
<1>3. IInv /\ RegistryInv /\ [Next]_vars => RegistryInv'
  BY <1>1, <1>2
<1> QED BY RegistryBegins, Invariant, <1>3, PTL DEF Spec

\* The answer to a command finds its name unless MaxPending other commands
\* have come since, and a command that failed leaves no name behind
\* (SessionPipe's PendingExact), for every MaxPending and any number of calls.
THEOREM RegistryExact == Spec => []PendingExact
PROOF
<1>1. IInv /\ RegistryInv => PendingExact
  <2> SUFFICES ASSUME IInv, RegistryInv PROVE AnswersNamed /\ NothingForgotten
    BY DEF PendingExact
  <2>1. NothingForgotten
    <3> SUFFICES ASSUME NEW i \in DOMAIN pending PROVE pc[pending[i][1]] # "failed"
      BY DEF NothingForgotten
    <3>1. PICK g \in Commands : pending[i] = <<g, 1>> /\ pc[g] \notin {"call", "naming", "failed"}
      BY DEF RegistryInv, Registered
    <3>2. pending[i][1] = g
      BY <3>1
    <3> QED BY <3>1, <3>2
  <2>2. AnswersNamed
    <3> SUFFICES ASSUME NEW i \in DOMAIN stdout, stdout[i][1] \in Commands
                 PROVE  \/ \E j \in DOMAIN pending : pending[j] = stdout[i]
                        \/ Cardinality({g \in Commands \ {stdout[i][1]} : pc[g] \notin {"call", "naming"}})
                             >= MaxPending
      BY DEF AnswersNamed
    <3> DEFINE h == stdout[i][1]
    <3>1. Awaited(h)
      BY DEF Awaited
    <3>2. stdout[i] = <<h, 1>>
      <4>1. PICK k \in 1..read : written[k] = stdout[i]
        BY DEF RegistryInv, AnswerOnce
      <4>2. k \in DOMAIN written
        BY <4>1 DEF IInv, TypeOK
      <4> QED BY <4>1, <4>2 DEF RegistryInv, CommandOnce
    <3>3. Asked \ {h} = {g \in Commands \ {h} : pc[g] \notin {"call", "naming"}}
      BY DEF Asked
    <3> QED BY <3>1, <3>2, <3>3 DEF RegistryInv, AwaitedNamed, In, PushedOut
  <2> QED BY <2>1, <2>2
<1> QED BY <1>1, Invariant, RegistryInvariant, PTL

(***************************************************************************)
(* The client is told what SessionStatus says.                             *)
(***************************************************************************)
Ended == {"reaping", "killing", "announcing", "done"}
Over ==
  \/ ~open
  \/ \E i \in DOMAIN stdout : stdout[i] \in {Closed, Bad}
  \/ announced \/ pc["reader"] \in Ended

\* The end of a stream is never taken back.
LEMMA OverStays ==
  ASSUME TypeOK, Told, Over, Next
  PROVE  Over'
PROOF
<1> USE TaskNames DEF session, pipes, proc, told
<1>0. pc \in [Callers \cup {"create", "reader"} -> Labels] /\ open \in BOOLEAN
  BY DEF TypeOK
<1>1. CASE announced \/ pc["reader"] \in Ended
  <2>1. announced' \/ pc'["reader"] \in Ended
    <3>1. CASE Server
      BY <1>0, <1>1, <3>1 DEF Server, Create, SpawnFails, EmitUp, StartReader, Reply, ReadFrame, ReadEnd, ReapChild,
      KillChild, Announce, Go, Told, Ended
    <3>2. CASE \E g \in Prompts \cup Commands : Writer(g)
      BY <1>0, <1>1, <3>2 DEF Writer, Sends, Refs, Register, Check, Lock, Write, WriteFails, Refuse, Forget, Go, Ended
    <3>3. CASE \E k \in Closers : Closer(k)
      BY <1>0, <1>1, <3>3 DEF Closer, Close, TakeChild, TryLock, GiveUp, Write, WriteFails, CloseStdin, GraceOver,
      SigKill, Go, Ended
    <3>4. CASE Environment
      BY <1>1, <3>4 DEF Environment, CoreReads, CoreSends, CoreStalls, CoreEnds, CoreHushes, CoreExits,
      HolderExits
    <3> QED BY <3>1, <3>2, <3>3, <3>4 DEF Next
  <2> QED BY <2>1 DEF Over
<1>2. CASE ~open
  <2>1. ~open'
    <3>1. CASE Server
      BY <1>0, <1>2, <3>1 DEF Server, Create, SpawnFails, EmitUp, StartReader, Reply, ReadFrame, ReadEnd, ReapChild,
      KillChild, Announce, Exits
    <3>2. CASE \E g \in Prompts \cup Commands : Writer(g)
      BY <1>2, <3>2 DEF Writer, Sends, Refs, Register, Check, Lock, Write, WriteFails, Refuse, Forget
    <3>3. CASE \E k \in Closers : Closer(k)
      BY <1>0, <1>2, <3>3 DEF Closer, Close, TakeChild, TryLock, GiveUp, Write, WriteFails, CloseStdin, GraceOver,
      SigKill, Exits
    <3>4. CASE Environment
      BY <1>0, <1>2, <3>4 DEF Environment, CoreReads, CoreSends, CoreStalls, CoreEnds, CoreHushes, CoreExits,
      HolderExits, Exits
    <3> QED BY <3>1, <3>2, <3>3, <3>4 DEF Next
  <2> QED BY <2>1 DEF Over
<1>3. CASE \E i \in DOMAIN stdout : stdout[i] \in {Closed, Bad}
  <2> PICK i \in DOMAIN stdout : stdout[i] \in {Closed, Bad}
    BY <1>3
  <2>0. stdout \in Seq(Sent) /\ i \in 1..Len(stdout)
    BY DEF TypeOK
  <2>1. CASE stdout' = stdout
    BY <2>1 DEF Over
  <2>2. CASE ReadFrame
    <3>1. CASE i = 1
      <4>1. Head(stdout) = Closed
        BY <2>0, <2>2, <3>1 DEF ReadFrame
      <4>2. announced'
        BY <2>2, <4>1 DEF ReadFrame
      <4> QED BY <4>2 DEF Over
    <3>2. CASE i # 1
      <4>1. i - 1 \in DOMAIN Tail(stdout) /\ Tail(stdout)[i - 1] = stdout[i]
        BY <2>0, <3>2
      <4> QED BY <2>2, <4>1 DEF ReadFrame, Over
    <3> QED BY <3>1, <3>2
  <2>3. CASE CoreReads \/ CoreSends \/ CoreEnds
    <3>1. \A f \in Sent : i \in DOMAIN Append(stdout, f) /\ Append(stdout, f)[i] = stdout[i]
      BY <2>0
    <3>2. CoreReads => written[read + 1] \in Frame
      BY DEF CoreReads, TypeOK
    <3>3. stdout' = stdout \/ \E f \in Sent : stdout' = Append(stdout, f)
      BY <2>3, <3>2 DEF CoreReads, CoreSends, CoreEnds, Sent
    <3> QED BY <2>1, <3>1, <3>3 DEF Over
  <2>4. CASE Server
    BY <2>1, <2>2, <2>4 DEF Server, Create, SpawnFails, EmitUp, StartReader, Reply, ReadEnd, ReapChild,
      KillChild, Announce
  <2>5. CASE \E g \in Prompts \cup Commands : Writer(g)
    BY <2>1, <2>5 DEF Writer, Sends, Refs, Register, Check, Lock, Write, WriteFails, Refuse, Forget
  <2>6. CASE \E k \in Closers : Closer(k)
    BY <2>1, <2>6 DEF Closer, Close, TakeChild, TryLock, GiveUp, Write, WriteFails, CloseStdin, GraceOver,
      SigKill
  <2>7. CASE Environment
    BY <2>1, <2>3, <2>7 DEF Environment, CoreStalls, CoreHushes, CoreExits, HolderExits
  <2> QED BY <2>4, <2>5, <2>6, <2>7 DEF Next
<1> QED BY <1>1, <1>2, <1>3 DEF Over

\* Each core-status event is a step of SessionStatus.
LEMMA SaidSteps ==
  ASSUME TypeOK, Told, Next
  PROVE  \/ said' = said
         \/ said = <<>> /\ said' = <<"up">> /\ (Over' <=> Over)
         \/ said = <<"up">> /\ said' = <<"up", "down">> /\ Over /\ Over'
PROOF
<1> USE TaskNames DEF session, pipes, proc, told
<1>0. pc \in [Callers \cup {"create", "reader"} -> Labels]
  BY DEF TypeOK
<1>1. CASE EmitUp
  <2>1. said' = <<"up">> /\ said = <<>>
    BY <1>1, Both DEF EmitUp, Go, Told
  <2>2. Over' <=> Over
    BY <1>0, <1>1 DEF EmitUp, Go, Over
  <2> QED BY <2>1, <2>2
<1>2. CASE ReadFrame
  <2>1. CASE Head(stdout) = Closed /\ ~announced
    <3>1. said = <<"up">> /\ said' = <<"up", "down">> /\ announced'
      BY <1>2, <2>1, Both DEF ReadFrame, Told
    <3>2. 1 \in DOMAIN stdout /\ stdout[1] = Closed
      BY <1>2, <2>1 DEF ReadFrame, TypeOK
    <3> QED BY <3>1, <3>2 DEF Over
  <2>2. CASE ~(Head(stdout) = Closed /\ ~announced)
    BY <1>2, <2>2 DEF ReadFrame
  <2> QED BY <2>1, <2>2
<1>3. CASE Announce
  <2>1. pc["reader"] = "announcing" /\ pc'["reader"] = "done" /\ pc["create"] \in {"reply", "done"}
    BY <1>0, <1>3 DEF Announce, Go, Told
  <2>2. CASE announced
    BY <1>3, <2>2 DEF Announce
  <2>3. CASE ~announced
    <3>1. said = <<"up">> /\ said' = Append(said, "down")
      BY <1>3, <2>1, <2>3 DEF Announce, Told
    <3> QED BY <2>1, <3>1, Both DEF Over, Ended
  <2> QED BY <2>2, <2>3
<1>4. CASE Server
  BY <1>1, <1>2, <1>3, <1>4 DEF Server, Create, SpawnFails, StartReader, Reply, ReadEnd, ReapChild, KillChild
<1>5. CASE \E g \in Prompts \cup Commands : Writer(g)
  BY <1>5 DEF Writer, Sends, Refs, Register, Check, Lock, Write, WriteFails, Refuse, Forget
<1>6. CASE \E k \in Closers : Closer(k)
  BY <1>6 DEF Closer, Close, TakeChild, TryLock, GiveUp, Write, WriteFails, CloseStdin, GraceOver,
      SigKill
<1>7. CASE Environment
  BY <1>7 DEF Environment, CoreReads, CoreSends, CoreStalls, CoreEnds, CoreHushes, CoreExits,
      HolderExits
<1> QED BY <1>4, <1>5, <1>6, <1>7 DEF Next

\* Up once, then down once, and down only when the stream is over: the safety
\* part of StatusKept.
THEOREM StatusInOrder == Spec => Status!Safety
PROOF
<1>1. Init => Status!Init
  <2> SUFFICES ASSUME Init PROVE ~Over /\ said = <<>>
    BY DEF Status!Init, Over, Ended
  <2> QED BY TaskNames DEF Init, Over, Ended
<1>2. IInv /\ [Next]_vars => [Status!Next]_(Status!vars)
  <2>1. CASE UNCHANGED vars
    BY <2>1 DEF vars, session, pipes, proc, told, Status!vars
  <2>2. ASSUME IInv, Next PROVE [Status!Next]_(Status!vars)
    <3>1. TypeOK /\ Told
      BY <2>2 DEF IInv
    <3>2. Over => Over'
      BY <2>2, <3>1, OverStays
    <3>3. CASE said' = said
      <4>1. CASE Over' <=> Over
        BY <3>3, <4>1 DEF Status!vars, Over, Ended
      <4>2. CASE ~Over /\ Over'
        BY <3>3, <4>2 DEF Status!Next, Status!Over, Over, Ended
      <4> QED BY <3>2, <4>1, <4>2
    <3>4. CASE said = <<>> /\ said' = <<"up">> /\ (Over' <=> Over)
      BY <3>4 DEF Status!Next, Status!Up, Over, Ended
    <3>5. CASE said = <<"up">> /\ said' = <<"up", "down">> /\ Over /\ Over'
      BY <3>5 DEF Status!Next, Status!Down, Over, Ended
    <3> QED BY <2>2, <3>1, <3>3, <3>4, <3>5, SaidSteps
  <2> QED BY <2>1, <2>2
<1> QED BY <1>1, <1>2, Invariant, PTL DEF Spec, Status!Safety
=============================================================================
