-------------------------- MODULE BackendWaitsProofs --------------------------
(***************************************************************************)
(* What every behaviour of BackendWaits satisfies, for any number of calls *)
(* of any of its commands.                                                 *)
(***************************************************************************)
EXTENDS BackendWaits, TLAPS

(***************************************************************************)
(* The inductive invariant: a call has a temporary core or a connection    *)
(* only where it uses one, returns nothing before it starts, and keeps its *)
(* command while it is at work on it.                                      *)
(***************************************************************************)
Using == {"probing", "reading", "kept", "announcing", "listening", "accepted", "sending"}

Shape ==
  \A c \in Callers :
    /\ pc[c] \notin Using => peer[c] = "none"
    /\ pc[c] = "idle" => ret[c] = "none"
    /\ pc[c] = "announcing" => op[c] = "check"
    /\ pc[c] \in {"listening", "accepted", "sending"} => op[c] = "auth"

IInv == TypeOK /\ Shape /\ NoLostWakeup /\ AnswersFit

LEMMA InitInv == Init => IInv
PROOF BY DEF Init, IInv, TypeOK, Shape, NoLostWakeup, AnswersFit, Labels, Lists, Using, Setters

\* A step of one call, whichever it is, as far as the invariant can tell.
Acts(c) == Start(c) \/ Continue(c) \/ Read(c) \/ Expire(c) \/ Outside(c)

(***************************************************************************)
(* Types and shape                                                         *)
(***************************************************************************)
LEMMA EndedKeeps ==
  ASSUME TypeOK, Shape, NEW c \in Callers, NEW output, Ended(c, output),
         UNCHANGED <<session, cacheVars, op, woken, did, request>>
  PROVE  TypeOK' /\ Shape'
PROOF
<1> DEFINE r == IF op[c] \in Commanding
                THEN IF output = "ours" THEN "done" ELSE "error"
                ELSE IF models[c] = "none" THEN "empty" ELSE models[c]
<1>1. r \in Lists \cup {"none", "done", "error", "mcp_confirm", "mcp_decline"}
  BY DEF TypeOK, Lists
<1>2. ret' = [ret EXCEPT ![c] = r] /\ pc' = [pc EXCEPT ![c] = "over"]
  BY DEF Ended, Return
<1>3. /\ peer' = [peer EXCEPT ![c] = "none"]
      /\ models' = [models EXCEPT ![c] = "none"]
      /\ late' = [late EXCEPT ![c] = FALSE]
  BY DEF Ended
<1> HIDE DEF r
<1>4. TypeOK'
  BY <1>1, <1>2, <1>3 DEF TypeOK, Labels, cacheVars
<1>5. Shape'
  BY <1>2, <1>3 DEF TypeOK, Shape, Using
<1> QED BY <1>4, <1>5

LEMMA TypeStep ==
  ASSUME TypeOK, Shape, NEW c \in Callers, Acts(c)
  PROVE  TypeOK' /\ Shape'
PROOF
<1> USE DEF TypeOK, Shape, Labels, Lists, Requests, Commands, Using, Go, Return, cacheVars, probe
<1>1. CASE Start(c)
  BY <1>1 DEF Start, ListModels, ModelCommand, CheckAlayacore, StartMcpAuth, Commanding
<1>2. CASE Get(c) \/ Pick(c) \/ Ask(c) \/ Check(c) \/ Enroll(c) \/ Recheck(c) \/ Wake(c)
  <2>1. CASE Get(c)
    BY <2>1 DEF Get
  <2>2. CASE Pick(c) \/ Ask(c) \/ Check(c) \/ Enroll(c) \/ Recheck(c)
    BY <2>2 DEF Pick, Ask, Check, Enroll, Recheck
  <2>3. CASE Wake(c)
    BY <2>3 DEF Wake
  <2> QED BY <1>2, <2>1, <2>2, <2>3
<1>3. CASE TempCoreSpawn(c) \/ SpawnFails(c) \/ ProbeTurn(c) \/ ProbeKept(c) \/ RecvTimeout(c)
  <2>1. CASE TempCoreSpawn(c)
    BY <2>1 DEF TempCoreSpawn
  <2>2. CASE SpawnFails(c)
    BY <2>2 DEF SpawnFails
  <2>3. CASE ProbeTurn(c)
    <3>1. CASE Ended(c, "none")
      BY <2>3, <3>1, EndedKeeps DEF ProbeTurn
    <3>2. CASE ~late[c] /\ Go(c, "probing", "reading") /\ UNCHANGED <<late, peer, models, ret>>
      BY <2>3, <3>2 DEF ProbeTurn
    <3> QED BY <2>3, <3>1, <3>2 DEF ProbeTurn
  <2>4. CASE ProbeKept(c)
    <3>1. CASE Ended(c, "none")
      BY <2>4, <3>1, EndedKeeps DEF ProbeKept
    <3>2. CASE Go(c, "kept", "probing") /\ UNCHANGED <<late, peer, models, ret>>
      BY <2>4, <3>2 DEF ProbeKept
    <3> QED BY <2>4, <3>1, <3>2 DEF ProbeKept
  <2>5. CASE RecvTimeout(c)
    BY <2>5 DEF RecvTimeout, CheckOver
  <2> QED BY <1>3, <2>1, <2>2, <2>3, <2>4, <2>5
<1>4. CASE Accept(c) \/ AuthDeadline(c) \/ AuthFails(c) \/ SendMcpResult(c)
  BY <1>4 DEF Accept, AuthDeadline, AuthFails, SendMcpResult, Decide
<1>5. CASE ProbeModels(c)
  BY <1>5 DEF ProbeModels, Assign, Setters
<1>6. CASE ProbeOutput(c) \/ ProbeOther(c) \/ ProbeEof(c)
  <2>1. CASE ProbeOutput(c)
    <3>1. CASE \E output \in {"ours", "refusal", "other"} : Ended(c, output)
      BY <2>1, <3>1, EndedKeeps DEF ProbeOutput
    <3>2. CASE Go(c, "reading", "probing") /\ UNCHANGED <<late, peer, models, ret>>
      BY <2>1, <3>2 DEF ProbeOutput
    <3> QED BY <2>1, <3>1, <3>2 DEF ProbeOutput
  <2>2. CASE ProbeOther(c)
    BY <2>2 DEF ProbeOther
  <2>3. CASE ProbeEof(c)
    BY <2>3, EndedKeeps DEF ProbeEof
  <2> QED BY <1>6, <2>1, <2>2, <2>3
<1>7. CASE VersionFrame(c)
  BY <1>7 DEF VersionFrame, CheckOver
<1>8. CASE ReadLine(c)
  BY <1>8 DEF ReadLine, Decide, Verdict
<1>9. CASE Expire(c)
  BY <1>9 DEF Expire
<1>10. CASE Outside(c)
  <2>1. CASE TempActs(c)
    BY <2>1 DEF TempActs
  <2>2. CASE BrowserConnects(c)
    BY <2>2 DEF BrowserConnects
  <2>3. CASE PeerEnds(c)
    BY <2>3 DEF PeerEnds
  <2> QED BY <1>10, <2>1, <2>2, <2>3 DEF Outside
<1> QED BY <1>1, <1>2, <1>3, <1>4, <1>5, <1>6, <1>7, <1>8, <1>9, <1>10 DEF Acts, Continue, Read

\* What others do: a list for the session, its core, and a notification.
LEMMA TypeOthers ==
  ASSUME TypeOK, Shape, ModelList \/ SessionChanges \/ \E s \in Setters : Notify(s)
  PROVE  TypeOK' /\ Shape'
PROOF
<1> USE DEF TypeOK, Shape, Lists, Using, cacheVars, probe
<1>1. CASE ModelList
  BY <1>1 DEF ModelList, Assign, Setters
<1>2. CASE SessionChanges
  BY <1>2 DEF SessionChanges
<1>3. CASE \E s \in Setters : Notify(s)
  BY <1>3 DEF Notify, Enrolled
<1> QED BY <1>1, <1>2, <1>3

(***************************************************************************)
(* No wakeup is lost                                                       *)
(***************************************************************************)
LEMMA WakeupStep ==
  ASSUME TypeOK, NoLostWakeup, NEW c \in Callers, Acts(c)
  PROVE  NoLostWakeup'
PROOF
<1> USE DEF TypeOK, NoLostWakeup, Go, Return, cacheVars, probe
<1>1. CASE Start(c)
  BY <1>1 DEF Start, ListModels, ModelCommand, CheckAlayacore, StartMcpAuth
<1>2. CASE Get(c) \/ Pick(c) \/ Ask(c) \/ Check(c) \/ Enroll(c)
  BY <1>2 DEF Get, Pick, Ask, Check, Enroll
<1>3. CASE Recheck(c)
  BY <1>3 DEF Recheck
<1>4. CASE Wake(c)
  BY <1>4 DEF Wake
<1>5. CASE TempCoreSpawn(c) \/ SpawnFails(c) \/ RecvTimeout(c) \/ VersionFrame(c) \/ Expire(c)
  BY <1>5 DEF TempCoreSpawn, SpawnFails, RecvTimeout, VersionFrame, CheckOver, Expire
<1>6. CASE Accept(c) \/ AuthDeadline(c) \/ AuthFails(c) \/ SendMcpResult(c) \/ ReadLine(c)
  BY <1>6 DEF Accept, AuthDeadline, AuthFails, SendMcpResult, ReadLine, Decide
<1>7. CASE ProbeTurn(c) \/ ProbeKept(c) \/ ProbeOther(c)
  BY <1>7 DEF ProbeTurn, ProbeKept, ProbeOther, Ended
<1>8. CASE ProbeModels(c)
  BY <1>8 DEF ProbeModels, Assign
<1>9. CASE ProbeOutput(c) \/ ProbeEof(c)
  BY <1>9 DEF ProbeOutput, ProbeEof, Ended
<1>10. CASE Outside(c)
  BY <1>10 DEF Outside, TempActs, BrowserConnects, PeerEnds
<1> QED BY <1>1, <1>2, <1>3, <1>4, <1>5, <1>6, <1>7, <1>8, <1>9, <1>10 DEF Acts, Continue, Read

LEMMA WakeupOthers ==
  ASSUME TypeOK, NoLostWakeup, ModelList \/ SessionChanges \/ \E s \in Setters : Notify(s)
  PROVE  NoLostWakeup'
PROOF
<1> USE DEF TypeOK, NoLostWakeup, cacheVars, probe
<1>1. CASE ModelList
  BY <1>1 DEF ModelList, Assign
<1>2. CASE SessionChanges
  BY <1>2 DEF SessionChanges
<1>3. ASSUME NEW s \in Setters, Notify(s) PROVE NoLostWakeup'
  BY <1>3 DEF Notify, Enrolled
<1> QED BY <1>1, <1>2, <1>3

(***************************************************************************)
(* Answers fit                                                             *)
(***************************************************************************)
LEMMA AnswerStep ==
  ASSUME TypeOK, Shape, AnswersFit, NEW c \in Callers, Acts(c)
  PROVE  AnswersFit'
PROOF
<1> USE DEF TypeOK, AnswersFit, Go, Return, cacheVars, probe, Commanding, Commands
<1>1. CASE Start(c)
  BY <1>1 DEF Start, ListModels, ModelCommand, CheckAlayacore, StartMcpAuth, Shape
<1>2. CASE Get(c)
  BY <1>2 DEF Get, Lists
<1>3. CASE Pick(c) \/ Ask(c) \/ Check(c) \/ Enroll(c) \/ Recheck(c) \/ Wake(c) \/ TempCoreSpawn(c)
  BY <1>3 DEF Pick, Ask, Check, Enroll, Recheck, Wake, TempCoreSpawn
<1>4. CASE SpawnFails(c) \/ Accept(c) \/ AuthDeadline(c) \/ AuthFails(c) \/ SendMcpResult(c)
  BY <1>4 DEF SpawnFails, Accept, AuthDeadline, AuthFails, SendMcpResult, Decide
<1>5. CASE RecvTimeout(c) \/ VersionFrame(c)
  BY <1>5 DEF RecvTimeout, VersionFrame, CheckOver, Shape
<1>6. CASE ReadLine(c)
  BY <1>6 DEF ReadLine, Decide, Verdict, Shape
<1>7. CASE ProbeTurn(c) \/ ProbeKept(c) \/ ProbeOther(c) \/ ProbeEof(c)
  BY <1>7 DEF ProbeTurn, ProbeKept, ProbeOther, ProbeEof, Ended, Lists
<1>8. CASE ProbeModels(c)
  BY <1>8 DEF ProbeModels
<1>9. CASE ProbeOutput(c)
  BY <1>9 DEF ProbeOutput, Ended, Lists
<1>10. CASE Expire(c)
  BY <1>10 DEF Expire
<1>11. CASE Outside(c)
  BY <1>11 DEF Outside, TempActs, BrowserConnects, PeerEnds
<1> QED BY <1>1, <1>2, <1>3, <1>4, <1>5, <1>6, <1>7, <1>8, <1>9, <1>10, <1>11
      DEF Acts, Continue, Read

LEMMA AnswerOthers ==
  ASSUME AnswersFit, ModelList \/ SessionChanges \/ \E s \in Setters : Notify(s)
  PROVE  AnswersFit'
PROOF BY DEF AnswersFit, ModelList, SessionChanges, Notify, Assign, probe, Commanding

(***************************************************************************)
(* The theorems                                                            *)
(***************************************************************************)
LEMMA Invariant == Spec => []IInv
PROOF
<1>1. IInv /\ [Next]_vars => IInv'
  <2> SUFFICES ASSUME IInv, [Next]_vars PROVE IInv'
    OBVIOUS
  <2>1. CASE UNCHANGED vars
    BY <2>1 DEF IInv, TypeOK, Shape, NoLostWakeup, AnswersFit, vars, cacheVars, probe
  <2>2. CASE ModelList \/ SessionChanges \/ \E s \in Setters : Notify(s)
    BY <2>2, TypeOthers, WakeupOthers, AnswerOthers DEF IInv
  <2>3. ASSUME NEW c \in Callers, Acts(c) PROVE IInv'
    BY <2>3, TypeStep, WakeupStep, AnswerStep DEF IInv
  <2> QED BY <2>1, <2>2, <2>3 DEF Next, Acts
<1> QED BY <1>1, InitInv, PTL DEF Spec

\* Every variable keeps its shape, and no call that is over has left a
\* temporary core or a connection behind (run_temp_probe, read_version_frame).
THEOREM TypeCorrect == Spec => []TypeOK
PROOF
<1>1. IInv => TypeOK
  BY DEF IInv
<1> QED BY <1>1, Invariant, PTL

\* However many waiters and setters meet on the cache, a waiter that sleeps
\* on a full one is about to be woken (ModelCache::wait_non_empty).
THEOREM WakeupsArrive == Spec => []NoLostWakeup
PROOF
<1>1. IInv => NoLostWakeup
  BY DEF IInv
<1> QED BY <1>1, Invariant, PTL

\* A model command says done, and a flow is confirmed, only for what was
\* asked (run_temp_probe, start_mcp_auth_inner).
THEOREM AnswersAsked == Spec => []AnswersFit
PROOF
<1>1. IInv => AnswersFit
  BY DEF IInv
<1> QED BY <1>1, Invariant, PTL
=============================================================================
