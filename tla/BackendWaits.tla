---------------------------- MODULE BackendWaits ----------------------------
(***************************************************************************)
(* The commands of the desktop backend that wait for something outside it: *)
(* list_models and the model commands (commands/models.rs, the ModelCache  *)
(* of lib.rs), the version check of a binary (alayacore.rs,                *)
(* commands/cmd.rs), and the callback server of an MCP authorisation       *)
(* (commands/mcp.rs), whose thread is the call that started it.  They      *)
(* share the cache and one live session.                                   *)
(*                                                                         *)
(* Time is a matter of order: a deadline is an action that may come at any *)
(* moment.  A write to the session blocks while its core is stuck; how the *)
(* write itself goes on is SessionPipe's subject.                          *)
(***************************************************************************)
EXTENDS Naturals, FiniteSets

CONSTANTS
  Callers,     \* calls of these commands
  May,         \* bound: the commands each of them may be
  Reader       \* the stdout reader of the session

Commands == {"list", "default", "set", "sync", "check", "auth"}

ASSUME WaitsAssumption == Reader \notin Callers /\ May \in [Callers -> SUBSET Commands]

Setters == Callers \cup {Reader}

VARIABLES
  session,     \* "up", "stuck" (its core does not drain stdin), "down"
  cache,       \* ModelCacheInner.models
  tell,        \* who has assigned it and not yet notified
  op, pc,
  woken,       \* the Notified of a waiter has fired
  late,        \* the two seconds of a waiter, or the five of a probe, are over
  peer,        \* the temporary core of a call, or the connection of the browser
  did,         \* the command that core was sent has taken effect
  models,      \* ProbeResult.models
  request,     \* what the browser asked for
  ret          \* what a call returns, or its thread sends to the session

cacheVars == <<cache, tell>>
probe == <<late, peer, did, models>>
vars == <<session, cacheVars, op, pc, woken, probe, request, ret>>

Lists == {"empty", "full"}
Commanding == {"set", "sync"}       \* run_temp_probe with a command
Caching == {"list", "sync"}         \* run_temp_probe with the cache

\* A request line carries an error, another flow's state or none, the flow's
\* state without a code, or all that is wanted; the end of the stream reads
\* as a line without parameters.
Requests == {"error", "stateless", "codeless", "granting"}

Init ==
  /\ session \in {"up", "down"}
  /\ cache = "empty" /\ tell = {}
  /\ op = [c \in Callers |-> "none"]
  /\ pc = [c \in Callers |-> "idle"]
  /\ woken = [c \in Callers |-> FALSE]
  /\ late = [c \in Callers |-> FALSE]
  /\ peer = [c \in Callers |-> "none"]
  /\ did = [c \in Callers |-> FALSE]
  /\ models = [c \in Callers |-> "none"]
  /\ request = [c \in Callers |-> "none"]
  /\ ret = [c \in Callers |-> "none"]

Go(c, from, to) == pc[c] = from /\ pc' = [pc EXCEPT ![c] = to]
Return(c, r) == pc' = [pc EXCEPT ![c] = "over"] /\ ret' = [ret EXCEPT ![c] = r]

(***************************************************************************)
(* ModelCache                                                              *)
(***************************************************************************)
\* ModelCacheInner::set assigns under its lock, and notifies after it.
Assign(s, l) == s \notin tell /\ cache' = l /\ tell' = tell \cup {s}

\* A Notified counts from its creation, polled or not.
Enrolled(c) == pc[c] \in {"enrolled", "sleeping"}
Notify(s) ==
  /\ s \in tell
  /\ tell' = tell \ {s}
  /\ woken' = [c \in Callers |-> woken[c] \/ Enrolled(c)]
  /\ UNCHANGED <<session, cache, op, pc, probe, request, ret>>

\* dispatch_frame, for any model_list the session's core sends.
ModelList ==
  /\ session # "down"
  /\ \E l \in Lists : Assign(Reader, l)
  /\ UNCHANGED <<session, op, pc, woken, probe, request, ret>>

(***************************************************************************)
(* list_models                                                             *)
(***************************************************************************)
ListModels(c) ==
  /\ "list" \in May[c]
  /\ Go(c, "idle", IF cache = "full" THEN "getting" ELSE "picking")
  /\ op' = [op EXCEPT ![c] = "list"]
  /\ UNCHANGED <<session, cacheVars, woken, probe, request, ret>>

\* The cache is looked at and copied under two locks.
Get(c) ==
  /\ pc[c] = "getting"
  /\ Return(c, cache)
  /\ UNCHANGED <<session, cacheVars, op, woken, probe, request>>

\* The target is chosen under the map lock, written to after it.
Pick(c) ==
  /\ Go(c, "picking", IF session = "down" THEN "spawning" ELSE "asking")
  /\ UNCHANGED <<session, cacheVars, op, woken, probe, request, ret>>

\* send_cmd model_load
Ask(c) ==
  /\ session # "stuck"
  /\ Go(c, "asking", IF session = "up" THEN "checking" ELSE "spawning")
  /\ UNCHANGED <<session, cacheVars, op, woken, probe, request, ret>>

\* wait_non_empty: look, make a Notified, look again, await it; within
\* tokio::time::timeout, which polls it before its own timer.
Check(c) ==
  /\ Go(c, "checking", IF cache = "full" THEN "getting" ELSE "enrolling")
  /\ UNCHANGED <<session, cacheVars, op, woken, probe, request, ret>>

Enroll(c) ==
  /\ Go(c, "enrolling", "enrolled")
  /\ UNCHANGED <<session, cacheVars, op, woken, probe, request, ret>>

Recheck_Skipped(c) ==
  /\ Go(c, "enrolled", IF late[c] THEN "spawning" ELSE "sleeping")
  /\ UNCHANGED <<session, cacheVars, op, woken, probe, request, ret>>
Recheck(c) ==
  /\ Go(c, "enrolled", IF cache = "full" THEN "getting" ELSE IF late[c] THEN "spawning" ELSE "sleeping")
  /\ UNCHANGED <<session, cacheVars, op, woken, probe, request, ret>>

\* The Notified is dropped, whether it fired or the time is up.
Wake(c) ==
  /\ woken[c] \/ late[c]
  /\ Go(c, "sleeping", IF woken[c] THEN "checking" ELSE "spawning")
  /\ woken' = [woken EXCEPT ![c] = FALSE]
  /\ UNCHANGED <<session, cacheVars, op, probe, request, ret>>

(***************************************************************************)
(* run_temp_probe, and its callers list_default_models, set_default_model  *)
(* and sync_default_models                                                 *)
(***************************************************************************)
ModelCommand(c) ==
  /\ Go(c, "idle", "spawning")
  /\ \E o \in ({"default"} \cup Commanding) \cap May[c] : op' = [op EXCEPT ![c] = o]
  /\ UNCHANGED <<session, cacheVars, woken, probe, request, ret>>

TempCoreSpawn(c) ==
  /\ Go(c, "spawning", "probing")
  /\ peer' = [peer EXCEPT ![c] = "here"]
  /\ late' = [late EXCEPT ![c] = FALSE]
  /\ UNCHANGED <<session, cacheVars, op, woken, did, models, request, ret>>

SpawnFails(c) ==
  /\ pc[c] = "spawning"
  /\ Return(c, "error")
  /\ UNCHANGED <<session, cacheVars, op, woken, probe, request>>

\* The end of a probe: kill and wait.  Without a command whatever was
\* collected is the answer, nothing counting as an empty list; with one,
\* only its CO counts.
Ended(c, output) ==
  /\ peer' = [peer EXCEPT ![c] = "none"]
  /\ models' = [models EXCEPT ![c] = "none"]
  /\ late' = [late EXCEPT ![c] = FALSE]
  /\ Return(c, IF op[c] \in Commanding
               THEN IF output = "ours" THEN "done" ELSE "error"
               ELSE IF models[c] = "none" THEN "empty" ELSE models[c])

\* The deadline is looked at between two frames.
ProbeTurn(c) ==
  /\ \/ ~late[c] /\ Go(c, "probing", "reading") /\ UNCHANGED <<late, peer, models, ret>>
     \/ late[c] /\ pc[c] = "probing" /\ Ended(c, "none")
  /\ UNCHANGED <<session, cacheVars, op, woken, did, request>>

Timed == {"checking", "enrolling", "enrolled", "sleeping", "probing", "reading", "kept"}
Expire(c) ==
  /\ pc[c] \in Timed /\ ~late[c]
  /\ late' = [late EXCEPT ![c] = TRUE]
  /\ UNCHANGED <<session, cacheVars, op, pc, woken, peer, did, models, request, ret>>

\* A model_list with models; after a command it is only for the cache.
ProbeModels(c) ==
  /\ peer[c] = "here" /\ Go(c, "reading", "kept")
  /\ \E l \in Lists :
       /\ models' = IF op[c] \in Commanding THEN models ELSE [models EXCEPT ![c] = l]
       /\ IF op[c] \in Caching THEN Assign(c, l) ELSE UNCHANGED cacheVars
  /\ UNCHANGED <<session, op, woken, late, peer, did, request, ret>>

\* Without a command the list is all that is wanted.
ProbeKept(c) ==
  /\ pc[c] = "kept" /\ c \notin tell
  /\ IF op[c] \in Commanding
     THEN Go(c, "kept", "probing") /\ UNCHANGED <<late, peer, models, ret>>
     ELSE Ended(c, "none")
  /\ UNCHANGED <<session, cacheVars, op, woken, did, request>>

ProbeOutput_AnyOutput(c) ==
  /\ pc[c] = "reading" /\ peer[c] = "here"
  /\ Ended(c, "ours")
  /\ UNCHANGED <<session, cacheVars, op, woken, did, request>>
\* A CO: with a command only the one that carries its id ends the probe.
ProbeOutput(c) ==
  /\ pc[c] = "reading" /\ peer[c] = "here"
  /\ \E output \in {"ours", "refusal", "other"} :
       /\ output = "ours" => did[c]
       /\ output = "refusal" => ~did[c]
       /\ IF op[c] \in Commanding /\ output = "other"
          THEN Go(c, "reading", "probing") /\ UNCHANGED <<late, peer, models, ret>>
          ELSE Ended(c, output)
  /\ UNCHANGED <<session, cacheVars, op, woken, did, request>>

\* Any other frame, and a model_list without models.
ProbeOther(c) ==
  /\ peer[c] = "here" /\ Go(c, "reading", "probing")
  /\ UNCHANGED <<session, cacheVars, op, woken, probe, request, ret>>

ProbeEof_LeavesCore(c) ==
  /\ pc[c] = "reading" /\ peer[c] # "mute"
  /\ Return(c, "error")
  /\ UNCHANGED <<session, cacheVars, op, woken, probe, request>>
\* End of file, or a line that is no frame.
ProbeEof(c) ==
  /\ pc[c] = "reading" /\ peer[c] # "mute"
  /\ Ended(c, "none")
  /\ UNCHANGED <<session, cacheVars, op, woken, did, request>>

(***************************************************************************)
(* check_alayacore: the first frame is read by a helper thread             *)
(***************************************************************************)
CheckAlayacore(c) ==
  /\ "check" \in May[c]
  /\ op' = [op EXCEPT ![c] = "check"]
  /\ \/ Go(c, "idle", "announcing") /\ peer' = [peer EXCEPT ![c] = "here"] /\ UNCHANGED ret
     \/ pc[c] = "idle" /\ Return(c, "error") /\ UNCHANGED peer
  /\ UNCHANGED <<session, cacheVars, woken, late, did, models, request>>

CheckOver(c, r) ==
  /\ pc[c] = "announcing"
  /\ peer' = [peer EXCEPT ![c] = "none"]
  /\ Return(c, r)
  /\ UNCHANGED <<session, cacheVars, op, woken, late, did, models, request>>

\* read_version_frame: the right version, or anything else.
VersionFrame(c) == peer[c] = "here" /\ \E r \in {"done", "error"} : CheckOver(c, r)
RecvTimeout_AtEof(c) == peer[c] = "gone" /\ CheckOver(c, "error")
RecvTimeout(c) == CheckOver(c, "error")

(***************************************************************************)
(* start_mcp_auth_inner                                                    *)
(***************************************************************************)
Verdict_AnyState(r) == IF r \in {"stateless", "granting"} THEN "mcp_confirm" ELSE "mcp_decline"
Verdict(r) == IF r = "granting" THEN "mcp_confirm" ELSE "mcp_decline"

\* Binding the listener may fail; otherwise the url is returned at once.
StartMcpAuth(c) ==
  /\ "auth" \in May[c]
  /\ op' = [op EXCEPT ![c] = "auth"]
  /\ \/ Go(c, "idle", "listening") /\ UNCHANGED ret
     \/ pc[c] = "idle" /\ Return(c, "error")
  /\ UNCHANGED <<session, cacheVars, woken, probe, request>>

\* Polled every 100 ms: a connection first, then the deadline.
Accept(c) ==
  /\ peer[c] # "none" /\ Go(c, "listening", "accepted")
  /\ UNCHANGED <<session, cacheVars, op, woken, probe, request, ret>>

Decide(c, from, verdict) == Go(c, from, "sending") /\ ret' = [ret EXCEPT ![c] = verdict]

AuthDeadline(c) ==
  /\ peer[c] = "none" /\ Decide(c, "listening", "mcp_decline")
  /\ UNCHANGED <<session, cacheVars, op, woken, probe, request>>

\* accept or read_line returns an error.
AuthFails(c) ==
  /\ \/ Decide(c, "listening", "mcp_decline")
     \/ peer[c] # "mute" /\ Decide(c, "accepted", "mcp_decline")
  /\ UNCHANGED <<session, cacheVars, op, woken, probe, request>>

\* read_line on the accepted stream, and the page for the browser.
ReadLine(c) ==
  /\ peer[c] # "mute"
  /\ \E r \in IF peer[c] = "gone" THEN {"stateless"} ELSE Requests :
       request' = [request EXCEPT ![c] = r] /\ Decide(c, "accepted", Verdict(r))
  /\ UNCHANGED <<session, cacheVars, op, woken, probe>>

\* send_mcp_result: send_cmd, its error ignored; the stream is closed.
SendMcpResult(c) ==
  /\ session # "stuck"
  /\ Go(c, "sending", "over")
  /\ peer' = [peer EXCEPT ![c] = "none"]
  /\ UNCHANGED <<session, cacheVars, op, woken, late, did, models, request, ret>>

(***************************************************************************)
(* Outside: the session's core, the temporary cores, the browser           *)
(***************************************************************************)
SessionChanges ==
  /\ session # "down"
  /\ session' \in {"up", "stuck", "down"} \ {session}
  /\ UNCHANGED <<cacheVars, op, pc, woken, probe, request, ret>>

TempActs(c) ==
  /\ peer[c] = "here" /\ op[c] \in Commanding /\ ~did[c]
  /\ did' = [did EXCEPT ![c] = TRUE]
  /\ UNCHANGED <<session, cacheVars, op, pc, woken, late, peer, models, request, ret>>

BrowserConnects(c) ==
  /\ pc[c] = "listening" /\ peer[c] = "none"
  /\ peer' = [peer EXCEPT ![c] = "here"]
  /\ UNCHANGED <<session, cacheVars, op, pc, woken, late, did, models, request, ret>>

\* The stream ends, or stays open and brings nothing more.
PeerEnds(c) ==
  /\ peer[c] = "here"
  /\ \E t \in {"gone", "mute"} : peer' = [peer EXCEPT ![c] = t]
  /\ UNCHANGED <<session, cacheVars, op, pc, woken, late, did, models, request, ret>>

(***************************************************************************)
(* The specification                                                       *)
(***************************************************************************)
Start(c) == ListModels(c) \/ ModelCommand(c) \/ CheckAlayacore(c) \/ StartMcpAuth(c)

\* What a call does by itself, or time does to it.
Continue(c) ==
  \/ Get(c) \/ Pick(c) \/ Ask(c) \/ Check(c) \/ Enroll(c) \/ Recheck(c) \/ Wake(c)
  \/ TempCoreSpawn(c) \/ SpawnFails(c) \/ ProbeTurn(c) \/ ProbeKept(c) \/ RecvTimeout(c)
  \/ Accept(c) \/ AuthDeadline(c) \/ AuthFails(c) \/ SendMcpResult(c)

\* What it reads from its peer.
Read(c) ==
  \/ ProbeModels(c) \/ ProbeOutput(c) \/ ProbeOther(c) \/ ProbeEof(c)
  \/ VersionFrame(c) \/ ReadLine(c)

Outside(c) == TempActs(c) \/ BrowserConnects(c) \/ PeerEnds(c)

Next ==
  \/ ModelList \/ SessionChanges
  \/ \E s \in Setters : Notify(s)
  \/ \E c \in Callers : Start(c) \/ Continue(c) \/ Read(c) \/ Expire(c) \/ Outside(c)

Spec == Init /\ [][Next]_vars

\* Threads and tasks run and time passes; a peer that is neither gone nor
\* mute sends something in the end.
FairSpec ==
  /\ Spec
  /\ \A c \in Callers :
       WF_vars(Notify(c)) /\ WF_vars(Continue(c)) /\ WF_vars(Read(c)) /\ WF_vars(Expire(c))

(***************************************************************************)
(* Properties                                                              *)
(***************************************************************************)
Labels ==
  {"idle", "picking", "asking", "checking", "enrolling", "enrolled", "sleeping", "getting",
   "spawning", "probing", "reading", "kept", "announcing", "listening", "accepted", "sending",
   "over"}

\* Every variable keeps its shape; and a temporary core is reaped on every
\* way out of run_temp_probe and check_message_version.
TypeOK ==
  /\ session \in {"up", "stuck", "down"}
  /\ cache \in Lists /\ tell \subseteq Setters
  /\ op \in [Callers -> Commands \cup {"none"}] /\ pc \in [Callers -> Labels]
  /\ {woken, late, did} \subseteq [Callers -> BOOLEAN]
  /\ peer \in [Callers -> {"none", "here", "mute", "gone"}]
  /\ models \in [Callers -> Lists \cup {"none"}]
  /\ request \in [Callers -> Requests \cup {"none"}]
  /\ ret \in [Callers -> Lists \cup {"none", "done", "error", "mcp_confirm", "mcp_decline"}]
  /\ \A c \in Callers : pc[c] = "over" => peer[c] = "none"

\* A waiter of the cache never sleeps on a list that has arrived: whoever
\* set it has still to notify, or the waiter has been woken
\* (wait_non_empty: "a Set that landed between the first check and
\* registration is observed").
NoLostWakeup ==
  \A c \in Callers : pc[c] = "sleeping" /\ cache = "full" => woken[c] \/ tell # {}

\* An answer is about what was asked: a model command succeeds only when its
\* own command took effect in its own core, whatever else that core printed,
\* and a server is confirmed only by a callback of the flow itself that
\* carries a code and no error.
AnswersFit ==
  \A c \in Callers :
    /\ ret[c] = "done" /\ op[c] \in Commanding => did[c]
    /\ ret[c] = "mcp_confirm" => op[c] = "auth" /\ request[c] = "granting"

\* Every call ends, unless a core or a browser it waits for stays silent
\* with its stream open; the version check ends even then
\* (check_message_version: "A std pipe read has NO timeout").
CallsEnd ==
  \A c \in Callers :
    /\ pc[c] # "idle" ~> pc[c] = "over" \/ session = "stuck" \/ peer[c] = "mute"
    /\ pc[c] = "announcing" ~> pc[c] = "over"

(***************************************************************************)
(* What comments say, and the code does not do.                            *)
(***************************************************************************)
\* The model commands read "until the SM model_list (and/or the matching CO)
\* arrives or a timeout elapses".
ProbeEnds == \A c \in Callers : pc[c] = "reading" ~> pc[c] = "over"

\* start_mcp_auth_inner: "an abandoned flow ... cannot leak the
\* thread/socket".
FlowEnds == \A c \in Callers : pc[c] = "accepted" ~> pc[c] # "accepted"
=============================================================================
