---------------------------- MODULE SessionPipe ----------------------------
(***************************************************************************)
(* One session of the desktop backend (session.rs, reader.rs, the closing  *)
(* half of alayacore.rs, commands/mod.rs, io.rs, cmd.rs): an alayacore     *)
(* process, its stdin pipe with the calls that write to it, the thread     *)
(* that reads its stdout, and the calls that close it.  A task or thread   *)
(* is a program counter:                                                   *)
(*                                                                         *)
(*   "create"   session::create                                            *)
(*   "reader"   the thread of spawn_stdout_reader                          *)
(*   Prompts    alayacore_send_prompt: one message of Parts frames         *)
(*   Commands   send_cmd: one CI frame                                     *)
(*   Closers    close_session, delete_session_dir, and, before the client  *)
(*              knows the id, close_all_sessions                           *)
(*                                                                         *)
(* Frames are <<caller, number>>; a closer's are cancel and save.          *)
(***************************************************************************)
EXTENDS Naturals, Sequences, FiniteSets

CONSTANTS
  Prompts, Commands, Closers,
  None,
  Parts,        \* frames of a prompt
  PipeRoom,     \* frames the stdin pipe holds
  MaxPending,   \* MAX_PENDING_COMMANDS
  MaxFrames     \* bound: frames the core sends that answer no command

Callers == Prompts \cup Commands \cup Closers

ASSUME PipeAssumption ==
  /\ {Parts, MaxPending} \subseteq Nat \ {0}
  /\ {PipeRoom, MaxFrames} \subseteq Nat
  /\ Prompts \cap Commands = {} /\ Prompts \cap Closers = {} /\ Commands \cap Closers = {}
  /\ {"create", "reader", None} \cap Callers = {}

VARIABLES
  pc,         \* where each task stands
  at,         \* how many frames each caller is done with
  mapped,     \* the session is in the SessionMap
  connected,  \* SessionHandle.connected
  child,      \* SessionHandle.child: here, or taken by the reader or a closer
  lock,       \* who holds the mutex of SessionHandle.stdin
  stdin,      \* the write end in that slot: open or closed
  written,    \* the frames written to it
  read,       \* how many of them the core has read
  pending,    \* PendingCommands: its keys, in order
  core,       \* alayacore: none, running, stuck (reads no more), ending, exited
  open,       \* some process holds the write end of the core's stdout
  stdout,     \* frames the core has sent and the reader not read
  frames,     \* how many of MaxFrames are sent
  announced,  \* the reader's announced
  said        \* core-status events emitted

session == <<mapped, connected, child, lock>>
pipes == <<stdin, written, read, stdout>>
proc == <<core, open, frames>>
told == <<announced, said>>
vars == <<pc, at, session, pipes, pending, proc, told>>

Frame == (Callers \X Nat)
\* What the core sends: the CO that answers a command is that command; Bad
\* is a line read_frame refuses.
Plain == <<None, 1>>
Closed == <<None, 0>>
Bad == <<None, 2>>
Sent == Frame \cup {Plain, Closed, Bad}

Go(g, from, to) == pc[g] = from /\ pc' = [pc EXCEPT ![g] = to]

Batch_CancelOnly(g) == IF g \in Prompts THEN Parts ELSE 1
Batch(g) == IF g \in Prompts THEN Parts ELSE IF g \in Commands THEN 1 ELSE 2

Init ==
  /\ pc = [g \in Callers \cup {"create", "reader"} |->
             IF g = "create" THEN "spawn" ELSE IF g = "reader" THEN "off" ELSE "call"]
  /\ at = [g \in Callers |-> 0]
  /\ mapped = FALSE /\ connected = FALSE /\ child = "here" /\ lock = None
  /\ stdin = "open" /\ written = <<>> /\ read = 0 /\ stdout = <<>>
  /\ pending = <<>>
  /\ core = "none" /\ open = TRUE /\ frames = 0
  /\ announced = FALSE /\ said = <<>>

(***************************************************************************)
(* create: spawn, insert into the map, emit "up", start the reader.        *)
(***************************************************************************)
Create ==
  /\ Go("create", "spawn", "status")
  /\ core' = "running" /\ connected' = TRUE /\ mapped' = TRUE
  /\ UNCHANGED <<at, child, lock, pipes, pending, open, frames, told>>

SpawnFails ==
  /\ Go("create", "spawn", "failed")
  /\ UNCHANGED <<at, session, pipes, pending, proc, told>>

EmitUp ==
  /\ Go("create", "status", "start")
  /\ said' = Append(said, "up")
  /\ UNCHANGED <<at, session, pipes, pending, proc, announced>>

StartReader ==
  /\ pc["create"] = "start"
  /\ pc' = [pc EXCEPT !["create"] = "reply", !["reader"] = "reading"]
  /\ UNCHANGED <<at, session, pipes, pending, proc, told>>

\* The answer reaches the client, which knows the session from here on.
Reply ==
  /\ Go("create", "reply", "done")
  /\ UNCHANGED <<at, session, pipes, pending, proc, told>>

Known == pc["create"] = "done"

(***************************************************************************)
(* Calls that write.  A write blocks while the pipe is full and fails once *)
(* the slot is empty or the other end gone.                                *)
(***************************************************************************)
Broken == stdin = "closed" \/ core = "exited"

\* refs: the map's lock is held for the lookup only.
Refs(g) ==
  /\ Known
  /\ Go(g, "call", IF ~mapped THEN "failed" ELSE IF g \in Commands THEN "naming" ELSE "checking")
  /\ UNCHANGED <<at, session, pipes, pending, proc, told>>

Insert_Unbounded(p, f) == Append(p, f)
Insert_OneTooFew(p, f) == LET q == Append(p, f) IN IF Len(q) >= MaxPending THEN Tail(q) ELSE q
\* PendingCommands::insert: the oldest beyond the cap goes.
Insert(p, f) == LET q == Append(p, f) IN IF Len(q) > MaxPending THEN Tail(q) ELSE q

\* send_cmd names the command before it looks at anything else.
Register(g) ==
  /\ Go(g, "naming", "checking")
  /\ pending' = Insert(pending, <<g, 1>>)
  /\ UNCHANGED <<at, session, pipes, proc, told>>

\* PendingCommands::remove; a frame is in there once at most.
Without(p, f) ==
  IF \E i \in DOMAIN p : p[i] = f
    THEN LET i == CHOOSE i \in DOMAIN p : p[i] = f
         IN  SubSeq(p, 1, i - 1) \o SubSeq(p, i + 1, Len(p))
    ELSE p

Unsent(g) == IF g \in Commands THEN "forgetting" ELSE "failed"

\* write_frame_to and write_frames_to look at connected, then lock.
Check(g) ==
  /\ Go(g, "checking", IF connected THEN "locking" ELSE Unsent(g))
  /\ UNCHANGED <<at, session, pipes, pending, proc, told>>

Lock(g) ==
  /\ lock = None /\ lock' = g
  /\ Go(g, "locking", "locked")
  /\ UNCHANGED <<at, mapped, connected, child, pipes, pending, proc, told>>

Last(g) == at[g] + 1 = Batch(g)

Write_UnlocksEachFrame(g) ==
  /\ ~Broken /\ Len(written) - read < PipeRoom
  /\ Go(g, "locked", IF ~Last(g) THEN "locking" ELSE IF g \in Closers THEN "eof" ELSE "ok")
  /\ written' = Append(written, <<g, at[g] + 1>>)
  /\ at' = [at EXCEPT ![g] = @ + 1]
  /\ lock' = IF g \notin Closers THEN None ELSE lock
  /\ UNCHANGED <<mapped, connected, child, stdin, read, stdout, pending, proc, told>>
\* A frame goes out; after the last one a closer empties the slot, the
\* others let go of the lock.
Write(g) ==
  /\ ~Broken /\ Len(written) - read < PipeRoom
  /\ Go(g, "locked", IF ~Last(g) THEN "locked" ELSE IF g \in Closers THEN "eof" ELSE "ok")
  /\ written' = Append(written, <<g, at[g] + 1>>)
  /\ at' = [at EXCEPT ![g] = @ + 1]
  /\ lock' = IF Last(g) /\ g \notin Closers THEN None ELSE lock
  /\ UNCHANGED <<mapped, connected, child, stdin, read, stdout, pending, proc, told>>

\* The slot is empty or the write fails; a closer goes on regardless.
WriteFails(g) ==
  /\ Broken
  /\ Go(g, "locked", IF g \notin Closers THEN Unsent(g) ELSE IF Last(g) THEN "eof" ELSE "locked")
  /\ at' = [at EXCEPT ![g] = IF g \in Closers THEN @ + 1 ELSE @]
  /\ lock' = IF g \in Closers THEN lock ELSE None
  /\ UNCHANGED <<mapped, connected, child, pipes, pending, proc, told>>

Refuse_Unreported(g) ==
  /\ stdin = "open" /\ (g \in Commands \/ ~Last(g))
  /\ Go(g, "locked", IF g \in Commands THEN "forgetting" ELSE "ok")
  /\ lock' = None
  /\ UNCHANGED <<at, mapped, connected, child, pipes, pending, proc, told>>
\* encode takes no frame over MAX_FRAME_SIZE: the batch ends there, what is
\* written of it stays, and the lock is free.  Only content grows so long: not
\* a prompt's UE, nor a closer's frames.
Refuse(g) ==
  /\ stdin = "open" /\ (g \in Commands \/ ~Last(g))
  /\ Go(g, "locked", IF g \in Commands THEN "forgetting" ELSE "refused")
  /\ lock' = None
  /\ UNCHANGED <<at, mapped, connected, child, pipes, pending, proc, told>>

Forget_Nothing(g) ==
  /\ Go(g, "forgetting", "failed")
  /\ UNCHANGED <<at, session, pipes, pending, proc, told>>
\* The error path of send_cmd.
Forget(g) ==
  /\ Go(g, "forgetting", "failed")
  /\ pending' = Without(pending, <<g, 1>>)
  /\ UNCHANGED <<at, session, pipes, proc, told>>

(***************************************************************************)
(* close_with_timeout and close_child_gracefully_with_timeout              *)
(***************************************************************************)
Close(k) ==
  /\ Known \/ mapped
  /\ Go(k, "call", IF mapped THEN "taking" ELSE "failed")
  /\ mapped' = FALSE
  /\ UNCHANGED <<at, connected, child, lock, pipes, pending, proc, told>>

\* Drop of the handle: the slot is emptied if nobody is writing.
Dropped == IF lock = None THEN "closed" ELSE stdin

TakeChild_WithoutLock(k) ==
  /\ Go(k, "taking", IF child = "here" THEN "trying" ELSE "ok")
  /\ child' = IF child = "here" THEN "closer" ELSE child
  /\ stdin' = IF child = "here" THEN stdin ELSE Dropped
  /\ UNCHANGED <<at, mapped, connected, lock, written, read, stdout, pending, proc, told>>
\* The reader holds the child's mutex while it reaps; a child it has taken
\* leaves nothing to close.
TakeChild(k) ==
  /\ pc["reader"] # "killing"
  /\ Go(k, "taking", IF child = "here" THEN "trying" ELSE "ok")
  /\ child' = IF child = "here" THEN "closer" ELSE child
  /\ stdin' = IF child = "here" THEN stdin ELSE Dropped
  /\ UNCHANGED <<at, mapped, connected, lock, written, read, stdout, pending, proc, told>>

TryLock_Unlocked(k) ==
  /\ Go(k, "trying", "locked")
  /\ UNCHANGED <<at, session, pipes, pending, proc, told>>
TryLock(k) ==
  /\ lock = None /\ lock' = k
  /\ Go(k, "trying", "locked")
  /\ UNCHANGED <<at, mapped, connected, child, pipes, pending, proc, told>>

GiveUp_OnceDisconnected(k) ==
  /\ lock # None /\ ~connected
  /\ Go(k, "trying", "sigkill")
  /\ UNCHANGED <<at, session, pipes, pending, proc, told>>
\* Ten tries of 50 ms found the lock taken.
GiveUp(k) ==
  /\ lock # None
  /\ Go(k, "trying", "sigkill")
  /\ UNCHANGED <<at, session, pipes, pending, proc, told>>

CloseStdin(k) ==
  /\ Go(k, "eof", "grace")
  /\ stdin' = "closed" /\ lock' = None
  /\ UNCHANGED <<at, mapped, connected, child, written, read, stdout, pending, proc, told>>

GraceOver_Returns(k) ==
  /\ Go(k, "grace", "ok")
  /\ UNCHANGED <<at, session, pipes, pending, proc, told>>
GraceOver_NoTimeout(k) ==
  /\ core = "exited"
  /\ Go(k, "grace", "ok")
  /\ UNCHANGED <<at, session, pipes, pending, proc, told>>
\* try_wait has seen the core go, or the grace period has passed.
GraceOver(k) ==
  /\ Go(k, "grace", IF core = "exited" THEN "ok" ELSE "sigkill")
  /\ UNCHANGED <<at, session, pipes, pending, proc, told>>

\* What a dying core leaves may hold its stdout open.
Exits == core' = "exited" /\ open' \in {open, FALSE}

\* kill and wait.
SigKill(k) ==
  /\ Go(k, "sigkill", "ok")
  /\ Exits /\ stdin' = Dropped
  /\ UNCHANGED <<at, session, written, read, stdout, pending, frames, told>>

(***************************************************************************)
(* The reader                                                              *)
(***************************************************************************)
\* dispatch_frame; the core's terminal frame announces the end.
ReadFrame ==
  /\ pc["reader"] = "reading" /\ stdout # <<>> /\ Head(stdout) # Bad
  /\ stdout' = Tail(stdout)
  /\ pending' = Without(pending, Head(stdout))
  /\ LET ends == Head(stdout) = Closed /\ ~announced
     IN  /\ announced' = (announced \/ ends)
         /\ said' = IF ends THEN Append(said, "down") ELSE said
  /\ UNCHANGED <<pc, at, session, stdin, written, read, proc>>

\* End of file, or a read error.
ReadEnd ==
  /\ Go("reader", "reading", "reaping")
  /\ IF stdout = <<>> THEN ~open ELSE Head(stdout) = Bad
  /\ connected' = FALSE
  /\ UNCHANGED <<at, mapped, child, lock, pipes, pending, proc, told>>

\* reap_child takes the child under its mutex and keeps the mutex.
ReapChild ==
  /\ Go("reader", "reaping", IF child = "here" THEN "killing" ELSE "announcing")
  /\ child' = IF child = "here" THEN "reader" ELSE child
  /\ UNCHANGED <<at, mapped, connected, lock, pipes, pending, proc, told>>

\* kill_child: the core goes by itself within three seconds, or is killed.
KillChild ==
  /\ Go("reader", "killing", "announcing")
  /\ IF core = "exited" THEN UNCHANGED <<core, open>> ELSE Exits
  /\ UNCHANGED <<at, session, pipes, pending, frames, told>>

Announce_Again ==
  /\ Go("reader", "announcing", "done")
  /\ announced' = TRUE
  /\ said' = Append(said, "down")
  /\ UNCHANGED <<at, session, pipes, pending, proc>>
\* The thread ends; announced says by now whether "down" is out.
Announce ==
  /\ Go("reader", "announcing", "done")
  /\ announced' = TRUE
  /\ said' = IF announced THEN said ELSE Append(said, "down")
  /\ UNCHANGED <<at, session, pipes, pending, proc>>

(***************************************************************************)
(* alayacore (external): it reads a frame, answering a command; sends one; *)
(* stops reading; says it is finished; closes its stdout; is gone.         *)
(***************************************************************************)
CoreReads ==
  /\ core = "running" /\ read < Len(written)
  /\ read' = read + 1
  /\ stdout' = IF written[read + 1][1] \in Prompts THEN stdout ELSE Append(stdout, written[read + 1])
  /\ UNCHANGED <<pc, at, session, stdin, written, pending, proc, told>>

CoreSends ==
  /\ core = "running" /\ frames < MaxFrames
  /\ frames' = frames + 1
  /\ \E f \in {Plain, Bad} : stdout' = Append(stdout, f)
  /\ UNCHANGED <<pc, at, session, stdin, written, read, pending, core, open, told>>

CoreStalls ==
  /\ core = "running" /\ core' = "stuck"
  /\ UNCHANGED <<pc, at, session, pipes, pending, open, frames, told>>

CoreEnds ==
  /\ core = "running" /\ core' = "ending"
  /\ stdout' = Append(stdout, Closed)
  /\ UNCHANGED <<pc, at, session, stdin, written, read, pending, open, frames, told>>

CoreHushes ==
  /\ core \in {"stuck", "ending"} /\ open /\ open' = FALSE
  /\ UNCHANGED <<pc, at, session, pipes, pending, core, frames, told>>

CoreExits ==
  /\ core \in {"running", "stuck", "ending"} /\ Exits
  /\ UNCHANGED <<pc, at, session, pipes, pending, frames, told>>

HolderExits ==
  /\ core = "exited" /\ open /\ open' = FALSE
  /\ UNCHANGED <<pc, at, session, pipes, pending, core, frames, told>>

(***************************************************************************)
(* The specification                                                       *)
(***************************************************************************)
Server ==
  \/ Create \/ SpawnFails \/ EmitUp \/ StartReader \/ Reply
  \/ ReadFrame \/ ReadEnd \/ ReapChild \/ KillChild \/ Announce

Sends(g) == Refs(g) \/ Register(g) \/ Check(g) \/ Lock(g) \/ Write(g) \/ WriteFails(g) \/ Forget(g)
Writer(g) == Sends(g) \/ Refuse(g)

Closer(k) ==
  \/ Close(k) \/ TakeChild(k) \/ TryLock(k) \/ GiveUp(k)
  \/ Write(k) \/ WriteFails(k) \/ CloseStdin(k) \/ GraceOver(k) \/ SigKill(k)

Environment ==
  CoreReads \/ CoreSends \/ CoreStalls \/ CoreEnds \/ CoreHushes \/ CoreExits \/ HolderExits

Next ==
  \/ Server
  \/ \E g \in Prompts \cup Commands : Writer(g)
  \/ \E k \in Closers : Closer(k)
  \/ Environment

Spec == Init /\ [][Next]_vars

\* Tasks, threads and timers go on; the tokio mutex is granted in turn; a
\* core that is running reads its input.  Nothing makes a client call, or a
\* core end.
Fairness ==
  /\ WF_vars(Server)
  /\ \A g \in Prompts \cup Commands :
       WF_vars(Sends(g) /\ pc[g] # "call") /\ SF_vars(Lock(g))
  /\ \A k \in Closers : WF_vars(Closer(k) /\ pc[k] # "call")
  /\ WF_vars(CoreReads)

FairSpec == Spec /\ Fairness

(***************************************************************************)
(* Properties.                                                             *)
(***************************************************************************)
Labels ==
  {"spawn", "failed", "status", "start", "reply", "done", "off", "reading", "reaping", "killing",
   "announcing", "call", "naming", "checking", "locking", "locked", "forgetting", "refused",
   "taking", "trying", "eof", "grace", "sigkill", "ok"}

\* Every variable keeps its shape.
TypeOK ==
  /\ pc \in [Callers \cup {"create", "reader"} -> Labels]
  /\ at \in [Callers -> Nat]
  /\ {mapped, connected, open, announced} \subseteq BOOLEAN
  /\ child \in {"here", "reader", "closer"}
  /\ lock \in Callers \cup {None}
  /\ stdin \in {"open", "closed"}
  /\ written \in Seq(Frame) /\ read \in 0..Len(written)
  /\ stdout \in Seq(Sent)
  /\ pending \in Seq(Frame) /\ Len(pending) <= MaxPending
  /\ core \in {"none", "running", "stuck", "ending", "exited"}
  /\ frames \in 0..MaxFrames
  /\ said \in Seq({"up", "down"})

Holding(g) == pc[g] \in {"locked", "eof"}

\* The stdin mutex: the task inside the critical section holds it, and nobody
\* else is inside.
MutualExclusion == \A g \in Callers : Holding(g) <=> lock = g

\* A caller's frames are never interleaved with another's (write_frames_to:
\* "a concurrent command cannot interleave between them"): a prompt's frames,
\* and a closer's cancel and save, stand side by side in the pipe.
FramesTogether ==
  \A i, k \in DOMAIN written : i <= k /\ written[i][1] = written[k][1] =>
    \A j \in i..k : written[j][1] = written[i][1]

\* The pipe is not closed under a write: of the messages a live core has been
\* sent when its stdin ends, those without their end are the ones encode cut
\* off, and their callers were told so.
WholePrompts ==
  stdin = "closed" /\ core # "exited" =>
    \A i \in DOMAIN written : written[i][1] \in Prompts =>
      \/ \E j \in DOMAIN written : written[j] = <<written[i][1], Parts>>
      \/ pc[written[i][1]] = "refused"

\* Whatever is written at once, the core reads one message at a time, and
\* whole unless it has a frame that encode refuses.
FramesWhole == FramesTogether /\ WholePrompts

\* A core that gets EOF from a closer has cancel and save before it, and
\* nothing after them (the order of close_child_gracefully).
CancelSaveEOF ==
  stdin = "closed" /\ core # "exited" =>
    LET n == Len(written) IN
      /\ n >= 2
      /\ \E k \in Closers : written[n - 1] = <<k, 1>> /\ written[n] = <<k, 2>>

\* The CO of a command finds its name: send_cmd registers before it writes, as
\* the answer may come at once; only a command that MaxPending others have
\* joined may have lost its name.
AnswersNamed ==
  \A i \in DOMAIN stdout : stdout[i][1] \in Commands =>
    \/ \E j \in DOMAIN pending : pending[j] = stdout[i]
    \/ Cardinality({g \in Commands \ {stdout[i][1]} : pc[g] \notin {"call", "naming"}}) >= MaxPending

\* A command that failed leaves nothing in the registry for a core that
\* answers no more to keep (PendingCommands: "must not grow the map forever").
NothingForgotten == \A i \in DOMAIN pending : pc[pending[i][1]] # "failed"

\* The registry of pending commands is exact.
PendingExact == AnswersNamed /\ NothingForgotten

\* A close that has returned leaves no process behind, whoever reaped it, so
\* that delete_session_dir may remove the directory; and the session is out
\* of reach for every later call.
ClosedMeansGone == \A k \in Closers : pc[k] = "ok" => core = "exited" /\ ~mapped

\* The client is told up once and then down once (reader.rs: "One
\* core-status: false per session"), the latter when the stream is over, and
\* as soon as the reader gets to it.
Status == INSTANCE SessionStatus WITH
  over <- \/ ~open
          \/ \E i \in DOMAIN stdout : stdout[i] \in {Closed, Bad}
          \/ announced \/ pc["reader"] \in {"reaping", "killing", "announcing", "done"},
  said <- said
StatusKept == Status!Spec

Blocked(g) == Len(written) - read >= PipeRoom /\ core \in {"stuck", "ending"} /\ pc[g] = "locked"

\* A close returns, whatever writers do and the core does not do, unless its
\* own cancel finds the pipe full and nobody reading.
CloseReturns == \A k \in Closers : pc[k] = "taking" ~> pc[k] = "ok" \/ Blocked(k)

\* Once the core is gone, every call that waits for it, or for the lock, or
\* for the core's end, returns.
CallersReleased ==
  \A g \in Callers : pc[g] # "call" /\ core = "exited" ~> pc[g] \in {"ok", "failed", "refused"}

\* Every call comes back.
CallsReturn == CloseReturns /\ CallersReleased

(***************************************************************************)
(* What comments say, and the code does not do.                            *)
(***************************************************************************)
\* alayacore.rs, close_child_gracefully: "Wait up to GRACEFUL_CLOSE_TIMEOUT
\* for a natural exit", then "SIGKILL fallback if the child is still alive".
CloseBounded == \A k \in Closers : pc[k] = "taking" ~> pc[k] = "ok"

\* wire.rs: UE "flushes staged content as one message", and write_frames_to: "a
\* multi-frame message reaches alayacore as one write burst".  So what a
\* prompt's UE flushes is that prompt's content.
MessagesApart ==
  \A i, j \in DOMAIN written :
    i < j /\ {written[i][1], written[j][1]} \subseteq Prompts /\ written[j][2] = Parts
          /\ written[i][1] # written[j][1] =>
      \E k \in i..j : written[k] = <<written[i][1], Parts>>

\* alayacore.rs, kill_child: "Closes stdin first (EOF ...)".
KillClosesStdin == pc["reader"] = "killing" /\ core # "exited" => stdin = "closed"
=============================================================================
