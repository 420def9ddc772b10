# AlayaFace: TLA+ verification

AlayaFace is a desktop and web client for AlayaCore, a command-line agent. Its own logic is in
four places: an Elm client (`src-elm/src`), a thin layer of JavaScript below it (`src-elm/*.js`),
and two interchangeable backends that start AlayaCore processes and relay between them and the
client: the desktop one in Rust (`src-tauri`), and its twin for the browser in Go (`src-go`). The
feature with most logic in the client is *Plan Mode*: a model answers with a plan, the client runs
its tasks as a graph of sessions, feeds results back into the conversation the plan came from, and
can re-run a plan whose result other plans have already used. The feature with most logic in the
backend is everything around a session: starting it, writing to it from many calls at once, ending
it, and the files it lives in.

This directory models what of that system depends on order (what arrives late, overlaps, fails or
never comes), on a crash, or on how one thing is turned into another. It holds

| module | what it is |
|---|---|
| `RunnerStep` | `Plan/Runner.elm`: the state machine of one run, as operators over a run record |
| `PlanRunner` | that machine inside the client's update loop: creations, frames, timers, clicks |
| `RunnerStepProofs`, `PlanRunnerProofs` | the theorems about the two |
| `CascadeStep` | `Plan/Cascade.elm`'s `cascadeStep`, one operator per event |
| `PlanCascade`, `PlanCascadeProofs` | several plans, feedback of results, and the re-run cascade with its executor |
| `SessionStatus` | what a client may be told of one session (abstract specification) |
| `SessionPipe`, `SessionPipeProofs` | one session of the desktop backend: pipe, lock, close, kill, reader |
| `SessionManager`, `SessionManagerProofs` | the session commands: many sessions over their directories |
| `BackendWaits`, `BackendWaitsProofs` | calls that wait: the model cache, probes, the version check, an MCP authorisation |
| `ConfigStore`, `ConfigStoreProofs` | the files the backend owns, with failing writes and crashes |
| `FrameStream`, `CodecsProofs` | from a core's bytes to the window's events: framing, decoding, dispatch |
| `Documents`, `Speech`, `Places`, `CoreLaunch` | what documents, recordings, paths and command lines are turned into (operators, no state) |
| `Codecs`, `CodecsProofs` | the five above put together, with the properties of each conversion |
| `MC...` | the instances TLC checks |

`PlanCascade` composes `RunnerStep` (one run per plan) and `CascadeStep`; `SessionPipe` implements
`SessionStatus`; `Codecs` composes its five. Each `.cfg` names its module as its prefix:
`PlanRunner_*.cfg` go with `MCPlanRunner`, and so on. `PROJECT.json` ties every definition to the
source lines it stands for, and every property to a mutated definition that breaks it.

    tlc -workers 2 -config PlanRunner_serial.cfg MCPlanRunner
    tlapm PlanRunnerProofs.tla

## 1. Inventory

### 1.1 The Elm client

The client is one `Model` and one `update` function; there is no concurrency inside an update, and
all of it between updates: RPC replies, broadcast events, timers and clicks arrive in any order,
and a message that an update sends to itself (`Task.perform ... Time.now`) is handled later than
the update that sent it.

**Plan runner** (`Plan/Runner.elm`, `Plan/Types.elm`). State: a run, with a status and per node a
status, attempts, the bound session (`conversationId`), the last one, all of them, an output.
Operations: `step` on 15 events (start, continue, pause, resume, stop, restart, retry, created,
create failed, task done, error, disconnected, retry tick, resume delegated, branch re-run), each
followed by `finishStep`: propagate Blocked, close the sessions of nodes that left Running,
conclude the run, launch up to the cap. Output: a list of effects. *Hard*: late events for nodes
that moved on; the four passes must leave nothing for one another; retries after a stop. *Correct
when*: launches obey dependencies and cap, attempts are bounded, the run's status tells the truth,
an InProgress run always has something that will happen.

**Run execution** (`Plan/Update.elm` `runStepIn`, `applyEffectIn`, `startNextCreateIn`,
`planEventFromFrame`; `App/Update.elm` `PlanRun*`, `SessionCreated`, `SessionCreateError`,
`PlanBindSession`). State: the plan window's run, `planCreating`, `planCreateQueue`, the session
windows, pending timers, a run.json being read. *Hard*: one creation in flight for the whole
application, its answer at any later time; a node stopped, failed or reset meanwhile; a session
that dies. *Correct when*: every Starting node has its creation pending; a session has one owner
for ever; Stop sticks; no session is left running with no node.

**Cascade** (`Plan/Cascade.elm`; executor in `Plan/Update.elm` 700-2100 and the `PlanCascade*`,
`PlanClose`, `CloseSession`, `SessionCreated` messages). State: `planCascade` (root, levels,
phase, summaries), `planCascadeFork`, `planCascadePreview`, `planCascadeOpenQueue`,
`planCascadeError`, `planResumeFrom`. A completed plan inserts its result in the session it came
from; if that is a node of another plan, the node answers again. Re-running a plan whose result is
already shown forks the session at the plan's message, and works upwards level by level. *Hard*: a
fork takes seconds, windows may be closed and sessions created meanwhile; a close and a re-run are
caused by one step. *Correct when*: nothing is cut before the fork exists, one result per plan,
the fork lands where the node was, closing leaves no orphan window, a fork ends.

**Other Plan modules**. `Types` (parsing, validation, run.json codec), `Detect` and `Inject`
(plans in message text), `Frames`, `Meta` and `MetaScan` (a scan of all session directories at
start, driven by file replies), `Layout`, `View`. *Correct when*: validation accepts exactly
acyclic plans with known references; a restored run has no node that waits for what cannot come.

**Session routing** (`Session/Events.elm`, `Handlers`, `Protocol`, `Types`). State: the sessions,
the map from a core's id to the window that shows it, frames buffered (up to a cap) before their
session is known. *Hard*: events overtake the RPC reply that names the session; buffers overflow;
replayed history must not act again. *Correct when*: every frame reaches the session it is of,
once, in order.

**Session helpers** (`FilePicker`, `Format`, `Labels`, `ModelConfig`, `Selector`, `ToolView`,
`Voice`): editing state of single widgets.

**App**. `Types` and `Update` (the model and all messages), `Windows`, `Pointer`, `UiLayout`,
`UiConfig` (geometry, stacking, gestures, stored layout), `NodeConnection` (which session a node
is shown in), `Presets`, `Labels`, `AsrConfig`, `GlobalConfig`, `SettingsConfig`, `SelectorKit`
(editors, each over one file), `Arch` with `Arch/Freeze` and `Arch/Values` (content-addressed
versions of a session: put every block, then the version, then move the head), `View`,
`Overlay/*`, `Icons`, `Fuzzy`, `Main`, `Ports`. *Hard*: the freeze collects the answers of many
puts, and the next freeze reuses their numbers; editors save last-writer-wins.

### 1.2 The glue below it

`transport.js` turns ports into Tauri commands and events (or RPC calls and a web socket) and
back. Replies and events travel on different ways and are not ordered; while a web socket
reconnects, events are lost. `chain.js` and `overlay.js` draw.

### 1.3 The desktop backend

Commands are tasks on a multi-threaded runtime; each session has a thread of its own that reads
its core's stdout. Mutexes are tokio's, and some are held across an `await`.

**Session** (`session.rs`, `reader.rs`, the closing half of `alayacore.rs`, `commands/io.rs`,
`cmd.rs`, `commands/mod.rs`). State: the map of sessions; per session the child (taken by whoever
reaps it), its stdin behind a mutex, `connected`, the ring of commands that await an answer
(`MAX_PENDING_COMMANDS`), the directory and owner. Operations: `create`, `write_frames_to`,
`send_cmd`, `close_child_gracefully` (cancel, save, end of file, five seconds, SIGKILL),
`kill_child`, the reader's loop, its end and its event. *Hard*: a core that stops reading fills
its pipe while a call holds the lock; a core dies, or says it is done, or leaves its stdout to a
child of its own; several closes race with each other and with the reader for the process.
*Correct when*: frames are not interleaved or cut; end of file comes after save; a close returns
and leaves no process; a client is told up once and then down once.

**Session commands** (`commands/sessions.rs`, `wait_for_file`, spawn args in `dirs.rs`). State:
the map, the session directories, per directory the core's file, its config and its
`spawn_args.json`. Operations: create, resume, fork, close, close all of one client, delete.
*Hard*: a resume checks and then acts; a fork is written by a core that is asked and may never do
it; a directory is deleted while a core is closing in it. *Correct when*: no process is lost sight
of; a resumed session keeps its capability envelope; a core is started on a whole file; what was
closed stays closed, what was deleted stays deleted.

**Waits** (`lib.rs` `ModelCache`, `commands/models.rs`, `commands/mcp.rs`,
`check_message_version`). State: the cached list, its `Notify`, temporary cores, the callback
listener of an authorisation. *Hard*: a wake-up between the check and the wait; a peer that keeps
its stream open and says nothing. *Correct when*: no wake-up is lost, an answer is about what was
asked, a call ends.

**Configuration and files** (`dirs.rs`, `commands/presets.rs`, `settings.rs`, `global_config.rs`,
`ui_config.rs`, `label.rs`, `objects.rs`, `fs.rs`, the writing of `asr.rs`, `mcp.rs`). State: a
tree of files, without any lock. *Hard*: two commands at once; a write that fails half-way; a
machine that stops. *Correct when*: what is read is never half a document; a preset is in the list
exactly once; the seeds come once, and stay; temporary files go away.

**Conversions** (`wire.rs`, `event.rs`, `reader.rs` dispatch; the normalising, merging, writing
and parsing of each document; `asr.rs`; names and paths in `dirs.rs`, `objects.rs`, `fs.rs`;
`find_binary`, `build_args`, `build.rs`, `main.rs`). *Hard*: a stream cut anywhere; values that
one function accepts and another does not read. *Correct when*: what went in comes out.

`lib.rs`'s `run()` (windows, plug-ins, command registration) is Tauri's.

### 1.4 The Go backend

The same commands over HTTP, and events over a web socket, kept in step by a script that compares
the two lists of commands. Its own part is the *hub*: every client has a bounded queue of events,
and a client whose queue is full is dropped; it is correct when what a client got has no gap. Its
authorisation rules and the order of its shutdown are its own as well.

### 1.5 How they interact

    click -> update -> effect -> port -> transport.js -> command -> write_frames_to -> pipe -> AlayaCore
    AlayaCore -> stdout -> reader -> event -> transport.js -> port -> update

`PlanRunner` and `PlanCascade` see the second line as events that come when they like (before the
reply, after it, after the node moved on, or never). `SessionPipe` is the middle of both lines,
`FrameStream` the left end of the second; `SessionManager` is what happens when the command is
about the session itself, and takes from `SessionPipe` that a close that returned has left no
process (`ClosedMeansGone`), which lets it treat one core's end as one step. `ConfigStore` and
`Documents` share the files: the one says how they are written, the other what they mean.

## 2. What is modelled, and how it corresponds to the code

### 2.1 `RunnerStep` and `PlanRunner`

`RunnerStep` has a run as a record of functions over `Node`: `status`, `node`, `attempts`, `conv`,
`last`, `hist`, `out`. `StartRun` ... `RetryTick` are the branches of `step`;
`BlockedPropagation`, `CloseAndClear`, `UpdateRunStatus`, `Schedule` are the passes, and
`FinishStep(before, r)` composes them in the code's order, returning the run and the sets of
sessions to close, nodes to create and nodes to retry. Node ids are naturals, so that Dict order
(which decides who is launched first) is `<`. Answers are identified with the session that gave
them; prompt texts are left out.

`PlanRunner`'s variables are the code's fields:

| variable | code |
|---|---|
| `run` | `planWindows[p].run` |
| `planCreating`, `planCreateQueue` | the same fields, restricted to this plan's nodes |
| `windows`, `alive` | `sessions` of this plan's nodes; those whose process runs |
| `used` | session ids handed out by the backend |
| `timers` | `Process.sleep`s started by `ScheduleRetry`, per node |
| `loadRead` | the run.json that a "Load run" will deliver |
| `clicks` | bound on what the user does |

Each user action has the guard of its button. Self-messages of one update are folded into it,
because the runtime handles them before the next external event can be processed by the parts
modelled here. The user's and other plans' creations only delay this plan's (they share the queue)
and are left out. A cascade's effects on a run appear as two actions (`CascadeResumeNode`,
`CascadeBranchRerun`) that may come whenever the node has succeeded. `PlanOpenNodeSession` opens
the session a node is bound to or else the last one it had, so also that of a finished, failed or
canceled node; the resume call and its answer are one step. Opening the session of an earlier
attempt from a node's history (`PlanOpenAttemptSession`) is left out.

*Liveness.* `Fairness == []<>(~Due) \/ []<><<clicks' = clicks>>_vars`: as long as something is due
(a creation is in flight, a file is being read, a timer runs, a live session works on a prompt),
some step that is not a click is taken again and again. The code justifies it: every RPC call has
a deadline, a sleep ends, and a task that runs ends, fails or loses its process. Nothing is
assumed about clicks. `RunEnds` names what it does not promise: a run waits for a sub-plan as long
as that takes, and a node whose process is gone without a disconnect reported to it stays.

### 2.2 `CascadeStep` and `PlanCascade`

`CascadeStep` is `cascadeStep`, one operator per event, with effects as a sequence. `PlanCascade`
has one variable `model`, the record of the fields in 1.1 (each field is named with the code's in
`Init` and typed in `Model`), because the executor is written as functions from model to model,
carried out one effect after the other (`Applied`).
`after[p]` is what follows p's message in its origin session: results (a summary) and what the
user wrote (`None`). `requests` are fork, resume and create calls in flight, answered in any
order; `self` the messages the loop sent itself, handled in any order but before anything external
(`Cmd.batch` promises no order).

Simplifications, named at the top of the module: a node's creation, binding and answer are single
steps (`PlanRunner` has them apart); at most one plan per session; a re-run node does not delegate
again; no version freeze. The initial state has the ancestors waiting for their sub-plan, as they
are once it has been created.

Fairness is only assumed for the loop handling its own messages and the backend answering a fork.

### 2.3 `SessionStatus` and `SessionPipe`

A task or thread is a program counter: `"create"`, `"reader"`, and the callers, which are the
constants `Prompts` (several frames under one lock), `Commands` (one CI frame, registered before
it is written) and `Closers`. The pipe is `written` with `read` as how far the core has got; a
write blocks when `PipeRoom` frames are unread and fails when the pipe is closed or the core gone.
`lock` is tokio's stdin mutex, `pending` the ring of commands that await an answer, oldest out
first; `child` says who has taken the process to reap it (`Option::take` under the child's mutex,
which the reader keeps while it reaps, so that a closer that comes second waits for it). A write can fail in two
ways. `WriteFails` is a broken pipe: nothing written since reaches anyone. `Refuse` is
`wire::encode` turning down a frame of more than `MAX_FRAME_SIZE` with the core alive: the batch
ends after the frames before it, the lock is released and the caller is told; a prompt's content and a
command may be that long, its UE and the two frames of a close are not. Timeouts
(the grace period, the three seconds of `kill_child`) are steps that may happen at any time, so
that every order of timers and events is explored.

AlayaCore is external: it reads a frame and answers commands, sends frames of its own, stalls,
announces its end, exits, and may leave its stdout to a process it started. These are the cases
`reader.rs`, `session.rs` and `alayacore.rs` are written against. What the frames say is
`FrameStream`'s subject.

Fairness: tasks that have been called go on (`WF` of `Server` and of the writers' and closers'
steps beyond `"call"`), the tokio mutex is granted in turn (`SF` on `Lock`: it is a fair queue), a
running core reads (`WF` on `CoreReads`). No fairness for stalls, exits, frames that are refused or
the calls themselves.

`SessionStatus` is what the backend promises of one session: nothing, then "up", then, when the
core is over, "down", and it will say so. `StatusKept == Status!Spec` maps `over` to "its stdout
has come to its end, or the terminal frame is on its way, or the reader knows".

### 2.4 `SessionManager`

A call is a program counter with its command in `arg`, the spawn arguments it made up or read in
`env`, what it has still to close in `todo` and what it has taken out of the map in `held`. `map`
is the `SessionMap`, `core` the processes, `disk` the session directories: is the directory there,
its config, its session file (none, half written, whole, of another version), its
`spawn_args.json`. A call mints at most one uuid, so the session, the directory and the process it
makes are named after the call; directories of `Old` were there at the start, with or without
their spawn arguments. Every step ends where another call can see what it did: under the map lock,
at a file, at a spawn.

The core is external: it saves into its directory at any time while it runs, also after a delete
has emptied it; it writes the file of a fork in pieces, or never; it exits by itself. A write of
`spawn_args.json` may fail, which the code does not mind. `given`, `lost` and `blind` are history:
the envelope a session was created with, the directories whose record of it could not be written
or was deleted, and the resumes that read it before the fork that makes it had written it.

`wait_for_file` takes a file for finished when two looks find it equally long, so a core that
pauses while it writes a fork is taken to be done. The model has that, and `FileReady` permits it:
it speaks of files that are not there or of another version. Directories are not nested here: a
plan's sessions lie below the directory of the session that delegated it (`session_path`), so a
delete of that one removes theirs too, and a session's config is copied from its preset directory
by directory (`copy_dir_excluding`, which makes each on its way). In the model a session directory
is one place of its own, made with its config in one step.

The steps of one session's close (`SessionPipe`) are one step here, `Teardown`: what it needs is
`ClosedMeansGone`.

### 2.5 `BackendWaits`

The callers run `list_models` (a look at the cache, a `model_load` to a live session, a wait of
two seconds, then a temporary core), the model commands with their temporary core, the version
check with its helper thread, and the thread that serves one MCP authorisation. A `Notified`
counts from its creation (`Enrolled`), and an assignment and its `notify_waiters` are two steps,
so that the order in which cache and notification are looked at and changed is explored in full.
`late` is a deadline that has passed; `peer` is the temporary core or the browser: silent with its
stream open is `"mute"`. `session` is the live session, `"stuck"` when its core does not drain its
stdin. Fairness: tasks and timers go on, and a peer that is neither gone nor mute sends something
in the end.

### 2.6 `ConfigStore`

Each command is the sequence of its system calls that another command can see: a directory that is
made or removed, a file opened (and truncated), written, synced, renamed. `write_file_atomic` is
`write`, `fill`, `sync`, `publish` on a temporary file with a number of its own; plain `fs::write`
truncates first. A write may fail with the disk full, leaving a part. `Crash` stops every command
at once, and a file that was not synced (`dirty`) may be found empty, cut, or whole. Callers take
no lock, as in the code. Values are small: a settings file is two fields, an order is a sequence
of names, other documents are one of two texts. Bounds: `MaxCalls` commands, `MaxTroubles`
failures and crashes together.

`ensure_presets` looks at the root and seeds it afterwards, without a lock. `SeededForGood` says
what holds all the same: from the first seed on that preset is there, so whoever looks from then on
finds no empty root. Two requests that both looked before then both seed, and the slower one writes
its `settings.conf` over what was saved in between: `NeverSeededOver`, refuted by
`ConfigStore_seeds.cfg`.

Two things the model has, and the code does, that no property forbids, since nothing in the
repository promises otherwise: of two partial saves of one preset's settings that overlap, one is
lost (each writes back the whole document it read); and a copy of a preset that is interrupted
leaves a directory that looks like a preset.

### 2.7 `FrameStream`, `Documents`, `Speech`, `Places`, `CoreLaunch` and `Codecs`

`FrameStream` is a small machine: bytes arrive in pieces of any size, the reader takes lines,
decodes them into a tag and a value, dispatches them into events, and says once why it stopped; a
second thread keeps the tail of stderr. A byte is a symbol: what matters about it is whether it
opens a tag, ends a line, or is not UTF-8.

The other four have no state: they are the operators that normalise, merge, write and parse every
configuration document, read a recording's header and an endpoint's answer, make up and resolve
paths, and find and start a core. JSON and HTTP are libraries' and taken as given; a text is a
sequence of characters only where quoting matters. `Codecs` gives them a behavior: either one
stream, or one sample for one conversion.

Paths are sequences of components, `.` and `..` among them. The file system follows them one
component at a time (`Walked`: every directory on the way has to be there), which is what
`canonicalize` does, and where that fails `fs_resolve_path` falls back; only `Normalized`, the code's own fold, drops
dots without looking. `session_path` uses neither: its test that an origin lies in the sessions
root is `strip_prefix` on the path as written (`ContainedUnder`). So `PathsKept` follows the dots and
says of a plan's session that it is four levels below where its origin leads, and in the sessions
directory if the origin has no dots; `OriginContained`, which drops that condition, is refuted (below).

Of the two forms of MCP server, one with a URL keeps whatever `args` and `env` it was given,
unchecked, and `write_mcp_conf` writes them as they are: the samples have values there that are not
JSON, with lines that end a block or name a key. `DocumentsSurvive` promises that servers whose
`args` and `env` are JSON (of which only the first line is read) come back one by one, with their
texts as they were escaped (`BackOf`, `Escaped`): `unquote` takes the outer quotes off and leaves the escapes, so a text with a
quote or a backslash is not read as it was written (`TextsKept`, refuted by `Codecs_comments`).
The speech profile in use is kept as it was sent, untrimmed, after its trimmed form was compared
with the ids (`NormalizeAsrConfig`); what `AsrKept` promises of it is that a second normalising
changes nothing and that, if there is any, some profile is always asked.

One kind of document changes its meaning when it is written and `DocumentsSurvive` leaves it out by name (`KindSettled`): a server with a URL of
nothing but white space, a line break among it, is a stdio server to `sync_default_mcp`, but the
escaped line break is a URL to `parse_mcp_conf`, although the comment in `commands/mcp.rs` says
the kind is inferred the same way.

## 3. Runs

All passing runs are exhaustive for their constants. Deadlock checking is off because the system
may stop: all clicks used, all calls made, the session over.

| run | instance | shows |
|---|---|---|
| `runner_serial` | three tasks, the third after both others; one slot; one retry; three sessions; every operation, three of them | `ResourcesHeld` (`OneOwner`, `RunningHasWindow`, `RetryCap`), `RunnerBook` (`Settled`, `CreatePending`, `SlotBusy`, `StatusAgrees`), `NoDeadlock`, `HistoryKept` (`LaunchRules`, `StopSticks`, `ResultsKept`) |
| `runner_parallel` | two tasks after the first; two slots; four sessions; no reset of live nodes | overlapping creations; a node's session reopened; `NoLeak`; `RunEnds` under fairness |
| `cascade_alone` | one plan of one task; run, re-run, stop, close, restart, a session of the user's | `ResultKept` (`OneResult`, `ResultShown`, `UntouchedUntilForked`), `ForkSettles` |
| `cascade_rerun` | a sub-plan below a parent of two tasks, re-run once | `ForkKeepsPlan` (`ForkOnlyOnChange`, `ForkReplacesNode`, `SubPlanResumes`), `UntouchedUntilForked` |
| `cascade_closing` | three levels, closed from anywhere | `WindowsOwned` |
| `session_writes` | a prompt of three frames, of which one may be refused, two commands, a close; a pipe of two, a table of one | `FramesWhole`, `CancelSaveEOF`, `PendingExact` |
| `session_live` | a prompt and two closes; a pipe of one; the core sends a frame | `ClosedMeansGone`, `StatusKept` (refinement), `CallsReturn` |
| `manager` | three calls of any kind over one directory from before, one preset; a file is settled after two equal looks; two tries to delete | `CoresOwned`, `EnvelopeKept`, `FileReady`, `ClosedForGood` |
| `manager_double` | the same | violation of `OneCorePerDirectory` |
| `waits` | one `list_models`, and one of `list_default_models`, `sync_default_models`, `check_alayacore`, an authorisation | `NoLostWakeup`, `AnswersFit`, `CallsEnd` |
| `config` | two callers, three commands, one failure or crash; two seeds, two presets of the user's, one document | `ConfWhole`, `ListComplete`, `SeededForGood`, `NothingLeftBehind` |
| `codecs` | every stream and every sample up to the bounds in `MCCodecs` | `FramesAsSent`, `EndSaid`, `DocumentsSurvive`, `TranscriptWhole`, `PathsKept`, `LaunchesCore` |

Each component's first run also checks its `TypeOK`. The properties, in words, stand above their
definitions.

**Why the bounds suffice.** *Runner*: three tasks are the least with a join, a fork and a chain of
two; with one slot and two independent tasks every queueing situation occurs; two attempts are the
least with a retry timer. Three clicks allow stop, retry and a second stop around one late reply.
Three or four sessions let a node be bound twice while another is bound; once they are used up a
creation can only fail. *Cascade*: the machine treats the root and the first ancestor differently
and all others like the first: three levels; each user operation is bounded separately (`Budget`).
*Session*: three frames have one before and one after a frame that is refused, or that another
falls between; one room in the pipe is the
least that can be full and not broken; a table of one overflows with two commands; two closers are
the least that can race. *Manager*: the longest chains are a session made, forked or resumed, and
deleted or closed at once: three calls; the envelopes differ by what the preset says and what an
old directory has on record. Owners only select what `close_all` closes, and no client has a name
in the instance. *Waits*: calls meet only in the cache and in the session; one lister and one
other that sets the cache is every meeting. *Config*: two commands at once, a third after them
that sees what they left, and one fault in between; more callers of the same kind only repeat.
*Codecs*: the bounds include every special character, every cut and each value beside each limit,
with the limits made small.

*Symmetry*: sessions in `runner_serial`, calls in `manager`, callers in `config`; none of these
runs has a temporal property about them, and no constant distinguishes one from another.

Limits that narrow a property: `ResultShown` and `ForkSettles` are checked with one re-run (a
second one overlapping the first breaks them, see below); `WindowsOwned` is checked without
reopening plans from a conversation; `NoLeak` without the operations that reset live nodes.

**The run that finds a violation.** `manager_double` / `OneCorePerDirectory`: `resume_session`
compares handles "by directory rather than by the on-disk id to catch double-resumes of the same
dir", but looks at the map before it spawns and inserts after: two resumes at once both find
nothing and two cores write one session file.

**Further disagreements.** Each of these has a configuration and a property with the quoted
sentence beside it, and TLC refutes it. They are not among the runs, most of them being lesser; a
configuration with several properties is run with one at a time, or with `-continue`, since TLC
stops at the first.

| configuration | property | what happens |
|---|---|---|
| `PlanRunner_cap` | `ConcurrencyCap` | a delegated node comes back to Running beyond the cap |
| `PlanRunner_chain` | `BlockedJustified` | a retry of a failed node leaves its dependents Blocked |
| | `RetryReactivates` | a retried node below a canceled one: InProgress, nothing to do |
| | `PauseCancels` | pause cancels nothing |
| | `OutputsAtBind` | a cascade takes a dependency back between launch and bind |
| | `LeavingRunningCloses` | a re-run of a paused run leaves its running sessions alive and unowned |
| | `RunningAlive` | feedback puts a node of a dead session to Running |
| `PlanCascade_swallow` | `CompletionFedBack` | an armed cascade is given an unrelated plan's completion, and drops it |
| `PlanCascade_branch` | `BranchRuns` | the close queued for a run that completed stops the branch that is then re-run |
| | `FailureEnds` | a resumed node failing by an error leaves the cascade armed |
| `PlanCascade_fork` | `NeverMistaken` | a session the user creates while a fork is in flight is taken for the fork |
| | `NoLinger` | a successful top-level re-run leaves the cascade armed |
| | `ForkAdopted` | a second re-run during a fork leaves a fork pending for ever |
| | `CancelDoesNothing` | cancelling a dialog drops an earlier cascade in flight |
| `PlanCascade_level` | `ForkReplacesNode` | above the first level the wrong node is replaced |
| `PlanCascade_below` | `DrainedQueueStarts` | with closed ancestors a confirmed re-run never starts |
| | `ConfirmStartsRoot` | the active plan is started in the root's place |
| | `OneResult` | a session reopened during the run gets a second result |
| `SessionPipe_cut` | `MessagesApart` | "flushes staged content as one message": a prompt with a frame that is refused leaves what comes before it with the core, and the UE of the next prompt flushes both; a file of up to 64 MiB may be attached, and its data URI is longer than a frame may be |
| `SessionPipe_hang` | `CloseBounded` | a close whose own cancel meets a full pipe of a core that reads no more waits with the lock held, without grace period or kill |
| | `KillClosesStdin` | the reader's `kill_child` does not close the core's stdin |
| `SessionManager_delete` | `DeleteCloses` | a session that was resumed runs under another id than its directory's, and a delete of the directory does not close it |
| `BackendWaits_ends` | `ProbeEnds` | a temporary core that stays silent is read from for ever: the deadline is looked at between frames |
| | `FlowEnds` | a browser that connects and sends nothing keeps the thread and the port |
| `ConfigStore_seeds` | `NeverSeededOver` | "seeding never runs again on a non-empty root": of two first requests that both found it empty the slower one seeds over a setting saved after the faster one |
| `ConfigStore_objects` | `WrittenOnce` | of two puts of one content at once the second truncates what the first has written: the look and the write are two steps |
| `Codecs_comments` | `HomeExpanded` | `~/x` resolves to `/x`: what follows the tilde starts with a slash, and replaces the home it is joined to |
| | `OriginContained` | "a nested path must stay inside the sessions root": the test compares the path as written, so an origin with `..` in it passes and means a directory outside |
| | `ActiveConsistent` | "normalize keeps them consistent": an active profile sent with a blank around it passes the comparison and is kept with the blank, so the first profile is asked |
| | `ServersCounted` | "args/env are not applicable" to a server with a URL, yet they are written unchecked: one with a line end can end its block, and more or fewer servers are read than were accepted |
| | `TextsKept` | "Quote with JSON encoding to escape safely": what is read back has the escapes in it, one more layer of them after each save |

Smaller still, met while reading the code and visible in the modules: a frame whose value has a
carriage return inside is read but cannot be written; a `ui.conf` with `version` 2.0 is reported as 1; a
relative path that does not exist resolves to the working directory twice over (`fs.rs`:118-121);
`alayacore.rs`:371-373 calls `ALAYACORE_BIN` an override, which a bundled core comes before; on a
clean checkout the first build bundles a stub of no bytes.

## 4. Proofs

The theorems hold for every value of the constants that the assumptions in the modules allow:
every plan, cap, retry limit, set of sessions, callers and presets, and every size of pipe and
table.

**`RunnerStepProofs`.** Assumes what `RunnerStep` assumes of its constants: finitely many natural
nodes, an acyclic dependency relation (there is a rank), a positive cap and positive attempts.
Lemmas say what each pass leaves alone and establishes. `FinishStepIdempotent`: after `finishStep`
a second one changes nothing. That is not obvious, as the passes run once each: it needs that
concluding and launching create no new reason to block or close.

**`PlanRunnerProofs`.** `TypeCorrect`, `AlwaysSettled` (each action ends in `FinishStep`, so by
idempotence the run is settled, except for `Load`, `Reopen`, which do not touch it),
`NeverDeadlocked` (a settled InProgress run with no active node has a node of least rank that is
not finished: its dependencies are finished, none of them Failed or Blocked, so it was launched or
below a canceled one), `StatusNeverLies`, `CreatesNeverLost`, `LaunchesObeyRules`, and
`BooksAgree`, which puts four of them together as `RunnerBook`. `StatusAgrees` is not inductive by
itself: the case of a late reply to a stopped run needs that binding touches only a Starting node.
The theorems are proved per action from the lemmas about the passes.

Its second half: `HoldsItsResources`, `StopHolds`, `ResultsHold`, `KeepsItsHistory`,
`NothingLeaks`. `ResourcesHeld` becomes inductive with three things it does not say: a node's
attempts are used up exactly when it has Failed; the session a reset node still remembers is in
that node's own history, and histories are disjoint, so that a session which is closed is never
that of another, Running node; and a run that is being read back holds all of this too. A node
that was Waiting before and after an event keeps its timer, one that entered Waiting is armed by
`FinishStep`. `StopSticks` follows from `StatusAgrees` and settledness: a stopped run has no node
a reply, a frame or a timer could move. `NothingLeaks` assumes that the clicks hold none of
Re-run, Load run and the cascade, which do leave sessions behind or take results back (see
`LeavingRunningCloses`); a window that no node is bound to was then there before the step, or is the
one the user has just reopened to read. The dependencies of a launched node stay Succeeded, so
blockedPropagation, which clears nothing, never reaches a node that is bound to a session. As
there are many actions, each is first put into one of a few kinds by what it reads and changes
(`StepKinds`), and each invariant is carried through the kinds.

**`PlanCascadeProofs`.** `ModelTyped`, `ForkAwaited`, `AncestorsUntouched`, `OnlyReadingOrphans`,
`ClosingOrphansNone`: for every number of plans, however deep they are nested, whatever the user
does and how often, with overlapping re-runs and forks answered in any order. Assumes that the
plans are finitely many and nested (`NestingAssumption`: a sub-plan is created in a session of a
plan that was there before) and that `Nothing` is no cascade and no fork. The invariant is
`CascadeInv`: the types, and `Awaited`, that a cascade in WaitingFork has its fork pending.
`UntouchedUntilForked` needs the second: an arriving session is given to the pending fork, and a
cascade that waited with none pending would adopt it and take nodes back without having cut
anything. Every function of the executor is put into one of three relations between the model
before and after: `Still` (nothing of the cascade changes), `Safe` (nothing is taken back, a
waiting cascade keeps its fork) and `Further` (the steps of an adoption); each relation implies the
next weaker one and composes, so that a handler is proved along its calls. `Waits` says what a run
could be made to take back: no event of the runner, and no pass of `finishStep`, makes a node wait
for a sub-plan. For `Owned`, a close takes the whole set below a plan (`CloseSetClosed`), so what
stays has its owner; `PlanReadResult` is the only step that opens a window without looking for the
session (`ClosingOrphansNone` therefore speaks of behaviors in which no plan is being read, those
of run `cascade_closing` among them). The types need that `walkLevels` ends (`LevelsType`): the
walk exists by the least depth at which it would not.

**`SessionPipeProofs`.** `TypeCorrect`, `FramesNeverInterleave`, `CutsReported`,
`MessagesKept`, `EOFAfterSave`, `CloseLeavesNothing`, `RegistryExact`, `StatusInOrder`. The parts of the inductive
invariant `IInv` beyond the properties: `Unborn` (before the spawn nothing exists),
`MutualExclusion`, `Fresh` and `Counted` (how many frames each caller has in `written`, according
to where it stands), `LastMine` (the holder's frames, if any, are at the end of `written`),
`Whole` (a caller that is done has all its frames,
a refused one was told so), `OneCloser` (of several closes one finds the
session), `ChildOwned` (a taken process is with whoever reaps it, or reaped), `Told` (which
announcements are made, from where the creator and the reader stand). `FramesNeverInterleave`
needs all of the middle ones: a caller appends to a sequence whose end is its own, because it
holds the lock since its first frame, because the lock is released only after the last.
`EOFAfterSave` adds that end of file by a closer comes at the end of that same critical section.
`CloseLeavesNothing` needs that a closer that finds the process taken finds it reaped, as the
reader lets go of the mutex only then. Actions are first summarised into a few kinds of move
(nothing here, outside the lock, enters, writes, leaves), then each part of the invariant is
proved per kind. `RegistryExact` rests on an invariant of its own, `RegistryInv`: a command has one
frame and one answer, the registry has each command once and none that failed, and a command that
is about to write, or whose frame or answer is under way, is in the registry or has been pushed
out by `MaxPending` others, whom an injection from the places of a full registry counts.
`StatusInOrder` is the safety half of the refinement: initial states map to
initial states, every step to a step or a stutter of `SessionStatus`.

**`SessionManagerProofs`.** `TypeCorrect`, `CoresAlwaysOwned`, `EnvelopesKept`, `FilesReady`,
`ClosesForGood`: every safety property of the run. The invariant adds `Shape` (what a call's place
in its program says of its handle, its process and its directory: nobody holds a handle that is
still in the map, a directory is named after the call that makes it and is made once), `Envelopes`
(at each place, `env` is what the session was given, or history says why not) and `FilesSeen` (a
call that passed the look, or the wait, has a directory with a file that is not of another
version, or the directory was deleted since). No file turns into one of another version and none
goes but by a delete: that is what carries a check made early to the spawn that comes late.

**`BackendWaitsProofs`.** `TypeCorrect`, `WakeupsArrive`, `AnswersAsked`. `NoLostWakeup` with
`Shape` (what a call's place says of its peer and its command) is inductive: a caller falls asleep
only by looking at the cache after it has enrolled, so a later assignment has a later
notification, which wakes all who are enrolled.

**`ConfigStoreProofs`.** `TypeCorrect`, `DocumentsWhole`, `SeedsForGood`, `NothingLeft`,
`ListsComplete`. The invariant adds the shape of every caller's stage, and `Synced`: a file that is
renamed into place has been synced and is whole, so nothing atomic is ever dirty and a crash finds
it as it was. `SeedsKept`: seeds are made first one first and no command removes or renames one, so
the root is never empty again. That does not stop a command which has looked at the empty root already
(`NeverSeededOver`); the theorem says of the looks that come after the first seed that they find it.
`ListsKept` says what a list is worth at each place of a command
that makes one, from the reading of the directory to the answer or to the rename of the order file;
no other command writes that file, and a temporary file belongs to one writer. The list itself is
the first mentions of a sequence, counted by rank and not by a fold, so that a bijection from ranks
to names gives its length without induction.

**`CodecsProofs`, the stream.** `FramesArrive`, `EndToldOnce`, for any stream, any cut, any bound on a
frame and on the tail. The invariant says where the reader is: what it holds of a line, its buffer
and what has not arrived are three adjacent pieces of the stream, the first of which begins at the
end of a line and has no end in it, and as many frames were shown as lines end up to there
(`Placed`). With the line decoded the next line is the one between two adjacent ends (`LineIs`,
`TakenLine`); `FrameDecoded` and `Refused` say that `decode_line` gives a frame exactly when the line
carries one, and `EventIsFrame` that the event says which frame it was. `Told` counts the ends that
were said against `announced`; `TailIs` is what stderr's tail holds. The counting is by
cardinality of sets of places, so no fold over a stream is needed. `Codecs` also runs the machine
of `FrameStream`, beside its samples; the theorems are about the machine itself.

**`CodecsProofs`, the conversions.** `CoreLaunched`, `PathsAlwaysKept`, for any set of samples of
the types `SamplesAssumption` gives: any machine, any options, any number of arguments; any names,
paths and listings, of any length. What the code does in a loop is a recursive function on the
places of a sequence (`Override`, `Normalized`), and `FoldExists` says that such a function is
there and has its equations; `Climb` then carries a fact from the first place to the last, as the
set of places without it would have a least element (`LeastNumber`). The order of a listing is by
rank: `Ranks` and `RankedIsWhole` show, from the cardinality of intervals, that every rank below
the number of entries is taken once, so that the list has every entry and its neighbours are in
order. Assumed of the constants: the working directory has no dots in it (the system gives it
without), and no two entries of a directory sort alike.

`DocumentsAlwaysSurvive`, for documents of any length. A sequence is built one item at a time:
`SeqClimb` and `SeqClimbBack` say that a set with the empty sequence that is closed under one item
more, at the end or at the front, has every sequence in it, and `FlattenMore` is how what the code
puts together out of pieces grows by a piece; both are by counting lengths, without the induction
theorems of the library. What is read
back of mcp.conf goes by lines: a text that was quoted is one line (`EscapedLine`), JSON is one or
two of which only the first is read (`LineAlone`, `FlattenOnes`), so the blocks and their lines are
those that were written (`PiecesWhole`), and no server is lost or joined to another as long as
`args` and `env` are JSON (`Tame`). That the name of the model in use comes back is that `Escaped`
is a prefix code: no character is written as the beginning of another (`EscapedApart`), so the
writing of a text can be read in one way only. Trimming is known
by its bounds (`Stripped`), not by the loop that finds them. `BackOf` is what the next reader has of
a server: its texts as they were escaped, and everything but the kind, when mcp.conf does not tell it
(`KindSettled`). The speech profile that is asked is the one `active` names, or the first when white
space around `active` keeps it from naming any. The enabled
servers keep their order by rank (`PickedItems`), as entries of a listing do. Settings, labels,
limits, speech services and the header of a session file are each a lemma. Assumed of the
constants are the types of the samples (`SamplesAssumption`).

`TranscriptsWhole`, for any number of words and of lines between them, and for recordings of any
number of chunks. `Joined`, the texts of the lines before a line, is a recursive function whose
domain ends at that line: `JoinedSame` says that it gives the same for any two bodies that begin
alike, so `JoinedQuiet` and `JoinedAfter` can carry it over lines that say nothing and over one
line more, and `StreamedWords` has all of the words before the end by `SeqClimb`. The case split
is then over the four ends a body can have (`IsEnd`). `StartSteps` turns the scan of a recording
into a sum, `StartOrder` puts every chunk after the end of those before it; so `PayloadIs` knows
that only the last chunk can be cut by the end of the file. `ActiveIs` gives the profile that is
asked its defaults. Assumed of the samples: only the last chunk of a recording is cut, and an end
that repeats the text repeats all of it.

**Only model-checked.** All liveness (`RunEnds`, `ForkSettles`, `CallsReturn`, `CallsEnd`, the
fair half of `StatusKept`), as it is beyond this prover; of `PlanCascade`, what holds only as long
as re-runs do not overlap or plans are not higher than two levels (`OneResult`, `ResultShown`,
`ForkKeepsPlan`: the disagreements above are the counterexamples with larger budgets). The three
parts of `ForkKeepsPlan` are also bound to what `cascade_rerun` lets the user do beside the re-run:
with a second `Run` click TLC violates `ForkOnlyOnChange` and `ForkReplacesNode`; `ForkReplacesNode`
is violated after one click when windows are closed, sessions closed and created and runs stopped in
between; `SubPlanResumes` when the sub-plan completes while the window of the plan above it is
closed and a pending resume opens that again, so that its node waits for ever. No invariant that is
inductive for all budgets can imply them.

## 5. Not modelled, and why

Text, layout and drawing (Detect, Inject, Format, View, Overlay, chain.js, overlay.js) have no
order to get wrong. Windows, plug-ins and the event loop of the desktop application are Tauri's.
The Go backend is written to do what the Rust one does, and is not compared with it here: its hub
(bounded queues per client), its access rules and its shutdown are its own and left out. Test
core, scripts and packaging are not part of the running program. Everything else listed under
`not_modelled` in `PROJECT.json` is in the plan.

## 6. Plan

What comes next, the most important behaviour that is still missing first:

1. `NodeSession`: client routing (`Session/Events`, `Handlers`): buffered frames, ids of work
   copies, replay, `planTaskStarted`, lost connection. Properties: a frame reaches its session
   once and in order; replay causes no second action. Composes with `PlanRunner`'s events, and
   takes `FrameStream`'s events as what arrives.
2. `SessionCreates`: the shared creation queue with user creations, forks and resumes in flight
   (the cases `PlanRunner` leaves out).
3. `PlanRestart`: run.json written and read across a restart; `Meta`, `MetaScan`. Property: a
   restored run has no node that waits for what cannot come.
4. `Freeze`: puts, versions, heads; late answers of an abandoned freeze. Property: a version names
   exactly the blocks of its session. Composes with `ConfigStore`'s objects.
5. `RunnerAlgorithms`: plan validation, cycle detection, transitive successors, references,
   against reference definitions on all small graphs.
6. `Windows`: stacking, close sets with several plans per session, stored layout.
7. The hub of the Go backend: what a client got has no gap, and its session as a second
   implementation of `SessionStatus`.

Theorems still wanted for what exists: see the end of section 4.
