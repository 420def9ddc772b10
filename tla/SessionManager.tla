--------------------------- MODULE SessionManager ---------------------------
(***************************************************************************)
(* The session commands of the desktop backend (commands/sessions.rs,      *)
(* session.rs, wait_for_file of commands/mod.rs, the session directories   *)
(* and spawn args of dirs.rs): which alayacore processes run, on which     *)
(* directory and with which capability envelope, while clients create,     *)
(* resume, fork, close and delete sessions.  Commands are tasks of a       *)
(* multi-threaded runtime: they interleave at every step that is visible   *)
(* outside.                                                                *)
(*                                                                         *)
(* A call mints at most one uuid: it is named after the call, and so is    *)
(* the directory it makes.  A directory of Old was there at the start.     *)
(* Writing to one session and closing its pipe are SessionPipe's subject.  *)
(***************************************************************************)
EXTENDS Naturals, FiniteSets

CONSTANTS
  Calls, Old, Clients, Presets, None,
  Setting,     \* builtin_tools in the settings.conf of each preset
  Overrides,   \* the builtin_tools a caller may pass
  Before,      \* the envelopes of the sessions of Old
  Settled,     \* STABLE_WINDOW
  Tries        \* how often delete_session_dir tries

Dirs == Calls \cup Old
Tools == {"unset", "empty", "some"}
Envelope == [preset : Presets \cup {None}, tools : Tools]
Handles == [dir : Dirs, owner : Clients \cup {None}]

ASSUME ManagerAssumption ==
  /\ Calls \cap Old = {} /\ None \notin Dirs \cup Clients \cup Presets \cup Envelope \cup Handles
  /\ Setting \in [Presets -> {"empty", "some"}]
  /\ Overrides \subseteq Tools
  /\ Before \subseteq Envelope
  /\ {Settled, Tries} \subseteq Nat \ {0}

VARIABLES
  pc,       \* where each call stands
  arg,      \* the command: source or directory, owner
  env,      \* the spawn args it has made up or read
  map,      \* SessionMap: the handle of each id
  core,     \* the process started for each id
  disk,     \* the session directories
  todo,     \* the ids a call has still to close
  held,     \* the ids whose child it has taken
  polled,   \* wait_for_file: the size seen, and for how many polls; the tries of delete
  given,    \* history: the envelope the session of a directory was given
  lost,     \* history: the directories whose spawn args could not be written, or are deleted
  blind     \* history: the resumes that looked before those were written

history == <<given, lost, blind>>
vars == <<pc, arg, env, map, core, disk, todo, held, polled, history>>

\* SpawnArgs::default: no restriction, and no preset to inherit.
Default == [preset |-> None, tools |-> "unset"]

\* A session.alaya is "old" when its message_version is another one, "part"
\* while it grows.  The directory holds config and spawn args as well.
Files == {"none", "part", "good", "old"}
Absent == [there |-> FALSE, config |-> FALSE, file |-> "none", args |-> None]
NoCore == [st |-> "none", dir |-> None, env |-> Default, from |-> "none"]
NotPolled == [size |-> "none", n |-> 0]
NoArg == [op |-> "none", dir |-> None, owner |-> None, src |-> None, copy |-> FALSE]
Command(o, d, w) == [NoArg EXCEPT !.op = o, !.dir = d, !.owner = w]

Init ==
  /\ pc = [c \in Calls |-> "idle"]
  /\ arg = [c \in Calls |-> NoArg]
  /\ env = [c \in Calls |-> Default]
  /\ map = [c \in Calls |-> None]
  /\ core = [c \in Calls |-> NoCore]
  /\ given \in {g \in [Dirs -> Before \cup {Default}] : \A c \in Calls : g[c] = Default}
  /\ lost \in SUBSET Old
  /\ \E file \in [Old -> {"good", "old"}] :
       disk = [d \in Dirs |->
         IF d \in Calls THEN Absent
         ELSE [there |-> TRUE, config |-> TRUE, file |-> file[d],
               args |-> IF d \in lost THEN None ELSE given[d]]]
  /\ todo = [c \in Calls |-> {}]
  /\ held = [c \in Calls |-> {}]
  /\ polled = [c \in Calls |-> NotPolled]
  /\ blind = {}

Go(c, from, to) == pc[c] = from /\ pc' = [pc EXCEPT ![c] = to]

Spawned_NoDefault(d) == disk[d].args
\* read_spawn_args: a file that is missing is no error.
Spawned(d) == IF disk[d].args = None THEN Default ELSE disk[d].args

(***************************************************************************)
(* create_session                                                          *)
(***************************************************************************)
\* An explicit list wins, the empty one too (no tool at all); an empty
\* setting is no restriction.
Effective(o, p) ==
  IF o # "unset" THEN o ELSE IF Setting[p] = "empty" THEN "unset" ELSE Setting[p]

\* create_session_dir_in: the preset is resolved before anything is made.
Make(c) == disk' = [disk EXCEPT ![c] = [there |-> TRUE, config |-> TRUE, file |-> "none", args |-> None]]

CreateSession(c) ==
  /\ Go(c, "idle", "arguing")
  /\ \E p \in Presets, o \in Overrides, w \in Clients \cup {None} :
       /\ arg' = [arg EXCEPT ![c] = Command("create", c, w)]
       /\ env' = [env EXCEPT ![c] = [preset |-> p, tools |-> Effective(o, p)]]
  /\ given' = [given EXCEPT ![c] = env'[c]]
  /\ Make(c)
  /\ UNCHANGED <<map, core, todo, held, polled, lost, blind>>

\* A reasoning level out of range, or a work_dir that cannot be made: the
\* directory stays.
Refuse(c) ==
  /\ Go(c, "arguing", "failed")
  /\ UNCHANGED <<arg, env, map, core, disk, todo, held, polled, history>>

WriteArgs_CreateOnly(c) ==
  /\ Go(c, "arguing", "spawning")
  /\ disk' = IF arg[c].op = "create" THEN [disk EXCEPT ![c].args = env[c]] ELSE disk
  /\ UNCHANGED <<arg, env, map, core, todo, held, polled, history>>
\* write_spawn_args, best effort.
WriteArgs(c) ==
  /\ Go(c, "arguing", "spawning")
  /\ \/ /\ disk[c].there /\ disk' = [disk EXCEPT ![c].args = env[c]]
        /\ UNCHANGED lost
     \/ lost' = lost \cup {c} /\ UNCHANGED disk
  /\ UNCHANGED <<arg, env, map, core, todo, held, polled, given, blind>>

\* session::create
Spawn(c) ==
  /\ Go(c, "spawning", "inserting")
  /\ LET d == arg[c].dir
     IN  core' = [core EXCEPT ![c] =
                    [st |-> "running", dir |-> d, env |-> env[c], from |-> disk[d].file]]
  /\ UNCHANGED <<arg, env, map, disk, todo, held, polled, history>>

SpawnFails(c) ==
  /\ Go(c, "spawning", "failed")
  /\ UNCHANGED <<arg, env, map, core, disk, todo, held, polled, history>>

\* From here on the session can be closed.
Insert(c) ==
  /\ Go(c, "inserting", "ok")
  /\ map' = [map EXCEPT ![c] = [dir |-> arg[c].dir, owner |-> arg[c].owner]]
  /\ UNCHANGED <<arg, env, core, disk, todo, held, polled, history>>

(***************************************************************************)
(* resume_session: of a directory some list_session_dirs has shown         *)
(***************************************************************************)
Listed == {d \in Dirs : disk[d].there /\ disk[d].file # "none"}

ResumeSession(c) ==
  /\ Go(c, "idle", "looking")
  /\ \E d \in Listed, w \in Clients \cup {None} :
       arg' = [arg EXCEPT ![c] = Command("resume", d, w)]
  /\ UNCHANGED <<env, map, core, disk, todo, held, polled, history>>

Look_AnyVersion(c) ==
  /\ LET d == disk[arg[c].dir]
     IN  Go(c, "looking", IF d.config /\ d.file # "none" THEN "asking" ELSE "failed")
  /\ UNCHANGED <<arg, env, map, core, disk, todo, held, polled, history>>
\* The files are there, and session_file_rejection has nothing against them.
Look(c) ==
  /\ LET d == disk[arg[c].dir]
     IN  Go(c, "looking", IF d.config /\ d.file \in {"part", "good"} THEN "asking" ELSE "failed")
  /\ UNCHANGED <<arg, env, map, core, disk, todo, held, polled, history>>

Active(d) == \E i \in Calls : map[i] # None /\ map[i].dir = d

Ask(c) ==
  /\ Go(c, "asking", IF Active(arg[c].dir) THEN "failed" ELSE "reading")
  /\ UNCHANGED <<arg, env, map, core, disk, todo, held, polled, history>>

\* The call that makes a directory has not come to writing its spawn args,
\* or failed before.
Unwritten(d) ==
  d \in Calls /\ pc[d] \in {"forking", "waiting", "arguing", "failed"} /\ disk[d].args = None

ReadArgs(c) ==
  /\ Go(c, "reading", "spawning")
  /\ env' = [env EXCEPT ![c] = Spawned(arg[c].dir)]
  /\ blind' = IF Unwritten(arg[c].dir) THEN blind \cup {c} ELSE blind
  /\ UNCHANGED <<arg, map, core, disk, todo, held, polled, given, lost>>

(***************************************************************************)
(* fork_session                                                            *)
(***************************************************************************)
\* A plain fork names no preset: it takes the source's, and its envelope.
Inherits(o, src) == IF o # "unset" THEN o ELSE src.tools

ForkSession_OfPreset(c) ==
  /\ \E s \in Calls, p \in Presets \cup {None}, o \in Overrides, w \in Clients \cup {None} :
       /\ map[s] # None
       /\ LET src == Spawned(map[s].dir)
              plain == p = None
          IN  /\ plain => src.preset # None
              /\ arg' = [arg EXCEPT ![c] =
                   [op |-> "fork", dir |-> c, owner |-> w, src |-> s, copy |-> plain /\ o = "unset"]]
              /\ env' = [env EXCEPT ![c] =
                   IF plain THEN [preset |-> src.preset, tools |-> Effective(o, src.preset)]
                   ELSE [preset |-> p, tools |-> Effective(o, p)]]
  /\ Go(c, "idle", "forking")
  /\ given' = [given EXCEPT ![c] = env'[c]]
  /\ Make(c)
  /\ UNCHANGED <<map, core, todo, held, polled, lost, blind>>
ForkSession(c) ==
  /\ \E s \in Calls, p \in Presets \cup {None}, o \in Overrides, w \in Clients \cup {None} :
       /\ map[s] # None
       /\ LET src == Spawned(map[s].dir)
              plain == p = None
          IN  /\ plain => src.preset # None
              /\ arg' = [arg EXCEPT ![c] =
                   [op |-> "fork", dir |-> c, owner |-> w, src |-> s, copy |-> plain /\ o = "unset"]]
              /\ env' = [env EXCEPT ![c] =
                   IF plain THEN [preset |-> src.preset, tools |-> Inherits(o, src)]
                   ELSE [preset |-> p, tools |-> Effective(o, p)]]
  /\ Go(c, "idle", "forking")
  /\ given' = [given EXCEPT ![c] = env'[c]]
  /\ Make(c)
  /\ UNCHANGED <<map, core, todo, held, polled, lost, blind>>

\* No such session, or a plain fork of one without a recorded preset.
ForkRefused(c) ==
  /\ \E s \in Calls : map[s] # None => Spawned(map[s].dir).preset = None
  /\ Go(c, "idle", "failed")
  /\ UNCHANGED <<arg, env, map, core, disk, todo, held, polled, history>>

\* send_cmd: a session that is gone by now, or whose core is, is an error.
SendFork(c) ==
  /\ LET s == arg[c].src
     IN  Go(c, "forking", IF map[s] # None /\ core[s].st = "running" THEN "waiting" ELSE "failed")
  /\ UNCHANGED <<arg, env, map, core, disk, todo, held, polled, history>>

Poll(c) ==
  /\ pc[c] = "waiting" /\ disk[c].file # "none"
  /\ LET n == IF disk[c].file = polled[c].size THEN polled[c].n + 1 ELSE 1
         over == n > 1 /\ n >= Settled
     IN  /\ polled' = [polled EXCEPT ![c] = IF over THEN NotPolled ELSE [size |-> disk[c].file, n |-> n]]
         /\ pc' = IF over THEN [pc EXCEPT ![c] = "arguing"] ELSE pc
  /\ UNCHANGED <<arg, env, map, core, disk, todo, held, history>>

Deadline_Anyway(c) ==
  /\ Go(c, "waiting", "arguing")
  /\ UNCHANGED <<arg, env, map, core, disk, todo, held, polled, history>>
\* Ten seconds are over.
Deadline(c) ==
  /\ Go(c, "waiting", IF polled[c].size # "none" THEN "arguing" ELSE "failed")
  /\ polled' = [polled EXCEPT ![c] = NotPolled]
  /\ UNCHANGED <<arg, env, map, core, disk, todo, held, history>>

(***************************************************************************)
(* close_session, close_all_sessions, delete_session_dir                   *)
(***************************************************************************)
CloseSession(c) ==
  /\ \E i \in Calls :
       /\ todo' = [todo EXCEPT ![c] = {i}]
       /\ arg' = [arg EXCEPT ![c] = Command("close", None, None)]
  /\ Go(c, "idle", "closing")
  /\ UNCHANGED <<env, map, core, disk, held, polled, history>>

\* The ids are collected under the lock, and closed without it.
CloseAllSessions(c) ==
  /\ \E w \in Clients \cup {None} :
       /\ todo' = [todo EXCEPT ![c] = {i \in Calls : map[i] # None /\ (w = None \/ map[i].owner = w)}]
       /\ arg' = [arg EXCEPT ![c] = Command("close_all", None, w)]
  /\ Go(c, "idle", "closing")
  /\ UNCHANGED <<env, map, core, disk, held, polled, history>>

\* The directory is named by an id; only a session that was created under
\* that id is closed first.
DeleteSessionDir(c) ==
  /\ \E d \in Dirs :
       /\ disk[d].there
       /\ todo' = [todo EXCEPT ![c] = {d} \cap Calls]
       /\ arg' = [arg EXCEPT ![c] = Command("delete", d, None)]
  /\ Go(c, "idle", "closing")
  /\ UNCHANGED <<env, map, core, disk, held, polled, history>>

Take_Forgets(c) ==
  /\ pc[c] = "closing"
  /\ \E i \in todo[c] :
       /\ todo' = [todo EXCEPT ![c] = @ \ {i}]
       /\ map' = [map EXCEPT ![i] = None]
  /\ UNCHANGED <<pc, arg, env, core, disk, held, polled, history>>
\* close_with_timeout: the handle leaves the map, its child is taken.  An id
\* that is not there is passed over.
Take(c) ==
  /\ pc[c] = "closing"
  /\ \E i \in todo[c] :
       /\ todo' = [todo EXCEPT ![c] = @ \ {i}]
       /\ map' = [map EXCEPT ![i] = None]
       /\ held' = [held EXCEPT ![c] = IF map[i] # None THEN @ \cup {i} ELSE @]
  /\ UNCHANGED <<pc, arg, env, core, disk, polled, history>>

\* The child of a taken handle exits or is killed.
Teardown(c) ==
  /\ \E i \in held[c] : core[i].st = "running" /\ core' = [core EXCEPT ![i].st = "gone"]
  /\ UNCHANGED <<pc, arg, env, map, disk, todo, held, polled, history>>

\* close_session of an id that is not there is an error; the others do not
\* mind.
Closed(c) ==
  IF arg[c].op = "delete" THEN "emptying"
  ELSE IF arg[c].op = "close" /\ held[c] = {} THEN "failed" ELSE "ok"

CloseEnds_Early(c) ==
  /\ todo[c] = {}
  /\ Go(c, "closing", Closed(c))
  /\ UNCHANGED <<arg, env, map, core, disk, todo, held, polled, history>>
\* All the tasks have been joined.
CloseEnds(c) ==
  /\ todo[c] = {} /\ \A i \in held[c] : core[i].st = "gone"
  /\ Go(c, "closing", Closed(c))
  /\ UNCHANGED <<arg, env, map, core, disk, todo, held, polled, history>>

\* remove_dir_all: what is in the directory, then the directory.
Empty(c) ==
  /\ Go(c, "emptying", "removing")
  /\ LET d == arg[c].dir
     IN  /\ disk' = [disk EXCEPT ![d] = [Absent EXCEPT !.there = disk[d].there]]
         /\ lost' = lost \cup {d}
  /\ UNCHANGED <<arg, env, map, core, todo, held, polled, given, blind>>

Remove_Once(c) ==
  /\ Go(c, "removing", "ok")
  /\ LET d == arg[c].dir
         full == disk[d].file # "none" \/ disk[d].args # None
     IN  disk' = IF full THEN disk ELSE [disk EXCEPT ![d] = Absent]
  /\ UNCHANGED <<arg, env, map, core, todo, held, polled, history>>
\* A save that landed in between keeps the directory: try again.
Remove(c) ==
  /\ LET d == arg[c].dir
         full == disk[d].file # "none" \/ disk[d].args # None
         n == polled[c].n + 1
     IN  /\ Go(c, "removing", IF ~full THEN "ok" ELSE IF n < Tries THEN "emptying" ELSE "failed")
         /\ disk' = IF full THEN disk ELSE [disk EXCEPT ![d] = Absent]
         /\ polled' = [polled EXCEPT ![c].n = IF full /\ n < Tries THEN n ELSE 0]
  /\ UNCHANGED <<arg, env, map, core, todo, held, history>>

(***************************************************************************)
(* alayacore (external): it saves into a directory that is there, writes   *)
(* the file of a fork, and may be gone by itself; a save does not mend a   *)
(* file of another version.                                                *)
(***************************************************************************)
Save(i) ==
  /\ core[i].st = "running" /\ disk[core[i].dir].there
  /\ disk[core[i].dir].file # "good"
  /\ disk' = [disk EXCEPT ![core[i].dir].file = "good"]
  /\ UNCHANGED <<pc, arg, env, map, core, todo, held, polled, history>>

WriteFork(c) ==
  /\ pc[c] \in {"waiting", "arguing", "spawning"} /\ arg[c].op = "fork"
  /\ core[arg[c].src].st = "running" /\ disk[c].there /\ disk[c].file \in {"none", "part"}
  /\ \E f \in {"part", "good"} : disk' = [disk EXCEPT ![c].file = f]
  /\ UNCHANGED <<pc, arg, env, map, core, todo, held, polled, history>>

CoreExits(i) ==
  /\ core[i].st = "running"
  /\ core' = [core EXCEPT ![i].st = "gone"]
  /\ UNCHANGED <<pc, arg, env, map, disk, todo, held, polled, history>>

(***************************************************************************)
(* The specification                                                       *)
(***************************************************************************)
Start(c) ==
  \/ CreateSession(c) \/ ResumeSession(c) \/ ForkSession(c) \/ ForkRefused(c)
  \/ CloseSession(c) \/ CloseAllSessions(c) \/ DeleteSessionDir(c)

Continue(c) ==
  \/ Refuse(c) \/ WriteArgs(c) \/ Spawn(c) \/ SpawnFails(c) \/ Insert(c)
  \/ Look(c) \/ Ask(c) \/ ReadArgs(c)
  \/ SendFork(c) \/ Poll(c) \/ Deadline(c)
  \/ Take(c) \/ Teardown(c) \/ CloseEnds(c) \/ Empty(c) \/ Remove(c)

Core(c) == Save(c) \/ WriteFork(c) \/ CoreExits(c)

Next == \E c \in Calls : Start(c) \/ Continue(c) \/ Core(c)

Spec == Init /\ [][Next]_vars

(***************************************************************************)
(* Properties.                                                             *)
(***************************************************************************)
Labels ==
  {"idle", "arguing", "spawning", "inserting", "looking", "asking", "reading", "forking",
   "waiting", "closing", "emptying", "removing", "ok", "failed"}
Ops == {"none", "create", "resume", "fork", "close", "close_all", "delete"}

Commands ==
  [op : Ops, dir : Dirs \cup {None}, owner : Clients \cup {None}, src : Calls \cup {None},
   copy : BOOLEAN]
Processes == [st : {"none", "running", "gone"}, dir : Dirs \cup {None}, env : Envelope, from : Files]
Contents == [there : BOOLEAN, config : BOOLEAN, file : Files, args : Envelope \cup {None}]
Polls == [size : Files, n : Nat]

\* Every variable keeps its shape.
TypeOK ==
  /\ pc \in [Calls -> Labels]
  /\ arg \in [Calls -> Commands]
  /\ env \in [Calls -> Envelope]
  /\ map \in [Calls -> Handles \cup {None}]
  /\ core \in [Calls -> Processes]
  /\ disk \in [Dirs -> Contents]
  /\ todo \in [Calls -> SUBSET Calls] /\ held \in [Calls -> SUBSET Calls]
  /\ polled \in [Calls -> Polls]
  /\ given \in [Dirs -> Envelope] /\ lost \subseteq Dirs /\ blind \subseteq Calls

Running(i) == core[i].st = "running"

\* No process is lost sight of: while it runs, its handle is in the map, or
\* the call that spawned it is about to put it there, or a call that took it
\* from there is waiting for its end.
CoresOwned ==
  \A i \in Calls : Running(i) =>
    \/ map[i] # None /\ map[i].dir = core[i].dir
    \/ pc[i] = "inserting"
    \/ \E c \in Calls : i \in held[c] /\ pc[c] = "closing"

\* A core runs with the envelope its session was created with, also after it
\* was resumed (resume_session: "so the resumed session keeps its capability
\* envelope"), unless that could not be written, is deleted, or was not yet
\* written when the resume looked (the fork
\* that makes the directory was under way or had failed); and a plain fork has its source's.
EnvelopeKept ==
  /\ \A i \in Calls : Running(i) =>
       core[i].env = given[core[i].dir] \/ core[i].dir \in lost \/ i \in blind
  /\ \A c \in Calls : arg[c].copy => given[c] = given[core[arg[c].src].dir]

\* A core is never started on a file of another version, nor a resume or a
\* fork without a file, unless a delete came in between.
FileReady ==
  \A i \in Calls : Running(i) =>
    /\ core[i].from # "old"
    /\ arg[i].op # "create" => core[i].from # "none" \/ core[i].dir \in lost

\* A close that goes on, to the client or to the removal, has seen its cores
\* gone; and what a delete that returns without an error has removed does
\* not come back with a late save.
ClosedForGood ==
  /\ \A c \in Calls : pc[c] \in {"emptying", "removing", "ok"} =>
       \A i \in held[c] : core[i].st = "gone" /\ map[i] = None
  /\ \A c \in Calls : arg[c].op = "delete" /\ pc[c] = "ok" =>
       ~disk[arg[c].dir].there /\ arg[c].dir \notin Listed

(***************************************************************************)
(* What comments say, and the code does not do.                            *)
(***************************************************************************)
\* resume_session: the handles are compared by directory "to catch
\* double-resumes of the same dir".
OneCorePerDirectory ==
  \A i, j \in Calls : Running(i) /\ Running(j) /\ core[i].dir = core[j].dir => i = j

\* delete_session_dir: "Close if running".
DeleteCloses ==
  \A c \in Calls : arg[c].op = "delete" /\ pc[c] = "ok" =>
    \A i \in Calls : Running(i) => core[i].dir # arg[c].dir
=============================================================================
