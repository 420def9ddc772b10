------------------------- MODULE SessionManagerProofs -------------------------
(***************************************************************************)
(* What every behaviour of SessionManager satisfies, for any number of     *)
(* calls, directories, clients and presets.                                *)
(***************************************************************************)
EXTENDS SessionManager, TLAPS

(***************************************************************************)
(* The inductive invariant.                                                *)
(***************************************************************************)
Making == {"create", "fork"}
Closing == {"close", "close_all", "delete"}
OpenEnded == {"closing", "emptying", "removing"}

\* The directory has been made: it is never made again, as its call is not
\* idle any more.
Made(d) == d \in Old \/ (d \in Calls /\ arg[d].op \in Making)

\* What a call is doing fits the command it carries out.
Phase(c) ==
  /\ pc[c] = "idle" => arg[c] = NoArg
  /\ pc[c] \in {"arguing", "forking", "waiting"} => arg[c].op \in Making
  /\ pc[c] \in {"looking", "asking", "reading"} => arg[c].op = "resume"
  /\ pc[c] \in {"spawning", "inserting"} => arg[c].op \in Making \cup {"resume"}
  /\ pc[c] \in OpenEnded => arg[c].op \in Closing
  /\ pc[c] \in {"emptying", "removing"} => arg[c].op = "delete"
  /\ pc[c] = "forking" => arg[c].op = "fork" /\ arg[c].src \in Calls
  /\ arg[c].op \in Making => arg[c].dir = c
  /\ arg[c].op \in {"resume", "delete"} => arg[c].dir \in Dirs
  /\ arg[c].dir # None => Made(arg[c].dir)

\* A process belongs to the call that started it, a handle to its process.
Handle(c) ==
  /\ core[c].st # "none" =>
       /\ pc[c] \in {"inserting", "ok"} /\ arg[c].op \in Making \cup {"resume"}
       /\ core[c].dir = arg[c].dir
  /\ pc[c] = "inserting" => core[c].st # "none"
  /\ map[c] # None => pc[c] = "ok" /\ core[c].st # "none" /\ map[c].dir = core[c].dir

\* Only a call that closes has something to close; what it has taken stays
\* out of the map.
Holds(c) ==
  /\ todo[c] \cup held[c] # {} => arg[c].op \in Closing
  /\ \A i \in held[c] : pc[i] = "ok" /\ map[i] = None /\ core[i].st # "none"

Shape ==
  /\ \A c \in Calls : Phase(c) /\ Handle(c) /\ Holds(c)
  /\ \A d \in Dirs : disk[d].there => Made(d)

\* Where a call has its envelope from, and what is written of it.
Envelopes ==
  /\ \A c \in Calls : pc[c] \in {"arguing", "forking", "waiting"} => env[c] = given[c]
  /\ \A c \in Calls : pc[c] = "spawning" =>
       env[c] = given[arg[c].dir] \/ arg[c].dir \in lost \/ c \in blind
  /\ \A c \in Calls : pc[c] = "removing" => arg[c].dir \in lost
  /\ \A d \in Dirs : disk[d].args # None => disk[d].args = given[d]
  /\ \A d \in Dirs : Made(d) /\ disk[d].args = None =>
       d \in lost \/ (d \in Calls /\ pc[d] \in {"forking", "waiting", "arguing", "failed"})
  /\ \A c \in Calls : arg[c].copy => arg[c].src \in Calls /\ core[arg[c].src].st # "none"

\* The file a core is started on has been seen, and is not of another version.
FileSeen(d) == disk[d].file # "none" \/ d \in lost
FilesSeen ==
  /\ \A d \in Calls : disk[d].file # "old"
  /\ \A c \in Calls :
       /\ arg[c].op = "resume" /\ pc[c] \in {"asking", "reading", "spawning"} =>
            disk[arg[c].dir].file # "old" /\ FileSeen(arg[c].dir)
       /\ arg[c].op = "fork" /\ pc[c] \in {"arguing", "spawning"} => FileSeen(c)
       /\ pc[c] \in {"idle", "forking"} => polled[c].size = "none"
       /\ pc[c] = "waiting" /\ polled[c].size # "none" => FileSeen(c)

IInv ==
  /\ TypeOK /\ Shape /\ CoresOwned
  /\ Envelopes /\ EnvelopeKept
  /\ FilesSeen /\ FileReady
  /\ ClosedForGood

LEMMA InitInv == Init => IInv
PROOF
<1> SUFFICES ASSUME Init PROVE IInv
  OBVIOUS
<1> USE DEF Init, NoArg, NoCore, NotPolled, Default, Absent
<1>1. Default \in Envelope /\ Before \subseteq Envelope
  BY ManagerAssumption DEF Envelope, Tools
<1>2. NoArg \in Commands /\ NoCore \in Processes /\ NotPolled \in Polls
  BY <1>1 DEF Commands, Processes, Polls, Ops, Files
<1>3. TypeOK
  <2>1. disk \in [Dirs -> Contents]
    <3>1. PICK file \in [Old -> {"good", "old"}] :
            disk = [d \in Dirs |->
              IF d \in Calls THEN Absent
              ELSE [there |-> TRUE, config |-> TRUE, file |-> file[d],
                    args |-> IF d \in lost THEN None ELSE given[d]]]
      OBVIOUS
    <3>2. given \in [Dirs -> Envelope]
      BY <1>1
    <3>3. \A d \in Dirs : (IF d \in lost THEN None ELSE given[d]) \in Envelope \cup {None}
      BY <3>2
    <3>4. \A d \in Dirs : d \in Old \/ d \in Calls
      BY DEF Dirs
    <3>5. \A d \in Old : file[d] \in Files
      BY <3>1 DEF Files
    <3>6. Absent \in Contents
      BY DEF Contents, Files
    <3> QED BY <3>1, <3>3, <3>4, <3>5, <3>6 DEF Contents
  <2> QED BY <1>1, <1>2, <2>1 DEF TypeOK, Labels, Dirs
<1>4. Shape
  BY ManagerAssumption DEF Shape, Phase, Handle, Holds, Made, Making, Closing, OpenEnded, Dirs
<1>5. CoresOwned /\ EnvelopeKept /\ FileReady /\ ClosedForGood
  BY DEF CoresOwned, EnvelopeKept, FileReady, ClosedForGood, Running
<1>6. Envelopes /\ FilesSeen
  <2>1. PICK file \in [Old -> {"good", "old"}] :
          disk = [d \in Dirs |->
            IF d \in Calls THEN Absent
            ELSE [there |-> TRUE, config |-> TRUE, file |-> file[d],
                  args |-> IF d \in lost THEN None ELSE given[d]]]
    OBVIOUS
  <2>2. \A d \in Calls : disk[d] = Absent /\ d \notin Old
    BY <2>1, ManagerAssumption DEF Dirs
  <2>3. \A d \in Old : disk[d].args = IF d \in lost THEN None ELSE given[d]
    BY <2>1, <2>2 DEF Dirs
  <2>4. \A c \in Calls : pc[c] = "idle" /\ arg[c].op = "none" /\ ~arg[c].copy /\ polled[c].size = "none"
    OBVIOUS
  <2>5. \A d \in Dirs : Made(d) => d \in Old
    BY <2>4 DEF Made, Making, Dirs
  <2>6. given \in [Dirs -> Envelope]
    BY <1>1
  <2> HIDE DEF Init
  <2>7. \A d \in Old : given[d] # None
    BY <2>6, ManagerAssumption DEF Dirs
  <2>8. Envelopes
    BY <2>2, <2>3, <2>4, <2>5, <2>7 DEF Envelopes, Dirs
  <2>9. FilesSeen
    BY <2>2, <2>4 DEF FilesSeen
  <2> QED BY <2>8, <2>9
<1> QED BY <1>3, <1>4, <1>5, <1>6 DEF IInv

\* The envelope of a command is one.
LEMMA EffectiveType ==
  ASSUME NEW o \in Overrides, NEW p \in Presets
  PROVE  Effective(o, p) \in Tools
PROOF BY ManagerAssumption DEF Effective, Tools

LEMMA SpawnedType ==
  ASSUME TypeOK, NEW d \in Dirs
  PROVE  Spawned(d) \in Envelope
PROOF BY DEF TypeOK, Spawned, Default, Envelope, Tools, Contents

(***************************************************************************)
(* Types                                                                   *)
(***************************************************************************)
Step(c) == Start(c) \/ Continue(c) \/ Core(c)

LEMMA TypeStep ==
  ASSUME TypeOK, Shape, NEW c \in Calls, Step(c)
  PROVE  TypeOK'
PROOF
<1> USE DEF TypeOK, Go, history
<1>1. CASE CreateSession(c)
  <2>1. PICK p \in Presets, o \in Overrides, w \in Clients \cup {None} :
          /\ arg' = [arg EXCEPT ![c] = Command("create", c, w)]
          /\ env' = [env EXCEPT ![c] = [preset |-> p, tools |-> Effective(o, p)]]
    BY <1>1 DEF CreateSession
  <2>2. Command("create", c, w) \in Commands
    BY DEF Command, NoArg, Commands, Ops, Dirs
  <2>3. [preset |-> p, tools |-> Effective(o, p)] \in Envelope
    BY EffectiveType DEF Envelope
  <2>4. [there |-> TRUE, config |-> TRUE, file |-> "none", args |-> None] \in Contents
    BY DEF Contents, Files
  <2> QED BY <1>1, <2>1, <2>2, <2>3, <2>4 DEF CreateSession, Make, Labels
<1>2. CASE ForkSession(c)
  <2>1. PICK s \in Calls, p \in Presets \cup {None}, o \in Overrides, w \in Clients \cup {None} :
          /\ map[s] # None
          /\ LET src == Spawned(map[s].dir)
                 plain == p = None
             IN  /\ plain => src.preset # None
                 /\ arg' = [arg EXCEPT ![c] =
                      [op |-> "fork", dir |-> c, owner |-> w, src |-> s, copy |-> plain /\ o = "unset"]]
                 /\ env' = [env EXCEPT ![c] =
                      IF plain THEN [preset |-> src.preset, tools |-> Inherits(o, src)]
                      ELSE [preset |-> p, tools |-> Effective(o, p)]]
    BY <1>2 DEF ForkSession
  <2> DEFINE cmd == [op |-> "fork", dir |-> c, owner |-> w, src |-> s,
                     copy |-> p = None /\ o = "unset"]
             new == IF p = None THEN [preset |-> Spawned(map[s].dir).preset,
                                      tools |-> Inherits(o, Spawned(map[s].dir))]
                    ELSE [preset |-> p, tools |-> Effective(o, p)]
  <2>2. cmd \in Commands
    BY DEF Commands, Ops, Dirs
  <2>3. Spawned(map[s].dir) \in Envelope
    BY <2>1, SpawnedType DEF Handles
  <2>4. new \in Envelope
    BY <2>3, EffectiveType, ManagerAssumption DEF Envelope, Inherits, Tools
  <2>5. [there |-> TRUE, config |-> TRUE, file |-> "none", args |-> None] \in Contents
    BY DEF Contents, Files
  <2>6. arg' = [arg EXCEPT ![c] = cmd] /\ env' = [env EXCEPT ![c] = new]
    BY <2>1
  <2> HIDE DEF cmd, new
  <2> QED BY <1>2, <2>2, <2>4, <2>5, <2>6 DEF ForkSession, Make, Labels
<1>3. CASE ResumeSession(c)
  <2>1. PICK d \in Listed, w \in Clients \cup {None} : arg' = [arg EXCEPT ![c] = Command("resume", d, w)]
    BY <1>3 DEF ResumeSession
  <2>2. Command("resume", d, w) \in Commands
    BY DEF Command, NoArg, Commands, Ops, Listed
  <2> QED BY <1>3, <2>1, <2>2 DEF ResumeSession, Labels
<1>4. CASE ForkRefused(c)
  BY <1>4 DEF ForkRefused, Labels
<1>5. CASE CloseSession(c) \/ CloseAllSessions(c) \/ DeleteSessionDir(c)
  <2>1. \A d \in Dirs \cup {None}, w \in Clients \cup {None} :
          /\ Command("close", d, w) \in Commands
          /\ Command("close_all", d, w) \in Commands
          /\ Command("delete", d, w) \in Commands
    BY DEF Command, NoArg, Commands, Ops
  <2>2. CASE CloseSession(c)
    <3>1. PICK i \in Calls :
            /\ todo' = [todo EXCEPT ![c] = {i}]
            /\ arg' = [arg EXCEPT ![c] = Command("close", None, None)]
      BY <2>2 DEF CloseSession
    <3>2. todo' \in [Calls -> SUBSET Calls]
      BY <3>1
    <3>3. arg' \in [Calls -> Commands]
      BY <2>1, <3>1
    <3> QED BY <2>2, <3>2, <3>3 DEF CloseSession, Labels
  <2>3. CASE CloseAllSessions(c)
    <3>1. PICK w \in Clients \cup {None} :
            /\ todo' = [todo EXCEPT ![c] =
                 {i \in Calls : map[i] # None /\ (w = None \/ map[i].owner = w)}]
            /\ arg' = [arg EXCEPT ![c] = Command("close_all", None, w)]
      BY <2>3 DEF CloseAllSessions
    <3>2. todo' \in [Calls -> SUBSET Calls]
      BY <3>1
    <3>3. arg' \in [Calls -> Commands]
      BY <2>1, <3>1
    <3> QED BY <2>3, <3>2, <3>3 DEF CloseAllSessions, Labels
  <2>4. CASE DeleteSessionDir(c)
    <3>1. PICK d \in Dirs :
            /\ todo' = [todo EXCEPT ![c] = {d} \cap Calls]
            /\ arg' = [arg EXCEPT ![c] = Command("delete", d, None)]
      BY <2>4 DEF DeleteSessionDir
    <3>2. todo' \in [Calls -> SUBSET Calls]
      BY <3>1
    <3>3. arg' \in [Calls -> Commands]
      BY <2>1, <3>1
    <3> QED BY <2>4, <3>2, <3>3 DEF DeleteSessionDir, Labels
  <2> QED BY <1>5, <2>2, <2>3, <2>4
<1>6. CASE Refuse(c) \/ SpawnFails(c)
  BY <1>6 DEF Refuse, SpawnFails, Labels
<1>7. CASE WriteArgs(c)
  <2>1. c \in Dirs
    BY DEF Dirs
  <2>2. [disk EXCEPT ![c].args = env[c]] \in [Dirs -> Contents]
    BY <2>1 DEF Contents
  <2> QED BY <1>7, <2>1, <2>2 DEF WriteArgs, Labels
<1>8. CASE Spawn(c)
  <2>1. arg[c].dir \in Dirs
    BY <1>8 DEF Spawn, Shape, Phase, Making, Dirs
  <2>2. [st |-> "running", dir |-> arg[c].dir, env |-> env[c], from |-> disk[arg[c].dir].file] \in Processes
    BY <2>1 DEF Processes, Contents
  <2> QED BY <1>8, <2>2 DEF Spawn, Labels
<1>9. CASE Insert(c)
  <2>1. [dir |-> arg[c].dir, owner |-> arg[c].owner] \in Handles
    BY <1>9 DEF Insert, Shape, Phase, Making, Dirs, Handles, Commands
  <2> QED BY <1>9, <2>1 DEF Insert, Labels
<1>10. CASE Look(c) \/ Ask(c)
  BY <1>10 DEF Look, Ask, Labels
<1>11. CASE ReadArgs(c)
  <2>1. arg[c].dir \in Dirs
    BY <1>11 DEF ReadArgs, Shape, Phase
  <2> QED BY <1>11, <2>1, SpawnedType DEF ReadArgs, Labels
<1>12. CASE SendFork(c)
  BY <1>12 DEF SendFork, Labels
<1>13. CASE Poll(c)
  <2>1. NotPolled \in Polls /\ c \in Dirs
    BY DEF NotPolled, Polls, Files, Dirs
  <2>2. \A n \in Nat : [size |-> disk[c].file, n |-> n] \in Polls
    BY <2>1 DEF Polls, Contents
  <2>3. polled[c].n \in Nat
    BY DEF Polls
  <2> QED BY <1>13, <2>1, <2>2, <2>3 DEF Poll, Labels
<1>14. CASE Deadline(c)
  BY <1>14 DEF Deadline, NotPolled, Polls, Files, Labels
<1>15. CASE Take(c)
  BY <1>15 DEF Take
<1>16. CASE Teardown(c)
  <2>1. PICK i \in held[c] : core' = [core EXCEPT ![i].st = "gone"]
    BY <1>16 DEF Teardown
  <2>2. [core EXCEPT ![i].st = "gone"] \in [Calls -> Processes]
    BY DEF Processes
  <2> QED BY <1>16, <2>1, <2>2 DEF Teardown
<1>17. CASE CloseEnds(c)
  BY <1>17 DEF CloseEnds, Closed, Labels
<1>18. CASE Empty(c)
  <2>1. arg[c].dir \in Dirs
    BY <1>18 DEF Empty, Shape, Phase
  <2>2. [Absent EXCEPT !.there = disk[arg[c].dir].there] \in Contents
    BY <2>1 DEF Absent, Contents, Files
  <2> QED BY <1>18, <2>1, <2>2 DEF Empty, Labels
<1>19. CASE Remove(c)
  <2>1. arg[c].dir \in Dirs
    BY <1>19 DEF Remove, Shape, Phase
  <2>2. Absent \in Contents
    BY DEF Absent, Contents, Files
  <2>3. \A n \in Nat : [polled EXCEPT ![c].n = n] \in [Calls -> Polls]
    BY DEF Polls
  <2>4. polled[c].n + 1 \in Nat
    BY DEF Polls
  <2> QED BY <1>19, <2>1, <2>2, <2>3, <2>4 DEF Remove, Labels
<1>20. CASE Save(c)
  <2>1. [disk EXCEPT ![core[c].dir].file = "good"] \in [Dirs -> Contents]
    BY DEF Contents, Files
  <2> QED BY <1>20, <2>1 DEF Save
<1>21. CASE WriteFork(c)
  <2>1. \A f \in Files : [disk EXCEPT ![c].file = f] \in [Dirs -> Contents]
    BY DEF Contents
  <2> QED BY <1>21, <2>1 DEF WriteFork, Files
<1>22. CASE CoreExits(c)
  <2>1. [core EXCEPT ![c].st = "gone"] \in [Calls -> Processes]
    BY DEF Processes
  <2> QED BY <1>22, <2>1 DEF CoreExits
<1> QED
  BY <1>1, <1>2, <1>3, <1>4, <1>5, <1>6, <1>7, <1>8, <1>9, <1>10, <1>11, <1>12, <1>13, <1>14,
     <1>15, <1>16, <1>17, <1>18, <1>19, <1>20, <1>21, <1>22 DEF Step, Start, Continue, Core

(***************************************************************************)
(* The shape of the calls                                                  *)
(***************************************************************************)
\* A command is given to a call once, and the call moves by its own steps
\* only.
LEMMA OwnSteps ==
  ASSUME TypeOK, Shape, NEW c \in Calls, Step(c)
  PROVE  /\ \A x \in Calls : x # c => pc'[x] = pc[x] /\ arg'[x] = arg[x]
         /\ arg'[c] = arg[c] \/ (pc[c] = "idle" /\ arg[c] = NoArg)
         /\ \A d \in Dirs : Made(d) => Made(d)'
PROOF
<1> USE DEF TypeOK, Go, history
<1>1. /\ \A x \in Calls : x # c => pc'[x] = pc[x] /\ arg'[x] = arg[x]
      /\ arg'[c] = arg[c] \/ pc[c] = "idle"
  <2>1. CASE Start(c)
    BY <2>1 DEF Start, CreateSession, ResumeSession, ForkSession, ForkRefused, CloseSession,
                CloseAllSessions, DeleteSessionDir
  <2>2. CASE Continue(c)
    BY <2>2 DEF Continue, Refuse, WriteArgs, Spawn, SpawnFails, Insert, Look, Ask, ReadArgs,
                SendFork, Poll, Deadline, Take, Teardown, CloseEnds, Empty, Remove
  <2>3. CASE Core(c)
    BY <2>3 DEF Core, Save, WriteFork, CoreExits
  <2> QED BY <2>1, <2>2, <2>3 DEF Step
<1>2. pc[c] = "idle" => arg[c] = NoArg
  BY DEF Shape, Phase
<1>3. \A d \in Dirs : Made(d) => Made(d)'
  BY <1>1, <1>2 DEF Made, NoArg, Making
<1> HIDE DEF TypeOK
<1> QED BY <1>1, <1>2, <1>3

LEMMA PhaseStep ==
  ASSUME TypeOK, Shape, NEW c \in Calls, Step(c)
  PROVE  /\ \A x \in Calls : Phase(x)'
         /\ \A d \in Dirs : disk'[d].there => Made(d)'
PROOF
<1>a. /\ \A x \in Calls : x # c => pc'[x] = pc[x] /\ arg'[x] = arg[x]
      /\ \A d \in Dirs : Made(d) => Made(d)'
  BY OwnSteps
<1>b. \A x \in Calls : Phase(x)
  BY DEF Shape
<1>c. \A x \in Calls : arg[x].dir \in Dirs \cup {None}
  BY DEF TypeOK, Commands
<1>1. ASSUME NEW x \in Calls, x # c PROVE Phase(x)'
  BY <1>1, <1>a, <1>b, <1>c DEF Phase
<1>d. arg' = arg => arg'[c] = arg[c] /\ (arg[c].dir # None => Made(arg[c].dir)')
  BY <1>a, <1>b, <1>c DEF Phase
<1>e. \A d \in Dirs : disk[d].there => Made(d)'
  BY <1>a DEF Shape
<1> USE <1>b, <1>d, <1>e DEF TypeOK, Go, history, Making, Closing, OpenEnded
<1>2. Phase(c)'
  <2>1. CASE CreateSession(c)
    BY <2>1 DEF CreateSession, Phase, Command, NoArg, Made
  <2>2. CASE ForkSession(c)
    BY <2>2 DEF ForkSession, Phase, Made
  <2>3. CASE ResumeSession(c)
    BY <2>3 DEF ResumeSession, Phase, Listed, Command, NoArg
  <2>4. CASE ForkRefused(c)
    BY <2>4 DEF ForkRefused, Phase, NoArg
  <2>5. CASE CloseSession(c)
    BY <2>5 DEF CloseSession, Phase, Command, NoArg
  <2>6. CASE CloseAllSessions(c)
    BY <2>6 DEF CloseAllSessions, Phase, Command, NoArg
  <2>7. CASE DeleteSessionDir(c)
    BY <2>7 DEF DeleteSessionDir, Phase, Command, NoArg
  <2>8. CASE Refuse(c)
    BY <2>8 DEF Refuse, Phase
  <2>9. CASE WriteArgs(c)
    BY <2>9 DEF WriteArgs, Phase
  <2>10. CASE Spawn(c)
    BY <2>10 DEF Spawn, Phase
  <2>11. CASE SpawnFails(c)
    BY <2>11 DEF SpawnFails, Phase
  <2>12. CASE Insert(c)
    BY <2>12 DEF Insert, Phase
  <2>13. CASE Look(c)
    BY <2>13 DEF Look, Phase
  <2>14. CASE Ask(c)
    BY <2>14 DEF Ask, Phase
  <2>15. CASE ReadArgs(c)
    BY <2>15 DEF ReadArgs, Phase
  <2>16. CASE SendFork(c)
    BY <2>16 DEF SendFork, Phase
  <2>17. CASE Poll(c)
    BY <2>17 DEF Poll, Phase
  <2>18. CASE Deadline(c)
    BY <2>18 DEF Deadline, Phase
  <2>19. CASE Take(c)
    BY <2>19 DEF Take, Phase
  <2>20. CASE Teardown(c)
    BY <2>20 DEF Teardown, Phase
  <2>21. CASE CloseEnds(c)
    BY <2>21 DEF CloseEnds, Phase, Closed
  <2>22. CASE Empty(c)
    BY <2>22 DEF Empty, Phase
  <2>23. CASE Remove(c)
    BY <2>23 DEF Remove, Phase
  <2>24. CASE Save(c)
    BY <2>24 DEF Save, Phase
  <2>25. CASE WriteFork(c)
    BY <2>25 DEF WriteFork, Phase
  <2>26. CASE CoreExits(c)
    BY <2>26 DEF CoreExits, Phase
  <2> QED BY <2>1, <2>2, <2>3, <2>4, <2>5, <2>6, <2>7, <2>8, <2>9, <2>10, <2>11, <2>12, <2>13,
                <2>14, <2>15, <2>16, <2>17, <2>18, <2>19, <2>20, <2>21, <2>22, <2>23, <2>24, <2>25, <2>26
         DEF Step, Start, Continue, Core
<1>3. ASSUME NEW d \in Dirs, disk'[d].there PROVE Made(d)'
  <2>1. CASE CreateSession(c) \/ ForkSession(c)
    <3>1. arg'[c].op \in Making
      <4>1. CASE CreateSession(c)
        BY <4>1 DEF CreateSession, Command, NoArg
      <4>2. CASE ForkSession(c)
        BY <4>2 DEF ForkSession
      <4> QED BY <2>1, <4>1, <4>2
    <3>3. Made(c)'
      BY <3>1 DEF Made
    <3>2. d # c => disk'[d] = disk[d]
      BY <2>1 DEF CreateSession, ForkSession, Make
    <3> QED BY <1>3, <1>a, <3>3, <3>2 DEF Shape
  <2>2. CASE ~(CreateSession(c) \/ ForkSession(c))
    <3>1. disk[d].there
      <4>1. CASE Start(c)
        BY <1>3, <2>2, <4>1 DEF Start, ResumeSession, ForkRefused, CloseSession, CloseAllSessions,
                                DeleteSessionDir
      <4>2. CASE Continue(c)
        <5>1. CASE WriteArgs(c)
          BY <1>3, <5>1 DEF WriteArgs, Contents
        <5>2. CASE Empty(c)
          BY <1>3, <5>2 DEF Empty, Absent
        <5>3. CASE Remove(c)
          BY <1>3, <5>3 DEF Remove, Absent
        <5>4. CASE ~(WriteArgs(c) \/ Empty(c) \/ Remove(c))
          BY <1>3, <4>2, <5>4 DEF Continue, Refuse, Spawn, SpawnFails, Insert, Look, Ask, ReadArgs,
                                  SendFork, Poll, Deadline, Take, Teardown, CloseEnds
        <5> QED BY <5>1, <5>2, <5>3, <5>4
      <4>3. CASE Save(c)
        BY <1>3, <4>3 DEF Save, Contents
      <4>4. CASE WriteFork(c) \/ CoreExits(c)
        BY <1>3, <4>4 DEF WriteFork, CoreExits, Contents
      <4> QED BY <4>1, <4>2, <4>3, <4>4 DEF Step, Core
    <3> QED BY <1>a, <3>1 DEF Shape
  <2> QED BY <2>1, <2>2
<1> QED BY <1>1, <1>2, <1>3

\* What a step of call c leaves alone: a process only ends, a handle is only
\* taken out, unless c spawns it or puts it there; what the other calls hold
\* and what was promised for the directories stays.
Ends(x) ==
  core[x].st = "running" /\ core' = [core EXCEPT ![x].st = "gone"]

LEMMA Frame ==
  ASSUME TypeOK, Shape, NEW c \in Calls, Step(c)
  PROVE  /\ core' = core \/ Spawn(c) \/ (\E x \in Calls : Ends(x))
         /\ map' = map \/ Insert(c) \/ (\E x \in Calls : map' = [map EXCEPT ![x] = None])
         /\ \A x \in Calls : x # c => /\ todo'[x] = todo[x] /\ held'[x] = held[x]
                                      /\ env'[x] = env[x] /\ polled'[x] = polled[x]
         /\ \A d \in Dirs : given'[d] = given[d] \/ (d = c /\ pc[c] = "idle")
         /\ lost \subseteq lost' /\ blind \subseteq blind'
PROOF
<1> USE DEF TypeOK, Go, history
<1>1. CASE CreateSession(c) \/ ForkSession(c)
  BY <1>1 DEF CreateSession, ForkSession
<1>2. CASE ResumeSession(c) \/ ForkRefused(c)
  BY <1>2 DEF ResumeSession, ForkRefused
<1>3. CASE CloseSession(c) \/ CloseAllSessions(c) \/ DeleteSessionDir(c)
  BY <1>3 DEF CloseSession, CloseAllSessions, DeleteSessionDir
<1>4. CASE Refuse(c) \/ WriteArgs(c) \/ SpawnFails(c)
  BY <1>4 DEF Refuse, WriteArgs, SpawnFails
<1>5. CASE Spawn(c)
  BY <1>5 DEF Spawn
<1>6. CASE Insert(c)
  BY <1>6 DEF Insert
<1>7. CASE Look(c) \/ Ask(c) \/ ReadArgs(c) \/ SendFork(c)
  BY <1>7 DEF Look, Ask, ReadArgs, SendFork
<1>8. CASE Poll(c) \/ Deadline(c)
  BY <1>8 DEF Poll, Deadline
<1>9. CASE Take(c)
  BY <1>9 DEF Take
<1>10. CASE Teardown(c)
  BY <1>10 DEF Teardown, Ends
<1>11. CASE CloseEnds(c) \/ Empty(c) \/ Remove(c)
  BY <1>11 DEF CloseEnds, Empty, Remove
<1>12. CASE Save(c) \/ WriteFork(c)
  BY <1>12 DEF Save, WriteFork
<1>13. CASE CoreExits(c)
  BY <1>13 DEF CoreExits, Ends
<1> QED BY <1>1, <1>2, <1>3, <1>4, <1>5, <1>6, <1>7, <1>8, <1>9, <1>10, <1>11, <1>12,
           <1>13
       DEF Step, Start, Continue, Core

LEMMA Moves ==
  ASSUME TypeOK, Shape, NEW c \in Calls, Step(c)
  PROVE  /\ pc[c] = "ok" => pc'[c] = "ok"
         /\ pc[c] = "inserting" => Insert(c) \/ pc'[c] = "inserting"
         /\ pc'[c] = "inserting" => pc[c] = "inserting" \/ Spawn(c)
         /\ pc[c] = "closing" => CloseEnds(c) \/ pc'[c] = "closing"
PROOF
<1> USE DEF TypeOK, Go, Labels
<1>1. CASE CreateSession(c) \/ ResumeSession(c) \/ ForkSession(c) \/ ForkRefused(c) \/
          CloseSession(c) \/ CloseAllSessions(c) \/ DeleteSessionDir(c)
  BY <1>1 DEF CreateSession, ResumeSession, ForkSession, ForkRefused, CloseSession,
         CloseAllSessions, DeleteSessionDir
<1>2. CASE Refuse(c) \/ WriteArgs(c) \/ SpawnFails(c)
  BY <1>2 DEF Refuse, WriteArgs, SpawnFails
<1>3. CASE Spawn(c)
  BY <1>3 DEF Spawn
<1>4. CASE Insert(c)
  BY <1>4 DEF Insert
<1>5. CASE Look(c) \/ Ask(c) \/ ReadArgs(c) \/ SendFork(c)
  BY <1>5 DEF Look, Ask, ReadArgs, SendFork
<1>6. CASE Poll(c) \/ Deadline(c)
  BY <1>6 DEF Poll, Deadline
<1>7. CASE Take(c) \/ Teardown(c)
  BY <1>7 DEF Take, Teardown
<1>8. CASE CloseEnds(c)
  BY <1>8 DEF CloseEnds, Closed
<1>9. CASE Empty(c) \/ Remove(c)
  BY <1>9 DEF Empty, Remove
<1>10. CASE Save(c) \/ WriteFork(c) \/ CoreExits(c)
  BY <1>10 DEF Save, WriteFork, CoreExits
<1> QED BY <1>1, <1>2, <1>3, <1>4, <1>5, <1>6, <1>7, <1>8, <1>9, <1>10
       DEF Step, Start, Continue, Core

LEMMA HandleStep ==
  ASSUME TypeOK, Shape, NEW c \in Calls, Step(c)
  PROVE  \A x \in Calls : Handle(x)'
PROOF
<1>1. SUFFICES ASSUME NEW x \in Calls PROVE Handle(x)'
  OBVIOUS
<1>2. Handle(x) /\ Phase(x)
  BY DEF Shape
<1>3. /\ x # c => pc'[x] = pc[x] /\ arg'[x] = arg[x]
      /\ arg'[c] = arg[c] \/ pc[c] = "idle"
  BY OwnSteps
<1> USE DEF TypeOK, Processes, Go, Handle
<1>4. CASE Spawn(c)
  BY <1>2, <1>4 DEF Spawn, Phase
<1>5. CASE Insert(c)
  BY <1>2, <1>5 DEF Insert, Phase
<1>6. CASE ~Spawn(c) /\ ~Insert(c)
  <2>1. /\ core'[x] = core[x] \/ (core[x].st = "running" /\ core'[x] = [core[x] EXCEPT !.st = "gone"])
        /\ map'[x] = map[x] \/ map'[x] = None
    <3>1. /\ core' = core \/ (\E y \in Calls : Ends(y))
          /\ map' = map \/ (\E y \in Calls : map' = [map EXCEPT ![y] = None])
      BY <1>6, Frame
    <3> QED BY <3>1 DEF Ends
  <2>2. /\ pc[c] = "ok" => pc'[c] = "ok"
        /\ pc[c] = "inserting" <=> pc'[c] = "inserting"
    BY <1>6, Moves
  <2>3. /\ core'[x].st # "none" <=> core[x].st # "none"
        /\ core'[x].dir = core[x].dir
    BY <2>1
  <2> QED BY <1>2, <1>3, <2>1, <2>2, <2>3
<1> QED BY <1>4, <1>5, <1>6

LEMMA HoldsStep ==
  ASSUME TypeOK, Shape, NEW c \in Calls, Step(c)
  PROVE  \A x \in Calls : Holds(x)'
PROOF
<1>1. /\ \A x \in Calls : x # c => pc'[x] = pc[x] /\ arg'[x] = arg[x]
      /\ arg'[c] = arg[c] \/ (pc[c] = "idle" /\ arg[c] = NoArg)
  BY OwnSteps
\* What has been taken stays out.
<1>2. ASSUME NEW i \in Calls, pc[i] = "ok", map[i] = None, core[i].st # "none"
      PROVE  pc'[i] = "ok" /\ map'[i] = None /\ core'[i].st # "none"
  <2>1. pc'[i] = "ok"
    BY <1>1, <1>2, Moves
  <2>2. core'[i].st # "none"
    <3>1. core' = core \/ Spawn(c) \/ (\E y \in Calls : Ends(y))
      BY Frame
    <3>2. CASE Spawn(c)
      BY <1>2, <3>2 DEF Spawn, Go, TypeOK
    <3>3. CASE \E y \in Calls : Ends(y)
      BY <1>2, <3>3 DEF Ends, TypeOK, Processes
    <3> QED BY <1>2, <3>1, <3>2, <3>3
  <2>3. map'[i] = None
    BY <1>2, Frame DEF TypeOK, Insert, Go
  <2> QED BY <2>1, <2>2, <2>3
<1>3. \A x \in Calls : Holds(x) /\ Handle(x)
  BY DEF Shape
<1>4. ASSUME NEW x \in Calls, x # c PROVE Holds(x)'
  BY <1>1, <1>2, <1>3, <1>4, Frame DEF Holds, TypeOK
<1>5. Holds(c)'
  <2>1. CASE CloseSession(c) \/ CloseAllSessions(c) \/ DeleteSessionDir(c)
    <3>1. held' = held /\ arg'[c].op \in Closing
      <4> USE DEF Command, NoArg, TypeOK, Closing
      <4>1. CASE CloseSession(c)
        BY <4>1 DEF CloseSession
      <4>2. CASE CloseAllSessions(c)
        BY <4>2 DEF CloseAllSessions
      <4>3. CASE DeleteSessionDir(c)
        BY <4>3 DEF DeleteSessionDir
      <4> QED BY <2>1, <4>1, <4>2, <4>3
    <3> QED BY <3>1, <1>2, <1>3 DEF Holds, TypeOK
  <2>2. CASE Take(c)
    <3>1. PICK i \in todo[c] :
            /\ todo' = [todo EXCEPT ![c] = @ \ {i}]
            /\ map' = [map EXCEPT ![i] = None]
            /\ held' = [held EXCEPT ![c] = IF map[i] # None THEN @ \cup {i} ELSE @]
      BY <2>2 DEF Take
    <3>2. arg' = arg /\ pc' = pc /\ core' = core
      BY <2>2 DEF Take
    <3>3. i \in Calls /\ arg[c].op \in Closing
      BY <1>3 DEF Holds, TypeOK
    <3>4. map[i] # None => pc[i] = "ok" /\ core[i].st # "none"
      BY <1>3, <3>3 DEF Handle
    <3>5. held'[c] \subseteq held[c] \cup {i} /\ (i \in held'[c] => i \in held[c] \/ map[i] # None)
      BY <3>1 DEF TypeOK
    <3> QED BY <1>3, <3>1, <3>2, <3>3, <3>4, <3>5 DEF Holds, TypeOK
  <2>3. CASE ~(CloseSession(c) \/ CloseAllSessions(c) \/ DeleteSessionDir(c) \/ Take(c))
    <3>1. todo' = todo /\ held' = held
      BY <2>3 DEF Step, Start, Continue, Core, CreateSession, ForkSession, ResumeSession, ForkRefused,
                  Refuse, WriteArgs, Spawn, SpawnFails, Insert, Look, Ask, ReadArgs, SendFork, Poll,
                  Deadline, Teardown, CloseEnds, Empty, Remove, Save, WriteFork, CoreExits
    <3>2. arg[c] = NoArg => todo[c] \cup held[c] = {}
      BY <1>3 DEF Holds, NoArg, Closing
    <3> QED BY <1>1, <1>2, <1>3, <3>1, <3>2 DEF Holds, TypeOK
  <2> QED BY <2>1, <2>2, <2>3
<1> QED BY <1>4, <1>5

LEMMA ShapeStep ==
  ASSUME TypeOK, Shape, NEW c \in Calls, Step(c)
  PROVE  Shape'
PROOF BY PhaseStep, HandleStep, HoldsStep DEF Shape

(***************************************************************************)
(* Every process has an owner                                              *)
(***************************************************************************)
LEMMA CoresStep ==
  ASSUME TypeOK, Shape, CoresOwned, NEW c \in Calls, Step(c)
  PROVE  CoresOwned'
PROOF
<1>1. SUFFICES ASSUME NEW i \in Calls, core'[i].st = "running"
      PROVE  \/ map'[i] # None /\ map'[i].dir = core'[i].dir
             \/ pc'[i] = "inserting"
             \/ \E x \in Calls : i \in held'[x] /\ pc'[x] = "closing"
  BY DEF CoresOwned, Running
<1>2. CASE i = c /\ Spawn(c)
  BY <1>2 DEF Spawn, Go, TypeOK
<1>3. CASE ~(i = c /\ Spawn(c))
  <2>1. core'[i] = core[i]
    BY <1>1, <1>3, Frame DEF Spawn, Ends, TypeOK, Processes
  <2>2. Running(i)
    BY <1>1, <2>1 DEF Running
  <2>3. CASE map[i] # None /\ map[i].dir = core[i].dir
    <3>1. CASE map'[i] = map[i]
      BY <2>1, <2>3, <3>1
    <3>2. CASE map'[i] # map[i]
      <4>1. Take(c) \/ Insert(c)
        BY <3>2 DEF Step, Start, Continue, Core, CreateSession, ForkSession, ResumeSession, ForkRefused,
                    CloseSession, CloseAllSessions, DeleteSessionDir, Refuse, WriteArgs, Spawn,
                    SpawnFails, Look, Ask, ReadArgs, SendFork, Poll, Deadline, Teardown, CloseEnds,
                    Empty, Remove, Save, WriteFork, CoreExits
      <4>2. ~Insert(c)
        BY <2>3, <3>2 DEF Insert, Shape, Handle, Go, TypeOK
      <4>3. pc'[c] = "closing" /\ i \in held'[c]
        BY <2>3, <3>2, <4>1, <4>2 DEF Take, TypeOK
      <4> QED BY <4>3
    <3> QED BY <3>1, <3>2
  <2>4. CASE pc[i] = "inserting"
    <3>1. CASE pc'[i] = "inserting"
      BY <3>1
    <3>2. CASE pc'[i] # "inserting"
      <4>1. i = c /\ Insert(c)
        BY <2>4, <3>2, OwnSteps, Moves
      <4>2. map'[i] = [dir |-> arg[i].dir, owner |-> arg[i].owner]
        BY <4>1 DEF Insert, TypeOK
      <4>3. arg[i].dir = core[i].dir /\ arg[i].dir \in Dirs
        BY <2>4 DEF Shape, Handle, Phase, Making, Dirs
      <4>4. map'[i] \in Handles
        BY <4>2, <4>3 DEF Handles, TypeOK, Commands
      <4> QED BY <2>1, <4>2, <4>3, <4>4, ManagerAssumption
    <3> QED BY <3>1, <3>2
  <2>5. ASSUME NEW x \in Calls, i \in held[x], pc[x] = "closing"
        PROVE  i \in held'[x] /\ pc'[x] = "closing"
    <3>1. i \in held'[x]
      BY <2>5 DEF TypeOK, Step, Start, Continue, Core, CreateSession, ForkSession, ResumeSession,
                  ForkRefused, CloseSession, CloseAllSessions, DeleteSessionDir, Refuse, WriteArgs,
                  Spawn, SpawnFails, Insert, Look, Ask, ReadArgs, SendFork, Poll, Deadline, Take,
                  Teardown, CloseEnds, Empty, Remove, Save, WriteFork, CoreExits
    <3>2. ~(x = c /\ CloseEnds(c))
      BY <2>2, <2>5 DEF CloseEnds, Running
    <3> QED BY <2>5, <3>1, <3>2, OwnSteps, Moves
  <2> QED BY <2>2, <2>3, <2>4, <2>5 DEF CoresOwned
<1> QED BY <1>2, <1>3

(***************************************************************************)
(* Envelopes                                                               *)
(***************************************************************************)
\* What has been made keeps what it was promised, and a process what it was
\* started with.
LEMMA Promises ==
  ASSUME TypeOK, Shape, NEW c \in Calls, Step(c)
  PROVE  /\ \A d \in Dirs : Made(d) => given'[d] = given[d]
         /\ \A x \in Calls : core[x].st # "none" =>
              /\ core'[x].st # "none" /\ core'[x].dir = core[x].dir /\ core'[x].env = core[x].env
              /\ core'[x].from = core[x].from /\ arg'[x] = arg[x]
              /\ core[x].dir \in Dirs /\ Made(core[x].dir)
         /\ \A x \in Calls : core'[x].st # "none" => core[x].st # "none" \/ (x = c /\ Spawn(c))
PROOF
<1>1. ASSUME NEW d \in Dirs, Made(d) PROVE given'[d] = given[d]
  <2>1. ~(d = c /\ pc[c] = "idle")
    BY <1>1, ManagerAssumption DEF Shape, Phase, NoArg, Made, Making
  <2> QED BY <2>1, Frame
<1>2. core' = core \/ Spawn(c) \/ (\E y \in Calls : Ends(y))
  BY Frame
<1>3. ASSUME NEW x \in Calls, core[x].st # "none"
      PROVE  /\ core'[x].st # "none" /\ core'[x].dir = core[x].dir /\ core'[x].env = core[x].env
             /\ core'[x].from = core[x].from
  <2>1. CASE Spawn(c)
    <3>1. x # c
      BY <1>3, <2>1 DEF Spawn, Go, Shape, Handle
    <3> QED BY <1>3, <2>1, <3>1 DEF Spawn, TypeOK
  <2>2. CASE \E y \in Calls : Ends(y)
    BY <1>3, <2>2 DEF Ends, TypeOK, Processes
  <2> QED BY <1>2, <1>3, <2>1, <2>2
<1>4. ASSUME NEW x \in Calls, core[x].st # "none"
      PROVE  arg'[x] = arg[x] /\ core[x].dir \in Dirs /\ Made(core[x].dir)
  <2>1. pc[x] # "idle"
    BY <1>4 DEF Shape, Handle
  <2>2. arg[x].dir \in Dirs
    BY <1>4 DEF Shape, Handle, Phase, Dirs
  <2> QED BY <1>4, <2>1, <2>2, OwnSteps, ManagerAssumption DEF Shape, Handle, Phase
<1>5. ASSUME NEW x \in Calls, core'[x].st # "none"
      PROVE  core[x].st # "none" \/ (x = c /\ Spawn(c))
  <2>1. CASE Spawn(c)
    BY <1>5, <2>1 DEF Spawn, TypeOK
  <2>2. CASE \E y \in Calls : Ends(y)
    BY <1>5, <2>2 DEF Ends, TypeOK, Processes
  <2> QED BY <1>2, <1>5, <2>1, <2>2
<1> QED BY <1>1, <1>3, <1>4, <1>5

\* What may happen to a directory that has been made.
LEMMA Directories ==
  ASSUME TypeOK, Shape, Envelopes, NEW c \in Calls, Step(c), NEW d \in Dirs
  PROVE  \/ (CreateSession(c) \/ ForkSession(c)) /\ d = c
         \/ /\ disk'[d].there => disk[d].there
            /\ disk'[d].args = disk[d].args \/ (disk'[d].args = None /\ d \in lost')
                 \/ (d = c /\ WriteArgs(c) /\ disk'[d].args = env[c])
            /\ disk'[d].file = disk[d].file \/ (disk'[d].file = "none" /\ d \in lost')
                 \/ (disk[d].there /\ disk'[d].file \in {"part", "good"})
PROOF
<1> USE DEF TypeOK, Contents, Go, history
<1>1. CASE CreateSession(c)
  BY <1>1 DEF CreateSession, Make
<1>2. CASE ForkSession(c)
  BY <1>2 DEF ForkSession, Make
<1>3. CASE WriteArgs(c)
  BY <1>3 DEF WriteArgs
<1>4. CASE Empty(c)
  BY <1>4 DEF Empty, Absent
<1>5. CASE Remove(c)
  BY <1>5 DEF Remove, Absent, Envelopes
<1>6. CASE Save(c)
  BY <1>6 DEF Save
<1>7. CASE WriteFork(c)
  BY <1>7 DEF WriteFork
<1>8. CASE ~(\/ CreateSession(c) \/ ForkSession(c) \/ WriteArgs(c) \/ Empty(c) \/ Remove(c)
            \/ Save(c) \/ WriteFork(c))
  BY <1>8 DEF Step, Start, Continue, Core, ResumeSession, ForkRefused, CloseSession,
              CloseAllSessions, DeleteSessionDir, Refuse, Spawn, SpawnFails, Insert, Look, Ask,
              ReadArgs, SendFork, Poll, Deadline, Take, Teardown, CloseEnds, CoreExits
<1> QED BY <1>1, <1>2, <1>3, <1>4, <1>5, <1>6, <1>7, <1>8

\* Where the envelope of a call comes from.
LEMMA Arguments ==
  ASSUME TypeOK, Shape, NEW c \in Calls, Step(c)
  PROVE  \/ /\ CreateSession(c) \/ ForkSession(c)
            /\ pc'[c] \in {"arguing", "forking"} /\ given'[c] = env'[c] /\ disk'[c].args = None
            /\ arg'[c].op \in Making
         \/ ReadArgs(c)
         \/ /\ env'[c] = env[c] /\ given' = given
            /\ pc'[c] \in {"arguing", "forking", "waiting"} => pc[c] \in {"arguing", "forking", "waiting"}
            /\ pc'[c] = "spawning" => pc[c] = "spawning" \/ WriteArgs(c)
            /\ pc'[c] = "removing" => pc[c] = "removing" \/ Empty(c)
            /\ pc[c] \in {"arguing", "forking", "waiting", "failed"} =>
                 pc'[c] \in {"arguing", "forking", "waiting", "failed"} \/ WriteArgs(c)
            /\ arg'[c].copy => arg[c].copy
            /\ arg'[c].op \in Making => arg[c].op \in Making
PROOF
<1> USE DEF TypeOK, Go, Making, history
<1>1. CASE CreateSession(c)
  <2>1. c \in Dirs /\ arg'[c].op = "create"
    BY <1>1 DEF CreateSession, Command, NoArg, Dirs
  <2> QED BY <1>1, <2>1 DEF CreateSession, Make
<1>2. CASE ForkSession(c)
  <2>1. c \in Dirs /\ arg'[c].op = "fork"
    BY <1>2 DEF ForkSession, Dirs
  <2> QED BY <1>2, <2>1 DEF ForkSession, Make
<1>3. CASE ReadArgs(c)
  BY <1>3
<1>4. CASE ResumeSession(c)
  BY <1>4 DEF ResumeSession, Command, NoArg
<1>5. CASE ForkRefused(c)
  BY <1>5 DEF ForkRefused
<1>6. CASE CloseSession(c)
  BY <1>6 DEF CloseSession, Command, NoArg
<1>7. CASE CloseAllSessions(c)
  BY <1>7 DEF CloseAllSessions, Command, NoArg
<1>8. CASE DeleteSessionDir(c)
  BY <1>8 DEF DeleteSessionDir, Command, NoArg
<1>9. CASE Refuse(c) \/ WriteArgs(c)
  BY <1>9 DEF Refuse, WriteArgs
<1>10. CASE Spawn(c) \/ SpawnFails(c) \/ Insert(c)
  BY <1>10 DEF Spawn, SpawnFails, Insert
<1>11. CASE Look(c) \/ Ask(c) \/ SendFork(c)
  BY <1>11 DEF Look, Ask, SendFork
<1>12. CASE Poll(c) \/ Deadline(c)
  BY <1>12 DEF Poll, Deadline
<1>13. CASE Take(c) \/ Teardown(c)
  BY <1>13 DEF Take, Teardown
<1>14. CASE CloseEnds(c)
  BY <1>14 DEF CloseEnds, Closed
<1>15. CASE Empty(c)
  BY <1>15 DEF Empty
<1>16. CASE Remove(c)
  BY <1>16 DEF Remove
<1>17. CASE Save(c) \/ WriteFork(c) \/ CoreExits(c)
  BY <1>17 DEF Save, WriteFork, CoreExits
<1> QED BY <1>1, <1>2, <1>3, <1>4, <1>5, <1>6, <1>7, <1>8, <1>9, <1>10, <1>11, <1>12,
           <1>13, <1>14, <1>15, <1>16, <1>17
       DEF Step, Start, Continue, Core

LEMMA EnvelopesStep ==
  ASSUME TypeOK, Shape, Envelopes, NEW c \in Calls, Step(c)
  PROVE  Envelopes'
PROOF
<1>1. /\ \A x \in Calls : x # c => /\ pc'[x] = pc[x] /\ arg'[x] = arg[x] /\ env'[x] = env[x]
                                   /\ given'[x] = given[x]
      /\ arg'[c] = arg[c] \/ (pc[c] = "idle" /\ arg[c] = NoArg)
      /\ lost \subseteq lost' /\ blind \subseteq blind'
  BY OwnSteps, Frame DEF Dirs
<1>2. \A d \in Dirs : Made(d) => given'[d] = given[d]
  BY Promises
<1>3. \A x \in Calls : x \in Dirs /\ (arg[x].dir # None => arg[x].dir \in Dirs /\ Made(arg[x].dir))
  BY DEF Shape, Phase, TypeOK, Commands, Dirs
<1>4. \A x \in Calls : pc[x] = "spawning" => arg[x].dir \in Dirs /\ Made(arg[x].dir)
  BY <1>3, ManagerAssumption DEF Shape, Phase, Making, Dirs
<1>5. \A x \in Calls : /\ pc[x] \in {"arguing", "forking", "waiting"} => arg[x].dir = x /\ Made(x)
                       /\ pc[x] = "reading" => arg[x].dir \in Dirs /\ Made(arg[x].dir)
                       /\ pc[x] = "emptying" => arg[x].dir \in Dirs
  BY <1>3, ManagerAssumption DEF Shape, Phase, Making, Dirs, OpenEnded
<1>6. ASSUME NEW x \in Calls, pc'[x] \in {"arguing", "forking", "waiting"}
      PROVE  env'[x] = given'[x]
  <2>1. CASE x # c
    BY <1>1, <1>6, <2>1 DEF Envelopes
  <2>2. CASE x = c /\ ReadArgs(c)
    BY <1>6, <2>2 DEF ReadArgs, Go, TypeOK
  <2>3. CASE x = c /\ ~ReadArgs(c)
    BY <1>6, <2>3, Arguments DEF Envelopes
  <2> QED BY <2>1, <2>2, <2>3
<1>7. ASSUME NEW x \in Calls, pc'[x] = "spawning"
      PROVE  env'[x] = given'[arg'[x].dir] \/ arg'[x].dir \in lost' \/ x \in blind'
  <2>1. CASE x # c
    BY <1>1, <1>2, <1>4, <1>7, <2>1 DEF Envelopes
  <2>2. CASE x = c /\ ReadArgs(c)
    <3>1. pc[c] = "reading" /\ arg' = arg /\ env'[c] = Spawned(arg[c].dir)
      BY <2>2 DEF ReadArgs, Go, TypeOK
    <3>2. arg[c].dir \in Dirs /\ Made(arg[c].dir)
      BY <1>5, <3>1
    <3>3. CASE disk[arg[c].dir].args # None
      BY <2>2, <3>1, <3>2, <3>3 DEF Envelopes, Spawned, ReadArgs, history
    <3>4. CASE disk[arg[c].dir].args = None
      <4>1. arg[c].dir \in lost \/ Unwritten(arg[c].dir)
        BY <3>2, <3>4 DEF Envelopes, Unwritten
      <4> QED BY <2>2, <3>1, <4>1 DEF ReadArgs
    <3> QED BY <3>3, <3>4
  <2>3. CASE x = c /\ ~ReadArgs(c)
    <3>1. pc[c] = "spawning" \/ WriteArgs(c)
      BY <1>7, <2>3, Arguments
    <3>2. pc[c] # "idle" /\ env'[c] = env[c] /\ given' = given
      BY <1>7, <2>3, <3>1, Arguments DEF WriteArgs, Go
    <3>3. CASE pc[c] = "spawning"
      BY <1>1, <2>3, <3>2, <3>3 DEF Envelopes
    <3>4. CASE WriteArgs(c)
      BY <1>1, <1>5, <2>3, <3>2, <3>4 DEF Envelopes, WriteArgs, Go
    <3> QED BY <3>1, <3>3, <3>4
  <2> QED BY <2>1, <2>2, <2>3
<1>8. ASSUME NEW x \in Calls, pc'[x] = "removing" PROVE arg'[x].dir \in lost'
  <2>1. CASE x # c
    BY <1>1, <1>8, <2>1 DEF Envelopes
  <2>2. CASE x = c
    <3>1. pc[c] = "removing" \/ Empty(c)
      <4>1. ~ReadArgs(c)
        BY <1>8, <2>2 DEF ReadArgs, Go, TypeOK
      <4> QED BY <1>8, <2>2, <4>1, Arguments
    <3>2. CASE pc[c] = "removing"
      BY <1>1, <2>2, <3>2 DEF Envelopes
    <3>3. CASE Empty(c)
      BY <2>2, <3>3 DEF Empty
    <3> QED BY <3>1, <3>2, <3>3
  <2> QED BY <2>1, <2>2
<1>9. ASSUME NEW d \in Dirs, disk'[d].args # None PROVE disk'[d].args = given'[d]
  <2>1. CASE (CreateSession(c) \/ ForkSession(c)) /\ d = c
    BY <1>9, <2>1 DEF CreateSession, ForkSession, Make, TypeOK
  <2>2. CASE disk'[d].args = disk[d].args
    <3>1. given'[d] = given[d] \/ d = c
      BY Frame
    <3>2. CASE given'[d] = given[d]
      BY <1>9, <2>2, <3>2 DEF Envelopes
    <3>3. CASE given'[d] # given[d]
      BY <1>9, <3>1, <3>3, Arguments DEF ReadArgs
    <3> QED BY <3>2, <3>3
  <2>3. CASE d = c /\ WriteArgs(c) /\ disk'[d].args = env[c]
    <3>1. pc[c] = "arguing" /\ given' = given
      BY <2>3 DEF WriteArgs, Go
    <3> QED BY <2>3, <3>1 DEF Envelopes
  <2> QED BY <1>9, <2>1, <2>2, <2>3, Directories
<1>10. ASSUME NEW d \in Dirs, Made(d)', disk'[d].args = None
       PROVE  d \in lost' \/ (d \in Calls /\ pc'[d] \in {"forking", "waiting", "arguing", "failed"})
  <2>1. CASE (CreateSession(c) \/ ForkSession(c)) /\ d = c
    BY <2>1 DEF CreateSession, ForkSession, Go, TypeOK
  <2>2. CASE ~((CreateSession(c) \/ ForkSession(c)) /\ d = c)
    <3>1. Made(d)
      BY <1>10, <1>1, <2>2, Arguments DEF Made, ReadArgs
    <3>2. CASE disk[d].args = None
      <4>1. d \in lost \/ (d \in Calls /\ pc[d] \in {"forking", "waiting", "arguing", "failed"})
        BY <3>1, <3>2 DEF Envelopes
      <4>2. CASE d \in lost
        BY <1>1, <4>2
      <4>3. CASE d = c /\ pc[c] \in {"forking", "waiting", "arguing", "failed"}
        <5>1. ~ReadArgs(c)
          BY <4>3 DEF ReadArgs, Go
        <5>2. CASE WriteArgs(c)
          <6>1. env[c] # None
            BY ManagerAssumption DEF TypeOK
          <6> QED BY <1>10, <4>3, <5>2, <6>1 DEF WriteArgs, TypeOK, Contents
        <5>3. CASE ~WriteArgs(c)
          BY <2>2, <4>3, <5>1, <5>3, Arguments
        <5> QED BY <5>2, <5>3
      <4>4. CASE d \in Calls /\ d # c /\ pc[d] \in {"forking", "waiting", "arguing", "failed"}
        BY <1>1, <4>4
      <4> QED BY <4>1, <4>2, <4>3, <4>4
    <3>3. CASE disk[d].args # None
      <4>1. d \in lost' \/ (d = c /\ WriteArgs(c) /\ disk'[d].args = env[c])
        BY <1>10, <2>2, <3>3, Directories
      <4>2. env[c] # None
        BY ManagerAssumption DEF TypeOK
      <4> QED BY <1>10, <4>1, <4>2
    <3> QED BY <3>2, <3>3
  <2> QED BY <2>1, <2>2
<1>11. ASSUME NEW x \in Calls, arg'[x].copy
       PROVE  arg'[x].src \in Calls /\ core'[arg'[x].src].st # "none"
  <2>1. CASE arg'[x] = arg[x]
    BY <1>11, <2>1, Promises DEF Envelopes
  <2>2. CASE arg'[x] # arg[x]
    <3>1. x = c /\ pc[c] = "idle" /\ arg[c] = NoArg
      BY <1>1, <2>2
    <3>2. ForkSession(c)
      <4>1. ~arg[c].copy
        BY <3>1 DEF NoArg
      <4>2. ~ReadArgs(c)
        BY <3>1 DEF ReadArgs, Go
      <4>3. ASSUME CreateSession(c) PROVE FALSE
        <5>1. \A w : ~Command("create", c, w).copy
          BY DEF Command, NoArg
        <5> QED BY <1>11, <3>1, <4>3, <5>1 DEF CreateSession, TypeOK
      <4> QED BY <1>11, <3>1, <4>1, <4>2, <4>3, Arguments
    <3>3. \E s \in Calls : map[s] # None /\ arg'[c].src = s /\ core' = core
      BY <3>2 DEF ForkSession, TypeOK
    <3> QED BY <3>1, <3>3 DEF Shape, Handle
  <2> QED BY <2>1, <2>2
<1> QED BY <1>6, <1>7, <1>8, <1>9, <1>10, <1>11 DEF Envelopes

LEMMA EnvelopeStep ==
  ASSUME TypeOK, Shape, Envelopes, EnvelopeKept, NEW c \in Calls, Step(c)
  PROVE  EnvelopeKept'
PROOF
<1>1. lost \subseteq lost' /\ blind \subseteq blind'
  BY Frame
<1>2. ASSUME NEW i \in Calls, core'[i].st = "running"
      PROVE  core'[i].env = given'[core'[i].dir] \/ core'[i].dir \in lost' \/ i \in blind'
  <2>1. CASE core[i].st # "none"
    <3>1. core[i].st = "running"
      <4>1. core' = core \/ Spawn(c) \/ (\E y \in Calls : Ends(y))
        BY Frame
      <4>2. CASE Spawn(c)
        BY <1>2, <2>1, <4>2 DEF Spawn, Go, Shape, Handle, TypeOK
      <4>3. CASE \E y \in Calls : Ends(y)
        BY <1>2, <4>3 DEF Ends, TypeOK, Processes
      <4> QED BY <1>2, <4>1, <4>2, <4>3
    <3>2. core[i].env = given[core[i].dir] \/ core[i].dir \in lost \/ i \in blind
      BY <3>1 DEF EnvelopeKept, Running
    <3> QED BY <1>1, <2>1, <3>2, Promises
  <2>2. CASE i = c /\ Spawn(c)
    <3>1. /\ core'[c].dir = arg[c].dir /\ core'[c].env = env[c] /\ pc[c] = "spawning"
          /\ given' = given /\ lost' = lost /\ blind' = blind
      BY <2>2 DEF Spawn, TypeOK, Go, history
    <3> QED BY <2>2, <3>1 DEF Envelopes
  <2>3. core'[i].st # "none"
    BY <1>2
  <2> QED BY <2>1, <2>2, <2>3, Promises
<1>3. ASSUME NEW x \in Calls, arg'[x].copy
      PROVE  given'[x] = given'[core'[arg'[x].src].dir]
  <2>1. CASE arg'[x] = arg[x]
    <3>1. arg[x].src \in Calls /\ core[arg[x].src].st # "none"
      BY <1>3, <2>1 DEF Envelopes
    <3>2. given'[core'[arg[x].src].dir] = given[core[arg[x].src].dir]
      BY <3>1, Promises
    <3>3. pc[x] # "idle" /\ x \in Dirs
      BY <1>3, <2>1 DEF Shape, Phase, NoArg, Dirs
    <3>4. given'[x] = given[x]
      BY <3>3, Frame
    <3> QED BY <1>3, <2>1, <3>2, <3>4 DEF EnvelopeKept
  <2>2. CASE arg'[x] # arg[x]
    <3>1. x = c /\ pc[c] = "idle" /\ arg[c] = NoArg
      BY <2>2, OwnSteps
    <3>2. ForkSession(c)
      <4>1. ~arg[c].copy
        BY <3>1 DEF NoArg
      <4>2. ~ReadArgs(c)
        BY <3>1 DEF ReadArgs, Go
      <4>3. ASSUME CreateSession(c) PROVE FALSE
        <5>1. \A w : ~Command("create", c, w).copy
          BY DEF Command, NoArg
        <5> QED BY <1>3, <3>1, <4>3, <5>1 DEF CreateSession, TypeOK
      <4> QED BY <1>3, <3>1, <4>1, <4>2, <4>3, Arguments
    <3>3. PICK s \in Calls, p \in Presets \cup {None}, o \in Overrides, w \in Clients \cup {None} :
            /\ map[s] # None
            /\ LET src == Spawned(map[s].dir)
                   plain == p = None
               IN  /\ plain => src.preset # None
                   /\ arg' = [arg EXCEPT ![c] =
                        [op |-> "fork", dir |-> c, owner |-> w, src |-> s, copy |-> plain /\ o = "unset"]]
                   /\ env' = [env EXCEPT ![c] =
                        IF plain THEN [preset |-> src.preset, tools |-> Inherits(o, src)]
                        ELSE [preset |-> p, tools |-> Effective(o, p)]]
      BY <3>2 DEF ForkSession
    <3>4. arg'[c].src = s /\ p = None /\ o = "unset"
      BY <1>3, <3>1, <3>3 DEF TypeOK
    <3>5. core[s].st # "none" /\ map[s].dir = core[s].dir
      BY <3>3 DEF Shape, Handle
    <3>6. core[s].dir \in Dirs /\ core' = core /\ Spawned(core[s].dir) \in Envelope
      BY <3>2, <3>5, Promises, SpawnedType DEF ForkSession
    <3>7. env'[c] = [preset |-> Spawned(core[s].dir).preset, tools |-> Spawned(core[s].dir).tools]
      BY <3>3, <3>4, <3>5 DEF Inherits, TypeOK
    <3>8. env'[c] = Spawned(core[s].dir) /\ Spawned(core[s].dir).preset # None
      BY <3>3, <3>4, <3>5, <3>6, <3>7 DEF Envelope
    <3>9. Spawned(core[s].dir) = given[core[s].dir]
      BY <3>6, <3>8 DEF Spawned, Default, Envelopes
    <3>10. given'[core[s].dir] = given[core[s].dir] /\ given'[c] = env'[c]
      BY <3>2, <3>5, Promises DEF ForkSession, TypeOK, Dirs
    <3> QED BY <3>1, <3>4, <3>6, <3>8, <3>9, <3>10
  <2> QED BY <2>1, <2>2
<1> QED BY <1>2, <1>3 DEF EnvelopeKept, Running

(***************************************************************************)
(* Files                                                                   *)
(***************************************************************************)
LEMMA FilesSeenStep ==
  ASSUME TypeOK, Shape, Envelopes, FilesSeen, NEW c \in Calls, Step(c)
  PROVE  FilesSeen'
PROOF
<1>1. /\ \A x \in Calls : x # c => pc'[x] = pc[x] /\ arg'[x] = arg[x] /\ polled'[x] = polled[x]
      /\ arg'[c] = arg[c] \/ (pc[c] = "idle" /\ arg[c] = NoArg)
      /\ lost \subseteq lost'
  BY OwnSteps, Frame
<1>2. ASSUME NEW d \in Calls PROVE disk'[d].file # "old"
  BY Directories DEF FilesSeen, CreateSession, ForkSession, Make, TypeOK, Dirs
\* What has been seen stays good enough.
<1>3. ASSUME NEW d \in Dirs, Made(d), FileSeen(d)
      PROVE  FileSeen(d)' /\ (disk[d].file # "old" => disk'[d].file # "old")
  <2>1. ~((CreateSession(c) \/ ForkSession(c)) /\ d = c)
    BY <1>3, ManagerAssumption DEF CreateSession, ForkSession, Go, Shape, Phase, NoArg, Made, Making
  <2> QED BY <1>1, <1>3, <2>1, Directories DEF FileSeen
<1>4. ASSUME NEW x \in Calls, arg'[x].op = "resume", pc'[x] \in {"asking", "reading", "spawning"}
      PROVE  disk'[arg'[x].dir].file # "old" /\ FileSeen(arg[x].dir)' /\ arg'[x] = arg[x]
  <2>1. CASE arg'[x] # arg[x]
    <3>1. x = c /\ pc[c] = "idle"
      BY <1>1, <2>1
    <3> QED BY <1>4, <3>1 DEF TypeOK, Go, Step, Start, Continue, Core, CreateSession, ForkSession,
              ResumeSession, ForkRefused, CloseSession, CloseAllSessions, DeleteSessionDir, Refuse,
              WriteArgs, Spawn, SpawnFails, Insert, Look, Ask, ReadArgs, SendFork, Poll, Deadline, Take,
              Teardown, CloseEnds, Empty, Remove, Save, WriteFork, CoreExits
  <2>2. CASE arg'[x] = arg[x]
    <3>1. arg[x].dir \in Dirs /\ Made(arg[x].dir)
      BY <1>4, <2>2, ManagerAssumption DEF Shape, Phase, Dirs
    <3>2. CASE pc[x] \in {"asking", "reading", "spawning"}
      BY <1>3, <1>4, <2>2, <3>1, <3>2 DEF FilesSeen
    <3>3. CASE pc[x] \notin {"asking", "reading", "spawning"}
      <4>1. x = c /\ Look(c)
        <5>1. x = c
          BY <1>1, <1>4, <3>3
        <5>2. CASE WriteArgs(c)
          BY <1>4, <2>2, <5>1, <5>2 DEF WriteArgs, Go, Shape, Phase, Making
        <5>3. CASE ~WriteArgs(c) /\ ~Look(c)
          BY <1>4, <3>3, <5>1, <5>3 DEF TypeOK, Go, Step, Start, Continue, Core, CreateSession, ForkSession,
              ResumeSession, ForkRefused, CloseSession, CloseAllSessions, DeleteSessionDir, Refuse,
              Spawn, SpawnFails, Insert, Ask, ReadArgs, SendFork, Poll, Deadline, Take,
              Teardown, CloseEnds, Closed, Empty, Remove, Save, WriteFork, CoreExits
        <5> QED BY <5>1, <5>2, <5>3
      <4>2. disk[arg[c].dir].file \in {"part", "good"} /\ disk' = disk
        BY <1>4, <4>1 DEF Look, Go, TypeOK
      <4> QED BY <2>2, <4>1, <4>2 DEF FileSeen
    <3> QED BY <3>2, <3>3
  <2> QED BY <2>1, <2>2
<1>5. ASSUME NEW x \in Calls, pc'[x] \in {"idle", "forking"} PROVE polled'[x].size = "none"
  <2>1. CASE x # c
    BY <1>1, <1>5, <2>1 DEF FilesSeen
  <2>2. CASE x = c
    <3>1. pc[c] \in {"idle", "forking"} /\ polled'[c].size = polled[c].size
      BY <1>5, <2>2 DEF TypeOK, Go, Step, Start, Continue, Core, CreateSession, ForkSession,
              ResumeSession, ForkRefused, CloseSession, CloseAllSessions, DeleteSessionDir, Refuse,
              WriteArgs, Spawn, SpawnFails, Insert, Look, Ask, ReadArgs, SendFork, Poll, Deadline, Take,
              Teardown, CloseEnds, Closed, Empty, Remove, Save, WriteFork, CoreExits
    <3> QED BY <2>2, <3>1 DEF FilesSeen
  <2> QED BY <2>1, <2>2
<1>6. ASSUME NEW x \in Calls, pc'[x] = "waiting", polled'[x].size # "none" PROVE FileSeen(x)'
  <2>1. Made(x) /\ x \in Dirs
    <3>1. pc[x] # "idle"
      BY <1>1, <1>6 DEF TypeOK, Go, Step, Start, Continue, Core, CreateSession, ForkSession,
              ResumeSession, ForkRefused, CloseSession, CloseAllSessions, DeleteSessionDir, Refuse,
              WriteArgs, Spawn, SpawnFails, Insert, Look, Ask, ReadArgs, SendFork, Poll, Deadline, Take,
              Teardown, CloseEnds, Empty, Remove, Save, WriteFork, CoreExits
    <3>2. arg'[x] = arg[x]
      BY <1>1, <3>1
    <3>3. pc[x] \in {"forking", "waiting"}
      BY <1>1, <1>6 DEF TypeOK, Go, Step, Start, Continue, Core, CreateSession, ForkSession,
              ResumeSession, ForkRefused, CloseSession, CloseAllSessions, DeleteSessionDir, Refuse,
              WriteArgs, Spawn, SpawnFails, Insert, Look, Ask, ReadArgs, SendFork, Poll, Deadline, Take,
              Teardown, CloseEnds, Closed, Empty, Remove, Save, WriteFork, CoreExits
    <3> QED BY <3>3 DEF Shape, Phase, Made, Dirs
  <2>2. CASE pc[x] = "waiting" /\ polled[x].size # "none"
    BY <1>3, <2>1, <2>2 DEF FilesSeen
  <2>3. CASE ~(pc[x] = "waiting" /\ polled[x].size # "none")
    <3>1. x = c
      BY <1>1, <1>6, <2>3
    <3>2. Poll(c) \/ SendFork(c)
      BY <1>6, <2>3, <3>1 DEF TypeOK, Go, Step, Start, Continue, Core, CreateSession, ForkSession,
              ResumeSession, ForkRefused, CloseSession, CloseAllSessions, DeleteSessionDir, Refuse,
              WriteArgs, Spawn, SpawnFails, Insert, Look, Ask, ReadArgs, Deadline, Take,
              Teardown, CloseEnds, Closed, Empty, Remove, Save, WriteFork, CoreExits
    <3>3. CASE Poll(c)
      BY <3>1, <3>3 DEF Poll, FileSeen
    <3>4. CASE SendFork(c)
      BY <1>6, <3>1, <3>4 DEF SendFork, Go, FilesSeen
    <3> QED BY <3>2, <3>3, <3>4
  <2> QED BY <2>2, <2>3
<1>7. ASSUME NEW x \in Calls, arg'[x].op = "fork", pc'[x] \in {"arguing", "spawning"} PROVE FileSeen(x)'
  <2>1. CASE pc[x] = "idle"
    <3>1. x = c
      BY <1>1, <1>7, <2>1
    <3>2. CreateSession(c)
      BY <1>7, <2>1, <3>1 DEF TypeOK, Go, Step, Start, Continue, Core, ForkSession,
              ResumeSession, ForkRefused, CloseSession, CloseAllSessions, DeleteSessionDir, Refuse,
              WriteArgs, Spawn, SpawnFails, Insert, Look, Ask, ReadArgs, SendFork, Poll, Deadline, Take,
              Teardown, CloseEnds, Empty, Remove, Save, WriteFork, CoreExits
    <3> QED BY <1>7, <3>1, <3>2 DEF CreateSession, Command, NoArg, TypeOK
  <2>2. CASE pc[x] # "idle"
    <3>1. arg[x].op = "fork" /\ Made(x) /\ x \in Dirs
      BY <1>1, <1>7, <2>2 DEF Made, Making, Dirs
    <3>2. CASE pc[x] \in {"arguing", "spawning"}
      BY <1>3, <3>1, <3>2 DEF FilesSeen
    <3>3. CASE pc[x] \notin {"arguing", "spawning"}
      <4>1. x = c
        BY <1>1, <1>7, <3>3
      <4>2. ~ReadArgs(c)
        BY <3>1, <4>1 DEF ReadArgs, Go, Shape, Phase
      <4>3. Poll(c) \/ Deadline(c)
        BY <1>7, <2>2, <3>3, <4>1, <4>2 DEF TypeOK, Go, Step, Start, Continue, Core, CreateSession,
              ForkSession, ResumeSession, ForkRefused, CloseSession, CloseAllSessions, DeleteSessionDir,
              Refuse, WriteArgs, Spawn, SpawnFails, Insert, Look, Ask, SendFork, Take,
              Teardown, CloseEnds, Closed, Empty, Remove, Save, WriteFork, CoreExits
      <4>4. CASE Poll(c)
        BY <4>1, <4>4 DEF Poll, FileSeen
      <4>5. CASE Deadline(c)
        <5>1. pc[c] = "waiting" /\ polled[c].size # "none"
          BY <1>7, <4>1, <4>5 DEF Deadline, Go, TypeOK
        <5> QED BY <1>3, <3>1, <4>1, <5>1 DEF FilesSeen
      <4> QED BY <4>3, <4>4, <4>5
    <3> QED BY <3>2, <3>3
  <2> QED BY <2>1, <2>2
<1> QED
  <2>1. \A x \in Calls : disk'[x].file # "old"
    BY <1>2
  <2> QED BY <2>1, <1>4, <1>5, <1>6, <1>7 DEF FilesSeen, FileSeen

LEMMA FileReadyStep ==
  ASSUME TypeOK, Shape, FilesSeen, FileReady, NEW c \in Calls, Step(c)
  PROVE  FileReady'
PROOF
<1>1. SUFFICES ASSUME NEW i \in Calls, core'[i].st = "running"
      PROVE  /\ core'[i].from # "old"
             /\ arg'[i].op # "create" => core'[i].from # "none" \/ core'[i].dir \in lost'
  BY DEF FileReady, Running
<1>2. CASE core[i].st # "none"
  <2>1. core[i].st = "running"
    <3>1. core' = core \/ Spawn(c) \/ (\E y \in Calls : Ends(y))
      BY Frame
    <3>2. CASE Spawn(c)
      BY <1>1, <1>2, <3>2 DEF Spawn, Go, Shape, Handle, TypeOK
    <3>3. CASE \E y \in Calls : Ends(y)
      BY <1>1, <3>3 DEF Ends, TypeOK, Processes
    <3> QED BY <1>1, <3>1, <3>2, <3>3
  <2>2. core[i].from # "old" /\ (arg[i].op # "create" => core[i].from # "none" \/ core[i].dir \in lost)
    BY <2>1 DEF FileReady, Running
  <2> QED BY <1>2, <2>2, Promises, Frame
<1>3. CASE i = c /\ Spawn(c)
  <2>1. /\ core'[c].from = disk[arg[c].dir].file /\ core'[c].dir = arg[c].dir
        /\ arg' = arg /\ pc[c] = "spawning" /\ lost' = lost
    BY <1>3 DEF Spawn, TypeOK, Go, history
  <2>2. CASE arg[c].op = "create"
    BY <1>3, <2>1, <2>2 DEF Shape, Phase, Making, FilesSeen
  <2>3. CASE arg[c].op = "fork"
    BY <1>3, <2>1, <2>3 DEF Shape, Phase, Making, FilesSeen, FileSeen
  <2>4. CASE arg[c].op = "resume"
    BY <1>3, <2>1, <2>4 DEF FilesSeen, FileSeen
  <2> QED BY <2>1, <2>2, <2>3, <2>4 DEF Shape, Phase, Making
<1> QED BY <1>1, <1>2, <1>3, Promises

(***************************************************************************)
(* What is closed, and what is deleted                                     *)
(***************************************************************************)
LEMMA ClosedStep ==
  ASSUME TypeOK, Shape, Envelopes, ClosedForGood, NEW c \in Calls, Step(c)
  PROVE  ClosedForGood'
PROOF
<1>1. /\ \A x \in Calls : x # c => pc'[x] = pc[x] /\ arg'[x] = arg[x] /\ held'[x] = held[x]
      /\ arg'[c] = arg[c] \/ (pc[c] = "idle" /\ arg[c] = NoArg)
  BY OwnSteps, Frame
<1>2. ASSUME NEW i \in Calls, pc[i] = "ok", core[i].st = "gone" PROVE core'[i].st = "gone"
  <2>1. core' = core \/ Spawn(c) \/ (\E y \in Calls : Ends(y))
    BY Frame
  <2>2. CASE Spawn(c)
    BY <1>2, <2>2 DEF Spawn, Go, TypeOK
  <2>3. CASE \E y \in Calls : Ends(y)
    BY <1>2, <2>3 DEF Ends, TypeOK, Processes
  <2> QED BY <1>2, <2>1, <2>2, <2>3
<1>3. ASSUME NEW x \in Calls, pc'[x] \in {"emptying", "removing", "ok"}, NEW i \in held'[x]
      PROVE  core'[i].st = "gone" /\ map'[i] = None
  <2>1. Holds(x)' /\ Holds(x)
    BY HoldsStep DEF Shape
  <2>2. map'[i] = None
    BY <1>3, <2>1 DEF Holds
  <2>3. core'[i].st = "gone"
    <3>1. CASE i \in held[x] /\ pc[x] \in {"emptying", "removing", "ok"}
      <4>1. i \in Calls /\ pc[i] = "ok" /\ core[i].st = "gone"
        BY <2>1, <3>1 DEF Holds, ClosedForGood, TypeOK
      <4> QED BY <1>2, <4>1
    <3>2. CASE x = c /\ CloseEnds(c)
      BY <1>3, <3>2 DEF CloseEnds
    <3>3. CASE x = c /\ ~CloseEnds(c) /\ pc[c] \notin {"emptying", "removing", "ok"}
      <4>1. Insert(c)
        BY <1>3, <3>3 DEF TypeOK, Go, Step, Start, Continue, Core, CreateSession,
              ForkSession, ResumeSession, ForkRefused, CloseSession, CloseAllSessions, DeleteSessionDir,
              Refuse, WriteArgs, Spawn, SpawnFails, Look, Ask, ReadArgs, SendFork, Poll, Deadline, Take,
              Teardown, Empty, Remove, Save, WriteFork, CoreExits
      <4>2. held[c] = {}
        BY <2>1, <3>3, <4>1 DEF Insert, Go, Holds, Shape, Phase, Making, Closing
      <4> QED BY <1>3, <3>3, <4>1, <4>2 DEF Insert
    <3>4. CASE x = c /\ pc[c] \in {"emptying", "removing", "ok"} /\ i \notin held[c]
      BY <1>3, <3>4 DEF TypeOK, Go, Step, Start, Continue, Core, CreateSession,
              ForkSession, ResumeSession, ForkRefused, CloseSession, CloseAllSessions, DeleteSessionDir,
              Refuse, WriteArgs, Spawn, SpawnFails, Insert, Look, Ask, ReadArgs, SendFork, Poll, Deadline,
              Take, Teardown, CloseEnds, Empty, Remove, Save, WriteFork, CoreExits
    <3> QED BY <1>1, <1>3, <3>1, <3>2, <3>3, <3>4
  <2> QED BY <2>2, <2>3
<1>4. ASSUME NEW x \in Calls, arg'[x].op = "delete", pc'[x] = "ok" PROVE ~disk'[arg'[x].dir].there
  <2>1. CASE pc[x] = "ok"
    <3>1. arg'[x] = arg[x] /\ arg[x].dir \in Dirs
      BY <1>1, <1>4, <2>1 DEF Shape, Phase
    <3>2. ~disk[arg[x].dir].there /\ Made(arg[x].dir)
      BY <1>4, <2>1, <3>1, ManagerAssumption DEF ClosedForGood, Shape, Phase
    <3>3. ~((CreateSession(c) \/ ForkSession(c)) /\ arg[x].dir = c)
      BY <3>2, ManagerAssumption DEF CreateSession, ForkSession, Go, Shape, Phase, NoArg, Made, Making
    <3> QED BY <3>1, <3>2, <3>3, Directories
  <2>2. CASE pc[x] # "ok"
    <3>1. x = c
      BY <1>1, <1>4, <2>2
    <3>2. pc[c] # "idle"
      BY <1>4, <3>1 DEF TypeOK, Go, Step, Start, Continue, Core, CreateSession,
              ForkSession, ResumeSession, ForkRefused, CloseSession, CloseAllSessions, DeleteSessionDir,
              Refuse, WriteArgs, Spawn, SpawnFails, Insert, Look, Ask, ReadArgs, SendFork, Poll, Deadline,
              Take, Teardown, CloseEnds, Empty, Remove, Save, WriteFork, CoreExits
    <3>3. arg[c].op = "delete" /\ arg'[c] = arg[c]
      BY <1>1, <1>4, <3>1, <3>2
    <3>4. pc[c] \notin {"inserting", "spawning"}
      BY <3>3 DEF Shape, Phase, Making
    <3>5. Remove(c)
      BY <1>4, <2>2, <3>1, <3>2, <3>3, <3>4 DEF TypeOK, Go, Step, Start, Continue, Core, CreateSession,
              ForkSession, ResumeSession, ForkRefused, CloseSession, CloseAllSessions, DeleteSessionDir,
              Refuse, WriteArgs, Spawn, SpawnFails, Insert, Look, Ask, ReadArgs, SendFork, Poll, Deadline,
              Take, Teardown, CloseEnds, Closed, Empty, Save, WriteFork, CoreExits
    <3>6. arg[c].dir \in Dirs
      BY <3>3 DEF Shape, Phase
    <3>7. disk'[arg[c].dir] = Absent
      BY <1>4, <3>1, <3>5, <3>6 DEF Remove, Go, TypeOK
    <3> QED BY <3>1, <3>3, <3>7 DEF Absent
  <2> QED BY <2>1, <2>2
<1> QED BY <1>3, <1>4 DEF ClosedForGood, Listed

(***************************************************************************)
(* The theorems                                                            *)
(***************************************************************************)
LEMMA NextInv == IInv /\ [Next]_vars => IInv'
PROOF
<1> SUFFICES ASSUME IInv, [Next]_vars PROVE IInv'
  OBVIOUS
<1>1. CASE UNCHANGED vars
  <2>1. TypeOK' /\ Shape' /\ CoresOwned'
    BY <1>1 DEF IInv, vars, history, TypeOK, Shape, Phase, Handle, Holds, Made, CoresOwned, Running
  <2>2. Envelopes' /\ EnvelopeKept'
    BY <1>1 DEF IInv, vars, history, Envelopes, EnvelopeKept, Made, Running
  <2>3. FilesSeen' /\ FileReady' /\ ClosedForGood'
    BY <1>1 DEF IInv, vars, history, FilesSeen, FileSeen, FileReady, ClosedForGood, Running, Listed
  <2> QED BY <2>1, <2>2, <2>3 DEF IInv
<1>2. ASSUME NEW c \in Calls, Step(c) PROVE IInv'
  BY <1>2, TypeStep, ShapeStep, CoresStep, EnvelopesStep, EnvelopeStep, FilesSeenStep, FileReadyStep,
     ClosedStep DEF IInv
<1> QED BY <1>1, <1>2 DEF Next, Step

LEMMA Invariant == Spec => []IInv
PROOF BY InitInv, NextInv, PTL DEF Spec

\* Every variable keeps its type.
THEOREM TypeCorrect == Spec => []TypeOK
PROOF BY Invariant, PTL DEF IInv

\* However the commands interleave, a process that runs has a handle, or a
\* call that is about to make one or to wait for its end.
THEOREM CoresAlwaysOwned == Spec => []CoresOwned
PROOF BY Invariant, PTL DEF IInv

\* A core runs with the envelope its directory was promised, also after any
\* number of resumes and forks.
THEOREM EnvelopesKept == Spec => []EnvelopeKept
PROOF BY Invariant, PTL DEF IInv

\* A core is started on a file that is there and of the right version.
THEOREM FilesReady == Spec => []FileReady
PROOF BY Invariant, PTL DEF IInv

\* Whoever goes on after a close has seen the end of what it closed, and a
\* directory whose deletion was reported is not listed again.
THEOREM ClosesForGood == Spec => []ClosedForGood
PROOF BY Invariant, PTL DEF IInv
=============================================================================
