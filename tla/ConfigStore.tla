---------------------------- MODULE ConfigStore ----------------------------
(***************************************************************************)
(* The files the desktop backend owns below its base directory: presets,   *)
(* their settings and display order, whole documents such as ui.conf or a  *)
(* session's label, content-addressed objects and plain files (dirs.rs,    *)
(* commands/presets.rs, settings.rs, global_config.rs, ui_config.rs,       *)
(* label.rs, objects.rs, fs.rs; the writing half of asr.rs and mcp.rs).    *)
(* Commands are tasks of a multi-threaded runtime and take no lock: every  *)
(* system call that another command can see is a step.  The machine may    *)
(* stop between two steps, and what was not synced may then be cut short.  *)
(* What the documents say is Documents' subject.                           *)
(***************************************************************************)
EXTENDS Naturals, Sequences, FiniteSets, SequencesExt

CONSTANTS
  Callers,     \* requests in flight at once
  Seeds,       \* SEED_PRESETS, in their order
  Alphabet,    \* all preset names, sorted
  Base,        \* the base directory
  None,
  Raw,         \* the orders a client may ask for
  Documents,   \* the files sync_*_config replaces whole
  Asked,       \* the commands that come
  MaxCalls, MaxTroubles

Names == ToSet(Alphabet)
SeedNames == ToSet(Seeds)

ASSUME StoreAssumption ==
  /\ Alphabet \in Seq(Names) /\ Seeds \in Seq(Names) \ {<<>>} /\ Base \notin Names
  /\ {Base, None} \cap Callers = {} /\ None \notin Names \cup {Base}
  /\ Raw \subseteq Seq(Names)
  /\ {"order", "label", "object", "plan"} \cap Documents = {}
  /\ {MaxCalls, MaxTroubles} \subseteq Nat

VARIABLES
  there,     \* the preset directories
  disk,      \* every file: missing, empty, cut short, or whole with its text
  dirty,     \* the files whose text may not have reached the disk
  tmp,       \* the temporary files, by their unique number
  litter,    \* the directories a temporary file was left in
  pc, cmd,   \* where each caller stands, and with what command
  seen,      \* the preset names a caller has read
  text,      \* what a caller is about to write, or has listed
  todo,      \* the seed, or the files, a caller has still to write
  calls, crashes, fails

files == <<there, disk, dirty, tmp, litter>>
locals == <<cmd, seen, text, todo>>
bounds == <<calls, crashes, fails>>
vars == <<files, pc, locals, bounds>>

PresetFiles == {"settings", "mcp"}
BaseFiles == Documents \cup {"order", "label", "object", "plan"}
Paths == ({Base} \X BaseFiles) \cup (Names \X PresetFiles)
\* Files that only write_file_atomic writes.
Atomic == {Base} \X (Documents \cup {"order", "label"})

Missing == [st |-> "none", v |-> <<>>]
Empty == [st |-> "empty", v |-> <<>>]
Cut == [st |-> "cut", v |-> <<>>]
Whole(v) == [st |-> "whole", v |-> v]

\* settings.conf, reduced to two fields, and what a missing file stands for.
Fresh == <<0, 0>>
Values == 1..2
NoTemp == [at |-> None, file |-> Missing, synced |-> FALSE]
NoCmd == [op |-> "none", name |-> None, to |-> None, arg |-> <<>>, path |-> <<Base, "plan">>]
Between(o, n, m) == [NoCmd EXCEPT !.op = o, !.name = n, !.to = m]
OfPreset(o, n, a) == [NoCmd EXCEPT !.op = o, !.name = n, !.arg = a, !.path = <<n, o>>]
Write(o, f, a) == [NoCmd EXCEPT !.op = o, !.arg = a, !.path = <<Base, f>>]

LabelTexts == {<<>>, <<1>>}

PresetCommands ==
  {Between("list", None, None)}
  \cup {Between("copy", s, d) : s \in Names, d \in Names}
  \cup {Between("rename", s, d) : s \in Names, d \in Names}
  \cup {Between("delete", n, None) : n \in Names}
  \cup {OfPreset("settings", n, <<f, v>>) : n \in Names, f \in 1..2, v \in Values}
  \cup {OfPreset("mcp", n, <<1>>) : n \in Names}
PlainCommands ==
  {Write("put", "object", <<1>>), Write("write", "plan", <<1>>), Write("erase", "plan", <<1>>)}
BaseCommands ==
  PlainCommands
  \cup {Write("reorder", "order", r) : r \in Raw}
  \cup {Write("sync", d, <<v>>) : d \in Documents, v \in Values}
  \cup {Write("label", "label", a) : a \in LabelTexts}
Commands == PresetCommands \cup BaseCommands

ASSUME AskedAssumption == Asked \subseteq Commands

\* The first run, or a store its user has worked with; the order file may
\* name presets that are gone, and names twice when it was edited by hand.
Init ==
  /\ \E old \in {{}} \cup {SeedNames \cup more : more \in SUBSET (Names \ SeedNames)},
        order \in {Missing} \cup {Whole(r) : r \in Raw} :
       /\ there = old
       /\ disk = [p \in Paths |->
            IF p = <<Base, "order">> THEN order
            ELSE IF p[1] \in old /\ p[2] = "settings" THEN Whole(Fresh) ELSE Missing]
  /\ dirty = {}
  /\ tmp = [c \in Callers |-> NoTemp]
  /\ litter = {}
  /\ pc = [c \in Callers |-> "idle"]
  /\ cmd = [c \in Callers |-> NoCmd]
  /\ seen = [c \in Callers |-> {}]
  /\ text = [c \in Callers |-> <<>>]
  /\ todo = [c \in Callers |-> {}]
  /\ calls = 0 /\ crashes = 0 /\ fails = 0

Go(c, from, to) == pc[c] = from /\ pc' = [pc EXCEPT ![c] = to]
\* The command answers, with a result or an error.
Answer(c) ==
  /\ pc' = [pc EXCEPT ![c] = "idle"]
  /\ cmd' = [cmd EXCEPT ![c] = NoCmd]
  /\ seen' = [seen EXCEPT ![c] = {}]
  /\ text' = [text EXCEPT ![c] = <<>>]
  /\ todo' = [todo EXCEPT ![c] = {}]

Refused_Same(m) == m.op \in {"copy", "rename"} /\ m.name = m.to
\* Seed presets are named in the seeded prompts.  Invalid names and documents
\* that are no document are refused before anything else and not modelled here.
Refused(m) ==
  \/ m.op \in {"delete", "rename"} /\ m.name \in SeedNames
  \/ m.op \in {"copy", "rename"} /\ m.name = m.to

(***************************************************************************)
(* ensure                                                                  *)
(***************************************************************************)
Begin(c) ==
  /\ calls < MaxCalls /\ calls' = calls + 1
  /\ \E m \in Asked :
       /\ cmd' = [cmd EXCEPT ![c] = m]
       /\ Go(c, "idle", IF m.op \in {"mcp", "put", "write", "erase"} THEN "body" ELSE "ensure")
  /\ UNCHANGED <<files, seen, text, todo, crashes, fails>>

\* A root that is empty when it is looked at is to be seeded.
Ensure(c) ==
  /\ Go(c, "ensure", IF there = {} THEN "seed" ELSE "body")
  /\ todo' = [todo EXCEPT ![c] = IF there = {} THEN SeedNames ELSE {}]
  /\ UNCHANGED <<files, cmd, seen, text, bounds>>

\* The first of the seeds that are left.
NextSeed(c) ==
  {n \in todo[c] : \E i \in DOMAIN Seeds :
     Seeds[i] = n /\ \A j \in 1..(i - 1) : Seeds[j] \notin todo[c]}
\* create_preset_defaults: create_dir_all, then fs::write truncates ...
SeedDir(c) ==
  /\ Go(c, "seed", "seedwrite")
  /\ \E n \in NextSeed(c) :
       /\ there' = there \cup {n}
       /\ disk' = [disk EXCEPT ![<<n, "settings">>] = Empty]
       /\ dirty' = dirty \cup {<<n, "settings">>}
  /\ UNCHANGED <<tmp, litter, locals, bounds>>

\* ... and writes.  Three small files: the loop goes on to the next seed.
SeedWrite(c) ==
  /\ \E n \in NextSeed(c) :
       /\ Go(c, "seedwrite", IF todo[c] = {n} THEN "body" ELSE "seed")
       /\ todo' = [todo EXCEPT ![c] = @ \ {n}]
       /\ disk' = [disk EXCEPT ![<<n, "settings">>] = Whole(Fresh)]
  /\ UNCHANGED <<there, dirty, tmp, litter, cmd, seen, text, bounds>>

\* The disk is full; the presets that are missing now will never be seeded.
SeedFails(c) ==
  /\ pc[c] = "seedwrite" /\ crashes + fails < MaxTroubles /\ fails' = fails + 1
  /\ \E n \in NextSeed(c) : disk' = [disk EXCEPT ![<<n, "settings">>] = Cut]
  /\ Answer(c)
  /\ UNCHANGED <<there, dirty, tmp, litter, calls, crashes>>

(***************************************************************************)
(* list_preset_names, reorder_presets                                      *)
(***************************************************************************)
\* The names of raw that are in S, each once: read_preset_order and the
\* loops of list_preset_names and reorder_presets.
Firsts(S, raw) == {i \in DOMAIN raw : raw[i] \in S /\ \A j \in 1..(i - 1) : raw[j] # raw[i]}
Keep(S, raw) ==
  LET at == Firsts(S, raw)
  IN  [k \in 1..Cardinality(at) |-> raw[CHOOSE i \in at : Cardinality({j \in at : j < i}) = k - 1]]

Listing_SavedOnly(S, saved) == IF saved = <<>> THEN Keep(S, Alphabet) ELSE Keep(S, saved)
\* The saved order first, then what it does not name, sorted.
Listing(S, saved) == Keep(S, saved \o Alphabet)

Lists == {"list", "delete", "reorder"}

ReadNames(c) ==
  /\ cmd[c].op \in Lists /\ ~Refused(cmd[c])
  /\ Go(c, "body", "order")
  /\ seen' = [seen EXCEPT ![c] = there]
  /\ UNCHANGED <<files, cmd, text, todo, bounds>>

ReadOrder(c) ==
  /\ Go(c, "order", "listed")
  /\ LET order == disk[<<Base, "order">>]
         saved == IF order.st = "whole" THEN order.v ELSE <<>>
     IN  text' = [text EXCEPT ![c] = Listing(seen[c], saved)]
  /\ UNCHANGED <<files, cmd, seen, todo, bounds>>

ListPresets(c) ==
  /\ pc[c] = "listed" /\ cmd[c].op = "list"
  /\ Answer(c)
  /\ UNCHANGED <<files, bounds>>

\* Unknown names are ignored and missing ones appended.
ReorderPresets(c) ==
  /\ cmd[c].op = "reorder"
  /\ Go(c, "listed", "write")
  /\ text' = [text EXCEPT ![c] = Keep(seen[c], cmd[c].arg \o text[c])]
  /\ UNCHANGED <<files, cmd, seen, todo, bounds>>

(***************************************************************************)
(* copy_preset, rename_preset, delete_preset                               *)
(***************************************************************************)
Refuse(c) ==
  /\ pc[c] = "body" /\ Refused(cmd[c])
  /\ Answer(c)
  /\ UNCHANGED <<files, bounds>>

HasTemp(n) == n \in litter \/ \E c \in Callers : tmp[c].at = n
Present(n) == {f \in PresetFiles : disk[<<n, f>>] # Missing}

\* The source must exist and the target must not, when they are looked at.
CopyPreset(c) ==
  /\ cmd[c].op \in {"copy", "rename"} /\ ~Refused(cmd[c]) /\ pc[c] = "body"
  /\ IF cmd[c].name \in there /\ cmd[c].to \notin there
     THEN Go(c, "body", cmd[c].op) /\ UNCHANGED locals
     ELSE Answer(c)
  /\ UNCHANGED <<files, bounds>>

\* copy_dir: the target first, then the entries of the source, whatever
\* they are.
CopyDir(c) ==
  /\ LET n == cmd[c].name
     IN  /\ pc[c] = "copy"
         /\ there' = there \cup {cmd[c].to}
         /\ IF n \in there
            THEN /\ Go(c, "copy", "copying")
                 /\ todo' = [todo EXCEPT ![c] =
                               Present(n) \cup IF HasTemp(n) THEN {"temp"} ELSE {}]
                 /\ UNCHANGED <<cmd, seen, text>>
            ELSE Answer(c)
  /\ UNCHANGED <<disk, dirty, tmp, litter, bounds>>

\* One fs::copy; a file that is gone by now ends the copy with an error.
CopyFile(c) ==
  LET from == cmd[c].name
      to == cmd[c].to
  IN  /\ pc[c] = "copying"
      /\ \E f \in todo[c] :
           IF to \in there /\ (IF f = "temp" THEN HasTemp(from) ELSE f \in Present(from))
           THEN /\ IF f = "temp" THEN litter' = litter \cup {to} /\ UNCHANGED <<disk, dirty>>
                   ELSE /\ disk' = [disk EXCEPT ![<<to, f>>] = disk[<<from, f>>]]
                        /\ dirty' = dirty \cup {<<to, f>>}
                        /\ UNCHANGED litter
                /\ todo' = [todo EXCEPT ![c] = @ \ {f}]
                /\ UNCHANGED <<pc, cmd, seen, text>>
           ELSE Answer(c) /\ UNCHANGED <<disk, dirty, litter>>
      /\ UNCHANGED <<there, tmp, bounds>>

Copied(c) ==
  /\ pc[c] = "copying" /\ todo[c] = {}
  /\ Answer(c)
  /\ UNCHANGED <<files, bounds>>

\* rename(2) replaces an empty directory and refuses one that is not; what
\* is in the directory moves with it.
RenamePreset(c) ==
  LET old == cmd[c].name
      new == cmd[c].to
      empty == Present(new) = {} /\ ~HasTemp(new)
  IN  /\ pc[c] = "rename" /\ Answer(c)
      /\ IF old \in there /\ (new \in there => empty)
         THEN /\ there' = (there \ {old}) \cup {new}
              /\ disk' = [p \in Paths |-> IF p[1] = new THEN disk[<<old, p[2]>>]
                                          ELSE IF p[1] = old THEN Missing ELSE disk[p]]
              /\ dirty' = {p \in dirty : p[1] \notin {old, new}}
                          \cup {<<new, p[2]>> : p \in {q \in dirty : q[1] = old}}
              /\ tmp' = [t \in Callers |->
                           IF tmp[t].at = old THEN [tmp[t] EXCEPT !.at = new] ELSE tmp[t]]
              /\ litter' = {IF d = old THEN new ELSE d : d \in litter}
         ELSE UNCHANGED files
      /\ UNCHANGED bounds

\* The last preset stays, as far as the names were read; then
\* remove_dir_all unlinks what is in the directory ...
DeletePreset(c) ==
  LET n == cmd[c].name
  IN  /\ cmd[c].op = "delete" /\ pc[c] = "listed"
      /\ IF Len(text[c]) > 1 /\ n \in there
         THEN /\ Go(c, "listed", "rmdir")
              /\ disk' = [p \in Paths |-> IF p[1] = n THEN Missing ELSE disk[p]]
              /\ dirty' = {p \in dirty : p[1] # n}
              /\ tmp' = [t \in Callers |-> IF tmp[t].at = n THEN [tmp[t] EXCEPT !.at = None] ELSE tmp[t]]
              /\ litter' = litter \ {n}
              /\ UNCHANGED locals
         ELSE Answer(c) /\ UNCHANGED <<disk, dirty, tmp, litter>>
      /\ UNCHANGED <<there, bounds>>

\* ... and removes it, unless something was put there since.
RemoveDir(c) ==
  /\ pc[c] = "rmdir"
  /\ there' = IF Present(cmd[c].name) = {} /\ ~HasTemp(cmd[c].name)
              THEN there \ {cmd[c].name} ELSE there
  /\ Answer(c)
  /\ UNCHANGED <<disk, dirty, tmp, litter, bounds>>

(***************************************************************************)
(* What is written, and where                                              *)
(***************************************************************************)
\* read_settings_from: no file and an empty file are the defaults.
Current(n) == IF disk[<<n, "settings">>].st = "whole" THEN disk[<<n, "settings">>].v ELSE Fresh

\* sync_global_settings: read, merge the fields that came, write.
SyncSettings(c) ==
  LET n == cmd[c].name
  IN  /\ cmd[c].op = "settings" /\ pc[c] = "body"
      /\ IF n \in there /\ disk[<<n, "settings">>].st # "cut"
         THEN /\ Go(c, "body", "write")
              /\ text' = [text EXCEPT ![c] = [Current(n) EXCEPT ![cmd[c].arg[1]] = cmd[c].arg[2]]]
              /\ UNCHANGED <<cmd, seen, todo>>
         ELSE Answer(c)
      /\ UNCHANGED <<files, bounds>>

\* sync_global_config, sync_asr_config, sync_ui_config, sync_default_mcp: the
\* whole document.
SyncDocument(c) ==
  /\ cmd[c].op \in {"sync", "mcp"} /\ pc[c] = "body"
  /\ IF cmd[c].op = "mcp" /\ cmd[c].name \notin there
     THEN Answer(c)
     ELSE /\ Go(c, "body", "write")
          /\ text' = [text EXCEPT ![c] = cmd[c].arg]
          /\ UNCHANGED <<cmd, seen, todo>>
  /\ UNCHANGED <<files, bounds>>

\* sync_session_label: no name is no file.
SyncLabel(c) ==
  /\ cmd[c].op = "label" /\ pc[c] = "body"
  /\ IF cmd[c].arg = <<>>
     THEN disk' = [disk EXCEPT ![cmd[c].path] = Missing] /\ Answer(c)
     ELSE /\ Go(c, "body", "write")
          /\ text' = [text EXCEPT ![c] = cmd[c].arg]
          /\ UNCHANGED <<disk, cmd, seen, todo>>
  /\ UNCHANGED <<there, dirty, tmp, litter, bounds>>

(***************************************************************************)
(* write_file_atomic                                                       *)
(***************************************************************************)
TempOf_Shared(c) == CHOOSE d \in Callers : TRUE
\* Process, time and a counter: no two writes share a temporary file.
TempOf(c) == c

DirOf(p) == p[1]
Exists(d) == d = Base \/ d \in there

CreateTemp(c) ==
  LET d == DirOf(cmd[c].path)
  IN  /\ pc[c] = "write"
      /\ IF Exists(d)
         THEN /\ Go(c, "write", "fill")
              /\ tmp' = [tmp EXCEPT ![TempOf(c)] = [at |-> d, file |-> Empty, synced |-> FALSE]]
              /\ UNCHANGED locals
         ELSE Answer(c) /\ UNCHANGED tmp
      /\ UNCHANGED <<there, disk, dirty, litter, bounds>>

FillTemp(c) ==
  /\ Go(c, "fill", "sync")
  /\ tmp' = [tmp EXCEPT ![TempOf(c)].file = Whole(text[c])]
  /\ UNCHANGED <<there, disk, dirty, litter, locals, bounds>>

SyncTemp_Skipped(c) ==
  /\ Go(c, "sync", "publish")
  /\ UNCHANGED <<files, locals, bounds>>
SyncTemp(c) ==
  /\ Go(c, "sync", "publish")
  /\ tmp' = [tmp EXCEPT ![TempOf(c)].synced = TRUE]
  /\ UNCHANGED <<there, disk, dirty, litter, locals, bounds>>

\* The write fails and remove_file takes the temporary file away, if its
\* directory has not been renamed meanwhile.
GiveUp_LeavesTemp(c) ==
  /\ litter' = litter \cup ({tmp[TempOf(c)].at} \ {None})
  /\ tmp' = [tmp EXCEPT ![TempOf(c)] = NoTemp]
GiveUp(c) ==
  /\ litter' = litter \cup ({tmp[TempOf(c)].at} \ {None, DirOf(cmd[c].path)})
  /\ tmp' = [tmp EXCEPT ![TempOf(c)] = NoTemp]

WriteFails(c) ==
  /\ pc[c] = "fill" /\ crashes + fails < MaxTroubles /\ fails' = fails + 1
  /\ GiveUp(c) /\ Answer(c)
  /\ UNCHANGED <<there, disk, dirty, calls, crashes>>

RenameTemp(c) ==
  LET p == cmd[c].path
      t == tmp[TempOf(c)]
  IN  /\ pc[c] = "publish"
      /\ IF t.at = DirOf(p)
         THEN /\ disk' = [disk EXCEPT ![p] = t.file]
              /\ dirty' = IF t.synced THEN dirty \ {p} ELSE dirty \cup {p}
              /\ tmp' = [tmp EXCEPT ![TempOf(c)] = NoTemp]
              /\ UNCHANGED litter
         ELSE GiveUp(c) /\ UNCHANGED <<disk, dirty>>
      /\ Answer(c)
      /\ UNCHANGED <<there, bounds>>

(***************************************************************************)
(* object_put, fs_write_file_text, fs_delete_file: plain files             *)
(***************************************************************************)
\* An object that is there is not written again.
OpenPlain(c) ==
  LET p == cmd[c].path
  IN  /\ pc[c] = "body"
      /\ cmd[c].op \in {"put", "write"}
      /\ IF cmd[c].op = "put" /\ disk[p] # Missing
         THEN Answer(c)
         ELSE Go(c, "body", "open") /\ UNCHANGED locals
      /\ UNCHANGED <<files, bounds>>

\* fs::write truncates, then writes.
TruncatePlain(c) ==
  /\ Go(c, "open", "plain")
  /\ disk' = [disk EXCEPT ![cmd[c].path] = Empty]
  /\ dirty' = dirty \cup {cmd[c].path}
  /\ UNCHANGED <<there, tmp, litter, locals, bounds>>

WritePlain(c) ==
  /\ pc[c] = "plain" /\ Answer(c)
  /\ disk' = [disk EXCEPT ![cmd[c].path] = Whole(cmd[c].arg)]
  /\ UNCHANGED <<there, dirty, tmp, litter, bounds>>

PlainFails(c) ==
  /\ pc[c] = "plain" /\ crashes + fails < MaxTroubles /\ fails' = fails + 1
  /\ Answer(c)
  /\ disk' = [disk EXCEPT ![cmd[c].path] = Cut]
  /\ UNCHANGED <<there, dirty, tmp, litter, calls, crashes>>

DeleteFile(c) ==
  /\ cmd[c].op = "erase" /\ pc[c] = "body" /\ Answer(c)
  /\ disk' = [disk EXCEPT ![cmd[c].path] = Missing]
  /\ dirty' = dirty \ {cmd[c].path}
  /\ UNCHANGED <<there, tmp, litter, bounds>>

(***************************************************************************)
(* The machine stops and the backend starts again                          *)
(***************************************************************************)
Crash ==
  /\ crashes + fails < MaxTroubles /\ crashes' = crashes + 1
  /\ \E cut \in SUBSET dirty :
       disk' = [p \in Paths |-> IF p \in cut /\ disk[p].st = "whole" THEN Cut ELSE disk[p]]
  /\ dirty' = {}
  /\ litter' = litter \cup ({tmp[c].at : c \in Callers} \ {None})
  /\ tmp' = [c \in Callers |-> NoTemp]
  /\ pc' = [c \in Callers |-> "idle"]
  /\ cmd' = [c \in Callers |-> NoCmd]
  /\ seen' = [c \in Callers |-> {}]
  /\ text' = [c \in Callers |-> <<>>]
  /\ todo' = [c \in Callers |-> {}]
  /\ UNCHANGED <<there, calls, fails>>

Step(c) ==
  \/ Begin(c) \/ Ensure(c) \/ SeedDir(c) \/ SeedWrite(c) \/ SeedFails(c) \/ Refuse(c)
  \/ ReadNames(c) \/ ReadOrder(c) \/ ListPresets(c) \/ ReorderPresets(c)
  \/ CopyPreset(c) \/ CopyDir(c) \/ CopyFile(c) \/ Copied(c) \/ RenamePreset(c)
  \/ DeletePreset(c) \/ RemoveDir(c)
  \/ SyncSettings(c) \/ SyncDocument(c) \/ SyncLabel(c)
  \/ CreateTemp(c) \/ FillTemp(c) \/ SyncTemp(c) \/ WriteFails(c) \/ RenameTemp(c)
  \/ OpenPlain(c) \/ TruncatePlain(c) \/ WritePlain(c) \/ PlainFails(c) \/ DeleteFile(c)

Next == Crash \/ \E c \in Callers : Step(c)
Spec == Init /\ [][Next]_vars

(***************************************************************************)
(* Properties                                                              *)
(***************************************************************************)
Stages == {"idle", "ensure", "seed", "seedwrite", "body", "order", "listed", "copy", "copying",
           "rename", "rmdir", "write", "fill", "sync", "publish", "open", "plain"}
Writing == {"write", "fill", "sync", "publish"}

\* Every variable has its type, and a temporary file has a writer.
TypeOK ==
  /\ there \subseteq Names /\ dirty \subseteq Paths /\ litter \subseteq Names \cup {Base}
  /\ \A p \in Paths : disk[p].st \in {"none", "empty", "cut", "whole"}
  /\ pc \in [Callers -> Stages] /\ cmd \in [Callers -> Asked \cup {NoCmd}]
  /\ seen \in [Callers -> SUBSET Names]
  /\ \A c \in Callers :
       /\ todo[c] \subseteq SeedNames \cup PresetFiles \cup {"temp"}
       /\ tmp[c].at # None => pc[c] \in Writing
  /\ calls \in 0..MaxCalls /\ crashes \in Nat /\ fails \in Nat /\ crashes + fails <= MaxTroubles

\* A reader never sees half a document, whatever writers meet on it, wherever
\* a write fails and whenever the machine stops: what write_file_atomic
\* writes is missing or whole.
ConfWhole == \A p \in Atomic : disk[p].st \in {"none", "whole"}

\* However far preset_order.conf and the directories have drifted apart, no
\* list hides a preset that was read, repeats one or names one that is gone;
\* the same holds of the order that is written.
ListComplete ==
  \A c \in Callers :
    pc[c] = "listed" \/ (cmd[c].op = "reorder" /\ pc[c] \in Writing) =>
      /\ ToSet(text[c]) = seen[c]
      /\ Len(text[c]) = Cardinality(seen[c])

\* Once there are presets the first seed is one of them, whatever is deleted,
\* renamed, copied, failed or lost: an ensure that looks at the root from then
\* on does not seed.  One that saw it empty before still may: NeverSeededOver.
SeededForGood ==
  /\ there # {} => Seeds[1] \in there
  /\ \A c \in Callers : pc[c] \in {"body", "listed", "write"} /\ cmd[c].op \in Lists => there # {}

\* A write that fails leaves nothing in the base directory: a temporary file
\* stays there only when the machine stopped under its writer.
NothingLeftBehind == Base \in litter => crashes > 0

\* objects.rs: objects are written once and never modified.
WrittenOnce ==
  [][disk[<<Base, "object">>].st = "whole" => disk'[<<Base, "object">>] = disk[<<Base, "object">>]]_vars

(***************************************************************************)
(* What comments say, and the code does not do.                            *)
(***************************************************************************)
\* dirs.rs, ensure: "Once seeded, the seeds are regular presets", and "seeding
\* never runs again on a non-empty root".  So what was saved in a preset is
\* not replaced by the defaults.
NeverSeededOver ==
  [][\A c \in Callers, n \in Names :
       LET saved == disk[<<n, "settings">>]
       IN  SeedDir(c) /\ saved.st = "whole" /\ saved.v # Fresh
             => disk'[<<n, "settings">>] = saved]_vars
=============================================================================
