----------------------------- MODULE CoreLaunch -----------------------------
(***************************************************************************)
(* How a core is found and started: what the build puts next to the        *)
(* application (build.rs), which alayacore is run, with what arguments and *)
(* what PATH (alayacore.rs), and the base directory given on the command   *)
(* line (main.rs).                                                         *)
(***************************************************************************)
EXTENDS Integers, Sequences, FiniteSets, SequencesExt

\* A file is absent, a stub of no bytes, or real; a path in a variable may
\* also be a directory.
Runs(f) == f = "real"
File == {"absent", "stub", "real"}

\* Where a core, and ripgrep, could be: beside the application, in the
\* variable, on PATH, in the usual places.  A file is in a directory.
Machine ==
  {m \in [dest : File, dir : BOOLEAN, env : File \cup {"directory"}, which : {"absent", "real"},
          candidate : {"absent", "real"}, installed : BOOLEAN, rgDest : File, rgOnPath : BOOLEAN] :
     m.dest # "absent" \/ m.rgDest # "absent" => m.dir}

\* What a session is started with, and an argument of the application.
Options ==
  {o \in [config : STRING, session : STRING, confirm : STRING, tools : SUBSET STRING,
          system : STRING, reasoning : Int] : \A s, t \in o.tools : s = t}
Argument == [is : {"flag", "joined", "other"}, value : STRING]

(***************************************************************************)
(* build.rs                                                                *)
(***************************************************************************)
\* find_alayacore: ALAYACORE_BIN if it is a file, `which`, or one of the
\* usual places.
FindAlayacore(m) == m.env \in {"real", "stub"} \/ m.which = "real" \/ m.candidate = "real"

BundleAlayacore_Once(m) ==
  IF m.dest # "absent" THEN m.dest ELSE IF FindAlayacore(m) /\ m.dir THEN "real" ELSE "stub"
\* bundle_alayacore: a file with bytes in it stays.  The copy needs the
\* directory; without it, or without anything to copy, the stub is written,
\* and its directory with it.
BundleAlayacore(m) ==
  IF m.dest = "real" THEN "real"
  ELSE IF FindAlayacore(m) /\ m.dir THEN (IF m.env = "stub" THEN "stub" ELSE "real")
  ELSE "stub"
\* bundle_ripgrep: the same, from PATH alone.
BundleRipgrep(m) == IF m.rgDest = "real" \/ (m.rgOnPath /\ m.dir) THEN "real" ELSE "stub"

\* main: the first of the two makes the directory.
Build(m) ==
  LET n == [m EXCEPT !.dest = BundleAlayacore(m), !.dir = TRUE]
  IN  [n EXCEPT !.rgDest = BundleRipgrep(n)]

(***************************************************************************)
(* find_binary                                                             *)
(***************************************************************************)
\* bundled_binary_path: next to the executable, if that has a directory.
Bundled(m) == IF m.installed THEN m.dest ELSE "absent"

FindBinary_AnyBundled(m) == IF Bundled(m) # "absent" THEN "bundled" ELSE "path"
\* The first that is there: a stub next to the executable is not taken.  The
\* variable may name anything that exists.
FindBinary(m) ==
  CASE Bundled(m) = "real" -> "bundled"
    [] Bundled(m) # "real" /\ m.env # "absent" -> "env"
    [] Bundled(m) # "real" /\ m.env = "absent" /\ m.which # "absent" -> "which"
    [] Bundled(m) # "real" /\ m.env = "absent" /\ m.which = "absent" /\ m.candidate # "absent" -> "candidate"
    [] OTHER -> "path"

Found(m, where) ==
  CASE where = "bundled" -> Bundled(m)
    [] where = "env" -> m.env
    [] where = "which" -> m.which
    [] where = "candidate" -> m.candidate
    [] OTHER -> "absent"

\* prepend_rg_to_path: the directory of the core, if a real rg is in it.
PathOf(m) == IF FindBinary(m) = "bundled" /\ m.rgDest = "real" THEN <<"bundle", "inherited">> ELSE <<"inherited">>

(***************************************************************************)
(* spawn                                                                   *)
(***************************************************************************)
\* An option that is not set, and the value of a flag that has none.
NoValue == ""
Flag(name, value) == <<[flag |-> name, value |-> value]>>
\* An empty option is left out, but an empty list of tools is a list: it
\* is absent, or a set of one.
Argv(o) ==
  Flag("rawio", NoValue)
  \o (IF o.config # NoValue THEN Flag("config-path", o.config) ELSE <<>>)
  \o (IF o.session # NoValue THEN Flag("session", o.session) ELSE <<>>)
  \o (IF o.confirm # NoValue THEN Flag("tool-confirm", o.confirm) ELSE <<>>)
  \o (IF o.tools # {} THEN Flag("builtin-tools", CHOOSE t \in o.tools : TRUE) ELSE <<>>)
  \o (IF o.system # NoValue THEN Flag("system", o.system) ELSE <<>>)
  \o (IF o.reasoning \in 0..2 THEN Flag("reasoning-level", o.reasoning) ELSE <<>>)

(***************************************************************************)
(* main                                                                    *)
(***************************************************************************)
\* --config-path <v> and --config-path=<v>: the last one counts, and one
\* without a value ends the program.
Override(args) ==
  LET step(r, a) ==
        CASE r.next -> [r EXCEPT !.path = {a.value}, !.next = FALSE]
          [] ~r.next /\ a.is = "flag" -> [r EXCEPT !.next = TRUE]
          [] ~r.next /\ a.is = "joined" -> [r EXCEPT !.path = {a.value}]
          [] OTHER -> r
      after[i \in 0..Len(args)] ==
        IF i = 0 THEN [path |-> {}, next |-> FALSE] ELSE step(after[i - 1], args[i])
      end == after[Len(args)]
  IN  [runs |-> ~end.next, path |-> end.path]
=============================================================================
