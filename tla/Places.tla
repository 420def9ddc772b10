------------------------------- MODULE Places -------------------------------
(***************************************************************************)
(* Names and paths: where a session lives (dirs.rs), what a preset or an   *)
(* object may be called (dirs.rs, commands/objects.rs), and the file       *)
(* browser (commands/fs.rs).  An absolute path is the sequence of its      *)
(* components, a name the sequence of its characters.  There are no        *)
(* symbolic links.                                                         *)
(***************************************************************************)
EXTENDS Documents

CONSTANTS
  Home,        \* $HOME
  Cwd,         \* the working directory of the backend
  Existing,    \* the directories that exist
  LongName     \* the longest name a preset may have

Name == Seq(STRING)
Path == Seq(Name)
Dots == {<<".">>, <<".", ".">>}

\* The home and the working directory, which the system names, have no dots.
ASSUME PlacesAssumption ==
  /\ Home \in Path /\ ToSet(Home) \cap Dots = {}
  /\ Cwd \in Path /\ ToSet(Cwd) \cap Dots = {} /\ Existing \subseteq Path
  /\ LongName \in Nat

(***************************************************************************)
(* Names                                                                   *)
(***************************************************************************)
Plain == {"a", "b", "-", "_"}
Separators == {"/", "back", "nul"}

ValidPresetName(n) == n # <<>> /\ Len(n) <= LongName /\ ToSet(n) \subseteq Plain

SanitizeDirComponent_Drops(n) == SelectSeq(n, LAMBDA c : c \in Plain)
SanitizeDirComponent(n) ==
  IF n = <<>> THEN <<"p">> ELSE [i \in DOMAIN n |-> IF n[i] \in Plain THEN n[i] ELSE "_"]

SafePathComponent(n) == n \notin {<<>>} \cup Dots /\ ToSet(n) \cap Separators = {}

(***************************************************************************)
(* Where a session is                                                      *)
(***************************************************************************)
\* What a client says of where a session comes from: a name, or an absolute
\* path by its components, of which "." is none but ".." is one.
Origin ==
  [bare : {TRUE}, name : {n \in Name : ToSet(n) \cap {"/", "back"} = {}}]
  \cup [bare : {FALSE}, path : Seq(Name \ {<<".">>})]

SessionsRoot == Home \o << <<"base">>, <<"sessions">> >>

ResolveOriginSessionDir_Bare(origin) == IF origin.bare THEN <<origin.name>> ELSE origin.path
\* resolve_origin_session_dir: the client hands back a bare id, the real
\* directory, or nothing.
ResolveOriginSessionDir(origin) ==
  IF ~origin.bare THEN origin.path
  ELSE SessionsRoot \o IF Trim(origin.name) \in {<<>>, <<".">>} THEN <<>> ELSE <<Trim(origin.name)>>

\* contained_under: strip_prefix compares the components as they are written.
ContainedUnder(root, path) == Len(path) > Len(root) /\ SubSeq(path, 1, Len(root)) = root

\* session_path: one rule for create, resume, fork and delete; {} refuses.
SessionPath(origin, plan, node, id) ==
  IF ~SafePathComponent(id) THEN {}
  ELSE IF IsBlank(plan) THEN {SessionsRoot \o <<id>>}
  ELSE {p \in {ResolveOriginSessionDir(origin)
                 \o << <<"plans">>, SanitizeDirComponent(plan), SanitizeDirComponent(node), id>>} :
          ContainedUnder(SessionsRoot, p)}

(***************************************************************************)
(* What the file browser resolves and lists                                *)
(***************************************************************************)
\* set_override, alayaface_dir and expand_home: the directory given on the
\* command line, if it is one, or else the one below the home directory.
ExpandHome(p) == IF p.from = "home" THEN Home \o p.rest ELSE p.rest
AlayafaceDir(override) ==
  LET given == {p \in override : p.from # "empty"}
  IN  IF given = {} THEN Home \o << <<"base">> >> ELSE ExpandHome(CHOOSE p \in given : TRUE)

\* normalize_path: where component c leads from out, and where a path ends.
Entered(out, c) ==
  IF c = <<".", ".">> THEN IF out = <<>> THEN <<>> ELSE Front(out)
  ELSE IF c = <<".">> THEN out ELSE Append(out, c)
Normalized(p) ==
  LET upTo[i \in 0..Len(p)] == IF i = 0 THEN <<>> ELSE Entered(upTo[i - 1], p[i])
  IN  upTo[Len(p)]

\* Path::join: an absolute path takes the place of what it is joined to.
Join(base, rest, absolute) == IF absolute THEN rest ELSE base \o rest

\* A path as the client writes it: below "~", absolute, or neither.
Written == [from : {"home", "root", "here"}, rest : Path]

\* What follows the tilde of "~/x" starts with a slash.
Located(p) ==
  CASE p.from = "home" -> Join(Home, p.rest, p.rest # <<>>)
    [] p.from = "root" -> p.rest
    [] OTHER -> Join(Cwd, p.rest, FALSE)

\* canonicalize walks the path as it is written: every step has to be there.
Walked(p) == \A i \in DOMAIN p : Normalized(SubSeq(p, 1, i)) \in Existing

\* fs_resolve_path.  What cannot be walked is normalized, a relative path once
\* more below the working directory.
FsResolvePath(p) ==
  LET resolved == Located(p)
  IN  IF p.from = "here" /\ ~Walked(resolved) THEN Join(Cwd, Normalized(resolved), FALSE)
      ELSE Normalized(resolved)

\* check_file_size, in MiB: 64 for a data URI, 16 for a text.  A file that
\* grows after the look is read whole.
MaxDataUri == 64
MaxText == 16
FileSeen == [there : BOOLEAN, size : Nat, text : BOOLEAN]
ReadFile(f, limit) == IF f.there /\ f.size <= limit THEN {f.size} ELSE {}
FsReadFileDataUri(f) == ReadFile(f, MaxDataUri)
FsReadFileText(f) == IF f.text THEN ReadFile(f, MaxText) ELSE {}

HashLength == 2
\* valid_object_hash and object_get: a digest in lower case, and nothing that
\* is a path.
ValidObjectHash(h) == Len(h) = HashLength /\ ToSet(h) \subseteq {"a", "b", "0"}
ObjectPath(h) == IF ValidObjectHash(h) THEN {Home \o << <<"base">>, <<"objects">>, h, <<"content">> >>} ELSE {}

\* An entry is a name, as it sorts, and whether it is a directory.
Entry(n, d) == [name |-> n, isDir |-> d]
\* What a directory holds: no two entries sort alike (of two names that differ
\* in case only, the capital comes first).
IsListing(S) ==
  /\ IsFiniteSet(S) /\ S \subseteq [name : Nat \ {0}, isDir : BOOLEAN]
  /\ \A x, y \in S : x.name = y.name => x = y
\* The k-th entry is the one that k - 1 entries precede.
Sorted(S) ==
  [k \in 1..Cardinality(S) |-> CHOOSE e \in S : Cardinality({x \in S : x.name < e.name}) = k - 1]
FsListDir_FilesOnly(root, S) ==
  (IF root THEN <<>> ELSE <<Entry(0, TRUE)>>) \o Sorted({e \in S : ~e.isDir})
\* fs_list_dir: the way up first (0), but not from the root; then the
\* directories, then the files.  A directory that is not there is empty.
FsListDir(root, S) ==
  (IF root THEN <<>> ELSE <<Entry(0, TRUE)>>)
  \o Sorted({e \in S : e.isDir}) \o Sorted({e \in S : ~e.isDir})
=============================================================================
