----------------------------- MODULE Documents -----------------------------
(***************************************************************************)
(* What the configuration documents mean: how each is checked before it is *)
(* written, what is written, and what a reader makes of it.  settings.conf *)
(* (commands/settings.rs), mcp.conf (commands/mcp.rs), asr.conf            *)
(* (commands/asr.rs), ui.conf (commands/ui_config.rs), global.conf         *)
(* (commands/global_config.rs), session labels (commands/label.rs,         *)
(* dirs.rs), the core's runtime.conf (commands/models.rs) and the version  *)
(* in a session file's header (alayacore.rs).  How the files are written   *)
(* is ConfigStore's subject.  A text is a sequence of characters only      *)
(* where quoting matters.  What may be absent, or refused, is a set of at  *)
(* most one value.                                                         *)
(***************************************************************************)
EXTENDS Integers, Sequences, FiniteSets, SequencesExt

CONSTANTS
  Texts,       \* texts up to the bound, over " ", "a", QUOTE, BACKSLASH and NEWLINE
  MaxLabel,    \* MAX_LABEL_CHARS
  MaxWindows   \* MAX_STORED_WINDOWS

ASSUME DocumentsAssumption ==
  MaxLabel \in Nat /\ MaxWindows \in Nat /\ Texts \subseteq Seq(STRING)

QUOTE == "quote"
BACKSLASH == "backslash"
NEWLINE == "newline"
SPACE == " "
Empty == ""
Text == Seq(STRING)

\* What may be absent.
AtMostOne(S) == {x \in SUBSET S : \A a, b \in x : a = b}

\* The items of s at the places in I, in their order.
Picked(s, I) ==
  [k \in 1..Cardinality(I) |-> s[CHOOSE i \in I : Cardinality({j \in I : j < i}) = k - 1]]

IsBlank(t) == ToSet(t) \subseteq {SPACE, NEWLINE}
Trim(t) ==
  LET solid == {i \in DOMAIN t : t[i] \notin {SPACE, NEWLINE}}
  IN  IF solid = {} THEN <<>>
      ELSE SubSeq(t, CHOOSE i \in solid : \A j \in solid : i <= j,
                     CHOOSE i \in solid : \A j \in solid : j <= i)

(***************************************************************************)
(* settings.conf                                                           *)
(***************************************************************************)
\* A comma-separated list is the sequence of its trimmed parts.
Spaced == "t 1"
SettingsFile == [tools : Seq(STRING), level : AtMostOne(Int)]
SettingsGiven == [tools : AtMostOne(Seq(STRING)), level : AtMostOne(Int)]

Filled(parts) == Picked(parts, {i \in DOMAIN parts : parts[i] # Empty})
NormalizeToolConfirm(parts) ==
  LET ids == Filled(parts)
  IN  IF Spaced \in ToSet(ids) \/ Cardinality(ToSet(ids)) < Len(ids) THEN {} ELSE {ids}

NormalizeReasoningLevel(n) == {n} \cap 0..2
EffectiveReasoningLevel(n) == IF n \in 0..2 THEN n ELSE 1

MergeSettings_Replaces(cur, new) ==
  {[tools |-> t, level |-> n] :
     t \in UNION {NormalizeToolConfirm(x) : x \in new.tools},
     n \in IF new.level = {} THEN {{}} ELSE {NormalizeReasoningLevel(x) : x \in new.level} \ {{}}}

\* sync_global_settings: a field that is absent keeps its value.
MergeSettings(cur, new) ==
  {[tools |-> t, level |-> n] :
     t \in IF new.tools = {} THEN {cur.tools} ELSE UNION {NormalizeToolConfirm(x) : x \in new.tools},
     n \in IF new.level = {} THEN {cur.level} ELSE {NormalizeReasoningLevel(x) : x \in new.level} \ {{}}}

\* get_global_settings and the effective_ functions: a file edited by hand
\* may hold what no sync would write.
GetSettings(s) ==
  {[tools |-> t, level |-> IF s.level = {} THEN 1 ELSE EffectiveReasoningLevel(CHOOSE n \in s.level : TRUE)] :
     t \in NormalizeToolConfirm(s.tools)}

(***************************************************************************)
(* mcp.conf                                                                *)
(***************************************************************************)
\* serde_json::to_string of a string.
Escape(c) ==
  CASE c \in {QUOTE, BACKSLASH} -> <<BACKSLASH, c>>
    [] c = NEWLINE -> <<BACKSLASH, "n">>
    [] OTHER -> <<c>>
Escaped(t) == FlattenSeq([i \in DOMAIN t |-> Escape(t[i])])
JsonString(t) == <<QUOTE>> \o Escaped(t) \o <<QUOTE>>

Quoted(t) == Len(t) >= 2 /\ t[1] = QUOTE /\ Last(t) = QUOTE
\* unquote takes the quotes and leaves the escapes.
Unquote(s) == LET t == Trim(s) IN IF Quoted(t) THEN SubSeq(t, 2, Len(t) - 1) ELSE t

ConfOrder == <<"server", "url", "command", "args", "env", "auth_type", "auth_token",
               "auth_client_id", "auth_client_secret", "proto_version">>

\* args and env are written as they are, here line by line.  A line that is a
\* rule or the name of a key is a line of the file like any other.  JSON is one
\* line, or two of which the first is no JSON by itself; blank lines are left out.
RawKeys == {"args", "env"}
RULE == "---"
Unset == <<>>
OneLine == <<"json">>
TwoLines == <<"open", "rest">>

\* A server is a function from the keys it has.
IsServer(s) == s \in [DOMAIN s -> Text] /\ DOMAIN s \subseteq ToSet(ConfOrder)
IsServerList(l) == l \in Seq(ToSet(l)) /\ \A s \in ToSet(l) : IsServer(s)
Has(s, k) == k \in DOMAIN s
FieldOf(s, k) == IF Has(s, k) THEN s[k] ELSE <<>>
\* URL, or else command: the same in parse_mcp_conf and sync_default_mcp.
IsHttp(s) == ~IsBlank(FieldOf(s, "url"))

\* validate_json_field
JsonField(s, k) == FieldOf(s, k) \in {Unset, OneLine, TwoLines}

AcceptsServer(s) ==
  /\ ~IsBlank(FieldOf(s, "server"))
  /\ IF IsHttp(s)
     THEN CASE Trim(FieldOf(s, "auth_type")) = <<"code">> ->
                 ~IsBlank(FieldOf(s, "auth_client_id")) /\ ~IsBlank(FieldOf(s, "auth_client_secret"))
            [] Trim(FieldOf(s, "auth_type")) = <<"static">> -> ~IsBlank(FieldOf(s, "auth_token"))
            [] OTHER -> TRUE
     ELSE ~IsBlank(FieldOf(s, "command")) /\ JsonField(s, "args") /\ JsonField(s, "env")

\* sync_default_mcp
AcceptsServers(servers) ==
  /\ \A i \in DOMAIN servers : AcceptsServer(servers[i])
  /\ \A i, j \in DOMAIN servers :
       i # j => Trim(servers[i]["server"]) # Trim(servers[j]["server"])

\* The fields that are written: those that are not empty, and the name.
HasLine(s, k) == Has(s, k) /\ (s[k] # <<>> \/ k = "server")
KeysOf(s) == Picked(ConfOrder, {n \in DOMAIN ConfOrder : HasLine(s, ConfOrder[n])})

WriteMcpConf_Unquoted(servers) ==
  [i \in DOMAIN servers |->
     LET s == servers[i]
         keys == KeysOf(s)
     IN  [n \in DOMAIN keys |-> [key |-> keys[n], text |-> s[keys[n]]]]]

\* write_mcp_conf: a block for each server, a line for each field.
WriteMcpConf(servers) ==
  [i \in DOMAIN servers |->
     LET s == servers[i]
         keys == KeysOf(s)
     IN  [n \in DOMAIN keys |->
            [key |-> keys[n],
             text |-> IF keys[n] \in RawKeys THEN s[keys[n]] ELSE JsonString(s[keys[n]])]]]

\* A line ends at its NEWLINE; what follows has no key of the format.
FirstLine(l) ==
  IF l.key \in RawKeys THEN SubSeq(l.text, 1, 1)
  ELSE IF NEWLINE \in ToSet(l.text)
       THEN SubSeq(l.text, 1, (CHOOSE i \in DOMAIN l.text :
                                 l.text[i] = NEWLINE /\ \A k \in 1..(i - 1) : l.text[k] # NEWLINE) - 1)
       ELSE l.text

\* The lines that are read where l was written.
Stray(c) == [key |-> c, text |-> <<"x">>]
LinesOf(l) ==
  <<[key |-> l.key, text |-> FirstLine(l)]>>
  \o IF l.key \notin RawKeys THEN <<>>
     ELSE LET strays == Picked(l.text, {n \in DOMAIN l.text : n > 1 /\ l.text[n] \in {RULE} \cup ToSet(ConfOrder)})
          IN  [n \in DOMAIN strays |-> Stray(strays[n])]

\* Where a rule among them splits the block.
Pieces(lines) ==
  LET rules == {n \in DOMAIN lines : lines[n].key = RULE}
      Before(n) == Cardinality({m \in rules : m < n})
  IN  [j \in 1..(Cardinality(rules) + 1) |-> Picked(lines, {n \in DOMAIN lines \ rules : Before(n) = j - 1})]

\* parse_mcp_conf: of two lines of a key the later counts, and a block is a
\* server if it has a name.
ServerIn(piece) ==
  [k \in {piece[n].key : n \in DOMAIN piece} |->
     LET places == {n \in DOMAIN piece : piece[n].key = k}
         l == piece[CHOOSE n \in places : \A m \in places : m <= n]
     IN  IF k \in RawKeys THEN l.text ELSE Unquote(l.text)]
ParseMcpConf(blocks) ==
  LET PiecesOf(b) == Pieces(FlattenSeq([n \in DOMAIN b |-> LinesOf(b[n])]))
      read == FlattenSeq([i \in DOMAIN blocks |-> PiecesOf(blocks[i])])
      named == Picked(read, {i \in DOMAIN read : \E n \in DOMAIN read[i] : read[i][n].key = "server"})
  IN  [i \in DOMAIN named |-> ServerIn(named[i])]

(***************************************************************************)
(* runtime.conf                                                            *)
(***************************************************************************)
Decoded(t) == {v \in Texts : JsonString(v) = t}
\* read_active_model_name: unlike unquote it decodes.
ActiveModelName(value) ==
  LET t == Trim(value)
  IN  IF t # <<>> /\ t[1] = QUOTE /\ Last(t) = QUOTE /\ Decoded(t) # {}
      THEN CHOOSE v \in Decoded(t) : TRUE ELSE t

(***************************************************************************)
(* asr.conf                                                                *)
(***************************************************************************)
Profile == [id : Text, protocol : STRING, model : Text, url : Text]
AsrFile == [profiles : Seq(Profile), active : Text]

StepAudioModel == <<"stepaudio-2.5-asr">>
WhisperModel == <<"whisper-1">>
DefaultAsrModel_One(protocol) == WhisperModel
DefaultAsrModel(protocol) == IF protocol = "step_audio" THEN StepAudioModel ELSE WhisperModel

\* A uuid, another for each profile.
FreshId(i) == [k \in 1..i |-> "uuid"]
NormalizeProfile(p, i) ==
  LET protocol == IF p.protocol \in {"chat_completions", "step_audio"} THEN p.protocol
                  ELSE "transcriptions"
  IN  [p EXCEPT !.id = IF IsBlank(@) THEN FreshId(i) ELSE @,
                !.protocol = protocol,
                !.model = IF IsBlank(@) THEN DefaultAsrModel(protocol) ELSE @]

\* The active id is kept as it is if it is one of them when it is trimmed.
NormalizeAsrConfig(c) ==
  LET ps == [i \in DOMAIN c.profiles |-> NormalizeProfile(c.profiles[i], i)]
      ids == {ps[i].id : i \in DOMAIN ps}
  IN  [profiles |-> ps,
       active |-> IF ~IsBlank(c.active) /\ Trim(c.active) \in ids THEN c.active
                  ELSE IF ps = <<>> THEN <<>> ELSE ps[1].id]

\* The first with that id as it is, or the first; none without profiles.
ActiveProfile(c) ==
  LET found == {i \in DOMAIN c.profiles : c.profiles[i].id = c.active}
  IN  IF c.profiles = <<>> THEN {}
      ELSE {c.profiles[IF found = {} THEN 1 ELSE CHOOSE i \in found : \A j \in found : i <= j]}

(***************************************************************************)
(* ui.conf, global.conf and labels                                         *)
(***************************************************************************)
\* A version is a number, an integer or one written with a fraction (1.0 is
\* two halves), or anything else; the windows have a count or are no object.
UiDocument ==
  [object : BOOLEAN, version : AtMostOne([other : BOOLEAN, halves : Int, float : BOOLEAN]),
   windows : AtMostOne([other : BOOLEAN, count : Nat])]
UiRejects(d) ==
  \/ ~d.object
  \/ \E v \in d.version : v.other \/ v.halves % 2 # 0 \/ v.halves \div 2 < 1
  \/ \E w \in d.windows : w.other \/ w.count > MaxWindows

\* get_ui_config: as_i64 of a number with a fraction is none.
UiVersion(d) ==
  IF \E v \in d.version : ~v.other /\ ~v.float
  THEN (CHOOSE v \in d.version : TRUE).halves \div 2 ELSE 1

\* read_ui_config never fails.
GetUi(d) == IF d.object THEN [version |-> UiVersion(d), config |-> {d}]
            ELSE [version |-> 1, config |-> {}]

DefaultRecursionLimit == 8
NormalizeRecursionLimit(n) == IF n < 1 THEN DefaultRecursionLimit ELSE n

\* A label document has a label or none (nor has what is no object), which
\* is a string of some characters, blank or not, or something else.
LabelDocument == [label : AtMostOne([other : BOOLEAN, chars : Nat, blank : BOOLEAN])]
LabelRejects(d) == d.label = {} \/ \E l \in d.label : l.other \/ l.chars > MaxLabel
LabelRemoves(d) == \A l \in d.label : l.blank

ReadLabel_Bytes(d) == {l \in d.label : ~l.other /\ ~l.blank /\ 3 * l.chars <= MaxLabel}
\* read_session_label, of whatever the file holds: it never fails.
ReadLabel(d) == {l \in d.label : ~l.other /\ ~l.blank /\ l.chars <= MaxLabel}

(***************************************************************************)
(* The header of a session file                                            *)
(***************************************************************************)
Supported == 17
\* Lines of the file: "---", a version, another key, a frame.
HeadOfFile ==
  [fenced : {TRUE}, keys : Seq({"v16", "v17", "vjunk", "key"}), body : Seq(STRING)]
  \cup [fenced : {FALSE}, keys : {<<>>}, body : {b \in Seq(STRING) : b = <<>> \/ b[1] # "---"}]
Version(lines, keys) ==
  LET k == CHOOSE i \in keys : \A j \in keys : i <= j
  IN  IF keys = {} THEN {}
      ELSE CASE lines[k] = "v17" -> {17} [] lines[k] = "v16" -> {16} [] OTHER -> {}
Keys(lines) == {i \in DOMAIN lines : lines[i] \in {"v16", "v17", "vjunk"}}

FileVersion_Anywhere(lines) == Version(lines, Keys(lines))

\* session_file_message_version: only between the two rules.
FileVersion(lines) ==
  LET closing == {i \in DOMAIN lines : i > 1 /\ lines[i] = "---"}
      header == {k \in Keys(lines) : lines[1] = "---" /\ \A i \in closing : k < i}
  IN  Version(lines, header)

\* session_file_rejection: the core decides about what is unknown.
FileRejected(lines) == FileVersion(lines) \ {Supported} # {}
=============================================================================
