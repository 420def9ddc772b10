------------------------------- MODULE Codecs -------------------------------
(***************************************************************************)
(* The functions of the desktop backend that turn one thing into another,  *)
(* checked on every small input: a behavior is either one stream of frames *)
(* (FrameStream) or one sample given to a conversion of Documents, Speech, *)
(* Places or CoreLaunch, which have no state of their own.                 *)
(***************************************************************************)
EXTENDS FrameStream, Speech, Places, CoreLaunch

CONSTANT Samples

\* What each conversion is given.
\* Lines of an answer that say nothing, and the end of one: nothing, a word
\* that it is over, all of the text again, or an error.
IsNoise(l) ==
  l \in Seq(AnswerLine) /\ \A i \in DOMAIN l : l[i].is \notin {"delta", "message", "done", "error", "[DONE]"}
IsEnd(l, words) ==
  /\ l \in Seq(AnswerLine) /\ Len(l) <= 1
  /\ \A i \in DOMAIN l :
       /\ l[i].is \in {"done", "error", "[DONE]"}
       /\ l[i].is = "done" => IsBlank(l[i].text) \/ l[i].text = FlattenSeq(words)

ASSUME SamplesAssumption ==
  \A s \in Samples :
    /\ s.is = "settings" => s.cur \in SettingsFile /\ s.new \in SettingsGiven
    /\ s.is = "mcp" => IsServerList(s.servers)
    /\ s.is = "model" => s.text \in Texts
    /\ s.is = "asr" => s.config \in AsrFile
    /\ s.is = "ui" => s.doc \in UiDocument
    /\ s.is = "label" => s.doc \in LabelDocument
    /\ s.is = "limit" => s.n \in Int
    /\ s.is = "header" => s.head \in HeadOfFile
    /\ s.is = "stream-text" => s.words \in Seq(Text) /\ IsNoise(s.noise) /\ IsEnd(s.end, s.words)
    /\ s.is = "wav" => IsRecording(s.wav)
    /\ s.is = "call" => /\ s.config \in AsrFile /\ IsRecording(s.wav)
                        /\ s.response \in [success : BOOLEAN, lines : Seq(AnswerLine)]
    /\ s.is = "launch" => s.machine \in Machine
    /\ s.is = "argv" => s.options \in Options
    /\ s.is = "args" => s.args \in Seq(Argument)
    /\ s.is = "session" => s.origin \in Origin /\ s.plan \in Name /\ s.node \in Name /\ s.id \in Name
    /\ s.is = "resolve" => s.path \in Written
    /\ s.is = "list" => s.root \in BOOLEAN /\ IsListing(s.entries)
    /\ s.is = "file" => s.file \in FileSeen
    /\ s.is = "hash" => s.hash \in Name

VARIABLE sample
codecVars == <<vars, sample>>

Stream == [is |-> "stream"]

CodecsInit ==
  \/ Init /\ sample = Stream
  \/ /\ sample \in Samples
     /\ sent = <<>> /\ wire = <<>> /\ buf = <<>> /\ line = <<>> /\ over = "eof"
     /\ pumped = 0 /\ tail = <<>> /\ announced = FALSE /\ events = <<Quote("ConnectionClosed")>>

CodecsNext == sample = Stream /\ Next /\ UNCHANGED sample
CodecsSpec == CodecsInit /\ [][CodecsNext]_codecVars

(***************************************************************************)
(* Configuration documents                                                 *)
(***************************************************************************)
\* What a sync accepts is what a session then gets, field by field, and can be
\* synced again.
SettingsKept(cur, new) ==
  \A m \in MergeSettings(cur, new) :
    /\ new.tools # {} =>
         /\ GetSettings(m) # {}
         /\ \A g \in GetSettings(m) : \A t \in new.tools : g.tools = Filled(t)
    /\ new.tools = {} => (GetSettings(m) = {}) = (GetSettings(cur) = {})
    /\ \A g \in GetSettings(m) :
         /\ \A n \in new.level : g.level = n
         /\ new.level = {} => \A h \in GetSettings([cur EXCEPT !.tools = <<>>]) : g.level = h.level
         /\ MergeSettings(m, [tools |-> {g.tools}, level |-> {g.level}]) =
              {[tools |-> g.tools, level |-> {g.level}]}

\* Texts without quotes, backslashes and line ends, and JSON on one line.
IsSimple(s, k) ==
  IF k \in RawKeys THEN s[k] # TwoLines ELSE ToSet(s[k]) \cap {QUOTE, BACKSLASH, NEWLINE} = {}

\* What sync asks of args and env of a server with a command, and not of one
\* with a URL.
RawsAreJson(s) == \A k \in RawKeys : JsonField(s, k)

\* A URL of white space alone is none, but its escaped line breaks are one.
KindSettled(s) == IsBlank(FieldOf(s, "url")) => NEWLINE \notin ToSet(FieldOf(s, "url"))

\* If args and env of the servers with a URL are JSON too, then whatever the
\* other texts no server is lost, joined with another or, but for such a URL,
\* turned into one of the other kind.  A text comes back with the escapes it
\* was written with, a simple one as it was.
ServersKept(servers) ==
  LET back == ParseMcpConf(WriteMcpConf(servers))
  IN  AcceptsServers(servers) /\ (\A i \in DOMAIN servers : IsHttp(servers[i]) => RawsAreJson(servers[i])) =>
        /\ Len(back) = Len(servers)
        /\ \A i \in DOMAIN servers :
             /\ KindSettled(servers[i]) => IsHttp(back[i]) = IsHttp(servers[i])
             /\ \A k \in DOMAIN servers[i] :
                  /\ k \notin RawKeys => FieldOf(back[i], k) = Escaped(servers[i][k])
                  /\ IsSimple(servers[i], k) => FieldOf(back[i], k) = servers[i][k]
        /\ (\A i \in DOMAIN servers :
              /\ KindSettled(servers[i])
              /\ \A k \in DOMAIN servers[i] \cap RawKeys : servers[i][k] # TwoLines)
             => AcceptsServers(back)

\* Normalizing settles, and an active id is kept; the active profile is the one
\* it names, or the first if there is white space around it.
AsrKept(c) ==
  LET n == NormalizeAsrConfig(c)
  IN  /\ NormalizeAsrConfig(n) = n
      /\ Len(n.profiles) = Len(c.profiles)
      /\ (ActiveProfile(n) = {}) = (n.profiles = <<>>)
      /\ \A p \in ActiveProfile(n) :
           p.id = n.active \/ (p = n.profiles[1] /\ n.active = c.active /\ Trim(n.active) # n.active)
      /\ (\E i \in DOMAIN c.profiles : c.profiles[i].id = Trim(c.active) /\ ~IsBlank(c.active))
           => n.active = c.active
      /\ \A i \in DOMAIN n.profiles :
           LET p == n.profiles[i]
           IN  /\ ~IsBlank(c.profiles[i].model) => p.model = c.profiles[i].model
               /\ IsBlank(c.profiles[i].model) => (p.model = WhisperModel) = (p.protocol # "step_audio")

UiKept(d) ==
  ~UiRejects(d) => /\ GetUi(d).config = {d} /\ GetUi(d).version >= 1
                   /\ \A v \in d.version : ~v.float => 2 * GetUi(d).version = v.halves

LabelKept(d) ==
  /\ ReadLabel(d) # {} => ~LabelRejects(d)
  /\ ~LabelRejects(d) => ReadLabel(d) = IF LabelRemoves(d) THEN {} ELSE d.label

LimitKept(n) ==
  LET limit == NormalizeRecursionLimit(n)
  IN  limit >= 1 /\ NormalizeRecursionLimit(limit) = limit /\ (n >= 1 => limit = n)

\* A header is refused for the version it names, once; a body never is.
HeaderRead(h) ==
  LET lines == (IF h.fenced THEN <<"---">> \o h.keys \o <<"---">> ELSE <<>>) \o h.body
      named == {i \in DOMAIN h.keys : h.keys[i] \in {"v16", "v17", "vjunk"}}
  IN  FileRejected(lines) =
        (h.fenced /\ \E i \in named : h.keys[i] = "v16" /\ \A j \in named : i <= j)

\* What sync accepts is what a session is started with, of mcp.conf as far as
\* ServersKept says; defaults settle at once; a hand-edited file is refused or
\* read within its bounds, never half.
DocumentsSurvive ==
  CASE sample.is = "settings" -> SettingsKept(sample.cur, sample.new)
    [] sample.is = "mcp" -> ServersKept(sample.servers)
    [] sample.is = "model" -> ActiveModelName(JsonString(sample.text)) = sample.text
    [] sample.is = "asr" -> AsrKept(sample.config)
    [] sample.is = "ui" -> UiKept(sample.doc)
    [] sample.is = "label" -> LabelKept(sample.doc)
    [] sample.is = "limit" -> LimitKept(sample.n)
    [] sample.is = "header" -> HeaderRead(sample.head)
    [] OTHER -> TRUE

(***************************************************************************)
(* Voice input                                                             *)
(***************************************************************************)
\* The body a server streams: its words, lines that say nothing between them,
\* and an end of its own, if it comes to one.
Body(r, noise, end) ==
  FlattenSeq([i \in DOMAIN r |-> noise \o <<[is |-> "delta", text |-> r[i]]>>]) \o noise \o end

\* The samples that are sent are the data chunk, cut where the file is.
PayloadExact(wav) ==
  \A w \in WavParams(wav) :
    \E k \in DOMAIN wav.chunks :
      /\ wav.chunks[k].id = "data" /\ \A i \in 1..(k - 1) : wav.chunks[i].id # "data"
      /\ w.from = StartOf(wav.chunks, k) + 8
      /\ w.to - w.from = IF wav.chunks[k].there < wav.chunks[k].size
                         THEN wav.chunks[k].there ELSE wav.chunks[k].size

\* What is asked and answered.  Where no profile names one of the models the
\* code gives, the model is of the protocol.
CallFaithful(config, wav, response) ==
  LET asked == Request(NormalizeAsrConfig(config), wav)
      answer == Transcribe(config, wav, response)
      given == \A i \in DOMAIN config.profiles :
                 Trim(config.profiles[i].model) \notin {StepAudioModel, WhisperModel}
      whole == \A k \in DOMAIN wav.chunks : wav.chunks[k].size > 0 /\ wav.chunks[k].there > 0
  IN  /\ answer.ok => asked # {} /\ response.success
      /\ \A r \in asked :
           /\ r.endpoint.url # <<>>
           /\ given /\ r.endpoint.model = StepAudioModel => r.endpoint.protocol = "step_audio"
           /\ given /\ r.endpoint.model = WhisperModel => r.endpoint.protocol # "step_audio"
           /\ r.from <= r.to /\ (whole => r.from < r.to) /\ r.to <= Length(wav)
           /\ (r.from > 0) = (r.endpoint.protocol = "step_audio")

StreamRead(r, noise, end) ==
  LET words == FlattenSeq(r)
      lines == Body(r, noise, end)
  IN  /\ (\A i \in DOMAIN end : end[i].is # "error")
           => ExtractStepAudioText(lines) = [ok |-> TRUE, text |-> Trim(words)]
      /\ (\E i \in DOMAIN end : end[i].is = "error") => ~ExtractStepAudioText(lines).ok
      /\ words # <<>> => ExtractChatText(lines) = Trim(words)

\* However the endpoint cuts the words, and whatever it says between them, the
\* transcript is all of them; no text comes of a StepAudio stream that reports
\* an error, of a status that is no success, or of an endpoint that was not
\* asked (of a chat_completions stream with an error the words do come).  The
\* default model is of the protocol, and StepAudio is sent the samples alone.
TranscriptWhole ==
  CASE sample.is = "stream-text" -> StreamRead(sample.words, sample.noise, sample.end)
    [] sample.is = "wav" -> PayloadExact(sample.wav)
    [] sample.is = "call" -> CallFaithful(sample.config, sample.wav, sample.response)
    [] OTHER -> TRUE

(***************************************************************************)
(* Names and paths                                                         *)
(***************************************************************************)
\* Where a session's path leads: its id ends it, a plan's session is four levels
\* below where its origin's path leads, and is in the sessions directory if the
\* origin has no "..".  A bare id and the directory it is short for name the
\* same place, and no name of a plan or node leaves its level.
SessionKept(s) ==
  LET from == ResolveOriginSessionDir(s.origin)
      bare == Trim(s.origin.name)
  IN  /\ SafePathComponent(SanitizeDirComponent(s.plan))
      /\ ValidPresetName(s.plan) => SafePathComponent(s.plan) /\ SanitizeDirComponent(s.plan) = s.plan
      /\ \A p \in SessionPath(s.origin, s.plan, s.node, s.id) :
           LET at == Normalized(p)
           IN  /\ at # <<>> /\ Last(at) = s.id
               /\ IsBlank(s.plan) => Front(at) = SessionsRoot
               /\ ~IsBlank(s.plan) =>
                    /\ Len(at) = Len(Normalized(from)) + 4 /\ IsPrefix(Normalized(from), at)
                    /\ ToSet(from) \cap Dots = {} => ContainedUnder(SessionsRoot, at)
      /\ s.origin.bare /\ bare \notin {<<>>, <<".">>} =>
           SessionPath([bare |-> FALSE, path |-> SessionsRoot \o <<bare>>], s.plan, s.node, s.id)
             = SessionPath(s.origin, s.plan, s.node, s.id)

\* Resolving settles and leaves no dots; what has none is where it says, and
\* what can be walked is there.
ResolveSettles(p) ==
  LET r == FsResolvePath(p)
  IN  /\ Dots \cap ToSet(r) = {}
      /\ FsResolvePath([from |-> "root", rest |-> r]) = r
      /\ p.from = "root" /\ Dots \cap ToSet(p.rest) = {} => r = p.rest
      /\ Walked(Located(p)) => r \in {<<>>} \cup Existing
      /\ p.from = "here" /\ Walked(Located(p)) => r = Normalized(Cwd \o p.rest)

\* The list has every entry once, directories first, and the way up exactly
\* where there is one.
ListWhole(root, S) ==
  LET l == FsListDir(root, S)
      shown == IF root THEN l ELSE Tail(l)
  IN  /\ ~root => l # <<>> /\ l[1].name = 0
      /\ Len(shown) = Cardinality(S) /\ ToSet(shown) = S
      /\ \A i, j \in DOMAIN shown : i < j =>
           \/ shown[i].isDir /\ ~shown[j].isDir
           \/ shown[i].isDir = shown[j].isDir /\ shown[i].name < shown[j].name

PathsKept ==
  CASE sample.is = "session" -> SessionKept(sample)
    [] sample.is = "resolve" -> ResolveSettles(sample.path)
    [] sample.is = "list" -> ListWhole(sample.root, sample.entries)
    [] sample.is = "file" ->
         /\ FsReadFileText(sample.file) # {} => FsReadFileDataUri(sample.file) # {}
         /\ \A n \in FsReadFileDataUri(sample.file) : n <= MaxDataUri
    [] sample.is = "hash" ->
         \A p \in ObjectPath(sample.hash) : ToSet(sample.hash) \cap Separators = {}
    [] OTHER -> TRUE

(***************************************************************************)
(* Starting a core                                                         *)
(***************************************************************************)
\* After a build, a second one, or none, the application never starts a stub
\* nor puts one on PATH, starts a core if there is one to be found, unless the
\* variable names something that is no core, and has one in its bundle from
\* the second build on, if the build saw one.
LaunchSound(m) ==
  LET once == Build(m)
      twice == Build(once)
  IN  /\ \A n \in {m, once, twice} :
           LET where == FindBinary(n)
           IN  /\ where = "bundled" => Found(n, where) = "real"
               /\ n.env \in {"absent", "real"} /\ "real" \in {Bundled(n), n.env, n.which, n.candidate}
                    => Runs(Found(n, where))
               /\ "bundle" \in ToSet(PathOf(n)) => n.rgDest = "real" /\ n.installed
      /\ once.dest # "absent" /\ once.rgDest # "absent"
      /\ FindAlayacore(m) /\ m.env # "stub" => twice.dest = "real"
      /\ m.rgOnPath => once.rgDest = "real"
      /\ Build(twice) = twice

\* Every option is on the command line exactly when it is set.
ArgvFaithful(o) ==
  LET argv == Argv(o)
      Values(f) == {argv[i].value : i \in {k \in DOMAIN argv : argv[k].flag = f}}
  IN  /\ Values("builtin-tools") = o.tools
      /\ Values("system") = {o.system} \ {NoValue} /\ Values("tool-confirm") = {o.confirm} \ {NoValue}
      /\ Values("config-path") = {o.config} \ {NoValue} /\ Values("session") = {o.session} \ {NoValue}
      /\ Values("reasoning-level") = {o.reasoning} \cap 0..2
      /\ \A i, j \in DOMAIN argv : argv[i].flag = argv[j].flag => i = j

\* The last directory given is the one that is used.
LastOverride(args) ==
  LET r == Override(args)
  IN  /\ r.path # {} => r.path \subseteq {args[i].value : i \in DOMAIN args}
      /\ (\A i \in DOMAIN args : args[i].is = "joined") /\ args # <<>> => r.path = {Last(args).value}
      /\ args # <<>> /\ Last(args).is = "flag" /\ (\A i \in 1..(Len(args) - 1) : args[i].is # "flag")
           => ~r.runs

LaunchesCore ==
  CASE sample.is = "launch" -> LaunchSound(sample.machine)
    [] sample.is = "argv" -> ArgvFaithful(sample.options)
    [] sample.is = "args" -> LastOverride(sample.args)
    [] OTHER -> TRUE

(***************************************************************************)
(* What comments and tests say, which the code does not keep to            *)
(***************************************************************************)
\* commands/fs.rs: "Resolve a path (handles ~, ., ..)".
HomeExpanded ==
  sample.is = "resolve" /\ sample.path.from = "home" =>
    FsResolvePath(sample.path) = Normalized(Home \o sample.path.rest)

\* dirs.rs: "a nested path must stay inside the sessions root".
OriginContained ==
  sample.is = "session" =>
    \A p \in SessionPath(sample.origin, sample.plan, sample.node, sample.id) :
      ContainedUnder(SessionsRoot, Normalized(p))

\* commands/asr.rs: of active and its profile, "normalize keeps them
\* consistent".
ActiveConsistent ==
  sample.is = "asr" =>
    LET n == NormalizeAsrConfig(sample.config)
    IN  \A p \in ActiveProfile(n) : p.id = n.active

\* commands/mcp.rs: of a server with a URL, "args/env are not applicable": no
\* more and no fewer servers are read than were accepted.
ServersCounted ==
  sample.is = "mcp" /\ AcceptsServers(sample.servers) =>
    Len(ParseMcpConf(WriteMcpConf(sample.servers))) = Len(sample.servers)

\* commands/mcp.rs: "Quote with JSON encoding to escape safely", and the test
\* write_roundtrips: a text is read as it was written.
TextsKept ==
  sample.is = "mcp" /\ AcceptsServers(sample.servers) =>
    LET back == ParseMcpConf(WriteMcpConf(sample.servers))
    IN  \A i \in DOMAIN sample.servers \cap DOMAIN back :
          \A k \in DOMAIN sample.servers[i] \ RawKeys : FieldOf(back[i], k) = sample.servers[i][k]
=============================================================================
