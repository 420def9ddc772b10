------------------------------ MODULE MCCodecs ------------------------------
(***************************************************************************)
(* Codecs for TLC: up to two whole frames and a third that may be cut, and *)
(* the samples of each conversion.                                         *)
(***************************************************************************)
EXTENDS Codecs

MCMaxFrame == 6
MCComplaints == <<"c1", NoText, "c2", "c3">>
MCLines ==
  {<<"S", "M", "{", "closed">>, <<"S", "M", "{", "state", CR>>, <<"A", "x", "{", "text">>,
   <<"A", "x", "{", "untyped">>, <<"A", "X", "{", "media">>, <<"A", "F", "{", "call", "x">>,
   <<"A", "F", "{", "call">>, <<"C", "O", "{", "call">>, <<"C", "O", "{">>, <<"U", "E">>,
   <<"U", "E", CR>>}
MCOdd ==
  {<<"S", "M", "{", CR, "x">>, <<"A", "F", "{", "call", "x", "x">>, <<"A", "F", "{", "call", "x", CR>>,
   <<"U", "E", CR, CR>>, <<>>, <<CR>>, <<"S">>, <<"{", "M">>, <<"S", "M", "closed">>, <<"S", "M", "{", BadUTF8>>}
MCStreams ==
  LET Whole == {l \o <<LF>> : l \in MCLines}
      All == {l \o <<LF>> : l \in MCLines \cup MCOdd}
  IN  {<<>>} \cup All \cup MCOdd \cup {a \o b : a \in Whole, b \in All \cup MCOdd \cup {<<"A", "x", "{">>}}
      \cup {a \o <<"U", "E", LF>> \o b : a \in All, b \in {<<"S", "M", "{", "closed", LF>>, <<"S">>}}

UpTo(S, n) == UNION {[1..k -> S] : k \in 0..n}
Maybe(S) == {{}} \cup {{x} : x \in S}

\* Documents
MCTexts == UpTo({" ", "a", QUOTE, BACKSLASH, NEWLINE}, 3)
MCMaxLabel == 4
MCMaxWindows == 2

ToolLists == UpTo({"t1", "t2", "", Spaced}, 2)
SettingsSamples ==
  [is : {"settings"}, cur : [tools : ToolLists, level : Maybe(-1..3)],
   new : [tools : Maybe(ToolLists), level : Maybe(-1..3)]]

Field(k) ==
  CASE k = "server" -> {<<"a">>, <<"b", " ">>, <<"a", QUOTE>>, <<"a", NEWLINE, "a">>}
    [] k = "url" -> {<<>>, <<" ">>, <<"a", BACKSLASH>>, <<QUOTE, "a", QUOTE>>, <<NEWLINE>>}
    [] k \in RawKeys -> {Unset, OneLine, TwoLines, <<"text">>, <<"json", "url">>, <<"json", RULE, "server">>}
    [] k = "auth_type" -> {<<>>, <<"code">>, <<"static">>}
    [] OTHER -> {<<>>, <<" ">>, <<"a", BACKSLASH>>, <<QUOTE, "a", QUOTE>>}
Shapes == {{"server", "url"}, {"server", "command"}, {"server", "command", "args", "env"},
           {"server", "url", "args", "env"}, {"server", "url", "proto_version"},
           {"server", "url", "command"}, {"server", "url", "auth_type", "auth_token"},
           {"server", "url", "auth_type", "auth_client_id", "auth_client_secret"}}
AllServers == UNION {{s \in [K -> UNION {Field(k) : k \in K}] : \A k \in K : s[k] \in Field(k)} : K \in Shapes}
FewServers == {s \in AllServers : DOMAIN s \in {{"server", "url"}, {"server", "command"}}}
McpSamples ==
  [is : {"mcp"}, servers : {<<>>} \cup {<<s>> : s \in AllServers} \cup {<<s, t>> : s, t \in FewServers}]

Profiles == [id : {<<>>, <<" ">>, <<"i">>, <<" ", "i">>}, protocol : {"", "step_audio", "chat_completions"},
             model : {<<>>, <<"m", " ">>}, url : {<<" ">>, <<"u">>}]
AsrSamples ==
  [is : {"asr"}, config : [profiles : {<<>>} \cup {<<p>> : p \in Profiles} \cup {<<p, q>> : p, q \in Profiles},
                          active : {<<>>, <<" ">>, <<"i">>, <<"i", " ">>, <<" ", "i">>, <<"k">>}]]

UiSamples ==
  [is : {"ui"},
   doc : [object : BOOLEAN,
          version : Maybe([other : BOOLEAN, halves : -2..4, float : {TRUE}]
                          \cup [other : BOOLEAN, halves : {-2, 0, 2, 4}, float : {FALSE}]),
          windows : Maybe([other : BOOLEAN, count : 0..3])]]
LabelSamples ==
  [is : {"label"}, doc : [label : Maybe([other : BOOLEAN, chars : 0..5, blank : {FALSE}]
                                        \cup [other : {FALSE}, chars : 0..5, blank : {TRUE}])]]
LimitSamples == [is : {"limit"}, n : -2..9]
HeaderSamples ==
  [is : {"header"}, head : [fenced : {TRUE}, keys : UpTo({"v16", "v17", "vjunk", "key"}, 2),
                            body : UpTo({"v16", "v17", "frame", "---"}, 2)]
                           \cup [fenced : {FALSE}, keys : {<<>>}, body : UpTo({"v16", "v17", "frame"}, 2)]]

\* Speech
Words == UpTo({" ", "a"}, 2)
Noise == {<<>>, <<[is |-> "comment", text |-> <<>>]>>}
StreamSamples ==
  {s \in [is : {"stream-text"}, words : UpTo(Words, 3), noise : Noise,
          end : {<<>>, <<[is |-> "[DONE]", text |-> <<>>]>>, <<[is |-> "error", text |-> <<"a">>]>>}
                \cup {<<[is |-> "done", text |-> t]>> : t \in UpTo({" ", "a"}, 6)}] :
     IsEnd(s.end, s.words)}

Chunk(id, size, there) ==
  [id |-> id, size |-> size, there |-> there, pcm |-> TRUE, bits |-> 16, channels |-> 1]
Fmts == {Chunk("fmt ", 16, 16), Chunk("fmt ", 18, 18), Chunk("fmt ", 14, 14),
         [Chunk("fmt ", 16, 16) EXCEPT !.pcm = FALSE], [Chunk("fmt ", 16, 16) EXCEPT !.bits = 8],
         [Chunk("fmt ", 16, 16) EXCEPT !.channels = 2]}
Others == {Chunk("LIST", 3, 4), Chunk("LIST", 4, 4)}
Datas == {Chunk("data", 8, 8), Chunk("data", 8, 5), Chunk("data", 7, 8)}
Wavs ==
  [riff : BOOLEAN,
   chunks : {<<>>} \cup {<<f>> : f \in Fmts} \cup {<<f, d>> : f \in Fmts, d \in Datas}
            \cup {<<d, f>> : f \in Fmts, d \in {Chunk("data", 8, 8)}}
            \cup {<<a, f, b, Chunk("data", 8, 8), c>> : a \in Others, f \in Fmts, b \in Others \cup Fmts, c \in Others}]
WavSamples == [is : {"wav"}, wav : Wavs]
Plain1 == [is |-> "plain", text |-> <<"a">>]
CallSamples ==
  [is : {"call"},
   config : [profiles : {<<>>} \cup {<<p>> : p \in Profiles}, active : {<<"i">>, <<"k">>}],
   wav : {w \in Wavs : Len(w.chunks) <= 2},
   response : [success : BOOLEAN,
               lines : {<<>>, <<Plain1>>, <<[is |-> "delta", text |-> <<"a">>]>>,
                        <<[is |-> "error", text |-> <<>>]>>}]]

\* Places
MCHome == << <<"h">> >>
MCCwd == << <<"h">>, <<"w">> >>
MCExisting == {<<>>, << <<"h">> >>, << <<"h">>, <<"w">> >>, << <<"h">>, <<"w">>, <<"s">> >>}
MCLongName == 2
Names == UpTo({"a", ".", "/", "e-acute", " "}, 2)
Ids == {<<>>, <<"i">>, <<".">>, <<"a", "/">>}
Origins ==
  [bare : {TRUE}, name : {<<>>, <<" ">>, <<"o", " ">>, <<".">>, <<".", ".">>}]
  \cup [bare : {FALSE}, path : {SessionsRoot \o << <<"o">> >>, << <<"h">> >>,
                                SessionsRoot \o << <<".", ".">>, <<"x">> >>,
                                SessionsRoot \o << <<"o">>, <<"plans">>, <<"a">>, <<"a">>, <<"i">> >>}]
SessionSamples == [is : {"session"}, origin : Origins, plan : Names, node : Names, id : Ids]
ResolveSamples ==
  [is : {"resolve"}, path : [from : {"home", "root", "here"}, rest : UpTo({<<"h">>, <<"w">>, <<"s">>} \cup Dots, 3)]]
ListSamples ==
  {[is |-> "list", root |-> r, entries |-> {Entry(n, n \in D) : n \in S}] :
     r \in BOOLEAN, S \in SUBSET (1..4), D \in SUBSET (1..4)}
FileSamples ==
  [is : {"file"}, file : [there : BOOLEAN, size : {0, 16, 17, 64, 65}, text : BOOLEAN]]
HashSamples == [is : {"hash"}, hash : UpTo({"a", "0", "G", "/"}, 3)]

\* CoreLaunch
Files == {"absent", "stub", "real"}
LaunchSamples ==
  [is : {"launch"},
   machine : {m \in [dest : Files, dir : BOOLEAN, env : Files \cup {"directory"},
                     which : {"absent", "real"}, candidate : {"absent", "real"}, installed : BOOLEAN,
                     rgDest : Files, rgOnPath : BOOLEAN] :
                (m.dest # "absent" \/ m.rgDest # "absent") => m.dir}]
ArgvSamples ==
  [is : {"argv"}, options : [config : {"", "c"}, session : {"", "s"}, confirm : {"", "t"},
                             tools : {{}, {""}, {"t"}}, system : {"", "s"}, reasoning : -1..3]]
ArgsSamples ==
  [is : {"args"}, args : UpTo([is : {"flag", "joined", "other"}, value : {"v", "w"}], 3)]

MCSamples ==
  SettingsSamples \cup McpSamples \cup [is : {"model"}, text : MCTexts] \cup AsrSamples \cup UiSamples
  \cup LabelSamples \cup LimitSamples \cup HeaderSamples \cup StreamSamples \cup WavSamples
  \cup CallSamples \cup SessionSamples \cup ResolveSamples \cup ListSamples \cup FileSamples
  \cup HashSamples \cup LaunchSamples \cup ArgvSamples \cup ArgsSamples
=============================================================================
