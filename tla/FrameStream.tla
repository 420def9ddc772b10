---------------------------- MODULE FrameStream ----------------------------
(***************************************************************************)
(* From the bytes a core writes to the events a window gets: the framing   *)
(* of wire.rs, the reader thread of reader.rs with its handlers, the event *)
(* payloads of event.rs and the stderr tail of alayacore.rs.  Bytes arrive *)
(* in pieces of any size.  A value is its opening brace and one symbol for *)
(* the JSON that follows; any other value that starts with a brace is not  *)
(* JSON.  What else a session shares with its reader is SessionPipe's.     *)
(***************************************************************************)
EXTENDS Naturals, Sequences, FiniteSets, SequencesExt

CONSTANTS
  Streams,     \* what a core may write before its stdout closes
  Complaints,  \* the lines it writes to stderr
  MaxFrame,    \* MAX_FRAME_SIZE
  TailLines    \* STDERR_TAIL_LINES

Letters == {"S", "M", "A", "X", "x", "C", "O", "U", "E", "F", "f"}
LF == "LF"
CR == "CR"
BadUTF8 == "bad"
NoText == ""

ASSUME StreamAssumption ==
  /\ MaxFrame \in Nat /\ TailLines \in Nat \ {0} /\ Complaints \in Seq(STRING)
  /\ Streams \subseteq Seq(STRING)

VARIABLES
  sent,      \* all the core writes
  wire,      \* what has not arrived
  buf, line, \* BufReader's buffer, and the line read so far
  over,      \* why the reader stopped
  events,    \* what the window was told, in order
  announced, \* core-status was sent
  pumped,    \* how many stderr lines the pump has read
  tail       \* StderrTail

vars == <<sent, wire, buf, line, over, events, announced, pumped, tail>>

(***************************************************************************)
(* wire.rs                                                                 *)
(***************************************************************************)
IsTag(t) == Len(t) = 2 /\ ToSet(t) \subseteq Letters
\* A JSON object, or nothing for a control frame.
IsValue(v) == v = <<>> \/ v[1] = "{"

Encodable(f) ==
  /\ IsTag(f.tag) /\ IsValue(f.value)
  /\ {LF, CR} \cap ToSet(f.value) = {}
  /\ Len(f.tag) + Len(f.value) + 1 <= MaxFrame

Encode(f) == f.tag \o f.value \o <<LF>>

Malformed == [tag |-> <<>>, value |-> <<>>]

DecodeLine_KeepsCR(l) ==
  IF Len(l) >= 2 /\ IsTag(SubSeq(l, 1, 2)) /\ IsValue(SubSeq(l, 3, Len(l))) /\ BadUTF8 \notin ToSet(l)
  THEN [tag |-> SubSeq(l, 1, 2), value |-> SubSeq(l, 3, Len(l))]
  ELSE Malformed

\* decode_line: one trailing CR belongs to the terminator.
DecodeLine(raw) ==
  LET l == IF raw # <<>> /\ Last(raw) = CR THEN Front(raw) ELSE raw
      rest == SubSeq(l, 3, Len(l))
  IN  IF Len(l) >= 2 /\ IsTag(SubSeq(l, 1, 2)) /\ BadUTF8 \notin ToSet(rest) /\ IsValue(rest)
      THEN [tag |-> SubSeq(l, 1, 2), value |-> rest]
      ELSE Malformed

(***************************************************************************)
(* What a value says, as far as the handlers look                          *)
(***************************************************************************)
None == "none"
Json(v) ==
  IF Len(v) = 2 /\ v[2] \in {"closed", "state", "text", "media", "untyped", "call"} THEN v[2] ELSE None

\* The content item's type; None where ContentData does not parse.
TypeOf(j) ==
  CASE j \in {"closed", "state"} -> "session"
    [] j = "text" -> "text"
    [] j = "media" -> "image"
    [] j = "untyped" -> NoText
    [] OTHER -> None
\* The history id at the top level.
IdOf(j) == IF j \in {"text", "call"} THEN "h" ELSE NoText
IsEnvelope(j) == j \in {"closed", "state"}

(***************************************************************************)
(* reader.rs                                                               *)
(***************************************************************************)
Event(on, f, json, content, id, type) ==
  [on |-> on, tag |-> f.tag, value |-> f.value, json |-> json, content |-> content,
   id |-> id, type |-> type]

\* A frame no handler understands goes out as it came.
Raw(f) == Event("tlv-frame", f, Json(f.value), "raw", None, None)

\* handle_delta_frame: no tlv-frame as well.
Delta(f) ==
  LET j == Json(f.value)
  IN  IF TypeOf(j) \notin {None, NoText}
      THEN Event("tlv-delta", [f EXCEPT !.value = <<>>], None, j, IdOf(j), TypeOf(j))
      ELSE Raw(f)

\* handle_content_frame: the text, or the uri of anything else.
Content(f) ==
  LET j == Json(f.value)
  IN  IF TypeOf(j) \notin {None, NoText}
      THEN Event("tlv-frame", f, j, IF TypeOf(j) = "text" THEN "text" ELSE "uri",
                 IF IdOf(j) = NoText THEN None ELSE IdOf(j), TypeOf(j))
      ELSE Raw(f)

\* handle_json_frame
Call(f) ==
  LET j == Json(f.value)
  IN  [Raw(f) EXCEPT !.id = IF IdOf(j) = NoText THEN None ELSE IdOf(j)]

\* handle_cmd_output_frame: what is no JSON goes out as null.
Output(f) == [Raw(f) EXCEPT !.json = IF Json(f.value) = None THEN "null" ELSE Json(f.value)]

\* handle_sm_frame: the envelope, or nothing.
System(f) == [Raw(f) EXCEPT !.json = IF IsEnvelope(Json(f.value)) THEN Json(f.value) ELSE None]

\* dispatch_frame
EventOf(f) ==
  CASE f.tag = <<"A", "x">> -> Delta(f)
    [] f.tag \in {<<"A", "X">>, <<"U", "X">>} -> Content(f)
    [] f.tag \in {<<"A", "f">>, <<"A", "F">>, <<"U", "F">>, <<"U", "f">>} -> Call(f)
    [] f.tag = <<"C", "O">> -> Output(f)
    [] f.tag = <<"S", "M">> -> System(f)
    [] OTHER -> Raw(f)

EndsTheSession(f) == f.tag = <<"S", "M">> /\ Json(f.value) = "closed"

\* disconnect_message: the last line of stderr, and how many came before it.
Quote(base) ==
  [on |-> "core-status", why |-> base,
   quote |-> IF tail = <<>> THEN None ELSE Last(tail),
   more |-> IF tail = <<>> THEN 0 ELSE Len(tail) - 1]
Said == [on |-> "core-status", why |-> "closed", quote |-> None, more |-> 0]

Init ==
  /\ sent \in Streams
  /\ wire = sent /\ buf = <<>> /\ line = <<>>
  /\ over = None /\ events = <<>> /\ announced = FALSE
  /\ pumped = 0 /\ tail = <<>>

EndOver_Again(why, base) ==
  /\ over' = why
  /\ events' = Append(events, Quote(base))
  /\ UNCHANGED announced
\* The reader ends; nobody is told twice.
EndOver(why, base) ==
  /\ over' = why
  /\ events' = IF announced THEN events ELSE Append(events, Quote(base))
  /\ UNCHANGED announced

\* fill_buf hands over whatever is there.
Arrive ==
  /\ over = None /\ buf = <<>> /\ wire # <<>>
  /\ \E n \in 1..Len(wire) :
       buf' = SubSeq(wire, 1, n) /\ wire' = SubSeq(wire, n + 1, Len(wire))
  /\ UNCHANGED <<sent, line, over, events, announced, pumped, tail>>

\* A piece of a line, which may be too long already.
TakePart ==
  /\ over = None /\ buf # <<>> /\ LF \notin ToSet(buf)
  /\ line' = line \o buf /\ buf' = <<>>
  /\ IF Len(line') > MaxFrame
     THEN EndOver("malformed", "ReadError")
     ELSE UNCHANGED <<over, events, announced>>
  /\ UNCHANGED <<sent, wire, pumped, tail>>

\* The end of a line is in the buffer: read_frame returns and the reader
\* dispatches.
TakeLine ==
  /\ over = None /\ LF \in ToSet(buf)
  /\ LET p == CHOOSE i \in DOMAIN buf : buf[i] = LF /\ \A k \in 1..(i - 1) : buf[k] # LF
         l == line \o SubSeq(buf, 1, p - 1)
         f == DecodeLine(l)
     IN  /\ line' = <<>>
         /\ buf' = SubSeq(buf, p + 1, Len(buf))
         /\ IF Len(l) + 1 > MaxFrame \/ f = Malformed
            THEN EndOver("malformed", "ReadError")
            ELSE /\ events' = Append(events, EventOf(f))
                              \o IF EndsTheSession(f) /\ ~announced THEN <<Said>> ELSE <<>>
                 /\ announced' = (announced \/ EndsTheSession(f))
                 /\ UNCHANGED over
  /\ UNCHANGED <<sent, wire, pumped, tail>>

\* The stream ends, at the end of a frame or inside one.
Eof ==
  /\ over = None /\ buf = <<>> /\ wire = <<>>
  /\ IF line = <<>> THEN EndOver("eof", "ConnectionClosed") ELSE EndOver("cut", "ReadError")
  /\ UNCHANGED <<sent, wire, buf, line, pumped, tail>>

ReadFails ==
  /\ over = None /\ buf = <<>>
  /\ EndOver("failed", "ReadError")
  /\ UNCHANGED <<sent, wire, buf, line, pumped, tail>>

\* spawn_stderr_pump and StderrTail::push: blank lines are skipped and the
\* oldest line makes room.
Pump ==
  /\ pumped < Len(Complaints) /\ pumped' = pumped + 1
  /\ LET l == Complaints[pumped + 1]
     IN  tail' = IF l = NoText THEN tail
                 ELSE Append(IF Len(tail) >= TailLines THEN Tail(tail) ELSE tail, l)
  /\ UNCHANGED <<sent, wire, buf, line, over, events, announced>>

Next == Arrive \/ TakePart \/ TakeLine \/ Eof \/ ReadFails \/ Pump
Spec == Init /\ [][Next]_vars

(***************************************************************************)
(* Properties                                                              *)
(***************************************************************************)
\* Where the window was told of a frame, and where of the end.
Shown == {i \in DOMAIN events : events[i].on # "core-status"}
Statuses == DOMAIN events \ Shown
FrameOf(e) ==
  [tag |-> e.tag, value |-> IF e.on = "tlv-delta" THEN <<"{", e.content>> ELSE e.value]

\* Where the lines of a stream end, which of them a place is the end of, and
\* the line of a number.
Ends(s) == {i \in DOMAIN s : s[i] = LF}
Upto(I, i) == Cardinality({k \in I : k <= i})
Latest(I) == IF I = {} THEN 0 ELSE CHOOSE k \in I : \A j \in I : j <= k
LineAt(s, n) ==
  LET end == CHOOSE i \in Ends(s) : Upto(Ends(s), i) = n
  IN  SubSeq(s, Latest({k \in Ends(s) : k < end}) + 1, end - 1)

\* The line is what encode writes for the frame, with or without a CR before
\* its end; a CR inside a value is not refused here, though encode would.
Carries(l, f) ==
  /\ l = f.tag \o f.value \o <<CR>> \/ (l = f.tag \o f.value /\ Last(l) # CR)
  /\ IsTag(f.tag) /\ IsValue(f.value) /\ BadUTF8 \notin ToSet(f.value)
  /\ Len(l) + 1 <= MaxFrame
Candidates(l) ==
  {[tag |-> SubSeq(l, 1, 2), value |-> SubSeq(l, 3, n)] : n \in {k \in {Len(l) - 1, Len(l)} : k >= 2}}

\* However the bytes are cut into pieces, the window is told of every frame
\* once, in order, up to the first line that no frame encodes to, and nothing
\* of what follows it; a stream that ends inside a frame is an error.
FramesAsSent ==
  LET n == Cardinality(Shown)
      lines == Cardinality(Ends(sent))
  IN  /\ n <= lines
      /\ \A i \in Shown : Carries(LineAt(sent, Upto(Shown, i)), FrameOf(events[i]))
      /\ over = "eof" => n = lines /\ (sent # <<>> => Last(sent) = LF)
      /\ over = "cut" => n = lines /\ Last(sent) # LF
      /\ over = "malformed" =>
           IF n = lines
           THEN Len(sent) - Latest(Ends(sent)) > MaxFrame
           ELSE \A f \in Candidates(LineAt(sent, n + 1)) : ~Carries(LineAt(sent, n + 1), f)

\* A window hears of the end once: that the core closed the session exactly
\* when the core said so in a frame the reader got to, and otherwise the last
\* reason on stderr, never a blank one.
EndSaid ==
  /\ (Statuses = {}) = (over = None /\ ~announced)
  /\ \A i, j \in Statuses : i = j
  /\ \A i \in Statuses :
       LET s == events[i]
       IN  /\ (s.why = "closed") = (\E k \in Shown : EndsTheSession(FrameOf(events[k])))
           /\ s.why # "closed" => (s.why = "ConnectionClosed") = (over = "eof")
           /\ s.quote # NoText /\ s.more < TailLines
           /\ s.quote # None => \E k \in 1..pumped : s.quote = Complaints[k]
  /\ Len(tail) <= TailLines
  /\ tail # <<>> => \E i \in 1..pumped :
       /\ Complaints[i] = Last(tail)
       /\ \A k \in (i + 1)..pumped : Complaints[k] = NoText

\* wire.rs: "a raw LF or CR inside it would end the frame early, so neither
\* is allowed".
FramesWritable == \A i \in Shown : Encodable(FrameOf(events[i]))
=============================================================================
