------------------------------- MODULE Speech -------------------------------
(***************************************************************************)
(* Voice input (commands/asr.rs): one call of asr_transcribe, the request  *)
(* that leaves for the endpoint of the active profile, and the transcript  *)
(* read from what the endpoint answers.  The profiles are Documents'.      *)
(***************************************************************************)
EXTENDS Documents

(***************************************************************************)
(* The recording: a RIFF file                                              *)
(***************************************************************************)
\* A file is its chunks, the last of which may be cut: the identifier, the
\* size it declares, the bytes that are there, and for "fmt " what it says.
\* Writers pad a chunk to an even size.
RiffChunk == [id : STRING, size : Nat, there : Nat, pcm : BOOLEAN, bits : Nat, channels : Nat]
IsRecording(wav) ==
  /\ wav.riff \in BOOLEAN /\ wav.chunks \in Seq(RiffChunk)
  /\ \A k \in 1..(Len(wav.chunks) - 1) : wav.chunks[k].size <= wav.chunks[k].there
FMT == "fmt "
Padded(n) == n + (n % 2)
StartOf(chunks, k) ==
  LET at[i \in 1..k] == IF i = 1 THEN 12 ELSE at[i - 1] + 8 + Padded(chunks[i - 1].size)
  IN  at[k]
Length(wav) ==
  IF wav.chunks = <<>> THEN 12
  ELSE StartOf(wav.chunks, Len(wav.chunks)) + 8 + Last(wav.chunks).there

WavParams_ToTheEnd(wav) ==
  LET cs == wav.chunks
      data == {k \in DOMAIN cs : cs[k].id = "data"}
      k == CHOOSE i \in data : \A j \in data : i <= j
      fmts == {i \in 1..(k - 1) : cs[i].id = FMT /\ cs[i].size >= 16}
  IN  IF ~wav.riff \/ data = {} THEN {}
      ELSE IF fmts = {} \/ \E i \in fmts : ~cs[i].pcm THEN {}
      ELSE LET start == StartOf(cs, k) + 8
           IN  {[format |-> cs[CHOOSE i \in fmts : \A j \in fmts : j <= i], from |-> start,
                 to |-> Length(wav)]}

\* wav_params: the chunks in turn.  A format chunk counts when its fields are
\* there, and one that is not PCM ends the scan; so does the first data chunk.
WavParams(wav) ==
  LET cs == wav.chunks
      Format(k) == cs[k].id = FMT /\ cs[k].size >= 16
                   /\ StartOf(cs, k) + 8 + 24 <= Length(wav)
      data == {k \in DOMAIN cs : cs[k].id = "data"}
      k == CHOOSE i \in data : \A j \in data : i <= j
      fmts == {i \in 1..(k - 1) : Format(i)}
  IN  IF ~wav.riff \/ data = {} THEN {}
      ELSE IF fmts = {} \/ \E i \in fmts : ~cs[i].pcm THEN {}
      ELSE LET start == StartOf(cs, k) + 8
               end == IF start + cs[k].size < Length(wav) THEN start + cs[k].size ELSE Length(wav)
           IN  {[format |-> cs[CHOOSE i \in fmts : \A j \in fmts : j <= i], from |-> start, to |-> end]}

(***************************************************************************)
(* The answer                                                              *)
(***************************************************************************)
\* A body is a sequence of lines; a line that is not "data:" and JSON says
\* nothing.  Texts are sequences of characters.
AnswerLine == [is : STRING, text : Text]
Says(lines, kind) == {i \in DOMAIN lines : lines[i].is = kind}
FirstOf(S, n) == IF S = {} THEN n ELSE CHOOSE i \in S : \A j \in S : i <= j
\* The texts of the lines of some kinds before a line.
Joined(lines, kinds, upto) ==
  LET said[i \in 0..(upto - 1)] ==
        IF i = 0 THEN <<>> ELSE IF lines[i].is \in kinds THEN said[i - 1] \o lines[i].text ELSE said[i - 1]
  IN  said[upto - 1]

ExtractStepAudioText_Last(lines) ==
  [ok |-> TRUE, text |-> Trim(FoldLeft(LAMBDA t, l : IF l.is \in {"delta", "done"} THEN l.text ELSE t, <<>>, lines))]

\* extract_step_audio_text
ExtractStepAudioText(lines) ==
  LET end == FirstOf(Says(lines, "done") \cup Says(lines, "error"), Len(lines) + 1)
  IN  IF end \in Says(lines, "error") THEN [ok |-> FALSE, text |-> lines[end].text]
      ELSE IF end \in Says(lines, "done") /\ ~IsBlank(lines[end].text)
      THEN [ok |-> TRUE, text |-> Trim(lines[end].text)]
      ELSE [ok |-> TRUE, text |-> Trim(Joined(lines, {"delta"}, end))]

\* extract_chat_text: the stream, or else the whole body as one document.
ExtractChatText(lines) ==
  LET end == FirstOf(Says(lines, "[DONE]"), Len(lines) + 1)
      streamed == Joined(lines, {"delta", "message"}, end)
  IN  IF streamed # <<>> THEN Trim(streamed)
      ELSE IF Len(lines) = 1 /\ lines[1].is = "plain" THEN Trim(lines[1].text) ELSE <<>>

\* {"text": ...}
ExtractText(lines) ==
  IF Len(lines) = 1 /\ lines[1].is = "plain" THEN [ok |-> TRUE, text |-> Trim(lines[1].text)]
  ELSE [ok |-> FALSE, text |-> <<>>]

(***************************************************************************)
(* The call                                                                *)
(***************************************************************************)
\* asr_endpoint
AsrEndpoint(p) ==
  [url |-> Trim(p.url), protocol |-> p.protocol,
   model |-> IF IsBlank(p.model) THEN DefaultAsrModel(p.protocol) ELSE Trim(p.model)]

NoAnswer == [ok |-> FALSE, text |-> <<>>]

\* What each protocol asks of the endpoint: the whole file, or for StepAudio
\* the samples alone, and nothing if it cannot have the recording.
WholeFile(p, wav) == {[endpoint |-> AsrEndpoint(p), from |-> 0, to |-> Length(wav)]}
Samples16(p, wav) ==
  {[endpoint |-> AsrEndpoint(p), from |-> w.from, to |-> w.to] :
     w \in {w \in WavParams(wav) : w.format.bits = 16 /\ w.format.channels = 1}}

\* A status that is no success is an answer too, an unreachable endpoint an
\* error.
TranscribeMultipart(response) == IF response.success THEN ExtractText(response.lines) ELSE NoAnswer
TranscribeChat(response) ==
  IF response.success THEN [ok |-> TRUE, text |-> ExtractChatText(response.lines)] ELSE NoAnswer
TranscribeStepAudio(response) ==
  IF response.success THEN ExtractStepAudioText(response.lines) ELSE NoAnswer

\* asr_transcribe: nothing is asked when the profile or its URL is missing.
Request(config, wav) ==
  UNION {IF p.protocol = "step_audio" THEN Samples16(p, wav) ELSE WholeFile(p, wav) :
           p \in {q \in ActiveProfile(config) : ~IsBlank(q.url)}}

Transcribe(config, wav, response) ==
  LET asked == Request(NormalizeAsrConfig(config), wav)
      protocol == (CHOOSE r \in asked : TRUE).endpoint.protocol
  IN  IF asked = {} THEN NoAnswer
      ELSE CASE protocol = "step_audio" -> TranscribeStepAudio(response)
             [] protocol = "chat_completions" -> TranscribeChat(response)
             [] OTHER -> TranscribeMultipart(response)
=============================================================================
