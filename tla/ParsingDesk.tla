------------------------------ MODULE ParsingDesk ------------------------------
(***************************************************************************)
(* The parsing skills of builtins/parsing: one call of parse_image_ocr,    *)
(* parse_audio_transcript, parse_video_transcript or summarize_video, as   *)
(* run_chain_mixed takes it through the strategies of fallback_chain.py,   *)
(* local ones first, under any configuration the host passes.              *)
(*                                                                         *)
(* A text is the sequence of what was read: the file as a whole is 0, a    *)
(* frame its number.  Tesseract, whisper, ffmpeg and the vendors are       *)
(* outside: they read, find nothing or fail.                               *)
(***************************************************************************)
EXTENDS Naturals, Sequences, SequencesExt, FiniteSetsExt

CONSTANT MaxFrames     \* bound: frames that ffmpeg samples

ASSUME ParsingAssumption == MaxFrames \in Nat

VARIABLES
    given,     \* the host's configuration, the environment, and the skill asked
    rest,      \* strategies still to be tried, the one under way first
    failures,  \* of those that were tried: <<name, how it failed>>
    left,      \* video_vision: frames still to be looked at, NotSampled before
    chunks,    \* video_vision: what was seen so far
    result,    \* what run() returns or raises
    sent,      \* history: what left the host, for which strategy and to whom
    read       \* history: <<strategy, what it read>>

parsingVars == <<given, rest, failures, left, chunks, result, sent, read>>

VisionVendor == {"anthropic", "openai", "gemini"}
WholeFile == 0
NotSampled == {WholeFile}
Unanswered == [kind |-> "pending", by |-> "nobody", text |-> <<>>]

Strategies(skill) ==
    CASE skill = "image" -> <<"tesseract", "vision_llm">>
      [] skill = "audio" -> <<"whisper_local", "transcription_api">>
      [] OTHER           -> <<"whisper_local", "transcription_api", "video_vision">>

\* vision, transcription: the provider asked for, "" for none.  keys: the
\* vendors a key can be found for, in the configuration or in the environment.
Given == [skill : {"image", "audio", "video", "summary"},
          local : BOOLEAN, ffmpeg : BOOLEAN,
          vision : VisionVendor \cup {"", "unknown"}, transcription : {"", "openai", "unknown"},
          keys : {{}, {"anthropic"}, VisionVendor, VisionVendor \cup {"unknown"}}]

ParsingInit ==
    /\ given \in Given
    /\ rest = Strategies(given.skill)
    /\ failures = <<>> /\ left = NotSampled /\ chunks = <<>>
    /\ result = Unanswered
    /\ sent = <<>> /\ read = <<>>

-----------------------------------------------------------------------------
Trying(strategy) == result = Unanswered /\ rest # <<>> /\ Head(rest) = strategy

\* A strategy that fails, or finds nothing, is noted and the next one is tried.
Passed(how) ==
    /\ failures' = Append(failures, <<Head(rest), how>>)
    /\ rest' = Tail(rest)
    /\ left' = NotSampled /\ chunks' = <<>>
    /\ UNCHANGED <<given, result>>

\* summarize_video puts what came of the chain into its directive.
Wrapped(kind) == IF given.skill = "summary" THEN "directive" ELSE kind

Returned(text) ==
    IF text = <<>> THEN Passed("returned empty")
    ELSE /\ result' = [kind |-> Wrapped("text"), by |-> Head(rest), text |-> text]
         /\ left' = NotSampled
         /\ UNCHANGED <<given, rest, failures, chunks>>

\* All of them have failed.
AllFailed ==
    /\ result = Unanswered /\ rest = <<>>
    /\ result' = [Unanswered EXCEPT !.kind = Wrapped("error")]
    /\ UNCHANGED <<given, rest, failures, left, chunks, sent, read>>

Reads(what) == read' = Append(read, <<Head(rest), what>>)
Sends(what, to) == sent' = Append(sent, [by |-> Head(rest), what |-> what, to |-> to])

ReadWhole == Reads(WholeFile) /\ Returned(<<WholeFile>>)
ReadNothing == UNCHANGED read /\ Returned(<<>>)
Failed == UNCHANGED read /\ Passed("raised")

\* Text is kept unless its mean confidence is known and below the threshold.
Tesseract ==
    /\ Trying("tesseract")
    /\ UNCHANGED sent
    /\ \/ ReadNothing
       \/ given.local /\ (Failed \/ \E confidence \in {"low", "high", "unknown"} :
                                        IF confidence = "low" THEN ReadNothing ELSE ReadWhole)

\* The binary times out, exits with an error, writes nothing or a transcript.
WhisperLocal ==
    /\ Trying("whisper_local")
    /\ UNCHANGED sent
    /\ ReadNothing \/ (given.local /\ (Failed \/ ReadWhole))

TranscriptionApi ==
    /\ Trying("transcription_api")
    /\ IF given.transcription = "openai" /\ "openai" \in given.keys
       THEN \/ Sends(WholeFile, "openai") /\ (ReadWhole \/ ReadNothing \/ Failed)
            \/ UNCHANGED sent /\ Failed
       ELSE UNCHANGED sent /\ ReadNothing

\* The host has chosen a model, knows a key for it and the name means something.
VisionReady == given.vision \in VisionVendor \cap given.keys

\* The provider is looked up after the file was read.
CannotRead == given.vision \in given.keys

VisionLlm ==
    /\ Trying("vision_llm")
    /\ \/ VisionReady /\ Sends(WholeFile, given.vision) /\ (ReadWhole \/ ReadNothing \/ Failed)
       \/ CannotRead /\ UNCHANGED sent /\ Failed
       \/ ~VisionReady /\ UNCHANGED sent /\ ReadNothing

\* ffmpeg samples the video, exits with an error or times out.
SampleFrames ==
    /\ Trying("video_vision") /\ left = NotSampled
    /\ UNCHANGED sent
    /\ IF given.vision = "" \/ ~given.ffmpeg THEN ReadNothing
       ELSE \/ ReadNothing
            \/ Failed
            \/ \E n \in 1 .. MaxFrames :
                  left' = 1 .. n /\ UNCHANGED <<given, rest, failures, chunks, result, read>>

\* Mutant: the frames as the directory lists them.
NextFrameUnsorted == left

\* sorted(glob("frame-*.jpg"))
NextFrame == {Min(left)}

Looked == left \notin {NotSampled, {}}

\* One frame through vision_llm_strategy.
LookAt(frame) ==
    /\ \/ /\ VisionReady
          /\ Sends(frame, given.vision)
          /\ \/ Reads(frame) /\ chunks' = Append(chunks, frame)
             \/ UNCHANGED <<read, chunks>>
       \/ ~VisionReady /\ UNCHANGED <<sent, read, chunks>>
    /\ left' = left \ {frame}
    /\ UNCHANGED <<given, rest, failures, result>>

\* What a frame raises ends the strategy, and what the others said is gone.
FrameRaises(frame) ==
    /\ \/ VisionReady /\ Sends(frame, given.vision)
       \/ CannotRead /\ UNCHANGED sent
    /\ Failed

Frames == Trying("video_vision") /\ Looked /\ \E f \in NextFrame : LookAt(f) \/ FrameRaises(f)

Stitch == Trying("video_vision") /\ left = {} /\ Returned(chunks) /\ UNCHANGED <<sent, read>>

ParsingNext ==
    Tesseract \/ WhisperLocal \/ TranscriptionApi \/ VisionLlm \/ SampleFrames \/ Frames \/ Stitch \/ AllFailed

ParsingSpec == ParsingInit /\ [][ParsingNext]_parsingVars

-----------------------------------------------------------------------------
\* What the configuration lets a strategy send to.
AllowedTo(strategy) ==
    IF strategy = "transcription_api" THEN {given.transcription} \ {""} ELSE {given.vision} \ {""}

\* Nothing leaves the host before the local reader has failed, for a provider
\* it did not choose, or twice: "rather than silently calling out to an external
\* API the host didn't opt into" (vision_llm_strategy).
NothingLeavesUnasked ==
    /\ \A i \in DOMAIN sent :
          /\ sent[i].to \in AllowedTo(sent[i].by)
          /\ failures # <<>> /\ failures[1][1] = Strategies(given.skill)[1]
          /\ \A j \in 1 .. i - 1 : sent[i] # sent[j]

\* Of the strategies in their order, the first that reads anything gives the text,
\* and the text is all that it read, in the order of the film; the others are in the
\* error, each with its failure, or were not asked (run_chain_mixed).
FirstReaderAnswers ==
    /\ [i \in DOMAIN failures |-> failures[i][1]] \o rest = Strategies(given.skill)
    /\ result.kind = "error" => rest = <<>>
    /\ result.text # <<>> =>
          /\ result.by = Head(rest)
          /\ ToSet(result.text) = {r[2] : r \in {x \in ToSet(read) : x[1] = result.by}}
          /\ \A i, j \in DOMAIN result.text : i < j => result.text[i] < result.text[j]
          /\ \A i \in DOMAIN sent : sent[i].by = result.by \/ \E f \in ToSet(failures) : f[1] = sent[i].by

ReadAsConfigured == NothingLeavesUnasked /\ FirstReaderAnswers
================================================================================
