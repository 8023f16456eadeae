--------------------------- MODULE ActivityBuffer ---------------------------
(***************************************************************************)
(* The buffers that cut utterances out of the audio for the verifier:      *)
(* ActivityBuffer of the audio.cpp and OpenVINO workers, driven by the     *)
(* start and end events of the voice activity detector, and                *)
(* EndpointBuffer of the whisper worker, driven by its probabilities.      *)
(* A behaviour has one of the three engines.                               *)
(*                                                                         *)
(* A sample is its position in the stream, so that what an utterance holds *)
(* can be compared with where it says it comes from.  After an utterance   *)
(* the worker restarts the detector, whose events then never reach back    *)
(* behind it; a stream that is finished is followed by one that starts     *)
(* afresh.                                                                 *)
(***************************************************************************)
EXTENDS Integers, Sequences, SequencesExt

CONSTANTS
  Frame,          \* FRAME_SAMPLES
  PreRoll,        \* PRE_ROLL_SAMPLES
  PostRoll,       \* POST_ROLL_SAMPLES
  MaxUtterance,   \* MAX_UTTERANCE_SAMPLES
  EndSilence,     \* END_SILENCE_FRAMES of the whisper worker
  MaxBack,        \* bound of the model: how far back an event may reach
  MaxFrames       \* bound of the model: frames of one stream

ASSUME SizesFit ==
  /\ {Frame, MaxUtterance, EndSilence} \subseteq Nat \ {0}
  /\ {PreRoll, PostRoll, MaxBack, MaxFrames} \subseteq Nat
  /\ MaxUtterance >= PreRoll + 2 * Frame

VARIABLES
  engine,     \* whose buffer it is
  cursor,     \* the end of the last frame
  idle,       \* retained frames, each by its first sample
  utterance,  \* the utterance under way, or NoUtterance
  out,        \* the utterance of the last push, or NoUtterance
  taken,      \* the end of the frame that completed the utterance before
  speaking    \* the detector has reported speech that it has not ended

bufferVars == <<engine, cursor, idle, utterance, out, taken, speaking>>

Engines == {"audiocpp", "openvino", "whisper"}
NoUtterance == [samples |-> <<>>, start |-> -1, end |-> -1, silence |-> 0]
Never == -1

Larger(a, b) == IF a > b THEN a ELSE b
Smaller(a, b) == IF a < b THEN a ELSE b
FrameEnd == cursor + Frame
\* The position `back' samples before the end of the frame, saturating.
Backwards(back) == Larger(FrameEnd - back, 0)

\* RETAINED_IDLE_FRAMES; the whisper worker calls it PRE_ROLL_FRAMES.
Retained == IF engine = "whisper" THEN PreRoll \div Frame ELSE PreRoll \div Frame + 2

BufferInit ==
  /\ engine \in Engines
  /\ cursor = 0 /\ idle = <<>>
  /\ utterance = NoUtterance /\ out = NoUtterance
  /\ taken = 0 /\ speaking = FALSE

-----------------------------------------------------------------------------
SamplesOf(first) == [i \in 1 .. Frame |-> first + i - 1]

\* The running utterance with the samples of the frame that still fit.
Extended(a) ==
  [a EXCEPT !.samples = @ \o SubSeq(SamplesOf(cursor), 1, Smaller(Frame, MaxUtterance - Len(@)))]

\* Slip: the end is not bounded by what was recorded.
UtteranceUnclipped(a, end) == [a EXCEPT !.end = end]

\* finish_at: the utterance up to `end', or as far as it has been recorded.
Utterance(a, end) ==
  LET length == Smaller(Larger(end, a.start) - a.start, Len(a.samples))
  IN [a EXCEPT !.samples = SubSeq(@, 1, length), !.end = a.start + length]

\* The idle frames with the new one, without those that are too old.
Kept ==
  LET frames == Append(idle, cursor)
  IN SubSeq(frames, Larger(Len(frames) - Retained, 0) + 1, Len(frames))

\* The utterance that begins at `start', recorded from the idle frames.
Opened(start) ==
  LET recorded == FlattenSeq([i \in DOMAIN Kept |-> SamplesOf(Kept[i])])
      missing == Smaller(start - (FrameEnd - Frame * Len(Kept)), Len(recorded))
  IN [NoUtterance EXCEPT !.samples = SubSeq(recorded, missing + 1, Len(recorded)), !.start = start]

Emit(u) == out' = u /\ utterance' = NoUtterance
Continue(a) == utterance' = a /\ out' = NoUtterance

-----------------------------------------------------------------------------
(* ActivityBuffer::push.  `start' and `end' say how many samples before the end *)
(* of the frame the detector has put an event, or Never.                        *)

Closes(end) == end # Never /\ FrameEnd >= end + PostRoll

\* Speech that resumes after a reported end takes the end back.
EndOf(start, end, a) ==
  IF end # Never THEN Backwards(end) ELSE IF start # Never THEN Never ELSE a.end

PushActive(start, end) ==
  /\ utterance # NoUtterance
  /\ UNCHANGED idle
  /\ LET longer == [Extended(utterance) EXCEPT !.end = EndOf(start, end, utterance)]
     IN IF Closes(longer.end) THEN Emit(Utterance(longer, longer.end + PostRoll))
        ELSE IF Len(longer.samples) >= MaxUtterance THEN Emit(Utterance(longer, FrameEnd))
        ELSE Continue(longer)

PushIdle(start, end) ==
  /\ utterance = NoUtterance
  /\ IF start = Never
     THEN idle' = Kept /\ Continue(NoUtterance)
     ELSE /\ idle' = <<>>
          /\ LET first == Larger(FrameEnd - Frame * Len(Kept), Larger(Backwards(start) - PreRoll, 0))
                 begun == [Opened(first) EXCEPT !.end = EndOf(Never, end, NoUtterance)]
             IN \* The OpenVINO worker leaves the closing to the next frame.
                IF engine = "audiocpp" /\ Closes(begun.end)
                THEN Emit(Utterance(begun, begun.end + PostRoll))
                ELSE Continue(begun)

\* An utterance that was emitted has restarted the detector.
Advance ==
  /\ cursor + Frame <= MaxFrames * Frame
  /\ cursor' = FrameEnd
  /\ taken' = IF out # NoUtterance THEN cursor ELSE taken
  /\ UNCHANGED engine

\* Where the detector may put an event: within what it has heard since its restart.
Backs == {Never} \cup 0 .. Smaller(MaxBack, FrameEnd - (IF out # NoUtterance THEN cursor ELSE taken))

Push(start, end) ==
  /\ engine # "whisper"
  /\ start \in Backs /\ end \in Backs
  /\ start # Never /\ end # Never => start >= end
  /\ PushActive(start, end) \/ PushIdle(start, end)
  /\ speaking' = (end = Never /\ (start # Never \/ (speaking /\ out = NoUtterance)))
  /\ Advance

-----------------------------------------------------------------------------
(* EndpointBuffer::push.  The probability is below END_THRESHOLD, between the    *)
(* two thresholds, or at least START_THRESHOLD.                                  *)

Levels == {"silence", "unsure", "speech"}

HearActive(level) ==
  /\ utterance # NoUtterance
  /\ UNCHANGED idle
  /\ LET longer == [Extended(utterance) EXCEPT !.silence = IF level = "silence" THEN @ + 1 ELSE 0]
     IN IF longer.silence >= EndSilence \/ Len(longer.samples) >= MaxUtterance
        THEN Emit([longer EXCEPT !.end = FrameEnd])
        ELSE Continue(longer)

HearIdle(level) ==
  /\ utterance = NoUtterance
  /\ IF level = "speech"
     THEN /\ idle' = <<>>
          /\ Continue(Opened(FrameEnd - Frame * Len(Kept)))
     ELSE idle' = Kept /\ Continue(NoUtterance)

HearFrame(level) ==
  /\ engine = "whisper"
  /\ HearActive(level) \/ HearIdle(level)
  /\ speaking' = (level # "silence")
  /\ Advance

-----------------------------------------------------------------------------
\* The stream is finished: what was recorded so far is the last utterance.
FinishStream ==
  /\ utterance # NoUtterance
  /\ Emit(IF engine = "whisper" THEN [utterance EXCEPT !.end = cursor] ELSE Utterance(utterance, cursor))
  /\ taken' = IF out # NoUtterance THEN cursor ELSE taken
  /\ speaking' = FALSE
  /\ UNCHANGED <<engine, cursor, idle>>

\* Another stream starts with a new buffer.
StartStream ==
  /\ cursor # 0
  /\ cursor' = 0 /\ idle' = <<>>
  /\ utterance' = NoUtterance /\ out' = NoUtterance
  /\ taken' = 0 /\ speaking' = FALSE
  /\ UNCHANGED engine

BufferStep ==
  \/ \E start, end \in {Never} \cup 0 .. MaxBack : Push(start, end)
  \/ \E level \in Levels : HearFrame(level)
  \/ FinishStream \/ StartStream

BufferSpec == BufferInit /\ [][BufferStep]_bufferVars

-----------------------------------------------------------------------------
(* Properties. *)

\* Both stores are bounded: the idle frames by the pre-roll and two frames, an utterance
\* by MAX_UTTERANCE_SAMPLES.
BufferTypeOK ==
  /\ engine \in Engines
  /\ cursor \in Nat /\ taken \in Nat /\ speaking \in BOOLEAN
  /\ idle \in Seq(Nat) /\ Len(idle) <= Retained
  /\ \A u \in {utterance, out} : u.samples \in Seq(Nat) /\ Len(u.samples) <= MaxUtterance

\* An utterance holds, without a gap, the samples of the interval it reports, and no
\* sample is handed out twice: it begins behind the frame that completed the one before.
\* "Merge speech that resumes during the trailing-context window": only its size ends it
\* while the detector hears speech.  The end that the whisper worker reports may lie
\* behind a truncated recording.
UtteranceExact ==
  out # NoUtterance =>
    /\ out.start >= taken
    /\ \A i \in DOMAIN out.samples : out.samples[i] = out.start + i - 1
    /\ \/ out.end = out.start + Len(out.samples)
       \/ engine = "whisper" /\ Len(out.samples) = MaxUtterance
    /\ speaking => Len(out.samples) = MaxUtterance
=============================================================================
