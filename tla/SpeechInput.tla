----------------------------- MODULE SpeechInput -----------------------------
(***************************************************************************)
(* What the user says in the stt-tts mode, on its way to the Harness: the  *)
(* ComposedAdapter of a Relay session and the GPT-SoVITS recognizer, which *)
(* cuts the stream of the microphone into utterances by their energy and   *)
(* recognizes one after another in processes of its own.                   *)
(*                                                                         *)
(* Audio is a sequence of frames, numbered as they are spoken, that arrive *)
(* in chunks of whole frames.  Their energy is a level: a frame is over a  *)
(* threshold when its level is above that of the noise floor, or of the    *)
(* least threshold, which is level 0.  The floor is a running mean, so a   *)
(* quiet frame may or may not bring it down by a level.                    *)
(***************************************************************************)
EXTENDS Naturals, Sequences, SequencesExt

CONSTANTS
    MaxFrames,      \* bound: frames spoken
    MaxChunk,       \* frames of a chunk
    MaxCommits,     \* bound: audio.commit messages
    Loudest,        \* levels are 0..Loudest
    Calibration,    \* frames the noise floor is measured over
    Endpoint,       \* frames of silence that end an utterance
    PreRoll,        \* frames kept of what is known to be noise
    Onset           \* frames kept of what may still prove to be speech

VARIABLES
    ear,            \* #pcm and what #observeFrame keeps
    handed,         \* the utterances given to #recognize
    recognized,     \* how many of them are over
    running,        \* the first of the others is being recognized
    isConnected,    \* before disconnect(): its generation is the current one
    audioBuffer, retryAudio, sttTimeout,
    inTurn,         \* activeTurnId is set
    commits,        \* audio.commit messages
    spoken,         \* frames spoken
    voiced,         \* history: the frames of observed speech
    resent,         \* history: frames processed once more
    transcripts,    \* history: utterances that were transcribed, in order
    ended           \* the process ended by an unhandled rejection

recognizerVars == <<ear, handed, recognized, running, voiced>>
adapterVars == <<audioBuffer, retryAudio, sttTimeout, inTurn, resent, transcripts>>
inputVars == <<recognizerVars, adapterVars, isConnected, commits, spoken, ended>>

Frames == 1..MaxFrames
Levels == 0..Loudest
Most(m, n) == IF m >= n THEN m ELSE n
LastOf(s, n) == SubSeq(s, Len(s) - n + 1, Len(s))
AllBut(s, n) == SubSeq(s, 1, Len(s) - n)

NewEar ==
    [pcm |-> <<>>, silence |-> 0, measured |-> FALSE, floor |-> 0, calibrated |-> 0,
     least |-> Loudest, peak |-> 0, speech |-> FALSE, noise |-> FALSE]

Init ==
    /\ ear = NewEar /\ handed = <<>> /\ recognized = 0 /\ running = FALSE
    /\ isConnected = TRUE
    /\ audioBuffer = <<>> /\ retryAudio = FALSE /\ sttTimeout = FALSE
    /\ inTurn = FALSE
    /\ commits = 0 /\ spoken = 0
    /\ voiced = {} /\ resent = {} /\ transcripts = <<>>
    /\ ended = FALSE

-----------------------------------------------------------------------------
(* GptSovitsSTTProvider: #observeFrame, frame by frame. *)

\* #resetUtterance: the noise floor stays.
ResetUtterance(e) ==
    [e EXCEPT !.pcm = <<>>, !.silence = 0, !.peak = e.floor, !.speech = FALSE,
              !.noise = e.measured]

\* Mutant: the buffer is cut to the pre-roll while speech may still show.
TrimAlways(e) ==
    IF Len(e.pcm) > PreRoll THEN [e EXCEPT !.noise = TRUE, !.pcm = LastOf(@, PreRoll)] ELSE e

\* #trimToPreRoll, of what was not observed to be speech.
Trim(e) ==
    IF e.speech \/ (~e.noise /\ Len(e.pcm) <= Onset) THEN e
    ELSE [e EXCEPT !.noise = TRUE, !.pcm = IF Len(@) > PreRoll THEN LastOf(@, PreRoll) ELSE @]

Calibrate(e, level) ==
    LET floor == IF level < e.least THEN level ELSE e.least
        heard == e.peak > floor
    IN IF e.calibrated + 1 < Calibration
       THEN [e EXCEPT !.calibrated = @ + 1, !.least = floor]
       ELSE Trim([e EXCEPT !.measured = TRUE, !.floor = floor, !.speech = heard,
                           !.silence = IF heard /\ level <= floor THEN 1 ELSE 0])

\* A level above what follows proves to have been speech.
Classify(e, level, falls) ==
    LET heard == e.speech \/ e.peak > level IN
    IF level > e.floor
    THEN [e EXCEPT !.speech = TRUE, !.silence = 0]
    ELSE Trim([e EXCEPT !.speech = heard, !.silence = IF heard THEN @ + 1 ELSE 0,
                        !.floor = IF falls /\ @ > level THEN @ - 1 ELSE @])

\* #recognize, of an utterance that is not empty.
Recognize(before, utterance) ==
    IF utterance = <<>> THEN before ELSE Append(before, utterance)

Observe(e, frame) ==
    LET heard == [e EXCEPT !.pcm = Append(@, frame.id), !.peak = Most(@, frame.level)]
    IN IF e.measured THEN Classify(heard, frame.level, frame.falls)
       ELSE Calibrate(heard, frame.level)

\* A frame of processAudio's loop, on what the frames before it made.  When the
\* utterance ends, #tail is dropped with it, and so are the frames behind.
Hear(so, frame) ==
    LET e == Observe(so.ear, frame)
        utterance == AllBut(e.pcm, e.silence)
        heard == IF e.speech THEN so.voiced \cup Range(utterance) ELSE so.voiced
    IN IF so.over THEN so
       ELSE IF e.speech /\ e.silence >= Endpoint
       THEN [ear |-> ResetUtterance(e), over |-> TRUE, voiced |-> heard,
             handed |-> Recognize(so.handed, utterance)]
       ELSE [so EXCEPT !.ear = e, !.voiced = heard]

\* The frames of the chunks, which are processed one after another.
ProcessAudio(from, chunks) ==
    LET Chunk(so, chunk) == FoldLeft(Hear, [so EXCEPT !.over = FALSE], chunk)
    IN FoldLeft(Chunk, [ear |-> from, over |-> FALSE, voiced |-> voiced, handed |-> handed],
                chunks)

-----------------------------------------------------------------------------
(* ComposedAdapter *)

Alive == isConnected /\ ~ended

\* sendAudio
SendAudio(chunk) ==
    /\ Alive /\ spoken + Len(chunk) <= MaxFrames
    /\ spoken' = spoken + Len(chunk)
    /\ inTurn' = TRUE
    /\ LET numbered == [i \in DOMAIN chunk |->
               [id |-> spoken + i, level |-> chunk[i].level, falls |-> chunk[i].falls]]
           so == ProcessAudio(ear, <<numbered>>)
       IN /\ audioBuffer' = Append(audioBuffer, numbered)
          /\ ear' = so.ear /\ handed' = so.handed /\ voiced' = so.voiced
    /\ UNCHANGED <<recognized, running, isConnected, retryAudio, sttTimeout, commits, resent,
                   transcripts, ended>>

Sounds == {sound \in [level : Levels, falls : BOOLEAN] : sound.falls => sound.level < Loudest}
Chunks == UNION {[1..n -> Sounds] : n \in 1..MaxChunk}

\* Mutant: a commit leaves an utterance whose end was not heard yet.
CommitDropsSpeech(so) ==
    IF so.ear.speech THEN so.handed ELSE Recognize(so.handed, so.ear.pcm)

\* commit(): the recognizer ends the utterance it is in, even if it is of noise.
Committed(so) == Recognize(so.handed, AllBut(so.ear.pcm, so.ear.silence))

\* commitAudio: after a timeout the buffered audio goes to the recognizer once more.
CommitAudio ==
    /\ Alive /\ commits < MaxCommits
    /\ commits' = commits + 1
    /\ LET so == ProcessAudio(ear, IF retryAudio THEN audioBuffer ELSE <<>>)
       IN /\ ear' = ResetUtterance(so.ear) /\ handed' = Committed(so)
          /\ voiced' = so.voiced
    /\ resent' = IF retryAudio
                 THEN resent \cup UNION {{chunk[i].id : i \in DOMAIN chunk} : chunk \in Range(audioBuffer)}
                 ELSE resent
    /\ retryAudio' = FALSE /\ sttTimeout' = TRUE
    /\ UNCHANGED <<recognized, running, isConnected, audioBuffer, inTurn, spoken, transcripts,
                   ended>>

\* The deadline of the final transcript: the Client is asked to retry.
Deadline ==
    /\ sttTimeout /\ Alive
    /\ sttTimeout' = FALSE /\ retryAudio' = TRUE
    /\ UNCHANGED <<recognizerVars, audioBuffer, inTurn, resent, transcripts, isConnected, commits,
                   spoken, ended>>

\* onFinalTranscript and dispatchText
FinalTranscript(u) ==
    /\ transcripts' = Append(transcripts, u)
    /\ sttTimeout' = FALSE /\ audioBuffer' = <<>> /\ retryAudio' = FALSE
    /\ inTurn' = TRUE
    /\ UNCHANGED resent

\* harness.terminal: whichever turn it is of, the adapter is in none then.  A transcript
\* the Harness refuses leaves the turn as it is.
HarnessTerminal ==
    /\ Alive /\ transcripts # <<>> /\ inTurn
    /\ inTurn' = FALSE
    /\ UNCHANGED <<recognizerVars, audioBuffer, retryAudio, sttTimeout, resent, transcripts,
                   isConnected, commits, spoken, ended>>

\* disconnect, of the adapter and its recognizer.
Disconnect ==
    /\ Alive
    /\ isConnected' = FALSE /\ sttTimeout' = FALSE /\ ear' = NewEar
    /\ UNCHANGED <<handed, recognized, running, voiced, audioBuffer, retryAudio, inTurn, resent,
                   transcripts, commits, spoken, ended>>

-----------------------------------------------------------------------------
(* The chain of recognitions, #pending, which goes on after a disconnect. *)

Waiting == ~ended /\ recognized < Len(handed)

\* #recognize's continuation: an utterance of a session that is over is skipped.
Run ==
    /\ Waiting /\ ~running
    /\ IF isConnected THEN running' = TRUE /\ UNCHANGED recognized
       ELSE recognized' = recognized + 1 /\ UNCHANGED running
    /\ UNCHANGED <<ear, handed, voiced, adapterVars, isConnected, commits, spoken, ended>>

\* Mutant: the generation is not looked at again after the process.
TranscribedLate(isText) ==
    /\ Waiting /\ running
    /\ running' = FALSE /\ recognized' = recognized + 1
    /\ IF isText THEN FinalTranscript(recognized + 1) ELSE UNCHANGED adapterVars
    /\ UNCHANGED <<ear, handed, voiced, isConnected, commits, spoken, ended>>

\* Mutant: recognitions run beside each other, and a later one may end first.
TranscribedBeside(isText) ==
    /\ Waiting /\ running
    /\ running' = FALSE /\ recognized' = recognized + 1
    /\ IF isText /\ isConnected
       THEN \E u \in DOMAIN handed \ Range(transcripts) : FinalTranscript(u)
       ELSE UNCHANGED adapterVars
    /\ UNCHANGED <<ear, handed, voiced, isConnected, commits, spoken, ended>>

\* The process ends with a text, or with none, by an error or its timeout; after a
\* disconnect nobody hears of it.
Transcribed(isText) ==
    /\ Waiting /\ running
    /\ running' = FALSE /\ recognized' = recognized + 1
    /\ IF isText /\ isConnected THEN FinalTranscript(recognized + 1) ELSE UNCHANGED adapterVars
    /\ UNCHANGED <<ear, handed, voiced, isConnected, commits, spoken, ended>>

\* Making or removing its directory fails, which nobody catches.
RunRejects ==
    /\ Waiting /\ running /\ ended' = TRUE
    /\ UNCHANGED <<recognizerVars, adapterVars, isConnected, commits, spoken>>

Next ==
    \/ \E chunk \in Chunks : SendAudio(chunk)
    \/ CommitAudio \/ Deadline \/ HarnessTerminal \/ Disconnect \/ Run \/ RunRejects
    \/ \E isText \in BOOLEAN : Transcribed(isText)

Spec == Init /\ [][Next]_inputVars

-----------------------------------------------------------------------------
InputTypeOK ==
    /\ Range(ear.pcm) \subseteq Frames /\ ear.silence <= Len(ear.pcm)
    /\ ear.floor \in Levels /\ ear.peak \in Levels
    /\ recognized <= Len(handed)
    /\ \A i \in DOMAIN handed : handed[i] # <<>> /\ Range(handed[i]) \subseteq Frames

\* Speech that was observed is recognized, or still waits in the recognizer, but for
\* the rest of a chunk in which an utterance ended; and what is said first is kept whole
\* until it can be told from noise, for it may prove to have been speech.
NoSpeechLost ==
    Alive =>
        /\ voiced \subseteq Range(ear.pcm) \cup UNION {Range(handed[i]) : i \in DOMAIN handed}
        /\ handed = <<>> /\ spoken <= Onset => ear.pcm = [i \in 1..spoken |-> i]

\* Utterances are pieces of what was spoken, each frame of at most one, and in
\* order; but for frames that were sent once more after a timeout.
SpokenOnce ==
    /\ \A i, j \in DOMAIN handed : i < j =>
          \A f \in Range(handed[i]) \ resent, g \in Range(handed[j]) \ resent : f < g
    /\ \A i \in DOMAIN handed : \A f, g \in Range(handed[i]) :
          f < g /\ Range(handed[i]) \cap resent = {} => f..g \subseteq Range(handed[i])

\* The Harness is given the utterances in the order they were spoken in, each at most once
\* (openspec/specs/voice/gpt-sovits/spec.md:63).
TranscriptsInOrder ==
    \A i, j \in DOMAIN transcripts : i < j => transcripts[i] < transcripts[j]

\* A session that is over is given no transcript.
SilentAfterDisconnect == [][~isConnected => transcripts' = transcripts]_inputVars
=============================================================================
