----------------------------- MODULE MobileAudio -----------------------------
(***************************************************************************)
(* The audio engine of the phone: its capture, its player, and the echo    *)
(* gate, which replaces a quiet microphone by silence while the player has *)
(* something to play.  The app calls it on one thread; the player calls    *)
(* back on a thread of its own when a buffer is over, which it is when it  *)
(* was played and when the player is stopped.  Both threads change the     *)
(* count of the buffers without a lock: each change reads it and writes it *)
(* in two steps.                                                           *)
(*                                                                         *)
(* The player and the interruptions are the system's.  Samples, gain and   *)
(* the microphone's level are left out.                                    *)
(***************************************************************************)
EXTENDS Integers

CONSTANTS
    Null,
    MaxBuffers,         \* bound: buffers that are played
    MaxCaptures         \* bound: captures that are started

VARIABLES
    isCapturing, isRunning,     \* the capture; its engine runs
    captures, received,         \* how many there were, and how many buffers
    scheduled,                  \* the buffers the player has
    due,                        \* those that are over, whose callback is not
    adding, taking,             \* what playAudio and a callback have read of the count
    playbackBufferCount,
    justPlayed,                 \* lastPlaybackTime is less than 200 ms ago
    raced,                      \* history: a change of the count was overwritten
    cut                         \* history: it was set to zero with callbacks to come

audioVars == <<isCapturing, isRunning, captures, received, scheduled, due, adding, taking,
               playbackBufferCount, justPlayed, raced, cut>>
playVars == <<scheduled, due, adding, taking, playbackBufferCount, justPlayed, raced, cut>>

Counts == (-MaxBuffers)..MaxBuffers

AudioTypeOK ==
    /\ isCapturing \in BOOLEAN /\ isRunning \in BOOLEAN /\ isRunning => isCapturing
    /\ captures \in 0..MaxCaptures /\ received \in 0..MaxBuffers
    /\ scheduled \in 0..MaxBuffers /\ due \in 0..MaxBuffers
    /\ adding \in Counts \cup {Null} /\ taking \in Counts \cup {Null}
    /\ playbackBufferCount \in Counts
    /\ justPlayed \in BOOLEAN /\ raced \in BOOLEAN /\ cut \in BOOLEAN

Init ==
    /\ isCapturing = FALSE /\ isRunning = FALSE /\ captures = 0 /\ received = 0
    /\ scheduled = 0 /\ due = 0 /\ adding = Null /\ taking = Null
    /\ playbackBufferCount = 0 /\ justPlayed = FALSE /\ raced = FALSE /\ cut = FALSE

\* The app's thread is in no other call.
Free == adding = Null

-----------------------------------------------------------------------------
StartCapture ==
    /\ Free /\ ~isCapturing /\ captures < MaxCaptures
    /\ isCapturing' = TRUE /\ isRunning' = TRUE /\ captures' = captures + 1
    /\ UNCHANGED <<received, playVars>>

\* Mutant: the count is set to zero with the player stopped.
StopCaptureResets ==
    /\ Free /\ isCapturing
    /\ isCapturing' = FALSE /\ isRunning' = FALSE
    /\ scheduled' = 0 /\ due' = due + scheduled
    /\ playbackBufferCount' = 0
    /\ UNCHANGED <<captures, received, adding, taking, justPlayed, raced, cut>>

\* The player is stopped: what it still had is over.
StopCapture ==
    /\ Free /\ isCapturing
    /\ isCapturing' = FALSE /\ isRunning' = FALSE
    /\ scheduled' = 0 /\ due' = due + scheduled
    /\ UNCHANGED <<captures, received, adding, taking, playbackBufferCount, justPlayed, raced, cut>>

\* A telephone call or an alarm stops the engine.
Interrupted ==
    /\ isRunning
    /\ isRunning' = FALSE
    /\ UNCHANGED <<isCapturing, captures, received, playVars>>

InterruptionEnds ==
    /\ isCapturing /\ ~isRunning
    /\ isRunning' = TRUE
    /\ UNCHANGED <<isCapturing, captures, received, playVars>>

\* playAudio, up to the count it reads; a buffer is dropped while no engine runs.
PlayReads ==
    /\ Free /\ isCapturing /\ isRunning /\ received < MaxBuffers
    /\ adding' = playbackBufferCount
    /\ received' = received + 1
    /\ UNCHANGED <<isCapturing, isRunning, captures, scheduled, due, taking, playbackBufferCount,
                   justPlayed, raced, cut>>

\* ... and the rest of it.
Plays ==
    /\ adding # Null
    /\ playbackBufferCount' = adding + 1 /\ adding' = Null
    /\ raced' = (raced \/ playbackBufferCount # adding)
    /\ justPlayed' = TRUE
    /\ scheduled' = scheduled + 1
    /\ UNCHANGED <<isCapturing, isRunning, captures, received, due, taking, cut>>

\* A buffer was played.
BufferEnds ==
    /\ isRunning /\ scheduled > 0
    /\ scheduled' = scheduled - 1 /\ due' = due + 1
    /\ UNCHANGED <<isCapturing, isRunning, captures, received, adding, taking, playbackBufferCount,
                   justPlayed, raced, cut>>

CallbackReads ==
    /\ due > 0 /\ taking = Null
    /\ taking' = playbackBufferCount
    /\ due' = due - 1
    /\ UNCHANGED <<isCapturing, isRunning, captures, received, scheduled, adding,
                   playbackBufferCount, justPlayed, raced, cut>>

\* Mutant: a buffer that is over is not taken from the count.
CallbackForgets ==
    /\ taking # Null
    /\ taking' = Null
    /\ UNCHANGED <<isCapturing, isRunning, captures, received, scheduled, due, adding,
                   playbackBufferCount, justPlayed, raced, cut>>

CallbackEnds ==
    /\ taking # Null
    /\ playbackBufferCount' = taking - 1 /\ taking' = Null
    /\ raced' = (raced \/ playbackBufferCount # taking)
    /\ UNCHANGED <<isCapturing, isRunning, captures, received, scheduled, due, adding, justPlayed,
                   cut>>

\* The player, if there is one, is stopped and started again, and the count is set to
\* zero: the callbacks of the buffers that were stopped take from it later.
StopPlayback ==
    /\ Free
    /\ scheduled' = 0 /\ due' = due + scheduled
    /\ playbackBufferCount' = 0
    /\ cut' = (cut \/ due + scheduled > 0 \/ taking # Null)
    /\ UNCHANGED <<isCapturing, isRunning, captures, received, adding, taking, justPlayed, raced>>

\* 200 ms pass.
MomentPasses ==
    /\ justPlayed
    /\ justPlayed' = FALSE
    /\ UNCHANGED <<isCapturing, isRunning, captures, received, scheduled, due, adding, taking,
                   playbackBufferCount, raced, cut>>

Next ==
    \/ StartCapture \/ StopCapture \/ Interrupted \/ InterruptionEnds
    \/ PlayReads \/ Plays \/ BufferEnds \/ CallbackReads \/ CallbackEnds \/ StopPlayback
    \/ MomentPasses

Spec == Init /\ [][Next]_audioVars

-----------------------------------------------------------------------------
IsPlaybackActive == playbackBufferCount > 0 \/ justPlayed

\* While the player has a buffer to play the echo gate is closed, so that the speaker
\* is not heard as the user -- but for the rest of the app's life not after playback was
\* stopped with buffers left, whose callbacks then bring the count below zero, and
\* not after the two threads overwrote each other's change.
EchoIsGated == ~raced /\ ~cut /\ isCapturing /\ scheduled > 0 => IsPlaybackActive

\* Once everything is played the gate opens again, unless a change was overwritten:
\* a quiet user is not replaced by silence for the rest of the call.
UserIsHeard ==
    ~raced /\ scheduled = 0 /\ due = 0 /\ adding = Null /\ taking = Null /\ ~justPlayed
      => ~IsPlaybackActive
=============================================================================
