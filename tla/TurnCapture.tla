----------------------------- MODULE TurnCapture -----------------------------
(***************************************************************************)
(* What a Relay session records of a call: the TurnTracer, whose spans     *)
(* outlive their turns for a while, the MediaCapture, whose files are      *)
(* closed by asynchronous writes, and the session that feeds both with the *)
(* upstream's events and ends both when its client leaves or sends another *)
(* session.config.                                                         *)
(*                                                                         *)
(* Tracing and capture are both on.  (With tracing off a turn has no id,   *)
(* and nothing is captured either.)  Turns are numbered as they start; the *)
(* content of spans and files is left out.                                 *)
(***************************************************************************)
EXTENDS Naturals, Sequences, FiniteSets

CONSTANTS
    MaxTurns,       \* bound: turns of a connection
    Tools           \* tool calls

Turns == 1..MaxTurns
NoTurn == 0

\* Who ends a logical session: another session.config, and cleanup() for each of
\* the socket's error and close events.
Enders == {"config", "error", "close"}

VARIABLES
    upstream,       \* the session's adapter delivers events
    started,        \* the number of the last turn
    activeTurnId,   \* TurnTracer's, or NoTurn
    span,           \* each turn's generation: absent, active, pending its end, or ended
    toolSpan,       \* each tool call's span
    sessionDir,     \* MediaCapture has a directory
    currentTurn,    \* MediaCapture's, or NoTurn
    capture,        \* the files of each turn
    attachTo,       \* the turn finalizeMediaTurn was given, of each turn it closes
    completedTurns, \* the turns the session's audio is stitched from
    mediaOn,        \* the turn whose span got the media attributes of a turn
    ender,          \* where each ender stands
    awaits,         \* the turn whose files an ender waits for
    late            \* history: turns started while cleanup() closes the media

tracerVars == <<activeTurnId, span, toolSpan>>
mediaVars == <<sessionDir, currentTurn, capture, attachTo, completedTurns>>
enderVars == <<ender, awaits>>
captureVars == <<upstream, started, tracerVars, mediaVars, mediaOn, enderVars, late>>

CaptureTypeOK ==
    /\ upstream \in BOOLEAN /\ started \in 0..MaxTurns
    /\ activeTurnId \in Turns \cup {NoTurn} /\ currentTurn \in Turns \cup {NoTurn}
    /\ span \in [Turns -> {"none", "open", "draining", "ended"}]
    /\ toolSpan \in [Tools -> {"none", "open", "closed"}]
    /\ sessionDir \in BOOLEAN
    /\ capture \in [Turns -> {"none", "recording", "closing", "kept", "failed"}]
    /\ attachTo \in [Turns -> Turns \cup {NoTurn}]
    /\ completedTurns \in Seq(Turns)
    /\ mediaOn \in [Turns -> Turns \cup {NoTurn}]
    /\ ender \in [Enders -> {"idle", "turn", "stitching", "stitched", "ending", "preparing",
                             "done"}]
    /\ awaits \in [Enders -> Turns \cup {NoTurn}]
    /\ late \subseteq Turns

\* A session whose first session.config was accepted.
Init ==
    /\ upstream = TRUE /\ started = 0
    /\ activeTurnId = NoTurn
    /\ span = [t \in Turns |-> "none"]
    /\ toolSpan = [x \in Tools |-> "none"]
    /\ sessionDir \in BOOLEAN
    /\ currentTurn = NoTurn
    /\ capture = [t \in Turns |-> "none"]
    /\ attachTo = [t \in Turns |-> NoTurn]
    /\ completedTurns = <<>>
    /\ mediaOn = [t \in Turns |-> NoTurn]
    /\ ender = [e \in Enders |-> "idle"]
    /\ awaits = [e \in Enders |-> NoTurn]
    /\ late = {}

-----------------------------------------------------------------------------
\* resolveTarget(t): the turn's span still takes attributes.
TakesAttributes(t) == t # NoTurn /\ span[t] \in {"open", "draining"}

Waited(e) == awaits[e] \notin {t \in Turns : capture[t] = "closing"}

\* No ender can go on at once: the event loop turns to the next event.
Quiet ==
    \A e \in Enders :
        ender[e] # "stitched" /\ (Waited(e) => ender[e] \notin {"turn", "ending"})

Draining == {t \in Turns : span[t] = "draining"}

\* endTurn(), then the next turn, if any: the generation of a turn with content
\* stays open for a while; a turn without content leaves no trace.
EndTurn(next) ==
    /\ activeTurnId' = next
    /\ span' = IF activeTurnId # NoTurn /\ span[activeTurnId] = "open"
               THEN [span EXCEPT ![activeTurnId] = "draining"]
               ELSE span

\* media.finalizeTurn() up to its first wait: whatever turn is recorded is closed.
\* Its attributes go to turnId, or nowhere.
CloseFiles(turnId) ==
    /\ capture' = IF currentTurn = NoTurn THEN capture
                  ELSE [capture EXCEPT ![currentTurn] = "closing"]
    /\ attachTo' = IF currentTurn = NoTurn THEN attachTo
                   ELSE [attachTo EXCEPT ![currentTurn] = turnId]
    /\ currentTurn' = NoTurn

\* finalizeMediaTurn(turnId) up to its first wait.
FinalizeMediaTurn(turnId) ==
    IF turnId = NoTurn THEN UNCHANGED <<currentTurn, capture, attachTo>>
    ELSE CloseFiles(turnId)

-----------------------------------------------------------------------------
(***************************************************************************)
(* The upstream's events, at any time and in any order: a reply that was   *)
(* interrupted ends after the next turn has started, and one that nobody   *)
(* asked for ends a turn that never started.                               *)
(***************************************************************************)

\* startMediaTurn: a turn that is still recorded is closed, and its attributes are
\* dropped.
StartMediaTurn(t) ==
    IF ~sessionDir THEN UNCHANGED <<currentTurn, capture, attachTo>>
    ELSE /\ capture' = [u \in Turns |-> IF u = t THEN "recording"
                                        ELSE IF u = currentTurn THEN "closing"
                                        ELSE capture[u]]
         /\ currentTurn' = t
         /\ UNCHANGED attachTo

TurnStarted ==
    /\ Quiet /\ upstream /\ started < MaxTurns
    /\ started' = started + 1
    /\ EndTurn(started + 1)
    /\ StartMediaTurn(started + 1)
    /\ late' = IF \E e \in Enders : ender[e] = "ending" THEN late \cup {started + 1} ELSE late
    /\ UNCHANGED <<upstream, toolSpan, sessionDir, completedTurns, mediaOn, enderVars>>

\* ensureActiveGeneration: the span of a turn is opened by its first content.
EnsureActiveGeneration ==
    span' = IF activeTurnId # NoTurn /\ span[activeTurnId] = "none"
            THEN [span EXCEPT ![activeTurnId] = "open"]
            ELSE span

\* transcript.delta
Transcript ==
    /\ Quiet /\ upstream
    /\ EnsureActiveGeneration
    /\ UNCHANGED <<upstream, started, activeTurnId, toolSpan, mediaVars, mediaOn, enderVars, late>>

\* tool.call: its span hangs below the turn's.
ToolCall(x) ==
    /\ Quiet /\ upstream /\ toolSpan[x] = "none"
    /\ EnsureActiveGeneration
    /\ toolSpan' = IF activeTurnId # NoTurn THEN [toolSpan EXCEPT ![x] = "open"] ELSE toolSpan
    /\ UNCHANGED <<upstream, started, activeTurnId, mediaVars, mediaOn, enderVars, late>>

\* endToolCall, on whatever turn the result arrives.
EndToolCall(x) ==
    /\ Quiet /\ toolSpan[x] = "open"
    /\ toolSpan' = [toolSpan EXCEPT ![x] = "closed"]
    /\ UNCHANGED <<upstream, started, activeTurnId, span, mediaVars, mediaOn, enderVars, late>>

\* Mutant: the active turn is asked for after endTurn cleared it.
TurnEndedFirst ==
    /\ Quiet /\ upstream
    /\ FinalizeMediaTurn(NoTurn)
    /\ EndTurn(NoTurn)
    /\ UNCHANGED <<upstream, started, toolSpan, sessionDir, completedTurns, mediaOn, enderVars, late>>

\* turn.ended
TurnEnded ==
    /\ Quiet /\ upstream
    /\ FinalizeMediaTurn(activeTurnId)
    /\ EndTurn(NoTurn)
    /\ UNCHANGED <<upstream, started, toolSpan, sessionDir, completedTurns, mediaOn, enderVars, late>>

-----------------------------------------------------------------------------
\* Mutant: the audio is stitched from the turns that attributes were asked for.
FilesClosedAsked(t) ==
    /\ Quiet /\ capture[t] = "closing"
    /\ capture' = [capture EXCEPT ![t] = "kept"]
    /\ completedTurns' = Append(completedTurns, attachTo[t])
    /\ mediaOn' = IF TakesAttributes(attachTo[t])
                  THEN [mediaOn EXCEPT ![t] = attachTo[t]] ELSE mediaOn
    /\ UNCHANGED <<upstream, started, tracerVars, sessionDir, currentTurn, attachTo, enderVars, late>>

\* The files of a turn are closed: its attributes go to the span they were asked
\* for, if that is still open.
FilesClosed(t) ==
    /\ Quiet /\ capture[t] = "closing"
    /\ capture' = [capture EXCEPT ![t] = "kept"]
    /\ completedTurns' = Append(completedTurns, t)
    /\ mediaOn' = IF TakesAttributes(attachTo[t])
                  THEN [mediaOn EXCEPT ![t] = attachTo[t]] ELSE mediaOn
    /\ UNCHANGED <<upstream, started, tracerVars, sessionDir, currentTurn, attachTo, enderVars, late>>

\* The manifest of its frames could not be written.
FilesFail(t) ==
    /\ Quiet /\ capture[t] = "closing"
    /\ capture' = [capture EXCEPT ![t] = "failed"]
    /\ UNCHANGED <<upstream, started, tracerVars, sessionDir, currentTurn, attachTo,
                   completedTurns, mediaOn, enderVars, late>>

\* flushPending, by the turn's timer.
FlushPending(t) ==
    /\ Quiet /\ span[t] = "draining"
    /\ span' = [span EXCEPT ![t] = "ended"]
    /\ UNCHANGED <<upstream, started, activeTurnId, toolSpan, mediaVars, mediaOn, enderVars, late>>

-----------------------------------------------------------------------------
\* cleanup(), or a session.config that replaces the adapter: the active turn's
\* files are closed first.  cleanup() leaves the adapter connected until its end.
Leave(e) ==
    /\ Quiet /\ ender[e] = "idle"
    /\ e = "config" => upstream
    /\ upstream' = (upstream /\ e # "config")
    /\ ender' = [ender EXCEPT ![e] = "turn"]
    /\ awaits' = [awaits EXCEPT ![e] = IF activeTurnId = NoTurn THEN NoTurn ELSE currentTurn]
    /\ FinalizeMediaTurn(activeTurnId)
    /\ UNCHANGED <<started, tracerVars, sessionDir, completedTurns, mediaOn, late>>

\* finalizeSessionMedia(), up to its last wait.  The attributes of the session as a
\* whole are left out.
Stitch(e) ==
    /\ ender[e] = "turn" /\ Waited(e)
    /\ ender' = [ender EXCEPT ![e] =
          IF completedTurns = <<>> \/ (activeTurnId = NoTurn /\ Draining = {})
          THEN "stitched" ELSE "stitching"]
    /\ UNCHANGED <<upstream, started, tracerVars, mediaVars, mediaOn, awaits, late>>

\* media.endSession() up to its first wait: a turn still recorded is closed.
EndMedia(e) ==
    /\ ender[e] \in {"stitching", "stitched"}
    /\ ender' = [ender EXCEPT ![e] = "ending"]
    /\ awaits' = [awaits EXCEPT ![e] = currentTurn]
    /\ CloseFiles(NoTurn)
    /\ UNCHANGED <<upstream, started, tracerVars, sessionDir, completedTurns, mediaOn, late>>

\* tracer.endSession()
EndTraces ==
    /\ activeTurnId' = NoTurn
    /\ span' = [t \in Turns |-> IF span[t] \in {"open", "draining"} THEN "ended" ELSE span[t]]
    /\ toolSpan' = [x \in Tools |-> IF toolSpan[x] = "open" THEN "closed" ELSE toolSpan[x]]

\* The media are closed: the tracer's session ends, and cleanup() disconnects the
\* adapter.
EndSession(e) ==
    /\ ender[e] = "ending" /\ Waited(e)
    /\ sessionDir' = FALSE /\ completedTurns' = <<>>
    /\ EndTraces
    /\ upstream' = (upstream /\ e = "config")
    /\ ender' = [ender EXCEPT ![e] = IF e = "config" THEN "preparing" ELSE "done"]
    /\ UNCHANGED <<started, currentTurn, capture, attachTo, mediaOn, awaits, late>>

\* The new configuration is accepted: the next logical session starts.
StartSession ==
    /\ Quiet /\ ender["config"] = "preparing"
    /\ ender' = [ender EXCEPT !["config"] = "done"]
    /\ upstream' = TRUE
    /\ sessionDir' \in BOOLEAN /\ completedTurns' = <<>>
    /\ UNCHANGED <<started, tracerVars, currentTurn, capture, attachTo, mediaOn, awaits, late>>

\* It is not: the socket is closed.
Refuse ==
    /\ Quiet /\ ender["config"] = "preparing"
    /\ ender' = [ender EXCEPT !["config"] = "done"]
    /\ UNCHANGED <<upstream, started, tracerVars, mediaVars, mediaOn, awaits, late>>

-----------------------------------------------------------------------------
Next ==
    \/ TurnStarted
    \/ Transcript
    \/ TurnEnded
    \/ \E x \in Tools : ToolCall(x) \/ EndToolCall(x)
    \/ \E t \in Turns : FilesClosed(t) \/ FilesFail(t) \/ FlushPending(t)
    \/ \E e \in Enders : Leave(e) \/ Stitch(e) \/ EndMedia(e) \/ EndSession(e)
    \/ StartSession
    \/ Refuse

Spec == Init /\ [][Next]_captureVars

-----------------------------------------------------------------------------
\* What is recorded is what is traced: files are open for the active turn only,
\* through turns that overlap, late ends and an end of the session in between, so
\* that no file is described on the span of another turn; and only the active turn's
\* span is open.
RecordedIsTraced ==
    /\ currentTurn \in {NoTurn, activeTurnId} \cup late
    /\ \A t \in Turns :
          /\ span[t] = "open" => t = activeTurnId
          /\ mediaOn[t] \in {NoTurn, t}
          /\ capture[t] = "recording" <=> t = currentTurn

\* No turn is stitched into a session's audio twice, though an interrupted end of
\* the session closes the same turn from two places.
StitchedOnce ==
    \A i, j \in DOMAIN completedTurns : completedTurns[i] = completedTurns[j] => i = j

\* When every end of the session is over and nothing feeds it, no span and no file
\* is left open, whichever of them came last.
NothingLeftOpen ==
    (~upstream /\ \A e \in Enders : ender[e] \in {"idle", "done"}
        /\ "done" \in {ender["error"], ender["close"]})
    => /\ activeTurnId = NoTurn /\ Draining = {} /\ currentTurn \in {NoTurn} \cup late
       /\ \A t \in Turns : span[t] # "open"
       /\ \A x \in Tools : toolSpan[x] # "open"

CaptureAccounted == RecordedIsTraced /\ StitchedOnce /\ NothingLeftOpen
=============================================================================
