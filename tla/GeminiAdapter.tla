---------------------------- MODULE GeminiAdapter ----------------------------
(***************************************************************************)
(* One voice session on Gemini Live: GeminiAdapter (adapters/gemini.ts),   *)
(* which replaces its upstream socket under a client that keeps talking:   *)
(* on a goAway, a close it can resume from, or a resumed session that does *)
(* not answer.                                                             *)
(*                                                                         *)
(* Left out: what audio, video and transcripts contain, and the latency    *)
(* marks.  The silence watchdog is enabled in the session's configuration. *)
(*                                                                         *)
(* Gemini is external: it may close or announce a goAway at any time, and  *)
(* it issues no handle while a tool call is in flight (gemini.ts:702).     *)
(***************************************************************************)
EXTENDS Naturals, Sequences

CONSTANTS
    Calls,               \* tool calls
    Sockets,             \* upstream sockets; a closed one may stand for a new one
    NoSocket,
    MaxAttempts,         \* MAX_RECONNECT_ATTEMPTS
    MaxPendingControl,   \* MAX_PENDING_CONTROL
    Contents             \* bound: the server content of a run, of "audio", "end" and "input"

VARIABLES
    stage,               \* where connect() stands
    upstream,            \* upstream
    sock,                \* life of each socket
    opening,             \* the socket that openUpstream() waits for
    pendingToolCalls,    \* pendingToolCalls
    call,                \* what became of each tool call
    askedOn,             \* the session that made a call, by its socket
    handle,              \* resumptionHandle is set
    currentlyResumable,  \* currentlyResumable
    rotateAfterToolCalls,\* rotateAfterToolCalls
    isReconnecting,      \* isReconnecting
    phase,               \* what reconnect() waits for
    attempt,             \* its attempt
    resumingWithHandle,  \* resumingWithHandle
    postResume,          \* off, awaiting the first input, or awaiting generation
    pendingControl,      \* pendingControl
    speaker,             \* assistantSpeaking: the session that set the gate
    watchdog,            \* watchdogTimer is set
    disconnected,        \* disconnected
    told,                \* what the client was told last of its connection
    cleanly,             \* history: the session was closed with a clean code
    misdirected,         \* history: calls answered on a session that did not make them
    excused              \* history: calls that a forced session or a wrong count overtook

socketVars == <<upstream, sock, opening, cleanly>>
callVars == <<pendingToolCalls, call, askedOn, excused>>
resumeVars == <<handle, currentlyResumable, rotateAfterToolCalls>>
rotationVars == <<isReconnecting, phase, attempt, resumingWithHandle>>
sentVars == <<pendingControl, misdirected>>
geminiVars == <<stage, upstream, sock, opening, pendingToolCalls, call, askedOn, excused, handle,
                currentlyResumable, rotateAfterToolCalls, isReconnecting, phase, attempt,
                resumingWithHandle, postResume, pendingControl, misdirected, speaker, watchdog,
                disconnected, told, cleanly>>

\* The text the silence watchdog sends, among the control messages.
Prompt == "prompt"

GeminiTypeOK ==
    /\ stage \in {"idle", "preparing", "opening", "up", "failed"}
    /\ upstream \in Sockets \cup {NoSocket} /\ opening \in Sockets \cup {NoSocket}
    /\ sock \in [Sockets -> {"unused", "opening", "ready", "closing", "closed"}]
    /\ pendingToolCalls \in Nat
    /\ call \in [Calls -> {"none", "inFlight", "cancelled", "queued", "over"}]
    /\ askedOn \in [Calls -> Sockets \cup {NoSocket}]
    /\ handle \in BOOLEAN /\ currentlyResumable \in BOOLEAN /\ rotateAfterToolCalls \in BOOLEAN
    /\ isReconnecting \in BOOLEAN /\ resumingWithHandle \in BOOLEAN /\ disconnected \in BOOLEAN
    /\ phase \in {"none", "rebuilding", "opening", "backoff"} /\ attempt \in 0..MaxAttempts
    /\ postResume \in {"off", "listening", "armed"}
    /\ pendingControl \in Seq(Calls \cup {Prompt}) /\ Len(pendingControl) <= MaxPendingControl
    /\ speaker \in Sockets \cup {NoSocket} /\ watchdog \in BOOLEAN
    /\ told \in {"nothing", "ready", "rotating", "error"} /\ cleanly \in BOOLEAN
    /\ misdirected \subseteq Calls /\ excused \subseteq Calls

Init ==
    /\ stage = "idle" /\ upstream = NoSocket /\ opening = NoSocket
    /\ sock = [s \in Sockets |-> "unused"]
    /\ pendingToolCalls = 0
    /\ call = [c \in Calls |-> "none"] /\ askedOn = [c \in Calls |-> NoSocket]
    /\ handle = FALSE /\ currentlyResumable = FALSE /\ rotateAfterToolCalls = FALSE
    /\ isReconnecting = FALSE /\ phase = "none" /\ attempt = 0 /\ resumingWithHandle = FALSE
    /\ postResume = "off" /\ pendingControl = <<>>
    /\ speaker = NoSocket /\ watchdog = FALSE /\ disconnected = FALSE
    /\ told = "nothing" /\ cleanly = FALSE
    /\ misdirected = {} /\ excused = {}

-----------------------------------------------------------------------------
InFlight == {c \in Calls : call[c] = "inFlight"}

\* sendToClient, which disconnect() clears.
Tell(what) == told' = IF disconnected THEN told ELSE what

\* Mutant: the watchdog does not look at the calls in flight.
ResetAlways(calls) == watchdog' = TRUE

\* resetWatchdog, which stays paused while a tool call is in flight.
ResetWatchdog(calls) == watchdog' = (calls = 0)

\* openUpstream: a new socket is the upstream; `left` is what becomes of the others.
\* Its open event sends the setup message and changes nothing here.
OpenUpstream(s, left) ==
    /\ left[s] \in {"unused", "closed"} /\ opening = NoSocket
    /\ sock' = [left EXCEPT ![s] = "opening"]
    /\ upstream' = s /\ opening' = s /\ cleanly' = FALSE
    /\ askedOn' = [c \in Calls |-> IF askedOn[c] = s THEN NoSocket ELSE askedOn[c]]
    /\ speaker' = IF speaker = s THEN NoSocket ELSE speaker

\* connect(): the preamble is built first.
Connect ==
    /\ stage = "idle"
    /\ stage' = "preparing"
    /\ UNCHANGED <<socketVars, callVars, resumeVars, rotationVars, postResume, sentVars, speaker, watchdog,
                   disconnected, told>>

Prepared(s) ==
    /\ stage = "preparing"
    /\ OpenUpstream(s, sock)
    /\ stage' = "opening"
    /\ UNCHANGED <<pendingToolCalls, call, excused, resumeVars, rotationVars, postResume, sentVars, watchdog,
                   disconnected, told>>

\* Mutant: what was queued is kept for the next rotation.
FlushNothing == UNCHANGED <<pendingControl, misdirected, call>>

\* flushPending: the queued results go to the session that is ready now.
FlushPending ==
    LET queued == {pendingControl[i] : i \in DOMAIN pendingControl} \ {Prompt}
    IN /\ pendingControl' = <<>>
       /\ misdirected' = misdirected \cup {c \in queued : askedOn[c] # opening}
       /\ call' = [c \in Calls |-> IF c \in queued THEN "over" ELSE call[c]]

\* setupComplete: the queue is flushed, and whoever awaited the socket goes on.
SetupComplete(s) ==
    /\ opening = s /\ sock[s] = "opening"
    /\ sock' = [sock EXCEPT ![s] = "ready"] /\ opening' = NoSocket
    /\ IF upstream = s THEN FlushPending ELSE UNCHANGED <<pendingControl, misdirected, call>>
    /\ IF stage = "opening"
          THEN stage' = "up" /\ UNCHANGED <<rotationVars, postResume>>
          ELSE /\ isReconnecting' = FALSE /\ phase' = "none" /\ attempt' = 0
               /\ resumingWithHandle' = FALSE
               /\ postResume' = IF resumingWithHandle THEN "listening" ELSE postResume
               /\ UNCHANGED stage
    /\ Tell("ready")
    /\ ResetWatchdog(pendingToolCalls)
    /\ UNCHANGED <<upstream, pendingToolCalls, askedOn, excused, resumeVars, speaker, disconnected,
                   cleanly>>

\* Mutant: the last attempt fails silently.
GiveUpSilently == UNCHANGED told

\* reconnect() after its last attempt.
GiveUp == Tell("error")

\* openUpstream rejects: an error, a close or the timeout before setupComplete.
SetupFails(s) ==
    /\ opening = s
    /\ sock' = [sock EXCEPT ![s] = "closed"] /\ opening' = NoSocket
    /\ upstream' = IF upstream = s THEN NoSocket ELSE upstream
    /\ IF stage = "opening"
          THEN /\ stage' = "failed" /\ Tell("error")
               /\ UNCHANGED rotationVars
          ELSE /\ UNCHANGED <<stage, resumingWithHandle>>
               /\ IF attempt < MaxAttempts
                     THEN phase' = "backoff" /\ UNCHANGED <<isReconnecting, attempt, told>>
                     ELSE /\ isReconnecting' = FALSE /\ phase' = "none" /\ attempt' = 0
                          /\ GiveUp
    /\ UNCHANGED <<callVars, resumeVars, postResume, sentVars, speaker, watchdog, disconnected,
                   cleanly>>

\* RECONNECT_BACKOFF_MS passed; nobody looks whether the adapter is still wanted.
BackoffOver(s) ==
    /\ phase = "backoff"
    /\ OpenUpstream(s, sock)
    /\ phase' = "opening" /\ attempt' = attempt + 1
    /\ UNCHANGED <<stage, pendingToolCalls, call, excused, resumeVars, isReconnecting,
                   resumingWithHandle, postResume, sentVars, watchdog, disconnected, told>>

-----------------------------------------------------------------------------
\* The previous socket is closed without its listeners, which ends it for us.
TornDown == IF upstream = NoSocket THEN sock ELSE [sock EXCEPT ![upstream] = "closed"]

\* reconnect() up to its first openUpstream.
Swap(s) ==
    /\ Tell("rotating")
    /\ watchdog' = FALSE
    /\ OpenUpstream(s, TornDown)
    /\ phase' = "opening" /\ attempt' = 1

\* reconnect(reason): `resumable` is the update its caller made of the handle.
Rotate(s) ==
    IF isReconnecting \/ disconnected
    THEN UNCHANGED <<socketVars, askedOn, speaker, watchdog, rotationVars,
                     currentlyResumable, rotateAfterToolCalls, told>>
    ELSE /\ isReconnecting' = TRUE /\ resumingWithHandle' = TRUE
         /\ currentlyResumable' = FALSE /\ rotateAfterToolCalls' = FALSE
         /\ Swap(s)

\* The handle of a resumed session is given up, and a fresh one is forced: the
\* preamble is rebuilt first, while the old socket still delivers.
PostResumeTimeout ==
    /\ postResume = "armed"
    /\ postResume' = "off"
    /\ IF disconnected
          THEN UNCHANGED <<resumeVars, rotationVars, excused>>
          ELSE /\ handle' = FALSE /\ currentlyResumable' = FALSE
               /\ excused' = excused \cup InFlight
               /\ IF isReconnecting
                     THEN UNCHANGED <<rotationVars, rotateAfterToolCalls>>
                     ELSE /\ isReconnecting' = TRUE /\ phase' = "rebuilding"
                          /\ rotateAfterToolCalls' = FALSE
                          /\ UNCHANGED <<attempt, resumingWithHandle>>
    /\ UNCHANGED <<stage, socketVars, pendingToolCalls, call, askedOn, sentVars, speaker,
                   watchdog, disconnected, told>>

\* rebuildResumePreamble returned.
Rebuilt(s) ==
    /\ phase = "rebuilding"
    /\ Swap(s)
    /\ resumingWithHandle' = handle
    /\ excused' = excused \cup {c \in Calls : call[c] \in {"inFlight", "queued"}}
    /\ UNCHANGED <<stage, pendingToolCalls, call, resumeVars, isReconnecting, postResume, sentVars,
                   disconnected>>

-----------------------------------------------------------------------------
\* Messages of a session that is set up.
Delivers(s) == sock[s] = "ready"

ServerToolCall(s, c) ==
    /\ Delivers(s) /\ call[c] = "none"
    /\ call' = [call EXCEPT ![c] = "inFlight"] /\ askedOn' = [askedOn EXCEPT ![c] = s]
    /\ pendingToolCalls' = pendingToolCalls + 1
    /\ watchdog' = FALSE
    /\ misdirected' = misdirected \ {c} /\ excused' = excused \ {c}
    /\ UNCHANGED <<stage, socketVars, resumeVars, rotationVars, postResume, pendingControl, speaker,
                   disconnected, told>>

\* toolCallCancellation names some calls and resets the count of all.
ToolCallCancellation(s, cs) ==
    /\ Delivers(s) /\ cs # {} /\ cs \subseteq {c \in InFlight : askedOn[c] = s}
    /\ call' = [c \in Calls |-> IF c \in cs THEN "cancelled" ELSE call[c]]
    /\ pendingToolCalls' = 0 /\ ResetWatchdog(0)
    /\ excused' = excused \cup (InFlight \ cs)
    /\ UNCHANGED <<stage, socketVars, askedOn, resumeVars, rotationVars, postResume, sentVars,
                   speaker, disconnected, told>>

\* goAway is deferred while a call is in flight or the stream is not resumable.
MustWait == pendingToolCalls > 0 \/ ~currentlyResumable

GoAway(s) ==
    /\ Delivers(s)
    /\ IF MustWait
          THEN /\ rotateAfterToolCalls' = TRUE
               /\ UNCHANGED <<socketVars, askedOn, speaker, watchdog, rotationVars,
                              currentlyResumable, told>>
          ELSE \E fresh \in Sockets : Rotate(fresh)
    /\ UNCHANGED <<stage, pendingToolCalls, call, excused, handle, postResume, sentVars,
                   disconnected>>

\* sessionResumptionUpdate: a new handle is the first chance of a deferred rotation.
ResumptionUpdate(s, resumable) ==
    /\ Delivers(s)
    /\ resumable => {c \in InFlight : askedOn[c] = s} = {}
    /\ handle' = (handle \/ resumable)
    /\ IF resumable /\ rotateAfterToolCalls /\ pendingToolCalls = 0 /\ ~isReconnecting
             /\ ~disconnected
          THEN \E fresh \in Sockets : Rotate(fresh)
          ELSE /\ currentlyResumable' = resumable
               /\ rotateAfterToolCalls' =
                     (rotateAfterToolCalls /\ ~(resumable /\ pendingToolCalls = 0))
               /\ UNCHANGED <<socketVars, askedOn, speaker, watchdog, rotationVars, told>>
    /\ UNCHANGED <<stage, pendingToolCalls, call, excused, postResume, sentVars, disconnected>>

\* serverContent: model audio gates the microphone; the end of a generation or
\* the user's first words open it; any generation shows a resumed session works.
ServerContent(s, content) ==
    /\ Delivers(s)
    /\ CASE content = "audio" -> speaker' = s /\ postResume' = "off"
         [] content = "end" -> speaker' = NoSocket /\ postResume' = "off"
         [] content = "input" -> /\ speaker' \in {speaker, NoSocket}
                                 /\ postResume' = IF postResume = "listening" THEN "armed"
                                                  ELSE postResume
    /\ IF content = "audio" THEN ResetWatchdog(pendingToolCalls) ELSE UNCHANGED watchdog
    /\ UNCHANGED <<stage, socketVars, callVars, resumeVars, rotationVars, sentVars, disconnected,
                   told>>

\* Gemini or the network closes the connection.
PeerCloses(s) ==
    /\ sock[s] = "ready"
    /\ sock' = [sock EXCEPT ![s] = "closing"]
    /\ UNCHANGED <<stage, upstream, opening, callVars, resumeVars, rotationVars, postResume,
                   sentVars, speaker, watchdog, disconnected, told, cleanly>>

\* Mutant: a close in the middle of a tool call is not reported.
CallLostSilently == UNCHANGED told

\* A call that was in flight is lost with the session, which the client is told.
CallLost == Tell("error")

\* handleUpstreamClose, with a code that is clean, can be resumed from, or neither.
UpstreamCloses(s, code) ==
    /\ sock[s] = "closing"
    /\ \/ /\ disconnected \/ code = "clean" \/ isReconnecting
          /\ sock' = [sock EXCEPT ![s] = "closed"]
          /\ UNCHANGED <<upstream, opening, askedOn, pendingToolCalls, currentlyResumable,
                         rotateAfterToolCalls, rotationVars, speaker, watchdog, told>>
          /\ cleanly' = (code = "clean")
       \/ /\ ~disconnected /\ code # "clean" /\ ~isReconnecting
          /\ pendingToolCalls > 0 \/ rotateAfterToolCalls
          /\ sock' = [sock EXCEPT ![s] = "closed"]
          /\ pendingToolCalls' = 0 /\ rotateAfterToolCalls' = FALSE
          /\ CallLost
          /\ UNCHANGED <<upstream, opening, askedOn, currentlyResumable, rotationVars, speaker,
                         watchdog, cleanly>>
       \/ /\ ~disconnected /\ code # "clean" /\ ~isReconnecting
          /\ pendingToolCalls = 0 /\ ~rotateAfterToolCalls
          /\ UNCHANGED pendingToolCalls
          /\ IF code = "resumable" /\ handle
                THEN \E fresh \in Sockets : Rotate(fresh)
                ELSE /\ sock' = [sock EXCEPT ![s] = "closed"]
                     /\ Tell("error")
                     /\ UNCHANGED <<upstream, opening, askedOn, currentlyResumable,
                                    rotateAfterToolCalls, rotationVars, speaker, watchdog, cleanly>>
    /\ UNCHANGED <<stage, call, excused, handle, postResume, sentVars, disconnected>>

-----------------------------------------------------------------------------
\* Mutant: the queue takes one message more than its limit.
HasRoomForOneMore == Len(pendingControl) <= MaxPendingControl

\* sendUpstream while reconnecting: a control message is queued up to a limit.
HasRoom == Len(pendingControl) < MaxPendingControl

\* sendToolResult: counted, and then queued, sent or dropped.  The result of a
\* cancelled call counts like any other.
SendToolResult(c) ==
    /\ call[c] \in {"inFlight", "cancelled"} /\ ~disconnected
    /\ pendingToolCalls' = IF pendingToolCalls = 0 THEN 0 ELSE pendingToolCalls - 1
    /\ excused' = IF call[c] = "cancelled" \/ c \in excused THEN excused \cup InFlight \cup {c} ELSE excused
    /\ IF isReconnecting /\ HasRoom
          THEN /\ pendingControl' = Append(pendingControl, c)
               /\ call' = [call EXCEPT ![c] = "queued"]
          ELSE /\ call' = [call EXCEPT ![c] = "over"]
               /\ UNCHANGED pendingControl
    /\ IF pendingToolCalls' = 0 THEN ResetWatchdog(0) ELSE UNCHANGED watchdog
    /\ misdirected' = IF ~isReconnecting /\ upstream # NoSocket /\ sock[upstream] = "ready"
                            /\ askedOn[c] # upstream
                         THEN misdirected \cup {c} ELSE misdirected
    /\ UNCHANGED <<stage, socketVars, askedOn, resumeVars, rotationVars, postResume, speaker,
                   disconnected, told>>

\* sendAudio: dropped while the model speaks; else it shows the user is there.
SendAudio ==
    /\ stage = "up" /\ ~disconnected /\ speaker = NoSocket
    /\ ResetWatchdog(pendingToolCalls)
    /\ UNCHANGED <<stage, socketVars, callVars, resumeVars, rotationVars, postResume, sentVars,
                   speaker, disconnected, told>>

\* Twenty seconds without audio: a text asks the model to see if the user is there.
WatchdogFires ==
    /\ watchdog
    /\ watchdog' = FALSE
    /\ pendingControl' = IF isReconnecting /\ HasRoom THEN Append(pendingControl, Prompt)
                         ELSE pendingControl
    /\ UNCHANGED <<stage, socketVars, callVars, resumeVars, rotationVars, postResume, misdirected,
                   speaker, disconnected, told>>

\* disconnect(): what reconnect() and connect() wait for is not cancelled.
Disconnect ==
    /\ ~disconnected /\ stage # "idle"
    /\ disconnected' = TRUE
    /\ postResume' = "off" /\ speaker' = NoSocket /\ watchdog' = FALSE
    /\ sock' = IF upstream # NoSocket /\ sock[upstream] # "closed"
                  THEN [sock EXCEPT ![upstream] = "closing"] ELSE sock
    /\ upstream' = NoSocket
    /\ UNCHANGED <<stage, opening, callVars, resumeVars, rotationVars, sentVars, told, cleanly>>

Settles(s) == SetupComplete(s) \/ SetupFails(s)
Resumes == \E s \in Sockets : BackoffOver(s) \/ Rebuilt(s)

Next ==
    \/ Connect \/ PostResumeTimeout \/ Disconnect \/ SendAudio \/ WatchdogFires
    \/ \E c \in Calls : SendToolResult(c)
    \/ \E s \in Sockets :
          \/ Prepared(s) \/ SetupComplete(s) \/ SetupFails(s) \/ BackoffOver(s)
          \/ Rebuilt(s) \/ GoAway(s) \/ PeerCloses(s)
          \/ \E c \in Calls : ServerToolCall(s, c)
          \/ \E cs \in SUBSET Calls : ToolCallCancellation(s, cs)
          \/ \E resumable \in BOOLEAN : ResumptionUpdate(s, resumable)
          \/ \E content \in Contents : ServerContent(s, content)
          \/ \E code \in {"clean", "resumable", "final"} : UpstreamCloses(s, code)

\* Timers fire -- the setup timeout among them -- and promises that settled go on.
Fairness ==
    /\ \A s \in Sockets : WF_geminiVars(Settles(s))
    /\ WF_geminiVars(Resumes)

Spec == Init /\ [][Next]_geminiVars /\ Fairness

-----------------------------------------------------------------------------
\* Properties.

\* A tool result goes only to the session that made the call: a rotation waits
\* for the calls in flight (the comment at gemini.ts:702).  Excused are calls in
\* flight when a fresh session was forced, which does not look at them, and when
\* a cancellation or a cancelled call's result spoiled the count.
ResponseReachesItsSession == misdirected \subseteq excused

\* The client's picture of its connection is true: a session it takes for ready has a
\* socket, or one is being opened for it; one it takes for being replaced is; and one it
\* takes for lost is.  A clean close (1000 or 1005) is not told (gemini.ts:299): it leaves
\* a client that takes a session for ready which is gone.
LastWordIsTrue ==
    stage = "up" /\ ~disconnected =>
        /\ told # "nothing"
        /\ told = "ready" => isReconnecting \/ cleanly
                                \/ \E s \in Sockets : sock[s] \in {"ready", "closing"}
        /\ told = "rotating" => isReconnecting
        /\ told = "error" => \A s \in Sockets : sock[s] # "ready"

\* Nothing is kept back from a session that is ready: results handed in during
\* a rotation are sent when it is over ("must reach the upstream to unblock the
\* model", gemini.ts:987).
QueueFlushed ==
    upstream # NoSocket /\ sock[upstream] = "ready" /\ ~isReconnecting => pendingControl = <<>>

\* The model is never told that the user is silent while it waits for us: "that
\* would inject a fake user turn into a session that's already waiting on us"
\* (gemini.ts:1123).
WatchdogWaits ==
    watchdog /\ upstream # NoSocket /\ sock[upstream] = "ready"
        => {c \in InFlight : askedOn[c] = upstream} \subseteq excused

\* A rotation the client was told of ends: it hears that it succeeded or failed.
RotationEnds == told = "rotating" ~> told # "rotating" \/ disconnected
=============================================================================
