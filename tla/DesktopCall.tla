------------------------------ MODULE DesktopCall ------------------------------
(***************************************************************************)
(* A voice call of the Desktop client: the useRealtime hook, the           *)
(* AudioEngine of each connection and the page's answer to an error.       *)
(* Every start, the user's or a reconnect's, opens a WebSocket to the      *)
(* Relay and an engine, and takes a connection id, which tells the close   *)
(* event of the present WebSocket from that of a superseded one.  Opening  *)
(* the microphone waits for the operating system, in the middle of which   *)
(* the engine may be destroyed.  The page keeps whether the microphone is  *)
(* muted; the engine that hears it has a flag of its own.                  *)
(***************************************************************************)
EXTENDS Naturals, FiniteSets

CONSTANTS
    MaxConnections,          \* bound: how often start is called
    MaxReconnectAttempts,    \* MAX_RECONNECT_ATTEMPTS
    Greeting                 \* the onboarding asked for a greeting

VARIABLES
    connectionId,        \* connectionIdRef
    ws,                  \* connection -> its WebSocket
    wsRef, engineRef,    \* the present WebSocket and engine, 0 when null
    asking,              \* the engines whose getUserMedia has not settled
    microphone,          \* the engines whose microphone tracks are live
    late,                \* history: those it opened after they were torn down
    userStopped, reconnectAttempts, reconnectTimer, hasConnected,
    isConnected, isReconnecting,    \* what the page shows
    isMuted,             \* what the page and the call bar show of the microphone
    muted,               \* the present engine's flag: it drops what it hears
    startedMuted,        \* history: isMuted when the present engine was made
    told,                \* the user was told how the call ended
    mounted,             \* the page is there
    greeting             \* the timer of the greeting is set

callVars == <<connectionId, ws, wsRef, engineRef, asking, microphone, late, userStopped,
              reconnectAttempts, reconnectTimer, hasConnected, isConnected, isReconnecting,
              isMuted, muted, startedMuted, told, mounted, greeting>>
muteVars == <<isMuted, muted, startedMuted>>

Connections == 1..MaxConnections
Opening == {"connecting", "open", "ready"}

CallTypeOK ==
    /\ connectionId \in 0..MaxConnections
    /\ ws \in [Connections -> Opening \cup {"none", "closing", "closed"}]
    /\ {wsRef, engineRef} \subseteq 0..MaxConnections
    /\ asking \subseteq Connections /\ microphone \subseteq Connections /\ late \subseteq Connections
    /\ {userStopped, reconnectTimer, hasConnected, isConnected, isReconnecting, isMuted, muted,
        startedMuted, told, mounted, greeting} \subseteq BOOLEAN
    /\ reconnectAttempts \in 0..MaxReconnectAttempts

Init ==
    /\ connectionId = 0 /\ wsRef = 0 /\ engineRef = 0
    /\ ws = [c \in Connections |-> "none"]
    /\ asking = {} /\ microphone = {} /\ late = {}
    /\ userStopped = FALSE /\ reconnectAttempts = 0 /\ reconnectTimer = FALSE
    /\ hasConnected = FALSE /\ isConnected = FALSE /\ isReconnecting = FALSE
    /\ isMuted = FALSE /\ muted = FALSE /\ startedMuted = FALSE
    /\ told = FALSE /\ mounted = TRUE /\ greeting = Greeting

\* close(): the WebSocket, if it is not closed yet, is on its way to be.
Closing(c) ==
    IF c # 0 /\ ws[c] \in Opening THEN [ws EXCEPT ![c] = "closing"] ELSE ws

\* stopCapture, of which destroy is made: the tracks of a microphone that was
\* opened are stopped, and one that is being opened is not known yet.
Released(c) == microphone \ {c}

-----------------------------------------------------------------------------
\* start: the timer is cleared, the previous connection is torn down, and the
\* next one opened.
Start ==
    LET c == connectionId + 1
    IN /\ c <= MaxConnections
       /\ connectionId' = c
       /\ ws' = [Closing(wsRef) EXCEPT ![c] = "connecting"]
       /\ wsRef' = c /\ engineRef' = c
       /\ microphone' = Released(engineRef)
       /\ userStopped' = FALSE /\ reconnectTimer' = FALSE
       /\ muted' = FALSE /\ startedMuted' = isMuted
       /\ UNCHANGED isMuted

\* startCall.  Enough connections are left for its reconnects.
StartCall ==
    /\ mounted
    /\ connectionId + MaxReconnectAttempts < MaxConnections
    /\ Start
    /\ told' = FALSE
    /\ UNCHANGED <<asking, reconnectAttempts, hasConnected, isConnected, isReconnecting, late,
                   mounted>>

\* The page shows a call, active or connecting: one that was neither stopped
\* nor ended by an error.
Shown == wsRef # 0 /\ ~told

\* The user starts a call, which the page offers when it shows none.
UserStarts == ~Shown /\ StartCall /\ UNCHANGED greeting

\* The greeting's timer fires.  It judges by the flags of the render that set
\* it, which showed no call: the call it starts may replace another.
GreetingStarts == greeting /\ StartCall /\ greeting' = FALSE

\* Mutant: stop leaves the reconnect timer running.
StopLeavingTimer ==
    /\ userStopped' = TRUE
    /\ ws' = Closing(wsRef)
    /\ wsRef' = 0 /\ engineRef' = 0
    /\ microphone' = Released(engineRef)
    /\ hasConnected' = FALSE /\ isConnected' = FALSE /\ isReconnecting' = FALSE
    /\ muted' = FALSE /\ startedMuted' = FALSE
    /\ UNCHANGED reconnectTimer

\* stop: the call is over.
Stop ==
    /\ userStopped' = TRUE
    /\ ws' = Closing(wsRef)
    /\ wsRef' = 0 /\ engineRef' = 0
    /\ microphone' = Released(engineRef)
    /\ hasConnected' = FALSE /\ isConnected' = FALSE /\ isReconnecting' = FALSE
    /\ muted' = FALSE /\ startedMuted' = FALSE
    /\ reconnectTimer' = FALSE

\* endCall
UserStops ==
    /\ mounted
    /\ Stop
    /\ isMuted' = FALSE
    /\ UNCHANGED <<connectionId, asking, reconnectAttempts, told, late, mounted, greeting>>

\* Mutant: the flag is turned for the page only.
ToggleShown ==
    /\ mounted /\ Shown
    /\ isMuted' = ~isMuted
    /\ UNCHANGED <<connectionId, ws, wsRef, engineRef, asking, microphone, late, userStopped,
                   reconnectAttempts, reconnectTimer, hasConnected, isConnected, isReconnecting,
                   muted, startedMuted, told, mounted, greeting>>

\* toggleMute, while a call is shown: the page's flag and the engine's.
ToggleMute ==
    /\ mounted /\ Shown
    /\ isMuted' = ~isMuted
    /\ muted' = isMuted'
    /\ UNCHANGED <<connectionId, ws, wsRef, engineRef, asking, microphone, late, userStopped,
                   reconnectAttempts, reconnectTimer, hasConnected, isConnected, isReconnecting,
                   startedMuted, told, mounted, greeting>>

\* onError: the page shows the error and stops the call.
OnError == told' = TRUE /\ Stop /\ UNCHANGED isMuted

\* onopen: session.config is sent, and the engine of a call that is not typed
\* asks for the microphone.
Opened(c) ==
    /\ ws[c] = "connecting"
    /\ ws' = [ws EXCEPT ![c] = "open"]
    /\ asking' \in {asking, asking \cup {c}}
    /\ UNCHANGED <<connectionId, wsRef, engineRef, microphone, userStopped, reconnectAttempts,
                   reconnectTimer, hasConnected, isConnected, isReconnecting, muteVars, told, late,
                   mounted, greeting>>

\* The WebSocket cannot be opened: onerror, which is shown when it is the first
\* attempt of a call; the close event follows.
ConnectFails(c) ==
    /\ ws[c] = "connecting"
    /\ IF ~hasConnected /\ reconnectAttempts = 0
       THEN OnError
       ELSE /\ ws' = [ws EXCEPT ![c] = "closing"]
            /\ UNCHANGED <<wsRef, engineRef, microphone, userStopped, reconnectTimer,
                           hasConnected, isConnected, isReconnecting, muteVars, told>>
    /\ UNCHANGED <<connectionId, asking, reconnectAttempts, late, mounted, greeting>>

\* session.ready.  Enough connections are left for the reconnects of the call.
SessionReady(c) ==
    /\ ws[c] = "open"
    /\ connectionId + MaxReconnectAttempts <= MaxConnections
    /\ ws' = [ws EXCEPT ![c] = "ready"]
    /\ reconnectAttempts' = 0 /\ hasConnected' = TRUE
    /\ isReconnecting' = FALSE /\ isConnected' = TRUE
    /\ UNCHANGED <<connectionId, wsRef, engineRef, asking, microphone, userStopped,
                   reconnectTimer, muteVars, told, late, mounted, greeting>>

\* An error event of the Relay.
RelayError(c) ==
    /\ ws[c] \in {"open", "ready"}
    /\ OnError
    /\ UNCHANGED <<connectionId, asking, reconnectAttempts, late, mounted, greeting>>

\* getUserMedia resolves: whatever became of the engine, the microphone is open.
MicrophoneOpens(c) ==
    /\ c \in asking
    /\ asking' = asking \ {c}
    /\ microphone' = microphone \cup {c}
    /\ late' = IF engineRef = c /\ mounted THEN late ELSE late \cup {c}
    /\ UNCHANGED <<connectionId, ws, wsRef, engineRef, userStopped, reconnectAttempts,
                   reconnectTimer, hasConnected, isConnected, isReconnecting, muteVars,
                   told, mounted, greeting>>

\* getUserMedia rejects, or the engine fails: shown unless the engine was torn
\* down in the meantime.
MicrophoneFails(c) ==
    /\ c \in asking
    /\ asking' = asking \ {c}
    /\ IF engineRef = c THEN OnError
       ELSE UNCHANGED <<ws, wsRef, engineRef, microphone, userStopped, reconnectTimer,
                        hasConnected, isConnected, isReconnecting,
                        muteVars, told>>
    /\ UNCHANGED <<connectionId, reconnectAttempts, late, mounted, greeting>>

\* Mutant: the page is not told.
GiveUpSilently ==
    /\ isReconnecting' = FALSE
    /\ UNCHANGED <<told, reconnectAttempts, reconnectTimer>>

\* No attempt is left: onDisconnect.
GiveUp ==
    /\ isReconnecting' = FALSE /\ told' = TRUE
    /\ UNCHANGED <<reconnectAttempts, reconnectTimer>>

\* The timer of the next attempt is set.
Reconnect ==
    /\ reconnectAttempts' = reconnectAttempts + 1
    /\ reconnectTimer' = TRUE /\ isReconnecting' = TRUE
    /\ UNCHANGED told

\* The WebSocket of a connection that a later start superseded.
Superseded(c) == connectionId # c

\* Mutant: one attempt more is made.
OneAttemptMore == reconnectAttempts <= MaxReconnectAttempts

AttemptLeft == reconnectAttempts < MaxReconnectAttempts

\* onclose, after close() or because the connection was lost.
Closed(c) ==
    /\ ws[c] \in {"open", "ready", "closing"}
    /\ ws' = [ws EXCEPT ![c] = "closed"]
    /\ IF Superseded(c)
       THEN UNCHANGED <<microphone, isConnected, isReconnecting, reconnectAttempts,
                        reconnectTimer, told>>
       ELSE /\ isConnected' = FALSE
            /\ microphone' = Released(c)
            /\ CASE userStopped ->
                      UNCHANGED <<isReconnecting, reconnectAttempts, reconnectTimer, told>>
                 [] ~userStopped /\ AttemptLeft -> Reconnect
                 [] ~userStopped /\ ~AttemptLeft -> GiveUp
    /\ UNCHANGED <<connectionId, wsRef, engineRef, asking, userStopped, hasConnected, muteVars,
                   late, mounted, greeting>>

\* The reconnect timer fires.
ReconnectTimer ==
    /\ reconnectTimer
    /\ IF userStopped
       THEN reconnectTimer' = FALSE
            /\ UNCHANGED <<connectionId, ws, wsRef, engineRef, microphone, userStopped, muteVars>>
       ELSE Start
    /\ UNCHANGED <<asking, reconnectAttempts, hasConnected, isConnected, isReconnecting, told,
                   late, mounted, greeting>>

\* The page is left while a call may be on.
Unmount ==
    /\ mounted
    /\ mounted' = FALSE
    /\ userStopped' = TRUE /\ reconnectTimer' = FALSE
    /\ microphone' = Released(engineRef)
    /\ ws' = Closing(wsRef)
    /\ wsRef' = 0
    /\ UNCHANGED <<connectionId, engineRef, asking, reconnectAttempts, hasConnected,
                   isConnected, isReconnecting, muteVars, told, late, greeting>>

Next ==
    \/ UserStarts \/ GreetingStarts \/ UserStops \/ ToggleMute \/ ReconnectTimer \/ Unmount
    \/ \E c \in Connections :
          \/ Opened(c) \/ ConnectFails(c) \/ SessionReady(c) \/ RelayError(c)
          \/ MicrophoneOpens(c) \/ MicrophoneFails(c) \/ Closed(c)

\* A connection attempt ends, the Relay answers the session's configuration or
\* its connection breaks, a closing WebSocket closes, and timers fire.
Fairness ==
    /\ WF_callVars(ReconnectTimer)
    /\ \A c \in Connections :
          /\ WF_callVars(Opened(c) \/ ConnectFails(c))
          /\ WF_callVars(SessionReady(c) \/ RelayError(c) \/ (ws[c] # "ready" /\ Closed(c)))

Spec == Init /\ [][Next]_callVars /\ Fairness

-----------------------------------------------------------------------------
\* Of all the WebSockets that starts, reconnects and stops leave behind, one at
\* most is in use, the present one; a stopped call has neither a WebSocket nor a
\* timer that would bring it back; and the page shows a call as connected
\* whenever its session is ready, and never once its WebSocket is closed,
\* whatever close events come late.  No call that was stopped leaves its
\* microphone open, with one exception: getUserMedia resolved after the engine
\* that asked was torn down.
CallAccounted ==
    /\ \A c \in Connections : ws[c] \in Opening => c = wsRef /\ c = connectionId
    /\ userStopped => ~reconnectTimer /\ \A c \in Connections : ws[c] \notin Opening
    /\ \A c \in Connections : ws[c] = "ready" => isConnected
    /\ isConnected /\ mounted => wsRef # 0 /\ ws[wsRef] # "closed"
    /\ userStopped => microphone \subseteq late

\* What an engine hears goes to the Relay when its session is ready.
Heard(c) == c = engineRef /\ c \in microphone /\ ws[c] = "ready" /\ ~muted

\* Who is shown as muted is not heard ("Gemini isn't hearing it", CallBar.tsx:84).
MutedIsUnheard == isMuted => \A c \in Connections : ~Heard(c)

\* The two flags of a muted microphone agree, whatever order the user's toggles, the
\* ends of calls and the errors come in; with one exception: an engine that was made
\* while the page showed the microphone as muted hears all the same.
MuteAgrees ==
    /\ muted => isMuted
    /\ isMuted /\ ~startedMuted => \A c \in Connections : ~Heard(c)

\* A call that is not connected comes to be, or is stopped, or the user is told:
\* the reconnect attempts come to an end and the last failure is not lost.
CallResolves ==
    (wsRef # 0 /\ ~isConnected) ~> (isConnected \/ told \/ userStopped)
=============================================================================
