------------------------------ MODULE MobileCall ------------------------------
(***************************************************************************)
(* A call as the phone holds it when it talks to the Relay: useRealtime    *)
(* with its socket, useAutoReconnect with its timers, and the page that    *)
(* starts, ends and shows the call.  A start reads its settings before it  *)
(* opens a socket, and a socket that was closed still delivers its events  *)
(* until its own close event comes.                                        *)
(*                                                                         *)
(* Direct mode is in DirectCall.  What is said and shown is left out.  A   *)
(* start has read its settings before the next attempt's delay, at least a *)
(* second, is over.                                                        *)
(***************************************************************************)
EXTENDS Naturals, FiniteSets

CONSTANTS
    MaxSockets,     \* bound: sockets opened
    MaxAttempts,    \* useAutoReconnect's maxAttempts
    MaxTimers       \* bound: timers of earlier triggers

Sockets == 1..MaxSockets
NoSocket == 0

VARIABLES
    sock,           \* each socket, as the hook's handlers see it
    ready,          \* sockets that delivered session.ready
    wsRef, userStopped, isConnected,
    capturing,      \* the native module records
    isCallActive, isConnecting, pairNeeded,
    starting,       \* startRealtimeCall is reading its settings for these
    status, attempt, cancelled,
    timer,          \* the timer in timerRef
    oldTimers,      \* timers that timerRef has forgotten
    excused         \* history: what NeverStranded excuses of the socket in use

hookVars == <<wsRef, userStopped, isConnected, capturing>>
pageVars == <<isCallActive, isConnecting, pairNeeded, starting>>
timerVars == <<status, attempt, cancelled, timer, oldTimers>>
mobileVars == <<sock, ready, hookVars, pageVars, timerVars, excused>>

MobileTypeOK ==
    /\ sock \in [Sockets -> {"none", "connecting", "open", "closing", "closed"}]
    /\ ready \subseteq Sockets /\ wsRef \in Sockets \cup {NoSocket}
    /\ {userStopped, isConnected, capturing, isCallActive, isConnecting, pairNeeded, cancelled,
        timer, excused} \subseteq BOOLEAN
    /\ starting \subseteq {"tap", "timer"}
    /\ status \in {"idle", "reconnecting", "failed"}
    /\ attempt \in 0..MaxAttempts + 1 /\ oldTimers \in 0..MaxTimers

Init ==
    /\ sock = [s \in Sockets |-> "none"] /\ ready = {} /\ wsRef = NoSocket
    /\ userStopped = FALSE /\ isConnected = FALSE /\ capturing = FALSE
    /\ isCallActive = FALSE /\ isConnecting = FALSE /\ pairNeeded = FALSE
    /\ starting = {}
    /\ status = "idle" /\ attempt = 0 /\ cancelled = FALSE /\ timer = FALSE /\ oldTimers = 0
    /\ excused = FALSE

Live(s) == s # NoSocket /\ sock[s] \in {"connecting", "open"}
CloseSocket(s) == IF Live(s) THEN [sock EXCEPT ![s] = "closing"] ELSE sock

-----------------------------------------------------------------------------
\* useAutoReconnect's cancel: only the last timer can be cleared.
Cancel ==
    /\ cancelled' = TRUE /\ timer' = FALSE /\ attempt' = 0 /\ status' = "idle"
    /\ UNCHANGED oldTimers

\* scheduleAttempt after n attempts; a timer that is still set is forgotten.  The
\* counts above the limit are all alike.
Schedule(n) ==
    /\ attempt' = IF n > MaxAttempts THEN n ELSE n + 1
    /\ timer => oldTimers < MaxTimers
    /\ IF n + 1 > MaxAttempts
       THEN status' = "failed" /\ UNCHANGED <<timer, oldTimers>>
       ELSE /\ status' = "reconnecting" /\ timer' = TRUE
            /\ oldTimers' = IF timer THEN oldTimers + 1 ELSE oldTimers

\* trigger and retry
Trigger == cancelled' = FALSE /\ Schedule(0)

\* Mutant: the call that was in use is left open.
OpenBeside ==
    \E s \in Sockets :
        /\ sock[s] = "none" /\ \A u \in Sockets : sock[u] = "none" => s <= u
        /\ sock' = [sock EXCEPT ![s] = "connecting"]
        /\ wsRef' = s

\* useRealtime's start: the call that was in use is closed.
OpenSocket ==
    \E s \in Sockets :
        /\ sock[s] = "none" /\ \A u \in Sockets : sock[u] = "none" => s <= u
        /\ sock' = [CloseSocket(wsRef) EXCEPT ![s] = "connecting"]
        /\ wsRef' = s

-----------------------------------------------------------------------------
\* toggleCall without a call.
Tap ==
    /\ ~isCallActive /\ ~isConnecting /\ "tap" \notin starting
    /\ isConnecting' = TRUE /\ pairNeeded' = FALSE
    /\ starting' = starting \cup {"tap"}
    /\ UNCHANGED <<sock, ready, hookVars, isCallActive, timerVars, excused>>

\* startRealtimeCall has its settings.
Started(who) ==
    /\ who \in starting
    /\ starting' = starting \ {who}
    /\ OpenSocket
    /\ excused' = FALSE
    /\ UNCHANGED <<ready, userStopped, isConnected, capturing, isCallActive, isConnecting,
                   pairNeeded, timerVars>>

\* No API key is set, or the settings cannot be read.
StartFails(who) ==
    /\ who \in starting
    /\ starting' = starting \ {who}
    /\ isConnecting' = FALSE
    /\ IF who = "timer" /\ ~cancelled
       THEN Schedule(attempt) /\ UNCHANGED cancelled ELSE UNCHANGED timerVars
    /\ UNCHANGED <<sock, ready, hookVars, isCallActive, pairNeeded, excused>>

\* A timer fires; reconnectCall.
Reconnect ==
    IF cancelled THEN UNCHANGED <<isConnecting, pairNeeded, starting>>
    ELSE /\ isConnecting' = TRUE /\ pairNeeded' = FALSE
         /\ starting' = starting \cup {"timer"}

TimerFires ==
    /\ "timer" \notin starting
    /\ \/ timer /\ timer' = FALSE /\ UNCHANGED oldTimers
       \/ oldTimers > 0 /\ oldTimers' = oldTimers - 1 /\ UNCHANGED timer
    /\ Reconnect
    /\ UNCHANGED <<sock, ready, hookVars, isCallActive, status, attempt, cancelled, excused>>

\* toggleCall with a call: stopRealtimeCall, useRealtime's stop.
HangUp ==
    /\ isCallActive
    /\ Cancel
    /\ sock' = CloseSocket(wsRef) /\ wsRef' = NoSocket
    /\ userStopped' = TRUE /\ isConnected' = FALSE /\ capturing' = FALSE
    /\ isCallActive' = FALSE
    /\ excused' = (excused \/ isConnecting)
    /\ UNCHANGED <<ready, isConnecting, pairNeeded, starting>>

\* The two buttons of the reconnect bar.
CancelReconnect ==
    /\ status # "idle"
    /\ Cancel
    /\ excused' = TRUE
    /\ UNCHANGED <<sock, ready, hookVars, pageVars>>

Retry ==
    /\ status = "failed"
    /\ Trigger
    /\ UNCHANGED <<sock, ready, hookVars, pageVars, excused>>

-----------------------------------------------------------------------------
Opens(s) ==
    /\ sock[s] = "connecting"
    /\ sock' = [sock EXCEPT ![s] = "open"]
    /\ UNCHANGED <<ready, hookVars, pageVars, timerVars, excused>>

\* session.ready
Ready(s) ==
    /\ sock[s] \in {"open", "closing"} /\ s \notin ready
    /\ ready' = ready \cup {s}
    /\ isConnected' = TRUE /\ capturing' = TRUE
    /\ isCallActive' = TRUE /\ isConnecting' = FALSE /\ pairNeeded' = FALSE
    /\ Cancel
    /\ excused' = (excused \/ s # wsRef)
    /\ UNCHANGED <<sock, wsRef, userStopped, starting>>

\* An error event of the Relay: the page takes the call for over, and one with code
\* 401 asks to pair the phone.
RelayError(s, unpaired) ==
    /\ sock[s] \in {"open", "closing"}
    /\ isCallActive' = FALSE /\ isConnecting' = FALSE
    /\ IF unpaired THEN pairNeeded' = TRUE /\ Cancel
       ELSE UNCHANGED <<pairNeeded, timerVars>>
    /\ UNCHANGED <<sock, ready, hookVars, starting, excused>>

\* onclose, after the page heard of an error or not.
Closed(s, active, connecting) ==
    /\ sock' = [sock EXCEPT ![s] = "closed"]
    /\ isConnected' = FALSE /\ capturing' = FALSE
    /\ userStopped' = FALSE
    /\ excused' = (excused \/ (userStopped /\ s = wsRef))
    /\ IF userStopped
       THEN isCallActive' = active /\ isConnecting' = connecting /\ UNCHANGED timerVars
       ELSE IF pairNeeded
       THEN isCallActive' = FALSE /\ isConnecting' = FALSE /\ UNCHANGED timerVars
       ELSE isCallActive' = active /\ isConnecting' = connecting /\ Trigger
    /\ UNCHANGED <<ready, wsRef, pairNeeded, starting>>

\* The close event of a socket that was open or is being closed.
Closes(s) ==
    /\ sock[s] \in {"open", "closing"}
    /\ Closed(s, isCallActive, isConnecting)

\* A socket that fails delivers its error and its close event in one go.
Fails(s) ==
    /\ sock[s] \in {"connecting", "open", "closing"}
    /\ Closed(s, FALSE, FALSE)

-----------------------------------------------------------------------------
Next ==
    \/ Tap \/ HangUp \/ CancelReconnect \/ Retry \/ TimerFires
    \/ \E who \in {"tap", "timer"} : Started(who) \/ StartFails(who)
    \/ \E s \in Sockets :
          \/ Opens(s) \/ Ready(s) \/ Closes(s) \/ Fails(s)
          \/ \E unpaired \in BOOLEAN : RelayError(s, unpaired)

Spec == Init /\ [][Next]_mobileVars

-----------------------------------------------------------------------------
\* Every socket that is not being closed is the call's own.
OneLink == \A s \in Sockets : Live(s) => s = wsRef

\* The microphone is open for a session whose close event, which closes it, is still
\* to come.
MicrophoneHasSession ==
    capturing => \E s \in ready : sock[s] \in {"open", "closing"}

UnderWay ==
    \/ starting # {} \/ Live(wsRef) \/ status = "failed"
    \/ (timer \/ oldTimers > 0) /\ ~cancelled

\* A page that shows a call as connecting, or one that has lost its connection, has
\* something under way that will change it.
NeverStranded ==
    (isConnecting \/ (isCallActive /\ ~isConnected)) => UnderWay \/ excused
=============================================================================
