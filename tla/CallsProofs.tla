------------------------------ MODULE CallsProofs ------------------------------
(***************************************************************************)
(* Proofs about a call as its client holds it -- the Desktop's, the        *)
(* phone's through the Relay and the phone's with Gemini -- about the call *)
(* bar, the phone's echo gate and the pairing of phone and Desktop: for    *)
(* any number of connections, sockets, starts, timers, buffers, messages   *)
(* and presses of "Pair a device".                                         *)
(***************************************************************************)
EXTENDS MCCalls, TLAPS

USE CallsAssumption

-----------------------------------------------------------------------------
(***************************************************************************)
(* The Desktop's call (useVoiceSession).                                   *)
(***************************************************************************)

\* The refs name the last connection, and no later one was opened; who is not there has
\* stopped; and a microphone that is open is the present engine's, or was opened late.
RefsInv ==
    /\ wsRef \in {0, connectionId} /\ engineRef \in {0, connectionId}
    /\ \A c \in Client!Connections : c > connectionId => ws[c] = "none"
    /\ ~mounted => userStopped /\ microphone \subseteq late
    /\ userStopped => engineRef = 0 \/ ~mounted
    /\ microphone \subseteq late \cup {engineRef}

\* An engine that was made while the microphone was not muted has the page's flag.
FlagsInv ==
    /\ muted => isMuted
    /\ isMuted /\ ~startedMuted /\ engineRef # 0 => muted

\* CallTypeOK in two parts, a variable at a time.
LinkTypes ==
    /\ connectionId \in 0..MaxConnections
    /\ ws \in [Client!Connections -> {"none", "connecting", "open", "ready", "closing", "closed"}]
    /\ wsRef \in 0..MaxConnections /\ engineRef \in 0..MaxConnections
    /\ asking \subseteq Client!Connections /\ microphone \subseteq Client!Connections
    /\ late \subseteq Client!Connections
    /\ reconnectAttempts \in 0..MaxReconnectAttempts

FlagTypes ==
    /\ userStopped \in BOOLEAN /\ reconnectTimer \in BOOLEAN /\ hasConnected \in BOOLEAN
    /\ isConnected \in BOOLEAN /\ isReconnecting \in BOOLEAN /\ isMuted \in BOOLEAN
    /\ muted \in BOOLEAN /\ startedMuted \in BOOLEAN /\ told \in BOOLEAN /\ mounted \in BOOLEAN
    /\ greeting \in BOOLEAN

ClientInv ==
    /\ LinkTypes /\ FlagTypes
    /\ RefsInv /\ FlagsInv
    /\ Client!CallAccounted

LEMMA ClientImplied == ClientInv => Client!CallTypeOK /\ Client!CallAccounted /\ Client!MuteAgrees
<1> SUFFICES ASSUME ClientInv PROVE Client!CallTypeOK /\ Client!CallAccounted /\ Client!MuteAgrees
  OBVIOUS
<1>1. {wsRef, engineRef} \subseteq 0..MaxConnections
  BY DEF ClientInv, LinkTypes, FlagTypes
<1>2. {userStopped, reconnectTimer, hasConnected, isConnected, isReconnecting, isMuted, muted,
       startedMuted, told, mounted, greeting} \subseteq BOOLEAN
  BY DEF ClientInv, LinkTypes, FlagTypes
<1>3. Client!CallTypeOK
  BY <1>1, <1>2 DEF ClientInv, LinkTypes, FlagTypes, Client!CallTypeOK, Client!Opening
<1>4. Client!MuteAgrees
  BY DEF ClientInv, FlagsInv, Client!MuteAgrees, Client!Heard, Client!Connections
<1> QED
  BY <1>3, <1>4 DEF ClientInv

LEMMA InitClient == Client!Init => ClientInv
<1> SUFFICES ASSUME Client!Init PROVE ClientInv
  OBVIOUS
<1>1. LinkTypes
  BY DEF Client!Init, LinkTypes
<1>2. FlagTypes
  BY CallsAssumption DEF Client!Init, FlagTypes
<1>3. RefsInv /\ FlagsInv
  BY DEF Client!Init, RefsInv, FlagsInv, Client!Connections
<1>4. Client!CallAccounted
  BY DEF Client!Init, Client!CallAccounted, Client!Connections, Client!Opening
<1> QED
  BY <1>1, <1>2, <1>3, <1>4 DEF ClientInv

\* start keeps what a call is.
LEMMA StartKeeps ==
    ASSUME ClientInv, Client!Start, mounted, mounted' = mounted,
           UNCHANGED <<asking, reconnectAttempts, hasConnected, isConnected, isReconnecting, late>>,
           told' \in BOOLEAN, greeting' \in BOOLEAN
    PROVE  ClientInv'
<1> USE DEF Client!Start, Client!Closing, Client!Released, Client!Connections, Client!Opening
<1>1. LinkTypes'
  BY DEF ClientInv, LinkTypes
<1>1a. FlagTypes'
  BY DEF ClientInv, FlagTypes
<1>2. RefsInv'
  BY DEF ClientInv, LinkTypes, FlagTypes, RefsInv
<1>3. FlagsInv'
  BY DEF ClientInv, LinkTypes, FlagTypes, FlagsInv
<1>4. Client!CallAccounted'
  BY DEF ClientInv, LinkTypes, FlagTypes, RefsInv, Client!CallAccounted
<1> QED
  BY <1>1, <1>1a, <1>2, <1>3, <1>4 DEF ClientInv

\* ... and so does stop, whatever becomes of the microphone's flag.
LEMMA StopKeeps ==
    ASSUME ClientInv, Client!Stop, mounted' = mounted, asking' \subseteq asking,
           UNCHANGED <<connectionId, reconnectAttempts, late>>,
           isMuted' \in BOOLEAN, told' \in BOOLEAN, greeting' \in BOOLEAN
    PROVE  ClientInv'
<1> USE DEF Client!Stop, Client!Closing, Client!Released, Client!Connections, Client!Opening
<1>1. LinkTypes'
  BY DEF ClientInv, LinkTypes
<1>1a. FlagTypes'
  BY DEF ClientInv, FlagTypes
<1>2. RefsInv'
  BY DEF ClientInv, LinkTypes, FlagTypes, RefsInv
<1>3. FlagsInv'
  BY DEF FlagsInv
<1>4. Client!CallAccounted'
  BY DEF ClientInv, LinkTypes, FlagTypes, RefsInv, Client!CallAccounted
<1> QED
  BY <1>1, <1>1a, <1>2, <1>3, <1>4 DEF ClientInv

\* An event of one connection.
LEMMA EventKeeps ==
    ASSUME ClientInv, NEW c \in Client!Connections,
           Client!Opened(c) \/ Client!ConnectFails(c) \/ Client!SessionReady(c)
             \/ Client!RelayError(c) \/ Client!MicrophoneOpens(c) \/ Client!MicrophoneFails(c)
    PROVE  ClientInv'
<1> USE DEF Client!Connections, Client!Opening, Client!muteVars
<1>1. CASE Client!Opened(c)
  <2>1. LinkTypes'
    BY <1>1 DEF ClientInv, LinkTypes, Client!Opened
  <2>1a. FlagTypes'
    BY <1>1 DEF ClientInv, FlagTypes, Client!Opened
  <2>2. RefsInv' /\ FlagsInv'
    BY <1>1 DEF ClientInv, LinkTypes, FlagTypes, RefsInv, FlagsInv, Client!Opened
  <2>3. Client!CallAccounted'
    BY <1>1 DEF ClientInv, LinkTypes, FlagTypes, RefsInv, Client!CallAccounted, Client!Opened
  <2> QED
    BY <2>1, <2>1a, <2>2, <2>3 DEF ClientInv
<1>2. CASE Client!ConnectFails(c)
  <2>1. CASE ~hasConnected /\ reconnectAttempts = 0
    BY <1>2, <2>1, StopKeeps
    DEF Client!ConnectFails, Client!OnError, ClientInv, LinkTypes, FlagTypes
  <2>2. CASE ~(~hasConnected /\ reconnectAttempts = 0)
    <3>1. LinkTypes'
      BY <1>2, <2>2 DEF ClientInv, LinkTypes, Client!ConnectFails
    <3>1a. FlagTypes'
      BY <1>2, <2>2 DEF ClientInv, FlagTypes, Client!ConnectFails
    <3>2. RefsInv' /\ FlagsInv'
      BY <1>2, <2>2 DEF ClientInv, LinkTypes, FlagTypes, RefsInv, FlagsInv, Client!ConnectFails
    <3>3. Client!CallAccounted'
      BY <1>2, <2>2
      DEF ClientInv, LinkTypes, FlagTypes, RefsInv, Client!CallAccounted, Client!ConnectFails
    <3> QED
      BY <3>1, <3>1a, <3>2, <3>3 DEF ClientInv
  <2> QED
    BY <2>1, <2>2
<1>3. CASE Client!SessionReady(c)
  <2>1. LinkTypes'
    BY <1>3 DEF ClientInv, LinkTypes, Client!SessionReady
  <2>1a. FlagTypes'
    BY <1>3 DEF ClientInv, FlagTypes, Client!SessionReady
  <2>2. RefsInv' /\ FlagsInv'
    BY <1>3 DEF ClientInv, LinkTypes, FlagTypes, RefsInv, FlagsInv, Client!SessionReady
  <2>3. Client!CallAccounted'
    BY <1>3
    DEF ClientInv, LinkTypes, FlagTypes, RefsInv, Client!CallAccounted, Client!SessionReady
  <2> QED
    BY <2>1, <2>1a, <2>2, <2>3 DEF ClientInv
<1>4. CASE Client!RelayError(c)
  BY <1>4, StopKeeps DEF Client!RelayError, Client!OnError, ClientInv, LinkTypes, FlagTypes
<1>5. CASE Client!MicrophoneOpens(c)
  <2>1. LinkTypes'
    BY <1>5 DEF ClientInv, LinkTypes, Client!MicrophoneOpens
  <2>1a. FlagTypes'
    BY <1>5 DEF ClientInv, FlagTypes, Client!MicrophoneOpens
  <2>2. RefsInv' /\ FlagsInv'
    BY <1>5 DEF ClientInv, LinkTypes, FlagTypes, RefsInv, FlagsInv, Client!MicrophoneOpens
  <2>3. Client!CallAccounted'
    BY <1>5
    DEF ClientInv, LinkTypes, FlagTypes, RefsInv, Client!CallAccounted, Client!MicrophoneOpens
  <2> QED
    BY <2>1, <2>1a, <2>2, <2>3 DEF ClientInv
<1>6. CASE Client!MicrophoneFails(c)
  <2>1. CASE engineRef = c
    BY <1>6, <2>1, StopKeeps
    DEF Client!MicrophoneFails, Client!OnError, ClientInv, LinkTypes, FlagTypes
  <2>2. CASE engineRef # c
    <3>1. asking' = asking \ {c} /\ UNCHANGED <<connectionId, ws, wsRef, engineRef, microphone,
              late, userStopped, reconnectAttempts, reconnectTimer, hasConnected, isConnected,
              isReconnecting, isMuted, muted, startedMuted, told, mounted, greeting>>
      BY <1>6, <2>2 DEF Client!MicrophoneFails
    <3>2. LinkTypes' /\ RefsInv' /\ FlagsInv'
      BY <3>1 DEF ClientInv, LinkTypes, RefsInv, FlagsInv
    <3>3. FlagTypes' /\ Client!CallAccounted'
      BY <3>1 DEF ClientInv, FlagTypes, Client!CallAccounted
    <3> QED
      BY <3>2, <3>3 DEF ClientInv
  <2> QED
    BY <2>1, <2>2
<1> QED
  BY <1>1, <1>2, <1>3, <1>4, <1>5, <1>6

\* onclose
LEMMA CloseKeeps ==
    ASSUME ClientInv, NEW c \in Client!Connections, Client!Closed(c)
    PROVE  ClientInv'
<1> USE DEF Client!Connections, Client!Opening, Client!muteVars
<1>1. /\ ws' = [ws EXCEPT ![c] = "closed"] /\ ws[c] # "none"
      /\ UNCHANGED <<connectionId, wsRef, engineRef, asking, userStopped, hasConnected, isMuted,
                     muted, startedMuted, late, mounted, greeting>>
  BY DEF Client!Closed
<1>2. CASE connectionId # c
  <2>1. UNCHANGED <<microphone, isConnected, isReconnecting, reconnectAttempts, reconnectTimer, told>>
    BY <1>2 DEF Client!Closed, Client!Superseded
  <2>2. LinkTypes' /\ FlagTypes'
    BY <1>1, <2>1 DEF ClientInv, LinkTypes, FlagTypes
  <2>3. RefsInv' /\ FlagsInv'
    BY <1>1, <2>1 DEF ClientInv, LinkTypes, RefsInv, FlagsInv
  <2>4. Client!CallAccounted'
    BY <1>1, <1>2, <2>1 DEF ClientInv, LinkTypes, RefsInv, Client!CallAccounted
  <2> QED
    BY <2>2, <2>3, <2>4 DEF ClientInv
<1>3. CASE connectionId = c
  <2>1. /\ isConnected' = FALSE /\ microphone' = microphone \ {c}
        /\ userStopped => UNCHANGED <<isReconnecting, reconnectAttempts, reconnectTimer, told>>
        /\ ~userStopped /\ Client!AttemptLeft => Client!Reconnect
        /\ ~userStopped /\ ~Client!AttemptLeft => Client!GiveUp
    BY <1>3 DEF Client!Closed, Client!Superseded, Client!Released
  <2>5. /\ userStopped => UNCHANGED reconnectTimer
        /\ isReconnecting' \in BOOLEAN /\ reconnectTimer' \in BOOLEAN /\ told' \in BOOLEAN
        /\ reconnectAttempts' \in 0..MaxReconnectAttempts
    <3>1. /\ isReconnecting \in BOOLEAN /\ reconnectTimer \in BOOLEAN /\ told \in BOOLEAN
          /\ reconnectAttempts \in 0..MaxReconnectAttempts
      BY DEF ClientInv, LinkTypes, FlagTypes
    <3>2. CASE userStopped
      BY <2>1, <3>1, <3>2
    <3>3. CASE ~userStopped /\ Client!AttemptLeft
      <4>1. /\ reconnectAttempts' = reconnectAttempts + 1 /\ told' = told
            /\ reconnectTimer' = TRUE /\ isReconnecting' = TRUE
        BY <2>1, <3>3 DEF Client!Reconnect
      <4>2. reconnectAttempts < MaxReconnectAttempts
        BY <3>3 DEF Client!AttemptLeft
      <4>3. reconnectAttempts' \in 0..MaxReconnectAttempts
        BY <3>1, <4>1, <4>2
      <4> QED
        BY <3>1, <3>3, <4>1, <4>3
    <3>4. CASE ~userStopped /\ ~Client!AttemptLeft
      BY <2>1, <3>1, <3>4 DEF Client!GiveUp
    <3> QED
      BY <3>2, <3>3, <3>4
  <2>2. LinkTypes'
    BY <1>1, <2>1, <2>5 DEF ClientInv, LinkTypes
  <2>2a. FlagTypes'
    BY <1>1, <2>1, <2>5 DEF ClientInv, FlagTypes
  <2>3. RefsInv' /\ FlagsInv'
    BY <1>1, <1>3, <2>1, <2>5 DEF ClientInv, LinkTypes, FlagTypes, RefsInv, FlagsInv
  <2>4. Client!CallAccounted'
    BY <1>1, <1>3, <2>1, <2>5 DEF ClientInv, LinkTypes, FlagTypes, RefsInv, Client!CallAccounted
  <2> QED
    BY <2>2, <2>2a, <2>3, <2>4 DEF ClientInv
<1> QED
  BY <1>2, <1>3

LEMMA NextClient == ClientInv /\ [Client!Next]_clientVars => ClientInv'
<1> SUFFICES ASSUME ClientInv, [Client!Next]_clientVars PROVE ClientInv'
  OBVIOUS
<1>1. CASE Client!UserStarts
  BY <1>1, StartKeeps DEF Client!UserStarts, Client!StartCall, ClientInv, FlagTypes
<1>1a. CASE Client!GreetingStarts
  BY <1>1a, StartKeeps DEF Client!GreetingStarts, Client!StartCall
<1>2. CASE Client!UserStops
  BY <1>2, StopKeeps DEF Client!UserStops, ClientInv, LinkTypes, FlagTypes
<1>3. CASE Client!ToggleMute
  BY <1>3
  DEF Client!ToggleMute, Client!Shown, ClientInv, LinkTypes, FlagTypes, RefsInv, FlagsInv,
      Client!CallAccounted
<1>4. CASE Client!ReconnectTimer
  <2>1. ~userStopped /\ mounted
    BY <1>4 DEF Client!ReconnectTimer, ClientInv, RefsInv, Client!CallAccounted
  <2> QED
    BY <1>4, <2>1, StartKeeps DEF Client!ReconnectTimer, ClientInv, LinkTypes, FlagTypes
<1>5. CASE Client!Unmount
  <2> USE DEF Client!Connections, Client!Opening, Client!muteVars, Client!Closing, Client!Released
  <2>1. LinkTypes'
    BY <1>5 DEF ClientInv, LinkTypes, Client!Unmount
  <2>1a. FlagTypes'
    BY <1>5 DEF ClientInv, FlagTypes, Client!Unmount
  <2>2. RefsInv' /\ FlagsInv'
    BY <1>5 DEF ClientInv, LinkTypes, FlagTypes, RefsInv, FlagsInv, Client!Unmount
  <2>3. Client!CallAccounted'
    BY <1>5 DEF ClientInv, LinkTypes, FlagTypes, RefsInv, Client!CallAccounted, Client!Unmount
  <2> QED
    BY <2>1, <2>1a, <2>2, <2>3 DEF ClientInv
<1>6. CASE UNCHANGED clientVars
  BY <1>6
  DEF clientVars, ClientInv, LinkTypes, FlagTypes, RefsInv, FlagsInv, Client!CallAccounted
<1> QED
  BY <1>1, <1>1a, <1>2, <1>3, <1>4, <1>5, <1>6, EventKeeps, CloseKeeps DEF Client!Next

-----------------------------------------------------------------------------
(***************************************************************************)
(* The phone's call through the Relay.                                     *)
(***************************************************************************)

\* MobileTypeOK in two parts, a variable at a time.
SocketTypes ==
    /\ sock \in [Mobile!Sockets -> {"none", "connecting", "open", "closing", "closed"}]
    /\ ready \subseteq Mobile!Sockets /\ mWsRef \in Mobile!Sockets \cup {0}
    /\ starting \subseteq {"tap", "timer"}
    /\ status \in {"idle", "reconnecting", "failed"}
    /\ attempt \in 0..MaxAttempts + 1 /\ oldTimers \in 0..MaxTimers

PhoneTypes ==
    /\ mUserStopped \in BOOLEAN /\ mConnected \in BOOLEAN /\ mCapturing \in BOOLEAN
    /\ isCallActive \in BOOLEAN /\ isConnecting \in BOOLEAN /\ pairNeeded \in BOOLEAN
    /\ cancelled \in BOOLEAN /\ timer \in BOOLEAN /\ excused \in BOOLEAN

\* The socket in use is not one that stop or a later start closed.
InUse == mWsRef # 0 => sock[mWsRef] \in {"connecting", "open", "closed"}

Coming ==
    \/ Mobile!Live(mWsRef) \/ status = "failed" \/ excused
    \/ (timer \/ oldTimers > 0) /\ ~cancelled

\* A call that is shown as active has its connection or is to get another, and one that
\* is shown as connecting is being started or is to be.
ActiveInv == isCallActive => Coming \/ ("timer" \in starting /\ ~cancelled)
ConnectingInv == isConnecting => Coming \/ starting # {}

MobileInv ==
    /\ SocketTypes /\ PhoneTypes
    /\ InUse /\ ActiveInv /\ ConnectingInv
    /\ Mobile!OneLink /\ Mobile!MicrophoneHasSession

LEMMA MobileImplied ==
    MobileInv => /\ Mobile!MobileTypeOK /\ Mobile!OneLink /\ Mobile!MicrophoneHasSession
                 /\ Mobile!NeverStranded
<1> SUFFICES ASSUME MobileInv
    PROVE  Mobile!MobileTypeOK /\ Mobile!NeverStranded
  BY DEF MobileInv
<1>1. {mUserStopped, mConnected, mCapturing, isCallActive, isConnecting, pairNeeded, cancelled,
       timer, excused} \subseteq BOOLEAN
  BY DEF MobileInv, PhoneTypes
<1>2. Mobile!MobileTypeOK
  BY <1>1 DEF MobileInv, SocketTypes, Mobile!MobileTypeOK, Mobile!NoSocket
<1>3. Mobile!NeverStranded
  BY DEF MobileInv, ActiveInv, ConnectingInv, Coming, Mobile!NeverStranded, Mobile!UnderWay
<1> QED
  BY <1>2, <1>3

LEMMA InitMobile == Mobile!Init => MobileInv
<1> SUFFICES ASSUME Mobile!Init PROVE MobileInv
  OBVIOUS
<1>3. SocketTypes
  BY DEF Mobile!Init, SocketTypes, Mobile!NoSocket
<1>1. SocketTypes /\ PhoneTypes
  BY <1>3 DEF Mobile!Init, PhoneTypes
<1>2. InUse /\ ActiveInv /\ ConnectingInv /\ Mobile!OneLink /\ Mobile!MicrophoneHasSession
  BY DEF Mobile!Init, InUse, ActiveInv, ConnectingInv, Mobile!OneLink,
         Mobile!MicrophoneHasSession,
         Mobile!NoSocket, Mobile!Live
<1> QED
  BY <1>1, <1>2 DEF MobileInv

\* A timer that is set, or the limit reached.
LEMMA Scheduled ==
    ASSUME MobileInv, NEW n \in 0..MaxAttempts + 1, Mobile!Schedule(n), cancelled' = FALSE
    PROVE  /\ attempt' \in 0..MaxAttempts + 1 /\ oldTimers' \in 0..MaxTimers
           /\ timer' \in BOOLEAN /\ status' \in {"reconnecting", "failed"}
           /\ Coming'
<1>1. attempt' \in 0..MaxAttempts + 1
  BY DEF Mobile!Schedule
<1>2. CASE n + 1 > MaxAttempts
  BY <1>1, <1>2 DEF Mobile!Schedule, MobileInv, SocketTypes, PhoneTypes, Coming
<1>3. CASE ~(n + 1 > MaxAttempts)
  <2>1. status' = "reconnecting" /\ timer' = TRUE
    BY <1>3 DEF Mobile!Schedule
  <2>2. oldTimers' \in 0..MaxTimers
    BY <1>3 DEF Mobile!Schedule, MobileInv, SocketTypes
  <2> QED
    BY <1>1, <2>1, <2>2 DEF Coming
<1> QED
  BY <1>2, <1>3

\* The sockets after another was opened, or the one in use was closed.
LEMMA SocketsKept ==
    ASSUME MobileInv,
           \/ Mobile!OpenSocket
           \/ sock' = Mobile!CloseSocket(mWsRef) /\ mWsRef' = 0
    PROVE  /\ sock' \in [Mobile!Sockets -> {"none", "connecting", "open", "closing", "closed"}]
           /\ mWsRef' \in Mobile!Sockets \cup {0}
           /\ InUse' /\ Mobile!OneLink'
           /\ \A s \in Mobile!Sockets :
                 sock[s] \in {"open", "closing"} => sock'[s] \in {"open", "closing"}
           /\ Mobile!OpenSocket => Mobile!Live(mWsRef)'
<1> USE DEF Mobile!CloseSocket, Mobile!Live, Mobile!NoSocket
<1>1. CASE Mobile!OpenSocket
  <2>1. PICK s \in Mobile!Sockets :
           /\ sock[s] = "none" /\ mWsRef' = s
           /\ sock' = [Mobile!CloseSocket(mWsRef) EXCEPT ![s] = "connecting"]
    BY <1>1 DEF Mobile!OpenSocket
  <2>2. s \in Nat /\ s # 0
    BY DEF Mobile!Sockets
  <2> QED
    BY <2>1, <2>2 DEF MobileInv, SocketTypes, InUse, Mobile!OneLink
<1>2. CASE sock' = Mobile!CloseSocket(mWsRef) /\ mWsRef' = 0
  <2>1. 0 \notin Mobile!Sockets
    BY DEF Mobile!Sockets
  <2>2. ~Mobile!OpenSocket
    BY <1>2, <2>1 DEF Mobile!OpenSocket
  <2> QED
    BY <1>2, <2>1, <2>2 DEF MobileInv, SocketTypes, InUse, Mobile!OneLink
<1> QED
  BY <1>1, <1>2

\* The page and its timers.
LEMMA TapKeeps == ASSUME MobileInv, Mobile!Tap PROVE MobileInv'
<1>1. SocketTypes' /\ PhoneTypes'
  BY DEF Mobile!Tap, Mobile!hookVars, Mobile!timerVars, MobileInv, SocketTypes, PhoneTypes
<1>2. InUse' /\ Mobile!OneLink' /\ Mobile!MicrophoneHasSession'
  BY DEF Mobile!Tap, Mobile!hookVars, MobileInv, InUse, Mobile!OneLink,
         Mobile!MicrophoneHasSession,
         Mobile!Live
<1>3. ActiveInv' /\ ConnectingInv'
  BY DEF Mobile!Tap, Mobile!hookVars, Mobile!timerVars, MobileInv, ActiveInv, ConnectingInv,
         Coming, Mobile!Live
<1> QED
  BY <1>1, <1>2, <1>3 DEF MobileInv

LEMMA StartedKeeps ==
    ASSUME MobileInv, NEW who \in {"tap", "timer"}, Mobile!Started(who)
    PROVE  MobileInv'
<1>1. Mobile!OpenSocket
  BY DEF Mobile!Started
<1>2. SocketTypes' /\ PhoneTypes'
  BY <1>1, SocketsKept DEF Mobile!Started, Mobile!timerVars, MobileInv, SocketTypes, PhoneTypes
<1>3. InUse' /\ Mobile!OneLink' /\ Mobile!MicrophoneHasSession'
  BY <1>1, SocketsKept DEF Mobile!Started, MobileInv, SocketTypes, Mobile!MicrophoneHasSession
<1>4. ActiveInv' /\ ConnectingInv'
  BY <1>1, SocketsKept DEF ActiveInv, ConnectingInv, Coming
<1> QED
  BY <1>2, <1>3, <1>4 DEF MobileInv

LEMMA StartFailsKeeps ==
    ASSUME MobileInv, NEW who \in {"tap", "timer"}, Mobile!StartFails(who)
    PROVE  MobileInv'
<1>1. /\ who \in starting /\ starting' = starting \ {who} /\ isConnecting' = FALSE
      /\ UNCHANGED <<sock, ready, mWsRef, mUserStopped, mConnected, mCapturing, isCallActive,
                     pairNeeded, excused, cancelled>>
      /\ IF who = "timer" /\ ~cancelled THEN Mobile!Schedule(attempt)
         ELSE UNCHANGED <<status, attempt, timer, oldTimers>>
  BY DEF Mobile!StartFails, Mobile!hookVars, Mobile!timerVars
<1>2. InUse' /\ Mobile!OneLink' /\ Mobile!MicrophoneHasSession' /\ ConnectingInv'
  BY <1>1
  DEF MobileInv, InUse, Mobile!OneLink, Mobile!MicrophoneHasSession, Mobile!Live, ConnectingInv
<1>3. CASE who = "timer" /\ ~cancelled
  <2>1. cancelled' = FALSE /\ Mobile!Schedule(attempt) /\ attempt \in 0..MaxAttempts + 1
    BY <1>1, <1>3 DEF MobileInv, PhoneTypes, SocketTypes
  <2>2. Coming' /\ SocketTypes' /\ PhoneTypes'
    BY <1>1, <2>1, Scheduled DEF MobileInv, PhoneTypes, SocketTypes
  <2> QED
    BY <1>2, <2>2 DEF MobileInv, ActiveInv
<1>4. CASE ~(who = "timer" /\ ~cancelled)
  <2>1. SocketTypes' /\ PhoneTypes'
    BY <1>1, <1>4 DEF MobileInv, PhoneTypes, SocketTypes
  <2>2. ActiveInv'
    BY <1>1, <1>4 DEF MobileInv, ActiveInv, Coming, Mobile!Live
  <2> QED
    BY <1>2, <2>1, <2>2 DEF MobileInv
<1> QED
  BY <1>3, <1>4

LEMMA TimerFiresKeeps == ASSUME MobileInv, Mobile!TimerFires PROVE MobileInv'
<1>1. /\ UNCHANGED <<sock, ready, mWsRef, mUserStopped, mConnected, mCapturing, isCallActive,
                     status, attempt, cancelled, excused>>
      /\ timer' \in BOOLEAN /\ oldTimers' \in 0..MaxTimers
      /\ IF cancelled THEN UNCHANGED <<isConnecting, pairNeeded, starting>>
         ELSE isConnecting' = TRUE /\ pairNeeded' = FALSE /\ starting' = starting \cup {"timer"}
  <2>1. timer \in BOOLEAN /\ oldTimers \in 0..MaxTimers
    BY DEF MobileInv, SocketTypes, PhoneTypes
  <2>2. timer' \in BOOLEAN /\ oldTimers' \in 0..MaxTimers
    <3>1. \/ timer' = FALSE /\ oldTimers' = oldTimers
          \/ oldTimers > 0 /\ oldTimers' = oldTimers - 1 /\ timer' = timer
      BY DEF Mobile!TimerFires
    <3>2. oldTimers > 0 => oldTimers - 1 \in 0..MaxTimers
      BY <2>1
    <3>3. timer' \in BOOLEAN
      BY <2>1, <3>1
    <3>4. oldTimers' \in 0..MaxTimers
      BY <2>1, <3>1, <3>2
    <3> QED
      BY <3>3, <3>4
  <2> QED
    BY <2>2 DEF Mobile!TimerFires, Mobile!Reconnect, Mobile!hookVars
<1>2. InUse' /\ Mobile!OneLink' /\ Mobile!MicrophoneHasSession'
  BY <1>1 DEF MobileInv, InUse, Mobile!OneLink, Mobile!MicrophoneHasSession, Mobile!Live
<1>3. SocketTypes' /\ PhoneTypes'
  BY <1>1 DEF MobileInv, SocketTypes, PhoneTypes
<1>4. ActiveInv' /\ ConnectingInv'
  BY <1>1 DEF MobileInv, ActiveInv, ConnectingInv, Coming, Mobile!Live, PhoneTypes
<1> QED
  BY <1>2, <1>3, <1>4 DEF MobileInv

LEMMA HangUpKeeps == ASSUME MobileInv, Mobile!HangUp PROVE MobileInv'
<1>1. /\ sock' = Mobile!CloseSocket(mWsRef) /\ mWsRef' = 0
      /\ mUserStopped' = TRUE /\ mConnected' = FALSE /\ mCapturing' = FALSE /\ isCallActive' = FALSE
      /\ cancelled' = TRUE /\ timer' = FALSE /\ attempt' = 0 /\ status' = "idle"
      /\ excused' = (excused \/ isConnecting)
      /\ UNCHANGED <<ready, isConnecting, pairNeeded, starting, oldTimers>>
  BY DEF Mobile!HangUp, Mobile!Cancel, Mobile!NoSocket
<1>2. InUse' /\ Mobile!OneLink' /\ Mobile!MicrophoneHasSession'
  BY <1>1, SocketsKept DEF Mobile!MicrophoneHasSession
<1>5. SocketTypes'
  BY <1>1, SocketsKept DEF MobileInv, SocketTypes
<1>3. SocketTypes' /\ PhoneTypes'
  BY <1>1, <1>5 DEF MobileInv, PhoneTypes
<1>4. ActiveInv' /\ ConnectingInv'
  BY <1>1 DEF ActiveInv, ConnectingInv, Coming
<1> QED
  BY <1>2, <1>3, <1>4 DEF MobileInv

LEMMA BarKeeps ==
    ASSUME MobileInv, Mobile!CancelReconnect \/ Mobile!Retry
    PROVE  MobileInv'
<1>1. UNCHANGED <<sock, ready, mWsRef, mUserStopped, mConnected, mCapturing, isCallActive,
                  isConnecting, pairNeeded, starting>>
  BY DEF Mobile!CancelReconnect, Mobile!Retry, Mobile!hookVars, Mobile!pageVars
<1>2. InUse' /\ Mobile!OneLink' /\ Mobile!MicrophoneHasSession'
  BY <1>1 DEF MobileInv, InUse, Mobile!OneLink, Mobile!MicrophoneHasSession, Mobile!Live
<1>3. SocketTypes' /\ PhoneTypes' /\ Coming'
  <2>1. CASE Mobile!CancelReconnect
    <3>1. /\ excused' = TRUE /\ cancelled' = TRUE /\ timer' = FALSE /\ attempt' = 0
          /\ status' = "idle" /\ UNCHANGED oldTimers
      BY <2>1 DEF Mobile!CancelReconnect, Mobile!Cancel
    <3>2. SocketTypes'
      BY <1>1, <3>1 DEF MobileInv, SocketTypes
    <3> QED
      BY <1>1, <3>1, <3>2 DEF MobileInv, PhoneTypes, Coming
  <2>2. CASE Mobile!Retry
    <3>1. cancelled' = FALSE /\ Mobile!Schedule(0) /\ excused' = excused /\ 0 \in 0..MaxAttempts + 1
      BY <2>2 DEF Mobile!Retry, Mobile!Trigger
    <3> QED
      BY <1>1, <3>1, Scheduled DEF MobileInv, SocketTypes, PhoneTypes
  <2> QED
    BY <2>1, <2>2
<1>4. ActiveInv' /\ ConnectingInv'
  BY <1>3 DEF ActiveInv, ConnectingInv
<1> QED
  BY <1>2, <1>3, <1>4 DEF MobileInv

\* The events of a socket.
LEMMA SocketKeeps ==
    ASSUME MobileInv, NEW s \in Mobile!Sockets,
           \/ Mobile!Opens(s) \/ Mobile!Ready(s)
           \/ \E unpaired \in BOOLEAN : Mobile!RelayError(s, unpaired)
    PROVE  MobileInv'
<1> USE DEF Mobile!hookVars, Mobile!pageVars, Mobile!timerVars
<1>0. s # 0
  BY DEF Mobile!Sockets
<1>1. CASE Mobile!Opens(s)
  <2>1. SocketTypes' /\ PhoneTypes'
    BY <1>1 DEF Mobile!Opens, MobileInv, SocketTypes, PhoneTypes
  <2>2. InUse' /\ Mobile!OneLink' /\ Mobile!MicrophoneHasSession'
    BY <1>1
    DEF Mobile!Opens, MobileInv, SocketTypes, InUse, Mobile!OneLink,
        Mobile!MicrophoneHasSession,
                Mobile!Live
  <2>3. ActiveInv' /\ ConnectingInv'
    BY <1>1
    DEF Mobile!Opens, MobileInv, SocketTypes, ActiveInv, ConnectingInv, Coming, Mobile!Live
  <2> QED
    BY <2>1, <2>2, <2>3 DEF MobileInv
<1>2. CASE Mobile!Ready(s)
  <2>5. SocketTypes'
    BY <1>2 DEF Mobile!Ready, Mobile!Cancel, MobileInv, SocketTypes
  <2>1. SocketTypes' /\ PhoneTypes'
    BY <1>2, <2>5 DEF Mobile!Ready, Mobile!Cancel, MobileInv, PhoneTypes
  <2>2. InUse' /\ Mobile!OneLink' /\ Mobile!MicrophoneHasSession'
    BY <1>2
    DEF Mobile!Ready, MobileInv, SocketTypes, InUse, Mobile!OneLink,
        Mobile!MicrophoneHasSession,
                Mobile!Live
  <2>3. Coming'
    BY <1>0, <1>2
    DEF Mobile!Ready, MobileInv, SocketTypes, InUse, Coming, Mobile!Live, Mobile!NoSocket
  <2>4. ActiveInv' /\ ConnectingInv'
    BY <2>3 DEF ActiveInv, ConnectingInv
  <2> QED
    BY <2>1, <2>2, <2>4 DEF MobileInv
<1>3. ASSUME NEW unpaired \in BOOLEAN, Mobile!RelayError(s, unpaired) PROVE MobileInv'
  <2>1. /\ isCallActive' = FALSE /\ isConnecting' = FALSE
        /\ UNCHANGED <<sock, ready, mWsRef, mUserStopped, mConnected, mCapturing, starting,
                       excused>>
        /\ IF unpaired THEN pairNeeded' = TRUE /\ Mobile!Cancel
           ELSE UNCHANGED <<pairNeeded, status, attempt, cancelled, timer, oldTimers>>
    BY <1>3 DEF Mobile!RelayError
  <2>5. ASSUME unpaired PROVE SocketTypes' /\ PhoneTypes'
    <3>1. pairNeeded' = TRUE /\ cancelled' = TRUE /\ timer' = FALSE /\ attempt' = 0
          /\ status' = "idle" /\ UNCHANGED oldTimers
      BY <2>1, <2>5 DEF Mobile!Cancel
    <3>2. SocketTypes'
      BY <2>1, <3>1 DEF MobileInv, SocketTypes
    <3> QED
      BY <2>1, <3>1, <3>2 DEF MobileInv, PhoneTypes
  <2>6. ASSUME ~unpaired PROVE SocketTypes' /\ PhoneTypes'
    BY <2>1, <2>6 DEF MobileInv, SocketTypes, PhoneTypes
  <2>2. SocketTypes' /\ PhoneTypes'
    BY <2>5, <2>6
  <2>3. InUse' /\ Mobile!OneLink' /\ Mobile!MicrophoneHasSession'
    BY <2>1 DEF MobileInv, InUse, Mobile!OneLink, Mobile!MicrophoneHasSession, Mobile!Live
  <2>4. ActiveInv' /\ ConnectingInv'
    BY <2>1 DEF ActiveInv, ConnectingInv
  <2> QED
    BY <2>2, <2>3, <2>4 DEF MobileInv
<1> QED
  BY <1>1, <1>2, <1>3

LEMMA ClosedKeeps ==
    ASSUME MobileInv, NEW s \in Mobile!Sockets, NEW active \in BOOLEAN, NEW waiting \in BOOLEAN,
           Mobile!Closed(s, active, waiting), active => isCallActive, waiting => isConnecting
    PROVE  MobileInv'
<1>0. s # 0
  BY DEF Mobile!Sockets
<1>1. /\ sock' = [sock EXCEPT ![s] = "closed"]
      /\ mConnected' = FALSE /\ mCapturing' = FALSE /\ mUserStopped' = FALSE
      /\ excused' = (excused \/ (mUserStopped /\ s = mWsRef))
      /\ UNCHANGED <<ready, mWsRef, pairNeeded, starting>>
  BY DEF Mobile!Closed
<1>2. InUse' /\ Mobile!OneLink' /\ Mobile!MicrophoneHasSession'
  BY <1>1
  DEF MobileInv, SocketTypes, InUse, Mobile!OneLink, Mobile!MicrophoneHasSession, Mobile!Live
<1>3. CASE mUserStopped
  <2>1. isCallActive' = active /\ isConnecting' = waiting
        /\ UNCHANGED <<status, attempt, cancelled, timer, oldTimers>>
    BY <1>3 DEF Mobile!Closed, Mobile!timerVars
  <2>2. SocketTypes' /\ PhoneTypes'
    BY <1>1, <2>1 DEF MobileInv, SocketTypes, PhoneTypes
  <2>3. Coming => Coming'
    <3>1. CASE s = mWsRef
      BY <1>1, <1>3, <3>1 DEF Coming
    <3>2. CASE s # mWsRef
      BY <1>1, <2>1, <3>2 DEF MobileInv, SocketTypes, PhoneTypes, Coming, Mobile!Live
    <3> QED
      BY <3>1, <3>2
  <2>4. ActiveInv' /\ ConnectingInv'
    BY <1>1, <2>1, <2>3 DEF MobileInv, ActiveInv, ConnectingInv
  <2> QED
    BY <1>2, <2>2, <2>4 DEF MobileInv
<1>4. CASE ~mUserStopped /\ pairNeeded
  <2>1. isCallActive' = FALSE /\ isConnecting' = FALSE
        /\ UNCHANGED <<status, attempt, cancelled, timer, oldTimers>>
    BY <1>4 DEF Mobile!Closed, Mobile!timerVars
  <2>2. SocketTypes' /\ PhoneTypes'
    BY <1>1, <2>1 DEF MobileInv, SocketTypes, PhoneTypes
  <2> QED
    BY <1>2, <2>1, <2>2 DEF MobileInv, ActiveInv, ConnectingInv
<1>5. CASE ~mUserStopped /\ ~pairNeeded
  <2>1. /\ isCallActive' = active /\ isConnecting' = waiting
        /\ cancelled' = FALSE /\ Mobile!Schedule(0) /\ 0 \in 0..MaxAttempts + 1
    BY <1>5 DEF Mobile!Closed, Mobile!Trigger
  <2>2. SocketTypes' /\ PhoneTypes' /\ Coming'
    BY <1>1, <2>1, Scheduled DEF MobileInv, SocketTypes, PhoneTypes
  <2> QED
    BY <1>2, <2>2 DEF MobileInv, ActiveInv, ConnectingInv
<1> QED
  BY <1>3, <1>4, <1>5

LEMMA NextMobile == MobileInv /\ [Mobile!Next]_mobileVars => MobileInv'
<1> SUFFICES ASSUME MobileInv, [Mobile!Next]_mobileVars PROVE MobileInv'
  OBVIOUS
<1>1. ASSUME NEW s \in Mobile!Sockets, Mobile!Closes(s) PROVE MobileInv'
  BY <1>1, ClosedKeeps DEF Mobile!Closes, MobileInv, PhoneTypes
<1>2. ASSUME NEW s \in Mobile!Sockets, Mobile!Fails(s) PROVE MobileInv'
  BY <1>2, ClosedKeeps DEF Mobile!Fails
<1>3. CASE UNCHANGED mobileVars
  BY <1>3
  DEF mobileVars, MobileInv, SocketTypes, PhoneTypes, InUse, ActiveInv, ConnectingInv, Coming,
      Mobile!OneLink, Mobile!MicrophoneHasSession, Mobile!Live
<1> QED
  BY <1>1, <1>2, <1>3, TapKeeps, HangUpKeeps, BarKeeps, TimerFiresKeeps, StartedKeeps,
     StartFailsKeeps,
     SocketKeeps
  DEF Mobile!Next

-----------------------------------------------------------------------------
(***************************************************************************)
(* The phone's call with Gemini.                                           *)
(***************************************************************************)

\* DirectTypeOK without its flags, a variable at a time.
DirectTypes ==
    /\ mode \in {"none", "direct", "relay"} /\ last \in 0..MaxStarts
    /\ chain \in [Direct!Starts -> {"none", "relay", "auth", "answers", "setup", "up", "failed"}]
    /\ relay \in [Direct!Starts -> Direct!SocketStates]
    /\ gemini \in [Direct!Starts -> Direct!SocketStates]
    /\ relayWsRef \in 0..MaxStarts /\ geminiWsRef \in 0..MaxStarts
    /\ pending \in [Direct!Waits -> 0..MaxStarts]

HistoryTypes ==
    /\ got \in [Direct!Starts -> SUBSET Direct!Waits]
    /\ asked \in [Direct!Starts -> SUBSET Direct!Waits]
    /\ dTimer \subseteq Direct!Starts \X (Direct!Waits \cup {"relay", "setup"})
    /\ settled \subseteq Direct!Starts /\ disturbed \subseteq Direct!Starts
    /\ dUserStopped \in BOOLEAN /\ dConnected \in BOOLEAN /\ dCapturing \in BOOLEAN

\* A start that has not opened its socket to the Relay has asked for nothing, one that has not been
\* made has no socket, and who waits for an answer was not stopped.
FreshInv ==
    /\ \A k \in Direct!Starts : relay[k] \in {"none", "connecting"} =>
          got[k] = {} /\ \A w \in Direct!Waits : pending[w] # k
    /\ \A k \in Direct!Starts : k > last => relay[k] = "none" /\ gemini[k] = "none"
    /\ \A w \in Direct!Waits : pending[w] # 0 => ~dUserStopped

\* An answer is awaited at most once, and the socket to Gemini is opened with both.
AwaitedInv ==
    /\ \A k \in Direct!Starts : pending["auth"] = k =>
          got[k] = {} /\ pending["prep"] # k /\ pending["token"] # k
    /\ \A k \in Direct!Starts, w \in {"prep", "token"} : pending[w] = k => w \notin got[k]
    /\ \A k \in Direct!Starts : gemini[k] # "none" => {"prep", "token"} \subseteq got[k]

DirectInv ==
    /\ DirectTypes /\ HistoryTypes
    /\ FreshInv /\ AwaitedInv
    /\ Direct!OnlyLastSetsUp /\ Direct!MicrophoneHasSession

LEMMA DirectImplied ==
    DirectInv => Direct!DirectTypeOK /\ Direct!OnlyLastSetsUp /\ Direct!MicrophoneHasSession
<1> SUFFICES ASSUME DirectInv PROVE Direct!DirectTypeOK
  BY DEF DirectInv
<1>1. {dUserStopped, dConnected, dCapturing} \subseteq BOOLEAN
  BY DEF DirectInv, HistoryTypes
<1> QED
  BY <1>1 DEF DirectInv, DirectTypes, HistoryTypes, Direct!DirectTypeOK

LEMMA StartsPositive == 0 \notin Direct!Starts /\ Direct!Starts \subseteq Nat
  BY DEF Direct!Starts

LEMMA InitDirect == Direct!Init => DirectInv
<1> SUFFICES ASSUME Direct!Init PROVE DirectInv
  OBVIOUS
<1>1. DirectTypes
  BY DEF Direct!Init, DirectTypes, Direct!None, Direct!SocketStates
<1>2. HistoryTypes
  BY DEF Direct!Init, HistoryTypes
<1>3. FreshInv /\ AwaitedInv
  BY StartsPositive DEF Direct!Init, FreshInv, AwaitedInv, Direct!None, Direct!Waits
<1>4. Direct!OnlyLastSetsUp /\ Direct!MicrophoneHasSession
  BY StartsPositive
  DEF Direct!Init, Direct!OnlyLastSetsUp, Direct!MicrophoneHasSession, Direct!None, Direct!Live
<1> QED
  BY <1>1, <1>2, <1>3, <1>4 DEF DirectInv

\* cleanup(), in the middle of which another socket to Gemini may be closed, too: nothing is
\* live, nobody waits, and a socket that delivers goes on.
Swept ==
    /\ relay' = Direct!Closing(relay, relayWsRef)
    /\ gemini' \in [Direct!Starts -> Direct!SocketStates]
    /\ \A k \in Direct!Starts :
          /\ gemini[k] = "none" => gemini'[k] = "none"
          /\ gemini'[k] = "none" => gemini[k] = "none"
          /\ ~Direct!Live(gemini', k)
    /\ relayWsRef' = 0 /\ geminiWsRef' = 0
    /\ pending' = [w \in Direct!Waits |-> 0]

LEMMA CleanupSweeps ==
    ASSUME DirectInv, Direct!Cleanup
    PROVE  /\ Swept
           /\ \A k \in Direct!Starts :
                 gemini[k] \in {"open", "closing"} => gemini'[k] \in {"open", "closing"}
  BY StartsPositive
  DEF DirectInv, DirectTypes, Direct!Cleanup, Direct!Closing, Direct!Live, Swept, Direct!None,
      Direct!OnlyLastSetsUp, Direct!SocketStates

\* What a clean-up keeps, whatever becomes of the timers and flags.
LEMMA SweptKeeps ==
    ASSUME DirectInv, Swept, last' = last, got' = got, mode' \in {"none", "direct", "relay"},
           chain' \in [Direct!Starts ->
                       {"none", "relay", "auth", "answers", "setup", "up", "failed"}]
    PROVE  DirectTypes' /\ FreshInv' /\ AwaitedInv' /\ Direct!OnlyLastSetsUp'
<1> USE StartsPositive DEF Swept, Direct!Closing, Direct!Live, Direct!None
<1>1. DirectTypes'
  <2>1. relay' \in [Direct!Starts -> Direct!SocketStates]
    BY DEF DirectInv, DirectTypes, Direct!SocketStates
  <2>2. relayWsRef' \in 0..MaxStarts /\ geminiWsRef' \in 0..MaxStarts
    BY CallsAssumption
  <2>3. pending' \in [Direct!Waits -> 0..MaxStarts]
    BY CallsAssumption
  <2> QED
    BY <2>1, <2>2, <2>3 DEF DirectInv, DirectTypes
<1>2. FreshInv'
  BY DEF DirectInv, DirectTypes, FreshInv
<1>3. AwaitedInv'
  BY DEF DirectInv, DirectTypes, AwaitedInv, Direct!Waits
<1>4. Direct!OnlyLastSetsUp'
  BY DEF DirectInv, DirectTypes, Direct!OnlyLastSetsUp
<1> QED
  BY <1>1, <1>2, <1>3, <1>4

\* The microphone's session is left alone.
LEMMA SessionKept ==
    ASSUME DirectInv, dCapturing' => dCapturing, settled \subseteq settled',
           \A k \in settled :
                 gemini[k] \in {"open", "closing"} => gemini'[k] \in {"open", "closing"},
           settled' \subseteq Direct!Starts
    PROVE  Direct!MicrophoneHasSession'
  BY DEF DirectInv, HistoryTypes, Direct!MicrophoneHasSession

\* A rejected chain.
LEMMA FailKeeps ==
    ASSUME DirectInv, NEW k \in Direct!Starts, Direct!Fail(k), HistoryTypes',
           UNCHANGED <<last, got, settled, dCapturing>>
    PROVE  DirectInv'
<1>1. /\ chain' = [chain EXCEPT ![k] = "failed"] /\ mode' = "relay" /\ Direct!Cleanup
  BY DEF Direct!Fail
<1>2. chain' \in [Direct!Starts -> {"none", "relay", "auth", "answers", "setup", "up", "failed"}]
  BY <1>1 DEF DirectInv, DirectTypes
<1>3. DirectTypes' /\ FreshInv' /\ AwaitedInv' /\ Direct!OnlyLastSetsUp'
  BY <1>1, <1>2, CleanupSweeps, SweptKeeps
<1>4. Direct!MicrophoneHasSession'
  BY <1>1, CleanupSweeps, SessionKept DEF DirectInv, HistoryTypes
<1> QED
  BY <1>3, <1>4 DEF DirectInv

LEMMA StartDirectKeeps == ASSUME DirectInv, Direct!Start PROVE DirectInv'
<1>0. last + 1 \in Direct!Starts
  BY CallsAssumption DEF Direct!Start, Direct!Starts, DirectInv, DirectTypes
<1>1. PICK k \in Direct!Starts :
         /\ k = last + 1 /\ last' = k
         /\ relay' = [Direct!Closing(relay, relayWsRef) EXCEPT ![k] = "connecting"]
         /\ gemini' = Direct!Closing(gemini, geminiWsRef)
         /\ relayWsRef' = k /\ geminiWsRef' = 0
         /\ pending' = [w \in Direct!Waits |-> 0]
         /\ chain' = [chain EXCEPT ![k] = "relay"]
         /\ dTimer' = dTimer \cup {<<k, "relay">>}
  BY <1>0, Zenon DEF Direct!Start, Direct!None
<1>2. /\ mode' = "direct" /\ dUserStopped' = FALSE
      /\ UNCHANGED <<got, asked, settled, dConnected, dCapturing, disturbed>>
  BY DEF Direct!Start
<1> USE StartsPositive DEF Direct!Closing, Direct!Live, Direct!None
<1>3. DirectTypes'
  BY <1>1, <1>2 DEF DirectInv, DirectTypes, Direct!SocketStates, Direct!Waits, Direct!Starts
<1>4. HistoryTypes'
  <2>1. <<k, "relay">> \in Direct!Starts \X (Direct!Waits \cup {"relay", "setup"})
    OBVIOUS
  <2>2. dTimer' \subseteq Direct!Starts \X (Direct!Waits \cup {"relay", "setup"})
    BY <1>1, <2>1 DEF DirectInv, HistoryTypes
  <2> QED
    BY <1>2, <2>2 DEF DirectInv, HistoryTypes
<1>5. FreshInv'
  BY <1>1, <1>2 DEF DirectInv, DirectTypes, FreshInv
<1>6. AwaitedInv'
  BY <1>1, <1>2 DEF DirectInv, DirectTypes, AwaitedInv, Direct!Waits
<1>7. Direct!OnlyLastSetsUp'
  BY <1>1, <1>2 DEF DirectInv, DirectTypes, Direct!OnlyLastSetsUp
<1>8. Direct!MicrophoneHasSession'
  BY <1>1, <1>2, SessionKept DEF DirectInv, DirectTypes, HistoryTypes
<1> QED
  BY <1>3, <1>4, <1>5, <1>6, <1>7, <1>8 DEF DirectInv

LEMMA StopDirectKeeps == ASSUME DirectInv, Direct!Stop PROVE DirectInv'
<1>1. /\ Direct!Cleanup /\ dUserStopped' = TRUE /\ dConnected' = FALSE /\ dCapturing' = FALSE
      /\ UNCHANGED <<mode, last, chain, got, asked, dTimer, settled, disturbed>>
  BY DEF Direct!Stop
<1>2. DirectTypes' /\ FreshInv' /\ AwaitedInv' /\ Direct!OnlyLastSetsUp'
  BY <1>1, CleanupSweeps, SweptKeeps DEF DirectInv, DirectTypes
<1>3. HistoryTypes' /\ Direct!MicrophoneHasSession'
  BY <1>1 DEF DirectInv, HistoryTypes, Direct!MicrophoneHasSession
<1> QED
  BY <1>2, <1>3 DEF DirectInv

LEMMA RelayOpensKeeps ==
    ASSUME DirectInv, NEW k \in Direct!Starts, Direct!RelayOpens(k)
    PROVE  DirectInv'
<1>1. /\ relay[k] = "connecting" /\ relay' = [relay EXCEPT ![k] = "open"]
      /\ chain' = [chain EXCEPT ![k] = "auth"] /\ pending' = [pending EXCEPT !["auth"] = k]
      /\ asked' = [asked EXCEPT ![k] = @ \cup {"auth"}]
      /\ UNCHANGED <<mode, last, gemini, relayWsRef, geminiWsRef, got, settled, dUserStopped,
                     dConnected, dCapturing, disturbed>>
  BY DEF Direct!RelayOpens
<1>2. dTimer' \subseteq Direct!Starts \X (Direct!Waits \cup {"relay", "setup"})
  BY DEF Direct!RelayOpens, DirectInv, HistoryTypes, Direct!Waits
<1> USE StartsPositive DEF Direct!Live, Direct!None
<1>3. DirectTypes'
  BY <1>1 DEF DirectInv, DirectTypes, Direct!SocketStates, Direct!Waits, Direct!Starts
<1>4. HistoryTypes'
  BY <1>1, <1>2 DEF DirectInv, HistoryTypes, Direct!Waits
<1>5. k = last /\ k = relayWsRef /\ ~dUserStopped
  BY <1>1 DEF DirectInv, Direct!OnlyLastSetsUp
<1>6. FreshInv'
  BY <1>1, <1>5 DEF DirectInv, DirectTypes, FreshInv, Direct!Waits
<1>7. AwaitedInv'
  BY <1>1, <1>5 DEF DirectInv, DirectTypes, FreshInv, AwaitedInv, Direct!Waits
<1>8. Direct!OnlyLastSetsUp'
  BY <1>1, <1>5 DEF DirectInv, DirectTypes, Direct!OnlyLastSetsUp, Direct!Waits
<1>9. Direct!MicrophoneHasSession'
  BY <1>1 DEF DirectInv, Direct!MicrophoneHasSession
<1> QED
  BY <1>3, <1>4, <1>6, <1>7, <1>8, <1>9 DEF DirectInv

\* Timers that went off or were cleared.
LEMMA TimersTyped ==
    ASSUME DirectInv, NEW k, NEW w, dTimer' = dTimer \ {<<k, w>>},
           UNCHANGED <<got, asked, settled, dUserStopped, dConnected, dCapturing>>,
           disturbed' \subseteq Direct!Starts
    PROVE  HistoryTypes'
  BY DEF DirectInv, HistoryTypes

LEMMA RelayTimeoutKeeps ==
    ASSUME DirectInv, NEW k \in Direct!Starts, Direct!RelayTimeout(k)
    PROVE  DirectInv'
<1>1. HistoryTypes'
  BY DEF Direct!RelayTimeout, DirectInv, HistoryTypes
<1> QED
  BY <1>1, FailKeeps DEF Direct!RelayTimeout

LEMMA RequestTimeoutKeeps ==
    ASSUME DirectInv, NEW k \in Direct!Starts, NEW w \in Direct!Waits, Direct!RequestTimeout(k, w)
    PROVE  DirectInv'
<1>1. pending[w] \in Direct!Starts \cup {0}
  BY DEF DirectInv, DirectTypes, Direct!Starts
<1>2. disturbed' \subseteq Direct!Starts
  BY <1>1 DEF Direct!RequestTimeout, Direct!Robbed, Direct!None, DirectInv, HistoryTypes
<1>3. HistoryTypes'
  BY <1>2 DEF Direct!RequestTimeout, DirectInv, HistoryTypes
<1>4. CASE Direct!Fail(k)
  BY <1>3, <1>4, FailKeeps DEF Direct!RequestTimeout
<1>5. CASE /\ pending' = [pending EXCEPT ![w] = 0]
           /\ UNCHANGED <<mode, chain, relay, gemini, relayWsRef, geminiWsRef>>
  <2>1. UNCHANGED <<last, got, settled, dUserStopped, dCapturing>>
    BY DEF Direct!RequestTimeout
  <2> USE StartsPositive
  <2>2. DirectTypes'
    BY <1>5, <2>1 DEF DirectInv, DirectTypes
  <2>3. FreshInv'
    BY <1>5, <2>1 DEF DirectInv, DirectTypes, FreshInv
  <2>4. AwaitedInv'
    BY <1>5, <2>1 DEF DirectInv, DirectTypes, AwaitedInv, Direct!Waits
  <2>5. Direct!OnlyLastSetsUp' /\ Direct!MicrophoneHasSession'
    BY <1>5, <2>1
    DEF DirectInv, DirectTypes, Direct!OnlyLastSetsUp, Direct!MicrophoneHasSession,
                      Direct!Live
  <2> QED
    BY <1>3, <2>2, <2>3, <2>4, <2>5 DEF DirectInv
<1> QED
  BY <1>4, <1>5 DEF Direct!RequestTimeout, Direct!None, Direct!sockVars

LEMMA RelayClosesKeeps ==
    ASSUME DirectInv, NEW k \in Direct!Starts, Direct!RelayCloses(k)
    PROVE  DirectInv'
<1>1. /\ relay[k] \in {"connecting", "open", "closing"}
      /\ relay' = [relay EXCEPT ![k] = "closed"]
      /\ relayWsRef' = IF relayWsRef = k THEN 0 ELSE relayWsRef
      /\ gemini' = IF dUserStopped THEN gemini ELSE Direct!Closing(gemini, geminiWsRef)
      /\ UNCHANGED <<mode, last, chain, geminiWsRef, pending, got, asked, dTimer, settled,
                     dUserStopped, dConnected, dCapturing, disturbed>>
  BY DEF Direct!RelayCloses, Direct!None
<1> USE StartsPositive DEF Direct!Live, Direct!None, Direct!Closing
<1>2. /\ gemini' \in [Direct!Starts -> Direct!SocketStates]
      /\ \A c \in Direct!Starts :
            /\ gemini'[c] = "none" <=> gemini[c] = "none"
            /\ gemini[c] \in {"open", "closing"} => gemini'[c] \in {"open", "closing"}
            /\ Direct!Live(gemini', c) => Direct!Live(gemini, c)
  <2>1. CASE dUserStopped
    BY <1>1, <2>1 DEF DirectInv, DirectTypes
  <2>2. CASE ~dUserStopped
    BY <1>1, <2>2 DEF DirectInv, DirectTypes, Direct!SocketStates
  <2> QED
    BY <2>1, <2>2
<1>3. DirectTypes' /\ HistoryTypes'
  BY <1>1, <1>2 DEF DirectInv, DirectTypes, HistoryTypes, Direct!SocketStates
<1>4. FreshInv'
  BY <1>1, <1>2 DEF DirectInv, DirectTypes, FreshInv
<1>5. AwaitedInv'
  BY <1>1, <1>2 DEF DirectInv, DirectTypes, AwaitedInv
<1>6. Direct!OnlyLastSetsUp'
  BY <1>1, <1>2 DEF DirectInv, DirectTypes, Direct!OnlyLastSetsUp
<1>7. Direct!MicrophoneHasSession'
  BY <1>1, <1>2, SessionKept DEF DirectInv, HistoryTypes
<1> QED
  BY <1>3, <1>4, <1>5, <1>6, <1>7 DEF DirectInv

LEMMA RefusedKeeps ==
    ASSUME DirectInv, NEW j \in Direct!Starts, NEW w \in Direct!Waits, Direct!Refused(j, w)
    PROVE  DirectInv'
<1>1. pending[w] \in Direct!Starts \cup {0}
  BY DEF DirectInv, DirectTypes, Direct!Starts
<1>2. disturbed' \subseteq Direct!Starts
  BY <1>1 DEF Direct!Refused, Direct!Robbed, Direct!None, DirectInv, HistoryTypes
<1>3. HistoryTypes'
  BY <1>2 DEF Direct!Refused, DirectInv, HistoryTypes
<1>4. CASE pending[w] = 0
  <2>1. UNCHANGED <<mode, chain, relay, gemini, relayWsRef, geminiWsRef, pending, last, got,
                    settled, dUserStopped, dCapturing>>
    BY <1>4 DEF Direct!Refused, Direct!None, Direct!sockVars, Direct!refVars
  <2> QED
    BY <1>3, <2>1
    DEF DirectInv, DirectTypes, FreshInv, AwaitedInv, Direct!OnlyLastSetsUp,
        Direct!MicrophoneHasSession, Direct!Live
<1>5. CASE pending[w] # 0
  BY <1>1, <1>3, <1>5, FailKeeps DEF Direct!Refused, Direct!None
<1> QED
  BY <1>4, <1>5

LEMMA AuthOkKeeps ==
    ASSUME DirectInv, NEW j \in Direct!Starts, Direct!AuthOk(j)
    PROVE  DirectInv'
<1> DEFINE p == pending["auth"]
           open == relayWsRef # 0 /\ relay[relayWsRef] = "open"
<1>1. p \in Direct!Starts \cup {0}
  BY DEF DirectInv, DirectTypes, Direct!Starts, Direct!Waits
<1>2. UNCHANGED <<last, got, settled, dUserStopped, dConnected, dCapturing>>
  BY DEF Direct!AuthOk
<1>3. disturbed' \subseteq Direct!Starts
  BY <1>1 DEF Direct!AuthOk, Direct!Robbed, Direct!None, DirectInv, HistoryTypes
<1>4. dTimer' \subseteq Direct!Starts \X (Direct!Waits \cup {"relay", "setup"})
  <2>1. dTimer' \subseteq dTimer \cup {<<p, "prep">>, <<p, "token">>} /\ (p = 0 => dTimer' = dTimer)
    BY DEF Direct!AuthOk, Direct!None
  <2>2. p # 0 => <<p, "prep">> \in Direct!Starts \X (Direct!Waits \cup {"relay", "setup"})
                 /\ <<p, "token">> \in Direct!Starts \X (Direct!Waits \cup {"relay", "setup"})
    BY <1>1 DEF Direct!Waits
  <2> QED
    BY <2>1, <2>2 DEF DirectInv, HistoryTypes
<1>5. asked' \in [Direct!Starts -> SUBSET Direct!Waits]
  <2>1. asked \in [Direct!Starts -> SUBSET Direct!Waits]
    BY DEF DirectInv, HistoryTypes
  <2>2. CASE asked' = [asked EXCEPT ![j] = @ \ {"auth"}]
    BY <2>1, <2>2
  <2>3. CASE asked' = [i \in Direct!Starts |->
                (asked[i] \ (IF i = j THEN {"auth"} ELSE {}))
                    \cup (IF i = relayWsRef THEN {"prep", "token"} ELSE {})]
    BY <2>1, <2>3 DEF Direct!Waits
  <2> QED
    BY <2>2, <2>3, Zenon DEF Direct!AuthOk
<1>6. HistoryTypes'
  BY <1>2, <1>3, <1>4, <1>5 DEF DirectInv, HistoryTypes
<1>7. CASE p = 0
  <2>1. UNCHANGED <<mode, chain, relay, gemini, relayWsRef, geminiWsRef, pending>>
    BY <1>7 DEF Direct!AuthOk, Direct!None, Direct!sockVars, Direct!refVars
  <2> QED
    BY <1>2, <1>6, <2>1
    DEF DirectInv, DirectTypes, FreshInv, AwaitedInv, Direct!OnlyLastSetsUp,
        Direct!MicrophoneHasSession, Direct!Live
<1>8. CASE p # 0 /\ open
  <2>1. /\ pending' = [pending EXCEPT !["auth"] = 0, !["prep"] = p, !["token"] = p]
        /\ chain' = [chain EXCEPT ![p] = "answers"]
        /\ UNCHANGED <<mode, relay, gemini, relayWsRef, geminiWsRef>>
    BY <1>8 DEF Direct!AuthOk, Direct!None, Direct!sockVars
  <2>2. p \in Direct!Starts
    BY <1>1, <1>8
  <2>3. p = last /\ got[p] = {} /\ ~dUserStopped /\ relay[p] \notin {"none", "connecting"}
    BY <1>8, <2>2 DEF DirectInv, Direct!OnlyLastSetsUp, AwaitedInv, FreshInv, Direct!Waits
  <2> HIDE DEF p
  <2> USE StartsPositive
  <2>4. DirectTypes'
    <3>1. pending' \in [Direct!Waits -> 0..MaxStarts]
      <4>1. p \in 0..MaxStarts /\ 0 \in 0..MaxStarts
        BY <2>2, CallsAssumption DEF Direct!Starts
      <4>2. pending \in [Direct!Waits -> 0..MaxStarts]
        BY DEF DirectInv, DirectTypes
      <4>3. pending' = [w \in Direct!Waits |->
                           IF w = "auth" THEN 0 ELSE IF w \in {"prep", "token"} THEN p
                           ELSE pending[w]]
        BY <2>1, <4>2 DEF Direct!Waits
      <4> QED
        BY <4>1, <4>2, <4>3
    <3>2. chain' \in [Direct!Starts ->
                          {"none", "relay", "auth", "answers", "setup", "up", "failed"}]
      BY <2>1, <2>2 DEF DirectInv, DirectTypes
    <3> QED
      BY <1>2, <2>1, <3>1, <3>2 DEF DirectInv, DirectTypes
  <2>5. FreshInv'
    BY <1>2, <2>1, <2>2, <2>3 DEF DirectInv, DirectTypes, FreshInv, Direct!Waits
  <2>6. AwaitedInv'
    BY <1>2, <2>1, <2>2, <2>3 DEF DirectInv, DirectTypes, AwaitedInv, Direct!Waits
  <2>7. Direct!OnlyLastSetsUp'
    BY <1>2, <2>1, <2>2, <2>3 DEF DirectInv, DirectTypes, Direct!OnlyLastSetsUp, Direct!Live,
                                  Direct!Waits
  <2>8. Direct!MicrophoneHasSession'
    BY <1>2, <2>1 DEF DirectInv, Direct!MicrophoneHasSession
  <2> QED
    BY <1>6, <2>4, <2>5, <2>6, <2>7, <2>8 DEF DirectInv
<1>9. CASE p # 0 /\ ~open
  <2>1. Direct!Fail(p) /\ p \in Direct!Starts
    BY <1>1, <1>9 DEF Direct!AuthOk, Direct!None
  <2> HIDE DEF p
  <2> QED
    BY <1>2, <1>6, <2>1, FailKeeps
<1> QED
  BY <1>7, <1>8, <1>9

LEMMA AnswerKeeps ==
    ASSUME DirectInv, NEW j \in Direct!Starts, NEW w \in Direct!Waits, Direct!Answer(j, w)
    PROVE  DirectInv'
<1> DEFINE p == pending[w]
           all == p # 0 /\ got[p] \cup {w} = {"prep", "token"}
<1>1. /\ w \in {"prep", "token"}
      /\ asked' = [asked EXCEPT ![j] = @ \ {w}] /\ disturbed' = Direct!Robbed(j, p)
      /\ pending' = [pending EXCEPT ![w] = 0]
      /\ got' = IF p = 0 THEN got ELSE [got EXCEPT ![p] = @ \cup {w}]
      /\ dTimer' = (dTimer \ {<<p, w>>}) \cup (IF all THEN {<<p, "setup">>} ELSE {})
      /\ UNCHANGED <<mode, last, relay, relayWsRef, settled, dUserStopped, dConnected, dCapturing>>
  BY DEF Direct!Answer, Direct!None
<1>2. p \in Direct!Starts \cup {0}
  BY DEF DirectInv, DirectTypes, Direct!Starts
<1>3. p # 0 =>
        /\ p \in Direct!Starts /\ p = last /\ w \notin got[p] /\ ~dUserStopped
        /\ relay[p] \notin {"none", "connecting"} /\ pending["auth"] # p /\ gemini[p] = "none"
  BY <1>1, <1>2 DEF DirectInv, Direct!OnlyLastSetsUp, AwaitedInv, FreshInv, Direct!Waits
<1>4. HistoryTypes'
  <2>1. disturbed' \subseteq Direct!Starts
    BY <1>1, <1>2 DEF Direct!Robbed, Direct!None, DirectInv, HistoryTypes
  <2>2. all => <<p, "setup">> \in Direct!Starts \X (Direct!Waits \cup {"relay", "setup"})
    BY <1>2
  <2>3. dTimer' \subseteq Direct!Starts \X (Direct!Waits \cup {"relay", "setup"})
    <3>1. CASE all
      BY <1>1, <2>2, <3>1 DEF DirectInv, HistoryTypes
    <3>2. CASE ~all
      BY <1>1, <3>2 DEF DirectInv, HistoryTypes
    <3> QED
      BY <3>1, <3>2
  <2>4. got' \in [Direct!Starts -> SUBSET Direct!Waits]
    BY <1>1, <1>2 DEF DirectInv, HistoryTypes
  <2>5. asked' \in [Direct!Starts -> SUBSET Direct!Waits]
    BY <1>1 DEF DirectInv, HistoryTypes
  <2> QED
    BY <1>1, <2>1, <2>3, <2>4, <2>5 DEF DirectInv, HistoryTypes
<1>5. CASE all
  <2>1. /\ chain' = [chain EXCEPT ![p] = "setup"] /\ gemini' = [gemini EXCEPT ![p] = "connecting"]
        /\ geminiWsRef' = p
    BY <1>5 DEF Direct!Answer, Direct!None
  <2>2. /\ p \in Direct!Starts /\ p = last /\ w \notin got[p] /\ ~dUserStopped
        /\ relay[p] \notin {"none", "connecting"} /\ pending["auth"] # p /\ gemini[p] = "none"
        /\ got' = [got EXCEPT ![p] = @ \cup {w}] /\ got[p] \cup {w} = {"prep", "token"}
    BY <1>1, <1>3, <1>5
  <2>3. pending[w] = p
    OBVIOUS
  <2> HIDE DEF p, all
  <2> USE StartsPositive
  <2>4. DirectTypes'
    BY <1>1, <2>1, <2>2 DEF DirectInv, DirectTypes, Direct!SocketStates, Direct!Starts
  <2>5. FreshInv'
    BY <1>1, <2>1, <2>2 DEF DirectInv, DirectTypes, HistoryTypes, FreshInv
  <2>6. AwaitedInv'
    BY <1>1, <2>1, <2>2 DEF DirectInv, DirectTypes, HistoryTypes, AwaitedInv, Direct!Waits
  <2>7. Direct!OnlyLastSetsUp'
    BY <1>1, <2>1, <2>2
    DEF DirectInv, DirectTypes, Direct!OnlyLastSetsUp, Direct!Live, Direct!None
  <2>8. Direct!MicrophoneHasSession'
    BY <1>1, <2>1, <2>2, SessionKept DEF DirectInv, DirectTypes, HistoryTypes
  <2> QED
    BY <1>4, <2>4, <2>5, <2>6, <2>7, <2>8 DEF DirectInv
<1>6. CASE ~all
  <2>1. UNCHANGED <<chain, gemini, geminiWsRef>>
    BY <1>6 DEF Direct!Answer, Direct!None
  <2>2. pending[w] = p
    OBVIOUS
  <2>3. \A k \in Direct!Starts :
           got'[k] \subseteq got[k] \cup {w} /\ got[k] \subseteq got'[k]
           /\ (k # p => got'[k] = got[k])
    BY <1>1, <1>2 DEF DirectInv, HistoryTypes
  <2> HIDE DEF p, all
  <2> USE StartsPositive
  <2>4. DirectTypes'
    BY <1>1, <2>1 DEF DirectInv, DirectTypes
  <2>5. FreshInv'
    <3> SUFFICES ASSUME NEW k \in Direct!Starts
                 PROVE  /\ relay'[k] \in {"none", "connecting"} =>
                              got'[k] = {} /\ \A v \in Direct!Waits : pending'[v] # k
                        /\ k > last => relay'[k] = "none" /\ gemini'[k] = "none"
      BY <1>1, <2>1 DEF FreshInv, DirectInv, DirectTypes
    <3>1. relay[k] \in {"none", "connecting"} => k # p
      BY <1>1, <2>2 DEF DirectInv, FreshInv
    <3> QED
      BY <1>1, <2>1, <2>3, <3>1 DEF DirectInv, DirectTypes, FreshInv
  <2>6. AwaitedInv'
    <3>1. \A k \in Direct!Starts : pending'["auth"] = k =>
             got'[k] = {} /\ pending'["prep"] # k /\ pending'["token"] # k
      BY <1>1, <2>2, <2>3 DEF DirectInv, DirectTypes, AwaitedInv, Direct!Waits
    <3>2. \A k \in Direct!Starts, v \in {"prep", "token"} : pending'[v] = k => v \notin got'[k]
      BY <1>1, <2>2, <2>3 DEF DirectInv, DirectTypes, AwaitedInv, Direct!Waits
    <3>3. ASSUME NEW k \in Direct!Starts, gemini'[k] # "none"
          PROVE  {"prep", "token"} \subseteq got'[k]
      <4>1. "prep" \in got[k] /\ "token" \in got[k]
        BY <2>1, <3>3 DEF DirectInv, AwaitedInv
      <4>2. "prep" \in got'[k] /\ "token" \in got'[k]
        BY <2>3, <4>1
      <4> QED
        BY <4>2
    <3> QED
      BY <3>1, <3>2, <3>3 DEF AwaitedInv
  <2>7. Direct!OnlyLastSetsUp'
    BY <1>1, <2>1 DEF DirectInv, DirectTypes, Direct!OnlyLastSetsUp, Direct!Live
  <2>8. Direct!MicrophoneHasSession'
    BY <1>1, <2>1 DEF DirectInv, Direct!MicrophoneHasSession
  <2> QED
    BY <1>4, <2>4, <2>5, <2>6, <2>7, <2>8 DEF DirectInv
<1> QED
  BY <1>5, <1>6

LEMMA GeminiOpensKeeps ==
    ASSUME DirectInv, NEW k \in Direct!Starts, Direct!GeminiOpens(k)
    PROVE  DirectInv'
<1>1. /\ gemini[k] = "connecting" /\ gemini' = [gemini EXCEPT ![k] = "open"]
      /\ UNCHANGED <<mode, last, chain, relay, relayWsRef, geminiWsRef, pending, got, asked, dTimer,
                     settled, dUserStopped, dConnected, dCapturing, disturbed>>
  BY DEF Direct!GeminiOpens, Direct!refVars
<1>2. DirectTypes' /\ HistoryTypes'
  BY <1>1 DEF DirectInv, DirectTypes, HistoryTypes, Direct!SocketStates
<1>3. FreshInv'
  BY <1>1 DEF DirectInv, DirectTypes, FreshInv
<1>4. AwaitedInv'
  BY <1>1 DEF DirectInv, DirectTypes, AwaitedInv
<1>5. Direct!OnlyLastSetsUp'
  BY <1>1 DEF DirectInv, DirectTypes, Direct!OnlyLastSetsUp, Direct!Live, Direct!None
<1>6. Direct!MicrophoneHasSession'
  BY <1>1, SessionKept DEF DirectInv, DirectTypes, HistoryTypes
<1> QED
  BY <1>2, <1>3, <1>4, <1>5, <1>6 DEF DirectInv

LEMMA SetupCompleteKeeps ==
    ASSUME DirectInv, NEW k \in Direct!Starts, Direct!SetupComplete(k)
    PROVE  DirectInv'
<1>1. /\ gemini[k] \in {"open", "closing"} /\ settled' = settled \cup {k}
      /\ dTimer' = dTimer \ {<<k, "setup">>}
      /\ chain' = IF k \in settled THEN chain ELSE [chain EXCEPT ![k] = "up"]
      /\ dConnected' = TRUE /\ dCapturing' = TRUE
      /\ UNCHANGED <<mode, last, relay, gemini, relayWsRef, geminiWsRef, pending, got, asked,
                     dUserStopped, disturbed>>
  BY DEF Direct!SetupComplete, Direct!Delivers, Direct!sockVars, Direct!refVars
<1>2. DirectTypes'
  BY <1>1 DEF DirectInv, DirectTypes
<1>3. HistoryTypes'
  BY <1>1 DEF DirectInv, HistoryTypes
<1>4. FreshInv' /\ AwaitedInv' /\ Direct!OnlyLastSetsUp'
  BY <1>1 DEF DirectInv, FreshInv, AwaitedInv, Direct!OnlyLastSetsUp, Direct!Live
<1>5. Direct!MicrophoneHasSession'
  BY <1>1 DEF Direct!MicrophoneHasSession
<1> QED
  BY <1>2, <1>3, <1>4, <1>5 DEF DirectInv

\* A set-up that failed: its own socket is closed, or closing, besides the clean-up.
LEMMA GivenUpSweeps ==
    ASSUME DirectInv, NEW k \in Direct!Starts, NEW g \in [Direct!Starts -> Direct!SocketStates],
           g[k] # "none" <=> gemini[k] # "none", ~Direct!Live(g, k) \/ k = geminiWsRef,
           \A c \in Direct!Starts \ {k} : g[c] = gemini[c],
           relay' = Direct!Closing(relay, relayWsRef), gemini' = Direct!Closing(g, geminiWsRef),
           relayWsRef' = 0, geminiWsRef' = 0, pending' = [w \in Direct!Waits |-> 0]
    PROVE  Swept
<1> USE StartsPositive DEF Direct!Closing, Direct!Live, Direct!None
<1>1. gemini' \in [Direct!Starts -> Direct!SocketStates]
  BY DEF Direct!SocketStates
<1>2. \A c \in Direct!Starts : gemini[c] = "none" <=> gemini'[c] = "none"
  BY DEF Direct!SocketStates
<1>3. \A c \in Direct!Starts : ~Direct!Live(gemini', c)
  BY DEF Direct!SocketStates, DirectInv, DirectTypes, Direct!OnlyLastSetsUp
<1> QED
  BY <1>1, <1>2, <1>3 DEF Swept

LEMMA SetupTimeoutKeeps ==
    ASSUME DirectInv, NEW k \in Direct!Starts, Direct!SetupTimeout(k)
    PROVE  DirectInv'
<1> DEFINE g == Direct!Closing(gemini, k)
<1>1. /\ dTimer' = dTimer \ {<<k, "setup">>} /\ settled' = settled \cup {k}
      /\ chain' = [chain EXCEPT ![k] = "failed"] /\ mode' = "relay"
      /\ relay' = Direct!Closing(relay, relayWsRef) /\ gemini' = Direct!Closing(g, geminiWsRef)
      /\ relayWsRef' = 0 /\ geminiWsRef' = 0 /\ pending' = [w \in Direct!Waits |-> 0]
      /\ UNCHANGED <<last, got, asked, dUserStopped, dConnected, dCapturing, disturbed>>
  BY DEF Direct!SetupTimeout, Direct!None
<1>2. /\ g \in [Direct!Starts -> Direct!SocketStates] /\ (g[k] # "none" <=> gemini[k] # "none")
      /\ ~Direct!Live(g, k) /\ \A c \in Direct!Starts \ {k} : g[c] = gemini[c]
      /\ \A c \in Direct!Starts : gemini[c] \in {"open", "closing"} => g[c] \in {"open", "closing"}
  BY StartsPositive
  DEF DirectInv, DirectTypes, Direct!SocketStates, Direct!Closing, Direct!Live, Direct!None
<1> HIDE DEF g
<1>3. Swept
  BY <1>1, <1>2, GivenUpSweeps
<1>4. \A c \in Direct!Starts :
          gemini[c] \in {"open", "closing"} => gemini'[c] \in {"open", "closing"}
  BY <1>1, <1>2, StartsPositive DEF Direct!Closing, Direct!Live, Direct!None
<1>5. DirectTypes' /\ FreshInv' /\ AwaitedInv' /\ Direct!OnlyLastSetsUp'
  BY <1>1, <1>3, SweptKeeps DEF DirectInv, DirectTypes
<1>6. HistoryTypes'
  BY <1>1 DEF DirectInv, HistoryTypes
<1>7. Direct!MicrophoneHasSession'
  BY <1>1, <1>4, SessionKept DEF DirectInv, HistoryTypes
<1> QED
  BY <1>5, <1>6, <1>7 DEF DirectInv

LEMMA GeminiClosesKeeps ==
    ASSUME DirectInv, NEW k \in Direct!Starts, Direct!GeminiCloses(k)
    PROVE  DirectInv'
<1>1. /\ gemini[k] \in {"connecting", "open", "closing"} /\ settled' = settled \cup {k}
      /\ dTimer' = dTimer \ {<<k, "setup">>}
      /\ UNCHANGED <<last, got, asked, dUserStopped, disturbed>>
  BY DEF Direct!GeminiCloses
<1>2. CASE k \in settled
  <2>1. /\ gemini' = [gemini EXCEPT ![k] = "closed"]
        /\ geminiWsRef' = IF geminiWsRef = k THEN 0 ELSE geminiWsRef
        /\ dConnected' = FALSE /\ dCapturing' = FALSE
        /\ UNCHANGED <<mode, chain, relay, relayWsRef, pending>>
    BY <1>2 DEF Direct!GeminiCloses, Direct!None
  <2>2. DirectTypes'
    BY <1>1, <2>1, CallsAssumption DEF DirectInv, DirectTypes, Direct!SocketStates
  <2>3. HistoryTypes'
    BY <1>1, <2>1 DEF DirectInv, HistoryTypes
  <2>4. FreshInv'
    BY <1>1, <2>1 DEF DirectInv, DirectTypes, FreshInv
  <2>5. AwaitedInv'
    BY <1>1, <2>1 DEF DirectInv, DirectTypes, AwaitedInv
  <2>6. Direct!OnlyLastSetsUp'
    BY <1>1, <2>1 DEF DirectInv, DirectTypes, Direct!OnlyLastSetsUp, Direct!Live, Direct!None
  <2>7. Direct!MicrophoneHasSession'
    BY <2>1 DEF Direct!MicrophoneHasSession
  <2> QED
    BY <2>2, <2>3, <2>4, <2>5, <2>6, <2>7 DEF DirectInv
<1>3. CASE k \notin settled
  <2> DEFINE g == [gemini EXCEPT ![k] = "closed"]
  <2>1. /\ chain' = [chain EXCEPT ![k] = "failed"] /\ mode' = "relay"
        /\ relay' = Direct!Closing(relay, relayWsRef)
        /\ gemini' = [Direct!Closing(gemini, geminiWsRef) EXCEPT ![k] = "closed"]
        /\ relayWsRef' = 0 /\ geminiWsRef' = 0 /\ pending' = [w \in Direct!Waits |-> 0]
        /\ UNCHANGED <<dConnected, dCapturing>>
    BY <1>3 DEF Direct!GeminiCloses, Direct!None
  <2>2. /\ g \in [Direct!Starts -> Direct!SocketStates] /\ (g[k] # "none" <=> gemini[k] # "none")
        /\ ~Direct!Live(g, k) /\ \A c \in Direct!Starts \ {k} : g[c] = gemini[c]
    BY <1>1 DEF DirectInv, DirectTypes, Direct!SocketStates, Direct!Live, Direct!None
  <2>3. gemini' = Direct!Closing(g, geminiWsRef)
    BY <1>1, <2>1, StartsPositive
    DEF DirectInv, DirectTypes, Direct!Closing, Direct!Live, Direct!None
  <2>4. Swept
    <3> HIDE DEF g
    <3> QED
      BY <2>1, <2>2, <2>3, GivenUpSweeps
  <2>5. \A c \in settled : gemini[c] \in {"open", "closing"} => gemini'[c] \in {"open", "closing"}
    BY <1>3, <2>1, StartsPositive
    DEF DirectInv, DirectTypes, HistoryTypes, Direct!Closing, Direct!Live, Direct!None
  <2>6. DirectTypes' /\ FreshInv' /\ AwaitedInv' /\ Direct!OnlyLastSetsUp'
    BY <1>1, <2>1, <2>4, SweptKeeps DEF DirectInv, DirectTypes
  <2>7. HistoryTypes'
    BY <1>1, <2>1 DEF DirectInv, HistoryTypes
  <2>8. Direct!MicrophoneHasSession'
    BY <1>1, <2>1, <2>5, SessionKept DEF DirectInv, HistoryTypes
  <2> QED
    BY <2>6, <2>7, <2>8 DEF DirectInv
<1> QED
  BY <1>2, <1>3

LEMMA NextDirect == DirectInv /\ [Direct!Next]_directVars => DirectInv'
<1> SUFFICES ASSUME DirectInv, [Direct!Next]_directVars PROVE DirectInv'
  OBVIOUS
<1>1. CASE Direct!Start
  BY <1>1, StartDirectKeeps
<1>2. CASE Direct!Stop
  BY <1>2, StopDirectKeeps
<1>3. ASSUME NEW k \in Direct!Starts, Direct!RelayOpens(k) PROVE DirectInv'
  BY <1>3, RelayOpensKeeps
<1>4. ASSUME NEW k \in Direct!Starts, Direct!AuthOk(k) PROVE DirectInv'
  BY <1>4, AuthOkKeeps
<1>5. ASSUME NEW k \in Direct!Starts, Direct!RelayCloses(k) PROVE DirectInv'
  BY <1>5, RelayClosesKeeps
<1>6. ASSUME NEW k \in Direct!Starts, Direct!Timeouts(k) PROVE DirectInv'
  <2>1. CASE Direct!RelayTimeout(k)
    BY <2>1, RelayTimeoutKeeps
  <2>2. CASE Direct!SetupTimeout(k)
    BY <2>2, SetupTimeoutKeeps
  <2>3. ASSUME NEW w \in Direct!Waits, Direct!RequestTimeout(k, w) PROVE DirectInv'
    BY <2>3, RequestTimeoutKeeps
  <2> QED
    BY <1>6, <2>1, <2>2, <2>3 DEF Direct!Timeouts
<1>7. ASSUME NEW k \in Direct!Starts, Direct!GeminiOpens(k) PROVE DirectInv'
  BY <1>7, GeminiOpensKeeps
<1>8. ASSUME NEW k \in Direct!Starts, Direct!SetupComplete(k) PROVE DirectInv'
  BY <1>8, SetupCompleteKeeps
<1>9. ASSUME NEW k \in Direct!Starts, Direct!GeminiCloses(k) PROVE DirectInv'
  BY <1>9, GeminiClosesKeeps
<1>10. ASSUME NEW k \in Direct!Starts, NEW w \in Direct!Waits, Direct!Answer(k, w)
       PROVE  DirectInv'
  BY <1>10, AnswerKeeps
<1>11. ASSUME NEW k \in Direct!Starts, NEW w \in Direct!Waits, Direct!Refused(k, w)
       PROVE  DirectInv'
  BY <1>11, RefusedKeeps
<1>12. CASE UNCHANGED directVars
  BY <1>12
  DEF directVars, DirectInv, DirectTypes, HistoryTypes, FreshInv, AwaitedInv,
      Direct!OnlyLastSetsUp, Direct!MicrophoneHasSession, Direct!Live
<1> QED
  BY <1>1, <1>2, <1>3, <1>4, <1>5, <1>6, <1>7, <1>8, <1>9, <1>10, <1>11, <1>12 DEF Direct!Next

-----------------------------------------------------------------------------
(***************************************************************************)
(* The call bar: its page is told, at last, how the call is.               *)
(***************************************************************************)

\* BarTypeOK, a variable at a time.
PageTypes ==
    /\ inCall \in BOOLEAN /\ micMuted \in BOOLEAN /\ callActive \in BOOLEAN
    /\ sessionHiddenByUser \in BOOLEAN /\ enabled \in BOOLEAN /\ visible \in BOOLEAN
    /\ hideTimer \in BOOLEAN

WindowTypes ==
    /\ isReady \in BOOLEAN /\ levelTimer \in BOOLEAN
    /\ shown \in BOOLEAN /\ shownMuted \in BOOLEAN /\ wanted \in BOOLEAN
    /\ queuedVisibility \in Bar!Queued /\ queuedMuted \in Bar!Queued
    /\ toBar \in Seq(Bar!Messages)

\* The bar is to be there.
Wished == callActive /\ wanted /\ ~sessionHiddenByUser

\* The messages s end by telling of what that it is value, or are silent of what, which is seen.
Tells(s, what, value, seen) ==
    /\ \A i \in 1..Len(s) :
          \/ s[i].what # what
          \/ s[i].value <=> value
          \/ \E j \in 1..Len(s) : j > i /\ s[j].what = what
    /\ (\A i \in 1..Len(s) : s[i].what # what) => (seen <=> value)

WindowInv ==
    /\ callActive <=> inCall
    /\ (visible /\ ~hideTimer) <=> Wished
    /\ levelTimer <=> Wished

MessagesInv ==
    /\ ~isReady =>
          /\ toBar = <<>> /\ ~shown /\ ~shownMuted
          /\ queuedVisibility = "yes" <=> Wished
          /\ queuedMuted = "yes" <=> micMuted
    /\ isReady =>
          /\ Tells(toBar, "visibility", Wished, shown)
          /\ Tells(toBar, "muted", micMuted, shownMuted)

BarInv == PageTypes /\ WindowTypes /\ WindowInv /\ MessagesInv

LEMMA BarImplied == BarInv => Bar!BarTypeOK /\ Bar!BarAgrees
<1> SUFFICES ASSUME BarInv PROVE Bar!BarTypeOK /\ Bar!BarAgrees
  OBVIOUS
<1>1. Bar!BarTypeOK
  <2>1. {inCall, micMuted, callActive, sessionHiddenByUser, enabled, visible, hideTimer}
            \subseteq BOOLEAN
    BY DEF BarInv, PageTypes
  <2>2. {isReady, levelTimer, shown, shownMuted, wanted} \subseteq BOOLEAN
    BY DEF BarInv, WindowTypes
  <2>3. {queuedVisibility, queuedMuted} \subseteq Bar!Queued
    BY DEF BarInv, WindowTypes
  <2> HIDE DEF BarInv
  <2>4. toBar \in Seq(Bar!Messages)
    BY DEF BarInv, WindowTypes
  <2> QED
    BY <2>1, <2>2, <2>3, <2>4, Zenon DEF Bar!BarTypeOK
<1>2. (visible /\ ~hideTimer) = Wished
  BY DEF BarInv, WindowInv, PageTypes, WindowTypes, Wished
<1>3. levelTimer = Wished
  BY DEF BarInv, WindowInv, PageTypes, WindowTypes, Wished
<1>4. ASSUME isReady, toBar = <<>> PROVE shown = Wished /\ shownMuted = micMuted
  <2>1. Len(toBar) = 0
    BY <1>4
  <2>2. (shown <=> Wished) /\ (shownMuted <=> micMuted)
    BY <1>4, <2>1 DEF BarInv, MessagesInv, Tells
  <2> QED
    BY <2>2 DEF BarInv, PageTypes, WindowTypes, Wished
<1> QED
  BY <1>1, <1>2, <1>3, <1>4 DEF Bar!BarAgrees, Wished

LEMMA InitBar == Bar!Init => BarInv
<1> SUFFICES ASSUME Bar!Init PROVE BarInv
  OBVIOUS
<1> USE DEF Bar!Init
<1>1. PageTypes
  BY DEF PageTypes
<1>2. WindowTypes
  <2>1. toBar \in Seq(Bar!Messages)
    OBVIOUS
  <2> QED
    BY <2>1 DEF WindowTypes, Bar!Queued
<1>3. WindowInv
  BY DEF WindowInv, Wished
<1>4. MessagesInv
  BY DEF MessagesInv, Wished
<1> QED
  BY <1>1, <1>2, <1>3, <1>4 DEF BarInv

LEMMA TellsSame ==
    ASSUME NEW s, NEW what, NEW value, NEW seen, Tells(s, what, value, seen),
           NEW same, same <=> value
    PROVE  Tells(s, what, same, seen)
  BY DEF Tells

\* A message of something else changes nothing, one of it tells, and one that is heard is seen.
LEMMA TellsOther ==
    ASSUME NEW s \in Seq(Bar!Messages), NEW m \in Bar!Messages, NEW what, m.what # what,
           NEW value, NEW seen, Tells(s, what, value, seen)
    PROVE  Tells(Append(s, m), what, value, seen)
<1> DEFINE t == Append(s, m)
<1>1. /\ Len(t) = Len(s) + 1 /\ t[Len(s) + 1] = m /\ \A i \in 1..Len(s) : t[i] = s[i]
      /\ Len(s) \in Nat
  OBVIOUS
<1> HIDE DEF t
<1>2. ASSUME NEW i \in 1..Len(t), t[i].what = what, ~(t[i].value <=> value)
      PROVE  \E j \in 1..Len(t) : j > i /\ t[j].what = what
  <2>1. i \in 1..Len(s)
    BY <1>1, <1>2
  <2>2. PICK j \in 1..Len(s) : j > i /\ s[j].what = what
    BY <1>1, <1>2, <2>1 DEF Tells
  <2> QED
    BY <1>1, <2>2
<1>3. ASSUME \A i \in 1..Len(t) : t[i].what # what PROVE seen <=> value
  BY <1>1, <1>3 DEF Tells
<1> QED
  BY <1>2, <1>3 DEF Tells, t

LEMMA TellsNow ==
    ASSUME NEW s \in Seq(Bar!Messages), NEW what, NEW value \in BOOLEAN, NEW seen
    PROVE  Tells(Append(s, [what |-> what, value |-> value]), what, value, seen)
<1> DEFINE t == Append(s, [what |-> what, value |-> value])
<1>1. /\ Len(t) = Len(s) + 1 /\ Len(s) \in Nat
      /\ t[Len(s) + 1].what = what /\ (t[Len(s) + 1].value <=> value)
  OBVIOUS
<1> HIDE DEF t
<1>2. Len(t) \in 1..Len(t) /\ t[Len(t)].what = what /\ (t[Len(t)].value <=> value)
  BY <1>1
<1> QED
  BY <1>1, <1>2 DEF Tells, t

LEMMA TellsHeard ==
    ASSUME NEW s \in Seq(Bar!Messages), s # <<>>, NEW what, NEW value, NEW seen,
           Tells(s, what, value, seen), NEW next,
           IF Head(s).what = what THEN next <=> Head(s).value ELSE next <=> seen
    PROVE  Tells(Tail(s), what, value, next)
<1> DEFINE t == Tail(s)
<1>1. /\ Len(s) = Len(t) + 1 /\ Len(t) \in Nat /\ s[1] = Head(s)
      /\ \A i \in 1..Len(t) : t[i] = s[i + 1]
  OBVIOUS
<1> HIDE DEF t
<1>2. ASSUME NEW i \in 1..Len(t), t[i].what = what, ~(t[i].value <=> value)
      PROVE  \E j \in 1..Len(t) : j > i /\ t[j].what = what
  <2>1. i + 1 \in 1..Len(s)
    BY <1>1
  <2>2. PICK j \in 1..Len(s) : j > i + 1 /\ s[j].what = what
    BY <1>1, <1>2, <2>1 DEF Tells
  <2>3. j - 1 \in 1..Len(t) /\ t[j - 1] = s[j] /\ j - 1 > i
    BY <1>1, <2>2
  <2> QED
    BY <2>2, <2>3
<1>3. ASSUME \A i \in 1..Len(t) : t[i].what # what PROVE next <=> value
  <2>1. \A j \in 1..Len(s) : j > 1 => s[j].what # what
    <3> SUFFICES ASSUME NEW j \in 1..Len(s), j > 1 PROVE s[j].what # what
      OBVIOUS
    <3>1. j - 1 \in 1..Len(t) /\ t[j - 1] = s[j]
      BY <1>1
    <3> QED
      BY <1>3, <3>1
  <2>2. 1 \in 1..Len(s)
    BY <1>1
  <2>3. CASE Head(s).what = what
    BY <1>1, <2>1, <2>2, <2>3 DEF Tells
  <2>4. CASE Head(s).what # what
    <3>1. \A j \in 1..Len(s) : s[j].what # what
      BY <1>1, <2>1, <2>4
    <3> QED
      BY <2>4, <3>1 DEF Tells
  <2> QED
    BY <2>3, <2>4
<1> QED
  BY <1>2, <1>3 DEF Tells, t

LEMMA MessagesTyped ==
    ASSUME NEW flag \in BOOLEAN
    PROVE  /\ [what |-> "visibility", value |-> flag] \in Bar!Messages
           /\ [what |-> "muted", value |-> flag] \in Bar!Messages
           /\ Bar!As(flag) \in Bar!Queued /\ (Bar!As(flag) = "yes" <=> flag)
  BY DEF Bar!Messages, Bar!As, Bar!Queued

\* What the bar's page is told of keeps what it will show.
LEMMA VisibilityTold ==
    ASSUME BarInv, NEW flag \in BOOLEAN, Bar!BroadcastVisibility(flag), Wished' <=> flag,
           UNCHANGED <<isReady, queuedMuted, shown, shownMuted, micMuted>>
    PROVE  /\ MessagesInv' /\ toBar' \in Seq(Bar!Messages) /\ queuedVisibility' \in Bar!Queued
<1> DEFINE m == [what |-> "visibility", value |-> flag]
<1>1. m \in Bar!Messages /\ m.what # "muted"
  BY MessagesTyped
<1>2. toBar \in Seq(Bar!Messages) /\ queuedVisibility \in Bar!Queued
  BY DEF BarInv, WindowTypes
<1>3. CASE isReady
  <2>1. toBar' = Append(toBar, m) /\ queuedVisibility' = queuedVisibility
    BY <1>3 DEF Bar!BroadcastVisibility
  <2>2. Tells(toBar', "visibility", flag, shown)
    BY <1>2, <2>1, TellsNow
  <2>3. Tells(toBar', "visibility", Wished', shown')
    BY <2>2 DEF Tells
  <2>4. Tells(toBar, "muted", micMuted, shownMuted)
    BY <1>3 DEF BarInv, MessagesInv
  <2> HIDE DEF m
  <2>5. Tells(toBar', "muted", micMuted', shownMuted')
    BY <1>1, <1>2, <2>1, <2>4, TellsOther
  <2>6. toBar' \in Seq(Bar!Messages)
    BY <1>1, <1>2, <2>1
  <2> QED
    BY <1>2, <1>3, <2>1, <2>3, <2>5, <2>6 DEF MessagesInv
<1>4. CASE ~isReady
  <2>1. queuedVisibility' = Bar!As(flag) /\ toBar' = toBar
    BY <1>4 DEF Bar!BroadcastVisibility
  <2> QED
    BY <1>2, <1>4, <2>1, MessagesTyped DEF BarInv, MessagesInv
<1> QED
  BY <1>3, <1>4 DEF BarInv, WindowTypes

LEMMA MutedTold ==
    ASSUME BarInv, NEW flag \in BOOLEAN, Bar!BroadcastMuted(flag), micMuted' <=> flag,
           Wished' <=> Wished, UNCHANGED <<isReady, queuedVisibility, shown, shownMuted>>
    PROVE  /\ MessagesInv' /\ toBar' \in Seq(Bar!Messages) /\ queuedMuted' \in Bar!Queued
<1> DEFINE m == [what |-> "muted", value |-> flag]
<1>1. m \in Bar!Messages /\ m.what # "visibility"
  BY MessagesTyped
<1>2. toBar \in Seq(Bar!Messages) /\ queuedMuted \in Bar!Queued
  BY DEF BarInv, WindowTypes
<1>3. CASE isReady
  <2>1. toBar' = Append(toBar, m) /\ queuedMuted' = queuedMuted
    BY <1>3 DEF Bar!BroadcastMuted
  <2>2. Tells(toBar', "muted", flag, shownMuted)
    BY <1>2, <2>1, TellsNow
  <2>3. Tells(toBar', "muted", micMuted', shownMuted')
    BY <2>2 DEF Tells
  <2>4. Tells(toBar, "visibility", Wished, shown)
    BY <1>3 DEF BarInv, MessagesInv
  <2> HIDE DEF m
  <2>5. Tells(toBar', "visibility", Wished, shown)
    BY <1>1, <1>2, <2>1, <2>4, TellsOther
  <2>6. Tells(toBar', "visibility", Wished', shown')
    BY <2>5 DEF Tells
  <2>7. toBar' \in Seq(Bar!Messages)
    BY <1>1, <1>2, <2>1
  <2> QED
    BY <1>2, <1>3, <2>1, <2>3, <2>6, <2>7 DEF MessagesInv
<1>4. CASE ~isReady
  <2>1. queuedMuted' = Bar!As(flag) /\ toBar' = toBar
    BY <1>4 DEF Bar!BroadcastMuted
  <2> QED
    BY <1>2, <1>4, <2>1, MessagesTyped DEF BarInv, MessagesInv
<1> QED
  BY <1>3, <1>4 DEF BarInv, WindowTypes

\* Nothing is told, and nothing to tell of has changed.
LEMMA NothingTold ==
    ASSUME BarInv, Wished' <=> Wished,
           UNCHANGED <<isReady, queuedVisibility, queuedMuted, toBar, shown, shownMuted, micMuted>>
    PROVE  MessagesInv'
<1>1. Tells(toBar, "visibility", Wished, shown) => Tells(toBar', "visibility", Wished', shown')
  BY DEF Tells
<1> QED
  BY <1>1 DEF BarInv, MessagesInv

LEMMA SetCallActiveKeeps ==
    ASSUME BarInv, NEW active \in BOOLEAN, Bar!SetCallActive(active)
    PROVE  BarInv'
<1>1. /\ inCall' = active /\ callActive' = active /\ (inCall <=> ~active)
      /\ UNCHANGED <<micMuted, enabled, isReady, queuedMuted, shown, shownMuted>>
  BY DEF Bar!SetCallActive, BarInv, PageTypes
<1>2. CASE active /\ enabled
  <2>1. /\ sessionHiddenByUser' = FALSE /\ wanted' = enabled
        /\ hideTimer' = FALSE /\ visible' = TRUE /\ levelTimer' = TRUE
        /\ Bar!BroadcastVisibility(TRUE)
    BY <1>2 DEF Bar!SetCallActive, Bar!Show
  <2>2. Wished'
    BY <1>1, <1>2, <2>1 DEF Wished
  <2>3. MessagesInv' /\ toBar' \in Seq(Bar!Messages) /\ queuedVisibility' \in Bar!Queued
    BY <1>1, <2>1, <2>2, VisibilityTold
  <2> QED
    BY <1>1, <1>2, <2>1, <2>2, <2>3 DEF BarInv, PageTypes, WindowTypes, WindowInv
<1>3. CASE active /\ ~enabled
  <2>1. /\ sessionHiddenByUser' = FALSE /\ wanted' = enabled
        /\ UNCHANGED <<visible, hideTimer, levelTimer, queuedVisibility, toBar>>
    BY <1>3 DEF Bar!SetCallActive
  <2>2. ~Wished /\ ~Wished'
    BY <1>1, <1>3, <2>1 DEF BarInv, WindowInv, Wished
  <2>3. MessagesInv'
    BY <1>1, <2>1, <2>2, NothingTold
  <2> QED
    BY <1>1, <1>3, <2>1, <2>2, <2>3 DEF BarInv, PageTypes, WindowTypes, WindowInv
<1>4. CASE ~active
  <2>1. /\ hideTimer' = TRUE /\ levelTimer' = FALSE /\ Bar!BroadcastVisibility(FALSE)
        /\ UNCHANGED <<visible, sessionHiddenByUser, wanted>>
    BY <1>4 DEF Bar!SetCallActive, Bar!Hide
  <2>2. ~Wished'
    BY <1>1, <1>4 DEF Wished
  <2>3. MessagesInv' /\ toBar' \in Seq(Bar!Messages) /\ queuedVisibility' \in Bar!Queued
    BY <1>1, <2>1, <2>2, VisibilityTold
  <2> QED
    BY <1>1, <1>4, <2>1, <2>2, <2>3 DEF BarInv, PageTypes, WindowTypes, WindowInv
<1> QED
  BY <1>2, <1>3, <1>4

LEMMA SetMutedKeeps == ASSUME BarInv, Bar!SetMuted PROVE BarInv'
<1>1. /\ micMuted' = ~micMuted /\ Bar!BroadcastMuted(~micMuted)
      /\ UNCHANGED <<inCall, callActive, sessionHiddenByUser, enabled, visible, hideTimer, isReady,
                     queuedVisibility, levelTimer, shown, shownMuted, wanted>>
  BY DEF Bar!SetMuted
<1>2. Wished' <=> Wished
  BY <1>1 DEF Wished
<1>3. (~micMuted) \in BOOLEAN /\ (micMuted' <=> ~micMuted)
  <2>1. micMuted \in BOOLEAN
    BY DEF BarInv, PageTypes
  <2>2. (~micMuted) \in BOOLEAN
    BY <2>1
  <2>3. micMuted' <=> ~micMuted
    <3>1. micMuted' = ~micMuted
      BY <1>1
    <3> QED
      BY <3>1, Zenon
  <2> QED
    BY <2>2, <2>3, Zenon
<1>4. MessagesInv' /\ toBar' \in Seq(Bar!Messages) /\ queuedMuted' \in Bar!Queued
  BY <1>1, <1>2, <1>3, MutedTold
<1> QED
  BY <1>1, <1>2, <1>4 DEF BarInv, PageTypes, WindowTypes, WindowInv

LEMMA HideRequestedKeeps == ASSUME BarInv, Bar!HideRequested PROVE BarInv'
<1>1. /\ sessionHiddenByUser' = TRUE
      /\ hideTimer' = TRUE /\ levelTimer' = FALSE /\ Bar!BroadcastVisibility(FALSE)
      /\ UNCHANGED <<inCall, micMuted, callActive, enabled, isReady, queuedMuted, shown, shownMuted,
                     wanted, visible>>
  BY DEF Bar!HideRequested, Bar!Hide
<1>2. ~Wished'
  BY <1>1 DEF Wished
<1>3. MessagesInv' /\ toBar' \in Seq(Bar!Messages) /\ queuedVisibility' \in Bar!Queued
  BY <1>1, <1>2, VisibilityTold
<1> QED
  BY <1>1, <1>2, <1>3 DEF BarInv, PageTypes, WindowTypes, WindowInv

LEMMA WindowAloneKeeps ==
    ASSUME BarInv, Bar!HideTimer \/ Bar!ToggleSetting \/ UNCHANGED barVars
    PROVE  BarInv'
<1>1. UNCHANGED <<inCall, micMuted, callActive, sessionHiddenByUser, isReady, queuedVisibility,
                  queuedMuted, levelTimer, toBar, shown, shownMuted, wanted>>
  BY DEF Bar!HideTimer, Bar!ToggleSetting, barVars
<1>2. Wished' <=> Wished
  BY <1>1 DEF Wished
<1>3. MessagesInv'
  BY <1>1, <1>2, NothingTold
<1>4. CASE Bar!HideTimer
  <2>1. hideTimer /\ hideTimer' = FALSE /\ visible' = FALSE /\ enabled' = enabled
    BY <1>4 DEF Bar!HideTimer
  <2>2. ~Wished
    BY <2>1 DEF BarInv, WindowInv
  <2>3. PageTypes' /\ WindowTypes'
    BY <1>1, <2>1 DEF BarInv, PageTypes, WindowTypes
  <2>4. WindowInv'
    BY <1>1, <1>2, <2>1, <2>2 DEF BarInv, WindowInv
  <2> QED
    BY <1>3, <2>3, <2>4 DEF BarInv
<1>5. CASE Bar!ToggleSetting
  BY <1>1, <1>2, <1>3, <1>5
  DEF Bar!ToggleSetting, BarInv, PageTypes, WindowTypes, WindowInv
<1>6. CASE UNCHANGED barVars
  BY <1>1, <1>2, <1>3, <1>6 DEF barVars, BarInv, PageTypes, WindowTypes, WindowInv
<1> QED
  BY <1>4, <1>5, <1>6

LEMMA SingletonJoined ==
    ASSUME NEW S, NEW s \in Seq(S), NEW m \in S
    PROVE  s \o <<m>> = Append(s, m)
<1>1. /\ Len(s) \in Nat /\ <<m>> \in Seq(S) /\ Len(<<m>>) = 1 /\ <<m>>[1] = m
      /\ s \o <<m>> \in Seq(S) /\ Append(s, m) \in Seq(S)
  OBVIOUS
<1>2. Len(s \o <<m>>) = Len(s) + 1 /\ Len(Append(s, m)) = Len(s) + 1
  BY <1>1
<1>3. \A i \in 1..(Len(s) + 1) : (s \o <<m>>)[i] = Append(s, m)[i]
  BY <1>1
<1> QED
  BY <1>1, <1>2, <1>3

\* What was queued tells of it, the last of each.
LEMMA FlushTells ==
    ASSUME NEW vis \in Bar!Queued, NEW mut \in Bar!Queued,
           NEW first, first = Bar!Flush("visibility", vis),
           NEW second, second = Bar!Flush("muted", mut)
    PROVE  /\ <<>> \o first \o second \in Seq(Bar!Messages)
           /\ Tells(<<>> \o first \o second, "visibility", vis = "yes", FALSE)
           /\ Tells(<<>> \o first \o second, "muted", mut = "yes", FALSE)
<1> DEFINE v == [what |-> "visibility", value |-> vis = "yes"]
           m == [what |-> "muted", value |-> mut = "yes"]
<1>0. v \in Bar!Messages /\ m \in Bar!Messages
  BY DEF Bar!Messages
<1>1. (vis = "nothing" => first = <<>>) /\ (vis # "nothing" => first = <<v>>)
  BY DEF Bar!Flush
<1>2. (mut = "nothing" => second = <<>>) /\ (mut # "nothing" => second = <<m>>)
  BY DEF Bar!Flush
<1>3. Tells(<<>>, "visibility", FALSE, FALSE) /\ Tells(<<>>, "muted", FALSE, FALSE)
  BY DEF Tells
<1>4. /\ <<>> \o first \in Seq(Bar!Messages)
      /\ Tells(<<>> \o first, "visibility", vis = "yes", FALSE)
      /\ Tells(<<>> \o first, "muted", FALSE, FALSE)
  <2>1. CASE vis = "nothing"
    <3>1. <<>> \o first = <<>>
      BY <1>1, <2>1
    <3>2. (vis = "yes") <=> FALSE
      BY <2>1
    <3>3. <<>> \in Seq(Bar!Messages)
      OBVIOUS
    <3>4. Tells(<<>>, "visibility", vis = "yes", FALSE)
      BY <1>3, <3>2, TellsSame
    <3> QED
      BY <1>3, <3>1, <3>3, <3>4
  <2>2. CASE vis # "nothing"
    <3>1. <<>> \o first = Append(<<>>, v)
      BY <1>1, <2>2
    <3>2. <<>> \in Seq(Bar!Messages) /\ v.what # "muted"
      OBVIOUS
    <3>3. Tells(Append(<<>>, v), "visibility", vis = "yes", FALSE)
      BY <3>2, TellsNow
    <3> HIDE DEF v
    <3>4. Tells(Append(<<>>, v), "muted", FALSE, FALSE)
      BY <1>0, <1>3, <3>2, TellsOther
    <3>5. Append(<<>>, v) \in Seq(Bar!Messages)
      BY <1>0, <3>2
    <3> QED
      BY <3>1, <3>3, <3>4, <3>5
  <2> QED
    BY <2>1, <2>2
<1> DEFINE s == <<>> \o first
<1> HIDE DEF s
<1>5. /\ s \in Seq(Bar!Messages) /\ Tells(s, "visibility", vis = "yes", FALSE)
      /\ Tells(s, "muted", FALSE, FALSE)
  BY <1>4 DEF s
<1>6. /\ s \o second \in Seq(Bar!Messages)
      /\ Tells(s \o second, "visibility", vis = "yes", FALSE)
      /\ Tells(s \o second, "muted", mut = "yes", FALSE)
  <2>1. CASE mut = "nothing"
    <3>1. s \o second = s
      BY <1>2, <1>5, <2>1
    <3>2. (mut = "yes") <=> FALSE
      BY <2>1
    <3>3. Tells(s, "muted", mut = "yes", FALSE)
      BY <1>5, <3>2, TellsSame
    <3> QED
      BY <1>5, <3>1, <3>3
  <2>2. CASE mut # "nothing"
    <3>1. s \o second = Append(s, m)
      <4>1. second = <<m>>
        BY <1>2, <2>2
      <4> HIDE DEF m
      <4> QED
        BY <1>0, <1>5, <4>1, SingletonJoined
    <3>2. m.what # "visibility"
      OBVIOUS
    <3>3. Tells(Append(s, m), "muted", mut = "yes", FALSE)
      BY <1>5, TellsNow
    <3> HIDE DEF m
    <3>4. Tells(Append(s, m), "visibility", vis = "yes", FALSE)
      BY <1>0, <1>5, <3>2, TellsOther
    <3>5. Append(s, m) \in Seq(Bar!Messages)
      BY <1>0, <1>5
    <3> QED
      BY <3>1, <3>3, <3>4, <3>5
  <2> QED
    BY <2>1, <2>2
<1> QED
  BY <1>6 DEF s

LEMMA ReadyKeeps == ASSUME BarInv, Bar!Ready PROVE BarInv'
<1>1. /\ ~isReady /\ isReady' = TRUE
      /\ toBar' = toBar \o Bar!Flush("visibility", queuedVisibility)
                        \o Bar!Flush("muted", queuedMuted)
      /\ queuedVisibility' = "nothing" /\ queuedMuted' = "nothing"
      /\ UNCHANGED <<inCall, micMuted, callActive, sessionHiddenByUser, enabled, visible, hideTimer,
                     levelTimer, shown, shownMuted, wanted>>
  BY DEF Bar!Ready
<1>2. /\ toBar = <<>> /\ ~shown /\ ~shownMuted
      /\ queuedVisibility = "yes" <=> Wished
      /\ queuedMuted = "yes" <=> micMuted
      /\ queuedVisibility \in Bar!Queued /\ queuedMuted \in Bar!Queued
  BY <1>1 DEF BarInv, WindowTypes, MessagesInv
<1>3. /\ toBar' \in Seq(Bar!Messages)
      /\ Tells(toBar', "visibility", queuedVisibility = "yes", FALSE)
      /\ Tells(toBar', "muted", queuedMuted = "yes", FALSE)
  BY <1>1, <1>2, FlushTells
<1>4. (Wished' <=> Wished) /\ "nothing" \in Bar!Queued
  BY <1>1 DEF Wished, Bar!Queued
<1>5. Tells(toBar', "visibility", Wished', shown')
  BY <1>1, <1>2, <1>3, <1>4 DEF Tells
<1>6. Tells(toBar', "muted", micMuted', shownMuted')
  BY <1>1, <1>2, <1>3 DEF Tells
<1> QED
  BY <1>1, <1>3, <1>4, <1>5, <1>6
  DEF BarInv, PageTypes, WindowTypes, WindowInv, MessagesInv

LEMMA HearKeeps == ASSUME BarInv, Bar!Hear PROVE BarInv'
<1>1. /\ toBar # <<>> /\ toBar' = Tail(toBar)
      /\ IF Head(toBar).what = "visibility"
            THEN shown' = Head(toBar).value /\ shownMuted' = shownMuted
            ELSE shownMuted' = Head(toBar).value /\ shown' = shown
      /\ UNCHANGED <<inCall, micMuted, callActive, sessionHiddenByUser, enabled, visible, hideTimer,
                     isReady, queuedVisibility, queuedMuted, levelTimer, wanted>>
  BY DEF Bar!Hear
<1>2. toBar \in Seq(Bar!Messages) /\ isReady
  BY <1>1 DEF BarInv, WindowTypes, MessagesInv
<1>3. Head(toBar) \in Bar!Messages /\ Tail(toBar) \in Seq(Bar!Messages)
  BY <1>1, <1>2
<1>4. Head(toBar).what \in {"visibility", "muted"} /\ Head(toBar).value \in BOOLEAN
  BY <1>3 DEF Bar!Messages
<1>5. Wished' <=> Wished
  BY <1>1 DEF Wished
<1>6. Tells(toBar, "visibility", Wished, shown) /\ Tells(toBar, "muted", micMuted, shownMuted)
  BY <1>2 DEF BarInv, MessagesInv
<1>7. Tells(Tail(toBar), "visibility", Wished, shown')
  <2>1. IF Head(toBar).what = "visibility" THEN shown' <=> Head(toBar).value ELSE shown' <=> shown
    BY <1>1
  <2> QED
    BY <1>1, <1>2, <1>6, <2>1, TellsHeard
<1>8. Tells(Tail(toBar), "muted", micMuted, shownMuted')
  <2>1. IF Head(toBar).what = "muted"
        THEN shownMuted' <=> Head(toBar).value ELSE shownMuted' <=> shownMuted
    BY <1>1, <1>4
  <2> QED
    BY <1>1, <1>2, <1>6, <2>1, TellsHeard
<1>9. Tells(toBar', "visibility", Wished', shown') /\ Tells(toBar', "muted", micMuted', shownMuted')
  BY <1>1, <1>5, <1>7, <1>8 DEF Tells
<1>10. shown' \in BOOLEAN /\ shownMuted' \in BOOLEAN
  BY <1>1, <1>4 DEF BarInv, WindowTypes
<1> QED
  BY <1>1, <1>2, <1>3, <1>5, <1>9, <1>10
  DEF BarInv, PageTypes, WindowTypes, WindowInv, MessagesInv

LEMMA NextBar == BarInv /\ [Bar!Next]_barVars => BarInv'
<1> SUFFICES ASSUME BarInv, [Bar!Next]_barVars PROVE BarInv'
  OBVIOUS
<1>1. CASE Bar!SetMuted
  BY <1>1, SetMutedKeeps
<1>2. CASE Bar!HideRequested
  BY <1>2, HideRequestedKeeps
<1>3. CASE Bar!HideTimer \/ Bar!ToggleSetting \/ UNCHANGED barVars
  BY <1>3, WindowAloneKeeps
<1>4. CASE Bar!Ready
  BY <1>4, ReadyKeeps
<1>5. CASE Bar!Hear
  BY <1>5, HearKeeps
<1>6. ASSUME NEW active \in BOOLEAN, Bar!SetCallActive(active) PROVE BarInv'
  BY <1>6, SetCallActiveKeeps
<1> QED
  BY <1>1, <1>2, <1>3, <1>4, <1>5, <1>6 DEF Bar!Next

-----------------------------------------------------------------------------
(***************************************************************************)
(* The phone's echo gate: the count of the buffers, while no change of it  *)
(* was overwritten, is at most what is outstanding, and that exactly while *)
(* no playback was cut short.                                              *)
(***************************************************************************)

EngineTypes ==
    /\ isCapturing \in BOOLEAN /\ isRunning \in BOOLEAN /\ (isRunning => isCapturing)
    /\ captures \in 0..MaxCaptures
    /\ justPlayed \in BOOLEAN /\ raced \in BOOLEAN /\ cut \in BOOLEAN

BufferTypes ==
    /\ received \in Nat /\ received <= MaxBuffers
    /\ scheduled \in Nat /\ due \in Nat
    /\ adding \in Int \cup {Null} /\ taking \in Int \cup {Null}
    /\ playbackBufferCount \in Int

\* The buffers the player was given, and those of them whose callback has not ended.
Played == received - (IF adding = Null THEN 0 ELSE 1)
Outstanding == scheduled + due + (IF taking = Null THEN 0 ELSE 1)

\* What was read of the count, or written to it, when so many buffers were played and so many of
\* them are outstanding.
InBounds(count) == Outstanding - Played <= count /\ count <= Played

BoundsInv ==
    /\ Outstanding <= Played
    /\ InBounds(playbackBufferCount)
    /\ adding # Null => InBounds(adding)
    /\ taking # Null => InBounds(taking)

CountInv ==
    /\ ~raced => playbackBufferCount <= Outstanding
    /\ ~raced /\ ~cut => playbackBufferCount = Outstanding

AudioInv == EngineTypes /\ BufferTypes /\ BoundsInv /\ CountInv

LEMMA AudioImplied == AudioInv => Audio!AudioTypeOK /\ Audio!EchoIsGated /\ Audio!UserIsHeard
<1> SUFFICES ASSUME AudioInv
             PROVE  Audio!AudioTypeOK /\ Audio!EchoIsGated /\ Audio!UserIsHeard
  OBVIOUS
<1>1. Played \in 0..MaxBuffers /\ Outstanding \in 0..MaxBuffers
  BY DEF AudioInv, BufferTypes, BoundsInv, Played, Outstanding
<1>2. scheduled \in 0..MaxBuffers /\ due \in 0..MaxBuffers /\ received \in 0..MaxBuffers
  BY <1>1 DEF AudioInv, BufferTypes, Outstanding
<1>3. ASSUME NEW count \in Int, InBounds(count) PROVE count \in Audio!Counts
  BY <1>1, <1>3 DEF InBounds, Audio!Counts
<1>4. /\ playbackBufferCount \in Audio!Counts
      /\ adding \in Audio!Counts \cup {Null} /\ taking \in Audio!Counts \cup {Null}
  BY <1>3 DEF AudioInv, BufferTypes, BoundsInv
<1>5. Audio!AudioTypeOK
  BY <1>2, <1>4 DEF AudioInv, EngineTypes, Audio!AudioTypeOK
<1>6. Audio!EchoIsGated
  BY DEF AudioInv, BufferTypes, CountInv, Outstanding, Audio!EchoIsGated, Audio!IsPlaybackActive
<1>7. Audio!UserIsHeard
  BY DEF AudioInv, BufferTypes, CountInv, Outstanding, Audio!UserIsHeard, Audio!IsPlaybackActive
<1> QED
  BY <1>5, <1>6, <1>7

LEMMA InitAudio == Audio!Init => AudioInv
<1> SUFFICES ASSUME Audio!Init PROVE AudioInv
  OBVIOUS
<1>1. Played = 0 /\ Outstanding = 0
  BY DEF Audio!Init, Played, Outstanding
<1>2. EngineTypes
  <2>1. 0 \in 0..MaxCaptures
    BY CallsAssumption
  <2>2. isRunning => isCapturing
    BY DEF Audio!Init
  <2> QED
    BY <2>1, <2>2 DEF Audio!Init, EngineTypes
<1>3. BufferTypes
  BY DEF Audio!Init, BufferTypes
<1>4. BoundsInv /\ CountInv
  BY <1>1 DEF Audio!Init, BoundsInv, CountInv, InBounds
<1> QED
  BY <1>2, <1>3, <1>4 DEF AudioInv

\* A step of the capture leaves the buffers alone.
LEMMA BuffersKept ==
    ASSUME AudioInv,
           UNCHANGED <<received, scheduled, due, adding, taking, playbackBufferCount, raced, cut>>
    PROVE  BufferTypes' /\ BoundsInv' /\ CountInv'
  BY DEF AudioInv, BufferTypes, BoundsInv, CountInv, Played, Outstanding, InBounds

LEMMA CaptureKeeps ==
    ASSUME AudioInv,
           \/ Audio!StartCapture \/ Audio!Interrupted \/ Audio!InterruptionEnds
           \/ Audio!MomentPasses \/ UNCHANGED audioVars
    PROVE  AudioInv'
<1>1. UNCHANGED <<received, scheduled, due, adding, taking, playbackBufferCount, raced, cut>>
  BY DEF Audio!StartCapture, Audio!Interrupted, Audio!InterruptionEnds, Audio!MomentPasses,
         Audio!playVars, audioVars
<1>2. EngineTypes'
  <2> USE DEF AudioInv, EngineTypes
  <2>1. CASE Audio!StartCapture
    BY <2>1 DEF Audio!StartCapture, Audio!playVars
  <2>2. CASE Audio!Interrupted
    BY <2>2 DEF Audio!Interrupted, Audio!playVars
  <2>3. CASE Audio!InterruptionEnds
    BY <2>3 DEF Audio!InterruptionEnds, Audio!playVars
  <2>4. CASE Audio!MomentPasses
    BY <2>4 DEF Audio!MomentPasses
  <2>5. CASE UNCHANGED audioVars
    BY <2>5 DEF audioVars
  <2> QED
    BY <2>1, <2>2, <2>3, <2>4, <2>5
<1> QED
  BY <1>1, <1>2, BuffersKept DEF AudioInv

\* The buffers only change hands.
LEMMA HandsChanged ==
    ASSUME AudioInv, scheduled' \in Nat, due' \in Nat, taking' \in Int \cup {Null},
           taking' # Null => InBounds(taking'),
           Outstanding' = Outstanding,
           UNCHANGED <<received, adding, playbackBufferCount, raced, cut>>
    PROVE  BufferTypes' /\ BoundsInv' /\ CountInv'
<1>1. Played' = Played
  BY DEF Played
<1>2. \A count : InBounds(count) => InBounds(count)'
  BY <1>1 DEF InBounds
<1>3. BufferTypes'
  BY DEF AudioInv, BufferTypes
<1>4. BoundsInv'
  BY <1>1 DEF AudioInv, BoundsInv, InBounds
<1>5. CountInv'
  BY DEF AudioInv, CountInv
<1> QED
  BY <1>3, <1>4, <1>5

LEMMA StopCaptureKeeps == ASSUME AudioInv, Audio!StopCapture PROVE AudioInv'
<1>1. /\ scheduled' = 0 /\ due' = due + scheduled
      /\ UNCHANGED <<received, adding, taking, playbackBufferCount, raced, cut>>
  BY DEF Audio!StopCapture
<1>2. Outstanding' = Outstanding
  BY <1>1 DEF AudioInv, BufferTypes, Outstanding
<1>3. scheduled' \in Nat /\ due' \in Nat /\ taking' \in Int \cup {Null}
      /\ (taking' # Null => InBounds(taking'))
  BY <1>1 DEF AudioInv, BufferTypes, BoundsInv
<1>4. BufferTypes' /\ BoundsInv' /\ CountInv'
  BY <1>1, <1>2, <1>3, HandsChanged
<1>5. EngineTypes'
  BY DEF Audio!StopCapture, AudioInv, EngineTypes
<1> QED
  BY <1>4, <1>5 DEF AudioInv

LEMMA BufferEndsKeeps == ASSUME AudioInv, Audio!BufferEnds PROVE AudioInv'
<1>1. /\ scheduled > 0 /\ scheduled' = scheduled - 1 /\ due' = due + 1
      /\ UNCHANGED <<isCapturing, isRunning, captures, received, adding, taking,
                     playbackBufferCount, justPlayed, raced, cut>>
  BY DEF Audio!BufferEnds
<1>2. Outstanding' = Outstanding
  BY <1>1 DEF AudioInv, BufferTypes, Outstanding
<1>3. scheduled' \in Nat /\ due' \in Nat /\ taking' \in Int \cup {Null}
      /\ (taking' # Null => InBounds(taking'))
  BY <1>1 DEF AudioInv, BufferTypes, BoundsInv
<1>4. BufferTypes' /\ BoundsInv' /\ CountInv'
  BY <1>1, <1>2, <1>3, HandsChanged
<1> QED
  BY <1>1, <1>4 DEF AudioInv, EngineTypes

LEMMA CallbackReadsKeeps == ASSUME AudioInv, Audio!CallbackReads PROVE AudioInv'
<1>1. /\ due > 0 /\ taking = Null /\ taking' = playbackBufferCount /\ due' = due - 1
      /\ UNCHANGED <<isCapturing, isRunning, captures, received, scheduled, adding,
                     playbackBufferCount, justPlayed, raced, cut>>
  BY DEF Audio!CallbackReads
<1>2. taking' # Null
  BY <1>1 DEF AudioInv, BufferTypes
<1>3. Outstanding' = Outstanding
  BY <1>1, <1>2 DEF AudioInv, BufferTypes, Outstanding
<1>4. scheduled' \in Nat /\ due' \in Nat /\ taking' \in Int \cup {Null} /\ InBounds(taking')
  BY <1>1 DEF AudioInv, BufferTypes, BoundsInv
<1>5. BufferTypes' /\ BoundsInv' /\ CountInv'
  BY <1>1, <1>3, <1>4, HandsChanged
<1> QED
  BY <1>1, <1>5 DEF AudioInv, EngineTypes

LEMMA PlayReadsKeeps == ASSUME AudioInv, Audio!PlayReads PROVE AudioInv'
<1>1. /\ adding = Null /\ received < MaxBuffers
      /\ adding' = playbackBufferCount /\ received' = received + 1
      /\ UNCHANGED <<isCapturing, isRunning, captures, scheduled, due, taking,
                     playbackBufferCount, justPlayed, raced, cut>>
  BY DEF Audio!PlayReads, Audio!Free
<1>2. adding' # Null
  BY <1>1 DEF AudioInv, BufferTypes
<1>3. Played' = Played /\ Outstanding' = Outstanding
  BY <1>1, <1>2 DEF AudioInv, BufferTypes, Played, Outstanding
<1>4. EngineTypes' /\ BufferTypes'
  BY <1>1 DEF AudioInv, EngineTypes, BufferTypes
<1>5. BoundsInv' /\ CountInv'
  BY <1>1, <1>3 DEF AudioInv, BoundsInv, CountInv, InBounds
<1> QED
  BY <1>4, <1>5 DEF AudioInv

LEMMA PlaysKeeps == ASSUME AudioInv, Audio!Plays PROVE AudioInv'
<1>1. /\ adding # Null /\ playbackBufferCount' = adding + 1 /\ adding' = Null
      /\ raced' = (raced \/ playbackBufferCount # adding) /\ justPlayed' = TRUE
      /\ scheduled' = scheduled + 1
      /\ UNCHANGED <<isCapturing, isRunning, captures, received, due, taking, cut>>
  BY DEF Audio!Plays
<1>2. EngineTypes'
  BY <1>1 DEF AudioInv, EngineTypes
<1>3. BufferTypes'
  BY <1>1 DEF AudioInv, BufferTypes
<1>4. Played' = Played + 1 /\ Outstanding' = Outstanding + 1 /\ Played \in Int
      /\ Outstanding \in Int
  BY <1>1 DEF AudioInv, BufferTypes, Played, Outstanding
<1>5. BoundsInv'
  BY <1>1, <1>4 DEF AudioInv, BufferTypes, BoundsInv, InBounds
<1>6. CountInv'
  <2>1. ~raced' => ~raced /\ playbackBufferCount = adding
    BY <1>1 DEF AudioInv, EngineTypes
  <2> QED
    BY <1>1, <1>4, <2>1 DEF AudioInv, BufferTypes, CountInv
<1> QED
  BY <1>2, <1>3, <1>5, <1>6 DEF AudioInv

LEMMA CallbackEndsKeeps == ASSUME AudioInv, Audio!CallbackEnds PROVE AudioInv'
<1>1. /\ taking # Null /\ playbackBufferCount' = taking - 1 /\ taking' = Null
      /\ raced' = (raced \/ playbackBufferCount # taking)
      /\ UNCHANGED <<isCapturing, isRunning, captures, received, scheduled, due, adding,
                     justPlayed, cut>>
  BY DEF Audio!CallbackEnds
<1>2. EngineTypes'
  BY <1>1 DEF AudioInv, EngineTypes
<1>3. BufferTypes'
  BY <1>1 DEF AudioInv, BufferTypes
<1>4. Played' = Played /\ Outstanding' = Outstanding - 1 /\ Played \in Int /\ Outstanding \in Int
  BY <1>1 DEF AudioInv, BufferTypes, Played, Outstanding
<1>5. BoundsInv'
  BY <1>1, <1>4 DEF AudioInv, BufferTypes, BoundsInv, InBounds
<1>6. CountInv'
  <2>1. ~raced' => ~raced /\ playbackBufferCount = taking
    BY <1>1 DEF AudioInv, EngineTypes
  <2> QED
    BY <1>1, <1>4, <2>1 DEF AudioInv, BufferTypes, CountInv
<1> QED
  BY <1>2, <1>3, <1>5, <1>6 DEF AudioInv

LEMMA StopPlaybackKeeps == ASSUME AudioInv, Audio!StopPlayback PROVE AudioInv'
<1>1. /\ scheduled' = 0 /\ due' = due + scheduled /\ playbackBufferCount' = 0
      /\ cut' = (cut \/ due + scheduled > 0 \/ taking # Null)
      /\ UNCHANGED <<isCapturing, isRunning, captures, received, adding, taking, justPlayed, raced>>
  BY DEF Audio!StopPlayback
<1>2. EngineTypes'
  BY <1>1 DEF AudioInv, EngineTypes
<1>3. BufferTypes'
  BY <1>1 DEF AudioInv, BufferTypes
<1>4. Played' = Played /\ Outstanding' = Outstanding /\ Played \in Int /\ Outstanding \in Nat
  BY <1>1 DEF AudioInv, BufferTypes, Played, Outstanding
<1>5. BoundsInv'
  BY <1>1, <1>4 DEF AudioInv, BufferTypes, BoundsInv, InBounds
<1>6. CountInv'
  <2>1. ASSUME ~cut' PROVE Outstanding = 0
    <3>1. ~(due + scheduled > 0) /\ taking = Null
      BY <1>1, <2>1
    <3> QED
      BY <3>1 DEF AudioInv, BufferTypes, Outstanding
  <2> QED
    BY <1>1, <1>4, <2>1 DEF AudioInv, CountInv
<1> QED
  BY <1>2, <1>3, <1>5, <1>6 DEF AudioInv

LEMMA NextAudio == AudioInv /\ [Audio!Next]_audioVars => AudioInv'
<1> SUFFICES ASSUME AudioInv, [Audio!Next]_audioVars PROVE AudioInv'
  OBVIOUS
<1>1. CASE \/ Audio!StartCapture \/ Audio!Interrupted \/ Audio!InterruptionEnds
           \/ Audio!MomentPasses \/ UNCHANGED audioVars
  BY <1>1, CaptureKeeps
<1>2. CASE Audio!StopCapture
  BY <1>2, StopCaptureKeeps
<1>3. CASE Audio!PlayReads
  BY <1>3, PlayReadsKeeps
<1>4. CASE Audio!Plays
  BY <1>4, PlaysKeeps
<1>5. CASE Audio!BufferEnds
  BY <1>5, BufferEndsKeeps
<1>6. CASE Audio!CallbackReads
  BY <1>6, CallbackReadsKeeps
<1>7. CASE Audio!CallbackEnds
  BY <1>7, CallbackEndsKeeps
<1>8. CASE Audio!StopPlayback
  BY <1>8, StopPlaybackKeeps
<1> QED
  BY <1>1, <1>2, <1>3, <1>4, <1>5, <1>6, <1>7, <1>8 DEF Audio!Next

-----------------------------------------------------------------------------
(***************************************************************************)
(* The pairing of phone and Desktop.                                       *)
(***************************************************************************)

\* What an attempt waits for says what its row is, and the attempt the card counts as
\* its own is the one the card waits for.
AttemptInv ==
    \A t \in Pairing!Pairs :
        /\ stage[t] \in {"none", "failed"} => row[t] = "none"
        /\ pairAttempt = t /\ stage[t] \in {"created", "drawing"} => row[t] = "live"
        /\ pairAttempt = t /\ stage[t] \in {"created", "failed", "drawing"} => pairing = "minting"

\* A token is shown, revoked or confirmed once its attempt is over, and only one of these.
TokenInv ==
    \A t \in Pairing!Pairs :
        /\ modal = t => stage[t] = "over" /\ row[t] = "live"
        /\ t \in revoking \cup confirmed => stage[t] = "over" /\ modal # t
        /\ ~(t \in revoking /\ t \in confirmed)

PairingInv ==
    /\ Pairing!PairingTypeOK
    /\ AttemptInv /\ TokenInv
    /\ Pairing!NoOrphanToken /\ Pairing!ModalShowsItsToken /\ Pairing!ConfirmedStaysGood

LEMMA NoneIsNoPair == Pairing!None \notin Pairing!Pairs
  BY DEF Pairing!None, Pairing!Pairs

\* Every step keeps the types; None is no attempt's number.
LEMMA PairingTypeStep ==
    ASSUME Pairing!PairingTypeOK, [Pairing!Next]_pairingVars
    PROVE  Pairing!PairingTypeOK'
<1> USE NoneIsNoPair DEF Pairing!PairingTypeOK, Pairing!shownVars, Pairing!Show, Pairing!Revoke
<1>1. ASSUME NEW t \in Pairing!Pairs, Pairing!StartPairing(t) PROVE Pairing!PairingTypeOK'
  BY <1>1 DEF Pairing!StartPairing
<1>2. ASSUME NEW t \in Pairing!Pairs, Pairing!Created(t) PROVE Pairing!PairingTypeOK'
  BY <1>2 DEF Pairing!Created
<1>3. ASSUME NEW t \in Pairing!Pairs, Pairing!Drawn(t) PROVE Pairing!PairingTypeOK'
  BY <1>3 DEF Pairing!Drawn
<1>4. ASSUME NEW t \in Pairing!Pairs, Pairing!DrawFails(t) PROVE Pairing!PairingTypeOK'
  BY <1>4 DEF Pairing!DrawFails
<1>5. ASSUME NEW t \in Pairing!Pairs, Pairing!Revoked(t) PROVE Pairing!PairingTypeOK'
  BY <1>5 DEF Pairing!Revoked
<1>6. ASSUME NEW t \in Pairing!Pairs, Pairing!Undo(t) PROVE Pairing!PairingTypeOK'
  BY <1>6 DEF Pairing!Undo
<1>7. CASE Pairing!Cancel
  BY <1>7 DEF Pairing!Cancel
<1>8. CASE Pairing!Confirm
  BY <1>8 DEF Pairing!Confirm
<1>9. CASE Pairing!CommitLabel
  BY <1>9 DEF Pairing!CommitLabel
<1>10. CASE Pairing!LabelGoesOn
  <2>1. relabel[1] \in Pairing!Pairs
    BY <1>10 DEF Pairing!LabelGoesOn
  <2>2. relabel' \in (Pairing!Pairs \cup {Pairing!None}) \X {"none", "renaming", "drawing"}
    BY <1>10, <2>1 DEF Pairing!LabelGoesOn
  <2>3. code' \in Pairing!Pairs \cup {Pairing!None} /\ relabelled' \in BOOLEAN
    BY <1>10, <2>1 DEF Pairing!LabelGoesOn
  <2> QED
    BY <1>10, <2>2, <2>3 DEF Pairing!LabelGoesOn
<1>11. CASE Pairing!LeavePage
  <2>1. stage' \in [Pairing!Pairs -> {"none", "created", "failed", "drawing", "over"}]
    BY <1>11 DEF Pairing!LeavePage
  <2>2. orphaned' \subseteq Pairing!Pairs
    BY <1>11 DEF Pairing!LeavePage
  <2> QED
    BY <1>11, <2>1, <2>2 DEF Pairing!LeavePage
<1>12. CASE UNCHANGED pairingVars
  BY <1>12 DEF pairingVars
<1> QED
  BY <1>1, <1>2, <1>3, <1>4, <1>5, <1>6, <1>7, <1>8, <1>9, <1>10, <1>11, <1>12 DEF Pairing!Next

\* The row of an attempt is written with it and revoked after it; the list is out of
\* reach while the card waits.
LEMMA AttemptStep ==
    ASSUME PairingInv, [Pairing!Next]_pairingVars
    PROVE  AttemptInv'
<1> USE NoneIsNoPair
    DEF PairingInv, Pairing!PairingTypeOK, AttemptInv, Pairing!shownVars, Pairing!Show,
        Pairing!Revoke
<1>1. ASSUME NEW t \in Pairing!Pairs, Pairing!StartPairing(t) PROVE AttemptInv'
  BY <1>1 DEF Pairing!StartPairing
<1>2. ASSUME NEW t \in Pairing!Pairs, Pairing!Created(t) PROVE AttemptInv'
  BY <1>2 DEF Pairing!Created
<1>3. ASSUME NEW t \in Pairing!Pairs, Pairing!Drawn(t) PROVE AttemptInv'
  BY <1>3 DEF Pairing!Drawn
<1>4. ASSUME NEW t \in Pairing!Pairs, Pairing!DrawFails(t) PROVE AttemptInv'
  BY <1>4 DEF Pairing!DrawFails
<1>5. ASSUME NEW t \in Pairing!Pairs, Pairing!Revoked(t) PROVE AttemptInv'
  BY <1>5 DEF Pairing!Revoked, TokenInv
<1>6. ASSUME NEW t \in Pairing!Pairs, Pairing!Undo(t) PROVE AttemptInv'
  BY <1>6 DEF Pairing!Undo
<1>7. CASE Pairing!Cancel
  BY <1>7 DEF Pairing!Cancel
<1>8. CASE Pairing!Confirm
  BY <1>8 DEF Pairing!Confirm
<1>9. CASE Pairing!CommitLabel \/ Pairing!LabelGoesOn
  BY <1>9 DEF Pairing!CommitLabel, Pairing!LabelGoesOn
<1>10. CASE Pairing!LeavePage
  <2>1. \A t \in Pairing!Pairs : stage'[t] = stage[t] \/ (stage[t] # "none" /\ stage'[t] = "over")
    BY <1>10 DEF Pairing!LeavePage
  <2> QED
    BY <1>10, <2>1 DEF Pairing!LeavePage
<1>11. CASE UNCHANGED pairingVars
  BY <1>11 DEF pairingVars
<1> QED
  BY <1>1, <1>2, <1>3, <1>4, <1>5, <1>6, <1>7, <1>8, <1>9, <1>10, <1>11 DEF Pairing!Next

\* A token is revoked at the end of its attempt or from the modal, and confirmed from the
\* modal; the modal shows no token twice.
LEMMA TokenStep ==
    ASSUME PairingInv, [Pairing!Next]_pairingVars
    PROVE  TokenInv'
<1> USE NoneIsNoPair
    DEF PairingInv, Pairing!PairingTypeOK, TokenInv, Pairing!shownVars, Pairing!Show,
        Pairing!Revoke
<1>1. ASSUME NEW t \in Pairing!Pairs, Pairing!StartPairing(t) PROVE TokenInv'
  BY <1>1 DEF Pairing!StartPairing
<1>2. ASSUME NEW t \in Pairing!Pairs, Pairing!Created(t) PROVE TokenInv'
  BY <1>2 DEF Pairing!Created
<1>3. ASSUME NEW t \in Pairing!Pairs, Pairing!Drawn(t) PROVE TokenInv'
  BY <1>3 DEF Pairing!Drawn, AttemptInv
<1>4. ASSUME NEW t \in Pairing!Pairs, Pairing!DrawFails(t) PROVE TokenInv'
  BY <1>4 DEF Pairing!DrawFails
<1>5. ASSUME NEW t \in Pairing!Pairs, Pairing!Revoked(t) PROVE TokenInv'
  BY <1>5 DEF Pairing!Revoked
<1>6. ASSUME NEW t \in Pairing!Pairs, Pairing!Undo(t) PROVE TokenInv'
  BY <1>6 DEF Pairing!Undo
<1>7. CASE Pairing!Cancel
  BY <1>7 DEF Pairing!Cancel
<1>8. CASE Pairing!Confirm
  BY <1>8 DEF Pairing!Confirm
<1>9. CASE Pairing!CommitLabel \/ Pairing!LabelGoesOn
  BY <1>9 DEF Pairing!CommitLabel, Pairing!LabelGoesOn
<1>10. CASE Pairing!LeavePage
  <2>1. \A t \in Pairing!Pairs : stage'[t] = stage[t] \/ (stage[t] # "none" /\ stage'[t] = "over")
    BY <1>10 DEF Pairing!LeavePage
  <2> QED
    BY <1>10, <2>1 DEF Pairing!LeavePage
<1>11. CASE UNCHANGED pairingVars
  BY <1>11 DEF pairingVars
<1> QED
  BY <1>1, <1>2, <1>3, <1>4, <1>5, <1>6, <1>7, <1>8, <1>9, <1>10, <1>11 DEF Pairing!Next

\* Whatever an attempt gives up -- its own, the modal's, a failed revocation's -- is
\* revoked or counted as left behind.
LEMMA OrphanStep ==
    ASSUME PairingInv, [Pairing!Next]_pairingVars
    PROVE  Pairing!NoOrphanToken'
<1> USE NoneIsNoPair
    DEF PairingInv, Pairing!PairingTypeOK, AttemptInv, Pairing!NoOrphanToken, Pairing!shownVars,
        Pairing!Show, Pairing!Revoke
<1>1. ASSUME NEW t \in Pairing!Pairs, Pairing!StartPairing(t) PROVE Pairing!NoOrphanToken'
  BY <1>1 DEF Pairing!StartPairing
<1>2. ASSUME NEW t \in Pairing!Pairs, Pairing!Created(t) PROVE Pairing!NoOrphanToken'
  BY <1>2 DEF Pairing!Created
<1>3. ASSUME NEW t \in Pairing!Pairs, Pairing!Drawn(t) PROVE Pairing!NoOrphanToken'
  BY <1>3 DEF Pairing!Drawn
<1>4. ASSUME NEW t \in Pairing!Pairs, Pairing!DrawFails(t) PROVE Pairing!NoOrphanToken'
  BY <1>4 DEF Pairing!DrawFails
<1>5. ASSUME NEW t \in Pairing!Pairs, Pairing!Revoked(t) PROVE Pairing!NoOrphanToken'
  BY <1>5 DEF Pairing!Revoked
<1>6. ASSUME NEW t \in Pairing!Pairs, Pairing!Undo(t) PROVE Pairing!NoOrphanToken'
  BY <1>6 DEF Pairing!Undo
<1>7. CASE Pairing!Cancel
  BY <1>7 DEF Pairing!Cancel
<1>8. CASE Pairing!Confirm
  BY <1>8 DEF Pairing!Confirm
<1>9. CASE Pairing!CommitLabel \/ Pairing!LabelGoesOn
  BY <1>9 DEF Pairing!CommitLabel, Pairing!LabelGoesOn
<1>10. CASE Pairing!LeavePage
  <2>1. \A t \in Pairing!Pairs : modal = t => t \in orphaned'
    BY <1>10 DEF Pairing!LeavePage
  <2>2. \A t \in Pairing!Pairs :
           \/ stage'[t] = stage[t]
           \/ stage[t] \in {"created", "drawing"} /\ t \in orphaned'
           \/ stage[t] \notin {"created", "drawing"}
    BY <1>10 DEF Pairing!LeavePage
  <2> QED
    BY <1>10, <2>1, <2>2 DEF Pairing!LeavePage
<1>11. CASE UNCHANGED pairingVars
  BY <1>11 DEF pairingVars
<1> QED
  BY <1>1, <1>2, <1>3, <1>4, <1>5, <1>6, <1>7, <1>8, <1>9, <1>10, <1>11 DEF Pairing!Next

\* The modal is of the attempt the card counts as its own.
LEMMA ModalStep ==
    ASSUME PairingInv, [Pairing!Next]_pairingVars
    PROVE  Pairing!ModalShowsItsToken'
<1> USE NoneIsNoPair
    DEF PairingInv, Pairing!PairingTypeOK, Pairing!ModalShowsItsToken, Pairing!shownVars,
        Pairing!Show, Pairing!Revoke
<1>1. CASE \E t \in Pairing!Pairs :
             Pairing!StartPairing(t) \/ Pairing!Created(t) \/ Pairing!Drawn(t)
             \/ Pairing!DrawFails(t) \/ Pairing!Revoked(t) \/ Pairing!Undo(t)
  BY <1>1
  DEF Pairing!StartPairing, Pairing!Created, Pairing!Drawn, Pairing!DrawFails, Pairing!Revoked,
      Pairing!Undo
<1>2. CASE Pairing!Cancel \/ Pairing!Confirm \/ Pairing!LeavePage
  BY <1>2 DEF Pairing!Cancel, Pairing!Confirm, Pairing!LeavePage
<1>3. CASE Pairing!CommitLabel \/ Pairing!LabelGoesOn
  BY <1>3 DEF Pairing!CommitLabel, Pairing!LabelGoesOn
<1>4. CASE UNCHANGED pairingVars
  BY <1>4 DEF pairingVars
<1> QED
  BY <1>1, <1>2, <1>3, <1>4 DEF Pairing!Next

\* No revocation reaches a token that was confirmed: those under way are of others.
LEMMA ConfirmedStep ==
    ASSUME PairingInv, [Pairing!Next]_pairingVars
    PROVE  Pairing!ConfirmedStaysGood'
<1> USE NoneIsNoPair
    DEF PairingInv, Pairing!PairingTypeOK, Pairing!ConfirmedStaysGood, TokenInv, AttemptInv,
        Pairing!shownVars, Pairing!Show, Pairing!Revoke
<1>1. ASSUME NEW t \in Pairing!Pairs, Pairing!StartPairing(t) PROVE Pairing!ConfirmedStaysGood'
  BY <1>1 DEF Pairing!StartPairing
<1>2. ASSUME NEW t \in Pairing!Pairs, Pairing!Created(t) PROVE Pairing!ConfirmedStaysGood'
  BY <1>2 DEF Pairing!Created
<1>3. ASSUME NEW t \in Pairing!Pairs, Pairing!Drawn(t) \/ Pairing!DrawFails(t)
      PROVE Pairing!ConfirmedStaysGood'
  BY <1>3 DEF Pairing!Drawn, Pairing!DrawFails
<1>4. ASSUME NEW t \in Pairing!Pairs, Pairing!Revoked(t) PROVE Pairing!ConfirmedStaysGood'
  BY <1>4 DEF Pairing!Revoked
<1>5. ASSUME NEW t \in Pairing!Pairs, Pairing!Undo(t) PROVE Pairing!ConfirmedStaysGood'
  BY <1>5 DEF Pairing!Undo
<1>6. CASE Pairing!Cancel
  BY <1>6 DEF Pairing!Cancel
<1>7. CASE Pairing!Confirm
  BY <1>7 DEF Pairing!Confirm
<1>8. CASE Pairing!CommitLabel \/ Pairing!LabelGoesOn \/ Pairing!LeavePage
  BY <1>8 DEF Pairing!CommitLabel, Pairing!LabelGoesOn, Pairing!LeavePage
<1>9. CASE UNCHANGED pairingVars
  BY <1>9 DEF pairingVars
<1> QED
  BY <1>1, <1>2, <1>3, <1>4, <1>5, <1>6, <1>7, <1>8, <1>9 DEF Pairing!Next


LEMMA PairingImplied == PairingInv => Pairing!PairingAccounted
  BY DEF PairingInv, Pairing!PairingAccounted

LEMMA InitPairing == Pairing!Init => PairingInv
<1> SUFFICES ASSUME Pairing!Init PROVE PairingInv
  OBVIOUS
<1>1. relabel \in (Pairing!Pairs \cup {Pairing!None}) \X {"none", "renaming", "drawing"}
  BY DEF Pairing!Init
<1>2. Pairing!PairingTypeOK
  BY <1>1 DEF Pairing!Init, Pairing!PairingTypeOK
<1>3. AttemptInv /\ TokenInv
  BY NoneIsNoPair DEF Pairing!Init, AttemptInv, TokenInv
<1>4. Pairing!NoOrphanToken /\ Pairing!ModalShowsItsToken /\ Pairing!ConfirmedStaysGood
  BY DEF Pairing!Init, Pairing!NoOrphanToken, Pairing!ModalShowsItsToken,
         Pairing!ConfirmedStaysGood
<1> QED
  BY <1>2, <1>3, <1>4 DEF PairingInv

LEMMA NextPairing == PairingInv /\ [Pairing!Next]_pairingVars => PairingInv'
<1> SUFFICES ASSUME PairingInv, [Pairing!Next]_pairingVars PROVE PairingInv'
  OBVIOUS
<1>1. Pairing!PairingTypeOK'
  BY PairingTypeStep DEF PairingInv
<1> QED
  BY <1>1, AttemptStep, TokenStep, OrphanStep, ModalStep, ConfirmedStep DEF PairingInv

-----------------------------------------------------------------------------
(***************************************************************************)
(* What holds of all of them.                                              *)
(***************************************************************************)

CallsInv == ClientInv /\ MobileInv /\ DirectInv /\ BarInv /\ AudioInv /\ PairingInv

LEMMA CallsImplied == CallsInv => CallAccounted /\ PairingAccounted
<1> SUFFICES ASSUME CallsInv PROVE CallAccounted /\ PairingAccounted
  OBVIOUS
<1>1. Client!CallTypeOK /\ Client!CallAccounted /\ Client!MuteAgrees
  BY ClientImplied DEF CallsInv
<1>2. /\ Mobile!MobileTypeOK /\ Mobile!OneLink /\ Mobile!MicrophoneHasSession
      /\ Mobile!NeverStranded
  BY MobileImplied DEF CallsInv
<1>3. Direct!DirectTypeOK /\ Direct!OnlyLastSetsUp /\ Direct!MicrophoneHasSession
  BY DirectImplied DEF CallsInv
<1>4. Bar!BarTypeOK /\ Bar!BarAgrees
  BY BarImplied DEF CallsInv
<1>5. Audio!AudioTypeOK /\ Audio!EchoIsGated /\ Audio!UserIsHeard
  BY AudioImplied DEF CallsInv
<1>6. CallAccounted
  BY <1>1, <1>2, <1>3, <1>4, <1>5 DEF CallAccounted
<1>7. PairingAccounted
  BY PairingImplied DEF CallsInv, PairingAccounted
<1> QED
  BY <1>6, <1>7

LEMMA InitCalls == Init => CallsInv
<1> SUFFICES ASSUME Init PROVE CallsInv
  OBVIOUS
<1>1. Client!Init /\ Mobile!Init /\ Direct!Init /\ Bar!Init /\ Audio!Init /\ Pairing!Init
  BY DEF Init
<1> QED
  BY <1>1, InitClient, InitMobile, InitDirect, InitBar, InitAudio, InitPairing DEF CallsInv

\* A step is one of a component, and leaves the others alone.
LEMMA CallsStep ==
    ASSUME [Next]_vars
    PROVE  /\ [Client!Next]_clientVars /\ [Mobile!Next]_mobileVars /\ [Direct!Next]_directVars
           /\ [Bar!Next]_barVars /\ [Audio!Next]_audioVars /\ [Pairing!Next]_pairingVars
<1>1. CASE UNCHANGED vars
  BY <1>1 DEF vars
<1>2. CASE Next
  BY <1>2 DEF Next
<1> QED
  BY <1>1, <1>2

LEMMA NextCalls == CallsInv /\ [Next]_vars => CallsInv'
<1> SUFFICES ASSUME CallsInv, [Next]_vars PROVE CallsInv'
  OBVIOUS
<1>1. /\ [Client!Next]_clientVars /\ [Mobile!Next]_mobileVars /\ [Direct!Next]_directVars
      /\ [Bar!Next]_barVars /\ [Audio!Next]_audioVars /\ [Pairing!Next]_pairingVars
  BY CallsStep
<1>2. ClientInv' /\ MobileInv'
  BY <1>1, NextClient, NextMobile DEF CallsInv
<1>3. DirectInv' /\ BarInv'
  BY <1>1, NextDirect, NextBar DEF CallsInv
<1>4. AudioInv' /\ PairingInv'
  BY <1>1, NextAudio, NextPairing DEF CallsInv
<1> QED
  BY <1>2, <1>3, <1>4 DEF CallsInv

\* However connections are lost, answered late, started over and stopped, a call has one
\* connection in use and its microphone is open for a session that is
\* (use-voice-session.ts, use-realtime.ts, use-direct-gemini.ts), its call bar shows how it
\* is or is told (call-bar.ts), and the phone's echo gate follows its player unless one of
\* its two threads overwrote the other's change (ExpoRealtimeAudioModule).
THEOREM CallsSafe == Spec => []CallAccounted
<1>1. CallsInv => CallAccounted
  BY CallsImplied
<1> QED
  BY <1>1, InitCalls, NextCalls, PTL DEF Spec

\* However attempts overlap, are cancelled and fail, a token that the user did not confirm
\* is shown or taken back, the modal shows its own token, and a token that was confirmed
\* stays good (DevicesCard's startPairing, cancelPairing, confirmPairing and
\* commitPairLabel).
THEOREM PairingSafe == Spec => []PairingAccounted
<1>1. CallsInv => PairingAccounted
  BY CallsImplied
<1> QED
  BY <1>1, InitCalls, NextCalls, PTL DEF Spec
=============================================================================
