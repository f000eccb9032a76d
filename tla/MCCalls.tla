------------------------------- MODULE MCCalls -------------------------------
(***************************************************************************)
(* Model checking of a call as its client holds it: the Desktop, the phone *)
(* through the Relay, and the phone with Gemini directly; the call bar of  *)
(* the Desktop, and the audio engine of the phone; and of the pairing of   *)
(* the two.  A behaviour runs one of them, chosen at first: they share no  *)
(* state.                                                                  *)
(***************************************************************************)
EXTENDS Integers, Sequences, FiniteSets

CONSTANTS MaxConnections, MaxReconnectAttempts, Greeting, MaxSockets, MaxAttempts, MaxTimers,
    MaxStarts, MaxMessages, MaxBuffers, MaxCaptures, MaxPairs, Null

ASSUME CallsAssumption ==
    /\ MaxConnections \in Nat /\ MaxReconnectAttempts \in Nat /\ Greeting \in BOOLEAN
    /\ MaxSockets \in Nat /\ MaxAttempts \in Nat /\ MaxTimers \in Nat /\ MaxStarts \in Nat
    /\ MaxMessages \in Nat /\ MaxBuffers \in Nat /\ MaxCaptures \in Nat /\ MaxPairs \in Nat
    /\ Null \notin Int

VARIABLES
    part,
    connectionId, ws, wsRef, engineRef, asking, microphone, late, userStopped, reconnectAttempts,
    reconnectTimer, hasConnected, isConnected, isReconnecting, isMuted, muted, startedMuted, told,
    mounted, greeting,
    sock, ready, mWsRef, mUserStopped, mConnected, mCapturing, isCallActive, isConnecting,
    pairNeeded, starting, status, attempt, cancelled, timer, oldTimers, excused,
    mode, last, chain, relay, gemini, relayWsRef, geminiWsRef, pending, got, asked, dTimer,
    settled, dUserStopped, dConnected, dCapturing, disturbed,
    inCall, micMuted, callActive, sessionHiddenByUser, enabled, visible, hideTimer, isReady,
    queuedVisibility, queuedMuted, levelTimer, toBar, shown, shownMuted, wanted,
    isCapturing, isRunning, captures, received, scheduled, due, adding, taking,
    playbackBufferCount, justPlayed, raced, cut,
    row, stage, pairAttempt, pairing, modal, code, relabel, revoking, confirmed, undone, orphaned,
    relabelled

Client == INSTANCE DesktopCall
Mobile == INSTANCE MobileCall
    WITH wsRef <- mWsRef, userStopped <- mUserStopped, isConnected <- mConnected,
         capturing <- mCapturing
Direct == INSTANCE DirectCall
    WITH timer <- dTimer, userStopped <- dUserStopped, isConnected <- dConnected,
         capturing <- dCapturing
Bar == INSTANCE CallBar
Audio == INSTANCE MobileAudio
Pairing == INSTANCE DevicePairing

clientVars == <<connectionId, ws, wsRef, engineRef, asking, microphone, late, userStopped,
    reconnectAttempts, reconnectTimer, hasConnected, isConnected, isReconnecting, isMuted, muted,
    startedMuted, told, mounted, greeting>>
mobileVars == <<sock, ready, mWsRef, mUserStopped, mConnected, mCapturing, isCallActive,
    isConnecting, pairNeeded, starting, status, attempt, cancelled, timer, oldTimers, excused>>
directVars == <<mode, last, chain, relay, gemini, relayWsRef, geminiWsRef, pending, got, asked,
    dTimer, settled, dUserStopped, dConnected, dCapturing, disturbed>>
barVars == <<inCall, micMuted, callActive, sessionHiddenByUser, enabled, visible, hideTimer,
    isReady, queuedVisibility, queuedMuted, levelTimer, toBar, shown, shownMuted, wanted>>
audioVars == <<isCapturing, isRunning, captures, received, scheduled, due, adding, taking,
    playbackBufferCount, justPlayed, raced, cut>>
pairingVars == <<row, stage, pairAttempt, pairing, modal, code, relabel, revoking, confirmed,
    undone, orphaned, relabelled>>
vars == <<part, clientVars, mobileVars, directVars, barVars, audioVars, pairingVars>>

Init ==
    /\ part \in {"client", "mobile", "direct", "bar", "audio", "pairing"}
    /\ Client!Init /\ Mobile!Init /\ Direct!Init /\ Bar!Init /\ Audio!Init /\ Pairing!Init

Next ==
    \/ /\ part = "client" /\ Client!Next
       /\ UNCHANGED <<part, mobileVars, directVars, barVars, audioVars, pairingVars>>
    \/ /\ part = "mobile" /\ Mobile!Next
       /\ UNCHANGED <<part, clientVars, directVars, barVars, audioVars, pairingVars>>
    \/ /\ part = "direct" /\ Direct!Next
       /\ UNCHANGED <<part, clientVars, mobileVars, barVars, audioVars, pairingVars>>
    \/ /\ part = "bar" /\ Bar!Next
       /\ UNCHANGED <<part, clientVars, mobileVars, directVars, audioVars, pairingVars>>
    \/ /\ part = "audio" /\ Audio!Next
       /\ UNCHANGED <<part, clientVars, mobileVars, directVars, barVars, pairingVars>>
    \/ /\ part = "pairing" /\ Pairing!Next
       /\ UNCHANGED <<part, clientVars, mobileVars, directVars, barVars, audioVars>>

Spec == Init /\ [][Next]_vars /\ Client!Fairness /\ Direct!Fairness

\* A call has one connection in use, its microphone is open for a session that is, and
\* what the Desktop, its call bar or the phone shows of it is how it is or about to change;
\* and the phone's echo gate follows what its player has to play.
CallAccounted ==
    /\ Client!CallTypeOK /\ Mobile!MobileTypeOK /\ Direct!DirectTypeOK /\ Bar!BarTypeOK
    /\ Audio!AudioTypeOK
    /\ Client!CallAccounted /\ Client!MuteAgrees
    /\ Mobile!OneLink /\ Mobile!MicrophoneHasSession /\ Mobile!NeverStranded
    /\ Direct!OnlyLastSetsUp /\ Direct!MicrophoneHasSession
    /\ Bar!BarAgrees
    /\ Audio!EchoIsGated /\ Audio!UserIsHeard

\* A pairing token that the user did not confirm is shown or taken back, and one that was
\* confirmed stays good.
PairingAccounted == Pairing!PairingAccounted

\* A call that reconnects is connected, stopped or reported lost, and the set-up of a
\* direct call ends.
CallsResolve == Client!CallResolves /\ Direct!SetupEnds
=============================================================================
