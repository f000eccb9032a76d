------------------------------ MODULE MCSession ------------------------------
(***************************************************************************)
(* Model checking of a client's session with the Relay and of what it      *)
(* leaves behind: the session and its adapters, the tools it executes, the *)
(* recording of its turns, and its end with the process.  A behaviour runs *)
(* one of the four, chosen at first: each abstracts the others to what it  *)
(* needs of them, and interleaving them would multiply their states.       *)
(***************************************************************************)
EXTENDS ToolCalls, Sequences

CONSTANTS
    Configs, Tools, NoAdapter,
    MaxTurns,
    Sessions

ASSUME SessionAssumption == NoAdapter \notin Configs /\ MaxTurns \in Nat

VARIABLES
    part,
    sWs, authed, step, sAdapter, life, cleanup, sTool, kind, sHome, sStrays, synced, overlapped,
    interrupted,
    upstream, started, activeTurnId, span, toolSpan, sessionDir, currentTurn, capture, attachTo,
    completedTurns, mediaOn, ender, awaits, recordedLate,
    phase, connection, pCleanup, finalize, sync, timedOut, missed

Session == INSTANCE RelaySession
    WITH ws <- sWs, adapter <- sAdapter, tool <- sTool, home <- sHome, strays <- sStrays
Trace == INSTANCE TurnCapture WITH late <- recordedLate
Process == INSTANCE RelayShutdown WITH cleanup <- pCleanup

sessionVars == <<sWs, authed, step, sAdapter, life, cleanup, sTool, kind, sHome, sStrays, synced,
    overlapped, interrupted>>
captureVars == <<upstream, started, activeTurnId, span, toolSpan, sessionDir, currentTurn, capture,
    attachTo, completedTurns, mediaOn, ender, awaits,
    recordedLate>>
processVars == <<phase, connection, pCleanup, finalize, sync, timedOut, missed>>
vars == <<part, sessionVars, captureVars, toolVars, processVars>>

\* A part that does not run has one of its initial states.
Init ==
    /\ part \in {"session", "trace", "tools", "process"}
    /\ Session!Init /\ Trace!Init /\ ToolsInit /\ Process!Init
    /\ part # "trace" => sessionDir
    /\ part # "tools" => made = 0

Next ==
    \/ /\ part = "session" /\ Session!Next
       /\ UNCHANGED <<part, captureVars, toolVars, processVars>>
    \/ /\ part = "trace" /\ Trace!Next
       /\ UNCHANGED <<part, sessionVars, toolVars, processVars>>
    \/ /\ part = "tools" /\ ToolsNext
       /\ UNCHANGED <<part, sessionVars, captureVars, processVars>>
    \/ /\ part = "process" /\ Process!Next
       /\ UNCHANGED <<part, sessionVars, captureVars, toolVars>>

Spec == Init /\ [][Next]_vars /\ ToolsFairness /\ Process!Fairness

\* An adapter that was replaced or whose client is gone has no upstream, its tools'
\* results went to no other, its transcript was handed over once, and a process that ends
\* waits for that.
AdaptersAccounted ==
    /\ Session!SessionTypeOK /\ Process!ShutdownTypeOK
    /\ Session!NoAdapterLeft /\ Session!ResultsStayHome /\ Session!SyncedOnce /\ Process!DrainedBeforeExit

\* What is recorded of a call is what is traced, once, and nothing stays open.
CaptureAccounted == Trace!CaptureTypeOK /\ Trace!CaptureAccounted

\* Every tool call ends, and so does a process that was told to.
SessionSettles == ToolsSettle /\ Process!ShutdownEnds
=============================================================================
