---------------------------- MODULE RelayShutdown ----------------------------
(***************************************************************************)
(* How the Relay process ends on SIGTERM or SIGINT: it closes its clients' *)
(* connections, waits until the server has none left, drains the tasks it  *)
(* tracks and flushes the traces.  A session's cleanup() is such a task,   *)
(* from the close event of its connection on, and it registers another,    *)
(* the transcript for the brain; the recording of a turn that ended is a   *)
(* third.  Hosts and their sockets are in HostGateway.                     *)
(*                                                                         *)
(* Node counts a connection as closed as soon as its socket is destroyed;  *)
(* the close event that the session listens to comes after that.           *)
(***************************************************************************)
EXTENDS FiniteSets

CONSTANT Sessions

VARIABLES
    phase,          \* where shutdown() stands
    connection,     \* each session's socket
    cleanup,        \* each session's cleanup()
    finalize,       \* the media-finalize task of its last turn
    sync,           \* the transcript-sync task
    timedOut,       \* the drain's time is up
    missed          \* history: sessions whose close event came after the server's

processVars == <<phase, connection, cleanup, finalize, sync, timedOut, missed>>

Tasks == {"none", "running", "done"}

ShutdownTypeOK ==
    /\ phase \in {"serving", "closing", "draining", "flushing", "exited", "killed"}
    /\ connection \in [Sessions -> {"open", "closing", "destroyed", "closed"}]
    /\ cleanup \in [Sessions -> Tasks]
    /\ finalize \in [Sessions -> Tasks] /\ sync \in [Sessions -> Tasks]
    /\ timedOut \in BOOLEAN
    /\ missed \subseteq Sessions

Init ==
    /\ phase = "serving"
    /\ connection = [s \in Sessions |-> "open"]
    /\ cleanup = [s \in Sessions |-> "none"]
    /\ finalize = [s \in Sessions |-> "none"] /\ sync = [s \in Sessions |-> "none"]
    /\ timedOut = FALSE /\ missed = {}

Alive == phase \notin {"exited", "killed"}

\* Mutant: cleanup() is not tracked.
InFlightUntracked == {s \in Sessions : "running" \in {finalize[s], sync[s]}}

\* The sessions with a task in the set of trackBackgroundTask.
InFlight == {s \in Sessions : "running" \in {cleanup[s], finalize[s], sync[s]}}

-----------------------------------------------------------------------------
\* turn.ended: the turn's files are closed in the background.
TurnEnded(s) ==
    /\ Alive /\ cleanup[s] # "done" /\ finalize[s] # "running"
    /\ finalize' = [finalize EXCEPT ![s] = "running"]
    /\ UNCHANGED <<phase, connection, cleanup, sync, timedOut, missed>>

\* The socket is destroyed, of the client's own or because it was closed.
Destroyed(s) ==
    /\ Alive /\ connection[s] \in {"open", "closing"}
    /\ connection' = [connection EXCEPT ![s] = "destroyed"]
    /\ UNCHANGED <<phase, cleanup, finalize, sync, timedOut, missed>>

\* The close event: cleanup() begins.
Closes(s) ==
    /\ Alive /\ connection[s] = "destroyed"
    /\ connection' = [connection EXCEPT ![s] = "closed"]
    /\ cleanup' = [cleanup EXCEPT ![s] = "running"]
    /\ missed' = IF phase \in {"draining", "flushing"} THEN missed \cup {s} ELSE missed
    /\ UNCHANGED <<phase, finalize, sync, timedOut>>

\* cleanup() ends; what the session has of a transcript is sent to the brain in the
\* background.
CleanedUp(s) ==
    /\ Alive /\ cleanup[s] = "running"
    /\ cleanup' = [cleanup EXCEPT ![s] = "done"]
    /\ \/ sync' = [sync EXCEPT ![s] = "running"]
       \/ UNCHANGED sync
    /\ UNCHANGED <<phase, connection, finalize, timedOut, missed>>

FinalizeEnds(s) ==
    /\ Alive /\ finalize[s] = "running"
    /\ finalize' = [finalize EXCEPT ![s] = "done"]
    /\ UNCHANGED <<phase, connection, cleanup, sync, timedOut, missed>>

SyncEnds(s) ==
    /\ Alive /\ sync[s] = "running"
    /\ sync' = [sync EXCEPT ![s] = "done"]
    /\ UNCHANGED <<phase, connection, cleanup, finalize, timedOut, missed>>

-----------------------------------------------------------------------------
\* shutdown(), up to its first wait.
Signal ==
    /\ phase = "serving"
    /\ phase' = "closing"
    /\ connection' = [s \in Sessions |-> IF connection[s] = "open" THEN "closing"
                                         ELSE connection[s]]
    /\ UNCHANGED <<cleanup, finalize, sync, timedOut, missed>>

\* server.close() is done when no connection is left.
ServerClosed ==
    /\ phase = "closing" /\ \A s \in Sessions : connection[s] \in {"destroyed", "closed"}
    /\ phase' = "draining"
    /\ UNCHANGED <<connection, cleanup, finalize, sync, timedOut, missed>>

\* gracefulShutdown looks again until no task is left, those it did not start with
\* included.
Drained ==
    /\ phase = "draining" /\ InFlight = {}
    /\ phase' = "flushing"
    /\ UNCHANGED <<connection, cleanup, finalize, sync, timedOut, missed>>

DrainTimesOut ==
    /\ phase = "draining"
    /\ timedOut' = TRUE /\ phase' = "flushing"
    /\ UNCHANGED <<connection, cleanup, finalize, sync, missed>>

\* shutdownLangfuse, process.exit(0)
Exit ==
    /\ phase = "flushing"
    /\ phase' = "exited"
    /\ UNCHANGED <<connection, cleanup, finalize, sync, timedOut, missed>>

\* The hard-kill timer.
HardKill ==
    /\ phase \in {"closing", "draining", "flushing"}
    /\ phase' = "killed"
    /\ UNCHANGED <<connection, cleanup, finalize, sync, timedOut, missed>>

Next ==
    \/ \E s \in Sessions :
          \/ TurnEnded(s) \/ Destroyed(s) \/ Closes(s) \/ CleanedUp(s)
          \/ FinalizeEnds(s) \/ SyncEnds(s)
    \/ Signal \/ ServerClosed \/ Drained \/ DrainTimesOut \/ Exit \/ HardKill

\* The timer runs; nothing else is sure to happen.
Fairness == WF_processVars(HardKill)

Spec == Init /\ [][Next]_processVars /\ Fairness

-----------------------------------------------------------------------------
\* Unless its time is up, the process does not end in the middle of a cleanup(), of
\* the transcript that one hands over when it is done, or of a recording: they are
\* drained one after the other.  It misses only a session whose close event comes
\* when the server has already counted its last connection as closed.
DrainedBeforeExit ==
    phase \in {"flushing", "exited"} /\ ~timedOut
        => \A s \in Sessions \ missed :
              /\ "running" \notin {cleanup[s], sync[s]}
              /\ connection[s] = "closed" => cleanup[s] = "done"

\* A process that was told to end ends, though a client never closes its side.
ShutdownEnds == phase = "closing" ~> phase \in {"exited", "killed"}
=============================================================================
