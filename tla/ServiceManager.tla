--------------------------- MODULE ServiceManager ---------------------------
(***************************************************************************)
(* The bundled services of the Desktop: ServiceManager                     *)
(* (services/service-manager.ts) with the calls the application makes of   *)
(* it -- one start of each service in the boot sequence (index.ts,         *)
(* relay-server.ts), restarts whenever a key or the defaults change, and   *)
(* stopAll when the application quits.                                     *)
(*                                                                         *)
(* A child process is live until it is signalled, then leaving, then       *)
(* exited; its exit event is handled later ("over").                       *)
(***************************************************************************)
EXTENDS Naturals, Sequences

CONSTANTS
    Services,       \* bundled services, in the order they are booted
    Children,       \* child processes; one that is over may stand for a new one
    NoChild,
    MaxRestarts     \* bound: restarts the user asks for

VARIABLES
    status,         \* status of each service; "idle" when it has no entry
    current,        \* state.child of each service's entry
    child,          \* life of each process
    owner,          \* the service a process was spawned for
    checking,       \* processes whose start() waits in waitForHealthy
    probed,         \* those of them whose health is being asked for (probeHealth)
    booting,        \* index of the service the boot sequence is at; 0: stopped early
    bootChild,      \* the process the boot sequence's start() waits for
    queue,          \* restartChain: services, the head being restarted
    leaving,        \* what the head of the chain waits for
    restarts,       \* number of restarts asked for
    quitting,       \* will-quit came
    speaker,        \* history: the process the status of each service was last set for
    unseen          \* history: processes whose exit came while they were probed

serviceVars == <<status, current, child, owner, checking, probed, booting, bootChild, queue, leaving,
                 restarts, quitting, speaker, unseen>>

Statuses == {"idle", "starting", "running", "crashed", "failed", "stopped"}
Waits == {"none", "exit", "start"}

ServiceTypeOK ==
    /\ status \in [DOMAIN Services -> Statuses]
    /\ current \in [DOMAIN Services -> Children \cup {NoChild}]
    /\ child \in [Children -> {"unused", "live", "leaving", "exited", "over"}]
    /\ owner \in [Children -> DOMAIN Services]
    /\ probed \subseteq checking /\ checking \subseteq Children
    /\ booting \in 0..(Len(Services) + 1) /\ bootChild \in Children \cup {NoChild}
    /\ queue \in Seq(DOMAIN Services) /\ leaving \in Waits
    /\ restarts \in 0..MaxRestarts
    /\ quitting \in BOOLEAN
    /\ speaker \in [DOMAIN Services -> Children \cup {NoChild}] /\ unseen \subseteq Children

Init ==
    /\ status = [s \in DOMAIN Services |-> "idle"]
    /\ current = [s \in DOMAIN Services |-> NoChild]
    /\ child = [k \in Children |-> "unused"]
    /\ owner = [k \in Children |-> 1]
    /\ checking = {} /\ probed = {} /\ booting = 1 /\ bootChild = NoChild
    /\ queue = <<>> /\ leaving = "none" /\ restarts = 0 /\ quitting = FALSE
    /\ speaker = current /\ unseen = {}

-----------------------------------------------------------------------------
\* setStatus names the service, not the process k that it is called for.
SetStatus(s, k, value) ==
    /\ status' = [status EXCEPT ![s] = value]
    /\ speaker' = [speaker EXCEPT ![s] = k]

\* start(): a new entry, a new process, and the first question for its health.
StartChild(s, k) ==
    /\ child[k] \in {"unused", "over"} /\ k \notin checking
    /\ \A other \in DOMAIN Services \ {s} : current[other] # k
    /\ SetStatus(s, k, "starting")
    /\ current' = [current EXCEPT ![s] = k]
    /\ child' = [child EXCEPT ![k] = "live"]
    /\ owner' = [owner EXCEPT ![k] = s]
    /\ checking' = checking \cup {k} /\ probed' = probed \cup {k}
    /\ unseen' = unseen \ {k}

\* The boot sequence starts the next service.
Boot(k) ==
    /\ booting \in DOMAIN Services /\ bootChild = NoChild /\ ~quitting
    /\ IF status[booting] = "running"
          THEN /\ booting' = booting + 1
               /\ UNCHANGED <<status, current, child, owner, checking, probed, bootChild, speaker, unseen>>
          ELSE /\ StartChild(booting, k)
               /\ bootChild' = k
               /\ UNCHANGED booting
    /\ UNCHANGED <<queue, leaving, restarts, quitting>>

\* waitForHealthy looks for an exit before it asks again, and not after the answer.
Probe(k) ==
    /\ k \in checking \ probed /\ child[k] # "over" /\ ~quitting
    /\ probed' = probed \cup {k}
    /\ UNCHANGED <<status, current, child, owner, checking, booting, bootChild, queue, leaving, restarts,
                   quitting, speaker, unseen>>

\* Mutant: the exit is not looked for.
ProbeBlindly(k) ==
    /\ k \in checking \ probed /\ ~quitting
    /\ probed' = probed \cup {k}
    /\ UNCHANGED <<status, current, child, owner, checking, booting, bootChild, queue, leaving, restarts,
                   quitting, speaker, unseen>>

\* Refused, timed out, or not 200: asked again after a pause.
ProbeFails(k) ==
    /\ k \in probed /\ ~quitting
    /\ probed' = probed \ {k}
    /\ UNCHANGED <<status, current, child, owner, checking, booting, bootChild, queue, leaving, restarts,
                   quitting, speaker, unseen>>

\* waitForHealthy returns: a probe was answered, whatever became of the process
\* since it was sent, or the deadline or an exit was seen between two probes.  The
\* caller -- the boot sequence, which goes on whatever it finds of an earlier
\* service but stops at a failed Relay, the last one, or the head of the chain --
\* continues.
CheckEnds(k, healthy) ==
    LET s == owner[k]
        now == IF healthy THEN "running" ELSE "failed"
    IN /\ k \in checking /\ (k \in probed <=> healthy) /\ ~quitting
       /\ checking' = checking \ {k} /\ probed' = probed \ {k}
       /\ SetStatus(s, k, now)
       /\ child' = [child EXCEPT ![k] = IF ~healthy /\ @ = "live" THEN "leaving" ELSE @]
       /\ IF bootChild = k
             THEN /\ bootChild' = NoChild
                  /\ booting' = IF s = Len(Services) /\ ~healthy THEN 0 ELSE booting + 1
             ELSE UNCHANGED <<bootChild, booting>>
       /\ IF leaving = "start" /\ current[Head(queue)] = k
             THEN queue' = Tail(queue) /\ leaving' = "none"
             ELSE UNCHANGED <<queue, leaving>>
       /\ UNCHANGED <<current, owner, restarts, quitting, unseen>>

\* restart(): queued behind the restarts before it.
AskRestart(s) ==
    /\ restarts < MaxRestarts /\ ~quitting
    /\ restarts' = restarts + 1
    /\ queue' = Append(queue, s)
    /\ UNCHANGED <<status, current, child, owner, checking, probed, booting, bootChild, leaving, quitting,
                   speaker, unseen>>

Signalled(k) == [child EXCEPT ![k] = IF @ = "live" THEN "leaving" ELSE @]

\* The restart's turn: a service without an entry is left alone; another is
\* stopped, and the exit of its process awaited.
RestartStops ==
    /\ queue # <<>> /\ leaving = "none" /\ ~quitting
    /\ LET s == Head(queue)
       IN IF status[s] = "idle"
             THEN /\ queue' = Tail(queue)
                  /\ UNCHANGED <<status, child, leaving, speaker>>
             ELSE /\ SetStatus(s, current[s], "stopped")
                  /\ child' = Signalled(current[s])
                  /\ leaving' = "exit"
                  /\ UNCHANGED queue
    /\ UNCHANGED <<current, owner, checking, probed, booting, bootChild, restarts, quitting, unseen>>

\* The chain goes on in the turn of the event loop that handled the exit.
GoesOn == leaving = "exit" /\ ~quitting /\ child[current[Head(queue)]] = "over"

RestartStarts(k) ==
    /\ GoesOn
    /\ StartChild(Head(queue), k)
    /\ leaving' = "start"
    /\ UNCHANGED <<booting, bootChild, queue, restarts, quitting>>

\* A process ends by itself, or of the signal.
ChildExits(k) ==
    /\ child[k] \in {"live", "leaving"}
    /\ child' = [child EXCEPT ![k] = "exited"]
    /\ UNCHANGED <<status, current, owner, checking, probed, booting, bootChild, queue, leaving, restarts,
                   quitting, speaker, unseen>>

\* Mutant: the exit of a process is not listened to.
ExitUnseen(s, k) == UNCHANGED <<status, speaker>>

\* The exit event: a crash, unless the service was stopped meanwhile.
MarkCrashed(s, k) ==
    IF status[s] = "stopped" THEN UNCHANGED <<status, speaker>> ELSE SetStatus(s, k, "crashed")

\* The exit event comes before anybody who waits for the exit goes on.
ExitEvent(k) ==
    /\ child[k] = "exited"
    /\ child' = [child EXCEPT ![k] = "over"]
    /\ MarkCrashed(owner[k], k)
    /\ unseen' = unseen \cup ({k} \cap probed)
    /\ UNCHANGED <<current, owner, checking, probed, booting, bootChild, queue, leaving, restarts, quitting>>

\* will-quit: stopAll.
Quit ==
    /\ ~quitting
    /\ quitting' = TRUE
    /\ status' = [s \in DOMAIN Services |-> IF status[s] = "idle" THEN "idle" ELSE "stopped"]
    /\ child' = [k \in Children |->
          IF child[k] = "live" /\ \E s \in DOMAIN Services : current[s] = k THEN "leaving" ELSE child[k]]
    /\ speaker' = current
    /\ UNCHANGED <<current, owner, checking, probed, booting, bootChild, queue, leaving, restarts, unseen>>

Next ==
    \/ \E k \in Children : RestartStarts(k)
    \/ /\ ~GoesOn
       /\ \/ RestartStops \/ Quit
          \/ \E s \in DOMAIN Services : AskRestart(s)
          \/ \E k \in Children :
                \/ Boot(k) \/ Probe(k) \/ ProbeFails(k) \/ ChildExits(k) \/ ExitEvent(k)
                \/ \E healthy \in BOOLEAN : CheckEnds(k, healthy)

Spec == Init /\ [][Next]_serviceVars

-----------------------------------------------------------------------------
\* Properties.

Alive(s) == {k \in Children : owner[k] = s /\ child[k] \in {"live", "leaving"}}

\* However restarts are piled up, a service never has two processes ("never
\* spawn two children at once", service-manager.ts:125), and after will-quit
\* every process that is left has been signalled.
OneChild ==
    /\ \A s \in DOMAIN Services : \A k, other \in Alive(s) : k = other
    /\ quitting => \A k \in Children : child[k] # "live"

\* When nothing is under way, a status that was last set for the service's own
\* process is the truth about it: a process that is there is said to run, and one
\* that is said to run is there -- or its exit came while it was probed, whose late
\* answer start() takes for health without looking again (service-manager.ts:97-106,
\* 181-188).  The other false status is the one set by a start() whose process a
\* restart has replaced: then speaker and current differ.
StatusIsTrue ==
    (checking = {} /\ queue = <<>> /\ ~quitting
        /\ \A k \in Children : child[k] \notin {"leaving", "exited"})
    => \A s \in DOMAIN Services : speaker[s] = current[s] =>
          /\ Alive(s) # {} => status[s] = "running"
          /\ status[s] = "running" => Alive(s) # {} \/ current[s] \in unseen

=============================================================================
