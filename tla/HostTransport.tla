---------------------------- MODULE HostTransport ----------------------------
(***************************************************************************)
(* The Desktop end of the Host connection: DesktopHostRuntime              *)
(* (host-transport.ts) with the start sequence the application gives it    *)
(* (ipc-handlers.ts).  Desktop's main process is one Node.js process, so a *)
(* handler is one action, and an action ends where the code awaits.        *)
(*                                                                         *)
(* The Relay end is external here: it reads readiness reports in the order *)
(* of a connection, answers them or closes the connection, and forgets a   *)
(* Host's readiness with the connection it counts as current (HostGateway  *)
(* is its model).                                                          *)
(***************************************************************************)
EXTENDS Naturals, Sequences, FiniteSets

CONSTANTS
    Ports,        \* socket objects; a closed one may be used for a later connection
    Configured,   \* bindings with a stored native provider configuration
    NoPort

ASSUME TransportAssumption == IsFiniteSet(Configured) /\ NoPort \notin Ports

VARIABLES
    life,         \* #state
    starter,      \* where the call of start() stands
    stopper,      \* where the call of stop() stands
    raced,        \* history: stop() was called while start() was under way
    overtaken,    \* history: sockets stop() found opening, and those a user opened later
    socket,       \* #socket
    port,         \* life cycle of each socket object, on the Host's side
    opener,       \* who awaits the open event: "start", "timer", "user"
    reconnect,    \* #reconnectTimer is set
    reachable,    \* #localConnection or #remoteUrl is set
    attached,     \* history: a connection has been open
    unreported,   \* bindings the start sequence still has to report
    pendingReadiness, \* #pendingReadiness, with the socket of each report
    accepted,     \* #acceptedReadiness
    strays,       \* history: bindings accepted on a socket already replaced
    wire,         \* reports on their way to the Relay, per socket
    answers,      \* host.readiness.accepted frames on their way back
    peer,         \* life cycle of each socket, on the Relay's side
    relaySocket,  \* the socket the Relay counts as the Host's current one
    held          \* the readiness the Relay holds for each binding

stopVars == <<stopper, raced, overtaken>>
hostVars == <<life, starter, unreported, stopVars>>
linkVars == <<socket, port, opener, reconnect, reachable, attached>>
reportVars == <<pendingReadiness, accepted, strays>>
relayVars == <<wire, answers, peer, relaySocket, held>>
transportVars == <<life, starter, stopper, raced, overtaken, socket, port, opener, reconnect, reachable,
                   attached, unreported, pendingReadiness, accepted, strays, wire, answers, peer, relaySocket, held>>

Unknown == "unknown"
Readiness == {"ready", "unready"}
Reports == [binding : Configured, value : Readiness]

TransportTypeOK ==
    /\ life \in {"idle", "starting", "running", "stopping", "stopped", "failed"}
    /\ starter \in {"none", "loading", "opening", "reporting", "awaiting", "over"}
    /\ stopper \in {"none", "stopping", "over"} /\ raced \in BOOLEAN /\ overtaken \subseteq Ports
    /\ socket \in Ports \cup {NoPort}
    /\ port \in [Ports -> {"unused", "opening", "open", "closing", "closed"}]
    /\ opener \in [Ports -> {"none", "start", "timer", "user"}]
    /\ reconnect \in BOOLEAN /\ reachable \in BOOLEAN /\ attached \in BOOLEAN
    /\ unreported \subseteq Configured
    /\ pendingReadiness \in Seq([binding : Configured, value : Readiness, socket : Ports])
    /\ accepted \in [Configured -> Readiness \cup {Unknown}]
    /\ strays \subseteq Configured
    /\ wire \in [Ports -> Seq(Reports)] /\ answers \in [Ports -> Seq(Configured)]
    /\ peer \in [Ports -> {"none", "open", "closed"}]
    /\ relaySocket \in Ports \cup {NoPort}
    /\ held \in [Configured -> Readiness \cup {Unknown}]

Init ==
    /\ life = "idle" /\ starter = "none" /\ unreported = {}
    /\ stopper = "none" /\ raced = FALSE /\ overtaken = {}
    /\ socket = NoPort
    /\ port = [p \in Ports |-> "unused"]
    /\ opener = [p \in Ports |-> "none"]
    /\ reconnect = FALSE /\ reachable = FALSE /\ attached = FALSE
    /\ pendingReadiness = <<>>
    /\ accepted = [b \in Configured |-> Unknown]
    /\ strays = {}
    /\ wire = [p \in Ports |-> <<>>] /\ answers = [p \in Ports |-> <<>>]
    /\ peer = [p \in Ports |-> "none"]
    /\ relaySocket = NoPort
    /\ held = [b \in Configured |-> Unknown]

-----------------------------------------------------------------------------
\* createSocket: a socket object nothing refers to any more stands for a new one.
Free(p) ==
    /\ port[p] \in {"unused", "closed"}
    /\ peer[p] # "open"
    /\ wire[p] = <<>>

OpenFor(p, who) ==
    /\ Free(p)
    /\ overtaken' = IF who = "user" /\ stopper # "none" THEN overtaken \cup {p} ELSE overtaken \ {p}
    /\ port' = [port EXCEPT ![p] = "opening"]
    /\ opener' = [opener EXCEPT ![p] = who]
    /\ reachable' = TRUE

\* start(): configuration and contributions are loaded first.
Start ==
    /\ life \notin {"running", "starting"} /\ starter = "none"
    /\ life' = "starting" /\ starter' = "loading"
    /\ UNCHANGED <<unreported, stopVars, linkVars, reportVars, relayVars>>

\* loadContributions returned: connectHost opens the connection; without a
\* bundled Relay and a remote address there is nothing to connect to.
Loaded ==
    /\ starter = "loading"
    /\ \/ /\ \E p \in Ports : OpenFor(p, "start")
          /\ starter' = "opening"
          /\ UNCHANGED life
       \/ /\ life' = "running" /\ starter' = "over"
          /\ UNCHANGED <<port, opener, reachable, overtaken>>
    /\ UNCHANGED <<unreported, stopper, raced, socket, reconnect, attached, reportVars, relayVars>>

\* loadContributions throws.
LoadFails ==
    /\ starter = "loading"
    /\ life' = "failed" /\ starter' = "over"
    /\ UNCHANGED <<unreported, stopVars, linkVars, reportVars, relayVars>>

\* storeRemoteCredential's continuation: the user enrolled, so connectRemote runs.
ConnectRemote(p) ==
    /\ \A q \in Ports : opener[q] # "user"
    /\ OpenFor(p, "user")
    /\ UNCHANGED <<life, starter, unreported, stopper, raced, socket, reconnect, attached, reportVars, relayVars>>

\* #replayReadiness: every accepted report is sent again.
ReplayReadiness(p) ==
    \E order \in [1..Cardinality({b \in Configured : accepted[b] # Unknown}) ->
                     {b \in Configured : accepted[b] # Unknown}] :
        /\ \A i, j \in DOMAIN order : order[i] = order[j] => i = j
        /\ wire' = [wire EXCEPT ![p] =
              [i \in DOMAIN order |-> [binding |-> order[i], value |-> accepted[order[i]]]]]

\* Mutant: the previous socket stays open beside the new one.
AdoptBeside(p) ==
    /\ port' = [port EXCEPT ![p] = "open"]
    /\ socket' = p

\* The open event: the new socket replaces the previous one, which is closed.
Adopt(p) ==
    /\ port' = [q \in Ports |->
                   IF q = p THEN "open"
                   ELSE IF q = socket /\ port[q] = "open" THEN "closing"
                   ELSE port[q]]
    /\ socket' = p

Opened(p) ==
    /\ port[p] = "opening"
    /\ Adopt(p)
    /\ ReplayReadiness(p)
    /\ answers' = [answers EXCEPT ![p] = <<>>]
    /\ peer' = [peer EXCEPT ![p] = "open"]
    /\ relaySocket' = p
    /\ IF opener[p] = "start"
          THEN starter' = "reporting" /\ unreported' = Configured
          ELSE UNCHANGED <<starter, unreported>>
    /\ opener' = [opener EXCEPT ![p] = "none"]
    /\ strays' = {} /\ attached' = TRUE
    /\ UNCHANGED <<life, stopVars, reconnect, reachable, pendingReadiness, accepted, held>>

\* Mutant: only a runtime whose start is over reconnects.
ScheduleIfRunning == reconnect' = (reconnect \/ (life = "running" /\ reachable))

\* Mutant: the state is not looked at.
ScheduleStopped == reconnect' = (reconnect \/ reachable)

\* #scheduleReconnect
ScheduleReconnect ==
    reconnect' = (reconnect \/ (life \notin {"stopping", "stopped"} /\ reachable))

\* The error event instead: start() fails, a timed attempt is scheduled again,
\* and a user is told.
OpenFails(p) ==
    /\ port[p] = "opening"
    /\ port' = [port EXCEPT ![p] = "closed"]
    /\ IF opener[p] = "timer" THEN ScheduleReconnect ELSE UNCHANGED reconnect
    /\ IF opener[p] = "start"
          THEN life' = "failed" /\ starter' = "over"
          ELSE UNCHANGED <<life, starter>>
    /\ opener' = [opener EXCEPT ![p] = "none"]
    /\ UNCHANGED <<unreported, stopVars, socket, reachable, attached, reportVars, relayVars>>

\* The timer fires: #reconnectTimer is cleared and the connection opened again.
TimerFires ==
    /\ reconnect
    /\ \E p \in Ports : OpenFor(p, "timer")
    /\ reconnect' = FALSE
    /\ UNCHANGED <<life, starter, unreported, stopper, raced, socket, attached, reportVars, relayVars>>

-----------------------------------------------------------------------------
\* The start sequence detects a binding's executable and reports it; without a
\* socket the report throws, which ends the reporting and not the start.
Report(b, value) ==
    /\ starter = "reporting" /\ b \in unreported
    /\ IF socket = NoPort
          THEN /\ life' = "running" /\ starter' = "over"
               /\ UNCHANGED <<pendingReadiness, wire, unreported>>
          ELSE /\ pendingReadiness' = Append(pendingReadiness,
                     [binding |-> b, value |-> value, socket |-> socket])
               /\ wire' = IF port[socket] = "open"
                             THEN [wire EXCEPT ![socket] =
                                      Append(@, [binding |-> b, value |-> value])]
                             ELSE wire
               /\ starter' = "awaiting" /\ unreported' = unreported \ {b}
               /\ UNCHANGED life
    /\ UNCHANGED <<stopVars, linkVars, accepted, strays, answers, peer, relaySocket, held>>

\* All bindings are reported: start() returns.
Started ==
    /\ starter = "reporting" /\ unreported = {}
    /\ life' = "running" /\ starter' = "over"
    /\ UNCHANGED <<unreported, stopVars, linkVars, reportVars, relayVars>>

\* A host.readiness.accepted frame settles the first report of its binding.
ReadinessAccepted(p) ==
    /\ port[p] \in {"open", "closing"} /\ answers[p] # <<>>
    /\ answers' = [answers EXCEPT ![p] = Tail(@)]
    /\ LET b == Head(answers[p])
           matching == {i \in DOMAIN pendingReadiness : pendingReadiness[i].binding = b}
       IN IF matching = {}
             THEN UNCHANGED <<reportVars, starter>>
             ELSE LET first == CHOOSE i \in matching : \A j \in matching : i <= j
                  IN /\ pendingReadiness' = SubSeq(pendingReadiness, 1, first - 1)
                                      \o SubSeq(pendingReadiness, first + 1, Len(pendingReadiness))
                     /\ accepted' = [accepted EXCEPT ![b] = pendingReadiness[first].value]
                     /\ strays' = IF p = socket THEN strays ELSE strays \cup {b}
                     /\ starter' = IF starter = "awaiting" THEN "reporting" ELSE starter
    /\ UNCHANGED <<life, unreported, stopVars, linkVars, wire, peer, relaySocket, held>>

\* A frame that fails -- malformed, unknown, or an invocation that throws --
\* closes the socket it came on; so may the network at any time.
PortBreaks(p) ==
    /\ port[p] = "open"
    /\ port' = [port EXCEPT ![p] = "closing"]
    /\ UNCHANGED <<hostVars, socket, opener, reconnect, reachable, attached, reportVars, relayVars>>

\* Every report that waits is rejected, of whichever socket; a rejected report
\* ends the reporting, and the start sequence carries on.
RejectReports(p) ==
    /\ pendingReadiness' = <<>>
    /\ IF starter = "awaiting" /\ pendingReadiness # <<>>
          THEN life' = "running" /\ starter' = "over"
          ELSE UNCHANGED <<life, starter>>

\* The close event.
PortClosed(p) ==
    /\ port[p] = "closing"
    /\ port' = [port EXCEPT ![p] = "closed"]
    /\ answers' = [answers EXCEPT ![p] = <<>>]
    /\ RejectReports(p)
    /\ IF socket = p
          THEN socket' = NoPort /\ ScheduleReconnect
          ELSE UNCHANGED <<socket, reconnect>>
    /\ UNCHANGED <<unreported, stopVars, opener, reachable, attached, accepted, strays, wire, peer,
                   relaySocket, held>>

\* stop(): the timer is cleared and the socket closed; then the contributions
\* and the processes are awaited.
Stop ==
    /\ stopper = "none"
    /\ life = "idle" => socket # NoPort \/ reconnect
    /\ stopper' = "stopping" /\ life' = "stopping"
    /\ raced' = (starter # "over") /\ overtaken' = {p \in Ports : port[p] = "opening"}
    /\ reconnect' = FALSE
    /\ port' = IF socket = NoPort \/ port[socket] # "open" THEN port
               ELSE [port EXCEPT ![socket] = "closing"]
    /\ socket' = NoPort
    /\ UNCHANGED <<starter, unreported, opener, reachable, attached, reportVars, relayVars>>

Stopped ==
    /\ stopper = "stopping"
    /\ stopper' = "over" /\ life' = "stopped"
    /\ UNCHANGED <<starter, unreported, raced, overtaken, linkVars, reportVars, relayVars>>

-----------------------------------------------------------------------------
\* The Relay reads a report: it holds it and answers, or closes the connection.
RelayReads(p) ==
    /\ peer[p] = "open" /\ wire[p] # <<>>
    /\ wire' = [wire EXCEPT ![p] = Tail(@)]
    /\ held' = [held EXCEPT ![Head(wire[p]).binding] = Head(wire[p]).value]
    /\ answers' = IF port[p] \in {"open", "closing"}
                     THEN [answers EXCEPT ![p] = Append(@, Head(wire[p]).binding)]
                     ELSE answers
    /\ UNCHANGED <<hostVars, linkVars, reportVars, peer, relaySocket>>

\* The Relay's close event: the current connection takes the readiness with it.
RelayClosed(p) ==
    /\ peer[p] = "open" /\ port[p] # "open"
    /\ peer' = [peer EXCEPT ![p] = "closed"]
    /\ wire' = [wire EXCEPT ![p] = <<>>]
    /\ IF relaySocket = p
          THEN relaySocket' = NoPort /\ held' = [b \in Configured |-> Unknown]
          ELSE UNCHANGED <<relaySocket, held>>
    /\ UNCHANGED <<hostVars, linkVars, reportVars, answers>>

Relay == \E p \in Ports : RelayReads(p) \/ RelayClosed(p)

Next ==
    \/ Start \/ Loaded \/ LoadFails \/ Started \/ Stop \/ Stopped \/ TimerFires
    \/ \E b \in Configured, v \in Readiness : Report(b, v)
    \/ \E p \in Ports :
          \/ ConnectRemote(p) \/ Opened(p) \/ OpenFails(p)
          \/ ReadinessAccepted(p) \/ PortBreaks(p) \/ PortClosed(p)
    \/ Relay

\* Timers fire, close events come, an address that keeps being tried answers at
\* last, and the Relay reads what it was sent.
Fairness ==
    /\ WF_transportVars(TimerFires)
    /\ WF_transportVars(Relay)
    /\ \A p \in Ports :
          /\ WF_transportVars(PortClosed(p))
          /\ WF_transportVars(OpenFails(p))
          /\ SF_transportVars(Opened(p))
          /\ WF_transportVars(ReadinessAccepted(p))

Spec == Init /\ [][Next]_transportVars /\ Fairness

-----------------------------------------------------------------------------
\* Properties.

\* A Host is heard on one connection: every socket that was opened and not
\* closed again is the runtime's current one, whatever opens raced.
OneLiveSocket ==
    \A p \in Ports : port[p] = "open" => p = socket

\* No report is left waiting for an answer that cannot come: its socket has not
\* had its close event (host-transport.ts:306 rejects the reports there).
NoReportForgotten ==
    \A i \in DOMAIN pendingReadiness : port[pendingReadiness[i].socket] # "closed"

\* After a stop() of a started Host no reconnect is scheduled, however close events and
\* failed attempts follow it (#scheduleReconnect's check of the state), and no socket
\* opens or is open but for two that stop() does not see: one whose open was under way,
\* which becomes the current one all the same (#openRemoteSocket does not look at the
\* state again, host-transport.ts:270-276), and one a user opens later.
StopIsKept ==
    life \in {"stopping", "stopped"} /\ ~raced =>
        /\ ~reconnect
        /\ \A p \in Ports : port[p] \in {"opening", "open"} => p \in overtaken

\* When nothing is on its way, the Relay holds the readiness that the Host
\* would replay to it.  An answer read from a socket that was already replaced
\* comes too late for the replay, and is the one exception: that binding waits
\* for the next connection.
AcceptedIsHeld ==
    (/\ socket # NoPort /\ port[socket] = "open" /\ peer[socket] = "open"
     /\ \A p \in Ports : wire[p] = <<>> /\ answers[p] = <<>>
     /\ pendingReadiness = <<>>)
    => \A b \in Configured \ strays : accepted[b] # Unknown => held[b] = accepted[b]

\* The Host is heard on one connection, and a stopped Host on none but one that stop()
\* overtook or a user opened.  A readiness report is answered or rejected, and what was
\* accepted is held by the Relay, over however many connections.
HostLinkAccounted ==
    /\ TransportTypeOK
    /\ OneLiveSocket /\ StopIsKept
    /\ NoReportForgotten /\ AcceptedIsHeld

\* A Host that lost its connection gets one again, unless it is stopped: a
\* reconnect that fails is tried again, whatever opens and closes overlap it.
HostComesBack ==
    (attached /\ stopper = "none" /\ socket = NoPort)
        ~> (socket # NoPort \/ stopper # "none")
=============================================================================
