----------------------------- MODULE HostGateway -----------------------------
(***************************************************************************)
(* The Relay side of the Desktop Host connection: the WebSocket gateway    *)
(* (websocket-gateways.ts) with the services it calls synchronously from   *)
(* its handlers -- admission (host-connection.ts), Active Host Assignment  *)
(* and its generation (active-assignment.ts), the per-invocation fence     *)
(* (generation-fence.ts) and the disconnect outcome                        *)
(* (disconnect-outcome.ts).                                                *)
(*                                                                         *)
(* The Relay is one Node.js process: a handler runs to completion together *)
(* with the promise continuations it releases, so each handler is one      *)
(* action.  Handlers interleave only where the code waits for real I/O:    *)
(* the two ControlStateStore commits of an upgrade, and network events.    *)
(*                                                                         *)
(* The Host is an open environment: it may send any frame on any socket it *)
(* holds, which is what the gateway's checks are for.                      *)
(***************************************************************************)
EXTENDS Naturals, Sequences

CONSTANTS
    Hosts,          \* Desktop Host identities
    LocalHosts,     \* those admitted by the local bootstrap secret
    Bindings,       \* Logical Provider Bindings (provider and workspace included)
    Sockets,        \* host sockets, one per upgrade request
    Invocations,    \* invocation identities of one Relay lifetime
    None,           \* "no host", "no socket", "no binding"
    MaxSequence,    \* bound: largest sequence number in a host frame
    MaxRestarts     \* bound: how often the Relay process may end

ASSUME NoneAssumption ==
    None \notin Hosts \cup Bindings \cup Sockets
ASSUME LocalAssumption == LocalHosts \subseteq Hosts
ASSUME BoundAssumption == MaxSequence \in Nat \ {0} /\ MaxRestarts \in Nat

VARIABLES
    assigned,     \* durable: the Host of each binding's Active Host Assignment
    generation,   \* durable: the assignment generation of each binding
    connected,    \* DesktopHostConnectionGateway.#connectedHostIds
    readiness,    \* readiness[h][b]: the socket whose "ready" report is held, or None
    commits,      \* ControlStateStore commits in flight, oldest first
    sockState,    \* life cycle of each upgrade request and its socket
    sockHost,     \* the Host Principal of each socket
    current,      \* hostSockets: the socket the gateway sends to
    attempts,     \* attempts and resultAttempts, with what became of each invocation
    restarts      \* how often the process has ended (bounded by MaxRestarts)

durableVars == <<assigned, generation>>
hostVars == <<connected, readiness>>
socketVars == <<sockState, sockHost, current>>
vars == <<assigned, generation, connected, readiness, commits,
          sockState, sockHost, current, attempts, restarts>>

-----------------------------------------------------------------------------
Operations == {"turn.start", "thread.ensure"}
Outcomes == {"none", "refused", "failed", "events", "result",
             "unknown", "rejected", "vanished"}
Events == [sequence : Nat \ {0}, kind : {"output", "terminal"}]

\* One invocation: an entry of `attempts` (turn.start) or of `resultAttempts`
\* (any other operation) while pending, and how its promise was settled after.
\* via and cancelledVia are history: the sockets the request and the last
\* cancellation were written to.
AttemptRecords ==
    [phase : {"idle", "pending", "settled"},
     op : Operations,
     host : Hosts \cup {None},
     binding : Bindings \cup {None},
     generation : Nat,
     dispatched : BOOLEAN,
     via : Sockets \cup {None},
     cancelledVia : Sockets \cup {None},
     events : Seq(Events),
     outcome : Outcomes]

\* An invocation nothing has been done about yet.
Requested(op, b, h, g) ==
    [phase |-> "idle", op |-> op, host |-> h, binding |-> b, generation |-> g,
     dispatched |-> FALSE, via |-> None, cancelledVia |-> None,
     events |-> <<>>, outcome |-> "none"]

IdleAttempt == Requested("turn.start", None, None, 0)

\* A commit of an upgrade: "activity" is admit's lastActivityAt commit,
\* "reconnect" the generation commit of authoritativeReconnect.
Commits == [op : {"activity", "reconnect"}, socket : Sockets]

TypeOK ==
    /\ assigned \in [Bindings -> Hosts \cup {None}]
    /\ generation \in [Bindings -> Nat]
    /\ connected \subseteq Hosts
    /\ readiness \in [Hosts -> [Bindings -> Sockets \cup {None}]]
    /\ commits \in Seq(Commits)
    /\ sockState \in [Sockets -> {"unused", "admitting", "reconnecting",
                                  "open", "closing", "closed"}]
    /\ sockHost \in [Sockets -> Hosts \cup {None}]
    /\ \A s \in Sockets : sockState[s] # "unused" => sockHost[s] \in Hosts
    /\ current \in [Hosts -> Sockets \cup {None}]
    /\ attempts \in [Invocations -> AttemptRecords]
    /\ restarts \in 0..MaxRestarts

-----------------------------------------------------------------------------
Pending(i) == attempts[i].phase = "pending"

\* ActiveHostAssignmentService.inspect: the status of an existing assignment.
Status(b) ==
    IF assigned[b] \notin connected THEN "offline"
    ELSE IF readiness[assigned[b]][b] # None THEN "ready"
    ELSE "unready"

MatchesAssignment(b, h, g) == assigned[b] = h /\ generation[b] = g

HasAssignment(h) == \E b \in Bindings : assigned[b] = h

\* A socket frames can be exchanged on: ws delivers frames that arrive
\* between its own close() and the peer's close frame.
Readable(s) == sockState[s] \in {"open", "closing"}

\* socket.close(...): a closing handshake starts, the `close` event comes later.
Closing(s) == [sockState EXCEPT ![s] = "closing"]

\* hostSockets.get(h) exists and its readyState is OPEN.
Reachable(h) == current[h] # None /\ sockState[current[h]] = "open"

LastSequence(events) ==
    IF events = <<>> THEN 0 ELSE events[Len(events)].sequence

Terminal(n) == [sequence |-> n, kind |-> "terminal"]

Settle(attempt, outcome) ==
    [attempt EXCEPT !.phase = "settled", !.outcome = outcome]

\* Mutant: the terminal event is numbered one too low.
DisconnectedNumberedLow(attempt) ==
    Settle([attempt EXCEPT !.events = Append(@, Terminal(Len(@)))],
           IF attempt.dispatched THEN "unknown" ELSE "failed")

\* HostInvocationAttempt.disconnect: the terminal event follows the accepted
\* public events; "unknown" once the request was written, "failed" before.
Disconnected(attempt) ==
    Settle([attempt EXCEPT !.events = Append(@, Terminal(Len(@) + 1))],
           IF attempt.dispatched THEN "unknown" ELSE "failed")

-----------------------------------------------------------------------------
Init ==
    /\ assigned \in [Bindings -> Hosts \cup {None}]
    /\ generation = [b \in Bindings |-> IF assigned[b] = None THEN 0 ELSE 1]
    /\ connected = {}
    /\ readiness = [h \in Hosts |-> [b \in Bindings |-> None]]
    /\ commits = <<>>
    /\ sockState = [s \in Sockets |-> "unused"]
    /\ sockHost = [s \in Sockets |-> None]
    /\ current = [h \in Hosts |-> None]
    /\ attempts = [i \in Invocations |-> IdleAttempt]
    /\ restarts = 0

-----------------------------------------------------------------------------
(***************************************************************************)
(* The end of the process: a crash, or an exception thrown in a handler    *)
(* nobody awaits (an unhandled rejection ends Node).  Everything but the   *)
(* control state is lost.  `state` is that control state: a commit may     *)
(* have reached the disk before the end.                                   *)
(***************************************************************************)
ProcessEnds ==
    /\ restarts < MaxRestarts
    /\ restarts' = restarts + 1
    /\ connected' = {}
    /\ readiness' = [h \in Hosts |-> [b \in Bindings |-> None]]
    /\ commits' = <<>>
    /\ sockState' = [s \in Sockets |->
                        IF sockState[s] = "unused" THEN "unused" ELSE "closed"]
    /\ current' = [h \in Hosts |-> None]
    /\ attempts' = [i \in Invocations |->
                        IF Pending(i) THEN Settle(attempts[i], "vanished")
                        ELSE attempts[i]]
    /\ UNCHANGED <<assigned, sockHost>>

\* Mutant: only a Host that was away gets a new generation.
AdvanceIfAway(h) ==
    generation' = [b \in Bindings |->
                      IF assigned[b] = h /\ current[h] = None
                      THEN generation[b] + 1 ELSE generation[b]]

\* The commit of authoritativeReconnect: every assignment of the Host moves on.
AdvanceGeneration(h) ==
    generation' = [b \in Bindings |->
                      IF assigned[b] = h THEN generation[b] + 1 ELSE generation[b]]

\* A crash of the process, possibly right after the oldest commit's rename.
Crash ==
    /\ ProcessEnds
    /\ \/ UNCHANGED generation
       \/ /\ commits # <<>>
          /\ Head(commits).op = "reconnect"
          /\ AdvanceGeneration(sockHost[Head(commits).socket])

-----------------------------------------------------------------------------
\* handleUpgrade's callback: the new socket replaces the Host's previous one,
\* which starts to close.  The invocations sent on that one stay pending.
Attach(s, h) ==
    /\ current' = [current EXCEPT ![h] = s]
    /\ sockState' = [t \in Sockets |->
                        IF t = s THEN "open"
                        ELSE IF t = current[h] /\ sockState[t] = "open" THEN "closing"
                        ELSE sockState[t]]

\* The upgrade completes; a client that left while the Relay waited gets no socket.
FinishUpgrade(s, h) ==
    \/ Attach(s, h)
    \/ sockState' = [sockState EXCEPT ![s] = "closed"] /\ UNCHANGED current

\* After admission: a Host with an assignment first gets a new generation.
\* `rest` is the commit queue the reconnect commit joins.
ReconnectOrFinish(s, h, rest) ==
    \/ /\ HasAssignment(h)
       /\ commits' = Append(rest, [op |-> "reconnect", socket |-> s])
       /\ sockState' = [sockState EXCEPT ![s] = "reconnecting"]
       /\ UNCHANGED current
    \/ /\ ~HasAssignment(h)
       /\ commits' = rest
       /\ FinishUpgrade(s, h)

\* An upgrade request on /host/ws with credentials admit accepts.
Upgrade(s, h) ==
    /\ sockState[s] = "unused"
    /\ sockHost' = [sockHost EXCEPT ![s] = h]
    /\ \/ /\ h \in LocalHosts
          /\ connected' = connected \cup {h}
          /\ ReconnectOrFinish(s, h, commits)
       \/ /\ h \notin LocalHosts
          /\ commits' = Append(commits, [op |-> "activity", socket |-> s])
          /\ sockState' = [sockState EXCEPT ![s] = "admitting"]
          /\ UNCHANGED <<connected, current>>
    /\ UNCHANGED <<durableVars, readiness, attempts, restarts>>

\* admit's commit is on disk: the Host counts as connected from here on.
CommitActivity ==
    /\ commits # <<>>
    /\ Head(commits).op = "activity"
    /\ LET s == Head(commits).socket
           h == sockHost[s]
       IN /\ connected' = connected \cup {h}
          /\ ReconnectOrFinish(s, h, Tail(commits))
    /\ UNCHANGED <<durableVars, readiness, sockHost, attempts, restarts>>

\* The generation commit is on disk, and the upgrade completes.
CommitReconnect ==
    /\ commits # <<>>
    /\ Head(commits).op = "reconnect"
    /\ LET s == Head(commits).socket
           h == sockHost[s]
       IN /\ AdvanceGeneration(h)
          /\ FinishUpgrade(s, h)
    /\ commits' = Tail(commits)
    /\ UNCHANGED <<assigned, hostVars, sockHost, attempts, restarts>>

\* A commit that fails: admit answers 401; the gateway rethrows what
\* authoritativeReconnect throws where nobody catches it.
CommitFails ==
    /\ commits # <<>>
    /\ \/ /\ Head(commits).op = "activity"
          /\ sockState' = [sockState EXCEPT ![Head(commits).socket] = "closed"]
          /\ commits' = Tail(commits)
          /\ UNCHANGED <<durableVars, hostVars, sockHost, current, attempts, restarts>>
       \/ /\ Head(commits).op = "reconnect"
          /\ ProcessEnds
          /\ UNCHANGED generation

\* The peer starts to close, or the transport fails: readyState leaves OPEN
\* before the `close` event.
PeerCloses(s) ==
    /\ sockState[s] = "open"
    /\ sockState' = Closing(s)
    /\ UNCHANGED <<durableVars, hostVars, commits, sockHost, current, attempts, restarts>>

\* The `close` event of a socket that was replaced: the handler returns at once.
ReplacedSocketClosed(s) ==
    /\ Readable(s)
    /\ current[sockHost[s]] # s
    /\ sockState' = [sockState EXCEPT ![s] = "closed"]
    /\ UNCHANGED <<durableVars, hostVars, commits, sockHost, current, attempts, restarts>>

\* Mutant: the close handler forgets the operations other than turns.
AbandonedTurns(h) ==
    [i \in Invocations |->
        IF Pending(i) /\ attempts[i].host = h /\ attempts[i].op = "turn.start"
        THEN Disconnected(attempts[i])
        ELSE attempts[i]]

\* What the close handler leaves of the Host's invocations: each turn ends with
\* the disconnect outcome, each other operation is rejected.
Abandoned(h) ==
    [i \in Invocations |->
        IF ~Pending(i) \/ attempts[i].host # h THEN attempts[i]
        ELSE IF attempts[i].op = "turn.start" THEN Disconnected(attempts[i])
        ELSE Settle(attempts[i], "rejected")]

\* The `close` event of the current socket: the Host's invocations are settled,
\* and the Host is no longer connected nor ready.
CurrentSocketClosed(s) ==
    /\ Readable(s)
    /\ LET h == sockHost[s]
       IN /\ current[h] = s
          /\ current' = [current EXCEPT ![h] = None]
          /\ attempts' = Abandoned(h)
          /\ connected' = connected \ {h}
          /\ readiness' = [readiness EXCEPT ![h] = [b \in Bindings |-> None]]
    /\ sockState' = [sockState EXCEPT ![s] = "closed"]
    /\ UNCHANGED <<durableVars, commits, sockHost, restarts>>

SocketClosed(s) == ReplacedSocketClosed(s) \/ CurrentSocketClosed(s)

\* A host.readiness frame: refused, with the socket closed, from a Host that is
\* not connected; otherwise it replaces the Host's report for the binding.
ReportReadiness(s, b, ready) ==
    /\ Readable(s)
    /\ LET h == sockHost[s]
       IN \/ /\ h \notin connected
             /\ sockState' = Closing(s)
             /\ UNCHANGED readiness
          \/ /\ h \in connected
             /\ readiness' = [readiness EXCEPT ![h][b] = IF ready THEN s ELSE None]
             /\ UNCHANGED sockState
    /\ UNCHANGED <<durableVars, connected, commits, sockHost, current, attempts, restarts>>

-----------------------------------------------------------------------------
\* Mutant: activeForBinding looks at the turns only.
AdmissibleBesideTurns(b, h, g, permitted) ==
    /\ permitted
    /\ assigned[b] # None
    /\ Status(b) # "unready"
    /\ MatchesAssignment(b, h, g)
    /\ \A j \in Invocations :
          Pending(j) /\ attempts[j].op = "turn.start" => attempts[j].binding # b

\* hostControl.invoke passes its checks: the assignment of the binding matches
\* and is not merely unready, the grants and the registered Contributions permit
\* the call (`permitted`), and nothing else is pending for the binding.
Admissible(b, h, g, permitted) ==
    /\ permitted
    /\ assigned[b] # None
    /\ Status(b) # "unready"
    /\ MatchesAssignment(b, h, g)
    /\ \A j \in Invocations : Pending(j) => attempts[j].binding # b

\* The request can be written: a socket in OPEN and a Host that is not offline.
Deliverable(b, h) == Reachable(h) /\ Status(b) # "offline"

\* The call throws before anything is sent.
Refuse(i, op, b, h, g, permitted) ==
    /\ \/ ~Admissible(b, h, g, permitted)
       \/ op # "turn.start" /\ ~Deliverable(b, h)
    /\ attempts' = [attempts EXCEPT ![i] = Settle(Requested(op, b, h, g), "refused")]

\* A turn that cannot be written resolves at once with the disconnect outcome.
FailUndelivered(i, op, b, h, g, permitted) ==
    /\ op = "turn.start"
    /\ Admissible(b, h, g, permitted)
    /\ ~Deliverable(b, h)
    /\ attempts' = [attempts EXCEPT ![i] = Disconnected(Requested(op, b, h, g))]

\* Mutant: markDispatched is forgotten.
DispatchUnmarked(i, op, b, h, g, permitted) ==
    /\ Admissible(b, h, g, permitted)
    /\ Deliverable(b, h)
    /\ attempts' = [attempts EXCEPT ![i] =
                       [Requested(op, b, h, g) EXCEPT
                           !.phase = "pending",
                           !.via = current[h]]]

\* The request is written and the invocation waits for the Host.
Dispatch(i, op, b, h, g, permitted) ==
    /\ Admissible(b, h, g, permitted)
    /\ Deliverable(b, h)
    /\ attempts' = [attempts EXCEPT ![i] =
                       [Requested(op, b, h, g) EXCEPT
                           !.phase = "pending",
                           !.dispatched = TRUE,
                           !.via = current[h]]]

\* One call of hostControl.invoke, with a generation its caller read earlier.
Invoke(i, op, b, h, g, permitted) ==
    /\ attempts[i].phase = "idle"
    /\ g \in 0..generation[b]
    /\ \/ Refuse(i, op, b, h, g, permitted)
       \/ FailUndelivered(i, op, b, h, g, permitted)
       \/ Dispatch(i, op, b, h, g, permitted)
    /\ UNCHANGED <<durableVars, hostVars, commits, socketVars, restarts>>

\* Mutant: the cancellation is not checked against the assignment's generation.
CancelAnyGeneration(i) ==
    /\ Pending(i)
    /\ attempts[i].op = "turn.start"
    /\ LET h == attempts[i].host
       IN /\ Status(attempts[i].binding) = "ready"
          /\ Reachable(h)
          /\ attempts' = [attempts EXCEPT ![i].cancelledVia = current[h]]
    /\ UNCHANGED <<durableVars, hostVars, commits, socketVars, restarts>>

\* hostControl.cancel finds the pending turn of a ready assignment and writes a
\* cancellation frame to the Host's current socket.  The turn stays pending.
Cancel(i) ==
    /\ Pending(i)
    /\ attempts[i].op = "turn.start"
    /\ LET b == attempts[i].binding
           h == attempts[i].host
       IN /\ Status(b) = "ready"
          /\ MatchesAssignment(b, h, attempts[i].generation)
          /\ Reachable(h)
          /\ attempts' = [attempts EXCEPT ![i].cancelledVia = current[h]]
    /\ UNCHANGED <<durableVars, hostVars, commits, socketVars, restarts>>

-----------------------------------------------------------------------------
\* Mutant: a settled invocation is not deleted from its map.
OwnedForever(s, i, op) ==
    /\ attempts[i].phase # "idle"
    /\ attempts[i].op = op
    /\ attempts[i].host = sockHost[s]

\* The frame's invocation is pending and belongs to the socket's Host.
Owned(s, i, op) ==
    /\ Pending(i)
    /\ attempts[i].op = op
    /\ attempts[i].host = sockHost[s]

\* Mutant: the generation is not compared.
FreshHost(i) ==
    /\ Status(attempts[i].binding) = "ready"
    /\ assigned[attempts[i].binding] = attempts[i].host

\* The invocation's assignment is still the one it was dispatched under.
Fresh(i) ==
    /\ Status(attempts[i].binding) = "ready"
    /\ MatchesAssignment(attempts[i].binding, attempts[i].host, attempts[i].generation)

\* A rejected frame rejects the invocation and closes the socket it came on.
RejectFrame(s, i) ==
    /\ attempts' = [attempts EXCEPT ![i] = Settle(@, "rejected")]
    /\ sockState' = Closing(s)

\* Mutant: the last number is accepted once more.
FenceAcceptsAgain(i, n) == n >= LastSequence(attempts[i].events)

\* GenerationStreamFence.accept on an event of the invocation's own generation.
FenceAccepts(i, n) == n > LastSequence(attempts[i].events)

\* Mutant: any number above the last one is taken.
AcceptOutputAfterGap(s, i, n) ==
    /\ attempts' = [attempts EXCEPT ![i].events =
                       Append(@, [sequence |-> n, kind |-> "output"])]
    /\ UNCHANGED sockState

\* An accepted non-terminal event: HostInvocationAttempt insists on the next number.
AcceptOutput(s, i, n) ==
    /\ n = Len(attempts[i].events) + 1
    /\ attempts' = [attempts EXCEPT ![i].events =
                       Append(@, [sequence |-> n, kind |-> "output"])]
    /\ UNCHANGED sockState

\* An accepted terminal event resolves the invocation with its events.
AcceptTerminal(s, i, n) ==
    /\ LET heard == [attempts[i] EXCEPT !.events = Append(@, Terminal(n))]
       IN attempts' = [attempts EXCEPT ![i] = Settle(heard, "events")]
    /\ UNCHANGED sockState

\* A host.invocation.event frame with sequence n; `wellFormed` says whether its
\* identity is the invocation's and its payload passes the output boundary.
HostEvent(s, i, kind, n, wellFormed) ==
    /\ Readable(s)
    /\ \/ /\ ~Owned(s, i, "turn.start")
          /\ sockState' = Closing(s)
          /\ UNCHANGED attempts
       \/ /\ Owned(s, i, "turn.start")
          /\ ~Fresh(i) \/ ~wellFormed \/ ~FenceAccepts(i, n)
          /\ RejectFrame(s, i)
       \/ /\ Owned(s, i, "turn.start")
          /\ Fresh(i) /\ wellFormed /\ FenceAccepts(i, n)
          /\ \/ kind = "output" /\ AcceptOutput(s, i, n)
             \/ kind = "terminal" /\ AcceptTerminal(s, i, n)
    /\ UNCHANGED <<durableVars, hostVars, commits, sockHost, current, restarts>>

\* The fence accepts a gap in the sequence but HostInvocationAttempt throws on
\* it, in a handler nobody awaits.
HostEventGap(s, i, n) ==
    /\ Readable(s)
    /\ Owned(s, i, "turn.start")
    /\ Fresh(i)
    /\ FenceAccepts(i, n)
    /\ n # Len(attempts[i].events) + 1
    /\ ProcessEnds
    /\ UNCHANGED generation

\* A host.invocation.result frame.
HostResult(s, i, wellFormed) ==
    /\ Readable(s)
    /\ \/ /\ ~Owned(s, i, "thread.ensure")
          /\ sockState' = Closing(s)
          /\ attempts' = [attempts EXCEPT ![i] =
                             IF Pending(i) /\ @.op = "thread.ensure"
                             THEN Settle(@, "rejected") ELSE @]
       \/ /\ Owned(s, i, "thread.ensure")
          /\ ~Fresh(i) \/ ~wellFormed
          /\ RejectFrame(s, i)
       \/ /\ Owned(s, i, "thread.ensure")
          /\ Fresh(i) /\ wellFormed
          /\ attempts' = [attempts EXCEPT ![i] = Settle(@, "result")]
          /\ UNCHANGED sockState
    /\ UNCHANGED <<durableVars, hostVars, commits, sockHost, current, restarts>>

\* Any other frame closes its socket.
MalformedFrame(s) ==
    /\ sockState[s] = "open"
    /\ sockState' = Closing(s)
    /\ UNCHANGED <<durableVars, hostVars, commits, sockHost, current, attempts, restarts>>

-----------------------------------------------------------------------------
UpgradeStep == \E s \in Sockets, h \in Hosts : Upgrade(s, h)

CommitStep == CommitActivity \/ CommitReconnect

CloseStep == \E s \in Sockets : PeerCloses(s) \/ SocketClosed(s)

ReadinessStep ==
    \E s \in Sockets, b \in Bindings, ready \in BOOLEAN : ReportReadiness(s, b, ready)

InvokeStep ==
    \E i \in Invocations, op \in Operations, b \in Bindings, h \in Hosts :
        \E g \in 0..generation[b], permitted \in BOOLEAN :
            Invoke(i, op, b, h, g, permitted)

CancelStep == \E i \in Invocations : Cancel(i)

FrameStep ==
    \E s \in Sockets :
        \/ MalformedFrame(s)
        \/ \E i \in Invocations, n \in 1..MaxSequence, wellFormed \in BOOLEAN :
              \/ \E kind \in {"output", "terminal"} : HostEvent(s, i, kind, n, wellFormed)
              \/ HostEventGap(s, i, n)
              \/ HostResult(s, i, wellFormed)

\* Everything the Relay does while its process and its disk are sound.
Handlers ==
    \/ UpgradeStep
    \/ CommitStep
    \/ CloseStep
    \/ ReadinessStep
    \/ InvokeStep
    \/ CancelStep
    \/ FrameStep

Next == Handlers \/ CommitFails \/ Crash

Spec == Init /\ [][Next]_vars

\* Commits finish, closing sockets get their `close` event (ws ends a closing
\* handshake after its timeout), and a Host reports its readiness on the socket
\* it opened (host-transport.ts replays it).  Nothing else is fair.
Fairness ==
    /\ WF_vars(CommitStep \/ CommitFails)
    /\ \A s \in Sockets :
          /\ WF_vars(sockState[s] = "closing" /\ SocketClosed(s))
          /\ \A b \in Bindings :
                WF_vars(sockState[s] = "open" /\ ReportReadiness(s, b, TRUE))

FairSpec == Spec /\ Fairness

-----------------------------------------------------------------------------
(***************************************************************************)
(* Safety.                                                                 *)
(***************************************************************************)

\* A binding never has two invocations pending, turns and other operations
\* taken together (activeForBinding counts both maps), even when a reconnect
\* moves the generation while one is pending.
OneInFlightPerBinding ==
    \A i, j \in Invocations :
        Pending(i) /\ Pending(j) /\ attempts[i].binding = attempts[j].binding => i = j

\* A pending invocation always has a live close handler to settle it: whenever
\* one is pending, its Host has a current socket.
PendingHasSocket ==
    \A i \in Invocations :
        Pending(i) => /\ attempts[i].host \in Hosts
                      /\ current[attempts[i].host] # None

\* The generation fences sockets: as long as a pending invocation still matches
\* its assignment, the Host's current socket is the one the request was written
\* to.  A reconnect that replaces the socket has moved the generation first.
GenerationFencesSocket ==
    \A i \in Invocations :
        Pending(i) /\ MatchesAssignment(attempts[i].binding, attempts[i].host,
                                        attempts[i].generation)
        => current[attempts[i].host] = attempts[i].via

\* A cancellation frame goes to the socket that carried the request it cancels,
\* though hostControl.cancel looks the socket up again by Host.
CancelReachesExecutor ==
    \A i \in Invocations :
        attempts[i].cancelledVia # None => attempts[i].cancelledVia = attempts[i].via

\* The events of an invocation have increasing sequence numbers, and exactly
\* those that ended with events, with a disconnect outcome or undelivered end in
\* a terminal event, the only one.
StreamWellFormed ==
    \A i \in Invocations :
        LET events == attempts[i].events
        IN /\ \A m, n \in 1..Len(events) :
                 m < n => /\ events[m].sequence < events[n].sequence
                          /\ events[m].kind = "output"
           /\ (Len(events) > 0 /\ events[Len(events)].kind = "terminal")
                <=> attempts[i].outcome \in {"events", "unknown", "failed"}

\* "failed" is reported only for a request that was never written to a socket,
\* and whatever was written never ends as failed or refused.
FailedMeansNotSent ==
    \A i \in Invocations :
        attempts[i].outcome # "none" =>
            (attempts[i].outcome \in {"failed", "refused"} <=> attempts[i].via = None)

-----------------------------------------------------------------------------
(***************************************************************************)
(* What a step may never do.                                               *)
(***************************************************************************)

\* An invocation is settled once: a later frame, close event, reconnect or
\* restart never changes its outcome or its events.
SettledOnce ==
    [][\A i \in Invocations :
          attempts[i].phase = "settled" => attempts'[i] = attempts[i]]_vars

\* Host output is exposed, and a Host answer believed, only under the assignment
\* generation the invocation was dispatched with and while the socket it was
\* dispatched on is the current one: a superseded connection is never heard.
OnlyExecutorHeard ==
    [][\A i \in Invocations :
          LET before == attempts[i]
              after == attempts'[i]
          IN Pending(i)
             /\ \/ after.outcome \in {"events", "result"}
                \/ after.phase = "pending" /\ after.events # before.events
             => /\ generation[before.binding] = before.generation
                /\ assigned[before.binding] = before.host
                /\ current[before.host] = before.via]_vars

-----------------------------------------------------------------------------
(***************************************************************************)
(* Liveness, under FairSpec.                                               *)
(***************************************************************************)

\* A socket attached while its Host counts as not connected -- the old socket
\* closed during the generation commit and took the new admission with it --
\* does not stay: its readiness report is refused and closes it, so that the
\* Host can connect again.
AttachedHostRecovers ==
    \A h \in Hosts :
        (current[h] # None /\ h \notin connected)
            ~> (current[h] = None \/ h \in connected)

\* What the Host contract says of a connection lost after dispatch: once the
\* socket a request was written to is closed, the invocation is settled.  The
\* close handler of a replaced socket returns before it settles anything.
LostConnectionSettles ==
    \A i \in Invocations :
        (Pending(i) /\ sockState[attempts[i].via] = "closed") ~> ~Pending(i)

-----------------------------------------------------------------------------
(* The contract: the caller of hostControl.invoke sees, of an attempt, only its phase,    *)
(* binding, events and outcome, and whether the request was sent.                         *)

CallOf(attempt) ==
    [phase |-> attempt.phase,
     binding |-> attempt.binding,
     sent |-> attempt.dispatched,
     events |-> attempt.events,
     outcome |-> attempt.outcome]

Contract == INSTANCE InvocationContract
                WITH calls <- [i \in Invocations |-> CallOf(attempts[i])],
                     SequenceNumbers <- 1..MaxSequence

\* Every behaviour of the gateway -- replaced sockets, late frames, failed
\* commits, restarts -- looks to its callers like one of the contract.
ImplementsContract == Contract!Spec

=============================================================================
