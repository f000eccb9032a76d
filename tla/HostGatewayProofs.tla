-------------------------- MODULE HostGatewayProofs --------------------------
(***************************************************************************)
(* Proofs about HostGateway, for every set of Hosts, bindings, sockets and *)
(* invocations.                                                            *)
(***************************************************************************)
EXTENDS HostGateway, TLAPS

-----------------------------------------------------------------------------
(***************************************************************************)
(* Type correctness.                                                       *)
(***************************************************************************)

LEMMA InitTypeOK == Init => TypeOK
<1> SUFFICES ASSUME Init PROVE TypeOK
  OBVIOUS
<1>1. generation \in [Bindings -> Nat]
  BY DEF Init
<1>2. readiness \in [Hosts -> [Bindings -> Sockets \cup {None}]]
  BY DEF Init
<1>3. attempts \in [Invocations -> AttemptRecords]
  BY DEF Init, IdleAttempt, Requested, AttemptRecords, Operations, Outcomes
<1>4. restarts \in 0..MaxRestarts
  BY BoundAssumption DEF Init
<1> QED
  BY <1>1, <1>2, <1>3, <1>4 DEF Init, TypeOK

\* The transformations of an attempt keep it an attempt.
LEMMA SettleType ==
    ASSUME NEW a \in AttemptRecords, NEW o \in Outcomes
    PROVE  Settle(a, o) \in AttemptRecords
BY DEF Settle, AttemptRecords

LEMMA AppendEventType ==
    ASSUME NEW a \in AttemptRecords, NEW e \in Events
    PROVE  [a EXCEPT !.events = Append(@, e)] \in AttemptRecords
BY DEF AttemptRecords

LEMMA DisconnectedType ==
    ASSUME NEW a \in AttemptRecords
    PROVE  Disconnected(a) \in AttemptRecords
<1> DEFINE ended == [a EXCEPT !.events = Append(@, Terminal(Len(@) + 1))]
           o == IF a.dispatched THEN "unknown" ELSE "failed"
<1>1. Terminal(Len(a.events) + 1) \in Events
  BY DEF AttemptRecords, Terminal, Events
<1>2. ended \in AttemptRecords
  BY <1>1, AppendEventType
<1>3. o \in Outcomes
  BY DEF Outcomes
<1>4. Disconnected(a) = Settle(ended, o)
  BY DEF Disconnected
<1> HIDE DEF ended, o
<1> QED
  BY <1>2, <1>3, <1>4, SettleType

LEMMA RequestedType ==
    ASSUME NEW op \in Operations, NEW b \in Bindings, NEW h \in Hosts, NEW g \in Nat
    PROVE  Requested(op, b, h, g) \in AttemptRecords
BY DEF Requested, AttemptRecords, Outcomes

LEMMA DispatchedType ==
    ASSUME NEW a \in AttemptRecords, NEW s \in Sockets
    PROVE  [a EXCEPT !.phase = "pending", !.dispatched = TRUE, !.via = s]
              \in AttemptRecords
BY DEF AttemptRecords

\* The end of the process, whatever it leaves of the generations.
LEMMA ProcessEndsTypeOK ==
    ASSUME TypeOK, ProcessEnds, generation' \in [Bindings -> Nat]
    PROVE  TypeOK'
<1>1. attempts' \in [Invocations -> AttemptRecords]
  BY SettleType DEF TypeOK, ProcessEnds, Outcomes
<1>2. sockState' \in [Sockets -> {"unused", "admitting", "reconnecting",
                                  "open", "closing", "closed"}]
  BY DEF TypeOK, ProcessEnds
<1>3. restarts' \in 0..MaxRestarts
  BY BoundAssumption DEF TypeOK, ProcessEnds
<1>4. \A s \in Sockets : sockState'[s] # "unused" => sockHost'[s] \in Hosts
  BY DEF TypeOK, ProcessEnds
<1> QED
  BY <1>1, <1>2, <1>3, <1>4 DEF TypeOK, ProcessEnds

LEMMA AdvanceGenerationType ==
    ASSUME TypeOK, NEW h, AdvanceGeneration(h)
    PROVE  generation' \in [Bindings -> Nat]
BY DEF TypeOK, AdvanceGeneration

LEMMA CrashTypeOK == TypeOK /\ Crash => TypeOK'
<1> SUFFICES ASSUME TypeOK, Crash PROVE TypeOK'
  OBVIOUS
<1>1. generation' \in [Bindings -> Nat]
  BY AdvanceGenerationType DEF Crash, TypeOK
<1> QED
  BY <1>1, ProcessEndsTypeOK DEF Crash

\* A socket's life: nothing returns to "unused".
LEMMA ClosingTypeOK ==
    ASSUME TypeOK, NEW s \in Sockets, sockState' = Closing(s), sockState[s] # "unused"
    PROVE  /\ sockState' \in [Sockets -> {"unused", "admitting", "reconnecting",
                                          "open", "closing", "closed"}]
           /\ \A t \in Sockets : sockState'[t] # "unused" => sockHost[t] \in Hosts
BY DEF TypeOK, Closing

LEMMA FinishUpgradeTypeOK ==
    ASSUME TypeOK, NEW s \in Sockets, NEW h \in Hosts, FinishUpgrade(s, h)
    PROVE  /\ sockState' \in [Sockets -> {"unused", "admitting", "reconnecting",
                                          "open", "closing", "closed"}]
           /\ current' \in [Hosts -> Sockets \cup {None}]
           /\ \A t \in Sockets : t # s /\ sockState'[t] # "unused" => sockHost[t] \in Hosts
<1>1. CASE Attach(s, h)
  BY <1>1 DEF TypeOK, Attach
<1>2. CASE sockState' = [sockState EXCEPT ![s] = "closed"] /\ UNCHANGED current
  BY <1>2 DEF TypeOK
<1> QED
  BY <1>1, <1>2 DEF FinishUpgrade

LEMMA ReconnectOrFinishTypeOK ==
    ASSUME TypeOK, NEW s \in Sockets, NEW h \in Hosts, NEW rest \in Seq(Commits),
           ReconnectOrFinish(s, h, rest)
    PROVE  /\ sockState' \in [Sockets -> {"unused", "admitting", "reconnecting",
                                          "open", "closing", "closed"}]
           /\ current' \in [Hosts -> Sockets \cup {None}]
           /\ commits' \in Seq(Commits)
           /\ \A t \in Sockets : t # s /\ sockState'[t] # "unused" => sockHost[t] \in Hosts
<1>1. CASE HasAssignment(h)
  <2>1. [op |-> "reconnect", socket |-> s] \in Commits
    BY DEF Commits
  <2>2. commits' = Append(rest, [op |-> "reconnect", socket |-> s])
    BY <1>1 DEF ReconnectOrFinish
  <2>3. commits' \in Seq(Commits)
    BY <2>1, <2>2
  <2> QED
    BY <1>1, <2>3 DEF ReconnectOrFinish, TypeOK
<1>2. CASE ~HasAssignment(h)
  BY <1>2, FinishUpgradeTypeOK DEF ReconnectOrFinish
<1> QED
  BY <1>1, <1>2

LEMMA UpgradeTypeOK ==
    ASSUME TypeOK, NEW s \in Sockets, NEW h \in Hosts, Upgrade(s, h)
    PROVE  TypeOK'
<1>1. /\ sockHost' \in [Sockets -> Hosts \cup {None}]
      /\ sockHost'[s] = h
      /\ \A t \in Sockets : t # s => sockHost'[t] = sockHost[t]
  BY DEF TypeOK, Upgrade
<1>2. CASE h \in LocalHosts
  <2>1. ReconnectOrFinish(s, h, commits) /\ connected' \subseteq Hosts
    BY <1>2 DEF Upgrade, TypeOK
  <2>2. commits \in Seq(Commits)
    BY DEF TypeOK
  <2> QED
    BY <1>1, <2>1, <2>2, ReconnectOrFinishTypeOK
    DEF TypeOK, Upgrade, durableVars
<1>3. CASE h \notin LocalHosts
  <2>1. [op |-> "activity", socket |-> s] \in Commits
    BY DEF Commits
  <2>2. commits' \in Seq(Commits)
    <3>1. commits' = Append(commits, [op |-> "activity", socket |-> s])
      BY <1>3 DEF Upgrade
    <3> QED
      BY <2>1, <3>1 DEF TypeOK
  <2>3. /\ sockState' \in [Sockets -> {"unused", "admitting", "reconnecting",
                                       "open", "closing", "closed"}]
        /\ \A t \in Sockets : t # s => sockState'[t] = sockState[t]
    BY <1>3 DEF TypeOK, Upgrade
  <2> QED
    BY <1>1, <1>3, <2>2, <2>3 DEF TypeOK, Upgrade, durableVars
<1> QED
  BY <1>2, <1>3

\* A commit names the socket of an upgrade that was made.
UsedSockets == {s \in Sockets : sockState[s] # "unused"}

UsedCommits == [op : {"activity", "reconnect"}, socket : UsedSockets]

CommitsTyped == commits \in Seq(UsedCommits)

\* What a pending invocation holds.
PendingTyped ==
    \A i \in Invocations :
        Pending(i) => /\ attempts[i].host \in Hosts
                      /\ attempts[i].binding \in Bindings
                      /\ attempts[i].via \in Sockets
                      /\ attempts[i].dispatched

TypeInv == TypeOK /\ CommitsTyped /\ PendingTyped

\* The oldest commit names a socket with a Host.
LEMMA HeadCommit ==
    ASSUME TypeInv, commits # <<>>
    PROVE  /\ Head(commits) \in Commits
           /\ Head(commits).socket \in Sockets
           /\ sockState[Head(commits).socket] # "unused"
           /\ sockHost[Head(commits).socket] \in Hosts
           /\ Tail(commits) \in Seq(Commits)
           /\ Tail(commits) \in Seq(UsedCommits)
<1>1. TypeOK /\ commits \in Seq(Commits) /\ commits \in Seq(UsedCommits)
  BY DEF TypeInv, TypeOK, CommitsTyped
<1>2. Head(commits) \in Commits /\ Head(commits) \in UsedCommits
  BY <1>1
<1>3. Head(commits).socket \in Sockets /\ sockState[Head(commits).socket] # "unused"
  BY <1>2 DEF UsedCommits, UsedSockets
<1> QED
  BY <1>1, <1>2, <1>3 DEF TypeOK

LEMMA CommitActivityTypeOK == TypeInv /\ CommitActivity => TypeOK'
<1> SUFFICES ASSUME TypeInv, CommitActivity PROVE TypeOK'
  OBVIOUS
<1> DEFINE s == Head(commits).socket
           h == sockHost[s]
<1>1. s \in Sockets /\ h \in Hosts /\ Tail(commits) \in Seq(Commits)
  BY HeadCommit DEF CommitActivity
<1>2. connected' = connected \cup {h} /\ ReconnectOrFinish(s, h, Tail(commits))
  BY DEF CommitActivity
<1> HIDE DEF s, h
<1>3. TypeOK
  BY DEF TypeInv
<1>4. connected' \subseteq Hosts
  BY <1>1, <1>2, <1>3 DEF TypeOK
<1>5. sockHost[s] \in Hosts
  BY <1>1 DEF h
<1> QED
  BY <1>1, <1>2, <1>3, <1>4, <1>5, ReconnectOrFinishTypeOK
  DEF TypeOK, CommitActivity, durableVars

LEMMA CommitReconnectTypeOK == TypeInv /\ CommitReconnect => TypeOK'
<1> SUFFICES ASSUME TypeInv, CommitReconnect PROVE TypeOK'
  OBVIOUS
<1> DEFINE s == Head(commits).socket
           h == sockHost[s]
<1>1. s \in Sockets /\ h \in Hosts /\ Tail(commits) \in Seq(Commits)
  BY HeadCommit DEF CommitReconnect
<1>2. AdvanceGeneration(h) /\ FinishUpgrade(s, h)
  BY DEF CommitReconnect
<1> HIDE DEF s, h
<1>3. TypeOK
  BY DEF TypeInv
<1>4. generation' \in [Bindings -> Nat]
  BY <1>2, <1>3, AdvanceGenerationType
<1>5. sockHost[s] \in Hosts
  BY <1>1 DEF h
<1> QED
  BY <1>1, <1>2, <1>3, <1>4, <1>5, FinishUpgradeTypeOK
  DEF TypeOK, CommitReconnect, hostVars

LEMMA CommitFailsTypeOK == TypeInv /\ CommitFails => TypeOK'
<1> SUFFICES ASSUME TypeInv, CommitFails PROVE TypeOK'
  OBVIOUS
<1>1. TypeOK /\ Head(commits).socket \in Sockets /\ Tail(commits) \in Seq(Commits)
      /\ sockHost[Head(commits).socket] \in Hosts
  BY HeadCommit DEF CommitFails, TypeInv
<1>2. CASE Head(commits).op = "activity"
  BY <1>1, <1>2 DEF CommitFails, TypeOK, durableVars, hostVars
<1>3. CASE Head(commits).op = "reconnect"
  BY <1>1, <1>3, ProcessEndsTypeOK DEF CommitFails, TypeOK
<1> QED
  BY <1>2, <1>3 DEF CommitFails

LEMMA CloseTypeOK ==
    ASSUME TypeOK, NEW s \in Sockets, PeerCloses(s) \/ SocketClosed(s)
    PROVE  TypeOK'
<1>1. CASE PeerCloses(s)
  BY <1>1, ClosingTypeOK DEF PeerCloses, TypeOK, durableVars, hostVars
<1>2. CASE ReplacedSocketClosed(s)
  BY <1>2 DEF ReplacedSocketClosed, Readable, TypeOK, durableVars, hostVars
<1>3. CASE CurrentSocketClosed(s)
  <2>1. sockHost[s] \in Hosts
    BY <1>3 DEF CurrentSocketClosed, Readable, TypeOK
  <2>2. attempts' \in [Invocations -> AttemptRecords]
    <3>1. attempts' = Abandoned(sockHost[s])
      BY <1>3 DEF CurrentSocketClosed
    <3>2. "rejected" \in Outcomes
      BY DEF Outcomes
    <3>3. \A i \in Invocations : attempts[i] \in AttemptRecords
      BY DEF TypeOK
    <3> QED
      BY <3>1, <3>2, <3>3, DisconnectedType, SettleType DEF Abandoned
  <2>3. /\ connected' \subseteq Hosts
        /\ readiness' \in [Hosts -> [Bindings -> Sockets \cup {None}]]
        /\ current' \in [Hosts -> Sockets \cup {None}]
    BY <1>3, <2>1 DEF CurrentSocketClosed, TypeOK
  <2>4. sockState' = [sockState EXCEPT ![s] = "closed"] /\ sockState[s] # "unused"
    BY <1>3 DEF CurrentSocketClosed, Readable
  <2> QED
    BY <1>3, <2>2, <2>3, <2>4 DEF CurrentSocketClosed, TypeOK, durableVars
<1> QED
  BY <1>1, <1>2, <1>3 DEF SocketClosed

LEMMA ReadinessTypeOK ==
    ASSUME TypeOK, NEW s \in Sockets, NEW b \in Bindings, NEW ready \in BOOLEAN,
           ReportReadiness(s, b, ready)
    PROVE  TypeOK'
<1>1. sockHost[s] \in Hosts /\ sockState[s] # "unused"
  BY DEF ReportReadiness, Readable, TypeOK
<1>2. CASE sockHost[s] \notin connected
  BY <1>1, <1>2, ClosingTypeOK DEF ReportReadiness, TypeOK, durableVars
<1>3. CASE sockHost[s] \in connected
  <2>1. readiness' = [readiness EXCEPT ![sockHost[s]][b] = IF ready THEN s ELSE None]
    BY <1>3 DEF ReportReadiness
  <2>2. readiness' \in [Hosts -> [Bindings -> Sockets \cup {None}]]
    BY <1>1, <2>1 DEF TypeOK
  <2> QED
    BY <1>3, <2>2 DEF ReportReadiness, TypeOK, durableVars
<1> QED
  BY <1>2, <1>3

\* An action that only writes attempts, each with an attempt.
LEMMA AttemptsOnlyTypeOK ==
    ASSUME TypeOK, NEW i \in Invocations, NEW a \in AttemptRecords,
           attempts' = [attempts EXCEPT ![i] = a],
           UNCHANGED <<durableVars, hostVars, commits, socketVars, restarts>>
    PROVE  TypeOK'
BY DEF TypeOK, durableVars, hostVars, socketVars

LEMMA InvokeTypeOK ==
    ASSUME TypeOK, NEW i \in Invocations, NEW op \in Operations, NEW b \in Bindings,
           NEW h \in Hosts, NEW g \in 0..generation[b], NEW permitted \in BOOLEAN,
           Invoke(i, op, b, h, g, permitted)
    PROVE  TypeOK'
<1> DEFINE a == Requested(op, b, h, g)
<1>1. g \in Nat
  BY DEF TypeOK
<1>2. a \in AttemptRecords
  BY <1>1, RequestedType
<1> HIDE DEF a
<1>3. CASE Refuse(i, op, b, h, g, permitted)
  <2>1. attempts' = [attempts EXCEPT ![i] = Settle(a, "refused")]
    BY <1>3 DEF Refuse, a
  <2>2. Settle(a, "refused") \in AttemptRecords
    BY <1>2, SettleType DEF Outcomes
  <2> QED
    BY <2>1, <2>2, AttemptsOnlyTypeOK DEF Invoke
<1>4. CASE FailUndelivered(i, op, b, h, g, permitted)
  <2>1. attempts' = [attempts EXCEPT ![i] = Disconnected(a)]
    BY <1>4 DEF FailUndelivered, a
  <2> QED
    BY <1>2, <2>1, DisconnectedType, AttemptsOnlyTypeOK DEF Invoke
<1>5. CASE Dispatch(i, op, b, h, g, permitted)
  <2>1. current[h] \in Sockets
    BY <1>5 DEF Dispatch, Deliverable, Reachable, TypeOK
  <2>2. attempts' = [attempts EXCEPT ![i] =
            [a EXCEPT !.phase = "pending", !.dispatched = TRUE, !.via = current[h]]]
    BY <1>5 DEF Dispatch, a
  <2> QED
    BY <1>2, <2>1, <2>2, DispatchedType, AttemptsOnlyTypeOK DEF Invoke
<1> QED
  BY <1>3, <1>4, <1>5 DEF Invoke

LEMMA CancelTypeOK ==
    ASSUME TypeInv, NEW i \in Invocations, Cancel(i)
    PROVE  TypeOK'
<1> DEFINE s == current[attempts[i].host]
<1>1. TypeOK /\ attempts[i] \in AttemptRecords
  BY DEF TypeInv, TypeOK
<1>2. attempts[i].host \in Hosts
  BY DEF Cancel, TypeInv, PendingTyped
<1>3. s \in Sockets
  BY <1>1, <1>2 DEF Cancel, Reachable, TypeOK
<1>4. attempts' = [attempts EXCEPT ![i] = [attempts[i] EXCEPT !.cancelledVia = s]]
  BY <1>1 DEF Cancel, TypeOK
<1>5. [attempts[i] EXCEPT !.cancelledVia = s] \in AttemptRecords
  BY <1>1, <1>3 DEF AttemptRecords
<1> QED
  BY <1>1, <1>4, <1>5, AttemptsOnlyTypeOK DEF Cancel

\* An action of a frame: one attempt is written, and its socket may start to close.
LEMMA FrameOnlyTypeOK ==
    ASSUME TypeOK, NEW s \in Sockets, NEW i \in Invocations, NEW a \in AttemptRecords,
           Readable(s),
           attempts' = [attempts EXCEPT ![i] = a],
           sockState' = Closing(s) \/ UNCHANGED sockState,
           UNCHANGED <<durableVars, hostVars, commits, sockHost, current, restarts>>
    PROVE  TypeOK'
<1>1. sockState[s] # "unused"
  BY DEF Readable
<1>2. /\ sockState' \in [Sockets -> {"unused", "admitting", "reconnecting",
                                     "open", "closing", "closed"}]
      /\ \A t \in Sockets : sockState'[t] # "unused" => sockHost[t] \in Hosts
  BY <1>1, ClosingTypeOK DEF TypeOK
<1> QED
  BY <1>2 DEF TypeOK, durableVars, hostVars

LEMMA HostEventTypeOK ==
    ASSUME TypeOK, NEW s \in Sockets, NEW i \in Invocations,
           NEW kind \in {"output", "terminal"}, NEW n \in 1..MaxSequence,
           NEW wellFormed \in BOOLEAN, HostEvent(s, i, kind, n, wellFormed)
    PROVE  TypeOK'
<1> DEFINE a == attempts[i]
           e == [sequence |-> n, kind |-> kind]
           heard == [a EXCEPT !.events = Append(@, e)]
<1>1. a \in AttemptRecords /\ attempts = [attempts EXCEPT ![i] = a]
  BY DEF TypeOK
<1>2. n \in Nat \ {0}
  BY BoundAssumption
<1>3. heard \in AttemptRecords
  BY <1>1, <1>2, AppendEventType DEF Events
<1>4. Settle(a, "rejected") \in AttemptRecords
  BY <1>1, SettleType DEF Outcomes
<1>5. Settle(heard, "events") \in AttemptRecords
  BY <1>3, SettleType DEF Outcomes
<1>6. Readable(s)
  BY DEF HostEvent
<1>7. UNCHANGED <<durableVars, hostVars, commits, sockHost, current, restarts>>
  BY DEF HostEvent
<1>8. CASE sockState' = Closing(s) /\ UNCHANGED attempts
  BY <1>1, <1>6, <1>7, <1>8, FrameOnlyTypeOK
<1>9. CASE RejectFrame(s, i)
  <2>1. attempts' = [attempts EXCEPT ![i] = Settle(a, "rejected")]
    BY <1>9 DEF RejectFrame, TypeOK
  <2> QED
    BY <1>4, <1>6, <1>7, <1>9, <2>1, FrameOnlyTypeOK DEF RejectFrame
<1>10. CASE kind = "output" /\ AcceptOutput(s, i, n)
  <2>1. attempts' = [attempts EXCEPT ![i] = heard]
    BY <1>10 DEF AcceptOutput, TypeOK
  <2> QED
    BY <1>3, <1>6, <1>7, <1>10, <2>1, FrameOnlyTypeOK DEF AcceptOutput
<1>11. CASE kind = "terminal" /\ AcceptTerminal(s, i, n)
  <2>1. attempts' = [attempts EXCEPT ![i] = Settle(heard, "events")]
    BY <1>11 DEF AcceptTerminal, Terminal, TypeOK
  <2> QED
    BY <1>5, <1>6, <1>7, <1>11, <2>1, FrameOnlyTypeOK DEF AcceptTerminal
<1> QED
  BY <1>8, <1>9, <1>10, <1>11 DEF HostEvent

LEMMA HostResultTypeOK ==
    ASSUME TypeOK, NEW s \in Sockets, NEW i \in Invocations,
           NEW wellFormed \in BOOLEAN, HostResult(s, i, wellFormed)
    PROVE  TypeOK'
<1> DEFINE a == attempts[i]
<1>1. a \in AttemptRecords /\ attempts = [attempts EXCEPT ![i] = a]
  BY DEF TypeOK
<1>2. Settle(a, "rejected") \in AttemptRecords /\ Settle(a, "result") \in AttemptRecords
  BY <1>1, SettleType DEF Outcomes
<1>3. /\ Readable(s)
      /\ UNCHANGED <<durableVars, hostVars, commits, sockHost, current, restarts>>
      /\ sockState' = Closing(s) \/ UNCHANGED sockState
  BY DEF HostResult, RejectFrame
<1>4. \/ attempts' = [attempts EXCEPT ![i] = a]
      \/ attempts' = [attempts EXCEPT ![i] = Settle(a, "rejected")]
      \/ attempts' = [attempts EXCEPT ![i] = Settle(a, "result")]
  BY <1>1 DEF HostResult, RejectFrame
<1> HIDE DEF a
<1>5. CASE attempts' = [attempts EXCEPT ![i] = a]
  BY <1>1, <1>3, <1>5, FrameOnlyTypeOK
<1>6. CASE attempts' = [attempts EXCEPT ![i] = Settle(a, "rejected")]
  BY <1>2, <1>3, <1>6, FrameOnlyTypeOK
<1>7. CASE attempts' = [attempts EXCEPT ![i] = Settle(a, "result")]
  BY <1>2, <1>3, <1>7, FrameOnlyTypeOK
<1> QED
  BY <1>4, <1>5, <1>6, <1>7

LEMMA FrameTypeOK == TypeOK /\ FrameStep => TypeOK'
<1> SUFFICES ASSUME TypeOK, NEW s \in Sockets,
                    \/ MalformedFrame(s)
                    \/ \E i \in Invocations, n \in 1..MaxSequence, wellFormed \in BOOLEAN :
                          \/ \E kind \in {"output", "terminal"} :
                                HostEvent(s, i, kind, n, wellFormed)
                          \/ HostEventGap(s, i, n)
                          \/ HostResult(s, i, wellFormed)
             PROVE  TypeOK'
  BY DEF FrameStep
<1>1. CASE MalformedFrame(s)
  BY <1>1, ClosingTypeOK DEF MalformedFrame, TypeOK, durableVars, hostVars
<1>2. ASSUME NEW i \in Invocations, NEW n \in 1..MaxSequence, HostEventGap(s, i, n)
      PROVE  TypeOK'
  BY <1>2, ProcessEndsTypeOK DEF HostEventGap, TypeOK
<1> QED
  BY <1>1, <1>2, HostEventTypeOK, HostResultTypeOK

-----------------------------------------------------------------------------
(***************************************************************************)
(* What a step does to one invocation.                                     *)
(***************************************************************************)

\* hostControl.invoke is called for it.
Begins(i) ==
    \E op \in Operations, b \in Bindings, h \in Hosts :
        \E g \in 0..generation[b], permitted \in BOOLEAN :
            Invoke(i, op, b, h, g, permitted)

\* A frame of its Host is accepted for it.
Hears(i) ==
    /\ Pending(i) /\ Fresh(i)
    /\ \/ \E n \in Nat \ {0} :
             /\ n = Len(attempts[i].events) + 1
             /\ attempts'[i] = [attempts[i] EXCEPT
                   !.events = Append(@, [sequence |-> n, kind |-> "output"])]
       \/ \E n \in Nat \ {0} :
             /\ FenceAccepts(i, n)
             /\ attempts[i].op = "turn.start"
             /\ attempts'[i] = Settle([attempts[i] EXCEPT
                   !.events = Append(@, Terminal(n))], "events")
       \/ /\ attempts[i].op = "thread.ensure"
          /\ attempts'[i] = Settle(attempts[i], "result")

\* It ends without a terminal event or result of its Host.
Ends(i) ==
    /\ Pending(i)
    /\ \/ attempts'[i] = Disconnected(attempts[i])
       \/ attempts'[i] = Settle(attempts[i], "rejected")
       \/ attempts'[i] = Settle(attempts[i], "vanished")

Evolves(i) ==
    \/ attempts'[i] = attempts[i]
    \/ Begins(i)
    \/ Cancel(i)
    \/ Hears(i)
    \/ Ends(i)

LEMMA ProcessEndsEvolves ==
    ASSUME TypeOK, ProcessEnds
    PROVE  \A i \in Invocations : Evolves(i)
BY DEF TypeOK, ProcessEnds, Evolves, Ends

LEMMA CloseEvolves ==
    ASSUME TypeOK, NEW s \in Sockets, PeerCloses(s) \/ SocketClosed(s)
    PROVE  \A i \in Invocations : Evolves(i)
BY DEF PeerCloses, SocketClosed, ReplacedSocketClosed, CurrentSocketClosed, Abandoned,
       Evolves, Ends

LEMMA FrameEvolves ==
    ASSUME TypeOK, FrameStep
    PROVE  \A i \in Invocations : Evolves(i)
<1> SUFFICES ASSUME NEW i \in Invocations PROVE Evolves(i)
  OBVIOUS
<1> PICK s \in Sockets :
        \/ MalformedFrame(s)
        \/ \E j \in Invocations, n \in 1..MaxSequence, wellFormed \in BOOLEAN :
              \/ \E kind \in {"output", "terminal"} :
                    HostEvent(s, j, kind, n, wellFormed)
              \/ HostEventGap(s, j, n)
              \/ HostResult(s, j, wellFormed)
  BY DEF FrameStep
<1>1. CASE MalformedFrame(s)
  BY <1>1 DEF MalformedFrame, Evolves
<1>2. ASSUME NEW j \in Invocations, NEW n \in 1..MaxSequence, HostEventGap(s, j, n)
      PROVE  Evolves(i)
  BY <1>2, ProcessEndsEvolves DEF HostEventGap
<1>3. ASSUME NEW j \in Invocations, NEW wellFormed \in BOOLEAN,
             HostResult(s, j, wellFormed)
      PROVE  Evolves(i)
  BY <1>3 DEF HostResult, RejectFrame, Owned, Pending, Evolves, Ends, Hears, TypeOK
<1>4. ASSUME NEW j \in Invocations, NEW n \in 1..MaxSequence, NEW wellFormed \in BOOLEAN,
             NEW kind \in {"output", "terminal"}, HostEvent(s, j, kind, n, wellFormed)
      PROVE  Evolves(i)
  <2>1. n \in Nat \ {0}
    BY BoundAssumption
  <2>2. CASE UNCHANGED attempts
    BY <2>2 DEF Evolves
  <2>3. CASE i # j
    BY <1>4, <2>3 DEF HostEvent, RejectFrame, AcceptOutput, AcceptTerminal, TypeOK, Evolves
  <2>4. CASE i = j /\ Pending(j) /\ RejectFrame(s, j)
    BY <2>4 DEF RejectFrame, TypeOK, Evolves, Ends
  <2>5. CASE i = j /\ Pending(j) /\ Fresh(j) /\ AcceptOutput(s, j, n)
    <3>1. attempts'[i] = [attempts[i] EXCEPT
                            !.events = Append(@, [sequence |-> n, kind |-> "output"])]
      BY <2>5 DEF AcceptOutput, TypeOK
    <3>2. n = Len(attempts[i].events) + 1
      BY <2>5 DEF AcceptOutput
    <3> QED
      BY <2>1, <2>5, <3>1, <3>2 DEF Evolves, Hears
  <2>6. CASE /\ i = j /\ Pending(j) /\ attempts[j].op = "turn.start" /\ Fresh(j)
             /\ FenceAccepts(j, n) /\ AcceptTerminal(s, j, n)
    <3>1. attempts'[i] = Settle([attempts[i] EXCEPT
                            !.events = Append(@, Terminal(n))], "events")
      BY <2>6 DEF AcceptTerminal, TypeOK
    <3> QED
      BY <2>1, <2>6, <3>1 DEF Evolves, Hears
  <2> QED
    BY <1>4, <2>2, <2>3, <2>4, <2>5, <2>6 DEF HostEvent, Owned
<1> QED
  BY <1>1, <1>2, <1>3, <1>4

\* Every step treats every invocation in one of these ways.
LEMMA AttemptsEvolve ==
    ASSUME TypeOK, [Next]_vars
    PROVE  \A i \in Invocations : Evolves(i)
<1>1. CASE UNCHANGED vars
  BY <1>1 DEF vars, Evolves
<1>2. CASE UpgradeStep \/ CommitStep \/ ReadinessStep
  BY <1>2 DEF UpgradeStep, Upgrade, CommitStep, CommitActivity, CommitReconnect,
              ReadinessStep, ReportReadiness, Evolves
<1>3. CASE CloseStep
  BY <1>3, CloseEvolves DEF CloseStep
<1>4. CASE InvokeStep
  <2> SUFFICES ASSUME NEW i \in Invocations PROVE Evolves(i)
    OBVIOUS
  <2> PICK j \in Invocations : Begins(j)
    BY <1>4 DEF InvokeStep, Begins
  <2>1. CASE i = j
    BY <2>1 DEF Evolves
  <2>2. CASE i # j
    <3> PICK op \in Operations, b \in Bindings, h \in Hosts :
               \E g \in 0..generation[b], permitted \in BOOLEAN :
                  Invoke(j, op, b, h, g, permitted)
      BY DEF Begins
    <3> PICK g \in 0..generation[b], permitted \in BOOLEAN :
               Invoke(j, op, b, h, g, permitted)
      OBVIOUS
    <3> USE <2>2 DEF TypeOK, Evolves
    <3>1. CASE Refuse(j, op, b, h, g, permitted)
      BY <3>1 DEF Refuse
    <3>2. CASE FailUndelivered(j, op, b, h, g, permitted)
      BY <3>2 DEF FailUndelivered
    <3>3. CASE Dispatch(j, op, b, h, g, permitted)
      BY <3>3 DEF Dispatch
    <3> QED
      BY <3>1, <3>2, <3>3 DEF Invoke
  <2> QED
    BY <2>1, <2>2
<1>5. CASE CancelStep
  <2> SUFFICES ASSUME NEW i \in Invocations PROVE Evolves(i)
    OBVIOUS
  <2> PICK j \in Invocations : Cancel(j)
    BY <1>5 DEF CancelStep
  <2> QED
    BY DEF Cancel, TypeOK, Evolves
<1>6. CASE FrameStep
  BY <1>6, FrameEvolves
<1>7. CASE CommitFails
  BY <1>7, ProcessEndsEvolves DEF CommitFails, Evolves
<1>8. CASE Crash
  BY <1>8, ProcessEndsEvolves DEF Crash
<1> QED
  BY <1>1, <1>2, <1>3, <1>4, <1>5, <1>6, <1>7, <1>8 DEF Next, Handlers

-----------------------------------------------------------------------------
(***************************************************************************)
(* What holds of one invocation.                                           *)
(***************************************************************************)

\* Public events as HostInvocationAttempt accepts them: numbered from 1.
Outputs(events) ==
    \A k \in 1..Len(events) : events[k].sequence = k /\ events[k].kind = "output"

\* StreamWellFormed, of one invocation.
StreamShape(a) ==
    /\ \A m, n \in 1..Len(a.events) :
          m < n => /\ a.events[m].sequence < a.events[n].sequence
                   /\ a.events[m].kind = "output"
    /\ (Len(a.events) > 0 /\ a.events[Len(a.events)].kind = "terminal")
          <=> a.outcome \in {"events", "unknown", "failed"}

AttemptInv(a) ==
    /\ a.phase \in {"idle", "pending"} => a.outcome = "none" /\ Outputs(a.events)
    /\ a.phase = "pending" => /\ a.host \in Hosts
                              /\ a.binding \in Bindings
                              /\ a.via \in Sockets
                              /\ a.dispatched
    /\ a.phase = "settled" =>
          /\ a.outcome # "none"
          /\ a.outcome \in {"failed", "refused"} <=> a.via = None
    /\ StreamShape(a)
    /\ a.cancelledVia # None => a.cancelledVia = a.via

LEMMA OutputsShape ==
    ASSUME NEW a, a.events \in Seq(Events), Outputs(a.events),
           a.outcome \notin {"events", "unknown", "failed"}
    PROVE  StreamShape(a)
<1>1. \A k \in 1..Len(a.events) :
         a.events[k].sequence = k /\ a.events[k].kind = "output"
  BY DEF Outputs
<1>2. Len(a.events) \in Nat
  OBVIOUS
<1> QED
  BY <1>1, <1>2 DEF StreamShape

LEMMA LastOutput ==
    ASSUME NEW events \in Seq(Events), Outputs(events)
    PROVE  LastSequence(events) = Len(events)
<1>1. CASE events = <<>>
  BY <1>1 DEF LastSequence
<1>2. CASE events # <<>>
  <2>1. Len(events) \in 1..Len(events)
    BY <1>2
  <2>2. events[Len(events)].sequence = Len(events)
    BY <2>1 DEF Outputs
  <2> QED
    BY <1>2, <2>2 DEF LastSequence
<1> QED
  BY <1>1, <1>2

LEMMA TerminalShape ==
    ASSUME NEW a, NEW events \in Seq(Events), Outputs(events),
           NEW n \in Nat, n > LastSequence(events),
           a.events = Append(events, Terminal(n)),
           a.outcome \in {"events", "unknown", "failed"}
    PROVE  StreamShape(a)
<1> DEFINE all == Append(events, Terminal(n))
           L == Len(events)
<1>1. L \in Nat /\ Len(all) = L + 1
  OBVIOUS
<1>2. n > L
  BY LastOutput
<1>3. all[L + 1].sequence = n /\ all[L + 1].kind = "terminal"
  BY DEF Terminal
<1>4. \A k \in 1..L : all[k].sequence = k /\ all[k].kind = "output"
  BY DEF Outputs
<1> HIDE DEF all, L
<1>5. \A k, m \in 1..Len(all) :
         k < m => all[k].sequence < all[m].sequence /\ all[k].kind = "output"
  <2> SUFFICES ASSUME NEW k \in 1..Len(all), NEW m \in 1..Len(all), k < m
               PROVE  all[k].sequence < all[m].sequence /\ all[k].kind = "output"
    OBVIOUS
  <2>1. k \in 1..L
    BY <1>1
  <2>2. all[k].sequence = k /\ all[k].kind = "output"
    BY <2>1, <1>4
  <2>3. CASE m = L + 1
    BY <2>1, <2>2, <2>3, <1>1, <1>2, <1>3
  <2>4. CASE m # L + 1
    <3>1. m \in 1..L
      BY <1>1, <2>4
    <3>2. all[m].sequence = m
      BY <3>1, <1>4
    <3> QED
      BY <2>2, <3>2
  <2> QED
    BY <2>3, <2>4
<1>6. Len(all) > 0 /\ all[Len(all)].kind = "terminal"
  BY <1>1, <1>3
<1> QED
  BY <1>5, <1>6 DEF StreamShape, all

LEMMA SettledInv ==
    ASSUME NEW a \in AttemptRecords, AttemptInv(a), a.phase = "pending",
           NEW o \in {"rejected", "vanished", "result"}
    PROVE  AttemptInv(Settle(a, o))
<1> DEFINE r == Settle(a, o)
<1>1. /\ r.phase = "settled" /\ r.outcome = o /\ r.events = a.events
      /\ r.via = a.via /\ r.cancelledVia = a.cancelledVia
  BY DEF Settle, AttemptRecords
<1> HIDE DEF r
<1>2. StreamShape(r)
  BY <1>1, OutputsShape DEF AttemptInv, AttemptRecords
<1> QED
  BY <1>1, <1>2, NoneAssumption DEF AttemptInv, r

LEMMA TerminalInv ==
    ASSUME NEW a \in AttemptRecords, Outputs(a.events),
           a.cancelledVia # None => a.cancelledVia = a.via,
           NEW n \in Nat, n > LastSequence(a.events),
           NEW o \in {"events", "unknown", "failed"},
           (o = "failed") <=> a.via = None
    PROVE  AttemptInv(Settle([a EXCEPT !.events = Append(@, Terminal(n))], o))
<1> DEFINE r == Settle([a EXCEPT !.events = Append(@, Terminal(n))], o)
<1>1. /\ r.phase = "settled" /\ r.outcome = o /\ r.events = Append(a.events, Terminal(n))
      /\ r.via = a.via /\ r.cancelledVia = a.cancelledVia
  BY DEF Settle, AttemptRecords
<1> HIDE DEF r
<1>2. StreamShape(r)
  BY <1>1, TerminalShape DEF AttemptRecords
<1> QED
  BY <1>1, <1>2 DEF AttemptInv, r

LEMMA BeginsInv ==
    ASSUME TypeOK, NEW i \in Invocations, Begins(i)
    PROVE  AttemptInv(attempts'[i])
<1> PICK op \in Operations, b \in Bindings, h \in Hosts :
           \E g \in 0..generation[b], permitted \in BOOLEAN :
              Invoke(i, op, b, h, g, permitted)
  BY DEF Begins
<1> PICK g \in 0..generation[b], permitted \in BOOLEAN :
           Invoke(i, op, b, h, g, permitted)
  OBVIOUS
<1> DEFINE a == Requested(op, b, h, g)
<1>1. a \in AttemptRecords
  BY RequestedType DEF TypeOK
<1>2. /\ a.via = None /\ a.cancelledVia = None /\ a.events = <<>> /\ ~a.dispatched
      /\ a.host = h /\ a.binding = b /\ a.outcome = "none" /\ a.op = op
      /\ a.phase = "idle" /\ a.generation = g
  BY DEF Requested
<1>3. Outputs(a.events) /\ LastSequence(a.events) = 0 /\ a.events \in Seq(Events)
  BY <1>1, <1>2 DEF Outputs, LastSequence, AttemptRecords
<1> HIDE DEF a
<1>4. CASE Refuse(i, op, b, h, g, permitted)
  <2> DEFINE r == Settle(a, "refused")
  <2>1. attempts'[i] = r
    BY <1>4 DEF Refuse, TypeOK, a
  <2>2. /\ r.phase = "settled" /\ r.outcome = "refused" /\ r.events = a.events
        /\ r.via = None /\ r.cancelledVia = None
    BY <1>1, <1>2 DEF Settle, AttemptRecords
  <2> HIDE DEF r
  <2>3. StreamShape(r)
    BY <2>2, <1>3, OutputsShape
  <2> QED
    BY <2>1, <2>2, <2>3 DEF AttemptInv
<1>5. CASE FailUndelivered(i, op, b, h, g, permitted)
  <2>1. attempts'[i] = Settle([a EXCEPT !.events = Append(@, Terminal(Len(@) + 1))],
                              "failed")
    BY <1>2, <1>5 DEF FailUndelivered, Disconnected, TypeOK, a
  <2>2. Len(a.events) + 1 \in Nat /\ Len(a.events) + 1 > LastSequence(a.events)
    BY <1>2, <1>3
  <2> QED
    BY <1>1, <1>2, <1>3, <2>1, <2>2, TerminalInv
<1>6. CASE Dispatch(i, op, b, h, g, permitted)
  <2> DEFINE r == attempts'[i]
  <2>1. current[h] \in Sockets
    BY <1>6 DEF Dispatch, Deliverable, Reachable, TypeOK
  <2>2. r = [a EXCEPT !.phase = "pending", !.dispatched = TRUE, !.via = current[h]]
    BY <1>6 DEF Dispatch, TypeOK, a
  <2>3. /\ r.phase = "pending" /\ r.outcome = "none" /\ r.events = a.events
        /\ r.host = h /\ r.binding = b /\ r.via = current[h] /\ r.cancelledVia = None
        /\ r.dispatched
    BY <1>1, <1>2, <2>2 DEF AttemptRecords
  <2> HIDE DEF r
  <2>4. StreamShape(r)
    BY <1>3, <2>3, OutputsShape
  <2> QED
    BY <1>3, <2>1, <2>3, <2>4 DEF AttemptInv, r
<1> QED
  BY <1>4, <1>5, <1>6 DEF Invoke

LEMMA HearsInv ==
    ASSUME TypeOK, NEW i \in Invocations, AttemptInv(attempts[i]), Hears(i)
    PROVE  AttemptInv(attempts'[i])
<1> DEFINE a == attempts[i]
<1>1. a \in AttemptRecords /\ a.phase = "pending" /\ a.events \in Seq(Events)
  BY DEF TypeOK, Hears, Pending, AttemptRecords
<1>2. /\ a.outcome = "none" /\ Outputs(a.events) /\ a.via \in Sockets /\ a.via # None
      /\ (a.cancelledVia # None => a.cancelledVia = a.via)
      /\ a.host \in Hosts /\ a.binding \in Bindings /\ a.dispatched
  BY <1>1, NoneAssumption DEF AttemptInv
<1>3. ASSUME NEW n \in Nat \ {0}, n = Len(a.events) + 1,
             attempts'[i] = [attempts[i] EXCEPT
                   !.events = Append(@, [sequence |-> n, kind |-> "output"])]
      PROVE  AttemptInv(attempts'[i])
  <2> DEFINE e == [sequence |-> n, kind |-> "output"]
             r == attempts'[i]
  <2>1. e \in Events
    BY DEF Events
  <2>2. e.sequence = Len(a.events) + 1 /\ e.kind = "output"
    BY <1>3
  <2>3. r = [a EXCEPT !.events = Append(a.events, e)]
    BY <1>3
  <2> HIDE DEF e
  <2>4. /\ r.phase = "pending" /\ r.outcome = "none" /\ r.events = Append(a.events, e)
        /\ r.host = a.host /\ r.binding = a.binding /\ r.via = a.via
        /\ r.cancelledVia = a.cancelledVia /\ r.dispatched = a.dispatched
    BY <1>1, <1>2, <2>3 DEF AttemptRecords
  <2> HIDE DEF r, a
  <2>5. r.events \in Seq(Events) /\ Outputs(r.events)
    BY <1>1, <1>2, <2>1, <2>2, <2>4 DEF Outputs
  <2>6. StreamShape(r)
    BY <2>4, <2>5, OutputsShape
  <2> QED
    BY <1>2, <2>4, <2>5, <2>6 DEF AttemptInv, r
<1>4. ASSUME NEW n \in Nat \ {0}, FenceAccepts(i, n),
             attempts'[i] = Settle([attempts[i] EXCEPT
                   !.events = Append(@, Terminal(n))], "events")
      PROVE  AttemptInv(attempts'[i])
  <2>1. n > LastSequence(a.events)
    BY <1>4 DEF FenceAccepts
  <2> QED
    BY <1>1, <1>2, <1>4, <2>1, TerminalInv
<1>5. CASE attempts'[i] = Settle(attempts[i], "result")
  BY <1>1, <1>5, SettledInv
<1> QED
  BY <1>3, <1>4, <1>5 DEF Hears

LEMMA EndsInv ==
    ASSUME TypeOK, NEW i \in Invocations, AttemptInv(attempts[i]), Ends(i)
    PROVE  AttemptInv(attempts'[i])
<1> DEFINE a == attempts[i]
<1>1. a \in AttemptRecords /\ a.phase = "pending" /\ a.events \in Seq(Events)
  BY DEF TypeOK, Ends, Pending, AttemptRecords
<1>2. /\ Outputs(a.events) /\ a.via # None /\ a.dispatched
      /\ (a.cancelledVia # None => a.cancelledVia = a.via)
  BY <1>1, NoneAssumption DEF AttemptInv
<1>3. CASE attempts'[i] = Disconnected(a)
  <2>1. Len(a.events) + 1 \in Nat /\ Len(a.events) + 1 > LastSequence(a.events)
    BY <1>1, <1>2, LastOutput
  <2>2. Disconnected(a) = Settle([a EXCEPT !.events = Append(@, Terminal(Len(@) + 1))],
                                 "unknown")
    BY <1>2 DEF Disconnected
  <2> QED
    BY <1>1, <1>2, <1>3, <2>1, <2>2, TerminalInv
<1>4. CASE attempts'[i] \in {Settle(a, "rejected"), Settle(a, "vanished")}
  BY <1>1, <1>4, SettledInv
<1> QED
  BY <1>3, <1>4 DEF Ends

\* The socket a cancellation is written to is the one of the request.
LEMMA CancelInv ==
    ASSUME TypeOK, GenerationFencesSocket,
           NEW i \in Invocations, AttemptInv(attempts[i]), Cancel(i)
    PROVE  AttemptInv(attempts'[i])
<1> DEFINE a == attempts[i]
           r == attempts'[i]
<1>1. a \in AttemptRecords /\ a.phase = "pending"
  BY DEF TypeOK, Cancel, Pending
<1>2. current[a.host] = a.via
  BY DEF Cancel, GenerationFencesSocket
<1>3. r = [a EXCEPT !.cancelledVia = a.via]
  BY <1>2 DEF Cancel, TypeOK
<1>4. /\ r.phase = "pending" /\ r.outcome = a.outcome /\ r.events = a.events
      /\ r.host = a.host /\ r.binding = a.binding /\ r.via = a.via
      /\ r.cancelledVia = a.via /\ r.dispatched = a.dispatched
  BY <1>1, <1>3 DEF AttemptRecords
<1> HIDE DEF r, a
<1>5. AttemptInv(a)
  BY DEF a
<1>6. StreamShape(r)
  BY <1>4, <1>5 DEF AttemptInv, StreamShape
<1> QED
  BY <1>1, <1>4, <1>5, <1>6 DEF AttemptInv, r

LEMMA AttemptInvStep ==
    ASSUME TypeOK, GenerationFencesSocket, [Next]_vars,
           NEW i \in Invocations, AttemptInv(attempts[i])
    PROVE  AttemptInv(attempts'[i])
BY AttemptsEvolve, BeginsInv, CancelInv, HearsInv, EndsInv DEF Evolves

-----------------------------------------------------------------------------
(***************************************************************************)
(* The inductive invariant.  A pending invocation was dispatched under a   *)
(* generation its binding has reached, and while the generation stands the *)
(* current socket is the one it was dispatched on.                         *)
(***************************************************************************)

GenerationReached ==
    \A i \in Invocations :
        Pending(i) => attempts[i].generation <= generation[attempts[i].binding]

IInv ==
    /\ TypeOK
    /\ CommitsTyped
    /\ \A i \in Invocations : AttemptInv(attempts[i])
    /\ OneInFlightPerBinding
    /\ PendingHasSocket
    /\ GenerationReached
    /\ GenerationFencesSocket

LEMMA InitIInv == Init => IInv
<1> SUFFICES ASSUME Init PROVE IInv
  OBVIOUS
<1>1. \A i \in Invocations : attempts[i] = IdleAttempt
  BY DEF Init
<1>2. \A i \in Invocations : attempts[i].phase = "idle" /\ AttemptInv(attempts[i])
  BY <1>1 DEF IdleAttempt, Requested, AttemptInv, Outputs, StreamShape
<1>3. CommitsTyped
  BY DEF Init, CommitsTyped
<1> QED
  BY <1>2, <1>3, InitTypeOK DEF IInv, OneInFlightPerBinding, PendingHasSocket,
     GenerationReached, GenerationFencesSocket, Pending

LEMMA IInvTypeInv == IInv => TypeInv
BY DEF IInv, TypeInv, PendingTyped, AttemptInv, Pending

LEMMA TypeOKStep == IInv /\ [Next]_vars => TypeOK'
<1> SUFFICES ASSUME TypeInv, TypeOK, [Next]_vars PROVE TypeOK'
  BY IInvTypeInv DEF TypeInv
<1>1. CASE UNCHANGED vars
  BY <1>1 DEF TypeOK, vars
<1>2. CASE UpgradeStep
  BY <1>2, UpgradeTypeOK DEF UpgradeStep
<1>3. CASE CommitStep
  BY <1>3, CommitActivityTypeOK, CommitReconnectTypeOK DEF CommitStep
<1>4. CASE CloseStep
  BY <1>4, CloseTypeOK DEF CloseStep
<1>5. CASE ReadinessStep
  BY <1>5, ReadinessTypeOK DEF ReadinessStep
<1>6. CASE InvokeStep
  BY <1>6, InvokeTypeOK DEF InvokeStep
<1>7. CASE CancelStep
  BY <1>7, CancelTypeOK DEF CancelStep
<1>8. CASE FrameStep
  BY <1>8, FrameTypeOK
<1> QED
  BY <1>1, <1>2, <1>3, <1>4, <1>5, <1>6, <1>7, <1>8, CommitFailsTypeOK, CrashTypeOK
  DEF Next, Handlers

\* No socket becomes unused again.
LEMMA SocketsStayUsed ==
    ASSUME TypeInv, [Next]_vars, NEW s \in Sockets, sockState[s] # "unused"
    PROVE  sockState'[s] # "unused"
<1>1. TypeOK
  BY DEF TypeInv
<1>2. CASE UNCHANGED sockState
  BY <1>2
<1>3. CASE ProcessEnds
  BY <1>1, <1>3 DEF ProcessEnds, TypeOK
<1>4. ASSUME NEW t \in Sockets, NEW h, FinishUpgrade(t, h) PROVE sockState'[s] # "unused"
  BY <1>1, <1>4 DEF FinishUpgrade, Attach, TypeOK
<1>5. ASSUME NEW t \in Sockets, NEW h, NEW rest, ReconnectOrFinish(t, h, rest)
      PROVE  sockState'[s] # "unused"
  BY <1>1, <1>4, <1>5 DEF ReconnectOrFinish, TypeOK
<1>6. CASE UpgradeStep
  BY <1>1, <1>5, <1>6 DEF UpgradeStep, Upgrade, TypeOK
<1>7. CASE CommitStep
  BY <1>4, <1>5, <1>7, HeadCommit DEF CommitStep, CommitActivity, CommitReconnect
<1>8. CASE CloseStep
  BY <1>1, <1>8 DEF CloseStep, PeerCloses, SocketClosed, ReplacedSocketClosed,
                    CurrentSocketClosed, Closing, TypeOK
<1>9. CASE ReadinessStep
  BY <1>1, <1>9 DEF ReadinessStep, ReportReadiness, Closing, TypeOK
<1>10. CASE FrameStep
  <2>1. UNCHANGED sockState \/ (\E t \in Sockets : sockState' = Closing(t)) \/ ProcessEnds
    <3> PICK t \in Sockets :
            \/ MalformedFrame(t)
            \/ \E i \in Invocations, n \in 1..MaxSequence, wellFormed \in BOOLEAN :
                  \/ \E kind \in {"output", "terminal"} :
                        HostEvent(t, i, kind, n, wellFormed)
                  \/ HostEventGap(t, i, n)
                  \/ HostResult(t, i, wellFormed)
      BY <1>10 DEF FrameStep
    <3>1. ASSUME NEW i, NEW kind, NEW n, NEW wellFormed, HostEvent(t, i, kind, n, wellFormed)
          PROVE  UNCHANGED sockState \/ sockState' = Closing(t)
      BY <3>1 DEF HostEvent, RejectFrame, AcceptOutput, AcceptTerminal
    <3>2. ASSUME NEW i, NEW wellFormed, HostResult(t, i, wellFormed)
          PROVE  UNCHANGED sockState \/ sockState' = Closing(t)
      BY <3>2 DEF HostResult, RejectFrame
    <3> QED
      BY <3>1, <3>2 DEF MalformedFrame, HostEventGap
  <2> QED
    BY <1>1, <1>3, <2>1 DEF Closing, TypeOK
<1>11. CASE CommitFails
  BY <1>1, <1>3, <1>11, HeadCommit DEF CommitFails, TypeOK
<1>12. CASE Crash
  BY <1>3, <1>12 DEF Crash
<1>13. CASE InvokeStep \/ CancelStep \/ UNCHANGED vars
  BY <1>2, <1>13 DEF InvokeStep, Invoke, CancelStep, Cancel, socketVars, vars
<1> QED
  BY <1>6, <1>7, <1>8, <1>9, <1>10, <1>11, <1>12, <1>13 DEF Next, Handlers

\* A commit joins the queue with the upgrade it belongs to.
LEMMA CommitsTypedStep == TypeInv /\ [Next]_vars => CommitsTyped'
<1> SUFFICES ASSUME TypeInv, [Next]_vars PROVE commits' \in Seq(UsedCommits')
  BY DEF CommitsTyped
<1>1. TypeOK /\ commits \in Seq(UsedCommits)
  BY DEF TypeInv, CommitsTyped
<1>2. UsedCommits \subseteq UsedCommits'
  BY SocketsStayUsed DEF UsedCommits, UsedSockets
<1>3. ASSUME NEW s \in Sockets, sockState'[s] # "unused"
      PROVE  \A op \in {"activity", "reconnect"} : [op |-> op, socket |-> s] \in UsedCommits'
  BY <1>3 DEF UsedCommits, UsedSockets
<1>4. commits \in Seq(UsedCommits')
  BY <1>1, <1>2
<1>5. commits # <<>> => Tail(commits) \in Seq(UsedCommits')
  BY <1>2, HeadCommit
<1>6. ASSUME NEW t \in Sockets, NEW h, NEW rest \in Seq(UsedCommits'),
             ReconnectOrFinish(t, h, rest)
      PROVE  commits' \in Seq(UsedCommits')
  <2>1. CASE HasAssignment(h)
    <3>1. commits' = Append(rest, [op |-> "reconnect", socket |-> t])
          /\ sockState'[t] # "unused"
      BY <1>1, <1>6, <2>1 DEF ReconnectOrFinish, TypeOK
    <3>2. [op |-> "reconnect", socket |-> t] \in UsedCommits'
      BY <1>3, <3>1
    <3> QED
      BY <3>1, <3>2
  <2>2. CASE ~HasAssignment(h)
    BY <1>6, <2>2 DEF ReconnectOrFinish
  <2> QED
    BY <2>1, <2>2
<1>7. CASE UNCHANGED commits
  BY <1>4, <1>7
<1>8. CASE ProcessEnds
  BY <1>8 DEF ProcessEnds
<1>9. ASSUME NEW s \in Sockets, NEW h \in Hosts, Upgrade(s, h)
      PROVE  commits' \in Seq(UsedCommits')
  <2>1. CASE h \in LocalHosts
    BY <1>4, <1>6, <1>9, <2>1 DEF Upgrade
  <2>2. CASE h \notin LocalHosts
    <3>1. commits' = Append(commits, [op |-> "activity", socket |-> s])
          /\ sockState'[s] # "unused"
      BY <1>1, <1>9, <2>2 DEF Upgrade, TypeOK
    <3>2. [op |-> "activity", socket |-> s] \in UsedCommits'
      BY <1>3, <3>1
    <3> QED
      BY <1>4, <3>1, <3>2
  <2> QED
    BY <2>1, <2>2
<1>10. CASE CommitActivity
  BY <1>5, <1>6, <1>10, HeadCommit DEF CommitActivity
<1>11. CASE CommitReconnect
  BY <1>5, <1>11 DEF CommitReconnect
<1>12. CASE CommitFails
  BY <1>5, <1>8, <1>12 DEF CommitFails
<1>13. CASE FrameStep
  BY <1>7, <1>8, <1>13 DEF FrameStep, MalformedFrame, HostEvent, HostEventGap, HostResult
<1>14. CASE CloseStep \/ ReadinessStep \/ InvokeStep \/ CancelStep \/ UNCHANGED vars
  BY <1>7, <1>14 DEF CloseStep, PeerCloses, SocketClosed, ReplacedSocketClosed,
     CurrentSocketClosed, ReadinessStep, ReportReadiness, InvokeStep, Invoke, CancelStep,
     Cancel, vars
<1> QED
  BY <1>8, <1>9, <1>10, <1>11, <1>12, <1>13, <1>14
  DEF Next, Handlers, UpgradeStep, CommitStep, Crash

-----------------------------------------------------------------------------
(***************************************************************************)
(* A pending invocation was pending before, for the same assignment and on *)
(* the same socket, or has just been dispatched.                           *)
(***************************************************************************)

StaysPending(i) ==
    /\ Pending(i)
    /\ attempts'[i].host = attempts[i].host
    /\ attempts'[i].binding = attempts[i].binding
    /\ attempts'[i].generation = attempts[i].generation
    /\ attempts'[i].via = attempts[i].via

BecomesPending(i) ==
    /\ assigned[attempts'[i].binding] = attempts'[i].host
    /\ generation[attempts'[i].binding] = attempts'[i].generation
    /\ attempts'[i].via = current[attempts'[i].host]
    /\ attempts'[i].via # None
    /\ attempts'[i].binding \in Bindings
    /\ attempts'[i].host \in Hosts
    /\ \A j \in Invocations : Pending(j) => attempts[j].binding # attempts'[i].binding
    /\ \A j \in Invocations \ {i} : attempts'[j] = attempts[j]
    /\ UNCHANGED <<durableVars, hostVars, commits, socketVars, restarts>>

LEMMA PendingAfter ==
    ASSUME IInv, [Next]_vars, NEW i \in Invocations, attempts'[i].phase = "pending"
    PROVE  StaysPending(i) \/ BecomesPending(i)
<1>1. TypeOK /\ attempts[i] \in AttemptRecords
  BY DEF IInv, TypeOK
<1>2. CASE attempts'[i] = attempts[i]
  BY <1>2 DEF StaysPending, Pending
<1>3. CASE Cancel(i)
  <2>1. attempts'[i] = [attempts[i] EXCEPT !.cancelledVia = current[attempts[i].host]]
    BY <1>1, <1>3 DEF Cancel, TypeOK
  <2> QED
    BY <1>1, <1>3, <2>1 DEF Cancel, StaysPending, AttemptRecords
<1>4. CASE Hears(i)
  <2>1. ASSUME NEW e, attempts'[i] = [attempts[i] EXCEPT !.events = Append(@, e)]
        PROVE  StaysPending(i)
    BY <1>1, <1>4, <2>1 DEF Hears, StaysPending, AttemptRecords
  <2>2. ASSUME NEW a, NEW o, attempts'[i] = Settle(a, o),
               a = attempts[i] \/ \E e : a = [attempts[i] EXCEPT !.events = Append(@, e)]
        PROVE  FALSE
    BY <1>1, <2>2 DEF Settle, AttemptRecords
  <2> QED
    BY <1>4, <2>1, <2>2 DEF Hears
<1>5. CASE Ends(i)
  BY <1>1, <1>5 DEF Ends, Disconnected, Settle, AttemptRecords
<1>6. CASE Begins(i)
  <2> PICK op \in Operations, b \in Bindings, h \in Hosts :
             \E g \in 0..generation[b], permitted \in BOOLEAN :
                Invoke(i, op, b, h, g, permitted)
    BY <1>6 DEF Begins
  <2> PICK g \in 0..generation[b], permitted \in BOOLEAN :
             Invoke(i, op, b, h, g, permitted)
    OBVIOUS
  <2> DEFINE a == Requested(op, b, h, g)
  <2>1. a \in AttemptRecords
    BY <1>1, RequestedType DEF TypeOK
  <2>2. a.host = h /\ a.binding = b /\ a.generation = g
    BY DEF Requested
  <2> HIDE DEF a
  <2>3. CASE Refuse(i, op, b, h, g, permitted)
    BY <1>1, <2>1, <2>3 DEF Refuse, Settle, TypeOK, AttemptRecords, a
  <2>4. CASE FailUndelivered(i, op, b, h, g, permitted)
    BY <1>1, <2>1, <2>4 DEF FailUndelivered, Disconnected, Settle, TypeOK, AttemptRecords, a
  <2>5. CASE Dispatch(i, op, b, h, g, permitted)
    <3>1. attempts' = [attempts EXCEPT ![i] =
              [a EXCEPT !.phase = "pending", !.dispatched = TRUE, !.via = current[h]]]
      BY <2>5 DEF Dispatch, a
    <3>2. attempts'[i].host = h /\ attempts'[i].binding = b /\ attempts'[i].generation = g
          /\ attempts'[i].via = current[h]
          /\ \A j \in Invocations \ {i} : attempts'[j] = attempts[j]
      BY <1>1, <2>1, <2>2, <3>1 DEF TypeOK, AttemptRecords
    <3> QED
      BY <2>5, <3>2 DEF Dispatch, Admissible, Deliverable, Reachable, MatchesAssignment,
         Invoke, BecomesPending
  <2> QED
    BY <2>3, <2>4, <2>5 DEF Invoke
<1> QED
  BY <1>1, <1>2, <1>3, <1>4, <1>5, <1>6, AttemptsEvolve DEF Evolves

LEMMA OneInFlightStep == IInv /\ [Next]_vars => OneInFlightPerBinding'
<1> SUFFICES ASSUME IInv, [Next]_vars,
                    NEW i \in Invocations, NEW j \in Invocations,
                    attempts'[i].phase = "pending", attempts'[j].phase = "pending",
                    attempts'[i].binding = attempts'[j].binding
             PROVE  i = j
  BY DEF OneInFlightPerBinding, Pending
<1>1. StaysPending(i) \/ BecomesPending(i)
  BY PendingAfter
<1>2. StaysPending(j) \/ BecomesPending(j)
  BY PendingAfter
<1>3. OneInFlightPerBinding
  BY DEF IInv
<1> QED
  BY <1>1, <1>2, <1>3 DEF StaysPending, BecomesPending, OneInFlightPerBinding, Pending

-----------------------------------------------------------------------------
(***************************************************************************)
(* The current socket of a Host only changes together with its pending     *)
(* invocations or with the generation of its assignments.                  *)
(***************************************************************************)

LEMMA AssignmentsMoveOn ==
    ASSUME TypeOK, [Next]_vars
    PROVE  /\ assigned' = assigned
           /\ \A b \in Bindings : generation'[b] >= generation[b]
<1>1. CASE UNCHANGED durableVars
  BY <1>1 DEF durableVars, TypeOK
<1>2. ASSUME NEW h, AdvanceGeneration(h)
      PROVE  \A b \in Bindings : generation'[b] >= generation[b]
  BY <1>2 DEF AdvanceGeneration, TypeOK
<1>3. CASE ProcessEnds /\ UNCHANGED generation
  BY <1>3 DEF ProcessEnds, TypeOK
<1>4. CASE CommitReconnect
  BY <1>2, <1>4 DEF CommitReconnect
<1>5. CASE Crash
  BY <1>2, <1>3, <1>5 DEF Crash, ProcessEnds
<1>6. CASE CommitFails
  BY <1>1, <1>3, <1>6 DEF CommitFails
<1>7. CASE FrameStep
  BY <1>1, <1>3, <1>7 DEF FrameStep, MalformedFrame, HostEvent, HostEventGap, HostResult
<1>8. CASE UpgradeStep \/ CommitActivity \/ CloseStep \/ ReadinessStep
  BY <1>1, <1>8 DEF UpgradeStep, Upgrade, CommitActivity, CloseStep, PeerCloses,
     SocketClosed, ReplacedSocketClosed, CurrentSocketClosed, ReadinessStep, ReportReadiness
<1>9. CASE InvokeStep \/ CancelStep \/ UNCHANGED vars
  BY <1>1, <1>9 DEF InvokeStep, Invoke, CancelStep, Cancel, vars, durableVars
<1> QED
  BY <1>4, <1>5, <1>6, <1>7, <1>8, <1>9 DEF Next, Handlers, CommitStep

SocketMoves(h) ==
    \/ current'[h] = current[h]
    \/ ProcessEnds
    \/ attempts' = Abandoned(h)
    \/ /\ current'[h] \in Sockets
       /\ \A b \in Bindings : assigned[b] = h => generation'[b] > generation[b]

LEMMA CurrentMoves ==
    ASSUME TypeInv, [Next]_vars, NEW h \in Hosts
    PROVE  SocketMoves(h)
<1>1. TypeOK
  BY DEF TypeInv
<1>2. CASE UNCHANGED current
  BY <1>2 DEF SocketMoves
<1>3. CASE ProcessEnds
  BY <1>3 DEF SocketMoves
<1>4. ASSUME NEW t \in Sockets, NEW k \in Hosts, FinishUpgrade(t, k)
      PROVE  current'[h] = current[h] \/ (h = k /\ current'[h] \in Sockets)
  BY <1>1, <1>4 DEF FinishUpgrade, Attach, TypeOK
<1>5. ASSUME NEW t \in Sockets, NEW k \in Hosts, NEW rest, ReconnectOrFinish(t, k, rest)
      PROVE  SocketMoves(h)
  <2>1. CASE HasAssignment(k)
    BY <1>2, <1>5, <2>1 DEF ReconnectOrFinish
  <2>2. CASE ~HasAssignment(k)
    BY <1>4, <1>5, <2>2 DEF ReconnectOrFinish, HasAssignment, SocketMoves
  <2> QED
    BY <2>1, <2>2
<1>6. CASE UpgradeStep
  BY <1>2, <1>5, <1>6 DEF UpgradeStep, Upgrade
<1>7. CASE CommitActivity
  BY <1>5, <1>7, HeadCommit DEF CommitActivity
<1>8. CASE CommitReconnect
  <2> DEFINE s == Head(commits).socket
             k == sockHost[s]
  <2>1. s \in Sockets /\ k \in Hosts
    BY <1>8, HeadCommit DEF CommitReconnect
  <2>2. AdvanceGeneration(k) /\ FinishUpgrade(s, k)
    BY <1>8 DEF CommitReconnect
  <2> HIDE DEF s, k
  <2>3. \A b \in Bindings : assigned[b] = k => generation'[b] > generation[b]
    BY <1>1, <2>2 DEF AdvanceGeneration, TypeOK
  <2> QED
    BY <1>4, <2>1, <2>2, <2>3 DEF SocketMoves
<1>9. ASSUME NEW s \in Sockets, CurrentSocketClosed(s)
      PROVE  SocketMoves(h)
  BY <1>1, <1>9 DEF CurrentSocketClosed, SocketMoves, TypeOK
<1>10. CASE CloseStep
  BY <1>2, <1>9, <1>10 DEF CloseStep, PeerCloses, SocketClosed, ReplacedSocketClosed
<1>11. CASE FrameStep
  BY <1>2, <1>3, <1>11 DEF FrameStep, MalformedFrame, HostEvent, HostEventGap, HostResult
<1>12. CASE CommitFails
  BY <1>2, <1>3, <1>12 DEF CommitFails
<1>13. CASE ReadinessStep \/ InvokeStep \/ CancelStep \/ UNCHANGED vars
  BY <1>2, <1>13 DEF ReadinessStep, ReportReadiness, InvokeStep, Invoke, CancelStep,
     Cancel, vars, socketVars
<1> QED
  BY <1>3, <1>6, <1>7, <1>8, <1>10, <1>11, <1>12, <1>13
  DEF Next, Handlers, CommitStep, Crash

\* A pending invocation outlives neither the process nor its Host's connection.
LEMMA PendingNotAbandoned ==
    ASSUME TypeOK, NEW i \in Invocations, attempts'[i].phase = "pending",
           StaysPending(i)
    PROVE  ~ProcessEnds /\ attempts' # Abandoned(attempts[i].host)
<1>1. attempts[i] \in AttemptRecords
  BY DEF TypeOK
<1>2. ASSUME NEW a \in AttemptRecords, NEW o PROVE Settle(a, o).phase = "settled"
  BY DEF Settle, AttemptRecords
<1>3. ~ProcessEnds
  BY <1>1, <1>2 DEF ProcessEnds, StaysPending
<1>4. Disconnected(attempts[i]).phase = "settled"
  BY <1>1 DEF Disconnected, Settle, AttemptRecords
<1>5. attempts' # Abandoned(attempts[i].host)
  BY <1>1, <1>2, <1>4 DEF Abandoned, StaysPending
<1> QED
  BY <1>3, <1>5

LEMMA PendingHasSocketStep == IInv /\ [Next]_vars => PendingHasSocket'
<1> SUFFICES ASSUME IInv, [Next]_vars,
                    NEW i \in Invocations, attempts'[i].phase = "pending"
             PROVE  attempts'[i].host \in Hosts /\ current'[attempts'[i].host] # None
  BY DEF PendingHasSocket, Pending
<1>1. TypeOK /\ TypeInv /\ PendingHasSocket
  BY IInvTypeInv DEF IInv
<1>2. CASE StaysPending(i)
  <2> DEFINE h == attempts[i].host
  <2>1. h \in Hosts /\ current[h] # None /\ attempts'[i].host = h
    BY <1>1, <1>2 DEF PendingHasSocket, StaysPending
  <2>2. ~ProcessEnds /\ attempts' # Abandoned(h)
    BY <1>1, <1>2, PendingNotAbandoned
  <2>3. SocketMoves(h)
    BY <1>1, <2>1, CurrentMoves
  <2> QED
    BY <2>1, <2>2, <2>3, NoneAssumption DEF SocketMoves
<1>3. CASE BecomesPending(i)
  BY <1>3 DEF BecomesPending, socketVars
<1> QED
  BY <1>2, <1>3, PendingAfter

LEMMA GenerationReachedStep == IInv /\ [Next]_vars => GenerationReached'
<1> SUFFICES ASSUME IInv, [Next]_vars,
                    NEW i \in Invocations, attempts'[i].phase = "pending"
             PROVE  attempts'[i].generation <= generation'[attempts'[i].binding]
  BY DEF GenerationReached, Pending
<1>1. TypeOK /\ TypeOK' /\ TypeInv /\ GenerationReached
  BY IInvTypeInv, TypeOKStep DEF IInv
<1>2. CASE StaysPending(i)
  <2> DEFINE b == attempts[i].binding
             g == attempts[i].generation
  <2>1. b \in Bindings /\ g \in Nat /\ g <= generation[b]
    BY <1>1, <1>2 DEF TypeInv, PendingTyped, GenerationReached, StaysPending, TypeOK,
                      AttemptRecords
  <2>2. generation[b] \in Nat /\ generation'[b] \in Nat /\ generation'[b] >= generation[b]
    BY <1>1, <2>1, AssignmentsMoveOn DEF TypeOK
  <2>3. attempts'[i].binding = b /\ attempts'[i].generation = g
    BY <1>2 DEF StaysPending
  <2> HIDE DEF b, g
  <2> QED
    BY <2>1, <2>2, <2>3
<1>3. CASE BecomesPending(i)
  BY <1>1, <1>3 DEF BecomesPending, durableVars, TypeOK
<1> QED
  BY <1>2, <1>3, PendingAfter

LEMMA GenerationFencesStep == IInv /\ [Next]_vars => GenerationFencesSocket'
<1> SUFFICES ASSUME IInv, [Next]_vars,
                    NEW i \in Invocations, attempts'[i].phase = "pending",
                    assigned'[attempts'[i].binding] = attempts'[i].host,
                    generation'[attempts'[i].binding] = attempts'[i].generation
             PROVE  current'[attempts'[i].host] = attempts'[i].via
  BY DEF GenerationFencesSocket, Pending, MatchesAssignment
<1>1. TypeOK /\ TypeInv /\ GenerationReached /\ GenerationFencesSocket
  BY IInvTypeInv DEF IInv
<1>2. CASE StaysPending(i)
  <2> DEFINE b == attempts[i].binding
             h == attempts[i].host
             g == attempts[i].generation
  <2>1. b \in Bindings /\ h \in Hosts /\ g \in Nat /\ generation[b] \in Nat
    BY <1>1, <1>2 DEF TypeInv, PendingTyped, StaysPending, TypeOK, AttemptRecords
  <2>2. /\ attempts'[i].binding = b /\ attempts'[i].host = h
        /\ attempts'[i].generation = g /\ attempts'[i].via = attempts[i].via
    BY <1>2 DEF StaysPending
  <2>3. assigned[b] = h /\ generation'[b] = g /\ generation'[b] >= generation[b]
    BY <1>1, <2>1, <2>2, AssignmentsMoveOn
  <2>4. g <= generation[b]
    BY <1>1, <1>2 DEF GenerationReached, StaysPending
  <2>5. generation[b] = g
    BY <2>1, <2>3, <2>4
  <2>6. current[h] = attempts[i].via
    BY <1>1, <1>2, <2>3, <2>5 DEF GenerationFencesSocket, MatchesAssignment, StaysPending
  <2>7. ~ProcessEnds /\ attempts' # Abandoned(h)
    BY <1>1, <1>2, PendingNotAbandoned
  <2>8. SocketMoves(h)
    BY <1>1, <2>1, CurrentMoves
  <2> HIDE DEF b, h, g
  <2>9. current'[h] = current[h]
    BY <2>1, <2>3, <2>5, <2>7, <2>8 DEF SocketMoves
  <2> QED
    BY <2>2, <2>6, <2>9
<1>3. CASE BecomesPending(i)
  BY <1>3 DEF BecomesPending, socketVars
<1> QED
  BY <1>2, <1>3, PendingAfter

-----------------------------------------------------------------------------
(***************************************************************************)
(* The theorems.                                                           *)
(***************************************************************************)

LEMMA IInvStep == IInv /\ [Next]_vars => IInv'
<1> SUFFICES ASSUME IInv, [Next]_vars PROVE IInv'
  OBVIOUS
<1>1. TypeOK' /\ CommitsTyped'
  BY TypeOKStep, CommitsTypedStep, IInvTypeInv
<1>2. \A i \in Invocations : AttemptInv(attempts[i])'
  <2> SUFFICES ASSUME NEW i \in Invocations PROVE AttemptInv(attempts[i])'
    OBVIOUS
  <2>1. AttemptInv(attempts'[i])
    BY AttemptInvStep DEF IInv
  <2> QED
    BY <2>1 DEF AttemptInv, StreamShape, Outputs
<1>3. OneInFlightPerBinding' /\ PendingHasSocket' /\ GenerationReached'
      /\ GenerationFencesSocket'
  BY OneInFlightStep, PendingHasSocketStep, GenerationReachedStep, GenerationFencesStep
<1> QED
  BY <1>1, <1>2, <1>3 DEF IInv

\* The inductive invariant holds in every reachable state.
THEOREM Invariance == Spec => []IInv
BY InitIInv, IInvStep, PTL DEF Spec

\* Every variable keeps its type, whatever is in flight: in particular a commit always
\* names a socket with a Host, and a cancellation is written to a socket.
THEOREM TypeCorrect == Spec => []TypeOK
<1>1. IInv => TypeOK
  BY DEF IInv
<1> QED
  BY <1>1, Invariance, PTL

\* A binding never has two invocations pending (activeForBinding in invoke).
THEOREM OneInFlight == Spec => []OneInFlightPerBinding
<1>1. IInv => OneInFlightPerBinding
  BY DEF IInv
<1> QED
  BY <1>1, Invariance, PTL

\* A pending invocation has a current socket, whose close handler will settle it.
THEOREM PendingSocket == Spec => []PendingHasSocket
<1>1. IInv => PendingHasSocket
  BY DEF IInv
<1> QED
  BY <1>1, Invariance, PTL

\* While the assignment generation of a pending invocation stands, the current socket
\* is the one its request was written to.
THEOREM GenerationFence == Spec => []GenerationFencesSocket
<1>1. IInv => GenerationFencesSocket
  BY DEF IInv
<1> QED
  BY <1>1, Invariance, PTL

\* hostControl.cancel never writes to another socket than the request's.
THEOREM CancelCorrect == Spec => []CancelReachesExecutor
<1>1. IInv => CancelReachesExecutor
  BY DEF IInv, AttemptInv, CancelReachesExecutor
<1> QED
  BY <1>1, Invariance, PTL

\* The events of every invocation are numbered upwards, with the terminal event last
\* and only where one is due.
THEOREM StreamCorrect == Spec => []StreamWellFormed
<1>1. IInv => StreamWellFormed
  BY DEF IInv, AttemptInv, StreamShape, StreamWellFormed
<1> QED
  BY <1>1, Invariance, PTL

\* "failed" and "refused" are said exactly of what was never written to a socket.
THEOREM FailedCorrect == Spec => []FailedMeansNotSent
<1>1. IInv => FailedMeansNotSent
  BY DEF IInv, TypeOK, AttemptRecords, AttemptInv, FailedMeansNotSent
<1> QED
  BY <1>1, Invariance, PTL

\* An invocation that was settled never changes again.
THEOREM SettledForGood == Spec => SettledOnce
<1>1. IInv /\ [Next]_vars =>
        [\A i \in Invocations :
            attempts[i].phase = "settled" => attempts'[i] = attempts[i]]_vars
  BY AttemptsEvolve DEF IInv, Evolves, Begins, Invoke, Cancel, Hears, Ends, Pending
<1> QED
  BY <1>1, Invariance, PTL DEF Spec, SettledOnce

\* Output, terminal events and results are only taken from the socket the request was
\* written to, under the generation it was dispatched with.
THEOREM ExecutorHeard == Spec => OnlyExecutorHeard
<1> DEFINE Heard(i) ==
        LET before == attempts[i]
            after == attempts'[i]
        IN Pending(i)
           /\ \/ after.outcome \in {"events", "result"}
              \/ after.phase = "pending" /\ after.events # before.events
           => /\ generation[before.binding] = before.generation
              /\ assigned[before.binding] = before.host
              /\ current[before.host] = before.via
<1>1. ASSUME IInv, [Next]_vars, NEW i \in Invocations PROVE Heard(i)
  <2>1. TypeOK /\ attempts[i] \in AttemptRecords /\ GenerationFencesSocket
    BY <1>1 DEF IInv, TypeOK
  <2>2. CASE attempts'[i] = attempts[i]
    BY <1>1, <2>1, <2>2 DEF IInv, AttemptInv, Pending
  <2>3. CASE Begins(i)
    BY <2>3 DEF Begins, Invoke, Pending
  <2>4. CASE Cancel(i)
    BY <2>1, <2>4 DEF Cancel, MatchesAssignment, GenerationFencesSocket
  <2>5. CASE Hears(i)
    BY <2>1, <2>5 DEF Hears, Fresh, MatchesAssignment, GenerationFencesSocket
  <2>6. CASE Ends(i)
    <3>1. /\ Disconnected(attempts[i]).outcome \in {"unknown", "failed"}
          /\ Disconnected(attempts[i]).phase = "settled"
      BY <2>1 DEF Disconnected, Settle, AttemptRecords
    <3>2. \A o \in {"rejected", "vanished"} :
             /\ Settle(attempts[i], o).outcome = o
             /\ Settle(attempts[i], o).phase = "settled"
      BY <2>1 DEF Settle, AttemptRecords
    <3> QED
      BY <2>6, <3>1, <3>2 DEF Ends
  <2> QED
    BY <1>1, <2>1, <2>2, <2>3, <2>4, <2>5, <2>6, AttemptsEvolve DEF Evolves
<1>2. IInv /\ [Next]_vars => [\A i \in Invocations : Heard(i)]_vars
  BY <1>1
<1> QED
  BY <1>2, Invariance, PTL DEF Spec, OnlyExecutorHeard

-----------------------------------------------------------------------------
(***************************************************************************)
(* HostGateway implements InvocationContract.  Each step of the gateway is *)
(* one step of the contract on the calls it touches, or touches none.      *)
(***************************************************************************)

\* The calls as their callers see them: what the mapping puts for the contract's
\* variable.
Calls == [i \in Invocations |-> CallOf(attempts[i])]

\* A call with its fields named one by one.
Call(phase, binding, sent, events, outcome) ==
    [phase |-> phase, binding |-> binding, sent |-> sent,
     events |-> events, outcome |-> outcome]

\* The contract's settlement, and its calls in flight, field by field.
LEMMA SettledFields ==
    ASSUME NEW p, NEW b, NEW s, NEW e, NEW q, NEW o
    PROVE  Contract!Settled(Call(p, b, s, e, q), o) = Call("settled", b, s, e, o)
<1>1. Contract!Settled(Call(p, b, s, e, q), o)
        \in [phase : {"settled"}, binding : {b}, sent : {s}, events : {e}, outcome : {o}]
  BY DEF Contract!Settled, Call
<1> QED
  BY <1>1 DEF Call

LEMMA BoundFields ==
    ASSUME NEW b
    PROVE  [Contract!Idle EXCEPT !.binding = b] = Call("idle", b, FALSE, <<>>, "none")
<1> DEFINE r == [Contract!Idle EXCEPT !.binding = b]
<1>1. r \in [phase : {"idle"}, binding : {b}, sent : {FALSE}, events : {<<>>},
             outcome : {"none"}]
  BY DEF Contract!Idle
<1> HIDE DEF r
<1>2. r = Call("idle", b, FALSE, <<>>, "none")
  BY <1>1 DEF Call
<1> QED
  BY <1>2 DEF r

LEMMA SentFields ==
    ASSUME NEW b
    PROVE  [Contract!Idle EXCEPT !.phase = "pending", !.binding = b, !.sent = TRUE]
             = Call("pending", b, TRUE, <<>>, "none")
<1> DEFINE r == [Contract!Idle EXCEPT !.phase = "pending", !.binding = b, !.sent = TRUE]
<1>1. r \in [phase : {"pending"}, binding : {b}, sent : {TRUE}, events : {<<>>},
             outcome : {"none"}]
  BY DEF Contract!Idle
<1> HIDE DEF r
<1>2. r = Call("pending", b, TRUE, <<>>, "none")
  BY <1>1 DEF Call
<1> QED
  BY <1>2 DEF r

\* CallOf commutes with what happens to an attempt.
LEMMA CallOfSettle ==
    ASSUME NEW a \in AttemptRecords, NEW o
    PROVE  CallOf(Settle(a, o)) = Contract!Settled(CallOf(a), o)
<1>1. /\ Settle(a, o).phase = "settled" /\ Settle(a, o).outcome = o
      /\ Settle(a, o).binding = a.binding /\ Settle(a, o).dispatched = a.dispatched
      /\ Settle(a, o).events = a.events
  BY DEF Settle, AttemptRecords
<1>2. CallOf(a) = Call(a.phase, a.binding, a.dispatched, a.events, a.outcome)
  BY DEF CallOf, Call
<1>3. CallOf(Settle(a, o)) = Call("settled", a.binding, a.dispatched, a.events, o)
  BY <1>1 DEF CallOf, Call
<1> QED
  BY <1>2, <1>3, SettledFields

LEMMA CallOfAppend ==
    ASSUME NEW a \in AttemptRecords, NEW e
    PROVE  CallOf([a EXCEPT !.events = Append(@, e)])
             = [CallOf(a) EXCEPT !.events = Append(@, e)]
<1> DEFINE events == Append(a.events, e)
           r == [a EXCEPT !.events = events]
<1>1. /\ r.phase = a.phase /\ r.binding = a.binding /\ r.dispatched = a.dispatched
      /\ r.events = events /\ r.outcome = a.outcome
  BY DEF AttemptRecords
<1>2. [CallOf(a) EXCEPT !.events = Append(@, e)]
        = [phase |-> a.phase, binding |-> a.binding, sent |-> a.dispatched,
           events |-> events, outcome |-> a.outcome]
  <2>1. CallOf(a).events = a.events
    BY DEF CallOf
  <2> HIDE DEF events
  <2>2. [CallOf(a) EXCEPT !.events = events]
          = [phase |-> a.phase, binding |-> a.binding, sent |-> a.dispatched,
             events |-> events, outcome |-> a.outcome]
    BY DEF CallOf
  <2> QED
    BY <2>1, <2>2 DEF events
<1> HIDE DEF r, events
<1>3. CallOf(r) = [phase |-> a.phase, binding |-> a.binding, sent |-> a.dispatched,
                   events |-> events, outcome |-> a.outcome]
  BY <1>1 DEF CallOf
<1> QED
  BY <1>2, <1>3 DEF r, events

\* The order of the terminal event and the settlement does not matter.
LEMMA SettledEnds ==
    ASSUME NEW a, NEW o, NEW n
    PROVE  Contract!Settled([CallOf(a) EXCEPT !.events = Append(@, Contract!TerminalEvent(n))], o)
             = Contract!Ended(CallOf(a), o, n)
<1> DEFINE e == Contract!TerminalEvent(n)
<1> HIDE DEF e
<1>1. Contract!Settled([CallOf(a) EXCEPT !.events = Append(@, e)], o)
        = [Contract!Settled(CallOf(a), o) EXCEPT !.events = Append(@, e)]
  BY DEF Contract!Settled, CallOf
<1> QED
  BY <1>1 DEF Contract!Ended, e

LEMMA CallOfDisconnected ==
    ASSUME NEW a \in AttemptRecords
    PROVE  CallOf(Disconnected(a))
             = Contract!Lost(CallOf(a), IF a.dispatched THEN "unknown" ELSE "failed")
<1> DEFINE o == IF a.dispatched THEN "unknown" ELSE "failed"
           e == Terminal(Len(a.events) + 1)
           r == [a EXCEPT !.events = Append(@, e)]
<1>1. r \in AttemptRecords
  <2>1. e \in Events
    BY DEF AttemptRecords, Terminal, Events
  <2> QED
    BY <2>1, AppendEventType
<1>2. e = Contract!TerminalEvent(Len(CallOf(a).events) + 1)
  BY DEF Terminal, Contract!TerminalEvent, CallOf
<1>3. Disconnected(a) = Settle(r, o)
  BY DEF Disconnected
<1> HIDE DEF e, o, r
<1>4. CallOf(Disconnected(a)) = Contract!Settled([CallOf(a) EXCEPT !.events = Append(@, e)], o)
  BY <1>1, <1>3, CallOfSettle, CallOfAppend DEF r
<1> QED
  BY <1>2, <1>4, SettledEnds DEF Contract!Lost, o

LEMMA CallOfRequested ==
    ASSUME NEW op \in Operations, NEW b \in Bindings, NEW h \in Hosts, NEW g \in Nat
    PROVE  CallOf(Requested(op, b, h, g)) = [Contract!Idle EXCEPT !.binding = b]
<1>1. CallOf(Requested(op, b, h, g)) = Call("idle", b, FALSE, <<>>, "none")
  BY DEF CallOf, Requested, Call
<1>2. [Contract!Idle EXCEPT !.binding = b] = Call("idle", b, FALSE, <<>>, "none")
  BY BoundFields
<1> QED
  BY <1>1, <1>2

\* An attempt that changes alone is a call that changes alone.
LEMMA OneCallChanges ==
    ASSUME TypeOK, NEW i \in Invocations, NEW a, attempts' = [attempts EXCEPT ![i] = a]
    PROVE  Calls' = [Calls EXCEPT ![i] = CallOf(a)]
BY DEF TypeOK, Calls

LEMMA CallsUnchanged == attempts' = attempts => Calls' = Calls
BY DEF Calls

\* The contract's notions read in the gateway's state.
LEMMA InFlightIsPending ==
    ASSUME NEW i \in Invocations
    PROVE  Contract!InFlight(i) <=> Pending(i)
BY DEF Contract!InFlight, Pending, CallOf

LEMMA CallsInit == Init => Contract!Init
BY DEF Init, Contract!Init, Contract!Idle, IdleAttempt, Requested, CallOf

\* The end of the process leaves no caller.
LEMMA ProcessEndsVanish == TypeOK /\ ProcessEnds => Contract!Vanish
<1> SUFFICES ASSUME TypeOK, ProcessEnds PROVE Contract!Vanish
  OBVIOUS
<1>1. ASSUME NEW i \in Invocations
      PROVE  CallOf(attempts'[i]) = IF Contract!InFlight(i)
                                    THEN Contract!Settled(CallOf(attempts[i]), "vanished")
                                    ELSE CallOf(attempts[i])
  <2>1. attempts[i] \in AttemptRecords
    BY DEF TypeOK
  <2>2. attempts'[i] = IF Pending(i) THEN Settle(attempts[i], "vanished") ELSE attempts[i]
    BY DEF ProcessEnds
  <2> QED
    BY <2>1, <2>2, CallOfSettle, InFlightIsPending
<1> QED
  BY <1>1 DEF Contract!Vanish

\* A call of hostControl.invoke is refused, undeliverable or sent.
LEMMA InvokeKeepsContract == TypeOK /\ InvokeStep => Contract!Next
<1> SUFFICES ASSUME TypeOK, NEW i \in Invocations, Begins(i) PROVE Contract!Next
  BY DEF InvokeStep, Begins
<1> PICK op \in Operations, b \in Bindings, h \in Hosts :
           \E g \in 0..generation[b], permitted \in BOOLEAN :
              Invoke(i, op, b, h, g, permitted)
  BY DEF Begins
<1> PICK g \in 0..generation[b], permitted \in BOOLEAN :
           Invoke(i, op, b, h, g, permitted)
  OBVIOUS
<1> DEFINE a == Requested(op, b, h, g)
           idle == [Contract!Idle EXCEPT !.binding = b]
<1>1. g \in Nat
  BY DEF TypeOK
<1>2. a \in AttemptRecords /\ CallOf(a) = idle
  BY <1>1, RequestedType, CallOfRequested
<1>3. Calls[i].phase = "idle"
  BY DEF Invoke, Calls, CallOf
<1>4. CASE Refuse(i, op, b, h, g, permitted)
  <2>1. Calls' = [Calls EXCEPT ![i] = Contract!Settled(idle, "refused")]
    BY <1>2, <1>4, OneCallChanges, CallOfSettle DEF Refuse
  <2>2. Contract!Refuse(i, b)
    BY <1>3, <2>1 DEF Contract!Refuse, Calls
  <2> QED
    BY <2>2 DEF Contract!Next
<1>5. CASE FailUndelivered(i, op, b, h, g, permitted)
  <2>1. ~a.dispatched
    BY DEF Requested
  <2>2. CallOf(Disconnected(a)) = Contract!Lost(idle, "failed")
    BY <1>2, <2>1, CallOfDisconnected
  <2>3. Calls' = [Calls EXCEPT ![i] = Contract!Lost(idle, "failed")]
    BY <1>5, <2>2, OneCallChanges DEF FailUndelivered
  <2>4. Contract!FailUnsent(i, b)
    BY <1>3, <2>3 DEF Contract!FailUnsent, Calls
  <2> QED
    BY <2>4 DEF Contract!Next
<1>6. CASE Dispatch(i, op, b, h, g, permitted)
  <2> DEFINE sent == [a EXCEPT !.phase = "pending", !.dispatched = TRUE, !.via = current[h]]
             pending == [Contract!Idle EXCEPT !.phase = "pending", !.binding = b, !.sent = TRUE]
  <2>1. CallOf(sent) = pending
    <3>1. /\ sent.phase = "pending" /\ sent.binding = b /\ sent.dispatched = TRUE
          /\ sent.events = <<>> /\ sent.outcome = "none"
      BY DEF Requested
    <3> HIDE DEF sent
    <3>2. CallOf(sent) = Call("pending", b, TRUE, <<>>, "none")
      BY <3>1 DEF CallOf, Call
    <3> QED
      BY <3>2, SentFields
  <2>2. attempts' = [attempts EXCEPT ![i] = sent]
    BY <1>6 DEF Dispatch
  <2>3. Calls' = [Calls EXCEPT ![i] = pending]
    BY <2>1, <2>2, OneCallChanges
  <2>4. Contract!Free(b)
    BY <1>6, InFlightIsPending DEF Dispatch, Admissible, Contract!Free, CallOf
  <2>5. Contract!Send(i, b)
    BY <1>3, <2>3, <2>4 DEF Contract!Send, Calls
  <2> QED
    BY <2>5 DEF Contract!Next
<1> QED
  BY <1>4, <1>5, <1>6 DEF Invoke

\* A call that is rejected alone is abandoned alone.
LEMMA RejectionAbandons ==
    ASSUME TypeOK, NEW i \in Invocations, Pending(i),
           attempts' = [attempts EXCEPT ![i] = Settle(@, "rejected")]
    PROVE  Contract!Abandon({}, {i})
<1>1. attempts[i] \in AttemptRecords
  BY DEF TypeOK
<1>2. Calls' = [Calls EXCEPT ![i] = Contract!Settled(CallOf(attempts[i]), "rejected")]
  BY <1>1, OneCallChanges, CallOfSettle
<1> QED
  BY <1>2, InFlightIsPending DEF Contract!Abandon, Calls

\* The close event of the current socket: turns end as lost, other operations as
\* rejected.
LEMMA CloseKeepsContract ==
    ASSUME TypeOK, \A i \in Invocations : AttemptInv(attempts[i]),
           NEW s \in Sockets, CurrentSocketClosed(s)
    PROVE  Contract!Next
<1> DEFINE h == sockHost[s]
           theirs == {i \in Invocations : Pending(i) /\ attempts[i].host = h}
           lost == {i \in theirs : attempts[i].op = "turn.start"}
           rejected == theirs \ lost
<1>1. ASSUME NEW i \in Invocations
      PROVE  CallOf(attempts'[i]) =
                IF i \in lost THEN Contract!Lost(CallOf(attempts[i]), "unknown")
                ELSE IF i \in rejected THEN Contract!Settled(CallOf(attempts[i]), "rejected")
                ELSE CallOf(attempts[i])
  <2>1. attempts[i] \in AttemptRecords
    BY DEF TypeOK
  <2>2. attempts'[i] = IF i \in lost THEN Disconnected(attempts[i])
                       ELSE IF i \in rejected THEN Settle(attempts[i], "rejected")
                       ELSE attempts[i]
    BY DEF CurrentSocketClosed, Abandoned
  <2>3. i \in lost => attempts[i].dispatched
    BY DEF AttemptInv, Pending
  <2>4. i \in lost => CallOf(Disconnected(attempts[i]))
                        = Contract!Lost(CallOf(attempts[i]), "unknown")
    BY <2>1, <2>3, CallOfDisconnected
  <2>5. CallOf(Settle(attempts[i], "rejected"))
          = Contract!Settled(CallOf(attempts[i]), "rejected")
    BY <2>1, CallOfSettle
  <2> HIDE DEF lost, rejected
  <2> QED
    BY <2>2, <2>4, <2>5
<1>2. \A i \in lost \cup rejected : Contract!InFlight(i)
  BY InFlightIsPending
<1>3. lost \in SUBSET Invocations /\ rejected \in SUBSET Invocations
  OBVIOUS
<1> HIDE DEF lost, rejected
<1>4. Contract!Abandon(lost, rejected)
  BY <1>1, <1>2, <1>3 DEF Contract!Abandon
<1> QED
  BY <1>3, <1>4 DEF Contract!Next

\* What an accepted event frame does to its call.
LEMMA OutputDelivers ==
    ASSUME TypeOK, NEW s, NEW i \in Invocations, NEW n, Pending(i), AcceptOutput(s, i, n)
    PROVE  Contract!Deliver(i)
<1> DEFINE e == [sequence |-> n, kind |-> "output"]
<1>1. attempts[i] \in AttemptRecords
  BY DEF TypeOK
<1>2. attempts' = [attempts EXCEPT ![i] = [attempts[i] EXCEPT !.events = Append(@, e)]]
  BY DEF AcceptOutput, TypeOK
<1>3. Calls' = [Calls EXCEPT ![i] = [CallOf(attempts[i]) EXCEPT !.events = Append(@, e)]]
  BY <1>1, <1>2, OneCallChanges, CallOfAppend
<1>4. e = [sequence |-> Len(CallOf(attempts[i]).events) + 1, kind |-> "output"]
  BY DEF AcceptOutput, CallOf
<1> HIDE DEF e
<1> QED
  BY <1>3, <1>4, InFlightIsPending DEF Contract!Deliver, Calls

LEMMA TerminalFinishes ==
    ASSUME TypeOK, NEW s, NEW i \in Invocations, NEW n \in Nat, Pending(i),
           AttemptInv(attempts[i]), FenceAccepts(i, n), AcceptTerminal(s, i, n)
    PROVE  Contract!Finish(i, n)
<1> DEFINE a == attempts[i]
           heard == [a EXCEPT !.events = Append(@, Terminal(n))]
<1>1. a \in AttemptRecords /\ a.events \in Seq(Events)
  BY DEF TypeOK, AttemptRecords
<1>2. n > Len(a.events)
  BY <1>1, LastOutput DEF FenceAccepts, AttemptInv, Pending
<1>3. heard \in AttemptRecords
  <2>1. Terminal(n) \in Events
    BY <1>2, <1>1 DEF Terminal, Events
  <2> QED
    BY <1>1, <2>1, AppendEventType
<1>4. CallOf(Settle(heard, "events")) = Contract!Ended(CallOf(a), "events", n)
  <2>1. CallOf(Settle(heard, "events")) = Contract!Settled(CallOf(heard), "events")
    BY <1>3, CallOfSettle
  <2>2. CallOf(heard) = [CallOf(a) EXCEPT !.events = Append(@, Contract!TerminalEvent(n))]
    BY <1>1, CallOfAppend DEF Terminal, Contract!TerminalEvent
  <2> QED
    BY <2>1, <2>2, SettledEnds
<1>5. attempts' = [attempts EXCEPT ![i] = Settle(heard, "events")]
  BY DEF AcceptTerminal
<1> HIDE DEF heard
<1>6. Calls' = [Calls EXCEPT ![i] = Contract!Ended(CallOf(a), "events", n)]
  BY <1>4, <1>5, OneCallChanges
<1>7. n > Len(CallOf(a).events)
  BY <1>2 DEF CallOf
<1> QED
  BY <1>6, <1>7, InFlightIsPending DEF Contract!Finish, Calls

LEMMA EventKeepsContract ==
    ASSUME TypeOK, \A i \in Invocations : AttemptInv(attempts[i]),
           NEW s \in Sockets, NEW i \in Invocations, NEW kind \in {"output", "terminal"},
           NEW n \in 1..MaxSequence, NEW wellFormed \in BOOLEAN,
           HostEvent(s, i, kind, n, wellFormed)
    PROVE  Contract!Next \/ UNCHANGED Calls
<1>1. CASE UNCHANGED attempts
  BY <1>1, CallsUnchanged
<1>2. CASE Pending(i) /\ RejectFrame(s, i)
  <2>1. Contract!Abandon({}, {i})
    BY <1>2, RejectionAbandons DEF RejectFrame
  <2> QED
    BY <2>1 DEF Contract!Next
<1>3. CASE Pending(i) /\ AcceptOutput(s, i, n)
  BY <1>3, OutputDelivers DEF Contract!Next
<1>4. CASE Pending(i) /\ FenceAccepts(i, n) /\ AcceptTerminal(s, i, n)
  <2>1. n \in Nat
    OBVIOUS
  <2>2. Contract!Finish(i, n)
    BY <1>4, <2>1, TerminalFinishes
  <2> QED
    BY <2>2 DEF Contract!Next
<1> QED
  BY <1>1, <1>2, <1>3, <1>4 DEF HostEvent, Owned

LEMMA ResultKeepsContract ==
    ASSUME TypeOK, NEW s \in Sockets, NEW i \in Invocations, NEW wellFormed \in BOOLEAN,
           HostResult(s, i, wellFormed)
    PROVE  Contract!Next \/ UNCHANGED Calls
<1>1. CASE UNCHANGED attempts
  BY <1>1, CallsUnchanged
<1>2. CASE Pending(i) /\ attempts' = [attempts EXCEPT ![i] = Settle(@, "rejected")]
  <2>1. Contract!Abandon({}, {i})
    BY <1>2, RejectionAbandons
  <2> QED
    BY <2>1 DEF Contract!Next
<1>3. CASE Pending(i) /\ attempts' = [attempts EXCEPT ![i] = Settle(@, "result")]
  <2>1. attempts[i] \in AttemptRecords
    BY DEF TypeOK
  <2>2. Calls' = [Calls EXCEPT ![i] = Contract!Settled(CallOf(attempts[i]), "result")]
    BY <1>3, <2>1, OneCallChanges, CallOfSettle
  <2>3. Contract!Answer(i)
    BY <1>3, <2>2, InFlightIsPending DEF Contract!Answer, Calls
  <2> QED
    BY <2>3 DEF Contract!Next
<1> QED
  BY <1>1, <1>2, <1>3 DEF HostResult, Owned, RejectFrame, TypeOK

LEMMA FrameKeepsContract ==
    ASSUME TypeOK, \A i \in Invocations : AttemptInv(attempts[i]), FrameStep
    PROVE  Contract!Next \/ UNCHANGED Calls
<1> PICK s \in Sockets :
        \/ MalformedFrame(s)
        \/ \E i \in Invocations, n \in 1..MaxSequence, wellFormed \in BOOLEAN :
              \/ \E kind \in {"output", "terminal"} :
                    HostEvent(s, i, kind, n, wellFormed)
              \/ HostEventGap(s, i, n)
              \/ HostResult(s, i, wellFormed)
  BY DEF FrameStep
<1>1. CASE MalformedFrame(s)
  BY <1>1, CallsUnchanged DEF MalformedFrame
<1>2. ASSUME NEW i \in Invocations, NEW n \in 1..MaxSequence, HostEventGap(s, i, n)
      PROVE  Contract!Next
  BY <1>2, ProcessEndsVanish DEF HostEventGap, Contract!Next
<1> QED
  BY <1>1, <1>2, EventKeepsContract, ResultKeepsContract

\* A cancellation is not seen in its call, which stays in flight.
LEMMA CancelUnseen == TypeOK /\ CancelStep => UNCHANGED Calls
<1> SUFFICES ASSUME TypeOK, NEW i \in Invocations, Cancel(i) PROVE Calls' = Calls
  BY DEF CancelStep
<1> DEFINE a == [attempts[i] EXCEPT !.cancelledVia = current[attempts[i].host]]
<1>1. attempts' = [attempts EXCEPT ![i] = a]
  BY DEF Cancel
<1>2. CallOf(a) = CallOf(attempts[i])
  BY DEF CallOf, TypeOK, AttemptRecords
<1> HIDE DEF a
<1>3. Calls' = [Calls EXCEPT ![i] = CallOf(attempts[i])]
  BY <1>1, <1>2, OneCallChanges
<1> QED
  BY <1>3 DEF Calls

\* Every step of the gateway is a step of the contract, or its callers do not see it.
LEMMA StepKeepsContract == IInv /\ [Next]_vars => Contract!Next \/ UNCHANGED Calls
<1> SUFFICES ASSUME TypeOK, \A i \in Invocations : AttemptInv(attempts[i]), [Next]_vars
             PROVE  Contract!Next \/ UNCHANGED Calls
  BY DEF IInv
<1>1. CASE UNCHANGED attempts
  BY <1>1, CallsUnchanged
<1>2. CASE ProcessEnds
  BY <1>2, ProcessEndsVanish DEF Contract!Next
<1>3. CASE UpgradeStep \/ CommitStep \/ ReadinessStep
  BY <1>1, <1>3 DEF UpgradeStep, Upgrade, CommitStep, CommitActivity, CommitReconnect,
                    ReadinessStep, ReportReadiness
<1>4. CASE CloseStep
  BY <1>1, <1>4, CloseKeepsContract DEF CloseStep, PeerCloses, SocketClosed, ReplacedSocketClosed
<1>5. CASE CommitFails \/ Crash
  BY <1>1, <1>2, <1>5 DEF CommitFails, Crash
<1> QED
  BY <1>1, <1>3, <1>4, <1>5, InvokeKeepsContract, CancelUnseen, FrameKeepsContract
  DEF Next, Handlers, vars

\* Replaced sockets, late frames, failed commits and restarts look to the callers
\* of hostControl.invoke like a behaviour of the contract.
THEOREM GatewayKeepsContract == Spec => ImplementsContract
<1>1. Init => Contract!Init
  BY CallsInit
<1>2. IInv /\ [Next]_vars => [Contract!Next]_Calls
  BY StepKeepsContract
<1>3. Contract!Spec <=> Contract!Init /\ [][Contract!Next]_Calls
  BY DEF Contract!Spec, Calls
<1> QED
  BY <1>1, <1>2, <1>3, Invariance, PTL DEF Spec, ImplementsContract
=============================================================================
