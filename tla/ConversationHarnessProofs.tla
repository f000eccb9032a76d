----------------------- MODULE ConversationHarnessProofs -----------------------
(***************************************************************************)
(* Proofs about ConversationHarness, for every set of conversations and    *)
(* turns, every assignment of bindings and all bounds.                     *)
(***************************************************************************)
EXTENDS ConversationHarness, TLAPS

-----------------------------------------------------------------------------
(***************************************************************************)
(* The inductive invariant.                                                *)
(***************************************************************************)

\* A call has an outcome only when it is settled.
CallInv ==
    \A id \in CallIds :
        calls[id].phase \in {"idle", "pending"} => calls[id].outcome = "none"

OnlyOutput(log) == \A k \in 1..Len(log) : log[k] = "output"

\* The log of an attempt that ended: output, and its outcome at the end.
ClosedWith(log, outcome) ==
    /\ log # <<>>
    /\ log[Len(log)] = outcome
    /\ \A k \in 1..Len(log) : k # Len(log) => log[k] = "output"

\* The stages of a turn that waits in the backlog, and of one whose code runs.
Backlogged == {"queued", "aborted"}
Running == {"ensuring", "mapping", "executing", "driving", "speaking", "finishing", "done"}

\* What holds of one turn, whatever the others do.
TurnInv(r) ==
    /\ r.stage # "unaccepted" => r.conversation \in Conversations
    /\ r.attempt = "none" <=> r.stage \notin Running
    /\ r.stage \in Running \ {"executing", "done"} => r.attempt = "open"
    /\ r.stage = "done" => r.attempt \in AttemptOutcomes
    /\ r.terminal <=> r.attempt \in AttemptOutcomes
    /\ r.stage = "finishing" => r.ending \in AttemptOutcomes
    /\ IF r.attempt \in AttemptOutcomes THEN ClosedWith(r.log, r.attempt)
       ELSE OnlyOutput(r.log)

Waits(r, c) == r.stage \in Backlogged /\ r.conversation = c

Holds(q, t) == \E k \in 1..Len(q) : q[k] = t
Once(q) == \A k, m \in 1..Len(q) : q[k] = q[m] => k = m

\* The backlog of a conversation holds the turns that wait in it, each once.
BacklogInv ==
    \A c \in Conversations :
        /\ Once(backlog[c])
        /\ \A t \in Turns : Holds(backlog[c], t) <=> Waits(turn[t], c)

\* The active turn of a conversation is the one whose attempt is open.
ActiveInv ==
    /\ \A t \in Turns : turn[t].attempt = "open" => active[Conv(t)] = t
    /\ \A c \in Conversations :
          active[c] # None => Conv(active[c]) = c /\ turn[active[c]].attempt = "open"

\* Only a turn that is executing has a turn.start in flight.
FlightInv == \A t \in Turns : Host!InFlight(Start(t)) => At(t, "executing")

\* A thread is ensured only for a conversation without a mapping.
MappingInv ==
    /\ MappedOnce
    /\ \A t \in Turns : turn[t].stage \in {"ensuring", "mapping"} => mappings[Conv(t)] = 0

IInv ==
    /\ TypeOK
    /\ CallInv
    /\ \A t \in Turns : TurnInv(turn[t])
    /\ BacklogInv
    /\ ActiveInv
    /\ FlightInv
    /\ MappingInv

-----------------------------------------------------------------------------
(***************************************************************************)
(* The calls.                                                              *)
(***************************************************************************)

\* The harness meets its calls only through the steps of the contract.
LEMMA HostSteps == IInv /\ [Next]_vars => [Host!Next]_calls
<1> SUFFICES ASSUME IInv, [Next]_vars PROVE Host!Next \/ UNCHANGED calls
  OBVIOUS
<1>1. ASSUME NEW t \in Turns
      PROVE  Ensure(t) \in CallIds /\ Start(t) \in CallIds
  BY DEF Ensure, Start, CallIds
<1>2. ASSUME NEW t \in Turns, NEW b \in Bindings,
             \/ Host!Refuse(Start(t), b) \/ Host!FailUnsent(Start(t), b) \/ Host!Send(Start(t), b)
             \/ Host!Refuse(Ensure(t), b) \/ Host!Send(Ensure(t), b)
      PROVE  Host!Next
  BY <1>1, <1>2 DEF Host!Next
<1>3. ASSUME NEW c \in Conversations, NEW t \in Turns, Accept(c, t)
      PROVE  Host!Next \/ UNCHANGED calls
  BY <1>2, <1>3, HarnessAssumption
  DEF Accept, Enqueue, DispatchTurn, StartExecution, EnsureThread
<1>4. ASSUME NEW t \in Turns, SettleEnsure(t) \/ HostDelivers(t) \/ SettleStart(t)
      PROVE  Host!Next
  <2>1. {} \in SUBSET CallIds /\ {Ensure(t)} \in SUBSET CallIds /\ {Start(t)} \in SUBSET CallIds
    BY <1>1
  <2> QED
    BY <1>1, <1>4, <2>1 DEF SettleEnsure, HostDelivers, SettleStart, Host!Next
<1>5. ASSUME NEW t \in Turns, MappingCommitted(t) PROVE Host!Next
  <2>1. Conv(t) \in Conversations
    BY <1>5 DEF MappingCommitted, At, Conv, IInv, TurnInv
  <2>2. BindingOf[Conv(t)] \in Bindings
    BY <2>1, HarnessAssumption
  <2> QED
    BY <1>2, <1>5, <2>2 DEF MappingCommitted, StartExecution
<1>6. ASSUME NEW t \in Turns, Continue(t), ~MappingCommitted(t) PROVE UNCHANGED calls
  BY <1>6 DEF Continue, ThreadEnsured, EnsureFails, MappingFails, ExecutionRejected,
              ExecutionResolved, RouteOutput, SkipEvent, RouteTerminal, SpeechWritten,
              SpeechFinished
<1>7. ASSUME NEW c \in Conversations, CancelTurn(c) \/ NewSession(c) PROVE UNCHANGED calls
  BY <1>7 DEF CancelTurn, NewSession
<1>8. CASE UNCHANGED vars
  BY <1>8 DEF vars
<1> QED
  BY <1>3, <1>4, <1>5, <1>6, <1>7, <1>8 DEF Next, ClientStep, HostStep

\* The transformations of a call keep it a call with an outcome only once settled.
LEMMA CallAppend ==
    ASSUME NEW a \in Host!CallRecords, NEW e \in Host!CallEvents
    PROVE  /\ [a EXCEPT !.events = Append(@, e)] \in Host!CallRecords
           /\ [a EXCEPT !.events = Append(@, e)].phase = a.phase
           /\ [a EXCEPT !.events = Append(@, e)].outcome = a.outcome
BY DEF Host!CallRecords

LEMMA CallEnds ==
    ASSUME NEW a \in Host!CallRecords, NEW n \in Nat,
           NEW o \in {"refused", "failed", "events", "result", "unknown", "rejected", "vanished"}
    PROVE  /\ Host!Settled(a, o) \in Host!CallRecords /\ Host!Settled(a, o).phase = "settled"
           /\ Host!Ended(a, o, n) \in Host!CallRecords /\ Host!Ended(a, o, n).phase = "settled"
           /\ Host!Lost(a, o) \in Host!CallRecords /\ Host!Lost(a, o).phase = "settled"
<1>1. Host!Settled(a, o) \in Host!CallRecords /\ Host!Settled(a, o).phase = "settled"
  BY DEF Host!Settled, Host!CallRecords
<1>2. ASSUME NEW m \in Nat
      PROVE  Host!Ended(a, o, m) \in Host!CallRecords /\ Host!Ended(a, o, m).phase = "settled"
  <2>1. Host!TerminalEvent(m) \in Host!CallEvents
    BY DEF Host!TerminalEvent, Host!CallEvents
  <2> QED
    BY <1>1, <2>1, CallAppend DEF Host!Ended
<1>3. Len(a.events) + 1 \in Nat
  BY DEF Host!CallRecords
<1> QED
  BY <1>1, <1>2, <1>3 DEF Host!Lost

LEMMA IdleType ==
    ASSUME NEW b \in Bindings
    PROVE  /\ Host!Idle \in Host!CallRecords
           /\ [Host!Idle EXCEPT !.binding = b] \in Host!CallRecords
           /\ [Host!Idle EXCEPT !.phase = "pending", !.binding = b, !.sent = TRUE]
                 \in Host!CallRecords
<1>1. Host!Idle \in Host!CallRecords
  BY DEF Host!Idle, Host!CallRecords
<1> QED
  BY <1>1 DEF Host!CallRecords

\* What the contract's steps keep of every call.
LEMMA CallStep ==
    ASSUME calls \in [CallIds -> Host!CallRecords], CallInv, [Host!Next]_calls
    PROVE  /\ calls' \in [CallIds -> Host!CallRecords]
           /\ CallInv'
<1> USE DEF CallInv
<1>1. ASSUME NEW id \in CallIds, NEW a \in Host!CallRecords,
             a.phase \in {"idle", "pending"} => a.outcome = "none",
             calls' = [calls EXCEPT ![id] = a]
      PROVE  calls' \in [CallIds -> Host!CallRecords] /\ CallInv'
  BY <1>1
<1>2. ASSUME NEW id \in CallIds, NEW b \in Bindings,
             Host!Refuse(id, b) \/ Host!FailUnsent(id, b) \/ Host!Send(id, b)
      PROVE  calls' \in [CallIds -> Host!CallRecords] /\ CallInv'
  <2> DEFINE idle == [Host!Idle EXCEPT !.binding = b]
             sent == [Host!Idle EXCEPT !.phase = "pending", !.binding = b, !.sent = TRUE]
  <2>1. idle \in Host!CallRecords /\ sent \in Host!CallRecords
    BY IdleType
  <2>2. sent.outcome = "none"
    BY DEF Host!Idle
  <2>3. \/ calls' = [calls EXCEPT ![id] = Host!Settled(idle, "refused")]
        \/ calls' = [calls EXCEPT ![id] = Host!Lost(idle, "failed")]
        \/ calls' = [calls EXCEPT ![id] = sent]
    BY <1>2 DEF Host!Refuse, Host!FailUnsent, Host!Send
  <2> HIDE DEF idle, sent
  <2> QED
    <3>1. \A o \in {"refused", "failed"} :
             /\ Host!Settled(idle, o) \in Host!CallRecords /\ Host!Settled(idle, o).phase = "settled"
             /\ Host!Lost(idle, o) \in Host!CallRecords /\ Host!Lost(idle, o).phase = "settled"
      BY <2>1, CallEnds
    <3> QED
      BY <1>1, <2>1, <2>2, <2>3, <3>1
<1>3. ASSUME NEW id \in CallIds, Host!Deliver(id)
      PROVE  calls' \in [CallIds -> Host!CallRecords] /\ CallInv'
  <2> DEFINE e == [sequence |-> Len(calls[id].events) + 1, kind |-> "output"]
             a == [calls[id] EXCEPT !.events = Append(@, e)]
  <2>1. calls[id] \in Host!CallRecords
    OBVIOUS
  <2>2. e \in Host!CallEvents
    BY <2>1 DEF Host!CallRecords, Host!CallEvents
  <2> HIDE DEF e
  <2>3. a \in Host!CallRecords /\ a.phase = calls[id].phase /\ a.outcome = calls[id].outcome
    BY <2>1, <2>2, CallAppend
  <2>4. calls' = [calls EXCEPT ![id] = a]
    BY <1>3 DEF Host!Deliver, e
  <2> HIDE DEF a
  <2> QED
    BY <1>1, <2>3, <2>4
<1>4. ASSUME NEW id \in CallIds, NEW n \in 1..(MaxEvents + 1),
             Host!Answer(id) \/ Host!Finish(id, n)
      PROVE  calls' \in [CallIds -> Host!CallRecords] /\ CallInv'
  <2>1. calls[id] \in Host!CallRecords /\ n \in Nat
    BY HarnessAssumption
  <2>2. \/ calls' = [calls EXCEPT ![id] = Host!Settled(calls[id], "result")]
        \/ calls' = [calls EXCEPT ![id] = Host!Ended(calls[id], "events", n)]
    BY <1>4 DEF Host!Answer, Host!Finish
  <2>3. \A o \in {"result", "events"} :
           /\ Host!Settled(calls[id], o) \in Host!CallRecords
           /\ Host!Settled(calls[id], o).phase = "settled"
           /\ Host!Ended(calls[id], o, n) \in Host!CallRecords
           /\ Host!Ended(calls[id], o, n).phase = "settled"
    BY <2>1, CallEnds
  <2> QED
    BY <1>1, <2>2, <2>3
<1>5. ASSUME calls' \in [CallIds -> Host!CallRecords],
             \A id \in CallIds : calls'[id] = calls[id] \/ calls'[id].phase = "settled"
      PROVE  calls' \in [CallIds -> Host!CallRecords] /\ CallInv'
  BY <1>5
<1>6. ASSUME NEW lost \in SUBSET CallIds, NEW rejected \in SUBSET CallIds,
             Host!Abandon(lost, rejected)
      PROVE  calls' \in [CallIds -> Host!CallRecords] /\ CallInv'
  <2>1. ASSUME NEW id \in CallIds
        PROVE  /\ calls'[id] \in Host!CallRecords
               /\ calls'[id] = calls[id] \/ calls'[id].phase = "settled"
    <3>1. calls[id] \in Host!CallRecords
      OBVIOUS
    <3>2. calls'[id] \in {Host!Lost(calls[id], "unknown"), Host!Settled(calls[id], "rejected"),
                          calls[id]}
      BY <1>6 DEF Host!Abandon
    <3> QED
      BY <3>1, <3>2, CallEnds
  <2>2. calls' = [id \in CallIds |-> calls'[id]]
    BY <1>6 DEF Host!Abandon
  <2> QED
    BY <2>1, <2>2, <1>5
<1>7. ASSUME Host!Vanish
      PROVE  calls' \in [CallIds -> Host!CallRecords] /\ CallInv'
  <2>1. ASSUME NEW id \in CallIds
        PROVE  /\ calls'[id] \in Host!CallRecords
               /\ calls'[id] = calls[id] \/ calls'[id].phase = "settled"
    <3>1. calls[id] \in Host!CallRecords
      OBVIOUS
    <3>2. calls'[id] \in {Host!Settled(calls[id], "vanished"), calls[id]}
      BY <1>7 DEF Host!Vanish
    <3> QED
      BY <3>1, <3>2, CallEnds
  <2>2. calls' = [id \in CallIds |-> calls'[id]]
    BY <1>7 DEF Host!Vanish
  <2> QED
    BY <2>1, <2>2, <1>5
<1>8. CASE UNCHANGED calls
  BY <1>8
<1> QED
  <2>1. 1 \in 1..(MaxEvents + 1)
    BY HarnessAssumption
  <2> HIDE DEF CallInv
  <2> QED
    BY <1>2, <1>3, <1>4, <1>6, <1>7, <1>8, <2>1 DEF Host!Next

-----------------------------------------------------------------------------
(***************************************************************************)
(* What a step does to the turns.                                          *)
(***************************************************************************)

Enqueues ==
    \E c \in Conversations, t \in Turns : At(t, "unaccepted") /\ Enqueue(c, t)

\* A new turn becomes active and waits for the thread or for its execution.
Fresh(c, stage) ==
    [NewTurn EXCEPT !.conversation = c, !.session = session[c],
                    !.attempt = "open", !.stage = stage]

Dispatches ==
    \E c \in Conversations, t \in Turns, stage \in {"ensuring", "executing"} :
        /\ At(t, "unaccepted")
        /\ active[c] = None
        /\ stage = "ensuring" => mappings[c] = 0
        /\ active' = [active EXCEPT ![c] = t]
        /\ turn' = [turn EXCEPT ![t] = Fresh(c, stage)]
        /\ UNCHANGED backlog

Aborts == \E t \in Turns : turn[t].attempt = "open" /\ AbortDispatch(t)

\* The code of a turn goes on; its attempt stays as it is, or ends.
Proceeds(t, r) ==
    /\ turn' = [turn EXCEPT ![t] = r]
    /\ r \in TurnRecords
    /\ TurnInv(r)
    /\ turn[t].stage \in Running /\ r.stage \in Running
    /\ r.conversation = Conv(t)
    /\ r.stage \in {"ensuring", "mapping"} => turn[t].stage \in {"ensuring", "mapping"}
    /\ UNCHANGED backlog
    /\ \/ /\ r.attempt = turn[t].attempt
          /\ Ended(t) => r.log = turn[t].log
          /\ UNCHANGED active
       \/ /\ turn[t].attempt = "open" /\ r.attempt \in AttemptOutcomes
          /\ active' = [active EXCEPT ![Conv(t)] = None]

Moves ==
    \/ Enqueues
    \/ Dispatches
    \/ Aborts
    \/ \E t \in Turns : \E r : Proceeds(t, r)
    \/ UNCHANGED <<turn, backlog, active>>

LEMMA LogEnds ==
    ASSUME NEW log \in Seq({"output"} \cup AttemptOutcomes), OnlyOutput(log),
           NEW o \in AttemptOutcomes
    PROVE  /\ OnlyOutput(Append(log, "output"))
           /\ Append(log, "output") \in Seq({"output"} \cup AttemptOutcomes)
           /\ ClosedWith(Append(log, o), o)
           /\ Append(log, o) \in Seq({"output"} \cup AttemptOutcomes)
<1> DEFINE S == {"output"} \cup AttemptOutcomes
<1>1. "output" \in S /\ o \in S
  OBVIOUS
<1> HIDE DEF S
<1>2. ASSUME NEW x \in S
      PROVE  /\ Append(log, x) \in Seq(S) /\ Len(Append(log, x)) = Len(log) + 1
             /\ Len(log) \in Nat
             /\ Append(log, x)[Len(log) + 1] = x
             /\ \A k \in 1..Len(log) : Append(log, x)[k] = "output"
  BY DEF OnlyOutput, S
<1>3. OnlyOutput(Append(log, "output"))
  BY <1>1, <1>2 DEF OnlyOutput
<1>4. ClosedWith(Append(log, o), o)
  <2> DEFINE all == Append(log, o)
  <2>1. /\ Len(all) = Len(log) + 1 /\ Len(log) \in Nat /\ all[Len(log) + 1] = o
        /\ \A k \in 1..Len(log) : all[k] = "output"
    BY <1>1, <1>2
  <2> HIDE DEF all
  <2>2. all # <<>>
    BY <2>1
  <2>3. ClosedWith(all, o)
    BY <2>1, <2>2 DEF ClosedWith
  <2> QED
    BY <2>3 DEF all
<1> QED
  BY <1>1, <1>2, <1>3, <1>4 DEF S

LEMMA AcceptMoves ==
    ASSUME TypeOK, NEW c \in Conversations, NEW t \in Turns, Accept(c, t)
    PROVE  Moves
<1> DEFINE record == [NewTurn EXCEPT !.conversation = c, !.session = session[c],
                                     !.attempt = "open"]
<1>1. \A stage \in {"ensuring", "executing"} :
         [record EXCEPT !.stage = stage] = Fresh(c, stage)
  BY DEF Fresh, NewTurn
<1> HIDE DEF record
<1>2. CASE Enqueue(c, t)
  BY <1>2 DEF Accept, Moves, Enqueues
<1>3. CASE active[c] = None /\ mappings[c] = 0 /\ EnsureThread(t, c, record) /\ DispatchTurn(c, t)
  BY <1>1, <1>3 DEF Accept, DispatchTurn, EnsureThread, Moves, Dispatches
<1>4. CASE active[c] = None /\ StartExecution(t, c, record) /\ DispatchTurn(c, t)
  BY <1>1, <1>4 DEF Accept, DispatchTurn, StartExecution, Moves, Dispatches
<1> QED
  BY <1>2, <1>3, <1>4 DEF Accept, DispatchTurn, record

\* A stage that changes alone.
LEMMA StageMoves ==
    ASSUME IInv, NEW t \in Turns, NEW stage \in Running,
           turn[t].stage \in Running,
           stage \in {"ensuring", "mapping"} => turn[t].stage \in {"ensuring", "mapping"},
           stage \in Running \ {"executing", "done"} => turn[t].attempt = "open",
           stage = "done" => turn[t].attempt \in AttemptOutcomes,
           stage # "finishing",
           turn' = [turn EXCEPT ![t].stage = stage],
           UNCHANGED <<backlog, active>>
    PROVE  Moves
<1> DEFINE r == [turn[t] EXCEPT !.stage = stage]
<1>1. turn[t] \in TurnRecords /\ TurnInv(turn[t])
  BY DEF IInv, TypeOK
<1>2. /\ r \in TurnRecords /\ r.stage = stage /\ r.conversation = turn[t].conversation
      /\ r.attempt = turn[t].attempt /\ r.terminal = turn[t].terminal /\ r.log = turn[t].log
  BY <1>1 DEF TurnRecords, Stages, Running
<1>3. turn' = [turn EXCEPT ![t] = r]
  OBVIOUS
<1> HIDE DEF r
<1>4. TurnInv(r)
  BY <1>1, <1>2 DEF TurnInv, Running
<1> QED
  BY <1>2, <1>3, <1>4 DEF Moves, Proceeds, Conv

\* A dispatch that is aborted: its attempt was open.
LEMMA AbortMoves ==
    ASSUME IInv, NEW t \in Turns, turn[t].attempt = "open", AbortDispatch(t)
    PROVE  Moves
BY DEF Moves, Aborts

LEMMA DispatchMoves ==
    ASSUME IInv, NEW t \in Turns,
           \/ ThreadEnsured(t) \/ EnsureFails(t) \/ MappingCommitted(t) \/ MappingFails(t)
           \/ ExecutionRejected(t) \/ ExecutionResolved(t)
    PROVE  Moves
<1>1. turn[t] \in TurnRecords /\ TurnInv(turn[t])
  BY DEF IInv, TypeOK
<1>2. CASE ThreadEnsured(t)
  <2>1. turn[t].stage = "ensuring" /\ turn[t].attempt = "open"
    BY <1>1, <1>2 DEF ThreadEnsured, At, TurnInv, Running
  <2> QED
    BY <1>2, <2>1, StageMoves DEF ThreadEnsured, routingVars, Running
<1>3. CASE EnsureFails(t) \/ MappingFails(t)
  <2>1. turn[t].attempt = "open"
    BY <1>1, <1>3 DEF EnsureFails, MappingFails, At, TurnInv, Running
  <2> QED
    BY <1>3, <2>1, AbortMoves DEF EnsureFails, MappingFails
<1>4. CASE MappingCommitted(t)
  <2>1. turn[t].stage = "mapping"
    BY <1>4 DEF MappingCommitted, At
  <2>2. turn' = [turn EXCEPT ![t].stage = "executing"] /\ UNCHANGED <<backlog, active>>
    BY <1>4 DEF MappingCommitted, StartExecution, routingVars
  <2> QED
    BY <2>1, <2>2, StageMoves DEF Running
<1>5. CASE ExecutionRejected(t)
  <2>1. turn[t].stage = "executing"
    BY <1>5 DEF ExecutionRejected, At
  <2>2. CASE turn[t].attempt = "open" /\ AbortDispatch(t)
    BY <2>2, AbortMoves
  <2>3. CASE turn[t].attempt # "open" /\ turn' = [turn EXCEPT ![t].stage = "done"]
             /\ UNCHANGED routingVars
    <3>1. turn[t].attempt \in AttemptOutcomes
      BY <1>1, <2>1, <2>3 DEF TurnInv, Running, TurnRecords
    <3> QED
      BY <2>1, <2>3, <3>1, StageMoves DEF Running, routingVars
  <2> QED
    BY <1>5, <2>2, <2>3 DEF ExecutionRejected
<1>6. CASE ExecutionResolved(t)
  <2> DEFINE stage == IF turn[t].terminal THEN "done" ELSE "driving"
  <2>1. turn[t].stage = "executing"
    BY <1>6 DEF ExecutionResolved, At
  <2>2. /\ turn[t].terminal => turn[t].attempt \in AttemptOutcomes
        /\ ~turn[t].terminal => turn[t].attempt = "open"
    BY <1>1, <2>1 DEF TurnInv, Running, TurnRecords
  <2>3. turn' = [turn EXCEPT ![t].stage = stage] /\ UNCHANGED <<backlog, active>>
    BY <1>6 DEF ExecutionResolved, routingVars
  <2>4. \/ stage = "done" /\ turn[t].terminal
        \/ stage = "driving" /\ ~turn[t].terminal
    OBVIOUS
  <2> HIDE DEF stage
  <2> QED
    BY <2>1, <2>2, <2>3, <2>4, StageMoves DEF Running
<1> QED
  BY <1>2, <1>3, <1>4, <1>5, <1>6

\* The drive loop: the attempt is open and its log is output.
LEMMA DriveMoves ==
    ASSUME IInv, NEW t \in Turns,
           \/ RouteOutput(t) \/ SkipEvent(t) \/ SpeechWritten(t)
           \/ \E outcome \in AttemptOutcomes : RouteTerminal(t, outcome)
    PROVE  Moves
<1> DEFINE a == turn[t]
<1>1. a \in TurnRecords /\ TurnInv(a)
  BY DEF IInv, TypeOK
<1>2. a.stage \in {"driving", "speaking"}
  BY DEF RouteOutput, SkipEvent, SpeechWritten, RouteTerminal, At
<1>3. /\ a.attempt = "open" /\ ~a.terminal /\ OnlyOutput(a.log)
      /\ a.conversation \in Conversations /\ a.log \in Seq({"output"} \cup AttemptOutcomes)
      /\ a.routed \in Nat /\ a.position \in Nat
  BY <1>1, <1>2 DEF TurnInv, TurnRecords, AttemptOutcomes, Running
<1>4. /\ OnlyOutput(Append(a.log, "output"))
      /\ Append(a.log, "output") \in Seq({"output"} \cup AttemptOutcomes)
  BY <1>3, LogEnds DEF AttemptOutcomes
<1>5. ASSUME NEW r \in TurnRecords, turn' = [turn EXCEPT ![t] = r],
             UNCHANGED <<backlog, active>>,
             r.stage \in {"driving", "speaking", "finishing"},
             r.stage = "finishing" => r.ending \in AttemptOutcomes,
             r.conversation = a.conversation, r.attempt = a.attempt,
             r.terminal = a.terminal, OnlyOutput(r.log)
      PROVE  Moves
  <2>1. TurnInv(r)
    BY <1>3, <1>5 DEF TurnInv, Running, AttemptOutcomes
  <2>2. ~Ended(t)
    BY <1>3 DEF Ended, AttemptOutcomes
  <2>3. Proceeds(t, r)
    BY <1>2, <1>3, <1>5, <2>1, <2>2 DEF Proceeds, Running, Conv
  <2> QED
    BY <2>3 DEF Moves
<1>6. CASE RouteOutput(t)
  <2> DEFINE n == Event(t).sequence
             p == a.position + 1
             record == [a EXCEPT !.routed = n, !.position = p]
  <2>1. n \in Nat /\ p \in Nat
    BY <1>3, <1>6 DEF RouteOutput, InSequence
  <2> HIDE DEF n, p
  <2>2. /\ record \in TurnRecords /\ record.stage = a.stage
        /\ record.conversation = a.conversation /\ record.attempt = a.attempt
        /\ record.terminal = a.terminal /\ record.log = a.log
    BY <1>1, <1>3, <2>1 DEF TurnRecords
  <2>3. \/ turn' = [turn EXCEPT ![t] = [record EXCEPT !.log = Append(@, "output")]]
        \/ turn' = [turn EXCEPT ![t] = [record EXCEPT !.stage = "speaking"]]
    BY <1>6 DEF RouteOutput, n, p
  <2>4. UNCHANGED <<backlog, active>>
    BY <1>6 DEF RouteOutput, routingVars
  <2>5. a.stage = "driving"
    BY <1>6 DEF RouteOutput, At
  <2> HIDE DEF record, a
  <2>6. CASE turn' = [turn EXCEPT ![t] = [record EXCEPT !.log = Append(@, "output")]]
    <3> DEFINE r == [record EXCEPT !.log = Append(@, "output")]
    <3>1. /\ r \in TurnRecords /\ r.stage = a.stage /\ r.conversation = a.conversation
          /\ r.attempt = a.attempt /\ r.terminal = a.terminal /\ r.log = Append(a.log, "output")
      BY <1>4, <2>2 DEF TurnRecords
    <3> HIDE DEF r
    <3> QED
      BY <1>4, <1>5, <2>4, <2>5, <2>6, <3>1 DEF r
  <2>7. CASE turn' = [turn EXCEPT ![t] = [record EXCEPT !.stage = "speaking"]]
    <3> DEFINE r == [record EXCEPT !.stage = "speaking"]
    <3>1. /\ r \in TurnRecords /\ r.stage = "speaking" /\ r.conversation = a.conversation
          /\ r.attempt = a.attempt /\ r.terminal = a.terminal /\ r.log = a.log
      BY <2>2 DEF TurnRecords, Stages
    <3> HIDE DEF r
    <3> QED
      BY <1>3, <1>5, <2>4, <2>7, <3>1 DEF r
  <2> QED
    BY <2>3, <2>6, <2>7
<1>7. CASE SkipEvent(t)
  <2> DEFINE r == [a EXCEPT !.position = @ + 1]
  <2>1. /\ r \in TurnRecords /\ r.stage = a.stage /\ r.conversation = a.conversation
        /\ r.attempt = a.attempt /\ r.terminal = a.terminal /\ r.log = a.log
    BY <1>1, <1>3 DEF TurnRecords
  <2>2. turn' = [turn EXCEPT ![t] = r] /\ UNCHANGED <<backlog, active>>
    BY <1>7 DEF SkipEvent, routingVars
  <2> HIDE DEF r, a
  <2> QED
    BY <1>2, <1>3, <1>5, <2>1, <2>2
<1>8. CASE SpeechWritten(t)
  <2> DEFINE r == [a EXCEPT !.stage = "driving", !.log = Append(@, "output")]
  <2>1. /\ r \in TurnRecords /\ r.stage = "driving" /\ r.conversation = a.conversation
        /\ r.attempt = a.attempt /\ r.terminal = a.terminal /\ r.log = Append(a.log, "output")
    BY <1>1, <1>4 DEF TurnRecords, Stages
  <2>2. turn' = [turn EXCEPT ![t] = r] /\ UNCHANGED <<backlog, active>>
    BY <1>8 DEF SpeechWritten, routingVars
  <2> HIDE DEF r, a
  <2> QED
    BY <1>4, <1>5, <2>1, <2>2
<1>9. ASSUME NEW outcome \in AttemptOutcomes, RouteTerminal(t, outcome)
      PROVE  Moves
  <2> DEFINE r == [a EXCEPT !.stage = "finishing", !.ending = outcome]
  <2>1. /\ r \in TurnRecords /\ r.stage = "finishing" /\ r.conversation = a.conversation
        /\ r.attempt = a.attempt /\ r.terminal = a.terminal /\ r.log = a.log
        /\ r.ending = outcome
    BY <1>1 DEF TurnRecords, Stages
  <2>2. turn' = [turn EXCEPT ![t] = r] /\ UNCHANGED <<backlog, active>>
    BY <1>9 DEF RouteTerminal, routingVars
  <2> HIDE DEF r, a
  <2> QED
    BY <1>3, <1>5, <2>1, <2>2
<1> QED
  BY <1>6, <1>7, <1>8, <1>9

\* An attempt that is open ends, with its outcome as the last entry of its log.
LEMMA EndMoves ==
    ASSUME IInv, NEW t \in Turns, NEW o \in AttemptOutcomes, NEW r,
           turn[t].stage \in Running, turn[t].attempt = "open",
           r \in TurnRecords, r.stage \in {"executing", "done"},
           r.conversation = turn[t].conversation, r.attempt = "open",
           r.terminal, r.log = Append(turn[t].log, o),
           CompleteAttempt(t, o, r), UNCHANGED backlog
    PROVE  Moves
<1> DEFINE ended == [r EXCEPT !.attempt = o]
<1>1. turn[t] \in TurnRecords /\ TurnInv(turn[t])
  BY DEF IInv, TypeOK
<1>2. ClosedWith(Append(turn[t].log, o), o)
  BY <1>1, LogEnds DEF TurnInv, TurnRecords, AttemptOutcomes
<1>3. /\ ended \in TurnRecords /\ ended.stage = r.stage /\ ended.attempt = o
      /\ ended.conversation = r.conversation /\ ended.terminal = r.terminal
      /\ ended.log = r.log
  BY DEF TurnRecords
<1>4. /\ turn' = [turn EXCEPT ![t] = ended]
      /\ active' = [active EXCEPT ![Conv(t)] = None]
  BY DEF CompleteAttempt
<1> HIDE DEF ended
<1>5. TurnInv(ended)
  BY <1>1, <1>2, <1>3 DEF TurnInv, Running, AttemptOutcomes
<1>6. Proceeds(t, ended)
  BY <1>3, <1>4, <1>5 DEF Proceeds, Running, Conv
<1> QED
  BY <1>6 DEF Moves

LEMMA FinishMoves ==
    ASSUME IInv, NEW t \in Turns, SpeechFinished(t)
    PROVE  Moves
<1> DEFINE a == turn[t]
           r == [a EXCEPT !.stage = "done", !.terminal = TRUE, !.log = Append(@, a.ending)]
<1>1. a \in TurnRecords /\ TurnInv(a) /\ a.stage = "finishing"
  BY DEF IInv, TypeOK, SpeechFinished, At
<1>2. /\ a.attempt = "open" /\ a.ending \in AttemptOutcomes /\ OnlyOutput(a.log)
      /\ a.log \in Seq({"output"} \cup AttemptOutcomes)
  BY <1>1 DEF TurnInv, Running, TurnRecords, AttemptOutcomes
<1>3. Append(a.log, a.ending) \in Seq({"output"} \cup AttemptOutcomes)
  BY <1>2, LogEnds
<1>4. /\ r \in TurnRecords /\ r.stage = "done" /\ r.conversation = a.conversation
      /\ r.attempt = "open" /\ r.terminal /\ r.log = Append(a.log, a.ending)
  BY <1>1, <1>2, <1>3 DEF TurnRecords, Stages
<1>5. CompleteAttempt(t, a.ending, r) /\ UNCHANGED backlog
  BY DEF SpeechFinished
<1> HIDE DEF r
<1> QED
  BY <1>1, <1>2, <1>4, <1>5, EndMoves DEF Running

\* The turn a cancellation ends is executing: only then is its call in flight.
LEMMA CancelMoves ==
    ASSUME IInv, NEW c \in Conversations, CancelTurn(c)
    PROVE  Moves
<1> DEFINE t == sessionActive[c]
           a == turn[t]
           r == [a EXCEPT !.terminal = TRUE, !.log = Append(@, "cancelled")]
<1>1. t \in Turns /\ a.stage = "executing" /\ ~a.terminal
  BY DEF IInv, TypeOK, FlightInv, CancelTurn, At
<1>2. a \in TurnRecords /\ TurnInv(a)
  BY <1>1 DEF IInv, TypeOK
<1>3. /\ a.attempt = "open" /\ OnlyOutput(a.log)
      /\ a.log \in Seq({"output"} \cup AttemptOutcomes)
  BY <1>1, <1>2 DEF TurnInv, Running, TurnRecords
<1>4. "cancelled" \in AttemptOutcomes
  BY DEF AttemptOutcomes
<1>5. Append(a.log, "cancelled") \in Seq({"output"} \cup AttemptOutcomes)
  BY <1>3, <1>4, LogEnds
<1>6. /\ r \in TurnRecords /\ r.stage = "executing" /\ r.conversation = a.conversation
      /\ r.attempt = "open" /\ r.terminal /\ r.log = Append(a.log, "cancelled")
  BY <1>1, <1>2, <1>3, <1>5 DEF TurnRecords
<1>7. CompleteAttempt(t, "cancelled", r) /\ UNCHANGED backlog
  BY DEF CancelTurn
<1> HIDE DEF r, t
<1> QED
  BY <1>1, <1>3, <1>4, <1>6, <1>7, EndMoves DEF Running

LEMMA StepMoves == IInv /\ [Next]_vars => Moves
<1> SUFFICES ASSUME IInv, [Next]_vars PROVE Moves
  OBVIOUS
<1>1. CASE UNCHANGED vars
  BY <1>1 DEF vars, Moves
<1>2. ASSUME NEW c \in Conversations, NEW t \in Turns, Accept(c, t) PROVE Moves
  BY <1>2, AcceptMoves DEF IInv
<1>3. ASSUME NEW c \in Conversations, CancelTurn(c) PROVE Moves
  BY <1>3, CancelMoves
<1>4. ASSUME NEW c \in Conversations, NewSession(c) PROVE Moves
  BY <1>4 DEF NewSession, routingVars, Moves
<1>5. CASE HostStep
  BY <1>5 DEF HostStep, SettleEnsure, HostDelivers, SettleStart, routingVars, Moves
<1>6. ASSUME NEW t \in Turns, Continue(t) PROVE Moves
  BY <1>6, DispatchMoves, DriveMoves, FinishMoves DEF Continue
<1> QED
  BY <1>1, <1>2, <1>3, <1>4, <1>5, <1>6 DEF Next, ClientStep

-----------------------------------------------------------------------------
(***************************************************************************)
(* The invariant is kept: by the moves of the turns ...                    *)
(***************************************************************************)

\* A new turn and one that waits, in their places.
LEMMA FreshTurn ==
    ASSUME TypeOK, NEW c \in Conversations, NEW stage \in {"ensuring", "executing"}
    PROVE  /\ Fresh(c, stage) \in TurnRecords /\ TurnInv(Fresh(c, stage))
           /\ Fresh(c, stage).stage = stage /\ Fresh(c, stage).attempt = "open"
           /\ Fresh(c, stage).conversation = c
<1> DEFINE r == Fresh(c, stage)
<1>1. /\ r.stage = stage /\ r.attempt = "open" /\ r.conversation = c
      /\ ~r.terminal /\ r.log = <<>> /\ r.ending = "none"
      /\ r.session = session[c] /\ r.routed = 0 /\ r.position = 1
  BY DEF Fresh, NewTurn
<1>2. session[c] \in Nat
  BY HarnessAssumption DEF TypeOK
<1>3. r \in TurnRecords
  <2>1. NewTurn \in TurnRecords
    BY DEF NewTurn, TurnRecords, Stages
  <2> QED
    BY <1>2, <2>1 DEF Fresh, TurnRecords, Stages
<1> HIDE DEF r
<1>4. TurnInv(r)
  BY <1>1 DEF TurnInv, Running, AttemptOutcomes, OnlyOutput
<1> QED
  BY <1>1, <1>3, <1>4 DEF r

LEMMA TurnsTyped ==
    ASSUME IInv, Moves
    PROVE  /\ turn' \in [Turns -> TurnRecords]
           /\ \A t \in Turns : TurnInv(turn'[t])
<1>1. turn \in [Turns -> TurnRecords] /\ \A t \in Turns : TurnInv(turn[t])
  BY DEF IInv, TypeOK
<1>2. ASSUME NEW t \in Turns, NEW r \in TurnRecords, TurnInv(r),
             turn' = [turn EXCEPT ![t] = r]
      PROVE  turn' \in [Turns -> TurnRecords] /\ \A u \in Turns : TurnInv(turn'[u])
  BY <1>1, <1>2
<1>3. CASE Enqueues
  <2> PICK c \in Conversations, t \in Turns : At(t, "unaccepted") /\ Enqueue(c, t)
    BY <1>3 DEF Enqueues
  <2> DEFINE r == [turn[t] EXCEPT !.stage = "queued", !.conversation = c,
                                  !.session = session[c]]
  <2>1. session[c] \in Nat
    BY HarnessAssumption DEF IInv, TypeOK
  <2>2. /\ r \in TurnRecords /\ r.stage = "queued" /\ r.conversation = c
        /\ r.attempt = turn[t].attempt /\ r.terminal = turn[t].terminal
        /\ r.log = turn[t].log
    BY <1>1, <2>1 DEF TurnRecords, Stages
  <2>3. turn' = [turn EXCEPT ![t] = r]
    BY <1>1 DEF Enqueue
  <2> HIDE DEF r
  <2>4. TurnInv(r)
    BY <1>1, <2>2 DEF TurnInv, Running, At
  <2> QED
    BY <1>2, <2>2, <2>3, <2>4
<1>4. CASE Dispatches
  <2> PICK c \in Conversations, t \in Turns, stage \in {"ensuring", "executing"} :
              turn' = [turn EXCEPT ![t] = Fresh(c, stage)]
    BY <1>4 DEF Dispatches
  <2>1. Fresh(c, stage) \in TurnRecords /\ TurnInv(Fresh(c, stage))
    BY FreshTurn DEF IInv
  <2> QED
    BY <1>2, <2>1
<1>5. CASE Aborts
  <2> PICK t \in Turns : turn[t].attempt = "open" /\ AbortDispatch(t)
    BY <1>5 DEF Aborts
  <2> DEFINE r == [turn[t] EXCEPT !.attempt = "none", !.stage = "aborted"]
  <2>1. /\ r \in TurnRecords /\ r.stage = "aborted" /\ r.attempt = "none"
        /\ r.conversation = turn[t].conversation
        /\ r.terminal = turn[t].terminal /\ r.log = turn[t].log
    BY <1>1 DEF TurnRecords, Stages
  <2>2. turn' = [turn EXCEPT ![t] = r]
    BY <1>1 DEF AbortDispatch
  <2> HIDE DEF r
  <2>3. TurnInv(r)
    BY <1>1, <2>1 DEF TurnInv, Running, AttemptOutcomes
  <2> QED
    BY <1>2, <2>1, <2>2, <2>3
<1>6. ASSUME NEW t \in Turns, NEW r, Proceeds(t, r)
      PROVE  turn' \in [Turns -> TurnRecords] /\ \A u \in Turns : TurnInv(turn'[u])
  BY <1>2, <1>6 DEF Proceeds
<1>7. CASE UNCHANGED turn
  BY <1>1, <1>7
<1> QED
  BY <1>3, <1>4, <1>5, <1>6, <1>7 DEF Moves

\* A turn that is put at either end of a queue that does not hold it.
LEMMA QueueJoined ==
    ASSUME NEW S, NEW q \in Seq(S), NEW x \in S, Once(q), ~Holds(q, x),
           NEW p, p = Append(q, x) \/ p = <<x>> \o q
    PROVE  /\ p \in Seq(S)
           /\ Once(p)
           /\ \A y : Holds(p, y) <=> Holds(q, y) \/ y = x
<1> DEFINE L == Len(q)
<1>1. L \in Nat /\ \A k \in 1..L : q[k] # x
  BY DEF Holds
<1>2. CASE p = Append(q, x)
  <2>1. /\ p \in Seq(S) /\ Len(p) = L + 1 /\ p[L + 1] = x
        /\ \A k \in 1..L : p[k] = q[k]
    BY <1>2
  <2> HIDE DEF L
  <2>2. Once(p)
    <3> SUFFICES ASSUME NEW k \in 1..(L + 1), NEW m \in 1..(L + 1), p[k] = p[m] PROVE k = m
      BY <2>1 DEF Once
    <3> QED
      BY <1>1, <2>1 DEF Once, L
  <2>3. \A y : Holds(p, y) <=> Holds(q, y) \/ y = x
    <3>1. ASSUME NEW y, NEW k \in 1..(L + 1), p[k] = y PROVE Holds(q, y) \/ y = x
      BY <1>1, <2>1, <3>1 DEF Holds, L
    <3>2. ASSUME NEW y, NEW k \in 1..L, q[k] = y PROVE Holds(p, y)
      BY <1>1, <2>1, <3>2 DEF Holds
    <3>3. Holds(p, x)
      BY <1>1, <2>1 DEF Holds
    <3> QED
      BY <2>1, <3>1, <3>2, <3>3 DEF Holds, L
  <2> QED
    BY <2>1, <2>2, <2>3
<1>3. CASE p = <<x>> \o q
  <2>1. /\ p \in Seq(S) /\ Len(p) = L + 1 /\ p[1] = x
        /\ \A k \in 1..L : p[k + 1] = q[k]
    BY <1>3
  <2> HIDE DEF L
  <2>2. \A k \in 1..(L + 1) : k = 1 \/ (k - 1 \in 1..L /\ p[k] = q[k - 1])
    <3> SUFFICES ASSUME NEW k \in 1..(L + 1), k # 1 PROVE k - 1 \in 1..L /\ p[k] = q[k - 1]
      OBVIOUS
    <3>1. k - 1 \in 1..L /\ (k - 1) + 1 = k
      BY <1>1
    <3> QED
      BY <2>1, <3>1
  <2>3. Once(p)
    <3> SUFFICES ASSUME NEW k \in 1..(L + 1), NEW m \in 1..(L + 1), p[k] = p[m] PROVE k = m
      BY <2>1 DEF Once
    <3>1. CASE k = 1 \/ m = 1
      BY <1>1, <2>1, <2>2, <3>1
    <3>2. CASE k # 1 /\ m # 1
      <4>1. k - 1 \in 1..L /\ m - 1 \in 1..L /\ q[k - 1] = q[m - 1]
        BY <2>2, <3>2
      <4>2. k - 1 = m - 1
        BY <4>1 DEF Once, L
      <4> QED
        BY <1>1, <4>2
    <3> QED
      BY <3>1, <3>2
  <2>4. \A y : Holds(p, y) <=> Holds(q, y) \/ y = x
    <3>1. ASSUME NEW y, NEW k \in 1..(L + 1), p[k] = y PROVE Holds(q, y) \/ y = x
      BY <2>1, <2>2, <3>1 DEF Holds, L
    <3>2. ASSUME NEW y, NEW k \in 1..L, q[k] = y PROVE Holds(p, y)
      <4>1. k + 1 \in 1..(L + 1) /\ p[k + 1] = y
        BY <1>1, <2>1, <3>2
      <4> QED
        BY <2>1, <4>1 DEF Holds
    <3>3. Holds(p, x)
      BY <1>1, <2>1 DEF Holds
    <3> QED
      BY <2>1, <3>1, <3>2, <3>3 DEF Holds, L
  <2> QED
    BY <2>1, <2>3, <2>4
<1> QED
  BY <1>2, <1>3

\* A turn that neither was nor is in the backlog leaves it as it is.
LEMMA BacklogKept ==
    ASSUME TypeOK, BacklogInv, NEW t \in Turns, NEW r,
           turn' = [turn EXCEPT ![t] = r], UNCHANGED backlog,
           turn[t].stage \notin Backlogged, r.stage \notin Backlogged
    PROVE  BacklogInv'
<1>1. \A u \in Turns : turn'[u] = IF u = t THEN r ELSE turn[u]
  BY DEF TypeOK
<1> QED
  BY <1>1 DEF BacklogInv, Waits

\* A turn that joins the backlog of its conversation.
LEMMA BacklogJoined ==
    ASSUME TypeOK, BacklogInv, NEW c \in Conversations, NEW t \in Turns, NEW r, NEW q,
           turn' = [turn EXCEPT ![t] = r], backlog' = [backlog EXCEPT ![c] = q],
           turn[t].stage \notin Backlogged, Waits(r, c),
           q = Append(backlog[c], t) \/ q = <<t>> \o backlog[c]
    PROVE  BacklogInv'
<1>1. \A u \in Turns : turn'[u] = IF u = t THEN r ELSE turn[u]
  BY DEF TypeOK
<1>2. \A d \in Conversations : backlog'[d] = IF d = c THEN q ELSE backlog[d]
  BY DEF TypeOK
<1>3. \A d \in Conversations : ~Waits(turn[t], d)
  BY DEF Waits
<1>4. Once(q) /\ \A y : Holds(q, y) <=> Holds(backlog[c], y) \/ y = t
  <2> DEFINE b == backlog[c]
  <2>1. b \in Seq(Turns) /\ Once(b) /\ ~Holds(b, t) /\ (q = Append(b, t) \/ q = <<t>> \o b)
    BY <1>3 DEF TypeOK, BacklogInv
  <2> HIDE DEF b
  <2>2. Once(q) /\ \A y : Holds(q, y) <=> Holds(b, y) \/ y = t
    BY <2>1, QueueJoined
  <2> QED
    BY <2>2 DEF b
<1>5. ASSUME NEW d \in Conversations
      PROVE  /\ Once(backlog'[d])
             /\ \A u \in Turns : Holds(backlog'[d], u) <=> Waits(turn'[u], d)
  <2>1. CASE d = c
    BY <1>1, <1>2, <1>4, <2>1 DEF BacklogInv
  <2>2. CASE d # c
    <3>1. ~Waits(r, d)
      BY <2>2 DEF Waits
    <3> QED
      BY <1>1, <1>2, <1>3, <2>2, <3>1 DEF BacklogInv
  <2> QED
    BY <2>1, <2>2
<1> QED
  BY <1>5 DEF BacklogInv

LEMMA BacklogStep == IInv /\ Moves => BacklogInv'
<1> SUFFICES ASSUME IInv, Moves PROVE BacklogInv'
  OBVIOUS
<1>1. TypeOK /\ BacklogInv
  BY DEF IInv
<1>2. CASE Enqueues
  <2> PICK c \in Conversations, t \in Turns : At(t, "unaccepted") /\ Enqueue(c, t)
    BY <1>2 DEF Enqueues
  <2> DEFINE r == [turn[t] EXCEPT !.stage = "queued", !.conversation = c,
                                  !.session = session[c]]
             q == Append(backlog[c], t)
  <2>1. turn' = [turn EXCEPT ![t] = r] /\ backlog' = [backlog EXCEPT ![c] = q]
    BY <1>1 DEF Enqueue, TypeOK
  <2>2. r.stage = "queued" /\ r.conversation = c
    BY <1>1 DEF TypeOK, TurnRecords
  <2> HIDE DEF r, q
  <2>3. Waits(r, c)
    BY <2>2 DEF Waits, Backlogged
  <2>4. turn[t].stage \notin Backlogged
    BY DEF At, Backlogged
  <2>5. q = Append(backlog[c], t) \/ q = <<t>> \o backlog[c]
    BY DEF q
  <2> QED
    BY <1>1, <2>1, <2>3, <2>4, <2>5, BacklogJoined
<1>3. CASE Dispatches
  <2> PICK c \in Conversations, t \in Turns, stage \in {"ensuring", "executing"} :
              /\ At(t, "unaccepted") /\ UNCHANGED backlog
              /\ turn' = [turn EXCEPT ![t] = Fresh(c, stage)]
    BY <1>3 DEF Dispatches
  <2>1. Fresh(c, stage).stage = stage
    BY <1>1, FreshTurn
  <2> QED
    BY <1>1, <2>1, BacklogKept DEF Backlogged, At
<1>4. CASE Aborts
  <2> PICK t \in Turns : turn[t].attempt = "open" /\ AbortDispatch(t)
    BY <1>4 DEF Aborts
  <2> DEFINE c == Conv(t)
             r == [turn[t] EXCEPT !.attempt = "none", !.stage = "aborted"]
             q == <<t>> \o backlog[c]
  <2>1. turn[t].stage \in Running /\ c \in Conversations
    BY DEF IInv, TurnInv, Conv, Running
  <2>2. turn[t].stage \notin Backlogged
    BY <2>1 DEF Running, Backlogged
  <2>3. ~Queued(c, t)
    <3>1. Holds(backlog[c], t) <=> Waits(turn[t], c)
      BY <1>1, <2>1 DEF BacklogInv
    <3> QED
      BY <2>2, <3>1 DEF Queued, Holds, Waits
  <2>4. turn' = [turn EXCEPT ![t] = r] /\ backlog' = [backlog EXCEPT ![c] = q]
    BY <1>1, <2>3 DEF AbortDispatch, TypeOK
  <2>5. r.stage = "aborted" /\ r.conversation = c
    BY <1>1 DEF TypeOK, TurnRecords, Conv
  <2>6. q = Append(backlog[c], t) \/ q = <<t>> \o backlog[c]
    OBVIOUS
  <2> HIDE DEF r, q, c
  <2>7. Waits(r, c)
    BY <2>5 DEF Waits, Backlogged
  <2> QED
    BY <1>1, <2>1, <2>2, <2>4, <2>6, <2>7, BacklogJoined
<1>5. ASSUME NEW t \in Turns, NEW r, Proceeds(t, r) PROVE BacklogInv'
  BY <1>1, <1>5, BacklogKept DEF Proceeds, Running, Backlogged
<1>6. CASE UNCHANGED <<turn, backlog, active>>
  BY <1>1, <1>6 DEF BacklogInv
<1> QED
  BY <1>2, <1>3, <1>4, <1>5, <1>6 DEF Moves

LEMMA ActiveStep == IInv /\ Moves => ActiveInv'
<1> SUFFICES ASSUME IInv, Moves PROVE ActiveInv'
  OBVIOUS
<1>1. TypeOK /\ ActiveInv /\ (\A t \in Turns : TurnInv(turn[t])) /\ None \notin Turns
  BY HarnessAssumption DEF IInv
<1>2. ASSUME NEW t \in Turns, NEW r, turn' = [turn EXCEPT ![t] = r], UNCHANGED active,
             r.attempt = turn[t].attempt, r.attempt = "open" => r.conversation = Conv(t)
      PROVE  ActiveInv'
  <2>1. \A u \in Turns : turn'[u] = IF u = t THEN r ELSE turn[u]
    BY <1>1, <1>2 DEF TypeOK
  <2> QED
    BY <1>1, <1>2, <2>1 DEF ActiveInv, Conv, TypeOK
<1>3. ASSUME NEW t \in Turns, NEW r, turn' = [turn EXCEPT ![t] = r],
             turn[t].attempt = "open", r.attempt # "open",
             active' = [active EXCEPT ![Conv(t)] = None]
      PROVE  ActiveInv'
  <2>1. \A u \in Turns : turn'[u] = IF u = t THEN r ELSE turn[u]
    BY <1>1, <1>3 DEF TypeOK
  <2>2. /\ \A c \in Conversations : active'[c] = IF c = Conv(t) THEN None ELSE active[c]
        /\ active[Conv(t)] = t
    BY <1>1, <1>3 DEF TypeOK, ActiveInv
  <2>3. \A u \in Turns : turn[u].attempt = "open" => Conv(u) \in Conversations
    BY <1>1 DEF TurnInv, Running, Conv
  <2> QED
    BY <1>1, <1>3, <2>1, <2>2, <2>3 DEF ActiveInv, Conv, TypeOK
<1>4. ASSUME NEW c \in Conversations, NEW t \in Turns, NEW r, turn' = [turn EXCEPT ![t] = r],
             active[c] = None, turn[t].attempt # "open",
             r.attempt = "open", r.conversation = c, active' = [active EXCEPT ![c] = t]
      PROVE  ActiveInv'
  <2>1. \A u \in Turns : turn'[u] = IF u = t THEN r ELSE turn[u]
    BY <1>1, <1>4 DEF TypeOK
  <2>2. \A d \in Conversations : active'[d] = IF d = c THEN t ELSE active[d]
    BY <1>1, <1>4 DEF TypeOK
  <2>3. \A u \in Turns : turn[u].attempt = "open" => Conv(u) \in Conversations
    BY <1>1 DEF TurnInv, Running, Conv
  <2> QED
    BY <1>1, <1>4, <2>1, <2>2, <2>3 DEF ActiveInv, Conv, TypeOK
<1>5. CASE Enqueues
  <2> PICK c \in Conversations, t \in Turns : At(t, "unaccepted") /\ Enqueue(c, t)
    BY <1>5 DEF Enqueues
  <2> DEFINE r == [turn[t] EXCEPT !.stage = "queued", !.conversation = c,
                                  !.session = session[c]]
  <2>1. turn' = [turn EXCEPT ![t] = r] /\ UNCHANGED active
    BY <1>1 DEF Enqueue, TypeOK
  <2>2. r.attempt = turn[t].attempt
    BY <1>1 DEF TypeOK, TurnRecords
  <2>3. turn[t].attempt = "none"
    BY <1>1 DEF TurnInv, At, Running
  <2> HIDE DEF r
  <2> QED
    BY <1>2, <2>1, <2>2, <2>3
<1>6. CASE Dispatches
  <2> PICK c \in Conversations, t \in Turns, stage \in {"ensuring", "executing"} :
              /\ At(t, "unaccepted") /\ active[c] = None
              /\ active' = [active EXCEPT ![c] = t]
              /\ turn' = [turn EXCEPT ![t] = Fresh(c, stage)]
    BY <1>6 DEF Dispatches
  <2>1. Fresh(c, stage).attempt = "open" /\ Fresh(c, stage).conversation = c
    BY <1>1, FreshTurn
  <2>2. turn[t].attempt = "none"
    BY <1>1 DEF TurnInv, At, Running
  <2> QED
    BY <1>4, <2>1, <2>2
<1>7. CASE Aborts
  <2> PICK t \in Turns : turn[t].attempt = "open" /\ AbortDispatch(t)
    BY <1>7 DEF Aborts
  <2> DEFINE r == [turn[t] EXCEPT !.attempt = "none", !.stage = "aborted"]
  <2>1. r.attempt = "none"
    BY <1>1 DEF TypeOK, TurnRecords
  <2>2. turn' = [turn EXCEPT ![t] = r] /\ active' = [active EXCEPT ![Conv(t)] = None]
    BY <1>1 DEF AbortDispatch, TypeOK
  <2> HIDE DEF r
  <2> QED
    BY <1>3, <2>1, <2>2
<1>8. ASSUME NEW t \in Turns, NEW r, Proceeds(t, r) PROVE ActiveInv'
  BY <1>2, <1>3, <1>8 DEF Proceeds, AttemptOutcomes
<1>9. CASE UNCHANGED <<turn, backlog, active>>
  BY <1>1, <1>9 DEF ActiveInv, Conv
<1> QED
  BY <1>5, <1>6, <1>7, <1>8, <1>9 DEF Moves

LEMMA RoutingTyped ==
    ASSUME IInv, Moves
    PROVE  /\ backlog' \in [Conversations -> Seq(Turns)]
           /\ active' \in [Conversations -> Turns \cup {None}]
<1>1. TypeOK /\ \A t \in Turns : TurnInv(turn[t])
  BY DEF IInv
<1>2. CASE Enqueues
  <2> PICK c \in Conversations, t \in Turns : Enqueue(c, t)
    BY <1>2 DEF Enqueues
  <2>1. Append(backlog[c], t) \in Seq(Turns)
    BY <1>1 DEF TypeOK
  <2> QED
    BY <1>1, <2>1 DEF Enqueue, TypeOK
<1>3. CASE Dispatches
  BY <1>1, <1>3 DEF Dispatches, TypeOK
<1>4. CASE Aborts
  <2> PICK t \in Turns : turn[t].attempt = "open" /\ AbortDispatch(t)
    BY <1>4 DEF Aborts
  <2>1. Conv(t) \in Conversations
    BY <1>1 DEF TurnInv, Running, Conv
  <2>2. <<t>> \o backlog[Conv(t)] \in Seq(Turns)
    BY <1>1, <2>1 DEF TypeOK
  <2> QED
    BY <1>1, <2>1, <2>2 DEF AbortDispatch, TypeOK
<1>5. ASSUME NEW t \in Turns, NEW r, Proceeds(t, r)
      PROVE  UNCHANGED backlog /\ active' \in [Conversations -> Turns \cup {None}]
  BY <1>1, <1>5 DEF Proceeds, TypeOK
<1>6. CASE UNCHANGED <<turn, backlog, active>>
  BY <1>1, <1>6 DEF TypeOK
<1> QED
  BY <1>1, <1>2, <1>3, <1>4, <1>5, <1>6 DEF Moves, TypeOK

-----------------------------------------------------------------------------
(***************************************************************************)
(* ... and by the steps that concern the calls, mappings and sessions.     *)
(***************************************************************************)

\* A step of the contract on one call leaves the others alone.
LEMMA OtherCalls ==
    ASSUME calls \in [CallIds -> Host!CallRecords], NEW id \in CallIds, NEW b, NEW n,
           \/ Host!Refuse(id, b) \/ Host!FailUnsent(id, b) \/ Host!Send(id, b)
           \/ Host!Deliver(id) \/ Host!Finish(id, n) \/ Host!Answer(id)
           \/ Host!Abandon({id}, {}) \/ Host!Abandon({}, {id})
    PROVE  \A j \in CallIds : j # id => calls'[j] = calls[j]
BY DEF Host!Refuse, Host!FailUnsent, Host!Send, Host!Deliver, Host!Finish, Host!Answer,
       Host!Abandon

LEMMA FlightStep == IInv /\ [Next]_vars => FlightInv'
<1> SUFFICES ASSUME IInv, [Next]_vars PROVE FlightInv'
  OBVIOUS
<1>1. TypeOK /\ FlightInv /\ CallInv
  BY DEF IInv
<1>2. \A t \in Turns : /\ Start(t) \in CallIds /\ Ensure(t) \in CallIds
                       /\ \A u \in Turns : Start(u) # Ensure(t) /\ (u # t => Start(u) # Start(t))
  BY DEF Start, Ensure, CallIds
\* A call that was not made does not concern a turn that is not executing.
<1>3. ASSUME NEW t \in Turns, NEW r, turn' = [turn EXCEPT ![t] = r],
             \A u \in Turns : calls'[Start(u)] = calls[Start(u)],
             \/ turn[t].stage # "executing"
             \/ r.stage = "executing"
             \/ calls[Start(t)].outcome # "none"
      PROVE  FlightInv'
  <2>1. \A u \in Turns : turn'[u] = IF u = t THEN r ELSE turn[u]
    BY <1>1, <1>3 DEF TypeOK
  <2>2. calls[Start(t)].outcome # "none" => ~Host!InFlight(Start(t))
    BY <1>1, <1>2 DEF CallInv, Host!InFlight
  <2> QED
    BY <1>1, <1>3, <2>1, <2>2 DEF FlightInv, At, Host!InFlight
<1>4. ASSUME NEW t \in Turns, NEW c, NEW record, StartExecution(t, c, record),
             record \in TurnRecords
      PROVE  FlightInv'
  <2>1. \A u \in Turns : u # t => calls'[Start(u)] = calls[Start(u)]
    BY <1>1, <1>2, <1>4, OtherCalls DEF StartExecution, TypeOK
  <2>2. \A u \in Turns : turn'[u] = IF u = t THEN [record EXCEPT !.stage = "executing"] ELSE turn[u]
    BY <1>1, <1>4 DEF StartExecution, TypeOK
  <2>3. [record EXCEPT !.stage = "executing"].stage = "executing"
    BY <1>4 DEF TurnRecords
  <2> QED
    BY <1>1, <2>1, <2>2, <2>3 DEF FlightInv, At, Host!InFlight
<1>5. ASSUME NEW c \in Conversations, NEW t \in Turns, Accept(c, t) PROVE FlightInv'
  <2> DEFINE record == [NewTurn EXCEPT !.conversation = c, !.session = session[c],
                                       !.attempt = "open"]
  <2>1. turn[t].stage # "executing"
    BY <1>5 DEF Accept, At
  <2>2. CASE Enqueue(c, t)
    <3>1. PICK r : turn' = [turn EXCEPT ![t] = r]
      BY <2>2 DEF Enqueue
    <3> QED
      BY <1>3, <2>1, <2>2, <3>1 DEF Enqueue
  <2>3. CASE EnsureThread(t, c, record)
    <3>1. \A u \in Turns : calls'[Start(u)] = calls[Start(u)]
      BY <1>1, <1>2, <2>3, OtherCalls DEF EnsureThread, TypeOK
    <3>2. PICK r : turn' = [turn EXCEPT ![t] = r]
      BY <2>3 DEF EnsureThread
    <3> QED
      BY <1>3, <2>1, <3>1, <3>2
  <2>4. CASE StartExecution(t, c, record)
    <3>1. NewTurn \in TurnRecords /\ session[c] \in Nat
      BY <1>1, HarnessAssumption DEF NewTurn, TurnRecords, Stages, TypeOK
    <3>2. record \in TurnRecords
      BY <3>1 DEF TurnRecords
    <3> QED
      BY <1>4, <2>4, <3>2
  <2> QED
    BY <1>5, <2>2, <2>3, <2>4 DEF Accept, DispatchTurn
<1>6. ASSUME NEW t \in Turns, MappingCommitted(t) PROVE FlightInv'
  <2>1. turn[t] \in TurnRecords
    BY <1>1 DEF TypeOK
  <2> QED
    BY <1>4, <1>6, <2>1 DEF MappingCommitted
<1>7. ASSUME NEW t \in Turns, ExecutionRejected(t) \/ ExecutionResolved(t) PROVE FlightInv'
  <2>1. PICK r : turn' = [turn EXCEPT ![t] = r]
    BY <1>7 DEF ExecutionRejected, ExecutionResolved, AbortDispatch
  <2>2. calls[Start(t)].outcome # "none" /\ UNCHANGED calls
    BY <1>7 DEF ExecutionRejected, ExecutionResolved
  <2> QED
    BY <1>3, <2>1, <2>2
<1>8. ASSUME NEW t \in Turns, Continue(t), ~MappingCommitted(t),
             ~ExecutionRejected(t), ~ExecutionResolved(t)
      PROVE  FlightInv'
  <2>1. turn[t].stage # "executing" /\ UNCHANGED calls
    BY <1>8 DEF Continue, ThreadEnsured, EnsureFails, MappingFails, RouteOutput, SkipEvent,
                RouteTerminal, SpeechWritten, SpeechFinished, At
  <2>2. PICK r : turn' = [turn EXCEPT ![t] = r]
    BY <1>8 DEF Continue, ThreadEnsured, EnsureFails, MappingFails, RouteOutput, SkipEvent,
                RouteTerminal, SpeechWritten, SpeechFinished, AbortDispatch, CompleteAttempt
  <2> QED
    BY <1>3, <2>1, <2>2
<1>9. ASSUME NEW c \in Conversations, CancelTurn(c) PROVE FlightInv'
  <2> DEFINE t == sessionActive[c]
             r == [turn[t] EXCEPT !.terminal = TRUE, !.log = Append(@, "cancelled")]
  <2>1. t \in Turns
    BY <1>1, <1>9 DEF CancelTurn, TypeOK
  <2>2. turn[t].stage = "executing"
    BY <1>1, <1>9, <2>1 DEF CancelTurn, FlightInv, At
  <2>3. r.stage = "executing" /\ [r EXCEPT !.attempt = "cancelled"].stage = "executing"
    BY <1>1, <2>1, <2>2 DEF TypeOK, TurnRecords
  <2>4. \/ turn' = [turn EXCEPT ![t] = r]
        \/ turn' = [turn EXCEPT ![t] = [r EXCEPT !.attempt = "cancelled"]]
    BY <1>9 DEF CancelTurn, CompleteAttempt
  <2>5. UNCHANGED calls
    BY <1>9 DEF CancelTurn
  <2> HIDE DEF t, r
  <2> QED
    BY <1>3, <2>1, <2>3, <2>4, <2>5
<1>10. ASSUME NEW t \in Turns, SettleEnsure(t) \/ HostDelivers(t) \/ SettleStart(t)
       PROVE  FlightInv'
  <2>1. PICK id \in {Start(t), Ensure(t)} :
           /\ Host!InFlight(id)
           /\ \A j \in CallIds : j # id => calls'[j] = calls[j]
    <3>1. CASE SettleEnsure(t)
      BY <1>1, <1>2, <3>1, OtherCalls DEF SettleEnsure, TypeOK
    <3>2. CASE HostDelivers(t) \/ SettleStart(t)
      BY <1>1, <1>2, <3>2, OtherCalls DEF HostDelivers, SettleStart, TypeOK
    <3> QED
      BY <1>10, <3>1, <3>2
  <2>2. UNCHANGED turn
    BY <1>10 DEF SettleEnsure, HostDelivers, SettleStart
  <2> QED
    BY <1>1, <1>2, <2>1, <2>2 DEF FlightInv, At, Host!InFlight
<1>11. CASE UNCHANGED vars
  BY <1>1, <1>11 DEF vars, FlightInv, At, Host!InFlight
<1>12. ASSUME NEW c \in Conversations, NewSession(c) PROVE FlightInv'
  BY <1>1, <1>12 DEF NewSession, FlightInv, At, Host!InFlight
<1> QED
  BY <1>5, <1>6, <1>7, <1>8, <1>9, <1>10, <1>11, <1>12 DEF Next, ClientStep, HostStep

\* Only the turn whose mapping is committed adds one, to a conversation without.
LEMMA MappingStep ==
    ASSUME IInv, [Next]_vars, Moves
    PROVE  MappingInv' /\ mappings' \in [Conversations -> Nat]
<1>1. /\ TypeOK /\ ActiveInv /\ MappingInv /\ \A t \in Turns : TurnInv(turn[t])
  BY DEF IInv
<1>2. CASE UNCHANGED mappings
  <2>1. ASSUME NEW t \in Turns, NEW r, turn' = [turn EXCEPT ![t] = r],
               r.stage \in {"ensuring", "mapping"} =>
                   r.conversation \in Conversations /\ mappings[r.conversation] = 0
        PROVE  \A u \in Turns : turn'[u].stage \in {"ensuring", "mapping"} =>
                   mappings[turn'[u].conversation] = 0
    <3>1. \A u \in Turns : turn'[u] = IF u = t THEN r ELSE turn[u]
      BY <1>1, <2>1 DEF TypeOK
    <3> QED
      BY <1>1, <2>1, <3>1 DEF MappingInv, Conv
  <2> SUFFICES \A u \in Turns : turn'[u].stage \in {"ensuring", "mapping"} =>
                   mappings[turn'[u].conversation] = 0
    BY <1>1, <1>2 DEF TypeOK, MappingInv, MappedOnce, Conv
  <2>2. CASE Enqueues \/ Aborts
    <3>1. PICK t \in Turns : \E r :
             turn' = [turn EXCEPT ![t] = r] /\ r.stage \in {"queued", "aborted"}
      <4>1. CASE Enqueues
        <5> PICK c \in Conversations, t \in Turns : Enqueue(c, t)
          BY <4>1 DEF Enqueues
        <5> DEFINE r == [turn[t] EXCEPT !.stage = "queued", !.conversation = c,
                                        !.session = session[c]]
        <5>1. turn' = [turn EXCEPT ![t] = r] /\ r.stage = "queued"
          BY <1>1 DEF Enqueue, TypeOK, TurnRecords
        <5> HIDE DEF r
        <5> QED
          BY <5>1
      <4>2. CASE Aborts
        <5> PICK t \in Turns : AbortDispatch(t)
          BY <4>2 DEF Aborts
        <5> DEFINE r == [turn[t] EXCEPT !.attempt = "none", !.stage = "aborted"]
        <5>1. turn' = [turn EXCEPT ![t] = r] /\ r.stage = "aborted"
          BY <1>1 DEF AbortDispatch, TypeOK, TurnRecords
        <5> HIDE DEF r
        <5> QED
          BY <5>1
      <4> QED
        BY <2>2, <4>1, <4>2
    <3> QED
      BY <2>1, <3>1
  <2>3. CASE Dispatches
    <3> PICK c \in Conversations, t \in Turns, stage \in {"ensuring", "executing"} :
                /\ stage = "ensuring" => mappings[c] = 0
                /\ turn' = [turn EXCEPT ![t] = Fresh(c, stage)]
      BY <2>3 DEF Dispatches
    <3>1. Fresh(c, stage).stage = stage /\ Fresh(c, stage).conversation = c
      BY <1>1, FreshTurn
    <3> QED
      BY <2>1, <3>1
  <2>4. ASSUME NEW t \in Turns, NEW r, Proceeds(t, r)
        PROVE  \A u \in Turns : turn'[u].stage \in {"ensuring", "mapping"} =>
                   mappings[turn'[u].conversation] = 0
    <3>1. turn[t].stage \in {"ensuring", "mapping"} =>
              Conv(t) \in Conversations /\ mappings[Conv(t)] = 0
      BY <1>1 DEF MappingInv, TurnInv, Conv
    <3> QED
      BY <2>1, <2>4, <3>1 DEF Proceeds
  <2>5. CASE UNCHANGED <<turn, backlog, active>>
    BY <1>1, <2>5 DEF MappingInv, Conv
  <2> QED
    BY <2>2, <2>3, <2>4, <2>5 DEF Moves
<1>3. ASSUME NEW t \in Turns, MappingCommitted(t)
      PROVE  MappingInv' /\ mappings' \in [Conversations -> Nat]
  <2> DEFINE c == Conv(t)
  <2>1. /\ turn[t].stage = "mapping" /\ turn[t].attempt = "open" /\ c \in Conversations
        /\ mappings[c] = 0 /\ active[c] = t
    BY <1>1, <1>3 DEF MappingCommitted, At, TurnInv, MappingInv, ActiveInv, Running, Conv
  <2>2. \A d \in Conversations : mappings'[d] = IF d = c THEN 1 ELSE mappings[d]
    BY <1>1, <1>3, <2>1 DEF MappingCommitted, TypeOK
  <2>3. mappings' \in [Conversations -> Nat]
    BY <1>1, <1>3, <2>1 DEF MappingCommitted, TypeOK
  <2>4. \A u \in Turns : u # t => turn'[u] = turn[u]
    BY <1>1, <1>3 DEF MappingCommitted, StartExecution, TypeOK
  <2>5. turn'[t].stage = "executing"
    BY <1>1, <1>3 DEF MappingCommitted, StartExecution, TypeOK, TurnRecords
  <2>6. ASSUME NEW u \in Turns, turn'[u].stage \in {"ensuring", "mapping"}
        PROVE  mappings'[turn'[u].conversation] = 0
    <3>1. u # t /\ turn'[u] = turn[u] /\ turn[u].attempt = "open" /\ Conv(u) \in Conversations
      BY <1>1, <2>4, <2>5, <2>6 DEF TurnInv, Running, Conv
    <3>2. Conv(u) # c
      BY <1>1, <2>1, <3>1 DEF ActiveInv
    <3> QED
      BY <1>1, <2>2, <2>6, <3>1, <3>2 DEF MappingInv, Conv
  <2>7. MappedOnce'
    BY <1>1, <2>2 DEF MappingInv, MappedOnce
  <2> QED
    BY <2>3, <2>6, <2>7 DEF MappingInv, Conv
<1>4. UNCHANGED mappings \/ \E t \in Turns : MappingCommitted(t)
  BY DEF Next, ClientStep, HostStep, Continue, vars, Accept, CancelTurn, NewSession,
         SettleEnsure, HostDelivers, SettleStart, ThreadEnsured, EnsureFails, MappingFails,
         ExecutionRejected, ExecutionResolved, RouteOutput, SkipEvent, RouteTerminal,
         SpeechWritten, SpeechFinished
<1> QED
  BY <1>2, <1>3, <1>4

LEMMA SessionsTyped ==
    ASSUME IInv, [Next]_vars
    PROVE  /\ session' \in [Conversations -> 1..MaxSessions]
           /\ sessionActive' \in [Conversations -> Turns \cup {None}]
<1>1. TypeOK /\ \A t \in Turns : TurnInv(turn[t])
  BY DEF IInv
<1>2. ASSUME NEW t \in Turns, NEW c \in Conversations, NEW record, StartExecution(t, c, record)
      PROVE  sessionActive' \in [Conversations -> Turns \cup {None}]
  BY <1>1, <1>2 DEF StartExecution, TypeOK
<1>3. ASSUME NEW c \in Conversations, NEW t \in Turns, Accept(c, t)
      PROVE  UNCHANGED session /\ sessionActive' \in [Conversations -> Turns \cup {None}]
  BY <1>1, <1>2, <1>3 DEF Accept, Enqueue, DispatchTurn, EnsureThread, TypeOK
<1>4. ASSUME NEW t \in Turns, MappingCommitted(t)
      PROVE  UNCHANGED session /\ sessionActive' \in [Conversations -> Turns \cup {None}]
  <2>1. Conv(t) \in Conversations
    BY <1>1, <1>4 DEF MappingCommitted, At, TurnInv, Conv
  <2> QED
    BY <1>2, <1>4, <2>1 DEF MappingCommitted
<1>5. ASSUME NEW c \in Conversations, NewSession(c)
      PROVE  /\ session' \in [Conversations -> 1..MaxSessions]
             /\ sessionActive' \in [Conversations -> Turns \cup {None}]
  BY <1>1, <1>5, HarnessAssumption DEF NewSession, TypeOK
<1>6. \/ UNCHANGED sessionVars
      \/ \E t \in Turns : MappingCommitted(t)
      \/ \E c \in Conversations : NewSession(c) \/ \E t \in Turns : Accept(c, t)
  BY DEF Next, ClientStep, HostStep, Continue, vars, sessionVars, CancelTurn,
         SettleEnsure, HostDelivers, SettleStart, ThreadEnsured, EnsureFails, MappingFails,
         ExecutionRejected, ExecutionResolved, RouteOutput, SkipEvent, RouteTerminal,
         SpeechWritten, SpeechFinished
<1> QED
  BY <1>1, <1>3, <1>4, <1>5, <1>6 DEF TypeOK, sessionVars

LEMMA InitIInv == Init => IInv
<1> SUFFICES ASSUME Init PROVE IInv
  OBVIOUS
<1>1. NewTurn \in TurnRecords /\ TurnInv(NewTurn)
  BY DEF NewTurn, TurnRecords, Stages, TurnInv, Running, AttemptOutcomes, OnlyOutput
<1>2. TypeOK /\ CallInv /\ FlightInv
  <2>1. Host!Idle \in Host!CallRecords /\ Host!Idle.phase = "idle" /\ Host!Idle.outcome = "none"
    BY DEF Host!Idle, Host!CallRecords
  <2>2. calls = [id \in CallIds |-> Host!Idle]
    BY DEF Init, Host!Init
  <2>3. calls \in [CallIds -> Host!CallRecords] /\ \A id \in CallIds : calls[id] = Host!Idle
    BY <2>1, <2>2
  <2>4. \A t \in Turns : Start(t) \in CallIds
    BY DEF Start, CallIds
  <2> QED
    BY <1>1, <2>1, <2>3, <2>4, HarnessAssumption
    DEF Init, TypeOK, CallInv, FlightInv, Host!InFlight
<1>3. \A t \in Turns : turn[t] = NewTurn
  BY DEF Init
<1>4. BacklogInv /\ ActiveInv /\ MappingInv
  <2>1. NewTurn.stage = "unaccepted" /\ NewTurn.attempt = "none"
    BY DEF NewTurn
  <2> QED
    BY <1>3, <2>1, HarnessAssumption
    DEF Init, BacklogInv, Once, Holds, Waits, Backlogged, ActiveInv, MappingInv, MappedOnce
<1> QED
  BY <1>1, <1>2, <1>3, <1>4 DEF IInv

LEMMA IInvStep == IInv /\ [Next]_vars => IInv'
<1> SUFFICES ASSUME IInv, [Next]_vars PROVE IInv'
  OBVIOUS
<1>1. Moves
  BY StepMoves
<1>2. calls' \in [CallIds -> Host!CallRecords] /\ CallInv'
  BY HostSteps, CallStep DEF IInv, TypeOK
<1>3. TypeOK'
  BY <1>1, <1>2, TurnsTyped, RoutingTyped, MappingStep, SessionsTyped DEF TypeOK
<1> QED
  BY <1>1, <1>2, <1>3, TurnsTyped, BacklogStep, ActiveStep, FlightStep, MappingStep DEF IInv

-----------------------------------------------------------------------------
(***************************************************************************)
(* The properties.                                                         *)
(***************************************************************************)

\* The inductive invariant holds of every reachable state.
THEOREM HarnessInvariance == Spec => []IInv
<1>1. Init => IInv
  BY InitIInv
<1>2. IInv /\ [Next]_vars => IInv'
  BY IInvStep
<1> QED
  BY <1>1, <1>2, PTL DEF Spec

\* The routing and session state, and what the callers see of their invocations, keep
\* their types.
THEOREM HarnessTypes == Spec => []TypeOK
BY HarnessInvariance, PTL DEF IInv

\* No accepted transcript is lost or held twice, and only the active turn of its
\* conversation, whose attempt is open, is driven (ConversationRouting's
\* accept, dispatch, abortDispatch and endAttempt, HarnessAttemptSession.cancel).
THEOREM HarnessKeepsTurns == Spec => []TurnsAccounted
<1>1. IInv => TurnsAccounted
  <2> SUFFICES ASSUME IInv PROVE TurnsAccounted
    OBVIOUS
  <2>1. /\ BacklogInv /\ ActiveInv /\ TypeOK /\ None \notin Turns
        /\ \A t \in Turns : TurnInv(turn[t]) /\ turn[t] \in TurnRecords
    BY HarnessAssumption DEF IInv, TypeOK
  <2>2. ASSUME NEW t \in Turns, Accepted(t)
        PROVE  LET c == Conv(t)
                   Positions == {k \in 1..Len(backlog[c]) : backlog[c][k] = t}
               IN /\ \A k, m \in Positions : k = m
                  /\ (Positions # {}) <=> (active[c] # t /\ ~Ended(t))
                  /\ active[c] = t => ~Ended(t)
    <3> DEFINE c == Conv(t)
               Positions == {k \in 1..Len(backlog[c]) : backlog[c][k] = t}
    <3>1. c \in Conversations
      BY <2>1, <2>2 DEF TurnInv, Accepted, At, Conv
    <3>2. \A k, m \in Positions : k = m
      BY <2>1, <3>1 DEF BacklogInv, Once
    <3>3. (Positions # {}) <=> turn[t].stage \in Backlogged
      <4>1. Holds(backlog[c], t) <=> Waits(turn[t], c)
        BY <2>1, <3>1 DEF BacklogInv
      <4> QED
        BY <4>1 DEF Holds, Waits, Conv
    <3>4. active[c] = t <=> turn[t].attempt = "open"
      BY <2>1, <3>1 DEF ActiveInv
    <3>5. turn[t].stage \in Backlogged <=> turn[t].attempt = "none"
      BY <2>1, <2>2 DEF TurnInv, Accepted, At, Backlogged, Running, TurnRecords, Stages
    <3>6. \/ turn[t].attempt = "none" /\ ~Ended(t)
          \/ turn[t].attempt = "open" /\ ~Ended(t)
          \/ Ended(t) /\ turn[t].attempt \notin {"none", "open"}
      BY <2>1 DEF Ended, AttemptOutcomes, TurnRecords
    <3> QED
      BY <3>2, <3>3, <3>4, <3>5, <3>6
  <2>3. ASSUME NEW t \in Turns, turn[t].stage \in {"driving", "speaking", "finishing"}
        PROVE  active[Conv(t)] = t /\ ~turn[t].terminal
    BY <2>1, <2>3 DEF TurnInv, Running, ActiveInv, AttemptOutcomes
  <2> QED
    BY <2>1, <2>2, <2>3 DEF TurnsAccounted, ActiveInv
<1> QED
  BY <1>1, HarnessInvariance, PTL

\* The Client hears one terminal outcome of an attempt that ended, last and as it was
\* recorded (HarnessStreamRouter.route and terminate, HarnessAttemptSession.#drive, endAttempt).
THEOREM HarnessTellsOutcome == Spec => []ClientHearsOutcome
<1>1. IInv => ClientHearsOutcome
  <2> SUFFICES ASSUME IInv, NEW t \in Turns
               PROVE  LET log == turn[t].log
                      IN /\ \A k \in 1..Len(log) : log[k] # "output" => Ended(t) /\ k = Len(log)
                         /\ Ended(t) => log # <<>> /\ log[Len(log)] = turn[t].attempt
    BY DEF ClientHearsOutcome
  <2>1. TurnInv(turn[t])
    BY DEF IInv
  <2> QED
    BY <2>1 DEF TurnInv, ClosedWith, OnlyOutput, Ended
<1> QED
  BY <1>1, HarnessInvariance, PTL

\* No conversation is given a second thread (mappings.ensure, which
\* HarnessExecutionDispatcher.acceptTranscript calls).
THEOREM HarnessMapsOnce == Spec => []MappedOnce
BY HarnessInvariance, PTL DEF IInv, MappingInv

\* What ended is never reopened and sends nothing more (completeAttempt's guard and
\* the #terminal flag of HarnessStreamRouter), whatever its call still delivers.
THEOREM HarnessStaysSilent == Spec => EndedStaysSilent
<1>1. IInv /\ [Next]_vars =>
          [\A t \in Turns : Ended(t) => /\ turn'[t].attempt = turn[t].attempt
                                        /\ turn'[t].log = turn[t].log]_vars
  <2> SUFFICES ASSUME IInv, [Next]_vars, NEW t \in Turns, Ended(t)
               PROVE  turn'[t].attempt = turn[t].attempt /\ turn'[t].log = turn[t].log
    OBVIOUS
  <2>1. Moves /\ TypeOK /\ TurnInv(turn[t])
    BY StepMoves DEF IInv
  <2>2. turn[t].attempt \notin {"none", "open"} /\ turn[t].stage # "unaccepted"
    BY <2>1 DEF Ended, AttemptOutcomes, TurnInv, Running
  <2>3. CASE Enqueues
    BY <2>1, <2>2, <2>3 DEF Enqueues, Enqueue, At, TypeOK
  <2>4. CASE Dispatches
    BY <2>1, <2>2, <2>4 DEF Dispatches, At, TypeOK
  <2>5. CASE Aborts
    BY <2>1, <2>2, <2>5 DEF Aborts, AbortDispatch, TypeOK
  <2>6. ASSUME NEW u \in Turns, NEW r, Proceeds(u, r)
        PROVE  turn'[t].attempt = turn[t].attempt /\ turn'[t].log = turn[t].log
    BY <2>1, <2>2, <2>6 DEF Proceeds, TypeOK
  <2>7. CASE UNCHANGED <<turn, backlog, active>>
    BY <2>7
  <2> QED
    BY <2>1, <2>3, <2>4, <2>5, <2>6, <2>7 DEF Moves
<1> QED
  BY <1>1, HarnessInvariance, PTL DEF Spec, EndedStaysSilent

=============================================================================
