------------------------- MODULE ConversationHarness -------------------------
(***************************************************************************)
(* The Relay's path from a final transcript to the terminal outcome of its *)
(* Harness turn: ConversationRouting (turns, backlog, the active attempt), *)
(* HarnessExecutionDispatcher (thread.ensure, turn.start, abort),          *)
(* HarnessAttemptSession and HarnessStreamRouter (events to the Client and *)
(* to speech, cancellation) and the thread mapping.                        *)
(*                                                                         *)
(* The Host is reached through kernel.invoke, whose transport is always    *)
(* the gateway (index.ts).  What becomes of a call is InvocationContract,  *)
(* which HostGateway implements; the kernel's own checks on the way there  *)
(* and back show as refused and rejected calls.                            *)
(*                                                                         *)
(* A continuation that the event loop runs right after the promise it      *)
(* waits for is a step of its own here, which only adds interleavings.     *)
(* An attempt is identified with its turn: the Relay dispatches a turn at  *)
(* most once (recover and release of ConversationRouting have no caller).  *)
(***************************************************************************)
EXTENDS Naturals, Sequences

CONSTANTS
    Conversations, Turns, Bindings, None,
    BindingOf,      \* the binding each conversation selected
    MaxEvents,      \* bound: public events of one turn
    MaxSessions     \* bound: client sessions of one conversation

ASSUME HarnessAssumption ==
    /\ BindingOf \in [Conversations -> Bindings]
    /\ MaxEvents \in Nat /\ MaxSessions \in Nat \ {0}
    /\ None \notin Turns

VARIABLES
    calls,           \* the invocations, as InvocationContract sees them
    turn,            \* each turn with its attempt and the accept call running it
    backlog,         \* ConversationState.backlog
    active,          \* ConversationState.active, or None
    mappings,        \* how many thread mappings the control state holds
    session,         \* the number of the conversation's current client session
    sessionActive    \* HarnessAttemptSession.#active of that session, or None

vars == <<calls, turn, backlog, active, mappings, session, sessionActive>>
routingVars == <<backlog, active>>
sessionVars == <<session, sessionActive>>

-----------------------------------------------------------------------------
Ensure(t) == <<t, "thread.ensure">>
Start(t) == <<t, "turn.start">>
CallIds == Turns \X {"thread.ensure", "turn.start"}

Host == INSTANCE InvocationContract
            WITH Invocations <- CallIds, SequenceNumbers <- 1..(MaxEvents + 1)

AttemptOutcomes == {"completed", "failed", "cancelled", "unknown"}

\* Where the accept call of a turn, and the drive loop after it, stand:
\*   queued     returned "queued"
\*   ensuring   awaits thread.ensure        mapping   awaits the mapping's commit
\*   executing  awaits turn.start           driving   about to route the next event
\*   speaking   awaits speech.write         finishing awaits speech.finish
\*   aborted    the dispatch was aborted    done      the attempt's code has returned
Stages == {"unaccepted", "queued", "ensuring", "mapping", "executing", "driving",
           "speaking", "finishing", "aborted", "done"}

TurnRecords ==
    [stage : Stages,
     conversation : Conversations \cup {None},
     session : Nat,                                  \* the session that accepted it
     attempt : {"none", "open"} \cup AttemptOutcomes, \* its entry in `attempts`
     terminal : BOOLEAN,         \* ActiveSessionAttempt.terminal
     routed : Nat,               \* HarnessStreamRouter.#lastSequence
     ending : {"none"} \cup AttemptOutcomes,  \* the terminal outcome being delivered
     position : Nat,             \* the next event of the drive loop
     log : Seq({"output"} \cup AttemptOutcomes)]      \* what the Client was sent

NewTurn ==
    [stage |-> "unaccepted", conversation |-> None, session |-> 0,
     attempt |-> "none", terminal |-> FALSE, routed |-> 0,
     ending |-> "none", position |-> 1, log |-> <<>>]

TypeOK ==
    /\ turn \in [Turns -> TurnRecords]
    /\ backlog \in [Conversations -> Seq(Turns)]
    /\ active \in [Conversations -> Turns \cup {None}]
    /\ mappings \in [Conversations -> Nat]
    /\ session \in [Conversations -> 1..MaxSessions]
    /\ sessionActive \in [Conversations -> Turns \cup {None}]
    /\ calls \in [CallIds -> Host!CallRecords]

Init ==
    /\ Host!Init
    /\ turn = [t \in Turns |-> NewTurn]
    /\ backlog = [c \in Conversations |-> <<>>]
    /\ active = [c \in Conversations |-> None]
    /\ mappings = [c \in Conversations |-> 0]
    /\ session = [c \in Conversations |-> 1]
    /\ sessionActive = [c \in Conversations |-> None]

-----------------------------------------------------------------------------
Conv(t) == turn[t].conversation
At(t, stage) == turn[t].stage = stage
Queued(c, t) == \E k \in 1..Len(backlog[c]) : backlog[c][k] = t

\* The dispatcher invokes turn.start and tells the session (onDispatched), before
\* the fate of the call is known: the kernel or the gateway may refuse it, answer
\* at once that it cannot be delivered, or send it.
StartExecution(t, c, record) ==
    /\ \/ Host!Refuse(Start(t), BindingOf[c])
       \/ Host!FailUnsent(Start(t), BindingOf[c])
       \/ Host!Send(Start(t), BindingOf[c])
    /\ turn' = [turn EXCEPT ![t] = [record EXCEPT !.stage = "executing"]]
    /\ sessionActive' = IF record.session = session[c]
                        THEN [sessionActive EXCEPT ![c] = t]
                        ELSE sessionActive

\* A conversation without a thread mapping asks the Host for a thread first.
EnsureThread(t, c, record) ==
    /\ \/ Host!Refuse(Ensure(t), BindingOf[c])
       \/ Host!Send(Ensure(t), BindingOf[c])
    /\ turn' = [turn EXCEPT ![t] = [record EXCEPT !.stage = "ensuring"]]
    /\ UNCHANGED sessionActive

\* acceptTranscript while another turn is active: the turn joins the backlog.
Enqueue(c, t) ==
    /\ active[c] # None
    /\ backlog' = [backlog EXCEPT ![c] = Append(@, t)]
    /\ turn' = [turn EXCEPT ![t].stage = "queued",
                            ![t].conversation = c, ![t].session = session[c]]
    /\ UNCHANGED <<calls, active, sessionActive>>

\* Mutant: the mapping a conversation already has is not looked up.
DispatchTurnUnmapped(c, t) ==
    /\ active[c] = None
    /\ active' = [active EXCEPT ![c] = t]
    /\ EnsureThread(t, c, [NewTurn EXCEPT !.conversation = c, !.session = session[c],
                                          !.attempt = "open"])
    /\ UNCHANGED backlog

\* acceptTranscript of an idle conversation: the new turn is dispatched, whatever
\* the backlog holds, and its accept call runs up to its first wait.
DispatchTurn(c, t) ==
    /\ active[c] = None
    /\ active' = [active EXCEPT ![c] = t]
    /\ LET record == [NewTurn EXCEPT !.conversation = c, !.session = session[c],
                                     !.attempt = "open"]
       IN IF mappings[c] = 0 THEN EnsureThread(t, c, record)
          ELSE StartExecution(t, c, record)
    /\ UNCHANGED backlog

\* A final transcript of the conversation's session.
Accept(c, t) ==
    /\ At(t, "unaccepted")
    /\ Enqueue(c, t) \/ DispatchTurn(c, t)
    /\ UNCHANGED <<mappings, session>>

\* Mutant: the turn of an aborted dispatch is not put back.
AbortDispatchForgets(t) ==
    /\ active' = [active EXCEPT ![Conv(t)] = None]
    /\ turn' = [turn EXCEPT ![t].attempt = "none", ![t].stage = "aborted"]
    /\ UNCHANGED backlog

\* dispatch.ts's catch: an attempt without an outcome is aborted, its turn goes to
\* the front of the backlog and its entry is deleted.
AbortDispatch(t) ==
    LET c == Conv(t)
    IN /\ active' = [active EXCEPT ![c] = None]
       /\ backlog' = IF Queued(c, t) THEN backlog
                     ELSE [backlog EXCEPT ![c] = <<t>> \o @]
       /\ turn' = [turn EXCEPT ![t].attempt = "none", ![t].stage = "aborted"]

\* thread.ensure returned a thread: its mapping is handed to the store.
ThreadEnsured(t) ==
    /\ At(t, "ensuring")
    /\ calls[Ensure(t)].outcome = "result"
    /\ turn' = [turn EXCEPT ![t].stage = "mapping"]
    /\ UNCHANGED <<calls, routingVars, mappings, sessionVars>>

\* thread.ensure was refused or rejected.
EnsureFails(t) ==
    /\ At(t, "ensuring")
    /\ calls[Ensure(t)].outcome \in {"refused", "rejected"}
    /\ AbortDispatch(t)
    /\ UNCHANGED <<calls, mappings, sessionVars>>

\* The mapping is on disk: the turn is started in the new thread.
MappingCommitted(t) ==
    /\ At(t, "mapping")
    /\ mappings' = [mappings EXCEPT ![Conv(t)] = @ + 1]
    /\ StartExecution(t, Conv(t), turn[t])
    /\ UNCHANGED <<routingVars, session>>

\* The mapping could not be written.
MappingFails(t) ==
    /\ At(t, "mapping")
    /\ AbortDispatch(t)
    /\ UNCHANGED <<calls, mappings, sessionVars>>

\* Mutant: the catch aborts without looking at the attempt's outcome.
ExecutionRejectedAborts(t) ==
    /\ At(t, "executing")
    /\ calls[Start(t)].outcome \in {"refused", "rejected"}
    /\ AbortDispatch(t)
    /\ UNCHANGED <<calls, mappings, sessionVars>>

\* turn.start was refused or rejected: the dispatch is aborted, unless a
\* cancellation has ended the attempt before.
ExecutionRejected(t) ==
    /\ At(t, "executing")
    /\ calls[Start(t)].outcome \in {"refused", "rejected"}
    /\ \/ /\ turn[t].attempt = "open"
          /\ AbortDispatch(t)
       \/ /\ turn[t].attempt # "open"
          /\ turn' = [turn EXCEPT ![t].stage = "done"]
          /\ UNCHANGED routingVars
    /\ UNCHANGED <<calls, mappings, sessionVars>>

\* turn.start resolved with its events: the session drives them unless the
\* attempt was cancelled while they were awaited.
ExecutionResolved(t) ==
    /\ At(t, "executing")
    /\ calls[Start(t)].outcome \in {"events", "unknown", "failed"}
    /\ turn' = [turn EXCEPT ![t].stage =
                   IF turn[t].terminal THEN "done" ELSE "driving"]
    /\ UNCHANGED <<calls, routingVars, mappings, sessionVars>>

-----------------------------------------------------------------------------
\* The event the drive loop of t stands at.
Event(t) == calls[Start(t)].events[turn[t].position]
StreamEnded(t) == turn[t].position > Len(calls[Start(t)].events)

\* HarnessStreamRouter.#validate: the next event of a stream not yet closed.  (The
\* loop leaves the stream when its terminal event closes it; a cancellation that
\* closes it comes before the stream, so the attempt is never driven.)
InSequence(t) == Event(t).sequence = turn[t].routed + 1

\* completeAttempt: an attempt that is still open gets its outcome, and the
\* conversation is free again.
CompleteAttempt(t, outcome, record) ==
    IF record.attempt = "open"
    THEN /\ turn' = [turn EXCEPT ![t] = [record EXCEPT !.attempt = outcome]]
         /\ active' = [active EXCEPT ![Conv(t)] = None]
    ELSE /\ turn' = [turn EXCEPT ![t] = record]
         /\ UNCHANGED active

\* An accepted public event: text for the screen is sent at once, text to be
\* spoken waits for its synthesis.
RouteOutput(t) ==
    /\ At(t, "driving") /\ ~StreamEnded(t)
    /\ Event(t).kind = "output" /\ InSequence(t)
    /\ LET record == [turn[t] EXCEPT !.routed = Event(t).sequence, !.position = @ + 1]
       IN \/ turn' = [turn EXCEPT ![t] = [record EXCEPT !.log = Append(@, "output")]]
          \/ turn' = [turn EXCEPT ![t] = [record EXCEPT !.stage = "speaking"]]
    /\ UNCHANGED <<calls, routingVars, mappings, sessionVars>>

\* A rejected event -- not public, out of sequence after one that was not, or a
\* terminal event of the Host without a known outcome -- is skipped with a warning.
SkipEvent(t) ==
    /\ At(t, "driving") /\ ~StreamEnded(t)
    /\ \/ Event(t).kind = "output"
       \/ calls[Start(t)].outcome = "events"
       \/ ~InSequence(t)
    /\ turn' = [turn EXCEPT ![t].position = @ + 1]
    /\ UNCHANGED <<calls, routingVars, mappings, sessionVars>>

\* The outcomes the Host's terminal event may name.
HostOutcomes(t) ==
    CASE calls[Start(t)].outcome = "events" -> AttemptOutcomes
      [] calls[Start(t)].outcome = "unknown" -> {"unknown"}
      [] OTHER -> {"failed"}

\* Mutant: the outcome the Host names is not checked to be a known one.
RouteTerminalUnchecked(t, outcome) ==
    /\ At(t, "driving")
    /\ ~StreamEnded(t)
    /\ Event(t).kind = "terminal" /\ InSequence(t)
    /\ turn' = [turn EXCEPT ![t].stage = "finishing",
                            ![t].ending = calls[Start(t)].outcome]
    /\ UNCHANGED <<calls, routingVars, mappings, sessionVars>>

\* The terminal event closes the router; the speech is finished before the Client
\* hears of it.  A stream without an accepted terminal event ends as unknown.
RouteTerminal(t, outcome) ==
    /\ At(t, "driving")
    /\ \/ /\ ~StreamEnded(t)
          /\ Event(t).kind = "terminal" /\ InSequence(t)
          /\ outcome \in HostOutcomes(t)
       \/ /\ StreamEnded(t)
          /\ outcome = "unknown"
    /\ turn' = [turn EXCEPT ![t].stage = "finishing", ![t].ending = outcome]
    /\ UNCHANGED <<calls, routingVars, mappings, sessionVars>>

\* speech.write returns, its audio sent.
SpeechWritten(t) ==
    /\ At(t, "speaking")
    /\ turn' = [turn EXCEPT ![t].stage = "driving", ![t].log = Append(@, "output")]
    /\ UNCHANGED <<calls, routingVars, mappings, sessionVars>>

\* speech.finish returns: the Client gets the terminal projection and the attempt
\* its outcome.
SpeechFinished(t) ==
    /\ At(t, "finishing")
    /\ LET record == [turn[t] EXCEPT !.stage = "done", !.terminal = TRUE,
                                     !.log = Append(@, turn[t].ending)]
       IN CompleteAttempt(t, turn[t].ending, record)
    /\ UNCHANGED <<calls, backlog, mappings, sessionVars>>

-----------------------------------------------------------------------------
\* Mutant: the attempt is not marked terminal.
CancelTurnUnmarked(c) ==
    LET t == sessionActive[c]
    IN /\ t # None
       /\ ~turn[t].terminal
       /\ Host!InFlight(Start(t))
       /\ CompleteAttempt(t, "cancelled",
             [turn[t] EXCEPT !.log = Append(@, "cancelled")])
       /\ UNCHANGED <<calls, backlog, mappings, sessionVars>>

\* Mutant: an attempt that is terminal already can be cancelled again.
CancelTurnAgain(c) ==
    LET t == sessionActive[c]
    IN /\ t # None
       /\ Host!InFlight(Start(t))
       /\ CompleteAttempt(t, "cancelled",
             [turn[t] EXCEPT !.terminal = TRUE, !.log = Append(@, "cancelled")])
       /\ UNCHANGED <<calls, backlog, mappings, sessionVars>>

\* session.cancel of an attempt that is not terminal, which the gateway accepts: it
\* does so only for a turn.start in flight.  The router is terminated and the
\* attempt ended, all before the event loop turns to anything else.  Rejected, as it
\* always is without a call in flight, it changes nothing: the Client gets a 409.
CancelTurn(c) ==
    LET t == sessionActive[c]
    IN /\ t # None
       /\ ~turn[t].terminal
       /\ Host!InFlight(Start(t))
       /\ CompleteAttempt(t, "cancelled",
             [turn[t] EXCEPT !.terminal = TRUE, !.log = Append(@, "cancelled")])
       /\ UNCHANGED <<calls, backlog, mappings, sessionVars>>

\* The Client reconnects: a new HarnessAttemptSession takes over, while the old
\* one's attempt runs on.
NewSession(c) ==
    /\ session[c] < MaxSessions
    /\ session' = [session EXCEPT ![c] = @ + 1]
    /\ sessionActive' = [sessionActive EXCEPT ![c] = None]
    /\ UNCHANGED <<calls, turn, routingVars, mappings>>

-----------------------------------------------------------------------------
\* What the Host, or the loss of its connection, does to a call in flight.
SettleEnsure(t) ==
    /\ Host!InFlight(Ensure(t))
    /\ Host!Answer(Ensure(t)) \/ Host!Abandon({}, {Ensure(t)})
    /\ UNCHANGED <<turn, routingVars, mappings, sessionVars>>

HostDelivers(t) ==
    /\ Host!InFlight(Start(t))
    /\ Len(calls[Start(t)].events) < MaxEvents
    /\ Host!Deliver(Start(t))
    /\ UNCHANGED <<turn, routingVars, mappings, sessionVars>>

SettleStart(t) ==
    /\ Host!InFlight(Start(t))
    /\ \/ \E n \in 1..(MaxEvents + 1) : Host!Finish(Start(t), n)
       \/ Host!Abandon({Start(t)}, {})
       \/ Host!Abandon({}, {Start(t)})
    /\ UNCHANGED <<turn, routingVars, mappings, sessionVars>>

-----------------------------------------------------------------------------
\* The Relay's own steps on a turn: the continuations of its accept call and of its
\* drive loop.
Continue(t) ==
    \/ ThreadEnsured(t)
    \/ EnsureFails(t)
    \/ MappingCommitted(t)
    \/ MappingFails(t)
    \/ ExecutionRejected(t)
    \/ ExecutionResolved(t)
    \/ RouteOutput(t)
    \/ SkipEvent(t)
    \/ \E outcome \in AttemptOutcomes : RouteTerminal(t, outcome)
    \/ SpeechWritten(t)
    \/ SpeechFinished(t)

ClientStep ==
    \E c \in Conversations :
        \/ \E t \in Turns : Accept(c, t)
        \/ CancelTurn(c)
        \/ NewSession(c)

HostStep == \E t \in Turns : SettleEnsure(t) \/ HostDelivers(t) \/ SettleStart(t)

Next == ClientStep \/ HostStep \/ \E t \in Turns : Continue(t)

Spec == Init /\ [][Next]_vars

\* Commits and syntheses end, and promise continuations run.  Nothing is assumed of
\* the Host.
Fairness == \A t \in Turns : WF_vars(Continue(t))

FairSpec == Spec /\ Fairness

-----------------------------------------------------------------------------
(***************************************************************************)
(* Safety.                                                                 *)
(***************************************************************************)

Accepted(t) == ~At(t, "unaccepted")
Ended(t) == turn[t].attempt \in AttemptOutcomes

\* A transcript that was accepted is never lost nor held twice: its turn is active,
\* or waits in the backlog once, or has a terminal outcome, and only one of these --
\* through refused, rejected and failed dispatches and cancellations alike.
\* The active turn of a conversation is the one whose attempt is open: abortDispatch
\* and endAttempt never throw "not active" or "already has a terminal outcome",
\* whatever a cancellation did while the dispatch was waiting.  Only it is driven:
\* what is routed to the Client and to speech belongs to no turn that was cancelled.
TurnsAccounted ==
    /\ \A t \in Turns :
          Accepted(t) =>
              LET c == Conv(t)
                  Positions == {k \in 1..Len(backlog[c]) : backlog[c][k] = t}
              IN /\ \A k, m \in Positions : k = m
                 /\ (Positions # {}) <=> (active[c] # t /\ ~Ended(t))
                 /\ active[c] = t => ~Ended(t)
    /\ \A t \in Turns : turn[t].attempt = "open" => active[Conv(t)] = t
    /\ \A c \in Conversations :
          active[c] # None => /\ Conv(active[c]) = c
                              /\ turn[active[c]].attempt = "open"
    /\ \A t \in Turns :
          turn[t].stage \in {"driving", "speaking", "finishing"} =>
              active[Conv(t)] = t /\ ~turn[t].terminal

\* The Client hears exactly one terminal outcome of an attempt that ended, as the last
\* thing it hears of it, and the attempt is recorded with that same outcome; of any
\* other attempt it hears none.
ClientHearsOutcome ==
    \A t \in Turns :
        LET log == turn[t].log
        IN /\ \A k \in 1..Len(log) : log[k] # "output" => Ended(t) /\ k = Len(log)
           /\ Ended(t) => log # <<>> /\ log[Len(log)] = turn[t].attempt

\* A conversation gets one thread: ensure reads the mappings before two waits and
\* commits after them, yet no second mapping is ever stored.
MappedOnce == \A c \in Conversations : mappings[c] <= 1

\* An attempt that ended is never reopened, and nothing more is sent for it, though
\* its call may still be in flight and answer later.
EndedStaysSilent ==
    [][\A t \in Turns :
          Ended(t) => /\ turn'[t].attempt = turn[t].attempt
                      /\ turn'[t].log = turn[t].log]_vars

-----------------------------------------------------------------------------
(***************************************************************************)
(* Liveness, under FairSpec.                                               *)
(***************************************************************************)

\* Only the Host can keep a conversation busy: an active turn ends, or waits for a
\* call that the gateway has not settled.
OnlyHostKeepsBusy ==
    \A t \in Turns :
        (turn[t].attempt = "open") ~>
            \/ turn[t].attempt # "open"
            \/ Host!InFlight(Ensure(t))
            \/ Host!InFlight(Start(t))

-----------------------------------------------------------------------------
(***************************************************************************)
(* Statements of the repository that the code does not meet.               *)
(***************************************************************************)

\* Accepted inputs are dispatched in serial order: none overtakes one that was queued
\* before it.  (acceptTranscript dispatches the new turn of an idle conversation past
\* the ones in its backlog.)
SerialOrder ==
    [][\A c \in Conversations :
          /\ active'[c] \notin {None, active[c]}
          /\ backlog[c] # <<>>
          /\ At(Head(backlog[c]), "queued")
          => active'[c] = Head(backlog[c])]_vars

=============================================================================
