---------------------------- MODULE CodexProvider ----------------------------
(***************************************************************************)
(* The Codex provider of the Desktop Host (providers/codex): invocations   *)
(* open a session on an app-server process, send it requests and follow    *)
(* its notifications until the turn has one terminal event.                *)
(*                                                                         *)
(* A transport is named after the invocation that opened it.  Processes,   *)
(* timers and lines of output are macrotasks; the continuation of a        *)
(* resolved request is a microtask, which runs after the chunk of lines    *)
(* that resolved it and before anything else: the states "initialized",    *)
(* "opened" and "answered" of an invocation stand for it.                  *)
(*                                                                         *)
(* The app-server is external: it answers each request once, in any order, *)
(* starts a turn before or with its answer, and may emit anything.         *)
(***************************************************************************)
EXTENDS Naturals, Sequences, FiniteSets

CONSTANTS
    Turns,            \* turn.start invocations
    Ensures,          \* thread.ensure invocations, of one conversation
    Processes,
    None,
    MalformedLimit,   \* MALFORMED_INPUT_LIMIT
    BufferMax         \* bound: notifications that come before the turn's answer

Calls == Turns \cup Ensures

ASSUME CodexAssumption ==
    /\ IsFiniteSet(Calls) /\ Turns \cap Ensures = {}
    /\ None \notin Calls /\ None \notin Processes
    /\ MalformedLimit \in Nat /\ BufferMax \in Nat

Kinds == {"initialize", "thread/start", "thread/resume", "turn/start"}
Requests == [id : Nat, kind : Kinds, call : Calls]
Outcomes == {"completed", "failed", "cancelled", "unknown"}

\* What a notification is to a stream: output and facts, a retry's diagnostic,
\* or the end of the turn ("lost": an error that names a lost connection).
Signals == {"progress", "retry", "completed", "failed", "lost", "interrupted"}

VARIABLES
    process,      \* app-server processes; one that exited may stand for a new one
    record,       \* the supervisor's running record: its process
    session,      \* session: the transport it holds
    disposed,     \* dispose() was called
    call,         \* where each invocation stands
    via,          \* the transport an invocation uses
    transport,    \* state of each transport
    on,           \* the process whose channel a transport reads
    listening,    \* transports with a notification handler
    malformed,    \* #malformedCount
    nextId,       \* #nextId
    pending,      \* #pending
    threads,      \* thread registry of each session: "none", "creating", "known"
    active,       \* activeTurns
    buffer,       \* #buffered
    follows,      \* the native turn a stream correlates with, by its invocation
    ended,        \* the terminal event of a stream
    idle,         \* the idle deadline: off, fresh, or due
    asked,        \* requests each process has read and not answered
    native,       \* turns inside the app-server
    interrupted,  \* history: turns an interrupt was requested for
    overlapped,   \* history: a session was opened while another was being opened
    deaf          \* history: transports drained without the session being cleared

processVars == <<process, record, disposed, overlapped>>
channelVars == <<on, listening, nextId>>
appServerVars == <<asked, native>>
codexVars == <<process, record, session, disposed, call, via, transport, on, listening, malformed, nextId,
          pending, threads, active, buffer, follows, ended, idle, asked, native,
          interrupted, overlapped, deaf>>

CodexTypeOK ==
    /\ process \in [Processes -> {"unused", "running", "killed", "exited"}]
    /\ record \in Processes \cup {None} /\ session \in Calls \cup {None}
    /\ disposed \in BOOLEAN /\ overlapped \in BOOLEAN
    /\ call \in [Calls -> {"idle", "starting", "initializing", "initialized", "opened", "sharing",
                           "requesting", "answered", "running", "done", "failed"}]
    /\ via \in [Calls -> Calls \cup {None}]
    /\ transport \in [Calls -> {"none", "open", "drained"}]
    /\ on \in [Calls -> Processes \cup {None}]
    /\ listening \subseteq Calls /\ active \subseteq Turns
    /\ malformed \in [Calls -> 0..(MalformedLimit + 1)]
    /\ nextId \in [Calls -> Nat]
    /\ pending \in [Calls -> SUBSET Requests]
    /\ threads \in [Calls -> {"none", "creating", "known"}]
    /\ buffer \in [Turns -> Seq(Signals \X Turns)]
    /\ \A c \in Turns : Len(buffer[c]) <= BufferMax
    /\ follows \in [Turns -> Turns \cup {None}]
    /\ ended \in [Turns -> Outcomes \cup {"none"}]
    /\ idle \in [Turns -> {"off", "fresh", "due"}]
    /\ asked \in [Processes -> SUBSET Requests]
    /\ native \in [Turns -> {"none", "running", "ended", "gone"}]
    /\ interrupted \subseteq Turns /\ deaf \subseteq Calls

CodexInit ==
    /\ process = [p \in Processes |-> "unused"] /\ record = None
    /\ session = None /\ disposed = FALSE /\ overlapped = FALSE
    /\ call = [c \in Calls |-> "idle"] /\ via = [c \in Calls |-> None]
    /\ transport = [c \in Calls |-> "none"] /\ on = [c \in Calls |-> None]
    /\ listening = {} /\ active = {} /\ interrupted = {} /\ deaf = {}
    /\ malformed = [c \in Calls |-> 0] /\ nextId = [c \in Calls |-> 1]
    /\ pending = [c \in Calls |-> {}]
    /\ threads = [c \in Calls |-> "none"]
    /\ buffer = [c \in Turns |-> <<>>] /\ follows = [c \in Turns |-> None]
    /\ ended = [c \in Turns |-> "none"] /\ idle = [c \in Turns |-> "off"]
    /\ asked = [p \in Processes |-> {}] /\ native = [c \in Turns |-> "none"]

-----------------------------------------------------------------------------
Continuing == {c \in Calls : call[c] \in {"initialized", "opened", "answered"}}

\* A macrotask starts when no microtask is left.
Macrotask == Continuing = {}

Opening == {c \in Calls : call[c] \in {"starting", "initializing", "initialized"}}
Attached(p) == {t \in Calls : on[t] = p /\ transport[t] = "open"}

\* request: on a drained transport it is rejected at once.
Ask(t, kind, c) ==
    LET q == [id |-> nextId[t], kind |-> kind, call |-> c]
    IN /\ pending' = [pending EXCEPT ![t] = @ \cup {q}]
       /\ asked' = [asked EXCEPT ![on[t]] = @ \cup {q}]
       /\ nextId' = [nextId EXCEPT ![t] = @ + 1]

\* openSession from the attached channel on: a transport is made for it, and
\* the handshake is sent.
Handshake(c, p) ==
    LET q == [id |-> 1, kind |-> "initialize", call |-> c]
    IN /\ transport' = [transport EXCEPT ![c] = "open"]
       /\ on' = [on EXCEPT ![c] = p]
       /\ pending' = [pending EXCEPT ![c] = {q}]
       /\ asked' = [asked EXCEPT ![p] = @ \cup {q}]
       /\ nextId' = [nextId EXCEPT ![c] = 2]
       /\ via' = [via EXCEPT ![c] = c]
       /\ call' = [call EXCEPT ![c] = "initializing"]

streamVars == <<active, buffer, follows, ended, idle, interrupted>>

\* invoke(): the session is reused, or a running process, or one is started.
Invoke(c) ==
    /\ Macrotask /\ ~disposed /\ call[c] = "idle"
    /\ \/ /\ session # None
          /\ call' = [call EXCEPT ![c] = "opened"] /\ via' = [via EXCEPT ![c] = session]
          /\ UNCHANGED <<transport, on, pending, asked, nextId, overlapped>>
       \/ /\ session = None /\ record # None
          /\ Handshake(c, record)
          /\ overlapped' = (overlapped \/ Opening # {})
       \/ /\ session = None /\ record = None
          /\ call' = [call EXCEPT ![c] = "starting"]
          /\ overlapped' = (overlapped \/ Opening # {})
          /\ UNCHANGED <<via, transport, on, pending, asked, nextId>>
    /\ UNCHANGED <<process, record, disposed, session, listening, malformed, threads,
                   streamVars, native, deaf>>

\* supervisor.ensure returns from start(): the record is set whoever else set it.
Spawned(c) ==
    /\ Macrotask /\ call[c] = "starting"
    /\ \E p \in Processes :
          /\ process[p] \in {"unused", "exited"}
          /\ process' = [process EXCEPT ![p] = "running"]
          /\ record' = p
          /\ Handshake(c, p)
    /\ UNCHANGED <<disposed, overlapped, session, listening, malformed, threads, streamVars,
                   native, deaf>>

ExecutableMissing(c) ==
    /\ Macrotask /\ call[c] = "starting"
    /\ call' = [call EXCEPT ![c] = "failed"]
    /\ UNCHANGED <<processVars, session, via, transport, channelVars, malformed, pending,
                   threads, streamVars, appServerVars, deaf>>

\* The handshake's continuation: the session is set, whatever became of its
\* transport, and notifications are listened to.
Initialized(c) ==
    /\ call[c] = "initialized"
    /\ session' = c
    /\ listening' = listening \cup {c}
    /\ deaf' = IF transport[c] = "drained" THEN deaf \cup {c} ELSE deaf
    /\ call' = [call EXCEPT ![c] = "opened"]
    /\ UNCHANGED <<processVars, via, transport, on, nextId, malformed, pending, threads,
                   streamVars, appServerVars>>

\* thread.ensure: a creation under way is shared, a known thread resumed.
EnsureThread(c) ==
    /\ c \in Ensures /\ call[c] = "opened"
    /\ LET t == via[c]
       IN \/ /\ threads[t] = "creating"
             /\ call' = [call EXCEPT ![c] = "sharing"]
             /\ UNCHANGED <<pending, asked, nextId, threads>>
          \/ /\ threads[t] # "creating" /\ transport[t] = "open"
             /\ Ask(t, IF threads[t] = "known" THEN "thread/resume" ELSE "thread/start", c)
             /\ threads' = [threads EXCEPT ![t] = IF @ = "none" THEN "creating" ELSE @]
             /\ call' = [call EXCEPT ![c] = "requesting"]
          \/ /\ threads[t] # "creating" /\ transport[t] = "drained"
             /\ call' = [call EXCEPT ![c] = "failed"]
             /\ UNCHANGED <<pending, asked, nextId, threads>>
    /\ UNCHANGED <<processVars, session, via, transport, on, listening, malformed, streamVars,
                   native, deaf>>

\* turn.start: the stream is registered before the request is sent.
StartTurn(c) ==
    /\ c \in Turns /\ call[c] = "opened"
    /\ IF transport[via[c]] = "open"
          THEN /\ Ask(via[c], "turn/start", c)
               /\ active' = active \cup {c}
               /\ call' = [call EXCEPT ![c] = "requesting"]
          ELSE /\ call' = [call EXCEPT ![c] = "failed"]
               /\ UNCHANGED <<pending, asked, nextId, active>>
    /\ UNCHANGED <<processVars, session, via, transport, on, listening, malformed, threads,
                   buffer, follows, ended, idle, interrupted, native, deaf>>


-----------------------------------------------------------------------------
\* codexOutcomeForFailure and #finish: how a signal ends a stream.
OutcomeOf(signal) ==
    CASE signal = "completed" -> "completed"
      [] signal = "failed" -> "failed"
      [] signal = "interrupted" -> "cancelled"
      [] signal = "lost" -> "unknown"
      [] OTHER -> "none"

\* Mutant: the outcome of a failure does not depend on its class.
TransportFailureAsFailed == "failed"

\* codexOutcomeForFailure of a lost transport and of a stalled turn.
TransportFailure == "unknown"

AfterAnswer(kind) ==
    CASE kind = "initialize" -> "initialized"
      [] kind = "turn/start" -> "answered"
      [] OTHER -> "done"

Lost(lost) == IF lost THEN {c \in active : call[c] = "running"} ELSE {}

\* The requests `rej` are rejected and `res` resolved, and the transports
\* `drained` closed; `lost`: the handler of a protocol error or an exit ran,
\* which clears the session and tells every registered turn.
Settle(rej, res, drained, lost) ==
    LET failing == {m.call : m \in rej}
        shared(ms, c) == \E m \in ms : m.kind = "thread/start" /\ via[m.call] = via[c]
        answer(c) == {m \in res : m.call = c}
    IN /\ call' = [c \in Calls |->
              IF c \in failing \/ (call[c] = "sharing" /\ shared(rej, c)) THEN "failed"
              ELSE IF answer(c) # {} THEN AfterAnswer((CHOOSE m \in answer(c) : TRUE).kind)
              ELSE IF (call[c] = "sharing" /\ shared(res, c)) \/ c \in Lost(lost) THEN "done"
              ELSE call[c]]
       /\ transport' = [t \in Calls |->
              IF t \in drained \/ (\E m \in rej : m.call = t /\ m.kind = "initialize")
              THEN "drained" ELSE transport[t]]
       /\ threads' = [t \in Calls |->
              IF \E m \in rej : m.kind = "thread/start" /\ via[m.call] = t THEN "none"
              ELSE IF \E m \in res : m.kind = "thread/start" /\ via[m.call] = t THEN "known"
              ELSE threads[t]]
       /\ ended' = [c \in Turns |-> IF c \in Lost(lost) THEN TransportFailure ELSE ended[c]]
       /\ idle' = [c \in Turns |-> IF c \in Lost(lost) THEN "off" ELSE idle[c]]
       /\ session' = IF lost THEN None ELSE session

Leaving(rej, lost) ==
    Lost(lost) \cup {m.call : m \in {m \in rej : m.kind = "turn/start"}}

\* Lines are read one after another; one chunk may hold several.
Reads(p) ==
    /\ process[p] \in {"running", "killed"}
    /\ \A c \in Continuing : on[via[c]] = p

\* An answer, correlated by its number alone on every transport of the channel;
\* one that does not have the schema of the request drains the transport.
Response(p, q, ok) ==
    /\ Reads(p) /\ q \in asked[p]
    /\ ok /\ q.kind = "turn/start" => native[q.call] # "none"
    /\ asked' = [asked EXCEPT ![p] = @ \ {q}]
    /\ LET matched(t) == {m \in pending[t] : m.id = q.id}
           unfit == {t \in Attached(p) : ok /\ \E m \in matched(t) : m.kind # q.kind}
           rej == UNION {IF t \in unfit THEN pending[t] ELSE IF ok THEN {} ELSE matched(t) :
                         t \in Attached(p)}
           res == UNION {IF ok /\ t \notin unfit THEN matched(t) ELSE {} : t \in Attached(p)}
       IN /\ Settle(rej, res, unfit, unfit # {})
          /\ pending' = [t \in Calls |->
                IF t \in unfit THEN {} ELSE IF t \in Attached(p) THEN pending[t] \ matched(t)
                ELSE pending[t]]
          /\ active' = active \ Leaving(rej, unfit # {})
          /\ follows' = [c \in Turns |->
                IF \E m \in res : m.call = c /\ m.kind = "turn/start" THEN q.call ELSE follows[c]]
    /\ UNCHANGED <<processVars, via, channelVars, malformed, buffer, native, interrupted, deaf>>

\* A request is not answered in time.
RequestTimeout(t, m) ==
    /\ Macrotask /\ m \in pending[t]
    /\ Settle({m}, {}, {}, FALSE)
    /\ pending' = [pending EXCEPT ![t] = @ \ {m}]
    /\ active' = active \ Leaving({m}, FALSE)
    /\ UNCHANGED <<processVars, via, channelVars, malformed, buffer, follows, appServerVars,
                   interrupted, deaf>>

AllPending(ts) == UNION {pending[t] : t \in ts}
Drained(ts) == [t \in Calls |-> IF t \in ts THEN {} ELSE pending[t]]

\* #schemaFailure: drained first, then the session is cleared.
SchemaFailure(p) ==
    /\ Settle(AllPending(Attached(p)), {}, Attached(p), TRUE)
    /\ active' = active \ Leaving(AllPending(Attached(p)), TRUE)

\* A notification violates the schema.
InvalidNotification(p) ==
    /\ Reads(p) /\ Attached(p) # {}
    /\ SchemaFailure(p)
    /\ pending' = Drained(Attached(p))
    /\ UNCHANGED <<processVars, via, channelVars, malformed, buffer, follows, appServerVars,
                   interrupted, deaf>>

\* Mutant: the limit is missed by one.
TooManyByOne(t) == malformed[t] > MalformedLimit

TooMany(t) == malformed[t] = MalformedLimit

\* #malformedInput: the handlers run before the transport is drained, see it
\* open and leave the session as it is.
MalformedLine(p) ==
    /\ Reads(p) /\ Attached(p) # {}
    /\ LET over == {t \in Attached(p) : TooMany(t)}
       IN /\ Settle(AllPending(over), {}, over, FALSE)
          /\ active' = active \ Leaving(AllPending(over), FALSE)
          /\ pending' = Drained(over)
          /\ deaf' = deaf \cup over
    /\ malformed' = [t \in Calls |-> IF t \in Attached(p) THEN malformed[t] + 1 ELSE malformed[t]]
    /\ UNCHANGED <<processVars, via, channelVars, buffer, follows, appServerVars, interrupted>>

\* The exit handlers of the process's transports: the supervisor's record goes,
\* whichever process it names, and so does every registered turn.
Exit(p) ==
    /\ Macrotask /\ process[p] \in {"running", "killed"}
    /\ process' = [process EXCEPT ![p] = "exited"]
    /\ record' = None
    /\ Settle(AllPending(Attached(p)), {}, Attached(p), TRUE)
    /\ pending' = Drained(Attached(p))
    /\ active' = {}
    /\ asked' = [asked EXCEPT ![p] = {}]
    /\ native' = [n \in Turns |->
          IF native[n] = "running" /\ on[via[n]] = p THEN "gone" ELSE native[n]]
    /\ UNCHANGED <<disposed, overlapped, via, channelVars, malformed, buffer, follows,
                   interrupted, deaf>>

-----------------------------------------------------------------------------
\* The first end among buffered signals of the turn a stream follows.
EndInBuffer(c) ==
    LET ends == {i \in DOMAIN buffer[c] : /\ buffer[c][i][2] = follows[c]
                                          /\ OutcomeOf(buffer[c][i][1]) # "none"}
        first == CHOOSE i \in ends : \A j \in ends : i <= j
    IN IF ends = {} THEN "none" ELSE OutcomeOf(buffer[c][first][1])

Finish(c, outcome) ==
    /\ ended' = [ended EXCEPT ![c] = outcome]
    /\ call' = [call EXCEPT ![c] = "done"]
    /\ active' = active \ {c}
    /\ idle' = [idle EXCEPT ![c] = "off"]

\* start()'s continuation: the stream correlates and flushes what came before.
Answered(c) ==
    /\ c \in Turns /\ call[c] = "answered"
    /\ buffer' = [buffer EXCEPT ![c] = <<>>]
    /\ IF EndInBuffer(c) # "none"
          THEN Finish(c, EndInBuffer(c))
          ELSE /\ call' = [call EXCEPT ![c] = "running"]
               /\ idle' = [idle EXCEPT ![c] = "fresh"]
               /\ UNCHANGED <<ended, active>>
    /\ UNCHANGED <<processVars, session, via, transport, channelVars, malformed, pending,
                   threads, follows, appServerVars, interrupted, deaf>>

\* What re-arms the idle deadline.
IsProgress(signal) == signal = "progress"

\* Mutant: a stream that ended hears what comes late.
HearsLate == {c \in Turns : call[c] \in {"running", "done"} /\ follows[c] # None}

\* The streams that read a notification directly.
Hears == {c \in active : call[c] = "running"}

\* A notification of the native turn n is dispatched to every registered turn,
\* by each listening transport; one that has no answer yet keeps it.
Notification(p, signal, n) ==
    LET heard == Cardinality(listening \cap Attached(p))
        unanswered == {c \in active : call[c] \in {"requesting", "answered"}}
        following == {c \in Hears : heard > 0 /\ follows[c] = n}
        ending == {c \in following : OutcomeOf(signal) # "none"}
    IN /\ Reads(p) /\ native[n] = "running" /\ on[via[n]] = p
       /\ signal = "interrupted" => n \in interrupted
       /\ \A c \in unanswered : Len(buffer[c]) + heard <= BufferMax
       /\ native' = [native EXCEPT ![n] = IF OutcomeOf(signal) = "none" THEN @ ELSE "ended"]
       /\ buffer' = [c \in Turns |->
             IF c \in unanswered THEN buffer[c] \o [i \in 1..heard |-> <<signal, n>>]
             ELSE buffer[c]]
       /\ ended' = [c \in Turns |-> IF c \in ending THEN OutcomeOf(signal) ELSE ended[c]]
       /\ call' = [c \in Calls |-> IF c \in ending THEN "done" ELSE call[c]]
       /\ active' = active \ ending
       /\ idle' = [c \in Turns |->
             IF c \in ending THEN "off"
             ELSE IF c \in following /\ IsProgress(signal) THEN "fresh" ELSE idle[c]]
       /\ UNCHANGED <<processVars, session, via, transport, channelVars, malformed, pending,
                      threads, follows, asked, interrupted, deaf>>

\* turn/interrupt is requested of the native turn a stream follows.  Nobody acts
\* on its answer, which is left out.
Interrupt(c) ==
    IF transport[via[c]] = "open"
    THEN /\ nextId' = [nextId EXCEPT ![via[c]] = @ + 1]
         /\ interrupted' = interrupted \cup {follows[c]}
    ELSE UNCHANGED <<nextId, interrupted>>

\* Half of the idle time passes without progress.
IdleTick(c) ==
    /\ Macrotask /\ idle[c] = "fresh"
    /\ idle' = [idle EXCEPT ![c] = "due"]
    /\ UNCHANGED <<processVars, session, call, via, transport, channelVars, malformed, pending,
                   threads, active, buffer, follows, ended, appServerVars, interrupted, deaf>>

\* The idle deadline: the turn ends, and is interrupted.
IdleDeadline(c) ==
    /\ Macrotask /\ idle[c] = "due"
    /\ Finish(c, TransportFailure)
    /\ Interrupt(c)
    /\ UNCHANGED <<processVars, session, via, transport, on, listening, malformed, threads,
                   pending, buffer, follows, appServerVars, deaf>>

\* turn.cancel of a running turn; one that is not registered or not answered
\* is refused, which changes nothing here.
Cancel(c) ==
    /\ Macrotask /\ c \in active /\ call[c] = "running"
    /\ transport[via[c]] = "open" /\ follows[c] \notin interrupted
    /\ Interrupt(c)
    /\ UNCHANGED <<processVars, session, call, via, transport, on, listening, malformed, threads,
                   pending, active, buffer, follows, ended, idle, appServerVars, deaf>>

\* dispose(): the supervisor terminates the process it has on record.
Dispose ==
    /\ Macrotask /\ ~disposed
    /\ disposed' = TRUE /\ session' = None /\ active' = {} /\ record' = None
    /\ process' = IF record = None THEN process ELSE [process EXCEPT ![record] = "killed"]
    /\ UNCHANGED <<overlapped, call, via, transport, channelVars, malformed, pending, threads,
                   buffer, follows, ended, idle, appServerVars, interrupted, deaf>>

\* The app-server starts a turn it was asked for.
NativeStarts(p, q) ==
    /\ Macrotask /\ process[p] = "running" /\ q \in asked[p] /\ q.kind = "turn/start"
    /\ native[q.call] = "none"
    /\ native' = [native EXCEPT ![q.call] = "running"]
    /\ UNCHANGED <<processVars, session, call, via, transport, channelVars, malformed, pending,
                   threads, streamVars, asked, deaf>>

Continue(c) == Initialized(c) \/ EnsureThread(c) \/ StartTurn(c) \/ Answered(c)

Progress(c) == \E p \in Processes, n \in Turns : follows[c] = n /\ Notification(p, "progress", n)

CodexNext ==
    \/ Dispose
    \/ \E c \in Calls :
          Invoke(c) \/ Spawned(c) \/ ExecutableMissing(c) \/ Initialized(c) \/ EnsureThread(c)
          \/ StartTurn(c) \/ Answered(c) \/ (\E m \in pending[c] : RequestTimeout(c, m))
    \/ \E p \in Processes :
          \/ InvalidNotification(p) \/ MalformedLine(p) \/ Exit(p)
          \/ \E q \in asked[p] : NativeStarts(p, q) \/ \E ok \in BOOLEAN : Response(p, q, ok)
          \/ \E signal \in Signals, n \in Turns : Notification(p, signal, n)
    \/ \E c \in Turns : IdleTick(c) \/ IdleDeadline(c) \/ Cancel(c)

\* Microtasks run, timers fire, and starting a process succeeds or fails.
CodexFairness ==
    /\ \A c \in Calls :
          /\ WF_codexVars(Continue(c))
          /\ WF_codexVars(Spawned(c) \/ ExecutableMissing(c))
          /\ WF_codexVars(\E m \in pending[c] : RequestTimeout(c, m))
    /\ \A c \in Turns : WF_codexVars(IdleTick(c)) /\ WF_codexVars(IdleDeadline(c))

CodexSpec == CodexInit /\ [][CodexNext]_codexVars /\ CodexFairness

-----------------------------------------------------------------------------
\* Properties.

\* A turn has one outcome: what ends it again -- the idle deadline, a late
\* notification, a lost transport -- does not replace it (codex-prototype
\* specification: exactly one outcome).
OneOutcome == [][\A c \in Turns : ended[c] # "none" => ended'[c] = ended[c]]_codexVars

\* A definite outcome is what the app-server said of the turn: when the process,
\* the transport or the time ran out, the outcome is unknown.
HonestOutcome ==
    \A c \in Turns : ended[c] \in {"completed", "failed", "cancelled"}
                        => native[follows[c]] = "ended"

\* The session that later invocations reuse has an open transport.  There are
\* two exceptions, both transports that were drained while nobody cleared the
\* session: too much malformed input, and a schema failure in the chunk that
\* answers the handshake.
SessionIsOpen == session # None => transport[session] = "open" \/ session \in deaf

\* An invocation that waits for an answer can get one or a timeout: its request
\* is still in the map of an open transport.
WaitsForRequest ==
    /\ \A c \in Calls : call[c] \in {"initializing", "requesting"} =>
          transport[via[c]] = "open" /\ \E m \in pending[via[c]] :
              m.call = c
    /\ \A c \in Calls : call[c] = "sharing" =>
          \E m \in pending[via[c]] : m.kind = "thread/start" /\ m.call # c

\* A turn that was given up while its transport works does not stay active in
\* the app-server unasked (the comment on #interruptStalledTurn).
StalledIsInterrupted ==
    \A c \in Turns :
        ended[c] = "unknown" /\ transport[via[c]] = "open" /\ ~overlapped
            => native[follows[c]] # "running" \/ follows[c] \in interrupted

\* A Codex turn whose fate is unknown is never reported as failed or complete, and one
\* that is given up is interrupted first.  The session that later calls reuse is open,
\* and a call that waits can still be answered.
ProviderAccounted ==
    /\ CodexTypeOK
    /\ HonestOutcome /\ StalledIsInterrupted
    /\ SessionIsOpen /\ WaitsForRequest

\* Every invocation ends, unless the app-server reports progress for ever.
EveryCallEnds ==
    /\ \A c \in Ensures : []<>(call[c] \in {"idle", "done", "failed"})
    /\ \A c \in Turns :
          []<>(call[c] \in {"idle", "done", "failed"}) \/ []<><<Progress(c)>>_codexVars
=============================================================================
