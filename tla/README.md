# VoiceClaw: TLA+ models of the Relay, the Desktop and the phone

VoiceClaw lets a user talk to an agent. A **Client** (Desktop, phone, browser) streams audio to the
**Relay**, a Node.js process. In STT/TTS mode the Relay turns speech into a final transcript, sends it
as a *Harness turn* to a **Desktop Host** over a WebSocket, where an Integration Plugin (Codex)
executes it, and speaks the Host's answer. In realtime mode it connects the Client with Gemini or
OpenAI and executes their tool calls. What is hard here is not any single function: it is which of
several sockets, generations, calls and turns an event belongs to when connections are replaced, calls
are rejected late, users cancel and processes end. The specifications are about that.

Paths are relative to `src/`; `RS` stands for `relay-server/src`, `DM` for `desktop/src/main`, `DR` for
`desktop/src/renderer/src`.

Contents: 1 inventory, 2 modules, 3 runs, 4 fairness, 5 proofs, 6 what the code does and what its
documents say, 7 not modelled, 8 plan.

## 1. Inventory

`PROJECT.json` lists the components with their status and sources, and every hazard with its line.

| Component | State | Operations | Hard behaviours | What makes it correct | Status |
|---|---|---|---|---|---|
| Desktop Host gateway `RS/websocket-gateways.ts`, `RS/desktop-host/*` | `hostSockets`, `attempts`, `resultAttempts`; readiness reports, connected Hosts; assignments (durable) | upgrade, close handler, `hostControl.invoke/cancel`, Host frames, `authoritativeReconnect`, `reportReadiness`, `admit` | replaced sockets, late frames, close events out of order, exceptions in handlers nobody awaits | one call per binding, settled once and truthfully; only the connection that carries a call is heard | partly |
| Harness routing `RS/harness-execution/*` | turns, backlog, active attempt, the session's attempt, thread mappings (durable) | `acceptTranscript`, `abortDispatch`, `completeAttempt`, `cancel`, drive loop, speech | three waits in a dispatch, cancellation in each of them, reconnecting Clients | no transcript lost; one outcome heard; never two driven streams; spoken in order | partly |
| Control state store `RS/plugin-kernel/control-state-store.ts` | document, FIFO of commits, file | `commit`, `#write`, `read`, `open` | failed and torn writes, stale reads | memory never ahead of disk; commits in order | partly |
| Enrollment and management `RS/desktop-host/host-enrollment.ts`, `host-management.ts` | tokens, Hosts (durable) | create, exchange, revoke, re-register, admit | checks before the commit is queued | a token makes one Host; answers are durable | modelled |
| Plugin kernel `RS/plugin-kernel/*` | entries, graph, grants | discovery, resolution, load, dispose, invoke | partial activation, cycles, disposal | who is active is served | partly |
| Composed adapter `RS/adapters/composed` | STT deadline, buffered audio, turn id | commit, transcript, cancel, disconnect | deadline racing the transcript | audio neither lost nor recognized twice | partly |
| Speech-to-speech adapters `RS/adapters/gemini.ts`, `openai.ts` | upstream connection, queued control messages, tool calls, response, microphone gate | connect, rotation, tool results, messages | results after a reconnect, goAway during a call | a result reaches the session that asked; what the Client was told of its connection is true | partly |
| Relay client session `RS/session.ts` | adapter, tools in flight, turns | `session.config`, events, cleanup | overlapping configurations and cleanups | no adapter is left behind, a transcript is handed over once | partly |
| Relay tools `RS/tools`, `RS/workspace.ts` | processes, deadlines, background jobs; files | call, result, abort; seed, write, edit | cancellation before the process exists, two calls at one file | one answer per call; nothing runs on; no update lost | partly |
| Relay tracing and capture `RS/tracing`, `RS/media` | turns, spans, files | start, end, attach, close | late attributes, two that end one thing | what is recorded is traced, once | partly |
| Thinking archive `RS/thinking` | files of entries, chains of appends | append, maintain, delete, wipe | maintenance and deletion under appends | what is saved is kept, what is deleted stays deleted | partly |
| STT and TTS providers `RS/stt`, `RS/tts`, `RS/voice` | recognizer, its chain | chunks, recognition, stop | utterances are cut before noise is known | every word once, in order | partly |
| Relay process `RS/index.ts`, `shutdown.ts` | connections, tasks | signals, drain, flush, kill | a task that starts a task | it ends, after what was under way | partly |
| Tracing collector `tracing-collector/src` | rows of traces, spans, media | ingest | batches resent, stored in part, in any order | rows say what the spans say | partly |
| Desktop Host transport `DM/desktop-host/host-transport.ts` | socket, readiness reports, reconnect timer | start, connectLocal, stop, frames | late close of a replaced socket, reconnect during stop | at most one live socket; after stop no reconnect, and no socket that stop could see | modelled |
| Codex provider `DM/providers/codex` | process, session, threads, turn, idle timer | ensure, turn, cancel, dispose | notifications before the response, deadline racing completion | exactly one terminal event, a true one | partly |
| Bundled services `DM/services/service-manager.ts` | children, status, queued restarts | start, check, crash, stop | a health check of a process that is gone | one child per service, a status true of its process | partly |
| Global shortcuts `DM/shortcuts.ts` | saved and registered keys | set, clear, reset, start | keys the system or another action holds | settings, process and system agree | modelled |
| Desktop call `DR/lib/use-realtime.ts`, `audio-engine.ts` | connection, engine, mute, timer | start, stop, reconnect | superseded connections, a microphone that opens late | one connection is in use, the page tells the truth | partly |
| Call bar `DM/call-bar.ts` | window, page, queue | show, fade, hide, ready | fade timer against a new call | it shows the call there is | partly |
| Mobile call `mobile/lib/use-realtime.ts`, `use-direct-gemini.ts`, native audio | link, timers, set-up, count of buffers | start, stop, reconnect, fall back, play | old timers and sockets, two threads | the microphone is open for a session that is | partly |
| Device pairing `DR/components/DevicesCard.tsx` | tokens, card | pair, cancel, label, revoke | attempts that overlap | no good token nobody knows of | partly |
| Chat page and shared screen `DR/pages/ChatPage.tsx`, `screen-capture.ts`, `DM/draw-overlay.ts` | conversation, stream, call; capture, overlay, strokes | ask, cancel, call, choose; share, draw | closures that are stale after an await, messages between three processes | an answer lands where it was asked; a capture can be stopped | partly |
| Host profiles, pipeline selection, archive and memory hooks, HTTP harness adapters, Host plugins and settings, Desktop application shell, shared contracts, tracing UI, mobile UI, website, agent | - | - | see section 7 | - | not modelled |

How they interact: the Client's session calls `HarnessAttemptSession.accept/cancel`; the dispatcher
calls `kernel.invoke`, which checks and calls `hostControl.invoke`; the gateway writes a frame to the
Host's current socket and resolves the call when the Host's frames, or the close event of its socket,
say so. On the Desktop the transport hands frames to the runtime, which calls the Codex provider.
Assignments, Hosts and thread mappings share one durable document with one commit queue. The Relay is
one Node.js process, and so are the Desktop's main process and each of its windows: only waits for I/O
(sockets, disk, speech, messages between processes) let other handlers run, and that is where the
models' steps end. The one exception is the phone's audio engine, whose two threads share a counter.

## 2. Modules

### The Relay's core

| Module | What it is |
|---|---|
| `HostGateway` | the gateway with admission, assignments, fence and disconnect outcome; one action per handler; and the mapping under which it implements `InvocationContract` |
| `InvocationContract` | abstract specification: what `hostControl.invoke` promises its callers |
| `HostGatewayProofs` | inductive invariant, theorems and the refinement of `InvocationContract` |
| `ConversationHarness` | transcript to terminal outcome, on top of `InvocationContract` |
| `ConversationHarnessProofs` | inductive invariant and theorems about `ConversationHarness` |
| `HostRegistry` | enrollment, revocation, admission over the store with its queue and its file |
| `RegistryContract` | abstract specification: each commit takes effect as a whole, or not at all |
| `HostRegistryProofs` | inductive invariant, theorems and the refinement of `RegistryContract` |
| `SpeechDelivery` | the writer of speech: buffer, sentence batches, synthesis tail, abort |

`HostGateway`:

* `assigned`, `generation` are the durable assignments (a binding stands for binding, provider and
  workspace together, which is what `matchesAssignment` compares); `connected` is
  `#connectedHostIds`; `readiness[h][b]` holds the socket of the report in force (the code keeps only
  the report); `current` is `hostSockets`; `attempts` is both maps of pending calls, and keeps what
  became of a call after it left them.
* `sockState` follows a socket through the upgrade: `admitting` (waits for `admit`'s commit),
  `reconnecting` (waits for the generation commit), `open`, `closing`, `closed`. In `closing` frames
  are still delivered, as `ws` does until the peer's close frame.
* `commits` is the store's queue. Each upgrade action ends where the code awaits a commit;
  `CommitActivity` and `CommitReconnect` continue it, `CommitFails` is the rejected promise. A failed
  generation commit is rethrown at `websocket-gateways.ts:114` where nobody catches it, which ends
  Node: `ProcessEnds`. So does the exception of a sequence gap (`HostEventGap`). `Crash` may leave a
  commit on disk that memory never saw.
* `Invoke` has three outcomes, `Refuse`, `FailUndelivered`, `Dispatch`; grants and contribution
  registry are the free boolean `permitted`. The Host may send any frame at any time: the gateway's
  checks, not the Host's good behaviour, must give the properties.

`InvocationContract` says what a caller sees of a call: refused, undeliverable (`failed`), or sent while
no other call of the binding is in flight; then numbered events, and one settlement (`events` with a
terminal number above all others, `result`, `unknown`, `rejected`), or none because the process ended.
`ConversationHarness` INSTANCEs it for its calls, so the actions of the gateway are replaced by their
contract there; rejections by the kernel's own checks are the contract's rejections. Its record
`turn[t]` joins the routing entry of a turn, its attempt, the `ActiveSessionAttempt` and the local state
of its accept call and drive loop; `stage` says at which `await` they stand. `CancelTurn` is the
accepted cancellation: from the call of the kernel to the end of the attempt the code awaits only
promises that are already settled, so it is one step; a refused one (409) changes nothing. Every event
may be public and routed (`RouteOutput`) or be rejected by the router (`SkipEvent`). One attempt stands
for a turn: `ConversationRouting.recover` and `release` have no caller.

`HostRegistry` has the whole life of a commit, which the two modules above abstract to "it succeeds,
fails, or the process ends": the queue (a promise chain), the mutation of a copy, the temporary file,
the rename, the assignment in memory, the answer. `HostGateway` and `ConversationHarness` take a commit
as one step of that queue, which is what `RegistryContract` promises.

### The Desktop

| Module | What it is |
|---|---|
| `HostTransport` | the socket to the Relay, with its reconnect timer and the replay of readiness reports |
| `CodexProvider` | process, transport, handshake, threads, turns with their deadlines, interrupts, disposal |
| `ServiceManager` | the child processes in boot order, their checks with each probe and pause, crashes and queued restarts |
| `GlobalShortcuts` | saved, registered and refused keys |
| `DesktopCall`, `CallBar` | a call as the page holds it, which offers a start only when it shows none, with the greeting's timer, which does not look; and the window that shows it above others |
| `ChatPage` | conversations, text chats, calls and the messages on disk |
| `ScreenShare` | capture, page, main process and overlay, with messages under way between the last three |
| `DevicePairing` | the card, its attempts and the rows of the tokens |
| `DesktopProofs` | theorems about `HostTransport`, `CodexProvider`, `ServiceManager` and `GlobalShortcuts`, as `MCDesktop` composes them |

The Relay is the environment of `HostTransport` (it answers, closes and fails in any order) and of
`DesktopCall`; the app server process is that of `CodexProvider` (any notification, in any order with
the responses, malformed lines, an exit at any time).

### Sessions, tools, speech, traces

| Module | What it is |
|---|---|
| `RelaySession` | `session.config` with the adapters it replaces, errors, closes and cleanups |
| `ToolCalls` | a tool call from placeholder to result, the process behind it, its signals and deadlines |
| `WorkspaceFiles` | one file that sessions seed and tool calls write and edit at the same time |
| `ThinkingStorage` | chained appends, compression of old files, deletions |
| `TurnCapture`, `TraceCollector` | turns with spans and recordings; the collector's rows |
| `RelayShutdown` | the end of the process |
| `GeminiAdapter`, `OpenAIAdapter` | the speech-to-speech adapters with their upstream; of OpenAI's items, each one's fate |
| `SpeechInput` | the composed adapter's audio with the GPT-SoVITS recognizer |
| `MobileCall`, `DirectCall`, `MobileAudio` | the phone: over the Relay, with Gemini directly, and its audio engine |
| `SessionProofs` | theorems about `RelaySession`, `TurnCapture`, `ToolCalls` and `RelayShutdown`, as `MCSession` composes them |
| `CallsProofs` | theorems about the call's clients, the call bar, the echo gate and the pairing, as `MCCalls` composes them |
| `RealtimeProofs` | theorems about `GeminiAdapter` and `OpenAIAdapter`, as `MCRealtime` composes them with the parts of speech |
| `ComponentsProofs` | theorems about `WorkspaceFiles` and `ThinkingStorage`, as `MCComponents` composes them |

### The plugin kernel

`PluginKernel` (the discovery of packages with identities that occur twice, `IdsAreUnique`; load,
dispose, who is active, selected and shown; the dependency graph, Kahn's passes against the definition
of an order, `OrderIsRight`), on `Semver` (comparison and ranges against their definitions,
`OrdersVersions`, `KeepsCompatible`).

### Conventions

* Actions are named for the function or handler they model; a handler that awaits is one action for
  each stretch between two awaits.
* Operators preceded by a "Mutant:" comment are plausible bugs of the definition after them. They are
  not part of the specification: each shows that a property would notice.
* A variable marked *history* is not in the code. Some of them remember a situation in which the code
  itself breaks what a property says (section 6); the property then excludes exactly that situation,
  and the run shows that there is no other.

## 3. Runs

Each run asks one group of questions. Parts that share no state run in one configuration: the variable
`part` is chosen in the initial state and only that part takes steps, because interleaving independent
parts multiplies states and adds no behaviour. The properties of such a run are conjunctions.

| Run | Parts and instance | States | What it shows |
|---|---|---|---|
| `host_gateway` | 1 remote Host, 1 binding, 2 sockets, 2 calls, numbers to 2, 1 restart; symmetry | 57,000 | how calls are settled, and that `HostGateway` implements `InvocationContract` |
| `host_gateway_sockets` | 1 remote and 1 local Host, 3 sockets, 1 call, 1 restart | 105,000 | which of several connections is heard and written to |
| `conversation_harness` | 1 conversation, 1 binding, 3 turns, 1 public event, 2 Client sessions | 487,000 | nothing of a turn is lost, heard twice or heard late |
| `recovery` | registry (2 Hosts, 3 calls, 1 restart); gateway (1 local Host, 3 sockets, 1 call); harness (2 turns, 2 sessions) | 139,000 | commits are durable and whole; everything that should end ends |
| `desktop` | transport (2 ports, 1 binding); Codex (1 turn, 1 ensure, 1 process); services (3 children, 2 restarts); shortcuts (2 actions, 3 keys) | 288,000 | one link to the Relay, one true outcome per turn, one child per service, keys that agree |
| `realtime` | Gemini (2 calls, 2 attempts, queue of 1); OpenAI (2 items, 2 events); speech (2 attempts, batches of 2, 4 fragments); input (4 frames, 2 commits) | 741,000 | the Client's picture of its session is true; tool results are lost or misdirected only with a session; words are spoken and recognized once and in order |
| `calls` | Desktop (4 connections, 2 reconnects); phone (3 sockets, 2 attempts, 1 timer); direct (2 starts); call bar (2 messages); audio engine (3 buffers, 2 captures); pairing (3) | 167,000 | one connection in use, a page that tells the truth, a set-up that ends, tokens that are known |
| `session` | session, tracer, tools, shutdown (2 configurations, 2 turns, 2 calls, 2 sessions) | 338,000 | no adapter, process or file left behind; one answer per tool call; recordings on the spans of their turns |
| `components` | kernel (3 contributions), discovery (4 directories), versions (numbers 0..2), chat page (2 asks, 2 conversations, 4 acts), share (2 shares, 4 gestures), thinking archive (4 requests), workspace file (3 calls), collector (3 spans, 2 resends) | 637,000 | who is active is served; answers land where they were asked; captures can be stopped; files lose what was acknowledged only in the ways section 6 lists; rows say what the spans say |

What the properties say:

* `host_gateway`: `TypeOK`, `OneInFlightPerBinding`, `PendingHasSocket`, `StreamWellFormed`,
  `FailedMeansNotSent`; the step property `SettledOnce`; the refinement `ImplementsContract`.
* `host_gateway_sockets`: `GenerationFencesSocket`, `CancelReachesExecutor`, and the step property
  `OnlyExecutorHeard`.
* `conversation_harness`: `TypeOK`, `TurnsAccounted` (every accepted turn is in the backlog, under way
  or ended, and active exactly while its attempt is open), `ClientHearsOutcome`, `MappedOnce`,
  `EndedStaysSilent`.
* `recovery`: `RegistryTypeOK`, `OneActiveHost`, `AnswersAreDurable`, `ImplementsRegistryContract`, and
  the liveness `RelayRecovers` (`EveryCallSettles` of the registry, `AttachedHostRecovers` of the
  gateway, `OnlyHostKeepsBusy` of the harness).
* `desktop`: `HostLinkAccounted` (one live socket; after stop no timer, and no socket but one whose open it overtook or a user asked for; no report forgotten; an accepted
  report is one the Relay has), `ProviderAccounted` (an outcome is what happened; a stalled turn is
  interrupted; a session in use is open; a turn waits only for a request under way), `OneOutcome`,
  `ServicesAccounted` (one child; a status true of its process; keys agree), and the liveness `DesktopSettles`
  (`HostComesBack`, `EveryCallEnds`).
* `realtime`: `LastWordIsTrue` (what the Client was told last of its session is true, but for a clean
  close and a refused rotation, which the code does not tell), `ResultReachesModel` (Gemini: queued
  messages are within their limit and flushed, results reach the session that asked, the watchdog waits
  for tools; OpenAI: what a session was handed is spoken by it, and only the end of a session loses or
  misdirects an item; the microphone opens again), `SpeechInOrder` (of the synthesis and, of recognition: nothing lost, said twice, out of order
  or after the end), and the liveness `RotationEnds`.
* `calls`: `CallAccounted` (one connection or link; mute agrees; the microphone has a session; nobody is
  stranded; the last set-up wins; the bar agrees; the echo gate follows the player), `PairingAccounted`
  (no good token that no one knows of), and the liveness `CallsResolve` (`CallResolves`, `SetupEnds`).
* `session`: `AdaptersAccounted` (of a replaced or left session nothing stays, no tool result of it
  reaches another, its transcript was handed over once), `CaptureAccounted`
  (what was recorded is traced, once), `ToolsAccounted` (one answer, one end heard, no command
  forgotten), and the liveness `SessionSettles` (`ToolsSettle`, `ShutdownEnds`).
* `components`: `KernelAccounted`, `PageAccounted` (chat page and shared screen), `CollectorAccounted`
  (`TraceIsWhole`), `FilesAccounted` (in which ways an acknowledged entry or edit can be lost, the order of
  entries be broken and a deletion be undone: those listed in section 6, and no other).

Why these bounds. Three sockets let one be replaced twice with the oldest still closing; two calls are
the least that can collide on a binding, and two sockets the least that can replace one another under
them; a second Host sends frames about calls that are not its own; number 2 makes a gap (1 missing) and
a duplicate possible; one restart separates what is durable. The third turn of a conversation meets a
backlog. Three calls of the registry let one be queued between two others; two ports let the transport
meet a new and an old address. A queue of one control message overflows with the second. Four
connections allow a call, two reconnects and a call by hand after them, or one that the greeting starts over it. Four requests to the thinking
archive are what the second compression of a session's file takes. In every module a third actor would
only repeat what the second one does: each hazard in `PROJECT.json` needs at most the number of actors
its run has. What the bounds leave out -- more Hosts, sockets, calls, turns, adapters, longer streams, more
restarts -- is what the theorems cover of the modules that have them.

`CHECK_DEADLOCK FALSE` appears in every configuration because sockets, calls, turns and the other
supplies are finite there and run out.

Every property of the passing runs has a mutant in `PROJECT.json`: a definition with the bug it is there to
find.

Three runs expect a violation. Each checks one statement of the repository that the code does not keep:

| Run | Property | What happens |
|---|---|---|
| `lost_connection` | `LostConnectionSettles` | A Host's socket is replaced and then closes. The close handler returns, because the socket is no longer the current one, before it settles the calls sent on it: they stay pending while `openspec/specs/desktop-host/harness-contract/spec.md:135-138` says that a call whose connection is lost after dispatch is recorded as `outcome-unknown`. |
| `serial_order` | `SerialOrder` | A turn ends while others are queued behind it; the next transcript is dispatched by its own id, past them. `openspec/specs/harness-execution/routing/spec.md:25` promises visible serial order. |
| `muted_is_heard` | `MutedIsUnheard` | The user starts a call and mutes while it connects; the connection fails, and its error stops the call but leaves `isMuted` as it is, which only `endCall` resets (`DR/pages/ChatPage.tsx:489-507`, 624); the user starts again by hand, and the new `AudioEngine` is not muted (`use-realtime.ts:384`): the page shows a muted microphone while its frames are sent, against `DR/call-bar/CallBar.tsx:83-84`. The start of a reconnect makes its engine in the same way; with it the trace is longer. 3 connections, 1 reconnect, no greeting. |

## 4. Fairness

Weak fairness unless said otherwise, and only of what the code, its timers or the operating system
bring about without a user, a Client or a vendor.

| Module | Assumed | Why |
|---|---|---|
| `HostGateway` | a commit at the head of the queue ends; a closing socket gets its close event; a Host reports readiness on an open socket | writes to a file end in success or failure; `ws` destroys a closing socket after its timeout; `host-transport.ts:408` replays the reports when a socket opens |
| `ConversationHarness` | each turn's own continuation | promise continuations, commits and syntheses end; nothing is assumed of the Host, whose silence is the exception in `OnlyHostKeepsBusy` |
| `HostRegistry` | each call's commit goes on | as above |
| `HostTransport` | the timer fires, the answer of the Relay, a close or a failed open is delivered, a report is accepted | timers and events of the socket. Strong fairness of `Opened`: an address that is tried again and again answers at last, without which "the Host comes back" cannot hold |
| `CodexProvider` | continuations, the end of a spawn, request deadlines, idle ticks and deadlines | microtasks, timers. Nothing is assumed of the app server |
| `GeminiAdapter` | a set-up settles, a resumption goes on | the set-up has a timeout |
| `DesktopCall` | the reconnect timer, the end of an open; a connection that is not ready becomes so, fails or closes | timers, events of the socket |
| `DirectCall` | the set-up's deadlines | timers |
| `ToolCalls` | results, the end of a spawn, deadlines, kills, the shell's end after `SIGKILL` | timers, operating system |
| `RelayShutdown` | the hard kill | a timer |

The compositions conjoin the fairness of their parts with one specification in which only the chosen
part moves. No fair action of a part that was not chosen is enabled in its initial state, so the
conjunct of such a part holds of every behaviour and takes none away; what a liveness property says of
a part is decided by the behaviours in which that part moves.

## 5. Proofs

What TLC shows for two sockets or three turns, TLAPS proves for any number of them. A composition
EXTENDS the components that have proofs, so that a theorem states the very property its run checks.

| Module | Theorems | Assumed of the constants |
|---|---|---|
| `HostGatewayProofs` | `TypeCorrect`, `OneInFlight`, `PendingSocket`, `GenerationFence`, `CancelCorrect`, `StreamCorrect`, `FailedCorrect`; the step properties `SettledForGood`, `ExecutorHeard`; the refinement `GatewayKeepsContract` | `None` is no Host, binding or socket; local Hosts are Hosts; the bounds are natural numbers, `MaxSequence` not 0 |
| `HostRegistryProofs` | `RegistryTypeCorrect`, `OneActive`, `AnswersDurable`; the refinement `FileKeepsContract` | `None` is no Host and no request; the bound is a natural number |
| `ConversationHarnessProofs` | `HarnessTypes`, `HarnessKeepsTurns`, `HarnessTellsOutcome`, `HarnessMapsOnce`; the step property `HarnessStaysSilent` | a conversation has selected a binding; `None` is no turn; the bounds are natural numbers, `MaxSessions` not 0 |
| `DesktopProofs` | `LinkInvariance`, `HostLinkSafe`, `ProviderSafe`, `ServicesSafe`; the step property `ProviderHasOneOutcome` | a Host has finitely many configured bindings; finitely many invocations, each a turn or an `ensure` and not both; `NoPort`, `None`, `NoChild`, `NoKey` are no socket, no invocation and no process, no child, no key; the limits are natural numbers |
| `SessionProofs` | `ToolsSafe`, `AdaptersSafe`, `CaptureSafe` | `NoAdapter` is no configuration; the bound of adapters is positive, that of turns a natural number |
| `CallsProofs` | `CallsSafe`, `PairingSafe` | the bounds are natural numbers; `Null` is no count of buffers |
| `RealtimeProofs` | `LastWordsTrue`, `ResultsReachModel` | finitely many tool calls; `NoSocket` is no socket; the bounds are natural numbers, `MaxAttempts` not 0; what Gemini sends is audio, the end of it, or what was heard of the user |
| `ComponentsProofs` | `FilesSafe` | the bounds are natural numbers; `Null` is no entry, no session, no file and no text |

Every safety property of the passing runs is proved but four: `SpeechInOrder` of `realtime`, and of
`components` `KernelAccounted`, `PageAccounted` and `CollectorAccounted`. Each proof is an inductive invariant, checked by TLC before it was proved, with one lemma for each action or for each
part of the invariant. What follows says which facts the stated properties need and do not say themselves.

**The gateway.** `IInv` is the conjunction of

* `TypeOK`, and that queued commits belong to sockets in use (`CommitsTyped`);
* `AttemptInv(i)` for each invocation: the shape of its record in each phase (an idle one is blank; a
  pending one was written, `via` a socket, its events are all outputs numbered 1..n; a settled one has
  the stream its outcome demands). The stated properties are not inductive without it: that a terminal
  number is above all others needs the numbers before it to be contiguous;
* `OneInFlightPerBinding`, `PendingHasSocket`;
* `GenerationReached`: a pending call's generation is at most its binding's. Without it a reconnect
  could move a stale call's assignment *into* a match;
* `GenerationFencesSocket`.

Every action changes an invocation in one of a few ways, which `Evolves(i)` lists; `AttemptsEvolve`
proves that the actions do, and the preservation of `AttemptInv`, `SettledOnce` and the history
properties follows from `Evolves` alone. The relational parts use two more lemmas: when a call can
become or stay pending (`PendingAfter`), and that a Host's current socket changes only together with
a new generation for all its bindings, or with its calls settled (`CurrentMoves`). `OnlyExecutorHeard`
follows from `GenerationFencesSocket` in the state before the step.

**The gateway keeps its contract.** `CallOf` maps a record of `attempts` to what its caller sees. Each
handler is then one step of `InvocationContract` or none: `Invoke` is `Refuse`, `FailUnsent` or `Send`,
for which the contract's guard "no other call of the binding in flight" is what the gateway's check
gives; an output is `Deliver`, a terminal event `Finish`, a result `Answer`; a close settles the calls of
its socket at once, one `Abandon` of them all; the end of the process is `Vanish`; sockets, commits and
cancellations change no call. The numbering of the contract (each event above the last, the end above
all) needs `AttemptInv`, so the steps are proved from `IInv`.

**The registry.** `RegistryInv` is the conjunction of

* `RegistryTypeOK`, and `QueueInv`: the queued calls are open and distinct, and those behind the head
  have not begun;
* `DocumentInv`: memory is what the file holds, unless the head's commit was renamed into place and not
  yet taken over; `CandidateInv`: the candidate is the head's mutation of memory. Together they say that
  a commit is applied to what is on disk, which is why no earlier commit is lost;
* `JustifiedInv` and `OrderInv`: the calls in the queue passed their checks, and no exchange of a Host
  is queued behind a revocation of it. The checks are made before the commit is queued, so
  `OneActiveHost` is not inductive without them;
* `AnswersAreDurable` and `OneActiveHost` themselves.

**The harness.** `TurnInv` says of one turn what its stage says of its attempt and of what the Client
heard: an attempt exists from the dispatch on, it is open wherever the code still goes on with it (while
the Host executes, it may have been cancelled), and the log is output until the outcome it ends with.
`BacklogInv`: a conversation's backlog holds exactly the turns that wait in it, each once. `ActiveInv`:
the active turn is the one whose attempt is open, in both directions. `FlightInv`: only a turn that is
executing has a `turn.start` in flight; the harness knows its calls only through the contract
(`HostSteps`). `MappingInv`: a thread is ensured only for a conversation that has no mapping, which
holds across the two waits because there is one active turn. `StepMoves` reduces all handlers to four
ways in which turns, backlog and active turn move together -- a transcript is queued, a turn is
dispatched, aborted, or proceeds (`Moves`) -- from which the parts follow.

**The transport.** A report names a value per binding, and that a Relay holds what was accepted is only
true because each binding is reported with one value for good (`OneValueEach`) and nothing about it is on
any wire before (`NothingUnsaid`). `ReplayInv`: on the open socket, what was accepted is held or on its
way. `StopInv`: after a stop that met no start there is no timer, and a socket that opens or is open was
being opened when the stop came, or is a user's; `PortInv`: who opens a socket, and that
the current one has not had its close event; `PendingInv`: the start waits for one report.

**The Codex provider.** Requests, transports, processes and turns each have their part: an open
transport reads a process that has not exited (`ChannelInv`), a request in its map is that of the one
invocation that waits for it, by number and by kind (`RequestInv`), an invocation stands where its
transport allows (`PlaceInv`), and an end that waits in a buffer is that of a turn which ended
(`TurnInv`), which makes outcomes honest. `SoleInv` is the hard part: as long as no two sessions were
opened at once there is one process and one open transport, and without that a protocol error or an
exit, which clears whatever session there is, could clear another's. The five handlers that settle
many requests at once (a deadline, an exit, a malformed line, an ill-formed notification, a response)
are shown to be instances of one step, `SettlingStep`, of which each part of the invariant is proved
once.

**The tools.** The invariant is per call (`CallInv`): what was answered, injected and told in each
phase, and that a call which runs and has not been aborted belongs to the current adapter or to
`tool.exec`, was made during `cleanup()` if the connection is no longer open, or is a file tool of the
model (`Unsignalled`). That is why no result strays: whoever removes the adapter aborts first. The three
ways to `abort()` share one lemma.

**The services.** A process that is still there is its service's current one (`Owned`). The boot sequence waits
for the process it started and has started no later service (`Booted`). `Told`: a status that was last set for the
service's own process (`speaker`) is what that process is, as soon as nobody waits for it, and an answer that
came too late is of a process whose exit came while it was probed (`unseen`). The head of the chain has an entry
(`Queued`), so the exit that a restart awaits is of its own service. **The shortcuts.** `Agreed` says of any state of the process and of the system that a key is
held for an action exactly if it is registered for it; claiming and releasing a key preserve it, and each
handler is a sequence of the two.

**The adapters of a session.** `Handed`: an adapter is made once, and its transcript is handed over when it
stops being the current one. `Sole` and `Current`: as long as no two configurations overlapped, the one
under way is the only one, and an adapter that is connecting or up is the current one. `Aborted`: a tool
that an abort would end runs for that adapter, and none runs while a configuration makes another one --
which is why no result strays. `Cleaned` gives each cleanup its event. **The shutdown.** `CleansUp`: what still
runs after the drain belongs to a session whose close event came too late, or to a drain that timed out.

**The recording of turns.** At most one turn is recorded, and it is the one the tracer has active, while the
upstream can start one or one is active (`EndsInv`); a configuration disconnects the upstream before it
closes the turn; a session that is over has no open span (`TracesInv`); files are described on their own
turn's span or on none (`FilesInv`); and the audio of the session is stitched from closed turns, each once
(`KeptInv`).

**The calls.** On the Desktop `RefsInv`: the refs name the last connection or none, and a microphone that is
open is the present engine's or was granted late. On the phone, through the Relay, the socket in use is not
one that a stop or a later start closed (`InUse`), and a call that is shown as active or connecting has its
connection, or a start or a timer is to bring it, or it was given up and says so (`Coming`). With Gemini
directly, `FreshInv` and `AwaitedInv` follow an answer: a start asks for each one once, none is awaited for a
start that opened no socket, and the socket to Gemini is opened with both. The call bar is the proof about
messages under way: the last message on its way to the window says what the main process holds, or there is
none and the window shows it (`Tells`), which a queue of one value per subject keeps until the window is ready.
The echo gate's count is bounded by the buffers that were played and those whose callback is still to
come, also for the values that a thread has read and not yet written back (`InBounds`), and while neither
thread met the other it is exact (`CountInv`).

**The pairing card.** The attempt the card counts as its own is the one it waits for (`AttemptInv`), and
a token is shown, revoked or confirmed only when its attempt is over, and only one of the three
(`TokenInv`).

**Gemini's session.** A result may only be sent on the socket its call came from. The code has no such check:
it counts calls. `OwedInv` is what makes the count enough: it is never below the number of calls the present
session still waits for, those calls came from the present socket, and while a new session is being opened
there are none. It rests on `SocketInv`, that the one socket that is alive is `upstream`, unless a disconnect
gave it up, and on `QueueInv`: messages are queued only while there is no socket or another is being made, and
once a new session is being opened, a result among them is that of a call which a forced session or a wrong
count overtook (section 6), so no other result reaches a session that did not ask.

**OpenAI's session.** What the adapter believes and what the server does differ while events are on their way,
so the invariant is about the two lines: if the adapter takes a response for active there is one, or one is
asked for, or what ends it is under way (`ActiveInv`); after an item a response is asked for, on the same line
or later (`ItemsInv`, `Follows`); and after the events of a response its end still comes (`ResponseInv`). What
becomes of an item is followed by its number (`FateInv`): one that was sent is on the line until it is read, and
none is lost or misdirected while the first session lasts. Items and requests in both directions are on one line,
so the steps of the server are proved through what they do to `Has` and `Follows`. The
microphone opens again because the belief that closes it is one of those that something on its way ends.

**The workspace file.** A call looks at the file, reads it, opens it, which truncates it, and fills it. That
an acknowledged text is there needs to know where the others are: an empty file is in the hands of one that
opened it, or of one that failed (`EmptyInv`); a call that met no other finds the file as it left it
(`AloneInv`); and a text that is not in the file is in the copy of an edit that is about to fill it (`HeldInv`).

**The archive of private reasoning.** The entries of a session are written in the order they came because an
append waits for the last one of its chain. `ChainInv` says so for any two of them: the later one is not begun,
or is queued behind one that is under way and at or after the earlier; `LastInv` keeps `sessionWrites` the last one.
A deletion is safe for the same reason (`RemovalInv`): what it is to delete is over, or an append it waits for is at
or behind it in its chain. The maintenance pass reads, writes and unlinks with awaits between, so `PassInv` says
at each of them that what is about to be unlinked is in what was read or in the archive, unless an append came
between, which `squeezed` remembers (section 6).

**Only model-checked.**

* Liveness and fairness (`RelayRecovers`, `DesktopSettles`, `RotationEnds`, `CallsResolve`,
  `SessionSettles`): out of the prover's reach, as is ENABLED.
* `KernelAccounted` (the dependency graph and the discovery recurse over their data), `CollectorAccounted` (the rows are
  folds over the spans received) and `SpeechInOrder` (the text that is spoken is compared with what was
  said by concatenation): what such a definition computes for every input needs induction over data,
  which cannot be proved here.
* `PageAccounted`: no proof yet (section 8).

## 6. What the code does and what its documents say

Where the code breaks what a property says in one situation, a history variable remembers that situation
and the property excludes it. These are the situations, so that a reader can tell what the runs do *not*
claim. The three findings of section 3 come first: a lost connection that settles nothing, a queue that
is overtaken, a mute that is lost.

Relay, Hosts and turns

* A generation commit that fails and a gap in a Host's numbers end the process
  (`websocket-gateways.ts:114`, `:640`). Admission may overtake a revocation (`host-connection.ts:77-99`
  against `host-management.ts:45-49`); a re-registration looks at the first registration only
  (`host-management.ts:54`); readiness may come from the report of an older socket
  (`active-assignment.ts:112`).
* After an accepted cancellation the gateway counts the call against its binding until the Host ends it:
  the next turn may be refused and go to the backlog. A turn that is already being spoken cannot be
  cancelled (`terminal-outcome.ts:62`).
* `tts-delivery.ts` sends `harness.tts-failed` after an abort, and its writer waits for the synthesis
  under way.
* `findCycles` misses cycles through nodes that are already complete (`dependency-graph.ts:159-173`;
  `openspec/specs/plugin/kernel-phase-zero/spec.md:70-73`); a disposal shows consumers that had failed
  as pending (`phase-zero-kernel.ts:423`).

Realtime sessions

* `toolCallCancellation` zeroes Gemini's count of calls (`gemini.ts:694`); a forced fresh session ignores
  calls in flight; a gate set by a replaced session stays closed until the watchdog's prompt
  (`gemini.ts:365`, comment at 138-140), and that prompt may take a place in the queue of control
  messages.
* A session that closes with a clean code (1000 or 1005) is not reported to the Client, which goes on taking
  it for ready (`gemini.ts:299`, `openai.ts:311`). An upstream refused during OpenAI's rotation is never
  reported (`openai.ts:285`; `architecture.mdx:211`), and `isRotating` stays set, since `rotate` awaits a
  promise that never settles (`openai.ts:302`): the Client takes the session for rotating for good.
* What is handed to OpenAI's adapter while a session is being replaced, or after one closed, is dropped
  (`openai.ts:667-674`), and the result of a call that a replaced session made goes to the new one, which did
  not ask for it (`openai.ts:187-209`); what no response of a session took up is gone with it.
* A disconnect amid a reconnect leaves an upstream open; audio of a replaced
  session gates the microphone until the next response ends; a queued `response.create` may be overtaken
  (`openai.ts:202-203`).
* Overlapping `session.config` messages and a cleanup amid one leave adapters behind
  (`session.ts:1178-1179`); `runWebSearch` without a key emits no failure (269-273).
* The rest of a chunk behind an utterance's end is dropped (`gpt-sovits.ts:103`, 143-145); the chain of
  recognitions has no `catch`, and a rejection ends Node (220, 232, 267); after a 504 a retry may
  recognize the same audio twice, and an earlier utterance's transcript clears audio said after it.

Tools, files, traces

* A write or an edit that overlaps another at the same file may undo it. A second seeder may overwrite
  what was written since its look, against the comment "never overwrite" of `workspace.ts`, and a file
  truncated by a failing or interrupted write counts as seeded.
* An entry appended to a thinking file while its compression is under way may be lost; a wipe forgets the
  chain of appends, so that a new append runs beside an old one and a later deletion does not wait for it; a
  second compression replaces the archive of the first; an entry deleted amid a compression may
  come back, as it may when the deletion lists the files while one is renamed. What is compressed is
  never loaded again.
* A later good batch turns a failed trace ok (`db.ts:199` against "error wins" in `otlp.ts:139-140`);
  fields said to belong to the first writer belong to the last. `media.*` attributes are lost when a
  second cleanup ends spans while files close (`session.ts:1314`).
* The shutdown may miss a session whose close event comes after `server.close` (`index.ts:159-166`).

Desktop

* An answer read from a replaced socket may come too late for the replay of readiness reports; two Codex
  transports may drain while nobody clears the session; a restart may take over a service that is being
  started.
* A socket whose opening is under way when the Host is stopped becomes its current one all the same, and stays
  open (`host-transport.ts:270-276`); a stop that meets a start is overtaken by it.
* `waitForHealthy` looks at the exit code before it asks for the health, and `start` takes the answer without
  looking again: a service whose process exits in between is said to run (`service-manager.ts:97-106`, 181-188).
  A `start` whose process a restart replaced sets the status of the service all the same.
* "Hide bar" is said to last for the session (`DM/index.ts:351-352`), and a reconnect undoes it.
  A refused key leaves the database with a key that is not registered (`shortcuts.ts:63-64` says
  otherwise), since the previous one was released first; a key given to another action stays in the
  first one's settings.
* The greeting starts a call 600 ms after the page is there, by flags of its first render
  (`ChatPage.tsx:603-614`), over one that the user has started meanwhile.
* `reconnectAttempts` is not reset after giving up; a microphone that is granted after stop stays open
  (`audio-engine.ts:49`; `typing-messages.mdx:36`).
* Late labels go to whatever is paired by then (`DevicesCard.tsx:63-65` says otherwise); a failed QR code,
  a failed revocation and leaving the page leave good tokens that no one confirmed (122-123).
* On the chat page, overlapping submits, a conversation chosen while messages load or a call connects,
  and a conversation deleted while it is open each leave an answer elsewhere than it was asked. A second
  share begun while the first is pending leaves a capture that nobody can stop; a late refresh of
  bounds scales the next share; a stroke begun before the overlay is hidden stays.

Phone

* Hanging up during a reconnect leaves `isConnecting` set; old timers and sockets act on new calls; the
  maximum of reconnects is never reached because `trigger()` resets the count. In direct mode, the
  deadlines of a dropped set-up fire on the resolvers of a newer one, a fallback starts a call after the
  user stopped, and an error during set-up causes a fallback and a reconnect, two live calls.
* The echo gate counts buffers on two threads without a lock: buffers scheduled or played meanwhile may
  be miscounted. Callbacks that run after `stopPlayback` has set the count to zero make it negative, and
  every hang-up amid speech does that, since `use-realtime.ts:284-285` stops capture and playback in that
  order; the next call then forwards what the class says it does not
  (`RealtimeAudioManager.swift:12-13`: "during playback, only forward audio above a threshold").

## 7. Not modelled

* *Data and wording*: schemas and parsers of the shared contracts, prompts, transcripts, event payloads,
  settings pages, the contents of traces. Where a parse may fail, the models have a refused call or an
  ill-formed frame.
* *Code without state over time*: `pipeline-selection.ts`, Host profiles, HTTP routes, file access.
* *Code nothing reaches*: the HTTP harness adapters, which the Relay reports as unavailable; the phone's
  `use-pipeline.ts` and the native pipeline behind it; `recover` and `release` of the routing;
  `expectedRevision` of the store; `select` of the assignments. A model of these would be a model of no
  behaviour of the system.
* *Interfaces*: React pages, markup and styling of Desktop, phone, tracing UI and website; they are most
  of the lines of the repository. Of the two pages whose logic is asynchronous, `ChatPage` and the
  devices card are modelled.
* *The outside*: Gemini, OpenAI, Codex's app server, Deepgram, operating systems and disks are
  environments that answer, fail and close in any order the code can meet.
* *`startCall` up to `start`*: it reads settings first (`ChatPage.tsx:535-570`), and `DesktopCall` takes it as one
  step. A call that is ended from the call bar in between begins all the same; of two starts at once (the
  greeting's and the user's) the model has the second one after the first.
* Within the modelled parts `PROJECT.json` names what each component leaves out.

## 8. Plan

1. `PageAccounted`: of the shared screen, what is under way between page, main process and overlay, in the
   form that the call bar's proof has (`Tells`); of the chat page, where each question's answer may land.
2. The part of `SpeechInOrder` that speaks of no text: who may speak, and that nothing is said after the
   end.
