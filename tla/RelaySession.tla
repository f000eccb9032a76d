---------------------------- MODULE RelaySession ----------------------------
(***************************************************************************)
(* One client connection of the Relay: RelaySession (session.ts).  Its     *)
(* message handler is async and nobody awaits it, so the steps of several  *)
(* session.config messages, of cleanups and of tools interleave wherever   *)
(* the code awaits.                                                        *)
(*                                                                         *)
(* An adapter is named after the session.config that made it; its upstream *)
(* is in GeminiAdapter and OpenAIAdapter.  Left out: tracing and media     *)
(* beyond the waits they cause, direct mode (session.prep, mint_token,     *)
(* tool.exec), and media messages, which go to the current adapter.        *)
(***************************************************************************)
EXTENDS Naturals, FiniteSets

CONSTANTS
    Configs,       \* session.config messages
    Tools,         \* tool calls
    NoAdapter

VARIABLES
    ws,            \* the client's connection
    authed,        \* authed
    step,          \* what each handleSessionConfig waits for
    adapter,       \* adapter
    life,          \* life of each adapter
    cleanup,       \* the cleanups that an error and the close event started
    tool,          \* where each tool call stands
    kind,          \* how its executor can be stopped
    home,          \* the adapter that made the call
    strays,        \* history: tools whose result went to another adapter
    synced,        \* how often an adapter's transcript was handed to the brain
    overlapped,    \* history: a session.config came while another was under way
    interrupted    \* history: the client left while a session.config was under way

configVars == <<authed, step, adapter, life>>
toolVars == <<tool, kind, home, strays>>
sessionVars == <<ws, authed, step, adapter, life, cleanup, tool, kind, home, strays, synced,
                 overlapped, interrupted>>

SessionTypeOK ==
    /\ ws \in {"open", "failed", "closing", "closed"}
    /\ authed \in BOOLEAN /\ overlapped \in BOOLEAN /\ interrupted \in BOOLEAN
    /\ step \in [Configs -> {"none", "replacing", "checking", "preparing", "connecting", "ready",
                             "failed"}]
    /\ adapter \in Configs \cup {NoAdapter}
    /\ life \in [Configs -> {"none", "connecting", "up", "gone"}]
    /\ cleanup \in [{"error", "close"} -> {"none", "finalizing", "done"}]
    /\ tool \in [Tools -> {"none", "running", "over"}]
    /\ kind \in [Tools -> {"signalled", "file", "client"}]
    /\ home \in [Tools -> Configs \cup {NoAdapter}]
    /\ strays \subseteq Tools
    /\ synced \in [Configs -> 0..2]

Init ==
    /\ ws = "open" /\ authed = FALSE
    /\ step = [k \in Configs |-> "none"] /\ life = [k \in Configs |-> "none"]
    /\ adapter = NoAdapter
    /\ cleanup = [event \in {"error", "close"} |-> "none"]
    /\ tool = [c \in Tools |-> "none"] /\ kind = [c \in Tools |-> "signalled"]
    /\ home = [c \in Tools |-> NoAdapter]
    /\ strays = {} /\ synced = [k \in Configs |-> 0]
    /\ overlapped = FALSE /\ interrupted = FALSE

-----------------------------------------------------------------------------
UnderWay == {k \in Configs : step[k] \in {"replacing", "checking", "preparing", "connecting"}}

\* disconnect() of the current adapter.
Disconnected ==
    IF adapter = NoAdapter THEN life ELSE [life EXCEPT ![adapter] = "gone"]

\* Mutant: replacing an adapter leaves the tools it started alone.
AbortNothing == UNCHANGED tool

\* abortAllInFlightTools: an aborted executor settles before anything else and
\* meets no adapter.
AbortAllInFlightTools ==
    tool' = [c \in Tools |->
        IF tool[c] = "running" /\ kind[c] = "signalled" THEN "over" ELSE tool[c]]

\* Mutant: the previous adapter is forgotten and not disconnected.
ReplaceForgetting(k) ==
    /\ AbortAllInFlightTools
    /\ adapter' = NoAdapter
    /\ step' = [step EXCEPT ![k] = "replacing"]
    /\ UNCHANGED life

\* The previous adapter is disconnected if session.config is sent again.
Replace(k) ==
    /\ AbortAllInFlightTools
    /\ life' = Disconnected /\ adapter' = NoAdapter
    /\ step' = [step EXCEPT ![k] = "replacing"]

\* handleSessionConfig
SessionConfig(k) ==
    /\ ws = "open" /\ step[k] = "none"
    /\ IF adapter # NoAdapter
          THEN Replace(k)
          ELSE step' = [step EXCEPT ![k] = "checking"] /\ UNCHANGED <<life, adapter, tool>>
    /\ overlapped' = (overlapped \/ UnderWay # {})
    /\ UNCHANGED <<ws, authed, cleanup, kind, home, strays, synced, interrupted>>

\* Media and tracer of the previous session are closed.
Replaced(k) ==
    /\ step[k] = "replacing"
    /\ step' = [step EXCEPT ![k] = "checking"]
    /\ UNCHANGED <<ws, authed, adapter, life, cleanup, toolVars, synced, overlapped, interrupted>>

Closing == ws' = IF ws = "open" THEN "closing" ELSE ws

\* checkRelayCredential
Checked(k, ok) ==
    /\ step[k] = "checking"
    /\ IF ok
          THEN step' = [step EXCEPT ![k] = "preparing"] /\ authed' = TRUE /\ UNCHANGED ws
          ELSE step' = [step EXCEPT ![k] = "failed"] /\ Closing /\ UNCHANGED authed
    /\ UNCHANGED <<adapter, life, cleanup, toolVars, synced, overlapped, interrupted>>

\* The workspace is there: the adapter is made and connects, whatever happened
\* to the session meanwhile.
Prepared(k) ==
    /\ step[k] = "preparing"
    /\ step' = [step EXCEPT ![k] = "connecting"]
    /\ adapter' = k
    /\ life' = [life EXCEPT ![k] = "connecting"]
    /\ UNCHANGED <<ws, authed, cleanup, toolVars, synced, overlapped, interrupted>>

\* connect() resolves: the session is ready, unless it has no adapter any more.
\* An adapter that was disconnected may still connect.
Connected(k) ==
    /\ step[k] = "connecting"
    /\ life' = [life EXCEPT ![k] = IF @ = "gone" THEN @ ELSE "up"]
    /\ IF adapter = NoAdapter
          THEN step' = [step EXCEPT ![k] = "failed"] /\ Closing
          ELSE step' = [step EXCEPT ![k] = "ready"] /\ UNCHANGED ws
    /\ UNCHANGED <<authed, adapter, cleanup, toolVars, synced, overlapped, interrupted>>

\* connect() rejects, of a provider's fault or because it was disconnected.
ConnectFails(k) ==
    /\ step[k] = "connecting"
    /\ step' = [step EXCEPT ![k] = "failed"]
    /\ life' = [life EXCEPT ![k] = "gone"]
    /\ Closing
    /\ UNCHANGED <<authed, adapter, cleanup, toolVars, synced, overlapped, interrupted>>

-----------------------------------------------------------------------------
\* A tool call of an adapter that is up: a search or a command, which listens to
\* its signal; a file tool, which does not; or one that the client executes.
ToolCall(k, c, how) ==
    /\ life[k] = "up" /\ tool[c] = "none"
    /\ tool' = [tool EXCEPT ![c] = "running"]
    /\ kind' = [kind EXCEPT ![c] = how]
    /\ home' = [home EXCEPT ![c] = k]
    /\ UNCHANGED <<ws, configVars, cleanup, strays, synced, overlapped, interrupted>>

\* The result, or the cancellation the upstream asked for, goes to the adapter
\* that is current now.
ToolResult(c) ==
    /\ tool[c] = "running"
    /\ kind[c] = "client" => ws = "open"
    /\ tool' = [tool EXCEPT ![c] = "over"]
    /\ strays' = IF adapter \in {NoAdapter, home[c]} THEN strays ELSE strays \cup {c}
    /\ UNCHANGED <<ws, configVars, cleanup, kind, home, synced, overlapped, interrupted>>

\* cleanup(): an error is followed by a close event, which starts it again.
StartCleanup(event) ==
    /\ cleanup' = [cleanup EXCEPT ![event] = "finalizing"]
    /\ AbortAllInFlightTools
    /\ interrupted' = (interrupted \/ UnderWay # {})

ConnectionFails ==
    /\ ws \in {"open", "closing"}
    /\ ws' = "failed"
    /\ StartCleanup("error")
    /\ UNCHANGED <<configVars, kind, home, strays, synced, overlapped>>

ConnectionCloses ==
    /\ ws # "closed"
    /\ ws' = "closed"
    /\ StartCleanup("close")
    /\ UNCHANGED <<configVars, kind, home, strays, synced, overlapped>>

\* The rest of cleanup(), after the media are closed.
CleanedUp(event) ==
    /\ cleanup[event] = "finalizing"
    /\ cleanup' = [cleanup EXCEPT ![event] = "done"]
    /\ synced' = IF adapter = NoAdapter THEN synced ELSE [synced EXCEPT ![adapter] = @ + 1]
    /\ life' = Disconnected
    /\ adapter' = NoAdapter
    /\ UNCHANGED <<ws, authed, step, toolVars, overlapped, interrupted>>

Proceeds(k) ==
    Replaced(k) \/ Checked(k, TRUE) \/ Checked(k, FALSE) \/ Prepared(k) \/ Connected(k)
        \/ ConnectFails(k)

Next ==
    \/ ConnectionFails \/ ConnectionCloses
    \/ \E event \in {"error", "close"} : CleanedUp(event)
    \/ \E k \in Configs :
          \/ SessionConfig(k) \/ Replaced(k) \/ Prepared(k) \/ Connected(k) \/ ConnectFails(k)
          \/ \E ok \in BOOLEAN : Checked(k, ok)
          \/ \E c \in Tools, how \in {"signalled", "file", "client"} : ToolCall(k, c, how)
    \/ \E c \in Tools : ToolResult(c)

\* Whatever a handler awaits settles, and a connection that is closed or failed
\* has its close event.
Fairness ==
    /\ \A k \in Configs : WF_sessionVars(Proceeds(k))
    /\ \A event \in {"error", "close"} : WF_sessionVars(CleanedUp(event))
    /\ WF_sessionVars(ws # "open" /\ ConnectionCloses)

Spec == Init /\ [][Next]_sessionVars /\ Fairness

-----------------------------------------------------------------------------
\* Properties.

Live == {k \in Configs : life[k] \in {"connecting", "up"}}

\* Only the current adapter has an upstream, and none has when the client is
\* gone.  Excused are sessions in which a session.config met another one or the
\* end of the connection in the middle.
NoAdapterLeft ==
    ~overlapped /\ ~interrupted
        => Live \subseteq {adapter} /\ (cleanup["close"] = "done" => Live = {})

\* The result of a tool that can be aborted goes to the session that called it,
\* or nowhere ("late tool results land on the wrong session", session.ts:1186).
\* File tools and tools of the client have no signal.
ResultsStayHome == ~overlapped => \A c \in strays : kind[c] \in {"file", "client"}

\* The transcript of a session is handed to the brain at most once, though an
\* error and a close event clean up side by side; and it is handed over when the
\* session was ready and never replaced.
SyncedOnce ==
    /\ \A k \in Configs : synced[k] <= 1
    /\ ~overlapped /\ ~interrupted /\ cleanup["close"] = "done"
          => \A k \in Configs : step[k] = "ready" /\ (\A j \in Configs \ {k} : step[j] = "none")
                => synced[k] = 1
=============================================================================
