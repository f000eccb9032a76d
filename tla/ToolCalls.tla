------------------------------ MODULE ToolCalls ------------------------------
(***************************************************************************)
(* The tools a Relay session executes: for the model, whose calls come     *)
(* through the session's adapter, and for a client that talks to its       *)
(* provider itself and sends tool.exec.  A fast tool answers its call; a   *)
(* slow one answers with a placeholder and injects its result later.  Any  *)
(* of them may be cancelled by the upstream, by another session.config or  *)
(* by the end of the connection, while its executor is at any point.       *)
(*                                                                         *)
(* An executor that waits for the network ends as soon as it is aborted;   *)
(* a command ends when its processes do; a file tool has no signal.        *)
(* Arguments and results are left out.                                     *)
(***************************************************************************)
EXTENDS Naturals, FiniteSets

CONSTANTS
    Calls,          \* tool calls
    MaxAdapters     \* bound: adapters of the session, one after the other

ASSUME ToolsAssumption == MaxAdapters \in Nat \ {0}

Nobody == 0

\* echo_tool, web_search, read/write/edit, ask_brain, bash, and bash in the
\* background.
ToolNames == {"echo", "search", "file", "brain", "bash", "job"}
Networked == {"search", "brain"}
Shells == {"bash", "job"}

\* Tools whose call is answered before they have run.
Placeholder == {"brain", "bash", "job"}

\* tool.exec knows no echo_tool and no ask_brain.
Standalone == {"search", "file", "bash", "job"}

VARIABLES
    ws,             \* the connection: open, leaving while cleanup() runs, or left
    adapter,        \* the current adapter, or Nobody
    made,           \* adapters made so far
    call,           \* where each call stands
    tool,           \* its tool
    home,           \* the adapter whose model made it, or Nobody for tool.exec
    inFlight,       \* inFlightTools
    aborted,        \* calls whose signal is aborted
    answers,        \* how often each call was answered
    injected,       \* how often its result was injected
    heard,          \* what the client was told of its end
    shell,          \* the processes of a command
    killer,         \* the timer of its SIGKILL
    strays,         \* history: calls whose result went to another adapter
    late            \* history: calls made while the connection is left

answerVars == <<answers, injected, heard, strays>>
shellVars == <<shell, killer>>
toolVars == <<ws, adapter, made, call, tool, home, inFlight, aborted, answerVars, shellVars, late>>

ToolTypeOK ==
    /\ ws \in {"open", "leaving", "left"}
    /\ made \in 0..MaxAdapters /\ adapter \in {Nobody, made}
    /\ call \in [Calls -> {"none", "running", "over"}]
    /\ tool \in [Calls -> ToolNames]
    /\ home \in [Calls -> 0..MaxAdapters]
    /\ inFlight \subseteq Calls /\ aborted \subseteq Calls
    /\ answers \in [Calls -> 0..2] /\ injected \in [Calls -> 0..2]
    /\ heard \in [Calls -> SUBSET {"completed", "failed", "cancelled"}]
    /\ shell \in [Calls -> {"none", "starting", "running", "dying", "gone"}]
    /\ killer \in [Calls -> {"none", "armed", "fired"}]
    /\ strays \subseteq Calls /\ late \subseteq Calls

ToolsInit ==
    /\ ws = "open" /\ adapter \in {Nobody, 1} /\ made = adapter
    /\ call = [c \in Calls |-> "none"]
    /\ tool = [c \in Calls |-> "echo"]
    /\ home = [c \in Calls |-> Nobody]
    /\ inFlight = {} /\ aborted = {}
    /\ answers = [c \in Calls |-> 0] /\ injected = [c \in Calls |-> 0]
    /\ heard = [c \in Calls |-> {}]
    /\ shell = [c \in Calls |-> "none"] /\ killer = [c \in Calls |-> "none"]
    /\ strays = {} /\ late = {}

-----------------------------------------------------------------------------
\* this.adapter?.sendToolResult
Answer(c) ==
    IF home[c] = Nobody THEN UNCHANGED <<answers, strays>>
    ELSE /\ answers' = IF adapter = home[c] THEN [answers EXCEPT ![c] = @ + 1] ELSE answers
         /\ strays' = IF adapter \in {Nobody, home[c]} THEN strays ELSE strays \cup {c}

\* this.adapter?.injectContext
Inject(c) ==
    IF home[c] = Nobody THEN UNCHANGED <<injected, strays>>
    ELSE /\ injected' = IF adapter = home[c] THEN [injected EXCEPT ![c] = @ + 1] ELSE injected
         /\ strays' = IF adapter \in {Nobody, home[c]} THEN strays ELSE strays \cup {c}

\* emitToolCompleted, emitToolFailed, tool.result and tool.error
Tell(c, outcome) ==
    heard' = IF ws = "open" THEN [heard EXCEPT ![c] = @ \cup {outcome}] ELSE heard

\* What an executor does with its result: of an aborted call the client hears that
\* it was cancelled, and a model that waits for an answer gets one; otherwise the
\* answer is the result, or the result is injected.
Deliver(c, outcome) ==
    /\ Tell(c, IF c \in aborted THEN "cancelled" ELSE outcome)
    /\ IF tool[c] \notin Placeholder THEN Answer(c) /\ UNCHANGED injected
       ELSE IF c \notin aborted THEN Inject(c) /\ UNCHANGED answers
       ELSE UNCHANGED <<answers, injected, strays>>

End(c) ==
    /\ call' = [call EXCEPT ![c] = "over"]
    /\ inFlight' = inFlight \ {c}

-----------------------------------------------------------------------------
\* A call whose arguments are bad, or whose search has no key, is answered at
\* once.  A web_search of the model without a key is not told to the client.
Reject(c, from, keyless) ==
    /\ call' = [call EXCEPT ![c] = "over"]
    /\ answers' = IF from = Nobody THEN answers ELSE [answers EXCEPT ![c] = @ + 1]
    /\ heard' = IF ws # "open" \/ (keyless /\ from # Nobody) THEN heard
                ELSE [heard EXCEPT ![c] = @ \cup {"failed"}]
    /\ UNCHANGED <<inFlight, injected, strays, shellVars>>

\* echo_tool is computed at once.
Echo(c) ==
    /\ call' = [call EXCEPT ![c] = "over"]
    /\ answers' = [answers EXCEPT ![c] = @ + 1]
    /\ Tell(c, "completed")
    /\ UNCHANGED <<inFlight, injected, strays, shellVars>>

\* The executor starts; of the model's calls, a file tool has no controller.
Execute(c, t, from) ==
    /\ call' = [call EXCEPT ![c] = "running"]
    /\ inFlight' = IF t = "file" /\ from # Nobody THEN inFlight ELSE inFlight \cup {c}
    /\ answers' = IF from # Nobody /\ t \in Placeholder
                  THEN [answers EXCEPT ![c] = @ + 1] ELSE answers
    /\ shell' = IF t \in Shells THEN [shell EXCEPT ![c] = "starting"] ELSE shell
    /\ UNCHANGED <<injected, heard, strays, killer>>

Begin(c, t, from) ==
    /\ call[c] = "none"
    /\ tool' = [tool EXCEPT ![c] = t]
    /\ home' = [home EXCEPT ![c] = from]
    /\ late' = IF ws = "leaving" THEN late \cup {c} ELSE late
    /\ \/ t = "echo" /\ Echo(c)
       \/ t # "echo" /\ Execute(c, t, from)
       \/ t # "echo" /\ Reject(c, from, FALSE)
       \/ t = "search" /\ Reject(c, from, TRUE)
    /\ UNCHANGED <<ws, adapter, made, aborted>>

\* handleServerToolCall: the adapter serves until cleanup() ends.
ToolCall(c, t) == adapter # Nobody /\ Begin(c, t, adapter)

\* handleStandaloneToolExec
ToolExec(c, t) == ws = "open" /\ t \in Standalone /\ Begin(c, t, Nobody)

-----------------------------------------------------------------------------
\* The executor's own result: of the network, with its errors and its deadline, or
\* of the file system.
Result(c) ==
    /\ call[c] = "running" /\ tool[c] \notin Shells
    /\ \E outcome \in {"completed", "failed"} : Deliver(c, outcome)
    /\ End(c)
    /\ UNCHANGED <<ws, adapter, made, tool, home, aborted, shellVars, late>>

\* Mutant: a signal that was aborted before the process started is not seen.
SpawnDeaf(c) ==
    /\ shell' = [shell EXCEPT ![c] = "running"]
    /\ UNCHANGED killer

\* spawn, in a process group of its own; an abort that came before is obeyed.
Spawn(c) ==
    /\ shell' = [shell EXCEPT ![c] = IF c \in aborted THEN "dying" ELSE "running"]
    /\ killer' = IF c \in aborted THEN [killer EXCEPT ![c] = "armed"] ELSE killer

\* runBash, after the workspace is there.
Spawned(c) ==
    /\ shell[c] = "starting" /\ tool[c] = "bash"
    /\ Spawn(c)
    /\ UNCHANGED <<ws, adapter, made, call, tool, home, inFlight, aborted, answerVars, late>>

\* The command is denied, or its process cannot be started.
SpawnFails(c) ==
    /\ shell[c] = "starting"
    /\ shell' = [shell EXCEPT ![c] = "gone"]
    /\ Deliver(c, "failed")
    /\ End(c)
    /\ UNCHANGED <<ws, adapter, made, tool, home, aborted, killer, late>>

\* runBashBackground: the job runs on its own, whether or not the call still counts.
Detached(c) ==
    /\ shell[c] = "starting" /\ tool[c] = "job"
    /\ shell' = [shell EXCEPT ![c] = "gone"]
    /\ Deliver(c, "completed")
    /\ End(c)
    /\ UNCHANGED <<ws, adapter, made, tool, home, aborted, killer, late>>

\* The timer of a command's foreground run.
Timeout(c) ==
    /\ shell[c] = "running"
    /\ shell' = [shell EXCEPT ![c] = "dying"]
    /\ killer' = [killer EXCEPT ![c] = "armed"]
    /\ UNCHANGED <<ws, adapter, made, call, tool, home, inFlight, aborted, answerVars, late>>

\* SIGKILL to the group, of which nothing may be left.
Kill(c) ==
    /\ killer[c] = "armed"
    /\ killer' = [killer EXCEPT ![c] = "fired"]
    /\ UNCHANGED <<ws, adapter, made, call, tool, home, inFlight, aborted, answerVars, shell, late>>

\* Its processes are over: of themselves, by SIGTERM or, at the latest, by SIGKILL.
ShellCloses(c) ==
    /\ shell[c] \in {"running", "dying"}
    /\ shell' = [shell EXCEPT ![c] = "gone"]
    /\ Deliver(c, "completed")
    /\ End(c)
    /\ UNCHANGED <<ws, adapter, made, tool, home, aborted, killer, late>>

-----------------------------------------------------------------------------
\* Mutant: the timer of the SIGKILL is left out.
TerminateOnly(C) ==
    /\ shell' = [c \in Calls |-> IF c \in C /\ shell[c] = "running" THEN "dying" ELSE shell[c]]
    /\ UNCHANGED killer

\* onAbort: SIGTERM now, SIGKILL later.
Terminate(C) ==
    /\ shell' = [c \in Calls |-> IF c \in C /\ shell[c] = "running" THEN "dying" ELSE shell[c]]
    /\ killer' = [c \in Calls |-> IF c \in C /\ shell[c] \in {"running", "dying"}
                                  THEN "armed" ELSE killer[c]]

\* abort() of the calls C, once for each; their answers find the adapter current.
\* An executor that waits for the network ends at once.
Abort(C, current) ==
    LET ended == {c \in C : tool[c] \in Networked}
    IN  /\ aborted' = aborted \cup C
        /\ call' = [c \in Calls |-> IF c \in ended THEN "over" ELSE call[c]]
        /\ Terminate(C \ aborted)
        /\ answers' = [c \in Calls |->
              IF c \in ended /\ tool[c] = "search" /\ home[c] # Nobody /\ home[c] = current
              THEN answers[c] + 1 ELSE answers[c]]
        /\ heard' = [c \in Calls |->
              IF c \in ended /\ ws' = "open" THEN heard[c] \cup {"cancelled"} ELSE heard[c]]
        /\ UNCHANGED <<injected, strays>>

\* handleToolCancelled
ToolCancelled(C) ==
    /\ adapter # Nobody /\ ws = "open"
    /\ C # {} /\ C \subseteq {c \in inFlight : home[c] = adapter}
    /\ UNCHANGED ws
    /\ Abort(C, adapter)
    /\ inFlight' = {c \in inFlight : c \notin C \/ tool[c] \notin Networked}
    /\ UNCHANGED <<adapter, made, tool, home, late>>

\* session.config again: abortAllInFlightTools, and the adapter is disconnected.
Replaced ==
    /\ ws = "open" /\ adapter # Nobody
    /\ UNCHANGED ws
    /\ Abort(inFlight, Nobody)
    /\ inFlight' = {}
    /\ adapter' = Nobody
    /\ UNCHANGED <<made, tool, home, late>>

\* The next adapter is connected.
Connected ==
    /\ ws = "open" /\ adapter = Nobody /\ made < MaxAdapters
    /\ adapter' = made + 1 /\ made' = made + 1
    /\ UNCHANGED <<ws, call, tool, home, inFlight, aborted, answerVars, shellVars, late>>

\* cleanup(), up to its first wait.  The adapter is disconnected at its end.
Leave ==
    /\ ws = "open"
    /\ ws' = "leaving"
    /\ Abort(inFlight, adapter)
    /\ inFlight' = {}
    /\ UNCHANGED <<adapter, made, tool, home, late>>

CleanedUp ==
    /\ ws = "leaving"
    /\ ws' = "left" /\ adapter' = Nobody
    /\ UNCHANGED <<made, call, tool, home, inFlight, aborted, answerVars, shellVars, late>>

-----------------------------------------------------------------------------
ToolsNext ==
    \/ \E c \in Calls, t \in ToolNames : ToolCall(c, t) \/ ToolExec(c, t)
    \/ \E c \in Calls :
          \/ Result(c) \/ Spawned(c) \/ SpawnFails(c) \/ Detached(c) \/ Timeout(c)
          \/ Kill(c) \/ ShellCloses(c)
    \/ \E C \in SUBSET Calls : ToolCancelled(C)
    \/ Replaced \/ Connected \/ Leave \/ CleanedUp

\* Requests have deadlines, files are read, commands time out, timers fire, and
\* SIGKILL ends a process: one that ignores SIGTERM may stay until then.
ToolsFairness ==
    \A c \in Calls :
        /\ WF_toolVars(Result(c))
        /\ WF_toolVars(Spawned(c) \/ SpawnFails(c) \/ Detached(c))
        /\ WF_toolVars(Timeout(c)) /\ WF_toolVars(Kill(c))
        /\ WF_toolVars(killer[c] = "fired" /\ ShellCloses(c))

ToolsSpec == ToolsInit /\ [][ToolsNext]_toolVars /\ ToolsFairness

-----------------------------------------------------------------------------
\* The model that made a call, if it is still there, gets one answer to it, and
\* after a placeholder one result, unless the call was cancelled.  The result of a
\* call goes to no other model, but for file tools, which have no signal.
AnsweredOnce ==
    /\ \A c \in Calls :
          /\ answers[c] <= 1 /\ injected[c] <= 1
          /\ call[c] = "over" /\ home[c] # Nobody /\ home[c] = adapter /\ ws = "open"
             => answers[c] = 1
          /\ injected[c] = 1 => tool[c] \in Placeholder /\ c \notin aborted
          /\ shell[c] = "gone" /\ c \notin aborted /\ home[c] # Nobody /\ home[c] = adapter
             => injected[c] = 1
    /\ \A c \in strays : tool[c] = "file"

\* The client hears one end of a call, and that it was cancelled only if it was;
\* of a cancelled call it hears nothing else.  It may not hear of a search without
\* a key.
HeardOnce ==
    \A c \in Calls :
        /\ Cardinality(heard[c]) <= 1
        /\ "cancelled" \in heard[c] => c \in aborted
        /\ c \in aborted => heard[c] \subseteq {"cancelled"}
        /\ call[c] = "over" /\ ws = "open" /\ tool[c] # "search" => heard[c] # {}

\* A command whose call is cancelled, before its process started or after, is being
\* ended; and what runs after the connection is left was started during cleanup().
NoShellForgotten ==
    \A c \in Calls :
        /\ c \in aborted => shell[c] # "running"
        /\ shell[c] = "dying" => killer[c] # "none"
        /\ shell[c] = "running" /\ ws = "left" => c \in late

\* A tool call is answered once, in the session that made it, its client hears one
\* end of it, and nothing runs on for a call that was cancelled.
ToolsAccounted == ToolTypeOK /\ AnsweredOnce /\ HeardOnce /\ NoShellForgotten

\* Every call ends, and with it its processes, though a command may ignore SIGTERM.
ToolsSettle == \A c \in Calls : call[c] = "running" ~> call[c] = "over"
=============================================================================
