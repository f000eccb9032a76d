---------------------------- MODULE SessionProofs ----------------------------
(***************************************************************************)
(* Proofs about a client's session with the Relay, as MCSession composes   *)
(* it: its tool calls (ToolCalls), its adapters (RelaySession), the        *)
(* recording of its turns (TurnCapture) and the end of the process         *)
(* (RelayShutdown), for any number of calls, configurations, turns and     *)
(* sessions.                                                               *)
(***************************************************************************)
EXTENDS MCSession, FiniteSetTheorems, TLAPS

-----------------------------------------------------------------------------
(***************************************************************************)
(* The tool calls: the inductive invariant.                                *)
(***************************************************************************)

\* The processes of a command that is not over.
Waiting == {"starting", "running", "dying"}

\* Nothing is done of a call before it begins.
Fresh(c) ==
    call[c] = "none" =>
        /\ c \notin inFlight \cup aborted \cup strays \cup late
        /\ answers[c] = 0 /\ injected[c] = 0 /\ heard[c] = {}
        /\ shell[c] = "none"

\* While it runs, its placeholder was answered and nothing else was said of it; it can be
\* aborted or was, unless it is a file tool of the model, which has no signal.
Running(c) ==
    call[c] = "running" =>
        /\ tool[c] # "echo"
        /\ answers[c] = IF home[c] # Nobody /\ tool[c] \in Placeholder THEN 1 ELSE 0
        /\ injected[c] = 0 /\ heard[c] = {} /\ c \notin strays
        /\ IF tool[c] \in Shells THEN shell[c] \in Waiting ELSE shell[c] = "none"
        /\ tool[c] \in Networked => c \notin aborted
        /\ c \in inFlight \/ c \in aborted \/ (tool[c] = "file" /\ home[c] # Nobody)

\* A call that was not aborted is one of the current adapter or of tool.exec, and was
\* made during cleanup() when the connection is no longer open.
Unsignalled(c) ==
    call[c] = "running" /\ c \notin aborted /\ tool[c] # "file" =>
        /\ home[c] \in {Nobody, adapter} \/ ws = "left"
        /\ ws = "open" \/ c \in late

Over(c) == call[c] = "over" => c \notin inFlight /\ shell[c] \in {"none", "gone"}

\* What AnsweredOnce, HeardOnce and NoShellForgotten say of one call.
Answered(c) ==
    /\ answers[c] <= 1 /\ injected[c] <= 1
    /\ call[c] = "over" /\ home[c] # Nobody /\ home[c] = adapter /\ ws = "open"
       => answers[c] = 1
    /\ injected[c] = 1 => tool[c] \in Placeholder /\ c \notin aborted
    /\ shell[c] = "gone" /\ c \notin aborted /\ home[c] # Nobody /\ home[c] = adapter
       => injected[c] = 1
    /\ c \in strays => tool[c] = "file"

Heard(c) ==
    /\ \E outcome \in {"completed", "failed", "cancelled"} : heard[c] \subseteq {outcome}
    /\ "cancelled" \in heard[c] => c \in aborted
    /\ c \in aborted => heard[c] \subseteq {"cancelled"}
    /\ call[c] = "over" /\ ws = "open" /\ tool[c] # "search" => heard[c] # {}

Tended(c) ==
    /\ c \in aborted => shell[c] # "running"
    /\ shell[c] = "dying" => killer[c] # "none"
    /\ shell[c] = "running" /\ ws = "left" => c \in late

CallInv(c) ==
    /\ home[c] <= made
    /\ Fresh(c) /\ Running(c) /\ Unsignalled(c) /\ Over(c)
    /\ Answered(c) /\ Heard(c) /\ Tended(c)

ToolsInv ==
    /\ ToolTypeOK
    /\ ws = "left" => adapter = Nobody
    /\ \A c \in Calls : CallInv(c)

-----------------------------------------------------------------------------
(***************************************************************************)
(* The tool calls: the steps of one call.                                  *)
(***************************************************************************)

\* Nothing of the call d changes.
Same(d) ==
    /\ call'[d] = call[d] /\ tool'[d] = tool[d] /\ home'[d] = home[d]
    /\ answers'[d] = answers[d] /\ injected'[d] = injected[d] /\ heard'[d] = heard[d]
    /\ shell'[d] = shell[d] /\ killer'[d] = killer[d]
    /\ d \in inFlight' <=> d \in inFlight
    /\ d \in aborted' <=> d \in aborted
    /\ d \in strays' <=> d \in strays
    /\ d \in late' <=> d \in late

\* What is said of a call depends on nothing else than the call, the connection and the
\* adapter.
LEMMA SameKeeps ==
    ASSUME NEW d \in Calls, CallInv(d), Same(d), UNCHANGED <<ws, adapter, made>>
    PROVE  CallInv(d)'
<1>1. Fresh(d)' /\ Running(d)' /\ Unsignalled(d)' /\ Over(d)' /\ (home[d] <= made)'
  BY DEF CallInv, Same, Fresh, Running, Unsignalled, Over
<1>2. Answered(d)' /\ Heard(d)' /\ Tended(d)'
  BY DEF CallInv, Same, Answered, Heard, Tended
<1> QED
  BY <1>1, <1>2 DEF CallInv

\* A step of the call c leaves the others alone.
LEMMA OneCallStep ==
    ASSUME ToolsInv, NEW c \in Calls, UNCHANGED <<ws, adapter, made>>,
           ToolTypeOK', CallInv(c)', \A d \in Calls \ {c} : Same(d)
    PROVE  ToolsInv'
<1>1. \A d \in Calls : CallInv(d)'
  <2> SUFFICES ASSUME NEW d \in Calls, d # c PROVE CallInv(d)'
    OBVIOUS
  <2> QED
    BY SameKeeps DEF ToolsInv
<1> QED
  BY <1>1 DEF ToolsInv

\* Who waits for a process is a command that runs.
LEMMA WaitingRuns ==
    ASSUME ToolsInv, NEW c \in Calls, shell[c] \in Waiting
    PROVE  call[c] = "running" /\ tool[c] \in Shells
  BY DEF ToolsInv, CallInv, ToolTypeOK, Waiting, Fresh, Running, Over

LEMMA BeginKeeps ==
    ASSUME ToolsInv, NEW c \in Calls, NEW t \in ToolNames, ToolCall(c, t) \/ ToolExec(c, t)
    PROVE  ToolsInv'
<1>1. PICK from \in {Nobody, adapter} :
        /\ Begin(c, t, from)
        /\ from # Nobody \/ (ws = "open" /\ t \in Standalone)
  BY DEF ToolCall, ToolExec
<1>2. /\ call[c] = "none" /\ UNCHANGED <<ws, adapter, made, aborted>>
      /\ tool' = [tool EXCEPT ![c] = t] /\ home' = [home EXCEPT ![c] = from]
      /\ late' = IF ws = "leaving" THEN late \cup {c} ELSE late
      /\ from \in 0..made /\ from \in 0..MaxAdapters /\ CallInv(c) /\ ToolTypeOK
      /\ made \in Nat /\ ws \in {"open", "leaving", "left"} /\ (ws = "left" => adapter = Nobody)
  BY <1>1, ToolsAssumption DEF Begin, ToolsInv, ToolTypeOK, Nobody
<1>3. CASE t = "echo" /\ Echo(c)
  <2>1. ToolTypeOK'
    BY <1>2, <1>3 DEF Echo, Tell, ToolTypeOK, CallInv, Fresh, shellVars
  <2>2. \A d \in Calls \ {c} : Same(d)
    BY <1>2, <1>3 DEF Echo, Tell, ToolTypeOK, Same, shellVars
  <2>3. CallInv(c)'
    <3>1. /\ call'[c] = "over" /\ tool'[c] = t /\ home'[c] = from /\ answers'[c] = 1
          /\ injected'[c] = 0 /\ shell'[c] = "none"
          /\ c \notin inFlight' /\ c \notin aborted' /\ c \notin strays'
      BY <1>2, <1>3 DEF Echo, ToolTypeOK, CallInv, Fresh, shellVars
    <3>2. heard'[c] = IF ws = "open" THEN {"completed"} ELSE {}
      <4>1. heard[c] = {}
        BY <1>2 DEF CallInv, Fresh
      <4> QED
        BY <1>2, <1>3, <4>1 DEF Echo, Tell, ToolTypeOK
    <3> QED
      BY <1>2, <3>1, <3>2
      DEF CallInv, Fresh, Running, Unsignalled, Over, Answered, Heard, Tended
  <2> QED
    BY <1>2, <2>1, <2>2, <2>3, OneCallStep
<1>4. CASE t # "echo" /\ Execute(c, t, from)
  <2>1. ToolTypeOK'
    BY <1>2, <1>4 DEF Execute, ToolTypeOK, CallInv, Fresh
  <2>2. \A d \in Calls \ {c} : Same(d)
    BY <1>2, <1>4 DEF Execute, ToolTypeOK, Same
  <2>3. CallInv(c)'
    <3>1. /\ call'[c] = "running" /\ tool'[c] = t /\ home'[c] = from
          /\ answers'[c] = IF from # Nobody /\ t \in Placeholder THEN 1 ELSE 0
          /\ injected'[c] = 0 /\ heard'[c] = {}
          /\ shell'[c] = IF t \in Shells THEN "starting" ELSE "none"
          /\ c \in inFlight' \/ (t = "file" /\ from # Nobody)
          /\ c \notin aborted' /\ c \notin strays'
      BY <1>2, <1>4 DEF Execute, ToolTypeOK, CallInv, Fresh
    <3>2. (home[c] <= made)' /\ Fresh(c)' /\ Running(c)' /\ Over(c)'
      BY <1>2, <1>4, <3>1 DEF Fresh, Running, Over, Waiting
    <3>3. Unsignalled(c)' /\ Answered(c)' /\ Heard(c)' /\ Tended(c)'
      BY <1>1, <1>2, <3>1 DEF Unsignalled, Answered, Heard, Tended
    <3> QED
      BY <3>2, <3>3 DEF CallInv
  <2> QED
    BY <1>2, <2>1, <2>2, <2>3, OneCallStep
<1>5. ASSUME NEW keyless \in BOOLEAN, t # "echo", Reject(c, from, keyless), keyless => t = "search"
      PROVE  ToolsInv'
  <2>1. ToolTypeOK'
    BY <1>2, <1>5 DEF Reject, ToolTypeOK, CallInv, Fresh, shellVars
  <2>2. \A d \in Calls \ {c} : Same(d)
    BY <1>2, <1>5 DEF Reject, ToolTypeOK, Same, shellVars
  <2>3. CallInv(c)'
    <3>1. /\ call'[c] = "over" /\ tool'[c] = t /\ home'[c] = from
          /\ answers'[c] = IF from = Nobody THEN 0 ELSE 1
          /\ injected'[c] = 0 /\ shell'[c] = "none"
          /\ c \notin inFlight' /\ c \notin aborted' /\ c \notin strays'
          /\ heard'[c] \in {{}, {"failed"}}
          /\ heard'[c] = {} => ws # "open" \/ t = "search"
      BY <1>2, <1>5 DEF Reject, ToolTypeOK, CallInv, Fresh, shellVars
    <3> QED
      BY <1>2, <3>1 DEF CallInv, Fresh, Running, Unsignalled, Over, Answered, Heard, Tended
  <2> QED
    BY <1>2, <2>1, <2>2, <2>3, OneCallStep
<1> QED
  BY <1>1, <1>3, <1>4, <1>5 DEF Begin

\* The end of an executor, which delivers its result.
LEMMA DeliverKeeps ==
    ASSUME ToolsInv, NEW c \in Calls, NEW outcome \in {"completed", "failed"},
           call[c] = "running", Deliver(c, outcome), End(c),
           IF tool[c] \in Shells THEN shell' = [shell EXCEPT ![c] = "gone"] ELSE UNCHANGED shell,
           UNCHANGED <<ws, adapter, made, tool, home, aborted, killer, late>>
    PROVE  ToolsInv'
<1>1. /\ CallInv(c) /\ ToolTypeOK /\ answers[c] \in {0, 1} /\ injected[c] = 0 /\ heard[c] = {}
      /\ tool[c] # "echo" /\ c \notin strays /\ tool[c] \in ToolNames
      /\ (tool[c] \notin Placeholder => answers[c] = 0)
      /\ (tool[c] \in Placeholder /\ home[c] # Nobody => answers[c] = 1)
  BY DEF ToolsInv, CallInv, Running, ToolTypeOK, Nobody
<1>2. ToolTypeOK'
  <2>1. /\ answers' \in [Calls -> 0..2] /\ injected' \in [Calls -> 0..2] /\ strays' \subseteq Calls
    BY <1>1 DEF Deliver, Answer, Inject, ToolTypeOK
  <2>2. heard' \in [Calls -> SUBSET {"completed", "failed", "cancelled"}]
    BY <1>1 DEF Deliver, Tell, ToolTypeOK
  <2> QED
    BY <1>1, <2>1, <2>2 DEF End, ToolTypeOK
<1>3. \A d \in Calls \ {c} : Same(d)
  <2> SUFFICES ASSUME NEW d \in Calls, d # c PROVE Same(d)
    OBVIOUS
  <2>1. answers'[d] = answers[d] /\ injected'[d] = injected[d] /\ (d \in strays' <=> d \in strays)
    BY <1>1 DEF Deliver, Answer, Inject, ToolTypeOK
  <2>2. heard'[d] = heard[d]
    BY <1>1 DEF Deliver, Tell, ToolTypeOK
  <2> QED
    BY <1>1, <2>1, <2>2 DEF Same, End, ToolTypeOK
<1>4. /\ call'[c] = "over" /\ c \notin inFlight'
      /\ shell'[c] = IF tool[c] \in Shells THEN "gone" ELSE "none"
  BY <1>1 DEF End, ToolTypeOK, CallInv, Running
<1>5. heard'[c] = IF ws # "open" THEN {}
                  ELSE IF c \in aborted THEN {"cancelled"} ELSE {outcome}
  BY <1>1 DEF Deliver, Tell, ToolTypeOK
<1>6. /\ answers'[c] = IF tool[c] \notin Placeholder /\ home[c] # Nobody /\ home[c] = adapter
                       THEN 1 ELSE answers[c]
      /\ injected'[c] = IF tool[c] \in Placeholder /\ c \notin aborted /\ home[c] # Nobody
                           /\ home[c] = adapter
                        THEN 1 ELSE 0
      /\ c \in strays' => tool[c] = "file"
  <2>1. CASE tool[c] \notin Placeholder
    <3>1. Answer(c) /\ UNCHANGED injected
      BY <2>1 DEF Deliver
    <3>2. tool[c] # "file" => c \in aborted \/ home[c] \in {Nobody, adapter} \/ adapter = Nobody
      BY <1>1 DEF ToolsInv, CallInv, Unsignalled
    <3>3. tool[c] # "file" => c \notin aborted
      BY <1>1, <2>1 DEF CallInv, Running, ToolNames, Placeholder, Networked
    <3> QED
      BY <1>1, <2>1, <3>1, <3>2, <3>3 DEF Answer, ToolTypeOK
  <2>2. CASE tool[c] \in Placeholder /\ c \notin aborted
    <3>1. Inject(c) /\ UNCHANGED answers
      BY <2>2 DEF Deliver
    <3>2. home[c] \in {Nobody, adapter} \/ adapter = Nobody
      BY <1>1, <2>2 DEF ToolsInv, CallInv, Unsignalled, Placeholder
    <3> QED
      BY <1>1, <2>2, <3>1, <3>2 DEF Inject, ToolTypeOK
  <2>3. CASE tool[c] \in Placeholder /\ c \in aborted
    BY <1>1, <2>3 DEF Deliver
  <2> QED
    BY <2>1, <2>2, <2>3
<1>7. CallInv(c)'
  <2>1. (home[c] <= made)' /\ Fresh(c)' /\ Running(c)' /\ Unsignalled(c)' /\ Over(c)'
    BY <1>1, <1>4 DEF CallInv, Fresh, Running, Unsignalled, Over
  <2>2. Answered(c)'
    BY <1>1, <1>4, <1>6 DEF Answered, Shells, Placeholder
  <2>3. Heard(c)'
    BY <1>4, <1>5 DEF Heard
  <2>4. Tended(c)'
    BY <1>4 DEF Tended
  <2> QED
    BY <2>1, <2>2, <2>3, <2>4 DEF CallInv
<1> QED
  BY <1>2, <1>3, <1>7, OneCallStep

LEMMA ResultKeeps ==
    ASSUME ToolsInv, NEW c \in Calls, Result(c) \/ SpawnFails(c) \/ Detached(c) \/ ShellCloses(c)
    PROVE  ToolsInv'
<1>1. CASE Result(c)
  BY <1>1, DeliverKeeps DEF Result, shellVars
<1>2. CASE SpawnFails(c)
  BY <1>2, DeliverKeeps, WaitingRuns DEF SpawnFails, Waiting
<1>3. CASE Detached(c)
  BY <1>3, DeliverKeeps, WaitingRuns DEF Detached, Waiting
<1>4. CASE ShellCloses(c)
  BY <1>4, DeliverKeeps, WaitingRuns DEF ShellCloses, Waiting
<1> QED
  BY <1>1, <1>2, <1>3, <1>4

\* A process starts, is told to end, or is killed.
LEMMA ShellKeeps ==
    ASSUME ToolsInv, NEW c \in Calls, Spawned(c) \/ Timeout(c) \/ Kill(c)
    PROVE  ToolsInv'
<1>1. /\ ToolTypeOK /\ CallInv(c)
      /\ UNCHANGED <<ws, adapter, made, call, tool, home, inFlight, aborted, answerVars, late>>
  BY DEF ToolsInv, Spawned, Timeout, Kill
<1>2. /\ ToolTypeOK'
      /\ \A d \in Calls \ {c} : Same(d)
      /\ IF Kill(c) THEN shell'[c] = shell[c] /\ killer'[c] = "fired"
         ELSE /\ shell[c] \in {"starting", "running"} /\ shell'[c] \in {"running", "dying"}
              /\ shell'[c] = "running" => c \notin aborted /\ shell[c] = "starting"
              /\ shell'[c] = "dying" => killer'[c] = "armed"
  <2>1. CASE Spawned(c)
    BY <1>1, <2>1 DEF Spawned, Spawn, Kill, Same, ToolTypeOK, answerVars
  <2>2. CASE Timeout(c)
    BY <1>1, <2>2 DEF Timeout, Kill, Same, ToolTypeOK, answerVars
  <2>3. CASE Kill(c)
    BY <1>1, <2>3 DEF Kill, Same, ToolTypeOK, answerVars
  <2> QED
    BY <2>1, <2>2, <2>3
<1>3. CallInv(c)'
  <2>1. CASE Kill(c)
    BY <1>1, <1>2, <2>1
    DEF CallInv, answerVars, Fresh, Running, Unsignalled, Over, Answered, Heard, Tended
  <2>2. CASE ~Kill(c)
    <3>1. call[c] = "running" /\ tool[c] \in Shells
      BY <1>2, <2>2, WaitingRuns DEF Waiting
    <3>2. (home[c] <= made)' /\ Fresh(c)' /\ Running(c)' /\ Unsignalled(c)' /\ Over(c)'
      BY <1>1, <1>2, <2>2, <3>1
      DEF CallInv, answerVars, Fresh, Running, Unsignalled, Over, Waiting
    <3>3. Answered(c)' /\ Heard(c)'
      BY <1>1, <1>2, <2>2 DEF CallInv, answerVars, Answered, Heard
    <3>4. Tended(c)'
      BY <1>1, <1>2, <2>2, <3>1 DEF CallInv, Unsignalled, Shells, Tended
    <3> QED
      BY <3>2, <3>3, <3>4 DEF CallInv
  <2> QED
    BY <2>1, <2>2
<1> QED
  BY <1>1, <1>2, <1>3, OneCallStep

-----------------------------------------------------------------------------
(***************************************************************************)
(* The tool calls: the steps of the session.                               *)
(***************************************************************************)

\* The three ways in which abort() is called: by the upstream for calls of its own, by
\* session.config, and by the end of the connection.
Signals(C, current) ==
    \/ ws' = "open" /\ adapter' = adapter /\ current = adapter /\ C \subseteq inFlight
    \/ ws' = "open" /\ adapter' = Nobody /\ current = Nobody /\ C = inFlight
    \/ ws' = "leaving" /\ adapter' = adapter /\ current = adapter /\ C = inFlight

LEMMA AbortKeeps ==
    ASSUME ToolsInv, NEW C \in SUBSET Calls, NEW current \in {Nobody, adapter},
           ws = "open", Abort(C, current), Signals(C, current),
           inFlight' \subseteq inFlight, inFlight \ inFlight' \subseteq C,
           \A d \in C : tool[d] \in Networked => d \notin inFlight',
           UNCHANGED <<made, tool, home, late>>
    PROVE  ToolsInv'
<1> DEFINE ended == {d \in C : tool[d] \in Networked}
<1>1. /\ aborted' = aborted \cup C
      /\ call' = [d \in Calls |-> IF d \in ended THEN "over" ELSE call[d]]
      /\ shell' = [d \in Calls |->
            IF d \in C \ aborted /\ shell[d] = "running" THEN "dying" ELSE shell[d]]
      /\ killer' = [d \in Calls |->
            IF d \in C \ aborted /\ shell[d] \in {"running", "dying"} THEN "armed" ELSE killer[d]]
      /\ answers' = [d \in Calls |->
            IF d \in ended /\ tool[d] = "search" /\ home[d] # Nobody /\ home[d] = current
            THEN answers[d] + 1 ELSE answers[d]]
      /\ heard' = [d \in Calls |->
            IF d \in ended /\ ws' = "open" THEN heard[d] \cup {"cancelled"} ELSE heard[d]]
      /\ UNCHANGED <<injected, strays>>
  BY DEF Abort, Terminate
<1>2. ToolTypeOK /\ C \subseteq inFlight /\ \A d \in Calls : CallInv(d)
  BY DEF ToolsInv, Signals
<1>3. \A d \in C : /\ call[d] = "running" /\ injected[d] = 0 /\ heard[d] = {} /\ d \notin strays
                   /\ tool[d] = "search" => answers[d] = 0
                   /\ tool[d] = "brain" /\ home[d] # Nobody => answers[d] = 1
                   /\ tool[d] \in Networked => shell[d] = "none"
  BY <1>2 DEF CallInv, Fresh, Running, Over, ToolTypeOK, Placeholder, Networked, Shells
<1>4. ToolTypeOK'
  <2>1. answers' \in [Calls -> 0..2]
    BY <1>1, <1>2, <1>3 DEF ToolTypeOK
  <2> QED
    BY <1>1, <1>2, <2>1 DEF ToolTypeOK, Signals, Nobody
<1>5. ASSUME NEW d \in Calls, d \notin C PROVE CallInv(d)'
  <2>1. /\ d \notin ended /\ call'[d] = call[d] /\ shell'[d] = shell[d] /\ killer'[d] = killer[d]
        /\ answers'[d] = answers[d] /\ heard'[d] = heard[d]
        /\ d \in inFlight' <=> d \in inFlight
        /\ d \in aborted' <=> d \in aborted
    BY <1>1, <1>5
  <2>2. (home[d] <= made)' /\ Fresh(d)' /\ Running(d)' /\ Over(d)'
    BY <1>1, <1>2, <2>1 DEF CallInv, Fresh, Running, Over
  <2>3. Unsignalled(d)'
    BY <1>2, <1>5, <2>1 DEF CallInv, Running, Unsignalled, Signals
  <2>4. Answered(d)' /\ Heard(d)' /\ Tended(d)'
    BY <1>1, <1>2, <2>1 DEF CallInv, Answered, Heard, Tended, Signals
  <2> QED
    BY <2>2, <2>3, <2>4 DEF CallInv
<1>6. ASSUME NEW d \in C, tool[d] \in Networked PROVE CallInv(d)'
  <2>1. d \in ended /\ d \in Calls /\ CallInv(d) /\ ws' \in {"open", "leaving"}
    BY <1>2, <1>6 DEF Signals
  <2>2. /\ call'[d] = "over" /\ shell'[d] = "none" /\ d \in aborted' /\ d \notin inFlight'
        /\ answers'[d] \in {0, 1} /\ injected'[d] = 0 /\ d \notin strays'
        /\ heard'[d] = IF ws' = "open" THEN {"cancelled"} ELSE {}
    <3>1. answers'[d] \in {0, 1}
      BY <1>1, <1>3, <1>6, <2>1 DEF CallInv, Answered, Running, Networked
    <3> QED
      BY <1>1, <1>3, <1>6, <2>1, <3>1
  <2>3. home[d] # Nobody /\ home[d] = adapter' /\ ws' = "open" => answers'[d] = 1
    <3> SUFFICES ASSUME home[d] # Nobody, home[d] = adapter', ws' = "open" PROVE answers'[d] = 1
      OBVIOUS
    <3>1. home[d] = current
      BY DEF Signals
    <3> QED
      BY <1>1, <1>3, <1>6, <2>1, <3>1 DEF Networked
  <2>4. Answered(d)'
    BY <2>2, <2>3 DEF Answered
  <2>5. (home[d] <= made)' /\ Fresh(d)' /\ Running(d)' /\ Unsignalled(d)' /\ Over(d)'
    BY <2>1, <2>2 DEF CallInv, Fresh, Running, Unsignalled, Over
  <2>6. Heard(d)' /\ Tended(d)'
    BY <2>2 DEF Heard, Tended
  <2> QED
    BY <2>4, <2>5, <2>6 DEF CallInv
<1>7. ASSUME NEW d \in C, tool[d] \notin Networked PROVE CallInv(d)'
  <2>1. d \notin ended /\ d \in Calls /\ CallInv(d) /\ ws' \in {"open", "leaving"}
    BY <1>2, <1>7 DEF Signals
  <2>2. /\ call'[d] = "running" /\ call[d] = "running" /\ d \in aborted'
        /\ answers'[d] = answers[d] /\ injected'[d] = 0 /\ heard'[d] = {} /\ d \notin strays'
    BY <1>1, <1>3, <2>1
  <2>3. /\ tool[d] \in Shells => shell[d] \in Waiting /\ shell'[d] \in Waiting
        /\ tool[d] \notin Shells => shell'[d] = "none"
        /\ shell'[d] # "running"
        /\ shell'[d] = "dying" => killer'[d] # "none"
    BY <1>1, <2>1, <2>2 DEF CallInv, Running, Tended, Waiting
  <2>4. (home[d] <= made)' /\ Fresh(d)' /\ Unsignalled(d)' /\ Over(d)'
    BY <2>1, <2>2 DEF CallInv, Fresh, Unsignalled, Over
  <2>5. Running(d)'
    BY <1>7, <2>1, <2>2, <2>3 DEF CallInv, Running
  <2>6. Answered(d)'
    BY <2>1, <2>2, <2>3 DEF CallInv, Answered, Waiting
  <2>7. Heard(d)' /\ Tended(d)'
    BY <2>2, <2>3 DEF Heard, Tended
  <2> QED
    BY <2>4, <2>5, <2>6, <2>7 DEF CallInv
<1>8. (ws = "left" => adapter = Nobody)'
  BY DEF Signals
<1> QED
  BY <1>4, <1>5, <1>6, <1>7, <1>8 DEF ToolsInv

LEMMA SessionKeeps ==
    ASSUME ToolsInv, (\E C \in SUBSET Calls : ToolCancelled(C)) \/ Replaced \/ Leave
    PROVE  ToolsInv'
<1>1. inFlight \subseteq Calls
  BY DEF ToolsInv, ToolTypeOK
<1>2. ASSUME NEW C \in SUBSET Calls, ToolCancelled(C) PROVE ToolsInv'
  <2>1. Signals(C, adapter)
    BY <1>2 DEF ToolCancelled, Signals
  <2> QED
    BY <1>2, <2>1, AbortKeeps DEF ToolCancelled
<1>3. CASE Replaced
  <2>1. Signals(inFlight, Nobody)
    BY <1>3 DEF Replaced, Signals
  <2> QED
    BY <1>1, <1>3, <2>1, AbortKeeps DEF Replaced
<1>4. CASE Leave
  <2>1. Signals(inFlight, adapter)
    BY <1>4 DEF Leave, Signals
  <2> QED
    BY <1>1, <1>4, <2>1, AbortKeeps DEF Leave
<1> QED
  BY <1>2, <1>3, <1>4

\* The next adapter is new to every call, and none is left of a connection that is.
LEMMA AdapterKeeps ==
    ASSUME ToolsInv, Connected \/ CleanedUp
    PROVE  ToolsInv'
<1>1. ToolTypeOK' /\ (ws = "left" => adapter = Nobody)'
  BY ToolsAssumption
  DEF ToolsInv, Connected, CleanedUp, ToolTypeOK, answerVars, shellVars, Nobody
<1>2. /\ UNCHANGED <<call, tool, home, inFlight, aborted, answerVars, shellVars, late>>
      /\ \/ ws' = ws /\ ws = "open" /\ adapter = Nobody /\ adapter' = made + 1 /\ made' = made + 1
         \/ ws = "leaving" /\ ws' = "left" /\ adapter' = Nobody /\ made' = made
  BY DEF Connected, CleanedUp
<1>3. ASSUME NEW c \in Calls PROVE CallInv(c)'
  <2>1. CallInv(c) /\ ToolTypeOK /\ home[c] \in Nat /\ made \in Nat
    BY ToolsAssumption DEF ToolsInv, ToolTypeOK
  <2>2. /\ home[c] # Nobody => home[c] # adapter' /\ home[c] <= made'
        /\ home[c] = Nobody => home[c] <= made'
    BY <1>2, <2>1 DEF CallInv, Nobody
  <2>3. (home[c] <= made)' /\ Fresh(c)' /\ Running(c)' /\ Over(c)'
    BY <1>2, <2>1, <2>2 DEF CallInv, Fresh, Running, Over, answerVars, shellVars
  <2>4. Unsignalled(c)'
    BY <1>2, <2>1, <2>2 DEF CallInv, Unsignalled
  <2>5. Answered(c)'
    BY <1>2, <2>1, <2>2 DEF CallInv, Answered, answerVars, shellVars
  <2>6. Heard(c)'
    BY <1>2, <2>1 DEF CallInv, Heard, answerVars
  <2>7. Tended(c)'
    <3>1. ws' = "left" /\ shell[c] = "running" => c \in late
      <4>1. shell[c] = "running" => call[c] = "running" /\ tool[c] \in Shells
        BY WaitingRuns DEF Waiting
      <4> QED
        BY <1>2, <2>1, <4>1 DEF CallInv, Unsignalled, Tended, Shells
    <3> QED
      BY <1>2, <2>1, <3>1 DEF CallInv, Tended, shellVars
  <2> QED
    BY <2>3, <2>4, <2>5, <2>6, <2>7 DEF CallInv
<1> QED
  BY <1>1, <1>3 DEF ToolsInv

-----------------------------------------------------------------------------
(***************************************************************************)
(* The tool calls: the theorem.                                            *)
(***************************************************************************)

LEMMA InitTools == ToolsInit => ToolsInv
<1> SUFFICES ASSUME ToolsInit PROVE ToolsInv
  OBVIOUS
<1>1. ToolTypeOK /\ (ws = "left" => adapter = Nobody)
  BY ToolsAssumption DEF ToolsInit, ToolTypeOK, Nobody, ToolNames
<1>2. ASSUME NEW c \in Calls PROVE CallInv(c)
  BY <1>1
  DEF ToolsInit, ToolTypeOK, CallInv, Fresh, Running, Unsignalled, Over, Answered, Heard,
              Tended, Nobody
<1> QED
  BY <1>1, <1>2 DEF ToolsInv

LEMMA NextTools == ToolsInv /\ [ToolsNext]_toolVars => ToolsInv'
<1> SUFFICES ASSUME ToolsInv, [ToolsNext]_toolVars PROVE ToolsInv'
  OBVIOUS
<1>1. ASSUME NEW c \in Calls, NEW t \in ToolNames, ToolCall(c, t) \/ ToolExec(c, t) PROVE ToolsInv'
  BY <1>1, BeginKeeps
<1>2. ASSUME NEW c \in Calls, Result(c) \/ SpawnFails(c) \/ Detached(c) \/ ShellCloses(c)
      PROVE  ToolsInv'
  BY <1>2, ResultKeeps
<1>3. ASSUME NEW c \in Calls, Spawned(c) \/ Timeout(c) \/ Kill(c) PROVE ToolsInv'
  BY <1>3, ShellKeeps
<1>4. CASE (\E C \in SUBSET Calls : ToolCancelled(C)) \/ Replaced \/ Leave
  BY <1>4, SessionKeeps
<1>5. CASE Connected \/ CleanedUp
  BY <1>5, AdapterKeeps
<1>6. CASE UNCHANGED toolVars
  <2>1. ToolTypeOK' /\ (ws = "left" => adapter = Nobody)'
    BY <1>6 DEF ToolsInv, ToolTypeOK, toolVars, answerVars, shellVars
  <2>2. \A c \in Calls : CallInv(c)'
    BY <1>6, SameKeeps DEF ToolsInv, Same, toolVars, answerVars, shellVars
  <2> QED
    BY <2>1, <2>2 DEF ToolsInv
<1> QED
  BY <1>1, <1>2, <1>3, <1>4, <1>5, <1>6 DEF ToolsNext

LEMMA ToolsInvariance == ToolsSpec => []ToolsInv
<1>1. ToolsInit => ToolsInv
  BY InitTools
<1>2. ToolsInv /\ [ToolsNext]_toolVars => ToolsInv'
  BY NextTools
<1> QED
  BY <1>1, <1>2, PTL DEF ToolsSpec

\* A tool call of a model is answered and its result injected at most once, in the session
\* of the adapter that made it; the client hears one end of it, which is its cancellation
\* if it was cancelled; and a command that was cancelled is being ended: for any number of
\* calls that overlap, any adapters that replace one another and any moment of an abort.
THEOREM ToolsSafe == ToolsSpec => []ToolsAccounted
<1>1. ToolsInv => ToolsAccounted
  <2> SUFFICES ASSUME ToolsInv PROVE ToolsAccounted
    OBVIOUS
  <2>1. \A c \in Calls : Answered(c) /\ Heard(c) /\ Tended(c)
    BY DEF ToolsInv, CallInv
  <2>2. AnsweredOnce /\ NoShellForgotten
    BY <2>1 DEF ToolsInv, ToolTypeOK, AnsweredOnce, Answered, NoShellForgotten, Tended
  <2>3. ASSUME NEW c \in Calls PROVE Cardinality(heard[c]) <= 1
    <3>1. PICK outcome : heard[c] = {} \/ heard[c] = {outcome}
      BY <2>1 DEF Heard
    <3>2. Cardinality({}) = 0 /\ Cardinality({outcome}) = 1
      BY FS_EmptySet, FS_Singleton
    <3> QED
      BY <3>1, <3>2
  <2>4. HeardOnce
    BY <2>1, <2>3 DEF HeardOnce, Heard
  <2> QED
    BY <2>2, <2>4 DEF ToolsInv, ToolsAccounted
<1> QED
  BY <1>1, ToolsInvariance, PTL

-----------------------------------------------------------------------------
(***************************************************************************)
(* The adapters of a session.                                              *)
(***************************************************************************)

USE SessionAssumption

\* A session.config whose adapter is not made yet.
Unmade == {"none", "replacing", "checking", "preparing"}
Pending == {"replacing", "checking", "preparing"}
\* A tool that an abort ends.
Signalled(c) == sTool[c] = "running" /\ kind[c] = "signalled"

\* An adapter is made once, and its transcript is handed over when it stops being the
\* current one, so not before it is made and not while it is current.
Handed(k) ==
    /\ step[k] \in Unmade => sAdapter # k /\ life[k] = "none" /\ synced[k] = 0
    /\ life[k] = "none" => step[k] \in Unmade \cup {"failed"}
    /\ sAdapter = k => synced[k] = 0
    /\ synced[k] <= 1

\* Each event starts one cleanup(); and none comes while a session.config is under way,
\* in a session that was not interrupted.
Cleaned ==
    /\ cleanup["close"] # "none" <=> sWs = "closed"
    /\ cleanup["error"] # "none" => sWs \in {"failed", "closed"}
    /\ cleanup["close"] = "done" /\ ~interrupted => sAdapter = NoAdapter
    /\ sWs \in {"failed", "closed"} /\ ~interrupted => Session!UnderWay = {}

\* One session.config at a time.
Sole == ~overlapped => \A j, k \in Session!UnderWay : j = k

\* The session that was not overlapped: it has no adapter while it makes one, the one it
\* makes is the current one, and it is the only one that has an upstream.
Current(k) ==
    ~overlapped =>
        /\ step[k] \in Pending => sAdapter = NoAdapter
        /\ step[k] = "connecting" => sAdapter \in {k, NoAdapter}
        /\ life[k] \in {"connecting", "up"} => sAdapter = k
        /\ step[k] = "ready" /\ (\A j \in Configs \ {k} : step[j] = "none")
              => sAdapter = k \/ synced[k] = 1

\* A tool that an abort ends runs for the current adapter, or the client is gone; and a
\* session.config that makes an adapter meets none.
Aborted ==
    /\ \A c \in sStrays : sTool[c] = "over"
    /\ ~overlapped => \A c \in Tools : Signalled(c) =>
          /\ sAdapter \in {NoAdapter, sHome[c]}
          /\ sAdapter = NoAdapter => sWs # "open" /\ \A k \in Configs : step[k] \notin Pending
    /\ Session!ResultsStayHome

SessionInv ==
    /\ Session!SessionTypeOK
    /\ \A k \in Configs : Handed(k) /\ Current(k)
    /\ Cleaned /\ Sole /\ Aborted

LEMMA InitSession == Session!Init => SessionInv
<1> SUFFICES ASSUME Session!Init PROVE SessionInv
  OBVIOUS
<1>1. Session!SessionTypeOK
  <2>1. cleanup \in [{"error", "close"} -> {"none", "finalizing", "done"}]
    BY DEF Session!Init
  <2>2. synced \in [Configs -> 0..2] /\ sHome \in [Tools -> Configs \cup {NoAdapter}]
    BY DEF Session!Init
  <2> QED
    BY <2>1, <2>2 DEF Session!Init, Session!SessionTypeOK
<1>2. \A k \in Configs : Handed(k) /\ Current(k)
  BY DEF Session!Init, Handed, Current, Pending, Unmade
<1>3. Cleaned /\ Sole /\ Aborted
  BY DEF Session!Init, Cleaned, Sole, Aborted, Session!UnderWay, Session!ResultsStayHome,
         Signalled
<1> QED
  BY <1>1, <1>2, <1>3 DEF SessionInv

\* An adapter that is replaced is disconnected and its tools are aborted.
LEMMA SessionConfigKeeps ==
    ASSUME SessionInv, NEW k \in Configs, Session!SessionConfig(k)
    PROVE  SessionInv'
<1>1. Session!SessionTypeOK'
  BY DEF SessionInv, Session!SessionTypeOK, Handed, Session!SessionConfig, Session!Replace,
         Session!Disconnected, Session!AbortAllInFlightTools
<1>2. ASSUME NEW j \in Configs PROVE Handed(j)'
  BY DEF SessionInv, Session!SessionTypeOK, Handed, Unmade, Session!SessionConfig,
         Session!Replace, Session!Disconnected, Session!AbortAllInFlightTools
<1>3. Cleaned'
  BY DEF SessionInv, Session!SessionTypeOK, Cleaned, Session!UnderWay, Session!SessionConfig,
         Session!Replace, Session!Disconnected, Session!AbortAllInFlightTools
<1>4. Sole'
  <2>1. \A j \in Configs \ {k} : step'[j] = step[j]
    BY DEF SessionInv, Session!SessionTypeOK, Session!SessionConfig, Session!Replace
  <2>2. ~overlapped' => Session!UnderWay = {}
    BY DEF SessionInv, Session!SessionTypeOK, Session!SessionConfig
  <2> QED
    BY <2>1, <2>2 DEF Sole, Session!UnderWay
<1>5. ASSUME NEW j \in Configs PROVE Current(j)'
  BY DEF SessionInv, Session!SessionTypeOK, Handed, Cleaned, Sole, Current, Session!UnderWay,
         Unmade, Pending, Session!SessionConfig, Session!Replace, Session!Disconnected,
         Session!AbortAllInFlightTools
<1>6. Aborted'
  BY DEF SessionInv, Session!SessionTypeOK, Current, Cleaned, Sole, Aborted, Signalled, Pending,
         Session!ResultsStayHome, Session!SessionConfig, Session!Replace, Session!Disconnected,
         Session!AbortAllInFlightTools
<1> QED
  BY <1>1, <1>2, <1>3, <1>4, <1>5, <1>6 DEF SessionInv

LEMMA ReplacedKeeps ==
    ASSUME SessionInv, NEW k \in Configs, Session!Replaced(k)
    PROVE  SessionInv'
<1>1. Session!SessionTypeOK'
  BY DEF SessionInv, Session!SessionTypeOK, Handed, Session!Replaced, Session!toolVars
<1>2. ASSUME NEW j \in Configs PROVE Handed(j)'
  BY DEF SessionInv, Session!SessionTypeOK, Handed, Unmade, Session!Replaced, Session!toolVars
<1>3. Cleaned'
  BY DEF SessionInv, Session!SessionTypeOK, Cleaned, Session!UnderWay, Session!Replaced,
         Session!toolVars
<1>4. Sole'
  BY DEF SessionInv, Session!SessionTypeOK, Sole, Session!UnderWay, Session!Replaced,
         Session!toolVars
<1>5. ASSUME NEW j \in Configs PROVE Current(j)'
  BY DEF SessionInv, Session!SessionTypeOK, Handed, Cleaned, Sole, Current, Session!UnderWay,
         Unmade, Pending, Session!Replaced, Session!toolVars
<1>6. Aborted'
  BY DEF SessionInv, Session!SessionTypeOK, Current, Cleaned, Sole, Aborted, Signalled, Pending,
         Session!ResultsStayHome, Session!Replaced, Session!toolVars
<1> QED
  BY <1>1, <1>2, <1>3, <1>4, <1>5, <1>6 DEF SessionInv

LEMMA CheckedKeeps ==
    ASSUME SessionInv, NEW k \in Configs, NEW ok \in BOOLEAN, Session!Checked(k, ok)
    PROVE  SessionInv'
<1>1. Session!SessionTypeOK'
  <2>1. /\ step' \in [Configs -> {"none", "replacing", "checking", "preparing", "connecting",
                                 "ready", "failed"}]
        /\ sWs' \in {"open", "failed", "closing", "closed"} /\ authed' \in BOOLEAN
    BY DEF SessionInv, Session!SessionTypeOK, Session!Checked, Session!Closing
  <2> QED
    BY <2>1 DEF SessionInv, Session!SessionTypeOK, Session!Checked, Session!toolVars
<1>2. ASSUME NEW j \in Configs PROVE Handed(j)'
  BY DEF SessionInv, Session!SessionTypeOK, Handed, Unmade, Session!Checked, Session!Closing,
         Session!toolVars
<1>3. Cleaned'
  BY DEF SessionInv, Session!SessionTypeOK, Cleaned, Session!UnderWay, Session!Checked,
         Session!Closing, Session!toolVars
<1>4. Sole'
  BY DEF SessionInv, Session!SessionTypeOK, Sole, Session!UnderWay, Session!Checked,
         Session!Closing, Session!toolVars
<1>5. ASSUME NEW j \in Configs PROVE Current(j)'
  BY DEF SessionInv, Session!SessionTypeOK, Handed, Cleaned, Sole, Current, Session!UnderWay,
         Unmade, Pending, Session!Checked, Session!Closing, Session!toolVars
<1>6. Aborted'
  BY DEF SessionInv, Session!SessionTypeOK, Current, Cleaned, Sole, Aborted, Signalled, Pending,
         Session!ResultsStayHome, Session!Checked, Session!Closing, Session!toolVars
<1> QED
  BY <1>1, <1>2, <1>3, <1>4, <1>5, <1>6 DEF SessionInv

\* The adapter that is made has no predecessor left.
LEMMA PreparedKeeps ==
    ASSUME SessionInv, NEW k \in Configs, Session!Prepared(k)
    PROVE  SessionInv'
<1>1. Session!SessionTypeOK'
  BY DEF SessionInv, Session!SessionTypeOK, Handed, Session!Prepared, Session!toolVars
<1>2. ASSUME NEW j \in Configs PROVE Handed(j)'
  BY DEF SessionInv, Session!SessionTypeOK, Handed, Unmade, Session!Prepared, Session!toolVars
<1>3. Cleaned'
  BY DEF SessionInv, Session!SessionTypeOK, Cleaned, Session!UnderWay, Session!Prepared,
         Session!toolVars
<1>4. Sole'
  BY DEF SessionInv, Session!SessionTypeOK, Sole, Session!UnderWay, Session!Prepared,
         Session!toolVars
<1>5. ASSUME NEW j \in Configs PROVE Current(j)'
  BY DEF SessionInv, Session!SessionTypeOK, Handed, Cleaned, Sole, Current, Session!UnderWay,
         Unmade, Pending, Session!Prepared, Session!toolVars
<1>6. Aborted'
  BY DEF SessionInv, Session!SessionTypeOK, Current, Cleaned, Sole, Aborted, Signalled, Pending,
         Session!ResultsStayHome, Session!Prepared, Session!toolVars
<1> QED
  BY <1>1, <1>2, <1>3, <1>4, <1>5, <1>6 DEF SessionInv

\* connect() resolves for an adapter that may have been disconnected meanwhile.
LEMMA ConnectedKeeps ==
    ASSUME SessionInv, NEW k \in Configs, Session!Connected(k)
    PROVE  SessionInv'
<1>1. Session!SessionTypeOK'
  BY DEF SessionInv, Session!SessionTypeOK, Handed, Session!Connected, Session!Closing,
         Session!toolVars
<1>2. ASSUME NEW j \in Configs PROVE Handed(j)'
  BY DEF SessionInv, Session!SessionTypeOK, Handed, Unmade, Session!Connected, Session!Closing,
         Session!toolVars
<1>3. Cleaned'
  BY DEF SessionInv, Session!SessionTypeOK, Cleaned, Session!UnderWay, Session!Connected,
         Session!Closing, Session!toolVars
<1>4. Sole'
  BY DEF SessionInv, Session!SessionTypeOK, Sole, Session!UnderWay, Session!Connected,
         Session!Closing, Session!toolVars
<1>5. ASSUME NEW j \in Configs PROVE Current(j)'
  <2>1. Handed(j) /\ Current(j) /\ Current(k) /\ Session!SessionTypeOK
    BY DEF SessionInv
  <2>2. CASE j = k
    BY <2>1, <2>2
    DEF Session!SessionTypeOK, Handed, Unmade, Current, Pending, Session!Connected,
        Session!toolVars
  <2>3. CASE j # k
    BY <2>1, <2>3
    DEF Session!SessionTypeOK, Current, Pending, Session!Connected, Session!toolVars
  <2> QED
    BY <2>2, <2>3
<1>6. Aborted'
  BY DEF SessionInv, Session!SessionTypeOK, Current, Cleaned, Sole, Aborted, Signalled, Pending,
         Session!ResultsStayHome, Session!Connected, Session!Closing, Session!toolVars
<1> QED
  BY <1>1, <1>2, <1>3, <1>4, <1>5, <1>6 DEF SessionInv

LEMMA ConnectFailsKeeps ==
    ASSUME SessionInv, NEW k \in Configs, Session!ConnectFails(k)
    PROVE  SessionInv'
<1>1. Session!SessionTypeOK'
  BY DEF SessionInv, Session!SessionTypeOK, Handed, Session!ConnectFails, Session!Closing,
         Session!toolVars
<1>2. ASSUME NEW j \in Configs PROVE Handed(j)'
  BY DEF SessionInv, Session!SessionTypeOK, Handed, Unmade, Session!ConnectFails,
         Session!Closing, Session!toolVars
<1>3. Cleaned'
  BY DEF SessionInv, Session!SessionTypeOK, Cleaned, Session!UnderWay, Session!ConnectFails,
         Session!Closing, Session!toolVars
<1>4. Sole'
  BY DEF SessionInv, Session!SessionTypeOK, Sole, Session!UnderWay, Session!ConnectFails,
         Session!Closing, Session!toolVars
<1>5. ASSUME NEW j \in Configs PROVE Current(j)'
  BY DEF SessionInv, Session!SessionTypeOK, Handed, Cleaned, Sole, Current, Session!UnderWay,
         Unmade, Pending, Session!ConnectFails, Session!Closing, Session!toolVars
<1>6. Aborted'
  BY DEF SessionInv, Session!SessionTypeOK, Current, Cleaned, Sole, Aborted, Signalled, Pending,
         Session!ResultsStayHome, Session!ConnectFails, Session!Closing, Session!toolVars
<1> QED
  BY <1>1, <1>2, <1>3, <1>4, <1>5, <1>6 DEF SessionInv

LEMMA ToolCallKeeps ==
    ASSUME SessionInv, NEW k \in Configs, NEW c \in Tools,
           NEW how \in {"signalled", "file", "client"}, Session!ToolCall(k, c, how)
    PROVE  SessionInv'
<1>1. Session!SessionTypeOK'
  BY DEF SessionInv, Session!SessionTypeOK, Handed, Session!ToolCall, Session!configVars
<1>2. ASSUME NEW j \in Configs PROVE Handed(j)'
  BY DEF SessionInv, Session!SessionTypeOK, Handed, Unmade, Session!ToolCall, Session!configVars
<1>3. Cleaned'
  BY DEF SessionInv, Session!SessionTypeOK, Cleaned, Session!UnderWay, Session!ToolCall,
         Session!configVars
<1>4. Sole'
  BY DEF SessionInv, Session!SessionTypeOK, Sole, Session!UnderWay, Session!ToolCall,
         Session!configVars
<1>5. ASSUME NEW j \in Configs PROVE Current(j)'
  BY DEF SessionInv, Session!SessionTypeOK, Handed, Cleaned, Sole, Current, Session!UnderWay,
         Unmade, Pending, Session!ToolCall, Session!configVars
<1>6. Aborted'
  BY DEF SessionInv, Session!SessionTypeOK, Current, Cleaned, Sole, Aborted, Signalled, Pending,
         Session!ResultsStayHome, Session!ToolCall, Session!configVars
<1> QED
  BY <1>1, <1>2, <1>3, <1>4, <1>5, <1>6 DEF SessionInv

\* A result goes to the adapter that is current by now.
LEMMA ToolResultKeeps ==
    ASSUME SessionInv, NEW c \in Tools, Session!ToolResult(c)
    PROVE  SessionInv'
<1>1. Session!SessionTypeOK'
  BY DEF SessionInv, Session!SessionTypeOK, Handed, Session!ToolResult, Session!configVars
<1>2. ASSUME NEW j \in Configs PROVE Handed(j)'
  BY DEF SessionInv, Session!SessionTypeOK, Handed, Unmade, Session!ToolResult,
         Session!configVars
<1>3. Cleaned'
  BY DEF SessionInv, Session!SessionTypeOK, Cleaned, Session!UnderWay, Session!ToolResult,
         Session!configVars
<1>4. Sole'
  BY DEF SessionInv, Session!SessionTypeOK, Sole, Session!UnderWay, Session!ToolResult,
         Session!configVars
<1>5. ASSUME NEW j \in Configs PROVE Current(j)'
  BY DEF SessionInv, Session!SessionTypeOK, Handed, Cleaned, Sole, Current, Session!UnderWay,
         Unmade, Pending, Session!ToolResult, Session!configVars
<1>6. Aborted'
  BY DEF SessionInv, Session!SessionTypeOK, Current, Cleaned, Sole, Aborted, Signalled, Pending,
         Session!ResultsStayHome, Session!ToolResult, Session!configVars
<1> QED
  BY <1>1, <1>2, <1>3, <1>4, <1>5, <1>6 DEF SessionInv

LEMMA ConnectionFailsKeeps ==
    ASSUME SessionInv, Session!ConnectionFails
    PROVE  SessionInv'
<1>1. Session!SessionTypeOK'
  BY DEF SessionInv, Session!SessionTypeOK, Handed, Session!ConnectionFails,
         Session!StartCleanup, Session!AbortAllInFlightTools, Session!configVars
<1>2. ASSUME NEW j \in Configs PROVE Handed(j)'
  BY DEF SessionInv, Session!SessionTypeOK, Handed, Unmade, Session!ConnectionFails,
         Session!StartCleanup, Session!AbortAllInFlightTools, Session!configVars
<1>3. Cleaned'
  BY DEF SessionInv, Session!SessionTypeOK, Cleaned, Session!UnderWay, Session!ConnectionFails,
         Session!StartCleanup, Session!AbortAllInFlightTools, Session!configVars
<1>4. Sole'
  BY DEF SessionInv, Session!SessionTypeOK, Sole, Session!UnderWay, Session!ConnectionFails,
         Session!StartCleanup, Session!AbortAllInFlightTools, Session!configVars
<1>5. ASSUME NEW j \in Configs PROVE Current(j)'
  BY DEF SessionInv, Session!SessionTypeOK, Handed, Cleaned, Sole, Current, Session!UnderWay,
         Unmade, Pending, Session!ConnectionFails, Session!StartCleanup,
         Session!AbortAllInFlightTools, Session!configVars
<1>6. Aborted'
  BY DEF SessionInv, Session!SessionTypeOK, Current, Cleaned, Sole, Aborted, Signalled, Pending,
         Session!ResultsStayHome, Session!ConnectionFails, Session!StartCleanup,
         Session!AbortAllInFlightTools, Session!configVars
<1> QED
  BY <1>1, <1>2, <1>3, <1>4, <1>5, <1>6 DEF SessionInv

LEMMA ConnectionClosesKeeps ==
    ASSUME SessionInv, Session!ConnectionCloses
    PROVE  SessionInv'
<1>1. Session!SessionTypeOK'
  BY DEF SessionInv, Session!SessionTypeOK, Handed, Session!ConnectionCloses,
         Session!StartCleanup, Session!AbortAllInFlightTools, Session!configVars
<1>2. ASSUME NEW j \in Configs PROVE Handed(j)'
  BY DEF SessionInv, Session!SessionTypeOK, Handed, Unmade, Session!ConnectionCloses,
         Session!StartCleanup, Session!AbortAllInFlightTools, Session!configVars
<1>3. Cleaned'
  BY DEF SessionInv, Session!SessionTypeOK, Cleaned, Session!UnderWay, Session!ConnectionCloses,
         Session!StartCleanup, Session!AbortAllInFlightTools, Session!configVars
<1>4. Sole'
  BY DEF SessionInv, Session!SessionTypeOK, Sole, Session!UnderWay, Session!ConnectionCloses,
         Session!StartCleanup, Session!AbortAllInFlightTools, Session!configVars
<1>5. ASSUME NEW j \in Configs PROVE Current(j)'
  BY DEF SessionInv, Session!SessionTypeOK, Handed, Cleaned, Sole, Current, Session!UnderWay,
         Unmade, Pending, Session!ConnectionCloses, Session!StartCleanup,
         Session!AbortAllInFlightTools, Session!configVars
<1>6. Aborted'
  BY DEF SessionInv, Session!SessionTypeOK, Current, Cleaned, Sole, Aborted, Signalled, Pending,
         Session!ResultsStayHome, Session!ConnectionCloses, Session!StartCleanup,
         Session!AbortAllInFlightTools, Session!configVars
<1> QED
  BY <1>1, <1>2, <1>3, <1>4, <1>5, <1>6 DEF SessionInv

\* A cleanup() hands over the transcript of the current adapter, which is then none's.
LEMMA CleanedUpKeeps ==
    ASSUME SessionInv, NEW event \in {"error", "close"}, Session!CleanedUp(event)
    PROVE  SessionInv'
<1>1. Session!SessionTypeOK'
  BY DEF SessionInv, Session!SessionTypeOK, Handed, Session!CleanedUp, Session!Disconnected,
         Session!toolVars
<1>2. ASSUME NEW j \in Configs PROVE Handed(j)'
  BY DEF SessionInv, Session!SessionTypeOK, Handed, Unmade, Session!CleanedUp,
         Session!Disconnected, Session!toolVars
<1>3. Cleaned'
  BY DEF SessionInv, Session!SessionTypeOK, Cleaned, Session!UnderWay, Session!CleanedUp,
         Session!Disconnected, Session!toolVars
<1>4. Sole'
  BY DEF SessionInv, Session!SessionTypeOK, Sole, Session!UnderWay, Session!CleanedUp,
         Session!Disconnected, Session!toolVars
<1>5. ASSUME NEW j \in Configs PROVE Current(j)'
  BY DEF SessionInv, Session!SessionTypeOK, Handed, Cleaned, Sole, Current, Session!UnderWay,
         Unmade, Pending, Session!CleanedUp, Session!Disconnected, Session!toolVars
<1>6. Aborted'
  BY DEF SessionInv, Session!SessionTypeOK, Current, Cleaned, Sole, Aborted, Signalled, Pending,
         Session!ResultsStayHome, Session!CleanedUp, Session!Disconnected, Session!toolVars
<1> QED
  BY <1>1, <1>2, <1>3, <1>4, <1>5, <1>6 DEF SessionInv

LEMMA NextSession == SessionInv /\ [Session!Next]_sessionVars => SessionInv'
<1> SUFFICES ASSUME SessionInv, [Session!Next]_sessionVars PROVE SessionInv'
  OBVIOUS
<1>1. CASE UNCHANGED sessionVars
  BY <1>1
  DEF sessionVars, SessionInv, Session!SessionTypeOK, Handed, Current, Cleaned, Sole, Aborted,
      Signalled, Session!UnderWay, Session!ResultsStayHome
<1>2. ASSUME NEW k \in Configs,
             \/ Session!SessionConfig(k) \/ Session!Replaced(k) \/ Session!Prepared(k)
             \/ Session!Connected(k) \/ Session!ConnectFails(k)
      PROVE  SessionInv'
  BY <1>2, SessionConfigKeeps, ReplacedKeeps, PreparedKeeps, ConnectedKeeps, ConnectFailsKeeps
<1> QED
  BY <1>1, <1>2, CheckedKeeps, ToolCallKeeps, ToolResultKeeps, ConnectionFailsKeeps,
     ConnectionClosesKeeps, CleanedUpKeeps
  DEF Session!Next

-----------------------------------------------------------------------------
(***************************************************************************)
(* The end of the process.                                                 *)
(***************************************************************************)

\* A session's cleanup() begins with its close event and hands a transcript over when it
\* ends; what runs past the drain belongs to a session whose close event came too late.
CleansUp(s) ==
    /\ connection[s] = "closed" <=> pCleanup[s] # "none"
    /\ sync[s] # "none" => pCleanup[s] = "done"
    /\ phase \in {"draining", "flushing", "exited"} => connection[s] \in {"destroyed", "closed"}
    /\ phase \in {"flushing", "exited"} /\ ~timedOut /\ s \notin missed
          => "running" \notin {pCleanup[s], sync[s]}

ShutdownInv == Process!ShutdownTypeOK /\ \A s \in Sessions : CleansUp(s)

LEMMA InitShutdown == Process!Init => ShutdownInv
  BY DEF Process!Init, ShutdownInv, Process!ShutdownTypeOK, Process!Tasks, CleansUp

\* A step of one session's socket or tasks.
LEMMA TaskKeeps ==
    ASSUME ShutdownInv, NEW s \in Sessions,
           \/ Process!TurnEnded(s) \/ Process!Destroyed(s) \/ Process!Closes(s)
           \/ Process!CleanedUp(s) \/ Process!FinalizeEnds(s) \/ Process!SyncEnds(s)
    PROVE  ShutdownInv'
<1>1. CASE Process!TurnEnded(s) \/ Process!FinalizeEnds(s)
  BY <1>1
  DEF Process!TurnEnded, Process!FinalizeEnds, ShutdownInv, Process!ShutdownTypeOK,
      Process!Tasks,
      CleansUp
<1>2. CASE Process!Destroyed(s)
  BY <1>2
  DEF Process!Destroyed, ShutdownInv, Process!ShutdownTypeOK, Process!Tasks, CleansUp
<1>3. CASE Process!Closes(s)
  BY <1>3
  DEF Process!Closes, Process!Alive, ShutdownInv, Process!ShutdownTypeOK, Process!Tasks,
      CleansUp
<1>4. CASE Process!CleanedUp(s)
  BY <1>4
  DEF Process!CleanedUp, Process!Alive, ShutdownInv, Process!ShutdownTypeOK, Process!Tasks,
      CleansUp
<1>5. CASE Process!SyncEnds(s)
  BY <1>5
  DEF Process!SyncEnds, Process!Alive, ShutdownInv, Process!ShutdownTypeOK, Process!Tasks,
      CleansUp
<1> QED
  BY <1>1, <1>2, <1>3, <1>4, <1>5

\* A step of shutdown().
LEMMA PhaseKeeps ==
    ASSUME ShutdownInv,
           \/ Process!Signal \/ Process!ServerClosed \/ Process!Drained
           \/ Process!DrainTimesOut \/ Process!Exit \/ Process!HardKill
    PROVE  ShutdownInv'
<1>1. CASE Process!Signal
  BY <1>1 DEF Process!Signal, ShutdownInv, Process!ShutdownTypeOK, CleansUp
<1>2. CASE Process!ServerClosed
  BY <1>2 DEF Process!ServerClosed, ShutdownInv, Process!ShutdownTypeOK, CleansUp
<1>3. CASE Process!Drained
  BY <1>3 DEF Process!Drained, Process!InFlight, ShutdownInv, Process!ShutdownTypeOK, CleansUp
<1>4. CASE Process!DrainTimesOut
  BY <1>4 DEF Process!DrainTimesOut, ShutdownInv, Process!ShutdownTypeOK, CleansUp
<1>5. CASE Process!Exit \/ Process!HardKill
  BY <1>5 DEF Process!Exit, Process!HardKill, ShutdownInv, Process!ShutdownTypeOK, CleansUp
<1> QED
  BY <1>1, <1>2, <1>3, <1>4, <1>5

LEMMA NextShutdown == ShutdownInv /\ [Process!Next]_processVars => ShutdownInv'
<1> SUFFICES ASSUME ShutdownInv, [Process!Next]_processVars PROVE ShutdownInv'
  OBVIOUS
<1>1. CASE UNCHANGED processVars
  BY <1>1 DEF processVars, ShutdownInv, Process!ShutdownTypeOK, CleansUp
<1> QED
  BY <1>1, TaskKeeps, PhaseKeeps DEF Process!Next

-----------------------------------------------------------------------------
(***************************************************************************)
(* The recording of turns.                                                 *)
(***************************************************************************)

USE DEF Trace!Turns, Trace!NoTurn, Trace!Enders

\* Files are described on the span of their own turn, or not at all, and there are none
\* of a turn that has not started.
FilesInv ==
    /\ \A t \in Trace!Turns : attachTo[t] \in {0, t}
    /\ \A t \in Trace!Turns : t > started => capture[t] = "none"

\* The turns of the session's audio are closed ones, each once.
KeptInv ==
    /\ Trace!StitchedOnce
    /\ \A i \in DOMAIN completedTurns : capture[completedTurns[i]] = "kept"

\* While the upstream can start a turn or one is active, no other turn is recorded; nothing
\* is recorded once a session.config has closed the turn, which disconnects the upstream
\* first; and a turn recorded past a cleanup()'s endSession is late.
EndsInv ==
    /\ upstream \/ activeTurnId # 0 => currentTurn \in {0, activeTurnId}
    /\ upstream /\ ~sessionDir => currentTurn = 0
    /\ ender["config"] \notin {"idle", "done"} => ~upstream /\ currentTurn = 0
    /\ \A e \in Trace!Enders : ender[e] = "ending" => currentTurn \in {0} \cup recordedLate

\* Without an upstream, the tracer's session is over, unless a session.config is on its way
\* there.
TracesInv ==
    ~upstream /\ ender["config"] \in {"idle", "preparing", "done"}
        => /\ activeTurnId = 0
           /\ \A t \in Trace!Turns : span[t] \notin {"open", "draining"}
           /\ \A x \in Tools : toolSpan[x] # "open"

CaptureInv ==
    /\ Trace!CaptureTypeOK
    /\ FilesInv /\ KeptInv /\ EndsInv /\ TracesInv /\ Trace!RecordedIsTraced

LEMMA InitCapture == Trace!Init => CaptureInv
<1> SUFFICES ASSUME Trace!Init PROVE CaptureInv
  OBVIOUS
<1>1. Trace!CaptureTypeOK
  BY DEF Trace!Init, Trace!CaptureTypeOK
<1>2. FilesInv /\ EndsInv /\ TracesInv
  BY DEF Trace!Init, FilesInv, EndsInv, TracesInv
<1>3. Trace!RecordedIsTraced /\ KeptInv
  BY DEF Trace!Init, Trace!RecordedIsTraced, Trace!StitchedOnce, KeptInv
<1> QED
  BY <1>1, <1>2, <1>3 DEF CaptureInv

\* Files that are closed stay so.
LEMMA KeptTurnsKeep ==
    ASSUME CaptureInv, UNCHANGED completedTurns,
           \A t \in Trace!Turns : capture[t] = "kept" => capture'[t] = "kept"
    PROVE  KeptInv'
<1>1. \A i \in DOMAIN completedTurns : completedTurns[i] \in Trace!Turns
  BY DEF CaptureInv, Trace!CaptureTypeOK
<1> QED
  BY <1>1 DEF CaptureInv, KeptInv, Trace!StitchedOnce

\* What media.finalizeTurn() does to the files, given the turn that is active or none.
LEMMA CloseFilesKeeps ==
    ASSUME CaptureInv, NEW turnId \in {0, currentTurn, activeTurnId}, Trace!CloseFiles(turnId),
           activeTurnId = 0 => turnId = 0
    PROVE  /\ capture' \in [Trace!Turns -> {"none", "recording", "closing", "kept", "failed"}]
           /\ attachTo' \in [Trace!Turns -> Trace!Turns \cup {0}]
           /\ currentTurn' = 0
           /\ \A t \in Trace!Turns : attachTo'[t] \in {0, t}
           /\ \A t \in Trace!Turns : capture'[t] = IF t = currentTurn THEN "closing" ELSE capture[t]
           /\ \A t \in Trace!Turns : capture[t] = "kept" => capture'[t] = "kept"
           /\ \A t \in Trace!Turns : capture'[t] # "recording"
           /\ \A t \in Trace!Turns : t > started => capture'[t] = "none"
  BY DEF CaptureInv, Trace!CaptureTypeOK, FilesInv, EndsInv, Trace!RecordedIsTraced,
         Trace!CloseFiles

\* What finalizeMediaTurn(), for the active turn, leaves.
LEMMA FinalizeKeeps ==
    ASSUME CaptureInv, Trace!FinalizeMediaTurn(activeTurnId)
    PROVE  /\ capture' \in [Trace!Turns -> {"none", "recording", "closing", "kept", "failed"}]
           /\ attachTo' \in [Trace!Turns -> Trace!Turns \cup {0}]
           /\ currentTurn' \in Trace!Turns \cup {0}
  BY CloseFilesKeeps DEF CaptureInv, Trace!CaptureTypeOK, Trace!FinalizeMediaTurn

\* The turn before is drained and its files are closed, and the next one is both traced and
\* recorded.
LEMMA TurnStartedKeeps ==
    ASSUME CaptureInv, Trace!TurnStarted
    PROVE  CaptureInv'
<1>1. Trace!CaptureTypeOK'
  BY DEF CaptureInv, Trace!CaptureTypeOK, FilesInv, Trace!TurnStarted, Trace!EndTurn,
         Trace!StartMediaTurn, Trace!tracerVars, Trace!mediaVars, Trace!enderVars
<1>2. FilesInv'
  BY DEF CaptureInv, Trace!CaptureTypeOK, FilesInv, EndsInv, Trace!RecordedIsTraced,
         Trace!TurnStarted, Trace!EndTurn, Trace!StartMediaTurn, Trace!tracerVars,
         Trace!mediaVars, Trace!enderVars
<1>3. EndsInv'
  BY DEF CaptureInv, Trace!CaptureTypeOK, EndsInv, Trace!TurnStarted, Trace!EndTurn,
         Trace!StartMediaTurn, Trace!tracerVars, Trace!mediaVars, Trace!enderVars
<1>4. TracesInv'
  BY DEF CaptureInv, Trace!CaptureTypeOK, EndsInv, TracesInv, Trace!RecordedIsTraced,
         Trace!TurnStarted, Trace!EndTurn, Trace!StartMediaTurn, Trace!tracerVars,
         Trace!mediaVars, Trace!enderVars
<1>5. Trace!RecordedIsTraced'
  <2> DEFINE n == started + 1
  <2>1. /\ n \in Trace!Turns /\ activeTurnId' = n /\ UNCHANGED mediaOn
        /\ recordedLate \subseteq recordedLate' /\ currentTurn \in {0, activeTurnId}
        /\ capture[n] = "none"
        /\ \A t \in Trace!Turns :
              mediaOn[t] \in {0, t} /\ (capture[t] = "recording" <=> t = currentTurn)
    BY DEF CaptureInv, Trace!CaptureTypeOK, FilesInv, EndsInv, Trace!RecordedIsTraced,
           Trace!TurnStarted, Trace!EndTurn
  <2>2. \A t \in Trace!Turns : span'[t] # "open"
    BY DEF CaptureInv, Trace!CaptureTypeOK, Trace!RecordedIsTraced, Trace!TurnStarted,
           Trace!EndTurn
  <2>3. CASE sessionDir
    BY <2>1, <2>2, <2>3 DEF Trace!RecordedIsTraced, Trace!TurnStarted, Trace!StartMediaTurn
  <2>4. CASE ~sessionDir
    <3>1. currentTurn' = 0 /\ currentTurn = 0 /\ capture' = capture
      BY <2>4 DEF CaptureInv, EndsInv, Trace!TurnStarted, Trace!StartMediaTurn
    <3> QED
      BY <2>1, <2>2, <3>1 DEF Trace!RecordedIsTraced
  <2> QED
    BY <2>3, <2>4 DEF CaptureInv, Trace!CaptureTypeOK
<1>6. KeptInv'
  BY KeptTurnsKeep
  DEF CaptureInv, Trace!CaptureTypeOK, FilesInv, Trace!RecordedIsTraced, Trace!TurnStarted,
      Trace!EndTurn, Trace!StartMediaTurn, Trace!tracerVars, Trace!mediaVars, Trace!enderVars
<1> QED
  BY <1>1, <1>2, <1>3, <1>4, <1>5, <1>6 DEF CaptureInv

LEMMA TranscriptKeeps ==
    ASSUME CaptureInv, Trace!Transcript
    PROVE  CaptureInv'
<1>1. Trace!CaptureTypeOK'
  BY DEF CaptureInv, Trace!CaptureTypeOK, FilesInv, Trace!Transcript,
         Trace!EnsureActiveGeneration, Trace!tracerVars, Trace!mediaVars, Trace!enderVars
<1>2. FilesInv'
  BY DEF CaptureInv, Trace!CaptureTypeOK, FilesInv, EndsInv, Trace!RecordedIsTraced,
         Trace!Transcript, Trace!EnsureActiveGeneration, Trace!tracerVars, Trace!mediaVars,
         Trace!enderVars
<1>3. EndsInv'
  BY DEF CaptureInv, Trace!CaptureTypeOK, EndsInv, Trace!Transcript,
         Trace!EnsureActiveGeneration, Trace!tracerVars, Trace!mediaVars, Trace!enderVars
<1>4. TracesInv'
  BY DEF CaptureInv, Trace!CaptureTypeOK, EndsInv, TracesInv, Trace!RecordedIsTraced,
         Trace!Transcript, Trace!EnsureActiveGeneration, Trace!tracerVars, Trace!mediaVars,
         Trace!enderVars
<1>5. Trace!RecordedIsTraced'
  BY DEF CaptureInv, Trace!CaptureTypeOK, FilesInv, EndsInv, Trace!RecordedIsTraced,
         Trace!Transcript, Trace!EnsureActiveGeneration, Trace!tracerVars, Trace!mediaVars,
         Trace!enderVars
<1>6. KeptInv'
  BY KeptTurnsKeep
  DEF CaptureInv, Trace!CaptureTypeOK, FilesInv, Trace!RecordedIsTraced, Trace!Transcript,
      Trace!EnsureActiveGeneration, Trace!tracerVars, Trace!mediaVars, Trace!enderVars
<1> QED
  BY <1>1, <1>2, <1>3, <1>4, <1>5, <1>6 DEF CaptureInv

LEMMA CaptureToolCallKeeps ==
    ASSUME CaptureInv, NEW x \in Tools, Trace!ToolCall(x) \/ Trace!EndToolCall(x)
    PROVE  CaptureInv'
<1>1. Trace!CaptureTypeOK'
  <2>1. /\ toolSpan' \in [Tools -> {"none", "open", "closed"}]
        /\ UNCHANGED <<upstream, started, activeTurnId, mediaOn, recordedLate>>
    BY DEF CaptureInv, Trace!CaptureTypeOK, Trace!ToolCall, Trace!EndToolCall
  <2>2. /\ span' \in [Trace!Turns -> {"none", "open", "draining", "ended"}]
        /\ UNCHANGED <<Trace!mediaVars, Trace!enderVars>>
    BY DEF CaptureInv, Trace!CaptureTypeOK, Trace!ToolCall, Trace!EndToolCall,
           Trace!EnsureActiveGeneration
  <2> QED
    BY <2>1, <2>2 DEF CaptureInv, Trace!CaptureTypeOK, Trace!mediaVars, Trace!enderVars
<1>2. FilesInv'
  BY DEF CaptureInv, Trace!CaptureTypeOK, FilesInv, EndsInv, Trace!RecordedIsTraced,
         Trace!ToolCall, Trace!EndToolCall, Trace!EnsureActiveGeneration, Trace!tracerVars,
         Trace!mediaVars, Trace!enderVars
<1>3. EndsInv'
  BY DEF CaptureInv, Trace!CaptureTypeOK, EndsInv, Trace!ToolCall, Trace!EndToolCall,
         Trace!EnsureActiveGeneration, Trace!tracerVars, Trace!mediaVars, Trace!enderVars
<1>4. TracesInv'
  BY DEF CaptureInv, Trace!CaptureTypeOK, EndsInv, TracesInv, Trace!RecordedIsTraced,
         Trace!ToolCall, Trace!EndToolCall, Trace!EnsureActiveGeneration, Trace!tracerVars,
         Trace!mediaVars, Trace!enderVars
<1>5. Trace!RecordedIsTraced'
  BY DEF CaptureInv, Trace!CaptureTypeOK, FilesInv, EndsInv, Trace!RecordedIsTraced,
         Trace!ToolCall, Trace!EndToolCall, Trace!EnsureActiveGeneration, Trace!tracerVars,
         Trace!mediaVars, Trace!enderVars
<1>6. KeptInv'
  BY KeptTurnsKeep
  DEF CaptureInv, Trace!CaptureTypeOK, FilesInv, Trace!RecordedIsTraced, Trace!ToolCall,
      Trace!EndToolCall, Trace!EnsureActiveGeneration, Trace!tracerVars, Trace!mediaVars,
      Trace!enderVars
<1> QED
  BY <1>1, <1>2, <1>3, <1>4, <1>5, <1>6 DEF CaptureInv

LEMMA TurnEndedKeeps ==
    ASSUME CaptureInv, Trace!TurnEnded
    PROVE  CaptureInv'
<1>1. Trace!CaptureTypeOK'
  BY FinalizeKeeps
  DEF CaptureInv, Trace!CaptureTypeOK, Trace!TurnEnded, Trace!EndTurn, Trace!tracerVars,
      Trace!enderVars
<1>2. FilesInv'
  BY DEF CaptureInv, Trace!CaptureTypeOK, FilesInv, EndsInv, Trace!RecordedIsTraced,
         Trace!TurnEnded, Trace!FinalizeMediaTurn, Trace!CloseFiles, Trace!EndTurn,
         Trace!tracerVars, Trace!mediaVars, Trace!enderVars
<1>3. EndsInv'
  BY DEF CaptureInv, Trace!CaptureTypeOK, EndsInv, Trace!TurnEnded, Trace!FinalizeMediaTurn,
         Trace!CloseFiles, Trace!EndTurn, Trace!tracerVars, Trace!mediaVars, Trace!enderVars
<1>4. TracesInv'
  BY DEF CaptureInv, Trace!CaptureTypeOK, EndsInv, TracesInv, Trace!RecordedIsTraced,
         Trace!TurnEnded, Trace!FinalizeMediaTurn, Trace!CloseFiles, Trace!EndTurn,
         Trace!tracerVars, Trace!mediaVars, Trace!enderVars
<1>5. Trace!RecordedIsTraced'
  BY DEF CaptureInv, Trace!CaptureTypeOK, FilesInv, EndsInv, Trace!RecordedIsTraced,
         Trace!TurnEnded, Trace!FinalizeMediaTurn, Trace!CloseFiles, Trace!EndTurn,
         Trace!tracerVars, Trace!mediaVars, Trace!enderVars
<1>6. KeptInv'
  BY KeptTurnsKeep
  DEF CaptureInv, Trace!CaptureTypeOK, FilesInv, Trace!RecordedIsTraced, Trace!TurnEnded,
      Trace!FinalizeMediaTurn, Trace!CloseFiles, Trace!EndTurn, Trace!tracerVars,
      Trace!mediaVars, Trace!enderVars
<1> QED
  BY <1>1, <1>2, <1>3, <1>4, <1>5, <1>6 DEF CaptureInv

\* The turn that is closed was not in the session's audio.
LEMMA FilesClosedKeeps ==
    ASSUME CaptureInv, NEW t \in Trace!Turns, Trace!FilesClosed(t)
    PROVE  CaptureInv'
<1>1. Trace!CaptureTypeOK'
  BY DEF CaptureInv, Trace!CaptureTypeOK, FilesInv, Trace!FilesClosed, Trace!TakesAttributes,
         Trace!tracerVars, Trace!mediaVars, Trace!enderVars
<1>2. FilesInv'
  BY DEF CaptureInv, Trace!CaptureTypeOK, FilesInv, EndsInv, Trace!RecordedIsTraced,
         Trace!FilesClosed, Trace!TakesAttributes, Trace!tracerVars, Trace!mediaVars,
         Trace!enderVars
<1>3. EndsInv'
  BY DEF CaptureInv, Trace!CaptureTypeOK, EndsInv, Trace!FilesClosed, Trace!TakesAttributes,
         Trace!tracerVars, Trace!mediaVars, Trace!enderVars
<1>4. TracesInv'
  BY DEF CaptureInv, Trace!CaptureTypeOK, EndsInv, TracesInv, Trace!RecordedIsTraced,
         Trace!FilesClosed, Trace!TakesAttributes, Trace!tracerVars, Trace!mediaVars,
         Trace!enderVars
<1>5. Trace!RecordedIsTraced'
  BY DEF CaptureInv, Trace!CaptureTypeOK, FilesInv, EndsInv, Trace!RecordedIsTraced,
         Trace!FilesClosed, Trace!TakesAttributes, Trace!tracerVars, Trace!mediaVars,
         Trace!enderVars
<1>6. KeptInv'
  <2>1. /\ completedTurns \in Seq(Trace!Turns) /\ completedTurns' = Append(completedTurns, t)
        /\ capture' = [capture EXCEPT ![t] = "kept"] /\ capture[t] = "closing"
        /\ capture \in [Trace!Turns -> {"none", "recording", "closing", "kept", "failed"}]
    BY DEF CaptureInv, Trace!CaptureTypeOK, Trace!FilesClosed
  <2>2. \A i \in DOMAIN completedTurns' :
          \/ i \in DOMAIN completedTurns /\ completedTurns'[i] = completedTurns[i]
          \/ i = Len(completedTurns) + 1 /\ completedTurns'[i] = t
    BY <2>1
  <2>3. \A i \in DOMAIN completedTurns :
          completedTurns[i] \in Trace!Turns /\ completedTurns[i] # t
    BY <2>1 DEF CaptureInv, KeptInv
  <2>4. Trace!StitchedOnce'
    BY <2>2, <2>3 DEF CaptureInv, KeptInv, Trace!StitchedOnce
  <2>5. \A i \in DOMAIN completedTurns' : capture'[completedTurns'[i]] = "kept"
    BY <2>1, <2>2, <2>3 DEF CaptureInv, KeptInv
  <2> QED
    BY <2>4, <2>5 DEF KeptInv
<1> QED
  BY <1>1, <1>2, <1>3, <1>4, <1>5, <1>6 DEF CaptureInv

LEMMA FilesFailKeeps ==
    ASSUME CaptureInv, NEW t \in Trace!Turns, Trace!FilesFail(t)
    PROVE  CaptureInv'
<1>1. Trace!CaptureTypeOK'
  BY DEF CaptureInv, Trace!CaptureTypeOK, FilesInv, Trace!FilesFail, Trace!tracerVars,
         Trace!mediaVars, Trace!enderVars
<1>2. FilesInv'
  BY DEF CaptureInv, Trace!CaptureTypeOK, FilesInv, EndsInv, Trace!RecordedIsTraced,
         Trace!FilesFail, Trace!tracerVars, Trace!mediaVars, Trace!enderVars
<1>3. EndsInv'
  BY DEF CaptureInv, Trace!CaptureTypeOK, EndsInv, Trace!FilesFail, Trace!tracerVars,
         Trace!mediaVars, Trace!enderVars
<1>4. TracesInv'
  BY DEF CaptureInv, Trace!CaptureTypeOK, EndsInv, TracesInv, Trace!RecordedIsTraced,
         Trace!FilesFail, Trace!tracerVars, Trace!mediaVars, Trace!enderVars
<1>5. Trace!RecordedIsTraced'
  BY DEF CaptureInv, Trace!CaptureTypeOK, FilesInv, EndsInv, Trace!RecordedIsTraced,
         Trace!FilesFail, Trace!tracerVars, Trace!mediaVars, Trace!enderVars
<1>6. KeptInv'
  BY KeptTurnsKeep
  DEF CaptureInv, Trace!CaptureTypeOK, FilesInv, Trace!RecordedIsTraced, Trace!FilesFail,
      Trace!tracerVars, Trace!mediaVars, Trace!enderVars
<1> QED
  BY <1>1, <1>2, <1>3, <1>4, <1>5, <1>6 DEF CaptureInv

LEMMA FlushPendingKeeps ==
    ASSUME CaptureInv, NEW t \in Trace!Turns, Trace!FlushPending(t)
    PROVE  CaptureInv'
<1>1. Trace!CaptureTypeOK'
  BY DEF CaptureInv, Trace!CaptureTypeOK, FilesInv, Trace!FlushPending, Trace!tracerVars,
         Trace!mediaVars, Trace!enderVars
<1>2. FilesInv'
  BY DEF CaptureInv, Trace!CaptureTypeOK, FilesInv, EndsInv, Trace!RecordedIsTraced,
         Trace!FlushPending, Trace!tracerVars, Trace!mediaVars, Trace!enderVars
<1>3. EndsInv'
  BY DEF CaptureInv, Trace!CaptureTypeOK, EndsInv, Trace!FlushPending, Trace!tracerVars,
         Trace!mediaVars, Trace!enderVars
<1>4. TracesInv'
  BY DEF CaptureInv, Trace!CaptureTypeOK, EndsInv, TracesInv, Trace!RecordedIsTraced,
         Trace!FlushPending, Trace!tracerVars, Trace!mediaVars, Trace!enderVars
<1>5. Trace!RecordedIsTraced'
  BY DEF CaptureInv, Trace!CaptureTypeOK, FilesInv, EndsInv, Trace!RecordedIsTraced,
         Trace!FlushPending, Trace!tracerVars, Trace!mediaVars, Trace!enderVars
<1>6. KeptInv'
  BY KeptTurnsKeep
  DEF CaptureInv, Trace!CaptureTypeOK, FilesInv, Trace!RecordedIsTraced, Trace!FlushPending,
      Trace!tracerVars, Trace!mediaVars, Trace!enderVars
<1> QED
  BY <1>1, <1>2, <1>3, <1>4, <1>5, <1>6 DEF CaptureInv

LEMMA LeavingKeeps ==
    ASSUME CaptureInv, NEW e \in Trace!Enders, Trace!Leave(e)
    PROVE  CaptureInv'
<1>1. Trace!CaptureTypeOK'
  BY FinalizeKeeps
  DEF CaptureInv, Trace!CaptureTypeOK, Trace!Leave, Trace!tracerVars, Trace!enderVars
<1>2. FilesInv'
  BY DEF CaptureInv, Trace!CaptureTypeOK, FilesInv, EndsInv, Trace!RecordedIsTraced,
         Trace!Leave, Trace!FinalizeMediaTurn, Trace!CloseFiles, Trace!tracerVars,
         Trace!mediaVars, Trace!enderVars
<1>3. EndsInv'
  BY DEF CaptureInv, Trace!CaptureTypeOK, EndsInv, Trace!Leave, Trace!FinalizeMediaTurn,
         Trace!CloseFiles, Trace!tracerVars, Trace!mediaVars, Trace!enderVars
<1>4. TracesInv'
  BY DEF CaptureInv, Trace!CaptureTypeOK, EndsInv, TracesInv, Trace!RecordedIsTraced,
         Trace!Leave, Trace!FinalizeMediaTurn, Trace!CloseFiles, Trace!tracerVars,
         Trace!mediaVars, Trace!enderVars
<1>5. Trace!RecordedIsTraced'
  BY DEF CaptureInv, Trace!CaptureTypeOK, FilesInv, EndsInv, Trace!RecordedIsTraced,
         Trace!Leave, Trace!FinalizeMediaTurn, Trace!CloseFiles, Trace!tracerVars,
         Trace!mediaVars, Trace!enderVars
<1>6. KeptInv'
  BY KeptTurnsKeep
  DEF CaptureInv, Trace!CaptureTypeOK, FilesInv, Trace!RecordedIsTraced, Trace!Leave,
      Trace!FinalizeMediaTurn, Trace!CloseFiles, Trace!tracerVars, Trace!mediaVars,
      Trace!enderVars
<1> QED
  BY <1>1, <1>2, <1>3, <1>4, <1>5, <1>6 DEF CaptureInv

LEMMA StitchKeeps ==
    ASSUME CaptureInv, NEW e \in Trace!Enders, Trace!Stitch(e)
    PROVE  CaptureInv'
<1>1. Trace!CaptureTypeOK'
  BY DEF CaptureInv, Trace!CaptureTypeOK, FilesInv, Trace!Stitch, Trace!tracerVars,
         Trace!mediaVars, Trace!enderVars
<1>2. FilesInv'
  BY DEF CaptureInv, Trace!CaptureTypeOK, FilesInv, EndsInv, Trace!RecordedIsTraced,
         Trace!Stitch, Trace!tracerVars, Trace!mediaVars, Trace!enderVars
<1>3. EndsInv'
  BY DEF CaptureInv, Trace!CaptureTypeOK, EndsInv, Trace!Stitch, Trace!tracerVars,
         Trace!mediaVars, Trace!enderVars
<1>4. TracesInv'
  BY DEF CaptureInv, Trace!CaptureTypeOK, EndsInv, TracesInv, Trace!RecordedIsTraced,
         Trace!Stitch, Trace!tracerVars, Trace!mediaVars, Trace!enderVars
<1>5. Trace!RecordedIsTraced'
  BY DEF CaptureInv, Trace!CaptureTypeOK, FilesInv, EndsInv, Trace!RecordedIsTraced,
         Trace!Stitch, Trace!tracerVars, Trace!mediaVars, Trace!enderVars
<1>6. KeptInv'
  BY KeptTurnsKeep
  DEF CaptureInv, Trace!CaptureTypeOK, FilesInv, Trace!RecordedIsTraced, Trace!Stitch,
      Trace!tracerVars, Trace!mediaVars, Trace!enderVars
<1> QED
  BY <1>1, <1>2, <1>3, <1>4, <1>5, <1>6 DEF CaptureInv

LEMMA EndMediaKeeps ==
    ASSUME CaptureInv, NEW e \in Trace!Enders, Trace!EndMedia(e)
    PROVE  CaptureInv'
<1>1. Trace!CaptureTypeOK'
  BY DEF CaptureInv, Trace!CaptureTypeOK, FilesInv, Trace!EndMedia, Trace!CloseFiles,
         Trace!tracerVars, Trace!mediaVars, Trace!enderVars
<1>2. FilesInv'
  BY DEF CaptureInv, Trace!CaptureTypeOK, FilesInv, EndsInv, Trace!RecordedIsTraced,
         Trace!EndMedia, Trace!CloseFiles, Trace!tracerVars, Trace!mediaVars, Trace!enderVars
<1>3. EndsInv'
  BY DEF CaptureInv, Trace!CaptureTypeOK, EndsInv, Trace!EndMedia, Trace!CloseFiles,
         Trace!tracerVars, Trace!mediaVars, Trace!enderVars
<1>4. TracesInv'
  BY DEF CaptureInv, Trace!CaptureTypeOK, EndsInv, TracesInv, Trace!RecordedIsTraced,
         Trace!EndMedia, Trace!CloseFiles, Trace!tracerVars, Trace!mediaVars, Trace!enderVars
<1>5. Trace!RecordedIsTraced'
  BY DEF CaptureInv, Trace!CaptureTypeOK, FilesInv, EndsInv, Trace!RecordedIsTraced,
         Trace!EndMedia, Trace!CloseFiles, Trace!tracerVars, Trace!mediaVars, Trace!enderVars
<1>6. KeptInv'
  BY KeptTurnsKeep
  DEF CaptureInv, Trace!CaptureTypeOK, FilesInv, Trace!RecordedIsTraced, Trace!EndMedia,
      Trace!CloseFiles, Trace!tracerVars, Trace!mediaVars, Trace!enderVars
<1> QED
  BY <1>1, <1>2, <1>3, <1>4, <1>5, <1>6 DEF CaptureInv

\* Everything that is traced ends; what is recorded is late.
LEMMA EndSessionKeeps ==
    ASSUME CaptureInv, NEW e \in Trace!Enders, Trace!EndSession(e)
    PROVE  CaptureInv'
<1>1. Trace!CaptureTypeOK'
  <2>1. completedTurns' \in Seq(Trace!Turns)
    BY DEF Trace!EndSession
  <2> QED
    BY <2>1 DEF CaptureInv, Trace!CaptureTypeOK, Trace!EndSession, Trace!EndTraces
<1>2. FilesInv'
  BY DEF CaptureInv, Trace!CaptureTypeOK, FilesInv, EndsInv, Trace!RecordedIsTraced,
         Trace!EndSession, Trace!EndTraces, Trace!tracerVars, Trace!mediaVars, Trace!enderVars
<1>3. EndsInv'
  BY DEF CaptureInv, Trace!CaptureTypeOK, EndsInv, Trace!EndSession, Trace!EndTraces,
         Trace!tracerVars, Trace!mediaVars, Trace!enderVars
<1>4. TracesInv'
  BY DEF CaptureInv, Trace!CaptureTypeOK, EndsInv, TracesInv, Trace!RecordedIsTraced,
         Trace!EndSession, Trace!EndTraces, Trace!tracerVars, Trace!mediaVars, Trace!enderVars
<1>5. Trace!RecordedIsTraced'
  BY DEF CaptureInv, Trace!CaptureTypeOK, FilesInv, EndsInv, Trace!RecordedIsTraced,
         Trace!EndSession, Trace!EndTraces, Trace!tracerVars, Trace!mediaVars, Trace!enderVars
<1>6. KeptInv'
  BY DEF Trace!EndSession, KeptInv, Trace!StitchedOnce
<1> QED
  BY <1>1, <1>2, <1>3, <1>4, <1>5, <1>6 DEF CaptureInv

LEMMA StartSessionKeeps ==
    ASSUME CaptureInv, Trace!StartSession \/ Trace!Refuse
    PROVE  CaptureInv'
<1>1. Trace!CaptureTypeOK'
  <2>1. completedTurns' = <<>> \/ completedTurns' = completedTurns
    BY DEF Trace!StartSession, Trace!Refuse, Trace!mediaVars
  <2>2. <<>> \in Seq(Trace!Turns) /\ completedTurns \in Seq(Trace!Turns)
    BY DEF CaptureInv, Trace!CaptureTypeOK
  <2>3. CASE Trace!StartSession
    BY <2>1, <2>2, <2>3
    DEF CaptureInv, Trace!CaptureTypeOK, Trace!StartSession, Trace!tracerVars
  <2>4. CASE Trace!Refuse
    BY <2>2, <2>4
    DEF CaptureInv, Trace!CaptureTypeOK, Trace!Refuse, Trace!tracerVars, Trace!mediaVars
  <2> QED
    BY <2>3, <2>4
<1>2. FilesInv'
  BY DEF CaptureInv, Trace!CaptureTypeOK, FilesInv, EndsInv, Trace!RecordedIsTraced,
         Trace!StartSession, Trace!Refuse, Trace!tracerVars, Trace!mediaVars, Trace!enderVars
<1>3. EndsInv'
  BY DEF CaptureInv, Trace!CaptureTypeOK, EndsInv, Trace!StartSession, Trace!Refuse,
         Trace!tracerVars, Trace!mediaVars, Trace!enderVars
<1>4. TracesInv'
  BY DEF CaptureInv, Trace!CaptureTypeOK, EndsInv, TracesInv, Trace!RecordedIsTraced,
         Trace!StartSession, Trace!Refuse, Trace!tracerVars, Trace!mediaVars, Trace!enderVars
<1>5. Trace!RecordedIsTraced'
  BY DEF CaptureInv, Trace!CaptureTypeOK, FilesInv, EndsInv, Trace!RecordedIsTraced,
         Trace!StartSession, Trace!Refuse, Trace!tracerVars, Trace!mediaVars, Trace!enderVars
<1>6. KeptInv'
  <2>1. CASE Trace!StartSession
    BY <2>1 DEF Trace!StartSession, KeptInv, Trace!StitchedOnce
  <2>2. CASE Trace!Refuse
    BY <2>2, KeptTurnsKeep DEF Trace!Refuse, Trace!mediaVars
  <2> QED
    BY <2>1, <2>2
<1> QED
  BY <1>1, <1>2, <1>3, <1>4, <1>5, <1>6 DEF CaptureInv


LEMMA NextCapture == CaptureInv /\ [Trace!Next]_captureVars => CaptureInv'
<1> SUFFICES ASSUME CaptureInv, [Trace!Next]_captureVars PROVE CaptureInv'
  OBVIOUS
<1>1. CASE UNCHANGED captureVars
  <2>1. KeptInv'
    BY <1>1, KeptTurnsKeep DEF captureVars
  <2> QED
    BY <1>1, <2>1
    DEF captureVars, CaptureInv, Trace!CaptureTypeOK, FilesInv, EndsInv, TracesInv,
        Trace!RecordedIsTraced
<1> QED
  BY <1>1, TurnStartedKeeps, TranscriptKeeps, CaptureToolCallKeeps, TurnEndedKeeps,
     FilesClosedKeeps, FilesFailKeeps,
     FlushPendingKeeps, LeavingKeeps, StitchKeeps, EndMediaKeeps, EndSessionKeeps, StartSessionKeeps
  DEF Trace!Next

-----------------------------------------------------------------------------
(***************************************************************************)
(* The theorems of the composition.                                        *)
(***************************************************************************)

\* An adapter that was replaced, or whose client is gone, has no upstream; the result of a
\* tool that can be aborted goes to the session that called it; a transcript is handed to the
\* brain once; and a process that ends waits for that: for any number of session.config
\* messages, tool calls and sessions, in any order of their steps.
THEOREM AdaptersSafe == Spec => []AdaptersAccounted
<1>1. Init => SessionInv /\ ShutdownInv
  BY InitSession, InitShutdown DEF Init
<1>2. SessionInv /\ ShutdownInv /\ [Next]_vars => (SessionInv /\ ShutdownInv)'
  <2> SUFFICES ASSUME SessionInv, ShutdownInv, [Next]_vars PROVE SessionInv' /\ ShutdownInv'
    OBVIOUS
  <2>1. [Session!Next]_sessionVars
    BY DEF Next, vars
  <2>2. [Process!Next]_processVars
    BY DEF Next, vars
  <2> QED
    BY <2>1, <2>2, NextSession, NextShutdown
<1>3. SessionInv => Session!NoAdapterLeft /\ Session!SyncedOnce
  BY DEF SessionInv, Session!SessionTypeOK, Handed, Current, Cleaned, Session!Live,
         Session!UnderWay,
         Session!NoAdapterLeft, Session!SyncedOnce
<1>4. SessionInv /\ ShutdownInv => AdaptersAccounted
  BY <1>3
  DEF SessionInv, Aborted, ShutdownInv, CleansUp, AdaptersAccounted, Process!DrainedBeforeExit,
         Process!ShutdownTypeOK, Process!Tasks
<1> QED
  BY <1>1, <1>2, <1>4, PTL DEF Spec

\* What is recorded of a call is what is traced: files are open for the active turn only and
\* are described on its span, no turn is stitched twice, and nothing is left open when every
\* end of the session is over: for any number of turns and tool calls.
THEOREM CaptureSafe == Spec => []CaptureAccounted
<1>1. Init => CaptureInv
  BY InitCapture DEF Init
<1>2. CaptureInv /\ [Next]_vars => CaptureInv'
  <2> SUFFICES ASSUME CaptureInv, [Next]_vars PROVE CaptureInv'
    OBVIOUS
  <2>1. [Trace!Next]_captureVars
    BY DEF Next, vars
  <2> QED
    BY <2>1, NextCapture
<1>3. CaptureInv => Trace!NothingLeftOpen
  BY DEF CaptureInv, TracesInv, Trace!CaptureTypeOK, Trace!RecordedIsTraced,
         Trace!NothingLeftOpen, Trace!Draining
<1>4. CaptureInv => CaptureAccounted
  BY <1>3 DEF CaptureInv, KeptInv, CaptureAccounted, Trace!CaptureAccounted
<1> QED
  BY <1>1, <1>2, <1>4, PTL DEF Spec
=============================================================================
