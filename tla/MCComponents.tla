----------------------------- MODULE MCComponents -----------------------------
(***************************************************************************)
(* Model checking of the components that share no state with another and   *)
(* are checked for safety only.  Of the plugin kernel: the activation and  *)
(* disposal of Contributions, and the algorithms it rests on, each against *)
(* what it is to compute, over all their small inputs.  Of the Desktop:    *)
(* the chat page and the shared screen with its overlay.  Of the Relay:    *)
(* the files of the workspace, those of the thinking archive, and the      *)
(* collector of its traces.  A behaviour runs one of them, or is a single  *)
(* input of an algorithm.                                                  *)
(***************************************************************************)
EXTENDS Naturals, Sequences, FiniteSets

CONSTANTS
    Ids, MaxDirectories,
    Names, MaxNumber,
    MaxAsks, MaxSaid, MaxConversations, MaxActs,
    MaxShares, MaxGestures,
    Sessions, Null, MaxRequests, MaxFileCalls,
    Spans, Root, Tagged, Recorded, Times, MaxResends

ASSUME ComponentsAssumption ==
    /\ MaxFileCalls \in Nat /\ MaxRequests \in Nat /\ MaxShares \in Nat
    /\ Null \notin Nat \cup Sessions \cup Seq(Nat)
    /\ \A T \in SUBSET (0..MaxFileCalls) : T # Null

Contributions == 1..3
Contracts == 1..3

\* Each Contribution provides a Contract of its own; the last one may provide the
\* first Contract, too, and the Profile may select either.  The first may require
\* itself, and one may have no grants.
Scenarios ==
    {[provides |-> [c \in Contributions |-> IF c = 3 /\ both THEN {1, 3} ELSE {c}],
      requires |-> r, fits |-> f,
      selected |-> [k \in Contracts |-> IF k = 1 THEN p ELSE 0],
      granted |-> (Contributions \ {u}) \X Contracts] :
        both \in BOOLEAN,
        r \in {q \in [Contributions -> SUBSET Contracts] : \A c \in {2, 3} : c \notin q[c]},
        f \in {Contributions, Contributions \ {1}},
        p \in {0, 1, 3},
        u \in {0, 2, 3}}

VARIABLES
    part,
    scenario, graph, next, entries, failed, waiting, shown, selected, shownSelected,
    directories,
    version, op, expected,
    created, deleted, stored, conversationId, messages, jobs, stream, streamConv, textChatCancel,
    isThinking, streamingText, isConnecting, isCallActive, call, callConv, said, greeting, acts,
    raced, turned, stale, overlapped, surprise, outcome,
    inCall, capture, source, screenCapture, isScreenSharing, drawMode, pageStrokes, context, polling,
    asking, isReady, pendingMode, pendingDisplay, visible, currentMode, hiding, overlayMode, strokes,
    activeStroke, fromOverlay, toPage, toOverlay, gestures, sideBySide, lost, lateBounds, stuck,
    home, write, previous, sessionWrites, directory, raw, gz, recent, pass, removal, removals,
    removed, squeezed, unchained, gone, reborn,
    fileOp, at, text, content, crashed, met, replaced, mixed, spoilt,
    erroneous, ended, sent, batch, resends, observations, media, trace, ingested, acknowledged

Kernel == INSTANCE PluginKernel
Versions == INSTANCE Semver
Page == INSTANCE ChatPage
Share == INSTANCE ScreenShare WITH overlapped <- sideBySide
Thinking == INSTANCE ThinkingStorage WITH raced <- squeezed
Workspace == INSTANCE WorkspaceFiles WITH op <- fileOp, overlapped <- met, raced <- mixed
Collector == INSTANCE TraceCollector WITH failed <- erroneous

kernelVars == <<scenario, graph, next, entries, failed, waiting, shown, selected, shownSelected>>
inputVars == <<directories, version, op, expected>>
pageVars == <<created, deleted, stored, conversationId, messages, jobs, stream, streamConv,
    textChatCancel, isThinking, streamingText, isConnecting, isCallActive, call, callConv, said,
    greeting, acts, raced, turned, stale, overlapped, surprise, outcome>>
shareVars == <<inCall, capture, source, screenCapture, isScreenSharing, drawMode, pageStrokes,
    context, polling, asking, isReady, pendingMode, pendingDisplay, visible, currentMode, hiding,
    overlayMode, strokes, activeStroke, fromOverlay, toPage, toOverlay, gestures, sideBySide, lost,
    lateBounds, stuck>>
thinkingVars == <<home, write, previous, sessionWrites, directory, raw, gz, recent, pass, removal,
    removals, removed, squeezed, unchained, gone, reborn>>
fileVars == <<fileOp, at, text, content, crashed, met, replaced, mixed, spoilt>>
traceVars == <<erroneous, ended, sent, batch, resends, observations, media, trace, ingested,
    acknowledged>>
vars == <<part, kernelVars, inputVars, pageVars, shareVars, thinkingVars, fileVars,
    traceVars>>

\* The spans of a short call: the session, a turn with its recording, a tool call that
\* began before the turn did and outlasts it.
SpanTimes == [s \in Spans |-> IF s = Root THEN [start |-> 1, end |-> 4]
                             ELSE IF s \in Recorded THEN [start |-> 2, end |-> 3]
                             ELSE [start |-> 0, end |-> 5]]

Prereleases == {<<>>, <<1>>, <<1, 8>>, <<1, 2>>}

SomeVersions ==
    [major : 0..MaxNumber, minor : 0..MaxNumber, patch : 0..MaxNumber, prerelease : Prereleases]

NoKernel ==
    /\ scenario = CHOOSE s \in Scenarios : \A c \in Contributions : s.requires[c] = {}
    /\ graph = Kernel!Resolve(scenario)
    /\ next = 0 /\ entries = {} /\ failed = {} /\ waiting = {}
    /\ shown = [c \in Contributions |-> "unknown"]
    /\ selected = [k \in Contracts |-> 0] /\ shownSelected = {}

NoDirectory == directories = <<>>
NoVersion == version = Versions!Release(0, 0, 0) /\ op = "=" /\ expected = Versions!Release(0, 0, 0)

ComponentsInit ==
    /\ \/ part = "kernel" /\ Kernel!Init /\ NoDirectory /\ NoVersion
       \/ /\ part = "discovery" /\ NoKernel /\ NoVersion
          /\ \E n \in 1..MaxDirectories :
                directories \in [1..n -> Ids \cup {Kernel!NoManifest, Kernel!Refused}]
       \/ /\ part = "semver" /\ NoKernel /\ NoDirectory
          /\ version \in SomeVersions /\ expected \in SomeVersions /\ op \in Versions!Operators
       \/ /\ part \in {"page", "share", "thinking", "files", "collector"}
          /\ NoKernel /\ NoDirectory /\ NoVersion
    /\ Page!Init /\ Share!Init /\ Thinking!Init /\ Workspace!Init
    /\ Collector!Init
    /\ part # "page" => created = 0
    /\ part # "collector" => erroneous = {}

ComponentsNext ==
    \/ /\ part = "kernel" /\ Kernel!Next
       /\ UNCHANGED <<part, inputVars, pageVars, shareVars, thinkingVars, fileVars,
                      traceVars>>
    \/ /\ part = "page" /\ Page!Next
       /\ UNCHANGED <<part, kernelVars, inputVars, shareVars, thinkingVars, fileVars,
                      traceVars>>
    \/ /\ part = "share" /\ Share!Next
       /\ UNCHANGED <<part, kernelVars, inputVars, pageVars, thinkingVars, fileVars,
                      traceVars>>
    \/ /\ part = "thinking" /\ Thinking!Next
       /\ UNCHANGED <<part, kernelVars, inputVars, pageVars, shareVars, fileVars,
                      traceVars>>
    \/ /\ part = "files" /\ Workspace!Next
       /\ UNCHANGED <<part, kernelVars, inputVars, pageVars, shareVars, thinkingVars,
                      traceVars>>
    \/ /\ part = "collector" /\ Collector!Next
       /\ UNCHANGED <<part, kernelVars, inputVars, pageVars, shareVars, thinkingVars,
                      fileVars>>

ComponentsSpec == ComponentsInit /\ [][ComponentsNext]_vars

\* The type invariant of the kernel; who is active is served, and the effective graph
\* is true; and the dependency graph, the discovery of packages and the comparison of
\* versions compute what they are to compute.
KernelAccounted ==
    /\ part = "kernel" => Kernel!KernelTypeOK /\ Kernel!ActiveIsServed /\ Kernel!GraphIsTrue
    /\ part = "kernel" /\ next = 1 => Kernel!OrderIsRight(scenario, graph)
    /\ part = "discovery" => Kernel!IdsAreUnique(directories)
    /\ part = "semver" =>
          /\ op = "=" => Versions!OrdersVersions(version, expected, SomeVersions)
          /\ Versions!KeepsCompatible(version, op, expected)

\* What the chat page stores, thinks of and shows is that of its conversation, over text
\* chats, calls and conversations that are chosen, left and deleted meanwhile; and a
\* screen that is captured can be stopped, the page and the overlay agree once they have
\* heard each other, and what is drawn is of the share it is sent with.
PageAccounted ==
    /\ Page!PageTypeOK /\ Share!ShareTypeOK
    /\ Page!AnsweredInPlace /\ Page!ThinkingHasChat /\ Page!CancelReachesChat
    /\ Page!CallIsShown /\ Page!CallKeepsConversation /\ Page!ShowsConversation
    /\ Share!CaptureCanBeStopped /\ Share!OverlayAgrees /\ Share!StrokesOfShare

\* The collector keeps of a trace what its spans say together.
CollectorAccounted == Collector!CollectorTypeOK /\ Collector!TraceIsWhole

\* What was acknowledged as written, by the model's tools or into the archive of private
\* reasoning, leaves the disk, its order is broken, or a deletion undone only in the ways
\* the code leaves open, each of which is named: an append while a pass of maintenance
\* holds the session's file, an archive compressed a second time, calls at one workspace
\* file at the same time, a call that fails or ends with the Relay once it has truncated
\* the file, a pass that had read what is deleted, and an append whose chain a wipe forgot.
\* Refused requests, passes given up midway, restarts, seeds, and writes and edits that
\* have the file to themselves do none of it.
FilesAccounted ==
    /\ Thinking!ThinkingTypeOK /\ Workspace!FileTypeOK
    /\ Thinking!EntriesKept /\ Thinking!EntriesInOrder /\ Thinking!DeletedIsGone
    /\ Workspace!UpdatesKept /\ Workspace!SeededHasText
=============================================================================
