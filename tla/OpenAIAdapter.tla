---------------------------- MODULE OpenAIAdapter ----------------------------
(***************************************************************************)
(* One voice session on OpenAI Realtime: OpenAIAdapter                     *)
(* (adapters/openai.ts).  The adapter keeps its own idea of whether a      *)
(* response is active, and rotates to a new upstream session by a timer.   *)
(*                                                                         *)
(* Events travel in order in both directions.  A new item is a tool result *)
(* or a context to narrate: both are followed by a request for a response. *)
(* No item outlives a session.  One that is handed in while none is open   *)
(* is dropped, one that no response took up is gone with its session, and  *)
(* the result of a call that a replaced session made goes to the new one,  *)
(* which has not asked for it.                                             *)
(*                                                                         *)
(* Left out: what audio and transcripts contain, the end of the audio,     *)
(* which opens the microphone somewhat before the end of its response,     *)
(* latency marks, the silence watchdog (an item like the others, without   *)
(* its tool count), and xAI's dialect.                                     *)
(*                                                                         *)
(* OpenAI is external: a response that is created takes up every item that *)
(* came before; a second one is refused while one is active; it starts     *)
(* responses by itself when the user has spoken; and a result it did not   *)
(* ask for is ignored or refused.                                          *)
(***************************************************************************)
EXTENDS Naturals, Sequences

CONSTANTS
    MaxItems,     \* bound: items handed to the adapter
    MaxEvents     \* bound: events on their way in one direction

VARIABLES
    stage,                  \* where connect() stands
    line,                   \* upstream: the current socket
    isRotating,             \* isRotating
    isClosing,              \* isClosing
    isResponseActive,       \* isResponseActive
    pendingResponseCancel,  \* pendingResponseCancel
    pendingResponseCreate,  \* pendingResponseCreate
    assistantSpeaking,      \* assistantSpeaking: the microphone is gated
    items,                  \* items handed to the adapter
    fate,                   \* history: what became of each, by its number
    toServer,               \* events on their way to the session
    fromServer,             \* events of the session on their way
    oldEvents,              \* events of a replaced session that still come
    oldLine,                \* a replaced socket has not had its close event
    response,               \* OpenAI: a response is active
    told,                   \* what the client was told last of its connection
    cleanly,                \* history: the session was closed with a clean code
    replaced,               \* history: a session was replaced
    excused,                \* history: a request for the unspoken items was given up
    strayed                 \* history: an event of the session before was handled in this one

responseVars == <<isResponseActive, pendingResponseCancel, pendingResponseCreate,
                  assistantSpeaking>>
itemVars == <<items, fate>>
sessionVars == <<stage, line, isRotating, isClosing, oldLine, told, cleanly, replaced>>
openaiVars == <<stage, line, isRotating, isClosing, oldLine, told, cleanly, replaced,
                isResponseActive, pendingResponseCancel, pendingResponseCreate, assistantSpeaking,
                items, fate, toServer, fromServer, oldEvents, response, excused, strayed>>

Create == [type |-> "create", item |-> 0]
Cancel == [type |-> "cancel", item |-> 0]
Item(n) == [type |-> "item", item |-> n]

ClientEvents == {Create, Cancel} \cup {Item(n) : n \in 1..MaxItems}
ServerEvents == {"created", "audio", "done", "error"}

\* An item is on its way, with a session or taken up by a response; or it is on its way to
\* a session that has not asked for it; or no session has it that will speak of it.
Fates == {"none", "sent", "read", "spoken", "orphaned", "lost"}

OpenAITypeOK ==
    /\ stage \in {"idle", "preparing", "opening", "up", "failed"}
    /\ line \in {"none", "opening", "open", "closed"}
    /\ told \in {"nothing", "ready", "rotating", "error"}
    /\ \A flag \in {isRotating, isClosing, oldLine, isResponseActive, pendingResponseCancel,
                    pendingResponseCreate, assistantSpeaking, response, cleanly, replaced, excused,
                    strayed} : flag \in BOOLEAN
    /\ items \in 0..MaxItems /\ fate \in [1..MaxItems -> Fates]
    /\ toServer \in Seq(ClientEvents)
    /\ fromServer \in Seq(ServerEvents) /\ Len(fromServer) <= MaxEvents
    /\ oldEvents \in Seq(ServerEvents)

Init ==
    /\ stage = "idle" /\ line = "none" /\ told = "nothing"
    /\ isRotating = FALSE /\ isClosing = FALSE /\ oldLine = FALSE
    /\ isResponseActive = FALSE /\ pendingResponseCancel = FALSE /\ pendingResponseCreate = FALSE
    /\ assistantSpeaking = FALSE
    /\ items = 0 /\ fate = [n \in 1..MaxItems |-> "none"]
    /\ toServer = <<>> /\ fromServer = <<>> /\ oldEvents = <<>>
    /\ response = FALSE /\ cleanly = FALSE /\ replaced = FALSE
    /\ excused = FALSE /\ strayed = FALSE

-----------------------------------------------------------------------------
Tell(what) == told' = IF isClosing THEN told ELSE what

ResetResponseState ==
    /\ isResponseActive' = FALSE
    /\ pendingResponseCancel' = FALSE
    /\ pendingResponseCreate' = FALSE
    /\ assistantSpeaking' = FALSE

\* A session ends, with what no response of it has taken up.
SessionEnds ==
    /\ fate' = [n \in 1..MaxItems |->
                   IF fate[n] \in {"sent", "read", "orphaned"} THEN "lost" ELSE fate[n]]
    /\ toServer' = <<>> /\ fromServer' = <<>> /\ response' = FALSE /\ excused' = FALSE

\* openUpstream: a new session, of which nothing is known yet.
OpenUpstream ==
    /\ line' = "opening" /\ isClosing' = FALSE
    /\ ResetResponseState
    /\ SessionEnds
    /\ cleanly' = FALSE /\ strayed' = FALSE

\* connect(): the history is split first.
Connect ==
    /\ stage = "idle"
    /\ stage' = "preparing"
    /\ UNCHANGED <<line, isRotating, isClosing, oldLine, told, cleanly, replaced, responseVars,
                   itemVars, toServer, fromServer, oldEvents, response, excused, strayed>>

Prepared ==
    /\ stage = "preparing"
    /\ OpenUpstream
    /\ stage' = "opening"
    /\ UNCHANGED <<isRotating, oldLine, told, replaced, items, oldEvents>>

\* The open event configures the session; connect() or rotate() goes on.
Opened ==
    /\ line = "opening"
    /\ line' = "open" /\ stage' = "up" /\ isRotating' = FALSE
    /\ Tell("ready")
    /\ UNCHANGED <<isClosing, oldLine, cleanly, replaced, responseVars, itemVars, toServer,
                   fromServer, oldEvents, response, excused, strayed>>

\* The error event: connect() is rejected, but a rotation is not -- its promise
\* never settles.
OpenFails ==
    /\ line = "opening"
    /\ line' = "closed"
    /\ IF isRotating THEN UNCHANGED <<stage, told>> ELSE stage' = "failed" /\ Tell("error")
    /\ UNCHANGED <<isRotating, isClosing, oldLine, cleanly, replaced, responseVars, itemVars,
                   toServer, fromServer, oldEvents, response, excused, strayed>>

\* Mutant: every close is taken for our own.
LossUntold(clean) == UNCHANGED told

\* The close event: a fault unless we asked for it or its code is 1000 or 1005.
Loss(clean) ==
    IF isRotating \/ isClosing \/ clean THEN UNCHANGED told ELSE Tell("error")

LineCloses(clean) ==
    /\ line = "open" /\ stage = "up"
    /\ line' = "closed"
    /\ Loss(clean)
    /\ cleanly' = clean
    /\ SessionEnds
    /\ UNCHANGED <<stage, isRotating, isClosing, oldLine, replaced, responseVars, items, oldEvents,
                   strayed>>

\* The close event of a socket that a rotation closed, whenever it comes.
OldLineCloses(clean) ==
    /\ oldLine /\ oldEvents = <<>>
    /\ oldLine' = FALSE
    /\ Loss(clean)
    /\ UNCHANGED <<stage, line, isRotating, isClosing, cleanly, replaced, responseVars, itemVars,
                   toServer, fromServer, oldEvents, response, excused, strayed>>

\* The rotation timer: a new session is opened; the old socket is closed, but
\* its listeners stay, and hear what OpenAI has sent already.
Rotate ==
    /\ stage = "up" /\ ~isRotating /\ ~isClosing /\ ~oldLine
    /\ isRotating' = TRUE /\ replaced' = TRUE
    /\ told' = "rotating"
    /\ oldLine' = (line = "open")
    /\ oldEvents' = IF line = "open" THEN fromServer ELSE <<>>
    /\ OpenUpstream
    /\ UNCHANGED <<stage, items>>

Disconnect ==
    /\ stage \in {"opening", "up"} /\ ~isClosing
    /\ isClosing' = TRUE /\ assistantSpeaking' = FALSE
    /\ line' = IF line = "opening" THEN "opening" ELSE "closed"
    /\ SessionEnds
    /\ UNCHANGED <<stage, isRotating, oldLine, told, cleanly, replaced, isResponseActive,
                   pendingResponseCancel, pendingResponseCreate, items, oldEvents, strayed>>

-----------------------------------------------------------------------------
\* sendUpstream
SendUpstream(events) == toServer' = IF line = "open" THEN toServer \o events ELSE toServer

\* requestResponse while a response is active.
QueueCreate == pendingResponseCreate' = TRUE

\* A new item and requestResponse: sendToolResult, injectContext.  Nobody looks whether
\* it answers a call of a replaced session.
NewItem(orphaned) ==
    /\ stage = "up" /\ items < MaxItems /\ ~isClosing /\ Len(toServer) < MaxEvents
    /\ orphaned => replaced
    /\ items' = items + 1
    /\ fate' = [fate EXCEPT ![items'] = IF line # "open" THEN "lost"
                                        ELSE IF orphaned THEN "orphaned" ELSE "sent"]
    /\ IF isResponseActive
          THEN /\ SendUpstream(<<Item(items')>>)
               /\ QueueCreate
               /\ UNCHANGED <<isResponseActive, pendingResponseCancel>>
          ELSE /\ SendUpstream(<<Item(items'), Create>>)
               /\ pendingResponseCreate' = FALSE
               /\ isResponseActive' = (line = "open")
               /\ pendingResponseCancel' = (pendingResponseCancel /\ line # "open")
    /\ UNCHANGED <<sessionVars, assistantSpeaking, fromServer, oldEvents, response, excused,
                   strayed>>

\* cancelResponse: what was queued is given up as well.
CancelResponse ==
    /\ stage = "up" /\ ~isClosing /\ Len(toServer) < MaxEvents
    /\ pendingResponseCreate' = FALSE /\ assistantSpeaking' = FALSE
    /\ excused' = (excused \/ isResponseActive)
    /\ IF isResponseActive /\ ~pendingResponseCancel
          THEN pendingResponseCancel' = TRUE /\ SendUpstream(<<Cancel>>)
          ELSE UNCHANGED <<pendingResponseCancel, toServer>>
    /\ UNCHANGED <<sessionVars, isResponseActive, itemVars, fromServer, oldEvents, response, strayed>>

\* response.created
Created ==
    /\ isResponseActive' = TRUE
    /\ pendingResponseCancel' = FALSE
    /\ pendingResponseCreate' = FALSE
    /\ excused' = (excused \/ pendingResponseCreate)
    /\ UNCHANGED <<assistantSpeaking, toServer>>

\* Mutant: what was asked for while a response was active is forgotten.
FlushForgets ==
    /\ pendingResponseCreate' = FALSE
    /\ isResponseActive' = FALSE
    /\ UNCHANGED toServer

\* flushPendingResponseCreate
FlushPendingResponseCreate ==
    /\ pendingResponseCreate' = FALSE
    /\ isResponseActive' = (pendingResponseCreate /\ line = "open")
    /\ IF pendingResponseCreate THEN SendUpstream(<<Create>>) ELSE UNCHANGED toServer

\* Mutant: the end of a response leaves the microphone gated.
DoneKeepsGate ==
    /\ pendingResponseCancel' = FALSE
    /\ FlushPendingResponseCreate
    /\ UNCHANGED <<assistantSpeaking, excused>>

\* response.done
Done ==
    /\ pendingResponseCancel' = FALSE /\ assistantSpeaking' = FALSE
    /\ FlushPendingResponseCreate
    /\ UNCHANGED excused

\* Audio of the model gates the microphone.
AudioDelta ==
    /\ assistantSpeaking' = TRUE
    /\ UNCHANGED <<isResponseActive, pendingResponseCancel, pendingResponseCreate, excused, toServer>>

\* handleUpstreamEvent
Handle(event) ==
    \/ event = "created" /\ Created
    \/ event = "audio" /\ AudioDelta
    \/ event = "done" /\ Done
    \/ /\ event = "error"
       /\ ResetResponseState
       /\ excused' = TRUE
       /\ UNCHANGED toServer

Receive ==
    /\ line = "open" /\ fromServer # <<>>
    /\ Handle(Head(fromServer))
    /\ fromServer' = Tail(fromServer)
    /\ IF Head(fromServer) = "error" THEN Tell("error") ELSE UNCHANGED told
    /\ UNCHANGED <<stage, line, isRotating, isClosing, oldLine, cleanly, replaced, itemVars,
                   oldEvents, response, strayed>>

ReceiveOld ==
    /\ oldEvents # <<>>
    /\ Handle(Head(oldEvents))
    /\ oldEvents' = Tail(oldEvents)
    /\ strayed' = TRUE
    /\ IF Head(oldEvents) = "error" THEN Tell("error") ELSE UNCHANGED told
    /\ UNCHANGED <<stage, line, isRotating, isClosing, oldLine, cleanly, replaced, itemVars,
                   fromServer, response>>

-----------------------------------------------------------------------------
Emit(events) == fromServer' = fromServer \o events

\* A response starts, with every item that is there.
Respond(toCome) ==
    /\ response' = TRUE
    /\ fate' = [n \in 1..MaxItems |-> IF fate[n] = "read" THEN "spoken" ELSE fate[n]]
    /\ excused' = (excused /\ \E i \in DOMAIN toCome : toCome[i].type = "item")

\* An item is added to the conversation, a result that was not asked for perhaps not.
ReadItem(n) ==
    /\ \/ fate[n] = "orphaned" /\ Emit(<<"error">>)
       \/ UNCHANGED fromServer
    /\ fate' = [fate EXCEPT ![n] = IF fate[n] = "orphaned" THEN "lost" ELSE "read"]
    /\ UNCHANGED <<response, excused>>

ReadCreate ==
    IF response THEN Emit(<<"error">>) /\ UNCHANGED <<response, fate, excused>>
                ELSE Emit(<<"created">>) /\ Respond(Tail(toServer))

ReadCancel ==
    /\ Emit(IF response THEN <<"done">> ELSE <<"error">>)
    /\ response' = FALSE
    /\ UNCHANGED <<fate, excused>>

ServerReads ==
    /\ line = "open" /\ toServer # <<>> /\ Len(fromServer) < MaxEvents
    /\ toServer' = Tail(toServer)
    /\ LET event == Head(toServer) IN
          \/ event.type = "item" /\ ReadItem(event.item)
          \/ event.type = "create" /\ ReadCreate
          \/ event.type = "cancel" /\ ReadCancel
    /\ UNCHANGED <<sessionVars, responseVars, items, oldEvents, strayed>>

\* The user has spoken: a response starts by itself.
UserSpoke ==
    /\ line = "open" /\ stage = "up" /\ ~response /\ Len(fromServer) < MaxEvents
    /\ Emit(<<"created">>)
    /\ Respond(toServer)
    /\ UNCHANGED <<sessionVars, responseVars, items, toServer, oldEvents, strayed>>

\* Bound: one audio event on its way, which stands for all that follow it.
ResponseAudio ==
    /\ line = "open" /\ response /\ Len(fromServer) < MaxEvents
    /\ \A i \in DOMAIN fromServer : fromServer[i] # "audio"
    /\ Emit(<<"audio">>)
    /\ UNCHANGED <<sessionVars, responseVars, itemVars, toServer, oldEvents, response, excused,
                   strayed>>

ResponseDone ==
    /\ line = "open" /\ response /\ Len(fromServer) < MaxEvents
    /\ Emit(<<"done">>)
    /\ response' = FALSE
    /\ UNCHANGED <<sessionVars, responseVars, itemVars, toServer, oldEvents, excused, strayed>>

Next ==
    \/ Connect \/ Prepared \/ Opened \/ OpenFails \/ Rotate \/ Disconnect
    \/ CancelResponse \/ Receive \/ ReceiveOld
    \/ ServerReads \/ UserSpoke \/ ResponseAudio \/ ResponseDone
    \/ \E clean \in BOOLEAN : LineCloses(clean) \/ OldLineCloses(clean)
    \/ \E orphaned \in BOOLEAN : NewItem(orphaned)

\* An upgrade succeeds or fails.
Fairness == WF_openaiVars(Opened \/ OpenFails)

Spec == Init /\ [][Next]_openaiVars /\ Fairness

-----------------------------------------------------------------------------
\* Properties.

Quiet == line = "open" /\ ~isClosing /\ toServer = <<>> /\ fromServer = <<>>

\* What a session was handed is spoken: when nothing is on its way and no response is
\* active, none is left that a response has not taken up ("the deferred response.create
\* then strands", openai.ts:634).  Excused are requests that were given up: cancelled by
\* the client, overtaken by response.created, or refused with an error; and events of a
\* replaced session.
ResultSpoken ==
    Quiet /\ ~response /\ ~strayed /\ ~excused
        => \A n \in 1..MaxItems : fate[n] \notin {"sent", "read"}

\* Only the end of a session costs an item: one that is neither lost nor replaced was
\* handed, and is the one that asked for, whatever the adapter was handed.
LostOnlyWithSession ==
    line = "open" /\ ~replaced
        => \A n \in 1..MaxItems : fate[n] \in {"none", "sent", "read", "spoken"}

\* The microphone is not gated for good: when the model has nothing more to say, what
\* the user says reaches it again (a stuck gate would "permanently gate the mic to zero
\* frames", openai.ts:102).  Audio of a replaced session may gate it, once.
MicrophoneOpens == Quiet /\ ~response /\ ~strayed => ~assistantSpeaking

\* The client's picture of its connection is true: a session it takes for ready is open,
\* and one it takes for being replaced is.  Two losses leave it with a picture for good.
\* A clean close (1000 or 1005) is not told at all; and when a rotation is refused,
\* isRotating stays set with no session left, and no rotation is tried again, since the
\* promise that rotate() awaits never settles (openai.ts:302).
LastWordIsTrue ==
    stage = "up" /\ ~isClosing =>
        /\ told # "nothing"
        /\ told = "ready" => line = "open" \/ (line = "closed" /\ cleanly)
        /\ told = "rotating" => isRotating /\ line \in {"opening", "closed"}
=============================================================================
