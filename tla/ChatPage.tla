------------------------------- MODULE ChatPage -------------------------------
(***************************************************************************)
(* The Desktop's chat page: which conversation it is in, what it stores    *)
(* there, and the answers it streams over a socket of their own when no    *)
(* call is connected.  Everything it stores or reads goes to the main      *)
(* process and comes back in the order it was asked, so what the page has  *)
(* begun is a queue of jobs: the head's answer arrives, the page goes on   *)
(* with that job, and its next request goes to the end.                    *)
(*                                                                         *)
(* The connection of a call is DesktopCall's.  Attachments, titles, tool   *)
(* rows and the deletion of one message are left out; a run of settings    *)
(* read one after the other is one request; loadMessages without a         *)
(* conversation, which asks nothing, takes its turn all the same.          *)
(***************************************************************************)
EXTENDS Naturals, Sequences, FiniteSets

CONSTANTS
    MaxAsks,            \* bound: questions typed
    MaxSaid,            \* bound: utterances of calls
    MaxActs,            \* bound: what the user does
    MaxConversations    \* bound: conversations created

Asks == 1..MaxAsks
Conversations == 1..MaxConversations
None == 0
NoText == <<"none", 0>>

VARIABLES
    created,            \* conversations ever created are 1..created
    deleted,            \* those History has deleted
    stored,             \* the messages of each conversation, in their order
    conversationId,     \* conversationIdRef
    messages,           \* the messages on the page
    jobs,
    stream,             \* the text chat of each question
    streamConv,         \* the conversation it belongs to
    textChatCancel,     \* textChatCancelRef: the question whose text chat it ends
    isThinking,
    streamingText,      \* whose text is being shown
    isConnecting, isCallActive,
    call, callConv,     \* the call as useRealtime has it, and the one it was started for
    said,               \* utterances so far
    greeting,           \* the greeting of the first use is still to come
    acts,               \* what the user has done so far, opening the page first
    raced,              \* history: one was chosen or asked for while another was being created
    turned,             \* history: the page left a conversation during a call
    stale,              \* history: one was left while it was loaded, or chosen while one was created
    overlapped,         \* history: questions whose text chats ran side by side
    surprise,           \* history: a call was ended while another was being started
    outcome             \* history: what came of each question

storeVars == <<created, deleted, stored>>
pageVars == <<conversationId, messages>>
chatVars == <<stream, streamConv, textChatCancel, overlapped>>
textVars == <<isThinking, streamingText>>
callVars == <<isConnecting, isCallActive, call, callConv, said, greeting, surprise>>
historyVars == <<raced, turned, stale>>
pageStateVars == <<storeVars, pageVars, jobs, chatVars, textVars, callVars, historyVars, outcome, acts>>

Init ==
    /\ created \in {0, 1} /\ deleted = {} /\ stored = [c \in Conversations |-> <<>>]
    /\ conversationId = None /\ messages = <<>>
    /\ jobs = <<>>
    /\ stream = [s \in Asks |-> "none"] /\ streamConv = [s \in Asks |-> None]
    /\ textChatCancel = None
    /\ isThinking = FALSE /\ streamingText = NoText
    /\ isConnecting = FALSE /\ isCallActive = FALSE /\ call = "none" /\ callConv = None
    /\ said = 0 /\ greeting = (created = 0) /\ acts = 0
    /\ raced = FALSE /\ turned = FALSE /\ stale = FALSE
    /\ overlapped = {} /\ surprise = FALSE
    /\ outcome = [s \in Asks |-> "none"]

Job(job, at, c) == [job |-> job, at |-> at, conv |-> c, loads |-> None]
Exists(c) == c \in 1..created /\ c \notin deleted
At(at) == {i \in 1..Len(jobs) : jobs[i].at = at}
Pending(job) == \E i \in 1..Len(jobs) : jobs[i].job = job
Open(s) == stream[s] = "open"

-----------------------------------------------------------------------------
(* What the page asks.  A new job is put at the end of the queue; q is the  *)
(* queue without the job that goes on, if one does.                         *)

\* ensureConversation and the request that comes after it: the conversation the page
\* is in, or one that is created, even if another is being created.
Ensure(q, job, then) ==
    IF conversationId # None
    THEN jobs' = Append(q, Job(job, then, conversationId)) /\ UNCHANGED raced
    ELSE /\ jobs' = Append(q, Job(job, "create", None))
         /\ raced' = (raced \/ \E i \in 1..Len(q) : q[i].at = "create")

\* Bound: the conversations that are being created are still within it.
Spare ==
    created + Cardinality(At("create"))
        + Cardinality({i \in At("read") : jobs[i].job[1] = "call"}) < MaxConversations
Room == Spare \/ conversationId # None

Head0 == jobs[1]
Rest == Tail(jobs)
Continue(at, c) == jobs' = Append(Rest, [Head0 EXCEPT !.at = at, !.conv = c])
Finish == jobs' = Rest

-----------------------------------------------------------------------------
(* The answers of the main process. *)

\* db:getLatestConversation, when the page is mounted.
Latest ==
    /\ jobs # <<>> /\ Head0.at = "latest"
    /\ IF created = 0 THEN Finish /\ UNCHANGED conversationId
       ELSE /\ conversationId' = 1
            /\ jobs' = Append(Rest, [Head0 EXCEPT !.at = "load", !.loads = 1])
    /\ UNCHANGED <<storeVars, messages, chatVars, textVars, callVars, historyVars, outcome>>

\* db:createConversation
Create ==
    /\ jobs # <<>> /\ Head0.at = "create"
    /\ created' = created + 1 /\ conversationId' = created + 1
    /\ Continue(IF Head0.job[1] = "call" THEN "start" ELSE "add", created + 1)
    /\ UNCHANGED <<deleted, stored, messages, chatVars, textVars, callVars, historyVars, outcome>>

\* Mutant: what is stored in a call is not loaded.
AddUnseen ==
    /\ jobs # <<>> /\ Head0.at = "add" /\ Exists(Head0.conv)
    /\ stored' = [stored EXCEPT ![Head0.conv] = Append(@, Head0.job)]
    /\ IF Head0.job[1] = "said" THEN Finish
       ELSE jobs' = Append(Rest, [Head0 EXCEPT !.at = "load", !.loads = conversationId])
    /\ UNCHANGED <<created, deleted, pageVars, chatVars, textVars, callVars, historyVars, outcome>>

\* Mutant: a message goes to the conversation that is open when it is stored.
AddToOpen ==
    /\ jobs # <<>> /\ Head0.at = "add" /\ Exists(Head0.conv) /\ conversationId # None
    /\ stored' = [stored EXCEPT ![conversationId] = Append(@, Head0.job)]
    /\ jobs' = Append(Rest, [Head0 EXCEPT !.at = "load", !.loads = conversationId])
    /\ UNCHANGED <<created, deleted, pageVars, chatVars, textVars, callVars, historyVars, outcome>>

\* db:addMessage; the page then loads the conversation it is in by now.
Add ==
    /\ jobs # <<>> /\ Head0.at = "add" /\ Exists(Head0.conv)
    /\ stored' = [stored EXCEPT ![Head0.conv] = Append(@, Head0.job)]
    /\ jobs' = Append(Rest, [Head0 EXCEPT !.at = "load", !.loads = conversationId])
    /\ UNCHANGED <<created, deleted, pageVars, chatVars, textVars, callVars, historyVars, outcome>>

\* The conversation was deleted: the foreign key refuses the message, and nothing
\* catches that.
AddRefused ==
    /\ jobs # <<>> /\ Head0.at = "add" /\ ~Exists(Head0.conv)
    /\ outcome' = IF Head0.job[1] = "said" THEN outcome
                  ELSE [outcome EXCEPT ![Head0.job[2]] = "refused"]
    /\ Finish
    /\ UNCHANGED <<storeVars, pageVars, chatVars, textVars, callVars, historyVars>>

\* The messages of a conversation arrive, and the job that loaded them goes on: a
\* question is sent in the call or reads its settings, an answer that is shown is no
\* longer text that arrives.
Load ==
    /\ jobs # <<>> /\ Head0.at = "load"
    /\ messages' = IF Head0.loads = None THEN messages ELSE stored[Head0.loads]
    /\ LET kind == Head0.job[1] s == Head0.job[2] IN
       /\ IF kind = "ask" /\ call # "connected" THEN Continue("read", Head0.conv) ELSE Finish
       /\ outcome' = CASE kind = "ask" /\ call = "connected" -> [outcome EXCEPT ![s] = "sent"]
                       [] kind = "answer" -> [outcome EXCEPT ![s] = "answered"]
                       [] OTHER -> outcome
       /\ streamingText' = IF kind \in {"said", "answer"} THEN NoText ELSE streamingText
    /\ UNCHANGED <<storeVars, conversationId, chatVars, isThinking, callVars, historyVars>>

\* A question has its settings: without a key the page says so, with one it opens a
\* text chat.
AskReads(hasKey) ==
    LET s == Head0.job[2] IN
    /\ jobs # <<>> /\ Head0.at = "read" /\ Head0.job[1] = "ask"
    /\ IF hasKey
       THEN /\ stream' = [stream EXCEPT ![s] = "open"]
            /\ streamConv' = [streamConv EXCEPT ![s] = Head0.conv]
            /\ textChatCancel' = s /\ isThinking' = TRUE
            /\ overlapped' = IF \E u \in Asks : Open(u)
                             THEN overlapped \cup {u \in Asks : Open(u)} \cup {s} ELSE overlapped
            /\ Finish
       ELSE /\ jobs' = Append(Rest, Job(<<"answer", s>>, "add", Head0.conv))
            /\ UNCHANGED <<chatVars, isThinking>>
    /\ UNCHANGED <<storeVars, pageVars, streamingText, callVars, historyVars, outcome>>

\* startCall has its settings.
CallReads ==
    /\ jobs # <<>> /\ Head0.at = "read" /\ Head0.job[1] = "call"
    /\ \/ Ensure(Rest, Head0.job, "start") /\ UNCHANGED isConnecting
       \/ Finish /\ isConnecting' = FALSE /\ UNCHANGED raced
    /\ surprise' = (surprise \/ call # "none")
    /\ UNCHANGED <<storeVars, pageVars, chatVars, textVars, isCallActive, call, callConv, said,
                   greeting, turned, stale, outcome>>

\* startCall has the history of its conversation: realtime.start
Start ==
    /\ jobs # <<>> /\ Head0.at = "start"
    /\ call' = "connecting" /\ callConv' = Head0.conv
    /\ turned' = (conversationId # Head0.conv)
    /\ Finish
    /\ UNCHANGED <<storeVars, pageVars, chatVars, textVars, isConnecting, isCallActive, said,
                   greeting, surprise, raced, stale, outcome>>

\* db:deleteConversation, of the History page: the chat page does not hear of it.
Delete ==
    /\ jobs # <<>> /\ Head0.at = "delete"
    /\ deleted' = deleted \cup {Head0.conv}
    /\ stored' = [stored EXCEPT ![Head0.conv] = <<>>]
    /\ Finish
    /\ UNCHANGED <<created, pageVars, chatVars, textVars, callVars, historyVars, outcome>>

Answer ==
    \/ Latest \/ Create \/ Add \/ AddRefused \/ Load \/ CallReads \/ Start \/ Delete
    \/ \E hasKey \in BOOLEAN : AskReads(hasKey)

-----------------------------------------------------------------------------
(* The user. *)

\* The page is mounted: loadLatestConversation
Mount ==
    /\ acts = 0
    /\ jobs' = <<Job(<<"latest", 0>>, "latest", None)>>
    /\ UNCHANGED <<storeVars, pageVars, chatVars, textVars, callVars, historyVars, outcome>>

\* handleComposerSubmit: the text chat that is still answering is cancelled.
Submit(s) ==
    /\ outcome[s] = "none" /\ \A u \in Asks : outcome[u] = "none" => s <= u
    /\ Room
    /\ IF textChatCancel = None THEN UNCHANGED <<stream, textChatCancel, textVars>>
       ELSE /\ stream' = [stream EXCEPT ![textChatCancel] = "over"]
            /\ textChatCancel' = None /\ isThinking' = FALSE /\ streamingText' = NoText
    /\ outcome' = [u \in Asks |-> IF u = s THEN "asked"
                                  ELSE IF u = textChatCancel THEN "cancelled" ELSE outcome[u]]
    /\ Ensure(jobs, <<"ask", s>>, "add")
    /\ UNCHANGED <<storeVars, pageVars, streamConv, overlapped, callVars, turned, stale>>

\* startCall, of the button or the shortcut; the greeting's timer looks at the state
\* of the page's first rendering and starts one in any case.
StartCall ==
    /\ ~Pending(<<"call", 0>>) /\ Room
    /\ \/ ~isCallActive /\ ~isConnecting /\ UNCHANGED greeting
       \/ greeting /\ greeting' = FALSE
    /\ isConnecting' = TRUE
    /\ jobs' = Append(jobs, Job(<<"call", 0>>, "read", None))
    /\ UNCHANGED <<storeVars, pageVars, chatVars, textVars, isCallActive, call, callConv, said,
                   surprise, historyVars, outcome>>

\* What the page shows of a call that is over.
CallIsOver ==
    /\ call' = "none" /\ callConv' = None
    /\ isCallActive' = FALSE /\ isConnecting' = FALSE
    /\ isThinking' = FALSE /\ streamingText' = NoText

EndCall ==
    /\ isCallActive
    /\ CallIsOver
    /\ surprise' = Pending(<<"call", 0>>)
    /\ UNCHANGED <<storeVars, pageVars, jobs, chatVars, said, greeting, historyVars, outcome>>

Leave(c) == turned' = (turned \/ (call # "none" /\ c # conversationId))

\* newConversation ends a call that is active, not one that is being set up.
NewConversation ==
    /\ conversationId # None /\ Spare
    /\ IF isCallActive THEN CallIsOver /\ surprise' = Pending(<<"call", 0>>)
       ELSE UNCHANGED <<call, callConv, isCallActive, isConnecting, textVars, surprise>>
    /\ conversationId' = None /\ messages' = <<>>
    /\ stale' = \E i \in At("load") : jobs[i].loads # None
    /\ Leave(None)
    /\ UNCHANGED <<storeVars, jobs, chatVars, said, greeting, raced, outcome>>

\* A conversation is chosen in the History page: loadConversation
Select(c) ==
    /\ Exists(c) /\ ~Pending(<<"select", 0>>)
    /\ conversationId' = c
    /\ jobs' = Append(jobs, [Job(<<"select", 0>>, "load", c) EXCEPT !.loads = c])
    /\ Leave(c)
    /\ raced' = (raced \/ At("create") # {}) /\ stale' = (At("create") # {})
    /\ UNCHANGED <<storeVars, messages, chatVars, textVars, callVars, outcome>>

DeleteInHistory(c) ==
    /\ Exists(c) /\ At("delete") = {}
    /\ jobs' = Append(jobs, Job(<<"delete", 0>>, "delete", c))
    /\ UNCHANGED <<storeVars, pageVars, chatVars, textVars, callVars, historyVars, outcome>>

-----------------------------------------------------------------------------
(* The text chat of a question: streamTextChat and the page's callbacks. *)

Token(s) ==
    /\ Open(s)
    /\ isThinking' = FALSE /\ streamingText' = <<"ask", s>>
    /\ UNCHANGED <<storeVars, pageVars, jobs, chatVars, callVars, historyVars, outcome>>

\* finish('done'): the transcript or the turn is over, or the socket closes; without
\* any text nothing is stored.
ChatDone(s) ==
    /\ Open(s)
    /\ stream' = [stream EXCEPT ![s] = "over"]
    /\ isThinking' = FALSE /\ textChatCancel' = None
    /\ \/ /\ jobs' = Append(jobs, Job(<<"answer", s>>, "add", streamConv[s]))
          /\ UNCHANGED <<streamingText, outcome>>
       \/ /\ streamingText' = NoText /\ outcome' = [outcome EXCEPT ![s] = "answered"]
          /\ UNCHANGED jobs
    /\ UNCHANGED <<storeVars, pageVars, streamConv, overlapped, callVars, historyVars>>

\* finish('error'): the error is stored as the answer.
ChatFails(s) ==
    /\ Open(s)
    /\ stream' = [stream EXCEPT ![s] = "over"]
    /\ isThinking' = FALSE /\ streamingText' = NoText /\ textChatCancel' = None
    /\ jobs' = Append(jobs, Job(<<"answer", s>>, "add", streamConv[s]))
    /\ UNCHANGED <<storeVars, pageVars, streamConv, overlapped, callVars, historyVars, outcome>>

-----------------------------------------------------------------------------
(* The call, as useRealtime reports it. *)

SessionReady ==
    /\ call \in {"connecting", "reconnecting"}
    /\ call' = "connected" /\ isConnecting' = FALSE /\ isCallActive' = TRUE
    /\ UNCHANGED <<storeVars, pageVars, jobs, chatVars, textVars, callConv, said, greeting,
                   surprise, historyVars, outcome>>

ConnectionDrops ==
    /\ call = "connected" /\ call' = "reconnecting"
    /\ UNCHANGED <<storeVars, pageVars, jobs, chatVars, textVars, isConnecting, isCallActive,
                   callConv, said, greeting, surprise, historyVars, outcome>>

\* onDisconnect, and onError, which stops the call.
CallFails ==
    /\ call # "none"
    /\ CallIsOver
    /\ surprise' = Pending(<<"call", 0>>)
    /\ UNCHANGED <<storeVars, pageVars, jobs, chatVars, said, greeting, historyVars, outcome>>

\* onTurnStarted
TurnStarts ==
    /\ call = "connected" /\ textVars # <<FALSE, NoText>>
    /\ isThinking' = FALSE /\ streamingText' = NoText
    /\ UNCHANGED <<storeVars, pageVars, jobs, chatVars, callVars, historyVars, outcome>>

\* onTranscriptDelta
Speaks ==
    /\ call = "connected" /\ said < MaxSaid
    /\ isThinking' = FALSE /\ streamingText' = <<"call", 0>>
    /\ UNCHANGED <<storeVars, pageVars, jobs, chatVars, callVars, historyVars, outcome>>

\* onTranscriptDone, and the end of a Harness turn with its public text.
Says ==
    /\ call = "connected" /\ said < MaxSaid /\ Room
    /\ said' = said + 1
    /\ Ensure(jobs, <<"said", said + 1>>, "add")
    /\ UNCHANGED <<storeVars, pageVars, chatVars, textVars, isConnecting, isCallActive, call,
                   callConv, greeting, surprise, turned, stale, outcome>>

-----------------------------------------------------------------------------
User ==
    \/ StartCall \/ EndCall \/ NewConversation
    \/ \E s \in Asks : Submit(s)
    \/ \E c \in Conversations : Select(c) \/ DeleteInHistory(c)

Others ==
    \/ Answer
    \/ SessionReady \/ ConnectionDrops \/ CallFails \/ TurnStarts \/ Speaks \/ Says
    \/ \E s \in Asks : Token(s) \/ ChatDone(s) \/ ChatFails(s)

Next ==
    \/ acts < MaxActs /\ (IF acts = 0 THEN Mount ELSE User) /\ acts' = acts + 1
    \/ Others /\ UNCHANGED acts

Spec == Init /\ [][Next]_pageStateVars

-----------------------------------------------------------------------------
PageTypeOK ==
    /\ created \in 0..MaxConversations /\ deleted \subseteq Conversations
    /\ conversationId \in 0..created /\ callConv \in 0..created
    /\ textChatCancel \in Asks \cup {None} /\ said \in 0..MaxSaid
    /\ call \in {"none", "connecting", "connected", "reconnecting"}
    /\ stream \in [Asks -> {"none", "open", "over"}]
    /\ \A s \in Asks :
          outcome[s] \in {"none", "asked", "cancelled", "sent", "refused", "answered"}

\* Where a message is stored, as its conversation and its place there.
Places(m) == {p \in Conversations \X (1..MaxAsks * 2 + MaxSaid) :
                 p[2] <= Len(stored[p[1]]) /\ stored[p[1]][p[2]] = m}

\* A question and its answer are stored once, in one conversation, in that order,
\* whatever the page turned to between the two.
AnsweredInPlace ==
    \A s \in Asks :
        /\ Cardinality(Places(<<"ask", s>>)) <= 1 /\ Cardinality(Places(<<"answer", s>>)) <= 1
        /\ \A p \in Places(<<"answer", s>>) : \E q \in Places(<<"ask", s>>) :
              p[1] = q[1] /\ q[2] < p[2]

\* The page thinks only while a text chat is open, and the text it shows is of one, of
\* an answer that is being stored, or of a call.
ThinkingHasChat ==
    /\ isThinking => \E s \in Asks : Open(s)
    /\ \A s \in Asks : streamingText = <<"ask", s>> =>
          Open(s) \/ Pending(<<"answer", s>>) \/ outcome[s] = "refused"
    /\ streamingText[1] = "call" => call # "none"

\* The next question cancels the text chat that is open, unless two were opened side
\* by side.
CancelReachesChat == \A s \in Asks : Open(s) => textChatCancel = s \/ s \in overlapped

\* What is said in a call is stored in the conversation the call was started for,
\* unless the page left that conversation during the call, or one that was being created
\* replaced it.
CallKeepsConversation ==
    call # "none" /\ ~turned /\ ~raced => conversationId = callConv

\* When nothing is under way the page shows what is stored of its conversation, unless
\* that was deleted or an earlier one was still being loaded.
ShowsConversation ==
    jobs = <<>> /\ ~stale /\ conversationId \notin deleted =>
        messages = IF conversationId = None THEN <<>> ELSE stored[conversationId]

\* The page shows every call that is being made, unless one was ended while another
\* was being started.
CallIsShown == call # "none" => isConnecting \/ isCallActive \/ surprise
=============================================================================
