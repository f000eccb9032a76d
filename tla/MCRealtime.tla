------------------------------ MODULE MCRealtime ------------------------------
(***************************************************************************)
(* Model checking of the components of a realtime call that share no       *)
(* state: the upstream sessions of Gemini and OpenAI, and the speech to    *)
(* and from a Harness conversation.  A behaviour runs one of them, chosen  *)
(* at first: interleaving them would multiply their states and add no      *)
(* behaviour to any.                                                       *)
(***************************************************************************)
EXTENDS Naturals, Sequences, FiniteSets

CONSTANTS
    Calls, Sockets, NoSocket, MaxAttempts, MaxPendingControl, Contents,
    MaxItems, MaxEvents,
    Attempts, BatchSize, MaxFragments,
    MaxFrames, MaxChunk, MaxCommits, Loudest, Calibration, Endpoint, PreRoll, Onset

ASSUME RealtimeAssumption ==
    /\ IsFiniteSet(Calls) /\ NoSocket \notin Sockets
    /\ MaxAttempts \in Nat \ {0} /\ MaxPendingControl \in Nat
    /\ MaxItems \in Nat /\ MaxEvents \in Nat
    /\ Contents \subseteq {"audio", "end", "input"}

VARIABLES
    part,
    stage, upstream, sock, opening, pendingToolCalls, call, askedOn, excused, handle,
    currentlyResumable, rotateAfterToolCalls, isReconnecting, phase, attempt,
    resumingWithHandle, postResume, pendingControl, misdirected, speaker, watchdog, disconnected, told, cleanly,
    oStage, line, isRotating, isClosing, oldLine, oTold, oCleanly, replaced, isResponseActive,
    pendingResponseCancel, pendingResponseCreate, assistantSpeaking, items, fate, toServer,
    fromServer, oldEvents, response, oExcused, strayed,
    now, written, speechBuffer, sentences, aborted, writer, batch, task, submitted, voice,
    ear, handed, recognized, running, isConnected, audioBuffer, retryAudio, sttTimeout, inTurn,
    commits, spoken, voiced, resent, transcripts, ended

Gemini == INSTANCE GeminiAdapter
OpenAI == INSTANCE OpenAIAdapter WITH
    stage <- oStage, told <- oTold, cleanly <- oCleanly, excused <- oExcused
Speech == INSTANCE SpeechDelivery
Input == INSTANCE SpeechInput

geminiVars == <<stage, upstream, sock, opening, pendingToolCalls, call, askedOn, excused, handle,
    currentlyResumable, rotateAfterToolCalls, isReconnecting, phase, attempt,
    resumingWithHandle, postResume, pendingControl, misdirected, speaker, watchdog, disconnected, told, cleanly>>
openaiVars == <<oStage, line, isRotating, isClosing, oldLine, oTold, oCleanly, replaced,
    isResponseActive, pendingResponseCancel, pendingResponseCreate, assistantSpeaking, items, fate,
    toServer, fromServer, oldEvents, response, oExcused, strayed>>
speechVars == <<now, written, speechBuffer, sentences, aborted, writer, batch, task, submitted,
    voice>>
inputVars == <<ear, handed, recognized, running, isConnected, audioBuffer, retryAudio, sttTimeout,
    inTurn, commits, spoken, voiced, resent, transcripts, ended>>
vars == <<part, geminiVars, openaiVars, speechVars, inputVars>>

Init ==
    /\ part \in {"gemini", "openai", "speech", "input"}
    /\ Gemini!Init /\ OpenAI!Init /\ Speech!Init /\ Input!Init

Next ==
    \/ part = "gemini" /\ Gemini!Next /\ UNCHANGED <<part, openaiVars, speechVars, inputVars>>
    \/ part = "openai" /\ OpenAI!Next /\ UNCHANGED <<part, geminiVars, speechVars, inputVars>>
    \/ part = "speech" /\ Speech!Next /\ UNCHANGED <<part, geminiVars, openaiVars, inputVars>>
    \/ part = "input" /\ Input!Next /\ UNCHANGED <<part, geminiVars, openaiVars, speechVars>>

Spec == Init /\ [][Next]_vars /\ Gemini!Fairness

\* What the client was told last of its connection to Gemini or OpenAI is true, but for
\* the losses that the two adapters do not tell.
LastWordIsTrue == Gemini!LastWordIsTrue /\ OpenAI!LastWordIsTrue

\* The result of a tool reaches the model that waits for it.  With Gemini, what was held
\* back during a rotation, in a queue that stays in its limit, goes to the session that
\* made the call.  With OpenAI, which holds nothing back, a response of the session that
\* was handed an item takes it up as long as that session lasts; only when sessions end
\* or are replaced is an item lost, or handed to one that has not asked for it.
ResultReachesModel ==
    /\ Gemini!GeminiTypeOK /\ OpenAI!OpenAITypeOK
    /\ Gemini!QueueFlushed /\ Gemini!ResponseReachesItsSession /\ Gemini!WatchdogWaits
    /\ OpenAI!ResultSpoken /\ OpenAI!LostOnlyWithSession /\ OpenAI!MicrophoneOpens

\* What the user hears of a Harness conversation is in order, and so is what the Harness
\* hears of the user: all that was said, once, and nothing after the session is over.
SpeechInOrder ==
    /\ Speech!SpeechInOrder
    /\ [](Speech!SpeechTypeOK /\ Input!InputTypeOK)
    /\ [](Input!NoSpeechLost /\ Input!SpokenOnce /\ Input!TranscriptsInOrder)
    /\ Input!SilentAfterDisconnect

\* A rotation the client was told of ends.
RotationEnds == Gemini!RotationEnds
=============================================================================
