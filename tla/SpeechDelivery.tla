--------------------------- MODULE SpeechDelivery ---------------------------
(***************************************************************************)
(* The speech of the turns of one client: HarnessSpeechDelivery            *)
(* (tts-delivery.ts), one for each attempt, all of them speaking through   *)
(* the session's one TTS provider.  The stream router writes the text of   *)
(* an attempt piece by piece and waits for each write; a cancellation      *)
(* aborts the delivery beside it, and the next attempt has a new one while *)
(* the old synthesis may still be streaming.                               *)
(*                                                                         *)
(* Text is a sequence of fragments numbered from 1, of which some end a    *)
(* sentence.  The provider is external: it may stream any number of chunks *)
(* and end or fail at any time.                                            *)
(***************************************************************************)
EXTENDS Naturals, Sequences, SequencesExt

CONSTANTS
    Attempts,        \* 1..n: the attempts of a conversation, one after another
    BatchSize,       \* sentenceBatchSize
    MaxFragments     \* bound: fragments of an attempt

VARIABLES
    now,             \* the attempt that is active
    written,         \* number of fragments written
    speechBuffer,    \* #buffer
    sentences,       \* #sentences
    aborted,         \* #aborted
    writer,          \* what write() or finish() is doing
    batch,           \* the text of the task at the end of #synthesisTail
    task,            \* where that task stands
    submitted,       \* history: the text handed to the provider
    voice            \* history: the attempt that was heard last

speechVars == <<now, written, speechBuffer, sentences, aborted, writer, batch, task, submitted, voice>>

Text == Seq(1..MaxFragments)

SpeechTypeOK ==
    /\ now \in Attempts /\ voice \in Attempts \cup {0}
    /\ written \in [Attempts -> 0..MaxFragments]
    /\ aborted \in [Attempts -> BOOLEAN]
    /\ writer \in [Attempts -> {"idle", "writing", "finishing", "done"}]
    /\ task \in [Attempts -> {"none", "queued", "speaking"}]
    /\ \A a \in Attempts :
          /\ speechBuffer[a] \in Text /\ batch[a] \in Text /\ submitted[a] \in Text
          /\ \A i \in DOMAIN sentences[a] : sentences[a][i] \in Text

Init ==
    /\ now = 1 /\ voice = 0
    /\ written = [a \in Attempts |-> 0]
    /\ aborted = [a \in Attempts |-> FALSE]
    /\ writer = [a \in Attempts |-> "idle"] /\ task = [a \in Attempts |-> "none"]
    /\ speechBuffer = [a \in Attempts |-> <<>>] /\ sentences = [a \in Attempts |-> <<>>]
    /\ batch = [a \in Attempts |-> <<>>] /\ submitted = [a \in Attempts |-> <<>>]

-----------------------------------------------------------------------------
Least(m, n) == IF m <= n THEN m ELSE n

\* sentences.splice(0, batchSize): the text of the next batch, and the rest.
Splice(queue) ==
    LET taken == Least(BatchSize, Len(queue))
    IN <<FlattenSeq(SubSeq(queue, 1, taken)), SubSeq(queue, taken + 1, Len(queue))>>

\* Synthesize batches while at least `least` sentences wait, then be `after`.
\* The writer waits for each batch.
Submit(a, queue, least, during, after) ==
    IF Len(queue) >= least
       THEN /\ batch' = [batch EXCEPT ![a] = Splice(queue)[1]]
            /\ sentences' = [sentences EXCEPT ![a] = Splice(queue)[2]]
            /\ task' = [task EXCEPT ![a] = "queued"]
            /\ writer' = [writer EXCEPT ![a] = during]
       ELSE /\ sentences' = [sentences EXCEPT ![a] = queue]
            /\ writer' = [writer EXCEPT ![a] = after]
            /\ task' = [task EXCEPT ![a] = "none"]
            /\ UNCHANGED batch

\* The sentences that a text with `ends` sentence ends completes.
Completed(a, ends) ==
    [i \in 1..ends |-> IF i = 1 THEN Append(speechBuffer[a], written[a] + 1) ELSE <<written[a] + i>>]

\* write(text): a text with some sentence ends, and perhaps more behind them.
Write(a, ends, more) ==
    LET count == ends + more
    IN /\ a = now /\ writer[a] = "idle" /\ ~aborted[a]
       /\ count > 0 /\ written[a] + count <= MaxFragments
       /\ written' = [written EXCEPT ![a] = @ + count]
       /\ speechBuffer' = [speechBuffer EXCEPT ![a] =
              (IF ends = 0 THEN @ ELSE <<>>) \o (IF more = 0 THEN <<>> ELSE <<written[a] + count>>)]
       /\ Submit(a, sentences[a] \o Completed(a, ends), BatchSize, "writing", "idle")
       /\ UNCHANGED <<now, aborted, submitted, voice>>

\* finish(): the terminal event of the attempt; the trailing text is spoken, too.
Finish(a) ==
    /\ a = now /\ writer[a] = "idle" /\ ~aborted[a]
    /\ speechBuffer' = [speechBuffer EXCEPT ![a] = <<>>]
    /\ Submit(a, IF speechBuffer[a] = <<>> THEN sentences[a] ELSE Append(sentences[a], speechBuffer[a]),
              1, "finishing", "done")
    /\ UNCHANGED <<now, written, aborted, submitted, voice>>

\* abort(): a cancellation that was accepted, which the router allows until the
\* terminal event came.
Abort(a) ==
    /\ a = now /\ writer[a] \in {"idle", "writing"} /\ ~aborted[a]
    /\ aborted' = [aborted EXCEPT ![a] = TRUE]
    /\ speechBuffer' = [speechBuffer EXCEPT ![a] = <<>>]
    /\ sentences' = [sentences EXCEPT ![a] = <<>>]
    /\ UNCHANGED <<now, written, writer, batch, task, submitted, voice>>

\* The task is over: the loop of write() or finish() goes on.
Resume(a) ==
    IF writer[a] = "finishing"
       THEN Submit(a, sentences[a], 1, "finishing", "done")
       ELSE Submit(a, sentences[a], BatchSize, "writing", "idle")

\* #synthesize, behind the tail.
StartSynthesis(a) ==
    /\ task[a] = "queued"
    /\ IF aborted[a]
          THEN Resume(a) /\ UNCHANGED submitted
          ELSE /\ task' = [task EXCEPT ![a] = "speaking"]
               /\ submitted' = [submitted EXCEPT ![a] = @ \o batch[a]]
               /\ UNCHANGED <<sentences, writer, batch>>
    /\ UNCHANGED <<now, written, speechBuffer, aborted, voice>>

\* Mutant: an aborted delivery still forwards what the provider streams.
ChunkUnchecked(a) ==
    /\ task[a] = "speaking"
    /\ voice' = a
    /\ UNCHANGED <<now, written, speechBuffer, aborted, submitted, sentences, writer, batch, task>>

\* A chunk of audio comes; an aborted delivery drops it and stops listening.
Chunk(a) ==
    /\ task[a] = "speaking"
    /\ IF aborted[a]
          THEN Resume(a) /\ UNCHANGED voice
          ELSE voice' = a /\ UNCHANGED <<sentences, writer, batch, task>>
    /\ UNCHANGED <<now, written, speechBuffer, aborted, submitted>>

\* The synthesis ends, or fails, which the Client is told: the text is not
\* spoken again.
SynthesisEnds(a) ==
    /\ task[a] = "speaking"
    /\ Resume(a)
    /\ UNCHANGED <<now, written, speechBuffer, aborted, submitted, voice>>

\* The attempt is complete or cancelled, and the next one is dispatched.
NextAttempt ==
    /\ now + 1 \in Attempts
    /\ aborted[now] \/ writer[now] = "done"
    /\ now' = now + 1
    /\ UNCHANGED <<written, speechBuffer, sentences, aborted, writer, batch, task, submitted, voice>>

Next ==
    \/ NextAttempt
    \/ \E a \in Attempts :
          \/ \E ends \in 0..MaxFragments, more \in 0..1 : Write(a, ends, more)
          \/ Finish(a) \/ Abort(a) \/ StartSynthesis(a) \/ Chunk(a) \/ SynthesisEnds(a)

Spec == Init /\ [][Next]_speechVars

-----------------------------------------------------------------------------
\* What is spoken of an attempt is what was written of it, in order, each
\* fragment once; and all of it when the attempt ended and was not cancelled.
SpokenInOrder ==
    \A a \in Attempts :
        /\ submitted[a] = [i \in 1..Len(submitted[a]) |-> i]
        /\ writer[a] = "done" => Len(submitted[a]) = written[a]

\* The synthesis of a cancelled attempt goes on beside the next attempt, but is
\* never heard over it ("nothing further is submitted", tts-delivery.ts:57).
OneVoice == [][voice' >= voice]_speechVars

\* Both, which is what the listener hears of a conversation.
SpeechInOrder == []SpokenInOrder /\ OneVoice
=============================================================================
