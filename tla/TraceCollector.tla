---------------------------- MODULE TraceCollector ----------------------------
(***************************************************************************)
(* The tracing collector: the spans of one trace reach it from the Relay's *)
(* exporter in batches, in the order they end, and are folded into one row *)
(* for each span, one for each recording a span names, and one for the     *)
(* trace.  A batch whose answer is lost is sent again; one the collector   *)
(* answers with an error is dropped.                                       *)
(*                                                                         *)
(* ingest never awaits, but each of its writes commits by itself: one that *)
(* throws, or a process that dies, leaves the writes before it behind.     *)
(* The exporter is external: it sends one batch at a time.                 *)
(***************************************************************************)
EXTENDS Naturals, Sequences, FiniteSets
LOCAL INSTANCE SequencesExt

CONSTANTS
    Spans, Root,            \* the spans of the trace; the one without a parent
    Tagged,                 \* those that carry session.id
    Recorded,               \* those that carry media.* attributes
    Times,                  \* span -> [start, end]
    Null,
    MaxResends              \* bound: how often batches are sent again

VARIABLES
    failed,                 \* the spans that end with an error status
    ended,                  \* the spans that ended, in order
    sent,                   \* how many of them were taken by the exporter
    batch,                  \* the batch being sent, <<>> when there is none
    resends,
    observations, media, trace,     \* the tables
    ingested,               \* history: spans of the batches ingested as a whole
    acknowledged            \* history: those the exporter was told of

traceVars == <<failed, ended, sent, batch, resends, observations, media, trace, ingested,
               acknowledged>>

Rows == [session: BOOLEAN, name: BOOLEAN, output: BOOLEAN, start: Nat, end: Nat,
         status: {"ok", "error"}]

CollectorTypeOK ==
    /\ failed \subseteq Spans /\ ended \in Seq(Spans) /\ batch \in Seq(Spans)
    /\ sent \in 0..Len(ended) /\ resends \in 0..MaxResends
    /\ observations \subseteq Spans /\ media \subseteq Spans
    /\ trace \in Rows \cup {Null}
    /\ acknowledged \subseteq ingested /\ ingested \subseteq observations

Init ==
    /\ failed \in SUBSET Spans
    /\ ended = <<>> /\ sent = 0 /\ batch = <<>> /\ resends = 0
    /\ observations = {} /\ media = {} /\ trace = Null
    /\ ingested = {} /\ acknowledged = {}

Least(a, b) == IF a < b THEN a ELSE b
Greatest(a, b) == IF a > b THEN a ELSE b

-----------------------------------------------------------------------------
\* What a span says of its trace: the root its name, input and output, and a span
\* that carries it the session.  A field is TRUE when it is not null.
Told(s) ==
    [session |-> s \in Tagged, name |-> s = Root, output |-> s = Root,
     start |-> Times[s].start, end |-> Times[s].end,
     status |-> IF s \in failed THEN "error" ELSE "ok"]

\* tracesTouched: the spans of a batch merged, the first value that is not null and an
\* error winning.
Merged(prev, s) ==
    IF prev = Null THEN Told(s)
    ELSE [session |-> prev.session \/ Told(s).session,
          name    |-> prev.name \/ Told(s).name,
          output  |-> prev.output \/ Told(s).output,
          start   |-> Least(prev.start, Told(s).start),
          end     |-> Greatest(prev.end, Told(s).end),
          status  |-> IF "error" \in {prev.status, Told(s).status} THEN "error" ELSE "ok"]

\* Mutant: the row takes the bounds of the batch that came last.
UpsertLatest(excluded) ==
    IF trace = Null THEN excluded
    ELSE [excluded EXCEPT !.session = @ \/ trace.session, !.name = @ \/ trace.name,
                          !.output = @ \/ trace.output]

\* upsertTrace: MIN and MAX for the bounds, COALESCE(excluded, traces) for the rest;
\* the status of a batch is never null.
UpsertTrace(excluded) ==
    IF trace = Null THEN excluded
    ELSE [session |-> excluded.session \/ trace.session,
          name    |-> excluded.name \/ trace.name,
          output  |-> excluded.output \/ trace.output,
          start   |-> Least(excluded.start, trace.start),
          end     |-> Greatest(excluded.end, trace.end),
          status  |-> excluded.status]

\* upsertObservation and upsertMedia: one row for each span, and for each span and
\* kind of recording, however often they come.
Stored(spans, recordings) ==
    /\ observations' = observations \cup spans
    /\ media' = media \cup (recordings \cap Recorded)

-----------------------------------------------------------------------------
SpanEnds(s) ==
    /\ s \notin ToSet(ended)
    /\ ended' = Append(ended, s)
    /\ UNCHANGED <<failed, sent, batch, resends, observations, media, trace, ingested,
                   acknowledged>>

Export ==
    /\ batch = <<>> /\ sent < Len(ended)
    /\ \E k \in sent + 1..Len(ended) :
          batch' = SubSeq(ended, sent + 1, k) /\ sent' = k
    /\ UNCHANGED <<failed, ended, resends, observations, media, trace, ingested, acknowledged>>

\* The exporter hears an answer and goes on, or hears none and sends the batch again.
Answered == batch' = <<>> /\ UNCHANGED resends
Resend == resends < MaxResends /\ resends' = resends + 1 /\ UNCHANGED batch

\* ingest, answered with 200; the answer may be lost.
Ingest ==
    /\ batch # <<>>
    /\ Stored(ToSet(batch), ToSet(batch))
    /\ trace' = UpsertTrace(FoldLeft(Merged, Null, batch))
    /\ ingested' = ingested \cup ToSet(batch)
    /\ \/ Answered /\ acknowledged' = acknowledged \cup ToSet(batch)
       \/ Resend /\ UNCHANGED acknowledged
    /\ UNCHANGED <<failed, ended, sent>>

\* A write throws, answered with 500, or the collector dies: some spans are stored,
\* and the trace is not.
IngestFails ==
    /\ batch # <<>>
    /\ \E k \in 0..Len(batch) : \E r \in {k, k - 1} :
          Stored(ToSet(SubSeq(batch, 1, k)), ToSet(SubSeq(batch, 1, r)))
    /\ Answered \/ Resend
    /\ UNCHANGED <<failed, ended, sent, trace, ingested, acknowledged>>

Next == Export \/ Ingest \/ IngestFails \/ \E s \in Spans : SpanEnds(s)

Spec == Init /\ [][Next]_traceVars

-----------------------------------------------------------------------------
Bounds(spans) ==
    [start |-> CHOOSE t \in {Times[s].start : s \in spans} :
                   \A s \in spans : t <= Times[s].start,
     end   |-> CHOOSE t \in {Times[s].end : s \in spans} :
                   \A s \in spans : t >= Times[s].end]

\* However its spans were cut into batches, reordered and sent twice, and whatever
\* batches failed between them, the row of a trace says what the spans that were
\* ingested say together, and nothing the exporter was told is stored is missing.
\* The status is that of the last batch, although "once any span in the trace is an
\* error the trace is tagged error" (otlp.ts:139-140).
TraceIsWhole ==
    /\ (trace = Null) <=> (ingested = {})
    /\ ingested # {} =>
          /\ trace.start = Bounds(ingested).start /\ trace.end = Bounds(ingested).end
          /\ trace.name <=> Root \in ingested
          /\ trace.output <=> Root \in ingested
          /\ trace.session <=> ingested \cap Tagged # {}
          /\ trace.status = "error" => ingested \cap failed # {}
    /\ ingested \subseteq observations
    /\ ingested \cap Recorded \subseteq media
    /\ media \subseteq observations \cap Recorded
=============================================================================
