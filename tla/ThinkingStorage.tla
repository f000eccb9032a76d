--------------------------- MODULE ThinkingStorage ---------------------------
(***************************************************************************)
(* The archive of private reasoning: appends to one file for each session, *)
(* chained so that they keep their order, the maintenance that every saved *)
(* entry schedules and that compresses the older half of the files, and    *)
(* the deletion of a session's files or of all of them.  Each step ends    *)
(* where the code awaits the file system, which may refuse any request.    *)
(*                                                                         *)
(* Entries are numbered in the order they are appended.  Sizes and ages    *)
(* are left out: whether the directory is too large is a free choice.      *)
(***************************************************************************)
EXTENDS Naturals, Sequences, FiniteSets, SequencesExt

CONSTANTS
    Sessions, Null,
    MaxRequests         \* bound: appends, deletions and wipes together

VARIABLES
    home,               \* the session of each entry
    write,              \* what became of its append
    previous,           \* the append it waits for, or Null
    sessionWrites,      \* the last append of each session, or Null
    directory,          \* the root directory exists
    raw, gz,            \* the session's .jsonl and .jsonl.gz: their entries, or Null
    recent,             \* the sessions with a .jsonl, the one written longest ago first
    pass,               \* the pass of maintenance
    removal,            \* the deletions of sessions, and under Null the wipe
    removals,
    removed,            \* history: entries in files that were deleted
    raced,              \* history: entries a pass may have lost
    unchained,          \* history: entries whose chain a wipe forgot
    gone,               \* history: entries that a finished deletion was to delete
    reborn              \* history: entries a pass wrote again, or a deletion missed

thinkingVars == <<home, write, previous, sessionWrites, directory, raw, gz, recent, pass, removal,
                  removals, removed, raced, unchained, gone, reborn>>
writeVars == <<home, write, previous, sessionWrites>>
fileVars == <<directory, raw, gz, recent>>
historyVars == <<removed, raced, unchained, gone, reborn>>

Entries == 1..MaxRequests
Requests == Cardinality({e \in Entries : write[e] # "none"}) + removals
Running(e) == write[e] \in {"queued", "made"}
Without(q, s) == IF s \in ToSet(q) THEN RemoveAt(q, CHOOSE i \in DOMAIN q : q[i] = s) ELSE q
Lines(file) == IF file = Null THEN {} ELSE ToSet(file)
Idle == [stage |-> "idle", todo |-> <<>>, contents |-> <<>>]
Asked == [stage |-> "none", waits |-> {}, files |-> {}, target |-> {}]

ThinkingTypeOK ==
    /\ home \in [Entries -> Sessions \cup {Null}]
    /\ write \in [Entries -> {"none", "queued", "made", "saved", "failed"}]
    /\ previous \in [Entries -> Entries \cup {Null}]
    /\ sessionWrites \in [Sessions -> Entries \cup {Null}]
    /\ directory \in BOOLEAN
    /\ \A s \in Sessions : {raw[s], gz[s]} \subseteq Seq(Entries) \cup {Null}
    /\ ToSet(recent) = {s \in Sessions : raw[s] # Null}
    /\ pass.stage \in {"idle", "scheduled", "reading", "writing", "unlinking"}
    /\ \A k \in DOMAIN removal : removal[k].stage \in {"none", "waiting", "removing"}

Init ==
    /\ home = [e \in Entries |-> Null] /\ write = [e \in Entries |-> "none"]
    /\ previous = [e \in Entries |-> Null] /\ sessionWrites = [s \in Sessions |-> Null]
    /\ directory = FALSE /\ recent = <<>>
    /\ raw = [s \in Sessions |-> Null] /\ gz = [s \in Sessions |-> Null]
    /\ pass = Idle
    /\ removal = [k \in Sessions \cup {Null} |-> Asked] /\ removals = 0
    /\ removed = {} /\ raced = {} /\ unchained = {} /\ gone = {} /\ reborn = {}

-----------------------------------------------------------------------------
(* append *)

Appends(e, s) ==
    /\ Requests < MaxRequests
    /\ write[e] = "none" /\ \A o \in Entries : o < e => write[o] # "none"
    /\ home' = [home EXCEPT ![e] = s]
    /\ write' = [write EXCEPT ![e] = "queued"]
    /\ previous' = [previous EXCEPT ![e] = sessionWrites[s]]
    /\ sessionWrites' = [sessionWrites EXCEPT ![s] = e]
    /\ UNCHANGED <<fileVars, pass, removal, removals, historyVars>>

\* Mutant: an append does not wait for the one before it.
MakesDirectoryAtOnce(e) ==
    /\ write[e] = "queued"
    /\ write' = [write EXCEPT ![e] = "made"]
    /\ directory' = TRUE
    /\ UNCHANGED <<home, previous, sessionWrites, raw, gz, recent, pass, removal, removals,
                   historyVars>>

\* However the append before it ended, this one goes on.
MakesDirectory(e) ==
    /\ write[e] = "queued"
    /\ previous[e] # Null => ~Running(previous[e])
    /\ write' = [write EXCEPT ![e] = "made"]
    /\ directory' = TRUE
    /\ UNCHANGED <<home, previous, sessionWrites, raw, gz, recent, pass, removal, removals,
                   historyVars>>

\* The append is over: the chain forgets it if it is its last.
Ends(e, outcome) ==
    /\ write' = [write EXCEPT ![e] = outcome]
    /\ sessionWrites' = [s \in Sessions |-> IF sessionWrites[s] = e THEN Null
                                            ELSE sessionWrites[s]]
    /\ previous' = [previous EXCEPT ![e] = Null]
    /\ UNCHANGED home

\* The pass holds what was in the session's file, and will delete the file.
Squeezes(s) == pass.stage \in {"writing", "unlinking"} /\ Head(pass.todo) = s

\* The line is written, in a new file if there is none, and schedules a pass unless
\* one is pending.
Saved(e) ==
    LET s == home[e] IN
    /\ write[e] = "made" /\ directory
    /\ Ends(e, "saved")
    /\ raw' = [raw EXCEPT ![s] = IF @ = Null THEN <<e>> ELSE @ \o <<e>>]
    /\ recent' = Without(recent, s) \o <<s>>
    /\ pass' = IF pass.stage = "idle" THEN [pass EXCEPT !.stage = "scheduled"] ELSE pass
    /\ raced' = IF Squeezes(s) THEN raced \cup {e} ELSE raced
    /\ UNCHANGED <<directory, gz, removal, removals, removed, unchained, gone, reborn>>

\* The file system refuses, or a wipe took the directory away: the entry is given up.
SaveFails(e) ==
    /\ write[e] = "made"
    /\ Ends(e, "failed")
    /\ UNCHANGED <<fileVars, pass, removal, removals, historyVars>>

-----------------------------------------------------------------------------
(* maintain *)

\* Nothing is left to compress.
Continue(todo) == IF todo = <<>> THEN Idle ELSE [Idle EXCEPT !.stage = "reading", !.todo = todo]

\* The files are listed: if they are too large together, the older half of the
\* .jsonl files is to be compressed.
Lists(tooLarge) ==
    /\ pass.stage = "scheduled"
    /\ pass' = Continue(IF tooLarge THEN SubSeq(recent, 1, Len(recent) \div 2) ELSE <<>>)
    /\ UNCHANGED <<writeVars, fileVars, removal, removals, historyVars>>

Reads ==
    /\ pass.stage = "reading" /\ raw[Head(pass.todo)] # Null
    /\ pass' = [pass EXCEPT !.stage = "writing", !.contents = raw[Head(pass.todo)]]
    /\ UNCHANGED <<writeVars, fileVars, removal, removals, historyVars>>

\* The archive of the session is replaced, whatever it held, even if the file that
\* was read is deleted by now.
WritesArchive ==
    LET s == Head(pass.todo) IN
    /\ pass.stage = "writing" /\ directory
    /\ gz' = [gz EXCEPT ![s] = pass.contents]
    /\ pass' = [pass EXCEPT !.stage = "unlinking"]
    /\ raced' = raced \cup Lines(gz[s])
    /\ reborn' = reborn \cup (ToSet(pass.contents) \ Lines(raw[s]))
    /\ UNCHANGED <<writeVars, directory, raw, recent, removal, removals, removed, unchained, gone>>

Unlinks ==
    LET s == Head(pass.todo) IN
    /\ pass.stage = "unlinking" /\ raw[s] # Null
    /\ raw' = [raw EXCEPT ![s] = Null] /\ recent' = Without(recent, s)
    /\ pass' = Continue(Tail(pass.todo))
    /\ UNCHANGED <<writeVars, directory, gz, removal, removals, historyVars>>

\* Mutant: the file is deleted although its archive could not be written.
PassFailsLate ==
    /\ pass.stage # "idle"
    /\ pass' = Idle
    /\ IF pass.stage = "writing"
       THEN /\ raw' = [raw EXCEPT ![Head(pass.todo)] = Null]
            /\ recent' = Without(recent, Head(pass.todo))
       ELSE UNCHANGED <<raw, recent>>
    /\ UNCHANGED <<writeVars, directory, gz, removal, removals, historyVars>>

\* A file is not there any more, or the file system refuses: the pass is given up.
PassFails ==
    /\ pass.stage # "idle"
    /\ pass' = Idle
    /\ UNCHANGED <<writeVars, fileVars, removal, removals, historyVars>>

-----------------------------------------------------------------------------
(* deleteSession and wipe *)

Waits(k, waits, target) ==
    /\ removal[k].stage = "none" /\ Requests < MaxRequests
    /\ removals' = removals + 1
    /\ removal' = [removal EXCEPT ![k] = [stage |-> "waiting", waits |-> waits \ {Null},
                                          files |-> {}, target |-> target]]
    /\ UNCHANGED <<writeVars, fileVars, pass, historyVars>>

\* Mutant: the appends under way are not waited for.
DeletesAtOnce(s) == Waits(s, {}, {e \in Entries : home[e] = s})

DeleteSession(s) == Waits(s, {sessionWrites[s]}, {e \in Entries : home[e] = s})

Wipe == Waits(Null, {sessionWrites[s] : s \in Sessions}, {e \in Entries : home[e] # Null})

Waited(k) ==
    /\ removal[k].stage = "waiting" /\ \A e \in removal[k].waits : ~Running(e)
    /\ removal' = [removal EXCEPT ![k] = [@ EXCEPT !.stage = "removing", !.waits = {},
                                                   !.files = {"raw", "gz"}]]

\* The two files of the session are removed together, in any order.
Removes(s) ==
    /\ Waited(s)
    /\ UNCHANGED <<writeVars, fileVars, pass, removals, historyVars>>

Over(k) == [removal EXCEPT ![k] = Asked]

RemovesFile(s, file) ==
    LET r == removal[s]
        left == r.files \ {file}
        missed == IF file = "raw" /\ "gz" \notin left THEN Lines(gz[s])
                  ELSE IF file = "gz" /\ "raw" \notin left THEN Lines(raw[s]) ELSE {}
    IN
    /\ r.stage = "removing" /\ file \in r.files
    /\ IF file = "raw"
       THEN /\ raw' = [raw EXCEPT ![s] = Null] /\ recent' = Without(recent, s)
            /\ removed' = removed \cup Lines(raw[s]) /\ UNCHANGED gz
       ELSE /\ gz' = [gz EXCEPT ![s] = Null]
            /\ removed' = removed \cup Lines(gz[s]) /\ UNCHANGED <<raw, recent>>
    /\ IF left = {} THEN /\ removal' = Over(s) /\ gone' = gone \cup r.target
                         /\ reborn' = reborn \cup missed
       ELSE removal' = [removal EXCEPT ![s].files = left] /\ UNCHANGED <<gone, reborn>>
    /\ UNCHANGED <<writeVars, directory, pass, removals, raced, unchained>>

\* The chains are forgotten, those of appends made since the wipe began too.
Clears ==
    /\ Waited(Null)
    /\ sessionWrites' = [s \in Sessions |-> Null]
    /\ unchained' = unchained \cup {e \in Entries : Running(e)}
    /\ UNCHANGED <<home, write, previous, fileVars, pass, removals, removed, raced, gone, reborn>>

RemovesDirectory ==
    /\ removal[Null].stage = "removing"
    /\ directory' = FALSE /\ recent' = <<>>
    /\ raw' = [s \in Sessions |-> Null] /\ gz' = [s \in Sessions |-> Null]
    /\ removed' = removed \cup UNION {Lines(raw[s]) \cup Lines(gz[s]) : s \in Sessions}
    /\ removal' = Over(Null) /\ gone' = gone \cup removal[Null].target
    /\ UNCHANGED <<writeVars, pass, removals, raced, unchained, reborn>>

Next ==
    \/ \E e \in Entries : \/ \E s \in Sessions : Appends(e, s)
                          \/ MakesDirectory(e) \/ Saved(e) \/ SaveFails(e)
    \/ \E tooLarge \in BOOLEAN : Lists(tooLarge)
    \/ Reads \/ WritesArchive \/ Unlinks \/ PassFails
    \/ \E s \in Sessions : \/ DeleteSession(s) \/ Removes(s)
                           \/ \E file \in {"raw", "gz"} : RemovesFile(s, file)
    \/ Wipe \/ Clears \/ RemovesDirectory

Spec == Init /\ [][Next]_thinkingVars

-----------------------------------------------------------------------------
Kept(e) == e \in Lines(raw[home[e]]) \cup Lines(gz[home[e]])

\* An entry that was saved is in its session's file or archive until it is deleted,
\* except in the two ways in which the code's maintenance can lose it: it was appended
\* between the pass's readFile and unlink, or it was in an archive that a second
\* compression replaced.  No refused request, no pass given up midway and no wipe
\* that failed loses one.
EntriesKept ==
    \A e \in Entries :
        write[e] = "saved" => Kept(e) \/ e \in removed \cup raced

\* The entries of a session are in its files in the order they were appended, unless
\* a wipe forgot the chain of one that was still waiting.
EntriesInOrder ==
    \A s \in Sessions : \A file \in {raw[s], gz[s]} \ {Null} :
        \A i, j \in 1..Len(file) :
            i < j => file[i] < file[j] \/ file[i] \in unchained \/ file[j] \in unchained

\* Once a session is deleted, or everything wiped, none of the entries appended
\* before that was asked is on disk or still to be written.  The exceptions: a pass
\* that had read the file writes it again, and an append a wipe forgot is not waited
\* for by the next deletion.
DeletedIsGone ==
    \A e \in gone \ (reborn \cup unchained) : ~Kept(e) /\ ~Running(e)
=============================================================================
