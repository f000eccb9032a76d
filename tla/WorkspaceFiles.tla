--------------------------- MODULE WorkspaceFiles ---------------------------
(***************************************************************************)
(* One file of the workspace, which every session seeds when it starts and *)
(* before it runs commands, and which the model writes and edits with      *)
(* tools.  Nothing orders these calls: each step ends where one awaits the *)
(* file system, and two of them, of one session or of two, interleave.     *)
(*                                                                         *)
(* The file's text is the set of the calls whose text is in it; that of a  *)
(* seed is the default.  An edit adds its text next to the text it         *)
(* replaces.  The checks of the path end a call before it reaches the file *)
(* and are left out, as is the restore of a path that escaped meanwhile.   *)
(***************************************************************************)
EXTENDS Naturals, FiniteSets

CONSTANTS
    Null,
    MaxFileCalls        \* bound: calls

VARIABLES
    op, at,             \* what each call is, and what it waits for
    text,               \* what it read, or what was in the file it opened
    content,            \* the file's, or Null
    crashed,            \* the Relay was restarted once
    overlapped,         \* history: calls that were at the file while another was
    replaced,           \* history: texts a write was to replace
    raced,              \* history: texts lost by calls that overlapped
    spoilt              \* history: texts a failing call or a crash took along

fileCallVars == <<op, at, text, content, crashed, overlapped, replaced, raced, spoilt>>

FileCalls == 1..MaxFileCalls
Default == 0
Texts == FileCalls \cup {Default}
AtFile == {c \in FileCalls : at[c] \in {"looked", "read", "opened"}}

FileTypeOK ==
    /\ op \in [FileCalls -> {"none", "seed", "write", "edit"}]
    /\ at \in [FileCalls -> {"none", "asked", "looked", "read", "opened", "done", "refused", "failed"}]
    /\ text \in [FileCalls -> SUBSET Texts] /\ content \in (SUBSET Texts) \cup {Null}
    /\ crashed \in BOOLEAN
    /\ overlapped \subseteq FileCalls /\ replaced \cup raced \cup spoilt \subseteq Texts

Init ==
    /\ op = [c \in FileCalls |-> "none"] /\ at = [c \in FileCalls |-> "none"]
    /\ text = [c \in FileCalls |-> {}]
    /\ content = Null /\ crashed = FALSE
    /\ overlapped = {} /\ replaced = {} /\ raced = {} /\ spoilt = {}

Starts(c, what) ==
    /\ at[c] = "none" /\ \A o \in FileCalls : o < c => at[o] # "none"
    /\ op' = [op EXCEPT ![c] = what] /\ at' = [at EXCEPT ![c] = "asked"]
    /\ UNCHANGED <<text, content, crashed, overlapped, replaced, raced, spoilt>>

\* The call's next step, which meets the others at the file.
Goes(c, next) ==
    /\ at' = [at EXCEPT ![c] = next]
    /\ overlapped' = IF AtFile \subseteq {c} THEN overlapped ELSE overlapped \cup AtFile \cup {c}

\* Mutant: a seed does not look for the file.
SeedsAlways(c) ==
    /\ op[c] = "seed" /\ at[c] = "asked"
    /\ Goes(c, "looked")
    /\ UNCHANGED <<op, text, content, crashed, replaced, raced, spoilt>>

\* seedIfMissing: a file that is there is left alone, an empty one too.
Looks(c) ==
    /\ op[c] = "seed" /\ at[c] = "asked"
    /\ IF content = Null THEN Goes(c, "looked")
       ELSE at' = [at EXCEPT ![c] = "done"] /\ UNCHANGED overlapped
    /\ UNCHANGED <<op, text, content, crashed, replaced, raced, spoilt>>

\* runEdit reads the file.
Reads(c) ==
    /\ op[c] = "edit" /\ at[c] = "asked" /\ content \notin {Null, {}}
    /\ Goes(c, "read")
    /\ text' = [text EXCEPT ![c] = content]
    /\ UNCHANGED <<op, content, crashed, replaced, raced, spoilt>>

\* There is no file, or the text to replace is not in it, as when another call has
\* just truncated it.
EditRefused(c) ==
    /\ op[c] = "edit" /\ at[c] = "asked"
    /\ at' = [at EXCEPT ![c] = "refused"]
    /\ UNCHANGED <<op, text, content, crashed, overlapped, replaced, raced, spoilt>>

\* What is in the file goes: a write means that, another call has not seen it.
Truncates(c) ==
    LET unseen == IF content = Null THEN {} ELSE content \ text[c] IN
    /\ content' = {}
    /\ replaced' = IF op[c] = "write" THEN replaced \cup unseen ELSE replaced
    /\ raced' = IF op[c] # "write" /\ c \in overlapped' THEN raced \cup unseen ELSE raced

\* Mutant: an edit writes its own text only.
OpensBlank(c) ==
    /\ at[c] = CASE op[c] = "seed" -> "looked" [] op[c] = "edit" -> "read" [] OTHER -> "asked"
    /\ Goes(c, "opened")
    /\ text' = [text EXCEPT ![c] = {}]
    /\ Truncates(c)
    /\ UNCHANGED <<op, crashed, spoilt>>

\* The file is opened for writing, which creates or truncates it.
Opens(c) ==
    /\ at[c] = CASE op[c] = "seed" -> "looked" [] op[c] = "edit" -> "read" [] OTHER -> "asked"
    /\ Goes(c, "opened")
    /\ text' = [text EXCEPT ![c] = IF op[c] = "edit" \/ content = Null THEN @ ELSE content]
    /\ Truncates(c)
    /\ UNCHANGED <<op, crashed, spoilt>>

Written(c) == CASE op[c] = "seed" -> {Default}
                [] op[c] = "write" -> {c}
                [] OTHER -> text[c] \cup {c}

\* The text is written from the file's beginning.  What another call wrote there since
\* the file was opened may be longer, and its end stays.
Fills(c, rest) ==
    /\ at[c] = "opened"
    /\ rest \in {{}, content}
    /\ content' = Written(c) \cup rest
    /\ at' = [at EXCEPT ![c] = "done"]
    /\ raced' = IF c \in overlapped THEN raced \cup (content \ content') ELSE raced
    /\ UNCHANGED <<op, text, crashed, overlapped, replaced, spoilt>>

\* The disk is full: the file stays truncated.
FillFails(c) ==
    /\ at[c] = "opened"
    /\ at' = [at EXCEPT ![c] = "failed"]
    /\ spoilt' = spoilt \cup text[c]
    /\ UNCHANGED <<op, text, content, crashed, overlapped, replaced, raced>>

\* The Relay ends and is started again: its calls are not.
Restart ==
    /\ ~crashed /\ crashed' = TRUE
    /\ at' = [c \in FileCalls |-> IF at[c] \in {"asked", "looked", "read", "opened"} THEN "failed"
                                  ELSE at[c]]
    /\ spoilt' = spoilt \cup UNION {text[c] : c \in {d \in FileCalls : at[d] = "opened"}}
    /\ UNCHANGED <<op, text, content, overlapped, replaced, raced>>

Next ==
    \/ \E c \in FileCalls :
         \/ \E what \in {"seed", "write", "edit"} : Starts(c, what)
         \/ Looks(c) \/ Reads(c) \/ EditRefused(c) \/ Opens(c) \/ FillFails(c)
         \/ \E rest \in SUBSET Texts : Fills(c, rest)
    \/ Restart

Spec == Init /\ [][Next]_fileCallVars

-----------------------------------------------------------------------------
Quiet == \A c \in FileCalls : at[c] # "opened"

\* Between calls the file holds the text of every write and edit that was
\* acknowledged, except in the three ways the code can lose it: a later write was to
\* replace it, a call that overlapped another at the file covered it, or a call had
\* truncated the file and failed, or was cut off by a crash.  Nothing else loses it:
\* no seed, no refused or failed call that did not get that far, and no edit that
\* had the file to itself.
UpdatesKept ==
    Quiet => \A c \in FileCalls \ (replaced \cup raced \cup spoilt) :
                 at[c] = "done" /\ op[c] # "seed" => content # Null /\ c \in content

\* A session that has seeded the file finds text in it, however the calls of others
\* overlapped with it, unless a call that had truncated it failed before: an empty file
\* counts as seeded.
SeededHasText ==
    Quiet => \A c \in FileCalls :
                 at[c] = "done" => content # {} \/ \E o \in FileCalls : at[o] = "failed"
=============================================================================
