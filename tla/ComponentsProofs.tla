-------------------------- MODULE ComponentsProofs --------------------------
(***************************************************************************)
(* What the run `components' checks of the files of the Relay, proved for  *)
(* every number of calls, sessions and requests: that the workspace file   *)
(* and the archive of private reasoning lose what was acknowledged, or     *)
(* hold what was deleted, in no other way than those the modules name.     *)
(***************************************************************************)
EXTENDS MCComponents, FiniteSetTheorems, TLAPS

-----------------------------------------------------------------------------
(***************************************************************************)
(* A file of the workspace.                                                *)
(***************************************************************************)

\* A call knows nothing of the file before it is at it, and finds one once it was there.
SeenInv ==
    \A c \in Workspace!FileCalls :
        /\ at[c] \in {"none", "asked", "looked"} => text[c] = {}
        /\ at[c] \in {"read", "opened", "done"} => content # Null
        /\ fileOp[c] = "none" => at[c] = "none"

\* A call that met no other at the file finds the file as it left it.
AloneInv ==
    \A c \in Workspace!AtFile :
        \/ c \in met
        \/ /\ Workspace!AtFile = {c}
           /\ content = CASE at[c] = "looked" -> Null [] at[c] = "read" -> text[c] [] OTHER -> {}

\* A text that was acknowledged and has no excuse is in the file, or in the hands of an
\* edit that has truncated it.
HeldInv ==
    \A c \in Workspace!FileCalls \ (replaced \cup mixed \cup spoilt) :
        at[c] = "done" /\ fileOp[c] # "seed" =>
            \/ c \in content
            \/ \E d \in Workspace!FileCalls :
                  at[d] = "opened" /\ fileOp[d] = "edit" /\ c \in text[d]

\* An empty file was truncated by a call that is to fill it, or failed to.
EmptyInv == content = {} => \E c \in Workspace!FileCalls : at[c] \in {"opened", "failed"}

FileInv == Workspace!FileTypeOK /\ SeenInv /\ AloneInv /\ HeldInv /\ EmptyInv

LEMMA NullIsNoText == \A T \in SUBSET Workspace!Texts : T # Null
<1>1. Workspace!Texts = 0..MaxFileCalls
  BY ComponentsAssumption DEF Workspace!Texts, Workspace!FileCalls, Workspace!Default
<1> QED
  BY <1>1, ComponentsAssumption

LEMMA FileImplied ==
    FileInv => Workspace!FileTypeOK /\ Workspace!UpdatesKept /\ Workspace!SeededHasText
<1> SUFFICES ASSUME FileInv PROVE Workspace!UpdatesKept /\ Workspace!SeededHasText
  BY DEF FileInv
<1>1. Workspace!UpdatesKept
  BY DEF FileInv, SeenInv, HeldInv, Workspace!UpdatesKept, Workspace!Quiet
<1>2. Workspace!SeededHasText
  BY DEF FileInv, EmptyInv, Workspace!SeededHasText, Workspace!Quiet
<1> QED
  BY <1>1, <1>2

LEMMA InitFile == Workspace!Init => FileInv
<1> SUFFICES ASSUME Workspace!Init PROVE FileInv
  OBVIOUS
<1>1. Workspace!FileTypeOK
  BY DEF Workspace!Init, Workspace!FileTypeOK
<1>2. SeenInv /\ AloneInv /\ HeldInv
  BY DEF Workspace!Init, SeenInv, AloneInv, HeldInv, Workspace!AtFile
<1>3. EmptyInv
  BY NullIsNoText DEF Workspace!Init, EmptyInv
<1> QED
  BY <1>1, <1>2, <1>3 DEF FileInv

\* A call that is asked for, or is over before it is at the file, changes nothing there.
LEMMA FarKeeps ==
    ASSUME FileInv, NEW c \in Workspace!FileCalls, NEW stage \in {"asked", "done", "refused"},
           at[c] = (IF stage = "asked" THEN "none" ELSE "asked"), at' = [at EXCEPT ![c] = stage],
           stage = "done" => content # Null /\ fileOp[c] = "seed",
           fileOp' \in [Workspace!FileCalls -> {"none", "seed", "write", "edit"}],
           \A d \in Workspace!FileCalls \ {c} : fileOp'[d] = fileOp[d],
           fileOp'[c] # "none", stage # "asked" => fileOp' = fileOp,
           UNCHANGED <<text, content, crashed, met, replaced, mixed, spoilt>>
    PROVE  FileInv'
<1>1. Workspace!FileTypeOK'
  BY DEF FileInv, Workspace!FileTypeOK
<1>2. at'[c] = stage /\ \A d \in Workspace!FileCalls \ {c} : at'[d] = at[d]
  BY DEF FileInv, Workspace!FileTypeOK
<1>a. Workspace!AtFile' = Workspace!AtFile
  BY <1>2 DEF Workspace!AtFile
<1>3. SeenInv'
  BY <1>2 DEF FileInv, SeenInv
<1>4. AloneInv'
  BY <1>2, <1>a DEF FileInv, AloneInv, Workspace!AtFile
<1>5. HeldInv'
  BY <1>2 DEF FileInv, HeldInv
<1>6. EmptyInv'
  BY <1>2 DEF FileInv, EmptyInv
<1> QED
  BY <1>1, <1>3, <1>4, <1>5, <1>6 DEF FileInv

\* A call that comes to the file, or reads it.
LEMMA ComesKeeps ==
    ASSUME FileInv, NEW c \in Workspace!FileCalls, NEW stage \in {"looked", "read"},
           at[c] = "asked", Workspace!Goes(c, stage),
           stage = "looked" => content = Null /\ text' = text,
           stage = "read" => content # Null /\ text' = [text EXCEPT ![c] = content],
           UNCHANGED <<fileOp, content, crashed, replaced, mixed, spoilt>>
    PROVE  FileInv'
<1>1. Workspace!FileTypeOK'
  BY DEF FileInv, Workspace!FileTypeOK, Workspace!Goes, Workspace!AtFile
<1>2. /\ Workspace!AtFile' = Workspace!AtFile \cup {c}
      /\ \A d \in Workspace!FileCalls \ {c} : at'[d] = at[d] /\ text'[d] = text[d]
      /\ at'[c] = stage /\ (stage = "read" => text'[c] = content)
  BY DEF FileInv, Workspace!FileTypeOK, Workspace!AtFile, Workspace!Goes
<1>3. SeenInv'
  BY <1>2 DEF FileInv, SeenInv
<1>4. AloneInv'
  <2>1. CASE Workspace!AtFile = {}
    BY <1>2, <2>1 DEF FileInv, AloneInv
  <2>2. CASE Workspace!AtFile # {}
    <3>1. c \notin Workspace!AtFile
      BY DEF Workspace!AtFile
    <3>2. Workspace!AtFile' \subseteq met'
      BY <1>2, <2>2, <3>1 DEF Workspace!Goes
    <3> QED
      BY <3>2 DEF AloneInv
  <2> QED
    BY <2>1, <2>2
<1>5. HeldInv'
  BY <1>2 DEF FileInv, HeldInv
<1>6. EmptyInv'
  BY <1>2 DEF FileInv, EmptyInv
<1> QED
  BY <1>1, <1>3, <1>4, <1>5, <1>6 DEF FileInv

\* What a call truncates it holds, is to replace, or takes from one it met.
LEMMA OpensKeeps ==
    ASSUME FileInv, NEW c \in Workspace!FileCalls, Workspace!Opens(c)
    PROVE  FileInv'
<1>1. /\ at[c] = CASE fileOp[c] = "seed" -> "looked" [] fileOp[c] = "edit" -> "read"
                   [] OTHER -> "asked"
      /\ at' = [at EXCEPT ![c] = "opened"] /\ content' = {}
      /\ UNCHANGED <<fileOp, crashed, spoilt>>
      /\ met \subseteq met' /\ replaced \subseteq replaced' /\ mixed \subseteq mixed'
  BY DEF Workspace!Opens, Workspace!Goes, Workspace!Truncates
<1>2. /\ \A d \in Workspace!FileCalls \ {c} : at'[d] = at[d] /\ text'[d] = text[d]
      /\ at'[c] = "opened" /\ Workspace!AtFile' = Workspace!AtFile \cup {c}
      /\ text'[c] = IF fileOp[c] = "edit" \/ content = Null THEN text[c] ELSE content
  BY <1>1 DEF FileInv, Workspace!FileTypeOK, Workspace!AtFile, Workspace!Opens
<1>3. content # Null => content \in SUBSET Workspace!Texts
  BY DEF FileInv, Workspace!FileTypeOK
<1>4. Workspace!FileTypeOK'
  <2>1. /\ at' \in [Workspace!FileCalls ->
               {"none", "asked", "looked", "read", "opened", "done", "refused", "failed"}]
        /\ met' \subseteq Workspace!FileCalls
    BY <1>1 DEF FileInv, Workspace!FileTypeOK, Workspace!Opens, Workspace!Goes, Workspace!AtFile
  <2>2. /\ text' \in [Workspace!FileCalls -> SUBSET Workspace!Texts]
        /\ replaced' \cup mixed' \subseteq Workspace!Texts
    BY <1>1, <1>3 DEF FileInv, Workspace!FileTypeOK, Workspace!Opens, Workspace!Truncates
  <2> QED
    BY <1>1, <2>1, <2>2 DEF FileInv, Workspace!FileTypeOK
<1>5. {} # Null
  BY NullIsNoText
<1>6. SeenInv'
  BY <1>1, <1>2, <1>5 DEF FileInv, SeenInv
<1>7. AloneInv'
  <2>1. CASE Workspace!AtFile \subseteq {c}
    BY <1>1, <1>2, <2>1 DEF AloneInv, Workspace!AtFile
  <2>2. CASE ~(Workspace!AtFile \subseteq {c})
    BY <1>2, <2>2 DEF AloneInv, Workspace!Opens, Workspace!Goes
  <2> QED
    BY <2>1, <2>2
<1>8. HeldInv'
  <2> SUFFICES ASSUME NEW d \in Workspace!FileCalls, at'[d] = "done", fileOp'[d] # "seed",
                      d \notin replaced' \cup mixed' \cup spoilt'
               PROVE  \E e \in Workspace!FileCalls :
                          at'[e] = "opened" /\ fileOp'[e] = "edit" /\ d \in text'[e]
    BY DEF HeldInv
  <2>1. d # c /\ at[d] = "done" /\ d \notin replaced \cup mixed \cup spoilt
    BY <1>1, <1>2
  <2>2. content # Null
    BY <2>1 DEF FileInv, SeenInv
  <2>3. CASE d \in content
    <3>1. d \in text[c] \/ d \in replaced' \cup mixed' \/ (fileOp[c] # "write" /\ c \notin met')
      BY <2>2, <2>3 DEF Workspace!Opens, Workspace!Truncates
    <3>2. CASE d \in text[c]
      BY <1>1, <1>2, <3>2 DEF FileInv, SeenInv
    <3>3. CASE fileOp[c] # "write" /\ c \notin met'
      <4>1. c \notin met
        BY <1>1, <3>3
      <4>2. CASE at[c] \in {"looked", "read"}
        <5>1. c \in Workspace!AtFile
          BY <4>2 DEF Workspace!AtFile
        <5>2. content = CASE at[c] = "looked" -> Null [] at[c] = "read" -> text[c] [] OTHER -> {}
          BY <4>1, <5>1 DEF FileInv, AloneInv
        <5>3. d \in text[c]
          BY <2>2, <2>3, <4>2, <5>2
        <5> QED
          BY <3>2, <5>3
      <4>3. CASE at[c] = "asked"
        <5>1. fileOp[c] = "none"
          BY <1>1, <3>3, <4>3 DEF FileInv, Workspace!FileTypeOK
        <5> QED
          BY <4>3, <5>1 DEF FileInv, SeenInv
      <4> QED
        BY <1>1, <4>2, <4>3
    <3> QED
      BY <2>1, <3>1, <3>2, <3>3
  <2>4. CASE d \notin content
    <3>1. PICK e \in Workspace!FileCalls :
              at[e] = "opened" /\ fileOp[e] = "edit" /\ d \in text[e]
      BY <1>1, <2>1, <2>4 DEF FileInv, HeldInv
    <3>2. e # c
      BY <1>1, <3>1
    <3> QED
      BY <1>1, <1>2, <3>1, <3>2
  <2> QED
    BY <2>3, <2>4
<1>9. EmptyInv'
  BY <1>2 DEF EmptyInv
<1> QED
  BY <1>4, <1>6, <1>7, <1>8, <1>9 DEF FileInv

\* A call that fills the file leaves in it what it took, and what it covers it had met.
LEMMA FillsKeeps ==
    ASSUME FileInv, NEW c \in Workspace!FileCalls, NEW rest, Workspace!Fills(c, rest)
    PROVE  FileInv'
<1>1. /\ at[c] = "opened" /\ at' = [at EXCEPT ![c] = "done"]
      /\ content' = Workspace!Written(c) \cup rest /\ rest \in {{}, content}
      /\ mixed' = IF c \in met THEN mixed \cup (content \ content') ELSE mixed
      /\ UNCHANGED <<fileOp, text, crashed, met, replaced, spoilt>>
  BY DEF Workspace!Fills
<1>2. /\ at'[c] = "done" /\ \A d \in Workspace!FileCalls \ {c} : at'[d] = at[d]
      /\ c \in Workspace!AtFile /\ Workspace!AtFile' = Workspace!AtFile \ {c}
  BY <1>1 DEF FileInv, Workspace!FileTypeOK, Workspace!AtFile
<1>3. content # Null /\ content \in SUBSET Workspace!Texts
  BY <1>1 DEF FileInv, SeenInv, Workspace!FileTypeOK
<1>4. Workspace!Written(c) \in SUBSET Workspace!Texts /\ Workspace!Written(c) # {}
  BY DEF FileInv, Workspace!FileTypeOK, Workspace!Written, Workspace!Texts, Workspace!Default
<1>5. content' \in SUBSET Workspace!Texts /\ content' # {}
  BY <1>1, <1>3, <1>4
<1>6. content' # Null
  BY <1>5, NullIsNoText
<1>7. Workspace!FileTypeOK'
  BY <1>1, <1>3, <1>5 DEF FileInv, Workspace!FileTypeOK
<1>8. SeenInv'
  BY <1>1, <1>2, <1>6 DEF FileInv, SeenInv
<1>9. AloneInv'
  <2> SUFFICES ASSUME NEW d \in Workspace!AtFile', d \notin met'
               PROVE  FALSE
    BY DEF AloneInv
  <2>1. d \in Workspace!AtFile /\ d # c /\ d \notin met
    BY <1>1, <1>2
  <2>2. Workspace!AtFile = {d}
    BY <2>1 DEF FileInv, AloneInv
  <2> QED
    BY <1>2, <2>1, <2>2
<1>10. HeldInv'
  <2> SUFFICES ASSUME NEW d \in Workspace!FileCalls, at'[d] = "done", fileOp'[d] # "seed",
                      d \notin replaced' \cup mixed' \cup spoilt', d \notin content'
               PROVE  \E e \in Workspace!FileCalls :
                          at'[e] = "opened" /\ fileOp'[e] = "edit" /\ d \in text'[e]
    BY DEF HeldInv
  <2>1. d # c
    BY <1>1 DEF Workspace!Written, FileInv, Workspace!FileTypeOK
  <2>2. at[d] = "done" /\ fileOp[d] # "seed" /\ d \notin replaced \cup mixed \cup spoilt
    BY <1>1, <1>2, <2>1
  <2>3. d \notin content
    <3>1. CASE c \in met
      BY <1>1, <3>1
    <3>2. CASE c \notin met
      <4>1. content = {}
        BY <1>1, <1>2, <3>2 DEF FileInv, AloneInv
      <4> QED
        BY <4>1
    <3> QED
      BY <3>1, <3>2
  <2>4. PICK e \in Workspace!FileCalls :
            at[e] = "opened" /\ fileOp[e] = "edit" /\ d \in text[e]
    BY <2>2, <2>3 DEF FileInv, HeldInv
  <2>5. e # c
    BY <1>1, <2>4 DEF Workspace!Written
  <2> QED
    BY <1>1, <1>2, <2>4, <2>5
<1>11. EmptyInv'
  BY <1>5 DEF EmptyInv
<1> QED
  BY <1>7, <1>8, <1>9, <1>10, <1>11 DEF FileInv

\* What a call that fails had taken has its excuse.
LEMMA FillFailsKeeps ==
    ASSUME FileInv, NEW c \in Workspace!FileCalls, Workspace!FillFails(c)
    PROVE  FileInv'
<1>1. /\ at[c] = "opened" /\ at' = [at EXCEPT ![c] = "failed"]
      /\ spoilt' = spoilt \cup text[c]
      /\ UNCHANGED <<fileOp, text, content, crashed, met, replaced, mixed>>
  BY DEF Workspace!FillFails
<1>2. /\ at'[c] = "failed" /\ \A d \in Workspace!FileCalls \ {c} : at'[d] = at[d]
      /\ c \in Workspace!AtFile /\ Workspace!AtFile' = Workspace!AtFile \ {c}
  BY <1>1 DEF FileInv, Workspace!FileTypeOK, Workspace!AtFile
<1>3. Workspace!FileTypeOK'
  BY <1>1 DEF FileInv, Workspace!FileTypeOK
<1>4. SeenInv'
  BY <1>1, <1>2 DEF FileInv, SeenInv
<1>5. AloneInv'
  <2> SUFFICES ASSUME NEW d \in Workspace!AtFile', d \notin met'
               PROVE  FALSE
    BY DEF AloneInv
  <2>1. d \in Workspace!AtFile /\ d # c /\ d \notin met
    BY <1>1, <1>2
  <2>2. Workspace!AtFile = {d}
    BY <2>1 DEF FileInv, AloneInv
  <2> QED
    BY <1>2, <2>1, <2>2
<1>6. HeldInv'
  BY <1>1, <1>2 DEF FileInv, HeldInv
<1>7. EmptyInv'
  BY <1>1, <1>2 DEF FileInv, EmptyInv
<1> QED
  BY <1>3, <1>4, <1>5, <1>6, <1>7 DEF FileInv

LEMMA RestartKeeps == FileInv /\ Workspace!Restart => FileInv'
<1> SUFFICES ASSUME FileInv, Workspace!Restart PROVE FileInv'
  OBVIOUS
<1>1. /\ at' = [c \in Workspace!FileCalls |->
                   IF at[c] \in {"asked", "looked", "read", "opened"} THEN "failed" ELSE at[c]]
      /\ crashed' = TRUE
      /\ spoilt' = spoilt \cup UNION {text[c] : c \in {d \in Workspace!FileCalls : at[d] = "opened"}}
      /\ UNCHANGED <<fileOp, text, content, met, replaced, mixed>>
  BY DEF Workspace!Restart
<1>2. Workspace!FileTypeOK'
  <2>1. spoilt' \subseteq Workspace!Texts
    BY <1>1 DEF FileInv, Workspace!FileTypeOK
  <2> QED
    BY <1>1, <2>1 DEF FileInv, Workspace!FileTypeOK
<1>3. SeenInv'
  BY <1>1 DEF FileInv, SeenInv
<1>4. AloneInv'
  BY <1>1 DEF AloneInv, Workspace!AtFile
<1>5. HeldInv'
  <2> SUFFICES ASSUME NEW d \in Workspace!FileCalls, at'[d] = "done", fileOp'[d] # "seed",
                      d \notin replaced' \cup mixed' \cup spoilt'
               PROVE  d \in content'
    BY DEF HeldInv
  <2>1. at[d] = "done" /\ fileOp[d] # "seed" /\ d \notin replaced \cup mixed \cup spoilt
    BY <1>1
  <2>2. \A e \in Workspace!FileCalls : at[e] = "opened" => d \notin text[e]
    BY <1>1
  <2> QED
    BY <1>1, <2>1, <2>2 DEF FileInv, HeldInv
<1>6. EmptyInv'
  BY <1>1 DEF FileInv, EmptyInv
<1> QED
  BY <1>2, <1>3, <1>4, <1>5, <1>6 DEF FileInv

\* Every step of the workspace keeps the invariant of its file.
LEMMA FileStep == FileInv /\ Workspace!Next => FileInv'
<1> SUFFICES ASSUME FileInv, Workspace!Next PROVE FileInv'
  OBVIOUS
<1>1. ASSUME NEW c \in Workspace!FileCalls, NEW what \in {"seed", "write", "edit"},
             Workspace!Starts(c, what)
      PROVE  FileInv'
  <2>1. fileOp' = [fileOp EXCEPT ![c] = what]
    BY <1>1 DEF Workspace!Starts
  <2>2. /\ fileOp' \in [Workspace!FileCalls -> {"none", "seed", "write", "edit"}]
        /\ fileOp'[c] # "none" /\ \A d \in Workspace!FileCalls \ {c} : fileOp'[d] = fileOp[d]
    BY <2>1 DEF FileInv, Workspace!FileTypeOK
  <2> QED
    BY <1>1, <2>2, FarKeeps DEF Workspace!Starts
<1>2. ASSUME NEW c \in Workspace!FileCalls, Workspace!Looks(c)
      PROVE  FileInv'
  <2>1. CASE content = Null
    <3>1. Workspace!Goes(c, "looked")
      BY <1>2, <2>1 DEF Workspace!Looks
    <3> QED
      BY <1>2, <2>1, <3>1, ComesKeeps DEF Workspace!Looks
  <2>2. CASE content # Null
    <3>1. /\ at' = [at EXCEPT ![c] = "done"] /\ met' = met
          /\ fileOp' \in [Workspace!FileCalls -> {"none", "seed", "write", "edit"}]
          /\ fileOp'[c] # "none"
      BY <1>2, <2>2 DEF Workspace!Looks, FileInv, SeenInv, Workspace!FileTypeOK
    <3> QED
      BY <1>2, <2>2, <3>1, FarKeeps DEF Workspace!Looks
  <2> QED
    BY <2>1, <2>2
<1>3. ASSUME NEW c \in Workspace!FileCalls, Workspace!Reads(c)
      PROVE  FileInv'
  BY <1>3, ComesKeeps DEF Workspace!Reads
<1>4. ASSUME NEW c \in Workspace!FileCalls, Workspace!EditRefused(c)
      PROVE  FileInv'
  <2>1. /\ fileOp' \in [Workspace!FileCalls -> {"none", "seed", "write", "edit"}]
        /\ fileOp'[c] # "none"
    BY <1>4 DEF Workspace!EditRefused, FileInv, SeenInv, Workspace!FileTypeOK
  <2> QED
    BY <1>4, <2>1, FarKeeps DEF Workspace!EditRefused
<1> QED
  BY <1>1, <1>2, <1>3, <1>4, OpensKeeps, FillsKeeps, FillFailsKeeps, RestartKeeps
  DEF Workspace!Next

-----------------------------------------------------------------------------
(***************************************************************************)
(* The archive of private reasoning.                                       *)
(***************************************************************************)
ThinkingTypes ==
    /\ home \in [Thinking!Entries -> Sessions \cup {Null}]
    /\ write \in [Thinking!Entries -> {"none", "queued", "made", "saved", "failed"}]
    /\ previous \in [Thinking!Entries -> Thinking!Entries \cup {Null}]
    /\ sessionWrites \in [Sessions -> Thinking!Entries \cup {Null}]
    /\ directory \in BOOLEAN
    /\ raw \in [Sessions -> Seq(Thinking!Entries) \cup {Null}]
    /\ gz \in [Sessions -> Seq(Thinking!Entries) \cup {Null}]
    /\ recent \in Seq(Sessions) /\ \A i, j \in DOMAIN recent : recent[i] = recent[j] => i = j
    /\ {recent[i] : i \in DOMAIN recent} = {s \in Sessions : raw[s] # Null}
    /\ pass \in [stage : {"idle", "scheduled", "reading", "writing", "unlinking"},
                 todo : Seq(Sessions), contents : Seq(Thinking!Entries)]
    /\ pass.stage \in {"reading", "writing", "unlinking"} => pass.todo # <<>>
    /\ removal \in [Sessions \cup {Null} ->
                       [stage : {"none", "waiting", "removing"}, waits : SUBSET Thinking!Entries,
                        files : SUBSET {"raw", "gz"}, target : SUBSET Thinking!Entries]]

\* Appends are begun in order, each for a session.
BegunInv ==
    /\ \A e \in Thinking!Entries : home[e] = Null <=> write[e] = "none"
    /\ \A e, f \in Thinking!Entries : e < f /\ write[e] = "none" => write[f] = "none"
    /\ \A e \in unchained : e \in Thinking!Entries /\ write[e] # "none"

\* The entries in a file, and in what a pass has read, are saved ones of its session, in order.
GoodFile(file, s, w, h, free) ==
    /\ \A e \in Thinking!Lines(file) : w[e] = "saved" /\ h[e] = s
    /\ file # Null => \A i, j \in 1..Len(file) :
          i < j => file[i] < file[j] \/ file[i] \in free \/ file[j] \in free

LinesInv ==
    /\ \A s \in Sessions : /\ GoodFile(raw[s], s, write, home, unchained)
                           /\ GoodFile(gz[s], s, write, home, unchained)
    /\ pass.stage = "writing" =>
          GoodFile(pass.contents, Head(pass.todo), write, home, unchained)

\* What a pass is to delete is in its archive, or has its excuse.
PassInv ==
    LET s == Head(pass.todo) IN
    /\ pass.stage = "writing" => Thinking!Lines(raw[s]) \subseteq Thinking!Lines(pass.contents) \cup squeezed
    /\ pass.stage = "unlinking" =>
          Thinking!Lines(raw[s]) \subseteq Thinking!Lines(gz[s]) \cup squeezed \cup removed

\* An append of a chain is under way only behind the earlier ones that are, and waits for the
\* last of them.
Chained(e) == Thinking!Running(e) /\ e \notin unchained

ChainInv ==
    \A e, f \in Thinking!Entries :
        e < f /\ home[e] = home[f] /\ Chained(e) /\ f \notin unchained =>
            \/ write[f] = "none"
            \/ /\ write[f] = "queued" /\ previous[f] \in Thinking!Entries
               /\ e <= previous[f] /\ previous[f] < f
               /\ Chained(previous[f]) /\ home[previous[f]] = home[f]

LastInv ==
    /\ \A s \in Sessions : sessionWrites[s] # Null =>
          Chained(sessionWrites[s]) /\ home[sessionWrites[s]] = s
    /\ \A e \in Thinking!Entries : Chained(e) =>
          sessionWrites[home[e]] # Null /\ e <= sessionWrites[home[e]]

\* What a deletion is to delete is over, or waited for.
RemovalInv ==
    \A k \in Sessions \cup {Null} : \A e \in removal[k].target :
        /\ write[e] # "none"
        /\ removal[k].stage = "removing" => ~Chained(e)
        /\ removal[k].stage = "waiting" /\ Chained(e) =>
              \E w \in removal[k].waits : Chained(w) /\ home[w] = home[e] /\ e <= w

\* What a deletion of a session is after is of the session.
TargetInv == \A s \in Sessions : \A e \in removal[s].target : home[e] = s

GoneInv == gone \subseteq Thinking!Entries /\ \A e \in gone : write[e] # "none"

KeptInv == Thinking!EntriesKept /\ Thinking!DeletedIsGone

ThinkingInv ==
    /\ ThinkingTypes /\ BegunInv /\ LinesInv /\ PassInv /\ ChainInv /\ LastInv /\ RemovalInv
    /\ TargetInv /\ GoneInv /\ KeptInv

LEMMA NullIsNoFile ==
    /\ Null \notin Thinking!Entries /\ Null \notin Sessions /\ Null \notin Seq(Thinking!Entries)
    /\ Thinking!Entries \subseteq Nat
<1>1. Thinking!Entries \subseteq Nat
  BY ComponentsAssumption DEF Thinking!Entries
<1>2. ASSUME NEW q \in Seq(Thinking!Entries)
      PROVE  q \in Seq(Nat)
  <2>1. q \in [1..Len(q) -> Thinking!Entries] /\ Len(q) \in Nat
    OBVIOUS
  <2>2. q \in [1..Len(q) -> Nat]
    BY <1>1, <2>1
  <2> QED
    BY <2>1, <2>2
<1> QED
  BY <1>1, <1>2, ComponentsAssumption

\* Without takes the session out of the list and keeps the others' order.
LEMMA WithoutSession ==
    ASSUME NEW q \in Seq(Sessions), \A i, j \in DOMAIN q : q[i] = q[j] => i = j, NEW s \in Sessions
    PROVE  LET r == Thinking!Without(q, s) IN
           /\ r \in Seq(Sessions) /\ \A i, j \in DOMAIN r : r[i] = r[j] => i = j
           /\ {r[i] : i \in DOMAIN r} = {q[i] : i \in DOMAIN q} \ {s}
<1> DEFINE r == Thinking!Without(q, s)
<1>1. CASE s \notin {q[i] : i \in DOMAIN q}
  BY <1>1 DEF Thinking!Without, Thinking!ToSet
<1>2. CASE s \in {q[i] : i \in DOMAIN q}
  <2> DEFINE k == CHOOSE i \in DOMAIN q : q[i] = s
  <2>1. k \in 1..Len(q) /\ q[k] = s
    BY <1>2
  <2>2. r = SubSeq(q, 1, k - 1) \o SubSeq(q, k + 1, Len(q))
    BY <1>2 DEF Thinking!Without, Thinking!ToSet, Thinking!RemoveAt
  <2> HIDE DEF k
  <2> HIDE DEF r
  <2> DEFINE a == SubSeq(q, 1, k - 1)
             b == SubSeq(q, k + 1, Len(q))
  <2>a. /\ a \in Seq(Sessions) /\ Len(a) = k - 1 /\ \A i \in 1..(k - 1) : a[i] = q[i]
    BY <2>1
  <2>b. /\ b \in Seq(Sessions) /\ Len(b) = Len(q) - k
        /\ \A i \in 1..(Len(q) - k) : b[i] = q[i + k]
    BY <2>1
  <2>c. r = a \o b
    BY <2>2
  <2> HIDE DEF a, b
  <2>d. /\ r \in Seq(Sessions) /\ Len(r) = Len(q) - 1
        /\ \A i \in 1..Len(r) : r[i] = IF i < k THEN a[i] ELSE b[i - (k - 1)]
    <3>1. r \in Seq(Sessions) /\ Len(r) = Len(a) + Len(b)
      BY <2>a, <2>b, <2>c
    <3>2. \A i \in 1..Len(r) : r[i] = IF i <= Len(a) THEN a[i] ELSE b[i - Len(a)]
      BY <2>a, <2>b, <2>c, <3>1
    <3> QED
      BY <2>1, <2>a, <2>b, <3>1, <3>2
  <2>e. ASSUME NEW i \in 1..Len(r)
        PROVE  r[i] = IF i < k THEN q[i] ELSE q[i + 1]
    BY <2>1, <2>a, <2>b, <2>d
  <2>3. /\ r \in Seq(Sessions) /\ Len(r) = Len(q) - 1
        /\ \A i \in 1..Len(r) : r[i] = IF i < k THEN q[i] ELSE q[i + 1]
    BY <2>d, <2>e
  <2>f. DOMAIN r = 1..(Len(q) - 1) /\ DOMAIN q = 1..Len(q) /\ Len(q) \in Nat
    BY <2>3
  <2>4. ASSUME NEW i \in DOMAIN r, NEW j \in DOMAIN r, r[i] = r[j]
        PROVE  i = j
    <3> DEFINE at1(n) == IF n < k THEN n ELSE n + 1
    <3>1. /\ at1(i) \in DOMAIN q /\ at1(j) \in DOMAIN q
          /\ r[i] = q[at1(i)] /\ r[j] = q[at1(j)]
      BY <2>1, <2>3, <2>f
    <3>2. at1(i) = at1(j)
      BY <2>4, <3>1
    <3> QED
      BY <2>1, <2>f, <3>2
  <2>5. ASSUME NEW i \in DOMAIN r
        PROVE  r[i] \in {q[n] : n \in DOMAIN q} /\ r[i] # s
    <3>1. i \in 1..Len(r)
      BY <2>3
    <3>2. CASE i < k
      <4>1. r[i] = q[i] /\ i \in DOMAIN q /\ i # k
        BY <2>1, <2>3, <2>f, <3>1, <3>2
      <4> QED
        BY <2>1, <2>f, <4>1
    <3>3. CASE ~(i < k)
      <4>1. r[i] = q[i + 1] /\ i + 1 \in DOMAIN q /\ i + 1 # k
        BY <2>1, <2>3, <2>f, <3>1, <3>3
      <4> QED
        BY <2>1, <2>f, <4>1
    <3> QED
      BY <3>2, <3>3
  <2>6. ASSUME NEW n \in DOMAIN q, q[n] # s
        PROVE  q[n] \in {r[i] : i \in DOMAIN r}
    <3>1. CASE n < k
      BY <2>1, <2>3, <3>1
    <3>2. CASE n > k
      <4>1. n - 1 \in 1..Len(r) /\ r[n - 1] = q[n]
        BY <2>1, <2>3, <3>2
      <4> QED
        BY <2>3, <4>1
    <3> QED
      BY <2>1, <2>6, <3>1, <3>2
  <2>7. {r[i] : i \in DOMAIN r} = {q[i] : i \in DOMAIN q} \ {s}
    BY <2>5, <2>6
  <2> QED
    BY <2>3, <2>4, <2>7 DEF r
<1> QED
  BY <1>1, <1>2

LEMMA LinesOfAppend ==
    ASSUME NEW file \in Seq(Thinking!Entries) \cup {Null}, NEW e \in Thinking!Entries
    PROVE  LET more == IF file = Null THEN <<e>> ELSE file \o <<e>> IN
           /\ more \in Seq(Thinking!Entries) /\ Thinking!Lines(more) = Thinking!Lines(file) \cup {e}
           /\ Len(more) = (IF file = Null THEN 0 ELSE Len(file)) + 1 /\ more[Len(more)] = e
           /\ file # Null => \A i \in 1..Len(file) : more[i] = file[i]
<1>1. CASE file = Null
  <2> DEFINE more == <<e>>
  <2>1. more \in Seq(Thinking!Entries) /\ Len(more) = 1 /\ more[1] = e /\ DOMAIN more = {1}
    OBVIOUS
  <2>2. more # Null
    BY <2>1, NullIsNoFile
  <2> HIDE DEF more
  <2>3. Thinking!Lines(more) = {e}
    BY <2>1, <2>2 DEF Thinking!Lines, Thinking!ToSet
  <2> QED
    BY <1>1, <2>1, <2>3 DEF Thinking!Lines, more
<1>2. CASE file # Null
  <2> DEFINE more == file \o <<e>>
  <2>1. /\ file \in Seq(Thinking!Entries) /\ more \in Seq(Thinking!Entries)
        /\ Len(more) = Len(file) + 1 /\ more[Len(more)] = e
        /\ \A i \in 1..Len(file) : more[i] = file[i]
    BY <1>2
  <2>2. more # Null
    BY <2>1, NullIsNoFile
  <2> HIDE DEF more
  <2>3. {more[i] : i \in DOMAIN more} = {file[i] : i \in DOMAIN file} \cup {e}
    BY <2>1
  <2>4. Thinking!Lines(more) = Thinking!Lines(file) \cup {e}
    BY <1>2, <2>2, <2>3 DEF Thinking!Lines, Thinking!ToSet
  <2> QED
    BY <1>2, <2>1, <2>4 DEF more
<1> QED
  BY <1>1, <1>2

LEMMA LinesAreEntries ==
    ASSUME NEW file \in Seq(Thinking!Entries) \cup {Null}
    PROVE  /\ Thinking!Lines(file) \subseteq Thinking!Entries
           /\ file # Null => \A i \in 1..Len(file) : file[i] \in Thinking!Lines(file)
BY DEF Thinking!Lines, Thinking!ToSet

LEMMA ThinkingImplied ==
    ThinkingInv => /\ Thinking!ThinkingTypeOK /\ Thinking!EntriesKept /\ Thinking!EntriesInOrder
                   /\ Thinking!DeletedIsGone
<1> SUFFICES ASSUME ThinkingInv
             PROVE  Thinking!ThinkingTypeOK /\ Thinking!EntriesInOrder
  BY DEF ThinkingInv, KeptInv
<1>1. Thinking!ThinkingTypeOK
  <2>1. \A s \in Sessions : {raw[s], gz[s]} \subseteq Seq(Thinking!Entries) \cup {Null}
    BY DEF ThinkingInv, ThinkingTypes
  <2>2. \A k \in DOMAIN removal : removal[k].stage \in {"none", "waiting", "removing"}
    BY DEF ThinkingInv, ThinkingTypes
  <2> QED
    BY <2>1, <2>2 DEF ThinkingInv, ThinkingTypes, Thinking!ThinkingTypeOK, Thinking!ToSet
<1>2. Thinking!EntriesInOrder
  BY DEF ThinkingInv, LinesInv, GoodFile, Thinking!EntriesInOrder
<1> QED
  BY <1>1, <1>2

LEMMA InitThinking == Thinking!Init => ThinkingInv
<1> SUFFICES ASSUME Thinking!Init PROVE ThinkingInv
  OBVIOUS
<1>1. ThinkingTypes
  <2>1. /\ recent = <<>> /\ recent \in Seq(Sessions) /\ DOMAIN recent = {}
        /\ \A s \in Sessions : raw[s] = Null
    BY DEF Thinking!Init
  <2>2. /\ pass \in [stage : {"idle", "scheduled", "reading", "writing", "unlinking"},
                     todo : Seq(Sessions), contents : Seq(Thinking!Entries)]
        /\ pass.stage = "idle"
    BY DEF Thinking!Init, Thinking!Idle
  <2>3. removal \in [Sessions \cup {Null} ->
           [stage : {"none", "waiting", "removing"}, waits : SUBSET Thinking!Entries,
            files : SUBSET {"raw", "gz"}, target : SUBSET Thinking!Entries]]
    BY DEF Thinking!Init, Thinking!Asked
  <2> QED
    BY <2>1, <2>2, <2>3 DEF Thinking!Init, ThinkingTypes
<1>2. BegunInv /\ ChainInv /\ LastInv /\ GoneInv
  BY DEF Thinking!Init, BegunInv, ChainInv, LastInv, GoneInv, Chained, Thinking!Running
<1>3. LinesInv /\ PassInv
  BY DEF Thinking!Init, LinesInv, PassInv, GoodFile, Thinking!Lines, Thinking!Idle
<1>4. RemovalInv /\ TargetInv /\ KeptInv
  BY DEF Thinking!Init, RemovalInv, TargetInv, KeptInv, Thinking!Asked, Thinking!EntriesKept,
         Thinking!DeletedIsGone
<1> QED
  BY <1>1, <1>2, <1>3, <1>4 DEF ThinkingInv

\* An append that makes its entry has no earlier one of its chain under way.
LEMMA MadeIsFirst ==
    ASSUME ThinkingInv, NEW e \in Thinking!Entries, write[e] = "made", e \notin unchained,
           NEW d \in Thinking!Entries, Chained(d), home[d] = home[e]
    PROVE  e <= d
<1> SUFFICES ASSUME d < e PROVE FALSE
  BY NullIsNoFile
<1> QED
  BY DEF ThinkingInv, ChainInv

\* What is in a file that is not written stays as it was.
LEMMA GoodFileKept ==
    ASSUME NEW file \in Seq(Thinking!Entries) \cup {Null}, NEW t,
           NEW w, NEW h, NEW free, NEW w2, NEW h2, NEW free2,
           GoodFile(file, t, w, h, free), free \subseteq free2,
           \A d \in Thinking!Entries : w[d] = "saved" => w2[d] = "saved" /\ h2[d] = h[d]
    PROVE  GoodFile(file, t, w2, h2, free2)
BY LinesAreEntries DEF GoodFile

LEMMA FilesKept ==
    ASSUME ThinkingInv, unchained \subseteq unchained',
           \A d \in Thinking!Entries :
               write[d] = "saved" => write'[d] = "saved" /\ home'[d] = home[d]
    PROVE  /\ \A t \in Sessions : /\ GoodFile(raw[t], t, write', home', unchained')
                                 /\ GoodFile(gz[t], t, write', home', unchained')
           /\ pass.stage = "writing" =>
                 GoodFile(pass.contents, Head(pass.todo), write', home', unchained')
<1>1. ASSUME NEW t \in Sessions
      PROVE  /\ GoodFile(raw[t], t, write', home', unchained')
             /\ GoodFile(gz[t], t, write', home', unchained')
  <2>1. /\ raw[t] \in Seq(Thinking!Entries) \cup {Null} /\ gz[t] \in Seq(Thinking!Entries) \cup {Null}
        /\ GoodFile(raw[t], t, write, home, unchained) /\ GoodFile(gz[t], t, write, home, unchained)
    BY DEF ThinkingInv, ThinkingTypes, LinesInv
  <2>a. raw[t] \in Seq(Thinking!Entries) \cup {Null} /\ GoodFile(raw[t], t, write, home, unchained)
    BY <2>1
  <2>2. GoodFile(raw[t], t, write', home', unchained')
    BY <2>a, GoodFileKept
  <2>3. GoodFile(gz[t], t, write', home', unchained')
    BY <2>1, GoodFileKept
  <2> QED
    BY <2>2, <2>3
<1>2. ASSUME pass.stage = "writing"
      PROVE  GoodFile(pass.contents, Head(pass.todo), write', home', unchained')
  <2>1. /\ pass.contents \in Seq(Thinking!Entries)
        /\ GoodFile(pass.contents, Head(pass.todo), write, home, unchained)
    BY <1>2 DEF ThinkingInv, ThinkingTypes, LinesInv
  <2> QED
    BY <2>1, GoodFileKept
<1> QED
  BY <1>1, <1>2

\* The entries of a finished append stay where they are.
LEMMA AppendsKeeps ==
    ASSUME ThinkingInv, NEW e \in Thinking!Entries, NEW s \in Sessions, Thinking!Appends(e, s)
    PROVE  ThinkingInv'
<1>1. /\ write[e] = "none" /\ \A o \in Thinking!Entries : o < e => write[o] # "none"
      /\ home' = [home EXCEPT ![e] = s] /\ write' = [write EXCEPT ![e] = "queued"]
      /\ previous' = [previous EXCEPT ![e] = sessionWrites[s]]
      /\ sessionWrites' = [sessionWrites EXCEPT ![s] = e]
      /\ UNCHANGED <<directory, raw, gz, recent, pass, removal, removals, removed, squeezed,
                     unchained, gone, reborn>>
  BY DEF Thinking!Appends, Thinking!fileVars, Thinking!historyVars
<1>2. ThinkingTypes'
  BY <1>1 DEF ThinkingInv, ThinkingTypes
<1>3. /\ home'[e] = s /\ write'[e] = "queued" /\ previous'[e] = sessionWrites[s]
      /\ sessionWrites'[s] = e
      /\ \A d \in Thinking!Entries \ {e} :
            home'[d] = home[d] /\ write'[d] = write[d] /\ previous'[d] = previous[d]
      /\ \A t \in Sessions \ {s} : sessionWrites'[t] = sessionWrites[t]
      /\ home[e] = Null
  BY <1>1 DEF ThinkingInv, ThinkingTypes, BegunInv
<1>4. \A d \in Thinking!Entries \ {e} : Chained(d)' <=> Chained(d)
  BY <1>1, <1>3 DEF Chained, Thinking!Running
<1>5. \A d \in Thinking!Entries : d > e => write[d] = "none"
  BY <1>1 DEF ThinkingInv, BegunInv
<1>6. BegunInv'
  BY <1>1, <1>3, NullIsNoFile DEF ThinkingInv, BegunInv
<1>7. LinesInv' /\ PassInv'
  <2>1. LinesInv'
    BY <1>1, <1>3, FilesKept DEF LinesInv
  <2>2. PassInv'
    BY <1>1 DEF ThinkingInv, PassInv
  <2> QED
    BY <2>1, <2>2
<1>8. ChainInv'
  <2> SUFFICES ASSUME NEW d \in Thinking!Entries, NEW f \in Thinking!Entries, d < f,
                      home'[d] = home'[f], Chained(d)', f \notin unchained', write'[f] # "none"
               PROVE  /\ write'[f] = "queued" /\ previous'[f] \in Thinking!Entries
                      /\ d <= previous'[f] /\ previous'[f] < f
                      /\ Chained(previous[f])' /\ home'[previous'[f]] = home'[f]
    BY DEF ChainInv
  <2>1. d # e
    BY <1>1, <1>3, <1>5, NullIsNoFile
  <2>2. CASE f = e
    <3>1. Chained(d) /\ home[d] = s
      BY <1>3, <1>4, <2>1, <2>2
    <3>2. sessionWrites[s] # Null /\ d <= sessionWrites[s] /\ Chained(sessionWrites[s])
          /\ home[sessionWrites[s]] = s /\ sessionWrites[s] \in Thinking!Entries
      BY <3>1 DEF ThinkingInv, LastInv, ThinkingTypes
    <3>3. sessionWrites[s] # e
      BY <1>1, <3>2 DEF Chained, Thinking!Running
    <3>4. sessionWrites[s] < e
      <4>1. ~(sessionWrites[s] > e)
        BY <1>5, <3>2 DEF Chained, Thinking!Running
      <4> QED
        <5>1. sessionWrites[s] \in Nat /\ e \in Nat
          BY <3>2, NullIsNoFile
        <5> QED
          BY <4>1, <3>3, <5>1
    <3>5. Chained(previous[f])'
      BY <1>3, <1>1, <2>2, <3>2, <3>3 DEF Chained, Thinking!Running
    <3> QED
      BY <1>3, <2>2, <3>2, <3>3, <3>4, <3>5
  <2>3. CASE f # e
    <3>1. /\ write[f] = "queued" /\ previous[f] \in Thinking!Entries
          /\ d <= previous[f] /\ previous[f] < f
          /\ Chained(previous[f]) /\ home[previous[f]] = home[f]
      BY <1>1, <1>3, <1>4, <2>1, <2>3 DEF ThinkingInv, ChainInv
    <3>2. previous[f] # e
      BY <1>1, <3>1 DEF Chained, Thinking!Running
    <3>3. Chained(previous[f])'
      BY <1>3, <1>1, <2>3, <3>1, <3>2 DEF Chained, Thinking!Running
    <3> QED
      BY <1>3, <2>3, <3>1, <3>2, <3>3
  <2> QED
    BY <2>2, <2>3
<1>9. LastInv'
  <2>1. e \notin unchained
    BY <1>1 DEF ThinkingInv, BegunInv
  <2>2. Chained(e)'
    BY <1>1, <1>3, <2>1 DEF Chained, Thinking!Running
  <2>3. ASSUME NEW t \in Sessions, sessionWrites'[t] # Null
        PROVE  Chained(sessionWrites[t])' /\ home'[sessionWrites'[t]] = t
    <3>1. CASE t = s
      BY <1>3, <2>2, <3>1, <1>1
    <3>2. CASE t # s
      <4>1. /\ sessionWrites'[t] = sessionWrites[t] /\ sessionWrites[t] \in Thinking!Entries
            /\ Chained(sessionWrites[t]) /\ home[sessionWrites[t]] = t
        BY <1>3, <2>3, <3>2 DEF ThinkingInv, LastInv, ThinkingTypes
      <4>2. sessionWrites[t] # e
        BY <1>1, <4>1 DEF Chained, Thinking!Running
      <4> QED
        BY <1>1, <1>3, <4>1, <4>2 DEF Chained, Thinking!Running
    <3> QED
      BY <3>1, <3>2
  <2>4. ASSUME NEW d \in Thinking!Entries, Chained(d)'
        PROVE  sessionWrites'[home'[d]] # Null /\ d <= sessionWrites'[home'[d]]
    <3>1. CASE d = e
      BY <1>3, <3>1, NullIsNoFile
    <3>2. CASE d # e
      <4>1. Chained(d) /\ home'[d] = home[d] /\ sessionWrites[home[d]] # Null
            /\ d <= sessionWrites[home[d]] /\ home[d] \in Sessions
        BY <1>3, <1>4, <2>4, <3>2
        DEF ThinkingInv, LastInv, ThinkingTypes, BegunInv, Chained, Thinking!Running
      <4>2. d < e
        BY <1>5, <3>2, <4>1, NullIsNoFile DEF Chained, Thinking!Running
      <4> QED
        BY <1>3, <4>1, <4>2, NullIsNoFile
    <3> QED
      BY <3>1, <3>2
  <2> QED
    BY <2>3, <2>4 DEF LastInv
<1>10. RemovalInv' /\ GoneInv'
  <2>1. GoneInv'
    BY <1>1, <1>3 DEF ThinkingInv, GoneInv
  <2>2. RemovalInv'
    <3> SUFFICES ASSUME NEW k \in Sessions \cup {Null}, NEW d \in removal[k].target
                 PROVE  /\ write'[d] # "none"
                        /\ removal[k].stage = "removing" => ~Chained(d)'
                        /\ removal[k].stage = "waiting" /\ Chained(d)' =>
                              \E w \in removal[k].waits :
                                  Chained(w)' /\ home'[w] = home'[d] /\ d <= w
      BY <1>1 DEF RemovalInv
    <3>1. /\ d \in Thinking!Entries /\ write[d] # "none"
          /\ removal[k].waits \subseteq Thinking!Entries
          /\ removal[k].stage = "removing" => ~Chained(d)
          /\ removal[k].stage = "waiting" /\ Chained(d) =>
                \E w \in removal[k].waits : Chained(w) /\ home[w] = home[d] /\ d <= w
      BY DEF ThinkingInv, RemovalInv, ThinkingTypes
    <3>2. d # e
      BY <1>1, <3>1
    <3>3. \A w \in Thinking!Entries : Chained(w) => w # e
      BY <1>1 DEF Chained, Thinking!Running
    <3> QED
      BY <1>3, <1>4, <3>1, <3>2, <3>3
  <2> QED
    BY <2>1, <2>2
<1>a. TargetInv'
  <2> SUFFICES ASSUME NEW t \in Sessions, NEW d \in removal[t].target
               PROVE  home'[d] = t
    BY <1>1 DEF TargetInv
  <2>1. d \in Thinking!Entries /\ d # e /\ home[d] = t
    BY <1>1 DEF ThinkingInv, TargetInv, RemovalInv, ThinkingTypes
  <2> QED
    BY <1>3, <2>1
<1>11. KeptInv'
  BY <1>1, <1>3 DEF ThinkingInv, KeptInv, GoneInv, Thinking!EntriesKept, Thinking!DeletedIsGone,
     Thinking!Kept, Thinking!Running
<1> QED
  BY <1>2, <1>6, <1>7, <1>8, <1>9, <1>10, <1>a, <1>11 DEF ThinkingInv

\* What an append makes known of its progress, its chain and the deletions take well.
LEMMA MakesDirectoryKeeps ==
    ASSUME ThinkingInv, NEW e \in Thinking!Entries, Thinking!MakesDirectory(e)
    PROVE  ThinkingInv'
<1>1. /\ write[e] = "queued" /\ (previous[e] # Null => ~Thinking!Running(previous[e]))
      /\ write' = [write EXCEPT ![e] = "made"] /\ directory' = TRUE
      /\ UNCHANGED <<home, previous, sessionWrites, raw, gz, recent, pass, removal, removals,
                     removed, squeezed, unchained, gone, reborn>>
  BY DEF Thinking!MakesDirectory, Thinking!historyVars
<1>2. /\ write'[e] = "made" /\ \A d \in Thinking!Entries \ {e} : write'[d] = write[d]
      /\ \A d \in Thinking!Entries : Chained(d)' <=> Chained(d)
  BY <1>1 DEF ThinkingInv, ThinkingTypes, Chained, Thinking!Running
<1>3. ThinkingTypes'
  BY <1>1 DEF ThinkingInv, ThinkingTypes
<1>4. BegunInv'
  BY <1>1, <1>2 DEF ThinkingInv, BegunInv
<1>5. LinesInv'
  BY <1>1, <1>2, FilesKept DEF LinesInv
<1>6. PassInv'
  BY <1>1 DEF ThinkingInv, PassInv
<1>7. ChainInv'
  <2> SUFFICES ASSUME NEW d \in Thinking!Entries, NEW f \in Thinking!Entries, d < f,
                      home[d] = home[f], Chained(d), f \notin unchained, write[f] # "none"
               PROVE  /\ write'[f] = "queued" /\ previous[f] \in Thinking!Entries
                      /\ d <= previous[f] /\ previous[f] < f
                      /\ Chained(previous[f])' /\ home[previous[f]] = home[f]
    BY <1>1, <1>2 DEF ChainInv, Thinking!Entries
  <2>1. /\ write[f] = "queued" /\ previous[f] \in Thinking!Entries
        /\ d <= previous[f] /\ previous[f] < f
        /\ Chained(previous[f]) /\ home[previous[f]] = home[f]
    BY DEF ThinkingInv, ChainInv
  <2>2. f # e
    BY <1>1, <2>1, NullIsNoFile DEF Chained
  <2>3. Chained(previous[f])'
    BY <1>2, <2>1, <1>1 DEF Chained, Thinking!Running
  <2> QED
    BY <1>2, <2>1, <2>2, <2>3
<1>8. LastInv'
  <2>1. \A t \in Sessions : sessionWrites[t] # Null => sessionWrites[t] \in Thinking!Entries
    BY DEF ThinkingInv, ThinkingTypes
  <2>2. \A t \in Sessions : sessionWrites[t] # Null => Chained(sessionWrites[t])'
    BY <1>1, <1>2, <2>1 DEF ThinkingInv, LastInv, Chained, Thinking!Running
  <2> QED
    BY <1>1, <1>2, <2>2 DEF ThinkingInv, LastInv
<1>9. RemovalInv' /\ TargetInv' /\ GoneInv'
  BY <1>1, <1>2 DEF ThinkingInv, RemovalInv, TargetInv, GoneInv, ThinkingTypes
<1>10. KeptInv'
  BY <1>1, <1>2 DEF ThinkingInv, KeptInv, GoneInv, Thinking!EntriesKept, Thinking!DeletedIsGone,
     Thinking!Kept, Thinking!Running
<1> QED
  BY <1>3, <1>4, <1>5, <1>6, <1>7, <1>8, <1>9, <1>10 DEF ThinkingInv

\* An append that ends was the first of its chain that was under way: nobody waits for
\* another one after it.
LEMMA EndsKeeps ==
    ASSUME ThinkingInv, NEW e \in Thinking!Entries, NEW result \in {"saved", "failed"},
           write[e] = "made", Thinking!Ends(e, result), UNCHANGED <<unchained, removal>>
    PROVE  /\ write' \in [Thinking!Entries -> {"none", "queued", "made", "saved", "failed"}]
           /\ previous' \in [Thinking!Entries -> Thinking!Entries \cup {Null}]
           /\ sessionWrites' \in [Sessions -> Thinking!Entries \cup {Null}]
           /\ write'[e] = result /\ \A d \in Thinking!Entries \ {e} : write'[d] = write[d]
           /\ home' = home
           /\ BegunInv' /\ ChainInv' /\ LastInv' /\ RemovalInv'
<1>1. /\ write' = [write EXCEPT ![e] = result]
      /\ sessionWrites' = [t \in Sessions |-> IF sessionWrites[t] = e THEN Null ELSE sessionWrites[t]]
      /\ previous' = [previous EXCEPT ![e] = Null] /\ home' = home
  BY DEF Thinking!Ends
<1>2. /\ write' \in [Thinking!Entries -> {"none", "queued", "made", "saved", "failed"}]
      /\ previous' \in [Thinking!Entries -> Thinking!Entries \cup {Null}]
      /\ sessionWrites' \in [Sessions -> Thinking!Entries \cup {Null}]
  BY <1>1 DEF ThinkingInv, ThinkingTypes
<1>3. /\ write'[e] = result
      /\ \A d \in Thinking!Entries \ {e} : write'[d] = write[d] /\ previous'[d] = previous[d]
      /\ ~Chained(e)'
      /\ \A d \in Thinking!Entries : Chained(d)' <=> d # e /\ Chained(d)
  BY <1>1 DEF ThinkingInv, ThinkingTypes, Chained, Thinking!Running
<1>4. BegunInv'
  BY <1>1, <1>3 DEF ThinkingInv, BegunInv
<1>5. ChainInv'
  <2> SUFFICES ASSUME NEW d \in Thinking!Entries, NEW f \in Thinking!Entries, d < f,
                      home[d] = home[f], Chained(d)', f \notin unchained, write'[f] # "none"
               PROVE  /\ write'[f] = "queued" /\ previous'[f] \in Thinking!Entries
                      /\ d <= previous'[f] /\ previous'[f] < f
                      /\ Chained(previous[f])' /\ home[previous'[f]] = home[f]
    BY <1>1 DEF ChainInv
  <2>1. d # e /\ Chained(d) /\ write[f] # "none"
    BY <1>3
  <2>2. /\ write[f] = "queued" /\ previous[f] \in Thinking!Entries
        /\ d <= previous[f] /\ previous[f] < f
        /\ Chained(previous[f]) /\ home[previous[f]] = home[f]
    BY <2>1 DEF ThinkingInv, ChainInv
  <2>3. f # e
    BY <2>2
  <2>4. previous[f] # e
    <3>1. SUFFICES ASSUME previous[f] = e PROVE FALSE
      OBVIOUS
    <3>2. e <= d /\ d <= e
      BY <2>1, <2>2, <3>1, MadeIsFirst DEF Chained
    <3> QED
      BY <2>1, <3>2, NullIsNoFile
  <2>5. Chained(previous[f])'
    BY <1>3, <2>2, <2>3, <2>4 DEF Chained, Thinking!Running
  <2> QED
    BY <1>3, <2>2, <2>3, <2>5
<1>6. LastInv'
  <2>1. ASSUME NEW t \in Sessions, sessionWrites'[t] # Null
        PROVE  Chained(sessionWrites[t])' /\ home'[sessionWrites'[t]] = t
    <3>1. /\ sessionWrites'[t] = sessionWrites[t] /\ sessionWrites[t] \in Thinking!Entries \ {e}
          /\ Chained(sessionWrites[t]) /\ home[sessionWrites[t]] = t
      BY <1>1, <2>1 DEF ThinkingInv, LastInv, ThinkingTypes
    <3> QED
      BY <1>1, <1>3, <3>1 DEF Chained, Thinking!Running
  <2>2. ASSUME NEW d \in Thinking!Entries, Chained(d)'
        PROVE  sessionWrites'[home'[d]] # Null /\ d <= sessionWrites'[home'[d]]
    <3>1. /\ d # e /\ Chained(d) /\ home[d] \in Sessions
          /\ sessionWrites[home[d]] # Null /\ d <= sessionWrites[home[d]]
      BY <1>3, <2>2 DEF ThinkingInv, LastInv, ThinkingTypes, BegunInv, Chained, Thinking!Running
    <3>2. sessionWrites[home[d]] # e
      <4>1. SUFFICES ASSUME sessionWrites[home[d]] = e PROVE FALSE
        OBVIOUS
      <4>2. home[e] = home[d] /\ e \notin unchained
        BY <3>1, <4>1 DEF ThinkingInv, LastInv, Chained
      <4>3. e <= d /\ d <= e
        BY <3>1, <4>1, <4>2, MadeIsFirst
      <4> QED
        BY <3>1, <4>3, NullIsNoFile
    <3> QED
      BY <1>1, <3>1, <3>2
  <2> QED
    BY <2>1, <2>2 DEF LastInv
<1>7. RemovalInv'
  <2> SUFFICES ASSUME NEW k \in Sessions \cup {Null}, NEW d \in removal[k].target
               PROVE  /\ write'[d] # "none"
                      /\ removal[k].stage = "removing" => ~Chained(d)'
                      /\ removal[k].stage = "waiting" /\ Chained(d)' =>
                            \E w \in removal[k].waits :
                                Chained(w)' /\ home[w] = home[d] /\ d <= w
    BY <1>1 DEF RemovalInv
  <2>1. /\ d \in Thinking!Entries /\ write[d] # "none"
        /\ removal[k].waits \subseteq Thinking!Entries
        /\ removal[k].stage = "removing" => ~Chained(d)
        /\ removal[k].stage = "waiting" /\ Chained(d) =>
              \E w \in removal[k].waits : Chained(w) /\ home[w] = home[d] /\ d <= w
    BY DEF ThinkingInv, RemovalInv, ThinkingTypes
  <2>2. ASSUME removal[k].stage = "waiting", Chained(d)'
        PROVE  \E w \in removal[k].waits : Chained(w)' /\ home[w] = home[d] /\ d <= w
    <3>1. PICK w \in removal[k].waits : Chained(w) /\ home[w] = home[d] /\ d <= w
      BY <1>3, <2>1, <2>2
    <3>2. w # e
      <4>1. SUFFICES ASSUME w = e PROVE FALSE
        OBVIOUS
      <4>2. e <= d /\ d <= e /\ d # e
        BY <1>3, <2>1, <2>2, <3>1, <4>1, MadeIsFirst DEF Chained
      <4> QED
        BY <2>1, <4>2, NullIsNoFile
    <3> QED
      BY <1>3, <2>1, <3>1, <3>2
  <2> QED
    BY <1>3, <2>1, <2>2
<1> QED
  BY <1>1, <1>2, <1>3, <1>4, <1>5, <1>6, <1>7

LEMMA SaveFailsKeeps ==
    ASSUME ThinkingInv, NEW e \in Thinking!Entries, Thinking!SaveFails(e)
    PROVE  ThinkingInv'
<1>1. /\ write[e] = "made" /\ Thinking!Ends(e, "failed")
      /\ UNCHANGED <<directory, raw, gz, recent, pass, removal, removals, removed, squeezed,
                     unchained, gone, reborn>>
  BY DEF Thinking!SaveFails, Thinking!fileVars, Thinking!historyVars
<1>2. /\ write' \in [Thinking!Entries -> {"none", "queued", "made", "saved", "failed"}]
      /\ previous' \in [Thinking!Entries -> Thinking!Entries \cup {Null}]
      /\ sessionWrites' \in [Sessions -> Thinking!Entries \cup {Null}]
      /\ write'[e] = "failed" /\ \A d \in Thinking!Entries \ {e} : write'[d] = write[d]
      /\ home' = home
      /\ BegunInv' /\ ChainInv' /\ LastInv' /\ RemovalInv'
  BY <1>1, EndsKeeps
<1>3. ThinkingTypes'
  BY <1>1, <1>2 DEF ThinkingInv, ThinkingTypes
<1>4. LinesInv'
  BY <1>1, <1>2, FilesKept DEF LinesInv
<1>5. PassInv' /\ TargetInv' /\ GoneInv'
  BY <1>1, <1>2 DEF ThinkingInv, PassInv, TargetInv, GoneInv
<1>6. KeptInv'
  BY <1>1, <1>2 DEF ThinkingInv, KeptInv, GoneInv, Thinking!EntriesKept, Thinking!DeletedIsGone,
     Thinking!Kept, Thinking!Running
<1> QED
  BY <1>2, <1>3, <1>4, <1>5, <1>6 DEF ThinkingInv

LEMMA SavedKeeps ==
    ASSUME ThinkingInv, NEW e \in Thinking!Entries, Thinking!Saved(e)
    PROVE  ThinkingInv'
<1> DEFINE s == home[e]
<1>1. /\ write[e] = "made" /\ Thinking!Ends(e, "saved")
      /\ raw' = [raw EXCEPT ![s] = IF raw[s] = Null THEN <<e>> ELSE raw[s] \o <<e>>]
      /\ recent' = Thinking!Without(recent, s) \o <<s>>
      /\ pass' = IF pass.stage = "idle" THEN [pass EXCEPT !.stage = "scheduled"] ELSE pass
      /\ squeezed' = IF Thinking!Squeezes(s) THEN squeezed \cup {e} ELSE squeezed
      /\ UNCHANGED <<directory, gz, removal, removals, removed, unchained, gone, reborn>>
  BY DEF Thinking!Saved
<1>2. /\ write' \in [Thinking!Entries -> {"none", "queued", "made", "saved", "failed"}]
      /\ previous' \in [Thinking!Entries -> Thinking!Entries \cup {Null}]
      /\ sessionWrites' \in [Sessions -> Thinking!Entries \cup {Null}]
      /\ write'[e] = "saved" /\ \A d \in Thinking!Entries \ {e} : write'[d] = write[d]
      /\ home' = home
      /\ BegunInv' /\ ChainInv' /\ LastInv' /\ RemovalInv'
  BY <1>1, EndsKeeps
<1>3. s \in Sessions
  BY <1>1 DEF ThinkingInv, ThinkingTypes, BegunInv
<1>4. /\ raw'[s] \in Seq(Thinking!Entries) /\ raw'[s] # Null
      /\ Thinking!Lines(raw'[s]) = Thinking!Lines(raw[s]) \cup {e}
      /\ Len(raw'[s]) = (IF raw[s] = Null THEN 0 ELSE Len(raw[s])) + 1 /\ raw'[s][Len(raw'[s])] = e
      /\ raw[s] # Null => \A i \in 1..Len(raw[s]) : raw'[s][i] = raw[s][i]
      /\ \A t \in Sessions \ {s} : raw'[t] = raw[t]
  <2>1. raw[s] \in Seq(Thinking!Entries) \cup {Null}
    BY <1>3 DEF ThinkingInv, ThinkingTypes
  <2>2. /\ raw'[s] = IF raw[s] = Null THEN <<e>> ELSE raw[s] \o <<e>>
        /\ \A t \in Sessions \ {s} : raw'[t] = raw[t]
    BY <1>1, <1>3 DEF ThinkingInv, ThinkingTypes
  <2> DEFINE more == IF raw[s] = Null THEN <<e>> ELSE raw[s] \o <<e>>
  <2>3. /\ more \in Seq(Thinking!Entries) /\ Thinking!Lines(more) = Thinking!Lines(raw[s]) \cup {e}
        /\ Len(more) = (IF raw[s] = Null THEN 0 ELSE Len(raw[s])) + 1 /\ more[Len(more)] = e
        /\ raw[s] # Null => \A i \in 1..Len(raw[s]) : more[i] = raw[s][i]
    BY <2>1, LinesOfAppend
  <2>4. raw'[s] = more /\ more # Null
    BY <2>2, <2>3, NullIsNoFile
  <2> HIDE DEF more
  <2> QED
    BY <2>2, <2>3, <2>4
<1>5. ThinkingTypes'
  <2>1. raw' \in [Sessions -> Seq(Thinking!Entries) \cup {Null}]
    BY <1>1, <1>3, <1>4 DEF ThinkingInv, ThinkingTypes
  <2>2. /\ recent' \in Seq(Sessions)
        /\ \A i, j \in DOMAIN recent' : recent'[i] = recent'[j] => i = j
        /\ {recent'[i] : i \in DOMAIN recent'} = {t \in Sessions : raw'[t] # Null}
    <3> DEFINE r == Thinking!Without(recent, s)
    <3>1. /\ r \in Seq(Sessions) /\ \A i, j \in DOMAIN r : r[i] = r[j] => i = j
          /\ {r[i] : i \in DOMAIN r} = {recent[i] : i \in DOMAIN recent} \ {s}
      BY <1>3, WithoutSession DEF ThinkingInv, ThinkingTypes
    <3> HIDE DEF r
    <3>2. /\ recent' \in Seq(Sessions) /\ Len(recent') = Len(r) + 1 /\ recent'[Len(r) + 1] = s
          /\ \A i \in 1..Len(r) : recent'[i] = r[i]
      BY <1>1, <1>3, <3>1 DEF r
    <3>3. \A i, j \in DOMAIN recent' : recent'[i] = recent'[j] => i = j
      BY <3>1, <3>2
    <3>4. {recent'[i] : i \in DOMAIN recent'} = {r[i] : i \in DOMAIN r} \cup {s}
      BY <3>1, <3>2
    <3>5. {t \in Sessions : raw'[t] # Null} = {t \in Sessions : raw[t] # Null} \cup {s}
      BY <1>3, <1>4
    <3> QED
      BY <1>3, <3>1, <3>2, <3>3, <3>4, <3>5 DEF ThinkingInv, ThinkingTypes
  <2>3. /\ pass' \in [stage : {"idle", "scheduled", "reading", "writing", "unlinking"},
                      todo : Seq(Sessions), contents : Seq(Thinking!Entries)]
        /\ pass'.stage \in {"reading", "writing", "unlinking"} => pass'.todo # <<>>
    BY <1>1 DEF ThinkingInv, ThinkingTypes
  <2> QED
    BY <1>1, <1>2, <2>1, <2>2, <2>3 DEF ThinkingInv, ThinkingTypes
<1>6. LinesInv'
  <2>1. \A d \in Thinking!Entries :
            write[d] = "saved" => write'[d] = "saved" /\ home'[d] = home[d]
    BY <1>2
  <2>2. /\ \A t \in Sessions : GoodFile(gz'[t], t, write', home', unchained')
        /\ \A t \in Sessions \ {s} : GoodFile(raw'[t], t, write', home', unchained')
        /\ pass'.stage = "writing" =>
              GoodFile(pass'.contents, Head(pass'.todo), write', home', unchained')
    <3>1. pass'.stage = "writing" => pass' = pass
      BY <1>1 DEF ThinkingInv, ThinkingTypes
    <3> QED
      BY <1>1, <1>4, <2>1, <3>1, FilesKept
  <2>3. GoodFile(raw'[s], s, write', home', unchained')
    <3>1. \A f \in Thinking!Lines(raw[s]) : /\ f \in Thinking!Entries /\ write[f] = "saved"
                                             /\ home[f] = s
      BY <1>3, LinesAreEntries DEF ThinkingInv, LinesInv, GoodFile, ThinkingTypes
    <3>2. \A f \in Thinking!Lines(raw[s]) : f < e \/ f \in unchained \/ e \in unchained
      <4> SUFFICES ASSUME NEW f \in Thinking!Lines(raw[s]), e < f, f \notin unchained,
                          e \notin unchained
                   PROVE  FALSE
        BY <1>1, <3>1, NullIsNoFile
      <4>1. Chained(e)
        BY <1>1 DEF Chained, Thinking!Running
      <4> QED
        BY <3>1, <4>1 DEF ThinkingInv, ChainInv
    <3>3. \A f \in Thinking!Lines(raw'[s]) : write'[f] = "saved" /\ home'[f] = s
      BY <1>1, <1>2, <1>4, <3>1
    <3>4. ASSUME NEW i \in 1..Len(raw'[s]), NEW j \in 1..Len(raw'[s]), i < j
          PROVE  raw'[s][i] < raw'[s][j] \/ raw'[s][i] \in unchained \/ raw'[s][j] \in unchained
      <4>1. raw[s] # Null /\ raw[s] \in Seq(Thinking!Entries) /\ i \in 1..Len(raw[s])
            /\ raw'[s][i] = raw[s][i]
        BY <1>3, <1>4, <3>4 DEF ThinkingInv, ThinkingTypes
      <4>2. CASE j = Len(raw'[s])
        BY <1>4, <3>2, <4>1, <4>2, LinesAreEntries
      <4>3. CASE j # Len(raw'[s])
        <5>1. j \in 1..Len(raw[s]) /\ raw'[s][j] = raw[s][j]
          BY <1>4, <4>1, <4>3
        <5> QED
          BY <1>3, <3>4, <4>1, <5>1 DEF ThinkingInv, LinesInv, GoodFile
      <4> QED
        BY <4>2, <4>3
    <3>5. unchained' = unchained
      BY <1>1
    <3> QED
      BY <3>3, <3>4, <3>5 DEF GoodFile
  <2>4. ASSUME NEW t \in Sessions
        PROVE  GoodFile(raw'[t], t, write', home', unchained')
    <3>1. CASE t = s
      BY <2>3, <3>1
    <3>2. CASE t # s
      BY <2>2, <3>2
    <3> QED
      BY <3>1, <3>2
  <2> QED
    BY <2>2, <2>4 DEF LinesInv
<1>7. PassInv'
  <2>1. pass'.stage \in {"writing", "unlinking"} => pass' = pass
    BY <1>1 DEF ThinkingInv, ThinkingTypes
  <2>2. ASSUME pass.stage \in {"writing", "unlinking"}, pass' = pass
        PROVE  PassInv'
    <3> DEFINE t == Head(pass.todo)
    <3>1. t \in Sessions
      BY <2>2 DEF ThinkingInv, ThinkingTypes
    <3>2. squeezed \subseteq squeezed' /\ Thinking!Lines(raw'[t]) \subseteq Thinking!Lines(raw[t]) \cup squeezed'
      BY <1>1, <1>4, <2>2, <3>1 DEF Thinking!Squeezes
    <3> HIDE DEF t
    <3>3. /\ pass.stage = "writing" => Thinking!Lines(raw'[t]) \subseteq Thinking!Lines(pass.contents) \cup squeezed'
          /\ pass.stage = "unlinking" =>
                Thinking!Lines(raw'[t]) \subseteq Thinking!Lines(gz[t]) \cup squeezed' \cup removed
      BY <3>2 DEF ThinkingInv, PassInv, t
    <3> QED
      BY <1>1, <2>2, <3>3 DEF PassInv, t
  <2> QED
    BY <2>1, <2>2 DEF PassInv
<1>8. TargetInv' /\ GoneInv'
  BY <1>1, <1>2 DEF ThinkingInv, TargetInv, GoneInv
<1>9. Thinking!EntriesKept'
  <2> SUFFICES ASSUME NEW d \in Thinking!Entries, write'[d] = "saved",
                      d \notin removed' \cup squeezed'
               PROVE  d \in Thinking!Lines(raw'[home[d]]) \cup Thinking!Lines(gz'[home[d]])
    BY <1>2 DEF Thinking!EntriesKept, Thinking!Kept
  <2>1. CASE d = e
    BY <1>4, <2>1
  <2>2. CASE d # e
    <3>1. write[d] = "saved" /\ d \notin removed \cup squeezed /\ home[d] \in Sessions
      BY <1>1, <1>2, <2>2 DEF ThinkingInv, ThinkingTypes, BegunInv
    <3>2. d \in Thinking!Lines(raw[home[d]]) \cup Thinking!Lines(gz[home[d]])
      BY <3>1 DEF ThinkingInv, KeptInv, Thinking!EntriesKept, Thinking!Kept
    <3> QED
      BY <1>1, <1>4, <3>1, <3>2
  <2> QED
    BY <2>1, <2>2
<1>10. Thinking!DeletedIsGone'
  <2> SUFFICES ASSUME NEW d \in gone, d \notin reborn \cup unchained
               PROVE  /\ d \notin Thinking!Lines(raw'[home[d]]) \cup Thinking!Lines(gz'[home[d]])
                      /\ write'[d] \notin {"queued", "made"}
    BY <1>1, <1>2 DEF Thinking!DeletedIsGone, Thinking!Kept, Thinking!Running
  <2>1. /\ d \notin Thinking!Lines(raw[home[d]]) \cup Thinking!Lines(gz[home[d]])
        /\ write[d] \notin {"queued", "made"} /\ d \in Thinking!Entries /\ home[d] \in Sessions
    BY DEF ThinkingInv, KeptInv, GoneInv, ThinkingTypes, BegunInv, Thinking!DeletedIsGone,
           Thinking!Kept, Thinking!Running
  <2>2. d # e
    BY <1>1, <2>1
  <2>3. Thinking!Lines(raw'[home[d]]) \subseteq Thinking!Lines(raw[home[d]]) \cup {e}
    BY <1>4, <2>1
  <2> QED
    BY <1>1, <1>2, <2>1, <2>2, <2>3
<1> QED
  BY <1>2, <1>5, <1>6, <1>7, <1>8, <1>9, <1>10 DEF ThinkingInv, KeptInv

\* Where no append goes on and no chain is forgotten, the chains stay as they are.
LEMMA ChainKept ==
    ASSUME ThinkingInv, UNCHANGED <<home, write, previous, sessionWrites, unchained>>
    PROVE  /\ BegunInv' /\ ChainInv' /\ LastInv' /\ (removal' = removal => RemovalInv')
           /\ \A d : Chained(d)' <=> Chained(d)
<1>1. BegunInv'
  BY DEF ThinkingInv, BegunInv
<1>2. ChainInv'
  BY DEF ThinkingInv, ChainInv, Chained, Thinking!Running
<1>3. LastInv'
  BY DEF ThinkingInv, LastInv, Chained, Thinking!Running
<1>4. \A d : Chained(d)' <=> Chained(d)
  BY DEF Chained, Thinking!Running
<1>5. removal' = removal => RemovalInv'
  BY DEF ThinkingInv, RemovalInv, Chained, Thinking!Running
<1> QED
  BY <1>1, <1>2, <1>3, <1>4, <1>5

LEMMA ContinueType ==
    ASSUME NEW todo \in Seq(Sessions)
    PROVE  LET p == Thinking!Continue(todo) IN
           /\ p \in [stage : {"idle", "scheduled", "reading", "writing", "unlinking"},
                     todo : Seq(Sessions), contents : Seq(Thinking!Entries)]
           /\ p.stage \in {"idle", "reading"} /\ (p.stage = "reading" => p.todo # <<>>)
<1>1. Thinking!Idle \in [stage : {"idle", "scheduled", "reading", "writing", "unlinking"},
                         todo : Seq(Sessions), contents : Seq(Thinking!Entries)]
  BY DEF Thinking!Idle
<1> QED
  BY <1>1 DEF Thinking!Continue, Thinking!Idle

\* A pass that lists, reads or is given up leaves the files alone.
LEMMA PassKeeps ==
    ASSUME ThinkingInv,
           UNCHANGED <<home, write, previous, sessionWrites, directory, raw, gz, recent, removal,
                       removals, removed, squeezed, unchained, gone, reborn>>,
           pass' \in [stage : {"idle", "scheduled", "reading", "writing"},
                      todo : Seq(Sessions), contents : Seq(Thinking!Entries)],
           pass'.stage \in {"reading", "writing"} => pass'.todo # <<>>,
           pass'.stage = "writing" => pass'.contents = raw[Head(pass'.todo)]
    PROVE  ThinkingInv'
<1>1. ThinkingTypes'
  BY DEF ThinkingInv, ThinkingTypes
<1>2. BegunInv' /\ ChainInv' /\ LastInv' /\ RemovalInv'
  BY ChainKept
<1>3. pass'.stage = "writing" => Head(pass'.todo) \in Sessions
  OBVIOUS
<1>4. LinesInv'
  BY <1>3 DEF ThinkingInv, LinesInv
<1>5. PassInv'
  BY <1>3 DEF ThinkingInv, PassInv
<1>6. TargetInv' /\ GoneInv' /\ KeptInv'
  BY DEF ThinkingInv, TargetInv, GoneInv, KeptInv, Thinking!EntriesKept, Thinking!DeletedIsGone,
         Thinking!Kept, Thinking!Running
<1> QED
  BY <1>1, <1>2, <1>4, <1>5, <1>6 DEF ThinkingInv

LEMMA ListsKeeps ==
    ASSUME ThinkingInv, NEW tooLarge \in BOOLEAN, Thinking!Lists(tooLarge)
    PROVE  ThinkingInv'
<1> DEFINE todo == IF tooLarge THEN SubSeq(recent, 1, Len(recent) \div 2) ELSE <<>>
<1>1. /\ pass' = Thinking!Continue(todo)
      /\ UNCHANGED <<home, write, previous, sessionWrites, directory, raw, gz, recent, removal,
                     removals, removed, squeezed, unchained, gone, reborn>>
  BY DEF Thinking!Lists, Thinking!writeVars, Thinking!fileVars, Thinking!historyVars
<1>2. todo \in Seq(Sessions)
  <2>1. recent \in Seq(Sessions) /\ Len(recent) \in Nat
    BY DEF ThinkingInv, ThinkingTypes
  <2>2. Len(recent) \div 2 \in 0..Len(recent)
    BY <2>1
  <2>3. SubSeq(recent, 1, Len(recent) \div 2) \in Seq(Sessions)
    BY <2>1, <2>2
  <2> QED
    BY <2>3
<1> HIDE DEF todo
<1>3. /\ pass' \in [stage : {"idle", "scheduled", "reading", "writing", "unlinking"},
                    todo : Seq(Sessions), contents : Seq(Thinking!Entries)]
      /\ pass'.stage \in {"idle", "reading"} /\ (pass'.stage = "reading" => pass'.todo # <<>>)
  BY <1>1, <1>2, ContinueType
<1> QED
  BY <1>1, <1>3, PassKeeps

LEMMA ReadsKeeps == ThinkingInv /\ Thinking!Reads => ThinkingInv'
<1> SUFFICES ASSUME ThinkingInv, Thinking!Reads PROVE ThinkingInv'
  OBVIOUS
<1>1. /\ pass.stage = "reading" /\ raw[Head(pass.todo)] # Null
      /\ pass' = [pass EXCEPT !.stage = "writing", !.contents = raw[Head(pass.todo)]]
      /\ UNCHANGED <<home, write, previous, sessionWrites, directory, raw, gz, recent, removal,
                     removals, removed, squeezed, unchained, gone, reborn>>
  BY DEF Thinking!Reads, Thinking!writeVars, Thinking!fileVars, Thinking!historyVars
<1>2. Head(pass.todo) \in Sessions /\ pass.todo # <<>>
  BY <1>1 DEF ThinkingInv, ThinkingTypes
<1>3. raw[Head(pass.todo)] \in Seq(Thinking!Entries)
  BY <1>1, <1>2 DEF ThinkingInv, ThinkingTypes
<1>4. /\ pass' \in [stage : {"idle", "scheduled", "reading", "writing"},
                    todo : Seq(Sessions), contents : Seq(Thinking!Entries)]
      /\ pass'.todo = pass.todo /\ pass'.contents = raw[Head(pass.todo)]
  BY <1>1, <1>3 DEF ThinkingInv, ThinkingTypes
<1> QED
  BY <1>1, <1>2, <1>4, PassKeeps

LEMMA PassFailsKeeps == ThinkingInv /\ Thinking!PassFails => ThinkingInv'
<1> SUFFICES ASSUME ThinkingInv, Thinking!PassFails PROVE ThinkingInv'
  OBVIOUS
<1>1. /\ pass' = Thinking!Idle
      /\ UNCHANGED <<home, write, previous, sessionWrites, directory, raw, gz, recent, removal,
                     removals, removed, squeezed, unchained, gone, reborn>>
  BY DEF Thinking!PassFails, Thinking!writeVars, Thinking!fileVars, Thinking!historyVars
<1>2. /\ pass' \in [stage : {"idle", "scheduled", "reading", "writing"},
                    todo : Seq(Sessions), contents : Seq(Thinking!Entries)]
      /\ pass'.stage = "idle"
  BY <1>1 DEF Thinking!Idle
<1> QED
  BY <1>1, <1>2, PassKeeps

\* An archive is written of saved entries: one that comes back with it was read before it
\* was deleted.
LEMMA WritesArchiveKeeps == ThinkingInv /\ Thinking!WritesArchive => ThinkingInv'
<1> SUFFICES ASSUME ThinkingInv, Thinking!WritesArchive PROVE ThinkingInv'
  OBVIOUS
<1> DEFINE s == Head(pass.todo)
<1>1. /\ pass.stage = "writing" /\ gz' = [gz EXCEPT ![s] = pass.contents]
      /\ pass' = [pass EXCEPT !.stage = "unlinking"]
      /\ squeezed' = squeezed \cup Thinking!Lines(gz[s])
      /\ reborn' = reborn \cup (Thinking!ToSet(pass.contents) \ Thinking!Lines(raw[s]))
      /\ UNCHANGED <<home, write, previous, sessionWrites, directory, raw, recent, removal,
                     removals, removed, unchained, gone>>
  BY DEF Thinking!WritesArchive, Thinking!writeVars
<1>2. s \in Sessions /\ pass.todo # <<>>
  BY <1>1 DEF ThinkingInv, ThinkingTypes
<1>3. /\ pass'.stage = "unlinking" /\ pass'.todo = pass.todo
      /\ pass' \in [stage : {"idle", "scheduled", "reading", "writing", "unlinking"},
                    todo : Seq(Sessions), contents : Seq(Thinking!Entries)]
      /\ pass.contents \in Seq(Thinking!Entries) /\ pass.contents # Null
  BY <1>1, NullIsNoFile DEF ThinkingInv, ThinkingTypes
<1>4. /\ gz'[s] = pass.contents /\ \A t \in Sessions \ {s} : gz'[t] = gz[t]
      /\ Thinking!Lines(gz'[s]) = Thinking!ToSet(pass.contents)
      /\ Thinking!Lines(pass.contents) = Thinking!ToSet(pass.contents)
  BY <1>1, <1>2, <1>3 DEF ThinkingInv, ThinkingTypes, Thinking!Lines
<1> HIDE DEF s
<1>5. ThinkingTypes'
  BY <1>1, <1>2, <1>3, <1>4 DEF ThinkingInv, ThinkingTypes
<1>6. BegunInv' /\ ChainInv' /\ LastInv' /\ RemovalInv'
  BY <1>1, ChainKept
<1>7. LinesInv'
  <2>1. GoodFile(gz'[s], s, write, home, unchained)
    BY <1>1, <1>4 DEF ThinkingInv, LinesInv, s
  <2>2. ASSUME NEW t \in Sessions
        PROVE  GoodFile(gz'[t], t, write, home, unchained)
    <3>1. CASE t = s
      BY <2>1, <3>1
    <3>2. CASE t # s
      BY <1>4, <3>2 DEF ThinkingInv, LinesInv
    <3> QED
      BY <3>1, <3>2
  <2> QED
    BY <1>1, <1>3, <2>2 DEF ThinkingInv, LinesInv
<1>8. PassInv'
  <2>1. Thinking!Lines(raw[s]) \subseteq Thinking!Lines(pass.contents) \cup squeezed
    BY <1>1 DEF ThinkingInv, PassInv, s
  <2> QED
    BY <1>1, <1>3, <1>4, <2>1 DEF PassInv, s
<1>9. TargetInv' /\ GoneInv'
  BY <1>1 DEF ThinkingInv, TargetInv, GoneInv
<1>10. Thinking!EntriesKept'
  <2> SUFFICES ASSUME NEW d \in Thinking!Entries, write[d] = "saved",
                      d \notin removed \cup squeezed'
               PROVE  d \in Thinking!Lines(raw[home[d]]) \cup Thinking!Lines(gz'[home[d]])
    BY <1>1 DEF Thinking!EntriesKept, Thinking!Kept
  <2>1. d \in Thinking!Lines(raw[home[d]]) \cup Thinking!Lines(gz[home[d]]) /\ home[d] \in Sessions
    BY <1>1 DEF ThinkingInv, KeptInv, Thinking!EntriesKept, Thinking!Kept, ThinkingTypes, BegunInv
  <2>2. home[d] # s \/ d \notin Thinking!Lines(gz[s])
    BY <1>1
  <2> QED
    BY <1>4, <2>1, <2>2
<1>11. Thinking!DeletedIsGone'
  <2> SUFFICES ASSUME NEW d \in gone, d \notin reborn' \cup unchained
               PROVE  /\ d \notin Thinking!Lines(raw[home[d]]) \cup Thinking!Lines(gz'[home[d]])
                      /\ write[d] \notin {"queued", "made"}
    BY <1>1 DEF Thinking!DeletedIsGone, Thinking!Kept, Thinking!Running
  <2>1. /\ d \notin Thinking!Lines(raw[home[d]]) \cup Thinking!Lines(gz[home[d]])
        /\ write[d] \notin {"queued", "made"} /\ d \in Thinking!Entries /\ home[d] \in Sessions
    BY <1>1 DEF ThinkingInv, KeptInv, GoneInv, ThinkingTypes, BegunInv, Thinking!DeletedIsGone,
           Thinking!Kept, Thinking!Running
  <2>2. CASE home[d] = s
    BY <1>1, <1>4, <2>1, <2>2
  <2>3. CASE home[d] # s
    BY <1>4, <2>1, <2>3
  <2> QED
    BY <2>2, <2>3
<1> QED
  BY <1>5, <1>6, <1>7, <1>8, <1>9, <1>10, <1>11 DEF ThinkingInv, KeptInv

LEMMA UnlinksKeeps == ThinkingInv /\ Thinking!Unlinks => ThinkingInv'
<1> SUFFICES ASSUME ThinkingInv, Thinking!Unlinks PROVE ThinkingInv'
  OBVIOUS
<1> DEFINE s == Head(pass.todo)
<1>1. /\ pass.stage = "unlinking" /\ raw[s] # Null
      /\ raw' = [raw EXCEPT ![s] = Null] /\ recent' = Thinking!Without(recent, s)
      /\ pass' = Thinking!Continue(Tail(pass.todo))
      /\ UNCHANGED <<home, write, previous, sessionWrites, directory, gz, removal, removals,
                     removed, squeezed, unchained, gone, reborn>>
  BY DEF Thinking!Unlinks, Thinking!writeVars, Thinking!historyVars
<1>2. s \in Sessions /\ Tail(pass.todo) \in Seq(Sessions)
  BY <1>1 DEF ThinkingInv, ThinkingTypes
<1>3. /\ pass' \in [stage : {"idle", "scheduled", "reading", "writing", "unlinking"},
                    todo : Seq(Sessions), contents : Seq(Thinking!Entries)]
      /\ pass'.stage \in {"idle", "reading"} /\ (pass'.stage = "reading" => pass'.todo # <<>>)
  BY <1>1, <1>2, ContinueType
<1>4. Thinking!Lines(raw[s]) \subseteq Thinking!Lines(gz[s]) \cup squeezed \cup removed
  BY <1>1 DEF ThinkingInv, PassInv
<1> HIDE DEF s
<1>5. raw'[s] = Null /\ Thinking!Lines(raw'[s]) = {} /\ \A t \in Sessions \ {s} : raw'[t] = raw[t]
  BY <1>1, <1>2 DEF ThinkingInv, ThinkingTypes, Thinking!Lines
<1>6. ThinkingTypes'
  <2>1. /\ recent' \in Seq(Sessions)
        /\ \A i, j \in DOMAIN recent' : recent'[i] = recent'[j] => i = j
        /\ {recent'[i] : i \in DOMAIN recent'} = {recent[i] : i \in DOMAIN recent} \ {s}
    <3> DEFINE r == Thinking!Without(recent, s)
    <3>1. /\ r \in Seq(Sessions) /\ \A i, j \in DOMAIN r : r[i] = r[j] => i = j
          /\ {r[i] : i \in DOMAIN r} = {recent[i] : i \in DOMAIN recent} \ {s}
      BY <1>2, WithoutSession DEF ThinkingInv, ThinkingTypes
    <3> QED
      BY <1>1, <3>1
  <2>2. {t \in Sessions : raw'[t] # Null} = {t \in Sessions : raw[t] # Null} \ {s}
    BY <1>2, <1>5
  <2> QED
    BY <1>1, <1>2, <1>3, <2>1, <2>2 DEF ThinkingInv, ThinkingTypes
<1>7. BegunInv' /\ ChainInv' /\ LastInv' /\ RemovalInv'
  BY <1>1, ChainKept
<1>8. LinesInv'
  <2>1. ASSUME NEW t \in Sessions
        PROVE  GoodFile(raw'[t], t, write, home, unchained)
    <3>1. CASE t = s
      BY <1>5, <3>1 DEF GoodFile
    <3>2. CASE t # s
      BY <1>5, <3>2 DEF ThinkingInv, LinesInv
    <3> QED
      BY <3>1, <3>2
  <2> QED
    BY <1>1, <1>3, <2>1 DEF ThinkingInv, LinesInv
<1>9. PassInv' /\ TargetInv' /\ GoneInv'
  BY <1>1, <1>3 DEF ThinkingInv, PassInv, TargetInv, GoneInv
<1>10. KeptInv'
  <2>1. \A d \in Thinking!Entries : home[d] \in Sessions =>
            Thinking!Lines(raw'[home[d]]) \subseteq Thinking!Lines(raw[home[d]])
    BY <1>5
  <2>2. \A d \in Thinking!Entries : home[d] \in Sessions => \A x \in Thinking!Lines(raw[home[d]]) :
            x \in Thinking!Lines(raw'[home[d]]) \cup Thinking!Lines(gz[home[d]]) \cup squeezed \cup removed
    BY <1>4, <1>5
  <2>3. \A d \in Thinking!Entries : write[d] # "none" => home[d] \in Sessions
    BY DEF ThinkingInv, ThinkingTypes, BegunInv
  <2>4. Thinking!EntriesKept'
    BY <1>1, <2>2, <2>3 DEF ThinkingInv, KeptInv, Thinking!EntriesKept, Thinking!Kept
  <2>5. Thinking!DeletedIsGone'
    BY <1>1, <2>1, <2>3 DEF ThinkingInv, KeptInv, GoneInv, Thinking!DeletedIsGone, Thinking!Kept,
       Thinking!Running
  <2> QED
    BY <2>4, <2>5 DEF KeptInv
<1> QED
  BY <1>6, <1>7, <1>8, <1>9, <1>10 DEF ThinkingInv

\* A deletion that is asked for waits for the last append of each chain that it deletes from.
LEMMA WaitsKeeps ==
    ASSUME ThinkingInv, NEW k \in Sessions \cup {Null}, NEW waits, NEW target,
           Thinking!Waits(k, waits, target), waits \subseteq Thinking!Entries \cup {Null},
           target \subseteq {e \in Thinking!Entries : home[e] # Null},
           \A e \in target : sessionWrites[home[e]] \in waits /\ (k # Null => home[e] = k)
    PROVE  ThinkingInv'
<1>1. /\ removal' = [removal EXCEPT ![k] = [stage |-> "waiting", waits |-> waits \ {Null},
                                            files |-> {}, target |-> target]]
      /\ UNCHANGED <<home, write, previous, sessionWrites, directory, raw, gz, recent, pass,
                     removed, squeezed, unchained, gone, reborn>>
  BY DEF Thinking!Waits, Thinking!writeVars, Thinking!fileVars, Thinking!historyVars
<1>2. removal' \in [Sessions \cup {Null} ->
          [stage : {"none", "waiting", "removing"}, waits : SUBSET Thinking!Entries,
           files : SUBSET {"raw", "gz"}, target : SUBSET Thinking!Entries]]
  BY <1>1 DEF ThinkingInv, ThinkingTypes
<1>3. ThinkingTypes'
  BY <1>1, <1>2 DEF ThinkingInv, ThinkingTypes
<1>4. /\ BegunInv' /\ ChainInv' /\ LastInv' /\ \A d : Chained(d)' <=> Chained(d)
  BY <1>1, ChainKept
<1>5. LinesInv' /\ PassInv' /\ GoneInv'
  BY <1>1 DEF ThinkingInv, LinesInv, PassInv, GoneInv
<1>6. KeptInv'
  BY <1>1 DEF ThinkingInv, KeptInv, Thinking!EntriesKept, Thinking!DeletedIsGone, Thinking!Kept,
     Thinking!Running
<1>7. RemovalInv'
  <2> SUFFICES ASSUME NEW l \in Sessions \cup {Null}, NEW d \in removal'[l].target
               PROVE  /\ write[d] # "none"
                      /\ removal'[l].stage = "removing" => ~Chained(d)
                      /\ removal'[l].stage = "waiting" /\ Chained(d) =>
                            \E w \in removal'[l].waits : Chained(w) /\ home[w] = home[d] /\ d <= w
    BY <1>1, <1>4 DEF RemovalInv
  <2>1. CASE l = k
    <3>1. /\ removal'[l].stage = "waiting" /\ removal'[l].waits = waits \ {Null}
          /\ d \in target /\ d \in Thinking!Entries
      BY <1>1, <2>1 DEF ThinkingInv, ThinkingTypes
    <3>2. write[d] # "none" /\ home[d] \in Sessions
      BY <3>1 DEF ThinkingInv, ThinkingTypes, BegunInv
    <3>3. Chained(d) => /\ sessionWrites[home[d]] \in waits \ {Null} /\ d <= sessionWrites[home[d]]
                        /\ Chained(sessionWrites[home[d]])
                        /\ home[sessionWrites[home[d]]] = home[d]
      BY <3>1, <3>2 DEF ThinkingInv, LastInv
    <3> QED
      BY <3>1, <3>2, <3>3
  <2>2. CASE l # k
    <3>1. removal'[l] = removal[l]
      BY <1>1, <2>2 DEF ThinkingInv, ThinkingTypes
    <3> QED
      BY <3>1 DEF ThinkingInv, RemovalInv
  <2> QED
    BY <2>1, <2>2
<1>8. TargetInv'
  <2> SUFFICES ASSUME NEW t \in Sessions, NEW d \in removal'[t].target
               PROVE  home[d] = t
    BY <1>1 DEF TargetInv
  <2>1. CASE t = k
    BY <1>1, <2>1, NullIsNoFile DEF ThinkingInv, ThinkingTypes
  <2>2. CASE t # k
    BY <1>1, <2>2 DEF ThinkingInv, ThinkingTypes, TargetInv
  <2> QED
    BY <2>1, <2>2
<1> QED
  BY <1>3, <1>4, <1>5, <1>6, <1>7, <1>8 DEF ThinkingInv

LEMMA DeleteSessionKeeps ==
    ASSUME ThinkingInv, NEW s \in Sessions, Thinking!DeleteSession(s)
    PROVE  ThinkingInv'
<1> DEFINE target == {e \in Thinking!Entries : home[e] = s}
           waits == {sessionWrites[s]}
<1>1. Thinking!Waits(s, waits, target)
  BY DEF Thinking!DeleteSession
<1>2. waits \subseteq Thinking!Entries \cup {Null}
  BY DEF ThinkingInv, ThinkingTypes
<1>3. target \subseteq {e \in Thinking!Entries : home[e] # Null}
  BY NullIsNoFile
<1>4. \A e \in target : sessionWrites[home[e]] \in waits /\ (s # Null => home[e] = s)
  OBVIOUS
<1> HIDE DEF target, waits
<1> QED
  BY <1>1, <1>2, <1>3, <1>4, WaitsKeeps

LEMMA WipeKeeps == ThinkingInv /\ Thinking!Wipe => ThinkingInv'
<1> SUFFICES ASSUME ThinkingInv, Thinking!Wipe PROVE ThinkingInv'
  OBVIOUS
<1> DEFINE target == {e \in Thinking!Entries : home[e] # Null}
           waits == {sessionWrites[s] : s \in Sessions}
<1>1. Thinking!Waits(Null, waits, target)
  BY DEF Thinking!Wipe
<1>2. waits \subseteq Thinking!Entries \cup {Null}
  BY DEF ThinkingInv, ThinkingTypes
<1>3. \A e \in target : home[e] \in Sessions
  BY DEF ThinkingInv, ThinkingTypes
<1>4. \A e \in target : sessionWrites[home[e]] \in waits
  BY <1>3
<1>5. target \subseteq {e \in Thinking!Entries : home[e] # Null}
  OBVIOUS
<1> HIDE DEF target, waits
<1> QED
  BY <1>1, <1>2, <1>4, <1>5, WaitsKeeps

\* Once those it waited for are over, what a deletion is to delete is written or given up.
LEMMA WaitedRemovals ==
    ASSUME ThinkingInv, NEW k \in Sessions \cup {Null}, Thinking!Waited(k)
    PROVE  /\ removal' \in [Sessions \cup {Null} ->
                 [stage : {"none", "waiting", "removing"}, waits : SUBSET Thinking!Entries,
                  files : SUBSET {"raw", "gz"}, target : SUBSET Thinking!Entries]]
           /\ \A l \in Sessions \cup {Null} : \A d \in removal'[l].target :
                 /\ write[d] # "none"
                 /\ removal'[l].stage = "removing" => ~Chained(d)
                 /\ removal'[l].stage = "waiting" /\ Chained(d) =>
                       \E w \in removal'[l].waits : Chained(w) /\ home[w] = home[d] /\ d <= w
           /\ \A l \in Sessions : removal'[l].target = removal[l].target
<1>1. /\ removal[k].stage = "waiting" /\ \A e \in removal[k].waits : ~Thinking!Running(e)
      /\ removal' = [removal EXCEPT ![k] =
                        [removal[k] EXCEPT !.stage = "removing", !.waits = {}, !.files = {"raw", "gz"}]]
  BY DEF Thinking!Waited
<1>2. /\ removal' \in [Sessions \cup {Null} ->
            [stage : {"none", "waiting", "removing"}, waits : SUBSET Thinking!Entries,
             files : SUBSET {"raw", "gz"}, target : SUBSET Thinking!Entries]]
      /\ removal'[k].stage = "removing" /\ removal'[k].target = removal[k].target
      /\ \A l \in (Sessions \cup {Null}) \ {k} : removal'[l] = removal[l]
  <2> DEFINE r == [removal[k] EXCEPT !.stage = "removing", !.waits = {}, !.files = {"raw", "gz"}]
  <2>1. removal \in [Sessions \cup {Null} ->
            [stage : {"none", "waiting", "removing"}, waits : SUBSET Thinking!Entries,
             files : SUBSET {"raw", "gz"}, target : SUBSET Thinking!Entries]]
    BY DEF ThinkingInv, ThinkingTypes
  <2>2. /\ r \in [stage : {"none", "waiting", "removing"}, waits : SUBSET Thinking!Entries,
                  files : SUBSET {"raw", "gz"}, target : SUBSET Thinking!Entries]
        /\ r.stage = "removing" /\ r.target = removal[k].target
    <3>1. removal[k] \in [stage : {"none", "waiting", "removing"}, waits : SUBSET Thinking!Entries,
                          files : SUBSET {"raw", "gz"}, target : SUBSET Thinking!Entries]
      BY <2>1
    <3>2. r.stage = "removing" /\ r.waits = {} /\ r.files = {"raw", "gz"}
          /\ r.target = removal[k].target
      BY <3>1
    <3> QED
      BY <3>1, <3>2
  <2>3. removal' = [removal EXCEPT ![k] = r]
    BY <1>1
  <2> HIDE DEF r
  <2> QED
    BY <2>1, <2>2, <2>3
<1>3. \A d \in removal[k].target : write[d] # "none" /\ ~Chained(d)
  BY <1>1 DEF ThinkingInv, RemovalInv, Chained
<1>4. ASSUME NEW l \in Sessions \cup {Null}, NEW d \in removal'[l].target
      PROVE  /\ write[d] # "none"
             /\ removal'[l].stage = "removing" => ~Chained(d)
             /\ removal'[l].stage = "waiting" /\ Chained(d) =>
                   \E w \in removal'[l].waits : Chained(w) /\ home[w] = home[d] /\ d <= w
  <2>1. CASE l = k
    BY <1>2, <1>3, <1>4, <2>1
  <2>2. CASE l # k
    BY <1>2, <1>4, <2>2 DEF ThinkingInv, RemovalInv
  <2> QED
    BY <2>1, <2>2
<1>5. \A l \in Sessions : removal'[l].target = removal[l].target
  BY <1>2
<1> QED
  BY <1>2, <1>4, <1>5

LEMMA RemovesKeeps ==
    ASSUME ThinkingInv, NEW s \in Sessions, Thinking!Removes(s)
    PROVE  ThinkingInv'
<1>1. /\ Thinking!Waited(s)
      /\ UNCHANGED <<home, write, previous, sessionWrites, directory, raw, gz, recent, pass,
                     removals, removed, squeezed, unchained, gone, reborn>>
  BY DEF Thinking!Removes, Thinking!writeVars, Thinking!fileVars, Thinking!historyVars
<1>2. /\ BegunInv' /\ ChainInv' /\ LastInv' /\ \A d : Chained(d)' <=> Chained(d)
  BY <1>1, ChainKept
<1>3. ThinkingTypes'
  BY <1>1, WaitedRemovals DEF ThinkingInv, ThinkingTypes
<1>4. RemovalInv'
  BY <1>1, <1>2, WaitedRemovals DEF RemovalInv
<1>5. LinesInv' /\ PassInv' /\ GoneInv'
  BY <1>1 DEF ThinkingInv, LinesInv, PassInv, GoneInv
<1>6. KeptInv'
  BY <1>1 DEF ThinkingInv, KeptInv, Thinking!EntriesKept, Thinking!DeletedIsGone, Thinking!Kept,
     Thinking!Running
<1>7. TargetInv'
  BY <1>1, WaitedRemovals DEF ThinkingInv, TargetInv
<1> QED
  BY <1>2, <1>3, <1>4, <1>5, <1>6, <1>7 DEF ThinkingInv

\* A wipe forgets the chains of those that are under way.
LEMMA ClearsKeeps == ThinkingInv /\ Thinking!Clears => ThinkingInv'
<1> SUFFICES ASSUME ThinkingInv, Thinking!Clears PROVE ThinkingInv'
  OBVIOUS
<1>1. /\ Thinking!Waited(Null) /\ sessionWrites' = [s \in Sessions |-> Null]
      /\ unchained' = unchained \cup {e \in Thinking!Entries : Thinking!Running(e)}
      /\ UNCHANGED <<home, write, previous, directory, raw, gz, recent, pass, removals, removed,
                     squeezed, gone, reborn>>
  BY DEF Thinking!Clears, Thinking!fileVars
<1>2. \A d \in Thinking!Entries : ~Chained(d)'
  BY <1>1 DEF Chained, Thinking!Running
<1>3. ThinkingTypes'
  BY <1>1, WaitedRemovals DEF ThinkingInv, ThinkingTypes
<1>4. BegunInv' /\ ChainInv' /\ LastInv' /\ GoneInv'
  BY <1>1, <1>2 DEF ThinkingInv, BegunInv, ChainInv, LastInv, GoneInv, Thinking!Running
<1>5. RemovalInv'
  <2>1. \A k \in Sessions \cup {Null} : removal'[k].target \subseteq Thinking!Entries
    BY <1>1, WaitedRemovals
  <2> QED
    BY <1>1, <1>2, <2>1, WaitedRemovals DEF RemovalInv
<1>6. LinesInv'
  <2>1. /\ \A t \in Sessions : /\ GoodFile(raw[t], t, write', home', unchained')
                               /\ GoodFile(gz[t], t, write', home', unchained')
        /\ pass.stage = "writing" =>
              GoodFile(pass.contents, Head(pass.todo), write', home', unchained')
    BY <1>1, FilesKept
  <2> QED
    BY <1>1, <2>1 DEF LinesInv
<1>7. PassInv'
  BY <1>1 DEF ThinkingInv, PassInv
<1>8. KeptInv'
  BY <1>1 DEF ThinkingInv, KeptInv, Thinking!EntriesKept, Thinking!DeletedIsGone, Thinking!Kept,
     Thinking!Running
<1>9. TargetInv'
  BY <1>1, WaitedRemovals DEF ThinkingInv, TargetInv
<1> QED
  BY <1>3, <1>4, <1>5, <1>6, <1>7, <1>8, <1>9 DEF ThinkingInv

\* A deletion that is over leaves the others as they were.
LEMMA OverRemovals ==
    ASSUME ThinkingInv, NEW k \in Sessions \cup {Null}, NEW left \in SUBSET {"raw", "gz"},
           removal' = Thinking!Over(k) \/ removal' = [removal EXCEPT ![k].files = left],
           removal[k].stage = "removing",
           UNCHANGED <<home, write, previous, sessionWrites, unchained>>
    PROVE  /\ removal' \in [Sessions \cup {Null} ->
                 [stage : {"none", "waiting", "removing"}, waits : SUBSET Thinking!Entries,
                  files : SUBSET {"raw", "gz"}, target : SUBSET Thinking!Entries]]
           /\ BegunInv' /\ ChainInv' /\ LastInv' /\ RemovalInv' /\ TargetInv'
<1>1. Thinking!Asked \in [stage : {"none", "waiting", "removing"}, waits : SUBSET Thinking!Entries,
                          files : SUBSET {"raw", "gz"}, target : SUBSET Thinking!Entries]
      /\ Thinking!Asked.target = {}
  BY DEF Thinking!Asked
<1>a. removal \in [Sessions \cup {Null} ->
          [stage : {"none", "waiting", "removing"}, waits : SUBSET Thinking!Entries,
           files : SUBSET {"raw", "gz"}, target : SUBSET Thinking!Entries]]
  BY DEF ThinkingInv, ThinkingTypes
<1>2. removal' \in [Sessions \cup {Null} ->
          [stage : {"none", "waiting", "removing"}, waits : SUBSET Thinking!Entries,
           files : SUBSET {"raw", "gz"}, target : SUBSET Thinking!Entries]]
  <2>1. CASE removal' = Thinking!Over(k)
    BY <1>1, <1>a, <2>1 DEF Thinking!Over
  <2>2. CASE removal' = [removal EXCEPT ![k].files = left]
    BY <1>a, <2>2
  <2> QED
    BY <2>1, <2>2
<1>3. /\ \A l \in (Sessions \cup {Null}) \ {k} : removal'[l] = removal[l]
      /\ \/ removal'[k].target = {}
         \/ removal'[k].target = removal[k].target /\ removal'[k].stage = "removing"
  BY <1>1 DEF ThinkingInv, ThinkingTypes, Thinking!Over
<1>4. /\ BegunInv' /\ ChainInv' /\ LastInv' /\ \A d : Chained(d)' <=> Chained(d)
  BY ChainKept
<1>5. RemovalInv'
  <2> SUFFICES ASSUME NEW l \in Sessions \cup {Null}, NEW d \in removal'[l].target
               PROVE  /\ write[d] # "none"
                      /\ removal'[l].stage = "removing" => ~Chained(d)
                      /\ removal'[l].stage = "waiting" /\ Chained(d) =>
                            \E w \in removal'[l].waits : Chained(w) /\ home[w] = home[d] /\ d <= w
    BY <1>4 DEF RemovalInv
  <2>1. CASE l = k
    BY <1>3, <2>1 DEF ThinkingInv, RemovalInv
  <2>2. CASE l # k
    BY <1>3, <2>2 DEF ThinkingInv, RemovalInv
  <2> QED
    BY <2>1, <2>2
<1>6. TargetInv'
  <2>1. \A l \in Sessions : removal'[l].target \subseteq removal[l].target
    BY <1>3
  <2> QED
    BY <2>1 DEF ThinkingInv, TargetInv
<1> QED
  BY <1>2, <1>4, <1>5, <1>6

\* A file that is removed takes its entries along, and the other one's that are still there
\* when the deletion is over came back meanwhile.
LEMMA RemovesFileKeeps ==
    ASSUME ThinkingInv, NEW s \in Sessions, NEW file \in {"raw", "gz"},
           Thinking!RemovesFile(s, file)
    PROVE  ThinkingInv'
<1> DEFINE left == removal[s].files \ {file}
           missed == IF file = "raw" THEN Thinking!Lines(gz[s]) ELSE Thinking!Lines(raw[s])
<1>1. /\ removal[s].stage = "removing" /\ file \in removal[s].files
      /\ file = "raw" => /\ raw' = [raw EXCEPT ![s] = Null] /\ gz' = gz
                         /\ recent' = Thinking!Without(recent, s)
                         /\ removed' = removed \cup Thinking!Lines(raw[s])
      /\ file = "gz" => /\ gz' = [gz EXCEPT ![s] = Null] /\ raw' = raw /\ recent' = recent
                        /\ removed' = removed \cup Thinking!Lines(gz[s])
      /\ IF left = {} THEN /\ removal' = Thinking!Over(s)
                           /\ gone' = gone \cup removal[s].target /\ reborn' = reborn \cup missed
         ELSE removal' = [removal EXCEPT ![s].files = left] /\ gone' = gone /\ reborn' = reborn
      /\ UNCHANGED <<home, write, previous, sessionWrites, directory, pass, removals, squeezed,
                     unchained>>
  BY DEF Thinking!RemovesFile, Thinking!writeVars
<1>2. /\ raw'[s] = (IF file = "raw" THEN Null ELSE raw[s])
      /\ gz'[s] = (IF file = "gz" THEN Null ELSE gz[s])
      /\ \A t \in Sessions \ {s} : raw'[t] = raw[t] /\ gz'[t] = gz[t]
      /\ raw' \in [Sessions -> Seq(Thinking!Entries) \cup {Null}]
      /\ gz' \in [Sessions -> Seq(Thinking!Entries) \cup {Null}]
  BY <1>1 DEF ThinkingInv, ThinkingTypes
<1>3. /\ left \in SUBSET {"raw", "gz"}
      /\ removal[s].target \subseteq Thinking!Entries
  BY DEF ThinkingInv, ThinkingTypes
<1> HIDE DEF left
<1>4. /\ removal' \in [Sessions \cup {Null} ->
            [stage : {"none", "waiting", "removing"}, waits : SUBSET Thinking!Entries,
             files : SUBSET {"raw", "gz"}, target : SUBSET Thinking!Entries]]
      /\ BegunInv' /\ ChainInv' /\ LastInv' /\ RemovalInv' /\ TargetInv'
  BY <1>1, <1>3, OverRemovals
<1>5. Thinking!Lines(Null) = {}
  BY DEF Thinking!Lines
<1>6. /\ \A t \in Sessions : /\ Thinking!Lines(raw'[t]) \subseteq Thinking!Lines(raw[t])
                             /\ Thinking!Lines(gz'[t]) \subseteq Thinking!Lines(gz[t])
                             /\ \A x \in Thinking!Lines(raw[t]) : x \in Thinking!Lines(raw'[t]) \cup removed'
                             /\ \A x \in Thinking!Lines(gz[t]) : x \in Thinking!Lines(gz'[t]) \cup removed'
      /\ removed \subseteq removed'
  <2>1. removed \subseteq removed'
    BY <1>1
  <2>2. /\ Thinking!Lines(raw'[s]) \subseteq Thinking!Lines(raw[s])
        /\ Thinking!Lines(gz'[s]) \subseteq Thinking!Lines(gz[s])
        /\ \A x \in Thinking!Lines(raw[s]) : x \in Thinking!Lines(raw'[s]) \cup removed'
        /\ \A x \in Thinking!Lines(gz[s]) : x \in Thinking!Lines(gz'[s]) \cup removed'
    BY <1>1, <1>2, <1>5
  <2> QED
    BY <1>2, <2>1, <2>2
<1>7. ThinkingTypes'
  <2>1. CASE file = "raw"
    <3> DEFINE r == Thinking!Without(recent, s)
    <3>1. /\ r \in Seq(Sessions) /\ \A i, j \in DOMAIN r : r[i] = r[j] => i = j
          /\ {r[i] : i \in DOMAIN r} = {recent[i] : i \in DOMAIN recent} \ {s}
      BY WithoutSession DEF ThinkingInv, ThinkingTypes
    <3>2. {t \in Sessions : raw'[t] # Null} = {t \in Sessions : raw[t] # Null} \ {s}
      BY <1>2, <2>1
    <3>3. recent' = r
      BY <1>1, <2>1
    <3> HIDE DEF r
    <3>4. /\ recent' \in Seq(Sessions)
          /\ \A i, j \in DOMAIN recent' : recent'[i] = recent'[j] => i = j
      BY <3>1, <3>3
    <3>5. {recent'[i] : i \in DOMAIN recent'} = {t \in Sessions : raw'[t] # Null}
      <4>1. {recent[i] : i \in DOMAIN recent} = {t \in Sessions : raw[t] # Null}
        BY DEF ThinkingInv, ThinkingTypes
      <4>2. {recent'[i] : i \in DOMAIN recent'} = {r[i] : i \in DOMAIN r}
        BY <3>3
      <4> QED
        BY <3>1, <3>2, <4>1, <4>2
    <3> QED
      BY <1>1, <1>2, <1>4, <3>4, <3>5 DEF ThinkingInv, ThinkingTypes
  <2>2. CASE file = "gz"
    BY <1>1, <1>2, <1>4, <2>2 DEF ThinkingInv, ThinkingTypes
  <2> QED
    BY <2>1, <2>2
<1>8. LinesInv'
  <2>1. ASSUME NEW t \in Sessions
        PROVE  GoodFile(raw'[t], t, write, home, unchained)
    <3>1. CASE raw'[t] = Null
      BY <1>5, <3>1 DEF GoodFile
    <3>2. CASE raw'[t] = raw[t]
      BY <3>2 DEF ThinkingInv, LinesInv
    <3> QED
      BY <1>2, <3>1, <3>2
  <2>2. ASSUME NEW t \in Sessions
        PROVE  GoodFile(gz'[t], t, write, home, unchained)
    <3>1. CASE gz'[t] = Null
      BY <1>5, <3>1 DEF GoodFile
    <3>2. CASE gz'[t] = gz[t]
      BY <3>2 DEF ThinkingInv, LinesInv
    <3> QED
      BY <1>2, <3>1, <3>2
  <2> QED
    BY <1>1, <2>1, <2>2 DEF ThinkingInv, LinesInv
<1>9. PassInv'
  <2> DEFINE t == Head(pass.todo)
  <2>1. pass.stage \in {"writing", "unlinking"} => t \in Sessions
    BY DEF ThinkingInv, ThinkingTypes
  <2>2. /\ pass.stage = "writing" =>
              Thinking!Lines(raw[t]) \subseteq Thinking!Lines(pass.contents) \cup squeezed
        /\ pass.stage = "unlinking" =>
              Thinking!Lines(raw[t]) \subseteq Thinking!Lines(gz[t]) \cup squeezed \cup removed
    BY DEF ThinkingInv, PassInv
  <2> HIDE DEF t
  <2>3. /\ pass.stage = "writing" =>
              Thinking!Lines(raw'[t]) \subseteq Thinking!Lines(pass.contents) \cup squeezed
        /\ pass.stage = "unlinking" =>
              Thinking!Lines(raw'[t]) \subseteq Thinking!Lines(gz'[t]) \cup squeezed \cup removed'
    BY <1>6, <2>1, <2>2
  <2> QED
    BY <1>1, <2>3 DEF PassInv, t
<1>10. GoneInv'
  <2>1. \A d \in removal[s].target : write[d] # "none"
    BY DEF ThinkingInv, RemovalInv
  <2> QED
    BY <1>1, <1>3, <2>1 DEF ThinkingInv, GoneInv
<1>11. \A d \in Thinking!Entries : write[d] # "none" => home[d] \in Sessions
  BY DEF ThinkingInv, ThinkingTypes, BegunInv
<1>12. Thinking!EntriesKept'
  BY <1>1, <1>6, <1>11 DEF ThinkingInv, KeptInv, Thinking!EntriesKept, Thinking!Kept
<1>13. Thinking!DeletedIsGone'
  <2> SUFFICES ASSUME NEW d \in gone', d \notin reborn' \cup unchained
               PROVE  /\ d \notin Thinking!Lines(raw'[home[d]]) \cup Thinking!Lines(gz'[home[d]])
                      /\ write[d] \notin {"queued", "made"}
    BY <1>1 DEF Thinking!DeletedIsGone, Thinking!Kept, Thinking!Running
  <2>1. d \in Thinking!Entries /\ write[d] # "none" /\ home[d] \in Sessions
    BY <1>1, <1>10, <1>11 DEF GoneInv
  <2>2. CASE d \in gone
    <3>1. d \notin reborn
      BY <1>1
    <3>2. /\ d \notin Thinking!Lines(raw[home[d]]) \cup Thinking!Lines(gz[home[d]])
          /\ write[d] \notin {"queued", "made"}
      BY <2>2, <3>1 DEF ThinkingInv, KeptInv, Thinking!DeletedIsGone, Thinking!Kept, Thinking!Running
    <3> QED
      BY <1>6, <2>1, <3>2
  <2>3. CASE d \notin gone
    <3>1. left = {} /\ d \in removal[s].target /\ reborn' = reborn \cup missed
      BY <1>1, <2>3
    <3>2. write[d] \notin {"queued", "made"}
      BY <1>1, <3>1 DEF ThinkingInv, RemovalInv, Chained, Thinking!Running
    <3>3. home[d] = s
      BY <3>1 DEF ThinkingInv, TargetInv
    <3>4. d \notin Thinking!Lines(raw'[s]) \cup Thinking!Lines(gz'[s])
      BY <1>2, <1>5, <3>1
    <3> QED
      BY <3>2, <3>3, <3>4
  <2> QED
    BY <2>2, <2>3
<1> QED
  BY <1>4, <1>7, <1>8, <1>9, <1>10, <1>12, <1>13 DEF ThinkingInv, KeptInv

LEMMA RemovesDirectoryKeeps == ThinkingInv /\ Thinking!RemovesDirectory => ThinkingInv'
<1> SUFFICES ASSUME ThinkingInv, Thinking!RemovesDirectory PROVE ThinkingInv'
  OBVIOUS
<1>1. /\ removal[Null].stage = "removing" /\ directory' = FALSE /\ recent' = <<>>
      /\ raw' = [s \in Sessions |-> Null] /\ gz' = [s \in Sessions |-> Null]
      /\ removed' = removed \cup UNION {Thinking!Lines(raw[s]) \cup Thinking!Lines(gz[s]) : s \in Sessions}
      /\ removal' = Thinking!Over(Null) /\ gone' = gone \cup removal[Null].target
      /\ UNCHANGED <<home, write, previous, sessionWrites, pass, removals, squeezed, unchained,
                     reborn>>
  BY DEF Thinking!RemovesDirectory, Thinking!writeVars
<1>2. \A s \in Sessions : /\ raw'[s] = Null /\ gz'[s] = Null
                          /\ Thinking!Lines(raw'[s]) = {} /\ Thinking!Lines(gz'[s]) = {}
  BY <1>1 DEF Thinking!Lines
<1>3. /\ removal' \in [Sessions \cup {Null} ->
            [stage : {"none", "waiting", "removing"}, waits : SUBSET Thinking!Entries,
             files : SUBSET {"raw", "gz"}, target : SUBSET Thinking!Entries]]
      /\ BegunInv' /\ ChainInv' /\ LastInv' /\ RemovalInv' /\ TargetInv'
  BY <1>1, OverRemovals
<1>4. ThinkingTypes'
  <2>1. recent' \in Seq(Sessions) /\ DOMAIN recent' = {}
    BY <1>1
  <2>2. {recent'[i] : i \in DOMAIN recent'} = {t \in Sessions : raw'[t] # Null}
    BY <1>2, <2>1
  <2>3. /\ raw' \in [Sessions -> Seq(Thinking!Entries) \cup {Null}]
        /\ gz' \in [Sessions -> Seq(Thinking!Entries) \cup {Null}]
    BY <1>1
  <2> QED
    BY <1>1, <1>3, <2>1, <2>2, <2>3 DEF ThinkingInv, ThinkingTypes
<1>5. LinesInv'
  <2>1. \A t \in Sessions : /\ GoodFile(raw'[t], t, write, home, unchained)
                            /\ GoodFile(gz'[t], t, write, home, unchained)
    BY <1>2 DEF GoodFile
  <2> QED
    BY <1>1, <2>1 DEF ThinkingInv, LinesInv
<1>6. PassInv'
  <2>1. pass.stage \in {"writing", "unlinking"} => Head(pass.todo) \in Sessions
    BY DEF ThinkingInv, ThinkingTypes
  <2> QED
    BY <1>1, <1>2, <2>1 DEF PassInv
<1>7. GoneInv'
  <2>1. removal[Null].target \subseteq Thinking!Entries /\ \A d \in removal[Null].target : write[d] # "none"
    BY DEF ThinkingInv, ThinkingTypes, RemovalInv
  <2> QED
    BY <1>1, <2>1 DEF ThinkingInv, GoneInv
<1>8. \A d \in Thinking!Entries : write[d] # "none" => home[d] \in Sessions
  BY DEF ThinkingInv, ThinkingTypes, BegunInv
<1>9. Thinking!EntriesKept'
  <2>1. \A t \in Sessions : Thinking!Lines(raw[t]) \cup Thinking!Lines(gz[t]) \subseteq removed'
    BY <1>1
  <2> QED
    BY <1>1, <1>8, <2>1 DEF ThinkingInv, KeptInv, Thinking!EntriesKept, Thinking!Kept
<1>10. Thinking!DeletedIsGone'
  <2> SUFFICES ASSUME NEW d \in gone', d \notin reborn \cup unchained
               PROVE  /\ d \notin Thinking!Lines(raw'[home[d]]) \cup Thinking!Lines(gz'[home[d]])
                      /\ write[d] \notin {"queued", "made"}
    BY <1>1 DEF Thinking!DeletedIsGone, Thinking!Kept, Thinking!Running
  <2>1. home[d] \in Sessions
    BY <1>1, <1>7, <1>8 DEF GoneInv
  <2>2. write[d] \notin {"queued", "made"}
    BY <1>1 DEF ThinkingInv, KeptInv, RemovalInv, Chained, Thinking!DeletedIsGone, Thinking!Running
  <2> QED
    BY <1>2, <2>1, <2>2
<1> QED
  BY <1>3, <1>4, <1>5, <1>6, <1>7, <1>9, <1>10 DEF ThinkingInv, KeptInv

\* Every step of the archive keeps its invariant.
LEMMA ThinkingStep == ThinkingInv /\ Thinking!Next => ThinkingInv'
BY AppendsKeeps, MakesDirectoryKeeps, SavedKeeps, SaveFailsKeeps, ListsKeeps, ReadsKeeps,
   WritesArchiveKeeps, UnlinksKeeps, PassFailsKeeps, DeleteSessionKeeps, RemovesKeeps,
   RemovesFileKeeps, WipeKeeps, ClearsKeeps, RemovesDirectoryKeeps
DEF Thinking!Next

-----------------------------------------------------------------------------
FilesInv == FileInv /\ ThinkingInv

LEMMA FileUnchanged == FileInv /\ UNCHANGED fileVars => FileInv'
BY DEF fileVars, FileInv, SeenInv, AloneInv, HeldInv, EmptyInv, Workspace!FileTypeOK,
       Workspace!AtFile

LEMMA ThinkingUnchanged == ThinkingInv /\ UNCHANGED thinkingVars => ThinkingInv'
<1> SUFFICES ASSUME ThinkingInv, UNCHANGED thinkingVars PROVE ThinkingInv'
  OBVIOUS
<1>1. UNCHANGED <<home, write, previous, sessionWrites, directory, raw, gz, recent, pass, removal,
                  removals, removed, squeezed, unchained, gone, reborn>>
  BY DEF thinkingVars
<1>2. ThinkingTypes'
  BY <1>1 DEF ThinkingInv, ThinkingTypes
<1>3. BegunInv' /\ ChainInv' /\ LastInv' /\ RemovalInv'
  BY <1>1, ChainKept
<1>4. LinesInv' /\ PassInv' /\ TargetInv' /\ GoneInv'
  BY <1>1 DEF ThinkingInv, LinesInv, PassInv, TargetInv, GoneInv
<1>5. KeptInv'
  BY <1>1 DEF ThinkingInv, KeptInv, Thinking!EntriesKept, Thinking!DeletedIsGone, Thinking!Kept,
     Thinking!Running
<1> QED
  BY <1>2, <1>3, <1>4, <1>5 DEF ThinkingInv

LEMMA FilesStep == FilesInv /\ [ComponentsNext]_vars => FilesInv'
<1> SUFFICES ASSUME FilesInv, [ComponentsNext]_vars PROVE FilesInv'
  OBVIOUS
<1>1. CASE part = "thinking" /\ Thinking!Next /\ UNCHANGED fileVars
  BY <1>1, ThinkingStep, FileUnchanged DEF FilesInv
<1>2. CASE part = "files" /\ Workspace!Next /\ UNCHANGED thinkingVars
  BY <1>2, FileStep, ThinkingUnchanged DEF FilesInv
<1>3. CASE UNCHANGED <<fileVars, thinkingVars>>
  BY <1>3, FileUnchanged, ThinkingUnchanged DEF FilesInv
<1> QED
  BY <1>1, <1>2, <1>3 DEF ComponentsNext, vars

\* The losses of the workspace file and of the archive of private reasoning are those the
\* code leaves open and UpdatesKept, EntriesKept, EntriesInOrder and DeletedIsGone name:
\* whatever else fails, ends midway, is refused or is restarted, an acknowledged entry or
\* edit stays on disk until it is replaced or deleted, in order, and what was deleted
\* stays away; and a seeded file is empty only after a call failed.
THEOREM FilesSafe == ComponentsSpec => []FilesAccounted
<1>1. ComponentsInit => FilesInv
  BY InitFile, InitThinking DEF ComponentsInit, FilesInv
<1>2. FilesInv /\ [ComponentsNext]_vars => FilesInv'
  BY FilesStep
<1>3. FilesInv => FilesAccounted
  BY FileImplied, ThinkingImplied DEF FilesInv, FilesAccounted
<1> QED
  BY <1>1, <1>2, <1>3, PTL DEF ComponentsSpec
=============================================================================
