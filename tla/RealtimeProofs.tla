----------------------------- MODULE RealtimeProofs -----------------------------
(***************************************************************************)
(* Proofs about the upstream sessions of a realtime call, Gemini's and     *)
(* OpenAI's: for any number of tool calls, sockets, attempts, items and    *)
(* events, and any limit of the queue of control messages.                 *)
(***************************************************************************)
EXTENDS MCRealtime, FiniteSetTheorems, SequenceTheorems, TLAPS

USE RealtimeAssumption

-----------------------------------------------------------------------------
(***************************************************************************)
(* The session with Gemini, whose socket is replaced under its client.     *)
(***************************************************************************)

\* The calls whose results the model still waits for and nothing has overtaken.
Owed == Gemini!InFlight \ excused

\* GeminiTypeOK, a variable at a time.
SessionTypes ==
    /\ stage \in {"idle", "preparing", "opening", "up", "failed"}
    /\ upstream \in Sockets \cup {NoSocket} /\ opening \in Sockets \cup {NoSocket}
    /\ sock \in [Sockets -> {"unused", "opening", "ready", "closing", "closed"}]
    /\ phase \in {"none", "rebuilding", "opening", "backoff"} /\ attempt \in 0..MaxAttempts
    /\ postResume \in {"off", "listening", "armed"}
    /\ speaker \in Sockets \cup {NoSocket}
    /\ told \in {"nothing", "ready", "rotating", "error"}

GeminiFlags ==
    /\ handle \in BOOLEAN /\ currentlyResumable \in BOOLEAN /\ rotateAfterToolCalls \in BOOLEAN
    /\ isReconnecting \in BOOLEAN /\ resumingWithHandle \in BOOLEAN /\ disconnected \in BOOLEAN
    /\ watchdog \in BOOLEAN /\ cleanly \in BOOLEAN

ToolTypes ==
    /\ pendingToolCalls \in Nat
    /\ call \in [Calls -> {"none", "inFlight", "cancelled", "queued", "over"}]
    /\ askedOn \in [Calls -> Sockets \cup {NoSocket}]
    /\ pendingControl \in Seq(Calls \cup {Gemini!Prompt})
    /\ Len(pendingControl) <= MaxPendingControl
    /\ misdirected \subseteq Calls /\ excused \subseteq Calls

\* Before it is up, and after it failed to come up, nothing is asked of a session.
StageInv ==
    /\ isReconnecting <=> phase # "none"
    /\ stage # "up" =>
          /\ ~isReconnecting /\ postResume = "off" /\ pendingControl = <<>>
          /\ \A c \in Calls : call[c] = "none"
          /\ \A s \in Sockets : sock[s] # "ready" /\ (~disconnected => sock[s] # "closing")
    /\ stage \in {"idle", "preparing"} => opening = NoSocket /\ upstream = NoSocket
    /\ opening # NoSocket <=> stage = "opening" \/ phase = "opening"
    /\ phase = "backoff" => upstream = NoSocket /\ attempt < MaxAttempts

\* The upstream is the one socket that is alive, and the one that is opened, unless a
\* disconnect gave it up.
SocketInv ==
    /\ opening # NoSocket =>
          \/ upstream = opening /\ sock[opening] = "opening"
          \/ upstream = NoSocket /\ disconnected /\ sock[opening] \in {"closing", "closed"}
    /\ \A s \in Sockets :
          \/ sock[s] \in {"opening", "ready"}
          \/ sock[s] = "closing" /\ ~disconnected
          => s = upstream

\* Only what the next session may hear is queued.
QueueInv ==
    /\ ~isReconnecting /\ pendingControl # <<>> => upstream = NoSocket
    /\ \A i \in 1..Len(pendingControl) :
          LET c == pendingControl[i] IN
          c # Gemini!Prompt =>
              /\ call[c] = "queued"
              /\ phase \in {"opening", "backoff"} => c \in excused

\* The count is never below what the present session is owed, and a new one is owed nothing.
OwedInv ==
    /\ phase \in {"opening", "backoff"} => Owed = {}
    /\ upstream # NoSocket => \A c \in Owed : askedOn[c] = upstream
    /\ upstream # NoSocket /\ sock[upstream] \in {"ready", "closing"} =>
          Cardinality(Owed) <= pendingToolCalls
    /\ upstream # NoSocket /\ sock[upstream] = "ready" /\ watchdog => Owed = {}

GeminiInv ==
    /\ SessionTypes /\ GeminiFlags /\ ToolTypes
    /\ StageInv /\ SocketInv /\ QueueInv /\ OwedInv
    /\ Gemini!LastWordIsTrue /\ Gemini!ResponseReachesItsSession

LEMMA OwedFinite == IsFiniteSet(Owed) /\ Cardinality(Owed) \in Nat
<1>1. Owed \subseteq Calls
  BY DEF Owed, Gemini!InFlight
<1> QED
  BY <1>1, FS_Subset, FS_CardinalityType

LEMMA NothingOwed == Cardinality(Owed) <= 0 => Owed = {}
  BY OwedFinite, FS_EmptySet

LEMMA GeminiImplied ==
    GeminiInv => /\ Gemini!GeminiTypeOK /\ Gemini!LastWordIsTrue
                 /\ Gemini!QueueFlushed /\ Gemini!ResponseReachesItsSession /\ Gemini!WatchdogWaits
<1> SUFFICES ASSUME GeminiInv
             PROVE  Gemini!GeminiTypeOK /\ Gemini!QueueFlushed /\ Gemini!WatchdogWaits
  BY DEF GeminiInv
<1>1. Gemini!GeminiTypeOK
  BY DEF GeminiInv, SessionTypes, GeminiFlags, ToolTypes, Gemini!GeminiTypeOK
<1>2. Gemini!QueueFlushed
  BY DEF GeminiInv, QueueInv, Gemini!QueueFlushed
<1>3. Gemini!WatchdogWaits
  BY DEF GeminiInv, OwedInv, Owed, Gemini!InFlight, Gemini!WatchdogWaits
<1> QED
  BY <1>1, <1>2, <1>3

LEMMA InitGemini == Gemini!Init => GeminiInv
<1> SUFFICES ASSUME Gemini!Init PROVE GeminiInv
  OBVIOUS
<1>1. SessionTypes
  <2>1. 0 \in 0..MaxAttempts
    OBVIOUS
  <2> QED
    BY <2>1 DEF Gemini!Init, SessionTypes
<1>2. GeminiFlags
  BY DEF Gemini!Init, GeminiFlags
<1>3. ToolTypes
  <2>1. <<>> \in Seq(Calls \cup {Gemini!Prompt}) /\ Len(<<>>) <= MaxPendingControl
    OBVIOUS
  <2> QED
    BY <2>1 DEF Gemini!Init, ToolTypes
<1>4. StageInv /\ SocketInv
  BY DEF Gemini!Init, StageInv, SocketInv
<1>5. QueueInv
  BY DEF Gemini!Init, QueueInv
<1>6. OwedInv
  BY DEF Gemini!Init, OwedInv
<1>7. Gemini!LastWordIsTrue /\ Gemini!ResponseReachesItsSession
  BY DEF Gemini!Init, Gemini!LastWordIsTrue, Gemini!ResponseReachesItsSession
<1> QED
  BY <1>1, <1>2, <1>3, <1>4, <1>5, <1>6, <1>7 DEF GeminiInv

LEMMA EmptyQueue == <<>> \in Seq(Calls \cup {Gemini!Prompt}) /\ Len(<<>>) = 0
  OBVIOUS

\* Steps that leave the calls alone.
LEMMA CallsStand ==
    ASSUME ToolTypes,
           UNCHANGED <<pendingToolCalls, call, askedOn, pendingControl, misdirected, excused>>
    PROVE  ToolTypes' /\ Owed' = Owed
           /\ (Gemini!ResponseReachesItsSession => Gemini!ResponseReachesItsSession')
<1>1. ToolTypes'
  BY DEF ToolTypes
<1>2. Owed' = Owed
  BY DEF Owed, Gemini!InFlight
<1>3. Gemini!ResponseReachesItsSession => Gemini!ResponseReachesItsSession'
  BY DEF Gemini!ResponseReachesItsSession
<1> QED
  BY <1>1, <1>2, <1>3

\* A message or a close comes from the upstream, which is in use.
LEMMA Alive ==
    ASSUME GeminiInv, NEW s \in Sockets,
           sock[s] = "ready" \/ (sock[s] = "closing" /\ ~disconnected)
    PROVE  /\ s = upstream /\ upstream # NoSocket /\ stage = "up" /\ opening = NoSocket
           /\ phase \in {"none", "rebuilding"}
<1>1. s = upstream /\ s # NoSocket
  BY DEF GeminiInv, SocketInv
<1>2. stage = "up"
  BY DEF GeminiInv, StageInv
<1>3. opening = NoSocket
  BY <1>1 DEF GeminiInv, SocketInv
<1>4. phase \in {"none", "rebuilding"}
  BY <1>1, <1>2, <1>3 DEF GeminiInv, StageInv, SessionTypes
<1> QED
  BY <1>1, <1>2, <1>3, <1>4

\* A new upstream, when no other is alive.
LEMMA UpstreamReplaced ==
    ASSUME GeminiInv, NEW s \in Sockets,
           NEW left \in [Sockets -> {"unused", "opening", "ready", "closing", "closed"}],
           Gemini!OpenUpstream(s, left), UNCHANGED disconnected,
           \A t \in Sockets : left[t] \notin {"opening", "ready"}
                              /\ (~disconnected => left[t] # "closing")
    PROVE  /\ SocketInv' /\ upstream' = s /\ opening' = s /\ sock'[s] = "opening"
           /\ sock' \in [Sockets -> {"unused", "opening", "ready", "closing", "closed"}]
           /\ askedOn' \in [Calls -> Sockets \cup {NoSocket}]
           /\ speaker' \in Sockets \cup {NoSocket} /\ cleanly' = FALSE
           /\ \A t \in Sockets : sock'[t] # "ready" /\ (~disconnected => sock'[t] # "closing")
<1>1. /\ sock' = [left EXCEPT ![s] = "opening"] /\ upstream' = s /\ opening' = s
      /\ askedOn' = [c \in Calls |-> IF askedOn[c] = s THEN NoSocket ELSE askedOn[c]]
      /\ speaker' = IF speaker = s THEN NoSocket ELSE speaker
      /\ cleanly' = FALSE
  BY DEF Gemini!OpenUpstream
<1>2. /\ sock'[s] = "opening"
      /\ sock' \in [Sockets -> {"unused", "opening", "ready", "closing", "closed"}]
      /\ \A t \in Sockets \ {s} : sock'[t] = left[t]
  BY <1>1
<1>3. askedOn' \in [Calls -> Sockets \cup {NoSocket}] /\ speaker' \in Sockets \cup {NoSocket}
  <2>1. askedOn \in [Calls -> Sockets \cup {NoSocket}] /\ speaker \in Sockets \cup {NoSocket}
    BY DEF GeminiInv, ToolTypes, SessionTypes
  <2> QED
    BY <1>1, <2>1
<1>4. \A t \in Sockets : sock'[t] # "ready" /\ (~disconnected => sock'[t] # "closing")
  BY <1>2
<1>5. SocketInv'
  <2>1. upstream' = opening' /\ sock'[opening'] = "opening"
    BY <1>1, <1>2
  <2>2. \A t \in Sockets :
           (\/ sock'[t] \in {"opening", "ready"}
            \/ sock'[t] = "closing" /\ ~disconnected') => t = upstream'
    BY <1>1, <1>2
  <2> QED
    BY <2>1, <2>2, Zenon DEF SocketInv
<1> QED
  BY <1>1, <1>2, <1>3, <1>4, <1>5

\* The session is replaced by a new one, which is owed nothing.
LEMMA SwapKeeps ==
    ASSUME GeminiInv, stage = "up", NEW s \in Sockets, Gemini!Swap(s), isReconnecting' = TRUE,
           Owed' = {}, excused \subseteq excused', excused' \subseteq Calls,
           \A i \in 1..Len(pendingControl) :
              pendingControl[i] # Gemini!Prompt => pendingControl[i] \in excused',
           handle' \in BOOLEAN, currentlyResumable' \in BOOLEAN, rotateAfterToolCalls' \in BOOLEAN,
           resumingWithHandle' \in BOOLEAN,
           UNCHANGED <<stage, call, postResume, pendingControl, misdirected, disconnected,
                       pendingToolCalls>>
    PROVE  GeminiInv'
<1>1. /\ Gemini!OpenUpstream(s, Gemini!TornDown) /\ watchdog' = FALSE
      /\ phase' = "opening" /\ attempt' = 1 /\ told' = IF disconnected THEN told ELSE "rotating"
  BY DEF Gemini!Swap, Gemini!Tell
<1> DEFINE left == Gemini!TornDown
<1>2. /\ left \in [Sockets -> {"unused", "opening", "ready", "closing", "closed"}]
      /\ \A t \in Sockets : left[t] \notin {"opening", "ready"}
                            /\ (~disconnected => left[t] # "closing")
  BY DEF GeminiInv, SessionTypes, SocketInv, Gemini!TornDown
<1> HIDE DEF left
<1>3. /\ SocketInv' /\ upstream' = s /\ opening' = s /\ sock'[s] = "opening"
      /\ sock' \in [Sockets -> {"unused", "opening", "ready", "closing", "closed"}]
      /\ askedOn' \in [Calls -> Sockets \cup {NoSocket}]
      /\ speaker' \in Sockets \cup {NoSocket} /\ cleanly' = FALSE
  <2>1. Gemini!OpenUpstream(s, left)
    BY <1>1 DEF left
  <2> QED
    BY <1>2, <2>1, UpstreamReplaced
<1>4. SessionTypes'
  <2>1. 1 \in 0..MaxAttempts
    OBVIOUS
  <2> QED
    BY <1>1, <1>3, <2>1 DEF GeminiInv, SessionTypes
<1>5. GeminiFlags'
  BY <1>1, <1>3 DEF GeminiInv, GeminiFlags
<1>6. ToolTypes'
  BY <1>3 DEF GeminiInv, ToolTypes
<1>7. StageInv'
  BY <1>1, <1>3 DEF GeminiInv, StageInv
<1>8. QueueInv'
  BY DEF GeminiInv, QueueInv
<1>9. OwedInv'
  <2>1. sock'[upstream'] = "opening"
    BY <1>3
  <2> QED
    BY <1>1, <2>1 DEF OwedInv
<1>10. Gemini!LastWordIsTrue' /\ Gemini!ResponseReachesItsSession'
  BY <1>1 DEF GeminiInv, Gemini!LastWordIsTrue, Gemini!ResponseReachesItsSession
<1> QED
  BY <1>3, <1>4, <1>5, <1>6, <1>7, <1>8, <1>9, <1>10 DEF GeminiInv

\* A rotation, of a session that is owed nothing.
LEMMA RotateGeminiKeeps ==
    ASSUME GeminiInv, NEW s \in Sockets, Gemini!Rotate(s), ~isReconnecting, ~disconnected,
           upstream # NoSocket, sock[upstream] \in {"ready", "closing"}, pendingToolCalls = 0,
           handle' \in BOOLEAN,
           UNCHANGED <<stage, call, excused, postResume, pendingControl, misdirected,
                       disconnected, pendingToolCalls>>
    PROVE  GeminiInv'
<1>1. /\ isReconnecting' = TRUE /\ resumingWithHandle' = TRUE
      /\ currentlyResumable' = FALSE /\ rotateAfterToolCalls' = FALSE /\ Gemini!Swap(s)
  BY DEF Gemini!Rotate
<1>2. stage = "up" /\ pendingControl = <<>>
  BY Alive DEF GeminiInv, SessionTypes, QueueInv
<1>3. Owed = {}
  BY NothingOwed DEF GeminiInv, OwedInv
<1>4. Owed' = Owed
  BY DEF Owed, Gemini!InFlight
<1>5. excused \subseteq Calls
  BY DEF GeminiInv, ToolTypes
<1>6. \A i \in 1..Len(pendingControl) : pendingControl[i] \in excused'
  BY <1>2
<1>7. Owed' = {} /\ excused \subseteq excused' /\ excused' \subseteq Calls
  BY <1>3, <1>4, <1>5
<1> QED
  BY <1>1, <1>2, <1>6, <1>7, SwapKeeps

LEMMA ConnectGeminiKeeps == ASSUME GeminiInv, Gemini!Connect PROVE GeminiInv'
<1>1. /\ stage = "idle" /\ stage' = "preparing"
      /\ UNCHANGED <<upstream, sock, opening, pendingToolCalls, call, askedOn, excused, handle,
                     currentlyResumable, rotateAfterToolCalls, isReconnecting, phase, attempt,
                     resumingWithHandle, postResume, pendingControl, misdirected, speaker,
                     watchdog, disconnected, told, cleanly>>
  BY DEF Gemini!Connect, Gemini!socketVars, Gemini!callVars, Gemini!resumeVars,
         Gemini!rotationVars, Gemini!sentVars
<1>2. SessionTypes' /\ GeminiFlags'
  BY <1>1 DEF GeminiInv, SessionTypes, GeminiFlags
<1>3. ToolTypes' /\ Owed' = Owed /\ Gemini!ResponseReachesItsSession'
  BY <1>1, CallsStand DEF GeminiInv
<1>4. StageInv' /\ SocketInv'
  BY <1>1 DEF GeminiInv, StageInv, SocketInv
<1>5. QueueInv' /\ OwedInv'
  BY <1>1, <1>3 DEF GeminiInv, QueueInv, OwedInv
<1>6. Gemini!LastWordIsTrue'
  BY <1>1 DEF Gemini!LastWordIsTrue
<1> QED
  BY <1>2, <1>3, <1>4, <1>5, <1>6 DEF GeminiInv

LEMMA PreparedGeminiKeeps ==
    ASSUME GeminiInv, NEW s \in Sockets, Gemini!Prepared(s) PROVE GeminiInv'
<1>1. /\ stage = "preparing" /\ stage' = "opening" /\ Gemini!OpenUpstream(s, sock)
      /\ UNCHANGED <<pendingToolCalls, call, excused, handle, currentlyResumable,
                     rotateAfterToolCalls, isReconnecting, phase, attempt, resumingWithHandle,
                     postResume, pendingControl, misdirected, watchdog, disconnected, told>>
  BY DEF Gemini!Prepared, Gemini!resumeVars, Gemini!rotationVars, Gemini!sentVars
<1>2. sock \in [Sockets -> {"unused", "opening", "ready", "closing", "closed"}]
  BY DEF GeminiInv, SessionTypes
<1>3. /\ upstream = NoSocket /\ phase = "none" /\ pendingControl = <<>>
      /\ \A c \in Calls : call[c] = "none"
  BY <1>1 DEF GeminiInv, StageInv, SessionTypes
<1>4. \A t \in Sockets :
         sock[t] \notin {"opening", "ready"} /\ (~disconnected => sock[t] # "closing")
  BY <1>1, <1>3 DEF GeminiInv, StageInv, SocketInv
<1>5. /\ SocketInv' /\ upstream' = s /\ opening' = s /\ sock'[s] = "opening"
      /\ sock' \in [Sockets -> {"unused", "opening", "ready", "closing", "closed"}]
      /\ askedOn' \in [Calls -> Sockets \cup {NoSocket}]
      /\ speaker' \in Sockets \cup {NoSocket} /\ cleanly' = FALSE
      /\ \A t \in Sockets : sock'[t] # "ready" /\ (~disconnected => sock'[t] # "closing")
  BY <1>1, <1>2, <1>4, UpstreamReplaced
<1>6. SessionTypes'
  BY <1>1, <1>5 DEF GeminiInv, SessionTypes
<1>7. GeminiFlags'
  BY <1>1, <1>5 DEF GeminiInv, GeminiFlags
<1>8. ToolTypes'
  BY <1>1, <1>5 DEF GeminiInv, ToolTypes
<1>9. StageInv'
  BY <1>1, <1>3, <1>5 DEF GeminiInv, StageInv
<1>10. QueueInv'
  BY <1>1, <1>3 DEF QueueInv
<1>11. OwedInv'
  <2>1. sock'[upstream'] = "opening"
    BY <1>5
  <2>2. Owed' = {}
    BY <1>1, <1>3 DEF Owed, Gemini!InFlight
  <2> QED
    BY <2>1, <2>2 DEF OwedInv
<1>12. Gemini!LastWordIsTrue' /\ Gemini!ResponseReachesItsSession'
  BY <1>1 DEF GeminiInv, Gemini!LastWordIsTrue, Gemini!ResponseReachesItsSession
<1> QED
  BY <1>5, <1>6, <1>7, <1>8, <1>9, <1>10, <1>11, <1>12 DEF GeminiInv

LEMMA BackoffOverKeeps ==
    ASSUME GeminiInv, NEW s \in Sockets, Gemini!BackoffOver(s) PROVE GeminiInv'
<1>1. /\ phase = "backoff" /\ phase' = "opening" /\ attempt' = attempt + 1
      /\ Gemini!OpenUpstream(s, sock)
      /\ UNCHANGED <<stage, pendingToolCalls, call, excused, handle, currentlyResumable,
                     rotateAfterToolCalls, isReconnecting, resumingWithHandle, postResume,
                     pendingControl, misdirected, watchdog, disconnected, told>>
  BY DEF Gemini!BackoffOver, Gemini!resumeVars, Gemini!sentVars
<1>2. sock \in [Sockets -> {"unused", "opening", "ready", "closing", "closed"}]
  BY DEF GeminiInv, SessionTypes
<1>3. upstream = NoSocket /\ attempt < MaxAttempts /\ isReconnecting /\ stage = "up"
  BY <1>1 DEF GeminiInv, StageInv, SessionTypes
<1>4. \A t \in Sockets :
         sock[t] \notin {"opening", "ready"} /\ (~disconnected => sock[t] # "closing")
  BY <1>3 DEF GeminiInv, SocketInv
<1>5. /\ SocketInv' /\ upstream' = s /\ opening' = s /\ sock'[s] = "opening"
      /\ sock' \in [Sockets -> {"unused", "opening", "ready", "closing", "closed"}]
      /\ askedOn' \in [Calls -> Sockets \cup {NoSocket}]
      /\ speaker' \in Sockets \cup {NoSocket} /\ cleanly' = FALSE
      /\ \A t \in Sockets : sock'[t] # "ready" /\ (~disconnected => sock'[t] # "closing")
  BY <1>1, <1>2, <1>4, UpstreamReplaced
<1>6. SessionTypes'
  <2>1. attempt' \in 0..MaxAttempts
    BY <1>1, <1>3 DEF GeminiInv, SessionTypes
  <2> QED
    BY <1>1, <1>5, <2>1 DEF GeminiInv, SessionTypes
<1>7. GeminiFlags'
  BY <1>1, <1>5 DEF GeminiInv, GeminiFlags
<1>8. ToolTypes'
  BY <1>1, <1>5 DEF GeminiInv, ToolTypes
<1>9. StageInv'
  BY <1>1, <1>3, <1>5 DEF GeminiInv, StageInv
<1>10. QueueInv'
  BY <1>1, <1>3 DEF GeminiInv, QueueInv
<1>11. OwedInv'
  <2>1. sock'[upstream'] = "opening"
    BY <1>5
  <2>2. Owed' = {}
    BY <1>1 DEF GeminiInv, OwedInv, Owed, Gemini!InFlight
  <2> QED
    BY <2>1, <2>2 DEF OwedInv
<1>12. Gemini!LastWordIsTrue' /\ Gemini!ResponseReachesItsSession'
  BY <1>1, <1>3, <1>5 DEF GeminiInv, Gemini!LastWordIsTrue, Gemini!ResponseReachesItsSession
<1> QED
  BY <1>5, <1>6, <1>7, <1>8, <1>9, <1>10, <1>11, <1>12 DEF GeminiInv

\* The queue is flushed to the session that is ready, which is owed nothing.
LEMMA SetupCompleteKeeps ==
    ASSUME GeminiInv, NEW s \in Sockets, Gemini!SetupComplete(s) PROVE GeminiInv'
<1>1. /\ opening = s /\ sock[s] = "opening" /\ opening' = NoSocket
      /\ sock' = [sock EXCEPT ![s] = "ready"] /\ told' = IF disconnected THEN told ELSE "ready"
      /\ watchdog' = (pendingToolCalls = 0)
      /\ UNCHANGED <<upstream, pendingToolCalls, askedOn, excused, handle, currentlyResumable,
                     rotateAfterToolCalls, speaker, disconnected, cleanly>>
  BY DEF Gemini!SetupComplete, Gemini!Tell, Gemini!ResetWatchdog, Gemini!resumeVars
<1>2. \/ /\ stage = "opening" /\ stage' = "up"
         /\ UNCHANGED <<isReconnecting, phase, attempt, resumingWithHandle, postResume>>
      \/ /\ stage # "opening" /\ stage' = stage /\ isReconnecting' = FALSE /\ phase' = "none"
         /\ attempt' = 0 /\ resumingWithHandle' = FALSE /\ postResume' \in {"listening", postResume}
  BY DEF Gemini!SetupComplete, Gemini!rotationVars
<1>3. upstream = s /\ s # NoSocket
  BY <1>1 DEF GeminiInv, SocketInv
<1>4. Gemini!FlushPending
  BY <1>3 DEF Gemini!SetupComplete
<1>5. stage' = "up" /\ phase' = "none" /\ isReconnecting' = FALSE
  BY <1>1, <1>2, <1>3 DEF GeminiInv, StageInv, SessionTypes, GeminiFlags
<1>6. Owed = {}
  <2>1. CASE stage = "opening"
    BY <2>1 DEF GeminiInv, StageInv, Owed, Gemini!InFlight
  <2>2. CASE stage # "opening"
    <3>1. phase = "opening"
      BY <1>1, <1>3, <2>2 DEF GeminiInv, StageInv
    <3> QED
      BY <3>1 DEF GeminiInv, OwedInv
  <2> QED
    BY <2>1, <2>2
<1> DEFINE queued == {pendingControl[i] : i \in DOMAIN pendingControl} \ {Gemini!Prompt}
<1>7. /\ pendingControl' = <<>>
      /\ misdirected' = misdirected \cup {c \in queued : askedOn[c] # opening}
      /\ call' = [c \in Calls |-> IF c \in queued THEN "over" ELSE call[c]]
  BY <1>4 DEF Gemini!FlushPending
<1>8. queued \subseteq Calls /\ queued \subseteq excused
  <2>1. DOMAIN pendingControl = 1..Len(pendingControl)
        /\ \A i \in 1..Len(pendingControl) : pendingControl[i] \in Calls \cup {Gemini!Prompt}
    BY DEF GeminiInv, ToolTypes
  <2>2. CASE stage = "opening"
    <3>1. DOMAIN pendingControl = {}
      BY <2>2 DEF GeminiInv, StageInv
    <3> QED
      BY <3>1
  <2>3. CASE stage # "opening"
    <3>1. phase = "opening"
      BY <1>1, <1>3, <2>3 DEF GeminiInv, StageInv
    <3> QED
      BY <2>1, <3>1 DEF GeminiInv, QueueInv
  <2> QED
    BY <2>2, <2>3
<1> HIDE DEF queued
<1>9. SessionTypes'
  <2>1. attempt' \in 0..MaxAttempts
    BY <1>2 DEF GeminiInv, SessionTypes
  <2>2. sock' \in [Sockets -> {"unused", "opening", "ready", "closing", "closed"}]
    BY <1>1 DEF GeminiInv, SessionTypes
  <2> QED
    BY <1>1, <1>2, <1>5, <2>1, <2>2 DEF GeminiInv, SessionTypes
<1>10. GeminiFlags'
  BY <1>1, <1>2 DEF GeminiInv, GeminiFlags
<1>11. ToolTypes'
  <2>1. call' \in [Calls -> {"none", "inFlight", "cancelled", "queued", "over"}]
    BY <1>7 DEF GeminiInv, ToolTypes
  <2>2. misdirected' \subseteq Calls
    BY <1>7, <1>8 DEF GeminiInv, ToolTypes
  <2> QED
    BY <1>1, <1>7, <2>1, <2>2, EmptyQueue DEF GeminiInv, ToolTypes
<1>12. StageInv'
  BY <1>1, <1>5 DEF StageInv
<1>13. SocketInv'
  <2>1. \A t \in Sockets \ {s} : sock'[t] = sock[t]
    BY <1>1 DEF GeminiInv, SessionTypes
  <2> QED
    BY <1>1, <1>3, <2>1 DEF GeminiInv, SocketInv
<1>14. QueueInv'
  BY <1>7 DEF QueueInv
<1>15. OwedInv'
  <2>1. Owed' \subseteq Owed
    BY <1>1, <1>7 DEF Owed, Gemini!InFlight
  <2>2. Owed' = {} /\ Cardinality(Owed') = 0
    BY <1>6, <2>1, FS_EmptySet
  <2>3. pendingToolCalls' \in Nat
    BY <1>11 DEF ToolTypes
  <2> QED
    BY <2>2, <2>3 DEF OwedInv
<1>16. Gemini!LastWordIsTrue'
  <2>1. sock'[s] = "ready"
    BY <1>1 DEF GeminiInv, SessionTypes
  <2> QED
    BY <1>1, <2>1 DEF Gemini!LastWordIsTrue
<1>17. Gemini!ResponseReachesItsSession'
  BY <1>1, <1>7, <1>8 DEF GeminiInv, Gemini!ResponseReachesItsSession
<1> QED
  BY <1>9, <1>10, <1>11, <1>12, <1>13, <1>14, <1>15, <1>16, <1>17 DEF GeminiInv

LEMMA SetupFailsKeeps ==
    ASSUME GeminiInv, NEW s \in Sockets, Gemini!SetupFails(s) PROVE GeminiInv'
<1>1. /\ opening = s /\ opening' = NoSocket /\ sock' = [sock EXCEPT ![s] = "closed"]
      /\ upstream' = IF upstream = s THEN NoSocket ELSE upstream
      /\ UNCHANGED <<pendingToolCalls, call, askedOn, excused, handle, currentlyResumable,
                     rotateAfterToolCalls, resumingWithHandle, postResume, pendingControl,
                     misdirected, speaker, watchdog, disconnected, cleanly>>
  BY DEF Gemini!SetupFails, Gemini!callVars, Gemini!resumeVars, Gemini!sentVars,
         Gemini!rotationVars
<1>2. \/ /\ stage = "opening" /\ stage' = "failed"
         /\ told' \in {told, "error"} /\ UNCHANGED <<isReconnecting, phase, attempt>>
      \/ /\ stage # "opening" /\ stage' = stage /\ attempt < MaxAttempts /\ phase' = "backoff"
         /\ UNCHANGED <<isReconnecting, attempt, told>>
      \/ /\ stage # "opening" /\ stage' = stage /\ isReconnecting' = FALSE /\ phase' = "none"
         /\ attempt' = 0 /\ told' = IF disconnected THEN told ELSE "error"
  BY DEF Gemini!SetupFails, Gemini!GiveUp, Gemini!Tell, Gemini!rotationVars
<1>3. upstream' = NoSocket
  BY <1>1 DEF GeminiInv, SocketInv
<1>4. stage = "opening" \/ phase = "opening"
  BY <1>1 DEF GeminiInv, StageInv
<1>5. /\ sock' \in [Sockets -> {"unused", "opening", "ready", "closing", "closed"}]
      /\ sock'[s] = "closed" /\ \A t \in Sockets \ {s} : sock'[t] = sock[t]
  BY <1>1 DEF GeminiInv, SessionTypes
<1>6. SessionTypes'
  <2>1. attempt' \in 0..MaxAttempts
    BY <1>2 DEF GeminiInv, SessionTypes
  <2> QED
    BY <1>1, <1>2, <1>3, <1>5, <2>1 DEF GeminiInv, SessionTypes
<1>7. GeminiFlags'
  BY <1>1, <1>2 DEF GeminiInv, GeminiFlags
<1>8. ToolTypes' /\ Owed' = Owed /\ Gemini!ResponseReachesItsSession'
  BY <1>1, CallsStand DEF GeminiInv
<1>9. StageInv'
  <2>1. CASE stage = "opening"
    BY <1>1, <1>2, <1>3, <1>5, <2>1 DEF GeminiInv, StageInv
  <2>2. CASE stage # "opening"
    BY <1>1, <1>2, <1>3, <1>4, <2>2 DEF GeminiInv, StageInv
  <2> QED
    BY <2>1, <2>2
<1>10. SocketInv'
  <2>1. ASSUME NEW t \in Sockets,
               sock'[t] \in {"opening", "ready"} \/ (sock'[t] = "closing" /\ ~disconnected)
        PROVE  FALSE
    <3>1. t # s /\ sock'[t] = sock[t]
      BY <1>5, <2>1
    <3>2. t = upstream
      BY <2>1, <3>1 DEF GeminiInv, SocketInv
    <3> QED
      BY <1>1, <3>1, <3>2 DEF GeminiInv, SocketInv
  <2>2. \A t \in Sockets :
           (\/ sock'[t] \in {"opening", "ready"}
            \/ sock'[t] = "closing" /\ ~disconnected') => t = upstream'
    BY <1>1, <2>1
  <2> QED
    BY <1>1, <2>2, Zenon DEF SocketInv
<1>11. QueueInv'
  <2>1. phase' \in {"opening", "backoff"} => phase \in {"opening", "backoff"}
    BY <1>2, <1>4
  <2> QED
    BY <1>1, <1>3, <2>1 DEF GeminiInv, QueueInv
<1>12. OwedInv'
  BY <1>2, <1>3, <1>4, <1>8 DEF GeminiInv, OwedInv
<1>13. Gemini!LastWordIsTrue'
  <2>1. stage # "opening" => isReconnecting
    BY <1>4 DEF GeminiInv, StageInv
  <2>2. \A t \in Sockets : ~disconnected => sock'[t] # "ready"
    <3>1. \A t \in Sockets : ~disconnected => sock[t] # "ready"
      BY <1>1 DEF GeminiInv, SocketInv
    <3> QED
      BY <1>5, <3>1
  <2> QED
    BY <1>1, <1>2, <2>1, <2>2 DEF GeminiInv, Gemini!LastWordIsTrue
<1> QED
  BY <1>6, <1>7, <1>8, <1>9, <1>10, <1>11, <1>12, <1>13 DEF GeminiInv

LEMMA PostResumeTimeoutKeeps == ASSUME GeminiInv, Gemini!PostResumeTimeout PROVE GeminiInv'
<1>1. /\ postResume = "armed" /\ postResume' = "off"
      /\ UNCHANGED <<stage, upstream, sock, opening, pendingToolCalls, call, askedOn,
                     pendingControl, misdirected, speaker, watchdog, disconnected, told, cleanly, attempt,
                     resumingWithHandle>>
  BY DEF Gemini!PostResumeTimeout, Gemini!socketVars, Gemini!sentVars, Gemini!rotationVars
<1>2. /\ excused' \in {excused, excused \cup Gemini!InFlight}
      /\ handle' \in {handle, FALSE} /\ currentlyResumable' \in {currentlyResumable, FALSE}
      /\ rotateAfterToolCalls' \in {rotateAfterToolCalls, FALSE}
      /\ \/ UNCHANGED <<isReconnecting, phase>>
         \/ ~isReconnecting /\ isReconnecting' = TRUE /\ phase' = "rebuilding"
  BY DEF Gemini!PostResumeTimeout, Gemini!resumeVars, Gemini!rotationVars
<1>3. stage = "up"
  BY <1>1 DEF GeminiInv, StageInv
<1>4. excused \subseteq excused' /\ Owed' \subseteq Owed
  BY <1>1, <1>2 DEF Owed, Gemini!InFlight
<1>5. SessionTypes'
  BY <1>1, <1>2 DEF GeminiInv, SessionTypes
<1>6. GeminiFlags'
  BY <1>1, <1>2 DEF GeminiInv, GeminiFlags
<1>7. ToolTypes'
  <2>1. excused' \subseteq Calls
    BY <1>2 DEF GeminiInv, ToolTypes, Gemini!InFlight
  <2> QED
    BY <1>1, <2>1 DEF GeminiInv, ToolTypes
<1>8. StageInv' /\ SocketInv'
  <2>1. SocketInv'
    BY <1>1 DEF GeminiInv, SocketInv
  <2>2. isReconnecting' <=> phase' # "none"
    BY <1>2 DEF GeminiInv, StageInv
  <2>3. opening' # NoSocket <=> stage' = "opening" \/ phase' = "opening"
    BY <1>1, <1>2, <1>3 DEF GeminiInv, StageInv
  <2>4. phase' = "backoff" => upstream' = NoSocket /\ attempt' < MaxAttempts
    BY <1>1, <1>2 DEF GeminiInv, StageInv
  <2> QED
    BY <1>1, <1>3, <2>1, <2>2, <2>3, <2>4 DEF StageInv
<1>9. QueueInv'
  BY <1>1, <1>2, <1>4 DEF GeminiInv, QueueInv
<1>10. OwedInv'
  <2>1. phase' \in {"opening", "backoff"} => Owed' = {}
    BY <1>2, <1>4 DEF GeminiInv, OwedInv
  <2>2. Cardinality(Owed') <= Cardinality(Owed) /\ Cardinality(Owed') \in Nat
    BY <1>4, OwedFinite, FS_Subset, FS_CardinalityType
  <2>3. upstream # NoSocket => \A c \in Owed' : askedOn[c] = upstream
    BY <1>4 DEF GeminiInv, OwedInv
  <2>4. upstream # NoSocket /\ sock[upstream] \in {"ready", "closing"} =>
           Cardinality(Owed') <= pendingToolCalls
    BY <2>2, OwedFinite DEF GeminiInv, OwedInv, ToolTypes
  <2>5. upstream # NoSocket /\ sock[upstream] = "ready" /\ watchdog => Owed' = {}
    BY <1>4 DEF GeminiInv, OwedInv
  <2> QED
    BY <1>1, <2>1, <2>3, <2>4, <2>5 DEF OwedInv
<1>11. Gemini!LastWordIsTrue'
  BY <1>1, <1>2 DEF GeminiInv, Gemini!LastWordIsTrue
<1>12. Gemini!ResponseReachesItsSession'
  BY <1>1, <1>4 DEF GeminiInv, Gemini!ResponseReachesItsSession
<1> QED
  BY <1>5, <1>6, <1>7, <1>8, <1>9, <1>10, <1>11, <1>12 DEF GeminiInv

LEMMA RebuiltKeeps == ASSUME GeminiInv, NEW s \in Sockets, Gemini!Rebuilt(s) PROVE GeminiInv'
<1>1. /\ phase = "rebuilding" /\ Gemini!Swap(s) /\ resumingWithHandle' = handle
      /\ excused' = excused \cup {c \in Calls : call[c] \in {"inFlight", "queued"}}
      /\ UNCHANGED <<stage, pendingToolCalls, call, handle, currentlyResumable,
                     rotateAfterToolCalls, isReconnecting, postResume, pendingControl,
                     misdirected, disconnected>>
  BY DEF Gemini!Rebuilt, Gemini!resumeVars, Gemini!sentVars
<1>2. stage = "up" /\ isReconnecting' = TRUE
  BY <1>1 DEF GeminiInv, StageInv, SessionTypes, GeminiFlags
<1>3. Owed' = {}
  BY <1>1 DEF Owed, Gemini!InFlight
<1>4. excused \subseteq excused' /\ excused' \subseteq Calls
  BY <1>1 DEF GeminiInv, ToolTypes
<1>5. \A i \in 1..Len(pendingControl) :
         pendingControl[i] # Gemini!Prompt => pendingControl[i] \in excused'
  <2>1. \A i \in 1..Len(pendingControl) : pendingControl[i] \in Calls \cup {Gemini!Prompt}
    BY DEF GeminiInv, ToolTypes
  <2> QED
    BY <1>1, <2>1 DEF GeminiInv, QueueInv
<1>6. /\ handle' \in BOOLEAN /\ currentlyResumable' \in BOOLEAN /\ rotateAfterToolCalls' \in BOOLEAN
      /\ resumingWithHandle' \in BOOLEAN
  BY <1>1 DEF GeminiInv, GeminiFlags
<1> QED
  BY <1>1, <1>2, <1>3, <1>4, <1>5, <1>6, SwapKeeps

\* A call is asked for on the upstream, and counted.
LEMMA ServerToolCallKeeps ==
    ASSUME GeminiInv, NEW s \in Sockets, NEW c \in Calls, Gemini!ServerToolCall(s, c)
    PROVE  GeminiInv'
<1>1. /\ sock[s] = "ready" /\ call[c] = "none"
      /\ call' = [call EXCEPT ![c] = "inFlight"] /\ askedOn' = [askedOn EXCEPT ![c] = s]
      /\ pendingToolCalls' = pendingToolCalls + 1 /\ watchdog' = FALSE
      /\ misdirected' = misdirected \ {c} /\ excused' = excused \ {c}
      /\ UNCHANGED <<stage, upstream, sock, opening, handle, currentlyResumable,
                     rotateAfterToolCalls, isReconnecting, phase, attempt, resumingWithHandle,
                     postResume, pendingControl, speaker, disconnected, told, cleanly>>
  BY DEF Gemini!ServerToolCall, Gemini!Delivers, Gemini!socketVars, Gemini!resumeVars,
         Gemini!rotationVars
<1>2. /\ s = upstream /\ upstream # NoSocket /\ stage = "up" /\ opening = NoSocket
      /\ phase \in {"none", "rebuilding"}
  BY <1>1, Alive
<1>3. /\ call' \in [Calls -> {"none", "inFlight", "cancelled", "queued", "over"}]
      /\ askedOn' \in [Calls -> Sockets \cup {NoSocket}]
      /\ call'[c] = "inFlight" /\ askedOn'[c] = s
      /\ \A d \in Calls \ {c} : call'[d] = call[d] /\ askedOn'[d] = askedOn[d]
  BY <1>1 DEF GeminiInv, ToolTypes
<1>4. Owed' = Owed \cup {c} /\ c \notin Owed
  BY <1>1, <1>3 DEF Owed, Gemini!InFlight
<1>5. SessionTypes' /\ GeminiFlags'
  <2>1. SessionTypes'
    BY <1>1 DEF GeminiInv, SessionTypes
  <2>2. GeminiFlags'
    BY <1>1 DEF GeminiInv, GeminiFlags
  <2> QED
    BY <2>1, <2>2
<1>6. ToolTypes'
  BY <1>1, <1>3 DEF GeminiInv, ToolTypes
<1>7. StageInv' /\ SocketInv'
  BY <1>1, <1>2 DEF GeminiInv, StageInv, SocketInv
<1>8. QueueInv'
  <2>1. ASSUME NEW i \in 1..Len(pendingControl), pendingControl[i] # Gemini!Prompt
        PROVE  call'[pendingControl[i]] = "queued"
    <3>1. pendingControl[i] \in Calls /\ call[pendingControl[i]] = "queued"
      BY <2>1 DEF GeminiInv, QueueInv, ToolTypes
    <3> QED
      BY <1>1, <1>3, <3>1
  <2> QED
    BY <1>1, <1>2, <2>1 DEF GeminiInv, QueueInv
<1>9. OwedInv'
  <2>1. Cardinality(Owed') = Cardinality(Owed) + 1
    BY <1>4, OwedFinite, FS_AddElement
  <2>2. Cardinality(Owed) <= pendingToolCalls
    BY <1>1, <1>2 DEF GeminiInv, OwedInv
  <2>3. Cardinality(Owed') <= pendingToolCalls'
    BY <1>1, <2>1, <2>2, OwedFinite DEF GeminiInv, ToolTypes
  <2>4. \A d \in Owed' : askedOn'[d] = upstream'
    <3>1. Owed \subseteq Calls
      BY DEF Owed, Gemini!InFlight
    <3> QED
      BY <1>1, <1>2, <1>3, <1>4, <3>1 DEF GeminiInv, OwedInv
  <2> QED
    BY <1>1, <1>2, <2>3, <2>4 DEF OwedInv
<1>10. Gemini!LastWordIsTrue'
  BY <1>1 DEF GeminiInv, Gemini!LastWordIsTrue
<1>11. Gemini!ResponseReachesItsSession'
  BY <1>1 DEF GeminiInv, Gemini!ResponseReachesItsSession
<1> QED
  BY <1>5, <1>6, <1>7, <1>8, <1>9, <1>10, <1>11 DEF GeminiInv

\* What was not cancelled is no longer counted, and no longer relied on.
LEMMA ToolCallCancellationKeeps ==
    ASSUME GeminiInv, NEW s \in Sockets, NEW cs \in SUBSET Calls, Gemini!ToolCallCancellation(s, cs)
    PROVE  GeminiInv'
<1>1. /\ sock[s] = "ready" /\ cs \subseteq Gemini!InFlight
      /\ call' = [c \in Calls |-> IF c \in cs THEN "cancelled" ELSE call[c]]
      /\ pendingToolCalls' = 0 /\ watchdog' = (0 = 0)
      /\ excused' = excused \cup (Gemini!InFlight \ cs)
      /\ UNCHANGED <<stage, upstream, sock, opening, askedOn, handle, currentlyResumable,
                     rotateAfterToolCalls, isReconnecting, phase, attempt, resumingWithHandle,
                     postResume, pendingControl, misdirected, speaker, disconnected, told, cleanly>>
  BY DEF Gemini!ToolCallCancellation, Gemini!Delivers, Gemini!ResetWatchdog, Gemini!InFlight,
         Gemini!socketVars, Gemini!resumeVars, Gemini!rotationVars, Gemini!sentVars
<1>2. /\ s = upstream /\ upstream # NoSocket /\ stage = "up" /\ opening = NoSocket
      /\ phase \in {"none", "rebuilding"}
  BY <1>1, Alive
<1>3. /\ call' \in [Calls -> {"none", "inFlight", "cancelled", "queued", "over"}]
      /\ excused \subseteq excused' /\ excused' \subseteq Calls
      /\ \A d \in Calls : call[d] = "queued" => call'[d] = "queued"
  BY <1>1 DEF GeminiInv, ToolTypes, Gemini!InFlight
<1>4. Owed' = {}
  BY <1>1 DEF Owed, Gemini!InFlight
<1>5. SessionTypes' /\ GeminiFlags'
  <2>1. SessionTypes'
    BY <1>1 DEF GeminiInv, SessionTypes
  <2>2. GeminiFlags'
    BY <1>1 DEF GeminiInv, GeminiFlags
  <2> QED
    BY <2>1, <2>2
<1>6. ToolTypes'
  BY <1>1, <1>3 DEF GeminiInv, ToolTypes
<1>7. StageInv' /\ SocketInv'
  BY <1>1, <1>2 DEF GeminiInv, StageInv, SocketInv
<1>8. QueueInv'
  <2>1. ASSUME NEW i \in 1..Len(pendingControl), pendingControl[i] # Gemini!Prompt
        PROVE  call'[pendingControl[i]] = "queued"
    <3>1. pendingControl[i] \in Calls /\ call[pendingControl[i]] = "queued"
      BY <2>1 DEF GeminiInv, QueueInv, ToolTypes
    <3> QED
      BY <1>3, <3>1
  <2> QED
    BY <1>1, <1>2, <2>1 DEF GeminiInv, QueueInv
<1>9. OwedInv'
  <2>1. Cardinality(Owed') = 0
    BY <1>4, FS_EmptySet
  <2> QED
    BY <1>1, <1>4, <2>1 DEF OwedInv
<1>10. Gemini!LastWordIsTrue' /\ Gemini!ResponseReachesItsSession'
  BY <1>1, <1>3 DEF GeminiInv, Gemini!LastWordIsTrue, Gemini!ResponseReachesItsSession
<1> QED
  BY <1>5, <1>6, <1>7, <1>8, <1>9, <1>10 DEF GeminiInv

\* A step that leaves the session and its calls alone.
LEMMA GeminiStands ==
    ASSUME GeminiInv, handle' \in BOOLEAN, currentlyResumable' \in BOOLEAN,
           rotateAfterToolCalls' \in BOOLEAN,
           UNCHANGED <<stage, upstream, sock, opening, pendingToolCalls, call, askedOn, excused,
                       isReconnecting, phase, attempt, resumingWithHandle, postResume,
                       pendingControl, misdirected, speaker, watchdog, disconnected, told, cleanly>>
    PROVE  GeminiInv'
<1>1. SessionTypes' /\ GeminiFlags'
  BY DEF GeminiInv, SessionTypes, GeminiFlags
<1>2. ToolTypes' /\ Owed' = Owed /\ Gemini!ResponseReachesItsSession'
  BY CallsStand DEF GeminiInv
<1>3. StageInv' /\ SocketInv'
  BY DEF GeminiInv, StageInv, SocketInv
<1>4. QueueInv' /\ OwedInv'
  BY <1>2 DEF GeminiInv, QueueInv, OwedInv
<1>5. Gemini!LastWordIsTrue'
  BY DEF GeminiInv, Gemini!LastWordIsTrue
<1> QED
  BY <1>1, <1>2, <1>3, <1>4, <1>5 DEF GeminiInv

LEMMA GoAwayKeeps == ASSUME GeminiInv, NEW s \in Sockets, Gemini!GoAway(s) PROVE GeminiInv'
<1>1. /\ sock[s] = "ready"
      /\ UNCHANGED <<stage, pendingToolCalls, call, excused, handle, postResume, pendingControl,
                     misdirected, disconnected>>
  BY DEF Gemini!GoAway, Gemini!Delivers, Gemini!sentVars
<1>2. s = upstream /\ upstream # NoSocket
  BY <1>1, Alive
<1>3. CASE /\ currentlyResumable' \in {currentlyResumable, FALSE}
           /\ rotateAfterToolCalls' \in {rotateAfterToolCalls, TRUE}
           /\ UNCHANGED <<upstream, sock, opening, askedOn, speaker, watchdog, isReconnecting,
                          phase, attempt, resumingWithHandle, told, cleanly>>
  <2>1. /\ handle' \in BOOLEAN /\ currentlyResumable' \in BOOLEAN
        /\ rotateAfterToolCalls' \in BOOLEAN
    BY <1>1, <1>3 DEF GeminiInv, GeminiFlags
  <2> QED
    BY <1>1, <1>3, <2>1, GeminiStands
<1>4. ASSUME NEW fresh \in Sockets, Gemini!Rotate(fresh), ~isReconnecting, ~disconnected,
             ~Gemini!MustWait
      PROVE  GeminiInv'
  <2>1. pendingToolCalls = 0 /\ handle' \in BOOLEAN
    BY <1>1, <1>4 DEF GeminiInv, ToolTypes, GeminiFlags, Gemini!MustWait
  <2>2. sock[upstream] \in {"ready", "closing"}
    BY <1>1, <1>2
  <2> QED
    BY <1>1, <1>2, <1>4, <2>1, <2>2, RotateGeminiKeeps
<1>5. CASE Gemini!MustWait
  BY <1>3, <1>5 DEF Gemini!GoAway, Gemini!socketVars, Gemini!rotationVars
<1>6. CASE ~Gemini!MustWait
  <2>1. PICK fresh \in Sockets : Gemini!Rotate(fresh)
    BY <1>6 DEF Gemini!GoAway
  <2>2. CASE isReconnecting \/ disconnected
    BY <1>3, <2>1, <2>2 DEF Gemini!Rotate, Gemini!socketVars, Gemini!rotationVars
  <2> QED
    BY <1>4, <1>6, <2>1, <2>2
<1> QED
  BY <1>5, <1>6

LEMMA ResumptionUpdateKeeps ==
    ASSUME GeminiInv, NEW s \in Sockets, NEW resumable \in BOOLEAN,
           Gemini!ResumptionUpdate(s, resumable)
    PROVE  GeminiInv'
<1>1. /\ sock[s] = "ready" /\ handle' = (handle \/ resumable)
      /\ UNCHANGED <<stage, pendingToolCalls, call, excused, postResume, pendingControl,
                     misdirected, disconnected>>
  BY DEF Gemini!ResumptionUpdate, Gemini!Delivers, Gemini!sentVars
<1>2. s = upstream /\ upstream # NoSocket
  BY <1>1, Alive
<1>3. handle' \in BOOLEAN
  BY <1>1
<1>4. CASE pendingToolCalls = 0 /\ ~isReconnecting /\ ~disconnected
           /\ \E fresh \in Sockets : Gemini!Rotate(fresh)
  <2>1. PICK fresh \in Sockets : Gemini!Rotate(fresh)
    BY <1>4
  <2>2. sock[upstream] \in {"ready", "closing"}
    BY <1>1, <1>2
  <2> QED
    BY <1>1, <1>2, <1>3, <1>4, <2>1, <2>2, RotateGeminiKeeps
<1>5. CASE /\ currentlyResumable' = resumable
           /\ rotateAfterToolCalls' =
                 (rotateAfterToolCalls /\ ~(resumable /\ pendingToolCalls = 0))
           /\ UNCHANGED <<upstream, sock, opening, askedOn, speaker, watchdog, isReconnecting,
                          phase, attempt, resumingWithHandle, told, cleanly>>
  <2>1. currentlyResumable' \in BOOLEAN /\ rotateAfterToolCalls' \in BOOLEAN
    BY <1>5
  <2> QED
    BY <1>1, <1>3, <1>5, <2>1, GeminiStands
<1> QED
  BY <1>4, <1>5 DEF Gemini!ResumptionUpdate, Gemini!socketVars, Gemini!rotationVars

\* The watchdog is set again when nothing is counted: then nothing is owed either.
LEMMA WatchdogSet ==
    ASSUME GeminiInv, watchdog' = (pendingToolCalls = 0), Owed' = Owed,
           UNCHANGED <<pendingToolCalls, phase, upstream, sock, askedOn>>
    PROVE  OwedInv'
<1>1. upstream # NoSocket /\ sock[upstream] = "ready" /\ watchdog' => Owed = {}
  BY NothingOwed DEF GeminiInv, OwedInv
<1> QED
  BY <1>1 DEF GeminiInv, OwedInv

LEMMA SendAudioKeeps == ASSUME GeminiInv, Gemini!SendAudio PROVE GeminiInv'
<1>1. /\ watchdog' = (pendingToolCalls = 0)
      /\ UNCHANGED <<stage, upstream, sock, opening, pendingToolCalls, call, askedOn, excused,
                     handle, currentlyResumable, rotateAfterToolCalls, isReconnecting, phase,
                     attempt, resumingWithHandle, postResume, pendingControl, misdirected,
                     speaker, disconnected, told, cleanly>>
  BY DEF Gemini!SendAudio, Gemini!ResetWatchdog, Gemini!socketVars, Gemini!callVars,
         Gemini!resumeVars, Gemini!rotationVars, Gemini!sentVars
<1>2. SessionTypes'
  BY <1>1 DEF GeminiInv, SessionTypes
<1>3. GeminiFlags'
  BY <1>1 DEF GeminiInv, GeminiFlags
<1>4. ToolTypes' /\ Owed' = Owed /\ Gemini!ResponseReachesItsSession'
  BY <1>1, CallsStand DEF GeminiInv
<1>5. StageInv' /\ SocketInv' /\ QueueInv'
  BY <1>1 DEF GeminiInv, StageInv, SocketInv, QueueInv
<1>6. OwedInv'
  BY <1>1, <1>4, WatchdogSet
<1>7. Gemini!LastWordIsTrue'
  BY <1>1 DEF GeminiInv, Gemini!LastWordIsTrue
<1> QED
  BY <1>2, <1>3, <1>4, <1>5, <1>6, <1>7 DEF GeminiInv

LEMMA ServerContentKeeps ==
    ASSUME GeminiInv, NEW s \in Sockets, NEW content \in Contents,
           Gemini!ServerContent(s, content)
    PROVE  GeminiInv'
<1>1. /\ sock[s] = "ready" /\ speaker' \in {s, NoSocket, speaker}
      /\ postResume' \in {"off", "armed", postResume}
      /\ watchdog' = (pendingToolCalls = 0) \/ watchdog' = watchdog
      /\ UNCHANGED <<stage, upstream, sock, opening, pendingToolCalls, call, askedOn, excused,
                     handle, currentlyResumable, rotateAfterToolCalls, isReconnecting, phase,
                     attempt, resumingWithHandle, pendingControl, misdirected, disconnected,
                     told, cleanly>>
  BY DEF Gemini!ServerContent, Gemini!Delivers, Gemini!ResetWatchdog, Gemini!socketVars,
         Gemini!callVars, Gemini!resumeVars, Gemini!rotationVars, Gemini!sentVars
<1>2. stage = "up"
  BY <1>1, Alive
<1>3. SessionTypes'
  BY <1>1 DEF GeminiInv, SessionTypes
<1>4. GeminiFlags'
  BY <1>1 DEF GeminiInv, GeminiFlags
<1>5. ToolTypes' /\ Owed' = Owed /\ Gemini!ResponseReachesItsSession'
  BY <1>1, CallsStand DEF GeminiInv
<1>6. StageInv' /\ SocketInv' /\ QueueInv'
  BY <1>1, <1>2 DEF GeminiInv, StageInv, SocketInv, QueueInv
<1>7. OwedInv'
  <2>1. CASE watchdog' = watchdog
    BY <1>1, <1>5, <2>1 DEF GeminiInv, OwedInv
  <2> QED
    BY <1>1, <1>5, <2>1, WatchdogSet
<1>8. Gemini!LastWordIsTrue'
  BY <1>1 DEF GeminiInv, Gemini!LastWordIsTrue
<1> QED
  BY <1>3, <1>4, <1>5, <1>6, <1>7, <1>8 DEF GeminiInv

LEMMA PeerClosesKeeps == ASSUME GeminiInv, NEW s \in Sockets, Gemini!PeerCloses(s) PROVE GeminiInv'
<1>1. /\ sock[s] = "ready" /\ sock' = [sock EXCEPT ![s] = "closing"]
      /\ UNCHANGED <<stage, upstream, opening, pendingToolCalls, call, askedOn, excused, handle,
                     currentlyResumable, rotateAfterToolCalls, isReconnecting, phase, attempt,
                     resumingWithHandle, postResume, pendingControl, misdirected, speaker,
                     watchdog, disconnected, told, cleanly>>
  BY DEF Gemini!PeerCloses, Gemini!socketVars, Gemini!callVars, Gemini!resumeVars,
         Gemini!rotationVars, Gemini!sentVars
<1>2. /\ s = upstream /\ upstream # NoSocket /\ stage = "up" /\ opening = NoSocket
      /\ phase \in {"none", "rebuilding"}
  BY <1>1, Alive
<1>3. /\ sock' \in [Sockets -> {"unused", "opening", "ready", "closing", "closed"}]
      /\ sock'[s] = "closing" /\ \A t \in Sockets \ {s} : sock'[t] = sock[t]
  BY <1>1 DEF GeminiInv, SessionTypes
<1>4. SessionTypes'
  BY <1>1, <1>3 DEF GeminiInv, SessionTypes
<1>5. GeminiFlags'
  BY <1>1 DEF GeminiInv, GeminiFlags
<1>6. ToolTypes' /\ Owed' = Owed /\ Gemini!ResponseReachesItsSession'
  BY <1>1, CallsStand DEF GeminiInv
<1>7. StageInv' /\ QueueInv'
  BY <1>1, <1>2 DEF GeminiInv, StageInv, QueueInv
<1>8. SocketInv'
  BY <1>1, <1>2, <1>3 DEF GeminiInv, SocketInv
<1>9. OwedInv'
  BY <1>1, <1>2, <1>3, <1>6 DEF GeminiInv, OwedInv
<1>10. Gemini!LastWordIsTrue'
  BY <1>1, <1>3 DEF GeminiInv, Gemini!LastWordIsTrue
<1> QED
  BY <1>4, <1>5, <1>6, <1>7, <1>8, <1>9, <1>10 DEF GeminiInv

\* The socket is gone, and nothing takes its place.
LEMMA SocketGone ==
    ASSUME GeminiInv, NEW s \in Sockets, sock[s] = "closing",
           sock' = [sock EXCEPT ![s] = "closed"], pendingToolCalls' \in Nat,
           pendingToolCalls' = pendingToolCalls \/ ~disconnected,
           rotateAfterToolCalls' \in BOOLEAN, told' \in {told, "error"}, cleanly' \in BOOLEAN,
           isReconnecting \/ disconnected \/ told' = "error" \/ (cleanly' /\ told' = told),
           UNCHANGED <<stage, upstream, opening, call, askedOn, excused, handle,
                       currentlyResumable, isReconnecting, phase, attempt, resumingWithHandle,
                       postResume, pendingControl, misdirected, speaker, watchdog, disconnected>>
    PROVE  GeminiInv'
<1>1. /\ sock' \in [Sockets -> {"unused", "opening", "ready", "closing", "closed"}]
      /\ sock'[s] = "closed" /\ \A t \in Sockets \ {s} : sock'[t] = sock[t]
  BY DEF GeminiInv, SessionTypes
<1>2. SessionTypes'
  BY <1>1 DEF GeminiInv, SessionTypes
<1>3. GeminiFlags'
  BY DEF GeminiInv, GeminiFlags
<1>4. ToolTypes'
  BY DEF GeminiInv, ToolTypes
<1>5. Owed' = Owed
  BY DEF Owed, Gemini!InFlight
<1>6. StageInv'
  BY <1>1 DEF GeminiInv, StageInv
<1>7. SocketInv'
  <2>1. opening # NoSocket =>
           \/ (upstream = opening /\ sock'[opening] = "opening")
           \/ (upstream = NoSocket /\ disconnected /\ sock'[opening] \in {"closing", "closed"})
    BY <1>1 DEF GeminiInv, SocketInv
  <2>2. \A t \in Sockets :
           (\/ sock'[t] \in {"opening", "ready"}
            \/ sock'[t] = "closing" /\ ~disconnected) => t = upstream
    <3> SUFFICES ASSUME NEW t \in Sockets, sock'[t] \in {"opening", "ready", "closing"}
                 PROVE  (\/ sock'[t] \in {"opening", "ready"}
                         \/ sock'[t] = "closing" /\ ~disconnected) => t = upstream
      OBVIOUS
    <3>1. sock'[t] = sock[t]
      BY <1>1
    <3> QED
      BY <3>1 DEF GeminiInv, SocketInv
  <2> QED
    BY <2>1, <2>2 DEF SocketInv
<1>8. QueueInv'
  BY DEF GeminiInv, QueueInv
<1>9. OwedInv'
  <2>1. CASE upstream = s
    BY <1>1, <1>5, <2>1 DEF GeminiInv, OwedInv
  <2>2. CASE upstream # s
    <3>1. pendingToolCalls' = pendingToolCalls
      BY <2>2, Alive
    <3>2. upstream # NoSocket => sock'[upstream] = sock[upstream]
      BY <1>1, <2>2 DEF GeminiInv, SessionTypes
    <3> QED
      BY <1>5, <3>1, <3>2 DEF GeminiInv, OwedInv
  <2> QED
    BY <2>1, <2>2
<1>10. Gemini!LastWordIsTrue'
  <2>1. \A t \in Sockets : ~disconnected => sock'[t] # "ready"
    BY <1>1, Alive
  <2>2. told' # "nothing" \/ stage # "up" \/ disconnected
    BY DEF GeminiInv, Gemini!LastWordIsTrue
  <2>3. told' = "rotating" /\ stage = "up" /\ ~disconnected => isReconnecting
    BY DEF GeminiInv, Gemini!LastWordIsTrue
  <2>4. told' = "ready" => isReconnecting \/ disconnected \/ cleanly'
    OBVIOUS
  <2> QED
    BY <2>1, <2>2, <2>3, <2>4 DEF Gemini!LastWordIsTrue
<1>11. Gemini!ResponseReachesItsSession'
  BY DEF GeminiInv, Gemini!ResponseReachesItsSession
<1> QED
  BY <1>2, <1>3, <1>4, <1>6, <1>7, <1>8, <1>9, <1>10, <1>11 DEF GeminiInv

LEMMA UpstreamClosesKeeps ==
    ASSUME GeminiInv, NEW s \in Sockets, NEW code \in {"clean", "resumable", "final"},
           Gemini!UpstreamCloses(s, code)
    PROVE  GeminiInv'
<1>1. /\ sock[s] = "closing"
      /\ UNCHANGED <<stage, call, excused, handle, postResume, pendingControl, misdirected,
                     disconnected>>
  BY DEF Gemini!UpstreamCloses, Gemini!sentVars
<1> DEFINE stays == UNCHANGED <<upstream, opening, askedOn, currentlyResumable, isReconnecting,
                                phase, attempt, resumingWithHandle, speaker, watchdog>>
<1>2. \/ /\ disconnected \/ code = "clean" \/ isReconnecting
         /\ sock' = [sock EXCEPT ![s] = "closed"] /\ stays
         /\ UNCHANGED <<pendingToolCalls, rotateAfterToolCalls, told>>
         /\ cleanly' = (code = "clean")
      \/ /\ ~disconnected /\ sock' = [sock EXCEPT ![s] = "closed"] /\ stays
         /\ pendingToolCalls' = 0 /\ rotateAfterToolCalls' = FALSE /\ Gemini!Tell("error")
         /\ UNCHANGED cleanly
      \/ /\ ~disconnected /\ ~isReconnecting /\ pendingToolCalls = 0
         /\ UNCHANGED pendingToolCalls /\ \E fresh \in Sockets : Gemini!Rotate(fresh)
      \/ /\ ~disconnected /\ sock' = [sock EXCEPT ![s] = "closed"] /\ stays
         /\ UNCHANGED <<pendingToolCalls, rotateAfterToolCalls, cleanly>> /\ Gemini!Tell("error")
  BY DEF Gemini!UpstreamCloses, Gemini!CallLost, Gemini!rotationVars
<1>3. /\ pendingToolCalls \in Nat /\ rotateAfterToolCalls \in BOOLEAN /\ handle \in BOOLEAN
      /\ cleanly \in BOOLEAN
  BY DEF GeminiInv, ToolTypes, GeminiFlags
<1>4. CASE /\ disconnected \/ code = "clean" \/ isReconnecting
           /\ sock' = [sock EXCEPT ![s] = "closed"] /\ stays
           /\ UNCHANGED <<pendingToolCalls, rotateAfterToolCalls, told>>
           /\ cleanly' = (code = "clean")
  <2>1. cleanly' \in BOOLEAN /\ told' \in {told, "error"}
    BY <1>4
  <2>2. isReconnecting \/ disconnected \/ told' = "error" \/ (cleanly' /\ told' = told)
    BY <1>4
  <2> QED
    BY <1>1, <1>3, <1>4, <2>1, <2>2, SocketGone
<1>5. CASE /\ ~disconnected /\ sock' = [sock EXCEPT ![s] = "closed"] /\ stays
           /\ pendingToolCalls' \in {0, pendingToolCalls}
           /\ rotateAfterToolCalls' \in {FALSE, rotateAfterToolCalls} /\ Gemini!Tell("error")
           /\ UNCHANGED cleanly
  <2>1. told' = "error" /\ cleanly' \in BOOLEAN
    BY <1>3, <1>5 DEF Gemini!Tell
  <2>2. pendingToolCalls' \in Nat
    <3>1. pendingToolCalls' = 0 \/ pendingToolCalls' = pendingToolCalls
      BY <1>5
    <3> QED
      BY <1>3, <3>1
  <2>3. rotateAfterToolCalls' \in BOOLEAN
    <3>1. rotateAfterToolCalls' \in {FALSE, rotateAfterToolCalls}
      BY <1>5
    <3> QED
      BY <1>3, <3>1
  <2> QED
    BY <1>1, <1>5, <2>1, <2>2, <2>3, SocketGone
<1>6. CASE /\ ~disconnected /\ ~isReconnecting /\ pendingToolCalls = 0
           /\ UNCHANGED pendingToolCalls /\ \E fresh \in Sockets : Gemini!Rotate(fresh)
  <2>1. PICK fresh \in Sockets : Gemini!Rotate(fresh)
    BY <1>6
  <2>2. upstream # NoSocket /\ sock[upstream] \in {"ready", "closing"}
    BY <1>1, <1>6, Alive
  <2>3. handle' \in BOOLEAN
    BY <1>1, <1>3
  <2> QED
    BY <1>1, <1>6, <2>1, <2>2, <2>3, RotateGeminiKeeps
<1> HIDE DEF stays
<1> QED
  BY <1>2, <1>4, <1>5, <1>6

LEMMA QueueTyped ==
    ASSUME NEW S, NEW q \in Seq(S), NEW e \in S
    PROVE  /\ Append(q, e) \in Seq(S) /\ Len(q) \in Nat /\ Len(Append(q, e)) = Len(q) + 1
           /\ \A i \in 1..Len(q) + 1 :
                 Append(q, e)[i] = e \/ (i \in 1..Len(q) /\ Append(q, e)[i] = q[i])
  OBVIOUS

LEMMA WatchdogFiresKeeps == ASSUME GeminiInv, Gemini!WatchdogFires PROVE GeminiInv'
<1>1. /\ watchdog' = FALSE
      /\ UNCHANGED <<stage, upstream, sock, opening, pendingToolCalls, call, askedOn, excused,
                     handle, currentlyResumable, rotateAfterToolCalls, isReconnecting, phase,
                     attempt, resumingWithHandle, postResume, misdirected, speaker, disconnected,
                     told, cleanly>>
  BY DEF Gemini!WatchdogFires, Gemini!socketVars, Gemini!callVars, Gemini!resumeVars,
         Gemini!rotationVars
<1>2. pendingControl' = IF isReconnecting /\ Len(pendingControl) < MaxPendingControl
                           THEN Append(pendingControl, Gemini!Prompt) ELSE pendingControl
  BY DEF Gemini!WatchdogFires, Gemini!HasRoom
<1>3. pendingControl \in Seq(Calls \cup {Gemini!Prompt}) /\ Len(pendingControl) <= MaxPendingControl
  BY DEF GeminiInv, ToolTypes
<1>4. /\ Append(pendingControl, Gemini!Prompt) \in Seq(Calls \cup {Gemini!Prompt})
      /\ Len(pendingControl) \in Nat
      /\ Len(Append(pendingControl, Gemini!Prompt)) = Len(pendingControl) + 1
      /\ \A i \in 1..Len(pendingControl) + 1 :
            \/ Append(pendingControl, Gemini!Prompt)[i] = Gemini!Prompt
            \/ /\ i \in 1..Len(pendingControl)
               /\ Append(pendingControl, Gemini!Prompt)[i] = pendingControl[i]
  <2>1. Gemini!Prompt \in Calls \cup {Gemini!Prompt}
    OBVIOUS
  <2> QED
    BY <1>3, <2>1, QueueTyped
<1>5. SessionTypes'
  BY <1>1 DEF GeminiInv, SessionTypes
<1>6. GeminiFlags'
  BY <1>1 DEF GeminiInv, GeminiFlags
<1>7. ToolTypes'
  <2>1. /\ pendingControl' \in Seq(Calls \cup {Gemini!Prompt})
        /\ Len(pendingControl') <= MaxPendingControl
    BY <1>2, <1>3, <1>4
  <2> QED
    BY <1>1, <2>1 DEF GeminiInv, ToolTypes
<1>8. Owed' = Owed
  BY <1>1 DEF Owed, Gemini!InFlight
<1>9. StageInv' /\ SocketInv'
  <2>1. ~isReconnecting => pendingControl' = pendingControl
    BY <1>2
  <2> QED
    BY <1>1, <2>1 DEF GeminiInv, StageInv, SocketInv
<1>10. QueueInv'
  <2>1. CASE isReconnecting /\ pendingControl' = Append(pendingControl, Gemini!Prompt)
    <3>1. \A i \in 1..Len(pendingControl') :
             \/ pendingControl'[i] = Gemini!Prompt
             \/ /\ i \in 1..Len(pendingControl)
                /\ pendingControl'[i] = pendingControl[i]
      BY <1>4, <2>1
    <3> QED
      BY <1>1, <2>1, <3>1 DEF GeminiInv, QueueInv
  <2>2. CASE pendingControl' = pendingControl
    BY <1>1, <2>2 DEF GeminiInv, QueueInv
  <2> QED
    BY <1>2, <2>1, <2>2
<1>11. OwedInv'
  BY <1>1, <1>8 DEF GeminiInv, OwedInv
<1>12. Gemini!LastWordIsTrue' /\ Gemini!ResponseReachesItsSession'
  BY <1>1 DEF GeminiInv, Gemini!LastWordIsTrue, Gemini!ResponseReachesItsSession
<1> QED
  BY <1>5, <1>6, <1>7, <1>9, <1>10, <1>11, <1>12 DEF GeminiInv

LEMMA DisconnectGeminiKeeps == ASSUME GeminiInv, Gemini!Disconnect PROVE GeminiInv'
<1>1. /\ ~disconnected /\ disconnected' = TRUE /\ postResume' = "off" /\ speaker' = NoSocket
      /\ watchdog' = FALSE /\ upstream' = NoSocket
      /\ sock' = IF upstream # NoSocket /\ sock[upstream] # "closed"
                    THEN [sock EXCEPT ![upstream] = "closing"] ELSE sock
      /\ UNCHANGED <<stage, opening, pendingToolCalls, call, askedOn, excused, handle,
                     currentlyResumable, rotateAfterToolCalls, isReconnecting, phase, attempt,
                     resumingWithHandle, pendingControl, misdirected, told, cleanly>>
  BY DEF Gemini!Disconnect, Gemini!callVars, Gemini!resumeVars, Gemini!rotationVars, Gemini!sentVars
<1>2. upstream \in Sockets \cup {NoSocket} /\ opening \in Sockets \cup {NoSocket}
      /\ sock \in [Sockets -> {"unused", "opening", "ready", "closing", "closed"}]
  BY DEF GeminiInv, SessionTypes
<1>3. /\ sock' \in [Sockets -> {"unused", "opening", "ready", "closing", "closed"}]
      /\ \A t \in Sockets : t # upstream => sock'[t] = sock[t]
      /\ upstream # NoSocket => sock'[upstream] \in {"closing", "closed"}
  BY <1>1, <1>2
<1>4. SessionTypes'
  BY <1>1, <1>3 DEF GeminiInv, SessionTypes
<1>5. GeminiFlags'
  BY <1>1 DEF GeminiInv, GeminiFlags
<1>6. ToolTypes' /\ Owed' = Owed /\ Gemini!ResponseReachesItsSession'
  BY <1>1, CallsStand DEF GeminiInv
<1>7. \A t \in Sockets : sock'[t] \notin {"opening", "ready"}
  BY <1>2, <1>3 DEF GeminiInv, SocketInv
<1>8. StageInv'
  BY <1>1, <1>7 DEF GeminiInv, StageInv
<1>9. SocketInv'
  <2>1. opening' # NoSocket => upstream' = NoSocket /\ disconnected'
                               /\ sock'[opening'] \in {"closing", "closed"}
    BY <1>1, <1>3 DEF GeminiInv, SocketInv
  <2> QED
    BY <1>1, <1>7, <2>1 DEF SocketInv
<1>10. QueueInv' /\ OwedInv'
  BY <1>1, <1>6 DEF GeminiInv, QueueInv, OwedInv
<1>11. Gemini!LastWordIsTrue'
  BY <1>1 DEF Gemini!LastWordIsTrue
<1> QED
  BY <1>4, <1>5, <1>6, <1>8, <1>9, <1>10, <1>11 DEF GeminiInv

\* A result takes its call out of what is owed, and one from the count.
LEMMA SendToolResultKeeps ==
    ASSUME GeminiInv, NEW c \in Calls, Gemini!SendToolResult(c) PROVE GeminiInv'
<1>1. /\ call[c] \in {"inFlight", "cancelled"} /\ ~disconnected
      /\ pendingToolCalls' = IF pendingToolCalls = 0 THEN 0 ELSE pendingToolCalls - 1
      /\ excused' = IF call[c] = "cancelled" \/ c \in excused
                       THEN excused \cup Gemini!InFlight \cup {c} ELSE excused
      /\ UNCHANGED <<stage, upstream, sock, opening, askedOn, handle, currentlyResumable,
                     rotateAfterToolCalls, isReconnecting, phase, attempt, resumingWithHandle,
                     postResume, speaker, disconnected, told, cleanly>>
  BY DEF Gemini!SendToolResult, Gemini!socketVars, Gemini!resumeVars, Gemini!rotationVars
<1>2. \/ /\ isReconnecting /\ Len(pendingControl) < MaxPendingControl
         /\ pendingControl' = Append(pendingControl, c)
         /\ call' = [call EXCEPT ![c] = "queued"]
      \/ call' = [call EXCEPT ![c] = "over"] /\ pendingControl' = pendingControl
  BY DEF Gemini!SendToolResult, Gemini!HasRoom
<1>3. /\ watchdog' = TRUE \/ watchdog' = watchdog
      /\ watchdog' # watchdog => pendingToolCalls' = 0
  BY DEF Gemini!SendToolResult, Gemini!ResetWatchdog
<1>4. \/ misdirected' = misdirected
      \/ /\ misdirected' = misdirected \cup {c}
         /\ upstream # NoSocket /\ sock[upstream] = "ready" /\ askedOn[c] # upstream
  BY DEF Gemini!SendToolResult
<1>5. /\ call \in [Calls -> {"none", "inFlight", "cancelled", "queued", "over"}]
      /\ pendingControl \in Seq(Calls \cup {Gemini!Prompt})
      /\ Len(pendingControl) <= MaxPendingControl
      /\ misdirected \subseteq Calls /\ excused \subseteq Calls /\ pendingToolCalls \in Nat
  BY DEF GeminiInv, ToolTypes
<1>6. /\ call' \in [Calls -> {"none", "inFlight", "cancelled", "queued", "over"}]
      /\ call'[c] \in {"queued", "over"} /\ \A d \in Calls \ {c} : call'[d] = call[d]
  BY <1>2, <1>5
<1>7. stage = "up"
  BY <1>1 DEF GeminiInv, StageInv
<1>8. /\ Append(pendingControl, c) \in Seq(Calls \cup {Gemini!Prompt})
      /\ Len(pendingControl) \in Nat
      /\ Len(Append(pendingControl, c)) = Len(pendingControl) + 1
      /\ \A i \in 1..Len(pendingControl) + 1 :
            \/ Append(pendingControl, c)[i] = c
            \/ /\ i \in 1..Len(pendingControl)
               /\ Append(pendingControl, c)[i] = pendingControl[i]
  <2>1. c \in Calls \cup {Gemini!Prompt}
    OBVIOUS
  <2> QED
    BY <1>5, <2>1, QueueTyped
<1>9. SessionTypes'
  BY <1>1 DEF GeminiInv, SessionTypes
<1>10. GeminiFlags'
  BY <1>1, <1>3 DEF GeminiInv, GeminiFlags
<1>11. excused \subseteq excused' /\ excused' \subseteq Calls
  BY <1>1, <1>5 DEF Gemini!InFlight
<1>12. ToolTypes'
  <2>1. /\ pendingControl' \in Seq(Calls \cup {Gemini!Prompt})
        /\ Len(pendingControl') <= MaxPendingControl
    BY <1>2, <1>5, <1>8
  <2>2. pendingToolCalls' \in Nat
    BY <1>1, <1>5
  <2>3. misdirected' \subseteq Calls
    BY <1>4, <1>5
  <2>4. askedOn' \in [Calls -> Sockets \cup {NoSocket}]
    BY <1>1 DEF GeminiInv, ToolTypes
  <2> QED
    BY <1>6, <1>11, <2>1, <2>2, <2>3, <2>4 DEF ToolTypes
<1>13. StageInv' /\ SocketInv'
  <2>1. StageInv'
    BY <1>1, <1>7 DEF GeminiInv, StageInv
  <2>2. SocketInv'
    BY <1>1 DEF GeminiInv, SocketInv
  <2> QED
    BY <2>1, <2>2
\* The result of a call that is owed, or of one that is not.
<1>14. c \in Owed => Owed' = Owed \ {c}
  BY <1>1, <1>6 DEF Owed, Gemini!InFlight
<1>15. c \notin Owed => Owed' = {} /\ c \in excused'
  BY <1>1, <1>6 DEF Owed, Gemini!InFlight
<1>16. Owed' \subseteq Owed
  BY <1>14, <1>15
<1>17. QueueInv'
  <2>1. ASSUME NEW i \in 1..Len(pendingControl), pendingControl[i] # Gemini!Prompt
        PROVE  /\ call'[pendingControl[i]] = "queued"
               /\ phase \in {"opening", "backoff"} => pendingControl[i] \in excused'
    <3>1. pendingControl[i] \in Calls /\ call[pendingControl[i]] = "queued"
      BY <1>5, <2>1 DEF GeminiInv, QueueInv
    <3>2. pendingControl[i] # c
      BY <1>1, <3>1
    <3>3. phase \in {"opening", "backoff"} => pendingControl[i] \in excused
      BY <2>1 DEF GeminiInv, QueueInv
    <3> QED
      BY <1>6, <1>11, <3>1, <3>2, <3>3
  <2>2. CASE isReconnecting /\ pendingControl' = Append(pendingControl, c)
             /\ call' = [call EXCEPT ![c] = "queued"]
    <3>1. call'[c] = "queued"
      BY <1>5, <2>2
    <3>2. phase \in {"opening", "backoff"} => c \in excused'
      BY <1>15 DEF GeminiInv, OwedInv
    <3>3. \A i \in 1..Len(pendingControl') :
             \/ pendingControl'[i] = c
             \/ /\ i \in 1..Len(pendingControl)
                /\ pendingControl'[i] = pendingControl[i]
      BY <1>8, <2>2
    <3> QED
      BY <1>1, <2>1, <2>2, <3>1, <3>2, <3>3 DEF QueueInv
  <2>3. CASE pendingControl' = pendingControl
    BY <1>1, <2>1, <2>3 DEF GeminiInv, QueueInv
  <2> QED
    BY <1>2, <2>2, <2>3
<1>18. OwedInv'
  <2>1. upstream # NoSocket /\ sock[upstream] \in {"ready", "closing"} =>
           Cardinality(Owed') <= pendingToolCalls'
    <3> SUFFICES ASSUME upstream # NoSocket, sock[upstream] \in {"ready", "closing"}
                 PROVE  Cardinality(Owed') <= pendingToolCalls'
      OBVIOUS
    <3>1. Cardinality(Owed) <= pendingToolCalls
      BY DEF GeminiInv, OwedInv
    <3>2. CASE c \in Owed
      <4>1. Cardinality(Owed') = Cardinality(Owed) - 1
        BY <1>14, <3>2, OwedFinite, FS_RemoveElement
      <4>2. Cardinality(Owed) # 0
        BY <3>2, OwedFinite, FS_EmptySet
      <4> QED
        BY <1>1, <1>5, <3>1, <4>1, <4>2, OwedFinite
    <3>3. CASE c \notin Owed
      <4>1. Cardinality(Owed') = 0
        BY <1>15, <3>3, FS_EmptySet
      <4> QED
        BY <1>1, <1>5, <4>1
    <3> QED
      BY <3>2, <3>3
  <2>2. IsFiniteSet(Owed')
    BY <1>16, OwedFinite, FS_Subset
  <2>3. upstream # NoSocket /\ sock[upstream] = "ready" /\ watchdog' => Owed' = {}
    <3> SUFFICES ASSUME upstream # NoSocket, sock[upstream] = "ready", watchdog'
                 PROVE  Owed' = {}
      OBVIOUS
    <3>1. CASE watchdog' = watchdog
      BY <1>16, <3>1 DEF GeminiInv, OwedInv
    <3>2. CASE watchdog' # watchdog
      <4>1. Cardinality(Owed') <= 0
        BY <1>3, <2>1, <3>2
      <4>2. Cardinality(Owed') \in Nat
        BY <2>2, FS_CardinalityType
      <4> QED
        BY <2>2, <4>1, <4>2, FS_EmptySet
    <3> QED
      BY <3>1, <3>2
  <2>4. phase \in {"opening", "backoff"} => Owed' = {}
    BY <1>16 DEF GeminiInv, OwedInv
  <2>5. upstream # NoSocket => \A d \in Owed' : askedOn[d] = upstream
    BY <1>16 DEF GeminiInv, OwedInv
  <2> QED
    BY <1>1, <2>1, <2>3, <2>4, <2>5 DEF OwedInv
<1>19. Gemini!LastWordIsTrue'
  BY <1>1 DEF GeminiInv, Gemini!LastWordIsTrue
<1>20. Gemini!ResponseReachesItsSession'
  <2>1. misdirected \subseteq excused
    BY DEF GeminiInv, Gemini!ResponseReachesItsSession
  <2>2. upstream # NoSocket /\ askedOn[c] # upstream => c \notin Owed
    BY DEF GeminiInv, OwedInv
  <2>3. misdirected' \subseteq excused'
    BY <1>4, <1>11, <1>15, <2>1, <2>2
  <2> QED
    BY <2>3 DEF Gemini!ResponseReachesItsSession
<1> QED
  BY <1>9, <1>10, <1>12, <1>13, <1>17, <1>18, <1>19, <1>20 DEF GeminiInv

LEMMA NextGemini == GeminiInv /\ [Gemini!Next]_geminiVars => GeminiInv'
<1> SUFFICES ASSUME GeminiInv, [Gemini!Next]_geminiVars PROVE GeminiInv'
  OBVIOUS
<1>1. CASE Gemini!Connect \/ Gemini!PostResumeTimeout \/ Gemini!Disconnect
  BY <1>1, ConnectGeminiKeeps, PostResumeTimeoutKeeps, DisconnectGeminiKeeps
<1>2. CASE Gemini!SendAudio \/ Gemini!WatchdogFires
  BY <1>2, SendAudioKeeps, WatchdogFiresKeeps
<1>3. ASSUME NEW c \in Calls, Gemini!SendToolResult(c) PROVE GeminiInv'
  BY <1>3, SendToolResultKeeps
<1>4. ASSUME NEW s \in Sockets,
             \/ Gemini!Prepared(s) \/ Gemini!SetupComplete(s) \/ Gemini!SetupFails(s)
             \/ Gemini!BackoffOver(s) \/ Gemini!Rebuilt(s)
      PROVE  GeminiInv'
  BY <1>4, PreparedGeminiKeeps, SetupCompleteKeeps, SetupFailsKeeps, BackoffOverKeeps, RebuiltKeeps
<1>5. ASSUME NEW s \in Sockets, Gemini!GoAway(s) \/ Gemini!PeerCloses(s) PROVE GeminiInv'
  BY <1>5, GoAwayKeeps, PeerClosesKeeps
<1>6. ASSUME NEW s \in Sockets, NEW c \in Calls, Gemini!ServerToolCall(s, c) PROVE GeminiInv'
  BY <1>6, ServerToolCallKeeps
<1>7. ASSUME NEW s \in Sockets, NEW cs \in SUBSET Calls, Gemini!ToolCallCancellation(s, cs)
      PROVE  GeminiInv'
  BY <1>7, ToolCallCancellationKeeps
<1>8. ASSUME NEW s \in Sockets, NEW resumable \in BOOLEAN, Gemini!ResumptionUpdate(s, resumable)
      PROVE  GeminiInv'
  BY <1>8, ResumptionUpdateKeeps
<1>9. ASSUME NEW s \in Sockets, NEW content \in Contents, Gemini!ServerContent(s, content)
      PROVE  GeminiInv'
  BY <1>9, ServerContentKeeps
<1>10. ASSUME NEW s \in Sockets, NEW code \in {"clean", "resumable", "final"},
              Gemini!UpstreamCloses(s, code)
       PROVE  GeminiInv'
  BY <1>10, UpstreamClosesKeeps
<1>11. CASE UNCHANGED geminiVars
  <2>1. handle' \in BOOLEAN /\ currentlyResumable' \in BOOLEAN /\ rotateAfterToolCalls' \in BOOLEAN
    BY <1>11 DEF geminiVars, GeminiInv, GeminiFlags
  <2> QED
    BY <1>11, <2>1, GeminiStands DEF geminiVars
<1> QED
  BY <1>1, <1>2, <1>3, <1>4, <1>5, <1>6, <1>7, <1>8, <1>9, <1>10, <1>11 DEF Gemini!Next

-----------------------------------------------------------------------------
(***************************************************************************)
(* The session with OpenAI: what the adapter believes of a response, and   *)
(* what is on its way that will make it true.                              *)
(***************************************************************************)

\* OpenAITypeOK, a variable at a time.
OpenAITypes ==
    /\ oStage \in {"idle", "preparing", "opening", "up", "failed"}
    /\ line \in {"none", "opening", "open", "closed"}
    /\ oTold \in {"nothing", "ready", "rotating", "error"}
    /\ items \in 0..MaxItems
    /\ fate \in [1..MaxItems -> OpenAI!Fates]

EventTypes ==
    /\ toServer \in Seq(OpenAI!ClientEvents)
    /\ fromServer \in Seq(OpenAI!ServerEvents) /\ Len(fromServer) <= MaxEvents
    /\ oldEvents \in Seq(OpenAI!ServerEvents)

OpenAIFlags ==
    /\ isRotating \in BOOLEAN /\ isClosing \in BOOLEAN /\ oldLine \in BOOLEAN
    /\ isResponseActive \in BOOLEAN /\ pendingResponseCancel \in BOOLEAN
    /\ pendingResponseCreate \in BOOLEAN /\ assistantSpeaking \in BOOLEAN
    /\ response \in BOOLEAN /\ oCleanly \in BOOLEAN /\ replaced \in BOOLEAN
    /\ oExcused \in BOOLEAN /\ strayed \in BOOLEAN

\* The events s have e in them, and have e after each f, unless it is still to come.
Has(s, e) == \E i \in 1..Len(s) : s[i] = e
Follows(s, f, e, coming) ==
    \A i \in 1..Len(s) : s[i] = f => coming \/ \E j \in 1..Len(s) : j > i /\ s[j] = e

\* There is no session before connect(), and only a rotation opens a second one.
LineInv ==
    /\ line = "none" <=> oStage \in {"idle", "preparing"}
    /\ oStage = "up" => line \in {"open", "closed"} \/ replaced
    /\ isRotating => line \in {"opening", "closed"}

\* An item is lost or misdirected only when sessions are closed or replaced, and the one it
\* was sent to has not ended.
FateInv ==
    /\ line = "none" => \A n \in 1..MaxItems : fate[n] = "none"
    /\ line # "closed" /\ ~replaced =>
          \A n \in 1..MaxItems : fate[n] \in {"none", "sent", "read", "spoken"}
    /\ \A n \in 1..MaxItems : fate[n] \in {"sent", "read"} => line = "open"
    /\ \A n \in 1..MaxItems : fate[n] = "sent" => Has(toServer, OpenAI!Item(n))

\* A session that is being opened knows of nothing.
OpeningInv ==
    line = "opening" =>
        /\ toServer = <<>> /\ fromServer = <<>> /\ ~response
        /\ ~strayed => ~isResponseActive /\ ~assistantSpeaking

\* The end of a response follows its beginning and its audio.
ResponseInv ==
    line = "open" =>
        /\ Follows(fromServer, "created", "done", response)
        /\ Follows(fromServer, "audio", "done", response)

\* A response that the adapter takes for active is, or is asked for, or what ends it is on
\* its way; and so is what opens the microphone.
ActiveInv ==
    /\ pendingResponseCreate => isResponseActive
    /\ line = "open" /\ ~strayed =>
          /\ isResponseActive =>
                \/ response \/ Has(toServer, OpenAI!Create)
                \/ Has(fromServer, "done") \/ Has(fromServer, "error")
          /\ assistantSpeaking => response \/ Has(fromServer, "done")

\* A response is asked for after each item, or will be, or was refused.
ItemsInv ==
    line = "open" /\ ~strayed /\ ~oExcused =>
        LET coming == pendingResponseCreate \/ Has(fromServer, "error") IN
        \A n \in 1..MaxItems :
            /\ fate[n] = "read" => coming \/ Has(toServer, OpenAI!Create)
            /\ Follows(toServer, OpenAI!Item(n), OpenAI!Create, coming)

OpenAIInv ==
    /\ OpenAITypes /\ EventTypes /\ OpenAIFlags
    /\ LineInv /\ FateInv /\ OpeningInv /\ ResponseInv /\ ActiveInv /\ ItemsInv
    /\ OpenAI!LastWordIsTrue

\* What the client sends.
LEMMA ClientEventsTyped ==
    /\ OpenAI!Create \in OpenAI!ClientEvents /\ OpenAI!Cancel \in OpenAI!ClientEvents
    /\ \A n \in 1..MaxItems : OpenAI!Item(n) \in OpenAI!ClientEvents
  BY DEF OpenAI!ClientEvents

LEMMA ClientEventsDiffer ==
    /\ OpenAI!Create.type = "create" /\ OpenAI!Cancel.type = "cancel"
    /\ OpenAI!Create # OpenAI!Cancel
    /\ \A n \in 1..MaxItems : /\ OpenAI!Item(n).type = "item" /\ OpenAI!Item(n).item = n
                              /\ OpenAI!Item(n) \notin {OpenAI!Create, OpenAI!Cancel}
  BY DEF OpenAI!Create, OpenAI!Cancel, OpenAI!Item

LEMMA ServerEventsTyped ==
    "created" \in OpenAI!ServerEvents /\ "audio" \in OpenAI!ServerEvents
    /\ "done" \in OpenAI!ServerEvents /\ "error" \in OpenAI!ServerEvents
  BY DEF OpenAI!ServerEvents

LEMMA OpenAIImplied ==
    OpenAIInv => /\ OpenAI!OpenAITypeOK /\ OpenAI!LastWordIsTrue /\ OpenAI!ResultSpoken
                 /\ OpenAI!LostOnlyWithSession /\ OpenAI!MicrophoneOpens
<1> SUFFICES ASSUME OpenAIInv
             PROVE  /\ OpenAI!OpenAITypeOK /\ OpenAI!ResultSpoken
                    /\ OpenAI!LostOnlyWithSession /\ OpenAI!MicrophoneOpens
  BY DEF OpenAIInv
<1>1. \A flag \in {isRotating, isClosing, oldLine, isResponseActive, pendingResponseCancel,
                   pendingResponseCreate, assistantSpeaking, response, oCleanly, replaced,
                   oExcused, strayed} : flag \in BOOLEAN
  BY DEF OpenAIInv, OpenAIFlags
<1>2. OpenAI!OpenAITypeOK
  BY <1>1 DEF OpenAIInv, OpenAITypes, EventTypes, OpenAI!OpenAITypeOK
<1>3. ASSUME OpenAI!Quiet, ~response, ~strayed
      PROVE  /\ ~oExcused => \A n \in 1..MaxItems : fate[n] \notin {"sent", "read"}
             /\ ~assistantSpeaking
  <2>1. line = "open" /\ Len(toServer) = 0 /\ Len(fromServer) = 0
    BY <1>3 DEF OpenAI!Quiet
  <2>2. \A e : ~Has(toServer, e) /\ ~Has(fromServer, e)
    BY <2>1 DEF Has
  <2>3. ~assistantSpeaking /\ ~pendingResponseCreate
    BY <1>3, <2>1, <2>2 DEF OpenAIInv, ActiveInv
  <2>4. \A n \in 1..MaxItems : fate[n] # "sent"
    BY <2>2 DEF OpenAIInv, FateInv
  <2>5. ~oExcused => \A n \in 1..MaxItems : fate[n] # "read"
    BY <1>3, <2>1, <2>2, <2>3 DEF OpenAIInv, ItemsInv
  <2> QED
    BY <2>3, <2>4, <2>5
<1>4. OpenAI!LostOnlyWithSession
  BY DEF OpenAIInv, FateInv, OpenAI!LostOnlyWithSession
<1> QED
  BY <1>2, <1>3, <1>4 DEF OpenAI!ResultSpoken, OpenAI!MicrophoneOpens

LEMMA InitOpenAI == OpenAI!Init => OpenAIInv
<1> SUFFICES ASSUME OpenAI!Init PROVE OpenAIInv
  OBVIOUS
<1>1. OpenAITypes
  <2>1. 0 \in 0..MaxItems
    BY RealtimeAssumption
  <2>2. fate \in [1..MaxItems -> OpenAI!Fates]
    BY DEF OpenAI!Init, OpenAI!Fates
  <2> QED
    BY <2>1, <2>2 DEF OpenAI!Init, OpenAITypes
<1>2. OpenAIFlags
  BY DEF OpenAI!Init, OpenAIFlags
<1>3. EventTypes
  BY DEF OpenAI!Init, EventTypes
<1>4. LineInv /\ FateInv
  BY DEF OpenAI!Init, LineInv, FateInv
<1>5. OpeningInv /\ ResponseInv /\ ActiveInv /\ ItemsInv /\ OpenAI!LastWordIsTrue
  BY DEF OpenAI!Init, OpeningInv, ResponseInv, ActiveInv, ItemsInv, OpenAI!LastWordIsTrue
<1> QED
  BY <1>1, <1>2, <1>3, <1>4, <1>5 DEF OpenAIInv

\* One event more, and one less.
LEMMA EventAdded ==
    ASSUME NEW S, NEW s \in Seq(S), NEW e \in S
    PROVE  /\ s \o <<e>> \in Seq(S) /\ Len(s) \in Nat /\ Len(s \o <<e>>) = Len(s) + 1
           /\ (s \o <<e>>)[Len(s) + 1] = e /\ \A i \in 1..Len(s) : (s \o <<e>>)[i] = s[i]
<1>1. /\ Len(s) \in Nat /\ <<e>> \in Seq(S) /\ Len(<<e>>) = 1 /\ <<e>>[1] = e
  OBVIOUS
<1> QED
  BY <1>1

LEMMA AddedHas ==
    ASSUME NEW S, NEW s \in Seq(S), NEW e \in S
    PROVE  Has(s \o <<e>>, e)
  BY EventAdded DEF Has

LEMMA StillHas ==
    ASSUME NEW S, NEW s \in Seq(S), NEW e \in S, NEW f, Has(s, f)
    PROVE  Has(s \o <<e>>, f)
  BY EventAdded DEF Has

LEMMA AddedFollows ==
    ASSUME NEW S, NEW s \in Seq(S), NEW e \in S, NEW f, NEW g, NEW coming, NEW later,
           Follows(s, f, g, coming), coming => later, f = e => later
    PROVE  Follows(s \o <<e>>, f, g, later)
  BY EventAdded DEF Follows

LEMMA FollowerAdded ==
    ASSUME NEW S, NEW s \in Seq(S), NEW e \in S, NEW f, f # e, NEW later
    PROVE  Follows(s \o <<e>>, f, e, later)
  BY EventAdded DEF Follows

LEMMA EventTaken ==
    ASSUME NEW S, NEW s \in Seq(S), s # <<>>
    PROVE  /\ Tail(s) \in Seq(S) /\ Head(s) \in S /\ Head(s) = s[1]
           /\ Len(Tail(s)) \in Nat /\ Len(s) = Len(Tail(s)) + 1
           /\ \A i \in 1..Len(Tail(s)) : Tail(s)[i] = s[i + 1]
  OBVIOUS

LEMMA TakenHas ==
    ASSUME NEW S, NEW s \in Seq(S), s # <<>>, NEW f
    PROVE  /\ Has(Tail(s), f) => Has(s, f)
           /\ Has(s, f) /\ f # Head(s) => Has(Tail(s), f)
<1> DEFINE t == Tail(s)
<1>1. /\ Head(s) = s[1] /\ Len(t) \in Nat /\ Len(s) = Len(t) + 1
      /\ \A i \in 1..Len(t) : t[i] = s[i + 1]
  BY EventTaken
<1> HIDE DEF t
<1>2. ASSUME Has(t, f) PROVE Has(s, f)
  BY <1>1, <1>2 DEF Has
<1>3. ASSUME Has(s, f), f # Head(s) PROVE Has(t, f)
  <2>1. PICK i \in 1..Len(s) : s[i] = f
    BY <1>3 DEF Has
  <2>2. i - 1 \in 1..Len(t) /\ t[i - 1] = f
    BY <1>1, <1>3, <2>1
  <2> QED
    BY <2>2 DEF Has
<1> QED
  BY <1>2, <1>3 DEF t

\* What was to follow the head follows in the tail.
LEMMA TakenFollows ==
    ASSUME NEW S, NEW s \in Seq(S), s # <<>>,
           NEW f, NEW g, NEW coming, Follows(s, f, g, coming)
    PROVE  Follows(Tail(s), f, g, coming) /\ (Head(s) = f => coming \/ Has(Tail(s), g))
<1> DEFINE t == Tail(s)
<1>1. /\ Head(s) = s[1] /\ Len(t) \in Nat /\ Len(s) = Len(t) + 1
      /\ \A i \in 1..Len(t) : t[i] = s[i + 1]
  BY EventTaken
<1> HIDE DEF t
<1>2. ASSUME NEW i \in 1..Len(t), t[i] = f, ~coming
      PROVE  \E j \in 1..Len(t) : j > i /\ t[j] = g
  <2>1. i + 1 \in 1..Len(s) /\ s[i + 1] = f
    BY <1>1, <1>2
  <2>2. PICK j \in 1..Len(s) : j > i + 1 /\ s[j] = g
    BY <1>2, <2>1 DEF Follows
  <2>3. j - 1 \in 1..Len(t) /\ t[j - 1] = g /\ j - 1 > i
    BY <1>1, <2>2
  <2> QED
    BY <2>3
<1>3. ASSUME Head(s) = f, ~coming PROVE Has(t, g)
  <2>1. 1 \in 1..Len(s) /\ s[1] = f
    BY <1>1, <1>3
  <2>2. PICK j \in 1..Len(s) : j > 1 /\ s[j] = g
    BY <1>3, <2>1 DEF Follows
  <2>3. j - 1 \in 1..Len(t) /\ t[j - 1] = g
    BY <1>1, <2>2
  <2> QED
    BY <2>3 DEF Has
<1> QED
  BY <1>2, <1>3 DEF Follows, t

LEMMA TwoAdded ==
    ASSUME NEW S, NEW s \in Seq(S), NEW e \in S, NEW f \in S
    PROVE  s \o <<e, f>> = (s \o <<e>>) \o <<f>>
<1>1. <<e>> \in Seq(S) /\ <<f>> \in Seq(S) /\ <<e, f>> \in Seq(S)
  OBVIOUS
<1>2. <<e, f>> = <<e>> \o <<f>>
  <2>1. /\ Len(<<e, f>>) = 2 /\ <<e, f>>[1] = e /\ <<e, f>>[2] = f
    OBVIOUS
  <2>2. /\ <<e>> \o <<f>> \in Seq(S) /\ Len(<<e>>) = 1 /\ Len(<<e>> \o <<f>>) = 2
        /\ (<<e>> \o <<f>>)[1] = e /\ (<<e>> \o <<f>>)[2] = f
    BY <1>1, EventAdded
  <2>3. \A i \in 1..2 : <<e, f>>[i] = (<<e>> \o <<f>>)[i]
    BY <2>1, <2>2
  <2> QED
    BY <1>1, <2>1, <2>2, <2>3, SeqEqual
<1> QED
  BY <1>1, <1>2, ConcatAssociative

LEMMA EmptyQuiet ==
    /\ \A e : ~Has(<<>>, e)
    /\ \A f, g, coming : Follows(<<>>, f, g, coming)
<1>1. Len(<<>>) = 0
  OBVIOUS
<1> QED
  BY <1>1 DEF Has, Follows

LEMMA FollowsWeaker ==
    ASSUME NEW s, NEW f, NEW g, NEW coming, Follows(s, f, g, coming), NEW later, coming => later
    PROVE  Follows(s, f, g, later)
  BY DEF Follows

\* A step that leaves the session, its items and its events alone.
LEMMA SessionStands ==
    ASSUME OpenAIInv,
           UNCHANGED <<line, isResponseActive, pendingResponseCreate, assistantSpeaking, toServer,
                       fromServer, response, oExcused, strayed, fate, replaced>>
    PROVE  FateInv' /\ OpeningInv' /\ ResponseInv' /\ ActiveInv' /\ ItemsInv'
<1>1. FateInv'
  BY DEF OpenAIInv, FateInv
<1>2. OpeningInv'
  BY DEF OpenAIInv, OpeningInv
<1>3. ResponseInv'
  BY DEF OpenAIInv, ResponseInv
<1>4. ActiveInv'
  BY DEF OpenAIInv, ActiveInv
<1>5. ItemsInv'
  BY DEF OpenAIInv, ItemsInv
<1> QED
  BY <1>1, <1>2, <1>3, <1>4, <1>5

\* A session that is closed or was never opened.
LEMMA SessionGone ==
    ASSUME OpenAIInv, line' \notin {"opening", "open"},
           pendingResponseCreate' => isResponseActive'
    PROVE  OpeningInv' /\ ResponseInv' /\ ActiveInv' /\ ItemsInv'
  BY DEF OpeningInv, ResponseInv, ActiveInv, ItemsInv

LEMMA EmptyTyped ==
    ASSUME NEW S PROVE <<>> \in Seq(S) /\ Len(<<>>) = 0
  OBVIOUS

\* What a session leaves behind when it ends: nothing that is on its way to it, or that
\* it has read and not spoken of.
LEMMA FateAtEnd ==
    ASSUME OpenAIInv, OpenAI!SessionEnds
    PROVE  /\ fate' \in [1..MaxItems -> OpenAI!Fates]
           /\ \A n \in 1..MaxItems : /\ fate'[n] \notin {"sent", "read", "orphaned"}
                                     /\ fate[n] \in {"none", "spoken"} => fate'[n] = fate[n]
           /\ toServer' = <<>> /\ fromServer' = <<>> /\ response' = FALSE /\ oExcused' = FALSE
           /\ toServer' \in Seq(OpenAI!ClientEvents) /\ fromServer' \in Seq(OpenAI!ServerEvents)
           /\ Len(fromServer') <= MaxEvents
<1>1. /\ fate' = [n \in 1..MaxItems |->
                    IF fate[n] \in {"sent", "read", "orphaned"} THEN "lost" ELSE fate[n]]
      /\ toServer' = <<>> /\ fromServer' = <<>> /\ response' = FALSE /\ oExcused' = FALSE
  BY DEF OpenAI!SessionEnds
<1>2. fate \in [1..MaxItems -> OpenAI!Fates]
  BY DEF OpenAIInv, OpenAITypes
<1>3. \A n \in 1..MaxItems :
         fate'[n] = IF fate[n] \in {"sent", "read", "orphaned"} THEN "lost" ELSE fate[n]
  BY <1>1
<1>4. fate' \in [1..MaxItems -> OpenAI!Fates]
  BY <1>1, <1>2 DEF OpenAI!Fates
<1>5. toServer' \in Seq(OpenAI!ClientEvents) /\ fromServer' \in Seq(OpenAI!ServerEvents)
  BY <1>1, EmptyTyped
<1>6. Len(fromServer') <= MaxEvents
  BY <1>1, EmptyTyped, RealtimeAssumption
<1> QED
  BY <1>1, <1>3, <1>4, <1>5, <1>6

\* A session that is new.
LEMMA OpenUpstreamKeeps ==
    ASSUME OpenAIInv, OpenAI!OpenUpstream
    PROVE  /\ OpeningInv' /\ ResponseInv' /\ ActiveInv' /\ ItemsInv' /\ line' = "opening"
           /\ fate' \in [1..MaxItems -> OpenAI!Fates]
           /\ \A n \in 1..MaxItems : /\ fate'[n] \notin {"sent", "read", "orphaned"}
                                     /\ fate[n] \in {"none", "spoken"} => fate'[n] = fate[n]
           /\ toServer' \in Seq(OpenAI!ClientEvents) /\ fromServer' \in Seq(OpenAI!ServerEvents)
           /\ Len(fromServer') <= MaxEvents
           /\ isClosing' = FALSE /\ isResponseActive' = FALSE /\ pendingResponseCancel' = FALSE
           /\ pendingResponseCreate' = FALSE /\ assistantSpeaking' = FALSE /\ response' = FALSE
           /\ oExcused' = FALSE /\ oCleanly' = FALSE /\ strayed' = FALSE
<1>1. /\ line' = "opening" /\ isClosing' = FALSE /\ isResponseActive' = FALSE
      /\ pendingResponseCancel' = FALSE /\ pendingResponseCreate' = FALSE
      /\ assistantSpeaking' = FALSE /\ oCleanly' = FALSE /\ strayed' = FALSE
      /\ OpenAI!SessionEnds
  BY DEF OpenAI!OpenUpstream, OpenAI!ResetResponseState
<1>2. OpeningInv' /\ ResponseInv' /\ ActiveInv' /\ ItemsInv'
  BY <1>1, FateAtEnd DEF OpeningInv, ResponseInv, ActiveInv, ItemsInv
<1> QED
  BY <1>1, <1>2, FateAtEnd

LEMMA ConnectKeeps == ASSUME OpenAIInv, OpenAI!Connect PROVE OpenAIInv'
<1>1. /\ oStage = "idle" /\ oStage' = "preparing"
      /\ UNCHANGED <<line, isRotating, isClosing, oldLine, oTold, oCleanly, replaced,
                     isResponseActive, pendingResponseCancel, pendingResponseCreate,
                     assistantSpeaking, items, fate, toServer, fromServer, oldEvents, response,
                     oExcused, strayed>>
  BY DEF OpenAI!Connect, OpenAI!responseVars, OpenAI!itemVars
<1>2. FateInv' /\ OpeningInv' /\ ResponseInv' /\ ActiveInv' /\ ItemsInv'
  BY <1>1, SessionStands
<1>3. OpenAITypes' /\ EventTypes' /\ OpenAIFlags'
  BY <1>1 DEF OpenAIInv, OpenAITypes, EventTypes, OpenAIFlags
<1>4. LineInv' /\ OpenAI!LastWordIsTrue'
  BY <1>1 DEF OpenAIInv, LineInv, OpenAI!LastWordIsTrue
<1> QED
  BY <1>2, <1>3, <1>4 DEF OpenAIInv

LEMMA PreparedKeeps == ASSUME OpenAIInv, OpenAI!Prepared PROVE OpenAIInv'
<1>1. /\ oStage = "preparing" /\ oStage' = "opening" /\ OpenAI!OpenUpstream
      /\ UNCHANGED <<isRotating, oldLine, oTold, replaced, items, oldEvents>>
  BY DEF OpenAI!Prepared
<1>2. /\ OpeningInv' /\ ResponseInv' /\ ActiveInv' /\ ItemsInv' /\ line' = "opening"
      /\ fate' \in [1..MaxItems -> OpenAI!Fates]
      /\ \A n \in 1..MaxItems : fate[n] \in {"none", "spoken"} => fate'[n] = fate[n]
      /\ toServer' \in Seq(OpenAI!ClientEvents) /\ fromServer' \in Seq(OpenAI!ServerEvents)
      /\ Len(fromServer') <= MaxEvents
      /\ isClosing' = FALSE /\ isResponseActive' = FALSE /\ pendingResponseCancel' = FALSE
      /\ pendingResponseCreate' = FALSE /\ assistantSpeaking' = FALSE /\ response' = FALSE
      /\ oExcused' = FALSE /\ oCleanly' = FALSE /\ strayed' = FALSE
  BY <1>1, OpenUpstreamKeeps
<1>3. line = "none" /\ \A n \in 1..MaxItems : fate[n] = "none"
  BY <1>1 DEF OpenAIInv, LineInv, FateInv
<1>4. OpenAITypes'
  BY <1>1, <1>2 DEF OpenAIInv, OpenAITypes
<1>5. EventTypes'
  BY <1>1, <1>2 DEF OpenAIInv, EventTypes
<1>6. OpenAIFlags'
  BY <1>1, <1>2 DEF OpenAIInv, OpenAIFlags
<1>7. LineInv'
  BY <1>1, <1>2, <1>3 DEF OpenAIInv, LineInv
<1>8. FateInv'
  BY <1>2, <1>3 DEF FateInv
<1>9. OpenAI!LastWordIsTrue'
  BY <1>1 DEF OpenAI!LastWordIsTrue
<1> QED
  BY <1>2, <1>4, <1>5, <1>6, <1>7, <1>8, <1>9 DEF OpenAIInv

LEMMA RotateKeeps == ASSUME OpenAIInv, OpenAI!Rotate PROVE OpenAIInv'
<1>1. /\ oStage = "up" /\ oStage' = "up" /\ isRotating' = TRUE /\ replaced' = TRUE
      /\ oTold' = "rotating" /\ oldLine' = (line = "open")
      /\ oldEvents' = fromServer \/ oldEvents' = <<>>
      /\ OpenAI!OpenUpstream /\ UNCHANGED items
  BY DEF OpenAI!Rotate
<1>2. /\ OpeningInv' /\ ResponseInv' /\ ActiveInv' /\ ItemsInv' /\ line' = "opening"
      /\ fate' \in [1..MaxItems -> OpenAI!Fates]
      /\ \A n \in 1..MaxItems : fate'[n] \notin {"sent", "read", "orphaned"}
      /\ toServer' \in Seq(OpenAI!ClientEvents) /\ fromServer' \in Seq(OpenAI!ServerEvents)
      /\ Len(fromServer') <= MaxEvents
      /\ isClosing' = FALSE /\ isResponseActive' = FALSE /\ pendingResponseCancel' = FALSE
      /\ pendingResponseCreate' = FALSE /\ assistantSpeaking' = FALSE /\ response' = FALSE
      /\ oExcused' = FALSE /\ oCleanly' = FALSE /\ strayed' = FALSE
  BY <1>1, OpenUpstreamKeeps
<1>3. OpenAITypes'
  BY <1>1, <1>2 DEF OpenAIInv, OpenAITypes
<1>4. EventTypes'
  BY <1>1, <1>2, EmptyTyped DEF OpenAIInv, EventTypes
<1>5. OpenAIFlags'
  BY <1>1, <1>2 DEF OpenAIInv, OpenAIFlags
<1>6. LineInv'
  BY <1>1, <1>2 DEF LineInv
<1>7. FateInv'
  BY <1>1, <1>2 DEF FateInv
<1>8. OpenAI!LastWordIsTrue'
  BY <1>1, <1>2 DEF OpenAI!LastWordIsTrue
<1> QED
  BY <1>2, <1>3, <1>4, <1>5, <1>6, <1>7, <1>8 DEF OpenAIInv

LEMMA OpenedKeeps == ASSUME OpenAIInv, OpenAI!Opened PROVE OpenAIInv'
<1>1. /\ line = "opening" /\ line' = "open" /\ oStage' = "up" /\ isRotating' = FALSE
      /\ oTold' = IF isClosing THEN oTold ELSE "ready"
      /\ UNCHANGED <<isClosing, oldLine, oCleanly, replaced, isResponseActive,
                     pendingResponseCancel, pendingResponseCreate, assistantSpeaking, items, fate,
                     toServer, fromServer, oldEvents, response, oExcused, strayed>>
  BY DEF OpenAI!Opened, OpenAI!Tell, OpenAI!responseVars, OpenAI!itemVars
<1>2. OpenAITypes' /\ EventTypes' /\ OpenAIFlags'
  <2>1. OpenAITypes'
    BY <1>1 DEF OpenAIInv, OpenAITypes
  <2>2. EventTypes'
    BY <1>1 DEF OpenAIInv, EventTypes
  <2>3. OpenAIFlags'
    BY <1>1 DEF OpenAIInv, OpenAIFlags
  <2> QED
    BY <2>1, <2>2, <2>3
<1>3. /\ toServer' = <<>> /\ fromServer' = <<>> /\ ~response'
      /\ ~strayed' => ~isResponseActive' /\ ~assistantSpeaking'
      /\ pendingResponseCreate' => isResponseActive'
      /\ \A n \in 1..MaxItems : fate'[n] \notin {"sent", "read"}
  BY <1>1 DEF OpenAIInv, OpeningInv, ActiveInv, FateInv
<1>4. OpeningInv' /\ ResponseInv' /\ ActiveInv' /\ ItemsInv'
  BY <1>1, <1>3, EmptyQuiet DEF OpeningInv, ResponseInv, ActiveInv, ItemsInv
<1>5. LineInv' /\ OpenAI!LastWordIsTrue'
  BY <1>1 DEF LineInv, OpenAI!LastWordIsTrue
<1>6. FateInv'
  BY <1>1, <1>3 DEF OpenAIInv, FateInv
<1> QED
  BY <1>2, <1>4, <1>5, <1>6 DEF OpenAIInv

LEMMA OpenFailsKeeps == ASSUME OpenAIInv, OpenAI!OpenFails PROVE OpenAIInv'
<1>1. /\ line = "opening" /\ line' = "closed"
      /\ \/ isRotating /\ UNCHANGED <<oStage, oTold>>
         \/ ~isRotating /\ oStage' = "failed" /\ oTold' \in {oTold, "error"}
      /\ UNCHANGED <<isRotating, isClosing, oldLine, oCleanly, replaced, isResponseActive,
                     pendingResponseCancel, pendingResponseCreate, assistantSpeaking, items, fate,
                     toServer, fromServer, oldEvents, response, oExcused, strayed>>
  BY DEF OpenAI!OpenFails, OpenAI!Tell, OpenAI!responseVars, OpenAI!itemVars
<1>2. OpenAITypes' /\ EventTypes' /\ OpenAIFlags'
  BY <1>1 DEF OpenAIInv, OpenAITypes, EventTypes, OpenAIFlags
<1>3. OpeningInv' /\ ResponseInv' /\ ActiveInv' /\ ItemsInv'
  BY <1>1, SessionGone DEF OpenAIInv, ActiveInv
<1>4. LineInv'
  BY <1>1 DEF OpenAIInv, LineInv
<1>5. FateInv'
  BY <1>1 DEF OpenAIInv, FateInv
<1>6. OpenAI!LastWordIsTrue'
  BY <1>1 DEF OpenAIInv, OpenAI!LastWordIsTrue
<1> QED
  BY <1>2, <1>3, <1>4, <1>5, <1>6 DEF OpenAIInv

LEMMA LineClosesKeeps ==
    ASSUME OpenAIInv, NEW clean \in BOOLEAN, OpenAI!LineCloses(clean)
    PROVE  OpenAIInv'
<1>1. /\ line = "open" /\ oStage = "up" /\ line' = "closed" /\ oCleanly' = clean
      /\ OpenAI!SessionEnds
      /\ oTold' = IF isRotating \/ isClosing \/ clean THEN oTold ELSE "error"
      /\ UNCHANGED <<oStage, isRotating, isClosing, oldLine, replaced, isResponseActive,
                     pendingResponseCancel, pendingResponseCreate, assistantSpeaking, items,
                     oldEvents, strayed>>
  BY DEF OpenAI!LineCloses, OpenAI!Tell, OpenAI!Loss, OpenAI!responseVars
<1>2. /\ fate' \in [1..MaxItems -> OpenAI!Fates]
      /\ \A n \in 1..MaxItems : fate'[n] \notin {"sent", "read", "orphaned"}
      /\ response' = FALSE /\ oExcused' = FALSE
      /\ toServer' \in Seq(OpenAI!ClientEvents) /\ fromServer' \in Seq(OpenAI!ServerEvents)
      /\ Len(fromServer') <= MaxEvents
  BY <1>1, FateAtEnd
<1>3. OpenAITypes'
  BY <1>1, <1>2 DEF OpenAIInv, OpenAITypes
<1>4. EventTypes'
  BY <1>1, <1>2 DEF OpenAIInv, EventTypes
<1>5. OpenAIFlags'
  BY <1>1, <1>2 DEF OpenAIInv, OpenAIFlags
<1>6. OpeningInv' /\ ResponseInv' /\ ActiveInv' /\ ItemsInv'
  BY <1>1, SessionGone DEF OpenAIInv, ActiveInv
<1>7. LineInv' /\ FateInv'
  BY <1>1, <1>2 DEF OpenAIInv, LineInv, FateInv
<1>8. OpenAI!LastWordIsTrue'
  <2>1. ~isRotating
    BY <1>1 DEF OpenAIInv, LineInv
  <2> QED
    BY <1>1, <2>1 DEF OpenAIInv, OpenAI!LastWordIsTrue
<1> QED
  BY <1>3, <1>4, <1>5, <1>6, <1>7, <1>8 DEF OpenAIInv

LEMMA OldLineClosesKeeps ==
    ASSUME OpenAIInv, NEW clean \in BOOLEAN, OpenAI!OldLineCloses(clean)
    PROVE  OpenAIInv'
<1>1. /\ oldLine' = FALSE /\ oTold' \in {oTold, "error"}
      /\ UNCHANGED <<oStage, line, isRotating, isClosing, oCleanly, replaced, isResponseActive,
                     pendingResponseCancel, pendingResponseCreate, assistantSpeaking, items, fate,
                     toServer, fromServer, oldEvents, response, oExcused, strayed>>
  BY DEF OpenAI!OldLineCloses, OpenAI!Tell, OpenAI!Loss, OpenAI!responseVars, OpenAI!itemVars
<1>2. OpenAITypes' /\ EventTypes' /\ OpenAIFlags'
  <2>1. OpenAITypes'
    BY <1>1 DEF OpenAIInv, OpenAITypes
  <2>2. EventTypes'
    BY <1>1 DEF OpenAIInv, EventTypes
  <2>3. OpenAIFlags'
    BY <1>1 DEF OpenAIInv, OpenAIFlags
  <2> QED
    BY <2>1, <2>2, <2>3
<1>3. FateInv' /\ OpeningInv' /\ ResponseInv' /\ ActiveInv' /\ ItemsInv'
  BY <1>1, SessionStands
<1>4. LineInv' /\ OpenAI!LastWordIsTrue'
  BY <1>1 DEF OpenAIInv, LineInv, OpenAI!LastWordIsTrue
<1> QED
  BY <1>2, <1>3, <1>4 DEF OpenAIInv

LEMMA DisconnectKeeps == ASSUME OpenAIInv, OpenAI!Disconnect PROVE OpenAIInv'
<1>1. /\ oStage \in {"opening", "up"} /\ isClosing' = TRUE /\ assistantSpeaking' = FALSE
      /\ line' = IF line = "opening" THEN "opening" ELSE "closed"
      /\ OpenAI!SessionEnds
      /\ UNCHANGED <<oStage, isRotating, oldLine, oTold, oCleanly, replaced, isResponseActive,
                     pendingResponseCancel, pendingResponseCreate, items, oldEvents, strayed>>
  BY DEF OpenAI!Disconnect
<1>2. /\ fate' \in [1..MaxItems -> OpenAI!Fates]
      /\ \A n \in 1..MaxItems : /\ fate'[n] \notin {"sent", "read", "orphaned"}
                                /\ fate[n] \in {"none", "spoken"} => fate'[n] = fate[n]
      /\ toServer' = <<>> /\ fromServer' = <<>> /\ response' = FALSE /\ oExcused' = FALSE
      /\ toServer' \in Seq(OpenAI!ClientEvents) /\ fromServer' \in Seq(OpenAI!ServerEvents)
      /\ Len(fromServer') <= MaxEvents
  BY <1>1, FateAtEnd
<1>3. OpenAITypes'
  <2>1. line' \in {"none", "opening", "open", "closed"}
    BY <1>1
  <2> QED
    BY <1>1, <1>2, <2>1 DEF OpenAIInv, OpenAITypes
<1>4. EventTypes'
  BY <1>1, <1>2 DEF OpenAIInv, EventTypes
<1>5. OpenAIFlags'
  BY <1>1, <1>2 DEF OpenAIInv, OpenAIFlags
<1>6. OpeningInv' /\ ResponseInv' /\ ActiveInv' /\ ItemsInv'
  BY <1>1, <1>2 DEF OpenAIInv, OpeningInv, ResponseInv, ActiveInv, ItemsInv
<1>7. LineInv'
  BY <1>1 DEF OpenAIInv, LineInv
<1>8. FateInv'
  BY <1>1, <1>2 DEF OpenAIInv, FateInv
<1>9. OpenAI!LastWordIsTrue'
  BY <1>1 DEF OpenAI!LastWordIsTrue
<1> QED
  BY <1>3, <1>4, <1>5, <1>6, <1>7, <1>8, <1>9 DEF OpenAIInv

\* A new item has its fate, and the others keep theirs.
LEMMA ItemHandedIn ==
    ASSUME OpenAIInv, NEW orphaned \in BOOLEAN, OpenAI!NewItem(orphaned)
    PROVE  /\ OpenAITypes' /\ LineInv' /\ items' \in 1..MaxItems
           /\ fate'[items'] \in {"lost", "orphaned", "sent"}
           /\ line = "open" => fate'[items'] # "lost" /\ (fate'[items'] = "orphaned" => replaced)
           /\ line # "open" => fate'[items'] = "lost"
           /\ \A n \in 1..MaxItems : n # items' => fate'[n] = fate[n]
<1>1. /\ oStage = "up" /\ items < MaxItems /\ items' = items + 1 /\ (orphaned => replaced)
      /\ UNCHANGED <<oStage, line, isRotating, oTold, replaced>>
  BY DEF OpenAI!NewItem, OpenAI!sessionVars
<1> DEFINE what == IF line # "open" THEN "lost" ELSE IF orphaned THEN "orphaned" ELSE "sent"
<1>2. fate' = [fate EXCEPT ![items'] = what]
  BY DEF OpenAI!NewItem
<1>3. /\ what \in {"lost", "orphaned", "sent"}
      /\ line = "open" => what # "lost" /\ (what = "orphaned" => replaced)
      /\ line # "open" => what = "lost"
  BY <1>1
<1> HIDE DEF what
<1>4. fate \in [1..MaxItems -> OpenAI!Fates] /\ items \in 0..MaxItems
  BY DEF OpenAIInv, OpenAITypes
<1>5. items' \in 1..MaxItems
  BY <1>1, <1>4, RealtimeAssumption
<1>6. fate'[items'] = what /\ \A n \in 1..MaxItems : n # items' => fate'[n] = fate[n]
  BY <1>2, <1>4, <1>5
<1>7. fate' \in [1..MaxItems -> OpenAI!Fates]
  <2>1. what \in OpenAI!Fates
    BY <1>3 DEF OpenAI!Fates
  <2> QED
    BY <1>2, <1>4, <2>1
<1>8. OpenAITypes'
  BY <1>1, <1>5, <1>7 DEF OpenAIInv, OpenAITypes
<1>9. LineInv'
  BY <1>1 DEF OpenAIInv, LineInv
<1> QED
  BY <1>3, <1>5, <1>6, <1>8, <1>9

LEMMA NewItemKeeps ==
    ASSUME OpenAIInv, NEW orphaned \in BOOLEAN, OpenAI!NewItem(orphaned)
    PROVE  OpenAIInv'
<1> DEFINE new == OpenAI!Item(items')
<1>1. /\ UNCHANGED <<oStage, line, isRotating, isClosing, oldLine, oTold, oCleanly, replaced,
                     assistantSpeaking, fromServer, oldEvents, response, oExcused, strayed>>
      /\ oStage = "up"
  BY DEF OpenAI!NewItem, OpenAI!sessionVars
<1>2. /\ OpenAITypes' /\ LineInv' /\ items' \in 1..MaxItems
      /\ fate'[items'] \in {"lost", "orphaned", "sent"}
      /\ line = "open" => fate'[items'] # "lost" /\ (fate'[items'] = "orphaned" => replaced)
      /\ line # "open" => fate'[items'] = "lost"
      /\ \A n \in 1..MaxItems : n # items' => fate'[n] = fate[n]
  BY ItemHandedIn
<1>3. OpenAI!LastWordIsTrue' /\ ResponseInv'
  BY <1>1 DEF OpenAIInv, OpenAI!LastWordIsTrue, ResponseInv
<1>4. toServer \in Seq(OpenAI!ClientEvents) /\ new \in OpenAI!ClientEvents
      /\ OpenAI!Create \in OpenAI!ClientEvents
  BY <1>2, ClientEventsTyped DEF OpenAIInv, EventTypes
<1>5. \/ isResponseActive /\ pendingResponseCreate' = TRUE
         /\ UNCHANGED <<isResponseActive, pendingResponseCancel>>
      \/ ~isResponseActive /\ pendingResponseCreate' = FALSE /\ isResponseActive' = (line = "open")
         /\ pendingResponseCancel' = (pendingResponseCancel /\ line # "open")
  BY DEF OpenAI!NewItem, OpenAI!QueueCreate
<1>6. OpenAIFlags'
  BY <1>1, <1>5 DEF OpenAIInv, OpenAIFlags
<1>7. CASE line # "open"
  <2>1. toServer' = toServer
    BY <1>7 DEF OpenAI!NewItem, OpenAI!SendUpstream
  <2>2. EventTypes'
    BY <1>1, <2>1 DEF OpenAIInv, EventTypes
  <2>3. FateInv'
    <3>1. line # "none" /\ (line # "closed" => replaced)
      BY <1>1, <1>7 DEF OpenAIInv, LineInv
    <3> QED
      BY <1>1, <1>2, <1>7, <2>1, <3>1 DEF OpenAIInv, FateInv
  <2>4. OpeningInv' /\ ActiveInv' /\ ItemsInv'
    BY <1>1, <1>5, <1>7, <2>1 DEF OpenAIInv, OpeningInv, ActiveInv, ItemsInv
  <2> QED
    BY <1>2, <1>3, <1>6, <2>2, <2>3, <2>4 DEF OpenAIInv
<1>8. CASE line = "open"
  <2>1. ASSUME toServer' \in Seq(OpenAI!ClientEvents), Has(toServer', new),
               \A n \in 1..MaxItems :
                  Has(toServer, OpenAI!Item(n)) => Has(toServer', OpenAI!Item(n))
        PROVE  EventTypes' /\ FateInv' /\ OpeningInv'
    <3>1. EventTypes'
      BY <1>1, <2>1 DEF OpenAIInv, EventTypes
    <3>2. FateInv'
      <4>1. \A n \in 1..MaxItems : ~replaced => fate'[n] \in {"none", "sent", "read", "spoken"}
        BY <1>2, <1>8 DEF OpenAIInv, FateInv
      <4>2. ASSUME NEW n \in 1..MaxItems, fate'[n] = "sent"
            PROVE  Has(toServer', OpenAI!Item(n))
        <5>1. CASE n = items'
          BY <2>1, <5>1
        <5>2. CASE n # items'
          BY <1>2, <2>1, <4>2, <5>2 DEF OpenAIInv, FateInv
        <5> QED
          BY <5>1, <5>2
      <4> QED
        BY <1>1, <1>8, <4>1, <4>2 DEF FateInv
    <3>3. OpeningInv'
      BY <1>1, <1>8 DEF OpeningInv
    <3> QED
      BY <3>1, <3>2, <3>3
  <2>2. CASE isResponseActive
    <3>1. toServer' = toServer \o <<new>>
      BY <1>8, <2>2 DEF OpenAI!NewItem, OpenAI!SendUpstream
    <3>2. toServer' \in Seq(OpenAI!ClientEvents)
      BY <1>4, <3>1, EventAdded
    <3>3. Has(toServer', new) /\ \A e : Has(toServer, e) => Has(toServer', e)
      BY <1>4, <3>1, AddedHas, StillHas
    <3>4. EventTypes' /\ FateInv' /\ OpeningInv'
      BY <2>1, <3>2, <3>3
    <3>5. ActiveInv'
      BY <1>1, <1>5, <2>2, <3>3 DEF OpenAIInv, ActiveInv
    <3>6. ItemsInv'
      BY <1>5, <2>2 DEF ItemsInv, Follows
    <3> QED
      BY <1>2, <1>3, <1>6, <3>4, <3>5, <3>6 DEF OpenAIInv
  <2>3. CASE ~isResponseActive
    <3> DEFINE mid == toServer \o <<new>>
    <3>1. mid \in Seq(OpenAI!ClientEvents)
      BY <1>4, EventAdded
    <3>2. toServer' = mid \o <<OpenAI!Create>>
      <4>1. toServer' = toServer \o <<new, OpenAI!Create>>
        BY <1>8, <2>3 DEF OpenAI!NewItem, OpenAI!SendUpstream
      <4> QED
        BY <1>4, <4>1, TwoAdded
    <3>3. Has(mid, new) /\ \A e : Has(toServer, e) => Has(mid, e)
      BY <1>4, AddedHas, StillHas
    <3> HIDE DEF mid, new
    <3>4. toServer' \in Seq(OpenAI!ClientEvents)
      BY <1>4, <3>1, <3>2, EventAdded
    <3>5. Has(toServer', OpenAI!Create)
      BY <1>4, <3>1, <3>2, AddedHas
    <3>6. \A e : Has(mid, e) => Has(toServer', e)
      BY <1>4, <3>1, <3>2, StillHas
    <3>7. EventTypes' /\ FateInv' /\ OpeningInv'
      <4>1. Has(toServer', new)
        BY <3>3, <3>6
      <4>2. \A e : Has(toServer, e) => Has(toServer', e)
        BY <3>3, <3>6
      <4> QED
        BY <2>1, <3>4, <4>1, <4>2
    <3>8. ActiveInv'
      BY <1>1, <1>5, <1>8, <2>3, <3>5 DEF OpenAIInv, ActiveInv
    <3>9. ASSUME NEW n \in 1..MaxItems, NEW coming
          PROVE  Follows(toServer', OpenAI!Item(n), OpenAI!Create, coming)
      <4>1. OpenAI!Item(n) # OpenAI!Create
        BY ClientEventsDiffer
      <4> QED
        BY <1>4, <3>1, <3>2, <4>1, FollowerAdded
    <3>10. ItemsInv'
      BY <3>5, <3>9 DEF ItemsInv
    <3> QED
      BY <1>2, <1>3, <1>6, <3>7, <3>8, <3>10 DEF OpenAIInv
  <2> QED
    BY <2>2, <2>3
<1> QED
  BY <1>7, <1>8

LEMMA CancelResponseKeeps == ASSUME OpenAIInv, OpenAI!CancelResponse PROVE OpenAIInv'
<1>1. /\ pendingResponseCreate' = FALSE /\ assistantSpeaking' = FALSE
      /\ oExcused' = (oExcused \/ isResponseActive)
      /\ UNCHANGED <<oStage, line, isRotating, isClosing, oldLine, oTold, oCleanly, replaced,
                     isResponseActive, items, fate, fromServer, oldEvents, response, strayed>>
  BY DEF OpenAI!CancelResponse, OpenAI!sessionVars, OpenAI!itemVars
<1>2. OpenAITypes'
  BY <1>1 DEF OpenAIInv, OpenAITypes
<1>3. OpenAIFlags'
  <2>1. pendingResponseCancel' \in BOOLEAN
    BY DEF OpenAI!CancelResponse, OpenAIInv, OpenAIFlags
  <2> QED
    BY <1>1, <2>1 DEF OpenAIInv, OpenAIFlags
<1>4. OpenAI!LastWordIsTrue' /\ LineInv' /\ ResponseInv'
  BY <1>1 DEF OpenAIInv, OpenAI!LastWordIsTrue, LineInv, ResponseInv
<1>5. toServer \in Seq(OpenAI!ClientEvents)
  BY DEF OpenAIInv, EventTypes
<1>6. CASE line = "open" /\ toServer' = toServer \o <<OpenAI!Cancel>> /\ isResponseActive
  <2>1. toServer' \in Seq(OpenAI!ClientEvents)
    BY <1>5, <1>6, ClientEventsTyped, EventAdded
  <2>2. \A e : Has(toServer, e) => Has(toServer', e)
    BY <1>5, <1>6, ClientEventsTyped, StillHas
  <2>3. EventTypes'
    BY <1>1, <2>1 DEF OpenAIInv, EventTypes
  <2>4. OpeningInv' /\ ActiveInv' /\ FateInv'
    BY <1>1, <1>6, <2>2 DEF OpenAIInv, OpeningInv, ActiveInv, FateInv
  <2>5. ItemsInv'
    BY <1>1, <1>6 DEF ItemsInv
  <2> QED
    BY <1>2, <1>3, <1>4, <2>3, <2>4, <2>5 DEF OpenAIInv
<1>7. CASE toServer' = toServer
  <2>1. EventTypes'
    BY <1>1, <1>7 DEF OpenAIInv, EventTypes
  <2>2. OpeningInv' /\ ActiveInv' /\ FateInv'
    BY <1>1, <1>7 DEF OpenAIInv, OpeningInv, ActiveInv, FateInv
  <2>3. ItemsInv'
    BY <1>1, <1>7 DEF OpenAIInv, ActiveInv, ItemsInv
  <2> QED
    BY <1>2, <1>3, <1>4, <2>1, <2>2, <2>3 DEF OpenAIInv
<1> QED
  BY <1>6, <1>7 DEF OpenAI!CancelResponse, OpenAI!SendUpstream

\* What the adapter makes of an event, whether the session that sent it is in use or was replaced.
LEMMA HandleTyped ==
    ASSUME OpenAIInv, NEW event, OpenAI!Handle(event)
    PROVE  /\ isResponseActive' \in BOOLEAN /\ pendingResponseCancel' \in BOOLEAN
           /\ pendingResponseCreate' \in BOOLEAN /\ assistantSpeaking' \in BOOLEAN
           /\ oExcused' \in BOOLEAN
           /\ \/ toServer' = toServer
              \/ line = "open" /\ toServer' = toServer \o <<OpenAI!Create>>
           /\ toServer' \in Seq(OpenAI!ClientEvents)
           /\ \A e : Has(toServer, e) => Has(toServer', e)
           /\ pendingResponseCreate' => isResponseActive'
<1> USE DEF OpenAI!Handle, OpenAI!Created, OpenAI!AudioDelta, OpenAI!Done,
        OpenAI!FlushPendingResponseCreate, OpenAI!ResetResponseState, OpenAI!SendUpstream
<1>1. toServer' = toServer \/ (line = "open" /\ toServer' = toServer \o <<OpenAI!Create>>)
  OBVIOUS
<1>2. /\ isResponseActive' \in BOOLEAN /\ pendingResponseCancel' \in BOOLEAN
      /\ pendingResponseCreate' \in BOOLEAN /\ assistantSpeaking' \in BOOLEAN
      /\ oExcused' \in BOOLEAN
  BY DEF OpenAIInv, OpenAIFlags
<1>3. pendingResponseCreate' => isResponseActive'
  BY DEF OpenAIInv, ActiveInv
<1> HIDE DEF OpenAI!Handle, OpenAI!Created, OpenAI!AudioDelta, OpenAI!Done,
         OpenAI!FlushPendingResponseCreate, OpenAI!ResetResponseState, OpenAI!SendUpstream
<1>4. toServer \in Seq(OpenAI!ClientEvents) /\ OpenAI!Create \in OpenAI!ClientEvents
  BY ClientEventsTyped DEF OpenAIInv, EventTypes
<1>5. toServer' \in Seq(OpenAI!ClientEvents)
  BY <1>1, <1>4, EventAdded
<1>6. \A e : Has(toServer, e) => Has(toServer', e)
  BY <1>1, <1>4, StillHas
<1> QED
  BY <1>1, <1>2, <1>3, <1>5, <1>6

LEMMA ReceiveOldKeeps == ASSUME OpenAIInv, OpenAI!ReceiveOld PROVE OpenAIInv'
<1>1. /\ oldEvents # <<>> /\ OpenAI!Handle(Head(oldEvents)) /\ oldEvents' = Tail(oldEvents)
      /\ strayed' = TRUE /\ oTold' \in {oTold, "error"}
      /\ UNCHANGED <<oStage, line, isRotating, isClosing, oldLine, oCleanly, replaced, items,
                     fate, fromServer, response>>
  BY DEF OpenAI!ReceiveOld, OpenAI!Tell, OpenAI!itemVars
<1>2. /\ isResponseActive' \in BOOLEAN /\ pendingResponseCancel' \in BOOLEAN
      /\ pendingResponseCreate' \in BOOLEAN /\ assistantSpeaking' \in BOOLEAN
      /\ oExcused' \in BOOLEAN
      /\ toServer' = toServer \/ line = "open"
      /\ toServer' \in Seq(OpenAI!ClientEvents)
      /\ \A e : Has(toServer, e) => Has(toServer', e)
      /\ pendingResponseCreate' => isResponseActive'
  BY <1>1, HandleTyped
<1>3. OpenAITypes'
  BY <1>1, <1>2 DEF OpenAIInv, OpenAITypes
<1>4. OpenAIFlags'
  BY <1>1, <1>2 DEF OpenAIInv, OpenAIFlags
<1>5. EventTypes'
  BY <1>1, <1>2, EventTaken DEF OpenAIInv, EventTypes
<1>6. LineInv' /\ FateInv'
  BY <1>1, <1>2 DEF OpenAIInv, LineInv, FateInv
<1>7. OpeningInv' /\ ResponseInv' /\ ActiveInv' /\ ItemsInv'
  BY <1>1, <1>2 DEF OpenAIInv, OpeningInv, ResponseInv, ActiveInv, ItemsInv
<1>8. OpenAI!LastWordIsTrue'
  BY <1>1 DEF OpenAIInv, OpenAI!LastWordIsTrue
<1> QED
  BY <1>3, <1>4, <1>5, <1>6, <1>7, <1>8 DEF OpenAIInv

LEMMA ReceiveKeeps == ASSUME OpenAIInv, OpenAI!Receive PROVE OpenAIInv'
<1> DEFINE event == Head(fromServer)
<1>1. /\ line = "open" /\ fromServer # <<>> /\ OpenAI!Handle(event)
      /\ fromServer' = Tail(fromServer) /\ oTold' \in {oTold, "error"}
      /\ UNCHANGED <<oStage, line, isRotating, isClosing, oldLine, oCleanly, replaced, items,
                     fate, oldEvents, response, strayed>>
  BY DEF OpenAI!Receive, OpenAI!Tell, OpenAI!itemVars
<1>2. /\ isResponseActive' \in BOOLEAN /\ pendingResponseCancel' \in BOOLEAN
      /\ pendingResponseCreate' \in BOOLEAN /\ assistantSpeaking' \in BOOLEAN
      /\ oExcused' \in BOOLEAN
      /\ toServer' \in Seq(OpenAI!ClientEvents)
      /\ \A e : Has(toServer, e) => Has(toServer', e)
      /\ pendingResponseCreate' => isResponseActive'
  BY <1>1, HandleTyped
<1>3. OpenAITypes'
  BY <1>1, <1>2 DEF OpenAIInv, OpenAITypes
<1>4. OpenAIFlags'
  BY <1>1, <1>2 DEF OpenAIInv, OpenAIFlags
<1>5. fromServer \in Seq(OpenAI!ServerEvents) /\ toServer \in Seq(OpenAI!ClientEvents)
  BY DEF OpenAIInv, EventTypes
<1>6. EventTypes'
  <2>1. /\ fromServer' \in Seq(OpenAI!ServerEvents) /\ Len(fromServer') \in Nat
        /\ Len(fromServer) = Len(fromServer') + 1
    BY <1>1, <1>5, EventTaken
  <2>2. Len(fromServer') <= MaxEvents
    BY <2>1 DEF OpenAIInv, EventTypes
  <2> QED
    BY <1>1, <1>2, <2>1, <2>2 DEF OpenAIInv, EventTypes
<1>7. OpenAI!LastWordIsTrue' /\ OpeningInv' /\ LineInv' /\ FateInv'
  BY <1>1, <1>2 DEF OpenAIInv, OpenAI!LastWordIsTrue, OpeningInv, LineInv, FateInv
<1>8. /\ Follows(fromServer, "created", "done", response)
      /\ Follows(fromServer, "audio", "done", response)
  BY <1>1 DEF OpenAIInv, ResponseInv
<1>9. /\ Follows(fromServer', "created", "done", response)
      /\ Follows(fromServer', "audio", "done", response)
      /\ event \in {"created", "audio"} => response \/ Has(fromServer', "done")
  <2>1. ASSUME NEW f \in {"created", "audio"}
        PROVE  /\ Follows(Tail(fromServer), f, "done", response)
               /\ event = f => response \/ Has(Tail(fromServer), "done")
    <3>1. Follows(fromServer, f, "done", response)
      BY <1>8, <2>1
    <3> QED
      BY <1>1, <1>5, <3>1, TakenFollows
  <2> QED
    BY <1>1, <2>1
<1>10. ResponseInv'
  BY <1>1, <1>9 DEF ResponseInv
<1>11. /\ Has(fromServer, "done") /\ event # "done" => Has(fromServer', "done")
       /\ Has(fromServer, "error") /\ event # "error" => Has(fromServer', "error")
       /\ Has(fromServer', "error") => Has(fromServer, "error")
  BY <1>1, <1>5, TakenHas
<1> HIDE DEF event
<1>12. ActiveInv' /\ ItemsInv'
  <2>1. CASE event = "created" /\ OpenAI!Created
    <3>1. /\ isResponseActive' = TRUE /\ pendingResponseCreate' = FALSE
          /\ oExcused' = (oExcused \/ pendingResponseCreate)
          /\ assistantSpeaking' = assistantSpeaking /\ toServer' = toServer
      BY <2>1 DEF OpenAI!Created
    <3>2. ActiveInv'
      BY <1>1, <1>9, <1>11, <2>1, <3>1 DEF OpenAIInv, ActiveInv
    <3>3. ItemsInv'
      BY <1>1, <1>11, <2>1, <3>1 DEF OpenAIInv, ItemsInv, Follows
    <3> QED
      BY <3>2, <3>3
  <2>2. CASE event = "audio" /\ OpenAI!AudioDelta
    <3>1. /\ assistantSpeaking' = TRUE
          /\ UNCHANGED <<isResponseActive, pendingResponseCreate, oExcused, toServer>>
      BY <2>2 DEF OpenAI!AudioDelta
    <3>2. ActiveInv'
      BY <1>1, <1>9, <1>11, <2>2, <3>1 DEF OpenAIInv, ActiveInv
    <3>3. ItemsInv'
      BY <1>1, <1>11, <2>2, <3>1 DEF OpenAIInv, ItemsInv, Follows
    <3> QED
      BY <3>2, <3>3
  <2>3. CASE event = "done" /\ OpenAI!Done /\ pendingResponseCreate
    <3>1. /\ assistantSpeaking' = FALSE /\ pendingResponseCreate' = FALSE
          /\ toServer' = toServer \o <<OpenAI!Create>> /\ oExcused' = oExcused
      BY <1>1, <2>3 DEF OpenAI!Done, OpenAI!FlushPendingResponseCreate, OpenAI!SendUpstream
    <3>2. Has(toServer', OpenAI!Create)
      BY <1>5, <3>1, ClientEventsTyped, AddedHas
    <3>3. ActiveInv'
      BY <3>1, <3>2 DEF ActiveInv
    <3>4. ASSUME NEW n \in 1..MaxItems, NEW coming
          PROVE  Follows(toServer', OpenAI!Item(n), OpenAI!Create, coming)
      <4>1. OpenAI!Item(n) # OpenAI!Create
        BY ClientEventsDiffer
      <4> QED
        BY <1>5, <3>1, <4>1, ClientEventsTyped, FollowerAdded
    <3>5. ItemsInv'
      BY <3>2, <3>4 DEF ItemsInv
    <3> QED
      BY <3>3, <3>5
  <2>4. CASE event = "done" /\ OpenAI!Done /\ ~pendingResponseCreate
    <3>1. /\ assistantSpeaking' = FALSE /\ pendingResponseCreate' = FALSE
          /\ ~isResponseActive' /\ toServer' = toServer /\ oExcused' = oExcused
      BY <2>4 DEF OpenAI!Done, OpenAI!FlushPendingResponseCreate
    <3>2. ActiveInv'
      BY <3>1 DEF ActiveInv
    <3>3. ItemsInv'
      BY <1>1, <1>11, <2>4, <3>1 DEF OpenAIInv, ItemsInv, Follows
    <3> QED
      BY <3>2, <3>3
  <2>5. CASE event = "error" /\ OpenAI!ResetResponseState /\ oExcused' = TRUE
    <3>1. ActiveInv'
      BY <2>5 DEF OpenAI!ResetResponseState, ActiveInv
    <3>2. ItemsInv'
      BY <2>5 DEF ItemsInv
    <3> QED
      BY <3>1, <3>2
  <2> QED
    BY <1>1, <2>1, <2>2, <2>3, <2>4, <2>5 DEF OpenAI!Handle
<1> QED
  BY <1>3, <1>4, <1>6, <1>7, <1>10, <1>12 DEF OpenAIInv

\* The session emits an event: the adapter's idea of it is as before.
LEMMA EmitKeeps ==
    ASSUME OpenAIInv, line = "open", Len(fromServer) < MaxEvents, NEW event \in OpenAI!ServerEvents,
           OpenAI!Emit(<<event>>), response' \in BOOLEAN, oExcused' \in BOOLEAN,
           event \in {"created", "audio"} => response', response /\ ~response' => event = "done",
           UNCHANGED <<oStage, line, isRotating, isClosing, oldLine, oTold, oCleanly, replaced,
                       isResponseActive, pendingResponseCancel, pendingResponseCreate,
                       assistantSpeaking, items, oldEvents, strayed>>,
           toServer' \in Seq(OpenAI!ClientEvents),
           \/ Has(toServer, OpenAI!Create) => Has(toServer', OpenAI!Create)
           \/ response' \/ event = "error"
    PROVE  /\ EventTypes' /\ OpenAIFlags' /\ LineInv' /\ OpeningInv' /\ ResponseInv'
           /\ ActiveInv' /\ OpenAI!LastWordIsTrue'
           /\ Has(fromServer, "error") => Has(fromServer', "error")
           /\ Has(fromServer', event)
<1>1. fromServer \in Seq(OpenAI!ServerEvents) /\ fromServer' = fromServer \o <<event>>
  BY DEF OpenAIInv, EventTypes, OpenAI!Emit
<1>2. /\ fromServer' \in Seq(OpenAI!ServerEvents) /\ Len(fromServer) \in Nat
      /\ Len(fromServer') = Len(fromServer) + 1
  BY <1>1, EventAdded
<1>3. EventTypes'
  <2>1. Len(fromServer') <= MaxEvents
    BY <1>2, RealtimeAssumption
  <2> QED
    BY <1>2, <2>1 DEF OpenAIInv, EventTypes
<1>4. OpenAIFlags'
  BY DEF OpenAIInv, OpenAIFlags
<1>5. LineInv' /\ OpenAI!LastWordIsTrue'
  BY DEF OpenAIInv, LineInv, OpenAI!LastWordIsTrue
<1>6. OpeningInv'
  BY DEF OpeningInv
<1>7. /\ Has(fromServer', event) /\ \A f : Has(fromServer, f) => Has(fromServer', f)
  BY <1>1, AddedHas, StillHas
<1>8. ASSUME NEW f \in {"created", "audio"} PROVE Follows(fromServer', f, "done", response')
  <2>1. Follows(fromServer, f, "done", response)
    BY <1>8 DEF OpenAIInv, ResponseInv
  <2>2. CASE event = "done"
    BY <1>1, <1>8, <2>2, FollowerAdded
  <2>3. CASE event # "done"
    <3>1. (response => response') /\ (f = event => response')
      BY <1>8, <2>3
    <3> QED
      BY <1>1, <2>1, <3>1, AddedFollows
  <2> QED
    BY <2>2, <2>3
<1>9. ResponseInv'
  BY <1>8 DEF ResponseInv
<1>10. ActiveInv'
  BY <1>7 DEF OpenAIInv, ActiveInv
<1> QED
  BY <1>3, <1>4, <1>5, <1>6, <1>7, <1>9, <1>10

\* A response starts, with every item that was read.
LEMMA RespondKeeps ==
    ASSUME OpenAIInv, line = "open", NEW toCome \in Seq(OpenAI!ClientEvents), toServer' = toCome,
           OpenAI!Respond(toCome),
           \A n \in 1..MaxItems :
              /\ Has(toServer, OpenAI!Item(n)) => Has(toCome, OpenAI!Item(n))
              /\ \A coming : Follows(toServer, OpenAI!Item(n), OpenAI!Create, coming)
                                => Follows(toCome, OpenAI!Item(n), OpenAI!Create, coming),
           Has(fromServer, "error") => Has(fromServer', "error"),
           UNCHANGED <<oStage, line, oTold, replaced, pendingResponseCreate, items, strayed>>
    PROVE  OpenAITypes' /\ FateInv' /\ ItemsInv'
<1>1. /\ fate' = [n \in 1..MaxItems |-> IF fate[n] = "read" THEN "spoken" ELSE fate[n]]
      /\ oExcused' = (oExcused /\ \E i \in DOMAIN toCome : toCome[i].type = "item")
  BY DEF OpenAI!Respond
<1>2. fate \in [1..MaxItems -> OpenAI!Fates]
  BY DEF OpenAIInv, OpenAITypes
<1>3. fate' \in [1..MaxItems -> OpenAI!Fates]
  BY <1>1, <1>2 DEF OpenAI!Fates
<1>4. \A n \in 1..MaxItems : fate'[n] = IF fate[n] = "read" THEN "spoken" ELSE fate[n]
  BY <1>1
<1>5. OpenAITypes'
  BY <1>3 DEF OpenAIInv, OpenAITypes
<1>6. FateInv'
  <2>1. \A n \in 1..MaxItems : fate'[n] = "sent" => Has(toServer', OpenAI!Item(n))
    BY <1>4 DEF OpenAIInv, FateInv
  <2>2. ~replaced => \A n \in 1..MaxItems : fate'[n] \in {"none", "sent", "read", "spoken"}
    BY <1>4 DEF OpenAIInv, FateInv
  <2> QED
    BY <2>1, <2>2 DEF FateInv
<1>7. ItemsInv'
  <2>1. CASE ~oExcused /\ ~strayed
    <3> SUFFICES ASSUME NEW n \in 1..MaxItems
                 PROVE  /\ fate'[n] # "read"
                        /\ Follows(toServer', OpenAI!Item(n), OpenAI!Create,
                                   pendingResponseCreate' \/ Has(fromServer', "error"))
      BY DEF ItemsInv
    <3> DEFINE coming == pendingResponseCreate \/ Has(fromServer, "error")
               later == pendingResponseCreate' \/ Has(fromServer', "error")
    <3>1. Follows(toServer, OpenAI!Item(n), OpenAI!Create, coming)
      BY <2>1 DEF OpenAIInv, ItemsInv
    <3>2. coming => later
      OBVIOUS
    <3> HIDE DEF coming, later
    <3>3. Follows(toCome, OpenAI!Item(n), OpenAI!Create, coming)
      BY <3>1
    <3>4. Follows(toServer', OpenAI!Item(n), OpenAI!Create, later)
      BY <3>2, <3>3, FollowsWeaker
    <3>5. fate'[n] # "read"
      BY <1>4
    <3> QED
      BY <3>4, <3>5 DEF later
  <2>2. CASE oExcused /\ ~oExcused'
    <3>1. \A i \in 1..Len(toCome) : toCome[i].type # "item"
      <4>1. DOMAIN toCome = 1..Len(toCome)
        BY LenProperties
      <4> QED
        BY <1>1, <2>2, <4>1
    <3>2. \A n \in 1..MaxItems :
             Follows(toServer', OpenAI!Item(n), OpenAI!Create,
                     pendingResponseCreate' \/ Has(fromServer', "error"))
      BY <3>1, ClientEventsDiffer DEF Follows
    <3>3. \A n \in 1..MaxItems : fate'[n] # "read"
      BY <1>4
    <3> QED
      BY <3>2, <3>3 DEF ItemsInv
  <2>3. CASE oExcused' \/ strayed'
    BY <2>3 DEF ItemsInv
  <2> QED
    BY <2>1, <2>2, <2>3
<1> QED
  BY <1>5, <1>6, <1>7

LEMMA UserSpokeKeeps == ASSUME OpenAIInv, OpenAI!UserSpoke PROVE OpenAIInv'
<1>1. /\ line = "open" /\ Len(fromServer) < MaxEvents /\ OpenAI!Emit(<<"created">>)
      /\ OpenAI!Respond(toServer)
      /\ UNCHANGED <<oStage, line, isRotating, isClosing, oldLine, oTold, oCleanly, replaced,
                     isResponseActive, pendingResponseCancel, pendingResponseCreate,
                     assistantSpeaking, items, oldEvents, strayed, toServer>>
  BY DEF OpenAI!UserSpoke, OpenAI!sessionVars, OpenAI!responseVars
<1>2. /\ response' = TRUE /\ response' \in BOOLEAN /\ oExcused' \in BOOLEAN
      /\ toServer \in Seq(OpenAI!ClientEvents)
  BY <1>1 DEF OpenAI!Respond, OpenAIInv, EventTypes
<1>3. /\ EventTypes' /\ OpenAIFlags' /\ LineInv' /\ OpeningInv' /\ ResponseInv'
      /\ ActiveInv' /\ OpenAI!LastWordIsTrue'
      /\ Has(fromServer, "error") => Has(fromServer', "error")
  BY <1>1, <1>2, ServerEventsTyped, EmitKeeps
<1>4. OpenAITypes' /\ FateInv' /\ ItemsInv'
  BY <1>1, <1>2, <1>3, RespondKeeps
<1> QED
  BY <1>3, <1>4 DEF OpenAIInv

\* What OpenAI sends leaves the items alone.
LEMMA ItemsStand ==
    ASSUME OpenAIInv, line = "open", Has(fromServer, "error") => Has(fromServer', "error"),
           UNCHANGED <<oStage, line, oTold, items, fate, replaced, pendingResponseCreate, strayed,
                       oExcused, toServer>>
    PROVE  OpenAITypes' /\ FateInv' /\ ItemsInv'
<1>1. OpenAITypes' /\ FateInv'
  BY DEF OpenAIInv, OpenAITypes, FateInv
<1>2. ItemsInv'
  BY DEF OpenAIInv, ItemsInv, Follows
<1> QED
  BY <1>1, <1>2

LEMMA ResponseAudioKeeps == ASSUME OpenAIInv, OpenAI!ResponseAudio PROVE OpenAIInv'
<1>1. /\ line = "open" /\ response /\ Len(fromServer) < MaxEvents /\ OpenAI!Emit(<<"audio">>)
      /\ UNCHANGED <<oStage, line, isRotating, isClosing, oldLine, oTold, oCleanly, replaced,
                     isResponseActive, pendingResponseCancel, pendingResponseCreate,
                     assistantSpeaking, items, fate, oldEvents, strayed, toServer, response,
                     oExcused>>
  BY DEF OpenAI!ResponseAudio, OpenAI!sessionVars, OpenAI!responseVars, OpenAI!itemVars
<1>2. toServer \in Seq(OpenAI!ClientEvents) /\ response \in BOOLEAN /\ oExcused \in BOOLEAN
  BY DEF OpenAIInv, EventTypes, OpenAIFlags
<1>3. /\ EventTypes' /\ OpenAIFlags' /\ LineInv' /\ OpeningInv' /\ ResponseInv'
      /\ ActiveInv' /\ OpenAI!LastWordIsTrue'
      /\ Has(fromServer, "error") => Has(fromServer', "error")
  BY <1>1, <1>2, ServerEventsTyped, EmitKeeps
<1>4. OpenAITypes' /\ FateInv' /\ ItemsInv'
  BY <1>1, <1>3, ItemsStand
<1> QED
  BY <1>3, <1>4 DEF OpenAIInv

LEMMA ResponseDoneKeeps == ASSUME OpenAIInv, OpenAI!ResponseDone PROVE OpenAIInv'
<1>1. /\ line = "open" /\ Len(fromServer) < MaxEvents /\ OpenAI!Emit(<<"done">>)
      /\ response' = FALSE
      /\ UNCHANGED <<oStage, line, isRotating, isClosing, oldLine, oTold, oCleanly, replaced,
                     isResponseActive, pendingResponseCancel, pendingResponseCreate,
                     assistantSpeaking, items, fate, oldEvents, strayed, toServer, oExcused>>
  BY DEF OpenAI!ResponseDone, OpenAI!sessionVars, OpenAI!responseVars, OpenAI!itemVars
<1>2. toServer \in Seq(OpenAI!ClientEvents) /\ oExcused \in BOOLEAN
  BY DEF OpenAIInv, EventTypes, OpenAIFlags
<1>3. /\ EventTypes' /\ OpenAIFlags' /\ LineInv' /\ OpeningInv' /\ ResponseInv'
      /\ ActiveInv' /\ OpenAI!LastWordIsTrue'
      /\ Has(fromServer, "error") => Has(fromServer', "error")
  BY <1>1, <1>2, ServerEventsTyped, EmitKeeps
<1>4. OpenAITypes' /\ FateInv' /\ ItemsInv'
  BY <1>1, <1>3, ItemsStand
<1> QED
  BY <1>3, <1>4 DEF OpenAIInv

\* OpenAI reads an item: what is to follow it is still to come.
LEMMA ReadItemKeeps ==
    ASSUME OpenAIInv, line = "open", toServer # <<>>, NEW n \in 1..MaxItems,
           Head(toServer) = OpenAI!Item(n), toServer' = Tail(toServer),
           Len(fromServer) < MaxEvents, OpenAI!ReadItem(n),
           UNCHANGED <<oStage, line, isRotating, isClosing, oldLine, oTold, oCleanly, replaced,
                       isResponseActive, pendingResponseCancel, pendingResponseCreate,
                       assistantSpeaking, items, oldEvents, strayed>>
    PROVE  OpenAIInv'
<1>1. /\ fate' = [fate EXCEPT ![n] = IF fate[n] = "orphaned" THEN "lost" ELSE "read"]
      /\ UNCHANGED <<response, oExcused>>
      /\ OpenAI!Emit(<<"error">>) \/ UNCHANGED fromServer
  BY DEF OpenAI!ReadItem
<1>2. /\ toServer \in Seq(OpenAI!ClientEvents) /\ fate \in [1..MaxItems -> OpenAI!Fates]
      /\ response \in BOOLEAN /\ oExcused \in BOOLEAN
  BY DEF OpenAIInv, OpenAITypes, EventTypes, OpenAIFlags
<1>3. toServer' \in Seq(OpenAI!ClientEvents)
  BY <1>2, EventTaken
<1>4. \A e : Has(toServer, e) /\ e # OpenAI!Item(n) => Has(toServer', e)
  BY <1>2, TakenHas
<1>5. Has(toServer, OpenAI!Create) => Has(toServer', OpenAI!Create)
  BY <1>4, ClientEventsDiffer
<1>6. /\ fate' \in [1..MaxItems -> OpenAI!Fates] /\ fate'[n] \in {"lost", "read"}
      /\ fate[n] # "orphaned" => fate'[n] = "read"
      /\ \A m \in 1..MaxItems : m # n => fate'[m] = fate[m]
  BY <1>1, <1>2 DEF OpenAI!Fates
<1>7. OpenAITypes'
  BY <1>6 DEF OpenAIInv, OpenAITypes
<1>8. FateInv'
  <2>1. ~replaced => \A m \in 1..MaxItems : fate'[m] \in {"none", "sent", "read", "spoken"}
    BY <1>6 DEF OpenAIInv, FateInv
  <2>2. ASSUME NEW m \in 1..MaxItems, fate'[m] = "sent" PROVE Has(toServer', OpenAI!Item(m))
    <3>1. m # n /\ fate[m] = "sent"
      BY <1>6, <2>2
    <3>2. Has(toServer, OpenAI!Item(m)) /\ OpenAI!Item(m) # OpenAI!Item(n)
      BY <3>1, ClientEventsDiffer DEF OpenAIInv, FateInv
    <3> QED
      BY <1>4, <3>2
  <2> QED
    BY <2>1, <2>2 DEF FateInv
<1>9. /\ EventTypes' /\ OpenAIFlags' /\ LineInv' /\ OpeningInv' /\ ResponseInv'
      /\ ActiveInv' /\ OpenAI!LastWordIsTrue'
      /\ Has(fromServer, "error") => Has(fromServer', "error")
  <2>1. CASE OpenAI!Emit(<<"error">>)
    <3>1. "error" \notin {"created", "audio"} /\ ~(response /\ ~response')
      BY <1>1
    <3>2. response' \in BOOLEAN /\ oExcused' \in BOOLEAN
      BY <1>1, <1>2
    <3> QED
      BY <1>3, <1>5, <2>1, <3>1, <3>2, ServerEventsTyped, EmitKeeps
  <2>2. CASE UNCHANGED fromServer
    <3>1. EventTypes' /\ OpenAIFlags'
      BY <1>1, <1>3, <2>2 DEF OpenAIInv, EventTypes, OpenAIFlags
    <3>2. LineInv' /\ OpeningInv' /\ ResponseInv' /\ OpenAI!LastWordIsTrue'
      BY <1>1, <2>2 DEF OpenAIInv, LineInv, OpeningInv, ResponseInv, OpenAI!LastWordIsTrue
    <3>3. ActiveInv'
      BY <1>1, <1>5, <2>2 DEF OpenAIInv, ActiveInv
    <3> QED
      BY <2>2, <3>1, <3>2, <3>3
  <2> QED
    BY <1>1, <2>1, <2>2
<1>10. ItemsInv'
  <2> SUFFICES ASSUME ~strayed, ~oExcused, NEW m \in 1..MaxItems
               PROVE  LET later == pendingResponseCreate' \/ Has(fromServer', "error") IN
                      /\ fate'[m] = "read" => later \/ Has(toServer', OpenAI!Create)
                      /\ Follows(toServer', OpenAI!Item(m), OpenAI!Create, later)
    BY <1>1 DEF ItemsInv
  <2> DEFINE coming == pendingResponseCreate \/ Has(fromServer, "error")
             later == pendingResponseCreate' \/ Has(fromServer', "error")
  <2>1. /\ fate[m] = "read" => coming \/ Has(toServer, OpenAI!Create)
        /\ Follows(toServer, OpenAI!Item(m), OpenAI!Create, coming)
    BY DEF OpenAIInv, ItemsInv
  <2>2. coming => later
    BY <1>9
  <2> HIDE DEF coming, later
  <2>3. /\ Follows(toServer', OpenAI!Item(m), OpenAI!Create, coming)
        /\ m = n => coming \/ Has(toServer', OpenAI!Create)
    BY <1>2, <2>1, TakenFollows
  <2>4. fate'[m] = "read" => later \/ Has(toServer', OpenAI!Create)
    BY <1>5, <1>6, <2>1, <2>2, <2>3
  <2>5. Follows(toServer', OpenAI!Item(m), OpenAI!Create, later)
    BY <2>2, <2>3, FollowsWeaker
  <2> QED
    BY <2>4, <2>5 DEF later
<1> QED
  BY <1>7, <1>8, <1>9, <1>10 DEF OpenAIInv

LEMMA ServerReadsKeeps == ASSUME OpenAIInv, OpenAI!ServerReads PROVE OpenAIInv'
<1> DEFINE event == Head(toServer)
<1>1. /\ line = "open" /\ toServer # <<>> /\ Len(fromServer) < MaxEvents
      /\ toServer' = Tail(toServer)
      /\ UNCHANGED <<oStage, line, isRotating, isClosing, oldLine, oTold, oCleanly, replaced,
                     isResponseActive, pendingResponseCancel, pendingResponseCreate,
                     assistantSpeaking, items, oldEvents, strayed>>
      /\ \/ event.type = "item" /\ OpenAI!ReadItem(event.item)
         \/ event.type = "create" /\ OpenAI!ReadCreate
         \/ event.type = "cancel" /\ OpenAI!ReadCancel
  BY DEF OpenAI!ServerReads, OpenAI!sessionVars, OpenAI!responseVars
<1>2. /\ toServer \in Seq(OpenAI!ClientEvents) /\ response \in BOOLEAN /\ oExcused \in BOOLEAN
  BY DEF OpenAIInv, EventTypes, OpenAIFlags
<1>3. toServer' \in Seq(OpenAI!ClientEvents) /\ event \in OpenAI!ClientEvents
  BY <1>1, <1>2, EventTaken
<1>4. \A e : Has(toServer, e) /\ e # event => Has(toServer', e)
  BY <1>1, <1>2, TakenHas
<1>5. \A n \in 1..MaxItems : \A coming :
         Follows(toServer, OpenAI!Item(n), OpenAI!Create, coming)
            => Follows(toServer', OpenAI!Item(n), OpenAI!Create, coming)
  <2> SUFFICES ASSUME NEW n \in 1..MaxItems, NEW coming,
                      Follows(toServer, OpenAI!Item(n), OpenAI!Create, coming)
               PROVE  Follows(toServer', OpenAI!Item(n), OpenAI!Create, coming)
    OBVIOUS
  <2> QED
    BY <1>1, <1>2, TakenFollows
<1>6. ASSUME NEW n \in 1..MaxItems, event = OpenAI!Item(n) PROVE OpenAIInv'
  <2>1. OpenAI!ReadItem(n)
    BY <1>1, <1>6, ClientEventsDiffer
  <2> QED
    BY <1>1, <1>6, <2>1, ReadItemKeeps
<1>7. CASE event = OpenAI!Create
  <2>1. OpenAI!ReadCreate
    BY <1>1, <1>7, ClientEventsDiffer
  <2>2. \A n \in 1..MaxItems : Has(toServer, OpenAI!Item(n)) => Has(toServer', OpenAI!Item(n))
    BY <1>4, <1>7, ClientEventsDiffer
  <2>3. CASE response
    <3>1. OpenAI!Emit(<<"error">>) /\ UNCHANGED <<response, fate, oExcused>>
      BY <2>1, <2>3 DEF OpenAI!ReadCreate
    <3>2. response' \in BOOLEAN /\ oExcused' \in BOOLEAN /\ ~(response /\ ~response')
      BY <1>2, <2>3, <3>1
    <3>3. /\ EventTypes' /\ OpenAIFlags' /\ LineInv' /\ OpeningInv' /\ ResponseInv'
          /\ ActiveInv' /\ OpenAI!LastWordIsTrue' /\ Has(fromServer', "error")
      BY <1>1, <1>3, <3>1, <3>2, ServerEventsTyped, EmitKeeps
    <3>4. OpenAITypes' /\ FateInv'
      BY <1>1, <2>2, <3>1 DEF OpenAIInv, OpenAITypes, FateInv
    <3>5. ItemsInv'
      BY <3>3 DEF ItemsInv, Follows
    <3> QED
      BY <3>3, <3>4, <3>5 DEF OpenAIInv
  <2>4. CASE ~response
    <3>1. OpenAI!Emit(<<"created">>) /\ OpenAI!Respond(Tail(toServer))
      BY <2>1, <2>4 DEF OpenAI!ReadCreate
    <3>2. response' = TRUE /\ response' \in BOOLEAN /\ oExcused' \in BOOLEAN
      BY <3>1 DEF OpenAI!Respond
    <3>3. /\ EventTypes' /\ OpenAIFlags' /\ LineInv' /\ OpeningInv' /\ ResponseInv'
          /\ ActiveInv' /\ OpenAI!LastWordIsTrue'
          /\ Has(fromServer, "error") => Has(fromServer', "error")
      BY <1>1, <1>3, <3>1, <3>2, ServerEventsTyped, EmitKeeps
    <3>4. OpenAITypes' /\ FateInv' /\ ItemsInv'
      BY <1>1, <1>3, <1>5, <2>2, <3>1, <3>3, RespondKeeps
    <3> QED
      BY <3>3, <3>4 DEF OpenAIInv
  <2> QED
    BY <2>3, <2>4
<1>8. CASE event = OpenAI!Cancel
  <2>1. OpenAI!ReadCancel
    BY <1>1, <1>8, ClientEventsDiffer
  <2>2. /\ OpenAI!Emit(IF response THEN <<"done">> ELSE <<"error">>) /\ response' = FALSE
        /\ UNCHANGED <<fate, oExcused>>
    BY <2>1 DEF OpenAI!ReadCancel
  <2>3. PICK e \in {"done", "error"} : OpenAI!Emit(<<e>>) /\ (response => e = "done")
    BY <2>2
  <2>4. /\ e \in OpenAI!ServerEvents /\ response' \in BOOLEAN /\ oExcused' \in BOOLEAN
        /\ e \notin {"created", "audio"}
    BY <1>2, <2>2, ServerEventsTyped
  <2>5. /\ Has(toServer, OpenAI!Create) => Has(toServer', OpenAI!Create)
        /\ \A n \in 1..MaxItems : Has(toServer, OpenAI!Item(n)) => Has(toServer', OpenAI!Item(n))
    BY <1>4, <1>8, ClientEventsDiffer
  <2>6. /\ EventTypes' /\ OpenAIFlags' /\ LineInv' /\ OpeningInv' /\ ResponseInv'
        /\ ActiveInv' /\ OpenAI!LastWordIsTrue'
        /\ Has(fromServer, "error") => Has(fromServer', "error")
    BY <1>1, <1>3, <2>2, <2>3, <2>4, <2>5, EmitKeeps
  <2>7. OpenAITypes' /\ FateInv'
    BY <1>1, <2>2, <2>5 DEF OpenAIInv, OpenAITypes, FateInv
  <2>8. ItemsInv'
    <3> SUFFICES ASSUME ~strayed, ~oExcused, NEW n \in 1..MaxItems
                 PROVE  LET later == pendingResponseCreate' \/ Has(fromServer', "error") IN
                        /\ fate'[n] = "read" => later \/ Has(toServer', OpenAI!Create)
                        /\ Follows(toServer', OpenAI!Item(n), OpenAI!Create, later)
      BY <1>1, <2>2 DEF ItemsInv
    <3> DEFINE coming == pendingResponseCreate \/ Has(fromServer, "error")
               later == pendingResponseCreate' \/ Has(fromServer', "error")
    <3>1. /\ fate[n] = "read" => coming \/ Has(toServer, OpenAI!Create)
          /\ Follows(toServer, OpenAI!Item(n), OpenAI!Create, coming)
      BY <1>1 DEF OpenAIInv, ItemsInv
    <3>2. coming => later
      BY <1>1, <2>6
    <3> HIDE DEF coming, later
    <3>3. Follows(toServer', OpenAI!Item(n), OpenAI!Create, coming)
      BY <1>5, <3>1
    <3>4. Follows(toServer', OpenAI!Item(n), OpenAI!Create, later)
      BY <3>2, <3>3, FollowsWeaker
    <3>5. fate'[n] = "read" => later \/ Has(toServer', OpenAI!Create)
      BY <2>2, <2>5, <3>1, <3>2
    <3> QED
      BY <3>4, <3>5 DEF later
  <2> QED
    BY <2>6, <2>7, <2>8 DEF OpenAIInv
<1> HIDE DEF event
<1> QED
  BY <1>3, <1>6, <1>7, <1>8 DEF OpenAI!ClientEvents

LEMMA NextOpenAI == OpenAIInv /\ [OpenAI!Next]_openaiVars => OpenAIInv'
<1> SUFFICES ASSUME OpenAIInv, [OpenAI!Next]_openaiVars PROVE OpenAIInv'
  OBVIOUS
<1>1. CASE OpenAI!Connect \/ OpenAI!Prepared \/ OpenAI!Opened \/ OpenAI!OpenFails
  BY <1>1, ConnectKeeps, PreparedKeeps, OpenedKeeps, OpenFailsKeeps
<1>2. CASE OpenAI!Rotate \/ OpenAI!Disconnect \/ OpenAI!CancelResponse
  BY <1>2, RotateKeeps, DisconnectKeeps, CancelResponseKeeps
<1>3. ASSUME NEW orphaned \in BOOLEAN, OpenAI!NewItem(orphaned) PROVE OpenAIInv'
  BY <1>3, NewItemKeeps
<1>4. CASE OpenAI!Receive \/ OpenAI!ReceiveOld
  BY <1>4, ReceiveKeeps, ReceiveOldKeeps
<1>5. CASE OpenAI!ServerReads \/ OpenAI!UserSpoke
  BY <1>5, ServerReadsKeeps, UserSpokeKeeps
<1>6. CASE OpenAI!ResponseAudio \/ OpenAI!ResponseDone
  BY <1>6, ResponseAudioKeeps, ResponseDoneKeeps
<1>7. ASSUME NEW clean \in BOOLEAN, OpenAI!LineCloses(clean) PROVE OpenAIInv'
  BY <1>7, LineClosesKeeps
<1>8. ASSUME NEW clean \in BOOLEAN, OpenAI!OldLineCloses(clean) PROVE OpenAIInv'
  BY <1>8, OldLineClosesKeeps
<1>9. CASE UNCHANGED openaiVars
  <2>1. OpenAITypes' /\ EventTypes' /\ OpenAIFlags'
    BY <1>9 DEF openaiVars, OpenAIInv, OpenAITypes, EventTypes, OpenAIFlags
  <2>2. FateInv' /\ OpeningInv' /\ ResponseInv' /\ ActiveInv' /\ ItemsInv'
    BY <1>9, SessionStands DEF openaiVars
  <2>3. LineInv' /\ OpenAI!LastWordIsTrue'
    BY <1>9 DEF openaiVars, OpenAIInv, LineInv, OpenAI!LastWordIsTrue
  <2> QED
    BY <2>1, <2>2, <2>3 DEF OpenAIInv
<1> QED
  BY <1>1, <1>2, <1>3, <1>4, <1>5, <1>6, <1>7, <1>8, <1>9 DEF OpenAI!Next

-----------------------------------------------------------------------------
(***************************************************************************)
(* The two together.                                                       *)
(***************************************************************************)

RealtimeInv == GeminiInv /\ OpenAIInv

LEMMA RealtimeImplied == RealtimeInv => LastWordIsTrue /\ ResultReachesModel
  BY GeminiImplied, OpenAIImplied DEF RealtimeInv, LastWordIsTrue, ResultReachesModel

LEMMA InitRealtime == Init => RealtimeInv
  BY InitGemini, InitOpenAI DEF Init, RealtimeInv

LEMMA RealtimeStep ==
    ASSUME [Next]_vars
    PROVE  [Gemini!Next]_geminiVars /\ [OpenAI!Next]_openaiVars
<1>1. CASE UNCHANGED vars
  BY <1>1 DEF vars
<1>2. CASE Next
  BY <1>2 DEF Next
<1> QED
  BY <1>1, <1>2

LEMMA NextRealtime == RealtimeInv /\ [Next]_vars => RealtimeInv'
  BY RealtimeStep, NextGemini, NextOpenAI DEF RealtimeInv

\* However rotations, tool calls, goAways, failed attempts and closes interleave, what the
\* client was told last of its connection is true: while it takes its session for ready
\* there is one, a connection is being made, or the session was closed with a clean code,
\* which the code does not tell (gemini.ts:299, openai.ts:311); and while it takes the
\* session for being replaced the adapter is rotating, which with OpenAI it stays for good
\* once the new session was refused (openai.ts:302).
THEOREM LastWordsTrue == Spec => []LastWordIsTrue
<1>1. RealtimeInv => LastWordIsTrue
  BY RealtimeImplied
<1> QED
  BY <1>1, InitRealtime, NextRealtime, PTL DEF Spec

\* With Gemini, however rotations, tool calls, cancellations, goAways and closes
\* interleave, a result goes only to the session that asked for it, none is kept back from
\* a session that is ready, and the watchdog is silent while a call is owed.  With OpenAI,
\* what a session was handed is taken up by a response as long as the session lasts, and
\* the microphone opens again; an item is lost, or handed to a session that did not ask for
\* it, only when sessions were closed or replaced.  Excused are the calls and requests that
\* the code itself gives up.
THEOREM ResultsReachModel == Spec => []ResultReachesModel
<1>1. RealtimeInv => ResultReachesModel
  BY RealtimeImplied
<1> QED
  BY <1>1, InitRealtime, NextRealtime, PTL DEF Spec
=============================================================================
