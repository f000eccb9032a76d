------------------------------ MODULE DirectCall ------------------------------
(***************************************************************************)
(* A call of the phone in direct mode, useDirectGemini: a socket to the    *)
(* Relay, on which the phone authenticates, fetches the session's          *)
(* preparation and a token and executes tools, and a socket to Gemini.     *)
(* Every start runs the same chain of waits over shared refs; a stop or    *)
(* another start closes the sockets and forgets the resolvers, but not the *)
(* timers.  What a chain cannot bring up falls back to MobileCall's way.   *)
(*                                                                         *)
(* A socket that was closed still delivers what was sent to it until its   *)
(* close event comes.  Audio, transcripts and tools are left out.          *)
(***************************************************************************)
EXTENDS Naturals, FiniteSets

CONSTANT MaxStarts      \* bound: starts of a call

Starts == 1..MaxStarts
None == 0
Waits == {"auth", "prep", "token"}

VARIABLES
    mode,           \* the page's activeModeRef, once a call was started
    last,           \* the number of the last start
    chain,          \* what each start waits for
    relay, gemini,  \* each start's sockets
    relayWsRef, geminiWsRef,
    pending,        \* the start whose resolvers are registered, of each answer
    got,            \* the answers of session.prep and mint_token a start has
    asked,          \* requests each Relay socket has not answered yet
    timer,          \* timers that are set
    settled,        \* Gemini sockets whose set-up promise is settled
    userStopped, isConnected, capturing,
    disturbed       \* history: starts whose resolvers another start's event took

refVars == <<relayWsRef, geminiWsRef, pending>>
sockVars == <<relay, gemini>>
directVars == <<mode, last, chain, sockVars, refVars, got, asked, timer, settled, userStopped,
    isConnected, capturing, disturbed>>

SocketStates == {"none", "connecting", "open", "closing", "closed"}

DirectTypeOK ==
    /\ mode \in {"none", "direct", "relay"} /\ last \in 0..MaxStarts
    /\ chain \in [Starts -> {"none", "relay", "auth", "answers", "setup", "up", "failed"}]
    /\ relay \in [Starts -> SocketStates] /\ gemini \in [Starts -> SocketStates]
    /\ relayWsRef \in 0..MaxStarts /\ geminiWsRef \in 0..MaxStarts
    /\ pending \in [Waits -> 0..MaxStarts]
    /\ got \in [Starts -> SUBSET Waits] /\ asked \in [Starts -> SUBSET Waits]
    /\ timer \subseteq Starts \X (Waits \cup {"relay", "setup"})
    /\ settled \subseteq Starts /\ disturbed \subseteq Starts
    /\ {userStopped, isConnected, capturing} \subseteq BOOLEAN

Init ==
    /\ mode = "none" /\ last = 0
    /\ chain = [k \in Starts |-> "none"]
    /\ relay = [k \in Starts |-> "none"] /\ gemini = [k \in Starts |-> "none"]
    /\ relayWsRef = None /\ geminiWsRef = None
    /\ pending = [w \in Waits |-> None]
    /\ got = [k \in Starts |-> {}] /\ asked = [k \in Starts |-> {}]
    /\ timer = {} /\ settled = {} /\ disturbed = {}
    /\ userStopped = FALSE /\ isConnected = FALSE /\ capturing = FALSE

Live(sock, k) == k # None /\ sock[k] \in {"connecting", "open"}
Closing(sock, k) == IF Live(sock, k) THEN [sock EXCEPT ![k] = "closing"] ELSE sock
Delivers(sock, k) == sock[k] \in {"open", "closing"}

-----------------------------------------------------------------------------
\* Mutant: the resolvers of the start before stay registered.
CleanupSockets ==
    /\ relay' = Closing(relay, relayWsRef) /\ gemini' = Closing(gemini, geminiWsRef)
    /\ relayWsRef' = None /\ geminiWsRef' = None
    /\ UNCHANGED pending

\* cleanup()
Cleanup ==
    /\ relay' = Closing(relay, relayWsRef) /\ gemini' = Closing(gemini, geminiWsRef)
    /\ relayWsRef' = None /\ geminiWsRef' = None
    /\ pending' = [w \in Waits |-> None]

\* start()
Start ==
    /\ last < MaxStarts
    /\ LET k == last + 1 IN
         /\ last' = k
         /\ relay' = [Closing(relay, relayWsRef) EXCEPT ![k] = "connecting"]
         /\ gemini' = Closing(gemini, geminiWsRef)
         /\ relayWsRef' = k /\ geminiWsRef' = None
         /\ pending' = [w \in Waits |-> None]
         /\ chain' = [chain EXCEPT ![k] = "relay"]
         /\ timer' = timer \cup {<<k, "relay">>}
    /\ mode' = "direct" /\ userStopped' = FALSE
    /\ UNCHANGED <<got, asked, settled, isConnected, capturing, disturbed>>

\* stop(), which the page calls in direct mode only.
Stop ==
    /\ mode = "direct"
    /\ Cleanup
    /\ userStopped' = TRUE /\ isConnected' = FALSE /\ capturing' = FALSE
    /\ UNCHANGED <<mode, last, chain, got, asked, timer, settled, disturbed>>

\* A rejected chain cleans up, whoever's the sockets are by now, and the page falls
\* back to a call through the Relay.
Fail(k) ==
    /\ chain' = [chain EXCEPT ![k] = "failed"]
    /\ mode' = "relay"
    /\ Cleanup

-----------------------------------------------------------------------------
\* openRelayWs resolves; requestAuth.
RelayOpens(k) ==
    /\ relay[k] = "connecting"
    /\ relay' = [relay EXCEPT ![k] = "open"]
    /\ timer' = (timer \ {<<k, "relay">>}) \cup {<<k, "auth">>}
    /\ chain' = [chain EXCEPT ![k] = "auth"]
    /\ pending' = [pending EXCEPT !["auth"] = k]
    /\ asked' = [asked EXCEPT ![k] = @ \cup {"auth"}]
    /\ UNCHANGED <<mode, last, gemini, relayWsRef, geminiWsRef, got, settled, userStopped,
                   isConnected, capturing, disturbed>>

\* Its timer fires: ws.close() acts on a socket that cleanup() has not closed yet.
RelayTimeout(k) ==
    /\ <<k, "relay">> \in timer
    /\ timer' = timer \ {<<k, "relay">>}
    /\ Fail(k)
    /\ UNCHANGED <<last, got, asked, settled, userStopped, isConnected, capturing, disturbed>>

\* An answer or a timer of start j meets the resolvers of start p.
Robbed(j, p) == IF p \notin {None, j} THEN disturbed \cup {p} ELSE disturbed

\* session.auth.ok: requestPrep and requestToken, if a socket to the Relay is open.
AuthOk(j) ==
    /\ Delivers(relay, j) /\ "auth" \in asked[j]
    /\ LET p == pending["auth"] IN
         /\ disturbed' = Robbed(j, p)
         /\ timer' = IF p = None THEN timer
                     ELSE IF relayWsRef # None /\ relay[relayWsRef] = "open"
                     THEN (timer \ {<<p, "auth">>}) \cup {<<p, "prep">>, <<p, "token">>}
                     ELSE timer \ {<<p, "auth">>}
         /\ IF p = None
            THEN /\ asked' = [asked EXCEPT ![j] = @ \ {"auth"}]
                 /\ UNCHANGED <<mode, chain, sockVars, refVars>>
            ELSE IF relayWsRef # None /\ relay[relayWsRef] = "open"
            THEN /\ pending' = [pending EXCEPT !["auth"] = None, !["prep"] = p, !["token"] = p]
                 /\ chain' = [chain EXCEPT ![p] = "answers"]
                 /\ asked' = [i \in Starts |->
                       (asked[i] \ (IF i = j THEN {"auth"} ELSE {}))
                           \cup (IF i = relayWsRef THEN {"prep", "token"} ELSE {})]
                 /\ UNCHANGED <<mode, sockVars, relayWsRef, geminiWsRef>>
            ELSE /\ asked' = [asked EXCEPT ![j] = @ \ {"auth"}]
                 /\ Fail(p)
    /\ UNCHANGED <<last, got, settled, userStopped, isConnected, capturing>>

\* session.prep.result and token: with both, openGeminiWs.
Answer(j, w) ==
    /\ w \in {"prep", "token"}
    /\ Delivers(relay, j) /\ w \in asked[j]
    /\ asked' = [asked EXCEPT ![j] = @ \ {w}]
    /\ LET p == pending[w]
           all == p # None /\ got[p] \cup {w} = {"prep", "token"}
       IN  /\ disturbed' = Robbed(j, p)
           /\ pending' = [pending EXCEPT ![w] = None]
           /\ got' = IF p = None THEN got ELSE [got EXCEPT ![p] = @ \cup {w}]
           /\ timer' = (timer \ {<<p, w>>}) \cup (IF all THEN {<<p, "setup">>} ELSE {})
           /\ IF all
              THEN /\ chain' = [chain EXCEPT ![p] = "setup"]
                   /\ gemini' = [gemini EXCEPT ![p] = "connecting"]
                   /\ geminiWsRef' = p
              ELSE UNCHANGED <<chain, gemini, geminiWsRef>>
    /\ UNCHANGED <<mode, last, relay, relayWsRef, settled, userStopped, isConnected, capturing>>

\* error with code 401, session.prep.error, token.error
Refused(j, w) ==
    /\ Delivers(relay, j) /\ w \in asked[j]
    /\ asked' = [asked EXCEPT ![j] = @ \ {w}]
    /\ LET p == pending[w] IN
         /\ disturbed' = Robbed(j, p)
         /\ timer' = timer \ {<<p, w>>}
         /\ IF p = None THEN UNCHANGED <<mode, chain, sockVars, refVars>> ELSE Fail(p)
    /\ UNCHANGED <<last, got, settled, userStopped, isConnected, capturing>>

\* The timer of a request fires: it drops the resolvers registered now, whosever they
\* are, and rejects its own promise; without any it does nothing.
RequestTimeout(k, w) ==
    /\ <<k, w>> \in timer /\ w \in Waits
    /\ timer' = timer \ {<<k, w>>}
    /\ LET p == pending[w] IN
         /\ disturbed' = Robbed(k, p)
         /\ IF p # None /\ chain[k] \in {"auth", "answers"}
            THEN Fail(k)
            ELSE /\ pending' = [pending EXCEPT ![w] = None]
                 /\ UNCHANGED <<mode, chain, sockVars, relayWsRef, geminiWsRef>>
    /\ UNCHANGED <<last, got, asked, settled, userStopped, isConnected, capturing>>

\* onclose of a Relay socket: the Gemini socket in use is closed, whosever it is.
RelayCloses(k) ==
    /\ relay[k] \in {"connecting", "open", "closing"}
    /\ relay' = [relay EXCEPT ![k] = "closed"]
    /\ relayWsRef' = IF relayWsRef = k THEN None ELSE relayWsRef
    /\ gemini' = IF userStopped THEN gemini ELSE Closing(gemini, geminiWsRef)
    /\ UNCHANGED <<mode, last, chain, geminiWsRef, pending, got, asked, timer, settled,
                   userStopped, isConnected, capturing, disturbed>>

-----------------------------------------------------------------------------
GeminiOpens(k) ==
    /\ gemini[k] = "connecting"
    /\ gemini' = [gemini EXCEPT ![k] = "open"]
    /\ UNCHANGED <<mode, last, chain, relay, refVars, got, asked, timer, settled, userStopped,
                   isConnected, capturing, disturbed>>

\* setupComplete, also on a socket that was given up.
SetupComplete(k) ==
    /\ Delivers(gemini, k) /\ chain[k] \in {"setup", "failed"}
    /\ settled' = settled \cup {k}
    /\ timer' = timer \ {<<k, "setup">>}
    /\ chain' = IF k \in settled THEN chain ELSE [chain EXCEPT ![k] = "up"]
    /\ isConnected' = TRUE /\ capturing' = TRUE
    /\ UNCHANGED <<mode, last, sockVars, refVars, got, asked, userStopped, disturbed>>

SetupTimeout(k) ==
    /\ <<k, "setup">> \in timer
    /\ timer' = timer \ {<<k, "setup">>}
    /\ settled' = settled \cup {k}
    /\ chain' = [chain EXCEPT ![k] = "failed"] /\ mode' = "relay"
    /\ relay' = Closing(relay, relayWsRef)
    /\ gemini' = Closing(Closing(gemini, k), geminiWsRef)
    /\ relayWsRef' = None /\ geminiWsRef' = None /\ pending' = [w \in Waits |-> None]
    /\ UNCHANGED <<last, got, asked, userStopped, isConnected, capturing, disturbed>>

\* onclose of a Gemini socket: of one still being set up, the chain is rejected; of
\* another, the call is over, and the page reconnects if nobody stopped it.
GeminiCloses(k) ==
    /\ gemini[k] \in {"connecting", "open", "closing"}
    /\ settled' = settled \cup {k}
    /\ timer' = timer \ {<<k, "setup">>}
    /\ IF k \in settled
       THEN /\ gemini' = [gemini EXCEPT ![k] = "closed"]
            /\ geminiWsRef' = IF geminiWsRef = k THEN None ELSE geminiWsRef
            /\ isConnected' = FALSE /\ capturing' = FALSE
            /\ UNCHANGED <<mode, chain, relay, relayWsRef, pending>>
       ELSE /\ chain' = [chain EXCEPT ![k] = "failed"] /\ mode' = "relay"
            /\ relay' = Closing(relay, relayWsRef)
            /\ gemini' = [Closing(gemini, geminiWsRef) EXCEPT ![k] = "closed"]
            /\ relayWsRef' = None /\ geminiWsRef' = None /\ pending' = [w \in Waits |-> None]
            /\ UNCHANGED <<isConnected, capturing>>
    /\ UNCHANGED <<last, got, asked, userStopped, disturbed>>

-----------------------------------------------------------------------------
Timeouts(k) ==
    RelayTimeout(k) \/ SetupTimeout(k) \/ \E w \in Waits : RequestTimeout(k, w)

Next ==
    \/ Start \/ Stop
    \/ \E k \in Starts :
          \/ RelayOpens(k) \/ AuthOk(k) \/ RelayCloses(k) \/ Timeouts(k)
          \/ GeminiOpens(k) \/ SetupComplete(k) \/ GeminiCloses(k)
          \/ \E w \in Waits : Answer(k, w) \/ Refused(k, w)

\* Timers fire; the network promises nothing.
Fairness == \A k \in Starts : WF_directVars(Timeouts(k))

Spec == Init /\ [][Next]_directVars /\ Fairness

-----------------------------------------------------------------------------
\* Only the last start goes on setting up a call, whatever late answers and timers of
\* the ones before do, every socket that is not being closed is reachable by a stop,
\* and a stop leaves none.
OnlyLastSetsUp ==
    \A k \in Starts :
        /\ Live(relay, k) => k = relayWsRef /\ k = last
        /\ Live(gemini, k) => k = geminiWsRef /\ k = last
        /\ \A w \in Waits : pending[w] = k => k = last
        /\ userStopped => ~Live(relay, k) /\ ~Live(gemini, k)

\* The microphone is open for a session whose close event is still to come.
MicrophoneHasSession ==
    capturing => \E k \in settled : gemini[k] \in {"open", "closing"}

\* The set-up of a call ends: it is up or the page falls back to the Relay, unless the
\* user stops it, it is started again, or an event of an earlier start takes its
\* resolvers.
SetupEnds ==
    \A k \in Starts :
        chain[k] \in {"relay", "auth", "answers", "setup"}
            ~> chain[k] = "up" \/ mode = "relay" \/ last # k \/ userStopped \/ k \in disturbed
=============================================================================
