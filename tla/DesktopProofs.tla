---------------------------- MODULE DesktopProofs ----------------------------
(***************************************************************************)
(* Proofs about the components of Desktop's main process: the Host         *)
(* connection, for every set of socket objects and every finite set of     *)
(* configured bindings; the Codex provider, for any finite set of          *)
(* invocations, any set of processes and any limits; the bundled services, *)
(* for any set of processes and any number of restarts; and the global     *)
(* shortcuts, for any set of keys.                                         *)
(***************************************************************************)
EXTENDS MCDesktop, FiniteSetTheorems, NaturalsInduction, TLAPS

-----------------------------------------------------------------------------
(***************************************************************************)
(* The Host connection.                                                    *)
(***************************************************************************)

(***************************************************************************)
(* The inductive invariant.                                                *)
(***************************************************************************)

\* The start sequence may still report the binding b.
Unsaid(b) ==
    \/ starter \in {"none", "loading", "opening"}
    \/ starter \in {"reporting", "awaiting"} /\ b \in unreported

\* The sockets: only one that is being opened has an opener, the start has one at most,
\* and the current one has not had its close event.
PortInv ==
    /\ \A p \in Ports : opener[p] # "none" <=> port[p] = "opening"
    /\ \A p, q \in Ports : opener[p] = "start" /\ opener[q] = "start" => p = q
    /\ \A p \in Ports : opener[p] = "start" => starter = "opening"
    /\ socket # NoPort => port[socket] \in {"open", "closing"}
    /\ OneLiveSocket

\* A stop that did not meet a start is final for all but the sockets it overtook.
StopInv ==
    /\ stopper = "none" => life \notin {"stopping", "stopped"} /\ ~raced
    /\ stopper # "none" /\ ~raced =>
          /\ starter = "over" /\ life \in {"stopping", "stopped"} /\ ~reconnect
          /\ \A p \in Ports : port[p] \in {"opening", "open"} => p \in overtaken

\* The start sequence waits for the one report it made.
PendingInv ==
    /\ pendingReadiness # <<>> <=> starter = "awaiting"
    /\ Len(pendingReadiness) <= 1
    /\ \A i \in DOMAIN pendingReadiness :
          port[pendingReadiness[i].socket] \in {"open", "closing"}

\* A binding is reported with one value, which is the one that is on its way, held,
\* pending and accepted, and replayed: none of it before the report.
Agrees(value) ==
    /\ \A p \in Ports : \A k \in 1..Len(wire[p]) :
          wire[p][k].value = value[wire[p][k].binding]
    /\ \A b \in Configured : /\ held[b] \in {Unknown, value[b]}
                             /\ accepted[b] \in {Unknown, value[b]}
    /\ \A i \in DOMAIN pendingReadiness :
          pendingReadiness[i].value = value[pendingReadiness[i].binding]

OneValueEach == \E value \in [Configured -> Readiness] : Agrees(value)

NothingUnsaid ==
    \A b \in Configured : Unsaid(b) =>
        /\ accepted[b] = Unknown /\ held[b] = Unknown
        /\ \A p \in Ports : \A k \in 1..Len(wire[p]) : wire[p][k].binding # b
        /\ \A i \in DOMAIN pendingReadiness : pendingReadiness[i].binding # b

\* On the open connection the Relay holds what it answered, and every binding it
\* accepted, or has its report still to read.
OnTheWay(b) == \E k \in 1..Len(wire[socket]) : wire[socket][k].binding = b

ReplayInv ==
    socket # NoPort /\ port[socket] = "open" =>
        /\ relaySocket = socket /\ peer[socket] = "open"
        /\ \A k \in 1..Len(answers[socket]) : held[answers[socket][k]] # Unknown
        /\ \A b \in Configured \ strays :
              accepted[b] # Unknown => held[b] # Unknown \/ OnTheWay(b)

LinkInv ==
    /\ TransportTypeOK
    /\ PortInv
    /\ StopInv
    /\ PendingInv
    /\ OneValueEach
    /\ NothingUnsaid
    /\ ReplayInv

-----------------------------------------------------------------------------
(***************************************************************************)
(* What the actions with a choice or a sequence in them do.                *)
(***************************************************************************)

\* #replayReadiness sends every accepted binding, with its value, and nothing else.
LEMMA Replayed ==
    ASSUME TransportTypeOK, NEW p \in Ports, ReplayReadiness(p)
    PROVE  \E sent \in Seq(Reports) :
              /\ wire' = [wire EXCEPT ![p] = sent]
              /\ \A k \in 1..Len(sent) : /\ accepted[sent[k].binding] # Unknown
                                         /\ sent[k].value = accepted[sent[k].binding]
              /\ \A b \in Configured : accepted[b] # Unknown =>
                    \E k \in 1..Len(sent) : sent[k].binding = b
<1> DEFINE known == {b \in Configured : accepted[b] # Unknown}
           n == Cardinality(known)
<1>1. IsFiniteSet(known) /\ n \in Nat
  BY FS_Subset, FS_CardinalityType, TransportAssumption
<1>2. PICK order \in [1..n -> known] :
         /\ \A i, j \in DOMAIN order : order[i] = order[j] => i = j
         /\ wire' = [wire EXCEPT ![p] =
               [i \in DOMAIN order |-> [binding |-> order[i], value |-> accepted[order[i]]]]]
  BY DEF ReplayReadiness
<1>3. order \in Surjection(1..n, known)
  <2>1. order \in Injection(1..n, known)
    <3>1. \A i, j \in 1..n : order[i] = order[j] => i = j
      BY <1>2
    <3> HIDE DEF n, known
    <3> QED
      BY <3>1 DEF Injection, IsInjective
  <2>2. Cardinality(1..n) = n /\ IsFiniteSet(1..n)
    BY <1>1, FS_Interval
  <2> QED
    BY <1>1, <2>1, <2>2, FS_Injection
<1> DEFINE sent == [i \in 1..n |-> [binding |-> order[i], value |-> accepted[order[i]]]]
<1>4. wire' = [wire EXCEPT ![p] = sent]
  BY <1>2
<1>5. \A b \in known : b \in Configured /\ accepted[b] \in Readiness /\ accepted[b] # Unknown
  BY DEF TransportTypeOK
<1> HIDE DEF n, known
<1>6. sent \in Seq(Reports) /\ Len(sent) = n
  <2>1. \A i \in 1..n : [binding |-> order[i], value |-> accepted[order[i]]] \in Reports
    BY <1>5 DEF Reports
  <2>2. sent \in [1..n -> Reports]
    BY <2>1
  <2> QED
    BY <1>1, <2>2
<1>7. \A k \in 1..n : /\ sent[k].binding = order[k] /\ sent[k].value = accepted[order[k]]
                      /\ accepted[order[k]] # Unknown
  BY <1>5
<1>8. \A b \in Configured : accepted[b] # Unknown => \E k \in 1..n : order[k] = b
  BY <1>3 DEF Surjection, known
<1>9. /\ \A k \in 1..Len(sent) : /\ accepted[sent[k].binding] # Unknown
                                /\ sent[k].value = accepted[sent[k].binding]
      /\ \A b \in Configured : accepted[b] # Unknown =>
            \E k \in 1..Len(sent) : sent[k].binding = b
  <2> HIDE DEF sent
  <2> QED
    BY <1>6, <1>7, <1>8
<1> HIDE DEF sent
<1> QED
  BY <1>4, <1>6, <1>9

\* An answer is for the report that waits, or for none.
Concludes(p, b) ==
    /\ pendingReadiness # <<>> /\ pendingReadiness[1].binding = b
    /\ 1 \in DOMAIN pendingReadiness /\ starter = "awaiting"
    /\ pendingReadiness' = <<>> /\ starter' = "reporting"
    /\ accepted' = [accepted EXCEPT ![b] = pendingReadiness[1].value]
    /\ strays' = IF p = socket THEN strays ELSE strays \cup {b}

LEMMA AnswerMet ==
    ASSUME TransportTypeOK, PendingInv, NEW p \in Ports, ReadinessAccepted(p)
    PROVE  /\ Head(answers[p]) \in Configured /\ answers[p] # <<>>
           /\ answers' = [answers EXCEPT ![p] = Tail(@)]
           /\ UNCHANGED <<life, unreported, stopVars, linkVars, wire, peer, relaySocket, held>>
           /\ UNCHANGED <<reportVars, starter>> \/ Concludes(p, Head(answers[p]))
<1> DEFINE b == Head(answers[p])
           matching == {i \in DOMAIN pendingReadiness : pendingReadiness[i].binding = b}
           first == CHOOSE i \in matching : \A j \in matching : i <= j
<1>1. b \in Configured /\ answers[p] # <<>> /\ answers' = [answers EXCEPT ![p] = Tail(@)]
  BY DEF ReadinessAccepted, TransportTypeOK
<1>2. UNCHANGED <<life, unreported, stopVars, linkVars, wire, peer, relaySocket, held>>
  BY DEF ReadinessAccepted
<1>3. CASE matching = {}
  BY <1>1, <1>2, <1>3 DEF ReadinessAccepted
<1>4. CASE matching # {}
  <2>1. /\ pendingReadiness # <<>> /\ Len(pendingReadiness) = 1
        /\ DOMAIN pendingReadiness = {1} /\ matching = {1}
    <3>1. /\ DOMAIN pendingReadiness = 1..Len(pendingReadiness)
          /\ Len(pendingReadiness) \in Nat /\ Len(pendingReadiness) <= 1
      BY DEF PendingInv, TransportTypeOK
    <3>2. PICK i \in 1..Len(pendingReadiness) : i \in matching
      BY <1>4, <3>1
    <3>3. Len(pendingReadiness) = 1 /\ i = 1
      BY <3>1, <3>2
    <3>4. DOMAIN pendingReadiness = {1}
      BY <3>1, <3>3
    <3> QED
      BY <3>2, <3>3, <3>4
  <2>2. first = 1
    BY <2>1
  <2>3. /\ pendingReadiness' = SubSeq(pendingReadiness, 1, first - 1)
                                  \o SubSeq(pendingReadiness, first + 1, Len(pendingReadiness))
        /\ accepted' = [accepted EXCEPT ![b] = pendingReadiness[first].value]
        /\ strays' = IF p = socket THEN strays ELSE strays \cup {b}
        /\ starter' = IF starter = "awaiting" THEN "reporting" ELSE starter
    BY <1>4 DEF ReadinessAccepted
  <2>4. pendingReadiness' = <<>>
    <3>1. SubSeq(pendingReadiness, 1, 0) = <<>>
      BY DEF TransportTypeOK
    <3>2. SubSeq(pendingReadiness, 2, 1) = <<>>
      BY <2>1 DEF TransportTypeOK
    <3> HIDE DEF matching, first
    <3> QED
      BY <2>1, <2>2, <2>3, <3>1, <3>2
  <2>5. starter = "awaiting"
    BY <2>1 DEF PendingInv
  <2>6. pendingReadiness[1].binding = b
    BY <2>1
  <2> QED
    BY <1>1, <1>2, <2>1, <2>2, <2>3, <2>4, <2>5, <2>6 DEF Concludes
<1> QED
  BY <1>3, <1>4

LEMMA ReadinessTyped ==
    ASSUME TransportTypeOK, NEW i \in DOMAIN pendingReadiness
    PROVE  /\ pendingReadiness[i].binding \in Configured
           /\ pendingReadiness[i].value \in Readiness
           /\ pendingReadiness[i].socket \in Ports
<1> DEFINE R == [binding : Configured, value : Readiness, socket : Ports]
<1>1. pendingReadiness \in Seq(R)
  BY DEF TransportTypeOK
<1> HIDE DEF R
<1>2. pendingReadiness[i] \in R
  BY <1>1
<1> QED
  BY <1>2 DEF R

-----------------------------------------------------------------------------
(***************************************************************************)
(* Each part of the invariant is kept.                                     *)
(***************************************************************************)

LEMMA TypeStep ==
    ASSUME LinkInv, [Next]_transportVars
    PROVE  TransportTypeOK'
<1> USE DEF hostVars, stopVars, linkVars, reportVars, relayVars
<1>1. TransportTypeOK /\ PendingInv /\ PortInv
  BY DEF LinkInv
<1>2. CASE Start \/ LoadFails \/ Started \/ Stop \/ Stopped
  <2>1. CASE Start \/ LoadFails \/ Started \/ Stopped
    BY <1>1, <2>1 DEF Start, LoadFails, Started, Stopped, TransportTypeOK
  <2>2. CASE Stop
    <3>1. /\ port' \in [Ports -> {"unused", "opening", "open", "closing", "closed"}]
          /\ overtaken' \subseteq Ports /\ raced' \in BOOLEAN /\ socket' \in Ports \cup {NoPort}
          /\ stopper' \in {"none", "stopping", "over"}
          /\ life' \in {"idle", "starting", "running", "stopping", "stopped", "failed"}
          /\ reconnect' \in BOOLEAN
          /\ UNCHANGED <<starter, unreported, opener, reachable, attached, reportVars, relayVars>>
      BY <1>1, <2>2 DEF Stop, TransportTypeOK
    <3> QED
      BY <1>1, <3>1 DEF TransportTypeOK
  <2> QED
    BY <1>2, <2>1, <2>2
<1>3. CASE Loaded \/ TimerFires \/ \E p \in Ports : ConnectRemote(p)
  <2>1. /\ port' \in [Ports -> {"unused", "opening", "open", "closing", "closed"}]
        /\ opener' \in [Ports -> {"none", "start", "timer", "user"}]
        /\ reachable' \in BOOLEAN /\ overtaken' \subseteq Ports
    BY <1>1, <1>3 DEF Loaded, TimerFires, ConnectRemote, OpenFor, TransportTypeOK
  <2>2. CASE Loaded
    BY <1>1, <2>1, <2>2 DEF Loaded, TransportTypeOK
  <2>3. CASE TimerFires
    <3>1. reconnect' = FALSE
      BY <2>3 DEF TimerFires
    <3>2. UNCHANGED <<life, starter, stopper, raced, unreported, socket, attached,
                      pendingReadiness, accepted, strays, wire, answers, peer, relaySocket, held>>
      BY <2>3 DEF TimerFires
    <3>3. (pendingReadiness \in Seq([binding : Configured, value : Readiness, socket : Ports]))'
      BY <1>1, <3>2 DEF TransportTypeOK
    <3>4. (wire \in [Ports -> Seq(Reports)] /\ answers \in [Ports -> Seq(Configured)])'
      BY <1>1, <3>2 DEF TransportTypeOK
    <3>5. (/\ accepted \in [Configured -> Readiness \cup {Unknown}]
           /\ held \in [Configured -> Readiness \cup {Unknown}]
           /\ peer \in [Ports -> {"none", "open", "closed"}])'
      BY <1>1, <3>2 DEF TransportTypeOK
    <3>6. (/\ life \in {"idle", "starting", "running", "stopping", "stopped", "failed"}
           /\ starter \in {"none", "loading", "opening", "reporting", "awaiting", "over"}
           /\ stopper \in {"none", "stopping", "over"} /\ raced \in BOOLEAN
           /\ socket \in Ports \cup {NoPort} /\ attached \in BOOLEAN
           /\ unreported \subseteq Configured /\ strays \subseteq Configured
           /\ relaySocket \in Ports \cup {NoPort})'
      BY <1>1, <3>2 DEF TransportTypeOK
    <3> QED
      BY <2>1, <3>1, <3>3, <3>4, <3>5, <3>6 DEF TransportTypeOK
  <2>4. ASSUME NEW p \in Ports, ConnectRemote(p) PROVE TransportTypeOK'
    BY <1>1, <2>1, <2>4 DEF ConnectRemote, TransportTypeOK
  <2> QED
    BY <1>3, <2>2, <2>3, <2>4
<1>4. ASSUME NEW p \in Ports, Opened(p) PROVE TransportTypeOK'
  <2>1. wire' \in [Ports -> Seq(Reports)]
    BY <1>1, <1>4, Replayed DEF Opened, TransportTypeOK
  <2>2. port' \in [Ports -> {"unused", "opening", "open", "closing", "closed"}] /\ socket' = p
    BY <1>1, <1>4 DEF Opened, Adopt, TransportTypeOK
  <2>3. answers' \in [Ports -> Seq(Configured)]
    BY <1>1, <1>4 DEF Opened, TransportTypeOK
  <2> QED
    BY <1>1, <1>4, <2>1, <2>2, <2>3 DEF Opened, TransportTypeOK
<1>5. ASSUME NEW p \in Ports, OpenFails(p) \/ PortBreaks(p) PROVE TransportTypeOK'
  <2>1. /\ port' \in [Ports -> {"unused", "opening", "open", "closing", "closed"}]
        /\ opener' \in [Ports -> {"none", "start", "timer", "user"}]
    BY <1>1, <1>5 DEF OpenFails, PortBreaks, TransportTypeOK
  <2>2. reconnect' \in BOOLEAN
    BY <1>1, <1>5 DEF OpenFails, PortBreaks, ScheduleReconnect, TransportTypeOK
  <2> QED
    BY <1>1, <1>5, <2>1, <2>2 DEF OpenFails, PortBreaks, TransportTypeOK
<1>6. ASSUME NEW b \in Configured, NEW v \in Readiness, Report(b, v) PROVE TransportTypeOK'
  <2>1. CASE socket = NoPort
    BY <1>1, <1>6, <2>1 DEF Report, TransportTypeOK
  <2>2. CASE socket # NoPort
    <3> DEFINE report == [binding |-> b, value |-> v, socket |-> socket]
               entry == [binding |-> b, value |-> v]
    <3>1. report \in [binding : Configured, value : Readiness, socket : Ports]
      BY <1>1, <2>2 DEF TransportTypeOK
    <3>2. entry \in Reports /\ socket \in Ports
      BY <1>1, <2>2 DEF Reports, TransportTypeOK
    <3>3. /\ pendingReadiness' = Append(pendingReadiness, report)
          /\ wire' \in {wire, [wire EXCEPT ![socket] = Append(@, entry)]}
          /\ UNCHANGED <<stopper, raced, overtaken, socket, port, opener, reconnect, reachable, attached,
                         accepted, strays, answers, peer, relaySocket, held, life>>
          /\ starter' = "awaiting" /\ unreported' \subseteq Configured
      BY <1>1, <1>6, <2>2 DEF Report, TransportTypeOK
    <3> HIDE DEF report, entry
    <3>4. wire' \in [Ports -> Seq(Reports)]
      <4>1. wire \in [Ports -> Seq(Reports)] /\ Append(wire[socket], entry) \in Seq(Reports)
        BY <1>1, <3>2 DEF TransportTypeOK
      <4> QED
        BY <3>2, <3>3, <4>1
    <3> QED
      BY <1>1, <3>1, <3>3, <3>4 DEF TransportTypeOK
  <2> QED
    BY <2>1, <2>2
<1>7. ASSUME NEW p \in Ports, ReadinessAccepted(p) PROVE TransportTypeOK'
  <2>1. answers[p] \in Seq(Configured) /\ answers[p] # <<>> /\ Head(answers[p]) \in Configured
    BY <1>1, <1>7, AnswerMet DEF TransportTypeOK
  <2>2. Tail(answers[p]) \in Seq(Configured)
    BY <2>1
  <2>3. answers' = [answers EXCEPT ![p] = Tail(@)]
    BY <1>1, <1>7, AnswerMet
  <2>4. answers' \in [Ports -> Seq(Configured)]
    BY <1>1, <2>2, <2>3 DEF TransportTypeOK
  <2>5. UNCHANGED <<life, unreported, stopVars, linkVars, wire, peer, relaySocket, held>>
    BY <1>1, <1>7, AnswerMet
  <2>6. CASE UNCHANGED <<reportVars, starter>>
    BY <1>1, <2>4, <2>5, <2>6 DEF TransportTypeOK
  <2>7. CASE Concludes(p, Head(answers[p]))
    <3>1. pendingReadiness[1].value \in Readiness
      BY <1>1, <2>7, ReadinessTyped DEF Concludes
    <3>2. accepted' \in [Configured -> Readiness \cup {Unknown}]
      BY <1>1, <2>1, <2>7, <3>1 DEF Concludes, TransportTypeOK
    <3>3. strays' \subseteq Configured /\ starter' = "reporting"
      BY <1>1, <2>1, <2>7 DEF Concludes, TransportTypeOK
    <3>4. pendingReadiness' \in Seq([binding : Configured, value : Readiness, socket : Ports])
      <4> DEFINE Pending == [binding : Configured, value : Readiness, socket : Ports]
      <4> HIDE DEF Pending
      <4>1. pendingReadiness' \in Seq(Pending)
        BY <2>7 DEF Concludes
      <4> QED
        BY <4>1 DEF Pending
    <3> QED
      BY <1>1, <2>4, <2>5, <3>2, <3>3, <3>4 DEF TransportTypeOK
  <2> QED
    BY <1>1, <1>7, <2>6, <2>7, AnswerMet
<1>8. ASSUME NEW p \in Ports, PortClosed(p) PROVE TransportTypeOK'
  <2>1. answers' \in [Ports -> Seq(Configured)]
    BY <1>1, <1>8 DEF PortClosed, TransportTypeOK
  <2> QED
    BY <1>1, <1>8, <2>1 DEF PortClosed, RejectReports, ScheduleReconnect, TransportTypeOK
<1>9. ASSUME NEW p \in Ports, RelayReads(p) PROVE TransportTypeOK'
  <2>1. wire[p] \in Seq(Reports) /\ wire[p] # <<>> /\ answers[p] \in Seq(Configured)
    BY <1>1, <1>9 DEF RelayReads, TransportTypeOK
  <2>2. Tail(wire[p]) \in Seq(Reports) /\ Head(wire[p]) \in Reports
    BY <2>1
  <2>3. Head(wire[p]).binding \in Configured /\ Head(wire[p]).value \in Readiness
    BY <2>2 DEF Reports
  <2>4. Append(answers[p], Head(wire[p]).binding) \in Seq(Configured)
    BY <2>1, <2>3
  <2> QED
    BY <1>1, <1>9, <2>2, <2>3, <2>4 DEF RelayReads, TransportTypeOK
<1>10. ASSUME NEW p \in Ports, RelayClosed(p) PROVE TransportTypeOK'
  <2>1. wire' \in [Ports -> Seq(Reports)]
    BY <1>1, <1>10 DEF RelayClosed, TransportTypeOK
  <2> QED
    BY <1>1, <1>10, <2>1 DEF RelayClosed, TransportTypeOK
<1>11. CASE UNCHANGED transportVars
  BY <1>1, <1>11 DEF transportVars, TransportTypeOK
<1> QED
  BY <1>2, <1>3, <1>4, <1>5, <1>6, <1>7, <1>8, <1>9, <1>10, <1>11 DEF Next, Relay

LEMMA PortStep ==
    ASSUME LinkInv, [Next]_transportVars
    PROVE  PortInv'
<1> USE DEF hostVars, stopVars, linkVars, reportVars, relayVars
<1>1. TransportTypeOK /\ PortInv /\ PendingInv /\ NoPort \notin Ports
  BY TransportAssumption DEF LinkInv
<1>2. CASE Start \/ LoadFails \/ Started \/ Stopped
  BY <1>1, <1>2 DEF Start, LoadFails, Started, Stopped, PortInv, OneLiveSocket
<1>3. CASE Stop
  BY <1>1, <1>3 DEF Stop, PortInv, OneLiveSocket, TransportTypeOK
\* A socket that is opened: it was not the current one.
<1>4. ASSUME NEW p \in Ports, NEW who \in {"start", "timer", "user"}, OpenFor(p, who),
             who = "start" => starter = "loading" /\ starter' = "opening",
             who # "start" => UNCHANGED starter, UNCHANGED socket
      PROVE  PortInv'
  <2>1. /\ \A q \in Ports : port'[q] = IF q = p THEN "opening" ELSE port[q]
        /\ \A q \in Ports : opener'[q] = IF q = p THEN who ELSE opener[q]
        /\ port[p] \in {"unused", "closed"}
    BY <1>1, <1>4 DEF OpenFor, Free, TransportTypeOK
  <2>2. socket # p
    BY <1>1, <2>1 DEF PortInv
  <2>3. \A q \in Ports : who = "start" => opener[q] # "start"
    BY <1>1, <1>4 DEF PortInv
  <2>4. \A q \in Ports : opener'[q] # "none" <=> port'[q] = "opening"
    BY <1>1, <1>4, <2>1 DEF PortInv
  <2>5. \A q, r \in Ports : opener'[q] = "start" /\ opener'[r] = "start" => q = r
    BY <1>1, <2>1, <2>3 DEF PortInv
  <2>6. \A q \in Ports : opener'[q] = "start" => starter' = "opening"
    BY <1>1, <1>4, <2>1 DEF PortInv
  <2>7. /\ socket' # NoPort => port'[socket'] \in {"open", "closing"}
        /\ \A q \in Ports : port'[q] = "open" => q = socket'
    BY <1>1, <1>4, <2>1, <2>2 DEF PortInv, OneLiveSocket, TransportTypeOK
  <2> QED
    BY <2>4, <2>5, <2>6, <2>7 DEF PortInv, OneLiveSocket
<1>5. CASE Loaded
  <2>1. CASE \E p \in Ports : OpenFor(p, "start") /\ starter' = "opening"
    BY <1>4, <1>5, <2>1 DEF Loaded
  <2>2. CASE starter' = "over" /\ UNCHANGED <<port, opener>>
    BY <1>1, <1>5, <2>2 DEF Loaded, PortInv, OneLiveSocket
  <2> QED
    BY <1>5, <2>1, <2>2 DEF Loaded
<1>6. CASE TimerFires \/ \E p \in Ports : ConnectRemote(p)
  BY <1>4, <1>6 DEF TimerFires, ConnectRemote
<1>7. ASSUME NEW p \in Ports, Opened(p) PROVE PortInv'
  <2>1. /\ port[p] = "opening" /\ socket' = p
        /\ \A q \in Ports : opener'[q] = IF q = p THEN "none" ELSE opener[q]
        /\ \A q \in Ports : port'[q] = IF q = p THEN "open"
                                       ELSE IF q = socket /\ port[q] = "open" THEN "closing"
                                       ELSE port[q]
        /\ opener[p] = "start" => starter' = "reporting"
        /\ opener[p] # "start" => starter' = starter
    BY <1>1, <1>7 DEF Opened, Adopt, TransportTypeOK
  <2> QED
    BY <1>1, <2>1 DEF PortInv, OneLiveSocket
<1>8. ASSUME NEW p \in Ports, OpenFails(p) PROVE PortInv'
  <2>1. /\ port[p] = "opening" /\ socket' = socket
        /\ \A q \in Ports : opener'[q] = IF q = p THEN "none" ELSE opener[q]
        /\ \A q \in Ports : port'[q] = IF q = p THEN "closed" ELSE port[q]
        /\ opener[p] = "start" => starter' = "over"
        /\ opener[p] # "start" => starter' = starter
    BY <1>1, <1>8 DEF OpenFails, TransportTypeOK
  <2>2. \A q \in Ports : opener'[q] = "start" => starter' = "opening"
    BY <1>1, <2>1 DEF PortInv
  <2>3. socket # NoPort => socket # p /\ port'[socket] \in {"open", "closing"}
    BY <1>1, <2>1 DEF PortInv, TransportTypeOK
  <2> QED
    BY <1>1, <2>1, <2>2, <2>3 DEF PortInv, OneLiveSocket
<1>9. ASSUME NEW p \in Ports, PortBreaks(p) PROVE PortInv'
  BY <1>1, <1>9 DEF PortBreaks, PortInv, OneLiveSocket, TransportTypeOK
<1>10. ASSUME NEW p \in Ports, PortClosed(p) PROVE PortInv'
  <2>1. /\ port[p] = "closing" /\ socket' = IF socket = p THEN NoPort ELSE socket
        /\ UNCHANGED opener
        /\ \A q \in Ports : port'[q] = IF q = p THEN "closed" ELSE port[q]
        /\ starter' = starter \/ starter = "awaiting"
    BY <1>1, <1>10 DEF PortClosed, RejectReports, TransportTypeOK
  <2> QED
    BY <1>1, <2>1 DEF PortInv, OneLiveSocket, TransportTypeOK
<1>11. ASSUME NEW b \in Configured, NEW v \in Readiness, Report(b, v) PROVE PortInv'
  BY <1>1, <1>11 DEF Report, PortInv, OneLiveSocket
<1>12. ASSUME NEW p \in Ports, ReadinessAccepted(p) PROVE PortInv'
  <2>1. UNCHANGED linkVars /\ (starter' = starter \/ starter = "awaiting")
    BY <1>1, <1>12, AnswerMet DEF Concludes
  <2> QED
    BY <1>1, <2>1 DEF PortInv, OneLiveSocket
<1>13. CASE Relay \/ UNCHANGED transportVars
  BY <1>1, <1>13 DEF Relay, RelayReads, RelayClosed, transportVars, PortInv, OneLiveSocket
<1> QED
  BY <1>2, <1>3, <1>5, <1>6, <1>7, <1>8, <1>9, <1>10, <1>11, <1>12, <1>13 DEF Next

LEMMA StopStep ==
    ASSUME LinkInv, [Next]_transportVars
    PROVE  StopInv'
<1> USE DEF hostVars, stopVars, linkVars, reportVars, relayVars
<1>1. TransportTypeOK /\ PortInv /\ PendingInv /\ StopInv
  BY DEF LinkInv
<1>2. CASE Start \/ Loaded \/ LoadFails \/ Started \/ Stop \/ Stopped \/ TimerFires
  <2>1. CASE Start \/ LoadFails \/ Started
    BY <1>1, <2>1 DEF Start, LoadFails, Started, StopInv
  <2>2. CASE Loaded \/ TimerFires
    BY <1>1, <2>2 DEF Loaded, TimerFires, OpenFor, StopInv
  <2>3. CASE Stop
    <3>1. /\ stopper' = "stopping" /\ life' = "stopping" /\ UNCHANGED starter
          /\ raced' <=> starter # "over"
          /\ ~reconnect'
      BY <2>3 DEF Stop
    <3>2. \A p \in Ports : port'[p] \in {"opening", "open"} => p \in overtaken'
      BY <1>1, <2>3, TransportAssumption DEF Stop, PortInv, OneLiveSocket, TransportTypeOK
    <3> QED
      BY <3>1, <3>2 DEF StopInv
  <2>4. CASE Stopped
    BY <1>1, <2>4 DEF Stopped, StopInv
  <2> QED
    BY <1>2, <2>1, <2>2, <2>3, <2>4
<1>3. ASSUME NEW p \in Ports, ConnectRemote(p) \/ PortBreaks(p) PROVE StopInv'
  BY <1>1, <1>3 DEF ConnectRemote, OpenFor, PortBreaks, StopInv, TransportTypeOK
<1>4. ASSUME NEW p \in Ports, Opened(p) PROVE StopInv'
  BY <1>1, <1>4 DEF Opened, Adopt, PortInv, StopInv, TransportTypeOK
<1>5. ASSUME NEW p \in Ports, OpenFails(p) PROVE StopInv'
  BY <1>1, <1>5 DEF OpenFails, ScheduleReconnect, PortInv, StopInv, TransportTypeOK
<1>6. ASSUME NEW b \in Configured, NEW v \in Readiness, Report(b, v) PROVE StopInv'
  BY <1>1, <1>6 DEF Report, StopInv
<1>7. ASSUME NEW p \in Ports, ReadinessAccepted(p) PROVE StopInv'
  <2>1. UNCHANGED <<life, stopVars, linkVars>> /\ (starter' = starter \/ starter = "awaiting")
    BY <1>1, <1>7, AnswerMet DEF Concludes
  <2> QED
    BY <1>1, <2>1 DEF StopInv
<1>8. ASSUME NEW p \in Ports, PortClosed(p) PROVE StopInv'
  BY <1>1, <1>8 DEF PortClosed, RejectReports, ScheduleReconnect, StopInv, TransportTypeOK
<1>9. CASE Relay \/ UNCHANGED transportVars
  BY <1>1, <1>9 DEF Relay, RelayReads, RelayClosed, transportVars, StopInv
<1> QED
  BY <1>2, <1>3, <1>4, <1>5, <1>6, <1>7, <1>8, <1>9 DEF Next

LEMMA PendingStep ==
    ASSUME LinkInv, [Next]_transportVars
    PROVE  PendingInv'
<1> USE DEF hostVars, stopVars, linkVars, reportVars, relayVars
<1>1. TransportTypeOK /\ PortInv /\ PendingInv /\ NoPort \notin Ports
  BY TransportAssumption DEF LinkInv
<1>2. \A i \in DOMAIN pendingReadiness : pendingReadiness[i].socket \in Ports
  BY <1>1, ReadinessTyped
\* The reports stay, and no socket of theirs has its close event.
<1>3. ASSUME UNCHANGED pendingReadiness,
             starter' = starter \/ {starter, starter'} \cap {"awaiting"} = {},
             \A p \in Ports : port[p] \in {"open", "closing"} => port'[p] \in {"open", "closing"}
      PROVE  PendingInv'
  BY <1>1, <1>2, <1>3 DEF PendingInv
<1>4. CASE Start \/ LoadFails \/ Started \/ Stopped
  BY <1>3, <1>4 DEF Start, LoadFails, Started, Stopped
<1>5. CASE Stop
  BY <1>1, <1>3, <1>5 DEF Stop, TransportTypeOK
<1>6. CASE Loaded
  BY <1>1, <1>3, <1>6 DEF Loaded, OpenFor, Free, TransportTypeOK
<1>7. CASE TimerFires \/ \E p \in Ports : ConnectRemote(p)
  BY <1>1, <1>3, <1>7 DEF TimerFires, ConnectRemote, OpenFor, Free, TransportTypeOK
<1>8. ASSUME NEW p \in Ports, Opened(p) PROVE PendingInv'
  <2>1. \A q \in Ports : port[q] \in {"open", "closing"} => port'[q] \in {"open", "closing"}
    BY <1>1, <1>8 DEF Opened, Adopt
  <2>2. opener[p] = "start" => starter = "opening"
    BY <1>1 DEF PortInv
  <2> QED
    BY <1>3, <1>8, <2>1, <2>2 DEF Opened
<1>9. ASSUME NEW p \in Ports, OpenFails(p) PROVE PendingInv'
  <2>1. opener[p] = "start" => starter = "opening"
    BY <1>1 DEF PortInv
  <2> QED
    BY <1>1, <1>3, <1>9, <2>1 DEF OpenFails, TransportTypeOK
<1>10. ASSUME NEW p \in Ports, PortBreaks(p) PROVE PendingInv'
  BY <1>1, <1>3, <1>10 DEF PortBreaks, TransportTypeOK
<1>11. ASSUME NEW b \in Configured, NEW v \in Readiness, Report(b, v) PROVE PendingInv'
  <2>1. starter = "reporting" /\ pendingReadiness = <<>>
    BY <1>1, <1>11 DEF Report, PendingInv
  <2>2. CASE socket = NoPort
    BY <1>3, <1>11, <2>1, <2>2 DEF Report
  <2>3. CASE socket # NoPort
    <3> DEFINE report == [binding |-> b, value |-> v, socket |-> socket]
    <3>1. /\ pendingReadiness' = <<report>> /\ starter' = "awaiting" /\ UNCHANGED port
      BY <1>11, <2>1, <2>3 DEF Report
    <3>2. port[report.socket] \in {"open", "closing"}
      BY <1>1, <2>3 DEF PortInv
    <3> HIDE DEF report
    <3> QED
      BY <3>1, <3>2 DEF PendingInv
  <2> QED
    BY <2>2, <2>3
<1>12. ASSUME NEW p \in Ports, ReadinessAccepted(p) PROVE PendingInv'
  <2>1. CASE UNCHANGED <<reportVars, starter>>
    BY <1>1, <1>3, <1>12, <2>1, AnswerMet
  <2>2. CASE Concludes(p, Head(answers[p]))
    BY <2>2 DEF Concludes, PendingInv
  <2> QED
    BY <1>1, <1>12, <2>1, <2>2, AnswerMet
<1>13. ASSUME NEW p \in Ports, PortClosed(p) PROVE PendingInv'
  BY <1>1, <1>13 DEF PortClosed, RejectReports, PendingInv
<1>14. CASE Relay \/ UNCHANGED transportVars
  BY <1>3, <1>14 DEF Relay, RelayReads, RelayClosed, transportVars
<1> QED
  BY <1>4, <1>5, <1>6, <1>7, <1>8, <1>9, <1>10, <1>11, <1>12, <1>13, <1>14 DEF Next

\* A entry of the wire, and what is left when the first is read.
LEMMA WireTyped ==
    ASSUME TransportTypeOK, NEW p \in Ports
    PROVE  /\ Len(wire[p]) \in Nat
           /\ \A k \in 1..Len(wire[p]) :
                 wire[p][k].binding \in Configured /\ wire[p][k].value \in Readiness
           /\ wire[p] # <<>> =>
                 /\ 1 \in 1..Len(wire[p]) /\ Head(wire[p]) = wire[p][1]
                 /\ Len(Tail(wire[p])) = Len(wire[p]) - 1
                 /\ \A k \in 1..Len(Tail(wire[p])) :
                       k + 1 \in 1..Len(wire[p]) /\ Tail(wire[p])[k] = wire[p][k + 1]
<1>1. wire[p] \in Seq(Reports)
  BY DEF TransportTypeOK
<1>2. \A k \in 1..Len(wire[p]) : wire[p][k] \in Reports
  BY <1>1
<1> QED
  BY <1>1, <1>2 DEF Reports

LEMMA ValueStep ==
    ASSUME LinkInv, [Next]_transportVars
    PROVE  OneValueEach'
<1> USE DEF hostVars, stopVars, linkVars, reportVars, relayVars
<1>1. TransportTypeOK /\ PendingInv /\ NothingUnsaid /\ NoPort \notin Ports
  BY TransportAssumption DEF LinkInv
<1>2. PICK value \in [Configured -> Readiness] : Agrees(value)
  BY DEF LinkInv, OneValueEach
<1>3. CASE UNCHANGED <<wire, held, accepted, pendingReadiness>>
  BY <1>2, <1>3 DEF Agrees, OneValueEach
<1>4. ASSUME NEW p \in Ports, Opened(p) PROVE OneValueEach'
  <2>1. PICK sent \in Seq(Reports) :
           /\ wire' = [wire EXCEPT ![p] = sent]
           /\ \A k \in 1..Len(sent) : /\ accepted[sent[k].binding] # Unknown
                                      /\ sent[k].value = accepted[sent[k].binding]
    BY <1>1, <1>4, Replayed DEF Opened
  <2>2. \A q \in Ports : wire'[q] = IF q = p THEN sent ELSE wire[q]
    BY <1>1, <2>1 DEF TransportTypeOK
  <2>3. \A k \in 1..Len(sent) : sent[k].binding \in Configured
    <3>1. \A k \in 1..Len(sent) : sent[k] \in Reports
      OBVIOUS
    <3> QED
      BY <3>1 DEF Reports
  <2>4. UNCHANGED <<held, accepted, pendingReadiness>>
    BY <1>4 DEF Opened
  <2>5. Agrees(value)'
    BY <1>2, <2>1, <2>2, <2>3, <2>4 DEF Agrees
  <2> QED
    BY <2>5 DEF OneValueEach
<1>5. ASSUME NEW b \in Configured, NEW v \in Readiness, Report(b, v) PROVE OneValueEach'
  <2>1. CASE socket = NoPort
    BY <1>3, <1>5, <2>1 DEF Report
  <2>2. CASE socket # NoPort
    <3> DEFINE report == [binding |-> b, value |-> v, socket |-> socket]
               entry == [binding |-> b, value |-> v]
               next == [value EXCEPT ![b] = v]
    <3>1. /\ pendingReadiness' = Append(pendingReadiness, report)
          /\ wire' \in {wire, [wire EXCEPT ![socket] = Append(@, entry)]}
          /\ UNCHANGED <<held, accepted>> /\ starter = "reporting" /\ b \in unreported
      BY <1>5, <2>2 DEF Report
    <3>2. Unsaid(b) /\ pendingReadiness = <<>> /\ socket \in Ports
      BY <1>1, <2>2, <3>1 DEF Unsaid, PendingInv, TransportTypeOK
    <3>3. /\ accepted[b] = Unknown /\ held[b] = Unknown
          /\ \A p \in Ports : \A k \in 1..Len(wire[p]) : wire[p][k].binding # b
      BY <1>1, <3>2 DEF NothingUnsaid
    <3>4. /\ next \in [Configured -> Readiness] /\ next[b] = v
          /\ \A c \in Configured : c # b => next[c] = value[c]
      OBVIOUS
    <3>5. /\ report.binding = b /\ report.value = v /\ entry.binding = b /\ entry.value = v
      OBVIOUS
    <3> HIDE DEF report, entry, next
    <3>6. \A i \in DOMAIN pendingReadiness' : pendingReadiness'[i] = report
      BY <3>1, <3>2
    <3>7. ASSUME NEW p \in Ports, NEW k \in 1..Len(wire'[p])
          PROVE  wire'[p][k] = entry \/ (k \in 1..Len(wire[p]) /\ wire'[p][k] = wire[p][k])
      <4>1. wire[p] \in Seq(Reports)
        BY <1>1 DEF TransportTypeOK
      <4>2. wire'[p] \in {wire[p], Append(wire[p], entry)}
        BY <1>1, <3>1 DEF TransportTypeOK
      <4> QED
        BY <3>7, <4>1, <4>2, SMTT(30)
    <3>8. \A p \in Ports : \A k \in 1..Len(wire'[p]) :
             wire'[p][k].value = next[wire'[p][k].binding]
      <4> SUFFICES ASSUME NEW p \in Ports, NEW k \in 1..Len(wire'[p])
                   PROVE  wire'[p][k].value = next[wire'[p][k].binding]
        OBVIOUS
      <4>1. CASE wire'[p][k] = entry
        BY <3>4, <3>5, <4>1
      <4>2. CASE k \in 1..Len(wire[p]) /\ wire'[p][k] = wire[p][k]
        <5>1. wire[p][k].binding \in Configured
          BY <1>1, <4>2, WireTyped
        <5> QED
          BY <1>2, <3>3, <3>4, <4>2, <5>1 DEF Agrees
      <4> QED
        BY <3>7, <4>1, <4>2
    <3>9. Agrees(next)'
      BY <1>2, <3>1, <3>3, <3>4, <3>5, <3>6, <3>8 DEF Agrees
    <3> QED
      BY <3>4, <3>9 DEF OneValueEach
  <2> QED
    BY <2>1, <2>2
<1>6. ASSUME NEW p \in Ports, ReadinessAccepted(p) PROVE OneValueEach'
  <2>1. CASE UNCHANGED <<reportVars, starter>>
    BY <1>1, <1>3, <1>6, <2>1, AnswerMet
  <2>2. CASE Concludes(p, Head(answers[p]))
    <3>1. UNCHANGED <<wire, held>> /\ Head(answers[p]) \in Configured
      BY <1>1, <1>6, AnswerMet
    <3>2. pendingReadiness[1].value = value[Head(answers[p])]
      BY <1>2, <2>2 DEF Concludes, Agrees
    <3>3. Agrees(value)'
      BY <1>1, <1>2, <2>2, <3>1, <3>2 DEF Concludes, Agrees, TransportTypeOK
    <3> QED
      BY <3>3 DEF OneValueEach
  <2> QED
    BY <1>1, <1>6, <2>1, <2>2, AnswerMet
<1>7. ASSUME NEW p \in Ports, PortClosed(p) PROVE OneValueEach'
  BY <1>2, <1>7 DEF PortClosed, RejectReports, Agrees, OneValueEach
<1>8. ASSUME NEW p \in Ports, RelayReads(p) PROVE OneValueEach'
  <2>1. wire[p] # <<>> /\ UNCHANGED <<accepted, pendingReadiness>>
    BY <1>8 DEF RelayReads
  <2>2. \A q \in Ports : wire'[q] = IF q = p THEN Tail(wire[p]) ELSE wire[q]
    BY <1>1, <1>8 DEF RelayReads, TransportTypeOK
  <2>3. held' = [held EXCEPT ![wire[p][1].binding] = wire[p][1].value]
    BY <1>1, <1>8, <2>1, WireTyped DEF RelayReads
  <2>4. wire[p][1].value = value[wire[p][1].binding]
    BY <1>1, <1>2, <2>1, WireTyped DEF Agrees
  <2>5. \A k \in 1..Len(Tail(wire[p])) : Tail(wire[p])[k].value = value[Tail(wire[p])[k].binding]
    BY <1>1, <1>2, <2>1, WireTyped DEF Agrees
  <2>6. \A b \in Configured : held'[b] \in {Unknown, value[b]}
    BY <1>1, <1>2, <2>3, <2>4 DEF Agrees, TransportTypeOK
  <2>7. \A q \in Ports : \A k \in 1..Len(wire'[q]) :
           wire'[q][k].value = value[wire'[q][k].binding]
    <3> SUFFICES ASSUME NEW q \in Ports
                 PROVE  \A k \in 1..Len(wire'[q]) :
                           wire'[q][k].value = value[wire'[q][k].binding]
      OBVIOUS
    <3>1. CASE q = p
      BY <2>2, <2>5, <3>1
    <3>2. CASE q # p
      BY <1>2, <2>2, <3>2 DEF Agrees
    <3> QED
      BY <3>1, <3>2
  <2>8. Agrees(value)'
    BY <1>2, <2>1, <2>6, <2>7 DEF Agrees
  <2> QED
    BY <2>8 DEF OneValueEach
<1>9. ASSUME NEW p \in Ports, RelayClosed(p) PROVE OneValueEach'
  <2>1. \A q \in Ports : wire'[q] = IF q = p THEN <<>> ELSE wire[q]
    BY <1>1, <1>9 DEF RelayClosed, TransportTypeOK
  <2>2. \A b \in Configured : held'[b] \in {Unknown, held[b]}
    BY <1>9 DEF RelayClosed
  <2>3. UNCHANGED <<accepted, pendingReadiness>>
    BY <1>9 DEF RelayClosed
  <2>4. Agrees(value)'
    BY <1>2, <2>1, <2>2, <2>3 DEF Agrees
  <2> QED
    BY <2>4 DEF OneValueEach
<1>10. CASE Start \/ Loaded \/ LoadFails \/ Started \/ Stop \/ Stopped \/ TimerFires
            \/ UNCHANGED transportVars
  BY <1>3, <1>10 DEF Start, Loaded, LoadFails, Started, Stop, Stopped, TimerFires, transportVars
<1>11. ASSUME NEW p \in Ports, ConnectRemote(p) \/ OpenFails(p) \/ PortBreaks(p)
       PROVE  OneValueEach'
  BY <1>3, <1>11 DEF ConnectRemote, OpenFails, PortBreaks
<1> QED
  BY <1>4, <1>5, <1>6, <1>7, <1>8, <1>9, <1>10, <1>11 DEF Next, Relay

LEMMA UnsaidStep ==
    ASSUME LinkInv, [Next]_transportVars
    PROVE  NothingUnsaid'
<1> USE DEF hostVars, stopVars, linkVars, reportVars, relayVars
<1>1. TransportTypeOK /\ PendingInv /\ NothingUnsaid /\ PortInv /\ NoPort \notin Ports
  BY TransportAssumption DEF LinkInv
<1>2. ASSUME \A b \in Configured : Unsaid(b)' => Unsaid(b),
             UNCHANGED <<wire, held, accepted, pendingReadiness>>
      PROVE  NothingUnsaid'
  BY <1>1, <1>2 DEF NothingUnsaid
<1>3. CASE Start \/ Loaded \/ LoadFails \/ Started \/ Stop \/ Stopped \/ TimerFires
  BY <1>2, <1>3 DEF Start, Loaded, LoadFails, Started, Stop, Stopped, TimerFires, Unsaid
<1>4. ASSUME NEW p \in Ports, ConnectRemote(p) \/ OpenFails(p) \/ PortBreaks(p)
      PROVE  NothingUnsaid'
  BY <1>2, <1>4 DEF ConnectRemote, OpenFails, PortBreaks, Unsaid
<1>5. ASSUME NEW p \in Ports, Opened(p) PROVE NothingUnsaid'
  <2>1. PICK sent \in Seq(Reports) :
           /\ wire' = [wire EXCEPT ![p] = sent]
           /\ \A k \in 1..Len(sent) : accepted[sent[k].binding] # Unknown
    BY <1>1, <1>5, Replayed DEF Opened
  <2>2. \A q \in Ports : wire'[q] = IF q = p THEN sent ELSE wire[q]
    BY <1>1, <2>1 DEF TransportTypeOK
  <2>3. \A b \in Configured : Unsaid(b)' => Unsaid(b)
    BY <1>1, <1>5 DEF Opened, PortInv, Unsaid
  <2>4. UNCHANGED <<held, accepted, pendingReadiness>>
    BY <1>5 DEF Opened
  <2> QED
    BY <1>1, <2>1, <2>2, <2>3, <2>4 DEF NothingUnsaid
<1>6. ASSUME NEW b \in Configured, NEW v \in Readiness, Report(b, v) PROVE NothingUnsaid'
  <2>1. CASE socket = NoPort
    BY <1>2, <1>6, <2>1 DEF Report, Unsaid
  <2>2. CASE socket # NoPort
    <3> DEFINE report == [binding |-> b, value |-> v, socket |-> socket]
               entry == [binding |-> b, value |-> v]
    <3>1. /\ pendingReadiness' = Append(pendingReadiness, report)
          /\ wire' \in {wire, [wire EXCEPT ![socket] = Append(@, entry)]}
          /\ UNCHANGED <<held, accepted>> /\ starter = "reporting" /\ b \in unreported
          /\ starter' = "awaiting" /\ unreported' = unreported \ {b}
      BY <1>6, <2>2 DEF Report
    <3>2. pendingReadiness = <<>> /\ socket \in Ports
      BY <1>1, <2>2, <3>1 DEF PendingInv, TransportTypeOK
    <3>3. \A c \in Configured : Unsaid(c)' => Unsaid(c) /\ c # b
      BY <3>1 DEF Unsaid
    <3>4. report.binding = b /\ entry.binding = b
      OBVIOUS
    <3> HIDE DEF report, entry
    <3>5. \A i \in DOMAIN pendingReadiness' : pendingReadiness'[i] = report
      BY <3>1, <3>2
    <3>6. ASSUME NEW p \in Ports, NEW k \in 1..Len(wire'[p])
          PROVE  wire'[p][k] = entry \/ (k \in 1..Len(wire[p]) /\ wire'[p][k] = wire[p][k])
      <4>1. wire[p] \in Seq(Reports)
        BY <1>1 DEF TransportTypeOK
      <4>2. CASE wire'[p] = wire[p]
        BY <3>6, <4>2
      <4>3. CASE wire'[p] = Append(wire[p], entry)
        BY <3>6, <4>1, <4>3
      <4> QED
        BY <1>1, <3>1, <4>2, <4>3 DEF TransportTypeOK
    <3>7. ASSUME NEW c \in Configured, Unsaid(c)'
          PROVE  \A p \in Ports : \A k \in 1..Len(wire'[p]) : wire'[p][k].binding # c
      BY <1>1, <3>3, <3>4, <3>6, <3>7 DEF NothingUnsaid
    <3> QED
      BY <1>1, <3>1, <3>3, <3>4, <3>5, <3>7 DEF NothingUnsaid
  <2> QED
    BY <2>1, <2>2
<1>7. ASSUME NEW p \in Ports, ReadinessAccepted(p) PROVE NothingUnsaid'
  <2>1. UNCHANGED <<unreported, wire, held>> /\ Head(answers[p]) \in Configured
    BY <1>1, <1>7, AnswerMet
  <2>2. CASE UNCHANGED <<reportVars, starter>>
    BY <1>2, <2>1, <2>2 DEF Unsaid
  <2>3. CASE Concludes(p, Head(answers[p]))
    <3>1. \A b \in Configured : Unsaid(b)' => Unsaid(b)
      BY <2>1, <2>3 DEF Concludes, Unsaid
    <3>2. ~Unsaid(Head(answers[p]))
      BY <1>1, <2>1, <2>3 DEF Concludes, NothingUnsaid
    <3> QED
      BY <1>1, <2>1, <2>3, <3>1, <3>2 DEF Concludes, NothingUnsaid, TransportTypeOK
  <2> QED
    BY <1>1, <1>7, <2>2, <2>3, AnswerMet
<1>8. ASSUME NEW p \in Ports, PortClosed(p) PROVE NothingUnsaid'
  <2>1. pendingReadiness' = <<>> /\ UNCHANGED <<wire, held, accepted>>
    BY <1>8 DEF PortClosed, RejectReports
  <2>2. \A b \in Configured : Unsaid(b)' => Unsaid(b)
    BY <1>8 DEF PortClosed, RejectReports, Unsaid
  <2> QED
    BY <1>1, <2>1, <2>2 DEF NothingUnsaid
<1>9. ASSUME NEW p \in Ports, RelayReads(p) PROVE NothingUnsaid'
  <2>1. wire[p] # <<>> /\ UNCHANGED <<accepted, pendingReadiness, starter, unreported>>
    BY <1>9 DEF RelayReads
  <2>2. \A q \in Ports : wire'[q] = IF q = p THEN Tail(wire[p]) ELSE wire[q]
    BY <1>1, <1>9 DEF RelayReads, TransportTypeOK
  <2>3. held' = [held EXCEPT ![wire[p][1].binding] = wire[p][1].value]
    BY <1>1, <1>9, <2>1, WireTyped DEF RelayReads
  <2>4. ASSUME NEW b \in Configured, Unsaid(b)'
        PROVE  /\ accepted[b] = Unknown /\ held'[b] = Unknown
               /\ \A q \in Ports : \A k \in 1..Len(wire'[q]) : wire'[q][k].binding # b
               /\ \A i \in DOMAIN pendingReadiness : pendingReadiness[i].binding # b
    <3>1. Unsaid(b)
      BY <2>1, <2>4 DEF Unsaid
    <3>2. wire[p][1].binding # b
      BY <1>1, <2>1, <3>1, WireTyped DEF NothingUnsaid
    <3>3. held'[b] = Unknown
      BY <1>1, <2>3, <3>1, <3>2 DEF NothingUnsaid, TransportTypeOK
    <3>4. \A k \in 1..Len(Tail(wire[p])) : Tail(wire[p])[k].binding # b
      BY <1>1, <2>1, <3>1, WireTyped DEF NothingUnsaid
    <3> QED
      BY <1>1, <2>2, <3>1, <3>3, <3>4 DEF NothingUnsaid
  <2> QED
    BY <2>1, <2>4 DEF NothingUnsaid
<1>10. ASSUME NEW p \in Ports, RelayClosed(p) PROVE NothingUnsaid'
  <2>1. \A q \in Ports : wire'[q] = IF q = p THEN <<>> ELSE wire[q]
    BY <1>1, <1>10 DEF RelayClosed, TransportTypeOK
  <2>2. \A b \in Configured : held'[b] \in {Unknown, held[b]}
    BY <1>10 DEF RelayClosed
  <2>3. UNCHANGED <<accepted, pendingReadiness, starter, unreported>>
    BY <1>10 DEF RelayClosed
  <2> QED
    BY <1>1, <2>1, <2>2, <2>3 DEF NothingUnsaid, Unsaid
<1>11. CASE UNCHANGED transportVars
  BY <1>2, <1>11 DEF transportVars, Unsaid
<1> QED
  BY <1>3, <1>4, <1>5, <1>6, <1>7, <1>8, <1>9, <1>10, <1>11 DEF Next, Relay

LEMMA ReplayStep ==
    ASSUME LinkInv, [Next]_transportVars
    PROVE  ReplayInv'
<1> USE DEF hostVars, stopVars, linkVars, reportVars, relayVars
<1>1. TransportTypeOK /\ PendingInv /\ PortInv /\ ReplayInv /\ NoPort \notin Ports
  BY TransportAssumption DEF LinkInv
<1>2. ASSUME UNCHANGED <<socket, relaySocket, peer, answers, held, strays, accepted, wire>>,
             socket # NoPort /\ port'[socket] = "open" => port[socket] = "open"
      PROVE  ReplayInv'
  BY <1>1, <1>2 DEF ReplayInv, OnTheWay
<1>3. ASSUME NEW p \in Ports, NEW who, OpenFor(p, who),
             UNCHANGED <<socket, relaySocket, peer, answers, held, strays, accepted, wire>>
      PROVE  ReplayInv'
  <2>1. \A q \in Ports : port'[q] = IF q = p THEN "opening" ELSE port[q]
    BY <1>1, <1>3 DEF OpenFor, TransportTypeOK
  <2> QED
    BY <1>1, <1>2, <1>3, <2>1 DEF TransportTypeOK
<1>4. CASE Start \/ LoadFails \/ Started \/ Stopped \/ UNCHANGED transportVars
  BY <1>2, <1>4 DEF Start, LoadFails, Started, Stopped, transportVars
<1>5. CASE Loaded
  BY <1>2, <1>3, <1>5 DEF Loaded
<1>6. CASE TimerFires \/ \E p \in Ports : ConnectRemote(p)
  BY <1>3, <1>6 DEF TimerFires, ConnectRemote
<1>7. CASE Stop
  BY <1>7 DEF Stop, ReplayInv
<1>8. ASSUME NEW p \in Ports, OpenFails(p) \/ PortBreaks(p) PROVE ReplayInv'
  <2>1. \A q \in Ports : port'[q] = port[q] \/ port'[q] # "open"
    BY <1>1, <1>8 DEF OpenFails, PortBreaks, TransportTypeOK
  <2> QED
    BY <1>1, <1>2, <1>8, <2>1 DEF OpenFails, PortBreaks, TransportTypeOK
<1>9. ASSUME NEW p \in Ports, Opened(p) PROVE ReplayInv'
  <2>1. PICK sent \in Seq(Reports) :
           /\ wire' = [wire EXCEPT ![p] = sent]
           /\ \A b \in Configured : accepted[b] # Unknown =>
                 \E k \in 1..Len(sent) : sent[k].binding = b
    BY <1>1, <1>9, Replayed DEF Opened
  <2>2. /\ wire'[p] = sent /\ socket' = p /\ relaySocket' = p
        /\ peer'[p] = "open" /\ answers'[p] = <<>> /\ UNCHANGED accepted
    BY <1>1, <1>9, <2>1 DEF Opened, Adopt, TransportTypeOK
  <2> QED
    BY <2>1, <2>2 DEF ReplayInv, OnTheWay
<1>10. ASSUME NEW b \in Configured, NEW v \in Readiness, Report(b, v) PROVE ReplayInv'
  <2>1. UNCHANGED <<socket, port, relaySocket, peer, answers, held, strays, accepted>>
    BY <1>10 DEF Report
  <2>2. ASSUME socket # NoPort, NEW c \in Configured, OnTheWay(c) PROVE OnTheWay(c)'
    <3> DEFINE entry == [binding |-> b, value |-> v]
    <3>1. wire' \in {wire, [wire EXCEPT ![socket] = Append(@, entry)]}
      BY <1>10, <2>2 DEF Report
    <3> HIDE DEF entry
    <3>2. wire[socket] \in Seq(Reports)
      BY <1>1, <2>2 DEF TransportTypeOK
    <3>3. wire'[socket] \in {wire[socket], Append(wire[socket], entry)}
      BY <1>1, <2>2, <3>1 DEF TransportTypeOK
    <3>4. \A k \in 1..Len(wire[socket]) :
             k \in 1..Len(wire'[socket]) /\ wire'[socket][k] = wire[socket][k]
      BY <3>2, <3>3
    <3> QED
      BY <2>1, <2>2, <3>4 DEF OnTheWay
  <2> QED
    BY <1>1, <2>1, <2>2 DEF ReplayInv
<1>11. ASSUME NEW p \in Ports, ReadinessAccepted(p) PROVE ReplayInv'
  <2> DEFINE b == Head(answers[p])
  <2>1. /\ UNCHANGED <<socket, port, relaySocket, peer, held, wire>>
        /\ answers[p] # <<>> /\ answers[p] \in Seq(Configured) /\ b \in Configured
        /\ \A q \in Ports : answers'[q] = IF q = p THEN Tail(answers[p]) ELSE answers[q]
    <3>1. /\ b \in Configured /\ answers[p] # <<>>
          /\ answers' = [answers EXCEPT ![p] = Tail(@)]
          /\ UNCHANGED <<linkVars, wire, peer, relaySocket, held>>
      BY <1>1, <1>11, AnswerMet
    <3> HIDE DEF b
    <3>2. answers \in [Ports -> Seq(Configured)]
      BY <1>1 DEF TransportTypeOK
    <3> QED
      BY <3>1, <3>2
  <2>2. /\ 1 \in 1..Len(answers[p]) /\ b = answers[p][1]
        /\ \A k \in 1..Len(Tail(answers[p])) :
              k + 1 \in 1..Len(answers[p]) /\ Tail(answers[p])[k] = answers[p][k + 1]
    BY <2>1
  <2>3. \/ UNCHANGED <<accepted, strays>>
        \/ /\ \A c \in Configured : c # b => accepted'[c] = accepted[c]
           /\ strays' = IF p = socket THEN strays ELSE strays \cup {b}
    BY <1>1, <1>11, AnswerMet DEF Concludes, TransportTypeOK
  <2> HIDE DEF b
  <2> SUFFICES ASSUME socket # NoPort, port[socket] = "open"
               PROVE  /\ \A k \in 1..Len(answers'[socket]) : held[answers'[socket][k]] # Unknown
                      /\ \A c \in Configured \ strays' :
                            accepted'[c] # Unknown => held[c] # Unknown \/ OnTheWay(c)
    BY <1>1, <2>1 DEF ReplayInv, OnTheWay
  <2>4. /\ \A k \in 1..Len(answers[socket]) : held[answers[socket][k]] # Unknown
        /\ \A c \in Configured \ strays :
              accepted[c] # Unknown => held[c] # Unknown \/ OnTheWay(c)
        /\ socket \in Ports
    BY <1>1 DEF ReplayInv, TransportTypeOK
  <2>5. ASSUME NEW k \in 1..Len(answers'[socket]) PROVE held[answers'[socket][k]] # Unknown
    <3>1. CASE p = socket
      <4>1. answers'[socket] = Tail(answers[p])
        BY <2>1, <2>4, <3>1
      <4>2. k \in 1..Len(Tail(answers[p]))
        BY <2>5, <4>1
      <4>3. answers'[socket][k] = answers[socket][k + 1] /\ k + 1 \in 1..Len(answers[socket])
        BY <2>2, <3>1, <4>1, <4>2
      <4> QED
        BY <2>4, <4>3
    <3>2. CASE p # socket
      <4>1. answers'[socket] = answers[socket]
        BY <2>1, <2>4, <3>2
      <4> QED
        BY <2>4, <2>5, <4>1
    <3> QED
      BY <3>1, <3>2
  <2>6. p = socket => held[b] # Unknown
    BY <2>2, <2>4
  <2> QED
    BY <2>3, <2>4, <2>5, <2>6
<1>12. ASSUME NEW p \in Ports, PortClosed(p) PROVE ReplayInv'
  <2>1. CASE socket = p
    BY <1>12, <2>1 DEF PortClosed, ReplayInv
  <2>2. CASE socket # p
    <3>1. /\ UNCHANGED <<socket, relaySocket, peer, held, strays, accepted, wire>>
          /\ \A q \in Ports : q # p => answers'[q] = answers[q] /\ port'[q] = port[q]
      BY <1>1, <1>12, <2>2 DEF PortClosed, TransportTypeOK
    <3> QED
      BY <1>1, <2>2, <3>1 DEF ReplayInv, OnTheWay, TransportTypeOK
  <2> QED
    BY <2>1, <2>2
<1>13. ASSUME NEW p \in Ports, RelayReads(p) PROVE ReplayInv'
  <2> DEFINE b == wire[p][1].binding
  <2>1. /\ wire[p] # <<>> /\ UNCHANGED <<socket, port, relaySocket, peer, strays, accepted>>
        /\ \A q \in Ports : wire'[q] = IF q = p THEN Tail(wire[p]) ELSE wire[q]
    BY <1>1, <1>13 DEF RelayReads, TransportTypeOK
  <2>2. b \in Configured /\ wire[p][1].value # Unknown
    BY <1>1, <2>1, WireTyped DEF Readiness, Unknown
  <2>3. \A c \in Configured : held'[c] = IF c = b THEN wire[p][1].value ELSE held[c]
    BY <1>1, <1>13, <2>1, WireTyped DEF RelayReads, TransportTypeOK
  <2>4. \A q \in Ports : answers'[q] = answers[q] \/ (q = p /\ answers'[q] = Append(answers[q], b))
    BY <1>1, <1>13, <2>1, WireTyped DEF RelayReads, TransportTypeOK
  <2> HIDE DEF b
  <2>5. \A c \in Configured : held[c] # Unknown \/ c = b => held'[c] # Unknown
    BY <2>2, <2>3
  <2> SUFFICES ASSUME socket # NoPort, port[socket] = "open"
               PROVE  /\ \A k \in 1..Len(answers'[socket]) : held'[answers'[socket][k]] # Unknown
                      /\ \A c \in Configured \ strays :
                            accepted[c] # Unknown => held'[c] # Unknown \/ OnTheWay(c)'
    BY <1>1, <2>1 DEF ReplayInv
  <2>6. /\ \A k \in 1..Len(answers[socket]) : held[answers[socket][k]] # Unknown
        /\ \A c \in Configured \ strays :
              accepted[c] # Unknown => held[c] # Unknown \/ OnTheWay(c)
        /\ socket \in Ports
    BY <1>1 DEF ReplayInv, TransportTypeOK
  <2>7. ASSUME NEW k \in 1..Len(answers'[socket]) PROVE held'[answers'[socket][k]] # Unknown
    <3>1. answers[socket] \in Seq(Configured)
      BY <1>1, <2>6 DEF TransportTypeOK
    <3>2. \/ k \in 1..Len(answers[socket]) /\ answers'[socket][k] = answers[socket][k]
          \/ answers'[socket][k] = b
      BY <2>4, <2>6, <2>7, <3>1
    <3>3. k \in 1..Len(answers[socket]) => answers[socket][k] \in Configured
      BY <3>1
    <3> QED
      BY <2>2, <2>5, <2>6, <3>2, <3>3
  <2>8. ASSUME NEW c \in Configured, OnTheWay(c), c # b PROVE OnTheWay(c)'
    <3>1. PICK k \in 1..Len(wire[socket]) : wire[socket][k].binding = c
      BY <2>8 DEF OnTheWay
    <3>2. CASE socket # p
      BY <2>1, <2>6, <3>1, <3>2 DEF OnTheWay
    <3>3. CASE socket = p
      <4>1. k # 1
        BY <2>8, <3>1, <3>3 DEF b
      <4>2. /\ k - 1 \in 1..Len(Tail(wire[p])) /\ (k - 1) + 1 = k
            /\ Tail(wire[p])[k - 1] = wire[p][(k - 1) + 1]
        BY <1>1, <2>1, <3>1, <3>3, <4>1, WireTyped
      <4> QED
        BY <2>1, <3>1, <3>3, <4>2 DEF OnTheWay
    <3> QED
      BY <3>2, <3>3
  <2> QED
    BY <2>5, <2>6, <2>7, <2>8
<1>14. ASSUME NEW p \in Ports, RelayClosed(p) PROVE ReplayInv'
  <2> SUFFICES ASSUME socket # NoPort, port[socket] = "open" PROVE ReplayInv'
    BY <1>14 DEF RelayClosed, ReplayInv
  <2>1. socket # p /\ relaySocket = socket /\ socket \in Ports
    BY <1>1, <1>14 DEF RelayClosed, ReplayInv, TransportTypeOK
  <2>2. /\ UNCHANGED <<socket, port, relaySocket, held, answers, strays, accepted>>
        /\ wire'[socket] = wire[socket] /\ peer'[socket] = peer[socket]
    BY <1>1, <1>14, <2>1 DEF RelayClosed, TransportTypeOK
  <2> QED
    BY <1>1, <2>2 DEF ReplayInv, OnTheWay
<1> QED
  BY <1>4, <1>5, <1>6, <1>7, <1>8, <1>9, <1>10, <1>11, <1>12, <1>13, <1>14 DEF Next, Relay

-----------------------------------------------------------------------------
(***************************************************************************)
(* The theorems.                                                           *)
(***************************************************************************)

LEMMA InitLink == ASSUME Init PROVE LinkInv
<1>1. TransportTypeOK
  <2>1. wire \in [Ports -> Seq(Reports)]
    <3>1. <<>> \in Seq(Reports)
      OBVIOUS
    <3> QED
      BY <3>1 DEF Init
  <2>2. answers \in [Ports -> Seq(Configured)]
    BY DEF Init
  <2>3. pendingReadiness \in Seq([binding : Configured, value : Readiness, socket : Ports])
    <3> DEFINE Pending == [binding : Configured, value : Readiness, socket : Ports]
    <3> HIDE DEF Pending
    <3>1. pendingReadiness \in Seq(Pending)
      BY DEF Init
    <3> QED
      BY <3>1 DEF Pending
  <2> QED
    BY <2>1, <2>2, <2>3 DEF Init, TransportTypeOK, Unknown
<1>2. PortInv /\ StopInv /\ PendingInv /\ NothingUnsaid /\ ReplayInv
  BY DEF Init, PortInv, OneLiveSocket, StopInv, PendingInv, NothingUnsaid, ReplayInv
<1>3. OneValueEach
  <2>1. [b \in Configured |-> "ready"] \in [Configured -> Readiness]
    BY DEF Readiness
  <2>2. Agrees([b \in Configured |-> "ready"])
    BY DEF Init, Agrees
  <2> QED
    BY <2>1, <2>2 DEF OneValueEach
<1> QED
  BY <1>1, <1>2, <1>3 DEF LinkInv

\* The inductive invariant holds of every reachable state of the Host connection.
THEOREM LinkInvariance == Spec => []LinkInv
<1>1. Init => LinkInv
  BY InitLink
<1>2. LinkInv /\ [Next]_transportVars => LinkInv'
  BY TypeStep, PortStep, StopStep, PendingStep, ValueStep, UnsaidStep, ReplayStep DEF LinkInv
<1> QED
  BY <1>1, <1>2, PTL DEF Spec

\* The Host is heard on one connection, a stop of a started Host leaves no reconnect behind
\* and no socket but one whose open it overtook or a user asks for later, no readiness
\* report is left waiting on a socket that is gone, and what was accepted is held by the
\* Relay when nothing is on its way (DesktopHostRuntime's #attachSocket, stop,
\* reportReadiness, #replayReadiness and close handler).
THEOREM HostLinkSafe == Spec => []HostLinkAccounted
<1>1. LinkInv => HostLinkAccounted
  <2> SUFFICES ASSUME LinkInv PROVE HostLinkAccounted
    OBVIOUS
  <2>1. TransportTypeOK /\ OneLiveSocket /\ NoPort \notin Ports
    BY TransportAssumption DEF LinkInv, PortInv
  <2>2. StopIsKept
    BY DEF LinkInv, StopInv, StopIsKept
  <2>3. NoReportForgotten
    BY DEF LinkInv, PendingInv, NoReportForgotten
  <2>4. AcceptedIsHeld
    <3> SUFFICES ASSUME socket # NoPort, port[socket] = "open",
                        \A p \in Ports : wire[p] = <<>>,
                        NEW b \in Configured \ strays, accepted[b] # Unknown
                 PROVE  held[b] = accepted[b]
      BY DEF AcceptedIsHeld
    <3>1. ~OnTheWay(b)
      BY <2>1 DEF OnTheWay, TransportTypeOK
    <3>2. held[b] # Unknown
      BY <3>1 DEF LinkInv, ReplayInv
    <3>3. PICK value \in [Configured -> Readiness] : Agrees(value)
      BY DEF LinkInv, OneValueEach
    <3> QED
      BY <3>2, <3>3 DEF Agrees
  <2> QED
    BY <2>1, <2>2, <2>3, <2>4 DEF HostLinkAccounted
<1> QED
  BY <1>1, LinkInvariance, PTL

-----------------------------------------------------------------------------
(***************************************************************************)
(* The Codex provider.                                                     *)
(***************************************************************************)

(***************************************************************************)
(* The inductive invariant.                                                *)
(***************************************************************************)

Up(p) == process[p] \in {"running", "killed"}

\* An open transport reads a process that has not exited, and the record names one that
\* was not killed.
ChannelInv ==
    /\ \A t \in Calls : transport[t] = "open" => on[t] \in Processes /\ Up(on[t])
    /\ \A t \in Calls : transport[t] = "open" => malformed[t] <= MalformedLimit
    /\ \A t \in Calls : transport[t] = "none" => malformed[t] = 0
    /\ record # None => process[record] = "running"

\* Where an invocation stands says whose transport it uses; the transport of another one
\* is used once that one's handshake is over.
Early == {"idle", "starting", "initializing", "initialized"}
Placed == {"opened", "sharing", "requesting", "answered", "running", "done"}

PlaceOf(c) ==
    /\ call[c] \in {"idle", "starting"} => via[c] = None
    /\ call[c] \in {"initializing", "initialized"} => via[c] = c
    /\ call[c] \in Placed => via[c] # None
    /\ via[c] = None => transport[c] = "none"
    /\ via[c] # None => transport[via[c]] # "none"
    /\ via[c] # None /\ via[c] # c => call[via[c]] \notin Early
    /\ call[c] \in {"answered", "running"} => c \in Turns
    /\ call[c] = "sharing" => c \in Ensures

PlaceInv ==
    /\ \A c \in Calls : PlaceOf(c)
    /\ session # None => transport[session] # "none" /\ call[session] \notin Early

\* A request in a transport's map is that of the invocation which waits for it.
Fits(m, t) ==
    /\ transport[t] = "open" /\ via[m.call] = t /\ m.id < nextId[t]
    /\ m.kind = "initialize" => call[m.call] = "initializing"
    /\ m.kind # "initialize" => call[m.call] = "requesting"
    /\ m.kind = "turn/start" => m.call \in Turns
    /\ m.kind \in {"thread/start", "thread/resume"} => m.call \in Ensures
    /\ m.kind = "thread/start" => threads[t] = "creating"

\* An invocation has one request, a number is used once, a thread is created once.
Alone(m, n) ==
    \/ m = n
    \/ /\ m.call # n.call /\ m.id # n.id
       /\ ~(m.kind = "thread/start" /\ n.kind = "thread/start")

RequestInv ==
    /\ \A t \in Calls : \A m \in pending[t] : Fits(m, t)
    /\ \A t \in Calls : \A m, n \in pending[t] : Alone(m, n)
    /\ \A c \in Calls : call[c] \in {"initializing", "requesting"} =>
          \E m \in pending[via[c]] : m.call = c
    /\ \A c \in Calls : call[c] = "sharing" => threads[via[c]] = "creating"
    /\ \A t \in Calls : threads[t] = "creating" => \E m \in pending[t] : m.kind = "thread/start"
    /\ \A p \in Processes : \A q \in asked[p] : q.kind = "turn/start" => q.call \in Turns

\* A stream that ended is over; one that runs follows a turn the app-server started; and
\* an end that waits in a buffer is that of a turn which ended.
TurnOf(c) ==
    /\ ended[c] # "none" => call[c] = "done" /\ follows[c] # None
    /\ idle[c] # "off" => call[c] = "running"
    /\ call[c] \in {"answered", "running"} => follows[c] # None
    /\ follows[c] # None => native[follows[c]] # "none"

BufferedEnds(c) ==
    \A i \in 1..Len(buffer[c]) :
        OutcomeOf(buffer[c][i][1]) # "none" => native[buffer[c][i][2]] = "ended"

TurnInv == \A c \in Turns : TurnOf(c) /\ BufferedEnds(c)

\* While no two sessions were opened at once there is one process and one open transport,
\* that of the session or of the invocation which opens one.
SoleInv ==
    ~overlapped =>
        /\ \A c, d \in Opening : c = d
        /\ Opening # {} => session = None
        /\ \A p, q \in Processes : Up(p) /\ Up(q) => p = q
        /\ \A p \in Processes : Up(p) => record = p \/ disposed
        /\ \A p \in Processes : Up(p) => \A c \in Calls : call[c] # "starting"
        /\ \A t, u \in Calls : transport[t] = "open" /\ transport[u] = "open" => t = u
        /\ \A t \in Calls : transport[t] = "open" => session = t \/ t \in Opening \/ disposed

ProviderInv ==
    /\ CodexTypeOK
    /\ ChannelInv
    /\ PlaceInv
    /\ RequestInv
    /\ TurnInv
    /\ SoleInv
    /\ HonestOutcome
    /\ SessionIsOpen
    /\ StalledIsInterrupted

-----------------------------------------------------------------------------
(***************************************************************************)
(* What settling requests does.                                            *)
(***************************************************************************)

\* What the five actions that use Settle have in common: whose requests are settled,
\* which transports are drained, and what is left as it is.
SettledRest(rej, res) ==
    /\ active' \subseteq active
    /\ follows' \in [Turns -> Turns \cup {None}]
    /\ \A c \in Turns :
          IF \E m \in res : m.call = c /\ m.kind = "turn/start"
          THEN follows'[c] # None /\ native[follows'[c]] # "none"
          ELSE follows'[c] = follows[c]
    /\ asked' \in [Processes -> SUBSET Requests]
    /\ \A p \in Processes : asked'[p] \subseteq asked[p]
    /\ native' \in [Turns -> {"none", "running", "ended", "gone"}]
    /\ \A n \in Turns : native'[n] # native[n] => native[n] = "running" /\ native'[n] = "gone"

SettledProcesses(drained) ==
    /\ process' \in [Processes -> {"unused", "running", "killed", "exited"}]
    /\ record' \in Processes \cup {None} /\ (record' # None => process'[record'] = "running")
    /\ \A p \in Processes : Up(p)' => Up(p) /\ (record' = record \/ overlapped)
    /\ malformed' \in [Calls -> 0..(MalformedLimit + 1)]
    /\ \A t \in Calls : transport[t] = "none" => malformed'[t] = 0
    /\ \A t \in Calls \ drained : transport[t] = "open" =>
          on[t] \in Processes /\ Up(on[t])' /\ malformed'[t] <= MalformedLimit

\* A protocol error or an exit: the session is cleared, the registered turns that run are
\* told, and while sessions are opened one at a time no transport stays open.
Clears(rej, res, drained, gone) ==
    \E lost \in BOOLEAN :
        /\ Settle(rej, res, drained, lost) /\ gone = Lost(lost)
        /\ \A t \in drained : lost \/ t \in deaf'
        /\ lost /\ ~overlapped => \A t \in Calls : transport[t] = "open" => t \in drained

Settles(rej, res, drained, gone) ==
    /\ Clears(rej, res, drained, gone)
    /\ \A m \in rej \cup res : via[m.call] \in Calls /\ m \in pending[via[m.call]]
    /\ \A m \in rej, n \in res : via[m.call] # via[n.call]
    /\ pending' \in [Calls -> SUBSET Requests]
    /\ \A t \in Calls : pending'[t] = pending[t] \ (rej \cup res)
    /\ \A t \in drained : transport[t] = "open" /\ pending[t] \subseteq rej
    /\ deaf \subseteq deaf' /\ deaf' \subseteq Calls
    /\ SettledRest(rej, res) /\ SettledProcesses(drained)
    /\ UNCHANGED <<via, channelVars, disposed, overlapped, buffer, interrupted>>

SettlingStep ==
    \E rej, res \in SUBSET Requests, drained \in SUBSET Calls, gone \in SUBSET Turns :
        Settles(rej, res, drained, gone)

LEMMA PendingTyped ==
    ASSUME CodexTypeOK, NEW t \in Calls, NEW m \in pending[t]
    PROVE  m \in Requests /\ m.call \in Calls /\ m.kind \in Kinds /\ m.id \in Nat
  BY DEF CodexTypeOK, Requests

\* The requests that are settled, each of one invocation which waits for it.
RequestsMet(rej, res) ==
    /\ \A m \in rej \cup res : m.call \in Calls /\ Fits(m, via[m.call])
    /\ \A m, n \in res : m.call = n.call => m = n
    /\ \A m \in rej, n \in res : m.call # n.call

\* What becomes of each invocation.
CallsMoved(rej, res, gone) ==
    /\ \A m \in rej : call'[m.call] = "failed"
    /\ \A m \in res : call'[m.call] = AfterAnswer(m.kind)
    /\ \A c \in Calls : call[c] \notin {"initializing", "requesting", "sharing"} =>
          call'[c] = IF c \in gone THEN "done" ELSE call[c]
    /\ \A c \in Calls : call[c] = "sharing" =>
          \/ call'[c] \in {"failed", "done"}
          \/ /\ call'[c] = "sharing"
             /\ \A m \in rej \cup res : m.kind = "thread/start" => via[m.call] # via[c]
    /\ \A c \in Calls : call[c] \in {"initializing", "requesting"} =>
          (\E m \in rej \cup res : m.call = c) \/ call'[c] = call[c]

\* The ways an invocation goes.
Moved(c) ==
    \/ call'[c] = call[c]
    \/ call[c] \in {"initializing", "requesting", "sharing"} /\ call'[c] = "failed"
    \/ call[c] \in {"requesting", "sharing", "running"} /\ call'[c] = "done"
    \/ call[c] = "initializing" /\ call'[c] = "initialized"
    \/ call[c] = "requesting" /\ call'[c] = "answered" /\ c \in Turns

\* What becomes of each transport, thread and stream, and of the session.
TransportsMoved(rej, res, drained, gone) ==
    /\ \A t \in Calls : transport'[t] =
          IF t \in drained \/ \E m \in rej : m.call = t /\ m.kind = "initialize"
          THEN "drained" ELSE transport[t]
    /\ \A t \in Calls : threads'[t] =
          IF \E m \in rej : m.kind = "thread/start" /\ via[m.call] = t THEN "none"
          ELSE IF \E m \in res : m.kind = "thread/start" /\ via[m.call] = t THEN "known"
          ELSE threads[t]
    /\ \A c \in Turns : ended'[c] = IF c \in gone THEN "unknown" ELSE ended[c]
    /\ \A c \in Turns : idle'[c] = IF c \in gone THEN "off" ELSE idle[c]
    /\ \A c \in gone : c \in active /\ call[c] = "running"
    /\ session' \in {session, None}
    /\ session' # None => gone = {} /\ \A t \in drained : t \in deaf'
    /\ (gone # {} \/ session' # session) /\ ~overlapped =>
          \A t \in Calls : transport[t] = "open" => t \in drained

MovedTypes ==
    /\ call' \in [Calls -> {"idle", "starting", "initializing", "initialized", "opened",
                            "sharing", "requesting", "answered", "running", "done", "failed"}]
    /\ transport' \in [Calls -> {"none", "open", "drained"}]
    /\ threads' \in [Calls -> {"none", "creating", "known"}]
    /\ ended' \in [Turns -> Outcomes \cup {"none"}]
    /\ idle' \in [Turns -> {"off", "fresh", "due"}]
    /\ session' \in Calls \cup {None}

LEMMA SettledTypes ==
    ASSUME CodexTypeOK, NEW rej \in SUBSET Requests, NEW res \in SUBSET Requests,
           NEW drained \in SUBSET Calls, NEW gone \in SUBSET Turns,
           Settles(rej, res, drained, gone)
    PROVE  MovedTypes
<1>0. PICK lost \in BOOLEAN : Settle(rej, res, drained, lost)
  BY DEF Settles, Clears
<1>1. \A kind \in Kinds : AfterAnswer(kind) \in {"initialized", "answered", "done"}
  BY DEF AfterAnswer, Kinds
<1>2. \A c \in Calls : \A m \in {n \in res : n.call = c} : m.kind \in Kinds
  BY DEF Requests
<1>3. call' \in [Calls -> {"idle", "starting", "initializing", "initialized", "opened",
                           "sharing", "requesting", "answered", "running", "done", "failed"}]
  <2>1. \A c \in Calls : {n \in res : n.call = c} # {} =>
            AfterAnswer((CHOOSE m \in {n \in res : n.call = c} : TRUE).kind)
                \in {"initialized", "answered", "done"}
    BY <1>1, <1>2
  <2> HIDE DEF AfterAnswer
  <2> QED
    BY <1>0, <2>1 DEF Settle, CodexTypeOK
<1>4. /\ transport' \in [Calls -> {"none", "open", "drained"}]
      /\ threads' \in [Calls -> {"none", "creating", "known"}]
  BY <1>0 DEF Settle, CodexTypeOK
<1>5. ended' \in [Turns -> Outcomes \cup {"none"}] /\ idle' \in [Turns -> {"off", "fresh", "due"}]
  BY <1>0 DEF Settle, CodexTypeOK, TransportFailure, Outcomes
<1>6. session' \in Calls \cup {None}
  BY <1>0 DEF Settle, CodexTypeOK
<1> QED
  BY <1>3, <1>4, <1>5, <1>6 DEF MovedTypes

\* The requests that are settled, each of one invocation which waits for it.
LEMMA SettledRequests ==
    ASSUME CodexTypeOK, RequestInv,
           NEW rej \in SUBSET Requests, NEW res \in SUBSET Requests,
           NEW drained \in SUBSET Calls, NEW gone \in SUBSET Turns,
           Settles(rej, res, drained, gone)
    PROVE  RequestsMet(rej, res)
<1>1. \A m \in rej \cup res : via[m.call] \in Calls /\ m \in pending[via[m.call]]
  BY DEF Settles
<1>2. \A m \in rej \cup res : m.call \in Calls /\ Fits(m, via[m.call])
  BY <1>1 DEF Requests, RequestInv
<1>3. \A m, n \in res : m.call = n.call => m = n
  BY <1>1 DEF RequestInv, Alone
<1>4. \A m \in rej, n \in res : m.call # n.call
  BY DEF Settles
<1> QED
  BY <1>2, <1>3, <1>4 DEF RequestsMet

\* What becomes of each invocation.
LEMMA SettledCalls ==
    ASSUME CodexTypeOK, RequestInv,
           NEW rej \in SUBSET Requests, NEW res \in SUBSET Requests,
           NEW drained \in SUBSET Calls, NEW gone \in SUBSET Turns,
           Settles(rej, res, drained, gone)
    PROVE  CallsMoved(rej, res, gone)
<1> DEFINE failing == {m.call : m \in rej}
           shared(ms, c) == \E m \in ms : m.kind = "thread/start" /\ via[m.call] = via[c]
           answer(c) == {m \in res : m.call = c}
<1>1. \A c \in Calls : call'[c] =
         IF c \in failing \/ (call[c] = "sharing" /\ shared(rej, c)) THEN "failed"
         ELSE IF answer(c) # {} THEN AfterAnswer((CHOOSE m \in answer(c) : TRUE).kind)
         ELSE IF (call[c] = "sharing" /\ shared(res, c)) \/ c \in gone THEN "done"
         ELSE call[c]
  BY DEF Settles, Clears, Settle
<1>2. \A m \in rej \cup res : m.call \in Calls /\ call[m.call] \in {"initializing", "requesting"}
  BY SettledRequests DEF RequestsMet, Fits
<1>3. \A m \in res : answer(m.call) = {m} /\ m.call \notin failing
  BY SettledRequests DEF RequestsMet
<1>4. \A m \in res : (CHOOSE n \in answer(m.call) : TRUE) = m
  BY <1>3
<1>5. \A c \in Calls : c \in failing \/ answer(c) # {} => \E m \in rej \cup res : m.call = c
  OBVIOUS
<1>6. \A c \in gone : call[c] = "running"
  BY DEF Settles, Clears, Lost
<1> HIDE DEF answer
<1>7. \A m \in rej : call'[m.call] = "failed"
  BY <1>1, <1>2
<1>8. \A m \in res : call'[m.call] = AfterAnswer(m.kind)
  <2> TAKE m \in res
  <2>1. /\ m.call \in Calls /\ call[m.call] # "sharing" /\ m.call \notin failing
        /\ answer(m.call) # {} /\ (CHOOSE n \in answer(m.call) : TRUE) = m
    BY <1>2, <1>3, <1>4
  <2> HIDE DEF failing, AfterAnswer
  <2> QED
    BY <1>1, <2>1
<1>9. ASSUME NEW c \in Calls, ~ \E m \in rej \cup res : m.call = c
      PROVE  call'[c] = IF call[c] = "sharing" /\ shared(rej, c) THEN "failed"
                        ELSE IF (call[c] = "sharing" /\ shared(res, c)) \/ c \in gone
                        THEN "done" ELSE call[c]
  BY <1>1, <1>5, <1>9
<1>10. ASSUME NEW c \in Calls, call[c] \notin {"initializing", "requesting"}
       PROVE  ~ \E m \in rej \cup res : m.call = c
  BY <1>2, <1>10
<1> QED
  BY <1>6, <1>7, <1>8, <1>9, <1>10 DEF CallsMoved

\* What becomes of each transport and thread.
LEMMA SettledTransports ==
    ASSUME CodexTypeOK, RequestInv,
           NEW rej \in SUBSET Requests, NEW res \in SUBSET Requests,
           NEW drained \in SUBSET Calls, NEW gone \in SUBSET Turns,
           Settles(rej, res, drained, gone)
    PROVE  TransportsMoved(rej, res, drained, gone)
<1>1. PICK lost \in BOOLEAN :
         /\ Settle(rej, res, drained, lost) /\ gone = Lost(lost)
         /\ \A t \in drained : lost \/ t \in deaf'
         /\ lost /\ ~overlapped => \A t \in Calls : transport[t] = "open" => t \in drained
  BY DEF Settles, Clears
<1>2. \A t \in Calls : transport'[t] =
         IF t \in drained \/ \E m \in rej : m.call = t /\ m.kind = "initialize"
         THEN "drained" ELSE transport[t]
  BY <1>1 DEF Settle
<1>3. \A t \in Calls : threads'[t] =
         IF \E m \in rej : m.kind = "thread/start" /\ via[m.call] = t THEN "none"
         ELSE IF \E m \in res : m.kind = "thread/start" /\ via[m.call] = t THEN "known"
         ELSE threads[t]
  BY <1>1 DEF Settle
<1>4. /\ \A c \in Turns : ended'[c] = IF c \in gone THEN "unknown" ELSE ended[c]
      /\ \A c \in Turns : idle'[c] = IF c \in gone THEN "off" ELSE idle[c]
  BY <1>1 DEF Settle, TransportFailure
<1>5. session' = IF lost THEN None ELSE session
  BY <1>1 DEF Settle
<1>6. gone = IF lost THEN {c \in active : call[c] = "running"} ELSE {}
  BY <1>1 DEF Lost
<1> QED
  BY <1>1, <1>2, <1>3, <1>4, <1>5, <1>6 DEF TransportsMoved

LEMMA SettledMoves ==
    ASSUME NEW rej, NEW res, NEW gone \in SUBSET Turns,
           RequestsMet(rej, res), CallsMoved(rej, res, gone),
           \A c \in gone : call[c] = "running"
    PROVE  \A c \in Calls : Moved(c)
<1>1. \A m \in rej : Moved(m.call)
  BY DEF RequestsMet, CallsMoved, Moved, Fits
<1>2. \A m \in res : Moved(m.call)
  BY DEF RequestsMet, CallsMoved, Moved, Fits, AfterAnswer
<1> QED
  BY <1>1, <1>2 DEF CallsMoved, Moved

\* All of it.
LEMMA Settled ==
    ASSUME CodexTypeOK, RequestInv, SettlingStep
    PROVE  \E rej, res \in SUBSET Requests, drained \in SUBSET Calls, gone \in SUBSET Turns :
              /\ Settles(rej, res, drained, gone) /\ RequestsMet(rej, res)
              /\ CallsMoved(rej, res, gone) /\ TransportsMoved(rej, res, drained, gone)
              /\ \A c \in Calls : Moved(c)
              /\ MovedTypes
<1>1. PICK rej \in SUBSET Requests, res \in SUBSET Requests, drained \in SUBSET Calls,
           gone \in SUBSET Turns : Settles(rej, res, drained, gone)
  BY DEF SettlingStep
<1>2. RequestsMet(rej, res) /\ CallsMoved(rej, res, gone)
  BY <1>1, SettledRequests, SettledCalls
<1>3. TransportsMoved(rej, res, drained, gone) /\ MovedTypes
  BY <1>1, SettledTransports, SettledTypes
<1>4. \A c \in gone : call[c] = "running"
  BY <1>3 DEF TransportsMoved
<1>5. \A c \in Calls : Moved(c)
  BY <1>2, <1>4, SettledMoves
<1> QED
  BY <1>1, <1>2, <1>3, <1>5

-----------------------------------------------------------------------------
(***************************************************************************)
(* Each part is kept when requests are settled.                            *)
(***************************************************************************)

LEMMA SettlingKeepsPlaces ==
    ASSUME CodexTypeOK, RequestInv, PlaceInv, SettlingStep
    PROVE  PlaceInv'
<1>1. PICK rej \in SUBSET Requests, res \in SUBSET Requests, drained \in SUBSET Calls,
           gone \in SUBSET Turns :
         /\ Settles(rej, res, drained, gone) /\ RequestsMet(rej, res)
         /\ TransportsMoved(rej, res, drained, gone)
         /\ \A c \in Calls : Moved(c)
  BY Settled
<1>2. UNCHANGED via /\ via \in [Calls -> Calls \cup {None}] /\ session' \in {session, None}
  BY <1>1 DEF Settles, TransportsMoved, CodexTypeOK
<1>3. \A t \in Calls : transport'[t] = "none" <=> transport[t] = "none"
  <2>1. \A t \in drained : transport[t] # "none"
    BY <1>1 DEF Settles
  <2>2. \A m \in rej : m.kind = "initialize" => transport[m.call] # "none"
    BY <1>1 DEF RequestsMet, Fits, PlaceInv, PlaceOf
  <2> QED
    BY <1>1, <2>1, <2>2 DEF TransportsMoved
<1>4. \A c \in Calls : call'[c] \in Early => call[c] \in Early
  BY <1>1 DEF Early, Moved
<1>5. ASSUME NEW c \in Calls PROVE PlaceOf(c)'
  <2>1. PlaceOf(c) /\ Moved(c)
    BY <1>1 DEF PlaceInv
  <2> QED
    BY <1>2, <1>3, <1>4, <2>1 DEF PlaceOf, Placed, Moved
<1>6. session' # None => transport'[session'] # "none" /\ call'[session'] \notin Early
  BY <1>2, <1>3, <1>4 DEF PlaceInv, CodexTypeOK
<1> QED
  BY <1>5, <1>6 DEF PlaceInv

LEMMA SettlingKeepsTypes ==
    ASSUME CodexTypeOK, RequestInv, SettlingStep
    PROVE  CodexTypeOK'
<1>1. PICK rej \in SUBSET Requests, res \in SUBSET Requests, drained \in SUBSET Calls,
           gone \in SUBSET Turns :
         /\ Settles(rej, res, drained, gone) /\ RequestsMet(rej, res)
         /\ CallsMoved(rej, res, gone) /\ TransportsMoved(rej, res, drained, gone)
         /\ \A c \in Calls : Moved(c)
         /\ MovedTypes
  BY Settled
<1>2. /\ pending' \in [Calls -> SUBSET Requests] /\ deaf' \subseteq Calls
      /\ active' \subseteq Turns /\ follows' \in [Turns -> Turns \cup {None}]
      /\ asked' \in [Processes -> SUBSET Requests]
      /\ native' \in [Turns -> {"none", "running", "ended", "gone"}]
  BY <1>1 DEF Settles, SettledRest, CodexTypeOK
<1>3. /\ process' \in [Processes -> {"unused", "running", "killed", "exited"}]
      /\ record' \in Processes \cup {None}
      /\ malformed' \in [Calls -> 0..(MalformedLimit + 1)]
  BY <1>1 DEF Settles, SettledProcesses
<1>4. UNCHANGED <<via, on, listening, nextId, disposed, overlapped, buffer, interrupted>>
  BY <1>1 DEF Settles, channelVars
<1> QED
  BY <1>1, <1>2, <1>3, <1>4 DEF CodexTypeOK, MovedTypes

LEMMA SettlingKeepsChannels ==
    ASSUME CodexTypeOK, RequestInv, ChannelInv, SettlingStep
    PROVE  ChannelInv'
<1>1. PICK rej \in SUBSET Requests, res \in SUBSET Requests, drained \in SUBSET Calls,
           gone \in SUBSET Turns :
         /\ Settles(rej, res, drained, gone) /\ RequestsMet(rej, res)
         /\ CallsMoved(rej, res, gone) /\ TransportsMoved(rej, res, drained, gone)
         /\ \A c \in Calls : Moved(c)
         /\ MovedTypes
  BY Settled
<1>2. /\ SettledProcesses(drained) /\ UNCHANGED on
      /\ \A t \in drained : transport[t] = "open"
  BY <1>1 DEF Settles, channelVars
<1>3. \A t \in Calls : /\ transport'[t] = "open" => transport[t] = "open" /\ t \notin drained
                       /\ transport'[t] = "none" => transport[t] = "none"
  BY <1>1 DEF TransportsMoved
<1> QED
  BY <1>2, <1>3 DEF ChannelInv, SettledProcesses, Up

LEMMA SettlingKeepsRequests ==
    ASSUME CodexTypeOK, PlaceInv, RequestInv, SettlingStep
    PROVE  RequestInv'
<1>1. PICK rej \in SUBSET Requests, res \in SUBSET Requests, drained \in SUBSET Calls,
           gone \in SUBSET Turns :
         /\ Settles(rej, res, drained, gone) /\ RequestsMet(rej, res)
         /\ CallsMoved(rej, res, gone) /\ TransportsMoved(rej, res, drained, gone)
         /\ \A c \in Calls : Moved(c)
         /\ MovedTypes
  BY Settled
<1> DEFINE over == rej \cup res
<1>2. /\ UNCHANGED <<via, nextId>> /\ \A t \in Calls : pending'[t] = pending[t] \ over
      /\ \A t \in drained : pending[t] \subseteq rej
      /\ \A m \in over : via[m.call] \in Calls /\ m \in pending[via[m.call]]
      /\ \A p \in Processes : asked'[p] \subseteq asked[p]
  BY <1>1 DEF Settles, SettledRest, channelVars
\* A request that stays is of another invocation than those that are settled, which has
\* not moved, and of a transport that was not drained.
<1>3. ASSUME NEW t \in Calls, NEW m \in pending'[t] PROVE Fits(m, t)'
  <2>1. m \in pending[t] /\ m \notin over /\ Fits(m, t) /\ m.call \in Calls
    BY <1>2, <1>3, PendingTyped DEF RequestInv
  <2>2. \A n \in over : n.call # m.call
    BY <1>2, <2>1 DEF RequestInv, Fits, Alone
  <2>3. call'[m.call] = call[m.call]
    BY <1>1, <2>1, <2>2 DEF CallsMoved, Fits
  <2>4. t \notin drained
    BY <1>2, <2>1
  <2>5. ASSUME NEW n \in rej, n.call = t, n.kind = "initialize" PROVE FALSE
    <3>1. call[t] = "initializing"
      BY <1>1, <2>5 DEF RequestsMet, Fits
    <3>2. m.call # t /\ via[m.call] = t
      <4>1. n \in over
        BY <2>5
      <4> QED
        BY <2>1, <2>2, <2>5, <4>1 DEF Fits
    <3>3. PlaceOf(m.call) /\ via[m.call] # None
      BY <2>1, <3>2, CodexAssumption DEF PlaceInv
    <3> QED
      BY <3>1, <3>2, <3>3 DEF PlaceOf, Early
  <2>6. transport'[t] = transport[t]
    BY <1>1, <2>4, <2>5 DEF TransportsMoved
  <2>7. m.kind = "thread/start" => threads'[t] = threads[t]
    <3> SUFFICES ASSUME m.kind = "thread/start", NEW n \in over, n.kind = "thread/start", via[n.call] = t
                 PROVE  FALSE
      BY <1>1 DEF TransportsMoved
    <3> QED
      BY <1>2, <2>1, <2>2 DEF RequestInv, Alone
  <2> QED
    BY <1>2, <2>1, <2>3, <2>6, <2>7 DEF Fits
<1>4. \A t \in Calls : \A m, n \in pending'[t] : Alone(m, n)
  BY <1>2 DEF RequestInv
<1>5. ASSUME NEW c \in Calls, call'[c] \in {"initializing", "requesting"}
      PROVE  \E m \in pending'[via'[c]] : m.call = c
  <2>1. call[c] = call'[c]
    BY <1>1, <1>5 DEF Moved
  <2>2. via[c] \in Calls
    BY <1>5, <2>1 DEF PlaceInv, PlaceOf, Placed, CodexTypeOK
  <2>3. PICK m \in pending[via[c]] : m.call = c
    BY <1>5, <2>1 DEF RequestInv
  <2>4. m \notin over
    <3>1. \A n \in rej : call'[n.call] = "failed"
      BY <1>1 DEF CallsMoved
    <3>2. \A n \in res : call'[n.call] \in {"initialized", "answered", "done"}
      <4>1. \A n \in res : call'[n.call] = AfterAnswer(n.kind)
        BY <1>1 DEF CallsMoved
      <4> QED
        BY <4>1 DEF AfterAnswer
    <3> QED
      BY <1>5, <2>3, <3>1, <3>2
  <2> QED
    BY <1>2, <2>2, <2>3, <2>4
<1>6. ASSUME NEW c \in Calls, call'[c] = "sharing" PROVE threads'[via'[c]] = "creating"
  <2>0. call[c] = "sharing"
    BY <1>1, <1>6 DEF Moved
  <2>1. call[c] = "sharing" /\ threads[via[c]] = "creating" /\ via[c] \in Calls
    BY <2>0 DEF RequestInv, PlaceInv, PlaceOf, Placed, CodexTypeOK
  <2>2. \A m \in over : m.kind = "thread/start" => via[m.call] # via[c]
    BY <1>1, <1>6, <2>1 DEF CallsMoved
  <2> QED
    BY <1>1, <1>2, <2>1, <2>2 DEF TransportsMoved
<1>7. ASSUME NEW t \in Calls, threads'[t] = "creating"
      PROVE  \E m \in pending'[t] : m.kind = "thread/start"
  <2>1. /\ threads[t] = "creating"
        /\ \A m \in over : m.kind = "thread/start" => via[m.call] # t
    BY <1>1, <1>7 DEF TransportsMoved
  <2>2. PICK m \in pending[t] : m.kind = "thread/start"
    BY <2>1 DEF RequestInv
  <2>3. via[m.call] = t
    BY <2>2 DEF RequestInv, Fits
  <2> QED
    BY <1>2, <2>1, <2>2, <2>3
<1>8. \A p \in Processes : \A q \in asked'[p] : q.kind = "turn/start" => q.call \in Turns
  BY <1>2 DEF RequestInv
<1> QED
  BY <1>3, <1>4, <1>5, <1>6, <1>7, <1>8 DEF RequestInv

\* A stream follows another turn only while its own request is answered.
LEMMA SettlingKeepsTurns ==
    ASSUME CodexTypeOK, RequestInv, TurnInv, SettlingStep
    PROVE  TurnInv'
<1>1. PICK rej \in SUBSET Requests, res \in SUBSET Requests, drained \in SUBSET Calls,
           gone \in SUBSET Turns :
         /\ Settles(rej, res, drained, gone) /\ RequestsMet(rej, res)
         /\ CallsMoved(rej, res, gone) /\ TransportsMoved(rej, res, drained, gone)
         /\ \A c \in Calls : Moved(c)
         /\ MovedTypes
  BY Settled
<1>2. SettledRest(rej, res) /\ UNCHANGED buffer
  BY <1>1 DEF Settles
<1>3. \A n \in Turns : /\ native[n] # "none" => native'[n] # "none"
                       /\ native[n] = "ended" => native'[n] = "ended"
  BY <1>2 DEF SettledRest
<1>4. ASSUME NEW c \in Turns PROVE TurnOf(c)'
  <2>1. TurnOf(c) /\ Moved(c) /\ c \in Calls
    BY <1>1 DEF TurnInv, Calls
  <2>2. follows[c] # None => follows'[c] # None
    BY <1>2 DEF SettledRest
  <2>3. c \in gone => call[c] = "running"
    BY <1>1 DEF TransportsMoved
  <2>4. ended'[c] # "none" => call'[c] = "done" /\ follows'[c] # None
    <3>1. CASE c \in gone
      BY <1>1, <2>1, <2>2, <2>3, <3>1 DEF TurnOf, CallsMoved
    <3>2. CASE c \notin gone
      BY <1>1, <2>1, <2>2, <3>2 DEF TurnOf, CallsMoved, TransportsMoved
    <3> QED
      BY <3>1, <3>2
  <2>5. idle'[c] # "off" => call'[c] = "running"
    BY <1>1, <2>1 DEF TurnOf, CallsMoved, TransportsMoved
  <2>6. ASSUME call'[c] \in {"answered", "running"} PROVE follows'[c] # None
    <3>1. CASE call'[c] = call[c]
      BY <2>1, <2>2, <2>6, <3>1 DEF TurnOf
    <3>2. CASE call'[c] # call[c]
      <4>1. call[c] = "requesting" /\ call'[c] = "answered"
        BY <2>1, <2>6, <3>2 DEF Moved
      <4>2. PICK m \in rej \cup res : m.call = c
        BY <1>1, <2>1, <3>2, <4>1 DEF CallsMoved
      <4>3. m \in res
        BY <1>1, <4>1, <4>2 DEF CallsMoved
      <4>4. AfterAnswer(m.kind) = "answered"
        BY <1>1, <4>1, <4>2, <4>3 DEF CallsMoved
      <4>5. m.kind = "turn/start"
        BY <4>4 DEF AfterAnswer
      <4> QED
        BY <1>2, <4>2, <4>3, <4>5 DEF SettledRest
    <3> QED
      BY <3>1, <3>2
  <2>7. follows'[c] # None => native'[follows'[c]] # "none"
    <3>1. follows'[c] # None => native[follows'[c]] # "none"
      BY <1>2, <2>1 DEF SettledRest, TurnOf
    <3>2. follows'[c] \in Turns \cup {None}
      BY <1>2 DEF SettledRest
    <3> QED
      BY <1>3, <3>1, <3>2
  <2> QED
    BY <2>4, <2>5, <2>6, <2>7 DEF TurnOf
<1>5. ASSUME NEW c \in Turns PROVE BufferedEnds(c)'
  <2>1. \A i \in 1..Len(buffer[c]) : buffer[c][i][2] \in Turns
    BY DEF CodexTypeOK
  <2> QED
    BY <1>2, <1>3, <2>1 DEF TurnInv, BufferedEnds
<1> QED
  BY <1>4, <1>5 DEF TurnInv

\* A stream that ended is not told again, and follows what it followed.
LEMMA SettlingKeepsOutcomes ==
    ASSUME CodexTypeOK, RequestInv, PlaceInv, TurnInv, HonestOutcome, StalledIsInterrupted,
           SettlingStep
    PROVE  HonestOutcome' /\ StalledIsInterrupted'
<1>1. PICK rej \in SUBSET Requests, res \in SUBSET Requests, drained \in SUBSET Calls,
           gone \in SUBSET Turns :
         /\ Settles(rej, res, drained, gone) /\ RequestsMet(rej, res)
         /\ CallsMoved(rej, res, gone) /\ TransportsMoved(rej, res, drained, gone)
         /\ \A c \in Calls : Moved(c)
         /\ MovedTypes
  BY Settled
<1>2. SettledRest(rej, res) /\ UNCHANGED <<via, overlapped, interrupted>>
  BY <1>1 DEF Settles
<1>3. ASSUME NEW c \in Turns, ended[c] # "none"
      PROVE  /\ ended'[c] = ended[c] /\ follows'[c] = follows[c] /\ follows[c] \in Turns
             /\ c \notin gone
  <2>1. call[c] = "done" /\ follows[c] # None /\ c \in Calls
    BY <1>3 DEF TurnInv, TurnOf, Calls
  <2>2. c \notin gone
    BY <1>1, <2>1 DEF TransportsMoved
  <2>3. \A m \in res : m.call # c
    BY <1>1, <2>1 DEF RequestsMet, Fits
  <2>4. ended'[c] = ended[c]
    BY <1>1, <2>2 DEF TransportsMoved
  <2>5. follows'[c] = follows[c]
    BY <1>2, <2>3 DEF SettledRest
  <2> QED
    BY <2>1, <2>2, <2>4, <2>5 DEF CodexTypeOK
<1>4. \A c \in Turns : ended[c] = "none" => ended'[c] = "none" \/ c \in gone
  BY <1>1 DEF TransportsMoved
<1>5. HonestOutcome'
  <2>1. \A n \in Turns : native[n] = "ended" => native'[n] = "ended"
    BY <1>2 DEF SettledRest
  <2>2. \A c \in gone : ended'[c] = "unknown"
    BY <1>1 DEF TransportsMoved
  <2> QED
    BY <1>3, <1>4, <2>1, <2>2 DEF HonestOutcome
<1>6. ASSUME NEW c \in Turns, ended'[c] = "unknown", transport'[via'[c]] = "open", ~overlapped'
      PROVE  native'[follows'[c]] # "running" \/ follows'[c] \in interrupted'
  <2>1. c \in Calls /\ via[c] \in Calls
    <3>1. c \in Calls /\ (ended[c] # "none" \/ c \in gone)
      BY <1>1, <1>6 DEF TransportsMoved, Calls
    <3>2. call[c] \in {"done", "running"}
      BY <1>1, <3>1 DEF TurnInv, TurnOf, TransportsMoved
    <3>3. PlaceOf(c)
      BY <3>1 DEF PlaceInv
    <3> QED
      BY <3>1, <3>2, <3>3 DEF PlaceOf, Placed, CodexTypeOK
  <2>2. transport[via[c]] = "open" /\ via[c] \notin drained
    BY <1>1, <1>2, <1>6, <2>1 DEF TransportsMoved
  <2>3. c \notin gone
    BY <1>1, <1>2, <1>6, <2>1, <2>2 DEF TransportsMoved
  <2>4. ended[c] = "unknown"
    BY <1>1, <1>6, <2>3 DEF TransportsMoved
  <2>5. native[follows[c]] # "running" \/ follows[c] \in interrupted
    <3>1. via'[c] = via[c] /\ overlapped' = overlapped
      BY <1>2
    <3> QED
      BY <1>6, <2>2, <2>4, <3>1 DEF StalledIsInterrupted
  <2>6. follows'[c] = follows[c] /\ follows[c] \in Turns
    BY <1>3, <2>4
  <2>7. native'[follows[c]] = "running" => native[follows[c]] = "running"
    BY <1>2, <2>6 DEF SettledRest
  <2> QED
    BY <1>2, <2>5, <2>6, <2>7
<1> QED
  BY <1>5, <1>6 DEF StalledIsInterrupted

LEMMA SettlingKeepsSessions ==
    ASSUME CodexTypeOK, RequestInv, PlaceInv, SessionIsOpen, SoleInv, SettlingStep
    PROVE  SessionIsOpen' /\ SoleInv'
<1>1. PICK rej \in SUBSET Requests, res \in SUBSET Requests, drained \in SUBSET Calls,
           gone \in SUBSET Turns :
         /\ Settles(rej, res, drained, gone) /\ RequestsMet(rej, res)
         /\ CallsMoved(rej, res, gone) /\ TransportsMoved(rej, res, drained, gone)
         /\ \A c \in Calls : Moved(c)
         /\ MovedTypes
  BY Settled
<1>2. /\ SettledProcesses(drained) /\ UNCHANGED <<via, overlapped, disposed>>
      /\ deaf \subseteq deaf'
  BY <1>1 DEF Settles
<1>3. SessionIsOpen'
  <2> SUFFICES ASSUME session' # None, session' \notin deaf' PROVE transport'[session'] = "open"
    BY DEF SessionIsOpen
  <2>1. session' = session /\ session \notin drained /\ session \in Calls
    BY <1>1 DEF TransportsMoved, CodexTypeOK
  <2>2. transport[session] = "open" /\ call[session] \notin Early
    BY <1>2, <2>1 DEF SessionIsOpen, PlaceInv
  <2>3. \A m \in rej : m.kind = "initialize" => m.call # session
    BY <1>1, <2>2 DEF RequestsMet, Fits, Early
  <2> QED
    BY <1>1, <2>1, <2>2, <2>3 DEF TransportsMoved
<1>4. SoleInv'
  <2> SUFFICES ASSUME ~overlapped PROVE SoleInv'
    BY <1>2 DEF SoleInv
  <2>1. \A c \in Calls : /\ c \in Opening' => c \in Opening
                         /\ call'[c] = "starting" => call[c] = "starting"
    BY <1>1 DEF Moved, Opening
  <2>2. session' # None => session' = session
    BY <1>1 DEF TransportsMoved
  <2>3. \A p \in Processes : Up(p)' => Up(p) /\ record' = record
    BY <1>2 DEF SettledProcesses
  <2>4. \A t \in Calls : transport'[t] = "open" => transport[t] = "open" /\ session' = session
    BY <1>1 DEF TransportsMoved
  <2>5. ASSUME NEW t \in Calls, transport'[t] = "open", t \in Opening PROVE t \in Opening'
    <3>1. \A m \in rej : m.call = t => call[t] = "initializing" /\ m.kind = "initialize"
      BY <1>1, <2>5 DEF RequestsMet, Fits, Opening
    <3>2. \A m \in rej : m.call # t
      BY <1>1, <2>5, <3>1 DEF TransportsMoved
    <3>3. call'[t] # "failed"
      <4>1. \A m \in res : call'[m.call] \in {"initialized", "answered", "done"}
        BY <1>1 DEF CallsMoved, AfterAnswer
      <4> QED
        BY <1>1, <2>5, <3>2, <4>1 DEF CallsMoved, Opening
    <3> QED
      BY <1>1, <2>5, <3>3 DEF Moved, Opening
  <2>6. \A t \in Calls : transport'[t] = "open" => session' = t \/ t \in Opening' \/ disposed'
    BY <1>2, <2>4, <2>5 DEF SoleInv
  <2>7. Opening' \subseteq Calls /\ Opening \subseteq Calls
    BY DEF Opening
  <2>8. /\ \A c, d \in Opening' : c = d
        /\ Opening' # {} => session' = None
    BY <2>1, <2>2, <2>7 DEF SoleInv
  <2>9. /\ \A p, q \in Processes : Up(p)' /\ Up(q)' => p = q
        /\ \A p \in Processes : Up(p)' => record' = p \/ disposed'
        /\ \A p \in Processes : Up(p)' => \A c \in Calls : call'[c] # "starting"
    BY <1>2, <2>1, <2>3 DEF SoleInv
  <2>10. \A t, u \in Calls : transport'[t] = "open" /\ transport'[u] = "open" => t = u
    BY <2>4 DEF SoleInv
  <2> QED
    BY <2>6, <2>8, <2>9, <2>10 DEF SoleInv
<1> QED
  BY <1>3, <1>4

LEMMA SettlingKeeps ==
    ASSUME ProviderInv, SettlingStep
    PROVE  ProviderInv'
  BY SettlingKeepsTypes, SettlingKeepsChannels, SettlingKeepsPlaces, SettlingKeepsRequests,
     SettlingKeepsTurns, SettlingKeepsOutcomes, SettlingKeepsSessions DEF ProviderInv

-----------------------------------------------------------------------------
(***************************************************************************)
(* The actions that settle requests.                                       *)
(***************************************************************************)

LEMMA PendingHome ==
    ASSUME CodexTypeOK, RequestInv
    PROVE  \A t \in Calls : \A m \in pending[t] : m \in Requests /\ via[m.call] = t
  BY PendingTyped DEF RequestInv, Fits

LEMMA AllPendingHome ==
    ASSUME CodexTypeOK, RequestInv, NEW ts \in SUBSET Calls
    PROVE  /\ AllPending(ts) \subseteq Requests
           /\ \A m \in AllPending(ts) : via[m.call] \in Calls /\ m \in pending[via[m.call]]
           /\ Drained(ts) \in [Calls -> SUBSET Requests]
           /\ \A t \in Calls : Drained(ts)[t] = pending[t] \ AllPending(ts)
           /\ \A t \in ts : pending[t] \subseteq AllPending(ts)
<1>1. \A m \in AllPending(ts) : \E t \in ts : m \in pending[t]
  BY DEF AllPending
<1>2. \A t \in ts : pending[t] \subseteq AllPending(ts)
  BY DEF AllPending
<1>3. \A m \in AllPending(ts) : m \in Requests /\ via[m.call] \in ts /\ m \in pending[via[m.call]]
  BY <1>1, PendingHome
<1>4. Drained(ts) \in [Calls -> SUBSET Requests]
  BY DEF Drained, CodexTypeOK
<1>5. ASSUME NEW t \in Calls PROVE Drained(ts)[t] = pending[t] \ AllPending(ts)
  <2>1. CASE t \in ts
    BY <1>2, <2>1 DEF Drained
  <2>2. CASE t \notin ts
    <3>1. \A m \in pending[t] : m \notin AllPending(ts)
      BY <1>3, <2>2, PendingHome
    <3> QED
      BY <2>2, <3>1 DEF Drained
  <2> QED
    BY <2>1, <2>2
<1> QED
  BY <1>2, <1>3, <1>4, <1>5

\* The turns that are told are registered ones.
LEMMA LostTurns ==
    ASSUME CodexTypeOK, NEW lost \in BOOLEAN
    PROVE  Lost(lost) \in SUBSET Turns
  BY DEF Lost, CodexTypeOK

\* While sessions are opened one at a time, the process that reads has every open transport.
LEMMA SoleProcess ==
    ASSUME CodexTypeOK, ChannelInv, SoleInv, NEW p \in Processes, Up(p), ~overlapped
    PROVE  \A t \in Calls : transport[t] = "open" => t \in Attached(p)
  BY DEF ChannelInv, SoleInv, Attached

LEMMA RestUnchanged ==
    ASSUME CodexTypeOK, NEW rej, active' \subseteq active,
           UNCHANGED <<follows, asked, native>>
    PROVE  SettledRest(rej, {})
  BY DEF CodexTypeOK, SettledRest

LEMMA ProcessesUnchanged ==
    ASSUME CodexTypeOK, ChannelInv, NEW drained, UNCHANGED <<process, record, malformed, on>>
    PROVE  SettledProcesses(drained)
  BY DEF CodexTypeOK, ChannelInv, SettledProcesses, Up

LEMMA RequestTimeoutSettles ==
    ASSUME ProviderInv, NEW t \in Calls, NEW m \in pending[t], RequestTimeout(t, m)
    PROVE  SettlingStep
<1> USE DEF ProviderInv
<1> DEFINE rej == {m}
<1>1. rej \in SUBSET Requests /\ via[m.call] = t
  BY PendingHome
<1>2. Clears(rej, {}, {}, {})
  BY DEF RequestTimeout, Clears, Lost
<1>3. /\ pending' \in [Calls -> SUBSET Requests]
      /\ \A u \in Calls : pending'[u] = pending[u] \ (rej \cup {})
  <2>1. pending' = [pending EXCEPT ![t] = @ \ {m}]
    BY DEF RequestTimeout
  <2>2. \A u \in Calls \ {t} : m \notin pending[u]
    BY <1>1, PendingHome
  <2> QED
    BY <2>1, <2>2 DEF CodexTypeOK
<1>4. SettledRest(rej, {}) /\ SettledProcesses({})
  BY RestUnchanged, ProcessesUnchanged
  DEF RequestTimeout, processVars, channelVars, appServerVars
<1>5. UNCHANGED <<via, channelVars, disposed, overlapped, buffer, interrupted, deaf>>
  BY DEF RequestTimeout, processVars
<1>6. Settles(rej, {}, {}, {})
  BY <1>1, <1>2, <1>3, <1>4, <1>5 DEF Settles, CodexTypeOK
<1> QED
  BY <1>1, <1>6 DEF SettlingStep

LEMMA InvalidNotificationSettles ==
    ASSUME ProviderInv, NEW p \in Processes, InvalidNotification(p)
    PROVE  SettlingStep
<1> USE DEF ProviderInv
<1> DEFINE ts == Attached(p)
           rej == AllPending(ts)
<1>1. ts \in SUBSET Calls /\ \A t \in ts : transport[t] = "open"
  BY DEF Attached
<1>2. Lost(TRUE) \in SUBSET Turns
  BY LostTurns
<1>3. Clears(rej, {}, ts, Lost(TRUE))
  <2>1. Settle(rej, {}, ts, TRUE) /\ Up(p)
    BY DEF InvalidNotification, SchemaFailure, Reads, Up
  <2>2. ~overlapped => \A t \in Calls : transport[t] = "open" => t \in ts
    BY <2>1, SoleProcess
  <2> HIDE DEF ts, rej
  <2> QED
    BY <2>1, <2>2 DEF Clears
<1>4. pending' = Drained(ts)
  BY DEF InvalidNotification
<1>5. SettledRest(rej, {}) /\ SettledProcesses(ts)
  <2>1. active' \subseteq active
    BY DEF InvalidNotification, SchemaFailure
  <2>2. UNCHANGED <<follows, asked, native, process, record, malformed, on>>
    BY DEF InvalidNotification, processVars, channelVars, appServerVars
  <2> QED
    BY <2>1, <2>2, RestUnchanged, ProcessesUnchanged
<1>6. UNCHANGED <<via, channelVars, disposed, overlapped, buffer, interrupted, deaf>>
  BY DEF InvalidNotification, processVars
<1>7. /\ rej \in SUBSET Requests
      /\ \A m \in rej : via[m.call] \in Calls /\ m \in pending[via[m.call]]
      /\ pending' \in [Calls -> SUBSET Requests]
      /\ \A t \in Calls : pending'[t] = pending[t] \ rej
      /\ \A t \in ts : pending[t] \subseteq rej
  BY <1>1, <1>4, AllPendingHome
<1> HIDE DEF ts, rej
<1>8. Settles(rej, {}, ts, Lost(TRUE))
  BY <1>1, <1>3, <1>5, <1>6, <1>7 DEF Settles, CodexTypeOK
<1> QED
  BY <1>1, <1>2, <1>7, <1>8 DEF SettlingStep

LEMMA MalformedLineSettles ==
    ASSUME ProviderInv, NEW p \in Processes, MalformedLine(p)
    PROVE  SettlingStep
<1> USE DEF ProviderInv
<1> DEFINE ts == {t \in Attached(p) : TooMany(t)}
           rej == AllPending(ts)
<1>1. ts \in SUBSET Calls /\ \A t \in ts : transport[t] = "open"
  BY DEF Attached
<1>2. Clears(rej, {}, ts, {})
  <2>1. Settle(rej, {}, ts, FALSE) /\ deaf' = deaf \cup ts
    BY DEF MalformedLine
  <2> HIDE DEF ts, rej
  <2> QED
    BY <2>1 DEF Clears, Lost
<1>3. pending' = Drained(ts)
  BY DEF MalformedLine
<1>4. SettledRest(rej, {})
  <2>1. active' \subseteq active
    BY DEF MalformedLine
  <2>2. UNCHANGED <<follows, asked, native>>
    BY DEF MalformedLine, appServerVars
  <2> QED
    BY <2>1, <2>2, RestUnchanged
<1>5. SettledProcesses(ts)
  <2>1. UNCHANGED <<process, record, on>>
    BY DEF MalformedLine, processVars, channelVars
  <2>2. malformed' = [t \in Calls |-> IF t \in Attached(p) THEN malformed[t] + 1 ELSE malformed[t]]
    BY DEF MalformedLine
  <2>3. \A t \in Calls : malformed[t] \in 0..(MalformedLimit + 1)
    BY DEF CodexTypeOK
  <2>4. \A t \in Attached(p) : t \in Calls /\ transport[t] = "open" /\ malformed[t] <= MalformedLimit
    BY DEF Attached, ChannelInv
  <2>5. malformed' \in [Calls -> 0..(MalformedLimit + 1)]
    BY <2>2, <2>3, <2>4, CodexAssumption
  <2>6. \A t \in Calls : transport[t] = "none" => malformed'[t] = 0
    BY <2>2, <2>4 DEF ChannelInv
  <2>7. \A t \in Calls \ ts : transport[t] = "open" => malformed'[t] <= MalformedLimit
    <3> TAKE t \in Calls \ ts
    <3>1. CASE t \in Attached(p)
      BY <2>2, <2>3, <2>4, <3>1, CodexAssumption DEF TooMany
    <3>2. CASE t \notin Attached(p)
      BY <2>2, <3>2 DEF ChannelInv
    <3> QED
      BY <3>1, <3>2
  <2>8. \A t \in Calls : transport[t] = "open" => on[t] \in Processes /\ Up(on[t])'
    BY <2>1 DEF ChannelInv, Up
  <2>9. /\ process' \in [Processes -> {"unused", "running", "killed", "exited"}]
        /\ record' \in Processes \cup {None} /\ (record' # None => process'[record'] = "running")
        /\ \A q \in Processes : Up(q)' => Up(q) /\ record' = record
    BY <2>1 DEF CodexTypeOK, ChannelInv, Up
  <2> HIDE DEF ts, rej
  <2> QED
    BY <2>5, <2>6, <2>7, <2>8, <2>9 DEF SettledProcesses
<1>6. UNCHANGED <<via, channelVars, disposed, overlapped, buffer, interrupted>>
  BY DEF MalformedLine, processVars
<1>7. deaf' = deaf \cup ts
  BY DEF MalformedLine
<1>8. /\ rej \in SUBSET Requests
      /\ \A m \in rej : via[m.call] \in Calls /\ m \in pending[via[m.call]]
      /\ pending' \in [Calls -> SUBSET Requests]
      /\ \A t \in Calls : pending'[t] = pending[t] \ rej
      /\ \A t \in ts : pending[t] \subseteq rej
  BY <1>1, <1>3, AllPendingHome
<1> HIDE DEF ts, rej
<1>9. Settles(rej, {}, ts, {})
  BY <1>1, <1>2, <1>4, <1>5, <1>6, <1>7, <1>8 DEF Settles, CodexTypeOK
<1> QED
  BY <1>1, <1>8, <1>9 DEF SettlingStep

LEMMA ExitSettles ==
    ASSUME ProviderInv, NEW p \in Processes, Exit(p)
    PROVE  SettlingStep
<1> USE DEF ProviderInv
<1> DEFINE ts == Attached(p)
           rej == AllPending(ts)
<1>1. ts \in SUBSET Calls /\ \A t \in ts : transport[t] = "open"
  BY DEF Attached
<1>2. Lost(TRUE) \in SUBSET Turns
  BY LostTurns
<1>3. Up(p) /\ process' = [process EXCEPT ![p] = "exited"] /\ record' = None
  BY DEF Exit, Up
<1>4. Clears(rej, {}, ts, Lost(TRUE))
  <2>1. Settle(rej, {}, ts, TRUE)
    BY DEF Exit
  <2>2. ~overlapped => \A t \in Calls : transport[t] = "open" => t \in ts
    BY <1>3, SoleProcess
  <2> HIDE DEF ts, rej
  <2> QED
    BY <2>1, <2>2 DEF Clears
<1>5. pending' = Drained(ts)
  BY DEF Exit
<1>6. SettledRest(rej, {})
  <2>1. active' \subseteq active /\ UNCHANGED follows
    BY DEF Exit
  <2>2. asked' = [asked EXCEPT ![p] = {}]
    BY DEF Exit
  <2>3. native' = [n \in Turns |->
            IF native[n] = "running" /\ on[via[n]] = p THEN "gone" ELSE native[n]]
    BY DEF Exit
  <2>4. asked' \in [Processes -> SUBSET Requests] /\ \A q \in Processes : asked'[q] \subseteq asked[q]
    BY <2>2 DEF CodexTypeOK
  <2>5. /\ native' \in [Turns -> {"none", "running", "ended", "gone"}]
        /\ \A n \in Turns : native'[n] # native[n] => native[n] = "running" /\ native'[n] = "gone"
    BY <2>3 DEF CodexTypeOK
  <2>6. follows' \in [Turns -> Turns \cup {None}]
    BY <2>1 DEF CodexTypeOK
  <2> HIDE DEF ts, rej
  <2> QED
    BY <2>1, <2>4, <2>5, <2>6 DEF SettledRest
<1>7. SettledProcesses(ts)
  <2>1. process' \in [Processes -> {"unused", "running", "killed", "exited"}]
    BY <1>3 DEF CodexTypeOK
  <2>2. \A q \in Processes : Up(q)' => Up(q) /\ q # p
    BY <1>3 DEF CodexTypeOK, Up
  <2>3. \A q \in Processes : Up(q)' => overlapped
    BY <1>3, <2>2 DEF SoleInv
  <2>4. UNCHANGED <<malformed, on>>
    BY DEF Exit, channelVars
  <2>5. \A t \in Calls \ ts : transport[t] = "open" => on[t] \in Processes /\ Up(on[t])'
    BY <1>3, <2>4 DEF ChannelInv, Attached, CodexTypeOK, Up
  <2> HIDE DEF ts, rej
  <2> QED
    BY <1>3, <2>1, <2>2, <2>3, <2>4, <2>5 DEF SettledProcesses, ChannelInv, CodexTypeOK
<1>8. UNCHANGED <<via, channelVars, disposed, overlapped, buffer, interrupted, deaf>>
  BY DEF Exit
<1>9. /\ rej \in SUBSET Requests
      /\ \A m \in rej : via[m.call] \in Calls /\ m \in pending[via[m.call]]
      /\ pending' \in [Calls -> SUBSET Requests]
      /\ \A t \in Calls : pending'[t] = pending[t] \ rej
      /\ \A t \in ts : pending[t] \subseteq rej
  BY <1>1, <1>5, AllPendingHome
<1> HIDE DEF ts, rej
<1>10. Settles(rej, {}, ts, Lost(TRUE))
  BY <1>1, <1>4, <1>6, <1>7, <1>8, <1>9 DEF Settles, CodexTypeOK
<1> QED
  BY <1>1, <1>2, <1>9, <1>10 DEF SettlingStep

\* An answer settles, on each transport of the process, the request of its number, or
\* all of them when it does not fit that request.
LEMMA ResponseSettles ==
    ASSUME ProviderInv, NEW p \in Processes, NEW q \in asked[p], NEW ok \in BOOLEAN, Response(p, q, ok)
    PROVE  SettlingStep
<1> USE DEF ProviderInv
<1> DEFINE matched(t) == {m \in pending[t] : m.id = q.id}
           ts == Attached(p)
           unfit == {t \in ts : ok /\ \E m \in matched(t) : m.kind # q.kind}
           rejAt(t) == IF t \in unfit THEN pending[t] ELSE IF ok THEN {} ELSE matched(t)
           resAt(t) == IF ok /\ t \notin unfit THEN matched(t) ELSE {}
           rej == UNION {rejAt(t) : t \in ts}
           res == UNION {resAt(t) : t \in ts}
           gone == Lost(unfit # {})
<1>1. /\ Up(p) /\ (ok /\ q.kind = "turn/start" => native[q.call] # "none")
      /\ asked' = [asked EXCEPT ![p] = @ \ {q}]
      /\ Settle(rej, res, unfit, unfit # {})
      /\ pending' = [t \in Calls |-> IF t \in unfit THEN {}
                                    ELSE IF t \in ts THEN pending[t] \ matched(t)
                                    ELSE pending[t]]
      /\ active' \subseteq active
      /\ follows' = [c \in Turns |-> IF \E m \in res : m.call = c /\ m.kind = "turn/start"
                                     THEN q.call ELSE follows[c]]
      /\ UNCHANGED <<process, record, disposed, overlapped, via, on, listening, nextId, malformed,
                     buffer, native, interrupted, deaf>>
  BY DEF Response, Reads, Up, processVars, channelVars
<1>2. ts \subseteq Calls /\ unfit \subseteq ts /\ \A t \in ts : transport[t] = "open"
  BY DEF Attached
<1>3. \A t \in Calls : matched(t) \subseteq pending[t]
  OBVIOUS
<1>4. \A m \in rej : \E t \in ts : m \in rejAt(t) /\ m \in pending[t]
  OBVIOUS
<1>5. \A m \in res : \E t \in ts : m \in resAt(t) /\ m \in pending[t]
  OBVIOUS
<1>6. \A t \in Calls : \A m \in pending[t] : m \in Requests /\ via[m.call] = t
  BY PendingHome
<1>7. \A m \in rej : via[m.call] \in ts /\ m \in rejAt(via[m.call]) /\ m \in pending[via[m.call]]
  <2> HIDE DEF ts, rej, rejAt
  <2> QED
    BY <1>2, <1>4, <1>6
<1>8. \A m \in res : via[m.call] \in ts /\ m \in resAt(via[m.call]) /\ m \in pending[via[m.call]]
  <2> HIDE DEF ts, res, resAt
  <2> QED
    BY <1>2, <1>5, <1>6
<1>9. rej \in SUBSET Requests /\ res \in SUBSET Requests
  <2> HIDE DEF ts, rej, res, rejAt, resAt
  <2> QED
    BY <1>2, <1>6, <1>7, <1>8
<1>10. \A m \in rej, n \in res : via[m.call] # via[n.call]
  <2>1. \A t \in ts : rejAt(t) = {} \/ resAt(t) = {}
    OBVIOUS
  <2> HIDE DEF ts, rej, res, rejAt, resAt
  <2> QED
    BY <1>7, <1>8, <2>1
<1>11. \A t \in ts : rejAt(t) \subseteq rej /\ resAt(t) \subseteq res
  OBVIOUS
<1>12. \A t \in unfit : pending[t] \subseteq rej
  BY <1>2, <1>11
<1>13. pending' \in [Calls -> SUBSET Requests]
  BY <1>1 DEF CodexTypeOK
<1>14. ASSUME NEW t \in Calls PROVE pending'[t] = pending[t] \ (rej \cup res)
  <2>1. CASE t \in unfit
    BY <1>1, <1>12, <2>1
  <2>2. CASE t \in ts \ unfit
    <3>1. pending'[t] = pending[t] \ matched(t)
      BY <1>1, <2>2
    <3>2. rejAt(t) \cup resAt(t) = matched(t)
      BY <2>2
    <3>3. matched(t) \subseteq rej \cup res
      BY <1>11, <2>2, <3>2
    <3>4. \A m \in pending[t] : m \in rej \cup res => m \in matched(t)
      <4> HIDE DEF matched, ts, unfit, rejAt, resAt, rej, res
      <4> QED
        BY <1>6, <1>7, <1>8, <3>2
    <3> HIDE DEF matched, ts, unfit, rejAt, resAt, rej, res
    <3> QED
      BY <3>1, <3>3, <3>4
  <2>3. CASE t \notin ts
    <3>1. pending'[t] = pending[t]
      BY <1>1, <1>2, <2>3
    <3>2. \A m \in pending[t] : m \notin rej \cup res
      <4> HIDE DEF matched, ts, unfit, rejAt, resAt, rej, res
      <4> QED
        BY <1>6, <1>7, <1>8, <2>3
    <3> HIDE DEF matched, ts, unfit, rejAt, resAt, rej, res
    <3> QED
      BY <3>1, <3>2
  <2> QED
    BY <2>1, <2>2, <2>3
<1>15. Clears(rej, res, unfit, gone)
  <2>1. Settle(rej, res, unfit, unfit # {})
    BY <1>1
  <2>2. unfit # {} /\ ~overlapped => \A t \in Calls : transport[t] = "open" => t \in unfit
    <3>1. ~overlapped => \A t \in Calls : transport[t] = "open" => t \in ts
      BY <1>1, SoleProcess
    <3>2. ~overlapped => \A t, u \in Calls : transport[t] = "open" /\ transport[u] = "open" => t = u
      BY DEF SoleInv
    <3> HIDE DEF ts, unfit
    <3> QED
      BY <1>2, <3>1, <3>2
  <2> DEFINE lost == unfit # {}
  <2>3. lost \in BOOLEAN /\ Settle(rej, res, unfit, lost) /\ gone = Lost(lost)
    BY <2>1
  <2>4. (\A t \in unfit : lost) /\ (lost /\ ~overlapped => \A t \in Calls : transport[t] = "open" => t \in unfit)
    BY <2>2
  <2> HIDE DEF rej, res, unfit, gone, lost
  <2> QED
    BY <2>3, <2>4 DEF Clears
<1>16. SettledProcesses(unfit)
  <2> HIDE DEF unfit
  <2> QED
    BY <1>1, ProcessesUnchanged
<1>17. SettledRest(rej, res)
  <2>1. asked' \in [Processes -> SUBSET Requests] /\ \A r \in Processes : asked'[r] \subseteq asked[r]
    BY <1>1 DEF CodexTypeOK
  <2>2. \A m \in res : ok /\ m.kind = q.kind
    <3>1. \A t \in ts : \A m \in resAt(t) : ok /\ m.kind = q.kind
      OBVIOUS
    <3> HIDE DEF ts, res, resAt
    <3> QED
      BY <1>8, <3>1
  <2>3. q \in Requests /\ (q.kind = "turn/start" => q.call \in Turns)
    BY DEF CodexTypeOK, RequestInv
  <2> HIDE DEF rej, res
  <2>4. follows' \in [Turns -> Turns \cup {None}]
    BY <1>1, <2>2, <2>3 DEF CodexTypeOK
  <2>5. \A c \in Turns :
           IF \E m \in res : m.call = c /\ m.kind = "turn/start"
           THEN follows'[c] # None /\ native[follows'[c]] # "none"
           ELSE follows'[c] = follows[c]
    BY <1>1, <2>2, <2>3, CodexAssumption DEF Calls
  <2>6. native' \in [Turns -> {"none", "running", "ended", "gone"}] /\ UNCHANGED native
    BY <1>1 DEF CodexTypeOK
  <2> QED
    BY <1>1, <2>1, <2>4, <2>5, <2>6 DEF SettledRest
<1>18. gone \in SUBSET Turns
  BY LostTurns
<1>19. UNCHANGED <<via, channelVars, disposed, overlapped, buffer, interrupted, deaf>>
  BY <1>1 DEF channelVars
<1>20. deaf' \subseteq Calls /\ deaf \subseteq deaf'
  BY <1>1 DEF CodexTypeOK
<1>21. unfit \in SUBSET Calls /\ \A t \in unfit : transport[t] = "open"
  BY <1>2
<1>22. \A m \in rej \cup res : via[m.call] \in Calls /\ m \in pending[via[m.call]]
  <2> HIDE DEF ts, rej, res, rejAt, resAt
  <2> QED
    BY <1>2, <1>7, <1>8
<1> HIDE DEF matched, ts, unfit, rejAt, resAt, rej, res, gone
<1>23. Settles(rej, res, unfit, gone)
  BY <1>10, <1>12, <1>13, <1>14, <1>15, <1>16, <1>17, <1>19, <1>20, <1>21, <1>22 DEF Settles
<1> QED
  BY <1>9, <1>18, <1>21, <1>23 DEF SettlingStep

-----------------------------------------------------------------------------
(***************************************************************************)
(* What the other actions leave as it is.                                  *)
(***************************************************************************)

Waiting == {"initializing", "requesting", "sharing"}

\* No invocation stops waiting, and those that wait keep their transport; one may start
\* to share a creation that is under way.
RequestFrame ==
    /\ UNCHANGED <<pending, transport, threads>>
    /\ \A c \in Calls :
          \/ call'[c] = call[c]
          \/ call[c] \notin Waiting /\ call'[c] \notin Waiting
          \/ call[c] \notin Waiting /\ call'[c] = "sharing" /\ threads[via'[c]] = "creating"
    /\ \A c \in Calls : call[c] \in Waiting => via'[c] = via[c]
    /\ nextId' \in [Calls -> Nat] /\ \A t \in Calls : nextId[t] <= nextId'[t]
    /\ asked' = asked

LEMMA RequestFrameKeeps ==
    ASSUME CodexTypeOK, RequestInv, RequestFrame
    PROVE  RequestInv'
<1>1. ASSUME NEW t \in Calls, NEW m \in pending[t] PROVE Fits(m, t)'
  <2>1. Fits(m, t) /\ m.call \in Calls /\ m.kind \in Kinds /\ m.id \in Nat
    BY PendingTyped DEF RequestInv
  <2>2. call[m.call] \in Waiting
    BY <2>1 DEF Fits, Waiting
  <2>3. call'[m.call] = call[m.call] /\ via'[m.call] = via[m.call]
    BY <2>1, <2>2 DEF RequestFrame
  <2>4. m.id < nextId'[t]
    BY <2>1 DEF Fits, RequestFrame, CodexTypeOK
  <2> QED
    BY <2>1, <2>3, <2>4 DEF Fits, RequestFrame
<1>2. ASSUME NEW c \in Calls, call'[c] \in Waiting
      PROVE  \/ call[c] = call'[c] /\ via'[c] = via[c]
             \/ call'[c] = "sharing" /\ threads[via'[c]] = "creating"
  BY <1>2 DEF RequestFrame
<1>3. UNCHANGED <<pending, transport, threads, asked>>
  BY DEF RequestFrame
<1>4. \A t \in Calls : \A m, n \in pending[t] : Alone(m, n)'
  BY DEF RequestInv, Alone
<1>5. ASSUME NEW c \in Calls, call'[c] \in {"initializing", "requesting"}
      PROVE  \E m \in pending'[via'[c]] : m.call = c
  BY <1>2, <1>3, <1>5 DEF RequestInv, Waiting
<1>6. ASSUME NEW c \in Calls, call'[c] = "sharing" PROVE threads'[via'[c]] = "creating"
  BY <1>2, <1>3, <1>6 DEF RequestInv, Waiting
<1> QED
  BY <1>1, <1>3, <1>4, <1>5, <1>6 DEF RequestInv

\* The streams are left alone: no turn of theirs starts to run, and what ended keeps its
\* transport.
StreamFrame ==
    /\ UNCHANGED <<buffer, follows, ended, idle, interrupted, native>>
    /\ \A c \in Turns : \/ call'[c] = call[c]
                        \/ /\ call[c] \in {"idle", "starting", "initialized", "opened"}
                           /\ call'[c] \notin {"answered", "running"}
    /\ \A c \in Calls : call[c] = "done" => via'[c] = via[c]
    /\ \A t \in Calls : transport'[t] = transport[t] \/ transport[t] = "none"
    /\ overlapped => overlapped'

LEMMA StreamFrameKeeps ==
    ASSUME CodexTypeOK, PlaceInv, TurnInv, HonestOutcome, StalledIsInterrupted, StreamFrame
    PROVE  TurnInv' /\ HonestOutcome' /\ StalledIsInterrupted'
<1>1. UNCHANGED <<buffer, follows, ended, idle, interrupted, native>>
  BY DEF StreamFrame
<1>2. ASSUME NEW c \in Turns PROVE TurnOf(c)' /\ BufferedEnds(c)'
  <2>1. TurnOf(c) /\ BufferedEnds(c)
    BY DEF TurnInv
  <2>2. TurnOf(c)'
    BY <1>1, <2>1 DEF TurnOf, StreamFrame
  <2>3. BufferedEnds(c)'
    BY <1>1, <2>1 DEF BufferedEnds
  <2> QED
    BY <2>2, <2>3
<1>3. HonestOutcome'
  BY <1>1 DEF HonestOutcome
<1>4. ASSUME NEW c \in Turns, ended'[c] = "unknown", transport'[via'[c]] = "open", ~overlapped'
      PROVE  native'[follows'[c]] # "running" \/ follows'[c] \in interrupted'
  <2>1. c \in Calls /\ call[c] = "done" /\ PlaceOf(c) /\ ~overlapped
    BY <1>1, <1>4 DEF TurnInv, TurnOf, PlaceInv, StreamFrame, Calls
  <2>2. via'[c] = via[c] /\ via[c] \in Calls /\ transport[via[c]] # "none"
    BY <2>1 DEF StreamFrame, PlaceOf, Placed, CodexTypeOK
  <2>3. transport[via[c]] = "open"
    BY <1>4, <2>2 DEF StreamFrame
  <2> QED
    BY <1>1, <1>4, <2>1, <2>3 DEF StalledIsInterrupted
<1> QED
  BY <1>2, <1>3, <1>4 DEF TurnInv, StalledIsInterrupted

\* A session is opened on a transport of its own, which nobody used.
LEMMA HandshakeKeeps ==
    ASSUME CodexTypeOK, PlaceInv, RequestInv, ChannelInv,
           NEW c \in Calls, NEW p \in Processes, call[c] \in {"idle", "starting"}, Handshake(c, p),
           process' \in [Processes -> {"unused", "running", "killed", "exited"}],
           process'[p] = "running", \A q \in Processes : process[q] = "running" => process'[q] = "running",
           \A q \in Processes : Up(q) => process'[q] \in {"running", "killed"},
           record' \in {record, p}, UNCHANGED <<malformed, threads, session>>
    PROVE  /\ ChannelInv' /\ PlaceInv' /\ RequestInv'
           /\ call' \in [Calls -> {"idle", "starting", "initializing", "initialized", "opened",
                                  "sharing", "requesting", "answered", "running", "done", "failed"}]
           /\ via' \in [Calls -> Calls \cup {None}]
           /\ transport' \in [Calls -> {"none", "open", "drained"}]
           /\ on' \in [Calls -> Processes \cup {None}] /\ nextId' \in [Calls -> Nat]
           /\ pending' \in [Calls -> SUBSET Requests] /\ asked' \in [Processes -> SUBSET Requests]
<1> DEFINE q == [id |-> 1, kind |-> "initialize", call |-> c]
<1>1. /\ transport' = [transport EXCEPT ![c] = "open"]
      /\ on' = [on EXCEPT ![c] = p]
      /\ pending' = [pending EXCEPT ![c] = {q}]
      /\ asked' = [asked EXCEPT ![p] = @ \cup {q}]
      /\ nextId' = [nextId EXCEPT ![c] = 2]
      /\ via' = [via EXCEPT ![c] = c]
      /\ call' = [call EXCEPT ![c] = "initializing"]
  BY DEF Handshake
<1>2. q \in Requests /\ q.id = 1 /\ q.kind = "initialize" /\ q.call = c
  BY DEF Requests, Kinds
<1> HIDE DEF q
<1>3. via[c] = None /\ transport[c] = "none" /\ c # None
  BY CodexAssumption DEF PlaceInv, PlaceOf
<1>4. /\ call' \in [Calls -> {"idle", "starting", "initializing", "initialized", "opened",
                            "sharing", "requesting", "answered", "running", "done", "failed"}]
      /\ via' \in [Calls -> Calls \cup {None}]
      /\ transport' \in [Calls -> {"none", "open", "drained"}]
      /\ on' \in [Calls -> Processes \cup {None}] /\ nextId' \in [Calls -> Nat]
  BY <1>1 DEF CodexTypeOK
<1>5. pending' \in [Calls -> SUBSET Requests] /\ asked' \in [Processes -> SUBSET Requests]
  BY <1>1, <1>2 DEF CodexTypeOK
<1>6. /\ call'[c] = "initializing" /\ via'[c] = c /\ transport'[c] = "open" /\ on'[c] = p
      /\ nextId'[c] = 2 /\ pending'[c] = {q}
  BY <1>1 DEF CodexTypeOK
<1>7. \A d \in Calls \ {c} : /\ call'[d] = call[d] /\ via'[d] = via[d] /\ on'[d] = on[d]
                            /\ transport'[d] = transport[d] /\ nextId'[d] = nextId[d]
                            /\ pending'[d] = pending[d]
  BY <1>1 DEF CodexTypeOK
\* Nobody uses a transport that was not opened.
<1>8. \A d \in Calls : via[d] # c
  BY <1>3 DEF PlaceInv, PlaceOf
<1>9. ChannelInv'
  <2>1. ASSUME NEW t \in Calls, transport'[t] = "open"
        PROVE  on'[t] \in Processes /\ process'[on'[t]] \in {"running", "killed"}
    BY <1>6, <1>7, <2>1 DEF ChannelInv, Up
  <2>2. ASSUME NEW t \in Calls
        PROVE  /\ transport'[t] = "open" => malformed'[t] <= MalformedLimit
               /\ transport'[t] = "none" => malformed'[t] = 0
    BY <1>3, <1>6, <1>7, CodexAssumption DEF ChannelInv
  <2>3. record' # None => process'[record'] = "running"
    BY DEF ChannelInv, CodexTypeOK
  <2> QED
    BY <2>1, <2>2, <2>3 DEF ChannelInv, Up
<1>10. PlaceInv'
  <2>1. ASSUME NEW d \in Calls PROVE PlaceOf(d)'
    <3>1. CASE d = c
      BY <1>3, <1>6, <3>1 DEF PlaceOf, Placed
    <3>2. CASE d # c
      <4>1. PlaceOf(d) /\ via[d] \in Calls \cup {None} /\ via[d] # c
        BY <1>8 DEF PlaceInv, CodexTypeOK
      <4>2. via[d] # None => /\ transport'[via[d]] = transport[via[d]]
                             /\ call'[via[d]] = call[via[d]]
        BY <1>7, <4>1
      <4> QED
        BY <1>7, <3>2, <4>1, <4>2 DEF PlaceOf
    <3> QED
      BY <3>1, <3>2
  <2>2. session # None => session \in Calls \ {c}
    BY <1>3 DEF PlaceInv, CodexTypeOK
  <2> QED
    BY <1>7, <2>1, <2>2 DEF PlaceInv
<1>11. RequestInv'
  <2>1. ASSUME NEW t \in Calls \ {c}, NEW m \in pending[t] PROVE Fits(m, t)'
    <3>1. Fits(m, t) /\ m.call \in Calls
      BY PendingTyped DEF RequestInv
    <3>2. m.call # c
      BY <3>1 DEF Fits
    <3> QED
      BY <1>7, <3>1, <3>2 DEF Fits
  <2>2. Fits(q, c)'
    BY <1>2, <1>6 DEF Fits
  <2>3. \A t \in Calls : \A m \in pending'[t] : Fits(m, t)'
    BY <1>6, <1>7, <2>1, <2>2
  <2>4. \A t \in Calls : \A m, n \in pending'[t] : Alone(m, n)
    BY <1>6, <1>7 DEF RequestInv, Alone
  <2>5. ASSUME NEW d \in Calls, call'[d] \in {"initializing", "requesting"}
        PROVE  \E m \in pending'[via'[d]] : m.call = d
    <3>1. CASE d = c
      BY <1>2, <1>6, <3>1
    <3>2. CASE d # c
      <4>1. call[d] \in {"initializing", "requesting"} /\ PlaceOf(d)
        BY <1>7, <2>5, <3>2 DEF PlaceInv
      <4>2. via'[d] = via[d] /\ via[d] \in Calls \ {c}
        BY <1>7, <1>8, <3>2, <4>1 DEF PlaceOf, Placed, CodexTypeOK
      <4> QED
        BY <1>7, <4>1, <4>2 DEF RequestInv
    <3> QED
      BY <3>1, <3>2
  <2>6. ASSUME NEW d \in Calls, call'[d] = "sharing" PROVE threads'[via'[d]] = "creating"
    BY <1>6, <1>7, <2>6 DEF RequestInv
  <2>7. ASSUME NEW t \in Calls, threads'[t] = "creating"
        PROVE  \E m \in pending'[t] : m.kind = "thread/start"
    <3>1. PICK m \in pending[t] : m.kind = "thread/start"
      BY <2>7 DEF RequestInv
    <3>2. t # c
      BY <1>3, <3>1 DEF RequestInv, Fits
    <3> QED
      BY <1>7, <3>1, <3>2
  <2>8. \A r \in Processes : \A m \in asked'[r] : m.kind = "turn/start" => m.call \in Turns
    BY <1>1, <1>2 DEF RequestInv, CodexTypeOK
  <2> QED
    BY <2>3, <2>4, <2>5, <2>6, <2>7, <2>8 DEF RequestInv
<1> QED
  BY <1>4, <1>5, <1>9, <1>10, <1>11

\* The channels and the sessions are left alone, and invocations move on along the way
\* that follows their opening.
QuietFrame ==
    /\ UNCHANGED <<process, record, session, disposed, overlapped, via, transport, on, malformed,
                   deaf>>
    /\ \A c \in Calls :
          \/ call'[c] = call[c]
          \/ /\ call[c] \in Placed /\ call'[c] \in Placed \cup {"failed"}
             /\ call'[c] \in {"answered", "running"} => c \in Turns
             /\ call'[c] = "sharing" => c \in Ensures

LEMMA QuietFrameKeeps ==
    ASSUME CodexTypeOK, ChannelInv, PlaceInv, SoleInv, SessionIsOpen, QuietFrame
    PROVE  ChannelInv' /\ PlaceInv' /\ SoleInv' /\ SessionIsOpen'
<1>1. UNCHANGED <<process, record, session, disposed, overlapped, via, transport, on, malformed, deaf>>
  BY DEF QuietFrame
<1>2. ChannelInv'
  BY <1>1 DEF ChannelInv, Up
<1>3. \A c \in Calls : call'[c] \in Early => call'[c] = call[c]
  BY DEF QuietFrame, Placed, Early
<1>4. \A c \in Calls : call[c] \in Early => call'[c] = call[c]
  BY DEF QuietFrame, Placed, Early
<1>5. PlaceInv'
  <2>1. ASSUME NEW c \in Calls PROVE PlaceOf(c)'
    <3>1. PlaceOf(c) /\ via[c] \in Calls \cup {None}
      BY DEF PlaceInv, CodexTypeOK
    <3>2. via[c] # None /\ via[c] # c => call'[via[c]] \notin Early
      BY <1>3, <3>1 DEF PlaceOf
    <3>3. /\ call'[c] \in {"idle", "starting"} => via[c] = None
          /\ call'[c] \in {"initializing", "initialized"} => via[c] = c
      BY <1>3, <3>1 DEF PlaceOf, Early
    <3>4. /\ call'[c] \in Placed => via[c] # None
          /\ call'[c] \in {"answered", "running"} => c \in Turns
          /\ call'[c] = "sharing" => c \in Ensures
      BY <3>1 DEF PlaceOf, QuietFrame
    <3> QED
      BY <1>1, <3>1, <3>2, <3>3, <3>4 DEF PlaceOf
  <2>2. session # None => call'[session] \notin Early
    BY <1>3 DEF PlaceInv, CodexTypeOK
  <2> QED
    BY <1>1, <2>1, <2>2 DEF PlaceInv
<1>6. SoleInv'
  <2>1. Opening' = Opening
    BY <1>3, <1>4 DEF Opening, Early
  <2>2. \A c \in Calls : call'[c] = "starting" => call[c] = "starting"
    BY <1>3 DEF Early
  <2> QED
    BY <1>1, <2>1, <2>2 DEF SoleInv, Up
<1>7. SessionIsOpen'
  BY <1>1 DEF SessionIsOpen
<1> QED
  BY <1>2, <1>5, <1>6, <1>7

\* A request gets the next number of its transport.
LEMMA AskKeeps ==
    ASSUME CodexTypeOK, ChannelInv, RequestInv,
           NEW c \in Calls, NEW t \in Calls, NEW kind \in Kinds,
           via[c] = t, transport[t] = "open", call[c] = "opened", Ask(t, kind, c),
           call' = [call EXCEPT ![c] = "requesting"],
           threads' = [threads EXCEPT ![t] = IF @ = "none" /\ kind = "thread/start" THEN "creating" ELSE @],
           kind = "thread/start" => threads[t] = "none", kind # "initialize",
           kind = "turn/start" => c \in Turns,
           kind \in {"thread/start", "thread/resume"} => c \in Ensures,
           UNCHANGED <<via, transport>>
    PROVE  /\ RequestInv'
           /\ pending' \in [Calls -> SUBSET Requests] /\ nextId' \in [Calls -> Nat]
           /\ asked' \in [Processes -> SUBSET Requests]
           /\ threads' \in [Calls -> {"none", "creating", "known"}]
           /\ call' \in [Calls -> {"idle", "starting", "initializing", "initialized", "opened",
                                  "sharing", "requesting", "answered", "running", "done", "failed"}]
<1>0. [id |-> nextId[t], kind |-> kind, call |-> c] \in Requests
  BY DEF Requests, CodexTypeOK
<1>1. PICK q \in Requests :
         /\ q = [id |-> nextId[t], kind |-> kind, call |-> c]
         /\ pending' = [pending EXCEPT ![t] = @ \cup {q}]
         /\ asked' = [asked EXCEPT ![on[t]] = @ \cup {q}]
         /\ nextId' = [nextId EXCEPT ![t] = @ + 1]
  BY <1>0 DEF Ask
<1>2. q.id = nextId[t] /\ q.kind = kind /\ q.call = c
  BY <1>1
<1>3. on[t] \in Processes /\ nextId[t] \in Nat
  BY DEF ChannelInv, CodexTypeOK
<1>4. /\ pending' \in [Calls -> SUBSET Requests] /\ nextId' \in [Calls -> Nat]
      /\ asked' \in [Processes -> SUBSET Requests]
      /\ threads' \in [Calls -> {"none", "creating", "known"}]
  BY <1>1, <1>2, <1>3 DEF CodexTypeOK
<1>5. call' \in [Calls -> {"idle", "starting", "initializing", "initialized", "opened",
                          "sharing", "requesting", "answered", "running", "done", "failed"}]
  BY DEF CodexTypeOK
<1>6. /\ call'[c] = "requesting" /\ pending'[t] = pending[t] \cup {q} /\ nextId'[t] = nextId[t] + 1
      /\ \A d \in Calls \ {c} : call'[d] = call[d]
      /\ \A u \in Calls \ {t} : /\ pending'[u] = pending[u] /\ nextId'[u] = nextId[u]
                              /\ threads'[u] = threads[u]
  BY <1>1 DEF CodexTypeOK
<1>7. /\ kind = "thread/start" => threads'[t] = "creating"
      /\ kind # "thread/start" => threads'[t] = threads[t]
      /\ threads[t] = "creating" => threads'[t] = "creating"
  BY DEF CodexTypeOK
<1>8. ASSUME NEW u \in Calls, NEW m \in pending[u]
      PROVE  /\ Fits(m, u)' /\ m.call # c
             /\ u = t => m.id # q.id /\ (kind = "thread/start" => m.kind # "thread/start")
  <2>1. Fits(m, u) /\ m.call \in Calls /\ m.id \in Nat
    BY PendingTyped DEF RequestInv
  <2>2. m.call # c
    BY <2>1 DEF Fits
  <2>3. u = t => m.id # q.id /\ (kind = "thread/start" => m.kind # "thread/start")
    BY <1>2, <1>3, <2>1 DEF Fits
  <2>4. m.id < nextId'[u]
    BY <1>3, <1>6, <2>1 DEF Fits
  <2>5. m.kind = "thread/start" => threads'[u] = "creating"
    BY <1>6, <1>7, <2>1 DEF Fits
  <2>6. call'[m.call] = call[m.call]
    BY <1>6, <2>1, <2>2
  <2>7. Fits(m, u)'
    BY <2>1, <2>4, <2>5, <2>6 DEF Fits
  <2> QED
    BY <2>2, <2>3, <2>7
<1>9. Fits(q, t)'
  <2>1. /\ transport'[t] = "open" /\ via'[q.call] = t /\ call'[q.call] = "requesting"
        /\ q.id < nextId'[t]
    BY <1>2, <1>3, <1>6
  <2>2. /\ q.kind # "initialize" /\ (q.kind = "turn/start" => q.call \in Turns)
        /\ q.kind \in {"thread/start", "thread/resume"} => q.call \in Ensures
        /\ q.kind = "thread/start" => threads'[t] = "creating"
    BY <1>2, <1>7
  <2> QED
    BY <2>1, <2>2 DEF Fits
<1>10. ASSUME NEW u \in Calls, NEW m \in pending'[u] PROVE Fits(m, u)'
  <2>1. m \in pending[u] \/ (u = t /\ m = q)
    BY <1>6
  <2> QED
    BY <1>8, <1>9, <2>1
<1>11. \A u \in Calls : \A m, n \in pending'[u] : Alone(m, n)
  <2>1. \A m \in pending[t] : Alone(m, q) /\ Alone(q, m)
    BY <1>2, <1>8 DEF Alone
  <2>2. Alone(q, q)
    BY DEF Alone
  <2> QED
    BY <1>6, <2>1, <2>2 DEF RequestInv
<1>12. \A d \in Calls : call'[d] \in {"initializing", "requesting"} => \E m \in pending'[via'[d]] : m.call = d
  <2> SUFFICES ASSUME NEW d \in Calls, call'[d] \in {"initializing", "requesting"}
               PROVE  \E m \in pending'[via[d]] : m.call = d
    OBVIOUS
  <2>1. CASE d = c
    BY <1>2, <1>6, <2>1
  <2>2. CASE d # c
    <3>1. PICK m \in pending[via[d]] : m.call = d
      BY <1>6, <2>2 DEF RequestInv
    <3>2. m \in pending'[via[d]]
      BY <1>1, <3>1 DEF CodexTypeOK
    <3> QED
      BY <3>1, <3>2
  <2> QED
    BY <2>1, <2>2
<1>13. \A d \in Calls : call'[d] = "sharing" => threads'[via'[d]] = "creating"
  <2> SUFFICES ASSUME NEW d \in Calls, call'[d] = "sharing" PROVE threads'[via[d]] = "creating"
    OBVIOUS
  <2>1. call[d] = "sharing" /\ threads[via[d]] = "creating"
    BY <1>6 DEF RequestInv
  <2> QED
    BY <2>1 DEF CodexTypeOK
<1>14. ASSUME NEW u \in Calls, threads'[u] = "creating"
       PROVE  \E m \in pending'[u] : m.kind = "thread/start"
  <2>1. CASE threads[u] = "creating"
    BY <1>6, <2>1 DEF RequestInv
  <2>2. CASE threads[u] # "creating"
    BY <1>2, <1>6, <1>7, <1>14, <2>2
  <2> QED
    BY <2>1, <2>2
<1>15. \A p \in Processes : \A m \in asked'[p] : m.kind = "turn/start" => m.call \in Turns
  BY <1>1, <1>2, <1>3 DEF RequestInv, CodexTypeOK
<1>16. RequestInv'
  BY <1>10, <1>11, <1>12, <1>13, <1>14, <1>15 DEF RequestInv, Alone
<1> QED
  BY <1>4, <1>5, <1>16

-----------------------------------------------------------------------------
(***************************************************************************)
(* Each of the other actions keeps the invariant.                          *)
(***************************************************************************)

LEMMA InvokeKeeps ==
    ASSUME ProviderInv, NEW c \in Calls, Invoke(c)
    PROVE  ProviderInv'
<1> USE DEF ProviderInv
<1>1. /\ call[c] = "idle" /\ via[c] = None /\ transport[c] = "none" /\ c # None /\ ~disposed
      /\ UNCHANGED <<process, record, disposed, session, listening, malformed, threads, active,
                     buffer, follows, ended, idle, interrupted, native, deaf>>
  BY CodexAssumption DEF Invoke, streamVars, PlaceInv, PlaceOf
\* Nobody uses the transport of an invocation that was not made.
<1>2. \A d \in Calls : via[d] # c
  BY <1>1 DEF PlaceInv, PlaceOf
<1>3. CASE session # None /\ call' = [call EXCEPT ![c] = "opened"] /\ via' = [via EXCEPT ![c] = session]
           /\ UNCHANGED <<transport, on, pending, asked, nextId, overlapped>>
  <2>1. /\ call'[c] = "opened" /\ via'[c] = session /\ session \in Calls \ {c}
        /\ \A d \in Calls \ {c} : call'[d] = call[d] /\ via'[d] = via[d]
    BY <1>1, <1>3 DEF CodexTypeOK, PlaceInv
  <2>2. CodexTypeOK'
    <3>1. /\ call' \in [Calls -> {"idle", "starting", "initializing", "initialized", "opened",
                                "sharing", "requesting", "answered", "running", "done", "failed"}]
          /\ via' \in [Calls -> Calls \cup {None}]
      BY <1>3, <2>1 DEF CodexTypeOK
    <3> QED
      BY <1>1, <1>3, <3>1 DEF CodexTypeOK
  <2>3. ChannelInv' /\ SessionIsOpen'
    BY <1>1, <1>3 DEF ChannelInv, SessionIsOpen, Up
  <2>4. PlaceInv'
    <3>1. ASSUME NEW d \in Calls PROVE PlaceOf(d)'
      <4>1. CASE d = c
        BY <1>1, <1>3, <2>1, <4>1 DEF PlaceOf, PlaceInv, Placed
      <4>2. CASE d # c
        <5>1. PlaceOf(d) /\ via[d] \in Calls \cup {None} /\ via[d] # c
          BY <1>2 DEF PlaceInv, CodexTypeOK
        <5> QED
          BY <1>3, <2>1, <4>2, <5>1 DEF PlaceOf
      <4> QED
        BY <4>1, <4>2
    <3> QED
      BY <1>1, <1>3, <2>1, <3>1 DEF PlaceInv
  <2>5. RequestInv'
    <3>1. RequestFrame
      BY <1>1, <1>3, <2>1 DEF RequestFrame, Waiting, CodexTypeOK
    <3> QED
      BY <3>1, RequestFrameKeeps
  <2>6. TurnInv' /\ HonestOutcome' /\ StalledIsInterrupted'
    <3>1. StreamFrame
      BY <1>1, <1>3, <2>1 DEF StreamFrame, Calls
    <3> QED
      BY <3>1, StreamFrameKeeps
  <2>7. SoleInv'
    <3>1. Opening' = Opening /\ \A d \in Calls : call'[d] = "starting" => call[d] = "starting"
      BY <1>1, <2>1 DEF Opening
    <3> QED
      BY <1>1, <1>3, <3>1 DEF SoleInv, Up
  <2> QED
    BY <2>2, <2>3, <2>4, <2>5, <2>6, <2>7
<1>4. CASE session = None /\ record # None /\ Handshake(c, record)
           /\ overlapped' = (overlapped \/ Opening # {})
  <2>1. record \in Processes /\ process[record] = "running"
    BY <1>4 DEF ChannelInv, CodexTypeOK
  <2>2. \A q \in Processes : Up(q) => process'[q] \in {"running", "killed"}
    BY <1>1 DEF Up
  <2>3. process' \in [Processes -> {"unused", "running", "killed", "exited"}]
    BY <1>1 DEF CodexTypeOK
  <2>4. /\ ChannelInv' /\ PlaceInv' /\ RequestInv'
        /\ call' \in [Calls -> {"idle", "starting", "initializing", "initialized", "opened",
                               "sharing", "requesting", "answered", "running", "done", "failed"}]
        /\ via' \in [Calls -> Calls \cup {None}]
        /\ transport' \in [Calls -> {"none", "open", "drained"}]
        /\ on' \in [Calls -> Processes \cup {None}] /\ nextId' \in [Calls -> Nat]
        /\ pending' \in [Calls -> SUBSET Requests] /\ asked' \in [Processes -> SUBSET Requests]
    BY <1>1, <1>4, <2>1, <2>2, <2>3, HandshakeKeeps
  <2>5. CodexTypeOK'
    BY <1>1, <1>4, <2>4 DEF CodexTypeOK
  <2>6. /\ call'[c] = "initializing" /\ transport'[c] = "open"
        /\ \A d \in Calls \ {c} : /\ call'[d] = call[d] /\ via'[d] = via[d]
                                /\ transport'[d] = transport[d]
    BY <1>4 DEF Handshake, CodexTypeOK
  <2>7. TurnInv' /\ HonestOutcome' /\ StalledIsInterrupted'
    <3>1. StreamFrame
      BY <1>1, <1>4, <2>6 DEF StreamFrame, Calls
    <3> QED
      BY <3>1, StreamFrameKeeps
  <2>8. SoleInv'
    <3> SUFFICES ASSUME ~overlapped' PROVE SoleInv'
      BY DEF SoleInv
    <3>1. ~overlapped /\ Opening = {}
      BY <1>4
    <3>2. \A d \in Calls : d \in Opening' <=> d = c
      BY <2>6, <3>1 DEF Opening
    <3>3. \A t \in Calls : transport'[t] = "open" => t = c
      <4>1. \A t \in Calls : transport[t] = "open" => session = t
        BY <1>1, <3>1 DEF SoleInv
      <4> QED
        BY <1>4, <2>6, <4>1, CodexAssumption
    <3>4. \A d \in Calls : call'[d] # "starting"
      BY <2>6, <3>1 DEF Opening
    <3>5. Opening' \subseteq Calls
      BY DEF Opening
    <3> QED
      BY <1>1, <1>4, <3>1, <3>2, <3>3, <3>4, <3>5 DEF SoleInv, Up
  <2>9. SessionIsOpen'
    BY <1>1, <1>4 DEF SessionIsOpen
  <2> QED
    BY <2>4, <2>5, <2>7, <2>8, <2>9
<1>5. CASE session = None /\ record = None /\ call' = [call EXCEPT ![c] = "starting"]
           /\ overlapped' = (overlapped \/ Opening # {})
           /\ UNCHANGED <<via, transport, on, pending, asked, nextId>>
  <2>1. call'[c] = "starting" /\ \A d \in Calls \ {c} : call'[d] = call[d]
    BY <1>5 DEF CodexTypeOK
  <2>2. CodexTypeOK'
    <3>1. call' \in [Calls -> {"idle", "starting", "initializing", "initialized", "opened",
                              "sharing", "requesting", "answered", "running", "done", "failed"}]
      BY <1>5 DEF CodexTypeOK
    <3> QED
      BY <1>1, <1>5, <3>1 DEF CodexTypeOK
  <2>3. ChannelInv' /\ SessionIsOpen'
    BY <1>1, <1>5 DEF ChannelInv, SessionIsOpen, Up
  <2>4. PlaceInv'
    <3>1. ASSUME NEW d \in Calls PROVE PlaceOf(d)'
      <4>1. CASE d = c
        BY <1>1, <1>5, <2>1, <4>1 DEF PlaceOf, Placed
      <4>2. CASE d # c
        <5>1. PlaceOf(d) /\ via[d] \in Calls \cup {None} /\ via[d] # c
          BY <1>2 DEF PlaceInv, CodexTypeOK
        <5> QED
          BY <1>5, <2>1, <4>2, <5>1 DEF PlaceOf
      <4> QED
        BY <4>1, <4>2
    <3> QED
      BY <1>1, <1>5, <3>1 DEF PlaceInv
  <2>5. RequestInv'
    <3>1. RequestFrame
      BY <1>1, <1>5, <2>1 DEF RequestFrame, Waiting, CodexTypeOK
    <3> QED
      BY <3>1, RequestFrameKeeps
  <2>6. TurnInv' /\ HonestOutcome' /\ StalledIsInterrupted'
    <3>1. StreamFrame
      BY <1>1, <1>5, <2>1 DEF StreamFrame, Calls
    <3> QED
      BY <3>1, StreamFrameKeeps
  <2>7. SoleInv'
    <3> SUFFICES ASSUME ~overlapped' PROVE SoleInv'
      BY DEF SoleInv
    <3>1. ~overlapped /\ Opening = {}
      BY <1>5
    <3>2. \A d \in Calls : d \in Opening' <=> d = c
      BY <2>1, <3>1 DEF Opening
    <3>3. \A p \in Processes : ~Up(p)
      BY <1>1, <1>5, <3>1, CodexAssumption DEF SoleInv
    <3>4. \A t \in Calls : transport[t] # "open"
      BY <3>3 DEF ChannelInv
    <3>5. Opening' \subseteq Calls
      BY DEF Opening
    <3>6. \A p \in Processes : ~Up(p)'
      BY <1>1, <3>3 DEF Up
    <3> QED
      BY <1>1, <1>5, <3>1, <3>2, <3>4, <3>5, <3>6 DEF SoleInv
  <2> QED
    BY <2>2, <2>3, <2>4, <2>5, <2>6, <2>7
<1> QED
  BY <1>3, <1>4, <1>5 DEF Invoke

LEMMA SpawnedKeeps ==
    ASSUME ProviderInv, NEW c \in Calls, Spawned(c)
    PROVE  ProviderInv'
<1> USE DEF ProviderInv
<1>1. PICK p \in Processes :
         /\ process[p] \in {"unused", "exited"}
         /\ process' = [process EXCEPT ![p] = "running"]
         /\ record' = p
         /\ Handshake(c, p)
  BY DEF Spawned
<1>2. /\ call[c] = "starting"
      /\ UNCHANGED <<disposed, overlapped, session, listening, malformed, threads, active,
                     buffer, follows, ended, idle, interrupted, native, deaf>>
  BY DEF Spawned, streamVars
<1>3. /\ process' \in [Processes -> {"unused", "running", "killed", "exited"}]
      /\ process'[p] = "running" /\ \A q \in Processes \ {p} : process'[q] = process[q]
  BY <1>1 DEF CodexTypeOK
<1>4. /\ \A q \in Processes : process[q] = "running" => process'[q] = "running"
      /\ \A q \in Processes : Up(q) => process'[q] \in {"running", "killed"}
  BY <1>1, <1>3 DEF Up
<1>5. /\ ChannelInv' /\ PlaceInv' /\ RequestInv'
      /\ call' \in [Calls -> {"idle", "starting", "initializing", "initialized", "opened",
                             "sharing", "requesting", "answered", "running", "done", "failed"}]
      /\ via' \in [Calls -> Calls \cup {None}]
      /\ transport' \in [Calls -> {"none", "open", "drained"}]
      /\ on' \in [Calls -> Processes \cup {None}] /\ nextId' \in [Calls -> Nat]
      /\ pending' \in [Calls -> SUBSET Requests] /\ asked' \in [Processes -> SUBSET Requests]
  BY <1>1, <1>2, <1>3, <1>4, HandshakeKeeps
<1>6. CodexTypeOK'
  BY <1>1, <1>2, <1>3, <1>5 DEF CodexTypeOK
<1>7. /\ call'[c] = "initializing" /\ transport'[c] = "open"
      /\ \A d \in Calls \ {c} : /\ call'[d] = call[d] /\ via'[d] = via[d]
                              /\ transport'[d] = transport[d]
  BY <1>1 DEF Handshake, CodexTypeOK
<1>8. via[c] = None /\ transport[c] = "none"
  BY <1>2 DEF PlaceInv, PlaceOf
<1>9. TurnInv' /\ HonestOutcome' /\ StalledIsInterrupted'
  <2>1. StreamFrame
    BY <1>2, <1>7, <1>8 DEF StreamFrame, Calls
  <2> QED
    BY <2>1, StreamFrameKeeps
<1>10. SoleInv'
  <2> SUFFICES ASSUME ~overlapped' PROVE SoleInv'
    BY DEF SoleInv
  <2>1. ~overlapped /\ c \in Opening
    BY <1>2 DEF Opening
  <2>2. \A q \in Processes : ~Up(q)
    BY <1>2, <2>1 DEF SoleInv
  <2>3. \A d \in Calls : d \in Opening' <=> d = c
    BY <1>7, <2>1 DEF Opening, SoleInv
  <2>4. \A t \in Calls : transport'[t] = "open" => t = c
    BY <1>7, <2>2 DEF ChannelInv
  <2>5. \A d \in Calls : call'[d] # "starting"
    BY <2>3, <1>7 DEF Opening
  <2>6. session' = None
    BY <1>2, <2>1 DEF SoleInv
  <2>7. \A q \in Processes : Up(q)' => q = p
    BY <1>3, <2>2 DEF Up
  <2>8. Opening' \subseteq Calls
    BY DEF Opening
  <2> QED
    BY <1>1, <2>3, <2>4, <2>5, <2>6, <2>7, <2>8 DEF SoleInv
<1>11. SessionIsOpen'
  BY <1>2, <1>7, <1>8 DEF SessionIsOpen, PlaceInv, CodexTypeOK
<1> QED
  BY <1>5, <1>6, <1>9, <1>10, <1>11

LEMMA ExecutableMissingKeeps ==
    ASSUME ProviderInv, NEW c \in Calls, ExecutableMissing(c)
    PROVE  ProviderInv'
<1> USE DEF ProviderInv
<1>1. /\ call[c] = "starting" /\ call' = [call EXCEPT ![c] = "failed"]
      /\ UNCHANGED <<process, record, disposed, overlapped, session, via, transport, on, listening,
                     nextId, malformed, pending, threads, active, buffer, follows, ended, idle,
                     interrupted, asked, native, deaf>>
  BY DEF ExecutableMissing, processVars, channelVars, streamVars, appServerVars
<1>2. /\ call'[c] = "failed" /\ (\A d \in Calls \ {c} : call'[d] = call[d])
      /\ via[c] = None /\ transport[c] = "none"
  BY <1>1 DEF CodexTypeOK, PlaceInv, PlaceOf
<1>3. CodexTypeOK'
  <2>1. call' \in [Calls -> {"idle", "starting", "initializing", "initialized", "opened",
                            "sharing", "requesting", "answered", "running", "done", "failed"}]
    BY <1>1 DEF CodexTypeOK
  <2> QED
    BY <1>1, <2>1 DEF CodexTypeOK
<1>4. ChannelInv' /\ SessionIsOpen'
  BY <1>1 DEF ChannelInv, SessionIsOpen, Up
<1>5. PlaceInv'
  <2>1. ASSUME NEW d \in Calls PROVE PlaceOf(d)'
    <3>1. PlaceOf(d) /\ via[d] \in Calls \cup {None}
      BY DEF PlaceInv, CodexTypeOK
    <3>2. via[d] # None /\ via[d] # d => call'[via[d]] \notin Early
      BY <1>2, <3>1 DEF PlaceOf, Early
    <3>3. CASE d = c
      BY <1>1, <1>2, <3>1, <3>3 DEF PlaceOf, Placed
    <3>4. CASE d # c
      BY <1>1, <1>2, <3>1, <3>2, <3>4 DEF PlaceOf
    <3> QED
      BY <3>3, <3>4
  <2>2. session # None => call'[session] \notin Early
    BY <1>2 DEF PlaceInv, Early, CodexTypeOK
  <2> QED
    BY <1>1, <2>1, <2>2 DEF PlaceInv
<1>6. RequestInv'
  <2>1. RequestFrame
    BY <1>1, <1>2 DEF RequestFrame, Waiting, CodexTypeOK
  <2> QED
    BY <2>1, RequestFrameKeeps
<1>7. TurnInv' /\ HonestOutcome' /\ StalledIsInterrupted'
  <2>1. StreamFrame
    BY <1>1, <1>2 DEF StreamFrame, Calls
  <2> QED
    BY <2>1, StreamFrameKeeps
<1>8. SoleInv'
  <2>1. \A d \in Calls : d \in Opening' <=> d \in Opening /\ d # c
    BY <1>2 DEF Opening
  <2>2. \A d \in Calls : call'[d] = "starting" => call[d] = "starting"
    BY <1>2
  <2>3. Opening' \subseteq Calls /\ Opening \subseteq Calls
    BY DEF Opening
  <2> QED
    BY <1>1, <1>2, <2>1, <2>2, <2>3 DEF SoleInv, Up
<1> QED
  BY <1>3, <1>4, <1>5, <1>6, <1>7, <1>8

LEMMA InitializedKeeps ==
    ASSUME ProviderInv, NEW c \in Calls, Initialized(c)
    PROVE  ProviderInv'
<1> USE DEF ProviderInv
<1>1. /\ call[c] = "initialized" /\ call' = [call EXCEPT ![c] = "opened"] /\ session' = c
      /\ listening' = listening \cup {c}
      /\ deaf' = IF transport[c] = "drained" THEN deaf \cup {c} ELSE deaf
      /\ UNCHANGED <<process, record, disposed, overlapped, via, transport, on,
                     nextId, malformed, pending, threads, active, buffer, follows, ended, idle,
                     interrupted, asked, native>>
  BY DEF Initialized, processVars, streamVars, appServerVars
<1>2. /\ call'[c] = "opened" /\ (\A d \in Calls \ {c} : call'[d] = call[d])
      /\ via[c] = c /\ transport[c] # "none" /\ c # None
  BY <1>1, CodexAssumption DEF CodexTypeOK, PlaceInv, PlaceOf
<1>3. CodexTypeOK'
  <2>1. call' \in [Calls -> {"idle", "starting", "initializing", "initialized", "opened",
                            "sharing", "requesting", "answered", "running", "done", "failed"}]
    BY <1>1 DEF CodexTypeOK
  <2> QED
    BY <1>1, <2>1 DEF CodexTypeOK
<1>4. ChannelInv'
  BY <1>1 DEF ChannelInv, Up
<1>5. SessionIsOpen'
  <2>1. transport[c] \in {"open", "drained"}
    BY <1>2 DEF CodexTypeOK
  <2> QED
    BY <1>1, <2>1 DEF SessionIsOpen
<1>6. PlaceInv'
  <2>1. ASSUME NEW d \in Calls PROVE PlaceOf(d)'
    <3>1. PlaceOf(d) /\ via[d] \in Calls \cup {None}
      BY DEF PlaceInv, CodexTypeOK
    <3>2. via[d] # None /\ via[d] # d => call'[via[d]] \notin Early
      BY <1>2, <3>1 DEF PlaceOf, Early
    <3>3. CASE d = c
      BY <1>1, <1>2, <3>1, <3>3 DEF PlaceOf, Placed
    <3>4. CASE d # c
      BY <1>1, <1>2, <3>1, <3>2, <3>4 DEF PlaceOf
    <3> QED
      BY <3>3, <3>4
  <2>2. transport'[c] # "none" /\ call'[c] \notin Early
    BY <1>1, <1>2 DEF Early
  <2> QED
    BY <1>1, <2>1, <2>2 DEF PlaceInv
<1>7. RequestInv'
  <2>1. RequestFrame
    BY <1>1, <1>2 DEF RequestFrame, Waiting, CodexTypeOK
  <2> QED
    BY <2>1, RequestFrameKeeps
<1>8. TurnInv' /\ HonestOutcome' /\ StalledIsInterrupted'
  <2>1. StreamFrame
    BY <1>1, <1>2 DEF StreamFrame, Calls
  <2> QED
    BY <2>1, StreamFrameKeeps
<1>9. SoleInv'
  <2> SUFFICES ASSUME ~overlapped PROVE SoleInv'
    BY <1>1 DEF SoleInv
  <2>1. c \in Opening /\ Opening \subseteq Calls /\ Opening' \subseteq Calls
    BY <1>1 DEF Opening
  <2>2. \A d \in Calls : d \notin Opening'
    BY <1>2, <2>1 DEF Opening, SoleInv
  <2>3. \A d \in Calls : call'[d] = "starting" => call[d] = "starting"
    BY <1>2
  <2>4. \A t \in Calls : transport[t] = "open" => t = c \/ disposed
    BY <2>1, CodexAssumption DEF SoleInv
  <2> QED
    BY <1>1, <2>1, <2>2, <2>3, <2>4 DEF SoleInv, Up
<1> QED
  BY <1>3, <1>4, <1>5, <1>6, <1>7, <1>8, <1>9

LEMMA EnsureThreadKeeps ==
    ASSUME ProviderInv, NEW c \in Calls, EnsureThread(c)
    PROVE  ProviderInv'
<1> USE DEF ProviderInv
<1> DEFINE t == via[c]
           kind == IF threads[t] = "known" THEN "thread/resume" ELSE "thread/start"
<1>1. /\ c \in Ensures /\ call[c] = "opened"
      /\ UNCHANGED <<process, record, disposed, overlapped, session, via, transport, on, listening,
                     malformed, active, buffer, follows, ended, idle, interrupted, native, deaf>>
  BY DEF EnsureThread, processVars, streamVars
<1>2. t \in Calls /\ c \notin Turns
  BY <1>1, CodexAssumption DEF PlaceInv, PlaceOf, Placed, CodexTypeOK
<1>3. ASSUME /\ call' \in [Calls -> {"idle", "starting", "initializing", "initialized", "opened",
                            "sharing", "requesting", "answered", "running", "done", "failed"}]
             /\ pending' \in [Calls -> SUBSET Requests] /\ nextId' \in [Calls -> Nat]
             /\ asked' \in [Processes -> SUBSET Requests]
             /\ threads' \in [Calls -> {"none", "creating", "known"}]
             /\ RequestInv'
             /\ call'[c] \in {"sharing", "requesting", "failed"}
             /\ \A d \in Calls \ {c} : call'[d] = call[d]
      PROVE  ProviderInv'
  <2>1. CodexTypeOK'
    BY <1>1, <1>3 DEF CodexTypeOK
  <2>2. QuietFrame
    BY <1>1, <1>2, <1>3 DEF QuietFrame, Placed
  <2>3. StreamFrame
    BY <1>1, <1>2, <1>3 DEF StreamFrame, Calls
  <2> QED
    BY <1>3, <2>1, <2>2, <2>3, QuietFrameKeeps, StreamFrameKeeps
<1>4. CASE /\ threads[t] = "creating" /\ call' = [call EXCEPT ![c] = "sharing"]
           /\ UNCHANGED <<pending, asked, nextId, threads>>
  <2>1. /\ call' \in [Calls -> {"idle", "starting", "initializing", "initialized", "opened",
                              "sharing", "requesting", "answered", "running", "done", "failed"}]
        /\ call'[c] = "sharing" /\ \A d \in Calls \ {c} : call'[d] = call[d]
    BY <1>4 DEF CodexTypeOK
  <2>2. RequestFrame
    BY <1>1, <1>4, <2>1 DEF RequestFrame, Waiting, CodexTypeOK
  <2>3. RequestInv'
    BY <2>2, RequestFrameKeeps
  <2> QED
    BY <1>3, <1>4, <2>1, <2>3 DEF CodexTypeOK
<1>5. CASE /\ threads[t] # "creating" /\ transport[t] = "open" /\ Ask(t, kind, c)
           /\ threads' = [threads EXCEPT ![t] = IF @ = "none" THEN "creating" ELSE @]
           /\ call' = [call EXCEPT ![c] = "requesting"]
  <2>1. threads[t] \in {"none", "known"}
    BY <1>2, <1>5 DEF CodexTypeOK
  <2>2. /\ kind \in Kinds /\ kind # "initialize" /\ kind # "turn/start"
        /\ kind = "thread/start" => threads[t] = "none"
    BY <2>1 DEF Kinds
  <2>3. threads' = [threads EXCEPT ![t] = IF @ = "none" /\ kind = "thread/start" THEN "creating" ELSE @]
    BY <1>5, <2>1
  <2>4. /\ call'[c] = "requesting" /\ \A d \in Calls \ {c} : call'[d] = call[d]
    BY <1>5 DEF CodexTypeOK
  <2> HIDE DEF t, kind
  <2>5. PICK u \in Calls, k \in Kinds : u = t /\ k = kind
    BY <1>2, <2>2
  <2>6. /\ via[c] = u /\ transport[u] = "open" /\ Ask(u, k, c)
        /\ threads' = [threads EXCEPT ![u] = IF @ = "none" /\ k = "thread/start" THEN "creating" ELSE @]
        /\ k = "thread/start" => threads[u] = "none"
        /\ k # "initialize" /\ k # "turn/start"
    BY <1>5, <2>2, <2>3, <2>5 DEF t
  <2>7. /\ RequestInv'
        /\ pending' \in [Calls -> SUBSET Requests] /\ nextId' \in [Calls -> Nat]
        /\ asked' \in [Processes -> SUBSET Requests]
        /\ threads' \in [Calls -> {"none", "creating", "known"}]
        /\ call' \in [Calls -> {"idle", "starting", "initializing", "initialized", "opened",
                               "sharing", "requesting", "answered", "running", "done", "failed"}]
    BY <1>1, <1>5, <2>6, AskKeeps
  <2> QED
    BY <1>3, <2>4, <2>7
<1>6. CASE /\ threads[t] # "creating" /\ transport[t] = "drained"
           /\ call' = [call EXCEPT ![c] = "failed"]
           /\ UNCHANGED <<pending, asked, nextId, threads>>
  <2>1. /\ call' \in [Calls -> {"idle", "starting", "initializing", "initialized", "opened",
                              "sharing", "requesting", "answered", "running", "done", "failed"}]
        /\ call'[c] = "failed" /\ \A d \in Calls \ {c} : call'[d] = call[d]
    BY <1>6 DEF CodexTypeOK
  <2>2. RequestFrame
    BY <1>1, <1>6, <2>1 DEF RequestFrame, Waiting, CodexTypeOK
  <2>3. RequestInv'
    BY <2>2, RequestFrameKeeps
  <2> QED
    BY <1>3, <1>6, <2>1, <2>3 DEF CodexTypeOK
<1> QED
  BY <1>4, <1>5, <1>6 DEF EnsureThread

LEMMA StartTurnKeeps ==
    ASSUME ProviderInv, NEW c \in Calls, StartTurn(c)
    PROVE  ProviderInv'
<1> USE DEF ProviderInv
<1> DEFINE t == via[c]
<1>1. /\ c \in Turns /\ call[c] = "opened"
      /\ UNCHANGED <<process, record, disposed, overlapped, session, via, transport, on, listening,
                     malformed, threads, buffer, follows, ended, idle, interrupted, native, deaf>>
  BY DEF StartTurn, processVars
<1>2. t \in Calls /\ c \notin Ensures
  BY <1>1, CodexAssumption DEF PlaceInv, PlaceOf, Placed, CodexTypeOK
<1>3. ASSUME /\ call' \in [Calls -> {"idle", "starting", "initializing", "initialized", "opened",
                            "sharing", "requesting", "answered", "running", "done", "failed"}]
             /\ pending' \in [Calls -> SUBSET Requests] /\ nextId' \in [Calls -> Nat]
             /\ asked' \in [Processes -> SUBSET Requests] /\ active' \subseteq Turns
             /\ RequestInv'
             /\ call'[c] \in {"requesting", "failed"}
             /\ \A d \in Calls \ {c} : call'[d] = call[d]
      PROVE  ProviderInv'
  <2>1. CodexTypeOK'
    BY <1>1, <1>3 DEF CodexTypeOK
  <2>2. QuietFrame
    BY <1>1, <1>3 DEF QuietFrame, Placed
  <2>3. StreamFrame
    BY <1>1, <1>3 DEF StreamFrame, Calls
  <2> QED
    BY <1>3, <2>1, <2>2, <2>3, QuietFrameKeeps, StreamFrameKeeps
<1>4. CASE transport[t] = "open"
  <2>1. /\ Ask(t, "turn/start", c) /\ active' = active \cup {c}
        /\ call' = [call EXCEPT ![c] = "requesting"]
    BY <1>4 DEF StartTurn
  <2>2. call'[c] = "requesting" /\ \A d \in Calls \ {c} : call'[d] = call[d]
    BY <2>1 DEF CodexTypeOK
  <2>3. PICK u \in Calls, k \in Kinds : u = t /\ k = "turn/start"
    BY <1>2 DEF Kinds
  <2>4. /\ via[c] = u /\ transport[u] = "open" /\ Ask(u, k, c)
        /\ threads' = [threads EXCEPT ![u] = IF @ = "none" /\ k = "thread/start" THEN "creating" ELSE @]
    BY <1>1, <1>4, <2>1, <2>3 DEF CodexTypeOK
  <2>5. /\ RequestInv'
        /\ pending' \in [Calls -> SUBSET Requests] /\ nextId' \in [Calls -> Nat]
        /\ asked' \in [Processes -> SUBSET Requests]
        /\ call' \in [Calls -> {"idle", "starting", "initializing", "initialized", "opened",
                               "sharing", "requesting", "answered", "running", "done", "failed"}]
    BY <1>1, <2>1, <2>3, <2>4, AskKeeps
  <2> QED
    BY <1>1, <1>3, <2>1, <2>2, <2>5 DEF CodexTypeOK
<1>5. CASE transport[t] # "open"
  <2>1. call' = [call EXCEPT ![c] = "failed"] /\ UNCHANGED <<pending, asked, nextId, active>>
    BY <1>5 DEF StartTurn
  <2>2. /\ call' \in [Calls -> {"idle", "starting", "initializing", "initialized", "opened",
                              "sharing", "requesting", "answered", "running", "done", "failed"}]
        /\ call'[c] = "failed" /\ \A d \in Calls \ {c} : call'[d] = call[d]
    BY <2>1 DEF CodexTypeOK
  <2>3. RequestFrame
    BY <1>1, <2>1, <2>2 DEF RequestFrame, Waiting, CodexTypeOK
  <2>4. RequestInv'
    BY <2>3, RequestFrameKeeps
  <2> QED
    BY <1>3, <2>1, <2>2, <2>4 DEF CodexTypeOK
<1> QED
  BY <1>4, <1>5

\* The end that a buffer holds is that of the turn its stream follows.
LEMMA FirstEnd ==
    ASSUME CodexTypeOK, NEW c \in Turns, EndInBuffer(c) # "none"
    PROVE  \E i \in 1..Len(buffer[c]) : /\ buffer[c][i][2] = follows[c]
                                        /\ OutcomeOf(buffer[c][i][1]) # "none"
                                        /\ EndInBuffer(c) = OutcomeOf(buffer[c][i][1])
<1> DEFINE ends == {i \in DOMAIN buffer[c] : /\ buffer[c][i][2] = follows[c]
                                            /\ OutcomeOf(buffer[c][i][1]) # "none"}
           first == CHOOSE i \in ends : \A j \in ends : i <= j
           R == OpToRel(<, Nat)
<1>1. ends # {} /\ EndInBuffer(c) = OutcomeOf(buffer[c][first][1])
  BY DEF EndInBuffer
<1>2. ends \subseteq Nat /\ ends \subseteq 1..Len(buffer[c])
  BY DEF CodexTypeOK
<1>3. IsWellFoundedOn(R, Nat)
  BY NatLessThanWellFounded
<1>4. \A i, j \in Nat : <<j, i>> \notin R => i <= j
  BY DEF OpToRel
<1>5. \E i \in ends : \A j \in ends : i <= j
  <2> HIDE DEF ends, R
  <2>1. PICK i \in ends : \A j \in ends : <<j, i>> \notin R
    BY <1>1, <1>2, <1>3, WFMin
  <2> QED
    BY <1>2, <1>4, <2>1
<1>6. first \in ends
  <2> HIDE DEF ends
  <2> QED
    BY <1>5
<1> HIDE DEF first
<1> QED
  BY <1>1, <1>2, <1>6

LEMMA OutcomesOfSignals ==
    \A signal : OutcomeOf(signal) \in Outcomes \cup {"none"}
  BY DEF OutcomeOf, Outcomes

LEMMA AnsweredKeeps ==
    ASSUME ProviderInv, NEW c \in Calls, Answered(c)
    PROVE  ProviderInv'
<1> USE DEF ProviderInv
<1>1. /\ c \in Turns /\ call[c] = "answered" /\ buffer' = [buffer EXCEPT ![c] = <<>>]
      /\ UNCHANGED <<process, record, disposed, overlapped, session, via, transport, on, listening,
                     nextId, malformed, pending, threads, follows, interrupted, asked, native, deaf>>
  BY DEF Answered, processVars, channelVars, appServerVars
<1>2. TurnOf(c) /\ follows[c] # None /\ ended[c] = "none"
  BY <1>1 DEF TurnInv, TurnOf
<1>3. ASSUME /\ call' \in [Calls -> {"idle", "starting", "initializing", "initialized", "opened",
                                "sharing", "requesting", "answered", "running", "done", "failed"}]
             /\ call'[c] \in {"running", "done"} /\ \A d \in Calls \ {c} : call'[d] = call[d]
             /\ ended' \in [Turns -> Outcomes \cup {"none"}]
             /\ idle' \in [Turns -> {"off", "fresh", "due"}] /\ active' \subseteq Turns
             /\ \A d \in Turns \ {c} : ended'[d] = ended[d] /\ idle'[d] = idle[d]
             /\ ended'[c] # "none" => call'[c] = "done" /\ native[follows[c]] = "ended"
             /\ idle'[c] # "off" => call'[c] = "running"
      PROVE  ProviderInv'
  <2>1. CodexTypeOK'
    <3>1. buffer' \in [Turns -> Seq(Signals \X Turns)] /\ \A d \in Turns : Len(buffer'[d]) <= BufferMax
      <4>1. <<>> \in Seq(Signals \X Turns) /\ Len(<<>>) <= BufferMax
        BY CodexAssumption
      <4> QED
        BY <1>1, <4>1 DEF CodexTypeOK
    <3> QED
      BY <1>1, <1>3, <3>1 DEF CodexTypeOK
  <2>2. QuietFrame
    BY <1>1, <1>3 DEF QuietFrame, Placed
  <2>3. RequestFrame
    BY <1>1, <1>3 DEF RequestFrame, Waiting, CodexTypeOK
  <2>4. TurnInv'
    <3>1. ASSUME NEW d \in Turns PROVE TurnOf(d)'
      <4>1. TurnOf(d) /\ d \in Calls
        BY DEF TurnInv, Calls
      <4> QED
        BY <1>1, <1>2, <1>3, <4>1 DEF TurnOf
    <3>2. ASSUME NEW d \in Turns PROVE BufferedEnds(d)'
      <4>1. CASE d = c
        BY <1>1, <4>1 DEF BufferedEnds, CodexTypeOK
      <4>2. CASE d # c
        BY <1>1, <4>2 DEF TurnInv, BufferedEnds, CodexTypeOK
      <4> QED
        BY <4>1, <4>2
    <3> QED
      BY <3>1, <3>2 DEF TurnInv
  <2>5. HonestOutcome'
    BY <1>1, <1>3 DEF HonestOutcome
  <2>6. StalledIsInterrupted'
    BY <1>1, <1>3 DEF StalledIsInterrupted
  <2> QED
    BY <2>1, <2>2, <2>3, <2>4, <2>5, <2>6, QuietFrameKeeps, RequestFrameKeeps
<1>4. CASE EndInBuffer(c) # "none"
  <2>1. /\ ended' = [ended EXCEPT ![c] = EndInBuffer(c)] /\ call' = [call EXCEPT ![c] = "done"]
        /\ active' = active \ {c} /\ idle' = [idle EXCEPT ![c] = "off"]
    BY <1>4 DEF Answered, Finish
  <2>2. PICK i \in 1..Len(buffer[c]) : /\ buffer[c][i][2] = follows[c]
                                      /\ OutcomeOf(buffer[c][i][1]) # "none"
                                      /\ EndInBuffer(c) = OutcomeOf(buffer[c][i][1])
    BY <1>1, <1>4, FirstEnd
  <2>3. native[follows[c]] = "ended"
    BY <1>1, <2>2 DEF TurnInv, BufferedEnds
  <2>4. EndInBuffer(c) \in Outcomes \cup {"none"}
    BY <2>2, OutcomesOfSignals
  <2> HIDE DEF ProviderInv
  <2>5. /\ call' \in [Calls -> {"idle", "starting", "initializing", "initialized", "opened",
                                "sharing", "requesting", "answered", "running", "done", "failed"}]
        /\ call'[c] = "done" /\ \A d \in Calls \ {c} : call'[d] = call[d]
    BY <2>1 DEF ProviderInv, CodexTypeOK
  <2>6. /\ ended' \in [Turns -> Outcomes \cup {"none"}]
        /\ idle' \in [Turns -> {"off", "fresh", "due"}] /\ active' \subseteq Turns
        /\ \A d \in Turns \ {c} : ended'[d] = ended[d] /\ idle'[d] = idle[d]
        /\ idle'[c] = "off"
    BY <1>1, <2>1, <2>4 DEF ProviderInv, CodexTypeOK
  <2> QED
    BY <1>3, <2>3, <2>5, <2>6
<1>5. CASE EndInBuffer(c) = "none"
  <2>1. /\ call' = [call EXCEPT ![c] = "running"] /\ idle' = [idle EXCEPT ![c] = "fresh"]
        /\ UNCHANGED <<ended, active>>
    BY <1>5 DEF Answered
  <2>2. /\ call' \in [Calls -> {"idle", "starting", "initializing", "initialized", "opened",
                                "sharing", "requesting", "answered", "running", "done", "failed"}]
        /\ call'[c] = "running" /\ \A d \in Calls \ {c} : call'[d] = call[d]
    BY <2>1 DEF CodexTypeOK
  <2>3. /\ idle' \in [Turns -> {"off", "fresh", "due"}]
        /\ \A d \in Turns \ {c} : idle'[d] = idle[d]
    BY <2>1 DEF CodexTypeOK
  <2> QED
    BY <1>2, <1>3, <2>1, <2>2, <2>3 DEF CodexTypeOK
<1> QED
  BY <1>4, <1>5

LEMMA NotificationKeeps ==
    ASSUME ProviderInv, NEW p \in Processes, NEW signal \in Signals, NEW n \in Turns,
           Notification(p, signal, n)
    PROVE  ProviderInv'
<1> USE DEF ProviderInv
<1> DEFINE heard == Cardinality(listening \cap Attached(p))
           unanswered == {c \in active : call[c] \in {"requesting", "answered"}}
           following == {c \in Hears : heard > 0 /\ follows[c] = n}
           ending == {c \in following : OutcomeOf(signal) # "none"}
           kept == [i \in 1..heard |-> <<signal, n>>]
<1>1. /\ native[n] = "running"
      /\ \A c \in unanswered : Len(buffer[c]) + heard <= BufferMax
      /\ native' = [native EXCEPT ![n] = IF OutcomeOf(signal) = "none" THEN @ ELSE "ended"]
      /\ buffer' = [c \in Turns |-> IF c \in unanswered THEN buffer[c] \o kept ELSE buffer[c]]
      /\ ended' = [c \in Turns |-> IF c \in ending THEN OutcomeOf(signal) ELSE ended[c]]
      /\ call' = [c \in Calls |-> IF c \in ending THEN "done" ELSE call[c]]
      /\ active' = active \ ending
      /\ idle' = [c \in Turns |-> IF c \in ending THEN "off"
                                ELSE IF c \in following /\ IsProgress(signal) THEN "fresh" ELSE idle[c]]
      /\ UNCHANGED <<process, record, disposed, overlapped, session, via, transport, on, listening,
                     nextId, malformed, pending, threads, follows, interrupted, asked, deaf>>
  BY DEF Notification, processVars, channelVars
<1>2. heard \in Nat
  <2>1. IsFiniteSet(listening \cap Attached(p))
    BY CodexAssumption, FS_Subset DEF Attached
  <2> QED
    BY <2>1, FS_CardinalityType
<1>3. following \subseteq Turns /\ (\A c \in following : call[c] = "running" /\ follows[c] = n)
  BY DEF Hears, CodexTypeOK
<1>4. ending \subseteq following /\ (\A c \in ending : OutcomeOf(signal) # "none")
  OBVIOUS
<1>5. OutcomeOf(signal) \in Outcomes \cup {"none"}
  BY OutcomesOfSignals
<1> HIDE DEF following, ending, heard
<1>6. kept \in Seq(Signals \X Turns) /\ Len(kept) = heard /\ \A i \in 1..heard : kept[i] = <<signal, n>>
  BY <1>2
<1> HIDE DEF kept, unanswered
\* Only the native turn moves, from running to ended.
<1>7. /\ native' \in [Turns -> {"none", "running", "ended", "gone"}]
      /\ \A m \in Turns : native'[m] = native[m] \/ (m = n /\ native'[m] = "ended")
      /\ OutcomeOf(signal) # "none" => native'[n] = "ended"
  BY <1>1 DEF CodexTypeOK
<1>8. CodexTypeOK'
  <2>1. /\ call' \in [Calls -> {"idle", "starting", "initializing", "initialized", "opened",
                                "sharing", "requesting", "answered", "running", "done", "failed"}]
        /\ ended' \in [Turns -> Outcomes \cup {"none"}]
        /\ idle' \in [Turns -> {"off", "fresh", "due"}] /\ active' \subseteq Turns
    BY <1>1, <1>5 DEF CodexTypeOK
  <2>2. ASSUME NEW c \in Turns
        PROVE  buffer'[c] \in Seq(Signals \X Turns) /\ Len(buffer'[c]) <= BufferMax
    <3>1. buffer[c] \in Seq(Signals \X Turns) /\ Len(buffer[c]) <= BufferMax
      BY DEF CodexTypeOK
    <3>2. CASE c \in unanswered
      <4>1. buffer'[c] = buffer[c] \o kept
        BY <1>1, <3>2
      <4>2. Len(buffer[c]) + heard <= BufferMax
        BY <1>1, <3>2
      <4> DEFINE S == Signals \X Turns
      <4> HIDE DEF S
      <4>3. buffer[c] \in Seq(S) /\ kept \in Seq(S)
        BY <1>6, <3>1 DEF S
      <4>4. buffer[c] \o kept \in Seq(S) /\ Len(buffer[c] \o kept) = Len(buffer[c]) + Len(kept)
        BY <4>3
      <4> QED
        BY <1>6, <4>1, <4>2, <4>4 DEF S
    <3>3. CASE c \notin unanswered
      BY <1>1, <3>1, <3>3
    <3> QED
      BY <3>2, <3>3
  <2>3. buffer' \in [Turns -> Seq(Signals \X Turns)]
    BY <1>1, <2>2
  <2> QED
    BY <1>1, <1>7, <2>1, <2>2, <2>3 DEF CodexTypeOK
<1>9. \A c \in Calls : call'[c] = call[c] \/ (c \in Turns /\ call[c] = "running" /\ call'[c] = "done")
  BY <1>1, <1>3, <1>4
<1>10. QuietFrame
  BY <1>1, <1>9 DEF QuietFrame, Placed
<1>11. RequestFrame
  BY <1>1, <1>9 DEF RequestFrame, Waiting, CodexTypeOK
<1>12. TurnInv'
  <2>1. ASSUME NEW c \in Turns PROVE TurnOf(c)'
    <3>1. TurnOf(c) /\ c \in Calls /\ follows[c] \in Turns \cup {None} /\ n # None
      BY CodexAssumption DEF TurnInv, CodexTypeOK, Calls
    <3>2. follows[c] # None => native'[follows[c]] # "none"
      BY <1>7, <3>1 DEF TurnOf
    <3>3. CASE c \in ending
      <4>1. call[c] = "running" /\ follows[c] = n /\ call'[c] = "done" /\ idle'[c] = "off"
        BY <1>1, <1>3, <1>4, <3>1, <3>3
      <4> QED
        BY <1>1, <3>1, <3>2, <4>1 DEF TurnOf
    <3>4. CASE c \notin ending
      <4>1. call'[c] = call[c] /\ ended'[c] = ended[c]
        BY <1>1, <3>1, <3>4
      <4>2. idle'[c] # "off" => call[c] = "running"
        BY <1>1, <1>3, <3>1, <3>4 DEF TurnOf
      <4> QED
        BY <1>1, <3>1, <3>2, <4>1, <4>2 DEF TurnOf
    <3> QED
      BY <3>3, <3>4
  <2>2. ASSUME NEW c \in Turns PROVE BufferedEnds(c)'
    <3> DEFINE Told(e) == OutcomeOf(e[1]) # "none" => native'[e[2]] = "ended"
    <3> SUFFICES ASSUME NEW i \in 1..Len(buffer'[c]) PROVE Told(buffer'[c][i])
      BY DEF BufferedEnds
    <3>1. \A j \in 1..Len(buffer[c]) : Told(buffer[c][j])
      <4>1. \A j \in 1..Len(buffer[c]) : buffer[c][j][2] \in Turns
        BY DEF CodexTypeOK
      <4> QED
        BY <1>7, <4>1 DEF TurnInv, BufferedEnds
    <3>4. Told(<<signal, n>>)
      BY <1>7
    <3> HIDE DEF Told
    <3>2. CASE c \in unanswered
      <4>1. buffer'[c] = buffer[c] \o kept
        BY <1>1, <3>2
      <4> DEFINE S == Signals \X Turns
      <4>2. buffer[c] \in Seq(S) /\ kept \in Seq(S)
        BY <1>6 DEF CodexTypeOK
      <4> HIDE DEF S
      <4>3. i \in 1..(Len(buffer[c]) + heard)
        BY <1>6, <4>1, <4>2
      <4>4. CASE i <= Len(buffer[c])
        <5>1. i \in 1..Len(buffer[c]) /\ buffer'[c][i] = buffer[c][i]
          BY <4>1, <4>2, <4>3, <4>4
        <5> QED
          BY <3>1, <5>1
      <4>5. CASE i > Len(buffer[c])
        <5>1. i - Len(buffer[c]) \in 1..heard /\ buffer'[c][i] = kept[i - Len(buffer[c])]
          BY <1>2, <1>6, <4>1, <4>2, <4>3, <4>5
        <5>2. buffer'[c][i] = <<signal, n>>
          BY <1>6, <5>1
        <5> QED
          BY <3>4, <5>2
      <4> QED
        BY <4>2, <4>3, <4>4, <4>5
    <3>3. CASE c \notin unanswered
      <4>1. buffer'[c] = buffer[c]
        BY <1>1, <3>3
      <4> QED
        BY <3>1, <4>1
    <3> QED
      BY <3>2, <3>3
  <2> QED
    BY <2>1, <2>2 DEF TurnInv
<1>13. HonestOutcome' /\ StalledIsInterrupted'
  <2>1. ASSUME NEW c \in Turns, ended'[c] # "none"
        PROVE  \/ native'[follows'[c]] = "ended"
               \/ /\ ended'[c] = ended[c] /\ follows'[c] = follows[c]
                  /\ native'[follows[c]] = native[follows[c]]
    <3>1. CASE c \in ending
      BY <1>1, <1>3, <1>4, <1>7, <3>1
    <3>2. CASE c \notin ending
      <4>1. ended'[c] = ended[c] /\ follows'[c] = follows[c]
        BY <1>1, <3>2
      <4>2. follows[c] \in Turns
        BY <2>1, <4>1 DEF TurnInv, TurnOf, CodexTypeOK
      <4> QED
        BY <1>7, <4>1, <4>2
    <3> QED
      BY <3>1, <3>2
  <2>2. HonestOutcome'
    BY <2>1 DEF HonestOutcome
  <2>3. StalledIsInterrupted'
    BY <1>1, <2>1 DEF StalledIsInterrupted
  <2> QED
    BY <2>2, <2>3
<1> QED
  BY <1>8, <1>10, <1>11, <1>12, <1>13, QuietFrameKeeps, RequestFrameKeeps

\* A turn that is interrupted is the one its stream follows.
LEMMA InterruptTypes ==
    ASSUME ProviderInv, NEW c \in Turns, call[c] = "running", Interrupt(c)
    PROVE  /\ via[c] \in Calls /\ follows[c] \in Turns
           /\ nextId' \in [Calls -> Nat] /\ \A t \in Calls : nextId[t] <= nextId'[t]
           /\ interrupted' \subseteq Turns /\ interrupted \subseteq interrupted'
           /\ transport[via[c]] = "open" => follows[c] \in interrupted'
<1> USE DEF ProviderInv
<1>1. via[c] \in Calls /\ follows[c] \in Turns
  BY DEF PlaceInv, PlaceOf, Placed, TurnInv, TurnOf, CodexTypeOK, Calls
<1>2. CASE transport[via[c]] = "open"
  <2>1. /\ nextId' = [nextId EXCEPT ![via[c]] = @ + 1] /\ interrupted' = interrupted \cup {follows[c]}
    BY <1>2 DEF Interrupt
  <2>2. \A t \in Calls : nextId[t] \in Nat
    BY DEF CodexTypeOK
  <2>3. nextId' \in [Calls -> Nat] /\ \A t \in Calls : nextId[t] <= nextId'[t]
    BY <1>1, <2>1, <2>2 DEF CodexTypeOK
  <2> QED
    BY <1>1, <2>1, <2>3 DEF CodexTypeOK
<1>3. CASE transport[via[c]] # "open"
  <2>1. nextId' = nextId /\ interrupted' = interrupted
    BY <1>3 DEF Interrupt
  <2> QED
    BY <1>1, <1>3, <2>1 DEF CodexTypeOK
<1> QED
  BY <1>2, <1>3

LEMMA IdleDeadlineKeeps ==
    ASSUME ProviderInv, NEW c \in Turns, IdleDeadline(c)
    PROVE  ProviderInv'
<1> USE DEF ProviderInv
<1>1. /\ idle[c] = "due" /\ Interrupt(c)
      /\ ended' = [ended EXCEPT ![c] = "unknown"] /\ call' = [call EXCEPT ![c] = "done"]
      /\ active' = active \ {c} /\ idle' = [idle EXCEPT ![c] = "off"]
      /\ UNCHANGED <<process, record, disposed, overlapped, session, via, transport, on, listening,
                     malformed, pending, threads, buffer, follows, asked, native, deaf>>
  BY DEF IdleDeadline, Finish, TransportFailure, processVars, appServerVars
<1>2. c \in Calls /\ call[c] = "running" /\ ended[c] = "none" /\ follows[c] # None
  BY <1>1 DEF TurnInv, TurnOf, Calls
<1>3. /\ via[c] \in Calls /\ follows[c] \in Turns
      /\ nextId' \in [Calls -> Nat] /\ \A t \in Calls : nextId[t] <= nextId'[t]
      /\ interrupted' \subseteq Turns /\ interrupted \subseteq interrupted'
      /\ transport[via[c]] = "open" => follows[c] \in interrupted'
  BY <1>1, <1>2, InterruptTypes
<1>4. /\ call' \in [Calls -> {"idle", "starting", "initializing", "initialized", "opened",
                                "sharing", "requesting", "answered", "running", "done", "failed"}]
      /\ call'[c] = "done" /\ \A d \in Calls \ {c} : call'[d] = call[d]
      /\ ended' \in [Turns -> Outcomes \cup {"none"}]
      /\ idle' \in [Turns -> {"off", "fresh", "due"}] /\ active' \subseteq Turns
  BY <1>1, <1>2 DEF CodexTypeOK, Outcomes
<1>5. /\ ended'[c] = "unknown" /\ idle'[c] = "off"
      /\ \A d \in Turns \ {c} : ended'[d] = ended[d] /\ idle'[d] = idle[d]
  BY <1>1 DEF CodexTypeOK
<1>6. CodexTypeOK'
  BY <1>1, <1>3, <1>4 DEF CodexTypeOK
<1>7. QuietFrame
  BY <1>1, <1>2, <1>4 DEF QuietFrame, Placed
<1>8. RequestFrame
  BY <1>1, <1>2, <1>3, <1>4 DEF RequestFrame, Waiting
<1>9. TurnInv'
  <2>1. ASSUME NEW d \in Turns PROVE TurnOf(d)'
    <3>1. TurnOf(d) /\ d \in Calls
      BY DEF TurnInv, Calls
    <3> QED
      BY <1>1, <1>2, <1>4, <1>5, <3>1 DEF TurnOf
  <2>2. \A d \in Turns : BufferedEnds(d)'
    BY <1>1 DEF TurnInv, BufferedEnds
  <2> QED
    BY <2>1, <2>2 DEF TurnInv
<1>10. HonestOutcome'
  BY <1>1, <1>5 DEF HonestOutcome
<1>11. StalledIsInterrupted'
  BY <1>1, <1>3, <1>5 DEF StalledIsInterrupted
<1> QED
  BY <1>6, <1>7, <1>8, <1>9, <1>10, <1>11, QuietFrameKeeps, RequestFrameKeeps

LEMMA CancelKeeps ==
    ASSUME ProviderInv, NEW c \in Turns, Cancel(c)
    PROVE  ProviderInv'
<1> USE DEF ProviderInv
<1>1. /\ call[c] = "running" /\ Interrupt(c)
      /\ UNCHANGED <<process, record, disposed, overlapped, session, call, via, transport, on,
                     listening, malformed, pending, threads, active, buffer, follows, ended, idle,
                     asked, native, deaf>>
  BY DEF Cancel, processVars, appServerVars
<1>2. /\ nextId' \in [Calls -> Nat] /\ \A t \in Calls : nextId[t] <= nextId'[t]
      /\ interrupted' \subseteq Turns /\ interrupted \subseteq interrupted'
  BY <1>1, InterruptTypes
<1>3. CodexTypeOK'
  BY <1>1, <1>2 DEF CodexTypeOK
<1>4. QuietFrame /\ RequestFrame
  BY <1>1, <1>2 DEF QuietFrame, RequestFrame
<1>5. TurnInv' /\ HonestOutcome'
  <2>1. \A d \in Turns : TurnOf(d)' /\ BufferedEnds(d)'
    BY <1>1 DEF TurnInv, TurnOf, BufferedEnds
  <2> QED
    BY <1>1, <2>1 DEF TurnInv, HonestOutcome
<1>6. StalledIsInterrupted'
  BY <1>1, <1>2 DEF StalledIsInterrupted
<1> QED
  BY <1>3, <1>4, <1>5, <1>6, QuietFrameKeeps, RequestFrameKeeps

LEMMA IdleTickKeeps ==
    ASSUME ProviderInv, NEW c \in Turns, IdleTick(c)
    PROVE  ProviderInv'
<1> USE DEF ProviderInv
<1>1. /\ idle[c] = "fresh" /\ idle' = [idle EXCEPT ![c] = "due"]
      /\ UNCHANGED <<process, record, disposed, overlapped, session, call, via, transport, on,
                     listening, nextId, malformed, pending, threads, active, buffer, follows, ended,
                     interrupted, asked, native, deaf>>
  BY DEF IdleTick, processVars, channelVars, appServerVars
<1>2. CodexTypeOK'
  <2>1. idle' \in [Turns -> {"off", "fresh", "due"}]
    BY <1>1 DEF CodexTypeOK
  <2> QED
    BY <1>1, <2>1 DEF CodexTypeOK
<1>3. QuietFrame /\ RequestFrame
  BY <1>1 DEF QuietFrame, RequestFrame, CodexTypeOK
<1>4. TurnInv'
  <2>1. \A d \in Turns : idle'[d] # "off" => idle[d] # "off"
    BY <1>1 DEF CodexTypeOK
  <2> QED
    BY <1>1, <2>1 DEF TurnInv, TurnOf, BufferedEnds
<1>5. HonestOutcome' /\ StalledIsInterrupted'
  BY <1>1 DEF HonestOutcome, StalledIsInterrupted
<1> QED
  BY <1>2, <1>3, <1>4, <1>5, QuietFrameKeeps, RequestFrameKeeps

LEMMA NativeStartsKeeps ==
    ASSUME ProviderInv, NEW p \in Processes, NEW q \in asked[p], NativeStarts(p, q)
    PROVE  ProviderInv'
<1> USE DEF ProviderInv
<1>1. q.call \in Turns
  BY DEF NativeStarts, RequestInv
<1>2. /\ native[q.call] = "none" /\ native' = [native EXCEPT ![q.call] = "running"]
      /\ UNCHANGED <<process, record, disposed, overlapped, session, call, via, transport, on,
                     listening, nextId, malformed, pending, threads, active, buffer, follows, ended,
                     idle, interrupted, asked, deaf>>
  BY DEF NativeStarts, processVars, channelVars, streamVars
<1>3. /\ native' \in [Turns -> {"none", "running", "ended", "gone"}]
      /\ \A n \in Turns : native[n] # "none" => native'[n] = native[n]
  BY <1>1, <1>2 DEF CodexTypeOK
<1>4. CodexTypeOK'
  BY <1>2, <1>3 DEF CodexTypeOK
<1>5. QuietFrame /\ RequestFrame
  BY <1>2 DEF QuietFrame, RequestFrame, CodexTypeOK
<1>6. TurnInv'
  <2>1. ASSUME NEW d \in Turns PROVE TurnOf(d)'
    <3>1. TurnOf(d) /\ follows[d] \in Turns \cup {None}
      BY DEF TurnInv, CodexTypeOK
    <3>2. follows[d] # None => native'[follows[d]] # "none"
      BY <1>3, <3>1 DEF TurnOf
    <3> QED
      BY <1>2, <3>1, <3>2 DEF TurnOf
  <2>2. ASSUME NEW d \in Turns PROVE BufferedEnds(d)'
    <3>1. \A i \in 1..Len(buffer[d]) : buffer[d][i][2] \in Turns
      BY DEF CodexTypeOK
    <3> QED
      BY <1>2, <1>3, <3>1 DEF TurnInv, BufferedEnds
  <2> QED
    BY <2>1, <2>2 DEF TurnInv
<1>7. HonestOutcome' /\ StalledIsInterrupted'
  <2>1. ASSUME NEW c \in Turns, ended[c] # "none" PROVE native'[follows[c]] = native[follows[c]]
    <3>1. follows[c] \in Turns /\ native[follows[c]] # "none"
      BY <2>1 DEF TurnInv, TurnOf, CodexTypeOK
    <3> QED
      BY <1>3, <3>1
  <2> QED
    BY <1>2, <2>1 DEF HonestOutcome, StalledIsInterrupted
<1> QED
  BY <1>4, <1>5, <1>6, <1>7, QuietFrameKeeps, RequestFrameKeeps

LEMMA DisposeKeeps ==
    ASSUME ProviderInv, Dispose
    PROVE  ProviderInv'
<1> USE DEF ProviderInv
<1>1. /\ disposed' = TRUE /\ session' = None /\ active' = {} /\ record' = None
      /\ process' = IF record = None THEN process ELSE [process EXCEPT ![record] = "killed"]
      /\ UNCHANGED <<overlapped, call, via, transport, on, listening, nextId, malformed, pending,
                     threads, buffer, follows, ended, idle, interrupted, asked, native, deaf>>
  BY DEF Dispose, channelVars, appServerVars
<1>2. /\ process' \in [Processes -> {"unused", "running", "killed", "exited"}]
      /\ \A p \in Processes : Up(p)' <=> Up(p)
  <2>1. record # None => record \in Processes /\ process[record] = "running"
    BY DEF ChannelInv, CodexTypeOK
  <2>2. CASE record = None
    BY <1>1, <2>2 DEF Up, CodexTypeOK
  <2>3. CASE record # None
    BY <1>1, <2>1, <2>3 DEF Up, CodexTypeOK
  <2> QED
    BY <2>2, <2>3
<1>3. CodexTypeOK'
  BY <1>1, <1>2 DEF CodexTypeOK
<1>4. ChannelInv'
  <2>1. \A t \in Calls : transport[t] = "open" => on[t] \in Processes /\ process'[on[t]] \in {"running", "killed"}
    BY <1>2 DEF ChannelInv, Up
  <2> QED
    BY <1>1, <2>1 DEF ChannelInv, Up
<1>5. PlaceInv'
  BY <1>1 DEF PlaceInv, PlaceOf
<1>6. RequestInv'
  <2>1. RequestFrame
    BY <1>1 DEF RequestFrame, CodexTypeOK
  <2> QED
    BY <2>1, RequestFrameKeeps
<1>7. TurnInv' /\ HonestOutcome' /\ StalledIsInterrupted'
  <2>1. StreamFrame
    BY <1>1 DEF StreamFrame
  <2> QED
    BY <2>1, StreamFrameKeeps
<1>8. SoleInv'
  <2>1. Opening' = Opening
    BY <1>1 DEF Opening
  <2> QED
    BY <1>1, <1>2, <2>1 DEF SoleInv
<1>9. SessionIsOpen'
  BY <1>1 DEF SessionIsOpen
<1> QED
  BY <1>3, <1>4, <1>5, <1>6, <1>7, <1>8, <1>9

LEMMA StutterKeeps ==
    ASSUME ProviderInv, UNCHANGED codexVars
    PROVE  ProviderInv'
<1> USE DEF ProviderInv
<1>1. UNCHANGED <<process, record, disposed, overlapped, session, call, via, transport, on,
                  listening, nextId, malformed, pending, threads, active, buffer, follows, ended,
                  idle, interrupted, asked, native, deaf>>
  BY DEF codexVars
<1>2. CodexTypeOK'
  BY <1>1 DEF CodexTypeOK
<1>3. QuietFrame /\ RequestFrame /\ StreamFrame
  BY <1>1 DEF QuietFrame, RequestFrame, StreamFrame, CodexTypeOK
<1> QED
  BY <1>2, <1>3, QuietFrameKeeps, RequestFrameKeeps, StreamFrameKeeps

-----------------------------------------------------------------------------
(***************************************************************************)
(* The specification.                                                      *)
(***************************************************************************)

LEMMA InitProvider == CodexInit => ProviderInv
<1> SUFFICES ASSUME CodexInit PROVE ProviderInv
  OBVIOUS
<1> USE DEF CodexInit
<1>1. CodexTypeOK
  <2>1. /\ call \in [Calls -> {"idle", "starting", "initializing", "initialized", "opened", "sharing",
                             "requesting", "answered", "running", "done", "failed"}]
        /\ malformed \in [Calls -> 0..(MalformedLimit + 1)]
        /\ nextId \in [Calls -> Nat] /\ pending \in [Calls -> SUBSET Requests]
    BY CodexAssumption
  <2>2. buffer \in [Turns -> Seq(Signals \X Turns)] /\ \A c \in Turns : Len(buffer[c]) <= BufferMax
    <3>1. <<>> \in Seq(Signals \X Turns) /\ Len(<<>>) <= BufferMax
      BY CodexAssumption
    <3> QED
      BY <3>1
  <2>3. /\ ended \in [Turns -> Outcomes \cup {"none"}] /\ idle \in [Turns -> {"off", "fresh", "due"}]
        /\ asked \in [Processes -> SUBSET Requests]
        /\ native \in [Turns -> {"none", "running", "ended", "gone"}]
        /\ follows \in [Turns -> Turns \cup {None}]
    OBVIOUS
  <2> QED
    BY <2>1, <2>2, <2>3 DEF CodexTypeOK
<1>2. ChannelInv
  BY DEF ChannelInv, Up
<1>3. PlaceInv
  <2>1. \A c \in Calls : call[c] = "idle" /\ via[c] = None /\ transport[c] = "none"
    OBVIOUS
  <2> QED
    BY <2>1 DEF PlaceInv, PlaceOf, Placed
<1>4. RequestInv
  <2>1. \A c \in Calls : call[c] = "idle" /\ threads[c] = "none" /\ pending[c] = {}
    OBVIOUS
  <2>2. \A p \in Processes : asked[p] = {}
    OBVIOUS
  <2> QED
    BY <2>1, <2>2 DEF RequestInv
<1>5. TurnInv /\ HonestOutcome /\ StalledIsInterrupted
  <2>1. \A c \in Turns : /\ ended[c] = "none" /\ idle[c] = "off" /\ call[c] = "idle"
                         /\ follows[c] = None /\ Len(buffer[c]) = 0
    BY DEF Calls
  <2> QED
    BY <2>1 DEF TurnInv, TurnOf, BufferedEnds, HonestOutcome, StalledIsInterrupted
<1>6. SoleInv /\ SessionIsOpen
  <2>1. Opening = {} /\ (\A p \in Processes : ~Up(p)) /\ \A t \in Calls : transport[t] # "open"
    BY DEF Opening, Up
  <2> QED
    BY <2>1 DEF SoleInv, SessionIsOpen
<1> QED
  BY <1>1, <1>2, <1>3, <1>4, <1>5, <1>6 DEF ProviderInv

LEMMA NextProvider ==
    ASSUME ProviderInv, [CodexNext]_codexVars
    PROVE  ProviderInv'
<1>1. CASE Dispose
  BY <1>1, DisposeKeeps
<1>2. ASSUME NEW c \in Calls,
             Invoke(c) \/ Spawned(c) \/ ExecutableMissing(c) \/ Initialized(c) \/ EnsureThread(c)
             \/ StartTurn(c) \/ Answered(c)
      PROVE  ProviderInv'
  BY <1>2, InvokeKeeps, SpawnedKeeps, ExecutableMissingKeeps, InitializedKeeps,
     EnsureThreadKeeps,
     StartTurnKeeps, AnsweredKeeps
<1>3. ASSUME NEW c \in Calls, NEW m \in pending[c], RequestTimeout(c, m) PROVE ProviderInv'
  BY <1>3, RequestTimeoutSettles, SettlingKeeps
<1>4. ASSUME NEW p \in Processes, InvalidNotification(p) \/ MalformedLine(p) \/ Exit(p) PROVE ProviderInv'
  BY <1>4, InvalidNotificationSettles, MalformedLineSettles, ExitSettles, SettlingKeeps
<1>5. ASSUME NEW p \in Processes, NEW q \in asked[p], NativeStarts(p, q) PROVE ProviderInv'
  BY <1>5, NativeStartsKeeps
<1>6. ASSUME NEW p \in Processes, NEW q \in asked[p], NEW ok \in BOOLEAN, Response(p, q, ok)
      PROVE  ProviderInv'
  BY <1>6, ResponseSettles, SettlingKeeps
<1>7. ASSUME NEW p \in Processes, NEW signal \in Signals, NEW n \in Turns, Notification(p, signal, n)
      PROVE  ProviderInv'
  BY <1>7, NotificationKeeps
<1>8. ASSUME NEW c \in Turns, IdleTick(c) \/ IdleDeadline(c) \/ Cancel(c) PROVE ProviderInv'
  BY <1>8, IdleTickKeeps, IdleDeadlineKeeps, CancelKeeps
<1>9. CASE UNCHANGED codexVars
  BY <1>9, StutterKeeps
<1> QED
  BY <1>1, <1>2, <1>3, <1>4, <1>5, <1>6, <1>7, <1>8, <1>9 DEF CodexNext

LEMMA CodexInvariance == CodexSpec => []ProviderInv
<1>1. CodexInit => ProviderInv
  BY InitProvider
<1>2. ProviderInv /\ [CodexNext]_codexVars => ProviderInv'
  BY NextProvider
<1> QED
  BY <1>1, <1>2, PTL DEF CodexSpec

\* What waits has its request: the invariant names it.
LEMMA IInvWaits == ProviderInv => WaitsForRequest
<1> SUFFICES ASSUME ProviderInv PROVE WaitsForRequest
  OBVIOUS
<1>1. ASSUME NEW c \in Calls, call[c] \in {"initializing", "requesting", "sharing"}
      PROVE  via[c] \in Calls
  BY <1>1, CodexAssumption DEF ProviderInv, PlaceInv, PlaceOf, Placed, CodexTypeOK
<1>2. ASSUME NEW c \in Calls, call[c] \in {"initializing", "requesting"}
      PROVE  transport[via[c]] = "open" /\ \E m \in pending[via[c]] : m.call = c
  <2>1. PICK m \in pending[via[c]] : m.call = c
    BY <1>2 DEF ProviderInv, RequestInv
  <2> QED
    BY <1>1, <1>2, <2>1 DEF ProviderInv, RequestInv, Fits
<1>3. ASSUME NEW c \in Calls, call[c] = "sharing"
      PROVE  \E m \in pending[via[c]] : m.kind = "thread/start" /\ m.call # c
  <2>1. via[c] \in Calls /\ threads[via[c]] = "creating"
    BY <1>1, <1>3 DEF ProviderInv, RequestInv
  <2>2. PICK m \in pending[via[c]] : m.kind = "thread/start"
    BY <2>1 DEF ProviderInv, RequestInv
  <2>3. call[m.call] = "requesting"
    BY <2>1, <2>2 DEF ProviderInv, RequestInv, Fits
  <2> QED
    BY <1>3, <2>2, <2>3
<1> QED
  BY <1>2, <1>3 DEF WaitsForRequest

\* However many invocations use a Codex app-server, however its processes fail and whatever
\* they write: a definite outcome is what the app-server said, a turn that is given up on an
\* open transport is interrupted first, the session that later invocations reuse is open or
\* was drained without anybody clearing it, and who waits has its request in the map of an
\* open transport (codex-provider's openSession and invoke, CodexTurnStream and
\* CodexAppServerTransport).
THEOREM ProviderSafe == CodexSpec => []ProviderAccounted
<1>1. ProviderInv => ProviderAccounted
  BY IInvWaits DEF ProviderInv, ProviderAccounted
<1> QED
  BY <1>1, CodexInvariance, PTL

\* A stream that ended is over, and each action that ends one ends a stream that is not.
LEMMA EndedStays ==
    ASSUME ProviderInv, [CodexNext]_codexVars, NEW c \in Turns, ended[c] # "none"
    PROVE  ended'[c] = ended[c]
<1> USE DEF ProviderInv
<1>1. c \in Calls /\ call[c] = "done" /\ idle[c] = "off"
  BY DEF TurnInv, TurnOf, Calls
<1>2. ASSUME SettlingStep PROVE ended'[c] = ended[c]
  <2>1. PICK rej \in SUBSET Requests, res \in SUBSET Requests, drained \in SUBSET Calls,
             gone \in SUBSET Turns : TransportsMoved(rej, res, drained, gone)
    BY <1>2, Settled
  <2> QED
    BY <1>1, <2>1 DEF TransportsMoved
<1>3. CASE Dispose
  BY <1>3 DEF Dispose
<1>4. ASSUME NEW d \in Calls,
             Invoke(d) \/ Spawned(d) \/ ExecutableMissing(d) \/ Initialized(d) \/ EnsureThread(d)
             \/ StartTurn(d)
      PROVE  ended'[c] = ended[c]
  BY <1>4
  DEF Invoke, Spawned, ExecutableMissing, Initialized, EnsureThread, StartTurn, streamVars
<1>5. ASSUME NEW d \in Calls, Answered(d) PROVE ended'[c] = ended[c]
  <2>1. d # c /\ (ended' = ended \/ ended' = [ended EXCEPT ![d] = EndInBuffer(d)])
    BY <1>1, <1>5 DEF Answered, Finish
  <2> QED
    BY <2>1 DEF CodexTypeOK
<1>6. ASSUME NEW d \in Calls, NEW m \in pending[d], RequestTimeout(d, m) PROVE ended'[c] = ended[c]
  BY <1>2, <1>6, RequestTimeoutSettles
<1>7. ASSUME NEW p \in Processes, InvalidNotification(p) \/ MalformedLine(p) \/ Exit(p)
      PROVE  ended'[c] = ended[c]
  BY <1>2, <1>7, InvalidNotificationSettles, MalformedLineSettles, ExitSettles
<1>8. ASSUME NEW p \in Processes, NEW q \in asked[p], NEW ok \in BOOLEAN, Response(p, q, ok)
      PROVE  ended'[c] = ended[c]
  BY <1>2, <1>8, ResponseSettles
<1>9. ASSUME NEW p \in Processes, NEW q \in asked[p], NativeStarts(p, q) PROVE ended'[c] = ended[c]
  BY <1>9 DEF NativeStarts, streamVars
<1>10. ASSUME NEW p \in Processes, NEW signal \in Signals, NEW n \in Turns, Notification(p, signal, n)
       PROVE  ended'[c] = ended[c]
  <2>1. c \notin Hears
    BY <1>1 DEF Hears
  <2> QED
    BY <1>10, <2>1 DEF Notification
<1>11. ASSUME NEW d \in Turns, IdleTick(d) \/ Cancel(d) PROVE ended'[c] = ended[c]
  BY <1>11 DEF IdleTick, Cancel
<1>12. ASSUME NEW d \in Turns, IdleDeadline(d) PROVE ended'[c] = ended[c]
  <2>1. d # c /\ ended' = [ended EXCEPT ![d] = TransportFailure]
    BY <1>1, <1>12 DEF IdleDeadline, Finish
  <2> QED
    BY <2>1 DEF CodexTypeOK
<1>13. CASE UNCHANGED codexVars
  BY <1>13 DEF codexVars
<1> QED
  BY <1>3, <1>4, <1>5, <1>6, <1>7, <1>8, <1>9, <1>10, <1>11, <1>12, <1>13 DEF CodexNext

\* A Codex turn has one outcome: what would end it again -- the idle deadline, a late
\* notification, the loss of its transport -- does not replace it (CodexTurnStream.#finish).
THEOREM ProviderHasOneOutcome == CodexSpec => OneOutcome
<1>1. ProviderInv /\ [CodexNext]_codexVars
        => [\A c \in Turns : ended[c] # "none" => ended'[c] = ended[c]]_codexVars
  BY EndedStays
<1> QED
  BY <1>1, CodexInvariance, PTL DEF CodexSpec, OneOutcome

-----------------------------------------------------------------------------
(***************************************************************************)
(* The bundled services.                                                   *)
(***************************************************************************)

USE DesktopAssumption

\* The entry of a service is that of its last process, and only that process can be there.
Owned ==
    /\ \A k \in Children : child[k] \notin {"unused", "over"} => current[owner[k]] = k
    /\ \A k \in Children : child[k] # "unused" => status[owner[k]] # "idle"
    /\ \A s \in 1..2 :
          current[s] # NoChild => owner[current[s]] = s /\ child[current[s]] # "unused"
    /\ \A s \in 1..2 : status[s] = "idle" <=> current[s] = NoChild
    /\ \A k \in checking : child[k] # "unused"

\* The boot sequence waits for a process it started, and has started no later service.
Booted ==
    /\ bootChild # NoChild => bootChild \in checking /\ booting \in 1..2
    /\ \A s \in 1..2 :
          booting # 0 /\ (s > booting \/ (s = booting /\ bootChild = NoChild)) => status[s] = "idle"

\* An answer that came too late is of a process whose exit came while it was probed; and a
\* status set for the service's own process is true as soon as nobody waits for the process.
Told ==
    /\ quitting => \A k \in Children : child[k] # "live"
    /\ \A k \in probed : child[k] = "over" => k \in unseen
    /\ ~quitting => \A s \in 1..2 : current[s] # NoChild /\ speaker[s] = current[s] =>
          /\ child[current[s]] = "live" => status[s] \in {"starting", "running"}
          /\ status[s] = "starting" => current[s] \in checking
          /\ status[s] = "running" => child[current[s]] # "over" \/ current[s] \in unseen

\* The head of the chain has an entry.
Queued == leaving # "none" => queue # <<>> /\ current[Head(queue)] # NoChild

ServiceInv ==
    /\ Bundled!ServiceTypeOK
    /\ Queued /\ Owned /\ Booted /\ Told

LEMMA TwoServices == DOMAIN Services = 1..2 /\ Len(Services) = 2
  BY DEF Services

LEMMA InitServices == Bundled!Init => ServiceInv
<1> SUFFICES ASSUME Bundled!Init PROVE ServiceInv
  OBVIOUS
<1>1. queue \in Seq(DOMAIN Services)
  BY DEF Bundled!Init
<1>2. Bundled!ServiceTypeOK
  <2>1. /\ owner \in [Children -> DOMAIN Services] /\ restarts \in 0..MaxRestarts
        /\ booting \in 0..Len(Services) + 1
    BY TwoServices DEF Bundled!Init
  <2> QED
    BY <1>1, <2>1, TwoServices
    DEF Bundled!Init, Bundled!ServiceTypeOK, Bundled!Statuses, Bundled!Waits
<1>3. Queued /\ Owned /\ Booted /\ Told
  BY TwoServices DEF Bundled!Init, Queued, Owned, Booted, Told
<1> QED
  BY <1>2, <1>3 DEF ServiceInv

\* start() of a service none of whose processes is left.
LEMMA StartChildKeeps ==
    ASSUME ServiceInv, NEW s \in 1..2, NEW k \in Children, Bundled!StartChild(s, k),
           ~quitting, UNCHANGED quitting,
           \A other \in Children : owner[other] = s => child[other] \in {"unused", "over"}
    PROVE  /\ Owned' /\ Told' /\ checking' = checking \cup {k} /\ status'[s] # "idle"
           /\ \A other \in 1..2 \ {s} : status'[other] = status[other]
           /\ status' \in [1..2 -> Bundled!Statuses] /\ current' \in [1..2 -> Children \cup {NoChild}]
           /\ child' \in [Children -> {"unused", "live", "leaving", "exited", "over"}]
           /\ owner' \in [Children -> 1..2] /\ probed' \subseteq checking' /\ checking' \subseteq Children
           /\ speaker' \in [1..2 -> Children \cup {NoChild}] /\ unseen' \subseteq Children
<1>1. /\ status' \in [1..2 -> Bundled!Statuses] /\ current' \in [1..2 -> Children \cup {NoChild}]
      /\ child' \in [Children -> {"unused", "live", "leaving", "exited", "over"}]
      /\ owner' \in [Children -> 1..2] /\ probed' \subseteq checking' /\ checking' \subseteq Children
      /\ speaker' \in [1..2 -> Children \cup {NoChild}] /\ unseen' \subseteq Children
  BY TwoServices
  DEF ServiceInv, Bundled!ServiceTypeOK, Bundled!StartChild, Bundled!SetStatus, Bundled!Statuses
<1>2. Owned'
  BY TwoServices
  DEF ServiceInv, Bundled!ServiceTypeOK, Bundled!StartChild, Bundled!SetStatus, Owned
<1>3. Told'
  BY TwoServices
  DEF ServiceInv, Bundled!ServiceTypeOK, Bundled!StartChild, Bundled!SetStatus, Owned, Told
<1> QED
  BY <1>1, <1>2, <1>3, TwoServices
  DEF ServiceInv, Bundled!ServiceTypeOK, Bundled!StartChild, Bundled!SetStatus

LEMMA BootKeeps ==
    ASSUME ServiceInv, NEW k \in Children, Bundled!Boot(k)
    PROVE  ServiceInv'
<1>1. booting \in 1..2 /\ status[booting] = "idle" /\ bootChild = NoChild /\ ~quitting
  BY TwoServices DEF ServiceInv, Booted, Bundled!Boot
<1>2. Bundled!StartChild(booting, k) /\ bootChild' = k
      /\ UNCHANGED <<booting, queue, leaving, restarts, quitting>>
  BY <1>1 DEF Bundled!Boot
<1>3. \A other \in Children : owner[other] = booting => child[other] \in {"unused", "over"}
  BY <1>1 DEF ServiceInv, Owned
<1>4. Booted'
  BY <1>1, <1>2, <1>3, StartChildKeeps DEF ServiceInv, Booted
<1>5. Queued'
  <2>1. leaving # "none" => Head(queue) # booting /\ Head(queue) \in 1..2
    BY <1>1, TwoServices DEF ServiceInv, Owned, Queued, Bundled!ServiceTypeOK
  <2> QED
    BY <1>1, <1>2, <2>1, TwoServices
    DEF ServiceInv, Queued, Bundled!StartChild, Bundled!ServiceTypeOK
<1> QED
  BY <1>1, <1>2, <1>3, <1>4, <1>5, StartChildKeeps, TwoServices
  DEF ServiceInv, Bundled!ServiceTypeOK

LEMMA RestartStartsKeeps ==
    ASSUME ServiceInv, NEW k \in Children, Bundled!RestartStarts(k)
    PROVE  ServiceInv'
<1>1. PICK s \in 1..2 : s = Head(queue)
  BY TwoServices DEF ServiceInv, Queued, Bundled!ServiceTypeOK, Bundled!RestartStarts, Bundled!GoesOn
<1>2. /\ Bundled!StartChild(s, k) /\ ~quitting /\ leaving' = "start" /\ child[current[s]] = "over"
      /\ UNCHANGED <<booting, bootChild, queue, restarts, quitting>>
  BY <1>1 DEF Bundled!RestartStarts, Bundled!GoesOn
<1>3. /\ \A other \in Children : owner[other] = s => child[other] \in {"unused", "over"}
      /\ queue # <<>> /\ current[s] # NoChild /\ status[s] # "idle"
  BY <1>1, <1>2 DEF ServiceInv, Owned, Queued, Bundled!RestartStarts, Bundled!GoesOn
<1>4. Booted'
  BY <1>2, <1>3, StartChildKeeps DEF ServiceInv, Booted
<1>5. Queued'
  BY <1>1, <1>2, <1>3, TwoServices
  DEF Queued, ServiceInv, Bundled!ServiceTypeOK, Bundled!StartChild
<1> QED
  BY <1>2, <1>3, <1>4, <1>5, StartChildKeeps, TwoServices
  DEF ServiceInv, Bundled!ServiceTypeOK, Bundled!Waits

LEMMA CheckEndsKeeps ==
    ASSUME ServiceInv, NEW k \in Children, NEW healthy \in BOOLEAN, Bundled!CheckEnds(k, healthy)
    PROVE  ServiceInv'
<1>1. /\ owner[k] \in 1..2 /\ status[owner[k]] # "idle" /\ k \in checking /\ checking' = checking \ {k}
      /\ status' = [status EXCEPT ![owner[k]] = IF healthy THEN "running" ELSE "failed"]
      /\ child' = [child EXCEPT ![k] = IF ~healthy /\ @ = "live" THEN "leaving" ELSE @]
      /\ (k \in probed <=> healthy) /\ probed' = probed \ {k}
      /\ speaker' = [speaker EXCEPT ![owner[k]] = k]
      /\ UNCHANGED <<current, owner, restarts, quitting, unseen>> /\ ~quitting
  BY TwoServices
  DEF ServiceInv, Owned, Bundled!ServiceTypeOK, Bundled!CheckEnds, Bundled!SetStatus
<1>2. Owned'
  BY <1>1, TwoServices DEF ServiceInv, Owned, Bundled!ServiceTypeOK
<1>3. Told'
  BY <1>1, TwoServices DEF ServiceInv, Owned, Told, Bundled!ServiceTypeOK
<1>4. Booted'
  BY <1>1, TwoServices DEF ServiceInv, Booted, Bundled!ServiceTypeOK, Bundled!CheckEnds
<1>5. Queued'
  BY <1>1 DEF ServiceInv, Queued, Bundled!CheckEnds
<1>6. queue' \in Seq(DOMAIN Services)
  <2>1. queue' = queue \/ (queue' = Tail(queue) /\ queue # <<>>)
    BY DEF ServiceInv, Queued, Bundled!CheckEnds
  <2>2. queue \in Seq(DOMAIN Services) /\ (queue # <<>> => Tail(queue) \in Seq(DOMAIN Services))
    BY DEF ServiceInv, Bundled!ServiceTypeOK
  <2> QED
    BY <2>1, <2>2
<1>7. booting' \in 0..(Len(Services) + 1) /\ bootChild' \in Children \cup {NoChild}
  BY TwoServices DEF ServiceInv, Booted, Bundled!ServiceTypeOK, Bundled!CheckEnds
<1>8. leaving' \in Bundled!Waits
  BY DEF ServiceInv, Bundled!ServiceTypeOK, Bundled!CheckEnds, Bundled!Waits
<1>9. Bundled!ServiceTypeOK'
  BY <1>1, <1>6, <1>7, <1>8, TwoServices DEF ServiceInv, Bundled!ServiceTypeOK, Bundled!Statuses
<1> QED
  BY <1>2, <1>3, <1>4, <1>5, <1>9 DEF ServiceInv

LEMMA RestartStopsKeeps ==
    ASSUME ServiceInv, Bundled!RestartStops
    PROVE  ServiceInv'
<1>1. PICK s \in 1..2 : s = Head(queue)
  BY TwoServices DEF ServiceInv, Bundled!ServiceTypeOK, Bundled!RestartStops
<1>2. queue' \in Seq(DOMAIN Services)
  <2>1. queue' = queue \/ (queue' = Tail(queue) /\ queue # <<>>)
    BY DEF Bundled!RestartStops
  <2>2. queue \in Seq(DOMAIN Services) /\ (queue # <<>> => Tail(queue) \in Seq(DOMAIN Services))
    BY DEF ServiceInv, Bundled!ServiceTypeOK
  <2> QED
    BY <2>1, <2>2
<1>3. CASE status[s] = "idle"
  <2>1. /\ leaving = "none"
        /\ UNCHANGED <<status, child, leaving, speaker, unseen, current, owner, checking, probed,
            booting, bootChild, restarts, quitting>>
    BY <1>1, <1>3 DEF Bundled!RestartStops
  <2> QED
    BY <1>2, <2>1 DEF ServiceInv, Bundled!ServiceTypeOK, Queued, Owned, Booted, Told
<1>4. CASE status[s] # "idle"
  <2>1. /\ current[s] \in Children /\ queue # <<>> /\ UNCHANGED queue
        /\ status' = [status EXCEPT ![s] = "stopped"] /\ leaving' = "exit"
        /\ child' = [child EXCEPT ![current[s]] = IF @ = "live" THEN "leaving" ELSE @]
        /\ speaker' = [speaker EXCEPT ![s] = current[s]]
        /\ UNCHANGED <<current, owner, checking, probed, booting, bootChild, restarts, quitting, unseen>>
    BY <1>1, <1>4, TwoServices
    DEF ServiceInv, Owned, Bundled!ServiceTypeOK, Bundled!RestartStops, Bundled!SetStatus,
        Bundled!Signalled
  <2>2. Bundled!ServiceTypeOK'
    BY <1>2, <2>1, TwoServices
    DEF ServiceInv, Bundled!ServiceTypeOK, Bundled!Statuses, Bundled!Waits
  <2>3. Queued' /\ Booted'
    BY <1>1, <1>4, <2>1, TwoServices
    DEF ServiceInv, Bundled!ServiceTypeOK, Queued, Owned, Booted
  <2>4. Owned'
    BY <1>4, <2>1, TwoServices DEF ServiceInv, Bundled!ServiceTypeOK, Owned
  <2>5. Told'
    BY <2>1, TwoServices DEF ServiceInv, Bundled!ServiceTypeOK, Owned, Told
  <2> QED
    BY <2>2, <2>3, <2>4, <2>5 DEF ServiceInv
<1> QED
  BY <1>3, <1>4

LEMMA AskRestartKeeps ==
    ASSUME ServiceInv, NEW s \in DOMAIN Services, Bundled!AskRestart(s)
    PROVE  ServiceInv'
<1>1. queue' \in Seq(DOMAIN Services) /\ (queue # <<>> => queue' # <<>> /\ Head(queue') = Head(queue))
  BY DEF ServiceInv, Bundled!ServiceTypeOK, Bundled!AskRestart
<1> QED
  BY <1>1 DEF ServiceInv, Bundled!ServiceTypeOK, Bundled!AskRestart, Queued, Owned, Booted, Told

LEMMA ProcessKeeps ==
    ASSUME ServiceInv, NEW k \in Children, Bundled!ChildExits(k) \/ Bundled!ExitEvent(k)
    PROVE  ServiceInv'
<1>1. CASE Bundled!ChildExits(k)
  BY <1>1, TwoServices
  DEF Bundled!ChildExits, ServiceInv, Bundled!ServiceTypeOK, Queued, Owned, Booted, Told
<1>2. CASE Bundled!ExitEvent(k)
  <2>1. /\ owner[k] \in 1..2 /\ current[owner[k]] = k /\ status[owner[k]] # "idle"
        /\ status' = [status EXCEPT ![owner[k]] = IF @ = "stopped" THEN @ ELSE "crashed"]
        /\ speaker' = [speaker EXCEPT ![owner[k]] = IF status[owner[k]] = "stopped" THEN @ ELSE k]
        /\ child[k] = "exited" /\ child' = [child EXCEPT ![k] = "over"]
        /\ unseen' = unseen \cup ({k} \cap probed)
        /\ UNCHANGED <<current, owner, checking, probed, booting, bootChild, queue, leaving, restarts,
            quitting>>
    BY <1>2, TwoServices
    DEF Bundled!ExitEvent, Bundled!MarkCrashed, Bundled!SetStatus, ServiceInv,
        Bundled!ServiceTypeOK, Owned
  <2>2. Bundled!ServiceTypeOK' /\ Queued'
    BY <1>2, <2>1, TwoServices
    DEF Bundled!ExitEvent, ServiceInv, Bundled!ServiceTypeOK, Bundled!Statuses, Queued
  <2>3. Owned' /\ Booted'
    BY <1>2, <2>1, TwoServices
    DEF Bundled!ExitEvent, ServiceInv, Bundled!ServiceTypeOK, Owned, Booted
  <2>4. Told'
    BY <1>2, <2>1, TwoServices
    DEF Bundled!ExitEvent, ServiceInv, Bundled!ServiceTypeOK, Owned, Told
  <2> QED
    BY <2>2, <2>3, <2>4 DEF ServiceInv
<1> QED
  BY <1>1, <1>2

LEMMA ProbeKeeps ==
    ASSUME ServiceInv, NEW k \in Children, Bundled!Probe(k) \/ Bundled!ProbeFails(k)
    PROVE  ServiceInv'
  BY DEF Bundled!Probe, Bundled!ProbeFails, ServiceInv, Bundled!ServiceTypeOK, Queued, Owned,
     Booted, Told

LEMMA QuitKeeps ==
    ASSUME ServiceInv, Bundled!Quit
    PROVE  ServiceInv'
<1>1. Bundled!ServiceTypeOK' /\ Queued'
  BY DEF Bundled!Quit, ServiceInv, Bundled!ServiceTypeOK, Bundled!Statuses, Queued
<1>2. Owned' /\ Booted'
  BY TwoServices DEF Bundled!Quit, ServiceInv, Bundled!ServiceTypeOK, Owned, Booted
<1>3. Told'
  BY TwoServices DEF Bundled!Quit, ServiceInv, Bundled!ServiceTypeOK, Owned, Told
<1> QED
  BY <1>1, <1>2, <1>3 DEF ServiceInv

LEMMA NextServices == ServiceInv /\ [Bundled!Next]_serviceVars => ServiceInv'
<1> SUFFICES ASSUME ServiceInv, [Bundled!Next]_serviceVars PROVE ServiceInv'
  OBVIOUS
<1>1. CASE UNCHANGED serviceVars
  BY <1>1 DEF serviceVars, ServiceInv, Bundled!ServiceTypeOK, Queued, Owned, Booted, Told
<1> QED
  BY <1>1, BootKeeps, RestartStartsKeeps, CheckEndsKeeps, RestartStopsKeeps, AskRestartKeeps,
     ProcessKeeps, ProbeKeeps, QuitKeeps
  DEF Bundled!Next

LEMMA ServicesHold == ServiceInv => Bundled!OneChild /\ Bundled!StatusIsTrue
<1> SUFFICES ASSUME ServiceInv PROVE Bundled!OneChild /\ Bundled!StatusIsTrue
  OBVIOUS
<1>1. Bundled!OneChild
  BY TwoServices DEF ServiceInv, Owned, Told, Bundled!Alive, Bundled!OneChild
<1>2. Bundled!StatusIsTrue
  BY TwoServices
  DEF ServiceInv, Bundled!ServiceTypeOK, Owned, Told, Bundled!Alive, Bundled!StatusIsTrue
<1> QED
  BY <1>1, <1>2

-----------------------------------------------------------------------------
(***************************************************************************)
(* The global shortcuts.                                                   *)
(***************************************************************************)

\* A state of the process and of the system in which a key triggers the action that has it.
Agreed(b) ==
    /\ b \in Shortcuts!Bindings
    /\ \A k \in Keys, a \in 1..2 : b.system[k] = a <=> b.registered[a] = k

ShortcutsInv == Shortcuts!ShortcutsTypeOK /\ Shortcuts!ShortcutsAgree

\* The keys the actions may be given.
Choice(keys) == keys \in [1..2 -> Keys \cup {NoKey}]

LEMMA UnboundAgrees ==
    Agreed(Shortcuts!Unbound) /\ Shortcuts!Unbound.registered = [a \in 1..2 |-> NoKey]
  BY DEF Agreed, Shortcuts!Unbound, Shortcuts!Bindings, Shortcuts!Actions, Shortcuts!NoAction

\* unregisterOne leaves the action without a key, and the other actions alone.
LEMMA UnregisterOneAgrees ==
    ASSUME NEW b, Agreed(b), NEW a \in 1..2
    PROVE  /\ Agreed(Shortcuts!UnregisterOne(b, a))
           /\ Shortcuts!UnregisterOne(b, a).registered = [b.registered EXCEPT ![a] = NoKey]
<1>1. CASE b.registered[a] = NoKey
  <2>1. b.registered = [b.registered EXCEPT ![a] = NoKey]
    BY <1>1 DEF Agreed, Shortcuts!Bindings, Shortcuts!Actions
  <2> QED
    BY <1>1, <2>1 DEF Shortcuts!UnregisterOne
<1>2. CASE b.registered[a] # NoKey
  <2> DEFINE r == [b.registered EXCEPT ![a] = NoKey]
             s == [b.system EXCEPT ![b.registered[a]] = 0]
  <2>1. Shortcuts!UnregisterOne(b, a) = [registered |-> r, system |-> s]
    BY <1>2 DEF Shortcuts!UnregisterOne, Shortcuts!NoAction
  <2>2. /\ r \in [1..2 -> Keys \cup {NoKey}] /\ s \in [Keys -> 1..2 \cup {0}]
        /\ \A k \in Keys, other \in 1..2 : s[k] = other <=> r[other] = k
    BY <1>2 DEF Agreed, Shortcuts!Bindings, Shortcuts!Actions, Shortcuts!NoAction
  <2> HIDE DEF r, s
  <2>3. Agreed([registered |-> r, system |-> s])
    BY <2>2 DEF Agreed, Shortcuts!Bindings, Shortcuts!Actions, Shortcuts!NoAction
  <2> QED
    BY <2>1, <2>3 DEF r
<1> QED
  BY <1>1, <1>2

\* Releasing a key leaves the action that had it without one, and the system without the key.
LEMMA ReleasedAgrees ==
    ASSUME NEW b, Agreed(b), NEW k \in Keys
    PROVE  /\ Agreed(Shortcuts!Released(b, k))
           /\ Shortcuts!Released(b, k).registered =
                [a \in 1..2 |-> IF b.registered[a] = k THEN NoKey ELSE b.registered[a]]
           /\ Shortcuts!Released(b, k).system[k] = 0
<1> DEFINE r == [a \in 1..2 |-> IF b.registered[a] = k THEN NoKey ELSE b.registered[a]]
           s == [b.system EXCEPT ![k] = 0]
<1>1. Shortcuts!Released(b, k) = [registered |-> r, system |-> s]
  BY DEF Shortcuts!Released, Shortcuts!NoAction, Shortcuts!Actions
<1>2. /\ r \in [1..2 -> Keys \cup {NoKey}] /\ s \in [Keys -> 1..2 \cup {0}] /\ s[k] = 0
      /\ \A key \in Keys, other \in 1..2 : s[key] = other <=> r[other] = key
  BY DEF Agreed, Shortcuts!Bindings, Shortcuts!Actions, Shortcuts!NoAction
<1> HIDE DEF r, s
<1>3. Agreed([registered |-> r, system |-> s])
  BY <1>2 DEF Agreed, Shortcuts!Bindings, Shortcuts!Actions, Shortcuts!NoAction
<1> QED
  BY <1>1, <1>2, <1>3 DEF r

\* applyOne: the action has the key unless the system refused it, nobody else has it, and
\* every other action has what it had.
LEMMA ApplyOneAgrees ==
    ASSUME NEW b, Agreed(b), NEW a \in 1..2, NEW k \in Keys
    PROVE  /\ Agreed(Shortcuts!ApplyOne(b, a, k))
           /\ Shortcuts!ApplyOne(b, a, k).registered[a] = IF k \in others THEN NoKey ELSE k
           /\ \A other \in 1..2 \ {a} :
                 Shortcuts!ApplyOne(b, a, k).registered[other] =
                     IF b.registered[other] = k THEN NoKey ELSE b.registered[other]
<1> DEFINE free == Shortcuts!Released(Shortcuts!UnregisterOne(b, a), k)
<1>1. /\ Agreed(free) /\ free.system[k] = 0 /\ free.registered[a] = NoKey
      /\ \A other \in 1..2 \ {a} :
            free.registered[other] = IF b.registered[other] = k THEN NoKey ELSE b.registered[other]
  <2>1. b.registered \in [1..2 -> Keys \cup {NoKey}]
    BY DEF Agreed, Shortcuts!Bindings, Shortcuts!Actions
  <2>2. Agreed(Shortcuts!UnregisterOne(b, a))
    BY UnregisterOneAgrees
  <2>3. Shortcuts!UnregisterOne(b, a).registered = [b.registered EXCEPT ![a] = NoKey]
    BY UnregisterOneAgrees
  <2>4. /\ Agreed(free) /\ free.system[k] = 0
        /\ free.registered = [other \in 1..2 |->
              IF Shortcuts!UnregisterOne(b, a).registered[other] = k THEN NoKey
              ELSE Shortcuts!UnregisterOne(b, a).registered[other]]
    BY <2>2, ReleasedAgrees
  <2> QED
    BY <2>1, <2>3, <2>4
<1>2. Shortcuts!ApplyOne(b, a, k) =
        IF k \in others THEN free
        ELSE [registered |-> [free.registered EXCEPT ![a] = k],
              system |-> [free.system EXCEPT ![k] = a]]
  BY DEF Shortcuts!ApplyOne
<1> HIDE DEF free
<1>3. CASE k \in others
  BY <1>1, <1>2, <1>3
<1>4. CASE k \notin others
  <2> DEFINE r == [free.registered EXCEPT ![a] = k]
             s == [free.system EXCEPT ![k] = a]
  <2>1. /\ r \in [1..2 -> Keys \cup {NoKey}] /\ s \in [Keys -> 1..2 \cup {0}]
        /\ \A key \in Keys, other \in 1..2 : s[key] = other <=> r[other] = key
        /\ r[a] = k /\ \A other \in 1..2 \ {a} : r[other] = free.registered[other]
    BY <1>1 DEF Agreed, Shortcuts!Bindings, Shortcuts!Actions, Shortcuts!NoAction
  <2>2. Shortcuts!ApplyOne(b, a, k) = [registered |-> r, system |-> s]
    BY <1>2, <1>4
  <2> HIDE DEF r, s
  <2>3. Agreed([registered |-> r, system |-> s])
    BY <2>1 DEF Agreed, Shortcuts!Bindings, Shortcuts!Actions, Shortcuts!NoAction
  <2> QED
    BY <1>1, <1>4, <2>1, <2>2, <2>3
<1> QED
  BY <1>3, <1>4

\* applyAll: an action has the key it is to have, unless the system refused the key or a
\* later action was to have the same one.
LEMMA ApplyAllAgrees ==
    ASSUME NEW keys, Choice(keys)
    PROVE  /\ Agreed(Shortcuts!ApplyAll(keys))
           /\ \A a \in 1..2 :
                 Shortcuts!ApplyAll(keys).registered[a] # keys[a]
                 => a \in Shortcuts!Refused(keys) \cup Shortcuts!Doubled(keys)
<1> DEFINE one == Shortcuts!Bound(Shortcuts!Unbound, 1, keys)
<1>1. /\ Agreed(one) /\ one.registered[2] = NoKey
      /\ one.registered[1] = IF keys[1] \in others THEN NoKey ELSE keys[1]
  <2>1. CASE keys[1] = NoKey
    BY <2>1, UnboundAgrees DEF Shortcuts!Bound
  <2>2. CASE keys[1] # NoKey
    <3>1. PICK a \in 1..2, k \in Keys : a = 1 /\ k = keys[1]
      BY <2>2 DEF Choice
    <3>2. one = Shortcuts!ApplyOne(Shortcuts!Unbound, a, k)
      BY <3>1, <2>2 DEF Shortcuts!Bound
    <3> HIDE DEF one
    <3>3. /\ Agreed(one) /\ one.registered[a] = IF k \in others THEN NoKey ELSE k
          /\ \A other \in 1..2 \ {a} :
                one.registered[other] = IF Shortcuts!Unbound.registered[other] = k THEN NoKey
                                        ELSE Shortcuts!Unbound.registered[other]
      BY <3>2, UnboundAgrees, ApplyOneAgrees
    <3> QED
      BY <3>1, <3>3, UnboundAgrees
  <2> QED
    BY <2>1, <2>2
<1>2. Shortcuts!ApplyAll(keys) =
        IF keys[2] = NoKey THEN one ELSE Shortcuts!ApplyOne(one, 2, keys[2])
  BY DEF Shortcuts!ApplyAll, Shortcuts!Bound
<1> HIDE DEF one
<1>3. CASE keys[2] = NoKey
  BY <1>1, <1>2, <1>3 DEF Shortcuts!Refused, Shortcuts!Actions
<1>4. CASE keys[2] # NoKey
  <2>1. /\ Agreed(Shortcuts!ApplyAll(keys))
        /\ Shortcuts!ApplyAll(keys).registered[2] = IF keys[2] \in others THEN NoKey ELSE keys[2]
        /\ Shortcuts!ApplyAll(keys).registered[1] =
              IF one.registered[1] = keys[2] THEN NoKey ELSE one.registered[1]
    <3>1. PICK a \in 1..2, k \in Keys : a = 2 /\ k = keys[2]
      BY <1>4 DEF Choice
    <3>2. Shortcuts!ApplyAll(keys) = Shortcuts!ApplyOne(one, a, k)
      BY <1>2, <1>4, <3>1
    <3>3. /\ Agreed(Shortcuts!ApplyOne(one, a, k))
          /\ Shortcuts!ApplyOne(one, a, k).registered[a] = IF k \in others THEN NoKey ELSE k
          /\ \A other \in 1..2 \ {a} :
                Shortcuts!ApplyOne(one, a, k).registered[other] =
                    IF one.registered[other] = k THEN NoKey ELSE one.registered[other]
      BY <1>1, ApplyOneAgrees
    <3> QED
      BY <3>1, <3>2, <3>3
  <2> QED
    BY <1>1, <1>4, <2>1 DEF Shortcuts!Refused, Shortcuts!Doubled, Shortcuts!Actions
<1> QED
  BY <1>3, <1>4

\* What ShortcutsInv says of the bindings, and back.
LEMMA AgreedNow ==
    ASSUME ShortcutsInv
    PROVE  Agreed([registered |-> registered, system |-> system])
  BY DEF ShortcutsInv, Shortcuts!ShortcutsTypeOK, Shortcuts!ShortcutsAgree, Agreed,
         Shortcuts!Bindings,
         Shortcuts!Actions, Shortcuts!NoAction

LEMMA AgreedNext ==
    ASSUME NEW b, Agreed(b), Shortcuts!Become(b)
    PROVE  /\ registered' \in [1..2 -> Keys \cup {NoKey}] /\ system' \in [Keys -> 1..2 \cup {0}]
           /\ \A k \in Keys, a \in 1..2 : system'[k] = a <=> registered'[a] = k
  BY DEF Agreed, Shortcuts!Become, Shortcuts!Bindings, Shortcuts!Actions, Shortcuts!NoAction

LEMMA InitShortcuts == Shortcuts!Init \/ (saved = <<NoKey, NoKey>> /\ Idle) => ShortcutsInv
<1>1. CASE Shortcuts!Init
  <2>1. saved \in [1..2 -> Keys \cup {NoKey}]
    BY <1>1 DEF Shortcuts!Init, Shortcuts!Actions
  <2>2. /\ Agreed(Shortcuts!ApplyAll(saved))
        /\ \A a \in 1..2 :
              Shortcuts!ApplyAll(saved).registered[a] # saved[a]
              => a \in Shortcuts!Refused(saved) \cup Shortcuts!Doubled(saved)
    BY <2>1, ApplyAllAgrees DEF Choice
  <2>3. Shortcuts!Doubled(saved) = {}
    BY <1>1 DEF Shortcuts!Init, Shortcuts!Doubled, Shortcuts!Actions, Shortcuts!IsInjective
  <2> QED
    BY <1>1, <2>1, <2>2, <2>3
    DEF Shortcuts!Init, ShortcutsInv, Shortcuts!ShortcutsTypeOK, Shortcuts!ShortcutsAgree,
        Agreed, Shortcuts!Bindings,
        Shortcuts!Actions, Shortcuts!NoAction, Shortcuts!Refused
<1>2. CASE Idle
  BY <1>2 DEF Idle, ShortcutsInv, Shortcuts!ShortcutsTypeOK, Shortcuts!ShortcutsAgree,
        Shortcuts!Actions, Shortcuts!NoAction
<1> QED
  BY <1>1, <1>2

LEMMA ApplyKeeps ==
    ASSUME NEW keys \in [1..2 -> Keys \cup {NoKey}], Shortcuts!Apply(keys), others \subseteq Keys
    PROVE  ShortcutsInv'
<1>1. /\ saved' = keys /\ Shortcuts!Become(Shortcuts!ApplyAll(keys)) /\ others' = others
      /\ failed' = Shortcuts!Refused(keys) /\ taken' = Shortcuts!Doubled(keys)
  BY DEF Shortcuts!Apply
<1>2. /\ Agreed(Shortcuts!ApplyAll(keys))
      /\ \A a \in 1..2 : registered'[a] # keys[a] => a \in failed' \cup taken'
  BY <1>1, ApplyAllAgrees DEF Choice, Shortcuts!Become
<1>3. failed' \subseteq 1..2 /\ taken' \subseteq 1..2
  BY <1>1 DEF Shortcuts!Refused, Shortcuts!Doubled, Shortcuts!Actions
<1> QED
  BY <1>1, <1>2, <1>3, AgreedNext
  DEF ShortcutsInv, Shortcuts!ShortcutsTypeOK, Shortcuts!ShortcutsAgree, Shortcuts!Actions,
      Shortcuts!NoAction

LEMMA SetKeeps ==
    ASSUME ShortcutsInv, NEW a \in 1..2, NEW k \in Keys, Shortcuts!Set(a, k)
    PROVE  ShortcutsInv'
<1> DEFINE b == [registered |-> registered, system |-> system]
           bound == Shortcuts!ApplyOne(b, a, k)
           holders == {other \in 1..2 \ {a} : registered[other] = k}
<1>1. /\ Shortcuts!Become(bound) /\ others' = others
      /\ taken' = (taken \cup holders) \ (IF bound.registered[a] = k THEN {a} ELSE {})
      /\ IF bound.registered[a] = k THEN Shortcuts!Save(a, k)
         ELSE saved' = saved /\ failed' = failed \cup {a}
  BY DEF Shortcuts!Set, Shortcuts!Actions
<1>2. Agreed(b) /\ b.registered = registered
  BY AgreedNow
<1> HIDE DEF b
<1>3. /\ Agreed(bound) /\ bound.registered[a] = IF k \in others THEN NoKey ELSE k
      /\ \A other \in 1..2 \ {a} :
            bound.registered[other] = IF registered[other] = k THEN NoKey ELSE registered[other]
  BY <1>2, ApplyOneAgrees
<1> HIDE DEF bound
<1>4. registered' = bound.registered
  BY <1>1 DEF Shortcuts!Become
<1>5. /\ saved' \in [1..2 -> Keys \cup {NoKey}] /\ failed' \subseteq 1..2 /\ taken' \subseteq 1..2
      /\ \A other \in 1..2 \ {a} :
            saved'[other] = saved[other] /\ (other \in failed => other \in failed')
      /\ saved'[a] = k \/ a \in failed'
  BY <1>1 DEF ShortcutsInv, Shortcuts!ShortcutsTypeOK, Shortcuts!Actions, Shortcuts!Save
<1>6. \A other \in 1..2 : saved'[other] # registered'[other] => other \in failed' \cup taken'
  BY <1>1, <1>3, <1>4, <1>5
  DEF ShortcutsInv, Shortcuts!ShortcutsAgree, Shortcuts!Actions, Shortcuts!ShortcutsTypeOK
<1> QED
  BY <1>1, <1>3, <1>5, <1>6, AgreedNext
  DEF ShortcutsInv, Shortcuts!ShortcutsTypeOK, Shortcuts!ShortcutsAgree, Shortcuts!Actions,
      Shortcuts!NoAction

LEMMA ClearKeeps ==
    ASSUME ShortcutsInv, NEW a \in 1..2, Shortcuts!Clear(a)
    PROVE  ShortcutsInv'
<1> DEFINE b == [registered |-> registered, system |-> system]
           freed == Shortcuts!UnregisterOne(b, a)
<1>1. Shortcuts!Become(freed) /\ others' = others /\ taken' = taken \ {a} /\ Shortcuts!Save(a, NoKey)
  BY DEF Shortcuts!Clear
<1>2. Agreed(b) /\ b.registered = registered
  BY AgreedNow
<1> HIDE DEF b
<1>3. Agreed(freed) /\ freed.registered = [registered EXCEPT ![a] = NoKey]
  BY <1>2, UnregisterOneAgrees
<1> HIDE DEF freed
<1>4. registered' = [registered EXCEPT ![a] = NoKey]
  BY <1>1, <1>3 DEF Shortcuts!Become
<1>5. /\ saved' \in [1..2 -> Keys \cup {NoKey}] /\ failed' \subseteq 1..2 /\ taken' \subseteq 1..2
      /\ \A other \in 1..2 \ {a} :
            saved'[other] = saved[other] /\ (other \in failed => other \in failed')
      /\ saved'[a] = NoKey \/ a \in failed'
  BY <1>1 DEF ShortcutsInv, Shortcuts!ShortcutsTypeOK, Shortcuts!Actions, Shortcuts!Save
<1>6. \A other \in 1..2 : saved'[other] # registered'[other] => other \in failed' \cup taken'
  BY <1>1, <1>4, <1>5
  DEF ShortcutsInv, Shortcuts!ShortcutsAgree, Shortcuts!Actions, Shortcuts!ShortcutsTypeOK
<1> QED
  BY <1>1, <1>3, <1>5, <1>6, AgreedNext
  DEF ShortcutsInv, Shortcuts!ShortcutsTypeOK, Shortcuts!ShortcutsAgree, Shortcuts!Actions,
      Shortcuts!NoAction

LEMMA NextShortcuts == ShortcutsInv /\ [Shortcuts!Next]_shortcutVars => ShortcutsInv'
<1> SUFFICES ASSUME ShortcutsInv, [Shortcuts!Next]_shortcutVars PROVE ShortcutsInv'
  OBVIOUS
<1>1. CASE Shortcuts!ResetDefaults
  <2>1. PICK defaults \in [Shortcuts!Actions -> Keys], unsaved \in SUBSET Shortcuts!Actions :
           Shortcuts!Apply([a \in Shortcuts!Actions |-> IF a \in unsaved THEN saved[a] ELSE defaults[a]])
    BY <1>1 DEF Shortcuts!ResetDefaults
  <2>2. [a \in Shortcuts!Actions |-> IF a \in unsaved THEN saved[a] ELSE defaults[a]]
          \in [1..2 -> Keys \cup {NoKey}] /\ others \subseteq Keys
    BY DEF ShortcutsInv, Shortcuts!ShortcutsTypeOK, Shortcuts!Actions
  <2> QED
    BY <2>1, <2>2, ApplyKeeps
<1>2. CASE Shortcuts!Restart
  BY <1>2, ApplyKeeps
  DEF Shortcuts!Restart, ShortcutsInv, Shortcuts!ShortcutsTypeOK, Shortcuts!Actions
<1>3. ASSUME NEW a \in 1..2, Shortcuts!Clear(a) \/ \E k \in Keys : Shortcuts!Set(a, k) PROVE ShortcutsInv'
  BY <1>3, ClearKeeps, SetKeeps
<1>4. ASSUME NEW k \in Keys, Shortcuts!OtherTakes(k) PROVE ShortcutsInv'
  BY <1>4
  DEF Shortcuts!OtherTakes, ShortcutsInv, Shortcuts!ShortcutsTypeOK, Shortcuts!ShortcutsAgree
<1>5. CASE UNCHANGED shortcutVars
  BY <1>5 DEF shortcutVars, ShortcutsInv, Shortcuts!ShortcutsTypeOK, Shortcuts!ShortcutsAgree
<1> QED
  BY <1>1, <1>2, <1>3, <1>4, <1>5 DEF Shortcuts!Next, Shortcuts!Actions

-----------------------------------------------------------------------------
(***************************************************************************)
(* What holds of both.                                                     *)
(***************************************************************************)

LEMMA ServicesImplied == ServiceInv /\ ShortcutsInv => ServicesAccounted
  BY ServicesHold DEF ServiceInv, ShortcutsInv, ServicesAccounted

LEMMA DesktopStep ==
    ASSUME [DesktopNext]_vars
    PROVE  [Bundled!Next]_serviceVars /\ [Shortcuts!Next]_shortcutVars
<1>1. CASE UNCHANGED vars
  BY <1>1 DEF vars, serviceVars, shortcutVars
<1>2. CASE DesktopNext
  BY <1>2 DEF DesktopNext
<1> QED
  BY <1>1, <1>2

\* However restarts of a bundled service are piled up, while processes start, exit and are
\* replaced, it has one process at most, and a status that was last set for that process is
\* true of it unless the process exited while it was probed (service-manager.ts); and
\* however global shortcuts are set, cleared, reset and refused, a key triggers the one
\* action the main process thinks it does (shortcuts.ts).
THEOREM ServicesSafe == DesktopSpec => []ServicesAccounted
<1>1. DesktopInit => ServiceInv /\ ShortcutsInv
  <2> SUFFICES ASSUME DesktopInit PROVE ServiceInv /\ ShortcutsInv
    OBVIOUS
  <2>1. Bundled!Init /\ (Shortcuts!Init \/ Idle)
    BY DEF DesktopInit
  <2> QED
    BY <2>1, InitServices, InitShortcuts DEF Idle
<1>2. ServiceInv /\ ShortcutsInv /\ [DesktopNext]_vars => ServiceInv' /\ ShortcutsInv'
  BY DesktopStep, NextServices, NextShortcuts
<1> QED
  BY <1>1, <1>2, ServicesImplied, PTL DEF DesktopSpec
=============================================================================
