-------------------------- MODULE HostRegistryProofs --------------------------
(***************************************************************************)
(* Proofs about HostRegistry, for any number of Hosts, calls and restarts. *)
(*                                                                         *)
(* Three facts carry everything.  The store's queue holds each call that   *)
(* waits once, and only its head has gone further than waiting.  The       *)
(* document in memory is the one on disk, except between the rename and    *)
(* the assignment that follows it, when the disk holds the head's          *)
(* document; and that document is what the head's mutation makes of the    *)
(* memory.  And a check made when a call came still holds when its turn    *)
(* comes: an enrollment never finds its Host revoked, because a revocation *)
(* of that Host can only stand behind it.                                  *)
(***************************************************************************)
EXTENDS HostRegistry, TLAPS

\* What the checks of a call in the queue still guarantee.
Justified(r) ==
    /\ r.op = "exchange" => r.host \in issued /\ memory.status[r.host] # "revoked"
    /\ r.op = "revoke" => memory.status[r.host] # "absent"
    /\ r.op = "admit" => r.host \in held

\* The store's queue.
QueueInv ==
    /\ \A i \in 1..Len(queue) : request[queue[i]] # None
    /\ \A i, j \in 1..Len(queue) : queue[i] = queue[j] => i = j
    /\ \A i \in 2..Len(queue) : request[queue[i]].stage = "queued"

\* The documents of the commit under way.
DocumentInv ==
    \/ /\ memory = file
       /\ queue # <<>> => request[queue[1]].stage \in {"queued", "proposed"}
    \/ /\ queue # <<>>
       /\ request[queue[1]].stage = "replaced"
       /\ file = candidate[queue[1]]

CandidateInv ==
    queue # <<>> /\ request[queue[1]].stage \in {"proposed", "replaced"}
        => /\ candidate[queue[1]] = Mutated(request[queue[1]], memory)
           /\ ~Throws(request[queue[1]], memory)

\* The calls in the queue, and their order.
JustifiedInv == \A i \in 1..Len(queue) : Justified(request[queue[i]])

OrderInv ==
    \A i, j \in 1..Len(queue) :
        i < j /\ request[queue[i]].op = "revoke" /\ request[queue[j]].op = "exchange"
            => request[queue[i]].host # request[queue[j]].host

RegistryInv ==
    /\ RegistryTypeOK
    /\ QueueInv
    /\ DocumentInv
    /\ CandidateInv
    /\ JustifiedInv
    /\ OrderInv
    /\ AnswersAreDurable
    /\ OneActiveHost
-----------------------------------------------------------------------------
(***************************************************************************)
(* Documents.                                                              *)
(***************************************************************************)

\* A mutation whose call is justified changes the registration of its own Host
\* only, and never makes a revoked one active or an existing one absent.
MutatedStatus(r, d, h) ==
    IF h = r.host /\ r.op = "exchange" THEN "active"
    ELSE IF h = r.host /\ r.op = "revoke" THEN "revoked"
    ELSE d.status[h]

LEMMA MutatedDocument ==
    ASSUME NEW d \in Contract!Documents, NEW r \in Requests,
           r.op = "revoke" => d.status[r.host] # "absent"
    PROVE  /\ Mutated(r, d) \in Contract!Documents
           /\ \A h \in Hosts : Mutated(r, d).status[h] = MutatedStatus(r, d, h)
<1>0. r.host \in Hosts /\ r.op \in Operations
  BY DEF Requests
<1>1. CASE r.op = "exchange"
  <2>1. Mutated(r, d) = Contract!Enrolled(d, r.host)
    BY <1>1 DEF Mutated
  <2> QED
    BY <1>0, <1>1, <2>1 DEF Contract!Enrolled, Contract!Documents, MutatedStatus
<1>2. CASE r.op = "revoke"
  <2>1. Mutated(r, d) = Contract!Revoked(d, r.host)
    BY <1>2 DEF Mutated
  <2> QED
    BY <1>0, <1>2, <2>1 DEF Contract!Revoked, Contract!Documents, MutatedStatus
<1>3. CASE r.op = "admit"
  <2>1. Mutated(r, d) = Contract!Touched(d)
    BY <1>3 DEF Mutated
  <2> QED
    BY <1>0, <1>3, <2>1 DEF Contract!Touched, Contract!Documents, MutatedStatus
<1> QED
  BY <1>0, <1>1, <1>2, <1>3 DEF Operations

LEMMA EmptyDocumentType == Contract!EmptyDocument \in Contract!Documents
BY DEF Contract!EmptyDocument, Contract!Documents

\* The head of the queue.
LEMMA HeadOfQueue ==
    ASSUME RegistryTypeOK, NEW c \in Calls, Turn(c)
    PROVE  /\ queue # <<>> /\ Len(queue) \in Nat /\ 1 \in 1..Len(queue)
           /\ queue[1] = c
           /\ Tail(queue) \in Seq(Calls)
           /\ Len(Tail(queue)) = Len(queue) - 1
           /\ \A i \in 1..Len(Tail(queue)) :
                 /\ i + 1 \in 2..Len(queue) /\ i + 1 \in 1..Len(queue)
                 /\ Tail(queue)[i] = queue[i + 1]
BY DEF RegistryTypeOK, Turn

LEMMA RequestAt ==
    ASSUME RegistryTypeOK, NEW c \in Calls, request[c] # None
    PROVE  /\ request[c] \in Requests
           /\ request[c].host \in Hosts /\ request[c].op \in Operations
BY DEF RegistryTypeOK, Requests

\* What is left of a commit's call when only its stage moves on.
LEMMA MovesOn ==
    ASSUME RegistryTypeOK, NEW c \in Calls, request[c] # None,
           NEW stage \in Open \cup {"answered", "refused", "lost"}, Moves(c, stage)
    PROVE  /\ request' \in [Calls -> Requests \cup {None}]
           /\ \A d \in Calls : d # c => request'[d] = request[d]
           /\ request'[c] \in Requests
           /\ request'[c].op = request[c].op
           /\ request'[c].host = request[c].host
           /\ request'[c].stage = stage
BY RequestAt DEF RegistryTypeOK, Moves, Requests

-----------------------------------------------------------------------------
(***************************************************************************)
(* The steps.                                                              *)
(***************************************************************************)

LEMMA InitInv == Init => RegistryInv
<1> SUFFICES ASSUME Init PROVE RegistryInv
  OBVIOUS
<1>1. RegistryTypeOK
  BY EmptyDocumentType, RegistryAssumption DEF Init, RegistryTypeOK
<1>2. QueueInv /\ DocumentInv /\ CandidateInv /\ JustifiedInv /\ OrderInv
  BY DEF Init, QueueInv, DocumentInv, CandidateInv, JustifiedInv, OrderInv
<1>3. AnswersAreDurable
  BY DEF Init, AnswersAreDurable, At
<1>4. OneActiveHost
  BY DEF Init, OneActiveHost, Contract!EmptyDocument
<1> QED
  BY <1>1, <1>2, <1>3, <1>4 DEF RegistryInv

\* Tokens come and go, and Hosts leave.
LEMMA TokenStepInv ==
    ASSUME RegistryInv, UNCHANGED <<storeVars, request, held, restarts>>,
           admitted' \subseteq admitted, issued \subseteq issued', issued' \subseteq Hosts,
           pending' \subseteq issued', expired' \subseteq issued'
    PROVE  RegistryInv'
<1>1. RegistryTypeOK'
  BY DEF RegistryInv, RegistryTypeOK, storeVars
<1>2. QueueInv' /\ DocumentInv' /\ CandidateInv' /\ OrderInv'
  BY DEF RegistryInv, QueueInv, DocumentInv, CandidateInv, OrderInv, storeVars, Mutated, Throws
<1>3. JustifiedInv'
  BY DEF RegistryInv, JustifiedInv, Justified, storeVars
<1>4. AnswersAreDurable' /\ OneActiveHost'
  BY DEF RegistryInv, AnswersAreDurable, OneActiveHost, At, storeVars
<1> QED
  BY <1>1, <1>2, <1>3, <1>4 DEF RegistryInv

\* A call is made.
LEMMA CallInv ==
    ASSUME RegistryInv, NEW c \in Calls, NEW op \in Operations, NEW h \in Hosts,
           NEW passes \in BOOLEAN, Call(c, op, h, passes), pending' \subseteq pending,
           passes => /\ op = "exchange" => h \in issued /\ memory.status[h] = "absent"
                     /\ op = "revoke" => memory.status[h] # "absent"
                     /\ op = "admit" => h \in held
    PROVE  RegistryInv'
<1> DEFINE r == [op |-> op, host |-> h, stage |-> IF passes THEN "queued" ELSE "refused"]
<1>1. /\ request[c] = None
      /\ request' = [request EXCEPT ![c] = r]
      /\ queue' = IF passes THEN Append(queue, c) ELSE queue
      /\ UNCHANGED <<file, memory, candidate, issued, expired, held, admitted, restarts>>
  BY DEF Call
<1>2. r \in Requests /\ r.op = op /\ r.host = h /\ (passes => r.stage = "queued")
      /\ r.stage # "answered"
  BY DEF Requests, Open
<1> HIDE DEF r
<1>3. queue \in Seq(Calls) /\ request \in [Calls -> Requests \cup {None}]
  BY DEF RegistryInv, RegistryTypeOK
<1>4. request'[c] = r /\ \A d \in Calls : d # c => request'[d] = request[d]
  BY <1>1, <1>3
<1>5. \A i \in 1..Len(queue) : queue[i] \in Calls /\ queue[i] # c
  BY <1>1, <1>3 DEF RegistryInv, QueueInv
<1>6. /\ queue' \in Seq(Calls)
      /\ Len(queue') = Len(queue) + (IF passes THEN 1 ELSE 0)
      /\ \A i \in 1..Len(queue) : queue'[i] = queue[i]
      /\ passes => queue'[Len(queue')] = c
  BY <1>1, <1>3
<1>7. \A i \in 1..Len(queue) :
         i \in 1..Len(queue') /\ request'[queue'[i]] = request[queue[i]]
  BY <1>4, <1>5, <1>6
<1>8. \A i \in 1..Len(queue') :
         \/ i \in 1..Len(queue)
         \/ passes /\ i = Len(queue') /\ queue'[i] = c /\ request'[queue'[i]] = r
  BY <1>3, <1>4, <1>6
<1>9. RegistryTypeOK'
  BY <1>1, <1>2, <1>6 DEF RegistryInv, RegistryTypeOK
<1>10. QueueInv'
  <2>0. r # None
    BY <1>2, RegistryAssumption
  <2>1. \A i \in 1..Len(queue') : request'[queue'[i]] # None
    <3> SUFFICES ASSUME NEW i \in 1..Len(queue') PROVE request'[queue'[i]] # None
      OBVIOUS
    <3>1. CASE i \in 1..Len(queue)
      BY <3>1, <1>7 DEF RegistryInv, QueueInv
    <3>2. CASE request'[queue'[i]] = r
      BY <3>2, <2>0
    <3> QED
      BY <3>1, <3>2, <1>8
  <2>2. \A i, j \in 1..Len(queue') : queue'[i] = queue'[j] => i = j
    BY <1>5, <1>6, <1>8 DEF RegistryInv, QueueInv
  <2>3. \A i \in 2..Len(queue') : request'[queue'[i]].stage = "queued"
    BY <1>2, <1>3, <1>7, <1>8 DEF RegistryInv, QueueInv
  <2> QED
    BY <2>1, <2>2, <2>3 DEF QueueInv
<1>11. DocumentInv' /\ CandidateInv'
  <2>1. CASE queue = <<>>
    <3>1. queue' # <<>> => request'[queue'[1]].stage = "queued"
      BY <1>2, <1>3, <1>6, <1>8, <2>1
    <3> QED
      BY <3>1, <1>1, <2>1 DEF RegistryInv, DocumentInv, CandidateInv
  <2>2. CASE queue # <<>>
    <3>1. /\ queue' # <<>> /\ queue'[1] = queue[1]
          /\ request'[queue'[1]] = request[queue[1]]
      BY <1>3, <1>6, <1>7, <2>2
    <3> QED
      BY <3>1, <1>1, <2>2 DEF RegistryInv, DocumentInv, CandidateInv, Mutated, Throws
  <2> QED
    BY <2>1, <2>2
<1>12. JustifiedInv'
  <2> SUFFICES ASSUME NEW i \in 1..Len(queue') PROVE Justified(request[queue[i]])'
    BY DEF JustifiedInv
  <2>1. CASE i \in 1..Len(queue)
    BY <2>1, <1>1, <1>7 DEF RegistryInv, JustifiedInv, Justified
  <2>2. CASE passes /\ request'[queue'[i]] = r
    BY <2>2, <1>1, <1>2 DEF Justified
  <2> QED
    BY <2>1, <2>2, <1>8
<1>13. OrderInv'
  <2> SUFFICES ASSUME NEW i \in 1..Len(queue'), NEW j \in 1..Len(queue'), i < j,
                      request'[queue'[i]].op = "revoke", request'[queue'[j]].op = "exchange"
               PROVE  request'[queue'[i]].host # request'[queue'[j]].host
    BY DEF OrderInv
  <2>1. i \in 1..Len(queue)
    BY <1>3, <1>6, <1>8
  <2>2. CASE j \in 1..Len(queue)
    BY <2>1, <2>2, <1>7 DEF RegistryInv, OrderInv
  <2>3. CASE passes /\ request'[queue'[j]] = r
    <3>1. memory.status[h] = "absent"
      BY <2>3, <1>2
    <3>2. memory.status[request[queue[i]].host] # "absent"
      BY <2>1, <1>7 DEF RegistryInv, JustifiedInv, Justified
    <3> QED
      BY <3>1, <3>2, <2>1, <2>3, <1>2, <1>7
  <2> QED
    BY <2>2, <2>3, <1>8
<1>14. AnswersAreDurable'
  BY <1>1, <1>2, <1>4 DEF RegistryInv, AnswersAreDurable, At
<1>15. OneActiveHost'
  BY <1>1 DEF RegistryInv, OneActiveHost
<1> QED
  BY <1>9, <1>10, <1>11, <1>12, <1>13, <1>14, <1>15 DEF RegistryInv

\* The head's commit goes a step further.
LEMMA HeadAdvances ==
    ASSUME RegistryInv, NEW c \in Calls, Turn(c), NEW stage \in Open, Moves(c, stage),
           UNCHANGED <<memory, queue, issued, held>>
    PROVE  QueueInv' /\ JustifiedInv' /\ OrderInv'
<1>1. RegistryTypeOK /\ QueueInv /\ JustifiedInv /\ OrderInv
  BY DEF RegistryInv
<1>2. queue # <<>> /\ Len(queue) \in Nat /\ 1 \in 1..Len(queue) /\ queue[1] = c
  BY <1>1, HeadOfQueue
<1>3. request[c] # None
  BY <1>1, <1>2 DEF QueueInv
<1>4. /\ \A d \in Calls : d # c => request'[d] = request[d]
      /\ request'[c] \in Requests
      /\ request'[c].op = request[c].op
      /\ request'[c].host = request[c].host
  BY <1>1, <1>3, MovesOn
<1>5. \A i \in 1..Len(queue) : queue[i] \in Calls
  BY <1>1 DEF RegistryTypeOK
<1>6. \A i \in 1..Len(queue) :
         /\ request'[queue[i]].op = request[queue[i]].op
         /\ request'[queue[i]].host = request[queue[i]].host
         /\ request'[queue[i]] # None
  BY <1>1, <1>4, <1>5, RegistryAssumption DEF QueueInv
<1>7. \A i \in 2..Len(queue) : i \in 1..Len(queue) /\ queue[i] # c
  BY <1>1, <1>2 DEF QueueInv
<1>8. QueueInv'
  BY <1>1, <1>4, <1>5, <1>6, <1>7 DEF QueueInv
<1>9. JustifiedInv'
  BY <1>1, <1>6 DEF JustifiedInv, Justified
<1>10. OrderInv'
  BY <1>1, <1>6 DEF OrderInv
<1> QED
  BY <1>8, <1>9, <1>10

\* The head's commit settles, and the queue goes on.
LEMMA QueueGoesOn ==
    ASSUME RegistryInv, NEW c \in Calls, Turn(c), NEW stage \in {"answered", "refused"},
           Moves(c, stage), queue' = Tail(queue)
    PROVE  /\ queue' \in Seq(Calls)
           /\ QueueInv' /\ OrderInv'
           /\ \A i \in 1..Len(queue') :
                 /\ i + 1 \in 2..Len(queue)
                 /\ request'[queue'[i]] = request[queue[i + 1]]
                 /\ request'[queue'[i]].stage = "queued"
<1>1. RegistryTypeOK /\ QueueInv /\ OrderInv
  BY DEF RegistryInv
<1>2. /\ queue # <<>> /\ Len(queue) \in Nat /\ 1 \in 1..Len(queue) /\ queue[1] = c
      /\ Tail(queue) \in Seq(Calls)
      /\ Len(Tail(queue)) = Len(queue) - 1
      /\ \A i \in 1..Len(Tail(queue)) :
            /\ i + 1 \in 2..Len(queue) /\ i + 1 \in 1..Len(queue)
            /\ Tail(queue)[i] = queue[i + 1]
  BY <1>1, HeadOfQueue
<1>3. request[c] # None
  BY <1>1, <1>2 DEF QueueInv
<1>4. \A d \in Calls : d # c => request'[d] = request[d]
  BY <1>1, <1>3, MovesOn
<1>5. \A i \in 1..Len(queue') : queue'[i] = queue[i + 1] /\ queue[i + 1] \in Calls
  BY <1>1, <1>2 DEF RegistryTypeOK
<1>6. \A i \in 1..Len(queue') : queue[i + 1] # c
  BY <1>1, <1>2 DEF QueueInv
<1>7. \A i \in 1..Len(queue') :
         /\ i + 1 \in 2..Len(queue)
         /\ request'[queue'[i]] = request[queue[i + 1]]
         /\ request'[queue'[i]].stage = "queued"
  BY <1>1, <1>2, <1>4, <1>5, <1>6 DEF QueueInv
<1>8. QueueInv'
  <2>1. \A i \in 1..Len(queue') : request'[queue'[i]] # None
    <3> SUFFICES ASSUME NEW i \in 1..Len(queue') PROVE request'[queue'[i]] # None
      OBVIOUS
    <3>1. i + 1 \in 1..Len(queue)
      BY <1>2
    <3> QED
      BY <1>1, <1>7, <3>1 DEF QueueInv
  <2>2. \A i, j \in 1..Len(queue') : queue'[i] = queue'[j] => i = j
    <3> SUFFICES ASSUME NEW i \in 1..Len(queue'), NEW j \in 1..Len(queue'),
                        queue'[i] = queue'[j]
                 PROVE  i = j
      OBVIOUS
    <3>1. i + 1 \in 1..Len(queue) /\ j + 1 \in 1..Len(queue)
      BY <1>2
    <3>2. queue[i + 1] = queue[j + 1]
      BY <1>5
    <3>3. i + 1 = j + 1
      BY <1>1, <3>1, <3>2 DEF QueueInv
    <3> QED
      BY <1>2, <3>3
  <2>3. \A i \in 2..Len(queue') : request'[queue'[i]].stage = "queued"
    BY <1>2, <1>7
  <2> QED
    BY <2>1, <2>2, <2>3 DEF QueueInv
<1>9. OrderInv'
  <2> SUFFICES ASSUME NEW i \in 1..Len(queue'), NEW j \in 1..Len(queue'), i < j,
                      request'[queue'[i]].op = "revoke", request'[queue'[j]].op = "exchange"
               PROVE  request'[queue'[i]].host # request'[queue'[j]].host
    BY DEF OrderInv
  <2>1. i + 1 \in 1..Len(queue) /\ j + 1 \in 1..Len(queue) /\ i + 1 < j + 1
    BY <1>2
  <2> QED
    BY <1>1, <1>7, <2>1 DEF OrderInv
<1> QED
  BY <1>2, <1>7, <1>8, <1>9

\* The head of the queue, its call and the document its commit makes.
LEMMA HeadCall ==
    ASSUME RegistryInv, NEW c \in Calls, Turn(c)
    PROVE  /\ queue # <<>> /\ queue[1] = c /\ 1 \in 1..Len(queue)
           /\ request[c] \in Requests /\ request[c] # None
           /\ request[c].host \in Hosts /\ request[c].op \in Operations
           /\ Justified(request[c])
           /\ Mutated(request[c], memory) \in Contract!Documents
           /\ \A h \in Hosts :
                 Mutated(request[c], memory).status[h] = MutatedStatus(request[c], memory, h)
<1>1. RegistryTypeOK /\ QueueInv /\ JustifiedInv
  BY DEF RegistryInv
<1>2. queue # <<>> /\ queue[1] = c /\ 1 \in 1..Len(queue)
  BY <1>1, HeadOfQueue
<1>3. request[c] # None /\ Justified(request[c])
  BY <1>1, <1>2 DEF QueueInv, JustifiedInv
<1>4. request[c] \in Requests /\ request[c].host \in Hosts /\ request[c].op \in Operations
  BY <1>1, <1>3, RequestAt
<1>5. memory \in Contract!Documents
  BY <1>1 DEF RegistryTypeOK
<1>6. request[c].op = "revoke" => memory.status[request[c].host] # "absent"
  BY <1>3 DEF Justified
<1> QED
  BY <1>2, <1>3, <1>4, <1>5, <1>6, MutatedDocument

-----------------------------------------------------------------------------
LEMMA ProposeInv ==
    ASSUME RegistryInv, NEW c \in Calls, Propose(c)
    PROVE  RegistryInv'
<1>1. /\ Turn(c) /\ At(c, "queued") /\ ~Throws(request[c], memory)
      /\ candidate' = [candidate EXCEPT ![c] = Mutated(request[c], memory)]
      /\ Moves(c, "proposed")
      /\ UNCHANGED <<file, memory, queue, issued, pending, expired, held, admitted, restarts>>
  BY DEF Propose, tokenVars
<1>2. /\ queue # <<>> /\ queue[1] = c /\ request[c] # None
      /\ Mutated(request[c], memory) \in Contract!Documents
  BY <1>1, HeadCall
<1>3. /\ request' \in [Calls -> Requests \cup {None}]
      /\ \A d \in Calls : d # c => request'[d] = request[d]
      /\ request'[c] \in Requests
      /\ request'[c].op = request[c].op
      /\ request'[c].host = request[c].host
      /\ request'[c].stage = "proposed"
  BY <1>1, <1>2, MovesOn DEF RegistryInv, Open
<1>4. RegistryTypeOK'
  BY <1>1, <1>2, <1>3 DEF RegistryInv, RegistryTypeOK
<1>5. QueueInv' /\ JustifiedInv' /\ OrderInv'
  BY <1>1, HeadAdvances DEF Open
<1>6. DocumentInv'
  BY <1>1, <1>2, <1>3 DEF RegistryInv, DocumentInv, At
<1>7. Mutated(request'[c], memory) = Mutated(request[c], memory)
      /\ (Throws(request'[c], memory) <=> Throws(request[c], memory))
  BY <1>3 DEF Mutated, Throws
<1>8. candidate'[c] = Mutated(request[c], memory)
  BY <1>1 DEF RegistryInv, RegistryTypeOK
<1>9. CandidateInv'
  BY <1>1, <1>2, <1>7, <1>8 DEF CandidateInv, Mutated, Throws
<1>10. AnswersAreDurable'
  BY <1>1, <1>3 DEF RegistryInv, AnswersAreDurable, At
<1>11. OneActiveHost'
  BY <1>1 DEF RegistryInv, OneActiveHost
<1> QED
  BY <1>4, <1>5, <1>6, <1>9, <1>10, <1>11 DEF RegistryInv

\* The commit fails, before or after its mutation.
LEMMA RefuseInv ==
    ASSUME RegistryInv, NEW c \in Calls, Turn(c), request[c].stage \in {"queued", "proposed"},
           Refuse(c)
    PROVE  RegistryInv'
<1>1. /\ Moves(c, "refused") /\ queue' = Tail(queue)
      /\ UNCHANGED <<file, memory, candidate, issued, pending, expired, held, admitted,
                     restarts>>
  BY DEF Refuse, tokenVars
<1>2. queue # <<>> /\ queue[1] = c /\ request[c] # None
  BY HeadCall
<1>3. /\ request' \in [Calls -> Requests \cup {None}]
      /\ \A d \in Calls : d # c => request'[d] = request[d]
      /\ request'[c].stage = "refused"
  BY <1>1, <1>2, MovesOn DEF RegistryInv
<1>4. /\ queue' \in Seq(Calls) /\ QueueInv' /\ OrderInv'
      /\ \A i \in 1..Len(queue') :
            /\ i + 1 \in 2..Len(queue)
            /\ request'[queue'[i]] = request[queue[i + 1]]
            /\ request'[queue'[i]].stage = "queued"
  BY <1>1, QueueGoesOn
<1>5. memory = file
  BY <1>2 DEF RegistryInv, DocumentInv
<1>6. queue' # <<>> => request'[queue'[1]].stage = "queued"
  BY <1>4
<1>7. RegistryTypeOK'
  BY <1>1, <1>3, <1>4 DEF RegistryInv, RegistryTypeOK
<1>8. DocumentInv' /\ CandidateInv'
  BY <1>1, <1>5, <1>6 DEF DocumentInv, CandidateInv
<1>9. JustifiedInv'
  <2> SUFFICES ASSUME NEW i \in 1..Len(queue') PROVE Justified(request[queue[i]])'
    BY DEF JustifiedInv
  <2>1. i + 1 \in 1..Len(queue) /\ request'[queue'[i]] = request[queue[i + 1]]
    BY <1>4
  <2> QED
    BY <1>1, <2>1 DEF RegistryInv, JustifiedInv, Justified
<1>10. AnswersAreDurable'
  BY <1>1, <1>3 DEF RegistryInv, AnswersAreDurable, At
<1>11. OneActiveHost'
  BY <1>1 DEF RegistryInv, OneActiveHost
<1> QED
  BY <1>4, <1>7, <1>8, <1>9, <1>10, <1>11 DEF RegistryInv

\* The document is on disk.
LEMMA ReplaceInv ==
    ASSUME RegistryInv, NEW c \in Calls, Replace(c)
    PROVE  RegistryInv'
<1>1. /\ Turn(c) /\ At(c, "proposed")
      /\ file' = candidate[c]
      /\ Moves(c, "replaced")
      /\ UNCHANGED <<memory, queue, candidate, issued, pending, expired, held, admitted,
                     restarts>>
  BY DEF Replace, tokenVars
<1>2. /\ queue # <<>> /\ queue[1] = c /\ request[c] # None /\ Justified(request[c])
      /\ Mutated(request[c], memory) \in Contract!Documents
      /\ \A h \in Hosts :
            Mutated(request[c], memory).status[h] = MutatedStatus(request[c], memory, h)
      /\ request[c].host \in Hosts
  BY <1>1, HeadCall
<1>3. /\ request' \in [Calls -> Requests \cup {None}]
      /\ \A d \in Calls : d # c => request'[d] = request[d]
      /\ request'[c].op = request[c].op
      /\ request'[c].host = request[c].host
      /\ request'[c].stage = "replaced"
  BY <1>1, <1>2, MovesOn DEF RegistryInv, Open
<1>4. candidate[c] = Mutated(request[c], memory) /\ ~Throws(request[c], memory)
  BY <1>1, <1>2 DEF RegistryInv, CandidateInv, At
<1>5. memory = file
  BY <1>1, <1>2 DEF RegistryInv, DocumentInv, At
<1>6. \A h \in Hosts : file'.status[h] = MutatedStatus(request[c], file, h)
  BY <1>1, <1>2, <1>4, <1>5
<1>7. RegistryTypeOK'
  BY <1>1, <1>2, <1>3, <1>4 DEF RegistryInv, RegistryTypeOK
<1>8. QueueInv' /\ JustifiedInv' /\ OrderInv'
  BY <1>1, HeadAdvances DEF Open
<1>9. DocumentInv'
  BY <1>1, <1>2, <1>3 DEF DocumentInv
<1>10. Mutated(request'[c], memory) = Mutated(request[c], memory)
       /\ (Throws(request'[c], memory) <=> Throws(request[c], memory))
  BY <1>3 DEF Mutated, Throws
<1>11. CandidateInv'
  BY <1>1, <1>2, <1>4, <1>10 DEF CandidateInv, Mutated, Throws
<1>12. AnswersAreDurable'
  <2>1. \A h \in Hosts : file.status[h] # "absent" => file'.status[h] # "absent"
    BY <1>6 DEF MutatedStatus
  <2>2. held \subseteq Hosts /\ admitted \subseteq Hosts
    BY DEF RegistryInv, RegistryTypeOK
  <2>3. \A h \in held' \cup admitted' : file'.status[h] # "absent"
    BY <1>1, <2>1, <2>2 DEF RegistryInv, AnswersAreDurable
  <2>4. \A h \in Hosts : file.status[h] = "revoked" => file'.status[h] = "revoked"
    BY <1>2, <1>5, <1>6 DEF MutatedStatus, Justified
  <2>5. \A d \in Calls : At(d, "answered")' /\ request'[d].op = "revoke"
                         => file'.status[request'[d].host] = "revoked"
    <3> SUFFICES ASSUME NEW d \in Calls, At(d, "answered")', request'[d].op = "revoke"
                 PROVE  file'.status[request'[d].host] = "revoked"
      OBVIOUS
    <3>1. d # c
      BY <1>3 DEF At
    <3>2. At(d, "answered") /\ request'[d] = request[d]
      BY <1>3, <3>1 DEF At
    <3>3. file.status[request[d].host] = "revoked" /\ request[d].host \in Hosts
      BY <3>2, RequestAt DEF RegistryInv, AnswersAreDurable, At
    <3> QED
      BY <3>2, <3>3, <2>4
  <2> QED
    BY <2>3, <2>5 DEF AnswersAreDurable
<1>13. OneActiveHost'
  <2>1. \A g, h \in Hosts : file'.status[g] = "active" /\ file'.status[h] = "active" => g = h
    <3>1. \A g, h \in Hosts : file.status[g] = "active" /\ file.status[h] = "active" => g = h
      BY DEF RegistryInv, OneActiveHost
    <3>2. CASE request[c].op = "exchange"
      <4>1. \A h \in Hosts : file.status[h] # "active"
        BY <1>4, <1>5, <3>2 DEF Throws, Contract!SomeActive
      <4> QED
        BY <1>6, <4>1 DEF MutatedStatus
    <3>3. CASE request[c].op # "exchange"
      BY <1>6, <3>1, <3>3 DEF MutatedStatus
    <3> QED
      BY <3>2, <3>3
  <2> QED
    BY <1>1, <2>1 DEF RegistryInv, OneActiveHost
<1> QED
  BY <1>7, <1>8, <1>9, <1>11, <1>12, <1>13 DEF RegistryInv

\* The commit settles, and its call goes on.
LEMMA SettleInv ==
    ASSUME RegistryInv, NEW c \in Calls, Settle(c)
    PROVE  RegistryInv'
<1> DEFINE op == request[c].op
           h == request[c].host
<1>1. /\ Turn(c) /\ At(c, "replaced")
      /\ memory' = candidate[c]
      /\ queue' = Tail(queue)
      /\ Moves(c, "answered")
      /\ pending' = IF op = "exchange" THEN pending \ {h} ELSE pending
      /\ held' = IF op = "exchange" THEN held \cup {h} ELSE held
      /\ admitted' = IF op = "admit" THEN admitted \cup {h}
                     ELSE IF op = "revoke" THEN admitted \ {h}
                     ELSE admitted
      /\ UNCHANGED <<file, candidate, issued, expired, restarts>>
  BY DEF Settle
<1>2. /\ queue # <<>> /\ queue[1] = c /\ 1 \in 1..Len(queue) /\ request[c] # None
      /\ Justified(request[c])
      /\ \A g \in Hosts :
            Mutated(request[c], memory).status[g] = MutatedStatus(request[c], memory, g)
      /\ h \in Hosts /\ op \in Operations
  BY <1>1, HeadCall
<1>3. /\ request' \in [Calls -> Requests \cup {None}]
      /\ \A d \in Calls : d # c => request'[d] = request[d]
      /\ request'[c].op = op
      /\ request'[c].host = h
      /\ request'[c].stage = "answered"
  BY <1>1, <1>2, MovesOn DEF RegistryInv
<1>4. /\ candidate[c] = Mutated(request[c], memory)
      /\ file = candidate[c]
  BY <1>1, <1>2 DEF RegistryInv, CandidateInv, DocumentInv, At
<1>5. /\ queue' \in Seq(Calls) /\ QueueInv' /\ OrderInv'
      /\ \A i \in 1..Len(queue') :
            /\ i + 1 \in 2..Len(queue)
            /\ request'[queue'[i]] = request[queue[i + 1]]
            /\ request'[queue'[i]].stage = "queued"
  BY <1>1, QueueGoesOn
<1>6. \A g \in Hosts : memory'.status[g] = MutatedStatus(request[c], memory, g)
                       /\ file'.status[g] = MutatedStatus(request[c], memory, g)
  BY <1>1, <1>2, <1>4
<1>7. held \subseteq issued /\ issued \subseteq Hosts /\ admitted \subseteq Hosts
  BY DEF RegistryInv, RegistryTypeOK
<1>8. op = "exchange" => h \in issued
  BY <1>1, <1>2 DEF RegistryInv, JustifiedInv, Justified
<1> HIDE DEF op, h
<1>9. RegistryTypeOK'
  BY <1>1, <1>2, <1>3, <1>5, <1>7, <1>8 DEF RegistryInv, RegistryTypeOK
<1>10. DocumentInv' /\ CandidateInv'
  BY <1>1, <1>4, <1>5 DEF DocumentInv, CandidateInv
<1>11. JustifiedInv'
  <2> SUFFICES ASSUME NEW i \in 1..Len(queue') PROVE Justified(request[queue[i]])'
    BY DEF JustifiedInv
  <2> DEFINE r == request[queue[i + 1]]
  <2>1. i + 1 \in 1..Len(queue) /\ 1 < i + 1 /\ request'[queue'[i]] = r
    BY <1>5
  <2>2. Justified(r) /\ r.host \in Hosts
    <3>1. queue[i + 1] \in Calls /\ r # None
      BY <2>1 DEF RegistryInv, RegistryTypeOK, QueueInv
    <3> QED
      BY <2>1, <3>1, RequestAt DEF RegistryInv, JustifiedInv
  <2>3. op = "revoke" /\ r.op = "exchange" => h # r.host
    BY <1>2, <2>1 DEF RegistryInv, OrderInv, op, h
  <2> HIDE DEF r
  <2>4. r.op = "exchange" => r.host \in issued' /\ memory'.status[r.host] # "revoked"
    BY <1>1, <1>6, <2>2, <2>3 DEF MutatedStatus, Justified, op, h
  <2>5. r.op = "revoke" => memory'.status[r.host] # "absent"
    BY <1>6, <2>2 DEF MutatedStatus, Justified
  <2>6. r.op = "admit" => r.host \in held'
    BY <1>1, <2>2 DEF Justified
  <2> QED
    BY <2>1, <2>4, <2>5, <2>6 DEF Justified
<1>12. AnswersAreDurable'
  <2>1. \A g \in held \cup admitted : file.status[g] # "absent"
    BY DEF RegistryInv, AnswersAreDurable
  <2>2. op = "exchange" => file.status[h] # "absent"
    BY <1>1, <1>2, <1>6 DEF MutatedStatus, op, h
  <2>3. op = "admit" => h \in held
    BY <1>2 DEF Justified, op, h
  <2>4. \A g \in held' \cup admitted' : file'.status[g] # "absent"
    BY <1>1, <2>1, <2>2, <2>3
  <2>5. op = "revoke" => file'.status[h] = "revoked"
    BY <1>2, <1>6 DEF MutatedStatus, op, h
  <2>6. \A d \in Calls : At(d, "answered")' /\ request'[d].op = "revoke"
                         => file'.status[request'[d].host] = "revoked"
    BY <1>1, <1>3, <2>5 DEF RegistryInv, AnswersAreDurable, At
  <2> QED
    BY <2>4, <2>6 DEF AnswersAreDurable
<1>13. OneActiveHost'
  BY <1>1, <1>4 DEF RegistryInv, OneActiveHost
<1> QED
  BY <1>5, <1>9, <1>10, <1>11, <1>12, <1>13 DEF RegistryInv

\* The Relay starts again.
LEMMA RestartInv ==
    ASSUME RegistryInv, Restart
    PROVE  RegistryInv'
<1>1. /\ restarts < MaxRestarts
      /\ restarts' = restarts + 1
      /\ memory' = file
      /\ queue' = <<>>
      /\ request' = [c \in Calls |->
             IF request[c] # None /\ request[c].stage \in Open
             THEN [request[c] EXCEPT !.stage = "lost"] ELSE request[c]]
      /\ pending' = {} /\ admitted' = {}
      /\ UNCHANGED <<file, candidate, issued, expired, held>>
  BY DEF Restart, Reopened
<1>2. \A c \in Calls :
         /\ request'[c] \in Requests \cup {None}
         /\ At(c, "answered")' => request'[c] = request[c] /\ At(c, "answered")
  <2> SUFFICES ASSUME NEW c \in Calls
               PROVE  /\ request'[c] \in Requests \cup {None}
                      /\ At(c, "answered")' => request'[c] = request[c] /\ At(c, "answered")
    OBVIOUS
  <2>1. CASE request[c] # None /\ request[c].stage \in Open
    <3>1. request[c] \in Requests
      BY <2>1, RequestAt DEF RegistryInv
    <3>2. request'[c] = [request[c] EXCEPT !.stage = "lost"]
      BY <1>1, <2>1
    <3>3. request'[c] \in Requests /\ request'[c].stage = "lost"
      BY <3>1, <3>2 DEF Requests
    <3> QED
      BY <3>3 DEF At
  <2>2. CASE ~(request[c] # None /\ request[c].stage \in Open)
    <3>1. request'[c] = request[c]
      BY <1>1, <2>2
    <3> QED
      BY <3>1 DEF RegistryInv, RegistryTypeOK, At
  <2> QED
    BY <2>1, <2>2
<1>3. request' \in [Calls -> Requests \cup {None}]
  <2>1. request' = [c \in Calls |-> request'[c]]
    BY <1>1
  <2> QED
    BY <1>2, <2>1
<1>4. RegistryTypeOK'
  <2>1. restarts' \in 0..MaxRestarts
    BY <1>1, RegistryAssumption DEF RegistryInv, RegistryTypeOK
  <2>2. queue' \in Seq(Calls)
    BY <1>1
  <2>3. /\ memory' = file /\ pending' = {} /\ admitted' = {}
        /\ UNCHANGED <<file, candidate, issued, expired, held>>
    BY <1>1
  <2> QED
    BY <1>3, <2>1, <2>2, <2>3 DEF RegistryInv, RegistryTypeOK
<1>5. QueueInv' /\ DocumentInv' /\ CandidateInv' /\ JustifiedInv' /\ OrderInv'
  BY <1>1 DEF QueueInv, DocumentInv, CandidateInv, JustifiedInv, OrderInv
<1>6. AnswersAreDurable'
  BY <1>1, <1>2 DEF RegistryInv, AnswersAreDurable
<1>7. OneActiveHost'
  BY <1>1 DEF RegistryInv, OneActiveHost
<1> QED
  BY <1>4, <1>5, <1>6, <1>7 DEF RegistryInv

-----------------------------------------------------------------------------
\* Every step preserves the invariant.
LEMMA StepInv == RegistryInv /\ [Next]_vars => RegistryInv'
<1> SUFFICES ASSUME RegistryInv, [Next]_vars PROVE RegistryInv'
  OBVIOUS
<1>1. RegistryTypeOK
  BY DEF RegistryInv
<1>2. ASSUME NEW h \in Hosts, IssueToken(h) PROVE RegistryInv'
  BY <1>1, <1>2, TokenStepInv DEF IssueToken, RegistryTypeOK
<1>3. ASSUME NEW h \in Hosts, RequestReregistration(h) PROVE RegistryInv'
  BY <1>2, <1>3 DEF RequestReregistration
<1>4. ASSUME NEW h \in Hosts, TokenExpires(h) PROVE RegistryInv'
  BY <1>1, <1>4, TokenStepInv DEF TokenExpires, RegistryTypeOK
<1>5. ASSUME NEW h \in Hosts, HostLeaves(h) PROVE RegistryInv'
  BY <1>1, <1>5, TokenStepInv DEF HostLeaves, tokenVars, RegistryTypeOK
<1>6. ASSUME NEW c \in Calls, NEW h \in Hosts, ExchangeToken(c, h) PROVE RegistryInv'
  <2>1. Call(c, "exchange", h, Usable(h)) /\ pending' \subseteq pending
    BY <1>6 DEF ExchangeToken
  <2>2. Usable(h) \in BOOLEAN /\ (Usable(h) => h \in issued /\ memory.status[h] = "absent")
    BY <1>1 DEF Usable, RegistryTypeOK
  <2> QED
    BY <2>1, <2>2, CallInv DEF Operations
<1>7. ASSUME NEW c \in Calls, NEW h \in Hosts, RevokeHost(c, h) PROVE RegistryInv'
  <2>1. Call(c, "revoke", h, memory.status[h] # "absent") /\ pending' \subseteq pending
    BY <1>7 DEF RevokeHost
  <2> QED
    BY <2>1, CallInv DEF Operations
<1>8. ASSUME NEW c \in Calls, NEW h \in Hosts, AdmitHost(c, h) PROVE RegistryInv'
  <2>1. /\ Call(c, "admit", h, memory.status[h] = "active") /\ pending' \subseteq pending
        /\ h \in held
    BY <1>8 DEF AdmitHost
  <2> QED
    BY <2>1, CallInv DEF Operations
<1>9. ASSUME NEW c \in Calls, Commits(c) PROVE RegistryInv'
  <2>1. CASE Propose(c)
    BY <2>1, ProposeInv
  <2>2. CASE MutationThrows(c)
    BY <2>2, RefuseInv DEF MutationThrows, At
  <2>3. CASE WriteFails(c)
    BY <2>3, RefuseInv DEF WriteFails, At
  <2>4. CASE Replace(c)
    BY <2>4, ReplaceInv
  <2>5. CASE Settle(c)
    BY <2>5, SettleInv
  <2> QED
    BY <1>9, <2>1, <2>2, <2>3, <2>4, <2>5 DEF Commits
<1>10. CASE Restart
  BY <1>10, RestartInv
<1>11. CASE UNCHANGED vars
  BY <1>1, <1>11, TokenStepInv DEF vars, storeVars, RegistryTypeOK
<1> QED
  BY <1>2, <1>3, <1>4, <1>5, <1>6, <1>7, <1>8, <1>9, <1>10, <1>11 DEF Next

-----------------------------------------------------------------------------
(***************************************************************************)
(* The theorems.                                                           *)
(***************************************************************************)

\* The queue, the documents, the calls' checks and the answers stay in step,
\* whatever the order of calls, commits, failed writes and restarts.
THEOREM RegistryInvariance == Spec => []RegistryInv
<1>1. Init => RegistryInv
  BY InitInv
<1>2. RegistryInv /\ [Next]_vars => RegistryInv'
  BY StepInv
<1> QED
  BY <1>1, <1>2, PTL DEF Spec

\* The variables of the registry keep their types.
THEOREM RegistryTypeCorrect == Spec => []RegistryTypeOK
<1>1. RegistryInv => RegistryTypeOK
  BY DEF RegistryInv
<1> QED
  BY <1>1, RegistryInvariance, PTL

\* One registration at most is active, in the file and in memory: the mutation
\* of an enrollment looks at the document of its turn.
THEOREM OneActive == Spec => []OneActiveHost
<1>1. RegistryInv => OneActiveHost
  BY DEF RegistryInv
<1> QED
  BY <1>1, RegistryInvariance, PTL

\* What was answered, and what a connection rests on, is on disk.
THEOREM AnswersDurable == Spec => []AnswersAreDurable
<1>1. RegistryInv => AnswersAreDurable
  BY DEF RegistryInv
<1> QED
  BY <1>1, RegistryInvariance, PTL

\* A document is replaced by the commit of one call, which is a step of the
\* contract.
LEMMA ReplaceStep ==
    ASSUME RegistryInv, NEW c \in Calls, Replace(c)
    PROVE  Contract!Next
<1>1. Turn(c) /\ At(c, "proposed") /\ file' = candidate[c]
  BY DEF Replace
<1>2. /\ queue # <<>> /\ queue[1] = c /\ request[c].host \in Hosts
      /\ request[c].op \in Operations /\ Justified(request[c])
  BY <1>1, HeadCall
<1>3. memory = file
  BY <1>1, <1>2 DEF RegistryInv, DocumentInv, At
<1>4. file' = Mutated(request[c], file) /\ ~Throws(request[c], file)
  BY <1>1, <1>2, <1>3 DEF RegistryInv, CandidateInv, At
<1>5. file.status[request[c].host] \in {"absent", "active", "revoked"}
  BY <1>2 DEF RegistryInv, RegistryTypeOK, Contract!Documents
<1>6. CASE request[c].op = "exchange"
  <2>1. ~Contract!SomeActive(file) /\ file.status[request[c].host] # "active"
    BY <1>2, <1>4, <1>6 DEF Throws, Contract!SomeActive
  <2>2. file.status[request[c].host] = "absent"
    BY <1>2, <1>3, <1>5, <1>6, <2>1 DEF Justified
  <2>3. Contract!Enroll(request[c].host)
    BY <1>4, <1>6, <2>1, <2>2 DEF Contract!Enroll, Mutated
  <2> QED
    BY <1>2, <2>3 DEF Contract!Next
<1>7. CASE request[c].op = "revoke"
  <2>1. Contract!Revoke(request[c].host)
    BY <1>2, <1>3, <1>4, <1>7 DEF Contract!Revoke, Mutated, Justified
  <2> QED
    BY <1>2, <2>1 DEF Contract!Next
<1>8. CASE request[c].op = "admit"
  BY <1>4, <1>8 DEF Contract!Next, Contract!Touch, Mutated
<1> QED
  BY <1>2, <1>6, <1>7, <1>8 DEF Operations

\* Every other step leaves the file alone.
LEMMA StepRefines == RegistryInv /\ [Next]_vars => [Contract!Next]_file
<1> SUFFICES ASSUME RegistryInv, [Next]_vars PROVE Contract!Next \/ UNCHANGED file
  OBVIOUS
<1>1. ASSUME NEW h \in Hosts,
             IssueToken(h) \/ RequestReregistration(h) \/ TokenExpires(h) \/ HostLeaves(h)
      PROVE  UNCHANGED file
  BY <1>1 DEF IssueToken, RequestReregistration, TokenExpires, HostLeaves, storeVars
<1>2. ASSUME NEW c \in Calls, NEW h \in Hosts,
             ExchangeToken(c, h) \/ RevokeHost(c, h) \/ AdmitHost(c, h)
      PROVE  UNCHANGED file
  BY <1>2 DEF ExchangeToken, RevokeHost, AdmitHost, Call
<1>3. ASSUME NEW c \in Calls, Commits(c) PROVE Contract!Next \/ UNCHANGED file
  <2>1. CASE Replace(c)
    BY <2>1, ReplaceStep
  <2>2. CASE Propose(c) \/ MutationThrows(c) \/ WriteFails(c) \/ Settle(c)
    BY <2>2 DEF Propose, MutationThrows, WriteFails, Refuse, Settle
  <2> QED
    BY <1>3, <2>1, <2>2 DEF Commits
<1>4. CASE Restart
  BY <1>4 DEF Restart
<1>5. CASE UNCHANGED vars
  BY <1>5 DEF vars
<1> QED
  BY <1>1, <1>2, <1>3, <1>4, <1>5 DEF Next

\* The control state file keeps its contract through every interleaving, failed
\* write and restart.
THEOREM FileKeepsContract == Spec => ImplementsRegistryContract
<1>1. Init => Contract!Init
  BY DEF Init, Contract!Init
<1>2. RegistryInv /\ [Next]_vars => [Contract!Next]_file
  BY StepRefines
<1> QED
  BY <1>1, <1>2, RegistryInvariance, PTL DEF Spec, ImplementsRegistryContract, Contract!Spec
==============================================================================
