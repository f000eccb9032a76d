----------------------------- MODULE HostRegistry -----------------------------
(***************************************************************************)
(* The Relay's registry of Desktop Hosts: RemoteHostEnrollmentService,     *)
(* HostManagementService and the admission of remote Hosts, all three over *)
(* one ControlStateStore.  A call checks the document in memory, hands a   *)
(* mutation to the store and goes on when its commit has settled.  The     *)
(* store runs the commits one at a time: it applies the mutation to the    *)
(* state of that moment, writes a temporary file, renames it over the      *)
(* control state, and only then replaces the state in memory.  The Relay   *)
(* may end between any two of these steps; it then reads the file again.   *)
(***************************************************************************)
EXTENDS Naturals, Sequences

CONSTANTS
    Hosts,         \* Host identifiers, one for each enrollment token
    Calls,         \* requests to the registry
    None,
    MaxRestarts    \* bound: how often the Relay restarts

VARIABLES
    file,       \* the control state file
    memory,     \* ControlStateStore.#state
    queue,      \* ControlStateStore.#queue: the calls whose commits have not settled
    request,    \* call -> what it asks, and how far it is
    candidate,  \* call -> the document its running commit writes
    issued,     \* the Hosts for which an enrollment token was ever issued
    pending,    \* RemoteHostEnrollmentService.#pending
    expired,    \* the tokens whose time is over
    held,       \* the Hosts whose credential a Desktop received
    admitted,   \* DesktopHostConnectionGateway.#connectedHostIds
    restarts

storeVars == <<file, memory, queue, candidate>>
tokenVars == <<issued, pending, expired>>
vars == <<file, memory, queue, request, candidate, issued, pending, expired, held, admitted,
          restarts>>

Contract == INSTANCE RegistryContract WITH doc <- file

Operations == {"exchange", "revoke", "admit"}
Open == {"queued", "proposed", "replaced"}    \* the commit of the call has not settled
Requests ==
    [op : Operations, host : Hosts, stage : Open \cup {"answered", "refused", "lost"}]

ASSUME RegistryAssumption ==
    None \notin Hosts /\ None \notin Requests /\ MaxRestarts \in Nat

RegistryTypeOK ==
    /\ file \in Contract!Documents
    /\ memory \in Contract!Documents
    /\ queue \in Seq(Calls)
    /\ request \in [Calls -> Requests \cup {None}]
    /\ candidate \in [Calls -> Contract!Documents]
    /\ issued \subseteq Hosts /\ pending \subseteq issued /\ expired \subseteq issued
    /\ held \subseteq issued
    /\ admitted \subseteq Hosts
    /\ restarts \in 0..MaxRestarts

Init ==
    /\ file = Contract!EmptyDocument
    /\ memory = Contract!EmptyDocument
    /\ queue = <<>>
    /\ request = [c \in Calls |-> None]
    /\ candidate = [c \in Calls |-> Contract!EmptyDocument]
    /\ issued = {} /\ pending = {} /\ expired = {} /\ held = {}
    /\ admitted = {}
    /\ restarts = 0

-----------------------------------------------------------------------------
(* Enrollment tokens. *)

\* RemoteHostEnrollmentService.issueToken: the token and the Host's identifier
\* are drawn together.
IssueToken(h) ==
    /\ h \notin issued
    /\ issued' = issued \cup {h}
    /\ pending' = pending \cup {h}
    /\ UNCHANGED <<storeVars, request, expired, held, admitted, restarts>>

\* HostManagementService.requestReregistration, for the one installation that
\* is modelled: its first registration may not be active.
MayRenew == memory.first # None => memory.status[memory.first] = "revoked"

RequestReregistration(h) == MayRenew /\ IssueToken(h)

\* The token's time is over (external: the clock).
TokenExpires(h) ==
    /\ h \in pending \ expired
    /\ expired' = expired \cup {h}
    /\ UNCHANGED <<storeVars, request, issued, pending, held, admitted, restarts>>

-----------------------------------------------------------------------------
(* Calls: the checks made before the commit. *)

\* The call is made; its commit waits in the store's queue, or it is refused.
Call(c, op, h, passes) ==
    /\ request[c] = None
    /\ request' = [request EXCEPT ![c] =
           [op |-> op, host |-> h, stage |-> IF passes THEN "queued" ELSE "refused"]]
    /\ queue' = IF passes THEN Append(queue, c) ELSE queue
    /\ UNCHANGED <<file, memory, candidate, issued, expired, held, admitted, restarts>>

\* A token can be exchanged until its time is over or it was consumed.
Usable(h) == h \in pending \ expired /\ memory.status[h] = "absent"

\* exchangeToken; a token that cannot be used any more is forgotten.
ExchangeToken(c, h) ==
    /\ h \in issued
    /\ Call(c, "exchange", h, Usable(h))
    /\ pending' = IF Usable(h) THEN pending ELSE pending \ {h}

\* HostManagementService.revoke, which the owner asks for a Host it was shown.
RevokeHost(c, h) ==
    /\ h \in issued
    /\ Call(c, "revoke", h, memory.status[h] # "absent")
    /\ UNCHANGED pending

\* DesktopHostConnectionGateway.admit, for a Desktop that holds the credential.
AdmitHost(c, h) ==
    /\ h \in held
    /\ Call(c, "admit", h, memory.status[h] = "active")
    /\ UNCHANGED pending

\* The Host's socket is gone: hostDisconnected.
HostLeaves(h) ==
    /\ h \in admitted
    /\ admitted' = admitted \ {h}
    /\ UNCHANGED <<storeVars, request, tokenVars, held, restarts>>

-----------------------------------------------------------------------------
(* The store: one commit after another. *)

\* Mutant: a commit does not wait for its turn.
NeedsNoTurn(c) == \E i \in 1..Len(queue) : queue[i] = c

\* The queue has come to this call's commit.
Turn(c) == queue # <<>> /\ c = Head(queue)

At(c, stage) == request[c] # None /\ request[c].stage = stage

Moves(c, stage) == request' = [request EXCEPT ![c].stage = stage]

\* The document a call's mutation makes of the store's state.
Mutated(r, d) ==
    IF r.op = "exchange" THEN Contract!Enrolled(d, r.host)
    ELSE IF r.op = "revoke" THEN Contract!Revoked(d, r.host)
    ELSE Contract!Touched(d)

\* Mutant: the enrollment only looks for a registration of its own Host.
ThrowsOwn(r, d) == r.op = "exchange" /\ d.status[r.host] # "absent"

\* The mutation of an enrollment throws when a registration is active.
Throws(r, d) == r.op = "exchange" /\ Contract!SomeActive(d)

\* The commit's turn: the mutation is applied to the state of this moment.
Propose(c) ==
    /\ Turn(c) /\ At(c, "queued")
    /\ ~Throws(request[c], memory)
    /\ candidate' = [candidate EXCEPT ![c] = Mutated(request[c], memory)]
    /\ Moves(c, "proposed")
    /\ UNCHANGED <<file, memory, queue, tokenVars, held, admitted, restarts>>

\* Mutant: the failed commit's rejection stays in the store's queue.
RefuseAndStall(c) ==
    /\ Moves(c, "refused")
    /\ UNCHANGED <<file, memory, queue, candidate, tokenVars, held, admitted, restarts>>

\* The commit fails, its call is refused, and the queue goes on.
Refuse(c) ==
    /\ Moves(c, "refused")
    /\ queue' = Tail(queue)
    /\ UNCHANGED <<file, memory, candidate, tokenVars, held, admitted, restarts>>

MutationThrows(c) ==
    /\ Turn(c) /\ At(c, "queued")
    /\ Throws(request[c], memory)
    /\ Refuse(c)

\* Mutant: the failure to write is swallowed.
WriteFailureIgnored(c) ==
    /\ Turn(c) /\ At(c, "proposed")
    /\ Moves(c, "replaced")
    /\ UNCHANGED <<file, memory, queue, candidate, tokenVars, held, admitted, restarts>>

\* The temporary file cannot be written, synced or renamed, and is removed.
WriteFails(c) ==
    /\ Turn(c) /\ At(c, "proposed")
    /\ Refuse(c)

\* The temporary file, written and synced, is renamed over the control state.
Replace(c) ==
    /\ Turn(c) /\ At(c, "proposed")
    /\ file' = candidate[c]
    /\ Moves(c, "replaced")
    /\ UNCHANGED <<memory, queue, candidate, tokenVars, held, admitted, restarts>>

\* The commit settles, and its call goes on: an exchange forgets the token and
\* answers with the credential, a revocation disconnects the Host, an admission
\* registers the connection.
Settle(c) ==
    /\ Turn(c) /\ At(c, "replaced")
    /\ memory' = candidate[c]
    /\ queue' = Tail(queue)
    /\ Moves(c, "answered")
    /\ LET op == request[c].op
           h == request[c].host
       IN /\ pending' = IF op = "exchange" THEN pending \ {h} ELSE pending
          /\ held' = IF op = "exchange" THEN held \cup {h} ELSE held
          /\ admitted' = IF op = "admit" THEN admitted \cup {h}
                         ELSE IF op = "revoke" THEN admitted \ {h}
                         ELSE admitted
    /\ UNCHANGED <<file, candidate, issued, expired, restarts>>

\* Mutant: a control state file that does not exist is not replaced.
NothingRead == IF file.revision = 0 THEN None ELSE file

\* ControlStateStore.open: the document on disk, or the empty one when there is
\* no file.
Reopened == file

\* The Relay ends and starts again: the control state is opened, and
\* the tokens, the connections and the calls under way are gone.
Restart ==
    /\ restarts < MaxRestarts
    /\ restarts' = restarts + 1
    /\ memory' = Reopened
    /\ queue' = <<>>
    /\ request' = [c \in Calls |->
           IF request[c] # None /\ request[c].stage \in Open
           THEN [request[c] EXCEPT !.stage = "lost"] ELSE request[c]]
    /\ pending' = {}
    /\ admitted' = {}
    /\ UNCHANGED <<file, candidate, issued, expired, held>>

Commits(c) == Propose(c) \/ MutationThrows(c) \/ WriteFails(c) \/ Replace(c) \/ Settle(c)

Next ==
    \/ \E h \in Hosts :
          IssueToken(h) \/ RequestReregistration(h) \/ TokenExpires(h) \/ HostLeaves(h)
    \/ \E c \in Calls, h \in Hosts :
          ExchangeToken(c, h) \/ RevokeHost(c, h) \/ AdmitHost(c, h)
    \/ \E c \in Calls : Commits(c)
    \/ Restart

\* The promise chain of the store runs on, and the file system answers.
Fairness == \A c \in Calls : WF_vars(Commits(c))

Spec == Init /\ [][Next]_vars
FairSpec == Spec /\ Fairness

-----------------------------------------------------------------------------
\* Whatever the interleaving of enrollments, revocations and admissions, and
\* wherever the Relay ends, the control state file shows a document to which
\* whole commits were applied one after another: no commit is lost or undone,
\* one registration at most is active, and no revoked one comes back.
ImplementsRegistryContract == Contract!Spec

\* One registration at most is active: in the file, in memory and in the
\* document under way.
OneActiveHost ==
    \A d \in {file, memory} : \A g, h \in Hosts :
       d.status[g] = "active" /\ d.status[h] = "active" => g = h

\* What was answered is on disk, and so is what a connection rests on: a
\* credential a Desktop received belongs to a registration, and a Host whose
\* revocation was answered is revoked there, whenever the Relay ends.
AnswersAreDurable ==
    /\ \A h \in held \cup admitted : file.status[h] # "absent"
    /\ \A c \in Calls : At(c, "answered") /\ request[c].op = "revoke"
                        => file.status[request[c].host] = "revoked"

\* A commit that fails does not keep those behind it waiting: every call ends.
EveryCallSettles ==
    \A c \in Calls : request[c] # None ~> request[c] # None /\ request[c].stage \notin Open
=============================================================================
