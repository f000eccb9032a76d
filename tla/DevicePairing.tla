---------------------------- MODULE DevicePairing ----------------------------
(***************************************************************************)
(* Pairing phones with the Desktop: the card of the Settings page, which   *)
(* creates a token, shows it as a QR code and revokes it when the user     *)
(* backs out, and the rows of the tokens the main process keeps.  Requests *)
(* are served by the main process in one step, before or after the card    *)
(* hears of it; codes are drawn in steps of their own.                     *)
(*                                                                         *)
(* A token is known by the attempt it was created in; attempts are numbered*)
(* as pairAttemptRef counts them, less the cancellations.                  *)
(***************************************************************************)
EXTENDS Naturals

CONSTANT MaxPairs       \* bound: presses of "Pair a device"

Pairs == 1..MaxPairs
None == 0

VARIABLES
    row,            \* each token's row in device_tokens
    stage,          \* what startPairing waits for in each attempt
    pairAttempt,    \* the attempt pairAttemptRef is of, or None
    pairing,        \* what the card shows
    modal,          \* pairing.created, or None
    code,           \* the token of pairing.qrDataUrl and pairing.deeplink
    relabel,        \* the token commitPairLabel is at, and what it waits for
    revoking,       \* tokens whose revocation was asked for
    confirmed,      \* history: tokens the user was done with
    undone,         \* history: tokens the user revoked or removed in the list
    orphaned,       \* history: tokens left behind by a failure or by leaving the page
    relabelled      \* history: a label was committed over another attempt

pairingVars == <<row, stage, pairAttempt, pairing, modal, code, relabel, revoking, confirmed,
                 undone, orphaned, relabelled>>
shownVars == <<pairing, modal, code>>

Init ==
    /\ row = [t \in Pairs |-> "none"] /\ stage = [t \in Pairs |-> "none"]
    /\ pairAttempt = None
    /\ pairing = "idle" /\ modal = None /\ code = None
    /\ relabel = <<None, "none">>
    /\ revoking = {} /\ confirmed = {} /\ undone = {} /\ orphaned = {} /\ relabelled = FALSE

Show(kind, token) == pairing' = kind /\ modal' = token /\ code' = token

-----------------------------------------------------------------------------
(* startPairing *)

\* The row is there, or the insertion failed, before the card hears of it.
StartPairing(t) ==
    /\ pairing = "idle" /\ row[t] = "none" /\ stage[t] = "none"
    /\ \A s \in Pairs : s < t => stage[s] # "none"
    /\ pairAttempt' = t
    /\ Show("minting", None)
    /\ \/ row' = [row EXCEPT ![t] = "live"] /\ stage' = [stage EXCEPT ![t] = "created"]
       \/ stage' = [stage EXCEPT ![t] = "failed"] /\ UNCHANGED row
    /\ UNCHANGED <<relabel, revoking, confirmed, undone, orphaned, relabelled>>

Revoke(t) == revoking' = revoking \cup {t}

\* Mutant: the attempt is not looked at again once its code is drawn.
DrawnUnchecked(t) ==
    /\ stage[t] = "drawing"
    /\ stage' = [stage EXCEPT ![t] = "over"]
    /\ Show("paired", t)
    /\ UNCHANGED <<row, pairAttempt, relabel, revoking, confirmed, undone, orphaned, relabelled>>

\* Mutant: an attempt that was cancelled while its token was created is just dropped.
CreatedDropped(t) ==
    /\ stage[t] \in {"created", "failed"}
    /\ IF stage[t] = "created" /\ pairAttempt = t
       THEN stage' = [stage EXCEPT ![t] = "drawing"] /\ UNCHANGED <<shownVars, revoking>>
       ELSE /\ stage' = [stage EXCEPT ![t] = "over"]
            /\ UNCHANGED revoking
            /\ IF pairAttempt = t THEN Show("error", None) ELSE UNCHANGED shownVars
    /\ UNCHANGED <<row, pairAttempt, relabel, confirmed, undone, orphaned, relabelled>>

\* devices:create answers: the code is drawn, unless the user backed out meanwhile.
Created(t) ==
    /\ stage[t] \in {"created", "failed"}
    /\ IF stage[t] = "created" /\ pairAttempt = t
       THEN stage' = [stage EXCEPT ![t] = "drawing"] /\ UNCHANGED <<shownVars, revoking>>
       ELSE /\ stage' = [stage EXCEPT ![t] = "over"]
            /\ IF stage[t] = "created" THEN Revoke(t) ELSE UNCHANGED revoking
            /\ IF pairAttempt = t THEN Show("error", None) ELSE UNCHANGED shownVars
    /\ UNCHANGED <<row, pairAttempt, relabel, confirmed, undone, orphaned, relabelled>>

\* The code is drawn.
Drawn(t) ==
    /\ stage[t] = "drawing"
    /\ stage' = [stage EXCEPT ![t] = "over"]
    /\ IF pairAttempt = t THEN Show("paired", t) /\ UNCHANGED revoking
       ELSE Revoke(t) /\ UNCHANGED shownVars
    /\ UNCHANGED <<row, pairAttempt, relabel, confirmed, undone, orphaned, relabelled>>

\* The code cannot be drawn: the error is shown, and the token stays.
DrawFails(t) ==
    /\ stage[t] = "drawing"
    /\ stage' = [stage EXCEPT ![t] = "over"]
    /\ orphaned' = orphaned \cup {t}
    /\ IF pairAttempt = t THEN Show("error", None) ELSE UNCHANGED shownVars
    /\ UNCHANGED <<row, pairAttempt, relabel, revoking, confirmed, undone, relabelled>>

-----------------------------------------------------------------------------
(* The modal *)

\* cancelPairing, of each of its states.
Cancel ==
    /\ pairing # "idle"
    /\ pairAttempt' = None
    /\ IF pairing = "paired" THEN Revoke(modal) ELSE UNCHANGED revoking
    /\ Show("idle", None)
    /\ UNCHANGED <<row, stage, relabel, confirmed, undone, orphaned, relabelled>>

\* confirmPairing
Confirm ==
    /\ pairing = "paired"
    /\ confirmed' = confirmed \cup {modal}
    /\ Show("idle", None)
    /\ UNCHANGED <<row, stage, pairAttempt, relabel, revoking, undone, orphaned, relabelled>>

\* commitPairLabel, when the edited label loses the focus; the row has its label at once.
CommitLabel ==
    /\ pairing = "paired" /\ relabel[1] = None
    /\ relabel' = <<modal, "renaming">>
    /\ UNCHANGED <<row, stage, pairAttempt, shownVars, revoking, confirmed, undone, orphaned,
                   relabelled>>

\* Its answer, and the new code: whatever is paired by now has it.
LabelGoesOn ==
    /\ relabel[1] # None
    /\ \/ /\ relabel[2] = "renaming" /\ relabel' = <<relabel[1], "drawing">>
          /\ UNCHANGED <<code, relabelled>>
       \/ /\ relabel[2] = "drawing" /\ relabel' = <<None, "none">>
          /\ code' = IF pairing = "paired" THEN relabel[1] ELSE code
          /\ relabelled' = (relabelled \/ (pairing = "paired" /\ modal # relabel[1]))
       \/ relabel' = <<None, "none">> /\ UNCHANGED <<code, relabelled>>      \* it fails
    /\ UNCHANGED <<row, stage, pairAttempt, pairing, modal, revoking, confirmed, undone, orphaned>>

\* The page is left: a card that is opened later has attempts of its own, and those of
\* this one go on unseen.
LeavePage ==
    /\ pairing # "idle"
    /\ orphaned' = orphaned \cup ({modal} \ {None})
                   \cup {t \in Pairs : pairAttempt = t /\ stage[t] \in {"created", "drawing"}}
    /\ stage' = [t \in Pairs |-> IF pairAttempt = t /\ stage[t] # "none" THEN "over" ELSE stage[t]]
    /\ pairAttempt' = None
    /\ relabel' = <<None, "none">>
    /\ Show("idle", None)
    /\ UNCHANGED <<row, revoking, confirmed, undone, relabelled>>

-----------------------------------------------------------------------------
(* The list, and the main process. *)

\* A revocation of the card is served; one that fails is not tried again.
Revoked(t) ==
    /\ t \in revoking /\ revoking' = revoking \ {t}
    /\ \/ row' = [row EXCEPT ![t] = IF @ = "live" THEN "revoked" ELSE @] /\ UNCHANGED orphaned
       \/ orphaned' = orphaned \cup {t} /\ UNCHANGED row
    /\ UNCHANGED <<stage, pairAttempt, shownVars, relabel, confirmed, undone, relabelled>>

\* handleRevoke and handleRemove, under no modal.
Undo(t) ==
    /\ pairing = "idle" /\ row[t] = "live"
    /\ \E next \in {"revoked", "removed"} : row' = [row EXCEPT ![t] = next]
    /\ undone' = undone \cup {t}
    /\ UNCHANGED <<stage, pairAttempt, shownVars, relabel, revoking, confirmed, orphaned,
                   relabelled>>

Next ==
    \/ Cancel \/ Confirm \/ CommitLabel \/ LabelGoesOn \/ LeavePage
    \/ \E t \in Pairs :
          StartPairing(t) \/ Created(t) \/ Drawn(t) \/ DrawFails(t) \/ Revoked(t) \/ Undo(t)

Spec == Init /\ [][Next]_pairingVars

-----------------------------------------------------------------------------
PairingTypeOK ==
    /\ row \in [Pairs -> {"none", "live", "revoked", "removed"}]
    /\ stage \in [Pairs -> {"none", "created", "failed", "drawing", "over"}]
    /\ pairAttempt \in Pairs \cup {None}
    /\ pairing \in {"idle", "minting", "error", "paired"}
    /\ modal \in Pairs \cup {None} /\ (modal # None <=> pairing = "paired")
    /\ code \in Pairs \cup {None}
    /\ relabel \in (Pairs \cup {None}) \X {"none", "renaming", "drawing"}
    /\ revoking \subseteq Pairs /\ confirmed \subseteq Pairs
    /\ undone \subseteq Pairs /\ orphaned \subseteq Pairs /\ relabelled \in BOOLEAN

\* A token the user did not confirm does not stay: it is shown, or its attempt or its
\* revocation is under way ("so we don't leak orphan rows", DevicesCard.tsx:123); but
\* for a code that cannot be drawn, a revocation that fails, and the page being left.
NoOrphanToken ==
    \A t \in Pairs :
        row[t] = "live" /\ t \notin confirmed \cup orphaned =>
            modal = t \/ t \in revoking \/ stage[t] \in {"created", "drawing"}

\* The modal shows the code of its own token, which is that of the newest attempt; but
\* for a label committed over another attempt.
ModalShowsItsToken ==
    pairing = "paired" => modal = pairAttempt /\ (code = modal \/ relabelled)

\* A token the user confirmed is good until the user takes it back: no attempt that is
\* cancelled revokes it.
ConfirmedStaysGood ==
    \A t \in confirmed \ undone : row[t] = "live" /\ t \notin revoking

\* A token is shown in the modal of its own attempt, is good once the user has confirmed
\* it, and does not stay when the user backs out.
PairingAccounted ==
    /\ PairingTypeOK
    /\ NoOrphanToken /\ ModalShowsItsToken /\ ConfirmedStaysGood
=============================================================================
