--------------------------- MODULE RegistryContract ---------------------------
(***************************************************************************)
(* What the Relay's control state promises about Desktop Hosts: one        *)
(* document whose commits take effect one after another and are never      *)
(* undone, in which one registration at most is active, and in which a     *)
(* revoked registration stays revoked.  HostRegistry, with its queue, its  *)
(* temporary files and its restarts, implements it.                        *)
(***************************************************************************)
EXTENDS Naturals

CONSTANTS
    Hosts,    \* Host identifiers, one for each enrollment token
    None

VARIABLE doc  \* the control state: its revision and the registrations

\* ControlStateDocument: what enrollment, admission and management tell apart.
\* Registrations are appended and never removed, so that the first one stays.
Documents ==
    [revision : Nat, status : [Hosts -> {"absent", "active", "revoked"}],
     first : Hosts \cup {None}]

\* emptyControlState: a control state file that does not exist.
EmptyDocument == [revision |-> 0, status |-> [h \in Hosts |-> "absent"], first |-> None]

\* The registration of the one active Host is added.
Enrolled(d, h) ==
    [revision |-> d.revision + 1, status |-> [d.status EXCEPT ![h] = "active"],
     first |-> IF d.first = None THEN h ELSE d.first]

\* The Host's registration is marked revoked.
Revoked(d, h) ==
    [revision |-> d.revision + 1,
     status |-> IF d.status[h] = "absent" THEN d.status
                ELSE [d.status EXCEPT ![h] = "revoked"],
     first |-> d.first]

\* The time of a Host's last activity, which nothing here depends on, is set.
Touched(d) == [revision |-> d.revision + 1, status |-> d.status, first |-> d.first]

SomeActive(d) == \E h \in Hosts : d.status[h] = "active"

Init == doc = EmptyDocument

Enroll(h) == ~SomeActive(doc) /\ doc.status[h] = "absent" /\ doc' = Enrolled(doc, h)

Revoke(h) == doc.status[h] # "absent" /\ doc' = Revoked(doc, h)

Touch == doc' = Touched(doc)

Next == Touch \/ \E h \in Hosts : Enroll(h) \/ Revoke(h)

Spec == Init /\ [][Next]_doc
=============================================================================
