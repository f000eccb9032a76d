---------------------------- MODULE GlobalShortcuts ----------------------------
(***************************************************************************)
(* The Desktop's global keyboard shortcuts (main/shortcuts.ts): which key  *)
(* triggers which action is kept in the settings, in the process and with  *)
(* the operating system, whose keys other applications take as well.       *)
(*                                                                         *)
(* A handler runs to its end before the next one; the process may restart  *)
(* between any two, and a write of the settings may fail unnoticed.  Left  *)
(* out: what the name of a key may look like, and a read that fails.       *)
(***************************************************************************)
EXTENDS Naturals, FiniteSets, Functions

CONSTANTS
    Keys,        \* accelerators
    NoKey        \* an action that has none

VARIABLES
    saved,       \* the settings: the key of each action
    registered,  \* registered: the key of each action, NoKey when it has none
    system,      \* the operating system: the action that each key of ours triggers
    others,      \* the keys that other applications hold
    failed,      \* history: actions whose key could not be bound or saved
    taken        \* history: actions whose key was given to another

shortcutVars == <<saved, registered, system, others, failed, taken>>

\* SHORTCUT_ACTIONS, of which two show all there is to them: an earlier and a later one.
Actions == 1..2
NoAction == 0

ShortcutsTypeOK ==
    /\ saved \in [Actions -> Keys \cup {NoKey}]
    /\ registered \in [Actions -> Keys \cup {NoKey}]
    /\ system \in [Keys -> Actions \cup {NoAction}]
    /\ others \subseteq Keys
    /\ failed \subseteq Actions /\ taken \subseteq Actions

\* What the operating system and the process know, while a handler changes it.
Bindings == [registered : [Actions -> Keys \cup {NoKey}], system : [Keys -> Actions \cup {NoAction}]]
Unbound == [registered |-> [a \in Actions |-> NoKey], system |-> [k \in Keys |-> NoAction]]

\* unregisterOne
UnregisterOne(b, a) ==
    IF b.registered[a] = NoKey THEN b
    ELSE [registered |-> [b.registered EXCEPT ![a] = NoKey],
          system |-> [b.system EXCEPT ![b.registered[a]] = NoAction]]

\* Mutant: the action that holds the key keeps its entry.
ReleasedQuietly(b, k) == [b EXCEPT !.system[k] = NoAction]

\* Another action that holds the key loses it.
Released(b, k) ==
    [registered |-> [a \in Actions |-> IF b.registered[a] = k THEN NoKey ELSE b.registered[a]],
     system |-> [b.system EXCEPT ![k] = NoAction]]

\* Mutant: what the action had before is forgotten, and stays with the system.
ApplyOverOld(b, a, k) ==
    IF k \in others THEN b
    ELSE [registered |-> [Released(b, k).registered EXCEPT ![a] = k],
          system |-> [Released(b, k).system EXCEPT ![k] = a]]

\* applyOne: whoever had the key, and what the action had, is released first, also
\* when the system then refuses the key.
ApplyOne(b, a, k) ==
    LET free == Released(UnregisterOne(b, a), k)
    IN IF k \in others THEN free
       ELSE [registered |-> [free.registered EXCEPT ![a] = k],
             system |-> [free.system EXCEPT ![k] = a]]

Bound(b, a, keys) == IF keys[a] = NoKey THEN b ELSE ApplyOne(b, a, keys[a])

\* applyAll: after all are released, each action in its order takes its key.
ApplyAll(keys) == Bound(Bound(Unbound, 1, keys), 2, keys)

\* What applyAll could not bind, or bound and gave to a later action.
Refused(keys) == {a \in Actions : keys[a] \in others}
Doubled(keys) == {a \in Actions : keys[a] # NoKey /\ \E other \in Actions \ {a} : keys[other] = keys[a]}

Become(b) == registered' = b.registered /\ system' = b.system

\* The first start saves the defaults, which differ.
Init ==
    /\ saved \in [Actions -> Keys] /\ IsInjective(saved)
    /\ others \in SUBSET Keys
    /\ registered = ApplyAll(saved).registered /\ system = ApplyAll(saved).system
    /\ failed = Refused(saved) /\ taken = {}

-----------------------------------------------------------------------------
\* saveAccelerator, which tells nobody when it fails.
Save(a, k) ==
    \/ saved' = [saved EXCEPT ![a] = k] /\ failed' = failed \ {a}
    \/ saved' = saved /\ failed' = failed \cup {a}

\* shortcuts:set -- the key is saved when it could be bound.
Set(a, k) ==
    LET holders == {other \in Actions \ {a} : registered[other] = k}
        bound == ApplyOne([registered |-> registered, system |-> system], a, k)
    IN /\ Become(bound)
       /\ taken' = (taken \cup holders) \ (IF bound.registered[a] = k THEN {a} ELSE {})
       /\ IF bound.registered[a] = k THEN Save(a, k)
          ELSE saved' = saved /\ failed' = failed \cup {a}
       /\ UNCHANGED others

\* Mutant: a cleared shortcut stays with the system.
ClearSavedOnly(a) ==
    /\ saved' = [saved EXCEPT ![a] = NoKey]
    /\ failed' = failed \ {a} /\ taken' = taken \ {a}
    /\ UNCHANGED <<registered, system, others>>

\* shortcuts:clear
Clear(a) ==
    /\ Save(a, NoKey)
    /\ Become(UnregisterOne([registered |-> registered, system |-> system], a))
    /\ taken' = taken \ {a}
    /\ UNCHANGED others

\* applyAll, of what was saved or, for resetDefaults, of the defaults.
Apply(keys) ==
    /\ saved' = keys
    /\ Become(ApplyAll(keys))
    /\ failed' = Refused(keys) /\ taken' = Doubled(keys)
    /\ UNCHANGED others

\* shortcuts:resetDefaults, some of which may not be saved.
ResetDefaults ==
    \E defaults \in [Actions -> Keys], unsaved \in SUBSET Actions :
        /\ IsInjective(defaults)
        /\ Apply([a \in Actions |-> IF a \in unsaved THEN saved[a] ELSE defaults[a]])

\* The process ends, which frees its keys, and starts again.
Restart == Apply(saved)

\* Another application takes a key that is free, or gives one back.
OtherTakes(k) ==
    /\ system[k] = NoAction
    /\ others' = IF k \in others THEN others \ {k} ELSE others \cup {k}
    /\ UNCHANGED <<saved, registered, system, failed, taken>>

Next ==
    \/ ResetDefaults \/ Restart
    \/ \E a \in Actions : Clear(a) \/ \E k \in Keys : Set(a, k)
    \/ \E k \in Keys : OtherTakes(k)

Spec == Init /\ [][Next]_shortcutVars

-----------------------------------------------------------------------------
\* However keys are rebound, refused, cleared and taken from one another: a key triggers
\* the one action the process thinks it does, and no key stays with the system that no
\* action uses; and the key that the settings show for an action triggers it, with two
\* exceptions: the system refused a key ("a failed binding never leaves the DB pointing
\* at an unregistered accelerator", shortcuts.ts:63-64, but the previous one was
\* released) or it could not be saved, and the key was given to another action, whose settings still show it.
ShortcutsAgree ==
    /\ \A k \in Keys, a \in Actions : system[k] = a <=> registered[a] = k
    /\ \A a \in Actions : saved[a] # registered[a] => a \in failed \cup taken
=============================================================================
