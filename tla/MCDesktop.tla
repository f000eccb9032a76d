------------------------------ MODULE MCDesktop ------------------------------
(***************************************************************************)
(* Model checking of the components of Desktop's main process that share   *)
(* no state: the Host connection, the Codex provider, the bundled services *)
(* and the global shortcuts.  A behaviour runs one of them, chosen at      *)
(* first: interleaving them would multiply their states and add no         *)
(* behaviour to any.                                                       *)
(***************************************************************************)
EXTENDS HostTransport, CodexProvider

CONSTANTS
    Children, NoChild, MaxRestarts,
    Keys, NoKey

ASSUME DesktopAssumption == NoChild \notin Children /\ NoKey \notin Keys /\ MaxRestarts \in Nat

VARIABLES
    part,
    status, current, child, owner, checking, probed, booting, bootChild, queue, leaving, restarts,
    quitting, speaker, unseen,
    saved, registered, system, others, failed, taken

Services == <<"openclawGateway", "relay">>

Bundled == INSTANCE ServiceManager
Shortcuts == INSTANCE GlobalShortcuts

serviceVars == <<status, current, child, owner, checking, probed, booting, bootChild, queue, leaving,
    restarts, quitting, speaker, unseen>>
shortcutVars == <<saved, registered, system, others, failed, taken>>
vars == <<part, transportVars, codexVars, serviceVars, shortcutVars>>

\* The shortcuts of a behaviour that does not use them.
Idle ==
    /\ saved = <<NoKey, NoKey>> /\ registered = saved
    /\ system = [k \in Keys |-> 0] /\ others = {}
    /\ failed = {} /\ taken = {}

DesktopInit ==
    /\ part \in {"host", "codex", "services", "shortcuts"}
    /\ Init /\ CodexInit /\ Bundled!Init
    /\ IF part = "shortcuts" THEN Shortcuts!Init ELSE Idle

DesktopNext ==
    \/ part = "host" /\ Next /\ UNCHANGED <<part, codexVars, serviceVars, shortcutVars>>
    \/ part = "codex" /\ CodexNext /\ UNCHANGED <<part, transportVars, serviceVars, shortcutVars>>
    \/ /\ part = "services" /\ Bundled!Next
       /\ UNCHANGED <<part, transportVars, codexVars, shortcutVars>>
    \/ /\ part = "shortcuts" /\ Shortcuts!Next
       /\ UNCHANGED <<part, transportVars, codexVars, serviceVars>>

DesktopSpec == DesktopInit /\ [][DesktopNext]_vars /\ Fairness /\ CodexFairness

\* A bundled service has one process at most, and a status that was last set for that
\* process is true of it unless it exited while it was probed; and a key triggers the action that the main process and the settings say.
ServicesAccounted ==
    /\ Bundled!ServiceTypeOK
    /\ Bundled!OneChild /\ Bundled!StatusIsTrue
    /\ Shortcuts!ShortcutsTypeOK /\ Shortcuts!ShortcutsAgree

\* A Host that lost its connection gets one again, and a call of the provider
\* ends.
DesktopSettles == HostComesBack /\ EveryCallEnds
=============================================================================
