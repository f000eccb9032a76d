------------------------------ MODULE MCRecovery ------------------------------
(***************************************************************************)
(* Model checking of what must happen in the end in the Relay, and of what *)
(* its restarts leave behind: the Host gateway, the Harness conversations  *)
(* and the registry of Hosts.  The gateway and the conversations have      *)
(* their safety checked in runs of their own; a behaviour of this one runs *)
(* one of the three, chosen at first.                                      *)
(***************************************************************************)
EXTENDS HostRegistry

CONSTANTS
    GatewayHosts, Bindings, Sockets, Invocations, MaxSequence, GatewayRestarts,
    Conversations, Turns, MaxEvents, MaxSessions

VARIABLES
    part,
    assigned, generation, connected, readiness, commits, sockState, sockHost, current, attempts,
    ended,
    calls, turn, backlog, active, mappings, session, sessionActive

Gateway == INSTANCE HostGateway
    WITH Hosts <- GatewayHosts, LocalHosts <- GatewayHosts, restarts <- ended,
         MaxRestarts <- GatewayRestarts

Harness == INSTANCE ConversationHarness
    WITH BindingOf <- [c \in Conversations |-> CHOOSE b \in Bindings : TRUE]

gatewayVars == <<assigned, generation, connected, readiness, commits, sockState, sockHost,
    current, attempts, ended>>
harnessVars == <<calls, turn, backlog, active, mappings, session, sessionActive>>

RecoveryInit ==
    /\ part \in {"registry", "gateway", "harness"}
    /\ Init /\ Gateway!Init /\ Harness!Init
    /\ part # "gateway" => \A b \in Bindings : assigned[b] = None

RecoveryNext ==
    \/ part = "registry" /\ Next /\ UNCHANGED <<part, gatewayVars, harnessVars>>
    \/ part = "gateway" /\ Gateway!Next /\ UNCHANGED <<part, vars, harnessVars>>
    \/ part = "harness" /\ Harness!Next /\ UNCHANGED <<part, vars, gatewayVars>>

RecoverySpec ==
    /\ RecoveryInit /\ [][RecoveryNext]_<<part, vars, gatewayVars, harnessVars>>
    /\ Fairness /\ Gateway!Fairness /\ Harness!Fairness

\* Every request to the registry is answered, a Host that stays attached becomes ready
\* again, and only a Host that says nothing keeps a conversation busy.
RelayRecovers ==
    EveryCallSettles /\ Gateway!AttachedHostRecovers /\ Harness!OnlyHostKeepsBusy
=============================================================================
