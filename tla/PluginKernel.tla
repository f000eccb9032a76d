---------------------------- MODULE PluginKernel ----------------------------
(***************************************************************************)
(* PhaseZeroKernel (phase-zero-kernel.ts): the activation of the           *)
(* Contributions of the discovered packages at the start of the Relay, in  *)
(* the order of their dependency graph, with configurations that are       *)
(* refused and entries that fail to load, the graph it shows, and their    *)
(* disposal.  An invocation of a Harness is in ConversationHarness.        *)
(*                                                                         *)
(* Before it, discoverPluginPackages (package-discovery.ts) looks for the  *)
(* packages, over the directories of the allowed roots in the order they   *)
(* are read.  A directory has no manifest, one that is refused (no JSON,   *)
(* ill-formed, for another version of VoiceClaw, with a missing entry), or *)
(* one with an id.                                                         *)
(*                                                                         *)
(* resolveRequiredDependencyGraph (dependency-graph.ts) says which         *)
(* Contributions can be activated, in which order, and which wait.  A      *)
(* Contribution is its place in the list of candidates, and a version      *)
(* satisfies every range or none.  A scenario s says what each one         *)
(* provides and requires, whose version fits, which provider the Profile   *)
(* selects for a Contract and which requirements have a grant.  Edges are  *)
(* listed by consumer and Contract, as the code lists them.                *)
(***************************************************************************)
EXTENDS Integers, Sequences, FiniteSets, SequencesExt

CONSTANTS Contributions, Contracts, Ids, Scenarios

NoManifest == "no manifest"
Refused == "refused"

\* Mutant: an id that was found twice may be taken by a third package.
AcceptThird(found, i, id) ==
    IF \E p \in found.packages : p[2] = id
    THEN [found EXCEPT !.packages = {p \in @ : p[2] # id},
                       !.rejections = @ \cup {i} \cup {p[1] : p \in {q \in found.packages : q[2] = id}}]
    ELSE [found EXCEPT !.packages = @ \cup {<<i, id>>}]

\* A valid manifest: with an id that was found before, neither package is accepted.
Accept(found, i, id) ==
    LET existing == {p \in found.packages : p[2] = id} IN
    IF existing # {} \/ id \in found.duplicates
    THEN [packages |-> found.packages \ existing,
          rejections |-> found.rejections \cup {i} \cup {p[1] : p \in existing},
          duplicates |-> found.duplicates \cup {id}]
    ELSE [found EXCEPT !.packages = @ \cup {<<i, id>>}]

Read(directories, found, i) ==
    IF directories[i] = NoManifest THEN found
    ELSE IF directories[i] = Refused THEN [found EXCEPT !.rejections = @ \cup {i}]
    ELSE Accept(found, i, directories[i])

DiscoverPluginPackages(directories) ==
    FoldLeft(LAMBDA found, i : Read(directories, found, i),
             [packages |-> {}, rejections |-> {}, duplicates |-> {}],
             [i \in DOMAIN directories |-> i])

-----------------------------------------------------------------------------
(* The dependency graph. *)

None == 0

\* The first provider whose version fits, of those selected if one is.
Provider(s, k) ==
    LET choices == {c \in s.fits : k \in s.provides[c] /\ s.selected[k] \in {None, c}}
    IN  IF choices = {} THEN None ELSE CHOOSE c \in choices : \A d \in choices : c <= d

Served(s, c, k) == Provider(s, k) # None /\ <<c, k>> \in s.granted

Missing(s) == {c \in Contributions : \E k \in s.requires[c] : ~Served(s, c, k)}

EdgesOf(s) ==
    {[provider |-> Provider(s, e[2]), consumer |-> e[1], contract |-> e[2]] :
        e \in {f \in Contributions \X Contracts :
                  f[2] \in s.requires[f[1]] /\ Served(s, f[1], f[2])}}

\* Mutant: only the direct consumers are reached.
SpreadOnce(edges, pending) ==
    pending \cup {e.consumer : e \in {f \in edges : f.provider \in pending}}

\* Whoever requires a pending provider is pending, too.
Spread(edges, pending) ==
    LET More(P) == P \cup {e.consumer : e \in {f \in edges : f.provider \in P}}
        spread[P \in SUBSET Contributions] == IF More(P) = P THEN P ELSE spread[More(P)]
    IN  spread[pending]

Before(e, f) == e.consumer < f.consumer \/ (e.consumer = f.consumer /\ e.contract < f.contract)
Outgoing(edges, c) == SetToSortSeq({e \in edges : e.provider = c}, Before)

\* findCycles' visit: found has the Contributions that are complete, and the members
\* of every cycle that was closed.
Found == [complete : SUBSET Contributions, cycles : SUBSET SUBSET Contributions]
Visit(edges) ==
    LET visit[path \in Seq(Contributions), c \in Contributions, found \in Found] ==
            IF c \in found.complete THEN found
            ELSE IF \E i \in DOMAIN path : path[i] = c
            THEN LET start == CHOOSE i \in DOMAIN path : path[i] = c
                 IN  [found EXCEPT !.cycles = @ \cup {{path[i] : i \in start..Len(path)}}]
            ELSE LET visited == FoldLeft(LAMBDA acc, e : visit[Append(path, c), e.consumer, acc],
                                         found, Outgoing(edges, c))
                 IN  [visited EXCEPT !.complete = @ \cup {c}]
    IN  visit

FindCycles(ids, edges) ==
    FoldLeft(LAMBDA acc, c : Visit(edges)[<<>>, c, acc],
             [complete |-> {}, cycles |-> {}], SetToSortSeq(ids, <)).cycles

\* Whoever waits for the first in the queue has one provider less to wait for.
Lowered(edges, queue, indegree) ==
    FoldLeft(LAMBDA acc, e :
               [degree |-> [acc.degree EXCEPT ![e.consumer] = @ - 1],
                queue |-> IF acc.degree[e.consumer] = 1
                          THEN Append(acc.queue, e.consumer) ELSE acc.queue],
             [degree |-> indegree, queue |-> Tail(queue)], Outgoing(edges, Head(queue)))

\* The activation order: whoever has no provider left to wait for is next.
Activate(edges, first, degrees) ==
    LET activate[queue \in Seq(Contributions), indegree \in [DOMAIN degrees -> Int]] ==
            IF queue = <<>> THEN <<>>
            ELSE LET after == Lowered(edges, queue, indegree)
                 IN  <<Head(queue)>> \o activate[after.queue, after.degree]
    IN  activate[first, degrees]

ActivationOrder(active, edges) ==
    LET within == {e \in edges : e.provider \in active /\ e.consumer \in active}
        indegree == [c \in active |-> Cardinality({e \in within : e.consumer = c})]
    IN  Activate(within, SetToSortSeq({c \in active : indegree[c] = 0}, <), indegree)

\* resolveRequiredDependencyGraph
Resolve(s) ==
    LET edges == EdgesOf(s)
        eligible == Contributions \ Spread(edges, Missing(s))
        cycles == FindCycles(eligible,
                             {e \in edges : e.provider \in eligible /\ e.consumer \in eligible})
        pending == Spread(edges, (Contributions \ eligible) \cup UNION cycles)
    IN  [order |-> ActivationOrder(Contributions \ pending, edges),
         edges |-> edges, pending |-> pending, cycles |-> cycles]

-----------------------------------------------------------------------------

VARIABLES
    scenario,       \* the candidates
    graph,          \* their dependency graph
    next,           \* the place of the activation loop, 0 once the kernel serves
    entries,        \* #entries
    failed,         \* activationFailures
    waiting,        \* runtimePending
    shown,          \* the states that the effective graph shows
    selected,       \* #selectedProviders
    shownSelected   \* Contracts with a provider in the effective graph

kernelVars == <<scenario, graph, next, entries, failed, waiting, shown, selected, shownSelected>>

KernelTypeOK ==
    /\ scenario \in Scenarios
    /\ graph.order \in Seq(Contributions) /\ graph.pending \subseteq Contributions
    /\ next \in 0..Len(graph.order) + 1
    /\ entries \subseteq Contributions /\ failed \subseteq Contributions
    /\ waiting \subseteq Contributions
    /\ shown \in [Contributions -> {"unknown", "PENDING", "ACTIVE", "FAILED", "DISPOSED"}]
    /\ selected \in [Contracts -> Contributions \cup {None}]
    /\ shownSelected \subseteq Contracts

Init ==
    /\ scenario \in Scenarios /\ graph = Resolve(scenario)
    /\ next = 1 /\ entries = {} /\ failed = {} /\ waiting = {}
    /\ shown = [c \in Contributions |-> "unknown"]
    /\ selected = scenario.selected /\ shownSelected = {}

-----------------------------------------------------------------------------
Booting == next \in DOMAIN graph.order
Key == graph.order[next]
ProvidersActive == \A e \in graph.edges : e.consumer = Key => e.provider \in entries

\* The configuration is invalid, or the entry fails to load.
Fails ==
    /\ Booting
    /\ failed' = failed \cup {Key}
    /\ next' = next + 1
    /\ UNCHANGED <<scenario, graph, entries, waiting, shown, selected, shownSelected>>

\* Mutant: an entry is loaded whether or not its providers were.
LoadsAnyway ==
    /\ Booting
    /\ entries' = entries \cup {Key}
    /\ next' = next + 1
    /\ UNCHANGED <<scenario, graph, failed, waiting, shown, selected, shownSelected>>

Loads ==
    /\ Booting /\ ProvidersActive
    /\ entries' = entries \cup {Key}
    /\ next' = next + 1
    /\ UNCHANGED <<scenario, graph, failed, waiting, shown, selected, shownSelected>>

\* A provider failed.
Waits ==
    /\ Booting /\ ~ProvidersActive
    /\ waiting' = waiting \cup {Key}
    /\ next' = next + 1
    /\ UNCHANGED <<scenario, graph, entries, failed, shown, selected, shownSelected>>

\* The end of bootstrap: the effective graph.
Serves ==
    /\ next > Len(graph.order)
    /\ next' = 0
    /\ shown' = [c \in Contributions |-> IF c \in failed THEN "FAILED"
                                         ELSE IF c \in entries THEN "ACTIVE" ELSE "PENDING"]
    /\ shownSelected' = {k \in Contracts :
          LET c == scenario.selected[k] IN c \in entries /\ k \in scenario.provides[c]}
    /\ UNCHANGED <<scenario, graph, entries, failed, waiting, selected>>

\* Mutant: the selection of a disposed provider stays in the graph.
Deselect(affected) ==
    /\ selected' = [k \in Contracts |-> IF selected[k] \in affected THEN None ELSE selected[k]]
    /\ UNCHANGED shownSelected

\* Selections of disposed providers are dropped, in the kernel and in its graph.
Deselected(affected) ==
    /\ selected' = [k \in Contracts |-> IF selected[k] \in affected THEN None ELSE selected[k]]
    /\ shownSelected' = {k \in shownSelected : scenario.selected[k] \notin affected}

\* disposeContribution, with everyone who depends on it.
Dispose(c) ==
    /\ next = 0 /\ c \in entries
    /\ LET affected == Spread(graph.edges, {c}) IN
         /\ entries' = entries \ affected
         /\ shown' = [d \in Contributions |-> IF d = c THEN "DISPOSED"
                                              ELSE IF d \in affected THEN "PENDING" ELSE shown[d]]
         /\ Deselected(affected)
    /\ UNCHANGED <<scenario, graph, next, failed, waiting>>

Next ==
    \/ Fails \/ Loads \/ Waits \/ Serves
    \/ \E c \in Contributions : Dispose(c)

Spec == Init /\ [][Next]_kernelVars

-----------------------------------------------------------------------------
\* What the order is to be: the least set that has everyone whose requirements are
\* all met by a granted Contract of one in the set.
Activatable(s) ==
    LET Closed(S) == \A c \in Contributions :
                        (\A k \in s.requires[c] : Served(s, c, k) /\ Provider(s, k) \in S) => c \in S
    IN  {c \in Contributions : \A S \in SUBSET Contributions : Closed(S) => c \in S}

\* The activation order has exactly those, each once, providers first, and everyone
\* else is reported as pending.
OrderIsRight(s, g) ==
    /\ {g.order[i] : i \in DOMAIN g.order} = Activatable(s)
    /\ \A i, j \in DOMAIN g.order :
          /\ g.order[i] = g.order[j] => i = j
          /\ \A e \in g.edges : e.provider = g.order[i] /\ e.consumer = g.order[j] => i < j
    /\ g.pending = Contributions \ Activatable(s)

\* Whatever the order of the directories: the packages with an id of their own are
\* accepted, and every other manifest is rejected.
IdsAreUnique(directories) ==
    LET found == DiscoverPluginPackages(directories)
        manifests == {i \in DOMAIN directories : directories[i] # NoManifest}
        accepted == {i \in manifests :
                        /\ directories[i] # Refused
                        /\ \A j \in manifests \ {i} : directories[j] # directories[i]}
    IN  /\ {p[1] : p \in found.packages} = accepted
        /\ found.rejections = manifests \ accepted

\* Whoever is active has all its requirements met by active providers, through
\* refused configurations, failed loads and disposals of others.
ActiveIsServed ==
    \A c \in entries : \A k \in scenario.requires[c] :
        Served(scenario, c, k) /\ Provider(scenario, k) \in entries

\* invoke() accepts the selected provider of a Contract.
Accepts(k) == selected[k] \in entries /\ k \in scenario.provides[selected[k]]

\* The effective graph shows who can be called: the active Contributions, and the
\* selected providers an invocation is accepted for.
GraphIsTrue ==
    next = 0 =>
        /\ \A c \in Contributions : shown[c] = "ACTIVE" <=> c \in entries
        /\ shownSelected = {k \in Contracts : Accepts(k)}
=============================================================================
