----------------------------- MODULE ClusterFlows -----------------------------
(***************************************************************************)
(* Who runs which flow in a cluster, and the context the nodes share       *)
(* (cluster/partition.rs, sync.rs, api.rs).  Every node has its own view   *)
(* of who is alive, its own table of assignments and its own copy of the   *)
(* context.  Tables and entries travel in snapshots, which arrive late,    *)
(* twice, in any order or never.                                           *)
(***************************************************************************)
EXTENDS Integers, Sequences, SequencesExt, FiniteSets

CONSTANTS
    PartNodes,  \* the nodes, as numbers: the order of their ids
    PartFlows,  \* the flow lists that are deployed: a set of sequences
    PartKeys,   \* keys of the shared context
    PartMax     \* bound on changes made

ASSUME PartAssumption == PartNodes \subseteq Nat /\ IsFiniteSet(PartNodes)

VARIABLES
    parView,    \* for each node the members it holds for alive
    parTable,   \* for each node the owner and the generation of flows
    parCtx,     \* for each node the value and the version of keys
    parSent,    \* snapshots of tables and contexts under way
    parAcks,    \* for each node how many of its deploys it acknowledged
    parOps,     \* changes so far
    parMakers,  \* history: who has made assignments, and who has written context
    parGone     \* history: the flows and keys that were removed somewhere

parVars == <<parView, parTable, parCtx, parSent, parAcks, parOps, parMakers, parGone>>

ParInit ==
    /\ parView \in [PartNodes -> {view \in SUBSET PartNodes : view # {}}]
    /\ \A n \in PartNodes : n \in parView[n]
    /\ parTable = [n \in PartNodes |-> <<>>] /\ parCtx = [n \in PartNodes |-> <<>>]
    /\ parSent = {} /\ parAcks = [n \in PartNodes |-> 0] /\ parOps = 0
    /\ parMakers = {} /\ parGone = {}

With(f, x, y) == [z \in DOMAIN f \union {x} |-> IF z = x THEN y ELSE f[z]]
Only(f, S) == [z \in DOMAIN f \intersect S |-> f[z]]

\* is_alive of every member, as the membership protocol changes it.
ViewChanges(n, view) ==
    /\ n \in view /\ view # parView[n]
    /\ parOps < PartMax /\ parOps' = parOps + 1
    /\ parView' = [parView EXCEPT ![n] = view]
    /\ UNCHANGED <<parTable, parCtx, parSent, parAcks, parMakers, parGone>>

LeaderId(n) == CHOOSE m \in parView[n] : \A k \in parView[n] : m <= k

Makes(n) == parOps < PartMax /\ parOps' = parOps + 1
            /\ parMakers' = parMakers \union {<<"flows", n>>}
            /\ UNCHANGED <<parView, parCtx, parSent, parAcks>>

Bumped(table, f) == IF f \in DOMAIN table THEN table[f].gen + 1 ELSE 1

\* Dealing out the flows to the members in the order the member table lists them.
Dealt(flows, order) ==
    [f \in ToSet(flows) |-> order[(((CHOOSE i \in DOMAIN flows : flows[i] = f) - 1) % Len(order)) + 1]]

\* compute_assignments: only a changed owner gets a new generation, and flows that are
\* no longer deployed are forgotten.
ComputeAssignments(n, flows, order) ==
    /\ LeaderId(n) = n /\ Makes(n)
    /\ LET table == parTable[n]
           dealt == Dealt(flows, order)
       IN  /\ parTable' = [parTable EXCEPT ![n] =
                    [f \in DOMAIN dealt |->
                        IF f \in DOMAIN table /\ table[f].to = dealt[f] THEN table[f]
                        ELSE [to |-> dealt[f], gen |-> Bumped(table, f)]]]
           /\ parGone' = parGone \union (DOMAIN table \ DOMAIN dealt)

\* A mutant: a flow is moved without a new generation.
ReassignedQuietly(entry, to) == [entry EXCEPT !.to = to]

Reassigned(entry, to) == [entry EXCEPT !.to = to, !.gen = @ + 1]

\* rebalance_after_failure: the flows of the dead node, in any order, round robin.
RebalanceAfterFailure(n, dead, order) ==
    /\ order # <<>>
    /\ LET table == parTable[n]
           orphans == {f \in DOMAIN table : table[f].to = dead}
       IN  /\ orphans # {}
           /\ Makes(n)
           /\ \E rank \in {r \in [orphans -> 0 .. Cardinality(orphans) - 1] :
                                \A f, g \in orphans : r[f] = r[g] => f = g} :
                parTable' = [parTable EXCEPT ![n] = [f \in DOMAIN table |->
                    IF f \in orphans THEN Reassigned(table[f], order[(rank[f] % Len(order)) + 1])
                    ELSE table[f]]]
    /\ UNCHANGED parGone

\* get_assignments and context_snapshot, and what a receiver does with them: an entry
\* is taken only when it is newer than the receiver's.
Publishes(n) ==
    /\ parOps < PartMax /\ parOps' = parOps + 1
    /\ \E what \in {[flows |-> parTable[n], keys |-> <<>>], [flows |-> <<>>, keys |-> parCtx[n]]} :
            /\ what.flows # <<>> \/ what.keys # <<>>
            /\ parSent' = parSent \union {what}
    /\ UNCHANGED <<parView, parTable, parCtx, parAcks, parMakers, parGone>>

ApplyAssignments(mine, incoming) ==
    [f \in DOMAIN mine \union DOMAIN incoming |->
        IF f \notin DOMAIN incoming \/ (f \in DOMAIN mine /\ mine[f].gen >= incoming[f].gen)
        THEN mine[f] ELSE incoming[f]]

Receives(n, snapshot) ==
    /\ snapshot \in parSent
    /\ parTable' = [parTable EXCEPT ![n] = ApplyAssignments(@, snapshot.flows)]
    /\ parCtx' = [parCtx EXCEPT ![n] = ApplyAssignments(@, snapshot.keys)]
    /\ <<parTable, parCtx>>' # <<parTable, parCtx>>
    /\ UNCHANGED <<parView, parSent, parAcks, parOps, parMakers, parGone>>

\* context_set and context_delete.
Writes(n) == parOps < PartMax /\ parOps' = parOps + 1
             /\ parMakers' = parMakers \union {<<"keys", n>>}
             /\ UNCHANGED <<parView, parTable, parSent, parAcks>>

ContextSet(n, key) ==
    /\ Writes(n)
    /\ parCtx' = [parCtx EXCEPT ![n] = With(@, key, [to |-> parOps, gen |-> Bumped(@, key)])]
    /\ UNCHANGED parGone

ContextDelete(n, key) ==
    /\ key \in DOMAIN parCtx[n] /\ Writes(n)
    /\ parCtx' = [parCtx EXCEPT ![n] = Only(@, DOMAIN @ \ {key})]
    /\ parGone' = parGone \union {key}

\* post_cluster_deploy: deployed here, through the callback if there is one, and
\* acknowledged by this node alone; nobody is told.
ClusterDeploy(n, ok) ==
    /\ parOps < PartMax /\ parOps' = parOps + 1
    /\ parAcks' = [parAcks EXCEPT ![n] = IF ok THEN @ + 1 ELSE @]
    /\ UNCHANGED <<parView, parTable, parCtx, parSent, parMakers, parGone>>

Listings(S) == {order \in [1 .. Cardinality(S) -> S] : \A i, j \in DOMAIN order : order[i] = order[j] => i = j}

ParNext ==
    \E n \in PartNodes :
        \/ \E view \in SUBSET PartNodes : ViewChanges(n, view)
        \/ \E flows \in PartFlows, order \in Listings(parView[n]) : ComputeAssignments(n, flows, order)
        \/ \E dead \in PartNodes \ {n} : \E order \in Listings(parView[n] \ {dead}) :
                RebalanceAfterFailure(n, dead, order)
        \/ Publishes(n)
        \/ \E snapshot \in parSent : Receives(n, snapshot)
        \/ \E key \in PartKeys : ContextSet(n, key) \/ ContextDelete(n, key)
        \/ \E ok \in BOOLEAN : ClusterDeploy(n, ok)

ParSpec == ParInit /\ [][ParNext]_parVars

---------------------------------------------------------------------------

SingleMaker(what) == Cardinality({n \in PartNodes : <<what, n>> \in parMakers}) <= 1

Agree(tables) ==
    \A n, m \in PartNodes : \A f \in (DOMAIN tables[n] \intersect DOMAIN tables[m]) \ parGone :
        tables[n][f].gen = tables[m][f].gen => tables[n][f].to = tables[m][f].to

\* While a single node makes the assignments (writes the context), two nodes that hold a
\* flow (a key) under the same generation (version) agree about it, however late, often
\* or out of order the snapshots arrive (partition.rs:52, 101, 150; sync.rs:79, 98): the
\* number alone decides which of two tables is the newer. Flows and keys that were removed
\* once (parGone) are outside: they start again from the first number.
LeaderAgrees == /\ SingleMaker("flows") => Agree(parTable)
                /\ SingleMaker("keys") => Agree(parCtx)
==============================================================================
