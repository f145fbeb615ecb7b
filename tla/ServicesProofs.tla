--------------------------- MODULE ServicesProofs ---------------------------
(***************************************************************************)
(* Proofs about the services around the engine: the assignments of flows   *)
(* and the shared context of a cluster (ClusterFlows), the localfs         *)
(* context store (ContextStore), users and rate limits (AdminApi), and the *)
(* flows and credentials files (FlowFiles), for every set of nodes, flows, *)
(* keys, clients and values.                                               *)
(***************************************************************************)
EXTENDS ClusterFlows, ContextStore, AdminApi, FlowFiles, FiniteSetTheorems, SequenceTheorems, TLAPS

-----------------------------------------------------------------------------
(* ClusterFlows.  A table, wherever it is (in a node or in a snapshot under
   way), is a function from flows to entries.                               *)

Entries(table) ==
  \A f \in DOMAIN table : DOMAIN table[f] = {"to", "gen"} /\ table[f].gen \in Nat

(* Two tables never differ about a flow that has the same generation in both. *)
Coherent(tables, gone) ==
  \A t, u \in tables : \A f \in (DOMAIN t \cap DOMAIN u) \ gone :
    t[f].gen = u[f].gen => t[f].to = u[f].to

(* No table is ahead of the leader's, nor knows a flow it does not know.    *)
Leads(table, tables, gone) ==
  \A t \in tables : \A f \in DOMAIN t \ gone : f \in DOMAIN table /\ t[f].gen <= table[f].gen

(* The only node that has ever made tables of this kind.                    *)
Maker(what, n, makers) ==
  /\ <<what, n>> \in makers
  /\ \A m \in PartNodes : <<what, m>> \in makers => m = n

Settled(what, mine, tables, makers, gone) ==
  /\ DOMAIN mine = PartNodes
  /\ \A n \in PartNodes : mine[n] \in tables
  /\ \A t \in tables : Entries(t)
  /\ (\A n \in PartNodes : <<what, n>> \notin makers) => \A t \in tables : DOMAIN t = {}
  /\ \A n \in PartNodes : Maker(what, n, makers) =>
        Coherent(tables, gone) /\ Leads(mine[n], tables, gone)

FlowTables == {parTable[n] : n \in PartNodes} \cup {s.flows : s \in parSent}
KeyTables  == {parCtx[n] : n \in PartNodes} \cup {s.keys : s \in parSent}

(* The inductive invariant: what is agreed about the tables the nodes hold
   must hold of the snapshots under way too, which may arrive at any time,
   and no copy may be ahead of the only node that makes new generations.    *)
ParInv ==
  /\ Settled("flows", parTable, FlowTables, parMakers, parGone)
  /\ Settled("keys", parCtx, KeyTables, parMakers, parGone)

(* Publishing a table again, or an empty one, and removing more keeps all
   tables settled.                                                          *)
LEMMA SettledFrame ==
  ASSUME NEW what, NEW mine, NEW tables, NEW makers, NEW gone, NEW tables2, NEW makers2, NEW gone2,
         Settled(what, mine, tables, makers, gone),
         \A n \in PartNodes : mine[n] \in tables2,
         \A t \in tables2 : t \in tables \/ t = <<>>,
         \A n \in PartNodes : <<what, n>> \in makers2 <=> <<what, n>> \in makers,
         gone \subseteq gone2
  PROVE  Settled(what, mine, tables2, makers2, gone2)
<1>1. DOMAIN <<>> = {} /\ Entries(<<>>)
  BY DEF Entries
<1>2. \A t \in tables2 : Entries(t)
  BY <1>1 DEF Settled
<1>3. (\A n \in PartNodes : <<what, n>> \notin makers2) => \A t \in tables2 : DOMAIN t = {}
  BY <1>1 DEF Settled
<1>4. ASSUME NEW n \in PartNodes, Maker(what, n, makers2)
      PROVE  Coherent(tables2, gone2) /\ Leads(mine[n], tables2, gone2)
  <2>1. Maker(what, n, makers)
    BY <1>4 DEF Maker
  <2>2. Coherent(tables, gone) /\ Leads(mine[n], tables, gone)
    BY <2>1 DEF Settled
  <2>3. Coherent(tables2, gone2)
    BY <1>1, <2>2 DEF Coherent
  <2>4. Leads(mine[n], tables2, gone2)
    BY <1>1, <2>2 DEF Leads
  <2>5. QED
    BY <2>3, <2>4
<1>5. QED
  BY <1>2, <1>3, <1>4 DEF Settled

(* What a receiver makes of a snapshot: every entry is one of the two, and
   the newer one.                                                           *)
LEMMA Applied ==
  ASSUME NEW mine, NEW incoming, Entries(mine), Entries(incoming)
  PROVE  LET new == ApplyAssignments(mine, incoming) IN
         /\ DOMAIN new = DOMAIN mine \cup DOMAIN incoming
         /\ Entries(new)
         /\ \A f \in DOMAIN new : \/ f \in DOMAIN mine /\ new[f] = mine[f]
                                  \/ f \in DOMAIN incoming /\ new[f] = incoming[f]
         /\ \A f \in DOMAIN mine : new[f].gen >= mine[f].gen
BY DEF ApplyAssignments, Entries

(* A snapshot that arrives, at whichever node and however late, keeps all
   tables settled.                                                          *)
LEMMA SettledReceives ==
  ASSUME NEW what, NEW mine, NEW tables, NEW makers, NEW gone, NEW tables2,
         NEW n \in PartNodes, NEW t \in tables, NEW mine2,
         Settled(what, mine, tables, makers, gone),
         DOMAIN mine2 = PartNodes, \A m \in PartNodes \ {n} : mine2[m] = mine[m],
         mine2[n] = ApplyAssignments(mine[n], t),
         \A m \in PartNodes : mine2[m] \in tables2,
         \A u \in tables2 : u \in tables \/ u = mine2[n]
  PROVE  Settled(what, mine2, tables2, makers, gone)
<1> DEFINE new == ApplyAssignments(mine[n], t)
<1>1. Entries(mine[n]) /\ Entries(t) /\ mine[n] \in tables /\ DOMAIN mine = PartNodes
  BY DEF Settled
<1>2. /\ DOMAIN new = DOMAIN mine[n] \cup DOMAIN t
      /\ Entries(new)
      /\ \A f \in DOMAIN new : \/ f \in DOMAIN mine[n] /\ new[f] = mine[n][f]
                               \/ f \in DOMAIN t /\ new[f] = t[f]
      /\ \A f \in DOMAIN mine[n] : new[f].gen >= mine[n][f].gen
  BY <1>1, Applied
<1>3. mine2[n] = new /\ DOMAIN mine2 = PartNodes /\ \A m \in PartNodes \ {n} : mine2[m] = mine[m]
  BY <1>1
<1> HIDE DEF new
<1>4. \A u \in tables2 : u \in tables \/ u = new
  BY DEF new
<1>5. \A u \in tables2 : Entries(u)
  BY <1>2, <1>4 DEF Settled
<1>6. (\A m \in PartNodes : <<what, m>> \notin makers) => \A u \in tables2 : DOMAIN u = {}
  BY <1>1, <1>2, <1>4 DEF Settled
<1>7. ASSUME NEW l \in PartNodes, Maker(what, l, makers)
      PROVE  Coherent(tables2, gone) /\ Leads(mine2[l], tables2, gone)
  <2>1. Coherent(tables, gone) /\ Leads(mine[l], tables, gone)
    BY <1>7 DEF Settled
  <2>2. Coherent(tables2, gone)
    BY <1>1, <1>2, <1>4, <2>1 DEF Coherent
  <2>3. Leads(mine[l], tables2, gone)
    BY <1>1, <1>2, <1>4, <2>1 DEF Leads
  <2>4. Leads(mine2[l], tables2, gone)
    <3>1. CASE l # n
      BY <1>3, <2>3, <3>1
    <3>2. CASE l = n
      <4> SUFFICES ASSUME NEW u \in tables2, NEW f \in DOMAIN u \ gone
                   PROVE  f \in DOMAIN new /\ u[f].gen <= new[f].gen
        BY <1>3, <3>2 DEF Leads
      <4>1. f \in DOMAIN mine[n] /\ u[f].gen <= mine[n][f].gen
        BY <2>3, <3>2 DEF Leads
      <4>2. f \in DOMAIN new /\ new[f].gen >= mine[n][f].gen
        BY <1>2, <4>1
      <4>3. u[f].gen \in Nat /\ mine[n][f].gen \in Nat /\ new[f].gen \in Nat
        BY <1>1, <1>2, <1>5, <4>1, <4>2 DEF Entries
      <4>4. QED
        BY <4>1, <4>2, <4>3
    <3>3. QED
      BY <3>1, <3>2
  <2>5. QED
    BY <2>2, <2>4
<1>8. QED
  BY <1>3, <1>5, <1>6, <1>7 DEF Settled

(* A new table: what is still there is unchanged or has a later generation. *)
Raises(old, new, gone) ==
  /\ \A f \in DOMAIN old \ gone : f \in DOMAIN new
  /\ \A f \in DOMAIN new : f \in DOMAIN old => new[f] = old[f] \/ new[f].gen > old[f].gen

(* A node that makes a new table from its own keeps all tables settled: if
   it is the only maker its own table is the newest, and if it is not
   nothing is claimed any longer.                                           *)
LEMMA SettledMakes ==
  ASSUME NEW what, NEW mine, NEW tables, NEW makers, NEW gone, NEW tables2, NEW makers2, NEW gone2,
         NEW n \in PartNodes, NEW mine2,
         Settled(what, mine, tables, makers, gone),
         DOMAIN mine2 = PartNodes, \A m \in PartNodes \ {n} : mine2[m] = mine[m],
         Entries(mine2[n]), Raises(mine[n], mine2[n], gone2),
         \A m \in PartNodes : mine2[m] \in tables2,
         \A u \in tables2 : u \in tables \/ u = mine2[n],
         \A m \in PartNodes : <<what, m>> \in makers2 <=> m = n \/ <<what, m>> \in makers,
         gone \subseteq gone2
  PROVE  Settled(what, mine2, tables2, makers2, gone2)
<1> DEFINE new == mine2[n]
<1>1. mine2[n] = new /\ DOMAIN mine2 = PartNodes /\ mine[n] \in tables
  BY DEF Settled
<1>2. \A u \in tables2 : Entries(u)
  BY DEF Settled
<1>3. ASSUME NEW l \in PartNodes, Maker(what, l, makers2)
      PROVE  Coherent(tables2, gone2) /\ Leads(mine2[l], tables2, gone2)
  <2>1. l = n /\ \A m \in PartNodes : <<what, m>> \in makers => m = n
    BY <1>3 DEF Maker
  <2>2. CASE <<what, n>> \notin makers
    <3>1. \A u \in tables : DOMAIN u = {}
      BY <2>1, <2>2 DEF Settled
    <3>2. \A f \in DOMAIN new : new[f].gen <= new[f].gen
      BY DEF Entries
    <3>3. QED
      BY <1>1, <2>1, <3>1, <3>2 DEF Coherent, Leads
  <2>3. CASE <<what, n>> \in makers
    <3>1. Coherent(tables, gone) /\ Leads(mine[n], tables, gone)
      BY <2>1, <2>3 DEF Settled, Maker
    <3>2. ASSUME NEW u \in tables, NEW f \in DOMAIN u \ gone2
          PROVE  /\ f \in DOMAIN new /\ u[f].gen <= new[f].gen
                 /\ u[f].gen = new[f].gen => u[f].to = new[f].to
      <4>1. f \in DOMAIN mine[n] /\ u[f].gen <= mine[n][f].gen
        BY <3>1 DEF Leads
      <4>2. f \in DOMAIN new /\ (new[f] = mine[n][f] \/ new[f].gen > mine[n][f].gen)
        BY <4>1 DEF Raises
      <4>3. u[f].gen = mine[n][f].gen => u[f].to = mine[n][f].to
        BY <1>1, <3>1, <4>1 DEF Coherent
      <4>4. u[f].gen \in Nat /\ mine[n][f].gen \in Nat /\ new[f].gen \in Nat
        BY <1>1, <4>1, <4>2 DEF Settled, Entries
      <4>5. QED
        BY <4>1, <4>2, <4>3, <4>4
    <3>3. \A f \in DOMAIN new : new[f].gen <= new[f].gen
      BY DEF Entries
    <3>4. Leads(new, tables2, gone2)
      BY <3>2, <3>3 DEF Leads
    <3>5. Coherent(tables2, gone2)
      BY <3>1, <3>2 DEF Coherent
    <3>6. QED
      BY <1>1, <2>1, <3>4, <3>5
  <2>4. QED
    BY <2>2, <2>3
<1>4. QED
  BY <1>1, <1>2, <1>3 DEF Settled
(* A flow gets the generation after the one it has.                         *)
LEMMA BumpedRaises ==
  ASSUME NEW table, NEW f, Entries(table)
  PROVE  /\ Bumped(table, f) \in Nat
         /\ f \in DOMAIN table => Bumped(table, f) > table[f].gen
BY DEF Bumped, Entries

(* A partition given to another node gets a higher generation.               *)
LEMMA ReassignedRaises ==
  ASSUME NEW entry, NEW to, DOMAIN entry = {"to", "gen"}, entry.gen \in Nat
  PROVE  /\ DOMAIN Reassigned(entry, to) = {"to", "gen"}
         /\ Reassigned(entry, to).gen \in Nat
         /\ Reassigned(entry, to).gen > entry.gen
BY DEF Reassigned

(* ParInv is inductive.                                                     *)
LEMMA ParStep == ASSUME ParInv, [ParNext]_parVars PROVE ParInv'
<1> DEFINE FlowsSettled == Settled("flows", parTable, FlowTables, parMakers, parGone)
           KeysSettled  == Settled("keys", parCtx, KeyTables, parMakers, parGone)
<1>1. FlowsSettled /\ KeysSettled
  BY DEF ParInv
<1>2. DOMAIN parTable = PartNodes /\ DOMAIN parCtx = PartNodes
  BY <1>1 DEF Settled
<1>3. ASSUME UNCHANGED <<parTable, parSent>>,
             \A n \in PartNodes : <<"flows", n>> \in parMakers' <=> <<"flows", n>> \in parMakers,
             parGone \subseteq parGone'
      PROVE  FlowsSettled'
  <2>1. FlowTables' = FlowTables
    BY <1>3 DEF FlowTables
  <2>2. \A n \in PartNodes : parTable[n] \in FlowTables
    BY DEF FlowTables
  <2> HIDE DEF FlowTables
  <2>3. Settled("flows", parTable, FlowTables, parMakers', parGone')
    BY <1>1, <1>3, <2>2, SettledFrame
  <2>4. QED
    BY <1>3, <2>1, <2>3
<1>4. ASSUME UNCHANGED <<parCtx, parSent>>,
             \A n \in PartNodes : <<"keys", n>> \in parMakers' <=> <<"keys", n>> \in parMakers,
             parGone \subseteq parGone'
      PROVE  KeysSettled'
  <2>1. KeyTables' = KeyTables
    BY <1>4 DEF KeyTables
  <2>2. \A n \in PartNodes : parCtx[n] \in KeyTables
    BY DEF KeyTables
  <2>3. Settled("keys", parCtx, KeyTables, parMakers', parGone')
    BY <1>1, <1>4, <2>2, SettledFrame
  <2>4. QED
    BY <1>4, <2>1, <2>3
<1>5. ASSUME NEW n \in PartNodes, NEW new, parTable' = [parTable EXCEPT ![n] = new], Makes(n),
             Entries(new), Raises(parTable[n], new, parGone'), parGone \subseteq parGone'
      PROVE  ParInv'
  <2>1. parSent' = parSent /\ parCtx' = parCtx /\ parMakers' = parMakers \cup {<<"flows", n>>}
    BY <1>5 DEF Makes
  <2>2. KeysSettled'
    BY <1>4, <1>5, <2>1
  <2>3. \A m \in PartNodes : parTable'[m] \in FlowTables'
    BY DEF FlowTables
  <2>4. DOMAIN parTable' = PartNodes /\ parTable'[n] = new /\ \A m \in PartNodes \ {n} : parTable'[m] = parTable[m]
    BY <1>2, <1>5
  <2>5. \A u \in FlowTables' : u \in FlowTables \/ u = parTable'[n]
    BY <1>2, <2>1, <2>4 DEF FlowTables
  <2>6. Entries(parTable'[n]) /\ Raises(parTable[n], parTable'[n], parGone')
    BY <1>5, <2>4
  <2>7. \A m \in PartNodes : <<"flows", m>> \in parMakers' <=> m = n \/ <<"flows", m>> \in parMakers
    BY <2>1
  <2>8. parGone \subseteq parGone'
    BY <1>5
  <2>9. Settled("flows", parTable', FlowTables', parMakers', parGone')
    BY <1>1, <2>3, <2>4, <2>5, <2>6, <2>7, <2>8, SettledMakes
  <2>10. QED
    BY <2>2, <2>9 DEF ParInv
<1>6. ASSUME NEW n \in PartNodes, NEW new, parCtx' = [parCtx EXCEPT ![n] = new], Writes(n),
             Entries(new), Raises(parCtx[n], new, parGone'), parGone \subseteq parGone'
      PROVE  ParInv'
  <2>1. parSent' = parSent /\ parTable' = parTable /\ parMakers' = parMakers \cup {<<"keys", n>>}
    BY <1>6 DEF Writes
  <2>2. FlowsSettled'
    BY <1>3, <1>6, <2>1
  <2>3. \A m \in PartNodes : parCtx'[m] \in KeyTables'
    BY DEF KeyTables
  <2>4. DOMAIN parCtx' = PartNodes /\ parCtx'[n] = new /\ \A m \in PartNodes \ {n} : parCtx'[m] = parCtx[m]
    BY <1>2, <1>6
  <2>5. \A u \in KeyTables' : u \in KeyTables \/ u = parCtx'[n]
    BY <1>2, <2>1, <2>4 DEF KeyTables
  <2>6. Entries(parCtx'[n]) /\ Raises(parCtx[n], parCtx'[n], parGone')
    BY <1>6, <2>4
  <2>7. \A m \in PartNodes : <<"keys", m>> \in parMakers' <=> m = n \/ <<"keys", m>> \in parMakers
    BY <2>1
  <2>8. parGone \subseteq parGone'
    BY <1>6
  <2>9. Settled("keys", parCtx', KeyTables', parMakers', parGone')
    BY <1>1, <2>3, <2>4, <2>5, <2>6, <2>7, <2>8, SettledMakes
  <2>10. QED
    BY <2>2, <2>9 DEF ParInv
<1>7. ASSUME NEW n \in PartNodes, NEW view, ViewChanges(n, view) PROVE ParInv'
  BY <1>3, <1>4, <1>7 DEF ViewChanges, ParInv
<1>8. ASSUME NEW n \in PartNodes, NEW ok, ClusterDeploy(n, ok) PROVE ParInv'
  BY <1>3, <1>4, <1>8 DEF ClusterDeploy, ParInv
<1>9. ASSUME NEW n \in PartNodes, NEW flows, NEW order, ComputeAssignments(n, flows, order) PROVE ParInv'
  <2> DEFINE dealt == Dealt(flows, order)
             table == parTable[n]
             new == [f \in DOMAIN dealt |->
                        IF f \in DOMAIN table /\ table[f].to = dealt[f] THEN table[f]
                        ELSE [to |-> dealt[f], gen |-> Bumped(table, f)]]
  <2>1. Makes(n) /\ parTable' = [parTable EXCEPT ![n] = new]
        /\ parGone' = parGone \cup (DOMAIN table \ DOMAIN dealt)
    BY <1>9 DEF ComputeAssignments
  <2>2. Entries(table)
    BY <1>1 DEF Settled
  <2> HIDE DEF dealt, table
  <2>3. ASSUME NEW f \in DOMAIN new
        PROVE  /\ DOMAIN new[f] = {"to", "gen"} /\ new[f].gen \in Nat
               /\ f \in DOMAIN table => new[f] = table[f] \/ new[f].gen > table[f].gen
    <3>1. CASE f \in DOMAIN table /\ table[f].to = dealt[f]
      BY <2>2, <2>3, <3>1 DEF Entries
    <3>2. CASE ~(f \in DOMAIN table /\ table[f].to = dealt[f])
      <4>1. new[f] = [to |-> dealt[f], gen |-> Bumped(table, f)]
        BY <2>3, <3>2
      <4>2. DOMAIN new[f] = {"to", "gen"} /\ new[f].gen = Bumped(table, f)
        BY <4>1
      <4>3. QED
        BY <2>2, <4>2, BumpedRaises
    <3>3. QED
      BY <3>1, <3>2
  <2>4. Entries(new)
    BY <2>3 DEF Entries
  <2>5. \A f \in DOMAIN table \ parGone' : f \in DOMAIN new
    BY <2>1
  <2>6. Raises(table, new, parGone')
    BY <2>3, <2>5 DEF Raises
  <2>7. QED
    BY <1>5, <2>1, <2>4, <2>6 DEF table
<1>10. ASSUME NEW n \in PartNodes, NEW dead, NEW order, RebalanceAfterFailure(n, dead, order)
       PROVE  ParInv'
  <2> DEFINE table == parTable[n]
             orphans == {f \in DOMAIN table : table[f].to = dead}
  <2>1. PICK rank : parTable' = [parTable EXCEPT ![n] = [f \in DOMAIN table |->
                    IF f \in orphans THEN Reassigned(table[f], order[(rank[f] % Len(order)) + 1])
                    ELSE table[f]]]
    BY <1>10 DEF RebalanceAfterFailure
  <2> DEFINE new == [f \in DOMAIN table |->
                    IF f \in orphans THEN Reassigned(table[f], order[(rank[f] % Len(order)) + 1])
                    ELSE table[f]]
  <2>2. Makes(n) /\ parGone' = parGone /\ parTable' = [parTable EXCEPT ![n] = new]
    BY <1>10, <2>1 DEF RebalanceAfterFailure
  <2>3. Entries(table)
    BY <1>1 DEF Settled
  <2> HIDE DEF table, orphans
  <2>4. ASSUME NEW f \in DOMAIN table
        PROVE  /\ DOMAIN new[f] = {"to", "gen"} /\ new[f].gen \in Nat
               /\ new[f] = table[f] \/ new[f].gen > table[f].gen
    <3>1. DOMAIN table[f] = {"to", "gen"} /\ table[f].gen \in Nat
      BY <2>3 DEF Entries
    <3>2. CASE f \in orphans
      <4>1. new[f] = Reassigned(table[f], order[(rank[f] % Len(order)) + 1])
        BY <3>2
      <4>2. QED
        BY <3>1, <4>1, ReassignedRaises
    <3>3. CASE f \notin orphans
      BY <3>1, <3>3
    <3>4. QED
      BY <3>2, <3>3
  <2>5. DOMAIN new = DOMAIN table
    OBVIOUS
  <2> HIDE DEF new
  <2>6. Entries(new) /\ Raises(table, new, parGone')
    BY <2>4, <2>5 DEF Entries, Raises
  <2>7. QED
    BY <1>5, <2>2, <2>6 DEF table
<1>11. ASSUME NEW n \in PartNodes, Publishes(n) PROVE ParInv'
  <2>1. PICK what \in {[flows |-> parTable[n], keys |-> <<>>], [flows |-> <<>>, keys |-> parCtx[n]]} :
             parSent' = parSent \cup {what}
    BY <1>11 DEF Publishes
  <2>2. UNCHANGED <<parTable, parCtx, parMakers, parGone>>
    BY <1>11 DEF Publishes
  <2>3. what.flows = parTable[n] \/ what.flows = <<>>
    BY <2>1
  <2>4. what.keys = parCtx[n] \/ what.keys = <<>>
    BY <2>1
  <2>5. \A t \in FlowTables' : t \in FlowTables \/ t = <<>>
    BY <2>1, <2>2, <2>3 DEF FlowTables
  <2>6. \A t \in KeyTables' : t \in KeyTables \/ t = <<>>
    BY <2>1, <2>2, <2>4 DEF KeyTables
  <2>7. \A m \in PartNodes : parTable[m] \in FlowTables'
    BY <2>2 DEF FlowTables
  <2>8. \A m \in PartNodes : parCtx[m] \in KeyTables'
    BY <2>2 DEF KeyTables
  <2>9. Settled("flows", parTable, FlowTables', parMakers, parGone)
    BY <1>1, <2>5, <2>7, SettledFrame
  <2>10. Settled("keys", parCtx, KeyTables', parMakers, parGone)
    BY <1>1, <2>6, <2>8, SettledFrame
  <2>11. QED
    BY <2>2, <2>9, <2>10 DEF ParInv
<1>12. ASSUME NEW n \in PartNodes, NEW snapshot, Receives(n, snapshot) PROVE ParInv'
  <2>1. /\ snapshot \in parSent
        /\ parTable' = [parTable EXCEPT ![n] = ApplyAssignments(@, snapshot.flows)]
        /\ parCtx' = [parCtx EXCEPT ![n] = ApplyAssignments(@, snapshot.keys)]
        /\ UNCHANGED <<parSent, parMakers, parGone>>
    BY <1>12 DEF Receives
  <2>2. snapshot.flows \in FlowTables /\ snapshot.keys \in KeyTables
    BY <2>1 DEF FlowTables, KeyTables
  <2>3. \A m \in PartNodes : parTable'[m] \in FlowTables' /\ parCtx'[m] \in KeyTables'
    BY DEF FlowTables, KeyTables
  <2>4. /\ DOMAIN parTable' = PartNodes /\ DOMAIN parCtx' = PartNodes
        /\ parTable'[n] = ApplyAssignments(parTable[n], snapshot.flows)
        /\ parCtx'[n] = ApplyAssignments(parCtx[n], snapshot.keys)
        /\ \A m \in PartNodes \ {n} : parTable'[m] = parTable[m] /\ parCtx'[m] = parCtx[m]
    BY <1>2, <2>1
  <2>5. \A u \in FlowTables' : u \in FlowTables \/ u = parTable'[n]
    BY <1>2, <2>1, <2>4 DEF FlowTables
  <2>6. \A u \in KeyTables' : u \in KeyTables \/ u = parCtx'[n]
    BY <1>2, <2>1, <2>4 DEF KeyTables
  <2>7. Settled("flows", parTable', FlowTables', parMakers, parGone)
    BY <1>1, <2>2, <2>3, <2>4, <2>5, SettledReceives
  <2>8. Settled("keys", parCtx', KeyTables', parMakers, parGone)
    BY <1>1, <2>2, <2>3, <2>4, <2>6, SettledReceives
  <2>9. QED
    BY <2>1, <2>7, <2>8 DEF ParInv
<1>13. ASSUME NEW n \in PartNodes, NEW key, ContextSet(n, key) PROVE ParInv'
  <2> DEFINE table == parCtx[n]
             new == With(table, key, [to |-> parOps, gen |-> Bumped(table, key)])
  <2>1. Writes(n) /\ parGone' = parGone /\ parCtx' = [parCtx EXCEPT ![n] = new]
    BY <1>13 DEF ContextSet
  <2>2. Entries(table)
    BY <1>1 DEF Settled
  <2> HIDE DEF table
  <2>3. DOMAIN new = DOMAIN table \cup {key}
        /\ \A f \in DOMAIN new : IF f = key THEN new[f] = [to |-> parOps, gen |-> Bumped(table, key)]
                                 ELSE new[f] = table[f]
    BY DEF With
  <2> HIDE DEF new
  <2>4. \A f \in DOMAIN new : /\ DOMAIN new[f] = {"to", "gen"} /\ new[f].gen \in Nat
                              /\ f \in DOMAIN table => new[f] = table[f] \/ new[f].gen > table[f].gen
    BY <2>2, <2>3, BumpedRaises DEF Entries
  <2>5. Entries(new) /\ Raises(table, new, parGone')
    BY <2>3, <2>4 DEF Entries, Raises
  <2>6. QED
    BY <1>6, <2>1, <2>5 DEF table
<1>14. ASSUME NEW n \in PartNodes, NEW key \in PartKeys, ContextDelete(n, key) PROVE ParInv'
  <2> DEFINE table == parCtx[n]
             new == Only(table, DOMAIN table \ {key})
  <2>1. Writes(n) /\ parGone' = parGone \cup {key} /\ parCtx' = [parCtx EXCEPT ![n] = new]
    BY <1>14 DEF ContextDelete
  <2>2. Entries(table)
    BY <1>1 DEF Settled
  <2> HIDE DEF table
  <2>3. DOMAIN new = DOMAIN table \ {key} /\ \A f \in DOMAIN new : new[f] = table[f]
    BY DEF Only
  <2> HIDE DEF new
  <2>4. Entries(new) /\ Raises(table, new, parGone')
    BY <2>1, <2>2, <2>3 DEF Entries, Raises
  <2>5. QED
    BY <1>6, <2>1, <2>4 DEF table
<1>15. ASSUME UNCHANGED parVars PROVE ParInv'
  BY <1>3, <1>4, <1>15 DEF parVars, ParInv
<1>16. QED
  BY <1>7, <1>8, <1>9, <1>10, <1>11, <1>12, <1>13, <1>14, <1>15 DEF ParNext
(* ParInv holds in every reachable state: nobody has made a table at first. *)
THEOREM ParInvHolds == ParSpec => []ParInv
<1>1. ParInit => ParInv
  <2> SUFFICES ASSUME ParInit PROVE ParInv
    OBVIOUS
  <2>1. DOMAIN <<>> = {} /\ Entries(<<>>)
    BY DEF Entries
  <2>2. \A t \in FlowTables \cup KeyTables : t = <<>>
    BY DEF ParInit, FlowTables, KeyTables
  <2>3. \A n \in PartNodes : parTable[n] \in FlowTables /\ parCtx[n] \in KeyTables
    BY DEF FlowTables, KeyTables
  <2>4. \A what, n : ~Maker(what, n, parMakers)
    BY DEF ParInit, Maker
  <2>5. DOMAIN parTable = PartNodes /\ DOMAIN parCtx = PartNodes
    BY DEF ParInit
  <2>6. QED
    BY <2>1, <2>2, <2>3, <2>4, <2>5 DEF ParInv, Settled
<1>2. ParInv /\ [ParNext]_parVars => ParInv'
  BY ParStep
<1>3. QED
  BY <1>1, <1>2, PTL DEF ParSpec

(* Where at most one node has made tables, all tables agree.                *)
LEMMA OneMakerAgrees ==
  ASSUME NEW what, NEW mine, NEW tables,
         Settled(what, mine, tables, parMakers, parGone), SingleMaker(what)
  PROVE  Agree(mine)
<1> DEFINE makers == {n \in PartNodes : <<what, n>> \in parMakers}
<1>1. IsFiniteSet(makers) /\ Cardinality(makers) <= 1
  BY PartAssumption, FS_Subset DEF SingleMaker
<1>2. makers = {} \/ \E n : makers = {n}
  <2>1. Cardinality(makers) \in Nat
    BY <1>1, FS_CardinalityType
  <2>2. Cardinality(makers) = 0 \/ Cardinality(makers) = 1
    BY <1>1, <2>1
  <2>3. QED
    BY <1>1, <2>2, FS_EmptySet, FS_Singleton
<1>3. \A n \in PartNodes : mine[n] \in tables
  BY DEF Settled
<1>4. CASE makers = {}
  <2>1. \A n \in PartNodes : DOMAIN mine[n] = {}
    BY <1>3, <1>4 DEF Settled
  <2>2. QED
    BY <2>1 DEF Agree
<1>5. CASE \E n : makers = {n}
  <2>1. PICK n : makers = {n}
    BY <1>5
  <2>2. n \in PartNodes /\ Maker(what, n, parMakers)
    BY <2>1 DEF Maker
  <2>3. Coherent(tables, parGone)
    BY <2>2 DEF Settled
  <2>4. QED
    BY <1>3, <2>3 DEF Agree, Coherent
<1>6. QED
  BY <1>2, <1>4, <1>5

(* While one node computes the assignments (writes the context), two nodes
   that hold a flow (a key) under the same generation agree about it,
   however late, often or out of order the snapshots arrive: comparing the
   generations alone, as apply_assignments and context merging do, is
   enough to know which of two tables is the newer.                         *)
THEOREM LeaderIsFollowed == ParSpec => []LeaderAgrees
<1>1. ParInv => LeaderAgrees
  BY OneMakerAgrees DEF ParInv, LeaderAgrees
<1>2. QED
  BY <1>1, ParInvHolds, PTL

-----------------------------------------------------------------------------
(* ContextStore.                                                            *)

CtxValue == CtxValues \cup {CtxAbsent, CtxEmpty}
Clients  == [pc : {"idle", "check", "read", "insert", "update", "mark", "forget", "unmark", "unlink"},
             op : {"none", "get", "set", "remove", "delete"},
             scope : Scopes \cup {<<>>}, value : CtxValue, data : CtxValue]
Passes   == [at : {"off", "tick", "lock", "flush", "done"}, left : SUBSET Scopes]

CtxTypes ==
  /\ ctxScopes \in [Scopes -> CtxValue]
  /\ ctxDone \in [Scopes -> CtxValue]
  /\ ctxDisk \in [Scopes -> CtxValue]
  /\ ctxDirty \in SUBSET Scopes
  /\ ctxPass \in [{"task", "close"} -> Passes]
  /\ ctxClient \in [CtxClients -> Clients]

(* What a client in the middle of an operation on the scope s relies on.    *)
Underway(c, s) == ~At(c, "idle") /\ ctxClient[c].scope = s

ClientInv ==
  \A c \in CtxClients :
    /\ ~At(c, "idle") => ctxClient[c].scope \in Scopes
    /\ At(c, "forget") \/ At(c, "unmark") \/ At(c, "unlink") => ctxClient[c].op = "delete"
    /\ At(c, "check") \/ At(c, "read") \/ At(c, "insert") \/ At(c, "update") \/ At(c, "mark")
         => ctxClient[c].op \in {"get", "set", "remove"}
    /\ ctxClient[c].op = "set" => ctxClient[c].value # CtxAbsent

(* A scope that no overlapping delete, aborted pass or failed close gave up:
   a delete is alone with it, what a client has read of its file is still
   in the file unless the scope is loaded, a delete leaves nothing, and a
   scope that is not in memory has nothing to be written.                   *)
ScopeInv(s) ==
  /\ \A c, d \in CtxClients : Underway(c, s) /\ Underway(d, s) /\ ctxClient[c].op = "delete" => c = d
  /\ \A c \in CtxClients : Underway(c, s) /\ At(c, "insert") =>
        ctxScopes[s] # CtxAbsent \/ ctxClient[c].data = ctxDisk[s]
  /\ \A c \in CtxClients : Underway(c, s) /\ (At(c, "unmark") \/ At(c, "unlink")) =>
        ctxScopes[s] = CtxAbsent
  /\ ctxScopes[s] = CtxAbsent => ctxDone[s] = CtxAbsent

PassInv == \A p \in {"task", "close"} : ctxPass[p].at \in {"off", "tick", "done"} => ctxPass[p].left = {}

(* What CtxBacked claims of one scope.                                      *)
Backed(s) ==
  \/ ctxDone[s] \in {CtxAbsent, ctxDisk[s]}
  \/ s \in ctxDirty
  \/ \E p \in {"task", "close"} : s \in ctxPass[p].left
  \/ \E c \in CtxClients : Underway(c, s) /\ At(c, "mark")

CtxInv ==
  /\ CtxTypes
  /\ ClientInv
  /\ PassInv
  /\ \A s \in Scopes \ ctxCut : ScopeInv(s) /\ Backed(s)

(* How a client goes on: it keeps its request, or is done with it.          *)
LEMMA GotoClient ==
  ASSUME NEW c \in CtxClients, ctxClient \in [CtxClients -> Clients],
         NEW pc \in {"idle", "check", "read", "insert", "update", "mark", "forget", "unmark", "unlink"},
         Goto(c, pc)
  PROVE  /\ ctxClient' \in [CtxClients -> Clients]
         /\ \A d \in CtxClients \ {c} : ctxClient'[d] = ctxClient[d]
         /\ ctxClient'[c].pc = pc
         /\ pc # "idle" => /\ ctxClient'[c].scope = ctxClient[c].scope
                           /\ ctxClient'[c].op = ctxClient[c].op
                           /\ ctxClient'[c].value = ctxClient[c].value
                           /\ ctxClient'[c].data = ctxClient[c].data
         /\ pc = "idle" => ctxClient'[c].op = "none"
<1> DEFINE old == ctxClient[c]
           new == IF pc = "idle" THEN Idle ELSE [old EXCEPT !.pc = pc]
<1>1. old \in Clients
  OBVIOUS
<1>2. Idle \in Clients /\ Idle.pc = "idle" /\ Idle.op = "none"
  BY DEF Idle, Clients, CtxValue
<1>3. [old EXCEPT !.pc = pc] = [pc |-> pc, op |-> old.op, scope |-> old.scope,
                                value |-> old.value, data |-> old.data]
  BY <1>1 DEF Clients
<1> HIDE DEF old
<1>4. [pc |-> pc, op |-> old.op, scope |-> old.scope, value |-> old.value, data |-> old.data] \in Clients
  BY <1>1 DEF Clients
<1>5. new \in Clients /\ new.pc = pc
  BY <1>2, <1>3, <1>4
<1>6. pc # "idle" => new.scope = old.scope /\ new.op = old.op /\ new.value = old.value /\ new.data = old.data
  BY <1>3
<1>7. pc = "idle" => new.op = "none"
  BY <1>2
<1>8. ctxClient' = [ctxClient EXCEPT ![c] = new]
  BY DEF Goto, old
<1> HIDE DEF new
<1>9. ctxClient'[c] = new /\ \A d \in CtxClients \ {c} : ctxClient'[d] = ctxClient[d]
  BY <1>8
<1>10. ctxClient' \in [CtxClients -> Clients]
  BY <1>5, <1>8
<1>11. QED
  BY <1>5, <1>6, <1>7, <1>9, <1>10 DEF old
(* The same in the terms of the invariant.                                  *)
CtxLabels == {"idle", "check", "read", "insert", "update", "mark", "forget", "unmark", "unlink"}

ClientMoved(c, pc, data) ==
  /\ ctxClient' \in [CtxClients -> Clients]
  /\ \A d \in CtxClients, s \in Scopes : Underway(d, s)' <=> Underway(d, s) /\ (d # c \/ pc # "idle")
  /\ \A d \in CtxClients, l \in CtxLabels : At(d, l)' <=> IF d = c THEN l = pc ELSE At(d, l)
  /\ \A d \in CtxClients : d # c \/ pc # "idle" =>
        /\ ctxClient'[d].op = ctxClient[d].op
        /\ ctxClient'[d].value = ctxClient[d].value
        /\ ctxClient'[d].scope = ctxClient[d].scope
        /\ ctxClient'[d].data = IF d = c THEN data ELSE ctxClient[d].data
  /\ pc = "idle" => ctxClient'[c].op = "none"

(* A client that goes to its next label keeps its operation, scope and value. *)
LEMMA ClientMoves ==
  ASSUME NEW c \in CtxClients, NEW pc \in CtxLabels, ctxClient \in [CtxClients -> Clients],
         ~At(c, "idle"), Goto(c, pc)
  PROVE  ClientMoved(c, pc, ctxClient[c].data)
<1>1. /\ ctxClient' \in [CtxClients -> Clients]
      /\ \A d \in CtxClients \ {c} : ctxClient'[d] = ctxClient[d]
      /\ ctxClient'[c].pc = pc
      /\ pc # "idle" => /\ ctxClient'[c].scope = ctxClient[c].scope
                        /\ ctxClient'[c].op = ctxClient[c].op
                        /\ ctxClient'[c].value = ctxClient[c].value
                        /\ ctxClient'[c].data = ctxClient[c].data
      /\ pc = "idle" => ctxClient'[c].op = "none"
  BY GotoClient DEF CtxLabels
<1>2. QED
  BY <1>1 DEF ClientMoved, Underway, At

(* ClientInv after a client has gone on: what its new label says of its
   request is what has to be shown.                                         *)
LEMMA ClientInvMoves ==
  ASSUME NEW c \in CtxClients, NEW pc \in CtxLabels, NEW data, ClientInv, ClientMoved(c, pc, data), ~At(c, "idle"),
         pc \in {"forget", "unmark", "unlink"} => ctxClient[c].op = "delete",
         pc \in {"check", "read", "insert", "update", "mark"} => ctxClient[c].op \in {"get", "set", "remove"}
  PROVE  ClientInv'
<1> SUFFICES ASSUME NEW d \in CtxClients
             PROVE  /\ ~At(d, "idle")' => ctxClient'[d].scope \in Scopes
                    /\ At(d, "forget")' \/ At(d, "unmark")' \/ At(d, "unlink")' => ctxClient'[d].op = "delete"
                    /\ At(d, "check")' \/ At(d, "read")' \/ At(d, "insert")' \/ At(d, "update")' \/ At(d, "mark")'
                         => ctxClient'[d].op \in {"get", "set", "remove"}
                    /\ ctxClient'[d].op = "set" => ctxClient'[d].value # CtxAbsent
  BY DEF ClientInv
<1>1. CASE d # c
  BY <1>1 DEF ClientMoved, ClientInv, CtxLabels
<1>2. CASE d = c
  BY <1>2 DEF ClientMoved, ClientInv, CtxLabels
<1>3. QED
  BY <1>1, <1>2
(* A set that fails leaves a scope in memory, empty or not.                 *)
LEMMA LeftoversAre ==
  ASSUME NEW v \in CtxValue, NEW left \in Leftovers(v)
  PROVE  left \in CtxValue /\ left # CtxAbsent
BY CtxAssumption DEF Leftovers, CtxValue, CtxAbsent, CtxEmpty

(* What set_one, remove_one and get_one leave in a scope.                   *)
LEMMA UpdateKeeps ==
  ASSUME NEW op \in {"get", "set", "remove"}, NEW v \in CtxValue, NEW value \in CtxValue,
         op = "set" => value # CtxAbsent
  PROVE  /\ Update(op, v, value) \in CtxValue
         /\ ~Changes(op, v) => Update(op, v, value) = v
         /\ v # CtxAbsent => Update(op, v, value) # CtxAbsent
BY DEF Update, Changes, CtxValue, CtxAbsent, CtxEmpty

(* What a client looks like after it has read the data of its scope.         *)
LEMMA ReadClient ==
  ASSUME NEW old \in Clients, NEW pc, NEW data
  PROVE  [old EXCEPT !.pc = pc, !.data = data]
           = [pc |-> pc, op |-> old.op, scope |-> old.scope, value |-> old.value, data |-> data]
<1>1. PICK op, scope, value, first, last :
        old = [pc |-> first, op |-> op, scope |-> scope, value |-> value, data |-> last]
  BY DEF Clients
<1> DEFINE one == [old EXCEPT !.pc = pc]
<1>2. one = [pc |-> pc, op |-> op, scope |-> scope, value |-> value, data |-> last]
  BY <1>1
<1>3. old.op = op /\ old.scope = scope /\ old.value = value
  BY <1>1
<1> HIDE DEF one
<1>4. [one EXCEPT !.data = data] = [pc |-> pc, op |-> op, scope |-> scope, value |-> value, data |-> data]
  BY <1>2
<1>5. QED
  BY <1>3, <1>4 DEF one

(* Loading a scope: its mark in memory, its file, and what another client
   loaded meanwhile.                                                        *)
LEMMA LoadKeeps == ASSUME CtxInv, NEW c \in CtxClients, LoadStep(c) PROVE CtxInv'
<1> DEFINE s == ctxClient[c].scope
<1>1. CtxTypes /\ ClientInv /\ PassInv /\ \A r \in Scopes \ ctxCut : ScopeInv(r) /\ Backed(r)
  BY DEF CtxInv
<1>2. UNCHANGED <<ctxDisk, ctxDirty, ctxPass, ctxCut>>
  BY DEF LoadStep
<1>3. PassInv'
  BY <1>1, <1>2 DEF PassInv
<1>4. ctxClient[c] \in Clients /\ ctxClient \in [CtxClients -> Clients]
  BY <1>1 DEF CtxTypes
<1>5. CASE At(c, "check")
  <2> DEFINE pc == IF ctxScopes[s] # CtxAbsent THEN "update" ELSE "read"
  <2>1. Goto(c, pc) /\ ctxScopes' = ctxScopes /\ ctxDone' = ctxDone
    BY <1>5 DEF LoadStep, EnsureLoaded, At
  <2>2. pc \in CtxLabels /\ ~At(c, "idle") /\ pc \in {"update", "read"}
    BY <1>5 DEF CtxLabels, At
  <2> HIDE DEF pc
  <2>3. ClientMoved(c, pc, ctxClient[c].data)
    BY <1>4, <2>1, <2>2, ClientMoves
  <2>4. CtxTypes'
    BY <1>1, <1>2, <2>1, <2>3 DEF CtxTypes, ClientMoved
  <2>5. ctxClient[c].op \in {"get", "set", "remove"}
    BY <1>1, <1>5 DEF ClientInv
  <2>6. ClientInv'
    BY <1>1, <2>2, <2>3, <2>5, ClientInvMoves
  <2>7. ASSUME NEW r \in Scopes \ ctxCut PROVE ScopeInv(r)' /\ Backed(r)'
    <3>1. ScopeInv(r)'
      BY <1>1, <1>2, <2>1, <2>2, <2>3 DEF ScopeInv, ClientMoved, CtxLabels
    <3>2. Backed(r)'
      BY <1>1, <1>2, <1>5, <2>1, <2>2, <2>3 DEF Backed, ClientMoved, CtxLabels, At
    <3>3. QED
      BY <3>1, <3>2
  <2>8. QED
    BY <1>2, <1>3, <2>4, <2>6, <2>7 DEF CtxInv
<1>6. CASE At(c, "read")
  <2> DEFINE pc == IF ctxDisk[s] = CtxAbsent THEN "update" ELSE "insert"
             old == ctxClient[c]
             new == [pc |-> pc, op |-> old.op, scope |-> old.scope, value |-> old.value, data |-> ctxDisk[s]]
  <2>1. ctxClient' = [ctxClient EXCEPT ![c] = [old EXCEPT !.pc = pc, !.data = ctxDisk[s]]]
        /\ ctxScopes' = ctxScopes /\ ctxDone' = ctxDone
    BY <1>6 DEF LoadStep, EnsureLoaded, At
  <2>2. s \in Scopes /\ old.op \in {"get", "set", "remove"} /\ old.pc = "read"
    BY <1>1, <1>6 DEF ClientInv, At
  <2>3. ctxDisk[s] \in CtxValue /\ pc \in {"update", "insert"} /\ pc \in CtxLabels /\ ~At(c, "idle")
    BY <1>1, <2>2 DEF CtxTypes, CtxLabels, At
  <2> HIDE DEF pc
  <2>4. [old EXCEPT !.pc = pc, !.data = ctxDisk[s]] = new
    BY <1>4, ReadClient
  <2>5. new \in Clients
    BY <1>4, <2>3 DEF Clients
  <2> HIDE DEF old
  <2>6. ctxClient' = [ctxClient EXCEPT ![c] = new]
    BY <2>1, <2>4
  <2>7. new.pc = pc /\ new.op = old.op /\ new.scope = old.scope /\ new.value = old.value
        /\ new.data = ctxDisk[s]
    OBVIOUS
  <2> HIDE DEF new
  <2>8. ctxClient' \in [CtxClients -> Clients] /\ ctxClient'[c] = new
        /\ \A d \in CtxClients \ {c} : ctxClient'[d] = ctxClient[d]
    BY <1>4, <2>5, <2>6
  <2>9. ClientMoved(c, pc, ctxDisk[s])
    BY <2>2, <2>3, <2>7, <2>8 DEF ClientMoved, Underway, At, old
  <2>10. CtxTypes'
    BY <1>1, <1>2, <2>1, <2>8 DEF CtxTypes
  <2>11. ClientInv'
    BY <1>1, <2>2, <2>3, <2>9, ClientInvMoves DEF old
  <2>12. ASSUME NEW r \in Scopes \ ctxCut PROVE ScopeInv(r)' /\ Backed(r)'
    <3>1. Underway(c, r) => r = s
      BY DEF Underway
    <3>2. ScopeInv(r)'
      BY <1>1, <1>2, <2>1, <2>3, <2>9, <3>1 DEF ScopeInv, ClientMoved, CtxLabels
    <3>3. Backed(r)'
      BY <1>1, <1>2, <1>6, <2>1, <2>3, <2>9 DEF Backed, ClientMoved, CtxLabels, At
    <3>4. QED
      BY <3>2, <3>3
  <2>13. QED
    BY <1>2, <1>3, <2>10, <2>11, <2>12 DEF CtxInv
<1>7. CASE At(c, "insert")
  <2>1. /\ Goto(c, "update") /\ ctxScopes' = [ctxScopes EXCEPT ![s] = IF @ = CtxAbsent THEN ctxClient[c].data ELSE @]
        /\ ctxDone' = [ctxDone EXCEPT ![s] = IF ctxScopes[s] = CtxAbsent THEN ctxClient[c].data ELSE @]
    BY <1>7 DEF LoadStep, EnsureLoaded, At
  <2>2. s \in Scopes /\ ctxClient[c].op \in {"get", "set", "remove"} /\ ~At(c, "idle")
    BY <1>1, <1>7 DEF ClientInv, At
  <2>3. ClientMoved(c, "update", ctxClient[c].data)
    BY <1>4, <2>1, <2>2, ClientMoves DEF CtxLabels
  <2>4. ctxClient[c].data \in CtxValue
    BY <1>4 DEF Clients
  <2>5. /\ ctxScopes'[s] = IF ctxScopes[s] = CtxAbsent THEN ctxClient[c].data ELSE ctxScopes[s]
        /\ \A r \in Scopes \ {s} : ctxScopes'[r] = ctxScopes[r]
        /\ ctxScopes' \in [Scopes -> CtxValue]
        /\ ctxDone'[s] = IF ctxScopes[s] = CtxAbsent THEN ctxClient[c].data ELSE ctxDone[s]
        /\ \A r \in Scopes \ {s} : ctxDone'[r] = ctxDone[r]
        /\ ctxDone' \in [Scopes -> CtxValue]
    BY <1>1, <2>1, <2>2, <2>4 DEF CtxTypes
  <2>6. CtxTypes'
    BY <1>1, <1>2, <2>3, <2>5 DEF CtxTypes, ClientMoved
  <2>7. ClientInv'
    BY <1>1, <2>2, <2>3, ClientInvMoves DEF CtxLabels
  <2>8. ASSUME NEW r \in Scopes \ ctxCut PROVE ScopeInv(r)' /\ Backed(r)'
    <3>1. CASE r # s
      <4>1. /\ ~Underway(c, r) /\ ctxScopes'[r] = ctxScopes[r] /\ ctxDone'[r] = ctxDone[r]
            /\ ScopeInv(r) /\ Backed(r)
        BY <1>1, <2>5, <3>1 DEF Underway
      <4>2. ScopeInv(r)'
        BY <1>2, <2>3, <4>1 DEF ScopeInv, ClientMoved, CtxLabels
      <4>3. Backed(r)'
        BY <1>2, <2>3, <4>1 DEF Backed, ClientMoved, CtxLabels
      <4>4. QED
        BY <4>2, <4>3
    <3>2. CASE r = s
      <4>1. Underway(c, r) /\ ScopeInv(r) /\ Backed(r)
        BY <1>1, <2>2, <3>2 DEF Underway
      <4>2. ctxScopes[r] = CtxAbsent => ctxScopes'[r] = ctxDisk[r] /\ ctxDone'[r] = ctxDisk[r]
        BY <1>7, <2>5, <3>2, <4>1 DEF ScopeInv
      <4>3. ctxScopes[r] # CtxAbsent => ctxScopes'[r] = ctxScopes[r] /\ ctxDone'[r] = ctxDone[r]
        BY <2>5, <3>2
      <4>4. \A d \in CtxClients : Underway(d, r) => ctxClient[d].op # "delete"
        BY <2>2, <4>1 DEF ScopeInv
      <4>5. ScopeInv(r)'
        BY <1>1, <1>2, <2>3, <4>1, <4>2, <4>3, <4>4 DEF ScopeInv, ClientMoved, CtxLabels, ClientInv
      <4>6. Backed(r)'
        <5>1. CASE ctxScopes[r] = CtxAbsent
          BY <1>2, <4>2, <5>1 DEF Backed
        <5>2. CASE ctxScopes[r] # CtxAbsent
          BY <1>2, <1>7, <2>3, <4>1, <4>3, <5>2 DEF Backed, ClientMoved, CtxLabels, At
        <5>3. QED
          BY <5>1, <5>2
      <4>7. QED
        BY <4>5, <4>6
    <3>3. QED
      BY <3>1, <3>2
  <2>9. QED
    BY <1>2, <1>3, <2>6, <2>7, <2>8 DEF CtxInv
<1>8. QED
  BY <1>5, <1>6, <1>7 DEF LoadStep, EnsureLoaded
(* Changing a scope in memory, with the mark still to come.                 *)
LEMMA ApplyKeeps == ASSUME CtxInv, NEW c \in CtxClients, Apply(c) PROVE CtxInv'
<1> DEFINE cl == ctxClient[c]
           s == cl.scope
           pc == IF Changes(cl.op, ctxScopes[cl.scope]) THEN "mark" ELSE "idle"
<1>1. CtxTypes /\ ClientInv /\ PassInv /\ \A r \in Scopes \ ctxCut : ScopeInv(r) /\ Backed(r)
  BY DEF CtxInv
<1>2. UNCHANGED <<ctxDisk, ctxDirty, ctxPass, ctxCut>> /\ At(c, "update") /\ Goto(c, pc)
      /\ ctxScopes' = [ctxScopes EXCEPT ![s] = Update(cl.op, @, cl.value)]
      /\ ctxDone' = IF pc = "mark" THEN [ctxDone EXCEPT ![s] = ctxScopes'[s]] ELSE ctxDone
  BY DEF Apply
<1>3. PassInv'
  BY <1>1, <1>2 DEF PassInv
<1>4. cl \in Clients /\ ctxClient \in [CtxClients -> Clients]
  BY <1>1 DEF CtxTypes
<1>5. s \in Scopes /\ cl.op \in {"get", "set", "remove"} /\ ~At(c, "idle")
      /\ (cl.op = "set" => cl.value # CtxAbsent) /\ cl.value \in CtxValue
  BY <1>1, <1>2, <1>4 DEF ClientInv, At, Clients
<1>6. ctxScopes[s] \in CtxValue
  BY <1>1, <1>5 DEF CtxTypes
<1>7. /\ Update(cl.op, ctxScopes[s], cl.value) \in CtxValue
      /\ ~Changes(cl.op, ctxScopes[s]) => Update(cl.op, ctxScopes[s], cl.value) = ctxScopes[s]
      /\ ctxScopes[s] # CtxAbsent => Update(cl.op, ctxScopes[s], cl.value) # CtxAbsent
  BY <1>5, <1>6, UpdateKeeps
<1>8. pc \in CtxLabels /\ pc \in {"mark", "idle"} /\ (pc # "mark" => ~Changes(cl.op, ctxScopes[s]))
  BY DEF CtxLabels
<1> HIDE DEF pc
<1>9. ClientMoved(c, pc, cl.data)
  BY <1>2, <1>4, <1>5, <1>8, ClientMoves
<1>10. /\ ctxScopes'[s] = Update(cl.op, ctxScopes[s], cl.value)
       /\ \A r \in Scopes \ {s} : ctxScopes'[r] = ctxScopes[r]
       /\ ctxScopes' \in [Scopes -> CtxValue]
  BY <1>1, <1>2, <1>5, <1>7 DEF CtxTypes
<1>15. /\ ctxDone'[s] = IF pc = "mark" THEN ctxScopes'[s] ELSE ctxDone[s]
       /\ \A r \in Scopes \ {s} : ctxDone'[r] = ctxDone[r]
       /\ ctxDone' \in [Scopes -> CtxValue]
  BY <1>1, <1>2, <1>5, <1>7, <1>10 DEF CtxTypes
<1>11. CtxTypes'
  BY <1>1, <1>2, <1>9, <1>10, <1>15 DEF CtxTypes, ClientMoved
<1>12. ClientInv'
  BY <1>1, <1>5, <1>8, <1>9, ClientInvMoves
<1>13. ASSUME NEW r \in Scopes \ ctxCut PROVE ScopeInv(r)' /\ Backed(r)'
  <2>1. CASE r # s
    <3>1. /\ ~Underway(c, r) /\ ctxScopes'[r] = ctxScopes[r] /\ ctxDone'[r] = ctxDone[r]
          /\ ScopeInv(r) /\ Backed(r)
      BY <1>1, <1>10, <1>15, <2>1 DEF Underway
    <3>2. ScopeInv(r)'
      BY <1>2, <1>9, <3>1 DEF ScopeInv, ClientMoved, CtxLabels
    <3>3. Backed(r)'
      BY <1>2, <1>9, <3>1 DEF Backed, ClientMoved, CtxLabels
    <3>4. QED
      BY <3>2, <3>3
  <2>2. CASE r = s
    <3>1. Underway(c, r) /\ ScopeInv(r) /\ Backed(r)
      BY <1>1, <1>5, <2>2 DEF Underway
    <3>2. \A d \in CtxClients : Underway(d, r) => ctxClient[d].op # "delete"
      BY <1>5, <3>1 DEF ScopeInv
    <3>3. ctxScopes[r] # CtxAbsent => ctxScopes'[r] # CtxAbsent
      BY <1>7, <1>10, <2>2
    <3>8. ctxScopes'[r] = CtxAbsent => ctxDone'[r] = CtxAbsent
      BY <1>15, <2>2, <3>1, <3>3 DEF ScopeInv
    <3>4. ScopeInv(r)'
      BY <1>1, <1>2, <1>8, <1>9, <3>1, <3>2, <3>3, <3>8 DEF ScopeInv, ClientMoved, CtxLabels, ClientInv
    <3>5. CASE pc = "mark"
      BY <1>9, <3>1, <3>4, <3>5 DEF Backed, ClientMoved, CtxLabels
    <3>6. CASE pc # "mark"
      <4>1. ctxDone'[r] = ctxDone[r]
        BY <1>15, <2>2, <3>6
      <4>2. Backed(r)'
        BY <1>2, <1>8, <1>9, <3>1, <3>6, <4>1 DEF Backed, ClientMoved, CtxLabels, At
      <4>3. QED
        BY <3>4, <4>2
    <3>7. QED
      BY <3>5, <3>6
  <2>3. QED
    BY <2>1, <2>2
<1>14. QED
  BY <1>2, <1>3, <1>11, <1>12, <1>13 DEF CtxInv

(* A set that fails: what it leaves is not a change that was reported.      *)
LEMMA SetFailsKeeps == ASSUME CtxInv, NEW c \in CtxClients, SetFails(c) PROVE CtxInv'
<1> DEFINE s == ctxClient[c].scope
<1>1. CtxTypes /\ ClientInv /\ PassInv /\ \A r \in Scopes \ ctxCut : ScopeInv(r) /\ Backed(r)
  BY DEF CtxInv
<1>2. PICK left \in Leftovers(ctxScopes[s]) : ctxScopes' = [ctxScopes EXCEPT ![s] = left]
  BY DEF SetFails
<1>3. UNCHANGED <<ctxDisk, ctxDirty, ctxPass, ctxDone, ctxCut>> /\ At(c, "update") /\ Goto(c, "idle")
  BY DEF SetFails
<1>4. PassInv'
  BY <1>1, <1>3 DEF PassInv
<1>5. s \in Scopes /\ ctxClient[c].op \in {"get", "set", "remove"} /\ ~At(c, "idle")
      /\ ctxClient \in [CtxClients -> Clients]
  BY <1>1, <1>3 DEF ClientInv, At, CtxTypes
<1>6. left \in CtxValue /\ left # CtxAbsent
  <2>1. ctxScopes[s] \in CtxValue
    BY <1>1, <1>5 DEF CtxTypes
  <2>2. QED
    BY <1>2, <2>1, LeftoversAre
<1>7. ctxScopes' \in [Scopes -> CtxValue] /\ ctxScopes'[s] # CtxAbsent
      /\ \A r \in Scopes \ {s} : ctxScopes'[r] = ctxScopes[r]
  BY <1>1, <1>2, <1>5, <1>6 DEF CtxTypes
<1>8. ClientMoved(c, "idle", ctxClient[c].data)
  BY <1>3, <1>5, ClientMoves DEF CtxLabels
<1>9. CtxTypes'
  BY <1>1, <1>3, <1>7, <1>8 DEF CtxTypes, ClientMoved
<1>10. ClientInv'
  BY <1>1, <1>5, <1>8, ClientInvMoves DEF CtxLabels
<1>11. ASSUME NEW r \in Scopes \ ctxCut PROVE ScopeInv(r)' /\ Backed(r)'
  <2>1. ScopeInv(r) /\ Backed(r)
    BY <1>1
  <2>2. Backed(r)'
    BY <1>3, <1>8, <2>1 DEF Backed, ClientMoved, CtxLabels, At
  <2>3. CASE r # s
    BY <1>3, <1>7, <1>8, <2>1, <2>2, <2>3 DEF ScopeInv, ClientMoved, CtxLabels
  <2>4. CASE r = s
    <3>1. \A d \in CtxClients : Underway(d, r) => ctxClient[d].op # "delete"
      BY <1>5, <2>1, <2>4 DEF ScopeInv, Underway
    <3>2. ScopeInv(r)'
      BY <1>1, <1>3, <1>7, <1>8, <2>1, <2>4, <3>1 DEF ScopeInv, ClientMoved, CtxLabels, ClientInv
    <3>3. QED
      BY <2>2, <3>2
  <2>5. QED
    BY <2>3, <2>4
<1>12. QED
  BY <1>3, <1>4, <1>9, <1>10, <1>11 DEF CtxInv

(* Marking a scope, which ends the operation.                               *)
LEMMA MarkKeeps == ASSUME CtxInv, NEW c \in CtxClients, Mark(c) PROVE CtxInv'
<1>1. CtxTypes /\ ClientInv /\ PassInv /\ \A r \in Scopes \ ctxCut : ScopeInv(r) /\ Backed(r)
  BY DEF CtxInv
<1>2. UNCHANGED <<ctxScopes, ctxDone, ctxDisk, ctxPass, ctxCut>> /\ At(c, "mark") /\ Goto(c, "idle")
      /\ ctxDirty' = ctxDirty \cup {ctxClient[c].scope}
  BY DEF Mark
<1>3. ctxClient[c].scope \in Scopes /\ ~At(c, "idle") /\ ctxClient \in [CtxClients -> Clients]
  BY <1>1, <1>2 DEF ClientInv, At, CtxTypes
<1>4. ClientMoved(c, "idle", ctxClient[c].data)
  BY <1>2, <1>3, ClientMoves DEF CtxLabels
<1>5. CtxTypes'
  BY <1>1, <1>2, <1>3, <1>4 DEF CtxTypes, ClientMoved
<1>6. ClientInv'
  BY <1>1, <1>3, <1>4, ClientInvMoves DEF CtxLabels
<1>7. PassInv'
  BY <1>1, <1>2 DEF PassInv
<1>8. ASSUME NEW r \in Scopes \ ctxCut PROVE ScopeInv(r)' /\ Backed(r)'
  <2>1. ScopeInv(r)'
    BY <1>1, <1>2, <1>4 DEF ScopeInv, ClientMoved, CtxLabels
  <2>2. Backed(r)'
    <3>1. CASE r = ctxClient[c].scope
      BY <1>2, <3>1 DEF Backed
    <3>2. CASE r # ctxClient[c].scope
      <4>1. ~Underway(c, r)
        BY <3>2 DEF Underway
      <4>2. QED
        BY <1>1, <1>2, <1>4, <4>1 DEF Backed, ClientMoved, CtxLabels
    <3>3. QED
      BY <3>1, <3>2
  <2>3. QED
    BY <2>1, <2>2
<1>9. QED
  BY <1>2, <1>5, <1>6, <1>7, <1>8 DEF CtxInv

(* A delete is alone with its scope: it drops it from memory, takes its mark
   away and then its file.                                                  *)
LEMMA DeleteKeeps == ASSUME CtxInv, NEW c \in CtxClients, Delete(c) PROVE CtxInv'
<1> DEFINE s == ctxClient[c].scope
<1>1. CtxTypes /\ ClientInv /\ PassInv /\ \A r \in Scopes \ ctxCut : ScopeInv(r) /\ Backed(r)
  BY DEF CtxInv
<1>2. UNCHANGED <<ctxPass, ctxCut>>
  BY DEF Delete
<1>3. PICK pc \in {"unmark", "unlink", "idle"} :
        /\ Goto(c, pc)
        /\ pc = "unmark" => At(c, "forget") /\ ctxScopes' = [ctxScopes EXCEPT ![s] = CtxAbsent]
                            /\ ctxDone' = [ctxDone EXCEPT ![s] = CtxAbsent] /\ ctxDirty' = ctxDirty /\ ctxDisk' = ctxDisk
        /\ pc = "unlink" => At(c, "unmark") /\ ctxDirty' = ctxDirty \ {s}
                            /\ ctxScopes' = ctxScopes /\ ctxDone' = ctxDone /\ ctxDisk' = ctxDisk
        /\ pc = "idle" => At(c, "unlink") /\ ctxDisk' = [ctxDisk EXCEPT ![s] = CtxAbsent]
                            /\ ctxScopes' = ctxScopes /\ ctxDone' = ctxDone /\ ctxDirty' = ctxDirty
  BY DEF Delete
<1>4. At(c, "forget") \/ At(c, "unmark") \/ At(c, "unlink")
  BY <1>3
<1>5. s \in Scopes /\ ~At(c, "idle") /\ ctxClient[c].op = "delete" /\ ctxClient \in [CtxClients -> Clients]
  BY <1>1, <1>4 DEF ClientInv, At, CtxTypes
<1>6. pc \in CtxLabels
  BY DEF CtxLabels
<1>7. ClientMoved(c, pc, ctxClient[c].data)
  BY <1>3, <1>5, <1>6, ClientMoves
<1>8. /\ ctxScopes' \in [Scopes -> CtxValue] /\ ctxDisk' \in [Scopes -> CtxValue]
      /\ ctxDirty' \in SUBSET Scopes /\ ctxDone' \in [Scopes -> CtxValue]
      /\ \A r \in Scopes \ {s} : /\ ctxScopes'[r] = ctxScopes[r] /\ ctxDone'[r] = ctxDone[r]
                                 /\ ctxDisk'[r] = ctxDisk[r]
                                 /\ r \in ctxDirty' <=> r \in ctxDirty
  BY <1>1, <1>3 DEF CtxTypes, CtxValue
<1>9. CtxTypes'
  BY <1>1, <1>2, <1>7, <1>8 DEF CtxTypes, ClientMoved
<1>10. ClientInv'
  BY <1>1, <1>5, <1>6, <1>7, ClientInvMoves
<1>11. PassInv'
  BY <1>1, <1>2 DEF PassInv
<1>12. ASSUME NEW r \in Scopes \ ctxCut PROVE ScopeInv(r)' /\ Backed(r)'
  <2>1. CASE r # s
    <3>1. ~Underway(c, r) /\ ScopeInv(r) /\ Backed(r)
      BY <1>1, <2>1 DEF Underway
    <3>2. ScopeInv(r)'
      BY <1>7, <1>8, <2>1, <3>1 DEF ScopeInv, ClientMoved, CtxLabels
    <3>3. Backed(r)'
      BY <1>2, <1>7, <1>8, <2>1, <3>1 DEF Backed, ClientMoved, CtxLabels
    <3>4. QED
      BY <3>2, <3>3
  <2>2. CASE r = s
    <3>1. Underway(c, r) /\ ScopeInv(r)
      BY <1>1, <1>5, <2>2 DEF Underway
    <3>2. \A d \in CtxClients : Underway(d, r) => d = c
      BY <1>5, <3>1 DEF ScopeInv
    <3>3. ctxScopes'[r] = CtxAbsent /\ ctxDone'[r] = CtxAbsent
      BY <1>1, <1>3, <1>5, <2>2, <3>1 DEF ScopeInv, CtxTypes
    <3>4. ScopeInv(r)'
      BY <1>7, <3>2, <3>3 DEF ScopeInv, ClientMoved, CtxLabels
    <3>5. Backed(r)'
      BY <3>3 DEF Backed
    <3>6. QED
      BY <3>4, <3>5
  <2>3. QED
    BY <2>1, <2>2
<1>13. QED
  BY <1>2, <1>9, <1>10, <1>11, <1>12 DEF CtxInv
(* A request, to whichever store its name resolves to: an operation that
   would overlap a delete of its scope gives the scope up (ctxCut).         *)
LEMMA RequestKeeps ==
  ASSUME CtxInv, NEW c \in CtxClients, NEW name, NEW op \in {"get", "set", "remove", "delete"},
         NEW s \in Scopes, NEW value \in CtxValues \cup {CtxEmpty}, CtxRequest(c, name, op, s, value)
  PROVE  CtxInv'
<1>1. CtxTypes /\ ClientInv /\ PassInv /\ \A r \in Scopes \ ctxCut : ScopeInv(r) /\ Backed(r)
  BY DEF CtxInv
<1>2. UNCHANGED <<ctxScopes, ctxDone, ctxDisk, ctxDirty, ctxPass>> /\ At(c, "idle")
  BY DEF CtxRequest
<1>3. PassInv'
  BY <1>1, <1>2 DEF PassInv
<1>4. CASE UNCHANGED <<ctxClient, ctxCut>>
  <2>1. CtxTypes' /\ ClientInv'
    BY <1>1, <1>2, <1>4 DEF CtxTypes, ClientInv, At
  <2>2. \A r \in Scopes \ ctxCut' : ScopeInv(r)' /\ Backed(r)'
    BY <1>1, <1>2, <1>4 DEF ScopeInv, Backed, Underway, At
  <2>3. QED
    BY <1>3, <2>1, <2>2 DEF CtxInv
<1>5. CASE GetContextStore(name) = "file"
  <2> DEFINE pc == IF op = "delete" THEN "forget" ELSE "check"
             new == [pc |-> pc, op |-> op, scope |-> s, value |-> value, data |-> CtxAbsent]
  <2>1. /\ ctxClient' = [ctxClient EXCEPT ![c] = new]
        /\ ctxCut' = IF (op = "delete" /\ Busy(s) # {}) \/ Deleting(s) THEN ctxCut \cup {s} ELSE ctxCut
    BY <1>5 DEF CtxRequest
  <2>2. new \in Clients /\ new.pc = pc /\ new.op = op /\ new.scope = s /\ new.value = value
    BY DEF Clients, CtxValue
  <2>3. pc \in {"forget", "check"} /\ (pc = "forget" <=> op = "delete")
    OBVIOUS
  <2> HIDE DEF new, pc
  <2>4. ctxClient' \in [CtxClients -> Clients] /\ ctxClient'[c] = new
        /\ \A d \in CtxClients \ {c} : ctxClient'[d] = ctxClient[d]
    BY <1>1, <2>1, <2>2 DEF CtxTypes
  <2>5. CtxTypes'
    BY <1>1, <1>2, <2>4 DEF CtxTypes
  <2>6. value # CtxAbsent
    BY CtxAssumption DEF CtxEmpty, CtxAbsent
  <2>7. ClientInv'
    <3> SUFFICES ASSUME NEW d \in CtxClients
             PROVE  /\ ~At(d, "idle")' => ctxClient'[d].scope \in Scopes
                    /\ At(d, "forget")' \/ At(d, "unmark")' \/ At(d, "unlink")' => ctxClient'[d].op = "delete"
                    /\ At(d, "check")' \/ At(d, "read")' \/ At(d, "insert")' \/ At(d, "update")' \/ At(d, "mark")'
                         => ctxClient'[d].op \in {"get", "set", "remove"}
                    /\ ctxClient'[d].op = "set" => ctxClient'[d].value # CtxAbsent
      BY DEF ClientInv
    <3>1. CASE d = c
      BY <2>2, <2>3, <2>4, <2>6, <3>1 DEF At
    <3>2. CASE d # c
      BY <1>1, <2>4, <3>2 DEF ClientInv, At
    <3>3. QED
      BY <3>1, <3>2
  <2>8. ASSUME NEW r \in Scopes \ ctxCut' PROVE ScopeInv(r)' /\ Backed(r)'
    <3>1. r \in Scopes \ ctxCut /\ ScopeInv(r) /\ Backed(r)
      BY <1>1, <2>1
    <3>2. /\ \A d \in CtxClients : Underway(d, r)' <=> (d = c /\ r = s) \/ Underway(d, r)
          /\ \A d \in CtxClients \ {c} : ctxClient'[d] = ctxClient[d]
      BY <1>2, <2>2, <2>3, <2>4 DEF Underway, At
    <3>3. r = s => ~Deleting(r) /\ (op = "delete" => Busy(r) = {})
      BY <2>1
    <3>4. ASSUME NEW d \in CtxClients, NEW e \in CtxClients, Underway(d, r)', Underway(e, r)',
                 ctxClient'[d].op = "delete"
          PROVE  d = e
      <4>1. CASE r # s
        BY <1>2, <2>4, <3>1, <3>2, <3>4, <4>1 DEF ScopeInv, Underway
      <4>2. CASE r = s /\ d # c
        BY <3>2, <3>3, <3>4, <4>2 DEF Deleting, Busy, Underway
      <4>3. CASE r = s /\ d = c
        <5>1. op = "delete"
          BY <2>2, <2>4, <3>4, <4>3
        <5>2. \A b \in CtxClients : ~Underway(b, r)
          BY <3>3, <4>3, <5>1 DEF Busy, Underway
        <5>3. QED
          BY <3>2, <3>4, <4>3, <5>2
      <4>4. QED
        BY <4>1, <4>2, <4>3
    <3>5. \A d \in CtxClients : At(d, "insert")' \/ At(d, "unmark")' \/ At(d, "unlink")' => d # c
      BY <2>2, <2>3, <2>4 DEF At
    <3>6. ASSUME NEW d \in CtxClients, Underway(d, r)', At(d, "insert")'
          PROVE  ctxScopes'[r] # CtxAbsent \/ ctxClient'[d].data = ctxDisk'[r]
      <4>1. d # c /\ Underway(d, r) /\ At(d, "insert") /\ ctxClient'[d] = ctxClient[d]
        BY <3>2, <3>5, <3>6 DEF At
      <4>2. QED
        BY <1>2, <3>1, <4>1 DEF ScopeInv
    <3>7. ASSUME NEW d \in CtxClients, Underway(d, r)', At(d, "unmark")' \/ At(d, "unlink")'
          PROVE  ctxScopes'[r] = CtxAbsent
      <4>1. d # c /\ Underway(d, r) /\ (At(d, "unmark") \/ At(d, "unlink"))
        BY <3>2, <3>5, <3>7 DEF At
      <4>2. QED
        BY <1>2, <3>1, <4>1 DEF ScopeInv
    <3>8. ScopeInv(r)'
      BY <1>2, <3>1, <3>4, <3>6, <3>7 DEF ScopeInv
    <3>9. \A d \in CtxClients : At(d, "mark") => At(d, "mark")'
      BY <1>2, <2>4 DEF At
    <3>10. Backed(r)'
      BY <1>2, <3>1, <3>2, <3>9 DEF Backed
    <3>11. QED
      BY <3>8, <3>10
  <2>9. QED
    BY <1>3, <2>5, <2>7, <2>8 DEF CtxInv
<1>6. QED
  BY <1>4, <1>5 DEF CtxRequest
(* A step of the flush task or of close writes a file only with what is in
   memory, and loses no scope that had still to be written without giving
   it up.                                                                   *)
ToWrite(s) == s \in ctxDirty \/ \E p \in {"task", "close"} : s \in ctxPass[p].left

(* A flush pass that writes what memory holds keeps the invariant.           *)
LEMMA PassFrame ==
  ASSUME CtxInv, UNCHANGED <<ctxClient, ctxScopes>>,
         ctxDisk' \in [Scopes -> CtxValue], ctxDirty' \in SUBSET Scopes,
         ctxPass' \in [{"task", "close"} -> Passes], PassInv', ctxCut \subseteq ctxCut',
         ctxDone' \in [Scopes -> CtxValue],
         \A s \in Scopes : \/ ctxDisk'[s] = ctxDisk[s] /\ ctxDone'[s] = ctxDone[s]
                           \/ /\ ctxScopes[s] # CtxAbsent /\ ctxDisk'[s] = ctxScopes[s]
                              /\ ctxDone'[s] = ctxScopes[s],
         \A s \in Scopes \ ctxCut' : \/ ToWrite(s) => ToWrite(s)'
                                     \/ ctxDone'[s] \in {CtxAbsent, ctxDisk'[s]}
  PROVE  CtxInv'
<1>1. CtxTypes' /\ ClientInv'
  BY DEF CtxInv, CtxTypes, ClientInv, At
<1>2. ASSUME NEW s \in Scopes \ ctxCut' PROVE ScopeInv(s)' /\ Backed(s)'
  <2>1. ScopeInv(s) /\ Backed(s)
    BY DEF CtxInv
  <2>2. \A c \in CtxClients : /\ Underway(c, s)' <=> Underway(c, s)
                              /\ \A l : At(c, l)' <=> At(c, l)
    BY DEF Underway, At
  <2>3. ScopeInv(s)'
    BY <2>1, <2>2 DEF ScopeInv
  <2>4. Backed(s)'
    BY <2>1, <2>2 DEF Backed, ToWrite
  <2>5. QED
    BY <2>3, <2>4
<1>3. QED
  BY <1>1, <1>2 DEF CtxInv

(* Every step of the flush task and of close.                                *)
LEMMA PassesKeep ==
  ASSUME CtxInv, NEW p \in {"task", "close"}, Drain(p) \/ PassLocks(p) \/ Flushed(p) \/ PassEnds(p)
  PROVE  CtxInv'
<1>1. CtxTypes /\ PassInv /\ ctxPass[p] \in Passes
  BY DEF CtxInv, CtxTypes
<1>2. ctxPass \in [{"task", "close"} -> Passes] /\ ctxDisk \in [Scopes -> CtxValue]
      /\ ctxScopes \in [Scopes -> CtxValue] /\ ctxDone \in [Scopes -> CtxValue] /\ ctxDirty \in SUBSET Scopes
  BY <1>1 DEF CtxTypes
<1>3. ASSUME NEW new \in Passes, ctxPass' = [ctxPass EXCEPT ![p] = new]
      PROVE  /\ ctxPass' \in [{"task", "close"} -> Passes]
             /\ ctxPass'[p] = new
             /\ \A q \in {"task", "close"} \ {p} : ctxPass'[q] = ctxPass[q]
  BY <1>2, <1>3
<1>4. CASE Drain(p)
  <2> DEFINE new == [at |-> "lock", left |-> ctxDirty]
  <2>1. ctxPass[p].at = "tick" /\ ctxPass' = [ctxPass EXCEPT ![p] = new] /\ ctxDirty' = {}
        /\ UNCHANGED <<ctxScopes, ctxDone, ctxDisk, ctxClient, ctxCut>>
    BY <1>4 DEF Drain
  <2>2. new \in Passes /\ new.at = "lock" /\ new.left = ctxDirty
    BY <1>2 DEF Passes
  <2> HIDE DEF new
  <2>3. /\ ctxPass' \in [{"task", "close"} -> Passes] /\ ctxPass'[p] = new
        /\ \A q \in {"task", "close"} \ {p} : ctxPass'[q] = ctxPass[q]
    BY <1>3, <2>1, <2>2
  <2>4. PassInv'
    BY <1>1, <2>2, <2>3 DEF PassInv
  <2>5. ctxPass[p].left = {}
    BY <1>1, <2>1 DEF PassInv
  <2>6. \A s : ToWrite(s) => ToWrite(s)'
    BY <2>1, <2>2, <2>3, <2>5 DEF ToWrite
  <2>7. ctxDirty' \in SUBSET Scopes /\ ctxDisk' \in [Scopes -> CtxValue] /\ ctxDone' \in [Scopes -> CtxValue] /\ ctxCut \subseteq ctxCut'
    BY <1>2, <2>1
  <2>8. QED
    BY <2>1, <2>3, <2>4, <2>6, <2>7, PassFrame
<1>5. CASE PassLocks(p) \/ PassEnds(p)
  <2>1. PICK at \in {"flush", "tick", "done"} :
          /\ ctxPass' = [ctxPass EXCEPT ![p].at = at]
          /\ at # "flush" => ctxPass[p].left = {}
    BY <1>5 DEF PassLocks, PassEnds
  <2>2. UNCHANGED <<ctxScopes, ctxDone, ctxDisk, ctxDirty, ctxClient, ctxCut>>
    BY <1>5 DEF PassLocks, PassEnds
  <2> DEFINE old == ctxPass[p]
             new == [at |-> at, left |-> old.left]
  <2>3. [old EXCEPT !.at = at] = new
    BY <1>1 DEF Passes
  <2>4. new \in Passes /\ new.at = at /\ new.left = old.left
    BY <1>1 DEF Passes
  <2>5. ctxPass' = [ctxPass EXCEPT ![p] = [old EXCEPT !.at = at]]
    BY <2>1
  <2> HIDE DEF old, new
  <2>6. ctxPass' = [ctxPass EXCEPT ![p] = new]
    BY <2>3, <2>5
  <2>7. /\ ctxPass' \in [{"task", "close"} -> Passes] /\ ctxPass'[p] = new
        /\ \A q \in {"task", "close"} \ {p} : ctxPass'[q] = ctxPass[q]
    BY <1>3, <2>4, <2>6
  <2>8. PassInv'
    BY <1>1, <2>1, <2>4, <2>7 DEF PassInv, old
  <2>9. \A s : ToWrite(s) => ToWrite(s)'
    BY <2>2, <2>4, <2>7 DEF ToWrite, old
  <2>10. ctxDirty' \in SUBSET Scopes /\ ctxDisk' \in [Scopes -> CtxValue] /\ ctxDone' \in [Scopes -> CtxValue] /\ ctxCut \subseteq ctxCut'
    BY <1>2, <2>2
  <2>11. QED
    BY <2>2, <2>7, <2>8, <2>9, <2>10, PassFrame
<1>6. CASE Flushed(p)
  <2>1. PICK s \in ctxPass[p].left :
          /\ FlushScope(s)
          /\ ctxPass' = [ctxPass EXCEPT ![p].left = @ \ {s}]
    BY <1>6 DEF Flushed
  <2>2. UNCHANGED <<ctxScopes, ctxDirty, ctxClient, ctxCut>> /\ ctxPass[p].at = "flush"
    BY <1>6 DEF Flushed
  <2>3. s \in Scopes
    BY <1>1, <2>1 DEF Passes
  <2> DEFINE old == ctxPass[p]
             new == [at |-> old.at, left |-> old.left \ {s}]
  <2>4. [old EXCEPT !.left = @ \ {s}] = new
    BY <1>1 DEF Passes
  <2>5. new \in Passes /\ new.at = "flush" /\ new.left = old.left \ {s}
    BY <1>1, <2>2 DEF Passes
  <2>6. ctxPass' = [ctxPass EXCEPT ![p] = [old EXCEPT !.left = @ \ {s}]]
    BY <2>1
  <2> HIDE DEF old, new
  <2>7. ctxPass' = [ctxPass EXCEPT ![p] = new]
    BY <2>4, <2>6
  <2>8. /\ ctxPass' \in [{"task", "close"} -> Passes] /\ ctxPass'[p] = new
        /\ \A q \in {"task", "close"} \ {p} : ctxPass'[q] = ctxPass[q]
    BY <1>3, <2>5, <2>7
  <2>9. PassInv'
    BY <1>1, <2>5, <2>8 DEF PassInv
  <2>10. \A r : r # s /\ ToWrite(r) => ToWrite(r)'
    BY <2>2, <2>5, <2>8 DEF ToWrite, old
  <2>11. /\ ctxDisk' \in [Scopes -> CtxValue]
         /\ \A r \in Scopes \ {s} : ctxDisk'[r] = ctxDisk[r]
         /\ ctxDisk'[s] = IF ctxScopes[s] = CtxAbsent THEN ctxDisk[s] ELSE ctxScopes[s]
         /\ ctxDone' \in [Scopes -> CtxValue]
         /\ \A r \in Scopes \ {s} : ctxDone'[r] = ctxDone[r]
         /\ ctxDone'[s] = IF ctxScopes[s] = CtxAbsent THEN ctxDone[s] ELSE ctxScopes[s]
    BY <1>2, <2>1, <2>3 DEF FlushScope
  <2>12. \A r \in Scopes : \/ ctxDisk'[r] = ctxDisk[r] /\ ctxDone'[r] = ctxDone[r]
                           \/ /\ ctxScopes[r] # CtxAbsent /\ ctxDisk'[r] = ctxScopes[r]
                              /\ ctxDone'[r] = ctxScopes[r]
    BY <2>11
  <2>13. \A r \in Scopes \ ctxCut : (ToWrite(r) => ToWrite(r)') \/ ctxDone'[r] \in {CtxAbsent, ctxDisk'[r]}
    <3>1. s \in Scopes \ ctxCut /\ ctxScopes[s] = CtxAbsent => ctxDone[s] = CtxAbsent
      BY DEF CtxInv, ScopeInv
    <3>2. QED
      BY <2>10, <2>11, <3>1
  <2>14. ctxDirty' \in SUBSET Scopes /\ ctxCut \subseteq ctxCut'
    BY <1>2, <2>2
  <2>15. QED
    BY <2>2, <2>8, <2>9, <2>11, <2>12, <2>13, <2>14, PassFrame
<1>7. QED
  BY <1>4, <1>5, <1>6
(* A write of the flush task that fails marks its scope again.              *)
LEMMA TaskFailureKeeps == ASSUME CtxInv, TaskWriteFails PROVE CtxInv'
<1>1. CtxTypes /\ PassInv /\ ctxPass["task"] \in Passes /\ ctxPass \in [{"task", "close"} -> Passes]
  BY DEF CtxInv, CtxTypes
<1>2. PICK s \in ctxPass["task"].left :
        ctxDirty' = ctxDirty \cup {s} /\ ctxPass' = [ctxPass EXCEPT !["task"].left = @ \ {s}]
  BY DEF TaskWriteFails, Remark
<1>3. UNCHANGED <<ctxScopes, ctxDone, ctxDisk, ctxClient, ctxCut>> /\ ctxPass["task"].at = "flush"
  BY DEF TaskWriteFails
<1>4. s \in Scopes
  BY <1>1, <1>2 DEF Passes
<1> DEFINE old == ctxPass["task"]
           new == [at |-> old.at, left |-> old.left \ {s}]
<1>5. [old EXCEPT !.left = @ \ {s}] = new
  BY <1>1 DEF Passes
<1>6. new \in Passes /\ new.at = "flush" /\ new.left = old.left \ {s}
  BY <1>1, <1>3 DEF Passes
<1>7. ctxPass' = [ctxPass EXCEPT !["task"] = [old EXCEPT !.left = @ \ {s}]]
  BY <1>2
<1> HIDE DEF old, new
<1>8. ctxPass' = [ctxPass EXCEPT !["task"] = new]
  BY <1>5, <1>7
<1>9. /\ ctxPass' \in [{"task", "close"} -> Passes] /\ ctxPass'["task"] = new
      /\ ctxPass'["close"] = ctxPass["close"]
  BY <1>1, <1>6, <1>8
<1>10. PassInv'
  BY <1>1, <1>6, <1>9 DEF PassInv
<1>11. \A r : ToWrite(r) => ToWrite(r)'
  BY <1>2, <1>6, <1>9 DEF ToWrite, old
<1>12. ctxDirty' \in SUBSET Scopes /\ ctxDisk' \in [Scopes -> CtxValue] /\ ctxDone' \in [Scopes -> CtxValue] /\ ctxCut \subseteq ctxCut'
  BY <1>1, <1>2, <1>3, <1>4 DEF CtxTypes
<1>13. QED
  BY <1>3, <1>9, <1>10, <1>11, <1>12, PassFrame

(* Opening the store, a close that fails or aborts a pass (what was left is
   given up), and a restart, which knows only the files.                    *)
LEMMA OpenCloseKeep ==
  ASSUME CtxInv, Open \/ Close \/ CloseWriteFails \/ Restart
  PROVE  CtxInv'
<1>1. CtxTypes /\ PassInv
  BY DEF CtxInv
<1>2. ctxPass \in [{"task", "close"} -> Passes] /\ ctxDisk \in [Scopes -> CtxValue]
      /\ ctxScopes \in [Scopes -> CtxValue] /\ ctxDone \in [Scopes -> CtxValue] /\ ctxDirty \in SUBSET Scopes
  BY <1>1 DEF CtxTypes
<1>3. ctxPass["task"] \in Passes /\ ctxPass["close"] \in Passes
  BY <1>2
<1> DEFINE at(l) == [at |-> l, left |-> {}]
<1>4. \A l \in {"off", "tick", "done"} : at(l) \in Passes /\ at(l).at = l /\ at(l).left = {}
  BY DEF Passes
<1>5. CASE Open
  <2>1. /\ ctxPass["task"].at = "off" /\ ctxPass' = [ctxPass EXCEPT !["task"].at = "tick"]
        /\ UNCHANGED <<ctxScopes, ctxDone, ctxDisk, ctxDirty, ctxClient, ctxCut>>
    BY <1>5 DEF Open
  <2>2. ctxPass["task"].left = {}
    BY <1>1, <2>1 DEF PassInv
  <2>3. [ctxPass["task"] EXCEPT !.at = "tick"] = at("tick")
    BY <1>3, <2>2 DEF Passes
  <2>4. ctxPass' = [ctxPass EXCEPT !["task"] = at("tick")]
    BY <2>1, <2>3
  <2> HIDE DEF at
  <2>5. ctxPass' \in [{"task", "close"} -> Passes] /\ ctxPass'["task"] = at("tick")
        /\ ctxPass'["close"] = ctxPass["close"]
    BY <1>2, <1>4, <2>4
  <2>6. PassInv'
    BY <1>1, <1>4, <2>5 DEF PassInv
  <2>7. \A s : ToWrite(s) => ToWrite(s)'
    BY <2>1, <2>2, <2>5 DEF ToWrite
  <2>8. ctxDirty' \in SUBSET Scopes /\ ctxDisk' \in [Scopes -> CtxValue] /\ ctxDone' \in [Scopes -> CtxValue] /\ ctxCut \subseteq ctxCut'
    BY <1>2, <2>1
  <2>9. QED
    BY <2>1, <2>5, <2>6, <2>7, <2>8, PassFrame
<1>6. CASE Close
  <2>1. /\ ctxPass["close"].at = "off" /\ ctxCut' = ctxCut \cup ctxPass["task"].left
        /\ ctxPass' = [task |-> at("off"), close |-> at("tick")]
        /\ UNCHANGED <<ctxScopes, ctxDone, ctxDisk, ctxDirty, ctxClient>>
    BY <1>6 DEF Close, Quiet
  <2> HIDE DEF at
  <2>2. ctxPass["close"].left = {}
    BY <1>1, <2>1 DEF PassInv
  <2>3. ctxPass' \in [{"task", "close"} -> Passes] /\ ctxPass'["task"] = at("off")
        /\ ctxPass'["close"] = at("tick")
    BY <1>4, <2>1
  <2>4. PassInv'
    BY <1>4, <2>3 DEF PassInv
  <2>5. \A s \in Scopes \ ctxCut' : ToWrite(s) => ToWrite(s)'
    BY <2>1, <2>2 DEF ToWrite
  <2>6. ctxDirty' \in SUBSET Scopes /\ ctxDisk' \in [Scopes -> CtxValue] /\ ctxDone' \in [Scopes -> CtxValue] /\ ctxCut \subseteq ctxCut'
    BY <1>2, <2>1
  <2>7. QED
    BY <2>1, <2>3, <2>4, <2>5, <2>6, PassFrame
<1>7. CASE CloseWriteFails
  <2>1. /\ ctxCut' = ctxCut \cup ctxPass["close"].left
        /\ ctxPass' = [ctxPass EXCEPT !["close"] = at("done")]
        /\ UNCHANGED <<ctxScopes, ctxDone, ctxDisk, ctxDirty, ctxClient>>
    BY <1>7 DEF CloseWriteFails
  <2> HIDE DEF at
  <2>2. ctxPass' \in [{"task", "close"} -> Passes] /\ ctxPass'["task"] = ctxPass["task"]
        /\ ctxPass'["close"] = at("done")
    BY <1>2, <1>4, <2>1
  <2>3. PassInv'
    BY <1>1, <1>4, <2>2 DEF PassInv
  <2>4. \A s \in Scopes \ ctxCut' : ToWrite(s) => ToWrite(s)'
    BY <2>1, <2>2 DEF ToWrite
  <2>5. ctxDirty' \in SUBSET Scopes /\ ctxDisk' \in [Scopes -> CtxValue] /\ ctxDone' \in [Scopes -> CtxValue] /\ ctxCut \subseteq ctxCut'
    BY <1>2, <2>1
  <2>6. QED
    BY <2>1, <2>2, <2>3, <2>4, <2>5, PassFrame
<1>8. CASE Restart
  <2>1. /\ ctxScopes' = [s \in Scopes |-> CtxAbsent] /\ ctxDirty' = {}
        /\ ctxDone' = [s \in Scopes |-> CtxAbsent]
        /\ ctxPass' = [p \in {"task", "close"} |-> at("off")]
        /\ ctxClient' = [c \in CtxClients |-> Idle] /\ ctxDisk' = ctxDisk
    BY <1>2, <1>8 DEF Restart, Quiet
  <2> HIDE DEF at
  <2>2. Idle \in Clients /\ Idle.pc = "idle" /\ Idle.op = "none"
    BY DEF Idle, Clients, CtxValue
  <2>3. ctxClient' \in [CtxClients -> Clients] /\ \A c \in CtxClients : ctxClient'[c] = Idle
    BY <2>1, <2>2
  <2>4. CtxTypes'
    BY <1>2, <1>4, <2>1, <2>3 DEF CtxTypes, CtxValue
  <2>5. ClientInv' /\ \A c \in CtxClients, s \in Scopes : ~Underway(c, s)'
    BY <2>2, <2>3 DEF ClientInv, At, Underway
  <2>6. PassInv'
    BY <1>4, <2>1 DEF PassInv
  <2>7. \A s \in Scopes : ScopeInv(s)' /\ Backed(s)'
    BY <2>1, <2>5 DEF ScopeInv, Backed
  <2>8. QED
    BY <2>4, <2>5, <2>6, <2>7 DEF CtxInv
<1>9. QED
  BY <1>5, <1>6, <1>7, <1>8

(* CtxInv is inductive, with any number of clients, restarts included.      *)
THEOREM CtxInvHolds == CtxSpec => []CtxInv
<1>1. CtxInit => CtxInv
  <2> SUFFICES ASSUME CtxInit PROVE CtxInv
    OBVIOUS
  <2>1. Idle \in Clients /\ Idle.pc = "idle" /\ Idle.op = "none"
    BY DEF Idle, Clients, CtxValue
  <2>2. Quiet \in Passes /\ Quiet.left = {}
    BY DEF Quiet, Passes
  <2>3. ctxDisk \in [Scopes -> CtxValue]
    BY DEF CtxInit, CtxValue
  <2>4. CtxTypes
    BY <2>1, <2>2, <2>3 DEF CtxInit, CtxTypes, CtxValue
  <2>5. \A c \in CtxClients : ctxClient[c] = Idle
    BY DEF CtxInit
  <2>6. ClientInv /\ \A c \in CtxClients, s \in Scopes : ~Underway(c, s)
    BY <2>1, <2>5 DEF ClientInv, At, Underway
  <2>7. PassInv
    BY <2>2 DEF CtxInit, PassInv
  <2>8. \A s \in Scopes : ScopeInv(s) /\ Backed(s)
    BY <2>6 DEF CtxInit, ScopeInv, Backed
  <2>9. QED
    BY <2>4, <2>6, <2>7, <2>8 DEF CtxInv
<1>2. CtxInv /\ [CtxNext]_ctxVars => CtxInv'
  <2> SUFFICES ASSUME CtxInv, [CtxNext]_ctxVars PROVE CtxInv'
    OBVIOUS
  <2>1. \A f \in CtxFlows : NodeScope(f) \in Scopes /\ WebScope(f) \in Scopes
    BY DEF Scopes
  <2>2. ASSUME NEW c \in CtxClients, NodeRequest(c) PROVE CtxInv'
    <3>1. PICK name \in {"", "file", "lost"}, f \in CtxFlows, op \in {"get", "set", "remove", "delete"},
               v \in CtxValues : CtxRequest(c, name, op, NodeScope(f), v)
      BY <2>2 DEF NodeRequest
    <3>2. NodeScope(f) \in Scopes /\ v \in CtxValues \cup {CtxEmpty}
      BY <2>1
    <3>3. QED
      BY <3>1, <3>2, RequestKeeps
  <2>3. ASSUME NEW c \in CtxClients, WebRequest(c) PROVE CtxInv'
    <3>1. PICK op \in {"get", "remove"}, s \in {"", "file"}, scope \in Scopes :
            CtxRequest(c, IF op = "remove" THEN "" ELSE s, op, scope, CtxEmpty)
      BY <2>1, <2>3 DEF WebRequest
    <3>2. scope \in Scopes /\ CtxEmpty \in CtxValues \cup {CtxEmpty} /\ op \in {"get", "set", "remove", "delete"}
      BY <2>1
    <3>3. QED
      BY <3>1, <3>2, RequestKeeps
  <2>4. CASE UNCHANGED ctxVars
    <3>1. CtxTypes' /\ ClientInv' /\ PassInv'
      BY <2>4 DEF ctxVars, CtxInv, CtxTypes, ClientInv, At, PassInv
    <3>2. \A s \in Scopes \ ctxCut' : ScopeInv(s)' /\ Backed(s)'
      BY <2>4 DEF ctxVars, CtxInv, ScopeInv, Backed, Underway, At
    <3>3. QED
      BY <3>1, <3>2 DEF CtxInv
  <2>5. QED
    BY <2>2, <2>3, <2>4, LoadKeeps, ApplyKeeps, SetFailsKeeps, MarkKeeps, DeleteKeeps, PassesKeep, TaskFailureKeeps,
       OpenCloseKeep DEF CtxNext
<1>3. QED
  BY <1>1, <1>2, PTL DEF CtxSpec

(* Whatever the clients of the localfs store, its flush task, close, failing
   writes, sets that fail half way and crashes interleave: what a request has
   changed and reported as done is in the file or will be written, and loading
   never puts an older file over newer data.                                *)
THEOREM ContextIsBacked == CtxSpec => []CtxBacked
<1>1. CtxInv => CtxBacked
  <2> SUFFICES ASSUME CtxInv, NEW s \in Scopes \ ctxCut
               PROVE  \/ ctxDone[s] \in {CtxAbsent, ctxDisk[s]}
                      \/ s \in ctxDirty
                      \/ \E p \in DOMAIN ctxPass : s \in ctxPass[p].left
                      \/ \E c \in Busy(s) : At(c, "mark")
    BY DEF CtxBacked
  <2>1. Backed(s) /\ DOMAIN ctxPass = {"task", "close"}
    BY DEF CtxInv, CtxTypes
  <2>2. QED
    BY <2>1 DEF Backed, Underway, Busy
<1>2. QED
  BY <1>1, CtxInvHolds, PTL
-----------------------------------------------------------------------------
(* AdminApi: the rate limiter.                                              *)

(* What was accepted from a client, with a window that is open since `start`
   and has accepted `n`: the last n are of this window, the others older,
   and all but RateMax of the others at least one window older.             *)
WindowInv(accepted, start, n) ==
  /\ n <= Len(accepted)
  /\ \A i \in 1 .. Len(accepted) :
       /\ i > Len(accepted) - n => start <= accepted[i] /\ accepted[i] < start + RateWindow
       /\ i <= Len(accepted) - n => accepted[i] <= start
       /\ i <= Len(accepted) - n - RateMax => accepted[i] + RateWindow <= start

Capped(count) == IF count <= RateMax THEN count ELSE RateMax

(* No span of one window holds more than twice the limit.                   *)
Bounded(accepted) ==
  \A i, j \in DOMAIN accepted :
    (i <= j /\ accepted[j] - accepted[i] < RateWindow) => j - i + 1 <= 2 * RateMax

(* The inductive invariant: a client without a bucket may open a window now. *)
RateInv ==
  /\ admClock \in Nat /\ admLimit \in {0, RateMax}
  /\ admAccepted \in [AdmClients -> Seq(Nat)]
  /\ \A c \in DOMAIN buckets : buckets[c] \in [start : Nat, count : Nat] /\ buckets[c].start <= admClock
  /\ \A c \in AdmClients :
       /\ \A i \in 1 .. Len(admAccepted[c]) : admAccepted[c][i] <= admClock
       /\ Bounded(admAccepted[c])
       /\ IF c \in DOMAIN buckets
          THEN WindowInv(admAccepted[c], buckets[c].start, Capped(buckets[c].count))
          ELSE WindowInv(admAccepted[c], admClock, 0)

(* A window that is over, or was never opened, may open again now.          *)
LEMMA WindowOpens ==
  ASSUME NEW acc \in Seq(Nat), NEW start \in Nat, NEW n \in 0 .. RateMax, NEW now \in Nat,
         WindowInv(acc, start, n), n = 0 \/ start + RateWindow <= now, start <= now,
         \A i \in 1 .. Len(acc) : acc[i] <= now
  PROVE  WindowInv(acc, now, 0)
<1>1. Len(acc) \in Nat /\ \A i \in 1 .. Len(acc) : acc[i] \in Nat
  BY LenProperties, ElementOfSeq
<1>2. ASSUME NEW i \in 1 .. Len(acc), i <= Len(acc) - RateMax PROVE acc[i] + RateWindow <= now
  <2>1. CASE n = 0
    <3>1. i <= Len(acc) - n - RateMax
      BY <1>1, <1>2, <2>1, AdmAssumption
    <3>2. acc[i] + RateWindow <= start
      BY <3>1 DEF WindowInv
    <3>3. QED
      BY <1>1, <3>2, AdmAssumption
  <2>2. CASE start + RateWindow <= now
    <3>1. i <= Len(acc) - n
      BY <1>1, <1>2, AdmAssumption
    <3>2. acc[i] <= start
      BY <3>1 DEF WindowInv
    <3>3. QED
      BY <1>1, <2>2, <3>2, AdmAssumption
  <2>3. QED
    BY <2>1, <2>2
<1>3. QED
  BY <1>1, <1>2, AdmAssumption DEF WindowInv

(* What a window accepts is still within the bound.                         *)
LEMMA WindowAccepts ==
  ASSUME NEW acc \in Seq(Nat), NEW start \in Nat, NEW n \in 0 .. RateMax, NEW now \in Nat,
         WindowInv(acc, start, n), Bounded(acc), n < RateMax,
         start <= now, now < start + RateWindow,
         \A i \in 1 .. Len(acc) : acc[i] <= now
  PROVE  /\ Append(acc, now) \in Seq(Nat)
         /\ WindowInv(Append(acc, now), start, n + 1)
         /\ Bounded(Append(acc, now))
         /\ \A i \in 1 .. Len(Append(acc, now)) : Append(acc, now)[i] <= now
<1> DEFINE new == Append(acc, now)
<1>1. /\ Len(acc) \in Nat /\ DOMAIN acc = 1 .. Len(acc)
      /\ \A i \in 1 .. Len(acc) : acc[i] \in Nat
  BY LenProperties, ElementOfSeq
<1>2. /\ new \in Seq(Nat) /\ Len(new) = Len(acc) + 1 /\ DOMAIN new = 1 .. Len(acc) + 1
      /\ \A i \in 1 .. Len(acc) : new[i] = acc[i]
      /\ new[Len(acc) + 1] = now
  BY <1>1, AppendProperties, LenProperties
<1> HIDE DEF new
<1>3. \A i \in 1 .. Len(new) : i \in 1 .. Len(acc) \/ i = Len(acc) + 1
  BY <1>1, <1>2
<1>4. WindowInv(new, start, n + 1)
  <2>1. n + 1 <= Len(new)
    BY <1>1, <1>2 DEF WindowInv
  <2>2. ASSUME NEW i \in 1 .. Len(new)
        PROVE  /\ i > Len(new) - (n + 1) => start <= new[i] /\ new[i] < start + RateWindow
               /\ i <= Len(new) - (n + 1) => new[i] <= start
               /\ i <= Len(new) - (n + 1) - RateMax => new[i] + RateWindow <= start
    <3>1. CASE i \in 1 .. Len(acc)
      <4>1. /\ i > Len(acc) - n => start <= acc[i] /\ acc[i] < start + RateWindow
            /\ i <= Len(acc) - n => acc[i] <= start
            /\ i <= Len(acc) - n - RateMax => acc[i] + RateWindow <= start
        BY <3>1 DEF WindowInv
      <4>2. new[i] = acc[i] /\ Len(new) - (n + 1) = Len(acc) - n
        BY <1>1, <1>2, <3>1
      <4>3. QED
        BY <4>1, <4>2
    <3>2. CASE i = Len(acc) + 1
      BY <1>1, <1>2, <3>2, AdmAssumption
    <3>3. QED
      BY <1>3, <3>1, <3>2
  <2>3. QED
    BY <2>1, <2>2 DEF WindowInv
<1>5. \A i \in 1 .. Len(new) : new[i] <= now
  BY <1>1, <1>2, <1>3, SMTT(20)
<1>6. ASSUME NEW i \in DOMAIN new, NEW j \in DOMAIN new, i <= j, new[j] - new[i] < RateWindow
      PROVE  j - i + 1 <= 2 * RateMax
  <2>1. CASE j <= Len(acc)
    <3>1. i \in DOMAIN acc /\ j \in DOMAIN acc /\ new[i] = acc[i] /\ new[j] = acc[j]
      BY <1>1, <1>2, <1>6, <2>1, SMTT(20)
    <3>2. QED
      BY <1>6, <3>1 DEF Bounded
  <2>2. CASE j = Len(acc) + 1 /\ i <= Len(acc)
    <3>1. i \in 1 .. Len(acc) /\ now - acc[i] < RateWindow /\ acc[i] \in Nat
      BY <1>1, <1>2, <1>6, <2>2
    <3>2. ~(acc[i] + RateWindow <= start)
      BY <3>1, AdmAssumption
    <3>3. i > Len(acc) - n - RateMax
      BY <1>1, <3>1, <3>2, AdmAssumption DEF WindowInv
    <3>4. QED
      BY <1>1, <2>2, <3>1, <3>3, AdmAssumption
  <2>3. CASE j = Len(acc) + 1 /\ i = Len(acc) + 1
    BY <1>1, <2>3, AdmAssumption
  <2>4. QED
    BY <1>1, <1>2, <1>6, <2>1, <2>2, <2>3
<1>7. QED
  BY <1>2, <1>4, <1>5, <1>6 DEF new, Bounded

(* What RateInv says of one client, with its bucket if it has one.          *)
ClientBounded(accepted, c, bs, now) ==
  /\ \A i \in 1 .. Len(accepted) : accepted[i] <= now
  /\ Bounded(accepted)
  /\ IF c \in DOMAIN bs
     THEN WindowInv(accepted, bs[c].start, Capped(bs[c].count))
     ELSE WindowInv(accepted, now, 0)

(* The rate limiter counts a request in the window of its client, after the eviction. *)
LEMMA CheckKeeps == ASSUME RateInv, NEW r \in AdmReqs, RateCheck(r) PROVE RateInv'
<1> DEFINE c == adm[r].client
           b == Evict(buckets)
           old == IF c \in DOMAIN b THEN b[c] ELSE [start |-> admClock, count |-> 0]
           bucket == IF admClock - old.start >= RateWindow THEN [start |-> admClock, count |-> 1]
                     ELSE [old EXCEPT !.count = @ + 1]
<1>1. /\ RateMax \in Nat \ {0} /\ admLimit = RateMax /\ RateWindow \in Nat \ {0} /\ RateKeep \in Nat
      /\ RateWindow <= RateKeep /\ admClock \in Nat /\ admAccepted \in [AdmClients -> Seq(Nat)]
      /\ admClock' = admClock /\ admLimit' = admLimit
  BY AdmAssumption DEF RateInv, RateCheck
<1>2. /\ DOMAIN b \subseteq DOMAIN buckets
      /\ \A x \in DOMAIN b : b[x] = buckets[x]
      /\ \A x \in DOMAIN buckets \ DOMAIN b : ~(admClock - buckets[x].start < RateKeep)
  BY DEF Evict
<1>3. \A x \in DOMAIN buckets : /\ buckets[x] \in [start : Nat, count : Nat] /\ buckets[x].start <= admClock
                                /\ buckets[x].start \in Nat /\ buckets[x].count \in Nat
  BY DEF RateInv
<1>4. \A x \in AdmClients : ClientBounded(admAccepted[x], x, buckets, admClock) /\ admAccepted[x] \in Seq(Nat)
  BY <1>1 DEF RateInv, ClientBounded
<1>5. /\ buckets' = Bind(b, c, bucket)
      /\ IF bucket.count <= admLimit
         THEN admAccepted' = [admAccepted EXCEPT ![c] = Append(@, admClock)]
         ELSE admAccepted' = admAccepted
  BY DEF RateCheck
<1> HIDE DEF b
<1>6. ASSUME NEW n \in Nat PROVE Capped(n) \in 0 .. RateMax /\ Capped(n) \in Nat
  BY <1>1 DEF Capped
<1>7. ASSUME NEW x \in AdmClients, x \notin DOMAIN b
      PROVE  WindowInv(admAccepted[x], admClock, 0)
  <2>1. CASE x \notin DOMAIN buckets
    BY <1>4, <2>1 DEF ClientBounded
  <2>2. CASE x \in DOMAIN buckets
    <3>1. buckets[x].start + RateWindow <= admClock
      BY <1>1, <1>2, <1>3, <1>7, <2>2
    <3>2. /\ WindowInv(admAccepted[x], buckets[x].start, Capped(buckets[x].count))
          /\ \A i \in 1 .. Len(admAccepted[x]) : admAccepted[x][i] <= admClock
      BY <1>4, <2>2 DEF ClientBounded
    <3>3. Capped(buckets[x].count) \in 0 .. RateMax
      BY <1>3, <1>6, <2>2
    <3>4. QED
      BY <1>1, <1>3, <1>4, <2>2, <3>1, <3>2, <3>3, WindowOpens
  <2>3. QED
    BY <2>1, <2>2
<1>8. /\ bucket \in [start : Nat, count : Nat] /\ bucket.start \in Nat /\ bucket.count \in Nat \ {0}
      /\ bucket.start <= admClock /\ admClock < bucket.start + RateWindow
      /\ c \in AdmClients => WindowInv(admAccepted[c], bucket.start, Capped(bucket.count - 1))
  <2>1. CASE c \notin DOMAIN b
    <3>1. bucket = [start |-> admClock, count |-> 1]
      BY <1>1, <2>1
    <3>2. Capped(0) = 0
      BY <1>1 DEF Capped
    <3>3. QED
      BY <1>1, <1>7, <2>1, <3>1, <3>2
  <2>2. CASE c \in DOMAIN b /\ admClock - buckets[c].start >= RateWindow
    <3>1. bucket = [start |-> admClock, count |-> 1]
      BY <1>2, <2>2
    <3>2. Capped(0) = 0
      BY <1>1 DEF Capped
    <3>3. ASSUME c \in AdmClients PROVE WindowInv(admAccepted[c], admClock, 0)
      <4>1. /\ WindowInv(admAccepted[c], buckets[c].start, Capped(buckets[c].count))
            /\ \A i \in 1 .. Len(admAccepted[c]) : admAccepted[c][i] <= admClock
        BY <1>2, <1>4, <2>2, <3>3 DEF ClientBounded
      <4>2. /\ Capped(buckets[c].count) \in 0 .. RateMax /\ buckets[c].start \in Nat
            /\ buckets[c].start <= admClock /\ buckets[c].start + RateWindow <= admClock
        <5>1. buckets[c].start \in Nat /\ buckets[c].count \in Nat /\ buckets[c].start <= admClock
          BY <1>2, <1>3, <2>2
        <5>2. Capped(buckets[c].count) \in 0 .. RateMax
          BY <1>6, <5>1
        <5>3. buckets[c].start + RateWindow <= admClock
          BY <1>1, <2>2, <5>1
        <5>4. QED
          BY <5>1, <5>2, <5>3
      <4>3. QED
        BY <1>1, <1>4, <3>3, <4>1, <4>2, WindowOpens
    <3>4. QED
      BY <1>1, <3>1, <3>2, <3>3
  <2>3. CASE c \in DOMAIN b /\ ~(admClock - buckets[c].start >= RateWindow)
    <3> DEFINE o == buckets[c]
    <3>1. o \in [start : Nat, count : Nat] /\ o.start \in Nat /\ o.count \in Nat /\ o.start <= admClock
      BY <1>2, <1>3, <2>3
    <3>2. bucket = [o EXCEPT !.count = @ + 1]
      BY <1>2, <2>3
    <3>3. bucket.start = o.start /\ bucket.count = o.count + 1 /\ bucket \in [start : Nat, count : Nat]
      BY <3>1, <3>2
    <3>4. c \in AdmClients => WindowInv(admAccepted[c], o.start, Capped(o.count))
      BY <1>2, <1>4, <2>3 DEF ClientBounded
    <3>5. bucket.count - 1 = o.count
      BY <3>1, <3>3
    <3> HIDE DEF bucket
    <3>6. bucket.start \in Nat /\ bucket.count \in Nat \ {0} /\ bucket.start <= admClock
      BY <3>1, <3>3
    <3>7. admClock < bucket.start + RateWindow
      BY <1>1, <2>3, <3>1, <3>3
    <3>8. c \in AdmClients => WindowInv(admAccepted[c], bucket.start, Capped(bucket.count - 1))
      BY <3>3, <3>4, <3>5
    <3>9. QED
      BY <3>3, <3>6, <3>7, <3>8
  <2>4. QED
    BY <2>1, <2>2, <2>3
<1> HIDE DEF bucket
<1>9. /\ DOMAIN buckets' = DOMAIN b \cup {c}
      /\ buckets'[c] = bucket
      /\ \A x \in DOMAIN b \ {c} : buckets'[x] = b[x]
  BY <1>5 DEF Bind
<1>10. /\ admAccepted' \in [AdmClients -> Seq(Nat)]
       /\ \A x \in AdmClients \ {c} : admAccepted'[x] = admAccepted[x]
       /\ c \in AdmClients => admAccepted'[c] = IF bucket.count <= RateMax THEN Append(admAccepted[c], admClock)
                                                ELSE admAccepted[c]
  <2>1. \A s \in Seq(Nat) : Append(s, admClock) \in Seq(Nat)
    BY <1>1, AppendProperties
  <2>2. CASE bucket.count <= RateMax
    <3>1. admAccepted' = [admAccepted EXCEPT ![c] = Append(@, admClock)]
      BY <1>1, <1>5, <2>2
    <3> HIDE DEF c
    <3>2. QED
      BY <1>1, <2>1, <2>2, <3>1
  <2>3. CASE ~(bucket.count <= RateMax)
    <3>1. admAccepted' = admAccepted
      BY <1>1, <1>5, <2>3
    <3> HIDE DEF c
    <3>2. QED
      BY <1>1, <2>3, <3>1
  <2>4. QED
    BY <2>2, <2>3
<1>11. \A x \in DOMAIN buckets' : buckets'[x] \in [start : Nat, count : Nat] /\ buckets'[x].start <= admClock
  BY <1>2, <1>3, <1>8, <1>9
<1>12. ASSUME c \in AdmClients PROVE ClientBounded(admAccepted'[c], c, buckets', admClock)
  <2> DEFINE acc == admAccepted[c]
  <2>1. acc \in Seq(Nat) /\ Bounded(acc) /\ \A i \in 1 .. Len(acc) : acc[i] <= admClock
    BY <1>4, <1>12 DEF ClientBounded
  <2>2. c \in DOMAIN buckets' /\ buckets'[c] = bucket
    BY <1>9
  <2>3. CASE bucket.count <= RateMax
    <3>1. /\ bucket.count - 1 \in 0 .. RateMax /\ bucket.count - 1 < RateMax
          /\ Capped(bucket.count - 1) = bucket.count - 1 /\ Capped(bucket.count) = bucket.count - 1 + 1
      BY <1>1, <1>8, <2>3 DEF Capped
    <3>2. WindowInv(acc, bucket.start, bucket.count - 1)
      BY <1>8, <1>12, <3>1
    <3>3. /\ WindowInv(Append(acc, admClock), bucket.start, bucket.count - 1 + 1)
          /\ Bounded(Append(acc, admClock))
          /\ \A i \in 1 .. Len(Append(acc, admClock)) : Append(acc, admClock)[i] <= admClock
      <4> HIDE DEF acc
      <4>1. QED
        BY <1>1, <1>8, <2>1, <3>1, <3>2, WindowAccepts
    <3>4. admAccepted'[c] = Append(acc, admClock)
      BY <1>10, <1>12, <2>3
    <3>5. QED
      BY <2>2, <3>1, <3>3, <3>4 DEF ClientBounded
  <2>4. CASE ~(bucket.count <= RateMax)
    <3>1. Capped(bucket.count - 1) = Capped(bucket.count)
      BY <1>1, <1>8, <2>4 DEF Capped
    <3>2. admAccepted'[c] = acc
      BY <1>10, <1>12, <2>4
    <3>3. QED
      BY <1>8, <1>12, <2>1, <2>2, <3>1, <3>2 DEF ClientBounded
  <2>5. QED
    BY <2>3, <2>4
<1>13. ASSUME NEW x \in AdmClients \ {c} PROVE ClientBounded(admAccepted'[x], x, buckets', admClock)
  <2>1. admAccepted'[x] = admAccepted[x] /\ ClientBounded(admAccepted[x], x, buckets, admClock)
    BY <1>4, <1>10
  <2>2. CASE x \in DOMAIN b
    <3>1. x \in DOMAIN buckets /\ x \in DOMAIN buckets' /\ buckets'[x] = buckets[x]
      BY <1>2, <1>9, <2>2
    <3>2. QED
      BY <2>1, <3>1 DEF ClientBounded
  <2>3. CASE x \notin DOMAIN b
    <3>1. x \notin DOMAIN buckets'
      BY <1>9, <2>3
    <3>2. WindowInv(admAccepted[x], admClock, 0)
      BY <1>7, <2>3
    <3>3. QED
      BY <2>1, <3>1, <3>2 DEF ClientBounded
  <2>4. QED
    BY <2>2, <2>3
<1>14. \A x \in AdmClients : ClientBounded(admAccepted'[x], x, buckets', admClock')
  BY <1>1, <1>12, <1>13
<1>15. QED
  BY <1>1, <1>10, <1>11, <1>14 DEF RateInv, ClientBounded, WindowInv, Bounded, Capped

(* Time passes: a bucket only becomes older.                                 *)
LEMMA TickKeeps == ASSUME RateInv, AdmTick PROVE RateInv'
<1>1. admClock \in Nat /\ admClock' = admClock + 1 /\ UNCHANGED <<admLimit, buckets, admAccepted>>
  BY DEF RateInv, AdmTick, rateVars
<1>2. \A x \in DOMAIN buckets : buckets[x].start \in Nat /\ buckets[x].start <= admClock + 1
  BY <1>1 DEF RateInv
<1>3. ASSUME NEW c \in AdmClients
      PROVE  /\ \A i \in 1 .. Len(admAccepted[c]) : admAccepted[c][i] <= admClock + 1
             /\ WindowInv(admAccepted[c], admClock, 0) => WindowInv(admAccepted[c], admClock + 1, 0)
  <2>1. /\ admAccepted[c] \in Seq(Nat) /\ Len(admAccepted[c]) \in Nat
        /\ \A i \in 1 .. Len(admAccepted[c]) : admAccepted[c][i] \in Nat
    BY ElementOfSeq, LenProperties DEF RateInv
  <2>2. QED
    BY <1>1, <2>1, AdmAssumption, SMTT(20) DEF RateInv, WindowInv
<1>4. /\ admLimit' = admLimit /\ buckets' = buckets /\ admAccepted' = admAccepted
      /\ \A c \in AdmClients :
           IF c \in DOMAIN buckets
           THEN WindowInv(admAccepted[c], buckets[c].start, Capped(buckets[c].count))
           ELSE WindowInv(admAccepted[c], admClock + 1, 0)
  BY <1>1, <1>3 DEF RateInv
<1>5. QED
  BY <1>1, <1>2, <1>3, <1>4 DEF RateInv, WindowInv, Bounded, Capped

(* For any clients, limit and window: the last requests accepted from a client
   are those its bucket counts, and no span of one window holds more than twice
   the limit. *)
THEOREM RateInvHolds == AdmSpec => []RateInv
<1>1. AdmInit => RateInv
  BY AdmAssumption DEF AdmInit, RateInv, EmptyMap, WindowInv, Bounded
<1>2. RateInv /\ [AdmNext]_admVars => RateInv'
  <2> SUFFICES ASSUME RateInv, [AdmNext]_admVars PROVE RateInv'
    OBVIOUS
  <2>1. CASE UNCHANGED <<admClock, rateVars>>
    BY <2>1 DEF RateInv, rateVars, WindowInv, Bounded, Capped
  <2>2. ASSUME NEW r \in AdmReqs,
               AdmArrives(r) \/ AuthMiddleware(r) \/ Handle(r) \/ InsertKey(r) \/ LogEvent(r)
        PROVE  UNCHANGED <<admClock, rateVars>>
    BY <2>2 DEF AdmArrives, AuthMiddleware, Handle, InsertKey, LogEvent
  <2>3. UNCHANGED admVars => UNCHANGED <<admClock, rateVars>>
    BY DEF admVars, rateVars
  <2>4. QED
    BY <2>1, <2>2, <2>3, CheckKeeps, TickKeeps DEF AdmNext
<1>3. QED
  BY <1>1, <1>2, PTL DEF AdmSpec

(* However requests fall on the windows of the limiter, and whichever buckets
   are evicted when there are too many: a client gets at most twice the limit
   within any span of one window.                                           *)
THEOREM RateIsBounded == AdmSpec => []RateBound
<1>1. RateInv => RateBound
  BY DEF RateInv, RateBound, Bounded
<1>2. QED
  BY <1>1, RateInvHolds, PTL
-----------------------------------------------------------------------------
(* AdminApi: the user store and the requests that use it.                   *)

AdmFields == {"at", "op", "client", "cred", "user", "role", "target", "arg", "serial", "ok", "seen"}

(* A request whose serial number may still become the id of a user.         *)
Pending(q) == q.at \in {"rate", "auth", "handle"}

(* Of one request, with `count` requests seen and `ids` the users there are. *)
ReqInv(q, count, ids) ==
  /\ DOMAIN q = AdmFields
  /\ q.user # 0 => q.role \in q.seen
  /\ q.at \in {"rate", "auth"} => q.user = 0
  /\ Pending(q) => q.serial \in 2 .. count + 1 /\ q.serial \notin ids

RequestsInv ==
  /\ DOMAIN adm = AdmReqs
  /\ \A r \in AdmReqs : ReqInv(adm[r], admCount, DOMAIN users)
  /\ \A r, q \in AdmReqs : (r # q /\ Pending(adm[r]) /\ Pending(adm[q])) => adm[r].serial # adm[q].serial

(* Ids are never used twice, and the two maps are inverse to each other.    *)
StoreInv ==
  /\ admCount \in Nat
  /\ DOMAIN users \subseteq 1 .. admCount + 1
  /\ \A u \in DOMAIN users : DOMAIN users[u] = {"name", "role"}
  /\ \A n \in DOMAIN nameIndex : nameIndex[n] \in DOMAIN users /\ users[nameIndex[n]].name = n
  /\ \A u \in DOMAIN users : users[u].name \in DOMAIN nameIndex /\ nameIndex[users[u].name] = u

AccessInv == StoreInv /\ RequestsInv

(* A request moves on, or ends, without taking a new serial number; at most
   its own number becomes that of a user, when it is no longer pending.     *)
LEMMA RequestMoves ==
  ASSUME RequestsInv, NEW r \in AdmReqs, NEW q,
         adm' = [adm EXCEPT ![r] = q], admCount' = admCount,
         DOMAIN users' \subseteq DOMAIN users
           \/ (Pending(adm[r]) /\ DOMAIN users' = DOMAIN users \cup {adm[r].serial} /\ ~Pending(q)),
         ReqInv(q, admCount, DOMAIN users'),
         Pending(q) => Pending(adm[r]) /\ q.serial = adm[r].serial
  PROVE  RequestsInv'
<1>1. DOMAIN adm' = AdmReqs /\ adm'[r] = q /\ \A s \in AdmReqs \ {r} : adm'[s] = adm[s]
  BY DEF RequestsInv
<1>2. ASSUME NEW s \in AdmReqs \ {r} PROVE ReqInv(adm[s], admCount, DOMAIN users')
  BY DEF RequestsInv, ReqInv
<1>3. \A s \in AdmReqs : ReqInv(adm'[s], admCount', DOMAIN users')
  BY <1>1, <1>2
<1>4. ASSUME NEW s \in AdmReqs, NEW u \in AdmReqs, s # u, Pending(adm'[s]), Pending(adm'[u])
      PROVE  adm'[s].serial # adm'[u].serial
  BY <1>1, <1>4 DEF RequestsInv
<1>5. QED
  BY <1>1, <1>3, <1>4 DEF RequestsInv, ReqInv, Pending

(* The records an answer or a change of place makes.                        *)
LEMMA Answered ==
  ASSUME NEW q, DOMAIN q = AdmFields, NEW ok, NEW at
  PROVE  /\ DOMAIN [q EXCEPT !.at = at, !.ok = ok] = AdmFields /\ [q EXCEPT !.at = at, !.ok = ok].at = at
         /\ [q EXCEPT !.at = at, !.ok = ok].user = q.user /\ [q EXCEPT !.at = at, !.ok = ok].role = q.role
         /\ [q EXCEPT !.at = at, !.ok = ok].seen = q.seen
         /\ DOMAIN [q EXCEPT !.at = at] = AdmFields /\ [q EXCEPT !.at = at].at = at
         /\ [q EXCEPT !.at = at].user = q.user /\ [q EXCEPT !.at = at].role = q.role
         /\ [q EXCEPT !.at = at].seen = q.seen /\ [q EXCEPT !.at = at].serial = q.serial
BY DEF AdmFields

(* An answer that leaves the users as they are, or adds its own.            *)
LEMMA AnswerKeeps ==
  ASSUME RequestsInv, NEW r \in AdmReqs, NEW ok, Answer(r, ok), admCount' = admCount,
         DOMAIN users' \subseteq DOMAIN users
           \/ (Pending(adm[r]) /\ DOMAIN users' = DOMAIN users \cup {adm[r].serial})
  PROVE  RequestsInv'
<1> DEFINE q == [adm[r] EXCEPT !.at = "audit", !.ok = ok]
<1>1. DOMAIN adm[r] = AdmFields /\ ReqInv(adm[r], admCount, DOMAIN users)
  BY DEF RequestsInv, ReqInv
<1>2. DOMAIN q = AdmFields /\ q.at = "audit" /\ q.user = adm[r].user /\ q.role = adm[r].role /\ q.seen = adm[r].seen
  BY <1>1, Answered
<1>3. adm' = [adm EXCEPT ![r] = q]
  BY DEF Answer, AdmStep
<1> HIDE DEF q
<1>4. ReqInv(q, admCount, DOMAIN users') /\ ~Pending(q)
  BY <1>1, <1>2 DEF ReqInv, Pending
<1>5. QED
  BY <1>3, <1>4, RequestMoves

(* A request arrives with a credential.                                      *)
LEMMA ArriveKeeps == ASSUME AccessInv, NEW r \in AdmReqs, AdmArrives(r) PROVE RequestsInv'
<1>0. PICK c \in (IF admLimit = 0 THEN {"unknown"} ELSE AdmClients), cred \in Creds2,
           op \in {"login", "refresh", "create", "delete", "role", "key", "revoke", "view"} :
        \E target \in DOMAIN users,
           arg \in IF op = "role" THEN Roles ELSE IF op \in {"login", "create"} THEN AdmNames ELSE {"none"} :
          /\ op = "refresh" => cred.kind = "refresh"
          /\ admLimit > 0 => op = "view"
          /\ AdmStep(r, [IdleAdm EXCEPT !.at = IF admLimit = 0 THEN "auth" ELSE "rate", !.op = op, !.client = c,
                                        !.cred = cred, !.target = target, !.arg = arg, !.serial = admCount + 2])
  BY Zenon DEF AdmArrives
<1>1. PICK target \in DOMAIN users,
           arg \in (IF op = "role" THEN Roles ELSE IF op \in {"login", "create"} THEN AdmNames ELSE {"none"}) :
        AdmStep(r, [IdleAdm EXCEPT !.at = IF admLimit = 0 THEN "auth" ELSE "rate", !.op = op, !.client = c,
                                   !.cred = cred, !.target = target, !.arg = arg, !.serial = admCount + 2])
  BY <1>0, Zenon
<1> DEFINE q == [IdleAdm EXCEPT !.at = IF admLimit = 0 THEN "auth" ELSE "rate", !.op = op, !.client = c,
                                !.cred = cred, !.target = target, !.arg = arg, !.serial = admCount + 2]
<1>2. DOMAIN q = AdmFields /\ q.at \in {"rate", "auth"} /\ q.user = 0 /\ q.serial = admCount + 2
  BY DEF IdleAdm, AdmFields
<1>3. adm' = [adm EXCEPT ![r] = q] /\ admCount' = admCount + 1 /\ users' = users
  BY <1>1 DEF AdmStep, AdmArrives, storeVars
<1> HIDE DEF q
<1>4. /\ admCount \in Nat /\ DOMAIN users \subseteq 1 .. admCount + 1 /\ DOMAIN adm = AdmReqs
      /\ \A s \in AdmReqs : ReqInv(adm[s], admCount, DOMAIN users)
  BY DEF AccessInv, StoreInv, RequestsInv
<1>5. adm'[r] = q /\ \A s \in AdmReqs \ {r} : adm'[s] = adm[s]
  BY <1>3, <1>4
<1>6. admCount + 2 \notin DOMAIN users /\ admCount + 2 \in 2 .. admCount + 1 + 1
  BY <1>4
<1>7. ReqInv(q, admCount + 1, DOMAIN users)
  BY <1>2, <1>6 DEF ReqInv, Pending
<1>8. ASSUME NEW s \in AdmReqs \ {r} PROVE ReqInv(adm[s], admCount + 1, DOMAIN users)
  BY <1>4 DEF ReqInv
<1>9. \A s \in AdmReqs : ReqInv(adm'[s], admCount', DOMAIN users')
  BY <1>3, <1>5, <1>7, <1>8
<1>10. ASSUME NEW s \in AdmReqs, NEW u \in AdmReqs, s # u, Pending(adm'[s]), Pending(adm'[u])
       PROVE  adm'[s].serial # adm'[u].serial
  <2>1. \A x \in AdmReqs : Pending(adm[x]) => adm[x].serial \in 2 .. admCount + 1
    BY <1>4 DEF ReqInv
  <2>2. CASE s # r /\ u # r
    BY <1>5, <1>10, <2>2 DEF AccessInv, RequestsInv
  <2>3. CASE s = r
    <3>1. adm'[u].serial \in 2 .. admCount + 1 /\ adm'[s].serial = admCount + 2
      BY <1>2, <1>5, <1>10, <2>1, <2>3
    <3>2. QED
      BY <1>4, <3>1
  <2>4. CASE u = r
    <3>1. adm'[s].serial \in 2 .. admCount + 1 /\ adm'[u].serial = admCount + 2
      BY <1>2, <1>5, <1>10, <2>1, <2>4
    <3>2. QED
      BY <1>4, <3>1
  <2>5. QED
    BY <2>2, <2>3, <2>4
<1>11. QED
  BY <1>3, <1>4, <1>9, <1>10 DEF RequestsInv, ReqInv, Pending

(* The rate limiter leaves the users alone.                                  *)
LEMMA CheckPasses == ASSUME AccessInv, NEW r \in AdmReqs, RateCheck(r) PROVE RequestsInv'
<1>1. /\ users' = users /\ admCount' = admCount /\ adm[r].at = "rate"
      /\ (\E ok : Answer(r, ok)) \/ AdmStep(r, [adm[r] EXCEPT !.at = "auth"])
  BY DEF RateCheck, storeVars, AdmAt
<1>2. CASE \E ok : Answer(r, ok)
  BY <1>1, <1>2, AnswerKeeps DEF AccessInv
<1>3. CASE AdmStep(r, [adm[r] EXCEPT !.at = "auth"])
  <2> DEFINE q == [adm[r] EXCEPT !.at = "auth"]
  <2>1. ReqInv(adm[r], admCount, DOMAIN users) /\ DOMAIN adm[r] = AdmFields
    BY DEF AccessInv, RequestsInv, ReqInv
  <2>2. /\ DOMAIN q = AdmFields /\ q.at = "auth" /\ q.user = adm[r].user /\ q.role = adm[r].role /\ q.seen = adm[r].seen
        /\ q.serial = adm[r].serial
    BY <2>1, Answered
  <2>3. adm' = [adm EXCEPT ![r] = q]
    BY <1>3 DEF AdmStep
  <2> HIDE DEF q
  <2>4. /\ ReqInv(q, admCount, DOMAIN users')
        /\ Pending(q) => Pending(adm[r]) /\ q.serial = adm[r].serial
    BY <1>1, <2>1, <2>2 DEF ReqInv, Pending
  <2>5. QED
    BY <1>1, <2>3, <2>4, RequestMoves DEF AccessInv
<1>4. QED
  BY <1>1, <1>2, <1>3

(* The middleware takes the role from the store, not from the token.         *)
LEMMA AuthKeeps == ASSUME AccessInv, NEW r \in AdmReqs, AuthMiddleware(r) PROVE RequestsInv'
<1>1. /\ users' = users /\ admCount' = admCount /\ adm[r].at = "auth"
      /\ \/ \E ok : Answer(r, ok)
         \/ AdmStep(r, [adm[r] EXCEPT !.at = "handle", !.role = "admin"])
         \/ \E u : AdmStep(r, [adm[r] EXCEPT !.at = "handle", !.user = u, !.role = users[u].role, !.seen = {users[u].role}])
  BY DEF AuthMiddleware, storeVars, AdmAt, RoleFor
<1>2. ReqInv(adm[r], admCount, DOMAIN users) /\ DOMAIN adm[r] = AdmFields /\ adm[r].user = 0
  BY <1>1 DEF AccessInv, RequestsInv, ReqInv
<1>3. CASE \E ok : Answer(r, ok)
  BY <1>1, <1>3, AnswerKeeps DEF AccessInv
<1>4. CASE AdmStep(r, [adm[r] EXCEPT !.at = "handle", !.role = "admin"])
  <2> DEFINE q == [adm[r] EXCEPT !.at = "handle", !.role = "admin"]
  <2>1. DOMAIN q = AdmFields /\ q.at = "handle" /\ q.user = 0 /\ q.serial = adm[r].serial
    BY <1>2 DEF AdmFields
  <2>2. adm' = [adm EXCEPT ![r] = q]
    BY <1>4 DEF AdmStep
  <2> HIDE DEF q
  <2>3. /\ ReqInv(q, admCount, DOMAIN users')
        /\ Pending(q) => Pending(adm[r]) /\ q.serial = adm[r].serial
    BY <1>1, <1>2, <2>1 DEF ReqInv, Pending
  <2>4. QED
    BY <1>1, <2>2, <2>3, RequestMoves DEF AccessInv
<1>5. ASSUME NEW u, AdmStep(r, [adm[r] EXCEPT !.at = "handle", !.user = u, !.role = users[u].role, !.seen = {users[u].role}])
      PROVE  RequestsInv'
  <2> DEFINE q == [adm[r] EXCEPT !.at = "handle", !.user = u, !.role = users[u].role, !.seen = {users[u].role}]
  <2>1. DOMAIN q = AdmFields /\ q.at = "handle" /\ q.role \in q.seen /\ q.serial = adm[r].serial
    BY <1>2 DEF AdmFields
  <2>2. adm' = [adm EXCEPT ![r] = q]
    BY <1>5 DEF AdmStep
  <2> HIDE DEF q
  <2>3. /\ ReqInv(q, admCount, DOMAIN users')
        /\ Pending(q) => Pending(adm[r]) /\ q.serial = adm[r].serial
    BY <1>1, <1>2, <2>1 DEF ReqInv, Pending
  <2>4. QED
    BY <1>1, <2>2, <2>3, RequestMoves DEF AccessInv
<1>6. QED
  BY <1>1, <1>3, <1>4, <1>5

(* create_user binds a fresh id and a free name.                             *)
LEMMA CreateKeeps ==
  ASSUME AccessInv, NEW r \in AdmReqs, AdmAt(r, "handle"), CreateUser(r), admCount' = admCount
  PROVE  AccessInv'
<1> DEFINE u == adm[r].serial
           n == adm[r].arg
<1>1. /\ users' = Bind(users, u, [name |-> n, role |-> "viewer"])
      /\ nameIndex' = Bind(nameIndex, n, u) /\ n \notin DOMAIN nameIndex /\ Answer(r, TRUE)
  BY DEF CreateUser
<1>2. Pending(adm[r]) /\ u \in 2 .. admCount + 1 /\ u \notin DOMAIN users /\ admCount \in Nat
  BY DEF AccessInv, StoreInv, RequestsInv, ReqInv, Pending, AdmAt
<1> HIDE DEF u, n
<1>3. /\ DOMAIN users' = DOMAIN users \cup {u} /\ users'[u] = [name |-> n, role |-> "viewer"]
      /\ \A x \in DOMAIN users : users'[x] = users[x]
      /\ DOMAIN nameIndex' = DOMAIN nameIndex \cup {n} /\ nameIndex'[n] = u
      /\ \A m \in DOMAIN nameIndex : nameIndex'[m] = nameIndex[m]
  BY <1>1, <1>2 DEF Bind
<1>4. users'[u].name = n /\ DOMAIN users'[u] = {"name", "role"}
  BY <1>3
<1>5. StoreInv
  BY DEF AccessInv
<1>6. StoreInv'
  <2>1. DOMAIN users' \subseteq 1 .. admCount' + 1 /\ admCount' \in Nat
    BY <1>2, <1>3, <1>5 DEF StoreInv
  <2>2. \A x \in DOMAIN users' : DOMAIN users'[x] = {"name", "role"}
    BY <1>3, <1>4, <1>5 DEF StoreInv
  <2>3. \A m \in DOMAIN nameIndex' : nameIndex'[m] \in DOMAIN users' /\ users'[nameIndex'[m]].name = m
    BY <1>1, <1>3, <1>4, <1>5 DEF StoreInv
  <2>4. \A x \in DOMAIN users' : users'[x].name \in DOMAIN nameIndex' /\ nameIndex'[users'[x].name] = x
    BY <1>1, <1>3, <1>4, <1>5 DEF StoreInv
  <2>5. QED
    BY <2>1, <2>2, <2>3, <2>4 DEF StoreInv
<1>7. RequestsInv'
  BY <1>1, <1>2, <1>3, AnswerKeeps DEF AccessInv, u
<1>8. QED
  BY <1>6, <1>7 DEF AccessInv

(* delete_user removes the user and its name together.                       *)
LEMMA DeleteUserKeeps ==
  ASSUME AccessInv, NEW r \in AdmReqs, DeleteUser(r), admCount' = admCount
  PROVE  AccessInv'
<1> DEFINE u == adm[r].target
           n == users[u].name
<1>1. /\ users' = Drop(users, u) /\ nameIndex' = Drop(nameIndex, n) /\ u \in DOMAIN users /\ Answer(r, TRUE)
  BY DEF DeleteUser
<1>2. StoreInv
  BY DEF AccessInv
<1>3. n \in DOMAIN nameIndex /\ nameIndex[n] = u
  BY <1>1, <1>2 DEF StoreInv
<1> HIDE DEF u
<1>4. /\ DOMAIN users' = DOMAIN users \ {u} /\ \A x \in DOMAIN users' : users'[x] = users[x]
      /\ DOMAIN nameIndex' = DOMAIN nameIndex \ {n} /\ \A m \in DOMAIN nameIndex' : nameIndex'[m] = nameIndex[m]
  BY <1>1 DEF Drop
<1>5. StoreInv'
  <2>1. \A m \in DOMAIN nameIndex \ {n} : nameIndex[m] # u
    BY <1>2, <1>3 DEF StoreInv
  <2>2. \A x \in DOMAIN users \ {u} : users[x].name # n
    BY <1>2, <1>3 DEF StoreInv
  <2>3. QED
    BY <1>2, <1>4, <2>1, <2>2 DEF StoreInv
<1>6. RequestsInv'
  BY <1>1, <1>4, AnswerKeeps DEF AccessInv
<1>7. QED
  BY <1>5, <1>6 DEF AccessInv

(* update_role changes the role of one user, which every open request sees.  *)
LEMMA SetRoleKeeps ==
  ASSUME AccessInv, NEW r \in AdmReqs, SetRole(r), admCount' = admCount
  PROVE  AccessInv'
<1> DEFINE u == adm[r].target
           role == adm[r].arg
<1>1. /\ users' = [users EXCEPT ![u].role = role] /\ nameIndex' = nameIndex /\ u \in DOMAIN users
      /\ adm' = [q \in AdmReqs |-> IF q = r THEN [adm[q] EXCEPT !.at = "audit"]
                                   ELSE IF adm[q].user = u THEN [adm[q] EXCEPT !.seen = @ \cup {role}] ELSE adm[q]]
  BY DEF SetRole
<1>2. StoreInv /\ RequestsInv
  BY DEF AccessInv
<1> HIDE DEF u, role
<1>3. DOMAIN users' = DOMAIN users /\ \A x \in DOMAIN users : DOMAIN users'[x] = {"name", "role"} /\ users'[x].name = users[x].name
  <2>1. DOMAIN users' = DOMAIN users /\ \A x \in DOMAIN users \ {u} : users'[x] = users[x]
    BY <1>1
  <2>2. users'[u] = [users[u] EXCEPT !.role = role]
    BY <1>1
  <2>3. DOMAIN users[u] = {"name", "role"}
    BY <1>1, <1>2 DEF StoreInv
  <2>4. DOMAIN users'[u] = {"name", "role"} /\ users'[u].name = users[u].name
    BY <2>2, <2>3
  <2>5. QED
    BY <1>2, <2>1, <2>4 DEF StoreInv
<1>4. StoreInv'
  BY <1>1, <1>2, <1>3 DEF StoreInv
<1>5. ASSUME NEW q \in AdmReqs
      PROVE  /\ ReqInv(adm'[q], admCount, DOMAIN users)
             /\ Pending(adm'[q]) => Pending(adm[q]) /\ adm'[q].serial = adm[q].serial
  <2>1. ReqInv(adm[q], admCount, DOMAIN users) /\ DOMAIN adm[q] = AdmFields
    BY <1>2 DEF RequestsInv, ReqInv
  <2>2. CASE q = r
    <3>1. adm'[q] = [adm[q] EXCEPT !.at = "audit"]
      BY <1>1, <2>2
    <3>2. /\ DOMAIN adm'[q] = AdmFields /\ adm'[q].at = "audit" /\ adm'[q].user = adm[q].user
          /\ adm'[q].role = adm[q].role /\ adm'[q].seen = adm[q].seen
      BY <2>1, <3>1, Answered
    <3>3. QED
      BY <2>1, <3>2 DEF ReqInv, Pending
  <2>3. CASE q # r /\ adm[q].user = u
    <3>1. adm'[q] = [adm[q] EXCEPT !.seen = @ \cup {role}]
      BY <1>1, <2>3
    <3>2. /\ DOMAIN adm'[q] = AdmFields /\ adm'[q].at = adm[q].at /\ adm'[q].user = adm[q].user
          /\ adm'[q].role = adm[q].role /\ adm'[q].seen = adm[q].seen \cup {role} /\ adm'[q].serial = adm[q].serial
      BY <2>1, <3>1 DEF AdmFields
    <3>3. QED
      BY <2>1, <3>2 DEF ReqInv, Pending
  <2>4. CASE q # r /\ adm[q].user # u
    <3>1. adm'[q] = adm[q]
      BY <1>1, <2>4
    <3>2. QED
      BY <2>1, <3>1
  <2>5. QED
    BY <2>2, <2>3, <2>4
<1>6. DOMAIN adm' = AdmReqs
  BY <1>1
<1>7. RequestsInv'
  <2>1. \A q \in AdmReqs : ReqInv(adm'[q], admCount', DOMAIN users')
    BY <1>3, <1>5
  <2>2. \A q, s \in AdmReqs : (q # s /\ Pending(adm'[q]) /\ Pending(adm'[s])) => adm'[q].serial # adm'[s].serial
    BY <1>2, <1>5 DEF RequestsInv
  <2>3. QED
    BY <1>6, <2>1, <2>2 DEF RequestsInv, ReqInv, Pending
<1>8. QED
  BY <1>4, <1>7 DEF AccessInv

(* The issue of an id alone keeps the two maps in step.                      *)
LEMMA StoreFrame ==
  ASSUME StoreInv, UNCHANGED <<users, nameIndex>>, admCount' \in {admCount, admCount + 1}
  PROVE  StoreInv'
<1>1. DOMAIN users \subseteq 1 .. admCount' + 1 /\ admCount' \in Nat
  BY DEF StoreInv
<1>2. QED
  BY <1>1 DEF StoreInv

(* Every handler keeps the invariant.                                        *)
LEMMA HandleKeeps == ASSUME AccessInv, NEW r \in AdmReqs, Handle(r) PROVE AccessInv'
<1>1. admCount' = admCount /\ AdmAt(r, "handle")
  BY DEF Handle
<1>2. ASSUME UNCHANGED <<users, nameIndex>>, NEW ok, Answer(r, ok) PROVE AccessInv'
  BY <1>1, <1>2, StoreFrame, AnswerKeeps DEF AccessInv
<1>3. CASE Login(r)
  BY <1>2, <1>3 DEF Login
<1>4. CASE RevokeKey(r)
  BY <1>2, <1>4 DEF RevokeKey
<1>5. CASE Answer(r, adm[r].op = "view") /\ UNCHANGED storeVars
  BY <1>2, <1>5 DEF storeVars
<1>6. CASE CreateKey(r)
  <2> DEFINE q == [adm[r] EXCEPT !.at = "insert"]
  <2>1. ReqInv(adm[r], admCount, DOMAIN users) /\ DOMAIN adm[r] = AdmFields
    BY DEF AccessInv, RequestsInv, ReqInv
  <2>2. DOMAIN q = AdmFields /\ q.at = "insert" /\ q.user = adm[r].user /\ q.role = adm[r].role /\ q.seen = adm[r].seen
    BY <2>1, Answered
  <2>3. adm' = [adm EXCEPT ![r] = q] /\ users' = users /\ nameIndex' = nameIndex
    BY <1>6 DEF AdmStep, CreateKey, storeVars
  <2> HIDE DEF q
  <2>4. ReqInv(q, admCount, DOMAIN users') /\ ~Pending(q)
    BY <2>1, <2>2, <2>3 DEF ReqInv, Pending
  <2>5. RequestsInv'
    BY <1>1, <2>3, <2>4, RequestMoves DEF AccessInv
  <2>6. QED
    BY <1>1, <2>3, <2>5, StoreFrame DEF AccessInv
<1>7. \/ Login(r) \/ CreateUser(r) \/ DeleteUser(r) \/ SetRole(r) \/ CreateKey(r) \/ RevokeKey(r)
      \/ (Answer(r, adm[r].op = "view") /\ UNCHANGED storeVars)
  BY DEF Handle, Handled
<1>8. QED
  BY <1>1, <1>3, <1>4, <1>5, <1>6, <1>7, CreateKeeps, DeleteUserKeeps, SetRoleKeeps

(* For any users, names and number of concurrent requests: the user map and the
   name index agree, and a request acts with a role its user held while it ran. *)
THEOREM AccessInvHolds == AdmSpec => []AccessInv
<1>1. AdmInit => AccessInv
  <2> SUFFICES ASSUME AdmInit PROVE AccessInv
    OBVIOUS
  <2>1. StoreInv
    BY DEF AdmInit, StoreInv
  <2>2. DOMAIN IdleAdm = AdmFields /\ IdleAdm.user = 0 /\ IdleAdm.at = "idle"
    BY DEF IdleAdm, AdmFields
  <2>3. RequestsInv
    BY <2>2 DEF AdmInit, RequestsInv, ReqInv, Pending
  <2>4. QED
    BY <2>1, <2>3 DEF AccessInv
<1>2. AccessInv /\ [AdmNext]_admVars => AccessInv'
  <2> SUFFICES ASSUME AccessInv, [AdmNext]_admVars PROVE AccessInv'
    OBVIOUS
  <2>1. ASSUME NEW r \in AdmReqs, AdmArrives(r) PROVE AccessInv'
    <3>1. UNCHANGED <<users, nameIndex>> /\ admCount' = admCount + 1
      BY <2>1 DEF AdmArrives, storeVars
    <3>2. QED
      BY <2>1, <3>1, StoreFrame, ArriveKeeps DEF AccessInv
  <2>2. ASSUME NEW r \in AdmReqs, RateCheck(r) PROVE AccessInv'
    <3>1. UNCHANGED <<users, nameIndex>> /\ admCount' = admCount
      BY <2>2 DEF RateCheck, storeVars
    <3>2. QED
      BY <2>2, <3>1, StoreFrame, CheckPasses DEF AccessInv
  <2>3. ASSUME NEW r \in AdmReqs, AuthMiddleware(r) PROVE AccessInv'
    <3>1. UNCHANGED <<users, nameIndex>> /\ admCount' = admCount
      BY <2>3 DEF AuthMiddleware, storeVars
    <3>2. QED
      BY <2>3, <3>1, StoreFrame, AuthKeeps DEF AccessInv
  <2>4. ASSUME NEW r \in AdmReqs, InsertKey(r) PROVE AccessInv'
    <3>1. UNCHANGED <<users, nameIndex>> /\ admCount' = admCount /\ Answer(r, TRUE)
      BY <2>4 DEF InsertKey
    <3>2. QED
      BY <3>1, StoreFrame, AnswerKeeps DEF AccessInv
  <2>5. ASSUME NEW r \in AdmReqs, LogEvent(r) PROVE AccessInv'
    <3>1. UNCHANGED <<users, nameIndex>> /\ admCount' = admCount /\ adm' = [adm EXCEPT ![r] = IdleAdm]
      BY <2>5 DEF LogEvent, storeVars, AdmStep
    <3>2. DOMAIN IdleAdm = AdmFields /\ IdleAdm.user = 0 /\ IdleAdm.at = "idle"
      BY DEF IdleAdm, AdmFields
    <3>3. ReqInv(IdleAdm, admCount, DOMAIN users') /\ ~Pending(IdleAdm)
      BY <3>2 DEF ReqInv, Pending
    <3>4. QED
      BY <3>1, <3>3, StoreFrame, RequestMoves DEF AccessInv
  <2>6. CASE UNCHANGED <<users, nameIndex, adm, admCount>>
    <3>1. StoreInv'
      BY <2>6, StoreFrame DEF AccessInv
    <3>2. RequestsInv'
      BY <2>6 DEF AccessInv, RequestsInv, ReqInv, Pending
    <3>3. QED
      BY <3>1, <3>2 DEF AccessInv
  <2>7. (AdmTick \/ UNCHANGED admVars) => UNCHANGED <<users, nameIndex, adm, admCount>>
    BY DEF AdmTick, storeVars, admVars
  <2>8. QED
    BY <2>1, <2>2, <2>3, <2>4, <2>5, <2>6, <2>7, HandleKeeps DEF AdmNext
<1>3. QED
  BY <1>1, <1>2, PTL DEF AdmSpec

(* Whatever requests run side by side, users are created, deleted and given
   other roles between the steps of a request: it acts with a role its user
   has had since it was admitted, and the maps of the user store agree.     *)
THEOREM AccessIsCurrent == AdmSpec => []AccessCurrent
<1>1. AccessInv => AccessCurrent
  BY DEF AccessInv, StoreInv, RequestsInv, ReqInv, AccessCurrent
<1>2. QED
  BY <1>1, AccessInvHolds, PTL

-----------------------------------------------------------------------------
(* FlowFiles.  What may stand in the flows file or in a version of it.      *)
Handwritten(nodes) == DOMAIN nodes \subseteq FlowIds /\ \A i \in DOMAIN nodes : nodes[i] \in {"none", "hand"}

FilesInv ==
  /\ flowFile.ok \in BOOLEAN
  /\ Handwritten(flowFile.nodes) /\ (~flowFile.ok => DOMAIN flowFile.nodes = {})
  /\ DOMAIN versions = {"index", "snap"}
  /\ \A v \in DOMAIN versions.snap : Handwritten(versions.snap[v])

ReqFields == {"op", "at", "flows", "id", "cur", "index", "creds", "sent", "before", "lone"}
Fresh   == {"version", "snapshot", "prune", "index", "load", "fetch"}
Decided == {"save", "truncate", "write", "engine", "restart"}

(* A request by itself: what was sent is what it is going to extract, and what
   it is going to write has no credentials.                                 *)
HandlerInv(r) ==
  /\ DOMAIN r = ReqFields
  /\ r.at \in Fresh \cup Decided \cup {"idle", "extract"} /\ r.lone \in BOOLEAN
  /\ Handwritten(r.cur) /\ DOMAIN r.sent \subseteq FlowIds
  /\ r.op = "delete" => DOMAIN r.sent = {} /\ r.at # "fetch"
  /\ r.at \in Fresh /\ r.op \notin {"add", "put", "delete"} => r.flows = r.sent
  /\ r.at = "extract" => \A i \in DOMAIN r.sent : i \in DOMAIN r.flows /\ r.flows[i] = r.sent[i]
  /\ r.at \in Decided => \A i \in DOMAIN r.flows : r.flows[i] = "none"
  /\ r.at \notin {"idle"} => DOMAIN r.flows \subseteq FlowIds

(* The credentials a request has decided on.                                *)
Honours(r) ==
  \A i \in DOMAIN r.sent :
    /\ r.sent[i] \in {"none", "keep"} => r.creds[i] = r.before[i]
    /\ r.sent[i] = "clear" => r.creds[i] = "none"
    /\ r.sent[i] \in {"new", "hand"} => r.creds[i] = r.sent[i]

(* A request that is the only one, from step to step: until it saves, both files
   are as it found them; from then on what it saved is what it decided on, and
   the flows file gives no node other credentials than before.              *)
LoneInv(r) ==
  /\ r.at \in Fresh \cup {"extract", "save"} => \A i \in FlowIds : Effective(i) = r.before[i]
  /\ r.at = "extract" => \A i \in FlowIds : Inline(i) = IF i \in DOMAIN r.cur THEN r.cur[i] ELSE "none"
  /\ r.at \in Decided => Honours(r)
  /\ r.at = "truncate" => \A i \in FlowIds : Inline(i) = "hand" => r.before[i] = "hand"
  /\ r.at \in Decided \ {"save"} => \A i \in FlowIds : credFile.creds[i] = r.creds[i]
  /\ r.at = "write" => ~flowFile.ok
  /\ r.at \in {"engine", "restart"} => flowFile.nodes = r.flows

Alone(h) == flowReq[h].at # "idle" /\ flowReq[h].lone

FlowInv ==
  /\ FilesInv
  /\ DOMAIN flowReq = FlowHandlers
  /\ \A h \in FlowHandlers : HandlerInv(flowReq[h])
  /\ \A h \in FlowHandlers : Alone(h) => LoneInv(flowReq[h]) /\ \A g \in FlowHandlers \ {h} : flowReq[g].at = "idle"

(* No files change under a request that is the only one, but by itself.     *)
LEMMA HandlerMoves ==
  ASSUME FlowInv, NEW h \in FlowHandlers, flowReq[h].at # "idle", FilesInv', DOMAIN flowReq' = FlowHandlers,
         \A g \in FlowHandlers \ {h} : flowReq'[g] = flowReq[g],
         HandlerInv(flowReq'[h]), Alone(h)' => Alone(h) /\ LoneInv(flowReq[h])'
  PROVE  FlowInv'
<1>1. \A g \in FlowHandlers : HandlerInv(flowReq'[g])
  BY DEF FlowInv
<1>2. ASSUME NEW g \in FlowHandlers, Alone(g)'
      PROVE  LoneInv(flowReq[g])' /\ \A j \in FlowHandlers \ {g} : flowReq'[j].at = "idle"
  <2>1. CASE g = h
    BY <1>2, <2>1 DEF FlowInv
  <2>2. CASE g # h
    BY <1>2, <2>2 DEF FlowInv, Alone
  <2>3. QED
    BY <2>1, <2>2
<1>3. QED
  BY <1>1, <1>2 DEF FlowInv, HandlerInv, Handwritten

(* The request of h gets another record.                                    *)
LEMMA Stepped ==
  ASSUME FlowInv, NEW h \in FlowHandlers, NEW q, Step(h, q)
  PROVE  /\ DOMAIN flowReq' = FlowHandlers /\ flowReq'[h] = q
         /\ \A g \in FlowHandlers \ {h} : flowReq'[g] = flowReq[g]
BY DEF FlowInv, Step

(* The request of h goes on to another place in the handler.                *)
LEMMA Moved ==
  ASSUME FlowInv, NEW h \in FlowHandlers, NEW at, Move(h, at)
  PROVE  /\ DOMAIN flowReq' = FlowHandlers /\ \A g \in FlowHandlers \ {h} : flowReq'[g] = flowReq[g]
         /\ DOMAIN flowReq'[h] = ReqFields /\ flowReq'[h].at = at
         /\ flowReq'[h].op = flowReq[h].op /\ flowReq'[h].flows = flowReq[h].flows
         /\ flowReq'[h].cur = flowReq[h].cur /\ flowReq'[h].creds = flowReq[h].creds
         /\ flowReq'[h].sent = flowReq[h].sent /\ flowReq'[h].before = flowReq[h].before
         /\ flowReq'[h].lone = flowReq[h].lone
<1>1. DOMAIN flowReq[h] = ReqFields
  BY DEF FlowInv, HandlerInv
<1>2. flowReq'[h] = [flowReq[h] EXCEPT !.at = at]
  BY DEF Move, Step, FlowInv
<1>3. QED
  BY <1>1, <1>2 DEF Move, Step, FlowInv, ReqFields

(* A request without a task is as good as any.                              *)
LEMMA IdleIsFine == HandlerInv(IdleReq) /\ IdleReq.at = "idle"
<1>1. Handwritten(NoFlows) /\ DOMAIN NoFlows = {}
  BY DEF Handwritten, NoFlows
<1>2. DOMAIN IdleReq = ReqFields /\ IdleReq.at = "idle" /\ IdleReq.lone = TRUE /\ IdleReq.cur = NoFlows
      /\ IdleReq.sent = NoFlows /\ IdleReq.op = "none" /\ IdleReq.flows = NoFlows
  BY DEF IdleReq, ReqFields
<1>3. QED
  BY <1>1, <1>2 DEF HandlerInv, Fresh, Decided

(* A handler that answers leaves the files as they are then.                *)
LEMMA Finished ==
  ASSUME FlowInv, NEW h \in FlowHandlers, flowReq[h].at # "idle", FilesInv', Finish(h)
  PROVE  FlowInv'
<1>1. /\ DOMAIN flowReq' = FlowHandlers /\ flowReq'[h] = IdleReq
      /\ \A g \in FlowHandlers \ {h} : flowReq'[g] = flowReq[g]
  BY Stepped DEF Finish
<1>2. HandlerInv(flowReq'[h]) /\ ~Alone(h)'
  BY <1>1, IdleIsFine DEF Alone
<1>3. QED
  BY <1>1, <1>2, HandlerMoves

(* Nothing happens to the files: what they say stays the same.              *)
LEMMA FilesFrame ==
  ASSUME FilesInv, UNCHANGED <<flowFile, versions>> PROVE FilesInv'
BY DEF FilesInv, Handwritten

(* A request arrives.  It is the only one exactly when all others are idle. *)
LEMMA BeginKeeps ==
  ASSUME FlowInv, NEW h \in FlowHandlers, NEW op, NEW sent, NEW i, Begin2(h, op, sent, i), DOMAIN sent \subseteq FlowIds,
         op = "delete" => DOMAIN sent = {}
  PROVE  FlowInv'
<1> DEFINE others == {g \in FlowHandlers \ {h} : ~At2(g, "idle")}
           first == CASE op = "deploy" -> "version" [] op = "rollback" -> "fetch" [] OTHER -> "load"
           before == [n \in FlowIds |-> Effective(n)]
           q == [IdleReq EXCEPT !.op = op, !.at = first, !.flows = sent, !.id = i, !.sent = sent,
                                !.before = before, !.lone = others = {}]
<1>1. /\ UNCHANGED <<flowFile, credFile, versions>>
      /\ flowReq' = [g \in FlowHandlers |-> CASE g = h -> q
                                              [] g \in others -> [flowReq[g] EXCEPT !.lone = FALSE]
                                              [] OTHER -> flowReq[g]]
  BY DEF Begin2
<1>2. first \in Fresh /\ (op = "delete" => first = "load")
  BY DEF Fresh
<1>3. Handwritten(NoFlows)
  BY DEF Handwritten, NoFlows
<1>4. /\ DOMAIN q = ReqFields /\ q.op = op /\ q.at = first /\ q.flows = sent /\ q.sent = sent /\ q.cur = NoFlows
      /\ q.before = before /\ q.lone = (others = {})
  BY DEF IdleReq, ReqFields
<1>5. /\ DOMAIN flowReq' = FlowHandlers /\ flowReq'[h] = q
      /\ \A g \in others : flowReq'[g] = [flowReq[g] EXCEPT !.lone = FALSE]
      /\ \A g \in FlowHandlers \ (others \cup {h}) : flowReq'[g] = flowReq[g] /\ flowReq[g].at = "idle"
  BY <1>1 DEF At2
<1> HIDE DEF q, first
<1>6. HandlerInv(q)
  BY <1>2, <1>3, <1>4 DEF HandlerInv, Fresh, Decided
<1>7. ASSUME NEW g \in others PROVE HandlerInv(flowReq'[g]) /\ flowReq'[g].lone = FALSE
  <2>1. HandlerInv(flowReq[g]) /\ DOMAIN flowReq[g] = ReqFields
    BY DEF FlowInv, HandlerInv
  <2>2. flowReq'[g] = [flowReq[g] EXCEPT !.lone = FALSE]
    BY <1>5
  <2>3. /\ DOMAIN flowReq'[g] = ReqFields /\ flowReq'[g].lone = FALSE /\ flowReq'[g].op = flowReq[g].op
        /\ flowReq'[g].at = flowReq[g].at /\ flowReq'[g].flows = flowReq[g].flows
        /\ flowReq'[g].cur = flowReq[g].cur /\ flowReq'[g].sent = flowReq[g].sent
    BY <2>1, <2>2 DEF ReqFields
  <2>4. QED
    BY <2>1, <2>3 DEF HandlerInv
<1>8. \A g \in FlowHandlers : HandlerInv(flowReq'[g])
  <2>1. ASSUME NEW g \in FlowHandlers \ (others \cup {h}) PROVE HandlerInv(flowReq'[g])
    BY <1>5 DEF FlowInv
  <2>2. QED
    BY <1>5, <1>6, <1>7, <2>1
<1>9. \A g \in FlowHandlers \ {h} : ~Alone(g)'
  BY <1>5, <1>7 DEF Alone
<1>10. ASSUME Alone(h)'
       PROVE  LoneInv(flowReq[h])' /\ \A g \in FlowHandlers \ {h} : flowReq'[g].at = "idle"
  <2>1. others = {}
    BY <1>4, <1>5, <1>10 DEF Alone
  <2>2. \A n \in FlowIds : Effective(n)' = before[n]
    BY <1>1 DEF Effective, Inline
  <2>3. flowReq'[h].at \in Fresh /\ flowReq'[h].before = before
    BY <1>2, <1>4, <1>5
  <2> HIDE DEF before
  <2>4. LoneInv(flowReq[h])'
    BY <2>2, <2>3 DEF LoneInv, Fresh, Decided
  <2>5. QED
    BY <1>5, <2>1, <2>4
<1>11. FilesInv'
  BY <1>1, FilesFrame DEF FlowInv
<1>12. QED
  BY <1>5, <1>8, <1>9, <1>10, <1>11 DEF FlowInv, HandlerInv, Handwritten

(* Whatever the editor asks for.                                            *)
LEMMA ArrivesKeeps == ASSUME FlowInv, NEW h \in FlowHandlers, Arrives(h) PROVE FlowInv'
<1>1. ASSUME NEW sent \in FlowSets(SentCreds), Begin2(h, "deploy", sent, "none") PROVE FlowInv'
  <2>1. DOMAIN sent \subseteq FlowIds
    BY DEF FlowSets
  <2>2. QED
    BY <1>1, <2>1, BeginKeeps
<1>2. ASSUME NEW i \in FlowIds, NEW c \in SentCreds, Begin2(h, "add", [n \in {i} |-> c], i) PROVE FlowInv'
  <2>1. DOMAIN [n \in {i} |-> c] \subseteq FlowIds
    OBVIOUS
  <2>2. QED
    BY <1>2, <2>1, BeginKeeps
<1>3. ASSUME NEW i \in FlowIds, NEW c \in SentCreds, Begin2(h, "put", [n \in {i} |-> c], i) PROVE FlowInv'
  <2>1. DOMAIN [n \in {i} |-> c] \subseteq FlowIds
    OBVIOUS
  <2>2. QED
    BY <1>3, <2>1, BeginKeeps
<1>4. ASSUME NEW i \in FlowIds, Begin2(h, "delete", NoFlows, i) PROVE FlowInv'
  <2>1. DOMAIN NoFlows = {}
    BY DEF NoFlows
  <2>2. QED
    BY <1>4, <2>1, BeginKeeps
<1>5. CASE Begin2(h, "rollback", NoFlows, "none")
  <2>1. DOMAIN NoFlows = {}
    BY DEF NoFlows
  <2>2. QED
    BY <1>5, <2>1, BeginKeeps
<1>6. QED
  BY <1>1, <1>2, <1>3, <1>4, <1>5 DEF Arrives

(* A request that has not come to the credentials yet goes on, and its record
   keeps what it is judged by.                                              *)
LEMMA StillFresh ==
  ASSUME FlowInv, NEW h \in FlowHandlers, flowReq[h].at \in Fresh, FilesInv', UNCHANGED <<flowFile, credFile>>,
         DOMAIN flowReq' = FlowHandlers, \A g \in FlowHandlers \ {h} : flowReq'[g] = flowReq[g],
         HandlerInv(flowReq'[h]), flowReq'[h].at \in Fresh,
         flowReq'[h].before = flowReq[h].before, flowReq'[h].lone = flowReq[h].lone
  PROVE  FlowInv'
<1>1. flowReq[h].at # "idle"
  BY DEF Fresh
<1>2. ASSUME Alone(h)' PROVE Alone(h) /\ LoneInv(flowReq[h])'
  <2>1. Alone(h) /\ LoneInv(flowReq[h])
    BY <1>1, <1>2 DEF Alone, FlowInv
  <2>2. \A i \in FlowIds : Effective(i)' = Effective(i)
    BY DEF Effective, Inline
  <2>3. QED
    BY <2>1, <2>2 DEF LoneInv, Fresh, Decided
<1>3. QED
  BY <1>1, <1>2, HandlerMoves

(* save_version: only what stood in the flows file enters a version.        *)
LEMMA VersionKeeps == ASSUME FlowInv, NEW h \in FlowHandlers, SaveVersion(h) PROVE FlowInv'
<1> DEFINE r == flowReq[h]
           v == NextId(r.index)
           kept == Pruned(Append(r.index, v))
<1>1. UNCHANGED <<flowFile, credFile>> /\ HandlerInv(r) /\ FilesInv
  BY DEF SaveVersion, FlowInv
<1>2. CASE /\ At2(h, "version") /\ UNCHANGED versions
           /\ Step(h, [r EXCEPT !.at = "snapshot", !.cur = flowFile.nodes, !.index = versions.index])
  <2> DEFINE q == [r EXCEPT !.at = "snapshot", !.cur = flowFile.nodes, !.index = versions.index]
  <2>1. /\ DOMAIN flowReq' = FlowHandlers /\ flowReq'[h] = q
        /\ \A g \in FlowHandlers \ {h} : flowReq'[g] = flowReq[g]
    BY <1>2, Stepped
  <2>2. /\ DOMAIN q = ReqFields /\ q.at = "snapshot" /\ q.cur = flowFile.nodes /\ q.op = r.op /\ q.flows = r.flows
        /\ q.sent = r.sent /\ q.before = r.before /\ q.lone = r.lone
    BY <1>1 DEF HandlerInv, ReqFields
  <2> HIDE DEF q
  <2>3. HandlerInv(q) /\ r.at \in Fresh /\ q.at \in Fresh
    BY <1>1, <1>2, <2>2 DEF HandlerInv, FilesInv, Fresh, Decided, At2
  <2>4. QED
    BY <1>1, <1>2, <2>1, <2>2, <2>3, StillFresh, FilesFrame
<1>3. ASSUME NEW at \in Fresh \ {"fetch"}, Move(h, at), r.at \in Fresh, FilesInv' PROVE FlowInv'
  <2>1. HandlerInv(flowReq'[h])
    BY <1>1, <1>3, Moved DEF HandlerInv, Fresh, Decided
  <2>2. QED
    BY <1>1, <1>3, <2>1, Moved, StillFresh
<1>4. CASE At2(h, "version") /\ Move(h, "load") /\ UNCHANGED versions
  BY <1>1, <1>3, <1>4, FilesFrame DEF At2, Fresh
<1>5. CASE At2(h, "snapshot") /\ Move(h, "load") /\ UNCHANGED versions
  BY <1>1, <1>3, <1>5, FilesFrame DEF At2, Fresh
<1>6. CASE At2(h, "snapshot") /\ versions' = [versions EXCEPT !.snap = Over([w \in {v} |-> r.cur], @)] /\ Move(h, "prune")
  <2>1. /\ DOMAIN versions' = {"index", "snap"} /\ versions'.snap = Over([w \in {v} |-> r.cur], versions.snap)
    BY <1>1, <1>6 DEF FilesInv
  <2>2. \A w \in DOMAIN versions'.snap : versions'.snap[w] = r.cur \/ (w \in DOMAIN versions.snap /\ versions'.snap[w] = versions.snap[w])
    BY <2>1 DEF Over
  <2>3. FilesInv'
    BY <1>1, <2>1, <2>2 DEF FilesInv, HandlerInv, Handwritten
  <2>4. QED
    BY <1>3, <1>6, <2>3 DEF At2, Fresh
<1>7. CASE /\ At2(h, "prune") /\ Move(h, "index")
           /\ versions' = [versions EXCEPT !.snap = Without(@, (ToSet(r.index) \cup {v}) \ ToSet(kept))]
  <2>1. /\ DOMAIN versions' = {"index", "snap"}
        /\ versions'.snap = Without(versions.snap, (ToSet(r.index) \cup {v}) \ ToSet(kept))
    BY <1>1, <1>7 DEF FilesInv
  <2>2. \A w \in DOMAIN versions'.snap : w \in DOMAIN versions.snap /\ versions'.snap[w] = versions.snap[w]
    BY <2>1 DEF Without
  <2>3. FilesInv'
    BY <1>1, <2>1, <2>2 DEF FilesInv, Handwritten
  <2>4. QED
    BY <1>3, <1>7, <2>3 DEF At2, Fresh
<1>8. CASE At2(h, "index") /\ versions' = [versions EXCEPT !.index = kept] /\ Move(h, "load")
  <2>1. DOMAIN versions' = {"index", "snap"} /\ versions'.snap = versions.snap
    BY <1>1, <1>8 DEF FilesInv
  <2>2. FilesInv'
    BY <1>1, <2>1 DEF FilesInv, Handwritten
  <2>3. QED
    BY <1>3, <1>8, <2>2 DEF At2, Fresh
<1>9. QED
  BY <1>2, <1>4, <1>5, <1>6, <1>7, <1>8 DEF SaveVersion

(* rollback: what a version holds counts as sent.                           *)
LEMMA FetchKeeps == ASSUME FlowInv, NEW h \in FlowHandlers, Fetch(h) PROVE FlowInv'
<1>1. UNCHANGED <<flowFile, credFile, versions>> /\ HandlerInv(flowReq[h]) /\ FilesInv /\ flowReq[h].at = "fetch" /\ FilesInv'
  BY FilesFrame DEF Fetch, FlowInv, At2
<1>2. CASE Finish(h)
  BY <1>1, <1>2, Finished
<1>3. ASSUME NEW v \in DOMAIN versions.snap,
             Step(h, [flowReq[h] EXCEPT !.at = "load", !.flows = versions.snap[v], !.sent = versions.snap[v]])
      PROVE  FlowInv'
  <2> DEFINE r == flowReq[h]
             s == versions.snap[v]
             q == [r EXCEPT !.at = "load", !.flows = s, !.sent = s]
  <2>1. /\ DOMAIN flowReq' = FlowHandlers /\ flowReq'[h] = q
        /\ \A g \in FlowHandlers \ {h} : flowReq'[g] = flowReq[g]
    BY <1>3, Stepped
  <2>2. /\ DOMAIN q = ReqFields /\ q.at = "load" /\ q.cur = r.cur /\ q.op = r.op /\ q.flows = s
        /\ q.sent = s /\ q.before = r.before /\ q.lone = r.lone
    BY <1>1 DEF HandlerInv, ReqFields
  <2>3. Handwritten(s)
    BY <1>1 DEF FilesInv
  <2> HIDE DEF q, s
  <2>4. r.op # "delete"
    BY <1>1 DEF HandlerInv
  <2>5. HandlerInv(q) /\ q.at \in Fresh /\ r.at \in Fresh
    BY <1>1, <2>2, <2>3, <2>4 DEF HandlerInv, Handwritten, Fresh, Decided
  <2>6. QED
    BY <1>1, <2>1, <2>2, <2>5, StillFresh
<1>4. QED
  BY <1>2, <1>3 DEF Fetch

(* The flows file is read: the flows a request goes on with have, for every node
   that was sent, what was sent.                                            *)
LEMMA EditKeeps == ASSUME FlowInv, NEW h \in FlowHandlers, LoadFlows(h) PROVE FlowInv'
<1> DEFINE r == flowReq[h]
           cur == IF flowFile.ok THEN flowFile.nodes ELSE NoFlows
           flows == Edited(r, cur)
           q == [r EXCEPT !.at = "extract", !.cur = cur, !.flows = flows]
<1>1. /\ UNCHANGED <<flowFile, credFile, versions>> /\ HandlerInv(r) /\ FilesInv /\ r.at = "load" /\ FilesInv'
      /\ Finish(h) \/ Step(h, q)
  BY FilesFrame DEF LoadFlows, FlowInv, At2
<1>2. CASE Finish(h)
  BY <1>1, <1>2, Finished
<1>3. CASE Step(h, q)
  <2>1. /\ DOMAIN flowReq' = FlowHandlers /\ flowReq'[h] = q
        /\ \A g \in FlowHandlers \ {h} : flowReq'[g] = flowReq[g]
    BY <1>3, Stepped
  <2>2. /\ DOMAIN q = ReqFields /\ q.at = "extract" /\ q.cur = cur /\ q.op = r.op /\ q.flows = flows
        /\ q.sent = r.sent /\ q.before = r.before /\ q.lone = r.lone
    BY <1>1 DEF HandlerInv, ReqFields
  <2>3. Handwritten(cur) /\ \A i \in FlowIds : Inline(i) = IF i \in DOMAIN cur THEN cur[i] ELSE "none"
    BY <1>1 DEF FilesInv, Handwritten, NoFlows, Inline
  <2> HIDE DEF q, cur
  <2>4. /\ DOMAIN flows \subseteq FlowIds
        /\ \A i \in DOMAIN r.sent : i \in DOMAIN flows /\ flows[i] = r.sent[i]
    <3>1. CASE r.op \in {"add", "put"}
      <4>1. flows = Over(r.sent, cur)
        BY <3>1 DEF Edited
      <4>2. QED
        BY <1>1, <2>3, <4>1 DEF Over, HandlerInv, Handwritten
    <3>2. CASE r.op = "delete"
      <4>1. flows = Without(cur, {r.id}) /\ DOMAIN r.sent = {}
        BY <1>1, <3>2 DEF Edited, HandlerInv
      <4>2. QED
        BY <2>3, <4>1 DEF Without, Handwritten
    <3>3. CASE r.op \notin {"add", "put", "delete"}
      <4>1. flows = r.flows
        BY <3>3 DEF Edited
      <4>2. r.flows = r.sent /\ DOMAIN r.sent \subseteq FlowIds
        BY <1>1, <3>3 DEF HandlerInv, Fresh
      <4>3. QED
        BY <4>1, <4>2
    <3>4. QED
      BY <3>1, <3>2, <3>3
  <2> HIDE DEF flows
  <2>5. HandlerInv(q)
    BY <1>1, <2>2, <2>3, <2>4 DEF HandlerInv, Fresh, Decided
  <2>6. ASSUME Alone(h)' PROVE Alone(h) /\ LoneInv(flowReq[h])'
    <3>1. Alone(h) /\ LoneInv(r)
      BY <1>1, <2>1, <2>2, <2>6 DEF Alone, FlowInv
    <3>2. \A i \in FlowIds : Effective(i)' = Effective(i) /\ Inline(i)' = Inline(i)
      BY <1>1 DEF Effective, Inline
    <3>3. \A i \in FlowIds : Effective(i)' = q.before[i]
      BY <1>1, <2>2, <3>1, <3>2 DEF LoneInv, Fresh
    <3>4. QED
      BY <2>1, <2>2, <2>3, <3>1, <3>2, <3>3 DEF LoneInv, Fresh, Decided
  <2>7. QED
    BY <1>1, <2>1, <2>5, <2>6, HandlerMoves
<1>4. QED
  BY <1>1, <1>2, <1>3

(* extract_for_deploy: the credentials a lone request decides on are those the
   node had, where the editor left them alone.                              *)
LEMMA ExtractKeeps == ASSUME FlowInv, NEW h \in FlowHandlers, LoadCreds(h) PROVE FlowInv'
<1> DEFINE r == flowReq[h]
           new == Extract(r.flows, r.cur)
           at == IF new = credFile.creds THEN "truncate" ELSE "save"
           bare == [i \in DOMAIN r.flows |-> "none"]
           q == [r EXCEPT !.at = at, !.creds = new, !.flows = [i \in DOMAIN @ |-> "none"]]
<1>1. /\ UNCHANGED <<flowFile, credFile, versions>> /\ HandlerInv(r) /\ FilesInv /\ r.at = "extract" /\ FilesInv'
      /\ Finish(h) \/ Step(h, q)
  BY FilesFrame DEF LoadCreds, FlowInv, At2
<1>2. CASE Finish(h)
  BY <1>1, <1>2, Finished
<1>3. CASE Step(h, q)
  <2>1. /\ DOMAIN flowReq' = FlowHandlers /\ flowReq'[h] = q
        /\ \A g \in FlowHandlers \ {h} : flowReq'[g] = flowReq[g]
    BY <1>3, Stepped
  <2>2. /\ DOMAIN q = ReqFields /\ q.at = at /\ q.cur = r.cur /\ q.op = r.op /\ q.flows = bare /\ q.creds = new
        /\ q.sent = r.sent /\ q.before = r.before /\ q.lone = r.lone
    BY <1>1 DEF HandlerInv, ReqFields
  <2>3. DOMAIN bare = DOMAIN r.flows /\ \A i \in DOMAIN bare : bare[i] = "none"
    OBVIOUS
  <2>4. at \in {"truncate", "save"} /\ (at = "truncate" => new = credFile.creds)
    OBVIOUS
  <2> HIDE DEF q, bare, at
  <2>5. HandlerInv(q)
    BY <1>1, <2>2, <2>3, <2>4 DEF HandlerInv, Fresh, Decided
  <2>6. ASSUME Alone(h)' PROVE Alone(h) /\ LoneInv(flowReq[h])'
    <3>1. Alone(h) /\ LoneInv(r)
      BY <1>1, <2>1, <2>2, <2>6 DEF Alone, FlowInv
    <3>2. \A i \in FlowIds : Effective(i)' = Effective(i) /\ Inline(i)' = Inline(i)
      BY <1>1 DEF Effective, Inline
    <3>3. \A i \in FlowIds : Effective(i) = r.before[i] /\ Inline(i) = IF i \in DOMAIN r.cur THEN r.cur[i] ELSE "none"
      BY <1>1, <3>1 DEF LoneInv
    <3>4. \A i \in DOMAIN r.sent : i \in FlowIds /\ i \in DOMAIN r.flows /\ r.flows[i] = r.sent[i]
      BY <1>1 DEF HandlerInv
    <3>5. \A i \in FlowIds : Stored(r.cur, i) = r.before[i]
      BY <3>3 DEF Stored, Effective
    <3>6. Honours(q)
      BY <2>2, <3>4, <3>5 DEF Honours, Extract
    <3>7. \A i \in FlowIds : Inline(i) = "hand" => r.before[i] = "hand"
      BY <3>3 DEF Effective, Overlay
    <3>8. QED
      BY <1>1, <2>1, <2>2, <2>4, <3>1, <3>2, <3>3, <3>6, <3>7 DEF LoneInv, Fresh, Decided
  <2>7. QED
    BY <1>1, <2>1, <2>5, <2>6, HandlerMoves
<1>4. QED
  BY <1>1, <1>2, <1>3

(* The credentials file is replaced, with the flows file still as it was: what is
   written by hand there wins in both.                                      *)
LEMMA SaveKeeps == ASSUME FlowInv, NEW h \in FlowHandlers, SaveCreds(h) PROVE FlowInv'
<1> DEFINE r == flowReq[h]
<1>1. UNCHANGED <<flowFile, versions>> /\ HandlerInv(r) /\ FilesInv /\ r.at = "save" /\ FilesInv'
  BY FilesFrame DEF SaveCreds, FlowInv, At2
<1>2. CASE Finish(h)
  BY <1>1, <1>2, Finished
<1>3. CASE credFile' = [key |-> SaveKey, creds |-> r.creds] /\ Move(h, "truncate")
  <2>1. credFile'.creds = r.creds
    BY <1>3
  <2>2. HandlerInv(flowReq'[h])
    BY <1>1, <1>3, Moved DEF HandlerInv, Fresh, Decided
  <2>3. ASSUME Alone(h)' PROVE Alone(h) /\ LoneInv(flowReq[h])'
    <3>1. Alone(h) /\ LoneInv(r)
      BY <1>1, <1>3, <2>3, Moved DEF Alone, FlowInv
    <3>2. Honours(r) /\ \A i \in FlowIds : Effective(i) = r.before[i]
      BY <1>1, <3>1 DEF LoneInv, Decided
    <3>3. \A i \in FlowIds : Inline(i)' = Inline(i) /\ (Inline(i) = "hand" => r.before[i] = "hand")
      BY <1>1, <3>2 DEF Effective, Overlay, Inline
    <3>4. Honours(flowReq'[h])
      BY <1>3, <3>2, Moved DEF Honours
    <3>5. QED
      BY <1>3, <2>1, <3>1, <3>3, <3>4, Moved DEF LoneInv, Fresh, Honours
  <2>4. QED
    BY <1>1, <1>3, <2>2, <2>3, Moved, HandlerMoves
<1>4. QED
  BY <1>2, <1>3 DEF SaveCreds

(* The flows file is written, without credentials.                          *)
LEMMA WriteKeeps == ASSUME FlowInv, NEW h \in FlowHandlers, WriteFlows(h) PROVE FlowInv'
<1> DEFINE r == flowReq[h]
<1>1. UNCHANGED <<credFile, versions>> /\ HandlerInv(r) /\ FilesInv
  BY DEF WriteFlows, FlowInv
<1>2. CASE r.at = "truncate" /\ flowFile' = [ok |-> FALSE, nodes |-> NoFlows] /\ Move(h, "write")
  <2>1. flowFile'.ok = FALSE /\ DOMAIN flowFile'.nodes = {} /\ FilesInv'
    BY <1>1, <1>2 DEF FilesInv, NoFlows, Handwritten
  <2>2. HandlerInv(flowReq'[h])
    BY <1>1, <1>2, Moved DEF HandlerInv, Fresh, Decided
  <2>3. ASSUME Alone(h)' PROVE Alone(h) /\ LoneInv(flowReq[h])'
    <3>1. Alone(h) /\ LoneInv(r)
      BY <1>2, <2>3, Moved DEF Alone, FlowInv
    <3>2. Honours(r) /\ \A i \in FlowIds : credFile.creds[i] = r.creds[i]
      BY <1>2, <3>1 DEF LoneInv, Decided
    <3>3. Honours(flowReq'[h])
      BY <1>2, <3>2, Moved DEF Honours
    <3>4. QED
      BY <1>1, <1>2, <2>1, <3>1, <3>2, <3>3, Moved DEF LoneInv, Fresh, Honours
  <2>4. QED
    BY <1>2, <2>1, <2>2, <2>3, Moved, HandlerMoves
<1>3. ASSUME NEW at \in {"engine", "restart"}, r.at = "write", flowFile' = [ok |-> TRUE, nodes |-> r.flows], Move(h, at)
      PROVE  FlowInv'
  <2>1. flowFile'.ok = TRUE /\ flowFile'.nodes = r.flows /\ FilesInv'
    BY <1>1, <1>3 DEF FilesInv, HandlerInv, Handwritten, Decided
  <2>2. HandlerInv(flowReq'[h])
    BY <1>1, <1>3, Moved DEF HandlerInv, Fresh, Decided
  <2>3. ASSUME Alone(h)' PROVE Alone(h) /\ LoneInv(flowReq[h])'
    <3>1. Alone(h) /\ LoneInv(r)
      BY <1>3, <2>3, Moved DEF Alone, FlowInv
    <3>2. Honours(r) /\ \A i \in FlowIds : credFile.creds[i] = r.creds[i]
      BY <1>3, <3>1 DEF LoneInv, Decided
    <3>3. Honours(flowReq'[h])
      BY <1>3, <3>2, Moved DEF Honours
    <3>4. QED
      BY <1>1, <1>3, <2>1, <3>1, <3>2, <3>3, Moved DEF LoneInv, Fresh, Honours
  <2>4. QED
    BY <1>3, <2>1, <2>2, <2>3, Moved, HandlerMoves
<1>4. QED
  BY <1>2, <1>3 DEF WriteFlows, At2

(* Every step of every handler, and a crash, keeps the invariant.           *)
LEMMA FlowStep == ASSUME FlowInv, [FfNext]_ffVars PROVE FlowInv'
<1>1. CASE UNCHANGED <<flowFile, credFile, versions, flowReq>>
  <2>1. FilesInv'
    BY <1>1, FilesFrame DEF FlowInv
  <2>2. \A i \in FlowIds : Effective(i)' = Effective(i) /\ Inline(i)' = Inline(i)
    BY <1>1 DEF Effective, Inline
  <2>3. \A h \in FlowHandlers : Alone(h) => LoneInv(flowReq[h])'
    BY <1>1, <2>2 DEF FlowInv, LoneInv, Honours
  <2>4. QED
    BY <1>1, <2>1, <2>3 DEF FlowInv, HandlerInv, Handwritten, Alone
<1>2. ASSUME NEW h \in FlowHandlers, Deployed(h) PROVE FlowInv'
  <2>1. Finish(h) /\ UNCHANGED <<flowFile, versions>> /\ flowReq[h].at # "idle"
    BY <1>2 DEF Deployed, At2
  <2>2. QED
    BY <2>1, Finished, FilesFrame DEF FlowInv
<1>3. CASE FlowCrash
  <2>1. UNCHANGED <<flowFile, versions>> /\ flowReq' = [h \in FlowHandlers |-> IdleReq]
    BY <1>3 DEF FlowCrash
  <2>2. \A h \in FlowHandlers : flowReq'[h] = IdleReq
    BY <2>1
  <2>3. \A h \in FlowHandlers : HandlerInv(flowReq'[h]) /\ ~Alone(h)'
    BY <2>2, IdleIsFine DEF Alone
  <2>4. FilesInv' /\ DOMAIN flowReq' = FlowHandlers
    BY <2>1, FilesFrame DEF FlowInv
  <2>5. QED
    BY <2>3, <2>4 DEF FlowInv, HandlerInv, Handwritten
<1>4. ASSUME NEW h \in FlowHandlers, Refused2(h) PROVE UNCHANGED <<flowFile, credFile, versions, flowReq>>
  BY <1>4 DEF Refused2
<1>5. CASE UNCHANGED ffVars
  BY <1>1, <1>5 DEF ffVars
<1>6. QED
  BY <1>1, <1>2, <1>3, <1>4, <1>5, ArrivesKeeps, VersionKeeps, FetchKeeps, EditKeeps, ExtractKeeps, SaveKeeps,
     WriteKeeps DEF FfNext

(* For any number of handlers, nodes, secrets and versions, wherever the process
   dies: a lone request keeps the passwords the editor did not touch, at every step
   between the write of the credentials file and that of the flows file, and gives
   the others what was sent; no secret of the editor is in the flows file or in a
   version of it.                                                           *)
THEOREM CredentialsAreKept == FfSpec => []CredentialsSurvive
<1>1. FfInit => FlowInv
  <2> SUFFICES ASSUME FfInit PROVE FlowInv
    OBVIOUS
  <2>1. FilesInv
    BY DEF FfInit, FilesInv, Handwritten
  <2>2. DOMAIN flowReq = FlowHandlers /\ \A h \in FlowHandlers : flowReq[h] = IdleReq
    BY DEF FfInit
  <2>3. QED
    BY <2>1, <2>2, IdleIsFine DEF FlowInv, Alone
<1>2. FlowInv /\ [FfNext]_ffVars => FlowInv'
  BY FlowStep
<1>3. FlowInv => CredentialsSurvive
  <2> SUFFICES ASSUME FlowInv PROVE CredentialsSurvive
    OBVIOUS
  <2>1. ASSUME NEW h \in FlowHandlers, flowReq[h].at # "idle", flowReq[h].lone
        PROVE  /\ flowFile.ok =>
                      \A i \in DOMAIN flowFile.nodes \cap DOMAIN flowReq[h].sent :
                         flowReq[h].sent[i] \in {"none", "keep"} => Effective(i) = flowReq[h].before[i]
               /\ flowReq[h].at \in {"engine", "restart"} =>
                      \A i \in DOMAIN flowReq[h].sent :
                         /\ flowReq[h].sent[i] = "clear" => Effective(i) = "none"
                         /\ flowReq[h].sent[i] \in {"new", "hand"} => Effective(i) = flowReq[h].sent[i]
    <3> DEFINE r == flowReq[h]
    <3>1. LoneInv(r) /\ HandlerInv(r) /\ FilesInv
      BY <2>1 DEF FlowInv, Alone
    <3> HIDE DEF r
    <3>2. \A i \in DOMAIN r.sent : i \in FlowIds
      BY <3>1 DEF HandlerInv
    <3>3. CASE r.at \in Fresh \cup {"extract", "save"}
      BY <3>1, <3>2, <3>3 DEF LoneInv, r, Fresh
    <3>4. CASE r.at = "truncate"
      <4>1. \A i \in FlowIds : Inline(i) \in {"none", "hand"}
        BY <3>1 DEF FilesInv, Handwritten, Inline
      <4>2. /\ Honours(r) /\ \A i \in FlowIds : credFile.creds[i] = r.creds[i]
            /\ \A i \in FlowIds : Inline(i) = "hand" => r.before[i] = "hand"
        BY <3>1, <3>4 DEF LoneInv, Decided
      <4>3. QED
        BY <3>2, <3>4, <4>1, <4>2 DEF Honours, Effective, Overlay, r
    <3>5. CASE r.at = "write"
      BY <3>1, <3>5 DEF LoneInv, r
    <3>6. CASE r.at \in {"engine", "restart"}
      <4>1. \A i \in FlowIds : Inline(i) = "none"
        BY <3>1, <3>6 DEF LoneInv, HandlerInv, Decided, Inline
      <4>2. Honours(r) /\ \A i \in FlowIds : credFile.creds[i] = r.creds[i]
        BY <3>1, <3>6 DEF LoneInv, Decided
      <4>3. QED
        BY <3>2, <4>1, <4>2 DEF Honours, Effective, Overlay, r
    <3>7. r.at \in Fresh \cup Decided \cup {"extract"}
      BY <2>1, <3>1 DEF HandlerInv, r
    <3>8. QED
      BY <3>3, <3>4, <3>5, <3>6, <3>7 DEF Decided
  <2>2. /\ \A i \in DOMAIN flowFile.nodes : flowFile.nodes[i] \in {"none", "hand"}
        /\ \A v \in DOMAIN versions.snap : \A i \in DOMAIN versions.snap[v] : versions.snap[v][i] \in {"none", "hand"}
    BY DEF FlowInv, FilesInv, Handwritten
  <2>3. QED
    BY <2>1, <2>2 DEF CredentialsSurvive
<1>4. QED
  BY <1>1, <1>2, <1>3, PTL DEF FfSpec
=============================================================================
