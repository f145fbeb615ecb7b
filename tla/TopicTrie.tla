------------------------------ MODULE TopicTrie ------------------------------
(***************************************************************************)
(* Topic filters of the embedded MQTT broker.  Topics and filters are      *)
(* sequences of levels.  The broker matches a filter in two ways: a live   *)
(* message walks the topic trie of subscription.rs, a retained message is  *)
(* selected by the function of retained.rs.                                *)
(***************************************************************************)
EXTENDS Naturals, Sequences, FiniteSets, SequencesExt

\* The node a filter hangs at: wildcard levels do not descend.
NodePath(levels) ==
    LET kept == {i \in DOMAIN levels : levels[i] \notin {"+", "#"}}
    IN  [k \in 1..Cardinality(kept) |->
            levels[CHOOSE i \in kept : Cardinality({j \in kept : j <= i}) = k]]

\* subscribe: `#` at the end, else `+` anywhere, else an exact path.
Place(f) ==
    IF Last(f) = "#" THEN [kind |-> "multi", path |-> NodePath(Front(f))]
    ELSE IF Contains(f, "+") THEN [kind |-> "wild", path |-> f]
    ELSE [kind |-> "exact", path |-> NodePath(f)]

\* Mutant: the levels are compared in pairs, as far as the shorter one goes.
SingleMatchZip(f, t) == \A i \in DOMAIN f \cap DOMAIN t : f[i] \in {"+", t[i]}

\* topic_matches_single_wildcard
SingleMatch(f, t) == Len(f) = Len(t) /\ \A i \in DOMAIN f : f[i] \in {"+", t[i]}

\* match_topic: the exact node, every node above it with `#`, and the list of `+`.
PlaceMatches(p, t) ==
    CASE p.kind = "exact" -> p.path = t
      [] p.kind = "multi" -> IsPrefix(p.path, t)
      [] p.kind = "wild"  -> SingleMatch(p.path, t)

\* topic_matches_filter, which the retained store uses.
FilterMatches(f, t) ==
    LET stop == {i \in DOMAIN f : f[i] = "#"}
        n == IF stop = {} THEN Len(f) ELSE (CHOOSE i \in stop : \A j \in stop : i <= j) - 1
    IN /\ Len(t) >= n /\ (stop = {} => Len(t) = n)
       /\ \A i \in 1..n : f[i] \in {"+", t[i]}

\* Filters on which the two are meant to agree: the trie drops the `+` levels of
\* a filter that ends in `#`.
Plain(f) == ~(Contains(f, "+") /\ Last(f) = "#")

\* Filters as MQTT has them: `#` is the last level or none.
WellFormed(levels) ==
    {f \in Seq(levels) : f # <<>> /\ \A i \in 1..(Len(f) - 1) : f[i] # "#"}

\* For the filters F and the topics T: the trie finds a filter for every topic the
\* retained store selects for it, and filters that hang at one place select alike.
MatchersAgree(F, T) ==
    \A f \in F, t \in T : Plain(f) /\ FilterMatches(f, t) =>
        /\ PlaceMatches(Place(f), t)
        /\ \A g \in F : Place(g) = Place(f) => FilterMatches(g, t)
=============================================================================
