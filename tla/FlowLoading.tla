----------------------------- MODULE FlowLoading -----------------------------
(***************************************************************************)
(* From a flows file to what the engine builds: model/json/deser.rs and    *)
(* red_desers.rs with the sorter of utils/topo.rs and graph.rs, and the    *)
(* environment entries of red_env.rs.  A behaviour writes a flows file, a  *)
(* list of environment entries or a property value; what the code makes of *)
(* it is a function of what has been written.                              *)
(*                                                                         *)
(* Ids are sorted by their hash in the code, an order unrelated to the     *)
(* file's; here the order of the list stands for it, and every order of    *)
(* the elements is written by some behaviour.                              *)
(***************************************************************************)
EXTENDS Integers, Sequences, SequencesExt, FiniteSets

CONSTANTS
    LdParts,    \* what to explore: a subset of {"flows", "env", "value"}
    LdPool,     \* the elements a flows file may hold
    LdLength,   \* bound on its length
    LdEntries,  \* the environment entries: name, type and value
    LdEnvLength,
    LdWord,     \* bits of a u64
    LdNumbers   \* numbers a property may have

VARIABLES ldPart, ldFile, ldEnv, ldValue

ldVars == <<ldPart, ldFile, ldEnv, ldValue>>

\* F(value), with the value worked out once.
Given(value, F(_)) == CHOOSE r \in {F(x) : x \in {value}} : TRUE

---------------------------------------------------------------------------
(* Graph::sort and TopologicalSorter.                                      *)

RECURSIVE Visit(_, _, _, _)

\* sort_inner_visit: marked on the way in, listed on the way out.
Visit(n, acc, order, dependents) ==
    IF n \in acc.marks THEN acc
    ELSE LET below == SelectSeq(order, LAMBDA m : m \in dependents[n])
             after == FoldLeft(LAMBDA a, m : Visit(m, a, order, dependents),
                               [acc EXCEPT !.marks = @ \union {n}], below)
         IN  [after EXCEPT !.list = Append(@, n)]

\* add_deps: what is depended on is a vertex too, whether it exists or not.
Vertices(order, deps) ==
    order \o SetToSeq(UNION {deps[n] : n \in ToSet(order)} \ ToSet(order))

\* The vertices of the graph in the order they are visited, by depth first search.
Visited(all, dependents) ==
    FoldLeft(LAMBDA a, n : Visit(n, a, all, dependents), [list |-> <<>>, marks |-> {}], all).list

Dependents(order, deps) == [n \in ToSet(Vertices(order, deps)) |-> {m \in ToSet(order) : n \in deps[m]}]

\* A mutant: the order is not turned round.
DependencySortPlain(order, deps) ==
    Given(Vertices(order, deps), LAMBDA all : Given(Dependents(order, deps), LAMBDA d : Visited(all, d)))

\* dependency_sort: what is depended on comes first.
DependencySort(order, deps) ==
    Given(Vertices(order, deps), LAMBDA all : Given(Dependents(order, deps), LAMBDA d : Reverse(Visited(all, d))))

---------------------------------------------------------------------------
(* preprocess_subflows: a copy of the subflow for every instance of it.    *)

Ids(file) == {file[i].id : i \in DOMAIN file}
Find(file, id) == CHOOSE e \in ToSet(file) : e.id = id
Packs(file) == SelectSeq(file, LAMBDA e : e.type = "instance")
ChildrenOf(file, id) == SelectSeq(file, LAMBDA e : e.z = id)

\* The new ids: one for the copy, and for a child the old id combined with it.  An id
\* of the file is a sequence of one name.
CopyId(k) == <<k, "copy">>
ChildId(k, id) == <<k, id[1]>>
NoId == <<"none">>

\* id_map: one map for all instances, in which the last one to use an id wins.
IdMap(file, x) ==
    LET packs == Packs(file)
        using == {k \in DOMAIN packs : x = packs[k].of \/ x \in Ids(ChildrenOf(file, packs[k].of))}
        last == CHOOSE k \in using : \A j \in using : j <= k
    IN  IF using = {} THEN x
        ELSE IF x = packs[last].of THEN CopyId(last) ELSE ChildId(last, x)

Remapped(file, e) ==
    [e EXCEPT !.z = IdMap(file, @), !.g = IdMap(file, @), !.of = IdMap(file, @),
              !.wires = {IdMap(file, x) : x \in @}, !.links = {IdMap(file, x) : x \in @},
              !.ports = {IdMap(file, x) : x \in @}]

PreprocessSubflows(file) ==
    LET packs == Packs(file)
        copy(k) == <<[Find(file, packs[k].of) EXCEPT !.id = CopyId(k)], [packs[k] EXCEPT !.of = CopyId(k)]>>
                   \o [i \in DOMAIN ChildrenOf(file, packs[k].of) |->
                            [ChildrenOf(file, packs[k].of)[i] EXCEPT
                                !.id = ChildId(k, ChildrenOf(file, packs[k].of)[i].id)]]
        copies == FlattenSeq([k \in DOMAIN packs |-> copy(k)])
        gone(e) == e.type = "instance" \/ \E k \in DOMAIN packs : packs[k].of \in {e.id, e.z}
    IN  [i \in DOMAIN copies |-> Remapped(file, copies[i])] \o SelectSeq(file, LAMBDA e : ~gone(e))

\* preprocess_merge_subflow_env: an instance has its subflow's variables, its own first.
MergeEnv(list) ==
    [i \in DOMAIN list |->
        IF list[i].type # "instance" \/ list[i].of \notin Ids(list) THEN list[i]
        ELSE LET outer == Find(list, list[i].of).env
             IN  [list[i] EXCEPT !.env = [v \in DOMAIN @ \union DOMAIN outer |->
                                            IF v \in DOMAIN @ THEN @[v] ELSE outer[v]]]]

---------------------------------------------------------------------------
(* load_flows_json_value.                                                  *)

NodeTypes == {"node", "instance", "link out", "link call", "link in"}
LinkTypes == {"link out", "link call"}
FlowTypes == {"tab", "subflow"}

\* get_flow_node_dependencies; wires stand for the wires and the scope.
NodeDeps(e) == e.wires \union (IF e.type \in LinkTypes THEN e.links ELSE {})

\* get_flow_dependencies and get_subflow_dependencies.
FlowDeps(list, e) ==
    LET children == {x \in ToSet(list) : x.z = e.id}
        wired == UNION {x.wires : x \in children}
        linked == UNION {x.links : x \in {c \in children : c.type \in LinkTypes}}
        targets == {x \in ToSet(list) : x.id \in wired \/ (x.type = "link in" /\ x.id \in linked)}
    IN  IF e.type = "tab" THEN {x.z : x \in {t \in targets : t.z \notin {e.id, NoId}}}
        ELSE {x.z : x \in {i \in ToSet(list) : i.type = "instance" /\ i.of = e.id}}

\* The elements of some types in the order of what they depend on.
Sorted(list, types, deps) ==
    LET kept == SelectSeq(list, LAMBDA e : e.type \in types)
    IN  DependencySort([i \in DOMAIN kept |-> kept[i].id], [id \in Ids(kept) |-> deps[Find(kept, id)]])

Failed == [ok |-> FALSE, flows |-> <<>>, globals |-> <<>>]

\* The flows in their order, each with its groups and nodes in theirs.
Built(list, flows, groups, nodes) ==
    LET has(types, ids) == \A i \in DOMAIN ids : \E e \in ToSet(list) : e.type \in types /\ e.id = ids[i]
        homeless == \E e \in ToSet(list) : e.type = "group" /\ e.z = NoId
        build(f) == [id |-> f, type |-> Find(list, f).type,
                     instance |-> {list[i].id : i \in {j \in DOMAIN list :
                                        /\ list[j].type = "instance" /\ list[j].of = f
                                        /\ \A k \in 1 .. j - 1 : ~(list[k].type = "instance" /\ list[k].of = f)}},
                     groups |-> SelectSeq(groups, LAMBDA x : Find(list, x).z = f),
                     nodes |-> SelectSeq(nodes, LAMBDA x : Find(list, x).z = f)]
    IN  IF homeless \/ ~has(FlowTypes, flows) \/ ~has({"group"}, groups) \/ ~has(NodeTypes, nodes)
        THEN Failed
        ELSE [ok |-> TRUE, flows |-> [i \in DOMAIN flows |-> build(flows[i])],
              globals |-> SelectSeq(list, LAMBDA e : e.type = "global")]

SortedAndBuilt(list) ==
    Given(Sorted(list, FlowTypes, [e \in ToSet(list) |-> FlowDeps(list, e)]), LAMBDA flows :
    Given(Sorted(list, {"group"}, [e \in ToSet(list) |-> {e.g} \ {NoId}]), LAMBDA groups :
    Given(Sorted(list, NodeTypes, [e \in ToSet(list) |-> NodeDeps(e)]), LAMBDA nodes : Built(list, flows, groups, nodes))))

LoadedFlows(file) ==
    IF \E e \in ToSet(file) : e.type = "instance" /\ e.of \notin Ids(file) THEN Failed
    ELSE Given(PreprocessSubflows(file), LAMBDA list : Given(MergeEnv(list), SortedAndBuilt))

---------------------------------------------------------------------------
(* Environment entries: RedEnvStoreBuilder::load_json.                     *)

\* The last entry of a name counts, at the place it has in the list.
LastOfName(entries) ==
    SelectSeq([i \in DOMAIN entries |-> [entry |-> entries[i], at |-> i]],
              LAMBDA x : \A j \in DOMAIN entries : entries[j].name = x.entry.name => j <= x.at)

\* evaluate: an entry of type env takes the value of another that is already there, or
\* of the parent's; without one it is left out.
Evaluated(envs, entry, parent) ==
    LET seen == [v \in DOMAIN envs \union DOMAIN parent |-> IF v \in DOMAIN envs THEN envs[v] ELSE parent[v]]
    IN  IF entry.type = "str" THEN {entry.value}
        ELSE IF entry.value \in DOMAIN seen THEN {seen[entry.value]} ELSE {}

LoadEnv(entries, parent) ==
    LET kept == LastOfName(entries)
        names == [i \in DOMAIN kept |-> kept[i].entry.name]
        entryOf(name) == CHOOSE e \in {x.entry : x \in ToSet(kept)} : e.name = name
        deps == [name \in ToSet(names) |->
                    IF entryOf(name).type = "env" THEN {entryOf(name).value} ELSE {}]
        load(envs, name) ==
            IF name \notin ToSet(names) \/ Evaluated(envs, entryOf(name), parent) = {} THEN envs
            ELSE [v \in DOMAIN envs \union {name} |->
                    IF v = name THEN CHOOSE x \in Evaluated(envs, entryOf(name), parent) : TRUE ELSE envs[v]]
    IN  FoldLeft(load, <<>>, DependencySort(names, deps))

---------------------------------------------------------------------------
(* Properties the editor saves as text: the lenient helpers.  A value is   *)
(* null, an integer or one written as a float (5.0), the text of one, an   *)
(* empty text or another one.                                              *)

LdForms == {"null", "number", "float", "number text", "float text", "empty", "other"}
LdValues == [form : LdForms, n : LdNumbers]

Nothing == {}
Wrong == {-1}
Word == 2 ^ LdWord

Empty(v) == v.form \in {"null", "empty"}
Numeric(v) == v.form \in {"number", "float", "number text", "float text"}

\* What the parser of the file gives as a float: an integer past the word, too.
IsFloat(v) == v.form = "float" \/ (v.form = "number" /\ v.n >= Word)

\* str::parse::<u64>
ParsedU64(v) == IF v.form = "number text" /\ v.n \in 0 .. Word - 1 THEN {v.n} ELSE Wrong

\* lenient_opt_u64: a float that is whole is taken, at most for the largest number.
LenientOptU64(v) ==
    IF Empty(v) THEN Nothing
    ELSE IF v.form \in {"number", "float"} /\ v.n >= 0 THEN {IF v.n < Word THEN v.n ELSE Word - 1}
    ELSE ParsedU64(v)

\* lenient_opt_u8 .. lenient_opt_u32: what does not fit is refused.
LenientNarrow(v, bits) == IF LenientOptU64(v) \subseteq 0 .. 2 ^ bits - 1 THEN LenientOptU64(v) ELSE Wrong

\* u64_deser and usize_deser take no float and no empty value, their optional forms do the
\* latter.
U64Deser(v) == IF v.form = "number" /\ ~IsFloat(v) /\ v.n >= 0 THEN {v.n} ELSE ParsedU64(v)
OptionalU64Deser(v) == IF Empty(v) THEN Nothing ELSE U64Deser(v)

\* str_to_option_f64 knows no null, lenient_opt_f64 does.
StrToOptionF64(v) == IF v.form = "empty" THEN Nothing ELSE IF Numeric(v) THEN {v.n} ELSE Wrong
LenientOptF64(v) == IF v.form = "null" THEN Nothing ELSE StrToOptionF64(v)

\* The boolean helpers: any number is a boolean, only 0 and 1 are as text.
BoolDeser(v) ==
    IF v.form = "number" /\ ~IsFloat(v) THEN {v.n # 0}
    ELSE IF v.form = "number text" /\ v.n \in {0, 1} THEN {v.n = 1} ELSE Wrong
OptBoolDeser(v) == IF Empty(v) THEN Nothing ELSE BoolDeser(v)

---------------------------------------------------------------------------

LdInit ==
    /\ ldPart \in LdParts
    /\ ldFile = <<>> /\ ldEnv = <<>>
    /\ ldValue \in {v \in LdValues : v.form = "null" /\ v.n = 0}

AddElement(e) ==
    /\ ldPart = "flows" /\ Len(ldFile) < LdLength /\ e.id \notin Ids(ldFile)
    /\ ldFile' = Append(ldFile, e) /\ UNCHANGED <<ldPart, ldEnv, ldValue>>

AddEntry(e) ==
    /\ ldPart = "env" /\ Len(ldEnv) < LdEnvLength
    /\ ldEnv' = Append(ldEnv, e) /\ UNCHANGED <<ldPart, ldFile, ldValue>>

SetValue(v) ==
    /\ ldPart = "value" /\ v # ldValue /\ ldValue' = v /\ UNCHANGED <<ldPart, ldFile, ldEnv>>

LdNext ==
    \/ \E e \in LdPool : AddElement(e)
    \/ \E e \in LdEntries : AddEntry(e)
    \/ \E v \in LdValues : SetValue(v)

LdSpec == LdInit /\ [][LdNext]_ldVars

---------------------------------------------------------------------------

Place(list, x) == CHOOSE i \in DOMAIN list : list[i] = x

RECURSIVE ReachedFrom(_, _)
ReachedFrom(file, S) ==
    LET more == S \union UNION {NodeDeps(e) : e \in {x \in ToSet(file) : x.id \in S}}
    IN  IF more = S THEN S ELSE ReachedFrom(file, more)

Instantiated(file) == {e.of : e \in ToSet(Packs(file))}
Plain(file) == {e \in ToSet(file) : e.type \in NodeTypes \ {"instance"} /\ e.z \notin Instantiated(file)}

InstantiatedOnce(file, p) ==
    /\ Find(file, Packs(file)[p].of).type = "subflow"
    /\ \A q \in DOMAIN Packs(file) \ {p} : Packs(file)[q].of # Packs(file)[p].of

FlowsFaithful(file, loaded) ==
    LET listed == FlattenSeq([i \in DOMAIN loaded.flows |-> loaded.flows[i].nodes])
        flowIds == [i \in DOMAIN loaded.flows |-> loaded.flows[i].id]
    IN  /\ ~loaded.ok => \E e \in ToSet(file) :
                \/ ~(({e.z, e.of, e.g} \ {NoId}) \union NodeDeps(e) \subseteq Ids(file))
                \/ e.type = "group" /\ e.z = NoId
        /\ loaded.ok =>
            /\ \A e \in Plain(file) : e.z \in ToSet(flowIds) =>
                    Cardinality({i \in DOMAIN listed : listed[i] = e.id}) = 1
            /\ \A e, d \in Plain(file) :
                    (e.z = d.z /\ e.z \in ToSet(flowIds) /\ d.id \in NodeDeps(e) /\ e.id \notin ReachedFrom(file, {d.id}))
                        => Place(listed, d.id) < Place(listed, e.id)
            /\ \A i \in DOMAIN loaded.flows : \A p \in DOMAIN Packs(file) :
                    (loaded.flows[i].id = CopyId(p) /\ Packs(file)[p].z \in Ids(file) /\ Find(file, Packs(file)[p].z).type = "tab")
                        => Place(flowIds, Packs(file)[p].z) < i
            /\ \A p \in DOMAIN Packs(file) : InstantiatedOnce(file, p) =>
                    \A e \in ToSet(ChildrenOf(file, Packs(file)[p].of)) :
                        e.type \in NodeTypes \ {"instance"} =>
                            Cardinality({i \in DOMAIN listed : listed[i] = ChildId(p, e.id)}) = 1

\* An entry that names another entry of the list, without a cycle.
EnvFaithful(entries) ==
    LET envs == LoadEnv(entries, <<>>)
        kept == {x.entry : x \in ToSet(LastOfName(entries))}
    IN  \A e, d \in kept :
            (e.type = "env" /\ e.value = d.name /\ d.type = "str") =>
                /\ e.name \in DOMAIN envs /\ envs[e.name] = d.value

AsNumber(v) == [v EXCEPT !.form = "number"]
AsText(v) == [v EXCEPT !.form = "number text"]

\* A number means the same as its text, to every helper.  Only a field of the full word
\* takes what is larger for the largest, and the lenient ones take a whole float, and
\* refuse the text of either.
ValueFaithful(v) ==
    /\ v.n < Word => LenientOptU64(AsNumber(v)) = LenientOptU64(AsText(v))
    /\ \A bits \in 1 .. LdWord - 1 :
        /\ LenientNarrow(AsNumber(v), bits) = LenientNarrow(AsText(v), bits)
        /\ LenientNarrow(v, bits) \subseteq {-1, v.n}
    /\ U64Deser(AsNumber(v)) = U64Deser(AsText(v))
    /\ ~IsFloat(v) => OptionalU64Deser(v) = LenientOptU64(v)
    /\ LenientOptF64(AsNumber(v)) = LenientOptF64(AsText(v))
    /\ v.n \in {0, 1} => BoolDeser(AsNumber(v)) = BoolDeser(AsText(v))
    /\ OptBoolDeser(v) = Nothing <=> LenientOptF64(v) = Nothing

\* A file is loaded as it was meant, whatever order its elements, and their ids, have:
\* every node of a tab comes into its flow exactly once and after the nodes it sends to
\* (deser.rs:18, topo.rs:41), every node of a subflow that is used once into its copy, a
\* tab before the copies of the subflows it uses, an environment entry gets the value of
\* the entry it names (red_env.rs:101), a number that fits its field means the same as
\* its text (deser.rs:832), and a file is refused only for a reference to what is not in
\* it or a group outside a flow.  Of a subflow that is used twice nothing is claimed: all
\* its nodes come into the copies as the last use names them.
LoadFaithful == (\A loaded \in {LoadedFlows(ldFile)} : FlowsFaithful(ldFile, loaded)) /\ EnvFaithful(ldEnv) /\ ValueFaithful(ldValue)
==============================================================================
