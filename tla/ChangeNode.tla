------------------------------ MODULE ChangeNode ------------------------------
(***************************************************************************)
(* The change node (function_nodes/change.rs) with what it stands on: the  *)
(* values of messages and contexts (model/variant), the property paths of  *)
(* model/propex.rs that read, set and remove a part of one, and the        *)
(* evaluation of typed properties (eval.rs).                               *)
(*                                                                         *)
(* A value is an object, an array, a text (a sequence of letters), a       *)
(* number, a boolean, null or a pattern, tagged by k.  A path is a parsed  *)
(* expression: properties p, indexes i and nested paths n, which stand for *)
(* the value that msg has there.                                           *)
(***************************************************************************)
EXTENDS Integers, Sequences, SequencesExt

CONSTANTS
    ChgMsgs,    \* messages that may arrive, objects
    ChgCtx,     \* what the flow context holds at first, an object
    ChgRules,   \* rules of change nodes
    ChgIdents,  \* property names that are identifiers; others need brackets
    ChgMax      \* bound on the rules applied to a message

VARIABLES
    chgMsg,     \* the message
    chgFlow,    \* the flow context
    chgAlive,   \* the task of the node runs
    chgRule,    \* ghost: the rule applied last
    chgBefore,  \* ghost: message and context before it
    chgCount

chgVars == <<chgMsg, chgFlow, chgAlive, chgRule, chgBefore, chgCount>>

NoVariant == [k |-> "none"]
Obj(f) == [k |-> "obj", f |-> f]
Arr(a) == [k |-> "arr", a |-> a]
NoRule == [t |-> "none"]

ChgInit ==
    /\ chgMsg \in ChgMsgs /\ chgFlow = ChgCtx /\ chgAlive = TRUE
    /\ chgRule = NoRule /\ chgBefore = [msg |-> chgMsg, flow |-> ChgCtx] /\ chgCount = 0

---------------------------------------------------------------------------
(* Paths: Variant::get_segs, set_segs_property and remove_segs_property.   *)

IsIndex(s) == "i" \in DOMAIN s
IsNested(s) == "n" \in DOMAIN s
Prop(x) == [p |-> x]

GetSeg(v, s) ==
    IF IsIndex(s)
    THEN IF v.k = "arr" /\ s.i < Len(v.a) THEN v.a[s.i + 1] ELSE NoVariant
    ELSE IF v.k = "obj" /\ s.p \in DOMAIN v.f THEN v.f[s.p] ELSE NoVariant

GetSegs(v, path) == FoldLeft(GetSeg, v, path)

\* expand_segs_property: a nested path becomes the name or the index it leads to in msg;
\* OutOfRange when it leads to nothing of the kind.
ExpandSeg(msg, s) ==
    IF ~IsNested(s) THEN s
    ELSE LET v == GetSegs(msg, s.n) IN
         CASE v.k = "str" -> Prop(v.s[1])
           [] v.k = "num" /\ v.n >= 0 -> [i |-> v.n]
           [] OTHER -> s
Expand(msg, path) == [j \in DOMAIN path |-> ExpandSeg(msg, path[j])]
Expands(msg, path) == \A j \in DOMAIN path : ~IsNested(ExpandSeg(msg, path[j]))

\* set_seg_property and set_array_item: an array takes a value at its end, not past it.
SetSeg(v, s, x) ==
    IF IsIndex(s)
    THEN CASE v.k = "arr" /\ s.i < Len(v.a) -> [ok |-> TRUE, v |-> Arr([v.a EXCEPT ![s.i + 1] = x])]
           [] v.k = "arr" /\ s.i = Len(v.a) -> [ok |-> TRUE, v |-> Arr(Append(v.a, x))]
           [] OTHER -> [ok |-> FALSE, v |-> v]
    ELSE IF v.k = "obj"
         THEN [ok |-> TRUE, v |-> Obj([n \in DOMAIN v.f \union {s.p} |-> IF n = s.p THEN x ELSE v.f[n]])]
         ELSE [ok |-> FALSE, v |-> v]

RECURSIVE PutAt(_, _, _)
PutAt(v, path, x) ==
    IF path = <<>> THEN x ELSE SetSeg(v, path[1], PutAt(GetSeg(v, path[1]), Tail(path), x)).v

RECURSIVE SetSegs(_, _, _, _)

\* set_segs_property: what lies on the way is made when it is missing.  The name of the
\* first segment is parsed as an expression once more, so a name that is no identifier is
\* never found: what it holds is replaced and the call fails.
SetSegs(v, path, x, create) ==
    LET first == path[1]
        found == IF ~IsIndex(first) /\ first.p \in ChgIdents THEN GetSeg(v, first) ELSE NoVariant
        made == IF IsIndex(path[2]) THEN Arr(<<>>) ELSE Obj(<<>>)
        child == IF found # NoVariant THEN found ELSE made
        below == SetSegs(child, Tail(path), x, create)
    IN  CASE Len(path) = 1 -> SetSeg(v, first, x)
          [] Len(path) > 1 /\ IsIndex(first) -> [ok |-> FALSE, v |-> v]
          [] Len(path) > 1 /\ ~IsIndex(first) /\ found = NoVariant /\ (~create \/ v.k # "obj") -> [ok |-> FALSE, v |-> v]
          [] Len(path) > 1 /\ ~IsIndex(first) /\ create /\ v.k = "obj" /\ first.p \notin ChgIdents ->
                [ok |-> FALSE, v |-> SetSeg(v, first, made).v]
          [] OTHER ->
                IF GetSegs(child, Tail(path)) # NoVariant
                THEN [ok |-> TRUE, v |-> SetSeg(v, first, PutAt(child, Tail(path), x)).v]
                ELSE IF create THEN [ok |-> below.ok, v |-> SetSeg(v, first, below.v).v]
                ELSE [ok |-> FALSE, v |-> v]

\* remove_segs_property.  Vec::remove panics when the index is out of range.
RemoveSegs(v, path) ==
    LET parent == GetSegs(v, Front(path))
        last == Last(path)
    IN  CASE parent.k = "obj" /\ ~IsIndex(last) /\ last.p \in DOMAIN parent.f ->
                [ok |-> TRUE, panics |-> FALSE,
                 v |-> PutAt(v, Front(path), Obj([n \in DOMAIN parent.f \ {last.p} |-> parent.f[n]]))]
          [] parent.k = "arr" /\ IsIndex(last) /\ last.i < Len(parent.a) ->
                [ok |-> TRUE, panics |-> FALSE,
                 v |-> PutAt(v, Front(path), Arr(RemoveAt(parent.a, last.i + 1)))]
          [] parent.k = "arr" /\ IsIndex(last) /\ last.i >= Len(parent.a) -> [ok |-> FALSE, panics |-> TRUE, v |-> v]
          [] OTHER -> [ok |-> FALSE, panics |-> FALSE, v |-> v]

---------------------------------------------------------------------------
(* eval.rs: the value of a typed property.                                 *)

Store(type, msg, flow) == IF type = "msg" THEN msg ELSE flow

\* A literal value, or a path of the message or of the context; NoVariant is the error.
EvaluatePath(path, type, msg, flow) ==
    IF Expands(msg, path) THEN GetSegs(Store(type, msg, flow), Expand(msg, path)) ELSE NoVariant
EvaluateRaw(value, type, msg, flow) ==
    IF type = "lit" THEN value ELSE EvaluatePath(value.path, type, msg, flow)

---------------------------------------------------------------------------
(* change.rs                                                               *)

\* What a rule leaves: message, context, and whether the node's task panicked.
After(msg, flow, panics) == [msg |-> msg, flow |-> flow, panics |-> panics]
In(type, msg, flow, v) == IF type = "msg" THEN After(v, flow, FALSE) ELSE After(msg, v, FALSE)

\* set_property: without a value a property of the message is removed, by its plain name
\* only; for the context that is an error.
SetProperty(path, type, x, msg, flow) ==
    CASE x # NoVariant /\ Expands(msg, path) ->
            In(type, msg, flow, SetSegs(Store(type, msg, flow), Expand(msg, path), x, TRUE).v)
      [] x = NoVariant /\ type = "msg" /\ Len(path) = 1 /\ ~IsNested(path[1]) ->
            After(RemoveSegs(msg, path).v, flow, FALSE)
      [] OTHER -> After(msg, flow, FALSE)
SetFails(type, x) == x = NoVariant /\ type # "msg"

\* delete_property
DeleteProperty(path, type, msg, flow) ==
    IF ~Expands(msg, path) THEN After(msg, flow, FALSE)
    ELSE LET r == RemoveSegs(Store(type, msg, flow), Expand(msg, path)) IN
         [In(type, msg, flow, r.v) EXCEPT !.panics = r.panics]

\* Variant::to_string
Text(v) == CASE v.k \in {"str", "re"} -> v.s
             [] v.k = "num" -> <<ToString(v.n)>>
             [] v.k = "bool" -> <<IF v.b THEN "true" ELSE "false">>
             [] OTHER -> <<>>
HasText(v) == v.k \in {"str", "num", "bool"}

RECURSIVE Replaced(_, _, _, _)

\* str::replace, and the replacement of the first occurrence only.
Replaced(text, from, to, all) ==
    IF Len(text) < Len(from) THEN text
    ELSE IF SubSeq(text, 1, Len(from)) # from THEN <<text[1]>> \o Replaced(Tail(text), from, to, all)
    ELSE LET rest == SubSeq(text, Len(from) + 1, Len(text)) IN
         to \o (IF all THEN Replaced(rest, from, to, all) ELSE rest)

\* apply_rule_change: a text equal to what is looked for takes the new value and its type,
\* otherwise its occurrences are replaced; of a pattern all occurrences in a message and
\* the first one in a context.  What a pattern leaves is given the type of the new value
\* when that is a boolean of the rule and the text reads true or false.
IsBoolText(text) == text \in {<<"true">>, <<"false">>}
PatternGives(text, to, tot) ==
    IF tot = "lit" /\ to.k = "bool" /\ IsBoolText(text) THEN to ELSE [k |-> "str", s |-> text]
Changed2(current, from, to, type, tot) ==
    CASE current.k = "str" /\ from.k \in {"str", "num", "bool"} /\ current = from -> to
      [] current.k = "str" /\ from.k = "re" /\ HasText(to) ->
            PatternGives(Replaced(current.s, from.s, Text(to), type = "msg"), to, tot)
      [] current.k = "str" /\ HasText(from) /\ HasText(to) /\ current # from ->
            [k |-> "str", s |-> Replaced(current.s, Text(from), Text(to), TRUE)]
      [] current.k \in {"num", "bool"} /\ from = current -> to
      [] OTHER -> current

ApplySet(r, msg, flow) == SetProperty(r.p, r.pt, EvaluateRaw(r.to, r.tot, msg, flow), msg, flow)

ApplyDelete(r, msg, flow) == DeleteProperty(r.p, r.pt, msg, flow)

ApplyChange(r, msg, flow) ==
    LET to == EvaluateRaw(r.to, r.tot, msg, flow)
        from == EvaluateRaw(r.from, r.fromt, msg, flow)
        current == EvaluatePath(r.p, r.pt, msg, flow)
        new == Changed2(current, from, to, r.pt, r.tot)
    IN  IF NoVariant \in {to, from, current} \/ new = current THEN After(msg, flow, FALSE)
        ELSE In(r.pt, msg, flow, SetSegs(Store(r.pt, msg, flow), Expand(msg, r.p), new, r.pt # "msg").v)

\* A mutant: the two sides of a move the other way round.
MoveSidesSwapped(r, current, msg, flow) ==
    LET set == SetProperty(r.to.path, r.tot, current, msg, flow)
    IN  SetProperty(r.p, r.pt, NoVariant, set.msg, set.flow)

\* The source is removed first, then the target is set.
MoveSides(r, current, msg, flow) ==
    LET removed == SetProperty(r.p, r.pt, NoVariant, msg, flow)
    IN  SetProperty(r.to.path, r.tot, current, removed.msg, removed.flow)

ApplyMove(r, msg, flow) ==
    LET current == EvaluatePath(r.p, r.pt, msg, flow)
    IN  IF current = NoVariant \/ SetFails(r.pt, NoVariant) THEN After(msg, flow, FALSE)
        ELSE MoveSides(r, current, msg, flow)

\* apply_rules: a rule that fails is logged and the next one is applied to what it left.
ApplyRule(r) ==
    LET after == CASE r.t = "set" -> ApplySet(r, chgMsg, chgFlow)
                   [] r.t = "delete" -> ApplyDelete(r, chgMsg, chgFlow)
                   [] r.t = "change" -> ApplyChange(r, chgMsg, chgFlow)
                   [] r.t = "move" -> ApplyMove(r, chgMsg, chgFlow)
    IN  /\ chgAlive /\ chgCount < ChgMax
        /\ chgMsg' = after.msg /\ chgFlow' = after.flow /\ chgAlive' = ~after.panics
        /\ chgRule' = r /\ chgBefore' = [msg |-> chgMsg, flow |-> chgFlow] /\ chgCount' = chgCount + 1

ChgNext == \E r \in ChgRules : ApplyRule(r)

ChgSpec == ChgInit /\ [][ChgNext]_chgVars

---------------------------------------------------------------------------
RECURSIVE Leaves(_, _)
Leaves(v, at) ==
    CASE v.k = "obj" -> {[path |-> at, v |-> v] : x \in {y \in {1} : v.f = <<>>}}
                        \union UNION {Leaves(v.f[n], Append(at, Prop(n))) : n \in DOMAIN v.f}
      [] v.k = "arr" -> UNION {Leaves(v.a[j], Append(at, [i |-> j - 1])) : j \in DOMAIN v.a}
      [] OTHER -> {[path |-> at, v |-> v]}

\* Everything outside of the given paths is what it was.
Kept(before, after, paths) ==
    \A l \in Leaves(before, <<>>) :
       (\A p \in paths : ~IsPrefix(p, l.path)) => (GetSegs(after, l.path) = l.v \/ l.v = Obj(<<>>))

\* A path of identifiers that passes through nothing but objects, as far as they exist.
Fits(v, path) ==
    /\ \A j \in DOMAIN path : ~IsIndex(path[j]) /\ path[j].p \in ChgIdents
    /\ \A j \in 0..(Len(path) - 1) : GetSegs(v, SubSeq(path, 1, j)).k \in {"obj", "none"}

\* What a rule writes and removes: the array of an index counts as a whole.
Whole(path) == IF IsIndex(Last(path)) THEN Front(path) ELSE path
Touched(r, type, msg) ==
    {Whole(Expand(msg, p)) : p \in ({r.p} \cap {q \in {r.p} : r.pt = type /\ Expands(msg, q)})
        \union (IF r.t = "move" /\ r.tot = type /\ Expands(msg, r.to.path) THEN {r.to.path} ELSE {})}
Plain2(path) == \A j \in 1..(Len(path) - 1) : IsIndex(path[j]) \/ path[j].p \in ChgIdents

\* A rule of a change node changes what it names and nothing else: a value that is set or
\* moved to a path of objects is there afterwards, also when source and target overlap or
\* the path is given by another property; what is deleted is gone; a rule that fails or
\* finds nothing loses nothing (change.rs 141-441, variant/mod.rs 470-643).  The node dies
\* only of an array index past the end.
ChangeFaithful ==
    LET r == chgRule
        b == chgBefore
        now == [msg |-> chgMsg, flow |-> chgFlow]
        target == IF r.t = "move" THEN r.to.path ELSE r.p
        where == IF r.t = "move" THEN r.tot ELSE r.pt
        x == IF r.t = "move" THEN EvaluatePath(r.p, r.pt, b.msg, b.flow) ELSE EvaluateRaw(r.to, r.tot, b.msg, b.flow)
        at == Expand(b.msg, target)
    IN  r.t # "none" =>
        /\ \A type \in {"msg", "flow"} :
              (\A p \in Touched(r, type, b.msg) : Plain2(p)) => Kept(b[type], now[type], Touched(r, type, b.msg))
        /\ (/\ r.t \in {"set", "move"} /\ x # NoVariant /\ Expands(b.msg, target)
            /\ Fits(b[where], at) /\ ~(r.t = "move" /\ r.pt # "msg"))
              => GetSegs(now[where], at) = x
        /\ (r.t = "delete" /\ Expands(b.msg, r.p) /\ ~IsIndex(Last(at))) => GetSegs(now[where], at) = NoVariant
        /\ chgAlive \/ (r.t = "delete" /\ IsIndex(Last(at)))
=============================================================================
