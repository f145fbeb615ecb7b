-------------------------- MODULE MCFunctionNodes --------------------------
(***************************************************************************)
(* Small instances of the nodes that work on messages, and on processes    *)
(* and files of the host.  They share no state, so one run checks them     *)
(* side by side: `subject` is the node whose behaviours are explored, the  *)
(* others stay in one of their initial states.                             *)
(***************************************************************************)
EXTENDS DelayNode, RbeNode, ExecNode, LinkNodes, SplitJoin, BatchSort, ChangeNode, ParserNodes, StorageNodes

VARIABLE subject

MCRbeValues == {-3, 1, 2}
MCLinkTargets == [a |-> 1, b |-> 2]
MCSplitValues == {<<"a", "b", "c">>, <<"a", "|">>, <<"b">>}

---------------------------------------------------------------------------
(* Messages, context and rules of the change node.                         *)

P(x) == [p |-> x]
I(x) == [i |-> x]
Nested(x) == [n |-> x]
Str(x) == [k |-> "str", s |-> x]
Num(x) == [k |-> "num", n |-> x]
Bool(x) == [k |-> "bool", b |-> x]
Regex(x) == [k |-> "re", s |-> x]
Object(f) == [k |-> "obj", f |-> f]
Array(a) == [k |-> "arr", a |-> a]
Ref(x) == [k |-> "path", path |-> x]
ChgRule(t, p, pt, to, tot) ==
    [t |-> t, p |-> p, pt |-> pt, to |-> to, tot |-> tot, from |-> Str(<<"x">>), fromt |-> "lit"]
Replace(p, pt, from, to) ==
    [t |-> "change", p |-> p, pt |-> pt, to |-> to, tot |-> "lit", from |-> from, fromt |-> "lit"]

MCChgMsgs == {Object([a |-> Str(<<"x">>), b |-> Object([x |-> Num(1), y |-> Array(<<Num(0)>>)])]),
              Object([a |-> Array(<<Object([x |-> Str(<<"x", "y", "x">>)])>>), b |-> Num(1)])}
MCChgCtx == Object([b |-> Str(<<"x", "x">>)])

Stores == {"msg", "flow"}
pA == <<P("a")>>
pB == <<P("b")>>
pBX == <<P("b"), P("x")>>
pBC == <<P("b"), P("c")>>
pAX == <<P("a"), I(0), P("x")>>
Paths == {pA, pB, pBX, pBC, pAX, <<P("b"), P("y"), I(0)>>, <<P("b"), P("y"), I(2)>>,
          <<P("b"), Nested(pA)>>, <<P("a-b"), P("c")>>}
MCChgRules ==
    {ChgRule("set", p, t, Str(<<"y">>), "lit") : p \in Paths, t \in Stores}
    \cup {ChgRule("set", p, "msg", Ref(q), t) : p \in {pA, pBX, pBC}, q \in {pB, pBX}, t \in Stores}
    \cup {ChgRule("set", <<P("a-b")>>, "msg", Num(1), "lit")}
    \cup {ChgRule("delete", p, t, Str(<<"y">>), "lit") : p \in Paths, t \in Stores}
    \cup {ChgRule("move", p, t, Ref(q), u) :
            p \in {pA, pB, pBX}, t \in Stores, q \in {pA, pB, pBX, <<P("a"), P("x")>>}, u \in Stores}
    \cup {Replace(p, t, f, g) : p \in {pA, pB, pAX, pBX}, t \in Stores,
            f \in {Str(<<"x">>), Num(1), Regex(<<"x">>)}, g \in {Num(2), Str(<<"y">>)}}
    \cup {Replace(p, t, Regex(<<"x">>), Bool(b)) : p \in {pA, pB}, t \in Stores, b \in BOOLEAN}

---------------------------------------------------------------------------
(* Rows of the csv node, as characters (q quotes, n and r end lines), and  *)
(* values of the json and yaml nodes.                                      *)

MCCsvRows ==
    {<<<<"a">>, <<"1">>>>, <<<<",", "q">>, <<>>>>, <<<<"q", "n", "a">>, <<"a", "r", "n", "q">>>>,
     <<<<>>, <<" ">>>>, <<<<"n", "n", "a">>, <<" ", "a", "r">>>>, <<<<"q">>, <<"q", "q">>>>,
     <<<<"r">>, <<"a", "n">>>>}
MCDocValues ==
    [k : {"null", "bool", "num", "str", "utf8", "bytes", "array", "numbers", "object", "date", "regexp"}]
    \cup [k : {"doc"}, of : [k : {"num", "object", "str"}]]

---------------------------------------------------------------------------
allVars == <<subject, delayVars, rbeVars, execVars, linkVars, splitVars, batchVars, chgVars, prsVars, stoVars>>

Subjects == {"delay", "rbe", "exec", "link", "split", "batch", "change", "parser", "storage"}

OneWriter == [mode |-> "append", newline |-> TRUE, at |-> "wait", unit |-> 0, ended |-> FALSE]

MCInit ==
    /\ subject \in Subjects
    /\ DelayInit /\ (subject = "delay" \/ dlyMode = "delay")
    /\ RbeInit /\ (subject = "rbe" \/ (rbeFunc = "rbe" /\ rbeIn /\ rbePercent /\ rbeSep))
    /\ ExecInit /\ (subject = "exec" \/ (exeSpawn /\ exeTimer))
    /\ LinkInit
    /\ SplitInit /\ (subject = "split" \/ (splKind = "array" /\ splStream))
    /\ BatchInit /\ (subject = "batch" \/ btcMode = "count")
    /\ ChgInit /\ (subject = "change" \/ chgMsg.f.b = Num(1))
    /\ PrsInit /\ (subject = "parser" \/ (parPart = "csv" /\ csvHdrOut = "none"))
    /\ StoInit /\ (subject = "storage" \/ (/\ fileWriter = [w \in FileWriters |-> OneWriter]
                                           /\ fileIn.format = "whole" /\ fileIn.sendError /\ watch.on))

DelayTurn == subject = "delay" /\ DelayNext
    /\ UNCHANGED <<subject, rbeVars, execVars, linkVars, splitVars, batchVars, chgVars, prsVars, stoVars>>
RbeTurn == subject = "rbe" /\ RbeNext
    /\ UNCHANGED <<subject, delayVars, execVars, linkVars, splitVars, batchVars, chgVars, prsVars, stoVars>>
ExecTurn == subject = "exec" /\ ExecNext
    /\ UNCHANGED <<subject, delayVars, rbeVars, linkVars, splitVars, batchVars, chgVars, prsVars, stoVars>>
LinkTurn == subject = "link" /\ LinkNext
    /\ UNCHANGED <<subject, delayVars, rbeVars, execVars, splitVars, batchVars, chgVars, prsVars, stoVars>>
SplitTurn == subject = "split" /\ SplitNext
    /\ UNCHANGED <<subject, delayVars, rbeVars, execVars, linkVars, batchVars, chgVars, prsVars, stoVars>>
BatchTurn == subject = "batch" /\ BatchNext
    /\ UNCHANGED <<subject, delayVars, rbeVars, execVars, linkVars, splitVars, chgVars, prsVars, stoVars>>
ChangeTurn == subject = "change" /\ ChgNext
    /\ UNCHANGED <<subject, delayVars, rbeVars, execVars, linkVars, splitVars, batchVars, prsVars, stoVars>>
ParserTurn == subject = "parser" /\ PrsNext
    /\ UNCHANGED <<subject, delayVars, rbeVars, execVars, linkVars, splitVars, batchVars, chgVars, stoVars>>
StorageTurn == subject = "storage" /\ StoNext
    /\ UNCHANGED <<subject, delayVars, rbeVars, execVars, linkVars, splitVars, batchVars, chgVars, prsVars>>

MCNext ==
    \/ DelayTurn \/ RbeTurn \/ ExecTurn \/ LinkTurn
    \/ SplitTurn \/ BatchTurn \/ ChangeTurn \/ ParserTurn \/ StorageTurn

MCSpec == MCInit /\ [][MCNext]_allVars
=============================================================================
