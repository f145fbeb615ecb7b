---------------------------- MODULE MCMessaging ----------------------------
(***************************************************************************)
(* The flows that the messaging specification is checked on.               *)
(***************************************************************************)
EXTENDS NodeMessaging, TLC

CONSTANTS a, b, c, d, k, w

NoLists == [n \in Nodes |-> <<>>]

\* a sends to the switch b and to d; b has two ports, to c and to d, which share its
\* message; w watches c.
SwitchWires == a :> <<<<b, d>>>> @@ b :> <<<<c>>, <<d>>>> @@ NoLists
SwitchCompletes == c :> <<w>> @@ NoLists

\* A catch node k sends what failed in b back to b: a retry loop.  The catch
\* node d comes after it and is for uncaught errors only.
LoopWires == k :> <<<<b>>>> @@ NoLists
LoopCatches == b :> <<k, d>> @@ NoLists

\* A node with two wires on one port.
PairWires == a :> <<<<b, c>>>> @@ NoLists

\* A chain of two nodes.
ChainWires == a :> <<<<b>>>> @@ NoLists
=============================================================================
