------------------------------ MODULE LinkCall ------------------------------
(***************************************************************************)
(* What a link call promises, without messages, stacks, locks or tasks:    *)
(* every call that was begun comes back on the output port at most once,   *)
(* or it is given up, and never both.  LinkNodes implements it.            *)
(***************************************************************************)
EXTENDS Naturals, Sequences

VARIABLE outcomes   \* outcomes[e]: what has become of the e-th call

\* forward_call_msg: a call waits for its return.
BeginCall == outcomes' = Append(outcomes, "open")

\* return_msg and timeout_task decide it, whichever comes first.
Decide(e, how) == outcomes[e] = "open" /\ outcomes' = [outcomes EXCEPT ![e] = how]

CallNext ==
    \/ BeginCall
    \/ \E e \in DOMAIN outcomes, how \in {"returned", "expired"} : Decide(e, how)

CallSpec == outcomes = <<>> /\ [][CallNext]_outcomes
=============================================================================
