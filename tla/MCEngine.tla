------------------------------- MODULE MCEngine -------------------------------
(* Deploy payloads for the runs of EngineLifecycle.                          *)
EXTENDS EngineLifecycle, TLC

CONSTANTS f1, f2

Good(ids) == [flows |-> ids, bad |-> "none"]

\* Every way a deploy can end: both flows, one flow, no flows at all (start
\* refuses), and the failures of each step.
AllConfigs ==
  {Good({f1, f2}), Good({f1}), Good({})} \cup
  {[flows |-> {f1, f2}, bad |-> b] : b \in {"parse", "globals", f2}}

OneConfig == {Good({f1})}
=============================================================================
