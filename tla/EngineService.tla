----------------------------- MODULE EngineService -----------------------------
(***************************************************************************)
(* What the callers of the engine rely on, without locks, map guards, flow *)
(* objects or tasks: the engine is a switch.  A call is a short program of *)
(* effects, each of which happens at one moment or is refused with a cause:*)
(* the switch was the other way, there was nothing to start, the payload   *)
(* was faulty, or another call was under way.  EngineLifecycle implements  *)
(* it for any number of callers, abandoned calls included.                 *)
(***************************************************************************)

CONSTANTS Callers, Flows

VARIABLES
  running,   \* what is_running says
  held,      \* the flows the engine would start
  job,       \* the operation of each caller
  stage,     \* the effect its call comes to next
  outcome    \* how its last call ended

serviceVars == <<running, held, job, stage, outcome>>

Init ==
  /\ running = FALSE
  /\ held \subseteq Flows
  /\ stage = [p \in Callers |-> "idle"]
  /\ outcome = [p \in Callers |-> "none"]

Others(p) == \E q \in Callers \ {p} : stage[q] # "idle"

Advance(p, next) == stage' = [stage EXCEPT ![p] = next] /\ UNCHANGED outcome
Return(p, how) == stage' = [stage EXCEPT ![p] = "idle"] /\ outcome' = [outcome EXCEPT ![p] = how]

FirstEffect(o) ==
  CASE o = "start" -> "launch"
    [] o \in {"stop", "restart"} -> "halt"
    [] o \in {"redeploy", "state"} -> "look"

Ask(p, o) ==
  /\ stage[p] = "idle"
  /\ job' = [job EXCEPT ![p] = o]
  /\ Advance(p, FirstEffect(o))
  /\ UNCHANGED <<running, held>>

\* A deploy stops an engine that runs, or that another call is changing.
Look(p) ==
  /\ stage[p] = "look"
  /\ \/ job[p] = "state" /\ Return(p, "ok")
     \/ job[p] # "state" /\ (running \/ Others(p)) /\ Advance(p, "halt")
     \/ job[p] # "state" /\ ~running /\ Advance(p, "replace")
  /\ UNCHANGED <<running, held, job>>

Halt(p) ==
  /\ stage[p] = "halt" /\ running
  /\ running' = FALSE
  /\ \/ job[p] = "stop" /\ Return(p, "ok")
     \/ job[p] = "restart" /\ Advance(p, "launch")
     \/ job[p] = "redeploy" /\ Advance(p, "replace")
  /\ UNCHANGED <<held, job>>

\* The flows are replaced one by one, and by nobody but a deploy that has found
\* the engine stopped or has stopped it.
Replace(p) ==
  /\ stage[p] = "replace"
  /\ held' \subseteq Flows
  /\ UNCHANGED <<running, job, stage, outcome>>

Replaced(p) ==
  /\ stage[p] = "replace"
  /\ Advance(p, "launch")
  /\ UNCHANGED <<running, held, job>>

Launch(p) ==
  /\ stage[p] = "launch" /\ ~running
  /\ running' = TRUE
  /\ Return(p, "ok")
  /\ UNCHANGED <<held, job>>

\* An effect is refused for a cause, and a refused call changes nothing any more.  A deploy
\* may find its payload faulty at any point of the replacement.
Refuse(p) ==
  /\ \/ stage[p] = "halt" /\ (~running \/ Others(p))
     \/ stage[p] = "launch" /\ (running \/ held = {} \/ Others(p))
     \/ stage[p] = "replace"
  /\ Return(p, "err")
  /\ UNCHANGED <<running, held, job>>

Abandon(p) ==
  /\ stage[p] \in {"halt", "replace", "launch"}
  /\ Return(p, "dropped")
  /\ UNCHANGED <<running, held, job>>

Next ==
  \E p \in Callers :
    \/ \E o \in {"start", "stop", "restart", "redeploy", "state"} : Ask(p, o)
    \/ Look(p) \/ Halt(p) \/ Replace(p) \/ Replaced(p) \/ Launch(p)
    \/ Refuse(p) \/ Abandon(p)

Spec == Init /\ [][Next]_serviceVars
=============================================================================
