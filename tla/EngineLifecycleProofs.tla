----------------------- MODULE EngineLifecycleProofs -----------------------
(***************************************************************************)
(* Proofs about EngineLifecycle, for every set of callers, flow ids,       *)
(* payloads and operations and every number of deploys.                    *)
(***************************************************************************)
EXTENDS EngineLifecycle, TLAPS

(* The end of a call keeps the types of what it assigns.                    *)
LEMMA ReturnTypes ==
  ASSUME TypeOK, NEW p \in Procs, NEW o \in {"ok", "err", "dropped"}, Return(p, o)
  PROVE  /\ pc' \in [Procs -> Labels]
         /\ res' \in [Procs -> {"none", "ok", "err", "dropped"}]
         /\ todo' \in [Procs -> SUBSET Objs]
<1>1. pc' \in [Procs -> Labels]
  BY DEF TypeOK, Return, Goto, Labels
<1>2. res' \in [Procs -> {"none", "ok", "err", "dropped"}]
  BY DEF TypeOK, Return
<1>3. todo' \in [Procs -> SUBSET Objs]
  BY DEF TypeOK, Return
<1>4. QED
  BY <1>1, <1>2, <1>3

(* Every variable stays within its type.                                    *)
THEOREM TypeCorrect == Spec => []TypeOK
<1>1. Init => TypeOK
  BY EngineAssumption DEF Init, TypeOK, ObjsOf, Objs, Gens, Labels, OpNames, Faults
<1>2. TypeOK /\ [Next]_vars => TypeOK'
  <2> SUFFICES ASSUME TypeOK, [Next]_vars PROVE TypeOK'
    OBVIOUS
  <2> USE EngineAssumption DEF TypeOK, Labels, OpNames, engineVars, taskVars, callVars, loopVars
  <2>1. ASSUME NEW p \in Procs, CallStart(p) PROVE TypeOK'
    BY <2>1 DEF CallStart, CallOp, Goto
  <2>2. ASSUME NEW p \in Procs, CallStop(p) PROVE TypeOK'
    BY <2>2 DEF CallStop, CallOp, Goto
  <2>3. ASSUME NEW p \in Procs, CallRestart(p) PROVE TypeOK'
    BY <2>3 DEF CallRestart, CallOp, Goto
  <2>4. ASSUME NEW p \in Procs, CallState(p) PROVE TypeOK'
    BY <2>4 DEF CallState, CallOp, Goto
  <2>5. ASSUME NEW p \in Procs, NEW c \in Configs, CallRedeploy(p, c) PROVE TypeOK'
    BY <2>5 DEF CallRedeploy, CallOp, Goto, Gens
  <2>6. ASSUME NEW p \in Procs, ProbeEnter(p) PROVE TypeOK'
    BY <2>6 DEF ProbeEnter, AfterProbe, Return, Goto
  <2>7. ASSUME NEW p \in Procs, ProbeLeave(p) PROVE TypeOK'
    BY <2>7 DEF ProbeLeave, AfterProbe, Return, Goto
  <2>8. ASSUME NEW p \in Procs, StopEnter(p) PROVE TypeOK'
    <3>1. CASE StopRefused
      <4>1. Return(p, "err") /\ UNCHANGED lock
        BY <2>8, <3>1 DEF StopEnter
      <4>2. QED
        BY <2>8, <4>1, ReturnTypes DEF StopEnter
    <3>2. CASE ~StopRefused
      BY <2>8, <3>2, ZenonT(40) DEF StopEnter, Return, Goto
    <3>3. QED
      BY <3>1, <3>2
  <2>9. ASSUME NEW p \in Procs, NEW f \in Objs, StopFlow(p, f) PROVE TypeOK'
    BY <2>9 DEF StopFlow
  <2>10. ASSUME NEW p \in Procs, StopJoin(p) PROVE TypeOK'
    BY <2>10 DEF StopJoin
  <2>11. ASSUME NEW p \in Procs, StopDone(p) PROVE TypeOK'
    BY <2>11 DEF StopDone, AfterStop, Return, Goto
  <2>12. ASSUME NEW p \in Procs, StartEnter(p) PROVE TypeOK'
    <3>1. CASE StartRefused
      <4>1. Return(p, "err") /\ UNCHANGED lock
        BY <2>12, <3>1 DEF StartEnter
      <4>2. QED
        BY <2>12, <4>1, ReturnTypes DEF StartEnter
    <3>2. CASE ~StartRefused
      BY <2>12, <3>2, ZenonT(40) DEF StartEnter, Return, Goto
    <3>3. QED
      BY <3>1, <3>2
  <2>13. ASSUME NEW p \in Procs, NEW f \in Objs, StartFlow(p, f) PROVE TypeOK'
    <3>1. CASE f.id \in OwnedIds
      <4>1. cur' \in [Procs -> Objs \cup {NoObj}] /\ spawned' \in [Procs -> Nat] /\ UNCHANGED todo
        BY <2>13, <3>1 DEF StartFlow
      <4>2. forwarders' \in [Objs -> Nat]
        BY <2>13, <3>1 DEF StartFlow
      <4>3. QED
        BY <2>13, <4>1, <4>2 DEF StartFlow
    <3>2. CASE f.id \notin OwnedIds
      BY <2>13, <3>2 DEF StartFlow
    <3>3. QED
      BY <3>1, <3>2
  <2>14. ASSUME NEW p \in Procs, StartNode(p) PROVE TypeOK'
    BY <2>14 DEF StartNode
  <2>15. ASSUME NEW p \in Procs, StartFlowDone(p) PROVE TypeOK'
    BY <2>15 DEF StartFlowDone
  <2>16. ASSUME NEW p \in Procs, StartDone(p) PROVE TypeOK'
    BY <2>16 DEF StartDone, Return, Goto
  <2>17. ASSUME NEW p \in Procs, NEW f \in Objs, ClearFlow(p, f) PROVE TypeOK'
    BY <2>17 DEF ClearFlow
  <2>18. ASSUME NEW p \in Procs, ClearFlowsDone(p) PROVE TypeOK'
    BY <2>18 DEF ClearFlowsDone, Goto
  <2>19. ASSUME NEW p \in Procs, ClearNodes(p) PROVE TypeOK'
    BY <2>19 DEF ClearNodes, Goto
  <2>20. ASSUME NEW p \in Procs, Parse(p) PROVE TypeOK'
    BY <2>20 DEF Parse, Return, Goto
  <2>21. ASSUME NEW p \in Procs, SetHash(p) PROVE TypeOK'
    BY <2>21 DEF SetHash, Goto
  <2>22. ASSUME NEW p \in Procs, LoadGlobals(p) PROVE TypeOK'
    <3>1. ObjsOf(cfg[p].flows, gen[p]) \in SUBSET Objs
      BY DEF ObjsOf, Objs
    <3>2. CASE cfg[p].bad = "globals"
      <4>1. Return(p, "err") /\ UNCHANGED globals
        BY <2>22, <3>2 DEF LoadGlobals
      <4>2. QED
        BY <2>22, <4>1, ReturnTypes DEF LoadGlobals
    <3>3. CASE cfg[p].bad # "globals"
      <4>1. globals' \in SUBSET Gens
        BY <2>22, <3>3 DEF LoadGlobals
      <4>2. todo' \in [Procs -> SUBSET Objs]
        BY <2>22, <3>1, <3>3 DEF LoadGlobals
      <4>3. pc' \in [Procs -> Labels] /\ UNCHANGED res
        BY <2>22, <3>3 DEF LoadGlobals, Goto
      <4>4. QED
        BY <2>22, <4>1, <4>2, <4>3 DEF LoadGlobals
    <3>4. QED
      BY <3>2, <3>3
  <2>23. ASSUME NEW p \in Procs, NEW f \in Objs, LoadFlow(p, f) PROVE TypeOK'
    <3>1. CASE LoadFails(p, f)
      <4>1. Return(p, "err") /\ UNCHANGED <<flows, nodes>>
        BY <2>23, <3>1 DEF LoadFlow
      <4>2. QED
        BY <2>23, <4>1, ReturnTypes DEF LoadFlow
    <3>2. CASE ~LoadFails(p, f)
      BY <2>23, <3>2 DEF LoadFlow, Return, Goto
    <3>3. QED
      BY <3>1, <3>2
  <2>24. ASSUME NEW p \in Procs, LoadDone(p) PROVE TypeOK'
    BY <2>24 DEF LoadDone, Goto
  <2>25. ASSUME NEW p \in Procs, Drop(p) PROVE TypeOK'
    BY <2>25 DEF Drop, Return, Goto
  <2>26. ASSUME NEW f \in Objs, TaskExit(f) PROVE TypeOK'
    BY <2>26 DEF TaskExit
  <2>27. ASSUME NEW f \in Objs, ForwarderExit(f) PROVE TypeOK'
    BY <2>27 DEF ForwarderExit
  <2>28. CASE UNCHANGED vars
    BY <2>28 DEF vars
  <2>29. QED
    BY <2>1, <2>2, <2>3, <2>4, <2>5, <2>6, <2>7, <2>8, <2>9, <2>10, <2>11, <2>12, <2>13, <2>14, <2>15, <2>16, <2>17, <2>18, <2>19, <2>20, <2>21, <2>22, <2>23, <2>24, <2>25, <2>26, <2>27, <2>28 DEF Next, Step, Call
<1>3. QED
  BY <1>1, <1>2, PTL DEF Spec

-----------------------------------------------------------------------------
(* The write guard of `shutdown` is held exactly while a call is inside the
   loop of start or stop, and so is every guard on a map entry.             *)
LockInv ==
  /\ \A p \in Procs : lock = p <=> pc[p] \in {"starting", "stopping"}
  /\ \A p \in Procs : cur[p] # NoObj => pc[p] \in {"starting", "stopping"}

(* LockInv is inductive, dropped calls included.                            *)
THEOREM LockInvHolds == Spec => []LockInv
<1>1. Init => LockInv
  BY EngineAssumption DEF Init, LockInv
<1>2. TypeOK /\ LockInv /\ [Next]_vars => LockInv'
  <2> SUFFICES ASSUME TypeOK, LockInv, [Next]_vars PROVE LockInv'
    OBVIOUS
  <2> USE EngineAssumption DEF TypeOK, LockInv, engineVars, taskVars, callVars, loopVars
  <2>1. ASSUME NEW p \in Procs, CallStart(p) PROVE LockInv'
    BY <2>1 DEF CallStart, CallOp, Goto
  <2>2. ASSUME NEW p \in Procs, CallStop(p) PROVE LockInv'
    BY <2>2 DEF CallStop, CallOp, Goto
  <2>3. ASSUME NEW p \in Procs, CallRestart(p) PROVE LockInv'
    BY <2>3 DEF CallRestart, CallOp, Goto
  <2>4. ASSUME NEW p \in Procs, CallState(p) PROVE LockInv'
    BY <2>4 DEF CallState, CallOp, Goto
  <2>5. ASSUME NEW p \in Procs, NEW c \in Configs, CallRedeploy(p, c) PROVE LockInv'
    BY <2>5 DEF CallRedeploy, CallOp, Goto
  <2>6. ASSUME NEW p \in Procs, ProbeEnter(p) PROVE LockInv'
    BY <2>6 DEF ProbeEnter, AfterProbe, Return, Goto
  <2>7. ASSUME NEW p \in Procs, ProbeLeave(p) PROVE LockInv'
    BY <2>7 DEF ProbeLeave, AfterProbe, Return, Goto
  <2>8. ASSUME NEW p \in Procs, StopEnter(p) PROVE LockInv'
    BY <2>8 DEF StopEnter, StopRefused, TryWriteFails, Return, Goto
  <2>9. ASSUME NEW p \in Procs, NEW f \in Objs, StopFlow(p, f) PROVE LockInv'
    BY <2>9 DEF StopFlow
  <2>10. ASSUME NEW p \in Procs, StopJoin(p) PROVE LockInv'
    BY <2>10 DEF StopJoin
  <2>11. ASSUME NEW p \in Procs, StopDone(p) PROVE LockInv'
    BY <2>11 DEF StopDone, AfterStop, Return, Goto
  <2>12. ASSUME NEW p \in Procs, StartEnter(p) PROVE LockInv'
    BY <2>12 DEF StartEnter, StartRefused, TryWriteFails, Return, Goto
  <2>13. ASSUME NEW p \in Procs, NEW f \in Objs, StartFlow(p, f) PROVE LockInv'
    BY <2>13 DEF StartFlow
  <2>14. ASSUME NEW p \in Procs, StartNode(p) PROVE LockInv'
    BY <2>14 DEF StartNode
  <2>15. ASSUME NEW p \in Procs, StartFlowDone(p) PROVE LockInv'
    BY <2>15 DEF StartFlowDone
  <2>16. ASSUME NEW p \in Procs, StartDone(p) PROVE LockInv'
    BY <2>16 DEF StartDone, Return, Goto
  <2>17. ASSUME NEW p \in Procs, NEW f \in Objs, ClearFlow(p, f) PROVE LockInv'
    BY <2>17 DEF ClearFlow
  <2>18. ASSUME NEW p \in Procs, ClearFlowsDone(p) PROVE LockInv'
    BY <2>18 DEF ClearFlowsDone, Goto
  <2>19. ASSUME NEW p \in Procs, ClearNodes(p) PROVE LockInv'
    BY <2>19 DEF ClearNodes, Goto
  <2>20. ASSUME NEW p \in Procs, Parse(p) PROVE LockInv'
    BY <2>20 DEF Parse, Return, Goto
  <2>21. ASSUME NEW p \in Procs, SetHash(p) PROVE LockInv'
    BY <2>21 DEF SetHash, Goto
  <2>22. ASSUME NEW p \in Procs, LoadGlobals(p) PROVE LockInv'
    BY <2>22 DEF LoadGlobals, Return, Goto
  <2>23. ASSUME NEW p \in Procs, NEW f \in Objs, LoadFlow(p, f) PROVE LockInv'
    BY <2>23 DEF LoadFlow, Return, Goto
  <2>24. ASSUME NEW p \in Procs, LoadDone(p) PROVE LockInv'
    BY <2>24 DEF LoadDone, Goto
  <2>25. ASSUME NEW p \in Procs, Drop(p) PROVE LockInv'
    BY <2>25 DEF Drop, Return, Goto
  <2>26. ASSUME NEW f \in Objs, TaskExit(f) PROVE LockInv'
    BY <2>26 DEF TaskExit
  <2>27. ASSUME NEW f \in Objs, ForwarderExit(f) PROVE LockInv'
    BY <2>27 DEF ForwarderExit
  <2>28. CASE UNCHANGED vars
    BY <2>28 DEF vars
  <2>29. QED
    BY <2>1, <2>2, <2>3, <2>4, <2>5, <2>6, <2>7, <2>8, <2>9, <2>10, <2>11, <2>12, <2>13, <2>14, <2>15, <2>16, <2>17, <2>18, <2>19, <2>20, <2>21, <2>22, <2>23, <2>24, <2>25, <2>26, <2>27, <2>28 DEF Next, Step, Call
<1>3. QED
  BY <1>1, <1>2, TypeCorrect, PTL DEF Spec

(* The write guard never outlives the call that took it, a dropped HTTP
   handler included: start and stop can always be tried again.              *)
THEOREM LockDiscipline == Spec => []LockHeldByActive
<1>1. TypeOK /\ LockInv => LockHeldByActive
  BY DEF TypeOK, LockInv, LockHeldByActive
<1>2. QED
  BY <1>1, TypeCorrect, LockInvHolds, PTL

-----------------------------------------------------------------------------
(* A flow object that no deploy has inserted yet.                           *)
Fresh(f) == tasks[f] = 0 /\ f \notin flows

BeforeLoad == {"check", "probing", "stop_enter", "stopping", "clear",
               "clear_nodes", "parse", "hash", "globals"}
Deploying(p) == op[p] = "redeploy" /\ pc[p] \in BeforeLoad \cup {"load"}

(* Which operation a label belongs to.                                      *)
OpInv ==
  \A p \in Procs :
    /\ pc[p] \in {"check", "probing"} => op[p] \in {"redeploy", "state"}
    /\ pc[p] \in {"clear", "clear_nodes", "parse", "hash", "globals", "load"}
         => op[p] = "redeploy"

(* Concurrent deploys build different generations, and the objects a deploy
   is still to insert are known to nobody and run nothing.                  *)
GenInv ==
  /\ \A f \in Objs : f.gen >= nextGen => Fresh(f)
  /\ \A p \in Procs : Deploying(p) => gen[p] < nextGen
  /\ \A p, q \in Procs : p # q /\ Deploying(p) /\ Deploying(q) => gen[p] # gen[q]
  /\ \A p \in Procs : Deploying(p) /\ pc[p] # "load" =>
        \A f \in Objs : f.gen = gen[p] => Fresh(f)
  /\ \A p \in Procs : pc[p] = "load" => \A f \in todo[p] : f.gen = gen[p] /\ Fresh(f)

(* A guarded entry is registered and still to be visited.                   *)
CurInv ==
  \A p \in Procs : cur[p] # NoObj => cur[p] \in flows \cap todo[p]

(* The argument of the engine: tasks appear only under the write guard, one
   flow object after the other, and are gone before it is given back.       *)
TaskInv ==
  /\ OneTaskPerNode
  /\ RegisteredQuiet
  /\ \A p \in Procs : pc[p] = "starting" =>
        /\ shutdown
        /\ \A f \in flows \cap todo[p] : f # cur[p] => tasks[f] = 0
        /\ cur[p] # NoObj => tasks[cur[p]] <= spawned[p] /\ spawned[p] <= NodesPerFlow
  /\ \A p \in Procs : pc[p] = "stopping" =>
        /\ ~shutdown
        /\ \A f \in flows \ todo[p] : tasks[f] = 0

(* OpInv is inductive.                                                      *)
THEOREM OpInvHolds == Spec => []OpInv
<1>1. Init => OpInv
  BY EngineAssumption DEF Init, OpInv
<1>2. TypeOK /\ OpInv /\ [Next]_vars => OpInv'
  <2> SUFFICES ASSUME TypeOK, OpInv, [Next]_vars PROVE OpInv'
    OBVIOUS
  <2> USE EngineAssumption DEF TypeOK, OpInv, engineVars, taskVars, callVars, loopVars
  <2>1. ASSUME NEW p \in Procs, CallStart(p) PROVE OpInv'
    BY <2>1 DEF CallStart, CallOp, Goto
  <2>2. ASSUME NEW p \in Procs, CallStop(p) PROVE OpInv'
    BY <2>2 DEF CallStop, CallOp, Goto
  <2>3. ASSUME NEW p \in Procs, CallRestart(p) PROVE OpInv'
    BY <2>3 DEF CallRestart, CallOp, Goto
  <2>4. ASSUME NEW p \in Procs, CallState(p) PROVE OpInv'
    BY <2>4 DEF CallState, CallOp, Goto
  <2>5. ASSUME NEW p \in Procs, NEW c \in Configs, CallRedeploy(p, c) PROVE OpInv'
    BY <2>5 DEF CallRedeploy, CallOp, Goto
  <2>6. ASSUME NEW p \in Procs, ProbeEnter(p) PROVE OpInv'
    BY <2>6 DEF ProbeEnter, AfterProbe, Return, Goto
  <2>7. ASSUME NEW p \in Procs, ProbeLeave(p) PROVE OpInv'
    BY <2>7 DEF ProbeLeave, AfterProbe, Return, Goto
  <2>8. ASSUME NEW p \in Procs, StopEnter(p) PROVE OpInv'
    BY <2>8 DEF StopEnter, StopRefused, TryWriteFails, Return, Goto
  <2>9. ASSUME NEW p \in Procs, NEW f \in Objs, StopFlow(p, f) PROVE OpInv'
    BY <2>9 DEF StopFlow
  <2>10. ASSUME NEW p \in Procs, StopJoin(p) PROVE OpInv'
    BY <2>10 DEF StopJoin
  <2>11. ASSUME NEW p \in Procs, StopDone(p) PROVE OpInv'
    BY <2>11 DEF StopDone, AfterStop, Return, Goto
  <2>12. ASSUME NEW p \in Procs, StartEnter(p) PROVE OpInv'
    BY <2>12 DEF StartEnter, StartRefused, TryWriteFails, Return, Goto
  <2>13. ASSUME NEW p \in Procs, NEW f \in Objs, StartFlow(p, f) PROVE OpInv'
    BY <2>13 DEF StartFlow
  <2>14. ASSUME NEW p \in Procs, StartNode(p) PROVE OpInv'
    BY <2>14 DEF StartNode
  <2>15. ASSUME NEW p \in Procs, StartFlowDone(p) PROVE OpInv'
    BY <2>15 DEF StartFlowDone
  <2>16. ASSUME NEW p \in Procs, StartDone(p) PROVE OpInv'
    BY <2>16 DEF StartDone, Return, Goto
  <2>17. ASSUME NEW p \in Procs, NEW f \in Objs, ClearFlow(p, f) PROVE OpInv'
    BY <2>17 DEF ClearFlow
  <2>18. ASSUME NEW p \in Procs, ClearFlowsDone(p) PROVE OpInv'
    BY <2>18 DEF ClearFlowsDone, Goto
  <2>19. ASSUME NEW p \in Procs, ClearNodes(p) PROVE OpInv'
    BY <2>19 DEF ClearNodes, Goto
  <2>20. ASSUME NEW p \in Procs, Parse(p) PROVE OpInv'
    BY <2>20 DEF Parse, Return, Goto
  <2>21. ASSUME NEW p \in Procs, SetHash(p) PROVE OpInv'
    BY <2>21 DEF SetHash, Goto
  <2>22. ASSUME NEW p \in Procs, LoadGlobals(p) PROVE OpInv'
    BY <2>22 DEF LoadGlobals, Return, Goto
  <2>23. ASSUME NEW p \in Procs, NEW f \in Objs, LoadFlow(p, f) PROVE OpInv'
    BY <2>23 DEF LoadFlow, Return, Goto
  <2>24. ASSUME NEW p \in Procs, LoadDone(p) PROVE OpInv'
    BY <2>24 DEF LoadDone, Goto
  <2>25. ASSUME NEW p \in Procs, Drop(p) PROVE OpInv'
    BY <2>25 DEF Drop, Return, Goto
  <2>26. ASSUME NEW f \in Objs, TaskExit(f) PROVE OpInv'
    BY <2>26 DEF TaskExit
  <2>27. ASSUME NEW f \in Objs, ForwarderExit(f) PROVE OpInv'
    BY <2>27 DEF ForwarderExit
  <2>28. CASE UNCHANGED vars
    BY <2>28 DEF vars
  <2>29. QED
    BY <2>1, <2>2, <2>3, <2>4, <2>5, <2>6, <2>7, <2>8, <2>9, <2>10, <2>11, <2>12, <2>13, <2>14, <2>15, <2>16, <2>17, <2>18, <2>19, <2>20, <2>21, <2>22, <2>23, <2>24, <2>25, <2>26, <2>27, <2>28 DEF Next, Step, Call
<1>3. QED
  BY <1>1, <1>2, TypeCorrect, PTL DEF Spec

(* CurInv is inductive: no clear and no insert touches a guarded entry.     *)
THEOREM CurInvHolds == Spec => []CurInv
<1>1. Init => CurInv
  BY EngineAssumption DEF Init, CurInv
<1>2. TypeOK /\ LockInv /\ CurInv /\ [Next]_vars => CurInv'
  <2> SUFFICES ASSUME TypeOK, LockInv, CurInv, [Next]_vars PROVE CurInv'
    OBVIOUS
  <2> USE EngineAssumption DEF TypeOK, LockInv, CurInv, Guarded, engineVars, taskVars, callVars, loopVars
  <2>1. ASSUME NEW p \in Procs, CallStart(p) PROVE CurInv'
    BY <2>1 DEF CallStart, CallOp, Goto
  <2>2. ASSUME NEW p \in Procs, CallStop(p) PROVE CurInv'
    BY <2>2 DEF CallStop, CallOp, Goto
  <2>3. ASSUME NEW p \in Procs, CallRestart(p) PROVE CurInv'
    BY <2>3 DEF CallRestart, CallOp, Goto
  <2>4. ASSUME NEW p \in Procs, CallState(p) PROVE CurInv'
    BY <2>4 DEF CallState, CallOp, Goto
  <2>5. ASSUME NEW p \in Procs, NEW c \in Configs, CallRedeploy(p, c) PROVE CurInv'
    BY <2>5 DEF CallRedeploy, CallOp, Goto
  <2>6. ASSUME NEW p \in Procs, ProbeEnter(p) PROVE CurInv'
    BY <2>6 DEF ProbeEnter, AfterProbe, Return, Goto
  <2>7. ASSUME NEW p \in Procs, ProbeLeave(p) PROVE CurInv'
    BY <2>7 DEF ProbeLeave, AfterProbe, Return, Goto
  <2>8. ASSUME NEW p \in Procs, StopEnter(p) PROVE CurInv'
    BY <2>8 DEF StopEnter, StopRefused, TryWriteFails, Return, Goto
  <2>9. ASSUME NEW p \in Procs, NEW f \in Objs, StopFlow(p, f) PROVE CurInv'
    BY <2>9 DEF StopFlow
  <2>10. ASSUME NEW p \in Procs, StopJoin(p) PROVE CurInv'
    BY <2>10 DEF StopJoin
  <2>11. ASSUME NEW p \in Procs, StopDone(p) PROVE CurInv'
    BY <2>11 DEF StopDone, AfterStop, Return, Goto
  <2>12. ASSUME NEW p \in Procs, StartEnter(p) PROVE CurInv'
    BY <2>12 DEF StartEnter, StartRefused, TryWriteFails, Return, Goto
  <2>13. ASSUME NEW p \in Procs, NEW f \in Objs, StartFlow(p, f) PROVE CurInv'
    BY <2>13 DEF StartFlow
  <2>14. ASSUME NEW p \in Procs, StartNode(p) PROVE CurInv'
    BY <2>14 DEF StartNode
  <2>15. ASSUME NEW p \in Procs, StartFlowDone(p) PROVE CurInv'
    BY <2>15 DEF StartFlowDone
  <2>16. ASSUME NEW p \in Procs, StartDone(p) PROVE CurInv'
    BY <2>16 DEF StartDone, Return, Goto
  <2>17. ASSUME NEW p \in Procs, NEW f \in Objs, ClearFlow(p, f) PROVE CurInv'
    BY <2>17 DEF ClearFlow
  <2>18. ASSUME NEW p \in Procs, ClearFlowsDone(p) PROVE CurInv'
    BY <2>18 DEF ClearFlowsDone, Goto
  <2>19. ASSUME NEW p \in Procs, ClearNodes(p) PROVE CurInv'
    BY <2>19 DEF ClearNodes, Goto
  <2>20. ASSUME NEW p \in Procs, Parse(p) PROVE CurInv'
    BY <2>20 DEF Parse, Return, Goto
  <2>21. ASSUME NEW p \in Procs, SetHash(p) PROVE CurInv'
    BY <2>21 DEF SetHash, Goto
  <2>22. ASSUME NEW p \in Procs, LoadGlobals(p) PROVE CurInv'
    BY <2>22 DEF LoadGlobals, Return, Goto
  <2>23. ASSUME NEW p \in Procs, NEW f \in Objs, LoadFlow(p, f) PROVE CurInv'
    BY <2>23 DEF LoadFlow, Return, Goto
  <2>24. ASSUME NEW p \in Procs, LoadDone(p) PROVE CurInv'
    BY <2>24 DEF LoadDone, Goto
  <2>25. ASSUME NEW p \in Procs, Drop(p) PROVE CurInv'
    BY <2>25 DEF Drop, Return, Goto
  <2>26. ASSUME NEW f \in Objs, TaskExit(f) PROVE CurInv'
    BY <2>26 DEF TaskExit
  <2>27. ASSUME NEW f \in Objs, ForwarderExit(f) PROVE CurInv'
    BY <2>27 DEF ForwarderExit
  <2>28. CASE UNCHANGED vars
    BY <2>28 DEF vars
  <2>29. QED
    BY <2>1, <2>2, <2>3, <2>4, <2>5, <2>6, <2>7, <2>8, <2>9, <2>10, <2>11, <2>12, <2>13, <2>14, <2>15, <2>16, <2>17, <2>18, <2>19, <2>20, <2>21, <2>22, <2>23, <2>24, <2>25, <2>26, <2>27, <2>28 DEF Next, Step, Call
<1>3. QED
  BY <1>1, <1>2, TypeCorrect, LockInvHolds, PTL DEF Spec

(* What a step must respect to preserve GenInv: fresh objects stay fresh, and
   nobody enters a deploy, steps back from loading, or has more to load.    *)
LEMMA GenFrame ==
  ASSUME TypeOK, GenInv, gen' = gen, nextGen' = nextGen,
         \A f \in Objs : Fresh(f) => Fresh(f)',
         \A q \in Procs : Deploying(q)' => Deploying(q),
         \A q \in Procs : pc[q] = "load" => pc'[q] \notin BeforeLoad,
         \A q \in Procs : pc'[q] = "load" => pc[q] = "load" /\ todo'[q] \subseteq todo[q]
  PROVE  GenInv'
<1>1. \A f \in Objs : f.gen >= nextGen' => Fresh(f)'
  BY DEF GenInv
<1>2. \A q \in Procs : Deploying(q)' => gen'[q] < nextGen'
  BY DEF GenInv
<1>3. \A q, r \in Procs : q # r /\ Deploying(q)' /\ Deploying(r)' => gen'[q] # gen'[r]
  BY DEF GenInv
<1>4. \A q \in Procs : Deploying(q)' /\ pc'[q] # "load" =>
         \A f \in Objs : f.gen = gen'[q] => Fresh(f)'
  BY DEF GenInv, Deploying
<1>5. \A q \in Procs : pc'[q] = "load" => \A f \in todo'[q] : f.gen = gen'[q] /\ Fresh(f)'
  <2> SUFFICES ASSUME NEW q \in Procs, pc'[q] = "load", NEW f \in todo'[q]
               PROVE  f.gen = gen'[q] /\ Fresh(f)'
    OBVIOUS
  <2>1. f \in todo[q] /\ f \in Objs /\ pc[q] = "load"
    BY DEF TypeOK
  <2>2. QED
    BY <2>1 DEF GenInv
<1>6. QED
  BY <1>1, <1>2, <1>3, <1>4, <1>5 DEF GenInv

(* GenInv is inductive: only the deploy that owns a generation inserts it.  *)
THEOREM GenInvHolds == Spec => []GenInv
<1>1. Init => GenInv
  BY EngineAssumption DEF Init, GenInv, Fresh, Deploying, BeforeLoad, ObjsOf, Objs, Gens
<1>2. TypeOK /\ LockInv /\ OpInv /\ CurInv /\ GenInv /\ [Next]_vars => GenInv'
  <2> SUFFICES ASSUME TypeOK, LockInv, OpInv, CurInv, GenInv, [Next]_vars PROVE GenInv'
    OBVIOUS
  <2> USE EngineAssumption DEF TypeOK, LockInv, OpInv, CurInv, engineVars, taskVars, callVars, loopVars
  <2>1. ASSUME NEW p \in Procs, CallStart(p) PROVE GenInv'
    BY <2>1 DEF CallStart, CallOp, Goto, GenInv, Fresh, Deploying, BeforeLoad
  <2>2. ASSUME NEW p \in Procs, CallStop(p) PROVE GenInv'
    BY <2>2 DEF CallStop, CallOp, Goto, GenInv, Fresh, Deploying, BeforeLoad
  <2>3. ASSUME NEW p \in Procs, CallRestart(p) PROVE GenInv'
    BY <2>3 DEF CallRestart, CallOp, Goto, GenInv, Fresh, Deploying, BeforeLoad
  <2>4. ASSUME NEW p \in Procs, CallState(p) PROVE GenInv'
    BY <2>4 DEF CallState, CallOp, Goto, GenInv, Fresh, Deploying, BeforeLoad
  <2>5. ASSUME NEW p \in Procs, NEW c \in Configs, CallRedeploy(p, c) PROVE GenInv'
    <3>1. /\ pc'[p] = "check" /\ op'[p] = "redeploy" /\ gen'[p] = nextGen
          /\ nextGen' = nextGen + 1
          /\ \A q \in Procs \ {p} : pc'[q] = pc[q] /\ op'[q] = op[q] /\ gen'[q] = gen[q]
          /\ todo' = todo
      BY <2>5 DEF CallRedeploy, CallOp, Goto
    <3>2. \A f \in Objs : Fresh(f)' <=> Fresh(f)
      BY <2>5 DEF CallRedeploy, Fresh
    <3>3. \A f \in Objs : f.gen \in Nat
      BY DEF Objs, Gens
    <3>4. \A q \in Procs \ {p} : Deploying(q)' => Deploying(q) /\ gen[q] < nextGen /\ gen[q] \in Nat
      BY <3>1 DEF Deploying, GenInv, Gens
    <3>5. nextGen \in Nat
      BY DEF Gens
    <3>6. \A f \in Objs : f.gen >= nextGen' => Fresh(f)'
      BY <3>1, <3>2, <3>3, <3>5 DEF GenInv
    <3>7. \A q \in Procs : Deploying(q)' => gen'[q] < nextGen'
      BY <3>1, <3>4, <3>5
    <3>8. \A q, r \in Procs : q # r /\ Deploying(q)' /\ Deploying(r)' => gen'[q] # gen'[r]
      BY <3>1, <3>4, <3>5 DEF GenInv
    <3>9. \A q \in Procs : Deploying(q)' /\ pc'[q] # "load" =>
             \A f \in Objs : f.gen = gen'[q] => Fresh(f)'
      BY <3>1, <3>2, <3>3, <3>4, <3>5 DEF GenInv
    <3>10. \A q \in Procs : pc'[q] = "load" => \A f \in todo'[q] : f.gen = gen'[q] /\ Fresh(f)'
      BY <3>1, <3>2 DEF GenInv
    <3>11. QED
      BY <3>6, <3>7, <3>8, <3>9, <3>10 DEF GenInv
  <2>6. ASSUME NEW p \in Procs, ProbeEnter(p) PROVE GenInv'
    <3>1. gen' = gen /\ nextGen' = nextGen /\ \A f \in Objs : Fresh(f) => Fresh(f)'
      BY <2>6 DEF ProbeEnter, AfterProbe, Fresh, GenInv, Fresh, Deploying, BeforeLoad
    <3>2. \A q \in Procs : Deploying(q)' => Deploying(q)
      BY <2>6 DEF ProbeEnter, AfterProbe, Deploying, BeforeLoad, Return, Goto, GenInv, Fresh, Deploying, BeforeLoad
    <3>3. \A q \in Procs : pc[q] = "load" => pc'[q] = "load"
      BY <2>6 DEF ProbeEnter, AfterProbe, Return, Goto, GenInv, Fresh, Deploying, BeforeLoad
    <3>4. \A q \in Procs : pc'[q] = "load" => pc[q] = "load" /\ todo'[q] = todo[q]
      BY <2>6 DEF ProbeEnter, AfterProbe, Return, Goto, GenInv, Fresh, Deploying, BeforeLoad
    <3>5. QED
      BY <3>1, <3>2, <3>3, <3>4, GenFrame DEF BeforeLoad
  <2>7. ASSUME NEW p \in Procs, ProbeLeave(p) PROVE GenInv'
    <3>1. gen' = gen /\ nextGen' = nextGen /\ \A f \in Objs : Fresh(f) => Fresh(f)'
      BY <2>7 DEF ProbeLeave, AfterProbe, Fresh, GenInv, Fresh, Deploying, BeforeLoad
    <3>2. \A q \in Procs : Deploying(q)' => Deploying(q)
      BY <2>7 DEF ProbeLeave, AfterProbe, Deploying, BeforeLoad, Return, Goto, GenInv, Fresh, Deploying, BeforeLoad
    <3>3. \A q \in Procs : pc[q] = "load" => pc'[q] = "load"
      BY <2>7 DEF ProbeLeave, AfterProbe, Return, Goto, GenInv, Fresh, Deploying, BeforeLoad
    <3>4. \A q \in Procs : pc'[q] = "load" => pc[q] = "load" /\ todo'[q] = todo[q]
      BY <2>7 DEF ProbeLeave, AfterProbe, Return, Goto, GenInv, Fresh, Deploying, BeforeLoad
    <3>5. QED
      BY <3>1, <3>2, <3>3, <3>4, GenFrame DEF BeforeLoad
  <2>8. ASSUME NEW p \in Procs, StopEnter(p) PROVE GenInv'
    <3>1. gen' = gen /\ nextGen' = nextGen /\ \A f \in Objs : Fresh(f) => Fresh(f)'
      BY <2>8 DEF StopEnter, Fresh, GenInv, Fresh, Deploying, BeforeLoad
    <3>2. \A q \in Procs : Deploying(q)' => Deploying(q)
      BY <2>8 DEF StopEnter, Deploying, BeforeLoad, Return, Goto, GenInv, Fresh, Deploying, BeforeLoad
    <3>3. \A q \in Procs : pc[q] = "load" => pc'[q] = "load"
      BY <2>8 DEF StopEnter, Return, Goto, GenInv, Fresh, Deploying, BeforeLoad
    <3>4. \A q \in Procs : pc'[q] = "load" => pc[q] = "load" /\ todo'[q] = todo[q]
      BY <2>8 DEF StopEnter, Return, Goto, GenInv, Fresh, Deploying, BeforeLoad
    <3>5. QED
      BY <3>1, <3>2, <3>3, <3>4, GenFrame DEF BeforeLoad
  <2>9. ASSUME NEW p \in Procs, NEW f \in Objs, StopFlow(p, f) PROVE GenInv'
    BY <2>9 DEF StopFlow, GenInv, Fresh, Deploying, BeforeLoad
  <2>10. ASSUME NEW p \in Procs, StopJoin(p) PROVE GenInv'
    BY <2>10 DEF StopJoin, GenInv, Fresh, Deploying, BeforeLoad
  <2>11. ASSUME NEW p \in Procs, StopDone(p) PROVE GenInv'
    <3>1. gen' = gen /\ nextGen' = nextGen /\ \A f \in Objs : Fresh(f) => Fresh(f)'
      BY <2>11 DEF StopDone, AfterStop, Fresh, GenInv, Fresh, Deploying, BeforeLoad
    <3>2. \A q \in Procs : Deploying(q)' => Deploying(q)
      BY <2>11 DEF StopDone, AfterStop, Deploying, BeforeLoad, Return, Goto, GenInv, Fresh, Deploying, BeforeLoad
    <3>3. \A q \in Procs : pc[q] = "load" => pc'[q] = "load"
      BY <2>11 DEF StopDone, AfterStop, Return, Goto, GenInv, Fresh, Deploying, BeforeLoad
    <3>4. \A q \in Procs : pc'[q] = "load" => pc[q] = "load" /\ todo'[q] = todo[q]
      BY <2>11 DEF StopDone, AfterStop, Return, Goto, GenInv, Fresh, Deploying, BeforeLoad
    <3>5. QED
      BY <3>1, <3>2, <3>3, <3>4, GenFrame DEF BeforeLoad
  <2>12. ASSUME NEW p \in Procs, StartEnter(p) PROVE GenInv'
    <3>1. gen' = gen /\ nextGen' = nextGen /\ \A f \in Objs : Fresh(f) => Fresh(f)'
      BY <2>12 DEF StartEnter, Fresh, GenInv, Fresh, Deploying, BeforeLoad
    <3>2. \A q \in Procs : Deploying(q)' => Deploying(q)
      BY <2>12 DEF StartEnter, Deploying, BeforeLoad, Return, Goto, GenInv, Fresh, Deploying, BeforeLoad
    <3>3. \A q \in Procs : pc[q] = "load" => pc'[q] = "load"
      BY <2>12 DEF StartEnter, Return, Goto, GenInv, Fresh, Deploying, BeforeLoad
    <3>4. \A q \in Procs : pc'[q] = "load" => pc[q] = "load" /\ todo'[q] = todo[q]
      BY <2>12 DEF StartEnter, Return, Goto, GenInv, Fresh, Deploying, BeforeLoad
    <3>5. QED
      BY <3>1, <3>2, <3>3, <3>4, GenFrame DEF BeforeLoad
  <2>13. ASSUME NEW p \in Procs, NEW f \in Objs, StartFlow(p, f) PROVE GenInv'
    BY <2>13 DEF StartFlow, GenInv, Fresh, Deploying, BeforeLoad
  <2>14. ASSUME NEW p \in Procs, StartNode(p) PROVE GenInv'
    BY <2>14 DEF StartNode, GenInv, Fresh, Deploying, BeforeLoad
  <2>15. ASSUME NEW p \in Procs, StartFlowDone(p) PROVE GenInv'
    BY <2>15 DEF StartFlowDone, GenInv, Fresh, Deploying, BeforeLoad
  <2>16. ASSUME NEW p \in Procs, StartDone(p) PROVE GenInv'
    BY <2>16 DEF StartDone, Return, Goto, GenInv, Fresh, Deploying, BeforeLoad
  <2>17. ASSUME NEW p \in Procs, NEW f \in Objs, ClearFlow(p, f) PROVE GenInv'
    BY <2>17 DEF ClearFlow, GenInv, Fresh, Deploying, BeforeLoad
  <2>18. ASSUME NEW p \in Procs, ClearFlowsDone(p) PROVE GenInv'
    BY <2>18 DEF ClearFlowsDone, Goto, GenInv, Fresh, Deploying, BeforeLoad
  <2>19. ASSUME NEW p \in Procs, ClearNodes(p) PROVE GenInv'
    BY <2>19 DEF ClearNodes, Goto, GenInv, Fresh, Deploying, BeforeLoad
  <2>20. ASSUME NEW p \in Procs, Parse(p) PROVE GenInv'
    <3>1. gen' = gen /\ nextGen' = nextGen /\ \A f \in Objs : Fresh(f) => Fresh(f)'
      BY <2>20 DEF Parse, Fresh, GenInv, Fresh, Deploying, BeforeLoad
    <3>2. \A q \in Procs : Deploying(q)' => Deploying(q)
      BY <2>20 DEF Parse, Deploying, BeforeLoad, Return, Goto, GenInv, Fresh, Deploying, BeforeLoad
    <3>3. \A q \in Procs : pc[q] = "load" => pc'[q] = "load"
      BY <2>20 DEF Parse, Return, Goto, GenInv, Fresh, Deploying, BeforeLoad
    <3>4. \A q \in Procs : pc'[q] = "load" => pc[q] = "load" /\ todo'[q] = todo[q]
      BY <2>20 DEF Parse, Return, Goto, GenInv, Fresh, Deploying, BeforeLoad
    <3>5. QED
      BY <3>1, <3>2, <3>3, <3>4, GenFrame DEF BeforeLoad
  <2>21. ASSUME NEW p \in Procs, SetHash(p) PROVE GenInv'
    BY <2>21 DEF SetHash, Goto, GenInv, Fresh, Deploying, BeforeLoad
  <2>22. ASSUME NEW p \in Procs, LoadGlobals(p) PROVE GenInv'
    <3>1. gen' = gen /\ nextGen' = nextGen /\ op' = op /\ \A f \in Objs : Fresh(f)' <=> Fresh(f)
      BY <2>22 DEF LoadGlobals, Fresh
    <3>2. CASE cfg[p].bad = "globals"
      <4>1. pc' = [pc EXCEPT ![p] = "idle"] /\ todo' = [todo EXCEPT ![p] = {}]
        BY <2>22, <3>2 DEF LoadGlobals, Return, Goto
      <4>2. QED
        BY <2>22, <3>1, <4>1, GenFrame DEF LoadGlobals, Deploying, BeforeLoad
    <3>3. CASE cfg[p].bad # "globals"
      <4>1. /\ pc[p] = "globals" /\ op[p] = "redeploy"
            /\ pc' = [pc EXCEPT ![p] = "load"]
            /\ todo' = [todo EXCEPT ![p] = ObjsOf(cfg[p].flows, gen[p])]
        BY <2>22, <3>3 DEF LoadGlobals, Goto
      <4>2. Deploying(p) /\ \A q \in Procs : Deploying(q)' <=> Deploying(q)
        BY <3>1, <4>1 DEF Deploying, BeforeLoad
      <4>3. \A f \in ObjsOf(cfg[p].flows, gen[p]) : f \in Objs /\ f.gen = gen[p]
        BY DEF ObjsOf, Objs
      <4>4. \A q \in Procs : pc'[q] = "load" => \A f \in todo'[q] : f.gen = gen'[q] /\ Fresh(f)'
        <5> SUFFICES ASSUME NEW q \in Procs, pc'[q] = "load", NEW f \in todo'[q]
                     PROVE  f.gen = gen[q] /\ Fresh(f)'
          BY <3>1
        <5>1. CASE q = p
          BY <5>1, <3>1, <4>1, <4>2, <4>3 DEF GenInv
        <5>2. CASE q # p
          <6>1. pc[q] = "load" /\ f \in todo[q] /\ f \in Objs
            BY <5>2, <4>1
          <6>2. QED
            BY <6>1, <3>1 DEF GenInv
        <5>3. QED
          BY <5>1, <5>2
      <4>5. \A q \in Procs : pc'[q] # "load" => pc[q] # "load"
        BY <4>1
      <4>6. QED
        BY <3>1, <4>2, <4>4, <4>5 DEF GenInv
    <3>4. QED
      BY <3>2, <3>3
  <2>23. ASSUME NEW p \in Procs, NEW f \in Objs, LoadFlow(p, f) PROVE GenInv'
    <3>1. gen' = gen /\ nextGen' = nextGen /\ op' = op /\ tasks' = tasks
          /\ pc[p] = "load" /\ op[p] = "redeploy" /\ f \in todo[p]
      BY <2>23 DEF LoadFlow
    <3>2. CASE LoadFails(p, f)
      <4>1. pc' = [pc EXCEPT ![p] = "idle"] /\ todo' = [todo EXCEPT ![p] = {}] /\ flows' = flows
        BY <2>23, <3>2 DEF LoadFlow, Return, Goto
      <4>2. \A g \in Objs : Fresh(g) => Fresh(g)'
        BY <3>1, <4>1 DEF Fresh
      <4>3. QED
        BY <3>1, <4>1, <4>2, GenFrame DEF Deploying, BeforeLoad
    <3>3. CASE ~LoadFails(p, f)
      <4>1. /\ pc' = pc
            /\ flows' \subseteq flows \cup {f}
            /\ \A q \in Procs : pc[q] = "load" =>
                  todo'[q] = IF q = p THEN todo[q] \ {f} ELSE todo[q]
        BY <2>23, <3>3, ZenonT(40) DEF LoadFlow, Iterating
      <4>2. \A g \in Objs : g # f /\ Fresh(g) => Fresh(g)'
        BY <3>1, <4>1 DEF Fresh
      <4>3. f.gen = gen[p] /\ Deploying(p) /\ \A q \in Procs : Deploying(q)' <=> Deploying(q)
        BY <3>1, <4>1 DEF GenInv, Deploying
      <4>4. \A q \in Procs \ {p} : Deploying(q) => gen[q] # f.gen
        BY <4>3 DEF GenInv
      <4>5. \A g \in Objs : g.gen >= nextGen' => Fresh(g)'
        BY <3>1, <4>2, <4>3 DEF GenInv, Gens
      <4>6. \A q \in Procs : Deploying(q)' /\ pc'[q] # "load" =>
              \A g \in Objs : g.gen = gen'[q] => Fresh(g)'
        BY <3>1, <4>1, <4>2, <4>3, <4>4 DEF GenInv
      <4>7. \A q \in Procs : pc'[q] = "load" => \A g \in todo'[q] : g.gen = gen'[q] /\ Fresh(g)'
        <5> SUFFICES ASSUME NEW q \in Procs, pc[q] = "load", NEW g \in todo'[q]
                     PROVE  g.gen = gen[q] /\ Fresh(g)'
          BY <3>1, <4>1
        <5>1. g \in todo[q] /\ g \in Objs /\ Deploying(q) /\ (q = p => g # f)
          <6>1. todo'[q] = IF q = p THEN todo[q] \ {f} ELSE todo[q]
            BY <4>1
          <6>2. todo[q] \subseteq Objs
            OBVIOUS
          <6>3. Deploying(q)
            BY DEF Deploying
          <6>4. QED
            BY <6>1, <6>2, <6>3
        <5>2. g.gen = gen[q] /\ Fresh(g)
          BY <5>1 DEF GenInv
        <5>3. g # f
          BY <5>1, <5>2, <4>4
        <5>4. QED
          BY <5>1, <5>2, <5>3, <4>2
      <4>8. QED
        BY <3>1, <4>3, <4>5, <4>6, <4>7 DEF GenInv
    <3>4. QED
      BY <3>2, <3>3
  <2>24. ASSUME NEW p \in Procs, LoadDone(p) PROVE GenInv'
    BY <2>24 DEF LoadDone, Goto, GenInv, Fresh, Deploying, BeforeLoad
  <2>25. ASSUME NEW p \in Procs, Drop(p) PROVE GenInv'
    BY <2>25 DEF Drop, Return, Goto, GenInv, Fresh, Deploying, BeforeLoad
  <2>26. ASSUME NEW f \in Objs, TaskExit(f) PROVE GenInv'
    BY <2>26 DEF TaskExit, GenInv, Fresh, Deploying, BeforeLoad
  <2>27. ASSUME NEW f \in Objs, ForwarderExit(f) PROVE GenInv'
    BY <2>27 DEF ForwarderExit, GenInv, Fresh, Deploying, BeforeLoad
  <2>28. CASE UNCHANGED vars
    BY <2>28 DEF vars, GenInv, Fresh, Deploying, BeforeLoad
  <2>29. QED
    BY <2>1, <2>2, <2>3, <2>4, <2>5, <2>6, <2>7, <2>8, <2>9, <2>10, <2>11, <2>12, <2>13, <2>14, <2>15, <2>16, <2>17, <2>18, <2>19, <2>20, <2>21, <2>22, <2>23, <2>24, <2>25, <2>26, <2>27, <2>28 DEF Next, Step, Call
<1>3. QED
  BY <1>1, <1>2, TypeCorrect, LockInvHolds, OpInvHolds, CurInvHolds, PTL DEF Spec

(* A step outside the loops of start and stop preserves TaskInv.            *)
LEMMA TaskFrame ==
  ASSUME TypeOK, TaskInv, UNCHANGED <<shutdown, lock, flows, tasks, cur, spawned>>,
         \A q \in Procs : pc'[q] \in {"starting", "stopping"}
                           => pc'[q] = pc[q] /\ todo'[q] = todo[q]
  PROVE  TaskInv'
<1>1. OneTaskPerNode' /\ RegisteredQuiet'
  BY DEF TaskInv, OneTaskPerNode, RegisteredQuiet
<1>2. \A q \in Procs : pc'[q] = "starting" => pc[q] = "starting" /\ todo'[q] = todo[q]
  OBVIOUS
<1>3. \A q \in Procs : pc'[q] = "stopping" => pc[q] = "stopping" /\ todo'[q] = todo[q]
  OBVIOUS
<1>4. QED
  BY <1>1, <1>2, <1>3 DEF TaskInv

(* TaskInv is inductive when no call is dropped.                            *)
THEOREM TaskInvHolds == ASSUME Droppable = {} PROVE Spec => []TaskInv
<1>1. Init => TaskInv
  <2> SUFFICES ASSUME Init PROVE TaskInv
    OBVIOUS
  <2>1. flows \subseteq Objs
    BY EngineAssumption DEF Init, ObjsOf, Objs, Gens
  <2>2. \A f \in Objs : tasks[f] = 0
    BY DEF Init
  <2>3. OneTaskPerNode /\ RegisteredQuiet
    BY <2>1, <2>2, EngineAssumption DEF OneTaskPerNode, RegisteredQuiet
  <2>4. \A p \in Procs : pc[p] = "idle"
    BY DEF Init
  <2>5. QED
    BY <2>3, <2>4 DEF TaskInv
<1>2. TypeOK /\ LockInv /\ CurInv /\ GenInv /\ TaskInv /\ [Next]_vars => TaskInv'
  <2> SUFFICES ASSUME TypeOK, LockInv, CurInv, GenInv, TaskInv, [Next]_vars PROVE TaskInv'
    OBVIOUS
  <2> USE EngineAssumption DEF TypeOK, LockInv, CurInv, TaskInv, OneTaskPerNode, RegisteredQuiet,
          engineVars, taskVars, callVars, loopVars
  <2>1. ASSUME NEW p \in Procs, CallStart(p) PROVE TaskInv'
    BY <2>1 DEF CallStart, CallOp, Goto
  <2>2. ASSUME NEW p \in Procs, CallStop(p) PROVE TaskInv'
    BY <2>2 DEF CallStop, CallOp, Goto
  <2>3. ASSUME NEW p \in Procs, CallRestart(p) PROVE TaskInv'
    BY <2>3 DEF CallRestart, CallOp, Goto
  <2>4. ASSUME NEW p \in Procs, CallState(p) PROVE TaskInv'
    BY <2>4 DEF CallState, CallOp, Goto
  <2>5. ASSUME NEW p \in Procs, NEW c \in Configs, CallRedeploy(p, c) PROVE TaskInv'
    BY <2>5 DEF CallRedeploy, CallOp, Goto
  <2>6. ASSUME NEW p \in Procs, ProbeEnter(p) PROVE TaskInv'
    <3>1. UNCHANGED <<shutdown, lock, flows, tasks, cur, spawned>>
      BY <2>6 DEF ProbeEnter
    <3>2. \A q \in Procs : pc'[q] \in {"starting", "stopping"}
                           => pc'[q] = pc[q] /\ todo'[q] = todo[q]
      BY <2>6 DEF ProbeEnter, AfterProbe, Return, Goto
    <3>3. QED
      BY <3>1, <3>2, TaskFrame
  <2>7. ASSUME NEW p \in Procs, ProbeLeave(p) PROVE TaskInv'
    BY <2>7 DEF ProbeLeave, AfterProbe, Return, Goto
  <2>8. ASSUME NEW p \in Procs, StopEnter(p) PROVE TaskInv'
    <3>1. CASE StopRefused
      <4>1. Return(p, "err") /\ UNCHANGED <<shutdown, lock, flows, tasks, cur, spawned>>
        BY <2>8, <3>1 DEF StopEnter
      <4>2. QED
        BY <4>1, TaskFrame DEF Return, Goto
    <3>2. CASE ~StopRefused
      BY <2>8, <3>2 DEF StopEnter, StopRefused, TryWriteFails, Goto
    <3>3. QED
      BY <3>1, <3>2
  <2>9. ASSUME NEW p \in Procs, NEW f \in Objs, StopFlow(p, f) PROVE TaskInv'
    BY <2>9 DEF StopFlow
  <2>10. ASSUME NEW p \in Procs, StopJoin(p) PROVE TaskInv'
    BY <2>10 DEF StopJoin
  <2>11. ASSUME NEW p \in Procs, StopDone(p) PROVE TaskInv'
    <3>1. /\ pc[p] = "stopping" /\ todo[p] \cap flows = {}
          /\ shutdown' = TRUE /\ lock' = NoProc
          /\ UNCHANGED <<flows, tasks, cur, spawned>>
      BY <2>11 DEF StopDone
    <3>2. \A f \in flows : tasks[f] = 0
      BY <3>1
    <3>3. \A q \in Procs : pc'[q] \notin {"starting", "stopping"}
      <4>1. \A q \in Procs \ {p} : pc[q] \notin {"starting", "stopping"} /\ pc'[q] = pc[q]
        BY <2>11, <3>1 DEF StopDone, AfterStop, Return, Goto
      <4>2. pc'[p] \notin {"starting", "stopping"}
        BY <2>11 DEF StopDone, AfterStop, Return, Goto
      <4>3. QED
        BY <4>1, <4>2
    <3>4. QED
      BY <3>1, <3>2, <3>3
  <2>12. ASSUME NEW p \in Procs, StartEnter(p) PROVE TaskInv'
    BY <2>12 DEF StartEnter, StartRefused, TryWriteFails, Return, Goto
  <2>13. ASSUME NEW p \in Procs, NEW f \in Objs, StartFlow(p, f) PROVE TaskInv'
    BY <2>13 DEF StartFlow
  <2>14. ASSUME NEW p \in Procs, StartNode(p) PROVE TaskInv'
    BY <2>14 DEF StartNode
  <2>15. ASSUME NEW p \in Procs, StartFlowDone(p) PROVE TaskInv'
    BY <2>15 DEF StartFlowDone
  <2>16. ASSUME NEW p \in Procs, StartDone(p) PROVE TaskInv'
    BY <2>16 DEF StartDone, Return, Goto
  <2>17. ASSUME NEW p \in Procs, NEW f \in Objs, ClearFlow(p, f) PROVE TaskInv'
    BY <2>17 DEF ClearFlow
  <2>18. ASSUME NEW p \in Procs, ClearFlowsDone(p) PROVE TaskInv'
    BY <2>18 DEF ClearFlowsDone, Goto
  <2>19. ASSUME NEW p \in Procs, ClearNodes(p) PROVE TaskInv'
    BY <2>19 DEF ClearNodes, Goto
  <2>20. ASSUME NEW p \in Procs, Parse(p) PROVE TaskInv'
    <3>1. UNCHANGED <<shutdown, lock, flows, tasks, cur, spawned>>
      BY <2>20 DEF Parse
    <3>2. \A q \in Procs : pc'[q] \in {"starting", "stopping"}
                           => pc'[q] = pc[q] /\ todo'[q] = todo[q]
      BY <2>20 DEF Parse, Return, Goto
    <3>3. QED
      BY <3>1, <3>2, TaskFrame
  <2>21. ASSUME NEW p \in Procs, SetHash(p) PROVE TaskInv'
    BY <2>21 DEF SetHash, Goto
  <2>22. ASSUME NEW p \in Procs, LoadGlobals(p) PROVE TaskInv'
    BY <2>22, SMTT(20) DEF LoadGlobals, Return, Goto
  <2>23. ASSUME NEW p \in Procs, NEW f \in Objs, LoadFlow(p, f) PROVE TaskInv'
    <3>1. CASE LoadFails(p, f)
      <4>1. Return(p, "err") /\ UNCHANGED <<shutdown, lock, flows, tasks, cur, spawned>>
        BY <2>23, <3>1 DEF LoadFlow
      <4>2. QED
        BY <4>1, TaskFrame DEF Return, Goto
    <3>2. CASE ~LoadFails(p, f)
      <4>1. /\ UNCHANGED <<shutdown, lock, tasks, cur, spawned, pc>>
            /\ pc[p] = "load" /\ f \in todo[p]
            /\ flows' \subseteq flows \cup {f}
        BY <2>23, <3>2 DEF LoadFlow
      <4>2. tasks[f] = 0
        BY <4>1 DEF GenInv, Fresh
      <4>3. \A q \in Procs : q # p => todo[q] \subseteq todo'[q] /\ todo'[q] \subseteq todo[q] \cup {f}
        BY <2>23, <3>2 DEF LoadFlow
      <4>4. OneTaskPerNode' /\ RegisteredQuiet'
        BY <4>1, <4>2
      <4>5. ASSUME NEW q \in Procs, pc[q] = "starting"
            PROVE  \A g \in flows' \cap todo'[q] : g # cur[q] => tasks[g] = 0
        BY <4>1, <4>2, <4>3, <4>5
      <4>6. ASSUME NEW q \in Procs, pc[q] = "stopping"
            PROVE  \A g \in flows' \ todo'[q] : tasks[g] = 0
        BY <4>1, <4>2, <4>3, <4>6
      <4>7. QED
        BY <4>1, <4>4, <4>5, <4>6
    <3>3. QED
      BY <3>1, <3>2
  <2>24. ASSUME NEW p \in Procs, LoadDone(p) PROVE TaskInv'
    BY <2>24 DEF LoadDone, Goto
  <2>25. ASSUME NEW p \in Procs, Drop(p) PROVE TaskInv'
    BY <2>25 DEF Drop, Return, Goto
  <2>26. ASSUME NEW f \in Objs, TaskExit(f) PROVE TaskInv'
    BY <2>26 DEF TaskExit
  <2>27. ASSUME NEW f \in Objs, ForwarderExit(f) PROVE TaskInv'
    BY <2>27 DEF ForwarderExit
  <2>28. CASE UNCHANGED vars
    BY <2>28 DEF vars
  <2>29. QED
    BY <2>1, <2>2, <2>3, <2>4, <2>5, <2>6, <2>7, <2>8, <2>9, <2>10, <2>11, <2>12, <2>13, <2>14, <2>15, <2>16, <2>17, <2>18, <2>19, <2>20, <2>21, <2>22, <2>23, <2>24, <2>25, <2>26, <2>27, <2>28 DEF Next, Step, Call
<1>3. QED
  BY <1>1, <1>2, TypeCorrect, LockInvHolds, CurInvHolds, GenInvHolds, PTL DEF Spec

(* With no dropped call, no interleaving of start, stop, restart and
   redeploy_flows ever runs a node of a flow twice.                         *)
THEOREM NodesRunOnce == ASSUME Droppable = {} PROVE Spec => []OneTaskPerNode
<1>1. TaskInv => OneTaskPerNode
  BY DEF TaskInv
<1>2. QED
  BY <1>1, TaskInvHolds, PTL

(* With no dropped call, a shut down engine runs no node of its flows.      *)
THEOREM ShutdownIsQuiet == ASSUME Droppable = {} PROVE Spec => []RegisteredQuiet
<1>1. TaskInv => RegisteredQuiet
  BY DEF TaskInv
<1>2. QED
  BY <1>1, TaskInvHolds, PTL

-----------------------------------------------------------------------------
(* What one caller at a time may rely on.                                   *)

(* Inside a deploy whose flows are loaded: nothing is left of the old ones. *)
Replaced(p) ==
  /\ hash = gen[p]
  /\ globals = {gen[p]}

(* What is visited, or left to visit, when a deploy starts its flows.       *)
StartedSoFar(p) ==
  /\ cur[p] # NoObj => cur[p].id \in OwnedIds /\ tasks[cur[p]] = spawned[p]
  /\ \A f \in flows \ todo[p] : f.id \in OwnedIds => tasks[f] = NodesPerFlow

(* A deploy that has ended: what it answered Ok to runs, an error stopped all. *)
Ended(p) ==
  /\ res[p] = "ok" =>
        /\ Replaced(p) /\ ~shutdown
        /\ flows = ObjsOf(cfg[p].flows, gen[p])
        /\ \A f \in flows : f.id \in OwnedIds => tasks[f] = NodesPerFlow
  /\ res[p] = "err" => shutdown

(* Where the deploy p stands, from the old flows to the new.                *)
DeployStage(p) ==
  /\ pc[p] = "stop_enter" => ~shutdown
  /\ pc[p] \in {"clear", "clear_nodes", "parse", "hash", "globals", "load", "start_enter"} => shutdown
  /\ pc[p] = "clear" => flows \subseteq todo[p]
  /\ pc[p] \in {"clear_nodes", "parse", "hash", "globals"} => flows = {}
  /\ pc[p] \in {"parse", "hash", "globals"} => globals = {}
  /\ pc[p] = "globals" => hash = gen[p]
  /\ pc[p] = "load" => Replaced(p) /\ flows \cup todo[p] = ObjsOf(cfg[p].flows, gen[p])
  /\ pc[p] \in {"start_enter", "starting"} => Replaced(p) /\ flows = ObjsOf(cfg[p].flows, gen[p])
  /\ pc[p] = "starting" => StartedSoFar(p)
  /\ pc[p] # "idle" \/ res[p] = "ok" => \A f \in Objs : f.gen = gen[p] => f \notin cancelled
  /\ pc[p] = "idle" => Ended(p)

DeployInv ==
  /\ \A f \in Objs : tasks[f] > 0 => f \in flows /\ f.id \in OwnedIds
  /\ \A f \in flows : f.gen = hash
  /\ \A f \in cancelled : f.gen < nextGen
  /\ \A p \in Procs : pc[p] = "starting" /\ cur[p] # NoObj => cur[p].id \in OwnedIds
  /\ \A p \in Procs : op[p] = "redeploy" => DeployStage(p)
(* DeployInv is inductive for one caller at a time whose calls are not dropped. *)
LEMMA DeployStep ==
  ASSUME Droppable = {}, \A p, q \in Procs : p = q,
         TypeOK, LockInv, OpInv, CurInv, GenInv, TaskInv, DeployInv, [Next]_vars
  PROVE  DeployInv'
<1> USE EngineAssumption DEF TypeOK, engineVars, taskVars, callVars, loopVars
<1>1. ASSUME NEW p \in Procs, Call(p) \/ Step(p) PROVE DeployInv'
  <2> \A q \in Procs : q = p
    OBVIOUS
  <2>a. pc[p] \notin {"starting", "stopping"} => lock = NoProc /\ cur[p] = NoObj
    BY DEF LockInv
  <2> USE DEF DeployInv, DeployStage, Ended, Replaced, StartedSoFar
  <2>1. ASSUME CallStart(p) PROVE DeployInv'
    BY <2>1, <2>a DEF CallStart, CallOp, Goto
  <2>2. ASSUME CallStop(p) PROVE DeployInv'
    BY <2>2, <2>a DEF CallStop, CallOp, Goto
  <2>3. ASSUME CallRestart(p) PROVE DeployInv'
    BY <2>3, <2>a DEF CallRestart, CallOp, Goto
  <2>4. ASSUME CallState(p) PROVE DeployInv'
    BY <2>4, <2>a DEF CallState, CallOp, Goto
  <2>5. ASSUME NEW c \in Configs, CallRedeploy(p, c) PROVE DeployInv'
    <3>1. nextGen' = nextGen + 1 /\ gen' = [gen EXCEPT ![p] = nextGen] /\ op' = [op EXCEPT ![p] = "redeploy"]
          /\ pc' = [pc EXCEPT ![p] = "check"] /\ UNCHANGED <<engineVars, taskVars, loopVars>>
      BY <2>5 DEF CallRedeploy, CallOp, Goto
    <3>2. \A f \in Objs : f.gen = nextGen => f \notin cancelled
      OBVIOUS
    <3>3. \A f \in cancelled : f \in Objs /\ f.gen < nextGen /\ f.gen \in Nat
      BY DEF Objs, Gens
    <3>4. \A f \in cancelled : f.gen < nextGen + 1
      BY <3>3
    <3>5. pc'[p] = "check" /\ gen'[p] = nextGen
      BY <3>1
    <3>6. DeployStage(p)'
      BY <3>1, <3>2, <3>5
    <3>7. QED
      BY <3>1, <3>4, <3>5, <3>6
  <2>6. ASSUME ProbeEnter(p) PROVE DeployInv'
    BY <2>6, <2>a DEF ProbeEnter, AfterProbe, Return, Goto
  <2>7. ASSUME ProbeLeave(p) PROVE DeployInv'
    BY <2>7, <2>a DEF ProbeLeave, AfterProbe, Return, Goto
  <2>8. ASSUME StopEnter(p) PROVE DeployInv'
    BY <2>8, <2>a DEF StopEnter, StopRefused, TryWriteFails, Return, Goto
  <2>9. ASSUME NEW f \in Objs, StopFlow(p, f) PROVE DeployInv'
    <3>1. pc[p] = "stopping" /\ f \in flows /\ cancelled' = cancelled \cup {f} /\ cur' = [cur EXCEPT ![p] = f]
          /\ UNCHANGED <<engineVars, tasks, pc, callVars, todo, spawned, res, nextGen>>
      BY <2>9 DEF StopFlow
    <3>2. f.gen < nextGen
      BY <3>1 DEF GenInv, Fresh, Objs, Gens
    <3>3. op[p] = "redeploy" => f.gen # gen[p]
      BY <3>1 DEF GenInv, Fresh, Deploying, BeforeLoad
    <3>4. op[p] = "redeploy" => DeployStage(p)'
      BY <3>1, <3>3
    <3>5. QED
      BY <3>1, <3>2, <3>4
  <2>10. ASSUME StopJoin(p) PROVE DeployInv'
    BY <2>10, <2>a DEF StopJoin
  <2>11. ASSUME StopDone(p) PROVE DeployInv'
    BY <2>11, <2>a DEF StopDone, AfterStop, Return, Goto
  <2>12. ASSUME StartEnter(p) PROVE DeployInv'
    BY <2>12, <2>a DEF StartEnter, StartRefused, TryWriteFails, Return, Goto
  <2>13. ASSUME NEW f \in Objs, StartFlow(p, f) PROVE DeployInv'
    <3>1. pc[p] = "starting" /\ cur[p] = NoObj /\ f \in todo[p] /\ f \in flows /\ f # NoObj
          /\ UNCHANGED <<engineVars, cancelled, tasks, pc, callVars, res, nextGen>>
      BY <2>13 DEF StartFlow
    <3>2. tasks[f] = 0
      BY <3>1 DEF TaskInv
    <3>3. CASE f.id \in OwnedIds
      <4>1. cur'[p] = f /\ spawned'[p] = 0 /\ todo' = todo
        BY <2>13, <3>3 DEF StartFlow
      <4>2. op[p] = "redeploy" => DeployStage(p)'
        BY <3>1, <3>2, <3>3, <4>1
      <4>3. QED
        BY <3>1, <3>3, <4>1, <4>2
    <3>4. CASE f.id \notin OwnedIds
      <4>1. cur' = cur /\ spawned' = spawned /\ todo'[p] = todo[p] \ {f}
        BY <2>13, <3>4 DEF StartFlow
      <4>2. op[p] = "redeploy" => DeployStage(p)'
        BY <3>1, <3>4, <4>1
      <4>3. QED
        BY <3>1, <4>1, <4>2
    <3>5. QED
      BY <3>3, <3>4
  <2>14. ASSUME StartNode(p) PROVE DeployInv'
    <3>1. pc[p] = "starting" /\ cur[p] # NoObj
          /\ tasks' = [tasks EXCEPT ![cur[p]] = @ + 1] /\ spawned' = [spawned EXCEPT ![p] = @ + 1]
          /\ UNCHANGED <<engineVars, cancelled, pc, callVars, todo, cur, res, nextGen>>
      BY <2>14 DEF StartNode
    <3>2. cur[p] \in flows /\ cur[p] \in todo[p] /\ cur[p].id \in OwnedIds /\ cur[p] \in Objs
      BY <3>1 DEF CurInv
    <3>3. tasks'[cur[p]] = tasks[cur[p]] + 1 /\ spawned'[p] = spawned[p] + 1
          /\ \A f \in Objs : f # cur[p] => tasks'[f] = tasks[f]
      BY <3>1, <3>2
    <3>4. op[p] = "redeploy" => StartedSoFar(p)'
      BY <3>1, <3>2, <3>3
    <3>5. op[p] = "redeploy" => DeployStage(p)'
      BY <3>1, <3>4
    <3>6. \A f \in Objs : tasks'[f] > 0 => f \in flows /\ f.id \in OwnedIds
      BY <3>2, <3>3
    <3>7. QED
      BY <3>1, <3>5, <3>6
  <2>15. ASSUME StartFlowDone(p) PROVE DeployInv'
    BY <2>15, <2>a DEF StartFlowDone
  <2>16. ASSUME StartDone(p) PROVE DeployInv'
    BY <2>16, <2>a DEF StartDone, Return, Goto
  <2>17. ASSUME NEW f \in Objs, ClearFlow(p, f) PROVE DeployInv'
    <3>1. pc[p] = "clear" /\ op[p] = "redeploy" /\ flows' = flows \ {f} /\ f \in flows
          /\ UNCHANGED <<shutdown, lock, nodes, globals, hash, taskVars, pc, callVars, loopVars, res, nextGen>>
      BY <2>17 DEF ClearFlow, OpInv
    <3>2. shutdown /\ lock = NoProc
      BY <3>1, <2>a
    <3>3. \A g \in flows : tasks[g] = 0
      BY <3>2 DEF TaskInv, RegisteredQuiet
    <3>4. DeployStage(p)'
      BY <3>1
    <3>5. \A g \in Objs : ~(tasks[g] > 0)
      BY <3>3
    <3>6. QED
      BY <3>1, <3>4, <3>5
  <2>18. ASSUME ClearFlowsDone(p) PROVE DeployInv'
    BY <2>18, <2>a DEF ClearFlowsDone, Goto
  <2>19. ASSUME ClearNodes(p) PROVE DeployInv'
    BY <2>19, <2>a DEF ClearNodes, Goto
  <2>20. ASSUME Parse(p) PROVE DeployInv'
    BY <2>20, <2>a DEF Parse, Return, Goto
  <2>21. ASSUME SetHash(p) PROVE DeployInv'
    <3>1. pc[p] = "hash" /\ op[p] = "redeploy" /\ hash' = gen[p] /\ pc' = [pc EXCEPT ![p] = "globals"]
          /\ UNCHANGED <<shutdown, lock, flows, nodes, globals, taskVars, callVars, loopVars, res, nextGen>>
      BY <2>21 DEF SetHash, Goto, OpInv
    <3>2. flows = {} /\ pc'[p] = "globals"
      BY <3>1
    <3>3. DeployStage(p)'
      BY <3>1, <3>2
    <3>4. QED
      BY <3>1, <3>2, <3>3
  <2>22. ASSUME LoadGlobals(p) PROVE DeployInv'
    BY <2>22, <2>a DEF LoadGlobals, Return, Goto
  <2>23. ASSUME NEW f \in Objs, LoadFlow(p, f) PROVE DeployInv'
    <3>1. pc[p] = "load" /\ op[p] = "redeploy" /\ f \in todo[p]
          /\ UNCHANGED <<shutdown, lock, globals, hash, taskVars, callVars, cur, spawned, nextGen>>
      BY <2>23 DEF LoadFlow, OpInv
    <3>2. shutdown /\ Replaced(p) /\ flows \cup todo[p] = ObjsOf(cfg[p].flows, gen[p])
      BY <3>1
    <3>3. CASE LoadFails(p, f)
      <4>1. pc' = [pc EXCEPT ![p] = "idle"] /\ res' = [res EXCEPT ![p] = "err"] /\ flows' = flows
        BY <2>23, <3>3 DEF LoadFlow, Return, Goto
      <4>2. pc'[p] = "idle" /\ res'[p] = "err"
        BY <4>1
      <4>3. DeployStage(p)'
        BY <3>1, <3>2, <4>2
      <4>4. QED
        BY <3>1, <4>1, <4>2, <4>3
    <3>4. CASE ~LoadFails(p, f)
      <4>1. pc' = pc /\ res' = res /\ flows' = {g \in flows : g.id # f.id} \cup {f}
            /\ todo'[p] = todo[p] \ {f}
        BY <2>23, <3>4 DEF LoadFlow
      <4>2. \A g \in flows \cup todo[p] : g.id = f.id => g = f
        BY <3>1, <3>2 DEF ObjsOf
      <4>3. flows' = flows \cup {f}
        BY <4>1, <4>2
      <4>4. flows' \cup todo'[p] = flows \cup todo[p]
        BY <3>1, <4>1, <4>3
      <4>5. DeployStage(p)'
        BY <3>1, <3>2, <4>1, <4>4
      <4>6. f.gen = hash
        BY <3>1, <3>2 DEF GenInv
      <4>7. QED
        BY <3>1, <4>1, <4>3, <4>5, <4>6
    <3>5. QED
      BY <3>3, <3>4
  <2>24. ASSUME LoadDone(p) PROVE DeployInv'
    <3>1. pc[p] = "load" /\ op[p] = "redeploy" /\ todo[p] = {} /\ pc' = [pc EXCEPT ![p] = "start_enter"]
          /\ UNCHANGED <<engineVars, taskVars, callVars, loopVars, res, nextGen>>
      BY <2>24 DEF LoadDone, Goto, OpInv
    <3>2. pc'[p] = "start_enter" /\ flows = ObjsOf(cfg[p].flows, gen[p])
      <4>1. DeployStage(p)
        BY <3>1
      <4>2. flows \cup todo[p] = ObjsOf(cfg[p].flows, gen[p])
        BY <3>1, <4>1
      <4>3. QED
        BY <3>1, <4>2, ZenonT(40)
    <3>3. DeployStage(p)'
      BY <3>1, <3>2
    <3>4. QED
      BY <3>1, <3>2, <3>3
  <2>25. QED
    BY <1>1, <2>1, <2>2, <2>3, <2>4, <2>5, <2>6, <2>7, <2>8, <2>9, <2>10, <2>11, <2>12, <2>13, <2>14, <2>15, <2>16, <2>17, <2>18, <2>19, <2>20, <2>21, <2>22, <2>23, <2>24 DEF Call, Step
<1>2. ASSUME NEW f \in Objs, TaskExit(f) PROVE DeployInv'
  BY <1>2 DEF TaskExit, DeployInv, DeployStage, Ended, Replaced, StartedSoFar
<1>3. ASSUME NEW f \in Objs, ForwarderExit(f) PROVE DeployInv'
  BY <1>3 DEF ForwarderExit, DeployInv, DeployStage, Ended, Replaced, StartedSoFar
<1>4. ASSUME UNCHANGED vars PROVE DeployInv'
  BY <1>4 DEF vars, DeployInv, DeployStage, Ended, Replaced, StartedSoFar
<1>5. ASSUME NEW p \in Procs PROVE ~Drop(p)
  BY DEF Drop
<1>6. QED
  BY <1>1, <1>2, <1>3, <1>4, <1>5 DEF Next

-----------------------------------------------------------------------------
(* The forwarding tasks of subflows, which no call joins: those that go on are
   those of registered flows, and stop has cancelled the token of the flows it
   has visited.                                                             *)
ForwarderInv ==
  /\ \A f \in Objs : forwarders[f] > 0 /\ f \notin cancelled => f \in flows
  /\ shutdown /\ lock = NoProc => \A f \in flows : forwarders[f] > 0 => f \in cancelled
  /\ \A p \in Procs : pc[p] = "stopping" =>
        flows \ todo[p] \subseteq cancelled /\ (cur[p] # NoObj => cur[p] \in cancelled)

(* ForwarderInv is inductive for one caller whose calls are not dropped.    *)
LEMMA ForwarderStep ==
  ASSUME Droppable = {}, \A p, q \in Procs : p = q,
         TypeOK, LockInv, OpInv, DeployInv, ForwarderInv, [Next]_vars
  PROVE  ForwarderInv'
<1> USE EngineAssumption DEF TypeOK, engineVars, taskVars, callVars, loopVars
<1>1. ASSUME NEW p \in Procs, Call(p) \/ Step(p) PROVE ForwarderInv'
  <2> \A q \in Procs : q = p
    OBVIOUS
  <2>a. pc[p] \notin {"starting", "stopping"} => lock = NoProc /\ cur[p] = NoObj
    BY DEF LockInv
  <2> USE DEF ForwarderInv
  <2>1. ASSUME Call(p) PROVE ForwarderInv'
    BY <2>1, <2>a DEF Call, CallStart, CallStop, CallRestart, CallState, CallRedeploy, CallOp, Goto
  <2>2. ASSUME ProbeEnter(p) \/ ProbeLeave(p) PROVE ForwarderInv'
    BY <2>2, <2>a DEF ProbeEnter, ProbeLeave, AfterProbe, Return, Goto
  <2>3. ASSUME StopEnter(p) PROVE ForwarderInv'
    BY <2>3, <2>a DEF StopEnter, StopRefused, TryWriteFails, Return, Goto
  <2>4. ASSUME NEW f \in Objs, StopFlow(p, f) PROVE ForwarderInv'
    BY <2>4 DEF StopFlow
  <2>5. ASSUME StopJoin(p) PROVE ForwarderInv'
    BY <2>5 DEF StopJoin
  <2>6. ASSUME StopDone(p) PROVE ForwarderInv'
    BY <2>6 DEF StopDone, AfterStop, Return, Goto
  <2>7. ASSUME StartEnter(p) PROVE ForwarderInv'
    BY <2>7, <2>a DEF StartEnter, StartRefused, TryWriteFails, Return, Goto
  <2>8. ASSUME NEW f \in Objs, StartFlow(p, f) PROVE ForwarderInv'
    <3>1. pc[p] = "starting" /\ lock # NoProc /\ f \in flows
          /\ UNCHANGED <<engineVars, cancelled, tasks, pc, callVars, res, nextGen>>
      BY <2>8 DEF StartFlow, LockInv
    <3>2. \A g \in Objs : g # f => forwarders'[g] = forwarders[g]
      BY <2>8 DEF StartFlow
    <3>3. QED
      BY <3>1, <3>2
  <2>9. ASSUME StartNode(p) \/ StartFlowDone(p) PROVE ForwarderInv'
    BY <2>9 DEF StartNode, StartFlowDone
  <2>10. ASSUME StartDone(p) PROVE ForwarderInv'
    BY <2>10 DEF StartDone, Return, Goto
  <2>11. ASSUME NEW f \in Objs, ClearFlow(p, f) PROVE ForwarderInv'
    <3>1. pc[p] = "clear" /\ flows' = flows \ {f}
          /\ UNCHANGED <<shutdown, lock, nodes, globals, hash, taskVars, pc, callVars, loopVars, res, nextGen>>
      BY <2>11 DEF ClearFlow
    <3>2. shutdown /\ lock = NoProc
      BY <3>1, <2>a DEF OpInv, DeployInv, DeployStage
    <3>3. QED
      BY <3>1, <3>2
  <2>12. ASSUME NEW f \in Objs, LoadFlow(p, f) PROVE ForwarderInv'
    <3>1. pc[p] = "load" /\ pc'[p] \in {"load", "idle"}
          /\ UNCHANGED <<shutdown, lock, globals, hash, taskVars, callVars, cur, spawned, nextGen>>
      BY <2>12 DEF LoadFlow, Return, Goto
    <3>2. shutdown /\ lock = NoProc
      BY <3>1, <2>a DEF OpInv, DeployInv, DeployStage
    <3>3. \A g \in Objs : forwarders[g] > 0 => g \in cancelled
      BY <3>2
    <3>4. flows' \subseteq Objs
      BY <2>12 DEF LoadFlow
    <3>5. QED
      BY <3>1, <3>3, <3>4
  <2>13. ASSUME \/ ClearFlowsDone(p) \/ ClearNodes(p) \/ Parse(p) \/ SetHash(p)
                \/ LoadGlobals(p) \/ LoadDone(p)
         PROVE ForwarderInv'
    BY <2>13, <2>a DEF ClearFlowsDone, ClearNodes, Parse, SetHash, LoadGlobals, LoadDone, Return, Goto
  <2>14. QED
    BY <1>1, <2>1, <2>2, <2>3, <2>4, <2>5, <2>6, <2>7, <2>8, <2>9, <2>10, <2>11, <2>12, <2>13 DEF Step
<1>2. ASSUME NEW f \in Objs, TaskExit(f) \/ ForwarderExit(f) PROVE ForwarderInv'
  BY <1>2 DEF TaskExit, ForwarderExit, ForwarderInv
<1>3. ASSUME UNCHANGED vars PROVE ForwarderInv'
  BY <1>3 DEF vars, ForwarderInv
<1>4. ASSUME NEW p \in Procs PROVE ~Drop(p)
  BY DEF Drop
<1>5. QED
  BY <1>1, <1>2, <1>3, <1>4 DEF Next

(* For one caller at a time, in any order of calls and with any payload:
   whatever step of redeploy_flows fails, the old flows are stopped before
   they are replaced, an Ok means that exactly the new flows run, an error
   that nothing runs, and flows_rev tells which flows the engine holds.     *)
THEOREM DeployIsCorrect ==
  ASSUME Droppable = {}, \A p, q \in Procs : p = q
  PROVE  Spec => []DeployCorrect
<1>1. Init => DeployInv
  <2> SUFFICES ASSUME Init PROVE DeployInv
    OBVIOUS
  <2>1. \A f \in flows : f.gen = hash
    BY DEF Init, ObjsOf
  <2>2. \A f \in Objs : tasks[f] = 0
    BY DEF Init
  <2>3. QED
    BY <2>1, <2>2, EngineAssumption DEF Init, DeployInv
<1>2. TypeOK /\ LockInv /\ OpInv /\ CurInv /\ GenInv /\ TaskInv /\ DeployInv /\ [Next]_vars => DeployInv'
  BY DeployStep
<1>3. TypeOK /\ LockInv /\ TaskInv /\ DeployInv /\ ForwarderInv => DeployCorrect
  <2> SUFFICES ASSUME TypeOK, LockInv, TaskInv, DeployInv, ForwarderInv, AllIdle PROVE DeployCorrect
    BY DEF DeployCorrect, NoOrphanTasks, DeployServes, DeployReplaces, FailedDeployStops, RevisionMatches
  <2>1. NoOrphanTasks /\ RevisionMatches
    BY DEF NoOrphanTasks, RevisionMatches, DeployInv, ForwarderInv
  <2>2. ASSUME NEW p \in Procs, op[p] = "redeploy" PROVE DeployStage(p) /\ Ended(p)
    BY <2>2 DEF DeployInv, DeployStage, AllIdle
  <2>3. DeployServes
    <3> SUFFICES ASSUME NEW p \in Procs, op[p] = "redeploy", res[p] = "ok"
                 PROVE  /\ flows = ObjsOf(cfg[p].flows, gen[p])
                        /\ ~shutdown
                        /\ \A f \in flows : f.id \in OwnedIds => f \notin cancelled /\ tasks[f] = NodesPerFlow
      BY DEF DeployServes
    <3>1. Ended(p) /\ \A f \in Objs : f.gen = gen[p] => f \notin cancelled
      BY <2>2 DEF DeployStage
    <3>2. \A f \in flows : f \in Objs /\ f.gen = gen[p]
      BY <3>1 DEF Ended, ObjsOf, TypeOK
    <3>3. QED
      BY <3>1, <3>2 DEF Ended
  <2>4. DeployReplaces
    <3> SUFFICES ASSUME NEW p \in Procs, op[p] = "redeploy", res[p] = "ok"
                 PROVE  /\ globals = {gen[p]}
                        /\ hash = gen[p]
                        /\ \A f \in Objs \ ObjsOf(cfg[p].flows \cap OwnedIds, gen[p]) : tasks[f] = 0
      BY DEF DeployReplaces
    <3>1. Ended(p)
      BY <2>2
    <3>2. ASSUME NEW f \in Objs, tasks[f] # 0 PROVE f \in ObjsOf(cfg[p].flows \cap OwnedIds, gen[p])
      <4>1. f \in flows /\ f.id \in OwnedIds
        BY <3>2 DEF DeployInv, TypeOK
      <4>2. f \in ObjsOf(cfg[p].flows, gen[p])
        BY <3>1, <4>1 DEF Ended
      <4>3. QED
        BY <4>1, <4>2 DEF ObjsOf
    <3>3. QED
      BY <3>1, <3>2 DEF Ended, Replaced
  <2>5. FailedDeployStops
    <3> SUFFICES ASSUME NEW p \in Procs, op[p] = "redeploy", res[p] = "err"
                 PROVE  /\ shutdown
                        /\ \A f \in Objs : tasks[f] = 0 /\ (forwarders[f] > 0 => f \in cancelled)
      BY DEF FailedDeployStops
    <3>1. shutdown
      BY <2>2 DEF Ended
    <3>2. lock = NoProc
      BY EngineAssumption DEF LockInv, AllIdle, TypeOK
    <3>3. \A f \in flows : tasks[f] = 0
      BY <3>1, <3>2 DEF TaskInv, RegisteredQuiet
    <3>4. \A f \in Objs : forwarders[f] > 0 => f \in cancelled
      BY <3>1, <3>2 DEF ForwarderInv
    <3>5. QED
      BY <3>1, <3>3, <3>4 DEF DeployInv, TypeOK
  <2>6. QED
    BY <2>1, <2>3, <2>4, <2>5 DEF DeployCorrect
<1>4. Init => ForwarderInv
  BY EngineAssumption DEF Init, ForwarderInv, ObjsOf, Objs, Gens
<1>5. TypeOK /\ LockInv /\ OpInv /\ DeployInv /\ ForwarderInv /\ [Next]_vars => ForwarderInv'
  BY ForwarderStep
<1>6. QED
  BY <1>1, <1>2, <1>3, <1>4, <1>5, TypeCorrect, LockInvHolds, OpInvHolds, CurInvHolds, GenInvHolds,
     TaskInvHolds, PTL DEF Spec
-----------------------------------------------------------------------------
(* The engine acts as a switch (EngineService).                             *)

Stages == [p \in Procs |-> StageOf(pc[p])]

(* Who is inside start found the engine stopped, who is inside stop found it
   running, and nobody else can change that meanwhile.                      *)
SwitchInv ==
  /\ \A p \in Procs : pc[p] = "starting" => shutdown
  /\ \A p \in Procs : pc[p] = "stopping" => ~shutdown

(* SwitchInv is inductive, dropped calls included.                          *)
THEOREM SwitchInvHolds == Spec => []SwitchInv
<1>1. Init => SwitchInv
  BY DEF Init, SwitchInv
<1>2. TypeOK /\ LockInv /\ SwitchInv /\ [Next]_vars => SwitchInv'
  <2> SUFFICES ASSUME TypeOK, LockInv, SwitchInv, [Next]_vars PROVE SwitchInv'
    OBVIOUS
  <2> USE EngineAssumption DEF TypeOK, SwitchInv, engineVars, taskVars, callVars, loopVars
  <2>1. ASSUME NEW p \in Procs, Call(p) PROVE SwitchInv'
    BY <2>1 DEF Call, CallStart, CallStop, CallRestart, CallState, CallRedeploy, CallOp, Goto
  <2>2. ASSUME NEW p \in Procs, ProbeEnter(p) \/ ProbeLeave(p) PROVE SwitchInv'
    BY <2>2 DEF ProbeEnter, ProbeLeave, AfterProbe, Return, Goto
  <2>3. ASSUME NEW p \in Procs, StopEnter(p) PROVE SwitchInv'
    BY <2>3 DEF StopEnter, StopRefused, Return, Goto
  <2>4. ASSUME NEW p \in Procs, NEW f \in Objs, StopFlow(p, f) \/ StartFlow(p, f) \/ ClearFlow(p, f) PROVE SwitchInv'
    BY <2>4 DEF StopFlow, StartFlow, ClearFlow
  <2>5. ASSUME NEW p \in Procs, StopJoin(p) \/ StartNode(p) \/ StartFlowDone(p) PROVE SwitchInv'
    BY <2>5 DEF StopJoin, StartNode, StartFlowDone
  <2>6. ASSUME NEW p \in Procs, StopDone(p) PROVE SwitchInv'
    <3>1. \A q \in Procs : q # p => pc'[q] = pc[q] /\ pc[q] \notin {"starting", "stopping"}
      BY <2>6 DEF StopDone, AfterStop, Return, Goto, LockInv
    <3>2. pc'[p] \notin {"starting", "stopping"}
      BY <2>6 DEF StopDone, AfterStop, Return, Goto
    <3>3. QED
      BY <3>1, <3>2
  <2>7. ASSUME NEW p \in Procs, StartEnter(p) PROVE SwitchInv'
    BY <2>7 DEF StartEnter, StartRefused, Return, Goto
  <2>8. ASSUME NEW p \in Procs, StartDone(p) PROVE SwitchInv'
    <3>1. \A q \in Procs : q # p => pc'[q] = pc[q] /\ pc[q] \notin {"starting", "stopping"}
      BY <2>8 DEF StartDone, Return, Goto, LockInv
    <3>2. pc'[p] \notin {"starting", "stopping"}
      BY <2>8 DEF StartDone, Return, Goto
    <3>3. QED
      BY <3>1, <3>2
  <2>9. ASSUME NEW p \in Procs, ClearFlowsDone(p) \/ ClearNodes(p) \/ Parse(p) PROVE SwitchInv'
    BY <2>9 DEF ClearFlowsDone, ClearNodes, Parse, Return, Goto
  <2>10. ASSUME NEW p \in Procs, SetHash(p) \/ LoadGlobals(p) \/ LoadDone(p) PROVE SwitchInv'
    BY <2>10 DEF SetHash, LoadGlobals, LoadDone, Return, Goto
  <2>11. ASSUME NEW p \in Procs, NEW f \in Objs, LoadFlow(p, f) PROVE SwitchInv'
    BY <2>11 DEF LoadFlow, Return, Goto
  <2>12. ASSUME NEW p \in Procs, Drop(p) PROVE SwitchInv'
    BY <2>12 DEF Drop, Return, Goto
  <2>13. ASSUME NEW f \in Objs, TaskExit(f) \/ ForwarderExit(f) PROVE SwitchInv'
    BY <2>13 DEF TaskExit, ForwarderExit
  <2>14. CASE UNCHANGED vars
    BY <2>14 DEF vars
  <2>15. QED
    BY <2>1, <2>2, <2>3, <2>4, <2>5, <2>6, <2>7, <2>8, <2>9, <2>10, <2>11, <2>12, <2>13, <2>14 DEF Next, Step
<1>3. QED
  BY <1>1, <1>2, TypeCorrect, LockInvHolds, PTL DEF Spec

(* A call that goes on to a label comes to the stage of that label.         *)
LEMMA StageMoves ==
  ASSUME TypeOK, NEW p \in Procs, NEW l, Goto(p, l)
  PROVE  Stages' = [Stages EXCEPT ![p] = StageOf(l)]
BY DEF Goto, Stages, TypeOK

(* Within a stage nothing is seen of it.                                    *)
LEMMA StageStays ==
  ASSUME TypeOK, NEW p \in Procs, NEW l, Goto(p, l), StageOf(l) = StageOf(pc[p])
  PROVE  Stages' = Stages
<1>1. \A q \in Procs : StageOf(pc'[q]) = StageOf(pc[q])
  BY DEF Goto, TypeOK
<1>2. QED
  BY <1>1 DEF Stages

LEMMA StageReturns ==
  ASSUME TypeOK, NEW p \in Procs, NEW how, Return(p, how)
  PROVE  Service!Return(p, how)
<1>1. Stages' = [Stages EXCEPT ![p] = "idle"] /\ res' = [res EXCEPT ![p] = how]
  BY StageMoves DEF Return, StageOf
<1>2. QED
  BY <1>1 DEF Service!Return, Stages

LEMMA StageAdvances ==
  ASSUME TypeOK, NEW p \in Procs, NEW l, Goto(p, l), UNCHANGED res
  PROVE  Service!Advance(p, StageOf(l))
<1>1. Stages' = [Stages EXCEPT ![p] = StageOf(l)]
  BY StageMoves
<1>2. QED
  BY <1>1 DEF Service!Advance, Stages

(* What the switch shows does not change.                                   *)
Unseen == UNCHANGED <<shutdown, flows, op, res>> /\ Stages' = Stages

LEMMA Unseen1 ==
  ASSUME Unseen PROVE UNCHANGED Service!serviceVars
BY DEF Unseen, Service!serviceVars, Stages

(* Another call that holds the guard, or reads, is under way.               *)
LEMMA LockIsOther ==
  ASSUME TypeOK, LockInv, NEW p \in Procs, pc[p] \notin {"starting", "stopping", "probing"}, TryWriteFails
  PROVE  Service!Others(p)
<1>1. \E q \in Procs \ {p} : pc[q] \in {"starting", "stopping", "probing"}
  BY DEF TryWriteFails, LockInv, TypeOK
<1>2. \E q \in Procs \ {p} : Stages[q] # "idle"
  BY <1>1 DEF Stages, StageOf
<1>3. QED
  BY <1>2 DEF Service!Others, Stages

(* Every step of a call is a step of the switch, or nothing is seen of it.  *)
LEMMA ProbeSteps ==
  ASSUME TypeOK, LockInv, OpInv, NEW p \in Procs, ProbeEnter(p) \/ ProbeLeave(p)
  PROVE  Service!Look(p) \/ Unseen
<1>1. UNCHANGED <<shutdown, flows, op>>
  BY DEF ProbeEnter, ProbeLeave, engineVars, callVars
<1>2. Stages[p] = "look"
  BY DEF ProbeEnter, ProbeLeave, Stages, StageOf
<1>3. ASSUME NEW running \in BOOLEAN, AfterProbe(p, running), running => (~shutdown \/ Service!Others(p)),
             ~running => shutdown
      PROVE  Service!Look(p)
  <2>1. CASE op[p] = "state" /\ Return(p, "ok")
    <3>1. Service!Return(p, "ok")
      BY <2>1, StageReturns
    <3>2. QED
      BY <1>1, <1>2, <2>1, <3>1 DEF Service!Look, Stages
  <2>2. CASE op[p] # "state" /\ running /\ Goto(p, "stop_enter") /\ UNCHANGED <<todo, res>>
    <3>1. Service!Advance(p, "halt")
      BY <2>2, StageAdvances DEF StageOf
    <3>2. QED
      BY <1>1, <1>2, <1>3, <2>2, <3>1 DEF Service!Look, Stages
  <2>3. CASE op[p] # "state" /\ ~running /\ Goto(p, "clear") /\ UNCHANGED res
    <3>1. Service!Advance(p, "replace")
      BY <2>3, StageAdvances DEF StageOf
    <3>2. QED
      BY <1>1, <1>2, <1>3, <2>3, <3>1 DEF Service!Look, Stages
  <2>4. QED
    BY <1>3, <2>1, <2>2, <2>3 DEF AfterProbe
<1>4. CASE pc[p] = "check" /\ lock # NoProc /\ AfterProbe(p, TRUE)
  <2>1. Service!Others(p)
    BY <1>4, LockIsOther DEF TryWriteFails
  <2>2. QED
    BY <1>3, <1>4, <2>1
<1>5. CASE pc[p] = "check" /\ Goto(p, "probing") /\ UNCHANGED res
  <2>1. Stages' = Stages
    BY <1>5, StageStays DEF StageOf
  <2>2. QED
    BY <1>1, <1>5, <2>1 DEF Unseen
<1>6. CASE AfterProbe(p, ~shutdown)
  BY <1>3, <1>6 DEF TypeOK
<1>7. QED
  BY <1>4, <1>5, <1>6 DEF ProbeEnter, ProbeLeave

LEMMA StopSteps ==
  ASSUME TypeOK, LockInv, SwitchInv, NEW p \in Procs, StopEnter(p) \/ StopDone(p)
  PROVE  Service!Halt(p) \/ Service!Refuse(p) \/ Unseen
<1>1. UNCHANGED <<flows, op>> /\ Stages[p] = "halt"
  BY DEF StopEnter, StopDone, Stages, StageOf, callVars
<1>2. CASE StopEnter(p) /\ StopRefused /\ Return(p, "err")
  <2>1. ~~shutdown \/ Service!Others(p)
    BY <1>2, LockIsOther DEF StopEnter, StopRefused
  <2>2. Service!Return(p, "err") /\ UNCHANGED shutdown
    BY <1>2, StageReturns DEF StopEnter
  <2>3. QED
    BY <1>1, <2>1, <2>2 DEF Service!Refuse, Stages
<1>3. CASE StopEnter(p) /\ Goto(p, "stopping") /\ UNCHANGED res
  <2>1. Stages' = Stages
    BY <1>3, StageStays DEF StageOf, StopEnter
  <2>2. QED
    BY <1>1, <1>3, <2>1 DEF Unseen, StopEnter
<1>4. CASE StopDone(p)
  <2>1. ~shutdown /\ shutdown' = TRUE /\ ~~shutdown'
    BY <1>4 DEF StopDone, SwitchInv
  <2>2. (~shutdown)' = FALSE
    BY <2>1
  <2>3. \/ op[p] = "stop" /\ Service!Return(p, "ok")
        \/ op[p] = "restart" /\ Service!Advance(p, "launch")
        \/ op[p] = "redeploy" /\ Service!Advance(p, "replace")
    <3>1. CASE op[p] = "stop" /\ Return(p, "ok")
      BY <3>1, StageReturns
    <3>2. CASE op[p] = "restart" /\ Goto(p, "start_enter") /\ UNCHANGED res
      BY <3>2, StageAdvances DEF StageOf
    <3>3. CASE op[p] = "redeploy" /\ Goto(p, "clear") /\ UNCHANGED res
      BY <3>3, StageAdvances DEF StageOf
    <3>4. QED
      BY <1>4, <3>1, <3>2, <3>3 DEF StopDone, AfterStop
  <2>4. QED
    BY <1>1, <2>1, <2>2, <2>3 DEF Service!Halt, Stages
<1>5. QED
  BY <1>2, <1>3, <1>4 DEF StopEnter

LEMMA StartSteps ==
  ASSUME TypeOK, LockInv, SwitchInv, NEW p \in Procs, StartEnter(p) \/ StartDone(p)
  PROVE  Service!Launch(p) \/ Service!Refuse(p) \/ Unseen
<1>1. UNCHANGED <<flows, op>> /\ Stages[p] = "launch"
  BY DEF StartEnter, StartDone, Stages, StageOf, callVars
<1>2. CASE StartEnter(p) /\ StartRefused /\ Return(p, "err")
  <2>1. ~shutdown \/ flows = {} \/ Service!Others(p)
    BY <1>2, LockIsOther DEF StartEnter, StartRefused
  <2>2. Service!Return(p, "err") /\ UNCHANGED shutdown
    BY <1>2, StageReturns DEF StartEnter
  <2>3. QED
    BY <1>1, <2>1, <2>2 DEF Service!Refuse, Stages
<1>3. CASE StartEnter(p) /\ Goto(p, "starting") /\ UNCHANGED res
  <2>1. Stages' = Stages
    BY <1>3, StageStays DEF StageOf, StartEnter
  <2>2. QED
    BY <1>1, <1>3, <2>1 DEF Unseen, StartEnter
<1>4. CASE StartDone(p)
  <2>1. ~~shutdown /\ shutdown' = FALSE
    BY <1>4 DEF StartDone, SwitchInv
  <2>2. (~shutdown)' = TRUE
    BY <2>1
  <2>3. Service!Return(p, "ok")
    BY <1>4, StageReturns DEF StartDone
  <2>4. QED
    BY <1>1, <2>1, <2>2, <2>3 DEF Service!Launch, Stages
<1>5. QED
  BY <1>2, <1>3, <1>4 DEF StartEnter

LEMMA DeploySteps ==
  ASSUME TypeOK, OpInv, NEW p \in Procs, Step(p),
         pc[p] \in {"clear", "clear_nodes", "parse", "hash", "globals", "load"}
  PROVE  Service!Replace(p) \/ Service!Replaced(p) \/ Service!Refuse(p) \/ Unseen
<1>1. Stages[p] = "replace"
  BY DEF Stages, StageOf
<1>2. ASSUME NEW f \in Objs, ClearFlow(p, f) PROVE Service!Replace(p)
  <2>1. UNCHANGED <<shutdown, op, pc, res>> /\ flows' \subseteq Objs
    BY <1>2 DEF ClearFlow, TypeOK, callVars
  <2>2. QED
    BY <1>1, <2>1 DEF Service!Replace, Stages
<1>3. CASE ClearFlowsDone(p) \/ ClearNodes(p) \/ SetHash(p)
  <2>1. UNCHANGED <<shutdown, flows, op, res>>
    BY <1>3 DEF ClearFlowsDone, ClearNodes, SetHash, engineVars, callVars
  <2>2. Stages' = Stages
    BY <1>3, StageStays DEF StageOf, ClearFlowsDone, ClearNodes, SetHash
  <2>3. QED
    BY <2>1, <2>2 DEF Unseen
<1>4. CASE Parse(p) \/ LoadGlobals(p)
  <2>1. UNCHANGED <<shutdown, flows, op>>
    BY <1>4 DEF Parse, LoadGlobals, engineVars, callVars
  <2>2. CASE Return(p, "err")
    BY <1>1, <2>1, <2>2, StageReturns DEF Service!Refuse, Stages
  <2>3. CASE (Goto(p, "hash") \/ Goto(p, "load")) /\ UNCHANGED res
    <3>1. Stages' = Stages
      BY <1>4, <2>3, StageStays DEF StageOf, Parse, LoadGlobals
    <3>2. QED
      BY <2>1, <2>3, <3>1 DEF Unseen
  <2>4. QED
    BY <1>4, <2>2, <2>3 DEF Parse, LoadGlobals
<1>5. ASSUME NEW f \in Objs, LoadFlow(p, f)
      PROVE  Service!Replace(p) \/ Service!Refuse(p)
  <2>1. UNCHANGED <<shutdown, op>>
    BY <1>5 DEF LoadFlow, callVars
  <2>2. CASE Return(p, "err") /\ UNCHANGED flows
    BY <1>1, <2>1, <2>2, StageReturns DEF Service!Refuse, Stages
  <2>3. CASE UNCHANGED <<pc, res>> /\ flows' = {g \in flows : g.id # f.id} \cup {f}
    <3>1. flows' \subseteq Objs
      BY <2>3 DEF TypeOK
    <3>2. QED
      BY <1>1, <2>1, <2>3, <3>1 DEF Service!Replace, Stages
  <2>4. QED
    BY <1>5, <2>2, <2>3 DEF LoadFlow
<1>6. CASE LoadDone(p)
  <2>1. UNCHANGED <<shutdown, flows, op>> /\ Service!Advance(p, "launch")
    BY <1>6, StageAdvances DEF LoadDone, StageOf, engineVars, callVars
  <2>2. QED
    BY <1>1, <2>1 DEF Service!Replaced, Stages
<1>7. QED
  BY <1>2, <1>3, <1>4, <1>5, <1>6
  DEF Step, StopEnter, StopJoin, StopDone, StopFlow, StartEnter, StartNode, StartFlowDone, StartDone, StartFlow, ProbeEnter, ProbeLeave

LEMMA CallSteps ==
  ASSUME TypeOK, NEW p \in Procs, Call(p)
  PROVE  \E o \in {"start", "stop", "restart", "redeploy", "state"} : Service!Ask(p, o)
<1>1. PICK o \in {"start", "stop", "restart", "redeploy", "state"}, l \in {"start_enter", "stop_enter", "check"} :
        CallOp(p, o, l) /\ StageOf(l) = Service!FirstEffect(o)
  BY DEF Call, CallStart, CallStop, CallRestart, CallRedeploy, CallState, StageOf, Service!FirstEffect
<1>2. UNCHANGED <<shutdown, flows, res>>
  BY DEF Call, CallStart, CallStop, CallRestart, CallRedeploy, CallState, engineVars
<1>3. Service!Advance(p, Service!FirstEffect(o))
  BY <1>1, <1>2, StageAdvances DEF CallOp
<1>4. Stages[p] = "idle"
  BY <1>1 DEF CallOp, Stages, StageOf
<1>5. QED
  BY <1>1, <1>2, <1>3, <1>4 DEF CallOp, Service!Ask, Stages

LEMMA DropSteps ==
  ASSUME TypeOK, NEW p \in Procs, Drop(p)
  PROVE  Service!Abandon(p)
<1>1. Stages[p] \in {"halt", "replace", "launch"}
  BY DEF Drop, Stages, StageOf
<1>2. UNCHANGED <<shutdown, flows, op>> /\ Service!Return(p, "dropped")
  BY StageReturns DEF Drop, callVars
<1>3. QED
  BY <1>1, <1>2 DEF Service!Abandon, Stages

(* The loops of start and stop, and what tasks do, are not seen.            *)
LEMMA LoopSteps ==
  ASSUME UNCHANGED <<shutdown, flows, op, res, pc>>
  PROVE  Unseen
BY DEF Unseen, Stages

(* Start, stop, restart and redeploy_flows take effect at one moment each, for
   any callers that interleave or are dropped at an await, and are refused only
   for a cause: EngineLifecycle implements EngineService.                   *)
THEOREM EngineIsASwitch == Spec => ActsAsSwitch
<1>1. Init => Service!Init
  <2> SUFFICES ASSUME Init PROVE Service!Init
    OBVIOUS
  <2>1. (~shutdown) = FALSE /\ flows \subseteq Objs
    BY EngineAssumption DEF Init, ObjsOf, Objs, Gens
  <2>2. Stages = [p \in Procs |-> "idle"] /\ res = [p \in Procs |-> "none"]
    BY DEF Init, Stages, StageOf
  <2>3. QED
    BY <2>1, <2>2 DEF Service!Init, Stages
<1>2. TypeOK /\ LockInv /\ OpInv /\ SwitchInv /\ [Next]_vars => [Service!Next]_(Service!serviceVars)
  <2> SUFFICES ASSUME TypeOK, LockInv, OpInv, SwitchInv, [Next]_vars
               PROVE  Service!Next \/ UNCHANGED Service!serviceVars
    OBVIOUS
  <2>1. ASSUME NEW p \in Procs, Call(p) PROVE Service!Next
    BY <2>1, CallSteps DEF Service!Next
  <2>2. ASSUME NEW p \in Procs, Drop(p) PROVE Service!Next
    BY <2>2, DropSteps DEF Service!Next
  <2>3. ASSUME NEW p \in Procs, Step(p) PROVE Service!Next \/ Unseen
    <3>1. CASE ProbeEnter(p) \/ ProbeLeave(p)
      BY <3>1, ProbeSteps DEF Service!Next
    <3>2. CASE StopEnter(p) \/ StopDone(p)
      BY <3>2, StopSteps DEF Service!Next
    <3>3. CASE StartEnter(p) \/ StartDone(p)
      BY <3>3, StartSteps DEF Service!Next
    <3>4. CASE StopJoin(p) \/ StartNode(p) \/ StartFlowDone(p) \/ \E f \in Objs : StopFlow(p, f) \/ StartFlow(p, f)
      BY <3>4, LoopSteps DEF StopJoin, StartNode, StartFlowDone, StopFlow, StartFlow, engineVars, callVars
    <3>5. CASE pc[p] \in {"clear", "clear_nodes", "parse", "hash", "globals", "load"}
      BY <2>3, <3>5, DeploySteps DEF Service!Next
    <3>6. QED
      BY <2>3, <3>1, <3>2, <3>3, <3>4, <3>5
      DEF Step, ClearFlow, ClearFlowsDone, ClearNodes, Parse, SetHash, LoadGlobals, LoadFlow, LoadDone
  <2>4. ASSUME NEW f \in Objs, TaskExit(f) \/ ForwarderExit(f) PROVE Unseen
    BY <2>4, LoopSteps DEF TaskExit, ForwarderExit, engineVars, callVars
  <2>5. CASE UNCHANGED vars
    BY <2>5, LoopSteps, Unseen1 DEF vars, engineVars, callVars
  <2>6. QED
    BY <2>1, <2>2, <2>3, <2>4, <2>5, Unseen1 DEF Next
<1>3. QED
  BY <1>1, <1>2, TypeCorrect, LockInvHolds, OpInvHolds, SwitchInvHolds, PTL DEF Spec, ActsAsSwitch, Service!Spec

=============================================================================
