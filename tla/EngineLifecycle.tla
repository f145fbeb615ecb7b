--------------------------- MODULE EngineLifecycle ---------------------------
(***************************************************************************)
(* The flow engine of crates/core/src/runtime/engine.rs and the part of    *)
(* flow.rs it drives: start, stop, restart and redeploy_flows, called by   *)
(* several processes (the web handlers of /flows and /flows/state, the     *)
(* application's main task) that interleave at the await points and        *)
(* between the synchronous steps, which run on different worker threads.   *)
(*                                                                         *)
(* A flow OBJECT is one Rust `Flow` value: the flow id together with the   *)
(* generation (the deploy) that built it.  A redeploy builds new objects;  *)
(* stop and start reuse the registered ones, with their stop_token.        *)
(*                                                                         *)
(* The DashMap `flows` keeps a shard read guard over an await while        *)
(* start and stop visit an entry, so a removal or an overwrite of that     *)
(* entry by another thread waits (Guarded).  The iterator may or may not   *)
(* reach an entry inserted after it began (the `late` set of LoadFlow).    *)
(***************************************************************************)
EXTENDS Naturals, FiniteSets

CONSTANTS
  Procs,         \* callers of the engine
  Droppable,     \* callers whose future may be dropped at an await (HTTP handlers)
  FlowIds,       \* ids of tabs and subflows
  Subflows,      \* the ids that are subflows: they also run forwarding tasks
  OwnedIds,      \* the ids the cluster partitioner lets this node run
  InitFlows,     \* the ids of the flows file the engine was built from
  Configs,       \* the deploy payloads: [flows, bad]
  Ops,           \* the engine operations the callers use
  NodesPerFlow,  \* enabled nodes of a flow
  MaxDeploys,    \* bound on the number of redeploy_flows calls
  MaxForwarders, \* bound on the unjoined forwarding tasks of one flow object
  NoProc, NoObj

Gens == 0..MaxDeploys
Objs == [id: FlowIds, gen: Gens]
\* What is wrong with a payload: nothing, the JSON does not parse, a global
\* node has the factory of a flow node, or building one flow fails.
Faults == {"none", "parse", "globals"} \cup FlowIds

\* "state" is GET /flows/state, which only asks is_running.
OpNames == {"start", "stop", "restart", "redeploy", "state"}

ASSUME EngineAssumption ==
  /\ Droppable \subseteq Procs
  /\ NoProc \notin Procs
  /\ NoObj \notin Objs
  /\ Subflows \subseteq FlowIds
  /\ InitFlows \subseteq FlowIds
  /\ Configs \subseteq [flows: SUBSET FlowIds, bad: Faults]
  /\ Ops \subseteq OpNames
  /\ NodesPerFlow \in Nat \ {0}
  /\ MaxDeploys \in Nat
  /\ MaxForwarders \in Nat \ {0}

VARIABLES
  shutdown,   \* InnerEngine.shutdown, the value
  lock,       \* the process that holds its write guard
  flows,      \* InnerEngine.flows: the registered flow objects
  nodes,      \* InnerEngine.all_flow_nodes, by the object whose nodes they are
  globals,    \* InnerEngine.global_nodes, by the generation that loaded them
  hash,       \* InnerEngine.flows_hash: the generation it was computed from
  cancelled,  \* the flow objects whose stop_token is cancelled
  tasks,      \* live node tasks in the node_tasks JoinSet of each object
  forwarders, \* live subflow tx_task groups of each object
  pc,         \* where each process is in the engine code
  op,         \* the operation it is in
  cfg,        \* its deploy payload
  gen,        \* the generation of its redeploy
  todo,       \* the objects its loop has still to visit
  cur,        \* the object it is visiting: the DashMap entry it holds
  spawned,    \* nodes of cur whose task it has spawned
  res,        \* how its last call ended
  nextGen

engineVars == <<shutdown, lock, flows, nodes, globals, hash>>
taskVars   == <<cancelled, tasks, forwarders>>
callVars   == <<op, cfg, gen>>
loopVars   == <<todo, cur, spawned>>
vars == <<engineVars, taskVars, pc, callVars, loopVars, res, nextGen>>

Labels == {"idle", "check", "probing", "stop_enter", "stopping", "clear",
           "clear_nodes", "parse", "hash", "globals", "load", "start_enter", "starting"}

TypeOK ==
  /\ shutdown \in BOOLEAN
  /\ lock \in Procs \cup {NoProc}
  /\ flows \in SUBSET Objs
  /\ nodes \in SUBSET Objs
  /\ globals \in SUBSET Gens
  /\ hash \in Gens
  /\ cancelled \in SUBSET Objs
  /\ tasks \in [Objs -> Nat]
  /\ forwarders \in [Objs -> Nat]
  /\ pc \in [Procs -> Labels]
  /\ op \in [Procs -> OpNames]
  /\ cfg \in [Procs -> [flows: SUBSET FlowIds, bad: Faults]]
  /\ gen \in [Procs -> Gens]
  /\ todo \in [Procs -> SUBSET Objs]
  /\ cur \in [Procs -> Objs \cup {NoObj}]
  /\ spawned \in [Procs -> Nat]
  /\ res \in [Procs -> {"none", "ok", "err", "dropped"}]
  /\ nextGen \in 1..(MaxDeploys + 1)

ObjsOf(ids, g) == {[id |-> i, gen |-> g] : i \in ids}

\* with_json: the flows of the flows file are loaded and nothing runs.
Init ==
  /\ shutdown = TRUE
  /\ lock = NoProc
  /\ flows = ObjsOf(InitFlows, 0)
  /\ nodes = ObjsOf(InitFlows, 0)
  /\ globals = {0}
  /\ hash = 0
  /\ cancelled = {}
  /\ tasks = [f \in Objs |-> 0]
  /\ forwarders = [f \in Objs |-> 0]
  /\ pc = [p \in Procs |-> "idle"]
  /\ op = [p \in Procs |-> "start"]
  /\ cfg = [p \in Procs |-> [flows |-> InitFlows, bad |-> "none"]]
  /\ gen = [p \in Procs |-> 0]
  /\ todo = [p \in Procs |-> {}]
  /\ cur = [p \in Procs |-> NoObj]
  /\ spawned = [p \in Procs |-> 0]
  /\ res = [p \in Procs |-> "none"]
  /\ nextGen = 1

Goto(p, label) == pc' = [pc EXCEPT ![p] = label]

\* The call ends, and with it its loop variables.
Return(p, outcome) ==
  /\ Goto(p, "idle")
  /\ res' = [res EXCEPT ![p] = outcome]
  /\ todo' = [todo EXCEPT ![p] = {}]

\* Another thread is inside the map entry of f.
Guarded(f) == \E q \in Procs : cur[q] # NoObj /\ cur[q].id = f.id

-----------------------------------------------------------------------------
(* The calls                                                                *)

CallOp(p, o, label) ==
  /\ pc[p] = "idle"
  /\ o \in Ops
  /\ op' = [op EXCEPT ![p] = o]
  /\ Goto(p, label)

CallStart(p) ==
  /\ CallOp(p, "start", "start_enter")
  /\ UNCHANGED <<engineVars, taskVars, cfg, gen, loopVars, res, nextGen>>

CallStop(p) ==
  /\ CallOp(p, "stop", "stop_enter")
  /\ UNCHANGED <<engineVars, taskVars, cfg, gen, loopVars, res, nextGen>>

\* restart is stop followed by start on the same flow objects.
CallRestart(p) ==
  /\ CallOp(p, "restart", "stop_enter")
  /\ UNCHANGED <<engineVars, taskVars, cfg, gen, loopVars, res, nextGen>>

CallRedeploy(p, c) ==
  /\ nextGen <= MaxDeploys
  /\ CallOp(p, "redeploy", "check")
  /\ cfg' = [cfg EXCEPT ![p] = c]
  /\ gen' = [gen EXCEPT ![p] = nextGen]
  /\ nextGen' = nextGen + 1
  /\ UNCHANGED <<engineVars, taskVars, loopVars, res>>

CallState(p) ==
  /\ CallOp(p, "state", "check")
  /\ UNCHANGED <<engineVars, taskVars, cfg, gen, loopVars, res, nextGen>>

-----------------------------------------------------------------------------
(* Engine::is_running                                                       *)

\* Mutant: redeploy_flows replaces the flows of a running engine.
AfterProbeNeverStops(p, running) ==
  \/ /\ op[p] = "state"
     /\ Return(p, "ok")
  \/ /\ op[p] # "state"
     /\ Goto(p, "clear")
     /\ todo' = [todo EXCEPT ![p] = flows]
     /\ UNCHANGED res

\* What an operation does with the answer: redeploy_flows stops a running
\* engine and clears a stopped one, GET /flows/state reports it.
AfterProbe(p, running) ==
  \/ /\ op[p] = "state"
     /\ Return(p, "ok")
  \/ /\ op[p] # "state" /\ running
     /\ Goto(p, "stop_enter")
     /\ UNCHANGED <<todo, res>>
  \/ /\ op[p] # "state" /\ ~running
     /\ Goto(p, "clear")
     /\ todo' = [todo EXCEPT ![p] = flows]
     /\ UNCHANGED res

\* A read guard that cannot be had counts as running.
ProbeEnter(p) ==
  /\ pc[p] = "check"
  /\ \/ lock # NoProc /\ AfterProbe(p, TRUE)
     \/ lock = NoProc /\ Goto(p, "probing") /\ UNCHANGED <<todo, res>>
  /\ UNCHANGED <<engineVars, taskVars, callVars, cur, spawned, nextGen>>

ProbeLeave(p) ==
  /\ pc[p] = "probing"
  /\ AfterProbe(p, ~shutdown)
  /\ UNCHANGED <<engineVars, taskVars, callVars, cur, spawned, nextGen>>

\* The write guard is only tried, never awaited: a reader refuses it too.
TryWriteFails == lock # NoProc \/ \E q \in Procs : pc[q] = "probing"

-----------------------------------------------------------------------------
(* Engine::stop                                                             *)

StopRefused == TryWriteFails \/ shutdown

StopEnter(p) ==
  /\ pc[p] = "stop_enter"
  /\ \/ /\ StopRefused
        /\ Return(p, "err")
        /\ UNCHANGED lock
     \/ /\ ~StopRefused
        /\ lock' = p
        /\ todo' = [todo EXCEPT ![p] = flows]
        /\ Goto(p, "stopping")
        /\ UNCHANGED res
  /\ UNCHANGED <<shutdown, flows, nodes, globals, hash, taskVars, callVars,
                 cur, spawned, nextGen>>

\* Mutant: Flow::stop does not cancel the token.
StopFlowWithoutCancel(p, f) ==
  /\ pc[p] = "stopping"
  /\ cur[p] = NoObj
  /\ f \in todo[p] \cap flows
  /\ cur' = [cur EXCEPT ![p] = f]
  /\ UNCHANGED <<engineVars, taskVars, pc, callVars, todo, spawned, res, nextGen>>

\* Flow::stop cancels the token of the flow ...
StopFlow(p, f) ==
  /\ pc[p] = "stopping"
  /\ cur[p] = NoObj
  /\ f \in todo[p] \cap flows
  /\ cur' = [cur EXCEPT ![p] = f]
  /\ cancelled' = cancelled \cup {f}
  /\ UNCHANGED <<engineVars, tasks, forwarders, pc, callVars, todo, spawned, res, nextGen>>

\* Mutant: stop_nodes does not wait for the node tasks.
StopWithoutJoin(p) ==
  /\ pc[p] = "stopping"
  /\ cur[p] # NoObj
  /\ cur' = [cur EXCEPT ![p] = NoObj]
  /\ todo' = [todo EXCEPT ![p] = @ \ {cur[p]}]
  /\ UNCHANGED <<engineVars, taskVars, pc, callVars, spawned, res, nextGen>>

\* ... and stop_nodes joins every node task. The forwarding tasks of a
\* subflow are not joined: that code is commented out.
StopJoin(p) ==
  /\ pc[p] = "stopping"
  /\ cur[p] # NoObj
  /\ tasks[cur[p]] = 0
  /\ cur' = [cur EXCEPT ![p] = NoObj]
  /\ todo' = [todo EXCEPT ![p] = @ \ {cur[p]}]
  /\ UNCHANGED <<engineVars, taskVars, pc, callVars, spawned, res, nextGen>>

\* Where a call goes when its stop has succeeded.
AfterStop(p) ==
  \/ /\ op[p] = "stop"
     /\ Return(p, "ok")
  \/ /\ op[p] = "restart"
     /\ Goto(p, "start_enter")
     /\ UNCHANGED <<todo, res>>
  \/ /\ op[p] = "redeploy"
     /\ Goto(p, "clear")
     /\ todo' = [todo EXCEPT ![p] = flows]
     /\ UNCHANGED res

StopDone(p) ==
  /\ pc[p] = "stopping"
  /\ cur[p] = NoObj
  /\ todo[p] \cap flows = {}
  /\ shutdown' = TRUE
  /\ lock' = NoProc
  /\ AfterStop(p)
  /\ UNCHANGED <<flows, nodes, globals, hash, taskVars, callVars, cur, spawned, nextGen>>

-----------------------------------------------------------------------------
(* Engine::start                                                            *)

\* Mutant: start does not look at `shutdown`.
StartRefusedIgnoresState == TryWriteFails \/ flows = {}

StartRefused == TryWriteFails \/ ~shutdown \/ flows = {}

StartEnter(p) ==
  /\ pc[p] = "start_enter"
  /\ \/ /\ StartRefused
        /\ Return(p, "err")
        /\ UNCHANGED lock
     \/ /\ ~StartRefused
        /\ lock' = p
        /\ todo' = [todo EXCEPT ![p] = flows]
        /\ Goto(p, "starting")
        /\ UNCHANGED res
  /\ UNCHANGED <<shutdown, flows, nodes, globals, hash, taskVars, callVars,
                 cur, spawned, nextGen>>

\* A flow of another cluster node is skipped; Flow::start of a subflow spawns
\* the forwarding tasks first.
StartFlow(p, f) ==
  /\ pc[p] = "starting"
  /\ cur[p] = NoObj
  /\ f \in todo[p] \cap flows
  /\ forwarders[f] < MaxForwarders
  /\ IF f.id \in OwnedIds
     THEN /\ cur' = [cur EXCEPT ![p] = f]
          /\ spawned' = [spawned EXCEPT ![p] = 0]
          /\ forwarders' = IF f.id \in Subflows
                           THEN [forwarders EXCEPT ![f] = @ + 1] ELSE forwarders
          /\ UNCHANGED todo
     ELSE /\ todo' = [todo EXCEPT ![p] = @ \ {f}]
          /\ UNCHANGED <<cur, spawned, forwarders>>
  /\ UNCHANGED <<engineVars, cancelled, tasks, pc, callVars, res, nextGen>>

\* start_nodes spawns the task of the next enabled node.
StartNode(p) ==
  /\ pc[p] = "starting"
  /\ cur[p] # NoObj
  /\ spawned[p] < NodesPerFlow
  /\ tasks' = [tasks EXCEPT ![cur[p]] = @ + 1]
  /\ spawned' = [spawned EXCEPT ![p] = @ + 1]
  /\ UNCHANGED <<engineVars, cancelled, forwarders, pc, callVars, todo, cur, res, nextGen>>

StartFlowDone(p) ==
  /\ pc[p] = "starting"
  /\ cur[p] # NoObj
  /\ spawned[p] = NodesPerFlow
  /\ cur' = [cur EXCEPT ![p] = NoObj]
  /\ todo' = [todo EXCEPT ![p] = @ \ {cur[p]}]
  /\ spawned' = [spawned EXCEPT ![p] = 0]
  /\ UNCHANGED <<engineVars, taskVars, pc, callVars, res, nextGen>>

StartDone(p) ==
  /\ pc[p] = "starting"
  /\ cur[p] = NoObj
  /\ todo[p] \cap flows = {}
  /\ shutdown' = FALSE
  /\ lock' = NoProc
  /\ Return(p, "ok")
  /\ UNCHANGED <<flows, nodes, globals, hash, taskVars, callVars, cur, spawned, nextGen>>

-----------------------------------------------------------------------------
(* Engine::redeploy_flows                                                   *)

\* flows.clear() empties the map shard by shard and waits for a guarded one.
ClearFlow(p, f) ==
  /\ pc[p] = "clear"
  /\ f \in todo[p] \cap flows
  /\ ~Guarded(f)
  /\ flows' = flows \ {f}
  /\ UNCHANGED <<shutdown, lock, nodes, globals, hash, taskVars, pc, callVars,
                 loopVars, res, nextGen>>

ClearFlowsDone(p) ==
  /\ pc[p] = "clear"
  /\ todo[p] \cap flows = {}
  /\ Goto(p, "clear_nodes")
  /\ todo' = [todo EXCEPT ![p] = {}]
  /\ UNCHANGED <<engineVars, taskVars, callVars, cur, spawned, res, nextGen>>

ClearNodes(p) ==
  /\ pc[p] = "clear_nodes"
  /\ nodes' = {}
  /\ globals' = {}
  /\ Goto(p, "parse")
  /\ UNCHANGED <<shutdown, lock, flows, hash, taskVars, callVars, loopVars, res, nextGen>>

\* The payload is parsed only now, with the old flows already gone.
Parse(p) ==
  /\ pc[p] = "parse"
  /\ \/ cfg[p].bad = "parse" /\ Return(p, "err")
     \/ cfg[p].bad # "parse" /\ Goto(p, "hash") /\ UNCHANGED <<res, todo>>
  /\ UNCHANGED <<engineVars, taskVars, callVars, cur, spawned, nextGen>>

SetHash(p) ==
  /\ pc[p] = "hash"
  /\ hash' = gen[p]
  /\ Goto(p, "globals")
  /\ UNCHANGED <<shutdown, lock, flows, nodes, globals, taskVars, callVars,
                 loopVars, res, nextGen>>

LoadGlobals(p) ==
  /\ pc[p] = "globals"
  /\ \/ /\ cfg[p].bad = "globals"
        /\ Return(p, "err")
        /\ UNCHANGED globals
     \/ /\ cfg[p].bad # "globals"
        /\ globals' = globals \cup {gen[p]}
        /\ todo' = [todo EXCEPT ![p] = ObjsOf(cfg[p].flows, gen[p])]
        /\ Goto(p, "load")
        /\ UNCHANGED res
  /\ UNCHANGED <<shutdown, lock, flows, nodes, hash, taskVars, callVars,
                 cur, spawned, nextGen>>

LoadFails(p, f) == cfg[p].bad = f.id \/ \E n \in nodes : n.id = f.id

\* Processes inside a loop over the `flows` map.
Iterating == {q \in Procs : pc[q] \in {"starting", "stopping", "clear"}}

\* load_flows, one flow: Flow::new, then its nodes and the flow are inserted.
\* An error leaves the flows loaded so far in the engine.
LoadFlow(p, f) ==
  /\ pc[p] = "load"
  /\ f \in todo[p]
  /\ \/ /\ LoadFails(p, f)
        /\ Return(p, "err")
        /\ UNCHANGED <<flows, nodes>>
     \/ /\ ~LoadFails(p, f)
        /\ ~Guarded(f)
        /\ nodes' = nodes \cup {f}
        /\ flows' = {g \in flows : g.id # f.id} \cup {f}
        /\ \E late \in SUBSET Iterating :
             todo' = [q \in Procs |-> IF q = p THEN todo[q] \ {f}
                                      ELSE IF q \in late THEN todo[q] \cup {f}
                                      ELSE todo[q]]
        /\ UNCHANGED <<pc, res>>
  /\ UNCHANGED <<shutdown, lock, globals, hash, taskVars, callVars, cur, spawned, nextGen>>

LoadDone(p) ==
  /\ pc[p] = "load"
  /\ todo[p] = {}
  /\ Goto(p, "start_enter")
  /\ UNCHANGED <<engineVars, taskVars, callVars, loopVars, res, nextGen>>

-----------------------------------------------------------------------------
(* The surroundings                                                         *)

\* Mutant: the write guard is leaked by a dropped call.
DropLeaksLock(p) ==
  /\ p \in Droppable
  /\ \/ pc[p] \in {"starting", "stopping"} /\ cur[p] # NoObj
     \/ pc[p] = "hash"
  /\ cur' = [cur EXCEPT ![p] = NoObj]
  /\ Return(p, "dropped")
  /\ UNCHANGED <<engineVars, taskVars, callVars, spawned, nextGen>>

\* The future of a call is dropped at an await: its guards are released and
\* nothing after that await runs.
Drop(p) ==
  /\ p \in Droppable
  /\ \/ pc[p] \in {"starting", "stopping"} /\ cur[p] # NoObj
     \/ pc[p] = "hash"
  /\ lock' = IF lock = p THEN NoProc ELSE lock
  /\ cur' = [cur EXCEPT ![p] = NoObj]
  /\ Return(p, "dropped")
  /\ UNCHANGED <<shutdown, flows, nodes, globals, hash, taskVars, callVars,
                 spawned, nextGen>>

\* A node's run loop ends once the stop_token of its flow is cancelled.
TaskExit(f) ==
  /\ f \in cancelled
  /\ tasks[f] > 0
  /\ tasks' = [tasks EXCEPT ![f] = @ - 1]
  /\ UNCHANGED <<engineVars, cancelled, forwarders, pc, callVars, loopVars, res, nextGen>>

\* So does the forwarding loop of a subflow.
ForwarderExit(f) ==
  /\ f \in cancelled
  /\ forwarders[f] > 0
  /\ forwarders' = [forwarders EXCEPT ![f] = @ - 1]
  /\ UNCHANGED <<engineVars, cancelled, tasks, pc, callVars, loopVars, res, nextGen>>

Step(p) ==
  \/ StopEnter(p) \/ StopJoin(p) \/ StopDone(p)
  \/ \E f \in Objs : StopFlow(p, f)
  \/ StartEnter(p) \/ StartNode(p) \/ StartFlowDone(p) \/ StartDone(p)
  \/ \E f \in Objs : StartFlow(p, f)
  \/ ProbeEnter(p) \/ ProbeLeave(p)
  \/ ClearFlowsDone(p) \/ ClearNodes(p) \/ Parse(p) \/ SetHash(p) \/ LoadGlobals(p) \/ LoadDone(p)
  \/ \E f \in Objs : ClearFlow(p, f)
  \/ \E f \in Objs : LoadFlow(p, f)

Call(p) ==
  \/ CallStart(p) \/ CallStop(p) \/ CallRestart(p) \/ CallState(p)
  \/ \E c \in Configs : CallRedeploy(p, c)

Next ==
  \/ \E p \in Procs : Call(p) \/ Step(p) \/ Drop(p)
  \/ \E f \in Objs : TaskExit(f) \/ ForwarderExit(f)

\* A spawned task and a call that can proceed are scheduled by tokio; nobody
\* is obliged to make a call, and a future need not be dropped.
Fairness ==
  /\ \A p \in Procs : WF_vars(Step(p))
  /\ \A f \in Objs : WF_vars(TaskExit(f)) /\ WF_vars(ForwarderExit(f))

Spec == Init /\ [][Next]_vars
FairSpec == Spec /\ Fairness

-----------------------------------------------------------------------------
(* Properties                                                               *)

AllIdle == \A p \in Procs : pc[p] = "idle"

\* Whatever the callers interleave, a registered flow has no live node task
\* while the engine counts as shut down and nobody is changing that:
\* Engine::stop joins every task before it sets `shutdown`, and start sets
\* it back only after it has spawned them.
RegisteredQuiet ==
  shutdown /\ lock = NoProc => \A f \in flows : tasks[f] = 0

\* No node of a flow object ever runs twice at the same time: concurrent
\* start, restart and redeploy calls never spawn a second set of node tasks.
OneTaskPerNode == \A f \in Objs : tasks[f] <= NodesPerFlow

\* With nobody inside the engine, every live node task belongs to a flow
\* that the engine still knows, hence can stop: redeploy_flows replaces the
\* flows only after the old ones have been stopped.  The forwarding tasks of a
\* subflow, which stop does not join, may outlive it, but then their token is
\* cancelled: none goes on for ever beside the flow that replaced it.
NoOrphanTasks ==
  AllIdle => \A f \in Objs :
    /\ tasks[f] > 0 => f \in flows
    /\ forwarders[f] > 0 => f \in flows \/ f \in cancelled

\* A redeploy that answered Ok, and was the last call, serves its payload: the
\* engine holds exactly its flows and runs every node of them.
DeployServes ==
  \A p \in Procs :
    AllIdle /\ op[p] = "redeploy" /\ res[p] = "ok" =>
      /\ flows = ObjsOf(cfg[p].flows, gen[p])
      /\ ~shutdown
      /\ \A f \in flows : f.id \in OwnedIds => f \notin cancelled /\ tasks[f] = NodesPerFlow

\* And it has replaced what ran before: the old flows, global nodes and
\* revision are gone, with every one of their node tasks.
DeployReplaces ==
  \A p \in Procs :
    AllIdle /\ op[p] = "redeploy" /\ res[p] = "ok" =>
      /\ globals = {gen[p]}
      /\ hash = gen[p]
      /\ \A f \in Objs \ ObjsOf(cfg[p].flows \cap OwnedIds, gen[p]) : tasks[f] = 0

\* A redeploy that failed, whatever the step, leaves an engine that is shut
\* down with nothing running: never half of the new flows, nor the old ones;
\* forwarding tasks that are left are on their way out.
FailedDeployStops ==
  \A p \in Procs :
    AllIdle /\ op[p] = "redeploy" /\ res[p] = "err" =>
      /\ shutdown
      /\ \A f \in Objs : tasks[f] = 0 /\ (forwarders[f] > 0 => f \in cancelled)

\* flows_rev, which the editor compares, is the revision of the flows the
\* engine holds.
RevisionMatches == AllIdle => \A f \in flows : f.gen = hash

\* What a caller of redeploy_flows relies on, whatever the payload and whichever step
\* of the deploy failed: the old flows are stopped before they are replaced, an Ok means
\* that exactly the new flows run, an error that nothing runs, and flows_rev tells which.
\* One caller whose calls are not dropped; with two deploys at once it does not hold.
DeployCorrect ==
  NoOrphanTasks /\ DeployServes /\ DeployReplaces /\ FailedDeployStops /\ RevisionMatches

\* is_running says that the flows run: then the tasks of a registered flow
\* have a stop_token that is not cancelled already.
RunningFlowsServe ==
  ~shutdown /\ lock = NoProc =>
    \A f \in flows : f.id \in OwnedIds => f \notin cancelled

\* The write guard of `shutdown` never outlives the call that took it, a
\* dropped call included.
LockHeldByActive ==
  lock # NoProc => pc[lock] \in {"starting", "stopping"}

\* The effect that a call at a label of the code comes to next.
StageOf(label) ==
  CASE label = "idle" -> "idle"
    [] label \in {"check", "probing"} -> "look"
    [] label \in {"stop_enter", "stopping"} -> "halt"
    [] label \in {"start_enter", "starting"} -> "launch"
    [] label \in {"clear", "clear_nodes", "parse", "hash", "globals", "load"} -> "replace"

Service == INSTANCE EngineService WITH
  Callers <- Procs,
  Flows <- Objs,
  running <- ~shutdown,
  held <- flows,
  job <- op,
  stage <- [p \in Procs |-> StageOf(pc[p])],
  outcome <- res

\* Engine::start, stop, restart and redeploy_flows take effect one at a time, although
\* each of them awaits many times between its check of `shutdown` and the assignment to
\* it (engine.rs): of racing starts one answers Ok, a start that answered Ok found the
\* engine stopped, and a call is refused only for its cause.  In particular a call that
\* is alone is not refused because of one that was dropped at an await before.
ActsAsSwitch == Service!Spec

\* Every call of the engine returns, unless clients go on for ever abandoning
\* theirs: join_next ends because the tokens are cancelled, and the map guards
\* of one call, a dropped one included, never block another for ever.
CallReturns ==
  <>[][\A p \in Procs : ~Drop(p)]_vars =>
    \A p \in Procs : pc[p] # "idle" ~> pc[p] = "idle"
=============================================================================
