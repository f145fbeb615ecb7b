------------------------------ MODULE ExecNode ------------------------------
(***************************************************************************)
(* The exec node (function_nodes/exec.rs).  Every message gets a task of   *)
(* its own: a command is spawned, registered under its pid, and waited     *)
(* for; its end races the timer, a kill message and the stop of the node.  *)
(* Message and command share a number.                                     *)
(***************************************************************************)
EXTENDS Integers, Sequences, FiniteSets, SequencesExt

CONSTANTS ExecRuns    \* commands, also the pids of their processes

VARIABLES
    exeSpawn,     \* config.use_spawn
    exeTimer,     \* config.timer is set
    exePc,        \* exePc[r]: where the task of a command is
    exeProc,      \* exeProc[r]: none, running, dying or gone
    exeSignal,    \* exeSignal[r]: whether this node stopped the process
    exeActive,    \* active_processes
    exeKill,      \* kill channels that hold a signal
    exeOut,       \* exeOut[r]: the ports written to, in order
    exeDone,      \* completed units of work
    exeStop

execVars == <<exeSpawn, exeTimer, exePc, exeProc, exeSignal, exeActive, exeKill, exeOut, exeDone, exeStop>>

ExecInit ==
    /\ exeSpawn \in BOOLEAN /\ exeTimer \in BOOLEAN
    /\ exePc = [r \in ExecRuns |-> "new"]
    /\ exeProc = [r \in ExecRuns |-> "none"]
    /\ exeSignal = [r \in ExecRuns |-> FALSE]
    /\ exeActive = {} /\ exeKill = {}
    /\ exeOut = [r \in ExecRuns |-> <<>>]
    /\ exeDone = {} /\ exeStop = FALSE

ExecGo(r, pc) == exePc' = [exePc EXCEPT ![r] = pc]

\* handle_msg with an empty command, or a shell that cannot be spawned: the error
\* is reported and the unit of work completes.
ExecRefused(r) ==
    /\ exePc[r] = "new" /\ ~exeStop
    /\ ExecGo(r, "end")
    /\ UNCHANGED <<exeSpawn, exeTimer, exeProc, exeSignal, exeActive, exeKill, exeOut, exeDone, exeStop>>

\* A program that cannot be spawned still reports a return code.
SpawnFails(r) ==
    /\ exePc[r] = "new" /\ ~exeStop /\ exeSpawn
    /\ exeOut' = [exeOut EXCEPT ![r] = <<2>>]
    /\ ExecGo(r, "end")
    /\ UNCHANGED <<exeSpawn, exeTimer, exeProc, exeSignal, exeActive, exeKill, exeDone, exeStop>>

ExecSpawn(r) ==
    /\ exePc[r] = "new" /\ ~exeStop
    /\ exeProc' = [exeProc EXCEPT ![r] = "running"]
    /\ ExecGo(r, "register")
    /\ UNCHANGED <<exeSpawn, exeTimer, exeSignal, exeActive, exeKill, exeOut, exeDone, exeStop>>

RegisterProcess(r) ==
    /\ exePc[r] = "register"
    /\ exeActive' = exeActive \cup {r}
    /\ ExecGo(r, "wait")
    /\ UNCHANGED <<exeSpawn, exeTimer, exeProc, exeSignal, exeKill, exeOut, exeDone, exeStop>>

\* In spawn mode chunks of output are forwarded as they arrive, and after the end of
\* the process too: the readers are waited for 500 ms only, and a child of the
\* process may hold the pipe, or the node below may be slow, for longer.
ExecChunk(r, port) ==
    /\ exeSpawn /\ exePc[r] \notin {"new", "register"} /\ exeProc[r] # "none" /\ ~exeStop
    /\ Len(exeOut[r]) < 1
    /\ exeOut' = [exeOut EXCEPT ![r] = Append(@, port)]
    /\ UNCHANGED <<exeSpawn, exeTimer, exePc, exeProc, exeSignal, exeActive, exeKill, exeDone, exeStop>>

\* The process ends by itself, or because it was sent a signal.
ProcExit(r) ==
    /\ exeProc[r] \in {"running", "dying"}
    /\ exeProc' = [exeProc EXCEPT ![r] = "gone"]
    /\ UNCHANGED <<exeSpawn, exeTimer, exePc, exeSignal, exeActive, exeKill, exeOut, exeDone, exeStop>>

\* wait_for_child: the end of the child ...
WaitEnds(r) ==
    /\ exePc[r] = "wait" /\ exeProc[r] = "gone"
    /\ ExecGo(r, "unregister")
    /\ UNCHANGED <<exeSpawn, exeTimer, exeProc, exeSignal, exeActive, exeKill, exeOut, exeDone, exeStop>>

\* ... the timer or a kill message, which send a signal and wait again ...
WaitSignal(r) ==
    /\ exePc[r] = "wait"
    /\ exeTimer \/ r \in exeKill
    /\ exeProc' = [exeProc EXCEPT ![r] = IF @ = "running" THEN "dying" ELSE @]
    /\ exeSignal' = [exeSignal EXCEPT ![r] = TRUE]
    /\ ExecGo(r, "reap")
    /\ UNCHANGED <<exeSpawn, exeTimer, exeActive, exeKill, exeOut, exeDone, exeStop>>

Reap(r) ==
    /\ exePc[r] = "reap" /\ exeProc[r] = "gone"
    /\ ExecGo(r, "unregister")
    /\ UNCHANGED <<exeSpawn, exeTimer, exeProc, exeSignal, exeActive, exeKill, exeOut, exeDone, exeStop>>

\* ... or the stop of the node, which leaves through the error path.
WaitCancelled(r) ==
    /\ exePc[r] = "wait" /\ exeStop
    /\ exeProc' = [exeProc EXCEPT ![r] = IF @ = "running" THEN "dying" ELSE @]
    /\ ExecGo(r, "end")
    /\ UNCHANGED <<exeSpawn, exeTimer, exeSignal, exeActive, exeKill, exeOut, exeDone, exeStop>>

\* Mutant: the entry of an ended process stays in the table.
UnregisterNot(r) == exeActive

Unregister(r) == exeActive \ {r}

UnregisterProcess(r) ==
    /\ exePc[r] = "unregister"
    /\ exeActive' = Unregister(r)
    /\ ExecGo(r, "output")
    /\ UNCHANGED <<exeSpawn, exeTimer, exeProc, exeSignal, exeKill, exeOut, exeDone, exeStop>>

\* In exec mode stdout is always written, stderr when there is any, and in both
\* modes the return code.
ExecOutput(r) ==
    /\ exePc[r] = "output"
    /\ \E before \in IF exeSpawn THEN {<<>>} ELSE {<<0>>, <<0, 1>>} :
          exeOut' = [exeOut EXCEPT ![r] = @ \o Append(before, 2)]
    /\ ExecGo(r, "end")
    /\ UNCHANGED <<exeSpawn, exeTimer, exeProc, exeSignal, exeActive, exeKill, exeDone, exeStop>>

\* notify_uow_completed
ExecComplete(r) ==
    /\ exePc[r] = "end"
    /\ ExecGo(r, "done")
    /\ exeDone' = exeDone \cup {r}
    /\ UNCHANGED <<exeSpawn, exeTimer, exeProc, exeSignal, exeActive, exeKill, exeOut, exeStop>>

\* kill_process: by pid, or the only process there is; otherwise ignored.
KillProcess(r) ==
    /\ r \in exeActive /\ ~exeStop
    /\ exeActive' = exeActive \ {r}
    /\ exeKill' = exeKill \cup {r}
    /\ UNCHANGED <<exeSpawn, exeTimer, exePc, exeProc, exeSignal, exeOut, exeDone, exeStop>>

ExecStop ==
    /\ ~exeStop
    /\ exeStop' = TRUE
    /\ UNCHANGED <<exeSpawn, exeTimer, exePc, exeProc, exeSignal, exeActive, exeKill, exeOut, exeDone>>

ExecTask(r) ==
    \/ RegisterProcess(r) \/ WaitEnds(r) \/ WaitSignal(r) \/ Reap(r) \/ WaitCancelled(r)
    \/ UnregisterProcess(r) \/ ExecOutput(r) \/ ExecComplete(r)

ExecNext ==
    \/ ExecStop
    \/ \E r \in ExecRuns :
        \/ ExecRefused(r) \/ SpawnFails(r) \/ ExecSpawn(r) \/ ProcExit(r) \/ KillProcess(r) \/ ExecTask(r)
        \/ \E port \in {0, 1} : ExecChunk(r, port)

ExecSpec == ExecInit /\ [][ExecNext]_execVars

---------------------------------------------------------------------------
(* Properties.                                                             *)

\* When the tasks have ended without a stop of the node, no process is left
\* registered, running or unreported: every spawned command wrote exactly one
\* return code, in exec mode as its last output, whichever of its end, the timer
\* and a kill message came first.
ExecSettled ==
    (~exeStop /\ \A r \in ExecRuns : exePc[r] \in {"new", "done"}) =>
        /\ exeActive = {}
        /\ \A r \in ExecRuns : exeProc[r] # "none" =>
              /\ exeProc[r] = "gone"
              /\ Cardinality({i \in DOMAIN exeOut[r] : exeOut[r][i] = 2}) = 1
              /\ exeSpawn \/ Last(exeOut[r]) = 2
=============================================================================
