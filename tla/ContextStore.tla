---------------------------- MODULE ContextStore ----------------------------
(***************************************************************************)
(* The context stores behind flow.set/get: ContextManager resolves the     *)
(* store a request names, the memory store applies it under one lock, and  *)
(* the localfs store keeps scopes in memory, remembers which are dirty and *)
(* flushes them from a background task and once more when it is closed.    *)
(* Every await of a localfs operation is a step of its own: load the scope *)
(* (check, read the file, insert), update it, mark it dirty.               *)
(***************************************************************************)
EXTENDS Integers, FiniteSets

CONSTANTS CtxClients,   \* tasks that call the store at the same time
          CtxFlows,     \* flow ids, each the name of the scope of its flow
          CtxValues,    \* what a scope may hold; CtxEmpty is the object without keys
          CtxOps,       \* bound on the requests
          CtxFaults     \* bound on failing writes, crashes and closes

CtxAbsent == "absent"
CtxEmpty  == "{}"

ASSUME CtxAssumption == CtxAbsent \notin CtxValues /\ CtxOps \in Nat /\ CtxFaults \in Nat

VARIABLES
    ctxRam,        \* the memory store
    ctxScopes,     \* scopes of the localfs store
    ctxDisk,       \* its files
    ctxDirty,      \* dirty
    ctxPass,       \* the passes of the flush task and of close
    ctxClient,     \* the request every task is at
    ctxDone,       \* history: a scope without what failed sets left in it since it was
                   \* loaded, changed by a request that succeeded, or written
    ctxCut,        \* history: scopes given up by an aborted pass, a failed close or a
                   \* delete that overlapped another operation
    ctxLeft, ctxBad

ctxVars == <<ctxRam, ctxScopes, ctxDisk, ctxDirty, ctxPass, ctxClient, ctxDone, ctxCut, ctxLeft, ctxBad>>

\* The scope of a request: a node uses the id of its flow, the HTTP API "flow:" and the id.
WebScope(f) == <<"flow:", f>>
NodeScope(f) == <<f>>
Scopes == {WebScope(f) : f \in CtxFlows} \cup {NodeScope(f) : f \in CtxFlows}

\* The builder keeps "memory" as the default whatever the settings name.
DefaultStore == "memory"
GetContextStore(name) ==
    IF name \in {"default", "_", ""} THEN DefaultStore
    ELSE IF name \in {"memory", "file"} THEN name ELSE "none"

Idle == [pc |-> "idle", op |-> "none", scope |-> <<>>, value |-> CtxAbsent, data |-> CtxAbsent]
Quiet == [at |-> "off", left |-> {}]

CtxInit ==
    /\ ctxRam = [s \in Scopes |-> CtxAbsent]
    /\ ctxScopes = [s \in Scopes |-> CtxAbsent] /\ ctxDone = [s \in Scopes |-> CtxAbsent]
    /\ ctxDisk \in [Scopes -> {CtxAbsent} \cup CtxValues]
    /\ \A f \in CtxFlows : ctxDisk[WebScope(f)] = CtxAbsent
    /\ ctxDirty = {}
    /\ ctxPass = [p \in {"task", "close"} |-> Quiet]
    /\ ctxClient = [c \in CtxClients |-> Idle]
    /\ ctxCut = {}
    /\ ctxLeft = CtxOps
    /\ ctxBad = CtxFaults

At(c, pc) == ctxClient[c].pc = pc
Goto(c, pc) == ctxClient' = [ctxClient EXCEPT ![c] = IF pc = "idle" THEN Idle ELSE [@ EXCEPT !.pc = pc]]
Busy(s) == {c \in CtxClients : ctxClient[c].scope = s}
Deleting(s) == \E c \in Busy(s) : ctxClient[c].op = "delete"

\* What set_one (a value), remove_one and get_one leave in a scope that holds v.
Update(op, v, value) ==
    CASE op = "set" -> value
      [] op = "remove" /\ v \notin {CtxAbsent, CtxEmpty} -> CtxEmpty
      [] OTHER -> v
\* What a set that fails on its way leaves (set_segs_property): the empty scope it made
\* and the intermediate values it created before the segment it could not set.
Leftovers(v) == CtxValues \cup {IF v = CtxAbsent THEN CtxEmpty ELSE v}
Changes(op, v) == op = "set" \/ (op = "remove" /\ v \notin {CtxAbsent, CtxEmpty})

\* A request of a node or of the web API. The memory store is done in one step;
\* a name no store has is an error; localfs begins by loading the scope.
CtxRequest(c, name, op, s, value) ==
    /\ At(c, "idle") /\ ctxLeft > 0
    /\ ctxLeft' = ctxLeft - 1
    /\ CASE GetContextStore(name) = "memory" ->
              /\ \E after \in {IF op = "delete" THEN CtxAbsent ELSE Update(op, ctxRam[s], value)}
                                \cup (IF op = "set" THEN Leftovers(ctxRam[s]) ELSE {}) :
                    ctxRam' = [ctxRam EXCEPT ![s] = after]
              /\ UNCHANGED <<ctxClient, ctxCut>>
         [] GetContextStore(name) = "file" ->
              /\ ctxClient' = [ctxClient EXCEPT ![c] =
                    [pc |-> IF op = "delete" THEN "forget" ELSE "check",
                     op |-> op, scope |-> s, value |-> value, data |-> CtxAbsent]]
              /\ ctxCut' = IF (op = "delete" /\ Busy(s) # {}) \/ Deleting(s) THEN ctxCut \cup {s} ELSE ctxCut
              /\ UNCHANGED ctxRam
         [] OTHER -> UNCHANGED <<ctxRam, ctxClient, ctxCut>>
    /\ UNCHANGED <<ctxScopes, ctxDisk, ctxDirty, ctxPass, ctxDone, ctxBad>>

NodeRequest(c) ==
    \E name \in {"", "file", "lost"}, f \in CtxFlows, op \in {"get", "set", "remove", "delete"}, v \in CtxValues :
        CtxRequest(c, name, op, NodeScope(f), v)
\* GET and DELETE /context/...: a store that is not known is the default one.
WebRequest(c) ==
    \E f \in CtxFlows, op \in {"get", "remove"}, s \in {"", "file"}, v \in {CtxEmpty} :
        \E scope \in {WebScope(f), NodeScope(f)} :
            CtxRequest(c, IF op = "remove" THEN "" ELSE s, op, scope, v)

\* The locks: a flush holds the read lock of the scopes for a whole pass.
Flushing == \E p \in DOMAIN ctxPass : ctxPass[p].at = "flush"

EnsureLoaded(c) ==
    LET s == ctxClient[c].scope
    IN  \/ /\ At(c, "check")
           /\ Goto(c, IF ctxScopes[s] # CtxAbsent THEN "update" ELSE "read")
           /\ UNCHANGED <<ctxScopes, ctxDone>>
        \/ /\ At(c, "read")
           /\ ctxClient' = [ctxClient EXCEPT ![c] =
                    [@ EXCEPT !.pc = IF ctxDisk[s] = CtxAbsent THEN "update" ELSE "insert",
                              !.data = ctxDisk[s]]]
           /\ UNCHANGED <<ctxScopes, ctxDone>>
        \/ /\ At(c, "insert") /\ ~Flushing
           /\ ctxScopes' = [ctxScopes EXCEPT ![s] = IF @ = CtxAbsent THEN ctxClient[c].data ELSE @]
           /\ ctxDone' = [ctxDone EXCEPT ![s] = IF ctxScopes[s] = CtxAbsent THEN ctxClient[c].data ELSE @]
           /\ Goto(c, "update")
LoadStep(c) ==
    /\ EnsureLoaded(c)
    /\ UNCHANGED <<ctxRam, ctxDisk, ctxDirty, ctxPass, ctxCut, ctxLeft, ctxBad>>

Apply(c) ==
    LET cl == ctxClient[c]
    IN  /\ At(c, "update") /\ (cl.op = "get" \/ ~Flushing)
        /\ ctxScopes' = [ctxScopes EXCEPT ![cl.scope] = Update(cl.op, @, cl.value)]
        /\ IF Changes(cl.op, ctxScopes[cl.scope])
           THEN Goto(c, "mark") /\ ctxDone' = [ctxDone EXCEPT ![cl.scope] = ctxScopes'[cl.scope]]
           ELSE Goto(c, "idle") /\ UNCHANGED ctxDone
        /\ UNCHANGED <<ctxRam, ctxDisk, ctxDirty, ctxPass, ctxCut, ctxLeft, ctxBad>>
\* set_one returns the error before the mark, with whatever the set has left.
SetFails(c) ==
    LET s == ctxClient[c].scope
    IN  /\ At(c, "update") /\ ctxClient[c].op = "set" /\ ~Flushing
        /\ \E left \in Leftovers(ctxScopes[s]) : ctxScopes' = [ctxScopes EXCEPT ![s] = left]
        /\ Goto(c, "idle")
        /\ UNCHANGED <<ctxRam, ctxDisk, ctxDirty, ctxPass, ctxDone, ctxCut, ctxLeft, ctxBad>>
Mark(c) ==
    /\ At(c, "mark")
    /\ ctxDirty' = ctxDirty \cup {ctxClient[c].scope}
    /\ Goto(c, "idle")
    /\ UNCHANGED <<ctxRam, ctxScopes, ctxDisk, ctxPass, ctxDone, ctxCut, ctxLeft, ctxBad>>

\* delete: the scope in memory, then its mark, then its file.
Delete(c) ==
    LET s == ctxClient[c].scope
    IN  /\ \/ At(c, "forget") /\ ~Flushing
              /\ ctxScopes' = [ctxScopes EXCEPT ![s] = CtxAbsent]
              /\ ctxDone' = [ctxDone EXCEPT ![s] = CtxAbsent]
              /\ Goto(c, "unmark") /\ UNCHANGED <<ctxDirty, ctxDisk>>
           \/ At(c, "unmark") /\ ctxDirty' = ctxDirty \ {s}
              /\ Goto(c, "unlink") /\ UNCHANGED <<ctxScopes, ctxDone, ctxDisk>>
           \/ At(c, "unlink") /\ ctxDisk' = [ctxDisk EXCEPT ![s] = CtxAbsent]
              /\ Goto(c, "idle") /\ UNCHANGED <<ctxScopes, ctxDone, ctxDirty>>
        /\ UNCHANGED <<ctxRam, ctxPass, ctxCut, ctxLeft, ctxBad>>

\* open starts the flush task.
Open ==
    /\ ctxPass["task"].at = "off" /\ ctxPass["close"].at = "off"
    /\ ctxPass' = [ctxPass EXCEPT !["task"].at = "tick"]
    /\ UNCHANGED <<ctxRam, ctxScopes, ctxDisk, ctxDirty, ctxClient, ctxDone, ctxCut, ctxLeft, ctxBad>>

\* A tick of the task, or close after it aborted the task, takes the dirty set ...
Drain(p) ==
    /\ ctxPass[p].at = "tick" /\ (p = "task" => ctxDirty # {})
    /\ ctxPass' = [ctxPass EXCEPT ![p] = [at |-> "lock", left |-> ctxDirty]]
    /\ ctxDirty' = {}
    /\ UNCHANGED <<ctxRam, ctxScopes, ctxDisk, ctxClient, ctxDone, ctxCut, ctxLeft, ctxBad>>
\* ... then the read lock for the rest of the pass ...
PassLocks(p) ==
    /\ ctxPass[p].at = "lock"
    /\ ctxPass' = [ctxPass EXCEPT ![p].at = "flush"]
    /\ UNCHANGED <<ctxRam, ctxScopes, ctxDisk, ctxDirty, ctxClient, ctxDone, ctxCut, ctxLeft, ctxBad>>
\* ... and writes each scope: a temporary file, renamed over the old one.
FlushScope(s) ==
    IF ctxScopes[s] = CtxAbsent THEN UNCHANGED <<ctxDisk, ctxDone>>
    ELSE /\ ctxDisk' = [ctxDisk EXCEPT ![s] = ctxScopes[s]]
         /\ ctxDone' = [ctxDone EXCEPT ![s] = ctxScopes[s]]
Flushed(p) ==
    /\ ctxPass[p].at = "flush"
    /\ \E s \in ctxPass[p].left :
         /\ FlushScope(s)
         /\ ctxPass' = [ctxPass EXCEPT ![p].left = @ \ {s}]
    /\ UNCHANGED <<ctxRam, ctxScopes, ctxDirty, ctxClient, ctxCut, ctxLeft, ctxBad>>
\* A failing write: the task marks the scope again and goes on.
RemarkNone(s) == ctxDirty' = ctxDirty
Remark(s) == ctxDirty' = ctxDirty \cup {s}
TaskWriteFails ==
    /\ ctxPass["task"].at = "flush" /\ ctxBad > 0 /\ ctxBad' = ctxBad - 1
    /\ \E s \in ctxPass["task"].left :
         /\ ctxScopes[s] # CtxAbsent /\ Remark(s)
         /\ ctxPass' = [ctxPass EXCEPT !["task"].left = @ \ {s}]
    /\ UNCHANGED <<ctxRam, ctxScopes, ctxDisk, ctxClient, ctxDone, ctxCut, ctxLeft>>
\* close returns at the first failing write and forgets what it had taken.
CloseWriteFails ==
    /\ ctxPass["close"].at = "flush" /\ ctxBad > 0 /\ ctxBad' = ctxBad - 1
    /\ \E s \in ctxPass["close"].left : ctxScopes[s] # CtxAbsent
    /\ ctxCut' = ctxCut \cup ctxPass["close"].left
    /\ ctxPass' = [ctxPass EXCEPT !["close"] = [at |-> "done", left |-> {}]]
    /\ UNCHANGED <<ctxRam, ctxScopes, ctxDisk, ctxDirty, ctxClient, ctxDone, ctxLeft>>
PassEnds(p) ==
    /\ ctxPass[p].at = "flush" /\ ctxPass[p].left = {}
    /\ ctxPass' = [ctxPass EXCEPT ![p].at = IF p = "task" THEN "tick" ELSE "done"]
    /\ UNCHANGED <<ctxRam, ctxScopes, ctxDisk, ctxDirty, ctxClient, ctxDone, ctxCut, ctxLeft, ctxBad>>
\* close aborts the task wherever it is: what a pass had still to write stays in memory only.
Close ==
    /\ ctxPass["close"].at = "off" /\ ctxPass["task"].at # "off" /\ ctxBad > 0 /\ ctxBad' = ctxBad - 1
    /\ ctxCut' = ctxCut \cup ctxPass["task"].left
    /\ ctxPass' = [task |-> Quiet, close |-> [at |-> "tick", left |-> {}]]
    /\ UNCHANGED <<ctxRam, ctxScopes, ctxDisk, ctxDirty, ctxClient, ctxDone, ctxLeft>>
\* The process ends, at once or after close, and starts again with what is on the disk.
Restart ==
    /\ \/ ctxPass["close"].at = "done" /\ UNCHANGED ctxBad
       \/ ctxPass["close"].at # "done" /\ ctxBad > 0 /\ ctxBad' = ctxBad - 1
    /\ ctxRam' = [s \in Scopes |-> CtxAbsent] /\ ctxScopes' = [s \in Scopes |-> CtxAbsent]
    /\ ctxDone' = [s \in Scopes |-> CtxAbsent]
    /\ ctxDirty' = {} /\ ctxCut' = {}
    /\ ctxPass' = [p \in DOMAIN ctxPass |-> Quiet]
    /\ ctxClient' = [c \in CtxClients |-> Idle]
    /\ UNCHANGED <<ctxDisk, ctxLeft>>

CtxNext ==
    \/ \E c \in CtxClients : NodeRequest(c) \/ WebRequest(c) \/ LoadStep(c) \/ Apply(c) \/ SetFails(c) \/ Mark(c) \/ Delete(c)
    \/ \E p \in {"task", "close"} : Drain(p) \/ PassLocks(p) \/ Flushed(p) \/ PassEnds(p)
    \/ TaskWriteFails \/ CloseWriteFails \/ Open \/ Close \/ Restart

CtxSpec == CtxInit /\ [][CtxNext]_ctxVars

----------------------------------------------------------------------------
\* What a request of the localfs store has changed and reported as done is in the file
\* or will be written: the scope is marked, a pass has taken it, or the task that
\* changed it is about to mark it.  Loading a scope never puts an older file over newer
\* data.  What a set that failed has left in memory (it returns before the mark) is
\* written only with a later change of the scope, and outside the claim are the scopes
\* an aborted pass, a failed close or a delete that overlapped another operation gave
\* up (ctxCut).
CtxBacked ==
    \A s \in Scopes \ ctxCut :
        \/ ctxDone[s] \in {CtxAbsent, ctxDisk[s]}
        \/ s \in ctxDirty
        \/ \E p \in DOMAIN ctxPass : s \in ctxPass[p].left
        \/ \E c \in Busy(s) : At(c, "mark")
=============================================================================
