--------------------------- MODULE NodeMessaging ---------------------------
(***************************************************************************)
(* Messages between the node tasks of one running flow: the bounded queue  *)
(* of every node (`msg_tx`/`msg_rx`), the unit of work of a node           *)
(* (`with_uow`), the fan-out over its ports and wires (`fan_out_one`,      *)
(* `fan_out_many`), the error and completion paths (`handle_error`,        *)
(* `notify_node_uow_completed`) and the stop token of the flow.            *)
(*                                                                         *)
(* A message is an `Arc<RwLock<Msg>>`.  Handing the handle on shares the   *)
(* message, so the model has a heap of messages: `heap[h]` says which      *)
(* injected message h descends from, which tasks hold a read guard and     *)
(* which wait for the lock.  Tokio's RwLock is fair: a reader queues       *)
(* behind a waiting writer.                                                *)
(*                                                                         *)
(* Every action is one step between two awaits.  What a node computes, and *)
(* writes into the message, is left out.                                   *)
(***************************************************************************)
EXTENDS Integers, Sequences, FiniteSets, FiniteSetsExt, SequencesExt

CONSTANTS
    Nodes,      \* the nodes of the flow
    Wires,      \* Wires[n]: the ports of n, each the sequence of its targets
    Catches,    \* Catches[n]: the catch nodes of n, in the order of handle_error
    Uncaught,   \* the catch nodes with `uncaught` set
    Completes,  \* Completes[n]: the complete nodes that watch n
    Mutators,   \* nodes that write to the message before they send it (change, json)
    Holders,    \* nodes that keep a read guard while they send (switch)
    Deaf,       \* nodes that send with a token of their own (json, yaml, xml, csv)
    Failing,    \* nodes whose processing may fail
    NoUow,      \* nodes that do not use `with_uow` (complete)
    Inputs,     \* nodes that messages are injected into
    Cap,        \* node_msg_queue_capacity
    MaxMsgs,    \* bound on the messages injected
    MaxFails,   \* bound on the failures, so that a retry loop is finite
    MayStop     \* whether the flow may be stopped

VARIABLES
    heap,       \* the messages
    queue,      \* queue[n]: what waits in the channel of n
    pc,         \* where the task of n is
    msg,        \* msg[n]: the handle n works on
    out,        \* out[n]: the sends in flight, one entry for each port
    idx,        \* idx[n]: the next catch or complete node
    copy,       \* copy[n]: the clone made for that node, 0 for none
    err,        \* err[n]: whether the processing of n failed
    cancelled,  \* the stop token of the flow
    origin,     \* origin[o]: the node the o-th message was injected into
    taken,      \* taken[n][o]: how often n received a message descending from o
    failed,     \* failed[n][o]: how often n failed to process one
    routed      \* routed[n][p][o]: how often the switch n chose its port p for one

vars == <<heap, queue, pc, msg, out, idx, copy, err, cancelled,
          origin, taken, failed, routed>>

Origins == 1..MaxMsgs
Handles == 1..Len(heap)
Ports(n) == DOMAIN Wires[n]
States == {"recv", "lock", "work", "fan", "catch", "complete", "stopped"}

ASSUME MessagingAssumption ==
    /\ Cap \in Nat \ {0}
    /\ MaxMsgs \in Nat
    /\ MaxFails \in Nat
    /\ \A n \in Nodes : /\ Wires[n] \in Seq(Seq(Nodes))
                        /\ Catches[n] \in Seq(Nodes)
                        /\ Completes[n] \in Seq(Nodes)
    /\ Mutators \cap Holders = {}
    /\ NoUow \cap Failing = {}
    /\ Inputs \subseteq Nodes

Init ==
    /\ heap = <<>>
    /\ queue = [n \in Nodes |-> <<>>]
    /\ pc = [n \in Nodes |-> "recv"]
    /\ msg = [n \in Nodes |-> 0]
    /\ out = [n \in Nodes |-> <<>>]
    /\ idx = [n \in Nodes |-> 1]
    /\ copy = [n \in Nodes |-> 0]
    /\ err = [n \in Nodes |-> FALSE]
    /\ cancelled = FALSE
    /\ origin = <<>>
    /\ taken = [n \in Nodes |-> [o \in Origins |-> 0]]
    /\ failed = [n \in Nodes |-> [o \in Origins |-> 0]]
    /\ routed = [n \in Nodes |-> [p \in Ports(n) |-> [o \in Origins |-> 0]]]

---------------------------------------------------------------------------
(* The lock of a message.  A waiter is a task <<n, p>>: port p of node n,  *)
(* or the node itself (p = 0).  Only the switch node keeps a guard across  *)
(* a step, every other critical section ends in the step that enters it.   *)

NewMsg(o) == [org |-> o, readers |-> {}, line |-> <<>>]

Lockers == UNION {{n} \X ({0} \cup Ports(n)) : n \in Nodes}

\* The lock task t of node n needs for its next step.
WantsWrite(t) == t[2] = 0 /\ pc[t[1]] = "lock" /\ t[1] \in Mutators

\* handle_error breaks off at the first `uncaught` catch node when another
\* catch node already has the error.
UncaughtStops(n, i) ==
    /\ i > 1
    /\ Catches[n][i] \in Uncaught
    /\ \A j \in 1..(i - 1) : Catches[n][j] \notin Uncaught

\* The nodes that are still to be told of the end of the unit of work.
Listeners(n) == IF pc[n] = "catch" THEN Catches[n] ELSE Completes[n]

\* Mutant: the `uncaught` catch nodes receive every error.
ListeningIgnoresUncaught(n) ==
    /\ pc[n] \in {"catch", "complete"}
    /\ idx[n] <= Len(Listeners(n))

Listening(n) ==
    /\ pc[n] \in {"catch", "complete"}
    /\ idx[n] <= Len(Listeners(n))
    /\ pc[n] = "catch" => ~UncaughtStops(n, idx[n])

WantsRead(t) ==
    LET n == t[1] IN
    IF t[2] = 0
    THEN \/ pc[n] = "lock" /\ n \in Holders
         \/ Listening(n) /\ copy[n] = 0
    ELSE t[2] \in DOMAIN out[n] /\ out[n][t[2]].h = 0

Compatible(t) == WantsWrite(t) => heap[msg[t[1]]].readers = {}

\* The task gets the lock: at once when nobody waits, else at the head of the line.
Granted(t) ==
    LET line == heap[msg[t[1]]].line IN
    /\ WantsWrite(t) \/ WantsRead(t)
    /\ Compatible(t)
    /\ line # <<>> => Head(line) = t

\* The line after task t got the lock.
Served(h) == IF heap[h].line = <<>> THEN <<>> ELSE Tail(heap[h].line)

\* The task finds the lock taken, or others waiting, and queues up.
Wait(t) ==
    LET h == msg[t[1]] IN
    /\ WantsWrite(t) \/ WantsRead(t)
    /\ ~Contains(heap[h].line, t)
    /\ ~Granted(t)
    /\ heap' = [heap EXCEPT ![h].line = Append(@, t)]
    /\ UNCHANGED <<queue, pc, msg, out, idx, copy, err, cancelled,
                   origin, taken, failed, routed>>

---------------------------------------------------------------------------
(* The unit of work of node n.                                             *)

\* A source outside the flow sends a new message to node n.
Inject(n) ==
    /\ n \in Inputs
    /\ ~cancelled
    /\ Len(origin) < MaxMsgs
    /\ Len(queue[n]) < Cap
    /\ heap' = Append(heap, NewMsg(Len(origin) + 1))
    /\ queue' = [queue EXCEPT ![n] = Append(@, Len(heap) + 1)]
    /\ origin' = Append(origin, n)
    /\ UNCHANGED <<pc, msg, out, idx, copy, err, cancelled, taken, failed, routed>>

\* recv_msg: the select takes a message even when the token is cancelled too.
Recv(n) ==
    /\ pc[n] = "recv"
    /\ queue[n] # <<>>
    /\ LET h == Head(queue[n]) IN
       /\ msg' = [msg EXCEPT ![n] = h]
       /\ taken' = [taken EXCEPT ![n][heap[h].org] = @ + 1]
    /\ queue' = [queue EXCEPT ![n] = Tail(@)]
    /\ pc' = [pc EXCEPT ![n] = IF n \in Mutators \cup Holders THEN "lock" ELSE "work"]
    /\ UNCHANGED <<heap, out, idx, copy, err, cancelled, origin, failed, routed>>

\* recv_msg returns TaskCancelled and the loop of the node ends.
Exit(n) ==
    /\ pc[n] = "recv"
    /\ cancelled
    /\ pc' = [pc EXCEPT ![n] = "stopped"]
    /\ UNCHANGED <<heap, queue, msg, out, idx, copy, err, cancelled,
                   origin, taken, failed, routed>>

\* The node writes to the message under the write guard and drops the guard.
Mutate(n) ==
    /\ WantsWrite(<<n, 0>>)
    /\ Granted(<<n, 0>>)
    /\ heap' = [heap EXCEPT ![msg[n]].line = Served(msg[n])]
    /\ pc' = [pc EXCEPT ![n] = "work"]
    /\ UNCHANGED <<queue, msg, out, idx, copy, err, cancelled,
                   origin, taken, failed, routed>>

\* The switch node takes the read guard it keeps until its sends are over.
Guard(n) ==
    /\ pc[n] = "lock"
    /\ n \in Holders
    /\ Granted(<<n, 0>>)
    /\ heap' = [heap EXCEPT ![msg[n]].readers = @ \cup {n},
                            ![msg[n]].line = Served(msg[n])]
    /\ pc' = [pc EXCEPT ![n] = "work"]
    /\ UNCHANGED <<queue, msg, out, idx, copy, err, cancelled,
                   origin, taken, failed, routed>>

Unguard(n) == [heap EXCEPT ![msg[n]].readers = @ \ {n}]

Failures ==
    MapThenSumSet(LAMBDA n : MapThenSumSet(LAMBDA o : failed[n][o], Origins), Nodes)

\* The processing fails before anything is sent.
Fail(n) ==
    /\ pc[n] = "work"
    /\ n \in Failing
    /\ Failures < MaxFails
    /\ heap' = Unguard(n)
    /\ err' = [err EXCEPT ![n] = TRUE]
    /\ failed' = [failed EXCEPT ![n][heap[msg[n]].org] = @ + 1]
    /\ pc' = [pc EXCEPT ![n] = "catch"]
    /\ UNCHANGED <<queue, msg, out, idx, copy, cancelled, origin, taken, routed>>

\* The node hands its message to its ports: a switch to the ports of the
\* rules that match, any other node to the first port.  The first wire of a
\* port is given the handle itself, `h = 0` asks for a deep clone.
Dispatch(n) ==
    /\ pc[n] = "work"
    /\ \E ps \in SUBSET Ports(n) :
          /\ n \notin Holders => ps = Ports(n) \cap {1}
          /\ out' = [out EXCEPT ![n] =
                [p \in {q \in ps : Wires[n][q] # <<>>} |-> [h |-> msg[n], next |-> 1]]]
          /\ routed' = IF n \in Holders
                       THEN [routed EXCEPT ![n] = [p \in Ports(n) |->
                                IF p \in ps THEN [routed[n][p] EXCEPT ![heap[msg[n]].org] = @ + 1] ELSE routed[n][p]]]
                       ELSE routed
    /\ pc' = [pc EXCEPT ![n] = "fan"]
    /\ UNCHANGED <<heap, queue, msg, idx, copy, err, cancelled, origin, taken, failed>>

\* fan_out_one clones the message for the second and every later wire.
Clone(n, p) ==
    /\ p \in DOMAIN out[n]
    /\ Granted(<<n, p>>)
    /\ heap' = Append([heap EXCEPT ![msg[n]].line = Served(msg[n])],
                      NewMsg(heap[msg[n]].org))
    /\ out' = [out EXCEPT ![n][p].h = Len(heap) + 1]
    /\ UNCHANGED <<queue, pc, msg, idx, copy, err, cancelled,
                   origin, taken, failed, routed>>

\* The sends in flight without the one over port p.
Without(n, p) == [q \in DOMAIN out[n] \ {p} |-> out[n][q]]

\* The channel of the target has a free slot.
Room(n, p) ==
    Len(queue[Wires[n][p][out[n][p].next]]) < Cap

\* Mutant: off by one, the last of several wires is never served.
AfterSendSkipsLast(n, p) ==
    LET i == out[n][p].next IN
    IF i + 1 >= Len(Wires[n][p]) THEN Without(n, p)
    ELSE [out[n] EXCEPT ![p] = [h |-> 0, next |-> i + 1]]

\* fan_out_one goes on to the next wire of the port.
AfterSend(n, p) ==
    LET i == out[n][p].next IN
    IF i = Len(Wires[n][p]) THEN Without(n, p)
    ELSE [out[n] EXCEPT ![p] = [h |-> 0, next |-> i + 1]]

\* PortWire::tx puts the message into the queue of the target.
Send(n, p) ==
    /\ p \in DOMAIN out[n]
    /\ out[n][p].h # 0
    /\ Room(n, p)
    /\ queue' = [queue EXCEPT ![Wires[n][p][out[n][p].next]] =
                    Append(@, out[n][p].h)]
    /\ out' = [out EXCEPT ![n] = AfterSend(n, p)]
    /\ UNCHANGED <<heap, pc, msg, idx, copy, err, cancelled,
                   origin, taken, failed, routed>>

\* Mutant: the select of PortWire::tx ignores the token.
SendNeverCancelled(n, p) == FALSE /\ UNCHANGED vars

\* PortWire::tx gives up: the token of the flow is cancelled.
SendCancelled(n, p) ==
    /\ p \in DOMAIN out[n]
    /\ out[n][p].h # 0
    /\ cancelled
    /\ n \notin Deaf
    /\ out' = [out EXCEPT ![n] = Without(n, p)]
    /\ err' = [err EXCEPT ![n] = TRUE]
    /\ UNCHANGED <<heap, queue, pc, msg, idx, copy, cancelled,
                   origin, taken, failed, routed>>

\* Mutant: the node leaves its loop after one unit of work.
NextTurnBreaks == "stopped"

\* The node is back at the head of its loop: `while !stop_token.is_cancelled()`.
NextTurn == IF cancelled THEN "stopped" ELSE "recv"

\* Every port is served: a failed unit of work is reported to the catch nodes, a
\* completed one to the complete nodes, when there are any.
FanDone(n) ==
    /\ pc[n] = "fan"
    /\ DOMAIN out[n] = {}
    /\ heap' = Unguard(n)
    /\ pc' = [pc EXCEPT ![n] = IF n \notin NoUow /\ err[n] THEN "catch"
                               ELSE IF n \notin NoUow /\ Completes[n] # <<>> THEN "complete"
                               ELSE NextTurn]
    /\ err' = [err EXCEPT ![n] = FALSE]
    /\ UNCHANGED <<queue, msg, out, idx, copy, cancelled, origin, taken, failed, routed>>

\* handle_error and notify_node_uow_completed clone the message for a listener.
Copy(n) ==
    /\ Listening(n)
    /\ copy[n] = 0
    /\ Granted(<<n, 0>>)
    /\ heap' = Append([heap EXCEPT ![msg[n]].line = Served(msg[n])],
                      NewMsg(heap[msg[n]].org))
    /\ copy' = [copy EXCEPT ![n] = Len(heap) + 1]
    /\ UNCHANGED <<queue, pc, msg, out, idx, err, cancelled,
                   origin, taken, failed, routed>>

\* inject_msg puts the clone into the queue of the listener.
Deliver(n) ==
    /\ Listening(n)
    /\ copy[n] # 0
    /\ LET dst == Listeners(n)[idx[n]] IN
       /\ Len(queue[dst]) < Cap
       /\ queue' = [queue EXCEPT ![dst] =
             Append(@, copy[n])]
    /\ copy' = [copy EXCEPT ![n] = 0]
    /\ idx' = [idx EXCEPT ![n] = @ + 1]
    /\ UNCHANGED <<heap, pc, msg, out, err, cancelled, origin, taken, failed, routed>>

\* inject_msg is cancelled: handle_error returns, the completion goes on.
DeliverCancelled(n) ==
    /\ Listening(n)
    /\ copy[n] # 0
    /\ cancelled
    /\ copy' = [copy EXCEPT ![n] = 0]
    /\ idx' = [idx EXCEPT ![n] = IF pc[n] = "catch" THEN 1 ELSE @ + 1]
    /\ pc' = [pc EXCEPT ![n] = IF pc[n] = "catch" THEN "complete" ELSE @]
    /\ UNCHANGED <<heap, queue, msg, out, err, cancelled, origin, taken, failed, routed>>

\* All catch nodes have the error, or all complete nodes the message.
Reported(n) ==
    /\ pc[n] \in {"catch", "complete"}
    /\ ~Listening(n)
    /\ pc' = [pc EXCEPT ![n] = IF pc[n] = "catch" THEN "complete" ELSE NextTurn]
    /\ idx' = [idx EXCEPT ![n] = 1]
    /\ err' = [err EXCEPT ![n] = FALSE]
    /\ UNCHANGED <<heap, queue, msg, out, copy, cancelled, origin, taken, failed, routed>>

\* Flow::stop cancels the token of the flow.
Stop ==
    /\ MayStop
    /\ ~cancelled
    /\ cancelled' = TRUE
    /\ UNCHANGED <<heap, queue, pc, msg, out, idx, copy, err,
                   origin, taken, failed, routed>>

NodeStep(n) ==
    \/ Recv(n) \/ Exit(n) \/ Mutate(n) \/ Guard(n) \/ Fail(n) \/ Dispatch(n)
    \/ FanDone(n) \/ Copy(n) \/ Reported(n) \/ DeliverCancelled(n)

PortStep(n, p) == Clone(n, p) \/ SendCancelled(n, p)

Next ==
    \/ Stop
    \/ \E n \in Nodes :
          \/ Inject(n) \/ NodeStep(n) \/ Deliver(n)
          \/ \E p \in Ports(n) : PortStep(n, p) \/ Send(n, p)
    \/ \E t \in Lockers : Wait(t)

Spec == Init /\ [][Next]_vars

\* Tokio polls every task and every future of a `join_all` that can go on, and
\* its channels and locks serve their waiters in order.
Fairness ==
    /\ \A n \in Nodes :
          /\ WF_vars(NodeStep(n) \/ Wait(<<n, 0>>))
          /\ Catches[n] \o Completes[n] # <<>> => SF_vars(Deliver(n))
          /\ \A p \in Ports(n) : /\ WF_vars(PortStep(n, p) \/ Wait(<<n, p>>))
                                /\ SF_vars(Send(n, p))

FairSpec == Spec /\ Fairness

---------------------------------------------------------------------------
(* Properties.                                                             *)

\* Every queue stays within the configured capacity and every handle that a
\* task, a queue or a lock refers to is a message of the heap.
TypeOK ==
    /\ \A h \in Handles : /\ heap[h].org \in Origins
                          /\ heap[h].readers \subseteq Holders
                          /\ ToSet(heap[h].line) \subseteq Lockers
    /\ \A n \in Nodes :
          /\ pc[n] \in States
          /\ Len(queue[n]) <= Cap
          /\ \A i \in DOMAIN queue[n] : queue[n][i] \in Handles
          /\ msg[n] \in 0..Len(heap)
          /\ pc[n] \notin {"recv", "stopped"} => msg[n] # 0
          /\ copy[n] \in 0..Len(heap)
          /\ \A p \in DOMAIN out[n] : /\ p \in Ports(n)
                                      /\ out[n][p].h \in 0..Len(heap)
                                      /\ out[n][p].next \in 1..Len(Wires[n][p])
    /\ cancelled \in BOOLEAN

Quiet == \A n \in Nodes : pc[n] = "recv" /\ queue[n] = <<>>

\* Where node n stands in a sequence of targets.
Hits(s, n) == {i \in DOMAIN s : s[i] = n}

\* An `uncaught` catch node hears of errors no other catch node has taken before it,
\* and ends the search.
Hears(u, i) ==
    LET IsUncaught(j) == Catches[u][j] \in Uncaught
    IN  \A j \in 2..i : IsUncaught(j) => \E l \in 1..(j - 1) : IsUncaught(l)

\* The ways a message comes to node n: <<u, way, p, i>> is the i-th wire of port p of u,
\* or the i-th catch or complete node of u.
Slots(n) ==
    {<<n, "source", 0, 0>>} \cup UNION {
        (UNION {{<<u, "wire", p, i>> : i \in Hits(Wires[u][p], n)} : p \in Ports(u)})
        \cup {<<u, "catch", 0, i>> : i \in {j \in Hits(Catches[u], n) : Hears(u, j)}}
        \cup {<<u, "complete", 0, i>> : i \in IF u \in NoUow THEN {} ELSE Hits(Completes[u], n)}
        : u \in Nodes}

\* How many messages the slot s owes its node for the o-th message injected: a switch
\* sends to the ports its rules chose, any other node what it processed to its first port.
Rounds(s, o) ==
    LET u == s[1]
        p == s[3]
    IN  CASE s[2] = "source" -> IF o \in DOMAIN origin /\ origin[o] = u THEN 1 ELSE 0
          [] s[2] = "wire" -> IF u \in Holders THEN routed[u][p][o]
                              ELSE IF p = 1 THEN taken[u][o] - failed[u][o] ELSE 0
          [] s[2] = "catch" -> failed[u][o]
          [] s[2] = "complete" -> taken[u][o]

\* with_uow, fan_out_one, handle_error, notify_node_uow_completed: when a flow
\* comes to rest, no message was lost or sent twice.  Every node has received,
\* for each message injected, exactly one message for each wire of a node that
\* processed it, one for each error it catches and one for each unit of work it
\* watches.
NothingLost ==
    (Quiet /\ ~cancelled) =>
        \A n \in Nodes, o \in DOMAIN origin :
            taken[n][o] = Cardinality(UNION {{s} \X (1..Rounds(s, o)) : s \in Slots(n)})

\* PortWire::tx, inject_msg, recv_msg: every await of a node gives way to the
\* stop token, so once Flow::stop cancels it every node task ends, also when the
\* queues are full and the nodes wait for each other in a circle.
StopEnds == cancelled ~> \A n \in Nodes : pc[n] = "stopped"

\* fan_out_many: a send in flight is driven to completion.
SendsComplete == \A n \in Nodes : pc[n] = "fan" ~> pc[n] # "fan"

\* A flow that is not stopped comes to rest: every message injected is taken by
\* every node it is owed to, and no node waits for another one forever.
Settles == []<>(cancelled \/ Quiet)
=============================================================================
