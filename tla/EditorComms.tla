----------------------------- MODULE EditorComms -----------------------------
(***************************************************************************)
(* What the editor sees of a running engine: the websocket connections of  *)
(* web/handlers/comms.rs with the listeners that feed them                 *)
(* (web_state.rs), and the debug node (common_nodes/debug.rs) with the     *)
(* peeking receiver it shares with its status task (model/mod.rs).  A      *)
(* behaviour is about one of the two, edPart.                              *)
(*                                                                         *)
(* A connection's channel is a ring of ComRing messages: log is everything *)
(* ever sent into it, taken how much of it the writing task has taken.     *)
(***************************************************************************)
EXTENDS Integers, Sequences, SequencesExt, FiniteSets

CONSTANTS
    EdParts,    \* the parts to explore: a subset of {"comms", "debug"}
    ComConns,   \* connections
    ComTopics,  \* the topics a browser subscribes to
    ComRing,    \* capacity of a channel
    ComMax,     \* bound on messages published
    DbgMax      \* bound on messages sent to the debug node

Live == "context/live/global/x"
Wild == [topic \in {"debug", "dashboard/data", "notification/runtime", "notification/runtime-deploy"} |->
            CASE topic = "debug" -> "debug/#"
              [] topic = "dashboard/data" -> "dashboard/#"
              [] OTHER -> "notification/#"]
Sources == {"debug", "status", "dashboard", "events"}

VARIABLES
    edPart,
    comTable,   \* connections that are in the table
    comConn,    \* what belongs to a connection
    comPolling, \* the context pollers that run, with the snapshot each last took
    comStore,   \* the value of the polled key, 0 when it is not set
    comRev,     \* the revision of the running flows
    comSource,  \* the engine's channels and their listeners
    comCancel,  \* the server's cancel token
    comSent,    \* messages published so far
    dbgQueue,   \* the debug node's channel
    dbgPeeked,  \* MsgReceiverHolder.peeked, 0 when empty
    dbgRx,      \* who holds the lock of the channel
    dbgNode,    \* the node's loop
    dbgTask,    \* the delayed status task
    dbgSent,    \* messages sent to the node
    dbgShown    \* messages the node has given to the sidebar

comVars == <<comTable, comConn, comPolling, comStore, comRev, comSource, comCancel, comSent>>
dbgVars == <<dbgQueue, dbgPeeked, dbgRx, dbgNode, dbgTask, dbgSent, dbgShown>>
edVars == <<edPart, comVars, dbgVars>>

NewConn == [used |-> FALSE, subs |-> {}, log |-> <<>>, taken |-> 0, seen |-> <<>>,
            writer |-> "none", reader |-> "none", owed |-> <<>>]

EdInit ==
    /\ edPart \in EdParts
    /\ comTable = {} /\ comConn = [c \in ComConns |-> NewConn]
    /\ comPolling = {} /\ comStore = 0 /\ comRev = 0
    /\ comSource = [k \in Sources |-> [queue |-> 0, lagged |-> FALSE, at |-> "run"]]
    /\ comCancel = FALSE /\ comSent = 0
    /\ dbgQueue = <<>> /\ dbgPeeked = 0 /\ dbgRx = "none"
    /\ dbgNode = [at |-> "check", msg |-> 0, active |-> TRUE, count |-> 0, status |-> 0]
    /\ dbgTask = "none" /\ dbgSent = 0 /\ dbgShown = <<>>

CommsPart == edPart = "comms" /\ UNCHANGED <<edPart, dbgVars>>
DebugPart == edPart = "debug" /\ UNCHANGED <<edPart, comVars>>

---------------------------------------------------------------------------
(* Sending.                                                                *)

Put(conn, message) == [conn EXCEPT !.log = Append(@, message)]

\* send_to_topic and send_batch_to_topic: the topic itself or its first level's wildcard.
Wants(conn, topic) == topic \in conn.subs \/ Wild[topic] \in conn.subs

\* Everybody in the table whose subscriptions want it, under the read lock.
SendToTopic(topic, data) ==
    comConn' = [c \in ComConns |->
        IF c \in comTable /\ Wants(comConn[c], topic) THEN Put(comConn[c], [topic |-> topic, data |-> data])
        ELSE comConn[c]]

\* send_raw_json, used for the status of nodes: one fixed subscription.
SendRawJson(subTopic, repTopic, data) ==
    comConn' = [c \in ComConns |->
        IF c \in comTable /\ subTopic \in comConn[c].subs
        THEN Put(comConn[c], [topic |-> repTopic, data |-> data]) ELSE comConn[c]]

---------------------------------------------------------------------------
(* The engine's channels and the listeners of start_event_listeners.       *)

\* The engine publishes; a listener that is too slow loses the oldest.
Emit(k) ==
    /\ CommsPart /\ comSent < ComMax /\ comSource[k].at # "ended"
    /\ comSent' = comSent + 1
    /\ comSource' = [comSource EXCEPT ![k] =
            IF @.queue < ComRing THEN [@ EXCEPT !.queue = comSource[k].queue + 1] ELSE [@ EXCEPT !.lagged = TRUE]]
    /\ UNCHANGED <<comTable, comConn, comPolling, comStore, comRev, comCancel>>

Publish(k, data) ==
    CASE k = "debug" -> SendToTopic("debug", data)
      [] k = "status" -> SendRawJson("status/#", "status/n", data)
      [] k = "dashboard" -> SendToTopic("dashboard/data", data)
      [] k = "events" -> SendToTopic("notification/runtime", data)

\* A lagging debug, status or dashboard listener goes on; the event listener ends.
Lag(k) ==
    /\ CommsPart /\ comSource[k].at = "run" /\ comSource[k].lagged
    /\ comSource' = [comSource EXCEPT ![k].lagged = FALSE,
                                      ![k].at = IF k = "events" THEN "ended" ELSE @]
    /\ UNCHANGED <<comTable, comConn, comPolling, comStore, comRev, comCancel, comSent>>

Listen(k) ==
    /\ CommsPart /\ comSource[k].at = "run" /\ ~comSource[k].lagged /\ comSource[k].queue > 0
    /\ Publish(k, comSource[k].queue)
    /\ comSource' = [comSource EXCEPT ![k].queue = @ - 1]
    /\ UNCHANGED <<comTable, comPolling, comStore, comRev, comCancel, comSent>>

\* The token is cancelled: one last message if one comes in time; the dashboard
\* listener just ends, and of the events only the stop of the engine is passed on.
ListenLast(k, last) ==
    /\ CommsPart /\ comCancel /\ comSource[k].at = "run"
    /\ comSource' = [comSource EXCEPT ![k].at = "ended"]
    /\ \/ ~last /\ UNCHANGED comConn
       \/ last /\ k # "dashboard" /\ comSource[k].queue > 0 /\ ~comSource[k].lagged
          /\ Publish(k, comSource[k].queue)
    /\ UNCHANGED <<comTable, comPolling, comStore, comRev, comCancel, comSent>>

Cancel ==
    /\ CommsPart /\ ~comCancel /\ comCancel' = TRUE
    /\ UNCHANGED <<comTable, comConn, comPolling, comStore, comRev, comSource, comSent>>

\* A deploy: the new revision is announced (send_deploy_notification).
Deploy ==
    /\ CommsPart /\ comSent < ComMax /\ comSent' = comSent + 1
    /\ comRev' = comRev + 1
    /\ SendToTopic("notification/runtime-deploy", comRev + 1)
    /\ UNCHANGED <<comTable, comPolling, comStore, comSource, comCancel>>

\* start_heartbeat_task: sent into a channel of its own, which no connection receives from.
Heartbeat ==
    /\ CommsPart /\ comSent < ComMax /\ ~comCancel /\ comSent' = comSent + 1
    /\ UNCHANGED <<comTable, comConn, comPolling, comStore, comRev, comSource, comCancel>>

---------------------------------------------------------------------------
(* A connection: handle_websocket.                                         *)

\* add_connection; the two tasks are spawned before the greeting is sent.
Accept(c) ==
    /\ CommsPart /\ ~comConn[c].used
    /\ comTable' = comTable \union {c}
    /\ comConn' = [comConn EXCEPT ![c].used = TRUE, ![c].writer = "run", ![c].reader = "run",
                                  ![c].owed = <<"welcome">>]
    /\ UNCHANGED <<comPolling, comStore, comRev, comSource, comCancel, comSent>>

Lagging(conn) == Len(conn.log) - conn.taken > ComRing

\* A mutant: a writer that fell behind goes on with the oldest message left.
WriteSkipping(conn) ==
    LET next == IF Lagging(conn) THEN Len(conn.log) - ComRing + 1 ELSE conn.taken + 1
    IN  [conn EXCEPT !.taken = next, !.seen = Append(@, conn.log[next])]

\* broadcast_task: an error of the channel, falling behind included, ends the connection.
Write(conn) ==
    IF Lagging(conn) THEN [conn EXCEPT !.writer = "ended"]
    ELSE [conn EXCEPT !.taken = @ + 1, !.seen = Append(@, conn.log[conn.taken + 1])]

Writer(c) ==
    /\ CommsPart /\ comConn[c].writer = "run" /\ comConn[c].taken < Len(comConn[c].log)
    /\ comConn' = [comConn EXCEPT ![c] = Write(@)]
    /\ UNCHANGED <<comTable, comPolling, comStore, comRev, comSource, comCancel, comSent>>

\* The socket fails while a message is written, or the token is cancelled.
WriterEnds(c) ==
    /\ CommsPart /\ comConn[c].writer = "run"
    /\ comCancel \/ comConn[c].taken < Len(comConn[c].log)
    /\ comConn' = [comConn EXCEPT ![c].writer = "ended"]
    /\ UNCHANGED <<comTable, comPolling, comStore, comRev, comSource, comCancel, comSent>>

\* message_task: the browser closes, the socket fails, or the token is cancelled.
ReaderEnds(c) ==
    /\ CommsPart /\ comConn[c].reader = "run" /\ comConn[c].owed \in {<<>>, <<"welcome">>}
    /\ comConn' = [comConn EXCEPT ![c].reader = "ended"]
    /\ UNCHANGED <<comTable, comPolling, comStore, comRev, comSource, comCancel, comSent>>

\* remove_connection, once either task has ended; the other one is left to itself.
PollersOf(c) == {p \in comPolling : p.conn = c}

RemoveConn(c) ==
    /\ CommsPart /\ c \in comTable /\ "ended" \in {comConn[c].writer, comConn[c].reader}
    /\ comTable' = comTable \ {c}
    /\ comPolling' = comPolling \ PollersOf(c)
    /\ UNCHANGED <<comConn, comStore, comRev, comSource, comCancel, comSent>>

---------------------------------------------------------------------------
(* The browser's requests: handle_websocket_message.                       *)

Asks(c) == CommsPart /\ comConn[c].reader = "run" /\ comConn[c].owed = <<>> /\ comSent < ComMax
           /\ comSent' = comSent + 1

Subscribe(c, topic) ==
    /\ Asks(c)
    /\ comConn' = [comConn EXCEPT
            ![c].subs = IF c \in comTable THEN @ \union {topic} ELSE @,
            ![c].owed = IF topic \in {"status/#", "notification/#", "notification/runtime-deploy", Live}
                        THEN <<topic>> ELSE <<>>]
    /\ UNCHANGED <<comTable, comPolling, comStore, comRev, comSource, comCancel>>

\* The revision is read before it is sent, and a deploy may come between the two.
ReadRevision(c) ==
    /\ CommsPart /\ comConn[c].owed \in {<<"notification/#">>, <<"notification/runtime-deploy">>}
    /\ comConn' = [comConn EXCEPT ![c].owed = Append(@, comRev)]
    /\ UNCHANGED <<comTable, comPolling, comStore, comRev, comSource, comCancel, comSent>>

\* start_context_poller: an earlier poller of the topic is aborted.  Here and wherever a
\* poller is aborted that is taken to be at once: the code spawns the new one first, and
\* an aborted one that another thread is polling may still send what it is at.
StartPoller(c) ==
    comPolling' = IF c \notin comTable THEN comPolling
                  ELSE (comPolling \ PollersOf(c))
                       \union {[conn |-> c, snap |-> 0, since |-> Len(comConn[c].log)]}

Reply(c, message) == [comConn EXCEPT ![c] = [Put(@, message) EXCEPT !.owed = <<>>]]

Answers(c) ==
    /\ CommsPart /\ comConn[c].owed # <<>>
    /\ LET owed == comConn[c].owed
       IN  \/ /\ owed[1] \in {"welcome", "status/#"}
              /\ comConn' = Reply(c, [topic |-> owed[1], data |-> 0])
              /\ UNCHANGED comPolling
           \/ /\ owed[1] = "notification/#" /\ Len(owed) = 2
              /\ comConn' = Reply(c, [topic |-> "notification/runtime-deploy", data |-> owed[2]])
              /\ UNCHANGED comPolling
           \/ /\ owed[1] = "notification/runtime-deploy" /\ Len(owed) = 2
              /\ comConn' = [d \in ComConns |->
                    LET conn == IF d = c THEN [comConn[d] EXCEPT !.owed = <<>>] ELSE comConn[d]
                    IN  IF d \in comTable /\ Wants(conn, owed[1])
                        THEN Put(conn, [topic |-> owed[1], data |-> owed[2]]) ELSE conn]
              /\ UNCHANGED comPolling
           \/ /\ owed[1] = Live
              /\ StartPoller(c)
              /\ comConn' = [comConn EXCEPT ![c].owed = <<>>]
    /\ UNCHANGED <<comTable, comStore, comRev, comSource, comCancel, comSent>>

Unsubscribe(c, topic) ==
    /\ Asks(c) /\ topic \in comConn[c].subs
    /\ comConn' = [comConn EXCEPT ![c].subs = IF c \in comTable THEN @ \ {topic} ELSE @]
    /\ comPolling' = IF topic = Live /\ c \in comTable THEN comPolling \ PollersOf(c) ELSE comPolling
    /\ UNCHANGED <<comTable, comStore, comRev, comSource, comCancel>>

Authenticate(c) ==
    /\ Asks(c)
    /\ comConn' = [comConn EXCEPT ![c] = Put(@, [topic |-> "auth", data |-> 0])]
    /\ UNCHANGED <<comTable, comPolling, comStore, comRev, comSource, comCancel>>

\* A flow changes the context; a poller sends what changed since its last look.
SetContext(v) ==
    /\ CommsPart /\ comSent < ComMax /\ comSent' = comSent + 1
    /\ v # comStore /\ comStore' = v
    /\ UNCHANGED <<comTable, comConn, comPolling, comRev, comSource, comCancel>>

Poll(p) ==
    /\ CommsPart /\ p.snap # comStore
    /\ comPolling' = (comPolling \ {p}) \union {[p EXCEPT !.snap = comStore]}
    /\ comConn' = [comConn EXCEPT ![p.conn] = Put(@, [topic |-> Live, data |-> comStore])]
    /\ UNCHANGED <<comTable, comStore, comRev, comSource, comCancel, comSent>>

CommsNext ==
    \/ \E k \in Sources : Emit(k) \/ Lag(k) \/ Listen(k) \/ \E last \in BOOLEAN : ListenLast(k, last)
    \/ Cancel \/ Deploy \/ Heartbeat
    \/ \E c \in ComConns : Accept(c) \/ Writer(c) \/ WriterEnds(c) \/ ReaderEnds(c) \/ RemoveConn(c)
    \/ \E c \in ComConns : ReadRevision(c) \/ Answers(c) \/ Authenticate(c)
    \/ \E c \in ComConns, topic \in ComTopics : Subscribe(c, topic) \/ Unsubscribe(c, topic)
    \/ \E v \in 0 .. 2 : SetContext(v)
    \/ \E p \in comPolling : Poll(p)

---------------------------------------------------------------------------
(* The debug node, with its status set to count messages.                  *)

DbgSend ==
    /\ DebugPart /\ dbgSent < DbgMax
    /\ dbgSent' = dbgSent + 1 /\ dbgQueue' = Append(dbgQueue, dbgSent + 1)
    /\ UNCHANGED <<dbgPeeked, dbgRx, dbgNode, dbgTask, dbgShown>>

\* run and recv_msg: a message kept by a peek comes first; a node that is switched
\* off waits for its end, whatever the switch does later.
DbgCheck ==
    /\ DebugPart /\ dbgNode.at = "check"
    /\ \/ /\ ~dbgNode.active
          /\ dbgNode' = [dbgNode EXCEPT !.at = "off"] /\ UNCHANGED dbgPeeked
       \/ /\ dbgNode.active /\ dbgPeeked # 0
          /\ dbgNode' = [dbgNode EXCEPT !.at = "got", !.msg = dbgPeeked] /\ dbgPeeked' = 0
       \/ /\ dbgNode.active /\ dbgPeeked = 0
          /\ dbgNode' = [dbgNode EXCEPT !.at = "lock"] /\ UNCHANGED dbgPeeked
    /\ UNCHANGED <<dbgQueue, dbgRx, dbgTask, dbgSent, dbgShown>>

DbgLock ==
    /\ DebugPart /\ dbgNode.at = "lock" /\ dbgRx = "none"
    /\ dbgRx' = "node" /\ dbgNode' = [dbgNode EXCEPT !.at = "recv"]
    /\ UNCHANGED <<dbgQueue, dbgPeeked, dbgTask, dbgSent, dbgShown>>

DbgRecv ==
    /\ DebugPart /\ dbgNode.at = "recv" /\ dbgQueue # <<>>
    /\ dbgNode' = [dbgNode EXCEPT !.at = "got", !.msg = Head(dbgQueue)]
    /\ dbgQueue' = Tail(dbgQueue) /\ dbgRx' = "none"
    /\ UNCHANGED <<dbgPeeked, dbgTask, dbgSent, dbgShown>>

\* The count is reported at once, or by a task later when messages come quickly.
DbgCount(quick) ==
    /\ DebugPart /\ dbgNode.at = "got"
    /\ dbgNode' = [dbgNode EXCEPT !.at = "show", !.count = @ + 1,
                                  !.status = IF quick THEN @ ELSE dbgNode.count + 1]
    /\ dbgTask' = IF quick /\ dbgTask = "none" THEN "sleep" ELSE dbgTask
    /\ UNCHANGED <<dbgQueue, dbgPeeked, dbgRx, dbgSent, dbgShown>>

DbgShow ==
    /\ DebugPart /\ dbgNode.at = "show"
    /\ dbgShown' = Append(dbgShown, dbgNode.msg)
    /\ dbgNode' = [dbgNode EXCEPT !.at = "check", !.msg = 0]
    /\ UNCHANGED <<dbgQueue, dbgPeeked, dbgRx, dbgTask, dbgSent>>

\* The delayed task: it peeks before it reports, and a peek of an empty channel waits
\* for a message with the channel locked.
DbgTaskStep ==
    /\ DebugPart
    /\ \/ /\ dbgTask = "sleep"
          /\ dbgTask' = IF dbgPeeked # 0 THEN "report" ELSE "lock"
          /\ UNCHANGED <<dbgRx, dbgQueue, dbgPeeked, dbgNode>>
       \/ /\ dbgTask = "lock" /\ dbgRx = "none"
          /\ dbgTask' = "recv" /\ dbgRx' = "task"
          /\ UNCHANGED <<dbgQueue, dbgPeeked, dbgNode>>
       \/ /\ dbgTask = "recv" /\ dbgQueue # <<>>
          /\ dbgPeeked' = Head(dbgQueue) /\ dbgQueue' = Tail(dbgQueue)
          /\ dbgTask' = "report" /\ dbgRx' = "none"
          /\ UNCHANGED dbgNode
       \/ /\ dbgTask = "report"
          /\ dbgNode' = [dbgNode EXCEPT !.status = dbgNode.count] /\ dbgTask' = "none"
          /\ UNCHANGED <<dbgRx, dbgQueue, dbgPeeked>>
    /\ UNCHANGED <<dbgSent, dbgShown>>

\* debug_action_handler.
DbgSwitch(on) ==
    /\ DebugPart /\ dbgNode.active # on
    /\ dbgNode' = [dbgNode EXCEPT !.active = on]
    /\ UNCHANGED <<dbgQueue, dbgPeeked, dbgRx, dbgTask, dbgSent, dbgShown>>

DbgStop ==
    /\ DebugPart /\ dbgNode.at \in {"check", "lock", "recv", "off"}
    /\ dbgNode' = [dbgNode EXCEPT !.at = "stopped"]
    /\ dbgRx' = IF dbgRx = "node" THEN "none" ELSE dbgRx
    /\ UNCHANGED <<dbgQueue, dbgPeeked, dbgTask, dbgSent, dbgShown>>

DbgStep == DbgCheck \/ DbgLock \/ DbgRecv \/ (\E quick \in BOOLEAN : DbgCount(quick)) \/ DbgShow

DebugNext == DbgSend \/ DbgStep \/ DbgTaskStep \/ DbgStop \/ \E on \in BOOLEAN : DbgSwitch(on)

EdNext == CommsNext \/ DebugNext

EdSpec == EdInit /\ [][EdNext]_edVars

---------------------------------------------------------------------------

\* What the pollers of a connection have told its browser since they were started.
Reported(conn, since) ==
    LET told == {i \in since + 1 .. Len(conn.log) : conn.log[i].topic = Live}
    IN  IF told = {} THEN 0 ELSE conn.log[CHOOSE i \in told : \A j \in told : j <= i].data

Places(m) == Cardinality({i \in DOMAIN dbgShown : dbgShown[i] = m})
             + Cardinality({i \in DOMAIN dbgQueue : dbgQueue[i] = m})
             + (IF dbgPeeked = m THEN 1 ELSE 0) + (IF dbgNode.msg = m THEN 1 ELSE 0)

\* What the editor sees can be trusted: a browser receives everything sent to it from the
\* start without a gap (comms.rs:620, falling behind closes the connection), a context
\* poller never outlives its connection or its subscription and has told the browser
\* exactly what it last saw (comms.rs:150, 179, 195), and a message of the debug node is
\* never lost or shown twice by a peek of its status task (model/mod.rs:92, 131).
EditorSees ==
    /\ \A c \in ComConns : IsPrefix(comConn[c].seen, comConn[c].log)
    /\ \A p \in comPolling : /\ p.conn \in comTable /\ Live \in comConn[p.conn].subs
                             /\ PollersOf(p.conn) = {p}
                             /\ p.snap = Reported(comConn[p.conn], p.since)
    /\ \A m \in 1 .. dbgSent : Places(m) = 1
==============================================================================
