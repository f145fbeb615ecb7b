------------------------------ MODULE MqttClient ------------------------------
(***************************************************************************)
(* The mqtt in and mqtt out nodes (network_nodes/mqtt_in.rs, mqtt_out.rs)  *)
(* and the broker settings they share (mqtt_broker.rs).  mqtt in keeps one *)
(* connection behind a lock; its run loop replaces a connection whose poll *)
(* task has ended and hands the event loop of the new one to a new task.   *)
(* A dynamic node also takes connect, disconnect, subscribe and            *)
(* unsubscribe from its input, on a task of its own.  mqtt out connects on *)
(* demand and leaves the event loop to a task that retries for ever.       *)
(* Connections are numbered by the order they were made; the broker closes *)
(* the older of two connections that use one client id.                    *)
(***************************************************************************)
EXTENDS Integers, Sequences, FiniteSets

CONSTANTS
    MqttTopics,     \* topics a dynamic node can subscribe to
    MqttDatatypes,  \* datatypes a subscribe message can name
    MqttStatic,     \* the topic of a node that is not dynamic
    MqttOutages,    \* bound on outages of the broker
    MqttInputs,     \* bound on the messages sent to the dynamic input
    MqttOutMax,     \* bound on the messages sent to mqtt out
    MqttQueue       \* capacity of the request queue of the client of mqtt out

VARIABLES
    mqDynamic, mqNamed,   \* inputs == 1; a client id is configured
    mqAuto,               \* auto_connect of the broker config
    mqUp, mqOutages,      \* whether the broker answers, and the outages so far
    mqConns,              \* every connection of mqtt in: whether it is up, its subscriptions
    mqCon,                \* MqttConnection: client, event loop and connected
    mqTask,               \* event_loop_task: the connection it polls, whether it has ended
    mqPc,                 \* the step of the run loop
    mqTable,              \* dynamic_subscriptions: datatype by topic
    mqIn, mqInputs,       \* what the input task is doing and with which client, messages had
    mqGot,                \* the last payload delivered and the form it took
    mqOut                 \* mqtt out: client, connected, loops running, queue, messages had,
                          \* accepted on the queue, published; whether it dropped a client; stopped

mqttVars == <<mqDynamic, mqNamed, mqAuto, mqUp, mqOutages, mqConns, mqCon, mqTask, mqPc, mqTable,
              mqIn, mqInputs, mqGot, mqOut>>

MqttPayloads == {"text", "json", "binary"}

MqttInit ==
    /\ mqDynamic \in BOOLEAN /\ mqNamed \in BOOLEAN /\ mqAuto \in BOOLEAN
    /\ mqUp = TRUE /\ mqOutages = 0
    /\ mqConns = <<>>
    /\ mqCon = [client |-> 0, loop |-> 0, connected |-> FALSE]
    /\ mqTask = [conn |-> 0, ended |-> FALSE]
    /\ mqPc = "check"
    /\ mqTable = [t \in {} |-> "auto"]
    /\ mqIn = [does |-> "idle", client |-> 0] /\ mqInputs = 0
    /\ mqGot = [payload |-> "none", as |-> "none"]
    /\ mqOut = [client |-> FALSE, connected |-> FALSE, loops |-> 0, queue |-> 0,
                fed |-> 0, accepted |-> 0, published |-> 0, cut |-> FALSE, stopped |-> FALSE]

\* mqtt_client_id: without a configured id every connection has an id of its own.
Closes(c, d) == c # d /\ mqNamed

\* A dropped event loop closes its connection.
Open(closed, subs) ==
    mqConns' = Append([c \in DOMAIN mqConns |->
                          IF c \in closed \/ Closes(c, Len(mqConns) + 1)
                          THEN [mqConns[c] EXCEPT !.up = FALSE] ELSE mqConns[c]],
                      [up |-> TRUE, subs |-> subs])

\* ensure_connection, under the connection's lock: nothing to do when connected,
\* else a new client whose ConnAck is waited for.  Only the static topic is
\* subscribed to again.
IsConnected == mqCon.connected /\ mqCon.client # 0
EnsureConnection ==
    /\ mqUp
    /\ Open({mqCon.loop}, IF mqDynamic THEN {} ELSE {MqttStatic})
    /\ mqCon' = [client |-> Len(mqConns) + 1, loop |-> Len(mqConns) + 1, connected |-> TRUE]


TaskEnded == [mqCon EXCEPT !.connected = FALSE, !.client = 0]

\* The head of the run loop.
RunCheck ==
    /\ mqPc = "check"
    /\ IF mqTask.conn # 0 /\ mqTask.ended
       THEN /\ mqTask' = [conn |-> 0, ended |-> FALSE]
            /\ mqCon' = TaskEnded
       ELSE UNCHANGED <<mqTask, mqCon>>
    /\ mqPc' = "ensure"
    /\ UNCHANGED <<mqDynamic, mqNamed, mqAuto, mqUp, mqOutages, mqConns, mqTable, mqIn, mqInputs, mqGot, mqOut>>

\* A broker config with manual connects makes none here; a failure sleeps and goes
\* back to the head.
RunEnsure ==
    /\ mqPc = "ensure"
    /\ \/ (~mqAuto \/ IsConnected) /\ mqPc' = "spawn" /\ UNCHANGED <<mqConns, mqCon>>
       \/ mqAuto /\ ~IsConnected /\ EnsureConnection /\ mqPc' = "spawn"
       \/ mqAuto /\ ~IsConnected /\ ~mqUp /\ mqPc' = "check" /\ UNCHANGED <<mqConns, mqCon>>
    /\ UNCHANGED <<mqDynamic, mqNamed, mqAuto, mqUp, mqOutages, mqTask, mqTable, mqIn, mqInputs, mqGot, mqOut>>

RunSpawn ==
    /\ mqPc = "spawn"
    /\ IF mqTask.conn = 0 /\ mqCon.loop # 0
       THEN /\ mqTask' = [conn |-> mqCon.loop, ended |-> FALSE]
            /\ mqCon' = [mqCon EXCEPT !.loop = 0]
       ELSE UNCHANGED <<mqTask, mqCon>>
    /\ mqPc' = "check"
    /\ UNCHANGED <<mqDynamic, mqNamed, mqAuto, mqUp, mqOutages, mqConns, mqTable, mqIn, mqInputs, mqGot, mqOut>>

\* Cancellation: the task is aborted, the client disconnected.
RunStop ==
    /\ mqPc = "check"
    /\ mqPc' = "stopped"
    /\ mqTask' = [conn |-> 0, ended |-> FALSE]
    /\ mqConns' = [c \in DOMAIN mqConns |-> [mqConns[c] EXCEPT !.up = FALSE]]
    /\ mqCon' = [client |-> 0, loop |-> 0, connected |-> FALSE]
    /\ UNCHANGED <<mqDynamic, mqNamed, mqAuto, mqUp, mqOutages, mqTable, mqIn, mqInputs, mqGot, mqOut>>

\* The poll task: an error ends it, a publish goes to handle_publish.
PollError ==
    /\ mqTask.conn # 0 /\ ~mqTask.ended /\ ~mqConns[mqTask.conn].up
    /\ mqTask' = [mqTask EXCEPT !.ended = TRUE]
    /\ UNCHANGED <<mqDynamic, mqNamed, mqAuto, mqUp, mqOutages, mqConns, mqCon, mqPc, mqTable, mqIn, mqInputs, mqGot, mqOut>>

\* An event loop that no client is left for may end too ("connect" drops the client of
\* the loop that is polled), which closes its connection.
PollDone ==
    /\ mqTask.conn # 0 /\ ~mqTask.ended /\ mqConns[mqTask.conn].up
    /\ mqTask.conn \notin {mqCon.client, mqIn.client}
    /\ mqTask' = [mqTask EXCEPT !.ended = TRUE]
    /\ mqConns' = [mqConns EXCEPT ![mqTask.conn].up = FALSE]
    /\ UNCHANGED <<mqDynamic, mqNamed, mqAuto, mqUp, mqOutages, mqCon, mqPc, mqTable, mqIn, mqInputs, mqGot, mqOut>>

\* convert_payload: the form a payload takes under a datatype, with its fallbacks.
ConvertPayload(p, dt) ==
    CASE dt = "base64" -> "base64"
      [] dt = "buffer" \/ p = "binary" -> "bytes"
      [] dt \in {"json", "auto-detect"} /\ p = "json" -> "value"
      [] OTHER -> "string"

\* The datatype of some matching dynamic subscription, else the configured one.
DatatypeFor(t) == IF mqDynamic /\ t \in DOMAIN mqTable THEN mqTable[t] ELSE "auto"

PollPublish(t, p) ==
    /\ mqTask.conn # 0 /\ ~mqTask.ended /\ mqConns[mqTask.conn].up
    /\ t \in mqConns[mqTask.conn].subs
    /\ mqGot' = [payload |-> p, as |-> ConvertPayload(p, DatatypeFor(t))]
    /\ UNCHANGED <<mqDynamic, mqNamed, mqAuto, mqUp, mqOutages, mqConns, mqCon, mqTask, mqPc, mqTable, mqIn, mqInputs, mqOut>>

\* handle_input_message.  A client only queues its requests: they reach the broker
\* when the connection's event loop is polled, and are lost when it never is.
Polled(c) == c = mqTask.conn
Request(c, subs) == mqConns' = IF Polled(c) THEN [mqConns EXCEPT ![c].subs = subs] ELSE mqConns

InputAsks(step) ==
    /\ mqDynamic /\ mqIn.does = "idle" /\ mqPc # "stopped" /\ mqInputs < MqttInputs
    /\ mqInputs' = mqInputs + 1
    /\ mqIn' = [does |-> step, client |-> 0]

\* "connect" drops the connection, and makes a new one after releasing the lock.
InputConnect ==
    /\ InputAsks("connect")
    /\ mqConns' = [c \in DOMAIN mqConns |->
                      IF c = mqCon.loop THEN [mqConns[c] EXCEPT !.up = FALSE] ELSE mqConns[c]]
    /\ mqCon' = [client |-> 0, loop |-> 0, connected |-> FALSE]
    /\ UNCHANGED <<mqDynamic, mqNamed, mqAuto, mqUp, mqOutages, mqTask, mqPc, mqTable, mqGot, mqOut>>

InputDisconnect ==
    /\ InputAsks("idle")
    /\ mqConns' = [c \in DOMAIN mqConns |->
                      IF c \in {mqCon.client, mqCon.loop} THEN [mqConns[c] EXCEPT !.up = FALSE]
                      ELSE mqConns[c]]
    /\ mqCon' = [client |-> 0, loop |-> 0, connected |-> FALSE]
    /\ UNCHANGED <<mqDynamic, mqNamed, mqAuto, mqUp, mqOutages, mqTask, mqPc, mqTable, mqGot, mqOut>>

\* subscribe, unsubscribe and connect begin with ensure_connection ...
InputEnsure ==
    /\ mqIn.does # "idle" /\ mqIn.client = 0
    /\ \/ IsConnected /\ UNCHANGED <<mqConns, mqCon>>
       \/ ~IsConnected /\ EnsureConnection
       \/ ~IsConnected /\ ~mqUp /\ UNCHANGED <<mqConns, mqCon>>
    /\ mqIn' = IF mqCon'.client = 0 \/ mqIn.does = "connect" THEN [does |-> "idle", client |-> 0]
               ELSE [mqIn EXCEPT !.client = mqCon'.client]
    /\ UNCHANGED <<mqDynamic, mqNamed, mqAuto, mqUp, mqOutages, mqTask, mqPc, mqTable, mqInputs, mqGot, mqOut>>

\* ... and go on with the client they got.
InputSubscribe(t, dt) ==
    /\ mqIn.does = "subscribe" /\ mqIn.client # 0
    /\ mqIn' = [does |-> "idle", client |-> 0]
    /\ Request(mqIn.client, mqConns[mqIn.client].subs \union {t})
    /\ mqTable' = [s \in DOMAIN mqTable \union {t} |-> IF s = t THEN dt ELSE mqTable[s]]
    /\ UNCHANGED <<mqDynamic, mqNamed, mqAuto, mqUp, mqOutages, mqCon, mqTask, mqPc, mqInputs, mqGot, mqOut>>

InputUnsubscribe(t) ==
    /\ mqIn.does = "unsubscribe" /\ mqIn.client # 0
    /\ mqIn' = [does |-> "idle", client |-> 0]
    /\ IF t \in DOMAIN mqTable
       THEN /\ Request(mqIn.client, mqConns[mqIn.client].subs \ {t})
            /\ mqTable' = [s \in DOMAIN mqTable \ {t} |-> mqTable[s]]
       ELSE UNCHANGED <<mqConns, mqTable>>
    /\ UNCHANGED <<mqDynamic, mqNamed, mqAuto, mqUp, mqOutages, mqCon, mqTask, mqPc, mqInputs, mqGot, mqOut>>

InputBegins(step) ==
    /\ InputAsks(step)
    /\ UNCHANGED <<mqDynamic, mqNamed, mqAuto, mqUp, mqOutages, mqConns, mqCon, mqTask, mqPc, mqTable, mqGot, mqOut>>

\* mqtt out.  publish_message: ensure_connection, then a request on the queue; it
\* waits for room while the broker is away.  A connect action only ensures, with
\* force it disconnects first; a spawned loop lives until its token is cancelled.
OutEnsured(o) == IF o.connected /\ o.client THEN o
                 ELSE [o EXCEPT !.client = TRUE, !.connected = TRUE, !.loops = @ + 1]
\* client.disconnect() is a request too and waits for room; what is queued is lost.
CanDrop(o) == o.client => o.queue < MqttQueue
OutDropped(o) == [o EXCEPT !.client = FALSE, !.connected = FALSE, !.queue = 0, !.cut = @ \/ o.client,
                           !.loops = IF o.loops > 0 THEN @ - 1 ELSE 0]
\* A bound: mqtt in and mqtt out share nothing but the broker, so a long sequence for
\* mqtt out is explored next to an mqtt in without inputs that connects by itself.
OutBound == IF mqDynamic \/ ~mqAuto THEN 1 ELSE MqttOutMax
OutStep(o) ==
    /\ ~mqOut.stopped /\ mqOut.fed < OutBound
    /\ mqOut' = [o EXCEPT !.fed = @ + 1]
    /\ UNCHANGED <<mqDynamic, mqNamed, mqAuto, mqUp, mqOutages, mqConns, mqCon, mqTask, mqPc, mqTable, mqIn, mqInputs, mqGot>>

OutPublish ==
    \/ /\ mqOut.connected \/ mqUp
       /\ mqOut.queue < MqttQueue
       /\ OutStep([OutEnsured(mqOut) EXCEPT !.queue = @ + 1, !.accepted = @ + 1])
    \/ ~mqOut.connected /\ ~mqUp /\ OutStep(mqOut)
OutConnect(force) ==
    \/ mqOut.connected /\ ~force /\ OutStep(mqOut)
    \/ mqOut.connected /\ force /\ CanDrop(mqOut) /\ OutStep(IF mqUp THEN OutEnsured(OutDropped(mqOut)) ELSE OutDropped(mqOut))
    \/ ~mqOut.connected /\ OutStep(IF mqUp THEN OutEnsured(mqOut) ELSE mqOut)
OutDisconnect == CanDrop(mqOut) /\ OutStep(OutDropped(mqOut))
OutPoll ==
    /\ mqUp /\ mqOut.loops > 0 /\ mqOut.queue > 0
    /\ mqOut' = [mqOut EXCEPT !.queue = @ - 1, !.published = @ + 1]
    /\ UNCHANGED <<mqDynamic, mqNamed, mqAuto, mqUp, mqOutages, mqConns, mqCon, mqTask, mqPc, mqTable, mqIn, mqInputs, mqGot>>
OutStop ==
    /\ ~mqOut.stopped /\ CanDrop(mqOut)
    /\ mqOut' = [OutDropped(mqOut) EXCEPT !.stopped = TRUE]
    /\ UNCHANGED <<mqDynamic, mqNamed, mqAuto, mqUp, mqOutages, mqConns, mqCon, mqTask, mqPc, mqTable, mqIn, mqInputs, mqGot>>

\* The broker, or the network, goes away and comes back.
BrokerDown ==
    /\ mqUp /\ mqOutages < MqttOutages
    /\ mqUp' = FALSE
    /\ mqOutages' = mqOutages + 1
    /\ mqConns' = [c \in DOMAIN mqConns |-> [mqConns[c] EXCEPT !.up = FALSE]]
    /\ UNCHANGED <<mqDynamic, mqNamed, mqAuto, mqCon, mqTask, mqPc, mqTable, mqIn, mqInputs, mqGot, mqOut>>
BrokerBack ==
    /\ ~mqUp
    /\ mqUp' = TRUE
    /\ UNCHANGED <<mqDynamic, mqNamed, mqAuto, mqOutages, mqConns, mqCon, mqTask, mqPc, mqTable, mqIn, mqInputs, mqGot, mqOut>>

RunStep == RunCheck \/ RunEnsure \/ RunSpawn

MqttNext ==
    \/ RunStep \/ RunStop \/ PollError \/ PollDone
    \/ \E t \in MqttTopics \union {MqttStatic}, p \in MqttPayloads : PollPublish(t, p)
    \/ InputConnect \/ InputDisconnect \/ InputEnsure
    \/ \E s \in {"subscribe", "unsubscribe"} : InputBegins(s)
    \/ \E t \in MqttTopics, dt \in MqttDatatypes : InputSubscribe(t, dt)
    \/ \E t \in MqttTopics : InputUnsubscribe(t)
    \/ OutPublish \/ OutDisconnect \/ OutPoll \/ OutStop \/ \E f \in BOOLEAN : OutConnect(f)
    \/ BrokerDown \/ BrokerBack

---------------------------------------------------------------------------
(* Properties.                                                             *)

\* Once the outages are over and the input is quiet, an mqtt in node that was not
\* stopped, under a broker config that connects by itself (auto_connect), polls a live
\* connection for good, with the static topic subscribed: no race of the run loop with
\* the end of the poll task, the input task or the broker leaves the node connected to
\* nothing.  And every message that mqtt out has queued reaches the broker, through
\* outages, unless a disconnect, a forced connect or the stop dropped its client.  With
\* manual connects (auto_connect false) nothing is promised: the run loop makes no
\* connection, and only a dynamic node can be told to.
MqttServes ==
    <>[](mqUp => /\ mqPc # "stopped" /\ mqAuto =>
                       /\ mqTask.conn # 0 /\ ~mqTask.ended
                       /\ mqConns[mqTask.conn].up
                       /\ ~mqDynamic => MqttStatic \in mqConns[mqTask.conn].subs
                 /\ ~mqOut.cut => mqOut.published = mqOut.accepted)
=============================================================================
