------------------------- MODULE MCConnectionNodes -------------------------
(***************************************************************************)
(* Small instances of the nodes that wait for something outside the        *)
(* process: peers, brokers, devices, databases and the clock.  They share  *)
(* no state, so one run checks them side by side: `subject` is the node    *)
(* whose behaviours are explored, the others stay in one of their initial  *)
(* states and have no fairness.                                            *)
(***************************************************************************)
EXTENDS TcpNodes, HttpNodes, Modbus, Bacnet, DbNodes, TriggerNode, MqttClient, WebSocketNodes

VARIABLE subject

MCBacProperties == <<"p", "q">>
MCTrigDelays == {-1, 0, 1, 2}

\* Requests of Modbus nodes: words written and read in several types and units, values
\* that do not fit, and addresses at the end of the table.
Job(write, unit, type, address, value, table, contrib, poll) ==
    [write |-> write, unit |-> unit, type |-> type, address |-> address,
     value |-> value, table |-> table, contrib |-> contrib, poll |-> poll]
MCModJobKinds ==
    {Job(TRUE, 0, "int16", 0, -2, "regs", FALSE, FALSE), Job(FALSE, 0, "int16", 0, 0, "regs", FALSE, TRUE),
     Job(TRUE, 2, "int32", 0, -3, "regs", FALSE, FALSE), Job(FALSE, 2, "int32", 0, 0, "regs", FALSE, FALSE),
     Job(TRUE, 2, "int64", 0, 7, "regs", FALSE, FALSE), Job(TRUE, 2, "uint16", 1, 9, "regs", TRUE, FALSE),
     Job(FALSE, 2, "uint16", 1, 0, "regs", TRUE, FALSE), Job(TRUE, 0, "uint16", 3, 9, "coils", TRUE, FALSE),
     Job(FALSE, 0, "uint32", 3, 0, "regs", FALSE, FALSE), Job(TRUE, 0, "uint64", 0, 200, "regs", FALSE, FALSE),
     Job(FALSE, 0, "uint64", 0, 0, "regs", FALSE, FALSE)}

---------------------------------------------------------------------------
allVars == <<subject, tcpVars, httpVars, modVars, bacVars, dbVars, triggerVars, mqttVars, wsVars>>

Subjects == {"tcp", "http", "modbus", "bacnet", "db", "trigger", "mqtt", "websocket"}

MCInit ==
    /\ subject \in Subjects
    /\ TcpInit /\ (subject = "tcp" \/ (tcpPart = "in" /\ inConn.single))
    /\ HttpInit
    /\ ModInit /\ (subject = "modbus" \/ (modDevice = "server" /\ modAuto))
    /\ BacInit /\ (subject = "bacnet" \/ bacPart = "write")
    /\ DbInit /\ (subject = "db" \/ dbKind = "influx")
    /\ TriggerInit /\ (subject = "trigger" \/ trgExtend)
    /\ MqttInit /\ (subject = "mqtt" \/ (mqDynamic /\ mqNamed /\ mqAuto))
    /\ WsInit /\ (subject = "websocket" \/ wsPart = "out")

TcpTurn == subject = "tcp" /\ TcpNext
    /\ UNCHANGED <<subject, httpVars, modVars, bacVars, dbVars, triggerVars, mqttVars, wsVars>>
HttpTurn == subject = "http" /\ HttpNext
    /\ UNCHANGED <<subject, tcpVars, modVars, bacVars, dbVars, triggerVars, mqttVars, wsVars>>
ModbusTurn == subject = "modbus" /\ ModNext
    /\ UNCHANGED <<subject, tcpVars, httpVars, bacVars, dbVars, triggerVars, mqttVars, wsVars>>
BacnetTurn == subject = "bacnet" /\ BacNext
    /\ UNCHANGED <<subject, tcpVars, httpVars, modVars, dbVars, triggerVars, mqttVars, wsVars>>
DbTurn == subject = "db" /\ DbNext
    /\ UNCHANGED <<subject, tcpVars, httpVars, modVars, bacVars, triggerVars, mqttVars, wsVars>>
TriggerTurn == subject = "trigger" /\ TriggerNext
    /\ UNCHANGED <<subject, tcpVars, httpVars, modVars, bacVars, dbVars, mqttVars, wsVars>>
MqttTurn == subject = "mqtt" /\ MqttNext
    /\ UNCHANGED <<subject, tcpVars, httpVars, modVars, bacVars, dbVars, triggerVars, wsVars>>
WebSocketTurn == subject = "websocket" /\ WsNext
    /\ UNCHANGED <<subject, tcpVars, httpVars, modVars, bacVars, dbVars, triggerVars, mqttVars>>

MCNext ==
    \/ TcpTurn \/ HttpTurn \/ ModbusTurn \/ BacnetTurn \/ DbTurn
    \/ TriggerTurn \/ MqttTurn \/ WebSocketTurn

\* The tasks of the runtime and the clock; peers, messages and faults are not fair.
MCFairness ==
    /\ WF_triggerVars(subject = "trigger" /\ TimerStep)
    /\ WF_triggerVars(subject = "trigger" /\ Tick)
    /\ WF_mqttVars(subject = "mqtt" /\ RunStep)
    /\ WF_mqttVars(subject = "mqtt" /\ PollError)
    /\ WF_mqttVars(subject = "mqtt" /\ OutPoll)
    /\ WF_wsVars(subject = "websocket" /\ LoopStep)
    /\ WF_wsVars(subject = "websocket" /\ WsOutStep)
    /\ WF_wsVars(subject = "websocket" /\ ListenStep)

MCSpec == MCInit /\ [][MCNext]_allVars /\ MCFairness

=============================================================================
