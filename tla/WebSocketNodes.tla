---------------------------- MODULE WebSocketNodes ----------------------------
(***************************************************************************)
(* The websocket nodes (network_nodes/websocket_listener.rs, _client.rs,   *)
(* _in.rs, _out.rs).  A behaviour is about one of them, wsPart.  The       *)
(* listener keeps every connection behind a lock of its own in a table     *)
(* behind another; the task of a connection holds the first for as long as *)
(* the connection lives.  The client and the in node run a connect and     *)
(* process loop, the out node connects when it has something to send.      *)
(***************************************************************************)
EXTENDS Integers, Sequences, FiniteSets

CONSTANTS
    WsParts,    \* the nodes to explore: a subset of {"listener", "loop", "out"}
    WsConns,    \* bound on connections
    WsSends,    \* bound on messages to send
    WsFaults    \* bound on failures of the peer

VARIABLES
    wsPart,
    wsTasks,    \* listener: the step of every connection's task
    wsTable,    \* connections
    wsOwner,    \* who holds the lock of a connection: its task, the sender or nobody
    wsReader,   \* whether the sender holds the read lock of the table
    wsSender,   \* the send under way: connections left to write to, the one whose lock it
                \* waits for; the sends so far
    wsLoop,     \* client and in: the step of the loop, the stored stream, the connected flag
    wsLink,     \* out: whether it has a stream and whether the peer is there
    wsTry,      \* out: the attempt under way, 0 when none, and what came of each send
    wsFaults    \* failures so far

wsVars == <<wsPart, wsTasks, wsTable, wsOwner, wsReader, wsSender, wsLoop, wsLink, wsTry, wsFaults>>

WsInit ==
    /\ wsPart \in WsParts
    /\ wsTasks = <<>> /\ wsTable = {} /\ wsOwner = <<>>
    /\ wsReader = FALSE
    /\ wsSender = [on |-> FALSE, left |-> {}, now |-> 0, sent |-> 0]
    /\ wsLoop = [at |-> "connect", stream |-> FALSE, connected |-> FALSE]
    /\ wsLink = [stream |-> FALSE, peer |-> FALSE]
    /\ wsTry = [attempt |-> 0, sent |-> 0, written |-> 0, failed |-> 0]
    /\ wsFaults = 0

---------------------------------------------------------------------------
(* The listener.                                                           *)

ListenerPart == wsPart = "listener" /\ UNCHANGED <<wsPart, wsLoop, wsLink, wsTry, wsFaults>>

\* handle_connection, after the handshake: the connection is put in the table, under
\* the write lock, and its own lock is taken for good.
ListenAccept ==
    /\ ListenerPart /\ Len(wsTasks) < WsConns
    /\ wsTasks' = Append(wsTasks, "insert")
    /\ wsOwner' = Append(wsOwner, "none")
    /\ UNCHANGED <<wsTable, wsReader, wsSender>>

ListenInsert(c) ==
    /\ ListenerPart /\ wsTasks[c] = "insert" /\ ~wsReader
    /\ wsTable' = wsTable \union {c}
    /\ wsTasks' = [wsTasks EXCEPT ![c] = "lock"]
    /\ UNCHANGED <<wsOwner, wsReader, wsSender>>

ListenLock(c) ==
    /\ ListenerPart /\ wsTasks[c] = "lock" /\ wsOwner[c] = "none"
    /\ wsOwner' = [wsOwner EXCEPT ![c] = "task"]
    /\ wsTasks' = [wsTasks EXCEPT ![c] = "read"]
    /\ UNCHANGED <<wsTable, wsReader, wsSender>>

\* The peer closes or fails; the lock is held until the entry is removed.
ListenCloses(c) ==
    /\ ListenerPart /\ wsTasks[c] = "read"
    /\ wsTasks' = [wsTasks EXCEPT ![c] = "remove"]
    /\ UNCHANGED <<wsTable, wsOwner, wsReader, wsSender>>

ListenRemove(c) ==
    /\ ListenerPart /\ wsTasks[c] = "remove" /\ ~wsReader
    /\ wsTable' = wsTable \ {c}
    /\ wsOwner' = [wsOwner EXCEPT ![c] = "none"]
    /\ wsTasks' = [wsTasks EXCEPT ![c] = "ended"]
    /\ UNCHANGED <<wsReader, wsSender>>

\* handle_input_message: to one connection or to all, under the read lock.
ListenSend(target) ==
    /\ ListenerPart /\ ~wsSender.on /\ wsSender.sent < WsSends
    /\ wsReader' = TRUE
    /\ wsSender' = [wsSender EXCEPT !.on = TRUE, !.left = target \intersect wsTable, !.sent = @ + 1]
    /\ UNCHANGED <<wsTasks, wsTable, wsOwner>>

\* It goes from one connection to the next and waits for the lock of each.
ListenPick(c) ==
    /\ ListenerPart /\ c \in wsSender.left /\ wsSender.now = 0
    /\ wsSender' = [wsSender EXCEPT !.now = c]
    /\ UNCHANGED <<wsTasks, wsTable, wsOwner, wsReader>>

ListenWrite ==
    /\ ListenerPart /\ wsSender.now # 0 /\ wsOwner[wsSender.now] = "none"
    /\ wsSender' = [wsSender EXCEPT !.left = @ \ {wsSender.now}, !.now = 0]
    /\ UNCHANGED <<wsTasks, wsTable, wsOwner, wsReader>>

ListenSent ==
    /\ ListenerPart /\ wsSender.on /\ wsSender.left = {}
    /\ wsSender' = [wsSender EXCEPT !.on = FALSE]
    /\ wsReader' = FALSE
    /\ UNCHANGED <<wsTasks, wsTable, wsOwner>>

---------------------------------------------------------------------------
(* websocket client and websocket in: handle_connection_loop and           *)
(* handle_websocket_messages, with reconnect set.                          *)

LoopPart == wsPart = "loop" /\ UNCHANGED <<wsPart, wsTasks, wsTable, wsOwner, wsReader, wsSender, wsLink, wsTry>>

\* The new stream is stored where a disconnect message finds it, then the flag is set.
LoopConnects ==
    /\ LoopPart /\ wsLoop.at = "connect"
    /\ wsLoop' = [wsLoop EXCEPT !.at = "stored", !.stream = TRUE]
    /\ UNCHANGED wsFaults

LoopFlags ==
    /\ LoopPart /\ wsLoop.at = "stored"
    /\ wsLoop' = [wsLoop EXCEPT !.at = "take", !.connected = TRUE]
    /\ UNCHANGED wsFaults

\* process_websocket_connection takes the stream.  Without one it returns Ok(()), as if
\* the peer had closed, and the loop is over.
LoopTakes ==
    /\ LoopPart /\ wsLoop.at = "take"
    /\ wsLoop' = IF wsLoop.stream THEN [wsLoop EXCEPT !.at = "open", !.stream = FALSE]
                 ELSE [wsLoop EXCEPT !.at = "cut", !.connected = FALSE]
    /\ UNCHANGED wsFaults

LoopConnectFails ==
    /\ LoopPart /\ wsLoop.at = "connect" /\ wsFaults < WsFaults
    /\ wsFaults' = wsFaults + 1
    /\ wsLoop' = [wsLoop EXCEPT !.at = "wait"]

\* Mutant: a connection error ends the loop as a close does.
AfterErrorEnds == "ended"

AfterError == "wait"

LoopError ==
    /\ LoopPart /\ wsLoop.at = "open" /\ wsFaults < WsFaults
    /\ wsFaults' = wsFaults + 1
    /\ wsLoop' = [wsLoop EXCEPT !.at = AfterError, !.connected = FALSE]

\* A close frame, the end of the stream or a failed pong: the loop is over.
LoopCloses ==
    /\ LoopPart /\ wsLoop.at = "open"
    /\ wsLoop' = [wsLoop EXCEPT !.at = "closed", !.connected = FALSE]
    /\ UNCHANGED wsFaults

LoopAgain ==
    /\ LoopPart /\ wsLoop.at = "wait"
    /\ wsLoop' = [wsLoop EXCEPT !.at = "connect"]
    /\ UNCHANGED wsFaults

\* A disconnect message closes the stream it finds stored: only one that comes before
\* the take finds one, later only the flag changes.
LoopDisconnect ==
    /\ LoopPart /\ (wsLoop.stream \/ wsLoop.connected)
    /\ wsLoop' = [wsLoop EXCEPT !.stream = FALSE, !.connected = FALSE]
    /\ UNCHANGED wsFaults

\* The end of run aborts the task.
LoopStops ==
    /\ LoopPart /\ wsLoop.at # "stopped"
    /\ wsLoop' = [at |-> "stopped", stream |-> FALSE, connected |-> FALSE]
    /\ UNCHANGED wsFaults

---------------------------------------------------------------------------
(* websocket out: send_message tries the stream it has, then connects and  *)
(* sends up to three times.                                                *)

WsOutPart == wsPart = "out" /\ UNCHANGED <<wsPart, wsTasks, wsTable, wsOwner, wsReader, wsSender, wsLoop>>

WsWritten == wsTry' = [wsTry EXCEPT !.attempt = 0, !.written = @ + 1]
WsRetry == wsTry' = IF wsTry.attempt = 3 THEN [wsTry EXCEPT !.attempt = 0, !.failed = @ + 1]
                  ELSE [wsTry EXCEPT !.attempt = @ + 1]

\* The stream it has may take the message although the peer has gone.
WsOutMessage ==
    /\ WsOutPart /\ wsTry.attempt = 0 /\ wsTry.sent < WsSends
    /\ \/ /\ wsLink.stream
          /\ wsTry' = [wsTry EXCEPT !.sent = @ + 1, !.written = @ + 1]
          /\ UNCHANGED wsLink
       \/ /\ ~(wsLink.stream /\ wsLink.peer)
          /\ wsTry' = [wsTry EXCEPT !.sent = @ + 1, !.attempt = 1]
          /\ wsLink' = [wsLink EXCEPT !.stream = FALSE]
    /\ UNCHANGED wsFaults

\* An attempt connects and sends; each may fail, a failed send drops the stream.
WsOutAttempt ==
    /\ WsOutPart /\ wsTry.attempt \in 1..3
    /\ \/ /\ WsWritten
          /\ wsLink' = [stream |-> TRUE, peer |-> TRUE]
          /\ UNCHANGED wsFaults
       \/ /\ wsFaults < WsFaults
          /\ wsFaults' = wsFaults + 1
          /\ WsRetry
          /\ wsLink' = [stream |-> FALSE, peer |-> FALSE]

\* connect and disconnect messages, between two sends.
WsOutConnect ==
    /\ WsOutPart /\ wsTry.attempt = 0 /\ ~wsLink.stream
    /\ wsLink' = [stream |-> TRUE, peer |-> TRUE]
    /\ UNCHANGED <<wsTry, wsFaults>>
WsOutDisconnect ==
    /\ WsOutPart /\ wsTry.attempt = 0 /\ wsLink.stream
    /\ wsLink' = [stream |-> FALSE, peer |-> FALSE]
    /\ UNCHANGED <<wsTry, wsFaults>>
WsOutPeerGone ==
    /\ WsOutPart /\ wsLink.peer /\ wsFaults < WsFaults
    /\ wsFaults' = wsFaults + 1
    /\ wsLink' = [wsLink EXCEPT !.peer = FALSE]
    /\ UNCHANGED wsTry

LoopStep == LoopConnects \/ LoopFlags \/ LoopTakes \/ LoopAgain
WsOutStep == WsOutAttempt
ListenStep ==
    \/ \E c \in DOMAIN wsTasks : ListenInsert(c) \/ ListenLock(c) \/ ListenRemove(c) \/ ListenPick(c)
    \/ ListenWrite \/ ListenSent

WsNext ==
    \/ ListenAccept \/ ListenStep
    \/ \E c \in DOMAIN wsTasks : ListenCloses(c) \/ ListenSend({c})
    \/ ListenSend(DOMAIN wsTasks)
    \/ LoopStep \/ LoopConnectFails \/ LoopError \/ LoopCloses \/ LoopDisconnect \/ LoopStops
    \/ WsOutMessage \/ WsOutStep \/ WsOutConnect \/ WsOutDisconnect \/ WsOutPeerGone

---------------------------------------------------------------------------
(* Properties.                                                             *)

\* A client that reconnects comes back after every error.  Its loop ends for good when
\* the node stops, when the peer closed properly, and when a disconnect message came
\* between a connect and the take of its stream, which the loop does not tell from a
\* close; a disconnect at any other moment leaves it as it is.  Every message given to
\* websocket out is written or reported as failed.  A send of the listener ends, unless
\* it waits for the lock of a connection that the task of this connection holds: the task
\* gives the lock back only after it has left the table, for which it waits for the send.
WsRecovers ==
    <>[](/\ wsPart = "loop" => wsLoop.at \in {"open", "closed", "cut", "stopped"}
         /\ wsPart = "out" => wsTry.sent = wsTry.written + wsTry.failed
         /\ wsPart = "listener" /\ wsSender.on =>
               wsSender.now \in wsTable /\ wsOwner[wsSender.now] = "task")
=============================================================================
