------------------------------- MODULE TcpNodes -------------------------------
(***************************************************************************)
(* The tcp in, tcp out, tcp request and udp in nodes of network_nodes      *)
(* (tcp_in.rs, tcp_out.rs, tcp_get.rs, udp_in.rs).  A behaviour is about   *)
(* one of them, tcpPart.  tcp request hands its messages to a worker per   *)
(* address through a bounded channel; the table of workers and the life of *)
(* a worker are only loosely tied, and a worker that gives up removes      *)
(* whichever entry its address has.  tcp out broadcasts to a table of      *)
(* connections that its accept task extends meanwhile.                     *)
(***************************************************************************)
EXTENDS Integers, Sequences, FiniteSets, SequencesExt

CONSTANTS
    TcpParts,      \* the nodes to explore: a subset of {"in", "udp", "out", "client", "queue", "sit"}
    TcpMsgs,       \* bound on messages, and on chunks a peer sends
    TcpQueueSize,  \* msgQueueSize
    TcpPeers       \* bound on connections

VARIABLES
    tcpPart,
    getEntry,    \* tcp request: the worker whose sender the table holds, 0 when none
    getWorkers,  \* every worker spawned: its channel, its batch and what it is doing
    getOutcome,  \* what became of every message
    inConn,      \* tcp in: the connection, its mode, what it buffers
    inSent, inGot,   \* chunks the peer sent, chunks the flow received
    inDelay,     \* reconnect_delay in seconds
    outTable,    \* tcp out: connections
    outPeers,    \* every connection made: whether its peer is still there
    outCast      \* the broadcast under way: connections to write to, those that failed

tcpVars == <<tcpPart, getEntry, getWorkers, getOutcome, inConn, inSent, inGot, inDelay,
             outTable, outPeers, outCast>>
getVars == <<getEntry, getWorkers, getOutcome>>
inVars == <<inConn, inSent, inGot, inDelay>>
outVars == <<outTable, outPeers, outCast>>

TcpInit ==
    /\ tcpPart \in TcpParts
    /\ getEntry = 0 /\ getWorkers = <<>> /\ getOutcome = <<>>
    /\ inConn \in [up : {FALSE}, single : BOOLEAN, buffer : {<<>>}, running : {TRUE}]
    /\ inSent = <<>> /\ inGot = <<>> /\ inDelay = 1
    /\ outTable = {} /\ outPeers = <<>>
    /\ outCast = [on |-> FALSE, left |-> {}, failed |-> {}, fed |-> 0]

---------------------------------------------------------------------------
(* tcp request.                                                            *)

GetPart == tcpPart \in {"queue", "sit"} /\ UNCHANGED <<tcpPart, inVars, outVars>>
NewWorker == [queue |-> <<>>, batch |-> <<>>, at |-> "idle"]
Gone == {"ended", "broken"}
SetAll(ms, o) == [m \in DOMAIN getOutcome |-> IF \E i \in DOMAIN ms : ms[i] = m THEN o ELSE getOutcome[m]]

\* try_send drops a message when the channel is full or its worker has returned.
Accepts(worker) == Len(worker.queue) < TcpQueueSize /\ worker.at \notin Gone

\* The node takes its messages one by one.
NoneArriving == \A m \in DOMAIN getOutcome : getOutcome[m] # "arriving"

\* handle_queue_message and handle_sit_message: the address's worker gets the
\* message, in queue mode a new one when there is none.
GetMessage ==
    /\ GetPart /\ NoneArriving
    /\ Len(getOutcome) < TcpMsgs
    /\ tcpPart = "queue" \/ getEntry # 0
    /\ LET m == Len(getOutcome) + 1
           ws == IF getEntry = 0 THEN Append(getWorkers, NewWorker) ELSE getWorkers
           w == IF getEntry = 0 THEN Len(ws) ELSE getEntry
       IN /\ getEntry' = w
          /\ IF Accepts(ws[w])
             THEN /\ getWorkers' = [ws EXCEPT ![w].queue = Append(@, m)]
                  /\ getOutcome' = Append(getOutcome, "waiting")
             ELSE /\ getWorkers' = ws
                  /\ getOutcome' = Append(getOutcome, "dropped")

\* Stay connected: the connection is made before there is a worker ...
GetSitConnectFails ==
    /\ GetPart /\ tcpPart = "sit" /\ getEntry = 0 /\ NoneArriving /\ Len(getOutcome) < TcpMsgs
    /\ getOutcome' = Append(getOutcome, "failed")
    /\ UNCHANGED <<getEntry, getWorkers>>

\* ... which is in the table while the node reports its status, where a worker that
\* a reset cut off may remove it ...
GetSitConnects ==
    /\ GetPart /\ tcpPart = "sit" /\ getEntry = 0 /\ NoneArriving /\ Len(getOutcome) < TcpMsgs
    /\ getWorkers' = Append(getWorkers, NewWorker)
    /\ getEntry' = Len(getWorkers) + 1
    /\ getOutcome' = Append(getOutcome, "arriving")

\* ... before the message is handed to what the table holds by then.
GetSitHands ==
    /\ GetPart /\ ~NoneArriving
    /\ LET m == Len(getOutcome)
       IN IF getEntry = 0
          THEN getOutcome' = [getOutcome EXCEPT ![m] = "failed"] /\ UNCHANGED getWorkers
          ELSE IF Accepts(getWorkers[getEntry])
          THEN /\ getWorkers' = [getWorkers EXCEPT ![getEntry].queue = Append(@, m)]
               /\ getOutcome' = [getOutcome EXCEPT ![m] = "waiting"]
          ELSE getOutcome' = [getOutcome EXCEPT ![m] = "dropped"] /\ UNCHANGED getWorkers
    /\ UNCHANGED getEntry

\* handle_message: reset drops the sender; the worker drains its channel and ends.
GetReset ==
    /\ GetPart /\ getEntry # 0 /\ NoneArriving
    /\ getEntry' = 0
    /\ UNCHANGED <<getWorkers, getOutcome>>

\* A worker takes all that waits and merges the payloads.
WorkerTake(w) ==
    /\ GetPart /\ getWorkers[w].at = "idle" /\ getWorkers[w].queue # <<>>
    /\ getWorkers' = [getWorkers EXCEPT ![w] = [queue |-> <<>>, batch |-> @.queue, at |-> "busy"]]
    /\ UNCHANGED <<getEntry, getOutcome>>

\* Mutant: a failure ends the worker in both modes, with what its channel holds.
AfterFailureEnds(w) == "broken"

\* After a failed write or read the worker goes back to its channel; that of a
\* connection that stays returns, and what its channel holds is lost with it.
AfterFailure(w) == IF tcpPart = "sit" THEN "broken" ELSE "idle"

WorkerFails(w) ==
    /\ GetPart /\ getWorkers[w].at = "busy"
    /\ getEntry' = 0
    /\ getOutcome' = SetAll(getWorkers[w].batch, "failed")
    /\ getWorkers' = [getWorkers EXCEPT ![w] = [@ EXCEPT !.batch = <<>>, !.at = AfterFailure(w)]]

\* One response for the batch: it extends the last message, the first when the
\* answer is split at newlines.  The entry of the address is removed unless it was
\* split; a connected worker keeps it, and sends nothing for an empty answer.
WorkerAnswers(w, answer) ==
    /\ GetPart /\ getWorkers[w].at = "busy"
    /\ LET b == getWorkers[w].batch
           k == IF answer = "split" THEN 1 ELSE Len(b)
       IN getOutcome' = IF tcpPart = "sit" /\ answer = "empty" THEN SetAll(b, "merged")
                        ELSE [SetAll(b, "merged") EXCEPT ![b[k]] = "answered"]
    /\ getEntry' = IF tcpPart = "queue" /\ answer # "split" THEN 0 ELSE getEntry
    /\ getWorkers' = [getWorkers EXCEPT ![w] = [@ EXCEPT !.batch = <<>>, !.at = "idle"]]

\* The channel is empty and no sender is left.
WorkerEnds(w) ==
    /\ GetPart /\ getWorkers[w].at = "idle" /\ getWorkers[w].queue = <<>> /\ getEntry # w
    /\ getWorkers' = [getWorkers EXCEPT ![w].at = "ended"]
    /\ getEntry' = IF tcpPart = "sit" THEN 0 ELSE getEntry
    /\ UNCHANGED getOutcome

---------------------------------------------------------------------------
(* tcp in, as a client that connects again with a growing delay, and udp   *)
(* in, which delivers what it receives until an error.                     *)

InPart == tcpPart = "in" /\ inConn.running /\ UNCHANGED <<tcpPart, getVars, outVars>>

InConnect ==
    /\ InPart /\ ~inConn.up
    /\ inConn' = [inConn EXCEPT !.up = TRUE, !.buffer = <<>>]
    /\ inDelay' = 1
    /\ UNCHANGED <<inSent, inGot>>

NextDelay(d) == IF 2 * d < 30 THEN 2 * d ELSE 30

InConnectFails ==
    /\ InPart /\ ~inConn.up
    /\ inDelay' = NextDelay(inDelay)
    /\ UNCHANGED <<inConn, inSent, inGot>>

\* read_data: a stream delivers every chunk, single mode keeps them for the end.
InChunk ==
    /\ InPart /\ inConn.up /\ Len(inSent) < TcpMsgs
    /\ LET c == Len(inSent) + 1
       IN /\ inSent' = Append(inSent, c)
          /\ IF inConn.single
             THEN inConn' = [inConn EXCEPT !.buffer = Append(@, c)] /\ UNCHANGED inGot
             ELSE inGot' = Append(inGot, c) /\ UNCHANGED inConn
    /\ UNCHANGED inDelay

\* End of file or an error: what single mode kept is one message.
InCloses ==
    /\ InPart /\ inConn.up
    /\ inGot' = inGot \o inConn.buffer
    /\ inConn' = [inConn EXCEPT !.up = FALSE, !.buffer = <<>>]
    /\ inDelay' = NextDelay(inDelay)
    /\ UNCHANGED inSent

\* Cancelled: the rest is sent with the cancelled token, and does not arrive.
InStops ==
    /\ InPart
    /\ inConn' = [inConn EXCEPT !.up = FALSE, !.running = FALSE]
    /\ UNCHANGED <<inSent, inGot, inDelay>>

UdpPart == tcpPart = "udp" /\ inConn.running /\ UNCHANGED <<tcpPart, getVars, outVars, inDelay>>

UdpReceive ==
    /\ UdpPart /\ Len(inSent) < TcpMsgs
    /\ inSent' = Append(inSent, Len(inSent) + 1)
    /\ inGot' = Append(inGot, Len(inSent) + 1)
    /\ UNCHANGED inConn

\* An error of the socket ends the node's loop for good.
UdpFails ==
    /\ UdpPart
    /\ inConn' = [inConn EXCEPT !.running = FALSE]
    /\ UNCHANGED <<inSent, inGot>>

---------------------------------------------------------------------------
(* tcp out, as a server that leaves its connections open (no doend): the   *)
(* accept task and the broadcast; and as a client.                         *)

OutPart == tcpPart = "out" /\ UNCHANGED <<tcpPart, getVars, inVars>>

OutAccept ==
    /\ OutPart /\ Len(outPeers) < TcpPeers
    /\ outPeers' = Append(outPeers, TRUE)
    /\ outTable' = outTable \union {Len(outPeers) + 1}
    /\ UNCHANGED outCast

OutPeerGone(p) ==
    /\ OutPart /\ outPeers[p]
    /\ outPeers' = [outPeers EXCEPT ![p] = FALSE]
    /\ UNCHANGED <<outTable, outCast>>

\* process_server_message writes to a copy of the table ...
OutCastBegins ==
    /\ OutPart /\ ~outCast.on /\ outCast.fed < TcpMsgs
    /\ outCast' = [on |-> TRUE, left |-> outTable, failed |-> {}, fed |-> outCast.fed + 1]
    /\ UNCHANGED <<outTable, outPeers>>

\* ... a write to a peer that is gone may still succeed ...
OutWrite(p) ==
    /\ OutPart /\ p \in outCast.left
    /\ \E fails \in IF outPeers[p] THEN {FALSE} ELSE BOOLEAN :
          outCast' = [outCast EXCEPT !.left = @ \ {p},
                                     !.failed = IF fails THEN @ \union {p} ELSE @]
    /\ UNCHANGED <<outTable, outPeers>>

\* ... and the connections that failed are taken out of the table as it is now.
OutCastEnds ==
    /\ OutPart /\ outCast.on /\ outCast.left = {}
    /\ outTable' = outTable \ outCast.failed
    /\ outCast' = [outCast EXCEPT !.on = FALSE, !.failed = {}]
    /\ UNCHANGED outPeers

\* process_client_message: one connection, made when the table has none, and taken
\* out when a write fails (the message is lost with it).
ClientPart == tcpPart = "client" /\ UNCHANGED <<tcpPart, getVars, inVars>>

ClientSends ==
    /\ ClientPart /\ outCast.fed < TcpMsgs
    /\ outCast' = [outCast EXCEPT !.fed = @ + 1]
    /\ \/ /\ outTable = {} /\ Len(outPeers) < TcpPeers
          /\ outPeers' = Append(outPeers, TRUE)
          /\ outTable' = {Len(outPeers) + 1}
       \/ outTable = {} /\ UNCHANGED <<outTable, outPeers>>
       \/ /\ outTable # {}
          /\ \E fails \in IF \A p \in outTable : outPeers[p] THEN {FALSE} ELSE BOOLEAN :
                outTable' = IF fails THEN {} ELSE outTable
          /\ UNCHANGED outPeers

ClientPeerGone(p) ==
    /\ ClientPart /\ outPeers[p]
    /\ outPeers' = [outPeers EXCEPT ![p] = FALSE]
    /\ UNCHANGED <<outTable, outCast>>

TcpNext ==
    \/ GetMessage \/ GetSitConnectFails \/ GetSitConnects \/ GetSitHands \/ GetReset
    \/ \E w \in DOMAIN getWorkers : WorkerTake(w) \/ WorkerFails(w) \/ WorkerEnds(w)
                                    \/ \E a \in {"whole", "split", "empty"} : WorkerAnswers(w, a)
    \/ InConnect \/ InConnectFails \/ InChunk \/ InCloses \/ InStops
    \/ UdpReceive \/ UdpFails
    \/ ClientSends \/ \E p \in DOMAIN outPeers : ClientPeerGone(p)
    \/ OutAccept \/ OutCastBegins \/ OutCastEnds
    \/ \E p \in DOMAIN outPeers : OutPeerGone(p) \/ OutWrite(p)

TcpSpec == TcpInit /\ [][TcpNext]_tcpVars

---------------------------------------------------------------------------
(* Properties.                                                             *)

\* A message a tcp request accepted is always with a worker that will still read
\* its channel, however workers of one address fail, end and remove each other's
\* entries; the exception is a connection that stays (sit), where what waits behind a
\* batch that failed is lost with its worker (sit_worker returns).  In both modes a
\* worker that has returned is never the one the table hands messages to.  Messages
\* reach the flow of tcp in in order, without a gap below what a connection still
\* buffers; and a broadcast never loses from the table a connection whose peer is
\* there, one accepted while it wrote included.
TcpKeeps ==
    /\ \A m \in DOMAIN getOutcome : getOutcome[m] = "waiting" =>
          \E w \in DOMAIN getWorkers :
              /\ getWorkers[w].at # "ended"
              /\ getWorkers[w].at = "broken" => tcpPart = "sit"
              /\ m \in Range(getWorkers[w].queue) \union Range(getWorkers[w].batch)
    /\ getEntry # 0 => getWorkers[getEntry].at \notin Gone
    /\ inConn.running => inGot \o inConn.buffer = inSent
    /\ \A p \in DOMAIN outPeers : outPeers[p] => p \in outTable
=============================================================================
