-------------------------------- MODULE Bacnet --------------------------------
(***************************************************************************)
(* The bacnet read and write nodes (industrial_nodes/bacnet_*.rs): confirmed *)
(* requests over UDP with retries, replies in segments that are put together *)
(* again, and the subscription to changes of value (COV) that shares one   *)
(* socket between its renewals and the notifications.  Packets are lost,   *)
(* duplicated and reordered; a retry keeps its invoke id, so that late     *)
(* segments of the reply to an earlier try are taken for the new one's.    *)
(* The device is external.                                                 *)
(***************************************************************************)
EXTENDS Integers, Sequences, FiniteSets, SequencesExt

CONSTANTS
    BacParts,      \* subset of {"read", "write", "cov"}
    BacProperties, \* properties a read asks for, in order
    BacRetries,    \* retries of the config node
    BacSegments,   \* segments of a reply
    BacSeqMod,     \* sequence numbers are below this (256 in the code)
    BacRenewals,   \* bound on subscribe requests
    BacServes,     \* bound on requests the device performs
    BacValues,     \* values the device's property takes
    BacIncrement,  \* cov_increment
    BacEvents      \* bound on values emitted

\* A reply has no more segments than there are sequence numbers for them.
ASSUME BacAssumption ==
    /\ BacProperties \in Seq(STRING) /\ BacRetries \in Nat
    /\ BacSeqMod \in Nat /\ BacSegments \in 1 .. BacSeqMod
    /\ BacValues \subseteq Int /\ BacIncrement \in Int

VARIABLES
    bacPart,
    bacLeft,       \* properties still to read
    bacInvoke,     \* NEXT_INVOKE_ID of the request under way
    bacTries,      \* sends of the request so far
    bacAt,         \* where the node is
    bacData, bacNext,      \* Reassembly
    bacToDevice, bacToNode,  \* packets under way; they may be delivered again
    bacSnapshot,   \* device: requests performed, copies included
    bacServed,     \* device: ids of the requests it performed
    bacResult,     \* what the node sends on
    covValue, covLast, covOut  \* device's value; last_emitted; values emitted

bacVars == <<bacPart, bacLeft, bacInvoke, bacTries, bacAt, bacData, bacNext, bacToDevice, bacToNode,
             bacSnapshot, bacServed, bacResult, covValue, covLast, covOut>>
bacDevice == <<bacSnapshot, bacServed, covValue>>
covNode == <<covLast, covOut>>

BacInit ==
    /\ bacPart \in BacParts
    /\ bacLeft = (IF bacPart = "read" THEN BacProperties ELSE <<bacPart>>)
    /\ bacInvoke = 0 /\ bacTries = 0 /\ bacAt = "start" /\ bacData = <<>> /\ bacNext = 0
    /\ bacToDevice = {} /\ bacToNode = {} /\ bacSnapshot = 0 /\ bacServed = {} /\ bacResult = <<>>
    /\ covValue \in (IF bacPart = "cov" THEN BacValues ELSE {0}) /\ covLast = <<>> /\ covOut = <<>>

ConfirmedRequest == [kind |-> "request", invoke |-> bacInvoke, seq |-> 0]
Ack(positive, seq) == [kind |-> IF positive THEN "ack" ELSE "nak", invoke |-> bacInvoke, seq |-> seq]

---------------------------------------------------------------------------
(* confirmed_request and its callers.                                      *)

\* read_property, write_property and CovSubscription::open take a socket; the next
\* invoke id comes from the shared counter.  subscribe keeps the socket.
Begin ==
    /\ bacAt = "start" /\ bacLeft # <<>>
    /\ bacPart = "cov" => bacInvoke < BacRenewals
    /\ bacInvoke' = (bacInvoke + 1) % 256 /\ bacTries' = 0 /\ bacAt' = "send"
    /\ IF bacPart = "cov" THEN UNCHANGED <<bacToDevice, bacToNode>> ELSE bacToDevice' = {} /\ bacToNode' = {}
    /\ UNCHANGED <<bacPart, bacLeft, bacData, bacNext, bacDevice, bacResult, covNode>>

\* One try: send, and an empty reassembly.
Send ==
    /\ bacAt = "send" /\ bacTries <= BacRetries
    /\ bacTries' = bacTries + 1 /\ bacAt' = "wait" /\ bacData' = <<>> /\ bacNext' = 0
    /\ bacToDevice' = bacToDevice \cup {ConfirmedRequest}
    /\ UNCHANGED <<bacPart, bacLeft, bacInvoke, bacToNode, bacDevice, bacResult, covNode>>

\* The deadline of a try passes.
Timeout ==
    /\ bacAt = "wait" /\ bacAt' = "send"
    /\ UNCHANGED <<bacPart, bacLeft, bacInvoke, bacTries, bacData, bacNext, bacToDevice, bacToNode, bacDevice, bacResult, covNode>>

\* Err: the reads that are left are not made, the message goes no further; a
\* subscription waits 5 s and is opened again, with a new socket.
RequestFails ==
    /\ IF bacPart = "cov" THEN bacAt' = "start" /\ UNCHANGED bacLeft ELSE bacAt' = "failed" /\ bacLeft' = <<>>
    /\ bacResult' = <<>>
    /\ IF bacPart = "cov" THEN bacToNode' = {} /\ bacToDevice' = {} ELSE UNCHANGED <<bacToNode, bacToDevice>>
    /\ UNCHANGED <<bacPart, bacInvoke, bacTries, bacData, bacNext, bacDevice, covNode>>

OutOfTries == bacAt = "send" /\ bacTries > BacRetries /\ RequestFails

\* send_to or recv_from returns an error.
SocketFails == bacAt \in {"send", "wait"} /\ RequestFails

\* A mistake: a segment that was seen before passes.
OutOfOrderAhead(p) == p.segmented /\ p.seq > bacNext

\* Where a segment belongs: its number must be the one expected next.
OutOfOrder(p) == p.segmented /\ p.seq # bacNext

\* handle_apdu on a complex ack (kind 3).
Segment(p) ==
    /\ bacAt = "wait" /\ p \in bacToNode /\ p.kind = "complex" /\ p.invoke = bacInvoke
    /\ IF OutOfOrder(p)
       THEN /\ bacToDevice' = bacToDevice \cup {Ack(FALSE, (bacNext - 1) % BacSeqMod)}
            /\ UNCHANGED <<bacLeft, bacAt, bacData, bacNext, bacResult>>
       ELSE /\ bacNext' = (p.seq + 1) % BacSeqMod
            /\ bacToDevice' = IF p.segmented THEN bacToDevice \cup {Ack(TRUE, p.seq)} ELSE bacToDevice
            /\ IF p.segmented /\ p.more
               THEN bacData' = Append(bacData, p.body) /\ UNCHANGED <<bacLeft, bacAt, bacResult>>
               ELSE /\ bacResult' = Append(bacResult, Append(bacData, p.body)) /\ bacData' = <<>>
                    /\ bacLeft' = Tail(bacLeft)
                    /\ bacAt' = IF Len(bacLeft) = 1 THEN "done" ELSE "start"
    /\ UNCHANGED <<bacPart, bacInvoke, bacTries, bacToNode, bacDevice, covNode>>

\* A simple ack (kind 2) ends a write or a subscription.
SimpleAck(p) ==
    /\ bacAt = "wait" /\ p \in bacToNode /\ p.kind = "simple" /\ p.invoke = bacInvoke
    /\ IF bacPart = "cov" THEN bacAt' = "listen" /\ UNCHANGED <<bacLeft, bacResult>>
       ELSE bacAt' = "done" /\ bacLeft' = <<>> /\ bacResult' = <<"true">>
    /\ UNCHANGED <<bacPart, bacInvoke, bacTries, bacData, bacNext, bacToDevice, bacToNode, bacDevice, covNode>>

\* Error, reject and abort (kinds 5, 6 and 7) end the request.
Refused(p) == bacAt = "wait" /\ p \in bacToNode /\ p.kind = "error" /\ p.invoke = bacInvoke /\ RequestFails

\* Anything else is taken from the socket and ignored: a notification that
\* comes during a renewal is lost.
Ignored(p) ==
    /\ bacAt = "wait" /\ p \in bacToNode /\ (p.kind = "notify" \/ p.invoke # bacInvoke)
    /\ bacToNode' = bacToNode \ {p}
    /\ UNCHANGED <<bacPart, bacLeft, bacInvoke, bacTries, bacAt, bacData, bacNext, bacToDevice, bacDevice, bacResult, covNode>>

---------------------------------------------------------------------------
(* The subscription: run_cov.                                              *)

\* cov_message: with an increment, a value too close to the last one sent is dropped.
Near(v) == covLast # <<>> /\ v - covLast[1] < BacIncrement /\ covLast[1] - v < BacIncrement
Notified(p) ==
    /\ bacAt = "listen" /\ p \in bacToNode /\ p.kind = "notify"
    /\ bacToNode' = bacToNode \ {p}
    /\ IF Near(p.body) THEN UNCHANGED covNode
       ELSE covLast' = <<p.body>> /\ covOut' = Append(covOut, p.body)
    /\ UNCHANGED <<bacPart, bacLeft, bacInvoke, bacTries, bacAt, bacData, bacNext, bacToDevice, bacDevice, bacResult>>

\* Half of the lifetime has passed: subscribe again; an error of the socket opens a new one.
Renew ==
    /\ bacAt = "listen" /\ bacAt' = "start"
    /\ \/ UNCHANGED <<bacToDevice, bacToNode>>
       \/ bacToDevice' = {} /\ bacToNode' = {}
    /\ UNCHANGED <<bacPart, bacLeft, bacInvoke, bacTries, bacData, bacNext, bacDevice, bacResult, covNode>>

\* Stop: CovSubscription::cancel, one try whose outcome does not matter.
CovStops ==
    /\ bacAt = "listen" /\ bacAt' = "failed" /\ bacLeft' = <<>>
    /\ UNCHANGED <<bacPart, bacInvoke, bacTries, bacData, bacNext, bacToDevice, bacToNode, bacDevice, bacResult, covNode>>

---------------------------------------------------------------------------
(* The device, and the network.                                            *)

SegmentOf(k, snap, invoke) ==
    [kind |-> "complex", invoke |-> invoke, segmented |-> BacSegments > 1, seq |-> k % BacSeqMod,
     more |-> k < BacSegments - 1, body |-> [place |-> k, of |-> snap]]

\* A request, as often as the network delivers it: every copy is performed (a write again,
\* a read reply is begun anew) and answered, or it is refused.
DeviceServes(r) ==
    /\ r \in bacToDevice /\ r.kind = "request" /\ bacSnapshot < BacServes
    /\ bacSnapshot' = bacSnapshot + 1
    /\ bacServed' = bacServed \cup {r.invoke}
    /\ bacToNode' = bacToNode \cup {IF bacPart = "read" THEN SegmentOf(0, bacSnapshot + 1, r.invoke)
                                   ELSE [kind |-> "simple", invoke |-> r.invoke]}
    /\ UNCHANGED <<bacPart, bacLeft, bacInvoke, bacTries, bacAt, bacData, bacNext, bacToDevice, bacResult, covValue, covNode>>

DeviceRefuses(r) ==
    /\ r \in bacToDevice /\ r.kind = "request"
    /\ bacToNode' = bacToNode \cup {[kind |-> "error", invoke |-> r.invoke]}
    /\ UNCHANGED <<bacPart, bacLeft, bacInvoke, bacTries, bacAt, bacData, bacNext, bacToDevice, bacDevice, bacResult, covNode>>

\* An acknowledgement: the segment after the one it names.
DeviceContinues(a) ==
    /\ a \in bacToDevice /\ a.kind \in {"ack", "nak"}
    /\ LET k == (a.seq + 1) % BacSeqMod
       IN bacToNode' = IF k < BacSegments THEN bacToNode \cup {SegmentOf(k, bacSnapshot, a.invoke)} ELSE bacToNode
    /\ UNCHANGED <<bacPart, bacLeft, bacInvoke, bacTries, bacAt, bacData, bacNext, bacToDevice, bacDevice, bacResult, covNode>>

DeviceChanges(v) ==
    /\ bacPart = "cov" /\ v # covValue /\ bacInvoke > 0
    /\ covValue' = v /\ bacToNode' = bacToNode \cup {[kind |-> "notify", invoke |-> 0, body |-> v]}
    /\ Len(covOut) < BacEvents
    /\ UNCHANGED <<bacPart, bacLeft, bacInvoke, bacTries, bacAt, bacData, bacNext, bacToDevice, bacSnapshot, bacServed, bacResult, covNode>>

PacketLost(p) ==
    /\ p \in bacToNode /\ bacToNode' = bacToNode \ {p}
    /\ UNCHANGED <<bacPart, bacLeft, bacInvoke, bacTries, bacAt, bacData, bacNext, bacToDevice, bacDevice, bacResult, covNode>>

BacNext ==
    \/ Begin \/ Send \/ Timeout \/ OutOfTries \/ SocketFails \/ Renew \/ CovStops
    \/ \E p \in bacToNode : Segment(p) \/ SimpleAck(p) \/ Refused(p) \/ Ignored(p) \/ Notified(p) \/ PacketLost(p)
    \/ \E r \in bacToDevice : DeviceServes(r) \/ DeviceRefuses(r) \/ DeviceContinues(r)
    \/ \E v \in BacValues : DeviceChanges(v)

BacSpec == BacInit /\ [][BacNext]_bacVars

---------------------------------------------------------------------------
\* What a BACnet node sends on, whatever the network loses, repeats and delays: a read
\* is one complete value per property it asks for, every segment at its place; a write
\* reported as done, and a subscription that listens, were performed by the device under
\* the id of that very request, and not under the one of an earlier renewal (ids repeat
\* after 256); two values of a subscription that follow one another are an increment
\* apart (confirmed_request, handle_apdu, cov_message). The converse does not hold and is
\* not claimed: a write whose acknowledgements are all lost is reported as an error
\* although it was performed, and the device performs a request as often as it arrives.
BacnetReports ==
    /\ \A i \in DOMAIN bacResult : bacPart = "read" =>
          /\ Len(bacResult[i]) = BacSegments
          /\ \A k \in DOMAIN bacResult[i] : bacResult[i][k].place = k - 1
    /\ bacAt = "done" => /\ bacPart = "read" => Len(bacResult) = Len(BacProperties)
                         /\ bacPart = "write" => bacInvoke \in bacServed
    /\ bacAt = "listen" => bacInvoke \in bacServed
    /\ \A i \in 2 .. Len(covOut) : covOut[i] - covOut[i-1] >= BacIncrement \/ covOut[i-1] - covOut[i] >= BacIncrement
=============================================================================
