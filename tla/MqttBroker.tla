----------------------------- MODULE MqttBroker -----------------------------
(***************************************************************************)
(* The embedded MQTT broker of crates/mqtt-broker: one task per connection *)
(* (`handle_connection`, `connection_loop`), a writer task per connection  *)
(* that drains a bounded channel, and the three shared tables, each behind *)
(* a lock of its own: sessions by client id, the topic trie and the        *)
(* retained messages.  A handler takes the locks one after the other, so   *)
(* every lock section is a step.                                           *)
(*                                                                         *)
(* Topics and filters are sequences of levels.  QoS only decides whether a *)
(* packet carries an id and is left out; a payload is a value, NoPayload   *)
(* is the empty one.                                                       *)
(***************************************************************************)
EXTENDS Integers, Sequences, FiniteSets, TopicTrie

CONSTANTS
    Conns,       \* connections, each used once
    Clients,     \* client ids
    Refused,     \* client ids whose credentials `authenticate` refuses
    Topics,      \* topics that are published
    Filters,     \* topic filters that are subscribed
    Payloads, NoPayload,
    WillTopic,   \* the topic of a last will
    Cap,         \* capacity of the outbound channel
    MaxPackets,  \* bound on the packets of one connection
    RetainAvailable, \* config.retain_available
    NoConn,
    Probes       \* topics on which the two ways to match are compared

VARIABLES
    listening, \* whether the accept loop still runs
    active,    \* metrics.active_connections
    pc,        \* where the task of a connection is
    client,    \* the client id of its CONNECT
    will,      \* whether it left a will
    packets,   \* packets read so far
    job,       \* what its handler works on
    sessions,  \* sessions[c]: the connection registered for client c
    trie,      \* the subscriptions: where they hang and whose they are
    retained,  \* retained[t]: the retained payload, or NoPayload
    out,       \* out[k]: how many packets the outbound channel holds
    leaked,    \* connections that ended between `sessions.insert` and the loop
    asked,     \* asked[k]: the filters connection k has subscribed
    offered    \* offered[k]: what was put, or tried to be put, into out[k]

tables == <<sessions, trie, retained>>
server == <<listening, active>>
conn == <<client, will, leaked>>
ghosts == <<asked, offered>>
vars == <<server, pc, conn, packets, job, tables, out, ghosts>>

Messages == [topic : Topics, payload : Payloads \cup {NoPayload}, retain : BOOLEAN]
Idle == [topic |-> <<>>]

ASSUME BrokerAssumption ==
    /\ NoConn \notin Conns /\ IsFiniteSet(Conns) /\ IsFiniteSet(Topics)
    /\ NoPayload \notin Payloads
    /\ WillTopic \in Topics
    /\ Cap \in Nat \ {0}
    /\ MaxPackets \in Nat
    /\ RetainAvailable \in BOOLEAN

Init ==
    /\ listening = TRUE
    /\ active = 0
    /\ pc = [k \in Conns |-> "new"]
    /\ client \in [Conns -> Clients]
    /\ will = [k \in Conns |-> FALSE]
    /\ packets = [k \in Conns |-> 0]
    /\ job = [k \in Conns |-> Idle]
    /\ sessions = [c \in Clients |-> NoConn]
    /\ trie = {}
    /\ retained = [t \in Topics |-> NoPayload]
    /\ out = [k \in Conns |-> 0]
    /\ leaked = {}
    /\ asked = [k \in Conns |-> {}]
    /\ offered = [k \in Conns |-> {}]

---------------------------------------------------------------------------
Subscribed(c, f) == [place |-> Place(f), client |-> c] \in trie

---------------------------------------------------------------------------
(* A connection.                                                           *)

\* The writer task of an ended loop is aborted, and its channel with it.
Ended == {"will_store", "will_match", "will_send", "remove", "clean", "closed"}

\* Session::send_raw: try_send, the packet is dropped when the channel is full
\* or closed.
Offer(chan, k, ms) ==
    IF k = NoConn THEN chan
    ELSE [chan EXCEPT ![k] = IF pc[k] \in Ended THEN @
                             ELSE Min({Cap, @ + Len(ms)})]

Note(k, ms) ==
    IF k = NoConn THEN offered ELSE [offered EXCEPT ![k] = @ \cup ToSet(ms)]

\* The accept loop counts a connection and gives it a task of its own.
Accept(k) ==
    /\ listening
    /\ pc[k] = "new"
    /\ pc' = [pc EXCEPT ![k] = "accepted"]
    /\ active' = active + 1
    /\ UNCHANGED <<conn, tables, ghosts, listening, packets, job, out>>

\* start_with_cancel: the loop ends, the tasks of the connections do not.
Cancel ==
    /\ listening
    /\ listening' = FALSE
    /\ UNCHANGED <<active, pc, conn, packets, job, tables, out, ghosts>>

\* CONNECT is read and authenticated; the session is inserted, over the one of
\* an older connection of the same client, and the loop begins.
Connect(k) ==
    /\ pc[k] = "accepted"
    /\ client[k] \notin Refused
    /\ sessions' = [sessions EXCEPT ![client[k]] = k]
    /\ \E w \in BOOLEAN : will' = [will EXCEPT ![k] = w]
    /\ \/ pc' = [pc EXCEPT ![k] = "loop"] /\ UNCHANGED <<active, leaked>>
       \/ /\ pc' = [pc EXCEPT ![k] = "closed"]       \* the CONNACK cannot be written
          /\ active' = active - 1
          /\ leaked' = leaked \cup {k}
    /\ UNCHANGED <<ghosts, listening, client, packets, job, trie, retained, out>>

\* The first packet is not a CONNECT, or the credentials are wrong.
Reject(k) ==
    /\ pc[k] = "accepted"
    /\ pc' = [pc EXCEPT ![k] = "closed"]
    /\ active' = active - 1
    /\ UNCHANGED <<conn, tables, ghosts, listening, packets, job, out>>

Read(k) ==
    /\ pc[k] = "loop"
    /\ packets[k] < MaxPackets
    /\ packets' = [packets EXCEPT ![k] = @ + 1]

\* PUBLISH: the acknowledgement goes to whoever is the session of the client now.
Publish(k, m) ==
    /\ Read(k)
    /\ pc' = [pc EXCEPT ![k] = "store"]
    /\ job' = [job EXCEPT ![k] = m]
    /\ out' = Offer(out, sessions[client[k]], <<[ack |-> "puback"]>>)
    /\ UNCHANGED <<server, conn, tables, ghosts>>

\* SUBSCRIBE and UNSUBSCRIBE: the trie first ...
Subscribe(k, f) ==
    /\ Read(k)
    /\ trie' = trie \cup {[place |-> Place(f), client |-> client[k]]}
    /\ asked' = [asked EXCEPT ![k] = @ \cup {f}]
    /\ pc' = [pc EXCEPT ![k] = "suback"]
    /\ job' = [job EXCEPT ![k] = [topic |-> f]]
    /\ UNCHANGED <<server, conn, sessions, retained, out, offered>>

Unsubscribe(k, f) ==
    /\ Read(k)
    /\ trie' = trie \ {[place |-> Place(f), client |-> client[k]]}
    /\ pc' = [pc EXCEPT ![k] = "ack"]
    /\ UNCHANGED <<server, conn, ghosts, job, sessions, retained, out>>

PingReq(k) ==
    /\ Read(k)
    /\ pc' = [pc EXCEPT ![k] = "ack"]
    /\ UNCHANGED <<server, conn, tables, ghosts, job, out>>

\* Mutant: the filter is looked up as if it were a topic.
RetainedForExact(f) ==
    SetToSeq({[topic |-> t, payload |-> retained[t]] :
                t \in {u \in Topics : retained[u] # NoPayload /\ f = u}})

\* match_retained
RetainedFor(f) ==
    SetToSeq({[topic |-> t, payload |-> retained[t]] :
                t \in {u \in Topics : retained[u] # NoPayload /\ FilterMatches(f, u)}})

\* ... then the answer, followed by the retained messages.
SubAck(k) ==
    /\ pc[k] = "suback"
    /\ LET s == sessions[client[k]]
           ms == <<[ack |-> "suback"]>> \o RetainedFor(job[k].topic)
       IN out' = Offer(out, s, ms) /\ offered' = Note(s, ms)
    /\ pc' = [pc EXCEPT ![k] = "loop"]
    /\ job' = [job EXCEPT ![k] = Idle]
    /\ UNCHANGED <<server, conn, tables, packets, asked>>

Ack(k) ==
    /\ pc[k] = "ack"
    /\ out' = Offer(out, sessions[client[k]], <<[ack |-> "ack"]>>)
    /\ pc' = [pc EXCEPT ![k] = "loop"]
    /\ UNCHANGED <<server, conn, tables, ghosts, packets, job>>

---------------------------------------------------------------------------
(* handle_publish_inner, for a PUBLISH and for a last will.                *)

\* An empty payload removes the retained message.
Stored(m) == IF m.retain /\ RetainAvailable THEN [retained EXCEPT ![m.topic] = m.payload] ELSE retained

Store(k) ==
    /\ pc[k] \in {"store", "will_store"}
    /\ retained' = Stored(job[k])
    /\ pc' = [pc EXCEPT ![k] = IF @ = "store" THEN "match" ELSE "will_match"]
    /\ UNCHANGED <<server, conn, ghosts, packets, job, sessions, trie, out>>

\* The subscriptions are copied out of the trie ...
Match(k) ==
    /\ pc[k] \in {"match", "will_match"}
    /\ job' = [job EXCEPT ![k] = [m |-> @, hits |-> {s \in trie : PlaceMatches(s.place, @.topic)}]]
    /\ pc' = [pc EXCEPT ![k] = IF @ = "match" THEN "send" ELSE "will_send"]
    /\ UNCHANGED <<server, conn, tables, ghosts, packets, out>>

\* ... and each one is served through the session its client has by then.
Send(k) ==
    /\ pc[k] \in {"send", "will_send"}
    /\ LET m == [topic |-> job[k].m.topic, payload |-> job[k].m.payload]
           Copies(c) == [i \in 1..Cardinality({s \in job[k].hits : s.client = c}) |-> m]
           To(j) == IF j \in Conns /\ sessions[client[j]] = j THEN Copies(client[j]) ELSE <<>>
       IN /\ out' = [j \in Conns |-> Offer(out, j, To(j))[j]]
          /\ offered' = [j \in Conns |-> Note(j, To(j))[j]]
    /\ pc' = [pc EXCEPT ![k] = IF @ = "send" THEN "loop" ELSE "remove"]
    /\ job' = [job EXCEPT ![k] = Idle]
    /\ UNCHANGED <<server, conn, tables, packets, asked>>

---------------------------------------------------------------------------
(* The end of a connection.                                                *)

\* DISCONNECT ends the loop well; the end of the stream or a bad packet ends it
\* with an error, and then the will is published.
Leave(k) ==
    /\ pc[k] = "loop"
    /\ \/ pc' = [pc EXCEPT ![k] = "remove"] /\ UNCHANGED job
       \/ /\ will[k]
          /\ pc' = [pc EXCEPT ![k] = "will_store"]
          /\ \E p \in Payloads, r \in BOOLEAN :
                job' = [job EXCEPT ![k] = [topic |-> WillTopic, payload |-> p, retain |-> r]]
    /\ out' = [out EXCEPT ![k] = 0]
    /\ UNCHANGED <<server, tables, ghosts, client, will, packets, leaked>>

\* The session is removed by client id, whichever connection it belongs to ...
Forget(k) ==
    /\ pc[k] = "remove"
    /\ sessions' = [sessions EXCEPT ![client[k]] = NoConn]
    /\ pc' = [pc EXCEPT ![k] = "clean"]
    /\ UNCHANGED <<server, conn, ghosts, packets, job, trie, retained, out>>

\* Mutant: only the subscriptions without wildcards are removed.
RemoveExact(c) == {s \in trie : s.client = c /\ s.place.kind = "exact"}

\* remove_subscriptions_for_client
RemoveAll(c) == {s \in trie : s.client = c}

\* ... and so are the subscriptions.
Clean(k) ==
    /\ pc[k] = "clean"
    /\ trie' = trie \ RemoveAll(client[k])
    /\ pc' = [pc EXCEPT ![k] = "closed"]
    /\ active' = active - 1
    /\ UNCHANGED <<conn, ghosts, listening, out, packets, job, sessions, retained>>

\* The writer task puts the next packet on the wire.
Write(k) ==
    /\ out[k] > 0
    /\ out' = [out EXCEPT ![k] = @ - 1]
    /\ UNCHANGED <<server, conn, tables, ghosts, pc, packets, job>>

ConnStep(k) ==
    \/ SubAck(k) \/ Ack(k) \/ Store(k) \/ Match(k) \/ Send(k) \/ Forget(k) \/ Clean(k)

Next ==
    \/ Cancel
    \/ \E k \in Conns :
        \/ Accept(k) \/ Connect(k) \/ Reject(k) \/ PingReq(k) \/ Leave(k) \/ ConnStep(k) \/ Write(k)
        \/ \E m \in Messages : Publish(k, m)
        \/ \E f \in Filters : Subscribe(k, f) \/ Unsubscribe(k, f)

Spec == Init /\ [][Next]_vars

---------------------------------------------------------------------------
(* Properties.                                                             *)

Quiet == \A k \in Conns : pc[k] \in {"new", "accepted", "loop", "closed"}

\* A retained message reaches a subscriber whichever way publisher and
\* subscriber interleave: handle_publish_inner stores it before it looks for
\* subscribers and handle_subscribe enters the trie before it reads the store,
\* so one of the two sees the other.
RetainedReaches ==
    Quiet => \A k \in Conns, t \in Topics : \A f \in asked[k] :
        /\ sessions[client[k]] = k /\ Subscribed(client[k], f)
        /\ Plain(f) /\ FilterMatches(f, t) /\ retained[t] # NoPayload
        => [topic |-> t, payload |-> retained[t]] \in offered[k]

\* Once every connection has ended, whatever the order in which connections of
\* one client replaced each other, no subscription and no counted connection is
\* left behind, and the only sessions left are those of connections whose CONNACK
\* could not be written (handle_connection returns there after the session was
\* inserted).
NoResidue ==
    (\A k \in Conns : pc[k] \in {"new", "closed"}) =>
        /\ trie = {} /\ active = 0
        /\ \A c \in Clients : sessions[c] \in {NoConn} \cup leaked

\* Live and retained messages are selected alike: whatever the clients have subscribed
\* and unsubscribed, match_topic finds a client for a topic exactly when
\* topic_matches_filter accepts the topic for one of the filters it holds.
TrieAgrees ==
    \A c \in Clients :
        LET held == {f \in Filters : Plain(f) /\ Subscribed(c, f)}
            hung == {entry \in trie : entry.client = c /\ entry.place \in {Place(f) : f \in held}}
        IN  \A t \in Probes :
                (\E entry \in hung : PlaceMatches(entry.place, t)) <=> \E f \in held : FilterMatches(f, t)
=============================================================================
