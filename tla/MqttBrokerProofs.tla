-------------------------- MODULE MqttBrokerProofs --------------------------
(***************************************************************************)
(* Proofs about the embedded MQTT broker: what ended connections leave     *)
(* behind, that retained messages reach their subscribers, and that the two *)
(* ways the broker matches a topic agree on plain filters.                 *)
(***************************************************************************)
EXTENDS MqttBroker, FunctionTheorems, FiniteSetTheorems, SequenceTheorems, WellFoundedInduction, TLAPS

Places == {"new", "accepted", "loop", "store", "match", "send", "suback", "ack", "will_store", "will_match",
           "will_send", "remove", "clean", "closed"}

Open == {k \in Conns : pc[k] \notin {"new", "closed"}}
Serving(k) == pc[k] \notin {"new", "accepted", "closed"}

BrokerTypes ==
  /\ pc \in [Conns -> Places] /\ client \in [Conns -> Clients] /\ DOMAIN job = Conns
  /\ DOMAIN sessions = Clients /\ DOMAIN retained = Topics
  /\ asked \in [Conns -> SUBSET Filters] /\ DOMAIN offered = Conns
  /\ IsFiniteSet(trie)

(* Whose session and whose subscriptions are still to be removed.           *)
SessionInv(c) ==
  \/ sessions[c] = NoConn \/ sessions[c] \in leaked
  \/ /\ sessions[c] \in Conns /\ client[sessions[c]] = c
     /\ Serving(sessions[c]) /\ pc[sessions[c]] # "clean"

ResidueInv ==
  /\ active = Cardinality(Open)
  /\ \A s \in trie : \E k \in Conns : client[k] = s.client /\ Serving(k)
  /\ \A c \in Clients : SessionInv(c)

(* A retained message that a connection is entitled to ...                  *)
Wanted(k, t, f) ==
  /\ sessions[client[k]] = k /\ Subscribed(client[k], f)
  /\ Plain(f) /\ FilterMatches(f, t) /\ retained[t] # NoPayload

(* ... is brought by the publisher who stored it, until he has found and served
   the subscription, or by the subscription, until it has read the store.   *)
Brings(j, k, t, f) ==
  \/ /\ pc[j] \in {"match", "will_match"}
     /\ job[j].topic = t /\ job[j].payload = retained[t]
  \/ /\ pc[j] \in {"send", "will_send"}
     /\ job[j].m.topic = t /\ job[j].m.payload = retained[t]
     /\ [place |-> Place(f), client |-> client[k]] \in job[j].hits
  \/ /\ pc[j] = "suback" /\ client[j] = client[k]
     /\ job[j].topic \in Filters /\ Place(job[j].topic) = Place(f)

Given(k, t) == [topic |-> t, payload |-> retained[t]] \in offered[k]

RetainedInv ==
  \A k \in Conns, t \in Topics : \A f \in asked[k] :
    Wanted(k, t, f) => Given(k, t) \/ \E j \in Conns : Brings(j, k, t, f)

JobInv ==
  \A k \in Conns : /\ pc[k] \in {"send", "will_send"} => IsFiniteSet(job[k].hits)
                   /\ pc[k] \in {"new", "accepted"} => asked[k] = {}

BrokerInv == BrokerTypes /\ ResidueInv /\ JobInv /\ RetainedInv

-----------------------------------------------------------------------------
(* The sequences a channel is offered.                                      *)

(* SetToSeq lists what is in a finite set.                                  *)
LEMMA SeqOfSet ==
  ASSUME NEW S, IsFiniteSet(S)
  PROVE  SetToSeq(S) \in Seq(S) /\ ToSet(SetToSeq(S)) = S
<1> DEFINE n == Cardinality(S)
           s == SetToSeq(S)
<1>1. n \in Nat /\ ExistsBijection(1 .. n, S)
  BY FS_CardinalityType
<1>2. PICK b \in Bijection(1 .. n, S) : TRUE
  BY <1>1, Fun_ExistsBij
<1>3. b \in [1 .. n -> S] /\ IsInjective(b)
  BY <1>2 DEF Bijection, Injection
<1>4. s \in [1 .. n -> S] /\ IsInjective(s)
  BY <1>3 DEF SetToSeq
<1> HIDE DEF s
<1>5. s \in Injection(1 .. n, S)
  BY <1>4 DEF Injection
<1>6. IsFiniteSet(1 .. n) /\ Cardinality(1 .. n) = n
  <2>1. 1 \in Int /\ n \in Int
    BY <1>1
  <2>2. IsFiniteSet(1 .. n) /\ Cardinality(1 .. n) = IF 1 > n THEN 0 ELSE n - 1 + 1
    BY <2>1, FS_Interval
  <2>3. QED
    BY <1>1, <2>2
<1>7. s \in Surjection(1 .. n, S)
  BY <1>5, <1>6, FS_Injection
<1>8. \A x \in S : \E i \in 1 .. n : s[i] = x
  BY <1>7 DEF Surjection
<1>9. s \in Seq(S) /\ DOMAIN s = 1 .. n
  BY <1>1, <1>4, SeqDef
<1>10. ToSet(s) = S
  BY <1>4, <1>8, <1>9 DEF ToSet
<1>11. QED
  BY <1>9, <1>10 DEF s

(* A SUBACK is followed by every retained message the filter selects.       *)
LEMMA SubAckOffers ==
  ASSUME NEW f, NEW t \in Topics, retained[t] # NoPayload, FilterMatches(f, t), NEW a
  PROVE  [topic |-> t, payload |-> retained[t]] \in ToSet(<<a>> \o RetainedFor(f))
<1> DEFINE U == {u \in Topics : retained[u] # NoPayload /\ FilterMatches(f, u)}
           S == {[topic |-> u, payload |-> retained[u]] : u \in U}
           m == [topic |-> t, payload |-> retained[t]]
<1>1. IsFiniteSet(U)
  BY BrokerAssumption, FS_Subset
<1>2. IsFiniteSet(S)
  <2> DEFINE g == [x \in S |-> x.topic]
  <2>1. g \in [S -> U]
    OBVIOUS
  <2>2. ASSUME NEW x \in S, NEW y \in S, g[x] = g[y] PROVE x = y
    BY <2>2
  <2>3. g \in Injection(S, U)
    BY <2>1, <2>2 DEF Injection, IsInjective
  <2>4. QED
    BY <1>1, <2>3, FS_Injection
<1>3. m \in S
  OBVIOUS
<1> DEFINE s == RetainedFor(f)
<1>4. s \in Seq(S) /\ ToSet(s) = S
  BY <1>2, SeqOfSet DEF RetainedFor
<1> HIDE DEF s, S, m
<1>5. PICK i \in DOMAIN s : s[i] = m
  BY <1>3, <1>4 DEF ToSet
<1>6. Len(s) \in Nat /\ i \in 1 .. Len(s)
  BY <1>4, <1>5, LenProperties
<1> DEFINE A == S \cup {a}
<1>7. s \in Seq(A) /\ <<a>> \in Seq(A) /\ Len(<<a>>) = 1
  <2>1. S \subseteq A /\ a \in A
    OBVIOUS
  <2>2. s \in Seq(A)
    BY <1>4, <2>1, SeqMonotonic
  <2> HIDE DEF A
  <2>3. <<a>> \in Seq(A) /\ Len(<<a>>) = 1
    BY <2>1
  <2>4. QED
    BY <2>2, <2>3
<1> HIDE DEF A
<1> DEFINE q == <<a>> \o s
<1>8. q \in Seq(A) /\ Len(q) = 1 + Len(s) /\ q[i + 1] = s[i]
  BY <1>6, <1>7, ConcatProperties
<1> HIDE DEF q
<1>9. i + 1 \in DOMAIN q
  BY <1>6, <1>8, LenProperties
<1>10. m \in ToSet(q)
  BY <1>5, <1>8, <1>9 DEF ToSet
<1>11. QED
  BY <1>10 DEF q, m, s

-----------------------------------------------------------------------------
(* Types, and what a step does to the task of one connection.               *)

(* Every step but a cancellation and a write is one of the task of k, which it
   moves to another place; no other task moves.                             *)
LEMMA TypesKept ==
  ASSUME BrokerTypes, [Next]_vars
  PROVE  BrokerTypes'
<1> USE DEF BrokerTypes, server, tables, conn, ghosts, vars
<1>1. CASE UNCHANGED vars
  BY <1>1
<1>2. CASE Cancel
  BY <1>2 DEF Cancel
<1>3. ASSUME NEW k \in Conns, Accept(k) \/ Connect(k) \/ Reject(k) PROVE BrokerTypes'
  BY <1>3 DEF Accept, Connect, Reject, Places
<1>4. ASSUME NEW k \in Conns, PingReq(k) \/ Leave(k) \/ Ack(k) \/ Forget(k) PROVE BrokerTypes'
  BY <1>4 DEF PingReq, Read, Leave, Ack, Forget, Places
<1>5. ASSUME NEW k \in Conns, Write(k) PROVE BrokerTypes'
  BY <1>5 DEF Write
<1>6. ASSUME NEW k \in Conns, NEW m \in Messages, Publish(k, m) PROVE BrokerTypes'
  BY <1>6 DEF Publish, Read, Places
<1>7. ASSUME NEW k \in Conns, NEW f \in Filters, Subscribe(k, f) PROVE BrokerTypes'
  <2>1. IsFiniteSet(trie')
    BY <1>7, FS_AddElement DEF Subscribe
  <2>2. pc' \in [Conns -> Places] /\ asked' \in [Conns -> SUBSET Filters] /\ DOMAIN job' = Conns
    BY <1>7 DEF Subscribe, Places
  <2>3. UNCHANGED <<client, sessions, retained, offered>>
    BY <1>7 DEF Subscribe
  <2>4. QED
    BY <2>1, <2>2, <2>3
<1>8. ASSUME NEW k \in Conns, NEW f \in Filters, Unsubscribe(k, f) PROVE BrokerTypes'
  <2>1. IsFiniteSet(trie')
    BY <1>8, FS_Subset DEF Unsubscribe
  <2>2. pc' \in [Conns -> Places] /\ UNCHANGED <<client, sessions, retained, offered, asked, job>>
    BY <1>8 DEF Unsubscribe, Places
  <2>3. QED
    BY <2>1, <2>2
<1>9. ASSUME NEW k \in Conns, SubAck(k) PROVE BrokerTypes'
  <2>1. DOMAIN offered' = Conns
    BY <1>9 DEF SubAck, Note
  <2>2. pc' \in [Conns -> Places] /\ DOMAIN job' = Conns /\ UNCHANGED <<client, sessions, trie, retained, asked>>
    BY <1>9 DEF SubAck, Places
  <2>3. QED
    BY <2>1, <2>2
<1>10. ASSUME NEW k \in Conns, Store(k) PROVE BrokerTypes'
  <2>1. DOMAIN retained' = Topics
    BY <1>10 DEF Store, Stored
  <2>2. pc' \in [Conns -> Places] /\ UNCHANGED <<client, sessions, trie, offered, asked, job>>
    BY <1>10 DEF Store, Places
  <2>3. QED
    BY <2>1, <2>2
<1>11. ASSUME NEW k \in Conns, Match(k) PROVE BrokerTypes'
  <2>1. pc' \in [Conns -> Places] /\ UNCHANGED <<client, sessions, trie, retained, offered, asked>>
    BY <1>11 DEF Match, Places
  <2>2. DOMAIN job' = Conns
    BY <1>11 DEF Match
  <2>3. QED
    BY <2>1, <2>2
<1>12. ASSUME NEW k \in Conns, Send(k) PROVE BrokerTypes'
  <2>1. pc' \in [Conns -> Places] /\ UNCHANGED <<client, sessions, trie, retained, asked>>
    BY <1>12 DEF Send, Places
  <2>2. DOMAIN job' = Conns /\ DOMAIN offered' = Conns
    BY <1>12 DEF Send
  <2>3. QED
    BY <2>1, <2>2
<1>13. ASSUME NEW k \in Conns, Clean(k) PROVE BrokerTypes'
  <2>1. IsFiniteSet(trie')
    BY <1>13, FS_Subset DEF Clean
  <2>2. pc' \in [Conns -> Places] /\ UNCHANGED <<client, sessions, retained, offered, asked, job>>
    BY <1>13 DEF Clean, Places
  <2>3. QED
    BY <2>1, <2>2
<1> HIDE DEF BrokerTypes, server, tables, conn, ghosts, vars
<1>14. QED
  BY <1>1, <1>2, <1>3, <1>4, <1>5, <1>6, <1>7, <1>8, <1>9, <1>10, <1>11, <1>12, <1>13 DEF Next, ConnStep

-----------------------------------------------------------------------------
(* What ended connections leave behind.                                     *)

(* A step within the life of a connection: it may add subscriptions of its own
   client.                                                                  *)
LEMMA WithinLife ==
  ASSUME BrokerTypes, ResidueInv, NEW k \in Conns, NEW p \in Places \ {"new", "accepted", "closed", "clean"},
         Serving(k), pc[k] # "clean", pc' = [pc EXCEPT ![k] = p],
         UNCHANGED <<active, sessions, client, leaked>>,
         \A s \in trie' : s \in trie \/ s.client = client[k]
  PROVE  ResidueInv'
<1>1. pc \in [Conns -> Places] /\ pc'[k] = p /\ \A j \in Conns \ {k} : pc'[j] = pc[j]
  BY DEF BrokerTypes
<1>2. Open' = Open
  BY <1>1 DEF Open, Serving
<1>3. active' = Cardinality(Open')
  BY <1>2 DEF ResidueInv
<1>4. \A j \in Conns : Serving(j)' <=> Serving(j)
  BY <1>1 DEF Serving
<1>5. \A s \in trie' : \E j \in Conns : client'[j] = s.client /\ Serving(j)'
  BY <1>4 DEF ResidueInv
<1>6. ASSUME NEW c \in Clients PROVE SessionInv(c)'
  <2>1. SessionInv(c) /\ sessions'[c] = sessions[c]
    BY DEF ResidueInv
  <2>2. QED
    BY <1>1, <1>4, <2>1 DEF SessionInv
<1>7. QED
  BY <1>3, <1>5, <1>6 DEF ResidueInv

(* Open connections are counted.                                            *)
LEMMA OpenCounts ==
  ASSUME BrokerTypes, NEW k \in Conns, NEW p \in Places, pc' = [pc EXCEPT ![k] = p]
  PROVE  /\ (pc[k] = "new" /\ p # "new" /\ p # "closed") => Cardinality(Open') = Cardinality(Open) + 1
         /\ (pc[k] \notin {"new", "closed"} /\ p = "closed") => Cardinality(Open') = Cardinality(Open) - 1
         /\ (pc[k] \notin {"new", "closed"} /\ p \notin {"new", "closed"}) => Open' = Open
<1>1. pc \in [Conns -> Places] /\ pc'[k] = p /\ \A j \in Conns \ {k} : pc'[j] = pc[j]
  BY DEF BrokerTypes
<1>2. IsFiniteSet(Open)
  BY BrokerAssumption, FS_Subset DEF Open
<1>3. CASE pc[k] = "new" /\ p # "new" /\ p # "closed"
  <2>1. Open' = Open \cup {k} /\ k \notin Open
    BY <1>1, <1>3 DEF Open
  <2>2. QED
    BY <1>2, <1>3, <2>1, FS_AddElement
<1>4. CASE pc[k] \notin {"new", "closed"} /\ p = "closed"
  <2>1. Open' = Open \ {k} /\ k \in Open
    BY <1>1, <1>4 DEF Open
  <2>2. QED
    BY <1>2, <1>4, <2>1, FS_RemoveElement
<1>5. CASE pc[k] \notin {"new", "closed"} /\ p \notin {"new", "closed"}
  BY <1>1, <1>5 DEF Open
<1>6. QED
  BY <1>3, <1>4, <1>5

(* Every step keeps the three counts: of open connections, of subscriptions and
   of sessions.                                                             *)
LEMMA ResidueStep ==
  ASSUME BrokerTypes, ResidueInv, [Next]_vars
  PROVE  ResidueInv'
<1>1. CASE UNCHANGED vars \/ Cancel \/ \E k \in Conns : Write(k)
  <2>1. UNCHANGED <<active, pc, client, sessions, leaked, trie>>
    BY <1>1 DEF vars, server, conn, tables, Cancel, Write
  <2>2. QED
    BY <2>1 DEF ResidueInv, SessionInv, Open, Serving
<1>2. ASSUME NEW k \in Conns, Accept(k) PROVE ResidueInv'
  <2>1. /\ pc[k] = "new" /\ pc' = [pc EXCEPT ![k] = "accepted"] /\ active' = active + 1
        /\ UNCHANGED <<client, leaked, sessions, trie>> /\ "accepted" \in Places
    BY <1>2 DEF Accept, conn, tables, Places
  <2>2. pc \in [Conns -> Places] /\ pc'[k] = "accepted" /\ \A j \in Conns \ {k} : pc'[j] = pc[j]
    BY <2>1 DEF BrokerTypes
  <2>3. active' = Cardinality(Open')
    BY <2>1, OpenCounts DEF ResidueInv
  <2>4. \A j \in Conns : Serving(j)' <=> Serving(j)
    BY <2>1, <2>2 DEF Serving
  <2>5. \A s \in trie' : \E j \in Conns : client'[j] = s.client /\ Serving(j)'
    BY <2>1, <2>4 DEF ResidueInv
  <2>6. ASSUME NEW c \in Clients PROVE SessionInv(c)'
    <3>1. SessionInv(c) /\ sessions'[c] = sessions[c]
      BY <2>1 DEF ResidueInv
    <3>2. QED
      BY <2>1, <2>2, <2>4, <3>1 DEF SessionInv
  <2>7. QED
    BY <2>3, <2>5, <2>6 DEF ResidueInv
<1>3. ASSUME NEW k \in Conns, Connect(k) PROVE ResidueInv'
  <2>1. /\ pc[k] = "accepted" /\ sessions' = [sessions EXCEPT ![client[k]] = k]
        /\ UNCHANGED <<client, trie>>
        /\ \/ pc' = [pc EXCEPT ![k] = "loop"] /\ UNCHANGED <<active, leaked>>
           \/ pc' = [pc EXCEPT ![k] = "closed"] /\ active' = active - 1 /\ leaked' = leaked \cup {k}
        /\ "loop" \in Places /\ "closed" \in Places
    BY <1>3 DEF Connect, Places
  <2>2. /\ pc \in [Conns -> Places] /\ \A j \in Conns \ {k} : pc'[j] = pc[j]
        /\ pc'[k] = "loop" \/ (pc'[k] = "closed" /\ k \in leaked')
    BY <2>1 DEF BrokerTypes
  <2>3. active' = Cardinality(Open')
    BY <2>1, OpenCounts DEF ResidueInv
  <2>4. \A j \in Conns : Serving(j) => Serving(j)'
    BY <2>1, <2>2 DEF Serving
  <2>5. \A s \in trie' : \E j \in Conns : client'[j] = s.client /\ Serving(j)'
    BY <2>1, <2>4 DEF ResidueInv
  <2>6. ASSUME NEW c \in Clients PROVE SessionInv(c)'
    <3>1. SessionInv(c) /\ DOMAIN sessions = Clients
      BY DEF ResidueInv, BrokerTypes
    <3>2. CASE c = client[k]
      <4>1. sessions'[c] = k
        BY <2>1, <3>1, <3>2
      <4>2. QED
        BY <2>1, <2>2, <3>2, <4>1 DEF SessionInv, Serving
    <3>3. CASE c # client[k]
      <4>1. sessions'[c] = sessions[c]
        BY <2>1, <3>1, <3>3
      <4>2. leaked \subseteq leaked'
        BY <2>1
      <4>3. QED
        BY <2>1, <2>2, <2>4, <3>1, <4>1, <4>2 DEF SessionInv, Serving
    <3>4. QED
      BY <3>2, <3>3
  <2>7. QED
    BY <2>3, <2>5, <2>6 DEF ResidueInv
<1>4. ASSUME NEW k \in Conns, Reject(k) PROVE ResidueInv'
  <2>1. /\ pc[k] = "accepted" /\ pc' = [pc EXCEPT ![k] = "closed"] /\ active' = active - 1
        /\ UNCHANGED <<client, leaked, sessions, trie>> /\ "closed" \in Places
    BY <1>4 DEF Reject, conn, tables, Places
  <2>2. pc \in [Conns -> Places] /\ pc'[k] = "closed" /\ \A j \in Conns \ {k} : pc'[j] = pc[j]
    BY <2>1 DEF BrokerTypes
  <2>3. active' = Cardinality(Open')
    BY <2>1, OpenCounts DEF ResidueInv
  <2>4. \A j \in Conns : Serving(j)' <=> Serving(j)
    BY <2>1, <2>2 DEF Serving
  <2>5. \A s \in trie' : \E j \in Conns : client'[j] = s.client /\ Serving(j)'
    BY <2>1, <2>4 DEF ResidueInv
  <2>6. ASSUME NEW c \in Clients PROVE SessionInv(c)'
    <3>1. SessionInv(c) /\ sessions'[c] = sessions[c]
      BY <2>1 DEF ResidueInv
    <3>2. QED
      BY <2>1, <2>2, <2>4, <3>1 DEF SessionInv
  <2>7. QED
    BY <2>3, <2>5, <2>6 DEF ResidueInv
<1>5. ASSUME NEW k \in Conns,
             \/ PingReq(k) \/ Leave(k) \/ SubAck(k) \/ Ack(k) \/ Store(k) \/ Match(k) \/ Send(k)
             \/ \E m \in Messages : Publish(k, m)
             \/ \E f \in Filters : Subscribe(k, f) \/ Unsubscribe(k, f)
      PROVE  ResidueInv'
  <2>1. /\ Serving(k) /\ pc[k] # "clean" /\ UNCHANGED <<active, sessions, client, leaked>>
    BY <1>5 DEF PingReq, Read, Leave, SubAck, Ack, Store, Match, Send, Publish, Subscribe, Unsubscribe, Serving,
                server, conn, tables
  <2>2. PICK p \in Places \ {"new", "accepted", "closed", "clean"} : pc' = [pc EXCEPT ![k] = p]
    BY <1>5 DEF PingReq, Leave, SubAck, Ack, Store, Match, Send, Publish, Subscribe, Unsubscribe, Places
  <2>3. \A s \in trie' : s \in trie \/ s.client = client[k]
    BY <1>5 DEF PingReq, Leave, SubAck, Ack, Store, Match, Send, Publish, Subscribe, Unsubscribe, tables
  <2>4. QED
    BY <2>1, <2>2, <2>3, WithinLife
<1>6. ASSUME NEW k \in Conns, Forget(k) PROVE ResidueInv'
  <2>1. /\ pc[k] = "remove" /\ pc' = [pc EXCEPT ![k] = "clean"] /\ sessions' = [sessions EXCEPT ![client[k]] = NoConn]
        /\ UNCHANGED <<active, client, leaked, trie>> /\ "clean" \in Places
    BY <1>6 DEF Forget, conn, server, Places
  <2>2. pc \in [Conns -> Places] /\ pc'[k] = "clean" /\ \A j \in Conns \ {k} : pc'[j] = pc[j]
    BY <2>1 DEF BrokerTypes
  <2>3. active' = Cardinality(Open')
    <3>1. Open' = Open
      BY <2>1, <2>2 DEF Open
    <3>2. QED
      BY <2>1, <3>1 DEF ResidueInv
  <2>4. \A j \in Conns : Serving(j)' <=> Serving(j)
    BY <2>1, <2>2 DEF Serving
  <2>5. \A s \in trie' : \E j \in Conns : client'[j] = s.client /\ Serving(j)'
    BY <2>1, <2>4 DEF ResidueInv
  <2>6. ASSUME NEW c \in Clients PROVE SessionInv(c)'
    <3>1. SessionInv(c) /\ DOMAIN sessions = Clients
      BY DEF ResidueInv, BrokerTypes
    <3>2. CASE c = client[k]
      <4>1. sessions'[c] = NoConn
        BY <2>1, <3>1, <3>2
      <4>2. QED
        BY <4>1 DEF SessionInv
    <3>3. CASE c # client[k]
      <4>1. sessions'[c] = sessions[c]
        BY <2>1, <3>1, <3>3
      <4>2. QED
        BY <2>1, <2>2, <2>4, <3>1, <3>3, <4>1 DEF SessionInv
    <3>4. QED
      BY <3>2, <3>3
  <2>7. QED
    BY <2>3, <2>5, <2>6 DEF ResidueInv
<1>7. ASSUME NEW k \in Conns, Clean(k) PROVE ResidueInv'
  <2>1. /\ pc[k] = "clean" /\ pc' = [pc EXCEPT ![k] = "closed"] /\ active' = active - 1
        /\ trie' = trie \ {s \in trie : s.client = client[k]}
        /\ UNCHANGED <<sessions, client, leaked>> /\ "closed" \in Places
    BY <1>7 DEF Clean, RemoveAll, conn, Places
  <2>2. pc \in [Conns -> Places] /\ pc'[k] = "closed" /\ \A j \in Conns \ {k} : pc'[j] = pc[j]
    BY <2>1 DEF BrokerTypes
  <2>3. active' = Cardinality(Open')
    BY <2>1, OpenCounts DEF ResidueInv
  <2>4. \A j \in Conns \ {k} : Serving(j)' <=> Serving(j)
    BY <2>1, <2>2 DEF Serving
  <2>5. ASSUME NEW s \in trie' PROVE \E j \in Conns : client'[j] = s.client /\ Serving(j)'
    <3>1. s \in trie /\ s.client # client[k]
      BY <2>1
    <3>2. PICK j \in Conns : client[j] = s.client /\ Serving(j)
      BY <3>1 DEF ResidueInv
    <3>3. QED
      BY <2>1, <2>4, <3>1, <3>2
  <2>6. ASSUME NEW c \in Clients PROVE SessionInv(c)'
    <3>1. SessionInv(c) /\ sessions'[c] = sessions[c]
      BY <2>1 DEF ResidueInv
    <3>2. QED
      BY <2>1, <2>2, <2>4, <3>1 DEF SessionInv
  <2>7. QED
    BY <2>3, <2>5, <2>6 DEF ResidueInv
<1>8. QED
  BY <1>1, <1>2, <1>3, <1>4, <1>5, <1>6, <1>7 DEF Next, ConnStep

(* The subscriptions a publisher copies are finitely many, and a connection asks
   for nothing before it is connected.                                      *)
LEMMA JobStep ==
  ASSUME BrokerTypes, JobInv, [Next]_vars
  PROVE  JobInv'
<1>1. CASE UNCHANGED vars \/ Cancel \/ \E k \in Conns : Write(k)
  <2>1. UNCHANGED <<pc, job, asked>>
    BY <1>1 DEF vars, ghosts, Cancel, Write
  <2>2. QED
    BY <2>1 DEF JobInv
<1>2. ASSUME NEW k \in Conns, Match(k) PROVE JobInv'
  <2> DEFINE H == {s \in trie : PlaceMatches(s.place, job[k].topic)}
  <2>1. /\ job' = [job EXCEPT ![k] = [m |-> job[k], hits |-> H]] /\ asked' = asked
        /\ \A j \in Conns \ {k} : pc'[j] = pc[j]
    BY <1>2 DEF Match, BrokerTypes, ghosts
  <2>2. IsFiniteSet(H)
    BY FS_Subset DEF BrokerTypes
  <2> HIDE DEF H
  <2>3. job'[k].hits = H /\ \A j \in Conns \ {k} : job'[j] = job[j]
    BY <2>1 DEF BrokerTypes
  <2>4. pc'[k] \notin {"new", "accepted"}
    BY <1>2 DEF Match, BrokerTypes
  <2>5. QED
    BY <2>1, <2>2, <2>3, <2>4 DEF JobInv
<1>3. ASSUME NEW k \in Conns,
             \/ Accept(k) \/ Connect(k) \/ Reject(k) \/ PingReq(k) \/ Leave(k) \/ SubAck(k) \/ Ack(k) \/ Store(k)
             \/ Send(k) \/ Forget(k) \/ Clean(k)
             \/ \E m \in Messages : Publish(k, m)
             \/ \E f \in Filters : Subscribe(k, f) \/ Unsubscribe(k, f)
      PROVE  JobInv'
  <2>1. PICK p \in Places \ {"new", "send", "will_send"} : pc' = [pc EXCEPT ![k] = p]
    BY <1>3 DEF Accept, Connect, Reject, PingReq, Leave, SubAck, Ack, Store, Send, Forget, Clean, Publish, Subscribe,
                Unsubscribe, Places
  <2>2. pc'[k] = p /\ \A j \in Conns \ {k} : pc'[j] = pc[j]
    BY <2>1 DEF BrokerTypes
  <2>3. \A j \in Conns \ {k} : job'[j] = job[j] /\ asked'[j] = asked[j]
    BY <1>3 DEF Accept, Connect, Reject, PingReq, Leave, SubAck, Ack, Store, Send, Forget, Clean, Publish, Subscribe,
                Unsubscribe, BrokerTypes, ghosts
  <2>4. p = "accepted" => pc[k] = "new" /\ asked' = asked
    <3>1. CASE Accept(k)
      BY <3>1 DEF Accept, ghosts
    <3>2. CASE ~Accept(k)
      BY <1>3, <2>1, <2>2, <3>2 DEF Connect, Reject, PingReq, Leave, SubAck, Ack, Store, Send, Forget, Clean, Publish,
                Subscribe, Unsubscribe, BrokerTypes
    <3>3. QED
      BY <3>1, <3>2
  <2>5. QED
    BY <2>1, <2>2, <2>3, <2>4 DEF JobInv
<1>4. QED
  BY <1>1, <1>2, <1>3 DEF Next, ConnStep

(* Once every connection has ended, however connections of one client replaced
   each other: no subscription and no counted connection is left, and no session
   but those of connections that ended before their loop began.             *)
THEOREM NothingIsLeft == Spec => []NoResidue
<1> DEFINE Inv == BrokerTypes /\ ResidueInv
<1>1. Init => Inv
  <2> SUFFICES ASSUME Init PROVE Inv
    OBVIOUS
  <2>1. BrokerTypes
    BY FS_EmptySet DEF Init, BrokerTypes, Places
  <2>2. Open = {}
    BY DEF Init, Open
  <2>3. ResidueInv
    BY <2>2, FS_EmptySet DEF Init, ResidueInv, SessionInv
  <2>4. QED
    BY <2>1, <2>3
<1>2. Inv /\ [Next]_vars => Inv'
  BY TypesKept, ResidueStep
<1>3. Inv => NoResidue
  <2> SUFFICES ASSUME Inv, \A k \in Conns : pc[k] \in {"new", "closed"}
               PROVE  trie = {} /\ active = 0 /\ \A c \in Clients : sessions[c] \in {NoConn} \cup leaked
    BY DEF NoResidue
  <2>1. Open = {}
    BY DEF Open
  <2>2. active = 0
    BY <2>1, FS_EmptySet DEF ResidueInv
  <2>3. \A k \in Conns : ~Serving(k)
    BY DEF Serving
  <2>4. trie = {}
    BY <2>3 DEF ResidueInv
  <2>5. \A c \in Clients : sessions[c] \in {NoConn} \cup leaked
    BY <2>3 DEF ResidueInv, SessionInv
  <2>6. QED
    BY <2>2, <2>4, <2>5
<1>4. QED
  BY <1>1, <1>2, <1>3, PTL DEF Spec

-----------------------------------------------------------------------------
(* Retained messages.                                                       *)

(* What happens elsewhere while the task x takes a step.                    *)
Aside(x) ==
  /\ client' = client
  /\ \A j \in Conns \ {x} : pc'[j] = pc[j] /\ job'[j] = job[j]
  /\ \A j \in Conns : offered[j] \subseteq offered'[j]

(* A message that was wanted before is still given or brought, unless x itself
   brought it.                                                              *)
LEMMA Onward ==
  ASSUME RetainedInv, NEW x \in Conns, Aside(x), NEW k \in Conns, NEW t \in Topics, NEW f \in asked[k],
         Wanted(k, t, f), retained'[t] = retained[t]
  PROVE  Given(k, t)' \/ (\E j \in Conns : Brings(j, k, t, f)') \/ Brings(x, k, t, f)
<1>1. Given(k, t) \/ \E j \in Conns : Brings(j, k, t, f)
  BY DEF RetainedInv
<1>2. CASE Given(k, t)
  BY <1>2 DEF Given, Aside
<1>3. ASSUME NEW j \in Conns, Brings(j, k, t, f), j # x PROVE Brings(j, k, t, f)'
  BY <1>3 DEF Brings, Aside
<1>4. QED
  BY <1>1, <1>2, <1>3

(* A step that brings nothing and makes nothing wanted.                     *)
LEMMA PassingBy ==
  ASSUME RetainedInv, NEW x \in Conns, Aside(x),
         pc[x] \notin {"match", "will_match", "send", "will_send", "suback"},
         retained' = retained, asked' = asked,
         \A k \in Conns, t \in Topics : \A f \in asked[k] : Wanted(k, t, f)' => Wanted(k, t, f)
  PROVE  RetainedInv'
<1>1. ASSUME NEW k \in Conns, NEW t \in Topics, NEW f \in asked[k], Wanted(k, t, f)'
      PROVE  Given(k, t)' \/ \E j \in Conns : Brings(j, k, t, f)'
  <2>1. Wanted(k, t, f)
    BY <1>1
  <2>2. ~Brings(x, k, t, f)
    BY DEF Brings
  <2>3. QED
    BY <2>1, <2>2, Onward
<1>2. QED
  BY <1>1 DEF RetainedInv

(* A publisher has stored its message: it brings it now, whatever was retained
   before.                                                                  *)
LEMMA StoreBrings ==
  ASSUME BrokerTypes, RetainedInv, NEW x \in Conns, Store(x)
  PROVE  RetainedInv'
<1>1. /\ pc[x] \in {"store", "will_store"} /\ retained' = Stored(job[x]) /\ DOMAIN retained = Topics
      /\ UNCHANGED <<client, job, sessions, trie, asked, offered>>
  BY DEF Store, BrokerTypes, conn, ghosts
<1>2. pc'[x] \in {"match", "will_match"} /\ \A j \in Conns \ {x} : pc'[j] = pc[j]
  BY DEF Store, BrokerTypes
<1>3. Aside(x)
  BY <1>1, <1>2 DEF Aside
<1>4. \A t \in Topics : retained'[t] = retained[t] \/ (job[x].topic = t /\ job[x].payload = retained'[t])
  BY <1>1 DEF Stored
<1>5. ASSUME NEW k \in Conns, NEW t \in Topics, NEW f \in asked[k], Wanted(k, t, f)'
      PROVE  Given(k, t)' \/ \E j \in Conns : Brings(j, k, t, f)'
  <2>1. CASE retained'[t] = retained[t]
    <3>1. Wanted(k, t, f)
      BY <1>1, <1>5, <2>1 DEF Wanted, Subscribed
    <3>2. ~Brings(x, k, t, f)
      BY <1>1 DEF Brings
    <3>3. QED
      BY <1>3, <2>1, <3>1, <3>2, Onward
  <2>2. CASE job[x].topic = t /\ job[x].payload = retained'[t]
    <3>1. Brings(x, k, t, f)'
      BY <1>1, <1>2, <2>2 DEF Brings
    <3>2. QED
      BY <3>1
  <2>3. QED
    BY <1>4, <2>1, <2>2
<1>6. QED
  BY <1>1, <1>5 DEF RetainedInv

(* It has copied the subscriptions: the one that wants the message is among
   them, because the trie finds what the retained store selects.            *)
LEMMA MatchBrings ==
  ASSUME MatchersAgree(Filters, Topics), BrokerTypes, RetainedInv, NEW x \in Conns, Match(x)
  PROVE  RetainedInv'
<1> DEFINE H == {s \in trie : PlaceMatches(s.place, job[x].topic)}
<1>1. /\ pc[x] \in {"match", "will_match"} /\ job' = [job EXCEPT ![x] = [m |-> job[x], hits |-> H]]
      /\ UNCHANGED <<client, retained, sessions, trie, asked, offered>>
  BY DEF Match, conn, ghosts, tables
<1>2. /\ pc'[x] \in {"send", "will_send"} /\ \A j \in Conns \ {x} : pc'[j] = pc[j]
  BY DEF Match, BrokerTypes
<1> HIDE DEF H
<1>3. job'[x].m = job[x] /\ job'[x].hits = H /\ \A j \in Conns \ {x} : job'[j] = job[j]
  BY <1>1 DEF BrokerTypes
<1>4. Aside(x)
  BY <1>1, <1>2, <1>3 DEF Aside
<1>5. ASSUME NEW k \in Conns, NEW t \in Topics, NEW f \in asked[k], Wanted(k, t, f)'
      PROVE  Given(k, t)' \/ \E j \in Conns : Brings(j, k, t, f)'
  <2>1. Wanted(k, t, f) /\ retained'[t] = retained[t]
    BY <1>1, <1>5 DEF Wanted, Subscribed
  <2>2. CASE Brings(x, k, t, f)
    <3>1. job[x].topic = t /\ job[x].payload = retained[t]
      BY <1>1, <2>2 DEF Brings
    <3>2. f \in Filters /\ Plain(f) /\ FilterMatches(f, t)
      BY <2>1 DEF Wanted, BrokerTypes
    <3>3. PlaceMatches(Place(f), t)
      BY <3>2 DEF MatchersAgree
    <3> DEFINE e == [place |-> Place(f), client |-> client[k]]
    <3>4. e \in trie /\ e.place = Place(f)
      BY <2>1 DEF Wanted, Subscribed
    <3> HIDE DEF e
    <3>5. e \in H
      BY <3>1, <3>3, <3>4 DEF H
    <3>6. Brings(x, k, t, f)'
      BY <1>1, <1>2, <1>3, <3>1, <3>5 DEF Brings, e
    <3>7. QED
      BY <3>6
  <2>3. QED
    BY <1>4, <2>1, <2>2, Onward
<1>6. QED
  BY <1>1, <1>5 DEF RetainedInv

(* It serves each copied subscription through the session its client has.   *)
LEMMA SendGives ==
  ASSUME BrokerTypes, JobInv, RetainedInv, NEW x \in Conns, Send(x)
  PROVE  RetainedInv'
<1> DEFINE m == [topic |-> job[x].m.topic, payload |-> job[x].m.payload]
           Copies(c) == [i \in 1 .. Cardinality({s \in job[x].hits : s.client = c}) |-> m]
           To(j) == IF j \in Conns /\ sessions[client[j]] = j THEN Copies(client[j]) ELSE <<>>
<1>1. /\ pc[x] \in {"send", "will_send"} /\ offered' = [j \in Conns |-> Note(j, To(j))[j]]
      /\ job' = [job EXCEPT ![x] = Idle]
      /\ UNCHANGED <<client, retained, sessions, trie, asked>>
  BY DEF Send, conn, tables
<1>2. \A j \in Conns \ {x} : pc'[j] = pc[j]
  BY DEF Send, BrokerTypes
<1> HIDE DEF To
<1>3. \A j \in Conns : offered'[j] = offered[j] \cup ToSet(To(j))
  <2>1. \A j \in Conns : j # NoConn /\ j \in DOMAIN offered
    BY BrokerAssumption DEF BrokerTypes
  <2>2. \A j \in Conns : Note(j, To(j)) = [offered EXCEPT ![j] = @ \cup ToSet(To(j))]
    BY <2>1 DEF Note
  <2>3. QED
    BY <1>1, <2>1, <2>2
<1>4. Aside(x)
  <2>1. \A j \in Conns \ {x} : job'[j] = job[j]
    BY <1>1 DEF BrokerTypes
  <2>2. QED
    BY <1>1, <1>2, <1>3, <2>1 DEF Aside
<1>5. ASSUME NEW k \in Conns, NEW t \in Topics, NEW f \in asked[k], Wanted(k, t, f)'
      PROVE  Given(k, t)' \/ \E j \in Conns : Brings(j, k, t, f)'
  <2>1. Wanted(k, t, f) /\ retained'[t] = retained[t]
    BY <1>1, <1>5 DEF Wanted, Subscribed
  <2>2. CASE Brings(x, k, t, f)
    <3> DEFINE e == [place |-> Place(f), client |-> client[k]]
    <3>1. job[x].m.topic = t /\ job[x].m.payload = retained[t] /\ e \in job[x].hits
      BY <1>1, <2>2 DEF Brings
    <3>2. e.client = client[k] /\ IsFiniteSet(job[x].hits)
      BY <1>1 DEF JobInv
    <3> HIDE DEF e
    <3>3. m \in ToSet(Copies(client[k]))
      <4> DEFINE hits == {s \in job[x].hits : s.client = client[k]}
                 n == Cardinality(hits)
      <4>1. e \in hits /\ IsFiniteSet(hits)
        BY <3>1, <3>2, FS_Subset
      <4> HIDE DEF hits
      <4>2. n \in Nat /\ n # 0
        BY <4>1, FS_CardinalityType, FS_EmptySet
      <4> HIDE DEF n, m
      <4>3. 1 \in 1 .. n
        BY <4>2
      <4>4. m \in ToSet([i \in 1 .. n |-> m])
        BY <4>3 DEF ToSet
      <4>5. QED
        BY <4>4 DEF hits, n
    <3>4. To(k) = Copies(client[k])
      BY <2>1 DEF To, Wanted
    <3>5. m \in offered'[k]
      BY <1>3, <3>3, <3>4
    <3>6. m = [topic |-> t, payload |-> retained'[t]]
      BY <2>1, <3>1
    <3>7. QED
      BY <3>5, <3>6 DEF Given
  <2>3. QED
    BY <1>4, <2>1, <2>2, Onward
<1>6. QED
  BY <1>1, <1>5 DEF RetainedInv

(* A subscription enters the trie: from now on it brings what it selects, also
   for a filter the client has asked for on the same place before.          *)
LEMMA SubscribeBrings ==
  ASSUME BrokerTypes, RetainedInv, NEW x \in Conns, NEW g \in Filters, Subscribe(x, g)
  PROVE  RetainedInv'
<1>1. /\ pc[x] = "loop" /\ trie' = trie \cup {[place |-> Place(g), client |-> client[x]]}
      /\ UNCHANGED <<client, retained, sessions, offered>>
  BY DEF Subscribe, Read, conn
<1>2. /\ pc'[x] = "suback" /\ \A j \in Conns \ {x} : pc'[j] = pc[j]
  BY DEF Subscribe, BrokerTypes
<1>3. job'[x].topic = g /\ \A j \in Conns \ {x} : job'[j] = job[j]
  BY DEF Subscribe, BrokerTypes
<1>4. asked'[x] = asked[x] \cup {g} /\ \A j \in Conns \ {x} : asked'[j] = asked[j]
  BY DEF Subscribe, BrokerTypes
<1>5. Aside(x)
  BY <1>1, <1>2, <1>3 DEF Aside
<1>6. ASSUME NEW k \in Conns, NEW t \in Topics, NEW f \in asked'[k], Wanted(k, t, f)'
      PROVE  Given(k, t)' \/ \E j \in Conns : Brings(j, k, t, f)'
  <2> DEFINE e == [place |-> Place(f), client |-> client[k]]
             d == [place |-> Place(g), client |-> client[x]]
  <2>1. CASE e = d
    <3>1. Place(f) = Place(g) /\ client[k] = client[x]
      <4>1. e.place = d.place /\ e.client = d.client
        BY <2>1
      <4>2. QED
        BY <4>1
    <3>2. Brings(x, k, t, f)'
      BY <1>1, <1>2, <1>3, <3>1 DEF Brings
    <3>3. QED
      BY <3>2
  <2>2. CASE e # d
    <3>1. f \in asked[k]
      BY <1>4, <2>2
    <3>2. e \in trie
      BY <1>1, <1>6, <2>2 DEF Wanted, Subscribed
    <3>3. Wanted(k, t, f) /\ retained'[t] = retained[t]
      BY <1>1, <1>6, <3>2 DEF Wanted, Subscribed
    <3>4. ~Brings(x, k, t, f)
      BY <1>1 DEF Brings
    <3>5. QED
      BY <1>5, <3>1, <3>3, <3>4, Onward
  <2>3. QED
    BY <2>1, <2>2
<1>7. QED
  BY <1>6 DEF RetainedInv

(* Its answer is followed by what the store holds, sent to the session of the
   client.                                                                  *)
LEMMA SubAckGives ==
  ASSUME MatchersAgree(Filters, Topics), BrokerTypes, RetainedInv, NEW x \in Conns, SubAck(x)
  PROVE  RetainedInv'
<1> DEFINE s == sessions[client[x]]
           ms == <<[ack |-> "suback"]>> \o RetainedFor(job[x].topic)
<1>1. /\ pc[x] = "suback" /\ offered' = Note(s, ms)
      /\ UNCHANGED <<client, retained, sessions, trie, asked>>
  BY DEF SubAck, conn, tables
<1>2. /\ \A j \in Conns \ {x} : pc'[j] = pc[j] /\ job'[j] = job[j]
  BY DEF SubAck, BrokerTypes
<1> HIDE DEF ms
<1>3. \A j \in Conns : offered[j] \subseteq offered'[j] /\ (j = s => ToSet(ms) \subseteq offered'[j])
  BY <1>1, BrokerAssumption DEF Note, BrokerTypes
<1>4. Aside(x)
  BY <1>1, <1>2, <1>3 DEF Aside
<1>5. ASSUME NEW k \in Conns, NEW t \in Topics, NEW f \in asked[k], Wanted(k, t, f)'
      PROVE  Given(k, t)' \/ \E j \in Conns : Brings(j, k, t, f)'
  <2>1. Wanted(k, t, f) /\ retained'[t] = retained[t]
    BY <1>1, <1>5 DEF Wanted, Subscribed
  <2>2. CASE Brings(x, k, t, f)
    <3>1. client[x] = client[k] /\ job[x].topic \in Filters /\ Place(job[x].topic) = Place(f)
      BY <1>1, <2>2 DEF Brings
    <3>2. f \in Filters /\ Plain(f) /\ FilterMatches(f, t) /\ retained[t] # NoPayload /\ k = s
      BY <2>1, <3>1 DEF Wanted, BrokerTypes
    <3>3. FilterMatches(job[x].topic, t)
      BY <3>1, <3>2 DEF MatchersAgree
    <3>4. [topic |-> t, payload |-> retained[t]] \in ToSet(ms)
      BY <3>2, <3>3, SubAckOffers DEF ms
    <3>5. QED
      BY <1>3, <2>1, <3>2, <3>4 DEF Given
  <2>3. QED
    BY <1>4, <2>1, <2>2, Onward
<1>6. QED
  BY <1>1, <1>5 DEF RetainedInv

(* What a step of the other kinds leaves of the sessions and of the trie is what
   was there, but for the session of a connection that has asked for nothing. *)
LEMMA NothingNew ==
  ASSUME BrokerTypes, JobInv, RetainedInv, NEW x \in Conns,
         \/ Accept(x) \/ Connect(x) \/ Reject(x) \/ PingReq(x) \/ Leave(x) \/ Ack(x) \/ Forget(x) \/ Clean(x)
         \/ \E m \in Messages : Publish(x, m)
         \/ \E f \in Filters : Unsubscribe(x, f)
  PROVE  RetainedInv'
<1>1. /\ pc[x] \in {"new", "accepted", "loop", "ack", "remove", "clean"}
      /\ UNCHANGED <<client, retained, asked, offered>>
  BY DEF Accept, Connect, Reject, PingReq, Leave, Ack, Forget, Clean, Publish, Unsubscribe, Read, conn, tables, ghosts
<1>2. \A j \in Conns \ {x} : pc'[j] = pc[j]
  BY DEF Accept, Connect, Reject, PingReq, Leave, Ack, Forget, Clean, Publish, Unsubscribe, BrokerTypes
<1>3. \A j \in Conns \ {x} : job'[j] = job[j]
  BY DEF Accept, Connect, Reject, PingReq, Leave, Ack, Forget, Clean, Publish, Unsubscribe, BrokerTypes
<1>4. Aside(x)
  BY <1>1, <1>2, <1>3 DEF Aside
<1>5. trie' \subseteq trie
  BY DEF Accept, Connect, Reject, PingReq, Leave, Ack, Forget, Clean, Publish, Unsubscribe, tables
<1>6. ASSUME NEW k \in Conns, NEW f \in asked[k], sessions'[client[k]] = k PROVE sessions[client[k]] = k
  <2>1. CASE Connect(x)
    <3>1. k # x
      BY <2>1 DEF Connect, JobInv
    <3>2. QED
      BY <1>6, <2>1, <3>1 DEF Connect, BrokerTypes
  <2>2. CASE Forget(x)
    BY <1>6, <2>2, BrokerAssumption DEF Forget, BrokerTypes
  <2>3. CASE ~Connect(x) /\ ~Forget(x)
    <3>1. sessions' = sessions
      BY <2>3 DEF Accept, Reject, PingReq, Leave, Ack, Clean, Publish, Unsubscribe, tables
    <3>2. QED
      BY <1>6, <3>1
  <2>4. QED
    BY <2>1, <2>2, <2>3
<1>7. \A k \in Conns, t \in Topics : \A f \in asked[k] : Wanted(k, t, f)' => Wanted(k, t, f)
  BY <1>1, <1>5, <1>6 DEF Wanted, Subscribed
<1>8. QED
  BY <1>1, <1>4, <1>7, PassingBy

(* Every step keeps the wanted messages given or on their way.              *)
LEMMA RetainedStep ==
  ASSUME MatchersAgree(Filters, Topics), BrokerTypes, JobInv, RetainedInv, [Next]_vars
  PROVE  RetainedInv'
<1>1. CASE UNCHANGED vars \/ Cancel \/ \E k \in Conns : Write(k)
  <2>1. UNCHANGED <<pc, client, job, sessions, trie, retained, asked, offered>>
    BY <1>1 DEF vars, conn, tables, ghosts, Cancel, Write
  <2>2. QED
    BY <2>1 DEF RetainedInv, Wanted, Subscribed, Given, Brings
<1>2. ASSUME NEW k \in Conns, Store(k) PROVE RetainedInv'
  BY <1>2, StoreBrings
<1>3. ASSUME NEW k \in Conns, Match(k) PROVE RetainedInv'
  BY <1>3, MatchBrings
<1>4. ASSUME NEW k \in Conns, Send(k) PROVE RetainedInv'
  BY <1>4, SendGives
<1>5. ASSUME NEW k \in Conns, NEW f \in Filters, Subscribe(k, f) PROVE RetainedInv'
  BY <1>5, SubscribeBrings
<1>6. ASSUME NEW k \in Conns, SubAck(k) PROVE RetainedInv'
  BY <1>6, SubAckGives
<1>7. ASSUME NEW k \in Conns,
             \/ Accept(k) \/ Connect(k) \/ Reject(k) \/ PingReq(k) \/ Leave(k) \/ Ack(k) \/ Forget(k) \/ Clean(k)
             \/ \E m \in Messages : Publish(k, m)
             \/ \E f \in Filters : Unsubscribe(k, f)
      PROVE  RetainedInv'
  BY <1>7, NothingNew
<1>8. QED
  BY <1>1, <1>2, <1>3, <1>4, <1>5, <1>6, <1>7 DEF Next, ConnStep

(* Wherever publisher and subscriber interleave, a retained message is put to the
   subscriber: handle_publish_inner stores before it matches, handle_subscribe
   enters the trie before it reads the store.  The hypothesis is that the trie
   and the retained store agree on the filters in use (TopicTrie).          *)
THEOREM RetainedArrives ==
  ASSUME MatchersAgree(Filters, Topics)
  PROVE  Spec => []RetainedReaches
<1> DEFINE Inv == BrokerTypes /\ JobInv /\ RetainedInv
<1>1. Init => Inv
  <2> SUFFICES ASSUME Init PROVE Inv
    OBVIOUS
  <2>1. BrokerTypes
    BY FS_EmptySet DEF Init, BrokerTypes, Places
  <2>2. JobInv /\ RetainedInv
    BY DEF Init, JobInv, RetainedInv
  <2>3. QED
    BY <2>1, <2>2
<1>2. Inv /\ [Next]_vars => Inv'
  BY TypesKept, JobStep, RetainedStep
<1>3. Inv => RetainedReaches
  <2> SUFFICES ASSUME Inv, Quiet, NEW k \in Conns, NEW t \in Topics, NEW f \in asked[k], Wanted(k, t, f)
               PROVE  Given(k, t)
    BY DEF RetainedReaches, Wanted, Given
  <2>1. \A j \in Conns : ~Brings(j, k, t, f)
    BY DEF Quiet, Brings
  <2>2. QED
    BY <2>1 DEF RetainedInv
<1>4. QED
  BY <1>1, <1>2, <1>3, PTL DEF Spec

(* How many the first m numbers are.                                        *)
LEMMA Upto ==
  ASSUME NEW m \in Nat
  PROVE  Cardinality(1 .. m) = m
BY FS_Interval

(* Levels without wildcards are the path of their own trie node.            *)
LEMMA PlainPath ==
  ASSUME NEW L, NEW s \in Seq(L), \A i \in 1 .. Len(s) : s[i] \notin {"+", "#"}
  PROVE  NodePath(s) = s
<1> DEFINE kept == {i \in DOMAIN s : s[i] \notin {"+", "#"}}
<1>1. kept = 1 .. Len(s) /\ Len(s) \in Nat
  OBVIOUS
<1>2. Cardinality(kept) = Len(s)
  BY <1>1, Upto
<1>3. ASSUME NEW i \in kept PROVE Cardinality({j \in kept : j <= i}) = i
  <2>1. {j \in kept : j <= i} = 1 .. i /\ i \in Nat
    BY <1>1
  <2>2. QED
    BY <2>1, Upto
<1> DEFINE At(k) == CHOOSE i \in kept : Cardinality({j \in kept : j <= i}) = k
<1>4. ASSUME NEW k \in 1 .. Len(s) PROVE At(k) = k
  <2>1. k \in kept /\ Cardinality({j \in kept : j <= k}) = k
    BY <1>1, <1>3
  <2> HIDE DEF kept
  <2>2. At(k) \in kept /\ Cardinality({j \in kept : j <= At(k)}) = k
    BY <2>1
  <2> HIDE DEF At
  <2>3. Cardinality({j \in kept : j <= At(k)}) = At(k)
    BY <1>3, <2>2
  <2>4. QED
    BY <2>2, <2>3
<1>5. NodePath(s) = [k \in 1 .. Cardinality(kept) |-> s[At(k)]]
  BY DEF NodePath
<1> HIDE DEF kept, At
<1>6. NodePath(s) = [k \in 1 .. Len(s) |-> s[k]]
  BY <1>2, <1>4, <1>5
<1>7. QED
  BY <1>6

(* What topic_matches_filter, which selects retained messages, asks of the
   levels of a topic.                                                       *)
LEMMA FilterIs ==
  ASSUME NEW L, NEW f \in WellFormed(L), NEW t \in Seq(L)
  PROVE  /\ Last(f) = "#" => (FilterMatches(f, t) <=> Len(t) >= Len(f) - 1 /\ \A i \in 1 .. Len(f) - 1 : f[i] \in {"+", t[i]})
         /\ Last(f) # "#" => (FilterMatches(f, t) <=> Len(t) = Len(f) /\ \A i \in 1 .. Len(f) : f[i] \in {"+", t[i]})
<1>1. f \in Seq(L) /\ f # <<>> /\ Len(f) \in Nat \ {0} /\ DOMAIN f = 1 .. Len(f) /\ Len(t) \in Nat
      /\ \A i \in 1 .. Len(f) - 1 : f[i] # "#"
  BY DEF WellFormed
<1> DEFINE stop == {i \in DOMAIN f : f[i] = "#"}
           n == IF stop = {} THEN Len(f) ELSE (CHOOSE i \in stop : \A j \in stop : i <= j) - 1
<1>2. FilterMatches(f, t) <=> Len(t) >= n /\ (stop = {} => Len(t) = n) /\ \A i \in 1 .. n : f[i] \in {"+", t[i]}
  BY DEF FilterMatches
<1>3. CASE Last(f) = "#"
  <2>1. stop = {Len(f)}
    BY <1>1, <1>3 DEF Last
  <2>2. n = Len(f) - 1
    BY <1>1, <2>1
  <2> HIDE DEF stop, n
  <2>3. QED
    BY <1>1, <1>2, <1>3, <2>1, <2>2
<1>4. CASE Last(f) # "#"
  <2>1. stop = {}
    BY <1>1, <1>4 DEF Last
  <2>2. n = Len(f)
    BY <2>1
  <2> HIDE DEF stop, n
  <2>3. QED
    BY <1>1, <1>2, <1>4, <2>1, <2>2
<1>5. QED
  BY <1>3, <1>4

(* The place of a plain filter in the trie is found by match_topic for exactly
   the topics that topic_matches_filter accepts.                            *)
LEMMA PlaceIsFilter ==
  ASSUME NEW L, NEW f \in WellFormed(L), Plain(f), NEW t \in Seq(L)
  PROVE  PlaceMatches(Place(f), t) <=> FilterMatches(f, t)
<1>1. f \in Seq(L) /\ f # <<>> /\ Len(f) \in Nat \ {0} /\ DOMAIN f = 1 .. Len(f) /\ Len(t) \in Nat /\ DOMAIN t = 1 .. Len(t)
      /\ \A i \in 1 .. Len(f) - 1 : f[i] # "#"
  BY DEF WellFormed
<1>2. CASE Last(f) = "#"
  <2>1. \A i \in 1 .. Len(f) : f[i] # "+"
    BY <1>2 DEF Plain, Contains
  <2>2. PICK g : g = Front(f)
    OBVIOUS
  <2>3. g \in Seq(L) /\ Len(g) = Len(f) - 1 /\ \A i \in 1 .. Len(f) - 1 : g[i] = f[i]
    BY <1>1, <2>2 DEF Front
  <2>4. NodePath(g) = g
    <3>1. \A i \in 1 .. Len(g) : g[i] \notin {"+", "#"}
      BY <1>1, <2>1, <2>3
    <3>2. QED
      BY <2>3, <3>1, PlainPath
  <2>5. Place(f).kind = "multi" /\ Place(f).path = g
    BY <1>2, <2>2, <2>4 DEF Place
  <2>6. PlaceMatches(Place(f), t) <=> IsPrefix(g, t)
    BY <2>5 DEF PlaceMatches
  <2>7. IsPrefix(g, t) <=> Len(g) <= Len(t) /\ \A i \in 1 .. Len(g) : g[i] = t[i]
    <3>1. CASE Len(g) <= Len(t)
      <4>1. SubSeq(g, 1, Len(g)) = g
        BY <2>3
      <4>2. SubSeq(t, 1, Len(g)) \in Seq(L) /\ Len(SubSeq(t, 1, Len(g))) = Len(g) /\ \A i \in 1 .. Len(g) : SubSeq(t, 1, Len(g))[i] = t[i]
        BY <1>1, <2>3, <3>1
      <4>3. g = SubSeq(t, 1, Len(g)) <=> \A i \in 1 .. Len(g) : g[i] = t[i]
        BY <2>3, <4>2, SeqEqual
      <4>4. QED
        BY <3>1, <4>1, <4>3 DEF IsPrefix
    <3>2. CASE ~(Len(g) <= Len(t))
      BY <3>2 DEF IsPrefix
    <3>3. QED
      BY <3>1, <3>2
  <2>8. FilterMatches(f, t) <=> Len(t) >= Len(f) - 1 /\ \A i \in 1 .. Len(f) - 1 : f[i] \in {"+", t[i]}
    BY <1>2, FilterIs
  <2>9. \A i \in 1 .. Len(f) - 1 : f[i] \in {"+", t[i]} <=> g[i] = t[i]
    BY <1>1, <2>1, <2>3
  <2>10. QED
    BY <1>1, <2>3, <2>6, <2>7, <2>8, <2>9
<1>3. CASE Last(f) # "#" /\ Contains(f, "+")
  <2>1. Place(f).kind = "wild" /\ Place(f).path = f
    BY <1>3 DEF Place
  <2>2. PlaceMatches(Place(f), t) <=> SingleMatch(f, t)
    BY <2>1 DEF PlaceMatches
  <2>3. FilterMatches(f, t) <=> Len(t) = Len(f) /\ \A i \in 1 .. Len(f) : f[i] \in {"+", t[i]}
    BY <1>3, FilterIs
  <2>4. QED
    BY <1>1, <2>2, <2>3 DEF SingleMatch
<1>4. CASE Last(f) # "#" /\ ~Contains(f, "+")
  <2>1. \A i \in 1 .. Len(f) : f[i] \notin {"+", "#"}
    BY <1>1, <1>4 DEF Contains, Last
  <2>2. NodePath(f) = f
    BY <1>1, <2>1, PlainPath
  <2>3. Place(f).kind = "exact" /\ Place(f).path = f
    BY <1>4, <2>2 DEF Place
  <2>4. PlaceMatches(Place(f), t) <=> f = t
    BY <2>3 DEF PlaceMatches
  <2>5. f = t <=> Len(f) = Len(t) /\ \A i \in 1 .. Len(f) : f[i] = t[i]
    BY <1>1, SeqEqual
  <2>6. FilterMatches(f, t) <=> Len(t) = Len(f) /\ \A i \in 1 .. Len(f) : f[i] \in {"+", t[i]}
    BY <1>4, FilterIs
  <2>7. QED
    BY <2>1, <2>4, <2>5, <2>6
<1>5. QED
  BY <1>2, <1>3, <1>4

(* match_topic and topic_matches_filter select alike for all plain filters, `#`
   last or absent, of any length and over any levels; and two plain filters
   that share a place in the trie accept the same topics.                   *)
THEOREM PlainAgree ==
  ASSUME NEW L, NEW F \in SUBSET WellFormed(L), \A f \in F : Plain(f), NEW T \in SUBSET Seq(L)
  PROVE  MatchersAgree(F, T)
<1> SUFFICES ASSUME NEW f \in F, NEW t \in T, FilterMatches(f, t)
             PROVE  PlaceMatches(Place(f), t) /\ \A g \in F : Place(g) = Place(f) => FilterMatches(g, t)
  BY DEF MatchersAgree
<1>1. \A g \in F : PlaceMatches(Place(g), t) <=> FilterMatches(g, t)
  BY PlaceIsFilter
<1>2. QED
  BY <1>1

(* What match_topic finds for a client among its plain subscriptions is what
   topic_matches_filter would select, in every reachable state of the trie. *)
THEOREM TrieFindsAlike ==
  ASSUME NEW L, Filters \subseteq WellFormed(L), Probes \subseteq Seq(L)
  PROVE  Spec => []TrieAgrees
<1>1. TrieAgrees
  <2> SUFFICES ASSUME NEW c \in Clients, NEW t \in Probes
               PROVE  LET held == {f \in Filters : Plain(f) /\ Subscribed(c, f)}
                          hung == {entry \in trie : entry.client = c /\ entry.place \in {Place(f) : f \in held}}
                      IN  (\E entry \in hung : PlaceMatches(entry.place, t)) <=> \E f \in held : FilterMatches(f, t)
    BY DEF TrieAgrees
  <2> DEFINE held == {f \in Filters : Plain(f) /\ Subscribed(c, f)}
             hung == {entry \in trie : entry.client = c /\ entry.place \in {Place(f) : f \in held}}
  <2>1. \A f \in held : PlaceMatches(Place(f), t) <=> FilterMatches(f, t)
    BY PlaceIsFilter
  <2>2. ASSUME NEW entry \in hung, PlaceMatches(entry.place, t) PROVE \E f \in held : FilterMatches(f, t)
    <3>1. PICK f \in held : entry.place = Place(f)
      OBVIOUS
    <3>2. QED
      BY <2>1, <2>2, <3>1
  <2>3. ASSUME NEW f \in held, FilterMatches(f, t) PROVE \E entry \in hung : PlaceMatches(entry.place, t)
    <3>1. PICK e : e = [place |-> Place(f), client |-> c]
      OBVIOUS
    <3>2. e \in hung /\ e.place = Place(f)
      BY <3>1 DEF Subscribed
    <3>3. QED
      BY <2>1, <2>3, <3>2
  <2>4. QED
    BY <2>2, <2>3
<1>2. QED
  BY <1>1, PTL

(* The same for plain filters, whatever their levels: no hypothesis on the two
   matchers is left (publish and retained.rs, get_retained_messages).       *)
COROLLARY PlainRetainedArrives ==
  ASSUME NEW L, NEW F \in SUBSET WellFormed(L), Filters = F, \A f \in Filters : Plain(f), Topics \in SUBSET Seq(L)
  PROVE  Spec => []RetainedReaches
<1>1. MatchersAgree(Filters, Topics)
  BY PlainAgree
<1>2. QED
  BY <1>1, RetainedArrives
=============================================================================
