--------------------------- MODULE MessagingProofs ---------------------------
(***************************************************************************)
(* How messages get from node to node: the flow of NodeMessaging loses no  *)
(* message, for any nodes, wires and queue capacity, and the link call     *)
(* nodes implement the abstract call of LinkCall, for any nodes, any       *)
(* number of targets and any number of calls and copies.                   *)
(***************************************************************************)
EXTENDS NodeMessaging, LinkNodes, SequenceTheorems, FiniteSetTheorems, TLAPS

---------------------------------------------------------------------------
(* NodeMessaging.  What the variables hold.                                *)

\* What the tasks, queues and locks hold.
Message == [org : Origins, readers : SUBSET Holders, line : Seq(Lockers)]
Counters == [Origins -> Nat]
OutTyped(n) ==
  /\ DOMAIN out[n] \subseteq Ports(n) /\ out[n] = [p \in DOMAIN out[n] |-> out[n][p]]
  /\ \A p \in DOMAIN out[n] : out[n][p] \in [h : 0 .. Len(heap), next : 1 .. Len(Wires[n][p])]
  /\ DOMAIN out[n] # {} => pc[n] = "fan"
Controls ==
  pc \in [Nodes -> States] /\ idx \in [Nodes -> Nat \ {0}] /\ err \in [Nodes -> BOOLEAN] /\ cancelled \in BOOLEAN
HandlesTyped ==
  /\ msg \in [Nodes -> 0 .. Len(heap)] /\ copy \in [Nodes -> 0 .. Len(heap)]
  /\ \A n \in Nodes : pc[n] \notin {"recv", "stopped"} => msg[n] # 0
QueuesTyped == queue \in [Nodes -> Seq(Handles)] /\ \A n \in Nodes : Len(queue[n]) <= Cap
OutsTyped == DOMAIN out = Nodes /\ \A n \in Nodes : OutTyped(n)
CountsTyped ==
  /\ origin \in Seq(Nodes) /\ Len(origin) <= MaxMsgs
  /\ taken \in [Nodes -> Counters] /\ failed \in [Nodes -> Counters]
  /\ DOMAIN routed = Nodes /\ \A n \in Nodes : routed[n] \in [Ports(n) -> Counters]
MsgTypes == heap \in Seq(Message) /\ Controls /\ HandlesTyped /\ QueuesTyped /\ OutsTyped /\ CountsTyped

\* The injected message that a node works on.
Org(n) == heap[msg[n]].org
Busy(n, o) == pc[n] \notin {"recv", "stopped"} /\ Org(n) = o
Bit(b) == IF b THEN 1 ELSE 0

\* How much of what a slot owes has been put into the queue of its node: all of it but for
\* the unit of work under way.
SourceDone(n, o) == Bit(o \in DOMAIN origin /\ origin[o] = n)
WireOpen(u, p, i, o) ==
  Busy(u, o) /\ \/ pc[u] \in {"lock", "work"} /\ u \notin Holders /\ p = 1
                \/ p \in DOMAIN out[u] /\ i >= out[u][p].next
WireDone(u, p, i, o) ==
  (IF u \in Holders THEN routed[u][p][o] ELSE IF p = 1 THEN taken[u][o] - failed[u][o] ELSE 0) - Bit(WireOpen(u, p, i, o))
CatchOpen(u, i, o) == Busy(u, o) /\ pc[u] = "catch" /\ i >= idx[u]
CatchDone(u, i, o) == failed[u][o] - Bit(CatchOpen(u, i, o))
CompleteOpen(u, i, o) == Busy(u, o) /\ (pc[u] = "complete" => i >= idx[u])
CompleteDone(u, i, o) == taken[u][o] - Bit(CompleteOpen(u, i, o))
Done(s, o) ==
  CASE s[2] = "source" -> SourceDone(s[1], o)
    [] s[2] = "wire" -> WireDone(s[1], s[3], s[4], o)
    [] s[2] = "catch" -> CatchDone(s[1], s[4], o)
    [] s[2] = "complete" -> CompleteDone(s[1], s[4], o)

\* The books of node n for the message o: what its slots have put into its queue is what it
\* has taken and what still waits.
Settled(n, o) == UNION {{s} \X (1 .. Done(s, o)) : s \in Slots(n)}
Waiting(n, o) == {i \in DOMAIN queue[n] : heap[queue[n][i]].org = o}
Balance(n, o) ==
  /\ \A s \in Slots(n) : Done(s, o) \in Nat
  /\ IsFiniteSet(Settled(n, o))
  /\ Cardinality(Settled(n, o)) = taken[n][o] + Cardinality(Waiting(n, o))

\* The unit of work of a node of a flow that is not stopped. An error is pending only on
\* its way to the catch nodes, what is sent and copied descends from the message the node
\* works on, a copy has a listener, and the search for catch nodes has not been broken off.
UnitInv(n) ==
  /\ pc[n] # "stopped" /\ (err[n] => pc[n] = "catch")
  /\ pc[n] \in {"catch", "complete"} => n \notin NoUow
  /\ pc[n] \notin {"catch", "complete"} => idx[n] = 1 /\ copy[n] = 0
  /\ copy[n] # 0 => Listening(n) /\ heap[copy[n]].org = Org(n)
  /\ \A p \in DOMAIN out[n] : out[n][p].h # 0 => heap[out[n][p].h].org = Org(n)
  /\ pc[n] = "catch" => \A j \in 1 .. idx[n] - 1 : ~UncaughtStops(n, j)

---------------------------------------------------------------------------
(* The heap: the messages keep their origins.                              *)

\* The new heap: messages are added and keep their origins.
HeapOk ==
  /\ heap' \in Seq(Message) /\ Len(heap') >= Len(heap)
  /\ \A h \in 1 .. Len(heap) : heap'[h].org = heap[h].org

\* A message of the heap gets another lock state.
LEMMA HeapUpdated ==
  ASSUME NEW g \in Seq(Message), NEW h \in 1 .. Len(g), NEW m \in Message, m.org = g[h].org
  PROVE  /\ [g EXCEPT ![h] = m] \in Seq(Message) /\ Len([g EXCEPT ![h] = m]) = Len(g)
         /\ \A i \in 1 .. Len(g) : [g EXCEPT ![h] = m][i].org = g[i].org
<1>1. [g EXCEPT ![h] = m] \in Seq(Message) /\ Len([g EXCEPT ![h] = m]) = Len(g)
  OBVIOUS
<1>2. \A i \in 1 .. Len(g) : [g EXCEPT ![h] = m][i] = IF i = h THEN m ELSE g[i]
  OBVIOUS
<1>3. QED
  BY <1>1, <1>2

\* A new message is put at the end of the heap and descends from origin o.
LEMMA HeapAppended ==
  ASSUME NEW g \in Seq(Message), NEW o \in Origins
  PROVE  /\ Append(g, NewMsg(o)) \in Seq(Message) /\ Len(Append(g, NewMsg(o))) = Len(g) + 1
         /\ \A i \in 1 .. Len(g) : Append(g, NewMsg(o))[i] = g[i]
         /\ Append(g, NewMsg(o))[Len(g) + 1].org = o
<1>1. NewMsg(o) \in Message /\ NewMsg(o).org = o
  BY DEF NewMsg, Message
<1>2. QED
  BY <1>1

\* A message with another line or other readers is a message of the same origin.
LEMMA Relined ==
  ASSUME NEW m \in Message, NEW l \in Seq(Lockers), NEW r \in SUBSET Holders
  PROVE  /\ [m EXCEPT !.line = l] \in Message /\ [m EXCEPT !.line = l].org = m.org
         /\ [m EXCEPT !.readers = r] \in Message /\ [m EXCEPT !.readers = r].org = m.org
         /\ [m EXCEPT !.readers = r, !.line = l] \in Message /\ [m EXCEPT !.readers = r, !.line = l].org = m.org
BY DEF Message

\* The line of a message after its head was served is a line of tasks.
LEMMA ServedIsLine ==
  ASSUME heap \in Seq(Message), NEW h \in 1 .. Len(heap)
  PROVE  Served(h) \in Seq(Lockers)
<1>1. heap[h] \in Message
  OBVIOUS
<1>2. heap[h].line \in Seq(Lockers)
  BY <1>1 DEF Message
<1>3. QED
  BY <1>2 DEF Served

\* The node that waits, or is about to step, has a message.
LEMMA HasMessage ==
  ASSUME MsgTypes, NEW n \in Nodes, pc[n] \notin {"recv", "stopped"}
  PROVE  msg[n] \in 1 .. Len(heap) /\ heap[msg[n]] \in Message /\ Org(n) \in Origins
<1>1. msg[n] \in 0 .. Len(heap) /\ msg[n] # 0 /\ heap \in Seq(Message)
  BY DEF MsgTypes, Controls, HandlesTyped, OutsTyped, CountsTyped
<1>2. msg[n] \in 1 .. Len(heap)
  BY <1>1
<1>3. heap[msg[n]] \in Message
  BY <1>1, <1>2
<1>4. QED
  BY <1>2, <1>3 DEF Message, Org

\* Wait: the task joins the line of its message.
LEMMA WaitHeap ==
  ASSUME MsgTypes, NEW t \in Lockers, Wait(t)
  PROVE  HeapOk /\ Len(heap') = Len(heap)
<1>1. PICK n \in Nodes : t \in {n} \X ({0} \cup Ports(n))
  BY DEF Lockers
<1>2. t[1] = n
  BY <1>1
<1>3. pc[n] \notin {"recv", "stopped"}
  BY <1>2 DEF Wait, WantsWrite, WantsRead, Listening, MsgTypes, OutsTyped, OutTyped
<1>4. msg[n] \in 1 .. Len(heap) /\ heap[msg[n]] \in Message /\ heap \in Seq(Message)
  BY <1>3, HasMessage DEF MsgTypes, Controls, HandlesTyped, OutsTyped, CountsTyped
<1>5. Append(heap[msg[n]].line, t) \in Seq(Lockers)
  BY <1>4 DEF Message
<1>6. heap' = [heap EXCEPT ![msg[n]] = [heap[msg[n]] EXCEPT !.line = Append(heap[msg[n]].line, t)]]
  BY <1>2 DEF Wait
<1> DEFINE m == [heap[msg[n]] EXCEPT !.line = Append(heap[msg[n]].line, t)]
<1>7. m \in Message /\ m.org = heap[msg[n]].org
  BY <1>4, <1>5, Relined
<1> HIDE DEF m
<1>8. heap' = [heap EXCEPT ![msg[n]] = m]
  BY <1>6 DEF m
<1>9. QED
  BY <1>4, <1>7, <1>8, HeapUpdated DEF HeapOk

\* Mutate: the line of the message of n is served.
LEMMA MutateHeap ==
  ASSUME MsgTypes, NEW n \in Nodes, pc[n] \notin {"recv", "stopped"}, heap' = [heap EXCEPT ![msg[n]].line = Served(msg[n])]
  PROVE  HeapOk /\ Len(heap') = Len(heap)
<1>1. msg[n] \in 1 .. Len(heap) /\ heap[msg[n]] \in Message /\ heap \in Seq(Message)
  BY HasMessage DEF MsgTypes, Controls, HandlesTyped, OutsTyped, CountsTyped
<1>2. Served(msg[n]) \in Seq(Lockers)
  BY <1>1, ServedIsLine
<1> DEFINE m == [heap[msg[n]] EXCEPT !.line = Served(msg[n])]
<1>3. m \in Message /\ m.org = heap[msg[n]].org
  BY <1>1, <1>2, Relined
<1>4. heap' = [heap EXCEPT ![msg[n]] = m]
  OBVIOUS
<1> HIDE DEF m
<1>5. QED
  BY <1>1, <1>3, <1>4, HeapUpdated DEF HeapOk

\* Guard: the switch becomes a reader of its message.
LEMMA GuardHeap ==
  ASSUME MsgTypes, NEW n \in Nodes, Guard(n)
  PROVE  HeapOk /\ Len(heap') = Len(heap)
<1>1. msg[n] \in 1 .. Len(heap) /\ heap[msg[n]] \in Message /\ heap \in Seq(Message)
  BY HasMessage DEF MsgTypes, Controls, HandlesTyped, OutsTyped, CountsTyped, Guard
<1>2. Served(msg[n]) \in Seq(Lockers) /\ heap[msg[n]].readers \cup {n} \in SUBSET Holders
  BY <1>1, ServedIsLine DEF Message, Guard
<1> DEFINE m == [heap[msg[n]] EXCEPT !.readers = heap[msg[n]].readers \cup {n}, !.line = Served(msg[n])]
<1>3. m \in Message /\ m.org = heap[msg[n]].org
  BY <1>1, <1>2, Relined
<1>4. heap' = [heap EXCEPT ![msg[n]] = m]
  BY <1>1 DEF Guard
<1> HIDE DEF m
<1>5. QED
  BY <1>1, <1>3, <1>4, HeapUpdated DEF HeapOk

\* Fail, FanDone: the guard on the message is dropped.
LEMMA UnguardHeap ==
  ASSUME MsgTypes, NEW n \in Nodes, pc[n] \notin {"recv", "stopped"}, heap' = Unguard(n)
  PROVE  HeapOk /\ Len(heap') = Len(heap)
<1>1. msg[n] \in 1 .. Len(heap) /\ heap[msg[n]] \in Message /\ heap \in Seq(Message)
  BY HasMessage DEF MsgTypes, Controls, HandlesTyped, OutsTyped, CountsTyped
<1>2. heap[msg[n]].readers \ {n} \in SUBSET Holders /\ <<>> \in Seq(Lockers)
  BY <1>1 DEF Message
<1> DEFINE m == [heap[msg[n]] EXCEPT !.readers = heap[msg[n]].readers \ {n}]
<1>3. m \in Message /\ m.org = heap[msg[n]].org
  BY <1>1, <1>2, Relined
<1>4. heap' = [heap EXCEPT ![msg[n]] = m]
  BY <1>1 DEF Unguard
<1> HIDE DEF m
<1>5. QED
  BY <1>1, <1>3, <1>4, HeapUpdated DEF HeapOk

\* A clone is a message of its own, of the same origin.
LEMMA CloneHeap ==
  ASSUME MsgTypes, NEW n \in Nodes, pc[n] \notin {"recv", "stopped"},
         heap' = Append([heap EXCEPT ![msg[n]].line = Served(msg[n])], NewMsg(heap[msg[n]].org))
  PROVE  HeapOk /\ Len(heap') = Len(heap) + 1 /\ heap'[Len(heap) + 1].org = Org(n)
<1>1. msg[n] \in 1 .. Len(heap) /\ heap[msg[n]] \in Message /\ heap \in Seq(Message) /\ Org(n) \in Origins
  BY HasMessage DEF MsgTypes, Controls, HandlesTyped, OutsTyped, CountsTyped
<1>2. Served(msg[n]) \in Seq(Lockers)
  BY <1>1, ServedIsLine
<1> DEFINE m == [heap[msg[n]] EXCEPT !.line = Served(msg[n])]
           g == [heap EXCEPT ![msg[n]] = m]
<1>3. m \in Message /\ m.org = heap[msg[n]].org
  BY <1>1, <1>2, Relined
<1>4. heap' = Append(g, NewMsg(Org(n)))
  BY DEF Org
<1> HIDE DEF m
<1>5. g \in Seq(Message) /\ Len(g) = Len(heap) /\ \A i \in 1 .. Len(heap) : g[i].org = heap[i].org
  BY <1>1, <1>3, HeapUpdated
<1> HIDE DEF g
<1>6. PICK o \in Origins : o = Org(n)
  BY <1>1
<1>7. PICK f \in Seq(Message) : f = g
  BY <1>5
<1>8. heap' = Append(f, NewMsg(o))
  BY <1>4, <1>6, <1>7
<1> DEFINE a == Append(f, NewMsg(o))
<1>9. a \in Seq(Message) /\ Len(a) = Len(f) + 1 /\ (\A i \in 1 .. Len(f) : a[i] = f[i]) /\ a[Len(f) + 1].org = o
  BY HeapAppended, Zenon
<1> HIDE DEF a
<1>10. heap' = a
  BY <1>8 DEF a
<1>11. Len(heap) \in Nat /\ Len(f) = Len(heap)
  BY <1>1, <1>5, <1>7
<1>12. heap' \in Seq(Message) /\ Len(heap') = Len(heap) + 1 /\ heap'[Len(heap) + 1].org = Org(n)
  BY <1>6, <1>9, <1>10, <1>11
<1>13. \A i \in 1 .. Len(heap) : heap'[i].org = heap[i].org
  BY <1>5, <1>7, <1>9, <1>10, <1>11
<1>14. Len(heap') >= Len(heap)
  BY <1>11, <1>12
<1>15. QED
  BY <1>12, <1>13, <1>14 DEF HeapOk

\* Inject: the new message descends from the next origin.
LEMMA InjectHeap ==
  ASSUME MsgTypes, NEW n \in Nodes, Inject(n)
  PROVE  HeapOk /\ Len(heap') = Len(heap) + 1 /\ heap'[Len(heap) + 1].org = Len(origin) + 1 /\ Len(origin) + 1 \in Origins
<1>1. heap \in Seq(Message) /\ Len(origin) + 1 \in Origins /\ heap' = Append(heap, NewMsg(Len(origin) + 1))
  BY MessagingAssumption DEF MsgTypes, Controls, HandlesTyped, OutsTyped, CountsTyped, Inject, Origins
<1>2. QED
  BY <1>1, HeapAppended DEF HeapOk

\* The steps that leave the messages alone.
LEMMA SameHeap ==
  ASSUME MsgTypes, UNCHANGED heap
  PROVE  HeapOk
BY DEF MsgTypes, Controls, HandlesTyped, OutsTyped, CountsTyped, HeapOk

---------------------------------------------------------------------------
(* Parts of the types.                                                     *)

\* A sequence over a set is one over a larger set.
LEMMA SeqWider ==
  ASSUME NEW S, NEW T, S \subseteq T, NEW s \in Seq(S)
  PROVE  s \in Seq(T)
OBVIOUS

\* Handles stay handles.
LEMMA HandlesGrow ==
  ASSUME MsgTypes, HeapOk
  PROVE  /\ \A h \in 0 .. Len(heap) : h \in 0 .. Len(heap')
         /\ \A h \in 1 .. Len(heap) : h \in 1 .. Len(heap')
         /\ \A n \in Nodes : queue[n] \in Seq(1 .. Len(heap'))
<1>1. Len(heap) \in Nat /\ Len(heap') \in Nat /\ Len(heap') >= Len(heap)
  BY DEF MsgTypes, HeapOk
<1>2. 1 .. Len(heap) \subseteq 1 .. Len(heap') /\ 0 .. Len(heap) \subseteq 0 .. Len(heap')
  BY <1>1
<1>3. \A n \in Nodes : queue[n] \in Seq(1 .. Len(heap))
  BY DEF MsgTypes, QueuesTyped, Handles
<1>4. \A n \in Nodes : queue[n] \in Seq(1 .. Len(heap'))
  BY <1>2, <1>3, SeqWider, Zenon
<1>5. QED
  BY <1>2, <1>4

\* Queues that stay hold handles of the new heap.
LEMMA QueuesStay ==
  ASSUME MsgTypes, HeapOk, UNCHANGED queue
  PROVE  QueuesTyped'
BY HandlesGrow DEF QueuesTyped, MsgTypes, Handles

\* A queue with room takes one more handle.
LEMMA QueuesGain ==
  ASSUME MsgTypes, HeapOk, NEW m \in Nodes, NEW h \in 1 .. Len(heap'), Len(queue[m]) < Cap,
         queue' = [queue EXCEPT ![m] = Append(@, h)]
  PROVE  QueuesTyped'
<1>1. Cap \in Nat /\ DOMAIN queue = Nodes /\ \A n \in Nodes : queue[n] \in Seq(1 .. Len(heap')) /\ Len(queue[n]) <= Cap
  BY HandlesGrow, MessagingAssumption DEF MsgTypes, QueuesTyped
<1>2. \A n \in Nodes : queue'[n] = IF n = m THEN Append(queue[m], h) ELSE queue[n]
  BY <1>1
<1>3. DOMAIN queue' = Nodes /\ queue' = [n \in Nodes |-> queue'[n]]
  BY <1>1
<1>4. \A n \in Nodes : queue'[n] \in Seq(1 .. Len(heap')) /\ Len(queue'[n]) <= Cap
  <2>1. Append(queue[m], h) \in Seq(1 .. Len(heap')) /\ Len(Append(queue[m], h)) <= Cap
    BY <1>1
  <2>2. QED
    BY <1>1, <1>2, <2>1
<1>5. QED
  BY <1>3, <1>4 DEF QueuesTyped, Handles

\* A queue gives up its head.
LEMMA QueuesLose ==
  ASSUME MsgTypes, UNCHANGED heap, NEW m \in Nodes, queue[m] # <<>>, queue' = [queue EXCEPT ![m] = Tail(@)]
  PROVE  QueuesTyped' /\ Head(queue[m]) \in 1 .. Len(heap)
<1>1. Cap \in Nat /\ DOMAIN queue = Nodes /\ \A n \in Nodes : queue[n] \in Seq(1 .. Len(heap)) /\ Len(queue[n]) <= Cap
  BY MessagingAssumption DEF MsgTypes, QueuesTyped, Handles
<1>2. \A n \in Nodes : queue'[n] = IF n = m THEN Tail(queue[m]) ELSE queue[n]
  BY <1>1
<1>3. DOMAIN queue' = Nodes /\ queue' = [n \in Nodes |-> queue'[n]]
  BY <1>1
<1>4. \A n \in Nodes : queue'[n] \in Seq(1 .. Len(heap)) /\ Len(queue'[n]) <= Cap
  <2>1. Tail(queue[m]) \in Seq(1 .. Len(heap)) /\ Len(Tail(queue[m])) <= Cap
    BY <1>1
  <2>2. QED
    BY <1>1, <1>2, <2>1
<1>5. Head(queue[m]) \in 1 .. Len(heap)
  BY <1>1
<1>6. QED
  BY <1>3, <1>4, <1>5 DEF QueuesTyped, Handles

\* The sends of one node change.
LEMMA OutsChange ==
  ASSUME MsgTypes, HeapOk, NEW n \in Nodes, DOMAIN out' = Nodes, OutTyped(n)',
         \A u \in Nodes \ {n} : out'[u] = out[u] /\ pc'[u] = pc[u]
  PROVE  OutsTyped'
<1>1. ASSUME NEW u \in Nodes, u # n PROVE OutTyped(u)'
  <2>1. OutTyped(u) /\ out'[u] = out[u] /\ pc'[u] = pc[u]
    BY <1>1 DEF MsgTypes, OutsTyped
  <2>2. \A p \in DOMAIN out[u] : out[u][p] \in [h : 0 .. Len(heap'), next : 1 .. Len(Wires[u][p])]
    BY <2>1, HandlesGrow DEF OutTyped
  <2>3. QED
    BY <2>1, <2>2 DEF OutTyped
<1>2. QED
  BY <1>1 DEF OutsTyped

\* Sends in flight that stay, when nobody with sends in flight changes its state.
LEMMA OutsStay ==
  ASSUME MsgTypes, HeapOk, NEW n \in Nodes, UNCHANGED out, \A u \in Nodes \ {n} : pc'[u] = pc[u],
         DOMAIN out[n] = {} \/ pc'[n] = pc[n]
  PROVE  OutsTyped'
<1>1. OutTyped(n) /\ DOMAIN out = Nodes
  BY DEF MsgTypes, OutsTyped
<1>2. \A p \in DOMAIN out[n] : out[n][p] \in [h : 0 .. Len(heap'), next : 1 .. Len(Wires[n][p])]
  BY <1>1, HandlesGrow DEF OutTyped
<1>3. OutTyped(n)'
  BY <1>1, <1>2 DEF OutTyped
<1>4. QED
  BY <1>1, <1>3, OutsChange

\* The message and the copy of every node stay.
LEMMA HandlesStay ==
  ASSUME MsgTypes, HeapOk, UNCHANGED <<msg, copy>>, 
         \A u \in Nodes : pc[u] \in {"recv", "stopped"} => pc'[u] \in {"recv", "stopped"}
  PROVE  HandlesTyped'
BY HandlesGrow DEF MsgTypes, HandlesTyped

\* One node gets another copy.
LEMMA CopyTyped ==
  ASSUME MsgTypes, HeapOk, NEW n \in Nodes, UNCHANGED msg, NEW c \in 0 .. Len(heap'), copy' = [copy EXCEPT ![n] = c],
         \A u \in Nodes : pc[u] \in {"recv", "stopped"} => pc'[u] \in {"recv", "stopped"}
  PROVE  HandlesTyped'
<1>1. \A u \in Nodes : msg[u] \in 0 .. Len(heap') /\ copy[u] \in 0 .. Len(heap') /\ DOMAIN copy = Nodes /\ DOMAIN msg = Nodes
  BY HandlesGrow DEF MsgTypes, HandlesTyped
<1>2. copy' \in [Nodes -> 0 .. Len(heap')] /\ msg' \in [Nodes -> 0 .. Len(heap')]
  BY <1>1 DEF MsgTypes, HandlesTyped
<1>3. QED
  BY <1>2 DEF MsgTypes, HandlesTyped

\* The counters stay.
LEMMA CountsStay ==
  ASSUME MsgTypes, UNCHANGED <<origin, taken, failed, routed>>
  PROVE  CountsTyped'
BY DEF MsgTypes, CountsTyped

\* One counter of one node is raised.
LEMMA CounterGrows ==
  ASSUME NEW c \in [Nodes -> Counters], NEW n \in Nodes, NEW o \in Origins
  PROVE  /\ [c EXCEPT ![n][o] = @ + 1] \in [Nodes -> Counters]
         /\ \A u \in Nodes, x \in Origins : [c EXCEPT ![n][o] = @ + 1][u][x] = IF u = n /\ x = o THEN c[n][o] + 1 ELSE c[u][x]
<1>1. \A u \in Nodes : c[u] \in [Origins -> Nat]
  BY DEF Counters
<1> DEFINE d == [c[n] EXCEPT ![o] = @ + 1]
<1>2. d \in Counters /\ \A x \in Origins : d[x] = IF x = o THEN c[n][o] + 1 ELSE c[n][x]
  BY <1>1 DEF Counters
<1> DEFINE e == [c EXCEPT ![n][o] = @ + 1]
<1>3. e = [c EXCEPT ![n] = d]
  OBVIOUS
<1> HIDE DEF d, e
<1>4. e \in [Nodes -> Counters] /\ \A u \in Nodes : e[u] = IF u = n THEN d ELSE c[u]
  BY <1>2, <1>3
<1>5. \A u \in Nodes, x \in Origins : e[u][x] = IF u = n /\ x = o THEN c[n][o] + 1 ELSE c[u][x]
  BY <1>2, <1>4
<1>6. QED
  BY <1>4, <1>5 DEF e

---------------------------------------------------------------------------
(* Every action keeps the types.                                           *)

\* The types hold initially.
LEMMA TypesInit == Init => MsgTypes
<1> SUFFICES ASSUME Init PROVE MsgTypes
  OBVIOUS
<1>1. heap \in Seq(Message) /\ Len(heap) = 0 /\ Controls /\ HandlesTyped
  <2>1. heap = <<>> /\ <<>> \in Seq(Message) /\ Len(<<>>) = 0
    BY DEF Init
  <2>2. Controls
    <3>1. pc \in [Nodes -> States] /\ idx \in [Nodes -> Nat \ {0}]
      BY DEF Init, States
    <3>2. err \in [Nodes -> BOOLEAN] /\ cancelled \in BOOLEAN
      BY DEF Init
    <3>3. QED
      BY <3>1, <3>2 DEF Controls
  <2>3. HandlesTyped
    BY <2>1 DEF Init, HandlesTyped
  <2>4. QED
    BY <2>1, <2>2, <2>3
<1>2. QueuesTyped
  BY MessagingAssumption DEF Init, QueuesTyped
<1>3. OutsTyped
  <2>1. DOMAIN <<>> = {} /\ <<>> = [p \in {} |-> 0]
    OBVIOUS
  <2>2. \A n \in Nodes : OutTyped(n)
    BY <2>1 DEF Init, OutTyped
  <2>3. QED
    BY <2>2 DEF Init, OutsTyped
<1>4. CountsTyped
  <2>1. [o \in Origins |-> 0] \in Counters
    BY DEF Counters
  <2>2. \A n \in Nodes : routed[n] = [p \in Ports(n) |-> [o \in Origins |-> 0]]
    BY DEF Init
  <2>3. \A n \in Nodes : routed[n] \in [Ports(n) -> Counters]
    BY <2>1, <2>2
  <2>4. QED
    BY <2>1, <2>3, MessagingAssumption DEF Init, CountsTyped
<1>5. QED
  BY <1>1, <1>2, <1>3, <1>4 DEF MsgTypes

\* Inject keeps the types.
LEMMA TypesInject ==
  ASSUME MsgTypes, NEW n \in Nodes, Inject(n)
  PROVE  MsgTypes'
<1>1. HeapOk /\ Len(heap') = Len(heap) + 1 /\ Len(heap) + 1 \in 1 .. Len(heap')
  BY InjectHeap DEF MsgTypes
<1>2. QueuesTyped'
  BY <1>1, QueuesGain DEF Inject
<1>3. Controls' /\ HandlesTyped'
  BY <1>1, HandlesStay DEF Inject, MsgTypes, Controls
<1>4. OutsTyped'
  BY <1>1, OutsStay DEF Inject
<1>5. CountsTyped'
  BY MessagingAssumption DEF Inject, MsgTypes, CountsTyped
<1>6. QED
  BY <1>1, <1>2, <1>3, <1>4, <1>5 DEF MsgTypes, HeapOk

\* Recv keeps the types.
LEMMA TypesRecv ==
  ASSUME MsgTypes, NEW n \in Nodes, Recv(n)
  PROVE  MsgTypes'
<1>1. HeapOk /\ UNCHANGED heap
  BY SameHeap DEF Recv
<1>2. QueuesTyped' /\ Head(queue[n]) \in 1 .. Len(heap)
  BY <1>1, QueuesLose DEF Recv
<1>3. PICK h \in 1 .. Len(heap) : h = Head(queue[n]) /\ heap[h].org \in Origins
  <2>1. PICK h \in 1 .. Len(heap) : h = Head(queue[n])
    BY <1>2
  <2>2. heap[h] \in Message
    BY DEF MsgTypes
  <2>3. QED
    BY <2>1, <2>2 DEF Message
<1>4. msg' = [msg EXCEPT ![n] = h] /\ pc' = [pc EXCEPT ![n] = IF n \in Mutators \cup Holders THEN "lock" ELSE "work"]
      /\ taken' = [taken EXCEPT ![n][heap[h].org] = @ + 1]
  BY <1>3 DEF Recv
<1>5. Controls'
  BY <1>4 DEF Recv, MsgTypes, Controls, States
<1>6. HandlesTyped'
  BY <1>1, <1>4 DEF Recv, MsgTypes, HandlesTyped, Controls
<1>7. OutsTyped'
  <2>1. DOMAIN out[n] = {}
    BY DEF Recv, MsgTypes, OutsTyped, OutTyped
  <2>2. \A u \in Nodes \ {n} : pc'[u] = pc[u]
    BY <1>4 DEF MsgTypes, Controls
  <2>3. QED
    BY <1>1, <2>1, <2>2, OutsStay DEF Recv
<1>8. CountsTyped'
  <2>1. taken' \in [Nodes -> Counters]
    <3>1. PICK o \in Origins : o = heap[h].org
      BY <1>3
    <3>2. taken \in [Nodes -> Counters] /\ taken' = [taken EXCEPT ![n][o] = @ + 1]
      BY <1>4, <3>1 DEF MsgTypes, CountsTyped
    <3>3. QED
      BY <3>2, CounterGrows
  <2>2. QED
    BY <2>1 DEF Recv, MsgTypes, CountsTyped
<1>9. QED
  BY <1>1, <1>2, <1>5, <1>6, <1>7, <1>8 DEF MsgTypes, HeapOk

\* A step that changes the place of one node, with its sends over or as before.
LEMMA TypesMove ==
  ASSUME MsgTypes, HeapOk, NEW n \in Nodes, NEW to \in States, pc' = [pc EXCEPT ![n] = to],
         UNCHANGED <<queue, msg, out, copy, cancelled, origin, taken, routed>>, idx' \in [Nodes -> Nat \ {0}], err' \in [Nodes -> BOOLEAN],
         failed' \in [Nodes -> Counters],
         pc[n] \in {"recv", "stopped"} => to \in {"recv", "stopped"}, DOMAIN out[n] = {}
  PROVE  MsgTypes'
<1>1. Controls' /\ (\A u \in Nodes \ {n} : pc'[u] = pc[u]) /\ pc'[n] = to
  BY DEF MsgTypes, Controls
<1>2. HandlesTyped'
  BY <1>1, HandlesStay
<1>3. QueuesTyped' /\ OutsTyped'
  BY <1>1, QueuesStay, OutsStay
<1>4. CountsTyped'
  BY DEF MsgTypes, CountsTyped
<1>5. QED
  BY <1>1, <1>2, <1>3, <1>4 DEF MsgTypes, HeapOk

\* The steps that change the state and the lock of one node keep the types.
LEMMA TypesLocal ==
  ASSUME MsgTypes, NEW n \in Nodes, Exit(n) \/ Mutate(n) \/ Guard(n) \/ Fail(n) \/ FanDone(n) \/ Reported(n)
  PROVE  MsgTypes'
<1>0. /\ pc \in [Nodes -> States] /\ idx \in [Nodes -> Nat \ {0}] /\ err \in [Nodes -> BOOLEAN] /\ failed \in [Nodes -> Counters]
      /\ DOMAIN out[n] # {} => pc[n] = "fan"
      /\ idx' = idx => idx' \in [Nodes -> Nat \ {0}]
  BY DEF MsgTypes, Controls, CountsTyped, OutsTyped, OutTyped
<1>1. CASE Exit(n)
  <2>1. HeapOk
    BY <1>1, SameHeap DEF Exit
  <2>2. QED
    BY <1>0, <1>1, <2>1, TypesMove DEF Exit, States
<1>2. CASE Mutate(n)
  <2>1. pc[n] = "lock" /\ heap' = [heap EXCEPT ![msg[n]].line = Served(msg[n])]
    BY <1>2 DEF Mutate, WantsWrite
  <2>2. HeapOk
    BY <2>1, MutateHeap
  <2>3. QED
    BY <1>0, <1>2, <2>1, <2>2, TypesMove DEF Mutate, States
<1>3. CASE Guard(n)
  <2>1. HeapOk /\ pc[n] = "lock"
    BY <1>3, GuardHeap DEF Guard
  <2>2. QED
    BY <1>0, <1>3, <2>1, TypesMove DEF Guard, States
<1>4. CASE Fail(n)
  <2>1. HeapOk /\ pc[n] = "work" /\ Org(n) \in Origins
    BY <1>4, UnguardHeap, HasMessage DEF Fail
  <2>2. failed' \in [Nodes -> Counters]
    <3>1. PICK o \in Origins : o = Org(n)
      BY <2>1
    <3>2. failed' = [failed EXCEPT ![n][o] = @ + 1]
      BY <1>4, <3>1 DEF Fail, Org
    <3>3. QED
      BY <1>0, <3>2, CounterGrows
  <2>3. err' \in [Nodes -> BOOLEAN]
    BY <1>0, <1>4 DEF Fail
  <2>4. QED
    BY <1>0, <1>4, <2>1, <2>2, <2>3, TypesMove DEF Fail, States
<1>5. CASE FanDone(n)
  <2>1. HeapOk /\ pc[n] = "fan" /\ DOMAIN out[n] = {}
    BY <1>5, UnguardHeap DEF FanDone
  <2>2. err' \in [Nodes -> BOOLEAN]
    BY <1>0, <1>5 DEF FanDone
  <2>3. PICK to \in States : pc' = [pc EXCEPT ![n] = to]
    BY <1>5 DEF FanDone, NextTurn, States
  <2>4. QED
    BY <1>0, <1>5, <2>1, <2>2, <2>3, TypesMove DEF FanDone
<1>6. CASE Reported(n)
  <2>1. HeapOk /\ pc[n] \in {"catch", "complete"}
    BY <1>6, SameHeap DEF Reported
  <2>2. err' \in [Nodes -> BOOLEAN] /\ idx' \in [Nodes -> Nat \ {0}]
    BY <1>0, <1>6 DEF Reported
  <2>3. PICK to \in States : pc' = [pc EXCEPT ![n] = to]
    BY <1>6 DEF Reported, NextTurn, States
  <2>4. QED
    BY <1>0, <1>6, <2>1, <2>2, <2>3, TypesMove DEF Reported
<1>7. QED
  BY <1>1, <1>2, <1>3, <1>4, <1>5, <1>6

\* The steps on the copy for a listener keep the types.
LEMMA TypesCopy ==
  ASSUME MsgTypes, NEW n \in Nodes, Copy(n) \/ Deliver(n) \/ DeliverCancelled(n)
  PROVE  MsgTypes'
<1>0. /\ pc \in [Nodes -> States] /\ idx \in [Nodes -> Nat \ {0}]
      /\ pc[n] \in {"catch", "complete"} /\ DOMAIN out[n] = {} /\ Len(heap) \in Nat
      /\ Catches[n] \in Seq(Nodes) /\ Completes[n] \in Seq(Nodes)
  <2>1. pc[n] \in {"catch", "complete"}
    BY DEF Copy, Deliver, DeliverCancelled, Listening
  <2>2. DOMAIN out[n] = {}
    BY <2>1 DEF MsgTypes, OutsTyped, OutTyped
  <2>3. QED
    BY <2>1, <2>2, MessagingAssumption DEF MsgTypes, Controls
<1>1. CASE Copy(n)
  <2>1. HeapOk /\ Len(heap) + 1 \in 0 .. Len(heap')
    <3>1. pc[n] \notin {"recv", "stopped"}
          /\ heap' = Append([heap EXCEPT ![msg[n]].line = Served(msg[n])], NewMsg(heap[msg[n]].org))
      BY <1>0, <1>1 DEF Copy
    <3>2. HeapOk /\ Len(heap') = Len(heap) + 1
      BY <3>1, CloneHeap
    <3>3. QED
      BY <1>0, <3>2
  <2>2. HandlesTyped'
    BY <1>1, <2>1, CopyTyped DEF Copy
  <2>3. QueuesTyped' /\ OutsTyped' /\ CountsTyped' /\ Controls'
    BY <1>1, <2>1, QueuesStay, OutsStay, CountsStay DEF Copy, MsgTypes, Controls
  <2>4. QED
    BY <2>1, <2>2, <2>3 DEF MsgTypes, HeapOk
<1>2. CASE Deliver(n)
  <2>1. HeapOk /\ UNCHANGED heap /\ 0 \in 0 .. Len(heap')
    BY <1>0, <1>2, SameHeap DEF Deliver
  <2>2. HandlesTyped'
    BY <1>2, <2>1, CopyTyped DEF Deliver
  <2>3. OutsTyped' /\ CountsTyped' /\ Controls'
    BY <1>0, <1>2, <2>1, OutsStay, CountsStay DEF Deliver, MsgTypes, Controls
  <2>4. QueuesTyped'
    <3>1. copy[n] \in 1 .. Len(heap')
      BY <1>0, <1>2, <2>1 DEF Deliver, MsgTypes, HandlesTyped
    <3>2. PICK m \in Nodes : m = Listeners(n)[idx[n]]
      <4>1. idx[n] \in Nat \ {0} /\ idx[n] <= Len(Listeners(n))
        BY <1>2 DEF Deliver, Listening, MsgTypes, Controls
      <4>2. Listeners(n) \in Seq(Nodes)
        BY MessagingAssumption DEF Listeners
      <4>3. QED
        BY <4>1, <4>2
    <3>3. QED
      BY <1>2, <2>1, <3>1, <3>2, QueuesGain DEF Deliver
  <2>5. QED
    BY <2>1, <2>2, <2>3, <2>4 DEF MsgTypes, HeapOk
<1>3. CASE DeliverCancelled(n)
  <2>1. HeapOk /\ UNCHANGED heap /\ 0 \in 0 .. Len(heap')
    BY <1>0, <1>3, SameHeap DEF DeliverCancelled
  <2>2. (\A u \in Nodes \ {n} : pc'[u] = pc[u]) /\ pc'[n] \in {"catch", "complete"} /\ pc' \in [Nodes -> States] /\ idx' \in [Nodes -> Nat \ {0}]
    BY <1>0, <1>3 DEF DeliverCancelled, States
  <2>3. HandlesTyped'
    BY <1>0, <1>3, <2>1, <2>2, CopyTyped DEF DeliverCancelled
  <2>4. QueuesTyped' /\ OutsTyped' /\ CountsTyped' /\ Controls'
    BY <1>0, <1>3, <2>1, <2>2, QueuesStay, OutsStay, CountsStay DEF DeliverCancelled, MsgTypes, Controls
  <2>5. QED
    BY <2>1, <2>3, <2>4 DEF MsgTypes, HeapOk
<1>4. QED
  BY <1>1, <1>2, <1>3

\* A port with a send in flight is a port of the node, which is at its fan-out.
LEMMA PortOf ==
  ASSUME MsgTypes, NEW n \in Nodes, NEW p \in DOMAIN out[n]
  PROVE  /\ p \in Ports(n) /\ pc[n] = "fan" /\ Wires[n][p] \in Seq(Nodes)
         /\ out[n][p] \in [h : 0 .. Len(heap), next : 1 .. Len(Wires[n][p])] /\ DOMAIN out = Nodes
<1>1. /\ p \in Ports(n) /\ pc[n] = "fan" /\ out[n][p] \in [h : 0 .. Len(heap), next : 1 .. Len(Wires[n][p])] /\ DOMAIN out = Nodes
  BY DEF MsgTypes, OutsTyped, OutTyped
<1>2. Wires[n] \in Seq(Seq(Nodes)) /\ p \in DOMAIN Wires[n]
  BY <1>1, MessagingAssumption DEF Ports
<1>3. QED
  BY <1>1, <1>2

\* The sends of one node move on, within what they may be.
LEMMA TypesOut ==
  ASSUME MsgTypes, HeapOk, NEW n \in Nodes, NEW o, out' = [out EXCEPT ![n] = o], pc' = pc,
         DOMAIN o \subseteq DOMAIN out[n], o = [p \in DOMAIN o |-> o[p]],
         \A p \in DOMAIN o : o[p] \in [h : 0 .. Len(heap'), next : 1 .. Len(Wires[n][p])]
  PROVE  OutsTyped'
<1>1. DOMAIN out = Nodes /\ OutTyped(n)
  BY DEF MsgTypes, OutsTyped
<1>2. DOMAIN out' = Nodes /\ out'[n] = o /\ \A u \in Nodes \ {n} : out'[u] = out[u]
  BY <1>1
<1>3. OutTyped(n)'
  BY <1>1, <1>2 DEF OutTyped
<1>4. QED
  BY <1>2, <1>3, OutsChange

\* Dispatch keeps the types.
LEMMA TypesDispatch ==
  ASSUME MsgTypes, NEW n \in Nodes, Dispatch(n)
  PROVE  MsgTypes'
<1>0. HeapOk /\ UNCHANGED heap /\ pc[n] = "work" /\ msg[n] \in 1 .. Len(heap) /\ Org(n) \in Origins /\ Len(heap) \in Nat
  <2>1. pc[n] = "work" /\ UNCHANGED heap
    BY DEF Dispatch
  <2>2. Len(heap) \in Nat
    BY DEF MsgTypes
  <2>3. QED
    BY <2>1, <2>2, SameHeap, HasMessage
<1>1. PICK ps \in SUBSET Ports(n) :
        /\ out' = [out EXCEPT ![n] = [p \in {q \in ps : Wires[n][q] # <<>>} |-> [h |-> msg[n], next |-> 1]]]
        /\ routed' = IF n \in Holders
                     THEN [routed EXCEPT ![n] = [p \in Ports(n) |->
                              IF p \in ps THEN [routed[n][p] EXCEPT ![heap[msg[n]].org] = @ + 1] ELSE routed[n][p]]]
                     ELSE routed
  BY DEF Dispatch
<1> DEFINE P == {q \in ps : Wires[n][q] # <<>>}
           o == [p \in P |-> [h |-> msg[n], next |-> 1]]
<1>2. Controls' /\ (\A u \in Nodes \ {n} : pc'[u] = pc[u]) /\ pc'[n] = "fan"
  BY DEF Dispatch, MsgTypes, Controls, States
<1>3. HandlesTyped'
  BY <1>0, <1>2, HandlesStay DEF Dispatch
<1>4. OutsTyped'
  <2>1. DOMAIN o = P /\ \A p \in P : o[p] = [h |-> msg[n], next |-> 1]
    OBVIOUS
  <2>2. \A p \in P : p \in Ports(n) /\ 1 \in 1 .. Len(Wires[n][p])
    <3> SUFFICES ASSUME NEW p \in P PROVE 1 \in 1 .. Len(Wires[n][p])
      OBVIOUS
    <3>1. Wires[n] \in Seq(Seq(Nodes)) /\ p \in DOMAIN Wires[n] /\ Wires[n][p] # <<>>
      BY MessagingAssumption DEF Ports
    <3>2. QED
      BY <3>1
  <2>3. o = [p \in DOMAIN o |-> o[p]]
    OBVIOUS
  <2>4. DOMAIN out = Nodes
    BY DEF MsgTypes, OutsTyped
  <2>5. out' = [out EXCEPT ![n] = o]
    BY <1>1
  <2> HIDE DEF o, P
  <2>6. DOMAIN out' = Nodes /\ out'[n] = o /\ \A u \in Nodes \ {n} : out'[u] = out[u]
    BY <2>4, <2>5
  <2>7. OutTyped(n)'
    BY <1>0, <1>2, <2>1, <2>2, <2>3, <2>6 DEF OutTyped
  <2>8. QED
    BY <1>0, <1>2, <2>6, <2>7, OutsChange
<1>5. CountsTyped'
  <2>1. CASE n \in Holders
    <3> DEFINE r == [p \in Ports(n) |-> IF p \in ps THEN [routed[n][p] EXCEPT ![heap[msg[n]].org] = @ + 1] ELSE routed[n][p]]
    <3>1. routed' = [routed EXCEPT ![n] = r]
      BY <1>1, <2>1
    <3>2. \A p \in Ports(n) : routed[n][p] \in [Origins -> Nat]
      BY DEF MsgTypes, CountsTyped, Counters
    <3>3. r \in [Ports(n) -> Counters]
      BY <1>0, <3>2 DEF Counters, Org
    <3> HIDE DEF r
    <3>4. QED
      BY <3>1, <3>3 DEF Dispatch, MsgTypes, CountsTyped
  <2>2. CASE n \notin Holders
    BY <1>1, <2>2 DEF Dispatch, MsgTypes, CountsTyped
  <2>3. QED
    BY <2>1, <2>2
<1>6. QED
  BY <1>0, <1>2, <1>3, <1>4, <1>5, QueuesStay DEF Dispatch, MsgTypes, HeapOk

\* The steps of one port keep the types.
LEMMA TypesSend ==
  ASSUME MsgTypes, NEW n \in Nodes, NEW p, Clone(n, p) \/ Send(n, p) \/ SendCancelled(n, p)
  PROVE  MsgTypes'
<1>0. /\ p \in DOMAIN out[n] /\ pc[n] = "fan" /\ Wires[n][p] \in Seq(Nodes) /\ DOMAIN out = Nodes
      /\ out[n][p] \in [h : 0 .. Len(heap), next : 1 .. Len(Wires[n][p])] /\ UNCHANGED pc /\ Len(heap) \in Nat
  <2>1. p \in DOMAIN out[n] /\ UNCHANGED pc
    BY DEF Clone, Send, SendCancelled
  <2>2. Len(heap) \in Nat
    BY DEF MsgTypes
  <2>3. QED
    BY <2>1, <2>2, PortOf
<1>1. /\ out[n] = [q \in DOMAIN out[n] |-> out[n][q]]
      /\ \A q \in DOMAIN out[n] : out[n][q] \in [h : 0 .. Len(heap), next : 1 .. Len(Wires[n][q])]
  BY DEF MsgTypes, OutsTyped, OutTyped
<1>2. HeapOk => OutTyped(n) /\ \A q \in DOMAIN out[n] : out[n][q] \in [h : 0 .. Len(heap'), next : 1 .. Len(Wires[n][q])]
  BY <1>1, HandlesGrow DEF MsgTypes, OutsTyped
<1>3. Without(n, p) = [q \in DOMAIN Without(n, p) |-> Without(n, p)[q]] /\ DOMAIN Without(n, p) \subseteq DOMAIN out[n]
      /\ \A q \in DOMAIN Without(n, p) : Without(n, p)[q] = out[n][q]
  BY DEF Without
<1>4. CASE Clone(n, p)
  <2>1. heap' = Append([heap EXCEPT ![msg[n]].line = Served(msg[n])], NewMsg(heap[msg[n]].org)) /\ pc[n] \notin {"recv", "stopped"}
    BY <1>0, <1>4 DEF Clone
  <2>2. HeapOk /\ Len(heap') = Len(heap) + 1
    BY <2>1, CloneHeap
  <2> DEFINE e == [out[n][p] EXCEPT !.h = Len(heap) + 1]
             o == [out[n] EXCEPT ![p] = e]
  <2>3. e \in [h : 0 .. Len(heap'), next : 1 .. Len(Wires[n][p])]
    BY <1>0, <2>2
  <2>4. out' = [out EXCEPT ![n] = o]
    BY <1>4 DEF Clone
  <2> HIDE DEF e
  <2>5. DOMAIN o = DOMAIN out[n] /\ \A q \in DOMAIN o : o[q] = IF q = p THEN e ELSE out[n][q]
    BY <1>0
  <2>6. o = [q \in DOMAIN o |-> o[q]]
    OBVIOUS
  <2>7. \A q \in DOMAIN o : o[q] \in [h : 0 .. Len(heap'), next : 1 .. Len(Wires[n][q])]
    BY <1>2, <2>2, <2>3, <2>5
  <2> HIDE DEF o
  <2>8. OutsTyped'
    BY <1>0, <2>2, <2>4, <2>5, <2>6, <2>7, TypesOut
  <2>9. QED
    BY <1>0, <1>4, <2>2, <2>8, HandlesStay, QueuesStay, CountsStay DEF Clone, MsgTypes, Controls, HeapOk
<1>5. CASE Send(n, p)
  <2>1. HeapOk /\ UNCHANGED heap
    BY <1>5, SameHeap DEF Send
  <2> DEFINE i == out[n][p].next
             e == [h |-> 0, next |-> i + 1]
             o == [out[n] EXCEPT ![p] = e]
  <2>2. i \in 1 .. Len(Wires[n][p]) /\ out[n][p].h \in 1 .. Len(heap')
    <3>1. out[n][p].h \in 0 .. Len(heap) /\ i \in 1 .. Len(Wires[n][p])
      BY <1>0
    <3>2. out[n][p].h # 0 /\ Len(heap') = Len(heap) /\ Len(heap) \in Nat
      BY <1>0, <1>5, <2>1 DEF Send
    <3>3. QED
      BY <3>1, <3>2
  <2>3. out' = [out EXCEPT ![n] = AfterSend(n, p)]
    BY <1>5 DEF Send
  <2>4. OutsTyped'
    <3>1. CASE i = Len(Wires[n][p])
      <4>1. AfterSend(n, p) = Without(n, p)
        BY <3>1 DEF AfterSend
      <4>2. QED
        <5>1. PICK w : w = Without(n, p)
          OBVIOUS
        <5>2. out' = [out EXCEPT ![n] = w]
          BY <2>3, <4>1, <5>1
        <5>3. QED
          BY <1>0, <1>2, <1>3, <2>1, <5>1, <5>2, TypesOut
    <3>2. CASE i # Len(Wires[n][p])
      <4>1. AfterSend(n, p) = o
        BY <3>2 DEF AfterSend
      <4>2. e \in [h : 0 .. Len(heap'), next : 1 .. Len(Wires[n][p])]
        BY <1>0, <2>1, <2>2, <3>2
      <4> HIDE DEF e, i
      <4>3. DOMAIN o = DOMAIN out[n] /\ \A q \in DOMAIN o : o[q] = IF q = p THEN e ELSE out[n][q]
        BY <1>0
      <4>4. o = [q \in DOMAIN o |-> o[q]]
        OBVIOUS
      <4>5. \A q \in DOMAIN o : o[q] \in [h : 0 .. Len(heap'), next : 1 .. Len(Wires[n][q])]
        BY <1>2, <2>1, <4>2, <4>3
      <4> HIDE DEF o
      <4>6. QED
        <5>1. PICK w : w = o
          OBVIOUS
        <5>2. out' = [out EXCEPT ![n] = w]
          BY <2>3, <4>1, <5>1
        <5>3. QED
          BY <1>0, <2>1, <4>3, <4>4, <4>5, <5>1, <5>2, TypesOut
    <3>3. QED
      BY <3>1, <3>2
  <2>5. QueuesTyped'
    <3>1. PICK m \in Nodes : m = Wires[n][p][i]
      BY <1>0, <2>2
    <3>2. QED
      BY <1>5, <2>1, <2>2, <3>1, QueuesGain DEF Send, Room
  <2>6. QED
    BY <1>0, <1>5, <2>1, <2>4, <2>5, HandlesStay, CountsStay DEF Send, MsgTypes, Controls, HeapOk
<1>6. CASE SendCancelled(n, p)
  <2>1. HeapOk /\ UNCHANGED heap
    BY <1>6, SameHeap DEF SendCancelled
  <2>2. OutsTyped'
    <3>1. PICK w : w = Without(n, p)
      OBVIOUS
    <3>2. out' = [out EXCEPT ![n] = w]
      BY <1>6, <3>1 DEF SendCancelled
    <3>3. QED
      BY <1>0, <1>2, <1>3, <2>1, <3>1, <3>2, TypesOut
  <2>3. Controls'
    BY <1>0, <1>6 DEF SendCancelled, MsgTypes, Controls
  <2>4. QED
    BY <1>0, <1>6, <2>1, <2>2, <2>3, HandlesStay, QueuesStay, CountsStay DEF SendCancelled, MsgTypes, HeapOk
<1>7. QED
  BY <1>4, <1>5, <1>6

\* Stop, Wait and stuttering keep the types.
LEMMA TypesRest ==
  ASSUME MsgTypes, Stop \/ (\E t \in Lockers : Wait(t)) \/ UNCHANGED vars
  PROVE  MsgTypes'
<1>1. ASSUME NEW t \in Lockers, Wait(t) PROVE MsgTypes'
  <2>1. HeapOk /\ UNCHANGED <<queue, pc, msg, out, idx, copy, err, cancelled, origin, taken, failed, routed>>
    BY <1>1, WaitHeap DEF Wait
  <2>2. PICK n \in Nodes : TRUE
    BY <1>1 DEF Lockers
  <2>3. OutsTyped'
    BY <2>1, <2>2, OutsStay
  <2>4. QED
    BY <2>1, <2>3, HandlesStay, QueuesStay, CountsStay DEF MsgTypes, Controls, HeapOk
<1>2. CASE Stop
  BY <1>2 DEF Stop, MsgTypes, Controls, HandlesTyped, QueuesTyped, OutsTyped, OutTyped, CountsTyped, Handles
<1>3. CASE UNCHANGED vars
  BY <1>3 DEF vars, MsgTypes, Controls, HandlesTyped, QueuesTyped, OutsTyped, OutTyped, CountsTyped, Handles
<1>4. QED
  BY <1>1, <1>2, <1>3

\* Every step keeps the types.
LEMMA TypesKept == MsgTypes /\ [Next]_vars => MsgTypes'
<1> SUFFICES ASSUME MsgTypes, [Next]_vars PROVE MsgTypes'
  OBVIOUS
<1>1. ASSUME NEW n \in Nodes, Inject(n) \/ NodeStep(n) \/ Deliver(n) PROVE MsgTypes'
  BY <1>1, TypesInject, TypesRecv, TypesLocal, TypesDispatch, TypesCopy DEF NodeStep
<1>2. ASSUME NEW n \in Nodes, NEW p \in Ports(n), PortStep(n, p) \/ Send(n, p) PROVE MsgTypes'
  BY <1>2, TypesSend DEF PortStep
<1>3. QED
  BY <1>1, <1>2, TypesRest DEF Next

\* The types imply TypeOK.
LEMMA TypesGiveTypeOK == MsgTypes => TypeOK
<1> SUFFICES ASSUME MsgTypes PROVE TypeOK
  OBVIOUS
<1>1. ASSUME NEW h \in Handles
      PROVE  heap[h].org \in Origins /\ heap[h].readers \subseteq Holders /\ ToSet(heap[h].line) \subseteq Lockers
  <2>1. heap[h] \in Message
    BY DEF MsgTypes, Handles
  <2>2. heap[h].line \in Seq(Lockers)
    BY <2>1 DEF Message
  <2>3. QED
    BY <2>1, <2>2 DEF Message, ToSet
<1>2. ASSUME NEW n \in Nodes
      PROVE  /\ pc[n] \in States /\ Len(queue[n]) <= Cap /\ \A i \in DOMAIN queue[n] : queue[n][i] \in Handles
             /\ msg[n] \in 0 .. Len(heap) /\ (pc[n] \notin {"recv", "stopped"} => msg[n] # 0) /\ copy[n] \in 0 .. Len(heap)
  <2>1. queue[n] \in Seq(Handles)
    BY DEF MsgTypes, QueuesTyped
  <2>2. QED
    BY <2>1 DEF MsgTypes, Controls, HandlesTyped, QueuesTyped
<1>3. ASSUME NEW n \in Nodes, NEW p \in DOMAIN out[n]
      PROVE  p \in Ports(n) /\ out[n][p].h \in 0 .. Len(heap) /\ out[n][p].next \in 1 .. Len(Wires[n][p])
  BY <1>3, PortOf
<1>4. QED
  BY <1>1, <1>2, <1>3 DEF TypeOK, MsgTypes, Controls

\* Bounded queues (`node_msg_queue_capacity`) and live handles: in every flow no queue
\* grows past its capacity, and every handle a task, a queue or a lock refers to is a
\* message.
THEOREM MessagingTyped == Spec => []TypeOK
<1>1. Init => MsgTypes
  BY TypesInit
<1>2. QED
  BY <1>1, TypesKept, TypesGiveTypeOK, PTL DEF Spec

---------------------------------------------------------------------------
(* Counting.                                                               *)

\* Numbers of rounds as a set that can be counted.
Pairs(f, S) == UNION {{s} \X (1 .. f[s]) : s \in S}

\* What the pairs of a function are.
LEMMA PairsAre ==
  ASSUME NEW S, NEW f \in [S -> Nat], NEW s, NEW j
  PROVE  <<s, j>> \in Pairs(f, S) <=> s \in S /\ j \in 1 .. f[s]
BY DEF Pairs

\* One more round of one slot is one more pair.
LEMMA PairsGrow ==
  ASSUME NEW S, NEW f \in [S -> Nat], NEW g \in [S -> Nat], NEW x \in S, g[x] = f[x] + 1,
         \A s \in S \ {x} : g[s] = f[s], IsFiniteSet(Pairs(f, S))
  PROVE  IsFiniteSet(Pairs(g, S)) /\ Cardinality(Pairs(g, S)) = Cardinality(Pairs(f, S)) + 1
<1> DEFINE e == <<x, f[x] + 1>>
<1>1. e \notin Pairs(f, S)
  <2>1. f[x] + 1 \notin 1 .. f[x]
    OBVIOUS
  <2>2. QED
    BY <2>1, PairsAre
<1>2. \A y \in Pairs(g, S) : \E s, j : y = <<s, j>>
  BY DEF Pairs
<1>3. \A y \in Pairs(f, S) : \E s, j : y = <<s, j>>
  BY DEF Pairs
<1>4. \A s, j : <<s, j>> \in Pairs(g, S) <=> <<s, j>> \in Pairs(f, S) \/ <<s, j>> = e
  <2> SUFFICES ASSUME NEW s, NEW j PROVE <<s, j>> \in Pairs(g, S) <=> <<s, j>> \in Pairs(f, S) \/ <<s, j>> = e
    OBVIOUS
  <2>1. <<s, j>> \in Pairs(g, S) <=> s \in S /\ j \in 1 .. g[s]
    BY PairsAre
  <2>2. <<s, j>> \in Pairs(f, S) <=> s \in S /\ j \in 1 .. f[s]
    BY PairsAre
  <2>3. CASE s = x
    <3>1. j \in 1 .. f[x] + 1 <=> j \in 1 .. f[x] \/ j = f[x] + 1
      OBVIOUS
    <3>2. QED
      BY <2>1, <2>2, <2>3, <3>1
  <2>4. CASE s # x
    BY <2>1, <2>2, <2>4
  <2>5. QED
    BY <2>3, <2>4
<1>5. Pairs(g, S) = Pairs(f, S) \cup {e}
  BY <1>2, <1>3, <1>4
<1>6. QED
  BY <1>1, <1>5, FS_AddElement

\* How many of a queue are in a set of handles.
Marked(q, H) == {i \in DOMAIN q : q[i] \in H}

\* The marked places of a queue can be counted.
LEMMA MarkedFinite ==
  ASSUME NEW T, NEW q \in Seq(T), NEW H
  PROVE  IsFiniteSet(Marked(q, H)) /\ Cardinality(Marked(q, H)) \in Nat
<1>1. IsFiniteSet(1 .. Len(q)) /\ Marked(q, H) \in SUBSET (1 .. Len(q))
  BY FS_Interval DEF Marked
<1>2. QED
  BY <1>1, FS_Subset, FS_CardinalityType

\* A message that joins the queue is counted when it is marked.
LEMMA MarkedAppend ==
  ASSUME NEW T, NEW q \in Seq(T), NEW h \in T, NEW H
  PROVE  Cardinality(Marked(Append(q, h), H)) = Cardinality(Marked(q, H)) + Bit(h \in H)
<1>1. Len(q) \in Nat /\ DOMAIN q = 1 .. Len(q) /\ DOMAIN Append(q, h) = 1 .. Len(q) + 1
      /\ Append(q, h)[Len(q) + 1] = h /\ \A i \in 1 .. Len(q) : Append(q, h)[i] = q[i]
  OBVIOUS
<1>2. CASE h \in H
  <2>1. Marked(Append(q, h), H) = Marked(q, H) \cup {Len(q) + 1}
    BY <1>1, <1>2 DEF Marked
  <2>2. Len(q) + 1 \notin Marked(q, H)
    BY <1>1 DEF Marked
  <2>3. Cardinality(Marked(q, H) \cup {Len(q) + 1}) = Cardinality(Marked(q, H)) + 1
    BY <2>2, MarkedFinite, FS_AddElement
  <2>4. QED
    BY <1>2, <2>1, <2>3 DEF Bit
<1>3. CASE h \notin H
  <2>1. Marked(Append(q, h), H) = Marked(q, H)
    BY <1>1, <1>3 DEF Marked
  <2>2. QED
    BY <1>3, <2>1, MarkedFinite DEF Bit
<1>4. QED
  BY <1>2, <1>3

\* A message that leaves the queue was counted when it was marked.
LEMMA MarkedTail ==
  ASSUME NEW T, NEW q \in Seq(T), q # <<>>, NEW H
  PROVE  Cardinality(Marked(q, H)) = Cardinality(Marked(Tail(q), H)) + Bit(Head(q) \in H)
<1>1. /\ Len(q) \in Nat \ {0} /\ DOMAIN q = 1 .. Len(q) /\ Tail(q) \in Seq(T) /\ DOMAIN Tail(q) = 1 .. Len(q) - 1
      /\ Head(q) = q[1] /\ \A i \in 1 .. Len(q) - 1 : Tail(q)[i] = q[i + 1]
  OBVIOUS
<1> DEFINE A == Marked(Tail(q), H)
           B == {i \in Marked(q, H) : i > 1}
           f == [i \in A |-> i + 1]
<1>2. f \in Bijection(A, B)
  <2>1. \A i \in A : i \in 1 .. Len(q) - 1 /\ i + 1 \in B
    BY <1>1 DEF Marked
  <2>2. \A i, j \in A : f[i] = f[j] => i = j
    BY <2>1
  <2>3. \A b \in B : \E i \in A : f[i] = b
    <3> SUFFICES ASSUME NEW b \in B PROVE \E i \in A : f[i] = b
      OBVIOUS
    <3>1. b - 1 \in A /\ f[b - 1] = b
      BY <1>1 DEF Marked
    <3>2. QED
      BY <3>1
  <2>4. f \in [A -> B]
    BY <2>1
  <2> HIDE DEF f, A, B
  <2>5. f \in Surjection(A, B)
    BY <2>3, <2>4 DEF Surjection
  <2>6. f \in Injection(A, B)
    BY <2>2, <2>4 DEF Injection, IsInjective
  <2>7. QED
    BY <2>5, <2>6 DEF Bijection
<1>3. IsFiniteSet(A) /\ IsFiniteSet(Marked(q, H)) /\ Cardinality(A) \in Nat
  BY <1>1, MarkedFinite
<1>4. IsFiniteSet(B) /\ Cardinality(B) = Cardinality(A)
  <2>1. ExistsBijection(A, B)
    BY <1>2 DEF ExistsBijection
  <2> HIDE DEF A, B
  <2>2. QED
    BY <1>3, <2>1, FS_Bijection
<1>5. CASE Head(q) \in H
  <2>1. Marked(q, H) = B \cup {1} /\ 1 \notin B
    BY <1>1, <1>5 DEF Marked
  <2> HIDE DEF B, A
  <2>2. Cardinality(B \cup {1}) = Cardinality(B) + 1
    BY <1>4, <2>1, FS_AddElement
  <2>3. QED
    BY <1>4, <1>5, <2>1, <2>2 DEF Bit, A
<1>6. CASE Head(q) \notin H
  <2>1. Marked(q, H) = B
    BY <1>1, <1>6 DEF Marked
  <2> HIDE DEF B
  <2>2. QED
    BY <1>3, <1>4, <1>6, <2>1 DEF Bit
<1>7. QED
  BY <1>5, <1>6

---------------------------------------------------------------------------
(* What the slots of a node have settled.                                  *)

\* The forms of a slot.
LEMMA SlotForms ==
  ASSUME NEW n, NEW s
  PROVE  s \in Slots(n) <=>
           \/ s = <<n, "source", 0, 0>>
           \/ \E u \in Nodes :
                \/ \E p \in Ports(u) : \E i \in DOMAIN Wires[u][p] : Wires[u][p][i] = n /\ s = <<u, "wire", p, i>>
                \/ \E i \in DOMAIN Catches[u] : Catches[u][i] = n /\ Hears(u, i) /\ s = <<u, "catch", 0, i>>
                \/ \E i \in DOMAIN Completes[u] : Completes[u][i] = n /\ u \notin NoUow /\ s = <<u, "complete", 0, i>>
<1> DEFINE W(u) == UNION {{<<u, "wire", p, i>> : i \in Hits(Wires[u][p], n)} : p \in Ports(u)}
           C(u) == {<<u, "catch", 0, i>> : i \in {j \in Hits(Catches[u], n) : Hears(u, j)}}
           F(u) == {<<u, "complete", 0, i>> : i \in IF u \in NoUow THEN {} ELSE Hits(Completes[u], n)}
           A(u) == W(u) \cup C(u) \cup F(u)
<1>a. Slots(n) = {<<n, "source", 0, 0>>} \cup UNION {A(u) : u \in Nodes}
  BY Zenon DEF Slots
<1>b. \A u : s \in W(u) <=> \E p \in Ports(u) : \E i \in Hits(Wires[u][p], n) : s = <<u, "wire", p, i>>
  <2> SUFFICES ASSUME NEW u PROVE s \in W(u) <=> \E p \in Ports(u) : \E i \in Hits(Wires[u][p], n) : s = <<u, "wire", p, i>>
    OBVIOUS
  <2>1. s \in W(u) <=> \E p \in Ports(u) : s \in {<<u, "wire", p, i>> : i \in Hits(Wires[u][p], n)}
    BY Zenon
  <2>2. QED
    BY <2>1, SMT
<1>c. \A u : s \in C(u) <=> \E i \in {j \in Hits(Catches[u], n) : Hears(u, j)} : s = <<u, "catch", 0, i>>
  BY Zenon
<1>d. \A u : s \in F(u) <=> \E i \in IF u \in NoUow THEN {} ELSE Hits(Completes[u], n) : s = <<u, "complete", 0, i>>
  BY Zenon
<1>e. \A u : s \in A(u) <=> s \in W(u) \/ s \in C(u) \/ s \in F(u)
  BY Zenon
<1> HIDE DEF A
<1>f. s \in UNION {A(u) : u \in Nodes} <=> \E u \in Nodes : s \in A(u)
  BY Zenon
<1>g. s \in Slots(n) <=> s = <<n, "source", 0, 0>> \/ \E u \in Nodes : s \in A(u)
  BY <1>a, <1>f, Zenon
<1> HIDE DEF W, C, F
<1>1. s \in Slots(n) <=>
        \/ s = <<n, "source", 0, 0>>
        \/ \E u \in Nodes :
             \/ \E p \in Ports(u) : \E i \in Hits(Wires[u][p], n) : s = <<u, "wire", p, i>>
             \/ \E i \in {j \in Hits(Catches[u], n) : Hears(u, j)} : s = <<u, "catch", 0, i>>
             \/ \E i \in IF u \in NoUow THEN {} ELSE Hits(Completes[u], n) : s = <<u, "complete", 0, i>>
  BY <1>b, <1>c, <1>d, <1>e, <1>g, Zenon
<1>2. \A u, p, i : i \in Hits(Wires[u][p], n) <=> i \in DOMAIN Wires[u][p] /\ Wires[u][p][i] = n
  BY DEF Hits
<1>3. \A u, i : i \in Hits(Catches[u], n) <=> i \in DOMAIN Catches[u] /\ Catches[u][i] = n
  BY DEF Hits
<1>4. \A u, i : i \in Hits(Completes[u], n) <=> i \in DOMAIN Completes[u] /\ Completes[u][i] = n
  BY DEF Hits
<1>5. QED
  BY <1>1, <1>2, <1>3, <1>4

\* What is done for a slot of each form.
LEMMA DoneIs ==
  ASSUME NEW CONSTANT s, NEW CONSTANT u, NEW CONSTANT p, NEW CONSTANT i, NEW CONSTANT o
  PROVE  /\ s = <<u, "source", 0, 0>> => Done(s, o) = SourceDone(u, o) /\ Done(s, o)' = SourceDone(u, o)'
         /\ s = <<u, "wire", p, i>> => Done(s, o) = WireDone(u, p, i, o) /\ Done(s, o)' = WireDone(u, p, i, o)'
         /\ s = <<u, "catch", 0, i>> => Done(s, o) = CatchDone(u, i, o) /\ Done(s, o)' = CatchDone(u, i, o)'
         /\ s = <<u, "complete", 0, i>> => Done(s, o) = CompleteDone(u, i, o) /\ Done(s, o)' = CompleteDone(u, i, o)'
<1>1. ASSUME s = <<u, "source", 0, 0>> PROVE Done(s, o) = SourceDone(u, o) /\ Done(s, o)' = SourceDone(u, o)'
  <2>1. s[1] = u /\ s[2] = "source"
    BY <1>1
  <2>2. Done(s, o) = SourceDone(u, o)
    BY <2>1 DEF Done
  <2>3. Done(s, o)' = SourceDone(u, o)'
    BY <2>1 DEF Done, SourceDone
  <2>4. QED
    BY <2>2, <2>3
<1>2. ASSUME s = <<u, "wire", p, i>> PROVE Done(s, o) = WireDone(u, p, i, o) /\ Done(s, o)' = WireDone(u, p, i, o)'
  <2>1. s[1] = u /\ s[2] = "wire" /\ s[3] = p /\ s[4] = i
    BY <1>2
  <2>2. Done(s, o) = WireDone(u, p, i, o)
    BY <2>1 DEF Done
  <2>3. Done(s, o)' = WireDone(u, p, i, o)'
    BY <2>1 DEF Done, WireDone, WireOpen, Busy, Org
  <2>4. QED
    BY <2>2, <2>3
<1>3. ASSUME s = <<u, "catch", 0, i>> PROVE Done(s, o) = CatchDone(u, i, o) /\ Done(s, o)' = CatchDone(u, i, o)'
  <2>1. s[1] = u /\ s[2] = "catch" /\ s[4] = i
    BY <1>3
  <2>2. Done(s, o) = CatchDone(u, i, o)
    BY <2>1 DEF Done
  <2>3. Done(s, o)' = CatchDone(u, i, o)'
    BY <2>1 DEF Done, CatchDone, CatchOpen, Busy, Org
  <2>4. QED
    BY <2>2, <2>3
<1>4. ASSUME s = <<u, "complete", 0, i>> PROVE Done(s, o) = CompleteDone(u, i, o) /\ Done(s, o)' = CompleteDone(u, i, o)'
  <2>1. s[1] = u /\ s[2] = "complete" /\ s[4] = i
    BY <1>4
  <2>2. Done(s, o) = CompleteDone(u, i, o)
    BY <2>1 DEF Done
  <2>3. Done(s, o)' = CompleteDone(u, i, o)'
    BY <2>1 DEF Done, CompleteDone, CompleteOpen, Busy, Org
  <2>4. QED
    BY <2>2, <2>3
<1>5. QED
  BY <1>1, <1>2, <1>3, <1>4

\* Nothing of what node u owes for o is put into a queue.
Frame(u, o) ==
  /\ \A p \in Ports(u) : \A i \in DOMAIN Wires[u][p] : WireDone(u, p, i, o)' = WireDone(u, p, i, o)
  /\ \A i \in DOMAIN Catches[u] : Hears(u, i) => CatchDone(u, i, o)' = CatchDone(u, i, o)
  /\ \A i \in DOMAIN Completes[u] : u \notin NoUow => CompleteDone(u, i, o)' = CompleteDone(u, i, o)

\* All but slot x stay.
LEMMA FrameOf ==
  ASSUME NEW x, NEW o, NEW n, SourceDone(n, o)' = SourceDone(n, o) \/ x = <<n, "source", 0, 0>>,
         \A u \in Nodes :
            /\ \A p \in Ports(u) : \A i \in DOMAIN Wires[u][p] : x # <<u, "wire", p, i>> => WireDone(u, p, i, o)' = WireDone(u, p, i, o)
            /\ \A i \in DOMAIN Catches[u] : Hears(u, i) /\ x # <<u, "catch", 0, i>> => CatchDone(u, i, o)' = CatchDone(u, i, o)
            /\ \A i \in DOMAIN Completes[u] : u \notin NoUow /\ x # <<u, "complete", 0, i>> =>
                   CompleteDone(u, i, o)' = CompleteDone(u, i, o)
  PROVE  \A s \in Slots(n) \ {x} : Done(s, o)' = Done(s, o)
<1> SUFFICES ASSUME NEW s \in Slots(n), s # x PROVE Done(s, o)' = Done(s, o)
  OBVIOUS
<1>1. CASE s = <<n, "source", 0, 0>>
  <2>1. Done(s, o)' = SourceDone(n, o)' /\ Done(s, o) = SourceDone(n, o)
    BY <1>1, DoneIs
  <2>2. QED
    BY <1>1, <2>1
<1>2. ASSUME NEW u \in Nodes, NEW p \in Ports(u), NEW i \in DOMAIN Wires[u][p], s = <<u, "wire", p, i>> PROVE Done(s, o)' = Done(s, o)
  <2>1. Done(s, o)' = WireDone(u, p, i, o)' /\ Done(s, o) = WireDone(u, p, i, o)
    BY <1>2, DoneIs
  <2>2. QED
    BY <1>2, <2>1
<1>3. ASSUME NEW u \in Nodes, NEW i \in DOMAIN Catches[u], Hears(u, i), s = <<u, "catch", 0, i>> PROVE Done(s, o)' = Done(s, o)
  <2>1. Done(s, o)' = CatchDone(u, i, o)' /\ Done(s, o) = CatchDone(u, i, o)
    BY <1>3, DoneIs
  <2>2. QED
    BY <1>3, <2>1
<1>4. ASSUME NEW u \in Nodes, NEW i \in DOMAIN Completes[u], u \notin NoUow, s = <<u, "complete", 0, i>> PROVE Done(s, o)' = Done(s, o)
  <2>1. Done(s, o)' = CompleteDone(u, i, o)' /\ Done(s, o) = CompleteDone(u, i, o)
    BY <1>4, DoneIs
  <2>2. QED
    BY <1>4, <2>1
<1>5. QED
  BY <1>1, <1>2, <1>3, <1>4, SlotForms

\* When no node puts anything into a queue every slot stays.
LEMMA FrameAll ==
  ASSUME NEW o, NEW n, SourceDone(n, o)' = SourceDone(n, o), \A u \in Nodes : Frame(u, o)
  PROVE  \A s \in Slots(n) : Done(s, o)' = Done(s, o)
<1>1. PICK x : x = <<0, "none", 0, 0>>
  OBVIOUS
<1>2. \A s \in Slots(n) \ {x} : Done(s, o)' = Done(s, o)
  BY FrameOf DEF Frame
<1>3. \A u, p, i : x # <<u, "source", p, i>> /\ x # <<u, "wire", p, i>> /\ x # <<u, "catch", p, i>> /\ x # <<u, "complete", p, i>>
  BY <1>1
<1>4. x \notin Slots(n)
  BY <1>3, SlotForms
<1>5. QED
  BY <1>2, <1>4

\* A node that does not step.
LEMMA FrameOther ==
  ASSUME MsgTypes, HeapOk, NEW u \in Nodes, NEW o, pc'[u] = pc[u], msg'[u] = msg[u], out'[u] = out[u], idx'[u] = idx[u],
         taken'[u] = taken[u], failed'[u] = failed[u], routed'[u] = routed[u]
  PROVE  Frame(u, o)
<1>1. Busy(u, o)' <=> Busy(u, o)
  <2>1. CASE pc[u] \in {"recv", "stopped"}
    BY <2>1 DEF Busy
  <2>2. CASE pc[u] \notin {"recv", "stopped"}
    <3>1. msg[u] \in 1 .. Len(heap)
      BY <2>2, HasMessage
    <3>2. heap'[msg[u]].org = heap[msg[u]].org
      BY <3>1 DEF HeapOk
    <3>3. QED
      BY <2>2, <3>2 DEF Busy, Org
  <2>3. QED
    BY <2>1, <2>2
<1>2. \A p, i : WireDone(u, p, i, o)' = WireDone(u, p, i, o)
  BY <1>1 DEF WireDone, WireOpen
<1>3. \A i : CatchDone(u, i, o)' = CatchDone(u, i, o) /\ CompleteDone(u, i, o)' = CompleteDone(u, i, o)
  BY <1>1 DEF CatchDone, CompleteDone, CatchOpen, CompleteOpen
<1>4. QED
  BY <1>2, <1>3 DEF Frame

\* The messages of o in the queue of a node.
OfOrigin(o) == {h \in 1 .. Len(heap) : heap[h].org = o}
\* The messages of o that wait, as marked places of the queue.
LEMMA WaitingIs ==
  ASSUME MsgTypes, NEW n \in Nodes, NEW o
  PROVE  Waiting(n, o) = Marked(queue[n], OfOrigin(o)) /\ queue[n] \in Seq(1 .. Len(heap))
<1>1. queue[n] \in Seq(1 .. Len(heap))
  BY DEF MsgTypes, QueuesTyped, Handles
<1>2. \A i \in DOMAIN queue[n] : queue[n][i] \in 1 .. Len(heap)
  BY <1>1
<1>3. QED
  BY <1>1, <1>2 DEF Waiting, Marked, OfOrigin

\* A queue that stays, seen in the new heap.
LEMMA OriginsStay ==
  ASSUME MsgTypes, HeapOk, NEW n \in Nodes, NEW o
  PROVE  Marked(queue[n], OfOrigin(o)') = Marked(queue[n], OfOrigin(o)) /\ queue[n] \in Seq(1 .. Len(heap'))
<1>1. queue[n] \in Seq(1 .. Len(heap)) /\ queue[n] \in Seq(1 .. Len(heap'))
  BY WaitingIs, HandlesGrow
<1>2. \A i \in DOMAIN queue[n] : queue[n][i] \in 1 .. Len(heap) /\ queue[n][i] \in 1 .. Len(heap')
  BY <1>1
<1>3. \A i \in DOMAIN queue[n] : heap'[queue[n][i]].org = heap[queue[n][i]].org
  BY <1>2 DEF HeapOk
<1>4. QED
  BY <1>1, <1>2, <1>3 DEF Marked, OfOrigin

\* What is settled, as pairs.
LEMMA SettledIs ==
  ASSUME NEW n, NEW o, \A s \in Slots(n) : Done(s, o) \in Nat
  PROVE  /\ Settled(n, o) = Pairs([s \in Slots(n) |-> Done(s, o)], Slots(n))
         /\ [s \in Slots(n) |-> Done(s, o)] \in [Slots(n) -> Nat]
BY DEF Settled, Pairs

\* The same after a step.
LEMMA SettledPrimeIs ==
  ASSUME NEW CONSTANT n, NEW CONSTANT o, \A s \in Slots(n) : Done(s, o)' \in Nat
  PROVE  /\ Settled(n, o)' = Pairs([s \in Slots(n) |-> Done(s, o)'], Slots(n))
         /\ [s \in Slots(n) |-> Done(s, o)'] \in [Slots(n) -> Nat]
<1>1. Settled(n, o)' = UNION {{s} \X (1 .. Done(s, o)') : s \in Slots(n)}
  BY DEF Settled
<1>2. QED
  BY <1>1 DEF Pairs

\* The messages of o that wait after a step.
LEMMA WaitingPrime ==
  ASSUME MsgTypes', NEW CONSTANT n \in Nodes, NEW CONSTANT o
  PROVE  Waiting(n, o)' = Marked(queue'[n], OfOrigin(o)') /\ queue'[n] \in Seq(1 .. Len(heap'))
<1>1. (MsgTypes => Waiting(n, o) = Marked(queue[n], OfOrigin(o)) /\ queue[n] \in Seq(1 .. Len(heap)))'
  BY WaitingIs, PTL
<1>2. QED
  BY <1>1 DEF Marked

\* The counters are natural numbers before and after a step.
LEMMA TakenTyped ==
  ASSUME MsgTypes, MsgTypes', NEW n \in Nodes, NEW o \in Origins
  PROVE  taken[n][o] \in Nat /\ taken'[n][o] \in Nat /\ failed[n][o] \in Nat /\ failed'[n][o] \in Nat
BY DEF MsgTypes, CountsTyped, Counters

\* The books of n balance when no slot changes and what leaves the queue is taken.
LEMMA BalanceStays ==
  ASSUME MsgTypes, HeapOk, MsgTypes', NEW n \in Nodes, NEW o \in Origins, Balance(n, o), \A s \in Slots(n) : Done(s, o)' = Done(s, o),
         Cardinality(Marked(queue'[n], OfOrigin(o)')) + taken'[n][o] = Cardinality(Marked(queue[n], OfOrigin(o))) + taken[n][o]
  PROVE  Balance(n, o)'
<1>1. Waiting(n, o) = Marked(queue[n], OfOrigin(o)) /\ Waiting(n, o)' = Marked(queue'[n], OfOrigin(o)')
  BY WaitingIs, WaitingPrime
<1>2. \A s \in Slots(n) : Done(s, o)' \in Nat
  BY DEF Balance
<1>3. Settled(n, o)' = Settled(n, o)
  BY DEF Settled
<1>4. Cardinality(Waiting(n, o)) \in Nat /\ Cardinality(Waiting(n, o)') \in Nat
  BY <1>1, WaitingIs, MarkedFinite, WaitingPrime
<1>5. taken[n][o] \in Nat /\ taken'[n][o] \in Nat
  BY TakenTyped
<1>6. Cardinality(Settled(n, o)') = taken'[n][o] + Cardinality(Waiting(n, o)')
  <2>1. Cardinality(Settled(n, o)) = taken[n][o] + Cardinality(Waiting(n, o))
    BY DEF Balance
  <2>2. Cardinality(Waiting(n, o)') + taken'[n][o] = Cardinality(Waiting(n, o)) + taken[n][o]
    BY <1>1
  <2>3. QED
    BY <1>3, <1>4, <1>5, <2>1, <2>2
<1>7. QED
  BY <1>2, <1>3, <1>6 DEF Balance

---------------------------------------------------------------------------
(* The books of a step.                                                    *)

\* A slot belongs to one node.
LEMMA SlotOwner ==
  ASSUME NEW m, NEW n, NEW s \in Slots(m), s \in Slots(n)
  PROVE  m = n
<1>1. CASE s = <<m, "source", 0, 0>>
  <2>1. s[1] = m /\ s[2] = "source"
    BY <1>1
  <2>2. QED
    BY <2>1, SlotForms
<1>2. ASSUME NEW u \in Nodes, NEW p \in Ports(u), NEW i \in DOMAIN Wires[u][p], Wires[u][p][i] = m, s = <<u, "wire", p, i>> PROVE m = n
  BY <1>2, SlotForms
<1>3. ASSUME NEW u \in Nodes, NEW i \in DOMAIN Catches[u], Catches[u][i] = m, s = <<u, "catch", 0, i>> PROVE m = n
  BY <1>3, SlotForms
<1>4. ASSUME NEW u \in Nodes, NEW i \in DOMAIN Completes[u], Completes[u][i] = m, s = <<u, "complete", 0, i>> PROVE m = n
  BY <1>4, SlotForms
<1>5. QED
  BY <1>1, <1>2, <1>3, <1>4, SlotForms

\* A message of o, or of another origin, joins or leaves the queue.
LEMMA BalanceGains ==
  ASSUME MsgTypes, HeapOk, MsgTypes', NEW n \in Nodes, NEW o \in Origins, Balance(n, o),
         NEW x \in Slots(n), Done(x, o)' = Done(x, o) + 1, \A s \in Slots(n) \ {x} : Done(s, o)' = Done(s, o),
         NEW h \in 1 .. Len(heap'), heap'[h].org = o, queue'[n] = Append(queue[n], h), taken'[n][o] = taken[n][o]
  PROVE  Balance(n, o)'
<1>1. \A s \in Slots(n) : Done(s, o) \in Nat /\ Done(s, o)' \in Nat
  BY DEF Balance
<1>2. PICK f : f = [s \in Slots(n) |-> Done(s, o)]
  OBVIOUS
<1>3. PICK g : g = [s \in Slots(n) |-> Done(s, o)']
  OBVIOUS
<1>4. Settled(n, o) = Pairs(f, Slots(n)) /\ f \in [Slots(n) -> Nat]
  BY <1>1, <1>2, SettledIs
<1>5. Settled(n, o)' = Pairs(g, Slots(n)) /\ g \in [Slots(n) -> Nat]
  BY <1>1, <1>3, SettledPrimeIs
<1>6. g[x] = f[x] + 1 /\ \A s \in Slots(n) \ {x} : g[s] = f[s]
  BY <1>1, <1>2, <1>3
<1>7. IsFiniteSet(Pairs(f, Slots(n)))
  BY <1>4 DEF Balance
<1>8. IsFiniteSet(Settled(n, o)') /\ Cardinality(Settled(n, o)') = Cardinality(Settled(n, o)) + 1
  BY <1>4, <1>5, <1>6, <1>7, PairsGrow
<1>9. queue[n] \in Seq(1 .. Len(heap')) /\ Marked(queue[n], OfOrigin(o)') = Waiting(n, o)
  BY OriginsStay, WaitingIs
<1>10. h \in OfOrigin(o)'
  BY DEF OfOrigin
<1>11. Cardinality(Waiting(n, o)') = Cardinality(Waiting(n, o)) + 1
  <2>1. Waiting(n, o)' = Marked(Append(queue[n], h), OfOrigin(o)')
    BY WaitingPrime
  <2>2. Cardinality(Marked(Append(queue[n], h), OfOrigin(o)')) = Cardinality(Marked(queue[n], OfOrigin(o)')) + Bit(h \in OfOrigin(o)')
    BY <1>9, MarkedAppend
  <2>3. QED
    BY <1>9, <1>10, <2>1, <2>2 DEF Bit
<1>12. Cardinality(Waiting(n, o)) \in Nat /\ taken[n][o] \in Nat
  BY WaitingIs, MarkedFinite, TakenTyped
<1>13. Cardinality(Settled(n, o)) = taken[n][o] + Cardinality(Waiting(n, o))
  BY DEF Balance
<1>14. Cardinality(Settled(n, o)') = taken'[n][o] + Cardinality(Waiting(n, o)')
  <2> DEFINE k == taken[n][o]
             c == Cardinality(Waiting(n, o))
  <2>1. k \in Nat /\ c \in Nat /\ taken'[n][o] = k
    BY <1>12
  <2>2. Cardinality(Settled(n, o)') = (k + c) + 1 /\ Cardinality(Waiting(n, o)') = c + 1
    BY <1>8, <1>11, <1>13
  <2> HIDE DEF k, c
  <2>3. QED
    BY <2>1, <2>2
<1>15. QED
  BY <1>1, <1>8, <1>14 DEF Balance

\* The books of a node whose queue stays.
LEMMA BalanceSame ==
  ASSUME MsgTypes, HeapOk, MsgTypes', NEW n \in Nodes, NEW o \in Origins, Balance(n, o), \A s \in Slots(n) : Done(s, o)' = Done(s, o),
         queue'[n] = queue[n], taken'[n][o] = taken[n][o]
  PROVE  Balance(n, o)'
<1>1. Marked(queue'[n], OfOrigin(o)') = Marked(queue[n], OfOrigin(o))
  BY OriginsStay
<1>2. QED
  BY <1>1, BalanceStays

\* A message of another origin joins the queue.
LEMMA BalanceMisses ==
  ASSUME MsgTypes, HeapOk, MsgTypes', NEW n \in Nodes, NEW o \in Origins, Balance(n, o), \A s \in Slots(n) : Done(s, o)' = Done(s, o),
         NEW h \in 1 .. Len(heap'), heap'[h].org # o, queue'[n] = Append(queue[n], h), taken'[n][o] = taken[n][o]
  PROVE  Balance(n, o)'
<1>1. queue[n] \in Seq(1 .. Len(heap')) /\ Marked(queue[n], OfOrigin(o)') = Marked(queue[n], OfOrigin(o))
  BY OriginsStay
<1>2. h \notin OfOrigin(o)'
  BY DEF OfOrigin
<1>3. Cardinality(Marked(Append(queue[n], h), OfOrigin(o)')) = Cardinality(Marked(queue[n], OfOrigin(o)')) + Bit(h \in OfOrigin(o)')
  BY <1>1, MarkedAppend
<1>4. Cardinality(Marked(queue[n], OfOrigin(o))) \in Nat
  BY WaitingIs, MarkedFinite
<1>5. Cardinality(Marked(queue'[n], OfOrigin(o)')) = Cardinality(Marked(queue[n], OfOrigin(o)))
  BY <1>1, <1>2, <1>3, <1>4 DEF Bit
<1>6. QED
  BY <1>5, BalanceStays

\* The node takes the head of its queue.
LEMMA BalanceTakes ==
  ASSUME MsgTypes, UNCHANGED heap, HeapOk, MsgTypes', NEW n \in Nodes, NEW o \in Origins, Balance(n, o), \A s \in Slots(n) : Done(s, o)' = Done(s, o),
         queue[n] # <<>>, queue'[n] = Tail(queue[n]), taken'[n][o] = taken[n][o] + Bit(heap[Head(queue[n])].org = o)
  PROVE  Balance(n, o)'
<1>1. queue[n] \in Seq(1 .. Len(heap)) /\ OfOrigin(o)' = OfOrigin(o)
  BY WaitingIs DEF OfOrigin
<1>2. Head(queue[n]) \in 1 .. Len(heap)
  BY <1>1
<1>3. Cardinality(Marked(queue[n], OfOrigin(o))) = Cardinality(Marked(Tail(queue[n]), OfOrigin(o))) + Bit(Head(queue[n]) \in OfOrigin(o))
  BY <1>1, MarkedTail
<1>4. Head(queue[n]) \in OfOrigin(o) <=> heap[Head(queue[n])].org = o
  BY <1>2 DEF OfOrigin
<1>5. Cardinality(Marked(Tail(queue[n]), OfOrigin(o))) \in Nat
  <2>1. Tail(queue[n]) \in Seq(1 .. Len(heap))
    BY <1>1, HeadTailProperties
  <2>2. QED
    BY <2>1, MarkedFinite
<1>6. taken[n][o] \in Nat
  BY TakenTyped
<1>7. Cardinality(Marked(queue'[n], OfOrigin(o)')) + taken'[n][o] = Cardinality(Marked(queue[n], OfOrigin(o))) + taken[n][o]
  BY <1>1, <1>3, <1>4, <1>5, <1>6 DEF Bit
<1>8. QED
  BY <1>7, BalanceStays

\* The other nodes of a step.
OthersSame(n) ==
  \A u \in Nodes \ {n} :
    /\ pc'[u] = pc[u] /\ msg'[u] = msg[u] /\ out'[u] = out[u] /\ idx'[u] = idx[u] /\ copy'[u] = copy[u] /\ err'[u] = err[u]
    /\ taken'[u] = taken[u] /\ failed'[u] = failed[u] /\ routed'[u] = routed[u]

\* The books of all nodes balance.
Balanced == \A n \in Nodes, o \in Origins : Balance(n, o)

\* The nodes that do not step put nothing into a queue.
LEMMA OthersFrame ==
  ASSUME MsgTypes, HeapOk, NEW n, OthersSame(n)
  PROVE  \A u \in Nodes \ {n}, o \in Origins : Frame(u, o)
BY FrameOther DEF OthersSame

\* Without an injection the source slots stay.
LEMMA SourceStays ==
  ASSUME UNCHANGED origin, NEW n, NEW o
  PROVE  SourceDone(n, o)' = SourceDone(n, o)
BY DEF SourceDone

\* A step of n that puts nothing into a queue keeps all books.
LEMMA QuietStep ==
  ASSUME MsgTypes, HeapOk, MsgTypes', Balanced, NEW n \in Nodes, OthersSame(n), UNCHANGED <<queue, taken, origin>>,
         \A o \in Origins : Frame(n, o)
  PROVE  Balanced'
<1> SUFFICES ASSUME NEW m \in Nodes, NEW o \in Origins PROVE Balance(m, o)'
  BY DEF Balanced, Origins
<1>1. \A u \in Nodes : Frame(u, o)
  BY OthersFrame
<1>2. \A s \in Slots(m) : Done(s, o)' = Done(s, o)
  BY <1>1, SourceStays, FrameAll
<1>3. QED
  BY <1>2, BalanceSame DEF Balanced

\* Slot x gives its node d a message of origin o.
LEMMA SendStep ==
  ASSUME MsgTypes, HeapOk, MsgTypes', Balanced, NEW d \in Nodes, NEW o \in Origins, NEW x \in Slots(d), UNCHANGED taken,
         NEW h \in 1 .. Len(heap'), heap'[h].org = o, queue' = [queue EXCEPT ![d] = Append(@, h)],
         Done(x, o)' = Done(x, o) + 1,
         \A w \in Origins : \A m \in Nodes : \A s \in Slots(m) \ {x} : Done(s, w)' = Done(s, w),
         \A w \in Origins : w # o => Done(x, w)' = Done(x, w)
  PROVE  Balanced'
<1> SUFFICES ASSUME NEW m \in Nodes, NEW w \in Origins PROVE Balance(m, w)'
  BY DEF Balanced, Origins
<1>1. Balance(m, w) /\ taken'[m][w] = taken[m][w]
  BY DEF Balanced
<1>2. queue'[d] = Append(queue[d], h) /\ \A u \in Nodes \ {d} : queue'[u] = queue[u]
  BY DEF MsgTypes, QueuesTyped
<1>3. CASE m = d /\ w = o
  BY <1>1, <1>2, <1>3, BalanceGains
<1>4. CASE m = d /\ w # o
  <2>1. \A s \in Slots(m) : Done(s, w)' = Done(s, w)
    BY <1>4
  <2>2. QED
    BY <1>1, <1>2, <1>4, <2>1, BalanceMisses
<1>5. CASE m # d
  <2>1. x \notin Slots(m)
    BY <1>5, SlotOwner
  <2>2. \A s \in Slots(m) : Done(s, w)' = Done(s, w)
    BY <2>1
  <2>3. QED
    BY <1>1, <1>2, <1>5, <2>2, BalanceSame
<1>6. QED
  BY <1>3, <1>4, <1>5

---------------------------------------------------------------------------
(* Actions that settle nothing.                                            *)

\* The message a node works on keeps its origin.
LEMMA OrgStays ==
  ASSUME MsgTypes, HeapOk, NEW n \in Nodes, pc[n] \notin {"recv", "stopped"}, msg'[n] = msg[n]
  PROVE  Org(n)' = Org(n)
BY HasMessage DEF HeapOk, Org

\* A node that goes on with its message is busy with the same origin.
LEMMA BusyStays ==
  ASSUME MsgTypes, HeapOk, NEW n \in Nodes, pc[n] \notin {"recv", "stopped"}, pc'[n] \notin {"recv", "stopped"}, msg'[n] = msg[n], NEW o
  PROVE  /\ Busy(n, o)' <=> Busy(n, o)
         /\ Busy(n, o) <=> o = Org(n)
BY OrgStays DEF Busy

\* When the counters of n stay, it is enough that what is still open stays.
LEMMA FrameOpen ==
  ASSUME NEW n, NEW o, taken'[n] = taken[n], failed'[n] = failed[n], routed'[n] = routed[n],
         \A p \in Ports(n) : \A i \in DOMAIN Wires[n][p] : WireOpen(n, p, i, o)' <=> WireOpen(n, p, i, o),
         \A i \in DOMAIN Catches[n] : Hears(n, i) => (CatchOpen(n, i, o)' <=> CatchOpen(n, i, o)),
         \A i \in DOMAIN Completes[n] : n \notin NoUow => (CompleteOpen(n, i, o)' <=> CompleteOpen(n, i, o))
  PROVE  Frame(n, o)
BY DEF Frame, WireDone, CatchDone, CompleteDone, Bit

\* Sends are in flight only at the fan-out.
LEMMA EmptyOut ==
  ASSUME MsgTypes, NEW n \in Nodes, pc[n] # "fan"
  PROVE  DOMAIN out[n] = {}
BY DEF MsgTypes, OutsTyped, OutTyped

\* Mutate, Guard: getting the lock settles nothing.
LEMMA MutateBalance ==
  ASSUME MsgTypes, MsgTypes', Balanced, NEW n \in Nodes, pc[n] = "lock", HeapOk, pc' = [pc EXCEPT ![n] = "work"],
         UNCHANGED <<queue, msg, out, idx, copy, err, cancelled, origin, taken, failed, routed>>
  PROVE  Balanced'
<1>1. pc'[n] = "work" /\ OthersSame(n)
  BY DEF MsgTypes, Controls, OthersSame
<1>2. ASSUME NEW o \in Origins PROVE Frame(n, o)
  <2>1. Busy(n, o)' <=> Busy(n, o)
    BY <1>1, BusyStays
  <2>2. DOMAIN out[n] = {}
    BY EmptyOut
  <2>3. \A p, i : WireOpen(n, p, i, o)' <=> WireOpen(n, p, i, o)
    BY <1>1, <2>1, <2>2 DEF WireOpen
  <2>4. \A i : CatchOpen(n, i, o)' <=> CatchOpen(n, i, o)
    BY <1>1, <2>1 DEF CatchOpen
  <2>5. \A i : CompleteOpen(n, i, o)' <=> CompleteOpen(n, i, o)
    BY <1>1, <2>1 DEF CompleteOpen
  <2>6. QED
    BY <2>3, <2>4, <2>5, FrameOpen
<1>3. QED
  BY <1>1, <1>2, QuietStep

\* Nothing of the work of a node changes but the messages and the copy.
LEMMA StillBalance ==
  ASSUME MsgTypes, MsgTypes', Balanced, HeapOk,
         UNCHANGED <<queue, pc, msg, out, idx, cancelled, origin, taken, failed, routed>>
  PROVE  Balanced'
<1> SUFFICES ASSUME NEW m \in Nodes, NEW o \in Origins PROVE Balance(m, o)'
  BY DEF Balanced, Origins
<1>1. \A u \in Nodes : Frame(u, o)
  BY FrameOther
<1>2. \A s \in Slots(m) : Done(s, o)' = Done(s, o)
  BY <1>1, SourceStays, FrameAll
<1>3. QED
  BY <1>2, BalanceSame DEF Balanced

\* Clone: a deep clone settles nothing.
LEMMA CloneBalance ==
  ASSUME MsgTypes, MsgTypes', Balanced, NEW n \in Nodes, NEW p \in Ports(n), Clone(n, p), pc[n] = "fan", HeapOk
  PROVE  Balanced'
<1>1. OthersSame(n) /\ pc'[n] = pc[n] /\ msg'[n] = msg[n] /\ idx'[n] = idx[n]
  BY DEF MsgTypes, OutsTyped, Clone, OthersSame
<1>2. DOMAIN out'[n] = DOMAIN out[n] /\ \A q \in DOMAIN out[n] : out'[n][q].next = out[n][q].next
  BY DEF MsgTypes, OutsTyped, OutTyped, Clone
<1>3. ASSUME NEW o \in Origins PROVE Frame(n, o)
  <2>1. Busy(n, o)' <=> Busy(n, o)
    BY <1>1, BusyStays
  <2>3. \A q, i : WireOpen(n, q, i, o)' <=> WireOpen(n, q, i, o)
    BY <1>1, <1>2, <2>1 DEF WireOpen
  <2>4. \A i : CatchOpen(n, i, o)' <=> CatchOpen(n, i, o)
    BY <1>1, <2>1 DEF CatchOpen
  <2>5. \A i : CompleteOpen(n, i, o)' <=> CompleteOpen(n, i, o)
    BY <1>1, <2>1 DEF CompleteOpen
  <2>6. QED
    BY <2>3, <2>4, <2>5, FrameOpen DEF Clone
<1>4. QED
  BY <1>1, <1>3, QuietStep DEF Clone

\* FanDone: all wires are served, and the complete nodes are open or there are none.
LEMMA FanDoneBalance ==
  ASSUME MsgTypes, MsgTypes', Balanced, NEW n \in Nodes, FanDone(n), UnitInv(n), HeapOk
  PROVE  Balanced'
<1>1. OthersSame(n) /\ pc[n] = "fan" /\ msg'[n] = msg[n] /\ idx'[n] = idx[n] /\ idx[n] = 1 /\ ~err[n] /\ out'[n] = out[n] /\ DOMAIN out[n] = {}
  BY DEF MsgTypes, Controls, FanDone, OthersSame, UnitInv
<1>2. /\ pc'[n] \in {"complete", "recv", "stopped"}
      /\ pc'[n] # "complete" => n \in NoUow \/ Completes[n] = <<>>
  BY <1>1 DEF FanDone, MsgTypes, Controls, NextTurn
<1>3. ASSUME NEW o \in Origins PROVE Frame(n, o)
  <2>2. \A q, i : ~WireOpen(n, q, i, o)' /\ ~WireOpen(n, q, i, o)
    BY <1>1, <1>2 DEF WireOpen
  <2>3. \A i : ~CatchOpen(n, i, o)' /\ ~CatchOpen(n, i, o)
    BY <1>1, <1>2 DEF CatchOpen
  <2>4. ASSUME NEW i \in DOMAIN Completes[n], n \notin NoUow PROVE CompleteOpen(n, i, o)' <=> CompleteOpen(n, i, o)
    <3>1. Completes[n] \in Seq(Nodes) /\ i \in Nat /\ i >= 1 /\ Completes[n] # <<>>
      BY MessagingAssumption
    <3>2. pc'[n] = "complete"
      BY <1>2, <2>4, <3>1
    <3>3. Busy(n, o)' <=> Busy(n, o)
      BY <1>1, <3>2, BusyStays
    <3>4. QED
      BY <1>1, <3>1, <3>2, <3>3 DEF CompleteOpen
  <2>5. QED
    BY <2>2, <2>3, <2>4, FrameOpen DEF FanDone
<1>4. QED
  BY <1>1, <1>3, QuietStep DEF FanDone

\* Reported: the listeners left over are the catch nodes that do not hear of the error.
LEMMA ReportedBalance ==
  ASSUME MsgTypes, MsgTypes', Balanced, NEW n \in Nodes, Reported(n), UnitInv(n), HeapOk
  PROVE  Balanced'
<1>1. OthersSame(n) /\ pc[n] \in {"catch", "complete"} /\ msg'[n] = msg[n] /\ idx'[n] = 1 /\ out'[n] = out[n] /\ DOMAIN out[n] = {}
  BY EmptyOut DEF MsgTypes, Controls, Reported, OthersSame
<1>2. pc'[n] = IF pc[n] = "catch" THEN "complete" ELSE NextTurn
  BY DEF Reported, MsgTypes, Controls
<1>3. NextTurn \in {"recv", "stopped"}
  BY DEF NextTurn
<1>4. idx[n] \in Nat \ {0}
  BY DEF MsgTypes, Controls
<1>5. ASSUME NEW o \in Origins PROVE Frame(n, o)
  <2>2. \A q, i : ~WireOpen(n, q, i, o)' /\ ~WireOpen(n, q, i, o)
    BY <1>1, <1>2, <1>3 DEF WireOpen
  <2>3. ASSUME NEW i \in DOMAIN Catches[n], Hears(n, i) PROVE ~CatchOpen(n, i, o)' /\ ~CatchOpen(n, i, o)
    <3>1. ~CatchOpen(n, i, o)'
      BY <1>1, <1>2, <1>3 DEF CatchOpen
    <3>2. ASSUME CatchOpen(n, i, o) PROVE FALSE
      <4>1. pc[n] = "catch" /\ i >= idx[n]
        BY <3>2 DEF CatchOpen
      <4>2. Catches[n] \in Seq(Nodes) /\ i \in 1 .. Len(Catches[n])
        BY MessagingAssumption
      <4>3. UncaughtStops(n, idx[n])
        BY <1>4, <4>1, <4>2 DEF Reported, Listening, Listeners
      <4>4. idx[n] \in 2 .. i
        BY <1>4, <4>1, <4>2, <4>3 DEF UncaughtStops
      <4>5. QED
        BY <2>3, <4>3, <4>4 DEF Hears, UncaughtStops
    <3>3. QED
      BY <3>1, <3>2
  <2>4. ASSUME NEW i \in DOMAIN Completes[n], n \notin NoUow PROVE CompleteOpen(n, i, o)' <=> CompleteOpen(n, i, o)
    <3>1. Completes[n] \in Seq(Nodes) /\ i \in 1 .. Len(Completes[n])
      BY MessagingAssumption
    <3>2. CASE pc[n] = "catch"
      <4>1. Busy(n, o)' <=> Busy(n, o)
        BY <1>1, <1>2, <3>2, BusyStays
      <4>2. QED
        BY <1>1, <1>2, <3>1, <3>2, <4>1 DEF CompleteOpen
    <3>3. CASE pc[n] = "complete"
      <4>1. ~CompleteOpen(n, i, o)'
        BY <1>2, <1>3, <3>3 DEF CompleteOpen, Busy
      <4>2. idx[n] > Len(Completes[n])
        BY <1>4, <3>1, <3>3 DEF Reported, Listening, Listeners
      <4>3. QED
        BY <1>4, <3>1, <3>3, <4>1, <4>2 DEF CompleteOpen
    <3>4. QED
      BY <1>1, <3>2, <3>3
  <2>5. QED
    BY <2>2, <2>3, <2>4, FrameOpen DEF Reported
<1>6. QED
  BY <1>1, <1>5, QuietStep DEF Reported

\* The wires of a port.
LEMMA PortTyped ==
  ASSUME NEW n \in Nodes, NEW p \in Ports(n), NEW i \in DOMAIN Wires[n][p]
  PROVE  Wires[n][p] \in Seq(Nodes) /\ i \in 1 .. Len(Wires[n][p]) /\ Wires[n][p] # <<>> /\ Wires[n][p][i] \in Nodes /\ p \in Nat
<1>1. Wires[n] \in Seq(Seq(Nodes))
  BY MessagingAssumption
<1>2. Wires[n][p] \in Seq(Nodes) /\ p \in Nat
  BY <1>1 DEF Ports
<1>3. QED
  BY <1>2

\* Recv raises one counter.
LEMMA TakenGrows ==
  ASSUME MsgTypes, NEW n \in Nodes, NEW c \in Origins, taken' = [taken EXCEPT ![n][c] = @ + 1]
  PROVE  \A u \in Nodes, x \in Origins : taken'[u][x] = IF u = n /\ x = c THEN taken[n][c] + 1 ELSE taken[u][x]
<1>1. taken \in [Nodes -> Counters]
  BY DEF MsgTypes, CountsTyped
<1>2. QED
  BY <1>1, CounterGrows

\* Fail: the wires of the first port are closed and the catch nodes opened, each against
\* the failure that is counted.
LEMMA FailBalance ==
  ASSUME MsgTypes, MsgTypes', Balanced, NEW n \in Nodes, Fail(n), UnitInv(n), HeapOk
  PROVE  Balanced'
<1>1. pc[n] = "work" /\ pc'[n] = "catch" /\ msg'[n] = msg[n] /\ idx'[n] = 1 /\ idx[n] = 1 /\ out'[n] = out[n] /\ DOMAIN out[n] = {}
      /\ taken'[n] = taken[n] /\ routed'[n] = routed[n]
  BY EmptyOut DEF MsgTypes, Controls, Fail, UnitInv
<1>2. PICK c \in Origins : c = Org(n) /\ failed' = [failed EXCEPT ![n][c] = @ + 1]
  BY <1>1, HasMessage DEF Fail, Org
<1>3. failed'[n][c] = failed[n][c] + 1 /\ \A w \in Origins \ {c} : failed'[n][w] = failed[n][w]
  <2>1. failed \in [Nodes -> Counters]
    BY DEF MsgTypes, CountsTyped
  <2>2. \A u \in Nodes, x \in Origins : failed'[u][x] = IF u = n /\ x = c THEN failed[n][c] + 1 ELSE failed[u][x]
    BY <1>2, <2>1, CounterGrows
  <2>3. QED
    BY <2>2
<1>4. OthersSame(n)
  BY <1>2 DEF MsgTypes, Controls, CountsTyped, Fail, OthersSame
<1>5. ASSUME NEW o \in Origins PROVE Frame(n, o)
  <2>1. (Busy(n, o)' <=> o = c) /\ (Busy(n, o) <=> o = c)
    BY <1>1, <1>2, BusyStays
  <2>2. taken[n][o] \in Nat /\ failed[n][o] \in Nat
    BY TakenTyped
  <2>3. ASSUME NEW p \in Ports(n), NEW i \in DOMAIN Wires[n][p] PROVE WireDone(n, p, i, o)' = WireDone(n, p, i, o)
    <3>1. ~WireOpen(n, p, i, o)'
      BY <1>1 DEF WireOpen
    <3>2. WireOpen(n, p, i, o) <=> o = c /\ n \notin Holders /\ p = 1
      BY <1>1, <2>1 DEF WireOpen
    <3>3. CASE n \in Holders
      BY <1>1, <3>1, <3>2, <3>3 DEF WireDone, Bit
    <3>4. CASE n \notin Holders
      BY <1>1, <1>3, <2>2, <3>1, <3>2, <3>4 DEF WireDone, Bit
    <3>5. QED
      BY <3>3, <3>4
  <2>4. ASSUME NEW i \in DOMAIN Catches[n] PROVE CatchDone(n, i, o)' = CatchDone(n, i, o)
    <3>1. i \in Nat /\ i >= 1
      BY MessagingAssumption
    <3>2. ~CatchOpen(n, i, o)
      BY <1>1 DEF CatchOpen
    <3>3. CatchOpen(n, i, o)' <=> o = c
      BY <1>1, <2>1, <3>1 DEF CatchOpen
    <3>4. QED
      BY <1>3, <2>2, <3>2, <3>3 DEF CatchDone, Bit
  <2>5. \A i : CompleteDone(n, i, o)' = CompleteDone(n, i, o)
    BY <1>1, <2>1 DEF CompleteDone, CompleteOpen
  <2>6. QED
    BY <2>3, <2>4, <2>5 DEF Frame
<1>6. QED
  BY <1>4, <1>5, QuietStep DEF Fail

\* Dispatch: the wires of the chosen ports are opened against the choice that is counted.
LEMMA DispatchBalance ==
  ASSUME MsgTypes, MsgTypes', Balanced, NEW n \in Nodes, Dispatch(n), HeapOk
  PROVE  Balanced'
<1>1. pc[n] = "work" /\ pc'[n] = "fan" /\ msg'[n] = msg[n] /\ idx'[n] = idx[n] /\ DOMAIN out[n] = {} /\ taken'[n] = taken[n] /\ failed'[n] = failed[n]
  BY EmptyOut DEF MsgTypes, Controls, Dispatch
<1>2. PICK c \in Origins : c = Org(n) /\ c = heap[msg[n]].org
  BY <1>1, HasMessage DEF Org
<1>3. PICK ps \in SUBSET Ports(n) :
        /\ n \notin Holders => ps = Ports(n) \cap {1}
        /\ out' = [out EXCEPT ![n] = [p \in {q \in ps : Wires[n][q] # <<>>} |-> [h |-> msg[n], next |-> 1]]]
        /\ routed' = IF n \in Holders
                     THEN [routed EXCEPT ![n] = [p \in Ports(n) |->
                              IF p \in ps THEN [routed[n][p] EXCEPT ![c] = @ + 1] ELSE routed[n][p]]]
                     ELSE routed
  BY <1>2 DEF Dispatch
<1>4. OthersSame(n)
  BY <1>3 DEF MsgTypes, Controls, CountsTyped, OutsTyped, Dispatch, OthersSame
<1>5. out'[n] = [p \in {q \in ps : Wires[n][q] # <<>>} |-> [h |-> msg[n], next |-> 1]]
  BY <1>3 DEF MsgTypes, OutsTyped
<1>6. DOMAIN out'[n] = {q \in ps : Wires[n][q] # <<>>} /\ \A p \in DOMAIN out'[n] : out'[n][p].next = 1
  BY <1>5
<1>7. ASSUME NEW o \in Origins PROVE Frame(n, o)
  <2>1. (Busy(n, o)' <=> o = c) /\ (Busy(n, o) <=> o = c)
    BY <1>1, <1>2, BusyStays
  <2>3. ASSUME NEW p \in Ports(n), NEW i \in DOMAIN Wires[n][p] PROVE WireDone(n, p, i, o)' = WireDone(n, p, i, o)
    <3>0. i \in Nat /\ i >= 1 /\ Wires[n][p] # <<>>
      BY PortTyped
    <3>1. WireOpen(n, p, i, o)' <=> o = c /\ p \in ps
      BY <1>1, <1>6, <2>1, <3>0 DEF WireOpen
    <3>2. WireOpen(n, p, i, o) <=> o = c /\ n \notin Holders /\ p = 1
      BY <1>1, <2>1 DEF WireOpen
    <3>3. CASE n \in Holders
      <4>1. routed[n][p] \in Counters /\ routed[n][p][o] \in Nat
        BY DEF MsgTypes, CountsTyped, Counters
      <4>2. routed'[n][p] = IF p \in ps THEN [routed[n][p] EXCEPT ![c] = @ + 1] ELSE routed[n][p]
        BY <1>3, <3>3 DEF MsgTypes, CountsTyped
      <4>3. routed'[n][p][o] = routed[n][p][o] + Bit(o = c /\ p \in ps)
        BY <4>1, <4>2 DEF Counters, Bit
      <4>4. WireDone(n, p, i, o) = routed[n][p][o] - 0
        BY <3>2, <3>3 DEF WireDone, Bit
      <4>5. WireDone(n, p, i, o)' = routed'[n][p][o] - Bit(o = c /\ p \in ps)
        BY <3>1, <3>3 DEF WireDone, Bit
      <4>6. QED
        BY <4>1, <4>3, <4>4, <4>5 DEF Bit
    <3>4. CASE n \notin Holders
      <4>1. WireOpen(n, p, i, o)' <=> WireOpen(n, p, i, o)
        BY <1>3, <3>1, <3>2, <3>4
      <4>2. QED
        BY <1>1, <3>4, <4>1 DEF WireDone, Bit
    <3>5. QED
      BY <3>3, <3>4
  <2>4. \A i : CatchDone(n, i, o)' = CatchDone(n, i, o)
    BY <1>1 DEF CatchDone, CatchOpen
  <2>5. \A i : CompleteDone(n, i, o)' = CompleteDone(n, i, o)
    BY <1>1, <2>1 DEF CompleteDone, CompleteOpen
  <2>6. QED
    BY <2>3, <2>4, <2>5 DEF Frame
<1>8. QED
  BY <1>4, <1>7, QuietStep DEF Dispatch

\* Recv: the wires of the first port and the complete nodes are opened against the message
\* that is counted, which leaves the queue.
LEMMA RecvBalance ==
  ASSUME MsgTypes, MsgTypes', Balanced, NEW n \in Nodes, Recv(n), HeapOk
  PROVE  Balanced'
<1>1. pc[n] = "recv" /\ pc'[n] \in {"lock", "work"} /\ idx'[n] = idx[n] /\ out'[n] = out[n] /\ DOMAIN out[n] = {}
      /\ failed'[n] = failed[n] /\ routed'[n] = routed[n] /\ UNCHANGED heap /\ queue[n] # <<>>
  BY EmptyOut DEF MsgTypes, Controls, Recv
<1>2. PICK h \in 1 .. Len(heap) : h = Head(queue[n])
  BY <1>1, QueuesLose DEF Recv
<1>3. PICK c \in Origins : c = heap[h].org
  <2>1. heap[h] \in Message
    BY DEF MsgTypes
  <2>2. QED
    BY <2>1 DEF Message
<1>4. msg' = [msg EXCEPT ![n] = h] /\ taken' = [taken EXCEPT ![n][c] = @ + 1]
  BY <1>2, <1>3 DEF Recv
<1>5. msg'[n] = h /\ taken'[n][c] = taken[n][c] + 1 /\ \A w \in Origins \ {c} : taken'[n][w] = taken[n][w]
  <2>1. taken \in [Nodes -> Counters] /\ msg'[n] = h
    BY <1>4 DEF MsgTypes, CountsTyped, HandlesTyped
  <2>2. \A u \in Nodes, x \in Origins : taken'[u][x] = IF u = n /\ x = c THEN taken[n][c] + 1 ELSE taken[u][x]
    BY <1>4, TakenGrows
  <2>3. QED
    BY <2>1, <2>2
<1>6. OthersSame(n)
  BY <1>4 DEF MsgTypes, Controls, CountsTyped, HandlesTyped, Recv, OthersSame
<1>7. queue'[n] = Tail(queue[n]) /\ \A u \in Nodes \ {n} : queue'[u] = queue[u]
  BY DEF Recv, MsgTypes, QueuesTyped
<1>8. ASSUME NEW o \in Origins PROVE Frame(n, o)
  <2>1. (Busy(n, o)' <=> o = c) /\ ~Busy(n, o)
    BY <1>1, <1>3, <1>5 DEF Busy, Org
  <2>2. taken[n][o] \in Nat /\ failed[n][o] \in Nat /\ taken'[n][o] = taken[n][o] + Bit(o = c)
    BY <1>5, TakenTyped DEF Bit
  <2>3. ASSUME NEW p \in Ports(n), NEW i \in DOMAIN Wires[n][p] PROVE WireDone(n, p, i, o)' = WireDone(n, p, i, o)
    <3>1. WireOpen(n, p, i, o)' <=> o = c /\ n \notin Holders /\ p = 1
      BY <1>1, <2>1 DEF WireOpen
    <3>2. ~WireOpen(n, p, i, o)
      BY <2>1 DEF WireOpen
    <3>3. CASE n \in Holders
      BY <1>1, <3>1, <3>2, <3>3 DEF WireDone, Bit
    <3>4. CASE n \notin Holders
      BY <1>1, <2>2, <3>1, <3>2, <3>4 DEF WireDone, Bit
    <3>5. QED
      BY <3>3, <3>4
  <2>4. \A i : CatchDone(n, i, o)' = CatchDone(n, i, o)
    BY <1>1 DEF CatchDone, CatchOpen
  <2>5. ASSUME NEW i PROVE CompleteDone(n, i, o)' = CompleteDone(n, i, o)
    <3>1. CompleteOpen(n, i, o)' <=> o = c
      BY <1>1, <2>1 DEF CompleteOpen
    <3>2. ~CompleteOpen(n, i, o)
      BY <2>1 DEF CompleteOpen
    <3>3. QED
      BY <2>2, <3>1, <3>2 DEF CompleteDone, Bit
  <2>6. QED
    BY <2>3, <2>4, <2>5 DEF Frame
<1>9. ASSUME NEW m \in Nodes, NEW o \in Origins PROVE Balance(m, o)'
  <2>1. \A s \in Slots(m) : Done(s, o)' = Done(s, o)
    <3>1. \A u \in Nodes : Frame(u, o)
      BY <1>6, <1>8, OthersFrame
    <3>2. SourceDone(m, o)' = SourceDone(m, o)
      BY SourceStays DEF Recv
    <3>3. QED
      BY <3>1, <3>2, FrameAll
  <2>2. CASE m = n
    <3>1. taken'[n][o] = taken[n][o] + Bit(heap[Head(queue[n])].org = o)
      <4>1. heap[Head(queue[n])].org = c
        BY <1>2, <1>3
      <4>2. taken[n][o] \in Nat
        BY TakenTyped
      <4>3. CASE o = c
        BY <1>5, <4>1, <4>3 DEF Bit
      <4>4. CASE o # c
        BY <1>5, <4>1, <4>2, <4>4 DEF Bit
      <4>5. QED
        BY <4>3, <4>4
    <3>2. QED
      BY <1>1, <1>7, <2>1, <2>2, <3>1, BalanceTakes DEF Balanced
  <2>3. CASE m # n
    <3>1. taken'[m][o] = taken[m][o] /\ queue'[m] = queue[m]
      BY <1>6, <1>7, <2>3 DEF OthersSame
    <3>2. QED
      BY <2>1, <3>1, BalanceSame DEF Balanced
  <2>4. QED
    BY <2>2, <2>3
<1>10. QED
  BY <1>9 DEF Balanced, Origins

---------------------------------------------------------------------------
(* Actions that settle one slot.                                           *)

\* Inject: the source slot of n is settled by the new message.
LEMMA InjectBalance ==
  ASSUME MsgTypes, MsgTypes', Balanced, NEW n \in Nodes, Inject(n), HeapOk
  PROVE  Balanced'
<1>1. /\ Len(heap') = Len(heap) + 1 /\ heap'[Len(heap) + 1].org = Len(origin) + 1 /\ Len(origin) + 1 \in Origins
      /\ Len(heap) \in Nat
  BY InjectHeap DEF MsgTypes
<1>2. PICK h \in 1 .. Len(heap') : h = Len(heap) + 1
  BY <1>1
<1>3. PICK o \in Origins : o = Len(origin) + 1
  BY <1>1
<1>4. PICK x : x = <<n, "source", 0, 0>>
  OBVIOUS
<1>5. origin \in Seq(Nodes) /\ origin' = Append(origin, n) /\ o \notin DOMAIN origin /\ Len(origin) \in Nat
  BY <1>3 DEF Inject, MsgTypes, CountsTyped
<1>6. /\ DOMAIN origin' = DOMAIN origin \cup {o} /\ origin'[o] = n
      /\ \A w \in DOMAIN origin : origin'[w] = origin[w]
  BY <1>3, <1>5
<1>7. SourceDone(n, o) = 0 /\ SourceDone(n, o)' = 1
  BY <1>5, <1>6 DEF SourceDone, Bit
<1>8. \A m, w : w # o \/ m # n => SourceDone(m, w)' = SourceDone(m, w)
  BY <1>5, <1>6 DEF SourceDone, Bit
<1>9. \A w : \A u \in Nodes : Frame(u, w)
  BY FrameOther DEF Inject
<1>10. x \in Slots(n)
  BY <1>4, SlotForms
<1>11. ASSUME NEW w \in Origins, NEW m \in Nodes PROVE \A s \in Slots(m) \ {x} : Done(s, w)' = Done(s, w)
  <2>1. SourceDone(m, w)' = SourceDone(m, w) \/ x = <<m, "source", 0, 0>>
    BY <1>4, <1>8
  <2>2. QED
    BY <1>9, <2>1, FrameOf DEF Frame
<1>12. Done(x, o)' = Done(x, o) + 1
  BY <1>4, <1>7, DoneIs
<1>13. ASSUME NEW w \in Origins, w # o PROVE Done(x, w)' = Done(x, w)
  BY <1>4, <1>8, <1>13, DoneIs
<1>14. queue' = [queue EXCEPT ![n] = Append(@, h)] /\ UNCHANGED taken /\ heap'[h].org = o
  BY <1>1, <1>2, <1>3 DEF Inject
<1>15. QED
  BY <1>10, <1>11, <1>12, <1>13, <1>14, SendStep

\* Send: the wire that is served next is settled by the message it puts into the queue.
LEMMA SendBalance ==
  ASSUME MsgTypes, MsgTypes', Balanced, NEW n \in Nodes, NEW p \in Ports(n), Send(n, p), UnitInv(n), HeapOk
  PROVE  Balanced'
<1>1. /\ p \in DOMAIN out[n] /\ pc[n] = "fan" /\ out[n] = [q \in DOMAIN out[n] |-> out[n][q]]
      /\ out[n][p] \in [h : 0 .. Len(heap), next : 1 .. Len(Wires[n][p])] /\ UNCHANGED heap
      /\ DOMAIN out[n] \subseteq Ports(n)
  BY DEF Send, MsgTypes, OutsTyped, OutTyped
<1>2. PICK h \in 1 .. Len(heap') : h = out[n][p].h
  <2>1. out[n][p].h \in 0 .. Len(heap) /\ out[n][p].h # 0
    BY <1>1 DEF Send
  <2>2. Len(heap) \in Nat /\ Len(heap') = Len(heap)
    BY <1>1 DEF MsgTypes
  <2>3. QED
    BY <2>1, <2>2
<1>3. Wires[n][p] \in Seq(Nodes)
  BY MessagingAssumption DEF Ports
<1>4. PICK j \in DOMAIN Wires[n][p] : j = out[n][p].next
  BY <1>1, <1>3
<1>5. PICK d \in Nodes : d = Wires[n][p][j]
  BY <1>3
<1>6. PICK o \in Origins : o = Org(n) /\ heap'[h].org = o
  <2>1. Org(n) \in Origins
    BY <1>1, HasMessage
  <2>2. heap[out[n][p].h].org = Org(n)
    BY <1>1 DEF UnitInv, Send
  <2>3. QED
    BY <1>1, <1>2, <2>1, <2>2
<1>7. PICK x : x = <<n, "wire", p, j>>
  OBVIOUS
<1>8. x \in Slots(d)
  BY <1>5, <1>7, SlotForms
<1>9. OthersSame(n) /\ pc'[n] = pc[n] /\ msg'[n] = msg[n] /\ idx'[n] = idx[n] /\ taken'[n] = taken[n] /\ failed'[n] = failed[n] /\ routed'[n] = routed[n]
  BY DEF MsgTypes, OutsTyped, Send, OthersSame
<1>10. out'[n] = AfterSend(n, p)
  BY DEF Send, MsgTypes, OutsTyped
<1>11. ASSUME NEW q \in Ports(n), NEW i \in DOMAIN Wires[n][q]
       PROVE  (q \in DOMAIN out'[n] /\ i >= out'[n][q].next) <=> (q \in DOMAIN out[n] /\ i >= out[n][q].next) /\ ~(q = p /\ i = j)
  <2>0. i \in 1 .. Len(Wires[n][q]) /\ j \in 1 .. Len(Wires[n][p])
    BY <1>3, PortTyped
  <2>1. CASE j = Len(Wires[n][p])
    <3>1. out'[n] = [r \in DOMAIN out[n] \ {p} |-> out[n][r]]
      BY <1>4, <1>10, <2>1 DEF AfterSend, Without
    <3>2. QED
      <4>1. CASE q = p
        <5>1. q \notin DOMAIN out'[n]
          BY <3>1, <4>1
        <5>2. ~(i >= out[n][q].next /\ i # j)
          <6>1. out[n][q].next = j /\ i \in 1 .. j /\ j \in Nat
            <7>1. out[n][q].next = j
              BY <1>4, <4>1
            <7>2. j \in Nat /\ i \in 1 .. j
              BY <2>0, <2>1, <4>1
            <7>3. QED
              BY <7>1, <7>2
          <6>2. QED
            BY <6>1
        <5>3. QED
          BY <4>1, <5>1, <5>2
      <4>2. CASE q # p
        BY <3>1, <4>2
      <4>3. QED
        BY <4>1, <4>2
  <2>2. CASE j # Len(Wires[n][p])
    <3>1. out'[n] = [out[n] EXCEPT ![p] = [h |-> 0, next |-> j + 1]]
      BY <1>4, <1>10, <2>2 DEF AfterSend
    <3>2. DOMAIN out'[n] = DOMAIN out[n] /\ out'[n][p].next = j + 1 /\ \A r \in DOMAIN out[n] \ {p} : out'[n][r] = out[n][r]
      BY <1>1, <3>1
    <3>3. QED
      BY <1>4, <2>0, <3>2
  <2>3. QED
    BY <2>1, <2>2
<1>12. ASSUME NEW w \in Origins
       PROVE  /\ \A q \in Ports(n) : \A i \in DOMAIN Wires[n][q] : x # <<n, "wire", q, i>> \/ w # o => WireDone(n, q, i, w)' = WireDone(n, q, i, w)
              /\ w = o => WireDone(n, p, j, w)' = WireDone(n, p, j, w) + 1
              /\ \A i : CatchDone(n, i, w)' = CatchDone(n, i, w) /\ CompleteDone(n, i, w)' = CompleteDone(n, i, w)
  <2>1. (Busy(n, w)' <=> w = o) /\ (Busy(n, w) <=> w = o)
    BY <1>1, <1>6, <1>9, BusyStays
  <2>2. ASSUME NEW q \in Ports(n), NEW i \in DOMAIN Wires[n][q], x # <<n, "wire", q, i>> \/ w # o
        PROVE  WireDone(n, q, i, w)' = WireDone(n, q, i, w)
    <3>1. WireOpen(n, q, i, w)' <=> WireOpen(n, q, i, w)
      BY <1>1, <1>7, <1>9, <1>11, <2>1, <2>2 DEF WireOpen
    <3>2. QED
      BY <1>9, <3>1 DEF WireDone, Bit
  <2>3. ASSUME w = o PROVE WireDone(n, p, j, w)' = WireDone(n, p, j, w) + 1
    <3>0. j \in 1 .. Len(Wires[n][p])
      BY <1>3
    <3>1. WireOpen(n, p, j, w)
      BY <1>1, <1>4, <2>1, <2>3, <3>0 DEF WireOpen
    <3>2. ~WireOpen(n, p, j, w)'
      BY <1>1, <1>9, <1>11 DEF WireOpen
    <3>3. (IF n \in Holders THEN routed[n][p][w] ELSE IF p = 1 THEN taken[n][w] - failed[n][w] ELSE 0) \in Int
      <4>1. routed[n][p] \in Counters
        BY DEF MsgTypes, CountsTyped
      <4>2. routed[n][p][w] \in Nat
        BY <4>1 DEF Counters
      <4>3. taken[n][w] \in Nat /\ failed[n][w] \in Nat
        BY TakenTyped
      <4>4. QED
        BY <4>2, <4>3
    <3>4. QED
      BY <1>9, <3>1, <3>2, <3>3 DEF WireDone, Bit
  <2>4. \A i : CatchDone(n, i, w)' = CatchDone(n, i, w) /\ CompleteDone(n, i, w)' = CompleteDone(n, i, w)
    BY <1>9, <2>1 DEF CatchDone, CompleteDone, CatchOpen, CompleteOpen
  <2>5. QED
    BY <2>2, <2>3, <2>4
<1>13. Done(x, o)' = Done(x, o) + 1
  BY <1>7, <1>12, DoneIs
<1>14. ASSUME NEW w \in Origins, w # o PROVE Done(x, w)' = Done(x, w)
  BY <1>7, <1>12, <1>14, DoneIs
<1>15. ASSUME NEW w \in Origins, NEW m \in Nodes PROVE \A s \in Slots(m) \ {x} : Done(s, w)' = Done(s, w)
  <2>1. SourceDone(m, w)' = SourceDone(m, w)
    BY SourceStays DEF Send
  <2>2. \A u \in Nodes \ {n} : Frame(u, w)
    BY <1>9, OthersFrame
  <2>3. \A u \in Nodes :
            /\ \A q \in Ports(u) : \A i \in DOMAIN Wires[u][q] : x # <<u, "wire", q, i>> => WireDone(u, q, i, w)' = WireDone(u, q, i, w)
            /\ \A i \in DOMAIN Catches[u] : Hears(u, i) /\ x # <<u, "catch", 0, i>> => CatchDone(u, i, w)' = CatchDone(u, i, w)
            /\ \A i \in DOMAIN Completes[u] : u \notin NoUow /\ x # <<u, "complete", 0, i>> =>
                   CompleteDone(u, i, w)' = CompleteDone(u, i, w)
    BY <1>12, <2>2 DEF Frame
  <2>4. QED
    BY <2>1, <2>3, FrameOf
<1>16. queue' = [queue EXCEPT ![d] = Append(@, h)] /\ UNCHANGED taken
  BY <1>2, <1>4, <1>5 DEF Send
<1>17. QED
  BY <1>6, <1>8, <1>13, <1>14, <1>15, <1>16, SendStep

\* The catch node that handle_error has come to hears of the error.
LEMMA HeardNext ==
  ASSUME NEW n \in Nodes, NEW j \in Nat \ {0}, ~UncaughtStops(n, j), \A l \in 1 .. j - 1 : ~UncaughtStops(n, l)
  PROVE  Hears(n, j)
<1>1. \A l \in 1 .. j : ~UncaughtStops(n, l)
  OBVIOUS
<1>2. \A l \in 2 .. j : l \in 1 .. j /\ l > 1
  OBVIOUS
<1>3. QED
  BY <1>1, <1>2 DEF Hears, UncaughtStops

\* Deliver: the listener that is served next is settled by its clone.
LEMMA DeliverBalance ==
  ASSUME MsgTypes, MsgTypes', Balanced, NEW n \in Nodes, Deliver(n), UnitInv(n), HeapOk
  PROVE  Balanced'
<1>1. /\ pc[n] \in {"catch", "complete"} /\ UNCHANGED heap /\ copy[n] \in 1 .. Len(heap) /\ idx[n] \in Nat \ {0}
      /\ idx[n] <= Len(Listeners(n)) /\ Listeners(n) \in Seq(Nodes)
  <2>1. pc[n] \in {"catch", "complete"} /\ UNCHANGED heap /\ idx[n] <= Len(Listeners(n)) /\ idx[n] \in Nat \ {0}
    BY DEF Deliver, Listening, MsgTypes, Controls
  <2>2. copy[n] \in 1 .. Len(heap)
    BY DEF Deliver, MsgTypes, HandlesTyped
  <2>3. Listeners(n) \in Seq(Nodes)
    BY MessagingAssumption DEF Listeners
  <2>4. QED
    BY <2>1, <2>2, <2>3
<1>2. PICK h \in 1 .. Len(heap') : h = copy[n]
  BY <1>1
<1>3. PICK j \in DOMAIN Listeners(n) : j = idx[n] /\ j \in Nat \ {0}
  BY <1>1
<1>4. PICK d \in Nodes : d = Listeners(n)[j]
  BY <1>1
<1>5. PICK o \in Origins : o = Org(n) /\ heap'[h].org = o
  <2>1. Org(n) \in Origins
    BY <1>1, HasMessage
  <2>2. heap[copy[n]].org = Org(n)
    BY DEF UnitInv, Deliver
  <2>3. QED
    BY <1>1, <1>2, <2>1, <2>2
<1>6. OthersSame(n) /\ pc'[n] = pc[n] /\ msg'[n] = msg[n] /\ idx'[n] = j + 1 /\ out'[n] = out[n]
      /\ taken'[n] = taken[n] /\ failed'[n] = failed[n] /\ routed'[n] = routed[n]
  BY <1>3 DEF MsgTypes, HandlesTyped, Controls, Deliver, OthersSame
<1>7. queue' = [queue EXCEPT ![d] = Append(@, h)] /\ UNCHANGED <<taken, origin>>
  BY <1>2, <1>3, <1>4 DEF Deliver
<1>8. \A w : (Busy(n, w)' <=> w = o) /\ (Busy(n, w) <=> w = o)
  BY <1>1, <1>5, <1>6, BusyStays
<1>9. \A w, p, i : WireDone(n, p, i, w)' = WireDone(n, p, i, w)
  BY <1>6, <1>8 DEF WireDone, WireOpen
<1>10. \A w \in Origins : \A m : SourceDone(m, w)' = SourceDone(m, w)
  BY <1>7, SourceStays
<1>11. \A w \in Origins : \A u \in Nodes \ {n} : Frame(u, w)
  BY <1>6, OthersFrame
<1>12. CASE pc[n] = "catch"
  <2>1. PICK x : x = <<n, "catch", 0, j>>
    OBVIOUS
  <2>2. j \in DOMAIN Catches[n] /\ d = Catches[n][j] /\ Catches[n] \in Seq(Nodes)
    BY <1>1, <1>4, <1>12 DEF Listeners
  <2>3. Hears(n, j)
    BY <1>3, <1>12, HeardNext DEF Deliver, Listening, UnitInv
  <2>4. x \in Slots(d)
    BY <2>1, <2>2, <2>3, SlotForms
  <2>5. \A w, i : CompleteDone(n, i, w)' = CompleteDone(n, i, w)
    BY <1>6, <1>8, <1>12 DEF CompleteDone, CompleteOpen
  <2>6. ASSUME NEW w \in Origins, NEW i \in DOMAIN Catches[n], i # j \/ w # o PROVE CatchDone(n, i, w)' = CatchDone(n, i, w)
    <3>1. i \in Nat
      BY <2>2
    <3>2. CatchOpen(n, i, w)' <=> CatchOpen(n, i, w)
      BY <1>3, <1>6, <1>8, <2>6, <3>1 DEF CatchOpen
    <3>3. QED
      BY <1>6, <3>2 DEF CatchDone, Bit
  <2>7. CatchDone(n, j, o)' = CatchDone(n, j, o) + 1
    <3>1. CatchOpen(n, j, o) /\ ~CatchOpen(n, j, o)'
      BY <1>3, <1>6, <1>8, <1>12 DEF CatchOpen
    <3>2. failed[n][o] \in Nat
      BY TakenTyped
    <3>3. QED
      BY <1>6, <3>1, <3>2 DEF CatchDone, Bit
  <2>8. Done(x, o)' = Done(x, o) + 1
    BY <2>1, <2>7, DoneIs
  <2>9. ASSUME NEW w \in Origins, w # o PROVE Done(x, w)' = Done(x, w)
    BY <2>1, <2>2, <2>6, <2>9, DoneIs
  <2>10. ASSUME NEW w \in Origins, NEW m \in Nodes PROVE \A s \in Slots(m) \ {x} : Done(s, w)' = Done(s, w)
    <3>1. \A i \in DOMAIN Catches[n] : x # <<n, "catch", 0, i>> => CatchDone(n, i, w)' = CatchDone(n, i, w)
      BY <2>1, <2>6
    <3>2. \A u \in Nodes :
            /\ \A q \in Ports(u) : \A i \in DOMAIN Wires[u][q] : x # <<u, "wire", q, i>> => WireDone(u, q, i, w)' = WireDone(u, q, i, w)
            /\ \A i \in DOMAIN Catches[u] : Hears(u, i) /\ x # <<u, "catch", 0, i>> => CatchDone(u, i, w)' = CatchDone(u, i, w)
            /\ \A i \in DOMAIN Completes[u] : u \notin NoUow /\ x # <<u, "complete", 0, i>> =>
                   CompleteDone(u, i, w)' = CompleteDone(u, i, w)
      BY <1>9, <1>11, <2>5, <3>1 DEF Frame
    <3>3. QED
      BY <1>10, <3>2, FrameOf
  <2>11. QED
    BY <1>5, <1>7, <2>4, <2>8, <2>9, <2>10, SendStep
<1>13. CASE pc[n] = "complete"
  <2>1. PICK x : x = <<n, "complete", 0, j>>
    OBVIOUS
  <2>2. j \in DOMAIN Completes[n] /\ d = Completes[n][j] /\ Completes[n] \in Seq(Nodes) /\ n \notin NoUow
    BY <1>1, <1>4, <1>13 DEF Listeners, UnitInv
  <2>4. x \in Slots(d)
    BY <2>1, <2>2, SlotForms
  <2>5. \A w, i : CatchDone(n, i, w)' = CatchDone(n, i, w)
    BY <1>6, <1>8, <1>13 DEF CatchDone, CatchOpen
  <2>6. ASSUME NEW w \in Origins, NEW i \in DOMAIN Completes[n], i # j \/ w # o PROVE CompleteDone(n, i, w)' = CompleteDone(n, i, w)
    <3>1. i \in Nat
      BY <2>2
    <3>2. CompleteOpen(n, i, w)' <=> CompleteOpen(n, i, w)
      BY <1>3, <1>6, <1>8, <2>6, <3>1 DEF CompleteOpen
    <3>3. QED
      BY <1>6, <3>2 DEF CompleteDone, Bit
  <2>7. CompleteDone(n, j, o)' = CompleteDone(n, j, o) + 1
    <3>1. CompleteOpen(n, j, o) /\ ~CompleteOpen(n, j, o)'
      BY <1>3, <1>6, <1>8, <1>13 DEF CompleteOpen
    <3>2. taken[n][o] \in Nat
      BY TakenTyped
    <3>3. QED
      BY <1>6, <3>1, <3>2 DEF CompleteDone, Bit
  <2>8. Done(x, o)' = Done(x, o) + 1
    BY <2>1, <2>7, DoneIs
  <2>9. ASSUME NEW w \in Origins, w # o PROVE Done(x, w)' = Done(x, w)
    BY <2>1, <2>2, <2>6, <2>9, DoneIs
  <2>10. ASSUME NEW w \in Origins, NEW m \in Nodes PROVE \A s \in Slots(m) \ {x} : Done(s, w)' = Done(s, w)
    <3>1. \A i \in DOMAIN Completes[n] : x # <<n, "complete", 0, i>> => CompleteDone(n, i, w)' = CompleteDone(n, i, w)
      BY <2>1, <2>6
    <3>2. \A u \in Nodes :
            /\ \A q \in Ports(u) : \A i \in DOMAIN Wires[u][q] : x # <<u, "wire", q, i>> => WireDone(u, q, i, w)' = WireDone(u, q, i, w)
            /\ \A i \in DOMAIN Catches[u] : Hears(u, i) /\ x # <<u, "catch", 0, i>> => CatchDone(u, i, w)' = CatchDone(u, i, w)
            /\ \A i \in DOMAIN Completes[u] : u \notin NoUow /\ x # <<u, "complete", 0, i>> =>
                   CompleteDone(u, i, w)' = CompleteDone(u, i, w)
      BY <1>9, <1>11, <2>5, <3>1 DEF Frame
    <3>3. QED
      BY <1>10, <3>2, FrameOf
  <2>11. QED
    BY <1>5, <1>7, <2>4, <2>8, <2>9, <2>10, SendStep
<1>14. QED
  BY <1>1, <1>12, <1>13

---------------------------------------------------------------------------
(* The units of work.                                                      *)

\* The unit of work of a node that does not step.
LEMMA UnitOther ==
  ASSUME MsgTypes, HeapOk, NEW u \in Nodes, UnitInv(u), pc'[u] = pc[u], msg'[u] = msg[u], out'[u] = out[u], idx'[u] = idx[u],
         copy'[u] = copy[u], err'[u] = err[u]
  PROVE  UnitInv(u)'
<1>1. copy[u] # 0 => heap'[copy[u]].org = Org(u)'
  <2> SUFFICES ASSUME copy[u] # 0 PROVE heap'[copy[u]].org = Org(u)'
    OBVIOUS
  <2>1. pc[u] \notin {"recv", "stopped"} /\ heap[copy[u]].org = Org(u)
    BY DEF UnitInv
  <2>2. copy[u] \in 1 .. Len(heap)
    BY DEF MsgTypes, HandlesTyped
  <2>3. QED
    BY <2>1, <2>2, OrgStays DEF HeapOk
<1>2. ASSUME NEW p \in DOMAIN out[u], out[u][p].h # 0 PROVE heap'[out[u][p].h].org = Org(u)'
  <2>1. pc[u] = "fan" /\ out[u][p].h \in 0 .. Len(heap) /\ Len(heap) \in Nat
    BY DEF MsgTypes, OutsTyped, OutTyped
  <2>2. heap[out[u][p].h].org = Org(u)
    BY <1>2 DEF UnitInv
  <2>3. out[u][p].h \in 1 .. Len(heap)
    BY <1>2, <2>1
  <2>4. QED
    BY <2>1, <2>2, <2>3, OrgStays DEF HeapOk
<1>3. QED
  BY <1>1, <1>2 DEF UnitInv, UncaughtStops, Listening, Listeners

\* The units of work of all nodes.
Units == \A n \in Nodes : UnitInv(n)

\* A step of n keeps the units of work when it keeps that of n.
LEMMA UnitsKept ==
  ASSUME MsgTypes, HeapOk, Units, NEW n \in Nodes, OthersSame(n), UnitInv(n)'
  PROVE  Units'
<1>1. \A u \in Nodes \ {n} : UnitInv(u)'
  BY UnitOther DEF Units, OthersSame
<1>2. QED
  BY <1>1 DEF Units

\* The units of work of nodes that do not change.
LEMMA UnitsStill ==
  ASSUME MsgTypes, HeapOk, Units, UNCHANGED <<pc, msg, out, idx, copy, err>>
  PROVE  Units'
BY UnitOther DEF Units

\* A node between two parts of its unit of work.
LEMMA ResetUnit ==
  ASSUME NEW n \in Nodes, DOMAIN out'[n] = {}, copy'[n] = 0, idx'[n] = 1, pc'[n] # "stopped", err'[n] => pc'[n] = "catch",
         pc'[n] \in {"catch", "complete"} => n \notin NoUow
  PROVE  UnitInv(n)'
BY DEF UnitInv

\* A node before its fan-out has no send, no copy and no error.
LEMMA BeginUnit ==
  ASSUME MsgTypes, NEW n \in Nodes, UnitInv(n), pc[n] \notin {"fan", "catch", "complete"}
  PROVE  DOMAIN out[n] = {} /\ copy[n] = 0 /\ idx[n] = 1 /\ ~err[n]
BY EmptyOut DEF UnitInv

\* Mutate, Guard keep the units of work.
LEMMA MutateUnits ==
  ASSUME MsgTypes, HeapOk, Units, NEW n \in Nodes, pc[n] = "lock", pc' = [pc EXCEPT ![n] = "work"],
         UNCHANGED <<msg, out, idx, copy, err, taken, failed, routed>>
  PROVE  Units'
<1>1. OthersSame(n) /\ pc'[n] = "work"
  BY DEF MsgTypes, Controls, OthersSame
<1>2. DOMAIN out[n] = {} /\ copy[n] = 0 /\ idx[n] = 1 /\ ~err[n]
  BY BeginUnit DEF Units
<1>3. UnitInv(n)'
  BY <1>1, <1>2, ResetUnit
<1>4. QED
  BY <1>1, <1>3, UnitsKept

\* Recv keeps the units of work.
LEMMA RecvUnits ==
  ASSUME MsgTypes, HeapOk, Units, NEW n \in Nodes, Recv(n)
  PROVE  Units'
<1>1. pc'[n] \in {"lock", "work"} /\ pc[n] = "recv"
  BY DEF MsgTypes, Controls, Recv
<1>2. DOMAIN out[n] = {} /\ copy[n] = 0 /\ idx[n] = 1 /\ ~err[n]
  BY <1>1, BeginUnit DEF Units
<1>3. UnitInv(n)'
  BY <1>1, <1>2, ResetUnit DEF Recv
<1>4. OthersSame(n)
  BY DEF MsgTypes, Controls, CountsTyped, HandlesTyped, Recv, OthersSame
<1>5. QED
  BY <1>3, <1>4, UnitsKept

\* Fail keeps the units of work.
LEMMA FailUnits ==
  ASSUME MsgTypes, HeapOk, Units, NEW n \in Nodes, Fail(n)
  PROVE  Units'
<1>1. pc'[n] = "catch" /\ pc[n] = "work" /\ n \notin NoUow
  BY MessagingAssumption DEF MsgTypes, Controls, Fail
<1>2. DOMAIN out[n] = {} /\ copy[n] = 0 /\ idx[n] = 1 /\ ~err[n]
  BY <1>1, BeginUnit DEF Units
<1>3. UnitInv(n)'
  BY <1>1, <1>2, ResetUnit DEF Fail
<1>4. OthersSame(n)
  BY DEF MsgTypes, Controls, CountsTyped, Fail, OthersSame
<1>5. QED
  BY <1>3, <1>4, UnitsKept

\* Dispatch keeps the units of work: the handle itself goes to the first wire.
LEMMA DispatchUnits ==
  ASSUME MsgTypes, HeapOk, Units, NEW n \in Nodes, Dispatch(n)
  PROVE  Units'
<1>1. pc'[n] = "fan" /\ pc[n] = "work" /\ msg'[n] = msg[n] /\ UNCHANGED heap
  BY DEF MsgTypes, Controls, Dispatch
<1>2. DOMAIN out[n] = {} /\ copy[n] = 0 /\ idx[n] = 1 /\ ~err[n]
  BY <1>1, BeginUnit DEF Units
<1>3. \A p \in DOMAIN out'[n] : out'[n][p].h = msg[n]
  BY DEF Dispatch, MsgTypes, OutsTyped
<1>4. UnitInv(n)'
  BY <1>1, <1>2, <1>3 DEF UnitInv, Dispatch, Org
<1>5. OthersSame(n)
  BY DEF MsgTypes, Controls, OutsTyped, CountsTyped, Dispatch, OthersSame
<1>6. QED
  BY <1>4, <1>5, UnitsKept

\* FanDone keeps the units of work.
LEMMA FanDoneUnits ==
  ASSUME MsgTypes, HeapOk, Units, NEW n \in Nodes, FanDone(n), ~cancelled
  PROVE  Units'
<1>1. pc[n] = "fan" /\ ~err[n] /\ DOMAIN out[n] = {} /\ copy[n] = 0 /\ idx[n] = 1
  BY DEF FanDone, Units, UnitInv
<1>2. pc'[n] \in {"complete", "recv"} /\ (pc'[n] = "complete" => n \notin NoUow) /\ ~err'[n]
  BY <1>1 DEF FanDone, MsgTypes, Controls, NextTurn
<1>3. UnitInv(n)'
  BY <1>1, <1>2, ResetUnit DEF FanDone
<1>4. OthersSame(n)
  BY DEF MsgTypes, Controls, FanDone, OthersSame
<1>5. QED
  BY <1>3, <1>4, UnitsKept

\* Reported keeps the units of work.
LEMMA ReportedUnits ==
  ASSUME MsgTypes, HeapOk, Units, NEW n \in Nodes, Reported(n), ~cancelled
  PROVE  Units'
<1>1. pc[n] \in {"catch", "complete"} /\ copy[n] = 0 /\ n \notin NoUow
  BY DEF Reported, Units, UnitInv
<1>2. DOMAIN out[n] = {}
  BY <1>1, EmptyOut
<1>3. pc'[n] \in {"complete", "recv"} /\ ~err'[n] /\ idx'[n] = 1
  BY DEF Reported, MsgTypes, Controls, NextTurn
<1>4. UnitInv(n)'
  BY <1>1, <1>2, <1>3, ResetUnit DEF Reported
<1>5. OthersSame(n)
  BY DEF MsgTypes, Controls, Reported, OthersSame
<1>6. QED
  BY <1>4, <1>5, UnitsKept

\* Copy keeps the units of work: the clone has the origin of the message.
LEMMA CopyUnits ==
  ASSUME MsgTypes, HeapOk, Units, NEW n \in Nodes, Copy(n)
  PROVE  Units'
<1>1. pc[n] \in {"catch", "complete"} /\ UNCHANGED <<pc, msg, idx, out, err>>
  BY DEF Copy, Listening
<1>2. heap'[Len(heap) + 1].org = Org(n)
  BY <1>1, CloneHeap DEF Copy
<1>3. Org(n)' = Org(n)
  BY <1>1, OrgStays
<1>4. copy'[n] = Len(heap) + 1
  BY DEF Copy, MsgTypes, HandlesTyped
<1>5. DOMAIN out[n] = {}
  BY <1>1, EmptyOut
<1>6. Listening(n)'
  BY <1>1 DEF Copy, Listening, Listeners, UncaughtStops
<1>7. UnitInv(n)'
  BY <1>1, <1>2, <1>3, <1>4, <1>5, <1>6 DEF Units, UnitInv, UncaughtStops
<1>8. OthersSame(n)
  BY DEF MsgTypes, HandlesTyped, Copy, OthersSame
<1>9. QED
  BY <1>7, <1>8, UnitsKept

\* Deliver keeps the units of work: the search has not been broken off.
LEMMA DeliverUnits ==
  ASSUME MsgTypes, HeapOk, Units, NEW n \in Nodes, Deliver(n)
  PROVE  Units'
<1>1. pc[n] \in {"catch", "complete"} /\ UNCHANGED <<pc, msg, out, err>> /\ idx[n] \in Nat \ {0}
  BY DEF Deliver, Listening, MsgTypes, Controls
<1>2. copy'[n] = 0 /\ idx'[n] = idx[n] + 1
  BY DEF Deliver, MsgTypes, HandlesTyped, Controls
<1>3. DOMAIN out[n] = {}
  BY <1>1, EmptyOut
<1>4. pc[n] = "catch" => \A j \in 1 .. idx[n] : ~UncaughtStops(n, j)
  <2>1. pc[n] = "catch" => ~UncaughtStops(n, idx[n]) /\ \A j \in 1 .. idx[n] - 1 : ~UncaughtStops(n, j)
    BY DEF Deliver, Listening, Units, UnitInv
  <2>2. \A j \in 1 .. idx[n] : j = idx[n] \/ j \in 1 .. idx[n] - 1
    BY <1>1
  <2>3. QED
    BY <2>1, <2>2
<1>5. pc[n] = "catch" => \A j \in 1 .. idx'[n] - 1 : ~UncaughtStops(n, j)
  BY <1>1, <1>2, <1>4
<1>6. UnitInv(n)'
  BY <1>1, <1>2, <1>3, <1>5 DEF Units, UnitInv, UncaughtStops
<1>7. OthersSame(n)
  BY DEF MsgTypes, HandlesTyped, Controls, Deliver, OthersSame
<1>8. QED
  BY <1>6, <1>7, UnitsKept

\* Clone and Send keep the units of work.
LEMMA PortUnits ==
  ASSUME MsgTypes, HeapOk, Units, NEW n \in Nodes, NEW p \in Ports(n), Clone(n, p) \/ Send(n, p)
  PROVE  Units'
<1>1. p \in DOMAIN out[n] /\ UNCHANGED <<pc, msg, idx, copy, err>>
  BY DEF Clone, Send
<1>2. /\ pc[n] = "fan" /\ out[n] = [q \in DOMAIN out[n] |-> out[n][q]]
      /\ \A q \in DOMAIN out[n] : out[n][q] \in [h : 0 .. Len(heap), next : 1 .. Len(Wires[n][q])]
      /\ Len(heap) \in Nat
  BY <1>1 DEF MsgTypes, OutsTyped, OutTyped
<1>3. Org(n)' = Org(n)
  BY <1>1, <1>2, OrgStays
<1>4. ASSUME NEW q \in DOMAIN out[n], out[n][q].h # 0 PROVE heap'[out[n][q].h].org = Org(n)
  <2>1. out[n][q].h \in 1 .. Len(heap)
    BY <1>2, <1>4
  <2>2. heap[out[n][q].h].org = Org(n)
    BY <1>4 DEF Units, UnitInv
  <2>3. QED
    BY <2>1, <2>2 DEF HeapOk
<1>5. ASSUME NEW q \in DOMAIN out'[n], out'[n][q].h # 0 PROVE heap'[out'[n][q].h].org = Org(n)
  <2>1. CASE Clone(n, p)
    <3>1. out'[n] = [out[n] EXCEPT ![p].h = Len(heap) + 1]
      BY <2>1 DEF Clone, MsgTypes, OutsTyped
    <3>2. heap'[Len(heap) + 1].org = Org(n)
      BY <1>2, <2>1, CloneHeap DEF Clone
    <3>3. q \in DOMAIN out[n] /\ (q # p => out'[n][q] = out[n][q]) /\ (q = p => out'[n][q].h = Len(heap) + 1)
      BY <1>2, <3>1
    <3>4. QED
      BY <1>4, <1>5, <3>2, <3>3
  <2>2. CASE Send(n, p)
    <3>1. out'[n] = AfterSend(n, p)
      BY <2>2 DEF Send, MsgTypes, OutsTyped
    <3>2. q \in DOMAIN out[n] /\ out'[n][q] = out[n][q]
      <4>1. CASE out[n][p].next = Len(Wires[n][p])
        BY <3>1, <4>1 DEF AfterSend, Without
      <4>2. CASE out[n][p].next # Len(Wires[n][p])
        <5>1. out'[n] = [out[n] EXCEPT ![p] = [h |-> 0, next |-> out[n][p].next + 1]]
          BY <3>1, <4>2 DEF AfterSend
        <5>2. q # p
          BY <1>1, <1>5, <5>1
        <5>3. QED
          BY <5>1, <5>2
      <4>3. QED
        BY <4>1, <4>2
    <3>3. QED
      BY <1>4, <1>5, <3>2
  <2>3. QED
    BY <2>1, <2>2
<1>6. UnitInv(n)'
  BY <1>1, <1>2, <1>3, <1>5 DEF Units, UnitInv
<1>7. OthersSame(n)
  BY DEF MsgTypes, OutsTyped, Clone, Send, OthersSame
<1>8. QED
  BY <1>6, <1>7, UnitsKept

---------------------------------------------------------------------------
(* No message is lost.                                                     *)

\* Every step keeps the origins of the messages.
LEMMA HeapKept ==
  ASSUME MsgTypes, NEW n \in Nodes, Inject(n) \/ NodeStep(n) \/ Deliver(n) \/ \E p \in Ports(n) : PortStep(n, p) \/ Send(n, p)
  PROVE  HeapOk
<1>1. CASE Inject(n)
  BY <1>1, InjectHeap
<1>2. CASE Mutate(n)
  BY <1>2, MutateHeap DEF Mutate, WantsWrite
<1>3. CASE Guard(n)
  BY <1>3, GuardHeap
<1>4. CASE Fail(n) \/ FanDone(n)
  BY <1>4, UnguardHeap DEF Fail, FanDone
<1>5. CASE Copy(n)
  BY <1>5, CloneHeap DEF Copy, Listening
<1>6. ASSUME NEW p \in Ports(n), Clone(n, p) PROVE HeapOk
  <2>1. pc[n] = "fan"
    BY <1>6 DEF Clone, MsgTypes, OutsTyped, OutTyped
  <2>2. QED
    BY <1>6, <2>1, CloneHeap DEF Clone
<1>7. CASE Recv(n) \/ Exit(n) \/ Dispatch(n) \/ Reported(n) \/ DeliverCancelled(n) \/ Deliver(n)
  BY <1>7, SameHeap DEF Recv, Exit, Dispatch, Reported, DeliverCancelled, Deliver
<1>8. ASSUME NEW p \in Ports(n), SendCancelled(n, p) \/ Send(n, p) PROVE HeapOk
  BY <1>8, SameHeap DEF SendCancelled, Send
<1>9. QED
  BY <1>1, <1>2, <1>3, <1>4, <1>5, <1>6, <1>7, <1>8 DEF NodeStep, PortStep

\* Every step of a flow that is not stopped keeps the units of work and the books.
LEMMA BalanceKept ==
  ASSUME MsgTypes, MsgTypes', Units, Balanced, ~cancelled, ~cancelled', Next
  PROVE  Units' /\ Balanced'
<1>1. CASE Stop
  BY <1>1 DEF Stop
<1>2. ASSUME NEW t \in Lockers, Wait(t) PROVE Units' /\ Balanced'
  <2>1. HeapOk
    BY <1>2, WaitHeap
  <2>2. QED
    BY <1>2, <2>1, UnitsStill, StillBalance DEF Wait
<1>3. ASSUME NEW n \in Nodes, Inject(n) PROVE Units' /\ Balanced'
  <2>1. HeapOk
    BY <1>3, HeapKept
  <2>2. QED
    BY <1>3, <2>1, UnitsStill, InjectBalance DEF Inject
<1>4. ASSUME NEW n \in Nodes, NodeStep(n) PROVE Units' /\ Balanced'
  <2>1. HeapOk /\ UnitInv(n)
    BY <1>4, HeapKept DEF Units
  <2>2. CASE Recv(n)
    BY <2>1, <2>2, RecvUnits, RecvBalance
  <2>3. CASE Exit(n)
    BY <2>3 DEF Exit
  <2>4. CASE Mutate(n)
    BY <2>1, <2>4, MutateUnits, MutateBalance DEF Mutate, WantsWrite
  <2>5. CASE Guard(n)
    BY <2>1, <2>5, MutateUnits, MutateBalance DEF Guard
  <2>6. CASE Fail(n)
    BY <2>1, <2>6, FailUnits, FailBalance
  <2>7. CASE Dispatch(n)
    BY <2>1, <2>7, DispatchUnits, DispatchBalance
  <2>8. CASE FanDone(n)
    BY <2>1, <2>8, FanDoneUnits, FanDoneBalance
  <2>9. CASE Copy(n)
    BY <2>1, <2>9, CopyUnits, StillBalance DEF Copy
  <2>10. CASE Reported(n)
    BY <2>1, <2>10, ReportedUnits, ReportedBalance
  <2>11. CASE DeliverCancelled(n)
    BY <2>11 DEF DeliverCancelled
  <2>12. QED
    BY <1>4, <2>2, <2>3, <2>4, <2>5, <2>6, <2>7, <2>8, <2>9, <2>10, <2>11 DEF NodeStep
<1>5. ASSUME NEW n \in Nodes, Deliver(n) PROVE Units' /\ Balanced'
  <2>1. HeapOk /\ UnitInv(n)
    BY <1>5, HeapKept DEF Units
  <2>2. QED
    BY <1>5, <2>1, DeliverUnits, DeliverBalance
<1>6. ASSUME NEW n \in Nodes, NEW p \in Ports(n), PortStep(n, p) \/ Send(n, p) PROVE Units' /\ Balanced'
  <2>1. HeapOk /\ UnitInv(n)
    BY <1>6, HeapKept DEF Units
  <2>2. CASE Clone(n, p)
    <3>1. pc[n] = "fan"
      BY <2>2 DEF Clone, MsgTypes, OutsTyped, OutTyped
    <3>2. QED
      BY <2>1, <2>2, <3>1, PortUnits, CloneBalance
  <2>3. CASE SendCancelled(n, p)
    BY <2>3 DEF SendCancelled
  <2>4. CASE Send(n, p)
    BY <2>1, <2>4, PortUnits, SendBalance
  <2>5. QED
    BY <1>6, <2>2, <2>3, <2>4 DEF PortStep
<1>7. QED
  BY <1>1, <1>2, <1>3, <1>4, <1>5, <1>6 DEF Next

\* The token of the flow is never reset.
LEMMA CancelledStays ==
  ASSUME Next
  PROVE  cancelled => cancelled'
<1>1. ASSUME NEW n \in Nodes, Inject(n) \/ Deliver(n) PROVE cancelled' = cancelled
  BY <1>1 DEF Inject, Deliver
<1>2. ASSUME NEW n \in Nodes, NodeStep(n) PROVE cancelled' = cancelled
  <2>1. CASE Recv(n) \/ Exit(n) \/ Mutate(n) \/ Guard(n) \/ Fail(n)
    BY <2>1 DEF Recv, Exit, Mutate, Guard, Fail
  <2>2. CASE Dispatch(n) \/ FanDone(n) \/ Copy(n) \/ Reported(n) \/ DeliverCancelled(n)
    BY <2>2 DEF Dispatch, FanDone, Copy, Reported, DeliverCancelled
  <2>3. QED
    BY <1>2, <2>1, <2>2 DEF NodeStep
<1>3. ASSUME NEW n \in Nodes, NEW p \in Ports(n), PortStep(n, p) \/ Send(n, p) PROVE cancelled' = cancelled
  BY <1>3 DEF PortStep, Clone, SendCancelled, Send
<1>4. ASSUME NEW t \in Lockers, Wait(t) PROVE cancelled' = cancelled
  BY <1>4 DEF Wait
<1>5. CASE Stop
  BY <1>5 DEF Stop
<1>6. QED
  BY <1>1, <1>2, <1>3, <1>4, <1>5 DEF Next

\* The books balance initially.
LEMMA BalanceStarts ==
  ASSUME Init
  PROVE  Units /\ Balanced
<1>1. Units
  BY DEF Init, Units, UnitInv
<1>2. ASSUME NEW n \in Nodes, NEW o \in Origins PROVE Balance(n, o)
  <2>1. \A u : ~Busy(u, o) \/ u \notin Nodes
    BY DEF Init, Busy
  <2>2. SourceDone(n, o) = 0
    BY DEF Init, SourceDone, Bit
  <2>3. \A u \in Nodes : \A p \in Ports(u) : \A i : WireDone(u, p, i, o) = 0
    BY <2>1 DEF Init, WireDone, WireOpen, Bit
  <2>4. \A u \in Nodes : \A i : CatchDone(u, i, o) = 0 /\ CompleteDone(u, i, o) = 0
    BY <2>1 DEF Init, CatchDone, CompleteDone, CatchOpen, CompleteOpen, Bit
  <2>5. ASSUME NEW s \in Slots(n) PROVE Done(s, o) = 0
    <3>1. CASE s = <<n, "source", 0, 0>>
      BY <2>2, <3>1, DoneIs
    <3>2. ASSUME NEW u \in Nodes, NEW p \in Ports(u), NEW i, s = <<u, "wire", p, i>> PROVE Done(s, o) = 0
      BY <2>3, <3>2, DoneIs
    <3>3. ASSUME NEW u \in Nodes, NEW i, s = <<u, "catch", 0, i>> PROVE Done(s, o) = 0
      BY <2>4, <3>3, DoneIs
    <3>4. ASSUME NEW u \in Nodes, NEW i, s = <<u, "complete", 0, i>> PROVE Done(s, o) = 0
      BY <2>4, <3>4, DoneIs
    <3>5. QED
      BY <3>1, <3>2, <3>3, <3>4, SlotForms
  <2>6. Settled(n, o) = {}
    BY <2>5 DEF Settled
  <2>7. Waiting(n, o) = {}
    BY DEF Init, Waiting
  <2>8. taken[n][o] = 0
    BY DEF Init
  <2>9. QED
    BY <2>5, <2>6, <2>7, <2>8, FS_EmptySet DEF Balance
<1>3. QED
  BY <1>1, <1>2 DEF Balanced

\* When every node is idle nothing is open and nothing waits.
LEMMA QuietRounds ==
  ASSUME MsgTypes, Balanced, Quiet, NEW n \in Nodes, NEW o \in Origins
  PROVE  taken[n][o] = Cardinality(UNION {{s} \X (1 .. Rounds(s, o)) : s \in Slots(n)})
<1>1. \A u \in Nodes : ~Busy(u, o)
  BY DEF Quiet, Busy
<1>2. ASSUME NEW s \in Slots(n) PROVE Done(s, o) = Rounds(s, o)
  <2>1. CASE s = <<n, "source", 0, 0>>
    BY <2>1, DoneIs DEF Rounds, SourceDone, Bit
  <2>2. ASSUME NEW u \in Nodes, NEW p \in Ports(u), NEW i, s = <<u, "wire", p, i>> PROVE Done(s, o) = Rounds(s, o)
    <3>1. Done(s, o) = WireDone(u, p, i, o)
      BY <2>2, DoneIs
    <3>2. Rounds(s, o) = IF u \in Holders THEN routed[u][p][o] ELSE IF p = 1 THEN taken[u][o] - failed[u][o] ELSE 0
      BY <2>2 DEF Rounds
    <3>3. routed[u][p] \in Counters /\ taken[u] \in Counters /\ failed[u] \in Counters
      BY DEF MsgTypes, CountsTyped
    <3>4. routed[u][p][o] \in Nat /\ taken[u][o] \in Nat /\ failed[u][o] \in Nat
      BY <3>3 DEF Counters
    <3>5. ~WireOpen(u, p, i, o)
      BY <1>1 DEF WireOpen
    <3>6. QED
      BY <3>1, <3>2, <3>4, <3>5 DEF WireDone, Bit
  <2>3. ASSUME NEW u \in Nodes, NEW i, s = <<u, "catch", 0, i>> PROVE Done(s, o) = Rounds(s, o)
    <3>1. Done(s, o) = CatchDone(u, i, o) /\ Rounds(s, o) = failed[u][o]
      BY <2>3, DoneIs DEF Rounds
    <3>2. failed[u][o] \in Nat
      BY DEF MsgTypes, CountsTyped, Counters
    <3>3. QED
      BY <1>1, <3>1, <3>2 DEF CatchDone, CatchOpen, Bit
  <2>4. ASSUME NEW u \in Nodes, NEW i, s = <<u, "complete", 0, i>> PROVE Done(s, o) = Rounds(s, o)
    <3>1. Done(s, o) = CompleteDone(u, i, o) /\ Rounds(s, o) = taken[u][o]
      BY <2>4, DoneIs DEF Rounds
    <3>2. taken[u][o] \in Nat
      BY DEF MsgTypes, CountsTyped, Counters
    <3>3. QED
      BY <1>1, <3>1, <3>2 DEF CompleteDone, CompleteOpen, Bit
  <2>5. QED
    BY <2>1, <2>2, <2>3, <2>4, SlotForms
<1>3. Settled(n, o) = UNION {{s} \X (1 .. Rounds(s, o)) : s \in Slots(n)}
  BY <1>2 DEF Settled
<1>4. Waiting(n, o) = {}
  BY DEF Quiet, Waiting
<1>5. taken[n][o] \in Nat
  BY DEF MsgTypes, CountsTyped, Counters
<1>6. Cardinality(Settled(n, o)) = taken[n][o] + Cardinality(Waiting(n, o))
  BY DEF Balanced, Balance
<1>7. Cardinality(Settled(n, o)) = taken[n][o]
  BY <1>4, <1>5, <1>6, FS_EmptySet
<1>8. QED
  BY <1>3, <1>7

\* The inductive invariant.
FlowInv == MsgTypes /\ (~cancelled => Units /\ Balanced)

\* The invariant implies NothingLost.
LEMMA NothingLostFollows ==
  ASSUME FlowInv
  PROVE  NothingLost
<1> SUFFICES ASSUME Quiet, ~cancelled, NEW n \in Nodes, NEW o \in DOMAIN origin
             PROVE  taken[n][o] = Cardinality(UNION {{s} \X (1 .. Rounds(s, o)) : s \in Slots(n)})
  BY DEF NothingLost
<1>1. o \in Origins
  BY MessagingAssumption DEF FlowInv, MsgTypes, CountsTyped, Origins
<1>2. QED
  BY <1>1, QuietRounds DEF FlowInv

\* with_uow, fan_out_one, handle_error, notify_node_uow_completed: in every flow, of any
\* nodes, wires, catch and complete nodes and with queues of any capacity, a flow that
\* comes to rest without being stopped has lost no message and sent none twice.
THEOREM NothingIsLost == Spec => []NothingLost
<1>1. Init => FlowInv
  BY TypesInit, BalanceStarts DEF FlowInv
<1>2. FlowInv /\ [Next]_vars => FlowInv'
  <2> SUFFICES ASSUME FlowInv, [Next]_vars PROVE FlowInv'
    OBVIOUS
  <2>1. MsgTypes'
    BY TypesKept DEF FlowInv
  <2>2. CASE Next
    BY <2>1, <2>2, BalanceKept, CancelledStays DEF FlowInv
  <2>3. CASE UNCHANGED vars
    <3>1. HeapOk
      BY <2>3, SameHeap DEF vars, FlowInv
    <3>2. QED
      BY <2>1, <2>3, <3>1, UnitsStill, StillBalance DEF FlowInv, vars
  <2>4. QED
    BY <2>2, <2>3
<1>3. FlowInv => NothingLost
  BY NothingLostFollows
<1>4. QED
  BY <1>1, <1>2, <1>3, PTL DEF Spec

---------------------------------------------------------------------------
(* LinkNodes.                                                              *)

---------------------------------------------------------------------------
(* The invariant.                                                          *)

LinkSteps == {"flow", "pushed", "inject", "return", "send", "gone"}
LinkRefs == [msg : Nat, at : LinkSteps, entry : Nat]
LinkEntries == [call : LinkNodeSet, returned : Nat, expired : Nat]

\* A reference that has its entry for itself: it is about to register the event of
\* the call, or it has taken the event and is about to send.
Holds(r) == lnkRefs[r].at \in {"pushed", "send"}

LinkTypes ==
    /\ lnkStacks \in Seq(Seq(Nat))
    /\ lnkRefs \in Seq(LinkRefs)
    /\ lnkEntries \in Seq(LinkEntries)
    /\ \A r \in DOMAIN lnkRefs : lnkRefs[r].msg \in DOMAIN lnkStacks
    /\ \A r \in DOMAIN lnkRefs :
          lnkRefs[r].at \in {"pushed", "inject", "send"} => lnkRefs[r].entry \in DOMAIN lnkEntries
    /\ lnkEvents \subseteq DOMAIN lnkEntries

LinkUndecided(e) == lnkEntries[e].returned = 0 /\ lnkEntries[e].expired = 0

\* A call is undecided while its event is in the table or one reference holds its
\* entry, and it is never both or held twice: this is what makes the second return of
\* a copied message and a late timeout find nothing.
LinkOneHolder ==
    /\ \A e \in lnkEvents : LinkUndecided(e)
    /\ \A r \in DOMAIN lnkRefs : Holds(r) =>
          /\ LinkUndecided(lnkRefs[r].entry)
          /\ lnkRefs[r].entry \notin lnkEvents
          /\ \A s \in DOMAIN lnkRefs : Holds(s) /\ lnkRefs[s].entry = lnkRefs[r].entry => s = r

LinkInv == LinkTypes /\ LinkOneHolder

---------------------------------------------------------------------------
(* Lemmas.                                                                 *)

\* The records after a change of one field.
LEMMA LinkRecords ==
  /\ \A q \in LinkRefs, m \in Nat :
        [q EXCEPT !.msg = m] = [msg |-> m, at |-> q.at, entry |-> q.entry]
  /\ \A q \in LinkEntries : \A n :
        /\ [q EXCEPT !.returned = n] = [call |-> q.call, returned |-> n, expired |-> q.expired]
        /\ [q EXCEPT !.expired = n] = [call |-> q.call, returned |-> q.returned, expired |-> n]
BY DEF LinkRefs, LinkEntries

\* MoveRef changes one reference and keeps the others.
Moved(r, at, e) == [lnkRefs EXCEPT ![r].at = at, ![r].entry = e]

(* Moving one reference to its next step leaves the others and its message alone. *)
LEMMA MovedFacts ==
  ASSUME LinkTypes, NEW r \in DOMAIN lnkRefs, NEW at \in LinkSteps, NEW e \in Nat
  PROVE  /\ Moved(r, at, e) \in Seq(LinkRefs) /\ DOMAIN Moved(r, at, e) = DOMAIN lnkRefs
         /\ Moved(r, at, e)[r].msg = lnkRefs[r].msg /\ Moved(r, at, e)[r].at = at
         /\ Moved(r, at, e)[r].entry = e
         /\ \A s \in DOMAIN lnkRefs : s # r => Moved(r, at, e)[s] = lnkRefs[s]
<1>1. lnkRefs \in Seq(LinkRefs) /\ DOMAIN lnkRefs = 1 .. Len(lnkRefs) /\ lnkRefs[r] \in LinkRefs
  BY LenProperties, ElementOfSeq DEF LinkTypes
<1>. DEFINE new == [msg |-> lnkRefs[r].msg, at |-> at, entry |-> e]
<1>2. new \in LinkRefs
  BY <1>1 DEF LinkRefs
<1>3. Moved(r, at, e) = [lnkRefs EXCEPT ![r] = new]
  <2>1. lnkRefs \in [DOMAIN lnkRefs -> LinkRefs]
    BY <1>1, LenProperties
  <2>2. DOMAIN [lnkRefs EXCEPT ![r].at = at, ![r].entry = e] = DOMAIN lnkRefs
    OBVIOUS
  <2>3. [lnkRefs EXCEPT ![r].at = at, ![r].entry = e][r] = new
    BY <1>1 DEF LinkRefs
  <2>. QED
    BY <1>2, <2>1, <2>2, <2>3 DEF Moved
<1>4. /\ [lnkRefs EXCEPT ![r] = new] \in Seq(LinkRefs)
      /\ Len([lnkRefs EXCEPT ![r] = new]) = Len(lnkRefs)
      /\ \A j \in 1 .. Len(lnkRefs) : [lnkRefs EXCEPT ![r] = new][j] = IF j = r THEN new ELSE lnkRefs[j]
  BY <1>1, <1>2, ExceptSeq
<1>. QED
  BY <1>1, <1>3, <1>4, LenProperties

(* The same, of the step itself.                                             *)
LEMMA MoveRefFacts ==
  ASSUME LinkTypes, NEW r \in DOMAIN lnkRefs, NEW at \in LinkSteps, NEW e \in Nat,
         MoveRef(r, at, e)
  PROVE  /\ lnkRefs' \in Seq(LinkRefs)
         /\ DOMAIN lnkRefs' = DOMAIN lnkRefs
         /\ lnkRefs'[r].msg = lnkRefs[r].msg /\ lnkRefs'[r].at = at /\ lnkRefs'[r].entry = e
         /\ \A s \in DOMAIN lnkRefs : s # r => lnkRefs'[s] = lnkRefs[s]
<1>1. lnkRefs' = Moved(r, at, e)
  BY DEF MoveRef, Moved
<1>. QED
  BY <1>1, MovedFacts

\* What the types say of a single reference.
LEMMA RefFacts ==
  ASSUME LinkTypes, NEW r \in DOMAIN lnkRefs
  PROVE  /\ lnkRefs[r] \in LinkRefs /\ lnkRefs[r].msg \in DOMAIN lnkStacks
         /\ lnkStacks[lnkRefs[r].msg] \in Seq(Nat)
         /\ DOMAIN lnkEntries = 1 .. Len(lnkEntries) /\ Len(lnkEntries) \in Nat
         /\ DOMAIN lnkRefs = 1 .. Len(lnkRefs) /\ Len(lnkRefs) \in Nat
<1>1. lnkRefs[r] \in LinkRefs /\ lnkRefs[r].msg \in DOMAIN lnkStacks
  BY LenProperties, ElementOfSeq DEF LinkTypes
<1>2. lnkStacks[lnkRefs[r].msg] \in Seq(Nat)
  BY <1>1, LenProperties, ElementOfSeq DEF LinkTypes
<1>. QED
  BY <1>1, <1>2, LenProperties DEF LinkTypes

\* New references begin in the flow, with nothing to hold.
LEMMA JoiningRefs ==
  ASSUME LinkInv, NEW more \in Seq(LinkRefs), NEW kept \in Seq(LinkRefs),
         lnkRefs' = kept \o more, DOMAIN kept = DOMAIN lnkRefs,
         \A i \in DOMAIN more : more[i].at = "flow" /\ more[i].msg \in DOMAIN lnkStacks',
         \A r \in DOMAIN kept : /\ kept[r] = lnkRefs[r] \/ kept[r].at = "flow"
                                /\ kept[r].msg = lnkRefs[r].msg,
         lnkStacks' \in Seq(Seq(Nat)), DOMAIN lnkStacks \subseteq DOMAIN lnkStacks',
         UNCHANGED <<lnkEntries, lnkEvents>>
  PROVE  LinkInv'
<1>. USE DEF LinkInv, LinkTypes
<1>1. /\ lnkRefs' \in Seq(LinkRefs) /\ Len(lnkRefs') = Len(kept) + Len(more)
      /\ \A i \in 1 .. Len(kept) + Len(more) :
            lnkRefs'[i] = IF i <= Len(kept) THEN kept[i] ELSE more[i - Len(kept)]
  BY ConcatProperties
<1>2. /\ DOMAIN kept = 1 .. Len(kept) /\ DOMAIN more = 1 .. Len(more)
      /\ DOMAIN lnkRefs' = 1 .. Len(kept) + Len(more) /\ Len(kept) \in Nat /\ Len(more) \in Nat
  BY <1>1, LenProperties
<1>3. ASSUME NEW i \in DOMAIN lnkRefs'
      PROVE  /\ lnkRefs'[i].msg \in DOMAIN lnkStacks'
             /\ \/ lnkRefs'[i].at = "flow"
                \/ i \in DOMAIN lnkRefs /\ lnkRefs'[i] = lnkRefs[i]
  <2>1. CASE i <= Len(kept)
    BY <1>1, <1>2, <2>1
  <2>2. CASE ~(i <= Len(kept))
    <3>1. i - Len(kept) \in DOMAIN more /\ lnkRefs'[i] = more[i - Len(kept)]
      BY <1>1, <1>2, <2>2
    <3>. QED
      BY <3>1
  <2>. QED
    BY <2>1, <2>2
<1>4. LinkTypes'
  BY <1>1, <1>3
<1>5. LinkOneHolder'
  <2>1. \A i \in DOMAIN lnkRefs' : Holds(i)' =>
          i \in DOMAIN lnkRefs /\ lnkRefs'[i] = lnkRefs[i] /\ Holds(i)
    BY <1>3 DEF Holds
  <2>2. \A e : LinkUndecided(e)' <=> LinkUndecided(e)
    BY DEF LinkUndecided
  <2>3. \A e \in lnkEvents' : LinkUndecided(e)'
    BY <2>2 DEF LinkOneHolder
  <2>4. ASSUME NEW i \in DOMAIN lnkRefs', Holds(i)'
        PROVE  LinkUndecided(lnkRefs[i].entry)' /\ lnkRefs'[i].entry \notin lnkEvents'
    <3>1. i \in DOMAIN lnkRefs /\ lnkRefs'[i] = lnkRefs[i] /\ Holds(i)
      BY <2>1, <2>4
    <3>. HIDE DEF LinkInv, LinkTypes
    <3>2. LinkUndecided(lnkRefs[i].entry) /\ lnkRefs[i].entry \notin lnkEvents
      BY <3>1 DEF LinkInv, LinkOneHolder
    <3>. QED
      BY <3>1, <3>2 DEF LinkUndecided
  <2>5. ASSUME NEW i \in DOMAIN lnkRefs', Holds(i)', NEW s \in DOMAIN lnkRefs', Holds(s)',
               lnkRefs'[s].entry = lnkRefs'[i].entry
        PROVE  s = i
    <3>1. /\ i \in DOMAIN lnkRefs /\ lnkRefs'[i] = lnkRefs[i] /\ Holds(i)
          /\ s \in DOMAIN lnkRefs /\ lnkRefs'[s] = lnkRefs[s] /\ Holds(s)
      BY <2>1, <2>5
    <3>. HIDE DEF LinkInv, LinkTypes
    <3>. QED
      BY <2>5, <3>1 DEF LinkInv, LinkOneHolder
  <2>. HIDE DEF LinkInv, LinkTypes
  <2>. QED
    BY <2>3, <2>4, <2>5 DEF LinkOneHolder
<1>. QED
  BY <1>4, <1>5

\* A step that only moves a reference, out of or into a place where it holds nothing.
LEMMA MovingOn ==
  ASSUME LinkInv, NEW r \in DOMAIN lnkRefs, NEW at \in LinkSteps \ {"pushed", "inject", "send"},
         NEW e \in Nat, MoveRef(r, at, e),
         lnkStacks' \in Seq(Seq(Nat)), DOMAIN lnkStacks \subseteq DOMAIN lnkStacks',
         UNCHANGED <<lnkEntries, lnkEvents>>
  PROVE  LinkInv'
<1>. USE DEF LinkInv
<1>1. /\ lnkRefs' \in Seq(LinkRefs) /\ DOMAIN lnkRefs' = DOMAIN lnkRefs
      /\ lnkRefs'[r].msg = lnkRefs[r].msg /\ lnkRefs'[r].at = at
      /\ \A s \in DOMAIN lnkRefs : s # r => lnkRefs'[s] = lnkRefs[s]
  BY MoveRefFacts
<1>2. LinkTypes'
  BY <1>1 DEF LinkTypes
<1>3. LinkOneHolder'
  BY <1>1 DEF LinkOneHolder, Holds, LinkUndecided
<1>. QED
  BY <1>2, <1>3

\* A step that counts an outcome of one call and leaves the other calls alone.
EntriesKept(e) ==
    /\ lnkEntries' \in Seq(LinkEntries) /\ DOMAIN lnkEntries' = DOMAIN lnkEntries
    /\ \A i \in DOMAIN lnkEntries : i # e => lnkEntries'[i] = lnkEntries[i]

(* Counting a return or an expiry changes nothing else of a pending call.    *)
LEMMA CountedEntry ==
  ASSUME lnkEntries \in Seq(LinkEntries), NEW e \in DOMAIN lnkEntries,
         \/ lnkEntries' = [lnkEntries EXCEPT ![e].returned = @ + 1]
         \/ lnkEntries' = [lnkEntries EXCEPT ![e].expired = @ + 1]
  PROVE  EntriesKept(e)
<1>1. lnkEntries[e] \in LinkEntries /\ DOMAIN lnkEntries = 1 .. Len(lnkEntries)
  BY LenProperties, ElementOfSeq
<1>. DEFINE returned == [lnkEntries[e] EXCEPT !.returned = lnkEntries[e].returned + 1]
            expired == [lnkEntries[e] EXCEPT !.expired = lnkEntries[e].expired + 1]
<1>2. returned \in LinkEntries /\ expired \in LinkEntries
  <2>1. /\ returned = [call |-> lnkEntries[e].call, returned |-> lnkEntries[e].returned + 1,
                       expired |-> lnkEntries[e].expired]
        /\ expired = [call |-> lnkEntries[e].call, returned |-> lnkEntries[e].returned,
                      expired |-> lnkEntries[e].expired + 1]
    BY <1>1, LinkRecords
  <2>. QED
    BY <1>1, <2>1 DEF LinkEntries
<1>3. \/ lnkEntries' = [lnkEntries EXCEPT ![e] = returned]
      \/ lnkEntries' = [lnkEntries EXCEPT ![e] = expired]
  OBVIOUS
<1>. HIDE DEF returned, expired
<1>. QED
  BY <1>1, <1>2, <1>3, ExceptSeq, LenProperties DEF EntriesKept

\* A timeout that finds no event changes nothing of the call.
LEMMA LateTimeout ==
  ASSUME lnkEntries \in Seq(LinkEntries), NEW e \in DOMAIN lnkEntries, LinkTimeout(e), e \notin lnkEvents
  PROVE  UNCHANGED lnkEntries
<1>1. lnkEntries' = [lnkEntries EXCEPT ![e].expired = @]
  BY DEF LinkTimeout
<1>2. lnkEntries[e] \in LinkEntries
  BY LenProperties, ElementOfSeq
<1>3. [lnkEntries[e] EXCEPT !.expired = @] = lnkEntries[e]
  BY <1>2 DEF LinkEntries
<1>. QED
  BY <1>1, <1>3, LenProperties

\* Nobody who holds an entry, and no event, is touched by the outcome of another call.
LEMMA OthersKept ==
  ASSUME LinkInv, LinkTypes', NEW e \in DOMAIN lnkEntries, EntriesKept(e),
         lnkEvents' \subseteq lnkEvents \ {e}, DOMAIN lnkRefs' = DOMAIN lnkRefs,
         \A s \in DOMAIN lnkRefs : Holds(s)' =>
            Holds(s) /\ lnkRefs'[s] = lnkRefs[s] /\ lnkRefs[s].entry # e
  PROVE  LinkInv'
<1>. USE DEF LinkInv
<1>1. \A i \in DOMAIN lnkEntries : i # e /\ LinkUndecided(i) => LinkUndecided(i)'
  BY DEF EntriesKept, LinkUndecided
<1>2. \A s \in DOMAIN lnkRefs : Holds(s) => lnkRefs[s].entry \in DOMAIN lnkEntries
  BY DEF LinkTypes, Holds
<1>3. \A i \in lnkEvents' : LinkUndecided(i)'
  BY <1>1 DEF LinkOneHolder, LinkTypes
<1>. DEFINE Open(i) == lnkEntries'[i].returned = 0 /\ lnkEntries'[i].expired = 0
<1>4. \A i : LinkUndecided(i)' <=> Open(i)
  BY DEF LinkUndecided
<1>. HIDE DEF Open
<1>5. ASSUME NEW s \in DOMAIN lnkRefs, Holds(s)'
      PROVE  /\ Open(lnkRefs'[s].entry) /\ lnkRefs'[s].entry \notin lnkEvents'
             /\ \A t \in DOMAIN lnkRefs : Holds(t)' /\ lnkRefs'[t].entry = lnkRefs'[s].entry => t = s
  BY <1>1, <1>2, <1>4, <1>5 DEF LinkOneHolder
<1>6. LinkOneHolder'
  BY <1>3, <1>4, <1>5 DEF LinkOneHolder
<1>. QED
  BY <1>6

---------------------------------------------------------------------------
(* The steps.                                                              *)

\* forward_call_msg: the new entry is nobody else's.
LEMMA PushKeeps ==
  ASSUME LinkInv, NEW r \in DOMAIN lnkRefs, NEW c \in LinkNodeSet, LinkPush(r, c)
  PROVE  LinkInv'
<1>. USE DEF LinkInv
<1>. PICK e \in Nat : e = Len(lnkEntries) + 1
  BY RefFacts
<1>. DEFINE new == [call |-> c, returned |-> 0, expired |-> 0]
<1>1. /\ lnkRefs[r].at = "flow" /\ lnkEntries' = Append(lnkEntries, new)
      /\ lnkStacks' = [lnkStacks EXCEPT ![lnkRefs[r].msg] = Append(@, e)]
      /\ MoveRef(r, "pushed", e) /\ UNCHANGED lnkEvents
  BY DEF LinkPush
<1>2. e \in Nat /\ DOMAIN lnkEntries = 1 .. Len(lnkEntries) /\ Len(lnkEntries) \in Nat
  BY RefFacts
<1>3. /\ lnkEntries' \in Seq(LinkEntries) /\ DOMAIN lnkEntries' = 1 .. e /\ lnkEntries'[e] = new
      /\ \A i \in DOMAIN lnkEntries : lnkEntries'[i] = lnkEntries[i]
  <2>1. lnkEntries \in Seq(LinkEntries) /\ new \in LinkEntries
    BY DEF LinkTypes, LinkEntries
  <2>. QED
    BY <1>1, <1>2, <2>1, AppendProperties, LenProperties
<1>4. lnkStacks' \in Seq(Seq(Nat)) /\ DOMAIN lnkStacks' = DOMAIN lnkStacks
  <2>1. /\ lnkStacks \in Seq(Seq(Nat)) /\ lnkRefs[r].msg \in 1 .. Len(lnkStacks)
        /\ Append(lnkStacks[lnkRefs[r].msg], e) \in Seq(Nat)
    BY <1>2, RefFacts, LenProperties, AppendProperties DEF LinkTypes
  <2>. QED
    BY <1>1, <2>1, ExceptSeq, LenProperties
<1>5. /\ lnkRefs' \in Seq(LinkRefs) /\ DOMAIN lnkRefs' = DOMAIN lnkRefs
      /\ lnkRefs'[r].msg = lnkRefs[r].msg /\ lnkRefs'[r].at = "pushed" /\ lnkRefs'[r].entry = e
      /\ \A s \in DOMAIN lnkRefs : s # r => lnkRefs'[s] = lnkRefs[s]
  BY <1>1, <1>2, MoveRefFacts DEF LinkSteps
<1>6. LinkTypes'
  <2>1. DOMAIN lnkEntries \subseteq DOMAIN lnkEntries' /\ e \in DOMAIN lnkEntries'
    BY <1>2, <1>3
  <2>2. \A s \in DOMAIN lnkRefs' : lnkRefs'[s].msg \in DOMAIN lnkStacks'
    BY <1>4, <1>5 DEF LinkTypes
  <2>3. \A s \in DOMAIN lnkRefs' : lnkRefs'[s].at \in {"pushed", "inject", "send"}
                                   => lnkRefs'[s].entry \in DOMAIN lnkEntries'
    BY <1>5, <2>1 DEF LinkTypes
  <2>. QED
    BY <1>1, <1>3, <1>4, <1>5, <2>1, <2>2, <2>3 DEF LinkTypes
<1>7. LinkOneHolder'
  <2>1. e \notin lnkEvents /\ \A s \in DOMAIN lnkRefs : Holds(s) => lnkRefs[s].entry \in DOMAIN lnkEntries
    BY <1>2 DEF LinkTypes, Holds
  <2>2. \A i \in DOMAIN lnkEntries : LinkUndecided(i) => LinkUndecided(i)'
    BY <1>3 DEF LinkUndecided
  <2>3. LinkUndecided(e)'
    BY <1>3 DEF LinkUndecided
  <2>4. \A s \in DOMAIN lnkRefs : s # r => (Holds(s)' <=> Holds(s))
    BY <1>5 DEF Holds
  <2>5. \A i \in lnkEvents : LinkUndecided(i)'
    BY <2>2 DEF LinkOneHolder, LinkTypes
  <2>. DEFINE Open(i) == lnkEntries'[i].returned = 0 /\ lnkEntries'[i].expired = 0
  <2>6. \A i : LinkUndecided(i)' <=> Open(i)
    BY DEF LinkUndecided
  <2>. HIDE DEF Open
  <2>7. ASSUME NEW s \in DOMAIN lnkRefs, Holds(s)'
        PROVE  /\ Open(lnkRefs'[s].entry) /\ lnkRefs'[s].entry \notin lnkEvents
               /\ \A t \in DOMAIN lnkRefs : Holds(t)' /\ lnkRefs'[t].entry = lnkRefs'[s].entry => t = s
    <3>1. CASE s = r
      BY <1>2, <1>5, <2>1, <2>3, <2>4, <2>6, <3>1
    <3>2. CASE s # r
      <4>1. Holds(s) /\ lnkRefs'[s] = lnkRefs[s]
        BY <1>5, <2>4, <2>7, <3>2
      <4>2. lnkRefs[s].entry \in DOMAIN lnkEntries /\ lnkRefs[s].entry # e
        BY <1>2, <2>1, <4>1
      <4>3. Open(lnkRefs[s].entry)
        BY <2>2, <2>6, <4>1, <4>2 DEF LinkOneHolder
      <4>4. \A t \in DOMAIN lnkRefs : Holds(t)' /\ lnkRefs'[t].entry = lnkRefs'[s].entry => t = s
        BY <1>5, <2>4, <4>1, <4>2 DEF LinkOneHolder
      <4>. QED
        BY <4>1, <4>3, <4>4 DEF LinkOneHolder
    <3>. QED
      BY <3>1, <3>2
  <2>. QED
    BY <1>1, <1>5, <2>5, <2>6, <2>7 DEF LinkOneHolder
<1>. QED
  BY <1>6, <1>7

\* The event that is registered is the one of the reference that pushed the entry.
LEMMA RegisterKeeps ==
  ASSUME LinkInv, NEW r \in DOMAIN lnkRefs, LinkRegister(r)
  PROVE  LinkInv'
<1>. USE DEF LinkInv
<1>. DEFINE e == lnkRefs[r].entry
<1>1. /\ lnkRefs[r].at = "pushed" /\ lnkEvents' = lnkEvents \union {e}
      /\ MoveRef(r, "inject", e) /\ UNCHANGED <<lnkStacks, lnkEntries>>
  BY DEF LinkRegister
<1>2. e \in DOMAIN lnkEntries /\ e \in Nat
  BY <1>1, RefFacts DEF LinkTypes
<1>3. /\ lnkRefs' \in Seq(LinkRefs) /\ DOMAIN lnkRefs' = DOMAIN lnkRefs
      /\ lnkRefs'[r].msg = lnkRefs[r].msg /\ lnkRefs'[r].at = "inject" /\ lnkRefs'[r].entry = e
      /\ \A s \in DOMAIN lnkRefs : s # r => lnkRefs'[s] = lnkRefs[s]
  BY <1>1, <1>2, MoveRefFacts DEF LinkSteps
<1>4. LinkTypes'
  BY <1>1, <1>2, <1>3 DEF LinkTypes
<1>5. LinkOneHolder'
  BY <1>1, <1>3 DEF LinkOneHolder, Holds, LinkUndecided
<1>. QED
  BY <1>4, <1>5

\* return_msg: the event is gone from the table when its reference sends.
LEMMA ReturnKeeps ==
  ASSUME LinkInv, NEW r \in DOMAIN lnkRefs, LinkReturn(r)
  PROVE  LinkInv'
<1>. USE DEF LinkInv
<1>. DEFINE e == lnkRefs[r].entry
<1>1. lnkRefs[r].at = "return" /\ UNCHANGED <<lnkStacks, lnkEntries>>
  BY DEF LinkReturn
<1>2. CASE e \in lnkEvents
  <2>1. lnkEvents' = lnkEvents \ {e} /\ MoveRef(r, "send", e)
    BY <1>2 DEF LinkReturn, TakeEvent
  <2>2. e \in DOMAIN lnkEntries /\ e \in Nat
    BY <1>2, RefFacts DEF LinkTypes
  <2>3. /\ lnkRefs' \in Seq(LinkRefs) /\ DOMAIN lnkRefs' = DOMAIN lnkRefs
        /\ lnkRefs'[r].msg = lnkRefs[r].msg /\ lnkRefs'[r].at = "send" /\ lnkRefs'[r].entry = e
        /\ \A s \in DOMAIN lnkRefs : s # r => lnkRefs'[s] = lnkRefs[s]
    BY <2>1, <2>2, MoveRefFacts DEF LinkSteps
  <2>4. LinkTypes'
    BY <1>1, <2>1, <2>2, <2>3 DEF LinkTypes
  <2>5. LinkOneHolder'
    BY <1>1, <1>2, <2>1, <2>3 DEF LinkOneHolder, Holds, LinkUndecided
  <2>. QED
    BY <2>4, <2>5
<1>3. CASE e \notin lnkEvents
  <2>1. MoveRef(r, "gone", 0) /\ UNCHANGED lnkEvents
    BY <1>3 DEF LinkReturn
  <2>. QED
    BY <1>1, <2>1, MovingOn DEF LinkSteps, LinkTypes
<1>. QED
  BY <1>2, <1>3

\* The message goes back to the link call's output.
LEMMA SendKeeps ==
  ASSUME LinkInv, NEW r \in DOMAIN lnkRefs, LinkSend(r)
  PROVE  LinkInv'
<1>. USE DEF LinkInv
<1>. PICK e \in DOMAIN lnkEntries : e = lnkRefs[r].entry
  BY DEF LinkSend, LinkTypes
<1>1. /\ lnkRefs[r].at = "send" /\ UNCHANGED <<lnkStacks, lnkEvents>> /\ MoveRef(r, "flow", 0)
      /\ lnkEntries' = [lnkEntries EXCEPT ![e].returned = @ + 1]
  BY DEF LinkSend
<1>2. EntriesKept(e)
  BY <1>1, CountedEntry DEF LinkTypes
<1>3. /\ lnkRefs' \in Seq(LinkRefs) /\ DOMAIN lnkRefs' = DOMAIN lnkRefs
      /\ lnkRefs'[r].msg = lnkRefs[r].msg /\ lnkRefs'[r].at = "flow"
      /\ \A s \in DOMAIN lnkRefs : s # r => lnkRefs'[s] = lnkRefs[s]
  BY <1>1, MoveRefFacts DEF LinkSteps
<1>4. LinkTypes'
  BY <1>1, <1>2, <1>3 DEF LinkTypes, EntriesKept
<1>5. Holds(r) /\ \A s \in DOMAIN lnkRefs : Holds(s)' => s # r /\ Holds(s) /\ lnkRefs'[s] = lnkRefs[s]
  BY <1>1, <1>3 DEF Holds
<1>6. e \notin lnkEvents /\ \A s \in DOMAIN lnkRefs : Holds(s)' => lnkRefs[s].entry # e
  BY <1>5 DEF LinkOneHolder
<1>. QED
  BY <1>1, <1>2, <1>3, <1>4, <1>5, <1>6, OthersKept

\* timeout_task: an event that it finds has no holder.
LEMMA TimeoutKeeps ==
  ASSUME LinkInv, NEW e \in DOMAIN lnkEntries, LinkTimeout(e)
  PROVE  LinkInv'
<1>. USE DEF LinkInv
<1>1. UNCHANGED <<lnkStacks, lnkRefs>> /\ lnkEvents' = lnkEvents \ {e}
  BY DEF LinkTimeout
<1>2. CASE e \in lnkEvents
  <2>1. lnkEntries' = [lnkEntries EXCEPT ![e].expired = @ + 1]
    BY <1>2 DEF LinkTimeout
  <2>2. EntriesKept(e)
    BY <2>1, CountedEntry DEF LinkTypes
  <2>3. \A s \in DOMAIN lnkRefs : Holds(s)' => Holds(s) /\ lnkRefs[s].entry # e
    BY <1>1, <1>2 DEF LinkOneHolder, Holds
  <2>4. LinkTypes'
    BY <1>1, <2>2 DEF LinkTypes, EntriesKept
  <2>. QED
    BY <1>1, <2>2, <2>3, <2>4, OthersKept
<1>3. CASE e \notin lnkEvents
  <2>1. lnkEntries' = lnkEntries /\ lnkEvents' = lnkEvents
    BY <1>1, <1>3, LateTimeout DEF LinkTypes
  <2>. QED
    BY <1>1, <2>1 DEF LinkTypes, LinkOneHolder, Holds, LinkUndecided
<1>. QED
  BY <1>2, <1>3

\* Every reachable state has the types and at most one holder for every call.
THEOREM LinkCorrect == LinkSpec => []LinkInv
<1>1. LinkInit => LinkInv
  <2>. SUFFICES ASSUME LinkInit PROVE LinkInv
    OBVIOUS
  <2>1. lnkStacks \in Seq(Seq(Nat)) /\ DOMAIN lnkStacks = {1}
    BY DEF LinkInit
  <2>2. /\ lnkRefs \in Seq(LinkRefs) /\ DOMAIN lnkRefs = {1}
        /\ lnkRefs[1].msg = 1 /\ lnkRefs[1].at = "flow"
    BY DEF LinkInit, LinkRefs, LinkSteps
  <2>3. lnkEntries \in Seq(LinkEntries)
    BY DEF LinkInit
  <2>. QED
    BY <2>1, <2>2, <2>3 DEF LinkInit, LinkInv, LinkTypes, LinkOneHolder, Holds
<1>2. LinkInv /\ [LinkNext]_linkVars => LinkInv'
  <2>. SUFFICES ASSUME LinkInv, [LinkNext]_linkVars PROVE LinkInv'
    OBVIOUS
  <2>. USE DEF LinkInv
  <2>1. ASSUME NEW r \in DOMAIN lnkRefs, LinkFork(r) PROVE LinkInv'
    <3>. DEFINE twin == [lnkRefs[r] EXCEPT !.msg = Len(lnkStacks) + 1]
    <3>1. /\ lnkRefs[r].at = "flow" /\ lnkRefs' = Append(lnkRefs, twin)
          /\ lnkStacks' = Append(lnkStacks, lnkStacks[lnkRefs[r].msg])
          /\ UNCHANGED <<lnkEntries, lnkEvents>>
      BY <2>1 DEF LinkFork
    <3>2. /\ lnkStacks' \in Seq(Seq(Nat)) /\ DOMAIN lnkStacks = 1 .. Len(lnkStacks)
          /\ DOMAIN lnkStacks' = 1 .. Len(lnkStacks) + 1 /\ Len(lnkStacks) \in Nat
      BY <3>1, RefFacts, AppendProperties, LenProperties DEF LinkTypes
    <3>3. twin \in LinkRefs /\ twin.at = "flow" /\ twin.msg = Len(lnkStacks) + 1
      <4>1. lnkRefs[r] \in LinkRefs /\ Len(lnkStacks) + 1 \in Nat /\ lnkRefs[r].at = "flow"
        BY <3>1, <3>2, RefFacts
      <4>2. twin = [msg |-> Len(lnkStacks) + 1, at |-> "flow", entry |-> lnkRefs[r].entry]
        BY <4>1, LinkRecords
      <4>. QED
        BY <4>1, <4>2 DEF LinkRefs
    <3>. HIDE DEF twin
    <3>4. /\ <<twin>> \in Seq(LinkRefs) /\ DOMAIN <<twin>> = {1} /\ <<twin>>[1] = twin
          /\ lnkRefs \in Seq(LinkRefs) /\ lnkRefs' = lnkRefs \o <<twin>>
      BY <3>1, <3>3 DEF LinkTypes
    <3>5. \A i \in DOMAIN <<twin>> : <<twin>>[i].at = "flow" /\ <<twin>>[i].msg \in DOMAIN lnkStacks'
      BY <3>2, <3>3, <3>4
    <3>6. DOMAIN lnkStacks \subseteq DOMAIN lnkStacks'
      BY <3>2
    <3>. HIDE DEF LinkInv
    <3>. QED
      BY <3>1, <3>2, <3>4, <3>5, <3>6, JoiningRefs
  <2>2. ASSUME NEW r \in DOMAIN lnkRefs, LinkInject(r) PROVE LinkInv'
    <3>. DEFINE n == LinkTargets[CallOf(lnkRefs[r].entry)] - 1
                one == [msg |-> lnkRefs[r].msg, at |-> "flow", entry |-> 0]
                more == [i \in 1 .. n |-> one]
                kept == Moved(r, "flow", 0)
    <3>1. /\ lnkRefs[r].at = "inject" /\ lnkRefs' = kept \o more
          /\ UNCHANGED <<lnkStacks, lnkEntries, lnkEvents>>
      BY <2>2 DEF LinkInject, Moved
    <3>2. lnkRefs[r] \in LinkRefs /\ lnkRefs[r].msg \in DOMAIN lnkStacks /\ one \in LinkRefs
      BY RefFacts DEF LinkRefs, LinkSteps
    <3>3. n \in Nat
      <4>1. lnkEntries[lnkRefs[r].entry] \in LinkEntries
        BY <3>1, LenProperties, ElementOfSeq DEF LinkTypes
      <4>. QED
        BY <4>1, LinkAssumption DEF LinkEntries, CallOf, LinkNodeSet
    <3>4. more \in Seq(LinkRefs) /\ DOMAIN more = 1 .. n
      BY <3>2, <3>3
    <3>5. /\ kept \in Seq(LinkRefs) /\ DOMAIN kept = DOMAIN lnkRefs
          /\ \A s \in DOMAIN kept : /\ kept[s] = lnkRefs[s] \/ kept[s].at = "flow"
                                    /\ kept[s].msg = lnkRefs[s].msg
      BY <3>2, MovedFacts DEF LinkSteps
    <3>6. \A i \in DOMAIN more : more[i].at = "flow" /\ more[i].msg \in DOMAIN lnkStacks'
      BY <3>1, <3>2, <3>4
    <3>7. lnkStacks' \in Seq(Seq(Nat)) /\ DOMAIN lnkStacks \subseteq DOMAIN lnkStacks'
      BY <3>1 DEF LinkTypes
    <3>. HIDE DEF kept, more, n, LinkInv
    <3>. QED
      BY <3>1, <3>4, <3>5, <3>6, <3>7, JoiningRefs
  <2>3. ASSUME NEW r \in DOMAIN lnkRefs, LinkInjectFails(r) PROVE LinkInv'
    BY <2>3, MovingOn DEF LinkInjectFails, LinkSteps, LinkTypes
  <2>4. ASSUME NEW r \in DOMAIN lnkRefs, LinkPop(r) PROVE LinkInv'
    <3>. DEFINE s == lnkStacks[lnkRefs[r].msg]
    <3>1. CASE s = <<>>
      BY <2>4, <3>1, MovingOn DEF LinkPop, LinkSteps, LinkTypes
    <3>2. CASE s # <<>>
      <4>1. /\ lnkStacks' = [lnkStacks EXCEPT ![lnkRefs[r].msg] = Front(s)]
            /\ MoveRef(r, "return", Last(s)) /\ UNCHANGED <<lnkEntries, lnkEvents>>
        BY <2>4, <3>2 DEF LinkPop
      <4>2. s \in Seq(Nat) /\ Front(s) \in Seq(Nat) /\ Last(s) \in Nat
        <5>1. s \in Seq(Nat) /\ Len(s) \in Nat /\ Len(s) # 0
          BY <3>2, RefFacts, EmptySeq
        <5>2. \A i \in 1 .. Len(s) : s[i] \in Nat
          BY <5>1, ElementOfSeq
        <5>3. Front(s) \in Seq(Nat)
          BY <5>1, <5>2, SubSeqProperties DEF Front
        <5>. QED
          BY <5>1, <5>2, <5>3 DEF Last
      <4>3. lnkStacks' \in Seq(Seq(Nat)) /\ DOMAIN lnkStacks' = DOMAIN lnkStacks
        BY <4>1, <4>2, RefFacts, ExceptSeq, LenProperties DEF LinkTypes
      <4>. QED
        BY <4>1, <4>2, <4>3, MovingOn DEF LinkSteps
    <3>. QED
      BY <3>1, <3>2
  <2>5. ASSUME LinkStop PROVE LinkInv'
    BY <2>5 DEF LinkStop, LinkTypes, LinkOneHolder, Holds, LinkUndecided
  <2>6. CASE UNCHANGED linkVars
    BY <2>6 DEF linkVars, LinkTypes, LinkOneHolder, Holds, LinkUndecided
  <2>. QED
    BY <2>1, <2>2, <2>3, <2>4, <2>5, <2>6, PushKeeps, RegisterKeeps, ReturnKeeps, SendKeeps,
       TimeoutKeeps DEF LinkNext
<1>. QED
  BY <1>1, <1>2, PTL DEF LinkSpec

---------------------------------------------------------------------------
(* The refinement.                                                         *)

\* The state of the abstract calls, as LinkAbstract takes it from the entries.
Outcomes == [e \in DOMAIN lnkEntries |-> LinkOutcome(lnkEntries[e])]

\* The first outcome of a call that is undecided decides it.
LEMMA FirstOutcome ==
  ASSUME lnkEntries \in Seq(LinkEntries), NEW e \in DOMAIN lnkEntries, LinkUndecided(e),
         NEW how \in {"returned", "expired"},
         \/ how = "returned" /\ lnkEntries' = [lnkEntries EXCEPT ![e].returned = @ + 1]
         \/ how = "expired" /\ lnkEntries' = [lnkEntries EXCEPT ![e].expired = @ + 1]
  PROVE  Outcomes[e] = "open" /\ Outcomes' = [Outcomes EXCEPT ![e] = how]
<1>1. lnkEntries[e] \in LinkEntries /\ lnkEntries[e].returned = 0 /\ lnkEntries[e].expired = 0
  BY LenProperties, ElementOfSeq DEF LinkUndecided
<1>2. LinkOutcome(lnkEntries[e]) = "open"
  BY <1>1 DEF LinkOutcome
<1>3. /\ DOMAIN lnkEntries' = DOMAIN lnkEntries
      /\ \A i \in DOMAIN lnkEntries : i # e => lnkEntries'[i] = lnkEntries[i]
  BY CountedEntry DEF EntriesKept
<1>4. LinkOutcome(lnkEntries'[e]) = how
  <2>1. CASE how = "returned"
    <3>1. lnkEntries'[e] = [lnkEntries[e] EXCEPT !.returned = 1]
      BY <1>1, <2>1
    <3>2. [lnkEntries[e] EXCEPT !.returned = 1] = [call |-> lnkEntries[e].call, returned |-> 1, expired |-> lnkEntries[e].expired]
      BY <1>1, LinkRecords
    <3>. QED
      BY <1>1, <2>1, <3>1, <3>2 DEF LinkOutcome
  <2>2. CASE how = "expired"
    <3>1. lnkEntries'[e] = [lnkEntries[e] EXCEPT !.expired = 1]
      BY <1>1, <2>2
    <3>2. [lnkEntries[e] EXCEPT !.expired = 1] = [call |-> lnkEntries[e].call, returned |-> lnkEntries[e].returned, expired |-> 1]
      BY <1>1, LinkRecords
    <3>. QED
      BY <1>1, <2>2, <3>1, <3>2 DEF LinkOutcome
  <2>. QED
    BY <2>1, <2>2
<1>. QED
  BY <1>2, <1>3, <1>4 DEF Outcomes

\* However the return of a message, the returns of its copies and the timeout
\* interleave, every call is begun, then comes back or expires, once: LinkNodes
\* implements LinkCall.
THEOREM LinkRefines == LinkSpec => LinkImplements
<1>1. LinkInit => Outcomes = <<>>
  <2>1. LinkInit => lnkEntries = <<>> /\ DOMAIN lnkEntries = {}
    BY DEF LinkInit
  <2>. QED
    BY <2>1 DEF Outcomes
<1>2. LinkInv /\ [LinkNext]_linkVars => [LinkAbstract!CallNext]_Outcomes
  <2>. SUFFICES ASSUME LinkInv, [LinkNext]_linkVars PROVE LinkAbstract!CallNext \/ UNCHANGED Outcomes
    OBVIOUS
  <2>. USE DEF LinkInv
  <2>1. ASSUME UNCHANGED lnkEntries PROVE UNCHANGED Outcomes
    BY <2>1 DEF Outcomes
  <2>2. ASSUME NEW r \in DOMAIN lnkRefs, NEW c \in LinkNodeSet, LinkPush(r, c)
        PROVE  LinkAbstract!BeginCall
    <3>. DEFINE new == [call |-> c, returned |-> 0, expired |-> 0]
    <3>1. lnkEntries' = Append(lnkEntries, new) /\ LinkOutcome(new) = "open"
      BY <2>2 DEF LinkPush, LinkOutcome
    <3>2. new \in LinkEntries /\ lnkEntries \in Seq(LinkEntries)
      BY DEF LinkEntries, LinkTypes
    <3>. HIDE DEF new
    <3>3. /\ DOMAIN lnkEntries = 1 .. Len(lnkEntries) /\ Len(lnkEntries) \in Nat
          /\ DOMAIN lnkEntries' = 1 .. Len(lnkEntries) + 1
          /\ lnkEntries'[Len(lnkEntries) + 1] = new
          /\ \A i \in DOMAIN lnkEntries : lnkEntries'[i] = lnkEntries[i]
      BY <3>1, <3>2, AppendProperties, LenProperties
    <3>4. Outcomes' = [i \in 1 .. Len(lnkEntries) + 1 |->
                          IF i = Len(lnkEntries) + 1 THEN "open" ELSE Outcomes[i]]
      BY <3>1, <3>3 DEF Outcomes
    <3>5. Append(Outcomes, "open") = [i \in 1 .. Len(lnkEntries) + 1 |->
                          IF i = Len(lnkEntries) + 1 THEN "open" ELSE Outcomes[i]]
      <4>1. Outcomes \in Seq({"open", "returned", "expired", "twice"}) /\ Len(Outcomes) = Len(lnkEntries)
        BY <3>3 DEF Outcomes, LinkOutcome
      <4>. HIDE DEF Outcomes
      <4>2. /\ Append(Outcomes, "open") \in Seq({"open", "returned", "expired", "twice"})
            /\ Len(Append(Outcomes, "open")) = Len(lnkEntries) + 1
            /\ Append(Outcomes, "open")[Len(lnkEntries) + 1] = "open"
            /\ \A i \in 1 .. Len(lnkEntries) : Append(Outcomes, "open")[i] = Outcomes[i]
        BY <4>1, AppendProperties
      <4>. DEFINE longer == Append(Outcomes, "open")
      <4>3. longer = [i \in 1 .. Len(lnkEntries) + 1 |-> longer[i]]
        BY <4>2, LenProperties
      <4>4. \A i \in 1 .. Len(lnkEntries) + 1 :
               longer[i] = IF i = Len(lnkEntries) + 1 THEN "open" ELSE Outcomes[i]
        BY <3>3, <4>2
      <4>. HIDE DEF longer
      <4>5. longer = [i \in 1 .. Len(lnkEntries) + 1 |->
                        IF i = Len(lnkEntries) + 1 THEN "open" ELSE Outcomes[i]]
        BY <4>3, <4>4
      <4>. QED
        BY <4>5 DEF longer
    <3>. QED
      BY <3>4, <3>5 DEF LinkAbstract!BeginCall, Outcomes
  <2>3. ASSUME NEW r \in DOMAIN lnkRefs, LinkSend(r)
        PROVE  \E e \in DOMAIN Outcomes : LinkAbstract!Decide(e, "returned")
    <3>. PICK e \in DOMAIN lnkEntries : e = lnkRefs[r].entry
      BY <2>3 DEF LinkSend, LinkTypes
    <3>1. LinkUndecided(e)
      BY <2>3 DEF LinkSend, LinkOneHolder, Holds
    <3>2. lnkEntries' = [lnkEntries EXCEPT ![e].returned = @ + 1] /\ lnkEntries \in Seq(LinkEntries)
      BY <2>3 DEF LinkSend, LinkTypes
    <3>3. Outcomes[e] = "open" /\ Outcomes' = [Outcomes EXCEPT ![e] = "returned"]
      BY <3>1, <3>2, FirstOutcome
    <3>. QED
      BY <3>3 DEF LinkAbstract!Decide, Outcomes
  <2>4. ASSUME NEW e \in DOMAIN lnkEntries, LinkTimeout(e), e \in lnkEvents
        PROVE  e \in DOMAIN Outcomes /\ LinkAbstract!Decide(e, "expired")
    <3>1. lnkEntries' = [lnkEntries EXCEPT ![e].expired = @ + 1] /\ lnkEntries \in Seq(LinkEntries)
      BY <2>4 DEF LinkTimeout, LinkTypes
    <3>2. Outcomes[e] = "open" /\ Outcomes' = [Outcomes EXCEPT ![e] = "expired"]
      BY <2>4, <3>1, FirstOutcome DEF LinkOneHolder
    <3>. QED
      BY <3>2 DEF LinkAbstract!Decide, Outcomes
  <2>5. ASSUME NEW e \in DOMAIN lnkEntries, LinkTimeout(e), e \notin lnkEvents
        PROVE  UNCHANGED lnkEntries
    BY <2>5, LateTimeout DEF LinkTypes
  <2>6. ASSUME NEW r \in DOMAIN lnkRefs,
               \/ LinkFork(r) \/ LinkRegister(r) \/ LinkInject(r)
               \/ LinkInjectFails(r) \/ LinkPop(r) \/ LinkReturn(r)
        PROVE  UNCHANGED lnkEntries
    BY <2>6 DEF LinkFork, LinkRegister, LinkInject, LinkInjectFails, LinkPop, LinkReturn
  <2>7. LinkStop \/ UNCHANGED linkVars => UNCHANGED lnkEntries
    BY DEF LinkStop, linkVars
  <2>8. DOMAIN Outcomes = DOMAIN lnkEntries
    BY DEF Outcomes
  <2>. QED
    BY <2>1, <2>2, <2>3, <2>4, <2>5, <2>6, <2>7, <2>8 DEF LinkNext, LinkAbstract!CallNext, Outcomes
<1>. QED
  BY <1>1, <1>2, LinkCorrect, PTL DEF LinkSpec, LinkImplements, LinkAbstract!CallSpec, Outcomes
==============================================================================
