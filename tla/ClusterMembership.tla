------------------------- MODULE ClusterMembership -------------------------
(***************************************************************************)
(* Gossip membership of crates/cluster: the member table of every node     *)
(* (gossip.rs, member.rs), heartbeats and full syncs over short-lived TCP  *)
(* connections that may fail or overtake each other, the failure detector, *)
(* graceful leave, crash and restart with the configured node id.          *)
(*                                                                         *)
(* Every connection has a handler task of its own.  It changes an entry    *)
(* it finds under the guard of the entry, but inserts an entry it has not  *)
(* found in a later step, whatever was inserted meanwhile.                 *)
(*                                                                         *)
(* `last_heartbeat` is kept as an age in ticks of the clock, capped just   *)
(* above the failure timeout, where the detector tells nothing more apart. *)
(***************************************************************************)
EXTENDS Integers, FiniteSets

CONSTANTS
  Nodes,      \* the node ids
  Peers,      \* Peers[i]: the peers configured for node i
  Bind,       \* Bind[i]: the address node i binds and advertises
  Wildcard,   \* the address 0.0.0.0, which leads a node to itself
  Timeout,    \* failure_timeout in ticks
  WithSync,   \* whether heartbeats may carry a full sync
  MaxNet,     \* bound on the messages in flight or being handled
  MaxInc,     \* bound on the incarnations
  MaxCrashes, \* bound on the crashes
  MaxLeaves   \* bound on the graceful leaves

VARIABLES
  up,        \* up[i]: "up", "down" (crashed) or "left"
  members,   \* members[i][j]: the entry of j in the table of i
  greet,     \* greet[i]: the configured peers i has still to contact
  inserts,   \* inserts[i]: the entries that handlers of i did not find and will insert
  pending,   \* pending[i]: what the detector of i has found and not yet applied
  net,       \* messages in flight
  crashes, leaves

vars == <<up, members, greet, inserts, pending, net, crashes, leaves>>

ASSUME ClusterAssumption ==
  /\ Wildcard \notin Nodes
  /\ Peers \in [Nodes -> SUBSET Nodes]
  /\ Bind \in [Nodes -> Nodes \cup {Wildcard}]
  /\ Timeout \in Nat \ {0}
  /\ WithSync \in BOOLEAN
  /\ MaxNet \in Nat /\ MaxInc \in Nat /\ MaxCrashes \in Nat /\ MaxLeaves \in Nat

\* "None": the table has no entry for the node.
States == {"None", "Alive", "Suspect", "Dead", "Self"}
Ages == 0..(Timeout + 1)
Addrs == Nodes \cup {Wildcard}
Members == [st : States, inc : Nat, addr : Addrs, age : Ages]

Entry(st, inc, addr) == [st |-> st, inc |-> inc, addr |-> addr, age |-> 0]
Absent == Entry("None", 0, Wildcard)
Known(i) == {j \in Nodes : members[i][j].st # "None"}

\* The table GossipEngine::start begins with.
FirstTable(i) == [j \in Nodes |-> IF j = i THEN Entry("Self", 0, Bind[i]) ELSE Absent]

Init ==
  /\ up = [i \in Nodes |-> "up"]
  /\ members = [i \in Nodes |-> FirstTable(i)]
  /\ greet = [i \in Nodes |-> Peers[i] \ {i}]
  /\ inserts = [i \in Nodes |-> {}]
  /\ pending = [i \in Nodes |-> {}]
  /\ net = {}
  /\ crashes = 0
  /\ leaves = 0

---------------------------------------------------------------------------
(* Sending.                                                                *)

\* Where a connection that node i opens to an address leads.
Target(i, addr) == IF addr = Wildcard THEN i ELSE addr

Heartbeat(i, to) ==
  [type |-> "heartbeat", from |-> i, to |-> to, addr |-> Bind[i], inc |-> members[i][i].inc]

FullSync(i, to) ==
  [type |-> "sync", from |-> i, to |-> to,
   digests |-> [j \in Known(i) |-> [members[i][j] EXCEPT !.age = 0]]]

Leave(i, to) == [type |-> "leave", from |-> i, to |-> to]

\* Connections with an insertion to come, at any node.
Handlers == UNION {{i} \X inserts[i] : i \in Nodes}

Post(ms) ==
  /\ Cardinality(net \cup ms) + Cardinality(Handlers) <= MaxNet
  /\ net' = net \cup ms

\* contact_peers, at the start only.
ContactPeer(i, j) ==
  /\ up[i] = "up"
  /\ j \in greet[i]
  /\ greet' = [greet EXCEPT ![i] = @ \ {j}]
  /\ Post({Heartbeat(i, j)})
  /\ UNCHANGED <<up, members, inserts, pending, crashes, leaves>>

\* The heartbeat task picks one member it takes for alive and sends it a
\* heartbeat or, one time in ten, its whole table.  (It also touches its own
\* timestamp, which nothing reads: a node's own entry does not age here.)
Beat(i, j) ==
  /\ up[i] = "up"
  /\ j # i
  /\ members[i][j].st = "Alive"
  /\ LET to == Target(i, members[i][j].addr) IN
     \/ Post({Heartbeat(i, to)})
     \/ WithSync /\ Post({FullSync(i, to)})
  /\ UNCHANGED <<up, members, greet, inserts, pending, crashes, leaves>>

\* GossipEngine::leave tells the members it takes for alive; the process ends.
LeaveCluster(i) ==
  /\ up[i] = "up"
  /\ leaves < MaxLeaves
  /\ Post({Leave(i, Target(i, members[i][j].addr)) :
             j \in {k \in Nodes \ {i} : members[i][k].st \in {"Alive", "Self"}}})
  /\ up' = [up EXCEPT ![i] = "left"]
  /\ members' = [members EXCEPT ![i] = [j \in Nodes |-> Absent]]
  /\ inserts' = [inserts EXCEPT ![i] = {}]
  /\ pending' = [pending EXCEPT ![i] = {}]
  /\ greet' = [greet EXCEPT ![i] = {}]
  /\ leaves' = leaves + 1
  /\ UNCHANGED crashes

---------------------------------------------------------------------------
(* Receiving: handle_connection.                                           *)

\* Mutant: a heartbeat of an older incarnation is taken over too.
OnHeartbeatAnyInc(e, m) ==
  Entry("Alive", IF e.st = "Suspect" THEN m.inc + 1 ELSE m.inc, m.addr)

\* The entry of the sender after a heartbeat.  `refute` raises the incarnation
\* in the table of the receiver, the sender does not learn of it.
OnHeartbeat(e, m) ==
  IF e.st = "None" THEN Entry("Alive", m.inc, m.addr)
  ELSE IF m.inc < e.inc THEN e
  ELSE Entry("Alive", IF e.st = "Suspect" THEN m.inc + 1 ELSE m.inc, m.addr)

\* An entry after the digest of a full sync: a newer incarnation wins, whoever
\* the entry is about.
OnDigest(e, d) ==
  IF e.st = "None" THEN IF d.st = "Dead" THEN e ELSE Entry(d.st, d.inc, d.addr)
  ELSE IF d.inc > e.inc THEN Entry(d.st, d.inc, d.addr)
  ELSE e

\* What the receiver's table is to become after message m.
Received(m) ==
  LET table == members[m.to] IN
  CASE m.type = "heartbeat" ->
         [table EXCEPT ![m.from] = OnHeartbeat(@, m)]
    [] m.type = "sync" ->
         [j \in Nodes |-> IF j \in DOMAIN m.digests
                          THEN OnDigest(table[j], m.digests[j]) ELSE table[j]]
    [] m.type = "leave" ->
         IF m.from = m.to THEN table ELSE [table EXCEPT ![m.from] = Absent]

\* The handler updates or removes the entries it finds ...
Updated(m) ==
  [j \in Nodes |-> IF j \in Known(m.to) THEN Received(m)[j] ELSE members[m.to][j]]

\* ... and is about to insert the ones it does not find.
Discovered(m) ==
  {<<j, Received(m)[j]>> : j \in {k \in Nodes \ Known(m.to) : Received(m)[k].st # "None"}}

Receive(m) ==
  /\ m \in net
  /\ up[m.to] = "up"
  /\ \A j \in Nodes : Received(m)[j].inc <= MaxInc
  /\ members' = [members EXCEPT ![m.to] = Updated(m)]
  /\ inserts' = [inserts EXCEPT ![m.to] = @ \cup Discovered(m)]
  /\ net' = net \ {m}
  /\ UNCHANGED <<up, greet, pending, crashes, leaves>>

Insert(i, x) ==
  /\ x \in inserts[i]
  /\ members' = [members EXCEPT ![i][x[1]] = x[2]]
  /\ inserts' = [inserts EXCEPT ![i] = @ \ {x}]
  /\ UNCHANGED <<up, greet, pending, net, crashes, leaves>>

\* The connection breaks, or nobody listens.
Lose(m) ==
  /\ m \in net
  /\ net' = net \ {m}
  /\ UNCHANGED <<up, members, greet, inserts, pending, crashes, leaves>>

---------------------------------------------------------------------------
(* The failure detector.                                                   *)

\* Mutant: only suspects are declared dead.
VerdictOnlySuspects(e) ==
  IF e.age > Timeout /\ e.st = "Suspect" THEN "Dead" ELSE "None"

\* What the detector concludes about an entry, "None" for nothing.
Verdict(e) ==
  IF e.st = "None" THEN "None"
  ELSE IF e.age > Timeout /\ e.st # "Dead" THEN "Dead"
  ELSE IF e.age > Timeout \div 2 /\ e.st = "Alive" THEN "Suspect"
  ELSE "None"

\* A tick of the detector reads the whole table first ...
Detect(i) ==
  /\ up[i] = "up"
  /\ pending[i] = {}
  /\ LET found == {j \in Nodes \ {i} : Verdict(members[i][j]) # "None"} IN
     /\ found # {}
     /\ pending' = [pending EXCEPT ![i] = {<<j, Verdict(members[i][j])>> : j \in found}]
  /\ UNCHANGED <<up, members, greet, inserts, net, crashes, leaves>>

\* The entry after the verdict v: mark_dead does not look at the entry again,
\* mark_suspect only at its state.
Judged(e, v) ==
  IF e.st = "None" THEN e
  ELSE IF v = "Dead" THEN [e EXCEPT !.st = "Dead"]
  ELSE IF e.st = "Alive" THEN [e EXCEPT !.st = "Suspect"] ELSE e

\* ... and then applies what it found, entry by entry.
Judge(i, d) ==
  /\ up[i] = "up"
  /\ d \in pending[i]
  /\ pending' = [pending EXCEPT ![i] = @ \ {d}]
  /\ members' = [members EXCEPT ![i][d[1]] = Judged(@, d[2])]
  /\ UNCHANGED <<up, greet, inserts, net, crashes, leaves>>

---------------------------------------------------------------------------
(* The surroundings.                                                       *)

\* Time since the last heartbeat, as far as the detector can tell it apart.
Older(e) == [e EXCEPT !.age = IF e.st = "None" \/ @ > Timeout THEN @ ELSE @ + 1]

\* Time passes for every node.
Tick ==
  /\ members' = [i \in Nodes |-> [j \in Nodes |->
                   IF j = i THEN members[i][j] ELSE Older(members[i][j])]]
  /\ UNCHANGED <<up, greet, inserts, pending, net, crashes, leaves>>

Crash(i) ==
  /\ up[i] = "up"
  /\ crashes < MaxCrashes
  /\ up' = [up EXCEPT ![i] = "down"]
  /\ members' = [members EXCEPT ![i] = [j \in Nodes |-> Absent]]
  /\ inserts' = [inserts EXCEPT ![i] = {}]
  /\ pending' = [pending EXCEPT ![i] = {}]
  /\ greet' = [greet EXCEPT ![i] = {}]
  /\ crashes' = crashes + 1
  /\ UNCHANGED <<net, leaves>>

\* The node starts again under its configured id, at incarnation 0.
Restart(i) ==
  /\ up[i] = "down"
  /\ up' = [up EXCEPT ![i] = "up"]
  /\ members' = [members EXCEPT ![i] = FirstTable(i)]
  /\ greet' = [greet EXCEPT ![i] = Peers[i] \ {i}]
  /\ UNCHANGED <<inserts, pending, net, crashes, leaves>>

Next ==
  \/ Tick
  \/ \E i \in Nodes :
       \/ Detect(i) \/ LeaveCluster(i) \/ Crash(i) \/ Restart(i)
       \/ \E j \in Nodes : ContactPeer(i, j) \/ Beat(i, j)
       \/ \E d \in pending[i] : Judge(i, d)
       \/ \E x \in inserts[i] : Insert(i, x)
  \/ \E m \in net : Receive(m) \/ Lose(m)

Spec == Init /\ [][Next]_vars

\* Clocks advance and the detector task of a node that is up is scheduled.
Fairness ==
  /\ WF_vars(Tick)
  /\ \A i \in Nodes :
       /\ WF_vars(Detect(i))
       /\ \A j \in Nodes, v \in {"Dead", "Suspect"} : WF_vars(Judge(i, <<j, v>>))

FairSpec == Spec /\ Fairness

---------------------------------------------------------------------------
(* Properties.                                                             *)

WellFormed(m) ==
  /\ m.type \in {"heartbeat", "sync", "leave"}
  /\ m.from \in Nodes /\ m.to \in Nodes
  /\ m.type = "heartbeat" => m.inc \in Nat /\ m.addr \in Addrs
  /\ m.type = "sync" => /\ DOMAIN m.digests \subseteq Nodes
                        /\ \A j \in DOMAIN m.digests : m.digests[j] \in Members

\* Tables, detector verdicts and messages have their types.
TypeOK ==
  /\ up \in [Nodes -> {"up", "down", "left"}]
  /\ members \in [Nodes -> [Nodes -> Members]]
  /\ greet \in [Nodes -> SUBSET Nodes]
  /\ inserts \in [Nodes -> SUBSET (Nodes \X Members)]
  /\ pending \in [Nodes -> SUBSET (Nodes \X {"Dead", "Suspect"})]
  /\ \A m \in net : WellFormed(m)

\* handle_connection: the "monotonically increasing incarnation" of ClusterMember.
\* While a node runs and keeps an entry, the incarnation of the entry never
\* decreases, whatever the order messages arrive in.  The one
\* exception is a handler that found no entry and inserts its own over the one
\* another handler has inserted meanwhile.
IncarnationsGrow ==
  [][\A i, j \in Nodes :
       (/\ up[i] = "up" /\ up'[i] = "up"
        /\ j \in Known(i) /\ j \in Known(i)'
        /\ \A x \in inserts[i] : x[1] # j)
         => members[i][j].inc <= members'[i][j].inc]_vars

\* The failure detector: a node that stays down is declared dead by every node
\* that stays up, or has no entry there, from some moment on: a late heartbeat or
\* a verdict still pending does not keep it alive for ever.
CrashDetected ==
  \A i, j \in Nodes : i # j =>
    ( <>[](up[i] = "up" /\ up[j] # "up")
        => <>[](members[i][j].st \in {"Dead", "None"}) )
=============================================================================
