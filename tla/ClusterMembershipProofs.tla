---------------------- MODULE ClusterMembershipProofs ----------------------
(***************************************************************************)
(* The member tables keep their types and the incarnation of an entry      *)
(* never decreases, for any number of nodes, peers, crashes and messages.  *)
(***************************************************************************)
EXTENDS ClusterMembership, TLAPS

\* ClusterMember::new: a new entry is an entry.
LEMMA EntryType ==
  ASSUME NEW st \in States, NEW inc \in Nat, NEW addr \in Addrs
  PROVE  Entry(st, inc, addr) \in Members
BY ClusterAssumption DEF Entry, Members, Ages

\* The tables a node starts and stops with.
LEMMA TableTypes ==
  /\ Absent \in Members
  /\ \A i \in Nodes : FirstTable(i) \in [Nodes -> Members]
<1>1. Wildcard \in Addrs /\ \A i \in Nodes : Bind[i] \in Addrs
  BY ClusterAssumption DEF Addrs
<1>2. Absent \in Members
  BY <1>1, EntryType DEF Absent, States
<1>3. \A i \in Nodes : Entry("Self", 0, Bind[i]) \in Members
  BY <1>1, EntryType DEF States
<1>. QED
  BY <1>2, <1>3 DEF FirstTable

\* handle_connection, heartbeat: the entry stays an entry, and an entry that was
\* there keeps or raises its incarnation.
LEMMA OnHeartbeatGrows ==
  ASSUME NEW e \in Members, NEW m, m.inc \in Nat, m.addr \in Addrs
  PROVE  /\ OnHeartbeat(e, m) \in Members
         /\ e.st # "None" => e.inc <= OnHeartbeat(e, m).inc
<1>1. e.inc \in Nat
  BY DEF Members
<1>2. Entry("Alive", m.inc, m.addr) \in Members /\ Entry("Alive", m.inc + 1, m.addr) \in Members
  BY EntryType DEF States
<1>3. /\ Entry("Alive", m.inc, m.addr).inc = m.inc
      /\ Entry("Alive", m.inc + 1, m.addr).inc = m.inc + 1
  BY DEF Entry
<1>. QED
  BY <1>1, <1>2, <1>3 DEF OnHeartbeat

\* handle_connection, full sync: the same for a digest.
LEMMA OnDigestGrows ==
  ASSUME NEW e \in Members, NEW d \in Members
  PROVE  /\ OnDigest(e, d) \in Members
         /\ e.st # "None" => e.inc <= OnDigest(e, d).inc
<1>1. e.inc \in Nat /\ d.inc \in Nat /\ d.st \in States /\ d.addr \in Addrs
  BY DEF Members
<1>2. Entry(d.st, d.inc, d.addr) \in Members
  BY <1>1, EntryType
<1>3. Entry(d.st, d.inc, d.addr).inc = d.inc
  BY DEF Entry
<1>. QED
  BY <1>1, <1>2, <1>3 DEF OnDigest

\* handle_connection: the same for the whole table and any message.
LEMMA ReceivedGrows ==
  ASSUME TypeOK, NEW m \in net
  PROVE  /\ Received(m) \in [Nodes -> Members]
         /\ \A j \in Nodes :
              members[m.to][j].st # "None" /\ Received(m)[j].st # "None"
                => members[m.to][j].inc <= Received(m)[j].inc
<1>1. WellFormed(m) /\ m.from \in Nodes /\ m.to \in Nodes
  BY DEF TypeOK, WellFormed
<1>2. members[m.to] \in [Nodes -> Members]
  BY <1>1 DEF TypeOK
<1>3. \A j \in Nodes : members[m.to][j] \in Members /\ members[m.to][j].inc \in Nat
  BY <1>2 DEF Members
<1>4. CASE m.type = "heartbeat"
  <2>1. /\ OnHeartbeat(members[m.to][m.from], m) \in Members
        /\ members[m.to][m.from].st # "None"
             => members[m.to][m.from].inc <= OnHeartbeat(members[m.to][m.from], m).inc
    BY <1>1, <1>3, <1>4, OnHeartbeatGrows DEF WellFormed
  <2>2. Received(m) = [members[m.to] EXCEPT ![m.from] = OnHeartbeat(@, m)]
    BY <1>4 DEF Received
  <2>. QED
    BY <1>1, <1>2, <1>3, <2>1, <2>2
<1>5. CASE m.type = "sync"
  <2>1. \A j \in DOMAIN m.digests :
          /\ OnDigest(members[m.to][j], m.digests[j]) \in Members
          /\ members[m.to][j].st # "None"
               => members[m.to][j].inc <= OnDigest(members[m.to][j], m.digests[j]).inc
    BY <1>1, <1>3, <1>5, OnDigestGrows DEF WellFormed
  <2>2. Received(m) = [j \in Nodes |-> IF j \in DOMAIN m.digests
                          THEN OnDigest(members[m.to][j], m.digests[j]) ELSE members[m.to][j]]
    BY <1>5 DEF Received
  <2>. QED
    BY <1>1, <1>2, <1>3, <2>1, <2>2
<1>6. CASE m.type = "leave"
  <2>1. Received(m) = IF m.from = m.to THEN members[m.to]
                      ELSE [members[m.to] EXCEPT ![m.from] = Absent]
    BY <1>6 DEF Received
  <2>2. Absent \in Members /\ Absent.st = "None"
    BY TableTypes DEF Absent, Entry
  <2>. QED
    BY <1>1, <1>2, <1>3, <2>1, <2>2
<1>. QED
  BY <1>1, <1>4, <1>5, <1>6 DEF WellFormed

\* What is posted to the network is well formed.
LEMMA HeartbeatType ==
  ASSUME TypeOK, NEW i \in Nodes, NEW to \in Nodes
  PROVE  WellFormed(Heartbeat(i, to))
<1>1. members[i][i].inc \in Nat
  BY DEF TypeOK, Members
<1>2. Bind[i] \in Addrs
  BY ClusterAssumption DEF Addrs
<1>. QED
  BY <1>1, <1>2 DEF WellFormed, Heartbeat

(* A full sync a node answers with is a well-formed message.                 *)
LEMMA FullSyncType ==
  ASSUME TypeOK, NEW i \in Nodes, NEW to \in Nodes
  PROVE  WellFormed(FullSync(i, to))
<1>1. \A j \in Nodes : members[i][j] \in Members
  BY DEF TypeOK
<1>2. \A e \in Members : [e EXCEPT !.age = 0] \in Members
  BY ClusterAssumption DEF Members, Ages
<1>3. Known(i) \subseteq Nodes
  BY DEF Known
<1>4. \A j \in Known(i) : [members[i][j] EXCEPT !.age = 0] \in Members
  BY <1>1, <1>2, <1>3
<1>. QED
  BY <1>3, <1>4 DEF WellFormed, FullSync

(* The address a table holds for a member leads to a node of the cluster.    *)
LEMMA TargetType ==
  ASSUME TypeOK, NEW i \in Nodes, NEW j \in Nodes
  PROVE  Target(i, members[i][j].addr) \in Nodes
<1>1. members[i][j].addr \in Addrs
  BY DEF TypeOK, Members
<1>. QED
  BY <1>1 DEF Target, Addrs

\* The member tables, the verdicts of the detector and the messages keep their
\* types in every reachable state.
THEOREM TypeCorrect == Spec => []TypeOK
<1>1. Init => TypeOK
  <2>. SUFFICES ASSUME Init PROVE TypeOK
    OBVIOUS
  <2>1. members \in [Nodes -> [Nodes -> Members]]
    BY TableTypes DEF Init
  <2>2. greet \in [Nodes -> SUBSET Nodes]
    BY ClusterAssumption DEF Init
  <2>. QED
    BY <2>1, <2>2 DEF Init, TypeOK
<1>2. TypeOK /\ [Next]_vars => TypeOK'
  <2>. SUFFICES ASSUME TypeOK, [Next]_vars PROVE TypeOK'
    OBVIOUS
  <2>1. ASSUME NEW i \in Nodes, NEW j \in Nodes, ContactPeer(i, j) PROVE TypeOK'
    <3>1. WellFormed(Heartbeat(i, j))
      BY HeartbeatType
    <3>2. \A m \in net' : WellFormed(m)
      BY <2>1, <3>1 DEF TypeOK, ContactPeer, Post
    <3>3. greet' \in [Nodes -> SUBSET Nodes]
      BY <2>1 DEF TypeOK, ContactPeer
    <3>. QED
      BY <2>1, <3>2, <3>3 DEF TypeOK, ContactPeer, WellFormed
  <2>2. ASSUME NEW i \in Nodes, NEW j \in Nodes, Beat(i, j) PROVE TypeOK'
    <3>1. Target(i, members[i][j].addr) \in Nodes
      BY TargetType
    <3>2. /\ WellFormed(Heartbeat(i, Target(i, members[i][j].addr)))
          /\ WellFormed(FullSync(i, Target(i, members[i][j].addr)))
      BY <3>1, HeartbeatType, FullSyncType
    <3>3. \A m \in net' : WellFormed(m)
      BY <2>2, <3>2 DEF TypeOK, Beat, Post
    <3>. QED
      BY <2>2, <3>3 DEF TypeOK, Beat, WellFormed
  <2>3. ASSUME NEW i \in Nodes, LeaveCluster(i) PROVE TypeOK'
    <3>1. \A j \in Nodes : WellFormed(Leave(i, Target(i, members[i][j].addr)))
      BY TargetType DEF WellFormed, Leave
    <3>2. \A m \in net' : WellFormed(m)
      BY <2>3, <3>1 DEF TypeOK, LeaveCluster, Post
    <3>3. members' \in [Nodes -> [Nodes -> Members]]
      BY <2>3, TableTypes DEF TypeOK, LeaveCluster
    <3>. QED
      BY <2>3, <3>2, <3>3 DEF TypeOK, LeaveCluster, WellFormed
  <2>4. ASSUME NEW m \in net, Receive(m) PROVE TypeOK'
    <3>1. Received(m) \in [Nodes -> Members]
      BY ReceivedGrows
    <3>2. Updated(m) \in [Nodes -> Members]
      <4>1. m.to \in Nodes
        BY DEF TypeOK, WellFormed
      <4>. QED
        BY <3>1, <4>1 DEF TypeOK, Updated
    <3>3. Discovered(m) \in SUBSET (Nodes \X Members)
      BY <3>1 DEF Discovered
    <3>4. members' \in [Nodes -> [Nodes -> Members]]
      BY <2>4, <3>2 DEF TypeOK, Receive
    <3>5. inserts' \in [Nodes -> SUBSET (Nodes \X Members)]
      BY <2>4, <3>3 DEF TypeOK, Receive
    <3>. QED
      BY <2>4, <3>4, <3>5 DEF TypeOK, Receive, WellFormed
  <2>5. ASSUME NEW m \in net, Lose(m) PROVE TypeOK'
    BY <2>5 DEF TypeOK, Lose, WellFormed
  <2>6. ASSUME NEW i \in Nodes, Detect(i) PROVE TypeOK'
    <3>1. \A e : Verdict(e) \in {"None", "Dead", "Suspect"}
      BY DEF Verdict
    <3>2. pending' \in [Nodes -> SUBSET (Nodes \X {"Dead", "Suspect"})]
      BY <2>6, <3>1 DEF TypeOK, Detect
    <3>. QED
      BY <2>6, <3>2 DEF TypeOK, Detect, WellFormed
  <2>7. ASSUME NEW i \in Nodes, NEW d \in pending[i], Judge(i, d) PROVE TypeOK'
    <3>1. \A e \in Members : Judged(e, d[2]) \in Members
      BY DEF Judged, Members, States
    <3>2. d[1] \in Nodes
      BY <2>7 DEF TypeOK
    <3>3. members' \in [Nodes -> [Nodes -> Members]]
      BY <2>7, <3>1, <3>2 DEF TypeOK, Judge
    <3>4. pending' \in [Nodes -> SUBSET (Nodes \X {"Dead", "Suspect"})]
      BY <2>7 DEF TypeOK, Judge
    <3>. QED
      BY <2>7, <3>3, <3>4 DEF TypeOK, Judge, WellFormed
  <2>8. CASE Tick
    <3>1. \A e \in Members : Older(e) \in Members
      BY ClusterAssumption DEF Older, Members, Ages
    <3>2. members' \in [Nodes -> [Nodes -> Members]]
      BY <2>8, <3>1 DEF TypeOK, Tick
    <3>. QED
      BY <2>8, <3>2 DEF TypeOK, Tick, WellFormed
  <2>9. ASSUME NEW i \in Nodes, Crash(i) PROVE TypeOK'
    <3>1. members' \in [Nodes -> [Nodes -> Members]]
      BY <2>9, TableTypes DEF TypeOK, Crash
    <3>. QED
      BY <2>9, <3>1 DEF TypeOK, Crash, WellFormed
  <2>10. ASSUME NEW i \in Nodes, Restart(i) PROVE TypeOK'
    <3>1. members' \in [Nodes -> [Nodes -> Members]]
      BY <2>10, TableTypes DEF TypeOK, Restart
    <3>2. greet' \in [Nodes -> SUBSET Nodes]
      BY <2>10, ClusterAssumption DEF TypeOK, Restart
    <3>. QED
      BY <2>10, <3>1, <3>2 DEF TypeOK, Restart, WellFormed
  <2>11. ASSUME NEW i \in Nodes, NEW x \in inserts[i], Insert(i, x) PROVE TypeOK'
    <3>1. x[1] \in Nodes /\ x[2] \in Members
      BY <2>11 DEF TypeOK
    <3>2. members' \in [Nodes -> [Nodes -> Members]]
      BY <2>11, <3>1 DEF TypeOK, Insert
    <3>3. inserts' \in [Nodes -> SUBSET (Nodes \X Members)]
      BY <2>11 DEF TypeOK, Insert
    <3>. QED
      BY <2>11, <3>2, <3>3 DEF TypeOK, Insert, WellFormed
  <2>12. CASE UNCHANGED vars
    BY <2>12 DEF TypeOK, vars, WellFormed
  <2>. QED
    BY <2>1, <2>2, <2>3, <2>4, <2>5, <2>6, <2>7, <2>8, <2>9, <2>10, <2>11, <2>12
    DEF Next
<1>. QED
  BY <1>1, <1>2, PTL DEF Spec

\* handle_connection compares incarnations before it takes anything over, so the
\* incarnation of an entry never decreases while the node that keeps it runs and
\* no late insertion of the entry is under way, for any number of nodes and any
\* order of messages.
THEOREM IncarnationsNeverFall == Spec => IncarnationsGrow
<1>. DEFINE Grows == \A i, j \in Nodes :
       (/\ up[i] = "up" /\ up'[i] = "up"
        /\ j \in Known(i) /\ j \in Known(i)'
        /\ \A x \in inserts[i] : x[1] # j)
         => members[i][j].inc <= members'[i][j].inc
<1>1. TypeOK /\ [Next]_vars => [Grows]_vars
  <2>. SUFFICES ASSUME TypeOK, Next PROVE Grows
    OBVIOUS
  <2>. SUFFICES ASSUME NEW i \in Nodes, NEW j \in Nodes,
                       up[i] = "up", up'[i] = "up", j \in Known(i), j \in Known(i)',
                       \A x \in inserts[i] : x[1] # j
                PROVE  members[i][j].inc <= members'[i][j].inc
    OBVIOUS
  <2>1. /\ members[i] \in [Nodes -> Members] /\ members[i][j].inc \in Nat
        /\ members \in [Nodes -> [Nodes -> Members]]
    BY DEF TypeOK, Members
  <2>2. members[i][j].st # "None" /\ members'[i][j].st # "None"
    BY DEF Known
  <2>3. CASE members' = members
    BY <2>1, <2>3
  <2>4. ASSUME NEW m \in net, Receive(m) PROVE members[i][j].inc <= members'[i][j].inc
    <3>1. CASE m.to = i
      <4>1. members'[i][j] = Received(m)[j]
        BY <2>1, <2>4, <3>1 DEF Receive, Updated
      <4>. QED
        BY <2>2, <3>1, <4>1, ReceivedGrows
    <3>2. CASE m.to # i
      BY <2>1, <2>4, <3>2 DEF Receive
    <3>. QED
      BY <3>1, <3>2
  <2>5. ASSUME NEW k \in Nodes, NEW d \in pending[k], Judge(k, d)
        PROVE  members[i][j].inc <= members'[i][j].inc
    <3>1. \A e \in Members : Judged(e, d[2]).inc = e.inc
      BY DEF Judged, Members
    <3>2. d[1] \in Nodes
      BY <2>5 DEF TypeOK
    <3>3. members' = [members EXCEPT ![k][d[1]] = Judged(@, d[2])]
      BY <2>5 DEF Judge
    <3>4. members'[i][j].inc = members[i][j].inc
      BY <2>1, <3>1, <3>2, <3>3
    <3>. QED
      BY <2>1, <3>4
  <2>6. CASE Tick
    <3>1. \A e \in Members : Older(e).inc = e.inc
      BY DEF Older, Members
    <3>2. members'[i][j].inc = members[i][j].inc
      BY <2>1, <2>6, <3>1 DEF Tick
    <3>. QED
      BY <2>1, <3>2
  <2>7. ASSUME NEW k \in Nodes, Crash(k) \/ LeaveCluster(k) \/ Restart(k)
        PROVE  members[i][j].inc <= members'[i][j].inc
    <3>1. k # i
      BY <2>7 DEF Crash, LeaveCluster, Restart, TypeOK
    <3>. QED
      BY <2>1, <2>7, <3>1 DEF Crash, LeaveCluster, Restart
  <2>8. ASSUME NEW k \in Nodes, NEW x \in inserts[k], Insert(k, x)
        PROVE  members[i][j].inc <= members'[i][j].inc
    <3>1. k # i \/ x[1] # j
      OBVIOUS
    <3>2. members' = [members EXCEPT ![k][x[1]] = x[2]]
      BY <2>8 DEF Insert
    <3>3. members'[i][j] = members[i][j]
      BY <2>1, <3>1, <3>2
    <3>. QED
      BY <2>1, <3>3
  <2>. QED
    BY <2>3, <2>4, <2>5, <2>6, <2>7, <2>8 DEF Next, ContactPeer, Beat, Detect, Lose
<1>. QED
  BY <1>1, TypeCorrect, PTL DEF Spec, IncarnationsGrow
=============================================================================
