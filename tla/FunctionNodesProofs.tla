------------------------- MODULE FunctionNodesProofs -------------------------
(***************************************************************************)
(* Proofs about function nodes: the filter (RbeNode), the node that runs   *)
(* commands (ExecNode), the delay node (DelayNode), split with join        *)
(* (SplitJoin), the nodes that write and read a file (StorageNodes), and   *)
(* the batch and sort nodes (BatchSort).                                   *)
(***************************************************************************)
EXTENDS RbeNode, ExecNode, DelayNode, SplitJoin, StorageNodes, BatchSort, SequenceTheorems, FiniteSetTheorems, WellFoundedInduction, TLAPS

-----------------------------------------------------------------------------
(* RbeNode.                                                                 *)

Tracks == rbeFunc = "rbe" \/ (rbeFunc \in {"deadband", "deadbandEq"} /\ ~rbeIn)

RbeInv ==
  /\ DOMAIN rbePrev = RbeKeys /\ DOMAIN rbeLast = RbeKeys
  /\ Tracks => rbePrev = rbeLast

(* What one value does to the memory of its topic: where the filter tracks
   what it passed, it remembers the value it passes and keeps the one it had
   when it passes nothing.                                                  *)
LEMMA RbeRemembers ==
  ASSUME NEW p, NEW v, v # RbeNone, Tracks, NEW r,
         r = IF rbeFunc \in {"rbe", "rbei"} THEN Changed(p, v) ELSE Banded(p, v)
  PROVE  r.prev = IF r.send THEN v ELSE p
<1>1. CASE rbeFunc = "rbe"
  <2>1. r = [send |-> p # v, prev |-> v]
    BY <1>1 DEF Changed
  <2>2. CASE p # v
    <3>1. r = [send |-> TRUE, prev |-> v]
      BY <2>1, <2>2
    <3>2. QED
      BY <3>1
  <2>3. CASE p = v
    BY <2>1, <2>3
  <2>4. QED
    BY <2>2, <2>3
<1>2. CASE rbeFunc \in {"deadband", "deadbandEq"} /\ ~rbeIn
  <2> DEFINE from == IF p # RbeNone THEN p ELSE v
             gap == IF ~rbePercent THEN 100 * RbeGap ELSE IF p # RbeNone THEN Abs(from * RbeGap) ELSE 0
             diff == IF p # RbeNone THEN 100 * Abs(v - from) ELSE gap + 100
             send == (diff = gap /\ rbeFunc \in {"deadbandEq", "narrowband"}) \/ diff > gap
  <2>1. r = [send |-> send, prev |-> IF send THEN v ELSE from]
    BY <1>2, ZenonT(40) DEF Banded
  <2>2. CASE p # RbeNone
    <3>1. from = p
      BY <2>2
    <3> HIDE DEF send, from
    <3>2. QED
      BY <2>1, <3>1
  <2>3. CASE p = RbeNone
    <3>1. gap \in Int /\ diff = gap + 100
      BY <2>3, RbeAssumption
    <3>2. send
      BY <3>1
    <3> HIDE DEF send, from
    <3>3. QED
      BY <2>1, <3>2
  <2>4. QED
    BY <2>2, <2>3
<1>3. QED
  BY <1>1, <1>2 DEF Tracks

(* One message through the rbe node, in every mode, with and without a reset. *)
LEMMA RbeStep == ASSUME RbeInv, [RbeNext]_rbeVars PROVE RbeInv'
<1>1. CASE UNCHANGED rbeVars
  BY <1>1 DEF rbeVars, RbeInv, Tracks
<1>2. ASSUME NEW t \in RbeKeys, NEW v \in RbeValues \cup {RbeNone}, NEW reset \in BOOLEAN, RbeMessage(t, v, reset)
      PROVE  RbeInv'
  <2> DEFINE Cleared(f) == [k \in RbeKeys |-> IF reset /\ k \in Forgets(t) THEN RbeNone ELSE f[k]]
             key == IF rbeSep THEN t ELSE "_no_topic"
             p == Cleared(rbePrev)[key]
             r == IF rbeFunc \in {"rbe", "rbei"} THEN Changed(p, v) ELSE Banded(p, v)
  <2>1. UNCHANGED <<rbeFunc, rbeIn>> /\ key \in RbeKeys
    BY <1>2 DEF RbeMessage, RbeKeys
  <2>2. CASE v = RbeNone
    <3>1. rbePrev' = Cleared(rbePrev) /\ rbeLast' = Cleared(rbeLast)
      BY <1>2, <2>2 DEF RbeMessage
    <3>2. QED
      BY <2>1, <3>1 DEF RbeInv, Tracks
  <2>3. CASE v # RbeNone
    <3>1. /\ rbePrev' = [Cleared(rbePrev) EXCEPT ![key] = r.prev]
          /\ rbeLast' = [Cleared(rbeLast) EXCEPT ![key] = IF r.send THEN v ELSE @]
      BY <1>2, <2>3 DEF RbeMessage
    <3>2. DOMAIN rbePrev' = RbeKeys /\ DOMAIN rbeLast' = RbeKeys
      BY <3>1
    <3>3. ASSUME Tracks PROVE rbePrev' = rbeLast'
      <4>1. Cleared(rbePrev) = Cleared(rbeLast)
        BY <3>3 DEF RbeInv
      <4>2. r.prev = IF r.send THEN v ELSE Cleared(rbeLast)[key]
        <5>1. p = Cleared(rbeLast)[key]
          BY <4>1
        <5> HIDE DEF p
        <5>2. r.prev = IF r.send THEN v ELSE p
          BY <2>3, <3>3, RbeRemembers
        <5>3. QED
          BY <5>1, <5>2
      <4> HIDE DEF Cleared, r, key
      <4>3. QED
        BY <3>1, <4>1, <4>2
    <3>4. QED
      BY <2>1, <3>2, <3>3 DEF RbeInv, Tracks
  <2>4. QED
    BY <2>2, <2>3
<1>3. QED
  BY <1>1, <1>2 DEF RbeNext

(* Whatever values, topics and resets come: where the filter compares with
   its last output, what it remembers is what its receivers have seen.      *)
THEOREM RbeRemembersOutput == RbeSpec => []RbeMemory
<1>1. RbeInit => RbeInv
  BY DEF RbeInit, RbeInv
<1>2. RbeInv /\ [RbeNext]_rbeVars => RbeInv'
  BY RbeStep
<1>3. RbeInv => RbeMemory
  BY DEF RbeInv, RbeMemory, Tracks
<1>4. QED
  BY <1>1, <1>2, <1>3, PTL DEF RbeSpec
-----------------------------------------------------------------------------
(* ExecNode.                                                                *)

ExecPlaces == {"new", "register", "wait", "reap", "unregister", "output", "end", "done"}
ExecProcs == {"none", "running", "dying", "gone"}

NoCode(out) == \A i \in 1 .. Len(out) : out[i] # 2
OneCode(out) == \E i \in 1 .. Len(out) : out[i] = 2 /\ \A j \in 1 .. Len(out) : out[j] = 2 => j = i

(* One command of a node that has not been stopped.                         *)
RunInv(r) ==
  /\ exePc[r] = "new" <=> exeProc[r] = "none" /\ exePc[r] \notin {"end", "done"}
  /\ r \in exeActive => exePc[r] \in {"wait", "reap", "unregister"}
  /\ exePc[r] \in {"unregister", "output"} => exeProc[r] = "gone"
  /\ exePc[r] \notin {"end", "done"} => NoCode(exeOut[r])
  /\ (exePc[r] \in {"end", "done"} /\ exeProc[r] # "none") =>
       /\ exeProc[r] = "gone" /\ OneCode(exeOut[r])
       /\ exeSpawn \/ exeOut[r][Len(exeOut[r])] = 2

(* A stop ends the waits through the error path: nothing is claimed then.   *)
ExecInv ==
  /\ exePc \in [ExecRuns -> ExecPlaces] /\ exeProc \in [ExecRuns -> ExecProcs]
  /\ exeOut \in [ExecRuns -> Seq({0, 1, 2})]
  /\ exeActive \subseteq ExecRuns /\ exeStop \in BOOLEAN /\ exeSpawn \in BOOLEAN
  /\ ~exeStop => \A r \in ExecRuns : RunInv(r)

(* Exactly one position of an output carries the exit code.                  *)
LEMMA OneCodeCounts ==
  ASSUME NEW out \in Seq({0, 1, 2}), OneCode(out)
  PROVE  Cardinality({i \in DOMAIN out : out[i] = 2}) = 1
<1>1. DOMAIN out = 1 .. Len(out)
  BY LenProperties
<1>2. PICK i \in 1 .. Len(out) : out[i] = 2 /\ \A j \in 1 .. Len(out) : out[j] = 2 => j = i
  BY DEF OneCode
<1>3. {j \in DOMAIN out : out[j] = 2} = {i}
  BY <1>1, <1>2
<1>4. QED
  BY <1>3, FS_Singleton

(* What is written before the return code.                                  *)
LEMMA BeforeSeq ==
  ASSUME NEW before \in {<<>>, << 0 >>, <<0, 1>>}
  PROVE  before \in Seq({0, 1}) /\ before \in Seq({0, 1, 2})
<1>1. CASE before = <<>>
  BY <1>1, EmptySeq
<1>2. CASE before = << 0 >>
  <2>1. << 0 >> \in Seq({0, 1}) /\ << 0 >> \in Seq({0, 1, 2})
    OBVIOUS
  <2>2. QED
    BY <1>2, <2>1
<1>3. CASE before = <<0, 1>>
  <2>1. <<0, 1>> \in Seq({0, 1}) /\ <<0, 1>> \in Seq({0, 1, 2})
    OBVIOUS
  <2>2. QED
    BY <1>3, <2>1
<1>4. QED
  BY <1>1, <1>2, <1>3

(* The return code, behind what was written before and has none.            *)
LEMMA CodeWritten ==
  ASSUME NEW out \in Seq({0, 1, 2}), NoCode(out), NEW before \in {<<>>, << 0 >>, <<0, 1>>}, NEW all,
         all = out \o Append(before, 2)
  PROVE  all \in Seq({0, 1, 2}) /\ OneCode(all) /\ all[Len(all)] = 2
<1>1. Len(out) \in Nat /\ DOMAIN out = 1 .. Len(out)
  BY LenProperties
<1>2. /\ Append(before, 2) \in Seq({0, 1, 2}) /\ Len(Append(before, 2)) = Len(before) + 1
      /\ Len(before) \in Nat /\ Append(before, 2)[Len(before) + 1] = 2
      /\ \A i \in 1 .. Len(before) : Append(before, 2)[i] \in {0, 1}
  <2>1. before \in Seq({0, 1}) /\ before \in Seq({0, 1, 2})
    BY BeforeSeq
  <2>2. /\ Len(before) \in Nat /\ Append(before, 2) \in Seq({0, 1, 2}) /\ Len(Append(before, 2)) = Len(before) + 1
        /\ Append(before, 2)[Len(before) + 1] = 2
        /\ \A i \in 1 .. Len(before) : Append(before, 2)[i] = before[i]
    BY <2>1, AppendProperties, LenProperties
  <2>3. \A i \in 1 .. Len(before) : before[i] \in {0, 1}
    BY <2>1, ElementOfSeq
  <2>4. QED
    BY <2>2, <2>3
<1>3. /\ all \in Seq({0, 1, 2}) /\ Len(all) = Len(out) + Len(before) + 1
      /\ \A i \in 1 .. Len(all) : all[i] = IF i <= Len(out) THEN out[i] ELSE Append(before, 2)[i - Len(out)]
  <2>1. /\ all \in Seq({0, 1, 2}) /\ Len(all) = Len(out) + Len(Append(before, 2))
        /\ \A i \in 1 .. Len(out) + Len(Append(before, 2)) :
             all[i] = IF i <= Len(out) THEN out[i] ELSE Append(before, 2)[i - Len(out)]
    BY <1>2, ConcatProperties
  <2>2. Len(out) + Len(Append(before, 2)) = Len(out) + Len(before) + 1
    BY <1>1, <1>2
  <2>3. QED
    BY <2>1, <2>2
<1> DEFINE n == Len(out) + Len(before) + 1
<1>4. n \in 1 .. Len(all) /\ ~(n <= Len(out)) /\ n - Len(out) = Len(before) + 1
  BY <1>1, <1>2, <1>3
<1>5. all[n] = 2
  BY <1>2, <1>3, <1>4
<1>6. ASSUME NEW j \in 1 .. Len(all), all[j] = 2 PROVE j = n
  <2>1. CASE j <= Len(out)
    <3>1. j \in 1 .. Len(out) /\ all[j] = out[j]
      BY <1>1, <1>2, <1>3, <2>1
    <3>2. QED
      BY <1>6, <3>1 DEF NoCode
  <2>2. CASE ~(j <= Len(out)) /\ j # n
    <3>1. j - Len(out) \in 1 .. Len(before) /\ all[j] = Append(before, 2)[j - Len(out)]
      BY <1>1, <1>2, <1>3, <2>2
    <3>2. QED
      BY <1>2, <1>6, <3>1
  <2>3. QED
    BY <2>1, <2>2
<1>7. QED
  BY <1>3, <1>4, <1>5, <1>6 DEF OneCode

(* A step of command r: what it does to r is enough.                        *)
LEMMA RunKeeps ==
  ASSUME ExecInv, NEW r \in ExecRuns, NEW pc \in ExecPlaces, NEW proc \in ExecProcs, NEW out \in Seq({0, 1, 2}),
         exePc' = [exePc EXCEPT ![r] = pc], exeProc' = [exeProc EXCEPT ![r] = proc],
         exeOut' = [exeOut EXCEPT ![r] = out],
         exeActive' \in {exeActive, exeActive \cup {r}, exeActive \ {r}},
         exeStop' = exeStop, exeSpawn' = exeSpawn,
         ~exeStop => RunInv(r)'
  PROVE  ExecInv'
<1>1. /\ exePc' \in [ExecRuns -> ExecPlaces] /\ exeProc' \in [ExecRuns -> ExecProcs]
      /\ exeOut' \in [ExecRuns -> Seq({0, 1, 2})] /\ exeActive' \subseteq ExecRuns
      /\ exeStop' \in BOOLEAN /\ exeSpawn' \in BOOLEAN
  BY DEF ExecInv
<1>2. ASSUME ~exeStop, NEW q \in ExecRuns, q # r PROVE RunInv(q)'
  <2>1. /\ RunInv(q) /\ exePc'[q] = exePc[q] /\ exeProc'[q] = exeProc[q] /\ exeOut'[q] = exeOut[q]
        /\ (q \in exeActive' <=> q \in exeActive)
    BY <1>2 DEF ExecInv
  <2>2. QED
    BY <2>1 DEF RunInv, NoCode, OneCode
<1>3. QED
  BY <1>1, <1>2 DEF ExecInv

(* Every step of a run, of its process and of the kill control keeps the invariant. *)
LEMMA ExecStep == ASSUME ExecInv, [ExecNext]_execVars PROVE ExecInv'
<1>1. /\ exePc \in [ExecRuns -> ExecPlaces] /\ exeProc \in [ExecRuns -> ExecProcs]
      /\ exeOut \in [ExecRuns -> Seq({0, 1, 2})] /\ exeActive \subseteq ExecRuns
  BY DEF ExecInv
<1>2. \A pc \in {"new", "register", "wait", "reap", "unregister", "output", "end", "done"} : pc \in ExecPlaces
  BY DEF ExecPlaces
<1>3. \A p \in {"none", "running", "dying", "gone"} : p \in ExecProcs
  BY DEF ExecProcs
<1>4. ASSUME NEW r \in ExecRuns
      PROVE  /\ exePc[r] \in ExecPlaces /\ exeProc[r] \in ExecProcs /\ exeOut[r] \in Seq({0, 1, 2})
             /\ exePc = [exePc EXCEPT ![r] = exePc[r]] /\ exeProc = [exeProc EXCEPT ![r] = exeProc[r]]
             /\ exeOut = [exeOut EXCEPT ![r] = exeOut[r]]
             /\ ~exeStop => RunInv(r)
  BY <1>1 DEF ExecInv
<1>5. ASSUME NEW r \in ExecRuns, NEW pc \in ExecPlaces, NEW proc \in ExecProcs, NEW out \in Seq({0, 1, 2}),
             exePc' = [exePc EXCEPT ![r] = pc], exeProc' = [exeProc EXCEPT ![r] = proc],
             exeOut' = [exeOut EXCEPT ![r] = out]
      PROVE  exePc'[r] = pc /\ exeProc'[r] = proc /\ exeOut'[r] = out
  BY <1>1, <1>5
<1>6. ASSUME NEW r \in ExecRuns, ExecRefused(r) \/ ExecSpawn(r) \/ RegisterProcess(r) \/ WaitEnds(r) \/ Reap(r)
                                 \/ UnregisterProcess(r) \/ ExecComplete(r) \/ WaitSignal(r) \/ WaitCancelled(r)
                                 \/ ProcExit(r) \/ KillProcess(r)
      PROVE  ExecInv'
  <2>1. PICK pc \in ExecPlaces, proc \in ExecProcs :
          /\ exePc' = [exePc EXCEPT ![r] = pc] /\ exeProc' = [exeProc EXCEPT ![r] = proc] /\ exeOut' = exeOut
          /\ exeActive' \in {exeActive, exeActive \cup {r}, exeActive \ {r}}
          /\ exeStop' = exeStop /\ exeSpawn' = exeSpawn
          /\ \/ pc = "end" /\ proc = exeProc[r] /\ exePc[r] = "new" /\ exeActive' = exeActive
             \/ pc = "register" /\ proc = "running" /\ exePc[r] = "new" /\ exeActive' = exeActive
             \/ pc = "wait" /\ proc = exeProc[r] /\ exePc[r] = "register"
             \/ pc = "unregister" /\ proc = exeProc[r] /\ exeProc[r] = "gone" /\ exePc[r] \in {"wait", "reap"}
                /\ exeActive' = exeActive
             \/ pc = "output" /\ proc = exeProc[r] /\ exePc[r] = "unregister" /\ exeActive' = exeActive \ {r}
             \/ pc = "done" /\ proc = exeProc[r] /\ exePc[r] = "end" /\ exeActive' = exeActive
             \/ pc = "reap" /\ exePc[r] = "wait" /\ exeActive' = exeActive
                /\ (proc = exeProc[r] \/ (exeProc[r] = "running" /\ proc = "dying"))
             \/ exeStop
             \/ pc = exePc[r] /\ proc = "gone" /\ exeProc[r] \in {"running", "dying"} /\ exeActive' = exeActive
             \/ pc = exePc[r] /\ proc = exeProc[r] /\ exeActive' = exeActive \ {r}
    <3>1. CASE ExecRefused(r)
      BY <1>2, <1>3, <1>4, <3>1 DEF ExecRefused, ExecGo
    <3>2. CASE ExecSpawn(r)
      BY <1>2, <1>3, <1>4, <3>2 DEF ExecSpawn, ExecGo
    <3>3. CASE RegisterProcess(r)
      BY <1>2, <1>3, <1>4, <3>3 DEF RegisterProcess, ExecGo
    <3>4. CASE WaitEnds(r) \/ Reap(r)
      BY <1>2, <1>3, <1>4, <3>4 DEF WaitEnds, Reap, ExecGo
    <3>5. CASE UnregisterProcess(r)
      BY <1>2, <1>3, <1>4, <3>5 DEF UnregisterProcess, Unregister, ExecGo
    <3>6. CASE ExecComplete(r)
      BY <1>2, <1>3, <1>4, <3>6 DEF ExecComplete, ExecGo
    <3>7. CASE WaitSignal(r)
      BY <1>2, <1>3, <1>4, <3>7 DEF WaitSignal, ExecGo
    <3>8. CASE WaitCancelled(r)
      BY <1>2, <1>3, <1>4, <3>8 DEF WaitCancelled, ExecGo
    <3>9. CASE ProcExit(r)
      BY <1>2, <1>3, <1>4, <3>9 DEF ProcExit
    <3>10. CASE KillProcess(r)
      BY <1>2, <1>3, <1>4, <3>10 DEF KillProcess
    <3>11. QED
      BY <1>6, <3>1, <3>2, <3>3, <3>4, <3>5, <3>6, <3>7, <3>8, <3>9, <3>10
  <2>2. exeOut' = [exeOut EXCEPT ![r] = exeOut[r]] /\ exeOut[r] \in Seq({0, 1, 2})
    BY <1>4, <2>1
  <2>3. exePc'[r] = pc /\ exeProc'[r] = proc /\ exeOut'[r] = exeOut[r]
    BY <1>1, <2>1
  <2>4. ASSUME ~exeStop PROVE RunInv(r)'
    <3>1. RunInv(r)
      BY <1>4, <2>4
    <3>2. NoCode(exeOut'[r]) <=> NoCode(exeOut[r])
      BY <2>3
    <3>3. OneCode(exeOut'[r]) <=> OneCode(exeOut[r])
      BY <2>3
    <3>4. QED
      BY <2>1, <2>3, <2>4, <3>1, <3>2, <3>3 DEF RunInv
  <2>5. QED
    BY <2>1, <2>2, <2>4, RunKeeps
<1>7. ASSUME NEW r \in ExecRuns, SpawnFails(r) PROVE ExecInv'
  <2>1. /\ exePc' = [exePc EXCEPT ![r] = "end"] /\ exeProc' = [exeProc EXCEPT ![r] = exeProc[r]]
        /\ exeOut' = [exeOut EXCEPT ![r] = <<2>>] /\ exeActive' = exeActive /\ exeStop' = exeStop
        /\ exeSpawn' = exeSpawn /\ exePc[r] = "new"
    BY <1>4, <1>7 DEF SpawnFails, ExecGo
  <2>2. <<2>> \in Seq({0, 1, 2})
    OBVIOUS
  <2>3. ASSUME ~exeStop PROVE RunInv(r)'
    <3>1. RunInv(r) /\ exePc'[r] = "end" /\ exeProc'[r] = exeProc[r]
      BY <1>1, <1>4, <2>1, <2>3
    <3>2. QED
      BY <2>1, <3>1 DEF RunInv
  <2>4. QED
    BY <1>2, <1>4, <2>1, <2>2, <2>3, RunKeeps
<1>8. ASSUME NEW r \in ExecRuns, ExecOutput(r) PROVE ExecInv'
  <2>1. PICK before \in {<<>>, << 0 >>, <<0, 1>>} :
          exeOut' = [exeOut EXCEPT ![r] = exeOut[r] \o Append(before, 2)]
    BY <1>8 DEF ExecOutput
  <2> DEFINE all == exeOut[r] \o Append(before, 2)
  <2>2. /\ exePc' = [exePc EXCEPT ![r] = "end"] /\ exeProc' = [exeProc EXCEPT ![r] = exeProc[r]]
        /\ exeActive' = exeActive /\ exeStop' = exeStop /\ exeSpawn' = exeSpawn /\ exePc[r] = "output"
    BY <1>4, <1>8 DEF ExecOutput, ExecGo
  <2>3. all \in Seq({0, 1, 2})
    <3>1. Append(before, 2) \in Seq({0, 1, 2})
      <4>1. before \in Seq({0, 1, 2})
        BY BeforeSeq
      <4>2. QED
        BY <4>1, AppendProperties
    <3>2. QED
      BY <1>4, <3>1, ConcatProperties
  <2>4. ASSUME ~exeStop PROVE RunInv(r)'
    <3>1. RunInv(r) /\ exePc'[r] = "end" /\ exeProc'[r] = exeProc[r] /\ exeOut'[r] = all
      BY <1>1, <1>4, <2>1, <2>2, <2>4
    <3>2. NoCode(exeOut[r]) /\ exeProc[r] = "gone" /\ r \notin exeActive
      BY <2>2, <3>1 DEF RunInv
    <3>3. OneCode(all) /\ all[Len(all)] = 2
      BY <1>4, <3>2, CodeWritten
    <3> HIDE DEF all
    <3>4. QED
      BY <2>2, <3>1, <3>2, <3>3 DEF RunInv, OneCode
  <2>5. QED
    BY <1>2, <1>4, <2>1, <2>2, <2>3, <2>4, RunKeeps
<1>9. ASSUME NEW r \in ExecRuns, NEW port \in {0, 1}, ExecChunk(r, port) PROVE ExecInv'
  <2> DEFINE out == Append(exeOut[r], port)
  <2>1. /\ exePc' = [exePc EXCEPT ![r] = exePc[r]] /\ exeProc' = [exeProc EXCEPT ![r] = exeProc[r]]
        /\ exeOut' = [exeOut EXCEPT ![r] = out] /\ exeActive' = exeActive /\ exeStop' = exeStop
        /\ exeSpawn' = exeSpawn /\ exeSpawn /\ exePc' = exePc /\ exeProc' = exeProc /\ exeProc[r] # "none"
    BY <1>4, <1>9 DEF ExecChunk
  <2>2. /\ out \in Seq({0, 1, 2}) /\ Len(out) = Len(exeOut[r]) + 1 /\ Len(exeOut[r]) = 0 /\ out[1] = port
    <3>1. Len(exeOut[r]) \in Nat /\ Len(exeOut[r]) < 1
      BY <1>4, <1>9, LenProperties DEF ExecChunk
    <3>2. /\ out \in Seq({0, 1, 2}) /\ Len(out) = Len(exeOut[r]) + 1 /\ out[Len(exeOut[r]) + 1] = port
      BY <1>4, AppendProperties
    <3>3. QED
      BY <3>1, <3>2
  <2>3. ASSUME ~exeStop PROVE RunInv(r)'
    <3>1. RunInv(r) /\ exeOut'[r] = out
      BY <1>1, <1>4, <2>1, <2>3
    <3>2. ~OneCode(exeOut[r])
      BY <2>2 DEF OneCode
    <3>3. exePc[r] \notin {"end", "done"}
      BY <2>1, <3>1, <3>2 DEF RunInv
    <3>4. NoCode(out)
      BY <2>2 DEF NoCode
    <3> HIDE DEF out
    <3>5. QED
      BY <2>1, <3>1, <3>3, <3>4 DEF RunInv, NoCode
  <2>4. QED
    BY <1>4, <2>1, <2>2, <2>3, RunKeeps
<1>10. CASE ExecStop
  BY <1>10 DEF ExecStop, ExecInv
<1>11. CASE UNCHANGED execVars
  BY <1>11 DEF execVars, ExecInv, RunInv, NoCode, OneCode
<1>12. QED
  BY <1>6, <1>7, <1>8, <1>9, <1>10, <1>11 DEF ExecNext, ExecTask

(* Whichever of the end of a process, the timer and a kill message comes
   first, and however late its output is: when the tasks of a node that was
   not stopped have ended, no process is registered or alive and each wrote
   exactly one return code.                                                 *)
THEOREM ExecIsSettled == ExecSpec => []ExecSettled
<1>1. ExecInit => ExecInv
  <2> SUFFICES ASSUME ExecInit PROVE ExecInv
    OBVIOUS
  <2>1. <<>> \in Seq({0, 1, 2}) /\ Len(<<>>) = 0
    BY EmptySeq
  <2>2. exePc \in [ExecRuns -> ExecPlaces] /\ exeProc \in [ExecRuns -> ExecProcs]
    BY DEF ExecInit, ExecPlaces, ExecProcs
  <2>3. exeOut \in [ExecRuns -> Seq({0, 1, 2})]
    BY <2>1 DEF ExecInit
  <2>4. exeActive = {} /\ exeStop \in BOOLEAN /\ exeSpawn \in BOOLEAN
    BY DEF ExecInit
  <2>5. ASSUME NEW r \in ExecRuns PROVE RunInv(r)
    <3>1. exePc[r] = "new" /\ exeProc[r] = "none" /\ exeOut[r] = <<>>
      BY DEF ExecInit
    <3>2. NoCode(exeOut[r])
      BY <2>1, <3>1 DEF NoCode
    <3>3. QED
      BY <2>4, <3>1, <3>2 DEF RunInv
  <2>6. QED
    BY <2>2, <2>3, <2>4, <2>5 DEF ExecInv
<1>2. ExecInv /\ [ExecNext]_execVars => ExecInv'
  BY ExecStep
<1>3. ExecInv => ExecSettled
  <2> SUFFICES ASSUME ExecInv, ~exeStop, \A r \in ExecRuns : exePc[r] \in {"new", "done"}
               PROVE  /\ exeActive = {}
                      /\ \A r \in ExecRuns : exeProc[r] # "none" =>
                            /\ exeProc[r] = "gone"
                            /\ Cardinality({i \in DOMAIN exeOut[r] : exeOut[r][i] = 2}) = 1
                            /\ exeSpawn \/ Last(exeOut[r]) = 2
    BY DEF ExecSettled
  <2>1. exeActive = {}
    BY DEF ExecInv, RunInv
  <2>2. ASSUME NEW r \in ExecRuns, exeProc[r] # "none"
        PROVE  /\ exeProc[r] = "gone"
               /\ Cardinality({i \in DOMAIN exeOut[r] : exeOut[r][i] = 2}) = 1
               /\ exeSpawn \/ Last(exeOut[r]) = 2
    <3>1. exePc[r] = "done" /\ exeProc[r] = "gone" /\ OneCode(exeOut[r]) /\ exeOut[r] \in Seq({0, 1, 2})
          /\ (exeSpawn \/ exeOut[r][Len(exeOut[r])] = 2)
      BY <2>2 DEF ExecInv, RunInv
    <3>2. QED
      BY <3>1, OneCodeCounts DEF Last
  <2>3. QED
    BY <2>1, <2>2
<1>4. QED
  BY <1>1, <1>2, <1>3, PTL DEF ExecSpec
-----------------------------------------------------------------------------
(* DelayNode.                                                               *)

DelayNums == 1 .. DelayMax
DelayPcs == {"idle", "start", "drain", "entries", "rate", "ensure", "flush", "abort", "reset", "again",
             "control", "queued"}
DelayJobs == [pc : DelayPcs, id : Nat, kind : DelayKinds, rate : DelayRates \cup {0}, taken : Seq(DelayNums),
              keep : BOOLEAN, left : BOOLEAN]

(* What a message may carry as its topic, none among them.                  *)
AnyTopic == DelayTopics \cup {""}

(* A list of messages without repetition.                                   *)
IsList(s) == s \in Seq(DelayNums) /\ \A i, j \in 1 .. Len(s) : s[i] = s[j] => i = j

InWait == ToSet(dlyWait)
InHeld == ToSet(dlyHeld)
InTaken == ToSet(dlyJob.taken)
Listed == InWait \cup InHeld \cup InTaken
Settled == Listed \cup dlyDone \cup dlyGone

(* The message being handled has not been put anywhere yet ...              *)
DelayFresh == \/ dlyJob.pc = "start"
              \/ dlyMode \in {"queue", "timed"} /\ dlyJob.pc \in {"rate", "again", "control"}

(* ... or is completed when its handler ends.                               *)
DelayOwed == \/ dlyJob.pc = "start"
             \/ dlyMode = "delay" /\ dlyJob.kind \in {"flush", "flush_one"}
             \/ dlyMode = "rate" /\ (dlyJob.keep = TRUE \/ dlyJob.kind # "data")
             \/ dlyMode \in {"queue", "timed"} /\ dlyJob.pc \in {"rate", "again", "control", "entries"}

DelayTypes ==
  /\ dlyJob \in DelayJobs
  /\ dlyTopic \in Seq(AnyTopic) /\ Len(dlyTopic) <= DelayMax
  /\ IsList(dlyWait) /\ IsList(dlyHeld) /\ IsList(dlyJob.taken)
  /\ dlySent \in [DelayNums -> {0, 1}]

DelayPlaces ==
  /\ InWait \cap InHeld = {} /\ InWait \cap InTaken = {} /\ InHeld \cap InTaken = {}
  /\ Listed \subseteq 1 .. Len(dlyTopic)
  /\ \A i \in DelayNums : dlySent[i] # 0 => i \in (1 .. Len(dlyTopic)) \ Listed

DelayTask ==
  /\ dlyTimer # "send" => dlyHeld = <<>>
  /\ dlyTimer \in {"tick", "send"} => dlyHandle = TRUE
  /\ dlyJob.pc \notin {"entries", "abort"} => dlyJob.taken = <<>>
  /\ dlyJob.pc = "start" => dlyJob.keep = FALSE
  /\ dlyJob.pc # "idle" => dlyJob.id = Len(dlyTopic) /\ dlyJob.id \in DelayNums
  /\ DelayFresh => dlyJob.id \notin Listed /\ dlySent[dlyJob.id] = 0

DelayCovers ==
  \A i \in 1 .. Len(dlyTopic) : i \in Settled \/ (dlyJob.pc # "idle" /\ i = dlyJob.id /\ DelayOwed)

DelayInv == DelayTypes /\ DelayPlaces /\ DelayTask /\ DelayCovers

(* Lists: what the buffer, a flush and the interval task do with them.      *)
LEMMA ListFacts ==
  ASSUME NEW s, IsList(s)
  PROVE  /\ s \in Seq(DelayNums) /\ Len(s) \in Nat /\ DOMAIN s = 1 .. Len(s)
         /\ ToSet(s) = {s[i] : i \in 1 .. Len(s)} /\ ToSet(s) \subseteq DelayNums
<1>1. s \in Seq(DelayNums)
  BY DEF IsList
<1>2. Len(s) \in Nat /\ DOMAIN s = 1 .. Len(s) /\ \A i \in 1 .. Len(s) : s[i] \in DelayNums
  BY <1>1, LenProperties, ElementOfSeq
<1>3. QED
  BY <1>1, <1>2 DEF ToSet

(* The empty list.                                                           *)
LEMMA ListEmpty == IsList(<<>>) /\ ToSet(<<>>) = {}
<1>1. <<>> \in Seq(DelayNums) /\ Len(<<>>) = 0
  BY EmptySeq
<1>2. IsList(<<>>)
  BY <1>1 DEF IsList
<1>3. 1 .. Len(<<>>) = {}
  BY <1>1
<1>4. QED
  BY <1>2, <1>3, ListFacts

(* push_back of a message that is not in the list.                           *)
LEMMA ListAppend ==
  ASSUME NEW s, IsList(s), NEW x \in DelayNums, x \notin ToSet(s)
  PROVE  IsList(Append(s, x)) /\ ToSet(Append(s, x)) = ToSet(s) \cup {x}
<1> DEFINE t == Append(s, x)
<1>1. s \in Seq(DelayNums) /\ Len(s) \in Nat /\ ToSet(s) = {s[i] : i \in 1 .. Len(s)}
  BY ListFacts
<1>2. /\ t \in Seq(DelayNums) /\ Len(t) = Len(s) + 1
      /\ \A i \in 1 .. Len(s) : t[i] = s[i]
      /\ t[Len(s) + 1] = x
  BY <1>1, AppendProperties
<1> HIDE DEF t
<1>3. 1 .. Len(t) = (1 .. Len(s)) \cup {Len(s) + 1}
  BY <1>1, <1>2
<1>4. IsList(t)
  <2> SUFFICES ASSUME NEW i \in 1 .. Len(t), NEW j \in 1 .. Len(t), t[i] = t[j] PROVE i = j
    BY <1>2 DEF IsList
  <2>1. \A k \in 1 .. Len(s) : t[k] # x
    BY <1>1, <1>2
  <2>2. QED
    BY <1>2, <1>3, <2>1 DEF IsList
<1>5. ToSet(t) = {t[i] : i \in 1 .. Len(t)}
  BY <1>4, ListFacts
<1>6. QED
  BY <1>1, <1>2, <1>3, <1>4, <1>5 DEF t

(* drain(..n): what is taken and what is left share nothing and are all there was. *)
LEMMA ListSplit ==
  ASSUME NEW s, IsList(s), NEW n \in 0 .. Len(s)
  PROVE  /\ IsList(SubSeq(s, 1, n)) /\ IsList(SubSeq(s, n + 1, Len(s)))
         /\ ToSet(SubSeq(s, 1, n)) \cap ToSet(SubSeq(s, n + 1, Len(s))) = {}
         /\ ToSet(SubSeq(s, 1, n)) \cup ToSet(SubSeq(s, n + 1, Len(s))) = ToSet(s)
<1> DEFINE a == SubSeq(s, 1, n)
           b == SubSeq(s, n + 1, Len(s))
<1>1. /\ s \in Seq(DelayNums) /\ Len(s) \in Nat /\ ToSet(s) = {s[i] : i \in 1 .. Len(s)}
      /\ \A i \in 1 .. Len(s) : s[i] \in DelayNums
  BY ListFacts, ElementOfSeq
<1>2. /\ a \in Seq(DelayNums) /\ Len(a) = n /\ \A i \in 1 .. n : a[i] = s[i]
  <2>1. \A i \in 1 .. n : s[i] \in DelayNums
    BY <1>1
  <2>2. /\ a \in Seq(DelayNums) /\ Len(a) = (IF 1 <= n THEN n - 1 + 1 ELSE 0)
        /\ \A i \in 1 .. n - 1 + 1 : a[i] = s[1 + i - 1]
    BY <2>1, SubSeqProperties
  <2>3. QED
    BY <2>2
<1>3. /\ b \in Seq(DelayNums) /\ Len(b) = Len(s) - n /\ \A i \in 1 .. Len(s) - n : b[i] = s[n + i]
  <2>1. \A i \in n + 1 .. Len(s) : s[i] \in DelayNums
    BY <1>1
  <2>2. /\ b \in Seq(DelayNums) /\ Len(b) = (IF n + 1 <= Len(s) THEN Len(s) - (n + 1) + 1 ELSE 0)
        /\ \A i \in 1 .. Len(s) - (n + 1) + 1 : b[i] = s[(n + 1) + i - 1]
    BY <1>1, <2>1, SubSeqProperties
  <2>3. QED
    BY <1>1, <2>2
<1> HIDE DEF a, b
<1>4. IsList(a) /\ IsList(b)
  <2>1. ASSUME NEW i \in 1 .. Len(a), NEW j \in 1 .. Len(a), a[i] = a[j] PROVE i = j
    <3>1. i \in 1 .. Len(s) /\ j \in 1 .. Len(s) /\ s[i] = s[j]
      BY <1>1, <1>2, <2>1
    <3>2. QED
      BY <3>1 DEF IsList
  <2>2. ASSUME NEW i \in 1 .. Len(b), NEW j \in 1 .. Len(b), b[i] = b[j] PROVE i = j
    <3> DEFINE d == Len(s) - n
    <3>0. i \in 1 .. d /\ j \in 1 .. d
      BY <1>3
    <3>4a. b[i] = s[n + i] /\ b[j] = s[n + j]
      BY <1>3, <3>0
    <3>5b. n + i \in 1 .. Len(s) /\ n + j \in 1 .. Len(s)
      BY <1>1, <3>0
    <3>1. n + i \in 1 .. Len(s) /\ n + j \in 1 .. Len(s) /\ s[n + i] = s[n + j]
      BY <2>2, <3>4a, <3>5b
    <3>2. n + i = n + j
      BY <3>1 DEF IsList
    <3>3. QED
      BY <1>3, <3>2
  <2>3. QED
    BY <1>2, <1>3, <2>1, <2>2 DEF IsList
<1>5. ToSet(a) = {a[i] : i \in 1 .. Len(a)} /\ ToSet(b) = {b[i] : i \in 1 .. Len(b)}
  <2>1. ToSet(a) = {a[i] : i \in 1 .. Len(a)}
    BY <1>4, ListFacts
  <2>2. ToSet(b) = {b[i] : i \in 1 .. Len(b)}
    BY <1>4, ListFacts
  <2>3. QED
    BY <2>1, <2>2
<1>6. ToSet(a) = {s[i] : i \in 1 .. n}
  BY <1>2, <1>5
<1>7. ToSet(b) = {s[i] : i \in n + 1 .. Len(s)}
  <2>1. ASSUME NEW x \in ToSet(b) PROVE x \in {s[i] : i \in n + 1 .. Len(s)}
    <3>1. PICK i \in 1 .. Len(s) - n : x = s[n + i]
      BY <1>3, <1>5
    <3>2. n + i \in n + 1 .. Len(s)
      BY <1>1
    <3>3. QED
      BY <3>1, <3>2
  <2>2. ASSUME NEW i \in n + 1 .. Len(s) PROVE s[i] \in ToSet(b)
    <3>1. i - n \in 1 .. Len(s) - n /\ n + (i - n) = i
      BY <1>1
    <3>2. QED
      BY <1>3, <1>5, <3>1
  <2>3. QED
    BY <2>1, <2>2
<1>8. ToSet(a) \cap ToSet(b) = {}
  <2>1. ASSUME NEW i \in 1 .. n, NEW j \in n + 1 .. Len(s) PROVE s[i] # s[j]
    <3>1. i \in 1 .. Len(s) /\ j \in 1 .. Len(s) /\ i # j
      BY <1>1
    <3>2. QED
      BY <3>1 DEF IsList
  <2>2. QED
    BY <1>6, <1>7, <2>1
<1>9. 1 .. Len(s) = (1 .. n) \cup (n + 1 .. Len(s))
  BY <1>1
<1>10. QED
  BY <1>1, <1>4, <1>6, <1>7, <1>8, <1>9 DEF a, b

(* pop_front.                                                                *)
LEMMA ListTail ==
  ASSUME NEW s, IsList(s), s # <<>>
  PROVE  /\ Head(s) \in ToSet(s) /\ Head(s) \in DelayNums
         /\ IsList(Tail(s)) /\ ToSet(Tail(s)) = ToSet(s) \ {Head(s)}
<1>1. s \in Seq(DelayNums) /\ Len(s) \in Nat \ {0}
  BY EmptySeq, ListFacts
<1> DEFINE a == SubSeq(s, 1, 1)
<1>2. Tail(s) = SubSeq(s, 1 + 1, Len(s)) /\ Head(s) = s[1]
  BY <1>1, TailIsSubSeq
<1>3. 1 \in 0 .. Len(s)
  BY <1>1
<1>4. IsList(a) /\ IsList(Tail(s)) /\ ToSet(a) \cap ToSet(Tail(s)) = {} /\ ToSet(a) \cup ToSet(Tail(s)) = ToSet(s)
  <2> DEFINE b == SubSeq(s, 1 + 1, Len(s))
  <2>1. IsList(a) /\ IsList(b) /\ ToSet(a) \cap ToSet(b) = {} /\ ToSet(a) \cup ToSet(b) = ToSet(s)
    BY <1>3, ListSplit
  <2> HIDE DEF a
  <2>2. QED
    BY <1>2, <2>1
<1>5. ToSet(a) = {Head(s)}
  <2>1. Len(a) = 1 /\ a[1] = s[1]
    <3>1. \A i \in 1 .. 1 : s[i] \in DelayNums
      BY <1>1, ElementOfSeq
    <3>2. Len(a) = (IF 1 <= 1 THEN 1 - 1 + 1 ELSE 0) /\ \A i \in 1 .. 1 - 1 + 1 : a[i] = s[1 + i - 1]
      BY <3>1, SubSeqProperties
    <3>3. QED
      BY <3>2
  <2>2. 1 .. Len(a) = {1}
    BY <2>1
  <2>3. ToSet(a) = {a[i] : i \in 1 .. Len(a)}
    BY <1>4, ListFacts
  <2>4. QED
    BY <1>2, <2>1, <2>2, <2>3
<1>6. ToSet(s) \subseteq DelayNums
  BY ListFacts
<1>7. QED
  BY <1>4, <1>5, <1>6

(* remove(pos).                                                              *)
LEMMA ListRemoved ==
  ASSUME NEW s, IsList(s), NEW k \in 1 .. Len(s)
  PROVE  IsList(RemoveAt(s, k)) /\ ToSet(RemoveAt(s, k)) = ToSet(s) \ {s[k]}
<1> DEFINE a == SubSeq(s, 1, k - 1)
           b == SubSeq(s, k + 1, Len(s))
           t == a \o b
<1>1. /\ s \in Seq(DelayNums) /\ Len(s) \in Nat /\ ToSet(s) = {s[i] : i \in 1 .. Len(s)}
      /\ \A i \in 1 .. Len(s) : s[i] \in DelayNums
  BY ListFacts, ElementOfSeq
<1>2. a \in Seq(DelayNums) /\ Len(a) = k - 1 /\ \A i \in 1 .. k - 1 : a[i] = s[i]
  <2>1. \A i \in 1 .. k - 1 : s[i] \in DelayNums
    BY <1>1
  <2>2. /\ a \in Seq(DelayNums) /\ Len(a) = (IF 1 <= k - 1 THEN (k - 1) - 1 + 1 ELSE 0)
        /\ \A i \in 1 .. (k - 1) - 1 + 1 : a[i] = s[1 + i - 1]
    BY <2>1, SubSeqProperties
  <2>3. QED
    BY <2>2
<1>3. b \in Seq(DelayNums) /\ Len(b) = Len(s) - k /\ \A i \in 1 .. Len(s) - k : b[i] = s[k + i]
  <2>1. \A i \in k + 1 .. Len(s) : s[i] \in DelayNums
    BY <1>1
  <2>2. /\ b \in Seq(DelayNums) /\ Len(b) = (IF k + 1 <= Len(s) THEN Len(s) - (k + 1) + 1 ELSE 0)
        /\ \A i \in 1 .. Len(s) - (k + 1) + 1 : b[i] = s[(k + 1) + i - 1]
    BY <1>1, <2>1, SubSeqProperties
  <2>3. QED
    BY <1>1, <2>2
<1>4. t = RemoveAt(s, k)
  BY DEF RemoveAt
<1> HIDE DEF a, b
<1>5. /\ t \in Seq(DelayNums) /\ Len(t) = Len(s) - 1
      /\ \A i \in 1 .. Len(s) - 1 : t[i] = IF i < k THEN s[i] ELSE s[i + 1]
  <2>1. /\ t \in Seq(DelayNums) /\ Len(t) = Len(a) + Len(b)
        /\ \A i \in 1 .. Len(a) + Len(b) : t[i] = IF i <= Len(a) THEN a[i] ELSE b[i - Len(a)]
    BY <1>2, <1>3, ConcatProperties
  <2> HIDE DEF t
  <2>2. Len(a) + Len(b) = Len(s) - 1
    BY <1>1, <1>2, <1>3
  <2>3. ASSUME NEW i \in 1 .. Len(s) - 1, i < k PROVE t[i] = s[i]
    BY <1>1, <1>2, <2>1, <2>2, <2>3
  <2>4. ASSUME NEW i \in 1 .. Len(s) - 1, ~(i < k) PROVE t[i] = s[i + 1]
    <3>1. i - (k - 1) \in 1 .. Len(s) - k /\ k + (i - (k - 1)) = i + 1 /\ ~(i <= k - 1)
      BY <1>1, <2>4
    <3>2. t[i] = b[i - (k - 1)]
      BY <1>2, <2>1, <2>2, <3>1
    <3>3. QED
      BY <1>3, <3>1, <3>2
  <2>5. QED
    BY <2>1, <2>2, <2>3, <2>4
<1> HIDE DEF t
<1>6. IsList(t)
  <2> SUFFICES ASSUME NEW i \in 1 .. Len(t), NEW j \in 1 .. Len(t), t[i] = t[j] PROVE i = j
    BY <1>5 DEF IsList
  <2> DEFINE m == IF i < k THEN i ELSE i + 1
             n == IF j < k THEN j ELSE j + 1
  <2>1. m \in 1 .. Len(s) /\ n \in 1 .. Len(s) /\ t[i] = s[m] /\ t[j] = s[n]
    BY <1>1, <1>5
  <2>2. m = n
    BY <2>1 DEF IsList
  <2>3. QED
    BY <1>1, <1>5, <2>2
<1>7. ToSet(t) = {t[i] : i \in 1 .. Len(t)}
  BY <1>6, ListFacts
<1>8. ASSUME NEW x \in ToSet(t) PROVE x \in ToSet(s) \ {s[k]}
  <2>1. PICK i \in 1 .. Len(t) : x = t[i]
    BY <1>7
  <2> DEFINE m == IF i < k THEN i ELSE i + 1
  <2>2. m \in 1 .. Len(s) /\ x = s[m] /\ m # k
    BY <1>1, <1>5, <2>1
  <2>3. s[m] # s[k]
    BY <2>2 DEF IsList
  <2>4. QED
    BY <1>1, <2>2, <2>3
<1>9. ASSUME NEW x \in ToSet(s) \ {s[k]} PROVE x \in ToSet(t)
  <2>1. PICK i \in 1 .. Len(s) : x = s[i]
    BY <1>1
  <2> DEFINE m == IF i < k THEN i ELSE i - 1
  <2>2. i # k
    BY <2>1
  <2>3. m \in 1 .. Len(t) /\ t[m] = s[i]
    <3>1. CASE i < k
      BY <1>1, <1>5, <3>1
    <3>2. CASE i > k
      <4>1. i - 1 \in 1 .. Len(t) /\ ~(i - 1 < k) /\ (i - 1) + 1 = i
        BY <1>1, <1>5, <3>2
      <4>2. t[i - 1] = s[i]
        BY <1>5, <4>1
      <4>3. QED
        BY <3>2, <4>1, <4>2
    <3>3. QED
      BY <1>1, <2>2, <3>1, <3>2
  <2>4. QED
    BY <1>7, <2>1, <2>3
<1>10. QED
  BY <1>4, <1>6, <1>8, <1>9

(* position and remove: only the first occurrence, which is the only one.    *)
LEMMA ListRemove ==
  ASSUME NEW s, IsList(s), NEW x
  PROVE  IsList(RemoveFirst(s, x)) /\ ToSet(RemoveFirst(s, x)) = ToSet(s) \ {x}
<1>1. ToSet(s) = {s[i] : i \in 1 .. Len(s)} /\ Len(s) \in Nat
  BY ListFacts
<1>2. CASE x \in ToSet(s)
  <2>1. PICK k \in 1 .. Len(s) : s[k] = x
    BY <1>1, <1>2
  <2>2. {i \in 1 .. Len(s) : s[i] = x} = {k}
    BY <2>1 DEF IsList
  <2>3. Min({k}) = k
    BY DEF Min
  <2>4. RemoveFirst(s, x) = RemoveAt(s, k)
    BY <2>1, <2>2, <2>3 DEF RemoveFirst, SelectInSeq
  <2>5. QED
    BY <2>1, <2>4, ListRemoved
<1>3. CASE x \notin ToSet(s)
  BY <1>1, <1>3 DEF RemoveFirst
<1>4. QED
  BY <1>2, <1>3

(* How the handler's record changes.                                        *)
LEMMA JobGoes ==
  ASSUME dlyJob \in DelayJobs, NEW p \in DelayPcs, Goto(p)
  PROVE  /\ dlyJob' \in DelayJobs /\ dlyJob'.pc = p /\ dlyJob'.id = dlyJob.id /\ dlyJob'.kind = dlyJob.kind
         /\ dlyJob'.taken = dlyJob.taken /\ dlyJob'.keep = dlyJob.keep
BY DEF DelayJobs, Goto

(* Between two messages the handler holds none.                              *)
LEMMA JobIdle == /\ DelayIdle \in DelayJobs /\ DelayIdle.pc = "idle" /\ DelayIdle.taken = <<>>
<1>1. <<>> \in Seq(DelayNums)
  BY EmptySeq
<1>2. QED
  BY <1>1 DEF DelayIdle, DelayJobs, DelayPcs, DelayKinds

(* The interval task: what it holds is with it only while it sends, and its
   handle is there as long as it may take more.                             *)
TimerOk == /\ dlyTimer # "send" => dlyHeld = <<>>
           /\ dlyTimer \in {"tick", "send"} => dlyHandle = TRUE

(* handle.abort: what the interval task held is dropped, not kept twice.     *)
LEMMA AbortFacts ==
  ASSUME IsList(dlyHeld), TimerOk, AbortTimer
  PROVE  /\ IsList(dlyHeld') /\ TimerOk' /\ ToSet(dlyHeld') \subseteq ToSet(dlyHeld)
         /\ dlyGone \subseteq dlyGone' /\ ToSet(dlyHeld) \subseteq ToSet(dlyHeld') \cup dlyGone'
<1>1. CASE dlyHandle
  <2>1. dlyHeld' = <<>> /\ dlyTimer' = "off" /\ dlyGone' = dlyGone \cup ToSet(dlyHeld)
    BY <1>1 DEF AbortTimer
  <2>2. QED
    BY <2>1, ListEmpty DEF TimerOk
<1>2. CASE ~dlyHandle
  <2>1. dlyHeld' = dlyHeld /\ dlyTimer' = dlyTimer /\ dlyGone' = dlyGone
    BY <1>2 DEF AbortTimer
  <2>2. dlyTimer \notin {"tick", "send"}
    BY <1>2 DEF TimerOk
  <2>3. QED
    BY <2>1, <2>2 DEF TimerOk
<1>3. QED
  BY <1>1, <1>2

(* A started interval task holds nothing yet.                                *)
LEMMA EnsureFacts == ASSUME TimerOk, EnsureTimer PROVE dlyHeld' = dlyHeld /\ TimerOk'
<1>1. CASE dlyHandle
  BY <1>1 DEF EnsureTimer, TimerOk
<1>2. CASE ~dlyHandle
  <2>1. dlyHeld' = dlyHeld /\ dlyHandle' = TRUE /\ dlyTimer' \in {"dead", "tick"}
    BY <1>2 DEF EnsureTimer
  <2>2. dlyHeld = <<>>
    BY <1>2 DEF TimerOk
  <2>3. QED
    BY <2>1, <2>2 DEF TimerOk
<1>3. QED
  BY <1>1, <1>2

(* Moving what is listed about, and putting it under done or gone, keeps the
   invariant while the handler goes on with its message or ends.            *)
LEMMA DelayMoves ==
  ASSUME DelayInv, DelayTypes', TimerOk', dlyTopic' = dlyTopic, dlyMode' = dlyMode,
         dlyDone \subseteq dlyDone', dlyGone \subseteq dlyGone',
         Listed' \subseteq Listed, Listed \subseteq Settled',
         InWait' \cap InHeld' = {}, InWait' \cap InTaken' = {}, InHeld' \cap InTaken' = {},
         \A i \in DelayNums : dlySent'[i] = dlySent[i] \/ (i \in Listed /\ i \notin Listed'),
         dlyJob'.pc \notin {"entries", "abort"} => dlyJob'.taken = <<>>,
         dlyJob.pc # "idle" /\ dlyJob'.pc # "idle" =>
           dlyJob'.id = dlyJob.id /\ dlyJob'.kind = dlyJob.kind /\ dlyJob'.keep = dlyJob.keep,
         dlyJob.pc = "idle" => dlyJob' = dlyJob,
         DelayFresh' => DelayFresh,
         dlyJob.pc # "start" => dlyJob'.pc # "start",
         dlyJob.pc # "idle" => dlyJob.id \in Settled' \/ (dlyJob'.pc # "idle" /\ DelayOwed')
  PROVE  DelayInv'
<1>1. DelayPlaces'
  <2>1. Listed' \subseteq 1 .. Len(dlyTopic')
    BY DEF DelayInv, DelayPlaces
  <2>2. ASSUME NEW i \in DelayNums, dlySent'[i] # 0 PROVE i \in (1 .. Len(dlyTopic')) \ Listed'
    BY <2>2 DEF DelayInv, DelayPlaces
  <2>3. QED
    BY <2>1, <2>2 DEF DelayPlaces
<1>2. DelayTask'
  <2>1. dlyJob'.pc = "start" => dlyJob'.keep = FALSE
    BY DEF DelayInv, DelayTask
  <2>2. dlyJob'.pc # "idle" => dlyJob'.id = Len(dlyTopic') /\ dlyJob'.id \in DelayNums
    BY DEF DelayInv, DelayTask
  <2>3. DelayFresh' => dlyJob'.id \notin Listed' /\ dlySent'[dlyJob'.id] = 0
    <3> SUFFICES ASSUME DelayFresh' PROVE dlyJob'.id \notin Listed' /\ dlySent'[dlyJob'.id] = 0
      OBVIOUS
    <3>1. DelayFresh /\ dlyJob.pc # "idle" /\ dlyJob'.pc # "idle"
      BY DEF DelayFresh
    <3>2. dlyJob'.id = dlyJob.id /\ dlyJob.id \in DelayNums /\ dlyJob.id \notin Listed /\ dlySent[dlyJob.id] = 0
      BY <3>1 DEF DelayInv, DelayTask
    <3>3. QED
      BY <3>2
  <2>4. QED
    BY <2>1, <2>2, <2>3 DEF DelayTask, TimerOk
<1>3. DelayCovers'
  <2> SUFFICES ASSUME NEW i \in 1 .. Len(dlyTopic), i \notin Settled'
               PROVE  dlyJob'.pc # "idle" /\ i = dlyJob'.id /\ DelayOwed'
    BY DEF DelayCovers
  <2>1. i \notin Settled
    BY DEF Settled
  <2>2. dlyJob.pc # "idle" /\ i = dlyJob.id
    BY <2>1 DEF DelayInv, DelayCovers
  <2>3. QED
    BY <2>2
<1>4. QED
  BY <1>1, <1>2, <1>3 DEF DelayInv

(* The handler puts the message it has just read somewhere, or sends it.    *)
LEMMA DelayPuts ==
  ASSUME DelayInv, DelayTypes', TimerOk', dlyTopic' = dlyTopic, dlyMode' = dlyMode,
         dlyDone \subseteq dlyDone', dlyGone \subseteq dlyGone', dlyJob.pc # "idle", DelayFresh, ~DelayFresh',
         Listed' \subseteq Listed \cup {dlyJob.id}, Listed \subseteq Settled',
         InWait' \cap InHeld' = {}, InWait' \cap InTaken' = {}, InHeld' \cap InTaken' = {},
         \A i \in DelayNums : dlySent'[i] = dlySent[i] \/ (i = dlyJob.id /\ i \notin Listed'),
         dlyJob'.pc \notin {"entries", "abort"} => dlyJob'.taken = <<>>,
         dlyJob'.pc # "idle" => dlyJob'.id = dlyJob.id,
         dlyJob.id \in Settled' \/ (dlyJob'.pc # "idle" /\ DelayOwed')
  PROVE  DelayInv'
<1>1. /\ dlyJob.id = Len(dlyTopic) /\ dlyJob.id \in DelayNums /\ dlyJob.id \notin Listed /\ dlySent[dlyJob.id] = 0
      /\ dlyJob.id \in 1 .. Len(dlyTopic)
  BY DEF DelayInv, DelayTask, DelayNums
<1>2. DelayPlaces'
  <2>1. Listed' \subseteq 1 .. Len(dlyTopic')
    BY <1>1 DEF DelayInv, DelayPlaces
  <2>2. ASSUME NEW i \in DelayNums, dlySent'[i] # 0 PROVE i \in (1 .. Len(dlyTopic')) \ Listed'
    <3>1. CASE i = dlyJob.id
      BY <1>1, <2>2, <3>1
    <3>2. CASE i # dlyJob.id
      BY <2>2, <3>2 DEF DelayInv, DelayPlaces
    <3>3. QED
      BY <3>1, <3>2
  <2>3. QED
    BY <2>1, <2>2 DEF DelayPlaces
<1>3. DelayTask'
  <2>1. dlyJob'.pc # "start"
    BY DEF DelayFresh
  <2>2. QED
    BY <1>1, <2>1 DEF DelayTask, TimerOk
<1>4. DelayCovers'
  <2> SUFFICES ASSUME NEW i \in 1 .. Len(dlyTopic), i \notin Settled'
               PROVE  dlyJob'.pc # "idle" /\ i = dlyJob'.id /\ DelayOwed'
    BY DEF DelayCovers
  <2>1. i \notin Settled
    BY DEF Settled
  <2>2. i = dlyJob.id
    BY <2>1 DEF DelayInv, DelayCovers
  <2>3. QED
    BY <2>2
<1>5. QED
  BY <1>2, <1>3, <1>4 DEF DelayInv

(* What the invariant says of the lists.                                    *)
LEMMA DelayLists ==
  ASSUME DelayInv
  PROVE  /\ dlyJob \in DelayJobs /\ IsList(dlyWait) /\ IsList(dlyHeld) /\ IsList(dlyJob.taken) /\ TimerOk
         /\ dlyTopic \in Seq(AnyTopic) /\ Len(dlyTopic) <= DelayMax
         /\ dlySent \in [DelayNums -> {0, 1}] /\ Listed = InWait \cup InHeld \cup InTaken
         /\ InWait \cap InHeld = {} /\ InWait \cap InTaken = {} /\ InHeld \cap InTaken = {}
         /\ \A i \in DelayNums : i \in Listed => dlySent[i] = 0
BY DEF DelayInv, DelayTypes, DelayPlaces, DelayTask, TimerOk, Listed

(* The message being handled is one of those received.                       *)
LEMMA Covered == ASSUME DelayInv, dlyJob.pc # "idle" PROVE dlyJob.id \in Settled \/ DelayOwed
<1>1. dlyJob.id \in 1 .. Len(dlyTopic)
  BY DEF DelayInv, DelayTask, DelayNums
<1>2. QED
  BY <1>1 DEF DelayInv, DelayCovers

(* Steps of the handler that leave the lists to the interval task.          *)
LEMMA HandlerGoes ==
  ASSUME DelayInv,
         \/ RateEnsure \/ RateRestart \/ QueueStart \/ QueueAgain \/ QueueEnsure \/ ChangeRate \/ RateAbort
         \/ QueueFlushed
  PROVE  DelayInv'
<1>1. /\ dlyJob \in DelayJobs /\ IsList(dlyWait) /\ IsList(dlyHeld) /\ IsList(dlyJob.taken) /\ TimerOk
      /\ dlyTopic \in Seq(AnyTopic) /\ Len(dlyTopic) <= DelayMax
      /\ dlySent \in [DelayNums -> {0, 1}] /\ Listed = InWait \cup InHeld \cup InTaken
      /\ InWait \cap InHeld = {} /\ InWait \cap InTaken = {} /\ InHeld \cap InTaken = {}
  BY DelayLists
<1>2. /\ dlyTopic' = dlyTopic /\ dlyMode' = dlyMode /\ dlyWait' = dlyWait /\ dlySent' = dlySent
      /\ dlyDone \subseteq dlyDone'
  BY DEF RateEnsure, RateRestart, QueueStart, QueueAgain, QueueEnsure, ChangeRate, RateAbort, QueueFlushed, Completed
<1>3. /\ IsList(dlyHeld') /\ TimerOk' /\ ToSet(dlyHeld') \subseteq ToSet(dlyHeld)
      /\ dlyGone \subseteq dlyGone' /\ ToSet(dlyHeld) \subseteq ToSet(dlyHeld') \cup dlyGone'
  <2>1. CASE AbortTimer
    BY <1>1, <2>1, AbortFacts
  <2>2. CASE EnsureTimer /\ dlyGone' = dlyGone
    BY <1>1, <2>2, EnsureFacts
  <2>3. CASE UNCHANGED <<delayTimerVars, dlyGone>>
    BY <1>1, <2>3 DEF delayTimerVars, TimerOk
  <2>4. QED
    BY <2>1, <2>2, <2>3 DEF RateEnsure, RateRestart, QueueStart, QueueAgain, QueueEnsure, ChangeRate, RateAbort,
                            QueueFlushed
<1>4. dlyJob.pc \notin {"entries", "abort"} => dlyJob.taken = <<>>
  BY DEF DelayInv, DelayTask
<1>5. /\ dlyJob' \in DelayJobs /\ dlyJob'.taken = dlyJob.taken
      /\ dlyJob'.pc # "idle" => dlyJob'.id = dlyJob.id /\ dlyJob'.kind = dlyJob.kind /\ dlyJob'.keep = dlyJob.keep
      /\ dlyJob.pc # "idle" /\ dlyJob'.pc # "start"
      /\ dlyJob'.pc \notin {"entries", "abort"} => dlyJob'.taken = <<>>
      /\ DelayFresh' => DelayFresh
      /\ DelayOwed => dlyJob.id \in dlyDone' \/ (dlyJob'.pc # "idle" /\ DelayOwed')
  <2>1. CASE RateEnsure
    <3>1. "flush" \in DelayPcs /\ Goto("flush") /\ dlyJob.pc = "ensure" /\ dlyMode = "rate"
      BY <2>1 DEF RateEnsure, DelayPcs
    <3>2. dlyJob' \in DelayJobs /\ dlyJob'.pc = "flush" /\ dlyJob'.id = dlyJob.id /\ dlyJob'.kind = dlyJob.kind
          /\ dlyJob'.taken = dlyJob.taken /\ dlyJob'.keep = dlyJob.keep
      BY <1>1, <3>1, JobGoes
    <3>3. QED
      BY <1>2, <1>4, <3>1, <3>2 DEF DelayFresh, DelayOwed
  <2>2. CASE RateRestart
    <3>1. "reset" \in DelayPcs /\ Goto("reset") /\ dlyJob.pc = "entries" /\ dlyMode = "rate" /\ dlyJob.taken = <<>>
      BY <2>2 DEF RateRestart, DelayPcs
    <3>2. dlyJob' \in DelayJobs /\ dlyJob'.pc = "reset" /\ dlyJob'.id = dlyJob.id /\ dlyJob'.kind = dlyJob.kind
          /\ dlyJob'.taken = dlyJob.taken /\ dlyJob'.keep = dlyJob.keep
      BY <1>1, <3>1, JobGoes
    <3>3. QED
      BY <1>2, <1>4, <3>1, <3>2 DEF DelayFresh, DelayOwed
  <2>3. CASE QueueStart
    <3>1. "rate" \in DelayPcs /\ Goto("rate") /\ dlyJob.pc = "start" /\ dlyMode \in {"queue", "timed"}
      BY <2>3 DEF QueueStart, DelayPcs
    <3>2. dlyJob' \in DelayJobs /\ dlyJob'.pc = "rate" /\ dlyJob'.id = dlyJob.id /\ dlyJob'.kind = dlyJob.kind
          /\ dlyJob'.taken = dlyJob.taken /\ dlyJob'.keep = dlyJob.keep
      BY <1>1, <3>1, JobGoes
    <3>3. QED
      BY <1>2, <1>4, <3>1, <3>2 DEF DelayFresh, DelayOwed
  <2>4. CASE QueueAgain
    <3>1. "control" \in DelayPcs /\ Goto("control") /\ dlyJob.pc = "again" /\ dlyMode \in {"queue", "timed"}
      BY <2>4 DEF QueueAgain, DelayPcs
    <3>2. dlyJob' \in DelayJobs /\ dlyJob'.pc = "control" /\ dlyJob'.id = dlyJob.id /\ dlyJob'.kind = dlyJob.kind
          /\ dlyJob'.taken = dlyJob.taken /\ dlyJob'.keep = dlyJob.keep
      BY <1>1, <3>1, JobGoes
    <3>3. QED
      BY <1>2, <1>4, <3>1, <3>2 DEF DelayFresh, DelayOwed
  <2>5. CASE RateAbort
    <3>1. "entries" \in DelayPcs /\ Goto("entries") /\ dlyJob.pc = "abort" /\ dlyMode = "rate"
      BY <2>5 DEF RateAbort, DelayPcs
    <3>2. dlyJob' \in DelayJobs /\ dlyJob'.pc = "entries" /\ dlyJob'.id = dlyJob.id /\ dlyJob'.kind = dlyJob.kind
          /\ dlyJob'.taken = dlyJob.taken /\ dlyJob'.keep = dlyJob.keep
      BY <1>1, <3>1, JobGoes
    <3>3. QED
      BY <1>2, <1>4, <3>1, <3>2 DEF DelayFresh, DelayOwed
  <2>6. CASE ChangeRate /\ dlyMode = "rate"
    <3>1. "ensure" \in DelayPcs /\ Goto("ensure") /\ dlyJob.pc = "rate" /\ dlyMode = "rate"
      BY <2>6 DEF ChangeRate, DelayPcs
    <3>2. dlyJob' \in DelayJobs /\ dlyJob'.pc = "ensure" /\ dlyJob'.id = dlyJob.id /\ dlyJob'.kind = dlyJob.kind
          /\ dlyJob'.taken = dlyJob.taken /\ dlyJob'.keep = dlyJob.keep
      BY <1>1, <3>1, JobGoes
    <3>3. QED
      BY <1>2, <1>4, <3>1, <3>2 DEF DelayFresh, DelayOwed
  <2>7. CASE ChangeRate /\ dlyMode # "rate"
    <3>1. "again" \in DelayPcs /\ Goto("again") /\ dlyJob.pc = "rate" /\ dlyMode # "rate"
      BY <2>7 DEF ChangeRate, DelayPcs
    <3>2. dlyJob' \in DelayJobs /\ dlyJob'.pc = "again" /\ dlyJob'.id = dlyJob.id /\ dlyJob'.kind = dlyJob.kind
          /\ dlyJob'.taken = dlyJob.taken /\ dlyJob'.keep = dlyJob.keep
      BY <1>1, <3>1, JobGoes
    <3>3. QED
      BY <1>2, <1>4, <3>1, <3>2 DEF DelayFresh, DelayOwed
  <2>8. CASE QueueEnsure \/ QueueFlushed
    <3>1. /\ dlyJob' = DelayIdle /\ dlyJob.pc \in {"queued", "entries"} /\ dlyMode \in {"queue", "timed"}
          /\ dlyJob.pc = "entries" => dlyJob.taken = <<>> /\ dlyJob.id \in dlyDone'
      BY <2>8 DEF QueueEnsure, QueueFlushed, Completed
    <3>2. dlyJob' \in DelayJobs /\ dlyJob'.pc = "idle" /\ dlyJob'.taken = <<>>
      BY <3>1, JobIdle
    <3>3. QED
      BY <1>2, <1>4, <3>1, <3>2 DEF DelayFresh, DelayOwed
  <2>9. QED
    BY <2>1, <2>2, <2>3, <2>4, <2>5, <2>6, <2>7, <2>8
<1>6. DelayTypes'
  BY <1>1, <1>2, <1>3, <1>5 DEF DelayTypes
<1>7. InWait' = InWait /\ InTaken' = InTaken /\ InHeld' \subseteq InHeld /\ InHeld \subseteq InHeld' \cup dlyGone'
  BY <1>2, <1>3, <1>5 DEF InWait, InHeld, InTaken
<1>8. Listed' \subseteq Listed /\ Listed \subseteq Settled'
  BY <1>7 DEF Listed, Settled
<1>9. dlyJob.id \in Settled' \/ (dlyJob'.pc # "idle" /\ DelayOwed')
  <2>1. dlyJob.id \in Settled \/ DelayOwed
    BY <1>5, Covered
  <2>2. Settled \subseteq Settled'
    BY <1>2, <1>3, <1>8 DEF Settled
  <2>3. dlyDone' \subseteq Settled'
    BY DEF Settled
  <2>4. QED
    BY <1>5, <2>1, <2>2, <2>3
<1>10. QED
  BY <1>1, <1>2, <1>3, <1>5, <1>6, <1>7, <1>8, <1>9, DelayMoves

(* A message not sent before is sent once.                                   *)
LEMMA SentNow ==
  ASSUME dlySent \in [DelayNums -> {0, 1}], NEW x \in DelayNums, dlySent[x] = 0, SendPort0(x)
  PROVE  dlySent' \in [DelayNums -> {0, 1}] /\ \A i \in DelayNums : dlySent'[i] = dlySent[i] \/ i = x
<1>1. dlySent' = [dlySent EXCEPT ![x] = 1]
  BY DEF SendPort0
<1>2. QED
  BY <1>1

(* Nothing but the handler's record, which keeps what it has taken, or what is
   completed or gone.                                                       *)
LEMMA JobOnly ==
  ASSUME DelayInv, dlyJob' \in DelayJobs, dlyJob'.taken = dlyJob.taken,
         dlyJob'.id = dlyJob.id, dlyJob'.kind = dlyJob.kind, dlyJob'.keep = dlyJob.keep,
         dlyJob.pc = "idle" => dlyJob' = dlyJob,
         dlyJob.pc # "start" => dlyJob'.pc # "start",
         dlyJob'.pc \notin {"entries", "abort"} => dlyJob'.taken = <<>>,
         dlyMode' = dlyMode, dlyTopic' = dlyTopic, dlyWait' = dlyWait, dlyHeld' = dlyHeld, TimerOk',
         dlySent' = dlySent, dlyDone \subseteq dlyDone', dlyGone \subseteq dlyGone',
         DelayFresh' => DelayFresh, DelayOwed => DelayOwed', dlyJob.pc # "idle" => dlyJob'.pc # "idle"
  PROVE  DelayInv'
<1>1. /\ dlyJob \in DelayJobs /\ IsList(dlyWait) /\ IsList(dlyHeld) /\ IsList(dlyJob.taken) /\ TimerOk
      /\ dlyTopic \in Seq(AnyTopic) /\ Len(dlyTopic) <= DelayMax
      /\ dlySent \in [DelayNums -> {0, 1}] /\ Listed = InWait \cup InHeld \cup InTaken
      /\ InWait \cap InHeld = {} /\ InWait \cap InTaken = {} /\ InHeld \cap InTaken = {}
      /\ \A i \in DelayNums : i \in Listed => dlySent[i] = 0
  BY DelayLists
<1>2. DelayTypes'
  BY <1>1 DEF DelayTypes
<1>3. InHeld' = InHeld /\ InWait' = InWait /\ InTaken' = InTaken
  BY DEF InHeld, InWait, InTaken
<1>4. Listed' = Listed /\ Listed \subseteq Settled' /\ Settled \subseteq Settled'
  BY <1>3 DEF Listed, Settled
<1>5. dlyJob.pc # "idle" => dlyJob.id \in Settled' \/ (dlyJob'.pc # "idle" /\ DelayOwed')
  BY <1>4, Covered
<1>6. QED
  BY <1>1, <1>2, <1>3, <1>4, <1>5, DelayMoves

(* The handler ends: its message is settled unless it is completed now.     *)
LEMMA DelayEnds ==
  ASSUME DelayInv, dlyJob.pc # "idle", dlyJob.taken = <<>>, dlyJob' = DelayIdle,
         UNCHANGED <<dlyMode, dlyTopic, dlySent>>, TimerOk',
         IsList(dlyWait'), IsList(dlyHeld'), ToSet(dlyHeld') \subseteq ToSet(dlyHeld),
         ToSet(dlyHeld) \subseteq ToSet(dlyHeld') \cup dlyGone', ToSet(dlyWait') \subseteq ToSet(dlyWait),
         ToSet(dlyWait) \subseteq ToSet(dlyWait') \cup dlyDone' \cup dlyGone',
         dlyDone \subseteq dlyDone', dlyGone \subseteq dlyGone', dlyJob.id \in dlyDone' \/ ~DelayOwed
  PROVE  DelayInv'
<1>1. /\ dlyJob \in DelayJobs /\ IsList(dlyWait) /\ IsList(dlyHeld) /\ IsList(dlyJob.taken) /\ TimerOk
      /\ dlyTopic \in Seq(AnyTopic) /\ Len(dlyTopic) <= DelayMax
      /\ dlySent \in [DelayNums -> {0, 1}] /\ Listed = InWait \cup InHeld \cup InTaken
      /\ InWait \cap InHeld = {} /\ InWait \cap InTaken = {} /\ InHeld \cap InTaken = {}
      /\ \A i \in DelayNums : i \in Listed => dlySent[i] = 0
  BY DelayLists
<1>2. dlyJob' \in DelayJobs /\ dlyJob'.pc = "idle" /\ dlyJob'.taken = <<>>
  BY JobIdle
<1>3. IsList(<<>>) /\ InTaken = {} /\ InTaken' = {}
  BY <1>2, ListEmpty DEF InTaken
<1>4. DelayTypes'
  BY <1>1, <1>2, <1>3 DEF DelayTypes
<1>5. /\ InHeld' \subseteq InHeld /\ InHeld \subseteq InHeld' \cup dlyGone'
      /\ InWait' \subseteq InWait /\ InWait \subseteq InWait' \cup dlyDone' \cup dlyGone'
  BY DEF InHeld, InWait
<1>6. Listed' \subseteq Listed /\ Listed \subseteq Settled' /\ Settled \subseteq Settled'
  BY <1>3, <1>5 DEF Listed, Settled
<1>7. ~DelayFresh'
  BY <1>2 DEF DelayFresh
<1>8. dlyJob.id \in Settled'
  BY <1>6, Covered DEF Settled
<1>9. /\ InWait' \cap InHeld' = {} /\ InWait' \cap InTaken' = {} /\ InHeld' \cap InTaken' = {}
  BY <1>1, <1>3, <1>5
<1>10. QED
  BY <1>1, <1>2, <1>4, <1>6, <1>7, <1>8, <1>9, DelayMoves

(* The timer tasks move what waits, or send it, beside the handler.         *)
LEMMA TaskMoves ==
  ASSUME DelayInv, UNCHANGED <<dlyMode, dlyTopic, dlyJob>>, TimerOk', IsList(dlyWait'), IsList(dlyHeld'),
         dlySent' \in [DelayNums -> {0, 1}], dlyDone \subseteq dlyDone', dlyGone \subseteq dlyGone',
         ToSet(dlyHeld') \cap ToSet(dlyWait') = {},
         ToSet(dlyHeld') \cup ToSet(dlyWait') \subseteq InHeld \cup InWait,
         InHeld \cup InWait \subseteq ToSet(dlyHeld') \cup ToSet(dlyWait') \cup dlyDone',
         \A i \in DelayNums : dlySent'[i] = dlySent[i]
                              \/ (i \in Listed /\ i \notin ToSet(dlyWait') \cup ToSet(dlyHeld') \cup InTaken)
  PROVE  DelayInv'
<1>1. /\ dlyJob \in DelayJobs /\ IsList(dlyWait) /\ IsList(dlyHeld) /\ IsList(dlyJob.taken) /\ TimerOk
      /\ dlyTopic \in Seq(AnyTopic) /\ Len(dlyTopic) <= DelayMax
      /\ dlySent \in [DelayNums -> {0, 1}] /\ Listed = InWait \cup InHeld \cup InTaken
      /\ InWait \cap InHeld = {} /\ InWait \cap InTaken = {} /\ InHeld \cap InTaken = {}
      /\ \A i \in DelayNums : i \in Listed => dlySent[i] = 0
  BY DelayLists
<1>2. DelayTypes'
  BY <1>1 DEF DelayTypes
<1>3. InHeld' = ToSet(dlyHeld') /\ InWait' = ToSet(dlyWait') /\ InTaken' = InTaken
  BY DEF InHeld, InWait, InTaken
<1>4. Listed' = InWait' \cup InHeld' \cup InTaken' /\ Settled' = Listed' \cup dlyDone' \cup dlyGone'
  BY DEF Listed, Settled
<1>5. Listed' \subseteq Listed /\ Listed \subseteq Settled' /\ Settled \subseteq Settled'
  BY <1>1, <1>3, <1>4 DEF Settled
<1>6. /\ InWait' \cap InHeld' = {} /\ InWait' \cap InTaken' = {} /\ InHeld' \cap InTaken' = {}
  BY <1>1, <1>3
<1>7. DelayFresh' = DelayFresh /\ DelayOwed' = DelayOwed
  BY DEF DelayFresh, DelayOwed
<1>8. dlyJob.pc # "idle" => dlyJob.id \in Settled' \/ (dlyJob'.pc # "idle" /\ DelayOwed')
  BY <1>5, <1>7, Covered
<1>9. \A i \in DelayNums : dlySent'[i] = dlySent[i] \/ (i \in Listed /\ i \notin Listed')
  BY <1>3, <1>4
<1>10. dlyJob'.pc \notin {"entries", "abort"} => dlyJob'.taken = <<>>
  BY DEF DelayInv, DelayTask
<1>11. QED
  BY <1>2, <1>5, <1>6, <1>7, <1>8, <1>9, <1>10, DelayMoves

(* A flush or a reset takes the first messages out of the buffer.           *)
LEMMA FlushTakes ==
  ASSUME DelayInv, NEW n \in 0 .. Len(dlyWait), dlyJob.pc \notin {"idle", "start"}, dlyJob.taken = <<>>,
         dlyJob' \in DelayJobs, dlyJob'.taken = SubSeq(dlyWait, 1, n),
         dlyWait' = SubSeq(dlyWait, n + 1, Len(dlyWait)), dlyJob'.pc \in {"entries", "abort"},
         dlyJob'.id = dlyJob.id, dlyJob'.kind = dlyJob.kind, dlyJob'.keep = dlyJob.keep,
         UNCHANGED <<dlyMode, dlyTopic, delayTimerVars, dlySent, dlyDone, dlyGone>>,
         DelayOwed => DelayOwed'
  PROVE  DelayInv'
<1>1. /\ dlyJob \in DelayJobs /\ IsList(dlyWait) /\ IsList(dlyHeld) /\ TimerOk
      /\ dlyTopic \in Seq(AnyTopic) /\ Len(dlyTopic) <= DelayMax
      /\ dlySent \in [DelayNums -> {0, 1}] /\ InWait \cap InHeld = {} /\ InTaken = {}
  BY DelayLists, ListEmpty DEF InTaken
<1>2. /\ dlyMode' = dlyMode /\ dlyTopic' = dlyTopic /\ dlyHeld' = dlyHeld /\ dlySent' = dlySent
      /\ dlyDone' = dlyDone /\ dlyGone' = dlyGone /\ TimerOk'
  BY <1>1 DEF delayTimerVars, TimerOk
<1>3. /\ IsList(dlyJob'.taken) /\ IsList(dlyWait')
      /\ InTaken' \cap InWait' = {} /\ InTaken' \cup InWait' = InWait
  <2>1. /\ IsList(SubSeq(dlyWait, 1, n)) /\ IsList(SubSeq(dlyWait, n + 1, Len(dlyWait)))
        /\ ToSet(SubSeq(dlyWait, 1, n)) \cap ToSet(SubSeq(dlyWait, n + 1, Len(dlyWait))) = {}
        /\ ToSet(SubSeq(dlyWait, 1, n)) \cup ToSet(SubSeq(dlyWait, n + 1, Len(dlyWait))) = ToSet(dlyWait)
    BY <1>1, ListSplit
  <2>2. QED
    BY <2>1 DEF InTaken, InWait
<1>4. DelayTypes'
  BY <1>1, <1>2, <1>3 DEF DelayTypes
<1>5. InHeld' = InHeld
  BY <1>2 DEF InHeld
<1>6. Listed' = Listed /\ Settled' = Settled
  BY <1>1, <1>2, <1>3, <1>5 DEF Listed, Settled
<1>7. ~DelayFresh'
  BY DEF DelayFresh
<1>8. dlyJob.id \in Settled' \/ (dlyJob'.pc # "idle" /\ DelayOwed')
  BY <1>6, Covered
<1>9. Listed \subseteq Settled'
  BY <1>6 DEF Settled
<1>10. /\ InWait' \cap InHeld' = {} /\ InWait' \cap InTaken' = {} /\ InHeld' \cap InTaken' = {}
  BY <1>1, <1>3, <1>5
<1>11. QED
  BY <1>2, <1>4, <1>6, <1>7, <1>8, <1>9, <1>10, DelayMoves

(* A message that was taken is sent, unless this is a reset, and completed. *)
LEMMA EntryGoes ==
  ASSUME DelayInv, dlyJob.pc = "entries", dlyJob.taken # <<>>, dlyJob' = [dlyJob EXCEPT !.taken = Tail(@)],
         Completed({Head(dlyJob.taken)}), SendPort0(Head(dlyJob.taken)) \/ dlySent' = dlySent,
         UNCHANGED <<dlyMode, dlyTopic, dlyWait, delayTimerVars, dlyGone>>
  PROVE  DelayInv'
<1> DEFINE x == Head(dlyJob.taken)
<1>1. /\ dlyJob \in DelayJobs /\ IsList(dlyWait) /\ IsList(dlyHeld) /\ IsList(dlyJob.taken) /\ TimerOk
      /\ dlyTopic \in Seq(AnyTopic) /\ Len(dlyTopic) <= DelayMax
      /\ dlySent \in [DelayNums -> {0, 1}] /\ Listed = InWait \cup InHeld \cup InTaken
      /\ InWait \cap InHeld = {} /\ InWait \cap InTaken = {} /\ InHeld \cap InTaken = {}
      /\ \A i \in DelayNums : i \in Listed => dlySent[i] = 0
  BY DelayLists
<1>2. /\ dlyMode' = dlyMode /\ dlyTopic' = dlyTopic /\ dlyHeld' = dlyHeld /\ dlyWait' = dlyWait
      /\ dlyDone' = dlyDone \cup {x} /\ dlyGone' = dlyGone /\ TimerOk'
  BY <1>1 DEF delayTimerVars, TimerOk, Completed
<1>3. x \in InTaken /\ x \in DelayNums /\ IsList(Tail(dlyJob.taken)) /\ ToSet(Tail(dlyJob.taken)) = InTaken \ {x}
  BY <1>1, ListTail DEF InTaken
<1>4. /\ dlyJob' \in DelayJobs /\ dlyJob'.pc = "entries" /\ dlyJob'.id = dlyJob.id /\ dlyJob'.kind = dlyJob.kind
      /\ dlyJob'.taken = Tail(dlyJob.taken) /\ dlyJob'.keep = dlyJob.keep
  <2>1. Tail(dlyJob.taken) \in Seq(DelayNums)
    BY <1>3 DEF IsList
  <2>2. QED
    BY <1>1, <2>1 DEF DelayJobs
<1> HIDE DEF x
<1>5. dlySent' \in [DelayNums -> {0, 1}] /\ \A i \in DelayNums : dlySent'[i] = dlySent[i] \/ i = x
  <2>1. CASE dlySent' = dlySent
    BY <1>1, <2>1
  <2>2. CASE SendPort0(x)
    <3>1. dlySent[x] = 0
      BY <1>1, <1>3
    <3>2. QED
      BY <1>1, <1>3, <2>2, <3>1, SentNow
  <2>3. QED
    BY <2>1, <2>2 DEF x
<1>6. DelayTypes'
  BY <1>1, <1>2, <1>3, <1>4, <1>5 DEF DelayTypes
<1>7. InHeld' = InHeld /\ InWait' = InWait /\ InTaken' = InTaken \ {x}
  BY <1>2, <1>3, <1>4 DEF InHeld, InWait, InTaken
<1>8. Listed' = Listed \ {x} /\ Settled' = Settled /\ x \in Listed /\ Listed \subseteq Settled'
  BY <1>1, <1>2, <1>3, <1>7 DEF Listed, Settled
<1>9. ~DelayFresh' /\ (DelayOwed => DelayOwed')
  BY <1>2, <1>4 DEF DelayFresh, DelayOwed
<1>10. dlyJob.id \in Settled' \/ (dlyJob'.pc # "idle" /\ DelayOwed')
  BY <1>4, <1>8, <1>9, Covered
<1>11. /\ InWait' \cap InHeld' = {} /\ InWait' \cap InTaken' = {} /\ InHeld' \cap InTaken' = {}
  BY <1>1, <1>7
<1>12. \A i \in DelayNums : dlySent'[i] = dlySent[i] \/ (i \in Listed /\ i \notin Listed')
  BY <1>5, <1>8
<1>13. QED
  BY <1>2, <1>4, <1>6, <1>8, <1>9, <1>10, <1>11, <1>12, DelayMoves

(* A flush takes no more than the list holds.                                *)
LEMMA FlushCounts == ASSUME IsList(dlyWait) PROVE FlushTake \in 0 .. Len(dlyWait)
<1>1. Len(dlyWait) \in Nat
  BY ListFacts
<1>2. QED
  BY <1>1 DEF FlushTake, FlushCount

(* Flushes, in every mode.                                                  *)
LEMMA FlushesKeep ==
  ASSUME DelayInv, DrainDelays \/ RateFlush \/ QueueFlush
  PROVE  DelayInv'
<1>1. dlyJob \in DelayJobs /\ IsList(dlyWait) /\ Len(dlyWait) \in Nat /\ FlushTake \in 0 .. Len(dlyWait)
  BY DelayLists, ListFacts, FlushCounts
<1>2. dlyJob.pc \notin {"entries", "abort"} => dlyJob.taken = <<>>
  BY DEF DelayInv, DelayTask
<1>3. \A n \in 0 .. Len(dlyWait) : SubSeq(dlyWait, 1, n) \in Seq(DelayNums)
  BY <1>1, ListSplit DEF IsList
<1>4. CASE DrainDelays
  <2> DEFINE n == IF dlyJob.kind = "reset" THEN Len(dlyWait) ELSE IF IsFlush(dlyJob.kind) THEN FlushTake ELSE 0
  <2>1. /\ dlyJob' = [dlyJob EXCEPT !.pc = "entries", !.taken = SubSeq(dlyWait, 1, n)]
        /\ dlyWait' = SubSeq(dlyWait, n + 1, Len(dlyWait)) /\ dlyMode = "delay" /\ dlyJob.pc = "drain"
        /\ UNCHANGED <<dlyMode, dlyTopic, delayTimerVars, dlySent, dlyDone, dlyGone>>
    BY <1>4 DEF DrainDelays
  <2>2. n \in 0 .. Len(dlyWait)
    BY <1>1
  <2> HIDE DEF n
  <2>3. /\ dlyJob' \in DelayJobs /\ dlyJob'.pc = "entries" /\ dlyJob'.id = dlyJob.id /\ dlyJob'.kind = dlyJob.kind
        /\ dlyJob'.taken = SubSeq(dlyWait, 1, n) /\ dlyJob'.keep = dlyJob.keep
    BY <1>1, <1>3, <2>1, <2>2 DEF DelayJobs, DelayPcs
  <2>4. DelayOwed => DelayOwed'
    BY <2>1, <2>3 DEF DelayOwed
  <2>5. QED
    BY <1>2, <2>1, <2>2, <2>3, <2>4, FlushTakes
<1>5. CASE RateFlush /\ IsFlush(dlyJob.kind)
  <2>1. /\ dlyJob' = [dlyJob EXCEPT !.pc = "abort", !.taken = SubSeq(dlyWait, 1, FlushTake),
                                    !.left = Len(dlyWait) > FlushTake]
        /\ dlyWait' = SubSeq(dlyWait, FlushTake + 1, Len(dlyWait)) /\ dlyMode = "rate" /\ dlyJob.pc = "flush"
        /\ UNCHANGED <<dlyMode, dlyTopic, delayTimerVars, dlySent, dlyDone, dlyGone>>
    BY <1>5 DEF RateFlush
  <2>2. (Len(dlyWait) > FlushTake) \in BOOLEAN
    OBVIOUS
  <2>3. /\ dlyJob' \in DelayJobs /\ dlyJob'.pc = "abort" /\ dlyJob'.id = dlyJob.id /\ dlyJob'.kind = dlyJob.kind
        /\ dlyJob'.taken = SubSeq(dlyWait, 1, FlushTake) /\ dlyJob'.keep = dlyJob.keep
    BY <1>1, <1>3, <2>1, <2>2 DEF DelayJobs, DelayPcs
  <2>4. DelayOwed => DelayOwed'
    BY <2>1, <2>3 DEF DelayOwed
  <2>5. QED
    BY <1>1, <1>2, <2>1, <2>3, <2>4, FlushTakes
<1>6. CASE QueueFlush
  <2>1. /\ dlyJob' = [dlyJob EXCEPT !.pc = "entries", !.taken = SubSeq(dlyWait, 1, FlushTake)]
        /\ dlyWait' = SubSeq(dlyWait, FlushTake + 1, Len(dlyWait)) /\ dlyMode \in {"queue", "timed"}
        /\ dlyJob.pc = "control" /\ UNCHANGED <<dlyMode, dlyTopic, delayTimerVars, dlySent, dlyDone, dlyGone>>
    BY <1>6 DEF QueueFlush
  <2>2. /\ dlyJob' \in DelayJobs /\ dlyJob'.pc = "entries" /\ dlyJob'.id = dlyJob.id /\ dlyJob'.kind = dlyJob.kind
        /\ dlyJob'.taken = SubSeq(dlyWait, 1, FlushTake) /\ dlyJob'.keep = dlyJob.keep
    BY <1>1, <1>3, <2>1 DEF DelayJobs, DelayPcs
  <2>3. DelayOwed => DelayOwed'
    BY <2>1, <2>2 DEF DelayOwed
  <2>4. QED
    BY <1>1, <1>2, <2>1, <2>2, <2>3, FlushTakes
<1>7. CASE RateFlush /\ ~IsFlush(dlyJob.kind)
  <2>1. /\ "reset" \in DelayPcs /\ Goto("reset") /\ dlyMode = "rate" /\ dlyJob.pc = "flush"
        /\ UNCHANGED <<dlyMode, dlyTopic, dlyWait, delayTimerVars, dlySent, dlyDone, dlyGone>>
    BY <1>7 DEF RateFlush, DelayPcs
  <2>2. /\ dlyJob' \in DelayJobs /\ dlyJob'.pc = "reset" /\ dlyJob'.id = dlyJob.id /\ dlyJob'.kind = dlyJob.kind
        /\ dlyJob'.taken = dlyJob.taken /\ dlyJob'.keep = dlyJob.keep
    BY <1>1, <2>1, JobGoes
  <2>3. ~DelayFresh' /\ (DelayOwed => DelayOwed')
    BY <2>1, <2>2 DEF DelayFresh, DelayOwed
  <2>4. QED
    BY <1>2, <2>1, <2>2, <2>3, DelayLists, JobOnly DEF delayTimerVars, TimerOk
<1>8. QED
  BY <1>4, <1>5, <1>6, <1>7

(* The handler is done with what it took, or with its message.              *)
LEMMA EntriesKeep == ASSUME DelayInv, DelayEntry \/ FlushEntry PROVE DelayInv'
<1>1. CASE dlyJob.taken # <<>>
  <2>1. /\ dlyJob.pc = "entries" /\ dlyJob' = [dlyJob EXCEPT !.taken = Tail(@)] /\ Completed({Head(dlyJob.taken)})
        /\ SendPort0(Head(dlyJob.taken)) \/ dlySent' = dlySent
        /\ UNCHANGED <<dlyMode, dlyTopic, dlyWait, delayTimerVars, dlyGone>>
    BY <1>1 DEF DelayEntry, FlushEntry, TrySend, Refused
  <2>2. QED
    BY <1>1, <2>1, EntryGoes
<1>2. CASE dlyJob.taken = <<>>
  <2>1. /\ dlyMode = "delay" /\ dlyJob.pc = "entries" /\ dlyJob' = DelayIdle /\ dlySent' = dlySent
        /\ Completed(IF IsData(dlyJob.kind) THEN {} ELSE {dlyJob.id})
        /\ UNCHANGED <<dlyMode, dlyTopic, dlyWait, delayTimerVars, dlyGone>>
    BY <1>2 DEF DelayEntry, FlushEntry
  <2>2. dlyDone \subseteq dlyDone' /\ (dlyJob.kind \in {"flush", "flush_one"} => dlyJob.id \in dlyDone')
    BY <2>1 DEF Completed, IsData
  <2>3. dlyJob.id \in dlyDone' \/ ~DelayOwed
    BY <2>1, <2>2 DEF DelayOwed
  <2>4. dlyHeld' = dlyHeld /\ TimerOk' /\ dlyGone' = dlyGone
    BY <2>1, DelayLists DEF delayTimerVars, TimerOk
  <2>5. QED
    BY <1>2, <2>1, <2>2, <2>3, <2>4, DelayLists, DelayEnds
<1>3. QED
  BY <1>1, <1>2

(* A flush broken off by the stop: what it had taken is gone, and its own message
   is completed.                                                            *)
LEMMA BrokenKeeps == ASSUME DelayInv, BrokenFlush PROVE DelayInv'
<1>1. /\ dlyJob \in DelayJobs /\ IsList(dlyWait) /\ IsList(dlyHeld) /\ IsList(dlyJob.taken) /\ TimerOk
      /\ dlyTopic \in Seq(AnyTopic) /\ Len(dlyTopic) <= DelayMax
      /\ dlySent \in [DelayNums -> {0, 1}] /\ Listed = InWait \cup InHeld \cup InTaken
      /\ InWait \cap InHeld = {} /\ InWait \cap InTaken = {} /\ InHeld \cap InTaken = {}
  BY DelayLists
<1>2. /\ dlyMode' = dlyMode /\ dlyTopic' = dlyTopic /\ dlyHeld' = dlyHeld /\ dlyWait' = dlyWait /\ dlySent' = dlySent
      /\ dlyDone' = dlyDone \cup {dlyJob.id} /\ dlyGone' = dlyGone \cup (InTaken \ {dlyJob.id}) /\ TimerOk'
      /\ dlyJob.pc = "entries" /\ dlyJob' = DelayIdle
  BY <1>1 DEF BrokenFlush, Refused, delayTimerVars, TimerOk, Completed, InTaken
<1>3. dlyJob' \in DelayJobs /\ dlyJob'.pc = "idle" /\ dlyJob'.taken = <<>>
  BY <1>2, JobIdle
<1>4. IsList(dlyJob'.taken) /\ InTaken' = {} /\ InWait' = InWait /\ InHeld' = InHeld
  BY <1>2, <1>3, ListEmpty DEF InTaken, InWait, InHeld
<1>5. DelayTypes'
  BY <1>1, <1>2, <1>3, <1>4 DEF DelayTypes
<1>6. Listed' \subseteq Listed /\ Listed \subseteq Settled' /\ dlyJob.id \in Settled'
  BY <1>1, <1>2, <1>4 DEF Listed, Settled
<1>7. ~DelayFresh' /\ dlyJob.pc # "idle"
  BY <1>2, <1>3 DEF DelayFresh
<1>8. /\ InWait' \cap InHeld' = {} /\ InWait' \cap InTaken' = {} /\ InHeld' \cap InTaken' = {}
  BY <1>1, <1>4
<1>9. QED
  BY <1>2, <1>3, <1>5, <1>6, <1>7, <1>8, DelayMoves

(* reset in the rate, queue and timed modes; the end of a handler in rate mode. *)
LEMMA EndsKeep == ASSUME DelayInv, RateEnd \/ QueueReset PROVE DelayInv'
<1>1. /\ dlyJob \in DelayJobs /\ IsList(dlyWait) /\ IsList(dlyHeld) /\ IsList(dlyJob.taken) /\ TimerOk
      /\ dlyTopic \in Seq(AnyTopic) /\ Len(dlyTopic) <= DelayMax
      /\ dlySent \in [DelayNums -> {0, 1}] /\ Listed = InWait \cup InHeld \cup InTaken
      /\ InWait \cap InHeld = {} /\ InWait \cap InTaken = {} /\ InHeld \cap InTaken = {}
      /\ \A i \in DelayNums : i \in Listed => dlySent[i] = 0
  BY DelayLists
<1>2. dlyJob.taken = <<>> /\ dlyJob.pc # "idle" /\ dlyJob' = DelayIdle /\ UNCHANGED <<dlyMode, dlyTopic, dlySent>>
  BY DEF DelayInv, DelayTask, RateEnd, QueueReset
<1>3. CASE RateEnd
  <2>1. dlyDone \subseteq dlyDone' /\ (dlyJob.id \in dlyDone' \/ ~DelayOwed)
    BY <1>3 DEF RateEnd, Completed, DelayOwed
  <2>2. CASE dlyJob.kind = "reset"
    <3>1. /\ dlyHeld' = <<>> /\ dlyWait' = <<>> /\ dlyGone' = dlyGone \cup InWait \cup InHeld
          /\ dlyTimer' = IF dlyHandle THEN "off" ELSE dlyTimer
      BY <1>3, <2>2 DEF RateEnd, InWait, InHeld
    <3>2. TimerOk'
      BY <1>1, <3>1 DEF TimerOk
    <3>3. QED
      BY <1>1, <1>2, <2>1, <3>1, <3>2, ListEmpty, DelayEnds DEF InWait, InHeld
  <2>3. CASE dlyJob.kind # "reset"
    <3>1. UNCHANGED <<delayTimerVars, dlyWait, dlyGone>>
      BY <1>3, <2>3 DEF RateEnd
    <3>2. dlyHeld' = dlyHeld /\ TimerOk' /\ dlyGone' = dlyGone /\ dlyWait' = dlyWait
      BY <1>1, <3>1 DEF delayTimerVars, TimerOk
    <3>3. QED
      BY <1>1, <1>2, <2>1, <3>2, DelayEnds
  <2>4. QED
    BY <2>2, <2>3
<1>4. CASE QueueReset
  <2>1. dlyDone' = dlyDone \cup (InWait \cup {dlyJob.id}) /\ dlyWait' = <<>> /\ AbortTimer
    BY <1>4 DEF QueueReset, Completed, InWait
  <2>2. /\ IsList(dlyHeld') /\ TimerOk' /\ ToSet(dlyHeld') \subseteq ToSet(dlyHeld)
        /\ dlyGone \subseteq dlyGone' /\ ToSet(dlyHeld) \subseteq ToSet(dlyHeld') \cup dlyGone'
    BY <1>1, <2>1, AbortFacts
  <2>3. IsList(dlyWait') /\ ToSet(dlyWait') = {}
    BY <2>1, ListEmpty
  <2>4. QED
    BY <1>2, <2>1, <2>2, <2>3, DelayEnds DEF InWait
<1>5. QED
  BY <1>3, <1>4

(* The interval task.                                                       *)
LEMMA TimersKeep == ASSUME DelayInv, TimerTick \/ TimerSend \/ TimerCheck \/ TimerClear PROVE DelayInv'
<1>1. /\ dlyJob \in DelayJobs /\ IsList(dlyWait) /\ IsList(dlyHeld) /\ IsList(dlyJob.taken) /\ TimerOk
      /\ dlyTopic \in Seq(AnyTopic) /\ Len(dlyTopic) <= DelayMax
      /\ dlySent \in [DelayNums -> {0, 1}] /\ Listed = InWait \cup InHeld \cup InTaken
      /\ InWait \cap InHeld = {} /\ InWait \cap InTaken = {} /\ InHeld \cap InTaken = {}
      /\ \A i \in DelayNums : i \in Listed => dlySent[i] = 0
  BY DelayLists
<1>2. Len(dlyWait) \in Nat
  BY <1>1, ListFacts
<1>3. UNCHANGED <<dlyMode, dlyTopic, dlyJob>>
  BY DEF TimerTick, TimerSend, TimerCheck, TimerClear
<1>4. CASE TimerTick
  <2> DEFINE n == IF dlyWait = <<>> THEN 0 ELSE IF dlyMode = "timed" THEN Len(dlyWait) ELSE 1
  <2>1. /\ dlyHeld' = SubSeq(dlyWait, 1, n) /\ dlyWait' = SubSeq(dlyWait, n + 1, Len(dlyWait))
        /\ dlyTimer' = (IF dlyMode = "rate" /\ n = 0 THEN "clear" ELSE "send") /\ dlyTimer = "tick"
        /\ UNCHANGED <<dlyHandle, dlySent, dlyDone, dlyGone>>
    BY <1>4 DEF TimerTick
  <2>2. n \in 0 .. Len(dlyWait)
    <3>1. dlyWait \in Seq(DelayNums)
      BY <1>1 DEF IsList
    <3>2. dlyWait # <<>> => Len(dlyWait) \in Nat \ {0}
      BY <3>1, EmptySeq
    <3>3. QED
      BY <1>2, <3>2
  <2> HIDE DEF n
  <2>3. /\ IsList(SubSeq(dlyWait, 1, n)) /\ IsList(SubSeq(dlyWait, n + 1, Len(dlyWait)))
        /\ ToSet(SubSeq(dlyWait, 1, n)) \cap ToSet(SubSeq(dlyWait, n + 1, Len(dlyWait))) = {}
        /\ ToSet(SubSeq(dlyWait, 1, n)) \cup ToSet(SubSeq(dlyWait, n + 1, Len(dlyWait))) = ToSet(dlyWait)
    BY <1>1, <2>2, ListSplit
  <2>4. /\ IsList(dlyHeld') /\ IsList(dlyWait') /\ ToSet(dlyHeld') \cap ToSet(dlyWait') = {}
        /\ ToSet(dlyHeld') \cup ToSet(dlyWait') = InWait
    BY <2>1, <2>3 DEF InWait
  <2>5. dlyHeld = <<>> /\ InHeld = {} /\ dlyHandle = TRUE
    BY <1>1, <2>1, ListEmpty DEF TimerOk, InHeld
  <2>6. TimerOk'
    <3>1. n = 0 => dlyHeld' = <<>>
      BY <2>1, SubSeqEmpty
    <3>2. QED
      BY <2>1, <2>5, <3>1 DEF TimerOk
  <2>7. QED
    BY <1>1, <1>3, <2>1, <2>4, <2>5, <2>6, TaskMoves
<1>5. CASE TimerSend
  <2> DEFINE x == Head(dlyHeld)
  <2>1. /\ SendPort0(x) \/ dlySent' = dlySent
        /\ dlyDone' = dlyDone \cup {x} /\ dlyHeld' = Tail(dlyHeld) /\ dlyHeld # <<>>
        /\ dlyTimer = "send" /\ UNCHANGED <<dlyWait, dlyTimer, dlyHandle, dlyGone>>
    BY <1>5 DEF TimerSend, Completed, TrySend, Refused
  <2>2. x \in InHeld /\ x \in DelayNums /\ IsList(Tail(dlyHeld)) /\ ToSet(Tail(dlyHeld)) = InHeld \ {x}
    BY <1>1, <2>1, ListTail DEF InHeld
  <2> HIDE DEF x
  <2>3. dlySent' \in [DelayNums -> {0, 1}] /\ \A i \in DelayNums : dlySent'[i] = dlySent[i] \/ i = x
    <3>1. dlySent[x] = 0
      BY <1>1, <2>2
    <3>2. QED
      BY <1>1, <2>1, <2>2, <3>1, SentNow
  <2>4. TimerOk'
    BY <1>1, <2>1 DEF TimerOk
  <2>5. \A i \in DelayNums : dlySent'[i] = dlySent[i] \/ (i \in Listed /\ i \notin InWait \cup (InHeld \ {x}) \cup InTaken)
    BY <1>1, <2>2, <2>3
  <2>6. ToSet(dlyHeld') = InHeld \ {x} /\ ToSet(dlyWait') = InWait /\ IsList(dlyHeld') /\ IsList(dlyWait')
    BY <1>1, <2>1, <2>2 DEF InWait
  <2>7. QED
    BY <1>1, <1>3, <2>1, <2>2, <2>3, <2>4, <2>5, <2>6, TaskMoves
<1>6. CASE TimerCheck \/ TimerClear
  <2>1. /\ UNCHANGED <<dlyWait, dlyHeld, dlySent, dlyDone, dlyGone>> /\ dlyTimer' \in {"tick", "clear", "off"}
        /\ dlyTimer' = "tick" => dlyTimer = "send" /\ dlyHandle' = dlyHandle
        /\ dlyTimer = "send" => dlyHeld = <<>>
    BY <1>6 DEF TimerCheck, TimerClear
  <2>2. TimerOk'
    BY <1>1, <2>1 DEF TimerOk
  <2>3. ToSet(dlyHeld') = InHeld /\ ToSet(dlyWait') = InWait
    BY <2>1 DEF InHeld, InWait
  <2>4. QED
    BY <1>1, <1>3, <2>1, <2>2, <2>3, TaskMoves
<1>7. QED
  BY <1>4, <1>5, <1>6

(* A sleeping message wakes up, and claims itself; the node is stopped.     *)
LEMMA SleepersKeep ==
  ASSUME DelayInv, DelayStop \/ \E i \in DelayNums : DelayWake(i) \/ DelayFire(i)
  PROVE  DelayInv'
<1>1. /\ dlyJob \in DelayJobs /\ IsList(dlyWait) /\ IsList(dlyHeld) /\ IsList(dlyJob.taken) /\ TimerOk
      /\ dlyTopic \in Seq(AnyTopic) /\ Len(dlyTopic) <= DelayMax
      /\ dlySent \in [DelayNums -> {0, 1}] /\ Listed = InWait \cup InHeld \cup InTaken
      /\ InWait \cap InHeld = {} /\ InWait \cap InTaken = {} /\ InHeld \cap InTaken = {}
      /\ \A i \in DelayNums : i \in Listed => dlySent[i] = 0
  BY DelayLists
<1>2. UNCHANGED <<dlyMode, dlyTopic, dlyJob>>
  BY DEF DelayStop, DelayWake, DelayFire
<1>3. CASE DelayStop \/ \E i \in DelayNums : DelayWake(i)
  <2>1. /\ UNCHANGED <<dlyWait, dlyHeld, dlyHandle, dlySent, dlyDone>> /\ dlyGone \subseteq dlyGone'
        /\ dlyTimer' = dlyTimer \/ (dlyTimer = "tick" /\ dlyTimer' = "off")
    BY <1>3 DEF DelayStop, DelayWake, delayTimerVars
  <2>2. TimerOk'
    BY <1>1, <2>1 DEF TimerOk
  <2>3. ToSet(dlyHeld') = InHeld /\ ToSet(dlyWait') = InWait
    BY <2>1 DEF InHeld, InWait
  <2>4. QED
    BY <1>1, <1>2, <2>1, <2>2, <2>3, TaskMoves
<1>4. ASSUME NEW x \in DelayNums, DelayFire(x) PROVE DelayInv'
  <2>1. /\ dlyWait' = RemoveFirst(dlyWait, x) /\ dlyHeld' = dlyHeld /\ dlyGone' = dlyGone /\ TimerOk'
        /\ IF x \in InWait THEN (SendPort0(x) \/ dlySent' = dlySent) /\ dlyDone' = dlyDone \cup {x}
           ELSE UNCHANGED <<dlySent, dlyDone>>
    BY <1>1, <1>4 DEF DelayFire, TakePending, Completed, InWait, delayTimerVars, TimerOk, TrySend, Refused
  <2>2. IsList(dlyWait') /\ ToSet(dlyWait') = InWait \ {x} /\ ToSet(dlyHeld') = InHeld
    BY <1>1, <2>1, ListRemove DEF InWait, InHeld
  <2>3. CASE x \in InWait
    <3>1. dlySent' \in [DelayNums -> {0, 1}] /\ \A i \in DelayNums : dlySent'[i] = dlySent[i] \/ i = x
      BY <1>1, <2>1, <2>3, SentNow
    <3>2. \A i \in DelayNums : dlySent'[i] = dlySent[i] \/ (i \in Listed /\ i \notin (InWait \ {x}) \cup InHeld \cup InTaken)
      BY <1>1, <2>3, <3>1
    <3>3. dlyDone' = dlyDone \cup {x}
      BY <2>1, <2>3
    <3>4. QED
      BY <1>1, <1>2, <2>1, <2>2, <2>3, <3>1, <3>2, <3>3, TaskMoves
  <2>4. CASE x \notin InWait
    <3>1. dlySent' = dlySent /\ dlyDone' = dlyDone /\ InWait \ {x} = InWait
      BY <2>1, <2>4
    <3>2. QED
      BY <1>1, <1>2, <2>1, <2>2, <3>1, TaskMoves
  <2>5. QED
    BY <2>3, <2>4
<1>5. QED
  BY <1>3, <1>4

(* The first of some places in a list.                                      *)
LEMMA LeastIs ==
  ASSUME NEW n \in Nat, NEW S, S \subseteq 1 .. n, S # {}
  PROVE  \E k \in S : \A m \in S : k <= m
<1> DEFINE R == OpToRel(<, Nat)
<1>1. S \subseteq Nat
  OBVIOUS
<1>2. \E x \in S : \A y \in S : ~(<<y, x>> \in R)
  <2>1. IsWellFoundedOn(R, Nat)
    BY NatLessThanWellFounded
  <2> HIDE DEF R
  <2>2. QED
    BY <1>1, <2>1, WFMin
<1>3. PICK x \in S : \A y \in S : ~(<<y, x>> \in R)
  BY <1>2
<1>4. ASSUME NEW y \in S PROVE x <= y
  <2>1. x \in Nat /\ y \in Nat
    BY <1>1
  <2>2. ~(y < x)
    BY <1>3, <2>1 DEF OpToRel
  <2>3. QED
    BY <2>1, <2>2
<1>5. QED
  BY <1>4

LEMMA LeastOf ==
  ASSUME NEW n \in Nat, NEW S, S \subseteq 1 .. n, S # {}
  PROVE  (CHOOSE k \in S : \A m \in S : k <= m) \in S
BY LeastIs

(* Where the handler puts the message it has read.                          *)
LEMMA MessagePut ==
  ASSUME DelayInv,
         Schedule \/ RateBuffer \/ RateThrough \/ RateRefused \/ RateControl \/ RateDrop \/ QueuePut
  PROVE  DelayInv'
<1> DEFINE x == dlyJob.id
<1>1. /\ dlyJob \in DelayJobs /\ IsList(dlyWait) /\ IsList(dlyHeld) /\ IsList(dlyJob.taken) /\ TimerOk
      /\ dlyTopic \in Seq(AnyTopic) /\ Len(dlyTopic) <= DelayMax
      /\ dlySent \in [DelayNums -> {0, 1}] /\ Listed = InWait \cup InHeld \cup InTaken
      /\ InWait \cap InHeld = {} /\ InWait \cap InTaken = {} /\ InHeld \cap InTaken = {}
      /\ \A i \in DelayNums : i \in Listed => dlySent[i] = 0
  BY DelayLists
<1>2. /\ DelayFresh /\ dlyJob.pc # "idle" /\ dlyJob.pc \notin {"entries", "abort"}
      /\ UNCHANGED <<dlyMode, dlyTopic, dlyHeld>> /\ TimerOk'
  BY <1>1 DEF Schedule, RateBuffer, RateThrough, RateRefused, RateControl, RateDrop, QueuePut, DelayFresh,
              delayTimerVars, TimerOk
<1>3. /\ x \in DelayNums /\ x \notin Listed /\ dlySent[x] = 0 /\ dlyJob.taken = <<>>
      /\ dlyJob.pc = "start" => dlyJob.keep = FALSE
  BY <1>2 DEF DelayInv, DelayTask
<1>4. x \notin ToSet(dlyWait) /\ InTaken = {} /\ InHeld' = InHeld /\ ToSet(<<>>) = {}
  BY <1>1, <1>2, <1>3, ListEmpty DEF InWait, InTaken, InHeld
<1>5. IsList(Append(dlyWait, x)) /\ ToSet(Append(dlyWait, x)) = ToSet(dlyWait) \cup {x}
  BY <1>1, <1>3, <1>4, ListAppend
<1>6. ASSUME dlyJob' \in DelayJobs, dlyJob'.taken = <<>>, dlyJob'.pc \notin {"start", "rate", "again", "control"}
                                                         \/ (dlyMode = "rate" /\ dlyJob'.pc # "start"),
             dlyJob'.pc # "idle" => dlyJob'.id = x, IsList(dlyWait'),
             ToSet(dlyWait') \subseteq ToSet(dlyWait) \cup {x},
             ToSet(dlyWait) \subseteq ToSet(dlyWait') \cup dlyDone' \cup dlyGone',
             dlyDone \subseteq dlyDone', dlyGone \subseteq dlyGone',
             \/ dlySent' = dlySent
             \/ SendPort0(x) /\ dlyWait' = dlyWait,
             x \in ToSet(dlyWait') \cup dlyDone' \cup dlyGone' \/ (dlyJob'.pc # "idle" /\ DelayOwed')
      PROVE  DelayInv'
  <2>1. dlySent' \in [DelayNums -> {0, 1}] /\ \A i \in DelayNums : dlySent'[i] = dlySent[i] \/ i = x
    BY <1>1, <1>3, <1>6, SentNow
  <2>2. IsList(dlyJob'.taken) /\ InTaken' = {} /\ InWait' = ToSet(dlyWait')
    BY <1>4, <1>6, ListEmpty DEF InTaken, InWait
  <2>3. DelayTypes'
    BY <1>1, <1>2, <1>6, <2>1, <2>2 DEF DelayTypes
  <2>4. Listed' = InWait' \cup InHeld' \cup InTaken' /\ Settled' = Listed' \cup dlyDone' \cup dlyGone'
    BY DEF Listed, Settled
  <2>5. InWait' \subseteq InWait \cup {x} /\ InWait \subseteq InWait' \cup dlyDone' \cup dlyGone'
    BY <1>6, <2>2 DEF InWait
  <2>6. Listed' \subseteq Listed \cup {x} /\ Listed \subseteq Settled'
    <3>1. InTaken' = {} /\ InTaken = {} /\ InHeld' = InHeld /\ Listed = InWait \cup InHeld \cup InTaken
      BY <1>1, <1>4, <2>2
    <3> HIDE DEF x
    <3>2. QED
      BY <2>4, <2>5, <3>1
  <2>7. InWait' \cap InHeld' = {} /\ InWait' \cap InTaken' = {} /\ InHeld' \cap InTaken' = {}
    BY <1>1, <1>3, <1>4, <2>2, <2>5
  <2>8. ~DelayFresh'
    BY <1>2, <1>6 DEF DelayFresh
  <2>9. x \in Settled' \/ (dlyJob'.pc # "idle" /\ DelayOwed')
    BY <1>6, <2>2, <2>4
  <2>10. \A i \in DelayNums : dlySent'[i] = dlySent[i] \/ (i = x /\ i \notin Listed')
    <3>1. CASE dlySent' = dlySent
      BY <3>1
    <3>2. CASE dlyWait' = dlyWait
      <4>1. x \notin Listed'
        BY <1>1, <1>3, <1>4, <2>2, <2>4, <3>2 DEF InWait
      <4>2. QED
        BY <2>1, <4>1
    <3>3. QED
      BY <1>6, <3>1, <3>2
  <2>11. QED
    BY <1>2, <1>6, <2>3, <2>6, <2>7, <2>8, <2>9, <2>10, DelayPuts
<1>7. CASE Schedule
  <2>1. "drain" \in DelayPcs /\ Goto("drain") /\ dlyMode = "delay" /\ UNCHANGED <<dlySent, dlyDone, dlyGone>>
    BY <1>7 DEF Schedule, DelayPcs
  <2>2. /\ dlyJob' \in DelayJobs /\ dlyJob'.pc = "drain" /\ dlyJob'.id = x /\ dlyJob'.kind = dlyJob.kind
        /\ dlyJob'.taken = dlyJob.taken /\ dlyJob'.keep = dlyJob.keep
    BY <1>1, <2>1, JobGoes
  <2>3. CASE IsData(dlyJob.kind)
    <3>1. dlyWait' = Append(dlyWait, x)
      BY <1>7, <2>3 DEF Schedule
    <3>2. QED
      BY <1>3, <1>5, <1>6, <2>1, <2>2, <3>1
  <2>4. CASE ~IsData(dlyJob.kind)
    <3>1. dlyWait' = dlyWait /\ DelayOwed'
      BY <1>2, <1>7, <2>1, <2>2, <2>4 DEF Schedule, IsData, DelayOwed
    <3>2. QED
      BY <1>1, <1>3, <1>6, <2>1, <2>2, <3>1
  <2>5. QED
    BY <2>3, <2>4
<1>8. CASE RateBuffer
  <2>1. dlyMode = "rate" /\ UNCHANGED <<dlySent, dlyDone>>
    BY <1>8 DEF RateBuffer
  <2>2. CASE dlyGone' = dlyGone \cup ToSet(dlyWait) \cup {x} /\ dlyWait' = <<>> /\ dlyJob' = DelayIdle
    BY <1>3, <1>4, <1>6, <2>1, <2>2, ListEmpty, JobIdle
  <2>3. CASE dlyWait' = Append(dlyWait, x) /\ Goto("rate") /\ dlyGone' = dlyGone
    <3>1. "rate" \in DelayPcs
      BY DEF DelayPcs
    <3>2. dlyJob' \in DelayJobs /\ dlyJob'.pc = "rate" /\ dlyJob'.id = x /\ dlyJob'.taken = dlyJob.taken
      BY <1>1, <2>3, <3>1, JobGoes
    <3>3. QED
      BY <1>3, <1>5, <1>6, <2>1, <2>3, <3>2
  <2>4. QED
    BY <1>8, <2>2, <2>3 DEF RateBuffer, Goto
<1>9. CASE RateThrough \/ RateControl
  <2>1. PICK p \in {"ensure", "flush"} : dlyJob' = [dlyJob EXCEPT !.pc = p, !.keep = TRUE]
    BY <1>9 DEF RateThrough, RateControl
  <2>2. dlyMode = "rate" /\ UNCHANGED <<dlyWait, dlyDone, dlyGone>> /\ (dlySent' = dlySent \/ SendPort0(x))
    BY <1>9 DEF RateThrough, RateControl
  <2>3. dlyJob' \in DelayJobs /\ dlyJob'.pc = p /\ dlyJob'.id = x /\ dlyJob'.taken = dlyJob.taken /\ dlyJob'.keep = TRUE
    BY <1>1, <2>1 DEF DelayJobs, DelayPcs
  <2>4. DelayOwed'
    BY <1>2, <2>2, <2>3 DEF DelayOwed
  <2>5. QED
    BY <1>1, <1>3, <1>6, <2>2, <2>3, <2>4
<1>10. CASE RateDrop \/ RateRefused
  <2>1. /\ dlyJob' = DelayIdle /\ dlyDone' = dlyDone \cup {x} /\ UNCHANGED <<dlyWait, dlyGone>>
        /\ dlySent' = dlySent \/ SendPort0(x)
    BY <1>10 DEF RateDrop, RateRefused, Completed, TrySend, Refused
  <2>2. QED
    BY <1>1, <1>6, <2>1, JobIdle
<1>11. CASE QueuePut
  <2> DEFINE old == SameTopic(x)
             k == CHOOSE n \in old : \A m \in old : n <= m
  <2>1. /\ dlyWait' = (IF old = {} THEN Append(dlyWait, x) ELSE [dlyWait EXCEPT ![k] = x])
        /\ dlyDone' = dlyDone \cup {dlyWait[n] : n \in old} /\ UNCHANGED <<dlySent, dlyGone>>
        /\ "queued" \in DelayPcs /\ Goto("queued")
    BY <1>11 DEF QueuePut, Completed, DelayPcs
  <2>2. dlyJob' \in DelayJobs /\ dlyJob'.pc = "queued" /\ dlyJob'.id = x /\ dlyJob'.taken = dlyJob.taken
    BY <1>1, <2>1, JobGoes
  <2>3. CASE old = {}
    BY <1>3, <1>5, <1>6, <2>1, <2>2, <2>3
  <2>4. CASE old # {}
    <3>1. old \subseteq 1 .. Len(dlyWait) /\ Len(dlyWait) \in Nat
      BY <1>1, ListFacts DEF SameTopic
    <3>2. k \in old
      BY <2>4, <3>1, LeastOf
    <3> HIDE DEF k, old
    <3>3. k \in 1 .. Len(dlyWait) /\ x \in DelayNums /\ x \notin ToSet(dlyWait) /\ IsList(dlyWait)
      BY <1>1, <1>3, <1>4, <3>1, <3>2
    <3>4. dlyWait' = [dlyWait EXCEPT ![k] = x] /\ dlyWait[k] \in dlyDone'
      BY <2>1, <2>4, <3>2
    <3>5. /\ IsList(dlyWait') /\ ToSet(dlyWait') = (ToSet(dlyWait) \ {dlyWait[k]}) \cup {x}
      <4> HIDE DEF x
      <4>1. dlyWait \in Seq(DelayNums) /\ ToSet(dlyWait) = {dlyWait[i] : i \in 1 .. Len(dlyWait)}
        BY <3>3, ListFacts
      <4>2. /\ dlyWait' \in Seq(DelayNums) /\ Len(dlyWait') = Len(dlyWait)
            /\ \A j \in 1 .. Len(dlyWait) : dlyWait'[j] = IF j = k THEN x ELSE dlyWait[j]
        BY <3>3, <3>4, <4>1, ExceptSeq
      <4>3. IsList(dlyWait')
        BY <3>3, <4>1, <4>2 DEF IsList
      <4>4. ToSet(dlyWait') = {dlyWait'[i] : i \in 1 .. Len(dlyWait')}
        BY <4>3, ListFacts
      <4>5. ToSet(dlyWait') = (ToSet(dlyWait) \ {dlyWait[k]}) \cup {x}
        BY <3>3, <4>1, <4>2, <4>4 DEF IsList
      <4>6. QED
        BY <4>3, <4>5
    <3>6. /\ ToSet(dlyWait') \subseteq ToSet(dlyWait) \cup {x} /\ x \in ToSet(dlyWait')
          /\ ToSet(dlyWait) \subseteq ToSet(dlyWait') \cup dlyDone' \cup dlyGone'
      BY <3>4, <3>5
    <3>7. QED
      BY <1>3, <1>6, <2>1, <2>2, <3>5, <3>6
  <2>5. QED
    BY <2>3, <2>4
<1>12. QED
  BY <1>7, <1>8, <1>9, <1>10, <1>11

(* A message is received: it is the next number, which nothing has yet.     *)
LEMMA ReceiveKeeps ==
  ASSUME DelayInv, NEW kind \in DelayKinds, NEW topic \in AnyTopic, NEW rate \in DelayRates,
         DelayReceive(kind, topic, rate)
  PROVE  DelayInv'
<1>1. /\ dlyJob \in DelayJobs /\ IsList(dlyWait) /\ IsList(dlyHeld) /\ TimerOk
      /\ dlyTopic \in Seq(AnyTopic) /\ dlySent \in [DelayNums -> {0, 1}]
      /\ Listed = InWait \cup InHeld \cup InTaken /\ InWait \cap InHeld = {}
  BY DelayLists
<1>2. /\ dlyJob.pc = "idle" /\ Len(dlyTopic) < DelayMax /\ dlyTopic' = Append(dlyTopic, topic)
      /\ dlyJob' = [pc |-> "start", id |-> Len(dlyTopic) + 1, kind |-> kind, rate |-> rate,
                    taken |-> <<>>, keep |-> FALSE, left |-> FALSE]
      /\ UNCHANGED <<dlyMode, dlyWait, dlyHeld, dlyTimer, dlyHandle, dlySent, dlyDone, dlyGone>>
  BY DEF DelayReceive, delayTimerVars
<1>3. /\ Len(dlyTopic) \in Nat /\ dlyTopic' \in Seq(AnyTopic) /\ Len(dlyTopic') = Len(dlyTopic) + 1
  <2>1. Len(dlyTopic) \in Nat
    BY <1>1, LenProperties
  <2>2. /\ Append(dlyTopic, topic) \in Seq(AnyTopic)
        /\ Len(Append(dlyTopic, topic)) = Len(dlyTopic) + 1
    BY <1>1, AppendProperties
  <2>3. QED
    BY <1>2, <2>1, <2>2, Zenon
<1>4. /\ dlyJob' \in DelayJobs /\ dlyJob'.pc = "start" /\ dlyJob'.id = Len(dlyTopic') /\ dlyJob'.taken = <<>>
      /\ dlyJob'.keep = FALSE
  <2>1. <<>> \in Seq(DelayNums)
    BY EmptySeq
  <2>2. "start" \in DelayPcs
    BY DEF DelayPcs
  <2>3. /\ dlyJob'.pc = "start" /\ dlyJob'.id = Len(dlyTopic) + 1 /\ dlyJob'.taken = <<>>
        /\ dlyJob'.keep = FALSE
    BY <1>2
  <2>4. Len(dlyTopic) + 1 \in Nat
    <3>1. Len(dlyTopic) \in Nat
      BY <1>3, Zenon
    <3>2. QED
      BY <3>1
  <2>5. dlyJob' \in DelayJobs
    BY <1>2, <2>1, <2>2, <2>4 DEF DelayJobs
  <2>6. QED
    BY <1>3, <2>3, <2>5
<1>5. dlyJob.taken = <<>> /\ InTaken = {} /\ InTaken' = {} /\ IsList(dlyJob'.taken)
  BY <1>2, <1>4, ListEmpty DEF DelayInv, DelayTask, InTaken
<1>6. InWait' = InWait /\ InHeld' = InHeld /\ TimerOk'
  BY <1>1, <1>2 DEF InWait, InHeld, TimerOk
<1>7. Listed' = Listed /\ Settled' = Settled
  <2>1. Listed' = Listed
    BY <1>1, <1>5, <1>6 DEF Listed
  <2>2. QED
    BY <1>2, <2>1 DEF Settled
<1>8. DelayTypes'
  <2>1. Len(dlyTopic') <= DelayMax
    <3>1. Len(dlyTopic) \in Nat /\ Len(dlyTopic) < DelayMax /\ Len(dlyTopic') = Len(dlyTopic) + 1 /\ DelayMax \in Nat
      BY <1>2, <1>3, DelayAssumption, Zenon
    <3>2. QED
      BY <3>1
  <2>2. QED
    BY <2>1, <1>1, <1>2, <1>3, <1>4, <1>5, DelayAssumption DEF DelayTypes
<1>9. /\ Len(dlyTopic') \in DelayNums /\ Len(dlyTopic') \notin 1 .. Len(dlyTopic)
      /\ 1 .. Len(dlyTopic') = (1 .. Len(dlyTopic)) \cup {Len(dlyTopic')}
  BY <1>2, <1>3, DelayAssumption DEF DelayNums
<1>10. Len(dlyTopic') \notin Listed /\ dlySent[Len(dlyTopic')] = 0
  BY <1>1, <1>9 DEF DelayInv, DelayPlaces
<1>11. DelayPlaces'
  <2>1. Listed' \subseteq 1 .. Len(dlyTopic')
    BY <1>7, <1>9 DEF DelayInv, DelayPlaces
  <2>2. ASSUME NEW i \in DelayNums, dlySent'[i] # 0 PROVE i \in (1 .. Len(dlyTopic')) \ Listed'
    BY <1>2, <1>7, <1>9, <2>2 DEF DelayInv, DelayPlaces
  <2>3. QED
    BY <1>1, <1>5, <1>6, <2>1, <2>2 DEF DelayPlaces
<1>12. DelayTask'
  BY <1>2, <1>4, <1>6, <1>7, <1>9, <1>10 DEF DelayTask, TimerOk
<1>13. DelayCovers'
  <2>1. DelayOwed'
    BY <1>4 DEF DelayOwed
  <2>2. \A i \in 1 .. Len(dlyTopic) : i \in Settled
    BY <1>2 DEF DelayInv, DelayCovers
  <2>3. QED
    BY <1>4, <1>7, <1>9, <2>1, <2>2 DEF DelayCovers
<1>14. QED
  BY <1>8, <1>11, <1>12, <1>13 DEF DelayInv

(* Before the stop, nothing is dropped in the delay-like modes and in drop.  *)
DropsNone == dlyMode \in {"delay", "drop"} /\ ~dlyStop => dlyGone = {}

LEMMA DropsStep == ASSUME DropsNone, [DelayNext]_delayVars PROVE DropsNone'
<1>1. CASE DelayHandler
  BY <1>1 DEF DelayHandler, DropsNone, Schedule, DrainDelays, DelayEntry, BrokenFlush, RateDrop, RateBuffer, RateThrough,
              RateRefused, RateControl, ChangeRate, RateEnsure, RateFlush, RateAbort, FlushEntry, RateRestart, RateEnd,
              QueueStart, QueueAgain, QueueReset, QueueFlush, QueueFlushed, QueuePut, QueueEnsure, Refused
<1>2. CASE DelayTimers
  BY <1>2 DEF DelayTimers, DropsNone, TimerTick, TimerSend, TimerCheck, TimerClear, DelayWake, DelayFire
<1>3. ASSUME NEW k \in DelayKinds, NEW t \in ReadTopics, NEW r \in DelayRates, DelayReceive(k, t, r) PROVE DropsNone'
  BY <1>3 DEF DelayReceive, DropsNone
<1>4. CASE DelayStop \/ UNCHANGED delayVars
  BY <1>4 DEF DelayStop, delayVars, DropsNone
<1>5. QED
  BY <1>1, <1>2, <1>3, <1>4 DEF DelayNext

(* In every mode, for any buffer limit, rates and topics, and whichever of a
   message's own timer, the interval, a flush, a reset and the stop gets to it
   first: it leaves through the first output at most once, and between two
   messages each received one waits, is held by a timer, has completed or was
   dropped where the code drops it, which the delay-like modes and drop do from
   the stop on only.                                                        *)
THEOREM DelayIsExact == DelaySpec => []DelayExact
<1>1. DelayInit => DelayInv
  <2> SUFFICES ASSUME DelayInit PROVE DelayInv
    OBVIOUS
  <2>1. /\ dlyJob \in DelayJobs /\ dlyJob.pc = "idle" /\ dlyJob.taken = <<>>
        /\ dlyWait = <<>> /\ dlyHeld = <<>> /\ dlyTopic = <<>> /\ dlyTimer = "off"
    BY JobIdle DEF DelayInit
  <2>2. <<>> \in Seq(AnyTopic) /\ Len(<<>>) = 0
    BY EmptySeq
  <2>3. dlySent \in [DelayNums -> {0, 1}] /\ \A i \in DelayNums : dlySent[i] = 0
    BY DEF DelayInit, DelayNums
  <2>4. DelayTypes
    BY <2>1, <2>2, <2>3, ListEmpty, DelayAssumption DEF DelayTypes
  <2>5. InWait = {} /\ InHeld = {} /\ InTaken = {} /\ Listed = {}
    BY <2>1, ListEmpty DEF InWait, InHeld, InTaken, Listed
  <2>6. DelayPlaces /\ DelayTask /\ DelayCovers
    BY <2>1, <2>2, <2>3, <2>5 DEF DelayPlaces, DelayTask, DelayCovers, DelayFresh
  <2>7. QED
    BY <2>4, <2>6 DEF DelayInv
<1>2. DelayInv /\ [DelayNext]_delayVars => DelayInv'
  <2> SUFFICES ASSUME DelayInv, [DelayNext]_delayVars PROVE DelayInv'
    OBVIOUS
  <2>1. ASSUME NEW k \in DelayKinds, NEW t \in ReadTopics, NEW r \in DelayRates, DelayReceive(k, t, r) PROVE DelayInv'
    <3>1. t \in AnyTopic
      BY Zenon DEF ReadTopics, AnyTopic
    <3>2. QED
      BY <2>1, <3>1, ReceiveKeeps
  <2>2. CASE DelayHandler
    BY <2>2, HandlerGoes, FlushesKeep, EntriesKeep, BrokenKeeps, EndsKeep, MessagePut DEF DelayHandler
  <2>3. CASE DelayTimers
    BY <2>3, TimersKeep, SleepersKeep DEF DelayTimers, DelayNums
  <2>4. CASE DelayStop
    BY <2>4, SleepersKeep
  <2>5. CASE UNCHANGED delayVars
    BY <2>5 DEF delayVars, delayTimerVars, DelayInv, DelayTypes, DelayPlaces, DelayTask, DelayCovers, DelayFresh,
                DelayOwed, InWait, InHeld, InTaken, Listed, Settled
  <2>6. QED
    BY <2>1, <2>2, <2>3, <2>4, <2>5 DEF DelayNext
<1>3. DelayInv /\ DropsNone => DelayExact
  <2> SUFFICES ASSUME DelayInv, DropsNone PROVE DelayExact
    OBVIOUS
  <2>1. \A i \in 1 .. DelayMax : dlySent[i] <= 1
    BY DEF DelayInv, DelayTypes, DelayNums
  <2>2. ASSUME dlyJob.pc = "idle", NEW i \in 1 .. Len(dlyTopic)
        PROVE  i \in ToSet(dlyWait) \cup ToSet(dlyHeld) \cup dlyDone \cup dlyGone
    <3>1. i \in Settled
      BY <2>2 DEF DelayInv, DelayCovers
    <3>2. InTaken = {}
      BY <2>2, ListEmpty DEF DelayInv, DelayTask, InTaken
    <3>3. QED
      BY <3>1, <3>2 DEF Settled, Listed, InWait, InHeld
  <2>3. QED
    BY <2>1, <2>2 DEF DelayExact, DropsNone
<1>4. DelayInit => DropsNone
  BY DEF DelayInit, DropsNone
<1>5. DropsNone /\ [DelayNext]_delayVars => DropsNone'
  BY DropsStep
<1>6. QED
  BY <1>1, <1>2, <1>3, <1>4, <1>5, PTL DEF DelaySpec

-----------------------------------------------------------------------------
(* SplitJoin.                                                               *)

(* The cases in which parts have a count.                                   *)
Whole == ~Streams /\ splKind # "binary"

SlotsOf(m) == {SlotOf(q) : q \in {r \in splParts : r.of = m}}

PartsSound ==
  /\ \A p \in splParts : p.id \in Nat /\ p.id <= splIds /\ p.of \in 1 .. Len(splIn) /\ p.count \in Nat
  /\ \A p, q \in splParts : p.id = q.id => /\ p.of = q.of /\ p.count = q.count
                                           /\ SlotOf(p) = SlotOf(q) => p.data = q.data

(* The parts of a message share an id, and there are no more of them than their count;
   or every part has an id of its own, and there is one when the count is one.  *)
PartCounts(p) ==
  \/ /\ \A q \in splParts : q.of = p.of => q.id = p.id
     /\ IsFiniteSet(SlotsOf(p.of)) /\ Cardinality(SlotsOf(p.of)) <= p.count
  \/ /\ \A q \in splParts : q.id = p.id => q = p
     /\ p.count <= 1 => \A q \in splParts : q.of = p.of => q = p

(* What stands in the slots of an id are parts of that id, and so is its count.  *)
FilledFrom(id, slots) ==
  \A i \in DOMAIN slots : \E p \in splParts : p.id = id /\ SlotOf(p) = i /\ p.data = slots[i]
CountedFrom(id, n) == n = 0 \/ \E p \in splParts : p.id = id /\ p.count = n
GroupInv == \A id \in Held : FilledFrom(id, joinGroups[id].slots) /\ CountedFrom(id, joinGroups[id].count)

SplitIn == [value : SplitValues, outer : {0, 1}]

(* What stands in a message that was sent is of the message it is said to be of; all of
   it, unless the message that came asked for it.                            *)
OutSound(o) ==
  /\ o.of \in 1 .. Len(splIn) /\ Pairs(o.slots) \subseteq PartsOfMessage(o.of)
  /\ ~o.asked => Pairs(o.slots) = PartsOfMessage(o.of)

(* The atoms that arrive.                                                   *)
Atoms == UNION {Range(v) : v \in SplitValues}

JoinInv ==
  /\ splIn \in Seq(SplitIn) /\ splChan \subseteq splParts
  /\ splIds \in Nat /\ splCounter \in Nat /\ splRest \in Seq(Atoms)
  /\ PartsSound
  /\ Whole => \A p \in splParts : PartCounts(p)
  /\ ~Whole => \A p \in splParts : p.count = 0
  /\ GroupInv
  /\ \A o \in joinOut : OutSound(o)

(* The last of some places in a list.                                       *)
LEMMA GreatestOf ==
  ASSUME NEW n \in Nat, NEW S, S \subseteq 1 .. n, S # {}
  PROVE  \E x \in S : \A y \in S : y <= x
<1> DEFINE T == {n + 1 - y : y \in S}
<1>0. \A y \in S : y \in Nat /\ 1 <= y /\ y <= n
  OBVIOUS
<1>1. T \subseteq 1 .. n /\ T # {}
  <2>1. \A y \in S : n + 1 - y \in 1 .. n
    BY <1>0
  <2>2. QED
    BY <2>1
<1>2. PICK t \in T : \A y \in T : t <= y
  <2> HIDE DEF T
  <2>1. QED
    BY <1>1, LeastIs
<1>3. PICK x \in S : t = n + 1 - x
  BY <1>2
<1>4. ASSUME NEW y \in S PROVE y <= x
  <2>1. n + 1 - y \in T
    BY <1>4
  <2> HIDE DEF T
  <2>2. n + 1 - x <= n + 1 - y
    BY <1>2, <1>3, <2>1
  <2>3. QED
    BY <1>0, <1>4, <2>2
<1>5. QED
  BY <1>4

(* Pieces: a sequence of them, of which the last is a sequence of atoms.    *)
LEMMA PiecesAre ==
  ASSUME NEW v \in Seq(Atoms)
  PROVE  /\ Len(Pieces(v)) \in Nat /\ DOMAIN Pieces(v) = 1 .. Len(Pieces(v))
         /\ (Pieces(v) # <<>> /\ Streams => Last(Pieces(v)) \in Seq(Atoms))
         /\ Pieces(v) = [i \in 1 .. Len(Pieces(v)) |-> Pieces(v)[i]]
<1>2. Len(v) \in Nat /\ DOMAIN v = 1 .. Len(v) /\ SplitLen \in Nat \ {0}
  BY SplitAssumption, LenProperties
<1>3. CASE ByLength \/ splKind = "array"
  <2> DEFINE n == (Len(v) + SplitLen - 1) \div SplitLen
             piece(i) == SubSeq(v, (i - 1) * SplitLen + 1, IF i * SplitLen < Len(v) THEN i * SplitLen ELSE Len(v))
  <2>1. n \in Nat
    BY <1>2
  <2>2. Pieces(v) = [i \in 1 .. n |-> piece(i)]
    BY <1>3 DEF Pieces, Chunks
  <2>3. ASSUME NEW i \in 1 .. n PROVE piece(i) \in Seq(Atoms)
    <3> DEFINE a == (i - 1) * SplitLen + 1
               b == IF i * SplitLen < Len(v) THEN i * SplitLen ELSE Len(v)
    <3>1. (i - 1) * SplitLen >= 0 /\ (i - 1) * SplitLen \in Int /\ i * SplitLen \in Int
      <4>1. i - 1 \in Nat /\ SplitLen \in Nat /\ i \in Nat
        BY <1>2, <2>1
      <4>2. QED
        BY <4>1
    <3>2. a \in Int /\ b \in Int /\ a >= 1 /\ b <= Len(v)
      BY <1>2, <3>1
    <3> HIDE DEF a, b
    <3>3. \A k \in a .. b : v[k] \in Atoms
      BY <1>2, <3>2, ElementOfSeq
    <3>4. SubSeq(v, a, b) \in Seq(Atoms)
      BY <3>2, <3>3, SubSeqProperties
    <3>5. QED
      BY <3>4 DEF a, b
  <2> HIDE DEF n, piece
  <2>4. Len(Pieces(v)) = n /\ DOMAIN Pieces(v) = 1 .. n
    BY <2>1, <2>2
  <2>5. Pieces(v) # <<>> => Last(Pieces(v)) = piece(n) /\ n \in 1 .. n
    <3>1. n = 0 => Pieces(v) = <<>>
      BY <2>2
    <3>2. n # 0 => n \in 1 .. n
      BY <2>1
    <3>3. n # 0 => Pieces(v)[n] = piece(n)
      BY <2>2, <3>2
    <3>4. QED
      BY <2>4, <3>1, <3>2, <3>3 DEF Last
  <2>6. Pieces(v) = [i \in 1 .. n |-> Pieces(v)[i]]
    BY <2>2
  <2>7. QED
    BY <2>1, <2>3, <2>4, <2>5, <2>6
<1>4. CASE ~ByLength /\ splKind = "object"
  <2>1. Pieces(v) = [i \in 1 .. Len(v) |-> <<v[i]>>]
    BY <1>2, <1>4 DEF Pieces
  <2>2. QED
    BY <1>2, <1>4, <2>1 DEF Streams
<1>5. CASE ~ByLength /\ splKind \notin {"array", "object"}
  <2> DEFINE cuts == {i \in DOMAIN v : v[i] = Delim}
             n == Cardinality(cuts)
             cut(i) == CHOOSE c \in cuts : Cardinality({d \in cuts : d <= c}) = i
             end(i) == IF i <= n THEN cut(i) - 1 ELSE Len(v)
             begin(i) == IF i = 1 THEN 1 ELSE cut(i - 1) + 1
             piece(i) == SubSeq(v, begin(i), end(i))
  <2>1. Pieces(v) = [i \in 1 .. n + 1 |-> piece(i)]
    BY <1>5 DEF Pieces, Fields
  <2>2. cuts \subseteq 1 .. Len(v) /\ IsFiniteSet(cuts) /\ n \in Nat
    <3>1. cuts \subseteq 1 .. Len(v) /\ IsFiniteSet(1 .. Len(v))
      BY <1>2, FS_Interval
    <3>2. QED
      BY <3>1, FS_Subset, FS_CardinalityType
  <2>3. n # 0 => cut(n) \in cuts
    <3> SUFFICES ASSUME n # 0 PROVE cut(n) \in cuts
      OBVIOUS
    <3>1. cuts # {}
      BY FS_EmptySet
    <3> HIDE DEF cuts
    <3>2. PICK x \in cuts : \A y \in cuts : y <= x
      BY <1>2, <2>2, <3>1, GreatestOf
    <3>3. {d \in cuts : d <= x} = cuts
      BY <3>2
    <3>4. Cardinality({d \in cuts : d <= x}) = n
      BY <3>3
    <3> HIDE DEF n
    <3>5. QED
      BY <3>2, <3>4
  <2>4. piece(n + 1) \in Seq(Atoms)
    <3>1. end(n + 1) = Len(v)
      BY <2>2
    <3>2. begin(n + 1) \in 1 .. Len(v) + 1
      <4>1. CASE n = 0
        BY <1>2, <4>1
      <4>2. CASE n # 0
        <5>1. n + 1 # 1 /\ n + 1 - 1 = n
          BY <2>2, <4>2
        <5>3. cut(n) \in 1 .. Len(v)
          BY <2>2, <2>3, <4>2
        <5>0. \A k : k # 1 => begin(k) = cut(k - 1) + 1
          BY Zenon
        <5> HIDE DEF n, cut, begin
        <5>2. begin(n + 1) = cut(n) + 1
          <6>1. PICK k : k = n + 1
            OBVIOUS
          <6>2. PICK j : j = k - 1
            OBVIOUS
          <6>3. begin(k) = cut(j) + 1
            BY <5>0, <5>1, <6>1, <6>2, Zenon
          <6>4. j = n
            BY <2>2, <6>1, <6>2
          <6>5. QED
            BY <6>1, <6>3, <6>4, Zenon
        <5>4. QED
          BY <1>2, <5>2, <5>3
      <4>3. QED
        BY <4>1, <4>2
    <3> HIDE DEF begin, end
    <3>3. \A k \in begin(n + 1) .. Len(v) : v[k] \in Atoms
      BY <1>2, <3>2, ElementOfSeq
    <3>4. SubSeq(v, begin(n + 1), Len(v)) \in Seq(Atoms)
      BY <1>2, <3>2, <3>3, SubSeqProperties
    <3>5. QED
      BY <3>1, <3>4
  <2> HIDE DEF n, piece
  <2>5. Len(Pieces(v)) = n + 1 /\ DOMAIN Pieces(v) = 1 .. n + 1
    BY <2>1, <2>2
  <2>6. Last(Pieces(v)) = piece(n + 1)
    BY <2>1, <2>2, <2>5 DEF Last
  <2>7. n + 1 \in Nat /\ Pieces(v) = [i \in 1 .. n + 1 |-> Pieces(v)[i]]
    BY <2>1, <2>2
  <2>8. QED
    BY <2>4, <2>5, <2>6, <2>7
<1>6. QED
  BY <1>3, <1>4, <1>5

(* The pieces that are sent are the first ones, all of them when parts have a count. *)
LEMMA EmittedAre ==
  ASSUME NEW ps, Len(ps) \in Nat, DOMAIN ps = 1 .. Len(ps), ps = [i \in 1 .. Len(ps) |-> ps[i]]
  PROVE  /\ Len(Emitted(ps)) \in Nat /\ Len(Emitted(ps)) <= Len(ps)
         /\ DOMAIN Emitted(ps) = 1 .. Len(Emitted(ps))
         /\ Whole => Emitted(ps) = ps
<1>1. Whole => Emitted(ps) = ps
  BY DEF Emitted, HeldBack, Whole
<1>2. CASE Emitted(ps) = ps
  BY <1>1, <1>2
<1>3. CASE Emitted(ps) # ps
  <2>1. Emitted(ps) = Front(ps) /\ ps # <<>>
    <3>1. CASE ps = <<>>
      <4>1. ~Whole /\ ~HeldBack(ps)
        BY <1>1, <1>3, <3>1 DEF HeldBack
      <4>2. Emitted(ps) = Front(ps)
        BY <1>3, <4>1 DEF Emitted
      <4>3. Front(ps) = ps
        BY <3>1 DEF Front
      <4>4. QED
        BY <1>3, <4>2, <4>3
    <3>2. CASE ps # <<>>
      BY <1>3, <3>2 DEF Emitted
    <3>3. QED
      BY <3>1, <3>2
  <2>2. Len(ps) # 0
    <3>1. Len(ps) = 0 => ps = <<>>
      OBVIOUS
    <3>2. QED
      BY <2>1, <3>1
  <2>3. Front(ps) = [i \in 1 .. Len(ps) - 1 |-> ps[i]]
    BY <2>2 DEF Front
  <2>4. Len(ps) - 1 \in Nat
    BY <2>2
  <2>5. Len(Front(ps)) = Len(ps) - 1 /\ DOMAIN Front(ps) = 1 .. Len(ps) - 1
    BY <2>3, <2>4
  <2>6. QED
    BY <1>1, <2>1, <2>4, <2>5
<1>4. QED
  BY <1>2, <1>3

(* A message that is split.                                                 *)
LEMMA SplitKeeps ==
  ASSUME JoinInv, NEW v \in SplitValues, NEW outer \in {0, 1}, SplitMessage(v, outer)
  PROVE  JoinInv'
<1> DEFINE ps == Pieces(FullValue(v))
           n == Len(ps)
           sent == Emitted(ps)
           e == Len(sent)
           cnt == IF Streams \/ splKind = "binary" THEN 0 ELSE n
           own == splKind \in {"object", "buffer", "binary"}
           first == IF splKind \in {"array", "object"} \/ (ByLength /\ ~Streams) THEN 0 ELSE splCounter
           part(i) == [id |-> splIds + (IF own THEN i ELSE 1), of |-> Len(splIn) + 1, index |-> first + i - 1,
                       count |-> cnt, data |-> sent[i], outer |-> 0]
           m == Len(splIn) + 1
           fresh == {part(i) : i \in 1 .. e}
<1>1. /\ n \in Nat /\ splIds \in Nat /\ splCounter \in Nat /\ splIn \in Seq(SplitIn) /\ Len(splIn) \in Nat
      /\ (ps # <<>> /\ Streams => Last(ps) \in Seq(Atoms)) /\ splRest \in Seq(Atoms)
      /\ DOMAIN ps = 1 .. n /\ ps = [i \in 1 .. n |-> ps[i]]
  <2>1. FullValue(v) \in Seq(Atoms)
    <3>1. v \in Seq(Atoms)
      <4>1. v \in Seq(Range(v)) /\ Range(v) \subseteq Atoms
        BY SplitAssumption DEF Atoms
      <4>2. QED
        BY <4>1, SeqMonotonic
    <3>2. splRest \o v \in Seq(Atoms)
      BY <3>1, ConcatProperties DEF JoinInv
    <3>3. QED
      BY <3>1, <3>2 DEF FullValue
  <2>2. splIn \in Seq(SplitIn) /\ Len(splIn) \in Nat
    BY LenProperties DEF JoinInv
  <2>3. QED
    BY <2>1, <2>2, PiecesAre DEF JoinInv
<1>2. e \in Nat /\ e <= n /\ DOMAIN sent = 1 .. e /\ (Whole => sent = ps)
  BY <1>1, EmittedAre
<1>3. PartsOf(ps) = fresh /\ (Whole => cnt = n /\ e = n) /\ (~Whole => cnt = 0) /\ cnt \in Nat
  BY <1>1, <1>2 DEF PartsOf, Whole
<1>4. /\ splParts' = splParts \cup fresh /\ splChan' = splChan \cup fresh
      /\ splCounter' = CounterAfter(ps) /\ splIds' = splIds + n + 1
      /\ splIn' = Append(splIn, [value |-> v, outer |-> outer])
      /\ UNCHANGED <<splKind, splStream, joinGroups, joinOut>>
  BY <1>3 DEF SplitMessage
<1>5. splIds' \in Nat /\ splIds' >= splIds + n + 1
  BY <1>1, <1>4
<1>6. splCounter' \in Nat
  <2>1. splCounter' \in {splCounter, e, 0, splCounter + e}
    BY <1>4 DEF CounterAfter
  <2>2. QED
    BY <1>1, <1>2, <2>1
<1>7. splIn' \in Seq(SplitIn) /\ Len(splIn') = m /\ 1 .. Len(splIn) \subseteq 1 .. Len(splIn') /\ m \in 1 .. Len(splIn') /\ m \notin 1 .. Len(splIn)
  <2>1. [value |-> v, outer |-> outer] \in SplitIn
    BY DEF SplitIn
  <2>2. splIn' \in Seq(SplitIn) /\ Len(splIn') = m
    BY <1>1, <1>4, <2>1, AppendProperties
  <2>3. QED
    BY <1>1, <2>2
<1>20. splRest' \in Seq(Atoms)
  <2>1. HeldBack(ps) => ps # <<>> /\ Streams
    BY DEF HeldBack
  <2>2. splRest' = RestAfter(ps) /\ <<>> \in Seq(Atoms)
    BY EmptySeq DEF SplitMessage
  <2>3. QED
    BY <1>1, <2>1, <2>2 DEF RestAfter
<1>8. Whole' = Whole /\ \A p : SlotOf(p)' = SlotOf(p)
  BY <1>4 DEF Whole, Streams, SlotOf
<1>9. first \in Nat
  BY <1>1
<1> HIDE DEF ps, first, sent, cnt
<1>10. \A i \in 1 .. e : /\ part(i).id \in Nat /\ part(i).id > splIds /\ part(i).id <= splIds' /\ part(i).of = m
                         /\ part(i).count = cnt /\ part(i).index = first + i - 1 /\ part(i).data = sent[i]
                         /\ part(i).id = splIds + (IF own THEN i ELSE 1)
  BY <1>1, <1>2, <1>4
<1> HIDE DEF n, e, part
<1>11. \A p \in fresh : p.id \in Nat /\ p.id > splIds /\ p.id <= splIds' /\ p.of = m /\ p.count = cnt
  BY <1>10
<1>12. \A p \in splParts : /\ p.id \in Nat /\ p.id <= splIds /\ p.of \in 1 .. Len(splIn) /\ p.of # m /\ p.count \in Nat
  BY <1>7 DEF JoinInv, PartsSound
<1>13. PartsSound'
  <2>1. \A p \in splParts' : p.id \in Nat /\ p.id <= splIds' /\ p.of \in 1 .. Len(splIn') /\ p.count \in Nat
    BY <1>1, <1>3, <1>4, <1>5, <1>7, <1>11, <1>12
  <2>2. ASSUME NEW p \in splParts', NEW q \in splParts', p.id = q.id
        PROVE  p.of = q.of /\ p.count = q.count /\ (SlotOf(p) = SlotOf(q) => p.data = q.data)
    <3>1. CASE p \in splParts /\ q \in splParts
      BY <2>2, <3>1 DEF JoinInv, PartsSound
    <3>2. CASE p \in fresh /\ q \in fresh
      <4>1. PICK i \in 1 .. e : p = part(i)
        BY <3>2
      <4>2. PICK k \in 1 .. e : q = part(k)
        BY <3>2
      <4>3. SlotOf(p) = SlotOf(q) => p.data = q.data
        <5>1. CASE splKind = "object"
          BY <5>1 DEF SlotOf
        <5>2. CASE splKind # "object"
          <6>1. ASSUME first + i - 1 = first + k - 1 PROVE i = k
            BY <1>1, <1>2, <1>9, <6>1
          <6>2. QED
            BY <1>10, <4>1, <4>2, <5>2, <6>1 DEF SlotOf
        <5>3. QED
          BY <5>1, <5>2
      <4>4. QED
        BY <1>11, <3>2, <4>3
    <3>3. ASSUME NEW a \in splParts, NEW b \in fresh PROVE a.id # b.id
      <4>1. a.id \in Nat /\ b.id \in Nat /\ a.id <= splIds /\ b.id > splIds
        BY <1>11, <1>12
      <4>2. QED
        BY <1>1, <4>1
    <3>4. QED
      BY <1>4, <2>2, <3>1, <3>2, <3>3
  <2>3. QED
    BY <1>8, <2>1, <2>2 DEF PartsSound
<1>14. \A k \in 1 .. Len(splIn) : {r \in splParts' : r.of = k} = {r \in splParts : r.of = k}
  BY <1>4, <1>7, <1>11
<1>15. {r \in splParts' : r.of = m} = fresh
  BY <1>4, <1>11, <1>12
<1>16. ASSUME Whole, NEW p \in splParts' PROVE PartCounts(p)'
  <2>1. CASE p \in splParts
    <3>1. PartCounts(p) /\ p.of \in 1 .. Len(splIn)
      BY <1>12, <1>16, <2>1 DEF JoinInv
    <3>2. \A q \in splParts' : q.of = p.of => q \in splParts
      BY <1>14, <3>1
    <3>3. \A q \in splParts' : q.id = p.id => q \in splParts
      <4>1. ASSUME NEW q \in fresh PROVE q.id # p.id
        <5>1. p.id \in Nat /\ q.id \in Nat /\ p.id <= splIds /\ q.id > splIds
          BY <1>11, <1>12, <2>1
        <5>2. QED
          BY <1>1, <5>1
      <4>2. QED
        BY <1>4, <4>1
    <3>4. SlotsOf(p.of)' = SlotsOf(p.of)
      BY <1>8, <1>14, <3>1 DEF SlotsOf
    <3>5. QED
      BY <3>1, <3>2, <3>3, <3>4 DEF PartCounts
  <2>2. CASE p \in fresh
    <3>1. PICK i \in 1 .. e : p = part(i)
      BY <2>2
    <3>0. cnt = n /\ e = n
      BY <1>3, <1>16
    <3>2. p.of = m /\ p.count = n /\ \A q \in splParts' : q.of = m => q \in fresh
      BY <1>11, <1>15, <2>2, <3>0
    <3>3. CASE own
      <4>1. ASSUME NEW q \in splParts', q.id = p.id PROVE q = p
        <5>1. q \in fresh
          <6>1. p.id > splIds /\ p.id \in Nat
            BY <1>11, <2>2
          <6>2. CASE q \in splParts
            <7>1. q.id \in Nat /\ q.id <= splIds
              BY <1>12, <6>2
            <7>2. QED
              BY <1>1, <4>1, <6>1, <7>1
          <6>3. QED
            BY <1>4, <6>2
        <5>2. PICK k \in 1 .. e : q = part(k)
          BY <5>1
        <5>3. splIds + i = splIds + k
          BY <1>10, <3>1, <3>3, <4>1, <5>2
        <5>4. i = k
          BY <1>1, <1>2, <5>3
        <5>5. QED
          BY <3>1, <5>2, <5>4
      <4>2. ASSUME n <= 1, NEW q \in splParts', q.of = m PROVE q = p
        <5>1. PICK k \in 1 .. e : q = part(k)
          BY <3>2, <4>2
        <5>2. i = k
          BY <1>1, <3>0, <4>2, <5>1
        <5>3. QED
          BY <3>1, <5>1, <5>2
      <4>3. QED
        BY <3>2, <4>1, <4>2 DEF PartCounts
    <3>4. CASE ~own
      <4>1. \A q \in splParts' : q.of = m => q.id = p.id
        BY <1>10, <3>1, <3>2, <3>4
      <4>2. SlotsOf(p.of)' \subseteq first .. first + n - 1
        <5>1. SlotsOf(p.of)' = {SlotOf(q) : q \in fresh}
          BY <1>8, <1>15, <3>2 DEF SlotsOf
        <5>2. ASSUME NEW k \in 1 .. e PROVE SlotOf(part(k)) \in first .. first + n - 1
          <6>1. SlotOf(part(k)) = first + k - 1
            BY <1>10, <3>4 DEF SlotOf
          <6>2. QED
            BY <1>1, <1>9, <3>0, <6>1
        <5>3. QED
          BY <5>1, <5>2
      <4>3. IsFiniteSet(first .. first + n - 1) /\ Cardinality(first .. first + n - 1) = n
        <5>1. first \in Int /\ first + n - 1 \in Int
          BY <1>1, <1>9
        <5>2. /\ IsFiniteSet(first .. first + n - 1)
              /\ Cardinality(first .. first + n - 1) = IF first > first + n - 1 THEN 0 ELSE (first + n - 1) - first + 1
          BY <5>1, FS_Interval
        <5>3. QED
          BY <1>1, <1>9, <5>2
      <4>4. IsFiniteSet(SlotsOf(p.of)') /\ Cardinality(SlotsOf(p.of)') <= n
        <5>1. PICK S : S = SlotsOf(p.of)'
          OBVIOUS
        <5>2. PICK T : T = first .. first + n - 1
          OBVIOUS
        <5>3. S \in SUBSET T /\ IsFiniteSet(T) /\ Cardinality(T) = n
          BY <4>2, <4>3, <5>1, <5>2
        <5>4. IsFiniteSet(S) /\ Cardinality(S) <= Cardinality(T)
          BY <5>3, FS_Subset, Zenon
        <5>5. QED
          BY <5>1, <5>3, <5>4
      <4>5. QED
        BY <3>2, <4>1, <4>4 DEF PartCounts
    <3>5. QED
      BY <3>3, <3>4
  <2>3. QED
    BY <1>4, <2>1, <2>2
<1>17. GroupInv'
  <2>1. splParts \subseteq splParts'
    BY <1>4
  <2>2. QED
    BY <1>4, <1>8, <2>1 DEF JoinInv, GroupInv, Held, FilledFrom, CountedFrom
<1>18. \A o \in joinOut' : OutSound(o)'
  BY <1>4, <1>7, <1>8, <1>14 DEF JoinInv, OutSound, Pairs, PartsOfMessage
<1>19. QED
  <2>1. splChan' \subseteq splParts'
    BY <1>4 DEF JoinInv
  <2>2. ~Whole => \A p \in splParts' : p.count = 0
    BY <1>3, <1>4, <1>11 DEF JoinInv
  <2>3. QED
    BY <1>5, <1>6, <1>7, <1>8, <1>13, <1>16, <1>17, <1>18, <1>20, <2>1, <2>2 DEF JoinInv

(* What a group holds once a part is filed.                                 *)
LEMMA FilledSound ==
  ASSUME JoinInv, NEW p \in splParts
  PROVE  /\ FilledFrom(p.id, Filled(p).slots) /\ CountedFrom(p.id, Filled(p).count)
         /\ SlotOf(p) \in DOMAIN Filled(p).slots
         /\ Filled(p).n = Cardinality({i \in DOMAIN Filled(p).slots :
                                         splKind \in {"array", "object"} \/ Filled(p).slots[i] # <<>>})
<1> DEFINE g == GroupOf(p)
           slots == [i \in DOMAIN g.slots \cup {SlotOf(p)} |-> IF i = SlotOf(p) THEN p.data ELSE g.slots[i]]
<1>1. FilledFrom(p.id, g.slots) /\ CountedFrom(p.id, g.count)
  <2>1. CASE p.id \in Held
    BY <2>1 DEF JoinInv, GroupInv, GroupOf
  <2>2. CASE p.id \notin Held
    BY <2>2 DEF GroupOf, FilledFrom, CountedFrom
  <2>3. QED
    BY <2>1, <2>2
<1>2. /\ Filled(p).slots = slots /\ Filled(p).count = (IF p.count > 0 THEN p.count ELSE g.count)
      /\ Filled(p).n = Counted(g, slots)
  BY DEF Filled
<1> HIDE DEF g
<1>3. FilledFrom(p.id, slots)
  BY <1>1 DEF FilledFrom
<1>4. CountedFrom(p.id, Filled(p).count)
  BY <1>1, <1>2 DEF CountedFrom
<1>5. QED
  BY <1>2, <1>3, <1>4 DEF Counted

(* A group that is sent is the whole message of its last part.              *)
LEMMA FilledExact ==
  ASSUME JoinInv, NEW p \in splParts, Filled(p).count > 0, Filled(p).n >= Filled(p).count
  PROVE  /\ Whole /\ p.of \in 1 .. Len(splIn)
         /\ Pairs(Filled(p).slots) = PartsOfMessage(p.of)
<1> DEFINE s == Filled(p).slots
           D == DOMAIN s
           n == Filled(p).count
           counted == {i \in D : splKind \in {"array", "object"} \/ s[i] # <<>>}
<1>1. /\ FilledFrom(p.id, s) /\ CountedFrom(p.id, n) /\ SlotOf(p) \in D /\ Filled(p).n = Cardinality(counted)
  BY FilledSound
<1>2. PICK r \in splParts : r.id = p.id /\ r.count = n
  BY <1>1 DEF CountedFrom
<1>3. Whole
  BY <1>2 DEF JoinInv
<1>4. PartsSound /\ PartCounts(p)
  BY <1>2, <1>3 DEF JoinInv
<1>5. p.count = n /\ n \in Nat /\ n > 0 /\ Cardinality(counted) >= n
  BY <1>1, <1>2, <1>4 DEF PartsSound
<1>6. \A i \in D : \E q \in splParts : q.id = p.id /\ q.of = p.of /\ SlotOf(q) = i /\ q.data = s[i]
  BY <1>1, <1>4 DEF FilledFrom, PartsSound
<1> HIDE DEF s, n
<1>7. CASE /\ \A q \in splParts : q.of = p.of => q.id = p.id
           /\ IsFiniteSet(SlotsOf(p.of)) /\ Cardinality(SlotsOf(p.of)) <= p.count
  <2>1. D \subseteq SlotsOf(p.of)
    BY <1>6 DEF SlotsOf
  <2>2. counted \subseteq SlotsOf(p.of)
    BY <2>1
  <2> HIDE DEF counted, D
  <2>3. Cardinality(counted) \in Nat /\ Cardinality(SlotsOf(p.of)) \in Nat /\ Cardinality(counted) <= Cardinality(SlotsOf(p.of))
    BY <1>7, <2>2, FS_Subset, FS_CardinalityType
  <2>4. Cardinality(counted) = Cardinality(SlotsOf(p.of))
    BY <1>5, <1>7, <2>3
  <2>5. counted = SlotsOf(p.of)
    BY <1>7, <2>2, <2>4, FS_Subset
  <2>6. \A q \in splParts : q.of = p.of => SlotOf(q) \in D
    BY <2>5 DEF counted, SlotsOf
  <2>7. \A q \in splParts : q.of = p.of => s[SlotOf(q)] = q.data
    BY <1>4, <1>6, <1>7, <2>6 DEF PartsSound
  <2>8. {<<i, s[i]>> : i \in D} = {<<SlotOf(q), q.data>> : q \in {x \in splParts : x.of = p.of}}
    BY <1>6, <2>6, <2>7
  <2>9. QED
    BY <1>3, <1>4, <2>8 DEF PartsSound, D, s, Pairs, PartsOfMessage
<1>8. CASE /\ \A q \in splParts : q.id = p.id => q = p
           /\ p.count <= 1 => \A q \in splParts : q.of = p.of => q = p
  <2>1. D = {SlotOf(p)} /\ s[SlotOf(p)] = p.data
    BY <1>1, <1>6, <1>8
  <2>2. Cardinality(counted) <= 1
    <3>1. counted \subseteq {SlotOf(p)}
      BY <2>1
    <3> HIDE DEF counted
    <3>2. IsFiniteSet({SlotOf(p)}) /\ Cardinality({SlotOf(p)}) = 1
      BY FS_Singleton
    <3>3. QED
      BY <3>1, <3>2, FS_Subset
  <2> HIDE DEF counted
  <2>3. \A q \in splParts : q.of = p.of => q = p
    <3>1. IsFiniteSet(counted) /\ Cardinality(counted) \in Nat
      <4>1. counted \subseteq {SlotOf(p)}
        BY <2>1 DEF counted
      <4>2. QED
        BY <4>1, FS_Singleton, FS_Subset, FS_CardinalityType
    <3>2. p.count <= 1
      BY <1>5, <2>2, <3>1
    <3>3. QED
      BY <1>8, <3>2
  <2>4. {<<i, s[i]>> : i \in D} = {<<SlotOf(q), q.data>> : q \in {x \in splParts : x.of = p.of}}
    BY <2>1, <2>3
  <2>5. QED
    BY <1>3, <1>4, <2>4 DEF PartsSound, s, Pairs, PartsOfMessage
<1>9. QED
  BY <1>4, <1>7, <1>8 DEF PartCounts

(* What is sent is of one message, whether it is complete or not.           *)
LEMMA SentWithin ==
  ASSUME JoinInv, NEW p \in splParts, NEW slots, FilledFrom(p.id, slots)
  PROVE  p.of \in 1 .. Len(splIn) /\ Pairs(slots) \subseteq PartsOfMessage(p.of)
<1>1. \A i \in DOMAIN slots : \E q \in splParts : q.of = p.of /\ SlotOf(q) = i /\ q.data = slots[i]
  BY DEF JoinInv, PartsSound, FilledFrom
<1>2. \A i \in DOMAIN slots : <<i, slots[i]>> \in PartsOfMessage(p.of)
  BY <1>1 DEF PartsOfMessage
<1>3. QED
  BY <1>2 DEF JoinInv, PartsSound, Pairs

LEMMA JoinReceiveKeeps == ASSUME JoinInv, NEW p \in splChan, NEW mark \in JoinMarks, JoinReceive(p, mark) PROVE JoinInv'
<1>1. p \in splParts
  BY DEF JoinInv
<1>2. splChan' \subseteq splChan /\ UNCHANGED <<splKind, splStream, splRest, splCounter, splIds, splIn, splParts>>
  BY DEF JoinReceive
<1>3. Whole' = Whole /\ \A q : SlotOf(q)' = SlotOf(q)
  BY <1>2 DEF Whole, Streams, SlotOf
<1>4. \A m : SlotsOf(m)' = SlotsOf(m)
  BY <1>2, <1>3 DEF SlotsOf
<1>5. /\ splIn' \in Seq(SplitIn) /\ splChan' \subseteq splParts' /\ splIds' \in Nat /\ splCounter' \in Nat
      /\ splRest' \in Seq(Atoms) /\ PartsSound' /\ (Whole' => \A q \in splParts' : PartCounts(q)')
      /\ (~Whole' => \A q \in splParts' : q.count = 0)
  BY <1>2, <1>3, <1>4 DEF JoinInv, PartsSound, PartCounts
<1> DEFINE g == GroupAfter(p, mark)
           out == [id |-> p.id, of |-> p.of, slots |-> g.slots, outer |-> p.outer, asked |-> mark # "none"]
<1>6. FilledFrom(p.id, g.slots) /\ CountedFrom(p.id, g.count)
  <2>1. CASE mark = "bare"
    <3>1. CASE p.id \in Held
      BY <2>1, <3>1 DEF JoinInv, GroupInv, GroupOf, GroupAfter
    <3>2. CASE p.id \notin Held
      BY <2>1, <3>2 DEF GroupOf, GroupAfter, FilledFrom, CountedFrom
    <3>3. QED
      BY <3>1, <3>2
  <2>2. CASE mark # "bare"
    BY <1>1, <2>2, FilledSound DEF GroupAfter
  <2>3. QED
    BY <2>1, <2>2
<1>7. CASE IsComplete(g, mark)
  <2>1. joinOut' = joinOut \cup {out} /\ joinGroups' = Without(p.id)
    BY <1>7 DEF JoinReceive
  <2>2. p.of \in 1 .. Len(splIn) /\ Pairs(g.slots) \subseteq PartsOfMessage(p.of)
    BY <1>1, <1>6, SentWithin
  <2>3. mark = "none" => Pairs(g.slots) = PartsOfMessage(p.of)
    <3>1. mark = "none" => g = Filled(p) /\ g.count > 0 /\ g.n >= g.count
      BY <1>7 DEF IsComplete, GroupAfter
    <3> HIDE DEF g
    <3>2. QED
      BY <1>1, <3>1, FilledExact
  <2> HIDE DEF g
  <2>4. OutSound(out)
    BY <2>2, <2>3 DEF OutSound
  <2> HIDE DEF out
  <2>5. \A o \in joinOut' : OutSound(o)
    BY <2>1, <2>4 DEF JoinInv
  <2>6. \A o \in joinOut' : OutSound(o)'
    BY <1>2, <1>3, <2>5 DEF OutSound, Pairs, PartsOfMessage
  <2>7. GroupInv'
    <3>1. Held' \subseteq Held /\ \A id \in Held' : joinGroups'[id] = joinGroups[id]
      BY <2>1 DEF Without, Held
    <3>2. QED
      BY <1>2, <1>3, <3>1 DEF JoinInv, GroupInv, FilledFrom, CountedFrom
  <2>8. QED
    BY <1>5, <2>6, <2>7 DEF JoinInv
<1>8. CASE ~IsComplete(g, mark)
  <2>1. /\ joinGroups' = [i \in Held \cup {p.id} |-> IF i = p.id THEN g ELSE joinGroups[i]]
        /\ joinOut' = joinOut
    BY <1>8 DEF JoinReceive
  <2> HIDE DEF g
  <2>2. GroupInv'
    <3>1. \A id \in Held' : FilledFrom(id, joinGroups'[id].slots) /\ CountedFrom(id, joinGroups'[id].count)
      BY <1>6, <2>1 DEF JoinInv, GroupInv, Held
    <3>2. QED
      BY <1>2, <1>3, <3>1 DEF GroupInv, FilledFrom, CountedFrom
  <2>3. \A o \in joinOut' : OutSound(o)'
    BY <1>2, <1>3, <2>1 DEF JoinInv, OutSound, Pairs, PartsOfMessage
  <2>4. QED
    BY <1>5, <2>2, <2>3 DEF JoinInv
<1>9. QED
  BY <1>7, <1>8

(* What join sends in automatic mode, for any values, split lengths and kinds, and any
   number of parts that arrive in any order, mixed with those of other messages and
   repeated: parts of one message as split cut it, each in its place, and nothing
   else; and all of them, unless a message said msg.complete (process_message of split
   and of join; current_count counts filled slots, not arrivals).           *)
THEOREM JoinIsExact == SplitSpec => []JoinExact
<1>1. SplitInit => JoinInv
  <2> SUFFICES ASSUME SplitInit PROVE JoinInv
    OBVIOUS
  <2>1. /\ splCounter = 0 /\ splIds = 0 /\ splIn = <<>> /\ splParts = {} /\ splChan = {}
        /\ joinGroups = <<>> /\ joinOut = {} /\ splRest = <<>> /\ <<>> \in Seq(Atoms)
    BY EmptySeq DEF SplitInit
  <2>2. Held = {}
    BY <2>1 DEF Held
  <2>3. QED
    BY <2>1, <2>2 DEF JoinInv, GroupInv, PartsSound
<1>2. JoinInv /\ [SplitNext]_splitVars => JoinInv'
  <2> SUFFICES ASSUME JoinInv, [SplitNext]_splitVars PROVE JoinInv'
    OBVIOUS
  <2>1. ASSUME NEW v \in SplitValues, NEW o \in {0, 1}, SplitMessage(v, o) PROVE JoinInv'
    BY <2>1, SplitKeeps
  <2>2. CASE SplitReset \/ JoinReset \/ UNCHANGED splitVars
    <3>1. /\ UNCHANGED <<splKind, splStream, splIds, splIn, splParts, splChan, joinOut>>
          /\ splCounter' = splCounter \/ splCounter' = 0
          /\ joinGroups' = joinGroups \/ joinGroups' = <<>>
          /\ splRest' = splRest \/ splRest' = <<>>
      BY <2>2 DEF SplitReset, JoinReset, splitVars
    <3>2. Whole' = Whole /\ \A q : SlotOf(q)' = SlotOf(q)
      BY <3>1 DEF Whole, Streams, SlotOf
    <3>3. \A m : SlotsOf(m)' = SlotsOf(m)
      BY <3>1, <3>2 DEF SlotsOf
    <3>4. /\ splIds' \in Nat /\ splCounter' \in Nat /\ splRest' \in Seq(Atoms) /\ PartsSound'
          /\ (Whole' => \A q \in splParts' : PartCounts(q)')
      <4>1. splCounter' \in Nat /\ splRest' \in Seq(Atoms)
        <5>1. <<>> \in Seq(Atoms)
          BY EmptySeq
        <5>2. splRest \in Seq(Atoms) /\ splCounter \in Nat
          BY DEF JoinInv
        <5>3. splRest' \in Seq(Atoms)
          BY <3>1, <5>1, <5>2, Zenon
        <5>4. splCounter' \in Nat
          BY <3>1, <5>2
        <5>5. QED
          BY <5>3, <5>4
      <4>2. splIds' \in Nat /\ PartsSound' /\ (Whole' => \A q \in splParts' : PartCounts(q)')
        BY <3>1, <3>2, <3>3 DEF JoinInv, PartsSound, PartCounts
      <4>3. QED
        BY <4>1, <4>2
    <3>5. GroupInv'
      <4>1. CASE joinGroups' = joinGroups
        <5>1. Held' = Held /\ splParts' = splParts
          BY <3>1, <4>1 DEF Held
        <5>2. \A id, s : FilledFrom(id, s)' = FilledFrom(id, s)
          BY <3>2, <5>1 DEF FilledFrom
        <5>3. QED
          BY <4>1, <5>1, <5>2 DEF JoinInv, GroupInv, CountedFrom
      <4>2. CASE joinGroups' = <<>>
        BY <4>2 DEF GroupInv, Held
      <4>3. QED
        BY <3>1, <4>1, <4>2
    <3>6. \A o \in joinOut' : OutSound(o)'
      BY <3>1, <3>2 DEF JoinInv, OutSound, Pairs, PartsOfMessage
    <3>7. QED
      BY <3>1, <3>2, <3>4, <3>5, <3>6 DEF JoinInv
  <2>3. QED
    BY <2>1, <2>2, JoinReceiveKeeps DEF SplitNext
<1>3. JoinInv => JoinExact
  BY DEF JoinInv, JoinExact, OutSound
<1>4. QED
  BY <1>1, <1>2, <1>3, PTL DEF SplitSpec

-----------------------------------------------------------------------------
(* StorageNodes.                                                            *)

Elems(s) == {s[i] : i \in DOMAIN s}
StoWriters == [mode : FileModes, newline : BOOLEAN, at : {"wait", "open", "write", "stale", "dead"}, unit : Nat,
               ended : BOOLEAN]
StoReaders == [format : {"whole", "lines", "stream"}, sendError : BOOLEAN, at : {"wait", "read"}, pos : Nat,
               out : {fileIn.out}, clean : BOOLEAN]

(* What is on the disk: payloads and line ends; a file open for writing is there. *)
DiskInv ==
  /\ fileDisk \in Seq(Int) /\ (Exists => fileDisk \in Seq(Nat)) /\ fileLog \in Seq(Nat)
  /\ fileWriter \in [FileWriters -> StoWriters] /\ fileMsgs.write \in Nat
  /\ fileMsgs = [write |-> fileMsgs.write, read |-> fileMsgs.read]
  /\ \A w \in FileWriters : /\ Writer(w).at \in {"open", "write"} => Writer(w).unit > 0
                            /\ Writer(w).at = "write" => Exists
(* With appending writers the file is what was written. *)
LogInv == AppendOnly => IF Exists THEN fileDisk = fileLog ELSE fileLog = <<>>

ReaderTyped ==
  /\ fileIn \in StoReaders /\ fileIn.out \in Seq(Elems(fileIn.out))
  /\ fileIn.at = "read" => fileIn.format = "stream"
Numbered(out) == \A i \in DOMAIN out : out[i].index = i - 1 /\ out[i].count \in IF i = Len(out) THEN {0, i} ELSE {0}
(* An undisturbed read has the pieces of the file up to where it is. *)
DiskPieces(out, s) ==
  \A i \in DOMAIN out :
    /\ (i - 1) * FileChunk < Len(s) /\ out[i].index = i - 1
    /\ out[i].payload = SubSeq(s, (i - 1) * FileChunk + 1, Lesser(i * FileChunk, Len(s)))
    /\ out[i].count = IF Len(s) < i * FileChunk THEN i ELSE 0
StreamInv ==
  fileIn.format = "stream" =>
    /\ DiskPieces(fileIn.out, fileDisk)
    /\ fileIn.at = "read" => Exists /\ fileIn.pos = Lesser(Len(fileIn.out) * FileChunk, Len(fileDisk))
    /\ fileIn.at = "wait" /\ fileIn.out # <<>> => Len(fileIn.out) * FileChunk >= Len(fileDisk)
LinesRead == fileIn.format = "lines" /\ fileIn.out # <<>> => InLines(fileIn.out, fileDisk)
ReadInv ==
  fileIn.clean =>
    /\ Numbered(fileIn.out) /\ StreamInv /\ LinesRead /\ (fileIn.out # <<>> => Exists)
    /\ fileIn.format = "whole" /\ fileIn.out # <<>> => fileIn.out = <<Part(fileDisk, 0, 1)>>

StoInv == DiskInv /\ LogInv /\ ReaderTyped /\ ReadInv

(* A function on 1 .. n is a sequence, whatever its values. *)
LEMMA FunctionIsSequence ==
  ASSUME NEW n \in Nat, NEW s, s = [i \in 1 .. n |-> s[i]]
  PROVE  s \in Seq(Elems(s)) /\ Len(s) = n /\ DOMAIN s = 1 .. n
<1>1. DOMAIN s = 1 .. n
  OBVIOUS
<1>2. s \in [1 .. n -> Elems(s)]
  BY <1>1 DEF Elems
<1>3. s \in Seq(Elems(s))
  BY <1>2
<1>4. Len(s) = n
  BY <1>1, <1>3
<1>5. QED
  BY <1>1, <1>3, <1>4

(* What a sequence that grows by one element is made of. *)
LEMMA AppendElems ==
  ASSUME NEW s, s \in Seq(Elems(s)), NEW e
  PROVE  /\ Append(s, e) \in Seq(Elems(Append(s, e))) /\ Len(Append(s, e)) = Len(s) + 1 /\ Len(s) \in Nat
         /\ DOMAIN s = 1 .. Len(s) /\ DOMAIN Append(s, e) = 1 .. Len(s) + 1
         /\ Append(s, e)[Len(s) + 1] = e /\ \A i \in 1 .. Len(s) : Append(s, e)[i] = s[i]
<1> DEFINE S == Elems(s) \cup {e}
           t == Append(s, e)
<1>1. s \in Seq(S) /\ e \in S
  OBVIOUS
<1>2. /\ t \in Seq(S) /\ Len(t) = Len(s) + 1 /\ Len(s) \in Nat /\ DOMAIN s = 1 .. Len(s)
      /\ t[Len(s) + 1] = e /\ \A i \in 1 .. Len(s) : t[i] = s[i]
  BY <1>1, AppendProperties
<1> HIDE DEF t, S
<1>3. DOMAIN t = 1 .. Len(s) + 1 /\ t = [i \in 1 .. Len(s) + 1 |-> t[i]]
  BY <1>2
<1>4. t \in Seq(Elems(t))
  BY <1>2, <1>3, FunctionIsSequence
<1>5. QED
  BY <1>2, <1>3, <1>4 DEF t

-----------------------------------------------------------------------------
(* The messages of a file read in lines. *)
LEMMA LinesNumbered ==
  ASSUME NEW s \in Seq(Int)
  PROVE  /\ ReadLines(s) \in Seq(Elems(ReadLines(s))) /\ Numbered(ReadLines(s))
         /\ Len(LinesOf(s)) \in Nat /\ Len(ReadLines(s)) = Len(LinesOf(s)) /\ DOMAIN ReadLines(s) = 1 .. Len(LinesOf(s))
         /\ \A i \in 1 .. Len(LinesOf(s)) : ReadLines(s)[i].payload = LinesOf(s)[i]
<1> DEFINE c == Cardinality(Ends(s))
           full == [i \in 1 .. c |-> LineOf(s, EndOf(s, i))]
           rest == LineOf(s, Len(s) + 1)
           tail == IF rest = <<>> THEN <<>> ELSE <<rest>>
           n == Len(LinesOf(s))
<1>1. c \in Nat
  <2>1. Len(s) \in Nat /\ Ends(s) \subseteq 1 .. Len(s)
    BY DEF Ends
  <2>2. IsFiniteSet(1 .. Len(s))
    BY <2>1, FS_Interval
  <2>3. IsFiniteSet(Ends(s))
    BY <2>1, <2>2, FS_Subset
  <2>4. QED
    BY <2>3, FS_CardinalityType
<1>2. LinesOf(s) = full \o tail
  BY DEF LinesOf
<1>3. n \in Nat
  <2> HIDE DEF c
  <2>1. full = [i \in 1 .. c |-> full[i]]
    OBVIOUS
  <2>2. full \in Seq(Elems(full))
    BY <1>1, <2>1, FunctionIsSequence
  <2> HIDE DEF full, rest
  <2>3. full \in Seq(Elems(full) \cup {rest}) /\ tail \in Seq(Elems(full) \cup {rest})
    <3> DEFINE S == Elems(full) \cup {rest}
    <3>1. Elems(full) \subseteq S /\ rest \in S
      OBVIOUS
    <3> HIDE DEF S
    <3>2. full \in Seq(S)
      BY <2>2, <3>1, SeqMonotonic
    <3>3. <<rest>> \in Seq(S) /\ <<>> \in Seq(S)
      BY <3>1
    <3>4. QED
      BY <3>2, <3>3 DEF S
  <2> HIDE DEF tail
  <2>4. QED
    BY <1>2, <2>3
<1> HIDE DEF n
<1> DEFINE plain == [i \in 1 .. n |-> Part(LinesOf(s)[i], i - 1, 0)]
           out == ReadLines(s)
<1>4. plain = [i \in 1 .. n |-> plain[i]]
  OBVIOUS
<1>5. Len(plain) = n /\ DOMAIN plain = 1 .. n
  BY <1>3, <1>4, FunctionIsSequence
<1>6. out = [i \in 1 .. n |-> IF i = n THEN [plain[i] EXCEPT !.count = i] ELSE plain[i]]
  BY <1>5 DEF ReadLines, WithCount, n
<1>7. \A i \in 1 .. n : out[i].payload = LinesOf(s)[i] /\ out[i].index = i - 1 /\ out[i].count = IF i = n THEN n ELSE 0
  BY <1>6 DEF Part
<1> HIDE DEF out, plain
<1>8. out = [i \in 1 .. n |-> out[i]]
  BY <1>6
<1>9. out \in Seq(Elems(out)) /\ Len(out) = n /\ DOMAIN out = 1 .. n
  BY <1>3, <1>8, FunctionIsSequence
<1>10. Numbered(out)
  BY <1>7, <1>9 DEF Numbered
<1>11. QED
  BY <1>3, <1>7, <1>9, <1>10 DEF n, out

(* There is an i-th line end for every i up to their number. *)
LEMMA EndIs ==
  ASSUME NEW s \in Seq(Int), NEW i \in 1 .. Cardinality(Ends(s))
  PROVE  EndOf(s, i) \in Ends(s) /\ Cardinality({j \in Ends(s) : j <= EndOf(s, i)}) = i
<1> DEFINE E == Ends(s)
           upto(k) == {j \in E : j <= k}
<1>1. PICK n \in Nat : n = Len(s)
  OBVIOUS
<1>2. E \subseteq 1 .. n /\ IsFiniteSet(E)
  <2>1. E \subseteq 1 .. n /\ IsFiniteSet(1 .. n)
    BY <1>1, FS_Interval DEF Ends
  <2>2. QED
    BY <2>1, FS_Subset
<1>3. PICK c \in Nat : c = Cardinality(E) /\ i \in 1 .. c
  BY <1>2, FS_CardinalityType
<1> HIDE DEF E
<1>4. \A k : IsFiniteSet(upto(k)) /\ Cardinality(upto(k)) \in Nat
  <2>1. \A k : upto(k) \in SUBSET E
    OBVIOUS
  <2> HIDE DEF upto
  <2>2. QED
    BY <1>2, <2>1, FS_Subset, FS_CardinalityType
<1> DEFINE Bad == {x \in 1 .. c : \A k \in E : Cardinality(upto(k)) # x}
<1>5. ASSUME Bad # {} PROVE FALSE
  <2>1. Bad \subseteq 1 .. c
    OBVIOUS
  <2> HIDE DEF Bad
  <2>2. PICK x \in Bad : \A y \in Bad : y <= x
    BY <1>3, <1>5, <2>1, GreatestOf
  <2>3. x \in 1 .. c /\ \A k \in E : Cardinality(upto(k)) # x
    BY DEF Bad
  <2>4. CASE x = c
    <3>1. E # {}
      BY <1>2, <1>3, <2>3, <2>4, FS_EmptySet
    <3>2. PICK k \in E : \A j \in E : j <= k
      BY <1>1, <1>2, <3>1, GreatestOf
    <3>3. upto(k) = E
      BY <3>2
    <3>4. QED
      BY <1>3, <2>3, <2>4, <3>3
  <2>5. CASE x # c
    <3>1. x + 1 \in 1 .. c /\ x + 1 \notin Bad
      <4>1. x + 1 \in 1 .. c /\ ~(x + 1 <= x)
        BY <1>3, <2>3, <2>5
      <4>2. QED
        BY <2>2, <4>1
    <3>2. PICK k \in E : Cardinality(upto(k)) = x + 1
      BY <3>1 DEF Bad
    <3> DEFINE below == {j \in E : j < k}
    <3>3. \A j \in E : j \in Int
      BY <1>2
    <3>4. below = upto(k) \ {k} /\ k \in upto(k)
      BY <3>3
    <3>5. below \subseteq 1 .. n /\ Cardinality(below) = x /\ IsFiniteSet(below)
      <4>1. below \subseteq 1 .. n
        BY <1>2
      <4>2. x + 1 - 1 = x
        BY <2>3
      <4> HIDE DEF upto, below
      <4>0. PICK U : U = upto(k) /\ IsFiniteSet(U) /\ Cardinality(U) = x + 1 /\ k \in U /\ below = U \ {k}
        BY <1>4, <3>2, <3>4
      <4>5. /\ IsFiniteSet(U \ {k})
            /\ Cardinality(U \ {k}) = IF k \in U THEN Cardinality(U) - 1 ELSE Cardinality(U)
        BY <4>0, FS_RemoveElement, Zenon
      <4>6. Cardinality(U \ {k}) = Cardinality(U) - 1
        BY <4>0, <4>5
      <4>3. Cardinality(below) = Cardinality(U \ {k}) /\ IsFiniteSet(below)
        BY <4>0, <4>5, Zenon
      <4>8. PICK y \in Int : y = x + 1 /\ y - 1 = x
        BY <2>3
      <4>9. Cardinality(U) = y
        BY <4>0, <4>8, Zenon
      <4>10. Cardinality(below) = y - 1
        BY <4>3, <4>6, <4>9, Zenon
      <4>4. Cardinality(below) = x
        BY <4>8, <4>10, Zenon
      <4>7. QED
        BY <4>1, <4>3, <4>4
    <3>6. below # {}
      BY <2>3, <3>5, FS_EmptySet
    <3>7. PICK m \in below : \A j \in below : j <= m
      <4> HIDE DEF below
      <4>1. QED
        BY <1>1, <3>5, <3>6, GreatestOf
    <3>8. upto(m) = below
      BY <3>3, <3>7
    <3>9. QED
      BY <2>3, <3>5, <3>7, <3>8
  <2>6. QED
    BY <2>4, <2>5
<1>6. PICK k \in E : Cardinality(upto(k)) = i
  BY <1>3, <1>5
<1>7. EndOf(s, i) = CHOOSE x \in E : Cardinality(upto(x)) = i
  BY DEF EndOf, E
<1> HIDE DEF upto
<1>8. EndOf(s, i) \in E /\ Cardinality(upto(EndOf(s, i))) = i
  BY <1>6, <1>7
<1>9. QED
  BY <1>8 DEF upto, E

(* What stands before a line end, or before the end of the file, is the line after as many
   line ends as there are before it; it is empty at the end of a file that ends with one. *)
LEMMA LineIs ==
  ASSUME NEW s \in Seq(Int), NEW k \in 1 .. Len(s) + 1, k = Len(s) + 1 \/ k \in Ends(s), NEW i \in Nat,
         Cardinality({j \in Ends(s) : j < k}) = i - 1
  PROVE  /\ IsLine(s, i, LineOf(s, k))
         /\ k = Len(s) + 1 => (LineOf(s, k) = <<>> <=> (s = <<>> \/ Len(s) \in Ends(s)))
<1> DEFINE prev == {j \in Ends(s) : j < k}
           a == IF prev = {} THEN 0 ELSE CHOOSE j \in prev : \A h \in prev : h <= j
           b == k - 1
<1>1. PICK n \in Nat : n = Len(s)
  OBVIOUS
<1>2. Ends(s) \subseteq 1 .. n /\ k \in 1 .. n + 1
  BY <1>1 DEF Ends
<1>3. LineOf(s, k) = SubSeq(s, a + 1, b)
  BY DEF LineOf
<1>4. /\ prev = {} => a = 0
      /\ prev # {} => a \in prev /\ \A h \in prev : h <= a
  <2>1. ASSUME prev # {} PROVE \E j \in prev : \A h \in prev : h <= j
    <3>1. prev \subseteq 1 .. n
      BY <1>2
    <3> HIDE DEF prev
    <3>2. QED
      BY <1>1, <2>1, <3>1, GreatestOf
  <2> HIDE DEF prev
  <2>2. QED
    BY <2>1
<1> HIDE DEF a
<1>5. a \in 0 .. n /\ a < k /\ (a = 0 \/ a \in Ends(s)) /\ \A j \in Ends(s) : j < k => j <= a
  <2>1. CASE prev = {}
    BY <1>2, <1>4, <2>1
  <2>2. CASE prev # {}
    BY <1>2, <1>4, <2>2
  <2>3. QED
    BY <2>1, <2>2
<1>6. b \in 0 .. n /\ (b = n \/ b + 1 \in Ends(s)) /\ \A j \in a + 1 .. b : j \notin Ends(s)
  <2>1. b \in 0 .. n /\ b + 1 = k
    BY <1>2
  <2>2. \A j \in a + 1 .. b : j < k /\ ~(j <= a)
    BY <1>2, <1>5
  <2>3. QED
    BY <1>1, <1>5, <2>1, <2>2
<1>7. {e \in Ends(s) : e <= a} = prev
  BY <1>2, <1>5
<1>8. Cardinality({e \in Ends(s) : e <= a}) = i - 1
  BY <1>7
<1> HIDE DEF b, prev
<1>9. IsLine(s, i, LineOf(s, k))
  BY <1>1, <1>3, <1>5, <1>6, <1>8 DEF IsLine
<1>10. ASSUME k = Len(s) + 1 PROVE LineOf(s, k) = <<>> <=> (s = <<>> \/ Len(s) \in Ends(s))
  <2>1. b = n
    BY <1>1, <1>10 DEF b
  <2>2. Len(SubSeq(s, a + 1, n)) = IF a + 1 <= n THEN n - (a + 1) + 1 ELSE 0
    <3>1. a + 1 \in Int /\ n \in Int /\ \A x \in a + 1 .. n : s[x] \in Int
      BY <1>1, <1>5
    <3>2. QED
      BY <3>1, SubSeqProperties
  <2>3. a = n => SubSeq(s, a + 1, n) = <<>>
    BY <1>1, <1>5, SubSeqEmpty
  <2>4. LineOf(s, k) = <<>> <=> a = n
    <3>1. ASSUME a # n PROVE LineOf(s, k) # <<>>
      <4>1. Len(SubSeq(s, a + 1, n)) > 0
        BY <1>1, <1>5, <2>2, <3>1
      <4>2. PICK x : x = SubSeq(s, a + 1, n)
        OBVIOUS
      <4>3. x # <<>>
        <5>1. Len(x) > 0
          BY <4>1, <4>2
        <5>2. Len(<<>>) = 0
          OBVIOUS
        <5>3. ~(0 > 0)
          OBVIOUS
        <5>4. QED
          BY <5>1, <5>2, <5>3, Zenon
      <4>4. QED
        BY <1>3, <2>1, <4>2, <4>3
    <3>2. QED
      BY <1>3, <2>1, <2>3, <3>1
  <2>5. a = n <=> (n = 0 \/ n \in Ends(s))
    <3>1. n < k
      BY <1>1, <1>10
    <3>2. QED
      BY <1>1, <1>2, <1>5, <3>1
  <2>6. s = <<>> <=> n = 0
    BY <1>1
  <2>7. QED
    BY <1>1, <2>4, <2>5, <2>6
<1>11. QED
  BY <1>9, <1>10

(* The lines that are read are the lines of the file. *)
LEMMA LinesAre ==
  ASSUME NEW s \in Seq(Int)
  PROVE  InLines(ReadLines(s), s)
<1> DEFINE c == Cardinality(Ends(s))
           full == [i \in 1 .. c |-> LineOf(s, EndOf(s, i))]
           rest == LineOf(s, Len(s) + 1)
           tail == IF rest = <<>> THEN <<>> ELSE <<rest>>
           out == ReadLines(s)
           lines == LinesOf(s)
<1>1. Len(s) \in Nat /\ IsFiniteSet(Ends(s)) /\ c \in Nat /\ Ends(s) \subseteq 1 .. Len(s)
  <2>1. Len(s) \in Nat /\ Ends(s) \subseteq 1 .. Len(s) /\ IsFiniteSet(1 .. Len(s))
    BY FS_Interval DEF Ends
  <2>2. IsFiniteSet(Ends(s))
    BY <2>1, FS_Subset
  <2>3. QED
    BY <2>1, <2>2, FS_CardinalityType
<1>2. lines = full \o tail
  BY DEF LinesOf
<1>3. ASSUME NEW i \in 1 .. c PROVE IsLine(s, i, full[i])
  <2>1. PICK k : k = EndOf(s, i)
    OBVIOUS
  <2>2. k \in Ends(s) /\ Cardinality({j \in Ends(s) : j <= k}) = i
    BY <2>1, EndIs
  <2>3. k \in 1 .. Len(s) + 1
    BY <1>1, <2>2
  <2>4. Cardinality({j \in Ends(s) : j < k}) = i - 1
    <3> DEFINE A == {j \in Ends(s) : j <= k}
               B == {j \in Ends(s) : j < k}
    <3>1. \A j \in Ends(s) : j \in Int
      BY <1>1
    <3>2. B = A \ {k} /\ k \in A /\ A \in SUBSET Ends(s)
      BY <2>2, <3>1
    <3> HIDE DEF A, B
    <3>3. IsFiniteSet(A)
      BY <1>1, <3>2, FS_Subset
    <3>4. Cardinality(B) = Cardinality(A) - 1
      BY <3>2, <3>3, FS_RemoveElement
    <3>5. QED
      BY <2>2, <3>4 DEF A, B
  <2>5. IsLine(s, i, LineOf(s, k))
    BY <1>1, <2>2, <2>3, <2>4, LineIs
  <2>6. QED
    BY <2>1, <2>5
<1>4. IsLine(s, c + 1, rest) /\ (rest = <<>> <=> (s = <<>> \/ Len(s) \in Ends(s)))
  <2>1. {j \in Ends(s) : j < Len(s) + 1} = Ends(s)
    BY <1>1
  <2>3. Len(s) + 1 \in 1 .. Len(s) + 1
    BY <1>1
  <2>5. Cardinality({j \in Ends(s) : j < Len(s) + 1}) = c
    BY <2>1
  <2> HIDE DEF c
  <2>6. (c + 1) - 1 = c /\ c + 1 \in Nat
    BY <1>1
  <2>2. Cardinality({j \in Ends(s) : j < Len(s) + 1}) = (c + 1) - 1 /\ c + 1 \in Nat
    BY <2>5, <2>6
  <2>4. QED
    BY <2>2, <2>3, LineIs
<1>5. /\ Len(lines) = c + (IF rest = <<>> THEN 0 ELSE 1) /\ \A i \in 1 .. c : lines[i] = full[i]
      /\ rest # <<>> => lines[c + 1] = rest
  <2> HIDE DEF c
  <2>1. full = [i \in 1 .. c |-> full[i]]
    OBVIOUS
  <2>2. full \in Seq(Elems(full)) /\ Len(full) = c
    BY <1>1, <2>1, FunctionIsSequence
  <2> HIDE DEF full, rest
  <2> DEFINE S == Elems(full) \cup {rest}
  <2>3. full \in Seq(S) /\ rest \in S
    <3>1. Elems(full) \subseteq S /\ rest \in S
      OBVIOUS
    <3> HIDE DEF S
    <3>2. QED
      BY <2>2, <3>1, SeqMonotonic
  <2> HIDE DEF S
  <2>4. CASE rest = <<>>
    <3>1. lines = full
      BY <1>2, <2>3, <2>4
    <3>2. QED
      BY <1>1, <2>2, <2>4, <3>1
  <2>5. CASE rest # <<>>
    <3>1. tail = <<rest>> /\ tail \in Seq(S) /\ Len(tail) = 1 /\ tail[1] = rest
      BY <2>3, <2>5
    <3> HIDE DEF tail, lines
    <3>2. /\ Len(lines) = Len(full) + Len(tail)
          /\ \A k \in 1 .. Len(full) + Len(tail) : lines[k] = IF k <= Len(full) THEN full[k] ELSE tail[k - Len(full)]
      BY <1>2, <2>3, <3>1, ConcatProperties
    <3>3. Len(lines) = c + 1 /\ \A k \in 1 .. c + 1 : lines[k] = IF k <= c THEN full[k] ELSE tail[k - c]
      BY <2>2, <3>1, <3>2
    <3>4. c + 1 \in 1 .. c + 1 /\ ~(c + 1 <= c) /\ c + 1 - c = 1 /\ \A i \in 1 .. c : i \in 1 .. c + 1 /\ i <= c
      BY <1>1
    <3>5. lines[c + 1] = rest
      <4>1. PICK m : m = c + 1
        OBVIOUS
      <4>2. lines[m] = tail[m - c]
        BY <1>1, <3>3, <4>1
      <4>3. m - c = 1
        BY <1>1, <4>1
      <4>4. QED
        BY <3>1, <4>1, <4>2, <4>3
    <3>6. QED
      BY <2>5, <3>3, <3>4, <3>5
  <2>6. QED
    BY <2>4, <2>5
<1>6. /\ Len(lines) \in Nat /\ Len(out) = Len(lines) /\ DOMAIN out = 1 .. Len(lines)
      /\ \A i \in 1 .. Len(lines) : out[i].payload = lines[i]
  BY LinesNumbered
<1> HIDE DEF out, lines, full, rest, c
<1>7. ASSUME NEW i \in 1 .. Len(lines) PROVE IsLine(s, i, out[i].payload)
  <2>1. CASE i \in 1 .. c
    BY <1>3, <1>5, <1>6, <2>1
  <2>2. CASE i \notin 1 .. c
    <3>1. i = c + 1 /\ rest # <<>>
      BY <1>1, <1>5, <2>2
    <3>2. QED
      BY <1>4, <1>5, <1>6, <3>1
  <2>3. QED
    BY <2>1, <2>2
<1>8. Len(out) = Cardinality(Ends(s)) + (IF s # <<>> /\ Len(s) \notin Ends(s) THEN 1 ELSE 0)
  BY <1>4, <1>5, <1>6 DEF c
<1>9. QED
  BY <1>6, <1>7, <1>8 DEF InLines, out

(* A part of a part. *)
LEMMA PartOfRest ==
  ASSUME NEW s \in Seq(Int), NEW p \in 0 .. Len(s), NEW k \in 0 .. Len(s) - p
  PROVE  /\ SubSeq(SubSeq(s, p + 1, Len(s)), 1, k) = SubSeq(s, p + 1, p + k)
         /\ Len(SubSeq(s, p + 1, Len(s))) = Len(s) - p
         /\ Len(SubSeq(s, p + 1, p + k)) = k
<1> DEFINE r == SubSeq(s, p + 1, Len(s))
           a == SubSeq(r, 1, k)
           b == SubSeq(s, p + 1, p + k)
<1>0. Len(s) \in Nat /\ p \in Nat /\ k \in Nat /\ \A i \in 1 .. Len(s) : s[i] \in Int
  OBVIOUS
<1>1. r \in Seq(Int) /\ Len(r) = Len(s) - p /\ \A i \in 1 .. Len(s) - p : r[i] = s[p + i]
  <2>1. /\ r \in Seq(Int) /\ Len(r) = IF p + 1 <= Len(s) THEN Len(s) - (p + 1) + 1 ELSE 0
        /\ \A i \in 1 .. Len(s) - (p + 1) + 1 : r[i] = s[(p + 1) + i - 1]
    BY <1>0, SubSeqProperties
  <2> HIDE DEF r
  <2>2. \A i \in 1 .. Len(s) - p : r[i] = s[p + i]
    <3>1. ASSUME NEW i \in 1 .. Len(s) - p PROVE r[i] = s[p + i]
      <4>1. i \in 1 .. Len(s) - (p + 1) + 1 /\ (p + 1) + i - 1 = p + i
        BY <1>0
      <4>2. QED
        BY <2>1, <4>1
    <3>2. QED
      BY <3>1
  <2>3. QED
    BY <1>0, <2>1, <2>2
<1> HIDE DEF r
<1>2. a \in Seq(Int) /\ Len(a) = k /\ \A i \in 1 .. k : a[i] = r[i]
  <2>1. /\ a \in Seq(Int) /\ Len(a) = IF 1 <= k THEN k - 1 + 1 ELSE 0
        /\ \A i \in 1 .. k - 1 + 1 : a[i] = r[1 + i - 1]
    <3>1. \A i \in 1 .. k : r[i] \in Int
      BY <1>0, <1>1
    <3>2. QED
      BY <1>0, <3>1, SubSeqProperties
  <2> HIDE DEF a
  <2>2. \A i \in 1 .. k : a[i] = r[i]
    <3>1. ASSUME NEW i \in 1 .. k PROVE a[i] = r[i]
      <4>1. i \in 1 .. k - 1 + 1 /\ 1 + i - 1 = i
        BY <1>0
      <4>2. QED
        BY <2>1, <4>1
    <3>2. QED
      BY <3>1
  <2>3. QED
    BY <1>0, <2>1, <2>2
<1>3. b \in Seq(Int) /\ Len(b) = k /\ \A i \in 1 .. k : b[i] = s[p + i]
  <2>1. /\ b \in Seq(Int) /\ Len(b) = IF p + 1 <= p + k THEN (p + k) - (p + 1) + 1 ELSE 0
        /\ \A i \in 1 .. (p + k) - (p + 1) + 1 : b[i] = s[(p + 1) + i - 1]
    <3>1. \A i \in p + 1 .. p + k : s[i] \in Int
      BY <1>0
    <3>2. QED
      BY <1>0, <3>1, SubSeqProperties
  <2> HIDE DEF b
  <2>2. \A i \in 1 .. k : b[i] = s[p + i]
    <3>1. ASSUME NEW i \in 1 .. k PROVE b[i] = s[p + i]
      <4>1. i \in 1 .. (p + k) - (p + 1) + 1 /\ (p + 1) + i - 1 = p + i
        BY <1>0
      <4>2. QED
        BY <2>1, <4>1
    <3>2. QED
      BY <3>1
  <2>3. QED
    BY <1>0, <2>1, <2>2
<1> HIDE DEF a, b
<1>4. \A i \in 1 .. Len(a) : a[i] = b[i]
  <2>1. \A i \in 1 .. k : i \in 1 .. Len(s) - p
    BY <1>0
  <2>2. QED
    BY <1>1, <1>2, <1>3, <2>1
<1>5. a = b
  BY <1>2, <1>3, <1>4, SeqEqual
<1>6. QED
  BY <1>1, <1>3, <1>5 DEF a, b, r

(* The reader, where the file stays as it is, and where it is disturbed. *)
LEMMA ReaderStays ==
  ASSUME StoInv, fileIn' = fileIn, fileDisk' = fileDisk
  PROVE  ReaderTyped' /\ ReadInv'
<1>1. Exists' <=> Exists
  BY DEF Exists
<1>2. ReaderTyped'
  BY DEF StoInv, ReaderTyped, StoReaders
<1>3. StreamInv' <=> StreamInv
  BY <1>1 DEF StreamInv
<1>4. LinesRead => LinesRead'
  BY DEF LinesRead
<1>5. QED
  BY <1>1, <1>2, <1>3, <1>4 DEF StoInv, ReadInv

(* A change of the file says nothing of a read that is no longer clean. *)
LEMMA ReaderDisturbed ==
  ASSUME StoInv, Disturb
  PROVE  ReaderTyped' /\ ReadInv'
<1>1. /\ fileIn' \in [format : {"whole", "lines", "stream"}, sendError : BOOLEAN, at : {"wait", "read"}, pos : Nat,
                      out : {fileIn.out}, clean : BOOLEAN]
      /\ fileIn'.out = fileIn.out /\ fileIn'.clean = FALSE /\ fileIn'.at = fileIn.at /\ fileIn'.format = fileIn.format
  BY DEF StoInv, ReaderTyped, StoReaders, Disturb
<1>2. QED
  BY <1>1 DEF StoInv, ReaderTyped, StoReaders, ReadInv

(* A step of one writer keeps its settings. *)
LEMMA WriterSteps ==
  ASSUME DiskInv, NEW w \in FileWriters, NEW a \in {"wait", "open", "write", "stale", "dead"}, NEW u \in Nat,
         \/ \E e \in BOOLEAN : fileWriter' = [fileWriter EXCEPT ![w].at = a, ![w].unit = u, ![w].ended = e]
         \/ fileWriter' = [fileWriter EXCEPT ![w].at = a] /\ u = Writer(w).unit
  PROVE  /\ fileWriter' \in [FileWriters -> StoWriters] /\ AppendOnly' = AppendOnly
         /\ \A x \in FileWriters : x # w => Writer(x)' = Writer(x)
         /\ Writer(w)'.at = a /\ Writer(w)'.unit = u
<1>1. Writer(w) \in StoWriters /\ fileWriter \in [FileWriters -> StoWriters]
  BY DEF DiskInv, Writer
<1>2. PICK r : /\ fileWriter' = [fileWriter EXCEPT ![w] = r] /\ r \in StoWriters
               /\ r.at = a /\ r.unit = u /\ r.mode = Writer(w).mode
  <2>1. ASSUME NEW e \in BOOLEAN, fileWriter' = [fileWriter EXCEPT ![w].at = a, ![w].unit = u, ![w].ended = e]
        PROVE  \E r : /\ fileWriter' = [fileWriter EXCEPT ![w] = r] /\ r \in StoWriters
                      /\ r.at = a /\ r.unit = u /\ r.mode = Writer(w).mode
    <3> DEFINE r == [Writer(w) EXCEPT !.at = a, !.unit = u, !.ended = e]
    <3>1. fileWriter' = [fileWriter EXCEPT ![w] = r]
      BY <2>1 DEF Writer
    <3>2. r \in StoWriters /\ r.at = a /\ r.unit = u /\ r.mode = Writer(w).mode
      BY <1>1 DEF StoWriters
    <3>3. QED
      BY <3>1, <3>2
  <2>2. CASE fileWriter' = [fileWriter EXCEPT ![w].at = a] /\ u = Writer(w).unit
    <3> DEFINE r == [Writer(w) EXCEPT !.at = a]
    <3>1. fileWriter' = [fileWriter EXCEPT ![w] = r]
      BY <2>2 DEF Writer
    <3>2. r \in StoWriters /\ r.at = a /\ r.unit = u /\ r.mode = Writer(w).mode
      BY <1>1, <2>2 DEF StoWriters
    <3>3. QED
      BY <3>1, <3>2
  <2>3. QED
    BY <2>1, <2>2
<1>3. /\ fileWriter' \in [FileWriters -> StoWriters] /\ Writer(w)' = r
      /\ \A x \in FileWriters : x # w => Writer(x)' = Writer(x)
  BY <1>1, <1>2 DEF Writer
<1>4. \A x \in FileWriters : Writer(x)'.mode = Writer(x).mode
  BY <1>2, <1>3
<1>5. AppendOnly' = AppendOnly
  BY <1>4 DEF AppendOnly
<1>6. QED
  BY <1>2, <1>3, <1>5

(* A step that leaves the file and its reader alone. *)
LEMMA FileStays ==
  ASSUME StoInv, UNCHANGED <<fileDisk, fileLog, fileIn>>, fileMsgs' = [write |-> fileMsgs.write, read |-> fileMsgs'.read]
                   \/ fileMsgs' = [write |-> fileMsgs.write + 1, read |-> fileMsgs'.read],
         fileWriter' \in [FileWriters -> StoWriters], AppendOnly' = AppendOnly,
         \A w \in FileWriters : /\ Writer(w)'.at \in {"open", "write"} => Writer(w)'.unit > 0
                                /\ Writer(w)'.at = "write" => Exists
  PROVE  StoInv'
<1>1. ReaderTyped' /\ ReadInv'
  BY ReaderStays
<1>2. Exists' <=> Exists
  BY DEF Exists
<1>3. fileMsgs'.write \in Nat /\ fileMsgs' = [write |-> fileMsgs'.write, read |-> fileMsgs'.read]
  BY DEF StoInv, DiskInv
<1>4. DiskInv'
  BY <1>2, <1>3 DEF StoInv, DiskInv
<1>5. LogInv'
  BY <1>2 DEF StoInv, LogInv
<1>6. QED
  BY <1>1, <1>4, <1>5 DEF StoInv

(* One lemma per action. A message: a delete takes the lines away with the file. *)
LEMMA FileMessageKeeps ==
  ASSUME StoInv, NEW w \in FileWriters, NEW name \in BOOLEAN, NEW payload \in BOOLEAN, NEW parts \in PartKinds,
         FileMessage(w, name, payload, parts)
  PROVE  StoInv'
<1> DEFINE u == fileMsgs.write + 1
<1>0. DiskInv /\ fileMsgs.write \in Nat /\ u \in Nat /\ u > 0
  BY DEF StoInv, DiskInv
<1>1. fileMsgs' = [write |-> u, read |-> fileMsgs'.read]
  <2>1. fileMsgs' = [fileMsgs EXCEPT !.write = @ + 1] /\ fileMsgs = [write |-> fileMsgs.write, read |-> fileMsgs.read]
    BY DEF FileMessage, StoInv, DiskInv
  <2>2. QED
    BY <2>1
<1>2. CASE UNCHANGED <<fileDisk, fileWriter, fileLog, fileIn>>
  <2>1. AppendOnly' = AppendOnly /\ \A x : Writer(x)' = Writer(x)
    BY <1>2 DEF AppendOnly, Writer
  <2>2. QED
    BY <1>0, <1>1, <1>2, <2>1, FileStays DEF DiskInv
<1>3. CASE name /\ Writer(w).mode = "delete"
  <2>1. /\ fileDisk' = NoFile /\ fileLog' = <<>>
        /\ Exists => Disturb
        /\ ~Exists => fileIn' = fileIn
        /\ fileWriter' = [x \in FileWriters |-> IF Writer(x).at = "write" THEN [Writer(x) EXCEPT !.at = "stale"] ELSE Writer(x)]
    BY <1>3 DEF FileMessage
  <2>2. \A x \in FileWriters : /\ Writer(x)' \in StoWriters /\ Writer(x)'.at # "write" /\ Writer(x)'.mode = Writer(x).mode
                               /\ Writer(x)'.at = "open" => Writer(x)'.unit > 0
    <3>1. \A x \in FileWriters : Writer(x) \in StoWriters
      BY <1>0 DEF DiskInv, Writer
    <3>2. \A r \in StoWriters : /\ [r EXCEPT !.at = "stale"] \in StoWriters /\ [r EXCEPT !.at = "stale"].at = "stale"
                                /\ [r EXCEPT !.at = "stale"].mode = r.mode
      BY DEF StoWriters
    <3>3. \A x \in FileWriters : Writer(x)' = IF Writer(x).at = "write" THEN [Writer(x) EXCEPT !.at = "stale"] ELSE Writer(x)
      BY <2>1 DEF Writer
    <3>4. QED
      BY <1>0, <3>1, <3>2, <3>3 DEF DiskInv
  <2>3. ~AppendOnly'
    BY <1>3, <2>2 DEF AppendOnly
  <2>4. ~Exists'
    BY <2>1 DEF Exists
  <2>5. fileWriter' \in [FileWriters -> StoWriters]
    BY <2>1, <2>2 DEF Writer
  <2>6. fileDisk' \in Seq(Int) /\ fileLog' \in Seq(Nat \ {0})
    BY <2>1 DEF NoFile
  <2>7. fileMsgs'.write \in Nat /\ fileMsgs' = [write |-> fileMsgs'.write, read |-> fileMsgs'.read]
    BY <1>0, <1>1
  <2>8. DiskInv'
    BY <2>2, <2>4, <2>5, <2>6, <2>7 DEF DiskInv
  <2>9. ReaderTyped' /\ ReadInv'
    <3>1. CASE Exists
      BY <2>1, <3>1, ReaderDisturbed
    <3>2. CASE ~Exists
      <4>1. fileDisk' = fileDisk
        BY <2>1, <3>2 DEF Exists
      <4>2. QED
        BY <2>1, <2>3, <3>2, <4>1, ReaderStays
    <3>3. QED
      BY <3>1, <3>2
  <2>10. QED
    BY <2>3, <2>8, <2>9 DEF StoInv, LogInv
<1> DEFINE e == EndsLine(w, parts)
<1>4. CASE /\ \E at \in {"dead", "open"} : fileWriter' = [fileWriter EXCEPT ![w].at = at, ![w].unit = u, ![w].ended = e]
           /\ UNCHANGED <<fileDisk, fileLog, fileIn>>
  <2>1. PICK at \in {"dead", "open"} : fileWriter' = [fileWriter EXCEPT ![w].at = at, ![w].unit = u, ![w].ended = e]
    BY <1>4
  <2>5. e \in BOOLEAN
    BY DEF EndsLine
  <2>2. /\ fileWriter' \in [FileWriters -> StoWriters] /\ AppendOnly' = AppendOnly
        /\ \A x \in FileWriters : x # w => Writer(x)' = Writer(x)
        /\ Writer(w)'.at = at /\ Writer(w)'.unit = u
    <3>1. at \in {"wait", "open", "write", "stale", "dead"}
      OBVIOUS
    <3> HIDE DEF u, e
    <3>2. QED
      BY <1>0, <2>1, <2>5, <3>1, WriterSteps
  <2>3. \A x \in FileWriters : /\ Writer(x)'.at \in {"open", "write"} => Writer(x)'.unit > 0
                               /\ Writer(x)'.at = "write" => Exists
    BY <1>0, <2>1, <2>2 DEF DiskInv
  <2>4. QED
    BY <1>1, <1>4, <2>2, <2>3, FileStays
<1>5. QED
  <2>1. CASE ~name
    BY <1>2, <2>1 DEF FileMessage
  <2>2. CASE name /\ Writer(w).mode # "delete" /\ ~payload
    BY <1>2, <2>2 DEF FileMessage
  <2>3. CASE name /\ Writer(w).mode # "delete" /\ payload
    BY <1>4, <2>3 DEF FileMessage
  <2>4. QED
    BY <1>3, <2>1, <2>2, <2>3

(* The open of do_write: an appending one keeps the lines, another empties the file. *)
LEMMA DoOpenKeeps ==
  ASSUME StoInv, NEW w \in FileWriters, DoOpen(w)
  PROVE  StoInv'
<1>0. /\ DiskInv /\ Writer(w).at = "open" /\ Writer(w).unit \in Nat /\ Writer(w).unit > 0 /\ UNCHANGED fileMsgs
      /\ fileMsgs = [write |-> fileMsgs.write, read |-> fileMsgs.read] /\ fileMsgs.write \in Nat
  BY DEF StoInv, DiskInv, DoOpen, StoWriters, Writer
<1>1. CASE /\ fileDisk' = OpenAs(w)
           /\ fileWriter' = [fileWriter EXCEPT ![w].at = "write"]
           /\ fileLog' = IF OpenAs(w) = <<>> THEN <<>> ELSE fileLog
           /\ IF Exists /\ OpenAs(w) = fileDisk THEN fileIn' = fileIn ELSE Disturb
  <2>1. /\ fileWriter' \in [FileWriters -> StoWriters] /\ AppendOnly' = AppendOnly
        /\ \A x \in FileWriters : x # w => Writer(x)' = Writer(x)
        /\ Writer(w)'.at = "write" /\ Writer(w)'.unit = Writer(w).unit
    BY <1>0, <1>1, WriterSteps
  <2>2. OpenAs(w) = <<>> \/ (OpenAs(w) = fileDisk /\ Exists)
    BY DEF OpenAs, OpenKeep
  <2>3. Exists'
    BY <1>1, <2>2 DEF Exists, NoFile
  <2>4. fileDisk' \in Seq(Nat) /\ fileDisk' \in Seq(Int) /\ fileLog' \in Seq(Nat)
    <3>1. CASE OpenAs(w) = <<>>
      BY <1>1, <3>1
    <3>2. CASE OpenAs(w) # <<>>
      <4>1. fileDisk' = fileDisk /\ fileLog' = fileLog /\ Exists
        BY <1>1, <2>2, <3>2
      <4>2. fileDisk \in Seq(Nat)
        BY <1>0, <4>1, Zenon DEF DiskInv
      <4>3. fileDisk \in Seq(Int) /\ fileLog \in Seq(Nat)
        BY <1>0, Zenon DEF DiskInv
      <4>4. QED
        BY <4>1, <4>2, <4>3, Zenon
    <3>3. QED
      BY <3>1, <3>2
  <2>10. \A x \in FileWriters : Writer(x)'.at \in {"open", "write"} => Writer(x)'.unit > 0
    BY <1>0, <2>1 DEF DiskInv
  <2>11. fileMsgs'.write \in Nat /\ fileMsgs' = [write |-> fileMsgs'.write, read |-> fileMsgs'.read]
    BY <1>0
  <2>5. DiskInv'
    <3>1. (Exists => fileDisk \in Seq(Nat))'
      BY <2>4
    <3>2. \A x \in FileWriters : /\ Writer(x)'.at \in {"open", "write"} => Writer(x)'.unit > 0
                                 /\ Writer(x)'.at = "write" => Exists'
      BY <2>3, <2>10
    <3>3. QED
      BY <2>1, <2>4, <2>11, <3>1, <3>2 DEF DiskInv
  <2>6. ASSUME AppendOnly PROVE fileDisk' = fileLog'
    <3>1. CASE OpenAs(w) = <<>>
      BY <1>1, <3>1
    <3>2. CASE OpenAs(w) # <<>>
      <4>1. fileDisk' = fileDisk /\ fileLog' = fileLog /\ Exists
        BY <1>1, <2>2, <3>2
      <4>2. QED
        BY <2>6, <4>1 DEF StoInv, LogInv
    <3>3. QED
      BY <3>1, <3>2
  <2>7. LogInv'
    BY <2>1, <2>3, <2>6 DEF LogInv
  <2>8. ReaderTyped' /\ ReadInv'
    <3>1. CASE Exists /\ OpenAs(w) = fileDisk
      BY <1>1, <3>1, ReaderStays
    <3>2. CASE ~(Exists /\ OpenAs(w) = fileDisk)
      BY <1>1, <3>2, ReaderDisturbed
    <3>3. QED
      BY <3>1, <3>2
  <2>9. QED
    BY <2>5, <2>7, <2>8 DEF StoInv
<1>2. CASE fileWriter' = [fileWriter EXCEPT ![w].at = "wait"] /\ UNCHANGED <<fileDisk, fileLog, fileIn>>
  <2>1. /\ fileWriter' \in [FileWriters -> StoWriters] /\ AppendOnly' = AppendOnly
        /\ \A x \in FileWriters : x # w => Writer(x)' = Writer(x)
        /\ Writer(w)'.at = "wait"
    BY <1>0, <1>2, WriterSteps
  <2>2. \A x \in FileWriters : /\ Writer(x)'.at \in {"open", "write"} => Writer(x)'.unit > 0
                               /\ Writer(x)'.at = "write" => Exists
    BY <1>0, <2>1 DEF DiskInv
  <2>3. QED
    BY <1>0, <1>2, <2>1, <2>2, FileStays
<1>3. QED
  BY <1>1, <1>2 DEF DoOpen

(* The write of do_write: with appending writers one more payload, whole and last. *)
LEMMA DoWriteKeeps ==
  ASSUME StoInv, NEW w \in FileWriters, DoWrite(w)
  PROVE  StoInv'
<1> DEFINE u == Writer(w).unit
<1>0. /\ DiskInv /\ Writer(w) \in StoWriters /\ u \in Nat /\ UNCHANGED fileMsgs /\ fileDisk \in Seq(Int) /\ fileLog \in Seq(Nat)
      /\ fileMsgs = [write |-> fileMsgs.write, read |-> fileMsgs.read] /\ fileMsgs.write \in Nat
      /\ fileWriter' = [fileWriter EXCEPT ![w].at = "wait"]
  BY DEF StoInv, DiskInv, DoWrite, StoWriters, Writer
<1>1. /\ fileWriter' \in [FileWriters -> StoWriters] /\ AppendOnly' = AppendOnly
      /\ \A x \in FileWriters : x # w => Writer(x)' = Writer(x)
      /\ Writer(w)'.at = "wait"
  BY <1>0, WriterSteps
<1> HIDE DEF u
<1>2. CASE Writer(w).at = "write" /\ fileDisk' = WriteAll(w) /\ fileLog' = fileLog \o Record(w) /\ Disturb
  <2>1. Exists /\ u \in Nat \ {0} /\ fileDisk \in Seq(Nat)
    BY <1>0, <1>2 DEF DiskInv, u
  <2>2. <<u>> \in Seq(Nat) /\ <<LineEnd>> \in Seq(Nat) /\ <<>> \in Seq(Nat)
    BY <2>1 DEF LineEnd
  <2>3. Record(w) \in Seq(Nat) /\ Len(Record(w)) \in Nat
    <3>1. \A x, y \in Seq(Nat) : x \o y \in Seq(Nat)
      BY ConcatProperties
    <3>2. Record(w) = <<u>> \o (IF Writer(w).ended THEN <<LineEnd>> ELSE <<>>)
      BY DEF Record, u
    <3>3. Record(w) \in Seq(Nat)
      BY <2>2, <3>1, <3>2
    <3>4. QED
      BY <3>3, LenProperties
  <2>4. SubSeq(fileDisk, Len(Record(w)) + 1, Len(fileDisk)) \in Seq(Nat)
    <3>1. Len(fileDisk) \in Nat /\ \A i \in Len(Record(w)) + 1 .. Len(fileDisk) : fileDisk[i] \in Nat
      BY <2>1, <2>3
    <3>2. Len(Record(w)) + 1 \in Int /\ Len(fileDisk) \in Int
      BY <2>3, <3>1
    <3>3. QED
      BY <3>1, <3>2, SubSeqProperties
  <2>5. fileDisk' \in Seq(Nat)
    BY <1>2, <2>1, <2>3, <2>4 DEF WriteAll
  <2>6. fileDisk' \in Seq(Int)
    BY <2>5, SeqMonotonic
  <2>7. Exists'
    <3>1. NoFile \notin Seq(Nat)
      BY DEF NoFile
    <3>2. QED
      BY <2>5, <3>1 DEF Exists
  <2>8. fileLog' \in Seq(Nat)
    BY <1>0, <1>2, <2>3, ConcatProperties
  <2>9. \A x \in FileWriters : Writer(x)'.at \in {"open", "write"} => Writer(x)'.unit > 0
    BY <1>0, <1>1 DEF DiskInv
  <2>10. DiskInv'
    BY <1>0, <1>1, <2>5, <2>6, <2>7, <2>8, <2>9 DEF DiskInv
  <2>11. LogInv'
    <3>1. ASSUME AppendOnly PROVE fileDisk' = fileLog'
      <4>1. Writer(w).mode = "append" /\ fileDisk = fileLog
        BY <2>1, <3>1 DEF AppendOnly, StoInv, LogInv
      <4>2. QED
        BY <1>2, <4>1 DEF WriteAll
    <3>2. QED
      BY <1>1, <2>7, <3>1 DEF LogInv
  <2>12. ReaderTyped' /\ ReadInv'
    BY <1>2, ReaderDisturbed
  <2>13. QED
    BY <2>10, <2>11, <2>12 DEF StoInv
<1>3. CASE UNCHANGED <<fileDisk, fileLog, fileIn>>
  <2>1. \A x \in FileWriters : /\ Writer(x)'.at \in {"open", "write"} => Writer(x)'.unit > 0
                               /\ Writer(x)'.at = "write" => Exists
    BY <1>0, <1>1 DEF DiskInv
  <2>2. QED
    BY <1>0, <1>1, <1>3, <2>1, FileStays
<1>4. QED
  BY <1>2, <1>3 DEF DoWrite, u

(* What a step of the reader leaves alone. *)
LEMMA ReaderMoves ==
  ASSUME StoInv, UNCHANGED <<fileDisk, fileWriter, fileLog>>, fileMsgs' = [write |-> fileMsgs.write, read |-> fileMsgs'.read],
         ReaderTyped', ReadInv'
  PROVE  StoInv'
<1>1. (Exists' <=> Exists) /\ AppendOnly' = AppendOnly /\ \A x : Writer(x)' = Writer(x)
  BY DEF Exists, AppendOnly, Writer
<1>2. fileMsgs'.write = fileMsgs.write /\ fileMsgs' = [write |-> fileMsgs'.write, read |-> fileMsgs'.read]
  OBVIOUS
<1>3. DiskInv'
  BY <1>1, <1>2 DEF StoInv, DiskInv
<1>4. LogInv'
  BY <1>1 DEF StoInv, LogInv
<1>5. QED
  BY <1>3, <1>4 DEF StoInv

(* A message to file in: the whole file or its lines at once, or the start of a stream. *)
LEMMA FileInMessageKeeps ==
  ASSUME StoInv, NEW name \in BOOLEAN, FileInMessage(name)
  PROVE  StoInv'
<1>0. /\ fileIn \in StoReaders /\ fileIn.at = "wait" /\ UNCHANGED <<fileDisk, fileWriter, fileLog>> /\ fileDisk \in Seq(Int)
  BY DEF StoInv, ReaderTyped, FileInMessage, DiskInv
<1>1. fileMsgs' = [write |-> fileMsgs.write, read |-> fileMsgs'.read]
  <2>1. fileMsgs' = [fileMsgs EXCEPT !.read = @ + 1] /\ fileMsgs = [write |-> fileMsgs.write, read |-> fileMsgs.read]
    BY DEF FileInMessage, StoInv, DiskInv
  <2>2. QED
    BY <2>1
<1>2. (Exists' <=> Exists) /\ AppendOnly' = AppendOnly
  BY <1>0 DEF Exists, AppendOnly, Writer
<1> SUFFICES ReaderTyped' /\ ReadInv'
  BY <1>0, <1>1, ReaderMoves
<1>3. CASE fileIn' = fileIn
  BY <1>0, <1>2, <1>3, ReaderStays
<1>4. ASSUME NEW out, NEW clean \in BOOLEAN, fileIn' = [fileIn EXCEPT !.out = out, !.clean = clean]
      PROVE  /\ fileIn'.out = out /\ fileIn'.clean = clean /\ fileIn'.at = "wait" /\ fileIn'.format = fileIn.format
             /\ fileIn' \in StoReaders'
  BY <1>0, <1>4 DEF StoReaders
<1>5. CASE name /\ ~Exists
  <2> DEFINE out == IF fileIn.sendError THEN <<Part(<<-2>>, 0, 0)>> ELSE <<>>
  <2>1. fileIn' = [fileIn EXCEPT !.out = out, !.clean = FALSE]
    BY <1>5 DEF FileInMessage
  <2>2. out \in Seq(Elems(out))
    <3>1. <<Part(<<-2>>, 0, 0)>> \in Seq(Elems(<<Part(<<-2>>, 0, 0)>>))
      BY DEF Elems
    <3>2. <<>> \in Seq(Elems(<<>>))
      OBVIOUS
    <3>3. CASE fileIn.sendError
      <4>1. out = <<Part(<<-2>>, 0, 0)>>
        BY <3>3
      <4>2. QED
        BY <3>1, <4>1
    <3>4. CASE ~fileIn.sendError
      <4>1. out = <<>>
        BY <3>4
      <4>2. QED
        BY <3>2, <4>1
    <3>5. QED
      BY <3>3, <3>4
  <2> HIDE DEF out
  <2>3. fileIn'.out = out /\ fileIn'.clean = FALSE /\ fileIn'.at = "wait" /\ fileIn' \in StoReaders'
    BY <1>4, <2>1
  <2>4. QED
    BY <2>2, <2>3 DEF ReaderTyped, ReadInv
<1>6. CASE name /\ Exists /\ fileIn.format = "whole"
  <2> DEFINE out == <<Part(fileDisk, 0, 1)>>
  <2>1. fileIn' = [fileIn EXCEPT !.out = out, !.clean = TRUE]
    BY <1>6 DEF FileInMessage
  <2>2. out \in Seq(Elems(out)) /\ Numbered(out)
    BY DEF Elems, Numbered, Part
  <2> HIDE DEF out
  <2>3. fileIn'.out = out /\ fileIn'.clean = TRUE /\ fileIn'.at = "wait" /\ fileIn' \in StoReaders' /\ fileIn'.format = "whole"
    BY <1>4, <1>6, <2>1
  <2>4. QED
    BY <1>0, <1>2, <1>6, <2>2, <2>3 DEF ReaderTyped, ReadInv, StreamInv, LinesRead, out
<1>7. CASE name /\ Exists /\ fileIn.format = "lines"
  <2> DEFINE out == ReadLines(fileDisk)
  <2>1. fileIn' = [fileIn EXCEPT !.out = out, !.clean = TRUE]
    BY <1>7 DEF FileInMessage
  <2>2. /\ out \in Seq(Elems(out)) /\ Numbered(out)
        /\ Len(out) = Len(LinesOf(fileDisk)) /\ \A i \in 1 .. Len(LinesOf(fileDisk)) : out[i].payload = LinesOf(fileDisk)[i]
    BY <1>0, LinesNumbered
  <2> HIDE DEF out
  <2>3. fileIn'.out = out /\ fileIn'.clean = TRUE /\ fileIn'.at = "wait" /\ fileIn' \in StoReaders' /\ fileIn'.format = "lines"
    BY <1>4, <1>7, <2>1
  <2>4. InLines(out, fileDisk)
    BY <1>0, LinesAre DEF out
  <2>5. LinesRead'
    BY <1>0, <1>2, <2>3, <2>4 DEF LinesRead
  <2>6. QED
    BY <1>2, <1>7, <2>2, <2>3, <2>5 DEF ReaderTyped, ReadInv, StreamInv
<1>8. CASE name /\ Exists /\ fileIn.format = "stream"
  <2>1. fileIn' = [fileIn EXCEPT !.at = "read", !.pos = 0, !.out = <<>>, !.clean = TRUE]
    BY <1>8 DEF FileInMessage
  <2>2. /\ fileIn'.out = <<>> /\ fileIn'.at = "read" /\ fileIn'.pos = 0 /\ fileIn'.format = "stream"
        /\ fileIn' \in StoReaders'
    BY <1>0, <1>8, <2>1 DEF StoReaders
  <2>3. Lesser(0 * FileChunk, Len(fileDisk)) = 0
    BY <1>0, StoAssumption DEF Lesser
  <2>4. StreamInv' /\ Numbered(<<>>)
    BY <1>0, <1>2, <1>8, <2>2, <2>3 DEF StreamInv, DiskPieces, Numbered
  <2>5. QED
    BY <2>2, <2>4 DEF ReaderTyped, ReadInv, LinesRead, Elems
<1>9. fileIn.format \in {"whole", "lines", "stream"}
  BY <1>0 DEF StoReaders
<1>10. QED
  <2>1. CASE ~name
    BY <1>3, <2>1 DEF FileInMessage
  <2>2. QED
    BY <1>5, <1>6, <1>7, <1>8, <1>9, <2>1

(* A chunk ends at the next multiple of the buffer, or at the end. *)
LEMMA ChunkBounds ==
  ASSUME NEW q \in Nat, NEW d \in Nat, NEW c \in Nat, NEW p, p = Lesser(q, d), p < d, c > 0
  PROVE  q < d /\ p = q /\ p + Lesser(d - p, c) = Lesser(q + c, d) /\ (Lesser(d - p, c) < c <=> d < q + c)
<1>1. q < d /\ p = q
  BY DEF Lesser
<1>2. Lesser(d - q, c) = IF d < q + c THEN d - q ELSE c
  BY <1>1 DEF Lesser
<1>3. Lesser(q + c, d) = IF d < q + c THEN d ELSE q + c
  BY DEF Lesser
<1>4. QED
  BY <1>1, <1>2, <1>3

(* A chunk read at p after m of them: the next piece of the file, or nothing at its end. *)
IsNext(s, m, p, chunk) ==
  /\ chunk = <<>> => m * FileChunk >= Len(s)
  /\ chunk # <<>> => /\ m * FileChunk < Len(s) /\ p = m * FileChunk
                     /\ chunk = SubSeq(s, m * FileChunk + 1, Lesser((m + 1) * FileChunk, Len(s)))
                     /\ p + Len(chunk) = Lesser((m + 1) * FileChunk, Len(s))
                     /\ IsLast(Len(chunk)) <=> Len(s) < (m + 1) * FileChunk

(* The next chunk of an undisturbed stream is the next piece of the file, and the end of the
   stream is the end of the file.                                           *)
LEMMA NextChunk ==
  ASSUME NEW s \in Seq(Int), NEW m \in Nat, NEW p, p = Lesser(m * FileChunk, Len(s)), NEW left, left = SubSeq(s, p + 1, Len(s)),
         NEW chunk, chunk = SubSeq(left, 1, Lesser(Len(left), FileChunk))
  PROVE  IsNext(s, m, p, chunk)
<1>0. FileChunk \in Nat /\ FileChunk > 0
  BY StoAssumption
<1>1. PICK c \in Nat : c = FileChunk /\ c > 0
  BY <1>0
<1>2. PICK d \in Nat : d = Len(s)
  OBVIOUS
<1>3. PICK q \in Nat : q = m * FileChunk /\ q + c = (m + 1) * FileChunk
  BY <1>1
<1>4. p \in 0 .. d /\ p = Lesser(q, d)
  BY <1>1, <1>2, <1>3 DEF Lesser
<1> DEFINE k == Lesser(d - p, c)
<1>5. k \in 0 .. d - p /\ (k = 0 => p = d)
  BY <1>1, <1>4 DEF Lesser
<1>6. Len(left) = d - p /\ chunk = SubSeq(s, p + 1, p + k) /\ Len(chunk) = k
  <2>1. p \in 0 .. Len(s) /\ k \in 0 .. Len(s) - p
    BY <1>2, <1>4, <1>5
  <2> HIDE DEF k
  <2>2. /\ SubSeq(left, 1, k) = SubSeq(s, p + 1, p + k) /\ Len(left) = Len(s) - p /\ Len(SubSeq(s, p + 1, p + k)) = k
    BY <2>1, PartOfRest
  <2>3. Len(left) = d - p
    BY <1>2, <2>2
  <2>4. Lesser(Len(left), FileChunk) = k
    BY <1>1, <2>3 DEF k
  <2>5. QED
    BY <2>2, <2>3, <2>4
<1>7. ASSUME chunk = <<>> PROVE q >= d
  <2>1. k = 0
    BY <1>6, <1>7
  <2>2. p = d
    BY <1>5, <2>1
  <2>3. QED
    BY <1>3, <1>4, <2>2 DEF Lesser
<1>8. ASSUME chunk # <<>> PROVE q < d /\ p = q /\ p + k = Lesser(q + c, d) /\ (k < c <=> d < q + c)
  <2>1. k > 0
    <3>1. CASE k = 0
      <4>1. SubSeq(s, p + 1, p + k) = <<>>
        BY <1>4, <3>1, SubSeqEmpty
      <4>2. QED
        BY <1>6, <1>8, <4>1
    <3>2. QED
      BY <1>1, <1>4, <1>5, <3>1
  <2>2. p < d
    BY <1>1, <1>4, <1>5, <2>1
  <2>3. k = Lesser(d - p, c)
    OBVIOUS
  <2> HIDE DEF k
  <2>4. q \in Nat /\ d \in Nat /\ c \in Nat /\ p = Lesser(q, d) /\ p < d /\ c > 0
    BY <1>1, <1>4, <2>2
  <2>5. q < d /\ p = q /\ p + Lesser(d - p, c) = Lesser(q + c, d) /\ (Lesser(d - p, c) < c <=> d < q + c)
    BY <2>4, ChunkBounds, ZenonT(30)
  <2>6. QED
    BY <2>3, <2>5, Zenon
<1> HIDE DEF k
<1>9. ASSUME chunk # <<>> PROVE chunk = SubSeq(s, q + 1, Lesser(q + c, d))
  BY <1>6, <1>8, <1>9
<1>10. IsLast(Len(chunk)) <=> k < c
  BY <1>1, <1>6 DEF IsLast
<1>11. QED
  BY <1>2, <1>3, <1>6, <1>7, <1>8, <1>9, <1>10 DEF IsNext

(* One read of read_file_stream: one more piece, or the end. *)
LEMMA ReadChunkKeeps ==
  ASSUME StoInv, ReadChunk
  PROVE  StoInv'
<1> DEFINE left  == IF Exists THEN SubSeq(fileDisk, fileIn.pos + 1, Len(fileDisk)) ELSE <<>>
           chunk == SubSeq(left, 1, Lesser(Len(left), FileChunk))
           e == Part(chunk, Len(fileIn.out), IF IsLast(Len(chunk)) THEN Len(fileIn.out) + 1 ELSE 0)
<1>0. /\ fileIn \in StoReaders /\ fileIn.at = "read" /\ fileIn.format = "stream" /\ fileIn.pos \in Nat
      /\ UNCHANGED <<fileDisk, fileWriter, fileLog, fileMsgs>> /\ fileDisk \in Seq(Int)
      /\ fileMsgs = [write |-> fileMsgs.write, read |-> fileMsgs.read] /\ fileIn.out \in Seq(Elems(fileIn.out))
  BY DEF StoInv, ReaderTyped, ReadChunk, DiskInv, StoReaders
<1>1. fileIn' = IF chunk = <<>> THEN [fileIn EXCEPT !.at = "wait"]
                ELSE [fileIn EXCEPT !.pos = @ + Len(chunk), !.out = Append(@, e)]
  BY DEF ReadChunk
<1>2. (Exists' <=> Exists) /\ AppendOnly' = AppendOnly
  BY <1>0 DEF Exists, AppendOnly, Writer
<1>3. PICK m \in Nat : m = Len(fileIn.out) /\ DOMAIN fileIn.out = 1 .. m
  BY <1>0
<1>4. Len(chunk) \in Nat
  <2>1. left \in Seq(Int)
    <3>1. SubSeq(fileDisk, fileIn.pos + 1, Len(fileDisk)) \in Seq(Int)
      <4>1. Len(fileDisk) \in Int /\ fileIn.pos + 1 \in Int /\ \A i \in fileIn.pos + 1 .. Len(fileDisk) : fileDisk[i] \in Int
        BY <1>0
      <4>2. QED
        BY <4>1, SubSeqProperties
    <3>2. QED
      BY <3>1
  <2> HIDE DEF left
  <2>2. Lesser(Len(left), FileChunk) \in Int /\ \A i \in 1 .. Lesser(Len(left), FileChunk) : left[i] \in Int
    BY <2>1, StoAssumption DEF Lesser
  <2>3. chunk \in Seq(Int)
    BY <2>2, SubSeqProperties
  <2>4. QED
    BY <2>3
<1>5. fileIn.clean => /\ Exists /\ fileIn.pos = Lesser(m * FileChunk, Len(fileDisk)) /\ DiskPieces(fileIn.out, fileDisk)
                      /\ Numbered(fileIn.out)
  BY <1>0, <1>3 DEF StoInv, ReadInv, StreamInv
<1>6. fileIn.clean =>
        /\ chunk = <<>> => m * FileChunk >= Len(fileDisk)
        /\ chunk # <<>> => /\ m * FileChunk < Len(fileDisk)
                           /\ chunk = SubSeq(fileDisk, m * FileChunk + 1, Lesser((m + 1) * FileChunk, Len(fileDisk)))
                           /\ fileIn.pos + Len(chunk) = Lesser((m + 1) * FileChunk, Len(fileDisk))
                           /\ IsLast(Len(chunk)) <=> Len(fileDisk) < (m + 1) * FileChunk
  <2>1. ASSUME fileIn.clean PROVE left = SubSeq(fileDisk, fileIn.pos + 1, Len(fileDisk))
    BY <1>5, <2>1
  <2>2. chunk = SubSeq(left, 1, Lesser(Len(left), FileChunk))
    OBVIOUS
  <2> HIDE DEF left, chunk
  <2>3. ASSUME fileIn.clean
        PROVE  /\ chunk = <<>> => m * FileChunk >= Len(fileDisk)
               /\ chunk # <<>> => /\ m * FileChunk < Len(fileDisk)
                                  /\ chunk = SubSeq(fileDisk, m * FileChunk + 1, Lesser((m + 1) * FileChunk, Len(fileDisk)))
                                  /\ fileIn.pos + Len(chunk) = Lesser((m + 1) * FileChunk, Len(fileDisk))
                                  /\ IsLast(Len(chunk)) <=> Len(fileDisk) < (m + 1) * FileChunk
    <3>1. /\ fileDisk \in Seq(Int) /\ fileIn.pos = Lesser(m * FileChunk, Len(fileDisk))
          /\ left = SubSeq(fileDisk, fileIn.pos + 1, Len(fileDisk))
      BY <1>0, <1>5, <2>1, <2>3
    <3>2. PICK s, p, l, x : s \in Seq(Int) /\ s = fileDisk /\ p = fileIn.pos /\ l = left /\ x = chunk
      BY <3>1
    <3>3. p = Lesser(m * FileChunk, Len(s)) /\ l = SubSeq(s, p + 1, Len(s)) /\ x = SubSeq(l, 1, Lesser(Len(l), FileChunk))
      BY <2>2, <3>1, <3>2
    <3>4. IsNext(s, m, p, x)
      BY <3>2, <3>3, NextChunk, Zenon
    <3>5. QED
      BY <3>2, <3>4 DEF IsNext
  <2>4. QED
    BY <2>3
<1> HIDE DEF chunk, left
<1> SUFFICES ReaderTyped' /\ ReadInv'
  BY <1>0, ReaderMoves
<1>7. CASE chunk = <<>>
  <2>1. /\ fileIn'.out = fileIn.out /\ fileIn'.at = "wait" /\ fileIn'.format = "stream" /\ fileIn'.clean = fileIn.clean
        /\ fileIn' \in StoReaders'
    BY <1>0, <1>1, <1>7 DEF StoReaders
  <2>2. ReaderTyped'
    BY <1>0, <2>1 DEF ReaderTyped
  <2>3. ASSUME fileIn.clean PROVE StreamInv' /\ LinesRead' /\ Numbered(fileIn.out)
    BY <1>0, <1>3, <1>5, <1>6, <1>7, <2>1, <2>3 DEF StreamInv, LinesRead
  <2>4. QED
    BY <1>2, <1>5, <2>1, <2>2, <2>3 DEF ReadInv
<1>8. CASE chunk # <<>>
  <2> DEFINE new == Append(fileIn.out, e)
  <2>1. /\ fileIn'.out = new /\ fileIn'.pos = fileIn.pos + Len(chunk) /\ fileIn'.at = "read" /\ fileIn'.format = "stream"
        /\ fileIn'.clean = fileIn.clean /\ fileIn' \in StoReaders'
    <3> DEFINE p == fileIn.pos + Len(chunk)
    <3>1. p \in Nat
      BY <1>0, <1>4
    <3>2. fileIn' = [fileIn EXCEPT !.pos = p, !.out = new]
      BY <1>1, <1>8
    <3> HIDE DEF new, p
    <3>3. /\ fileIn'.out = new /\ fileIn'.pos = p /\ fileIn'.at = "read" /\ fileIn'.format = "stream"
          /\ fileIn'.clean = fileIn.clean /\ fileIn' \in StoReaders'
      BY <1>0, <3>1, <3>2 DEF StoReaders
    <3>4. QED
      BY <3>3 DEF p
  <2>2. /\ new \in Seq(Elems(new)) /\ Len(new) = m + 1 /\ DOMAIN new = 1 .. m + 1
        /\ new[m + 1] = e /\ \A i \in 1 .. m : new[i] = fileIn.out[i]
    <3> HIDE DEF e
    <3>1. QED
      BY <1>0, <1>3, AppendElems
  <2>3. e.payload = chunk /\ e.index = m /\ e.count = IF IsLast(Len(chunk)) THEN m + 1 ELSE 0
    BY <1>3 DEF Part
  <2> HIDE DEF new, e
  <2>4. ReaderTyped'
    BY <2>1, <2>2 DEF ReaderTyped
  <2>5. ASSUME fileIn.clean PROVE DiskPieces(new, fileDisk) /\ Numbered(new)
    <3>0. PICK d \in Nat : d = Len(fileDisk)
      BY <1>0
    <3>1. DiskPieces(new, fileDisk)
      <4> SUFFICES ASSUME NEW i \in 1 .. m + 1
                   PROVE  /\ (i - 1) * FileChunk < Len(fileDisk) /\ new[i].index = i - 1
                          /\ new[i].payload = SubSeq(fileDisk, (i - 1) * FileChunk + 1, Lesser(i * FileChunk, Len(fileDisk)))
                          /\ new[i].count = IF Len(fileDisk) < i * FileChunk THEN i ELSE 0
        BY <2>2 DEF DiskPieces
      <4>1. CASE i \in 1 .. m
        BY <1>3, <1>5, <2>2, <2>5, <4>1 DEF DiskPieces
      <4>2. CASE i = m + 1
        <5>1. i - 1 = m
          BY <4>2
        <5>2. new[i] = e
          BY <2>2, <4>2
        <5>3. QED
          BY <1>6, <1>8, <2>3, <2>5, <4>2, <5>1, <5>2
      <4>3. QED
        BY <4>1, <4>2
    <3>2. Numbered(new)
      <4> SUFFICES ASSUME NEW i \in 1 .. m + 1
                   PROVE  new[i].index = i - 1 /\ new[i].count \in IF i = m + 1 THEN {0, i} ELSE {0}
        BY <2>2 DEF Numbered
      <4>1. new[i].index = i - 1 /\ new[i].count = IF Len(fileDisk) < i * FileChunk THEN i ELSE 0
        BY <2>2, <3>1 DEF DiskPieces
      <4>2. CASE i = m + 1
        BY <4>1, <4>2
      <4>3. CASE i \in 1 .. m
        <5>1. ((i + 1) - 1) * FileChunk < Len(fileDisk)
          <6>1. i + 1 \in 1 .. m + 1
            BY <4>3
          <6>2. QED
            BY <2>2, <3>1, <6>1 DEF DiskPieces
        <5>2. PICK x \in Int : x = i * FileChunk
          BY <4>3, StoAssumption
        <5>3. (i + 1) - 1 = i
          BY <4>3
        <5>4. x < d
          BY <3>0, <5>1, <5>2, <5>3
        <5>5. ~(Len(fileDisk) < i * FileChunk)
          BY <3>0, <5>2, <5>4
        <5>6. i # m + 1
          BY <4>3
        <5>7. QED
          BY <4>1, <5>5, <5>6
      <4>4. QED
        BY <4>2, <4>3
    <3>3. QED
      BY <3>1, <3>2
  <2>6. ASSUME fileIn.clean PROVE StreamInv' /\ LinesRead'
    <3>1. fileIn'.pos = Lesser(Len(new) * FileChunk, Len(fileDisk))
      BY <1>6, <1>8, <2>1, <2>2, <2>6
    <3>2. QED
      BY <1>0, <1>2, <1>5, <2>1, <2>5, <2>6, <3>1 DEF StreamInv, LinesRead
  <2>7. QED
    BY <1>2, <1>5, <2>1, <2>4, <2>5, <2>6 DEF ReadInv
<1>9. QED
  BY <1>7, <1>8

(* No file, no message, nothing read. *)
LEMMA StoInitial == StoInit => StoInv
<1> SUFFICES ASSUME StoInit PROVE StoInv
  OBVIOUS
<1>1. /\ fileDisk = NoFile /\ fileLog = <<>> /\ fileMsgs = [write |-> 0, read |-> 0]
      /\ fileWriter \in [FileWriters -> IdleWriters]
  <2>1. fileDisk = NoFile /\ fileLog = <<>> /\ fileMsgs = [write |-> 0, read |-> 0]
    BY DEF StoInit
  <2>2. fileWriter \in [FileWriters -> IdleWriters]
    BY DEF StoInit
  <2>3. QED
    BY <2>1, <2>2
<1>2. PICK f \in {"whole", "lines", "stream"}, b \in BOOLEAN :
        fileIn = [format |-> f, sendError |-> b, at |-> "wait", pos |-> 0, out |-> <<>>, clean |-> TRUE]
  BY DEF StoInit
<1>3. ~Exists
  BY <1>1 DEF Exists
<1>4. fileWriter \in [FileWriters -> StoWriters] /\ \A w \in FileWriters : Writer(w).at = "wait"
  <2>1. ASSUME NEW r \in IdleWriters PROVE r \in StoWriters /\ r.at = "wait"
    <3>1. r = [mode |-> r.mode, newline |-> r.newline, at |-> r.at, unit |-> r.unit, ended |-> r.ended]
      BY DEF IdleWriters
    <3>2. r.mode \in FileModes /\ r.newline \in BOOLEAN /\ r.at = "wait" /\ r.unit = 0 /\ r.ended \in BOOLEAN
      BY DEF IdleWriters
    <3>3. r.unit \in Nat /\ r.at \in {"wait", "open", "write", "stale", "dead"}
      BY <3>2
    <3>4. QED
      BY <3>1, <3>2, <3>3, SMT DEF StoWriters
  <2>2. \A w \in FileWriters : Writer(w) \in IdleWriters
    <3>1. QED
      BY <1>1 DEF Writer
  <2>3. fileWriter = [w \in FileWriters |-> Writer(w)]
    <3>1. QED
      BY <1>1 DEF Writer
  <2>4. QED
    <3>1. QED
      BY <2>1, <2>2, <2>3
<1>5. fileDisk \in Seq(Int) /\ fileLog \in Seq(Nat)
  BY <1>1 DEF NoFile
<1>6. fileMsgs.write \in Nat /\ fileMsgs = [write |-> fileMsgs.write, read |-> fileMsgs.read]
  BY <1>1
<1>7. DiskInv
  BY <1>3, <1>4, <1>5, <1>6 DEF DiskInv
<1>8. LogInv
  BY <1>1, <1>3 DEF LogInv
<1>9. fileIn \in StoReaders /\ fileIn.out = <<>> /\ fileIn.at = "wait"
  BY <1>2 DEF StoReaders
<1>10. ReaderTyped /\ ReadInv
  BY <1>9 DEF ReaderTyped, ReadInv, Numbered, StreamInv, DiskPieces, LinesRead
<1>11. QED
  BY <1>7, <1>8, <1>10 DEF StoInv

(* The watch node leaves the file, its writers and its reader alone. *)
LEMMA StoStays ==
  ASSUME StoInv, UNCHANGED <<fileDisk, fileWriter, fileLog, fileIn, fileMsgs>>
  PROVE  StoInv'
<1>1. ReaderTyped' /\ ReadInv'
  <2>1. AppendOnly' = AppendOnly
    BY DEF AppendOnly, Writer
  <2>2. QED
    BY <2>1, ReaderStays
<1>2. fileMsgs' = [write |-> fileMsgs.write, read |-> fileMsgs'.read]
  BY DEF StoInv, DiskInv
<1>3. QED
  BY <1>1, <1>2, ReaderMoves

(* What is known of a read says what a finished one is. *)
LEMMA StoInvReads == StoInv => FileReadsBack
<1> SUFFICES ASSUME StoInv, fileIn.at = "wait", fileIn.clean, fileIn.out # <<>>
             PROVE  /\ fileIn.format # "lines" =>
                         InPieces(fileIn.out, IF fileIn.format = "stream" THEN FileChunk ELSE Len(fileDisk))
                    /\ Numbered(fileIn.out)
                    /\ fileIn.format = "lines" => InLines(fileIn.out, fileDisk)
                    /\ AppendOnly => fileDisk = fileLog
  BY DEF FileReadsBack, Numbered
<1>1. Numbered(fileIn.out) /\ StreamInv /\ LinesRead /\ (fileIn.format = "whole" => fileIn.out = <<Part(fileDisk, 0, 1)>>)
  BY DEF StoInv, ReadInv
<1>0. AppendOnly => fileDisk = fileLog
  BY DEF StoInv, ReadInv, LogInv
<1>2. fileIn.format \in {"whole", "lines", "stream"} /\ fileDisk \in Seq(Int)
  BY DEF StoInv, ReaderTyped, StoReaders, DiskInv
<1>3. CASE fileIn.format = "stream"
  BY <1>0, <1>1, <1>3 DEF StreamInv, DiskPieces, InPieces
<1>4. CASE fileIn.format = "lines"
  BY <1>0, <1>1, <1>4 DEF LinesRead
<1>5. CASE fileIn.format = "whole"
  <2> DEFINE out == <<Part(fileDisk, 0, 1)>>
  <2>1. fileIn.out = out /\ Len(out) = 1 /\ DOMAIN out = 1 .. 1 /\ out[1].payload = fileDisk
    BY <1>1, <1>5 DEF Part
  <2> HIDE DEF out
  <2>2. PICK d \in Nat : d = Len(fileDisk)
    BY <1>2
  <2>3. (1 - 1) * d + 1 = 1 /\ Lesser(1 * d, d) = d /\ 1 * d >= d
    BY DEF Lesser
  <2>4. SubSeq(fileDisk, 1, Len(fileDisk)) = fileDisk
    BY <1>2
  <2>5. InPieces(out, Len(fileDisk))
    <3>1. \A i \in DOMAIN out : i = 1
      BY <2>1
    <3>2. QED
      BY <2>1, <2>2, <2>3, <2>4, <3>1 DEF InPieces
  <2>6. QED
    BY <1>0, <1>1, <1>5, <2>1, <2>5
<1>6. QED
  BY <1>2, <1>3, <1>4, <1>5

(* A finished read that nothing disturbed is the file, in pieces without a gap, numbered
   from 0, the count on the last part only; its lines are what stands between the line ends
   of the file, all of them in order; and with appending file nodes the file is what they
   wrote, one whole payload after another with the line end that goes with it, for any
   number of writers, any size of the buffer and any bounds (file.rs do_write, file_in.rs
   read_file_lines, read_file_stream).                                      *)
THEOREM FileIsReadBack == StoSpec => []FileReadsBack
<1>1. StoInit => StoInv
  BY StoInitial
<1>2. StoInv /\ [StoNext]_stoVars => StoInv'
  <2> SUFFICES ASSUME StoInv, [StoNext]_stoVars PROVE StoInv'
    OBVIOUS
  <2>1. ASSUME NEW w \in FileWriters, NEW name \in BOOLEAN, NEW payload \in BOOLEAN, NEW parts \in PartKinds,
               FileMessage(w, name, payload, parts)
        PROVE  StoInv'
    BY <2>1, FileMessageKeeps
  <2>2. ASSUME NEW w \in FileWriters, DoOpen(w) \/ DoWrite(w) PROVE StoInv'
    BY <2>2, DoOpenKeeps, DoWriteKeeps
  <2>3. ASSUME NEW name \in BOOLEAN, FileInMessage(name) PROVE StoInv'
    BY <2>3, FileInMessageKeeps
  <2>4. CASE ReadChunk
    BY <2>4, ReadChunkKeeps
  <2>5. CASE Callback \/ WatchSends
    BY <2>5, StoStays DEF Callback, WatchSends
  <2>6. CASE UNCHANGED stoVars
    BY <2>6, StoStays DEF stoVars
  <2>7. QED
    BY <2>1, <2>2, <2>3, <2>4, <2>5, <2>6 DEF StoNext
<1>3. QED
  BY <1>1, <1>2, StoInvReads, PTL DEF StoSpec

-----------------------------------------------------------------------------
(* BatchSort.                                                               *)

(* A sequence, or what groups hold, without repetition.                     *)
Once(s) == \A i, j \in DOMAIN s : s[i] = s[j] => i = j

BatchPending(n) == [topic : BatchTopics \cup {""}, id : BatchGroups, msgs : Seq(1 .. n), count : 0 .. 2]
InGroups(gs) == UNION {ToSet(g.msgs) : g \in gs}

(* No message is in two groups or twice in one, and no group is empty.      *)
Apart(gs) ==
  \A g \in gs : g.msgs # <<>> /\ Once(g.msgs) /\ \A h \in gs : g # h => ToSet(g.msgs) \cap ToSet(h.msgs) = {}

BtcHeld == ToSet(btcPend) \cup InGroups(btcGroups)
BtcSent == {i \in 1 .. BatchMax : btcSent[i] > 0}
BtcEnded == btcDone \cup btcError \cup btcGone

BatchTypes ==
  /\ btcIn \in 0 .. BatchMax /\ btcPend \in Seq(1 .. btcIn) /\ btcTask \in Seq(1 .. btcIn)
  /\ btcGroups \subseteq BatchPending(btcIn) /\ btcSent \in [1 .. BatchMax -> Nat]

(* Which of its buffers a mode uses, how far they are filled, and that what
   they hold is in order.                                                   *)
BatchBuffers ==
  /\ btcMode = "count" => btcTask = <<>> /\ btcGroups = {} /\ Len(btcPend) < BatchCount
  /\ btcMode = "interval" => btcGroups = {}
  /\ btcMode \notin {"count", "interval"} => btcPend = <<>> /\ btcTask = <<>>
  /\ Once(btcPend) /\ Once(btcTask) /\ Apart(btcGroups)
  /\ btcCount = Cardinality(InGroups(btcGroups))
  /\ BatchKept > 0 => btcCount <= BatchKept /\ Len(btcPend) <= BatchKept

BatchBooks ==
  /\ 1 .. btcIn = BtcHeld \cup ToSet(btcTask) \cup BtcSent \cup BtcEnded
  /\ BtcHeld \cap BtcEnded = {}
  /\ btcMode = "count" => Cardinality(BtcSent \cap BtcHeld) <= BatchOverlap
  /\ btcMode # "count" =>
       /\ \A i \in BtcSent : btcSent[i] = 1
       /\ BtcSent \cap (BtcHeld \cup ToSet(btcTask) \cup BtcEnded) = {}
       /\ ToSet(btcTask) \cap (BtcHeld \cup BtcEnded) = {}

BatchInv == BatchTypes /\ BatchBuffers /\ BatchBooks

(* The elements of a sequence of message numbers.                           *)
LEMMA NumbersOf ==
  ASSUME NEW n \in Nat, NEW s \in Seq(1 .. n)
  PROVE  /\ Len(s) \in Nat /\ DOMAIN s = 1 .. Len(s) /\ ToSet(s) = {s[i] : i \in 1 .. Len(s)}
         /\ \A i \in 1 .. Len(s) : s[i] \in 1 .. n
         /\ ToSet(s) \subseteq 1 .. n /\ IsFiniteSet(ToSet(s))
         /\ s \in Seq(1 .. n + 1)
         /\ s = <<>> <=> Len(s) = 0
<1>1. Len(s) \in Nat /\ DOMAIN s = 1 .. Len(s) /\ \A i \in 1 .. Len(s) : s[i] \in 1 .. n
  BY LenProperties, ElementOfSeq
<1>2. ToSet(s) = {s[i] : i \in 1 .. Len(s)}
  BY <1>1 DEF ToSet
<1>3. ToSet(s) \subseteq 1 .. n
  BY <1>1, <1>2
<1>4. IsFiniteSet(ToSet(s))
  <2>1. IsFiniteSet(1 .. n)
    BY FS_Interval
  <2>2. QED
    BY <1>3, <2>1, FS_Subset
<1>5. s \in Seq(1 .. n + 1)
  <2>1. 1 .. n \subseteq 1 .. n + 1
    OBVIOUS
  <2>2. QED
    BY <2>1
<1>6. s = <<>> <=> Len(s) = 0
  BY EmptySeq
<1>7. QED
  BY <1>1, <1>2, <1>3, <1>4, <1>5, <1>6

(* push of the message that arrives.                                        *)
LEMMA NewLast ==
  ASSUME NEW n \in Nat, NEW s \in Seq(1 .. n), Once(s)
  PROVE  /\ Append(s, n + 1) \in Seq(1 .. n + 1) /\ Len(Append(s, n + 1)) = Len(s) + 1 /\ Append(s, n + 1) # <<>>
         /\ Once(Append(s, n + 1)) /\ ToSet(Append(s, n + 1)) = ToSet(s) \cup {n + 1}
<1> DEFINE t == Append(s, n + 1)
<1>1. /\ Len(s) \in Nat /\ DOMAIN s = 1 .. Len(s) /\ ToSet(s) = {s[i] : i \in 1 .. Len(s)}
      /\ \A i \in 1 .. Len(s) : s[i] \in 1 .. n
      /\ s \in Seq(1 .. n + 1)
  BY NumbersOf
<1>2. /\ t \in Seq(1 .. n + 1) /\ Len(t) = Len(s) + 1 /\ t # <<>>
      /\ \A i \in 1 .. Len(s) : t[i] = s[i]
      /\ t[Len(s) + 1] = n + 1
  BY <1>1, AppendProperties
<1> HIDE DEF t
<1>3. DOMAIN t = 1 .. Len(t) /\ 1 .. Len(t) = (1 .. Len(s)) \cup {Len(s) + 1}
  BY <1>1, <1>2, LenProperties
<1>4. ToSet(t) = ToSet(s) \cup {n + 1}
  <2>1. ToSet(t) = {t[i] : i \in 1 .. Len(t)}
    BY <1>3 DEF ToSet
  <2>2. {t[i] : i \in 1 .. Len(t)} = {t[i] : i \in 1 .. Len(s)} \cup {t[Len(s) + 1]}
    BY <1>3
  <2>3. {t[i] : i \in 1 .. Len(s)} = ToSet(s)
    BY <1>1, <1>2
  <2>4. QED
    BY <1>2, <2>1, <2>2, <2>3
<1>5. Once(t)
  <2> SUFFICES ASSUME NEW i \in 1 .. Len(t), NEW j \in 1 .. Len(t), t[i] = t[j] PROVE i = j
    BY <1>3 DEF Once
  <2>1. \A k \in 1 .. Len(s) : t[k] # n + 1
    <3>1. \A x \in 1 .. n : x # n + 1
      OBVIOUS
    <3>2. \A k \in 1 .. Len(s) : t[k] \in 1 .. n
      BY <1>1, <1>2
    <3>3. QED
      BY <3>1, <3>2
  <2>2. QED
    BY <1>1, <1>2, <1>3, <2>1 DEF Once
<1>6. QED
  BY <1>2, <1>4, <1>5 DEF t

(* What occurs once is counted as one, whatever it is taken from.           *)
LEMMA OnceCounts ==
  ASSUME NEW f, Once(f), IsFiniteSet(ToSet(f))
  PROVE  /\ Cardinality(DOMAIN f) = Cardinality(ToSet(f))
         /\ \A i : Cardinality({k \in DOMAIN f : f[k] = i}) = IF i \in ToSet(f) THEN 1 ELSE 0
<1> DEFINE S == DOMAIN f
           T == ToSet(f)
           g == [k \in S |-> f[k]]
<1>1. T = {f[k] : k \in S}
  BY DEF ToSet
<1>2. g \in Bijection(S, T)
  <2>1. g \in [S -> T] /\ \A k \in S : g[k] = f[k]
    BY <1>1
  <2>2. \A t \in T : \E k \in S : g[k] = t
    BY <1>1
  <2>3. \A a, b \in S : g[a] = g[b] => a = b
    BY DEF Once
  <2> HIDE DEF g, S, T
  <2>4. g \in Surjection(S, T) /\ g \in Injection(S, T)
    BY <2>1, <2>2, <2>3 DEF Surjection, Injection, IsInjective
  <2>5. QED
    BY <2>4 DEF Bijection
<1>3. Cardinality(S) = Cardinality(T)
  <2> HIDE DEF g, S, T
  <2>1. g \in Injection(S, T) /\ g \in Surjection(S, T)
    BY <1>2 DEF Bijection
  <2>2. QED
    BY <2>1, FS_Injection DEF T
<1>4. ASSUME NEW i PROVE Cardinality({k \in S : f[k] = i}) = IF i \in T THEN 1 ELSE 0
  <2>1. CASE i \in T
    <3>1. PICK k \in S : f[k] = i
      BY <1>1, <2>1
    <3>2. {j \in S : f[j] = i} = {k}
      BY <3>1 DEF Once
    <3>3. QED
      BY <2>1, <3>2, FS_Singleton
  <2>2. CASE i \notin T
    <3>1. {j \in S : f[j] = i} = {}
      BY <1>1, <2>2
    <3>2. QED
      BY <2>2, <3>1, FS_EmptySet
  <2>3. QED
    BY <2>1, <2>2
<1>5. QED
  BY <1>3, <1>4

(* Groups that are apart hold each of their messages in one place.          *)
LEMMA ApartOnce ==
  ASSUME NEW n \in Nat, NEW gs \in SUBSET BatchPending(n), Apart(gs)
  PROVE  /\ ToSet(Msgs(gs)) = InGroups(gs) /\ InGroups(gs) \subseteq 1 .. n /\ IsFiniteSet(InGroups(gs))
         /\ Once(Msgs(gs)) /\ Cardinality(Spots(gs)) = Cardinality(InGroups(gs))
<1>1. \A g \in gs : g.msgs \in Seq(1 .. n)
  BY DEF BatchPending
<1>2. \A g \in gs : /\ DOMAIN g.msgs = 1 .. Len(g.msgs) /\ ToSet(g.msgs) = {g.msgs[i] : i \in DOMAIN g.msgs}
                    /\ ToSet(g.msgs) \subseteq 1 .. n
  BY <1>1, NumbersOf
<1>3. DOMAIN Msgs(gs) = Spots(gs) /\ \A at \in Spots(gs) : Msgs(gs)[at] = at[1].msgs[at[2]]
  BY DEF Msgs
<1>4. \A at \in Spots(gs) : /\ at = <<at[1], at[2]>>
                            /\ at[1] \in gs /\ at[2] \in DOMAIN at[1].msgs
  BY DEF Spots
<1>5. \A g \in gs : \A i \in DOMAIN g.msgs : <<g, i>> \in Spots(gs)
  BY DEF Spots
<1>6. ToSet(Msgs(gs)) = InGroups(gs)
  <2>1. ASSUME NEW x \in ToSet(Msgs(gs)) PROVE x \in InGroups(gs)
    <3>1. PICK at \in Spots(gs) : x = at[1].msgs[at[2]]
      BY <1>3 DEF ToSet
    <3>2. x \in ToSet(at[1].msgs) /\ at[1] \in gs
      BY <1>2, <1>4, <3>1
    <3>3. QED
      BY <3>2 DEF InGroups
  <2>2. ASSUME NEW x \in InGroups(gs) PROVE x \in ToSet(Msgs(gs))
    <3>1. PICK g \in gs : x \in ToSet(g.msgs)
      BY DEF InGroups
    <3>2. PICK i \in DOMAIN g.msgs : x = g.msgs[i]
      BY <1>2, <3>1
    <3>3. <<g, i>> \in Spots(gs)
      BY <1>5
    <3>4. Msgs(gs)[<<g, i>>] = x
      BY <1>3, <3>2, <3>3
    <3>5. QED
      BY <1>3, <3>3, <3>4 DEF ToSet
  <2>3. QED
    BY <2>1, <2>2
<1>7. InGroups(gs) \subseteq 1 .. n
  BY <1>2 DEF InGroups
<1>8. IsFiniteSet(InGroups(gs))
  <2>1. IsFiniteSet(1 .. n)
    BY FS_Interval
  <2>2. QED
    BY <1>7, <2>1, FS_Subset
<1>9. Once(Msgs(gs))
  <2> SUFFICES ASSUME NEW a \in Spots(gs), NEW b \in Spots(gs), a[1].msgs[a[2]] = b[1].msgs[b[2]]
               PROVE  a = b
    BY <1>3 DEF Once
  <2>0. \A g \in gs : \A i \in DOMAIN g.msgs : g.msgs[i] \in ToSet(g.msgs)
    BY <1>2
  <2>1. a[1].msgs[a[2]] \in ToSet(a[1].msgs) /\ b[1].msgs[b[2]] \in ToSet(b[1].msgs)
    BY <1>4, <2>0
  <2>2. a[1] = b[1]
    BY <1>4, <2>1 DEF Apart
  <2>3. a[2] = b[2]
    BY <1>4, <2>2 DEF Apart, Once
  <2>4. QED
    BY <1>4, <2>2, <2>3
<1>10. Cardinality(Spots(gs)) = Cardinality(InGroups(gs))
  BY <1>3, <1>6, <1>8, <1>9, OnceCounts
<1>11. QED
  BY <1>6, <1>7, <1>8, <1>9, <1>10

(* Groups that are removed take exactly their own messages along.           *)
LEMMA GroupsDropped ==
  ASSUME NEW n \in Nat, NEW gs \in SUBSET BatchPending(n), Apart(gs), NEW D \in SUBSET gs
  PROVE  /\ Apart(D) /\ Apart(gs \ D)
         /\ InGroups(gs \ D) = InGroups(gs) \ InGroups(D) /\ InGroups(D) \subseteq InGroups(gs)
         /\ Cardinality(InGroups(gs \ D)) = Cardinality(InGroups(gs)) - Cardinality(InGroups(D))
<1>1. Apart(D) /\ Apart(gs \ D)
  BY DEF Apart
<1>2. InGroups(gs \ D) \cup InGroups(D) = InGroups(gs)
  BY DEF InGroups
<1>3. InGroups(gs \ D) \cap InGroups(D) = {}
  BY DEF InGroups, Apart
<1>4. IsFiniteSet(InGroups(gs \ D)) /\ IsFiniteSet(InGroups(D))
  BY <1>1, ApartOnce
<1>5. PICK A, B, C : A = InGroups(gs \ D) /\ B = InGroups(D) /\ C = InGroups(gs)
  OBVIOUS
<1>6. A \cup B = C /\ A \cap B = {} /\ IsFiniteSet(A) /\ IsFiniteSet(B)
  BY <1>2, <1>3, <1>4, <1>5
<1>7. Cardinality(A) = Cardinality(C) - Cardinality(B)
  <2>1. Cardinality(A \cup B) = Cardinality(A) + Cardinality(B) - Cardinality(A \cap B)
    BY <1>6, FS_Union
  <2>2. Cardinality(A \cap B) = 0 /\ Cardinality(A) \in Nat /\ Cardinality(B) \in Nat
    BY <1>6, FS_EmptySet, FS_CardinalityType
  <2>3. Cardinality(C) = Cardinality(A) + Cardinality(B) - 0
    BY <1>6, <2>1, <2>2, Zenon
  <2>4. QED
    BY <2>2, <2>3
<1>8. A = C \ B /\ B \subseteq C
  BY <1>6
<1>9. QED
  BY <1>1, <1>5, <1>7, <1>8

(* The next number.                                                         *)
LEMMA NextNumber ==
  ASSUME NEW n \in Nat
  PROVE  n + 1 \in Nat /\ n + 1 \notin 1 .. n /\ 1 .. n + 1 = (1 .. n) \cup {n + 1} /\ <<n + 1>> \in Seq(1 .. n + 1)
OBVIOUS

(* A message alone.                                                         *)
LEMMA OnlyOne ==
  ASSUME NEW x
  PROVE  Once(<<x>>) /\ ToSet(<<x>>) = {x} /\ <<x>> # <<>>
<1>1. DOMAIN <<x>> = {1} /\ <<x>>[1] = x
  OBVIOUS
<1>2. ToSet(<<x>>) = {<<x>>[i] : i \in {1}}
  BY <1>1 DEF ToSet
<1>3. QED
  BY <1>1, <1>2 DEF Once

(* One group more.                                                          *)
LEMMA ApartAdds ==
  ASSUME NEW K, Apart(K), NEW h, h.msgs # <<>>, Once(h.msgs), ToSet(h.msgs) \cap InGroups(K) = {}
  PROVE  Apart(K \cup {h}) /\ InGroups(K \cup {h}) = InGroups(K) \cup ToSet(h.msgs)
<1>1. \A g \in K : ToSet(g.msgs) \cap ToSet(h.msgs) = {}
  BY DEF InGroups
<1>2. Apart(K \cup {h})
  <2> SUFFICES ASSUME NEW g \in K \cup {h}
               PROVE  /\ g.msgs # <<>> /\ Once(g.msgs)
                      /\ \A k \in K \cup {h} : g # k => ToSet(g.msgs) \cap ToSet(k.msgs) = {}
    BY DEF Apart
  <2>1. CASE g = h
    BY <1>1, <2>1
  <2>2. CASE g \in K
    BY <1>1, <2>2 DEF Apart
  <2>3. QED
    BY <2>1, <2>2
<1>3. InGroups(K \cup {h}) = InGroups(K) \cup ToSet(h.msgs)
  BY DEF InGroups
<1>4. QED
  BY <1>2, <1>3

(* The message is put into a group of its own or at the end of the group it
   belongs to.                                                              *)
LEMMA GroupedIs ==
  ASSUME NEW t \in BatchTopics \cup {""}, NEW id \in BatchGroups, NEW count \in 0 .. 2,
         btcIn \in Nat, btcGroups \subseteq BatchPending(btcIn), Apart(btcGroups)
  PROVE  /\ Grouped(t, id, count) \subseteq BatchPending(btcIn + 1) /\ Apart(Grouped(t, id, count))
         /\ InGroups(Grouped(t, id, count)) = InGroups(btcGroups) \cup {btcIn + 1}
         /\ Cardinality(InGroups(Grouped(t, id, count))) = Cardinality(InGroups(btcGroups)) + 1
         /\ \E g \in Grouped(t, id, count) : g.id = id
<1> DEFINE gs == Grouped(t, id, count)
           at == GroupAt(t, id)
<1>1. PICK n : n = btcIn
  OBVIOUS
<1>2. PICK G : G = btcGroups
  OBVIOUS
<1>3. n \in Nat /\ G \subseteq BatchPending(n) /\ Apart(G)
  BY <1>1, <1>2
<1>4. InGroups(G) \subseteq 1 .. n /\ IsFiniteSet(InGroups(G))
  BY <1>3, ApartOnce
<1>5. G \subseteq BatchPending(n + 1)
  <2> SUFFICES ASSUME NEW g \in G PROVE g \in BatchPending(n + 1)
    OBVIOUS
  <2>1. g.msgs \in Seq(1 .. n)
    BY <1>3 DEF BatchPending
  <2>2. g.msgs \in Seq(1 .. n + 1)
    BY <1>3, <2>1, NumbersOf
  <2>3. QED
    BY <1>3, <2>2 DEF BatchPending
<1>6. n + 1 \notin InGroups(G)
  <2>1. n + 1 \notin 1 .. n
    BY <1>3, NextNumber
  <2>2. QED
    BY <1>4, <2>1
<1>7. /\ gs \subseteq BatchPending(n + 1) /\ Apart(gs) /\ InGroups(gs) = InGroups(G) \cup {n + 1}
      /\ \E g \in gs : g.id = id
  <2>1. CASE at = {}
    <3>1. PICK m : m = <<n + 1>>
      OBVIOUS
    <3>2. PICK h : h = Group(t, id, m, count)
      OBVIOUS
    <3>3. gs = G \cup {h}
      BY <1>1, <1>2, <2>1, <3>1, <3>2 DEF Grouped, New
    <3>4. m \in Seq(1 .. n + 1)
      BY <1>3, <3>1, NextNumber
    <3>5. Once(m) /\ ToSet(m) = {n + 1} /\ m # <<>>
      BY <3>1, OnlyOne
    <3>6. h \in BatchPending(n + 1) /\ h.msgs = m /\ h.id = id
      BY <3>2, <3>4 DEF Group, BatchPending
    <3>7. ToSet(h.msgs) \cap InGroups(G) = {} /\ h.msgs # <<>> /\ Once(h.msgs) /\ ToSet(h.msgs) = {n + 1}
      BY <1>6, <3>5, <3>6
    <3>8. Apart(G \cup {h}) /\ InGroups(G \cup {h}) = InGroups(G) \cup ToSet(h.msgs)
      BY <1>3, <3>7, ApartAdds
    <3> HIDE DEF gs
    <3>9. QED
      BY <1>5, <3>3, <3>6, <3>7, <3>8
  <2>2. CASE at # {}
    <3>1. PICK old : old = CHOOSE g \in at : TRUE
      OBVIOUS
    <3>2. old \in G /\ old.topic = t /\ old.id = id
      BY <1>2, <2>2, <3>1 DEF GroupAt
    <3>3. PICK latest : latest = IF old.count = 0 \/ (btcMode = "sort" /\ count > 0) THEN count ELSE old.count
      OBVIOUS
    <3>4. PICK o : o = old.msgs
      OBVIOUS
    <3>5. o \in Seq(1 .. n) /\ old.count \in 0 .. 2 /\ Once(o)
      BY <1>3, <3>2, <3>4 DEF BatchPending, Apart
    <3>6. latest \in 0 .. 2
      BY <3>3, <3>5
    <3>7. PICK m : m = Append(o, n + 1)
      OBVIOUS
    <3>8. PICK h : h = Group(t, id, m, latest)
      OBVIOUS
    <3>9. PICK K : K = G \ {old}
      OBVIOUS
    <3>10. gs = K \cup {h}
      BY <1>1, <1>2, <2>2, <3>1, <3>3, <3>4, <3>7, <3>8, <3>9 DEF Grouped, New
    <3>11. m \in Seq(1 .. n + 1) /\ Once(m) /\ ToSet(m) = ToSet(o) \cup {n + 1} /\ m # <<>>
      BY <1>3, <3>5, <3>7, NewLast
    <3>13. h \in BatchPending(n + 1) /\ h.msgs = m /\ h.id = id
      BY <3>6, <3>8, <3>11 DEF Group, BatchPending
    <3>14. /\ Apart(K) /\ InGroups(K) = InGroups(G) \ ToSet(o) /\ ToSet(o) \subseteq InGroups(G)
      <4>1. {old} \subseteq G /\ InGroups({old}) = ToSet(o)
        BY <3>2, <3>4 DEF InGroups
      <4>2. PICK D : D = {old}
        OBVIOUS
      <4>3. D \in SUBSET G /\ InGroups(D) = ToSet(o) /\ K = G \ D
        BY <3>9, <4>1, <4>2
      <4>4. Apart(G \ D) /\ InGroups(G \ D) = InGroups(G) \ InGroups(D) /\ InGroups(D) \subseteq InGroups(G)
        BY <1>3, <4>3, GroupsDropped
      <4>5. QED
        BY <4>3, <4>4
    <3>15. ToSet(m) \cap InGroups(K) = {} /\ InGroups(K) \cup ToSet(m) = InGroups(G) \cup {n + 1}
      BY <1>6, <3>11, <3>14
    <3>16. Apart(K \cup {h}) /\ InGroups(K \cup {h}) = InGroups(K) \cup ToSet(m)
      BY <3>11, <3>13, <3>14, <3>15, ApartAdds
    <3> HIDE DEF gs
    <3>17. K \subseteq BatchPending(n + 1)
      BY <1>5, <3>9
    <3>18. QED
      BY <3>10, <3>13, <3>15, <3>16, <3>17
  <2>3. QED
    BY <2>1, <2>2
<1> HIDE DEF gs
<1>8. Cardinality(InGroups(gs)) = Cardinality(InGroups(G)) + 1
  BY <1>4, <1>6, <1>7, FS_AddElement
<1>9. QED
  BY <1>1, <1>2, <1>7, <1>8 DEF gs

(* send_batch of messages that are there once.                              *)
LEMMA SendsOnce ==
  ASSUME NEW f, SendAll(f), Once(f), IsFiniteSet(ToSet(f)), ToSet(f) \subseteq 1 .. BatchMax,
         btcSent \in [1 .. BatchMax -> Nat]
  PROVE  /\ btcSent' \in [1 .. BatchMax -> Nat]
         /\ \A i \in 1 .. BatchMax : btcSent'[i] = IF i \in ToSet(f) THEN btcSent[i] + 1 ELSE btcSent[i]
         /\ BtcSent' = BtcSent \cup ToSet(f)
<1>1. btcSent' = [i \in 1 .. BatchMax |-> btcSent[i] + Cardinality({k \in DOMAIN f : f[k] = i})]
  BY DEF SendAll
<1>2. \A i : Cardinality({k \in DOMAIN f : f[k] = i}) = IF i \in ToSet(f) THEN 1 ELSE 0
  BY OnceCounts
<1>3. ASSUME NEW i \in 1 .. BatchMax
      PROVE  btcSent'[i] = (IF i \in ToSet(f) THEN btcSent[i] + 1 ELSE btcSent[i]) /\ btcSent'[i] \in Nat
  <2>1. btcSent'[i] = btcSent[i] + Cardinality({k \in DOMAIN f : f[k] = i})
    BY <1>1
  <2>2. btcSent'[i] = btcSent[i] + (IF i \in ToSet(f) THEN 1 ELSE 0)
    BY <1>2, <2>1
  <2>3. QED
    BY <2>2
<1>4. btcSent' \in [1 .. BatchMax -> Nat]
  BY <1>1, <1>3
<1>5. BtcSent' = BtcSent \cup ToSet(f)
  BY <1>3 DEF BtcSent
<1>6. QED
  BY <1>3, <1>4, <1>5

(* The end of a buffer.                                                     *)
LEMMA EndOnce ==
  ASSUME NEW n \in Nat, NEW s \in Seq(1 .. n), Once(s), NEW k \in 1 .. Len(s) + 1
  PROVE  /\ SubSeq(s, k, Len(s)) \in Seq(1 .. n) /\ Len(SubSeq(s, k, Len(s))) = Len(s) - k + 1
         /\ Once(SubSeq(s, k, Len(s))) /\ ToSet(SubSeq(s, k, Len(s))) \subseteq ToSet(s)
<1>1. /\ Len(s) \in Nat /\ DOMAIN s = 1 .. Len(s) /\ ToSet(s) = {s[i] : i \in 1 .. Len(s)}
      /\ \A i \in 1 .. Len(s) : s[i] \in 1 .. n
  BY NumbersOf
<1>2. PICK m : m = SubSeq(s, k, Len(s))
  OBVIOUS
<1>3. /\ m \in Seq(1 .. n) /\ Len(m) = Len(s) - k + 1
      /\ \A i \in 1 .. Len(s) - k + 1 : m[i] = s[k + i - 1]
  <2>1. \A i \in k .. Len(s) : s[i] \in 1 .. n
    BY <1>1
  <2>2. /\ m \in Seq(1 .. n) /\ Len(m) = (IF k <= Len(s) THEN Len(s) - k + 1 ELSE 0)
        /\ \A i \in 1 .. Len(s) - k + 1 : m[i] = s[k + i - 1]
    BY <1>1, <1>2, <2>1, SubSeqProperties
  <2>3. QED
    BY <1>1, <2>2
<1>4. DOMAIN m = 1 .. Len(m) /\ ToSet(m) = {m[i] : i \in 1 .. Len(m)}
  BY <1>3, NumbersOf
<1>5. ToSet(m) \subseteq ToSet(s)
  <2>1. \A i \in 1 .. Len(m) : k + i - 1 \in 1 .. Len(s)
    BY <1>1, <1>3
  <2>2. QED
    BY <1>1, <1>3, <1>4, <2>1
<1>6. Once(m)
  <2> SUFFICES ASSUME NEW i \in 1 .. Len(m), NEW j \in 1 .. Len(m), m[i] = m[j] PROVE i = j
    BY <1>4 DEF Once
  <2>1. k + i - 1 \in 1 .. Len(s) /\ k + j - 1 \in 1 .. Len(s) /\ s[k + i - 1] = s[k + j - 1]
    BY <1>1, <1>3
  <2>2. k + i - 1 = k + j - 1
    BY <1>1, <2>1 DEF Once
  <2>3. QED
    BY <2>2
<1>7. QED
  BY <1>2, <1>3, <1>5, <1>6

(* The first and the last message of a list, and the others.                *)
LEMMA EndsOf ==
  ASSUME NEW n \in Nat, NEW s \in Seq(1 .. n), Once(s), s # <<>>
  PROVE  /\ Head(s) \in ToSet(s) /\ Tail(s) \in Seq(1 .. n) /\ Once(Tail(s)) /\ ToSet(Tail(s)) = ToSet(s) \ {Head(s)}
         /\ ToSet(Front(s)) \cup {Last(s)} = ToSet(s)
<1>1. /\ Len(s) \in Nat \ {0} /\ DOMAIN s = 1 .. Len(s) /\ ToSet(s) = {s[i] : i \in 1 .. Len(s)}
      /\ \A i \in 1 .. Len(s) : s[i] \in 1 .. n
  BY NumbersOf
<1>2. PICK t : t = Tail(s)
  OBVIOUS
<1>3. t \in Seq(1 .. n) /\ Len(t) = Len(s) - 1 /\ \A i \in 1 .. Len(s) - 1 : t[i] = s[i + 1]
  BY <1>1, <1>2
<1>4. DOMAIN t = 1 .. Len(t) /\ ToSet(t) = {t[i] : i \in 1 .. Len(t)}
  BY <1>3, NumbersOf
<1>5. Head(s) = s[1] /\ Head(s) \in ToSet(s)
  BY <1>1
<1>6. ToSet(t) = ToSet(s) \ {Head(s)}
  <2>1. ASSUME NEW x \in ToSet(t) PROVE x \in ToSet(s) /\ x # s[1]
    <3>1. PICK i \in 1 .. Len(s) - 1 : x = s[i + 1]
      BY <1>3, <1>4
    <3>2. i + 1 \in 1 .. Len(s) /\ i + 1 # 1 /\ 1 \in 1 .. Len(s)
      BY <1>1
    <3>3. QED
      BY <1>1, <3>1, <3>2 DEF Once
  <2>2. ASSUME NEW x \in ToSet(s), x # s[1] PROVE x \in ToSet(t)
    <3>1. PICK i \in 1 .. Len(s) : x = s[i]
      BY <1>1
    <3>2. i - 1 \in 1 .. Len(s) - 1 /\ (i - 1) + 1 = i
      BY <1>1, <2>2, <3>1
    <3>3. QED
      BY <1>3, <1>4, <3>1, <3>2
  <2>3. QED
    BY <1>5, <2>1, <2>2
<1>7. Once(t)
  <2> SUFFICES ASSUME NEW i \in 1 .. Len(t), NEW j \in 1 .. Len(t), t[i] = t[j] PROVE i = j
    BY <1>4 DEF Once
  <2>1. i + 1 \in 1 .. Len(s) /\ j + 1 \in 1 .. Len(s) /\ s[i + 1] = s[j + 1]
    BY <1>1, <1>3
  <2>2. i + 1 = j + 1
    BY <1>1, <2>1 DEF Once
  <2>3. QED
    BY <2>2
<1>8. PICK f : f = Front(s)
  OBVIOUS
<1>9. f \in Seq(1 .. n) /\ Len(f) = Len(s) - 1 /\ \A i \in 1 .. Len(s) - 1 : f[i] = s[i]
  BY <1>1, <1>8 DEF Front
<1>10. ToSet(f) = {f[i] : i \in 1 .. Len(f)}
  BY <1>9, NumbersOf
<1>11. ToSet(f) = {s[i] : i \in 1 .. Len(s) - 1}
  BY <1>9, <1>10
<1>12. ToSet(f) \cup {Last(s)} = ToSet(s)
  <2>1. Last(s) = s[Len(s)]
    BY DEF Last
  <2>2. 1 .. Len(s) = (1 .. Len(s) - 1) \cup {Len(s)}
    BY <1>1
  <2>3. QED
    BY <1>1, <1>11, <2>1, <2>2
<1>13. QED
  BY <1>2, <1>3, <1>5, <1>6, <1>7, <1>8, <1>12

(* What has a number in the books.                                          *)
LEMMA BooksBound ==
  ASSUME BatchInv
  PROVE  /\ btcIn \in Nat /\ btcIn <= BatchMax
         /\ BtcHeld \subseteq 1 .. btcIn /\ BtcSent \subseteq 1 .. btcIn /\ BtcEnded \subseteq 1 .. btcIn
         /\ ToSet(btcTask) \subseteq 1 .. btcIn
         /\ \A x \in BtcHeld \cup BtcSent \cup BtcEnded \cup ToSet(btcTask) : x # btcIn + 1
<1>1. btcIn \in Nat /\ btcIn <= BatchMax
  BY BatchAssumption DEF BatchInv, BatchTypes
<1>2. 1 .. btcIn = BtcHeld \cup ToSet(btcTask) \cup BtcSent \cup BtcEnded
  BY DEF BatchInv, BatchBooks
<1>3. btcIn + 1 \notin 1 .. btcIn
  BY <1>1, NextNumber
<1> HIDE DEF BtcHeld, BtcSent, BtcEnded
<1>4. QED
  BY <1>1, <1>2, <1>3

(* A message that joins the groups of a concat or sort node, and groups that
   leave it: sent, or dropped.                                              *)
LEMMA GroupsMove ==
  ASSUME BatchInv, btcMode \notin {"count", "interval"}, Receive, UNCHANGED <<btcMode, btcPend, btcTask>>,
         NEW gs, gs \subseteq BatchPending(btcIn + 1), Apart(gs), InGroups(gs) = InGroups(btcGroups) \cup {btcIn + 1},
         Cardinality(InGroups(gs)) = Cardinality(InGroups(btcGroups)) + 1,
         NEW D \in SUBSET gs, btcGroups' = gs \ D, btcCount' = btcCount + 1 - Cardinality(InGroups(D)),
         BatchKept > 0 => btcCount' <= BatchKept,
         \/ /\ \E f : SendAll(f) /\ Once(f) /\ ToSet(f) = InGroups(D)
            /\ BtcEnded' = BtcEnded
         \/ btcSent' = btcSent /\ BtcEnded' = BtcEnded \cup InGroups(D)
  PROVE  BatchInv'
<1>1. PICK n : n = btcIn
  OBVIOUS
<1>2. /\ n \in Nat /\ n + 1 \in 1 .. BatchMax /\ btcIn' = n + 1 /\ 1 .. n + 1 = (1 .. n) \cup {n + 1}
      /\ n + 1 \notin 1 .. n
  <2>1. n \in Nat /\ n < BatchMax /\ btcIn' = n + 1 /\ BatchMax \in Nat
    BY <1>1, BooksBound, BatchAssumption DEF Receive, New
  <2>2. QED
    BY <2>1, NextNumber
<1>3. gs \in SUBSET BatchPending(n + 1) /\ n + 1 \in Nat
  BY <1>1, <1>2
<1>4. /\ InGroups(gs) \subseteq 1 .. n + 1 /\ IsFiniteSet(InGroups(gs))
  BY <1>3, ApartOnce
<1>5. /\ Apart(D) /\ Apart(gs \ D)
      /\ InGroups(gs \ D) = InGroups(gs) \ InGroups(D) /\ InGroups(D) \subseteq InGroups(gs)
      /\ Cardinality(InGroups(gs \ D)) = Cardinality(InGroups(gs)) - Cardinality(InGroups(D))
  BY <1>3, GroupsDropped
<1>6. btcPend = <<>> /\ btcTask = <<>> /\ ToSet(btcPend) = {} /\ ToSet(btcTask) = {}
  <2>1. btcPend = <<>> /\ btcTask = <<>>
    BY DEF BatchInv, BatchBuffers
  <2>2. ToSet(<<>>) = {}
    BY DEF ToSet
  <2>3. QED
    BY <2>1, <2>2
<1>7. PICK H, J, M, S, E : /\ H = BtcHeld /\ J = InGroups(gs) /\ M = InGroups(D) /\ S = BtcSent /\ E = BtcEnded
  OBVIOUS
<1>8. /\ 1 .. n = H \cup S \cup E /\ H \cap E = {} /\ S \cap (H \cup E) = {}
      /\ \A i \in S : btcSent[i] = 1
      /\ J = H \cup {n + 1} /\ M \subseteq J
  <2>1. H = InGroups(btcGroups)
    BY <1>6, <1>7 DEF BtcHeld
  <2>2. /\ 1 .. n = H \cup {} \cup S \cup E /\ H \cap E = {} /\ S \cap (H \cup {} \cup E) = {}
        /\ \A i \in S : btcSent[i] = 1
    BY <1>1, <1>6, <1>7 DEF BatchInv, BatchBooks
  <2>3. QED
    BY <1>1, <1>5, <1>7, <2>1, <2>2
<1>9. BtcHeld' = J \ M /\ ToSet(btcTask') = {}
  BY <1>5, <1>6, <1>7 DEF BtcHeld
<1>10. btcSent \in [1 .. BatchMax -> Nat]
  BY DEF BatchInv, BatchTypes
<1>11. /\ btcSent' \in [1 .. BatchMax -> Nat] /\ \A i \in BtcSent' : btcSent'[i] = 1
       /\ \/ BtcSent' = S \cup M /\ BtcEnded' = E
          \/ BtcSent' = S /\ BtcEnded' = E \cup M
  <2>1. ASSUME NEW f, SendAll(f), Once(f), ToSet(f) = M, BtcEnded' = E
        PROVE  /\ btcSent' \in [1 .. BatchMax -> Nat] /\ \A i \in BtcSent' : btcSent'[i] = 1
               /\ BtcSent' = S \cup M
    <3>1. M \subseteq 1 .. BatchMax /\ IsFiniteSet(M)
      <4>1. 1 .. n + 1 \subseteq 1 .. BatchMax
        BY <1>2, BatchAssumption
      <4>2. QED
        BY <1>4, <1>5, <1>7, <4>1, FS_Subset
    <3>2. /\ btcSent' \in [1 .. BatchMax -> Nat]
          /\ \A i \in 1 .. BatchMax : btcSent'[i] = IF i \in M THEN btcSent[i] + 1 ELSE btcSent[i]
          /\ BtcSent' = S \cup M
      BY <1>7, <1>10, <2>1, <3>1, SendsOnce
    <3>3. ASSUME NEW i \in M PROVE btcSent[i] = 0
      <4>1. i \notin S
        BY <1>2, <1>8
      <4>2. i \in 1 .. BatchMax /\ btcSent[i] \in Nat
        BY <1>10, <3>1
      <4>3. QED
        BY <1>7, <4>1, <4>2 DEF BtcSent
    <3>4. S \subseteq 1 .. BatchMax
      BY <1>7 DEF BtcSent
    <3>5. QED
      BY <1>8, <3>1, <3>2, <3>3, <3>4
  <2>2. ASSUME btcSent' = btcSent PROVE BtcSent' = S /\ \A i \in BtcSent' : btcSent'[i] = 1
    BY <1>7, <1>8, <2>2 DEF BtcSent
  <2>3. QED
    BY <1>7, <1>10, <2>1, <2>2
<1>12. BatchTypes'
  <2>1. btcGroups' \subseteq BatchPending(n + 1)
    BY <1>3
  <2>2. btcPend' \in Seq(1 .. n + 1) /\ btcTask' \in Seq(1 .. n + 1)
    BY <1>6
  <2>3. n + 1 \in 0 .. BatchMax
    BY <1>2, BatchAssumption
  <2>4. QED
    BY <1>2, <1>11, <2>1, <2>2, <2>3 DEF BatchTypes
<1>13. BatchBuffers'
  <2>1. btcCount = Cardinality(InGroups(btcGroups)) /\ Once(btcPend) /\ Once(btcTask)
        /\ (BatchKept > 0 => Len(btcPend) <= BatchKept)
    BY DEF BatchInv, BatchBuffers
  <2>2. btcCount' = Cardinality(InGroups(btcGroups'))
    <3>1. PICK a, b, c, d : /\ a = Cardinality(InGroups(gs \ D)) /\ b = Cardinality(InGroups(gs))
                            /\ c = Cardinality(InGroups(D)) /\ d = Cardinality(InGroups(btcGroups))
      OBVIOUS
    <3>2. a = b - c /\ b = d + 1 /\ btcCount = d /\ btcCount' = btcCount + 1 - c
      BY <1>5, <2>1, <3>1
    <3>3. QED
      BY <3>1, <3>2
  <2>3. Apart(btcGroups')
    BY <1>5
  <2>4. btcMode' \notin {"count", "interval"} /\ btcPend' = <<>> /\ btcTask' = <<>> /\ btcPend' = btcPend /\ btcTask' = btcTask
    BY <1>6
  <2>5. QED
    BY <2>1, <2>2, <2>3, <2>4 DEF BatchBuffers
<1>14. BatchBooks'
  <2>1. PICK H2, S2, E2 : H2 = BtcHeld' /\ S2 = BtcSent' /\ E2 = BtcEnded'
    OBVIOUS
  <2>2. /\ (1 .. n) \cup {n + 1} = H2 \cup {} \cup S2 \cup E2 /\ H2 \cap E2 = {}
        /\ S2 \cap (H2 \cup {} \cup E2) = {}
    BY <1>2, <1>8, <1>9, <1>11, <2>1
  <2>3. QED
    BY <1>2, <1>9, <1>11, <2>1, <2>2 DEF BatchBooks
<1>15. QED
  BY <1>12, <1>13, <1>14 DEF BatchInv

(* One of the groups is the oldest.                                         *)
LEMMA OldestThere ==
  ASSUME NEW n \in Nat, NEW gs, gs \subseteq BatchPending(n), Apart(gs), gs # {}
  PROVE  Oldest(gs) # {}
<1> DEFINE R == OpToRel(<, Nat)
           A == {g.msgs[1] : g \in gs}
<1>1. \A g \in gs : g.msgs[1] \in Nat
  <2> SUFFICES ASSUME NEW g \in gs PROVE g.msgs[1] \in Nat
    OBVIOUS
  <2>1. g.msgs \in Seq(1 .. n) /\ g.msgs # <<>>
    BY DEF BatchPending, Apart
  <2>2. Len(g.msgs) \in Nat \ {0} /\ \A i \in 1 .. Len(g.msgs) : g.msgs[i] \in 1 .. n
    BY <2>1, NumbersOf
  <2>3. QED
    BY <2>2
<1>2. A \subseteq Nat /\ A # {}
  BY <1>1
<1>3. \E x \in A : \A y \in A : ~(<<y, x>> \in R)
  <2>1. IsWellFoundedOn(R, Nat)
    BY NatLessThanWellFounded
  <2> HIDE DEF R, A
  <2>2. QED
    BY <1>2, <2>1, WFMin
<1>4. PICK g \in gs : \A h \in gs : ~(<<h.msgs[1], g.msgs[1]>> \in R)
  BY <1>3
<1>5. ASSUME NEW h \in gs PROVE g.msgs[1] <= h.msgs[1]
  <2>1. g.msgs[1] \in Nat /\ h.msgs[1] \in Nat
    BY <1>1
  <2>2. ~(h.msgs[1] < g.msgs[1])
    BY <1>4, <2>1 DEF OpToRel
  <2>3. QED
    BY <2>1, <2>2
<1>6. QED
  BY <1>5 DEF Oldest

(* The message of a sort node: its group is sent when it is complete, or the
   oldest group goes over the limit.                                        *)
LEMMA SortKeeps ==
  ASSUME BatchInv, NEW id \in BatchGroups, NEW count \in 0 .. 2, SortMessage(id, count)
  PROVE  BatchInv'
<1>1. PICK gs : gs = Grouped("", id, count)
  OBVIOUS
<1>2. /\ btcMode = "sort" /\ Receive /\ UNCHANGED <<btcMode, btcPend, btcTask, btcDone>>
  BY DEF SortMessage
<1>3. btcMode \notin {"count", "interval"}
  BY <1>2
<1>4. btcIn \in Nat /\ btcGroups \subseteq BatchPending(btcIn) /\ Apart(btcGroups)
  BY BooksBound DEF BatchInv, BatchTypes, BatchBuffers
<1>5. /\ gs \subseteq BatchPending(btcIn + 1) /\ Apart(gs)
      /\ InGroups(gs) = InGroups(btcGroups) \cup {btcIn + 1}
      /\ Cardinality(InGroups(gs)) = Cardinality(InGroups(btcGroups)) + 1
      /\ \E g \in gs : g.id = id
  <2>1. "" \in BatchTopics \cup {""}
    OBVIOUS
  <2>2. QED
    BY <1>1, <1>4, <2>1, GroupedIs
<1>6. ASSUME NEW g \in gs
      PROVE  /\ {g} \in SUBSET gs /\ InGroups({g}) = ToSet(g.msgs) /\ Len(g.msgs) = Cardinality(InGroups({g}))
             /\ Len(g.msgs) \in Nat \ {0} /\ Once(g.msgs)
             /\ ToSet(Front(g.msgs)) \cup {Last(g.msgs)} = ToSet(g.msgs)
  <2>1. PICK m, n : m = g.msgs /\ n = btcIn + 1
    OBVIOUS
  <2>2. m \in Seq(1 .. n) /\ Once(m) /\ m # <<>> /\ n \in Nat
    <3>1. n \in Nat
      BY <1>4, <2>1
    <3>2. m \in Seq(1 .. n)
      BY <1>5, <2>1 DEF BatchPending
    <3>3. Once(m) /\ m # <<>>
      BY <1>5, <2>1 DEF Apart
    <3>4. QED
      BY <3>1, <3>2, <3>3
  <2>3. DOMAIN m = 1 .. Len(m) /\ IsFiniteSet(ToSet(m)) /\ Len(m) \in Nat \ {0}
    BY <2>2, NumbersOf
  <2>4. Cardinality(ToSet(m)) = Len(m)
    <3>1. Cardinality(DOMAIN m) = Cardinality(ToSet(m))
      BY <2>2, <2>3, OnceCounts
    <3>2. Cardinality(1 .. Len(m)) = Len(m)
      BY <2>3, FS_Interval
    <3>3. QED
      BY <2>3, <3>1, <3>2
  <2>5. InGroups({g}) = ToSet(m)
    BY <2>1 DEF InGroups
  <2>6. ToSet(Front(m)) \cup {Last(m)} = ToSet(m)
    BY <2>2, EndsOf
  <2>7. QED
    BY <2>1, <2>2, <2>3, <2>4, <2>5, <2>6
<1>7. btcCount \in Nat /\ (BatchKept > 0 => btcCount <= BatchKept)
  <2>1. IsFiniteSet(InGroups(btcGroups))
    BY <1>4, ApartOnce
  <2>2. QED
    BY <2>1, FS_CardinalityType DEF BatchInv, BatchBuffers
<1> DEFINE Less(l) == btcCount' = btcCount + 1 - l => (BatchKept > 0 => btcCount' <= BatchKept)
<1>00. ASSUME NEW l \in Nat \ {0} PROVE Less(l)
  <2>1. BatchKept \in Nat
    BY BatchAssumption
  <2>2. SUFFICES ASSUME btcCount' = btcCount + 1 - l, BatchKept > 0 PROVE btcCount' <= BatchKept
    OBVIOUS
  <2>3. PICK c, k : c = btcCount /\ k = BatchKept
    OBVIOUS
  <2>4. c \in Nat /\ k \in Nat /\ c <= k /\ btcCount' = c + 1 - l
    BY <1>7, <2>1, <2>2, <2>3
  <2>5. c + 1 - l <= k
    BY <2>4
  <2>6. QED
    BY <2>3, <2>4, <2>5
<1>8. PICK own : own = CHOOSE g \in gs : g.id = id
  OBVIOUS
<1>9. own \in gs
  BY <1>5, <1>8
<1>10. CASE Full(own)
  <2>1. /\ SendAll(own.msgs) /\ btcGroups' = gs \ {own} /\ btcCount' = btcCount + 1 - Len(own.msgs)
        /\ UNCHANGED <<btcError, btcGone>>
    BY <1>1, <1>8, <1>10 DEF SortMessage
  <2>2. BtcEnded' = BtcEnded
    BY <1>2, <2>1 DEF BtcEnded
  <2>3. BatchKept > 0 => btcCount' <= BatchKept
    <3>1. Less(Len(own.msgs))
      BY <1>00, <1>6, <1>9
    <3>2. QED
      BY <2>1, <3>1
  <2>4. /\ btcCount' = btcCount + 1 - Cardinality(InGroups({own})) /\ {own} \in SUBSET gs
        /\ Once(own.msgs) /\ ToSet(own.msgs) = InGroups({own})
    BY <1>6, <1>9, <2>1
  <2>5. QED
    BY <1>2, <1>3, <1>5, <2>1, <2>2, <2>3, <2>4, GroupsMove
<1>11. CASE ~Full(own) /\ BatchKept > 0 /\ btcCount + 1 > BatchKept
  <2>1. PICK old : old = CHOOSE g \in Oldest(gs) : TRUE
    OBVIOUS
  <2>2. /\ btcGone' = btcGone \cup ToSet(Front(old.msgs)) /\ btcError' = btcError \cup {Last(old.msgs)}
        /\ btcGroups' = gs \ {old} /\ btcCount' = btcCount + 1 - Len(old.msgs) /\ btcSent' = btcSent
    BY <1>1, <1>8, <1>11, <2>1 DEF SortMessage
  <2>3. old \in gs
    <3>1. Oldest(gs) # {}
      BY <1>4, <1>5, OldestThere
    <3>2. QED
      BY <2>1, <3>1 DEF Oldest
  <2>4. BtcEnded' = BtcEnded \cup InGroups({old})
    <3>1. ToSet(Front(old.msgs)) \cup {Last(old.msgs)} = InGroups({old})
      BY <1>6, <2>3
    <3>2. QED
      BY <1>2, <2>2, <3>1 DEF BtcEnded
  <2>5. BatchKept > 0 => btcCount' <= BatchKept
    <3>1. Less(Len(old.msgs))
      BY <1>00, <1>6, <2>3
    <3>2. QED
      BY <2>2, <3>1
  <2>6. btcCount' = btcCount + 1 - Cardinality(InGroups({old})) /\ {old} \in SUBSET gs
    BY <1>6, <2>2, <2>3
  <2>7. QED
    BY <1>2, <1>3, <1>5, <2>2, <2>4, <2>5, <2>6, GroupsMove
<1>12. CASE ~Full(own) /\ ~(BatchKept > 0 /\ btcCount + 1 > BatchKept)
  <2>1. btcGroups' = gs /\ btcCount' = btcCount + 1 /\ UNCHANGED <<btcSent, btcError, btcGone>>
    BY <1>1, <1>8, <1>12 DEF SortMessage
  <2>2. InGroups({}) = {} /\ Cardinality(InGroups({})) = 0
    BY FS_EmptySet DEF InGroups
  <2>3. /\ {} \in SUBSET gs /\ btcGroups' = gs \ {} /\ BtcEnded' = BtcEnded \cup InGroups({})
    BY <1>2, <2>1, <2>2 DEF BtcEnded
  <2>4. BatchKept > 0 => btcCount' <= BatchKept
    BY <1>7, <1>12, <2>1, BatchAssumption
  <2>5. btcCount' = btcCount + 1 - Cardinality(InGroups({}))
    BY <1>7, <2>1, <2>2
  <2>6. QED
    BY <1>2, <1>3, <1>5, <2>1, <2>3, <2>4, <2>5, GroupsMove
<1>13. QED
  BY <1>10, <1>11, <1>12

(* The message of a concat node: the first groups of all topics are sent when
   they are complete, or everything goes over the limit.                    *)
LEMMA ConcatKeeps ==
  ASSUME BatchInv, NEW t \in BatchTopics, NEW id \in BatchGroups, NEW count \in 0 .. 2, ConcatMessage(t, id, count)
  PROVE  BatchInv'
<1>1. PICK gs : gs = Grouped(t, id, count)
  OBVIOUS
<1>2. /\ btcMode = "concat" /\ Receive /\ UNCHANGED <<btcMode, btcPend, btcTask, btcGone>>
  BY DEF ConcatMessage
<1>3. btcMode \notin {"count", "interval"}
  BY <1>2
<1>4. btcIn \in Nat /\ btcGroups \subseteq BatchPending(btcIn) /\ Apart(btcGroups)
  BY BooksBound DEF BatchInv, BatchTypes, BatchBuffers
<1>5. /\ gs \subseteq BatchPending(btcIn + 1) /\ Apart(gs)
      /\ InGroups(gs) = InGroups(btcGroups) \cup {btcIn + 1}
      /\ Cardinality(InGroups(gs)) = Cardinality(InGroups(btcGroups)) + 1
  BY <1>1, <1>4, GroupedIs
<1>6. ASSUME NEW D \in SUBSET gs
      PROVE  /\ Once(Msgs(D)) /\ ToSet(Msgs(D)) = InGroups(D) /\ Cardinality(Spots(D)) = Cardinality(InGroups(D))
             /\ Cardinality(InGroups(D)) \in Nat
             /\ Cardinality(InGroups(D)) = 0 => InGroups(D) = {}
  <2>1. btcIn + 1 \in Nat /\ D \in SUBSET BatchPending(btcIn + 1)
    BY <1>4, <1>5
  <2>2. Apart(D)
    BY <1>5 DEF Apart
  <2>3. /\ Once(Msgs(D)) /\ ToSet(Msgs(D)) = InGroups(D) /\ Cardinality(Spots(D)) = Cardinality(InGroups(D))
        /\ IsFiniteSet(InGroups(D))
    BY <2>1, <2>2, ApartOnce
  <2>4. QED
    BY <2>3, FS_CardinalityType, FS_EmptySet
<1>7. btcCount = Cardinality(InGroups(btcGroups)) /\ btcCount \in Nat /\ (BatchKept > 0 => btcCount <= BatchKept)
      /\ BatchKept \in Nat
  <2>1. IsFiniteSet(InGroups(btcGroups))
    BY <1>4, ApartOnce
  <2>2. QED
    BY <2>1, FS_CardinalityType, BatchAssumption DEF BatchInv, BatchBuffers
<1> DEFINE Ready == \A u \in BatchTopics : \E g \in FirstOf(gs, u) : Full(g)
<1>8. CASE Ready
  <2>1. PICK D : D = UNION {FirstOf(gs, u) : u \in BatchTopics}
    OBVIOUS
  <2>2. /\ SendAll(Msgs(D)) /\ btcGroups' = gs \ D /\ btcCount' = btcCount + 1 - Cardinality(Spots(D))
        /\ UNCHANGED <<btcDone, btcError>>
    BY <1>1, <1>8, <2>1 DEF ConcatMessage
  <2>3. D \in SUBSET gs
    BY <2>1 DEF FirstOf, Oldest
  <2>4. BtcEnded' = BtcEnded
    BY <1>2, <2>2 DEF BtcEnded
  <2>5. BatchKept > 0 => btcCount' <= BatchKept
    <3>1. PICK g \in FirstOf(gs, t) : Full(g)
      BY <1>8
    <3>2. g \in D /\ g \in gs
      BY <2>1, <2>3, <3>1
    <3>3. PICK m, n : m = g.msgs /\ n = btcIn + 1
      OBVIOUS
    <3>4. ToSet(g.msgs) # {}
      <4>1. n \in Nat
        BY <1>4, <3>3
      <4>2. m \in Seq(1 .. n)
        BY <1>5, <3>2, <3>3 DEF BatchPending
      <4>3. m # <<>>
        BY <1>5, <3>2, <3>3 DEF Apart
      <4>4. Len(m) \in Nat /\ Len(m) # 0 /\ ToSet(m) = {m[i] : i \in 1 .. Len(m)}
        BY <4>1, <4>2, <4>3, NumbersOf
      <4>5. 1 \in 1 .. Len(m)
        BY <4>4
      <4>6. QED
        BY <3>3, <4>4, <4>5
    <3>5. InGroups(D) # {}
      BY <3>2, <3>4 DEF InGroups
    <3>6. PICK c : c = Cardinality(InGroups(D))
      OBVIOUS
    <3>7. c \in Nat \ {0} /\ btcCount' = btcCount + 1 - c
      BY <1>6, <2>2, <2>3, <3>5, <3>6
    <3>8. QED
      BY <1>7, <3>7
  <2>6. /\ btcCount' = btcCount + 1 - Cardinality(InGroups(D))
        /\ \E f : SendAll(f) /\ Once(f) /\ ToSet(f) = InGroups(D)
    BY <1>6, <2>2, <2>3
  <2>7. QED
    BY <1>2, <1>3, <1>5, <2>2, <2>3, <2>4, <2>5, <2>6, GroupsMove
<1>9. CASE ~Ready /\ BatchKept > 0 /\ btcCount + 1 > BatchKept
  <2>1. /\ \E last \in ToSet(Msgs(gs)) : Overflow(ToSet(Msgs(gs)) \ {last}, last)
        /\ btcGroups' = {} /\ btcCount' = 0 /\ UNCHANGED btcSent
    BY <1>1, <1>9 DEF ConcatMessage
  <2>2. gs \in SUBSET gs /\ btcGroups' = gs \ gs
    BY <2>1
  <2>3. PICK last \in InGroups(gs) : Overflow(InGroups(gs) \ {last}, last)
    BY <1>6, <2>1, <2>2
  <2>4. BtcEnded' = BtcEnded \cup InGroups(gs)
    BY <1>2, <2>3 DEF BtcEnded, Overflow, Overflowed
  <2>5. (BatchKept > 0 => btcCount' <= BatchKept) /\ btcCount' = btcCount + 1 - Cardinality(InGroups(gs))
    BY <1>5, <1>7, <2>1
  <2>6. QED
    BY <1>2, <1>3, <1>5, <2>1, <2>2, <2>4, <2>5, GroupsMove
<1>10. CASE ~Ready /\ ~(BatchKept > 0 /\ btcCount + 1 > BatchKept)
  <2>1. btcGroups' = gs /\ btcCount' = btcCount + 1 /\ UNCHANGED <<btcSent, btcDone, btcError>>
    BY <1>1, <1>10 DEF ConcatMessage
  <2>2. InGroups({}) = {} /\ Cardinality(InGroups({})) = 0
    BY FS_EmptySet DEF InGroups
  <2>3. /\ {} \in SUBSET gs /\ btcGroups' = gs \ {} /\ BtcEnded' = BtcEnded \cup InGroups({})
    BY <1>2, <2>1, <2>2 DEF BtcEnded
  <2>4. BatchKept > 0 => btcCount' <= BatchKept
    BY <1>7, <1>10, <2>1
  <2>5. btcCount' = btcCount + 1 - Cardinality(InGroups({}))
    BY <1>7, <2>1, <2>2
  <2>6. QED
    BY <1>2, <1>3, <1>5, <2>1, <2>3, <2>4, <2>5, GroupsMove
<1>11. QED
  BY <1>8, <1>9, <1>10

(* process_count_mode.                                                      *)
LEMMA CountKeeps ==
  ASSUME BatchInv, NEW eof \in BOOLEAN, CountMessage(eof)
  PROVE  BatchInv'
<1>1. PICK n, p, all : n = btcIn /\ p = btcPend /\ all = Append(p, n + 1)
  OBVIOUS
<1>2. btcMode = "count" /\ btcMode' = "count" /\ Receive /\ UNCHANGED <<btcGroups, btcCount, btcTask, btcGone>>
  BY DEF CountMessage
<1>3. /\ n \in Nat /\ btcIn' = n + 1 /\ n + 1 \in 0 .. BatchMax /\ 1 .. n + 1 \subseteq 1 .. BatchMax
      /\ 1 .. n + 1 = (1 .. n) \cup {n + 1} /\ n + 1 \notin 1 .. n
  <2>1. n \in Nat /\ n < BatchMax /\ btcIn' = n + 1 /\ BatchMax \in Nat
    BY <1>1, <1>2, BooksBound, BatchAssumption DEF Receive, New
  <2>2. QED
    BY <2>1, NextNumber
<1>4. p \in Seq(1 .. n) /\ Once(p) /\ Len(p) < BatchCount /\ btcTask = <<>> /\ btcGroups = {} /\ Once(btcTask)
  BY <1>1, <1>2 DEF BatchInv, BatchTypes, BatchBuffers
<1>5. /\ all \in Seq(1 .. n + 1) /\ Len(all) = Len(p) + 1 /\ Len(p) \in Nat /\ Once(all)
      /\ ToSet(all) = ToSet(p) \cup {n + 1} /\ ToSet(p) \subseteq 1 .. n
  <2>1. Len(p) \in Nat /\ ToSet(p) \subseteq 1 .. n
    BY <1>3, <1>4, NumbersOf
  <2>2. QED
    BY <1>1, <1>3, <1>4, <2>1, NewLast
<1>6. InGroups({}) = {} /\ ToSet(<<>>) = {} /\ Once(<<>>) /\ Len(<<>>) = 0
  BY DEF InGroups, ToSet, Once
<1>7. PICK P, S, E : P = ToSet(p) /\ S = BtcSent /\ E = BtcEnded
  OBVIOUS
<1>8. /\ 1 .. n = P \cup S \cup E /\ P \cap E = {} /\ Cardinality(S \cap P) <= BatchOverlap
      /\ n + 1 \notin P \cup S \cup E
  <2>1. BtcHeld = P
    BY <1>1, <1>4, <1>6, <1>7 DEF BtcHeld
  <2>2. 1 .. n = P \cup {} \cup S \cup E /\ P \cap E = {} /\ Cardinality(S \cap P) <= BatchOverlap
    BY <1>1, <1>2, <1>4, <1>6, <1>7, <2>1 DEF BatchInv, BatchBooks
  <2>3. QED
    BY <1>3, <2>2
<1>9. btcSent \in [1 .. BatchMax -> Nat] /\ btcCount = Cardinality(InGroups(btcGroups)) /\ Apart(btcGroups)
      /\ (BatchKept > 0 => btcCount <= BatchKept) /\ BatchKept \in Nat /\ BatchCount \in Nat \ {0} /\ BatchOverlap \in Nat
  BY BatchAssumption DEF BatchInv, BatchTypes, BatchBuffers
(* What is left to show of an outcome.                                      *)
<1>10. ASSUME btcPend' \in Seq(1 .. n + 1), Once(btcPend'), Len(btcPend') < BatchCount,
              BatchKept > 0 => Len(btcPend') <= BatchKept, btcSent' \in [1 .. BatchMax -> Nat],
              (1 .. n) \cup {n + 1} = ToSet(btcPend') \cup BtcSent' \cup BtcEnded', ToSet(btcPend') \cap BtcEnded' = {},
              Cardinality(BtcSent' \cap ToSet(btcPend')) <= BatchOverlap
       PROVE  BatchInv'
  <2>1. btcTask' = <<>> /\ btcGroups' = {} /\ btcTask' \in Seq(1 .. n + 1)
    BY <1>2, <1>4
  <2>2. BatchTypes'
    BY <1>3, <1>10, <2>1 DEF BatchTypes
  <2>3. BatchBuffers'
    BY <1>2, <1>4, <1>9, <1>10, <2>1 DEF BatchBuffers
  <2>4. BtcHeld' = ToSet(btcPend') /\ ToSet(btcTask') = {}
    BY <1>6, <2>1 DEF BtcHeld
  <2>5. 1 .. btcIn' = BtcHeld' \cup ToSet(btcTask') \cup BtcSent' \cup BtcEnded'
    BY <1>3, <1>10, <2>4
  <2>6. BatchBooks'
    BY <1>2, <1>10, <2>4, <2>5 DEF BatchBooks
  <2>7. QED
    BY <2>2, <2>3, <2>6 DEF BatchInv
<1>11. CASE BatchKept > 0 /\ Len(all) > BatchKept
  <2>1. /\ btcPend' = <<>> /\ btcSent' = btcSent /\ btcDone' = btcDone \cup P /\ btcError' = btcError \cup {n + 1}
    BY <1>1, <1>7, <1>11 DEF CountMessage, Overflow, Overflowed, New
  <2>2. BtcSent' = S /\ BtcEnded' = E \cup P \cup {n + 1}
    BY <1>2, <1>7, <2>1 DEF BtcSent, BtcEnded
  <2>3. btcPend' \in Seq(1 .. n + 1) /\ ToSet(btcPend') = {} /\ Once(btcPend') /\ Len(btcPend') = 0
    BY <1>6, <2>1
  <2>4. Cardinality(S \cap {}) = 0
    BY FS_EmptySet
  <2>5. (1 .. n) \cup {n + 1} = ToSet(btcPend') \cup BtcSent' \cup BtcEnded' /\ ToSet(btcPend') \cap BtcEnded' = {}
    BY <1>8, <2>2, <2>3
  <2>6. Len(btcPend') < BatchCount /\ Len(btcPend') <= BatchKept /\ Cardinality(BtcSent' \cap ToSet(btcPend')) <= BatchOverlap
    BY <1>9, <2>2, <2>3, <2>4
  <2>7. QED
    BY <1>9, <1>10, <2>1, <2>3, <2>5, <2>6
<1>12. CASE ~(BatchKept > 0 /\ Len(all) > BatchKept) /\ ~(Len(all) >= BatchCount \/ eof)
  <2>1. btcPend' = all /\ UNCHANGED <<btcSent, btcDone, btcError>>
    BY <1>1, <1>12 DEF CountMessage, New
  <2>2. BtcSent' = S /\ BtcEnded' = E
    BY <1>2, <1>7, <2>1 DEF BtcSent, BtcEnded
  <2>3. ToSet(btcPend') = P \cup {n + 1} /\ Len(btcPend') < BatchCount /\ (BatchKept > 0 => Len(btcPend') <= BatchKept)
    BY <1>5, <1>7, <1>9, <1>12, <2>1
  <2>4. S \cap (P \cup {n + 1}) = S \cap P
    BY <1>8
  <2>5. (1 .. n) \cup {n + 1} = ToSet(btcPend') \cup BtcSent' \cup BtcEnded' /\ ToSet(btcPend') \cap BtcEnded' = {}
    BY <1>8, <2>2, <2>3
  <2>6. Cardinality(BtcSent' \cap ToSet(btcPend')) <= BatchOverlap
    BY <1>8, <2>2, <2>3, <2>4
  <2>7. QED
    BY <1>5, <1>9, <1>10, <2>1, <2>3, <2>5, <2>6
<1>13. CASE ~(BatchKept > 0 /\ Len(all) > BatchKept) /\ (Len(all) >= BatchCount \/ eof)
  <2>1. PICK size : size = IF eof THEN Len(all) ELSE BatchCount
    OBVIOUS
  <2>2. PICK overlap : overlap = IF eof THEN 0 ELSE MinOf(BatchOverlap, size - 1)
    OBVIOUS
  <2>3. /\ SendAll(SubSeq(all, 1, size))
        /\ btcPend' = SubSeq(all, size + 1, Len(all)) \o SubSeq(all, size - overlap + 1, size)
        /\ UNCHANGED <<btcDone, btcError>>
    BY <1>1, <1>13, <2>1, <2>2 DEF CountMessage, New
  <2>4. size = Len(all) /\ size \in Nat \ {0} /\ size <= BatchCount
    BY <1>4, <1>5, <1>9, <1>13, <2>1
  <2>5. overlap \in Nat /\ overlap <= BatchOverlap /\ overlap < size
    BY <1>9, <2>2, <2>4 DEF MinOf
  <2>6. SubSeq(all, 1, size) = all /\ SubSeq(all, size + 1, Len(all)) = <<>>
    BY <1>5, <2>4
  <2>7. PICK k, rest : k = size - overlap + 1 /\ rest = SubSeq(all, k, Len(all))
    OBVIOUS
  <2>8. k \in 1 .. Len(all) + 1 /\ Len(all) - k + 1 = overlap
    BY <2>4, <2>5, <2>7
  <2>9. rest \in Seq(1 .. n + 1) /\ Len(rest) = overlap /\ Once(rest) /\ ToSet(rest) \subseteq ToSet(all)
    BY <1>3, <1>5, <2>7, <2>8, EndOnce
  <2>10. btcPend' = rest
    <3>1. btcPend' = <<>> \o rest
      BY <2>3, <2>4, <2>6, <2>7
    <3>2. QED
      BY <2>9, <3>1
  <2>11. IsFiniteSet(ToSet(all)) /\ ToSet(all) \subseteq 1 .. n + 1
    <3>1. n + 1 \in Nat
      BY <1>3
    <3>2. QED
      BY <1>5, <3>1, NumbersOf
  <2>12. btcSent' \in [1 .. BatchMax -> Nat] /\ BtcSent' = S \cup ToSet(all)
    <3>1. SendAll(all) /\ ToSet(all) \subseteq 1 .. BatchMax
      BY <1>3, <2>3, <2>6, <2>11
    <3>2. QED
      BY <1>5, <1>7, <1>9, <2>11, <3>1, SendsOnce
  <2>13. BtcEnded' = E
    BY <1>2, <1>7, <2>3 DEF BtcEnded
  <2>14. /\ (1 .. n) \cup {n + 1} = ToSet(btcPend') \cup BtcSent' \cup BtcEnded' /\ ToSet(btcPend') \cap BtcEnded' = {}
         /\ BtcSent' \cap ToSet(btcPend') = ToSet(rest)
    BY <1>5, <1>7, <1>8, <2>9, <2>10, <2>12, <2>13
  <2>15. Cardinality(ToSet(rest)) = overlap
    <3>1. IsFiniteSet(ToSet(rest)) /\ DOMAIN rest = 1 .. overlap
      BY <1>3, <2>9, NumbersOf
    <3>2. Cardinality(DOMAIN rest) = Cardinality(ToSet(rest))
      BY <2>9, <3>1, OnceCounts
    <3>3. Cardinality(1 .. overlap) = overlap
      BY <2>5, FS_Interval
    <3>4. QED
      BY <3>1, <3>2, <3>3
  <2>16. Len(btcPend') < BatchCount /\ (BatchKept > 0 => Len(btcPend') <= BatchKept)
         /\ Cardinality(BtcSent' \cap ToSet(btcPend')) <= BatchOverlap
    <3>1. overlap < BatchCount /\ (BatchKept > 0 => overlap <= BatchKept)
      BY <1>9, <1>13, <2>4, <2>5
    <3>2. Len(btcPend') = overlap /\ Cardinality(BtcSent' \cap ToSet(btcPend')) = overlap
      BY <2>9, <2>10, <2>14, <2>15
    <3>3. QED
      BY <2>5, <3>1, <3>2
  <2>17. QED
    BY <1>10, <2>9, <2>10, <2>12, <2>14, <2>16
<1>14. QED
  BY <1>11, <1>12, <1>13

(* The steps of the interval mode, messages that concat ignores and the
   reset.                                                                   *)
LEMMA IntervalKeeps ==
  ASSUME BatchInv, IntervalMessage \/ IntervalTick \/ IntervalSend
  PROVE  BatchInv'
<1>1. PICK n, p, q, S, E : n = btcIn /\ p = btcPend /\ q = btcTask /\ S = BtcSent /\ E = BtcEnded
  OBVIOUS
<1>2. btcMode' = btcMode /\ btcGroups' = btcGroups /\ btcCount' = btcCount /\ btcGone' = btcGone /\ btcMode # "count"
  <2>1. btcTask # <<>> => btcMode # "count"
    BY DEF BatchInv, BatchBuffers
  <2>2. QED
    BY <2>1 DEF IntervalMessage, IntervalTick, IntervalSend
<1>3. n \in Nat /\ p \in Seq(1 .. n) /\ q \in Seq(1 .. n) /\ Once(p) /\ Once(q) /\ btcGroups \subseteq BatchPending(n)
  BY <1>1, BooksBound DEF BatchInv, BatchTypes, BatchBuffers
<1>4. btcMode = "interval" /\ btcGroups = {} /\ InGroups({}) = {}
  BY DEF BatchInv, BatchBuffers, IntervalMessage, IntervalTick, IntervalSend, InGroups
<1>5. PICK P, Q : P = ToSet(p) /\ Q = ToSet(q)
  OBVIOUS
<1>6. /\ 1 .. n = P \cup Q \cup S \cup E /\ P \cap E = {} /\ \A i \in S : btcSent[i] = 1
      /\ S \cap (P \cup Q \cup E) = {} /\ Q \cap (P \cup E) = {}
  <2>1. BtcHeld = P
    BY <1>1, <1>4, <1>5 DEF BtcHeld
  <2>2. QED
    BY <1>1, <1>2, <1>5, <2>1 DEF BatchInv, BatchBooks
<1>7. btcSent \in [1 .. BatchMax -> Nat] /\ btcCount = Cardinality(InGroups(btcGroups)) /\ Apart(btcGroups)
      /\ (BatchKept > 0 => btcCount <= BatchKept /\ Len(p) <= BatchKept) /\ n \in 0 .. BatchMax
  BY <1>1 DEF BatchInv, BatchTypes, BatchBuffers
<1>8. ToSet(<<>>) = {} /\ Once(<<>>) /\ Len(<<>>) = 0 /\ <<>> \in Seq(1 .. n) /\ <<>> \in Seq(1 .. n + 1)
  <2>1. \A T : <<>> \in Seq(T)
    BY EmptySeq
  <2>2. QED
    BY <2>1 DEF ToSet, Once
(* What is left to show of an outcome.                                      *)
<1>9. ASSUME btcIn' \in 0 .. BatchMax, btcPend' \in Seq(1 .. btcIn'), btcTask' \in Seq(1 .. btcIn'),
             Once(btcPend'), Once(btcTask'), BatchKept > 0 => Len(btcPend') <= BatchKept,
             btcSent' \in [1 .. BatchMax -> Nat], \A i \in BtcSent' : btcSent'[i] = 1,
             1 .. btcIn' = ToSet(btcPend') \cup ToSet(btcTask') \cup BtcSent' \cup BtcEnded',
             ToSet(btcPend') \cap BtcEnded' = {}, BtcSent' \cap (ToSet(btcPend') \cup ToSet(btcTask') \cup BtcEnded') = {},
             ToSet(btcTask') \cap (ToSet(btcPend') \cup BtcEnded') = {}
      PROVE  BatchInv'
  <2>1. BatchTypes'
    BY <1>2, <1>4, <1>9 DEF BatchTypes
  <2>2. BatchBuffers'
    BY <1>2, <1>4, <1>7, <1>9 DEF BatchBuffers
  <2>3. BtcHeld' = ToSet(btcPend')
    BY <1>2, <1>4 DEF BtcHeld
  <2>4. BatchBooks'
    BY <1>2, <1>9, <2>3 DEF BatchBooks
  <2>5. QED
    BY <2>1, <2>2, <2>4 DEF BatchInv
<1>10. CASE IntervalMessage
  <2>1. PICK all : all = Append(p, n + 1)
    OBVIOUS
  <2>2. /\ btcIn' = n + 1 /\ n + 1 \in 0 .. BatchMax /\ 1 .. n + 1 = (1 .. n) \cup {n + 1} /\ n + 1 \notin 1 .. n
    <3>1. n < BatchMax /\ btcIn' = n + 1 /\ BatchMax \in Nat
      BY <1>1, <1>10, BatchAssumption DEF IntervalMessage, Receive, New
    <3>2. QED
      BY <1>3, <3>1, NextNumber
  <2>3. /\ all \in Seq(1 .. n + 1) /\ Once(all) /\ ToSet(all) = P \cup {n + 1} /\ q \in Seq(1 .. n + 1)
    BY <1>3, <1>5, <2>1, NewLast, NumbersOf
  <2>4. btcTask' = q /\ btcSent' = btcSent /\ BtcSent' = S
    BY <1>1, <1>10 DEF IntervalMessage, BtcSent
  <2>5. \A i \in BtcSent' : btcSent'[i] = 1
    BY <1>6, <2>4
  <2>6. CASE BatchKept > 0 /\ Len(all) > BatchKept
    <3>1. btcPend' = <<>> /\ btcDone' = btcDone \cup P /\ btcError' = btcError \cup {n + 1}
      BY <1>1, <1>5, <1>10, <2>1, <2>6 DEF IntervalMessage, Overflow, Overflowed, New
    <3>2. BtcEnded' = E \cup P \cup {n + 1}
      BY <1>1, <1>2, <3>1 DEF BtcEnded
    <3>3. /\ (1 .. n) \cup {n + 1} = {} \cup Q \cup S \cup (E \cup P \cup {n + 1})
          /\ {} \cap (E \cup P \cup {n + 1}) = {} /\ S \cap ({} \cup Q \cup (E \cup P \cup {n + 1})) = {}
          /\ Q \cap ({} \cup (E \cup P \cup {n + 1})) = {}
      BY <1>6, <2>2
    <3>4. /\ 1 .. btcIn' = ToSet(btcPend') \cup ToSet(btcTask') \cup BtcSent' \cup BtcEnded'
          /\ ToSet(btcPend') \cap BtcEnded' = {} /\ BtcSent' \cap (ToSet(btcPend') \cup ToSet(btcTask') \cup BtcEnded') = {}
          /\ ToSet(btcTask') \cap (ToSet(btcPend') \cup BtcEnded') = {}
      BY <1>5, <1>8, <2>2, <2>4, <3>1, <3>2, <3>3
    <3>5. BatchKept > 0 => Len(btcPend') <= BatchKept
      BY <1>8, <3>1, BatchAssumption
    <3>6. btcPend' \in Seq(1 .. btcIn') /\ btcTask' \in Seq(1 .. btcIn') /\ Once(btcPend') /\ Once(btcTask')
          /\ btcIn' \in 0 .. BatchMax /\ btcSent' \in [1 .. BatchMax -> Nat]
      BY <1>3, <1>7, <1>8, <2>2, <2>3, <2>4, <3>1
    <3>7. QED
      BY <1>9, <2>5, <3>4, <3>5, <3>6
  <2>7. CASE ~(BatchKept > 0 /\ Len(all) > BatchKept)
    <3>1. btcPend' = all /\ btcDone' = btcDone /\ btcError' = btcError
      BY <1>1, <1>10, <2>1, <2>7 DEF IntervalMessage, New
    <3>2. BtcEnded' = E
      BY <1>1, <1>2, <3>1 DEF BtcEnded
    <3>3. PICK A : A = P \cup {n + 1}
      OBVIOUS
    <3>4. /\ (1 .. n) \cup {n + 1} = A \cup Q \cup S \cup E
          /\ A \cap E = {} /\ S \cap (A \cup Q \cup E) = {}
          /\ Q \cap (A \cup E) = {}
      BY <1>6, <2>2, <3>3
    <3>5. /\ 1 .. btcIn' = ToSet(btcPend') \cup ToSet(btcTask') \cup BtcSent' \cup BtcEnded'
          /\ ToSet(btcPend') \cap BtcEnded' = {} /\ BtcSent' \cap (ToSet(btcPend') \cup ToSet(btcTask') \cup BtcEnded') = {}
          /\ ToSet(btcTask') \cap (ToSet(btcPend') \cup BtcEnded') = {}
      BY <1>5, <2>2, <2>3, <2>4, <3>1, <3>2, <3>3, <3>4
    <3>6. BatchKept > 0 => Len(btcPend') <= BatchKept
      <4>1. Len(all) \in Nat /\ BatchKept \in Nat
        BY <2>3, BatchAssumption
      <4>2. QED
        BY <2>7, <3>1, <4>1
    <3>7. btcPend' \in Seq(1 .. btcIn') /\ btcTask' \in Seq(1 .. btcIn') /\ Once(btcPend') /\ Once(btcTask')
          /\ btcIn' \in 0 .. BatchMax /\ btcSent' \in [1 .. BatchMax -> Nat]
      BY <1>3, <1>7, <2>2, <2>3, <2>4, <3>1
    <3>8. QED
      BY <1>9, <2>5, <3>5, <3>6, <3>7
  <2>8. QED
    BY <2>6, <2>7
<1>11. CASE IntervalTick
  <2>1. /\ q = <<>> /\ btcTask' = p /\ btcPend' = <<>> /\ btcIn' = n /\ btcSent' = btcSent /\ BtcSent' = S /\ BtcEnded' = E
    BY <1>1, <1>11 DEF IntervalTick, BtcSent, BtcEnded
  <2>2. ToSet(btcTask') = P /\ ToSet(btcPend') = {} /\ Q = {}
    BY <1>5, <1>8, <2>1
  <2>3. /\ 1 .. n = {} \cup P \cup S \cup E /\ {} \cap E = {} /\ S \cap ({} \cup P \cup E) = {} /\ P \cap ({} \cup E) = {}
    BY <1>6, <2>2
  <2>4. /\ 1 .. btcIn' = ToSet(btcPend') \cup ToSet(btcTask') \cup BtcSent' \cup BtcEnded'
        /\ ToSet(btcPend') \cap BtcEnded' = {} /\ BtcSent' \cap (ToSet(btcPend') \cup ToSet(btcTask') \cup BtcEnded') = {}
        /\ ToSet(btcTask') \cap (ToSet(btcPend') \cup BtcEnded') = {}
    BY <2>1, <2>2, <2>3
  <2>5. btcPend' \in Seq(1 .. btcIn') /\ btcTask' \in Seq(1 .. btcIn') /\ Once(btcPend') /\ Once(btcTask')
        /\ btcIn' \in 0 .. BatchMax /\ btcSent' \in [1 .. BatchMax -> Nat] /\ \A i \in BtcSent' : btcSent'[i] = 1
    BY <1>3, <1>6, <1>7, <1>8, <2>1
  <2>6. BatchKept > 0 => Len(btcPend') <= BatchKept
    BY <1>8, <2>1, BatchAssumption
  <2>7. QED
    BY <1>9, <2>4, <2>5, <2>6
<1>12. CASE IntervalSend
  <2>1. PICK h, f : h = Head(q) /\ f = <<h>>
    OBVIOUS
  <2>2. /\ q # <<>> /\ SendAll(f) /\ btcTask' = Tail(q) /\ btcPend' = p /\ btcIn' = n /\ BtcEnded' = E
    BY <1>1, <1>12, <2>1 DEF IntervalSend, BtcEnded
  <2>3. h \in Q /\ Tail(q) \in Seq(1 .. n) /\ Once(Tail(q)) /\ ToSet(btcTask') = Q \ {h}
    BY <1>3, <1>5, <2>1, <2>2, EndsOf
  <2>4. Once(f) /\ ToSet(f) = {h}
    BY <2>1, OnlyOne
  <2>5. Q \subseteq 1 .. n /\ 1 .. n \subseteq 1 .. BatchMax
    <3>1. Q \subseteq 1 .. n
      BY <1>6
    <3>2. QED
      BY <1>7, <3>1, BatchAssumption
  <2>6. /\ btcSent' \in [1 .. BatchMax -> Nat]
        /\ \A i \in 1 .. BatchMax : btcSent'[i] = IF i \in {h} THEN btcSent[i] + 1 ELSE btcSent[i]
        /\ BtcSent' = S \cup {h}
    <3>1. IsFiniteSet({h}) /\ {h} \subseteq 1 .. BatchMax
      BY <2>3, <2>5, FS_Singleton
    <3>2. QED
      BY <1>1, <1>7, <2>2, <2>4, <3>1, SendsOnce
  <2>7. \A i \in BtcSent' : btcSent'[i] = 1
    <3>1. h \in 1 .. BatchMax /\ h \notin S /\ btcSent[h] \in Nat
      BY <1>6, <1>7, <2>3, <2>5
    <3>2. btcSent[h] = 0
      BY <1>1, <3>1 DEF BtcSent
    <3>3. S \subseteq 1 .. BatchMax
      BY <1>1 DEF BtcSent
    <3>4. QED
      BY <1>6, <2>6, <3>1, <3>2, <3>3
  <2>8. PICK R, V : R = Q \ {h} /\ V = S \cup {h}
    OBVIOUS
  <2>9. /\ 1 .. n = P \cup R \cup V \cup E /\ P \cap E = {} /\ V \cap (P \cup R \cup E) = {} /\ R \cap (P \cup E) = {}
    BY <1>6, <2>3, <2>8
  <2>10. /\ 1 .. btcIn' = ToSet(btcPend') \cup ToSet(btcTask') \cup BtcSent' \cup BtcEnded'
         /\ ToSet(btcPend') \cap BtcEnded' = {} /\ BtcSent' \cap (ToSet(btcPend') \cup ToSet(btcTask') \cup BtcEnded') = {}
         /\ ToSet(btcTask') \cap (ToSet(btcPend') \cup BtcEnded') = {}
    BY <1>5, <2>2, <2>3, <2>6, <2>8, <2>9
  <2>11. btcPend' \in Seq(1 .. btcIn') /\ btcTask' \in Seq(1 .. btcIn') /\ Once(btcPend') /\ Once(btcTask')
         /\ btcIn' \in 0 .. BatchMax /\ btcSent' \in [1 .. BatchMax -> Nat] /\ (BatchKept > 0 => Len(btcPend') <= BatchKept)
    BY <1>3, <1>7, <2>2, <2>3, <2>6
  <2>12. QED
    BY <1>9, <2>7, <2>10, <2>11
<1>13. QED
  BY <1>10, <1>11, <1>12

(* A message that concat ignores, and a reset: what was held has ended.     *)
LEMMA EndingKeeps ==
  ASSUME BatchInv, ConcatIgnored \/ BatchReset
  PROVE  BatchInv'
<1>1. PICK n, T, H, S, E : n = btcIn /\ T = ToSet(btcTask) /\ H = BtcHeld /\ S = BtcSent /\ E = BtcEnded
  OBVIOUS
<1>2. btcMode' = btcMode /\ btcSent' = btcSent /\ BtcSent' = S
  BY <1>1 DEF ConcatIgnored, BatchReset, BtcSent
<1>3. /\ 1 .. n = H \cup T \cup S \cup E /\ H \cap E = {}
      /\ btcMode = "count" => Cardinality(S \cap H) <= BatchOverlap
      /\ btcMode # "count" => /\ \A i \in S : btcSent[i] = 1
                             /\ S \cap (H \cup T \cup E) = {} /\ T \cap (H \cup E) = {}
  BY <1>1 DEF BatchInv, BatchBooks
<1>4. n \in Nat /\ btcPend \in Seq(1 .. n) /\ btcTask \in Seq(1 .. n) /\ btcGroups \subseteq BatchPending(n) /\ Apart(btcGroups)
      /\ btcSent \in [1 .. BatchMax -> Nat] /\ n \in 0 .. BatchMax
  BY <1>1, BooksBound DEF BatchInv, BatchTypes, BatchBuffers
<1>5. ToSet(<<>>) = {} /\ Once(<<>>) /\ Len(<<>>) = 0 /\ <<>> \in Seq(1 .. n)
  <2>1. \A A : <<>> \in Seq(A)
    BY EmptySeq
  <2>2. QED
    BY <2>1 DEF ToSet, Once
<1>6. CASE ConcatIgnored
  <2>1. /\ btcMode = "concat" /\ Receive /\ btcGone' = btcGone \cup {n + 1}
        /\ UNCHANGED <<btcMode, btcPend, btcGroups, btcCount, btcTask, btcSent, btcDone, btcError>>
    BY <1>1, <1>6 DEF ConcatIgnored, New
  <2>2. /\ btcIn' = n + 1 /\ n + 1 \in 0 .. BatchMax /\ 1 .. n + 1 = (1 .. n) \cup {n + 1} /\ n + 1 \notin 1 .. n
    <3>1. n < BatchMax /\ btcIn' = n + 1 /\ BatchMax \in Nat
      BY <1>1, <2>1, BatchAssumption DEF Receive, New
    <3>2. QED
      BY <1>4, <3>1, NextNumber
  <2>3. btcPend \in Seq(1 .. n + 1) /\ btcTask \in Seq(1 .. n + 1)
    BY <1>4, NumbersOf
  <2>4. btcGroups \subseteq BatchPending(n + 1)
    <3> SUFFICES ASSUME NEW g \in btcGroups PROVE g \in BatchPending(n + 1)
      OBVIOUS
    <3>1. g.msgs \in Seq(1 .. n)
      BY <1>4 DEF BatchPending
    <3>2. g.msgs \in Seq(1 .. n + 1)
      BY <1>4, <3>1, NumbersOf
    <3>3. QED
      BY <1>4, <3>2 DEF BatchPending
  <2>5. BatchTypes'
    BY <1>4, <2>1, <2>2, <2>3, <2>4 DEF BatchTypes
  <2>6. BatchBuffers'
    BY <2>1 DEF BatchInv, BatchBuffers
  <2>7. BtcHeld' = H /\ ToSet(btcTask') = T /\ BtcEnded' = E \cup {n + 1} /\ btcMode' # "count"
    BY <1>1, <2>1 DEF BtcHeld, BtcEnded
  <2>8. PICK F : F = E \cup {n + 1}
    OBVIOUS
  <2>9. /\ (1 .. n) \cup {n + 1} = H \cup T \cup S \cup F /\ H \cap F = {} /\ S \cap (H \cup T \cup F) = {} /\ T \cap (H \cup F) = {}
    BY <1>3, <2>1, <2>2, <2>8
  <2>10. BatchBooks'
    BY <1>2, <1>3, <2>1, <2>2, <2>7, <2>8, <2>9 DEF BatchBooks
  <2>11. QED
    BY <2>5, <2>6, <2>10 DEF BatchInv
<1>7. CASE BatchReset
  <2>1. /\ btcPend' = <<>> /\ btcGroups' = {} /\ btcCount' = 0 /\ btcTask' = <<>> /\ btcIn' = n /\ btcError' = btcError
    BY <1>1, <1>7 DEF BatchReset
  <2>2. ToSet(btcPend) \cup ToSet(Msgs(btcGroups)) = H
    BY <1>1, <1>4, ApartOnce DEF BtcHeld
  <2>3. BtcEnded' = E \cup H \cup T
    <3>1. CASE btcMode = "sort"
      <4>1. btcGone' = btcGone \cup H /\ btcDone' = btcDone
        BY <1>7, <2>2, <3>1 DEF BatchReset
      <4>2. T = {}
        BY <1>1, <1>5, <3>1 DEF BatchInv, BatchBuffers
      <4>3. QED
        BY <1>1, <2>1, <4>1, <4>2 DEF BtcEnded
    <3>2. CASE btcMode # "sort"
      <4>1. btcDone' = btcDone \cup H /\ btcGone' = btcGone \cup T
        BY <1>1, <1>7, <2>2, <3>2 DEF BatchReset
      <4>2. QED
        BY <1>1, <2>1, <4>1 DEF BtcEnded
    <3>3. QED
      BY <3>1, <3>2
  <2>4. InGroups({}) = {} /\ Cardinality({}) = 0
    BY FS_EmptySet DEF InGroups
  <2>5. BtcHeld' = {} /\ ToSet(btcTask') = {}
    BY <1>5, <2>1, <2>4 DEF BtcHeld
  <2>6. BatchTypes'
    BY <1>2, <1>4, <1>5, <2>1 DEF BatchTypes
  <2>7. BatchBuffers'
    <3>1. btcCount' = Cardinality(InGroups(btcGroups')) /\ Apart(btcGroups')
      BY <2>1, <2>4 DEF Apart
    <3>2. Len(btcPend') < BatchCount /\ (BatchKept > 0 => btcCount' <= BatchKept /\ Len(btcPend') <= BatchKept)
      BY <1>5, <2>1, BatchAssumption
    <3>3. QED
      BY <1>5, <2>1, <3>1, <3>2 DEF BatchBuffers
  <2>8. PICK F : F = E \cup H \cup T
    OBVIOUS
  <2>9. /\ 1 .. n = {} \cup {} \cup S \cup F /\ {} \cap F = {}
        /\ btcMode # "count" => S \cap ({} \cup {} \cup F) = {} /\ {} \cap ({} \cup F) = {}
        /\ S \cap {} = {}
    BY <1>3, <2>8
  <2>10. BatchOverlap \in Nat
    BY BatchAssumption
  <2>11. BatchBooks'
    BY <1>2, <1>3, <2>1, <2>3, <2>4, <2>5, <2>8, <2>9, <2>10 DEF BatchBooks
  <2>12. QED
    BY <2>6, <2>7, <2>11 DEF BatchInv
<1>8. QED
  BY <1>6, <1>7

(* Every step of the two nodes.                                            *)
LEMMA BatchStep == ASSUME BatchInv, [BatchNext]_batchVars PROVE BatchInv'
<1>1. CASE UNCHANGED batchVars
  BY <1>1 DEF batchVars, BatchInv, BatchTypes, BatchBuffers, BatchBooks, BtcHeld, BtcSent, BtcEnded
<1>2. CASE \E eof \in BOOLEAN : CountMessage(eof)
  BY <1>2, CountKeeps
<1>3. CASE IntervalMessage \/ IntervalTick \/ IntervalSend
  BY <1>3, IntervalKeeps
<1>4. CASE ConcatIgnored \/ BatchReset
  BY <1>4, EndingKeeps
<1>5. ASSUME NEW id \in BatchGroups, NEW k \in 0 .. 2, SortMessage(id, k) PROVE BatchInv'
  BY <1>5, SortKeeps
<1>6. ASSUME NEW id \in BatchGroups, NEW k \in 0 .. 2, NEW t \in BatchTopics, ConcatMessage(t, id, k) PROVE BatchInv'
  BY <1>6, ConcatKeeps
<1>7. QED
  BY <1>1, <1>2, <1>3, <1>4, <1>5, <1>6 DEF BatchNext

(* For any number of messages, groups, batch length, overlap and buffer limit:
   every message that batch or sort received is in one place of the node, sent,
   completed, reported or given up, pending_count is what the groups hold, and
   nothing but the overlap of a count batch is sent twice.                  *)
THEOREM BatchesBalance == BatchSpec => []BatchAccounts
<1>1. BatchInit => BatchInv
  <2> SUFFICES ASSUME BatchInit PROVE BatchInv
    OBVIOUS
  <2>1. /\ btcIn = 0 /\ btcPend = <<>> /\ btcGroups = {} /\ btcCount = 0 /\ btcTask = <<>>
        /\ btcSent = [i \in 1 .. BatchMax |-> 0] /\ btcDone = {} /\ btcError = {} /\ btcGone = {}
    BY DEF BatchInit
  <2>2. ToSet(<<>>) = {} /\ Once(<<>>) /\ Len(<<>>) = 0 /\ <<>> \in Seq(1 .. 0) /\ InGroups({}) = {}
    <3>1. <<>> \in Seq(1 .. 0)
      BY EmptySeq
    <3>2. QED
      BY <3>1 DEF ToSet, Once, InGroups
  <2>3. Cardinality({}) = 0
    BY FS_EmptySet
  <2>4. BatchTypes
    BY <2>1, <2>2, BatchAssumption DEF BatchTypes
  <2>5. BatchBuffers
    <3>1. Apart(btcGroups) /\ btcCount = Cardinality(InGroups(btcGroups)) /\ Once(btcPend) /\ Once(btcTask)
      BY <2>1, <2>2, <2>3 DEF Apart
    <3>2. Len(btcPend) < BatchCount /\ (BatchKept > 0 => btcCount <= BatchKept /\ Len(btcPend) <= BatchKept)
      BY <2>1, <2>2, BatchAssumption
    <3>3. QED
      BY <2>1, <3>1, <3>2 DEF BatchBuffers
  <2>6. BtcHeld = {} /\ BtcSent = {} /\ BtcEnded = {}
    BY <2>1, <2>2 DEF BtcHeld, BtcSent, BtcEnded
  <2>7. BatchBooks
    <3>1. 1 .. 0 = {}
      OBVIOUS
    <3>2. {} \cap {} = {} /\ 0 <= BatchOverlap
      BY BatchAssumption
    <3>3. QED
      BY <2>1, <2>2, <2>3, <2>6, <3>1, <3>2 DEF BatchBooks
  <2>8. QED
    BY <2>4, <2>5, <2>7 DEF BatchInv
<1>2. BatchInv /\ [BatchNext]_batchVars => BatchInv'
  BY BatchStep
<1>3. BatchInv => BatchAccounts
  <2> SUFFICES ASSUME BatchInv PROVE BatchAccounts
    OBVIOUS
  <2>1. btcIn \in Nat /\ btcGroups \in SUBSET BatchPending(btcIn) /\ Apart(btcGroups)
    BY BooksBound DEF BatchInv, BatchTypes, BatchBuffers
  <2>2. ToSet(Msgs(btcGroups)) = InGroups(btcGroups) /\ Cardinality(Spots(btcGroups)) = Cardinality(InGroups(btcGroups))
    BY <2>1, ApartOnce
  <2>3. btcCount = Cardinality(Spots(btcGroups)) /\ (BatchKept > 0 => btcCount <= BatchKept /\ Len(btcPend) <= BatchKept)
    BY <2>2 DEF BatchInv, BatchBuffers
  <2>4. PICK H, S, E, T : H = BtcHeld /\ S = BtcSent /\ E = BtcEnded /\ T = ToSet(btcTask)
    OBVIOUS
  <2>5. /\ 1 .. btcIn = H \cup T \cup S \cup E /\ H \cap E = {}
        /\ btcMode = "count" => Cardinality(S \cap H) <= BatchOverlap
        /\ btcMode # "count" => (\A i \in S : btcSent[i] = 1) /\ S \cap (H \cup E) = {}
    BY <2>4 DEF BatchInv, BatchBooks
  <2>6. /\ H = ToSet(btcPend) \cup ToSet(Msgs(btcGroups)) /\ S = {i \in 1 .. BatchMax : btcSent[i] > 0}
        /\ E = btcDone \cup btcError \cup btcGone
    BY <2>2, <2>4 DEF BtcHeld, BtcSent, BtcEnded
  <2>7. QED
    BY <2>3, <2>4, <2>5, <2>6 DEF BatchAccounts
<1>4. QED
  BY <1>1, <1>2, <1>3, PTL DEF BatchSpec
=============================================================================
