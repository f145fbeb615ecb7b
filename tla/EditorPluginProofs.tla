------------------------- MODULE EditorPluginProofs -------------------------
(***************************************************************************)
(* Proofs about what the user of the editor deals with: plugins, from the  *)
(* marketplace over the plugin manager to the node that runs one           *)
(* (Plugins), and what the editor is told of a running engine              *)
(* (EditorComms).                                                          *)
(***************************************************************************)
EXTENDS Plugins, EditorComms, FiniteSetTheorems, SequenceTheorems, TLAPS

-----------------------------------------------------------------------------
(* The marketplace.                                                         *)

MktFields == {"at", "op", "name", "id", "version", "lacks"}

(* The ids that were issued.                                                *)
Ids == {MktId(i) : i \in Nat}
Issued(n) == {MktId(i) : i \in 1 .. n}

(* A request between its two locks: an id it resolved is an old one, and is what the
   request asked for, or stands for that name for as long as it is in the store. *)
MktReqInv(r, plugins, issued) ==
  /\ DOMAIN r = MktFields
  /\ r.at = "write" /\ r.op = "publish" => r.lacks = "none"
  /\ r.at = "write" /\ r.op # "publish" =>
       /\ r.id \in Issued(issued)
       /\ r.id \in DOMAIN plugins => r.name \in {r.id, plugins[r.id].name}

(* Plugins and names are inverse to each other, and there is one binary for each
   version of each plugin.                                                  *)
TablesInv ==
  /\ mktIssued \in Nat /\ DOMAIN mktPlugins \subseteq Issued(mktIssued)
  /\ \A id \in DOMAIN mktPlugins :
       /\ DOMAIN mktPlugins[id] = {"name", "versions"}
       /\ mktPlugins[id].name \in DOMAIN mktIndex /\ mktIndex[mktPlugins[id].name] = id
  /\ \A n \in DOMAIN mktIndex : mktIndex[n] \in DOMAIN mktPlugins /\ mktPlugins[mktIndex[n]].name = n
  /\ mktRatings \subseteq DOMAIN mktPlugins
  /\ \A k \in DOMAIN mktBinaries : mktBinaries[k] = "none"
  /\ \A id \in Ids, v \in MktVersions :
       <<id, v>> \in DOMAIN mktBinaries <=> id \in DOMAIN mktPlugins /\ v \in mktPlugins[id].versions

MktInv ==
  /\ TablesInv
  /\ DOMAIN mktReq = MktHandlers
  /\ \A h \in MktHandlers : MktReqInv(mktReq[h], mktPlugins, mktIssued)

(* The plugin manager: whatever passed load_plugin has every export, and both tables
   have the same module of each type.                                       *)
Complete(c) == c.lacks \in {"none", "typed process"}

PmInv ==
  /\ \A f \in DOMAIN pmFiles : pmFiles[f] \in Contents
  /\ pmLoad = NoLoad \/ Complete(pmLoad.module)
  /\ DOMAIN pmPlugins = DOMAIN pmRegistry /\ pmTypes \subseteq DOMAIN pmPlugins
  /\ \A t \in DOMAIN pmRegistry :
       Complete(pmRegistry[t]) /\ pmRegistry[t].type = t /\ pmPlugins[t].module = pmRegistry[t]

(* The node: what was forwarded or is in hand, and then what is pending, is in order
   and is all that the guest made; the calls to come are later ones.        *)
Outputs == [call : Int, way : {"pushed", "returned"}, number : Nat]
Forwards == [output : Outputs, taken : BOOLEAN]
Given(f) == [i \in DOMAIN f |-> f[i].output]
Away == Given(gstForwarded) \o gstOut

Ordered(s) == \A i, j \in DOMAIN s : i < j => MayPrecede(s[i], s[j])
Before(s, t) == \A x \in Range(s), y \in Range(t) : MayPrecede(x, y)
AllOf(A, pushed, answered) ==
  /\ {x.number : x \in {y \in A : y.way = "pushed"}} = 1 .. pushed
  /\ {x \in A : x.way = "returned"} = answered

GstInv ==
  /\ gstInbox \in Nat /\ gstCount \in Nat /\ gstInbox <= gstCount /\ gstPushed \in Nat
  /\ gstForwarded \in Seq(Forwards) /\ gstOut \in Seq(Outputs)
  /\ gstPending \in Seq(Outputs)
  /\ Ordered(Away) /\ Ordered(gstPending) /\ Before(Away, gstPending)
  /\ AllOf(Range(Away) \cup Range(gstPending), gstPushed, gstAnswered)
  /\ \A x \in Range(gstPending) : x.way = "pushed"
  /\ gstStage \in {"start", "loop"} => \A x \in Range(Away) \cup Range(gstPending) : x.call < ThisCall
  /\ gstStage \in {"stopped", "gone"} => gstOut = <<>>
  /\ gstStage = "start" => gstOut = <<>> /\ gstPending = <<>>
  /\ gstStage = "loop" /\ ~gstFailed => \A x \in Range(gstPending) : x.call = 0

PlugInv == MktInv /\ PmInv /\ GstInv

(* Ids are not issued twice.                                                *)
LEMMA IssuedGrow ==
  ASSUME NEW n \in Nat
  PROVE  /\ Issued(n) \subseteq Ids /\ Issued(n) \subseteq Issued(n + 1)
         /\ MktId(n + 1) \in Issued(n + 1) /\ MktId(n + 1) \notin Issued(n)
<1>1. \A i, j \in Nat : MktId(i) = MktId(j) => i = j
  BY DEF MktId
<1>2. MktId(n + 1) \notin Issued(n)
  BY <1>1 DEF Issued
<1>3. QED
  BY <1>2 DEF Issued, Ids

(* A request moves on while the store keeps the names of the plugins it has.   *)
LEMMA MktMoves ==
  ASSUME MktInv, NEW h \in MktHandlers, NEW q, mktReq' = [mktReq EXCEPT ![h] = q], TablesInv',
         Issued(mktIssued) \subseteq Issued(mktIssued)',
         \A id \in DOMAIN mktPlugins' \cap Issued(mktIssued) :
            id \in DOMAIN mktPlugins /\ mktPlugins'[id].name = mktPlugins[id].name,
         MktReqInv(q, mktPlugins', mktIssued')
  PROVE  MktInv'
<1>1. DOMAIN mktReq' = MktHandlers /\ mktReq'[h] = q /\ \A g \in MktHandlers \ {h} : mktReq'[g] = mktReq[g]
  BY DEF MktInv
<1>3. ASSUME NEW g \in MktHandlers \ {h} PROVE MktReqInv(mktReq'[g], mktPlugins', mktIssued')
  <2>1. MktReqInv(mktReq[g], mktPlugins, mktIssued) /\ mktReq'[g] = mktReq[g]
    BY <1>1 DEF MktInv
  <2>2. QED
    BY <2>1 DEF MktReqInv
<1>4. \A g \in MktHandlers : MktReqInv(mktReq'[g], mktPlugins', mktIssued')
  BY <1>1, <1>3
<1>5. QED
  BY <1>1, <1>4 DEF MktInv

(* A handler that has answered.                                             *)
LEMMA NoReqIsFine == ASSUME NEW plugins, NEW issued PROVE MktReqInv(NoReq, plugins, issued)
BY DEF MktReqInv, NoReq, MktFields

(* Steps that leave the tables alone.                                       *)
LEMMA TablesFrame ==
  ASSUME TablesInv, UNCHANGED <<mktPlugins, mktIndex, mktBinaries, mktRatings, mktIssued>>
  PROVE  /\ TablesInv' /\ Issued(mktIssued) \subseteq Issued(mktIssued)'
         /\ \A id \in DOMAIN mktPlugins' \cap Issued(mktIssued) :
              id \in DOMAIN mktPlugins /\ mktPlugins'[id].name = mktPlugins[id].name
BY DEF TablesInv

(* A request arrives, and takes its first lock.                             *)
LEMMA ReadsKeep == ASSUME MktInv, NEW h \in MktHandlers, MktArrives(h) \/ MktResolve(h) PROVE MktInv'
<1> DEFINE r == mktReq[h]
<1>1. /\ UNCHANGED <<mktPlugins, mktIndex, mktBinaries, mktRatings, mktIssued>> /\ TablesInv
      /\ MktReqInv(r, mktPlugins, mktIssued) /\ DOMAIN mktReq = MktHandlers
  BY DEF MktArrives, MktResolve, MktInv
<1>2. ASSUME NEW q, mktReq' = [mktReq EXCEPT ![h] = q], MktReqInv(q, mktPlugins, mktIssued) PROVE MktInv'
  BY <1>1, <1>2, TablesFrame, MktMoves
<1>3. CASE MktArrives(h)
  <2>1. PICK op \in {"publish", "unpublish", "rate"}, n \in MktTexts, v \in MktVersions, l \in {"none", "alloc"} :
           mktReq' = [mktReq EXCEPT ![h] = [at |-> "read", op |-> op, name |-> n, id |-> MktId(0), version |-> v, lacks |-> l]]
    BY <1>3 DEF MktArrives
  <2> DEFINE q == [at |-> "read", op |-> op, name |-> n, id |-> MktId(0), version |-> v, lacks |-> l]
  <2>2. MktReqInv(q, mktPlugins, mktIssued)
    BY DEF MktReqInv, MktFields
  <2> HIDE DEF q
  <2>3. mktReq' = [mktReq EXCEPT ![h] = q]
    BY <2>1 DEF q
  <2>4. QED
    BY <1>2, <2>2, <2>3
<1>4. CASE mktReq' = [mktReq EXCEPT ![h] = NoReq]
  BY <1>2, <1>4, NoReqIsFine
<1>5. CASE r.op = "publish" /\ VerifyWasmPlugin(r) /\ mktReq' = [mktReq EXCEPT ![h].at = "write"]
  <2> DEFINE q == [r EXCEPT !.at = "write"]
  <2>1. mktReq' = [mktReq EXCEPT ![h] = q]
    BY <1>5
  <2>2. DOMAIN q = MktFields /\ q.at = "write" /\ q.op = "publish" /\ q.lacks = "none"
    BY <1>1, <1>5 DEF MktReqInv, MktFields, VerifyWasmPlugin
  <2> HIDE DEF q
  <2>3. MktReqInv(q, mktPlugins, mktIssued)
    BY <2>2 DEF MktReqInv
  <2>4. QED
    BY <1>2, <2>1, <2>3
<1>6. CASE /\ r.op # "publish" /\ MktKnown(r.name)
           /\ mktReq' = [mktReq EXCEPT ![h].at = "write", ![h].id = MktIdOf(r.name)]
  <2> DEFINE q == [r EXCEPT !.at = "write", !.id = MktIdOf(r.name)]
  <2>1. mktReq' = [mktReq EXCEPT ![h] = q]
    BY <1>1, <1>6
  <2>2. DOMAIN q = MktFields /\ q.at = "write" /\ q.op # "publish" /\ q.id = MktIdOf(r.name) /\ q.name = r.name
    BY <1>1, <1>6 DEF MktReqInv, MktFields
  <2> HIDE DEF q
  <2>3. MktReqInv(q, mktPlugins, mktIssued)
    BY <1>1, <1>6, <2>2 DEF MktReqInv, TablesInv, MktKnown, MktIdOf
  <2>4. QED
    BY <1>2, <2>1, <2>3
<1>7. QED
  BY <1>3, <1>4, <1>5, <1>6 DEF MktResolve

(* PluginStore::publish: the name stays with its id, or gets a fresh one.    *)
LEMMA PublishKeeps == ASSUME MktInv, NEW h \in MktHandlers, MktPublish(h) PROVE MktInv'
<1> DEFINE r == mktReq[h]
           known == r.name \in DOMAIN mktIndex
           id == IF known THEN mktIndex[r.name] ELSE MktId(mktIssued + 1)
           had == IF known THEN mktPlugins[id].versions ELSE {}
           p == [name |-> r.name, versions |-> had \cup {r.version}]
<1>1. /\ TablesInv /\ MktReqInv(r, mktPlugins, mktIssued) /\ mktReq' = [mktReq EXCEPT ![h] = NoReq]
      /\ r.at = "write" /\ r.op = "publish" /\ mktRatings' = mktRatings
      /\ r.lacks = "none"
  BY DEF MktPublish, MktInv, MktReqInv
<1>2. CASE UNCHANGED <<mktPlugins, mktIndex, mktBinaries, mktIssued>>
  BY <1>1, <1>2, NoReqIsFine, TablesFrame, MktMoves
<1>3. CASE /\ mktPlugins' = With2(mktPlugins, id, p)
           /\ mktIndex' = With2(mktIndex, r.name, id)
           /\ mktBinaries' = With2(mktBinaries, <<id, r.version>>, r.lacks)
           /\ mktIssued' = IF known THEN mktIssued ELSE mktIssued + 1
  <2>1. /\ mktIssued \in Nat /\ mktIssued' \in Nat /\ Issued(mktIssued) \subseteq Issued(mktIssued')
        /\ id \in Issued(mktIssued') /\ id \in Ids
        /\ known => id \in DOMAIN mktPlugins /\ mktPlugins[id].name = r.name /\ mktIndex[r.name] = id /\ mktIssued' = mktIssued
        /\ ~known => id \notin DOMAIN mktPlugins /\ id \notin Issued(mktIssued) /\ had = {}
    BY <1>1, <1>3, IssuedGrow DEF TablesInv
  <2>2. /\ DOMAIN mktPlugins' = DOMAIN mktPlugins \cup {id} /\ mktPlugins'[id] = p
        /\ \A x \in DOMAIN mktPlugins \ {id} : mktPlugins'[x] = mktPlugins[x]
    BY <1>3 DEF With2
  <2>3. /\ DOMAIN mktIndex' = DOMAIN mktIndex \cup {r.name} /\ mktIndex'[r.name] = id
        /\ \A n \in DOMAIN mktIndex \ {r.name} : mktIndex'[n] = mktIndex[n]
    BY <1>3 DEF With2
  <2>4. /\ DOMAIN mktBinaries' = DOMAIN mktBinaries \cup {<<id, r.version>>} /\ mktBinaries'[<<id, r.version>>] = "none"
        /\ \A k \in DOMAIN mktBinaries \ {<<id, r.version>>} : mktBinaries'[k] = mktBinaries[k]
    BY <1>1, <1>3 DEF With2
  <2>5. DOMAIN p = {"name", "versions"} /\ p.name = r.name /\ p.versions = had \cup {r.version}
    OBVIOUS
  <2>6. known => had = mktPlugins[id].versions
    OBVIOUS
  <2> HIDE DEF p, id, had, known
  <2>7. \A x \in DOMAIN mktPlugins \ {id} : mktPlugins[x].name # r.name
    BY <1>1, <2>1 DEF TablesInv, known
  <2>8. \A x \in DOMAIN mktPlugins' :
          /\ DOMAIN mktPlugins'[x] = {"name", "versions"}
          /\ mktPlugins'[x].name \in DOMAIN mktIndex' /\ mktIndex'[mktPlugins'[x].name] = x
    BY <1>1, <2>2, <2>3, <2>5, <2>7 DEF TablesInv
  <2>9. \A n \in DOMAIN mktIndex' : mktIndex'[n] \in DOMAIN mktPlugins' /\ mktPlugins'[mktIndex'[n]].name = n
    <3>1. ASSUME NEW n \in DOMAIN mktIndex \ {r.name} PROVE mktIndex[n] \in DOMAIN mktPlugins \ {id} /\ mktPlugins[mktIndex[n]].name = n
      BY <1>1, <2>1 DEF TablesInv
    <3>2. QED
      BY <2>2, <2>3, <2>5, <3>1
  <2>10. ASSUME NEW x \in Ids, NEW v \in MktVersions
         PROVE  <<x, v>> \in DOMAIN mktBinaries' <=> x \in DOMAIN mktPlugins' /\ v \in mktPlugins'[x].versions
    <3>1. <<x, v>> \in DOMAIN mktBinaries <=> x \in DOMAIN mktPlugins /\ v \in mktPlugins[x].versions
      BY <1>1 DEF TablesInv
    <3>2. <<x, v>> = <<id, r.version>> <=> x = id /\ v = r.version
      OBVIOUS
    <3>3. CASE x = id
      BY <2>1, <2>2, <2>4, <2>5, <2>6, <3>1, <3>2, <3>3
    <3>4. CASE x # id
      BY <2>2, <2>4, <3>1, <3>2, <3>4
    <3>5. QED
      BY <3>3, <3>4
  <2>11. DOMAIN mktPlugins' \subseteq Issued(mktIssued') /\ mktRatings' \subseteq DOMAIN mktPlugins'
    BY <1>1, <2>1, <2>2 DEF TablesInv
  <2>12. \A k \in DOMAIN mktBinaries' : mktBinaries'[k] = "none"
    BY <1>1, <2>4 DEF TablesInv
  <2>13. TablesInv'
    BY <2>1, <2>8, <2>9, <2>10, <2>11, <2>12 DEF TablesInv
  <2>14. \A x \in DOMAIN mktPlugins' \cap Issued(mktIssued) :
           x \in DOMAIN mktPlugins /\ mktPlugins'[x].name = mktPlugins[x].name
    BY <2>1, <2>2, <2>5
  <2>15. QED
    BY <1>1, <2>1, <2>13, <2>14, NoReqIsFine, MktMoves
<1>4. QED
  BY <1>2, <1>3 DEF MktPublish

(* PluginStore::unpublish_version: the name that goes with the last version is the
   one the id still has, although the id was resolved under an earlier lock. *)
LEMMA UnpublishKeeps == ASSUME MktInv, NEW h \in MktHandlers, MktUnpublish(h) PROVE MktInv'
<1> DEFINE r == mktReq[h]
           had == IF r.id \in DOMAIN mktPlugins THEN mktPlugins[r.id].versions ELSE {r.version}
           last == had = {r.version}
           name == mktPlugins[r.id].name
<1>1. /\ TablesInv /\ MktReqInv(r, mktPlugins, mktIssued) /\ mktReq' = [mktReq EXCEPT ![h] = NoReq]
      /\ r.at = "write" /\ r.op # "publish" /\ mktIssued' = mktIssued /\ mktIssued \in Nat
      /\ Issued(mktIssued) \subseteq Issued(mktIssued')
      /\ MktReqInv(NoReq, mktPlugins', mktIssued')
  BY NoReqIsFine DEF MktUnpublish, MktInv, TablesInv
<1>2. CASE UNCHANGED <<mktPlugins, mktIndex, mktBinaries, mktRatings>>
  BY <1>1, <1>2, NoReqIsFine, TablesFrame, MktMoves
<1>3. CASE /\ MktHas(r) /\ r.version \in had
           /\ mktBinaries' = But(mktBinaries, <<r.id, r.version>>)
           /\ mktPlugins' = IF last THEN But(mktPlugins, r.id) ELSE [mktPlugins EXCEPT ![r.id].versions = @ \ {r.version}]
           /\ mktIndex' = IF last THEN But(mktIndex, name) ELSE mktIndex
           /\ mktRatings' = IF last THEN mktRatings \ {r.id} ELSE mktRatings
  <2>1. /\ r.id \in DOMAIN mktPlugins /\ had = mktPlugins[r.id].versions
        /\ mktIndex[name] = r.id /\ name \in DOMAIN mktIndex /\ r.id \in Ids
        /\ DOMAIN mktPlugins[r.id] = {"name", "versions"}
    BY <1>1, <1>3, IssuedGrow DEF MktHas, TablesInv
  <2>2. /\ DOMAIN mktBinaries' = DOMAIN mktBinaries \ {<<r.id, r.version>>}
        /\ \A k \in DOMAIN mktBinaries' : mktBinaries'[k] = mktBinaries[k]
    BY <1>3 DEF But
  <2>3. CASE last
    <3>1. /\ DOMAIN mktPlugins' = DOMAIN mktPlugins \ {r.id} /\ DOMAIN mktIndex' = DOMAIN mktIndex \ {name}
          /\ \A x \in DOMAIN mktPlugins' : mktPlugins'[x] = mktPlugins[x]
          /\ \A n \in DOMAIN mktIndex' : mktIndex'[n] = mktIndex[n]
          /\ mktRatings' = mktRatings \ {r.id}
      BY <1>3, <2>3 DEF But
    <3>2. ASSUME NEW x \in Ids, NEW v \in MktVersions
          PROVE  <<x, v>> \in DOMAIN mktBinaries' <=> x \in DOMAIN mktPlugins' /\ v \in mktPlugins'[x].versions
      <4>1. <<x, v>> \in DOMAIN mktBinaries <=> x \in DOMAIN mktPlugins /\ v \in mktPlugins[x].versions
        BY <1>1 DEF TablesInv
      <4>2. <<x, v>> = <<r.id, r.version>> <=> x = r.id /\ v = r.version
        OBVIOUS
      <4>3. QED
        BY <2>1, <2>2, <2>3, <3>1, <4>1, <4>2
    <3>3. \A x \in DOMAIN mktPlugins' : mktPlugins[x].name # name
      BY <1>1, <2>1, <3>1 DEF TablesInv
    <3>4. \A n \in DOMAIN mktIndex' : mktIndex[n] # r.id
      BY <1>1, <2>1, <3>1 DEF TablesInv
    <3>5. \A x \in DOMAIN mktPlugins' :
            /\ DOMAIN mktPlugins'[x] = {"name", "versions"}
            /\ mktPlugins'[x].name \in DOMAIN mktIndex' /\ mktIndex'[mktPlugins'[x].name] = x
      BY <1>1, <3>1, <3>3 DEF TablesInv
    <3>6. \A n \in DOMAIN mktIndex' : mktIndex'[n] \in DOMAIN mktPlugins' /\ mktPlugins'[mktIndex'[n]].name = n
      BY <1>1, <3>1, <3>4 DEF TablesInv
    <3>7. /\ DOMAIN mktPlugins' \subseteq Issued(mktIssued') /\ mktRatings' \subseteq DOMAIN mktPlugins'
          /\ \A k \in DOMAIN mktBinaries' : mktBinaries'[k] = "none"
      BY <1>1, <2>2, <3>1 DEF TablesInv
    <3>8. TablesInv'
      BY <1>1, <3>2, <3>5, <3>6, <3>7 DEF TablesInv
    <3>9. \A id \in DOMAIN mktPlugins' : id \in DOMAIN mktPlugins /\ mktPlugins'[id].name = mktPlugins[id].name
      BY <3>1
    <3>10. QED
      BY <1>1, <3>8, <3>9, MktMoves
  <2>4. CASE ~last
    <3>1. /\ DOMAIN mktPlugins' = DOMAIN mktPlugins /\ mktIndex' = mktIndex /\ mktRatings' = mktRatings
          /\ \A x \in DOMAIN mktPlugins \ {r.id} : mktPlugins'[x] = mktPlugins[x]
          /\ mktPlugins'[r.id] = [mktPlugins[r.id] EXCEPT !.versions = @ \ {r.version}]
      BY <1>3, <2>1, <2>4
    <3>2. /\ DOMAIN mktPlugins'[r.id] = {"name", "versions"} /\ mktPlugins'[r.id].name = name
          /\ mktPlugins'[r.id].versions = mktPlugins[r.id].versions \ {r.version}
      BY <2>1, <3>1
    <3>3. ASSUME NEW x \in Ids, NEW v \in MktVersions
          PROVE  <<x, v>> \in DOMAIN mktBinaries' <=> x \in DOMAIN mktPlugins' /\ v \in mktPlugins'[x].versions
      <4>1. <<x, v>> \in DOMAIN mktBinaries <=> x \in DOMAIN mktPlugins /\ v \in mktPlugins[x].versions
        BY <1>1 DEF TablesInv
      <4>2. <<x, v>> = <<r.id, r.version>> <=> x = r.id /\ v = r.version
        OBVIOUS
      <4>3. QED
        BY <2>1, <2>2, <3>1, <3>2, <4>1, <4>2
    <3>4. \A x \in DOMAIN mktPlugins' : mktPlugins'[x].name = mktPlugins[x].name /\ DOMAIN mktPlugins'[x] = {"name", "versions"}
      BY <1>1, <2>1, <3>1, <3>2 DEF TablesInv
    <3>5. TablesInv'
      BY <1>1, <2>2, <3>1, <3>3, <3>4 DEF TablesInv
    <3>6. \A id \in DOMAIN mktPlugins' : id \in DOMAIN mktPlugins /\ mktPlugins'[id].name = mktPlugins[id].name
      BY <3>1, <3>4
    <3>7. QED
      BY <1>1, <3>5, <3>6, MktMoves
  <2>5. QED
    BY <2>3, <2>4
<1>4. QED
  BY <1>2, <1>3 DEF MktUnpublish

(* Every step of the marketplace.                                          *)
LEMMA MktStep == ASSUME MktInv, MktNext PROVE MktInv'
<1>1. ASSUME NEW h \in MktHandlers, MktRate(h) PROVE MktInv'
  <2>1. /\ TablesInv /\ mktReq' = [mktReq EXCEPT ![h] = NoReq]
        /\ UNCHANGED <<mktPlugins, mktIndex, mktBinaries, mktIssued>>
        /\ mktRatings' \subseteq mktRatings \cup DOMAIN mktPlugins
    BY <1>1 DEF MktRate, MktInv, MktHas
  <2>2. TablesInv' /\ Issued(mktIssued) \subseteq Issued(mktIssued')
    BY <2>1 DEF TablesInv
  <2>3. QED
    BY <2>1, <2>2, NoReqIsFine, MktMoves
<1>2. QED
  BY <1>1, ReadsKeep, PublishKeeps, UnpublishKeeps DEF MktNext

-----------------------------------------------------------------------------
(* The plugin manager and the node.                                         *)

(* Every step of the plugin manager: what becomes a factory is complete.    *)
LEMMA PmStep == ASSUME PmInv, ManagerNext PROVE PmInv'
<1>1. CASE FileChanges
  <2>1. UNCHANGED <<pmLoad, pmRegistry, pmPlugins, pmTypes>>
    BY <1>1 DEF FileChanges
  <2>2. \A f \in DOMAIN pmFiles' : pmFiles'[f] \in Contents
    BY <1>1 DEF FileChanges, PmInv, With2, But
  <2>3. QED
    BY <2>1, <2>2 DEF PmInv
<1>2. CASE LoadPlugin
  <2>1. PICK f \in DOMAIN pmFiles : ValidModule(pmFiles[f]) /\ pmLoad' = [file |-> f, module |-> pmFiles[f]]
    BY <1>2 DEF LoadPlugin
  <2>2. pmFiles[f].lacks \in {"none", "alloc", "process", "typed process"}
    BY DEF PmInv, Contents
  <2>3. Complete(pmLoad'.module)
    BY <2>1, <2>2 DEF ValidModule, Complete
  <2>4. QED
    BY <1>2, <2>3 DEF LoadPlugin, PmInv, Complete
<1>3. CASE LoadInsert
  <2> DEFINE c == pmLoad.module
             d == [module |-> c, checksum |-> pmFiles[pmLoad.file]]
  <2>1. /\ pmLoad' = NoLoad /\ Complete(c) /\ UNCHANGED <<pmFiles, pmTypes>>
        /\ \/ pmRegistry' = With2(pmRegistry, c.type, c) /\ pmPlugins' = With2(pmPlugins, c.type, d)
           \/ UNCHANGED <<pmRegistry, pmPlugins>>
    BY <1>3 DEF LoadInsert, PmInv
  <2>2. d.module = c
    OBVIOUS
  <2> HIDE DEF c, d
  <2>3. CASE UNCHANGED <<pmRegistry, pmPlugins>>
    BY <2>1, <2>3 DEF PmInv, Complete
  <2>4. CASE pmRegistry' = With2(pmRegistry, c.type, c) /\ pmPlugins' = With2(pmPlugins, c.type, d)
    <3>1. /\ DOMAIN pmRegistry' = DOMAIN pmRegistry \cup {c.type} /\ pmRegistry'[c.type] = c
          /\ \A t \in DOMAIN pmRegistry \ {c.type} : pmRegistry'[t] = pmRegistry[t]
      BY <2>4 DEF With2
    <3>2. /\ DOMAIN pmPlugins' = DOMAIN pmPlugins \cup {c.type} /\ pmPlugins'[c.type] = d
          /\ \A t \in DOMAIN pmPlugins \ {c.type} : pmPlugins'[t] = pmPlugins[t]
      BY <2>4 DEF With2
    <3>3. ASSUME NEW t \in DOMAIN pmRegistry'
          PROVE  Complete(pmRegistry'[t]) /\ pmRegistry'[t].type = t /\ pmPlugins'[t].module = pmRegistry'[t]
      <4>1. CASE t = c.type
        BY <2>1, <2>2, <3>1, <3>2, <4>1
      <4>2. CASE t # c.type
        BY <3>1, <3>2, <4>2 DEF PmInv
      <4>3. QED
        BY <4>1, <4>2
    <3>4. QED
      BY <2>1, <3>1, <3>2, <3>3 DEF PmInv
  <2>5. QED
    BY <2>1, <2>3, <2>4
<1>4. CASE RegisterInto
  BY <1>4 DEF RegisterInto, PmInv, Complete
<1>5. QED
  BY <1>1, <1>2, <1>3, <1>4 DEF ManagerNext

(* Sequences in order, one after the other.                                 *)
LEMMA Concats ==
  ASSUME NEW s \in Seq(Outputs), NEW t \in Seq(Outputs)
  PROVE  /\ s \o t \in Seq(Outputs) /\ Range(s \o t) = Range(s) \cup Range(t)
         /\ Ordered(s) /\ Ordered(t) /\ Before(s, t) => Ordered(s \o t)
<1> DEFINE u == s \o t
<1>1. /\ u \in Seq(Outputs) /\ Len(u) = Len(s) + Len(t)
      /\ \A i \in 1 .. Len(s) : u[i] = s[i]
      /\ \A i \in 1 .. Len(t) : u[Len(s) + i] = t[i]
  OBVIOUS
<1>2. DOMAIN u = 1 .. Len(u) /\ DOMAIN s = 1 .. Len(s) /\ DOMAIN t = 1 .. Len(t) /\ Len(s) \in Nat /\ Len(t) \in Nat
  BY <1>1
<1> HIDE DEF u
<1>3. \A i \in DOMAIN u : (i \in DOMAIN s /\ u[i] = s[i]) \/ (i > Len(s) /\ i - Len(s) \in DOMAIN t /\ u[i] = t[i - Len(s)])
  <2>1. ASSUME NEW i \in DOMAIN u, i > Len(s)
        PROVE  i - Len(s) \in DOMAIN t /\ u[i] = t[i - Len(s)]
    <3>1. i \in Nat /\ i <= Len(s) + Len(t)
      BY <1>1, <1>2
    <3>2. PICK k \in Nat : i = Len(s) + k /\ k >= 1 /\ k <= Len(t)
      <4>1. i - Len(s) \in Nat /\ i = Len(s) + (i - Len(s)) /\ i - Len(s) >= 1 /\ i - Len(s) <= Len(t)
        BY <1>2, <2>1, <3>1
      <4>2. QED
        BY <4>1
    <3>3. i - Len(s) = k /\ k \in 1 .. Len(t)
      BY <1>2, <3>2
    <3>4. QED
      BY <1>1, <1>2, <3>2, <3>3
  <2>2. QED
    BY <1>1, <1>2, <2>1
<1>4. Range(u) = Range(s) \cup Range(t)
  <2>1. Range(u) \subseteq Range(s) \cup Range(t)
    BY <1>3 DEF Range
  <2>2. Range(s) \subseteq Range(u)
    BY <1>1, <1>2 DEF Range
  <2>3. ASSUME NEW k \in DOMAIN t PROVE t[k] \in Range(u)
    <3>1. Len(s) + k \in DOMAIN u /\ u[Len(s) + k] = t[k]
      BY <1>1, <1>2
    <3>2. QED
      BY <3>1 DEF Range
  <2>4. QED
    BY <2>1, <2>2, <2>3 DEF Range
<1>5. ASSUME Ordered(s), Ordered(t), Before(s, t), NEW i \in DOMAIN u, NEW j \in DOMAIN u, i < j
      PROVE  MayPrecede(u[i], u[j])
  <2>1. i \in Nat /\ j \in Nat
    BY <1>1, <1>2
  <2>2. CASE i \in DOMAIN s /\ u[i] = s[i] /\ j \in DOMAIN s /\ u[j] = s[j]
    BY <1>5, <2>2 DEF Ordered
  <2>3. CASE i \in DOMAIN s /\ u[i] = s[i] /\ j > Len(s)
    BY <1>2, <1>3, <1>5, <2>1, <2>3 DEF Before, Range
  <2>4. CASE i > Len(s) /\ j > Len(s)
    <3>1. /\ i - Len(s) \in DOMAIN t /\ u[i] = t[i - Len(s)]
          /\ j - Len(s) \in DOMAIN t /\ u[j] = t[j - Len(s)]
      BY <1>2, <1>3, <2>1, <2>4
    <3>2. i - Len(s) < j - Len(s)
      BY <1>2, <1>5, <2>1
    <3>3. QED
      BY <1>5, <3>1, <3>2 DEF Ordered
  <2>5. QED
    BY <1>2, <1>3, <1>5, <2>1, <2>2, <2>3, <2>4
<1>6. QED
  BY <1>1, <1>4, <1>5 DEF u, Ordered

(* What is away is a sequence of outputs, and forwarding does not change it. *)
LEMMA AwayIs == ASSUME GstInv PROVE Away \in Seq(Outputs) /\ Given(gstForwarded) \in Seq(Outputs)
<1>1. gstForwarded \in Seq(Forwards) /\ gstOut \in Seq(Outputs)
  BY DEF GstInv
<1>2. ASSUME NEW i \in DOMAIN gstForwarded PROVE gstForwarded[i].output \in Outputs
  <2>1. gstForwarded[i] \in Forwards
    BY <1>1
  <2>2. QED
    BY <2>1 DEF Forwards
<1>3. Given(gstForwarded) \in Seq(Outputs)
  BY <1>1, <1>2 DEF Given
<1>4. QED
  BY <1>1, <1>3 DEF Away

LEMMA AwayStays ==
  ASSUME GstInv, gstOut # <<>>, NEW taken \in BOOLEAN, gstOut' = Tail(gstOut),
         gstForwarded' = Append(gstForwarded, [output |-> Head(gstOut), taken |-> taken])
  PROVE  /\ Away' = Away /\ gstOut' \in Seq(Outputs)
         /\ gstForwarded' \in Seq(Forwards)
<1> DEFINE e == [output |-> Head(gstOut), taken |-> taken]
           f == Given(gstForwarded)
<1>1. /\ gstForwarded \in Seq(Forwards) /\ gstOut \in Seq(Outputs)
      /\ f \in Seq(Outputs)
  BY AwayIs DEF GstInv
<1>2. Head(gstOut) \in Outputs /\ Tail(gstOut) \in Seq(Outputs)
  BY <1>1
<1>3. e.output = Head(gstOut) /\ e \in Forwards
  BY <1>2 DEF Forwards
<1> HIDE DEF e
<1>4. gstForwarded' = Append(gstForwarded, e)
  BY DEF e
<1>5. Given(gstForwarded)' = Append(f, Head(gstOut))
  <2>1. /\ DOMAIN gstForwarded' = 1 .. Len(gstForwarded) + 1 /\ DOMAIN gstForwarded = 1 .. Len(gstForwarded)
        /\ Len(gstForwarded) \in Nat /\ gstForwarded'[Len(gstForwarded) + 1] = e
        /\ \A i \in 1 .. Len(gstForwarded) : gstForwarded'[i] = gstForwarded[i]
    BY <1>1, <1>3, <1>4
  <2> DEFINE g == Given(gstForwarded')
             a == Append(f, Head(gstOut))
  <2>2. DOMAIN g = 1 .. Len(gstForwarded) + 1 /\ \A i \in 1 .. Len(gstForwarded) + 1 : g[i] = gstForwarded'[i].output
    BY <2>1 DEF Given
  <2>3. Len(f) = Len(gstForwarded) /\ \A i \in 1 .. Len(gstForwarded) : f[i] = gstForwarded[i].output
    BY <2>1 DEF Given
  <2> HIDE DEF f
  <2>4. /\ a \in Seq(Outputs) /\ Len(a) = Len(f) + 1 /\ a[Len(f) + 1] = Head(gstOut)
        /\ \A i \in 1 .. Len(f) : a[i] = f[i]
    BY <1>1, <1>2, AppendProperties
  <2>5. g \in Seq(Outputs) /\ Len(g) = Len(gstForwarded) + 1
    <3>1. g = [i \in 1 .. Len(gstForwarded) + 1 |-> gstForwarded'[i].output]
      BY <2>1 DEF Given
    <3>2. gstForwarded' \in Seq(Forwards)
      BY <1>1, <1>3, <1>4, AppendProperties
    <3>3. ASSUME NEW i \in 1 .. Len(gstForwarded) + 1 PROVE gstForwarded'[i].output \in Outputs
      <4>1. gstForwarded'[i] \in Forwards
        BY <2>1, <3>2
      <4>2. QED
        BY <4>1 DEF Forwards
    <3>4. QED
      BY <2>1, <3>1, <3>3
  <2> HIDE DEF g, a
  <2>6. \A i \in 1 .. Len(g) : g[i] = a[i]
    BY <1>3, <2>1, <2>2, <2>3, <2>4, <2>5
  <2>7. g = a
    BY <2>3, <2>4, <2>5, <2>6, SeqEqual
  <2>8. QED
    BY <2>7 DEF g, a
<1> HIDE DEF f
<1>6. Append(f, Head(gstOut)) \o Tail(gstOut) = f \o gstOut
  <2>1. Append(f, Head(gstOut)) = f \o <<Head(gstOut)>>
    BY <1>1, <1>2, AppendIsConcat
  <2>2. <<Head(gstOut)>> \in Seq(Outputs)
    BY <1>2
  <2>3. (f \o <<Head(gstOut)>>) \o Tail(gstOut) = f \o (<<Head(gstOut)>> \o Tail(gstOut))
    BY <1>1, <1>2, <2>2, ConcatAssociative
  <2>4. <<Head(gstOut)>> \o Tail(gstOut) = gstOut
    BY <1>1, <1>2
  <2>5. QED
    BY <2>1, <2>3, <2>4
<1>7. Away' = Given(gstForwarded)' \o gstOut' /\ Away = f \o gstOut
  BY DEF Away, f
<1>8. Away' = Append(f, Head(gstOut)) \o Tail(gstOut)
  BY <1>5, <1>7, Zenon
<1>9. Away' = Away
  BY <1>6, <1>7, <1>8, Zenon
<1>10. gstForwarded' \in Seq(Forwards)
  BY <1>1, <1>3, <1>4
<1>11. QED
  BY <1>2, <1>9, <1>10

(* What a guest hands over, and returns, in one call.                       *)
Pushed(p, call) ==
  /\ p \in Seq(Outputs) /\ Ordered(p) /\ Len(p) \in Nat
  /\ \A x \in Range(p) : x.call = call /\ x.way = "pushed" /\ x.number > gstPushed
  /\ {x.number : x \in Range(p)} = gstPushed + 1 .. gstPushed + Len(p)

LEMMA PushesAre ==
  ASSUME NEW call \in Int, gstPushed \in Nat, NEW p \in Pushes(call)
  PROVE  Pushed(p, call)
<1> DEFINE o == Output(call, "pushed", gstPushed + 1)
           q == Output(call, "pushed", gstPushed + 2)
<1>1. /\ o \in Outputs /\ o.call = call /\ o.way = "pushed" /\ o.number = gstPushed + 1
      /\ q \in Outputs /\ q.call = call /\ q.way = "pushed" /\ q.number = gstPushed + 2
  BY DEF Outputs, Output
<1>2. p \in {<<>>, <<o>>, <<o, q>>}
  BY DEF Pushes
<1> HIDE DEF o, q
<1>3. CASE p = <<>>
  <2>1. Range(p) = {} /\ Len(p) = 0 /\ p \in Seq(Outputs)
    BY <1>3 DEF Range
  <2>2. QED
    BY <1>3, <2>1 DEF Ordered, Pushed
<1>4. CASE p = <<o>>
  <2>1. Range(p) = {o} /\ Len(p) = 1 /\ p \in Seq(Outputs) /\ DOMAIN p = 1 .. 1
    BY <1>1, <1>4 DEF Range
  <2>2. QED
    BY <1>1, <2>1 DEF Ordered, Pushed
<1>5. CASE p = <<o, q>>
  <2>1. Range(p) = {o, q} /\ Len(p) = 2 /\ p \in Seq(Outputs) /\ DOMAIN p = 1 .. 2 /\ p[1] = o /\ p[2] = q
    BY <1>1, <1>5 DEF Range
  <2>2. MayPrecede(o, q)
    BY <1>1 DEF MayPrecede
  <2>3. Ordered(p)
    BY <2>1, <2>2 DEF Ordered
  <2>4. {x.number : x \in Range(p)} = {gstPushed + 1, gstPushed + 2}
    BY <1>1, <2>1
  <2>5. gstPushed + 1 .. gstPushed + 2 = {gstPushed + 1, gstPushed + 2}
    OBVIOUS
  <2>6. QED
    BY <1>1, <2>1, <2>3, <2>4, <2>5 DEF Pushed
<1>6. QED
  BY <1>2, <1>3, <1>4, <1>5

LEMMA ResultsAre ==
  ASSUME NEW call \in Int, NEW p \in Results(call)
  PROVE  /\ p \in Seq(Outputs) /\ Ordered(p)
         /\ \A x \in Range(p) : x.call = call /\ x.way = "returned"
<1> DEFINE o == Output(call, "returned", 1)
           q == Output(call, "returned", 2)
<1>1. /\ o \in Outputs /\ o.call = call /\ o.way = "returned" /\ o.number = 1
      /\ q \in Outputs /\ q.call = call /\ q.way = "returned" /\ q.number = 2
  BY DEF Outputs, Output
<1>2. p \in {<<>>, <<o>>, <<o, q>>}
  BY DEF Results
<1> HIDE DEF o, q
<1>3. CASE p = <<>>
  BY <1>3 DEF Range, Ordered
<1>4. CASE p = <<o>>
  <2>1. Range(p) = {o} /\ p \in Seq(Outputs) /\ DOMAIN p = 1 .. 1
    BY <1>1, <1>4 DEF Range
  <2>2. QED
    BY <1>1, <2>1 DEF Ordered
<1>5. CASE p = <<o, q>>
  <2>1. Range(p) = {o, q} /\ p \in Seq(Outputs) /\ DOMAIN p = 1 .. 2 /\ p[1] = o /\ p[2] = q
    BY <1>1, <1>5 DEF Range
  <2>2. MayPrecede(o, q)
    BY <1>1 DEF MayPrecede
  <2>3. QED
    BY <1>1, <2>1, <2>2 DEF Ordered
<1>6. QED
  BY <1>2, <1>3, <1>4, <1>5

(* All that there is, when a call adds to it.                               *)
LEMMA AllGrows ==
  ASSUME NEW A \in SUBSET Outputs, NEW n \in Nat, NEW k \in Nat, NEW answered, AllOf(A, n, answered),
         NEW R \in SUBSET Outputs, \A x \in R : x.way = "returned",
         NEW P \in SUBSET Outputs, \A x \in P : x.way = "pushed", {x.number : x \in P} = n + 1 .. n + k
  PROVE  AllOf(A \cup R \cup P, n + k, answered \cup R)
<1>1. {x \in A \cup R \cup P : x.way = "returned"} = answered \cup R
  BY DEF AllOf
<1>2. {y \in A \cup R \cup P : y.way = "pushed"} = {y \in A : y.way = "pushed"} \cup P
  OBVIOUS
<1>3. {x.number : x \in {y \in A : y.way = "pushed"} \cup P} = {x.number : x \in {y \in A : y.way = "pushed"}} \cup {x.number : x \in P}
  OBVIOUS
<1>4. (1 .. n) \cup (n + 1 .. n + k) = 1 .. n + k
  OBVIOUS
<1>5. {x.number : x \in {y \in A : y.way = "pushed"}} = 1 .. n
  BY DEF AllOf
<1>6. QED
  BY <1>1, <1>2, <1>3, <1>4, <1>5 DEF AllOf

(* What a new call makes may follow everything there is.                    *)
LEMMA NewFollow ==
  ASSUME GstInv, gstStage \in {"start", "loop"},
         NEW x \in Range(Away) \cup Range(gstPending), NEW y \in Outputs,
         y.way = "pushed" => y.number > gstPushed,
         y.way = "returned" => y.call >= ThisCall
  PROVE  MayPrecede(x, y)
<1>1. x \in Outputs
  BY AwayIs DEF GstInv, Range
<1>2. x.way = "pushed" => x.number \in 1 .. gstPushed
  BY DEF GstInv, AllOf
<1>3. x.call < ThisCall /\ x.call \in Int /\ y.call \in Int /\ ThisCall \in Int
  BY <1>1 DEF GstInv, Outputs, ThisCall
<1>4. x.number \in Nat /\ y.number \in Nat /\ gstPushed \in Nat /\ x.way \in {"pushed", "returned"} /\ y.way \in {"pushed", "returned"}
  BY <1>1 DEF Outputs, GstInv
<1>5. CASE y.way = "pushed"
  BY <1>2, <1>4, <1>5 DEF MayPrecede
<1>6. CASE y.way = "returned"
  BY <1>3, <1>4, <1>6 DEF MayPrecede
<1>7. QED
  BY <1>4, <1>5, <1>6

(* A call that leaves what it handed over to the next one.                  *)
LEMMA Leaves ==
  ASSUME GstInv, gstStage \in {"start", "loop"}, NEW call, NEW p, Pushed(p, call),
         gstPushed' = gstPushed + Len(p), gstPending' = gstPending \o p,
         gstOut' = gstOut, gstForwarded' = gstForwarded, gstAnswered' = gstAnswered
  PROVE  /\ Away' = Away /\ gstPending' \in Seq(Outputs) /\ gstPushed' \in Nat
         /\ Ordered(Away)' /\ Ordered(gstPending)' /\ Before(Away, gstPending)'
         /\ AllOf(Range(Away) \cup Range(gstPending), gstPushed, gstAnswered)'
         /\ Range(gstPending') = Range(gstPending) \cup Range(p)
         /\ \A x \in Range(gstPending') : x.way = "pushed"
         /\ \A x \in Range(p) : x.call = call
<1>1. /\ p \in Seq(Outputs) /\ Ordered(p) /\ Len(p) \in Nat
      /\ \A x \in Range(p) : x.call = call /\ x.way = "pushed" /\ x.number > gstPushed
      /\ {x.number : x \in Range(p)} = gstPushed + 1 .. gstPushed + Len(p)
  BY DEF Pushed
<1>2. /\ Away' = Away /\ Away \in Seq(Outputs) /\ gstPending \in Seq(Outputs) /\ gstPushed \in Nat
      /\ Ordered(Away) /\ Ordered(gstPending) /\ Before(Away, gstPending)
      /\ AllOf(Range(Away) \cup Range(gstPending), gstPushed, gstAnswered)
      /\ \A x \in Range(gstPending) : x.way = "pushed"
  BY AwayIs DEF Away, GstInv
<1>3. Range(p) \subseteq Outputs /\ Range(Away) \subseteq Outputs /\ Range(gstPending) \subseteq Outputs
  BY <1>1, <1>2 DEF Range
<1>4. \A x \in Range(Away) \cup Range(gstPending), y \in Range(p) : MayPrecede(x, y)
  <2>1. ThisCall \in Int
    BY DEF ThisCall, GstInv
  <2>2. QED
    BY <1>1, <1>3, <2>1, NewFollow
<1>5. Before(Away, p) /\ Before(gstPending, p)
  BY <1>4 DEF Before
<1>6. gstPending' \in Seq(Outputs) /\ Ordered(gstPending') /\ Range(gstPending') = Range(gstPending) \cup Range(p)
  BY <1>1, <1>2, <1>5, Concats
<1>7. Before(Away, gstPending')
  BY <1>2, <1>5, <1>6 DEF Before
<1>8. AllOf((Range(Away) \cup Range(gstPending)) \cup {} \cup Range(p), gstPushed + Len(p), gstAnswered \cup {})
  BY <1>1, <1>2, <1>3, AllGrows
<1>9. (Range(Away) \cup Range(gstPending)) \cup {} \cup Range(p) = Range(Away') \cup Range(gstPending') /\ gstAnswered \cup {} = gstAnswered
  BY <1>2, <1>6
<1>10. AllOf(Range(Away') \cup Range(gstPending'), gstPushed', gstAnswered')
  BY <1>8, <1>9
<1>11. QED
  BY <1>1, <1>2, <1>6, <1>7, <1>10

(* A call that succeeds: its result, what was left behind, and what it handed over go out
   in this order.                                                           *)
LEMMA GoesOut ==
  ASSUME GstInv, gstStage = "loop", gstOut = <<>>, NEW p \in Pushes(ThisCall), NEW q \in Results(ThisCall),
         gstPushed' = gstPushed + Len(p), gstPending' = <<>>, gstOut' = q \o gstPending \o p,
         gstAnswered' = gstAnswered \cup Range(q), gstForwarded' = gstForwarded
  PROVE  /\ gstOut' \in Seq(Outputs) /\ gstPending' \in Seq(Outputs) /\ gstPushed' \in Nat
         /\ Ordered(Away)' /\ Ordered(gstPending)' /\ Before(Away, gstPending)'
         /\ AllOf(Range(Away) \cup Range(gstPending), gstPushed, gstAnswered)'
         /\ Range(gstPending') = {}
         /\ Range(Away') = Range(Away) \cup Range(q) \cup Range(gstPending) \cup Range(p)
         /\ \A x \in Range(q) \cup Range(p) : x.call = ThisCall
<1> DEFINE f == Given(gstForwarded)
<1>1. ThisCall \in Int
  BY DEF ThisCall, GstInv
<1>2. /\ p \in Seq(Outputs) /\ Ordered(p) /\ Len(p) \in Nat
      /\ \A x \in Range(p) : x.call = ThisCall /\ x.way = "pushed" /\ x.number > gstPushed
      /\ {x.number : x \in Range(p)} = gstPushed + 1 .. gstPushed + Len(p)
  BY <1>1, PushesAre DEF GstInv, Pushed
<1>3. q \in Seq(Outputs) /\ Ordered(q) /\ \A x \in Range(q) : x.call = ThisCall /\ x.way = "returned"
  BY <1>1, ResultsAre
<1>4. /\ Away \in Seq(Outputs) /\ f \in Seq(Outputs) /\ gstPending \in Seq(Outputs) /\ gstPushed \in Nat
      /\ Ordered(Away) /\ Ordered(gstPending) /\ Before(Away, gstPending)
      /\ AllOf(Range(Away) \cup Range(gstPending), gstPushed, gstAnswered)
      /\ \A x \in Range(gstPending) : x.way = "pushed"
  BY AwayIs DEF GstInv
<1>5. Away = f
  BY <1>4 DEF Away
<1>6. /\ Range(p) \subseteq Outputs /\ Range(q) \subseteq Outputs /\ Range(Away) \subseteq Outputs
      /\ Range(gstPending) \subseteq Outputs
  BY <1>2, <1>3, <1>4 DEF Range
<1>7. ASSUME NEW x \in Range(Away) \cup Range(gstPending), NEW y \in Range(p) \cup Range(q) PROVE MayPrecede(x, y)
  <2>1. y \in Outputs /\ (y.way = "pushed" => y.number > gstPushed)
    BY <1>2, <1>3, <1>6
  <2>2. y.call >= ThisCall
    BY <1>1, <1>2, <1>3
  <2>3. QED
    BY <2>1, <2>2, NewFollow
<1>8. \A x \in Range(q), y \in Range(gstPending) \cup Range(p) : MayPrecede(x, y)
  BY <1>2, <1>3, <1>4 DEF MayPrecede
<1>9. /\ q \o gstPending \in Seq(Outputs) /\ Ordered(q \o gstPending)
      /\ Range(q \o gstPending) = Range(q) \cup Range(gstPending)
  BY <1>3, <1>4, <1>8, Concats DEF Before
<1> DEFINE s == q \o gstPending
<1>10. s \in Seq(Outputs) /\ Ordered(s) /\ Range(s) = Range(q) \cup Range(gstPending) /\ gstOut' = s \o p
  BY <1>9
<1> HIDE DEF s
<1>11. gstOut' \in Seq(Outputs) /\ Ordered(gstOut') /\ Range(gstOut') = Range(s) \cup Range(p)
  <2>1. Before(s, p)
    BY <1>7, <1>8, <1>10 DEF Before
  <2>2. QED
    BY <1>2, <1>10, <2>1, Concats
<1>12. Away' = f \o gstOut'
  BY DEF Away
<1> HIDE DEF f
<1>13. Ordered(Away') /\ Range(Away') = Range(f) \cup Range(gstOut') /\ Away' \in Seq(Outputs)
  <2>1. Before(f, gstOut')
    BY <1>4, <1>5, <1>7, <1>10, <1>11 DEF Before
  <2>2. QED
    BY <1>4, <1>5, <1>11, <1>12, <2>1, Concats
<1>14. Range(gstPending') = {} /\ gstPending' \in Seq(Outputs) /\ Ordered(gstPending') /\ Before(Away', gstPending')
  BY DEF Range, Ordered, Before
<1>15. AllOf((Range(Away) \cup Range(gstPending)) \cup Range(q) \cup Range(p), gstPushed + Len(p), gstAnswered \cup Range(q))
  BY <1>2, <1>3, <1>4, <1>6, AllGrows
<1>16. Range(Away') = Range(Away) \cup Range(q) \cup Range(gstPending) \cup Range(p)
  BY <1>5, <1>10, <1>11, <1>13
<1>17. Range(Away') \cup Range(gstPending') = (Range(Away) \cup Range(gstPending)) \cup Range(q) \cup Range(p)
  BY <1>14, <1>16
<1>18. AllOf(Range(Away') \cup Range(gstPending'), gstPushed', gstAnswered')
  BY <1>15, <1>17
<1>19. QED
  BY <1>2, <1>3, <1>4, <1>11, <1>13, <1>14, <1>16, <1>18

(* Every step of the node.                                                  *)
LEMMA GstStep == ASSUME GstInv, GuestNext PROVE GstInv'
<1>0. /\ gstInbox \in Nat /\ gstCount \in Nat /\ gstInbox <= gstCount /\ gstPushed \in Nat
      /\ gstForwarded \in Seq(Forwards) /\ gstOut \in Seq(Outputs)
      /\ gstPending \in Seq(Outputs)
  BY DEF GstInv
<1>1. CASE GuestArrives
  <2>1. /\ gstInbox' \in Nat /\ gstCount' \in Nat /\ gstInbox' <= gstCount' /\ ThisCall' = ThisCall
        /\ UNCHANGED <<gstStage, gstPushed, gstAnswered, gstPending, gstOut, gstForwarded, gstFailed>>
    BY <1>0, <1>1 DEF GuestArrives, ThisCall
  <2>2. Away' = Away /\ Ordered(Away)' /\ Ordered(gstPending)' /\ Before(Away, gstPending)'
    BY <2>1 DEF Away, Ordered, Before, GstInv
  <2>3. QED
    BY <2>1, <2>2 DEF GstInv
<1>2. CASE OnStart
  <2>1. PICK p \in Pushes(0) : gstPushed' = gstPushed + Len(p) /\ gstPending' = gstPending \o p
    BY <1>2 DEF OnStart
  <2>2. /\ gstStage = "start" /\ gstStage' = "loop" /\ gstStage \in {"start", "loop"} /\ 0 \in Int
        /\ UNCHANGED <<gstInbox, gstAnswered, gstOut, gstForwarded, gstFailed, gstCount>>
    BY <1>2 DEF OnStart
  <2>3. /\ Away' = Away /\ gstPending' \in Seq(Outputs) /\ gstPushed' \in Nat
        /\ Ordered(Away)' /\ Ordered(gstPending)' /\ Before(Away, gstPending)'
        /\ AllOf(Range(Away) \cup Range(gstPending), gstPushed, gstAnswered)'
        /\ Range(gstPending') = Range(gstPending) \cup Range(p)
        /\ \A x \in Range(gstPending') : x.way = "pushed"
        /\ \A x \in Range(p) : x.call = 0
    <3>1. Pushed(p, 0)
      BY <1>0, <2>2, PushesAre
    <3>2. QED
      BY <2>1, <2>2, <3>1, Leaves
  <2>4. gstPending = <<>> /\ gstOut = <<>> /\ Range(gstPending) = {}
    BY <2>2 DEF GstInv, Range
  <2>5. ThisCall' = ThisCall /\ ThisCall \in Int /\ 0 < ThisCall /\ \A x \in Range(Away) : x.call < ThisCall
    BY <1>0, <2>2 DEF ThisCall, GstInv
  <2>6. \A x \in Range(Away') \cup Range(gstPending') : x.call < ThisCall'
    BY <2>3, <2>4, <2>5
  <2>7. \A x \in Range(gstPending') : x.call = 0
    BY <2>3, <2>4
  <2>8. QED
    BY <1>0, <2>2, <2>3, <2>6, <2>7 DEF GstInv
<1>3. CASE ProcessMsg
  <2>1. PICK p \in Pushes(ThisCall), q \in Results(ThisCall), failed \in BOOLEAN :
          /\ gstPushed' = gstPushed + Len(p) /\ gstFailed' = failed
          /\ \/ failed /\ gstPending' = gstPending \o p /\ UNCHANGED <<gstOut, gstAnswered>>
             \/ /\ ~failed /\ gstPending' = <<>> /\ gstOut' = q \o gstPending \o p
                /\ gstAnswered' = gstAnswered \cup Range(q)
    BY <1>3 DEF ProcessMsg, DrainOutputs
  <2>2. /\ gstStage = "loop" /\ gstOut = <<>> /\ gstInbox > 0 /\ gstInbox' = gstInbox - 1
        /\ gstStage \in {"start", "loop"}
        /\ UNCHANGED <<gstStage, gstForwarded, gstCount>>
    BY <1>3 DEF ProcessMsg
  <2>3. /\ gstInbox' \in Nat /\ gstCount' \in Nat /\ gstInbox' <= gstCount' /\ ThisCall \in Int
        /\ ThisCall' = ThisCall + 1
    BY <1>0, <2>2 DEF ThisCall
  <2>4. \A x \in Range(Away) \cup Range(gstPending) : x \in Outputs /\ x.call < ThisCall /\ x.call \in Int
    <3>1. \A x \in Range(Away) \cup Range(gstPending) : x \in Outputs
      BY <1>0, AwayIs DEF Range
    <3>2. QED
      BY <2>2, <3>1 DEF GstInv, Outputs
  <2>5. CASE failed /\ gstPending' = gstPending \o p /\ UNCHANGED <<gstOut, gstAnswered>>
    <3>1. /\ Away' = Away /\ gstPending' \in Seq(Outputs) /\ gstPushed' \in Nat
          /\ Ordered(Away)' /\ Ordered(gstPending)' /\ Before(Away, gstPending)'
          /\ AllOf(Range(Away) \cup Range(gstPending), gstPushed, gstAnswered)'
          /\ Range(gstPending') = Range(gstPending) \cup Range(p)
          /\ \A x \in Range(gstPending') : x.way = "pushed"
          /\ \A x \in Range(p) : x.call = ThisCall
      <4>1. Pushed(p, ThisCall)
        BY <1>0, <2>3, PushesAre
      <4>2. QED
        BY <2>1, <2>2, <2>5, <4>1, Leaves
    <3>2. \A x \in Range(Away') \cup Range(gstPending') : x.call < ThisCall'
      BY <2>3, <2>4, <3>1
    <3>3. QED
      BY <1>0, <2>1, <2>2, <2>3, <2>5, <3>1, <3>2 DEF GstInv
  <2>6. CASE /\ ~failed /\ gstPending' = <<>> /\ gstOut' = q \o gstPending \o p
             /\ gstAnswered' = gstAnswered \cup Range(q)
    <3>1. /\ gstOut' \in Seq(Outputs) /\ gstPending' \in Seq(Outputs) /\ gstPushed' \in Nat
          /\ Ordered(Away)' /\ Ordered(gstPending)' /\ Before(Away, gstPending)'
          /\ AllOf(Range(Away) \cup Range(gstPending), gstPushed, gstAnswered)'
          /\ Range(gstPending') = {}
          /\ Range(Away') = Range(Away) \cup Range(q) \cup Range(gstPending) \cup Range(p)
          /\ \A x \in Range(q) \cup Range(p) : x.call = ThisCall
      BY <2>1, <2>2, <2>6, GoesOut
    <3>2. \A x \in Range(Away') \cup Range(gstPending') : x.call < ThisCall'
      BY <2>3, <2>4, <3>1
    <3>3. QED
      BY <1>0, <2>1, <2>2, <2>3, <2>6, <3>1, <3>2 DEF GstInv
  <2>7. QED
    BY <2>1, <2>5, <2>6
<1>4. CASE Forward
  <2>1. PICK taken \in BOOLEAN : gstForwarded' = Append(gstForwarded, [output |-> Head(gstOut), taken |-> taken])
    BY <1>4 DEF Forward
  <2>2. /\ gstOut # <<>> /\ gstOut' = Tail(gstOut)
        /\ UNCHANGED <<gstStage, gstInbox, gstPushed, gstAnswered, gstPending, gstFailed, gstCount>>
    BY <1>4 DEF Forward
  <2>3. /\ Away' = Away /\ gstOut' \in Seq(Outputs)
        /\ gstForwarded' \in Seq(Forwards)
    BY <2>1, <2>2, AwayStays
  <2>4. gstStage \notin {"start", "stopped", "gone"}
    BY <2>2 DEF GstInv
  <2>5. ThisCall' = ThisCall /\ Ordered(Away)' /\ Ordered(gstPending)' /\ Before(Away, gstPending)'
    BY <2>2, <2>3 DEF ThisCall, Ordered, Before, GstInv
  <2>6. QED
    BY <1>0, <2>2, <2>3, <2>4, <2>5 DEF GstInv
<1>5. CASE AllocOutside
  <2>1. /\ gstStage' = "gone" /\ gstOut = <<>>
        /\ UNCHANGED <<gstInbox, gstPushed, gstAnswered, gstPending, gstOut, gstForwarded, gstFailed, gstCount>>
    BY <1>5 DEF AllocOutside, GstInv
  <2>2. Away' = Away /\ Ordered(Away)' /\ Ordered(gstPending)' /\ Before(Away, gstPending)'
    BY <2>1 DEF Away, Ordered, Before, GstInv
  <2>3. QED
    BY <2>1, <2>2 DEF GstInv
<1>6. CASE OnStop
  <2>1. PICK p \in Pushes(gstCount + 1) : gstPushed' = gstPushed + Len(p) /\ gstPending' = gstPending \o p
    BY <1>6 DEF OnStop
  <2>2. /\ gstStage = "loop" /\ gstOut = <<>> /\ gstStage' = "stopped" /\ gstStage \in {"start", "loop"}
        /\ gstCount + 1 \in Int
        /\ UNCHANGED <<gstInbox, gstAnswered, gstOut, gstForwarded, gstFailed, gstCount>>
    BY <1>0, <1>6 DEF OnStop
  <2>3. /\ Away' = Away /\ gstPending' \in Seq(Outputs) /\ gstPushed' \in Nat
        /\ Ordered(Away)' /\ Ordered(gstPending)' /\ Before(Away, gstPending)'
        /\ AllOf(Range(Away) \cup Range(gstPending), gstPushed, gstAnswered)'
        /\ \A x \in Range(gstPending') : x.way = "pushed"
    <3>1. Pushed(p, gstCount + 1)
      BY <1>0, <2>2, PushesAre
    <3>2. QED
      BY <2>1, <2>2, <3>1, Leaves
  <2>4. QED
    BY <1>0, <2>2, <2>3 DEF GstInv
<1>7. QED
  BY <1>1, <1>2, <1>3, <1>4, <1>5, <1>6 DEF GuestNext

(* What the user gets of plugins is sound, for any number of handlers, names,
   versions, files and calls.  Marketplace: names and plugins are inverse to each other,
   every version has its binary, and a request acts on the plugin it named, though it
   resolves it under one lock and acts under another (api.rs, store.rs).  Manager: every
   type the palette offers has the module that announced it, whatever the files become
   after they were read, and only a function of another type keeps its factory from
   building it (plugin_manager.rs).  Node: whichever calls fail, everything a guest
   handed over, and everything that calls returned which did not fail, goes out once,
   each of the two in its order, or waits behind a call that failed (shim.rs).  *)
THEOREM PluginsAreSound == PlugSpec => []PluginsSound
<1>1. PlugInit => PlugInv
  <2> SUFFICES ASSUME PlugInit PROVE PlugInv
    OBVIOUS
  <2>1. TablesInv
    BY DEF PlugInit, TablesInv
  <2>2. MktInv
    BY <2>1, NoReqIsFine DEF PlugInit, MktInv
  <2>3. PmInv
    BY DEF PlugInit, PmInv
  <2>4. GstInv
    <3>1. /\ gstForwarded = <<>> /\ gstOut = <<>> /\ gstPending = <<>> /\ gstPushed = 0 /\ gstAnswered = {}
          /\ gstInbox = 0 /\ gstCount = 0 /\ gstStage = "start"
      BY DEF PlugInit
    <3>2. Given(gstForwarded) = <<>>
      BY <3>1 DEF Given
    <3>3. Away = <<>> /\ Range(Away) = {} /\ Range(gstPending) = {}
      BY <3>1, <3>2 DEF Away, Range
    <3>4. Ordered(Away) /\ Ordered(gstPending) /\ Before(Away, gstPending)
      BY <3>1, <3>3 DEF Ordered, Before
    <3>5. AllOf(Range(Away) \cup Range(gstPending), gstPushed, gstAnswered)
      BY <3>1, <3>3 DEF AllOf
    <3>6. /\ gstForwarded \in Seq(Forwards) /\ gstOut \in Seq(Outputs)
          /\ gstPending \in Seq(Outputs)
      BY <3>1
    <3>7. QED
      BY <3>1, <3>3, <3>4, <3>5, <3>6 DEF GstInv
  <2>5. QED
    BY <2>2, <2>3, <2>4 DEF PlugInv
<1>2. PlugInv /\ [PlugNext]_plugVars => PlugInv'
  <2> SUFFICES ASSUME PlugInv, [PlugNext]_plugVars PROVE PlugInv'
    OBVIOUS
  <2>1. MktNext \/ UNCHANGED mktVars
    BY DEF PlugNext, plugVars
  <2>2. ManagerNext \/ UNCHANGED pmVars
    BY DEF PlugNext, plugVars
  <2>3. GuestNext \/ UNCHANGED gstVars
    BY DEF PlugNext, plugVars
  <2>4. UNCHANGED mktVars => MktInv'
    BY DEF PlugInv, mktVars, MktInv, TablesInv
  <2>5. UNCHANGED pmVars => PmInv'
    BY DEF PlugInv, pmVars, PmInv, Complete
  <2>6. ASSUME UNCHANGED gstVars PROVE GstInv'
    <3>1. /\ UNCHANGED <<gstStage, gstInbox, gstPushed, gstAnswered, gstPending, gstOut, gstForwarded, gstFailed, gstCount>>
          /\ GstInv
      BY <2>6 DEF gstVars, PlugInv
    <3>2. Away' = Away /\ ThisCall' = ThisCall /\ Ordered(Away)' /\ Ordered(gstPending)' /\ Before(Away, gstPending)'
      BY <3>1 DEF Away, ThisCall, Ordered, Before, GstInv
    <3>3. QED
      BY <3>1, <3>2 DEF GstInv
  <2>7. QED
    BY <2>1, <2>2, <2>3, <2>4, <2>5, <2>6, MktStep, PmStep, GstStep DEF PlugInv
<1>3. PlugInv => PluginsSound
  <2> SUFFICES ASSUME PlugInv PROVE PluginsSound
    OBVIOUS
  <2>1. MarketConsistent
    <3>1. TablesInv
      BY DEF PlugInv, MktInv
    <3>2. DOMAIN mktPlugins = {mktIndex[n] : n \in DOMAIN mktIndex}
      <4>1. \A n \in DOMAIN mktIndex : mktIndex[n] \in DOMAIN mktPlugins
        BY <3>1 DEF TablesInv
      <4>2. \A id \in DOMAIN mktPlugins : \E n \in DOMAIN mktIndex : mktIndex[n] = id
        BY <3>1 DEF TablesInv
      <4>3. QED
        BY <4>1, <4>2
    <3>3. ASSUME NEW n \in DOMAIN mktPlugins \cup DOMAIN mktIndex, NEW v \in MktVersions
          PROVE  MktDownload(n, v) <=> v \in mktPlugins[MktIdOf(n)].versions
      <4>1. MktIdOf(n) \in DOMAIN mktPlugins /\ MktKnown(n)
        BY <3>1 DEF TablesInv, MktIdOf, MktKnown
      <4>2. MktIdOf(n) \in Ids
        BY <3>1, <4>1, IssuedGrow DEF TablesInv
      <4>3. QED
        BY <3>1, <4>1, <4>2 DEF TablesInv, MktDownload
    <3>4. ASSUME NEW h \in MktHandlers, mktReq[h].at = "write", mktReq[h].op # "publish", MktHas(mktReq[h])
          PROVE  mktReq[h].name \in {mktReq[h].id, mktPlugins[mktReq[h].id].name}
      BY <3>4 DEF PlugInv, MktInv, MktReqInv, MktHas
    <3>5. QED
      BY <3>1, <3>2, <3>3, <3>4 DEF MarketConsistent, TablesInv
  <2>2. OfferedBuilds
    BY DEF PlugInv, PmInv, OfferedBuilds, FactoryBuilds, Complete
  <2>3. OutputsConserved
    <3>1. GstInv /\ Away \in Seq(Outputs)
      BY AwayIs DEF PlugInv
    <3>2. OutputsInOrder = Away \o gstPending
      BY DEF OutputsInOrder, Away, Given
    <3>3. Ordered(OutputsInOrder) /\ Range(OutputsInOrder) = Range(Away) \cup Range(gstPending)
      BY <3>1, <3>2, Concats DEF GstInv
    <3>4. \A i \in DOMAIN gstPending : gstPending[i] \in Range(gstPending)
      BY DEF Range
    <3>5. gstStage = "loop" /\ (\E i \in DOMAIN gstPending : gstPending[i].call > 0) => gstFailed
      BY <3>1, <3>4 DEF GstInv
    <3>6. QED
      BY <3>1, <3>3, <3>5 DEF OutputsConserved, Ordered, AllOf, GstInv
  <2>4. QED
    BY <2>1, <2>2, <2>3 DEF PluginsSound
<1>4. QED
  BY <1>1, <1>2, <1>3, PTL DEF PlugSpec

-----------------------------------------------------------------------------
(* EditorComms: connections and their pollers.                              *)

ConnFields == {"used", "subs", "log", "taken", "seen", "writer", "reader", "owed"}
Topics == {"debug", "status/n", "dashboard/data", "notification/runtime", "notification/runtime-deploy",
           "welcome", "status/#", "auth", Live}
Msg == [topic : Topics, data : Nat]

(* What a connection owes its browser: nothing, an answer, or the revision it has
   read for the answer.                                                     *)
OwedInv(owed) ==
  \/ owed = <<>>
  \/ \E t \in {"welcome", "status/#", "notification/#", "notification/runtime-deploy", Live} : owed = <<t>>
  \/ \E t \in {"notification/#", "notification/runtime-deploy"}, n \in Nat : owed = <<t, n>>

ConnInv(conn) ==
  /\ DOMAIN conn = ConnFields /\ OwedInv(conn.owed)
  /\ conn.log \in Seq(Msg) /\ conn.seen \in Seq(Msg)
  /\ Len(conn.seen) = conn.taken /\ conn.taken <= Len(conn.log)
  /\ \A i \in 1 .. conn.taken : conn.seen[i] = conn.log[i]

RestInv ==
  /\ comRev \in Nat /\ comStore \in Nat /\ DOMAIN comSource = Sources
  /\ \A k \in Sources : DOMAIN comSource[k] = {"queue", "lagged", "at"} /\ comSource[k].queue \in Nat

(* A poller belongs to a connection of the table that still has its subscription.  *)
PollInv(p) ==
  /\ DOMAIN p = {"conn", "snap", "since"} /\ p.conn \in comTable /\ Live \in comConn[p.conn].subs
  /\ p.since \in Nat /\ p.since <= Len(comConn[p.conn].log)
  /\ p.snap = Reported(comConn[p.conn], p.since)

CommsInv ==
  /\ RestInv
  /\ DOMAIN comConn = ComConns /\ \A c \in ComConns : ConnInv(comConn[c])
  /\ comTable \subseteq ComConns
  /\ \A c \in comTable : comConn[c].used /\ (comConn[c].owed = <<Live>> => Live \in comConn[c].subs)
  /\ \A p \in comPolling : PollInv(p)
  /\ \A p, q \in comPolling : p.conn = q.conn => p = q

(* The debug node: every message is at one place.                           *)
Listed(s, m) == \E i \in DOMAIN s : s[i] = m
Single(s) == \A i, j \in DOMAIN s : s[i] = s[j] => i = j

DbgInv ==
  /\ dbgSent \in Nat /\ DOMAIN dbgNode = {"at", "msg", "active", "count", "status"}
  /\ dbgQueue \in Seq(1 .. dbgSent) /\ dbgShown \in Seq(1 .. dbgSent) /\ Single(dbgQueue) /\ Single(dbgShown)
  /\ dbgPeeked \in 0 .. dbgSent /\ dbgNode.msg \in 0 .. dbgSent
  /\ \A m \in 1 .. dbgSent :
       /\ Listed(dbgShown, m) => ~Listed(dbgQueue, m) /\ dbgPeeked # m /\ dbgNode.msg # m
       /\ Listed(dbgQueue, m) => dbgPeeked # m /\ dbgNode.msg # m
       /\ dbgPeeked = m => dbgNode.msg # m
       /\ Listed(dbgShown, m) \/ Listed(dbgQueue, m) \/ dbgPeeked = m \/ dbgNode.msg = m
  /\ dbgTask \in {"lock", "recv"} => dbgPeeked = 0
  /\ dbgNode.at \notin {"got", "show"} <=> dbgNode.msg = 0

EdInv == CommsInv /\ DbgInv

(* A message taken from the head of a list without repetitions is no longer in it,
   and the others are.                                                      *)
LEMMA HeadLeaves ==
  ASSUME NEW S, NEW s \in Seq(S), s # <<>>, Single(s)
  PROVE  /\ Head(s) \in S /\ Tail(s) \in Seq(S) /\ Single(Tail(s)) /\ Listed(s, Head(s))
         /\ \A m : Listed(Tail(s), m) <=> Listed(s, m) /\ m # Head(s)
<1>1. /\ Head(s) \in S /\ Tail(s) \in Seq(S) /\ Len(s) \in Nat \ {0} /\ DOMAIN s = 1 .. Len(s) /\ Head(s) = s[1]
      /\ DOMAIN Tail(s) = 1 .. Len(s) - 1 /\ \A i \in 1 .. Len(s) - 1 : Tail(s)[i] = s[i + 1]
  BY HeadTailProperties, LenProperties, EmptySeq
<1>2. Single(Tail(s))
  <2>1. ASSUME NEW i \in DOMAIN Tail(s), NEW j \in DOMAIN Tail(s), Tail(s)[i] = Tail(s)[j] PROVE i = j
    <3>1. s[i + 1] = s[j + 1] /\ i + 1 \in DOMAIN s /\ j + 1 \in DOMAIN s
      BY <1>1, <2>1
    <3>2. i + 1 = j + 1
      BY <3>1 DEF Single
    <3>3. QED
      BY <1>1, <3>2
  <2>2. QED
    BY <2>1 DEF Single
<1>3. ASSUME NEW m, Listed(Tail(s), m) PROVE Listed(s, m) /\ m # Head(s)
  <2>1. PICK i \in 1 .. Len(s) - 1 : s[i + 1] = m
    BY <1>1, <1>3 DEF Listed
  <2>2. i + 1 \in DOMAIN s /\ 1 \in DOMAIN s /\ i + 1 # 1
    BY <1>1
  <2>3. QED
    BY <1>1, <2>1, <2>2 DEF Listed, Single
<1>4. ASSUME NEW m, Listed(s, m), m # Head(s) PROVE Listed(Tail(s), m)
  <2>1. PICK i \in 1 .. Len(s) : s[i] = m
    BY <1>1, <1>4 DEF Listed
  <2>2. i # 1 /\ i - 1 \in 1 .. Len(s) - 1 /\ (i - 1) + 1 = i
    BY <1>1, <1>4, <2>1
  <2>3. Tail(s)[i - 1] = m
    BY <1>1, <2>1, <2>2
  <2>4. QED
    BY <1>1, <2>2, <2>3 DEF Listed
<1>5. Listed(s, Head(s))
  BY <1>1 DEF Listed
<1>6. QED
  BY <1>1, <1>2, <1>3, <1>4, <1>5

(* A message that is put at the end of a list that did not have it.         *)
LEMMA AppendLists ==
  ASSUME NEW S, NEW s \in Seq(S), Single(s), NEW e \in S, ~Listed(s, e)
  PROVE  /\ Append(s, e) \in Seq(S) /\ Single(Append(s, e))
         /\ \A m : Listed(Append(s, e), m) <=> Listed(s, m) \/ m = e
<1> DEFINE a == Append(s, e)
<1>1. /\ a \in Seq(S) /\ Len(s) \in Nat /\ DOMAIN s = 1 .. Len(s) /\ DOMAIN a = 1 .. Len(s) + 1
      /\ a[Len(s) + 1] = e /\ \A i \in 1 .. Len(s) : a[i] = s[i]
  BY AppendProperties, LenProperties
<1> HIDE DEF a
<1>2. \A i \in 1 .. Len(s) : a[i] # e
  BY <1>1 DEF Listed
<1>3. Single(a)
  <2>1. ASSUME NEW i \in DOMAIN a, NEW j \in DOMAIN a, a[i] = a[j] PROVE i = j
    <3>1. i \in 1 .. Len(s) \/ i = Len(s) + 1
      BY <1>1
    <3>2. j \in 1 .. Len(s) \/ j = Len(s) + 1
      BY <1>1
    <3>3. CASE i \in 1 .. Len(s) /\ j \in 1 .. Len(s)
      BY <1>1, <2>1, <3>3 DEF Single
    <3>4. QED
      BY <1>1, <1>2, <2>1, <3>1, <3>2, <3>3
  <2>2. QED
    BY <2>1 DEF Single
<1>4. \A m : Listed(a, m) <=> Listed(s, m) \/ m = e
  <2>1. 1 .. Len(s) + 1 = (1 .. Len(s)) \cup {Len(s) + 1}
    BY <1>1
  <2>2. QED
    BY <1>1, <2>1 DEF Listed
<1>5. QED
  BY <1>1, <1>3, <1>4 DEF a

(* Steps of the debug node's task and of its status task: a message moves from one
   place to another.                                                        *)
LEMMA DbgKeeps == ASSUME DbgInv, DebugNext PROVE DbgInv'
<1> DEFINE Field == {"at", "msg", "active", "count", "status"}
<1>1. CASE DbgSend
  <2>1. /\ dbgSent' = dbgSent + 1 /\ dbgQueue' = Append(dbgQueue, dbgSent + 1) /\ dbgSent \in Nat
        /\ UNCHANGED <<dbgPeeked, dbgNode, dbgTask, dbgShown>>
    BY <1>1 DEF DbgSend, DbgInv
  <2>2. 1 .. dbgSent \subseteq 1 .. dbgSent' /\ dbgSent' \in Nat /\ dbgSent + 1 \in 1 .. dbgSent'
    BY <2>1
  <2>3. dbgQueue \in Seq(1 .. dbgSent') /\ dbgShown \in Seq(1 .. dbgSent')
    BY <2>2, SeqMonotonic DEF DbgInv
  <2>4. \A i \in DOMAIN dbgQueue : dbgQueue[i] \in 1 .. dbgSent
    BY DEF DbgInv
  <2>5. \A i \in DOMAIN dbgShown : dbgShown[i] \in 1 .. dbgSent
    BY DEF DbgInv
  <2>6. ~Listed(dbgQueue, dbgSent + 1) /\ ~Listed(dbgShown, dbgSent + 1)
    BY <2>1, <2>4, <2>5 DEF Listed
  <2>7. /\ dbgQueue' \in Seq(1 .. dbgSent') /\ Single(dbgQueue')
        /\ \A m : Listed(dbgQueue', m) <=> Listed(dbgQueue, m) \/ m = dbgSent + 1
    <3>1. Single(dbgQueue)
      BY DEF DbgInv
    <3>2. QED
      BY <2>1, <2>2, <2>3, <2>6, <3>1, AppendLists
  <2>8. dbgPeeked \in 0 .. dbgSent' /\ dbgNode.msg \in 0 .. dbgSent' /\ dbgPeeked # dbgSent + 1 /\ dbgNode.msg # dbgSent + 1
    BY <2>1 DEF DbgInv
  <2>9. \A m \in 1 .. dbgSent' : m \in 1 .. dbgSent \/ m = dbgSent + 1
    BY <2>1
  <2>10. ASSUME NEW m \in 1 .. dbgSent'
         PROVE  /\ Listed(dbgShown, m) => ~Listed(dbgQueue', m) /\ dbgPeeked # m /\ dbgNode.msg # m
                /\ Listed(dbgQueue', m) => dbgPeeked # m /\ dbgNode.msg # m
                /\ dbgPeeked = m => dbgNode.msg # m
                /\ Listed(dbgShown, m) \/ Listed(dbgQueue', m) \/ dbgPeeked = m \/ dbgNode.msg = m
    <3>1. CASE m \in 1 .. dbgSent /\ m # dbgSent + 1
      BY <2>7, <3>1 DEF DbgInv
    <3>2. CASE m = dbgSent + 1
      BY <2>6, <2>7, <2>8, <3>2
    <3>3. QED
      BY <2>1, <2>9, <3>1, <3>2
  <2>11. QED
    BY <2>1, <2>2, <2>3, <2>7, <2>8, <2>10 DEF DbgInv, Single, Listed
<1>2. ASSUME NEW at, dbgNode' = [dbgNode EXCEPT !.at = at], at \notin {"got", "show"}, dbgNode.at \notin {"got", "show"},
             UNCHANGED <<dbgQueue, dbgPeeked, dbgTask, dbgSent, dbgShown>>
      PROVE  DbgInv'
  <2>1. DOMAIN dbgNode' = Field /\ dbgNode'.at = at /\ dbgNode'.msg = dbgNode.msg
    BY <1>2 DEF DbgInv
  <2>2. QED
    BY <1>2, <2>1 DEF DbgInv, Single, Listed
<1>3. CASE DbgCheck
  <2>1. CASE dbgPeeked # 0 /\ dbgNode' = [dbgNode EXCEPT !.at = "got", !.msg = dbgPeeked] /\ dbgPeeked' = 0
    <3>1. /\ DOMAIN dbgNode' = Field /\ dbgNode'.at = "got" /\ dbgNode'.msg = dbgPeeked /\ dbgNode.msg = 0
          /\ UNCHANGED <<dbgQueue, dbgTask, dbgSent, dbgShown>>
      BY <1>3, <2>1 DEF DbgCheck, DbgInv
    <3>2. QED
      BY <2>1, <3>1 DEF DbgInv, Single, Listed
  <2>2. QED
    BY <1>2, <1>3, <2>1 DEF DbgCheck
<1>4. CASE DbgLock
  BY <1>2, <1>4 DEF DbgLock
<1>5. CASE DbgRecv
  <2>1. /\ dbgQueue # <<>> /\ dbgNode' = [dbgNode EXCEPT !.at = "got", !.msg = Head(dbgQueue)] /\ dbgQueue' = Tail(dbgQueue)
        /\ UNCHANGED <<dbgPeeked, dbgTask, dbgSent, dbgShown>> /\ dbgNode.msg = 0
    BY <1>5 DEF DbgRecv, DbgInv
  <2>2. DOMAIN dbgNode' = Field /\ dbgNode'.at = "got" /\ dbgNode'.msg = Head(dbgQueue)
    BY <2>1 DEF DbgInv
  <2>3. /\ Head(dbgQueue) \in 1 .. dbgSent /\ dbgQueue' \in Seq(1 .. dbgSent) /\ Single(dbgQueue')
        /\ Listed(dbgQueue, Head(dbgQueue))
        /\ \A m : Listed(dbgQueue', m) <=> Listed(dbgQueue, m) /\ m # Head(dbgQueue)
    BY <2>1, HeadLeaves DEF DbgInv
  <2>4. ASSUME NEW m \in 1 .. dbgSent
       PROVE  /\ Listed(dbgShown, m) => ~Listed(dbgQueue', m) /\ dbgPeeked # m /\ dbgNode'.msg # m
              /\ Listed(dbgQueue', m) => dbgPeeked # m /\ dbgNode'.msg # m
              /\ dbgPeeked = m => dbgNode'.msg # m
              /\ Listed(dbgShown, m) \/ Listed(dbgQueue', m) \/ dbgPeeked = m \/ dbgNode'.msg = m
    BY <2>1, <2>2, <2>3 DEF DbgInv
  <2>5. QED
    BY <2>1, <2>2, <2>3, <2>4 DEF DbgInv, Single, Listed
<1>6. ASSUME NEW quick \in BOOLEAN, DbgCount(quick) PROVE DbgInv'
  <2>1. /\ UNCHANGED <<dbgQueue, dbgPeeked, dbgSent, dbgShown>> /\ dbgNode.at = "got"
        /\ dbgTask' \in {"lock", "recv"} => dbgTask \in {"lock", "recv"}
    BY <1>6 DEF DbgCount
  <2>2. DOMAIN dbgNode' = Field /\ dbgNode'.at = "show" /\ dbgNode'.msg = dbgNode.msg
    BY <1>6 DEF DbgCount, DbgInv
  <2>3. QED
    BY <2>1, <2>2 DEF DbgInv, Single, Listed
<1>7. CASE DbgShow
  <2>1. /\ dbgShown' = Append(dbgShown, dbgNode.msg) /\ dbgNode.msg # 0
        /\ UNCHANGED <<dbgQueue, dbgPeeked, dbgTask, dbgSent>>
    BY <1>7 DEF DbgShow, DbgInv
  <2>2. DOMAIN dbgNode' = Field /\ dbgNode'.at = "check" /\ dbgNode'.msg = 0
    BY <1>7 DEF DbgShow, DbgInv
  <2>3. dbgNode.msg \in 1 .. dbgSent /\ ~Listed(dbgShown, dbgNode.msg)
    BY <2>1 DEF DbgInv
  <2>4. /\ dbgShown' \in Seq(1 .. dbgSent) /\ Single(dbgShown')
        /\ \A m : Listed(dbgShown', m) <=> Listed(dbgShown, m) \/ m = dbgNode.msg
    BY <2>1, <2>3, AppendLists DEF DbgInv
  <2>5. ASSUME NEW m \in 1 .. dbgSent
       PROVE  /\ Listed(dbgShown', m) => ~Listed(dbgQueue, m) /\ dbgPeeked # m /\ dbgNode'.msg # m
              /\ Listed(dbgQueue, m) => dbgPeeked # m /\ dbgNode'.msg # m
              /\ dbgPeeked = m => dbgNode'.msg # m
              /\ Listed(dbgShown', m) \/ Listed(dbgQueue, m) \/ dbgPeeked = m \/ dbgNode'.msg = m
    BY <2>1, <2>2, <2>3, <2>4 DEF DbgInv
  <2>6. /\ dbgShown' \in Seq(1 .. dbgSent) /\ Single(dbgShown') /\ Single(dbgQueue)
        /\ dbgSent \in Nat /\ dbgQueue \in Seq(1 .. dbgSent) /\ dbgPeeked \in 0 .. dbgSent
        /\ dbgTask \in {"lock", "recv"} => dbgPeeked = 0
        /\ UNCHANGED <<dbgQueue, dbgPeeked, dbgTask, dbgSent>>
    BY <2>1, <2>4 DEF DbgInv
  <2>7. QED
    BY <2>2, <2>5, <2>6 DEF DbgInv, Single, Listed
<1>8. CASE DbgTaskStep
  <2>1. UNCHANGED <<dbgSent, dbgShown>>
    BY <1>8 DEF DbgTaskStep
  <2>2. CASE dbgTask = "sleep" /\ dbgTask' = (IF dbgPeeked # 0 THEN "report" ELSE "lock") /\ UNCHANGED <<dbgQueue, dbgPeeked, dbgNode>>
    BY <2>1, <2>2 DEF DbgInv, Single, Listed
  <2>3. CASE dbgTask = "lock" /\ dbgTask' = "recv" /\ UNCHANGED <<dbgQueue, dbgPeeked, dbgNode>>
    BY <2>1, <2>3 DEF DbgInv, Single, Listed
  <2>4. CASE /\ dbgTask = "recv" /\ dbgQueue # <<>> /\ dbgPeeked' = Head(dbgQueue) /\ dbgQueue' = Tail(dbgQueue)
             /\ dbgTask' = "report" /\ dbgNode' = dbgNode
    <3>1. /\ Head(dbgQueue) \in 1 .. dbgSent /\ dbgQueue' \in Seq(1 .. dbgSent) /\ Single(dbgQueue')
          /\ Listed(dbgQueue, Head(dbgQueue)) /\ dbgPeeked = 0
          /\ \A m : Listed(dbgQueue', m) <=> Listed(dbgQueue, m) /\ m # Head(dbgQueue)
      BY <2>4, HeadLeaves DEF DbgInv
    <3>2. ASSUME NEW m \in 1 .. dbgSent
         PROVE  /\ Listed(dbgShown, m) => ~Listed(dbgQueue', m) /\ dbgPeeked' # m /\ dbgNode.msg # m
                /\ Listed(dbgQueue', m) => dbgPeeked' # m /\ dbgNode.msg # m
                /\ dbgPeeked' = m => dbgNode.msg # m
                /\ Listed(dbgShown, m) \/ Listed(dbgQueue', m) \/ dbgPeeked' = m \/ dbgNode.msg = m
      BY <2>1, <2>4, <3>1 DEF DbgInv
    <3>3. QED
      BY <2>1, <2>4, <3>1, <3>2 DEF DbgInv, Single, Listed
  <2>5. CASE /\ dbgTask' = "none" /\ dbgNode' = [dbgNode EXCEPT !.status = dbgNode.count]
             /\ UNCHANGED <<dbgQueue, dbgPeeked>>
    <3>1. DOMAIN dbgNode' = Field /\ dbgNode'.at = dbgNode.at /\ dbgNode'.msg = dbgNode.msg
      BY <2>5 DEF DbgInv
    <3>2. QED
      BY <2>1, <2>5, <3>1 DEF DbgInv, Single, Listed
  <2>6. QED
    BY <1>8, <2>2, <2>3, <2>4, <2>5 DEF DbgTaskStep
<1>9. ASSUME NEW on \in BOOLEAN, DbgSwitch(on) PROVE DbgInv'
  <2>1. /\ UNCHANGED <<dbgQueue, dbgPeeked, dbgTask, dbgSent, dbgShown>>
        /\ DOMAIN dbgNode' = Field /\ dbgNode'.at = dbgNode.at /\ dbgNode'.msg = dbgNode.msg
    BY <1>9 DEF DbgSwitch, DbgInv
  <2>2. QED
    BY <2>1 DEF DbgInv, Single, Listed
<1>10. CASE DbgStop
  BY <1>2, <1>10 DEF DbgStop
<1>11. QED
  BY <1>1, <1>3, <1>4, <1>5, <1>6, <1>7, <1>8, <1>9, <1>10 DEF DebugNext, DbgStep

-----------------------------------------------------------------------------
(* Connections: what is sent into one, and what its poller has reported.    *)

(* The log is as before, or has one more message that is not a poller's.    *)
Told(old, new) == new.log = old.log \/ \E m \in Msg : m.topic # Live /\ new.log = Append(old.log, m)

(* What a step that starts or stops no poller may do to a connection.       *)
Kept(c, new) ==
  /\ ConnInv(new) /\ Told(comConn[c], new) /\ new.used = comConn[c].used /\ comConn[c].subs \subseteq new.subs
  /\ c \in comTable => (new.owed = <<Live>> => comConn[c].owed = <<Live>> \/ Live \in new.subs)

(* A message sent into a connection leaves the rest of it alone.            *)
LEMMA PutKeeps ==
  ASSUME NEW conn, ConnInv(conn), NEW m \in Msg
  PROVE  /\ ConnInv(Put(conn, m)) /\ Put(conn, m).log = Append(conn.log, m)
         /\ Put(conn, m).used = conn.used /\ Put(conn, m).subs = conn.subs /\ Put(conn, m).owed = conn.owed
<1> DEFINE n == Put(conn, m)
<1>1. /\ DOMAIN n = ConnFields /\ n.log = Append(conn.log, m) /\ n.used = conn.used /\ n.subs = conn.subs
      /\ n.owed = conn.owed /\ n.taken = conn.taken /\ n.seen = conn.seen
  BY DEF Put, ConnInv, ConnFields
<1> HIDE DEF n
<1>2. /\ n.log \in Seq(Msg) /\ Len(n.log) = Len(conn.log) + 1 /\ Len(conn.log) \in Nat
      /\ \A i \in 1 .. Len(conn.log) : n.log[i] = conn.log[i]
  BY <1>1, AppendProperties, LenProperties DEF ConnInv
<1>3. conn.taken \in Nat /\ conn.taken <= Len(conn.log)
  BY LenProperties DEF ConnInv
<1>4. \A i \in 1 .. n.taken : n.seen[i] = n.log[i]
  BY <1>1, <1>2, <1>3 DEF ConnInv
<1>5. ConnInv(n)
  BY <1>1, <1>2, <1>3, <1>4 DEF ConnInv
<1>6. QED
  BY <1>1, <1>5 DEF n

(* A non-empty set of numbers with a bound has a greatest element.          *)
LEMMA GreatestExists ==
  ASSUME NEW S, S \subseteq Nat, S # {}, NEW n \in Nat, \A i \in S : i <= n
  PROVE  \E i \in S : \A j \in S : j <= i
<1> DEFINE R == OpToRel(<, Nat)
           T == {n - i : i \in S}
<1>1. T \subseteq Nat /\ T # {}
  <2>1. \A i \in S : n - i \in Nat
    OBVIOUS
  <2>2. PICK e : e \in S
    OBVIOUS
  <2>3. n - e \in T
    BY <2>2
  <2>4. QED
    BY <2>1, <2>3
<1>2. PICK x \in T : \A y \in T : <<y, x>> \notin R
  <2>1. IsWellFoundedOn(R, Nat)
    BY NatLessThanWellFounded
  <2> HIDE DEF R, T
  <2>2. QED
    BY <1>1, <2>1, WFMin
<1>3. PICK i \in S : x = n - i
  OBVIOUS
<1>4. ASSUME NEW j \in S PROVE j <= i
  <2>1. n - j \in T /\ n - j \in Nat /\ x \in Nat
    BY <1>1
  <2>2. ~(n - j < x)
    BY <1>2, <2>1 DEF OpToRel
  <2>3. QED
    BY <1>3, <2>1, <2>2
<1>5. QED
  BY <1>4

(* A message that is not the poller's changes nothing of what was reported. *)
LEMMA ToldSame ==
  ASSUME NEW old, NEW new, ConnInv(old), Told(old, new), NEW since \in Nat, since <= Len(old.log)
  PROVE  since <= Len(new.log) /\ Reported(new, since) = Reported(old, since)
<1>1. CASE new.log = old.log
  BY <1>1 DEF Reported
<1>2. ASSUME NEW m \in Msg, m.topic # Live, new.log = Append(old.log, m)
      PROVE  since <= Len(new.log) /\ Reported(new, since) = Reported(old, since)
  <2> DEFINE was == {i \in since + 1 .. Len(old.log) : old.log[i].topic = Live}
             is == {i \in since + 1 .. Len(new.log) : new.log[i].topic = Live}
  <2>1. /\ Len(old.log) \in Nat /\ Len(new.log) = Len(old.log) + 1 /\ new.log[Len(old.log) + 1] = m
        /\ \A i \in 1 .. Len(old.log) : new.log[i] = old.log[i]
    BY <1>2, AppendProperties, LenProperties DEF ConnInv
  <2>2. is = was
    <3>1. ASSUME NEW i \in is PROVE i \in was
      <4>1. i # Len(old.log) + 1
        BY <1>2, <2>1
      <4>2. QED
        BY <2>1, <4>1
    <3>2. ASSUME NEW i \in was PROVE i \in is
      BY <2>1
    <3>3. QED
      BY <3>1, <3>2
  <2>3. \A i \in was : new.log[i] = old.log[i]
    BY <2>1
  <2>4. CASE was = {}
    BY <2>1, <2>2, <2>4 DEF Reported
  <2>5. CASE was # {}
    <3> DEFINE top == CHOOSE i \in was : \A j \in was : j <= i
    <3>1. \E i \in was : \A j \in was : j <= i
      <4>1. was \subseteq Nat /\ \A i \in was : i <= Len(old.log)
        BY <2>1
      <4>2. QED
        BY <2>1, <2>5, <4>1, GreatestExists
    <3>2. top \in was
      BY <3>1
    <3>3. Reported(old, since) = old.log[top].data /\ Reported(new, since) = new.log[top].data
      BY <2>2, <2>5 DEF Reported
    <3> HIDE DEF top, was, is
    <3>4. QED
      BY <2>1, <2>3, <3>2, <3>3
  <2>6. QED
    BY <2>4, <2>5
<1>3. QED
  BY <1>1, <1>2 DEF Told

(* What the poller sends is what it has reported.                           *)
LEMMA ToldLive ==
  ASSUME NEW old, NEW new, ConnInv(old), NEW m \in Msg, m.topic = Live, new.log = Append(old.log, m),
         NEW since \in Nat, since <= Len(old.log)
  PROVE  since <= Len(new.log) /\ Reported(new, since) = m.data
<1> DEFINE told == {i \in since + 1 .. Len(new.log) : new.log[i].topic = Live}
           top == CHOOSE i \in told : \A j \in told : j <= i
           n == Len(old.log) + 1
<1>1. Len(old.log) \in Nat /\ Len(new.log) = n /\ new.log[n] = m
  BY AppendProperties, LenProperties DEF ConnInv
<1>2. n \in told /\ \A j \in told : j \in Int /\ j <= n
  BY <1>1
<1>3. top \in told /\ \A j \in told : j <= top
  BY <1>2
<1>4. Reported(new, since) = new.log[top].data
  BY <1>2 DEF Reported
<1> HIDE DEF told, top
<1>5. top = n
  BY <1>1, <1>2, <1>3
<1>6. QED
  BY <1>1, <1>4, <1>5

(* Steps that start no poller and in which no poller reports: the connections that
   still have one are told nothing by it.                                   *)
LEMMA QuietStep ==
  ASSUME CommsInv, RestInv', DOMAIN comConn' = ComConns, comTable' \subseteq ComConns, comPolling' \subseteq comPolling,
         \A c \in ComConns : ConnInv(comConn'[c]) /\ Told(comConn[c], comConn'[c]),
         \A c \in comTable' : comConn'[c].used /\ (comConn'[c].owed = <<Live>> => Live \in comConn'[c].subs),
         \A p \in comPolling' : p.conn \in comTable' /\ Live \in comConn'[p.conn].subs
  PROVE  CommsInv'
<1>1. ASSUME NEW p \in comPolling' PROVE PollInv(p)'
  <2>1. /\ PollInv(p) /\ p.conn \in comTable' /\ Live \in comConn'[p.conn].subs
        /\ p.conn \in ComConns /\ ConnInv(comConn[p.conn])
    BY DEF CommsInv, PollInv
  <2>2. p.since <= Len(comConn'[p.conn].log) /\ Reported(comConn'[p.conn], p.since) = Reported(comConn[p.conn], p.since)
    <3>1. Told(comConn[p.conn], comConn'[p.conn]) /\ p.since \in Nat /\ p.since <= Len(comConn[p.conn].log)
      BY <2>1 DEF PollInv
    <3>2. QED
      BY <2>1, <3>1, ToldSame
  <2>3. QED
    BY <2>1, <2>2 DEF PollInv
<1>2. \A p, q \in comPolling' : p.conn = q.conn => p = q
  BY DEF CommsInv
<1>3. (\A c \in ComConns : ConnInv(comConn[c]))'
  OBVIOUS
<1>4. QED
  BY <1>1, <1>2, <1>3 DEF CommsInv

(* The same where nobody comes or goes and each connection is kept.         *)
LEMMA SteadyStep ==
  ASSUME CommsInv, RestInv', DOMAIN comConn' = ComConns, comTable' = comTable, comPolling' = comPolling,
         \A c \in ComConns : Kept(c, comConn'[c])
  PROVE  CommsInv'
<1>1. \A c \in ComConns : ConnInv(comConn'[c]) /\ Told(comConn[c], comConn'[c])
  BY DEF Kept
<1>2. \A c \in comTable' : comConn'[c].used /\ (comConn'[c].owed = <<Live>> => Live \in comConn'[c].subs)
  BY DEF Kept, CommsInv
<1>3. \A p \in comPolling' : p.conn \in comTable' /\ Live \in comConn'[p.conn].subs
  BY DEF Kept, CommsInv, PollInv
<1>4. comTable' \subseteq ComConns
  BY DEF CommsInv
<1>5. QED
  BY <1>1, <1>2, <1>3, <1>4, QuietStep

(* A connection that does not change.                                       *)
LEMMA KeptSame == ASSUME CommsInv, NEW c \in ComConns PROVE Kept(c, comConn[c])
BY DEF CommsInv, Kept, Told

(* One that is sent a message that is not the poller's.                     *)
LEMMA KeptPut ==
  ASSUME CommsInv, NEW c \in ComConns, NEW m \in Msg, m.topic # Live PROVE Kept(c, Put(comConn[c], m))
<1>1. ConnInv(comConn[c])
  BY DEF CommsInv
<1>2. QED
  BY <1>1, PutKeeps DEF Kept, Told

(* One connection changes.                                                  *)
LEMMA OneKept ==
  ASSUME CommsInv, RestInv', comTable' = comTable, comPolling' = comPolling,
         NEW c \in ComConns, NEW new, comConn' = [comConn EXCEPT ![c] = new], Kept(c, new)
  PROVE  CommsInv'
<1>1. DOMAIN comConn' = ComConns /\ \A d \in ComConns : comConn'[d] = IF d = c THEN new ELSE comConn[d]
  BY DEF CommsInv
<1>2. \A d \in ComConns : Kept(d, comConn'[d])
  BY <1>1, KeptSame
<1>3. QED
  BY <1>1, <1>2, SteadyStep

(* A message of the engine, to every connection that wants it.              *)
LEMMA SendKeeps ==
  ASSUME CommsInv, RestInv', comTable' = comTable, comPolling' = comPolling,
         NEW wanted, wanted \subseteq ComConns, NEW m \in Msg, m.topic # Live,
         comConn' = [c \in ComConns |-> IF c \in wanted THEN Put(comConn[c], m) ELSE comConn[c]]
  PROVE  CommsInv'
<1>1. DOMAIN comConn' = ComConns /\ \A c \in ComConns : comConn'[c] \in {comConn[c], Put(comConn[c], m)}
  OBVIOUS
<1>2. \A c \in ComConns : Kept(c, comConn'[c])
  BY <1>1, KeptSame, KeptPut
<1>3. QED
  BY <1>1, <1>2, SteadyStep

(* send_to_topic, for a topic that is not the pollers'.                     *)
LEMMA TopicKeeps ==
  ASSUME CommsInv, RestInv', comTable' = comTable, comPolling' = comPolling,
         NEW topic \in Topics, NEW data \in Nat, topic # Live, SendToTopic(topic, data)
  PROVE  CommsInv'
<1> DEFINE wanted == {c \in ComConns : c \in comTable /\ Wants(comConn[c], topic)}
           m == [topic |-> topic, data |-> data]
<1>1. comConn' = [c \in ComConns |-> IF c \in wanted THEN Put(comConn[c], m) ELSE comConn[c]]
  BY DEF SendToTopic
<1>2. m \in Msg /\ m.topic # Live /\ wanted \subseteq ComConns
  BY DEF Msg
<1> HIDE DEF wanted, m
<1>3. QED
  BY <1>1, <1>2, SendKeeps

(* What the listeners of the engine's channels pass on.                     *)
LEMMA PublishKeepsConns ==
  ASSUME CommsInv, RestInv', comTable' = comTable, comPolling' = comPolling,
         NEW k \in Sources, NEW data \in Nat, Publish(k, data)
  PROVE  CommsInv'
<1>1. CASE k = "status"
  <2> DEFINE wanted == {c \in ComConns : c \in comTable /\ "status/#" \in comConn[c].subs}
             m == [topic |-> "status/n", data |-> data]
  <2>1. comConn' = [c \in ComConns |-> IF c \in wanted THEN Put(comConn[c], m) ELSE comConn[c]]
    BY <1>1 DEF Publish, SendRawJson
  <2>2. m \in Msg /\ m.topic # Live /\ wanted \subseteq ComConns
    BY DEF Msg, Topics, Live
  <2> HIDE DEF wanted, m
  <2>3. QED
    BY <2>1, <2>2, SendKeeps
<1>2. CASE k # "status"
  <2>1. PICK topic \in {"debug", "dashboard/data", "notification/runtime"} : SendToTopic(topic, data)
    BY <1>2 DEF Publish, Sources
  <2>2. topic \in Topics /\ topic # Live
    BY DEF Topics, Live
  <2>3. QED
    BY <2>1, <2>2, TopicKeeps
<1>3. QED
  BY <1>1, <1>2

(* The engine's channels, and the listeners that take from them.            *)
LEMMA SourceKeeps ==
  ASSUME CommsInv, NEW k \in Sources,
         Emit(k) \/ Lag(k) \/ Listen(k) \/ \E last \in BOOLEAN : ListenLast(k, last)
  PROVE  CommsInv'
<1>1. /\ comTable' = comTable /\ comPolling' = comPolling /\ comStore' = comStore /\ comRev' = comRev
  BY DEF Emit, Lag, Listen, ListenLast
<1>2. RestInv'
  <2>1. RestInv
    BY DEF CommsInv
  <2>2. PICK r : comSource' = [comSource EXCEPT ![k] = r] /\ DOMAIN r = {"queue", "lagged", "at"} /\ r.queue \in Nat
    <3>1. CASE Emit(k)
      <4> DEFINE r == IF comSource[k].queue < ComRing THEN [comSource[k] EXCEPT !.queue = comSource[k].queue + 1]
                      ELSE [comSource[k] EXCEPT !.lagged = TRUE]
      <4>1. comSource' = [comSource EXCEPT ![k] = r]
        BY <3>1 DEF Emit
      <4>2. DOMAIN r = {"queue", "lagged", "at"} /\ r.queue \in Nat
        BY <2>1 DEF RestInv
      <4>3. QED
        BY <4>1, <4>2
    <3>2. CASE Lag(k)
      <4> DEFINE r == [comSource[k] EXCEPT !.lagged = FALSE, !.at = IF k = "events" THEN "ended" ELSE @]
      <4>1. comSource' = [comSource EXCEPT ![k] = r]
        BY <2>1, <3>2 DEF Lag, RestInv
      <4>2. DOMAIN r = {"queue", "lagged", "at"} /\ r.queue \in Nat
        BY <2>1 DEF RestInv
      <4>3. QED
        BY <4>1, <4>2
    <3>3. CASE Listen(k)
      <4> DEFINE r == [comSource[k] EXCEPT !.queue = @ - 1]
      <4>1. comSource' = [comSource EXCEPT ![k] = r] /\ comSource[k].queue > 0
        BY <3>3 DEF Listen
      <4>2. DOMAIN r = {"queue", "lagged", "at"} /\ r.queue \in Nat
        BY <2>1, <4>1 DEF RestInv
      <4>3. QED
        BY <4>1, <4>2
    <3>4. ASSUME NEW last \in BOOLEAN, ListenLast(k, last)
          PROVE  \E r : comSource' = [comSource EXCEPT ![k] = r] /\ DOMAIN r = {"queue", "lagged", "at"} /\ r.queue \in Nat
      <4> DEFINE r == [comSource[k] EXCEPT !.at = "ended"]
      <4>1. comSource' = [comSource EXCEPT ![k] = r]
        BY <3>4 DEF ListenLast
      <4>2. DOMAIN r = {"queue", "lagged", "at"} /\ r.queue \in Nat
        BY <2>1 DEF RestInv
      <4>3. QED
        BY <4>1, <4>2
    <3>5. QED
      BY <3>1, <3>2, <3>3, <3>4
  <2>3. DOMAIN comSource' = Sources /\ \A j \in Sources : comSource'[j] = IF j = k THEN r ELSE comSource[j]
    BY <2>1, <2>2 DEF RestInv
  <2>4. QED
    BY <1>1, <2>1, <2>2, <2>3 DEF RestInv
<1>3. comSource[k].queue \in Nat
  BY DEF CommsInv, RestInv
<1>4. comConn' = comConn \/ Publish(k, comSource[k].queue)
  BY DEF Emit, Lag, Listen, ListenLast
<1>5. CASE comConn' = comConn
  <2>1. DOMAIN comConn' = ComConns /\ \A c \in ComConns : comConn'[c] = comConn[c]
    BY <1>5 DEF CommsInv
  <2>2. QED
    BY <1>1, <1>2, <2>1, KeptSame, SteadyStep
<1>6. CASE Publish(k, comSource[k].queue)
  BY <1>1, <1>2, <1>3, <1>6, PublishKeepsConns
<1>7. QED
  BY <1>4, <1>5, <1>6

(* Steps of the server itself: shutdown, deploy, heartbeat, and a change of the
   context.                                                                 *)
LEMMA ServerKeeps ==
  ASSUME CommsInv, Cancel \/ Deploy \/ Heartbeat \/ \E v \in 0 .. 2 : SetContext(v) PROVE CommsInv'
<1>1. comTable' = comTable /\ comPolling' = comPolling /\ comSource' = comSource
  BY DEF Cancel, Deploy, Heartbeat, SetContext
<1>2. comRev' \in {comRev, comRev + 1} /\ comStore' \in {comStore} \cup (0 .. 2)
  BY DEF Cancel, Deploy, Heartbeat, SetContext
<1>3. RestInv'
  BY <1>1, <1>2 DEF CommsInv, RestInv
<1>4. CASE Deploy
  <2>1. SendToTopic("notification/runtime-deploy", comRev + 1) /\ comRev + 1 \in Nat
    BY <1>4 DEF Deploy, CommsInv, RestInv
  <2>2. "notification/runtime-deploy" # Live /\ "notification/runtime-deploy" \in Topics
    BY DEF Topics, Live
  <2>3. QED
    BY <1>1, <1>3, <2>1, <2>2, TopicKeeps
<1>5. CASE comConn' = comConn
  <2>1. DOMAIN comConn' = ComConns /\ \A c \in ComConns : comConn'[c] = comConn[c]
    BY <1>5 DEF CommsInv
  <2>2. QED
    BY <1>1, <1>3, <2>1, KeptSame, SteadyStep
<1>6. QED
  BY <1>4, <1>5 DEF Cancel, Heartbeat, SetContext

-----------------------------------------------------------------------------
(* The tasks of a connection.                                               *)

(* A connection of which only the tasks, what is owed or the subscriptions change.  *)
LEMMA SameLog ==
  ASSUME CommsInv, NEW c \in ComConns, NEW new, DOMAIN new = ConnFields, OwedInv(new.owed),
         new.log = comConn[c].log, new.taken = comConn[c].taken, new.seen = comConn[c].seen
  PROVE  ConnInv(new) /\ Told(comConn[c], new)
<1>1. ConnInv(comConn[c])
  BY DEF CommsInv
<1>2. QED
  BY <1>1 DEF ConnInv, Told

(* Steps that leave revision, context and the engine's channels alone.      *)
LEMMA RestSame == ASSUME CommsInv, UNCHANGED <<comRev, comStore, comSource>> PROVE RestInv'
BY DEF CommsInv, RestInv

(* A connection enters the table with its tasks; nobody polls for it yet.   *)
LEMMA AcceptKeeps == ASSUME CommsInv, NEW c \in ComConns, Accept(c) PROVE CommsInv'
<1> DEFINE new == [comConn[c] EXCEPT !.used = TRUE, !.writer = "run", !.reader = "run", !.owed = <<"welcome">>]
<1>1. /\ ~comConn[c].used /\ comTable' = comTable \cup {c} /\ comPolling' = comPolling
      /\ UNCHANGED <<comRev, comStore, comSource>> /\ DOMAIN comConn = ComConns
  BY DEF Accept, CommsInv
<1>2. comConn' = [comConn EXCEPT ![c] = new]
  BY DEF Accept
<1>3. ConnInv(comConn[c])
  BY DEF CommsInv
<1>4. /\ DOMAIN new = ConnFields /\ new.used /\ new.owed = <<"welcome">> /\ new.log = comConn[c].log
      /\ new.taken = comConn[c].taken /\ new.seen = comConn[c].seen /\ new.subs = comConn[c].subs
  BY <1>3 DEF ConnInv, ConnFields
<1> HIDE DEF new
<1>5. DOMAIN comConn' = ComConns /\ \A d \in ComConns : comConn'[d] = IF d = c THEN new ELSE comConn[d]
  BY <1>1, <1>2
<1>6. new.owed # <<Live>> /\ OwedInv(new.owed)
  BY <1>4 DEF Live, OwedInv
<1>7. ConnInv(new) /\ Told(comConn[c], new)
  BY <1>4, <1>6, SameLog
<1>8. \A d \in ComConns : ConnInv(comConn'[d]) /\ Told(comConn[d], comConn'[d])
  BY <1>5, <1>7 DEF CommsInv, Told
<1>9. \A d \in comTable' : comConn'[d].used /\ (comConn'[d].owed = <<Live>> => Live \in comConn'[d].subs)
  BY <1>1, <1>4, <1>5, <1>6 DEF CommsInv
<1>10. \A p \in comPolling' : p.conn \in comTable' /\ Live \in comConn'[p.conn].subs
  BY <1>1, <1>4, <1>5 DEF CommsInv, PollInv
<1>11. comTable' \subseteq ComConns
  BY <1>1 DEF CommsInv
<1>12. QED
  BY <1>1, <1>5, <1>8, <1>9, <1>10, <1>11, RestSame, QuietStep

(* The writing task gives the browser the next message of the log, or ends. *)
LEMMA WriterKeeps == ASSUME CommsInv, NEW c \in ComConns, Writer(c) PROVE CommsInv'
<1> DEFINE conn == comConn[c]
           new == Write(conn)
<1>1. /\ conn.taken < Len(conn.log) /\ comConn' = [comConn EXCEPT ![c] = new]
      /\ UNCHANGED <<comTable, comPolling, comRev, comStore, comSource>>
  BY DEF Writer
<1>2. ConnInv(conn)
  BY DEF CommsInv
<1>3. Kept(c, new)
  <2>1. CASE Lagging(conn)
    <3>1. /\ DOMAIN new = ConnFields /\ new.used = conn.used /\ new.subs = conn.subs /\ new.owed = conn.owed
          /\ new.log = conn.log /\ new.taken = conn.taken /\ new.seen = conn.seen
      BY <1>2, <2>1 DEF Write, ConnInv, ConnFields
    <3>2. OwedInv(new.owed)
      BY <1>2, <3>1 DEF ConnInv
    <3> HIDE DEF new
    <3>3. ConnInv(new) /\ Told(conn, new)
      BY <3>1, <3>2, SameLog
    <3>4. QED
      BY <3>1, <3>3 DEF Kept
  <2>2. CASE ~Lagging(conn)
    <3> DEFINE e == conn.log[conn.taken + 1]
    <3>1. /\ DOMAIN new = ConnFields /\ new.used = conn.used /\ new.subs = conn.subs /\ new.owed = conn.owed
          /\ new.log = conn.log /\ new.taken = conn.taken + 1 /\ new.seen = Append(conn.seen, e)
      BY <1>2, <2>2 DEF Write, ConnInv, ConnFields
    <3>2. /\ conn.taken \in Nat /\ Len(conn.log) \in Nat /\ conn.log \in Seq(Msg) /\ conn.seen \in Seq(Msg)
          /\ conn.taken + 1 <= Len(conn.log) /\ Len(conn.seen) = conn.taken /\ OwedInv(conn.owed)
      BY <1>1, <1>2, LenProperties DEF ConnInv
    <3>3. e \in Msg
      BY <3>2, ElementOfSeq
    <3> HIDE DEF new
    <3>4. /\ new.seen \in Seq(Msg) /\ Len(new.seen) = conn.taken + 1 /\ new.seen[conn.taken + 1] = e
          /\ \A i \in 1 .. conn.taken : new.seen[i] = conn.seen[i]
      BY <3>1, <3>2, <3>3, AppendProperties
    <3>5. ASSUME NEW i \in 1 .. new.taken PROVE new.seen[i] = new.log[i]
      <4>1. i \in 1 .. conn.taken \/ i = conn.taken + 1
        BY <3>1, <3>2
      <4>2. CASE i \in 1 .. conn.taken
        BY <1>2, <3>1, <3>4, <4>2 DEF ConnInv
      <4>3. QED
        BY <3>1, <3>4, <4>1, <4>2
    <3>6. ConnInv(new)
      BY <3>1, <3>2, <3>4, <3>5 DEF ConnInv
    <3>7. QED
      BY <3>1, <3>6 DEF Kept, Told
  <2>3. QED
    BY <2>1, <2>2
<1> HIDE DEF new
<1>4. QED
  BY <1>1, <1>3, RestSame, OneKept

(* A task of a connection ends.                                             *)
LEMMA EndKeeps == ASSUME CommsInv, NEW c \in ComConns, WriterEnds(c) \/ ReaderEnds(c) PROVE CommsInv'
<1>1. PICK new : /\ comConn' = [comConn EXCEPT ![c] = new]
                 /\ new \in {[comConn[c] EXCEPT !.writer = "ended"], [comConn[c] EXCEPT !.reader = "ended"]}
  BY DEF WriterEnds, ReaderEnds
<1>2. UNCHANGED <<comTable, comPolling, comRev, comStore, comSource>>
  BY DEF WriterEnds, ReaderEnds
<1>3. ConnInv(comConn[c])
  BY DEF CommsInv
<1>4. /\ DOMAIN new = ConnFields /\ new.used = comConn[c].used /\ new.subs = comConn[c].subs /\ new.owed = comConn[c].owed
      /\ new.log = comConn[c].log /\ new.taken = comConn[c].taken /\ new.seen = comConn[c].seen
  BY <1>1, <1>3 DEF ConnInv, ConnFields
<1>5. ConnInv(new) /\ Told(comConn[c], new)
  BY <1>3, <1>4, SameLog DEF ConnInv
<1>6. Kept(c, new)
  BY <1>4, <1>5 DEF Kept
<1>7. QED
  BY <1>1, <1>2, <1>6, RestSame, OneKept

(* A connection leaves the table, and its poller ends with it.              *)
LEMMA RemoveKeeps == ASSUME CommsInv, NEW c \in ComConns, RemoveConn(c) PROVE CommsInv'
<1>1. /\ comTable' = comTable \ {c} /\ comPolling' = comPolling \ PollersOf(c)
      /\ UNCHANGED <<comConn, comRev, comStore, comSource>>
  BY DEF RemoveConn
<1>2. \A d \in ComConns : ConnInv(comConn'[d]) /\ Told(comConn[d], comConn'[d])
  BY <1>1 DEF CommsInv, Told
<1>3. \A d \in comTable' : comConn'[d].used /\ (comConn'[d].owed = <<Live>> => Live \in comConn'[d].subs)
  BY <1>1 DEF CommsInv
<1>4. \A p \in comPolling' : p.conn \in comTable' /\ Live \in comConn'[p.conn].subs
  BY <1>1 DEF CommsInv, PollInv, PollersOf
<1>5. DOMAIN comConn' = ComConns /\ comTable' \subseteq ComConns /\ comPolling' \subseteq comPolling
  BY <1>1 DEF CommsInv
<1>6. QED
  BY <1>1, <1>2, <1>3, <1>4, <1>5, RestSame, QuietStep

-----------------------------------------------------------------------------
(* The browser's requests.                                                  *)

(* A connection whose debt alone is changed.                                *)
LEMMA OwedKeeps ==
  ASSUME CommsInv, NEW c \in ComConns, NEW owed, OwedInv(owed), NEW new, new = [comConn[c] EXCEPT !.owed = owed]
  PROVE  /\ ConnInv(new) /\ Told(comConn[c], new) /\ new.used = comConn[c].used /\ new.subs = comConn[c].subs
         /\ new.owed = owed /\ new.log = comConn[c].log
         /\ owed # <<Live>> => Kept(c, new)
<1>1. ConnInv(comConn[c])
  BY DEF CommsInv
<1>2. /\ DOMAIN new = ConnFields /\ new.used = comConn[c].used /\ new.subs = comConn[c].subs /\ new.owed = owed
      /\ new.log = comConn[c].log /\ new.taken = comConn[c].taken /\ new.seen = comConn[c].seen
  BY <1>1 DEF ConnInv, ConnFields
<1>3. ConnInv(new) /\ Told(comConn[c], new)
  BY <1>2, SameLog
<1>4. QED
  BY <1>2, <1>3 DEF Kept

(* A revision behind the request it answers.                                *)
LEMMA PairAppend == ASSUME NEW t, NEW n PROVE Append(<<t>>, n) = <<t, n>>
<1> DEFINE S == {t, n}
<1>1. <<t>> \in Seq(S) /\ n \in S /\ Len(<<t>>) = 1 /\ <<t>>[1] = t
  OBVIOUS
<1>2. Append(<<t>>, n) \in Seq(S) /\ Len(Append(<<t>>, n)) = 2 /\ Append(<<t>>, n)[1] = t /\ Append(<<t>>, n)[2] = n
  BY <1>1, AppendProperties
<1>3. <<t, n>> \in Seq(S) /\ Len(<<t, n>>) = 2 /\ <<t, n>>[1] = t /\ <<t, n>>[2] = n
  OBVIOUS
<1> HIDE DEF S
<1>4. \A i \in 1 .. 2 : Append(<<t>>, n)[i] = <<t, n>>[i]
  BY <1>2, <1>3
<1>5. QED
  BY <1>2, <1>3, <1>4, SeqEqual

(* The revision is read for an answer that is owed.                         *)
LEMMA ReadKeeps == ASSUME CommsInv, NEW c \in ComConns, ReadRevision(c) PROVE CommsInv'
<1>1. PICK t \in {"notification/#", "notification/runtime-deploy"} : comConn[c].owed = <<t>>
  BY DEF ReadRevision
<1>2. comConn' = [comConn EXCEPT ![c] = [comConn[c] EXCEPT !.owed = Append(comConn[c].owed, comRev)]]
  BY DEF ReadRevision
<1>3. UNCHANGED <<comTable, comPolling, comRev, comStore, comSource>>
  BY DEF ReadRevision
<1>4. Append(comConn[c].owed, comRev) = <<t, comRev>> /\ comRev \in Nat
  <2>1. Append(<<t>>, comRev) = <<t, comRev>>
    BY PairAppend
  <2>2. QED
    BY <1>1, <2>1 DEF CommsInv, RestInv
<1>5. OwedInv(<<t, comRev>>) /\ <<t, comRev>> # <<Live>>
  BY <1>4 DEF OwedInv
<1>6. Kept(c, [comConn[c] EXCEPT !.owed = <<t, comRev>>])
  BY <1>5, OwedKeeps
<1>7. QED
  BY <1>2, <1>3, <1>4, <1>6, RestSame, OneKept

(* A browser that gives its token is answered.                              *)
LEMMA AuthKeeps == ASSUME CommsInv, NEW c \in ComConns, Authenticate(c) PROVE CommsInv'
<1> DEFINE m == [topic |-> "auth", data |-> 0]
<1>1. comConn' = [comConn EXCEPT ![c] = Put(comConn[c], m)]
  BY DEF Authenticate
<1>2. UNCHANGED <<comTable, comPolling, comRev, comStore, comSource>>
  BY DEF Authenticate
<1>3. m \in Msg /\ m.topic # Live
  BY DEF Msg, Topics, Live
<1> HIDE DEF m
<1>4. QED
  BY <1>1, <1>2, <1>3, KeptPut, RestSame, OneKept

(* A subscription is stored before it is answered.                          *)
LEMMA SubscribeKeeps == ASSUME CommsInv, NEW c \in ComConns, NEW topic, Subscribe(c, topic) PROVE CommsInv'
<1> DEFINE subs == IF c \in comTable THEN comConn[c].subs \cup {topic} ELSE comConn[c].subs
           owed == IF topic \in {"status/#", "notification/#", "notification/runtime-deploy", Live} THEN <<topic>> ELSE <<>>
           new == [comConn[c] EXCEPT !.subs = subs, !.owed = owed]
<1>1. comConn' = [comConn EXCEPT ![c] = new]
  BY DEF Subscribe
<1>2. UNCHANGED <<comTable, comPolling, comRev, comStore, comSource>>
  BY DEF Subscribe
<1>3. ConnInv(comConn[c])
  BY DEF CommsInv
<1>4. /\ DOMAIN new = ConnFields /\ new.used = comConn[c].used /\ new.subs = subs /\ new.owed = owed
      /\ new.log = comConn[c].log /\ new.taken = comConn[c].taken /\ new.seen = comConn[c].seen
  BY <1>3 DEF ConnInv, ConnFields
<1>5. OwedInv(owed)
  BY DEF OwedInv
<1>6. owed = <<Live>> => topic = Live
  OBVIOUS
<1>7. comConn[c].subs \subseteq subs /\ (c \in comTable => topic \in subs)
  OBVIOUS
<1> HIDE DEF subs, owed, new
<1>8. ConnInv(new) /\ Told(comConn[c], new)
  BY <1>4, <1>5, SameLog
<1>9. Kept(c, new)
  BY <1>4, <1>6, <1>7, <1>8 DEF Kept
<1>10. QED
  BY <1>1, <1>2, <1>9, RestSame, OneKept

(* A subscription goes, and with the context's the poller goes too.         *)
LEMMA UnsubscribeKeeps == ASSUME CommsInv, NEW c \in ComConns, NEW topic, Unsubscribe(c, topic) PROVE CommsInv'
<1> DEFINE subs == IF c \in comTable THEN comConn[c].subs \ {topic} ELSE comConn[c].subs
           new == [comConn[c] EXCEPT !.subs = subs]
<1>1. /\ comConn' = [comConn EXCEPT ![c] = new] /\ comConn[c].owed = <<>>
      /\ UNCHANGED <<comTable, comRev, comStore, comSource>>
  BY DEF Unsubscribe, Asks
<1>2. comPolling' = IF topic = Live /\ c \in comTable THEN comPolling \ PollersOf(c) ELSE comPolling
  BY DEF Unsubscribe
<1>3. ConnInv(comConn[c])
  BY DEF CommsInv
<1>4. /\ DOMAIN new = ConnFields /\ new.used = comConn[c].used /\ new.subs = subs /\ new.owed = <<>>
      /\ new.log = comConn[c].log /\ new.taken = comConn[c].taken /\ new.seen = comConn[c].seen
  BY <1>1, <1>3 DEF ConnInv, ConnFields
<1>5. OwedInv(new.owed) /\ new.owed # <<Live>>
  BY <1>4 DEF OwedInv
<1> HIDE DEF new
<1>6. ConnInv(new) /\ Told(comConn[c], new)
  BY <1>4, <1>5, SameLog
<1>7. DOMAIN comConn' = ComConns /\ \A d \in ComConns : comConn'[d] = IF d = c THEN new ELSE comConn[d]
  BY <1>1 DEF CommsInv
<1>8. \A d \in ComConns : ConnInv(comConn'[d]) /\ Told(comConn[d], comConn'[d])
  BY <1>6, <1>7 DEF CommsInv, Told
<1>9. \A d \in comTable' : comConn'[d].used /\ (comConn'[d].owed = <<Live>> => Live \in comConn'[d].subs)
  BY <1>1, <1>4, <1>5, <1>7 DEF CommsInv
<1>10. \A p \in comPolling' : p.conn \in comTable' /\ Live \in comConn'[p.conn].subs
  <2> SUFFICES ASSUME NEW p \in comPolling' PROVE p.conn \in comTable' /\ Live \in comConn'[p.conn].subs
    OBVIOUS
  <2>1. p \in comPolling /\ p.conn \in comTable /\ p.conn \in ComConns /\ Live \in comConn[p.conn].subs
    BY <1>2 DEF CommsInv, PollInv
  <2>2. CASE p.conn = c
    <3>1. topic # Live
      BY <1>2, <2>1, <2>2 DEF PollersOf
    <3>2. QED
      BY <1>1, <1>4, <1>7, <2>1, <2>2, <3>1
  <2>3. QED
    BY <1>1, <1>7, <2>1, <2>2
<1>11. comTable' \subseteq ComConns /\ comPolling' \subseteq comPolling
  BY <1>1, <1>2 DEF CommsInv
<1>12. QED
  BY <1>1, <1>7, <1>8, <1>9, <1>10, <1>11, RestSame, QuietStep

(* The poller of a new subscription starts with nothing reported, in the place of an
   earlier one.                                                             *)
LEMMA StartKeeps ==
  ASSUME CommsInv, RestInv', comTable' = comTable, NEW c \in ComConns, comConn[c].owed[1] = Live, comConn[c].owed # <<>>,
         StartPoller(c), comConn' = [comConn EXCEPT ![c].owed = <<>>]
  PROVE  CommsInv'
<1> DEFINE new == [comConn[c] EXCEPT !.owed = <<>>]
<1>1. comConn' = [comConn EXCEPT ![c] = new] /\ ConnInv(comConn[c])
  BY DEF CommsInv
<1>2. OwedInv(<<>>) /\ <<>> # <<Live>>
  BY DEF OwedInv
<1>3. ConnInv(new) /\ Told(comConn[c], new) /\ new.subs = comConn[c].subs /\ new.log = comConn[c].log /\ Kept(c, new)
  BY <1>2, OwedKeeps
<1> HIDE DEF new
<1>4. CASE c \notin comTable
  <2>1. comPolling' = comPolling
    BY <1>4 DEF StartPoller
  <2>2. QED
    BY <1>1, <1>3, <2>1, OneKept
<1>5. CASE c \in comTable
  <2>0. PICK start : start = [conn |-> c, snap |-> 0, since |-> Len(comConn[c].log)]
    OBVIOUS
  <2>1. comPolling' = (comPolling \ PollersOf(c)) \cup {start}
    BY <1>5, <2>0 DEF StartPoller
  <2>2. comConn[c].owed = <<Live>>
    BY <1>1 DEF ConnInv, OwedInv, Live
  <2>3. Live \in comConn[c].subs
    BY <1>5, <2>2 DEF CommsInv
  <2>4. DOMAIN comConn' = ComConns /\ \A d \in ComConns : comConn'[d] = IF d = c THEN new ELSE comConn[d]
    BY <1>1 DEF CommsInv
  <2>5. /\ DOMAIN start = {"conn", "snap", "since"} /\ start.conn = c /\ start.snap = 0
        /\ start.since = Len(new.log) /\ Len(new.log) \in Nat
    BY <1>3, <2>0, LenProperties DEF ConnInv
  <2>6. Reported(new, start.since) = 0
    <3>1. {i \in start.since + 1 .. Len(new.log) : new.log[i].topic = Live} = {}
      BY <2>5
    <3>2. QED
      BY <3>1 DEF Reported
  <2>7. PollInv(start)'
    BY <1>3, <1>5, <2>3, <2>4, <2>5, <2>6 DEF PollInv
  <2>8. \A p \in comPolling \ PollersOf(c) : PollInv(p)' /\ p.conn # c
    <3> SUFFICES ASSUME NEW p \in comPolling \ PollersOf(c) PROVE PollInv(p)' /\ p.conn # c
      OBVIOUS
    <3>1. PollInv(p) /\ p.conn # c /\ p.conn \in ComConns
      BY DEF CommsInv, PollInv, PollersOf
    <3>2. comConn'[p.conn] = comConn[p.conn]
      BY <2>4, <3>1
    <3>3. QED
      BY <3>1, <3>2 DEF PollInv
  <2>9. \A p, q \in comPolling' : p.conn = q.conn => p = q
    BY <2>1, <2>5, <2>8 DEF CommsInv
  <2>10. \A p \in comPolling' : PollInv(p)'
    BY <2>1, <2>7, <2>8
  <2>11. (\A d \in ComConns : ConnInv(comConn[d]))'
    BY <1>3, <2>4 DEF CommsInv
  <2>12. (\A d \in comTable : comConn[d].used /\ (comConn[d].owed = <<Live>> => Live \in comConn[d].subs))'
    BY <1>3, <2>4 DEF CommsInv, Kept
  <2>13. (comTable \subseteq ComConns)'
    BY DEF CommsInv
  <2>14. QED
    BY <2>4, <2>9, <2>10, <2>11, <2>12, <2>13 DEF CommsInv
<1>6. QED
  BY <1>4, <1>5

(* A poller that sees another value than at its last look reports it.       *)
LEMMA PollKeeps == ASSUME CommsInv, NEW p \in comPolling, Poll(p) PROVE CommsInv'
<1> DEFINE c == p.conn
           m == [topic |-> Live, data |-> comStore]
           new == Put(comConn[c], m)
<1>0. PICK next : next = [p EXCEPT !.snap = comStore]
  OBVIOUS
<1>1. /\ comPolling' = (comPolling \ {p}) \cup {next} /\ comConn' = [comConn EXCEPT ![c] = new]
      /\ UNCHANGED <<comTable, comRev, comStore, comSource>>
  BY <1>0 DEF Poll
<1>2. PollInv(p) /\ c \in ComConns /\ ConnInv(comConn[c]) /\ c \in comTable
  BY DEF CommsInv, PollInv
<1>3. m \in Msg /\ m.topic = Live /\ m.data = comStore
  BY DEF Msg, Topics, CommsInv, RestInv
<1> HIDE DEF m
<1>4. /\ ConnInv(new) /\ new.log = Append(comConn[c].log, m) /\ new.used = comConn[c].used
      /\ new.subs = comConn[c].subs /\ new.owed = comConn[c].owed
  BY <1>2, <1>3, PutKeeps
<1> HIDE DEF new
<1>5. p.since \in Nat /\ p.since <= Len(comConn[c].log) /\ DOMAIN p = {"conn", "snap", "since"} /\ Live \in comConn[c].subs
  BY <1>2 DEF PollInv
<1>6. p.since <= Len(new.log) /\ Reported(new, p.since) = comStore
  <2> HIDE DEF c
  <2>1. ConnInv(comConn[c]) /\ m \in Msg /\ m.topic = Live /\ new.log = Append(comConn[c].log, m)
    BY <1>2, <1>3, <1>4
  <2>2. p.since <= Len(new.log) /\ Reported(new, p.since) = m.data
    BY <1>5, <2>1, ToldLive
  <2>3. QED
    BY <1>3, <2>2
<1>7. DOMAIN next = {"conn", "snap", "since"} /\ next.conn = c /\ next.snap = comStore /\ next.since = p.since
  BY <1>0, <1>5
<1> HIDE DEF c
<1>8. DOMAIN comConn' = ComConns /\ \A d \in ComConns : comConn'[d] = IF d = c THEN new ELSE comConn[d]
  BY <1>1 DEF CommsInv
<1>9. PollInv(next)'
  BY <1>1, <1>2, <1>4, <1>5, <1>6, <1>7, <1>8 DEF PollInv
<1>10. \A q \in comPolling \ {p} : PollInv(q)' /\ q.conn # c
  <2> SUFFICES ASSUME NEW q \in comPolling \ {p} PROVE PollInv(q)' /\ q.conn # c
    OBVIOUS
  <2>1. PollInv(q) /\ q.conn # c /\ q.conn \in ComConns
    BY DEF CommsInv, PollInv, c
  <2>2. comConn'[q.conn] = comConn[q.conn]
    BY <1>8, <2>1
  <2>3. QED
    BY <1>1, <2>1, <2>2 DEF PollInv
<1>11. \A q, r \in comPolling' : q.conn = r.conn => q = r
  BY <1>1, <1>7, <1>10 DEF CommsInv
<1>12. \A q \in comPolling' : PollInv(q)'
  BY <1>1, <1>9, <1>10
<1>13. (\A d \in ComConns : ConnInv(comConn[d]))'
  BY <1>4, <1>8 DEF CommsInv
<1>14. (\A d \in comTable : comConn[d].used /\ (comConn[d].owed = <<Live>> => Live \in comConn[d].subs))'
  BY <1>1, <1>4, <1>8 DEF CommsInv
<1>15. (comTable \subseteq ComConns)'
  BY <1>1 DEF CommsInv
<1>16. RestInv'
  BY <1>1, RestSame
<1>17. QED
  BY <1>8, <1>11, <1>12, <1>13, <1>14, <1>15, <1>16 DEF CommsInv

(* A connection whose debt is paid, with the message that pays it.          *)
LEMMA PaidKept ==
  ASSUME CommsInv, NEW c \in ComConns, NEW paid, paid = [comConn[c] EXCEPT !.owed = <<>>]
  PROVE  /\ Kept(c, paid)
         /\ \A m \in Msg : m.topic # Live => Kept(c, Put(paid, m))
         /\ \A m \in Msg : [Put(comConn[c], m) EXCEPT !.owed = <<>>] = Put(paid, m)
<1>1. OwedInv(<<>>) /\ <<>> # <<Live>>
  BY DEF OwedInv
<1>2. /\ ConnInv(paid) /\ paid.used = comConn[c].used /\ paid.subs = comConn[c].subs /\ paid.owed = <<>>
      /\ paid.log = comConn[c].log /\ Kept(c, paid)
  BY <1>1, OwedKeeps
<1>3. ASSUME NEW m \in Msg, m.topic # Live PROVE Kept(c, Put(paid, m))
  <2>1. PICK new : new = Put(paid, m)
    OBVIOUS
  <2>2. /\ ConnInv(new) /\ new.log = Append(paid.log, m) /\ new.used = paid.used
        /\ new.subs = paid.subs /\ new.owed = paid.owed
    <3>1. ConnInv(paid)
      BY <1>2
    <3>2. QED
      BY <2>1, <3>1, PutKeeps
  <2>3. /\ new.log = Append(comConn[c].log, m) /\ new.used = comConn[c].used /\ new.subs = comConn[c].subs
        /\ new.owed # <<Live>>
    BY <1>1, <1>2, <2>2
  <2>4. Kept(c, new)
    BY <1>3, <2>2, <2>3 DEF Kept, Told
  <2>5. QED
    BY <2>1, <2>4
<1>4. ASSUME NEW m \in Msg PROVE [Put(comConn[c], m) EXCEPT !.owed = <<>>] = Put(paid, m)
  <2>1. DOMAIN comConn[c] = ConnFields
    BY DEF CommsInv, ConnInv
  <2>2. QED
    BY <2>1 DEF Put, ConnFields
<1>5. QED
  BY <1>2, <1>3, <1>4

(* A request is answered: to its browser, or to everybody who wants it.     *)
LEMMA AnswersKeep == ASSUME CommsInv, NEW c \in ComConns, Answers(c) PROVE CommsInv'
<1> DEFINE owed == comConn[c].owed
           paid == [comConn[c] EXCEPT !.owed = <<>>]
<1>1. owed # <<>> /\ UNCHANGED <<comTable, comStore, comRev, comSource>>
  BY DEF Answers
<1>2. RestInv'
  BY <1>1, RestSame
<1>3. Len(owed) = 2 => owed[2] \in Nat
  <2>1. OwedInv(owed)
    BY DEF CommsInv, ConnInv
  <2>2. CASE \E t \in {"notification/#", "notification/runtime-deploy"}, n \in Nat : owed = <<t, n>>
    BY <2>2
  <2>3. CASE \E t \in {"welcome", "status/#", "notification/#", "notification/runtime-deploy", Live} : owed = <<t>>
    BY <2>3
  <2>4. QED
    BY <1>1, <2>1, <2>2, <2>3 DEF OwedInv
<1>4. ASSUME NEW topic \in Topics, NEW data \in Nat, topic # Live,
             comConn' = Reply(c, [topic |-> topic, data |-> data]), comPolling' = comPolling
      PROVE  CommsInv'
  <2>1. PICK m : m = [topic |-> topic, data |-> data]
    OBVIOUS
  <2>2. m \in Msg /\ m.topic # Live
    BY <1>4, <2>1 DEF Msg
  <2>3. comConn' = [comConn EXCEPT ![c] = [Put(comConn[c], m) EXCEPT !.owed = <<>>]]
    BY <1>4, <2>1 DEF Reply
  <2>4. Kept(c, Put(paid, m)) /\ [Put(comConn[c], m) EXCEPT !.owed = <<>>] = Put(paid, m)
    BY <2>2, PaidKept
  <2> HIDE DEF paid
  <2>5. comConn' = [comConn EXCEPT ![c] = Put(paid, m)]
    BY <2>3, <2>4
  <2>6. QED
    BY <1>1, <1>2, <1>4, <2>4, <2>5, OneKept
<1>5. CASE /\ owed[1] \in {"welcome", "status/#"} /\ comConn' = Reply(c, [topic |-> owed[1], data |-> 0])
           /\ comPolling' = comPolling
  <2>1. owed[1] \in Topics /\ owed[1] # Live
    BY <1>5 DEF Topics, Live
  <2> HIDE DEF owed
  <2>2. QED
    BY <1>4, <1>5, <2>1
<1>6. CASE /\ owed[1] = "notification/#" /\ Len(owed) = 2 /\ comPolling' = comPolling
           /\ comConn' = Reply(c, [topic |-> "notification/runtime-deploy", data |-> owed[2]])
  <2>1. "notification/runtime-deploy" \in Topics /\ "notification/runtime-deploy" # Live
    BY DEF Topics, Live
  <2> HIDE DEF owed
  <2>2. QED
    BY <1>3, <1>4, <1>6, <2>1
<1>7. CASE /\ owed[1] = "notification/runtime-deploy" /\ Len(owed) = 2 /\ comPolling' = comPolling
           /\ comConn' = [d \in ComConns |->
                LET conn == IF d = c THEN [comConn[d] EXCEPT !.owed = <<>>] ELSE comConn[d]
                IN  IF d \in comTable /\ Wants(conn, owed[1])
                    THEN Put(conn, [topic |-> owed[1], data |-> owed[2]]) ELSE conn]
  <2>1. PICK m : m = [topic |-> owed[1], data |-> owed[2]]
    OBVIOUS
  <2>2. m \in Msg /\ m.topic # Live
    BY <1>3, <1>7, <2>1 DEF Msg, Topics, Live
  <2>3. DOMAIN comConn' = ComConns
    BY <1>7
  <2>4. ASSUME NEW d \in ComConns PROVE Kept(d, comConn'[d])
    <3> DEFINE conn == IF d = c THEN paid ELSE comConn[d]
    <3>1. comConn'[d] \in {conn, Put(conn, m)}
      BY <1>7, <2>1
    <3>2. CASE d = c
      <4>1. Kept(c, paid) /\ Kept(c, Put(paid, m))
        BY <2>2, PaidKept
      <4> HIDE DEF paid
      <4>2. QED
        BY <3>1, <3>2, <4>1
    <3>3. CASE d # c
      <4>1. comConn'[d] \in {comConn[d], Put(comConn[d], m)}
        BY <3>1, <3>3
      <4>2. QED
        BY <2>2, <4>1, KeptSame, KeptPut
    <3>4. QED
      BY <3>2, <3>3
  <2>5. QED
    BY <1>1, <1>2, <1>7, <2>3, <2>4, SteadyStep
<1>8. CASE owed[1] = Live /\ StartPoller(c) /\ comConn' = [comConn EXCEPT ![c].owed = <<>>]
  BY <1>1, <1>2, <1>8, StartKeeps
<1>9. QED
  BY <1>5, <1>6, <1>7, <1>8 DEF Answers

(* Every step of the connections, their tasks and their pollers.           *)
LEMMA CommsStep == ASSUME CommsInv, CommsNext PROVE CommsInv'
<1>1. ASSUME NEW k \in Sources, Emit(k) \/ Lag(k) \/ Listen(k) \/ \E last \in BOOLEAN : ListenLast(k, last) PROVE CommsInv'
  BY <1>1, SourceKeeps
<1>2. CASE Cancel \/ Deploy \/ Heartbeat \/ \E v \in 0 .. 2 : SetContext(v)
  BY <1>2, ServerKeeps
<1>3. ASSUME NEW c \in ComConns, Accept(c) \/ Writer(c) \/ WriterEnds(c) \/ ReaderEnds(c) \/ RemoveConn(c) PROVE CommsInv'
  BY <1>3, AcceptKeeps, WriterKeeps, EndKeeps, RemoveKeeps
<1>4. ASSUME NEW c \in ComConns, ReadRevision(c) \/ Answers(c) \/ Authenticate(c) PROVE CommsInv'
  BY <1>4, ReadKeeps, AnswersKeep, AuthKeeps
<1>5. ASSUME NEW c \in ComConns, NEW topic \in ComTopics, Subscribe(c, topic) \/ Unsubscribe(c, topic) PROVE CommsInv'
  BY <1>5, SubscribeKeeps, UnsubscribeKeeps
<1>6. ASSUME NEW p \in comPolling, Poll(p) PROVE CommsInv'
  BY <1>6, PollKeeps
<1>7. QED
  BY <1>1, <1>2, <1>3, <1>4, <1>5, <1>6 DEF CommsNext

-----------------------------------------------------------------------------
(* A part that does not move keeps its invariant.                           *)
LEMMA CommsFrame == ASSUME CommsInv, UNCHANGED comVars PROVE CommsInv'
BY DEF CommsInv, comVars, RestInv, PollInv

(* The same of the debug node.                                              *)
LEMMA DbgFrame == ASSUME DbgInv, UNCHANGED dbgVars PROVE DbgInv'
BY DEF DbgInv, dbgVars, Single, Listed

(* A message is as often in a list without repetitions as it is listed there.  *)
LEMMA CountOf ==
  ASSUME NEW s, Single(s), NEW m
  PROVE  Cardinality({i \in DOMAIN s : s[i] = m}) = IF Listed(s, m) THEN 1 ELSE 0
<1> DEFINE at == {i \in DOMAIN s : s[i] = m}
<1>1. CASE Listed(s, m)
  <2>1. PICK i \in DOMAIN s : s[i] = m
    BY <1>1 DEF Listed
  <2>2. at = {i}
    BY <2>1 DEF Single
  <2>3. QED
    BY <1>1, <2>2, FS_Singleton
<1>2. CASE ~Listed(s, m)
  <2>1. at = {}
    BY <1>2 DEF Listed
  <2>2. QED
    BY <1>2, <2>1, FS_EmptySet
<1>3. QED
  BY <1>1, <1>2

(* The invariant implies what the editor relies on.                         *)
LEMMA EdInvHolds == EdInv => EditorSees
<1> SUFFICES ASSUME EdInv PROVE EditorSees
  OBVIOUS
<1>1. CommsInv /\ DbgInv
  BY DEF EdInv
<1>2. ASSUME NEW c \in ComConns PROVE IsPrefix(comConn[c].seen, comConn[c].log)
  <2> DEFINE seen == comConn[c].seen
             log == comConn[c].log
  <2>1. /\ seen \in Seq(Msg) /\ log \in Seq(Msg) /\ Len(seen) \in Nat /\ Len(log) \in Nat /\ Len(seen) <= Len(log)
        /\ \A i \in 1 .. Len(seen) : seen[i] = log[i]
    BY <1>1, LenProperties DEF CommsInv, ConnInv
  <2> HIDE DEF seen, log
  <2>2. /\ SubSeq(seen, 1, Len(seen)) \in Seq(Msg) /\ Len(SubSeq(seen, 1, Len(seen))) = Len(seen)
        /\ \A i \in 1 .. Len(seen) : SubSeq(seen, 1, Len(seen))[i] = seen[i]
    BY <2>1, SubSeqProperties
  <2>3. /\ SubSeq(log, 1, Len(seen)) \in Seq(Msg) /\ Len(SubSeq(log, 1, Len(seen))) = Len(seen)
        /\ \A i \in 1 .. Len(seen) : SubSeq(log, 1, Len(seen))[i] = log[i]
    BY <2>1, SubSeqProperties
  <2>4. SubSeq(seen, 1, Len(seen)) = SubSeq(log, 1, Len(seen))
    BY <2>1, <2>2, <2>3, SeqEqual
  <2>5. QED
    BY <2>1, <2>4 DEF IsPrefix, seen, log
<1>3. ASSUME NEW p \in comPolling
      PROVE  /\ p.conn \in comTable /\ Live \in comConn[p.conn].subs
             /\ PollersOf(p.conn) = {p}
             /\ p.snap = Reported(comConn[p.conn], p.since)
  <2>1. PollersOf(p.conn) = {p}
    BY <1>1 DEF PollersOf, CommsInv
  <2>2. QED
    BY <1>1, <2>1 DEF CommsInv, PollInv
<1>4. ASSUME NEW m \in 1 .. dbgSent PROVE Places(m) = 1
  <2>1. /\ Cardinality({i \in DOMAIN dbgShown : dbgShown[i] = m}) = IF Listed(dbgShown, m) THEN 1 ELSE 0
        /\ Cardinality({i \in DOMAIN dbgQueue : dbgQueue[i] = m}) = IF Listed(dbgQueue, m) THEN 1 ELSE 0
    BY <1>1, CountOf DEF DbgInv
  <2>2. QED
    BY <1>1, <2>1 DEF Places, DbgInv
<1>5. QED
  BY <1>2, <1>3, <1>4 DEF EditorSees

(* What the editor sees can be trusted, whatever the connections, the topics and the
   capacity of their channels: the browser has received a prefix of what was sent to
   it (comms.rs, the broadcast task ends a connection that falls behind instead of
   going on behind a gap); a context poller belongs to a connection of the table that
   is still subscribed, is alone there, and has reported what it last saw
   (start_context_poller, stop_context_poller, remove_connection); and a message of
   the debug node is at exactly one of its places, peeked or not (model/mod.rs,
   MsgReceiverHolder).                                                      *)
THEOREM EditorIsTold == EdSpec => []EditorSees
<1>1. EdInit => EdInv
  <2> SUFFICES ASSUME EdInit PROVE EdInv
    OBVIOUS
  <2>1. RestInv
    BY DEF EdInit, RestInv
  <2>2. ConnInv(NewConn)
    BY DEF NewConn, ConnInv, ConnFields, OwedInv
  <2>3. CommsInv
    BY <2>1, <2>2 DEF EdInit, CommsInv
  <2>4. DbgInv
    BY DEF EdInit, DbgInv, Single, Listed
  <2>5. QED
    BY <2>3, <2>4 DEF EdInv
<1>2. EdInv /\ [EdNext]_edVars => EdInv'
  <2> SUFFICES ASSUME EdInv, [EdNext]_edVars PROVE EdInv'
    OBVIOUS
  <2>1. CommsInv /\ DbgInv
    BY DEF EdInv
  <2>2. CASE CommsNext
    <3>1. UNCHANGED dbgVars
      BY <2>2 DEF CommsNext, CommsPart, Emit, Lag, Listen, ListenLast, Cancel, Deploy, Heartbeat, Accept, Writer, WriterEnds,
                  ReaderEnds, RemoveConn, ReadRevision, Answers, Authenticate, Subscribe, Unsubscribe, Asks, SetContext, Poll
    <3>2. QED
      BY <2>1, <2>2, <3>1, CommsStep, DbgFrame DEF EdInv
  <2>3. CASE DebugNext
    <3>1. UNCHANGED comVars
      BY <2>3 DEF DebugNext, DebugPart, DbgSend, DbgStep, DbgCheck, DbgLock, DbgRecv, DbgCount, DbgShow, DbgTaskStep,
                  DbgSwitch, DbgStop
    <3>2. QED
      BY <2>1, <2>3, <3>1, DbgKeeps, CommsFrame DEF EdInv
  <2>4. CASE UNCHANGED edVars
    <3>1. UNCHANGED comVars /\ UNCHANGED dbgVars
      BY <2>4 DEF edVars
    <3>2. QED
      BY <2>1, <3>1, CommsFrame, DbgFrame DEF EdInv
  <2>5. QED
    BY <2>2, <2>3, <2>4 DEF EdNext
<1>3. QED
  BY <1>1, <1>2, EdInvHolds, PTL DEF EdSpec
=============================================================================
