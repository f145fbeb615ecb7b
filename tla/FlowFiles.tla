------------------------------ MODULE FlowFiles ------------------------------
(***************************************************************************)
(* The flows file, the credentials file beside it and the versions kept of *)
(* it, as the admin API changes them: POST /flows, POST, PUT and DELETE    *)
(* /flow, rollback. No handler holds a lock on the files: every read and   *)
(* write is a step, other handlers run between them and the process may    *)
(* die between them. A node is its id and the credentials written in it.   *)
(***************************************************************************)
EXTENDS Integers, Sequences, FiniteSets, SequencesExt

CONSTANTS FlowIds,       \* node ids
          FlowHandlers,  \* requests that may be under way together
          FlowSecrets,   \* credential_secret settings: "unset", "disabled" or a secret
          FlowMaxVersions, FlowRequests, FlowCrashes

VARIABLES flowFile, credFile, flowSecret, runtimeSecret, versions, flowReq, engineFlows, flowBound

ffVars == <<flowFile, credFile, flowSecret, runtimeSecret, versions, flowReq, engineFlows, flowBound>>

\* What a node may carry under "credentials": nothing, the placeholder for an untouched
\* password, an empty string, or a value; "hand" stands for one written into the file by hand.
SentCreds == {"none", "keep", "clear", "new"}
NoFlows == [i \in {} |-> "none"]
NoCreds == [i \in FlowIds |-> "none"]
FlowSets(creds) == UNION {[S -> creds] : S \in SUBSET FlowIds}

IdleReq == [op |-> "none", at |-> "idle", flows |-> NoFlows, id |-> "none", cur |-> NoFlows, index |-> <<>>,
            creds |-> NoCreds, sent |-> NoFlows, before |-> NoCreds, lone |-> TRUE]

\* The credentials the runtime would give a node now: inline ones win over stored ones.
Inline(i) == IF flowFile.ok /\ i \in DOMAIN flowFile.nodes THEN flowFile.nodes[i] ELSE "none"
Overlay(stored, inline) == IF inline \in {"none", "keep", "clear"} THEN stored ELSE inline
Effective(i) == Overlay(credFile.creds[i], Inline(i))
Merged(flows) == [i \in DOMAIN flows |-> Overlay(credFile.creds[i], flows[i])]

\* load tries the configured secret and then the one in .config.runtime.json.
Readable == credFile.key \in {"none", "plain", flowSecret} \/ (credFile.key = "generated" /\ runtimeSecret)
SaveKey == CASE flowSecret = "disabled" -> "plain" [] flowSecret = "unset" -> "generated" [] OTHER -> flowSecret

FfInit ==
    /\ \E S \in SUBSET FlowIds, inline \in {"none", "hand"} : flowFile = [ok |-> TRUE, nodes |-> [i \in S |-> inline]]
    /\ credFile = [key |-> "none", creds |-> NoCreds]
    /\ flowSecret \in FlowSecrets
    /\ runtimeSecret = FALSE
    /\ versions = [index |-> <<>>, snap |-> [v \in {} |-> NoFlows]]
    /\ flowReq = [h \in FlowHandlers |-> IdleReq]
    /\ engineFlows = flowFile.nodes
    /\ flowBound = [requests |-> FlowRequests, crashes |-> FlowCrashes]

At2(h, at) == flowReq[h].at = at
Step(h, r) == flowReq' = [flowReq EXCEPT ![h] = r]
Move(h, at) == Step(h, [flowReq[h] EXCEPT !.at = at])
Finish(h) == Step(h, IdleReq)

\* A request arrives. Too large, malformed or naming config nodes that are not there: refused.
Begin2(h, op, sent, i) ==
    /\ At2(h, "idle") /\ flowBound.requests > 0
    /\ flowBound' = [flowBound EXCEPT !.requests = @ - 1]
    /\ LET others == {g \in FlowHandlers \ {h} : ~At2(g, "idle")}
           first == CASE op = "deploy" -> "version" [] op = "rollback" -> "fetch" [] OTHER -> "load"
       IN  flowReq' = [g \in FlowHandlers |->
              CASE g = h -> [IdleReq EXCEPT !.op = op, !.at = first, !.flows = sent, !.id = i, !.sent = sent,
                                            !.before = [n \in FlowIds |-> Effective(n)], !.lone = others = {}]
                [] g \in others -> [flowReq[g] EXCEPT !.lone = FALSE]
                [] OTHER -> flowReq[g]]
    /\ UNCHANGED <<flowFile, credFile, flowSecret, runtimeSecret, versions, engineFlows>>
Arrives(h) ==
    \/ \E sent \in FlowSets(SentCreds) : Begin2(h, "deploy", sent, "none")
    \/ \E i \in FlowIds, c \in SentCreds : Begin2(h, "add", [n \in {i} |-> c], i)
    \/ \E i \in FlowIds, c \in SentCreds : Begin2(h, "put", [n \in {i} |-> c], i)
    \/ \E i \in FlowIds : Begin2(h, "delete", NoFlows, i)
    \/ Begin2(h, "rollback", NoFlows, "none")
Refused2(h) ==
    /\ At2(h, "idle") /\ flowBound.requests > 0
    /\ flowBound' = [flowBound EXCEPT !.requests = @ - 1]
    /\ UNCHANGED <<flowFile, credFile, flowSecret, runtimeSecret, versions, flowReq, engineFlows>>

\* save_version: the index is read, the snapshot written, old snapshots removed, the index
\* written. An error is logged and the deploy goes on.
NextId(index) == IF index = <<>> THEN 1 ELSE Last(index) + 1
Pruned(index) == SubSeq(index, (IF Len(index) > FlowMaxVersions THEN Len(index) - FlowMaxVersions ELSE 0) + 1, Len(index))
Over(f, g) == [x \in DOMAIN f \cup DOMAIN g |-> IF x \in DOMAIN f THEN f[x] ELSE g[x]]
Without(f, S) == [x \in DOMAIN f \ S |-> f[x]]
SaveVersion(h) ==
    LET r == flowReq[h]
        v == NextId(r.index)
        kept == Pruned(Append(r.index, v))
    IN  /\ \/ /\ At2(h, "version")
              /\ IF flowFile.ok /\ DOMAIN flowFile.nodes # {}
                 THEN Step(h, [r EXCEPT !.at = "snapshot", !.cur = flowFile.nodes, !.index = versions.index])
                 ELSE Move(h, "load")
              /\ UNCHANGED versions
           \/ /\ At2(h, "snapshot")
              /\ \/ /\ versions' = [versions EXCEPT !.snap = Over([w \in {v} |-> r.cur], @)] /\ Move(h, "prune")
                 \/ /\ Move(h, "load") /\ UNCHANGED versions
           \/ /\ At2(h, "prune")
              /\ versions' = [versions EXCEPT !.snap = Without(@, (ToSet(r.index) \cup {v}) \ ToSet(kept))]
              /\ Move(h, "index")
           \/ /\ At2(h, "index")
              /\ versions' = [versions EXCEPT !.index = kept]
              /\ Move(h, "load")
        /\ UNCHANGED <<flowFile, credFile, flowSecret, runtimeSecret, engineFlows, flowBound>>

\* rollback takes its flows from a snapshot that the index still names.
Fetch(h) ==
    /\ At2(h, "fetch")
    /\ \/ \E v \in DOMAIN versions.snap \cap ToSet(versions.index) :
             Step(h, [flowReq[h] EXCEPT !.at = "load", !.flows = versions.snap[v], !.sent = versions.snap[v]])
       \/ Finish(h)
    /\ UNCHANGED <<flowFile, credFile, flowSecret, runtimeSecret, versions, engineFlows, flowBound>>

\* The flows file is read: a deploy takes an unreadable one for empty, the others answer 500.
\* put and delete answer 404 for an id the file does not have. (add pushes a second node when
\* the id is taken; what is extracted for the id is the same.)
Edited(r, cur) ==
    CASE r.op = "add" -> Over(r.sent, cur)
      [] r.op = "put" -> Over(r.sent, cur)
      [] r.op = "delete" -> Without(cur, {r.id})
      [] OTHER -> r.flows
LoadFlows(h) ==
    LET r == flowReq[h]
        cur == IF flowFile.ok THEN flowFile.nodes ELSE NoFlows
    IN  /\ At2(h, "load")
        /\ IF (r.op \in {"add", "put", "delete"} /\ ~flowFile.ok) \/ (r.op \in {"put", "delete"} /\ r.id \notin DOMAIN cur)
           THEN Finish(h)
           ELSE Step(h, [r EXCEPT !.at = "extract", !.cur = cur, !.flows = Edited(r, cur)])
        /\ UNCHANGED <<flowFile, credFile, flowSecret, runtimeSecret, versions, engineFlows, flowBound>>

\* extract_for_deploy: stored credentials, what the current file has inline, then what was sent;
\* the credentials of nodes that are gone are dropped. A file that cannot be decrypted ends it.
StoredOnly(cur, i) == credFile.creds[i]
Stored(cur, i) == Overlay(credFile.creds[i], IF i \in DOMAIN cur THEN cur[i] ELSE "none")
Extract(flows, cur) ==
    [i \in FlowIds |-> IF i \notin DOMAIN flows THEN "none"
                       ELSE CASE flows[i] = "clear" -> "none"
                              [] flows[i] \in {"none", "keep"} -> Stored(cur, i)
                              [] OTHER -> flows[i]]
LoadCreds(h) ==
    LET r == flowReq[h]
        new == Extract(r.flows, r.cur)
    IN  /\ At2(h, "extract")
        /\ IF Readable THEN Step(h, [r EXCEPT !.at = IF new = credFile.creds THEN "truncate" ELSE "save", !.creds = new,
                                              !.flows = [i \in DOMAIN @ |-> "none"]])
           ELSE Finish(h)
        /\ UNCHANGED <<flowFile, credFile, flowSecret, runtimeSecret, versions, engineFlows, flowBound>>
\* save replaces the file in one rename; without a secret it generates and stores one first.
SaveCreds(h) ==
    /\ At2(h, "save")
    /\ \/ /\ credFile' = [key |-> SaveKey, creds |-> flowReq[h].creds]
          /\ runtimeSecret' = (runtimeSecret \/ flowSecret = "unset")
          /\ Move(h, "truncate")
       \/ /\ Finish(h) /\ UNCHANGED <<credFile, runtimeSecret>>
    /\ UNCHANGED <<flowFile, flowSecret, versions, engineFlows, flowBound>>

\* save_flows_to_file writes in place: the file is incomplete until the write has ended.
WriteFlows(h) ==
    LET r == flowReq[h]
    IN  /\ \/ /\ At2(h, "truncate")
              /\ flowFile' = [ok |-> FALSE, nodes |-> NoFlows] /\ Move(h, "write")
           \/ /\ At2(h, "write")
              /\ flowFile' = [ok |-> TRUE, nodes |-> r.flows]
              /\ Move(h, IF r.op \in {"deploy", "rollback"} THEN "engine" ELSE "restart")
        /\ UNCHANGED <<credFile, flowSecret, runtimeSecret, versions, engineFlows, flowBound>>

\* A deploy gives the engine the flows it holds, the edits have it restarted from the file.
Deployed(h) ==
    /\ \/ /\ At2(h, "engine")
          /\ engineFlows' = IF Readable THEN Merged(flowReq[h].flows) ELSE engineFlows
       \/ /\ At2(h, "restart")
          /\ engineFlows' = IF Readable /\ flowFile.ok THEN Merged(flowFile.nodes) ELSE engineFlows
    /\ Finish(h)
    /\ UNCHANGED <<flowFile, credFile, flowSecret, runtimeSecret, versions, flowBound>>

\* The process dies and is started again, perhaps with another credential_secret.
FlowCrash ==
    /\ flowBound.crashes > 0 /\ flowBound' = [flowBound EXCEPT !.crashes = @ - 1]
    /\ flowSecret' \in FlowSecrets
    /\ flowReq' = [h \in FlowHandlers |-> IdleReq]
    /\ engineFlows' = IF flowFile.ok /\ Readable THEN Merged(flowFile.nodes) ELSE NoFlows
    /\ UNCHANGED <<flowFile, credFile, runtimeSecret, versions>>

FfNext ==
    \/ \E h \in FlowHandlers :
          \/ Arrives(h) \/ Refused2(h) \/ SaveVersion(h) \/ Fetch(h) \/ LoadFlows(h)
          \/ LoadCreds(h) \/ SaveCreds(h) \/ WriteFlows(h) \/ Deployed(h)
    \/ FlowCrash

FfSpec == FfInit /\ [][FfNext]_ffVars

----------------------------------------------------------------------------
\* The credentials file and the flows file change in an order that keeps passwords. While a
\* request is the only one, at every step (so wherever the process dies), a node that stays
\* and whose password the editor did not touch has the credentials it had before: in one
\* file or the other, a file nobody can decrypt included. Once the flows are written, a
\* node has what was sent for it. And what the editor sends never enters the flows file or a
\* version of it: they only hold what was written there by hand.
CredentialsSurvive ==
    /\ \A h \in FlowHandlers :
          LET r == flowReq[h]
          IN  (r.at # "idle" /\ r.lone) =>
                /\ flowFile.ok =>
                      \A i \in DOMAIN flowFile.nodes \cap DOMAIN r.sent :
                         r.sent[i] \in {"none", "keep"} => Effective(i) = r.before[i]
                /\ r.at \in {"engine", "restart"} =>
                      \A i \in DOMAIN r.sent :
                         /\ r.sent[i] = "clear" => Effective(i) = "none"
                         /\ r.sent[i] \in {"new", "hand"} => Effective(i) = r.sent[i]
    /\ \A i \in DOMAIN flowFile.nodes : flowFile.nodes[i] \in {"none", "hand"}
    /\ \A v \in DOMAIN versions.snap : \A i \in DOMAIN versions.snap[v] : versions.snap[v][i] \in {"none", "hand"}
=============================================================================
