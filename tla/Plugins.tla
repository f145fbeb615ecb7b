------------------------------- MODULE Plugins -------------------------------
(***************************************************************************)
(* WASM plugins: the marketplace that stores them (marketplace/store.rs,   *)
(* api.rs, verify.rs), the manager that loads them from a directory        *)
(* (wasm-host/plugin_manager.rs) and the node that runs one                *)
(* (wasm-host/shim.rs, abi.rs).                                            *)
(*                                                                         *)
(* A WASM module is abstracted to the export it lacks, or has with the     *)
(* wrong type, and to the node type it announces; versions are numbers in  *)
(* the order of semver; the guest of a node does anything the interface    *)
(* allows, and an output is the call it was made in and its number.        *)
(***************************************************************************)
EXTENDS Integers, Sequences, SequencesExt, FiniteSets

CONSTANTS
    PlugParts,     \* what to explore: a subset of {"market", "manager", "node"}
    MktHandlers,   \* requests that are served at the same time
    MktNames,      \* plugin names
    MktVersions,   \* versions, by their semver order
    MktRequests,   \* bound on the requests
    PlugFiles,     \* files of the plugin directory
    PlugChanges,   \* bound on the changes of a file
    GuestMsgs      \* bound on the messages a node is sent

VARIABLES
    plugPart,
    mktPlugins,    \* plugins: id -> name and versions
    mktIndex,      \* name_index: name -> id
    mktBinaries,   \* binaries: <id, version> -> the export the module lacks
    mktRatings,    \* ratings: the ids that have an aggregate
    mktIssued,     \* ids are never issued twice
    mktReq,        \* handler -> the request it serves
    mktCount,      \* requests so far
    pmFiles,       \* file -> its content
    pmLoad,        \* the file load_plugin is at, and what it made of it
    pmRegistry,    \* WASM_MODULE_REGISTRY: node type -> module
    pmPlugins,     \* plugins: node type -> module and the content of the checksum
    pmTypes,       \* node types given to the node registry
    pmChanges,
    gstStage,      \* the node's task
    gstInbox,      \* how many messages wait
    gstPushed,     \* ghost: how many outputs the guest gave to host_send_msg
    gstAnswered,   \* ghost: the outputs of the results of its calls
    gstPending,    \* pending_outputs
    gstOut,        \* envelopes the loop has in hand
    gstForwarded,  \* what it gave to fan_out_one, and whether that took it
    gstFailed,     \* ghost: the last call of the guest failed
    gstCount

mktVars == <<mktPlugins, mktIndex, mktBinaries, mktRatings, mktIssued, mktReq, mktCount>>
pmVars == <<pmFiles, pmLoad, pmRegistry, pmPlugins, pmTypes, pmChanges>>
gstVars == <<gstStage, gstInbox, gstPushed, gstAnswered, gstPending, gstOut, gstForwarded, gstFailed, gstCount>>
plugVars == <<plugPart, mktVars, pmVars, gstVars>>

\* The texts a request may name a plugin by: an id that was issued (a uuid), or any other
\* text.  A plugin may be given an id for its name.
MktId(i) == <<"id", i>>
MktText(n) == <<n, 0>>
MktTexts == {MktText(n) : n \in MktNames} \union {MktId(i) : i \in 1..mktIssued}

NoReq == [at |-> "none", op |-> "none", name |-> MktId(0), id |-> MktId(0), version |-> 0, lacks |-> "none"]

\* What a file of the plugin directory may hold: a module without one of the exports, one
\* whose rust_red_on_start, rust_red_process_msg or rust_red_on_stop has another type than
\* the host calls, one whose rust_red_node_info answers nothing, or a complete one.
Contents == [type : {"a", "b"}, lacks : {"none", "alloc", "process", "typed process"}, info : BOOLEAN,
             edition : 0..PlugChanges]
NoLoad == [file |-> "none", module |-> CHOOSE c \in Contents : TRUE]

PlugInit ==
    /\ plugPart \in PlugParts
    /\ mktPlugins = <<>> /\ mktIndex = <<>> /\ mktBinaries = <<>> /\ mktRatings = {}
    /\ mktIssued = 0 /\ mktCount = 0 /\ mktReq = [h \in MktHandlers |-> NoReq]
    /\ pmFiles = [f \in {} |-> 0] /\ pmLoad = NoLoad /\ pmRegistry = [t \in {} |-> 0]
    /\ pmPlugins = [t \in {} |-> 0] /\ pmTypes = {} /\ pmChanges = 0
    /\ gstStage = "start" /\ gstInbox = 0 /\ gstPushed = 0 /\ gstAnswered = {} /\ gstPending = <<>>
    /\ gstOut = <<>> /\ gstForwarded = <<>> /\ gstFailed = FALSE /\ gstCount = 0

With2(f, k, v) == [x \in DOMAIN f \union {k} |-> IF x = k THEN v ELSE f[x]]
But(f, k) == [x \in DOMAIN f \ {k} |-> f[x]]

---------------------------------------------------------------------------
(* The marketplace.                                                        *)

MktArrives(h) ==
    /\ mktReq[h].at = "none" /\ mktCount < MktRequests
    /\ mktCount' = mktCount + 1
    /\ \E op \in {"publish", "unpublish", "rate"}, n \in MktTexts, v \in MktVersions, l \in {"none", "alloc"} :
          /\ op = "rate" => v = CHOOSE w \in MktVersions : TRUE
          /\ op # "publish" => l = "none"
          /\ mktReq' = [mktReq EXCEPT ![h] = [at |-> "read", op |-> op, name |-> n, id |-> MktId(0), version |-> v, lacks |-> l]]
    /\ UNCHANGED <<mktPlugins, mktIndex, mktBinaries, mktRatings, mktIssued>>

\* verify_wasm_plugin: every export the host calls must be there; what the functions do
\* when they are called in the sandbox only goes into the report.
VerifyWasmPlugin(r) == r.lacks = "none"

\* The id a text stands for: a plugin's id before a plugin's name.
MktKnown(text) == text \in DOMAIN mktPlugins \/ text \in DOMAIN mktIndex
MktIdOf(text) == IF text \in DOMAIN mktPlugins THEN text ELSE mktIndex[text]

\* The first lock of a handler: publish_plugin verifies the module (require_verification
\* is the default), the others look up the id and let go of the lock.
MktResolve(h) ==
    LET r == mktReq[h] IN
    /\ r.at = "read"
    /\ \/ /\ r.op = "publish"
          /\ mktReq' = IF VerifyWasmPlugin(r) THEN [mktReq EXCEPT ![h].at = "write"] ELSE [mktReq EXCEPT ![h] = NoReq]
       \/ /\ r.op # "publish" /\ MktKnown(r.name)
          /\ mktReq' = [mktReq EXCEPT ![h].at = "write", ![h].id = MktIdOf(r.name)]
       \/ /\ r.op # "publish" /\ ~MktKnown(r.name)
          /\ mktReq' = [mktReq EXCEPT ![h] = NoReq]
    /\ UNCHANGED <<mktPlugins, mktIndex, mktBinaries, mktRatings, mktIssued, mktCount>>

\* PluginStore::publish, under the write lock: a known name takes only a version above all
\* it has; a new name gets an id.
MktPublish(h) ==
    LET r == mktReq[h]
        known == r.name \in DOMAIN mktIndex
        id == IF known THEN mktIndex[r.name] ELSE MktId(mktIssued + 1)
        had == IF known THEN mktPlugins[id].versions ELSE {}
    IN  /\ r.at = "write" /\ r.op = "publish"
        /\ mktReq' = [mktReq EXCEPT ![h] = NoReq]
        /\ \/ /\ \E v \in had : v >= r.version
              /\ UNCHANGED <<mktPlugins, mktIndex, mktBinaries, mktIssued>>
           \/ /\ \A v \in had : v < r.version
              /\ mktPlugins' = With2(mktPlugins, id, [name |-> r.name, versions |-> had \union {r.version}])
              /\ mktIndex' = With2(mktIndex, r.name, id)
              /\ mktBinaries' = With2(mktBinaries, <<id, r.version>>, r.lacks)
              /\ mktIssued' = IF known THEN mktIssued ELSE mktIssued + 1
        /\ UNCHANGED <<mktRatings, mktCount>>

\* What the store finds under the write lock for the id of an earlier read lock.
MktHas(r) == r.id \in DOMAIN mktPlugins

\* PluginStore::unpublish_version: the last version takes the plugin, its name and its
\* ratings with it.
MktUnpublish(h) ==
    LET r == mktReq[h]
        had == IF r.id \in DOMAIN mktPlugins THEN mktPlugins[r.id].versions ELSE {r.version}
        last == had = {r.version}
    IN  /\ r.at = "write" /\ r.op = "unpublish"
        /\ mktReq' = [mktReq EXCEPT ![h] = NoReq]
        /\ IF MktHas(r) /\ r.version \in had
           THEN /\ mktBinaries' = But(mktBinaries, <<r.id, r.version>>)
                /\ mktPlugins' = IF last THEN But(mktPlugins, r.id)
                                 ELSE [mktPlugins EXCEPT ![r.id].versions = @ \ {r.version}]
                /\ mktIndex' = IF last THEN But(mktIndex, mktPlugins[r.id].name) ELSE mktIndex
                /\ mktRatings' = IF last THEN mktRatings \ {r.id} ELSE mktRatings
           ELSE UNCHANGED <<mktBinaries, mktPlugins, mktIndex, mktRatings>>
        /\ UNCHANGED <<mktIssued, mktCount>>

\* PluginStore::rate, under the second read lock.
MktRate(h) ==
    LET r == mktReq[h] IN
    /\ r.at = "write" /\ r.op = "rate"
    /\ mktReq' = [mktReq EXCEPT ![h] = NoReq]
    /\ mktRatings' = IF MktHas(r) THEN mktRatings \union {r.id} ELSE mktRatings
    /\ UNCHANGED <<mktPlugins, mktIndex, mktBinaries, mktIssued, mktCount>>

\* What download_plugin answers: the binary of the resolved id, or an error.
MktDownload(text, version) == MktKnown(text) /\ <<MktIdOf(text), version>> \in DOMAIN mktBinaries

MktNext == \E h \in MktHandlers :
    MktArrives(h) \/ MktResolve(h) \/ MktPublish(h) \/ MktUnpublish(h) \/ MktRate(h)

\* What is found, listed and downloaded is the same at all times, and a request acts on
\* no plugin but the one that was asked for, by its id or by the name it still has,
\* whatever was unpublished or published again between the two locks of the request.
MarketConsistent ==
    /\ DOMAIN mktPlugins = {mktIndex[n] : n \in DOMAIN mktIndex}
    /\ \A n \in DOMAIN mktIndex : mktPlugins[mktIndex[n]].name = n
    /\ mktRatings \subseteq DOMAIN mktPlugins
    /\ \A k \in DOMAIN mktBinaries : mktBinaries[k] = "none"
    /\ \A n \in DOMAIN mktPlugins \union DOMAIN mktIndex, v \in MktVersions :
          MktDownload(n, v) <=> v \in mktPlugins[MktIdOf(n)].versions
    /\ \A h \in MktHandlers :
          LET r == mktReq[h] IN
          r.at = "write" /\ r.op # "publish" /\ MktHas(r) => r.name \in {r.id, mktPlugins[r.id].name}

---------------------------------------------------------------------------
(* The plugin manager.                                                     *)

\* Someone puts a module into the directory, replaces it or takes it away; start_watcher
\* compiles it once more and throws the result away.
FileChanges ==
    /\ pmChanges < PlugChanges /\ pmChanges' = pmChanges + 1
    /\ \E f \in PlugFiles :
          \/ \E c \in Contents : c.edition = pmChanges' /\ pmFiles' = With2(pmFiles, f, c)
          \/ f \in DOMAIN pmFiles /\ pmFiles' = But(pmFiles, f)
    /\ UNCHANGED <<pmLoad, pmRegistry, pmPlugins, pmTypes>>

\* validate_module asks for the names of the exports, all but rust_red_alloc;
\* extract_node_info asks for that one, for the type of the functions it calls, and for
\* an answer it can read.
ValidModule(c) == c.lacks \notin {"process", "alloc"} /\ c.info

\* load_plugin up to its await: an invalid file is left out.
LoadPlugin ==
    /\ pmLoad = NoLoad /\ pmTypes = {}
    /\ \E f \in DOMAIN pmFiles :
          ValidModule(pmFiles[f]) /\ pmLoad' = [file |-> f, module |-> pmFiles[f]]
    /\ UNCHANGED <<pmFiles, pmRegistry, pmPlugins, pmTypes, pmChanges>>

\* The file is read a second time for the checksum; the module goes into both tables,
\* where it replaces another file's of the same type.
LoadInsert ==
    /\ pmLoad # NoLoad /\ pmLoad' = NoLoad
    /\ LET c == pmLoad.module IN
       IF pmLoad.file \in DOMAIN pmFiles
       THEN /\ pmRegistry' = With2(pmRegistry, c.type, c)
            /\ pmPlugins' = With2(pmPlugins, c.type, [module |-> c, checksum |-> pmFiles[pmLoad.file]])
       ELSE UNCHANGED <<pmRegistry, pmPlugins>>
    /\ UNCHANGED <<pmFiles, pmTypes, pmChanges>>

\* register_into, once everything is loaded.
RegisterInto ==
    /\ pmLoad = NoLoad /\ pmTypes = {} /\ DOMAIN pmPlugins # {}
    /\ pmTypes' = DOMAIN pmPlugins
    /\ UNCHANGED <<pmFiles, pmLoad, pmRegistry, pmPlugins, pmChanges>>

\* wasm_node_factory: the module of the type must have every function the shim calls,
\* with its type.
FactoryBuilds(t) == t \in DOMAIN pmRegistry /\ pmRegistry[t].lacks = "none"

ManagerNext == FileChanges \/ LoadPlugin \/ LoadInsert \/ RegisterInto

\* A node type that the palette offers is built from the module that announced it, and
\* can be built unless one of the module's functions has another type than its name says.
OfferedBuilds ==
    \A t \in pmTypes :
       /\ t \in DOMAIN pmRegistry /\ pmRegistry[t].type = t /\ pmRegistry[t] = pmPlugins[t].module
       /\ FactoryBuilds(t) \/ pmRegistry[t].lacks = "typed process"

---------------------------------------------------------------------------
(* A node that runs a plugin.                                              *)

\* What the guest hands to host_send_msg in a call, any number of times: outputs with
\* their numbers among all it ever handed over.
Output(call, way, number) == [call |-> call, way |-> way, number |-> number]
Pushes(call) == {<<>>, <<Output(call, "pushed", gstPushed + 1)>>,
                 <<Output(call, "pushed", gstPushed + 1), Output(call, "pushed", gstPushed + 2)>>}

\* What ProcessResult.output of a call may be.
Results(call) == {<<>>, <<Output(call, "returned", 1)>>,
                  <<Output(call, "returned", 1), Output(call, "returned", 2)>>}

\* The call of the message at the head of the queue: 0 is on_start, and the last on_stop.
ThisCall == gstCount - gstInbox + 1

GuestArrives ==
    /\ gstCount < GuestMsgs /\ gstCount' = gstCount + 1 /\ gstStage \in {"start", "loop"}
    /\ gstInbox' = gstInbox + 1
    /\ UNCHANGED <<gstStage, gstPushed, gstAnswered, gstPending, gstOut, gstForwarded, gstFailed>>

\* call_guest_on_start: what it hands over waits for the first message.
OnStart ==
    /\ gstStage = "start" /\ gstStage' = "loop"
    /\ \E pushed \in Pushes(0) : gstPushed' = gstPushed + Len(pushed) /\ gstPending' = gstPending \o pushed
    /\ UNCHANGED <<gstInbox, gstAnswered, gstOut, gstForwarded, gstFailed, gstCount>>

\* drain_outputs takes the outputs; a copy of them would not.
DrainCopies == gstPending
DrainOutputs == <<>>

\* process_and_forward: the output of the result comes first, then everything that is
\* drained.  A call that traps, or whose result cannot be read, ends before the outputs
\* are drained; they stay for the next call, and its result is lost.
ProcessMsg ==
    /\ gstStage = "loop" /\ gstOut = <<>> /\ gstInbox > 0
    /\ gstInbox' = gstInbox - 1
    /\ \E pushed \in Pushes(ThisCall), result \in Results(ThisCall), failed \in BOOLEAN :
          /\ gstPushed' = gstPushed + Len(pushed)
          /\ gstFailed' = failed
          /\ \/ failed /\ gstPending' = gstPending \o pushed /\ UNCHANGED <<gstOut, gstAnswered>>
             \/ /\ ~failed /\ gstPending' = DrainOutputs
                /\ gstOut' = result \o gstPending \o pushed
                /\ gstAnswered' = gstAnswered \union Range(result)
    /\ UNCHANGED <<gstStage, gstForwarded, gstCount>>

\* The loop of run forwards one envelope; one that fan_out_one refuses (the node stops, or
\* a receiver is gone) is only logged.
Forward ==
    /\ gstOut # <<>> /\ gstOut' = Tail(gstOut)
    /\ \E taken \in BOOLEAN : gstForwarded' = Append(gstForwarded, [output |-> Head(gstOut), taken |-> taken])
    /\ UNCHANGED <<gstStage, gstInbox, gstPushed, gstAnswered, gstPending, gstFailed, gstCount>>

\* rust_red_alloc answers a place outside of the memory: the slice panics and the node's
\* task is gone, without on_stop.
AllocOutside ==
    /\ gstStage = "start" \/ (gstStage = "loop" /\ gstOut = <<>> /\ gstInbox > 0)
    /\ gstStage' = "gone"
    /\ UNCHANGED <<gstInbox, gstPushed, gstAnswered, gstPending, gstOut, gstForwarded, gstFailed, gstCount>>

\* stop_token, then call_guest_on_stop: what it hands over is never sent.
OnStop ==
    /\ gstStage = "loop" /\ gstOut = <<>> /\ gstStage' = "stopped"
    /\ \E pushed \in Pushes(gstCount + 1) :
          gstPushed' = gstPushed + Len(pushed) /\ gstPending' = gstPending \o pushed
    /\ UNCHANGED <<gstInbox, gstAnswered, gstOut, gstForwarded, gstFailed, gstCount>>

GuestNext == GuestArrives \/ OnStart \/ ProcessMsg \/ Forward \/ AllocOutside \/ OnStop

\* All the outputs that are left, in the order they go out in.
OutputsInOrder == [i \in DOMAIN gstForwarded |-> gstForwarded[i].output] \o gstOut \o gstPending

\* One output may go out before another: of those handed over, and of those returned, the
\* earlier one; a returned one before those its own call handed over.  (Those that an earlier
\* call left behind when it failed come after a later call's returned one.)
MayPrecede(x, y) ==
    CASE x.way = "pushed" /\ y.way = "pushed" -> x.number < y.number
      [] x.way = "pushed" /\ y.way = "returned" -> x.call < y.call
      [] x.way = "returned" /\ y.way = "returned" -> x.call < y.call \/ (x.call = y.call /\ x.number < y.number)
      [] OTHER -> TRUE

\* Whichever calls fail in between, every output that a guest handed over, and every one
\* that a call returned which did not fail, is forwarded once, in order; only a failed
\* call, or the node's start or end, leaves any behind.
OutputsConserved ==
    /\ \A i, j \in DOMAIN OutputsInOrder : i < j => MayPrecede(OutputsInOrder[i], OutputsInOrder[j])
    /\ {x.number : x \in {y \in Range(OutputsInOrder) : y.way = "pushed"}} = 1..gstPushed
    /\ {x \in Range(OutputsInOrder) : x.way = "returned"} = gstAnswered
    /\ (gstStage = "loop" /\ \E i \in DOMAIN gstPending : gstPending[i].call > 0) => gstFailed

---------------------------------------------------------------------------
PlugNext ==
    /\ \/ plugPart = "market" /\ MktNext /\ UNCHANGED <<pmVars, gstVars>>
       \/ plugPart = "manager" /\ ManagerNext /\ UNCHANGED <<mktVars, gstVars>>
       \/ plugPart = "node" /\ GuestNext /\ UNCHANGED <<mktVars, pmVars>>
    /\ UNCHANGED plugPart

PlugSpec == PlugInit /\ [][PlugNext]_plugVars

\* From the marketplace to the node that runs a plugin: the tables of the marketplace
\* agree, and a request acts on the plugin it named, although it resolves it under one
\* lock and acts under another; a type the palette offers has the module that announced
\* it; and no output of a guest is lost or repeated, or reordered among its like, by a
\* failing call (store.rs 58-292, plugin_manager.rs 117-380, shim.rs 80-153, 300-335).
PluginsSound == MarketConsistent /\ OfferedBuilds /\ OutputsConserved
=============================================================================
