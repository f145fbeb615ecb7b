----------------------------- MODULE MCServices -----------------------------
(***************************************************************************)
(* Small instances of the services around the engine: context stores, the  *)
(* flows file with its credentials and versions, the admin interface, the  *)
(* connection to the editor, the flows of a cluster, plugins, and the      *)
(* loading of flows.  They are checked side by side: `subject` is the one  *)
(* whose behaviours are explored, the others stay in one of their initial  *)
(* states.                                                                 *)
(***************************************************************************)
EXTENDS ContextStore, FlowFiles, AdminApi, EditorComms, ClusterFlows, Plugins, FlowLoading

VARIABLE subject

MCPartFlows == {<<"f", "g">>, <<"g">>}

---------------------------------------------------------------------------
(* The elements of a flows file and the entries of an environment.         *)

Element(id, type, of, z, wires, links) ==
    [id |-> <<id>>, type |-> type, of |-> <<of>>, z |-> <<z>>, g |-> NoId,
     wires |-> {<<x>> : x \in wires}, links |-> {<<x>> : x \in links}, ports |-> {}, env |-> <<>>]

MCLdPool ==
    {Element("t", "tab", "none", "none", {}, {}), Element("u", "tab", "none", "none", {}, {}),
     Element("s", "subflow", "none", "none", {}, {}),
     Element("i", "instance", "s", "t", {}, {}), Element("j", "instance", "s", "t", {}, {}),
     Element("a", "node", "none", "t", {"b"}, {}), Element("b", "node", "none", "t", {"o"}, {}),
     Element("o", "link out", "none", "t", {}, {"l"}), Element("q", "link call", "none", "t", {}, {"l"}), Element("l", "link in", "none", "u", {}, {}),
     Element("c", "node", "none", "s", {"d"}, {}), Element("d", "node", "none", "s", {}, {}),
     [Element("h", "group", "none", "t", {}, {}) EXCEPT !.g = <<"h2">>],
     Element("h2", "group", "none", "t", {}, {})}

EnvEntry(name, type, value) == [name |-> name, type |-> type, value |-> value]
MCLdEntries ==
    {EnvEntry("A", "str", "1"), EnvEntry("B", "env", "A"), EnvEntry("C", "env", "B"),
     EnvEntry("A", "str", "2"), EnvEntry("C", "str", "3"), EnvEntry("A", "env", "C")}
MCLdNumbers == -1 .. 9

---------------------------------------------------------------------------
allVars == <<subject, ctxVars, ffVars, admVars, edVars, parVars, plugVars, ldVars>>

Subjects == {"context", "files", "admin", "editor", "cluster", "plugins", "loading"}

MCInit ==
    /\ subject \in Subjects
    /\ CtxInit /\ (subject = "context" \/ \A s \in DOMAIN ctxDisk : ctxDisk[s] = CtxAbsent)
    /\ FfInit /\ (subject = "files" \/ (flowFile.nodes = NoFlows /\ flowSecret = "unset"))
    /\ AdmInit /\ (subject = "admin" \/ admLimit = 0)
    /\ EdInit /\ (subject = "editor" \/ edPart = "debug")
    /\ ParInit /\ (subject = "cluster" \/ \A n \in PartNodes : parView[n] = PartNodes)
    /\ PlugInit /\ (subject = "plugins" \/ plugPart = "node")
    /\ LdInit /\ (subject = "loading" \/ ldPart = "env")

ContextTurn == subject = "context" /\ CtxNext
    /\ UNCHANGED <<subject, ffVars, admVars, edVars, parVars, plugVars, ldVars>>
FilesTurn == subject = "files" /\ FfNext
    /\ UNCHANGED <<subject, ctxVars, admVars, edVars, parVars, plugVars, ldVars>>
AdminTurn == subject = "admin" /\ AdmNext
    /\ UNCHANGED <<subject, ctxVars, ffVars, edVars, parVars, plugVars, ldVars>>
EditorTurn == subject = "editor" /\ EdNext
    /\ UNCHANGED <<subject, ctxVars, ffVars, admVars, parVars, plugVars, ldVars>>
ClusterTurn == subject = "cluster" /\ ParNext
    /\ UNCHANGED <<subject, ctxVars, ffVars, admVars, edVars, plugVars, ldVars>>
PluginsTurn == subject = "plugins" /\ PlugNext
    /\ UNCHANGED <<subject, ctxVars, ffVars, admVars, edVars, parVars, ldVars>>
LoadingTurn == subject = "loading" /\ LdNext
    /\ UNCHANGED <<subject, ctxVars, ffVars, admVars, edVars, parVars, plugVars>>

MCNext ==
    \/ ContextTurn \/ FilesTurn \/ AdminTurn \/ EditorTurn
    \/ ClusterTurn \/ PluginsTurn \/ LoadingTurn

MCSpec == MCInit /\ [][MCNext]_allVars
=============================================================================
