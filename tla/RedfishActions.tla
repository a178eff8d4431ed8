--------------------------- MODULE RedfishActions ---------------------------
(***************************************************************************)
(* The operations that make a workflow run: the actions of the Redfish     *)
(* tree (systems.js, update-service.js), the creation of a node with       *)
(* automatic discovery and of a tag, and the cancellation of a node's      *)
(* active workflow.  A handler looks at the node and its catalogs, and     *)
(* then calls the engine; nodes and catalogs change while it does.         *)
(***************************************************************************)
EXTENDS Taskgraph

CONSTANTS
    Request,        \* records [op, node, at, ok, targets], see below
    Node,
    NoNode,         \* what a graph belongs to that is started for no node
    Dell,           \* the nodes with a Dell identifier
    Catalog         \* contents a hardware catalog may have: [volumes, drives], how many

\* at: the positions of volumes and drives a request names; ok: whether its payload has
\* a form the handler accepts; targets: the nodes of a firmware update in the order of
\* the payload, and of a node that is created, itself if it is to be discovered.
ASSUME RequestAssumption ==
    /\ NoNode \notin Node /\ Dell \subseteq Node
    /\ \A c \in Catalog : c.volumes \in Nat /\ c.drives \in Nat
    /\ \A r \in Request :
           /\ r.op \in {"reset", "boot", "deleteVolume", "addVolume", "addHotspare", "bios", "password",
                        "firmware", "postNode", "postMgmt", "createTag", "cancel"}
           /\ r.node \in Node /\ r.ok \in BOOLEAN /\ r.targets \in Seq(Node)
           /\ r.op = "firmware" => r.targets # <<>>
           /\ r.at.volumes \subseteq Nat /\ r.at.drives \subseteq Nat

VARIABLES
    nodes,          \* the nodes stored
    hardware,       \* the latest hardware catalog of each Dell node: {} or the set of one
    tags,           \* the tags stored
    step,           \* of each request: unsent, new, ready (the call is next), found, tagged or done
    todo,           \* what a firmware update has still to do: <<position of the target, look or call>>
    answer          \* [status, task, lost] of each request

avars == <<nodes, hardware, tags, step, todo, answer>>

Unanswered == [status |-> "none", task |-> Failed, lost |-> FALSE]

Creates(r) == r.op \in {"postNode", "postMgmt"}

ActionsInit(sent) ==
    /\ TaskgraphInit
    /\ nodes = Node \ {r.node : r \in {q \in Request : Creates(q)}}
    /\ hardware \in [Dell -> {{}} \cup {{c} : c \in Catalog}]
    /\ tags = {}
    /\ step = [r \in Request |-> IF r \in sent THEN "new" ELSE "unsent"]
    /\ todo = [r \in Request |-> {}]
    /\ answer = [r \in Request |-> Unanswered]

Answer(r, status) ==
    /\ step' = [step EXCEPT ![r] = "done"]
    /\ answer' = [answer EXCEPT ![r].status = status]

\* The lookups of a handler: an error ends it, otherwise it goes on to call the engine.
LookUp(r, found) ==
    /\ step[r] = "new"
    /\ IF found THEN /\ step' = [step EXCEPT ![r] = "ready"]
                     /\ todo' = [todo EXCEPT ![r] = {<<t, "look">> : t \in DOMAIN r.targets}]
                     /\ UNCHANGED answer
       ELSE Answer(r, "error") /\ UNCHANGED todo

\* The graphs of a tag, and of the discovery of a management board, are started for
\* no node: the node is among their options.
Owner(r) == IF r.op \in {"createTag", "postMgmt"} THEN NoNode ELSE r.node

\* Mutation: the answer does not wait for the engine's.
LaunchUnseen(r) ==
    /\ r.op \notin {"firmware", "cancel"}
    /\ step[r] = IF r.op = "createTag" THEN "found" ELSE "ready"
    /\ \E end \in createAndRunGraph(r, Owner(r)) :
           /\ workflows' = end.after
           /\ answer' = [answer EXCEPT ![r] = [status |-> "accepted", task |-> end.reply, lost |-> end.lost]]
    /\ step' = [step EXCEPT ![r] = "done"]
    /\ UNCHANGED <<registered, nodes, hardware, tags, todo>>

\* The call, and the answer with the address of the task; a tag is read again first.
Launch(r) ==
    /\ r.op \notin {"firmware", "cancel"}
    /\ step[r] = IF r.op = "createTag" THEN "found" ELSE "ready"
    /\ \E end \in createAndRunGraph(r, Owner(r)) :
           /\ workflows' = end.after
           /\ answer' = [answer EXCEPT ![r] =
                  [status |-> IF end.reply = Failed THEN "error"
                              ELSE IF r.op = "createTag" THEN "none" ELSE "accepted",
                   task |-> end.reply, lost |-> end.lost]]
           /\ step' = [step EXCEPT ![r] =
                  IF r.op = "createTag" /\ end.reply # Failed THEN "tagged" ELSE "done"]
    /\ UNCHANGED <<registered, nodes, hardware, tags, todo>>

Looks(r, op) == r.op = op /\ UNCHANGED <<gvars, nodes, hardware, tags>>

\* isDellSystem, and the latest catalog
Cataloged(n) == n \in nodes \cap Dell /\ hardware[n] # {}

In(position, n, kind) == \A c \in hardware[n] : position \subseteq 1 .. c[kind]

--------------------------------------------------------------------------
(* systems.js                                                             *)

doReset(r) == Looks(r, "reset") /\ LookUp(r, r.node \in nodes /\ r.ok)

\* Whether there is such a node is for the engine to find out.
doBootImage(r) == Looks(r, "boot") /\ LookUp(r, r.ok)

\* What a position stands for is looked up in the catalog that is the latest now, not
\* in the one whose page the client holds.
deleteVolume(r) ==
    /\ Looks(r, "deleteVolume")
    /\ LookUp(r, Cataloged(r.node) /\ In(r.at.volumes, r.node, "volumes"))

addVolume(r) ==
    /\ Looks(r, "addVolume")
    /\ LookUp(r, /\ Cataloged(r.node) /\ r.ok /\ r.at.drives # {}
                 /\ In(r.at.drives, r.node, "drives"))

\* A volume is named for a dedicated spare only.
addHotspare(r) ==
    /\ Looks(r, "addHotspare")
    /\ LookUp(r, /\ Cataloged(r.node)
                 /\ In(r.at.drives, r.node, "drives")
                 /\ In(r.at.volumes, r.node, "volumes"))

\* patchSystemBiosSettings and resetSystemBios have no condition on the payload.
setSystemBios(r) == Looks(r, "bios") /\ LookUp(r, Cataloged(r.node))

changeSystemBiosPassword(r) == Looks(r, "password") /\ LookUp(r, Cataloged(r.node) /\ r.ok)

--------------------------------------------------------------------------
(* update-service.js: one workflow for each target, all at the same time. *)

updateFirmware(r) == Looks(r, "firmware") /\ LookUp(r, TRUE)

\* getNodeById
LookTarget(r, t) ==
    /\ r.op = "firmware" /\ step[r] = "ready" /\ <<t, "look">> \in todo[r]
    /\ todo' = [todo EXCEPT ![r] = (@ \ {<<t, "look">>})
                   \cup IF r.targets[t] \in nodes THEN {<<t, "call">>} ELSE {}]
    /\ UNCHANGED <<gvars, nodes, hardware, tags, step, answer>>

\* The first graph that runs sends the answer; what fails is collected.
Collected(a, end) ==
    IF end.reply # Failed /\ a.status = "none"
    THEN [a EXCEPT !.status = "accepted", !.task = end.reply]
    ELSE [a EXCEPT !.lost = a.lost \/ end.lost]

UpdateTarget(r, t) ==
    /\ r.op = "firmware" /\ step[r] = "ready" /\ <<t, "call">> \in todo[r]
    /\ \E end \in createAndRunGraph(r, r.targets[t]) :
           /\ workflows' = end.after
           /\ answer' = [answer EXCEPT ![r] = Collected(@, end)]
    /\ todo' = [todo EXCEPT ![r] = @ \ {<<t, "call">>}]
    /\ UNCHANGED <<registered, nodes, hardware, tags, step>>

\* The errors are reported when nothing has been sent.
FinishUpdate(r) ==
    /\ step[r] = "ready" /\ r.op = "firmware" /\ todo[r] = {}
    /\ Answer(r, IF answer[r].status = "accepted" THEN "accepted" ELSE "error")
    /\ UNCHANGED <<gvars, nodes, hardware, tags, todo>>

--------------------------------------------------------------------------
(* The 2.0 interface: nodes-api-service.js and tags.js.                   *)

\* The node stays when one of its settings, or its discovery, fails; r.ok is whether
\* the settings are accepted, targets is empty when it is not to be discovered.
postNode(r) ==
    /\ Creates(r) /\ step[r] = "new"
    /\ nodes' = nodes \cup {r.node}
    /\ IF r.ok /\ r.targets # <<>> THEN step' = [step EXCEPT ![r] = "ready"] /\ UNCHANGED answer
       ELSE Answer(r, IF r.ok THEN "stored" ELSE "error")
    /\ UNCHANGED todo
    /\ UNCHANGED <<gvars, hardware, tags>>

\* The name is looked up, and the tag stored in another call.
createTag(r) == Looks(r, "createTag") /\ LookUp(r, "tag" \notin tags)

\* The tag is stored, and the nodes it is for are all there are.  It stays when these
\* cannot be read, or their workflow not be started.
regenerateTags(r) ==
    /\ r.op = "createTag" /\ step[r] = "ready"
    /\ \/ /\ tags' = tags \cup {"tag"}
          /\ step' = [step EXCEPT ![r] = IF nodes = {} THEN "tagged" ELSE "found"]
          /\ UNCHANGED answer
       \/ Answer(r, "error") /\ tags' \in {tags, tags \cup {"tag"}}
    /\ UNCHANGED <<gvars, nodes, hardware, todo>>

\* The answer is the tag as it is then stored, if it still is and can be read.
GetTag(r) ==
    /\ r.op = "createTag" /\ step[r] = "tagged"
    /\ (tags # {} /\ Answer(r, "stored")) \/ Answer(r, "error")
    /\ UNCHANGED <<gvars, nodes, hardware, tags, todo>>

\* delActiveWorkflowById: three calls one after the other.
FindNode(r) == Looks(r, "cancel") /\ LookUp(r, r.node \in nodes)

FindActive(r) ==
    /\ r.op = "cancel" /\ step[r] = "ready"
    /\ \E i \in findActiveGraphForTarget(r.node) :
           IF i = Failed THEN Answer(r, "error")
           ELSE /\ step' = [step EXCEPT ![r] = "found"]
                /\ answer' = [answer EXCEPT ![r].task = i]
    /\ UNCHANGED <<gvars, nodes, hardware, tags, todo>>

delActiveWorkflowById(r) ==
    /\ r.op = "cancel" /\ step[r] = "found"
    /\ \E end \in cancelTaskGraph(answer[r].task) :
           /\ workflows' = end.after
           /\ answer' = [answer EXCEPT ![r].status = IF end.reply = Failed THEN "error" ELSE "accepted",
                                      ![r].lost = end.lost]
    /\ step' = [step EXCEPT ![r] = "done"]
    /\ UNCHANGED <<registered, nodes, hardware, tags, todo>>

--------------------------------------------------------------------------
(* Others                                                                 *)

\* Requests for another's deletion, of a node (module Nodes shows how it goes on) or of
\* the tag; and a discovery that stores another catalog.
NodeGone ==
    \E n \in nodes :
        /\ nodes' = nodes \ {n}
        /\ UNCHANGED <<gvars, hardware, tags, step, todo, answer>>

destroyTag ==
    /\ tags # {} /\ tags' = {}
    /\ UNCHANGED <<gvars, nodes, hardware, step, todo, answer>>

NewCatalog ==
    \E n \in Dell, c \in Catalog :
        /\ hardware' = [hardware EXCEPT ![n] = {c}]
        /\ UNCHANGED <<gvars, nodes, tags, step, todo, answer>>

Handlers(r) ==
    \/ doReset(r) \/ doBootImage(r) \/ deleteVolume(r) \/ addVolume(r) \/ addHotspare(r)
    \/ setSystemBios(r) \/ changeSystemBiosPassword(r) \/ Launch(r)
    \/ updateFirmware(r) \/ FinishUpdate(r) \/ \E t \in DOMAIN r.targets : LookTarget(r, t) \/ UpdateTarget(r, t)
    \/ postNode(r) \/ createTag(r) \/ regenerateTags(r) \/ GetTag(r)
    \/ FindNode(r) \/ FindActive(r) \/ delActiveWorkflowById(r)

ActionsNext ==
    \/ \E r \in Request : Handlers(r)
    \/ Engine /\ UNCHANGED avars
    \/ NodeGone \/ destroyTag \/ NewCatalog

ActionsSpec ==
    /\ \E sent \in SUBSET Request : ActionsInit(sent)
    /\ [][ActionsNext]_<<gvars, avars>>

--------------------------------------------------------------------------
(* What an answer says of the graphs                                      *)

Done(r) == step[r] = "done"
StartedBy(r) == {i \in DOMAIN workflows : workflows[i].by = r}

\* The graph an accepted request names is the only one it has started, and is its node's.
NamesItsGraph(r) ==
    answer[r].status = "accepted" =>
        StartedBy(r) = {answer[r].task} /\ workflows[answer[r].task].node = Owner(r)

\* A firmware update names one of its graphs; a node gets no more than the times it is
\* a target.
NamesOneGraph(r) ==
    /\ answer[r].status = "accepted" => answer[r].task \in StartedBy(r)
    /\ \A n \in Node : Cardinality({i \in StartedBy(r) : workflows[i].node = n})
                       <= Cardinality({t \in DOMAIN r.targets : r.targets[t] = n})

\* After an error nothing runs, but for a call whose answer was lost.
NothingRuns(r) == answer[r].status # "accepted" /\ ~answer[r].lost => StartedBy(r) = {}

\* The answer with a tag names no graph: the one there is the engine has told of, and
\* an answer of the engine that was lost is never passed over.  An error may stand for
\* a tag that cannot be read any more, after its graph was started.
TellsOfItsTag(r) ==
    /\ answer[r].status = "stored" => ~answer[r].lost
    /\ ~answer[r].lost => StartedBy(r) = {answer[r].task} \ {Failed}
    /\ \A i \in StartedBy(r) : workflows[i].node = NoNode

\* The graph that was cancelled is the one that was looked up, and is the node's.
CancelsWhatItFound(r) ==
    answer[r].status = "accepted" =>
        workflows[answer[r].task].status = "cancelled" /\ workflows[answer[r].task].node = r.node

\* A graph is only cancelled by a request for its node.
OnlyByItsNode ==
    \A i \in DOMAIN workflows : workflows[i].status = "cancelled" =>
        \E r \in Request : r.op = "cancel" /\ Done(r) /\ answer[r].task = i /\ r.node = workflows[i].node

(***************************************************************************)
(* What the client is told is what the engine does, while graphs end, nodes *)
(* go, catalogs are replaced and the scheduler comes and goes: see the six  *)
(* parts above.                                                             *)
(***************************************************************************)
AnswersTellWhatRuns ==
    /\ \A r \in Request : Done(r) =>
          CASE r.op = "cancel" -> CancelsWhatItFound(r) /\ StartedBy(r) = {}
            [] r.op = "firmware" -> NamesOneGraph(r) /\ NothingRuns(r)
            [] r.op = "createTag" -> TellsOfItsTag(r)
            [] OTHER -> NamesItsGraph(r) /\ NothingRuns(r)
    /\ OnlyByItsNode
=============================================================================
