------------------------------- MODULE Nodes -------------------------------
(***************************************************************************)
(* Deleting nodes and editing their relations: removeNode, removeRelation, *)
(* addRelation, editNodeRelations and delNodeById of                       *)
(* lib/services/nodes-api-service.js.                                      *)
(*                                                                         *)
(* The program is one JavaScript thread: code between two awaited promises *)
(* runs without interruption, and any number of REST requests interleave   *)
(* at the awaits.  One action is one awaited call together with the        *)
(* synchronous code that runs when it settles.  removeNode and             *)
(* removeRelation call themselves, so a request is a tree of calls: a call *)
(* is identified by its request and the path of nodes that leads to it.    *)
(***************************************************************************)
EXTENDS NodeRelations, FiniteSets

CONSTANTS
    Request,        \* identifiers of the REST requests
    Op,             \* [Request -> what is asked]: see Operation
    InitialDb,      \* the node collections the service may start with
    InitialActive,  \* the sets of nodes that may have an active workflow
    MayStart,       \* nodes a workflow may start or finish on meanwhile
    Collections,    \* which of lookups, catalogs, workitems are kept
    MaxInFlight,    \* how many requests are served at the same time
    Faults          \* which awaited calls may fail: find, check, write, destroy, publish

\* DELETE /nodes/:id, PUT /nodes/:id/relations, DELETE /nodes/:id/relations.
\* "body" maps relation types to the target ids of the request.
Operation == [kind : {"delete", "link", "unlink"}, node : Node]

ASSUME OpAssumption ==
    /\ \A r \in Request : [kind |-> Op[r].kind, node |-> Op[r].node] \in Operation
    /\ \A r \in Request : Op[r].kind # "delete" =>
          \A t \in DOMAIN Op[r].body : Op[r].body[t] \in Seq(Node)
    /\ MaxInFlight \in Nat \ {0}
    /\ Collections \subseteq {"lookups", "catalogs", "workitems"}
    /\ \A d \in InitialDb : DOMAIN d \subseteq Node /\ \A n \in DOMAIN d : d[n] \in Relations
    /\ \A s \in InitialActive : s \subseteq Node

VARIABLES
    db,         \* the nodes collection: [stored node -> its relations]
    docs,       \* documents of the other collections that name a node
    active,     \* nodes whose findActiveGraphForTarget answers a graph
    phase,      \* [Request -> how far the request is]
    parent,     \* [Request -> relations of the edited node as first read]
    removals,   \* the calls of removeNode: [call id -> its record]
    unlinks,    \* the calls of removeRelation that wait for the datastore
    adds,       \* the calls of addRelation that wait for the datastore
    announced   \* [Node -> number of 'removed' events published for it]

vars == <<db, docs, active, phase, parent, removals, unlinks, adds, announced>>

CallId == [req : Request, path : Seq(Node)]
Root(r) == [req |-> r, path |-> <<Op[r].node>>]
Edit(r) == [req |-> r, path |-> <<>>]
Child(k, m) == [req |-> k.req, path |-> Append(k.path, m)]
NodeOf(k) == Last(k.path)

\* Mutation: a rejection is not handled.
OpenUnlessDone(k) == removals[k].stage # "done"

\* A call is open until its promise settles; a branch of a rejected call still
\* runs to its end.
Open(k) == removals[k].stage \notin {"done", "failed"}
Pending(k) == \/ Open(k)
              \/ \E t \in DOMAIN removals[k].branch :
                    removals[k].branch[t].at \in {"find", "validate"}

\* Mutation: catalogs are forgotten.
ClearedWithoutCatalogs == (Collections \ {"catalogs"}) \cup {"nodes"}

\* The collections removeNode clears, the nodes collection among them.
Cleared == Collections \cup {"nodes"}

\* A request is in flight while the client waits, and also while calls it made
\* are still pending: a rejected Promise.map does not stop its other branches.
InFlight(r) ==
    \/ phase[r] \in {"targets", "running"}
    \/ \E k \in DOMAIN removals : k.req = r /\ Pending(k)
    \/ \E u \in unlinks : u.by.req = r
    \/ \E a \in adds : a.by.req = r

Quiet == \A r \in Request : ~InFlight(r)

Init ==
    /\ db \in InitialDb
    /\ docs = Collections \X DOMAIN db
    /\ active \in InitialActive
    /\ phase = [r \in Request |-> "idle"]
    /\ parent = [r \in Request |-> <<>>]
    /\ removals = <<>>
    /\ unlinks = {}
    /\ adds = {}
    /\ announced = [n \in Node |-> 0]

-----------------------------------------------------------------------------
(* removeNode                                                              *)

\* The record of a call removeNode(node, srcType) when it is made.
NewRemoval(rels, src) ==
    [stage |-> "check", rels |-> rels, src |-> src, branch |-> <<>>, left |-> Cleared]

\* The synchronous part of removeRelation(node, type, targets) on the document
\* "rels": the set holding the datastore call it makes, or nothing.
StartUnlink(by, n, rels, t, targets) ==
    LET i == IndexOf(rels, t) IN
    IF i = 0 THEN {}
    ELSE {[by |-> by, node |-> n, type |-> t, targets |-> targets, index |-> i,
           stage |-> IF rels[i].targets = <<>> THEN "blank" ELSE "pull"]}

\* The relations of the call's node, but for the one the call came along.
Types(k) ==
    {removals[k].rels[i].relationType : i \in DOMAIN removals[k].rels}
        \cap (RelationType \ {removals[k].src})

\* Mutation: findActiveGraphForTarget is not asked.
CheckActiveSkipped(k) ==
    /\ removals[k].stage = "check"
    /\ removals' = [removals EXCEPT
                      ![k].stage = "branches",
                      ![k].branch = [t \in Types(k) |-> [at |-> "find", found |-> <<>>]]]
    /\ UNCHANGED <<db, docs, active, phase, parent, unlinks, adds, announced>>

\* _delValidityCheck of the node itself; then every relation starts its branch.  The
\* workflow engine may also not answer, which rejects the call as a workflow does.
CheckActive(k) ==
    /\ removals[k].stage = "check"
    /\ \/ /\ NodeOf(k) \in active \/ "check" \in Faults
          /\ removals' = [removals EXCEPT ![k].stage = "failed"]
       \/ /\ NodeOf(k) \notin active
          /\ removals' = [removals EXCEPT
                            ![k].stage = "branches",
                            ![k].branch = [t \in Types(k) |-> [at |-> "find", found |-> <<>>]]]
    /\ UNCHANGED <<db, docs, active, phase, parent, unlinks, adds, announced>>

\* _findTargetNodes: all the targets as they are stored now, or none of them when
\* a single one cannot be read.  A target that is a document is no identifier.
FindTargets(k, t) ==
    /\ removals[k].stage \in {"branches", "failed"}
    /\ t \in DOMAIN removals[k].branch
    /\ removals[k].branch[t].at = "find"
    /\ LET wanted == ToSet(removals[k].rels[IndexOf(removals[k].rels, t)].targets)
           all    == [m \in wanted |-> db[m]]
       IN  \E found \in (IF wanted \subseteq DOMAIN db THEN {all} ELSE {<<>>})
                          \cup (IF "find" \in Faults THEN {<<>>} ELSE {}) :
             /\ removals' = [removals EXCEPT ![k].branch[t] =
                               [at    |-> IF Cascades(t) THEN "validate" ELSE "calls",
                                found |-> found]]
             /\ unlinks' = unlinks \cup
                  IF Cascades(t) THEN {}
                  ELSE UNION {StartUnlink(k, m, found[m], NodeRelations[t].mapping, {NodeOf(k)})
                                : m \in DOMAIN found}
    /\ UNCHANGED <<db, docs, active, phase, parent, adds, announced>>

\* _delValidityCheck of every component, then removeNode of every component.
ValidateTargets(k, t) ==
    /\ removals[k].stage \in {"branches", "failed"}
    /\ t \in DOMAIN removals[k].branch /\ Cascades(t)
    /\ removals[k].branch[t].at = "validate"
    /\ LET found == removals[k].branch[t].found
           calls == {Child(k, m) : m \in DOMAIN found}
       IN  \/ /\ \/ DOMAIN found \cap active # {}
                 \/ found # <<>> /\ "check" \in Faults
              /\ removals' = [removals EXCEPT ![k].stage = "failed",
                                              ![k].branch[t] = [at |-> "calls", found |-> <<>>]]
           \/ /\ DOMAIN found \cap active = {}
              /\ removals' = [c \in DOMAIN removals \cup calls |->
                                IF c \in calls
                                THEN NewRemoval(found[NodeOf(c)], NodeRelations[t].mapping)
                                ELSE IF c = k
                                     THEN [removals[k] EXCEPT !.branch[t].at = "calls"]
                                     ELSE removals[c]]
    /\ UNCHANGED <<db, docs, active, phase, parent, unlinks, adds, announced>>

\* Mutation: the calls for the components are made but not awaited.
BranchDoneUnawaited(k, t) == removals[k].branch[t].at = "calls"

\* The calls made for relation type t have all been resolved.
BranchDone(k, t) ==
    LET b == removals[k].branch[t] IN
    /\ b.at = "calls"
    /\ Cascades(t) => \A m \in DOMAIN b.found : removals[Child(k, m)].stage = "done"
    /\ ~\E u \in unlinks : u.by = k /\ NodeRelations[t].mapping = u.type

BranchesDone(k) == \A t \in DOMAIN removals[k].branch : BranchDone(k, t)

\* A rejected component rejects the Promise.map of its enclosure.
ComponentFailed(k) ==
    /\ removals[k].stage = "branches"
    /\ \E t \in DOMAIN removals[k].branch : \E m \in DOMAIN removals[k].branch[t].found :
         /\ Cascades(t)
         /\ removals[k].branch[t].at = "calls"
         /\ removals[Child(k, m)].stage = "failed"
    /\ removals' = [removals EXCEPT ![k].stage = "failed"]
    /\ UNCHANGED <<db, docs, active, phase, parent, unlinks, adds, announced>>

\* Promise.settle: the four collections are cleared independently, and a
\* failure of any of them is swallowed.
Destroy(k, c) ==
    /\ \/ removals[k].stage = "branches" /\ BranchesDone(k)
       \/ removals[k].stage = "destroy"
    /\ c \in removals[k].left
    /\ removals' = [removals EXCEPT
                      ![k].left = @ \ {c},
                      ![k].stage = IF removals[k].left = {c} THEN "publish" ELSE "destroy"]
    /\ \/ /\ db' = IF c = "nodes" THEN [n \in DOMAIN db \ {NodeOf(k)} |-> db[n]] ELSE db
          /\ docs' = docs \ {<<c, NodeOf(k)>>}
       \/ "destroy" \in Faults /\ UNCHANGED <<db, docs>>
    /\ UNCHANGED <<active, phase, parent, unlinks, adds, announced>>

\* Mutation: only the node the client named is announced.
PublishRootOnly(k) ==
    /\ removals[k].stage = "publish"
    /\ removals' = [removals EXCEPT ![k].stage = "done"]
    /\ announced' = IF removals[k].src = "none"
                    THEN [announced EXCEPT ![NodeOf(k)] = @ + 1] ELSE announced
    /\ UNCHANGED <<db, docs, active, phase, parent, unlinks, adds>>

\* publishNodeEvent(node, 'removed').
Publish(k) ==
    /\ removals[k].stage = "publish"
    /\ \/ /\ removals' = [removals EXCEPT ![k].stage = "done"]
          /\ announced' = [announced EXCEPT ![NodeOf(k)] = @ + 1]
       \/ /\ "publish" \in Faults
          /\ removals' = [removals EXCEPT ![k].stage = "failed"]
          /\ UNCHANGED announced
    /\ UNCHANGED <<db, docs, active, phase, parent, unlinks, adds>>

-----------------------------------------------------------------------------
(* removeRelation                                                          *)

\* The targets are pulled at the position found in the caller's copy of the
\* document; then removeRelation runs again, without targets, on the document
\* the datastore returned.
PullFromRelation(u) ==
    /\ u.stage = "pull"
    /\ LET now   == PullTargets(db[u.node], u.index, u.targets)
           i     == IndexOf(now, u.type)
           again == IF i # 0 /\ now[i].targets = <<>>
                    THEN {[u EXCEPT !.stage = "blank", !.index = i]} ELSE {}
       IN  IF u.node \in DOMAIN db
           THEN /\ db' = [db EXCEPT ![u.node] = now]
                /\ unlinks' = (unlinks \ {u}) \cup again
           ELSE /\ unlinks' = unlinks \ {u}
                /\ UNCHANGED db
    /\ UNCHANGED <<docs, active, phase, parent, removals, adds, announced>>

\* A relation item without targets is dropped from the document.
DropBlankRelation(u) ==
    /\ u.stage = "blank"
    /\ db' = IF u.node \in DOMAIN db
             THEN [db EXCEPT ![u.node] = PullBlank(@, u.type)] ELSE db
    /\ unlinks' = unlinks \ {u}
    /\ UNCHANGED <<docs, active, phase, parent, removals, adds, announced>>

Reject(r) == phase' = [phase EXCEPT ![r] = IF @ = "running" THEN "error" ELSE @]

\* The datastore refuses either write: the call of removeNode is rejected that was made
\* with it, whose other branches go on; or the request to edit relations is.
UnlinkFails(u) ==
    /\ "write" \in Faults
    /\ unlinks' = unlinks \ {u}
    /\ IF u.by = Edit(u.by.req) THEN Reject(u.by.req) /\ UNCHANGED removals
       ELSE /\ removals' = [removals EXCEPT ![u.by].stage = IF @ = "branches" THEN "failed" ELSE @]
            /\ UNCHANGED phase
    /\ UNCHANGED <<db, docs, active, parent, adds, announced>>

-----------------------------------------------------------------------------
(* addRelation                                                             *)

\* Mutation: the new targets are not counted.
RefusesCountsStored(a, item) == a.type = "containedBy" /\ Len(item.targets) > 1

\* "Node can only be contained by one node".
Refuses(a, item) == a.type = "containedBy" /\ Len(item.targets) + Len(a.targets) > 1

\* Mutation: the caller's copy is extended, not the stored document.
EnsuredInCopy(a) == PushItem(a.rels, a.type)

\* The document of the call's node with an item of the call's type.
Ensured(a) == PushItem(db[a.node], a.type)

\* The blank item is ensured; the document to go on with is the one the
\* datastore returns, or the caller's copy when nothing had to be added.  The
\* checks that follow read that document.  The targets are documents here (see
\* CallHandlers), so "targetNode === node.id" never holds.
EnsureRelation(a) ==
    /\ a.stage = "item"
    /\ LET stored   == a.node \in DOMAIN db
           fresh    == stored /\ IndexOf(db[a.node], a.type) = 0
           modified == IF fresh THEN Ensured(a) ELSE a.rels
           i        == IndexOf(modified, a.type)
           refused  == i = 0 \/ Refuses(a, modified[i])
       IN  /\ db' = IF fresh THEN [db EXCEPT ![a.node] = modified] ELSE db
           /\ IF refused
              THEN /\ adds' = adds \ {a}
                   /\ Reject(a.by.req)
              ELSE /\ adds' = (adds \ {a}) \cup
                        {[a EXCEPT !.stage = IF a.type = "enclosedBy" THEN "replace" ELSE "push",
                                   !.rels = modified, !.index = i]}
                   /\ UNCHANGED phase
    /\ UNCHANGED <<docs, active, parent, removals, unlinks, announced>>

\* "Compute node can only have one enclosure target": the first target of the
\* document just read is pulled before the new ones are pushed.
ReplaceEnclosure(a) ==
    /\ a.stage = "replace"
    /\ LET old == a.rels[a.index].targets
           first == IF old = <<>> THEN {} ELSE {Head(old)}
       IN  db' = IF a.node \in DOMAIN db
                 THEN [db EXCEPT ![a.node] = PullTargets(@, a.index, first)] ELSE db
    /\ adds' = (adds \ {a}) \cup {[a EXCEPT !.stage = "push"]}
    /\ UNCHANGED <<docs, active, phase, parent, removals, unlinks, announced>>

\* The new targets are pushed at the position found above.
PushToRelation(a) ==
    /\ a.stage = "push"
    /\ adds' = adds \ {a}
    /\ IF a.node \in DOMAIN db /\ a.index \in DOMAIN db[a.node]
       THEN /\ db' = [db EXCEPT ![a.node] = PushTargets(@, a.index, a.targets)]
            /\ UNCHANGED phase
       ELSE Reject(a.by.req) /\ UNCHANGED db
    /\ UNCHANGED <<docs, active, parent, removals, unlinks, announced>>

\* The datastore refuses any of the three writes.
AddFails(a) ==
    /\ "write" \in Faults
    /\ adds' = adds \ {a}
    /\ Reject(a.by.req)
    /\ UNCHANGED <<db, docs, active, parent, removals, unlinks, announced>>

-----------------------------------------------------------------------------
(* The REST handlers                                                       *)

\* delNodeById and editNodeRelations begin with needByIdentifier.
Receive(r) ==
    /\ phase[r] = "idle"
    /\ Cardinality({q \in Request : InFlight(q)}) < MaxInFlight
    /\ LET n == Op[r].node IN
       \/ /\ n \notin DOMAIN db
          /\ phase' = [phase EXCEPT ![r] = "error"]
          /\ UNCHANGED <<parent, removals>>
       \/ /\ n \in DOMAIN db
          /\ Op[r].kind = "delete"
          /\ phase' = [phase EXCEPT ![r] = "running"]
          /\ removals' = [k \in DOMAIN removals \cup {Root(r)} |->
                            IF k = Root(r) THEN NewRemoval(db[n], "none") ELSE removals[k]]
          /\ UNCHANGED parent
       \/ /\ n \in DOMAIN db
          /\ Op[r].kind # "delete"
          /\ phase' = [phase EXCEPT ![r] = "targets"]
          /\ parent' = [parent EXCEPT ![r] = db[n]]
          /\ UNCHANGED removals
    /\ UNCHANGED <<db, docs, active, unlinks, adds, announced>>

\* Mutation: a missing return, the documents are read and dropped.
NeedTargetNodesUnreturned(ids) == [i \in DOMAIN ids |-> AsDocument("undefined")]

\* What _needTargetNodes resolves to for a list of ids: the documents.
NeedTargetNodes(ids) == [i \in DOMAIN ids |-> AsDocument(ids[i])]

\* editNodeRelations reads every target, refuses when one is missing, and then
\* calls the handler with the documents once per known relation type of the body.
\* removeRelation takes the id of a document, addRelation the document.
CallHandlers(r) ==
    /\ phase[r] = "targets"
    /\ LET body   == Op[r].body
           n      == Op[r].node
           wanted == UNION {ToSet(body[t]) : t \in DOMAIN body}
           known  == DOMAIN body \cap RelationType
       IN  \/ /\ ~(wanted \subseteq DOMAIN db)
              /\ phase' = [phase EXCEPT ![r] = "error"]
              /\ UNCHANGED <<unlinks, adds>>
           \/ /\ wanted \subseteq DOMAIN db
              /\ phase' = [phase EXCEPT ![r] = "running"]
              /\ IF Op[r].kind = "link"
                 THEN /\ adds' = adds \cup
                           {[by |-> Edit(r), node |-> n, rels |-> parent[r], type |-> t,
                             targets |-> NeedTargetNodes(body[t]), index |-> 0, stage |-> "item"] :
                                t \in known}
                      /\ UNCHANGED unlinks
                 ELSE /\ unlinks' = unlinks \cup
                           UNION {StartUnlink(Edit(r), n, parent[r], t, ToSet(body[t])) : t \in known}
                      /\ UNCHANGED adds
    /\ UNCHANGED <<db, docs, active, parent, removals, announced>>

\* The response: of a deletion when its root call settles, of an edit when no
\* handler is pending.
Answer(r) ==
    /\ phase[r] = "running"
    /\ \/ /\ Op[r].kind = "delete"
          /\ ~Open(Root(r))
          /\ phase' = [phase EXCEPT ![r] = IF removals[Root(r)].stage = "done"
                                           THEN "ok" ELSE "error"]
       \/ /\ Op[r].kind # "delete"
          /\ ~\E c \in unlinks \cup adds : c.by = Edit(r)
          /\ phase' = [phase EXCEPT ![r] = "ok"]
    /\ UNCHANGED <<db, docs, active, parent, removals, unlinks, adds, announced>>

-----------------------------------------------------------------------------
(* The task graph runner starts and ends workflows on its own.             *)

StartWorkflow(n) ==
    /\ n \in MayStart /\ n \in DOMAIN db /\ n \notin active
    /\ active' = active \cup {n}
    /\ UNCHANGED <<db, docs, phase, parent, removals, unlinks, adds, announced>>

FinishWorkflow(n) ==
    /\ n \in MayStart /\ n \in active
    /\ active' = active \ {n}
    /\ UNCHANGED <<db, docs, phase, parent, removals, unlinks, adds, announced>>

-----------------------------------------------------------------------------
RemoveNode(k) ==
    \/ CheckActive(k)
    \/ \E t \in RelationType : FindTargets(k, t) \/ ValidateTargets(k, t)
    \/ ComponentFailed(k)
    \/ \E c \in Cleared : Destroy(k, c)
    \/ Publish(k)

\* Everything the service itself does once requests have been received.
Serve ==
    \/ \E k \in DOMAIN removals : RemoveNode(k)
    \/ \E u \in unlinks : PullFromRelation(u) \/ DropBlankRelation(u) \/ UnlinkFails(u)
    \/ \E a \in adds : EnsureRelation(a) \/ ReplaceEnclosure(a) \/ PushToRelation(a) \/ AddFails(a)
    \/ \E r \in Request : CallHandlers(r) \/ Answer(r)

Next ==
    \/ Serve
    \/ \E r \in Request : Receive(r)
    \/ \E n \in Node : StartWorkflow(n) \/ FinishWorkflow(n)

Spec == Init /\ [][Next]_vars

\* Every datastore and messenger call settles, and a settled promise runs its
\* continuation; requests and workflows come when they like.
FairSpec == Spec /\ WF_vars(Serve)

-----------------------------------------------------------------------------
(* Properties                                                              *)

Call == [stage : {"check", "branches", "destroy", "publish", "done", "failed"},
         rels : Relations, src : RelationType \cup {"none"},
         left : SUBSET Cleared]

\* Type correctness of everything the handlers keep across an await.
TypeOK ==
    /\ DOMAIN db \subseteq Node
    /\ \A n \in DOMAIN db : db[n] \in Relations
    /\ docs \subseteq Collections \X Node
    /\ active \subseteq Node
    /\ phase \in [Request -> {"idle", "targets", "running", "ok", "error"}]
    /\ \A r \in Request : parent[r] \in Relations
    /\ DOMAIN removals \subseteq CallId
    /\ \A k \in DOMAIN removals :
         /\ k.path # <<>>
         /\ [f \in DOMAIN removals[k] \ {"branch"} |-> removals[k][f]] \in Call
         /\ DOMAIN removals[k].branch \subseteq RelationType
         /\ \A t \in DOMAIN removals[k].branch :
              /\ removals[k].branch[t].at \in {"find", "validate", "calls"}
              /\ DOMAIN removals[k].branch[t].found \subseteq Node
    /\ \A u \in unlinks : u.by \in CallId /\ u.node \in Node /\ u.stage \in {"pull", "blank"}
    /\ \A a \in adds : a.by \in CallId /\ a.node \in Node
    /\ announced \in [Node -> Nat]

\* A node is never destroyed while a workflow runs on it: _delValidityCheck
\* ("If there is active workflow, the node cannot be deleted") is made for the
\* node itself and, ahead of the cascade, for each of its components.
ActiveNodeSurvives ==
    [][\A n \in DOMAIN db \ DOMAIN db' : n \notin active]_vars

\* The cascade works bottom up: when removeNode starts to destroy the documents
\* of a node, every component it found for the node is already gone.
ComponentsGoFirst ==
    \A k \in DOMAIN removals :
        removals[k].stage \in {"destroy", "publish", "done"} =>
            \A t \in DOMAIN removals[k].branch :
                Cascades(t) => DOMAIN removals[k].branch[t].found \cap DOMAIN db = {}

\* Whether a client has edited the relations of node n.
Edited(n) == \E r \in Request : Op[r].kind # "delete" /\ Op[r].node = n /\ phase[r] # "idle"

\* Whether a deletion of the stored node n is under way, or was given up.
Abandoned(n) == \E k \in DOMAIN removals : NodeOf(k) = n

\* removeNode removes the node's "relations with other nodes": at no time has a
\* stored node the id of a node that is not stored.  Excepted is a node whose own
\* deletion has begun: it withdraws its id elsewhere before theirs, and may be
\* rejected half way.  A node whose relations a client has edited may leave its id
\* behind when it is removed; a list with such an id cannot be followed any more, so
\* that other deletions leave theirs, and the property says nothing from then on.
ReferencesLive ==
    (\A m \in Node \ DOMAIN db : ~Edited(m)) =>
        \A n \in DOMAIN db : \A m \in References(db[n]) \ DOMAIN db : Abandoned(n)

\* The documents of the other collections go with the node: none is left over
\* once the 'removed' event of the node has been published.
NoDocumentOutlivesEvent ==
    \A n \in Node : announced[n] > 0 => ~\E c \in Collections : <<c, n>> \in docs

\* "Node can only be contained by one node."
SingleContainer ==
    \A n \in DOMAIN db : Cardinality(TargetsOf(db[n], "containedBy")) <= 1

\* A link the service has acknowledged is not lost to a concurrent PUT on the
\* same node (the service edits lists in place and never writes back a copy).
AckedLinksKept ==
    \A r \in Request :
        phase[r] = "ok" /\ Op[r].kind = "link" =>
            \A t \in DOMAIN Op[r].body \cap RelationType :
                ToSet(Op[r].body[t]) \subseteq Listed(db[Op[r].node], t)

\* DELETE /nodes/:id/relations: "The nodes given relation types will be updated to
\* remove the nodes given by id".
UnlinkTakesEffect ==
    [][\A r \in Request :
         Op[r].kind = "unlink" /\ phase[r] = "running" /\ phase'[r] = "ok" =>
            \A t \in DOMAIN Op[r].body \cap RelationType :
                ToSet(Op[r].body[t]) \cap Listed(db'[Op[r].node], t) = {}]_vars

\* Every request that is taken up is answered.
RequestsAnswered ==
    \A r \in Request : phase[r] \in {"targets", "running"} ~> phase[r] \in {"ok", "error"}

\* Every destroyed node is announced, also when the deletion that reached it is
\* rejected because of another branch of the cascade.
DestroyedAnnounced ==
    \A n \in Node :
        (\E k \in DOMAIN removals : NodeOf(k) = n /\ removals[k].stage = "destroy")
            ~> announced[n] > 0

=============================================================================
