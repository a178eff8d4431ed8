# A verification development for on-http

on-http is the HTTP front end of RackHD: a Node.js process that serves the
RackHD 2.0 and Redfish 1.0 REST interfaces, keeps an inventory of nodes and
their relations in a document database, hands workflows to a task-graph runner,
and relays alerts that arrive over AMQP to HTTP subscribers.

The TLA+ modules here are translated from the source under `src/`. Every
definition that stands for code names its lines in `PROJECT.json` ("map"); the
line numbers in this text refer to the same commit. This document says what the
parts of the system are, which of them are modelled and how, what the model
checker and the proof system establish about them, under which assumptions, and
what is left.

## 1. The system

One process, one JavaScript thread. Code between two awaited promises runs
without interruption; everything else interleaves: any number of REST requests,
the callbacks of AMQP consumers, and whatever a handler calls without waiting
for it. Nothing in the code locks anything. The database, the disk, the broker
and the task-graph runner are shared with other processes and may fail call by
call. So the hazards of this program are stale reads across an await, check then
act in two calls, one write of several failing, calls that are made but not
awaited, and restarts between two writes.

### Inventory

| Component | State it keeps | Operations | Interacts with | What makes it correct |
|---|---|---|---|---|
| Node service (`nodes-api-service.js`) | `nodes` collection with a relations list per node; documents of `lookups`, `catalogs`, `workitems` that name a node | create, patch, delete with cascade, link and unlink relations, tags, OBM settings, start and cancel workflows | database, task-graph runner, AMQP events | relations lead to stored nodes; a node under a workflow is not deleted; deletion is complete and announced; an acknowledged link is there |
| Redfish event service (`redfish-1.0/event-service.js`) | subscriptions and one AMQP listener, in memory | create, list, delete subscriptions; test events; alerts | AMQP, the subscribers' HTTP servers | one listener while there are subscribers; every alert to every subscriber that wants it; bounded retries |
| File service (`file-service.js`, `files/file-plugin.js`) | `files` collection and a directory | upload, download, metadata, delete | database, disk | collection and directory agree; a stored hash is that of the stored file |
| SKU packs (`sku-pack-service.js`) | `skus` collection, a directory per SKU, scope-bound templates, profiles, tasks and graphs, static handlers in memory | create, upsert, patch, delete SKUs; upload, replace, delete packs; start | database, disk, task-graph runner | the four places agree, also after a restart; a pack that is acknowledged is served; a deleted SKU leaves nothing |
| Accounts and roles (`account-api-service.js`) | `localusers` and `roles` collections and an access-control list in memory | create, modify, remove users and roles; start | database, authentication | list and collections agree; names are unique |
| Authentication and sessions (`auth-service.js`, `session-service.js`, `login.js`, `swagger_authn.js`, `swagger_authz.js`) | Redfish sessions in memory; tokens are held by clients | log in, open, list and close sessions, check a token or password, look rights up | accounts | a session that was closed, a token that has expired and a user who was removed stay out |
| HTTP pipeline (`http-service.js`, `swagger-api-service.js`, `rest-api-service.js`, fittings) | listening servers, requests under way | routing, the fittings in order, rendering, errors | every handler | every request is answered, once |
| uPnP service (`upnp-service.js`) | a cache of discovered services with lifetimes; advertising servers and their registry | start, search, answers, expiry, alive and bye, turning an advertisement on or off | SSDP, AMQP, the Redfish manager | `present` and `missing` alternate, and a service that has gone is reported |
| Application (`app.js`, `index.js`) | the list of HTTP services | start in order, stop on SIGINT | every service with a start | no request meets a database that is down; a stop ends the program |
| Redfish views (`systems.js`, `chassis.js`, `managers.js`, `update-service.js`, `dcimpower.js`, ...) | none: they read nodes, relations and the latest catalogs | one page per request, from the catalogs of four vendors | database, WS-Man service | the links of a page lead to pages |
| Redfish actions (`systems.js`, `update-service.js`), cancelling, tags, creating a node | none; nodes, catalogs and tags are in the database | look up, start a workflow, answer with the address of its task | database, task-graph runner | the answer tells what runs |
| Workflows (`taskgraph-api-service.js`, `workflow-api-service.js`, `task-api-service.js`) | a client per call | calls to the task-graph runner | gRPC, consul | a call goes to a registered scheduler |
| Node settings (`obm-api-service.js`, `ibms.js`) | `obms` and `ibms` collections | create, update, remove | database, AMQP events | an event for every node whose settings change |
| Pollers (`pollers-api-service.js`) and paging (`swagger-api-service.js`) | `workitems` collection | create, pause, resume, delete; list page by page | database | the links of a page reach every item |
| Notifications (`notification-api-service.js`) | none | post a notification, turn a controller's alert into an event | database, AMQP | an alert names the right node and part |
| Hooks (`hooks-api-service.js`) | `hooks` collection | create, modify, delete | database | addresses are unique |
| Templates, profiles, schemas, catalogs, lookups, configuration, views, static files, serializables | none of their own | one database, disk or rendering call per request | database, on-core | no state to protect |

`PROJECT.json` lists the same components with their status, and under "hazards"
the lines at which the code is exposed, with the properties that cover each.

## 2. Modules

| Module | Models | Used by |
|---|---|---|
| `NodeRelations` | the relations document of a node and the atomic list operations of the datastore | `Nodes` |
| `Nodes` | `removeNode`, `removeRelation`, `addRelation`, `editNodeRelations`, `delNodeById` | `MCNodes`, `NodesProofs` |
| `NodesProofs` | the inductive invariant of the cascade, types, the list operations, and what deletions leave | `NodeLinksProofs` |
| `NodeLinksProofs` | what links and unlinks leave: one container, links that stay, and no reference to a node that is gone | |
| `EventService` | the Redfish event service | `ObservedEvents` |
| `ObservedEvents` | `EventService` with a monitor (see below), and the property that needs it | `MCEventService`, `ServicesProofs` |
| `ServicesProofs` | types, destinations, retries, what they post, and the listeners of the event service; the safety half of the refinement of `Presence`; the database outlives the requests; the composition does what its parts do | |
| `FileService` | `putFile`, `getFile`, `deleteFile` over the file back end | `ObservedFiles` |
| `ObservedFiles` | `FileService` with a monitor, and its serial properties | `MCFileService`, `FileServiceProofs` |
| `FileServiceProofs` | types, names, temporary files, and the agreement of collection and disk | |
| `SkuPack` | SKUs and packs | `ObservedSkuPack` |
| `ObservedSkuPack` | `SkuPack` with five monitors, and its properties | `MCSkuPack`, `SkuPackProofs` |
| `SkuPackProofs` | the four properties of SKUs and packs | |
| `Accounts` | users, roles and the access control list | `ObservedAccounts` |
| `ObservedAccounts` | `Accounts` with two monitors (see below), and its properties | `MCAccounts`, `ObservedAccountsProofs` |
| `ObservedAccountsProofs` | types, agreement and acknowledgements of the accounts | |
| `RequestService` | what a client may rely on: an accepted request is answered once | refined by `RequestPipeline` |
| `RequestPipeline` | the way of a request through fittings, authentication, handler and renderer; Redfish sessions | `ObservedPipeline` |
| `ObservedPipeline` | `RequestPipeline` with two monitors, and what revoking means | `MCRequestPipeline`, `RequestPipelineProofs` |
| `RequestPipelineProofs` | types, what was revoked stays out, and the safety half of the refinement | |
| `Presence` | what a subscriber to discovery may rely on: alerts alternate and follow the service | refined by `Discovery` |
| `Discovery` | the uPnP service and the network around it | `OnHttp`, `ServicesProofs` |
| `Lifecycle` | start, stop and restart of the program; the HTTP servers and their open requests | `OnHttp`, `ServicesProofs` |
| `OnHttp` | the composition: `Lifecycle` starts `Discovery` and ends it with the process | `MCDiscovery`, `ServicesProofs` |
| `RedfishInventory` | the pages of the Redfish tree as functions of what discovery has stored, and a client that follows their links | `MCRedfish`, `OperationsProofs` |
| `Taskgraph` | the task-graph runner and its registry as seen through the two client services | `RedfishActions` |
| `RedfishActions` | the handlers that start or cancel a workflow | `MCOperations`, `OperationsProofs` |
| `NodeSettings` | changing and removing settings of nodes, and the events about it | `ObservedSettings` |
| `ObservedSettings` | `NodeSettings` with a monitor, and what the events tell | `MCOperations`, `OperationsProofs` |
| `OperationsProofs` | the answers tell what runs; the events tell every change; pages partition a collection; links can be followed | |
| `Pollers` | pollers, and the paging links of any collection | `MCOperations`, `OperationsProofs` |
| `MCOperations` | the last four together, one of them in a behaviour | |
| other `MC...` | instances for TLC, and monitors (see below) | |

Three conventions hold throughout.

*One action is one awaited call together with the synchronous code that runs
when it settles.* That is exactly the grain at which the thread can be taken
away. A request carries what the code keeps in its closures (the document as it
was read, the index found in it, what is left to do).

*Failures are the calls' own.* The constant `Faults` of a module says which kinds
of call may reject; each rejection follows the code's `catch`, or the lack of one.

*Monitors live outside the component's module.* Some properties are only promised to
requests that do not overlap. Instead of a separate serial run, a history variable of an
`Observed...` module that extends the component's (`overlapped`, `shared`, `cut`, `racing`,
`late`, `orphan`, `disturbed`, `changed`) notes whether the condition has ever been broken,
and the property is stated for the behaviours, or the names, for which it has not. The
monitors do not restrict the behaviours. They are part of the statements only, for the model
checker and for the proofs alike.

### Nodes and NodeRelations

| TLA+ | Code |
|---|---|
| `db` | `waterline.nodes`: `[stored node -> sequence of [relationType, targets]]` |
| `docs` | documents of `lookups`, `catalogs`, `workitems` with that node |
| `active` | nodes for which `findActiveGraphForTarget` finds a graph |
| `removals` | the calls of `removeNode` under way, keyed by request and path of nodes, because the function calls itself for every component |
| `unlinks`, `adds` | calls of `removeRelation` and `addRelation` that wait for the datastore, with the document and the *index* they hold |
| `phase`, `parent` | progress of the REST request; the document `editNodeRelations` read |
| `announced` | events `removed` published |

The code never writes a document back. It addresses list items by their position
in the copy it has read (`relations.<index>.targets`), so a concurrent change of
the list can make the index mean another item. The operators of `NodeRelations`
are those positional operations and `PullBlank`, which removes blank items
by value.

`CheckActive` is `_delValidityCheck`; `FindTargets` and `ValidateTargets` the
branch of one relation type, up to the recursive calls; `Destroy` one of the
settled `destroy` calls, whose failure is swallowed; `Publish` the event.
`ComponentFailed` is the rejection of `Promise.map` by one component: the other
branches go on, and the model lets them. `EnsureRelation`, `ReplaceEnclosure` and
`PushToRelation` are the three database calls of `addRelation`.

Every call may fail, by `Faults`: a lookup of targets (`find`), the question for the active
workflow (`check`), an update of a neighbour's or a linked node's relations (`write`), a `destroy`
and the publication. A refused update rejects the branch of `removeNode` or the
handler it was made for (`UnlinkFails`, `AddFails`), and what goes on beside it goes on.

A target is the id of a node or a whole document: the handlers get the documents
of the targets, `removeRelation` pulls their ids, and `addRelation` pushes the
documents (`NeedTargetNodes`, `AsDocument`). A document among the targets is no
identifier, so `_findTargetNodes` finds nothing for its relation type.

Abstractions: copies of a document taken at different times are not told apart;
the targets of one relation type are read, and their validity is
checked, at one instant. A stored relation may have a type that `Constants.NodeRelations`
does not list (`OtherType`); the code passes over it, and so does the model. What the datastore
removes from a list, or does not add to it a second time, is `Without`, a function of the
position rather than the filter of a library, so that its effect on any list can be proved. Tags, OBM settings,
workflows on a node, creation and patching are not in the module.

### EventService

`eventSubscriptions` and `subscription` are the two module variables. The promise
of `messenger.subscribe` is not awaited by the request that makes it, so a
listener has a life of its own: requested, consuming (the broker delivers
already), resolved (the module variable holds it), disposed. `jobs` are the
deliveries, one for each origin, subscriber and listener, with the retries left and what
every post carried. A uuid is drawn per create request, so the request stands
for the subscription it makes.

A poller publishes an event once; `inbox` is what the broker has queued. The
validation of a payload and of a record may go either way.

### FileService

`temp` and `final` say which file is stored as `unresolved_<name>` and as
`<name>`; `content` says which upload wrote each chunk, so that mixed contents are
visible; `entries` are the rows of the collection. A write stream keeps writing
to the file it opened, under whatever name it has by then. A uuid and a row are
identified by the upload that made them. `Chunks` writes make up an upload.

The collection is updated before the temporary file is renamed, and
`waterline.files.update` resolves to a list on which `exists` fails, so an update
goes to the rename directly (`UpdateEntry`).

Every call may fail: to the collection (`store`), to the file system (`disk`), of a write
stream (`stream`: `OpenFails`, `StreamFails`), and a client may go away (`abort`). A step of
`_onMetadata` that fails goes on to `Cleanup` (`Fails`); an upload whose stream fails is
answered at once and put into `broken`. If its data had not all come, nothing emits
`metadata` and the temporary file stays (`littered`); if it had, the chain goes on and stores
an entry for a file that is short. A call that fails is taken to have had no effect.

### SkuPack

A pack lives in the SKU's document, in a directory, in the library and in a
static handler. `skus`, `dirs`, `library` and `skuHandlers` are these four;
`env` is the configuration of the SKU's scope. `call[r]` holds the stage of
request `r`, the document it has read (`row`) and the parallel calls it still
waits for (`todo`). `Restart` loses `skuHandlers` and the requests and keeps the
rest; `StartSku` is `start` for one SKU. Tasks and graphs are defined by calls that are
awaited (`LoadLibrary`, fault `"define"`). `registerPack` hands the promises of
`Templates.loadFile` and `Profiles.loadFile` to nobody (`sku-pack-service.js:319-323`,
`329-333`): these items are in `loading` until `LoadSettles` brings them into the library or,
with fault `"load"`, drops them, whatever has become of the request and the SKU meanwhile.

Abstractions: the entries of one root are one entry; reading the roots and defining tasks
and graphs is one step per SKU, as is unregistering; two loads of the same item are one;
unpacking an upload and its temporary directory are left out; a request that fails because
its arguments are no pack at all, and a definition that is refused during `start`, are not
modelled.

### Accounts and ObservedAccounts

| TLA+ | Code |
|---|---|
| `localusers`, `roles` | the two collections: `[stored name -> role]`, `[stored name -> privileges]` |
| `userRoles`, `roleParents` | the access control list in memory |
| `stage`, `entry` | where a call of the service is; the document `modifyUserByName` and `removeUserByName` hold |
| `service`, `restarts` | whether the process runs, and `start` has ended |

Each operation reads the document (`Find`), changes the list, writes the document
and changes the list again (`Revoke`, `Write`, `Grant`), and reads the answer back
(`Get`), in awaited calls of their own. A call of the service is made by a request, or by
`start` for a hard-coded role. `Load` is `start` up to these calls, `Started` the
moment at which the first of them has failed or all have succeeded, since the failure is
masked. `Stop` ends the process between any two steps; the list and the requests are
lost, the documents stay.

`modifyRoleByRoleName` passes the privileges where the datastore expects the changed
fields, so the document stays as it is (`RolesWritten`) while the list changes.
`disturbed` holds the names on which calls have overlapped, or a modification has
been cut short by a write that failed, since the last start; `changed` says which
roles have been modified since then.

Abstractions: passwords are left out; whether a route refuses its caller is
nondeterministic (`Admit`), and so is what the additional reads of `createAccount` find; the
database accepts a name once; a `Load` that fails ends the process.

### RequestPipeline and RequestService

| TLA+ | Code |
|---|---|
| `stage[r]` | the await at which request `r` is: authentication, `findOne`, `isAllowed`, `userRoles`, validation and handler, rendering, error handling |
| `user[r]`, `roles[r]` | `req.user` and what `req.hasRole` answers |
| `redfishSessions` | the list in `session-service.js` |
| `expired` | tokens whose time is over |
| `account[u]` | the document and the entry in the access control list of module `Accounts`, of which a request only sees whether each is there |
| `answer[r]` | what has been sent; `HeadersSent` is `res.headersSent` |

A session and a token are identified by the request that was answered with them. `Authn`
is `swagger_authn.js` with the strategies of the route in order; `Lookup` the answer of
`findOne` in `localStrategyAuth` and `jwtStrategyAuth`; `Authz` and `Roles` are
`swagger_authz.js`. A handler of no further interest is `Handle`: it renders, fails, or
sends by itself and may then still fail. `Restart` loses requests and sessions and
rebuilds the access control list from the documents. Tokens do not have to be known to
the server, so they survive it.

`RequestService` has three variables, which the refinement maps to the requests under way
without an answer, those lost with the process, and the answers. Its liveness, "again and
again nobody waits", is implied by weak fairness of `Serve`.

### Discovery, Presence and Lifecycle

`cache[u]` is absent, valid or overdue: `node-cache` drops an overdue entry when somebody
looks at it. `Poll` is one interval of `runClientObserver`, with the look at every key;
`Respond` is `inResponse`: an answer with a max-age of 0 makes the entry `lasting`, as `node-cache` knows
no end of it, and for one that is there already `Lives` leaves open whether 0 stands for that or for the
default; one without a max-age throws, which ends the process (`Throw`, with `Crash` of
`Lifecycle`). `Bye` and `Alive` are the two notifications, which the server
of this program receives also about others. `wire` is UDP: messages are lost and
overtaken. `alerts[u]` keeps the type of the last alert and the parity of their number, which is
enough to see a repeated one.

In `Lifecycle`, `step` is the promise `start` waits for, `stopping` the one `stop` waits
for, and `stopList` what `stop` has read from `services`: the empty list before `start` has
come to the endpoints, a promise afterwards. `OnHttp` composes the two, with the default
configuration, which enables the uPnP service: the uPnP step of `start` is that of `Discovery`,
and the end of the process is the end of its memory.

### RedfishInventory and MCRedfish

A handler is an operator: the empty set when it answers with an error, else the set of
one element, the links on the page. `present` are the catalogs, poller data and settings
stored so far; discovery stores one more at a time while a client holds a page.
`machine` is what the catalogs describe, down to the details on which the
handlers disagree (a socket without a processor, a disk without identity, a
drive that is not listed). Whatever else a page shows is left out. The
loop of `listSystemProcessors` that takes entries out of the sequence it walks along is a recursive
function of the position (`Spliced`). `Complete` says what discovery stores of a machine in the
end, for each vendor, and in what its catalogs agree; every machine in `Box` is assumed to be
like that (`CatalogsAssumption`), those of the run among them.

### Taskgraph and RedfishActions

`workflows` is the sequence of graphs started, each with the request that started it.
A call ends in one of three ways: it fails and nothing happens, it succeeds, or its
answer is lost after it has succeeded (`runRpc`). `step[r]` is where a handler is, `todo[r]` which
targets of a firmware update have still to be looked up or called. Every
handler of `systems.js` that starts a graph has its conditions in an action of
its own and shares `Launch`, the call with the answer. The creation of a tag goes on after
it: `GetTag` reads the tag again, which another request may have destroyed (`destroyTag`) or
which may fail, and answers with what it has read (`tags.js` 41-43).

### NodeSettings and Pollers

`before[c]` are the nodes with their settings as a request read them before its write;
`Tell` compares them with a second reading after the answer, which is what
`publishNodeAttrEvent` does. `heard[n]` are the settings the last event of a node was about.
A call that fails before the answer ends the request (`Refuse`); one that fails afterwards is
logged, and the event is lost (`TellFails`). The monitor `missed` holds the nodes and settings
whose event was lost until a later one tells of them.

`Pollers` holds the collection and the arithmetic of the paging links. `Walk` follows one kind
of link from a page to the end, and `PagesPartition` compares the pages met with the
collection.

## 3. Runs

Every configuration names its bounds. `Deadlock` is not checked in any of them:
the requests of a run are finite in number and the system stops when they are
served, as the real service waits for the next one.

| Run | Bounds | Shows |
|---|---|---|
| `NodesSerial` | an enclosure with two compute nodes, a pdu that feeds two of them, a rack; six requests one at a time, a workflow that comes and goes on the enclosure; a check for a workflow that fails, of one component while its sibling goes on or of any other node | `ReferencesLive`, `NoDocumentOutlivesEvent`, `SingleContainer`, `ComponentsGoFirst`, `DestroyedAnnounced` |
| `NodesConcurrent` | an enclosure in an enclosure, a workflow on a component or on its component; deletions of the outermost and of the innermost node, two links of one node; two in flight; failing updates, `destroy` and `publish` | `AckedLinksKept`, `ActiveNodeSurvives`, `RequestsAnswered` |
| `NodesLinkUndone` | one link and its removal, one after the other | violation of `UnlinkTakesEffect`: the link stays |
| `EventsSubscribe` | three subscriptions, two of them for one destination; all may be created and deleted at the same time; a test event | `UniqueDestinations`, `SubscribersAreServed`, `OneListenerUnlessOverlapped` |
| `EventsDelivery` | two subscribers, two alerts of different kinds, one retry; creations one at a time, overlapping deletions; a subscribe that may fail | `RetriesAreBounded`, `AlertsReachSubscribers`, `DeliveriesEnd` |
| `EventsRetryData` | one subscriber, one alert, one retry | violation of `EveryPostCarriesEvent`: a retry posts nothing |
| `Files` | two uploads, a deletion and a download of one name, two in flight, two chunks; failing calls to collection and disk, failing write streams, clients that go away | `SerialCollectionMatchesDisk`, `SerialUuidStable`, `NoTempFileLeft`, `NamesAreDistinct`, `UploadsAnswered` |
| `SkuPacks` | any three of nine requests (three packs put on a SKU, an upload, deletions of the pack and of the SKU, two upserts, a rename), two in flight, a restart; failing moves, definitions and loads and a failing engine | `PacksConsistent`, `DeletedLeavesNothing`, `AckedPackServed`, `SerialUniqueNames` |
| `Accounts` | any three of eight requests on two users and two roles, two in flight, a hard-coded role, a stored user; a restart; every kind of database call may fail | `AclAgrees`, `AckedInForce`, `UpAndAnswered` |
| `Pipeline` | any three of six requests (a session, its use on a route open to anybody, its deletion with its own token, its lookup by an administrator, a login and a use of its token), two under way; an account that goes and comes, expiring tokens, a restart; every step may fail | `TypeOK`, `RevokedStaysOut`, `AnsweredOnce` (refinement of `RequestService`) |
| `Discovery` | two starts, two endpoints with a request each, two steps that may fail, one foreign service of a type that is also offered; lost and late messages | `CoreOutlivesRequests`, `UPnPWithinProgram`, `AlertsFollowServices` (refinement of `Presence`), `StopEnds` |
| `Operations` | one of four parts in each behaviour: (walk) eleven machines of four vendors, at most three catalogs missing at first; (act) one or two of thirteen requests, two nodes and one that is created, two contents of the catalog; (settings) four of five changes to three settings of two nodes, any call of which may fail; (pages) up to six pollers, skip and top up to seven | `LinksCanBeFollowed`, `AnswersTellWhatRuns`, `EveryChangeIsTold`, `PagesPartition` |

`NodesSerial`, `Files` and `Accounts` check the type invariants of their modules as well; that of
`EventService` is proved.

Why the bounds are enough to be worth something. Relations interact in pairs, and
the cascade needs a node below, one above and one beside; three levels of
enclosure reach every path through `removeNode` including its recursion. Two
requests in flight exhibit every race between two closures; the code has no
operation that needs three to go wrong in a new way, since every
check-then-act pair is disturbed by one other writer. `EventsSubscribe` takes
three because a deletion can meet two creations. Two chunks are the least that
can be mixed. One retry shows the first attempt, the retry and the end. One
restart between any two steps, with start running to its end or not, is what
`start` must cope with. Three requests of the accounts are a call, the one that
disturbs it and one that shows the consequence; so are three in the pipeline: one that
opens, one that closes, one that comes too late. The parts of `Operations` share no
variable, so that a behaviour of one says everything about it; a handler that
starts a workflow reads the node, the catalog, the registry and the graphs and nothing of
other requests, which therefore meet in pairs. Four changes of the settings let one go to another
node and come back, while one is removed and one that was nobody's is given away. Seven is one more than the collection
holds, so that every relation of skip, top and count occurs. One foreign service is enough for
the cache, whose entries do not touch each other; that it has a type this
program offers lets it meet the registry. Two starts show what a first one leaves
behind, and two endpoints that one may listen while the other does not.

### Fairness

The liveness properties assume weak fairness of `Serve`, the disjunction of what
the process does once it has work: every database, disk and broker call settles and
a settled promise runs its continuation. That is what the event loop
provides, and clients, workflows and pollers get no fairness. One weak fairness
condition over the whole of `Serve` is enough, because the work of the requests in
a run is finite and no step of it undoes another: nothing can be postponed for
ever. No property relies on strong fairness.

In `Discovery` the fairness is that of the composition: weak fairness of `Program`, what
start and stop do once they have begun; of `Finish` of each endpoint (`ConnectionsEnd`), since
`server.close` waits for connections whose clients nobody can force; of `Poll`, which an interval
timer calls; and of `Overdue` for each service, which is time. Nothing is
assumed of the network: no message has to arrive.

## 4. What the violations say

Each is a disagreement between the code and a sentence of the repository, quoted in
"findings".

* `NodesLinkUndone`: a link made through the REST interface is stored as a document,
  and a removal pulls an id (`LinksAreAlwaysStuck` proves that no removal works).
* `EventsRetryData`: `sendClient` calls itself again with `retry - 1` and without
  the data, so that every retry posts an empty body (`RetriesPostNoEvent` proves that each does).

### Seen while modelling, without a run of their own

*Nodes.* When `removeNode` calls `removeRelation` for two neighbours, or two deletions do, with the
same stale copy of a third node's document, the first empties a relation and
drops its blank item, and the second pulls from the position behind: a
reference to a deleted node stays. A component can be left
behind when two deletions overlap on it; a workflow may start between
`_delValidityCheck` and `destroy` (`ActiveNodeSurvives` is therefore stated
with no workflow starting meanwhile); a rejected deletion may have deleted part of the tree;
two enclosures may claim one node; `addRelation` never refuses a relation to itself,
since it compares a document with an id; a link edits one side of the
relation only, so the deletion of the other node does not know of it. A node whose relations a
client has edited leaves its id behind when it is deleted, and that has consequences for nodes nobody
edited: `_findTargetNodes` finds *none* of a list's targets when one of them is gone, so a later
deletion of a node that names it leaves its own id elsewhere. `ReferencesLive` therefore
speaks of inventories whose edited nodes are still stored. A refused update of a neighbour has the
same consequence without any edit: a pdu feeds two nodes, its deletion is told to one and refused
by the other, the first is deleted, and the pdu's second deletion finds none of its targets, so that
the other keeps its id (`NodesSerial` with `Faults = {"write"}` shows it in three requests;
`ReferencesLive` is checked and proved for updates that are not refused). A deletion that
is rejected has withdrawn the node's id from its neighbours but not theirs from it
(the exception `Abandoned` in `ReferencesLive`); two links of one type at the same time
may both see no item.

*Events.* Only Threshold events get the path of the destination; a subscription whose
retries are exhausted stays; overlapping creations bring up two listeners, one of
which nobody can dispose of.

*Files.* Two overlapping uploads of one name share the temporary file, so the hash that
is stored may be of neither; two overlapping uploads of a new name make two rows;
an upload is acknowledged when its hash is complete, which may be before its data is on disk.
A single request tears a name's entry and file apart when a call fails at the wrong moment:
a rename (or a write stream, once the data has all come) that fails leaves the new entry
with the old file, a short one or none, and a `destroyEntry` that is refused
(`file-plugin.js:215-216`) leaves the entry of a file that is unlinked. The next upload or
deletion of the name that succeeds mends it, except that a deletion of an entry without a
file stops at `exists`. `SerialCollectionMatchesDisk` excepts such names (`torn` in
`ObservedFiles`) and no others. An upload whose write stream fails before the end of its data
is answered and nobody unlinks its temporary file (`file-service.js:163-180`); one whose
clean-up unlink fails leaves it too. `NoTempFileLeft` says whose the files that stay are.

*SKU packs.* After a stop between the update of a SKU's document and the moves, `unregisterPack`
fails on the missing root, `installPack` swallows that, and `mkdir` fails on the directory
that is there: the pack cannot be replaced. `patchSku` takes any name it is told, and
`ClearDocument` writes back the name the deletion had read (`SerialUniqueNames` excepts renames); `validatePack` asks for rules and name exactly when the SKU exists
already; the scope configuration of a SKU outlives its pack. A PUT is acknowledged before its
templates and profiles are loaded, and if one of them fails to load, nobody learns of it
(`AckedPackServed` promises no more than that each load has begun). If the pack is
unregistered meanwhile, `unlink` may find nothing to remove and the item arrives
afterwards: a deletion, even of the SKU, that follows an acknowledged PUT can leave it in the
library (`late` in `PacksConsistent` and `DeletedLeavesNothing`).

*Accounts.* The modification of a role is undone by the next start, because its document
was not changed; a user whose modification fails in the database is without
the role until then; overlapping calls for one name may leave a role in the access
control list that no document has.

*Pipeline.* `rest-api-service.js` is used by no route; the inner promise of
`swagger_authz.js` is not returned; the token of a Redfish session also names its user, so a
route that takes any token accepts it after the session has been deleted, until it expires
(`Good` counts a session only on the routes that look at sessions); a rejection of the validator's `namespacesAdded` leaves
the requests that wait for it without an answer (not modelled).

*Discovery and lifecycle.* A `byebye` of any device stops this program's own server of the same
type, and a foreign `alive` marks it alive; a service that has answered with a max-age of 0 and leaves
without a word stays present for ever (`AlertsFollowServices` excepts it), and an answer without
`CACHE-CONTROL` ends the process, since nobody catches what `inResponse` throws; `app.stop` does not stop the uPnP service;
a stop that finds no services takes the database down under the endpoints `start`
still brings up (the exception in `CoreOutlivesRequests`).

*Redfish views.* `DeadEnd` of `RedfishInventory` lists the links that lead to errors: among
them processors behind an empty socket, the networks (`getNetwork` calls functions that do not
exist), and firmware where the first disk has no identity. `listChassis` changes
`node.id` in place, so that a blade replaces its enclosure in the list; the secure-boot
handlers read `obmSettings.host`, which the settings have under `config`; the links of the
BIOS template go to system 1; the firmware handlers by id have no `catch`; `wsman-service.js`
keeps the target of a `getLog` in a field that a concurrent one overwrites; the
Ethernet handlers render before the lookup of addresses has ended.

*Actions.* With several firmware targets the first success is answered with 201 and later
failures are only collected, while the comment at `update-service.js:129` says
that any error fails the entire request; a node named twice gets two updates. `doBootImage` does not look
the node up. Positions of volumes and drives are resolved in the latest catalog, not in
the one whose page the client holds. The temporary file of a password change stays when the
call fails, and writing it is not awaited. A tag stays when its workflow cannot be started, and the
retry is refused for the tag; the tag is read again after the graph was started, and when that
fails the client is told of an error though the graph runs (`TellsOfItsTag`); a node stays when its settings or its discovery fail, and
the discovery graph of a management board belongs to no node, so it can be neither found nor cancelled
through the node. A call whose answer is lost is reported as an error though its graph
runs.

*Settings.* The new node of a setting that belonged to nobody is looked up as
`values.node`, which requests do not have, so nobody is told; two overlapping changes of one setting may each compare
with the state between them (both are exceptions in `EveryChangeIsTold`). When the node cannot be
read again, or the event not be published, nobody tries once more: whoever follows the
events has missed the change until the node's next one (a third exception).

*Paging.* A `$top` of at least the count with a skip gives no links; no `$top` and a skip behind the end gives a
top of zero or less; `$top=0` divides by zero; a page that ends behind the
last full one may link to an empty page. `workflows.js` passes paging options that
`getAllWorkflows` ignores, and counts `graphobjects`.

*Hooks and notifications.* `createHook` looks the address up and creates the hook in two calls; for an alert whose
`OriginOfCondition` is null `getSerialNumber` returns nothing, and that is what is published.

## 5. Proofs

The theorems hold for every value of the constants that satisfies the named
assumption of the module, which TLC evaluates in every run of its MC module:
`OpAssumption` of `Nodes`, `EventAssumption`, `FileAssumption`, `SkuAssumption`,
`AccountAssumption`, `PipelineAssumption`, `DiscoveryAssumption`, `LifecycleAssumption`,
`RequestAssumption`, `ChangeAssumption`, `PagingAssumption`, `BoxAssumption` and
`CatalogsAssumption`. Except for the last (see `RedfishInventory` in section 2) the
assumptions say only that the constants have their types, that counts are not
negative, that names of different things (users, roles, requests, nodes, "none") are different,
and, for the pipeline, that a route which issues tokens asks for none and that a token
is its user's. What an assumption does not need, such as a finite number of nodes
or requests, is not assumed.

### Nodes

`NodesProofs` holds for every set of nodes, every initial inventory, every set of
requests and any number of them in flight.

* `Invariant`: `Spec => []IInv`.
* `ComponentsGoFirstAlways`: if the datastore's `destroy` does not fail, a
  call that destroys documents of its node has no component left in the
  collection. The run `NodesSerial` checks the same property on its instance.
* `ActiveNodeSurvivesAlways`: if no workflow starts meanwhile, no step ever
  removes a node with an active workflow. `NodesConcurrent` checks it.
* `NoDocumentOutlivesEventAlways`: if the datastore's `destroy` does not fail, nothing in
  the other collections names a node once its event has been published.
* `TypeCorrect`: whatever a handler keeps across an await has its type.

`ComponentsGoFirst` is not inductive: it speaks of the nodes collection, whereas
what makes it true is that every call made for a component has *resolved*, and
that a resolved call has cleared its node. `IInv` says so:

* `CallsTyped`: the calls are well-formed records under well-formed identifiers;
* `CallersExist`: a call with a longer path exists only if its caller does and has got
  as far as making it. This keeps a later `ValidateTargets` from
  overwriting a call that is under way;
* `NodeGone`: a call that has cleared the nodes collection leaves no node there,
  and one that publishes or is done has cleared it;
* `ComponentsCalled`: the calls for the components exist once they have been made;
* `ComponentsDone`: a call that destroys has seen each of them resolved.

Init and each action preserve it; actions that only read, link or unlink do so by
one frame lemma, the actions that advance a single call, or reject one (`CallFails`), by another,
and the one that makes calls by a third. What an action does to the records is stated once, in the lemmas
named `...Facts`, and the proofs of all the invariants start from these. The second
theorem follows from `NodeGone` and `ComponentsDone`. The third has its own, smaller
invariant: past `CheckActive` the node of a call is not active. So has the fourth: a call has
cleared the collections that are not in `left`, and `left` is empty before it publishes
(`Clears`). Neither says which of several calls about a node has cleared it.

`TypeOK` does not say enough to be inductive: a target that is pulled, a document that is
copied into a call, or a position found in it are written back later. `TInv` types these,
and the lemmas on `Without`, `PullTargets`, `PushTargets`, `PushItem` and `PullBlank`
say what each list operation leaves of a document. The library's induction on the natural numbers
is out of reach (see below); that each position of the recursive function in `Without` is as
it should be is shown by looking at the least one that would not be (`Least`).

`NodeLinksProofs` adds four theorems on links.

* `SingleContainerAlways`: while requests come one at a time (`MaxInFlight = 1`), and for
  every initial inventory in which it was so, no node is contained by two. The check of
  `addRelation` reads a copy of the document and counts what the copy has; `SInv`
  relates the copy and the position to what is stored (`Fits`): items are where they were,
  and no container has been added. That needs to know that nothing else is under way
  (`Alone`, `NothingElse`), a rejected deletion whose branches still run included.
* `AckedLinksAlwaysKept`: for any number of requests in flight and any faults. The
  hypothesis `Separate(A)` is a condition on the requests: the nodes that are linked form a
  set `A`, no request deletes or unlinks a node of `A`, and no document of another node
  names one at first, so that no cascade reaches it. Two links that replace the enclosure of one node
  contradict each other, and are excluded. `KInv(A)` says that deletions and unlinks
  stay outside `A` (`CallApart`), that the position a link has found is still that of an item of
  its type (`InPlace`), and that each type of a request under way is linked already or
  some call still waits to link it (`LinkHolds`).
* `LinksAreAlwaysStuck`: how far the finding of `NodesLinkUndone` reaches, for any requests, interleavings and
  failures. A link that a PUT has stored stays as long as its node does, whatever is unlinked and
  whichever other node is deleted; only the enclosure that another PUT replaces goes. Both removals pull
  ids, which match no document, and an item that lists a document is not blank. Its only
  hypothesis is that an id is no document.
* `ReferencesAlwaysLive`: while requests come one at a time and neither a lookup of targets nor an
  update of a neighbour fails (checks, `destroy` and publications may), for every inventory of the shape `Forest(F)`. `F` gives the links there are, and for each node
  the top of its tree and its depth in it: what `encloses` and `enclosedBy` relate are trees, a
  node has one enclosure, other links lead from one tree into another and those from one node
  into one tree are all of one type, and a link is stored on both sides. Discovery stores
  inventories like that (section 4 says what happens to others), and the inventory of
  `NodesSerial` is one.

`ReferencesLive` says of a node that is gone that nobody names it. An invariant that implies it must
know why the last one who did has been told, while deletions that cascade, fail half-way and
are retried have each told some of their neighbours. `Core(F)` relates every document to every
call:

* `AllMutual`: when `n` lists `m`, then `m` is stored, lists `n` in return, and every call of `removeNode`
  about `m` still has to withdraw `m` from `n`, or has failed (`Handles`); unless `n` is `Exempt`,
  because a deletion of its own has told `m`. For each stage of a branch `Handles` says what that
  means: the copy of the document lists `n` (`Sees`), `n` has been found, or a pull is pending.
* `CallFits`: where the calls of a cascade are in the tree (`Placed`), so that a deletion reaches
  each node once, and withdraws a component from its enclosure only at the root; and that the
  components found are as they are stored until they are called (`FoundFits`), which is what
  makes it harmless that `removeNode` works on the copies its caller has read.
* `UnlinkFits`: a pull of a deletion knows the right position, as no two of its pulls from one
  document are of different types.
* `StoreFits`: the links of stored documents are those of `F`, in one item for each type.

A link edited by hand has one side only. Once a node with such a link is removed the property
says nothing any more (`EditedGone`); until then a document edited by hand only loses
ids (`Fewer`), since what a link pushes are documents and not ids.

### EventService

* `TypeCorrect`: `TypeOK` is inductive.
* `UniqueDestinationsAlways`: the destination is looked up and the subscription is
  stored in one turn of the thread (`ValidatePayload`), so `UniqueDestinations` is
  inductive as it stands; every other step can only remove subscriptions.
* `RetriesAreBoundedAlways`: a bound on the posts says nothing about the next one.
  `Accounted` says that what a delivery has posted and the retries it has left add up
  to `RetryAttempts` before a post and to one more after the last; each post moves one
  from the one to the other.
* `RetriesPostNoEvent`: how far the finding of `EventsRetryData` reaches. In every delivery, for every
  `RetryAttempts`, the first post carries the event and no retry does. `Carried` says that a
  delivery holds the event exactly as long as it has posted nothing.
* `SubscribersAreServedAlways`: for a broker that refuses no listener, while nothing
  is under way there is a listener for the subscribers. `ListenerInv` is the
  strengthening: where there are subscriptions, either the module variable holds a
  listener, or a creation is about to ask for one, or one that was asked for has not
  come back yet (`OnItsWay`), and a listener that is held is live. Without the
  middle cases a deletion that overlaps a creation would break it.
* `OneListenerAlways`: as long as creations do not overlap. "One listener" alone is not
  inductive, since a creation that asks for one must know that none is on its way:
  `OneInv` says that at most one creation is under way, and that every listener that is up
  is the one in the module variable or belongs to that creation (`Held`).

### FileService

* `TypeCorrect`: inductive together with `KnownInv`, an upload that updates a row has
  found one.
* `NamesAreDistinctAlways`: `NamesInv` adds that a file has one temporary name at most
  and no name before its upload begins; otherwise a rename or a new upload could give
  two names to one file.
* `NoTempFileLeftAlways`: `TempInv` says that the upload that made a temporary file has
  neither renamed nor unlinked one since, whoever else shares the name: it is still under
  way, its client has gone away, its stream has failed before the end of its data, or its
  clean-up has failed.
* `SerialCollectionMatchesDiskAlways` and `SerialUuidAlwaysStable`: as long as requests do
  not overlap. Both speak of the moments between requests, or of one step; `SerialInv`
  says what the only request under way has done so far (`UploadInv`: which chunks of the
  file are its own, what it has found in the collection, where its file is), and that a
  name is `Settled`, or `torn` by a failure, or the request is `Between` the collection and
  the disk. A file always has its entry (`HasRow`), torn or not. Two
  names never share a file (`FilesInv`), overlapping or not.

### SkuPack

All four theorems hold for any number of SKUs, packs, requests, overlaps and restarts; what
they say of a SKU is excepted where the property excepts it. `SkuInv`, their common
inductive invariant, comes in layers, one for each degree of disturbance:

* `TInv`: types, and which requests come to which step;
* `PackInv`, for SKUs on which no two requests overlapped, *whatever was cut short*: what is
  loaded or being loaded is on disk and in the document unless it is `late`, and a SKU
  without document has nothing (`Backed`); how far a request has come with its SKU (`RequestInv`). This is what
  survives a restart in the middle of an installation;
* `CutInv`, for SKUs on which in addition nothing was cut short: the exact contents at each
  stage (`UncutInv`), and that the four places agree (`Whole`), the library up to the loads
  that are under way or have failed (`Known`), unless a request is in the middle of changing
  them.

A load that settles may belong to a SKU that a request is busy with. What is brought
(`Brought`) cannot grow by it and what is known of (`Known`) cannot shrink, and the
invariants speak of the library through these two only, so that `SettleKeeps` follows from
the same lemmas as the steps of the other requests (`SameAt`).

`DeletedLeavesNothingAlways` and the action property `AckedPackAlwaysServed` follow from
the second layer, `PacksAlwaysConsistent` from the third. Consistency could not be proved from itself, because a
directory may only be removed after what was loaded from it, and a stage between
the two is consistent in neither sense. A step touches one SKU (`StepKeeps`), so that each of
the actions is left with obligations about its own. `SerialNamesAlwaysUnique` has an invariant of its own, `NameInv`: a
deletion that writes its document back still holds the stored name, and a creation has found
none of its name.

### Accounts

* `TypeCorrect`: inductive together with `Fits`, which stages a call of each kind goes
  through.
* `AclAgreesAlways`: `AclAgrees` speaks of names nobody is busy with, so it says
  nothing while a call is under way. The inductive invariant `AclInv` gives, for every
  name that has not been disturbed, what document and list look like at each stage of
  its only call (`UserCall`, `RoleCall`); that two calls for a name have been noted
  (`Alone`), so that a second call never runs against a stale `InStep`; and that nothing is
  in flight while the service is down. A step of one call leaves every other name as it
  is (`OneCall`, from the frame lemma `Frame`), so each action is left with one
  obligation about its own name. `start` establishes the agreement anew: its calls are
  for different names.
* `AckedInForceAlways`: an action property. Only `Get`, and the `Write` of a removal,
  acknowledge; `AclInv` before that step says what is in force after it.

### RequestPipeline

* `PipelineTypes`: `TypeOK` is inductive together with `SentLate`, that only the error
  handler and the end of the pipe meet an answer that has been sent, and `RolesLate`, that no roles
  are there before they are looked up.
* `RevokedStaysOutAlways`: for any users, routes, requests and restarts. A request that came
  too late is refused by each strategy for a different reason, so the invariant keeps that its token
  *stays* bad (`LateOut`: nobody else opens a session with it, and time does not go
  back), and that a removed user who is found by a stale lookup meets an empty access
  control list (`OrphanOut`).
* `PipelineServes`: every step is a step of `RequestService` or a stutter. The thirteen
  actions of a request are of six kinds (`StepKinds`): going on, being authenticated, getting
  roles, answering, sending before an error, and ending. Only two of them answer, and
  `SentLate` says that nothing had been sent then.

### Discovery

* `DiscoveryAlternates`: every step is a step of `Presence` or a stutter. The invariant says
  that an entry in the cache has been announced last, and that the cache is empty unless
  the client searches, which an answer that ends the process keeps so. Without it an answer to an overdue entry, two alerts in one turn, could be one
  `present` too many.

### Lifecycle

* `CoreOutlivesRequestsAlways`: the invariant relates three things that no step changes
  together: how far `start` is, what `stop` waits for, and the state of
  each server. A stop that holds the promise goes to the database only when
  all servers are closed, and a server is closed when it has no request.

### OnHttp

* `ProgramRunsItsParts`: the composition implements both specifications it is composed of; each of
  its steps is a step of either part or leaves it alone. `CoreOutlivesRequests` and the alternation
  of the alerts therefore hold of the program (`ProgramKeepsPromises`), although they were proved of
  the parts.
* `UPnPAlwaysWithinProgram`: what neither part can say by itself. A request finds the servers of the
  uPnP service because `start` waits for it before the endpoints; it searches, and so publishes,
  while the messenger is connected or a stop has just taken it down. `WithinInv` relates
  the step of `start` to what there is of the service; the rest is the invariant of `Lifecycle`.

### RedfishActions and NodeSettings

* `AnswersAlwaysTellWhatRuns`: for any number of requests, nodes and graphs. A graph never
  changes its owner and a cancelled one stays cancelled (`GraphsKeep`), so a request a step is not of
  keeps what holds of it (`Bystander`), and each action is left with its own
  request. For a firmware update, whose calls overlap, "no node gets more graphs than
  it is named" is not inductive: `UpToTheTargets` counts, for each node, the graphs
  it has been given and the positions that may still start one. For a tag, whose answer names no graph,
  `StoresATag` keeps what the engine has said until the tag has been read, which may fail: that
  error is not one of the engine's, and the theorem says so (`TellsOfItsTag`).
* `EveryChangeIsToldAlways`: the property speaks of the end, when nothing is due. `ToldInv`
  says for each node and setting that the node has heard how the setting is, or that some
  answered request holds a reading of the node that differs in it (`DueTo`); and that what a
  request has read of its own setting is still so while it is under way
  (`RequestKnows`), which is where requests for one setting that overlap are excepted. A lost event
  is excepted only while nothing else has told of the setting: `FailureIsMissed` shows
  that nothing but a loss the monitor has seen leaves a node without its event.

### Pollers

* `PagesAlwaysPartition`: for a collection of any size and any skip and top. Three facts carry it.
  The next page begins where a page ends, and there is one exactly as long as items remain (`NextStep`,
  `NextEnds`); the previous page ends where a page begins, a shorter one at the start (`PreviousStep`,
  `PreviousEnds`); and a walk takes a step as long as there is a page (`WalkFacts`), in at most as
  many steps as there are items, because skips grow or shrink with each of them (`Climbs`). So the pages
  before, the page itself and the pages after are consecutive intervals, and an item is in exactly one.
  The walk is a recursive function on a finite interval; what it does at a position is shown by looking at the
  least position at which it would not.

### RedfishInventory

* `LinksAlwaysFollowed`: for any machines, with any number of sockets, controllers, drives, volumes,
  interfaces and log entries, and any order of the catalogs. A client holds links from pages that were
  rendered half way, so what is stored says little about them. The idea of the proof is that
  a page *promises* something with each link that depends on the machine only (`Promised`), and
  that discovery never takes back: a link to the entries of a log promises that the catalog the
  log is rendered from is due; one to a processor promises that its number is at most that of
  the populated, or the spliced, sockets. `WalkInv` says that every link the client holds has its promise.
  Each handler renders links with their promises from whatever is stored (`...Shows`), and, once
  all is stored, each link with its promise answers or is a `DeadEnd` (`...Answers`).
  The lemmas on `Spliced` say what the loop over the sockets leaves of a list it
  takes elements from.

The attempt at this proof found two dead ends that the first boxes of the run did not reach, and that
are in `DeadEnd` and in the run since: a node without disks hides the *software* of every node (and not only
the firmware), and the RAID controllers of a machine whose first identifier is that of its own Redfish
pages are looked for among the catalogs of other machines.

### What is not proved

Out of the prover's reach, and checked by TLC only:

* the liveness properties, which need fairness and `ENABLED`: `RequestsAnswered`,
  `DestroyedAnnounced`, `AlertsReachSubscribers`, `DeliveriesEnd`, `UploadsAnswered`,
  `UpAndAnswered`, `StopEnds`, and the liveness halves of `AnsweredOnce` and
  `AlertsFollowServices`, whose safety halves are `PipelineServes` and
  `DiscoveryAlternates`.

Every safety property that a run checks is proved.

Hypotheses of a theorem that are not assumptions of the module (no overlapping requests, no
workflow that starts meanwhile, no write that is swallowed or refused, `Separate`, `Forest`, ids that are no
documents) are those under which
the property holds; section 4 says what happens without them. The instances of the runs that check
the same property satisfy them.

## 6. Plan

In this order:

1. *The rest of the node service*: patching, destroying tags (which pulls them from the
   nodes first), and the events for both nodes of a change.
2. *Notifications*: the chain from an alert to the event of `EventService`, and its
   composition with it.
3. *An abstract inventory* in which a deletion removes a subtree in one step, which `Nodes`
   implements when requests do not overlap; a pack store for `SkuPack`; and that they do, proved
   from the invariants of section 5.

## 7. Not modelled

See the components with status `not_modelled` or `partly` in `PROJECT.json`.

* *Notifications*: a chain of lookups without state, each of which may fail; nothing
  interleaves with it but the documents it reads.
* *Hooks*: one database call per request, but for the creation (see above).
* *Templates, profiles, views, schemas; catalogs, lookups, configuration, versions; static files;
  serializables*: rendering, conversion, or a single call to the database or the disk.
* *Parts of modelled components*: the scope a request gets from the SKU of its node, the `$sort` and
  query parameters, the serdes fittings, passwords and their rules, the choice of file back
  ends, the unpacking of packs, the definitions of graphs and tasks.

The task-graph runner, the broker, the database, on-core and on-tasks are other programs; they
appear as environments: a call settles or fails, a workflow starts or ends.

## 8. Running it

    tlc -workers 2 -config NodesSerial.cfg MCNodes
    tlc -workers 2 -config Operations.cfg MCOperations
    tlapm NodesProofs.tla

and so on; "runs" in `PROJECT.json` names the module of every configuration, and every module
`...Proofs` is checked by `tlapm`. Each run ends within five minutes with two workers;
`NodesSerial`, at nearly three, and `Operations` and `NodesConcurrent`, at about two, are the longest.
