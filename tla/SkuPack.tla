------------------------------ MODULE SkuPack ------------------------------
(***************************************************************************)
(* SKUs and their packs: lib/services/sku-pack-service.js.                 *)
(*                                                                         *)
(* A pack lives in four places: the SKU's document says which roots it     *)
(* has, a directory named after the SKU holds them, the library (templates,*)
(* profiles, task and graph definitions in the SKU's scope) has been loaded*)
(* from them, and the process holds a static file handler.  Installing and *)
(* deleting a pack touch them one awaited call after the other, and the    *)
(* process may stop in between; start() registers every SKU again.         *)
(*                                                                         *)
(* The entries of a directory, and the items loaded from them, are         *)
(* identified by the root they belong to and the pack that brought them.   *)
(*                                                                         *)
(* Tasks and graphs are defined by awaited calls.  Of templates and        *)
(* profiles only the directory is awaited: loadFile is called for every    *)
(* file, its promise is dropped, and the registration goes on.             *)
(***************************************************************************)
EXTENDS Naturals, FiniteSets

CONSTANTS
    Sku,            \* SKU ids
    Name,           \* SKU names
    Pack,           \* uploads
    Contents,       \* [Pack -> what its config.json says]
    Request,        \* REST requests
    Menu,           \* what a request may ask: see Operation
    InitialSkus,    \* the SKUs stored at first, without packs
    None,           \* no pack, no SKU
    MaxInFlight,    \* how many requests are served at the same time
    MaxRestarts,    \* how often the process may stop
    Faults          \* "move", "define", "load", "regenerate": calls that may fail

\* confProperties; the library roots are registered in this order.
LibraryOrder == [httpTemplateRoot |-> 1, httpProfileRoot |-> 2, taskRoot |-> 3,
                 workflowRoot |-> 4]
LibraryRoot == DOMAIN LibraryOrder
Root == LibraryRoot \cup {"httpStaticRoot"}

\* The roots whose files are loaded by promises that nobody awaits.
Unawaited == {"httpTemplateRoot", "httpProfileRoot"}

\* "complete": config.json has rules and a name.
Config == [name : Name, complete : BOOLEAN, roots : SUBSET Root, config : BOOLEAN]
Document == [name : Name, roots : SUBSET Root, config : Pack \cup {None}]

Install == {"upload", "put"}
Kind == Install \cup {"deletePack", "delete", "post", "upsert", "patch"}

Operation == [kind : Kind, sku : Sku \cup {None}, pack : Pack \cup {None},
              name : Name \cup {None}]

ASSUME SkuAssumption ==
    /\ Contents \in [Pack -> Config]
    /\ Menu \subseteq Operation
    /\ \A o \in Menu :
         /\ o.kind \in Install => o.pack \in Pack
         /\ o.kind \in {"post", "upsert", "patch"} => o.name \in Name
         /\ o.kind \in {"put", "deletePack", "delete", "patch"} => o.sku \in Sku
    /\ DOMAIN InitialSkus \subseteq Sku
    /\ \A s \in DOMAIN InitialSkus : InitialSkus[s] \in Document /\ InitialSkus[s].roots = {}
    /\ None \notin Sku \cup Pack \cup Name
    /\ MaxInFlight \in Nat \ {0}
    /\ MaxRestarts \in Nat

VARIABLES
    skus,       \* the skus collection: [stored id -> document]
    issued,     \* the ids ever given to a SKU
    dirs,       \* [SKU with a directory under confRoot -> its entries]
    library,    \* items stored in the scope of a SKU: <<sku, root, pack>>
    loading,    \* items whose loadFile is under way
    env,        \* [Sku -> the configuration set in its scope]
    skuHandlers,    \* SKUs with a static file handler in this process
    call,       \* [Request -> progress of the request]
    starting,   \* SKUs that start() has still to register
    restarts    \* how often the process has stopped

vars == <<skus, issued, dirs, library, loading, env, skuHandlers, call, starting, restarts>>
stored == <<skus, issued>>
effects == <<dirs, library, loading, env, skuHandlers>>
process == <<starting, restarts>>

NoDocument == [name |-> None, roots |-> {}, config |-> None]
NoOperation == [kind |-> None, sku |-> None, pack |-> None, name |-> None]
NewCall == [at |-> "idle", op |-> NoOperation, sku |-> None, row |-> NoDocument, todo |-> {}]

Finished == {"idle", "ok", "failed", "lost"}
InFlight == {r \in Request : call[r].at \notin Finished \/ call[r].todo # {}}

PackOf(r) == Contents[call[r].op.pack]
NameOf(r) == IF call[r].op.kind = "upload" THEN PackOf(r).name ELSE call[r].op.name
Named(n) == {s \in DOMAIN skus : skus[s].name = n}

Entries(s) == IF s \in DOMAIN dirs THEN dirs[s] ELSE {}
DirRoots(s) == {e[1] : e \in Entries(s)}
Items(s, roots) == {<<s, e[1], e[2]>> : e \in {f \in Entries(s) : f[1] \in roots \cap LibraryRoot}}

Init ==
    /\ skus = InitialSkus
    /\ issued = DOMAIN InitialSkus
    /\ dirs = [s \in {} |-> {}]
    /\ library = {}
    /\ loading = {}
    /\ env = [s \in Sku |-> {}]
    /\ skuHandlers = {}
    /\ call = [r \in Request |-> NewCall]
    /\ starting = {}
    /\ restarts = 0

Goes(r, from, to) == call[r].at = from /\ call' = [call EXCEPT ![r].at = to]

-----------------------------------------------------------------------------
(* The REST handlers up to the pack                                        *)

\* needByIdentifier for the operations on one SKU.
Receive(r, o) ==
    /\ call[r].at = "idle" /\ starting = {}
    /\ Cardinality(InFlight) < MaxInFlight
    /\ LET known == o.sku \in DOMAIN skus
           first == IF o.kind \in {"upload", "post", "upsert"} THEN "name"
                    ELSE IF ~known THEN "failed"
                    ELSE IF o.kind = "put" THEN "validate"
                    ELSE IF o.kind = "patch" THEN "patch" ELSE "find"
       IN  call' = [call EXCEPT ![r].at = first, ![r].op = o, ![r].sku = o.sku]
    /\ UNCHANGED <<stored, effects, process>>

\* validatePack looks for rules and name only when the SKU is given.
ValidatePack(r) ==
    /\ Goes(r, "validate", IF PackOf(r).complete THEN "stat" ELSE "failed")
    /\ UNCHANGED <<stored, effects, process>>

\* Mutation: the name is not looked up.
FindNameSkipped(r) == Goes(r, "name", "create") /\ UNCHANGED <<stored, effects, process>>

\* findOne({name}): "duplicate name found", which upsertSku catches.
FindName(r) ==
    /\ Goes(r, "name", IF Named(NameOf(r)) = {} THEN "create"
                       ELSE IF call[r].op.kind = "upsert" THEN "named" ELSE "failed")
    /\ UNCHANGED <<stored, effects, process>>

\* waterline.skus.create; the collection may refuse an incomplete document.
CreateSku(r) ==
    \/ /\ call[r].at = "create"
       /\ \E s \in Sku \ issued :
            /\ skus' = [t \in DOMAIN skus \cup {s} |->
                          IF t = s THEN [NoDocument EXCEPT !.name = NameOf(r)] ELSE skus[t]]
            /\ issued' = issued \cup {s}
            /\ call' = [call EXCEPT
                          ![r].sku = s,
                          ![r].at = IF call[r].op.kind = "upload" THEN "stat" ELSE "regenerate"]
       /\ UNCHANGED <<effects, process>>
    \/ /\ call[r].op.kind = "upload" /\ ~PackOf(r).complete
       /\ Goes(r, "create", "failed")
       /\ UNCHANGED <<stored, effects, process>>

\* upsertSku after the conflict: the SKU of that name may be gone by now.
FindNamed(r) ==
    /\ call[r].at = "named"
    /\ IF Named(NameOf(r)) = {}
       THEN Goes(r, "named", "failed")
       ELSE \E s \in Named(NameOf(r)) :
              call' = [call EXCEPT ![r].sku = s, ![r].at = "patch"]
    /\ UNCHANGED <<stored, effects, process>>

PatchSku(r) ==
    /\ call[r].at = "patch"
    /\ LET s == call[r].sku IN
       IF s \in DOMAIN skus
       THEN /\ Goes(r, "patch", "regenerate")
            /\ skus' = [skus EXCEPT ![s].name = NameOf(r)]
       ELSE Goes(r, "patch", "failed") /\ UNCHANGED skus
    /\ UNCHANGED <<issued, effects, process>>

-----------------------------------------------------------------------------
(* deletePack and unregisterPack                                           *)

\* installPack swallows whatever goes wrong in deletePack and goes on.
DeleteFails(r) ==
    call' = [call EXCEPT
               ![r].at = IF call[r].op.kind \in Install THEN "prepare" ELSE "failed",
               ![r].todo = IF call[r].op.kind \in Install THEN {"mkdir", "update"} ELSE {}]

FindPack(r) ==
    /\ call[r].at = "find"
    /\ LET s == call[r].sku IN
       IF s \in DOMAIN skus
       THEN call' = [call EXCEPT ![r].row = skus[s], ![r].at = "unregister"]
       ELSE DeleteFails(r)
    /\ UNCHANGED <<stored, effects, process>>

\* Mutation: the library is left alone.
UnregisterHandlerOnly(r) ==
    /\ Goes(r, "unregister", "clear")
    /\ skuHandlers' = IF "httpStaticRoot" \in call[r].row.roots
                      THEN skuHandlers \ {call[r].sku} ELSE skuHandlers
    /\ UNCHANGED <<stored, dirs, library, loading, env, process>>

\* unregisterPack: the static handler goes first; what is unloaded is read from
\* the directory, and a root that is not there fails the whole.  The scope's
\* configuration stays, and so does a loadFile that is under way.
Unregister(r) ==
    /\ call[r].at = "unregister"
    /\ LET s == call[r].sku
           roots == call[r].row.roots
       IN  /\ skuHandlers' = IF "httpStaticRoot" \in roots THEN skuHandlers \ {s} ELSE skuHandlers
           /\ library' = library \ Items(s, roots)
           /\ IF roots \cap LibraryRoot \subseteq DirRoots(s)
              THEN Goes(r, "unregister", "clear") ELSE DeleteFails(r)
    /\ UNCHANGED <<stored, dirs, loading, env, process>>

\* The document as it was read, without its pack, is written back.
ClearDocument(r) ==
    /\ call[r].at = "clear"
    /\ call' = [call EXCEPT ![r].at = "remove", ![r].row = NoDocument]
    /\ LET s == call[r].sku IN
       skus' = IF s \in DOMAIN skus
               THEN [skus EXCEPT ![s] = [NoDocument EXCEPT !.name = call[r].row.name]] ELSE skus
    /\ UNCHANGED <<issued, effects, process>>

\* rimraf; installPack goes on, the deletions come to their end.
RemoveDirectory(r) ==
    /\ call[r].at = "remove"
    /\ dirs' = [s \in DOMAIN dirs \ {call[r].sku} |-> dirs[s]]
    /\ IF call[r].op.kind \in Install
       THEN call' = [call EXCEPT ![r].at = "prepare", ![r].todo = {"mkdir", "update"}]
       ELSE Goes(r, "remove", IF call[r].op.kind = "delete" THEN "destroy" ELSE "ok")
    /\ UNCHANGED <<stored, library, loading, env, skuHandlers, process>>

\* deleteSkuById: destroyByIdentifier.
DestroySku(r) ==
    /\ LET s == call[r].sku IN
       /\ Goes(r, "destroy", IF s \in DOMAIN skus THEN "regenerate" ELSE "failed")
       /\ skus' = [t \in DOMAIN skus \ {s} |-> skus[t]]
    /\ UNCHANGED <<issued, effects, process>>

-----------------------------------------------------------------------------
(* installPack                                                             *)

\* A directory of that name means that there is a pack to delete first.
StatDirectory(r) ==
    /\ call[r].at = "stat"
    /\ IF call[r].sku \in DOMAIN dirs
       THEN Goes(r, "stat", "find")
       ELSE call' = [call EXCEPT ![r].at = "prepare", ![r].todo = {"mkdir", "update"}]
    /\ UNCHANGED <<stored, effects, process>>

\* One of the two parallel calls has resolved; then the entries are moved.
Prepared(r, what) ==
    LET left == call[r].todo \ {what} IN
    call' = IF left = {} /\ call[r].at = "prepare"
            THEN [call EXCEPT ![r].at = "move", ![r].todo = PackOf(r).roots]
            ELSE [call EXCEPT ![r].todo = left]

MakeDirectory(r) ==
    /\ call[r].at = "prepare" /\ "mkdir" \in call[r].todo
    /\ LET s == call[r].sku IN
       IF s \in DOMAIN dirs
       THEN /\ call' = [call EXCEPT ![r].at = "failed", ![r].todo = @ \ {"mkdir"}]
            /\ UNCHANGED dirs
       ELSE /\ Prepared(r, "mkdir")
            /\ dirs' = [t \in DOMAIN dirs \cup {s} |-> Entries(t)]
    /\ UNCHANGED <<stored, library, loading, env, skuHandlers, process>>

\* What the pack's config.json does not mention is left as it is.
Described(document, p) ==
    [document EXCEPT !.roots = @ \cup Contents[p].roots,
                     !.config = IF Contents[p].config THEN p ELSE @]

\* Also when mkdir has failed: the two calls are independent.
UpdateDocument(r) ==
    /\ "update" \in call[r].todo
    /\ LET s == call[r].sku IN
       skus' = IF s \in DOMAIN skus
               THEN [skus EXCEPT ![s] = Described(@, call[r].op.pack)] ELSE skus
    /\ Prepared(r, "update")
    /\ UNCHANGED <<issued, effects, process>>

\* The entries are moved in parallel, each with mkdirp.
MoveEntry(r, root) ==
    /\ root \in call[r].todo \cap Root
    /\ LET s == call[r].sku IN
       \/ /\ dirs' = [t \in DOMAIN dirs \cup {s} |->
                        Entries(t) \cup (IF t = s THEN {<<root, call[r].op.pack>>} ELSE {})]
          /\ call' = [call EXCEPT ![r].todo = @ \ {root}]
       \/ /\ "move" \in Faults
          /\ call' = [call EXCEPT ![r].at = "failed", ![r].todo = @ \ {root}]
          /\ UNCHANGED dirs
    /\ UNCHANGED <<stored, library, loading, env, skuHandlers, process>>

-----------------------------------------------------------------------------
(* registerPack and start                                                  *)

\* The library roots that are loaded: one that is missing stops the rest.
Loaded(s, roots) ==
    {root \in roots \cap LibraryRoot :
       \A q \in roots \cap LibraryRoot :
          LibraryOrder[q] <= LibraryOrder[root] => q \in DirRoots(s)}

\* The configuration of the scope: skuConfig, and the names of the pack's graphs.
ScopeConfig(s, document) ==
    {<<"skuConfig", p>> : p \in {document.config} \ {None}}
        \cup (IF "workflowRoot" \in document.roots
              THEN {e \in Entries(s) : e[1] = "workflowRoot"} ELSE {})

\* Mutation: the static root is not looked at.
WithHandlerNever(s, document) == skuHandlers

\* The static handlers with that of SKU s, if its pack has static files.
WithHandler(s, document) ==
    IF "httpStaticRoot" \in document.roots THEN skuHandlers \cup {s} ELSE skuHandlers

\* registerPack begins when every entry has been moved: the document is read,
\* and the static handler made in the same turn.
ReadPack(r) ==
    /\ call[r].at = "move" /\ call[r].todo = {}
    /\ LET s == call[r].sku IN
       IF s \in DOMAIN skus
       THEN /\ call' = [call EXCEPT ![r].at = "load", ![r].row = skus[s]]
            /\ skuHandlers' = WithHandler(s, skus[s])
       ELSE Goes(r, "move", "failed") /\ UNCHANGED skuHandlers
    /\ UNCHANGED <<stored, dirs, library, loading, env, process>>

\* What is read of these roots goes into the library, templates and profiles
\* later or never.
Load(s, roots) ==
    /\ library' = library \cup Items(s, roots \ Unawaited)
    /\ loading' = loading \cup Items(s, roots \cap Unawaited)

\* Mutation: what cannot be loaded is passed over.
LoadLibraryLenient(r) ==
    /\ Goes(r, "load", "env")
    /\ Load(call[r].sku, Loaded(call[r].sku, call[r].row.roots))
    /\ UNCHANGED <<stored, dirs, env, skuHandlers, process>>

\* Templates, profiles, tasks and graphs; a definition may be
\* refused, and nothing is loaded from its root on.
LoadLibrary(r) ==
    /\ call[r].at = "load"
    /\ LET s == call[r].sku
           roots == call[r].row.roots
       IN  \/ /\ Load(s, Loaded(s, roots))
              /\ Goes(r, "load", IF Loaded(s, roots) = roots \cap LibraryRoot
                                 THEN "env" ELSE "failed")
           \/ /\ "define" \in Faults
              /\ \E root \in Loaded(s, roots) \ Unawaited :
                    Load(s, {q \in Loaded(s, roots) : LibraryOrder[q] < LibraryOrder[root]})
              /\ Goes(r, "load", "failed")
    /\ UNCHANGED <<stored, dirs, env, skuHandlers, process>>

\* Templates.loadFile or Profiles.loadFile comes to its end; nobody hears of a failure.
LoadSettles(i) ==
    /\ i \in loading
    /\ loading' = loading \ {i}
    /\ \/ library' = library \cup {i}
       \/ "load" \in Faults /\ UNCHANGED library
    /\ UNCHANGED <<stored, dirs, env, skuHandlers, call, process>>

\* Env.set, unless there is nothing to set.
SetScope(r) ==
    /\ call[r].at = "env"
    /\ call' = [call EXCEPT ![r].at = "regenerate", ![r].row = NoDocument]
    /\ LET new == ScopeConfig(call[r].sku, call[r].row) IN
       env' = IF new = {} THEN env ELSE [env EXCEPT ![call[r].sku] = new]
    /\ UNCHANGED <<stored, dirs, library, loading, skuHandlers, process>>

\* regenerateSkus runs a graph for every node; then the response is sent.
Regenerate(r) ==
    /\ \/ Goes(r, "regenerate", "ok")
       \/ "regenerate" \in Faults /\ Goes(r, "regenerate", "failed")
    /\ UNCHANGED <<stored, effects, process>>

\* The process stops: its memory is lost, what it had stored is not.
Restart ==
    /\ restarts < MaxRestarts
    /\ restarts' = restarts + 1
    /\ starting' = DOMAIN skus
    /\ skuHandlers' = {} /\ loading' = {}
    /\ call' = [r \in Request |->
                  IF r \in InFlight THEN [NewCall EXCEPT !.at = "lost"] ELSE call[r]]
    /\ UNCHANGED <<stored, dirs, library, env>>

\* start registers every SKU, whatever happens to the others, before the HTTP
\* services are up.
StartSku(s) ==
    /\ s \in starting
    /\ starting' = starting \ {s}
    /\ LET document == skus[s]
           loaded == Loaded(s, document.roots)
           new == ScopeConfig(s, document)
       IN  /\ skuHandlers' = WithHandler(s, document)
           /\ Load(s, loaded)
           /\ env' = IF loaded = document.roots \cap LibraryRoot /\ new # {}
                     THEN [env EXCEPT ![s] = new] ELSE env
    /\ UNCHANGED <<stored, dirs, call, restarts>>

-----------------------------------------------------------------------------
DeletePack(r) == FindPack(r) \/ Unregister(r) \/ ClearDocument(r) \/ RemoveDirectory(r)

InstallPack(r) ==
    \/ ValidatePack(r) \/ StatDirectory(r) \/ MakeDirectory(r) \/ UpdateDocument(r)
    \/ \E root \in Root : MoveEntry(r, root)

RegisterPack(r) == ReadPack(r) \/ LoadLibrary(r) \/ SetScope(r)

Serve(r) ==
    \/ FindName(r) \/ CreateSku(r) \/ FindNamed(r) \/ PatchSku(r)
    \/ DeletePack(r) \/ InstallPack(r) \/ RegisterPack(r)
    \/ DestroySku(r) \/ Regenerate(r)

Next ==
    \/ \E r \in Request : (\E o \in Menu : Receive(r, o)) \/ Serve(r)
    \/ \E s \in Sku : StartSku(s)
    \/ \E i \in loading : LoadSettles(i)
    \/ Restart

Spec == Init /\ [][Next]_vars

-----------------------------------------------------------------------------
(* Properties                                                              *)

Idle(s) == starting = {} /\ \A r \in InFlight : call[r].sku # s

\* The library items of SKU s, and those still being loaded.
Lib(s) == {i \in library : i[1] = s}
Pending(s) == {i \in loading : i[1] = s}

\* Document, directory and handlers agree about the pack of a stored SKU.
Consistent(s) ==
    /\ DirRoots(s) = skus[s].roots
    /\ s \in skuHandlers <=> "httpStaticRoot" \in skus[s].roots

\* Nothing of SKU s is on disk or in memory.
NothingLeft(s) == s \notin DOMAIN dirs /\ s \notin skuHandlers

\* Everything pack p consists of is in its place for SKU s; of the library, what
\* has been awaited.
Served(s, p) ==
    /\ s \in DOMAIN skus /\ Contents[p].roots \subseteq skus[s].roots
    /\ \A root \in Contents[p].roots :
         /\ <<root, p>> \in Entries(s)
         /\ root \in LibraryRoot \ Unawaited => <<s, root, p>> \in library
    /\ "httpStaticRoot" \in Contents[p].roots => s \in skuHandlers

\* "duplicate name found": names are unique.
UniqueNames == \A s, t \in DOMAIN skus : skus[s].name = skus[t].name => s = t

=============================================================================
