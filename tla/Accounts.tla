------------------------------ MODULE Accounts ------------------------------
(***************************************************************************)
(* Users and roles: lib/services/account-api-service.js, behind the routes *)
(* of lib/api/2.0/users.js, lib/api/2.0/roles2.0.js and                    *)
(* lib/api/redfish-1.0/account-service.js.                                 *)
(*                                                                         *)
(* A user and a role are kept twice: as a document, and in an access       *)
(* control list that lives in memory and is rebuilt when the service       *)
(* starts.  A write to the database takes effect before its caller goes    *)
(* on, so an operation has one action for each awaited call, and another   *)
(* for the change it then makes to the list.                               *)
(***************************************************************************)
EXTENDS Naturals, FiniteSets

CONSTANTS
    User, Role, Privilege,
    Request,        \* REST requests
    Op,             \* [Request -> what is asked]
    DefaultRoles,   \* the hard-coded roles: [names -> privileges]
    InitialUsers,   \* users stored before the first start: [names -> role]
    None,           \* no role
    MaxRequests,    \* how many of the requests are made
    MaxInFlight,    \* how many calls are served at the same time
    MaxRestarts,    \* how often the process stops
    Faults          \* database calls that may reject: find, write, get

UserKind == {"createUser", "modifyUser", "removeUser"}
RoleKind == {"createRole", "modifyRole", "removeRole"}

\* A modification without a role changes the password only.
Operation ==
    [kind : {"createUser"}, name : User, value : Role]
    \cup [kind : {"modifyUser"}, name : User, value : Role \cup {None}]
    \cup [kind : {"removeUser"}, name : User, value : {None}]
    \cup [kind : {"createRole", "modifyRole"}, name : Role, value : SUBSET Privilege]
    \cup [kind : {"removeRole"}, name : Role, value : {None}]

Default == DOMAIN DefaultRoles

ASSUME AccountAssumption ==
    /\ Op \in [Request -> Operation]
    /\ DefaultRoles \in [Default -> SUBSET Privilege] /\ Default \subseteq Role
    /\ InitialUsers \in [DOMAIN InitialUsers -> Role] /\ DOMAIN InitialUsers \subseteq User
    /\ MaxRequests \in Nat /\ MaxInFlight \in Nat \ {0} /\ MaxRestarts \in Nat
    /\ Request \cap Role = {} /\ User \cap Role = {} /\ None \notin Request \cup Role

VARIABLES
    localusers,     \* the users collection: [stored name -> role]
    roles,          \* the roles collection: [stored name -> privileges]
    userRoles,      \* access control list: [User -> roles]
    roleParents,    \* access control list: [Role -> privileges]
    service,        \* down, starting, up
    restarts,       \* how often the process has stopped
    stage,          \* [call -> where it is]
    entry           \* [call -> the role of the user's document it has read]

documents == <<localusers, roles>>
acl == <<userRoles, roleParents>>
vars == <<documents, acl, service, restarts, stage, entry>>

\* A call of the service: one made by a request, or by start for a hard-coded role.
Call == Request \cup Default
Asked(c) == IF c \in Request THEN Op[c]
            ELSE [kind |-> "createRole", name |-> c, value |-> DefaultRoles[c]]
Kind(c) == Asked(c).kind
Subject(c) == Asked(c).name
Value(c) == Asked(c).value

Creates(c) == Kind(c) \in {"createUser", "createRole"}
Removes(c) == Kind(c) \in {"removeUser", "removeRole"}
Stored(n) == n \in DOMAIN localusers \/ n \in DOMAIN roles

Answered == {"ok", "failed"}
Stage == {"idle", "admit", "find", "revoke", "write", "grant", "get", "lost"} \cup Answered
InFlight == {c \in Call : stage[c] \notin {"idle", "lost"} \cup Answered}

Init ==
    /\ localusers = InitialUsers
    /\ roles = [n \in {} |-> {}]
    /\ userRoles = [u \in User |-> {}]
    /\ roleParents = [r \in Role |-> {}]
    /\ service = "down"
    /\ restarts = 0
    /\ stage = [c \in Call |-> "idle"]
    /\ entry = [c \in Call |-> None]

Goes(c, from, to) == stage[c] = from /\ stage' = [stage EXCEPT ![c] = to]

\* An awaited call rejects, and the operation with it; or its result ends it.
Fails(c, at) == Goes(c, at, "failed") /\ UNCHANGED <<documents, acl, entry>>
Rejects(c, at) == at \in Faults /\ Fails(c, at)

-----------------------------------------------------------------------------
(* Requests                                                                *)

\* The routes of users ask for the users first, and may refuse the request;
\* createRole does not look for the role before it writes.
FirstStage(c) ==
    CASE Kind(c) \in {"createUser", "modifyUser"} -> "admit"
      [] Kind(c) = "createRole" -> "write"
      [] OTHER -> "find"

Receive(c) ==
    /\ Goes(c, "idle", FirstStage(c))
    /\ service = "up"
    /\ Cardinality({d \in Request : stage[d] # "idle"}) < MaxRequests
    /\ Cardinality(InFlight) < MaxInFlight
    /\ UNCHANGED <<documents, acl, service, restarts, entry>>

\* addUser and createAccount list the users, modifyUser and modifyAccount get one;
\* what they find, or who asks, may be a reason to refuse.
Admit(c) ==
    /\ \/ /\ Goes(c, "admit", "find")
          /\ Kind(c) = "modifyUser" => Stored(Subject(c))
          /\ UNCHANGED <<documents, acl, entry>>
       \/ Fails(c, "admit")
    /\ UNCHANGED <<service, restarts>>

Find(c) ==
    /\ \/ /\ Goes(c, "find", "write")
          /\ Creates(c) /\ ~Stored(Subject(c))
          /\ UNCHANGED <<documents, acl, entry>>
       \/ /\ Goes(c, "find", "revoke")
          /\ ~Creates(c) /\ Stored(Subject(c))
          /\ entry' = [entry EXCEPT ![c] = IF Kind(c) \in UserKind THEN localusers[Subject(c)] ELSE None]
          /\ UNCHANGED <<documents, acl>>
       \/ Fails(c, "find") /\ (Creates(c) <=> Stored(Subject(c)))
       \/ Rejects(c, "find")
    /\ UNCHANGED <<service, restarts>>

\* A modification touches the list only when the role is a new one.
ChangesRole(c) == Value(c) # None /\ Value(c) # entry[c]

\* Mutation: a modification does not withdraw the role the user had.
WithdrawnOnRemoval(c) == IF Kind(c) = "removeUser" THEN {entry[c]} ELSE {}

\* The roles a call takes from its user in the list.
Withdrawn(c) == IF Kind(c) = "modifyUser" /\ ~ChangesRole(c) THEN {} ELSE {entry[c]}

Revoke(c) ==
    /\ Goes(c, "revoke", "write")
    /\ LET n == Subject(c) IN
       IF Kind(c) \in UserKind
       THEN userRoles' = [userRoles EXCEPT ![n] = @ \ Withdrawn(c)] /\ UNCHANGED roleParents
       ELSE roleParents' = [roleParents EXCEPT ![n] = {}] /\ UNCHANGED userRoles
    /\ UNCHANGED <<documents, service, restarts, entry>>

\* The documents after the write.  An update of a document that is gone is no
\* error; modifyRoleByRoleName passes the list of privileges where the changed
\* fields belong, so that it changes none.
Without(f, n) == [m \in DOMAIN f \ {n} |-> f[m]]
With(f, n, v) == [m \in DOMAIN f \cup {n} |-> IF m = n THEN v ELSE f[m]]

\* Mutation: a modification without a role takes the role away.
UsersWrittenBlank(c) ==
    CASE Kind(c) \in {"createUser", "modifyUser"} -> With(localusers, Subject(c), Value(c))
      [] Kind(c) = "removeUser" -> Without(localusers, Subject(c))
      [] OTHER -> localusers

UsersWritten(c) ==
    CASE Kind(c) = "createUser" -> With(localusers, Subject(c), Value(c))
      [] Kind(c) = "modifyUser" /\ Stored(Subject(c)) /\ Value(c) # None ->
            With(localusers, Subject(c), Value(c))
      [] Kind(c) = "removeUser" -> Without(localusers, Subject(c))
      [] OTHER -> localusers

RolesWritten(c) ==
    CASE Kind(c) = "createRole" -> With(roles, Subject(c), Value(c))
      [] Kind(c) = "removeRole" -> Without(roles, Subject(c))
      [] OTHER -> roles

\* Names are unique: a document that is there cannot be created again.
Refused(c) == Creates(c) /\ Stored(Subject(c))

Write(c) ==
    /\ \/ /\ Goes(c, "write", IF Removes(c) THEN "ok" ELSE "grant")
          /\ ~Refused(c)
          /\ localusers' = UsersWritten(c) /\ roles' = RolesWritten(c)
          /\ UNCHANGED <<acl, entry>>
       \/ Fails(c, "write") /\ Refused(c)
       \/ Rejects(c, "write")
    /\ UNCHANGED <<service, restarts>>

\* The roles a call gives its user in the list.
Granted(c) ==
    IF Kind(c) = "createUser" \/ (Kind(c) = "modifyUser" /\ ChangesRole(c)) THEN {Value(c)} ELSE {}

Grant(c) ==
    /\ Goes(c, "grant", "get")
    /\ LET n == Subject(c) IN
       IF Kind(c) \in UserKind
       THEN userRoles' = [userRoles EXCEPT ![n] = @ \cup Granted(c)] /\ UNCHANGED roleParents
       ELSE roleParents' = [roleParents EXCEPT ![n] = @ \cup Value(c)] /\ UNCHANGED userRoles
    /\ UNCHANGED <<documents, service, restarts, entry>>

\* getUserByName and getRoleByName make the answer.
Get(c) ==
    /\ \/ Goes(c, "get", "ok") /\ Stored(Subject(c)) /\ UNCHANGED <<documents, acl, entry>>
       \/ Fails(c, "get") /\ ~Stored(Subject(c))
       \/ Rejects(c, "get")
    /\ UNCHANGED <<service, restarts>>

-----------------------------------------------------------------------------
(* start, and the end of the process                                       *)

\* Mutation: the stored roles are not loaded, only the hard-coded ones are created.
LoadUsers ==
    /\ service = "down"
    /\ service' = "starting"
    /\ userRoles' = [u \in User |-> IF u \in DOMAIN localusers THEN {localusers[u]} ELSE {}]
    /\ roleParents' = [r \in Role |-> {}]
    /\ stage' = [c \in Call |-> IF c \in Default THEN "write" ELSE stage[c]]
    /\ UNCHANGED <<documents, restarts, entry>>

\* The list is built from the two collections, and the hard-coded roles are
\* created, all at the same time.
Load ==
    /\ service = "down"
    /\ service' = "starting"
    /\ userRoles' = [u \in User |-> IF u \in DOMAIN localusers THEN {localusers[u]} ELSE {}]
    /\ roleParents' = [r \in Role |-> IF r \in DOMAIN roles THEN roles[r] ELSE {}]
    /\ stage' = [c \in Call |-> IF c \in Default THEN "write" ELSE stage[c]]
    /\ UNCHANGED <<documents, restarts, entry>>

\* Mutation: the failure to create a role that is there is not masked.
StartedUnmasked ==
    /\ service = "starting"
    /\ \A c \in Default : stage[c] = "ok"
    /\ service' = "up"
    /\ UNCHANGED <<documents, acl, restarts, stage, entry>>

\* Promise.all settles when all have succeeded, or as soon as one has failed (a role
\* that is there already counts as failed); the others go on.
Started ==
    /\ service = "starting"
    /\ \/ \A c \in Default : stage[c] = "ok"
       \/ \E c \in Default : stage[c] = "failed"
    /\ service' = "up"
    /\ UNCHANGED <<documents, acl, restarts, stage, entry>>

\* The process ends between two steps: the list is lost, and so is every request.
Stop ==
    /\ restarts < MaxRestarts /\ service # "down"
    /\ restarts' = restarts + 1
    /\ service' = "down"
    /\ userRoles' = [u \in User |-> {}]
    /\ roleParents' = [r \in Role |-> {}]
    /\ stage' = [c \in Call |-> IF c \in InFlight THEN "lost" ELSE stage[c]]
    /\ UNCHANGED <<documents, entry>>

-----------------------------------------------------------------------------

ServeCall(c) == Admit(c) \/ Find(c) \/ Revoke(c) \/ Write(c) \/ Grant(c) \/ Get(c)

\* What the process does once it has work.
Serve == Load \/ Started \/ \E c \in Call : ServeCall(c)

Next ==
    \/ Serve
    \/ Stop
    \/ \E c \in Request : Receive(c)

Spec == Init /\ [][Next]_vars

\* The event loop runs what has settled; clients and the end of the process get no
\* fairness.
Fairness == WF_vars(Serve)

-----------------------------------------------------------------------------
(* Properties                                                              *)

\* Documents, list and calls are well-formed.
TypeOK ==
    /\ localusers \in [DOMAIN localusers -> Role] /\ DOMAIN localusers \subseteq User
    /\ roles \in [DOMAIN roles -> SUBSET Privilege] /\ DOMAIN roles \subseteq Role
    /\ userRoles \in [User -> SUBSET Role]
    /\ roleParents \in [Role -> SUBSET Privilege]
    /\ service \in {"down", "starting", "up"}
    /\ restarts \in 0 .. MaxRestarts
    /\ stage \in [Call -> Stage]
    /\ entry \in [Call -> Role \cup {None}]

\* A user has exactly the role of the document; a user who is not stored has none.
UserAgrees(u) == userRoles[u] = IF u \in DOMAIN localusers THEN {localusers[u]} ELSE {}

\* A role has exactly the privileges of the document.
RoleAgrees(r) == roleParents[r] = IF r \in DOMAIN roles THEN roles[r] ELSE {}

\* The service always comes up (start), and every request and every call of start
\* is answered, unless the process ends.
UpAndAnswered == []<>(service = "up" /\ InFlight = {})
=============================================================================
