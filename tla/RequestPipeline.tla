-------------------------- MODULE RequestPipeline --------------------------
(***************************************************************************)
(* A request on its way through the HTTP service: the middleware of        *)
(* lib/services/http-service.js, the fittings of lib/fittings in the order *)
(* of swagger_config/default.yaml, the controller, renderer and validator  *)
(* of lib/services/swagger-api-service.js, authentication                  *)
(* (lib/services/auth-service.js) and the Redfish sessions                 *)
(* (lib/api/redfish-1.0/session-service.js).                               *)
(*                                                                         *)
(* Sessions are a list in memory; a session is identified by the request   *)
(* that opened it, and so is a token.  One action is the synchronous code  *)
(* between two awaits.  The accounts are those of module Accounts, reduced *)
(* to what a request sees of them: the document and the entry in the       *)
(* access control list, written one after the other.                       *)
(***************************************************************************)
EXTENDS Naturals, FiniteSets

CONSTANTS
    User,
    Rights,         \* [User -> role and privileges the access control list gives]
    Request,
    Op,             \* [Request -> what is asked, and with which credential]
    None,
    Faults,         \* what may fail: "find", "validate", "handler", "render", "message"
    Changing,       \* users whose accounts are removed and created again
    MaxRequests,    \* how many of the requests are made
    MaxInFlight,    \* how many requests are served at the same time
    MaxRestarts,    \* how often the process stops
    MaxChanges      \* how often an account changes

Method == {"redfish", "basic", "jwt", "anonymous"}
Kind == {"login", "postSession", "getSessions", "getSession", "deleteSession", "other"}

\* accepts: the route's x-authentication-type.  user and right: the name and whether
\* the password is its password.  token: the request that was answered with the token.
Operation ==
    [kind : Kind, accepts : SUBSET Method, needs : SUBSET STRING,
     credential : {"none", "password", "token"}, user : User, right : BOOLEAN,
     token : Request \cup {None}, target : Request \cup {None}]

\* The routes that issue tokens take the password in the body, and need no authentication.
Issues(r) == Op[r].kind \in {"login", "postSession"}
UsesToken(r) == Op[r].credential = "token"

ASSUME PipelineAssumption ==
    /\ \A r \in Request :
          /\ DOMAIN Op[r] = {"kind", "accepts", "needs", "credential", "user", "right", "token", "target"}
          /\ Op[r].kind \in Kind /\ Op[r].accepts \subseteq Method
          /\ Op[r].user \in User /\ Op[r].token \in Request \cup {None}
          /\ Issues(r) => Op[r].accepts = {} /\ Op[r].credential = "none"
          /\ UsesToken(r) => /\ Op[r].token \in Request /\ Issues(Op[r].token)
                             /\ Op[r].user = Op[Op[r].token].user
    /\ None \notin Request \cup User
    /\ Changing \subseteq User /\ MaxRequests \in Nat /\ MaxInFlight \in Nat \ {0} /\ MaxRestarts \in Nat /\ MaxChanges \in Nat

VARIABLES
    account,        \* [User -> stored, revoked, gone, documented]
    redfishSessions,\* the sessions open, in memory
    expired,        \* the tokens that have expired
    stage,          \* [Request -> where it is]
    user,           \* [Request -> the user it is authenticated as, or None]
    roles,          \* [Request -> what req.hasRole answers]
    answer,         \* [Request -> what it was answered with, or "none"]
    restarts, changes

request == <<stage, user, roles, answer>>
world == <<account, expired, restarts, changes>>
vars == <<request, redfishSessions, world>>

\* refused: by authentication or authorization (401, 403, and 500 when the user cannot
\* be looked up); failed: any other error.
Code == {"ok", "refused", "failed"}
Stage == {"idle", "authn", "lookup", "authz", "roles", "validate", "found",
          "render", "refuse", "error", "done", "lost"}

InFlight == {r \in Request : stage[r] \notin {"idle", "done", "lost"}}

Documented(u) == account[u] \in {"stored", "revoked", "documented"}
Granted(u) == IF account[u] = "stored" THEN Rights[u] ELSE {}

Init ==
    /\ account = [u \in User |-> "stored"]
    /\ redfishSessions = {}
    /\ expired = {}
    /\ stage = [r \in Request |-> "idle"]
    /\ user = [r \in Request |-> None]
    /\ roles = [r \in Request |-> {}]
    /\ answer = [r \in Request |-> "none"]
    /\ restarts = 0 /\ changes = 0

-----------------------------------------------------------------------------
(* Steps of a request                                                      *)

Goes(r, from, to) == stage[r] = from /\ stage' = [stage EXCEPT ![r] = to]

HeadersSent(r) == answer[r] # "none"

Moves(r, from, to) == Goes(r, from, to) /\ UNCHANGED <<user, roles, answer>>

\* The answer is sent, and the request goes on to stage next.
Sends(r, from, code, next) ==
    /\ Goes(r, from, next)
    /\ answer' = [answer EXCEPT ![r] = code]
    /\ UNCHANGED <<user, roles>>

\* The pipe has come to its end, and the request is dropped with what it carries.
Drop(r) ==
    /\ stage' = [stage EXCEPT ![r] = "done"]
    /\ user' = [user EXCEPT ![r] = None]
    /\ roles' = [roles EXCEPT ![r] = {}]

Ends(r, from) == stage[r] = from /\ Drop(r) /\ UNCHANGED answer

Answers(r, from, code) ==
    /\ stage[r] = from /\ Drop(r)
    /\ answer' = [answer EXCEPT ![r] = code]

\* /login is a route of its own, mounted before those of the API documents.
FirstStage(r) == IF Op[r].kind = "login" THEN "lookup" ELSE "authn"

\* A token is known to the client that was answered with it.  httpEventMiddleware and
\* swagger_locals look up what they can, and go on whatever they find.
Receive(r) ==
    /\ Moves(r, "idle", FirstStage(r))
    /\ Cardinality({q \in Request : stage[q] # "idle"}) < MaxRequests
    /\ Cardinality(InFlight) < MaxInFlight
    /\ UsesToken(r) => answer[Op[r].token] = "ok"
    /\ Op[r].target \in Request => answer[Op[r].target] = "ok"
    /\ UNCHANGED <<redfishSessions, world>>

\* jwtStrategyRedfish: the token has not expired, and its user and id are a session.
SessionFound(r) ==
    /\ UsesToken(r) /\ Op[r].token \notin expired
    /\ Op[r].token \in redfishSessions

Authenticates(r) ==
    /\ Goes(r, "authn", "authz")
    /\ user' = [user EXCEPT ![r] = Op[r].user]
    /\ UNCHANGED <<roles, answer>>

\* The password, or the name in a JWT, must be that of a stored user.
AsksForUser(r) ==
    \/ {"basic"} \subseteq Op[r].accepts /\ Op[r].credential = "password"
    \/ {"jwt"} \subseteq Op[r].accepts /\ UsesToken(r) /\ Op[r].token \notin expired

\* swagger_authn and authenticateWithMethod: the strategies of the route are tried
\* in order; a route without any, and anonymous access, go on without a user.
Authn(r) ==
    /\ LET a == Op[r].accepts
           session == "redfish" \in a /\ SessionFound(r) IN
       CASE a = {} -> Moves(r, "authn", "authz")
         [] session -> Authenticates(r)
         [] ~session /\ AsksForUser(r) -> Moves(r, "authn", "lookup")
         [] ~session /\ ~AsksForUser(r) /\ "anonymous" \in a -> Moves(r, "authn", "authz")
         [] OTHER -> Answers(r, "authn", "refused")
    /\ UNCHANGED <<redfishSessions, world>>

UserFound(r) == Documented(Op[r].user) /\ (Op[r].credential = "token" \/ Op[r].right)

\* localStrategyAuth and jwtStrategyAuth: the answer of findOne.  authMiddlewareLogin
\* answers with a token, any other route goes on.
Lookup(r) ==
    /\ \/ "find" \in Faults /\ Answers(r, "lookup", "refused")
       \/ ~UserFound(r) /\ Answers(r, "lookup", "refused")
       \/ UserFound(r) /\ Op[r].kind = "login" /\ Answers(r, "lookup", "ok")
       \/ /\ UserFound(r) /\ Op[r].kind # "login"
          /\ Goes(r, "lookup", "authz")
          /\ user' = [user EXCEPT ![r] = Op[r].user]
          /\ UNCHANGED <<roles, answer>>
    /\ UNCHANGED <<redfishSessions, world>>

\* Mutation: a user without any role is not refused.
AllowedOrUnknown(r) == Granted(user[r]) = {} \/ Granted(user[r]) \cap Op[r].needs # {}

\* isAllowed of the access control list
IsAllowed(r) == Granted(user[r]) \cap Op[r].needs # {}

\* swagger_authz
Authz(r) ==
    /\ \/ user[r] = None /\ Moves(r, "authz", "validate")
       \/ user[r] # None /\ IsAllowed(r) /\ Moves(r, "authz", "roles")
       \/ user[r] # None /\ ~IsAllowed(r) /\ Answers(r, "authz", "refused")
    /\ UNCHANGED <<redfishSessions, world>>

\* Mutation: a user without roles, one who has been removed since IsAllowed among them, may log in.
RolesDefaulted(r) ==
    /\ Goes(r, "roles", "validate")
    /\ roles' = [roles EXCEPT ![r] = IF Granted(user[r]) = {} THEN {"Login"} ELSE Granted(user[r])]
    /\ UNCHANGED <<user, answer, redfishSessions, world>>

\* The roles are what they are now, whatever happens until they are used.
Roles(r) ==
    /\ Goes(r, "roles", "validate")
    /\ roles' = [roles EXCEPT ![r] = Granted(user[r])]
    /\ UNCHANGED <<user, answer, redfishSessions, world>>

\* swagger_validator and rackhd_validator refuse the parameters or the body; a valid
\* one is handled below.
Refusable(r) == "validate" \in Faults

Validate(r) ==
    /\ Refusable(r) /\ Moves(r, "validate", "error")
    /\ UNCHANGED <<redfishSessions, world>>

-----------------------------------------------------------------------------
(* The operations of session-service.js                                    *)

\* req.hasRole
HasRole(r, s) == s \in roles[r]
IsOwn(r) == user[r] = Op[Op[r].target].user /\ HasRole(r, "ConfigureSelf")
MaySee(r) == HasRole(r, "Administrator") \/ HasRole(r, "ConfigureUsers") \/ IsOwn(r)

\* A handler that lists, or one that has no access to sessions: it succeeds, fails, or
\* sends its answer itself and may then still fail.
Handle(r) ==
    /\ Op[r].kind \in {"getSessions", "other"}
    /\ \/ Moves(r, "validate", "render")
       \/ "handler" \in Faults /\ Moves(r, "validate", "error")
       \/ "handler" \in Faults /\ Moves(r, "validate", "refuse")
       \/ /\ Op[r].kind = "other"
          /\ \/ Answers(r, "validate", "ok")
             \/ "handler" \in Faults /\ Sends(r, "validate", "ok", "error")
    /\ UNCHANGED <<redfishSessions, world>>

\* postSession: localStrategyAuth is called by the handler; a failure of findOne has
\* no status.
PostSession(r) ==
    /\ Op[r].kind = "postSession"
    /\ \/ UserFound(r) /\ Moves(r, "validate", "render") /\ redfishSessions' = redfishSessions \cup {r}
       \/ ~UserFound(r) /\ Answers(r, "validate", "failed") /\ UNCHANGED redfishSessions
       \/ "find" \in Faults /\ Moves(r, "validate", "error") /\ UNCHANGED redfishSessions
    /\ UNCHANGED world

\* getSessionInfo and doLogoutSession look the session up and go on in the next turn;
\* a session deleted in between is treated as found.
FindSession(r) ==
    /\ Op[r].kind \in {"getSession", "deleteSession"}
    /\ \/ Op[r].target \in redfishSessions /\ Moves(r, "validate", "found")
       \/ Op[r].target \notin redfishSessions /\ Moves(r, "validate", "refuse")
    /\ UNCHANGED <<redfishSessions, world>>

GetSessionInfo(r) ==
    /\ Op[r].kind = "getSession"
    /\ \/ MaySee(r) /\ Moves(r, "found", "render")
       \/ ~MaySee(r) /\ Moves(r, "found", "refuse")
    /\ UNCHANGED <<redfishSessions, world>>

DoLogoutSession(r) ==
    /\ Op[r].kind = "deleteSession"
    /\ \/ MaySee(r) /\ Moves(r, "found", "render") /\ redfishSessions' = redfishSessions \ {Op[r].target}
       \/ ~MaySee(r) /\ Moves(r, "found", "refuse") /\ UNCHANGED redfishSessions
    /\ UNCHANGED world

-----------------------------------------------------------------------------
(* Answers                                                                 *)

\* Mutation: the renderer does not look whether the answer has been sent.
RendersAgain(r, from, code) == Answers(r, from, code)

\* swaggerRenderer does nothing to an answer that was sent.
Renders(r, from, code) ==
    \/ ~HeadersSent(r) /\ Answers(r, from, code)
    \/ HeadersSent(r) /\ Ends(r, from)

\* swagger_render: a view that cannot be rendered is an error.
Render(r) ==
    /\ \/ Renders(r, "render", "ok")
       \/ "render" \in Faults /\ Moves(r, "render", "error")
    /\ UNCHANGED <<redfishSessions, world>>

\* handleError of redfish-api-service.js answers in the format of Redfish, unless its
\* message cannot be made.
Refuse(r) ==
    /\ \/ Answers(r, "refuse", "failed")
       \/ "message" \in Faults /\ Moves(r, "refuse", "error")
    /\ UNCHANGED <<redfishSessions, world>>

\* error_handler; what it cannot render either is left to express, whose answer is an
\* error as well.
HandleError(r) == Renders(r, "error", "failed") /\ UNCHANGED <<redfishSessions, world>>

-----------------------------------------------------------------------------
(* Accounts, time and the end of the process                               *)

Becomes(u, from, to) == account[u] = from /\ account' = [account EXCEPT ![u] = to]

\* removeUserByName withdraws the role and destroys the document; createUser stores
\* the document and then grants the role.
ChangeAccount(u) ==
    /\ \/ Becomes(u, "stored", "revoked") /\ changes < MaxChanges /\ changes' = changes + 1
       \/ Becomes(u, "revoked", "gone") /\ UNCHANGED changes
       \/ Becomes(u, "gone", "documented") /\ changes < MaxChanges /\ changes' = changes + 1
       \/ Becomes(u, "documented", "stored") /\ UNCHANGED changes
    /\ UNCHANGED <<request, redfishSessions, expired, restarts>>

\* A token expires; nothing looks at the session.
Expire(r) ==
    /\ Issues(r) /\ answer[r] = "ok" /\ r \notin expired
    /\ expired' = expired \cup {r}
    /\ UNCHANGED <<request, redfishSessions, account, restarts, changes>>

\* The process ends, and starts again: requests and sessions are lost, the access
\* control list is built from the documents.
Restart ==
    /\ restarts < MaxRestarts
    /\ restarts' = restarts + 1
    /\ redfishSessions' = {}
    /\ account' = [u \in User |-> IF Documented(u) THEN "stored" ELSE "gone"]
    /\ stage' = [r \in Request |-> CASE r \notin InFlight -> stage[r]
                                     [] r \in InFlight /\ HeadersSent(r) -> "done"
                                     [] OTHER -> "lost"]
    /\ user' = [r \in Request |-> None]
    /\ roles' = [r \in Request |-> {}]
    /\ UNCHANGED <<answer, expired, changes>>

-----------------------------------------------------------------------------

Step(r) ==
    \/ Authn(r) \/ Lookup(r) \/ Authz(r) \/ Roles(r) \/ Validate(r)
    \/ Handle(r) \/ PostSession(r) \/ FindSession(r) \/ GetSessionInfo(r) \/ DoLogoutSession(r)
    \/ Render(r) \/ Refuse(r) \/ HandleError(r)

Serve == \E r \in InFlight : Step(r)

Next ==
    \/ Serve
    \/ Restart
    \/ \E r \in Request : Receive(r) \/ Expire(r)
    \/ \E u \in Changing : ChangeAccount(u)

\* The event loop runs what has settled; nothing else has to happen.
Spec == Init /\ [][Next]_vars /\ WF_vars(Serve)

-----------------------------------------------------------------------------
(* Properties                                                              *)

\* Accounts, sessions and requests are well-formed; only requests that asked for a
\* session are one, and a request that was let in has the roles of its user, or none when
\* that user has been removed between the two reads of the list.
TypeOK ==
    /\ account \in [User -> {"stored", "revoked", "gone", "documented"}]
    /\ redfishSessions \subseteq {r \in Request : Op[r].kind = "postSession"}
    /\ expired \subseteq {r \in Request : Issues(r) /\ answer[r] = "ok"}
    /\ stage \in [Request -> Stage]
    /\ user \in [Request -> User \cup {None}]
    /\ DOMAIN roles = Request
    /\ \A r \in Request : roles[r] # {} => user[r] # None /\ roles[r] = Rights[user[r]]
    /\ answer \in [Request -> Code \cup {"none"}]
    /\ restarts \in 0 .. MaxRestarts /\ changes \in 0 .. MaxChanges

\* What a client sees of the pipeline: InFlight, but for requests that go on after
\* their answer.
Waiting == {r \in InFlight : ~HeadersSent(r)}
Lost == {r \in Request : stage[r] = "lost"}

Service == INSTANCE RequestService WITH open <- Waiting, lost <- Lost, reply <- answer

\* The pipeline implements RequestService: every request that is accepted is answered
\* exactly once, whatever fails on the way, unless the process ends.
AnsweredOnce == Service!Spec
=============================================================================
