------------------------- MODULE MCRequestPipeline -------------------------
(* An instance of RequestPipeline for TLC.                                 *)
EXTENDS ObservedPipeline, TLC

CONSTANTS admin, operator, open, token, drop, root, jwt, find

MCRights ==
    admin :> {"Administrator", "Login", "ConfigureUsers"}
    @@ operator :> {"Operator", "Login", "ConfigureSelf"}

Asks(kind, accepts, credential, by, tok, target) ==
    [kind |-> kind, accepts |-> accepts, needs |-> {"Login", "ConfigureSelf"},
     credential |-> credential, user |-> by, right |-> TRUE, token |-> tok, target |-> target]

Redfish == {"redfish", "basic"}

\* A session of the operator, which is deleted with its own token; the service root,
\* which is also open to anybody, asked with that token; a login, and a route of the REST
\* API with its token; the session, looked up by the administrator.
Ops ==
    open :> Asks("postSession", {}, "none", operator, None, None)
    @@ token :> Asks("login", {}, "none", operator, None, None)
    @@ drop :> Asks("deleteSession", Redfish, "token", operator, open, open)
    @@ root :> Asks("other", Redfish \cup {"anonymous"}, "token", operator, open, None)
    @@ jwt :> Asks("other", {"jwt"}, "token", operator, token, None)
    @@ find :> Asks("getSession", Redfish, "password", admin, None, open)
=============================================================================
