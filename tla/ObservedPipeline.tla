-------------------------- MODULE ObservedPipeline --------------------------
(***************************************************************************)
(* What has been revoked when a request arrives at RequestPipeline: two    *)
(* history variables, which restrict nothing.                              *)
(***************************************************************************)
EXTENDS RequestPipeline

\* Requests under way whose token was no longer good when they arrived, and requests
\* of a user whose removal had been acknowledged then, and who is not there since.
VARIABLES late, orphan

\* The session of a token counts where the route looks at sessions; the token also
\* names its user, which is all that a route that takes any token reads.
Good(r) ==
    LET s == Op[r].token IN
    /\ s \notin expired
    /\ Op[s].kind = "postSession" /\ "jwt" \notin Op[r].accepts => s \in redfishSessions

Arrives(r) == stage[r] = "idle" /\ stage'[r] # "idle"

Observe ==
    /\ late' = {r \in InFlight' : r \in late \/ (Arrives(r) /\ UsesToken(r) /\ ~Good(r))}
    /\ orphan' = {r \in InFlight' : /\ r \in orphan \/ Arrives(r)
                                    /\ account'[Op[r].user] = "gone"}

ovars == <<vars, late, orphan>>
ObservedInit == Init /\ late = {} /\ orphan = {}
ObservedNext == Next /\ Observe
ObservedSpec == ObservedInit /\ [][ObservedNext]_ovars /\ WF_vars(Serve)

\* A token that has expired, a session that was deleted, on the routes that look at
\* sessions, and a user who was removed stay out: a request that arrives afterwards is
\* not let in for that user.
RevokedStaysOut ==
    \A r \in late \cup orphan : user[r] # None => stage[r] = "authz"
=============================================================================
