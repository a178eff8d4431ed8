----------------------- MODULE RequestPipelineProofs -----------------------
(***************************************************************************)
(* The HTTP pipeline answers a request at most once and loses none but     *)
(* those of a process that ends: the safety half of its refinement of      *)
(* RequestService, for any users, requests and routes.                     *)
(***************************************************************************)
EXTENDS ObservedPipeline, TLAPS

\* Where nothing has been sent, and where no role has been looked up either.
Unsent == {"authn", "lookup", "authz", "roles", "validate", "found", "render", "refuse"}
Early == {"idle", "authn", "lookup", "authz", "roles"}

\* Only an error handler and the end of the pipe meet an answer that was sent.
SentLate == \A r \in Request : HeadersSent(r) => stage[r] \in {"error", "done"}

RolesLate ==
    \A r \in Request :
        /\ stage[r] \in Early => roles[r] = {}
        /\ stage[r] = "roles" => user[r] # None

PInv == TypeOK /\ SentLate /\ RolesLate

-----------------------------------------------------------------------------
(* The kinds of steps there are                                            *)

Forward(r) ==
    \E from \in Unsent, to \in Unsent \cup {"error"} :
        /\ Moves(r, from, to)
        /\ to \in Early => from \in Early
        /\ to = "roles" => user[r] # None

Named(r) ==
    /\ \E from \in {"authn", "lookup"} : Goes(r, from, "authz")
    /\ user' = [user EXCEPT ![r] = Op[r].user]
    /\ UNCHANGED <<roles, answer>>

Roled(r) ==
    /\ Goes(r, "roles", "validate")
    /\ roles' = [roles EXCEPT ![r] = Granted(user[r])]
    /\ UNCHANGED <<user, answer>>

Replied(r) ==
    \E from \in Unsent \cup {"error"}, code \in Code : Answers(r, from, code) /\ ~HeadersSent(r)

SentFirst(r) == Sends(r, "validate", "ok", "error")
Finished(r) == Ends(r, "error") /\ HeadersSent(r)

Kinds(r) == Forward(r) \/ Named(r) \/ Roled(r) \/ Replied(r) \/ SentFirst(r) \/ Finished(r)

SessionsKeep == redfishSessions' \subseteq {q \in Request : Op[q].kind = "postSession"}

LEMMA StepKinds ==
    ASSUME PInv, NEW r \in Request, Step(r)
    PROVE  Kinds(r) /\ SessionsKeep /\ UNCHANGED world
  <1> USE DEF Unsent, Early, Code
  <1>1. stage[r] \in Unsent => ~HeadersSent(r)
    BY DEF PInv, SentLate
  <1>2. UNCHANGED redfishSessions => SessionsKeep
    BY DEF PInv, TypeOK, SessionsKeep
  <1>3. CASE Authn(r)
    <2>1. \/ Moves(r, "authn", "authz") \/ Moves(r, "authn", "lookup")
          \/ Authenticates(r) \/ Answers(r, "authn", "refused")
      BY <1>3 DEF Authn
    <2> QED BY <1>1, <1>2, <1>3, <2>1
            DEF Authn, Kinds, Forward, Named, Replied, Authenticates, Answers, Moves, Goes
  <1>4. CASE Lookup(r)
    BY <1>1, <1>2, <1>4 DEF Lookup, Kinds, Named, Replied, Answers, Goes
  <1>5. CASE Authz(r)
    BY <1>1, <1>2, <1>5 DEF Authz, Kinds, Forward, Replied, Answers, Moves, Goes
  <1>6. CASE Roles(r)
    BY <1>2, <1>6 DEF Roles, Kinds, Roled
  <1>7. CASE Validate(r) \/ FindSession(r) \/ GetSessionInfo(r)
    BY <1>2, <1>7 DEF Validate, FindSession, GetSessionInfo, Kinds, Forward, Moves, Goes
  <1>8. CASE Handle(r)
    BY <1>1, <1>2, <1>8 DEF Handle, Kinds, Forward, Replied, SentFirst, Answers, Moves, Goes
  <1>9. CASE PostSession(r)
    BY <1>1, <1>2, <1>9 DEF PostSession, Kinds, Forward, Replied, Answers, Moves, Goes,
                            SessionsKeep, PInv, TypeOK
  <1>10. CASE DoLogoutSession(r)
    BY <1>2, <1>10 DEF DoLogoutSession, Kinds, Forward, Moves, Goes, SessionsKeep, PInv, TypeOK
  <1>11. CASE Render(r)
    BY <1>1, <1>2, <1>11 DEF Render, Renders, Kinds, Forward, Replied, Answers, Ends, Moves, Goes
  <1>12. CASE Refuse(r)
    BY <1>1, <1>2, <1>12 DEF Refuse, Kinds, Forward, Replied, Answers, Moves, Goes
  <1>13. CASE HandleError(r)
    BY <1>2, <1>13 DEF HandleError, Renders, Kinds, Replied, Finished
  <1> QED BY <1>3, <1>4, <1>5, <1>6, <1>7, <1>8, <1>9, <1>10, <1>11, <1>12, <1>13 DEF Step

-----------------------------------------------------------------------------
(* Each of them keeps the invariant                                        *)

LEMMA KindsKeep ==
    ASSUME PInv, NEW r \in Request, Kinds(r), SessionsKeep, UNCHANGED world
    PROVE  PInv'
  <1> USE PipelineAssumption DEF Unsent, Early, Code, Stage, PInv, TypeOK, SentLate, RolesLate,
          SessionsKeep, world, Goes, HeadersSent
  <1>1. CASE Forward(r)
    BY <1>1 DEF Forward, Moves
  <1>2. CASE Named(r)
    BY <1>2 DEF Named
  <1>3. CASE Roled(r)
    <2>1. roles'[r] # {} => roles'[r] = Rights[user[r]] /\ user[r] # None
      BY <1>3 DEF Roled, Granted
    <2> QED BY <1>3, <2>1 DEF Roled
  <1>4. CASE Replied(r)
    BY <1>4 DEF Replied, Answers, Drop
  <1>5. CASE SentFirst(r)
    BY <1>5 DEF SentFirst, Sends
  <1>6. CASE Finished(r)
    BY <1>6 DEF Finished, Ends, Drop
  <1> QED BY <1>1, <1>2, <1>3, <1>4, <1>5, <1>6 DEF Kinds

LEMMA PInvStep == PInv /\ [Next]_vars => PInv'
  <1> SUFFICES ASSUME PInv, [Next]_vars PROVE PInv'
    OBVIOUS
  <1>1. CASE Serve
    <2>1. PICK r \in InFlight : Step(r)
      BY <1>1 DEF Serve
    <2> QED BY <2>1, StepKinds, KindsKeep DEF InFlight
  <1> USE PipelineAssumption DEF Unsent, Early, Code, Stage, PInv, TypeOK, SentLate, RolesLate, HeadersSent
  <1>2. ASSUME NEW r \in Request, Receive(r) PROVE PInv'
    BY <1>2 DEF Receive, Moves, Goes, FirstStage, world
  <1>3. ASSUME NEW r \in Request, Expire(r) PROVE PInv'
    BY <1>3 DEF Expire, request
  <1>4. ASSUME NEW u \in Changing, ChangeAccount(u) PROVE PInv'
    <2>1. u \in User /\ changes' \in 0 .. MaxChanges /\ UNCHANGED <<request, redfishSessions, expired, restarts>>
      BY <1>4 DEF ChangeAccount
    <2>2. account' \in [User -> {"stored", "revoked", "gone", "documented"}]
      BY <1>4, <2>1 DEF ChangeAccount, Becomes
    <2> QED BY <2>1, <2>2 DEF request
  <1>5. CASE Restart
    <2>1. ASSUME NEW q \in Request
          PROVE  /\ stage'[q] = CASE q \notin InFlight -> stage[q]
                                  [] q \in InFlight /\ HeadersSent(q) -> "done"
                                  [] OTHER -> "lost"
                 /\ stage'[q] \in {"idle", "done", "lost"}
                 /\ answer[q] # "none" => stage'[q] = "done"
      BY <1>5 DEF Restart, InFlight
    <2>2. stage' \in [Request -> Stage]
      <3>1. DOMAIN stage' = Request /\ stage' = [q \in Request |-> stage'[q]]
        BY <1>5 DEF Restart
      <3> QED BY <2>1, <3>1
    <2>3. account' \in [User -> {"stored", "revoked", "gone", "documented"}]
      BY <1>5 DEF Restart
    <2> QED BY <1>5, <2>1, <2>2, <2>3 DEF Restart
  <1>6. CASE UNCHANGED vars
    BY <1>6 DEF vars, request, world
  <1> QED BY <1>1, <1>2, <1>3, <1>4, <1>5, <1>6 DEF Next

LEMMA PInvInit == Init => PInv
  BY PipelineAssumption
     DEF Init, PInv, TypeOK, SentLate, RolesLate, HeadersSent, Stage, Code, Early

\* Requests are where they are said to be, as whom they were authenticated and with the
\* rights of that user; only requests for a session are sessions (auth-service.js,
\* swagger_authz.js, session-service.js).
THEOREM PipelineTypes == Spec => []TypeOK
  <1>1. PInv => TypeOK
    BY DEF PInv
  <1> QED BY <1>1, PInvInit, PInvStep, PTL DEF Spec

-----------------------------------------------------------------------------
(* What the client sees                                                    *)

LEMMA KindsServe ==
    ASSUME PInv, NEW r \in Request, Kinds(r)
    PROVE  [Service!Next]_(Service!vars)
  <1> USE PipelineAssumption DEF Unsent, Early, Code, PInv, TypeOK, SentLate, HeadersSent, Goes,
          Waiting, InFlight, Lost
  <1>1. CASE Forward(r) \/ Named(r) \/ Roled(r)
    <2>1. PICK from \in Unsent, to \in Unsent \cup {"error"} : Goes(r, from, to) /\ answer' = answer
      BY <1>1 DEF Forward, Named, Roled, Moves
    <2>2. Waiting' = Waiting /\ Lost' = Lost
      BY <2>1
    <2> QED BY <2>1, <2>2 DEF Service!vars
  <1>2. CASE Replied(r) \/ SentFirst(r)
    <2>1. PICK code \in Code, from \in Unsent \cup {"error"}, to \in {"done", "error"} :
              /\ Goes(r, from, to) /\ ~HeadersSent(r)
              /\ answer' = [answer EXCEPT ![r] = code]
      BY <1>2 DEF Replied, SentFirst, Sends, Answers, Drop
    <2>2. /\ r \in Waiting /\ Waiting' = Waiting \ {r} /\ Lost' = Lost
          /\ answer'[r] \in Code /\ answer' = [answer EXCEPT ![r] = answer'[r]]
      BY <2>1
    <2>3. Service!Answer(r)
      BY <2>2 DEF Service!Answer
    <2> QED BY <2>3 DEF Service!Next
  <1>3. CASE Finished(r)
    <2>1. Waiting' = Waiting /\ Lost' = Lost /\ answer' = answer
      BY <1>3 DEF Finished, Ends, Drop
    <2> QED BY <2>1 DEF Service!vars
  <1> QED BY <1>1, <1>2, <1>3 DEF Kinds

LEMMA StepServes == PInv /\ [Next]_vars => [Service!Next]_(Service!vars)
  <1> SUFFICES ASSUME PInv, [Next]_vars PROVE [Service!Next]_(Service!vars)
    OBVIOUS
  <1>1. CASE Serve
    <2>1. PICK r \in InFlight : Step(r)
      BY <1>1 DEF Serve
    <2> QED BY <2>1, StepKinds, KindsServe DEF InFlight
  <1> USE PipelineAssumption DEF PInv, TypeOK, SentLate, HeadersSent, Waiting, InFlight, Lost
  <1>2. ASSUME NEW r \in Request, Receive(r) PROVE [Service!Next]_(Service!vars)
    <2>1. /\ stage[r] = "idle" /\ answer[r] = "none" /\ answer' = answer
          /\ Waiting' = Waiting \cup {r} /\ Lost' = Lost
      BY <1>2 DEF Receive, Moves, Goes, FirstStage
    <2>2. Service!Accept(r)
      BY <2>1 DEF Service!Accept
    <2> QED BY <2>2 DEF Service!Next
  <1>3. ASSUME UNCHANGED <<stage, answer>> PROVE [Service!Next]_(Service!vars)
    <2>1. Waiting' = Waiting /\ Lost' = Lost /\ answer' = answer
      BY <1>3
    <2> QED BY <2>1 DEF Service!vars
  <1>4. CASE Restart
    <2>1. ASSUME NEW q \in Request
          PROVE  /\ q \notin InFlight => stage'[q] = stage[q]
                 /\ q \in InFlight => stage'[q] = IF answer[q] # "none" THEN "done" ELSE "lost"
      BY <1>4 DEF Restart
    <2>2. Waiting' = {} /\ Lost' = Lost \cup Waiting /\ answer' = answer
      BY <1>4, <2>1 DEF Restart
    <2>3. CASE Waiting = {}
      BY <2>2, <2>3 DEF Service!vars
    <2>4. CASE Waiting # {}
      <3>1. Service!Crash
        BY <2>2, <2>4 DEF Service!Crash
      <3> QED BY <3>1 DEF Service!Next
    <2> QED BY <2>3, <2>4
  <1>5. ASSUME NEW r \in Request, Expire(r) PROVE UNCHANGED <<stage, answer>>
    BY <1>5 DEF Expire, request
  <1>6. ASSUME NEW u \in Changing, ChangeAccount(u) PROVE UNCHANGED <<stage, answer>>
    BY <1>6 DEF ChangeAccount, request
  <1>7. CASE UNCHANGED vars
    BY <1>3, <1>7 DEF vars, request
  <1> QED BY <1>1, <1>2, <1>3, <1>4, <1>5, <1>6, <1>7 DEF Next

\* Every step of the pipeline is a step of RequestService or none: no request is answered
\* twice, none is answered that was not accepted, and only the end of the process loses
\* one (swagger-api-service.js, the fittings).
THEOREM PipelineServes == Spec => Service!Init /\ [][Service!Next]_(Service!vars)
  <1>1. Init => Service!Init
    BY DEF Init, Service!Init, Waiting, InFlight, Lost
  <1> QED BY <1>1, PInvInit, PInvStep, StepServes, PTL DEF Spec

-----------------------------------------------------------------------------
(* What was revoked                                                        *)

\* Nobody is known before the credential has been looked at.
UserLate == \A r \in Request : stage[r] \in {"idle", "authn", "lookup"} => user[r] = None

\* A request that came with a token that was no longer good never gets a user: its token
\* was answered for good, so that nothing makes it a session again.
LateOut ==
    \A r \in late :
        /\ UsesToken(r) /\ ~Good(r) /\ answer[Op[r].token] = "ok"
        /\ user[r] = None /\ stage[r] # "lookup"

\* One of a user who was removed may get the user from a session that was left behind, and
\* then meets the empty access control list.
OrphanOut ==
    \A r \in orphan :
        /\ account[Op[r].user] = "gone"
        /\ user[r] # None => user[r] = Op[r].user /\ stage[r] = "authz"

OutInv ==
    /\ PInv /\ UserLate /\ LateOut /\ OrphanOut
    /\ late \subseteq Request /\ orphan \subseteq Request

\* A step of another request, and one that changes no request.
LEMMA Elsewhere ==
    ASSUME PInv, NEW q \in Request, Kinds(q), NEW r \in Request, r # q
    PROVE  stage'[r] = stage[r] /\ user'[r] = user[r] /\ answer'[r] = answer[r]
  <1> USE DEF PInv, TypeOK, Kinds, Goes
  <1>1. CASE Forward(q)
    BY <1>1 DEF Forward, Moves
  <1>2. CASE Named(q) \/ Roled(q)
    BY <1>2 DEF Named, Roled
  <1>3. CASE Replied(q)
    BY <1>3 DEF Replied, Answers, Drop
  <1>4. CASE SentFirst(q) \/ Finished(q)
    BY <1>4 DEF SentFirst, Sends, Finished, Ends, Drop
  <1> QED BY <1>1, <1>2, <1>3, <1>4

\* What a step does to the user and the answer of its request.
LEMMA OwnStep ==
    ASSUME PInv, NEW r \in Request, Kinds(r)
    PROVE  /\ stage[r] # "idle" /\ stage'[r] # "idle"
           /\ stage[r] \notin {"authn", "lookup"} => user'[r] \in {user[r], None}
           /\ stage'[r] \in {"authn", "lookup"} => user'[r] = user[r] /\ stage[r] \in Early
           /\ answer[r] # "none" => answer'[r] = answer[r]
  <1> USE PipelineAssumption
      DEF PInv, TypeOK, SentLate, Kinds, Goes, Unsent, Early, HeadersSent, Stage, Code
  <1>1. CASE Forward(r)
    BY <1>1 DEF Forward, Moves
  <1>2. CASE Named(r) \/ Roled(r)
    BY <1>2 DEF Named, Roled
  <1>3. CASE Replied(r)
    BY <1>3 DEF Replied, Answers, Drop
  <1>4. CASE SentFirst(r) \/ Finished(r)
    BY <1>4 DEF SentFirst, Sends, Finished, Ends, Drop
  <1> QED BY <1>1, <1>2, <1>3, <1>4

\* The token of a late request stays bad, since it is not its request that opens a session.
LEMMA StaysBad ==
    ASSUME OutInv, NEW r \in late, expired \subseteq expired',
           \A q \in redfishSessions' \ redfishSessions : answer[q] = "none"
    PROVE  ~Good(r)'
  <1> DEFINE s == Op[r].token
  <1>1. ~Good(r) /\ answer[s] = "ok"
    BY DEF OutInv, LateOut
  <1>2. CASE s \in expired
    BY <1>2 DEF Good
  <1>3. CASE Op[s].kind = "postSession" /\ "jwt" \notin Op[r].accepts /\ s \notin redfishSessions
    BY <1>1, <1>3 DEF Good
  <1> QED BY <1>1, <1>2, <1>3 DEF Good

\* A late request is not authenticated by any of the strategies, ...
LEMMA LateStep ==
    ASSUME OutInv, NEW r \in late, Step(r)
    PROVE  user'[r] = None /\ stage'[r] # "lookup"
  <1>1. /\ UsesToken(r) /\ ~Good(r) /\ user[r] = None /\ stage[r] # "lookup"
        /\ r \in Request /\ PInv
    BY DEF OutInv, LateOut
  <1>2. Kinds(r)
    BY <1>1, StepKinds
  <1>3. ~SessionFound(r)
    BY <1>1 DEF OutInv, LateOut, PInv, TypeOK, SessionFound, Good
  <1>4. ~AsksForUser(r)
    BY <1>1 DEF AsksForUser, UsesToken, Good
  <1>5. CASE Authn(r)
    <2>1. \/ Moves(r, "authn", "authz") \/ Answers(r, "authn", "refused")
          \/ Moves(r, "authn", "lookup") /\ AsksForUser(r)
      BY <1>3, <1>5 DEF Authn
    <2> QED BY <1>1, <1>4, <2>1 DEF Moves, Answers, Goes, Drop, PInv, TypeOK
  <1>6. CASE stage[r] # "authn"
    <2>1. user'[r] = None
      BY <1>1, <1>2, <1>6, OwnStep
    <2>2. CASE Authz(r) \/ Roles(r)
      BY <1>1, <2>2 DEF Authz, Roles, Moves, Answers, Goes, Drop, PInv, TypeOK
    <2>3. CASE ~Authz(r) /\ ~Roles(r)
      <3>1. ~Authn(r)
        BY <1>6 DEF Authn, Authenticates, Moves, Answers, Goes
      <3>2. ~Lookup(r)
        BY <1>1 DEF Lookup, Answers, Goes
      <3>3. stage[r] \notin Early
        BY <2>3, <3>1, <3>2 DEF Early, Step, Validate, Handle, PostSession, FindSession,
           GetSessionInfo, DoLogoutSession, Render, Renders, Refuse, HandleError,
           Moves, Goes, Answers, Sends, Ends
      <3>4. stage'[r] # "lookup"
        BY <1>1, <1>2, <3>3, OwnStep
      <3> QED BY <2>1, <3>4
    <2> QED BY <2>2, <2>3
  <1>7. stage[r] = "authn" => Authn(r)
    BY DEF Step, Lookup, Authz, Roles, Validate, Handle, PostSession, FindSession,
       GetSessionInfo, DoLogoutSession, Render, Renders, Refuse, HandleError, Moves, Goes, Answers,
       Sends, Ends
  <1> QED BY <1>5, <1>6, <1>7

\* ... and the user of an orphan gets no further than to the access control list.
LEMMA OrphanStep ==
    ASSUME OutInv, NEW r \in orphan, Step(r)
    PROVE  user'[r] # None => user'[r] = Op[r].user /\ stage'[r] = "authz"
  <1>1. /\ account[Op[r].user] = "gone" /\ r \in Request /\ PInv
        /\ user[r] # None => user[r] = Op[r].user /\ stage[r] = "authz"
    BY DEF OutInv, OrphanOut
  <1>2. Kinds(r)
    BY <1>1, StepKinds
  <1>3. ~UserFound(r) /\ Granted(Op[r].user) = {}
    BY <1>1 DEF UserFound, Documented, Granted
  <1>4. CASE Authn(r)
    <2>1. \/ Moves(r, "authn", "authz") \/ Moves(r, "authn", "lookup")
          \/ Authenticates(r) \/ Answers(r, "authn", "refused")
      BY <1>4 DEF Authn
    <2> QED BY <1>1, <2>1 DEF Authenticates, Answers, Drop, Moves, Goes, PInv, TypeOK
  <1>5. CASE Lookup(r)
    BY <1>1, <1>3, <1>5 DEF Lookup, Answers, Drop, PInv, TypeOK
  <1>6. CASE Authz(r)
    <2>1. CASE user[r] = None
      BY <1>1, <1>6, <2>1 DEF Authz, Moves, PInv, TypeOK
    <2>2. CASE user[r] # None
      <3>1. ~IsAllowed(r)
        BY <1>1, <1>3, <2>2 DEF IsAllowed
      <3> QED BY <1>1, <1>6, <2>2, <3>1 DEF Authz, Answers, Drop, PInv, TypeOK
    <2> QED BY <2>1, <2>2
  <1>7. CASE ~Authn(r) /\ ~Lookup(r) /\ ~Authz(r)
    <2>1. stage[r] \notin {"authn", "lookup", "authz"}
      BY <1>7 DEF Step, Roles, Validate, Handle, PostSession, FindSession,
         GetSessionInfo, DoLogoutSession, Render, Renders, Refuse, HandleError, Moves, Goes, Answers,
         Sends, Ends
    <2> QED BY <1>1, <1>2, <2>1, OwnStep
  <1> QED BY <1>4, <1>5, <1>6, <1>7

\* A request that arrives has no user, and goes to be looked up only without a token.
LEMMA ArrivalStep ==
    ASSUME OutInv, NEW r \in Request, Receive(r)
    PROVE  /\ stage[r] = "idle" /\ user[r] = None /\ user' = user /\ answer' = answer
           /\ UsesToken(r) => answer[Op[r].token] = "ok" /\ stage'[r] # "lookup"
           /\ \A q \in Request : q # r => stage'[q] = stage[q]
           /\ stage'[r] # "idle"
  <1>1. /\ stage[r] = "idle" /\ stage' = [stage EXCEPT ![r] = FirstStage(r)]
        /\ user' = user /\ answer' = answer /\ stage \in [Request -> Stage]
        /\ UsesToken(r) => answer[Op[r].token] = "ok"
    BY DEF Receive, Moves, Goes, OutInv, PInv, TypeOK
  <1>2. user[r] = None
    BY <1>1 DEF OutInv, UserLate
  <1>3. UsesToken(r) => Op[r].kind # "login"
    BY PipelineAssumption DEF Issues, UsesToken
  <1> QED BY <1>1, <1>2, <1>3 DEF FirstStage

LEMMA OutInvServe ==
    ASSUME OutInv, Observe, NEW q \in InFlight, Step(q)
    PROVE  OutInv'
  <1>1. /\ q \in Request /\ PInv /\ Kinds(q) /\ UNCHANGED world /\ PInv'
    BY StepKinds, KindsKeep DEF OutInv, InFlight
  <1>2. late' \subseteq Request /\ orphan' \subseteq Request
    BY DEF Observe, InFlight
  <1>3. UserLate'
    <2> SUFFICES ASSUME NEW r \in Request, stage'[r] \in {"idle", "authn", "lookup"}
                 PROVE  user'[r] = None
      BY DEF UserLate
    <2>1. CASE r = q
      <3>1. stage'[q] \in {"authn", "lookup"}
        BY <1>1, <2>1, OwnStep
      <3>2. user'[q] = user[q] /\ stage[q] \in Early
        BY <1>1, <3>1, OwnStep
      <3>3. CASE stage[q] \in {"authn", "lookup"}
        BY <2>1, <3>2, <3>3 DEF OutInv, UserLate
      <3>4. CASE stage[q] \in {"authz", "roles"}
        <4>1. ~Authn(q)
          BY <3>4 DEF Authn, Authenticates, Moves, Answers, Goes
        <4>2. Authz(q) \/ Roles(q)
          BY <3>4, <4>1 DEF Step, Lookup, Validate, Handle, PostSession, FindSession,
             GetSessionInfo, DoLogoutSession, Render, Renders, Refuse, HandleError,
             Moves, Goes, Answers, Sends, Ends
        <4>3. stage'[q] \notin {"authn", "lookup"}
          BY <1>1, <4>2 DEF Authz, Roles, Moves, Answers, Goes, Drop, PInv, TypeOK
        <4> QED BY <3>1, <4>3
      <3> QED BY <1>1, <3>2, <3>3, <3>4, OwnStep DEF Early
    <2>2. CASE r # q
      BY <1>1, <2>2, Elsewhere DEF OutInv, UserLate
    <2> QED BY <2>1, <2>2
  <1>4. ASSUME NEW r \in Request PROVE ~Arrives(r)
    <2>1. CASE r = q
      BY <1>1, <2>1, OwnStep DEF Arrives
    <2>2. CASE r # q
      BY <1>1, <2>2, Elsewhere DEF Arrives
    <2> QED BY <2>1, <2>2
  <1>5. late' \subseteq late /\ orphan' \subseteq orphan
    BY <1>2, <1>4 DEF Observe
  <1>6. expired' = expired /\ account' = account
    BY <1>1 DEF world
  <1>7. \A p \in redfishSessions' \ redfishSessions : answer[p] = "none"
    <2>1. CASE PostSession(q)
      <3>1. stage[q] = "validate" /\ redfishSessions' \subseteq redfishSessions \cup {q}
        BY <2>1 DEF PostSession, Moves, Answers, Goes
      <3>2. answer[q] = "none"
        BY <1>1, <3>1 DEF PInv, SentLate, HeadersSent
      <3> QED BY <3>1, <3>2
    <2>2. CASE ~PostSession(q)
      <3>1. redfishSessions' \subseteq redfishSessions
        BY <2>2 DEF Step, Authn, Lookup, Authz, Roles, Validate, Handle, FindSession, GetSessionInfo,
           DoLogoutSession, Render, Refuse, HandleError
      <3> QED BY <3>1
    <2> QED BY <2>1, <2>2
  <1>8. ASSUME NEW s \in Request, answer[s] = "ok" PROVE answer'[s] = "ok"
    <2>1. CASE s = q
      BY <1>1, <1>8, <2>1, OwnStep
    <2>2. CASE s # q
      BY <1>1, <1>8, <2>2, Elsewhere
    <2> QED BY <2>1, <2>2
  <1>9. LateOut'
    <2> SUFFICES ASSUME NEW r \in late'
                 PROVE  /\ UsesToken(r) /\ ~Good(r)' /\ answer'[Op[r].token] = "ok"
                        /\ user'[r] = None /\ stage'[r] # "lookup"
      BY DEF LateOut, UsesToken
    <2>1. r \in late /\ r \in Request /\ UsesToken(r) /\ Op[r].token \in Request
      BY <1>2, <1>5, PipelineAssumption DEF OutInv, LateOut
    <2>2. ~Good(r)'
      BY <1>6, <1>7, <2>1, StaysBad
    <2>3. answer'[Op[r].token] = "ok"
      BY <1>8, <2>1 DEF OutInv, LateOut
    <2>4. CASE r = q
      BY <2>1, <2>2, <2>3, <2>4, LateStep
    <2>5. CASE r # q
      BY <1>1, <2>1, <2>2, <2>3, <2>5, Elsewhere DEF OutInv, LateOut
    <2> QED BY <2>4, <2>5
  <1>10. OrphanOut'
    <2> SUFFICES ASSUME NEW r \in orphan'
                 PROVE  /\ account'[Op[r].user] = "gone"
                        /\ user'[r] # None => user'[r] = Op[r].user /\ stage'[r] = "authz"
      BY DEF OrphanOut
    <2>1. r \in orphan /\ r \in Request /\ account'[Op[r].user] = "gone"
      BY <1>2, <1>5, <1>6 DEF OutInv, OrphanOut
    <2>2. CASE r = q
      BY <2>1, <2>2, OrphanStep
    <2>3. CASE r # q
      BY <1>1, <2>1, <2>3, Elsewhere DEF OutInv, OrphanOut
    <2> QED BY <2>1, <2>2, <2>3
  <1> QED BY <1>1, <1>2, <1>3, <1>9, <1>10 DEF OutInv

LEMMA OutInvStep == OutInv /\ [ObservedNext]_ovars => OutInv'
  <1> SUFFICES ASSUME OutInv, [ObservedNext]_ovars PROVE OutInv'
    OBVIOUS
  <1>1. PInv'
    BY PInvStep DEF OutInv, ObservedNext, ovars
  <1>2. CASE UNCHANGED ovars
    BY <1>1, <1>2 DEF ovars, vars, request, world, OutInv, UserLate, LateOut, OrphanOut, Good, UsesToken
  <1> SUFFICES ASSUME Next, Observe PROVE OutInv'
    BY <1>2 DEF ObservedNext
  <1>3. late' \subseteq Request /\ orphan' \subseteq Request
    BY DEF Observe, InFlight
  <1>4. ASSUME NEW q \in InFlight, Step(q) PROVE OutInv'
    BY <1>4, OutInvServe
  <1>5. ASSUME NEW q \in Request, Receive(q) PROVE OutInv'
    <2>1. /\ redfishSessions' = redfishSessions /\ expired' = expired /\ account' = account
          /\ user[q] = None /\ user' = user /\ answer' = answer
          /\ UsesToken(q) => answer[Op[q].token] = "ok" /\ stage'[q] # "lookup"
          /\ \A r \in Request : r # q => stage'[r] = stage[r]
          /\ stage[q] = "idle" /\ stage'[q] # "idle"
      BY <1>5, ArrivalStep DEF Receive, world
    <2>2. UserLate'
      BY <2>1 DEF OutInv, UserLate
    <2>3. \A r \in late' : r # q => r \in late
      BY <1>3, <2>1 DEF Observe, Arrives
    <2>4. \A r \in orphan' : r # q => r \in orphan
      BY <1>3, <2>1 DEF Observe, Arrives
    <2>5. LateOut'
      <3> SUFFICES ASSUME NEW r \in late'
                   PROVE  /\ UsesToken(r) /\ ~Good(r)' /\ answer'[Op[r].token] = "ok"
                          /\ user'[r] = None /\ stage'[r] # "lookup"
        BY DEF LateOut, UsesToken
      <3>1. CASE r # q
        BY <1>3, <2>1, <2>3, <3>1 DEF OutInv, LateOut, Good
      <3>2. CASE r = q
        <4>1. UsesToken(q) /\ ~Good(q)
          BY <3>2, <2>1 DEF Observe, Arrives, OutInv, LateOut
        <4> QED BY <2>1, <3>2, <4>1 DEF Good
      <3> QED BY <3>1, <3>2
    <2>6. OrphanOut'
      <3> SUFFICES ASSUME NEW r \in orphan'
                   PROVE  /\ account'[Op[r].user] = "gone"
                          /\ user'[r] # None => user'[r] = Op[r].user /\ stage'[r] = "authz"
        BY DEF OrphanOut
      <3>1. account'[Op[r].user] = "gone"
        BY DEF Observe
      <3>2. CASE r # q
        BY <1>3, <2>1, <2>4, <3>1, <3>2 DEF OutInv, OrphanOut
      <3>3. CASE r = q
        BY <2>1, <3>1, <3>3
      <3> QED BY <3>2, <3>3
    <2> QED BY <1>1, <1>3, <2>2, <2>5, <2>6 DEF OutInv
  <1>6. ASSUME UNCHANGED <<request, redfishSessions>>, expired \subseteq expired' PROVE OutInv'
    <2>1. stage' = stage /\ user' = user /\ answer' = answer /\ UNCHANGED redfishSessions
      BY <1>6 DEF request
    <2>2. late' \subseteq late /\ orphan' \subseteq orphan
      BY <2>1 DEF Observe, Arrives
    <2>3. \A r \in orphan' : account'[Op[r].user] = "gone"
      BY DEF Observe
    <2>4. \A r \in late' : ~Good(r)'
      BY <1>6, <2>1, <2>2, StaysBad
    <2>5. LateOut'
      BY <2>1, <2>2, <2>4 DEF OutInv, LateOut, UsesToken
    <2> QED BY <1>1, <1>3, <2>1, <2>2, <2>3, <2>5 DEF OutInv, UserLate, OrphanOut
  <1>7. ASSUME NEW r \in Request, Expire(r) PROVE OutInv'
    BY <1>6, <1>7 DEF Expire
  <1>8. ASSUME NEW u \in Changing, ChangeAccount(u) PROVE OutInv'
    BY <1>6, <1>8 DEF ChangeAccount
  <1>9. CASE Restart
    <2>1. InFlight' = {}
      <3> SUFFICES ASSUME NEW r \in Request PROVE stage'[r] \in {"idle", "done", "lost"}
        BY DEF InFlight
      <3>1. stage'[r] = CASE r \notin InFlight -> stage[r]
                          [] r \in InFlight /\ HeadersSent(r) -> "done"
                          [] OTHER -> "lost"
        BY <1>9 DEF Restart
      <3> QED BY <3>1 DEF InFlight
    <2>2. late' = {} /\ orphan' = {}
      BY <2>1 DEF Observe
    <2>3. UserLate'
      BY <1>9 DEF Restart, UserLate
    <2> QED BY <1>1, <2>2, <2>3 DEF OutInv, LateOut, OrphanOut
  <1> QED BY <1>4, <1>5, <1>7, <1>8, <1>9 DEF Next, Serve

\* A request that arrives with an expired token, with that of a deleted session on a route
\* that looks at sessions, or for a user who has been removed, is never let in, whatever
\* else is under way and wherever it waits (auth-service.js, swagger_authz.js).
THEOREM RevokedStaysOutAlways == ObservedSpec => []RevokedStaysOut
  <1>1. ObservedInit => OutInv
    BY PInvInit DEF ObservedInit, OutInv, UserLate, LateOut, OrphanOut, Init
  <1>2. OutInv => RevokedStaysOut
    BY DEF OutInv, LateOut, OrphanOut, RevokedStaysOut
  <1> QED BY <1>1, <1>2, OutInvStep, PTL DEF ObservedSpec
=============================================================================
