----------------------- MODULE ObservedAccountsProofs -----------------------
(***************************************************************************)
(* Proofs about users and roles, for every set of names and requests, any  *)
(* number of calls in flight and of restarts, and any failures: where the  *)
(* calls for a name come one after the other, the access control list      *)
(* agrees with the documents, and what is acknowledged is in force.        *)
(***************************************************************************)
EXTENDS ObservedAccounts, TLAPS

-----------------------------------------------------------------------------
(* What the calls are                                                      *)

LEMMA CallType ==
    ASSUME NEW c \in Call
    PROVE  /\ Kind(c) \in UserKind \cup RoleKind
           /\ Kind(c) \in UserKind => Subject(c) \in User /\ Value(c) \in Role \cup {None}
           /\ Kind(c) = "createUser" => Value(c) \in Role
           /\ Kind(c) \in RoleKind => Subject(c) \in Role
           /\ Kind(c) \in {"createRole", "modifyRole"} => Value(c) \in SUBSET Privilege
<1>1. CASE c \in Request
  <2>1. Op[c] \in Operation /\ Asked(c) = Op[c]
    BY <1>1, AccountAssumption DEF Asked
  <2> QED
    BY <2>1 DEF Operation, Kind, Subject, Value, UserKind, RoleKind
<1>2. CASE c \notin Request
  BY <1>2, AccountAssumption DEF Call, Default, Asked, Kind, Subject, Value, UserKind, RoleKind
<1> QED
  BY <1>1, <1>2

\* The calls of start create one role each.
LEMMA DefaultCall ==
    ASSUME NEW c \in Default
    PROVE  c \in Call /\ Kind(c) = "createRole" /\ Subject(c) = c
BY AccountAssumption DEF Call, Default, Asked, Kind, Subject

\* A user's name is no role's.
LEMMA StoredType ==
    ASSUME TypeOK
    PROVE  /\ \A n \in User : Stored(n) <=> n \in DOMAIN localusers
           /\ \A n \in Role : Stored(n) <=> n \in DOMAIN roles
BY AccountAssumption DEF TypeOK, Stored

-----------------------------------------------------------------------------
(* Type correctness                                                        *)

LEMMA GoesType ==
    ASSUME TypeOK, NEW c \in Call, NEW from, NEW to \in Stage, Goes(c, from, to)
    PROVE  stage' \in [Call -> Stage]
BY DEF TypeOK, Goes

LEMMA FailsType ==
    ASSUME TypeOK, NEW c \in Call, NEW at, Fails(c, at), UNCHANGED <<service, restarts>>
    PROVE  TypeOK'
<1>1. stage' \in [Call -> Stage]
  BY GoesType DEF Fails, Stage, Answered
<1> QED
  BY <1>1 DEF Fails, TypeOK, documents, acl

LEMMA WrittenType ==
    ASSUME TypeOK, NEW c \in Call
    PROVE  /\ UsersWritten(c) \in [DOMAIN UsersWritten(c) -> Role]
           /\ DOMAIN UsersWritten(c) \subseteq User
           /\ RolesWritten(c) \in [DOMAIN RolesWritten(c) -> SUBSET Privilege]
           /\ DOMAIN RolesWritten(c) \subseteq Role
<1>1. ASSUME NEW n \in User, NEW v \in Role
      PROVE  /\ With(localusers, n, v) \in [DOMAIN With(localusers, n, v) -> Role]
             /\ DOMAIN With(localusers, n, v) \subseteq User
  BY DEF With, TypeOK
<1>2. ASSUME NEW n PROVE /\ Without(localusers, n) \in [DOMAIN Without(localusers, n) -> Role]
                         /\ DOMAIN Without(localusers, n) \subseteq User
                         /\ Without(roles, n) \in [DOMAIN Without(roles, n) -> SUBSET Privilege]
                         /\ DOMAIN Without(roles, n) \subseteq Role
  BY DEF Without, TypeOK
<1>3. ASSUME NEW n \in Role, NEW v \in SUBSET Privilege
      PROVE  /\ With(roles, n, v) \in [DOMAIN With(roles, n, v) -> SUBSET Privilege]
             /\ DOMAIN With(roles, n, v) \subseteq Role
  BY DEF With, TypeOK
<1>4. localusers \in [DOMAIN localusers -> Role] /\ DOMAIN localusers \subseteq User
  BY DEF TypeOK
<1>5. roles \in [DOMAIN roles -> SUBSET Privilege] /\ DOMAIN roles \subseteq Role
  BY DEF TypeOK
<1>6. /\ UsersWritten(c) \in [DOMAIN UsersWritten(c) -> Role]
      /\ DOMAIN UsersWritten(c) \subseteq User
  BY <1>1, <1>2, <1>4, CallType DEF UsersWritten, UserKind
<1>7. /\ RolesWritten(c) \in [DOMAIN RolesWritten(c) -> SUBSET Privilege]
      /\ DOMAIN RolesWritten(c) \subseteq Role
  BY <1>2, <1>3, <1>5, CallType DEF RolesWritten, RoleKind
<1> QED
  BY <1>6, <1>7

LEMMA InitType == Init => TypeOK
BY AccountAssumption DEF Init, TypeOK, Stage, Call

\* The stages a call of each kind goes through: TypeOK alone is not inductive,
\* since Grant has nothing to add for a removal.
Fits ==
    \A c \in Call :
        /\ stage[c] = "admit" => Kind(c) \in {"createUser", "modifyUser"}
        /\ stage[c] = "find" => Kind(c) # "createRole"
        /\ stage[c] = "revoke" => ~Creates(c)
        /\ stage[c] \in {"grant", "get"} => ~Removes(c)

LEMMA NextFits == TypeOK /\ Fits /\ [Next]_vars => Fits'
<1> SUFFICES ASSUME TypeOK, Fits, [Next]_vars PROVE Fits'
  OBVIOUS
<1>1. ASSUME NEW c \in Call, NEW to, stage' = [stage EXCEPT ![c] = to],
             /\ to = "admit" => Kind(c) \in {"createUser", "modifyUser"}
             /\ to = "find" => Kind(c) # "createRole"
             /\ to = "revoke" => ~Creates(c)
             /\ to \in {"grant", "get"} => ~Removes(c)
      PROVE  Fits'
  BY <1>1 DEF Fits, TypeOK, Creates, Removes
<1>2. ASSUME NEW c \in Request, Receive(c) PROVE Fits'
  BY <1>1, <1>2, CallType DEF Receive, Goes, FirstStage, Call, UserKind, RoleKind
<1>3. ASSUME NEW c \in Call, Admit(c) PROVE Fits'
  BY <1>1, <1>3 DEF Admit, Goes, Fails, Fits
<1>4. ASSUME NEW c \in Call, Find(c) PROVE Fits'
  BY <1>1, <1>4 DEF Find, Goes, Fails, Rejects
<1>5. ASSUME NEW c \in Call, Revoke(c) PROVE Fits'
  BY <1>1, <1>5 DEF Revoke, Goes
<1>6. ASSUME NEW c \in Call, Write(c) PROVE Fits'
  BY <1>1, <1>6 DEF Write, Goes, Fails, Rejects
<1>7. ASSUME NEW c \in Call, Grant(c) PROVE Fits'
  BY <1>1, <1>7 DEF Grant, Goes, Fits
<1>8. ASSUME NEW c \in Call, Get(c) PROVE Fits'
  BY <1>1, <1>8 DEF Get, Goes, Fails, Rejects
<1>9. CASE Load
  BY <1>9 DEF Load, Fits, Creates, Removes
<1>10. CASE Stop
  BY <1>10 DEF Stop, Fits, Creates, Removes
<1>11. CASE UNCHANGED stage
  BY <1>11 DEF Fits, Creates, Removes
<1> QED
  BY <1>2, <1>3, <1>4, <1>5, <1>6, <1>7, <1>8, <1>9, <1>10, <1>11
     DEF Next, Serve, ServeCall, Started, vars

LEMMA NextType == TypeOK /\ Fits /\ [Next]_vars => TypeOK'
<1> SUFFICES ASSUME TypeOK, Fits, [Next]_vars PROVE TypeOK'
  OBVIOUS
<1>1. ASSUME NEW c \in Request, Receive(c) PROVE TypeOK'
  <2>1. c \in Call /\ FirstStage(c) \in Stage
    BY DEF Call, FirstStage, Stage
  <2>2. stage' \in [Call -> Stage]
    BY <1>1, <2>1, GoesType DEF Receive
  <2> QED
    BY <1>1, <2>2 DEF Receive, TypeOK, documents, acl
<1>2. ASSUME NEW c \in Call, Admit(c) PROVE TypeOK'
  <2>1. CASE Fails(c, "admit")
    BY <1>2, <2>1, FailsType DEF Admit
  <2>2. CASE Goes(c, "admit", "find") /\ UNCHANGED <<documents, acl, entry>>
    BY <1>2, <2>2, GoesType DEF Admit, TypeOK, documents, acl, Stage
  <2> QED
    BY <1>2, <2>1, <2>2 DEF Admit
<1>3. ASSUME NEW c \in Call, Find(c) PROVE TypeOK'
  <2>1. CASE Fails(c, "find")
    BY <1>3, <2>1, FailsType DEF Find
  <2>2. CASE Goes(c, "find", "write") /\ UNCHANGED <<documents, acl, entry>>
    BY <1>3, <2>2, GoesType DEF Find, TypeOK, documents, acl, Stage
  <2>3. CASE /\ Goes(c, "find", "revoke") /\ Stored(Subject(c))
             /\ entry' = [entry EXCEPT ![c] = IF Kind(c) \in UserKind THEN localusers[Subject(c)] ELSE None]
             /\ UNCHANGED <<documents, acl>>
    <3>1. Kind(c) \in UserKind => localusers[Subject(c)] \in Role
      BY <2>3, CallType, StoredType DEF TypeOK
    <3>2. entry' \in [Call -> Role \cup {None}]
      BY <2>3, <3>1 DEF TypeOK
    <3>3. stage' \in [Call -> Stage]
      BY <2>3, GoesType DEF Stage
    <3> QED
      BY <1>3, <2>3, <3>2, <3>3 DEF Find, TypeOK, documents, acl
  <2> QED
    BY <1>3, <2>1, <2>2, <2>3 DEF Find, Rejects
<1>4. ASSUME NEW c \in Call, Revoke(c) PROVE TypeOK'
  <2>1. stage' \in [Call -> Stage]
    BY <1>4, GoesType DEF Revoke, Stage
  <2>2. userRoles' \in [User -> SUBSET Role] /\ roleParents' \in [Role -> SUBSET Privilege]
    BY <1>4 DEF Revoke, TypeOK
  <2> QED
    BY <1>4, <2>1, <2>2 DEF Revoke, TypeOK, documents
<1>5. ASSUME NEW c \in Call, Write(c) PROVE TypeOK'
  <2>1. CASE Fails(c, "write")
    BY <1>5, <2>1, FailsType DEF Write
  <2>2. CASE /\ Goes(c, "write", IF Removes(c) THEN "ok" ELSE "grant")
             /\ localusers' = UsersWritten(c) /\ roles' = RolesWritten(c)
             /\ UNCHANGED <<acl, entry>>
    <3>1. stage' \in [Call -> Stage]
      BY <2>2, GoesType DEF Stage, Answered
    <3> QED
      BY <1>5, <2>2, <3>1, WrittenType DEF Write, TypeOK, acl
  <2> QED
    BY <1>5, <2>1, <2>2 DEF Write, Rejects
<1>6. ASSUME NEW c \in Call, Grant(c) PROVE TypeOK'
  <2>1. stage' \in [Call -> Stage]
    BY <1>6, GoesType DEF Grant, Stage
  <2>2. Kind(c) \in UserKind => Granted(c) \subseteq Role
    BY CallType DEF Granted, ChangesRole
  <2>3. Kind(c) \in RoleKind => Value(c) \in SUBSET Privilege
    BY <1>6, CallType DEF Grant, Goes, Fits, Removes, RoleKind
  <2>4. userRoles' \in [User -> SUBSET Role] /\ roleParents' \in [Role -> SUBSET Privilege]
    BY <1>6, <2>2, <2>3, CallType DEF Grant, TypeOK
  <2> QED
    BY <1>6, <2>1, <2>4 DEF Grant, TypeOK, documents
<1>7. ASSUME NEW c \in Call, Get(c) PROVE TypeOK'
  <2>1. CASE Fails(c, "get")
    BY <1>7, <2>1, FailsType DEF Get
  <2>2. CASE Goes(c, "get", "ok") /\ UNCHANGED <<documents, acl, entry>>
    BY <1>7, <2>2, GoesType DEF Get, TypeOK, documents, acl, Stage, Answered
  <2> QED
    BY <1>7, <2>1, <2>2 DEF Get, Rejects
<1>8. CASE Load
  BY <1>8 DEF Load, TypeOK, documents, Stage
<1>9. CASE Started
  BY <1>9 DEF Started, TypeOK, documents, acl
<1>10. CASE Stop
  <2>1. restarts' \in 0 .. MaxRestarts
    BY <1>10, AccountAssumption DEF Stop, TypeOK
  <2> QED
    BY <1>10, <2>1 DEF Stop, TypeOK, documents, Stage
<1>11. CASE UNCHANGED vars
  BY <1>11 DEF vars, TypeOK, documents, acl
<1> QED
  BY <1>1, <1>2, <1>3, <1>4, <1>5, <1>6, <1>7, <1>8, <1>9, <1>10, <1>11
     DEF Next, Serve, ServeCall

\* Every step keeps documents, list and calls within their types.
THEOREM TypeCorrect == Spec => []TypeOK
<1>1. Init => TypeOK /\ Fits
  BY InitType DEF Init, Fits
<1> QED
  BY <1>1, NextType, NextFits, PTL DEF Spec

-----------------------------------------------------------------------------
(* The inductive invariant                                                 *)

Names == User \cup Role
Calls(n) == {c \in InFlight : Subject(c) = n}

\* What the list says of a role: its document, or its last modification.
RoleInForce(n) == IF changed[n] = None THEN RoleAgrees(n)
                  ELSE n \in DOMAIN roles /\ roleParents[n] = Value(changed[n])
Agrees(n) == IF n \in User THEN UserAgrees(n) ELSE RoleInForce(n)

\* The role in a user's document when a modification has written it.
NewRole(c) == IF Value(c) = None THEN entry[c] ELSE Value(c)

\* Where documents and list stand while the only call for a user is under way.
UserCall(c) ==
    LET n == Subject(c) IN
    /\ stage[c] \in {"admit", "find", "revoke", "get"} => UserAgrees(n)
    /\ stage[c] \in {"revoke", "grant", "get"} => n \in DOMAIN localusers
    /\ stage[c] = "revoke" => localusers[n] = entry[c]
    /\ stage[c] = "write" =>
         /\ Kind(c) = "createUser" => UserAgrees(n)
         /\ Kind(c) = "modifyUser" => /\ n \in DOMAIN localusers /\ localusers[n] = entry[c]
                                      /\ userRoles[n] = IF ChangesRole(c) THEN {} ELSE {entry[c]}
         /\ Kind(c) = "removeUser" => userRoles[n] = {}
    /\ stage[c] = "grant" =>
         /\ localusers[n] = NewRole(c)
         /\ userRoles[n] = IF Kind(c) = "modifyUser" /\ ~ChangesRole(c) THEN {entry[c]} ELSE {}
    /\ stage[c] = "get" => Value(c) = None \/ localusers[n] = Value(c)

\* The same for a role.
RoleCall(c) ==
    LET n == Subject(c) IN
    /\ stage[c] \in {"find", "revoke"} => RoleInForce(n)
    /\ stage[c] \in {"revoke", "grant", "get"} => n \in DOMAIN roles
    /\ stage[c] = "write" =>
         /\ Kind(c) = "createRole" => RoleInForce(n)
         /\ Kind(c) = "modifyRole" => n \in DOMAIN roles /\ roleParents[n] = {}
         /\ Kind(c) = "removeRole" => roleParents[n] = {}
    /\ stage[c] = "grant" => roleParents[n] = {}
    /\ stage[c] = "get" => roleParents[n] = Value(c)
    /\ stage[c] \in {"grant", "get"} =>
         IF Kind(c) = "createRole" THEN changed[n] = None /\ roles[n] = Value(c)
         ELSE changed[n] = c

InStep(c) == IF Subject(c) \in User THEN UserCall(c) ELSE RoleCall(c)

NameInv(n) ==
    /\ Calls(n) = {} => Agrees(n)
    /\ \A c \in Calls(n) : InStep(c)

\* Two calls for a name are noted.
Alone == \A c, d \in InFlight : Subject(c) = Subject(d) /\ c # d => Subject(c) \in disturbed

AclInv ==
    /\ service = "down" => InFlight = {}
    /\ Alone
    /\ service # "down" => \A n \in Names \ disturbed : NameInv(n)

ObservedType == changed \in [Names -> Call \cup {None}]

Inv == TypeOK /\ Fits /\ ObservedType /\ AclInv

-----------------------------------------------------------------------------
(* A step of one call                                                      *)

\* What a step of a call leaves to Observe.
LEMMA Noted ==
    ASSUME Inv, NEW c \in Call, NEW to, stage' = [stage EXCEPT ![c] = to], stage[c] # to,
           service # "down", Observe
    PROVE  /\ disturbed \cup Overlapping' \subseteq disturbed'
           /\ stage[c] = "write" /\ to = "failed" /\ ~Creates(c) => Subject(c) \in disturbed'
           /\ changed' = IF stage[c] = "write" /\ to \in {"grant", "ok"}
                         THEN [changed EXCEPT ![Subject(c)] = IF Kind(c) = "modifyRole" THEN c ELSE None]
                         ELSE changed
<1>1. /\ disturbed' = disturbed \cup Overlapping' \cup {Subject(d) : d \in CutShort}
      /\ \/ Written = {} /\ UNCHANGED changed
         \/ \E d \in Written : changed' = [changed EXCEPT ![Subject(d)] =
                                             IF Kind(d) = "modifyRole" THEN d ELSE None]
  BY DEF Observe
<1>2. \A d \in Call : stage'[d] = IF d = c THEN to ELSE stage[d]
  BY DEF Inv, TypeOK
<1>3. stage[c] = "write" /\ to = "failed" /\ ~Creates(c) => c \in CutShort
  BY <1>2 DEF CutShort
<1>4. Written = IF stage[c] = "write" /\ to \in {"grant", "ok"} THEN {c} ELSE {}
  BY <1>2 DEF Written
<1> QED
  BY <1>1, <1>3, <1>4

\* The documents, the list and the notes about a name stay as they are.
Untouched(n) ==
    /\ n \in DOMAIN localusers' <=> n \in DOMAIN localusers
    /\ n \in DOMAIN roles' <=> n \in DOMAIN roles
    /\ n \in DOMAIN localusers => localusers'[n] = localusers[n]
    /\ n \in DOMAIN roles => roles'[n] = roles[n]
    /\ n \in User => userRoles'[n] = userRoles[n]
    /\ n \in Role => roleParents'[n] = roleParents[n]
    /\ changed'[n] = changed[n]

LEMMA SameView ==
    ASSUME NEW n \in Names, Untouched(n)
    PROVE  /\ Agrees(n) <=> Agrees(n)'
           /\ n \in User => (UserAgrees(n) <=> UserAgrees(n)')
           /\ n \in Role => (RoleInForce(n) <=> RoleInForce(n)')
BY AccountAssumption DEF Untouched, Agrees, UserAgrees, RoleInForce, RoleAgrees, Names

LEMMA SameCall ==
    ASSUME NEW c \in Call, Untouched(Subject(c)), stage'[c] = stage[c], entry'[c] = entry[c],
           InStep(c)
    PROVE  InStep(c)'
<1> DEFINE n == Subject(c)
<1>1. n \in Names
  BY CallType DEF Names
<1>2. CASE n \in User
  <2>1. UserCall(c) /\ (UserAgrees(n) <=> UserAgrees(n)')
    BY <1>1, <1>2, SameView DEF InStep
  <2>2. UserCall(c)'
    BY <1>2, <2>1 DEF UserCall, Untouched, ChangesRole, NewRole
  <2> QED
    BY <1>2, <2>2 DEF InStep
<1>3. CASE n \notin User
  <2>1. n \in Role /\ RoleCall(c) /\ (RoleInForce(n) <=> RoleInForce(n)')
    BY <1>1, <1>3, SameView DEF InStep, Names
  <2>2. RoleCall(c)'
    BY <2>1 DEF RoleCall, Untouched
  <2> QED
    BY <1>3, <2>2 DEF InStep
<1> QED
  BY <1>2, <1>3

\* A name that a step does not touch, and whose calls it does not advance.
LEMMA Frame ==
    ASSUME Inv, NEW n \in Names, NameInv(n), Untouched(n),
           \A d \in Call : Subject(d) = n => stage'[d] = stage[d] /\ entry'[d] = entry[d]
    PROVE  NameInv(n)'
<1>1. Calls(n)' = Calls(n)
  BY DEF Calls, InFlight
<1>2. Agrees(n) <=> Agrees(n)'
  BY SameView
<1>3. ASSUME NEW c \in Calls(n) PROVE InStep(c)'
  BY <1>3, SameCall DEF Calls, InFlight, NameInv
<1> QED
  BY <1>1, <1>2, <1>3 DEF NameInv

Live == {"admit", "find", "revoke", "write", "grant", "get"}

LEMMA LiveStages ==
    /\ \A c \in Call : stage[c] \in Live => c \in InFlight
    /\ TypeOK => \A c \in InFlight : c \in Call /\ stage[c] \in Live
BY DEF InFlight, Live, Answered, TypeOK, Stage

\* A step of one call disturbs no other name; it is left to show what it does to
\* its own, where nobody else is busy.
LEMMA OneCall ==
    ASSUME Inv, NEW c \in Call, NEW to \in Live \cup Answered,
           stage' = [stage EXCEPT ![c] = to], stage[c] # to,
           stage[c] \in Live \/ to \in Live,
           service # "down", service' # "down", Observe,
           \A n \in Names \ {Subject(c)} : Untouched(n),
           \A d \in Call \ {c} : entry'[d] = entry[d],
           /\ Subject(c) \notin disturbed'
           /\ stage[c] \in Live => InStep(c)
           /\ stage[c] \notin Live => Agrees(Subject(c))
           => /\ to \in Live => InStep(c)'
              /\ to \notin Live => Agrees(Subject(c))'
    PROVE  AclInv'
<1> DEFINE m == Subject(c)
<1>1. /\ Alone /\ service # "down"
      /\ \A n \in Names \ disturbed : NameInv(n)
      /\ m \in Names
  BY CallType DEF Inv, AclInv, Names
<1>2. disturbed \subseteq disturbed' /\ Overlapping' \subseteq disturbed'
  BY Noted
<1>3. Alone'
  BY <1>2 DEF Alone, Overlapping
<1>4. \A d \in Call : stage'[d] = IF d = c THEN to ELSE stage[d]
  BY DEF Inv, TypeOK
<1>5. ASSUME NEW n \in Names \ disturbed', n # m PROVE NameInv(n)'
  <2>1. \A d \in Call : Subject(d) = n => stage'[d] = stage[d] /\ entry'[d] = entry[d]
    BY <1>4, <1>5
  <2>2. n \in Names \ disturbed /\ Untouched(n)
    BY <1>2, <1>5
  <2> QED
    BY <1>1, <2>1, <2>2, Frame
<1>6. ASSUME m \notin disturbed' PROVE NameInv(m)'
  <2>1. m \notin disturbed /\ NameInv(m)
    BY <1>1, <1>2, <1>6
  <2>2. ASSUME NEW d \in InFlight, Subject(d) = m, d # c PROVE FALSE
    <3>1. d \in Call /\ stage'[d] = stage[d]
      BY <1>4, <2>2 DEF InFlight
    <3>2. d \in InFlight'
      BY <2>2, <3>1 DEF InFlight
    <3>3. CASE stage[c] \in Live
      BY <1>1, <2>1, <2>2, <3>3 DEF Alone, InFlight, Live, Answered
    <3>4. CASE to \in Live
      <4>1. c \in InFlight'
        BY <1>4, <3>4 DEF InFlight, Live, Answered
      <4> QED
        BY <1>3, <1>6, <2>2, <3>2, <4>1 DEF Alone
    <3> QED
      BY <3>3, <3>4
  <2>3. /\ stage[c] \in Live => InStep(c)
        /\ stage[c] \notin Live => Agrees(m)
    <3>1. CASE stage[c] \in Live
      BY <2>1, <3>1 DEF NameInv, Calls, InFlight, Live, Answered
    <3>2. CASE stage[c] \notin Live
      <4>1. c \notin InFlight
        BY <3>2, LiveStages DEF Inv
      <4>2. Calls(m) = {}
        BY <2>2, <4>1 DEF Calls
      <4> QED
        BY <2>1, <3>2, <4>2 DEF NameInv
    <3> QED
      BY <3>1, <3>2
  <2>4. /\ to \in Live => InStep(c)'
        /\ to \notin Live => Agrees(m)'
    BY <1>6, <2>3
  <2>5. Calls(m)' = IF to \in Live THEN {c} ELSE {}
    <3>1. c \in InFlight' <=> to \in Live
      BY <1>4 DEF InFlight, Live, Answered
    <3>2. \A d \in Call \ {c} : Subject(d) = m => d \notin InFlight'
      BY <1>4, <2>2 DEF InFlight
    <3> QED
      BY <3>1, <3>2 DEF Calls, InFlight
  <2> QED
    BY <2>4, <2>5 DEF NameInv
<1> QED
  BY <1>3, <1>5, <1>6 DEF AclInv

-----------------------------------------------------------------------------
(* The steps of a call                                                     *)

\* What is noted about other names stays.
LEMMA OthersNoted ==
    ASSUME Inv, NEW c \in Call, NEW to, stage' = [stage EXCEPT ![c] = to], stage[c] # to,
           service # "down", Observe
    PROVE  \A n \in Names \ {Subject(c)} : changed'[n] = changed[n]
BY Noted DEF Inv, ObservedType

\* A step that changes neither documents nor list.
LEMMA OnlyStage ==
    ASSUME Inv, NEW c \in Call, NEW to, stage' = [stage EXCEPT ![c] = to], stage[c] # to,
           service # "down", Observe, UNCHANGED <<documents, acl>>
    PROVE  /\ \A n \in Names \ {Subject(c)} : Untouched(n)
           /\ ~(stage[c] = "write" /\ to \in {"grant", "ok"}) => Untouched(Subject(c))
<1>1. ~(stage[c] = "write" /\ to \in {"grant", "ok"}) => changed' = changed
  BY Noted
<1> QED
  BY <1>1, OthersNoted DEF Untouched, documents, acl

LEMMA ReceiveStep ==
    ASSUME Inv, NEW c \in Request, Receive(c), Observe
    PROVE  AclInv'
<1> DEFINE to == FirstStage(c)
           n == Subject(c)
<1>1. /\ c \in Call /\ stage[c] = "idle" /\ stage' = [stage EXCEPT ![c] = to]
      /\ service = "up" /\ service' = "up" /\ UNCHANGED <<documents, acl, entry>>
  BY DEF Receive, Goes, Call
<1>2. /\ to \in {"admit", "write", "find"}
      /\ to = "write" => Kind(c) = "createRole"
      /\ to = "admit" => Kind(c) \in UserKind
  BY DEF FirstStage, UserKind
<1>3. to \in Live \cup Answered /\ to \in Live /\ stage[c] \notin Live /\ stage[c] # to
  BY <1>1, <1>2 DEF Live
<1>4. (\A m \in Names \ {n} : Untouched(m)) /\ Untouched(n)
  BY <1>1, <1>3, OnlyStage
<1>5. ASSUME Agrees(n) PROVE InStep(c)'
  <2>1. n \in Names /\ stage'[c] = to
    BY <1>1, CallType DEF Names, Inv, TypeOK
  <2>2. Agrees(n)'
    BY <1>4, <1>5, <2>1, SameView
  <2>3. CASE n \in User
    <3>1. to # "write"
      BY <1>1, <1>2, <2>3, CallType, AccountAssumption DEF RoleKind
    <3> QED
      BY <1>2, <2>1, <2>2, <2>3, <3>1 DEF InStep, UserCall, Agrees
  <2>4. CASE n \notin User
    <3>1. to # "admit"
      BY <1>1, <1>2, <2>4, CallType
    <3> QED
      BY <1>2, <2>1, <2>2, <2>4, <3>1 DEF InStep, RoleCall, Agrees
  <2> QED
    BY <2>3, <2>4
<1> HIDE DEF to, n
<1> QED
  BY <1>1, <1>3, <1>4, <1>5, OneCall DEF n

\* A call is under way only while the service is not down.
LEMMA Running ==
    ASSUME Inv, NEW c \in Call, stage[c] \in Live
    PROVE  service # "down"
BY LiveStages DEF Inv, AclInv

\* A call that fails leaves things as they were: they agree, unless it is noted.
LEMMA FailsStep ==
    ASSUME Inv, NEW c \in Call, NEW at \in Live, Fails(c, at), service' = service, Observe,
           Subject(c) \notin disturbed' /\ InStep(c) => Agrees(Subject(c))
    PROVE  AclInv'
<1> DEFINE n == Subject(c)
<1>1. /\ stage[c] = at /\ stage' = [stage EXCEPT ![c] = "failed"]
      /\ UNCHANGED <<documents, acl, entry>> /\ at # "failed"
  BY DEF Fails, Goes, Live
<1>2. service # "down" /\ service' # "down"
  BY <1>1, Running
<1>3. (\A m \in Names \ {n} : Untouched(m)) /\ Untouched(n)
  <2> DEFINE to == "failed"
  <2>1. /\ stage' = [stage EXCEPT ![c] = to] /\ stage[c] # to
        /\ to \notin {"grant", "ok"} /\ UNCHANGED <<documents, acl>>
    BY <1>1
  <2> HIDE DEF to
  <2> QED
    BY <1>2, <2>1, OnlyStage
<1>4. Agrees(n) <=> Agrees(n)'
  BY <1>3, CallType, SameView DEF Names
<1>5. "failed" \in Live \cup Answered /\ "failed" \notin Live
  BY DEF Live, Answered
<1> HIDE DEF n
<1> QED
  BY <1>1, <1>2, <1>3, <1>4, <1>5, OneCall DEF n

\* A call that goes on without touching documents or list.
LEMMA GoesStep ==
    ASSUME Inv, NEW c \in Call, NEW from \in Live, NEW to \in Live \cup Answered, Goes(c, from, to),
           from # to, from # "write",
           UNCHANGED <<documents, acl, service>>, \A d \in Call \ {c} : entry'[d] = entry[d],
           Observe,
           InStep(c) /\ Untouched(Subject(c)) =>
               /\ to \in Live => InStep(c)'
               /\ to \notin Live => Agrees(Subject(c))
    PROVE  AclInv'
<1> DEFINE n == Subject(c)
<1>1. stage[c] = from /\ stage' = [stage EXCEPT ![c] = to]
  BY DEF Goes
<1>2. service # "down" /\ service' # "down"
  BY <1>1, Running
<1>3. (\A m \in Names \ {n} : Untouched(m)) /\ Untouched(n)
  BY <1>1, <1>2, OnlyStage
<1>4. Agrees(n) <=> Agrees(n)'
  BY <1>3, CallType, SameView DEF Names
<1> HIDE DEF n
<1> QED
  BY <1>1, <1>2, <1>3, <1>4, OneCall DEF n

LEMMA AdmitStep ==
    ASSUME Inv, NEW c \in Call, Admit(c), Observe
    PROVE  AclInv'
<1> DEFINE n == Subject(c)
<1>1. n \in User /\ n \in Names /\ stage[c] = "admit" /\ "admit" \in Live
  BY CallType DEF Inv, Fits, Admit, Goes, Fails, UserKind, Live, Names
<1>2. CASE Fails(c, "admit")
  <2>1. InStep(c) => Agrees(n)
    BY <1>1 DEF InStep, UserCall, Agrees
  <2> QED
    BY <1>1, <1>2, <2>1, FailsStep DEF Admit
<1>3. CASE Goes(c, "admit", "find") /\ UNCHANGED <<documents, acl, entry>>
  <2>1. stage'[c] = "find"
    BY <1>3 DEF Goes, Inv, TypeOK
  <2>2. InStep(c) /\ Untouched(n) => InStep(c)'
    <3> SUFFICES ASSUME InStep(c), Untouched(n) PROVE UserCall(c)'
      BY <1>1 DEF InStep
    <3>1. UserAgrees(n)'
      BY <1>1, SameView DEF InStep, UserCall
    <3> QED
      BY <2>1, <3>1 DEF UserCall
  <2>3. "find" \in Live
    BY DEF Live
  <2> QED
    BY <1>1, <1>3, <2>2, <2>3, GoesStep DEF Admit
<1> QED
  BY <1>2, <1>3 DEF Admit

LEMMA FindStep ==
    ASSUME Inv, NEW c \in Call, Find(c), Observe
    PROVE  AclInv'
<1> DEFINE n == Subject(c)
<1>1. /\ stage[c] = "find" /\ "find" \in Live /\ "write" \in Live /\ "revoke" \in Live
      /\ Kind(c) # "createRole" /\ n \in Names /\ UNCHANGED service
  BY CallType DEF Find, Goes, Fails, Rejects, Live, Inv, Fits, Names
<1>2. InStep(c) => Agrees(n)
  BY <1>1 DEF InStep, UserCall, RoleCall, Agrees
<1>3. CASE Fails(c, "find")
  BY <1>1, <1>2, <1>3, FailsStep
<1>4. CASE Goes(c, "find", "write") /\ Creates(c) /\ UNCHANGED <<documents, acl, entry>>
  <2>1. Kind(c) = "createUser" /\ n \in User /\ stage'[c] = "write"
    BY <1>1, <1>4, CallType DEF Creates, UserKind, Goes, Inv, TypeOK
  <2>2. InStep(c) /\ Untouched(n) => InStep(c)'
    <3> SUFFICES ASSUME InStep(c), Untouched(n) PROVE UserCall(c)'
      BY <2>1 DEF InStep
    <3>1. UserAgrees(n)'
      BY <1>1, <2>1, SameView DEF InStep, UserCall
    <3> QED
      BY <2>1, <3>1 DEF UserCall
  <2> QED
    BY <1>1, <1>4, <2>2, GoesStep
<1>5. CASE /\ Goes(c, "find", "revoke") /\ ~Creates(c) /\ Stored(n)
           /\ entry' = [entry EXCEPT ![c] = IF Kind(c) \in UserKind THEN localusers[n] ELSE None]
           /\ UNCHANGED <<documents, acl>>
  <2>1. stage'[c] = "revoke" /\ \A d \in Call \ {c} : entry'[d] = entry[d]
    BY <1>5 DEF Goes, Inv, TypeOK
  <2>2. InStep(c) /\ Untouched(n) => InStep(c)'
    <3> SUFFICES ASSUME InStep(c), Untouched(n) PROVE InStep(c)'
      OBVIOUS
    <3>1. CASE n \in User
      <4>1. UserAgrees(n)'
        BY <1>1, <3>1, SameView DEF InStep, UserCall
      <4>2. Kind(c) \in UserKind
        BY <3>1, CallType, AccountAssumption
      <4>3. n \in DOMAIN localusers' /\ localusers'[n] = entry'[c]
        BY <1>5, <3>1, <4>2, StoredType DEF documents, Inv, TypeOK
      <4> QED
        BY <2>1, <3>1, <4>1, <4>3 DEF InStep, UserCall
    <3>2. CASE n \notin User
      <4>1. n \in Role
        BY <1>1, <3>2 DEF Names
      <4>2. RoleInForce(n)'
        BY <1>1, <3>2, <4>1, SameView DEF InStep, RoleCall
      <4>3. n \in DOMAIN roles'
        BY <1>5, <4>1, StoredType DEF documents, Inv
      <4> QED
        BY <2>1, <3>2, <4>2, <4>3 DEF InStep, RoleCall
    <3> QED
      BY <3>1, <3>2
  <2> QED
    BY <1>1, <1>5, <2>1, <2>2, GoesStep
<1> QED
  BY <1>3, <1>4, <1>5 DEF Find, Rejects

LEMMA RevokeStep ==
    ASSUME Inv, NEW c \in Call, Revoke(c), Observe
    PROVE  AclInv'
<1> DEFINE n == Subject(c)
<1>1. /\ stage[c] = "revoke" /\ stage' = [stage EXCEPT ![c] = "write"]
      /\ "revoke" \in Live /\ "write" \in Live \cup Answered /\ "write" \in Live
      /\ ~Creates(c) /\ n \in Names /\ UNCHANGED <<localusers, roles, service, entry>>
  BY CallType DEF Revoke, Goes, Live, Inv, Fits, Names, documents
<1>2. service # "down" /\ service' # "down" /\ changed' = changed
  <2> DEFINE to == "write"
  <2>1. stage' = [stage EXCEPT ![c] = to] /\ stage[c] # to /\ stage[c] # "write"
    BY <1>1
  <2> HIDE DEF to
  <2>2. service # "down"
    BY <1>1, Running
  <2>3. changed' = changed
    BY <2>1, <2>2, Noted
  <2> QED
    BY <1>1, <2>2, <2>3
<1>3. ASSUME NEW m \in Names \ {n} PROVE Untouched(m)
  BY <1>1, <1>2, <1>3 DEF Revoke, Untouched, Inv, TypeOK
<1>4. ASSUME InStep(c) PROVE InStep(c)'
  <2>1. stage'[c] = "write"
    BY <1>1 DEF Inv, TypeOK
  <2>2. CASE n \in User
    <3>1. /\ Kind(c) \in {"modifyUser", "removeUser"}
          /\ userRoles' = [userRoles EXCEPT ![n] = @ \ Withdrawn(c)]
      BY <1>1, <2>2, CallType, AccountAssumption DEF Revoke, Creates, UserKind, RoleKind
    <3>2. n \in DOMAIN localusers /\ localusers[n] = entry[c] /\ userRoles[n] = {entry[c]}
      BY <1>1, <1>4, <2>2 DEF InStep, UserCall, UserAgrees
    <3>3. userRoles'[n] = {entry[c]} \ Withdrawn(c)
      BY <2>2, <3>1, <3>2 DEF Inv, TypeOK
    <3>4. /\ Kind(c) = "modifyUser" => userRoles'[n] = IF ChangesRole(c) THEN {} ELSE {entry[c]}
          /\ Kind(c) = "removeUser" => userRoles'[n] = {}
      BY <3>3 DEF Withdrawn
    <3>5. UserCall(c)'
      BY <1>1, <2>1, <3>1, <3>2, <3>4 DEF UserCall, ChangesRole
    <3> QED
      BY <2>2, <3>5 DEF InStep
  <2>3. CASE n \notin User
    <3>1. n \in Role /\ roleParents'[n] = {}
      BY <1>1, <2>3, CallType DEF Revoke, Names, Inv, TypeOK
    <3>2. n \in DOMAIN roles' /\ Kind(c) # "createRole"
      BY <1>1, <1>4, <2>3 DEF InStep, RoleCall, Creates
    <3> QED
      BY <2>1, <2>3, <3>1, <3>2 DEF InStep, RoleCall
  <2> QED
    BY <2>2, <2>3
<1>5. \A d \in Call \ {c} : entry'[d] = entry[d]
  BY <1>1
<1>6. stage[c] # "write" /\ stage[c] \in Live
  BY <1>1
<1> DEFINE to == "write"
<1>7. stage' = [stage EXCEPT ![c] = to] /\ to \in Live \cup Answered /\ to \in Live /\ stage[c] # to
  BY <1>1
<1> HIDE DEF n, to
<1> QED
  BY <1>2, <1>3, <1>4, <1>5, <1>6, <1>7, OneCall DEF n

LEMMA GrantStep ==
    ASSUME Inv, NEW c \in Call, Grant(c), Observe
    PROVE  AclInv'
<1> DEFINE n == Subject(c)
           to == "get"
<1>1. /\ stage[c] = "grant" /\ stage' = [stage EXCEPT ![c] = to] /\ stage[c] # to
      /\ stage[c] \in Live /\ to \in Live \cup Answered /\ to \in Live
      /\ ~Removes(c) /\ n \in Names /\ UNCHANGED <<localusers, roles, service, entry>>
  BY CallType DEF Grant, Goes, Live, Inv, Fits, Names, documents
<1>2. service # "down" /\ service' # "down" /\ changed' = changed
  <2>1. stage' = [stage EXCEPT ![c] = to] /\ stage[c] # to /\ stage[c] # "write"
    BY <1>1
  <2> HIDE DEF to
  <2>2. service # "down"
    BY <1>1, Running
  <2>3. changed' = changed
    BY <2>1, <2>2, Noted
  <2> QED
    BY <1>1, <2>2, <2>3
<1>3. ASSUME NEW m \in Names \ {n} PROVE Untouched(m)
  BY <1>1, <1>2, <1>3 DEF Grant, Untouched, Inv, TypeOK
<1>4. ASSUME InStep(c) PROVE InStep(c)'
  <2>1. stage'[c] = "get"
    BY <1>1 DEF Inv, TypeOK
  <2>2. CASE n \in User
    <3>1. /\ Kind(c) \in {"createUser", "modifyUser"}
          /\ userRoles' = [userRoles EXCEPT ![n] = @ \cup Granted(c)]
      BY <1>1, <2>2, CallType, AccountAssumption DEF Grant, Removes, UserKind, RoleKind
    <3>2. /\ n \in DOMAIN localusers /\ localusers[n] = NewRole(c)
          /\ userRoles[n] = IF Kind(c) = "modifyUser" /\ ~ChangesRole(c) THEN {entry[c]} ELSE {}
      BY <1>1, <1>4, <2>2 DEF InStep, UserCall
    <3>3. userRoles'[n] = userRoles[n] \cup Granted(c)
      BY <2>2, <3>1 DEF Inv, TypeOK
    <3>4. Kind(c) = "createUser" => Value(c) # None
      BY CallType, AccountAssumption
    <3>5. userRoles'[n] = {NewRole(c)}
      BY <3>1, <3>2, <3>3, <3>4 DEF Granted, NewRole, ChangesRole
    <3>6. UserAgrees(n)' /\ (Value(c) = None \/ localusers'[n] = Value(c))
      BY <1>1, <3>2, <3>5 DEF UserAgrees, NewRole
    <3> QED
      BY <1>1, <2>1, <2>2, <3>2, <3>6 DEF InStep, UserCall
  <2>3. CASE n \notin User
    <3>1. n \in Role /\ roleParents'[n] = roleParents[n] \cup Value(c)
      BY <1>1, <2>3, CallType DEF Grant, Names, Inv, TypeOK
    <3>2. RoleCall(c) /\ roleParents[n] = {} /\ n \in DOMAIN roles
      BY <1>1, <1>4, <2>3 DEF InStep, RoleCall
    <3>3. roleParents'[n] = Value(c)
      BY <3>1, <3>2
    <3>4. IF Kind(c) = "createRole" THEN changed'[n] = None /\ roles'[n] = Value(c) ELSE changed'[n] = c
      BY <1>1, <1>2, <3>2 DEF RoleCall
    <3> QED
      BY <1>1, <2>1, <2>3, <3>2, <3>3, <3>4 DEF InStep, RoleCall
  <2> QED
    BY <2>2, <2>3
<1>5. \A d \in Call \ {c} : entry'[d] = entry[d]
  BY <1>1
<1> HIDE DEF n, to
<1> QED
  BY <1>1, <1>2, <1>3, <1>4, <1>5, OneCall DEF n

\* When the answer is made, list and documents agree again.
LEMMA GetAgrees ==
    ASSUME NEW c \in Call, stage[c] = "get", InStep(c), ~Removes(c)
    PROVE  Agrees(Subject(c))
<1> DEFINE n == Subject(c)
<1>1. CASE n \in User
  BY <1>1 DEF InStep, UserCall, Agrees
<1>2. CASE n \notin User
  <2>1. /\ n \in DOMAIN roles /\ roleParents[n] = Value(c)
        /\ IF Kind(c) = "createRole" THEN changed[n] = None /\ roles[n] = Value(c)
           ELSE changed[n] = c
    BY <1>2 DEF InStep, RoleCall
  <2>2. c # None
    BY AccountAssumption DEF Call
  <2> QED
    BY <1>2, <2>1, <2>2 DEF Agrees, RoleInForce, RoleAgrees
<1> QED
  BY <1>1, <1>2

LEMMA GetStep ==
    ASSUME Inv, NEW c \in Call, Get(c), Observe
    PROVE  AclInv'
<1> DEFINE n == Subject(c)
<1>1. stage[c] = "get" /\ "get" \in Live /\ ~Removes(c) /\ UNCHANGED service
  BY DEF Get, Goes, Fails, Rejects, Live, Inv, Fits
<1>2. InStep(c) => Agrees(n)
  BY <1>1, GetAgrees
<1>3. CASE Fails(c, "get")
  BY <1>1, <1>2, <1>3, FailsStep
<1>4. CASE Goes(c, "get", "ok") /\ UNCHANGED <<documents, acl, entry>>
  <2>1. "ok" \in Live \cup Answered /\ "ok" \notin Live
    BY DEF Live, Answered
  <2> QED
    BY <1>1, <1>2, <1>4, <2>1, GoesStep
<1> QED
  BY <1>3, <1>4 DEF Get, Rejects

\* What a write does to the documents.
LEMMA WrittenDocuments ==
    ASSUME TypeOK, NEW c \in Call
    PROVE  /\ \A m \in Names \ {Subject(c)} :
                /\ m \in DOMAIN UsersWritten(c) <=> m \in DOMAIN localusers
                /\ m \in DOMAIN localusers => UsersWritten(c)[m] = localusers[m]
                /\ m \in DOMAIN RolesWritten(c) <=> m \in DOMAIN roles
                /\ m \in DOMAIN roles => RolesWritten(c)[m] = roles[m]
           /\ Kind(c) = "createUser" => /\ Subject(c) \in DOMAIN UsersWritten(c)
                                        /\ UsersWritten(c)[Subject(c)] = Value(c)
           /\ Kind(c) = "modifyUser" /\ Subject(c) \in DOMAIN localusers =>
                /\ Subject(c) \in DOMAIN UsersWritten(c)
                /\ UsersWritten(c)[Subject(c)] =
                     IF Value(c) = None THEN localusers[Subject(c)] ELSE Value(c)
           /\ Kind(c) = "removeUser" => Subject(c) \notin DOMAIN UsersWritten(c)
           /\ Kind(c) = "createRole" => /\ Subject(c) \in DOMAIN RolesWritten(c)
                                        /\ RolesWritten(c)[Subject(c)] = Value(c)
           /\ Kind(c) = "modifyRole" => RolesWritten(c) = roles
           /\ Kind(c) = "removeRole" => Subject(c) \notin DOMAIN RolesWritten(c)
<1> DEFINE n == Subject(c)
<1>1. ASSUME NEW f, NEW v
      PROVE  /\ n \in DOMAIN With(f, n, v) /\ With(f, n, v)[n] = v
             /\ n \notin DOMAIN Without(f, n)
             /\ \A m \in Names \ {n} :
                  /\ m \in DOMAIN With(f, n, v) <=> m \in DOMAIN f
                  /\ m \in DOMAIN f => With(f, n, v)[m] = f[m]
                  /\ m \in DOMAIN Without(f, n) <=> m \in DOMAIN f
                  /\ m \in DOMAIN f => Without(f, n)[m] = f[m]
  BY DEF With, Without
<1>2. CASE Kind(c) = "createUser"
  BY <1>1, <1>2 DEF UsersWritten, RolesWritten
<1>3. CASE Kind(c) = "modifyUser"
  BY <1>1, <1>3 DEF UsersWritten, RolesWritten, Stored
<1>4. CASE Kind(c) = "removeUser"
  BY <1>1, <1>4 DEF UsersWritten, RolesWritten
<1>5. CASE Kind(c) = "createRole"
  BY <1>1, <1>5 DEF UsersWritten, RolesWritten
<1>6. CASE Kind(c) = "modifyRole"
  BY <1>1, <1>6 DEF UsersWritten, RolesWritten
<1>7. CASE Kind(c) = "removeRole"
  BY <1>1, <1>7 DEF UsersWritten, RolesWritten
<1> QED
  BY <1>2, <1>3, <1>4, <1>5, <1>6, <1>7, CallType DEF UserKind, RoleKind

\* What has been written, seen from its name.
LEMMA WrittenInStep ==
    ASSUME Inv, NEW c \in Call, InStep(c), stage[c] = "write", ~Refused(c),
           stage' = [stage EXCEPT ![c] = IF Removes(c) THEN "ok" ELSE "grant"],
           localusers' = UsersWritten(c), roles' = RolesWritten(c), UNCHANGED <<acl, entry>>,
           changed' = [changed EXCEPT ![Subject(c)] = IF Kind(c) = "modifyRole" THEN c ELSE None]
    PROVE  /\ ~Removes(c) => InStep(c)'
           /\ Removes(c) => Agrees(Subject(c))'
<1> DEFINE n == Subject(c)
<1>1. stage'[c] = (IF Removes(c) THEN "ok" ELSE "grant") /\ TypeOK
  BY DEF Inv, TypeOK
<1>2. userRoles' = userRoles /\ roleParents' = roleParents /\ entry' = entry
  BY DEF acl
<1>3. n \in Names /\ changed'[n] = IF Kind(c) = "modifyRole" THEN c ELSE None
  BY CallType DEF Names, Inv, ObservedType
<1>4. CASE n \in User
  <2>1. Kind(c) \in UserKind /\ UserCall(c)
    BY <1>4, CallType, AccountAssumption DEF InStep
  <2>2. CASE Kind(c) = "createUser"
    <3>1. n \notin DOMAIN localusers /\ ~Removes(c)
      BY <2>2 DEF Refused, Creates, Stored, Removes
    <3>2. userRoles[n] = {} /\ Value(c) # None
      BY <2>1, <2>2, <3>1, CallType, AccountAssumption DEF UserCall, UserAgrees
    <3>3. n \in DOMAIN localusers' /\ localusers'[n] = NewRole(c)
      BY <1>1, <2>2, <3>2, WrittenDocuments DEF NewRole
    <3>4. UserCall(c)'
      BY <1>1, <1>2, <2>2, <3>1, <3>2, <3>3 DEF UserCall, NewRole
    <3> QED
      BY <1>4, <3>1, <3>4 DEF InStep
  <2>3. CASE Kind(c) = "modifyUser"
    <3>1. /\ n \in DOMAIN localusers /\ localusers[n] = entry[c] /\ ~Removes(c)
          /\ userRoles[n] = IF ChangesRole(c) THEN {} ELSE {entry[c]}
      BY <2>1, <2>3 DEF UserCall, Removes
    <3>2. n \in DOMAIN localusers' /\ localusers'[n] = NewRole(c)
      BY <1>1, <2>3, <3>1, WrittenDocuments DEF NewRole
    <3>3. UserCall(c)'
      BY <1>1, <1>2, <2>3, <3>1, <3>2 DEF UserCall, NewRole, ChangesRole
    <3> QED
      BY <1>4, <3>1, <3>3 DEF InStep
  <2>4. CASE Kind(c) = "removeUser"
    <3>1. userRoles[n] = {} /\ n \notin DOMAIN localusers' /\ Removes(c)
      BY <1>1, <2>1, <2>4, WrittenDocuments DEF UserCall, Removes
    <3> QED
      BY <1>2, <1>4, <3>1 DEF Agrees, UserAgrees
  <2> QED
    BY <2>1, <2>2, <2>3, <2>4 DEF UserKind
<1>5. CASE n \notin User
  <2>1. Kind(c) \in RoleKind /\ RoleCall(c) /\ n \in Role
    BY <1>5, CallType DEF InStep
  <2>2. CASE Kind(c) = "createRole"
    <3>1. n \notin DOMAIN roles /\ ~Removes(c)
      BY <2>2 DEF Refused, Creates, Stored, Removes
    <3>2. roleParents[n] = {}
      BY <2>1, <2>2, <3>1 DEF RoleCall, RoleInForce, RoleAgrees
    <3>3. n \in DOMAIN roles' /\ roles'[n] = Value(c) /\ changed'[n] = None
      BY <1>1, <1>3, <2>2, WrittenDocuments
    <3>4. RoleCall(c)'
      BY <1>1, <1>2, <2>2, <3>1, <3>2, <3>3 DEF RoleCall
    <3> QED
      BY <1>5, <3>1, <3>4 DEF InStep
  <2>3. CASE Kind(c) = "modifyRole"
    <3>1. n \in DOMAIN roles /\ roleParents[n] = {} /\ ~Removes(c)
      BY <2>1, <2>3 DEF RoleCall, Removes
    <3>2. n \in DOMAIN roles' /\ changed'[n] = c
      BY <1>1, <1>3, <2>3, <3>1, WrittenDocuments
    <3>3. RoleCall(c)'
      BY <1>1, <1>2, <2>3, <3>1, <3>2 DEF RoleCall
    <3> QED
      BY <1>5, <3>1, <3>3 DEF InStep
  <2>4. CASE Kind(c) = "removeRole"
    <3>1. /\ roleParents[n] = {} /\ n \notin DOMAIN roles' /\ Removes(c)
          /\ changed'[n] = None
      BY <1>1, <1>3, <2>1, <2>4, WrittenDocuments DEF RoleCall, Removes
    <3> QED
      BY <1>2, <1>5, <3>1 DEF Agrees, RoleInForce, RoleAgrees
  <2> QED
    BY <2>1, <2>2, <2>3, <2>4 DEF RoleKind
<1> QED
  BY <1>4, <1>5

LEMMA WriteStep ==
    ASSUME Inv, NEW c \in Call, Write(c), Observe
    PROVE  AclInv'
<1> DEFINE n == Subject(c)
<1>1. stage[c] = "write" /\ "write" \in Live /\ n \in Names /\ UNCHANGED service
  BY CallType DEF Write, Goes, Fails, Rejects, Live, Names
<1>2. service # "down" /\ service' # "down"
  BY <1>1, Running
<1>3. CASE Fails(c, "write") /\ Creates(c)
  <2>1. InStep(c) => Agrees(n)
    BY <1>1, <1>3, CallType, AccountAssumption
       DEF InStep, UserCall, RoleCall, Agrees, Creates, UserKind, RoleKind
  <2> QED
    BY <1>1, <1>3, <2>1, FailsStep
<1>4. CASE Fails(c, "write") /\ ~Creates(c)
  <2> DEFINE to == "failed"
  <2>1. stage' = [stage EXCEPT ![c] = to] /\ stage[c] # to /\ to = "failed"
    BY <1>1, <1>4 DEF Fails, Goes
  <2> HIDE DEF to
  <2>2. n \in disturbed'
    BY <1>1, <1>2, <1>4, <2>1, Noted
  <2> QED
    BY <1>1, <1>4, <2>2, FailsStep
<1>5. CASE /\ Goes(c, "write", IF Removes(c) THEN "ok" ELSE "grant") /\ ~Refused(c)
           /\ localusers' = UsersWritten(c) /\ roles' = RolesWritten(c) /\ UNCHANGED <<acl, entry>>
  <2> DEFINE to == IF Removes(c) THEN "ok" ELSE "grant"
  <2>1. /\ stage' = [stage EXCEPT ![c] = to] /\ stage[c] # to /\ to \in {"grant", "ok"}
        /\ to \in Live \cup Answered /\ stage[c] \in Live /\ (to \in Live <=> ~Removes(c))
    BY <1>1, <1>5 DEF Goes, Live, Answered
  <2>2. ~Removes(c) /\ InStep(c) => InStep(c)'
    <3> HIDE DEF to
    <3>1. changed' = [changed EXCEPT ![n] = IF Kind(c) = "modifyRole" THEN c ELSE None]
      BY <1>1, <1>2, <2>1, Noted
    <3> QED
      BY <1>1, <1>5, <2>1, <3>1, WrittenInStep DEF to
  <2>3. Removes(c) /\ InStep(c) => Agrees(n)'
    <3> HIDE DEF to
    <3>1. changed' = [changed EXCEPT ![n] = IF Kind(c) = "modifyRole" THEN c ELSE None]
      BY <1>1, <1>2, <2>1, Noted
    <3> QED
      BY <1>1, <1>5, <2>1, <3>1, WrittenInStep DEF to
  <2> HIDE DEF to, n
  <2>4. ASSUME NEW m \in Names \ {n} PROVE Untouched(m)
    <3>1. changed'[m] = changed[m]
      BY <1>2, <2>1, <2>4, OthersNoted DEF n
    <3> QED
      BY <1>5, <2>4, <3>1, WrittenDocuments DEF Untouched, Inv, acl, n
  <2>5. \A d \in Call \ {c} : entry'[d] = entry[d]
    BY <1>5
  <2> QED
    BY <1>2, <2>1, <2>2, <2>3, <2>4, <2>5, OneCall DEF n
<1> QED
  BY <1>3, <1>4, <1>5 DEF Write, Rejects, Refused

-----------------------------------------------------------------------------
(* start and the end of the process                                        *)

LEMMA LoadStep ==
    ASSUME Inv, Load, Observe
    PROVE  AclInv'
<1>1. /\ service' = "starting" /\ localusers' = localusers /\ roles' = roles
      /\ stage' = [c \in Call |-> IF c \in Default THEN "write" ELSE stage[c]]
      /\ disturbed' = {} /\ changed' = [n \in User \cup Role |-> None]
  BY DEF Load, Observe, documents
<1>2. ASSUME NEW c \in InFlight' PROVE c \in Default /\ stage'[c] = "write"
  BY <1>1, <1>2 DEF InFlight, Inv, AclInv, Load
<1>3. Alone'
  <2>1. \A c, d \in InFlight' : Subject(c) = Subject(d) => c = d
    BY <1>2, DefaultCall
  <2> QED
    BY <2>1 DEF Alone
<1>4. ASSUME NEW n \in Names PROVE Agrees(n)' /\ (n \in Role => RoleInForce(n)')
  <2>1. n \in User => UserAgrees(n)'
    BY <1>1 DEF Load, UserAgrees
  <2>2. n \in Role => RoleInForce(n)'
    BY <1>1 DEF Load, RoleAgrees, RoleInForce
  <2> QED
    BY <2>1, <2>2 DEF Agrees, Names
<1>5. ASSUME NEW n \in Names, NEW c \in Calls(n)' PROVE InStep(c)'
  <2>1. /\ c \in Call /\ Kind(c) = "createRole" /\ Subject(c) = n /\ stage'[c] = "write"
        /\ n \in Role /\ n \notin User
    BY <1>2, <1>5, DefaultCall, AccountAssumption DEF Calls
  <2>2. RoleInForce(n)'
    BY <1>4, <2>1
  <2> QED
    BY <2>1, <2>2 DEF InStep, RoleCall
<1> QED
  BY <1>1, <1>3, <1>4, <1>5 DEF AclInv, NameInv

LEMMA StartedStep ==
    ASSUME Inv, Started, Observe
    PROVE  AclInv'
<1>1. /\ service # "down" /\ service' # "down" /\ UNCHANGED <<documents, acl, stage, entry>>
  BY DEF Started
<1>2. Written = {} /\ InFlight' = InFlight
  BY <1>1 DEF Written, InFlight
<1>3. disturbed \subseteq disturbed' /\ changed' = changed
  BY <1>1, <1>2 DEF Observe
<1>4. Alone'
  BY <1>2, <1>3 DEF Alone, Inv, AclInv
<1>5. ASSUME NEW n \in Names \ disturbed' PROVE NameInv(n)'
  <2>1. NameInv(n)
    BY <1>1, <1>3, <1>5 DEF Inv, AclInv
  <2>2. Untouched(n)
    BY <1>1, <1>3 DEF Untouched, documents, acl
  <2> QED
    BY <1>1, <1>5, <2>1, <2>2, Frame
<1> QED
  BY <1>1, <1>4, <1>5 DEF AclInv

LEMMA StopStep ==
    ASSUME Stop
    PROVE  AclInv'
<1>1. service' = "down" /\ InFlight' = {}
  BY DEF Stop, InFlight, Answered
<1> QED
  BY <1>1 DEF AclInv, Alone

LEMMA StutterStep ==
    ASSUME Inv, UNCHANGED ovars
    PROVE  AclInv'
<1>1. UNCHANGED <<documents, acl, service, stage, entry, disturbed, changed>>
  BY DEF ovars, vars
<1>2. InFlight' = InFlight
  BY <1>1 DEF InFlight
<1>3. Alone'
  BY <1>1, <1>2 DEF Alone, Inv, AclInv
<1>4. ASSUME NEW n \in Names \ disturbed, NameInv(n) PROVE NameInv(n)'
  <2>1. Untouched(n)
    BY <1>1 DEF Untouched, documents, acl
  <2> QED
    BY <1>1, <1>4, <2>1, Frame
<1> QED
  BY <1>1, <1>2, <1>3, <1>4 DEF Inv, AclInv

-----------------------------------------------------------------------------
(* The theorems                                                            *)

LEMMA InitInv == ObservedInit => Inv
<1> SUFFICES ASSUME ObservedInit PROVE Inv
  OBVIOUS
<1>1. TypeOK /\ Fits
  BY InitType DEF ObservedInit, Init, Fits
<1>2. service = "down" /\ InFlight = {}
  BY DEF ObservedInit, Init, InFlight
<1> QED
  BY <1>1, <1>2 DEF Inv, ObservedType, AclInv, Alone, ObservedInit, Names

LEMMA NextInv == Inv /\ [ObservedNext]_ovars => Inv'
<1> SUFFICES ASSUME Inv, [ObservedNext]_ovars PROVE Inv'
  OBVIOUS
<1>1. TypeOK' /\ Fits'
  BY NextType, NextFits DEF Inv, ObservedNext, ovars
<1>2. ObservedType'
  <2>1. CASE Observe
    <3>1. \A c \in Written : c \in Call
      BY DEF Written
    <3> QED
      BY <2>1, <3>1 DEF Observe, ObservedType, Inv, Names
  <2>2. CASE UNCHANGED ovars
    BY <2>2 DEF ovars, ObservedType, Inv
  <2> QED
    BY <2>1, <2>2 DEF ObservedNext
<1>3. AclInv'
  <2>1. CASE Next /\ Observe
    BY <2>1, ReceiveStep, AdmitStep, FindStep, RevokeStep, WriteStep, GrantStep, GetStep,
       LoadStep, StartedStep, StopStep DEF Next, Serve, ServeCall
  <2>2. CASE UNCHANGED ovars
    BY <2>2, StutterStep
  <2> QED
    BY <2>1, <2>2 DEF ObservedNext
<1> QED
  BY <1>1, <1>2, <1>3 DEF Inv

\* Where the calls for a name come one after the other, the access control list
\* agrees with the documents between them.
THEOREM AclAgreesAlways == ObservedSpec => []AclAgrees
<1>1. Inv => AclAgrees
  <2> SUFFICES ASSUME Inv, service # "down", NEW n \in Names \ disturbed, Idle(n)
               PROVE  Agrees(n)
    BY DEF AclAgrees, Agrees, RoleInForce, Names
  <2>1. Calls(n) = {}
    BY DEF Idle, Calls
  <2> QED
    BY <2>1 DEF Inv, AclInv, NameInv
<1> QED
  BY <1>1, InitInv, NextInv, PTL DEF ObservedSpec

\* A request is acknowledged by the last step of its own call.
LEMMA LastStep ==
    ASSUME TypeOK, Next, NEW c \in Request, stage[c] # "ok", stage'[c] = "ok"
    PROVE  Get(c) \/ Write(c)
<1>1. c \in Call /\ c \notin Default
  BY AccountAssumption DEF Call
<1>2. ASSUME NEW d \in Call, NEW to, stage' = [stage EXCEPT ![d] = to]
      PROVE  d = c /\ to = "ok"
  BY <1>1, <1>2 DEF TypeOK
<1>3. ASSUME NEW d \in Request, Receive(d) PROVE FALSE
  BY <1>2, <1>3 DEF Receive, Goes, FirstStage, Call
<1>4. ASSUME NEW d \in Call, Admit(d) \/ Find(d) \/ Revoke(d) \/ Grant(d) PROVE FALSE
  BY <1>2, <1>4 DEF Admit, Find, Revoke, Grant, Goes, Fails, Rejects
<1>5. ASSUME NEW d \in Call, Write(d) \/ Get(d) PROVE d = c
  BY <1>2, <1>5 DEF Write, Get, Goes, Fails, Rejects
<1>6. ~Load /\ ~Started /\ ~Stop
  BY <1>1 DEF Load, Started, Stop
<1> QED
  BY <1>3, <1>4, <1>5, <1>6 DEF Next, Serve, ServeCall

\* What has been acknowledged is stored and in the access control list, unless
\* another request for the name overlaps.
THEOREM AckedInForceAlways == ObservedSpec => AckedInForce
<1>1. ASSUME Inv, Next /\ Observe, NEW c \in Request, Acknowledged(c),
             Subject(c) \notin disturbed'
      PROVE  InForce(c)'
  <2> DEFINE n == Subject(c)
  <2>1. c \in Call /\ (Get(c) \/ Write(c))
    BY <1>1, LastStep DEF Inv, Call, Acknowledged
  <2>2. /\ stage[c] = IF Get(c) THEN "get" ELSE "write"
        /\ stage[c] \in Live
    BY <2>1 DEF Get, Write, Goes, Fails, Rejects, Live
  <2>3. service # "down" /\ service' = service
    BY <1>1, <2>1, <2>2, Running DEF Get, Write
  <2>4. n \notin disturbed
    BY <1>1, <2>3 DEF Observe
  <2>5. n \in Names /\ NameInv(n) /\ c \in Calls(n)
    BY <1>1, <2>1, <2>2, <2>3, <2>4, CallType, LiveStages DEF Inv, AclInv, Names, Calls
  <2>6. InStep(c)
    BY <2>5 DEF NameInv
  <2>7. CASE Goes(c, "get", "ok") /\ UNCHANGED <<documents, acl, entry>>
    <3>1. stage[c] = "get" /\ UNCHANGED <<localusers, roles, userRoles, roleParents>>
      BY <2>7 DEF Goes, documents, acl
    <3>2. ~Removes(c)
      BY <1>1, <2>1, <3>1 DEF Inv, Fits
    <3>3. CASE n \in User
      <4>1. /\ n \in DOMAIN localusers /\ UserAgrees(n) /\ Kind(c) \in {"createUser", "modifyUser"}
            /\ Value(c) = None \/ localusers[n] = Value(c)
            /\ Kind(c) = "createUser" => Value(c) # None
        BY <2>1, <2>6, <3>1, <3>2, <3>3, CallType, AccountAssumption
           DEF InStep, UserCall, Removes, UserKind, RoleKind
      <4> QED
        BY <3>1, <4>1 DEF InForce, UserAgrees
    <3>4. CASE n \notin User
      <4>1. /\ n \in DOMAIN roles /\ roleParents[n] = Value(c)
            /\ Kind(c) \in {"createRole", "modifyRole"}
        BY <2>1, <2>6, <3>1, <3>2, <3>4, CallType DEF InStep, RoleCall, Removes, RoleKind
      <4> QED
        BY <3>1, <4>1 DEF InForce
    <3> QED
      BY <3>3, <3>4
  <2>8. CASE /\ Goes(c, "write", IF Removes(c) THEN "ok" ELSE "grant")
             /\ localusers' = UsersWritten(c) /\ roles' = RolesWritten(c) /\ UNCHANGED <<acl, entry>>
    <3>1. stage[c] = "write" /\ Removes(c) /\ UNCHANGED <<userRoles, roleParents>>
      BY <1>1, <2>1, <2>8 DEF Goes, acl, Inv, TypeOK, Acknowledged
    <3>2. CASE Kind(c) = "removeUser"
      <4>1. n \in User /\ n \notin DOMAIN localusers' /\ userRoles[n] = {}
        BY <1>1, <2>1, <2>6, <2>8, <3>1, <3>2, CallType, WrittenDocuments
           DEF InStep, UserCall, Inv, UserKind
      <4> QED
        BY <3>1, <3>2, <4>1 DEF InForce
    <3>3. CASE Kind(c) = "removeRole"
      <4>1. n \notin User /\ n \notin DOMAIN roles' /\ roleParents[n] = {}
        BY <1>1, <2>1, <2>6, <2>8, <3>1, <3>3, CallType, AccountAssumption, WrittenDocuments
           DEF InStep, RoleCall, Inv, RoleKind
      <4> QED
        BY <3>1, <3>3, <4>1 DEF InForce
    <3> QED
      BY <3>1, <3>2, <3>3 DEF Removes
  <2> QED
    <3>1. ~Fails(c, "get") /\ ~Fails(c, "write")
      BY <1>1, <2>1 DEF Fails, Goes, Inv, TypeOK, Acknowledged
    <3> QED
      BY <2>1, <2>7, <2>8, <3>1 DEF Get, Write, Rejects
<1>2. Inv /\ [ObservedNext]_ovars =>
        [\A c \in Request : Acknowledged(c) /\ Subject(c) \notin disturbed' => InForce(c)']_ovars
  <2> SUFFICES ASSUME Inv, Next /\ Observe
               PROVE  \A c \in Request : Acknowledged(c) /\ Subject(c) \notin disturbed' => InForce(c)'
    BY DEF ObservedNext
  <2> QED
    BY <1>1
<1> QED
  BY <1>2, InitInv, NextInv, PTL DEF ObservedSpec, AckedInForce
=============================================================================
