-------------------------- MODULE ObservedAccounts --------------------------
(***************************************************************************)
(* What the users' and roles' documents promise about the access control   *)
(* list of Accounts, for names on which calls come one after the other.    *)
(* Two history variables note where that is not so; they restrict nothing. *)
(***************************************************************************)
EXTENDS Accounts

VARIABLES
    disturbed,  \* names on which calls have overlapped or were cut short, since start
    changed     \* [name -> the last modification of that role since start, or None]

Idle(n) == \A c \in InFlight : Subject(c) # n
Overlapping == {Subject(c) : c \in {d \in InFlight : \E e \in InFlight \ {d} : Subject(d) = Subject(e)}}

\* A write that is refused leaves what was revoked before it.
CutShort == {c \in Call : stage[c] = "write" /\ stage'[c] = "failed" /\ ~Creates(c)}
Written == {c \in Call : stage[c] = "write" /\ stage'[c] \in {"grant", "ok"}}

Observe ==
    IF service = "down" /\ service' # "down"
    THEN disturbed' = {} /\ changed' = [n \in User \cup Role |-> None]
    ELSE /\ disturbed' = disturbed \cup Overlapping' \cup {Subject(c) : c \in CutShort}
         /\ \/ Written = {} /\ UNCHANGED changed
            \/ \E c \in Written : changed' = [changed EXCEPT ![Subject(c)] =
                                                IF Kind(c) = "modifyRole" THEN c ELSE None]

ovars == <<vars, disturbed, changed>>
ObservedInit == Init /\ disturbed = {} /\ changed = [n \in User \cup Role |-> None]
ObservedNext == Next /\ Observe
ObservedSpec == ObservedInit /\ [][ObservedNext]_ovars /\ Fairness

\* Between the calls for a name that come one after the other and are not cut
\* short, the access control list says what the documents say, whatever
\* happens to other names, and also after a restart (start).  A role that has been
\* modified since then is the exception: it has the new privileges in the list only.
AclAgrees ==
    service # "down" =>
        \A n \in (User \cup Role) \ disturbed :
            Idle(n) => IF n \in User THEN UserAgrees(n)
                       ELSE IF changed[n] = None THEN RoleAgrees(n)
                       ELSE n \in DOMAIN roles /\ roleParents[n] = Value(changed[n])

\* What is in force for the name of a call that has been acknowledged.
InForce(c) ==
    LET n == Subject(c) IN
    CASE Kind(c) = "createUser" -> n \in DOMAIN localusers /\ userRoles[n] = {Value(c)}
      [] Kind(c) = "modifyUser" -> /\ n \in DOMAIN localusers
                                   /\ Value(c) # None => userRoles[n] = {Value(c)}
      [] Kind(c) = "removeUser" -> n \notin DOMAIN localusers /\ userRoles[n] = {}
      [] Kind(c) = "removeRole" -> n \notin DOMAIN roles /\ roleParents[n] = {}
      [] OTHER -> n \in DOMAIN roles /\ roleParents[n] = Value(c)

\* A step that acknowledges a request.
Acknowledged(c) == stage[c] # "ok" /\ stage'[c] = "ok"

\* When a request is acknowledged, it is stored and in the access control list
\* (createUser, modifyUserByName, removeUserByName and the same for roles), unless
\* another one for the same name overlaps.
AckedInForce ==
    [][\A c \in Request : Acknowledged(c) /\ Subject(c) \notin disturbed' => InForce(c)']_ovars
=============================================================================
