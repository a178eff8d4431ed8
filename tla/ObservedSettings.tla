-------------------------- MODULE ObservedSettings --------------------------
(* The settings of the nodes with the requests for one of them that were       *)
(* under way together and the events that were lost, and what those who follow   *)
(* the events can rely on.                                                      *)
EXTENDS NodeSettings

VARIABLES
    overlapped,     \* settings that two requests were under way for together
    missed          \* <<node, setting>> of a lost event, until another event tells of it

UnderWay(c) == stage[c] \in {"found", "read"}

Together == {c \in Change : \E d \in Change : d # c /\ d.id = c.id /\ UnderWay(c) /\ UnderWay(d)}

OfId(documents, i) == {d \in documents : d.id = i}

Unheard(n, i) == OfId(heard[n], i) # OfId(SettingsOf(n), i)

\* The event of a node is lost that would have told of a setting.
Lost(n, i) ==
    \E c \in Change : \E b \in before[c] :
        b.node = n /\ OfId(b.settings, i) # OfId(SettingsOf(n), i) /\ TellFails(c, b)

Observe ==
    /\ overlapped' = overlapped \cup {c.id : c \in Together'}
    /\ missed' = {p \in Holder \X {d.id : d \in AtFirst} :
                     Unheard(p[1], p[2])' /\ (p \in missed \/ Lost(p[1], p[2]))}

ovars == <<svars, overlapped, missed>>

ObservedInit == SettingsInit /\ overlapped = {} /\ missed = {}

ObservedSpec == ObservedInit /\ [][SettingsNext /\ Observe]_ovars

--------------------------------------------------------------------------
Quiet == \A c \in Change : stage[c] \in {"idle", "answered"} /\ before[c] = {}

Loose == {d.id : d \in {e \in AtFirst : e.node = Nobody}}

\* A setting that belonged to nobody, one that two requests changed together, and one
\* whose event was lost are not told of.
Followed(n, documents) ==
    {d \in documents : d.id \notin overlapped \cup Loose /\ <<n, d.id>> \notin missed}

(***************************************************************************)
(* Once every request has been answered and what was due is published, the *)
(* events of each node have told what its settings are, though every       *)
(* request reads the nodes after the setting, and again after the answer.  *)
(***************************************************************************)
EveryChangeIsTold ==
    Quiet => \A n \in Holder : Followed(n, heard[n]) = Followed(n, SettingsOf(n))
=============================================================================
