------------------------------ MODULE Presence ------------------------------
(***************************************************************************)
(* What a subscriber to the SSDP exchange may rely on: the alerts about a  *)
(* service alternate, present and missing, as long as the process that     *)
(* sends them does not end, and a service that has left for good is not    *)
(* reported present for ever, unless it has said that it always would be.  *)
(***************************************************************************)
CONSTANT USN    \* names of services on the network

VARIABLES
    there,      \* the services on the network
    announced,  \* the services whose last alert was "present"
    lasting,    \* those among them that have set no end to it
    alerts      \* [USN -> the type of the last alert, and whether the number of alerts is odd]

Init ==
    /\ there \subseteq USN /\ announced = {}
    /\ alerts = [u \in USN |-> [type |-> "none", odd |-> FALSE]]

\* One alert more about each of some services.
Alert(us, type) ==
    alerts' = [u \in USN |-> IF u \in us THEN [type |-> type, odd |-> ~alerts[u].odd]
                                         ELSE alerts[u]]

Present(us) == announced' = announced \cup us /\ Alert(us, "present")
Missing(us) == announced' = announced \ us /\ Alert(us, "missing")

\* The process ends, or has just started; nobody is told.
Forget == announced' = {} /\ UNCHANGED alerts

Next ==
    \/ UNCHANGED <<announced, alerts>>      \* a service comes or goes
    \/ Forget /\ UNCHANGED there
    \/ \E us \in SUBSET (USN \ announced) : Present(us) /\ UNCHANGED there
    \/ \E us \in SUBSET announced : Missing(us) /\ UNCHANGED there

vars == <<there, announced, alerts>>

Noticed == \A u \in USN : []<>(u \in announced => u \in there \cup lasting)

Spec == Init /\ [][Next]_vars /\ Noticed
=============================================================================
