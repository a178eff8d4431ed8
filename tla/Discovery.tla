----------------------------- MODULE Discovery -----------------------------
(***************************************************************************)
(* The uPnP service, lib/services/upnp-service.js: a client that searches  *)
(* the network every 15 seconds and keeps what answers in a cache whose    *)
(* entries live for the time the answer names, alerts on the SSDP exchange *)
(* when an entry appears or goes, and a server for each service this       *)
(* program offers itself, which the manager of the Redfish API turns on    *)
(* and off (patchManager of lib/api/redfish-1.0/managers.js).              *)
(*                                                                         *)
(* The network is UDP: an answer or a notification may be lost, arrive     *)
(* late, or be overtaken.                                                  *)
(***************************************************************************)
EXTENDS Naturals, FiniteSets

CONSTANTS
    USN,            \* services of others on the network
    Offered,        \* service types of the registry
    Type            \* [USN -> its service type, one of Offered or another]

ASSUME DiscoveryAssumption == DOMAIN Type = USN

VARIABLES
    there,          \* the services of others that are on the network
    wire,           \* messages to this program: <<"answer" | "alive" | "bye", USN>>
    observing,      \* whether the client searches
    cache,          \* [USN -> absent, valid, overdue, or lasting: without an end]
    alerts,         \* [USN -> type of the last alert; whether their number is odd]
    servers,        \* the offered services whose server has been created (ssdpList)
    advertised,     \* those whose server runs
    alive           \* the registry: those that are noted alive

network == <<there, wire>>
own == <<servers, advertised, alive>>
dvars == <<network, observing, cache, alerts, own>>

DiscoveryInit ==
    /\ there = {} /\ wire = {}
    /\ observing = FALSE
    /\ cache = [u \in USN |-> "absent"]
    /\ alerts = [u \in USN |-> [type |-> "none", odd |-> FALSE]]
    /\ servers = {} /\ advertised = {} /\ alive = {}

-----------------------------------------------------------------------------
(* The network                                                             *)

Arrives == \E u \in USN \ there :
    there' = there \cup {u} /\ wire' = wire \cup {<<"alive", u>>}

\* A service leaves, and may say so.
Leaves == \E u \in there :
    there' = there \ {u} /\ wire' \in {wire, wire \cup {<<"bye", u>>}}

Lost == \E m \in wire : wire' = wire \ {m} /\ UNCHANGED there

Network == (Arrives \/ Leaves \/ Lost) /\ UNCHANGED <<observing, cache, alerts, own>>

Takes(m) == m \in wire /\ wire' = wire \ {m} /\ UNCHANGED there

-----------------------------------------------------------------------------
(* The cache                                                               *)

\* sendSSDPAlert
Sent(type, us) ==
    alerts' = [u \in USN |-> IF u \in us THEN [type |-> type, odd |-> ~alerts[u].odd]
                                         ELSE alerts[u]]

\* Time passes until an entry's life is over; nobody notices yet.
Overdue(u) ==
    /\ cache[u] = "valid"
    /\ cache' = [cache EXCEPT ![u] = "overdue"]
    /\ UNCHANGED <<network, observing, alerts, own>>

\* The lives that an answer with that max-age may give an entry.  For node-cache an entry
\* stored with 0 has no end; where one is there already, 0 may also stand for its default.
Lives(u, age) ==
    CASE age = "positive" -> {"valid"}
      [] age = "zero" /\ cache[u] \in {"valid", "lasting"} -> {"valid", "lasting"}
      [] OTHER -> {"lasting"}

\* Mutation: every answer is stored anew.
RespondAnew(u, age) ==
    /\ \E life \in Lives(u, age) : cache' = [cache EXCEPT ![u] = life]
    /\ Sent("present", {u})

\* inResponse: an entry gets a new lease.  An overdue one is dropped by the look at it,
\* and then stored anew: two alerts.
Respond(u, age) ==
    /\ \E life \in Lives(u, age) : cache' = [cache EXCEPT ![u] = life]
    /\ CASE cache[u] \in {"valid", "lasting"} -> UNCHANGED alerts
         [] cache[u] = "absent" -> Sent("present", {u})
         [] OTHER -> alerts' = [alerts EXCEPT ![u].type = "present"]

Response == \E u \in USN, age \in {"positive", "zero"} :
    Takes(<<"answer", u>>) /\ observing /\ Respond(u, age) /\ UNCHANGED <<observing, own>>

\* Mutation: the keys are not looked at.
SweepNone == UNCHANGED <<cache, alerts>>

\* The look at every key, which drops those overdue.
Sweep ==
    LET over == {u \in USN : cache[u] = "overdue"} IN
    /\ cache' = [u \in USN |-> IF u \in over THEN "absent" ELSE cache[u]]
    /\ Sent("missing", over)

\* runClientObserver: each interval the network is searched, which those there answer.
Poll ==
    /\ observing
    /\ wire' = wire \cup {<<"answer", u>> : u \in there}
    /\ Sweep
    /\ UNCHANGED <<there, observing, own>>

-----------------------------------------------------------------------------
(* The servers                                                             *)

\* _alive notes it for an offered type, whoever has announced it.
NotedAlive(t) == alive' = alive \cup ({t} \cap Offered)

\* _bye stops the server of this program for that type, whoever has left, and drops
\* the entry of who has.
Alive == \E u \in USN :
    /\ Takes(<<"alive", u>>) /\ servers # {}
    /\ NotedAlive(Type[u])
    /\ UNCHANGED <<observing, cache, alerts, servers, advertised>>

Bye == \E u \in USN :
    /\ Takes(<<"bye", u>>) /\ servers # {}
    /\ LET stopped == {Type[u]} \cap alive IN
       advertised' = advertised \ stopped /\ alive' = alive \ stopped
    /\ cache' = [cache EXCEPT ![u] = "absent"]
    /\ IF observing /\ cache[u] # "absent" THEN Sent("missing", {u}) ELSE UNCHANGED alerts
    /\ UNCHANGED <<observing, servers>>

\* The announcements of a server of this program come back to it.
Echo == \E t \in advertised : NotedAlive(t)
    /\ UNCHANGED <<network, observing, cache, alerts, servers, advertised>>

\* start: the servers are created and started, then the client.
StartServers ==
    /\ servers = {}
    /\ servers' = Offered /\ advertised' = Offered
    /\ UNCHANGED <<network, observing, cache, alerts, alive>>

StartObserving ==
    /\ servers = Offered /\ ~observing
    /\ observing' = TRUE
    /\ UNCHANGED <<network, cache, alerts, own>>

\* patchManager turns the server of one type on or off.
PatchManager(t, on) ==
    /\ t \in servers
    /\ alive' = IF on THEN alive \cup {t} ELSE alive \ {t}
    /\ advertised' = IF on THEN advertised \cup {t} ELSE advertised \ {t}
    /\ UNCHANGED <<network, observing, cache, alerts, servers>>

\* The memory of the process is gone.
Lose ==
    /\ observing' = FALSE
    /\ cache' = [u \in USN |-> "absent"]
    /\ servers' = {} /\ advertised' = {} /\ alive' = {}
    /\ UNCHANGED alerts

\* The end of the process.
Forget == Lose /\ UNCHANGED network

\* An answer without a max-age: inResponse throws, and nobody catches it.
Throw == \E u \in USN : Takes(<<"answer", u>>) /\ observing /\ Lose

\* What the service does while it runs.
DiscoveryNext ==
    \/ Response \/ Poll \/ Alive \/ Bye \/ Echo
    \/ \E u \in USN : Overdue(u)
    \/ \E t \in Offered, on \in BOOLEAN : PatchManager(t, on)

\* The service by itself: the program that starts it may end at any time.
DiscoverySpec ==
    /\ DiscoveryInit
    /\ [][Network \/ StartServers \/ StartObserving \/ DiscoveryNext \/ Throw \/ Forget]_dvars

\* Time passes, and the interval of the client is reached again and again.
DiscoveryFairness == WF_dvars(Poll) /\ \A u \in USN : WF_dvars(Overdue(u))

-----------------------------------------------------------------------------

\* Overdue entries are in the cache until somebody looks.
Announced == {u \in USN : cache[u] # "absent"}

\* Entries without an end.
Lasting == {u \in USN : cache[u] = "lasting"}

Service == INSTANCE Presence WITH announced <- Announced, lasting <- Lasting

\* The alerts about a service alternate whatever is lost, late or overtaken, and one that
\* has left for good is reported missing in the end, unless its answer has given its entry
\* no end (_alertNew, _alertGone, inResponse, the poll).
AlertsFollowServices == Service!Spec
=============================================================================
