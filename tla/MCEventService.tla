-------------------------- MODULE MCEventService --------------------------
(* Instances of EventService for TLC.                                      *)
EXTENDS ObservedEvents, TLC

CONSTANTS c1, c2, c3, host, slash, hook, e1, e3, t1

Sub(path, types) == [host |-> host, path |-> path, types |-> types]

\* c1 and c2 ask for the same destination, c3 for another one.
TwoDestinations ==
    c1 :> Sub(hook, {"Alert"}) @@ c2 :> Sub(hook, {"Alert", "StatusChange"})
    @@ c3 :> Sub(slash, {"ResourceUpdated"})

\* Two subscribers interested in the same alert.
TwoSubscribers ==
    c1 :> Sub(hook, {"Alert", "ResourceUpdated"}) @@ c2 :> Sub(slash, {"ResourceUpdated"})

OneSubscriber == c1 :> Sub(hook, {"Alert"})

NoKind == <<>>
TwoKinds ==
    e1 :> [sdr |-> "Threshold", type |-> "Alert"]
    @@ e3 :> [sdr |-> "Fabric", type |-> "ResourceUpdated"]
OneAlert == e1 :> [sdr |-> "Threshold", type |-> "Alert"]
=============================================================================
