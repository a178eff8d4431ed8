--------------------------- MODULE ObservedEvents ---------------------------
(***************************************************************************)
(* What the event service promises when its creations come one after the   *)
(* other: a history variable notes when they do not; it restricts nothing. *)
(***************************************************************************)
EXTENDS EventService

VARIABLE overlapped     \* whether two creations have ever been under way together

Observe == overlapped' = (overlapped \/ \E c, d \in InFlight' : c # d)

ovars == <<vars, overlapped>>
ObservedInit == Init /\ overlapped = FALSE
ObservedNext == Next /\ Observe
ObservedSpec == ObservedInit /\ [][ObservedNext]_ovars
ObservedFairSpec == ObservedSpec /\ WF_vars(Serve)

\* As long as creations do not overlap, however they overlap with deletions,
\* eventListener and deleteEvent keep a single listener and never lose its handle.
OneListenerUnlessOverlapped == ~overlapped => OneListener
=============================================================================
