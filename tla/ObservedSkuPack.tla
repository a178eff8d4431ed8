-------------------------- MODULE ObservedSkuPack --------------------------
(* The SKU packs with what has overlapped and what was cut short, and what     *)
(* holds of the SKUs that were spared it.                                       *)
EXTENDS SkuPack

VARIABLES
    shared,     \* SKUs that two requests have been busy with at the same time
    cut,        \* SKUs on which a request was stopped or failed half way
    late,       \* items that were still being loaded when their pack was unregistered
    refused,    \* items whose last loadFile to end has failed or died with the process
    racing      \* whether two requests that give a name have ever overlapped, or one
                \* of them has been to rename a SKU

Naming == {r \in InFlight : call[r].op.kind \in {"upload", "post", "upsert", "patch"}}
Busy(s) == {r \in InFlight : call[r].sku = s}

Observe ==
    /\ shared' = shared \cup {s \in Sku : \E r, q \in Busy(s)' : r # q}
    /\ cut' = cut \cup {s \in Sku : \E r \in Busy(s) :
                          call'[r].at \in {"lost", "failed"} /\ call[r].at # "regenerate"}
    /\ late' = late \cup {i \in loading : \E r \in Busy(i[1]) :
                            call[r].at = "unregister" /\ call'[r].at # "unregister"}
    /\ refused' = (refused \cup (loading \ loading')) \ library'
    /\ racing' = (racing \/ \E r, q \in Naming' : r # q \/ call'[r].op.kind = "patch")

ovars == <<vars, shared, cut, late, refused, racing>>
ObservedInit == Init /\ shared = {} /\ cut = {} /\ late = {} /\ refused = {} /\ racing = FALSE
ObservedSpec == ObservedInit /\ [][Next /\ Observe]_ovars

--------------------------------------------------------------------------
\* Between the requests on a SKU that come one after the other and are not cut
\* short, collection, directory and handlers agree (installPack, registerPack,
\* deletePack), also after a restart (start); and once the loads nobody awaits have
\* ended, the library holds the pack's items and no others, but for those whose
\* loadFile failed and those it brought after the pack had been unregistered.
PacksConsistent ==
    \A s \in DOMAIN skus \ (shared \cup cut) : Idle(s) =>
        /\ Consistent(s)
        /\ Lib(s) \cup Pending(s) \subseteq Items(s, Root) \cup late
        /\ Items(s, Root) \subseteq Lib(s) \cup Pending(s) \cup refused

\* A SKU that has been deleted leaves no directory and no handler behind
\* (deleteSkuById), whatever was stopped or failed half way before, and no library
\* item but one that was still being loaded when its pack was unregistered.
DeletedLeavesNothing ==
    \A s \in issued \ (DOMAIN skus \cup shared) : Idle(s) =>
        NothingLeft(s) /\ Lib(s) \cup Pending(s) \subseteq late

\* When the upload of a pack is acknowledged, all of it is in place (installPack
\* and registerPack), whatever was stopped or failed half way on the SKU before,
\* but for the templates and profiles: the load of each of them has been begun,
\* and it may still be under way or have failed.
AckedPackServed ==
    [][\A r \in Request :
         /\ call[r].op.kind \in Install /\ call[r].at # "ok" /\ call'[r].at = "ok"
         /\ call[r].sku \notin shared'
         => LET s == call[r].sku
                pack == call[r].op.pack
            IN  /\ Served(s, pack)'
                /\ \A root \in Contents[pack].roots \cap Unawaited :
                      <<s, root, pack>> \in (library \cup loading \cup refused)']_ovars

\* As long as requests that give a name do not overlap, names are unique
\* (postSku, upsertSku, installPack); patchSku gives any name it is told to.
SerialUniqueNames == ~racing => UniqueNames
=============================================================================
