--------------------------- MODULE ObservedFiles ---------------------------
(* The file service with two histories: whether two requests have ever been    *)
(* under way at the same time, and which names a failing call has left between *)
(* the collection and the disk.                                                *)
EXTENDS FileService

VARIABLES
    overlapped, \* two requests have been under way at the same time
    torn        \* the names whose entry and file a failure has torn apart

Alone == \A r, t \in InFlight : r = t

\* The entry is stored and the file does not get its name; the file has its name
\* and not all of its data; the file is unlinked and the entry stays.
Tears(n) ==
    \/ \E u \in Upload :
         /\ Target[u] = n
         /\ \/ upload[u] = "rename" /\ upload'[u] = "cleanup"
            \/ upload[u] = "rename" /\ upload'[u] = "ready" /\ u \in broken
            \/ u \in broken' \ broken /\ final[n] = file[u]
    \/ \E d \in Delete : Target[d] = n /\ deleting[d] = "destroy" /\ deleting'[d] = "failed"

\* A later upload or deletion of the name that comes to its end.
Heals(n) ==
    \/ \E u \in Upload : Target[u] = n /\ upload[u] = "rename" /\ upload'[u] = "ready"
    \/ \E d \in Delete : Target[d] = n /\ deleting[d] = "destroy" /\ deleting'[d] = "ok"

Observe ==
    /\ overlapped' = (overlapped \/ ~Alone')
    /\ torn' = {n \in Name : Tears(n) \/ (n \in torn /\ ~Heals(n))}

ovars == <<vars, overlapped, torn>>

ObservedInit == Init /\ overlapped = FALSE /\ torn = {}
ObservedSpec == ObservedInit /\ [][Next /\ Observe]_ovars
ObservedFairSpec == ObservedSpec /\ WF_vars(Serve)

--------------------------------------------------------------------------
\* As long as requests come one after the other, each of them leaves exactly one
\* entry for each file on disk, and an entry that matches its file for each name
\* that is not torn: a refused lookup or update, a failing open, unlink or
\* clean-up, a client that goes away tears nothing, and the next upload or
\* deletion that succeeds mends what was (createOrUpdateEntry, rename, delete).
SerialCollectionMatchesDisk ==
    ~overlapped /\ Quiet =>
        \A n \in Name : /\ (final[n] # None => Cardinality(Rows(n)) = 1)
                         /\ (n \notin torn => EntryMatchesFile(n))

\* As long as requests come one after the other, an upload over an existing name
\* updates the entry and keeps its uuid (createOrUpdateEntry).
SerialUuidStable == [][~overlapped' => KeepsUuid]_ovars
=============================================================================
