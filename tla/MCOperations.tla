---------------------------- MODULE MCOperations ----------------------------
(* The parts of the interface that read and change nodes, for TLC: a client   *)
(* that walks the Redfish tree, one or two requests to the engine, requests    *)
(* that move and remove settings, and a collection listed page by page.  The   *)
(* parts share no state, so that each behaviour is of one of them.             *)
EXTENDS MCRedfish, RedfishActions, ObservedSettings, Pollers, TLC

CONSTANTS plain, dell, fresh, s1, s2, loose

VARIABLE part        \* which of them

idle == <<part>>

--------------------------------------------------------------------------
Asks(op, node, ok, targets, volumes, drives) ==
    [op |-> op, node |-> node, ok |-> ok, targets |-> targets,
     at |-> [volumes |-> volumes, drives |-> drives]]

MCRequest ==
    {Asks("reset", plain, TRUE, <<>>, {}, {}), Asks("boot", plain, TRUE, <<>>, {}, {}),
     Asks("password", dell, FALSE, <<>>, {}, {}), Asks("bios", dell, TRUE, <<>>, {}, {}),
     Asks("deleteVolume", dell, TRUE, <<>>, {2}, {}), Asks("addVolume", dell, TRUE, <<>>, {}, {1, 2}),
     Asks("addHotspare", dell, TRUE, <<>>, {1}, {2}),
     Asks("firmware", dell, TRUE, <<dell, plain>>, {}, {}),
     Asks("postNode", fresh, TRUE, <<fresh>>, {}, {}), Asks("postMgmt", fresh, TRUE, <<fresh>>, {}, {}),
     Asks("createTag", plain, TRUE, <<>>, {}, {}), Asks("cancel", plain, TRUE, <<>>, {}, {}),
     Asks("cancel", dell, FALSE, <<>>, {}, {})}

MCCatalog == {[volumes |-> 1, drives |-> 2], [volumes |-> 2, drives |-> 1]}

Batches == {b \in SUBSET Request : Cardinality(b) \in 1 .. 2}

MCAtFirst ==
    {[id |-> s1, node |-> plain, config |-> "old"], [id |-> s2, node |-> dell, config |-> "old"],
     [id |-> loose, node |-> Nobody, config |-> "old"]}

Changes(op, id, to, config) == [op |-> op, id |-> id, to |-> to, config |-> config]

MCChange ==
    {Changes("patch", s1, dell, "new"), Changes("patch", s1, Nobody, "old"), Changes("patch", s1, plain, "old"),
     Changes("delete", s2, Nobody, "new"), Changes("patch", loose, plain, "new")}

--------------------------------------------------------------------------
NoWalk == \E b \in Box : box = b /\ ~b.node /\ present = {} /\ shown = {}
NoActions == ActionsInit({}) /\ registered /\ \A n \in Dell : hardware[n] = {}
NoPollers == pollers = {} /\ paused = {}

MCInit ==
    /\ ObservedInit
    /\ \/ part = "walk" /\ InventoryInit /\ NoActions /\ NoPollers
       \/ part = "act" /\ NoWalk /\ (\E b \in Batches : ActionsInit(b)) /\ NoPollers
       \/ part = "settings" /\ NoWalk /\ NoActions /\ NoPollers
       \/ part = "pages" /\ NoWalk /\ NoActions /\ PollersInit

MCNext ==
    \/ part = "walk" /\ InventoryNext /\ UNCHANGED <<gvars, avars, ovars, pvars, part>>
    \/ part = "act" /\ ActionsNext /\ UNCHANGED <<rvars, ovars, pvars, part>>
    \/ part = "settings" /\ SettingsNext /\ Observe /\ UNCHANGED <<rvars, gvars, avars, pvars, part>>
    \/ part = "pages" /\ PollersNext /\ UNCHANGED <<rvars, gvars, avars, ovars, part>>

MCSpec == MCInit /\ [][MCNext]_<<rvars, gvars, avars, ovars, pvars, part>>
=============================================================================
