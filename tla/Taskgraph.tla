----------------------------- MODULE Taskgraph -----------------------------
(***************************************************************************)
(* The workflow engine as lib/services/taskgraph-api-service.js and        *)
(* workflow-api-service.js see it: another program, found through a        *)
(* registry for every call, that starts graphs, tells which are active and *)
(* cancels them.  A call fails when the registry names no scheduler or the *)
(* engine refuses it (a status above 299); and when its answer is lost,    *)
(* after the engine has done what it was asked to.                         *)
(***************************************************************************)
EXTENDS Naturals, Sequences, FiniteSets

VARIABLES
    registered,     \* whether the registry names a scheduler
    workflows       \* the graphs in the order of their start: [by, node, status]

gvars == <<registered, workflows>>

TaskgraphInit == registered \in BOOLEAN /\ workflows = <<>>

Active == {i \in DOMAIN workflows : workflows[i].status = "active"}

\* The instance id of a graph is its position here; 0 stands for a call that failed.
Failed == 0

\* How a call may end that leaves the engine with the graphs after and gives the reply.
runRpc(after, reply) ==
    {[after |-> workflows, reply |-> Failed, lost |-> FALSE]}
    \cup IF ~registered THEN {}
         ELSE {[after |-> after, reply |-> reply, lost |-> FALSE],
               [after |-> after, reply |-> Failed, lost |-> TRUE]}

createAndRunGraph(r, node) ==
    runRpc(Append(workflows, [by |-> r, node |-> node, status |-> "active"]),
           Len(workflows) + 1)

\* The first of the node's active graphs; a node without one is told apart nowhere
\* from a call that fails.
findActiveGraphForTarget(node) ==
    LET found == {i \in Active : workflows[i].node = node}
    IN {Failed} \cup IF ~registered THEN {} ELSE {i \in found : \A j \in found : i <= j}

\* A graph that has ended meanwhile is not there to cancel.
cancelTaskGraph(i) ==
    IF i \in Active THEN runRpc([workflows EXCEPT ![i].status = "cancelled"], i)
    ELSE runRpc(workflows, Failed)

--------------------------------------------------------------------------
(* The engine and the registry are other programs.                        *)

WorkflowEnds ==
    \E i \in Active :
        /\ workflows' = [workflows EXCEPT ![i].status = "ended"]
        /\ UNCHANGED registered

Registration ==
    /\ registered' = ~registered
    /\ UNCHANGED workflows

Engine == WorkflowEnds \/ Registration
=============================================================================
