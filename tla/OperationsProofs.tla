-------------------------- MODULE OperationsProofs --------------------------
(***************************************************************************)
(* What a client is told of the workflows it has started is what the       *)
(* engine does, whoever follows the events of the nodes is told of their   *)
(* settings, the pages of a collection show all of it, and the links of    *)
(* the Redfish tree lead somewhere: for any requests, nodes, catalogs,     *)
(* settings, pollers and machines.                                         *)
(***************************************************************************)
EXTENDS RedfishInventory, RedfishActions, ObservedSettings, Pollers, FiniteSetTheorems,
        WellFoundedInduction, TLAPS

-----------------------------------------------------------------------------
(* The requests that start workflows                                       *)

Graph == [by : Request, node : Node \cup {NoNode}, status : {"active", "ended", "cancelled"}]

Answers == [status : {"none", "error", "stored", "accepted"}, task : Nat, lost : BOOLEAN]

Types ==
    /\ workflows \in Seq(Graph)
    /\ step \in [Request -> {"unsent", "new", "ready", "found", "tagged", "done"}]
    /\ todo \in [Request -> SUBSET (Nat \X {"look", "call"})]
    /\ answer \in [Request -> Answers]

Untold(r) == StartedBy(r) = {} /\ answer[r].status = "none" /\ ~answer[r].lost

\* Nothing has been started before the answer.
StartsOnce(r) ==
    /\ ~Done(r) => Untold(r)
    /\ Done(r) => NamesItsGraph(r) /\ NothingRuns(r)

\* Nothing has been started before the call; afterwards the engine has told of it, and
\* the tag is read.
StoresATag(r) ==
    /\ step[r] \in {"unsent", "new", "ready", "found"} => Untold(r) /\ answer[r].task = Failed
    /\ step[r] = "tagged" => answer[r].status = "none" /\ ~answer[r].lost
    /\ TellsOfItsTag(r)

\* The graph found is one of the node's, and stays so whatever becomes of it.
Cancels(r) ==
    /\ StartedBy(r) = {}
    /\ ~Done(r) => answer[r].status = "none"
    /\ step[r] = "found" \/ answer[r].status = "accepted" =>
           answer[r].task \in DOMAIN workflows /\ workflows[answer[r].task].node = r.node
    /\ Done(r) => CancelsWhatItFound(r)

\* The positions that name a node, those that may still start a graph for it, and its graphs
Wanted(r, n) == {t \in DOMAIN r.targets : r.targets[t] = n}
Left(r, n) == {t \in Wanted(r, n) : <<t, "look">> \in todo[r] \/ <<t, "call">> \in todo[r]}
Given(r, n) == {i \in StartedBy(r) : workflows[i].node = n}

\* Every graph has used up a position of its node.
UpToTheTargets(r) ==
    /\ \A t \in DOMAIN r.targets : ~(<<t, "look">> \in todo[r] /\ <<t, "call">> \in todo[r])
    /\ \A n \in Node : Cardinality(Given(r, n)) + Cardinality(Left(r, n)) <= Cardinality(Wanted(r, n))

Updates(r) ==
    /\ step[r] \in {"unsent", "new"} => Untold(r)
    /\ step[r] = "ready" => answer[r].status \in {"none", "accepted"}
    /\ answer[r].status = "accepted" => answer[r].task \in StartedBy(r)
    /\ NothingRuns(r)
    /\ UpToTheTargets(r)

OfRequest(r) ==
    /\ r.op = "cancel" => Cancels(r)
    /\ r.op = "firmware" => Updates(r)
    /\ r.op = "createTag" => StoresATag(r)
    /\ r.op \notin {"cancel", "firmware", "createTag"} => StartsOnce(r)

AInv == Types /\ (\A r \in Request : OfRequest(r)) /\ OnlyByItsNode

-----------------------------------------------------------------------------
(* What becomes of the graphs in a step                                    *)

\* The graphs there are keep whose they are, and one that is cancelled remains it.
GraphsKeep ==
    /\ workflows' \in Seq(Graph)
    /\ DOMAIN workflows \subseteq DOMAIN workflows'
    /\ \A i \in DOMAIN workflows :
           /\ workflows'[i].by = workflows[i].by /\ workflows'[i].node = workflows[i].node
           /\ workflows[i].status = "cancelled" => workflows'[i].status = "cancelled"

StartedNone == \A q \in Request : StartedBy(q)' = StartedBy(q)
StartedOne(r) ==
    /\ StartedBy(r)' = StartedBy(r) \cup {Len(workflows) + 1}
    /\ \A q \in Request \ {r} : StartedBy(q)' = StartedBy(q)

LEMMA Unmoved ==
    ASSUME workflows \in Seq(Graph), UNCHANGED workflows
    PROVE  GraphsKeep /\ StartedNone
  BY DEF GraphsKeep, StartedNone, StartedBy

LEMMA Appended ==
    ASSUME workflows \in Seq(Graph), NEW r \in Request, NEW n \in Node \cup {NoNode},
           workflows' = Append(workflows, [by |-> r, node |-> n, status |-> "active"])
    PROVE  /\ GraphsKeep /\ StartedOne(r)
           /\ Len(workflows) + 1 \notin DOMAIN workflows
           /\ DOMAIN workflows' = DOMAIN workflows \cup {Len(workflows) + 1}
           /\ \A i \in DOMAIN workflows : workflows'[i] = workflows[i]
           /\ workflows'[Len(workflows) + 1] = [by |-> r, node |-> n, status |-> "active"]
  <1> DEFINE g == [by |-> r, node |-> n, status |-> "active"]
  <1>1. g \in Graph
    BY DEF Graph
  <1>2. /\ workflows' \in Seq(Graph)
        /\ DOMAIN workflows' = DOMAIN workflows \cup {Len(workflows) + 1}
        /\ Len(workflows) + 1 \notin DOMAIN workflows
        /\ workflows'[Len(workflows) + 1] = g
        /\ \A i \in DOMAIN workflows : workflows'[i] = workflows[i]
    <2>1. workflows' = Append(workflows, g)
      OBVIOUS
    <2> HIDE DEF g
    <2>2. workflows' \in Seq(Graph) /\ Len(workflows') = Len(workflows) + 1
      BY <1>1, <2>1
    <2>3. \A i \in 1 .. Len(workflows) : workflows'[i] = workflows[i]
      BY <1>1, <2>1
    <2>4. workflows'[Len(workflows) + 1] = g
      BY <1>1, <2>1
    <2>5. Len(workflows) \in Nat /\ DOMAIN workflows = 1 .. Len(workflows)
          /\ DOMAIN workflows' = 1 .. Len(workflows')
      BY <2>2
    <2> QED BY <2>2, <2>3, <2>4, <2>5
  <1>3. StartedOne(r)
    BY <1>2 DEF StartedOne, StartedBy
  <1> QED BY <1>2, <1>3 DEF GraphsKeep

LEMMA Marked ==
    ASSUME workflows \in Seq(Graph), NEW i \in Active, NEW s \in {"ended", "cancelled"},
           workflows' = [workflows EXCEPT ![i].status = s]
    PROVE  /\ GraphsKeep /\ StartedNone
           /\ i \in DOMAIN workflows /\ workflows'[i].status = s
           /\ \A j \in DOMAIN workflows \ {i} : workflows'[j] = workflows[j]
           /\ DOMAIN workflows' = DOMAIN workflows
  <1>1. i \in DOMAIN workflows /\ workflows[i] \in Graph /\ workflows[i].status = "active"
    BY DEF Active
  <1>2. /\ DOMAIN workflows' = DOMAIN workflows
        /\ workflows'[i] = [workflows[i] EXCEPT !.status = s]
        /\ \A j \in DOMAIN workflows \ {i} : workflows'[j] = workflows[j]
    BY <1>1
  <1>3. /\ workflows'[i] \in Graph /\ workflows'[i].status = s
        /\ workflows'[i].by = workflows[i].by /\ workflows'[i].node = workflows[i].node
    BY <1>1, <1>2 DEF Graph
  <1>4. workflows' \in Seq(Graph)
    <2>1. workflows' \in [1 .. Len(workflows) -> Graph]
      BY <1>1, <1>2, <1>3
    <2> QED BY <2>1
  <1>5. StartedNone
    BY <1>2, <1>3 DEF StartedNone, StartedBy
  <1> QED BY <1>1, <1>2, <1>3, <1>4, <1>5 DEF GraphsKeep

-----------------------------------------------------------------------------
(* The requests a step is not of                                           *)

Same(q) == step'[q] = step[q] /\ todo'[q] = todo[q] /\ answer'[q] = answer[q]

\* What holds of a request goes on to hold when neither it nor its graphs are touched.
LEMMA Bystander ==
    ASSUME AInv, GraphsKeep, NEW q \in Request, StartedBy(q)' = StartedBy(q), Same(q)
    PROVE  OfRequest(q)'
  <1>1. StartedBy(q) \subseteq DOMAIN workflows
    BY DEF StartedBy
  <1>2. OfRequest(q)
    BY DEF AInv
  <1>3. ASSUME q.op = "cancel" PROVE Cancels(q)'
    BY <1>2, <1>3 DEF OfRequest, Cancels, Same, GraphsKeep, Done, CancelsWhatItFound
  <1>4. ASSUME q.op = "firmware" PROVE Updates(q)'
    <2>1. \A n \in Node : Given(q, n)' = Given(q, n) /\ Left(q, n)' = Left(q, n)
      BY <1>1 DEF Given, Left, Same, GraphsKeep
    <2>2. UpToTheTargets(q)'
      BY <1>2, <1>4, <2>1 DEF OfRequest, Updates, UpToTheTargets, Same
    <2> QED BY <1>2, <1>4, <2>2 DEF OfRequest, Updates, Same, NothingRuns, Untold
  <1>5. ASSUME q.op \notin {"cancel", "firmware", "createTag"} PROVE StartsOnce(q)'
    BY <1>1, <1>2, <1>5 DEF OfRequest, StartsOnce, Same, GraphsKeep, Done, NamesItsGraph,
       NothingRuns, Untold
  <1>6. ASSUME q.op = "createTag" PROVE StoresATag(q)'
    BY <1>1, <1>2, <1>6 DEF OfRequest, StoresATag, Same, GraphsKeep, TellsOfItsTag, Untold
  <1> QED BY <1>3, <1>4, <1>5, <1>6 DEF OfRequest

\* A graph that is cancelled remains so, with the answer of the request that did it.
LEMMA CancelledRemain ==
    ASSUME AInv, GraphsKeep,
           \A q \in Request : q.op = "cancel" /\ Done(q) => Same(q),
           \A i \in DOMAIN workflows' : workflows'[i].status = "cancelled" =>
               i \in DOMAIN workflows /\ workflows[i].status = "cancelled"
    PROVE  OnlyByItsNode'
  BY DEF AInv, OnlyByItsNode, GraphsKeep, Same, Done

-----------------------------------------------------------------------------
(* The steps of a request                                                  *)

\* It is enough to look at the request itself, unless the step cancels a graph.
LEMMA OneRequest ==
    ASSUME AInv, Types', GraphsKeep, NEW r \in Request, StartedNone \/ StartedOne(r),
           \A q \in Request \ {r} : Same(q), OfRequest(r)', OnlyByItsNode'
    PROVE  AInv'
  <1>1. ASSUME NEW q \in Request \ {r} PROVE OfRequest(q)'
    BY <1>1, Bystander DEF StartedNone, StartedOne
  <1> QED BY <1>1 DEF AInv

Answered(r, status) ==
    /\ step' = [step EXCEPT ![r] = "done"]
    /\ answer' = [answer EXCEPT ![r].status = status]
    /\ UNCHANGED <<workflows, todo>>

Readied(r, next) ==
    /\ step' = [step EXCEPT ![r] = next]
    /\ todo' = todo \/ todo' = [todo EXCEPT ![r] = {<<t, "look">> : t \in DOMAIN r.targets}]
    /\ UNCHANGED <<workflows, answer>>

\* The steps before the first call to the engine: the request goes on, or ends with an
\* answer that names no graph.
LEMMA BeforeTheCall ==
    ASSUME AInv, NEW r \in Request, step[r] \in {"new", "ready"},
           r.op = "firmware" => step[r] = "new",
           NEW next \in {"ready", "found", "tagged"}, r.op = "cancel" => next = "ready",
           NEW status \in {"error", "stored"},
           Readied(r, next) \/ Answered(r, status)
    PROVE  AInv'
  <1> USE RequestAssumption
  <1>1. GraphsKeep /\ StartedNone
    BY Unmoved DEF AInv, Types, Readied, Answered
  <1>2. {<<t, "look">> : t \in DOMAIN r.targets} \in SUBSET (Nat \X {"look", "call"})
    <2>1. DOMAIN r.targets \subseteq Nat
      OBVIOUS
    <2> QED BY <2>1
  <1>3. Types'
    <2>1. todo' \in [Request -> SUBSET (Nat \X {"look", "call"})]
      <3> DEFINE looks == {<<t, "look">> : t \in DOMAIN r.targets}
                 S == SUBSET (Nat \X {"look", "call"})
      <3>1. todo \in [Request -> S] /\ looks \in S /\ (todo' = todo \/ todo' = [todo EXCEPT ![r] = looks])
        BY <1>2 DEF AInv, Types, Readied, Answered
      <3> HIDE DEF looks, S
      <3>2. todo' \in [Request -> S]
        BY <3>1
      <3> QED BY <3>2 DEF S
    <2>2. /\ workflows' \in Seq(Graph)
          /\ step' \in [Request -> {"unsent", "new", "ready", "found", "tagged", "done"}]
      BY DEF AInv, Types, Readied, Answered
    <2>3. answer' \in [Request -> Answers]
      <3>1. answer \in [Request -> Answers] /\ answer[r] \in Answers
        BY DEF AInv, Types
      <3>2. [answer[r] EXCEPT !.status = status] \in Answers
        BY <3>1 DEF Answers
      <3>3. answer' = answer \/ answer' = [answer EXCEPT ![r] = [answer[r] EXCEPT !.status = status]]
        BY DEF Readied, Answered
      <3> QED BY <3>1, <3>2, <3>3
    <2> QED BY <2>1, <2>2, <2>3 DEF Types
  <1>4. \A q \in Request \ {r} : Same(q)
    BY DEF AInv, Types, Same, Readied, Answered
  <1>5. OnlyByItsNode'
    <2>1. ~Done(r)
      BY DEF Done
    <2> QED BY <1>1, <1>4, <2>1, CancelledRemain DEF Readied, Answered
  <1>6. /\ OfRequest(r) /\ StartedBy(r)' = StartedBy(r)
        /\ step[r] \notin {"found", "done"} /\ answer'[r].lost = answer[r].lost
        /\ answer'[r].task = answer[r].task
        /\ \/ step'[r] = next /\ answer'[r] = answer[r]
           \/ step'[r] = "done" /\ answer'[r].status = status
    BY <1>1 DEF AInv, Types, Answers, StartedNone, Readied, Answered
  <1>7. ASSUME r.op = "cancel" PROVE Cancels(r)'
    BY <1>6, <1>7 DEF OfRequest, Cancels, Done, CancelsWhatItFound
  <1>8. ASSUME r.op \notin {"cancel", "firmware", "createTag"} PROVE StartsOnce(r)'
    BY <1>6, <1>8 DEF OfRequest, StartsOnce, Done, NamesItsGraph, NothingRuns, Untold
  <1>10. ASSUME r.op = "createTag" PROVE StoresATag(r)'
    BY <1>6, <1>10 DEF OfRequest, StoresATag, TellsOfItsTag, Untold
  <1>9. ASSUME r.op = "firmware" PROVE Updates(r)'
    <2>1. Untold(r)
      BY <1>6, <1>9 DEF OfRequest, Updates
    <2>2. Untold(r)' \/ (StartedBy(r)' = {} /\ step'[r] = "done" /\ answer'[r].status = status /\ ~answer'[r].lost)
      BY <1>6, <2>1 DEF Untold
    <2>3. \A n \in Node : Given(r, n)' = {} /\ Left(r, n)' \subseteq Wanted(r, n)
      BY <1>6, <2>1 DEF Given, Left, Untold
    <2>4. \A n \in Node : IsFiniteSet(Wanted(r, n))
      <3>1. IsFiniteSet(DOMAIN r.targets)
        BY FS_Interval
      <3> QED BY <3>1, FS_Subset DEF Wanted
    <2>5. ASSUME NEW n \in Node
          PROVE  Cardinality(Given(r, n)') + Cardinality(Left(r, n)') <= Cardinality(Wanted(r, n))
      BY <2>3, <2>4, FS_Subset, FS_CardinalityType, FS_EmptySet
    <2>6. \A t \in DOMAIN r.targets : ~(<<t, "look">> \in todo'[r] /\ <<t, "call">> \in todo'[r])
      <3>1. todo'[r] = todo[r] \/ todo'[r] = {<<t, "look">> : t \in DOMAIN r.targets}
        BY DEF AInv, Types, Readied, Answered
      <3>2. \A t \in DOMAIN r.targets : ~(<<t, "look">> \in todo[r] /\ <<t, "call">> \in todo[r])
        BY <1>6, <1>9 DEF OfRequest, Updates, UpToTheTargets
      <3>3. \A t : <<t, "call">> \notin {<<u, "look">> : u \in DOMAIN r.targets}
        OBVIOUS
      <3> QED BY <3>1, <3>2, <3>3
    <2> QED BY <2>2, <2>5, <2>6, <1>6 DEF Updates, UpToTheTargets, NothingRuns, Untold, Wanted
  <1> QED BY <1>1, <1>3, <1>4, <1>5, <1>7, <1>8, <1>9, <1>10, OneRequest DEF OfRequest

\* How a call that starts a graph may end.
LEMMA HowItStarts ==
    ASSUME NEW r, NEW n, NEW end \in createAndRunGraph(r, n)
    PROVE  \/ end.after = workflows /\ end.reply = Failed /\ end.lost = FALSE
           \/ /\ end.after = Append(workflows, [by |-> r, node |-> n, status |-> "active"])
              /\ \/ end.reply = Len(workflows) + 1 /\ end.lost = FALSE
                 \/ end.reply = Failed /\ end.lost = TRUE
  BY DEF createAndRunGraph, runRpc

LEMMA OwnerType == ASSUME NEW r \in Request PROVE Owner(r) \in Node \cup {NoNode}
  BY RequestAssumption DEF Owner

LEMMA LaunchKeeps ==
    ASSUME AInv, NEW r \in Request, Launch(r)
    PROVE  AInv'
  <1> DEFINE Status(end) == IF end.reply = Failed THEN "error"
                            ELSE IF r.op = "createTag" THEN "none" ELSE "accepted"
             Step(end) == IF r.op = "createTag" /\ end.reply # Failed THEN "tagged" ELSE "done"
  <1>1. PICK end \in createAndRunGraph(r, Owner(r)) :
            /\ workflows' = end.after
            /\ answer' = [answer EXCEPT ![r] =
                   [status |-> Status(end), task |-> end.reply, lost |-> end.lost]]
            /\ step' = [step EXCEPT ![r] = Step(end)]
    BY DEF Launch
  <1>2. /\ r.op \notin {"cancel", "firmware"} /\ ~Done(r) /\ todo' = todo
        /\ step[r] = IF r.op = "createTag" THEN "found" ELSE "ready"
    BY DEF Launch, Done
  <1>3. workflows \in Seq(Graph) /\ Len(workflows) + 1 \in Nat \ {0}
    BY DEF AInv, Types
  <1>4. Untold(r)
    BY <1>2 DEF AInv, OfRequest, StartsOnce, StoresATag
  <1>5. answer'[r].task = end.reply /\ answer'[r].lost = end.lost
        /\ answer'[r].status = Status(end) /\ step'[r] = Step(end)
    BY <1>1 DEF AInv, Types
  <1>6. end.reply \in Nat /\ end.lost \in BOOLEAN
    <2>1. \/ end.reply = 0 /\ end.lost \in BOOLEAN
          \/ end.reply = Len(workflows) + 1 /\ end.lost \in BOOLEAN
      BY <1>1, HowItStarts DEF Failed
    <2> QED BY <1>3, <2>1
  <1>7. Types' /\ \A q \in Request \ {r} : Same(q)
    <2>1. \A q \in Request \ {r} : Same(q)
      BY <1>1, <1>2 DEF AInv, Types, Same
    <2>2. step' \in [Request -> {"unsent", "new", "ready", "found", "tagged", "done"}]
      BY <1>1 DEF AInv, Types
    <2>3. answer' \in [Request -> Answers]
      <3> DEFINE a == [status |-> Status(end), task |-> end.reply, lost |-> end.lost]
      <3>1. a \in Answers
        BY <1>6 DEF Answers
      <3>2. answer' = [answer EXCEPT ![r] = a]
        BY <1>1
      <3> HIDE DEF a
      <3> QED BY <3>1, <3>2 DEF AInv, Types
    <2>4. workflows' \in Seq(Graph)
      BY <1>1, <1>3, HowItStarts, OwnerType, Appended DEF GraphsKeep
    <2> QED BY <1>2, <2>1, <2>2, <2>3, <2>4 DEF AInv, Types
  <1>8. CASE end.after = workflows /\ end.reply = Failed /\ end.lost = FALSE
    <2>1. GraphsKeep /\ StartedNone
      BY <1>1, <1>3, <1>8, Unmoved
    <2>2. /\ StartedBy(r)' = {} /\ step'[r] = "done"
          /\ answer'[r].status = "error" /\ answer'[r].task = Failed /\ ~answer'[r].lost
      BY <1>4, <1>5, <1>8, <2>1 DEF StartedNone, Untold
    <2>3. StartsOnce(r)' /\ StoresATag(r)'
      BY <2>2 DEF StartsOnce, StoresATag, TellsOfItsTag, Done, NamesItsGraph, NothingRuns
    <2>4. OnlyByItsNode'
      BY <1>1, <1>2, <1>7, <1>8, <2>1, CancelledRemain
    <2> QED BY <1>2, <1>7, <2>1, <2>3, <2>4, OneRequest DEF OfRequest
  <1>9. CASE /\ end.after = Append(workflows, [by |-> r, node |-> Owner(r), status |-> "active"])
             /\ \/ end.reply = Len(workflows) + 1 /\ end.lost = FALSE
                \/ end.reply = Failed /\ end.lost = TRUE
    <2>1. /\ GraphsKeep /\ StartedOne(r)
          /\ workflows'[Len(workflows) + 1] = [by |-> r, node |-> Owner(r), status |-> "active"]
          /\ DOMAIN workflows' = DOMAIN workflows \cup {Len(workflows) + 1}
          /\ \A i \in DOMAIN workflows : workflows'[i] = workflows[i]
      BY <1>1, <1>3, <1>9, Appended, OwnerType
    <2>2. StartedBy(r)' = {Len(workflows) + 1}
      BY <1>4, <2>1 DEF StartedOne, Untold
    <2>3. ASSUME r.op # "createTag" PROVE StartsOnce(r)'
      BY <1>3, <1>5, <1>9, <2>1, <2>2, <2>3 DEF StartsOnce, Done, NamesItsGraph, NothingRuns, Failed
    <2>4. ASSUME r.op = "createTag" PROVE StoresATag(r)'
      <3>1. Owner(r) = NoNode
        BY <2>4 DEF Owner
      <3>2. \/ step'[r] = "tagged" /\ answer'[r].status = "none" /\ ~answer'[r].lost
               /\ answer'[r].task = Len(workflows) + 1
            \/ step'[r] = "done" /\ answer'[r].status = "error" /\ answer'[r].lost
        BY <1>3, <1>5, <1>9, <2>4 DEF Failed
      <3> QED BY <1>3, <2>1, <2>2, <3>1, <3>2 DEF StoresATag, TellsOfItsTag, Failed
    <2>5. OnlyByItsNode'
      BY <1>2, <1>7, <2>1, CancelledRemain
    <2> QED BY <1>2, <1>7, <2>1, <2>3, <2>4, <2>5, OneRequest DEF OfRequest
  <1> QED BY <1>8, <1>9, HowItStarts

\* The graph has been started, or there was no node: the tag is the answer, or an error.
LEMMA GetTagKeeps ==
    ASSUME AInv, NEW r \in Request, GetTag(r)
    PROVE  AInv'
  <1>1. /\ r.op = "createTag" /\ step[r] = "tagged"
        /\ UNCHANGED <<workflows, todo>>
    BY DEF GetTag, gvars
  <1>2. PICK status \in {"stored", "error"} :
            /\ step' = [step EXCEPT ![r] = "done"]
            /\ answer' = [answer EXCEPT ![r] = [answer[r] EXCEPT !.status = status]]
    BY DEF GetTag, Answer
  <1>3. answer \in [Request -> Answers] /\ answer[r] \in Answers
    BY DEF AInv, Types
  <1>4. [answer[r] EXCEPT !.status = status] \in Answers
    BY <1>3 DEF Answers
  <1>5. /\ step'[r] = "done" /\ answer'[r].status = status
        /\ answer'[r].task = answer[r].task /\ answer'[r].lost = answer[r].lost
    BY <1>2, <1>3 DEF AInv, Types, Answers
  <1>6. GraphsKeep /\ StartedNone
    BY <1>1, Unmoved DEF AInv, Types
  <1>7. Types'
    BY <1>1, <1>2, <1>3, <1>4 DEF AInv, Types
  <1>8. \A q \in Request \ {r} : Same(q)
    BY <1>1, <1>2 DEF AInv, Types, Same
  <1>9. OnlyByItsNode'
    BY <1>1, <1>6, <1>8, CancelledRemain
  <1>10. StoresATag(r)'
    BY <1>1, <1>5, <1>6 DEF AInv, OfRequest, StoresATag, TellsOfItsTag, StartedNone
  <1> QED BY <1>1, <1>6, <1>7, <1>8, <1>9, <1>10, OneRequest DEF OfRequest

-----------------------------------------------------------------------------
(* The targets of a firmware update                                        *)

LEMMA Counted ==
    ASSUME Types, NEW r \in Request, NEW n \in Node
    PROVE  /\ IsFiniteSet(Given(r, n)) /\ IsFiniteSet(Left(r, n)) /\ IsFiniteSet(Wanted(r, n))
           /\ Cardinality(Given(r, n)) \in Nat /\ Cardinality(Left(r, n)) \in Nat
           /\ Cardinality(Wanted(r, n)) \in Nat
  <1>1. IsFiniteSet(DOMAIN r.targets)
    <2>1. DOMAIN r.targets = 1 .. Len(r.targets) /\ Len(r.targets) \in Nat
      BY RequestAssumption
    <2> DEFINE k == Len(r.targets)
    <2>2. k \in Int /\ 1 \in Int
      BY <2>1
    <2> HIDE DEF k
    <2>3. IsFiniteSet(1 .. k)
      BY <2>2, FS_Interval
    <2> QED BY <2>1, <2>3 DEF k
  <1>2. IsFiniteSet(DOMAIN workflows)
    <2>1. DOMAIN workflows = 1 .. Len(workflows) /\ Len(workflows) \in Nat
      BY DEF Types
    <2>2. IsFiniteSet(1 .. Len(workflows))
      BY <2>1, FS_Interval
    <2> QED BY <2>1, <2>2
  <1>3. /\ Wanted(r, n) \subseteq DOMAIN r.targets /\ Left(r, n) \subseteq DOMAIN r.targets
        /\ Given(r, n) \subseteq DOMAIN workflows
    BY DEF Wanted, Left, Given, StartedBy
  <1> QED BY <1>1, <1>2, <1>3, FS_Subset, FS_CardinalityType

LEMMA LookTargetKeeps ==
    ASSUME AInv, NEW r \in Request, NEW t \in DOMAIN r.targets, LookTarget(r, t)
    PROVE  AInv'
  <1>1. /\ r.op = "firmware" /\ step[r] = "ready" /\ <<t, "look">> \in todo[r]
        /\ UNCHANGED <<workflows, step, answer>>
    BY DEF LookTarget, gvars
  <1>2. t \in Nat
    BY RequestAssumption
  <1>3. PICK rest \in {{}, {<<t, "call">>}} :
            todo' = [todo EXCEPT ![r] = (@ \ {<<t, "look">>}) \cup rest]
    <2> DEFINE more == IF r.targets[t] \in nodes THEN {<<t, "call">>} ELSE {}
    <2>1. todo' = [todo EXCEPT ![r] = (@ \ {<<t, "look">>}) \cup more]
      BY DEF LookTarget
    <2>2. more \in {{}, {<<t, "call">>}}
      OBVIOUS
    <2> QED BY <2>1, <2>2
  <1>4. todo'[r] = (todo[r] \ {<<t, "look">>}) \cup rest
    BY <1>3 DEF AInv, Types
  <1>5. Types'
    <2> DEFINE S == SUBSET (Nat \X {"look", "call"})
    <2>1. todo \in [Request -> S]
      BY DEF AInv, Types
    <2>2. (todo[r] \ {<<t, "look">>}) \cup rest \in S
      BY <1>2, <2>1
    <2> DEFINE w == (todo[r] \ {<<t, "look">>}) \cup rest
    <2>3. todo' = [todo EXCEPT ![r] = w]
      BY <1>3
    <2>4. todo' \in [Request -> S]
      <3>1. w \in S
        BY <2>2
      <3> HIDE DEF S, w
      <3> QED BY <2>1, <2>3, <3>1
    <2> QED BY <1>1, <2>4 DEF AInv, Types
  <1>6. \A q \in Request \ {r} : Same(q)
    BY <1>1, <1>3 DEF AInv, Types, Same
  <1>7. GraphsKeep /\ StartedNone
    BY <1>1, Unmoved DEF AInv, Types
  <1>8. Updates(r)
    BY <1>1 DEF AInv, OfRequest
  <1>9. \A u \in DOMAIN r.targets : ~(<<u, "look">> \in todo'[r] /\ <<u, "call">> \in todo'[r])
    BY <1>4, <1>8 DEF Updates, UpToTheTargets
  <1>10. ASSUME NEW n \in Node
         PROVE  (Cardinality(Given(r, n)) + Cardinality(Left(r, n)) <= Cardinality(Wanted(r, n)))'
    <2>1. Given(r, n)' = Given(r, n) /\ Wanted(r, n)' = Wanted(r, n)
      BY <1>1 DEF Given, StartedBy, Wanted
    <2>2. Left(r, n)' \subseteq Left(r, n)
      BY <1>1, <1>4 DEF Left, Wanted
    <2>3. Cardinality(Left(r, n)') <= Cardinality(Left(r, n)) /\ Cardinality(Left(r, n)') \in Nat
      BY <2>2, Counted, FS_Subset, FS_CardinalityType DEF AInv
    <2>4. Cardinality(Given(r, n)) + Cardinality(Left(r, n)) <= Cardinality(Wanted(r, n))
      BY <1>8 DEF Updates, UpToTheTargets
    <2> QED BY <2>1, <2>3, <2>4, Counted DEF AInv
  <1>11. Updates(r)'
    BY <1>1, <1>7, <1>8, <1>9, <1>10 DEF Updates, UpToTheTargets, StartedNone, NothingRuns, Untold
  <1>12. OnlyByItsNode'
    BY <1>1, <1>6, <1>7, CancelledRemain
  <1> QED BY <1>1, <1>5, <1>6, <1>7, <1>11, <1>12, OneRequest DEF OfRequest

LEMMA UpdateTargetKeeps ==
    ASSUME AInv, NEW r \in Request, NEW t \in DOMAIN r.targets, UpdateTarget(r, t)
    PROVE  AInv'
  <1> DEFINE n0 == r.targets[t]
             a == answer[r]
  <1>1. /\ r.op = "firmware" /\ step[r] = "ready" /\ <<t, "call">> \in todo[r]
        /\ step' = step /\ todo' = [todo EXCEPT ![r] = @ \ {<<t, "call">>}]
    BY DEF UpdateTarget
  <1>2. PICK end \in createAndRunGraph(r, n0) :
            /\ workflows' = end.after
            /\ answer' = [answer EXCEPT ![r] = Collected(@, end)]
    BY DEF UpdateTarget
  <1>3. n0 \in Node /\ t \in Nat
    BY RequestAssumption
  <1>4. workflows \in Seq(Graph) /\ Len(workflows) + 1 \in Nat \ {0} /\ a \in Answers
    BY DEF AInv, Types
  <1>5. todo'[r] = todo[r] \ {<<t, "call">>}
    BY <1>1 DEF AInv, Types
  <1>6. /\ end.lost \in BOOLEAN
        /\ \/ workflows' = workflows /\ end.reply = 0 /\ end.lost = FALSE
           \/ /\ workflows' = Append(workflows, [by |-> r, node |-> n0, status |-> "active"])
              /\ \/ end.reply = Len(workflows) + 1 /\ end.lost = FALSE
                 \/ end.reply = 0 /\ end.lost = TRUE
    BY <1>2, HowItStarts DEF Failed
  <1>7. a.status \in {"none", "accepted"} /\ a.lost \in BOOLEAN /\ a.task \in Nat
    BY <1>1, <1>4 DEF AInv, OfRequest, Updates, Answers
  <1>8. /\ answer'[r] \in Answers
        /\ answer' = [answer EXCEPT ![r] = answer'[r]]
        /\ IF end.reply # 0 /\ a.status = "none"
           THEN answer'[r].status = "accepted" /\ answer'[r].task = end.reply /\ answer'[r].lost = a.lost
           ELSE /\ answer'[r].status = a.status /\ answer'[r].task = a.task
                /\ answer'[r].lost = (a.lost \/ end.lost)
    <2> DEFINE b == Collected(a, end)
    <2>1. end.reply \in Nat
      BY <1>4, <1>6
    <2>2. /\ b \in Answers
          /\ IF end.reply # 0 /\ a.status = "none"
             THEN b.status = "accepted" /\ b.task = end.reply /\ b.lost = a.lost
             ELSE b.status = a.status /\ b.task = a.task /\ b.lost = (a.lost \/ end.lost)
      BY <1>4, <1>6, <1>7, <2>1 DEF Answers, Collected, Failed
    <2>3. answer' = [answer EXCEPT ![r] = b]
      BY <1>2
    <2>4. answer'[r] = b
      <3> HIDE DEF b
      <3> QED BY <2>3 DEF AInv, Types
    <2> HIDE DEF b
    <2> QED BY <2>2, <2>3, <2>4
  <1>9. \A q \in Request \ {r} : Same(q)
    BY <1>1, <1>8 DEF AInv, Types, Same
  <1>10. \/ GraphsKeep /\ StartedNone /\ workflows' = workflows
         \/ /\ GraphsKeep /\ StartedOne(r)
            /\ workflows'[Len(workflows) + 1] = [by |-> r, node |-> n0, status |-> "active"]
            /\ DOMAIN workflows' = DOMAIN workflows \cup {Len(workflows) + 1}
            /\ Len(workflows) + 1 \notin DOMAIN workflows
            /\ \A i \in DOMAIN workflows : workflows'[i] = workflows[i]
    BY <1>3, <1>4, <1>6, Appended, Unmoved
  <1>11. Types'
    <2>1. workflows' \in Seq(Graph)
      BY <1>10 DEF GraphsKeep
    <2>2. answer' \in [Request -> Answers]
      BY <1>8 DEF AInv, Types
    <2>3. todo' \in [Request -> SUBSET (Nat \X {"look", "call"})]
      <3> DEFINE S == SUBSET (Nat \X {"look", "call"})
                 w == todo[r] \ {<<t, "call">>}
      <3>1. todo \in [Request -> S] /\ w \in S /\ todo' = [todo EXCEPT ![r] = w]
        BY <1>1 DEF AInv, Types
      <3> HIDE DEF S, w
      <3>2. todo' \in [Request -> S]
        BY <3>1
      <3> QED BY <3>2 DEF S
    <2> QED BY <1>1, <2>1, <2>2, <2>3 DEF AInv, Types
  <1>12. Updates(r)
    BY <1>1 DEF AInv, OfRequest
  <1>13. OnlyByItsNode'
    BY <1>1, <1>9, <1>10, CancelledRemain
  <1>14. \A u \in DOMAIN r.targets : ~(<<u, "look">> \in todo'[r] /\ <<u, "call">> \in todo'[r])
    BY <1>5, <1>12 DEF Updates, UpToTheTargets
  <1>15. ASSUME NEW n \in Node
         PROVE  (Cardinality(Given(r, n)) + Cardinality(Left(r, n)) <= Cardinality(Wanted(r, n)))'
    <2>1. Cardinality(Given(r, n)) + Cardinality(Left(r, n)) <= Cardinality(Wanted(r, n))
      BY <1>12 DEF Updates, UpToTheTargets
    <2>2. Given(r, n)' = Given(r, n) \/ (n = n0 /\ Given(r, n)' = Given(r, n) \cup {Len(workflows) + 1})
      BY <1>10 DEF Given, StartedNone, StartedOne, StartedBy
    <2>3. Left(r, n)' = IF n = n0 THEN Left(r, n) \ {t} ELSE Left(r, n)
      BY <1>1, <1>5, <1>12 DEF Left, Wanted, Updates, UpToTheTargets
    <2>4. n = n0 => t \in Left(r, n)
      BY <1>1 DEF Left, Wanted
    <2>5. /\ IsFiniteSet(Given(r, n)) /\ IsFiniteSet(Left(r, n))
          /\ Cardinality(Given(r, n)) \in Nat /\ Cardinality(Left(r, n)) \in Nat
          /\ Cardinality(Wanted(r, n)) \in Nat
      BY Counted DEF AInv
    <2>6. Wanted(r, n)' = Wanted(r, n)
      BY DEF Wanted
    <2>7. Cardinality(Left(r, n)') = IF n = n0 THEN Cardinality(Left(r, n)) - 1 ELSE Cardinality(Left(r, n))
      BY <2>3, <2>4, <2>5, FS_RemoveElement
    <2>8. Cardinality(Given(r, n) \cup {Len(workflows) + 1}) \in
              {Cardinality(Given(r, n)), Cardinality(Given(r, n)) + 1}
      BY <2>5, FS_AddElement
    <2>9. Cardinality(Given(r, n)') = Cardinality(Given(r, n))
          \/ (n = n0 /\ Cardinality(Given(r, n)') = Cardinality(Given(r, n)) + 1)
      BY <2>2, <2>8
    <2> QED BY <2>1, <2>5, <2>6, <2>7, <2>9
  <1>16. UpToTheTargets(r)'
    BY <1>14, <1>15 DEF UpToTheTargets
  <1>17. Updates(r)'
    BY <1>1, <1>4, <1>6, <1>7, <1>8, <1>10, <1>12, <1>16
       DEF Updates, StartedNone, StartedOne, NothingRuns, Untold
  <1> QED BY <1>1, <1>9, <1>10, <1>11, <1>13, <1>17, OneRequest DEF OfRequest

LEMMA FinishUpdateKeeps ==
    ASSUME AInv, NEW r \in Request, FinishUpdate(r)
    PROVE  AInv'
  <1> DEFINE said == IF answer[r].status = "accepted" THEN "accepted" ELSE "error"
  <1>1. /\ r.op = "firmware" /\ step[r] = "ready"
        /\ step' = [step EXCEPT ![r] = "done"]
        /\ answer' = [answer EXCEPT ![r].status = said]
        /\ UNCHANGED <<workflows, todo>>
    BY DEF FinishUpdate, Answer, gvars
  <1>2. GraphsKeep /\ StartedNone
    BY <1>1, Unmoved DEF AInv, Types
  <1>3. /\ step'[r] = "done" /\ answer[r] \in Answers
        /\ answer'[r] = [answer[r] EXCEPT !.status = said]
    BY <1>1 DEF AInv, Types
  <1>4. /\ answer'[r] \in Answers /\ answer'[r].status = said
        /\ answer'[r].task = answer[r].task /\ answer'[r].lost = answer[r].lost
    BY <1>3 DEF Answers
  <1>5. Types'
    <2>1. step' \in [Request -> {"unsent", "new", "ready", "found", "tagged", "done"}]
      BY <1>1 DEF AInv, Types
    <2>2. answer' \in [Request -> Answers]
      BY <1>1, <1>3, <1>4 DEF AInv, Types
    <2> QED BY <1>1, <2>1, <2>2 DEF AInv, Types
  <1>6. \A q \in Request \ {r} : Same(q)
    BY <1>1 DEF AInv, Types, Same
  <1>7. OnlyByItsNode'
    BY <1>1, <1>2, <1>6, CancelledRemain
  <1>8. Updates(r)
    BY <1>1 DEF AInv, OfRequest
  <1>9. UpToTheTargets(r)'
    BY <1>1, <1>8 DEF Updates, UpToTheTargets, Given, StartedBy, Left, Wanted
  <1>10. Updates(r)'
    BY <1>1, <1>2, <1>3, <1>4, <1>8, <1>9 DEF Updates, StartedNone, NothingRuns
  <1> QED BY <1>1, <1>2, <1>5, <1>6, <1>7, <1>10, OneRequest DEF OfRequest

-----------------------------------------------------------------------------
(* The cancellation                                                        *)

\* The graph it finds is one of the node's.
LEMMA FindActiveKeeps ==
    ASSUME AInv, NEW r \in Request, FindActive(r)
    PROVE  AInv'
  <1>1. r.op = "cancel" /\ step[r] = "ready" /\ UNCHANGED <<workflows, todo>>
    BY DEF FindActive, gvars
  <1>2. PICK i \in findActiveGraphForTarget(r.node) :
            IF i = Failed THEN Answer(r, "error")
            ELSE /\ step' = [step EXCEPT ![r] = "found"]
                 /\ answer' = [answer EXCEPT ![r].task = i]
    BY DEF FindActive
  <1>3. CASE i = Failed
    <2>1. Answered(r, "error")
      BY <1>1, <1>2, <1>3 DEF Answer, Answered
    <2> QED BY <1>1, <2>1, BeforeTheCall
  <1>4. CASE i # Failed
    <2>1. i \in DOMAIN workflows /\ workflows[i].node = r.node /\ i \in Nat
      BY <1>2, <1>4 DEF findActiveGraphForTarget, Active, AInv, Types
    <2>2. /\ answer' = [answer EXCEPT ![r].task = i]
          /\ step' = [step EXCEPT ![r] = "found"]
      BY <1>2, <1>4
    <2>3. /\ step'[r] = "found" /\ answer[r] \in Answers
          /\ answer'[r] = [answer[r] EXCEPT !.task = i]
      BY <2>2 DEF AInv, Types
    <2>4. /\ answer'[r] \in Answers /\ answer'[r].status = answer[r].status
          /\ answer'[r].task = i
      BY <2>1, <2>3 DEF Answers
    <2>5. Types'
      <3>1. step' \in [Request -> {"unsent", "new", "ready", "found", "tagged", "done"}]
        BY <2>2 DEF AInv, Types
      <3>2. answer' \in [Request -> Answers]
        BY <2>2, <2>3, <2>4 DEF AInv, Types
      <3> QED BY <1>1, <3>1, <3>2 DEF AInv, Types
    <2>6. \A q \in Request \ {r} : Same(q)
      BY <2>2, <1>1 DEF AInv, Types, Same
    <2>7. GraphsKeep /\ StartedNone
      BY <1>1, Unmoved DEF AInv, Types
    <2>8. OnlyByItsNode'
      <3>1. ~Done(r)
        BY <1>1 DEF Done
      <3> QED BY <1>1, <2>6, <2>7, <3>1, CancelledRemain
    <2>9. Cancels(r)'
      BY <1>1, <2>1, <2>3, <2>4, <2>7 DEF AInv, OfRequest, Cancels, StartedNone, Done,
         CancelsWhatItFound
    <2> QED BY <1>1, <2>5, <2>6, <2>7, <2>8, <2>9, OneRequest DEF OfRequest
  <1> QED BY <1>3, <1>4

LEMMA HowItCancels ==
    ASSUME NEW i, NEW end \in cancelTaskGraph(i)
    PROVE  /\ end.lost \in BOOLEAN
           /\ \/ end.after = workflows /\ end.reply = Failed
              \/ i \in Active /\ end.after = [workflows EXCEPT ![i].status = "cancelled"]
  <1>1. CASE i \in Active
    <2> DEFINE after == [workflows EXCEPT ![i].status = "cancelled"]
    <2>1. end \in runRpc(after, i)
      BY <1>1 DEF cancelTaskGraph
    <2>2. /\ end.lost = FALSE \/ end.lost = TRUE
          /\ end.after = after \/ (end.after = workflows /\ end.reply = Failed)
      <3> HIDE DEF after
      <3> QED BY <2>1 DEF runRpc
    <2> QED BY <1>1, <2>2
  <1>2. CASE i \notin Active
    <2>1. end \in runRpc(workflows, Failed)
      BY <1>2 DEF cancelTaskGraph
    <2>2. end.after = workflows /\ end.reply = Failed /\ (end.lost = FALSE \/ end.lost = TRUE)
      BY <2>1 DEF runRpc
    <2> QED BY <2>2
  <1> QED BY <1>1, <1>2

LEMMA CancelKeeps ==
    ASSUME AInv, NEW r \in Request, delActiveWorkflowById(r)
    PROVE  AInv'
  <1> DEFINE i == answer[r].task
  <1>1. /\ r.op = "cancel" /\ step[r] = "found"
        /\ step' = [step EXCEPT ![r] = "done"] /\ todo' = todo
    BY DEF delActiveWorkflowById
  <1>2. PICK end \in cancelTaskGraph(i) :
            /\ workflows' = end.after
            /\ answer' = [answer EXCEPT ![r].status = IF end.reply = Failed THEN "error" ELSE "accepted",
                                       ![r].lost = end.lost]
    BY DEF delActiveWorkflowById
  <1>3. /\ end.lost \in BOOLEAN
        /\ \/ workflows' = workflows /\ end.reply = Failed
           \/ i \in Active /\ workflows' = [workflows EXCEPT ![i].status = "cancelled"]
    BY <1>2, HowItCancels
  <1>4. /\ Cancels(r) /\ i \in DOMAIN workflows /\ workflows[i].node = r.node
        /\ answer[r] \in Answers
    BY <1>1 DEF AInv, OfRequest, Cancels, Types
  <1>5. /\ step'[r] = "done" /\ answer'[r] \in Answers /\ answer'[r].task = i
        /\ answer'[r].status = (IF end.reply = Failed THEN "error" ELSE "accepted")
        /\ answer' = [answer EXCEPT ![r] = answer'[r]]
    <2> DEFINE said == IF end.reply = Failed THEN "error" ELSE "accepted"
    <2>1. answer'[r] = [answer[r] EXCEPT !.status = said, !.lost = end.lost]
          /\ answer' = [answer EXCEPT ![r] = answer'[r]]
      BY <1>2 DEF AInv, Types
    <2>2. said \in {"error", "accepted"}
      OBVIOUS
    <2> HIDE DEF said
    <2>3. answer'[r] \in Answers /\ answer'[r].task = i /\ answer'[r].status = said
      BY <1>3, <1>4, <2>1, <2>2 DEF Answers
    <2>4. step'[r] = "done"
      BY <1>1 DEF AInv, Types
    <2> QED BY <2>1, <2>3, <2>4 DEF said
  <1>6. Types /\ step' \in [Request -> {"unsent", "new", "ready", "found", "tagged", "done"}]
        /\ answer' \in [Request -> Answers]
    BY <1>1, <1>5 DEF AInv, Types
  <1>7. \A q \in Request \ {r} : Same(q)
    BY <1>1, <1>5 DEF AInv, Types, Same
  <1>8. CASE workflows' = workflows /\ end.reply = Failed
    <2>1. GraphsKeep /\ StartedNone
      BY <1>6, <1>8, Unmoved DEF Types
    <2>2. Types'
      BY <1>1, <1>6, <1>8 DEF Types
    <2>3. OnlyByItsNode'
      BY <1>1, <1>7, <1>8, <2>1, CancelledRemain DEF Done
    <2>4. Cancels(r)'
      BY <1>4, <1>5, <1>8, <2>1 DEF Cancels, StartedNone, Done, CancelsWhatItFound
    <2> QED BY <1>1, <1>7, <2>1, <2>2, <2>3, <2>4, OneRequest DEF OfRequest
  <1>9. CASE i \in Active /\ workflows' = [workflows EXCEPT ![i].status = "cancelled"]
    <2>1. /\ GraphsKeep /\ StartedNone
          /\ workflows'[i].status = "cancelled" /\ workflows'[i].node = r.node
          /\ \A j \in DOMAIN workflows \ {i} : workflows'[j] = workflows[j]
          /\ DOMAIN workflows' = DOMAIN workflows
      <3>1. workflows \in Seq(Graph)
        BY <1>6 DEF Types
      <3> QED BY <1>4, <1>9, <3>1, Marked DEF GraphsKeep
    <2>2. Types'
      BY <1>1, <1>6, <2>1 DEF Types, GraphsKeep
    <2>3. OnlyByItsNode'
      <3> SUFFICES ASSUME NEW j \in DOMAIN workflows', workflows'[j].status = "cancelled"
                   PROVE  \E q \in Request : /\ q.op = "cancel" /\ step'[q] = "done"
                                              /\ answer'[q].task = j /\ q.node = workflows'[j].node
        BY DEF OnlyByItsNode, Done
      <3>1. CASE j = i
        BY <1>1, <1>5, <2>1, <3>1
      <3>2. CASE j # i
        <4>1. workflows[j].status = "cancelled" /\ workflows'[j] = workflows[j] /\ j \in DOMAIN workflows
          BY <2>1, <3>2
        <4>2. PICK q \in Request : q.op = "cancel" /\ step[q] = "done" /\ answer[q].task = j
                                   /\ q.node = workflows[j].node
          BY <4>1 DEF AInv, OnlyByItsNode, Done
        <4>3. q # r
          BY <1>1, <4>2
        <4> QED BY <1>7, <4>1, <4>2, <4>3 DEF Same
      <3> QED BY <3>1, <3>2
    <2>4. Cancels(r)'
      BY <1>4, <1>5, <2>1 DEF Cancels, StartedNone, Done, CancelsWhatItFound
    <2> QED BY <1>1, <1>7, <2>1, <2>2, <2>3, <2>4, OneRequest DEF OfRequest
  <1> QED BY <1>3, <1>8, <1>9

-----------------------------------------------------------------------------
(* All the steps                                                           *)

LEMMA AInvInit ==
    ASSUME NEW sent \in SUBSET Request, ActionsInit(sent)
    PROVE  AInv
  <1>1. /\ workflows = <<>>
        /\ step \in [Request -> {"new", "unsent"}]
        /\ todo = [r \in Request |-> {}]
        /\ answer = [r \in Request |-> Unanswered]
    BY DEF ActionsInit, TaskgraphInit
  <1>2. /\ Unanswered \in Answers /\ Unanswered.status = "none" /\ Unanswered.lost = FALSE
    BY DEF Unanswered, Answers, Failed
  <1>3. Types
    BY <1>1, <1>2 DEF Types
  <1>4. ASSUME NEW r \in Request PROVE OfRequest(r)
    <2>1. StartedBy(r) = {} /\ step[r] \in {"new", "unsent"} /\ todo[r] = {} /\ answer[r] = Unanswered
      BY <1>1 DEF StartedBy
    <2>2. Untold(r)
      BY <1>2, <2>1 DEF Untold
    <2>3. UpToTheTargets(r)
      <3>1. ASSUME NEW n \in Node
            PROVE  Cardinality(Given(r, n)) + Cardinality(Left(r, n)) <= Cardinality(Wanted(r, n))
        <4>1. Given(r, n) = {} /\ Left(r, n) = {}
          BY <2>1 DEF Given, Left
        <4>2. Cardinality(Wanted(r, n)) \in Nat
          BY <1>3, Counted
        <4> QED BY <4>1, <4>2, FS_EmptySet
      <3> QED BY <2>1, <3>1 DEF UpToTheTargets
    <2>4. Updates(r)
      BY <2>1, <2>2, <2>3 DEF Updates, Untold, NothingRuns
    <2>5. Cancels(r) /\ StartsOnce(r)
      BY <2>1, <2>2 DEF Cancels, StartsOnce, Untold, Done
    <2>6. StoresATag(r)
      BY <2>1, <2>2 DEF StoresATag, TellsOfItsTag, Untold, Unanswered, Failed
    <2> QED BY <2>4, <2>5, <2>6 DEF OfRequest
  <1>5. OnlyByItsNode
    BY <1>1 DEF OnlyByItsNode
  <1> QED BY <1>3, <1>4, <1>5 DEF AInv

\* Steps that are of no request.
LEMMA OthersKeep ==
    ASSUME AInv, GraphsKeep, StartedNone, UNCHANGED <<step, todo, answer>>,
           \A i \in DOMAIN workflows' : workflows'[i].status = "cancelled" =>
               i \in DOMAIN workflows /\ workflows[i].status = "cancelled"
    PROVE  AInv'
  <1>1. \A q \in Request : Same(q)
    BY DEF Same
  <1>2. Types'
    BY DEF AInv, Types, GraphsKeep
  <1>3. ASSUME NEW q \in Request PROVE OfRequest(q)'
    BY <1>1, <1>3, Bystander DEF StartedNone
  <1> QED BY <1>1, <1>2, <1>3, CancelledRemain DEF AInv

LEMMA LooksUp ==
    ASSUME AInv, NEW r \in Request, UNCHANGED workflows,
           LookUp(r, TRUE) \/ LookUp(r, FALSE)
    PROVE  AInv'
  <1>1. step[r] = "new" /\ (Readied(r, "ready") \/ Answered(r, "error"))
    BY DEF LookUp, Answer, Readied, Answered
  <1> QED BY <1>1, BeforeTheCall

LEMMA HandlersKeep ==
    ASSUME AInv, NEW r \in Request, Handlers(r)
    PROVE  AInv'
  <1>1. CASE doReset(r) \/ doBootImage(r) \/ deleteVolume(r) \/ addVolume(r) \/ addHotspare(r)
    <2>1. UNCHANGED workflows /\ (LookUp(r, TRUE) \/ LookUp(r, FALSE))
      BY <1>1 DEF doReset, doBootImage, deleteVolume, addVolume, addHotspare, Looks, gvars, LookUp
    <2> QED BY <2>1, LooksUp
  <1>2. CASE setSystemBios(r) \/ changeSystemBiosPassword(r) \/ updateFirmware(r) \/ createTag(r) \/ FindNode(r)
    <2>1. UNCHANGED workflows /\ (LookUp(r, TRUE) \/ LookUp(r, FALSE))
      BY <1>2 DEF setSystemBios, changeSystemBiosPassword, updateFirmware, createTag, FindNode,
                  Looks, gvars, LookUp
    <2> QED BY <2>1, LooksUp
  <1>3. CASE postNode(r)
    <2>1. \/ Readied(r, "ready")
          \/ \E status \in {"error", "stored"} : Answered(r, status)
      BY <1>3 DEF postNode, Answer, Readied, Answered, gvars
    <2>2. r.op \notin {"cancel", "firmware"} /\ step[r] = "new"
      BY <1>3 DEF postNode, Creates
    <2> QED BY <2>1, <2>2, BeforeTheCall
  <1>4. CASE regenerateTags(r)
    <2>1. \/ \E next \in {"found", "tagged"} : Readied(r, next)
          \/ Answered(r, "error")
      BY <1>4 DEF regenerateTags, Answer, Readied, Answered, gvars
    <2>2. r.op = "createTag" /\ step[r] = "ready"
      BY <1>4 DEF regenerateTags
    <2> QED BY <2>1, <2>2, BeforeTheCall
  <1>5. ASSUME NEW t \in DOMAIN r.targets, LookTarget(r, t) \/ UpdateTarget(r, t) PROVE AInv'
    BY <1>5, LookTargetKeeps, UpdateTargetKeeps
  <1> QED BY <1>1, <1>2, <1>3, <1>4, <1>5, LaunchKeeps, GetTagKeeps, FinishUpdateKeeps,
             FindActiveKeeps, CancelKeeps
          DEF Handlers

LEMMA AInvStep == AInv /\ [ActionsNext]_<<gvars, avars>> => AInv'
  <1> SUFFICES ASSUME AInv, [ActionsNext]_<<gvars, avars>> PROVE AInv'
    OBVIOUS
  <1>1. ASSUME NEW r \in Request, Handlers(r) PROVE AInv'
    BY <1>1, HandlersKeep
  <1>2. workflows \in Seq(Graph)
    BY DEF AInv, Types
  <1>3. CASE Registration /\ UNCHANGED avars
    BY <1>2, <1>3, Unmoved, OthersKeep DEF Registration, avars
  <1>4. CASE WorkflowEnds /\ UNCHANGED avars
    <2>1. PICK i \in Active : workflows' = [workflows EXCEPT ![i].status = "ended"]
      BY <1>4 DEF WorkflowEnds
    <2>2. /\ GraphsKeep /\ StartedNone
          /\ \A j \in DOMAIN workflows' : workflows'[j].status = "cancelled" =>
                 j \in DOMAIN workflows /\ workflows[j].status = "cancelled"
      BY <1>2, <2>1, Marked
    <2> QED BY <1>4, <2>2, OthersKeep DEF avars
  <1>5. CASE NodeGone \/ destroyTag \/ NewCatalog \/ UNCHANGED <<gvars, avars>>
    BY <1>2, <1>5, Unmoved, OthersKeep DEF NodeGone, destroyTag, NewCatalog, gvars, avars
  <1> QED BY <1>1, <1>3, <1>4, <1>5 DEF ActionsNext, Engine

\* What the client is told is what the engine does: an accepted request names the one graph
\* it started, for its node; a firmware update gives no node more graphs than the payload
\* names it; after an error nothing runs but what a lost answer hides, or what the creation of
\* a tag had the engine's answer for before the tag could not be read; and only a request for
\* the node cancels a graph (systems.js, update-service.js, nodes-api-service.js, tags.js).
THEOREM AnswersAlwaysTellWhatRuns == ActionsSpec => []AnswersTellWhatRuns
  <1>1. AInv => AnswersTellWhatRuns
    <2> SUFFICES ASSUME AInv PROVE AnswersTellWhatRuns
      OBVIOUS
    <2>1. ASSUME NEW r \in Request, Done(r)
          PROVE  CASE r.op = "cancel" -> CancelsWhatItFound(r) /\ StartedBy(r) = {}
                   [] r.op = "firmware" -> NamesOneGraph(r) /\ NothingRuns(r)
                   [] r.op = "createTag" -> TellsOfItsTag(r)
                   [] OTHER -> NamesItsGraph(r) /\ NothingRuns(r)
      <3>1. OfRequest(r)
        BY DEF AInv
      <3>2. CASE r.op = "cancel"
        BY <2>1, <3>1, <3>2 DEF OfRequest, Cancels
      <3>3. CASE r.op = "firmware"
        <4>1. Updates(r)
          BY <3>1, <3>3 DEF OfRequest
        <4>2. ASSUME NEW n \in Node
              PROVE  Cardinality({i \in StartedBy(r) : workflows[i].node = n})
                     <= Cardinality({t \in DOMAIN r.targets : r.targets[t] = n})
          <5>1. Cardinality(Given(r, n)) + Cardinality(Left(r, n)) <= Cardinality(Wanted(r, n))
            BY <4>1 DEF Updates, UpToTheTargets
          <5>2. /\ Cardinality(Given(r, n)) \in Nat /\ Cardinality(Left(r, n)) \in Nat
                /\ Cardinality(Wanted(r, n)) \in Nat
            BY Counted DEF AInv
          <5>3. Cardinality(Given(r, n)) <= Cardinality(Wanted(r, n))
            BY <5>1, <5>2
          <5> QED BY <5>3 DEF Given, Wanted
        <4>3. NamesOneGraph(r)
          BY <4>1, <4>2 DEF NamesOneGraph, Updates
        <4> QED BY <3>3, <4>1, <4>3 DEF Updates
      <3>4. CASE r.op = "createTag"
        BY <3>1, <3>4 DEF OfRequest, StoresATag
      <3>5. CASE r.op \notin {"cancel", "firmware", "createTag"}
        BY <2>1, <3>1, <3>5 DEF OfRequest, StartsOnce
      <3> QED BY <3>2, <3>3, <3>4, <3>5
    <2> QED BY <2>1 DEF AnswersTellWhatRuns, AInv
  <1>2. (\E sent \in SUBSET Request : ActionsInit(sent)) => AInv
    BY AInvInit
  <1> QED BY <1>1, <1>2, AInvStep, PTL DEF ActionsSpec

-----------------------------------------------------------------------------
(* Who is told of a setting                                                *)

SettingId == {d.id : d \in AtFirst}
Config == {d.config : d \in AtFirst} \cup {c.config : c \in Change}
Snapshot == [node : Holder, settings : SUBSET Document]

SettingsTypes ==
    /\ settings \subseteq Document
    /\ stage \in [Change -> {"idle", "found", "read", "answered"}]
    /\ owner \in [Change -> Holder \cup {Nobody}]
    /\ before \in [Change -> SUBSET Snapshot]
    /\ heard \in [Holder -> SUBSET Document]

\* The settings that are told of: one document each at most, which belongs to a node.
Told == SettingId \ (overlapped \cup Loose)

OneDocument == \A d, e \in settings : d.id = e.id => d = e

Owned == \A d \in settings : d.id \notin Loose => d.node \in Holder

\* What a request has read is still so while it is under way.
RequestKnows(c) ==
    /\ UnderWay(c) => \E d \in settings : d.id = c.id /\ d.node = owner[c]
    /\ stage[c] = "read" =>
         /\ \A n \in Holder \cap (IF c.op = "patch" THEN {owner[c], c.to} ELSE {owner[c]}) :
              \E b \in before[c] : b.node = n
         /\ \A b \in before[c] : OfId(b.settings, c.id) = OfId(SettingsOf(b.node), c.id)

\* A node has heard how its setting is, or somebody is about to tell it, or the event
\* was lost.
DueTo(n, i) ==
    \E c \in Change : stage[c] = "answered" /\ \E b \in before[c] :
        b.node = n /\ OfId(b.settings, i) # OfId(SettingsOf(n), i)

Hears(n, i) == OfId(heard[n], i) = OfId(SettingsOf(n), i) \/ DueTo(n, i)

ToldInv ==
    /\ SettingsTypes /\ OneDocument /\ Owned /\ Together \subseteq {c \in Change : c.id \in overlapped}
    /\ \A c \in Change : c.id \in Told => RequestKnows(c)
    /\ \A n \in Holder, i \in Told : Hears(n, i) \/ <<n, i>> \in missed

Handles(c) ==
    Find(c) \/ ReadNodes(c) \/ Refuse(c) \/ Write(c) \/ Tell(c) \/ \E b \in before[c] : TellFails(c, b)

LEMMA SettingsTypesKept ==
    ASSUME SettingsTypes, NEW c \in Change, Handles(c)
    PROVE  SettingsTypes'
  <1> USE DEF SettingsTypes
  <1>d. /\ \A d \in Document : d.node \in Holder \cup {Nobody} /\ d.config \in Config /\ d.id \in SettingId
        /\ Document = [id : SettingId, node : Holder \cup {Nobody}, config : Config]
    BY DEF Document, SettingId, Config
  <1>1. CASE Find(c)
    BY <1>1, <1>d DEF Find, Goes
  <1>2. CASE ReadNodes(c)
    <2>1. \A holders : Seen(holders) \subseteq Snapshot
      BY DEF Seen, SettingsOf, Snapshot
    <2> QED BY <1>2, <2>1 DEF ReadNodes, Goes
  <1>3. CASE Write(c)
    <2>1. \A d \in Document : Patched(c, d) \in Document
      BY <1>d, ChangeAssumption DEF Patched, Config
    <2>2. settings' \subseteq Document
      BY <1>3, <2>1 DEF Write
    <2>3. stage' \in [Change -> {"idle", "found", "read", "answered"}]
      BY <1>3 DEF Write, Goes
    <2>4. before' \in [Change -> SUBSET Snapshot]
      <3>1. before' = [before EXCEPT ![c] = {}] \/ before' = before
        BY <1>3 DEF Write
      <3> QED BY <3>1
    <2> QED BY <1>3, <2>2, <2>3, <2>4 DEF Write
  <1>4. CASE Tell(c)
    <2>1. PICK b \in before[c] :
               /\ before' = [before EXCEPT ![c] = @ \ {b}]
               /\ heard' = heard \/ heard' = [heard EXCEPT ![b.node] = SettingsOf(b.node)]
               /\ UNCHANGED <<settings, stage, owner>>
      BY <1>4 DEF Tell
    <2>2. heard' \in [Holder -> SUBSET Document]
      BY <2>1 DEF SettingsOf
    <2>3. before' \in [Change -> SUBSET Snapshot]
      BY <2>1
    <2> QED BY <2>1, <2>2, <2>3
  <1>5. CASE Refuse(c)
    BY <1>5 DEF Refuse, Goes
  <1>6. ASSUME NEW b \in before[c], TellFails(c, b) PROVE SettingsTypes'
    BY <1>6 DEF TellFails
  <1> QED BY <1>1, <1>2, <1>3, <1>4, <1>5, <1>6 DEF Handles

\* A write changes the document of its setting alone, and only for the node that it
\* belonged to and for the one it is given to.
LEMMA WriteOf ==
    ASSUME SettingsTypes, OneDocument, NEW c \in Change, Write(c)
    PROVE  /\ \A e \in settings' : \/ e \in settings /\ e.id # c.id
                                   \/ \E d \in settings : d.id = c.id /\ e.id = c.id
                                        /\ c.op = "patch" /\ e = Patched(c, d)
                                        /\ e.node = IF c.to = Nobody THEN d.node ELSE c.to
           /\ \A n \in Holder, i \in SettingId \ {c.id} :
                OfId(SettingsOf(n)', i) = OfId(SettingsOf(n), i)
  <1>d. /\ \A d \in Document : d.node \in Holder \cup {Nobody} /\ d.config \in Config /\ d.id \in SettingId
        /\ Document = [id : SettingId, node : Holder \cup {Nobody}, config : Config]
    BY DEF Document, SettingId, Config
  <1>1. \A d \in Document : /\ Patched(c, d).id = d.id
                            /\ Patched(c, d).node = IF c.to = Nobody THEN d.node ELSE c.to
    BY <1>d DEF Patched
  <1>2. settings' = (settings \ OfId(settings, c.id))
                    \cup IF c.op = "patch" THEN {Patched(c, d) : d \in OfId(settings, c.id)} ELSE {}
    BY DEF Write, OfId
  <1>3. \A e \in settings' : \/ e \in settings /\ e.id # c.id
                             \/ \E d \in settings : d.id = c.id /\ e.id = c.id
                                  /\ c.op = "patch" /\ e = Patched(c, d)
                                  /\ e.node = IF c.to = Nobody THEN d.node ELSE c.to
    BY <1>1, <1>2 DEF OfId, SettingsTypes
  <1>4. \A e \in settings : e.id # c.id => e \in settings'
    BY <1>2 DEF OfId
  <1> QED BY <1>3, <1>4 DEF OfId, SettingsOf

LEMMA WriteHears ==
    ASSUME ToldInv, NEW c \in Change, Write(c), NEW n \in Holder, NEW i \in Told, Hears(n, i)
    PROVE  Hears(n, i)'
  <1> DEFINE was == OfId(SettingsOf(n), i)
             is == OfId(SettingsOf(n)', i)
  <1>1. /\ stage[c] = "read" /\ stage' = [stage EXCEPT ![c] = "answered"]
        /\ heard' = heard /\ \A d \in Change : d # c => before'[d] = before[d]
        /\ SettingsTypes /\ OneDocument
    BY DEF Write, Goes, ToldInv, SettingsTypes
  <1>2. CASE is = was
    <2>1. CASE OfId(heard[n], i) = was
      BY <1>1, <1>2, <2>1 DEF Hears
    <2>2. CASE DueTo(n, i)
      <3>1. PICK d \in Change : stage[d] = "answered" /\ \E b \in before[d] :
                 b.node = n /\ OfId(b.settings, i) # OfId(SettingsOf(n), i)
        BY <2>2 DEF DueTo
      <3>2. d # c /\ stage'[d] = "answered" /\ before'[d] = before[d]
        BY <1>1, <3>1 DEF SettingsTypes
      <3> QED BY <1>2, <3>1, <3>2 DEF Hears, DueTo
    <2> QED BY <2>1, <2>2 DEF Hears
  <1>3. CASE is # was
    <2>1. i = c.id /\ c.id \in Told
      BY <1>1, <1>3, WriteOf DEF Told
    <2>2. PICK d \in settings : d.id = c.id /\ d.node = owner[c]
      BY <1>1, <2>1 DEF ToldInv, RequestKnows, UnderWay
    <2>3. before'[c] = before[c]
      BY <1>1, <2>2 DEF Write, SettingsTypes
    <2>4. n \in IF c.op = "patch" THEN {owner[c], c.to} ELSE {owner[c]}
      <3> SUFFICES ASSUME n # owner[c], c.op = "patch" => n # c.to
                   PROVE  FALSE
        OBVIOUS
      <3>1. was = {}
        BY <1>1, <2>1, <2>2 DEF OfId, SettingsOf, OneDocument
      <3>2. is = {}
        BY <1>1, <2>1, <2>2, WriteOf DEF OfId, SettingsOf, OneDocument
      <3> QED BY <1>3, <3>1, <3>2
    <2>5. PICK b \in before[c] : b.node = n
      BY <1>1, <2>1, <2>4 DEF ToldInv, RequestKnows
    <2>6. OfId(b.settings, i) = was
      BY <1>1, <2>1, <2>5 DEF ToldInv, RequestKnows
    <2>7. stage'[c] = "answered"
      BY <1>1 DEF SettingsTypes
    <2> QED BY <1>3, <2>3, <2>5, <2>6, <2>7 DEF Hears, DueTo
  <1> QED BY <1>2, <1>3

LEMMA TellHears ==
    ASSUME ToldInv, NEW c \in Change, Tell(c), NEW n \in Holder, NEW i \in Told, Hears(n, i)
    PROVE  Hears(n, i)'
  <1>1. PICK b \in before[c] :
             /\ before' = [before EXCEPT ![c] = @ \ {b}]
             /\ heard' = IF b.settings = SettingsOf(b.node) THEN heard
                         ELSE [heard EXCEPT ![b.node] = SettingsOf(b.node)]
             /\ UNCHANGED <<settings, stage, owner>>
    BY DEF Tell
  <1>2. SettingsTypes /\ b.node \in Holder /\ SettingsOf(n)' = SettingsOf(n)
    BY <1>1 DEF ToldInv, SettingsTypes, Snapshot, SettingsOf
  <1>3. CASE b.node = n /\ b.settings # SettingsOf(n)
    BY <1>1, <1>2, <1>3 DEF Hears, SettingsTypes
  <1>4. CASE ~(b.node = n /\ b.settings # SettingsOf(n))
    <2>1. heard'[n] = heard[n]
      BY <1>1, <1>2, <1>4 DEF SettingsTypes
    <2>2. CASE DueTo(n, i)
      <3>1. PICK d \in Change : stage[d] = "answered" /\ \E e \in before[d] :
                 e.node = n /\ OfId(e.settings, i) # OfId(SettingsOf(n), i)
        BY <2>2 DEF DueTo
      <3>2. PICK e \in before[d] : e.node = n /\ OfId(e.settings, i) # OfId(SettingsOf(n), i)
        BY <3>1
      <3>3. e \in before'[d]
        BY <1>1, <1>2, <1>4, <3>2 DEF SettingsTypes
      <3> QED BY <1>1, <1>2, <3>1, <3>2, <3>3 DEF Hears, DueTo
    <2> QED BY <1>2, <2>1, <2>2 DEF Hears
  <1> QED BY <1>3, <1>4

\* What is lost is put down, unless it needed no telling.
LEMMA FailureIsMissed ==
    ASSUME ToldInv, Observe, NEW c \in Change, NEW b \in before[c], TellFails(c, b),
           NEW n \in Holder, NEW i \in Told, Hears(n, i)
    PROVE  Hears(n, i)' \/ <<n, i>> \in missed'
  <1>1. /\ before' = [before EXCEPT ![c] = @ \ {b}] /\ heard' = heard /\ stage' = stage
        /\ SettingsTypes /\ SettingsOf(n)' = SettingsOf(n)
    BY DEF TellFails, ToldInv, SettingsOf
  <1>2. CASE OfId(heard[n], i) = OfId(SettingsOf(n), i)
    BY <1>1, <1>2 DEF Hears
  <1>3. CASE OfId(heard[n], i) # OfId(SettingsOf(n), i)
    <2>1. PICK d \in Change : stage[d] = "answered" /\ \E e \in before[d] :
               e.node = n /\ OfId(e.settings, i) # OfId(SettingsOf(n), i)
      BY <1>3 DEF Hears, DueTo
    <2>2. PICK e \in before[d] : e.node = n /\ OfId(e.settings, i) # OfId(SettingsOf(n), i)
      BY <2>1
    <2>3. CASE d = c /\ e = b
      <3>1. Lost(n, i)
        BY <2>2, <2>3 DEF Lost
      <3>2. Unheard(n, i)'
        BY <1>1, <1>3 DEF Unheard
      <3>3. <<n, i>> \in Holder \X {f.id : f \in AtFirst}
        BY DEF Told, SettingId
      <3> QED BY <3>1, <3>2, <3>3 DEF Observe
    <2>4. CASE ~(d = c /\ e = b)
      <3>1. e \in before'[d]
        BY <1>1, <2>2, <2>4 DEF SettingsTypes
      <3> QED BY <1>1, <2>1, <2>2, <3>1 DEF Hears, DueTo
    <2> QED BY <2>3, <2>4
  <1> QED BY <1>2, <1>3

\* Other steps change no setting and no event, and end no telling.
LEMMA QuietHears ==
    ASSUME ToldInv, NEW c \in Change, Find(c) \/ ReadNodes(c) \/ Refuse(c),
           NEW n \in Holder, NEW i \in Told, Hears(n, i)
    PROVE  Hears(n, i)'
  <1>1. /\ UNCHANGED <<settings, heard>> /\ SettingsTypes
        /\ \A d \in Change : stage[d] = "answered" => stage'[d] = "answered" /\ before'[d] = before[d]
    BY DEF Find, ReadNodes, Refuse, Goes, ToldInv, SettingsTypes
  <1>2. SettingsOf(n)' = SettingsOf(n)
    BY <1>1 DEF SettingsOf
  <1>3. DueTo(n, i) => DueTo(n, i)'
    BY <1>1, <1>2 DEF DueTo
  <1> QED BY <1>1, <1>2, <1>3 DEF Hears

\* A request whose setting no other request is changing goes on knowing it.
LEMMA Knows ==
    ASSUME ToldInv, Observe, NEW c \in Change,
           Handles(c), NEW d \in Change, d.id \in Told'
    PROVE  RequestKnows(d)'
  <1>1. /\ SettingsTypes /\ OneDocument /\ d.id \in Told /\ RequestKnows(d)
        /\ d.id \notin overlapped'
    BY DEF ToldInv, Told, Observe
  <1>2. CASE d # c
    <2>1. stage'[d] = stage[d] /\ owner'[d] = owner[d] /\ before'[d] = before[d]
      BY <1>1, <1>2 DEF Handles, Find, ReadNodes, Refuse, Write, Tell, TellFails, Goes, SettingsTypes
    <2>2. CASE settings' = settings
      BY <1>1, <2>1, <2>2 DEF RequestKnows, UnderWay, SettingsOf
    <2>3. CASE Write(c) /\ c.id # d.id
      <3>1. \A n \in Holder : OfId(SettingsOf(n)', d.id) = OfId(SettingsOf(n), d.id)
        BY <1>1, <2>3, WriteOf DEF Told
      <3>2. \A e \in settings : e.id = d.id => e \in settings'
        BY <2>3 DEF Write
      <3>3. \A b \in before[d] : b.node \in Holder
        BY <1>1 DEF SettingsTypes, Snapshot
      <3> QED BY <1>1, <2>1, <3>1, <3>2, <3>3 DEF RequestKnows, UnderWay
    <2>4. CASE Write(c) /\ c.id = d.id
      <3>1. ~UnderWay(d)
        BY <1>1, <1>2, <2>4 DEF Write, Goes, UnderWay, Together, ToldInv, Told
      <3> QED BY <2>1, <3>1 DEF UnderWay, RequestKnows
    <2> QED BY <2>2, <2>3, <2>4 DEF Handles, Find, ReadNodes, Refuse, Tell, TellFails
  <1>3. CASE d = c /\ Find(c)
    BY <1>1, <1>3 DEF Find, Goes, SettingsTypes, RequestKnows, UnderWay
  <1>4. CASE d = c /\ ReadNodes(c)
    <2> DEFINE to == IF c.op = "patch" THEN NodesToTell(c) ELSE {owner[c]}
    <2>1. /\ stage[c] = "found" /\ stage'[c] = "read" /\ before'[c] = Seen(to)
          /\ UNCHANGED <<settings, owner>>
      BY <1>1, <1>4 DEF ReadNodes, Goes, SettingsTypes
    <2>2. PICK e \in settings : e.id = c.id /\ e.node = owner[c]
      BY <1>1, <1>4, <2>1 DEF RequestKnows, UnderWay
    <2>3. owner[c] \in Holder
      BY <1>1, <1>4, <2>2 DEF ToldInv, Owned, Told
    <2>4. to = IF c.op = "patch" THEN {owner[c], c.to} ELSE {owner[c]}
      BY <2>3, ChangeAssumption DEF NodesToTell
    <2>5. \A n : SettingsOf(n)' = SettingsOf(n)
      BY <2>1 DEF SettingsOf
    <2>6. ASSUME NEW n \in Holder \cap to
          PROVE  \E b \in before'[c] : b.node = n
      <3> DEFINE b == [node |-> n, settings |-> SettingsOf(n)]
      <3>1. b \in before'[c]
        BY <2>1 DEF Seen
      <3> QED BY <3>1
    <2>7. \A b \in before'[c] : b.settings = SettingsOf(b.node)
      BY <2>1 DEF Seen
    <2> HIDE DEF to
    <2> QED BY <1>4, <2>1, <2>2, <2>4, <2>5, <2>6, <2>7 DEF RequestKnows, UnderWay
  <1>5. CASE d = c /\ Write(c)
    BY <1>1, <1>5 DEF Write, Goes, SettingsTypes, RequestKnows, UnderWay
  <1>6. CASE d = c /\ Tell(c)
    BY <1>1, <1>6 DEF Tell, Goes, SettingsTypes, RequestKnows, UnderWay
  <1>7. CASE d = c /\ Refuse(c)
    BY <1>1, <1>7 DEF Refuse, Goes, SettingsTypes, RequestKnows, UnderWay
  <1>8. CASE d = c /\ \E b \in before[c] : TellFails(c, b)
    BY <1>1, <1>8 DEF TellFails, SettingsTypes, RequestKnows, UnderWay
  <1> QED BY <1>2, <1>3, <1>4, <1>5, <1>6, <1>7, <1>8 DEF Handles

LEMMA ToldInvStep ==
    ASSUME ToldInv, Observe, NEW c \in Change, Handles(c)
    PROVE  ToldInv'
  <1>1. SettingsTypes /\ OneDocument /\ Owned /\ SettingsTypes'
    BY SettingsTypesKept DEF ToldInv
  <1>2. OneDocument' /\ Owned'
    <2>1. CASE Write(c)
      <3>1. OneDocument'
        BY <1>1, <2>1, WriteOf DEF OneDocument
      <3>2. Owned'
        BY <1>1, <2>1, WriteOf, ChangeAssumption DEF Owned
      <3> QED BY <3>1, <3>2
    <2>2. CASE settings' = settings
      BY <1>1, <2>2 DEF OneDocument, Owned
    <2> QED BY <2>1, <2>2 DEF Handles, Find, ReadNodes, Refuse, Tell, TellFails
  <1>3. Together' \subseteq {d \in Change : d.id \in overlapped'}
    BY DEF Observe, Together
  <1>4. \A d \in Change : d.id \in Told' => RequestKnows(d)'
    BY Knows
  <1>5. \A n \in Holder, i \in Told' : Hears(n, i)' \/ <<n, i>> \in missed'
    <2>1. Told' \subseteq Told
      BY DEF Told, Observe
    <2> SUFFICES ASSUME NEW n \in Holder, NEW i \in Told
                 PROVE  Hears(n, i)' \/ <<n, i>> \in missed'
      BY <2>1
    <2>2. CASE <<n, i>> \in missed
      <3>1. <<n, i>> \in Holder \X {f.id : f \in AtFirst}
        BY DEF Told, SettingId
      <3>2. CASE Unheard(n, i)'
        BY <2>2, <3>1, <3>2 DEF Observe
      <3>3. CASE ~Unheard(n, i)'
        BY <3>3 DEF Unheard, Hears
      <3> QED BY <3>2, <3>3
    <2>3. CASE Hears(n, i)
      <3>1. CASE Find(c) \/ ReadNodes(c) \/ Refuse(c)
        BY <2>3, <3>1, QuietHears
      <3>2. CASE Write(c)
        BY <2>3, <3>2, WriteHears
      <3>3. CASE Tell(c)
        BY <2>3, <3>3, TellHears
      <3>4. ASSUME NEW b \in before[c], TellFails(c, b)
            PROVE  Hears(n, i)' \/ <<n, i>> \in missed'
        BY <2>3, <3>4, FailureIsMissed
      <3> QED BY <3>1, <3>2, <3>3, <3>4 DEF Handles
    <2> QED BY <2>2, <2>3 DEF ToldInv
  <1> QED BY <1>1, <1>2, <1>3, <1>4, <1>5 DEF ToldInv

LEMMA ToldInvStart == ObservedInit => ToldInv
  <1> SUFFICES ASSUME ObservedInit PROVE ToldInv
    OBVIOUS
  <1>1. /\ settings = AtFirst /\ stage = [c \in Change |-> "idle"]
        /\ owner = [c \in Change |-> Nobody] /\ before = [c \in Change |-> {}]
        /\ heard = [n \in Holder |-> SettingsOf(n)] /\ overlapped = {} /\ missed = {}
    BY DEF ObservedInit, SettingsInit
  <1>2. SettingsTypes /\ OneDocument
    BY <1>1, ChangeAssumption DEF SettingsTypes, OneDocument, SettingsOf
  <1>3. Owned
    BY <1>1, ChangeAssumption DEF Owned, Loose, Document
  <1>4. Together = {}
    BY <1>1 DEF Together, UnderWay
  <1>5. \A c \in Change : RequestKnows(c)
    BY <1>1 DEF RequestKnows, UnderWay
  <1>6. \A n \in Holder, i \in Told : Hears(n, i)
    BY <1>1 DEF Hears
  <1> QED BY <1>2, <1>3, <1>4, <1>5, <1>6 DEF ToldInv

\* Whatever settings there are, and however many requests change and move them, once
\* all is done the events of each node have told what its settings are, save those that
\* belonged to nobody, those that two requests changed together and those whose event
\* was lost.
THEOREM EveryChangeIsToldAlways == ObservedSpec => []EveryChangeIsTold
  <1>1. ToldInv /\ [SettingsNext /\ Observe]_ovars => ToldInv'
    <2> SUFFICES ASSUME ToldInv, [SettingsNext /\ Observe]_ovars PROVE ToldInv'
      OBVIOUS
    <2>1. CASE SettingsNext /\ Observe
      BY <2>1, ToldInvStep DEF SettingsNext, Handles
    <2>2. CASE UNCHANGED ovars
      <3> USE <2>2 DEF ovars, svars, ToldInv
      <3>1. (SettingsTypes /\ OneDocument /\ Owned)'
        BY DEF SettingsTypes, OneDocument, Owned
      <3>2. Together' = Together /\ Told' = Told
        BY DEF Together, UnderWay, Told
      <3>3. \A c \in Change : c.id \in Told' => RequestKnows(c)'
        BY <3>2 DEF RequestKnows, UnderWay, SettingsOf
      <3>4. \A n \in Holder, i \in Told' : Hears(n, i)' \/ <<n, i>> \in missed'
        BY <3>2 DEF Hears, DueTo, SettingsOf
      <3> QED BY <3>1, <3>2, <3>3, <3>4
    <2> QED BY <2>1, <2>2
  <1>2. ToldInv => EveryChangeIsTold
    <2> SUFFICES ASSUME ToldInv, Quiet, NEW n \in Holder
                 PROVE  Followed(n, heard[n]) = Followed(n, SettingsOf(n))
      BY DEF EveryChangeIsTold
    <2>1. \A i \in Told : <<n, i>> \in missed \/ OfId(heard[n], i) = OfId(SettingsOf(n), i)
      BY DEF ToldInv, Hears, DueTo, Quiet
    <2>2. heard[n] \subseteq Document /\ SettingsOf(n) \subseteq Document
      BY DEF ToldInv, SettingsTypes, SettingsOf
    <2>3. \A d \in Document : d.id \in SettingId
      BY DEF Document, SettingId
    <2> QED BY <2>1, <2>2, <2>3 DEF Followed, Told, OfId
  <1> QED BY ToldInvStart, <1>1, <1>2, PTL DEF ObservedSpec

-----------------------------------------------------------------------------
(* The pages of a collection                                               *)

\* Every set of numbers has a least one: what stands in for induction.
LEMMA LeastNumber == ASSUME NEW T \in SUBSET Nat, T # {} PROVE \E x \in T : \A y \in T : x <= y
<1>1. IsWellFoundedOn(OpToRel(<, Nat), Nat)
  BY NatLessThanWellFounded
<1>2. PICK x \in T : \A y \in T : ~ (<<y, x>> \in OpToRel(<, Nat))
  BY <1>1, WFMin
<1>3. \A y \in T : ~ (y < x)
  BY <1>2 DEF OpToRel
<1> QED
  BY <1>3

\* The quotient of LastSkip, rounded up.
LEMMA RoundUp ==
    ASSUME NEW n \in Nat, NEW t \in Nat \ {0}
    PROVE  /\ (n + t - 1) \div t \in Nat
           /\ n <= ((n + t - 1) \div t) * t
           /\ ((n + t - 1) \div t) * t - t < n
BY SMT

\* A page that can be shown.
PageQuery == [skip : Int, top : Int]
Shown(p) == p \in PageQuery /\ Skip(p) \in Nat /\ Top(p) \in Nat \ {0}

\* Where a page ends.
Upto(p) == Skip(p) + Top(p)

LEMMA ListedBetween ==
    ASSUME count \in Nat, NEW p, Shown(p)
    PROVE  Listed(p) = {i \in 1 .. count : Skip(p) < i /\ i <= Upto(p)}
<1>1. CASE p.top = Absent
  <2>1. Upto(p) = count
    BY <1>1 DEF Upto, Top, Shown
  <2> QED BY <1>1, <2>1 DEF Listed
<1>2. CASE p.top # Absent
  BY <1>2 DEF Listed, Upto, Top
<1> QED BY <1>1, <1>2

\* A client asks for pages like that.
LEMMA AskedShown ==
    ASSUME count \in Nat, NEW q \in Query, Linked(q)
    PROVE  Shown(q) /\ Skip(q) < count
<1>1. MaxTop \in Nat /\ Absent \in Int
  BY PagingAssumption DEF Absent
<1>2. q \in PageQuery /\ Skip(q) \in Nat /\ (q.top # Absent => q.top \in Nat \ {0})
  BY <1>1 DEF Query, PageQuery, Skip, Absent
<1>3. PICK i \in 1 .. count : Skip(q) < i
  BY DEF Linked, Listed
<1>4. Skip(q) < count
  BY <1>2, <1>3
<1>5. Top(q) \in Nat \ {0}
  BY <1>2, <1>4 DEF Top
<1> QED BY <1>2, <1>4, <1>5 DEF Shown

\* The next page goes on where a page ends, with as many items.
LEMMA NextStep ==
    ASSUME count \in Nat, NEW p, Shown(p), NEW x \in NextPage(p)
    PROVE  Shown(x) /\ Skip(x) = Upto(p)
<1>1. x = [skip |-> Skip(p) + Top(p), top |-> Top(p)]
  BY DEF NextPage
<1>2. x \in PageQuery /\ x.skip = Upto(p) /\ x.top = Top(p) /\ Upto(p) \in Nat
  BY <1>1 DEF PageQuery, Shown, Upto
<1>3. Skip(x) = Upto(p) /\ Top(x) = Top(p)
  BY <1>2 DEF Skip, Top, Shown, Absent
<1> QED BY <1>2, <1>3 DEF Shown

\* The previous page ends where a page begins, and is not the whole collection.
LEMMA PreviousStep ==
    ASSUME count \in Nat, NEW p, Shown(p), Skip(p) < count, NEW x \in PrevPage(p)
    PROVE  /\ Shown(x) /\ Upto(x) = Skip(p) /\ Skip(x) < Skip(p)
           /\ HasLinks(x)
<1>1. HasLinks(p) /\ Skip(p) # 0
  BY DEF PrevPage
<1>2. Top(p) < count
  BY <1>1 DEF HasLinks, Top, Shown
<1>3. CASE Skip(p) < Top(p)
  <2>1. x = [skip |-> 0, top |-> Skip(p)]
    BY <1>1, <1>3 DEF PrevPage
  <2>2. x \in PageQuery /\ x.skip = 0 /\ x.top = Skip(p)
    BY <2>1 DEF PageQuery, Shown
  <2>3. Skip(x) = 0 /\ Top(x) = Skip(p)
    BY <2>2 DEF Skip, Top, Shown, Absent
  <2> QED BY <1>1, <2>2, <2>3 DEF Shown, Upto, HasLinks, Absent
<1>4. CASE ~(Skip(p) < Top(p))
  <2>1. x = [skip |-> Skip(p) - Top(p), top |-> Top(p)]
    BY <1>1, <1>4 DEF PrevPage
  <2>2. x \in PageQuery /\ x.skip = Skip(p) - Top(p) /\ x.top = Top(p) /\ Skip(p) - Top(p) \in Nat
    BY <1>4, <2>1 DEF PageQuery, Shown
  <2>3. Skip(x) = Skip(p) - Top(p) /\ Top(x) = Top(p)
    BY <2>2 DEF Skip, Top, Shown, Absent
  <2> QED BY <1>2, <2>2, <2>3 DEF Shown, Upto, HasLinks, Absent
<1> QED BY <1>3, <1>4

\* No link leads on from the end, and one does before it.
LEMMA NextEnds ==
    ASSUME count \in Nat, NEW p, Shown(p), NextPage(p) = {}
    PROVE  count <= Upto(p)
<1>1. ~HasLinks(p) \/ Skip(p) >= LastSkip(p)
  BY DEF NextPage
<1>2. CASE ~HasLinks(p)
  BY <1>2 DEF HasLinks, Upto, Top, Shown
<1>3. CASE Skip(p) >= LastSkip(p)
  <2>1. CASE Skip(p) + Top(p) = count
    BY <2>1 DEF Upto
  <2>2. CASE Skip(p) + Top(p) # count
    <3> DEFINE k == (count + Top(p) - 1) \div Top(p)
    <3>1. k \in Nat /\ count <= k * Top(p)
      BY RoundUp DEF Shown
    <3>2. Skip(p) >= (k - 1) * Top(p) /\ Skip(p) \in Nat /\ Top(p) \in Nat
      BY <1>3, <2>2 DEF LastSkip, Shown
    <3>3. (k - 1) * Top(p) = k * Top(p) - Top(p) /\ k * Top(p) \in Nat
      <4> HIDE DEF k
      <4> QED BY <3>1, <3>2
    <3> HIDE DEF k
    <3> QED BY <3>1, <3>2, <3>3 DEF Upto
  <2> QED BY <2>1, <2>2
<1> QED BY <1>1, <1>2, <1>3

\* A walk with one more page, if there is a link.
Grows(w, onwards) ==
    IF Link(w[Len(w)], onwards) = {} THEN w
    ELSE Append(w, CHOOSE p \in Link(w[Len(w)], onwards) : TRUE)

\* Walk takes one link after the other.
LEMMA WalkGrows ==
    ASSUME count \in Nat, NEW q, NEW onwards
    PROVE  \E w : /\ w[0] = <<q>>
                  /\ \A n \in 1 .. count : w[n] = Grows(w[n - 1], onwards)
                  /\ Walk(q, onwards) = w[count]
<1> DEFINE Is(w, n) == w = [i \in 0 .. n |-> IF i = 0 THEN <<q>> ELSE Grows(w[i - 1], onwards)]
           Bad == {n \in Nat : ~ \E w : Is(w, n)}
<1>1. Bad = {}
  <2> SUFFICES ASSUME Bad # {} PROVE FALSE
    OBVIOUS
  <2>1. PICK n \in Bad : \A m \in Bad : n <= m
    BY LeastNumber
  <2>2. n # 0
    <3> DEFINE w == [i \in 0 .. 0 |-> <<q>>]
    <3>1. Is(w, 0)
      OBVIOUS
    <3> QED BY <3>1
  <2>3. n \in Nat /\ n - 1 \in Nat /\ n - 1 \notin Bad
    <3>1. n \in Nat
      OBVIOUS
    <3> HIDE DEF Bad
    <3> QED BY <3>1, <2>1, <2>2
  <2>4. PICK w : Is(w, n - 1)
    BY <2>3
  <2> DEFINE v == [i \in 0 .. n |-> IF i = n THEN Grows(w[n - 1], onwards) ELSE w[i]]
  <2>5. Is(v, n)
    <3>1. ASSUME NEW i \in 0 .. n PROVE v[i] = IF i = 0 THEN <<q>> ELSE Grows(v[i - 1], onwards)
      <4>1. i # 0 => v[i - 1] = w[i - 1]
        BY <2>3
      <4>2. i # 0 => Grows(v[i - 1], onwards) = Grows(w[i - 1], onwards)
        <5> HIDE DEF v
        <5> QED BY <4>1
      <4>3. CASE i = n
        <5>1. v[i] = Grows(w[n - 1], onwards)
          BY <4>3
        <5> HIDE DEF v
        <5> QED BY <2>2, <4>2, <4>3, <5>1
      <4>4. CASE i # n
        <5>1. v[i] = w[i] /\ i \in 0 .. n - 1
          BY <2>3, <4>4
        <5>2. w[i] = IF i = 0 THEN <<q>> ELSE Grows(w[i - 1], onwards)
          BY <2>4, <5>1
        <5> HIDE DEF v
        <5> QED BY <4>2, <5>1, <5>2
      <4> QED BY <4>3, <4>4
    <3>2. v = [i \in 0 .. n |-> v[i]]
      OBVIOUS
    <3> HIDE DEF v
    <3> QED BY <3>1, <3>2
  <2> QED BY <2>1, <2>3, <2>5
<1>2. \E w : Is(w, count)
  <2>1. count \notin Bad
    BY <1>1
  <2> QED BY <2>1
<1> DEFINE w == CHOOSE w : Is(w, count)
<1>3. Is(w, count)
  BY <1>2
<1>4. Walk(q, onwards) = w[count]
  BY DEF Walk, Grows
<1> HIDE DEF w
<1>5. w[0] = <<q>> /\ \A n \in 1 .. count : w[n] = Grows(w[n - 1], onwards)
  BY <1>3
<1> QED BY <1>4, <1>5

\* What follows from every step from one page to the next follows for all pages of a
\* walk: S are the pages that may occur.
LEMMA WalkFacts ==
    ASSUME count \in Nat, NEW S, NEW q \in S, NEW onwards \in BOOLEAN,
           \A p \in S : Link(p, onwards) \subseteq S
    PROVE  LET w == Walk(q, onwards) IN
           /\ w \in Seq(S) /\ Len(w) > 0 /\ w[1] = q
           /\ \A j \in 1 .. Len(w) - 1 : w[j + 1] \in Link(w[j], onwards)
           /\ Len(w) = count + 1 \/ Link(w[Len(w)], onwards) = {}
<1> DEFINE Good(w, n) ==
             /\ w \in Seq(S) /\ Len(w) > 0 /\ w[1] = q
             /\ \A j \in 1 .. Len(w) - 1 : w[j + 1] \in Link(w[j], onwards)
             /\ Len(w) = n + 1 \/ Link(w[Len(w)], onwards) = {}
<1>1. PICK w : /\ w[0] = <<q>>
               /\ \A n \in 1 .. count : w[n] = Grows(w[n - 1], onwards)
               /\ Walk(q, onwards) = w[count]
  BY WalkGrows
<1>2. Good(w[0], 0)
  BY <1>1
<1>3. ASSUME NEW n \in Nat, NEW v, Good(v, n) PROVE Good(Grows(v, onwards), n + 1)
  <2> DEFINE last == v[Len(v)]
             x == CHOOSE p \in Link(last, onwards) : TRUE
             u == Grows(v, onwards)
  <2>1. /\ v \in Seq(S) /\ Len(v) > 0 /\ v[1] = q /\ last \in S
        /\ \A j \in 1 .. Len(v) - 1 : v[j + 1] \in Link(v[j], onwards)
        /\ Len(v) = n + 1 \/ Link(last, onwards) = {}
    BY <1>3
  <2>2. CASE Link(last, onwards) = {}
    BY <2>1, <2>2 DEF Grows
  <2>3. CASE Link(last, onwards) # {}
    <3>1. x \in Link(last, onwards) /\ x \in S
      BY <2>1, <2>3
    <3>2. u = Append(v, x)
      BY <2>3 DEF Grows
    <3> HIDE DEF x, u, last
    <3>3. /\ u \in Seq(S) /\ Len(u) = Len(v) + 1 /\ u[1] = q
          /\ \A j \in 1 .. Len(v) : u[j] = v[j]
          /\ u[Len(v) + 1] = x
      BY <2>1, <3>1, <3>2
    <3>4. ASSUME NEW j \in 1 .. Len(u) - 1 PROVE u[j + 1] \in Link(u[j], onwards)
      <4>1. CASE j = Len(v)
        BY <2>1, <3>1, <3>3, <4>1 DEF last
      <4>2. CASE j # Len(v)
        <5>1. j \in 1 .. Len(v) - 1 /\ u[j] = v[j] /\ u[j + 1] = v[j + 1]
          BY <2>1, <3>3, <4>2
        <5> QED BY <2>1, <5>1
      <4> QED BY <4>1, <4>2
    <3> QED BY <2>1, <2>3, <3>3, <3>4 DEF u
  <2> QED BY <2>2, <2>3
<1> HIDE DEF Good
<1> DEFINE Bad == {n \in 0 .. count : ~Good(w[n], n)}
<1>4. Bad = {}
  <2> SUFFICES ASSUME Bad # {} PROVE FALSE
    OBVIOUS
  <2>1. PICK n \in Bad : \A m \in Bad : n <= m
    <3>1. Bad \in SUBSET Nat
      OBVIOUS
    <3> HIDE DEF Bad
    <3> QED BY <3>1, LeastNumber
  <2>2. n \in 1 .. count
    BY <1>2
  <2>3. Good(w[n - 1], n - 1)
    <3>1. n - 1 \in 0 .. count /\ n - 1 \notin Bad
      <4> HIDE DEF Bad
      <4> QED BY <2>1, <2>2
    <3> QED BY <3>1
  <2>4. n - 1 \in Nat /\ (n - 1) + 1 = n
    BY <2>2
  <2>5. Good(w[n], n)
    BY <1>1, <1>3, <2>2, <2>3, <2>4
  <2> QED BY <2>5
<1>5. Good(w[count], count)
  BY <1>4
<1> QED BY <1>1, <1>5 DEF Good

\* What grows with every position grows by one at least each time.
LEMMA Climbs ==
    ASSUME NEW n \in Nat, NEW f \in [1 .. n -> Int], \A j \in 1 .. n - 1 : f[j] < f[j + 1]
    PROVE  \A j, h \in 1 .. n : j <= h => f[j] + (h - j) <= f[h]
<1> SUFFICES ASSUME NEW j \in 1 .. n PROVE \A h \in 1 .. n : j <= h => f[j] + (h - j) <= f[h]
  OBVIOUS
<1> DEFINE Bad == {h \in 1 .. n : j <= h /\ ~(f[j] + (h - j) <= f[h])}
<1>1. Bad = {}
  <2> SUFFICES ASSUME Bad # {} PROVE FALSE
    OBVIOUS
  <2>1. PICK h \in Bad : \A m \in Bad : h <= m
    <3>1. Bad \in SUBSET Nat
      OBVIOUS
    <3> HIDE DEF Bad
    <3> QED BY <3>1, LeastNumber
  <2>2. h \in 1 .. n /\ j <= h /\ ~(f[j] + (h - j) <= f[h])
    OBVIOUS
  <2>3. h # j /\ h - 1 \in 1 .. n - 1 /\ j <= h - 1
    BY <2>2
  <2>4. h - 1 \notin Bad
    <3> HIDE DEF Bad
    <3> QED BY <2>1, <2>2
  <2>5. f[j] + ((h - 1) - j) <= f[h - 1]
    BY <2>3, <2>4
  <2>6. f[h - 1] < f[h]
    BY <2>3
  <2> QED BY <2>2, <2>3, <2>5, <2>6
<1> QED BY <1>1

\* The next pages show what comes behind the beginning of a page, each item once.
LEMMA NextPages ==
    ASSUME count \in Nat, NEW q, Shown(q), Skip(q) < count
    PROVE  LET w == Walk(q, TRUE) IN
           /\ w \in Seq(PageQuery) /\ Len(w) > 0 /\ w[1] = q /\ \A a \in DOMAIN w : Shown(w[a])
           /\ \A a, b \in DOMAIN w : a < b => Upto(w[a]) <= Skip(w[b])
           /\ \A i \in 1 .. count : Skip(q) < i =>
                 \E a \in DOMAIN w : Skip(w[a]) < i /\ i <= Upto(w[a])
<1> DEFINE S == {p \in PageQuery : Shown(p)}
           w == Walk(q, TRUE)
<1>1. \A p \in S : Link(p, TRUE) \subseteq S
  BY NextStep DEF Link, Shown
<1>2. q \in S
  BY DEF Shown
<1>3. /\ w \in Seq(S) /\ Len(w) > 0 /\ w[1] = q
      /\ \A j \in 1 .. Len(w) - 1 : w[j + 1] \in NextPage(w[j])
      /\ Len(w) = count + 1 \/ NextPage(w[Len(w)]) = {}
  <2> HIDE DEF S
  <2>1. /\ w \in Seq(S) /\ Len(w) > 0 /\ w[1] = q
        /\ \A j \in 1 .. Len(w) - 1 : w[j + 1] \in Link(w[j], TRUE)
        /\ Len(w) = count + 1 \/ Link(w[Len(w)], TRUE) = {}
    BY <1>1, <1>2, WalkFacts
  <2> QED BY <2>1 DEF Link
<1> HIDE DEF w
<1> DEFINE n == Len(w)
           f == [j \in 1 .. n |-> Skip(w[j])]
<1>4. /\ w \in Seq(PageQuery) /\ n \in Nat /\ n > 0 /\ DOMAIN w = 1 .. n
      /\ \A a \in 1 .. n : w[a] \in S
      /\ \A j \in 1 .. n - 1 : w[j + 1] \in NextPage(w[j])
  BY <1>3
<1>5. \A a \in 1 .. n : Shown(w[a]) /\ Skip(w[a]) \in Nat /\ Upto(w[a]) \in Nat
                        /\ Skip(w[a]) < Upto(w[a])
  BY <1>4 DEF Shown, Upto
<1>6. \A j \in 1 .. n - 1 : Skip(w[j + 1]) = Upto(w[j])
  <2> TAKE j \in 1 .. n - 1
  <2> HIDE DEF S, n
  <2>1. j \in 1 .. n /\ w[j + 1] \in NextPage(w[j])
    BY <1>4
  <2>2. Shown(w[j])
    BY <1>5, <2>1
  <2> QED BY <2>1, <2>2, NextStep
<1> HIDE DEF S, n
<1>7. \A a, b \in 1 .. n : a <= b => Skip(w[a]) + (b - a) <= Skip(w[b])
  <2>1. f \in [1 .. n -> Int] /\ \A j \in 1 .. n - 1 : f[j] < f[j + 1]
    <3>1. f \in [1 .. n -> Int]
      BY <1>5
    <3>2. ASSUME NEW j \in 1 .. n - 1 PROVE f[j] < f[j + 1]
      <4>1. j \in 1 .. n /\ j + 1 \in 1 .. n
        BY <1>4
      <4> QED BY <1>5, <1>6, <4>1
    <3> QED BY <3>1, <3>2
  <2>2. \A j, h \in 1 .. n : j <= h => f[j] + (h - j) <= f[h]
    <3> HIDE DEF f
    <3> QED BY <1>4, <2>1, Climbs
  <2> QED BY <2>2
<1>8. ASSUME NEW a \in 1 .. n, NEW b \in 1 .. n, a < b PROVE Upto(w[a]) <= Skip(w[b])
  <2>1. a + 1 \in 1 .. n /\ a \in 1 .. n - 1 /\ a + 1 <= b
    BY <1>4, <1>8
  <2>2. Skip(w[a + 1]) + (b - (a + 1)) <= Skip(w[b]) /\ Skip(w[a + 1]) = Upto(w[a])
    BY <1>6, <1>7, <2>1
  <2> QED BY <1>5, <1>8, <2>1, <2>2
<1>9. count <= Upto(w[n])
  <2>1. n \in 1 .. n /\ 1 \in 1 .. n
    BY <1>4
  <2>2. CASE NextPage(w[n]) = {}
    BY <1>5, <2>1, <2>2, NextEnds
  <2>3. CASE n = count + 1
    <3>1. Skip(w[1]) + (n - 1) <= Skip(w[n])
      BY <1>4, <1>7, <2>1
    <3> QED BY <1>4, <1>5, <2>1, <2>3, <3>1
  <2> QED BY <1>3, <2>2, <2>3 DEF n
<1>10. ASSUME NEW i \in 1 .. count, Skip(q) < i
       PROVE  \E a \in 1 .. n : Skip(w[a]) < i /\ i <= Upto(w[a])
  <2> DEFINE T == {a \in 1 .. n : i <= Upto(w[a])}
  <2>1. n \in T
    BY <1>4, <1>5, <1>9
  <2>2. PICK a \in T : \A b \in T : a <= b
    <3>1. T \in SUBSET Nat /\ T # {}
      BY <2>1
    <3> HIDE DEF T
    <3> QED BY <3>1, LeastNumber
  <2>3. a \in 1 .. n /\ i <= Upto(w[a])
    OBVIOUS
  <2>4. CASE a = 1
    BY <1>3, <1>10, <2>3, <2>4
  <2>5. CASE a # 1
    <3>1. a - 1 \in 1 .. n /\ a - 1 \in 1 .. n - 1 /\ (a - 1) + 1 = a
      BY <1>4, <2>3, <2>5
    <3>2. a - 1 \notin T
      <4> HIDE DEF T
      <4> QED BY <2>2, <2>3
    <3>3. Upto(w[a - 1]) < i
      BY <1>5, <3>1, <3>2
    <3>4. Skip(w[a]) = Upto(w[a - 1])
      BY <1>6, <3>1
    <3> QED BY <2>3, <3>3, <3>4
  <2> QED BY <2>4, <2>5
<1> QED BY <1>3, <1>4, <1>5, <1>8, <1>10 DEF w, n

\* Where no link leads back from, a collection begins.
LEMMA PreviousEnds ==
    ASSUME count \in Nat, NEW q, Shown(q), Skip(q) < count, q.top < count \/ Skip(q) = 0,
           PrevPage(q) = {}
    PROVE  Skip(q) = 0
<1> SUFFICES ASSUME Skip(q) # 0, ~HasLinks(q) PROVE FALSE
  BY DEF PrevPage
<1>1. q.skip # Absent
  BY DEF Skip
<1>2. ~(q.top = Absent \/ q.top < count)
  BY <1>1 DEF HasLinks
<1> QED BY <1>2

\* The previous pages show what comes before a page ends, each item once.
LEMMA PreviousPages ==
    ASSUME count \in Nat, NEW q, Shown(q), Skip(q) < count, q.top < count \/ Skip(q) = 0
    PROVE  LET w == Walk(q, FALSE) IN
           /\ w \in Seq(PageQuery) /\ Len(w) > 0 /\ w[1] = q /\ \A a \in DOMAIN w : Shown(w[a])
           /\ \A a, b \in DOMAIN w : a < b => Upto(w[b]) <= Skip(w[a])
           /\ \A i \in 1 .. count : i <= Upto(q) =>
                 \E a \in DOMAIN w : Skip(w[a]) < i /\ i <= Upto(w[a])
<1> DEFINE S == {p \in PageQuery : Shown(p) /\ Skip(p) < count /\ (p = q \/ HasLinks(p))}
           w == Walk(q, FALSE)
<1>1. \A p \in S : Link(p, FALSE) \subseteq S
  <2> SUFFICES ASSUME NEW p \in S, NEW x \in PrevPage(p) PROVE x \in S
    BY DEF Link
  <2>1. Shown(p) /\ Skip(p) < count
    OBVIOUS
  <2>2. Shown(x) /\ Skip(x) < Skip(p) /\ HasLinks(x)
    BY <2>1, PreviousStep
  <2>3. x \in PageQuery /\ Skip(x) < count
    BY <2>1, <2>2 DEF Shown
  <2> QED BY <2>2, <2>3
<1>2. q \in S
  BY DEF Shown
<1>3. /\ w \in Seq(S) /\ Len(w) > 0 /\ w[1] = q
      /\ \A j \in 1 .. Len(w) - 1 : w[j + 1] \in PrevPage(w[j])
      /\ Len(w) = count + 1 \/ PrevPage(w[Len(w)]) = {}
  <2> HIDE DEF S
  <2>1. /\ w \in Seq(S) /\ Len(w) > 0 /\ w[1] = q
        /\ \A j \in 1 .. Len(w) - 1 : w[j + 1] \in Link(w[j], FALSE)
        /\ Len(w) = count + 1 \/ Link(w[Len(w)], FALSE) = {}
    BY <1>1, <1>2, WalkFacts
  <2> QED BY <2>1 DEF Link
<1> HIDE DEF w
<1> DEFINE n == Len(w)
           f == [j \in 1 .. n |-> 0 - Skip(w[j])]
<1>4. /\ w \in Seq(PageQuery) /\ n \in Nat /\ n > 0 /\ DOMAIN w = 1 .. n
      /\ \A a \in 1 .. n : w[a] \in S
      /\ \A j \in 1 .. n - 1 : w[j + 1] \in PrevPage(w[j])
  BY <1>3
<1>5. \A a \in 1 .. n : /\ Shown(w[a]) /\ Skip(w[a]) \in Nat /\ Upto(w[a]) \in Nat
                        /\ Skip(w[a]) < Upto(w[a]) /\ Skip(w[a]) < count
                        /\ w[a] = q \/ HasLinks(w[a])
  BY <1>4 DEF Shown, Upto
<1>6. \A j \in 1 .. n - 1 : Upto(w[j + 1]) = Skip(w[j])
  <2> TAKE j \in 1 .. n - 1
  <2> HIDE DEF S, n
  <2>1. j \in 1 .. n /\ w[j + 1] \in PrevPage(w[j])
    BY <1>4
  <2>2. Shown(w[j]) /\ Skip(w[j]) < count
    BY <1>5, <2>1
  <2> QED BY <2>1, <2>2, PreviousStep
<1> HIDE DEF S, n
<1>7. \A a, b \in 1 .. n : a <= b => Skip(w[b]) + (b - a) <= Skip(w[a])
  <2>1. f \in [1 .. n -> Int] /\ \A j \in 1 .. n - 1 : f[j] < f[j + 1]
    <3>1. f \in [1 .. n -> Int]
      BY <1>5
    <3>2. ASSUME NEW j \in 1 .. n - 1 PROVE f[j] < f[j + 1]
      <4>1. j \in 1 .. n /\ j + 1 \in 1 .. n
        BY <1>4
      <4> QED BY <1>5, <1>6, <4>1
    <3> QED BY <3>1, <3>2
  <2>2. \A j, h \in 1 .. n : j <= h => f[j] + (h - j) <= f[h]
    <3> HIDE DEF f
    <3> QED BY <1>4, <2>1, Climbs
  <2> QED BY <1>5, <2>2
<1>8. ASSUME NEW a \in 1 .. n, NEW b \in 1 .. n, a < b PROVE Upto(w[b]) <= Skip(w[a])
  <2>1. b - 1 \in 1 .. n /\ b - 1 \in 1 .. n - 1 /\ a <= b - 1 /\ (b - 1) + 1 = b
    BY <1>4, <1>8
  <2>2. Skip(w[b - 1]) + ((b - 1) - a) <= Skip(w[a]) /\ Upto(w[b]) = Skip(w[b - 1])
    BY <1>6, <1>7, <2>1
  <2> QED BY <1>5, <1>8, <2>1, <2>2
<1>9. Skip(w[n]) = 0
  <2>1. n \in 1 .. n /\ 1 \in 1 .. n
    BY <1>4
  <2>2. CASE PrevPage(w[n]) = {}
    <3>1. CASE w[n] = q
      BY <2>2, <3>1, PreviousEnds
    <3>2. CASE HasLinks(w[n])
      BY <2>2, <3>2 DEF PrevPage
    <3> QED BY <1>5, <2>1, <3>1, <3>2
  <2>3. CASE n = count + 1
    <3>1. Skip(w[n]) + (n - 1) <= Skip(w[1])
      BY <1>4, <1>7, <2>1
    <3>2. Skip(w[n]) \in Nat /\ Skip(w[1]) \in Nat /\ Skip(w[1]) < count
      BY <1>5, <2>1
    <3> QED BY <2>3, <3>1, <3>2
  <2> QED BY <1>3, <2>2, <2>3 DEF n
<1>10. ASSUME NEW i \in 1 .. count, i <= Upto(q)
       PROVE  \E a \in 1 .. n : Skip(w[a]) < i /\ i <= Upto(w[a])
  <2> DEFINE T == {a \in 1 .. n : Skip(w[a]) < i}
  <2>1. n \in T
    BY <1>4, <1>9
  <2>2. PICK a \in T : \A b \in T : a <= b
    <3>1. T \in SUBSET Nat /\ T # {}
      BY <2>1
    <3> HIDE DEF T
    <3> QED BY <3>1, LeastNumber
  <2>3. a \in 1 .. n /\ Skip(w[a]) < i
    OBVIOUS
  <2>4. CASE a = 1
    BY <1>3, <1>10, <2>3, <2>4
  <2>5. CASE a # 1
    <3>1. a - 1 \in 1 .. n /\ a - 1 \in 1 .. n - 1 /\ (a - 1) + 1 = a
      BY <1>4, <2>3, <2>5
    <3>2. a - 1 \notin T
      <4> HIDE DEF T
      <4> QED BY <2>2, <2>3
    <3>3. i <= Skip(w[a - 1])
      BY <1>5, <3>1, <3>2
    <3>4. Upto(w[a]) = Skip(w[a - 1])
      BY <1>6, <3>1
    <3> QED BY <2>3, <3>3, <3>4
  <2> QED BY <2>4, <2>5
<1> QED BY <1>3, <1>4, <1>5, <1>8, <1>10 DEF w, n

\* Each item is on exactly one of the pages before q, q itself and the pages after it.
LEMMA ShownOnce ==
    ASSUME count \in Nat, NEW q \in Query, Linked(q), NEW i \in 1 .. count
    PROVE  LET pages == Walk(q, FALSE) \o Tail(Walk(q, TRUE)) IN
           Cardinality({n \in DOMAIN pages : i \in Listed(pages[n])}) = 1
<1> DEFINE back == Walk(q, FALSE)
           ahead == Walk(q, TRUE)
           pages == back \o Tail(ahead)
           b == Len(back)
           On(p) == Skip(p) < i /\ i <= Upto(p)
<1>1. Shown(q) /\ Skip(q) < count /\ (q.top < count \/ Skip(q) = 0)
  BY AskedShown DEF Linked
<1>2. /\ back \in Seq(PageQuery) /\ Len(back) > 0 /\ back[1] = q
      /\ \A a \in DOMAIN back : Shown(back[a])
      /\ \A a, h \in DOMAIN back : a < h => Upto(back[h]) <= Skip(back[a])
      /\ i <= Upto(q) => \E a \in DOMAIN back : On(back[a])
  BY <1>1, PreviousPages
<1>3. /\ ahead \in Seq(PageQuery) /\ Len(ahead) > 0 /\ ahead[1] = q
      /\ \A a \in DOMAIN ahead : Shown(ahead[a])
      /\ \A a, h \in DOMAIN ahead : a < h => Upto(ahead[a]) <= Skip(ahead[h])
      /\ Skip(q) < i => \E a \in DOMAIN ahead : On(ahead[a])
  BY <1>1, NextPages
<1> HIDE DEF back, ahead
<1>4. /\ b \in Nat /\ Len(ahead) \in Nat
      /\ DOMAIN back = 1 .. b /\ DOMAIN ahead = 1 .. Len(ahead)
      /\ Tail(ahead) \in Seq(PageQuery) /\ Len(Tail(ahead)) = Len(ahead) - 1
      /\ \A a \in 1 .. Len(ahead) - 1 : Tail(ahead)[a] = ahead[a + 1]
  BY <1>2, <1>3
<1>5. /\ DOMAIN pages = 1 .. b + Len(ahead) - 1
      /\ \A n \in 1 .. b : pages[n] = back[n]
      /\ \A n \in b + 1 .. b + Len(ahead) - 1 : pages[n] = Tail(ahead)[n - b]
  BY <1>2, <1>4
<1> HIDE DEF pages, b
<1>6. \A n \in b + 1 .. b + Len(ahead) - 1 :
         n - b + 1 \in 2 .. Len(ahead) /\ pages[n] = ahead[n - b + 1]
  BY <1>4, <1>5
<1>7. \A n \in DOMAIN pages : n \in 1 .. b \/ n \in b + 1 .. b + Len(ahead) - 1
  BY <1>4, <1>5
<1>8. \A n \in DOMAIN pages : Shown(pages[n])
  <2> TAKE n \in DOMAIN pages
  <2>1. CASE n \in 1 .. b
    BY <1>2, <1>4, <1>5, <2>1
  <2>2. CASE n \in b + 1 .. b + Len(ahead) - 1
    <3>1. n - b + 1 \in DOMAIN ahead /\ pages[n] = ahead[n - b + 1]
      BY <1>4, <1>6, <2>2
    <3> QED BY <1>3, <3>1
  <2> QED BY <1>7, <2>1, <2>2
<1>9. \A n \in DOMAIN pages : i \in Listed(pages[n]) <=> On(pages[n])
  <2> TAKE n \in DOMAIN pages
  <2>1. Shown(pages[n])
    BY <1>8
  <2>2. Listed(pages[n]) = {h \in 1 .. count : Skip(pages[n]) < h /\ h <= Upto(pages[n])}
    BY <2>1, ListedBetween
  <2> QED BY <2>2
<1>10. \A p : Shown(p) => Skip(p) \in Nat /\ Upto(p) \in Nat /\ Skip(p) < Upto(p)
  BY DEF Shown, Upto
<1> HIDE DEF On
<1>11. \E n \in DOMAIN pages : On(pages[n])
  <2>1. CASE i <= Upto(q)
    <3>1. PICK a \in 1 .. b : On(back[a])
      BY <1>2, <1>4, <2>1
    <3>2. a \in DOMAIN pages /\ pages[a] = back[a]
      BY <1>3, <1>4, <1>5, <3>1
    <3> QED BY <3>1, <3>2
  <2>2. CASE ~(i <= Upto(q))
    <3>1. Skip(q) < i
      BY <1>1, <1>10, <2>2
    <3>2. PICK a \in 1 .. Len(ahead) : On(ahead[a])
      BY <1>3, <1>4, <3>1
    <3>3. a # 1
      BY <1>3, <2>2, <3>2 DEF On
    <3>4. b + a - 1 \in b + 1 .. b + Len(ahead) - 1 /\ (b + a - 1) - b + 1 = a
          /\ b + a - 1 \in DOMAIN pages
      BY <1>4, <1>5, <3>3
    <3>5. pages[b + a - 1] = ahead[a]
      BY <1>6, <3>4
    <3> QED BY <3>2, <3>4, <3>5
  <2> QED BY <2>1, <2>2
<1>12. ASSUME NEW n \in DOMAIN pages, NEW m \in DOMAIN pages, n < m
       PROVE  Upto(pages[n]) <= Skip(pages[m]) \/ Upto(pages[m]) <= Skip(pages[n])
  <2>1. CASE n \in 1 .. b /\ m \in 1 .. b
    BY <1>2, <1>4, <1>5, <1>12, <2>1
  <2>2. CASE n \in b + 1 .. b + Len(ahead) - 1 /\ m \in b + 1 .. b + Len(ahead) - 1
    <3>1. n - b + 1 \in DOMAIN ahead /\ m - b + 1 \in DOMAIN ahead /\ n - b + 1 < m - b + 1
      BY <1>4, <1>6, <1>12, <2>2
    <3> QED BY <1>3, <1>6, <2>2, <3>1
  <2>3. CASE n \in 1 .. b /\ m \in b + 1 .. b + Len(ahead) - 1
    <3>1. Upto(back[n]) <= Upto(q)
      <4>1. n = 1 \/ 1 < n
        BY <2>3
      <4>2. 1 < n => Upto(back[n]) <= Skip(q)
        BY <1>2, <1>4, <2>3
      <4>3. Shown(back[n])
        BY <1>2, <1>4, <2>3
      <4> QED BY <1>1, <1>2, <1>10, <4>1, <4>2, <4>3
    <3>2. Upto(q) <= Skip(pages[m])
      <4>1. m - b + 1 \in DOMAIN ahead /\ 1 \in DOMAIN ahead /\ 1 < m - b + 1
        BY <1>3, <1>4, <1>6, <2>3
      <4> QED BY <1>3, <1>6, <2>3, <4>1
    <3>3. Shown(back[n]) /\ Shown(pages[m]) /\ pages[n] = back[n]
      BY <1>2, <1>4, <1>5, <1>8, <2>3
    <3> QED BY <1>1, <1>10, <3>1, <3>2, <3>3
  <2>4. ~(n \in b + 1 .. b + Len(ahead) - 1 /\ m \in 1 .. b)
    BY <1>4, <1>12
  <2> QED BY <1>7, <2>1, <2>2, <2>3, <2>4
<1>13. ASSUME NEW n \in DOMAIN pages, NEW m \in DOMAIN pages, On(pages[n]), On(pages[m])
       PROVE  n = m
  <2>1. ASSUME NEW h \in DOMAIN pages, NEW k \in DOMAIN pages, h < k,
               On(pages[h]), On(pages[k])
        PROVE  FALSE
    <3>1. Upto(pages[h]) <= Skip(pages[k]) \/ Upto(pages[k]) <= Skip(pages[h])
      BY <1>12, <2>1
    <3>2. Shown(pages[h]) /\ Shown(pages[k])
      BY <1>8
    <3> QED BY <1>10, <2>1, <3>1, <3>2 DEF On
  <2>2. n \in Int /\ m \in Int
    BY <1>4, <1>5
  <2> QED BY <1>13, <2>1, <2>2
<1>14. PICK n \in DOMAIN pages : On(pages[n])
  BY <1>11
<1>15. {m \in DOMAIN pages : i \in Listed(pages[m])} = {n}
  BY <1>9, <1>13, <1>14
<1>16. Cardinality({m \in DOMAIN pages : i \in Listed(pages[m])}) = 1
  BY <1>15, FS_Singleton
<1> QED BY <1>16 DEF pages, back, ahead

\* The first page and the last one.
LEMMA EndsShown ==
    ASSUME count \in Nat, NEW q \in Query, Linked(q)
    PROVE  1 \in Listed(FirstPage(q)) /\ count \in Listed(LastPage(q))
<1>1. Shown(q) /\ Skip(q) \in Nat /\ Top(q) \in Nat \ {0} /\ Skip(q) < count
  BY AskedShown DEF Shown
<1>2. 1 \in Listed(FirstPage(q))
  <2> DEFINE t == IF Skip(q) # 0 /\ Skip(q) < Top(q) THEN Skip(q) ELSE Top(q)
             p == FirstPage(q)
  <2>1. t \in Nat \ {0} /\ p = [skip |-> 0, top |-> t]
    BY <1>1 DEF FirstPage
  <2> HIDE DEF t, p
  <2>2. p \in PageQuery /\ p.skip = 0 /\ p.top = t
    BY <2>1 DEF PageQuery
  <2>3. Skip(p) = 0 /\ Top(p) = t
    BY <2>1, <2>2 DEF Skip, Top, Absent
  <2>4. Shown(p) /\ Upto(p) = t
    BY <2>1, <2>2, <2>3 DEF Shown, Upto
  <2>5. Listed(p) = {i \in 1 .. count : Skip(p) < i /\ i <= Upto(p)}
    BY <2>4, ListedBetween
  <2>6. 1 \in Listed(p)
    BY <1>1, <2>1, <2>3, <2>4, <2>5
  <2> QED BY <2>6 DEF p
<1>3. LastSkip(q) \in Nat /\ LastSkip(q) < count /\ count <= LastSkip(q) + Top(q)
  <2>1. CASE Skip(q) + Top(q) = count
    BY <1>1, <2>1 DEF LastSkip
  <2>2. CASE Skip(q) + Top(q) # count
    <3> DEFINE k == (count + Top(q) - 1) \div Top(q)
    <3>1. k \in Nat /\ count <= k * Top(q) /\ k * Top(q) - Top(q) < count
      BY <1>1, RoundUp
    <3>2. LastSkip(q) = (k - 1) * Top(q)
      BY <2>2 DEF LastSkip
    <3> HIDE DEF k
    <3>3. k # 0
      BY <1>1, <3>1
    <3>4. k - 1 \in Nat /\ (k - 1) * Top(q) = k * Top(q) - Top(q)
      BY <1>1, <3>1, <3>3
    <3>5. (k - 1) * Top(q) \in Nat
      BY <1>1, <3>4
    <3> QED BY <1>1, <3>1, <3>2, <3>4, <3>5
  <2> QED BY <2>1, <2>2
<1>4. count \in Listed(LastPage(q))
  <2> DEFINE p == LastPage(q)
  <2>1. p = [skip |-> LastSkip(q), top |-> Top(q)]
    BY DEF LastPage
  <2> HIDE DEF p
  <2>2. p \in PageQuery /\ p.skip = LastSkip(q) /\ p.top = Top(q)
    BY <1>1, <1>3, <2>1 DEF PageQuery
  <2>3. Skip(p) = LastSkip(q) /\ Top(p) = Top(q)
    BY <1>1, <1>3, <2>2 DEF Skip, Top, Absent
  <2>4. Shown(p) /\ Upto(p) = LastSkip(q) + Top(q)
    BY <1>1, <1>3, <2>2, <2>3 DEF Shown, Upto
  <2>5. Listed(p) = {i \in 1 .. count : Skip(p) < i /\ i <= Upto(p)}
    BY <2>4, ListedBetween
  <2>6. count \in Listed(p)
    BY <1>1, <1>3, <2>3, <2>4, <2>5
  <2> QED BY <2>6 DEF p
<1> QED BY <1>2, <1>4

\* However many pollers there are.
LEMMA PagesOfAnyCount == ASSUME IsFiniteSet(pollers) PROVE PagesPartition
<1>1. count \in Nat
  BY FS_CardinalityType DEF count
<1> HIDE DEF count
<1>2. ASSUME NEW q \in Query, Linked(q), NEW i \in 1 .. count
      PROVE  LET pages == Walk(q, FALSE) \o Tail(Walk(q, TRUE)) IN
             Cardinality({n \in DOMAIN pages : i \in Listed(pages[n])}) = 1
  BY <1>1, <1>2, ShownOnce
<1>3. ASSUME NEW q \in Query, Linked(q)
      PROVE  1 \in Listed(FirstPage(q)) /\ count \in Listed(LastPage(q))
  BY <1>1, <1>3, EndsShown
<1> QED BY <1>2, <1>3 DEF PagesPartition

\* Whatever skip and top a client begins with, and however many pollers there are, the
\* pages before along the previous links and those after along the next ones show every
\* item exactly once; the first and the last page show the first and the last item.
THEOREM PagesAlwaysPartition == PollersSpec => []PagesPartition
<1>1. PollersInit => IsFiniteSet(pollers)
  BY DEF PollersInit
<1>2. IsFiniteSet(pollers) /\ [PollersNext]_pvars => IsFiniteSet(pollers)'
  <2> SUFFICES ASSUME IsFiniteSet(pollers), [PollersNext]_pvars PROVE IsFiniteSet(pollers')
    OBVIOUS
  <2>1. ASSUME NEW p, postPollers(p) PROVE IsFiniteSet(pollers')
    BY <2>1, FS_AddElement DEF postPollers
  <2>2. ASSUME NEW p, NEW pause, patchPollersById(p, pause) PROVE IsFiniteSet(pollers')
    BY <2>2 DEF patchPollersById
  <2>3. ASSUME NEW p, deletePollersById(p) PROVE IsFiniteSet(pollers')
    BY <2>3, FS_RemoveElement DEF deletePollersById
  <2>4. CASE UNCHANGED pvars
    BY <2>4 DEF pvars
  <2> QED BY <2>1, <2>2, <2>3, <2>4 DEF PollersNext
<1>3. IsFiniteSet(pollers) => PagesPartition
  BY PagesOfAnyCount
<1> QED BY <1>1, <1>2, <1>3, PTL DEF PollersSpec
-----------------------------------------------------------------------------
(* The links of the Redfish tree                                           *)

\* The catalogs that discovery will have stored of the node.
Due(sources) == box.node /\ sources \subseteq box.expected

Kinds ==
    {"Root", "Systems", "System", "Processors", "Processor", "Nics", "Nic", "BiosSettings",
     "SimpleStorages", "SimpleStorage", "Storages", "Storage", "Drive", "Volumes", "Volume",
     "Logs", "Sel", "SelEntries", "SelEntry", "Lc", "LcEntries", "LcEntry", "Managers",
     "Manager", "Protocol", "ManagerNics", "ManagerNic", "LocalNics", "LocalNic", "Serials",
     "Serial", "ChassisList", "Chassis", "Thermal", "Power", "UpdateService", "FirmwareList",
     "Firmware", "Software", "DCIMs", "Domain", "DCIMType", "DCIM", "NetworkDevice"}

SocketsListed == IF Vendor \in {"Dell", "Cisco"} THEN Populated ELSE Len(Spliced(Machine.sockets))

\* What a page that shows a link promises: a property of the box, whatever is stored.
PromisedSystem(l) ==
    /\ l[1] \in {"System", "Logs"} => box.node
    /\ l[1] = "Processors" => box.node /\ Vendor # "Redfish"
    /\ l[1] = "Processor" => box.node /\ Vendor # "Redfish" /\ l[2] \in 1 .. SocketsListed
    /\ l[1] = "Nics" => box.node /\ Vendor # "Redfish"
    /\ l[1] = "Nic" => Due(NicSource) /\ l[2] \in Machine.nics
    /\ l[1] = "BiosSettings" => IsDell /\ Due({"bios"})
    /\ l[1] = "Sel" => box.node
    /\ l[1] = "SelEntries" => Due(LogSource)
    /\ l[1] = "SelEntry" => Due(LogSource) /\ l[2] \in Machine.log
    /\ l[1] = "Lc" => box.node /\ IsDell
    /\ l[1] = "LcEntries" => IsDell /\ Due({"obms"})
    /\ l[1] = "LcEntry" => IsDell /\ Due({"obms"}) /\ l[2] \in Machine.log

PromisedStorage(l) ==
    /\ l[1] = "SimpleStorages" => box.node
    /\ l[1] = "SimpleStorage" =>
          IF Vendor \in {"Dell", "Cisco"}
          THEN l[2] \in Machine.controllers /\ Due({IF Vendor = "Dell" THEN "hardware" ELSE "UCS:board"})
          ELSE l[2] \in SmartControllers /\ Due({"dmi", "smart"})
    /\ l[1] = "Storages" => box.node /\ Vendor \in {"Dell", "Cisco"}
    /\ l[1] = "Storage" =>
          IF IsDell THEN Due({"hardware"})
          ELSE \/ l[2] \in Machine.ownIds /\ Due({"Redfish"})
               \/ l[2] \in SmartControllers /\ Due({"dmi", "smart"})
    /\ l[1] = "Drive" =>
          /\ l[3] \in DOMAIN Machine.drives
          /\ IF IsDell THEN Due({"hardware"})
             ELSE \/ l[2] \in Machine.ownIds
                  \/ Due({"smart"}) /\ Machine.drives[l[3]].controller = l[2]
    /\ l[1] = "Volumes" => IsDell /\ Due({"hardware"})
    /\ l[1] = "Volume" => IsDell /\ Due({"hardware"}) /\ l[3] \in DOMAIN Machine.volumes

\* getFwCollections, once all is stored.
PartsDue(application) ==
    Only(Due({"software"}), {f.kind : f \in {f \in Machine.software : f.application = application}})
    \cup Only(~application /\ Due({"dmi"}), {"BIOS"})
    \cup Only(~application /\ Due({"ipmi-mc-info"}), {"BMC"})
    \cup Only(~application /\ Due({"smart"}), {"Disk"})

PromisedOther(l) ==
    /\ l[1] = "Manager" => l[2] = "RackHD" \/ box.node
    /\ l[1] = "Protocol" => l[2] = "RackHD"
    /\ l[1] \in {"ManagerNics", "ManagerNic"} => box.node
    /\ l[1] = "Serials" => box.node /\ ~IsDell
    /\ l[1] = "Serial" => ~IsDell /\ Due({"dmi"}) /\ l[2] \in Machine.ports
    /\ l[1] = "Chassis" => box.enclosure # "none"
    /\ l[1] \in {"Thermal", "Power"} => Enclosed
    /\ l[1] = "Firmware" => l[2] \in PartsDue(FALSE)
    /\ l[1] = "Software" => l[2] \in PartsDue(TRUE)
    /\ l[1] \in {"DCIMs", "Domain", "DCIMType"} => l[2] \in {"power", "cooling"}
    /\ l[1] = "DCIM" => l[2] \in box.expected

Promised(l) == l[1] \in Kinds /\ PromisedSystem(l) /\ PromisedStorage(l) /\ PromisedOther(l)

WalkInv ==
    /\ box \in Box /\ present \subseteq box.expected
    /\ \A l \in shown : Promised(l)

LEMMA VendorKnown ==
    ASSUME box \in Box
    PROVE  /\ Vendor \in {"Dell", "Cisco", "Redfish", "other"}
           /\ Vendor = "Dell" => IsDell
           /\ Vendor = "other" => ~IsDell
<1> DEFINE named == {i \in 1 .. Len(box.ids) : box.ids[i] # "mac"}
<1>1. box.ids \in Seq({"mac", "Dell", "Cisco", "Redfish"})
  BY BoxAssumption
<1>2. CASE named = {}
  <2>1. Vendor = "other"
    BY <1>2 DEF Vendor, VendorOf, SelectInSeq
  <2>2. \A i \in DOMAIN box.ids : box.ids[i] = "mac"
    BY <1>1, <1>2
  <2>3. ~IsDell
    BY <2>2 DEF IsDell, DellIn, ToSet
  <2> QED BY <2>1, <2>3
<1>3. CASE named # {}
  <2> DEFINE first == Min(named)
  <2>1. first \in named
    <3>1. PICK i \in named : \A j \in named : i <= j
      <4>1. named \in SUBSET Nat
        OBVIOUS
      <4> HIDE DEF named
      <4> QED BY <1>3, <4>1, LeastNumber
    <3> HIDE DEF named
    <3> QED BY <3>1 DEF Min
  <2>2. first # 0 /\ first \in DOMAIN box.ids /\ box.ids[first] # "mac"
    <3> HIDE DEF first
    <3> QED BY <1>1, <2>1
  <2>3. Vendor = box.ids[first]
    <3>1. SelectInSeq(box.ids, LAMBDA id : id # "mac") = first
      BY <1>3 DEF SelectInSeq
    <3> HIDE DEF first
    <3> QED BY <2>2, <3>1 DEF Vendor, VendorOf
  <2> HIDE DEF first, named
  <2>4. box.ids[first] \in {"Dell", "Cisco", "Redfish"}
    BY <1>1, <2>2
  <2> QED BY <2>2, <2>3, <2>4 DEF IsDell, DellIn, ToSet
<1> QED BY <1>2, <1>3

\* Taking one element out of a sequence.
LEMMA TakenOut ==
    ASSUME NEW S, NEW s \in Seq(S), NEW i \in 1 .. Len(s)
    PROVE  /\ RemoveAt(s, i) \in Seq(S) /\ Len(RemoveAt(s, i)) = Len(s) - 1
           /\ \A j \in 1 .. i - 1 : RemoveAt(s, i)[j] = s[j]
           /\ \A j \in i .. Len(s) - 1 : RemoveAt(s, i)[j] = s[j + 1]
<1> DEFINE a == SubSeq(s, 1, i - 1)
           b == SubSeq(s, i + 1, Len(s))
           r == RemoveAt(s, i)
<1>1. a \in Seq(S) /\ Len(a) = i - 1 /\ \A j \in 1 .. i - 1 : a[j] = s[j]
  OBVIOUS
<1>2. b \in Seq(S) /\ Len(b) = Len(s) - i /\ \A j \in 1 .. Len(s) - i : b[j] = s[i + j]
  OBVIOUS
<1>3. r = a \o b
  BY DEF RemoveAt
<1> HIDE DEF a, b, r
<1>4. r \in Seq(S) /\ Len(r) = Len(s) - 1
  BY <1>1, <1>2, <1>3
<1>5. ASSUME NEW j \in 1 .. i - 1 PROVE r[j] = s[j]
  BY <1>1, <1>2, <1>3
<1>6. ASSUME NEW j \in i .. Len(s) - 1 PROVE r[j] = s[j + 1]
  <2>1. j - (i - 1) \in 1 .. Len(s) - i /\ i + (j - (i - 1)) = j + 1
    OBVIOUS
  <2>2. r[j] = b[j - (i - 1)]
    BY <1>1, <1>2, <1>3, <2>1
  <2> QED BY <1>2, <2>1, <2>2
<1> QED BY <1>4, <1>5, <1>6 DEF r

\* Taking out an empty socket.
LEMMA EmptySocketOut ==
    ASSUME NEW s \in Seq(BOOLEAN), NEW i \in 1 .. Len(s), ~s[i], NEW j \in 1 .. Len(s), s[j]
    PROVE  \E h \in 1 .. Len(s) - 1 : RemoveAt(s, i)[h]
<1>1. j # i
  OBVIOUS
<1>2. CASE j \in 1 .. i - 1
  <2>1. j \in 1 .. Len(s) - 1
    BY <1>2
  <2>2. RemoveAt(s, i)[j] = s[j]
    BY <1>2, TakenOut
  <2> QED BY <2>1, <2>2, Zenon
<1>3. CASE j - 1 \in i .. Len(s) - 1
  <2>1. (j - 1) + 1 = j /\ j - 1 \in 1 .. Len(s) - 1
    BY <1>3
  <2>2. RemoveAt(s, i)[j - 1] = s[j]
    BY <1>3, <2>1, TakenOut
  <2> QED BY <2>1, <2>2, Zenon
<1> QED BY <1>1, <1>2, <1>3

\* Another turn of the loop over the sockets.
NextSocket(s, i) == IF i <= Len(s) /\ ~s[i] THEN RemoveAt(s, i) ELSE s

LEMMA SplicedGrows ==
    ASSUME NEW sockets \in Seq(BOOLEAN)
    PROVE  \E list : /\ list[0] = sockets
                     /\ \A i \in 1 .. Len(sockets) : list[i] = NextSocket(list[i - 1], i)
                     /\ Spliced(sockets) = list[Len(sockets)]
<1> DEFINE Is(list, n) ==
             list = [i \in 0 .. n |-> IF i = 0 THEN sockets ELSE NextSocket(list[i - 1], i)]
           Bad == {n \in Nat : ~ \E list : Is(list, n)}
<1>1. Bad = {}
  <2> SUFFICES ASSUME Bad # {} PROVE FALSE
    OBVIOUS
  <2>1. PICK n \in Bad : \A m \in Bad : n <= m
    <3>1. Bad \in SUBSET Nat
      OBVIOUS
    <3> HIDE DEF Bad
    <3> QED BY <3>1, LeastNumber
  <2>2. n # 0
    <3> DEFINE list == [i \in 0 .. 0 |-> sockets]
    <3>1. Is(list, 0)
      OBVIOUS
    <3> QED BY <3>1
  <2>3. n \in Nat /\ n - 1 \in Nat /\ n - 1 \notin Bad
    <3>1. n \in Nat
      OBVIOUS
    <3> HIDE DEF Bad
    <3> QED BY <2>1, <2>2, <3>1
  <2>4. PICK list : Is(list, n - 1)
    BY <2>3
  <2> DEFINE more == [i \in 0 .. n |-> IF i = n THEN NextSocket(list[n - 1], n) ELSE list[i]]
  <2>5. Is(more, n)
    <3>1. ASSUME NEW i \in 0 .. n
          PROVE  more[i] = IF i = 0 THEN sockets ELSE NextSocket(more[i - 1], i)
      <4>1. i # 0 => more[i - 1] = list[i - 1]
        BY <2>3
      <4>2. i # 0 => NextSocket(more[i - 1], i) = NextSocket(list[i - 1], i)
        <5> HIDE DEF more
        <5> QED BY <4>1
      <4>3. CASE i = n
        <5>1. more[i] = NextSocket(list[n - 1], n)
          BY <4>3
        <5> HIDE DEF more
        <5> QED BY <2>2, <4>2, <4>3, <5>1
      <4>4. CASE i # n
        <5>1. more[i] = list[i] /\ i \in 0 .. n - 1
          BY <2>3, <4>4
        <5>2. list[i] = IF i = 0 THEN sockets ELSE NextSocket(list[i - 1], i)
          BY <2>4, <5>1
        <5> HIDE DEF more
        <5> QED BY <4>2, <5>1, <5>2
      <4> QED BY <4>3, <4>4
    <3>2. more = [i \in 0 .. n |-> more[i]]
      OBVIOUS
    <3> HIDE DEF more
    <3> QED BY <3>1, <3>2
  <2> QED BY <2>1, <2>3, <2>5
<1>2. Len(sockets) \in Nat
  OBVIOUS
<1>3. \E list : Is(list, Len(sockets))
  <2>1. Len(sockets) \notin Bad
    BY <1>1
  <2> QED BY <1>2, <2>1
<1> DEFINE list == CHOOSE list : Is(list, Len(sockets))
<1>4. Is(list, Len(sockets))
  BY <1>3
<1>5. Spliced(sockets) = list[Len(sockets)]
  BY DEF Spliced, NextSocket
<1> HIDE DEF list
<1>6. list[0] = sockets /\ \A i \in 1 .. Len(sockets) : list[i] = NextSocket(list[i - 1], i)
  BY <1>2, <1>4
<1> QED BY <1>5, <1>6

\* The list of processors is not longer than the sockets, and not empty if one is populated.
LEMMA SplicedList ==
    ASSUME NEW sockets \in Seq(BOOLEAN)
    PROVE  /\ Len(Spliced(sockets)) \in Nat /\ Len(Spliced(sockets)) <= Len(sockets)
           /\ (\E i \in DOMAIN sockets : sockets[i]) => Spliced(sockets) # <<>>
<1> DEFINE Good(s) == /\ s \in Seq(BOOLEAN) /\ Len(s) <= Len(sockets)
                      /\ (\E i \in DOMAIN sockets : sockets[i]) => \E i \in 1 .. Len(s) : s[i]
<1>1. ASSUME NEW s, Good(s), NEW i \in Nat \ {0} PROVE Good(NextSocket(s, i))
  <2>1. CASE i <= Len(s) /\ ~s[i]
    <3>1. s \in Seq(BOOLEAN) /\ i \in 1 .. Len(s)
      BY <1>1, <2>1
    <3>2. /\ RemoveAt(s, i) \in Seq(BOOLEAN) /\ Len(RemoveAt(s, i)) = Len(s) - 1
          /\ (\E j \in 1 .. Len(s) : s[j]) => \E j \in 1 .. Len(s) - 1 : RemoveAt(s, i)[j]
      BY <2>1, <3>1, TakenOut, EmptySocketOut
    <3>3. Len(s) - 1 <= Len(sockets) /\ NextSocket(s, i) = RemoveAt(s, i)
      BY <1>1, <2>1 DEF NextSocket
    <3> QED BY <1>1, <3>2, <3>3
  <2>2. CASE ~(i <= Len(s) /\ ~s[i])
    BY <1>1, <2>2 DEF NextSocket
  <2> QED BY <2>1, <2>2
<1>2. PICK list : /\ list[0] = sockets
                  /\ \A i \in 1 .. Len(sockets) : list[i] = NextSocket(list[i - 1], i)
                  /\ Spliced(sockets) = list[Len(sockets)]
  BY SplicedGrows
<1>3. Good(list[0])
  BY <1>2
<1> DEFINE Bad == {n \in 0 .. Len(sockets) : ~Good(list[n])}
<1> HIDE DEF Good
<1>4. Bad = {}
  <2> SUFFICES ASSUME Bad # {} PROVE FALSE
    OBVIOUS
  <2>1. PICK n \in Bad : \A m \in Bad : n <= m
    <3>1. Bad \in SUBSET Nat
      OBVIOUS
    <3> HIDE DEF Bad
    <3> QED BY <3>1, LeastNumber
  <2>2. n \in 1 .. Len(sockets) /\ ~Good(list[n])
    BY <1>3
  <2>3. n - 1 \in 0 .. Len(sockets) /\ n - 1 \notin Bad
    <3> HIDE DEF Bad
    <3> QED BY <2>1, <2>2
  <2>4. Good(list[n - 1]) /\ list[n] = NextSocket(list[n - 1], n)
    BY <1>2, <2>2, <2>3
  <2> QED BY <1>1, <2>2, <2>4
<1>5. Good(Spliced(sockets))
  <2>1. Len(sockets) \in 0 .. Len(sockets)
    OBVIOUS
  <2> QED BY <1>2, <1>4, <2>1
<1> QED BY <1>5 DEF Good

\* A page was rendered from what is stored, and discovery stores nothing else.
LEMMA StoredIsDue ==
    ASSUME present \subseteq box.expected, NEW sources, Stored(sources) PROVE Due(sources)
BY DEF Stored, Due

LEMMA SystemShows ==
    ASSUME box \in Box, present \subseteq box.expected, NEW links \in getSystem, NEW x \in links
    PROVE  Promised(x)
<1>1. box.node /\ Vendor # "Redfish"
  BY DEF getSystem, Page, Only, Stored
<1>2. x \in {<<"Processors">>, <<"Nics">>, <<"SimpleStorages">>, <<"Logs">>,
               <<"Manager", "n">>, <<"Manager", "RackHD">>}
              \cup Only(Vendor \in {"Dell", "Cisco"}, {<<"Storages">>})
              \cup Only(Enclosed, {<<"Chassis", "e">>})
  BY DEF getSystem, Page, Only
<1>3. CASE x[1] \in {"Processors", "Nics", "SimpleStorages", "Logs", "Manager"}
  BY <1>1, <1>3 DEF Promised, PromisedSystem, PromisedStorage, PromisedOther, Kinds
<1>4. CASE x[1] = "Storages" /\ Vendor \in {"Dell", "Cisco"}
  BY <1>1, <1>4 DEF Promised, PromisedSystem, PromisedStorage, PromisedOther, Kinds
<1>5. CASE x[1] = "Chassis" /\ Enclosed
  BY <1>1, <1>5 DEF Promised, PromisedSystem, PromisedStorage, PromisedOther, Kinds, Enclosed
<1> QED BY <1>2, <1>3, <1>4, <1>5 DEF Only

\* What is shown by the service root, the lists of systems, managers and chassis, the devices.
LEMMA TreeShows ==
    ASSUME box \in Box, present \subseteq box.expected, NEW links, NEW x \in links, NEW d, NEW k, NEW t
    PROVE  /\ links \in getServiceRoot => Promised(x)
           /\ links \in listSystems => Promised(x)
           /\ links \in listManagers => Promised(x)
           /\ links \in listChassis => Promised(x)
           /\ links \in getUpdateService => Promised(x)
           /\ links \in listNetworks => Promised(x)
           /\ links \in listDCIMDomainCollection(k) /\ k \in {"power", "cooling"} => Promised(x)
           /\ links \in listDCIMDomain(k, d) /\ k \in {"power", "cooling"} => Promised(x)
           /\ links \in listDCIMTypeCollection(k, d, t) /\ k \in {"power", "cooling"} => Promised(x)
<1>1. ASSUME links \in getServiceRoot PROVE Promised(x)
  <2>1. \/ x \in {<<"Systems">>, <<"Managers">>, <<"ChassisList">>, <<"UpdateService">>}
         \/ \E kind \in {"power", "cooling"} : x = <<"DCIMs", kind>>
    BY <1>1 DEF getServiceRoot, Page
  <2>2. CASE x \in {<<"Systems">>, <<"Managers">>, <<"ChassisList">>, <<"UpdateService">>}
    <3>1. x[1] \in {"Systems", "Managers", "ChassisList", "UpdateService"}
      BY <2>2
    <3> QED BY <3>1 DEF Promised, PromisedSystem, PromisedStorage, PromisedOther, Kinds
  <2>3. CASE \E kind \in {"power", "cooling"} : x = <<"DCIMs", kind>>
    BY <2>3 DEF Promised, PromisedSystem, PromisedStorage, PromisedOther, Kinds
  <2> QED BY <2>1, <2>2, <2>3
<1>2. ASSUME links \in listSystems PROVE Promised(x)
  <2>1. x = <<"System">> /\ box.node
    BY <1>2 DEF listSystems, Page, Only
  <2> QED BY <2>1 DEF Promised, PromisedSystem, PromisedStorage, PromisedOther, Kinds
<1>3. ASSUME links \in listManagers PROVE Promised(x)
  <2>1. x = <<"Manager", "RackHD">> \/ (x = <<"Manager", "n">> /\ box.node)
    BY <1>3 DEF listManagers, Page, Only, Stored
  <2>2. CASE x = <<"Manager", "RackHD">>
    BY <2>2 DEF Promised, PromisedSystem, PromisedStorage, PromisedOther, Kinds
  <2>3. CASE x = <<"Manager", "n">> /\ box.node
    BY <2>3 DEF Promised, PromisedSystem, PromisedStorage, PromisedOther, Kinds
  <2> QED BY <2>1, <2>2, <2>3
<1>4. ASSUME links \in listChassis PROVE Promised(x)
  <2>1. \E id : x = <<"Chassis", id>> /\ box.enclosure # "none"
    BY <1>4 DEF listChassis, Page, Only
  <2> QED BY <2>1 DEF Promised, PromisedSystem, PromisedStorage, PromisedOther, Kinds
<1>5. ASSUME links \in getUpdateService PROVE Promised(x)
  <2>1. x = <<"FirmwareList">>
    BY <1>5 DEF getUpdateService, Page
  <2> QED BY <2>1 DEF Promised, PromisedSystem, PromisedStorage, PromisedOther, Kinds
<1>6. ASSUME links \in listNetworks PROVE Promised(x)
  <2>1. x = <<"NetworkDevice">>
    BY <1>6 DEF listNetworks, Page
  <2> QED BY <2>1 DEF Promised, PromisedSystem, PromisedStorage, PromisedOther, Kinds
<1>7. ASSUME links \in listDCIMDomainCollection(k), k \in {"power", "cooling"} PROVE Promised(x)
  <2>1. \E name : x = <<"Domain", k, name>>
    BY <1>7 DEF listDCIMDomainCollection, Page
  <2> QED BY <1>7, <2>1 DEF Promised, PromisedSystem, PromisedStorage, PromisedOther, Kinds
<1>8. ASSUME links \in listDCIMDomain(k, d), k \in {"power", "cooling"} PROVE Promised(x)
  <2>1. \E name : x = <<"DCIMType", k, d, name>>
    BY <1>8 DEF listDCIMDomain, Page
  <2> QED BY <1>8, <2>1 DEF Promised, PromisedSystem, PromisedStorage, PromisedOther, Kinds
<1>9. ASSUME links \in listDCIMTypeCollection(k, d, t), k \in {"power", "cooling"} PROVE Promised(x)
  <2>1. x = <<"DCIM", k>> /\ k \in box.expected
    BY <1>9, CatalogsAssumption DEF listDCIMTypeCollection, Page, Complete, Vendor, IsDell,
       Enclosed, Machine
  <2> QED BY <1>9, <2>1 DEF Promised, PromisedSystem, PromisedStorage, PromisedOther, Kinds
<1> QED BY <1>1, <1>2, <1>3, <1>4, <1>5, <1>6, <1>7, <1>8, <1>9

\* What is shown by processors, interfaces, settings and logs.
LEMMA SystemParts ==
    ASSUME box \in Box, present \subseteq box.expected, NEW links, NEW x \in links
    PROVE  /\ links \in listSystemProcessors /\ Vendor # "Redfish" => Promised(x)
           /\ links \in listSystemEthernetInterfaces => Promised(x)
           /\ links \in listSystemBios => Promised(x)
           /\ links \in listLogService => Promised(x)
           /\ links \in getSelLogService => Promised(x)
           /\ links \in listSelLogServiceEntries => Promised(x)
           /\ links \in getLcLogService => Promised(x)
           /\ links \in listLcLogServiceEntries => Promised(x)
<1>1. ASSUME links \in listSystemProcessors, Vendor # "Redfish" PROVE Promised(x)
  <2>1. box.node /\ \E i \in 1 .. SocketsListed : x = <<"Processor", i>>
    BY <1>1 DEF listSystemProcessors, Page, Stored, Cpus, SocketsListed
  <2> QED BY <1>1, <2>1 DEF Promised, PromisedSystem, PromisedStorage, PromisedOther, Kinds
<1>2. ASSUME links \in listSystemEthernetInterfaces PROVE Promised(x)
  <2>1. Due(NicSource) /\ \E n \in Machine.nics : x = <<"Nic", n>>
    BY <1>2 DEF listSystemEthernetInterfaces, Page, Stored, Due
  <2> QED BY <2>1 DEF Promised, PromisedSystem, PromisedStorage, PromisedOther, Kinds
<1>3. ASSUME links \in listSystemBios PROVE Promised(x)
  <2>1. x = <<"BiosSettings">> /\ IsDell /\ Due({"bios"})
    BY <1>3 DEF listSystemBios, Page, Stored, Due
  <2> QED BY <2>1 DEF Promised, PromisedSystem, PromisedStorage, PromisedOther, Kinds
<1>4. ASSUME links \in listLogService PROVE Promised(x)
  <2>1. box.node /\ (x = <<"Sel">> \/ (x = <<"Lc">> /\ IsDell))
    BY <1>4 DEF listLogService, Page, Only
  <2>2. CASE box.node /\ x = <<"Sel">>
    BY <2>2 DEF Promised, PromisedSystem, PromisedStorage, PromisedOther, Kinds
  <2>3. CASE box.node /\ x = <<"Lc">> /\ IsDell
    BY <2>3 DEF Promised, PromisedSystem, PromisedStorage, PromisedOther, Kinds
  <2> QED BY <2>1, <2>2, <2>3
<1>5. ASSUME links \in getSelLogService PROVE Promised(x)
  <2>1. x = <<"SelEntries">> /\ Due(LogSource)
    BY <1>5 DEF getSelLogService, Page, Stored, Due
  <2> QED BY <2>1 DEF Promised, PromisedSystem, PromisedStorage, PromisedOther, Kinds
<1>6. ASSUME links \in listSelLogServiceEntries PROVE Promised(x)
  <2>1. Due(LogSource) /\ \E i \in Machine.log : x = <<"SelEntry", i>>
    BY <1>6 DEF listSelLogServiceEntries, Page, Stored, Due
  <2> QED BY <2>1 DEF Promised, PromisedSystem, PromisedStorage, PromisedOther, Kinds
<1>7. ASSUME links \in getLcLogService PROVE Promised(x)
  <2>1. x = <<"LcEntries">> /\ IsDell /\ Due({"obms"})
    BY <1>7 DEF getLcLogService, Page, Stored, Due
  <2> QED BY <2>1 DEF Promised, PromisedSystem, PromisedStorage, PromisedOther, Kinds
<1>8. ASSUME links \in listLcLogServiceEntries PROVE Promised(x)
  <2>1. IsDell /\ Due({"obms"}) /\ \E i \in Machine.log : x = <<"LcEntry", i>>
    BY <1>8 DEF listLcLogServiceEntries, Page, Stored, Due
  <2> QED BY <2>1 DEF Promised, PromisedSystem, PromisedStorage, PromisedOther, Kinds
<1> QED BY <1>1, <1>2, <1>3, <1>4, <1>5, <1>6, <1>7, <1>8

\* What is shown by the storage.
LEMMA StorageShows ==
    ASSUME box \in Box, present \subseteq box.expected, NEW links, NEW x \in links, NEW c, NEW i, NEW v
    PROVE  /\ links \in listSimpleStorage => Promised(x)
           /\ links \in listStorage => Promised(x)
           /\ links \in getStorage(c) => Promised(x)
           /\ links \in getDrive(c, i) => Promised(x)
           /\ links \in listVolume(c) => Promised(x)
           /\ links \in getVolume(c, v) => Promised(x)
<1>1. ASSUME links \in listSimpleStorage PROVE Promised(x)
  <2>1. \E id : x = <<"SimpleStorage", id>> /\
          IF Vendor \in {"Dell", "Cisco"}
          THEN id \in Machine.controllers /\ Due({IF Vendor = "Dell" THEN "hardware" ELSE "UCS:board"})
          ELSE id \in SmartControllers /\ Due({"dmi", "smart"})
    BY <1>1 DEF listSimpleStorage, Page, Stored, Due
  <2> QED BY <2>1 DEF Promised, PromisedSystem, PromisedStorage, PromisedOther, Kinds
<1>2. ASSUME links \in listStorage PROVE Promised(x)
  <2>1. \E id : x = <<"Storage", id>> /\
          IF IsDell THEN Due({"hardware"})
          ELSE \/ id \in Machine.ownIds /\ Due({"Redfish"})
               \/ id \in SmartControllers /\ Due({"dmi", "smart"})
    BY <1>2 DEF listStorage, Page, Stored, Due
  <2> QED BY <2>1 DEF Promised, PromisedSystem, PromisedStorage, PromisedOther, Kinds
<1>3. ASSUME links \in getStorage(c) PROVE Promised(x)
  <2>1. \/ x = <<"Volumes", c>> /\ IsDell /\ Due({"hardware"})
        \/ \E j \in DOMAIN Machine.drives :
              x = <<"Drive", c, j>> /\
              IF IsDell THEN Due({"hardware"})
              ELSE c \in Machine.ownIds \/ (Due({"smart"}) /\ Machine.drives[j].controller = c)
    BY <1>3 DEF getStorage, Page, Stored, Due
  <2>2. CASE x = <<"Volumes", c>> /\ IsDell /\ Due({"hardware"})
    BY <2>2 DEF Promised, PromisedSystem, PromisedStorage, PromisedOther, Kinds
  <2>3. CASE \E j \in DOMAIN Machine.drives :
                    x = <<"Drive", c, j>> /\
                    IF IsDell THEN Due({"hardware"})
                    ELSE c \in Machine.ownIds \/ (Due({"smart"}) /\ Machine.drives[j].controller = c)
    BY <2>3 DEF Promised, PromisedSystem, PromisedStorage, PromisedOther, Kinds
  <2> QED BY <2>1, <2>2, <2>3
<1>4. ASSUME links \in getDrive(c, i) PROVE Promised(x)
  <2>1. IsDell /\ Due({"hardware"}) /\ \E w \in DOMAIN Machine.volumes : x = <<"Volume", c, w>>
    BY <1>4 DEF getDrive, Page, Stored, Due
  <2> QED BY <2>1 DEF Promised, PromisedSystem, PromisedStorage, PromisedOther, Kinds
<1>5. ASSUME links \in listVolume(c) PROVE Promised(x)
  <2>1. IsDell /\ Due({"hardware"}) /\ \E w \in DOMAIN Machine.volumes : x = <<"Volume", c, w>>
    BY <1>5 DEF listVolume, Page, Stored, Due
  <2> QED BY <2>1 DEF Promised, PromisedSystem, PromisedStorage, PromisedOther, Kinds
<1>6. ASSUME links \in getVolume(c, v) PROVE Promised(x)
  <2>1. IsDell /\ Due({"hardware"}) /\ \E j \in DOMAIN Machine.drives : x = <<"Drive", c, j>>
    BY <1>6 DEF getVolume, Page, Stored, Due
  <2> QED BY <2>1 DEF Promised, PromisedSystem, PromisedStorage, PromisedOther, Kinds
<1> QED BY <1>1, <1>2, <1>3, <1>4, <1>5, <1>6

\* What is shown by a manager and by a chassis.
LEMMA ManagerShows ==
    ASSUME box \in Box, present \subseteq box.expected, NEW links, NEW x \in links, NEW m
    PROVE  /\ links \in getManager(m) => Promised(x)
           /\ links \in listManagerEthernetInterfaces /\ box.node => Promised(x)
           /\ links \in listLocalEthernetInterfaces => Promised(x)
           /\ links \in listManagerSerialInterfaces => Promised(x)
<1>1. ASSUME links \in getManager(m) PROVE Promised(x)
  <2>1. box.node /\ \/ x = <<"System">>
                    \/ x = <<"Chassis", "e">> /\ Enclosed
                    \/ x \in {<<"LocalNics">>, <<"Protocol", m>>} /\ m = "RackHD"
                    \/ x = <<"ManagerNics">>
                    \/ x = <<"Serials">> /\ ~IsDell
    BY <1>1 DEF getManager, Page, Only
  <2>2. CASE x = <<"System">>
    BY <2>1, <2>2 DEF Promised, PromisedSystem, PromisedStorage, PromisedOther, Kinds
  <2>3. CASE x = <<"Chassis", "e">> /\ Enclosed
    BY <2>3 DEF Enclosed, Promised, PromisedSystem, PromisedStorage, PromisedOther, Kinds
  <2>4. CASE x = <<"LocalNics">>
    BY <2>4 DEF Promised, PromisedSystem, PromisedStorage, PromisedOther, Kinds
  <2>5. CASE x = <<"Protocol", m>> /\ m = "RackHD"
    BY <2>5 DEF Promised, PromisedSystem, PromisedStorage, PromisedOther, Kinds
  <2>6. CASE x = <<"ManagerNics">>
    BY <2>1, <2>6 DEF Promised, PromisedSystem, PromisedStorage, PromisedOther, Kinds
  <2>7. CASE x = <<"Serials">> /\ ~IsDell
    BY <2>1, <2>7 DEF Promised, PromisedSystem, PromisedStorage, PromisedOther, Kinds
  <2> QED BY <2>1, <2>2, <2>3, <2>4, <2>5, <2>6, <2>7
<1>2. ASSUME links \in listManagerEthernetInterfaces, box.node PROVE Promised(x)
  <2>1. x = <<"ManagerNic">>
    BY <1>2 DEF listManagerEthernetInterfaces, Page
  <2> QED BY <1>2, <2>1 DEF Promised, PromisedSystem, PromisedStorage, PromisedOther, Kinds
<1>3. ASSUME links \in listLocalEthernetInterfaces PROVE Promised(x)
  <2>1. x = <<"LocalNic">>
    BY <1>3 DEF listLocalEthernetInterfaces, Page
  <2> QED BY <2>1 DEF Promised, PromisedSystem, PromisedStorage, PromisedOther, Kinds
<1>4. ASSUME links \in listManagerSerialInterfaces PROVE Promised(x)
  <2>1. ~IsDell /\ Due({"dmi"}) /\ \E p \in Machine.ports : x = <<"Serial", p>>
    BY <1>4 DEF listManagerSerialInterfaces, Page, Stored, Due
  <2> QED BY <2>1 DEF Promised, PromisedSystem, PromisedStorage, PromisedOther, Kinds
<1> QED BY <1>1, <1>2, <1>3, <1>4

LEMMA ChassisShows ==
    ASSUME box \in Box, present \subseteq box.expected, NEW id, NEW links \in getChassis(id),
           NEW x \in links
    PROVE  Promised(x)
<1>1. Enclosed /\ box.node
  BY BoxAssumption DEF getChassis, Page, Enclosed
<1>2. \/ x \in {<<"Thermal", id>>, <<"Power", id>>}
      \/ x = <<"System">>
      \/ x = <<"Manager", "RackHD">>
      \/ \E other : x = <<"Chassis", other>>
  BY DEF getChassis, Page, Only
<1>3. CASE x \in {<<"Thermal", id>>, <<"Power", id>>}
  <2>1. x[1] \in {"Thermal", "Power"}
    BY <1>3
  <2> QED BY <1>1, <2>1 DEF Promised, PromisedSystem, PromisedStorage, PromisedOther, Kinds
<1>4. CASE x = <<"System">>
  BY <1>1, <1>4 DEF Promised, PromisedSystem, PromisedStorage, PromisedOther, Kinds
<1>5. CASE x = <<"Manager", "RackHD">>
  BY <1>5 DEF Promised, PromisedSystem, PromisedStorage, PromisedOther, Kinds
<1>6. CASE \E other : x = <<"Chassis", other>>
  BY <1>1, <1>6 DEF Enclosed, Promised, PromisedSystem, PromisedStorage, PromisedOther, Kinds
<1> QED BY <1>2, <1>3, <1>4, <1>5, <1>6

\* The components that the catalogs stored so far name are among those due.
LEMMA PartsAreDue ==
    ASSUME present \subseteq box.expected, NEW application \in BOOLEAN
    PROVE  getFwCollections(application) \subseteq PartsDue(application)
BY DEF getFwCollections, PartsDue, Only, Stored, Due

\* What is shown by the inventory of firmware and software.
LEMMA UpdateShows ==
    ASSUME box \in Box, present \subseteq box.expected, NEW links, NEW x \in links
    PROVE  /\ links \in getFirmwareInventoryList => Promised(x)
           /\ links \in getSoftwareInventoryList => Promised(x)
<1>1. ASSUME links \in getFirmwareInventoryList PROVE Promised(x)
  <2>1. PICK k \in PartsDue(FALSE) : x = <<"Firmware", k>>
    BY <1>1, PartsAreDue DEF getFirmwareInventoryList, Page
  <2>2. x[1] = "Firmware" /\ x[2] = k
    BY <2>1
  <2> QED BY <2>1, <2>2 DEF Promised, PromisedSystem, PromisedStorage, PromisedOther, Kinds
<1>2. ASSUME links \in getSoftwareInventoryList PROVE Promised(x)
  <2>1. PICK k \in PartsDue(TRUE) : x = <<"Software", k>>
    BY <1>2, PartsAreDue DEF getSoftwareInventoryList, Page
  <2>2. x[1] = "Software" /\ x[2] = k
    BY <2>1
  <2> QED BY <2>1, <2>2 DEF Promised, PromisedSystem, PromisedStorage, PromisedOther, Kinds
<1> QED BY <1>1, <1>2

\* Where a component of the inventory is.
LEMMA PartShows ==
    ASSUME box \in Box, present \subseteq box.expected, NEW k, NEW application \in BOOLEAN,
           NEW links \in getSoftFwInventory(k, application), NEW x \in links
    PROVE  Promised(x)
<1>1. k \in getFwCollections(application) /\ updateChassisIds(k) /\ x \in RelatedItems(k)
  BY DEF getSoftFwInventory, Page
<1>2. box.node /\ (k = "NIC" => "software" \in box.expected)
  BY <1>1 DEF getFwCollections, Only, Stored
<1>3. CASE k \in {"iDRAC", "BMC", "USC"}
  <2>1. x = <<"Manager", "n">>
    BY <1>1, <1>3 DEF RelatedItems
  <2> QED BY <1>2, <2>1 DEF Promised, PromisedSystem, PromisedStorage, PromisedOther, Kinds
<1>4. CASE k = "PSU"
  <2>1. x = <<"Power", "e">> /\ Enclosed
    BY <1>1, <1>4 DEF RelatedItems, updateChassisIds
  <2> QED BY <2>1 DEF Promised, PromisedSystem, PromisedStorage, PromisedOther, Kinds
<1>5. CASE k = "Enclosure"
  <2>1. x = <<"Chassis", "e">> /\ Enclosed
    BY <1>1, <1>5 DEF RelatedItems, updateChassisIds
  <2> QED BY <2>1 DEF Enclosed, Promised, PromisedSystem, PromisedStorage, PromisedOther, Kinds
<1>6. CASE k \in {"RAID", "Disk"}
  <2>1. x = <<"SimpleStorages">>
    BY <1>1, <1>6 DEF RelatedItems
  <2> QED BY <1>2, <2>1 DEF Promised, PromisedSystem, PromisedStorage, PromisedOther, Kinds
<1>7. CASE k = "NIC"
  <2>1. \E n \in Machine.nics : x = <<"Nic", n>>
    BY <1>1, <1>7, CatalogsAssumption DEF RelatedItems, Complete, Vendor, IsDell, Enclosed, Machine
  <2>2. Due(NicSource)
    BY <1>2, <1>7, CatalogsAssumption DEF Complete, Vendor, IsDell, Enclosed, Machine, Due,
       NicSource
  <2> QED BY <2>1, <2>2 DEF Promised, PromisedSystem, PromisedStorage, PromisedOther, Kinds
<1>8. CASE k \notin {"iDRAC", "BMC", "USC", "PSU", "Enclosure", "RAID", "Disk", "NIC"}
  <2>1. x = <<"System">>
    BY <1>1, <1>8 DEF RelatedItems
  <2> QED BY <1>2, <2>1 DEF Promised, PromisedSystem, PromisedStorage, PromisedOther, Kinds
<1> QED BY <1>3, <1>4, <1>5, <1>6, <1>7, <1>8

\* The pages that answer and show nothing more.
LEMMA LeavesShow ==
    ASSUME NEW a, NEW b, NEW links, NEW x \in links
    PROVE  /\ links \notin getSystemProcessor(a)
           /\ links \notin listSystemEthernetInterfacesById(a)
           /\ links \notin listSystemBiosSettings
           /\ links \notin getSecureBoot
           /\ links \notin getSimpleStorage(a)
           /\ links \notin getSelLogServiceEntry(a)
           /\ links \notin getLcLogServiceEntry(a)
           /\ links \notin listManagerNetworkProtocol(a)
           /\ links \notin getManagerEthernetInterface
           /\ links \notin getLocalEthernetInterface
           /\ links \notin getManagerSerialInterface(a)
           /\ links \notin getThermal(a)
           /\ links \notin getPower(a)
           /\ links \notin listDCIMDefault(a)
           /\ links \notin getNetwork
<1>1. links # {}
  OBVIOUS
<1>2. links \notin getSystemProcessor(a)
  BY <1>1 DEF getSystemProcessor, Page
<1>3. links \notin listSystemEthernetInterfacesById(a)
  BY <1>1 DEF listSystemEthernetInterfacesById, Page
<1>4. links \notin listSystemBiosSettings
  BY <1>1 DEF listSystemBiosSettings, Page
<1>5. links \notin getSecureBoot
  BY <1>1 DEF getSecureBoot, Page
<1>6. links \notin getSimpleStorage(a)
  BY <1>1 DEF getSimpleStorage, Page
<1>7. links \notin getSelLogServiceEntry(a)
  BY <1>1 DEF getSelLogServiceEntry, Page
<1>8. links \notin getLcLogServiceEntry(a)
  BY <1>1 DEF getLcLogServiceEntry, Page
<1>9. links \notin listManagerNetworkProtocol(a)
  BY <1>1 DEF listManagerNetworkProtocol, Page
<1>10. links \notin getManagerEthernetInterface
  BY <1>1 DEF getManagerEthernetInterface, Page
<1>11. links \notin getLocalEthernetInterface
  BY <1>1 DEF getLocalEthernetInterface, Page
<1>12. links \notin getManagerSerialInterface(a)
  BY <1>1 DEF getManagerSerialInterface, Page
<1>13. links \notin getThermal(a)
  BY <1>1 DEF getThermal, Page
<1>14. links \notin getPower(a)
  BY <1>1 DEF getPower, Page
<1>15. links \notin listDCIMDefault(a)
  BY <1>1 DEF listDCIMDefault, Page
<1>16. links \notin getNetwork
  BY <1>1 DEF getNetwork, Page
<1> QED BY <1>2, <1>3, <1>4, <1>5, <1>6, <1>7, <1>8, <1>9, <1>10, <1>11, <1>12, <1>13, <1>14,
           <1>15, <1>16

\* A promise of a page with a known address.
PromisedOrKnown(l) == Promised(l) \/ l \in Known

\* Whatever page a client follows, what it shows is promised again.
LEMMA ShownIsPromised ==
    ASSUME box \in Box, present \subseteq box.expected,
           NEW l, PromisedOrKnown(l), NEW links \in Get(l), NEW x \in links
    PROVE  Promised(x)
<1>1. l[1] \in Kinds \cup {"Bios", "SecureBoot", "SoftwareList", "Networks"}
  BY DEF PromisedOrKnown, Promised, Known, Kinds
<1>2. /\ l[1] = "Processors" => Vendor # "Redfish"
      /\ l[1] = "ManagerNics" => box.node
      /\ l[1] \in {"DCIMs", "Domain", "DCIMType"} => l[2] \in {"power", "cooling"}
  <2>1. CASE Promised(l)
    BY <2>1 DEF Promised, PromisedSystem, PromisedOther
  <2>2. CASE l \in Known
    <3>1. l[1] \in {"Root", "Bios", "SecureBoot", "Storages", "SoftwareList", "Networks"}
      BY <2>2 DEF Known
    <3> QED BY <3>1
  <2> QED BY <2>1, <2>2 DEF PromisedOrKnown
<1>3. CASE l[1] = "Root"
  <2>1. links \in getServiceRoot
    BY <1>3 DEF Get
  <2> QED BY <2>1, TreeShows
<1>4. CASE l[1] = "Systems"
  <2>1. links \in listSystems
    BY <1>4 DEF Get
  <2> QED BY <2>1, TreeShows
<1>5. CASE l[1] = "System"
  <2>1. links \in getSystem
    BY <1>5 DEF Get
  <2> QED BY <2>1, SystemShows
<1>6. CASE l[1] = "Processors"
  <2>1. links \in listSystemProcessors
    BY <1>6 DEF Get
  <2> QED BY <1>2, <1>6, <2>1, SystemParts
<1>7. CASE l[1] = "Processor"
  <2>1. links \in getSystemProcessor(l[2])
    BY <1>7 DEF Get
  <2> QED BY <2>1, LeavesShow
<1>8. CASE l[1] = "Nics"
  <2>1. links \in listSystemEthernetInterfaces
    BY <1>8 DEF Get
  <2> QED BY <2>1, SystemParts
<1>9. CASE l[1] = "Nic"
  <2>1. links \in listSystemEthernetInterfacesById(l[2])
    BY <1>9 DEF Get
  <2> QED BY <2>1, LeavesShow
<1>10. CASE l[1] = "Bios"
  <2>1. links \in listSystemBios
    BY <1>10 DEF Get
  <2> QED BY <2>1, SystemParts
<1>11. CASE l[1] = "BiosSettings"
  <2>1. links \in listSystemBiosSettings
    BY <1>11 DEF Get
  <2> QED BY <2>1, LeavesShow
<1>12. CASE l[1] = "SecureBoot"
  <2>1. links \in getSecureBoot
    BY <1>12 DEF Get
  <2> QED BY <2>1, LeavesShow
<1>13. CASE l[1] = "SimpleStorages"
  <2>1. links \in listSimpleStorage
    BY <1>13 DEF Get
  <2> QED BY <2>1, StorageShows
<1>14. CASE l[1] = "SimpleStorage"
  <2>1. links \in getSimpleStorage(l[2])
    BY <1>14 DEF Get
  <2> QED BY <2>1, LeavesShow
<1>15. CASE l[1] = "Storages"
  <2>1. links \in listStorage
    BY <1>15 DEF Get
  <2> QED BY <2>1, StorageShows
<1>16. CASE l[1] = "Storage"
  <2>1. links \in getStorage(l[2])
    BY <1>16 DEF Get
  <2> QED BY <2>1, StorageShows
<1>17. CASE l[1] = "Drive"
  <2>1. links \in getDrive(l[2], l[3])
    BY <1>17 DEF Get
  <2> QED BY <2>1, StorageShows
<1>18. CASE l[1] = "Volumes"
  <2>1. links \in listVolume(l[2])
    BY <1>18 DEF Get
  <2> QED BY <2>1, StorageShows
<1>19. CASE l[1] = "Volume"
  <2>1. links \in getVolume(l[2], l[3])
    BY <1>19 DEF Get
  <2> QED BY <2>1, StorageShows
<1>20. CASE l[1] = "Logs"
  <2>1. links \in listLogService
    BY <1>20 DEF Get
  <2> QED BY <2>1, SystemParts
<1>21. CASE l[1] = "Sel"
  <2>1. links \in getSelLogService
    BY <1>21 DEF Get
  <2> QED BY <2>1, SystemParts
<1>22. CASE l[1] = "SelEntries"
  <2>1. links \in listSelLogServiceEntries
    BY <1>22 DEF Get
  <2> QED BY <2>1, SystemParts
<1>23. CASE l[1] = "SelEntry"
  <2>1. links \in getSelLogServiceEntry(l[2])
    BY <1>23 DEF Get
  <2> QED BY <2>1, LeavesShow
<1>24. CASE l[1] = "Lc"
  <2>1. links \in getLcLogService
    BY <1>24 DEF Get
  <2> QED BY <2>1, SystemParts
<1>25. CASE l[1] = "LcEntries"
  <2>1. links \in listLcLogServiceEntries
    BY <1>25 DEF Get
  <2> QED BY <2>1, SystemParts
<1>26. CASE l[1] = "LcEntry"
  <2>1. links \in getLcLogServiceEntry(l[2])
    BY <1>26 DEF Get
  <2> QED BY <2>1, LeavesShow
<1>27. CASE l[1] = "Managers"
  <2>1. links \in listManagers
    BY <1>27 DEF Get
  <2> QED BY <2>1, TreeShows
<1>28. CASE l[1] = "Manager"
  <2>1. links \in getManager(l[2])
    BY <1>28 DEF Get
  <2> QED BY <2>1, ManagerShows
<1>29. CASE l[1] = "Protocol"
  <2>1. links \in listManagerNetworkProtocol(l[2])
    BY <1>29 DEF Get
  <2> QED BY <2>1, LeavesShow
<1>30. CASE l[1] = "ManagerNics"
  <2>1. links \in listManagerEthernetInterfaces
    BY <1>30 DEF Get
  <2> QED BY <1>2, <1>30, <2>1, ManagerShows
<1>31. CASE l[1] = "ManagerNic"
  <2>1. links \in getManagerEthernetInterface
    BY <1>31 DEF Get
  <2> QED BY <2>1, LeavesShow
<1>32. CASE l[1] = "LocalNics"
  <2>1. links \in listLocalEthernetInterfaces
    BY <1>32 DEF Get
  <2> QED BY <2>1, ManagerShows
<1>33. CASE l[1] = "LocalNic"
  <2>1. links \in getLocalEthernetInterface
    BY <1>33 DEF Get
  <2> QED BY <2>1, LeavesShow
<1>34. CASE l[1] = "Serials"
  <2>1. links \in listManagerSerialInterfaces
    BY <1>34 DEF Get
  <2> QED BY <2>1, ManagerShows
<1>35. CASE l[1] = "Serial"
  <2>1. links \in getManagerSerialInterface(l[2])
    BY <1>35 DEF Get
  <2> QED BY <2>1, LeavesShow
<1>36. CASE l[1] = "ChassisList"
  <2>1. links \in listChassis
    BY <1>36 DEF Get
  <2> QED BY <2>1, TreeShows
<1>37. CASE l[1] = "Chassis"
  <2>1. links \in getChassis(l[2])
    BY <1>37 DEF Get
  <2> QED BY <2>1, ChassisShows
<1>38. CASE l[1] = "Thermal"
  <2>1. links \in getThermal(l[2])
    BY <1>38 DEF Get
  <2> QED BY <2>1, LeavesShow
<1>39. CASE l[1] = "Power"
  <2>1. links \in getPower(l[2])
    BY <1>39 DEF Get
  <2> QED BY <2>1, LeavesShow
<1>40. CASE l[1] = "UpdateService"
  <2>1. links \in getUpdateService
    BY <1>40 DEF Get
  <2> QED BY <2>1, TreeShows
<1>41. CASE l[1] = "FirmwareList"
  <2>1. links \in getFirmwareInventoryList
    BY <1>41 DEF Get
  <2> QED BY <2>1, UpdateShows
<1>42. CASE l[1] = "Firmware"
  <2>1. links \in getSoftFwInventory(l[2], FALSE)
    BY <1>42 DEF Get
  <2> QED BY <2>1, PartShows
<1>43. CASE l[1] = "SoftwareList"
  <2>1. links \in getSoftwareInventoryList
    BY <1>43 DEF Get
  <2> QED BY <2>1, UpdateShows
<1>44. CASE l[1] = "Software"
  <2>1. links \in getSoftFwInventory(l[2], TRUE)
    BY <1>44 DEF Get
  <2> QED BY <2>1, PartShows
<1>45. CASE l[1] = "DCIMs"
  <2>1. links \in listDCIMDomainCollection(l[2])
    BY <1>45 DEF Get
  <2> QED BY <1>2, <1>45, <2>1, TreeShows
<1>46. CASE l[1] = "Domain"
  <2>1. links \in listDCIMDomain(l[2], l[3])
    BY <1>46 DEF Get
  <2> QED BY <1>2, <1>46, <2>1, TreeShows
<1>47. CASE l[1] = "DCIMType"
  <2>1. links \in listDCIMTypeCollection(l[2], l[3], l[4])
    BY <1>47 DEF Get
  <2> QED BY <1>2, <1>47, <2>1, TreeShows
<1>48. CASE l[1] = "DCIM"
  <2>1. links \in listDCIMDefault(l[2])
    BY <1>48 DEF Get
  <2> QED BY <2>1, LeavesShow
<1>49. CASE l[1] = "Networks"
  <2>1. links \in listNetworks
    BY <1>49 DEF Get
  <2> QED BY <2>1, TreeShows
<1>50. CASE l[1] = "NetworkDevice"
  <2>1. links \in getNetwork
    BY <1>50 DEF Get
  <2> QED BY <2>1, LeavesShow
<1> QED BY <1>1, <1>3, <1>4, <1>5, <1>6, <1>7, <1>8, <1>9, <1>10, <1>11, <1>12, <1>13, <1>14,
           <1>15, <1>16, <1>17, <1>18, <1>19, <1>20, <1>21, <1>22, <1>23, <1>24, <1>25, <1>26,
           <1>27, <1>28, <1>29, <1>30, <1>31, <1>32, <1>33, <1>34, <1>35, <1>36, <1>37, <1>38,
           <1>39, <1>40, <1>41, <1>42, <1>43, <1>44, <1>45, <1>46, <1>47, <1>48, <1>49, <1>50 DEF
           Kinds

\* Once all is stored, what is due is stored.
LEMMA DueIsStored ==
    ASSUME Discovered, NEW sources, Due(sources) PROVE Stored(sources)
BY DEF Discovered, Due, Stored

\* What a complete discovery leads to, for each vendor.
LEMMA CompleteNode ==
    ASSUME box \in Box, Discovered, box.node
    PROVE  /\ Stored({"dmi"}) /\ Stored({"obms"}) /\ Stored({"pollers"}) /\ Stored({"obms", "bmc"})
           /\ Stored(NicSource) \/ Vendor \in {"Cisco", "Redfish"}
           /\ Stored(LogSource) /\ Stored({IF IsDell THEN "dmi" ELSE "ipmi-mc-info"})
           /\ IsDell => Stored({"hardware"})
           /\ Vendor = "Dell" => Stored({"hardware"}) /\ Stored({"hardware", "boot"})
           /\ Vendor = "Cisco" => /\ Stored({"UCS", "UCS:bios", "UCS:locator-led"})
                                  /\ Stored({"UCS"}) /\ Stored({"UCS:board"})
           /\ Vendor = "Redfish" => Stored({"its own page"})
           /\ Vendor = "other" => Stored({"ohai", "dmi"}) /\ Stored({"dmi", "smart"})
<1>1. Vendor \in {"Dell", "Cisco", "Redfish", "other"} /\ (Vendor = "Dell" => IsDell)
      /\ (Vendor = "other" => ~IsDell)
  BY VendorKnown
<1>0. Complete(box)
  BY CatalogsAssumption
<1> USE <1>0, <1>1 DEF Complete, Vendor, IsDell, Enclosed, Machine, Discovered, Stored
<1>2. Stored({"dmi"}) /\ Stored({"obms"}) /\ Stored({"pollers"}) /\ Stored({"obms", "bmc"})
  OBVIOUS
<1>3. Vendor = "other" => Stored({"ohai", "dmi"}) /\ Stored({"dmi", "smart"}) /\ Stored({"ohai"})
  OBVIOUS
<1>4. /\ IsDell => Stored({"hardware"}) /\ Stored({"nics"})
      /\ Vendor = "Dell" => Stored({"hardware", "boot"})
  OBVIOUS
<1>5. Vendor = "Cisco" => /\ Stored({"UCS", "UCS:bios", "UCS:locator-led"})
                          /\ Stored({"UCS"}) /\ Stored({"UCS:board"})
  OBVIOUS
<1>6. Vendor = "Redfish" => Stored({"its own page"})
  OBVIOUS
<1>7. Stored(LogSource)
  BY <1>2 DEF LogSource
<1>8. Stored({IF IsDell THEN "dmi" ELSE "ipmi-mc-info"})
  OBVIOUS
<1> HIDE DEF Complete, Vendor, IsDell, Enclosed, Machine, Discovered, Stored
<1>9. Stored(NicSource) \/ Vendor \in {"Cisco", "Redfish"}
  BY <1>3, <1>4 DEF NicSource
<1> QED BY <1>2, <1>3, <1>4, <1>5, <1>6, <1>7, <1>8, <1>9

\* Every link that is promised leads to a page, or to one of the known dead ends.
LEMMA SystemAnswers ==
    ASSUME box \in Box, Discovered, NEW l, PromisedSystem(l)
    PROVE  /\ l[1] = "System" => getSystem # {}
           /\ l[1] = "Processors" => listSystemProcessors # {}
           /\ l[1] = "Processor" => getSystemProcessor(l[2]) # {} \/ DeadEnd(l)
           /\ l[1] = "Nics" => listSystemEthernetInterfaces # {} \/ DeadEnd(l)
           /\ l[1] = "Nic" => listSystemEthernetInterfacesById(l[2]) # {}
           /\ l[1] = "BiosSettings" => listSystemBiosSettings # {}
           /\ l[1] = "Logs" => listLogService # {}
           /\ l[1] = "Sel" => getSelLogService # {}
           /\ l[1] = "SelEntries" => listSelLogServiceEntries # {}
           /\ l[1] = "SelEntry" => getSelLogServiceEntry(l[2]) # {}
           /\ l[1] = "Lc" => getLcLogService # {}
           /\ l[1] = "LcEntries" => listLcLogServiceEntries # {}
           /\ l[1] = "LcEntry" => getLcLogServiceEntry(l[2]) # {}
<1>1. Vendor \in {"Dell", "Cisco", "Redfish", "other"} /\ (Vendor = "Dell" => IsDell)
      /\ (Vendor = "other" => ~IsDell)
  BY VendorKnown
<1>2. ASSUME l[1] = "System" PROVE getSystem # {}
  <2>1. box.node
    BY <1>2 DEF PromisedSystem
  <2> QED BY <1>1, <2>1, CompleteNode DEF getSystem, Page
<1>3. Machine.sockets \in Seq(BOOLEAN) /\ \E i \in DOMAIN Machine.sockets : Machine.sockets[i]
  BY BoxAssumption, CatalogsAssumption DEF Complete, Vendor, IsDell, Enclosed, Machine
<1>4. ASSUME l[1] = "Processors" PROVE listSystemProcessors # {}
  <2>1. box.node /\ Vendor # "Redfish"
    BY <1>4 DEF PromisedSystem
  <2>2. Spliced(Machine.sockets) # <<>>
    BY <1>3, SplicedList
  <2> QED BY <1>1, <2>1, <2>2, CompleteNode DEF listSystemProcessors, Page
<1>5. ASSUME l[1] = "Processor" PROVE getSystemProcessor(l[2]) # {} \/ DeadEnd(l)
  <2>1. box.node /\ Vendor # "Redfish" /\ l[2] \in 1 .. SocketsListed
    BY <1>5 DEF PromisedSystem
  <2>2. CASE Vendor \in {"Dell", "Cisco"}
    <3>1. l[2] <= Populated
      BY <2>1, <2>2 DEF SocketsListed
    <3> QED BY <2>1, <2>2, <3>1, CompleteNode DEF getSystemProcessor, Page
  <2>3. CASE Vendor = "other"
    <3>1. l[2] \in DOMAIN Machine.sockets
      BY <1>3, <2>1, <2>3, SplicedList DEF SocketsListed
    <3>2. CASE Machine.sockets[l[2]]
      <4>1. l[2] <= Machine.logical
        BY <3>1, <3>2, CatalogsAssumption DEF Complete, Vendor, IsDell, Enclosed, Machine
      <4> QED BY <2>1, <2>3, <3>2, <4>1, CompleteNode DEF getSystemProcessor, Page
    <3>3. CASE ~Machine.sockets[l[2]]
      BY <1>5, <3>3 DEF DeadEnd
    <3> QED BY <3>2, <3>3
  <2> QED BY <1>1, <2>1, <2>2, <2>3
<1>6. ASSUME l[1] = "Nics" PROVE listSystemEthernetInterfaces # {} \/ DeadEnd(l)
  <2>1. box.node /\ Vendor # "Redfish"
    BY <1>6 DEF PromisedSystem
  <2>2. CASE Stored(NicSource)
    BY <2>2 DEF listSystemEthernetInterfaces, Page
  <2>3. CASE Vendor = "Cisco"
    BY <1>6, <2>3 DEF DeadEnd
  <2> QED BY <2>1, <2>2, <2>3, CompleteNode
<1>7. l[1] = "Nic" => listSystemEthernetInterfacesById(l[2]) # {}
  BY DueIsStored DEF PromisedSystem, listSystemEthernetInterfacesById, Page
<1>8. l[1] = "BiosSettings" => listSystemBiosSettings # {}
  BY DueIsStored DEF PromisedSystem, listSystemBiosSettings, Page
<1>9. l[1] = "Logs" => listLogService # {}
  BY DEF PromisedSystem, listLogService, Page
<1>10. l[1] = "Sel" => getSelLogService # {}
  BY CompleteNode DEF PromisedSystem, getSelLogService, Page
<1>11. l[1] = "SelEntries" => listSelLogServiceEntries # {}
  BY DueIsStored DEF PromisedSystem, listSelLogServiceEntries, Page
<1>12. l[1] = "SelEntry" => getSelLogServiceEntry(l[2]) # {}
  BY DueIsStored DEF PromisedSystem, getSelLogServiceEntry, Page
<1>13. l[1] = "Lc" => getLcLogService # {}
  BY CompleteNode DEF PromisedSystem, getLcLogService, Page
<1>14. l[1] = "LcEntries" => listLcLogServiceEntries # {}
  BY DueIsStored DEF PromisedSystem, listLcLogServiceEntries, Page
<1>15. l[1] = "LcEntry" => getLcLogServiceEntry(l[2]) # {}
  BY DueIsStored DEF PromisedSystem, getLcLogServiceEntry, Page
<1> QED BY <1>2, <1>4, <1>5, <1>6, <1>7, <1>8, <1>9, <1>10, <1>11, <1>12, <1>13, <1>14, <1>15

LEMMA StorageAnswers ==
    ASSUME box \in Box, Discovered, NEW l, PromisedStorage(l)
    PROVE  /\ l[1] = "SimpleStorages" => listSimpleStorage # {} \/ DeadEnd(l)
           /\ l[1] = "SimpleStorage" => getSimpleStorage(l[2]) # {}
           /\ l[1] = "Storages" => listStorage # {} \/ DeadEnd(l)
           /\ l[1] = "Storage" => getStorage(l[2]) # {} \/ DeadEnd(l)
           /\ l[1] = "Drive" => getDrive(l[2], l[3]) # {} \/ DeadEnd(l)
           /\ l[1] = "Volumes" => listVolume(l[2]) # {}
           /\ l[1] = "Volume" => getVolume(l[2], l[3]) # {} \/ DeadEnd(l)
<1>1. Vendor \in {"Dell", "Cisco", "Redfish", "other"} /\ (Vendor = "Dell" => IsDell)
      /\ (Vendor = "other" => ~IsDell)
  BY VendorKnown
<1>2. ASSUME l[1] = "SimpleStorages" PROVE listSimpleStorage # {} \/ DeadEnd(l)
  <2>1. box.node
    BY <1>2 DEF PromisedStorage
  <2>2. CASE Vendor = "Redfish"
    <3>1. CASE "smart" \in present
      <4>1. Stored({"dmi", "smart"})
        BY <2>1, <3>1, CompleteNode DEF Stored
      <4> QED BY <2>2, <4>1 DEF listSimpleStorage, Page
    <3>2. CASE "smart" \notin present
      BY <1>2, <2>2, <3>2 DEF DeadEnd
    <3> QED BY <3>1, <3>2
  <2>3. CASE Vendor # "Redfish"
    BY <1>1, <2>1, <2>3, CompleteNode DEF listSimpleStorage, Page
  <2> QED BY <2>2, <2>3
<1>3. ASSUME l[1] = "SimpleStorage" PROVE getSimpleStorage(l[2]) # {}
  <2>1. CASE Vendor \in {"Dell", "Cisco"}
    <3>1. l[2] \in Machine.controllers /\ Stored({IF Vendor = "Dell" THEN "hardware" ELSE "UCS:board"})
      BY <1>3, <2>1, DueIsStored DEF PromisedStorage
    <3> QED BY <2>1, <3>1 DEF getSimpleStorage, Page
  <2>2. CASE Vendor \notin {"Dell", "Cisco"}
    <3>1. l[2] \in SmartControllers /\ Stored({"dmi", "smart"})
      BY <1>3, <2>2, DueIsStored DEF PromisedStorage
    <3> QED BY <2>2, <3>1 DEF getSimpleStorage, Page
  <2> QED BY <2>1, <2>2
<1>4. ASSUME l[1] = "Storages" PROVE listStorage # {} \/ DeadEnd(l)
  <2>1. box.node /\ Vendor \in {"Dell", "Cisco"}
    BY <1>4 DEF PromisedStorage
  <2>2. CASE Vendor = "Dell"
    BY <1>1, <2>1, <2>2, CompleteNode DEF listStorage, Page
  <2>3. CASE Vendor = "Cisco"
    BY <1>4, <2>3 DEF DeadEnd
  <2> QED BY <2>1, <2>2, <2>3
<1>5. ASSUME l[1] = "Storage" PROVE getStorage(l[2]) # {} \/ DeadEnd(l)
  <2>1. CASE IsDell
    <3>1. Stored({"hardware"})
      BY <1>5, <2>1, DueIsStored DEF PromisedStorage
    <3> QED BY <2>1, <3>1 DEF getStorage, Page
  <2>2. CASE ~IsDell
    <3>1. \/ l[2] \in Machine.ownIds /\ Stored({"Redfish"})
          \/ l[2] \in SmartControllers /\ Stored({"dmi", "smart"})
      BY <1>5, <2>2, DueIsStored DEF PromisedStorage
    <3>2. CASE Stored({"Redfish"})
      <4>1. CASE l[2] \in Machine.ownIds
        BY <2>2, <3>2, <4>1 DEF getStorage, Page
      <4>2. CASE l[2] \notin Machine.ownIds
        BY <1>5, <2>2, <3>2, <4>2 DEF DeadEnd, Stored
      <4> QED BY <4>1, <4>2
    <3>3. CASE ~Stored({"Redfish"})
      BY <2>2, <3>1, <3>3 DEF getStorage, Page
    <3> QED BY <3>2, <3>3
  <2> QED BY <2>1, <2>2
<1>6. ASSUME l[1] = "Drive" PROVE getDrive(l[2], l[3]) # {} \/ DeadEnd(l)
  <2>1. l[3] \in DOMAIN Machine.drives
    BY <1>6 DEF PromisedStorage
  <2>2. CASE IsDell
    <3>1. Stored({"hardware"})
      BY <1>6, <2>2, DueIsStored DEF PromisedStorage
    <3> QED BY <2>1, <2>2, <3>1 DEF getDrive, Page
  <2>3. CASE ~IsDell
    <3>1. \/ l[2] \in Machine.ownIds
          \/ Stored({"smart"}) /\ Machine.drives[l[3]].controller = l[2]
      BY <1>6, <2>3, DueIsStored DEF PromisedStorage
    <3>2. CASE DeadEnd(l)
      BY <3>2
    <3>3. CASE ~DeadEnd(l)
      <4>1. /\ \A j \in 1 .. l[3] : Machine.drives[j].identity
            /\ Machine.drives[l[3]].rotation /\ l[2] \notin Machine.ownIds
        BY <1>6, <2>3, <3>3 DEF DeadEnd
      <4> QED BY <2>1, <2>3, <3>1, <4>1 DEF getDrive, Page
    <3> QED BY <3>2, <3>3
  <2> QED BY <2>2, <2>3
<1>7. l[1] = "Volumes" => listVolume(l[2]) # {}
  BY DueIsStored DEF PromisedStorage, listVolume, Page
<1>8. ASSUME l[1] = "Volume" PROVE getVolume(l[2], l[3]) # {} \/ DeadEnd(l)
  <2>1. IsDell /\ Stored({"hardware"}) /\ l[3] \in DOMAIN Machine.volumes
    BY <1>8, DueIsStored DEF PromisedStorage
  <2>2. CASE Machine.volumes[l[3]] \subseteq DOMAIN Machine.drives
    BY <2>1, <2>2 DEF getVolume, Page
  <2>3. CASE ~(Machine.volumes[l[3]] \subseteq DOMAIN Machine.drives)
    BY <1>8, <2>3 DEF DeadEnd
  <2> QED BY <2>2, <2>3
<1> QED BY <1>2, <1>3, <1>4, <1>5, <1>6, <1>7, <1>8

LEMMA OtherAnswers ==
    ASSUME box \in Box, Discovered, NEW l, PromisedOther(l)
    PROVE  /\ l[1] = "Manager" => getManager(l[2]) # {} \/ DeadEnd(l)
           /\ l[1] = "Protocol" => listManagerNetworkProtocol(l[2]) # {}
           /\ l[1] = "ManagerNics" => listManagerEthernetInterfaces # {}
           /\ l[1] = "ManagerNic" => getManagerEthernetInterface # {}
           /\ l[1] = "Serials" => listManagerSerialInterfaces # {}
           /\ l[1] = "Serial" => getManagerSerialInterface(l[2]) # {}
           /\ l[1] = "Chassis" => getChassis(l[2]) # {} \/ DeadEnd(l)
           /\ l[1] = "Thermal" => getThermal(l[2]) # {}
           /\ l[1] = "Power" => getPower(l[2]) # {}
           /\ l[1] = "FirmwareList" => getFirmwareInventoryList # {} \/ DeadEnd(l)
           /\ l[1] = "Firmware" => getSoftFwInventory(l[2], FALSE) # {} \/ DeadEnd(l)
           /\ l[1] = "Software" => getSoftFwInventory(l[2], TRUE) # {} \/ DeadEnd(l)
           /\ l[1] = "DCIM" => listDCIMDefault(l[2]) # {}
<1>1. Vendor \in {"Dell", "Cisco", "Redfish", "other"} /\ box.enclosure \in {"none", "alone", "rack", "blade"}
      /\ (Enclosed => box.node)
  BY VendorKnown, BoxAssumption DEF Enclosed
<1>2. ASSUME l[1] = "Manager" PROVE getManager(l[2]) # {} \/ DeadEnd(l)
  <2>1. CASE box.node
    BY <2>1, CompleteNode DEF getManager, Page
  <2>2. CASE ~box.node
    BY <1>2, <2>2 DEF PromisedOther, DeadEnd
  <2> QED BY <2>1, <2>2
<1>3. l[1] = "Protocol" => listManagerNetworkProtocol(l[2]) # {}
  BY DEF PromisedOther, listManagerNetworkProtocol, Page
<1>4. l[1] = "ManagerNics" => listManagerEthernetInterfaces # {}
  BY CompleteNode DEF PromisedOther, listManagerEthernetInterfaces, Page
<1>5. l[1] = "ManagerNic" => getManagerEthernetInterface # {}
  BY CompleteNode DEF PromisedOther, getManagerEthernetInterface, Page
<1>6. l[1] = "Serials" => listManagerSerialInterfaces # {}
  BY CompleteNode DEF PromisedOther, listManagerSerialInterfaces, Page
<1>7. l[1] = "Serial" => getManagerSerialInterface(l[2]) # {}
  BY DueIsStored DEF PromisedOther, getManagerSerialInterface, Page
\* What a chassis needs besides its systems.
<1>8. ASSUME Enclosed
      PROVE  /\ Vendor = "Cisco" => "chassis UCS" \in present /\ "chassis pollers" \in present
             /\ Vendor = "Redfish" => "chassis page" \in present
             /\ Vendor \notin {"Cisco", "Redfish"} => Stored({"ohai", "pollers"})
             /\ Stored({"pollers"})
  <2>1. box.node
    BY <1>1, <1>8
  <2>2. Stored({"pollers"})
    BY <2>1, CompleteNode
  <2> QED BY <1>8, <2>1, <2>2, CatalogsAssumption DEF Complete, Vendor, IsDell, Enclosed, Machine,
             Discovered, Stored
<1>9. ASSUME l[1] = "Chassis" PROVE getChassis(l[2]) # {} \/ DeadEnd(l)
  <2>1. box.enclosure # "none"
    BY <1>9 DEF PromisedOther
  <2>2. CASE box.enclosure = "alone"
    BY <1>9, <2>2 DEF DeadEnd
  <2>3. CASE Enclosed
    BY <1>8, <2>3 DEF getChassis, Page
  <2> QED BY <1>1, <2>1, <2>2, <2>3 DEF Enclosed
<1>10. ASSUME l[1] = "Thermal" PROVE getThermal(l[2]) # {}
  <2>1. Enclosed
    BY <1>10 DEF PromisedOther
  <2> QED BY <1>8, <2>1 DEF getThermal, Page
<1>11. ASSUME l[1] = "Power" PROVE getPower(l[2]) # {}
  <2>1. Enclosed
    BY <1>11 DEF PromisedOther
  <2> QED BY <1>8, <2>1 DEF getPower, Page
<1>12. \A application \in BOOLEAN : PartsDue(application) \subseteq getFwCollections(application)
  BY DueIsStored DEF PartsDue, getFwCollections, Only
<1>13. ASSUME l[1] = "FirmwareList" PROVE getFirmwareInventoryList # {} \/ DeadEnd(l)
  BY <1>13 DEF DeadEnd, getFirmwareInventoryList, Page
<1>14. ASSUME l[1] = "Firmware" PROVE getSoftFwInventory(l[2], FALSE) # {} \/ DeadEnd(l)
  <2>1. l[2] \in getFwCollections(FALSE)
    BY <1>12, <1>14 DEF PromisedOther
  <2>2. CASE getVersions(FALSE) /\ updateChassisIds(l[2])
    BY <2>1, <2>2 DEF getSoftFwInventory, Page
  <2>3. CASE ~getVersions(FALSE)
    BY <1>14, <2>3 DEF DeadEnd
  <2>4. CASE ~updateChassisIds(l[2])
    BY <1>14, <2>4 DEF DeadEnd, updateChassisIds
  <2> QED BY <2>2, <2>3, <2>4
<1>15. ASSUME l[1] = "Software" PROVE getSoftFwInventory(l[2], TRUE) # {} \/ DeadEnd(l)
  <2>1. l[2] \in PartsDue(TRUE) /\ l[2] \in getFwCollections(TRUE)
    BY <1>12, <1>15 DEF PromisedOther
  <2>2. updateChassisIds(l[2])
    BY <2>1, BoxAssumption DEF PartsDue, Only, Machine, updateChassisIds
  <2>3. CASE getVersions(TRUE)
    BY <2>1, <2>2, <2>3 DEF getSoftFwInventory, Page
  <2>4. CASE ~getVersions(TRUE)
    BY <1>15, <2>4 DEF DeadEnd
  <2> QED BY <2>3, <2>4
<1>16. l[1] = "DCIM" => listDCIMDefault(l[2]) # {}
  BY DEF PromisedOther, Discovered, listDCIMDefault, Page
<1> QED BY <1>2, <1>3, <1>4, <1>5, <1>6, <1>7, <1>9, <1>10, <1>11, <1>13, <1>14, <1>15, <1>16

\* The pages that are always there.
LEMMA TreeAnswers ==
    ASSUME NEW k, NEW d, NEW t
    PROVE  /\ getServiceRoot # {} /\ listSystems # {} /\ listManagers # {} /\ listChassis # {}
           /\ getUpdateService # {} /\ listLocalEthernetInterfaces # {}
           /\ getLocalEthernetInterface # {} /\ listDCIMDomainCollection(k) # {}
           /\ listDCIMDomain(k, d) # {} /\ listDCIMTypeCollection(k, d, t) # {}
BY DEF getServiceRoot, listSystems, listManagers, listChassis, getUpdateService,
       listLocalEthernetInterfaces, getLocalEthernetInterface, listDCIMDomainCollection,
       listDCIMDomain, listDCIMTypeCollection, Page

\* Once all is stored, a promise is kept or a dead end.
LEMMA PromiseKept ==
    ASSUME box \in Box, Discovered, NEW l, Promised(l)
    PROVE  Get(l) # {} \/ DeadEnd(l)
<1>1. l[1] \in Kinds /\ PromisedSystem(l) /\ PromisedStorage(l) /\ PromisedOther(l)
  BY DEF Promised
<1>2. CASE l[1] = "Root"
  <2>1. Get(l) = getServiceRoot
    BY <1>2 DEF Get
  <2> QED BY <1>1, <1>2, <2>1, TreeAnswers
<1>3. CASE l[1] = "Systems"
  <2>1. Get(l) = listSystems
    BY <1>3 DEF Get
  <2> QED BY <1>1, <1>3, <2>1, TreeAnswers
<1>4. CASE l[1] = "System"
  <2>1. Get(l) = getSystem
    BY <1>4 DEF Get
  <2> QED BY <1>1, <1>4, <2>1, SystemAnswers
<1>5. CASE l[1] = "Processors"
  <2>1. Get(l) = listSystemProcessors
    BY <1>5 DEF Get
  <2> QED BY <1>1, <1>5, <2>1, SystemAnswers
<1>6. CASE l[1] = "Processor"
  <2>1. Get(l) = getSystemProcessor(l[2])
    BY <1>6 DEF Get
  <2> QED BY <1>1, <1>6, <2>1, SystemAnswers
<1>7. CASE l[1] = "Nics"
  <2>1. Get(l) = listSystemEthernetInterfaces
    BY <1>7 DEF Get
  <2> QED BY <1>1, <1>7, <2>1, SystemAnswers
<1>8. CASE l[1] = "Nic"
  <2>1. Get(l) = listSystemEthernetInterfacesById(l[2])
    BY <1>8 DEF Get
  <2> QED BY <1>1, <1>8, <2>1, SystemAnswers
<1>9. CASE l[1] = "BiosSettings"
  <2>1. Get(l) = listSystemBiosSettings
    BY <1>9 DEF Get
  <2> QED BY <1>1, <1>9, <2>1, SystemAnswers
<1>10. CASE l[1] = "SimpleStorages"
  <2>1. Get(l) = listSimpleStorage
    BY <1>10 DEF Get
  <2> QED BY <1>1, <1>10, <2>1, StorageAnswers
<1>11. CASE l[1] = "SimpleStorage"
  <2>1. Get(l) = getSimpleStorage(l[2])
    BY <1>11 DEF Get
  <2> QED BY <1>1, <1>11, <2>1, StorageAnswers
<1>12. CASE l[1] = "Storages"
  <2>1. Get(l) = listStorage
    BY <1>12 DEF Get
  <2> QED BY <1>1, <1>12, <2>1, StorageAnswers
<1>13. CASE l[1] = "Storage"
  <2>1. Get(l) = getStorage(l[2])
    BY <1>13 DEF Get
  <2> QED BY <1>1, <1>13, <2>1, StorageAnswers
<1>14. CASE l[1] = "Drive"
  <2>1. Get(l) = getDrive(l[2], l[3])
    BY <1>14 DEF Get
  <2> QED BY <1>1, <1>14, <2>1, StorageAnswers
<1>15. CASE l[1] = "Volumes"
  <2>1. Get(l) = listVolume(l[2])
    BY <1>15 DEF Get
  <2> QED BY <1>1, <1>15, <2>1, StorageAnswers
<1>16. CASE l[1] = "Volume"
  <2>1. Get(l) = getVolume(l[2], l[3])
    BY <1>16 DEF Get
  <2> QED BY <1>1, <1>16, <2>1, StorageAnswers
<1>17. CASE l[1] = "Logs"
  <2>1. Get(l) = listLogService
    BY <1>17 DEF Get
  <2> QED BY <1>1, <1>17, <2>1, SystemAnswers
<1>18. CASE l[1] = "Sel"
  <2>1. Get(l) = getSelLogService
    BY <1>18 DEF Get
  <2> QED BY <1>1, <1>18, <2>1, SystemAnswers
<1>19. CASE l[1] = "SelEntries"
  <2>1. Get(l) = listSelLogServiceEntries
    BY <1>19 DEF Get
  <2> QED BY <1>1, <1>19, <2>1, SystemAnswers
<1>20. CASE l[1] = "SelEntry"
  <2>1. Get(l) = getSelLogServiceEntry(l[2])
    BY <1>20 DEF Get
  <2> QED BY <1>1, <1>20, <2>1, SystemAnswers
<1>21. CASE l[1] = "Lc"
  <2>1. Get(l) = getLcLogService
    BY <1>21 DEF Get
  <2> QED BY <1>1, <1>21, <2>1, SystemAnswers
<1>22. CASE l[1] = "LcEntries"
  <2>1. Get(l) = listLcLogServiceEntries
    BY <1>22 DEF Get
  <2> QED BY <1>1, <1>22, <2>1, SystemAnswers
<1>23. CASE l[1] = "LcEntry"
  <2>1. Get(l) = getLcLogServiceEntry(l[2])
    BY <1>23 DEF Get
  <2> QED BY <1>1, <1>23, <2>1, SystemAnswers
<1>24. CASE l[1] = "Managers"
  <2>1. Get(l) = listManagers
    BY <1>24 DEF Get
  <2> QED BY <1>1, <1>24, <2>1, TreeAnswers
<1>25. CASE l[1] = "Manager"
  <2>1. Get(l) = getManager(l[2])
    BY <1>25 DEF Get
  <2> QED BY <1>1, <1>25, <2>1, OtherAnswers
<1>26. CASE l[1] = "Protocol"
  <2>1. Get(l) = listManagerNetworkProtocol(l[2])
    BY <1>26 DEF Get
  <2> QED BY <1>1, <1>26, <2>1, OtherAnswers
<1>27. CASE l[1] = "ManagerNics"
  <2>1. Get(l) = listManagerEthernetInterfaces
    BY <1>27 DEF Get
  <2> QED BY <1>1, <1>27, <2>1, OtherAnswers
<1>28. CASE l[1] = "ManagerNic"
  <2>1. Get(l) = getManagerEthernetInterface
    BY <1>28 DEF Get
  <2> QED BY <1>1, <1>28, <2>1, OtherAnswers
<1>29. CASE l[1] = "LocalNics"
  <2>1. Get(l) = listLocalEthernetInterfaces
    BY <1>29 DEF Get
  <2> QED BY <1>1, <1>29, <2>1, TreeAnswers
<1>30. CASE l[1] = "LocalNic"
  <2>1. Get(l) = getLocalEthernetInterface
    BY <1>30 DEF Get
  <2> QED BY <1>1, <1>30, <2>1, TreeAnswers
<1>31. CASE l[1] = "Serials"
  <2>1. Get(l) = listManagerSerialInterfaces
    BY <1>31 DEF Get
  <2> QED BY <1>1, <1>31, <2>1, OtherAnswers
<1>32. CASE l[1] = "Serial"
  <2>1. Get(l) = getManagerSerialInterface(l[2])
    BY <1>32 DEF Get
  <2> QED BY <1>1, <1>32, <2>1, OtherAnswers
<1>33. CASE l[1] = "ChassisList"
  <2>1. Get(l) = listChassis
    BY <1>33 DEF Get
  <2> QED BY <1>1, <1>33, <2>1, TreeAnswers
<1>34. CASE l[1] = "Chassis"
  <2>1. Get(l) = getChassis(l[2])
    BY <1>34 DEF Get
  <2> QED BY <1>1, <1>34, <2>1, OtherAnswers
<1>35. CASE l[1] = "Thermal"
  <2>1. Get(l) = getThermal(l[2])
    BY <1>35 DEF Get
  <2> QED BY <1>1, <1>35, <2>1, OtherAnswers
<1>36. CASE l[1] = "Power"
  <2>1. Get(l) = getPower(l[2])
    BY <1>36 DEF Get
  <2> QED BY <1>1, <1>36, <2>1, OtherAnswers
<1>37. CASE l[1] = "UpdateService"
  <2>1. Get(l) = getUpdateService
    BY <1>37 DEF Get
  <2> QED BY <1>1, <1>37, <2>1, TreeAnswers
<1>38. CASE l[1] = "FirmwareList"
  <2>1. Get(l) = getFirmwareInventoryList
    BY <1>38 DEF Get
  <2> QED BY <1>1, <1>38, <2>1, OtherAnswers
<1>39. CASE l[1] = "Firmware"
  <2>1. Get(l) = getSoftFwInventory(l[2], FALSE)
    BY <1>39 DEF Get
  <2> QED BY <1>1, <1>39, <2>1, OtherAnswers
<1>40. CASE l[1] = "Software"
  <2>1. Get(l) = getSoftFwInventory(l[2], TRUE)
    BY <1>40 DEF Get
  <2> QED BY <1>1, <1>40, <2>1, OtherAnswers
<1>41. CASE l[1] = "DCIMs"
  <2>1. Get(l) = listDCIMDomainCollection(l[2])
    BY <1>41 DEF Get
  <2> QED BY <1>1, <1>41, <2>1, TreeAnswers
<1>42. CASE l[1] = "Domain"
  <2>1. Get(l) = listDCIMDomain(l[2], l[3])
    BY <1>42 DEF Get
  <2> QED BY <1>1, <1>42, <2>1, TreeAnswers
<1>43. CASE l[1] = "DCIMType"
  <2>1. Get(l) = listDCIMTypeCollection(l[2], l[3], l[4])
    BY <1>43 DEF Get
  <2> QED BY <1>1, <1>43, <2>1, TreeAnswers
<1>44. CASE l[1] = "DCIM"
  <2>1. Get(l) = listDCIMDefault(l[2])
    BY <1>44 DEF Get
  <2> QED BY <1>1, <1>44, <2>1, OtherAnswers
<1>45. CASE l[1] = "NetworkDevice"
  BY <1>45 DEF DeadEnd
<1> QED BY <1>1, <1>2, <1>3, <1>4, <1>5, <1>6, <1>7, <1>8, <1>9, <1>10, <1>11, <1>12, <1>13,
           <1>14, <1>15, <1>16, <1>17, <1>18, <1>19, <1>20, <1>21, <1>22, <1>23, <1>24, <1>25,
           <1>26, <1>27, <1>28, <1>29, <1>30, <1>31, <1>32, <1>33, <1>34, <1>35, <1>36, <1>37,
           <1>38, <1>39, <1>40, <1>41, <1>42, <1>43, <1>44, <1>45 DEF Kinds

\* A promise does not depend on what is stored.
LEMMA BoxStays ==
    ASSUME box' = box
    PROVE  \A l : Promised(l) => Promised(l)'
<1>1. /\ IsDell' = IsDell /\ Vendor' = Vendor /\ Enclosed' = Enclosed /\ Machine' = Machine
      /\ NicSource' = NicSource /\ LogSource' = LogSource
  <2>1. /\ IsDell' = IsDell /\ Enclosed' = Enclosed /\ Machine' = Machine
        /\ NicSource' = NicSource /\ LogSource' = LogSource
    BY DEF IsDell, DellIn, Enclosed, Machine, NicSource, LogSource
  <2>2. Vendor' = Vendor
    BY DEF Vendor, VendorOf, SelectInSeq
  <2> QED BY <2>1, <2>2
<1>2. SocketsListed' = SocketsListed /\ SmartControllers' = SmartControllers
  BY <1>1 DEF SocketsListed, Populated, SmartControllers
<1>3. \A sources : Due(sources)' <=> Due(sources)
  BY DEF Due
<1>4. \A application \in BOOLEAN : PartsDue(application)' = PartsDue(application)
  BY <1>1, <1>3 DEF PartsDue
<1>5. ASSUME NEW l, Promised(l) PROVE Promised(l)'
  <2>1. l[1] \in Kinds /\ PromisedSystem(l) /\ PromisedStorage(l) /\ PromisedOther(l)
    BY <1>5 DEF Promised
  <2>2. PromisedSystem(l)'
    BY <1>1, <1>2, <1>3, <2>1 DEF PromisedSystem
  <2>3. PromisedStorage(l)'
    BY <1>1, <1>2, <1>3, <2>1 DEF PromisedStorage
  <2>4. PromisedOther(l)'
    BY <1>1, <1>3, <1>4, <2>1 DEF PromisedOther
  <2> QED BY <2>1, <2>2, <2>3, <2>4 DEF Promised, Kinds
<1> QED BY <1>5

\* Once all is stored, every link of any page a client has got answers with a page or is one
\* of the known dead ends: for any machines, with any number of sockets, controllers, drives
\* and volumes, whose catalogs are complete in the end, and for any order in which they are
\* stored while the client walks from link to link.
THEOREM LinksAlwaysFollowed == InventorySpec => []LinksCanBeFollowed
<1>1. InventoryInit => WalkInv
  <2> SUFFICES ASSUME InventoryInit PROVE WalkInv
    OBVIOUS
  <2>1. box \in Box /\ present \subseteq box.expected /\ shown = {<<"Root">>}
    BY DEF InventoryInit
  <2>2. ASSUME NEW l \in shown PROVE Promised(l)
    <3>1. l[1] = "Root"
      BY <2>1
    <3> QED BY <3>1 DEF Promised, PromisedSystem, PromisedStorage, PromisedOther, Kinds
  <2> QED BY <2>1, <2>2 DEF WalkInv
<1>2. WalkInv /\ [InventoryNext]_rvars => WalkInv'
  <2> SUFFICES ASSUME WalkInv, [InventoryNext]_rvars PROVE WalkInv'
    OBVIOUS
  <2>1. box \in Box /\ present \subseteq box.expected /\ \A l \in shown : Promised(l)
    BY DEF WalkInv
  <2>2. ASSUME box' = box PROVE \A l \in shown' : Promised(l) => Promised(l)'
    BY <2>1, <2>2, BoxStays
  <2>3. CASE Follow
    <3>1. PICK l \in shown \cup Known : \E links \in Get(l) :
              shown' = links /\ box' = box /\ present' = present
      BY <2>3 DEF Follow
    <3>2. PromisedOrKnown(l)
      BY <2>1, <3>1 DEF PromisedOrKnown
    <3>3. \A x \in shown' : Promised(x)
      BY <2>1, <3>1, <3>2, ShownIsPromised
    <3> QED BY <2>1, <2>2, <3>1, <3>3 DEF WalkInv
  <2>4. CASE Store
    <3>1. box' = box /\ shown' = shown /\ present' \subseteq box.expected
      BY <2>1, <2>4 DEF Store
    <3> QED BY <2>1, <2>2, <3>1 DEF WalkInv
  <2>5. CASE UNCHANGED rvars
    <3>1. box' = box /\ shown' = shown /\ present' = present
      BY <2>5 DEF rvars
    <3> QED BY <2>1, <2>2, <3>1 DEF WalkInv
  <2> QED BY <2>3, <2>4, <2>5 DEF InventoryNext
<1>3. WalkInv => LinksCanBeFollowed
  BY PromiseKept DEF WalkInv, LinksCanBeFollowed
<1> QED BY <1>1, <1>2, <1>3, PTL DEF InventorySpec
=============================================================================
