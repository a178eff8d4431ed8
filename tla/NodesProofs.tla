---------------------------- MODULE NodesProofs ----------------------------
(***************************************************************************)
(* Proofs about the nodes API, for every inventory, every set of requests  *)
(* and every interleaving: what the handlers keep across an await is well- *)
(* formed, a component is gone before its enclosure, a node under a        *)
(* workflow survives when no workflow starts meanwhile, and a node's       *)
(* documents are gone when its event is published.                         *)
(***************************************************************************)
EXTENDS Nodes, SequenceTheorems, WellFoundedInduction, TLAPS

-----------------------------------------------------------------------------
(* The inductive invariant                                                 *)

Stage == {"check", "branches", "destroy", "publish", "done", "failed"}
Destroying == {"destroy", "publish", "done"}

\* The records of the calls have the fields the actions update.
CallShape(c) ==
    /\ c = [stage |-> c.stage, rels |-> c.rels, src |-> c.src,
            branch |-> c.branch, left |-> c.left]
    /\ c.stage \in Stage
    /\ c.branch = [t \in DOMAIN c.branch |-> [at |-> c.branch[t].at, found |-> c.branch[t].found]]
    /\ \A t \in DOMAIN c.branch : DOMAIN c.branch[t].found \subseteq Node
    /\ c.stage = "check" => DOMAIN c.branch = {}

CallsTyped ==
    /\ DOMAIN db \subseteq Node
    /\ DOMAIN phase = Request
    /\ removals = [k \in DOMAIN removals |-> removals[k]]
    /\ \A k \in DOMAIN removals : /\ k \in CallId /\ k.path # <<>>
                                  /\ phase[k.req] # "idle"
                                  /\ CallShape(removals[k])

\* A call that has cleared the nodes collection has no node there any more,
\* unless the datastore may fail: a failed write is swallowed.
NodeGone(k) ==
    /\ "nodes" \notin removals[k].left /\ "destroy" \notin Faults => NodeOf(k) \notin DOMAIN db
    /\ removals[k].stage \in {"publish", "done"} => "nodes" \notin removals[k].left

\* The calls made for the components exist once they have been made ...
ComponentsCalled(k) ==
    \A t \in DOMAIN removals[k].branch :
        Cascades(t) /\ removals[k].branch[t].at = "calls" =>
            \A m \in DOMAIN removals[k].branch[t].found : Child(k, m) \in DOMAIN removals

\* ... and not before that.
HasCalled(k) ==
    \E t \in DOMAIN removals[k].branch : Cascades(t) /\ removals[k].branch[t].at = "calls"

CallersExist ==
    \A k \in CallId, m \in Node :
        k.path # <<>> /\ Child(k, m) \in DOMAIN removals => k \in DOMAIN removals /\ HasCalled(k)

\* A call that destroys has seen every call for its components succeed.
ComponentsDone(k) ==
    removals[k].stage \in Destroying =>
        \A t \in DOMAIN removals[k].branch :
            Cascades(t) =>
                /\ removals[k].branch[t].at = "calls"
                /\ \A m \in DOMAIN removals[k].branch[t].found :
                      removals[Child(k, m)].stage = "done"

IInv ==
    /\ CallsTyped
    /\ CallersExist
    /\ \A k \in DOMAIN removals : NodeGone(k) /\ ComponentsCalled(k) /\ ComponentsDone(k)

-----------------------------------------------------------------------------
(* Call identifiers                                                        *)

\* The call made for component m of call k is about m, and is another call.
LEMMA ChildFacts ==
    ASSUME NEW k \in CallId, NEW m \in Node
    PROVE  /\ Child(k, m) \in CallId
           /\ Child(k, m).path # <<>>
           /\ Child(k, m).req = k.req
           /\ NodeOf(Child(k, m)) = m
           /\ Child(k, m) # k
<1>1. k.path \in Seq(Node) /\ k.req \in Request
  BY DEF CallId
<1>2. /\ Append(k.path, m) \in Seq(Node)
      /\ Len(Append(k.path, m)) = Len(k.path) + 1
      /\ Append(k.path, m)[Len(k.path) + 1] = m
  BY <1>1
<1>3. Len(k.path) \in Nat
  BY <1>1
<1>4. Append(k.path, m) # <<>> /\ Append(k.path, m) # k.path
  BY <1>2, <1>3
<1> QED
  BY <1>1, <1>2, <1>4 DEF CallId, Child, NodeOf, Last

\* Different callers or components make different calls.
LEMMA ChildInjective ==
    ASSUME NEW k \in CallId, NEW j \in CallId, NEW m \in Node, NEW n \in Node,
           Child(k, m) = Child(j, n)
    PROVE  k = j /\ m = n
<1>1. k.path \in Seq(Node) /\ j.path \in Seq(Node)
  BY DEF CallId
<1>2. k.req = j.req /\ Append(k.path, m) = Append(j.path, n)
  BY DEF Child
<1>3. m = n /\ k.path = j.path
  <2> DEFINE p == k.path
             q == j.path
  <2>1. p \in Seq(Node) /\ q \in Seq(Node) /\ Append(p, m) = Append(q, n)
    BY <1>1, <1>2
  <2> HIDE DEF p, q
  <2>2. m = n /\ p = q
    BY <2>1, AppendInjective
  <2> QED BY <2>2 DEF p, q
<1>4. k.req = j.req
  BY <1>2
<1> QED
  BY <1>3, <1>4 DEF CallId

\* Only one relation type cascades.
LEMMA OneCascade ==
    ASSUME NEW t, NEW s, Cascades(t), Cascades(s)
    PROVE  t = s
<1>1. RelationType = {"encloses", "enclosedBy", "contains", "containedBy", "powers", "poweredBy"}
  BY DEF RelationType, NodeRelations
<1>2. /\ NodeRelations["contains"].relationClass = "container"
      /\ NodeRelations["powers"].relationClass = "dependency"
  BY DEF NodeRelations
<1>3. ASSUME NEW u, Cascades(u) PROVE u = "encloses"
  BY <1>1, <1>2, <1>3 DEF Cascades
<1> QED
  BY <1>3

-----------------------------------------------------------------------------
(* What the actions of a call change in its record                         *)

\* Only the record of call k changes, and not what it was called with.
Changes(k) ==
    /\ removals' = [c \in DOMAIN removals |-> IF c = k THEN removals'[k] ELSE removals[c]]
    /\ DOMAIN removals' = DOMAIN removals
    /\ \A c \in DOMAIN removals : c # k => removals'[c] = removals[c]
    /\ removals'[k].rels = removals[k].rels /\ removals'[k].src = removals[k].src

SameBranches(k) == removals'[k].branch = removals[k].branch

\* The branch for type t is replaced.
BranchIs(k, t, b) ==
    /\ t \in DOMAIN removals[k].branch
    /\ DOMAIN removals'[k].branch = DOMAIN removals[k].branch
    /\ removals'[k].branch[t] = b
    /\ \A s \in DOMAIN removals[k].branch : s # t => removals'[k].branch[s] = removals[k].branch[s]

\* The branches of a record are well-formed.
BranchShape(branch) ==
    /\ branch = [t \in DOMAIN branch |-> [at |-> branch[t].at, found |-> branch[t].found]]
    /\ \A t \in DOMAIN branch : DOMAIN branch[t].found \subseteq Node

\* The record of call k gets another stage, other branches and other work left.
Becomes(k, stage, branch, left) ==
    removals' = [removals EXCEPT ![k] = [removals[k] EXCEPT !.stage = stage, !.branch = branch,
                                                            !.left = left]]

\* A record that has left the validity check: what has changed, and its shape.
LEMMA NewRecord ==
    ASSUME IInv, NEW k \in DOMAIN removals, NEW stage \in Stage \ {"check"}, NEW branch, NEW left,
           BranchShape(branch), Becomes(k, stage, branch, left)
    PROVE  /\ Changes(k) /\ CallShape(removals[k])'
           /\ removals'[k].stage = stage /\ removals'[k].branch = branch /\ removals'[k].left = left
<1>1. CallShape(removals[k]) /\ removals = [c \in DOMAIN removals |-> removals[c]]
  BY DEF IInv, CallsTyped
<1>2. /\ removals' = [c \in DOMAIN removals |-> IF c = k THEN removals'[k] ELSE removals[c]]
      /\ removals'[k] = [removals[k] EXCEPT !.stage = stage, !.branch = branch, !.left = left]
  BY <1>1 DEF Becomes
<1>3. removals'[k] = [stage |-> stage, rels |-> removals[k].rels, src |-> removals[k].src,
                      branch |-> branch, left |-> left]
  BY <1>1, <1>2 DEF CallShape
<1>4. /\ removals'[k].stage = stage /\ removals'[k].rels = removals[k].rels
      /\ removals'[k].src = removals[k].src /\ removals'[k].branch = branch
      /\ removals'[k].left = left
  BY <1>3
<1>5. Changes(k)
  BY <1>2, <1>4 DEF Changes
<1>6. CallShape(removals[k])'
  BY <1>3, <1>4 DEF CallShape, BranchShape
<1> QED
  BY <1>4, <1>5, <1>6

\* One branch gets on: the branches stay well-formed.
LEMMA BranchReplaced ==
    ASSUME NEW branch, NEW t \in DOMAIN branch, NEW at, NEW found,
           BranchShape(branch), DOMAIN found \subseteq Node
    PROVE  BranchShape([branch EXCEPT ![t] = [at |-> at, found |-> found]])
<1> DEFINE b == [at |-> at, found |-> found]
           new == [branch EXCEPT ![t] = b]
<1>1. b.at = at /\ b.found = found
  OBVIOUS
<1>2. /\ DOMAIN new = DOMAIN branch /\ new[t] = b
      /\ \A s \in DOMAIN branch : s # t => new[s] = branch[s]
      /\ new = [s \in DOMAIN new |-> new[s]]
  BY DEF BranchShape
<1> HIDE DEF new
<1>3. ASSUME NEW s \in DOMAIN new
      PROVE  /\ new[s] = [at |-> new[s].at, found |-> new[s].found]
             /\ DOMAIN new[s].found \subseteq Node
  <2>1. CASE s = t
    BY <1>1, <1>2, <2>1
  <2>2. CASE s # t
    BY <1>2, <1>3, <2>2 DEF BranchShape
  <2> QED BY <2>1, <2>2
<1>4. BranchShape(new)
  BY <1>2, <1>3 DEF BranchShape
<1> QED BY <1>4 DEF new

\* The branches of every call are well-formed.
LEMMA BranchesShaped ==
    ASSUME IInv, NEW k \in DOMAIN removals
    PROVE  BranchShape(removals[k].branch)
<1>1. CallShape(removals[k])
  BY DEF IInv, CallsTyped
<1> QED BY <1>1 DEF CallShape, BranchShape

\* The fields that an update leaves out stay.
LEMMA SameFields ==
    ASSUME IInv, NEW k \in DOMAIN removals
    PROVE  /\ \A s : [removals[k] EXCEPT !.stage = s] =
                     [removals[k] EXCEPT !.stage = s, !.branch = removals[k].branch,
                                         !.left = removals[k].left]
           /\ \A b : [removals[k] EXCEPT !.branch = b] =
                     [removals[k] EXCEPT !.stage = removals[k].stage, !.branch = b,
                                         !.left = removals[k].left]
           /\ \A s, b : [removals[k] EXCEPT !.stage = s, !.branch = b] =
                     [removals[k] EXCEPT !.stage = s, !.branch = b, !.left = removals[k].left]
           /\ \A s, l : [removals[k] EXCEPT !.left = l, !.stage = s] =
                     [removals[k] EXCEPT !.stage = s, !.branch = removals[k].branch, !.left = l]
<1> DEFINE c == removals[k]
<1>1. CallShape(c)
  BY DEF IInv, CallsTyped
<1> HIDE DEF c
<1>2. /\ \A s : [c EXCEPT !.stage = s] = [c EXCEPT !.stage = s, !.branch = c.branch, !.left = c.left]
      /\ \A b : [c EXCEPT !.branch = b] = [c EXCEPT !.stage = c.stage, !.branch = b, !.left = c.left]
      /\ \A s, b : [c EXCEPT !.stage = s, !.branch = b] = [c EXCEPT !.stage = s, !.branch = b, !.left = c.left]
      /\ \A s, l : [c EXCEPT !.left = l, !.stage = s] = [c EXCEPT !.stage = s, !.branch = c.branch, !.left = l]
  BY <1>1 DEF CallShape
<1> QED BY <1>2 DEF c

\* _delValidityCheck of the call's node: the call fails, or has a branch per relation.
LEMMA CheckFacts ==
    ASSUME IInv, NEW k \in DOMAIN removals, CheckActive(k)
    PROVE  /\ Changes(k) /\ removals'[k].left = removals[k].left
           /\ CallShape(removals[k])'
           /\ removals[k].stage = "check" /\ removals'[k].stage \in {"failed", "branches"}
           /\ removals'[k].stage = "branches" =>
                 NodeOf(k) \notin active /\ DOMAIN removals'[k].branch = Types(k)
           /\ removals'[k].stage = "failed" => DOMAIN removals'[k].branch = {}
           /\ DOMAIN removals'[k].branch \subseteq Types(k)
           /\ \A t \in DOMAIN removals'[k].branch :
                 removals'[k].branch[t] = [at |-> "find", found |-> <<>>]
           /\ UNCHANGED <<db, docs, active, phase, parent, unlinks, adds, announced>>
<1> DEFINE fresh == [t \in Types(k) |-> [at |-> "find", found |-> <<>>]]
<1>1. /\ removals[k].stage = "check" /\ DOMAIN removals[k].branch = {}
      /\ UNCHANGED <<db, docs, active, phase, parent, unlinks, adds, announced>>
  BY DEF IInv, CallsTyped, CallShape, CheckActive
<1>2. PICK stage \in {"failed", "branches"}, branch \in {removals[k].branch, fresh} :
        /\ Becomes(k, stage, branch, removals[k].left)
        /\ stage = "branches" => NodeOf(k) \notin active /\ branch = fresh
        /\ stage = "failed" => branch = removals[k].branch
  <2>1. CASE removals' = [removals EXCEPT ![k].stage = "failed"]
    <3>1. removals' = [removals EXCEPT ![k] = [removals[k] EXCEPT !.stage = "failed"]]
      BY <2>1
    <3>2. Becomes(k, "failed", removals[k].branch, removals[k].left)
      BY <3>1, SameFields DEF Becomes
    <3> QED BY <3>2
  <2>2. CASE /\ NodeOf(k) \notin active
             /\ removals' = [removals EXCEPT ![k].stage = "branches", ![k].branch = fresh]
    <3>1. removals' = [removals EXCEPT ![k] = [removals[k] EXCEPT !.stage = "branches", !.branch = fresh]]
      BY <2>2
    <3>2. Becomes(k, "branches", fresh, removals[k].left)
      BY <3>1, SameFields DEF Becomes
    <3> QED BY <2>2, <3>2
  <2> QED BY <2>1, <2>2 DEF CheckActive
<1>3. /\ DOMAIN branch \subseteq Types(k)
      /\ stage = "branches" => DOMAIN branch = Types(k)
      /\ stage = "failed" => DOMAIN branch = {}
      /\ \A t \in DOMAIN branch : branch[t] = [at |-> "find", found |-> <<>>]
  BY <1>1, <1>2
<1>4. BranchShape(branch)
  <2>1. BranchShape(fresh)
    BY DEF BranchShape
  <2> QED BY <2>1, BranchesShaped
<1>5. stage \in Stage \ {"check"}
  BY DEF Stage
<1> HIDE DEF fresh
<1>6. /\ Changes(k) /\ CallShape(removals[k])' /\ removals'[k].stage = stage
      /\ removals'[k].branch = branch /\ removals'[k].left = removals[k].left
  BY <1>2, <1>4, <1>5, NewRecord
<1> QED
  BY <1>1, <1>2, <1>3, <1>6

\* The documents of the targets, as the branch keeps them.
Wanted(k, t) == ToSet(removals[k].rels[IndexOf(removals[k].rels, t)].targets)

\* Branch t of call k has read "found", and withdraws the node there.
Finds(k, t, found) ==
    /\ DOMAIN found \subseteq Wanted(k, t) \cap DOMAIN db
    /\ "find" \notin Faults /\ Wanted(k, t) \subseteq DOMAIN db => DOMAIN found = Wanted(k, t)
    /\ \A m \in DOMAIN found : found[m] = db[m]
    /\ BranchIs(k, t, [at |-> IF Cascades(t) THEN "validate" ELSE "calls", found |-> found])
    /\ unlinks' = unlinks \cup
         IF Cascades(t) THEN {}
         ELSE UNION {StartUnlink(k, m, found[m], NodeRelations[t].mapping, {NodeOf(k)})
                       : m \in DOMAIN found}

\* A branch has read its targets, or given up on them.
LEMMA FindFacts ==
    ASSUME IInv, NEW k \in DOMAIN removals, NEW t, FindTargets(k, t)
    PROVE  /\ Changes(k) /\ removals'[k].left = removals[k].left
           /\ CallShape(removals[k])'
           /\ removals[k].stage \in {"branches", "failed"}
           /\ removals'[k].stage = removals[k].stage
           /\ t \in DOMAIN removals[k].branch /\ removals[k].branch[t].at = "find"
           /\ \E found : Finds(k, t, found)
           /\ UNCHANGED <<db, docs, active, phase, parent, adds, announced>>
<1> DEFINE wanted == Wanted(k, t)
           all == [m \in wanted |-> db[m]]
           at == IF Cascades(t) THEN "validate" ELSE "calls"
           branch == removals[k].branch
<1>1. /\ removals[k].stage \in {"branches", "failed"} /\ DOMAIN db \subseteq Node
      /\ t \in DOMAIN branch /\ branch[t].at = "find"
      /\ UNCHANGED <<db, docs, active, phase, parent, adds, announced>>
  BY DEF IInv, CallsTyped, FindTargets
<1>2. PICK found \in (IF wanted \subseteq DOMAIN db THEN {all} ELSE {<<>>})
                          \cup (IF "find" \in Faults THEN {<<>>} ELSE {}) :
        /\ removals' = [removals EXCEPT ![k].branch[t] = [at |-> at, found |-> found]]
        /\ unlinks' = unlinks \cup
             IF Cascades(t) THEN {}
             ELSE UNION {StartUnlink(k, m, found[m], NodeRelations[t].mapping, {NodeOf(k)})
                           : m \in DOMAIN found}
  BY DEF FindTargets, Wanted
<1>3. /\ DOMAIN found \subseteq wanted \cap DOMAIN db
      /\ "find" \notin Faults /\ wanted \subseteq DOMAIN db => DOMAIN found = wanted
      /\ \A m \in DOMAIN found : found[m] = db[m]
  <2>1. DOMAIN <<>> = {}
    OBVIOUS
  <2>2. found = <<>> \/ (found = all /\ wanted \subseteq DOMAIN db)
    BY <1>2
  <2> QED BY <2>1, <2>2
<1> DEFINE b == [at |-> at, found |-> found]
           new == [branch EXCEPT ![t] = b]
<1>4. BranchShape(branch) /\ BranchShape(new)
  <2>1. DOMAIN found \subseteq Node
    BY <1>1, <1>3
  <2> QED BY <1>1, <2>1, BranchesShaped, BranchReplaced
<1>5. removals' = [removals EXCEPT ![k] = [removals[k] EXCEPT !.branch = new]]
  BY <1>2
<1>6. DOMAIN new = DOMAIN branch /\ new[t] = b /\ \A s \in DOMAIN branch : s # t => new[s] = branch[s]
  BY <1>1, <1>4 DEF BranchShape
<1> HIDE DEF new, b
<1>7. Becomes(k, removals[k].stage, new, removals[k].left)
  BY <1>5, SameFields DEF Becomes
<1>8. /\ Changes(k) /\ CallShape(removals[k])' /\ removals'[k].stage = removals[k].stage
      /\ removals'[k].branch = new /\ removals'[k].left = removals[k].left
  <2>1. removals[k].stage \in Stage \ {"check"}
    BY <1>1 DEF Stage
  <2> QED BY <1>4, <1>7, <2>1, NewRecord
<1>9. BranchIs(k, t, b)
  BY <1>1, <1>6, <1>8 DEF BranchIs
<1>10. Finds(k, t, found)
  <2>1. unlinks' = unlinks \cup
             IF Cascades(t) THEN {}
             ELSE UNION {StartUnlink(k, m, found[m], NodeRelations[t].mapping, {NodeOf(k)})
                           : m \in DOMAIN found}
    BY <1>2
  <2> QED BY <1>3, <1>9, <2>1 DEF Finds, b
<1> QED
  BY <1>1, <1>8, <1>10

\* The components of a branch that is validated.
Components(k, t) == {Child(k, m) : m \in DOMAIN removals[k].branch[t].found}

\* A call for a component: it has done nothing yet.
NewCall(c, src) ==
    /\ c \notin DOMAIN removals /\ CallShape(removals[c])'
    /\ removals'[c].stage = "check" /\ removals'[c].src = src
    /\ removals'[c].left = Cleared /\ DOMAIN removals'[c].branch = {}

\* What holds of a call when it is made.
LEMMA NewRemovalFacts ==
    ASSUME NEW c, NEW rels, NEW src, c \notin DOMAIN removals, removals'[c] = NewRemoval(rels, src)
    PROVE  NewCall(c, src)
<1>1. DOMAIN <<>> = {} /\ <<>> = [s \in {} |-> [at |-> <<>>[s].at, found |-> <<>>[s].found]]
  OBVIOUS
<1> QED BY <1>1 DEF NewRemoval, NewCall, CallShape, Stage

\* The components are refused, and the call fails, or all of them are called.
LEMMA ValidateFacts ==
    ASSUME IInv, NEW k \in DOMAIN removals, NEW t, ValidateTargets(k, t)
    PROVE  /\ removals[k].stage \in {"branches", "failed"} /\ Cascades(t)
           /\ t \in DOMAIN removals[k].branch /\ removals[k].branch[t].at = "validate"
           /\ removals'[k].left = removals[k].left /\ CallShape(removals[k])'
           /\ UNCHANGED <<db, docs, active, phase, parent, unlinks, adds, announced>>
           /\ \/ /\ Changes(k) /\ removals'[k].stage = "failed"
                 /\ BranchIs(k, t, [at |-> "calls", found |-> <<>>])
              \/ /\ DOMAIN removals' = DOMAIN removals \cup Components(k, t)
                 /\ removals' = [c \in DOMAIN removals' |-> removals'[c]]
                 /\ removals'[k].stage = removals[k].stage
                 /\ removals'[k].rels = removals[k].rels /\ removals'[k].src = removals[k].src
                 /\ BranchIs(k, t, [at |-> "calls", found |-> removals[k].branch[t].found])
                 /\ \A c \in DOMAIN removals : c # k => removals'[c] = removals[c]
                 /\ \A c \in Components(k, t) :
                       /\ NewCall(c, NodeRelations[t].mapping)
                       /\ removals'[c] = NewRemoval(removals[k].branch[t].found[NodeOf(c)],
                                                    NodeRelations[t].mapping)
<1> DEFINE branch == removals[k].branch
           found == branch[t].found
           calls == Components(k, t)
<1>1. /\ CallShape(removals[k]) /\ removals[k].stage \in {"branches", "failed"} /\ Cascades(t)
      /\ t \in DOMAIN branch /\ branch[t].at = "validate"
      /\ removals = [c \in DOMAIN removals |-> removals[c]] /\ k \in CallId /\ k.path # <<>>
      /\ DOMAIN found \subseteq Node
  BY DEF IInv, CallsTyped, CallShape, ValidateTargets
<1>2. UNCHANGED <<db, docs, active, phase, parent, unlinks, adds, announced>>
  BY DEF ValidateTargets
<1>3. BranchShape(branch)
  BY BranchesShaped
<1>4. CASE removals' = [removals EXCEPT ![k].stage = "failed",
                                        ![k].branch[t] = [at |-> "calls", found |-> <<>>]]
  <2> DEFINE b == [at |-> "calls", found |-> <<>>]
             new == [branch EXCEPT ![t] = b]
  <2>1. BranchShape(new)
    <3>1. DOMAIN <<>> \subseteq Node
      OBVIOUS
    <3> QED BY <1>1, <1>3, <3>1, BranchReplaced
  <2>2. DOMAIN new = DOMAIN branch /\ new[t] = b /\ \A s \in DOMAIN branch : s # t => new[s] = branch[s]
    BY <1>1, <1>3 DEF BranchShape
  <2>3. removals' = [removals EXCEPT ![k] = [removals[k] EXCEPT !.stage = "failed", !.branch = new]]
    BY <1>4
  <2> HIDE DEF new, b
  <2>4. Becomes(k, "failed", new, removals[k].left)
    BY <2>3, SameFields DEF Becomes
  <2>5. "failed" \in Stage \ {"check"}
    BY DEF Stage
  <2>6. /\ Changes(k) /\ CallShape(removals[k])' /\ removals'[k].stage = "failed"
        /\ removals'[k].branch = new /\ removals'[k].left = removals[k].left
    BY <2>1, <2>4, <2>5, NewRecord
  <2>7. BranchIs(k, t, b)
    BY <1>1, <2>2, <2>6 DEF BranchIs
  <2> QED BY <1>1, <1>2, <2>6, <2>7 DEF b
<1>5. CASE removals' = [c \in DOMAIN removals \cup calls |->
                          IF c \in calls
                          THEN NewRemoval(found[NodeOf(c)], NodeRelations[t].mapping)
                          ELSE IF c = k THEN [removals[k] EXCEPT !.branch[t].at = "calls"]
                               ELSE removals[c]]
  <2>1. removals' = [c \in DOMAIN removals \cup calls |->
                      IF c \in calls
                      THEN NewRemoval(found[NodeOf(c)], NodeRelations[t].mapping)
                      ELSE IF c = k THEN [removals[k] EXCEPT !.branch[t].at = "calls"]
                           ELSE removals[c]]
    BY <1>5
  \* no component of k has been called before
  <2>2. calls \cap DOMAIN removals = {}
    <3>1. SUFFICES ASSUME NEW m \in DOMAIN found, Child(k, m) \in DOMAIN removals
                   PROVE  FALSE
      BY DEF Components
    <3>2. HasCalled(k)
      BY <1>1, <3>1 DEF IInv, CallersExist
    <3> QED
      BY <1>1, <3>2, OneCascade DEF HasCalled
  <2> HIDE DEF calls
  <2>3. /\ DOMAIN removals' = DOMAIN removals \cup calls
        /\ removals' = [c \in DOMAIN removals' |-> removals'[c]]
        /\ \A c \in DOMAIN removals : c # k => removals'[c] = removals[c]
        /\ removals'[k] = [removals[k] EXCEPT !.branch[t].at = "calls"]
        /\ \A c \in calls : removals'[c] = NewRemoval(found[NodeOf(c)], NodeRelations[t].mapping)
    BY <2>1, <2>2
  <2> DEFINE b == [at |-> "calls", found |-> found]
             new == [branch EXCEPT ![t] = b]
  <2>4. /\ removals'[k].stage = removals[k].stage /\ removals'[k].left = removals[k].left
        /\ removals'[k].rels = removals[k].rels /\ removals'[k].src = removals[k].src
        /\ removals'[k].branch = new
        /\ removals'[k] = [stage |-> removals'[k].stage, rels |-> removals'[k].rels,
                           src |-> removals'[k].src, branch |-> removals'[k].branch,
                           left |-> removals'[k].left]
    <3>1. branch[t] = [at |-> branch[t].at, found |-> found]
      BY <1>1 DEF CallShape
    <3>2. [branch EXCEPT ![t].at = "calls"] = new
      BY <3>1
    <3>3. removals'[k] = [removals[k] EXCEPT !.branch = [branch EXCEPT ![t].at = "calls"]]
      BY <2>3
    <3> QED BY <1>1, <3>2, <3>3 DEF CallShape
  <2>5. DOMAIN new = DOMAIN branch /\ new[t] = b /\ \A s \in DOMAIN branch : s # t => new[s] = branch[s]
    BY <1>1, <1>3 DEF BranchShape
  <2>6. BranchShape(new)
    BY <1>1, <1>3, BranchReplaced
  <2> HIDE DEF new, b
  <2>7. BranchIs(k, t, b)
    BY <1>1, <2>4, <2>5 DEF BranchIs
  <2>8. CallShape(removals[k])'
    BY <1>1, <2>4, <2>6 DEF CallShape, BranchShape, Stage
  <2>9. \A c \in calls : NewCall(c, NodeRelations[t].mapping)
    BY <2>2, <2>3, NewRemovalFacts
  <2> QED BY <1>1, <1>2, <2>3, <2>4, <2>7, <2>8, <2>9 DEF b, calls
<1> QED BY <1>4, <1>5 DEF ValidateTargets, Components

\* A call fails with one of its components.
LEMMA FailedFacts ==
    ASSUME IInv, NEW k \in DOMAIN removals, ComponentFailed(k)
    PROVE  /\ Changes(k) /\ SameBranches(k) /\ removals'[k].left = removals[k].left
           /\ CallShape(removals[k])'
           /\ removals[k].stage = "branches" /\ removals'[k].stage = "failed"
           /\ UNCHANGED <<db, docs, active, phase, parent, unlinks, adds, announced>>
<1>1. Becomes(k, "failed", removals[k].branch, removals[k].left)
  BY SameFields DEF ComponentFailed, Becomes
<1>2. "failed" \in Stage \ {"check"}
  BY DEF Stage
<1>3. /\ Changes(k) /\ CallShape(removals[k])' /\ removals'[k].stage = "failed"
      /\ removals'[k].branch = removals[k].branch /\ removals'[k].left = removals[k].left
  BY <1>1, <1>2, BranchesShaped, NewRecord
<1> QED BY <1>3 DEF SameBranches, ComponentFailed

\* Call k is rejected while it waits for its branches.
CallFails(k) ==
    /\ Changes(k) /\ SameBranches(k) /\ removals'[k].left = removals[k].left
    /\ CallShape(removals[k])'
    /\ removals[k].stage = "branches" /\ removals'[k].stage = "failed"
    /\ UNCHANGED phase

\* A refused write rejects the call of removeNode it was made for, or the edit of
\* relations; a call that has been rejected before is not again.
LEMMA UnlinkFailsFacts ==
    ASSUME IInv, NEW u \in unlinks, UnlinkFails(u)
    PROVE  /\ "write" \in Faults /\ unlinks' = unlinks \ {u}
           /\ UNCHANGED <<db, docs, active, parent, adds, announced>>
           /\ \/ /\ UNCHANGED removals /\ u.by = Edit(u.by.req) /\ Reject(u.by.req)
              \/ /\ UNCHANGED <<removals, phase>> /\ u.by # Edit(u.by.req)
                 /\ u.by \in DOMAIN removals => removals[u.by].stage # "branches"
              \/ u.by \in DOMAIN removals /\ CallFails(u.by)
<1> DEFINE k == u.by
           same == [removals EXCEPT ![k].stage = IF @ = "branches" THEN "failed" ELSE @]
<1>1. /\ "write" \in Faults /\ unlinks' = unlinks \ {u}
      /\ UNCHANGED <<db, docs, active, parent, adds, announced>>
  BY DEF UnlinkFails
<1>2. removals = [c \in DOMAIN removals |-> removals[c]]
  BY DEF IInv, CallsTyped
<1>3. CASE k = Edit(k.req)
  BY <1>1, <1>3 DEF UnlinkFails
<1>4. CASE k # Edit(k.req) /\ k \notin DOMAIN removals
  <2>1. removals' = same /\ UNCHANGED phase
    BY <1>4 DEF UnlinkFails
  <2>2. same = removals
    BY <1>2, <1>4
  <2> QED BY <1>1, <1>4, <2>1, <2>2
<1>5. CASE k # Edit(k.req) /\ k \in DOMAIN removals /\ removals[k].stage # "branches"
  <2>1. removals' = same /\ UNCHANGED phase
    BY <1>5 DEF UnlinkFails
  <2>2. CallShape(removals[k])
    BY <1>5 DEF IInv, CallsTyped
  <2>3. [removals[k] EXCEPT !.stage = removals[k].stage] = removals[k]
    BY <2>2 DEF CallShape
  <2>4. same = [removals EXCEPT ![k] = [removals[k] EXCEPT !.stage = removals[k].stage]]
    BY <1>5
  <2>5. same = removals
    BY <1>2, <2>3, <2>4
  <2> QED BY <1>1, <1>5, <2>1, <2>5
<1>6. CASE k # Edit(k.req) /\ k \in DOMAIN removals /\ removals[k].stage = "branches"
  <2>1. removals' = same /\ UNCHANGED phase
    BY <1>6 DEF UnlinkFails
  <2>2. removals' = [removals EXCEPT ![k] = [removals[k] EXCEPT !.stage = "failed"]]
    BY <1>6, <2>1
  <2>3. Becomes(k, "failed", removals[k].branch, removals[k].left)
    BY <1>6, <2>2, SameFields DEF Becomes
  <2>4. "failed" \in Stage \ {"check"}
    BY DEF Stage
  <2> HIDE DEF k
  <2>5. /\ Changes(k) /\ CallShape(removals[k])' /\ removals'[k].stage = "failed"
        /\ removals'[k].branch = removals[k].branch /\ removals'[k].left = removals[k].left
    BY <1>6, <2>3, <2>4, BranchesShaped, NewRecord
  <2>6. CallFails(k)
    BY <1>6, <2>1, <2>5 DEF CallFails, SameBranches
  <2> QED BY <1>1, <1>6, <2>6 DEF k
<1> QED BY <1>3, <1>4, <1>5, <1>6

\* The inventory without the node of call k.
NodeTaken(k) == [n \in DOMAIN db \ {NodeOf(k)} |-> db[n]]

\* A collection is cleared, or its failure swallowed; only when the branches are done.
LEMMA DestroyFacts ==
    ASSUME IInv, NEW k \in DOMAIN removals, NEW c \in Cleared, Destroy(k, c)
    PROVE  /\ Changes(k) /\ SameBranches(k) /\ removals'[k].left = removals[k].left \ {c}
           /\ CallShape(removals[k])'
           /\ removals[k].stage \in {"branches", "destroy"}
           /\ removals'[k].stage \in {"publish", "destroy"}
           /\ removals'[k].stage = "publish" => removals'[k].left = {}
           /\ \/ /\ db' = IF c = "nodes" THEN NodeTaken(k) ELSE db
                 /\ docs' = docs \ {<<c, NodeOf(k)>>}
              \/ "destroy" \in Faults /\ UNCHANGED <<db, docs>>
           /\ removals[k].stage = "branches" => BranchesDone(k)
           /\ UNCHANGED <<active, phase, parent, unlinks, adds, announced>>
<1> DEFINE left == removals[k].left \ {c}
<1>1. PICK stage \in {"publish", "destroy"} :
        /\ removals' = [removals EXCEPT ![k] = [removals[k] EXCEPT !.left = left, !.stage = stage]]
        /\ stage = "publish" => left = {}
  BY DEF Destroy
<1> HIDE DEF left
<1>2. Becomes(k, stage, removals[k].branch, left)
  <2>1. [removals[k] EXCEPT !.left = left, !.stage = stage] =
        [removals[k] EXCEPT !.stage = stage, !.branch = removals[k].branch, !.left = left]
    BY SameFields
  <2> QED BY <1>1, <2>1 DEF Becomes
<1>3. stage \in Stage \ {"check"}
  BY DEF Stage
<1>4. /\ Changes(k) /\ CallShape(removals[k])' /\ removals'[k].stage = stage
      /\ removals'[k].branch = removals[k].branch /\ removals'[k].left = left
  BY <1>2, <1>3, BranchesShaped, NewRecord
<1>5. /\ removals[k].stage \in {"branches", "destroy"}
      /\ \/ /\ db' = IF c = "nodes" THEN NodeTaken(k) ELSE db
            /\ docs' = docs \ {<<c, NodeOf(k)>>}
         \/ "destroy" \in Faults /\ UNCHANGED <<db, docs>>
      /\ removals[k].stage = "branches" => BranchesDone(k)
      /\ UNCHANGED <<active, phase, parent, unlinks, adds, announced>>
  BY DEF Destroy, NodeTaken
<1> QED BY <1>1, <1>4, <1>5 DEF SameBranches, left

\* The event goes out, or the call fails: every collection has been cleared by then.
LEMMA PublishFacts ==
    ASSUME IInv, NEW k \in DOMAIN removals, Publish(k)
    PROVE  /\ Changes(k) /\ SameBranches(k) /\ removals'[k].left = removals[k].left
           /\ CallShape(removals[k])'
           /\ removals[k].stage = "publish" /\ removals'[k].stage \in {"done", "failed"}
           /\ announced' = announced \/ announced' = [announced EXCEPT ![NodeOf(k)] = @ + 1]
           /\ UNCHANGED <<db, docs, active, phase, parent, unlinks, adds>>
<1>1. PICK stage \in {"done", "failed"} : Becomes(k, stage, removals[k].branch, removals[k].left)
  BY SameFields DEF Publish, Becomes
<1>2. stage \in Stage \ {"check"}
  BY DEF Stage
<1>3. /\ Changes(k) /\ CallShape(removals[k])' /\ removals'[k].stage = stage
      /\ removals'[k].branch = removals[k].branch /\ removals'[k].left = removals[k].left
  BY <1>1, <1>2, BranchesShaped, NewRecord
<1> QED BY <1>3 DEF SameBranches, Publish

-----------------------------------------------------------------------------
(* Steps that leave the calls of removeNode alone                          *)

\* Reading, linking, unlinking and workflows: no node is added, and no request
\* becomes idle again.
Frame ==
    /\ UNCHANGED removals
    /\ DOMAIN db' \subseteq DOMAIN db
    /\ DOMAIN phase' = DOMAIN phase
    /\ \A r \in Request : phase'[r] = "idle" => phase[r] = "idle"

\* Such a step leaves the invariant.
LEMMA FrameStep == ASSUME IInv, Frame PROVE IInv'
<1>1. CallsTyped'
  BY DEF IInv, Frame, CallsTyped, CallShape, CallId
<1>2. CallersExist'
  BY DEF IInv, Frame, CallersExist, HasCalled
<1>3. ASSUME NEW k \in DOMAIN removals
      PROVE  NodeGone(k)' /\ ComponentsCalled(k)' /\ ComponentsDone(k)'
  BY <1>3 DEF IInv, Frame, NodeGone, ComponentsCalled, ComponentsDone
<1> QED
  BY <1>1, <1>2, <1>3 DEF IInv, Frame

\* One call advances: what has to hold of its new record for IInv to hold.
Advance(k) ==
    /\ Changes(k) /\ CallShape(removals[k])'
    /\ DOMAIN db' \subseteq DOMAIN db
    /\ UNCHANGED phase
    /\ NodeGone(k)'
    /\ ComponentsCalled(k)'
    /\ HasCalled(k) => HasCalled(k)'
    /\ ComponentsDone(k)'

\* An open call that advances leaves the invariant of all the others.
LEMMA AdvanceStep ==
    ASSUME IInv, NEW k \in DOMAIN removals, removals[k].stage # "done", Advance(k)
    PROVE  IInv'
<1>1. /\ DOMAIN removals' = DOMAIN removals
      /\ \A c \in DOMAIN removals : c # k => removals'[c] = removals[c]
  BY DEF Advance, Changes
<1>2. CallsTyped'
  <2>1. /\ DOMAIN db' \subseteq Node /\ DOMAIN phase' = Request
        /\ removals' = [c \in DOMAIN removals' |-> removals'[c]]
    BY <1>1 DEF IInv, Advance, Changes, CallsTyped
  <2>2. ASSUME NEW c \in DOMAIN removals
        PROVE  c \in CallId /\ c.path # <<>> /\ phase'[c.req] # "idle"
    BY DEF IInv, Advance, CallsTyped
  <2>3. ASSUME NEW c \in DOMAIN removals
        PROVE  CallShape(removals[c])'
    <3>1. CASE c = k
      BY <3>1 DEF Advance
    <3>2. CASE c # k
      BY <1>1, <3>2 DEF IInv, CallsTyped, CallShape
    <3> QED
      BY <3>1, <3>2
  <2> QED
    BY <1>1, <2>1, <2>2, <2>3 DEF CallsTyped
<1>3. CallersExist'
  BY <1>1 DEF IInv, Advance, CallersExist, HasCalled
<1>4. ASSUME NEW c \in DOMAIN removals, c # k
      PROVE  NodeGone(c)' /\ ComponentsCalled(c)' /\ ComponentsDone(c)'
  <2>1. NodeGone(c)' /\ ComponentsCalled(c)'
    BY <1>1, <1>4 DEF IInv, Advance, NodeGone, ComponentsCalled
  <2>2. ComponentsDone(c)'
    <3>1. SUFFICES ASSUME removals[c].stage \in Destroying,
                          NEW t \in DOMAIN removals[c].branch, Cascades(t)
                   PROVE  /\ removals[c].branch[t].at = "calls"
                          /\ \A m \in DOMAIN removals[c].branch[t].found :
                                removals'[Child(c, m)].stage = "done"
      BY <1>1, <1>4 DEF ComponentsDone
    <3>2. /\ removals[c].branch[t].at = "calls"
          /\ \A m \in DOMAIN removals[c].branch[t].found :
                /\ Child(c, m) \in DOMAIN removals
                /\ removals[Child(c, m)].stage = "done"
      BY <3>1 DEF IInv, ComponentsDone, ComponentsCalled
    <3> QED
      BY <3>2, <1>1
  <2> QED
    BY <2>1, <2>2
<1>5. NodeGone(k)' /\ ComponentsCalled(k)' /\ ComponentsDone(k)'
  BY DEF Advance
<1> QED
  BY <1>1, <1>2, <1>3, <1>4, <1>5 DEF IInv

-----------------------------------------------------------------------------
(* The actions of removeNode                                               *)

\* The validity check makes no call yet, and destroys nothing.
LEMMA CheckActiveStep ==
    ASSUME IInv, NEW k \in DOMAIN removals, CheckActive(k)
    PROVE  IInv'
<1>1. NodeGone(k) /\ DOMAIN removals[k].branch = {}
  BY CheckFacts DEF IInv, CallsTyped, CallShape
<1>2. ComponentsCalled(k)' /\ (HasCalled(k) => HasCalled(k)')
  BY <1>1, CheckFacts DEF ComponentsCalled, HasCalled
<1>3. NodeGone(k)' /\ ComponentsDone(k)'
  BY <1>1, CheckFacts DEF NodeGone, ComponentsDone, Destroying
<1> QED
  BY <1>2, <1>3, CheckFacts, AdvanceStep DEF Advance

\* found, as FindTargets picks it, is about stored nodes.
LEMMA FindTargetsStep ==
    ASSUME IInv, NEW k \in DOMAIN removals, NEW t, FindTargets(k, t)
    PROVE  IInv'
<1>1. NodeGone(k) /\ ComponentsCalled(k)
  BY DEF IInv
<1>2. ComponentsCalled(k)' /\ (HasCalled(k) => HasCalled(k)')
  <2>1. PICK found : Finds(k, t, found)
    BY FindFacts
  <2>2. /\ Changes(k) /\ removals[k].branch[t].at = "find"
        /\ BranchIs(k, t, [at |-> IF Cascades(t) THEN "validate" ELSE "calls", found |-> found])
    BY <2>1, FindFacts DEF Finds
  <2> QED BY <1>1, <2>2 DEF ComponentsCalled, HasCalled, BranchIs, Changes
<1>3. NodeGone(k)' /\ ComponentsDone(k)'
  BY <1>1, FindFacts DEF NodeGone, ComponentsDone, Destroying
<1> QED
  BY <1>2, <1>3, FindFacts, AdvanceStep DEF Advance

\* A step that leaves the branches alone: the calls that have been made stay made.
LEMMA SameBranchesStep ==
    ASSUME IInv, NEW k \in DOMAIN removals, Changes(k), SameBranches(k)
    PROVE  ComponentsCalled(k)' /\ (HasCalled(k) => HasCalled(k)')
BY DEF IInv, Changes, SameBranches, ComponentsCalled, HasCalled

\* A call that fails destroys nothing from then on.
LEMMA ComponentFailedStep ==
    ASSUME IInv, NEW k \in DOMAIN removals, ComponentFailed(k)
    PROVE  IInv'
<1>1. NodeGone(k)
  BY DEF IInv
<1>2. NodeGone(k)' /\ ComponentsDone(k)'
  BY <1>1, FailedFacts DEF NodeGone, ComponentsDone, Destroying
<1> QED
  BY <1>2, FailedFacts, SameBranchesStep, AdvanceStep DEF Advance

\* Nor does one that is rejected by the datastore.
LEMMA CallFailsStep ==
    ASSUME IInv, NEW k \in DOMAIN removals, CallFails(k), UNCHANGED db
    PROVE  IInv'
<1>1. NodeGone(k)
  BY DEF IInv
<1>2. NodeGone(k)' /\ ComponentsDone(k)'
  BY <1>1 DEF NodeGone, ComponentsDone, Destroying, CallFails
<1> QED
  BY <1>2, SameBranchesStep, AdvanceStep DEF Advance, CallFails

\* The components of a call are done once all its branches are, and stay so.
LEMMA ComponentsStayDone ==
    ASSUME IInv, NEW k \in DOMAIN removals, Changes(k), SameBranches(k),
           BranchesDone(k) \/ removals[k].stage \in Destroying
    PROVE  ComponentsDone(k)'
<1>1. /\ k \in CallId /\ CallShape(removals[k]) /\ ComponentsCalled(k)
  BY DEF IInv, CallsTyped
<1>2. ASSUME NEW t \in DOMAIN removals[k].branch, Cascades(t)
      PROVE  /\ removals[k].branch[t].at = "calls"
             /\ \A m \in DOMAIN removals[k].branch[t].found : removals[Child(k, m)].stage = "done"
  BY <1>2 DEF BranchesDone, BranchDone, IInv, ComponentsDone
<1>3. ASSUME NEW t \in DOMAIN removals[k].branch, Cascades(t),
             NEW m \in DOMAIN removals[k].branch[t].found
      PROVE  removals'[Child(k, m)].stage = "done"
  <2>1. Child(k, m) \in DOMAIN removals
    BY <1>1, <1>2, <1>3 DEF ComponentsCalled
  <2>2. Child(k, m) # k
    BY <1>1, ChildFacts DEF CallShape
  <2> QED BY <1>2, <1>3, <2>1, <2>2 DEF Changes
<1> QED
  BY <1>2, <1>3 DEF ComponentsDone, SameBranches

\* A call that publishes has destroyed: its components are done.
LEMMA PublishStep ==
    ASSUME IInv, NEW k \in DOMAIN removals, Publish(k)
    PROVE  IInv'
<1>1. NodeGone(k)' /\ UNCHANGED <<db, phase>>
  BY PublishFacts DEF IInv, NodeGone
<1>2. ComponentsDone(k)'
  BY PublishFacts, ComponentsStayDone DEF Destroying
<1> QED
  BY <1>1, <1>2, PublishFacts, SameBranchesStep, AdvanceStep DEF Advance

\* A document collection is cleared; BranchesDone held when that began.
LEMMA DestroyStep ==
    ASSUME IInv, NEW k \in DOMAIN removals, NEW c \in Cleared, Destroy(k, c)
    PROVE  IInv'
<1>1. ComponentsDone(k)'
  BY DestroyFacts, ComponentsStayDone DEF Destroying
<1>3. /\ \/ db' = IF c = "nodes" THEN NodeTaken(k) ELSE db
         \/ "destroy" \in Faults /\ db' = db
      /\ removals'[k].left = removals[k].left \ {c}
      /\ removals'[k].stage \in {"publish", "destroy"}
      /\ removals'[k].stage = "publish" => removals'[k].left = {}
  BY DestroyFacts
<1>2. NodeGone(k)'
  <2>1. ASSUME "nodes" \notin removals'[k].left, "destroy" \notin Faults
        PROVE  NodeOf(k) \notin DOMAIN db'
    <3>1. db' = IF c = "nodes" THEN NodeTaken(k) ELSE db
      BY <1>3, <2>1
    <3>2. c = "nodes" \/ "nodes" \notin removals[k].left
      BY <1>3, <2>1
    <3> QED BY <2>1, <3>1, <3>2 DEF IInv, NodeGone, NodeTaken
  <2>2. removals'[k].stage \in {"publish", "done"} => "nodes" \notin removals'[k].left
    BY <1>3
  <2> QED BY <2>1, <2>2 DEF NodeGone
<1>4. DOMAIN db' \subseteq DOMAIN db
  BY <1>3 DEF NodeTaken
<1> QED
  BY <1>1, <1>2, <1>4, DestroyFacts, SameBranchesStep, AdvanceStep DEF Advance

\* Calls are made about nodes no call was about yet: what has to hold for IInv to hold.
Makes(calls) ==
    /\ DOMAIN removals' = DOMAIN removals \cup calls
    /\ removals' = [c \in DOMAIN removals' |-> removals'[c]]
    /\ \A c \in calls : /\ c \in CallId /\ c.path # <<>> /\ phase'[c.req] # "idle"
                        /\ \E src : NewCall(c, src)
    /\ \A k \in CallId, m \in Node :
          k.path # <<>> /\ Child(k, m) \in calls => k \in DOMAIN removals /\ HasCalled(k)'
    /\ UNCHANGED db /\ DOMAIN phase' = DOMAIN phase
    /\ \A r \in Request : phase'[r] = "idle" => phase[r] = "idle"

\* What a step that makes calls leaves of the call k that there was.
CallKept(k) ==
    /\ CallShape(removals[k])' /\ ComponentsCalled(k)'
    /\ removals'[k].left = removals[k].left
    /\ \/ removals'[k] = removals[k]
       \/ /\ removals'[k].stage \notin Destroying
          /\ removals[k].stage \notin Destroying
          /\ HasCalled(k) => HasCalled(k)'

\* New calls leave the invariant: they are about nodes no call was about.
LEMMA NewCallsStep ==
    ASSUME IInv, NEW calls, Makes(calls), \A k \in DOMAIN removals : CallKept(k)
    PROVE  IInv'
<1>1. \A k \in DOMAIN removals : removals[k].stage \in Destroying => removals'[k] = removals[k]
  BY DEF CallKept
<1>2. CallsTyped'
  BY DEF IInv, CallsTyped, CallId, NewCall, Makes, CallKept
<1>3. CallersExist'
  BY DEF IInv, CallersExist, HasCalled, Makes, CallKept
<1>4. ASSUME NEW k \in calls PROVE NodeGone(k)' /\ ComponentsCalled(k)' /\ ComponentsDone(k)'
  BY <1>4 DEF Makes, NewCall, NodeGone, ComponentsCalled, ComponentsDone, Destroying, Cleared
<1>5. ASSUME NEW k \in DOMAIN removals PROVE NodeGone(k)' /\ ComponentsDone(k)'
  <2>1. NodeGone(k)'
    BY DEF IInv, NodeGone, Destroying, Makes, CallKept
  <2>2. CASE removals'[k] = removals[k]
    <3>1. ComponentsDone(k) /\ ComponentsCalled(k)
      BY DEF IInv
    <3>2. ASSUME removals[k].stage \in Destroying, NEW t \in DOMAIN removals[k].branch, Cascades(t),
                 NEW m \in DOMAIN removals[k].branch[t].found
          PROVE  removals'[Child(k, m)].stage = "done"
      <4>1. Child(k, m) \in DOMAIN removals /\ removals[Child(k, m)].stage = "done"
        BY <3>1, <3>2 DEF ComponentsCalled, ComponentsDone
      <4>2. removals[Child(k, m)].stage \in Destroying
        BY <4>1 DEF Destroying
      <4> QED BY <1>1, <4>1, <4>2
    <3> QED BY <2>1, <2>2, <3>1, <3>2 DEF ComponentsDone
  <2>3. CASE removals'[k].stage \notin Destroying
    BY <2>1, <2>3 DEF ComponentsDone
  <2> QED BY <2>1, <2>2, <2>3 DEF CallKept
<1> QED
  BY <1>2, <1>3, <1>4, <1>5 DEF IInv, Makes, CallKept

\* The components are called: new calls, about nodes no call of k was about yet.
LEMMA ValidateTargetsStep ==
    ASSUME IInv, NEW k \in DOMAIN removals, NEW t, ValidateTargets(k, t)
    PROVE  IInv'
<1>1. /\ k \in CallId /\ k.path # <<>> /\ phase[k.req] # "idle" /\ NodeGone(k) /\ ComponentsCalled(k)
      /\ CallShape(removals[k]) /\ t \in DOMAIN removals[k].branch /\ Cascades(t)
      /\ removals[k].branch[t].at = "validate" /\ removals[k].stage \in {"branches", "failed"}
  BY ValidateFacts DEF IInv, CallsTyped
<1>2. CASE Changes(k) /\ BranchIs(k, t, [at |-> "calls", found |-> <<>>]) /\ removals'[k].stage = "failed"
  <2>1. ComponentsCalled(k)' /\ (HasCalled(k) => HasCalled(k)')
    BY <1>1, <1>2 DEF ComponentsCalled, HasCalled, BranchIs, Changes
  <2>2. NodeGone(k)' /\ ComponentsDone(k)'
    BY <1>1, <1>2, ValidateFacts DEF NodeGone, ComponentsDone, Destroying
  <2> QED BY <1>2, <2>1, <2>2, ValidateFacts, AdvanceStep DEF Advance
<1>3. CASE /\ DOMAIN removals' = DOMAIN removals \cup Components(k, t)
           /\ removals' = [c \in DOMAIN removals' |-> removals'[c]]
           /\ removals'[k].stage = removals[k].stage
           /\ BranchIs(k, t, [at |-> "calls", found |-> removals[k].branch[t].found])
           /\ \A c \in DOMAIN removals : c # k => removals'[c] = removals[c]
           /\ \A c \in Components(k, t) : NewCall(c, NodeRelations[t].mapping)
  <2> DEFINE calls == Components(k, t)
  <2>1. ASSUME NEW c \in calls
        PROVE  c \in CallId /\ c.path # <<>> /\ c.req = k.req
    BY <1>1, ChildFacts DEF Components, CallShape
  <2>2. HasCalled(k)'
    BY <1>1, <1>3 DEF HasCalled, BranchIs
  <2>3. ASSUME NEW j \in CallId, NEW m \in Node, Child(j, m) \in calls PROVE j = k
    BY <1>1, <2>3, ChildInjective DEF Components, CallShape
  <2>4. ComponentsCalled(k)'
    BY <1>1, <1>3 DEF ComponentsCalled, BranchIs, Components
  <2>5. ASSUME NEW c \in DOMAIN removals, c # k
        PROVE  CallShape(removals[c])' /\ ComponentsCalled(c)'
    BY <1>3, <2>5 DEF IInv, CallsTyped, CallShape, ComponentsCalled
  <2>6. /\ removals'[k].left = removals[k].left /\ CallShape(removals[k])'
        /\ removals[k].stage \notin Destroying /\ removals'[k].stage \notin Destroying
        /\ UNCHANGED <<db, phase>>
    BY <1>1, <1>3, ValidateFacts DEF Destroying
  <2> HIDE DEF calls
  <2>7. \A c \in calls : /\ c \in CallId /\ c.path # <<>> /\ phase'[c.req] # "idle"
                         /\ \E src : NewCall(c, src)
    BY <1>1, <1>3, <2>1, <2>6 DEF calls
  <2>8. ASSUME NEW c \in DOMAIN removals PROVE CallKept(c)
    BY <1>3, <2>2, <2>4, <2>5, <2>6 DEF CallKept
  <2>9. /\ DOMAIN removals' = DOMAIN removals \cup calls
        /\ removals' = [c \in DOMAIN removals' |-> removals'[c]]
    BY <1>3 DEF calls
  <2>10. Makes(calls)
    BY <2>2, <2>3, <2>6, <2>7, <2>9 DEF Makes
  <2> QED
    BY <2>8, <2>10, NewCallsStep
<1> QED
  BY <1>2, <1>3, ValidateFacts

-----------------------------------------------------------------------------
(* The other actions                                                       *)

\* A rejected handler does not make its request idle.
LEMMA RejectFacts ==
    ASSUME NEW r, Reject(r)
    PROVE  /\ DOMAIN phase' = DOMAIN phase
           /\ \A q \in DOMAIN phase : phase'[q] = "idle" => phase[q] = "idle"
BY DEF Reject

\* Taking a target out of a relation touches no call, and no node comes or goes.
LEMMA PullFacts ==
    ASSUME NEW u, PullFromRelation(u)
    PROVE  removals' = removals /\ phase' = phase /\ DOMAIN db' = DOMAIN db
<1>1. removals' = removals /\ phase' = phase
  BY DEF PullFromRelation
<1>2. ASSUME u.node \in DOMAIN db
      PROVE  \E now : db' = [db EXCEPT ![u.node] = now]
  BY <1>2 DEF PullFromRelation
<1>3. u.node \notin DOMAIN db => db' = db
  BY DEF PullFromRelation
<1> QED BY <1>1, <1>2, <1>3

\* The edits of relations, the answers and the workflows touch no call of removeNode.
LEMMA EditStep ==
    ASSUME IInv,
           \/ \E u \in unlinks : PullFromRelation(u) \/ DropBlankRelation(u)
           \/ \E a \in adds : \/ EnsureRelation(a) \/ ReplaceEnclosure(a) \/ PushToRelation(a)
                             \/ AddFails(a)
           \/ \E r \in Request : CallHandlers(r) \/ Answer(r)
           \/ \E n \in Node : StartWorkflow(n) \/ FinishWorkflow(n)
    PROVE  IInv'
<1>1. DOMAIN phase = Request
  BY DEF IInv, CallsTyped
<1>2. ASSUME NEW u \in unlinks, PullFromRelation(u) PROVE Frame
  BY <1>2, PullFacts DEF Frame
<1>3. ASSUME NEW u \in unlinks, DropBlankRelation(u) PROVE Frame
  BY <1>3 DEF DropBlankRelation, Frame
<1>4. ASSUME NEW a \in adds, EnsureRelation(a) PROVE Frame
  <2>1. UNCHANGED removals /\ DOMAIN db' \subseteq DOMAIN db
    BY <1>4 DEF EnsureRelation
  <2>2. UNCHANGED phase \/ Reject(a.by.req)
    BY <1>4 DEF EnsureRelation
  <2> QED
    BY <1>1, <2>1, <2>2, RejectFacts DEF Frame
<1>5. ASSUME NEW a \in adds, ReplaceEnclosure(a) PROVE Frame
  BY <1>5 DEF ReplaceEnclosure, Frame
<1>6. ASSUME NEW a \in adds, PushToRelation(a) PROVE Frame
  <2>1. UNCHANGED removals /\ DOMAIN db' \subseteq DOMAIN db
    BY <1>6 DEF PushToRelation
  <2>2. UNCHANGED phase \/ Reject(a.by.req)
    BY <1>6 DEF PushToRelation
  <2> QED
    BY <1>1, <2>1, <2>2, RejectFacts DEF Frame
<1>7. ASSUME NEW r \in Request, CallHandlers(r) PROVE Frame
  <2>1. PICK s \in {"error", "running"} : phase' = [phase EXCEPT ![r] = s]
    BY <1>7 DEF CallHandlers
  <2>2. UNCHANGED <<db, removals>>
    BY <1>7 DEF CallHandlers
  <2> QED
    BY <1>1, <2>1, <2>2 DEF Frame
<1>8. ASSUME NEW r \in Request, Answer(r) PROVE Frame
  <2>1. PICK s \in {"error", "ok"} : phase' = [phase EXCEPT ![r] = s]
    BY <1>8 DEF Answer
  <2>2. UNCHANGED <<db, removals>>
    BY <1>8 DEF Answer
  <2> QED
    BY <1>1, <2>1, <2>2 DEF Frame
<1>9. ASSUME NEW n \in Node, StartWorkflow(n) \/ FinishWorkflow(n) PROVE Frame
  BY <1>9 DEF StartWorkflow, FinishWorkflow, Frame
<1>10. ASSUME NEW a \in adds, AddFails(a) PROVE Frame
  BY <1>1, <1>10, RejectFacts DEF AddFails, Frame
<1> QED
  BY <1>2, <1>3, <1>4, <1>5, <1>6, <1>7, <1>8, <1>9, <1>10, FrameStep

\* A refused write ends a call of removeRelation, and may reject the call it was made for.
LEMMA UnlinkFailsStep ==
    ASSUME IInv, NEW u \in unlinks, UnlinkFails(u)
    PROVE  IInv'
<1>1. UNCHANGED db /\ DOMAIN phase = Request
  BY UnlinkFailsFacts DEF IInv, CallsTyped
<1>2. CASE UNCHANGED removals /\ (UNCHANGED phase \/ Reject(u.by.req))
  BY <1>1, <1>2, RejectFacts, FrameStep DEF Frame
<1>3. CASE u.by \in DOMAIN removals /\ CallFails(u.by)
  BY <1>1, <1>3, CallFailsStep
<1> QED BY <1>2, <1>3, UnlinkFailsFacts

\* A request that is received: nothing is called, or the root of a deletion.
LEMMA ReceiveFacts ==
    ASSUME IInv, NEW r \in Request, Receive(r)
    PROVE  /\ phase[r] = "idle"
           /\ Cardinality({q \in Request : InFlight(q)}) < MaxInFlight
           /\ \/ /\ removals' = removals /\ parent' = parent /\ Op[r].node \notin DOMAIN db
                 /\ phase' = [phase EXCEPT ![r] = "error"]
              \/ /\ removals' = removals /\ Op[r].node \in DOMAIN db /\ Op[r].kind # "delete"
                 /\ phase' = [phase EXCEPT ![r] = "targets"]
                 /\ parent' = [parent EXCEPT ![r] = db[Op[r].node]]
              \/ /\ Op[r].node \in DOMAIN db /\ Op[r].kind = "delete" /\ parent' = parent
                 /\ phase' = [phase EXCEPT ![r] = "running"]
                 /\ Root(r) \in CallId /\ Root(r).req = r /\ NodeOf(Root(r)) = Op[r].node
                 /\ NewCall(Root(r), "none")
                 /\ DOMAIN removals' = DOMAIN removals \cup {Root(r)}
                 /\ removals' = [c \in DOMAIN removals' |-> removals'[c]]
                 /\ removals'[Root(r)] = NewRemoval(db[Op[r].node], "none")
                 /\ \A k \in DOMAIN removals : removals'[k] = removals[k]
           /\ UNCHANGED <<db, docs, active, unlinks, adds, announced>>
<1>1. /\ phase[r] = "idle" /\ Cardinality({q \in Request : InFlight(q)}) < MaxInFlight
      /\ UNCHANGED <<db, docs, active, unlinks, adds, announced>>
  BY DEF Receive
<1>2. CASE /\ Op[r].node \in DOMAIN db /\ Op[r].kind = "delete" /\ parent' = parent
           /\ phase' = [phase EXCEPT ![r] = "running"]
           /\ removals' = [k \in DOMAIN removals \cup {Root(r)} |->
                             IF k = Root(r) THEN NewRemoval(db[Op[r].node], "none") ELSE removals[k]]
  <2>1. Op[r].node \in Node
    BY <1>2 DEF IInv, CallsTyped
  <2>2. Root(r) \in CallId /\ Root(r).req = r
    BY <2>1 DEF Root, CallId
  <2>3. NodeOf(Root(r)) = Op[r].node
    BY <2>1 DEF Root, NodeOf, Last
  <2>4. Root(r) \notin DOMAIN removals
    BY <1>1, <2>2 DEF IInv, CallsTyped
  <2>5. /\ DOMAIN removals' = DOMAIN removals \cup {Root(r)}
        /\ removals' = [c \in DOMAIN removals' |-> removals'[c]]
        /\ removals'[Root(r)] = NewRemoval(db[Op[r].node], "none")
        /\ \A k \in DOMAIN removals : removals'[k] = removals[k]
    BY <1>2, <2>4
  <2> QED BY <1>1, <1>2, <2>2, <2>3, <2>4, <2>5, NewRemovalFacts
<1> QED BY <1>1, <1>2 DEF Receive

\* A deletion that is received makes the root call.
LEMMA ReceiveStep ==
    ASSUME IInv, NEW r \in Request, Receive(r)
    PROVE  IInv'
<1>1. DOMAIN phase = Request /\ UNCHANGED db
  BY ReceiveFacts DEF IInv, CallsTyped
<1>2. PICK s \in {"error", "running", "targets"} : phase' = [phase EXCEPT ![r] = s]
  BY DEF Receive
<1>3. CASE UNCHANGED removals
  <2>1. Frame
    BY <1>1, <1>2, <1>3 DEF Frame
  <2> QED BY <2>1, FrameStep
<1>4. CASE removals' # removals
  <2>1. /\ Root(r) \in CallId /\ Root(r).req = r /\ NewCall(Root(r), "none")
        /\ DOMAIN removals' = DOMAIN removals \cup {Root(r)}
        /\ removals' = [c \in DOMAIN removals' |-> removals'[c]]
        /\ \A k \in DOMAIN removals : removals'[k] = removals[k]
    BY <1>4, ReceiveFacts
  <2>2. Len(Root(r).path) = 1 /\ Root(r).path # <<>>
    BY DEF Root
  <2>3. ASSUME NEW k \in CallId, NEW m \in Node, k.path # <<>> PROVE Child(k, m) # Root(r)
    <3>1. k.path \in Seq(Node) /\ k.path # <<>>
      BY <2>3 DEF CallId
    <3>2. Len(Append(k.path, m)) = Len(k.path) + 1 /\ Len(k.path) # 0 /\ Len(k.path) \in Nat
      BY <3>1
    <3> QED BY <2>2, <3>2 DEF Child
  <2>4. \A k \in DOMAIN removals : CallShape(removals[k])' /\ ComponentsCalled(k)'
    BY <2>1 DEF IInv, CallsTyped, CallShape, ComponentsCalled
  <2>5. DOMAIN phase' = DOMAIN phase /\ phase'[r] # "idle"
        /\ \A q \in Request : phase'[q] = "idle" => phase[q] = "idle"
    BY <1>1, <1>2
  <2> DEFINE calls == {Root(r)}
  <2>6. /\ DOMAIN removals' = DOMAIN removals \cup calls
        /\ \A c \in calls : /\ c \in CallId /\ c.path # <<>> /\ phase'[c.req] # "idle"
                            /\ \E src : NewCall(c, src)
        /\ \A k \in CallId, m \in Node : k.path # <<>> => Child(k, m) \notin calls
    BY <2>1, <2>2, <2>3, <2>5
  <2> HIDE DEF calls
  <2>7. Makes(calls)
    BY <1>1, <2>1, <2>5, <2>6 DEF Makes
  <2>8. \A k \in DOMAIN removals : CallKept(k)
    BY <2>1, <2>4 DEF CallKept
  <2> QED BY <2>7, <2>8, NewCallsStep
<1> QED BY <1>3, <1>4

-----------------------------------------------------------------------------
(* Components go first                                                     *)

\* There is no call at the start.
LEMMA InitIInv == Init => IInv
<1> SUFFICES ASSUME Init PROVE IInv
  OBVIOUS
<1>1. DOMAIN db \subseteq Node /\ DOMAIN phase = Request
  BY OpAssumption DEF Init
<1>2. removals = <<>> /\ DOMAIN removals = {} /\ <<>> = [k \in {} |-> <<>>[k]]
  BY DEF Init
<1> QED
  BY <1>1, <1>2 DEF IInv, CallsTyped, CallersExist

\* Every step leaves the invariant.
LEMMA NextIInv == IInv /\ [Next]_vars => IInv'
<1> SUFFICES ASSUME IInv, [Next]_vars PROVE IInv'
  OBVIOUS
<1>1. CASE UNCHANGED vars
  BY <1>1, FrameStep DEF vars, Frame
<1>2. ASSUME NEW k \in DOMAIN removals, RemoveNode(k) PROVE IInv'
  <2>1. CASE CheckActive(k)
    BY <2>1, CheckActiveStep
  <2>2. ASSUME NEW t \in RelationType, FindTargets(k, t) PROVE IInv'
    BY <2>2, FindTargetsStep
  <2>3. ASSUME NEW t \in RelationType, ValidateTargets(k, t) PROVE IInv'
    BY <2>3, ValidateTargetsStep
  <2>4. CASE ComponentFailed(k)
    BY <2>4, ComponentFailedStep
  <2>5. ASSUME NEW c \in Cleared, Destroy(k, c) PROVE IInv'
    BY <2>5, DestroyStep
  <2>6. CASE Publish(k)
    BY <2>6, PublishStep
  <2> QED
    BY <1>2, <2>1, <2>2, <2>3, <2>4, <2>5, <2>6 DEF RemoveNode
<1>3. ASSUME NEW r \in Request, Receive(r) PROVE IInv'
  BY <1>3, ReceiveStep
<1> QED
  BY <1>1, <1>2, <1>3, EditStep, UnlinkFailsStep DEF Next, Serve

\* The invariant of removeNode, whatever fails: in particular no call destroys
\* before all the calls for its components have been resolved.
THEOREM Invariant == Spec => []IInv
BY InitIInv, NextIInv, PTL DEF Spec

\* A component that was found has a call of its own, which is done and so has cleared it.
LEMMA IInvComponents ==
    ASSUME "destroy" \notin Faults
    PROVE  IInv => ComponentsGoFirst
<1> SUFFICES ASSUME IInv,
                    NEW k \in DOMAIN removals, removals[k].stage \in Destroying,
                    NEW t \in DOMAIN removals[k].branch, Cascades(t),
                    NEW m \in DOMAIN removals[k].branch[t].found
             PROVE  m \notin DOMAIN db
  BY DEF ComponentsGoFirst, Destroying
<1>1. /\ k \in CallId /\ m \in Node
      /\ Child(k, m) \in DOMAIN removals /\ removals[Child(k, m)].stage = "done"
  <2>1. /\ k \in CallId /\ CallShape(removals[k])
        /\ ComponentsDone(k) /\ ComponentsCalled(k)
    BY DEF IInv, CallsTyped
  <2>2. m \in Node
    BY <2>1 DEF CallShape
  <2>3. removals[k].branch[t].at = "calls" /\ removals[Child(k, m)].stage = "done"
    BY <2>1 DEF ComponentsDone
  <2> QED
    BY <2>1, <2>2, <2>3 DEF ComponentsCalled
<1>2. NodeOf(Child(k, m)) \notin DOMAIN db
  BY <1>1 DEF IInv, NodeGone
<1> QED
  BY <1>1, <1>2, ChildFacts

\* When no write of the datastore is swallowed, removeNode works bottom up: it
\* never destroys a node while a component it found for it is still stored.
THEOREM ComponentsGoFirstAlways ==
    ASSUME "destroy" \notin Faults
    PROVE  Spec => []ComponentsGoFirst
<1>1. IInv => ComponentsGoFirst
  BY IInvComponents
<1> QED
  BY <1>1, Invariant, PTL

-----------------------------------------------------------------------------
(* Nodes with an active workflow                                           *)

\* A call that got past the validity check is about a node without workflow.
Checked(k) ==
    removals[k].stage \in {"branches"} \cup Destroying => NodeOf(k) \notin active

ActiveInv == \A k \in DOMAIN removals : Checked(k)

\* Only Destroy takes a node out of the inventory, and only the node of a
\* call that was checked; no call gets past the check of an active node.
LEMMA ActiveStep ==
    ASSUME MayStart = {}, IInv, ActiveInv, Next
    PROVE  /\ ActiveInv'
           /\ \A n \in DOMAIN db \ DOMAIN db' : n \notin active
<1> DEFINE Kept == ActiveInv' /\ \A n \in DOMAIN db \ DOMAIN db' : n \notin active
\* a step that leaves the calls alone
<1>1. ASSUME UNCHANGED <<removals, active>>, DOMAIN db \subseteq DOMAIN db' PROVE Kept
  BY <1>1 DEF ActiveInv, Checked
\* a step of one call, which stays checked
<1>2. ASSUME NEW k \in DOMAIN removals, Changes(k), UNCHANGED active, Checked(k)',
             \A n \in DOMAIN db \ DOMAIN db' : n \notin active
      PROVE  Kept
  BY <1>2 DEF Changes, ActiveInv, Checked
\* a step that makes calls, which begin with the check
<1>3. ASSUME NEW calls, DOMAIN removals' = DOMAIN removals \cup calls, UNCHANGED <<db, active>>,
             \A c \in calls : removals'[c].stage = "check",
             \A k \in DOMAIN removals : removals'[k].stage = removals[k].stage
      PROVE  Kept
  BY <1>3 DEF ActiveInv, Checked, Destroying
<1>4. ASSUME NEW k \in DOMAIN removals, CheckActive(k) PROVE Kept
  <2>1. Checked(k)'
    BY <1>4, CheckFacts DEF Checked, Destroying
  <2> QED BY <1>2, <1>4, <2>1, CheckFacts
<1>5. ASSUME NEW k \in DOMAIN removals, NEW t, FindTargets(k, t) PROVE Kept
  <2>1. Checked(k)'
    BY <1>5, FindFacts DEF ActiveInv, Checked
  <2> QED BY <1>2, <1>5, <2>1, FindFacts
<1>6. ASSUME NEW k \in DOMAIN removals, NEW t, ValidateTargets(k, t) PROVE Kept
  <2>1. CASE Changes(k) /\ removals'[k].stage = "failed"
    <3>1. Checked(k)'
      BY <2>1 DEF Checked, Destroying
    <3> QED BY <1>2, <1>6, <2>1, <3>1, ValidateFacts
  <2>2. CASE /\ DOMAIN removals' = DOMAIN removals \cup Components(k, t)
             /\ removals'[k].stage = removals[k].stage
             /\ \A c \in DOMAIN removals : c # k => removals'[c] = removals[c]
             /\ \A c \in Components(k, t) : NewCall(c, NodeRelations[t].mapping)
    <3>1. UNCHANGED <<db, active>>
      BY <1>6, ValidateFacts
    <3> QED BY <1>3, <2>2, <3>1 DEF NewCall
  <2> QED BY <1>6, <2>1, <2>2, ValidateFacts
<1>7. ASSUME NEW k \in DOMAIN removals, ComponentFailed(k) PROVE Kept
  <2>1. Checked(k)'
    BY <1>7, FailedFacts DEF Checked, Destroying
  <2> QED BY <1>2, <1>7, <2>1, FailedFacts
<1>8. ASSUME NEW k \in DOMAIN removals, NEW c \in Cleared, Destroy(k, c) PROVE Kept
  <2>1. NodeOf(k) \notin active /\ UNCHANGED active
    BY <1>8, DestroyFacts DEF ActiveInv, Checked, Destroying
  <2>2. DOMAIN db \ DOMAIN db' \subseteq {NodeOf(k)}
    BY <1>8 DEF Destroy
  <2>3. Checked(k)'
    BY <2>1 DEF Checked
  <2> QED BY <1>2, <1>8, <2>1, <2>2, <2>3, DestroyFacts
<1>9. ASSUME NEW k \in DOMAIN removals, Publish(k) PROVE Kept
  <2>1. Checked(k)'
    BY <1>9, PublishFacts DEF ActiveInv, Checked, Destroying
  <2> QED BY <1>2, <1>9, <2>1, PublishFacts
<1>10. ASSUME NEW r \in Request, Receive(r) PROVE Kept
  <2>1. UNCHANGED <<db, active>>
    BY <1>10, ReceiveFacts
  <2>2. CASE UNCHANGED removals
    BY <1>1, <2>1, <2>2
  <2>3. CASE removals' # removals
    <3>1. /\ DOMAIN removals' = DOMAIN removals \cup {Root(r)} /\ NewCall(Root(r), "none")
          /\ \A k \in DOMAIN removals : removals'[k] = removals[k]
      BY <1>10, <2>3, ReceiveFacts
    <3>2. PICK calls : calls = {Root(r)}
      OBVIOUS
    <3> QED BY <1>3, <2>1, <3>1, <3>2 DEF NewCall
  <2> QED BY <2>2, <2>3
<1>11. ASSUME NEW u \in unlinks, PullFromRelation(u) \/ DropBlankRelation(u) PROVE Kept
  BY <1>1, <1>11 DEF PullFromRelation, DropBlankRelation
<1>12. ASSUME NEW a \in adds,
              EnsureRelation(a) \/ ReplaceEnclosure(a) \/ PushToRelation(a) \/ AddFails(a)
       PROVE  Kept
  BY <1>1, <1>12 DEF EnsureRelation, ReplaceEnclosure, PushToRelation, AddFails
<1>16. ASSUME NEW u \in unlinks, UnlinkFails(u) PROVE Kept
  <2>1. UNCHANGED <<db, active>>
    BY <1>16, UnlinkFailsFacts
  <2>2. CASE UNCHANGED removals
    BY <1>1, <2>1, <2>2
  <2>3. CASE u.by \in DOMAIN removals /\ CallFails(u.by)
    <3>1. Checked(u.by)'
      BY <2>3 DEF Checked, Destroying, CallFails
    <3> QED BY <1>2, <2>1, <2>3, <3>1 DEF CallFails
  <2> QED BY <1>16, <2>2, <2>3, UnlinkFailsFacts
<1>13. ASSUME NEW r \in Request, CallHandlers(r) \/ Answer(r) PROVE Kept
  BY <1>1, <1>13 DEF CallHandlers, Answer
<1>14. ASSUME NEW n \in Node, StartWorkflow(n) \/ FinishWorkflow(n) PROVE FALSE
  BY <1>14 DEF StartWorkflow, FinishWorkflow
<1>15. ASSUME NEW k \in DOMAIN removals, RemoveNode(k) PROVE Kept
  BY <1>4, <1>5, <1>6, <1>7, <1>8, <1>9, <1>15 DEF RemoveNode
<1> QED
  BY <1>10, <1>11, <1>12, <1>13, <1>14, <1>15, <1>16 DEF Next, Serve

\* When no workflow starts after the service has begun to serve, a node with an
\* active workflow is never destroyed, neither by a deletion of its own nor by
\* the deletion of its enclosure, whatever other requests run.
THEOREM ActiveNodeSurvivesAlways ==
    ASSUME MayStart = {}
    PROVE  Spec => ActiveNodeSurvives
<1>1. Init => ActiveInv
  BY DEF Init, ActiveInv
<1>2. IInv /\ ActiveInv /\ [Next]_vars => ActiveInv'
  <2>1. CASE Next
    BY <2>1, ActiveStep
  <2>2. CASE UNCHANGED vars
    BY <2>2 DEF vars, ActiveInv, Checked
  <2> QED
    BY <2>1, <2>2
<1>3. IInv /\ ActiveInv /\ [Next]_vars => [\A n \in DOMAIN db \ DOMAIN db' : n \notin active]_vars
  BY ActiveStep
<1> QED
  BY <1>1, <1>2, <1>3, Invariant, PTL DEF Spec, ActiveNodeSurvives

-----------------------------------------------------------------------------
(* The documents of a removed node                                         *)

\* A call has cleared the collections it has done with, and all of them before it
\* publishes.
Clears(k) ==
    /\ removals[k].stage \in {"publish", "done"} => removals[k].left = {}
    /\ \A c \in Collections \ removals[k].left : <<c, NodeOf(k)>> \notin docs

DocsInv ==
    /\ announced = [n \in Node |-> announced[n]]
    /\ \A k \in DOMAIN removals : Clears(k)
    /\ \A n \in Node : announced[n] = 0 \/ \A c \in Collections : <<c, n>> \notin docs

\* A step that publishes nothing: the calls have cleared what they had, and a call that
\* has been made has to begin with everything.
LEMMA ClearsKept ==
    ASSUME DocsInv, docs' \subseteq docs, UNCHANGED announced,
           \A k \in DOMAIN removals' :
               \/ Clears(k)'
               \/ /\ k \in DOMAIN removals /\ removals'[k].left = removals[k].left
                  /\ removals'[k].stage \in {"publish", "done"} =>
                         removals[k].stage \in {"publish", "done"}
    PROVE  DocsInv'
<1>1. ASSUME NEW k \in DOMAIN removals' PROVE Clears(k)'
  BY <1>1 DEF DocsInv, Clears
<1> QED
  BY <1>1 DEF DocsInv

\* Every step leaves the documents consistent with the events.
LEMMA DocsStep ==
    ASSUME "destroy" \notin Faults, IInv, DocsInv, Next
    PROVE  DocsInv'
<1> DEFINE Same(k) == /\ k \in DOMAIN removals /\ removals'[k].left = removals[k].left
                      /\ removals'[k].stage \in {"publish", "done"} =>
                             removals[k].stage \in {"publish", "done"}
<1>1. ASSUME UNCHANGED <<docs, removals, announced>> PROVE DocsInv'
  BY <1>1 DEF DocsInv, Clears
\* a call whose record is all that changes
<1>2. ASSUME NEW k \in DOMAIN removals, UNCHANGED <<docs, announced>>, Changes(k), Same(k)
      PROVE  DocsInv'
  BY <1>2, ClearsKept DEF Changes
\* calls that are made begin with everything
<1>3. ASSUME NEW calls, DOMAIN removals' = DOMAIN removals \cup calls, UNCHANGED <<docs, announced>>,
             \A c \in calls : \E src : NewCall(c, src),
             \A k \in DOMAIN removals : /\ removals'[k].left = removals[k].left
                                       /\ removals'[k].stage = removals[k].stage
      PROVE  DocsInv'
  <2>1. ASSUME NEW c \in calls PROVE Clears(c)'
    BY <1>3 DEF NewCall, Clears, Cleared
  <2> QED BY <1>3, <2>1, ClearsKept
<1>4. ASSUME NEW k \in DOMAIN removals, CheckActive(k) PROVE DocsInv'
  BY <1>2, <1>4, CheckFacts
<1>5. ASSUME NEW k \in DOMAIN removals, NEW t, FindTargets(k, t) PROVE DocsInv'
  BY <1>2, <1>5, FindFacts
<1>6. ASSUME NEW k \in DOMAIN removals, NEW t, ValidateTargets(k, t) PROVE DocsInv'
  <2>1. UNCHANGED <<docs, announced>> /\ removals'[k].left = removals[k].left
    BY <1>6, ValidateFacts
  <2>2. CASE Changes(k) /\ removals'[k].stage = "failed"
    BY <1>2, <2>1, <2>2
  <2>3. CASE /\ DOMAIN removals' = DOMAIN removals \cup Components(k, t)
             /\ removals'[k].stage = removals[k].stage
             /\ \A c \in DOMAIN removals : c # k => removals'[c] = removals[c]
             /\ \A c \in Components(k, t) : NewCall(c, NodeRelations[t].mapping)
    BY <1>3, <2>1, <2>3
  <2> QED BY <1>6, <2>2, <2>3, ValidateFacts
<1>7. ASSUME NEW k \in DOMAIN removals, ComponentFailed(k) PROVE DocsInv'
  BY <1>2, <1>7, FailedFacts
<1>8. ASSUME NEW k \in DOMAIN removals, NEW c \in Cleared, Destroy(k, c) PROVE DocsInv'
  <2>1. /\ docs' = docs \ {<<c, NodeOf(k)>>} /\ Changes(k) /\ UNCHANGED announced
        /\ removals'[k].left = removals[k].left \ {c}
        /\ removals'[k].stage \in {"publish", "destroy"}
        /\ removals'[k].stage = "publish" => removals'[k].left = {}
    BY <1>8, DestroyFacts
  <2>2. Clears(k)'
    BY <2>1 DEF DocsInv, Clears
  <2> QED
    BY <2>1, <2>2, ClearsKept DEF Changes
<1>9. ASSUME NEW k \in DOMAIN removals, Publish(k) PROVE DocsInv'
  <2>1. /\ Changes(k) /\ UNCHANGED docs /\ removals[k].stage = "publish" /\ Clears(k)
        /\ removals'[k].left = removals[k].left
        /\ announced' = announced \/ announced' = [announced EXCEPT ![NodeOf(k)] = @ + 1]
    BY <1>9, PublishFacts DEF DocsInv
  <2>2. \A j \in DOMAIN removals' : Clears(j)'
    BY <2>1 DEF DocsInv, Changes, Clears
  <2>3. \A c \in Collections : <<c, NodeOf(k)>> \notin docs
    BY <2>1 DEF Clears
  <2>4. /\ announced' = [n \in Node |-> announced'[n]]
        /\ \A n \in Node : n # NodeOf(k) => announced'[n] = announced[n]
    BY <2>1 DEF DocsInv
  <2>5. ASSUME NEW n \in Node
        PROVE  announced'[n] = 0 \/ \A c \in Collections : <<c, n>> \notin docs'
    BY <2>1, <2>3, <2>4 DEF DocsInv
  <2> QED
    BY <2>2, <2>4, <2>5 DEF DocsInv
<1>10. ASSUME NEW r \in Request, Receive(r) PROVE DocsInv'
  <2>1. UNCHANGED <<docs, announced>>
    BY <1>10, ReceiveFacts
  <2>2. CASE UNCHANGED removals
    BY <1>1, <2>1, <2>2
  <2>3. CASE removals' # removals
    <3>1. /\ DOMAIN removals' = DOMAIN removals \cup {Root(r)} /\ NewCall(Root(r), "none")
          /\ \A k \in DOMAIN removals : removals'[k] = removals[k]
      BY <1>10, <2>3, ReceiveFacts
    <3>2. PICK calls : calls = {Root(r)}
      OBVIOUS
    <3> QED BY <1>3, <2>1, <3>1, <3>2
  <2> QED BY <2>2, <2>3
<1>11. ASSUME NEW u \in unlinks, PullFromRelation(u) \/ DropBlankRelation(u) PROVE DocsInv'
  BY <1>1, <1>11 DEF PullFromRelation, DropBlankRelation
<1>12. ASSUME NEW a \in adds,
              EnsureRelation(a) \/ ReplaceEnclosure(a) \/ PushToRelation(a) \/ AddFails(a)
       PROVE  DocsInv'
  BY <1>1, <1>12 DEF EnsureRelation, ReplaceEnclosure, PushToRelation, AddFails
<1>16. ASSUME NEW u \in unlinks, UnlinkFails(u) PROVE DocsInv'
  <2>1. UNCHANGED <<docs, announced>>
    BY <1>16, UnlinkFailsFacts
  <2>2. CASE UNCHANGED removals
    BY <1>1, <2>1, <2>2
  <2>3. CASE u.by \in DOMAIN removals /\ CallFails(u.by)
    BY <1>2, <2>1, <2>3 DEF CallFails
  <2> QED BY <1>16, <2>2, <2>3, UnlinkFailsFacts
<1>13. ASSUME NEW r \in Request, CallHandlers(r) \/ Answer(r) PROVE DocsInv'
  BY <1>1, <1>13 DEF CallHandlers, Answer
<1>14. ASSUME NEW n \in Node, StartWorkflow(n) \/ FinishWorkflow(n) PROVE DocsInv'
  BY <1>1, <1>14 DEF StartWorkflow, FinishWorkflow
<1>15. ASSUME NEW k \in DOMAIN removals, RemoveNode(k) PROVE DocsInv'
  BY <1>4, <1>5, <1>6, <1>7, <1>8, <1>9, <1>15 DEF RemoveNode
<1> QED
  BY <1>10, <1>11, <1>12, <1>13, <1>14, <1>15, <1>16 DEF Next, Serve

\* When no write of the datastore is swallowed, nothing is left of a node in the lookups,
\* catalogs and work items once its 'removed' event has been published (removeNode),
\* whatever fails elsewhere and however the cascades of several deletions interleave.
THEOREM NoDocumentOutlivesEventAlways ==
    ASSUME "destroy" \notin Faults
    PROVE  Spec => []NoDocumentOutlivesEvent
<1>1. Init => DocsInv
  BY DEF Init, DocsInv
<1>2. IInv /\ DocsInv /\ [Next]_vars => DocsInv'
  <2>1. CASE Next
    BY <2>1, DocsStep
  <2>2. CASE UNCHANGED vars
    BY <2>2 DEF vars, DocsInv, Clears
  <2> QED
    BY <2>1, <2>2
<1>3. DocsInv => NoDocumentOutlivesEvent
  <2>1. \A n \in Node : announced[n] > 0 => announced[n] # 0
    OBVIOUS
  <2> QED
    BY <2>1 DEF DocsInv, NoDocumentOutlivesEvent
<1> QED
  BY <1>1, <1>2, <1>3, Invariant, PTL DEF Spec

-----------------------------------------------------------------------------
(* The list operations                                                     *)

\* Every set of numbers has a least one: what stands in for induction.
LEMMA Least == ASSUME NEW T \in SUBSET Nat, T # {} PROVE \E x \in T : \A y \in T : x <= y
<1>1. IsWellFoundedOn(OpToRel(<, Nat), Nat)
  BY NatLessThanWellFounded
<1>2. PICK x \in T : \A y \in T : ~ (<<y, x>> \in OpToRel(<, Nat))
  BY <1>1, WFMin
<1>3. \A y \in T : ~ (y < x)
  BY <1>2 DEF OpToRel
<1> QED
  BY <1>3

\* Without goes through its list once: the lists it is left with after each item.
LEMMA WithoutSteps ==
    ASSUME NEW S, NEW s \in Seq(S), NEW drop
    PROVE  \E k : /\ k[0] = <<>>
                  /\ \A i \in 1 .. Len(s) :
                        k[i] = IF s[i] \in drop THEN k[i - 1] ELSE Append(k[i - 1], s[i])
                  /\ Without(s, drop) = k[Len(s)]
<1> DEFINE Is(k, n) == k = [i \in 0 .. n |->
                         IF i = 0 THEN <<>>
                         ELSE IF s[i] \in drop THEN k[i - 1] ELSE Append(k[i - 1], s[i])]
           Bad == {n \in Nat : ~ \E k : Is(k, n)}
<1>1. Bad = {}
  <2> SUFFICES ASSUME Bad # {} PROVE FALSE
    OBVIOUS
  <2>1. PICK n \in Bad : \A m \in Bad : n <= m
    BY Least
  <2>2. n # 0
    <3> DEFINE k == [i \in 0 .. 0 |-> <<>>]
    <3>1. Is(k, 0)
      OBVIOUS
    <3> QED BY <3>1
  <2>3. n - 1 \in Nat /\ n - 1 \notin Bad
    <3>1. n \in Nat
      OBVIOUS
    <3> HIDE DEF Bad
    <3> QED BY <3>1, <2>1, <2>2
  <2>4. PICK k : Is(k, n - 1)
    BY <2>3
  <2> DEFINE j == [i \in 0 .. n |-> IF i = n THEN IF s[n] \in drop THEN k[n - 1] ELSE Append(k[n - 1], s[n])
                                    ELSE k[i]]
  <2>5. Is(j, n)
    <3>1. \A i \in 0 .. n : j[i] = IF i = 0 THEN <<>>
                         ELSE IF s[i] \in drop THEN j[i - 1] ELSE Append(j[i - 1], s[i])
      <4>1. CASE TRUE
        <5> TAKE i \in 0 .. n
        <5>1. CASE i = n
          BY <2>2, <2>3, <5>1
        <5>2. CASE i # n
          <6>1. i \in 0 .. n - 1 /\ j[i] = k[i] /\ (i # 0 => j[i - 1] = k[i - 1])
            BY <5>2, <2>3
          <6> HIDE DEF j
          <6> QED BY <6>1, <2>4
        <5> QED BY <5>1, <5>2
      <4> QED BY <4>1
    <3> QED BY <3>1
  <2> QED BY <2>5, <2>1
<1>2. \E k : Is(k, Len(s))
  <2>1. Len(s) \in Nat
    OBVIOUS
  <2>2. Len(s) \notin Bad
    <3> HIDE DEF Bad
    <3> QED BY <1>1
  <2> HIDE DEF Is
  <2> QED BY <2>1, <2>2
<1> DEFINE k == CHOOSE k : Is(k, Len(s))
<1>3. Is(k, Len(s)) /\ Without(s, drop) = k[Len(s)]
  BY <1>2 DEF Without
<1> HIDE DEF k
<1>4. \A i \in 0 .. Len(s) : k[i] = IF i = 0 THEN <<>>
                         ELSE IF s[i] \in drop THEN k[i - 1] ELSE Append(k[i - 1], s[i])
  BY <1>3
<1> HIDE DEF Is
<1>5. k[0] = <<>>
  BY <1>4
<1>6. \A i \in 1 .. Len(s) : k[i] = IF s[i] \in drop THEN k[i - 1] ELSE Append(k[i - 1], s[i])
  BY <1>4
<1> QED BY <1>3, <1>5, <1>6

\* The members of w stand at increasing positions of s, and are those not dropped.
Keeps(w, s, drop) ==
    \E p \in [DOMAIN w -> DOMAIN s] :
        /\ \A j \in DOMAIN p : w[j] = s[p[j]] /\ s[p[j]] \notin drop
        /\ \A j, h \in DOMAIN p : j < h => p[j] < p[h]
        /\ \A i \in DOMAIN s : s[i] \notin drop => \E j \in DOMAIN p : p[j] = i

\* Without(s, drop) keeps the order of s: its items stand at increasing positions of s,
\* and they are the ones that are not dropped.
LEMMA WithoutKeeps ==
    ASSUME NEW S, NEW s \in Seq(S), NEW drop
    PROVE  /\ Without(s, drop) \in Seq(S)
           /\ Keeps(Without(s, drop), s, drop)
<1>1. PICK k : /\ k[0] = <<>>
               /\ \A i \in 1 .. Len(s) :
                     k[i] = IF s[i] \in drop THEN k[i - 1] ELSE Append(k[i - 1], s[i])
               /\ Without(s, drop) = k[Len(s)]
  BY WithoutSteps
<1> DEFINE From(i, p) ==
             /\ k[i] \in Seq(S) /\ p \in [1 .. Len(k[i]) -> 1 .. i]
             /\ \A j \in DOMAIN p : k[i][j] = s[p[j]] /\ s[p[j]] \notin drop
             /\ \A j, h \in DOMAIN p : j < h => p[j] < p[h]
             /\ \A l \in 1 .. i : s[l] \notin drop => \E j \in DOMAIN p : p[j] = l
           Bad == {i \in 0 .. Len(s) : ~ \E p : From(i, p)}
<1>3. Bad = {}
  <2> SUFFICES ASSUME Bad # {} PROVE FALSE
    OBVIOUS
  <2>1. PICK i \in Bad : \A h \in Bad : i <= h
    <3>1. Bad \in SUBSET Nat
      OBVIOUS
    <3> HIDE DEF Bad
    <3> QED BY <3>1, Least
  <2>2. i \in 0 .. Len(s) /\ ~ \E p : From(i, p)
    OBVIOUS
  <2>3. i # 0
    <3>1. From(0, <<>>)
      BY <1>1
    <3> HIDE DEF From
    <3> QED BY <2>2, <3>1
  <2>4. i - 1 \in 0 .. Len(s) /\ i - 1 \notin Bad
    <3> HIDE DEF Bad
    <3> QED BY <2>1, <2>2, <2>3
  <2>5. PICK p : From(i - 1, p)
    <3> HIDE DEF From
    <3> QED BY <2>4
  <2>6. CASE s[i] \in drop
    <3>1. k[i] = k[i - 1]
      BY <1>1, <2>2, <2>3, <2>6
    <3>2. From(i, p)
      BY <2>2, <2>3, <2>5, <2>6, <3>1
    <3> HIDE DEF From
    <3> QED BY <2>2, <3>2
  <2>7. CASE s[i] \notin drop
    <3> DEFINE n == Len(k[i - 1])
               q == [j \in 1 .. n + 1 |-> IF j = n + 1 THEN i ELSE p[j]]
    <3>1. /\ k[i] = Append(k[i - 1], s[i]) /\ s[i] \in S /\ k[i - 1] \in Seq(S)
          /\ n \in Nat
      <4>1. i \in 1 .. Len(s) /\ k[i - 1] \in Seq(S)
        BY <2>2, <2>3, <2>5
      <4>2. s[i] \in S
        BY <4>1
      <4>3. k[i] = Append(k[i - 1], s[i])
        <5> HIDE DEF From, Bad
        <5> QED BY <1>1, <2>7, <4>1
      <4> QED BY <4>1, <4>2, <4>3
    <3>2. k[i] \in Seq(S) /\ Len(k[i]) = n + 1
      BY <3>1
    <3>3. q \in [1 .. Len(k[i]) -> 1 .. i]
      BY <2>2, <2>3, <2>5, <3>1, <3>2
    <3>4. \A j \in DOMAIN q : k[i][j] = s[q[j]] /\ s[q[j]] \notin drop
      <4> SUFFICES ASSUME NEW j \in 1 .. n + 1
                   PROVE  k[i][j] = s[q[j]] /\ s[q[j]] \notin drop
        BY <3>3
      <4>1. CASE j = n + 1
        BY <2>7, <3>1, <4>1
      <4>2. CASE j # n + 1
        <5>1. j \in 1 .. n /\ q[j] = p[j]
          BY <3>1, <4>2
        <5>2. k[i][j] = k[i - 1][j]
          BY <3>1, <5>1
        <5> QED BY <2>5, <5>1, <5>2
      <4> QED BY <4>1, <4>2
    <3>5. \A j, h \in DOMAIN q : j < h => q[j] < q[h]
      <4> SUFFICES ASSUME NEW j \in 1 .. n + 1, NEW h \in 1 .. n + 1, j < h
                   PROVE  q[j] < q[h]
        BY <3>3
      <4>1. j \in 1 .. n /\ q[j] = p[j] /\ p[j] \in 1 .. i - 1
        BY <2>5, <3>1
      <4>2. CASE h = n + 1
        BY <2>2, <4>1, <4>2
      <4>3. CASE h # n + 1
        BY <2>5, <3>1, <4>1, <4>3
      <4> QED BY <4>2, <4>3
    <3>6. \A l \in 1 .. i : s[l] \notin drop => \E j \in DOMAIN q : q[j] = l
      <4> SUFFICES ASSUME NEW l \in 1 .. i, s[l] \notin drop
                   PROVE  \E j \in 1 .. n + 1 : q[j] = l
        BY <3>3
      <4>1. CASE l = i
        <5>1. q[n + 1] = i /\ n + 1 \in 1 .. n + 1
          BY <3>1
        <5> QED BY <4>1, <5>1
      <4>2. CASE l # i
        <5>1. l \in 1 .. i - 1
          BY <2>2, <4>2
        <5>2. PICK j \in 1 .. n : p[j] = l
          BY <2>5, <5>1
        <5>3. j \in 1 .. n + 1 /\ q[j] = l
          BY <3>1, <5>2
        <5> HIDE DEF q
        <5> QED BY <5>3
      <4> QED BY <4>1, <4>2
    <3> HIDE DEF q, n
    <3>7. From(i, q)
      BY <3>2, <3>3, <3>4, <3>5, <3>6
    <3> HIDE DEF From
    <3> QED BY <2>2, <3>7
  <2> QED BY <2>6, <2>7
<1>4. PICK p : From(Len(s), p)
  <2>1. Len(s) \in 0 .. Len(s)
    OBVIOUS
  <2> HIDE DEF From
  <2> QED BY <1>3, <2>1
<1> DEFINE w == k[Len(s)]
<1>5. /\ w \in Seq(S) /\ p \in [DOMAIN w -> DOMAIN s] /\ DOMAIN w = 1 .. Len(w) /\ DOMAIN s = 1 .. Len(s)
  <2>1. w \in Seq(S) /\ p \in [1 .. Len(w) -> 1 .. Len(s)]
    BY <1>4
  <2> HIDE DEF w
  <2>2. DOMAIN w = 1 .. Len(w) /\ DOMAIN s = 1 .. Len(s)
    BY <2>1
  <2> QED BY <2>1, <2>2
<1>6. w = Without(s, drop)
  BY <1>1
<1>7. /\ \A j \in DOMAIN p : w[j] = s[p[j]] /\ s[p[j]] \notin drop
      /\ \A j, h \in DOMAIN p : j < h => p[j] < p[h]
      /\ \A i \in DOMAIN s : s[i] \notin drop => \E j \in DOMAIN p : p[j] = i
  BY <1>4, <1>5
<1> HIDE DEF w, From
<1>8. Keeps(w, s, drop)
  BY <1>5, <1>7 DEF Keeps
<1> QED BY <1>5, <1>6, <1>8

\* Without takes out what it is told to, and nothing else; the list gets no longer.
LEMMA WithoutShrinks ==
    ASSUME NEW S, NEW s \in Seq(S), NEW drop
    PROVE  /\ Without(s, drop) \in Seq(S) /\ Len(Without(s, drop)) \in Nat
           /\ Len(Without(s, drop)) <= Len(s)
           /\ ToSet(Without(s, drop)) = ToSet(s) \ drop
<1> DEFINE w == Without(s, drop)
<1>1. w \in Seq(S) /\ Keeps(w, s, drop)
  BY WithoutKeeps
<1> HIDE DEF w
<1>2. PICK p \in [DOMAIN w -> DOMAIN s] :
            /\ \A j \in DOMAIN p : w[j] = s[p[j]] /\ s[p[j]] \notin drop
            /\ \A j, h \in DOMAIN p : j < h => p[j] < p[h]
            /\ \A i \in DOMAIN s : s[i] \notin drop => \E j \in DOMAIN p : p[j] = i
  BY <1>1 DEF Keeps
<1>3. DOMAIN w = 1 .. Len(w) /\ DOMAIN s = 1 .. Len(s) /\ Len(w) \in Nat /\ Len(s) \in Nat
  BY <1>1
<1>4. ToSet(w) = ToSet(s) \ drop
  <2>1. ASSUME NEW j \in DOMAIN w PROVE w[j] \in ToSet(s) \ drop
    <3>1. p[j] \in DOMAIN s /\ w[j] = s[p[j]] /\ s[p[j]] \notin drop
      BY <1>2
    <3> QED BY <3>1 DEF ToSet
  <2>2. ASSUME NEW i \in DOMAIN s, s[i] \notin drop PROVE s[i] \in ToSet(w)
    <3>1. PICK j \in DOMAIN w : p[j] = i
      BY <1>2, <2>2
    <3>2. w[j] = s[i]
      BY <1>2, <3>1
    <3> QED BY <3>2 DEF ToSet
  <2> QED BY <2>1, <2>2 DEF ToSet
<1>5. Len(w) <= Len(s)
  <2> DEFINE Bad == {j \in 1 .. Len(w) : p[j] < j}
  <2>1. Bad = {}
    <3> SUFFICES ASSUME Bad # {} PROVE FALSE
      OBVIOUS
    <3>1. PICK j \in Bad : \A h \in Bad : j <= h
      <4>1. Bad \in SUBSET Nat
        BY <1>3
      <4> HIDE DEF Bad
      <4> QED BY <4>1, Least
    <3>2. j \in 1 .. Len(w) /\ p[j] < j /\ p[j] \in 1 .. Len(s)
      BY <1>2, <1>3
    <3>3. j - 1 \in 1 .. Len(w) /\ p[j - 1] < p[j] /\ p[j - 1] \in 1 .. Len(s)
      <4>1. j - 1 \in 1 .. Len(w) /\ j - 1 < j
        BY <1>3, <3>2
      <4>2. p[j - 1] < p[j] /\ p[j - 1] \in DOMAIN s
        BY <1>2, <1>3, <3>2, <4>1
      <4> QED BY <1>3, <4>1, <4>2
    <3>4. j - 1 \in Bad
      BY <3>2, <3>3
    <3> QED BY <3>1, <3>2, <3>4
  <2>2. CASE Len(w) = 0
    BY <1>3, <2>2
  <2>3. CASE Len(w) # 0
    <3>1. Len(w) \in 1 .. Len(w) /\ p[Len(w)] \in 1 .. Len(s)
      BY <1>2, <1>3, <2>3
    <3>2. ~(p[Len(w)] < Len(w))
      BY <2>1, <3>1
    <3> QED BY <1>3, <3>1, <3>2
  <2> QED BY <2>2, <2>3
<1> QED BY <1>1, <1>3, <1>4, <1>5 DEF w

\* IndexOf finds an item of the type, if there is one.
LEMMA IndexFacts ==
    ASSUME NEW rels \in Relations, NEW t
    PROVE  /\ IndexOf(rels, t) \in Nat
           /\ IndexOf(rels, t) # 0 => /\ IndexOf(rels, t) \in DOMAIN rels
                                     /\ rels[IndexOf(rels, t)].relationType = t
           /\ IndexOf(rels, t) = 0 => \A i \in DOMAIN rels : rels[i].relationType # t
<1> DEFINE at == {i \in DOMAIN rels : rels[i].relationType = t}
<1>1. at \in SUBSET Nat /\ at \subseteq 1 .. Len(rels)
  BY DEF Relations
<1>2. CASE at = {}
  BY <1>2 DEF IndexOf
<1>3. CASE at # {}
  <2>1. \E i \in at : \A j \in at : i <= j
    <3> HIDE DEF at
    <3> QED BY <1>1, <1>3, Least
  <2>2. IndexOf(rels, t) = CHOOSE i \in at : \A j \in at : i <= j
    BY <1>3 DEF IndexOf
  <2>3. IndexOf(rels, t) \in at
    <3> HIDE DEF at
    <3> QED BY <2>1, <2>2
  <2>4. IndexOf(rels, t) # 0
    BY <1>1, <2>3
  <2> QED BY <1>1, <2>3, <2>4
<1> QED BY <1>2, <1>3

\* The document is a list of items.
LEMMA ItemAt ==
    ASSUME NEW rels \in Relations, NEW i \in DOMAIN rels
    PROVE  /\ rels[i] \in Item /\ rels[i].targets \in Seq(Target)
           /\ rels[i] = [relationType |-> rels[i].relationType, targets |-> rels[i].targets]
           /\ i \in 1 .. Len(rels) /\ Len(rels) \in Nat
<1>1. rels[i] \in Item /\ i \in 1 .. Len(rels) /\ Len(rels) \in Nat
  BY DEF Relations
<1> QED BY <1>1 DEF Item

\* One list of targets is replaced, and every item keeps its place and its type.
LEMMA OneItemChanged ==
    ASSUME NEW rels \in Relations, NEW i \in DOMAIN rels, NEW ts \in Seq(Target)
    PROVE  LET new == [rels EXCEPT ![i].targets = ts]
           IN  /\ new \in Relations /\ DOMAIN new = DOMAIN rels /\ Len(new) = Len(rels)
               /\ \A j \in DOMAIN rels : new[j].relationType = rels[j].relationType
               /\ new[i].targets = ts
               /\ \A j \in DOMAIN rels \ {i} : new[j] = rels[j]
<1> DEFINE new == [rels EXCEPT ![i].targets = ts]
<1>1. /\ rels[i] \in Item /\ i \in 1 .. Len(rels) /\ Len(rels) \in Nat
      /\ rels[i] = [relationType |-> rels[i].relationType, targets |-> rels[i].targets]
      /\ rels \in Seq(Item)
  BY ItemAt DEF Relations
<1>2. new = [rels EXCEPT ![i] = [rels[i] EXCEPT !.targets = ts]]
  OBVIOUS
<1> DEFINE item == [rels[i] EXCEPT !.targets = ts]
<1>3. item \in Item /\ item.relationType = rels[i].relationType /\ item.targets = ts
  BY <1>1 DEF Item
<1> HIDE DEF item
<1>4. [rels EXCEPT ![i] = item] \in Seq(Item)
  BY <1>1, <1>3
<1>5. new = [rels EXCEPT ![i] = item]
  BY <1>2 DEF item
<1>6. DOMAIN new = DOMAIN rels /\ new[i] = item /\ \A j \in DOMAIN rels \ {i} : new[j] = rels[j]
  BY <1>1, <1>5
<1>7. new \in Relations
  BY <1>4, <1>5 DEF Relations
<1> HIDE DEF new
<1>8. Len(new) = Len(rels)
  BY <1>6, <1>7 DEF Relations
<1>9. \A j \in DOMAIN rels : new[j].relationType = rels[j].relationType
  BY <1>3, <1>6
<1> QED BY <1>3, <1>6, <1>7, <1>8, <1>9 DEF new

\* Pulling targets changes one item, and only takes targets out of it.
LEMMA PullTargetsFacts ==
    ASSUME NEW rels \in Relations, NEW i, NEW old
    PROVE  LET new == PullTargets(rels, i, old)
           IN  /\ new \in Relations /\ DOMAIN new = DOMAIN rels
               /\ \A j \in DOMAIN rels :
                     /\ new[j].relationType = rels[j].relationType
                     /\ Len(new[j].targets) <= Len(rels[j].targets)
                     /\ ToSet(new[j].targets) \subseteq ToSet(rels[j].targets)
               /\ \A j \in DOMAIN rels \ {i} : new[j] = rels[j]
               /\ i \in DOMAIN rels => ToSet(new[i].targets) = ToSet(rels[i].targets) \ old
<1>1. \A j \in DOMAIN rels : rels[j].targets \in Seq(Target) /\ Len(rels[j].targets) \in Nat
  BY ItemAt
<1>2. CASE i \notin DOMAIN rels
  BY <1>1, <1>2 DEF PullTargets
<1>3. CASE i \in DOMAIN rels
  <2> DEFINE ts == Without(rels[i].targets, old)
             new == [rels EXCEPT ![i].targets = ts]
  <2>1. PullTargets(rels, i, old) = new
    BY <1>3 DEF PullTargets
  <2>2. /\ ts \in Seq(Target) /\ Len(ts) <= Len(rels[i].targets)
        /\ ToSet(ts) = ToSet(rels[i].targets) \ old
    BY <1>1, <1>3, WithoutShrinks
  <2> HIDE DEF ts
  <2>3. /\ new \in Relations /\ DOMAIN new = DOMAIN rels
        /\ \A j \in DOMAIN rels : new[j].relationType = rels[j].relationType
        /\ new[i].targets = ts
        /\ \A j \in DOMAIN rels \ {i} : new[j] = rels[j]
    BY <1>3, <2>2, OneItemChanged
  <2> HIDE DEF new
  <2>4. \A j \in DOMAIN rels : /\ Len(new[j].targets) <= Len(rels[j].targets)
                               /\ ToSet(new[j].targets) \subseteq ToSet(rels[j].targets)
    <3> TAKE j \in DOMAIN rels
    <3>1. CASE j = i
      BY <2>2, <2>3, <3>1
    <3>2. CASE j # i
      BY <1>1, <2>3, <3>2
    <3> QED BY <3>1, <3>2
  <2> QED BY <2>1, <2>2, <2>3, <2>4
<1> QED BY <1>2, <1>3

\* Pushing targets changes one item, which then has them.
LEMMA PushTargetsFacts ==
    ASSUME NEW rels \in Relations, NEW i \in DOMAIN rels, NEW more \in Seq(Target)
    PROVE  LET new == PushTargets(rels, i, more)
           IN  /\ new \in Relations /\ DOMAIN new = DOMAIN rels
               /\ \A j \in DOMAIN rels : new[j].relationType = rels[j].relationType
               /\ Len(new[i].targets) <= Len(rels[i].targets) + Len(more)
               /\ ToSet(new[i].targets) = ToSet(rels[i].targets) \cup ToSet(more)
               /\ \A j \in DOMAIN rels \ {i} : new[j] = rels[j]
<1> DEFINE old == rels[i].targets
           left == Without(more, ToSet(old))
           ts == old \o left
           new == [rels EXCEPT ![i].targets = ts]
<1>1. old \in Seq(Target) /\ Len(old) \in Nat /\ Len(more) \in Nat
  BY ItemAt
<1>2. PushTargets(rels, i, more) = new
  BY DEF PushTargets
<1>3. /\ left \in Seq(Target) /\ Len(left) <= Len(more) /\ Len(left) \in Nat
      /\ ToSet(left) = ToSet(more) \ ToSet(old)
  BY WithoutShrinks
<1> HIDE DEF old, left
<1>4. ts \in Seq(Target) /\ Len(ts) = Len(old) + Len(left)
  BY <1>1, <1>3
<1>5. ToSet(ts) = ToSet(old) \cup ToSet(left)
  <2>1. ASSUME NEW j \in DOMAIN ts PROVE ts[j] \in ToSet(old) \cup ToSet(left)
    <3>1. j \in 1 .. Len(old) + Len(left)
      BY <1>4
    <3>2. CASE j <= Len(old)
      BY <1>1, <1>3, <3>1, <3>2 DEF ToSet
    <3>3. CASE ~(j <= Len(old))
      <4>1. ts[j] = left[j - Len(old)] /\ j - Len(old) \in DOMAIN left
        BY <1>1, <1>3, <3>1, <3>3
      <4> QED BY <4>1 DEF ToSet
    <3> QED BY <3>2, <3>3
  <2>2. ASSUME NEW j \in DOMAIN old PROVE old[j] \in ToSet(ts)
    <3>1. j \in DOMAIN ts /\ ts[j] = old[j]
      BY <1>1, <1>3, <1>4
    <3> QED BY <3>1 DEF ToSet
  <2>3. ASSUME NEW j \in DOMAIN left PROVE left[j] \in ToSet(ts)
    <3>1. j + Len(old) \in DOMAIN ts /\ ts[j + Len(old)] = left[j]
      BY <1>1, <1>3, <1>4
    <3> QED BY <3>1 DEF ToSet
  <2> HIDE DEF ts
  <2> QED BY <2>1, <2>2, <2>3 DEF ToSet
<1>6. ToSet(ts) = ToSet(old) \cup ToSet(more)
  <2> HIDE DEF ts
  <2> QED BY <1>3, <1>5
<1>7. Len(ts) <= Len(old) + Len(more)
  <2> HIDE DEF ts
  <2> QED BY <1>1, <1>3, <1>4
<1> HIDE DEF ts
<1>8. /\ new \in Relations /\ DOMAIN new = DOMAIN rels
      /\ \A j \in DOMAIN rels : new[j].relationType = rels[j].relationType
      /\ new[i].targets = ts
      /\ \A j \in DOMAIN rels \ {i} : new[j] = rels[j]
  BY <1>4, OneItemChanged
<1> HIDE DEF new
<1> QED BY <1>2, <1>6, <1>7, <1>8 DEF old

\* Nothing moves when a blank item is appended.
LEMMA PushItemFacts ==
    ASSUME NEW rels \in Relations, NEW t \in RelationType
    PROVE  LET new == PushItem(rels, t)
           IN  /\ new \in Relations
               /\ \A j \in DOMAIN rels : j \in DOMAIN new /\ new[j] = rels[j]
               /\ \A j \in DOMAIN new \ DOMAIN rels : new[j] = Blank(t) /\ j = Len(rels) + 1
<1>1. Blank(t) \in Item
  BY DEF Blank, Item
<1>2. CASE IndexOf(rels, t) # 0
  BY <1>2 DEF PushItem
<1>3. CASE IndexOf(rels, t) = 0
  <2> DEFINE new == Append(rels, Blank(t))
  <2>1. new = PushItem(rels, t)
    BY <1>3 DEF PushItem
  <2>2. new \in Seq(Item) /\ rels \in Seq(Item) /\ Len(new) = Len(rels) + 1
    BY <1>1 DEF Relations
  <2>3. /\ DOMAIN rels = 1 .. Len(rels) /\ DOMAIN new = 1 .. Len(rels) + 1 /\ Len(rels) \in Nat
        /\ new[Len(rels) + 1] = Blank(t)
    BY <1>1, <2>2
  <2>4. /\ \A j \in DOMAIN rels : j \in DOMAIN new /\ new[j] = rels[j]
        /\ \A j \in DOMAIN new \ DOMAIN rels : new[j] = Blank(t) /\ j = Len(rels) + 1
    BY <1>1, <2>2, <2>3
  <2> HIDE DEF new
  <2> QED BY <2>1, <2>2, <2>4 DEF Relations
<1> QED BY <1>2, <1>3

\* Other items than the blank one stay, in their order.
LEMMA PullBlankFacts ==
    ASSUME NEW rels \in Relations, NEW t
    PROVE  LET new == PullBlank(rels, t)
           IN  /\ new \in Relations
               /\ \E p \in [DOMAIN new -> DOMAIN rels] :
                     /\ \A j \in DOMAIN new : new[j] = rels[p[j]]
                     /\ \A j, h \in DOMAIN new : p[j] = p[h] => j = h
<1> DEFINE new == PullBlank(rels, t)
<1>1. rels \in Seq(Item)
  BY DEF Relations
<1>2. /\ new \in Seq(Item)
      /\ Keeps(new, rels, {Blank(t)})
  <2>1. new = Without(rels, {Blank(t)})
    BY DEF PullBlank
  <2> HIDE DEF new
  <2> QED BY <1>1, <2>1, WithoutKeeps
<1> HIDE DEF new
<1>3. PICK p \in [DOMAIN new -> DOMAIN rels] :
            /\ \A j \in DOMAIN p : new[j] = rels[p[j]]
            /\ \A j, h \in DOMAIN p : j < h => p[j] < p[h]
  BY <1>2 DEF Keeps
<1>4. ASSUME NEW j \in DOMAIN new, NEW h \in DOMAIN new, p[j] = p[h] PROVE j = h
  <2>1. j \in Nat /\ h \in Nat /\ p[j] \in Nat /\ p[h] \in Nat
    BY <1>1, <1>2
  <2>2. ~(j < h) /\ ~(h < j)
    BY <1>3, <1>4, <2>1
  <2> QED BY <2>1, <2>2
<1> QED BY <1>2, <1>3, <1>4 DEF Relations, new

-----------------------------------------------------------------------------
(* Types                                                                   *)

UnlinkCall == [by : CallId, node : Node, type : RelationType, targets : SUBSET Node,
               index : Nat, stage : {"pull", "blank"}]
AddCall == [by : CallId, node : Node, rels : Relations, type : RelationType,
            targets : Seq(Target), index : Nat, stage : {"item", "replace", "push"}]

RecordTyped(c) ==
    /\ c.rels \in Relations /\ c.src \in RelationType \cup {"none"} /\ c.left \subseteq Cleared
    /\ DOMAIN c.branch \subseteq RelationType
    /\ \A t \in DOMAIN c.branch :
          /\ c.branch[t].at \in {"find", "validate", "calls"}
          /\ \A m \in DOMAIN c.branch[t].found : c.branch[t].found[m] \in Relations

StoreTyped ==
    /\ \A n \in DOMAIN db : db[n] \in Relations
    /\ docs \subseteq Collections \X Node
    /\ active \subseteq Node
    /\ announced \in [Node -> Nat]

RequestsTyped ==
    /\ phase \in [Request -> {"idle", "targets", "running", "ok", "error"}]
    /\ parent \in [Request -> Relations]
    /\ \A r \in Request : phase[r] = "targets" => Op[r].kind # "delete"

TInv ==
    /\ StoreTyped
    /\ RequestsTyped
    /\ \A k \in DOMAIN removals : RecordTyped(removals[k])
    /\ unlinks \subseteq UnlinkCall
    /\ adds \subseteq AddCall

\* The counterpart of a relation type is a relation type.
LEMMA MappingFacts ==
    ASSUME NEW t \in RelationType
    PROVE  NodeRelations[t].mapping \in RelationType
<1>1. RelationType = {"encloses", "enclosedBy", "contains", "containedBy", "powers", "poweredBy"}
  BY DEF RelationType, NodeRelations
<1>2. /\ NodeRelations["encloses"].mapping = "enclosedBy"
      /\ NodeRelations["enclosedBy"].mapping = "encloses"
      /\ NodeRelations["contains"].mapping = "containedBy"
      /\ NodeRelations["containedBy"].mapping = "contains"
      /\ NodeRelations["powers"].mapping = "poweredBy"
      /\ NodeRelations["poweredBy"].mapping = "powers"
  BY DEF NodeRelations
<1> QED BY <1>1, <1>2

\* The datastore call removeRelation makes, if it makes one.
LEMMA StartUnlinkFacts ==
    ASSUME NEW by \in CallId, NEW n \in Node, NEW rels \in Relations, NEW t \in RelationType,
           NEW targets \in SUBSET Node, NEW u \in StartUnlink(by, n, rels, t, targets)
    PROVE  /\ u \in UnlinkCall
           /\ u.by = by /\ u.node = n /\ u.type = t /\ u.targets = targets
           /\ u.index = IndexOf(rels, t) /\ u.index # 0
<1>1. /\ IndexOf(rels, t) # 0
      /\ u = [by |-> by, node |-> n, type |-> t, targets |-> targets, index |-> IndexOf(rels, t),
              stage |-> IF rels[IndexOf(rels, t)].targets = <<>> THEN "blank" ELSE "pull"]
  BY DEF StartUnlink
<1>2. IndexOf(rels, t) \in Nat
  BY IndexFacts
<1> QED BY <1>1, <1>2 DEF UnlinkCall

\* A call is about a node of the inventory.
LEMMA CallNode ==
    ASSUME NEW k \in CallId, k.path # <<>>
    PROVE  NodeOf(k) \in Node
<1>1. k.path \in Seq(Node)
  BY DEF CallId
<1>2. Len(k.path) \in 1 .. Len(k.path)
  BY <1>1
<1> QED BY <1>1, <1>2 DEF NodeOf, Last

\* A call whose record alone changes.
LEMMA ChangesTyped ==
    ASSUME TInv, NEW k \in DOMAIN removals, Changes(k), RecordTyped(removals'[k])
    PROVE  \A c \in DOMAIN removals' : RecordTyped(removals'[c])
BY DEF TInv, Changes

\* The branches of a checked call are about relation types.
LEMMA CheckTyped ==
    ASSUME IInv, TInv, NEW k \in DOMAIN removals, CheckActive(k)
    PROVE  TInv'
<1>1. /\ Changes(k) /\ removals'[k].left = removals[k].left
      /\ DOMAIN removals'[k].branch \subseteq Types(k)
      /\ \A t \in DOMAIN removals'[k].branch :
            removals'[k].branch[t] = [at |-> "find", found |-> <<>>]
      /\ UNCHANGED <<db, docs, active, phase, parent, unlinks, adds, announced>>
  BY CheckFacts
<1>2. RecordTyped(removals'[k])
  <2>1. DOMAIN removals'[k].branch \subseteq RelationType
    BY <1>1 DEF Types
  <2>2. DOMAIN <<>> = {}
    OBVIOUS
  <2> QED BY <1>1, <2>1, <2>2 DEF TInv, RecordTyped, Changes
<1>3. \A c \in DOMAIN removals' : RecordTyped(removals'[c])
  BY <1>1, <1>2, ChangesTyped
<1> QED BY <1>1, <1>3 DEF TInv, StoreTyped, RequestsTyped

\* The calls FindTargets makes.
LEMMA FindUnlinks ==
    ASSUME IInv, TInv, NEW k \in DOMAIN removals, NEW t \in RelationType, NEW found,
           Finds(k, t, found), NEW u \in unlinks', u \notin unlinks
    PROVE  /\ u \in UnlinkCall /\ u.by = k /\ u.node \in DOMAIN found
           /\ u.node \in DOMAIN db /\ u.node \in Wanted(k, t) /\ ~Cascades(t)
           /\ u \in StartUnlink(k, u.node, db[u.node], NodeRelations[t].mapping, {NodeOf(k)})
<1>1. k \in CallId /\ k.path # <<>> /\ DOMAIN db \subseteq Node
  BY DEF IInv, CallsTyped
<1>2. NodeOf(k) \in Node /\ NodeRelations[t].mapping \in RelationType
  BY <1>1, CallNode, MappingFacts
<1>3. /\ u \in UNION {StartUnlink(k, m, found[m], NodeRelations[t].mapping, {NodeOf(k)})
                       : m \in DOMAIN found}
      /\ ~Cascades(t)
  BY DEF Finds
<1>4. PICK m \in DOMAIN found :
        u \in StartUnlink(k, m, found[m], NodeRelations[t].mapping, {NodeOf(k)})
  BY <1>3
<1>5. m \in Node /\ m \in DOMAIN db /\ m \in Wanted(k, t) /\ found[m] = db[m] /\ db[m] \in Relations
  BY <1>1 DEF Finds, TInv, StoreTyped
<1>6. /\ u \in UnlinkCall /\ u.by = k /\ u.node = m /\ u.targets = {NodeOf(k)}
      /\ u.type = NodeRelations[t].mapping /\ u.index = IndexOf(db[m], NodeRelations[t].mapping)
      /\ u.index # 0
  BY <1>1, <1>2, <1>4, <1>5, StartUnlinkFacts
<1> QED BY <1>3, <1>4, <1>5, <1>6

\* A branch keeps documents of the inventory, and withdraws its node from them.
LEMMA FindTyped ==
    ASSUME IInv, TInv, NEW k \in DOMAIN removals, NEW t \in RelationType, FindTargets(k, t)
    PROVE  TInv'
<1>1. /\ Changes(k) /\ removals'[k].left = removals[k].left
      /\ t \in DOMAIN removals[k].branch
      /\ UNCHANGED <<db, docs, active, phase, parent, adds, announced>>
  BY FindFacts
<1>2. PICK found : Finds(k, t, found)
  BY FindFacts
<1>3. RecordTyped(removals'[k])
  <2>1. RecordTyped(removals[k])
    BY DEF TInv
  <2>2. \A m \in DOMAIN found : found[m] \in Relations
    BY <1>2 DEF Finds, TInv, StoreTyped
  <2>3. BranchIs(k, t, [at |-> IF Cascades(t) THEN "validate" ELSE "calls", found |-> found])
    BY <1>2 DEF Finds
  <2>4. /\ removals'[k].rels \in Relations /\ removals'[k].src \in RelationType \cup {"none"}
        /\ removals'[k].left \subseteq Cleared /\ DOMAIN removals'[k].branch \subseteq RelationType
    BY <1>1, <2>1, <2>3 DEF RecordTyped, Changes, BranchIs
  <2>5. ASSUME NEW s \in DOMAIN removals'[k].branch
        PROVE  /\ removals'[k].branch[s].at \in {"find", "validate", "calls"}
               /\ \A m \in DOMAIN removals'[k].branch[s].found :
                     removals'[k].branch[s].found[m] \in Relations
    <3>1. CASE s = t
      BY <2>2, <2>3, <3>1 DEF BranchIs
    <3>2. CASE s # t
      BY <2>1, <2>3, <3>2 DEF BranchIs, RecordTyped
    <3> QED BY <3>1, <3>2
  <2> QED BY <2>4, <2>5 DEF RecordTyped
<1>4. \A c \in DOMAIN removals' : RecordTyped(removals'[c])
  BY <1>1, <1>3, ChangesTyped
<1>5. unlinks' \subseteq UnlinkCall
  BY <1>2, FindUnlinks DEF TInv
<1> QED BY <1>1, <1>4, <1>5 DEF TInv, StoreTyped, RequestsTyped

-----------------------------------------------------------------------------
(* What the edits of relations change                                      *)

\* The document of node n becomes "new"; a node that is not stored stays so.
Writes(n, new) ==
    /\ DOMAIN db' = DOMAIN db
    /\ \A m \in DOMAIN db \ {n} : db'[m] = db[m]
    /\ n \in DOMAIN db => db'[n] = new

\* The inventory stays well-formed when a well-formed document is written.
LEMMA WritesTyped ==
    ASSUME TInv, NEW n, NEW new, Writes(n, new),
           n \in DOMAIN db => new \in Relations
    PROVE  \A m \in DOMAIN db' : db'[m] \in Relations
BY DEF Writes, TInv, StoreTyped

\* A pull writes the document without the targets, and may go on with the blank item.
LEMMA PullStep ==
    ASSUME TInv, NEW u \in unlinks, PullFromRelation(u)
    PROVE  /\ Writes(u.node, PullTargets(db[u.node], u.index, u.targets))
           /\ unlinks \ {u} \subseteq unlinks' /\ u.stage = "pull"
           /\ \A v \in unlinks' \ unlinks :
                 /\ v \in UnlinkCall /\ v.by = u.by /\ v.node = u.node /\ v.type = u.type
                 /\ v.targets = u.targets
           /\ UNCHANGED <<docs, active, phase, parent, removals, adds, announced>>
<1> DEFINE now == PullTargets(db[u.node], u.index, u.targets)
           i == IndexOf(now, u.type)
           again == IF i # 0 /\ now[i].targets = <<>>
                    THEN {[u EXCEPT !.stage = "blank", !.index = i]} ELSE {}
<1>1. /\ u.stage = "pull" /\ UNCHANGED <<docs, active, phase, parent, removals, adds, announced>>
      /\ u \in UnlinkCall
  BY DEF PullFromRelation, TInv
<1>2. CASE u.node \notin DOMAIN db
  <2>1. db' = db /\ unlinks' = unlinks \ {u}
    BY <1>2 DEF PullFromRelation
  <2> QED BY <1>1, <1>2, <2>1 DEF Writes
<1>3. CASE u.node \in DOMAIN db
  <2>1. db' = [db EXCEPT ![u.node] = now] /\ unlinks' = (unlinks \ {u}) \cup again
    BY <1>3 DEF PullFromRelation
  <2>2. now \in Relations
    BY <1>3, PullTargetsFacts DEF TInv, StoreTyped
  <2> HIDE DEF now
  <2>3. i \in Nat
    BY <2>2, IndexFacts
  <2> HIDE DEF i
  <2>4. ASSUME NEW v \in again
        PROVE  v \in UnlinkCall /\ v.by = u.by /\ v.node = u.node /\ v.type = u.type
               /\ v.targets = u.targets
    <3>1. v = [u EXCEPT !.stage = "blank", !.index = i]
      BY DEF again
    <3> QED BY <1>1, <2>3, <3>1 DEF UnlinkCall
  <2>5. Writes(u.node, now)
    BY <1>3, <2>1 DEF Writes
  <2> HIDE DEF again
  <2> QED BY <1>1, <2>1, <2>4, <2>5 DEF now
<1> QED BY <1>2, <1>3

\* A blank item is dropped, and the call of removeRelation is over.
LEMMA DropStep ==
    ASSUME TInv, NEW u \in unlinks, DropBlankRelation(u)
    PROVE  /\ Writes(u.node, PullBlank(db[u.node], u.type))
           /\ unlinks' = unlinks \ {u}
           /\ UNCHANGED <<docs, active, phase, parent, removals, adds, announced>>
BY DEF DropBlankRelation, Writes

\* The call addRelation goes on with.
NextAdd(a, b) ==
    /\ b \in AddCall
    /\ b.by = a.by /\ b.node = a.node /\ b.type = a.type /\ b.targets = a.targets
    /\ adds' = (adds \ {a}) \cup {b}

\* The document addRelation goes on with once the item is there.
Modified(a) ==
    IF a.node \in DOMAIN db /\ IndexOf(db[a.node], a.type) = 0 THEN Ensured(a) ELSE a.rels

\* addRelation has made sure of its item, and is refused or goes on with it.
LEMMA EnsureStep ==
    ASSUME TInv, NEW a \in adds, EnsureRelation(a)
    PROVE  /\ Writes(a.node, Ensured(a)) /\ a.stage = "item"
           /\ \/ adds' = adds \ {a} /\ Reject(a.by.req)
              \/ /\ phase' = phase
                 /\ \E b : /\ NextAdd(a, b) /\ b.rels = Modified(a)
                           /\ b.stage = IF a.type = "enclosedBy" THEN "replace" ELSE "push"
                           /\ b.index \in DOMAIN b.rels
                           /\ b.rels[b.index].relationType = a.type
                           /\ ~Refuses(a, b.rels[b.index])
           /\ UNCHANGED <<docs, active, parent, removals, unlinks, announced>>
<1> DEFINE stored == a.node \in DOMAIN db
           fresh == stored /\ IndexOf(db[a.node], a.type) = 0
           i == IndexOf(Modified(a), a.type)
           refused == i = 0 \/ Refuses(a, Modified(a)[i])
           b == [a EXCEPT !.stage = IF a.type = "enclosedBy" THEN "replace" ELSE "push",
                          !.rels = Modified(a), !.index = i]
<1>1. /\ a.stage = "item" /\ UNCHANGED <<docs, active, parent, removals, unlinks, announced>>
      /\ a \in AddCall
      /\ db' = IF fresh THEN [db EXCEPT ![a.node] = Modified(a)] ELSE db
      /\ \/ adds' = adds \ {a} /\ Reject(a.by.req)
         \/ ~refused /\ adds' = (adds \ {a}) \cup {b} /\ UNCHANGED phase
  BY DEF EnsureRelation, TInv, Modified
<1>2. Writes(a.node, Ensured(a))
  BY <1>1 DEF Writes, Modified, Ensured, PushItem
<1>3. Modified(a) \in Relations
  BY <1>1, PushItemFacts DEF Modified, Ensured, TInv, StoreTyped, AddCall
<1>4. ASSUME ~refused, adds' = (adds \ {a}) \cup {b}
      PROVE  /\ NextAdd(a, b) /\ b.rels = Modified(a)
             /\ b.stage = IF a.type = "enclosedBy" THEN "replace" ELSE "push"
             /\ b.index \in DOMAIN b.rels
             /\ b.rels[b.index].relationType = a.type
             /\ ~Refuses(a, b.rels[b.index])
  <2>1. i \in Nat /\ i \in DOMAIN Modified(a) /\ Modified(a)[i].relationType = a.type
    BY <1>3, <1>4, IndexFacts
  <2>2. ~Refuses(a, Modified(a)[i])
    BY <1>4
  <2> HIDE DEF i
  <2>3. /\ b.by = a.by /\ b.node = a.node /\ b.type = a.type /\ b.targets = a.targets
        /\ b.rels = Modified(a) /\ b.index = i
        /\ b.stage = IF a.type = "enclosedBy" THEN "replace" ELSE "push"
        /\ b \in AddCall
    BY <1>1, <1>3, <2>1 DEF AddCall
  <2> HIDE DEF b
  <2> QED BY <1>4, <2>1, <2>2, <2>3 DEF NextAdd
<1> HIDE DEF b, refused, fresh, i
<1>5. \/ adds' = adds \ {a} /\ Reject(a.by.req)
      \/ /\ phase' = phase
         /\ \E c : /\ NextAdd(a, c) /\ c.rels = Modified(a)
                   /\ c.stage = IF a.type = "enclosedBy" THEN "replace" ELSE "push"
                   /\ c.index \in DOMAIN c.rels
                   /\ c.rels[c.index].relationType = a.type
                   /\ ~Refuses(a, c.rels[c.index])
  BY <1>1, <1>4
<1> QED BY <1>1, <1>2, <1>5

\* The first enclosure is pulled, and the call goes on to push.
LEMMA ReplaceStep ==
    ASSUME TInv, NEW a \in adds, ReplaceEnclosure(a)
    PROVE  /\ a.stage = "replace"
           /\ \E old : Writes(a.node, PullTargets(db[a.node], a.index, old))
           /\ \E b : /\ NextAdd(a, b) /\ b.stage = "push" /\ b.rels = a.rels
                     /\ b.index = a.index
           /\ UNCHANGED <<docs, active, phase, parent, removals, unlinks, announced>>
<1> DEFINE b == [a EXCEPT !.stage = "push"]
<1>1. /\ a.stage = "replace" /\ adds' = (adds \ {a}) \cup {b} /\ a \in AddCall
      /\ UNCHANGED <<docs, active, phase, parent, removals, unlinks, announced>>
      /\ \E old : db' = IF a.node \in DOMAIN db
                        THEN [db EXCEPT ![a.node] = PullTargets(@, a.index, old)] ELSE db
  BY DEF ReplaceEnclosure, TInv
<1>2. \E old : Writes(a.node, PullTargets(db[a.node], a.index, old))
  BY <1>1 DEF Writes
<1>3. NextAdd(a, b) /\ b.stage = "push" /\ b.rels = a.rels /\ b.index = a.index
  BY <1>1 DEF AddCall, NextAdd
<1> HIDE DEF b
<1> QED BY <1>1, <1>2, <1>3

\* The targets are pushed, or there is no place for them and the request is rejected.
LEMMA PushStep ==
    ASSUME TInv, NEW a \in adds, PushToRelation(a)
    PROVE  /\ a.stage = "push" /\ adds' = adds \ {a}
           /\ \/ /\ a.node \in DOMAIN db /\ a.index \in DOMAIN db[a.node] /\ phase' = phase
                 /\ Writes(a.node, PushTargets(db[a.node], a.index, a.targets))
              \/ /\ ~(a.node \in DOMAIN db /\ a.index \in DOMAIN db[a.node])
                 /\ Reject(a.by.req) /\ db' = db
           /\ UNCHANGED <<docs, active, parent, removals, unlinks, announced>>
BY DEF PushToRelation, Writes

\* A rejected handler answers its request with an error.
LEMMA RejectStep ==
    ASSUME TInv, NEW r \in Request, Reject(r)
    PROVE  \/ phase' = phase
           \/ phase[r] = "running" /\ phase' = [phase EXCEPT ![r] = "error"]
<1>1. phase = [q \in Request |-> phase[q]]
  BY DEF TInv, RequestsTyped
<1> QED BY <1>1 DEF Reject

\* The handlers of an edit are called, or its request is refused.
LEMMA HandlersStep ==
    ASSUME TInv, NEW r \in Request, CallHandlers(r)
    PROVE  /\ phase[r] = "targets" /\ Op[r].kind # "delete" /\ Op[r].node \in Node
           /\ \/ /\ phase' = [phase EXCEPT ![r] = "error"] /\ UNCHANGED <<unlinks, adds>>
              \/ /\ phase' = [phase EXCEPT ![r] = "running"] /\ Op[r].kind = "link"
                 /\ unlinks' = unlinks
                 /\ adds' = adds \cup
                       {[by |-> Edit(r), node |-> Op[r].node, rels |-> parent[r], type |-> t,
                         targets |-> NeedTargetNodes(Op[r].body[t]), index |-> 0, stage |-> "item"] :
                            t \in DOMAIN Op[r].body \cap RelationType}
                 /\ adds' \subseteq AddCall
              \/ /\ phase' = [phase EXCEPT ![r] = "running"] /\ Op[r].kind # "link"
                 /\ adds' = adds /\ unlinks \subseteq unlinks' /\ unlinks' \subseteq UnlinkCall
                 /\ \A u \in unlinks' \ unlinks : u.by = Edit(r) /\ u.node = Op[r].node
           /\ UNCHANGED <<db, docs, active, parent, removals, announced>>
<1> DEFINE known == DOMAIN Op[r].body \cap RelationType
<1>1. /\ phase[r] = "targets" /\ Op[r].kind # "delete"
      /\ UNCHANGED <<db, docs, active, parent, removals, announced>>
  BY DEF CallHandlers, TInv, RequestsTyped
<1>2. Op[r].node \in Node /\ \A t \in known : Op[r].body[t] \in Seq(Node)
  BY <1>1, OpAssumption DEF Operation
<1>3. parent[r] \in Relations /\ Edit(r) \in CallId
  BY DEF TInv, RequestsTyped, Edit, CallId
<1>4. CASE phase' = [phase EXCEPT ![r] = "error"] /\ UNCHANGED <<unlinks, adds>>
  BY <1>1, <1>2, <1>4
<1>5. CASE /\ phase' = [phase EXCEPT ![r] = "running"] /\ Op[r].kind = "link"
           /\ adds' = adds \cup
                 {[by |-> Edit(r), node |-> Op[r].node, rels |-> parent[r], type |-> t,
                   targets |-> NeedTargetNodes(Op[r].body[t]), index |-> 0, stage |-> "item"] :
                      t \in known}
           /\ UNCHANGED unlinks
  <2>1. ASSUME NEW t \in known
        PROVE  [by |-> Edit(r), node |-> Op[r].node, rels |-> parent[r], type |-> t,
                targets |-> NeedTargetNodes(Op[r].body[t]), index |-> 0, stage |-> "item"] \in AddCall
    <3>1. NeedTargetNodes(Op[r].body[t]) \in Seq(Target)
      <4>1. Op[r].body[t] \in Seq(Node)
        BY <1>2
      <4>2. \A n \in Node : AsDocument(n) \in Target
        BY DEF Target
      <4> QED BY <4>1, <4>2 DEF NeedTargetNodes
    <3> QED BY <1>2, <1>3, <3>1 DEF AddCall
  <2>2. adds' \subseteq AddCall
    BY <1>5, <2>1 DEF TInv
  <2> QED BY <1>1, <1>2, <1>5, <2>2
<1>6. CASE /\ phase' = [phase EXCEPT ![r] = "running"] /\ Op[r].kind # "link"
           /\ unlinks' = unlinks \cup
                 UNION {StartUnlink(Edit(r), Op[r].node, parent[r], t, ToSet(Op[r].body[t])) : t \in known}
           /\ UNCHANGED adds
  <2>1. ASSUME NEW u \in unlinks', u \notin unlinks
        PROVE  u \in UnlinkCall /\ u.by = Edit(r) /\ u.node = Op[r].node
    <3>1. PICK t \in known :
            u \in StartUnlink(Edit(r), Op[r].node, parent[r], t, ToSet(Op[r].body[t]))
      BY <1>6, <2>1
    <3>2. ToSet(Op[r].body[t]) \in SUBSET Node
      <4>1. Op[r].body[t] \in Seq(Node)
        BY <1>2
      <4> QED BY <4>1 DEF ToSet
    <3> QED BY <1>2, <1>3, <3>1, <3>2, StartUnlinkFacts
  <2> QED BY <1>1, <1>2, <1>6, <2>1 DEF TInv
<1> QED BY <1>4, <1>5, <1>6 DEF CallHandlers

\* An edit is acknowledged only when none of its calls is pending.
LEMMA AnswerStep ==
    ASSUME NEW r \in Request, Answer(r)
    PROVE  /\ phase[r] = "running"
           /\ \/ /\ phase' = [phase EXCEPT ![r] = "error"] /\ Op[r].kind = "delete"
              \/ /\ phase' = [phase EXCEPT ![r] = "ok"]
                 /\ Op[r].kind # "delete" => ~\E c \in unlinks \cup adds : c.by = Edit(r)
           /\ UNCHANGED <<db, docs, active, parent, removals, unlinks, adds, announced>>
BY DEF Answer

\* What both outcomes of the validation of the components have in common.
LEMMA ValidateEither ==
    ASSUME IInv, NEW k \in DOMAIN removals, NEW t \in RelationType, ValidateTargets(k, t)
    PROVE  LET found == removals[k].branch[t].found IN
           /\ t \in DOMAIN removals[k].branch
           /\ removals'[k].left = removals[k].left
           /\ UNCHANGED <<db, docs, active, phase, parent, unlinks, adds, announced>>
           /\ removals'[k].rels = removals[k].rels /\ removals'[k].src = removals[k].src
           /\ \A c \in DOMAIN removals : c # k => removals'[c] = removals[c]
           /\ \E f \in {<<>>, found} : BranchIs(k, t, [at |-> "calls", found |-> f])
           /\ \A c \in DOMAIN removals' \ DOMAIN removals :
                 /\ c \in Components(k, t)
                 /\ removals'[c] = NewRemoval(found[NodeOf(c)], NodeRelations[t].mapping)
<1> DEFINE found == removals[k].branch[t].found
<1>1. /\ t \in DOMAIN removals[k].branch /\ removals'[k].left = removals[k].left
      /\ UNCHANGED <<db, docs, active, phase, parent, unlinks, adds, announced>>
  BY ValidateFacts
<1>2. CASE Changes(k) /\ BranchIs(k, t, [at |-> "calls", found |-> <<>>])
  BY <1>1, <1>2 DEF Changes
<1>3. CASE /\ DOMAIN removals' = DOMAIN removals \cup Components(k, t)
           /\ removals'[k].rels = removals[k].rels /\ removals'[k].src = removals[k].src
           /\ BranchIs(k, t, [at |-> "calls", found |-> found])
           /\ \A c \in DOMAIN removals : c # k => removals'[c] = removals[c]
           /\ \A c \in Components(k, t) :
                 removals'[c] = NewRemoval(found[NodeOf(c)], NodeRelations[t].mapping)
  BY <1>1, <1>3
<1>4. \/ Changes(k) /\ BranchIs(k, t, [at |-> "calls", found |-> <<>>])
      \/ /\ DOMAIN removals' = DOMAIN removals \cup Components(k, t)
         /\ removals'[k].rels = removals[k].rels /\ removals'[k].src = removals[k].src
         /\ BranchIs(k, t, [at |-> "calls", found |-> found])
         /\ \A c \in DOMAIN removals : c # k => removals'[c] = removals[c]
         /\ \A c \in Components(k, t) :
               removals'[c] = NewRemoval(found[NodeOf(c)], NodeRelations[t].mapping)
  BY ValidateFacts
<1> HIDE DEF found
<1> QED
  BY <1>2, <1>3, <1>4

\* The calls for the components are made with documents of the inventory.
LEMMA ValidateTyped ==
    ASSUME IInv, TInv, NEW k \in DOMAIN removals, NEW t \in RelationType, ValidateTargets(k, t)
    PROVE  TInv'
<1> DEFINE found == removals[k].branch[t].found
<1>1. /\ t \in DOMAIN removals[k].branch
      /\ removals'[k].left = removals[k].left
      /\ UNCHANGED <<db, docs, active, phase, parent, unlinks, adds, announced>>
      /\ removals'[k].rels = removals[k].rels /\ removals'[k].src = removals[k].src
      /\ \A c \in DOMAIN removals : c # k => removals'[c] = removals[c]
      /\ \E f \in {<<>>, found} : BranchIs(k, t, [at |-> "calls", found |-> f])
      /\ \A c \in DOMAIN removals' \ DOMAIN removals :
            /\ c \in Components(k, t)
            /\ removals'[c] = NewRemoval(found[NodeOf(c)], NodeRelations[t].mapping)
  BY ValidateEither
<1>2. RecordTyped(removals[k])
  BY DEF TInv
<1>3. \A m \in DOMAIN found : m \in Node /\ found[m] \in Relations
  BY <1>1, <1>2 DEF RecordTyped, IInv, CallsTyped, CallShape
<1>4. PICK f \in {<<>>, found} : BranchIs(k, t, [at |-> "calls", found |-> f])
  BY <1>1
<1>5. \A m \in DOMAIN f : f[m] \in Relations
  <2>1. DOMAIN <<>> = {}
    OBVIOUS
  <2> QED BY <1>3, <2>1
<1>6. RecordTyped(removals'[k])
  <2>1. /\ removals'[k].rels \in Relations /\ removals'[k].src \in RelationType \cup {"none"}
        /\ removals'[k].left \subseteq Cleared /\ DOMAIN removals'[k].branch \subseteq RelationType
    BY <1>1, <1>2, <1>4 DEF RecordTyped, BranchIs
  <2>2. ASSUME NEW s \in DOMAIN removals'[k].branch
        PROVE  /\ removals'[k].branch[s].at \in {"find", "validate", "calls"}
               /\ \A m \in DOMAIN removals'[k].branch[s].found :
                     removals'[k].branch[s].found[m] \in Relations
    <3>1. CASE s = t
      BY <1>4, <1>5, <3>1 DEF BranchIs
    <3>2. CASE s # t
      BY <1>2, <1>4, <3>2 DEF BranchIs, RecordTyped
    <3> QED BY <3>1, <3>2
  <2> QED BY <2>1, <2>2 DEF RecordTyped
<1>7. ASSUME NEW c \in DOMAIN removals' \ DOMAIN removals
      PROVE  RecordTyped(removals'[c])
  <2>1. PICK m \in DOMAIN found : c = Child(k, m)
    BY <1>1 DEF Components
  <2>2. NodeOf(c) = m
    BY <1>3, <2>1, ChildFacts DEF IInv, CallsTyped
  <2>3. found[m] \in Relations /\ NodeRelations[t].mapping \in RelationType
    BY <1>3, MappingFacts
  <2>4. removals'[c] = NewRemoval(found[m], NodeRelations[t].mapping)
    BY <1>1, <2>2
  <2> HIDE DEF found
  <2>5. /\ removals'[c].rels = found[m] /\ removals'[c].src = NodeRelations[t].mapping
        /\ removals'[c].left = Cleared /\ DOMAIN removals'[c].branch = {}
    BY <2>4 DEF NewRemoval
  <2> QED BY <2>3, <2>5 DEF RecordTyped
<1>8. ASSUME NEW c \in DOMAIN removals' PROVE RecordTyped(removals'[c])
  <2>1. CASE c \notin DOMAIN removals
    BY <1>7, <2>1
  <2>2. CASE c \in DOMAIN removals /\ c # k
    BY <1>1, <2>2 DEF TInv
  <2> QED BY <1>6, <2>1, <2>2
<1> QED BY <1>1, <1>8 DEF TInv, StoreTyped, RequestsTyped

\* A call that fails keeps well-formed documents.
LEMMA FailedTyped ==
    ASSUME IInv, TInv, NEW k \in DOMAIN removals, ComponentFailed(k)
    PROVE  TInv'
<1>1. /\ Changes(k) /\ SameBranches(k) /\ removals'[k].left = removals[k].left
      /\ UNCHANGED <<db, docs, active, phase, parent, unlinks, adds, announced>>
  BY FailedFacts
<1>2. RecordTyped(removals'[k])
  BY <1>1 DEF TInv, RecordTyped, Changes, SameBranches
<1>3. \A c \in DOMAIN removals' : RecordTyped(removals'[c])
  BY <1>1, <1>2, ChangesTyped
<1> QED BY <1>1, <1>3 DEF TInv, StoreTyped, RequestsTyped

\* A node may go, the others keep their documents.
LEMMA DestroyTyped ==
    ASSUME IInv, TInv, NEW k \in DOMAIN removals, NEW c \in Cleared, Destroy(k, c)
    PROVE  TInv'
<1>1. /\ Changes(k) /\ SameBranches(k) /\ removals'[k].left = removals[k].left \ {c}
      /\ \/ db' = IF c = "nodes" THEN NodeTaken(k) ELSE db
         \/ db' = db
      /\ docs' \subseteq docs
      /\ UNCHANGED <<active, phase, parent, unlinks, adds, announced>>
  BY DestroyFacts
<1>2. RecordTyped(removals'[k])
  BY <1>1 DEF TInv, RecordTyped, Changes, SameBranches
<1>3. \A d \in DOMAIN removals' : RecordTyped(removals'[d])
  BY <1>1, <1>2, ChangesTyped
<1>4. \A n \in DOMAIN db' : n \in DOMAIN db /\ db'[n] = db[n]
  BY <1>1 DEF NodeTaken
<1> QED BY <1>1, <1>3, <1>4 DEF TInv, StoreTyped, RequestsTyped

\* The number of events grows.
LEMMA PublishTyped ==
    ASSUME IInv, TInv, NEW k \in DOMAIN removals, Publish(k)
    PROVE  TInv'
<1>1. /\ Changes(k) /\ SameBranches(k) /\ removals'[k].left = removals[k].left
      /\ announced' = announced \/ announced' = [announced EXCEPT ![NodeOf(k)] = @ + 1]
      /\ UNCHANGED <<db, docs, active, phase, parent, unlinks, adds>>
  BY PublishFacts
<1>2. RecordTyped(removals'[k])
  BY <1>1 DEF TInv, RecordTyped, Changes, SameBranches
<1>3. \A c \in DOMAIN removals' : RecordTyped(removals'[c])
  BY <1>1, <1>2, ChangesTyped
<1>4. announced' \in [Node -> Nat]
  BY <1>1 DEF TInv, StoreTyped
<1> QED BY <1>1, <1>3, <1>4 DEF TInv, StoreTyped, RequestsTyped

\* A request begins with a document of the inventory.
LEMMA ReceiveTyped ==
    ASSUME IInv, TInv, NEW r \in Request, Receive(r)
    PROVE  TInv'
<1> DEFINE n == Op[r].node
<1>1. UNCHANGED <<db, docs, active, unlinks, adds, announced>>
  BY ReceiveFacts
<1>2. CASE /\ removals' = removals /\ parent' = parent
           /\ phase' = [phase EXCEPT ![r] = "error"]
  BY <1>1, <1>2 DEF TInv, StoreTyped, RequestsTyped
<1>3. CASE /\ removals' = removals /\ n \in DOMAIN db /\ Op[r].kind # "delete"
           /\ phase' = [phase EXCEPT ![r] = "targets"]
           /\ parent' = [parent EXCEPT ![r] = db[n]]
  <2>1. db[n] \in Relations
    BY <1>3 DEF TInv, StoreTyped
  <2>2. RequestsTyped'
    BY <1>3, <2>1 DEF TInv, RequestsTyped
  <2> QED BY <1>1, <1>3, <2>2 DEF TInv, StoreTyped
<1>4. CASE /\ n \in DOMAIN db /\ Op[r].kind = "delete" /\ parent' = parent
           /\ phase' = [phase EXCEPT ![r] = "running"]
           /\ DOMAIN removals' = DOMAIN removals \cup {Root(r)}
           /\ removals'[Root(r)] = NewRemoval(db[n], "none")
           /\ \A k \in DOMAIN removals : removals'[k] = removals[k]
  <2>1. db[n] \in Relations
    BY <1>4 DEF TInv, StoreTyped
  <2> DEFINE c == removals'[Root(r)]
  <2>2. /\ c.rels = db[n] /\ c.src = "none" /\ c.left = Cleared /\ DOMAIN c.branch = {}
    BY <1>4 DEF NewRemoval
  <2>3. RecordTyped(c)
    BY <2>1, <2>2 DEF RecordTyped
  <2>4. \A k \in DOMAIN removals' : RecordTyped(removals'[k])
    BY <1>4, <2>3 DEF TInv
  <2>5. RequestsTyped'
    BY <1>4 DEF TInv, RequestsTyped
  <2> QED BY <1>1, <2>4, <2>5 DEF TInv, StoreTyped
<1> QED BY <1>2, <1>3, <1>4, ReceiveFacts

\* The edits of relations write well-formed documents.
LEMMA EditTyped ==
    ASSUME IInv, TInv,
           \/ \E u \in unlinks : PullFromRelation(u) \/ DropBlankRelation(u)
           \/ \E a \in adds : \/ EnsureRelation(a) \/ ReplaceEnclosure(a) \/ PushToRelation(a)
                             \/ AddFails(a)
           \/ \E r \in Request : CallHandlers(r) \/ Answer(r)
           \/ \E n \in Node : StartWorkflow(n) \/ FinishWorkflow(n)
    PROVE  TInv'
<1>0. \A a \in adds : a \in AddCall /\ a.by.req \in Request
  BY DEF TInv, AddCall, CallId
<1>1. ASSUME NEW u \in unlinks, PullFromRelation(u) PROVE TInv'
  <2>1. /\ Writes(u.node, PullTargets(db[u.node], u.index, u.targets))
        /\ \A v \in unlinks' \ unlinks : v \in UnlinkCall
        /\ UNCHANGED <<docs, active, phase, parent, removals, adds, announced>>
    BY <1>1, PullStep
  <2>2. u.node \in DOMAIN db => PullTargets(db[u.node], u.index, u.targets) \in Relations
    BY PullTargetsFacts DEF TInv, StoreTyped
  <2>3. \A m \in DOMAIN db' : db'[m] \in Relations
    BY <2>1, <2>2, WritesTyped
  <2> QED BY <2>1, <2>3 DEF TInv, StoreTyped, RequestsTyped
<1>2. ASSUME NEW u \in unlinks, DropBlankRelation(u) PROVE TInv'
  <2>1. /\ Writes(u.node, PullBlank(db[u.node], u.type))
        /\ unlinks' = unlinks \ {u}
        /\ UNCHANGED <<docs, active, phase, parent, removals, adds, announced>>
    BY <1>2, DropStep
  <2>2. u.node \in DOMAIN db => PullBlank(db[u.node], u.type) \in Relations
    BY PullBlankFacts DEF TInv, StoreTyped
  <2>3. \A m \in DOMAIN db' : db'[m] \in Relations
    BY <2>1, <2>2, WritesTyped
  <2> QED BY <2>1, <2>3 DEF TInv, StoreTyped, RequestsTyped
<1>3. ASSUME NEW a \in adds, EnsureRelation(a) PROVE TInv'
  <2>1. /\ Writes(a.node, Ensured(a))
        /\ phase' = phase \/ Reject(a.by.req)
        /\ adds' \subseteq AddCall
        /\ UNCHANGED <<docs, active, parent, removals, unlinks, announced>>
    BY <1>3, EnsureStep DEF NextAdd, TInv
  <2>2. a.node \in DOMAIN db => Ensured(a) \in Relations
    BY <1>0, PushItemFacts DEF TInv, StoreTyped, AddCall, Ensured
  <2>3. \A m \in DOMAIN db' : db'[m] \in Relations
    BY <2>1, <2>2, WritesTyped
  <2>4. RequestsTyped'
    BY <1>0, <2>1, RejectStep DEF TInv, RequestsTyped
  <2> QED BY <2>1, <2>3, <2>4 DEF TInv, StoreTyped
<1>4. ASSUME NEW a \in adds, ReplaceEnclosure(a) PROVE TInv'
  <2>1. PICK old : Writes(a.node, PullTargets(db[a.node], a.index, old))
    BY <1>4, ReplaceStep
  <2>2. /\ adds' \subseteq AddCall
        /\ UNCHANGED <<docs, active, phase, parent, removals, unlinks, announced>>
    BY <1>4, ReplaceStep DEF NextAdd, TInv
  <2>3. a.node \in DOMAIN db => PullTargets(db[a.node], a.index, old) \in Relations
    BY PullTargetsFacts DEF TInv, StoreTyped
  <2>4. \A m \in DOMAIN db' : db'[m] \in Relations
    BY <2>1, <2>3, WritesTyped
  <2> QED BY <2>2, <2>4 DEF TInv, StoreTyped, RequestsTyped
<1>5. ASSUME NEW a \in adds, PushToRelation(a) PROVE TInv'
  <2>1. /\ adds' = adds \ {a}
        /\ UNCHANGED <<docs, active, parent, removals, unlinks, announced>>
        /\ phase' = phase \/ Reject(a.by.req)
    BY <1>5, PushStep
  <2>2. RequestsTyped'
    BY <1>0, <2>1, RejectStep DEF TInv, RequestsTyped
  <2>3. \A m \in DOMAIN db' : db'[m] \in Relations
    <3>1. CASE db' = db
      BY <3>1 DEF TInv, StoreTyped
    <3>2. CASE /\ a.node \in DOMAIN db /\ a.index \in DOMAIN db[a.node]
               /\ Writes(a.node, PushTargets(db[a.node], a.index, a.targets))
      <4>1. db[a.node] \in Relations /\ a.targets \in Seq(Target)
        BY <1>0, <3>2 DEF TInv, StoreTyped, AddCall
      <4>2. PushTargets(db[a.node], a.index, a.targets) \in Relations
        BY <3>2, <4>1, PushTargetsFacts
      <4> QED BY <3>2, <4>2, WritesTyped
    <3> QED BY <1>5, <3>1, <3>2, PushStep
  <2> QED BY <2>1, <2>2, <2>3 DEF TInv, StoreTyped
<1>6. ASSUME NEW r \in Request, CallHandlers(r) PROVE TInv'
  <2>1. /\ phase' = [phase EXCEPT ![r] = "error"] \/ phase' = [phase EXCEPT ![r] = "running"]
        /\ unlinks' \subseteq UnlinkCall /\ adds' \subseteq AddCall
        /\ UNCHANGED <<db, docs, active, parent, removals, announced>>
    BY <1>6, HandlersStep DEF TInv
  <2>2. RequestsTyped'
    BY <2>1 DEF TInv, RequestsTyped
  <2> QED BY <2>1, <2>2 DEF TInv, StoreTyped
<1>7. ASSUME NEW r \in Request, Answer(r) PROVE TInv'
  <2>1. /\ phase' = [phase EXCEPT ![r] = "error"] \/ phase' = [phase EXCEPT ![r] = "ok"]
        /\ UNCHANGED <<db, docs, active, parent, removals, unlinks, adds, announced>>
    BY <1>7, AnswerStep
  <2>2. RequestsTyped'
    BY <2>1 DEF TInv, RequestsTyped
  <2> QED BY <2>1, <2>2 DEF TInv, StoreTyped
<1>8. ASSUME NEW n \in Node, StartWorkflow(n) \/ FinishWorkflow(n) PROVE TInv'
  BY <1>8 DEF StartWorkflow, FinishWorkflow, TInv, StoreTyped, RequestsTyped
<1>9. ASSUME NEW a \in adds, AddFails(a) PROVE TInv'
  <2>1. /\ adds' = adds \ {a} /\ Reject(a.by.req)
        /\ UNCHANGED <<db, docs, active, parent, removals, unlinks, announced>>
    BY <1>9 DEF AddFails
  <2>2. RequestsTyped'
    BY <1>0, <2>1, RejectStep DEF TInv, RequestsTyped
  <2> QED BY <2>1, <2>2 DEF TInv, StoreTyped
<1> QED BY <1>1, <1>2, <1>3, <1>4, <1>5, <1>6, <1>7, <1>8, <1>9

\* A refused write leaves what is kept well-formed.
LEMMA UnlinkFailsTyped ==
    ASSUME IInv, TInv, NEW u \in unlinks, UnlinkFails(u)
    PROVE  TInv'
<1>1. /\ unlinks' = unlinks \ {u} /\ u.by.req \in Request
      /\ UNCHANGED <<db, docs, active, parent, adds, announced>>
  BY UnlinkFailsFacts DEF TInv, UnlinkCall, CallId
<1>2. CASE UNCHANGED removals /\ (UNCHANGED phase \/ Reject(u.by.req))
  <2>1. RequestsTyped'
    BY <1>1, <1>2, RejectStep DEF TInv, RequestsTyped
  <2> QED BY <1>1, <1>2, <2>1 DEF TInv, StoreTyped
<1>3. CASE u.by \in DOMAIN removals /\ CallFails(u.by)
  <2>1. RecordTyped(removals'[u.by])
    BY <1>3 DEF TInv, RecordTyped, Changes, SameBranches, CallFails
  <2>2. \A c \in DOMAIN removals' : RecordTyped(removals'[c])
    BY <1>3, <2>1, ChangesTyped DEF CallFails
  <2> QED BY <1>1, <1>3, <2>2 DEF TInv, StoreTyped, RequestsTyped, CallFails
<1> QED BY <1>2, <1>3, UnlinkFailsFacts

\* The start is well-formed.
LEMMA InitTInv == Init => TInv
<1> SUFFICES ASSUME Init PROVE TInv
  OBVIOUS
<1>1. db \in InitialDb /\ active \in InitialActive /\ docs = Collections \X DOMAIN db
  BY DEF Init
<1>2. DOMAIN db \subseteq Node
  BY <1>1, OpAssumption
<1>3. StoreTyped
  <2>1. \A n \in DOMAIN db : db[n] \in Relations
    BY <1>1, OpAssumption
  <2>2. active \subseteq Node
    BY <1>1, OpAssumption
  <2>3. announced \in [Node -> Nat]
    BY DEF Init
  <2> QED BY <1>1, <1>2, <2>1, <2>2, <2>3 DEF StoreTyped
<1>4. RequestsTyped
  <2>1. <<>> \in Relations
    BY DEF Relations
  <2> QED BY <2>1 DEF Init, RequestsTyped
<1>5. DOMAIN removals = {} /\ unlinks = {} /\ adds = {}
  BY DEF Init
<1> QED BY <1>3, <1>4, <1>5 DEF TInv

\* Every step leaves what is kept well-formed.
LEMMA NextTInv == IInv /\ TInv /\ [Next]_vars => TInv'
<1> SUFFICES ASSUME IInv, TInv, [Next]_vars PROVE TInv'
  OBVIOUS
<1>1. CASE UNCHANGED vars
  BY <1>1 DEF vars, TInv, StoreTyped, RequestsTyped
<1>2. ASSUME NEW k \in DOMAIN removals, RemoveNode(k) PROVE TInv'
  BY <1>2, CheckTyped, FindTyped, ValidateTyped, FailedTyped, DestroyTyped, PublishTyped
     DEF RemoveNode
<1>3. ASSUME NEW r \in Request, Receive(r) PROVE TInv'
  BY <1>3, ReceiveTyped
<1> QED
  BY <1>1, <1>2, <1>3, EditTyped, UnlinkFailsTyped DEF Next, Serve

\* The fields of a call's record, but for its branches.
LEMMA TypesFollow == IInv /\ TInv => TypeOK
<1> SUFFICES ASSUME IInv, TInv PROVE TypeOK
  OBVIOUS
<1>1. ASSUME NEW k \in DOMAIN removals
      PROVE  /\ k \in CallId /\ k.path # <<>>
             /\ [f \in DOMAIN removals[k] \ {"branch"} |-> removals[k][f]] \in Call
             /\ DOMAIN removals[k].branch \subseteq RelationType
             /\ \A t \in DOMAIN removals[k].branch :
                  /\ removals[k].branch[t].at \in {"find", "validate", "calls"}
                  /\ DOMAIN removals[k].branch[t].found \subseteq Node
  <2> DEFINE c == removals[k]
             g == [f \in DOMAIN c \ {"branch"} |-> c[f]]
  <2>1. CallShape(c) /\ RecordTyped(c) /\ k \in CallId /\ k.path # <<>>
    BY DEF IInv, TInv, CallsTyped
  <2> HIDE DEF c
  <2>2. DOMAIN c = {"stage", "rels", "src", "branch", "left"}
    BY <2>1 DEF CallShape
  <2>3. DOMAIN g = {"stage", "rels", "src", "left"}
    BY <2>2
  <2>4. g = [stage |-> c.stage, rels |-> c.rels, src |-> c.src, left |-> c.left]
    BY <2>2, <2>3
  <2>5. g \in Call
    BY <2>1, <2>4 DEF Call, CallShape, RecordTyped, Stage
  <2> QED BY <2>1, <2>5 DEF c, CallShape, RecordTyped
<1>2. \A u \in unlinks : u.by \in CallId /\ u.node \in Node /\ u.stage \in {"pull", "blank"}
  BY DEF TInv, UnlinkCall
<1>3. \A a \in adds : a.by \in CallId /\ a.node \in Node
  BY DEF TInv, AddCall
<1>4. DOMAIN removals \subseteq CallId /\ DOMAIN db \subseteq Node
  BY DEF IInv, CallsTyped
<1> QED BY <1>1, <1>2, <1>3, <1>4 DEF TypeOK, TInv, StoreTyped, RequestsTyped

\* Both invariants hold throughout.
LEMMA InvariantTyped == Spec => [](IInv /\ TInv)
<1>1. Init => IInv /\ TInv
  BY InitIInv, InitTInv
<1>2. IInv /\ TInv /\ [Next]_vars => (IInv /\ TInv)'
  BY NextIInv, NextTInv
<1> QED BY <1>1, <1>2, PTL DEF Spec

\* Whatever a handler keeps across an await has its type, on every inventory.
THEOREM TypeCorrect == Spec => []TypeOK
BY InvariantTyped, TypesFollow, PTL
=============================================================================
