-------------------------- MODULE NodeLinksProofs --------------------------
(***************************************************************************)
(* Proofs about the relations between nodes: one container for every node  *)
(* while requests do not overlap; acknowledged links that stay, however    *)
(* requests overlap and whatever fails, and that no removal takes back;    *)
(* and no reference to a node that is gone, whatever deletions cascade to, *)
(* while requests do not overlap.                                          *)
(***************************************************************************)
EXTENDS NodesProofs, FiniteSetTheorems

-----------------------------------------------------------------------------
(* One request at a time                                                   *)

\* At most one item "containedBy", with at most one target.
Contained(doc) ==
    \A i, j \in DOMAIN doc :
        doc[i].relationType = "containedBy" /\ doc[j].relationType = "containedBy" =>
            i = j /\ Len(doc[i].targets) <= 1

\* The items of the older document are where they were, and more may follow them.
SamePlaces(old, new) ==
    \A j \in DOMAIN old : j \in DOMAIN new /\ new[j].relationType = old[j].relationType

\* No container was added to the document.
NoLonger(old, new) ==
    \A j \in DOMAIN old :
        old[j].relationType = "containedBy" => Len(new[j].targets) <= Len(old[j].targets)

Alone == \A p, q \in Request : InFlight(p) /\ InFlight(q) => p = q

\* The copy addRelation works on, and the position it found, fit what is stored.
Fits(a) ==
    LET doc == db[a.node] IN
    IF a.stage = "item"
    THEN /\ SamePlaces(a.rels, doc)
         /\ a.type = "containedBy" => NoLonger(a.rels, doc)
    ELSE /\ a.index \in DOMAIN doc /\ doc[a.index].relationType = a.type
         /\ a.type = "containedBy" => Len(doc[a.index].targets) + Len(a.targets) <= 1

\* The edited node is stored, and unchanged since it was read.
ReadsStored ==
    \A r \in Request : phase[r] = "targets" =>
        Op[r].node \in DOMAIN db /\ parent[r] = db[Op[r].node]

CallsOfDeletions == \A k \in DOMAIN removals : Op[k.req].kind = "delete"

UnlinksOfRequests ==
    \A u \in unlinks : phase[u.by.req] \notin {"idle", "targets"} /\ Op[u.by.req].kind # "link"

AddsOfRequests ==
    \A a \in adds :
        /\ phase[a.by.req] \notin {"idle", "targets"} /\ Op[a.by.req].kind = "link"
        /\ a.by = Edit(a.by.req) /\ a.node = Op[a.by.req].node /\ a.node \in DOMAIN db
        /\ Fits(a)
        /\ \A b \in adds : a.by = b.by /\ a.type = b.type => a = b

SInv ==
    /\ \A n \in DOMAIN db : Contained(db[n])
    /\ Alone
    /\ ReadsStored
    /\ CallsOfDeletions
    /\ UnlinksOfRequests
    /\ AddsOfRequests

\* No step but Receive brings a request in flight: what a step calls, it calls
\* for a request that is in flight already.
LEMMA NoNewRequest ==
    ASSUME NEW r \in Request, InFlight(r),
           \A q \in Request : q # r /\ phase'[q] \in {"targets", "running"} =>
               phase[q] \in {"targets", "running"},
           \A k \in DOMAIN removals' :
               k.req = r \/ (k \in DOMAIN removals /\ removals'[k] = removals[k]),
           \A u \in unlinks' : u.by.req = r \/ u \in unlinks,
           \A a \in adds' : a.by.req = r \/ a \in adds,
           NEW q \in Request, InFlight(q)'
    PROVE  InFlight(q)
<1>1. SUFFICES ASSUME q # r PROVE InFlight(q)
  OBVIOUS
<1>2. CASE phase'[q] \in {"targets", "running"}
  BY <1>1, <1>2 DEF InFlight
<1>3. ASSUME NEW k \in DOMAIN removals', k.req = q, Pending(k)' PROVE InFlight(q)
  <2>1. k \in DOMAIN removals /\ removals'[k] = removals[k]
    BY <1>1, <1>3
  <2>2. Pending(k)
    BY <1>3, <2>1 DEF Pending, Open
  <2> QED BY <1>3, <2>1, <2>2 DEF InFlight
<1>4. ASSUME NEW u \in unlinks', u.by.req = q PROVE InFlight(q)
  BY <1>1, <1>4 DEF InFlight
<1>5. ASSUME NEW a \in adds', a.by.req = q PROVE InFlight(q)
  BY <1>1, <1>5 DEF InFlight
<1> QED BY <1>2, <1>3, <1>4, <1>5 DEF InFlight

\* What is in flight besides request r: nothing.
LEMMA NothingElse ==
    ASSUME IInv, TInv, SInv, NEW r \in Request, InFlight(r)
    PROVE  /\ \A q \in Request : phase[q] = "targets" => q = r
           /\ \A u \in unlinks : u.by.req = r
           /\ \A a \in adds : a.by.req = r
           /\ \A k \in DOMAIN removals : Pending(k) => k.req = r
           /\ Op[r].kind # "link" => adds = {}
           /\ Op[r].kind = "link" => unlinks = {}
           /\ phase[r] \in {"idle", "targets"} => unlinks = {} /\ adds = {}
           /\ Op[r].kind = "delete" \/ phase[r] # "targets" => \A q \in Request : phase[q] # "targets"
<1>1. /\ \A k \in DOMAIN removals : k.req \in Request
      /\ \A u \in unlinks : u.by.req \in Request
      /\ \A a \in adds : a.by.req \in Request
  BY DEF IInv, CallsTyped, TInv, CallId, UnlinkCall, AddCall
<1>2. /\ \A q \in Request : phase[q] = "targets" => q = r
      /\ \A u \in unlinks : u.by.req = r
      /\ \A a \in adds : a.by.req = r
      /\ \A k \in DOMAIN removals : Pending(k) => k.req = r
  BY <1>1 DEF SInv, Alone, InFlight
<1>3. /\ \A a \in adds : Op[r].kind = "link" /\ phase[r] \notin {"idle", "targets"}
      /\ \A u \in unlinks : Op[r].kind # "link" /\ phase[r] \notin {"idle", "targets"}
  BY <1>2 DEF SInv, AddsOfRequests, UnlinksOfRequests
<1>4. \A q \in Request : phase[q] = "targets" => q = r /\ Op[r].kind # "delete"
  BY <1>2 DEF TInv, RequestsTyped
<1> QED BY <1>2, <1>3, <1>4

\* A step of a deletion: documents may go, and calls of the same request be made.
LEMMA DeletionKeeps ==
    ASSUME IInv, TInv, TInv', SInv, NEW k \in DOMAIN removals, Pending(k),
           UNCHANGED <<phase, parent, adds>>,
           \A c \in DOMAIN removals' :
               c.req = k.req \/ (c \in DOMAIN removals /\ removals'[c] = removals[c]),
           \A u \in unlinks' : u.by.req = k.req \/ u \in unlinks,
           \A n \in DOMAIN db' : n \in DOMAIN db /\ db'[n] = db[n]
    PROVE  SInv'
<1> DEFINE r == k.req
<1>1. r \in Request /\ Op[r].kind = "delete" /\ InFlight(r) /\ phase[r] # "idle"
  BY DEF IInv, CallsTyped, CallId, SInv, CallsOfDeletions, InFlight
<1>2. /\ adds = {} /\ \A q \in Request : phase[q] # "targets"
  BY <1>1, NothingElse
<1>3. Alone'
  <2>1. \A q \in Request : InFlight(q)' => InFlight(q)
    BY <1>1, NoNewRequest
  <2> QED BY <2>1 DEF SInv, Alone
<1>4. \A n \in DOMAIN db' : Contained(db'[n])
  BY DEF SInv
<1>5. ReadsStored' /\ AddsOfRequests'
  BY <1>2 DEF ReadsStored, AddsOfRequests
<1>6. CallsOfDeletions'
  BY <1>1 DEF SInv, CallsOfDeletions
<1>7. UnlinksOfRequests'
  BY <1>1, <1>2 DEF SInv, UnlinksOfRequests
<1> QED BY <1>3, <1>4, <1>5, <1>6, <1>7 DEF SInv

\* The steps of a deletion add no container.
LEMMA RemoveNodeKeeps ==
    ASSUME IInv, TInv, TInv', SInv, NEW k \in DOMAIN removals, RemoveNode(k)
    PROVE  SInv'
<1>0. k \in CallId /\ k.path # <<>>
  BY DEF IInv, CallsTyped
<1>1. CASE CheckActive(k)
  <2>1. /\ Changes(k) /\ removals[k].stage = "check"
        /\ UNCHANGED <<db, docs, active, phase, parent, unlinks, adds, announced>>
    BY <1>1, CheckFacts
  <2>2. Pending(k)
    BY <2>1 DEF Pending, Open
  <2> QED BY <2>1, <2>2, DeletionKeeps DEF Changes
<1>2. ASSUME NEW t \in RelationType, FindTargets(k, t) PROVE SInv'
  <2>1. /\ Changes(k) /\ t \in DOMAIN removals[k].branch /\ removals[k].branch[t].at = "find"
        /\ UNCHANGED <<db, docs, active, phase, parent, adds, announced>>
    BY <1>2, FindFacts
  <2>2. PICK found : Finds(k, t, found)
    BY <1>2, FindFacts
  <2>3. Pending(k)
    BY <2>1 DEF Pending
  <2>4. \A u \in unlinks' : u.by.req = k.req \/ u \in unlinks
    BY <2>2, FindUnlinks
  <2> QED BY <2>1, <2>3, <2>4, DeletionKeeps DEF Changes
<1>3. ASSUME NEW t \in RelationType, ValidateTargets(k, t) PROVE SInv'
  <2>1. /\ t \in DOMAIN removals[k].branch /\ removals[k].branch[t].at = "validate"
        /\ UNCHANGED <<db, docs, active, phase, parent, unlinks, adds, announced>>
        /\ \A c \in DOMAIN removals : c # k => removals'[c] = removals[c]
        /\ DOMAIN removals' \subseteq DOMAIN removals \cup Components(k, t)
    BY <1>3, ValidateFacts DEF Changes
  <2>2. Pending(k)
    BY <2>1 DEF Pending
  <2>3. \A c \in Components(k, t) : c.req = k.req
    BY DEF Components, Child
  <2> QED BY <2>1, <2>2, <2>3, DeletionKeeps
<1>4. CASE ComponentFailed(k)
  <2>1. /\ Changes(k) /\ removals[k].stage = "branches"
        /\ UNCHANGED <<db, docs, active, phase, parent, unlinks, adds, announced>>
    BY <1>4, FailedFacts
  <2>2. Pending(k)
    BY <2>1 DEF Pending, Open
  <2> QED BY <2>1, <2>2, DeletionKeeps DEF Changes
<1>5. ASSUME NEW c \in Cleared, Destroy(k, c) PROVE SInv'
  <2>1. /\ Changes(k) /\ removals[k].stage \in {"branches", "destroy"}
        /\ \/ db' = IF c = "nodes" THEN NodeTaken(k) ELSE db
           \/ db' = db
        /\ UNCHANGED <<active, phase, parent, unlinks, adds, announced>>
    BY <1>5, DestroyFacts
  <2>2. Pending(k)
    BY <2>1 DEF Pending, Open
  <2>3. \A n \in DOMAIN db' : n \in DOMAIN db /\ db'[n] = db[n]
    BY <2>1 DEF NodeTaken
  <2> QED BY <2>1, <2>2, <2>3, DeletionKeeps DEF Changes
<1>6. CASE Publish(k)
  <2>1. /\ Changes(k) /\ removals[k].stage = "publish"
        /\ UNCHANGED <<db, docs, active, phase, parent, unlinks, adds>>
    BY <1>6, PublishFacts
  <2>2. Pending(k)
    BY <2>1 DEF Pending, Open
  <2> QED BY <2>1, <2>2, DeletionKeeps DEF Changes
<1> QED BY <1>1, <1>2, <1>3, <1>4, <1>5, <1>6 DEF RemoveNode

\* A pull adds no container, and adds none where there was none.
LEMMA ContainedPull ==
    ASSUME NEW rels \in Relations, Contained(rels), NEW i, NEW old
    PROVE  /\ Contained(PullTargets(rels, i, old))
           /\ SamePlaces(rels, PullTargets(rels, i, old))
           /\ NoLonger(rels, PullTargets(rels, i, old))
<1> DEFINE new == PullTargets(rels, i, old)
<1>1. /\ new \in Relations /\ DOMAIN new = DOMAIN rels
      /\ \A j \in DOMAIN rels : /\ new[j].relationType = rels[j].relationType
                                /\ Len(new[j].targets) <= Len(rels[j].targets)
  BY PullTargetsFacts
<1> HIDE DEF new
<1>2. \A j \in DOMAIN rels : Len(new[j].targets) \in Nat /\ Len(rels[j].targets) \in Nat
  BY <1>1, ItemAt
<1>3. Contained(new)
  BY <1>1, <1>2 DEF Contained
<1> QED BY <1>1, <1>3 DEF SamePlaces, NoLonger, new

\* Dropping blank items adds no container.
LEMMA ContainedBlank ==
    ASSUME NEW rels \in Relations, Contained(rels), NEW t
    PROVE  Contained(PullBlank(rels, t))
<1> DEFINE new == PullBlank(rels, t)
<1>1. PICK p \in [DOMAIN new -> DOMAIN rels] :
        /\ \A j \in DOMAIN new : new[j] = rels[p[j]]
        /\ \A j, h \in DOMAIN new : p[j] = p[h] => j = h
  BY PullBlankFacts
<1> HIDE DEF new
<1>2. Contained(new)
  BY <1>1 DEF Contained
<1> QED BY <1>2 DEF new

\* A blank item has no container, and is added only where there is no such item.
LEMMA ContainedItem ==
    ASSUME NEW rels \in Relations, Contained(rels), NEW t \in RelationType
    PROVE  /\ Contained(PushItem(rels, t))
           /\ SamePlaces(rels, PushItem(rels, t))
           /\ NoLonger(rels, PushItem(rels, t))
<1> DEFINE new == PushItem(rels, t)
<1>1. /\ new \in Relations
      /\ \A j \in DOMAIN rels : j \in DOMAIN new /\ new[j] = rels[j]
      /\ \A j \in DOMAIN new \ DOMAIN rels : new[j] = Blank(t) /\ j = Len(rels) + 1
  BY PushItemFacts
<1>2. IndexOf(rels, t) # 0 => new = rels
  BY DEF PushItem
<1> HIDE DEF new
<1>3. \A j \in DOMAIN rels : Len(rels[j].targets) \in Nat
  BY ItemAt
<1>4. Contained(new)
  <2> SUFFICES ASSUME NEW i \in DOMAIN new, NEW j \in DOMAIN new,
                      new[i].relationType = "containedBy", new[j].relationType = "containedBy"
               PROVE  i = j /\ Len(new[i].targets) <= 1
    BY DEF Contained
  <2>1. CASE i \in DOMAIN rels /\ j \in DOMAIN rels
    BY <1>1, <2>1 DEF Contained
  <2>2. CASE i \notin DOMAIN rels /\ j \notin DOMAIN rels
    <3>1. new[i] = Blank(t) /\ i = j
      BY <1>1, <2>2
    <3>2. new[i].targets = <<>>
      BY <3>1 DEF Blank
    <3> QED BY <3>1, <3>2
  <2>3. ASSUME NEW h \in DOMAIN rels, NEW l \in DOMAIN new, l \notin DOMAIN rels,
               new[h].relationType = "containedBy", new[l].relationType = "containedBy"
        PROVE  FALSE
    <3>1. rels[h].relationType = "containedBy" /\ t = "containedBy"
      BY <1>1, <2>3 DEF Blank
    <3>2. IndexOf(rels, t) # 0
      BY <3>1, IndexFacts
    <3> QED BY <1>2, <2>3, <3>2
  <2> QED BY <2>1, <2>2, <2>3
<1>5. SamePlaces(rels, new)
  BY <1>1 DEF SamePlaces
<1>6. NoLonger(rels, new)
  BY <1>1, <1>3 DEF NoLonger
<1> QED BY <1>4, <1>5, <1>6 DEF new

\* A push that fits leaves one container at most.
LEMMA ContainedPush ==
    ASSUME NEW rels \in Relations, Contained(rels), NEW i \in DOMAIN rels, NEW more \in Seq(Target),
           rels[i].relationType = "containedBy" => Len(rels[i].targets) + Len(more) <= 1
    PROVE  /\ Contained(PushTargets(rels, i, more))
           /\ SamePlaces(rels, PushTargets(rels, i, more))
           /\ rels[i].relationType # "containedBy" => NoLonger(rels, PushTargets(rels, i, more))
<1> DEFINE new == PushTargets(rels, i, more)
<1>1. /\ new \in Relations /\ DOMAIN new = DOMAIN rels
      /\ \A j \in DOMAIN rels : new[j].relationType = rels[j].relationType
      /\ Len(new[i].targets) <= Len(rels[i].targets) + Len(more)
      /\ \A j \in DOMAIN rels \ {i} : new[j] = rels[j]
  BY PushTargetsFacts
<1> HIDE DEF new
<1>2. \A j \in DOMAIN rels : Len(new[j].targets) \in Nat /\ Len(rels[j].targets) \in Nat
  BY <1>1, ItemAt
<1>3. Len(more) \in Nat
  OBVIOUS
<1>4. Contained(new)
  <2> SUFFICES ASSUME NEW h \in DOMAIN new, NEW j \in DOMAIN new,
                      new[h].relationType = "containedBy", new[j].relationType = "containedBy"
               PROVE  h = j /\ Len(new[h].targets) <= 1
    BY DEF Contained
  <2>1. h = j /\ Len(rels[h].targets) <= 1
    BY <1>1 DEF Contained
  <2>2. CASE h = i
    BY <1>1, <1>2, <1>3, <2>1, <2>2
  <2>3. CASE h # i
    BY <1>1, <2>1, <2>3
  <2> QED BY <2>1, <2>2, <2>3
<1>5. SamePlaces(rels, new)
  BY <1>1 DEF SamePlaces
<1>6. rels[i].relationType # "containedBy" => NoLonger(rels, new)
  <2> SUFFICES ASSUME rels[i].relationType # "containedBy", NEW j \in DOMAIN rels,
                      rels[j].relationType = "containedBy"
               PROVE  Len(new[j].targets) <= Len(rels[j].targets)
    BY DEF NoLonger
  <2> QED BY <1>1, <1>2
<1> QED BY <1>4, <1>5, <1>6 DEF new

\* A call of addRelation still fits a document whose items have not moved.
LEMMA FitsKept ==
    ASSUME NEW a \in AddCall, Fits(a), db[a.node] \in Relations, db'[a.node] \in Relations,
           SamePlaces(db[a.node], db'[a.node]),
           a.type = "containedBy" => NoLonger(db[a.node], db'[a.node])
    PROVE  Fits(a)'
<1> DEFINE old == db[a.node]
           new == db'[a.node]
<1>1. old \in Relations /\ new \in Relations /\ a.rels \in Relations /\ Len(a.targets) \in Nat
  BY DEF AddCall
<1> HIDE DEF old, new
<1>2. /\ \A j \in DOMAIN old : Len(old[j].targets) \in Nat
      /\ \A j \in DOMAIN new : Len(new[j].targets) \in Nat
      /\ \A j \in DOMAIN a.rels : Len(a.rels[j].targets) \in Nat
  BY <1>1, ItemAt
<1>3. SamePlaces(old, new) /\ (a.type = "containedBy" => NoLonger(old, new))
  BY DEF old, new
<1>4. CASE a.stage = "item"
  <2>1. SamePlaces(a.rels, old) /\ (a.type = "containedBy" => NoLonger(a.rels, old))
    BY <1>4 DEF Fits, old
  <2>2. SamePlaces(a.rels, new)
    BY <1>3, <2>1 DEF SamePlaces
  <2>3. a.type = "containedBy" => NoLonger(a.rels, new)
    <3> SUFFICES ASSUME a.type = "containedBy", NEW j \in DOMAIN a.rels,
                        a.rels[j].relationType = "containedBy"
                 PROVE  Len(new[j].targets) <= Len(a.rels[j].targets)
      BY DEF NoLonger
    <3>1. j \in DOMAIN old /\ old[j].relationType = "containedBy" /\ j \in DOMAIN new
      BY <1>3, <2>1 DEF SamePlaces
    <3>2. /\ Len(old[j].targets) <= Len(a.rels[j].targets)
          /\ Len(new[j].targets) <= Len(old[j].targets)
      BY <1>3, <2>1, <3>1 DEF NoLonger
    <3>3. /\ Len(old[j].targets) \in Nat /\ Len(new[j].targets) \in Nat
          /\ Len(a.rels[j].targets) \in Nat
      BY <1>2, <3>1
    <3> HIDE DEF old
    <3> QED BY <3>2, <3>3
  <2> QED BY <1>4, <2>2, <2>3 DEF Fits, new
<1>5. CASE a.stage # "item"
  <2>1. /\ a.index \in DOMAIN old /\ old[a.index].relationType = a.type
        /\ a.type = "containedBy" => Len(old[a.index].targets) + Len(a.targets) <= 1
    BY <1>5 DEF Fits, old
  <2>2. a.index \in DOMAIN new /\ new[a.index].relationType = a.type
    BY <1>3, <2>1 DEF SamePlaces
  <2>3. a.type = "containedBy" => Len(new[a.index].targets) + Len(a.targets) <= 1
    <3> SUFFICES ASSUME a.type = "containedBy"
                 PROVE  Len(new[a.index].targets) + Len(a.targets) <= 1
      OBVIOUS
    <3>1. Len(new[a.index].targets) <= Len(old[a.index].targets)
      BY <1>3, <2>1 DEF NoLonger
    <3>2. Len(old[a.index].targets) \in Nat /\ Len(new[a.index].targets) \in Nat
      BY <1>2, <2>1, <2>2
    <3>3. Len(old[a.index].targets) + Len(a.targets) <= 1
      BY <2>1
    <3> DEFINE x == Len(old[a.index].targets)
               y == Len(new[a.index].targets)
               z == Len(a.targets)
    <3>4. x \in Nat /\ y \in Nat /\ z \in Nat /\ y <= x /\ x + z <= 1
      BY <1>1, <3>1, <3>2, <3>3
    <3> HIDE DEF x, y, z
    <3>5. y + z <= 1
      BY <3>4
    <3> QED BY <3>5 DEF y, z
  <2> QED BY <1>5, <2>2, <2>3 DEF Fits, new
<1> QED BY <1>4, <1>5

\* A step of removeRelation.
LEMMA UnlinkKeeps ==
    ASSUME IInv, TInv, TInv', SInv, NEW u \in unlinks, NEW new, Writes(u.node, new),
           u.node \in DOMAIN db => Contained(new),
           \A v \in unlinks' : v \in unlinks \/ v.by = u.by,
           UNCHANGED <<phase, parent, removals, adds>>
    PROVE  SInv'
<1> DEFINE r == u.by.req
<1>1. /\ r \in Request /\ InFlight(r) /\ Op[r].kind # "link" /\ phase[r] \notin {"idle", "targets"}
  BY DEF TInv, UnlinkCall, CallId, InFlight, SInv, UnlinksOfRequests
<1>2. adds = {} /\ \A q \in Request : phase[q] # "targets"
  BY <1>1, NothingElse
<1>3. Alone'
  <2>1. \A q \in Request : InFlight(q)' => InFlight(q)
    BY <1>1, NoNewRequest
  <2> QED BY <2>1 DEF SInv, Alone
<1>4. \A n \in DOMAIN db' : Contained(db'[n])
  BY DEF SInv, Writes
<1>5. ReadsStored' /\ AddsOfRequests'
  BY <1>2 DEF ReadsStored, AddsOfRequests
<1>6. CallsOfDeletions'
  BY DEF SInv, CallsOfDeletions
<1>7. UnlinksOfRequests'
  BY <1>1 DEF SInv, UnlinksOfRequests
<1> QED BY <1>3, <1>4, <1>5, <1>6, <1>7 DEF SInv

\* A step of addRelation.
LEMMA AddKeeps ==
    ASSUME IInv, TInv, TInv', SInv, NEW a \in adds, NEW new, Writes(a.node, new),
           Contained(new), SamePlaces(db[a.node], new),
           \A b \in adds \ {a} : b.type = "containedBy" => NoLonger(db[a.node], new),
           phase' = phase \/ Reject(a.by.req),
           adds' = adds \ {a} \/ \E b : NextAdd(a, b) /\ Fits(b)',
           UNCHANGED <<parent, removals, unlinks>>
    PROVE  SInv'
<1> DEFINE r == a.by.req
<1>1. /\ r \in Request /\ InFlight(r) /\ Op[r].kind = "link" /\ phase[r] \notin {"idle", "targets"}
      /\ a \in AddCall /\ a.by = Edit(r) /\ a.node = Op[r].node /\ a.node \in DOMAIN db
  BY DEF TInv, AddCall, CallId, InFlight, SInv, AddsOfRequests
<1>2. /\ unlinks = {} /\ \A q \in Request : phase[q] # "targets"
      /\ \A b \in adds : b.by.req = r
  BY <1>1, NothingElse
<1>3. phase' = phase \/ (phase[r] = "running" /\ phase' = [phase EXCEPT ![r] = "error"])
  BY <1>1, RejectStep
<1>4. phase = [q \in Request |-> phase[q]]
  BY DEF TInv, RequestsTyped
<1>5. /\ \A q \in Request : phase'[q] = phase[q] \/ phase'[q] = "error"
      /\ phase'[r] \notin {"idle", "targets"}
  BY <1>1, <1>3, <1>4
<1>6. Alone'
  <2>1. \A b \in adds' : b.by.req = r \/ b \in adds
    BY DEF NextAdd
  <2>2. \A q \in Request : InFlight(q)' => InFlight(q)
    BY <1>1, <1>5, <2>1, NoNewRequest
  <2> QED BY <2>2 DEF SInv, Alone
<1>7. \A n \in DOMAIN db' : Contained(db'[n])
  BY DEF SInv, Writes
<1>8. ReadsStored' /\ UnlinksOfRequests'
  BY <1>2, <1>5 DEF ReadsStored, UnlinksOfRequests
<1>9. CallsOfDeletions'
  BY DEF SInv, CallsOfDeletions
<1>10. AddsOfRequests'
  <2>1. ASSUME NEW b \in adds, b # a
        PROVE  /\ b.by = Edit(r) /\ b.node = a.node /\ b.by.req = r /\ b.type # a.type
               /\ Fits(b)'
    <3>1. /\ b.by = Edit(r) /\ b.node = a.node /\ b.by.req = r /\ b.type # a.type
          /\ b \in AddCall /\ Fits(b)
      BY <1>1, <1>2, <2>1 DEF SInv, AddsOfRequests, TInv
    <3>2. db'[a.node] = new /\ db[a.node] \in Relations /\ db'[a.node] \in Relations
      BY <1>1 DEF Writes, TInv, StoreTyped
    <3> QED BY <2>1, <3>1, <3>2, FitsKept
  <2>2. a.node \in DOMAIN db'
    BY <1>1 DEF Writes
  <2>3. CASE adds' = adds \ {a}
    <3>1. ASSUME NEW b \in adds' PROVE b \in adds /\ b # a
      BY <2>3
    <3> QED BY <1>1, <1>5, <2>1, <2>2, <3>1 DEF AddsOfRequests, SInv
  <2>4. ASSUME NEW n, NextAdd(a, n), Fits(n)' PROVE AddsOfRequests'
    <3>1. /\ n.by = Edit(r) /\ n.node = a.node /\ n.type = a.type /\ n.by.req = r
          /\ adds' = (adds \ {a}) \cup {n}
      BY <1>1, <2>4 DEF NextAdd
    <3>2. ASSUME NEW b \in adds'
          PROVE  b.by = Edit(r) /\ b.node = a.node /\ b.by.req = r /\ Fits(b)'
      BY <2>1, <2>4, <3>1
    <3>3. ASSUME NEW b \in adds', NEW c \in adds', b.type = c.type PROVE b = c
      <4>1. CASE b = n \/ c = n
        BY <2>1, <3>1, <3>3, <4>1
      <4>2. CASE b # n /\ c # n
        BY <1>1, <2>1, <3>1, <3>3, <4>2 DEF SInv, AddsOfRequests
      <4> QED BY <4>1, <4>2
    <3> QED BY <1>1, <1>5, <2>2, <3>2, <3>3 DEF AddsOfRequests
  <2> QED BY <2>3, <2>4
<1> QED BY <1>6, <1>7, <1>8, <1>9, <1>10 DEF SInv

\* The position that was found holds an item of the type in the stored document
\* too, and the check made on the copy covers what is stored.
LEMMA EnsureKeeps ==
    ASSUME IInv, TInv, TInv', SInv, NEW a \in adds, EnsureRelation(a)
    PROVE  SInv'
<1> DEFINE doc == db[a.node]
           new == Ensured(a)
<1>1. /\ Writes(a.node, new) /\ a.stage = "item"
      /\ UNCHANGED <<docs, active, parent, removals, unlinks, announced>>
  BY EnsureStep
<1>2. /\ a \in AddCall /\ a.node \in DOMAIN db /\ Fits(a)
      /\ doc \in Relations /\ Contained(doc) /\ Len(a.targets) \in Nat /\ a.type \in RelationType
      /\ a.rels \in Relations
  BY DEF TInv, StoreTyped, SInv, AddsOfRequests, AddCall
<1>3. new = PushItem(doc, a.type)
  BY DEF Ensured
<1>4. Contained(new) /\ SamePlaces(doc, new) /\ NoLonger(doc, new) /\ new \in Relations
  BY <1>2, <1>3, ContainedItem, PushItemFacts
<1>5. db'[a.node] = new
  BY <1>1, <1>2 DEF Writes
<1>6. ASSUME NEW b, NextAdd(a, b), b.rels = Modified(a), b.stage \in {"replace", "push"},
             b.index \in DOMAIN b.rels, b.rels[b.index].relationType = a.type,
             ~Refuses(a, b.rels[b.index])
      PROVE  Fits(b)'
  <2>1. b.node = a.node /\ b.type = a.type /\ b.targets = a.targets /\ b.stage # "item"
    BY <1>6 DEF NextAdd
  <2>2. b.rels \in Relations
    BY <1>2, <1>3, <1>4, <1>6 DEF Modified
  <2>3. Len(b.rels[b.index].targets) \in Nat
    BY <1>6, <2>2, ItemAt
  <2>4. a.type = "containedBy" => Len(b.rels[b.index].targets) + Len(a.targets) <= 1
    <3> SUFFICES ASSUME a.type = "containedBy"
                 PROVE  Len(b.rels[b.index].targets) + Len(a.targets) <= 1
      OBVIOUS
    <3> DEFINE y == Len(b.rels[b.index].targets)
               z == Len(a.targets)
    <3>1. y \in Nat /\ z \in Nat /\ ~(y + z > 1)
      BY <1>2, <1>6, <2>3 DEF Refuses
    <3> HIDE DEF y, z
    <3>2. y + z <= 1
      BY <3>1
    <3> QED BY <3>2 DEF y, z
  <2>5. CASE IndexOf(doc, a.type) = 0
    <3>1. b.rels = new
      BY <1>2, <1>6, <2>5 DEF Modified
    <3> QED BY <1>5, <1>6, <2>1, <2>4, <3>1 DEF Fits
  <2>6. CASE IndexOf(doc, a.type) # 0
    <3>1. b.rels = a.rels /\ new = doc
      BY <1>2, <1>3, <1>6, <2>6 DEF Modified, PushItem
    <3>2. SamePlaces(a.rels, doc) /\ (a.type = "containedBy" => NoLonger(a.rels, doc))
      BY <1>1, <1>2 DEF Fits
    <3>3. b.index \in DOMAIN doc /\ doc[b.index].relationType = a.type
      BY <1>6, <3>1, <3>2 DEF SamePlaces
    <3>4. a.type = "containedBy" => Len(doc[b.index].targets) + Len(a.targets) <= 1
      <4> SUFFICES ASSUME a.type = "containedBy"
                   PROVE  Len(doc[b.index].targets) + Len(a.targets) <= 1
        OBVIOUS
      <4> DEFINE x == Len(doc[b.index].targets)
                 y == Len(b.rels[b.index].targets)
                 z == Len(a.targets)
      <4>1. x \in Nat /\ y \in Nat /\ z \in Nat
        BY <1>2, <2>3, <3>3, ItemAt
      <4>2. x <= y
        BY <1>6, <3>1, <3>2 DEF NoLonger
      <4>3. y + z <= 1
        BY <2>4
      <4> HIDE DEF x, y, z
      <4>4. x + z <= 1
        BY <4>1, <4>2, <4>3
      <4> QED BY <4>4 DEF x, z
    <3> QED BY <1>5, <2>1, <3>1, <3>3, <3>4 DEF Fits
  <2> QED BY <2>5, <2>6
<1> HIDE DEF new, doc
<1>7. /\ phase' = phase \/ Reject(a.by.req)
      /\ adds' = adds \ {a} \/ \E b : NextAdd(a, b) /\ Fits(b)'
  BY <1>6, EnsureStep
<1> QED BY <1>1, <1>4, <1>7, AddKeeps DEF doc

\* Pulling an enclosure adds no container.
LEMMA ReplaceKeeps ==
    ASSUME IInv, TInv, TInv', SInv, NEW a \in adds, ReplaceEnclosure(a)
    PROVE  SInv'
<1>1. PICK old : Writes(a.node, PullTargets(db[a.node], a.index, old))
  BY ReplaceStep
<1>2. PICK b : /\ NextAdd(a, b) /\ b.stage = "push" /\ b.rels = a.rels /\ b.index = a.index
  BY ReplaceStep
<1>3. a.stage = "replace" /\ UNCHANGED <<docs, active, phase, parent, removals, unlinks, announced>>
  BY ReplaceStep
<1> DEFINE doc == db[a.node]
           new == PullTargets(doc, a.index, old)
<1>4. /\ a \in AddCall /\ a.node \in DOMAIN db /\ Fits(a) /\ doc \in Relations /\ Contained(doc)
  BY DEF TInv, StoreTyped, SInv, AddsOfRequests
<1>5. Contained(new) /\ SamePlaces(doc, new) /\ NoLonger(doc, new)
  BY <1>4, ContainedPull
<1>6. db'[a.node] = new /\ db'[a.node] \in Relations
  BY <1>1, <1>4 DEF Writes, TInv, StoreTyped
<1> HIDE DEF new
<1>7. Fits(a)'
  BY <1>4, <1>5, <1>6, FitsKept
<1>8. Fits(b)'
  BY <1>2, <1>3, <1>7 DEF Fits, NextAdd
<1> QED BY <1>1, <1>2, <1>3, <1>5, <1>8, AddKeeps DEF new

\* A push that was found to fit still fits: no other call has written meanwhile.
LEMMA PushKeeps ==
    ASSUME IInv, TInv, TInv', SInv, NEW a \in adds, PushToRelation(a)
    PROVE  SInv'
<1> DEFINE doc == db[a.node]
           new == PushTargets(doc, a.index, a.targets)
<1>1. /\ a \in AddCall /\ a.node \in DOMAIN db /\ Fits(a) /\ doc \in Relations /\ Contained(doc)
      /\ a.targets \in Seq(Target)
  BY DEF TInv, StoreTyped, SInv, AddsOfRequests, AddCall
<1>2. /\ a.stage = "push" /\ adds' = adds \ {a}
      /\ UNCHANGED <<docs, active, parent, removals, unlinks, announced>>
  BY PushStep
<1>3. /\ a.index \in DOMAIN doc /\ doc[a.index].relationType = a.type
      /\ a.type = "containedBy" => Len(doc[a.index].targets) + Len(a.targets) <= 1
  BY <1>1, <1>2 DEF Fits
<1>4. phase' = phase /\ Writes(a.node, new)
  BY <1>1, <1>3, PushStep
<1>5. /\ Contained(new) /\ SamePlaces(doc, new)
      /\ a.type # "containedBy" => NoLonger(doc, new)
  BY <1>1, <1>3, ContainedPush
<1>6. \A b \in adds \ {a} : b.type # a.type
  <2>1. \A b \in adds : b.by.req = a.by.req
    <3>1. a.by.req \in Request /\ InFlight(a.by.req)
      BY DEF TInv, AddCall, CallId, InFlight
    <3> QED BY <3>1, NothingElse
  <2> QED BY <2>1 DEF SInv, AddsOfRequests
<1> HIDE DEF new
<1> QED BY <1>2, <1>4, <1>5, <1>6, AddKeeps

\* The handlers of one request begin with the document as it is stored.
LEMMA HandlersKeep ==
    ASSUME IInv, TInv, TInv', SInv, NEW r \in Request, CallHandlers(r)
    PROVE  SInv'
<1> DEFINE n == Op[r].node
<1>1. /\ phase[r] = "targets" /\ UNCHANGED <<db, docs, active, parent, removals, announced>>
      /\ phase = [q \in Request |-> phase[q]]
  BY HandlersStep DEF TInv, RequestsTyped
<1>2. InFlight(r) /\ n \in DOMAIN db /\ parent[r] = db[n]
  BY <1>1 DEF InFlight, SInv, ReadsStored
<1>3. unlinks = {} /\ adds = {}
  BY <1>1, <1>2, NothingElse
<1>4. PICK s \in {"error", "running"} : phase' = [phase EXCEPT ![r] = s]
  BY HandlersStep
<1>5. /\ phase'[r] = s /\ \A q \in Request : q # r => phase'[q] = phase[q]
  BY <1>1, <1>4
<1>6. /\ \A u \in unlinks' : u.by = Edit(r) /\ Op[r].kind # "link"
      /\ \A a \in adds' :
            /\ Op[r].kind = "link" /\ a.by = Edit(r) /\ a.node = n /\ a.rels = parent[r]
            /\ a.stage = "item"
            /\ \A b \in adds' : a.type = b.type => a = b
  <2>1. CASE UNCHANGED <<unlinks, adds>>
    BY <1>3, <2>1
  <2>2. CASE /\ Op[r].kind = "link" /\ unlinks' = unlinks
             /\ adds' = adds \cup
                   {[by |-> Edit(r), node |-> Op[r].node, rels |-> parent[r], type |-> t,
                     targets |-> NeedTargetNodes(Op[r].body[t]), index |-> 0, stage |-> "item"] :
                        t \in DOMAIN Op[r].body \cap RelationType}
    BY <1>3, <2>2
  <2>3. CASE /\ Op[r].kind # "link" /\ adds' = adds
             /\ \A u \in unlinks' \ unlinks : u.by = Edit(r)
    BY <1>3, <2>3
  <2> QED BY <2>1, <2>2, <2>3, HandlersStep
<1>7. Edit(r).req = r
  BY DEF Edit
<1>8. Alone'
  <2>1. \A q \in Request : InFlight(q)' => InFlight(q)
    BY <1>1, <1>2, <1>5, <1>6, <1>7, NoNewRequest
  <2> QED BY <2>1 DEF SInv, Alone
<1>9. ReadsStored'
  BY <1>1, <1>5 DEF SInv, ReadsStored
<1>10. UnlinksOfRequests'
  BY <1>5, <1>6, <1>7 DEF UnlinksOfRequests
<1>11. AddsOfRequests'
  <2>1. ASSUME NEW a \in adds' PROVE Fits(a)'
    <3>1. a.rels = db'[a.node] /\ a.stage = "item" /\ a.rels \in Relations
      BY <1>1, <1>2, <1>6 DEF TInv, StoreTyped
    <3>2. \A j \in DOMAIN a.rels : Len(a.rels[j].targets) \in Nat
      BY <3>1, ItemAt
    <3> QED BY <3>1, <3>2 DEF Fits, SamePlaces, NoLonger
  <2> QED BY <1>1, <1>2, <1>5, <1>6, <1>7, <2>1 DEF AddsOfRequests
<1> QED BY <1>1, <1>8, <1>9, <1>10, <1>11 DEF SInv, CallsOfDeletions

\* An answer writes nothing.
LEMMA AnswerKeeps ==
    ASSUME IInv, TInv, TInv', SInv, NEW r \in Request, Answer(r)
    PROVE  SInv'
<1>1. /\ phase[r] = "running"
      /\ UNCHANGED <<db, docs, active, parent, removals, unlinks, adds, announced>>
      /\ phase = [q \in Request |-> phase[q]]
  BY AnswerStep DEF TInv, RequestsTyped
<1>2. PICK s \in {"error", "ok"} : phase' = [phase EXCEPT ![r] = s]
  BY AnswerStep
<1>3. /\ phase'[r] = s /\ \A q \in Request : q # r => phase'[q] = phase[q]
      /\ \A u \in unlinks : u.by.req \in Request
      /\ \A a \in adds : a.by.req \in Request
  BY <1>1, <1>2 DEF TInv, UnlinkCall, AddCall, CallId
<1>4. Alone'
  <2>1. InFlight(r)
    BY <1>1 DEF InFlight
  <2>2. \A q \in Request : InFlight(q)' => InFlight(q)
    BY <1>1, <1>3, <2>1, NoNewRequest
  <2> QED BY <2>2 DEF SInv, Alone
<1>5. ReadsStored' /\ UnlinksOfRequests'
  BY <1>1, <1>3 DEF SInv, ReadsStored, UnlinksOfRequests
<1>6. AddsOfRequests'
  <2>1. ASSUME NEW a \in adds' PROVE a \in adds /\ Fits(a)'
    BY <1>1 DEF SInv, AddsOfRequests, Fits
  <2> QED BY <1>1, <1>3, <2>1 DEF SInv, AddsOfRequests
<1> QED BY <1>1, <1>4, <1>5, <1>6 DEF SInv, CallsOfDeletions

\* A request is taken up when no other is served.
LEMMA QuietReceive ==
    ASSUME MaxInFlight = 1, IInv, SInv, NEW r \in Request, Receive(r)
    PROVE  \A q \in Request : ~InFlight(q)
<1>1. SUFFICES ASSUME NEW q \in Request, InFlight(q) PROVE FALSE
  OBVIOUS
<1> DEFINE served == {p \in Request : InFlight(p)}
<1>2. served = {q}
  BY <1>1 DEF SInv, Alone
<1>3. Cardinality(served) < 1
  BY ReceiveFacts
<1> HIDE DEF served
<1>4. Cardinality({q}) = 1
  BY FS_Singleton
<1> QED BY <1>2, <1>3, <1>4

\* With nothing else in flight, a request that is received reads what is stored.
LEMMA ReceiveKeeps ==
    ASSUME MaxInFlight = 1, IInv, TInv, TInv', SInv, NEW r \in Request, Receive(r)
    PROVE  SInv'
<1>1. \A q \in Request : ~InFlight(q)
  BY QuietReceive
<1>2. unlinks = {} /\ adds = {}
  BY <1>1 DEF TInv, UnlinkCall, AddCall, CallId, InFlight
<1>3. /\ phase[r] = "idle" /\ UNCHANGED <<db, docs, active, unlinks, adds, announced>>
      /\ phase = [q \in Request |-> phase[q]] /\ parent = [q \in Request |-> parent[q]]
      /\ \A q \in Request : phase[q] # "targets"
  <2>1. phase[r] = "idle" /\ UNCHANGED <<db, docs, active, unlinks, adds, announced>>
    BY ReceiveFacts
  <2> QED BY <1>1, <2>1 DEF TInv, RequestsTyped, InFlight
<1>4. /\ \A q \in Request \ {r} : phase'[q] = phase[q]
      /\ \A k \in DOMAIN removals' : k.req = r \/ (k \in DOMAIN removals /\ removals'[k] = removals[k])
      /\ \A k \in DOMAIN removals' : k \in DOMAIN removals \/ Op[k.req].kind = "delete"
      /\ phase'[r] = "targets" => Op[r].node \in DOMAIN db /\ parent'[r] = db[Op[r].node]
  <2>1. CASE /\ removals' = removals /\ parent' = parent
             /\ phase' = [phase EXCEPT ![r] = "error"]
    BY <1>3, <2>1
  <2>2. CASE /\ removals' = removals /\ Op[r].node \in DOMAIN db /\ Op[r].kind # "delete"
             /\ phase' = [phase EXCEPT ![r] = "targets"]
             /\ parent' = [parent EXCEPT ![r] = db[Op[r].node]]
    BY <1>3, <2>2
  <2>3. CASE /\ Op[r].kind = "delete" /\ phase' = [phase EXCEPT ![r] = "running"]
             /\ Root(r).req = r /\ DOMAIN removals' = DOMAIN removals \cup {Root(r)}
             /\ \A k \in DOMAIN removals : removals'[k] = removals[k]
    BY <1>3, <2>3
  <2> QED BY <2>1, <2>2, <2>3, ReceiveFacts
<1>5. Alone'
  <2>1. ASSUME NEW q \in Request, InFlight(q)', q # r PROVE InFlight(q)
    <3>1. CASE phase'[q] \in {"targets", "running"}
      BY <1>4, <2>1, <3>1 DEF InFlight
    <3>2. ASSUME NEW k \in DOMAIN removals', k.req = q, Pending(k)' PROVE InFlight(q)
      <4>1. k \in DOMAIN removals /\ removals'[k] = removals[k]
        BY <1>4, <2>1, <3>2
      <4>2. Pending(k)
        BY <3>2, <4>1 DEF Pending, Open
      <4> QED BY <3>2, <4>1, <4>2 DEF InFlight
    <3> QED BY <1>2, <1>3, <2>1, <3>1, <3>2 DEF InFlight
  <2> QED BY <1>1, <2>1 DEF Alone
<1>6. ReadsStored'
  BY <1>3, <1>4 DEF ReadsStored
<1>7. UnlinksOfRequests' /\ AddsOfRequests'
  BY <1>2, <1>3 DEF UnlinksOfRequests, AddsOfRequests
<1>8. CallsOfDeletions'
  BY <1>4 DEF SInv, CallsOfDeletions
<1> QED BY <1>3, <1>5, <1>6, <1>7, <1>8 DEF SInv

\* A step of the workflows writes nothing.
LEMMA IdleKeeps ==
    ASSUME SInv, UNCHANGED <<db, phase, parent, removals, unlinks, adds>>
    PROVE  SInv'
<1>1. Alone'
  <2>1. ASSUME NEW k \in DOMAIN removals PROVE Pending(k)' = Pending(k)
    BY DEF Pending, Open
  <2>2. \A q \in Request : InFlight(q)' => InFlight(q)
    BY <2>1 DEF InFlight
  <2> QED BY <2>2 DEF SInv, Alone
<1>2. \A a \in adds : Fits(a)'
  BY DEF SInv, AddsOfRequests, Fits
<1> QED BY <1>1, <1>2 DEF SInv, ReadsStored, CallsOfDeletions, UnlinksOfRequests, AddsOfRequests

\* A refused write of removeRelation adds no container.
LEMMA UnlinkFailsKeeps ==
    ASSUME IInv, TInv, SInv, NEW u \in unlinks, UnlinkFails(u)
    PROVE  SInv'
<1> DEFINE r == u.by.req
<1>1. /\ r \in Request /\ InFlight(r) /\ Op[r].kind # "link" /\ phase[r] \notin {"idle", "targets"}
  BY DEF TInv, UnlinkCall, CallId, InFlight, SInv, UnlinksOfRequests
<1>2. adds = {} /\ \A q \in Request : phase[q] # "targets"
  BY <1>1, NothingElse
<1>3. unlinks' = unlinks \ {u} /\ UNCHANGED <<db, docs, active, parent, adds, announced>>
  BY UnlinkFailsFacts
<1>4. phase' = phase \/ (phase[r] = "running" /\ phase' = [phase EXCEPT ![r] = "error"])
  BY <1>1, RejectStep, UnlinkFailsFacts DEF CallFails
<1>5. \A q \in Request : phase'[q] = phase[q] \/ (q = r /\ phase'[q] = "error")
  BY <1>4 DEF TInv, RequestsTyped
<1>6. /\ DOMAIN removals' = DOMAIN removals
      /\ \A c \in DOMAIN removals : c.req = r \/ removals'[c] = removals[c]
  BY UnlinkFailsFacts DEF CallFails, Changes
<1> HIDE DEF r
<1>7. Alone'
  <2>1. \A q \in Request : InFlight(q)' => InFlight(q)
    BY <1>1, <1>3, <1>5, <1>6, NoNewRequest
  <2> QED BY <2>1 DEF SInv, Alone
<1>8. ReadsStored' /\ AddsOfRequests'
  BY <1>2, <1>3, <1>5 DEF ReadsStored, AddsOfRequests
<1>9. CallsOfDeletions'
  BY <1>6 DEF SInv, CallsOfDeletions
<1>10. UnlinksOfRequests'
  <2> SUFFICES ASSUME NEW v \in unlinks, v # u
               PROVE  phase'[v.by.req] \notin {"idle", "targets"} /\ Op[v.by.req].kind # "link"
    BY <1>3 DEF UnlinksOfRequests
  <2>1. v.by.req \in Request
    BY DEF TInv, UnlinkCall, CallId
  <2> QED BY <1>5, <2>1 DEF SInv, UnlinksOfRequests
<1> QED BY <1>3, <1>7, <1>8, <1>9, <1>10 DEF SInv

\* Nor does one of addRelation.
LEMMA AddFailsKeeps ==
    ASSUME IInv, TInv, TInv', SInv, NEW a \in adds, AddFails(a)
    PROVE  SInv'
<1> DEFINE doc == db[a.node]
<1>1. /\ adds' = adds \ {a} /\ Reject(a.by.req)
      /\ UNCHANGED <<db, docs, active, parent, removals, unlinks, announced>>
  BY DEF AddFails
<1>2. a.node \in DOMAIN db /\ doc \in Relations /\ Contained(doc)
  BY DEF TInv, StoreTyped, SInv, AddsOfRequests
<1>3. Writes(a.node, doc)
  BY <1>1 DEF Writes
<1> HIDE DEF doc
<1>4. SamePlaces(doc, doc) /\ NoLonger(doc, doc)
  <2>1. \A j \in DOMAIN doc : Len(doc[j].targets) \in Nat
    BY <1>2, ItemAt
  <2> QED BY <2>1 DEF SamePlaces, NoLonger
<1> QED BY <1>1, <1>2, <1>3, <1>4, AddKeeps DEF doc

\* Every step leaves one container at most, one request at a time.
LEMMA NextSInv ==
    ASSUME MaxInFlight = 1
    PROVE  IInv /\ TInv /\ SInv /\ [Next]_vars => SInv'
<1> SUFFICES ASSUME IInv, TInv, SInv, [Next]_vars PROVE SInv'
  OBVIOUS
<1>0. TInv'
  BY NextTInv
<1>1. CASE UNCHANGED vars
  BY <1>1, IdleKeeps DEF vars
<1>2. ASSUME NEW k \in DOMAIN removals, RemoveNode(k) PROVE SInv'
  BY <1>0, <1>2, RemoveNodeKeeps
<1>3. ASSUME NEW u \in unlinks, PullFromRelation(u) PROVE SInv'
  <2>1. /\ Writes(u.node, PullTargets(db[u.node], u.index, u.targets))
        /\ \A v \in unlinks' : v \in unlinks \/ v.by = u.by
        /\ UNCHANGED <<phase, parent, removals, adds>>
    BY <1>3, PullStep
  <2>2. u.node \in DOMAIN db => Contained(PullTargets(db[u.node], u.index, u.targets))
    BY ContainedPull DEF TInv, StoreTyped, SInv
  <2> QED BY <1>0, <2>1, <2>2, UnlinkKeeps
<1>4. ASSUME NEW u \in unlinks, DropBlankRelation(u) PROVE SInv'
  <2>1. /\ Writes(u.node, PullBlank(db[u.node], u.type))
        /\ \A v \in unlinks' : v \in unlinks \/ v.by = u.by
        /\ UNCHANGED <<phase, parent, removals, adds>>
    BY <1>4, DropStep
  <2>2. u.node \in DOMAIN db => Contained(PullBlank(db[u.node], u.type))
    BY ContainedBlank DEF TInv, StoreTyped, SInv
  <2> QED BY <1>0, <2>1, <2>2, UnlinkKeeps
<1>5. ASSUME NEW a \in adds,
             EnsureRelation(a) \/ ReplaceEnclosure(a) \/ PushToRelation(a) \/ AddFails(a)
      PROVE  SInv'
  BY <1>0, <1>5, EnsureKeeps, ReplaceKeeps, PushKeeps, AddFailsKeeps
<1>6. ASSUME NEW r \in Request, CallHandlers(r) \/ Answer(r) \/ Receive(r) PROVE SInv'
  BY <1>0, <1>6, HandlersKeep, AnswerKeeps, ReceiveKeeps
<1>7. ASSUME NEW n \in Node, StartWorkflow(n) \/ FinishWorkflow(n) PROVE SInv'
  <2>1. UNCHANGED <<db, phase, parent, removals, unlinks, adds>>
    BY <1>7 DEF StartWorkflow, FinishWorkflow
  <2> QED BY <2>1, IdleKeeps
<1>8. ASSUME NEW u \in unlinks, UnlinkFails(u) PROVE SInv'
  BY <1>8, UnlinkFailsKeeps
<1> QED BY <1>1, <1>2, <1>3, <1>4, <1>5, <1>6, <1>7, <1>8 DEF Next, Serve

\* There is one container at most at the start.
LEMMA InitSInv ==
    ASSUME \A d \in InitialDb : \A n \in DOMAIN d : Contained(d[n])
    PROVE  Init => SInv
<1> SUFFICES ASSUME Init PROVE SInv
  OBVIOUS
<1>1. /\ db \in InitialDb /\ DOMAIN removals = {} /\ unlinks = {} /\ adds = {}
      /\ \A r \in Request : phase[r] = "idle"
  BY DEF Init
<1>2. \A r \in Request : ~InFlight(r)
  BY <1>1 DEF InFlight
<1> QED BY <1>1, <1>2 DEF SInv, Alone, ReadsStored, CallsOfDeletions, UnlinksOfRequests, AddsOfRequests

\* One item with one target is one container.
LEMMA ContainedOnce ==
    ASSUME NEW doc \in Relations, Contained(doc)
    PROVE  Cardinality(TargetsOf(doc, "containedBy")) <= 1
<1> DEFINE at == {j \in DOMAIN doc : doc[j].relationType = "containedBy"}
           all == TargetsOf(doc, "containedBy")
<1>1. all = UNION {ToSet(doc[i].targets) : i \in at}
  BY DEF TargetsOf
<1>2. ASSUME NEW x \in all, NEW y \in all PROVE x = y
  <2>1. PICK i \in at : x \in ToSet(doc[i].targets)
    BY <1>1
  <2>2. PICK j \in at : y \in ToSet(doc[j].targets)
    BY <1>1
  <2>3. i = j /\ Len(doc[i].targets) <= 1
    BY DEF Contained
  <2>4. doc[i].targets \in Seq(Target)
    BY ItemAt
  <2>5. PICK g \in DOMAIN doc[i].targets : x = doc[i].targets[g]
    BY <2>1 DEF ToSet
  <2>6. PICK h \in DOMAIN doc[i].targets : y = doc[i].targets[h]
    BY <2>2, <2>3 DEF ToSet
  <2>7. g = 1 /\ h = 1
    <3> DEFINE s == doc[i].targets
    <3>1. s \in Seq(Target) /\ Len(s) <= 1 /\ g \in DOMAIN s /\ h \in DOMAIN s
      BY <2>3, <2>4
    <3> HIDE DEF s
    <3> QED BY <3>1
  <2> QED BY <2>5, <2>6, <2>7
<1> HIDE DEF all
<1>3. CASE all = {}
  <2>1. Cardinality({}) = 0
    BY FS_EmptySet
  <2> QED BY <1>3, <2>1 DEF all
<1>4. CASE all # {}
  <2>1. PICK x : all = {x}
    BY <1>2, <1>4
  <2>2. Cardinality({x}) = 1
    BY FS_Singleton
  <2> QED BY <2>1, <2>2 DEF all
<1> QED BY <1>3, <1>4

\* "Node can only be contained by one node", as long as requests come one at a
\* time and it was so when the service started.
THEOREM SingleContainerAlways ==
    ASSUME MaxInFlight = 1,
           \A d \in InitialDb : \A n \in DOMAIN d : Contained(d[n])
    PROVE  Spec => []SingleContainer
<1>1. Init => IInv /\ TInv /\ SInv
  BY InitIInv, InitTInv, InitSInv
<1>2. IInv /\ TInv /\ SInv /\ [Next]_vars => (IInv /\ TInv /\ SInv)'
  BY NextIInv, NextTInv, NextSInv
<1>3. TInv /\ SInv => SingleContainer
  BY ContainedOnce DEF TInv, StoreTyped, SInv, SingleContainer
<1> QED BY <1>1, <1>2, <1>3, PTL DEF Spec

-----------------------------------------------------------------------------
(* Links that are acknowledged                                             *)

\* The types of the request's body that have a handler call.
Known(r) == DOMAIN Op[r].body \cap RelationType

\* The nodes of A are linked, and nobody deletes or unlinks them: the requests
\* that delete or unlink are about other nodes, whose documents do not name a
\* node of A.  A node of A has at most one request that replaces its enclosure.
Separate(A) ==
    /\ A \subseteq Node
    /\ \A r \in Request : Op[r].kind = "link" <=> Op[r].node \in A
    /\ \A d \in InitialDb : \A n \in DOMAIN d \ A : References(d[n]) \cap A = {}
    /\ \A q, r \in Request :
          /\ Op[q].kind = "link" /\ Op[r].kind = "link" /\ Op[q].node = Op[r].node
          /\ "enclosedBy" \in Known(q) /\ "enclosedBy" \in Known(r)
          => q = r

\* The service's handlers for type t of request r are done, or one is pending.
Linked(r, t) ==
    Op[r].node \in DOMAIN db /\ ToSet(Op[r].body[t]) \subseteq Listed(db[Op[r].node], t)
Waits(r, t) == \E a \in adds : a.by = Edit(r) /\ a.type = t

\* Deletions and unlinks stay away from A.
StoreApart(A) == \A n \in DOMAIN db \ A : References(db[n]) \cap A = {}

CallApart(k, A) ==
    /\ NodeOf(k) \notin A
    /\ References(removals[k].rels) \cap A = {}
    /\ \A t \in DOMAIN removals[k].branch :
          /\ IndexOf(removals[k].rels, t) # 0
          /\ DOMAIN removals[k].branch[t].found \cap A = {}
          /\ \A m \in DOMAIN removals[k].branch[t].found :
                References(removals[k].branch[t].found[m]) \cap A = {}

\* The position a call of addRelation works at is still that of an item of its type.
InPlace(a) ==
    LET doc == db[a.node] IN
    IF a.stage = "item" THEN SamePlaces(a.rels, doc)
    ELSE a.index \in DOMAIN doc /\ doc[a.index].relationType = a.type

AddOfLink(a) ==
    LET r == a.by.req IN
    /\ Op[r].kind = "link" /\ a.by = Edit(r) /\ a.node = Op[r].node /\ a.node \in DOMAIN db
    /\ a.type \in Known(r) /\ a.targets = NeedTargetNodes(Op[r].body[a.type])
    /\ a.stage = "replace" => a.type = "enclosedBy"
    /\ phase[r] \in {"running", "error"}
    /\ InPlace(a)

LinkHolds(r) ==
    Op[r].kind = "link" =>
        /\ phase[r] = "targets" =>
              Op[r].node \in DOMAIN db /\ SamePlaces(parent[r], db[Op[r].node])
        /\ phase[r] = "running" => \A t \in Known(r) : Waits(r, t) \/ Linked(r, t)
        /\ phase[r] = "ok" => \A t \in Known(r) : Linked(r, t)

KInv(A) ==
    /\ StoreApart(A)
    /\ \A k \in DOMAIN removals : CallApart(k, A)
    /\ \A u \in unlinks : u.node \notin A
    /\ \A a \in adds : AddOfLink(a)
    /\ \A r \in Request : LinkHolds(r)

-----------------------------------------------------------------------------
(* What the list operations do to the names in a document                  *)

\* Every target the older document lists under t is listed by the newer one.
Lists(old, new, t) == Listed(old, t) \subseteq Listed(new, t)

\* Items that stay where they are, with at least their targets, keep what is listed.
LEMMA ListsKept ==
    ASSUME NEW old, NEW new, NEW t,
           \A j \in DOMAIN old : old[j].relationType = t =>
               /\ j \in DOMAIN new /\ new[j].relationType = t
               /\ ToSet(old[j].targets) \subseteq ToSet(new[j].targets)
    PROVE  Lists(old, new, t)
<1>1. TargetsOf(old, t) \subseteq TargetsOf(new, t)
  BY DEF TargetsOf
<1> QED BY <1>1 DEF Lists, Listed

\* A pull moves no item, names no node anew, and keeps what other items list.
LEMMA PullLists ==
    ASSUME NEW rels \in Relations, NEW i, NEW old
    PROVE  /\ References(PullTargets(rels, i, old)) \subseteq References(rels)
           /\ SamePlaces(rels, PullTargets(rels, i, old))
           /\ \A t : i \in DOMAIN rels /\ rels[i].relationType # t =>
                  Lists(rels, PullTargets(rels, i, old), t)
<1> DEFINE new == PullTargets(rels, i, old)
<1>1. /\ new \in Relations /\ DOMAIN new = DOMAIN rels
      /\ \A j \in DOMAIN rels : /\ new[j].relationType = rels[j].relationType
                                /\ ToSet(new[j].targets) \subseteq ToSet(rels[j].targets)
      /\ \A j \in DOMAIN rels \ {i} : new[j] = rels[j]
  BY PullTargetsFacts
<1> HIDE DEF new
<1>2. References(new) \subseteq References(rels)
  BY <1>1 DEF References
<1>3. SamePlaces(rels, new)
  BY <1>1 DEF SamePlaces
<1>4. ASSUME NEW t, i \in DOMAIN rels, rels[i].relationType # t PROVE Lists(rels, new, t)
  BY <1>1, <1>4, ListsKept
<1> QED BY <1>2, <1>3, <1>4 DEF new

\* Dropping blank items names no node anew.
LEMMA BlankLists ==
    ASSUME NEW rels \in Relations, NEW t
    PROVE  References(PullBlank(rels, t)) \subseteq References(rels)
<1> DEFINE new == PullBlank(rels, t)
<1>1. PICK p \in [DOMAIN new -> DOMAIN rels] : \A j \in DOMAIN new : new[j] = rels[p[j]]
  BY PullBlankFacts
<1> HIDE DEF new
<1>2. References(new) \subseteq References(rels)
  BY <1>1 DEF References
<1> QED BY <1>2 DEF new

\* A new item follows the others, and keeps what they list.
LEMMA ItemLists ==
    ASSUME NEW rels \in Relations, NEW s \in RelationType
    PROVE  SamePlaces(rels, PushItem(rels, s)) /\ \A t : Lists(rels, PushItem(rels, s), t)
<1> DEFINE new == PushItem(rels, s)
<1>1. \A j \in DOMAIN rels : j \in DOMAIN new /\ new[j] = rels[j]
  BY PushItemFacts
<1> HIDE DEF new
<1>2. SamePlaces(rels, new)
  BY <1>1 DEF SamePlaces
<1>3. \A t : Lists(rels, new, t)
  BY <1>1, ListsKept
<1> QED BY <1>2, <1>3 DEF new

\* A push moves no item, keeps what is listed, and lists what is pushed.
LEMMA PushLists ==
    ASSUME NEW rels \in Relations, NEW i \in DOMAIN rels, NEW more \in Seq(Target)
    PROVE  /\ SamePlaces(rels, PushTargets(rels, i, more))
           /\ \A t : Lists(rels, PushTargets(rels, i, more), t)
           /\ ToSet(more) \subseteq TargetsOf(PushTargets(rels, i, more), rels[i].relationType)
<1> DEFINE new == PushTargets(rels, i, more)
<1>1. /\ new \in Relations /\ DOMAIN new = DOMAIN rels
      /\ \A j \in DOMAIN rels : new[j].relationType = rels[j].relationType
      /\ ToSet(new[i].targets) = ToSet(rels[i].targets) \cup ToSet(more)
      /\ \A j \in DOMAIN rels \ {i} : new[j] = rels[j]
  BY PushTargetsFacts
<1> HIDE DEF new
<1>2. SamePlaces(rels, new)
  BY <1>1 DEF SamePlaces
<1>3. ASSUME NEW t PROVE Lists(rels, new, t)
  <2>1. ASSUME NEW j \in DOMAIN rels, rels[j].relationType = t
        PROVE  /\ j \in DOMAIN new /\ new[j].relationType = t
               /\ ToSet(rels[j].targets) \subseteq ToSet(new[j].targets)
    <3>1. CASE j = i
      BY <1>1, <2>1, <3>1
    <3>2. CASE j # i
      BY <1>1, <2>1, <3>2
    <3> QED BY <3>1, <3>2
  <2> QED BY <2>1, ListsKept
<1>4. ToSet(more) \subseteq TargetsOf(new, rels[i].relationType)
  BY <1>1 DEF TargetsOf
<1> QED BY <1>2, <1>3, <1>4 DEF new

\* A list of ids that has been pushed as documents is listed.
LEMMA NeededListed ==
    ASSUME NEW doc, NEW t, NEW ids \in Seq(Node), ToSet(NeedTargetNodes(ids)) \subseteq TargetsOf(doc, t)
    PROVE  ToSet(ids) \subseteq Listed(doc, t)
<1> SUFFICES ASSUME NEW i \in DOMAIN ids PROVE ids[i] \in Listed(doc, t)
  BY DEF ToSet
<1>1. NeedTargetNodes(ids)[i] = AsDocument(ids[i]) /\ i \in DOMAIN NeedTargetNodes(ids)
  BY DEF NeedTargetNodes
<1>2. AsDocument(ids[i]) \in TargetsOf(doc, t)
  BY <1>1 DEF ToSet
<1>3. ids[i] \in Node
  OBVIOUS
<1> QED BY <1>2, <1>3 DEF Listed

\* Items that stay through two edits stay.
LEMMA PlacesTransitive ==
    ASSUME NEW x, NEW y, NEW z, SamePlaces(x, y), SamePlaces(y, z)
    PROVE  SamePlaces(x, z)
BY DEF SamePlaces

\* The item a call of addRelation has found stays in its place.
LEMMA InPlaceKept ==
    ASSUME NEW a, InPlace(a), SamePlaces(db[a.node], db'[a.node])
    PROVE  InPlace(a)'
<1>1. CASE a.stage = "item"
  BY <1>1, PlacesTransitive DEF InPlace
<1>2. CASE a.stage # "item"
  BY <1>2 DEF InPlace, SamePlaces
<1> QED BY <1>1, <1>2

-----------------------------------------------------------------------------
(* Steps of deletions and unlinks                                          *)

\* What a step away from A leaves to the links.
LEMMA LinksUntouched ==
    ASSUME TInv, NEW A, Separate(A), KInv(A), UNCHANGED <<phase, parent, adds>>,
           \A n \in DOMAIN db \cap A : n \in DOMAIN db' /\ db'[n] = db[n]
    PROVE  /\ \A a \in adds' : AddOfLink(a)'
           /\ \A r \in Request : LinkHolds(r)'
<1>1. ASSUME NEW a \in adds PROVE AddOfLink(a)'
  <2>1. AddOfLink(a) /\ a.by.req \in Request
    BY DEF KInv, TInv, AddCall, CallId
  <2>2. a.node \in A
    BY <2>1 DEF AddOfLink, Separate
  <2>3. a.node \in DOMAIN db' /\ db'[a.node] = db[a.node]
    BY <2>1, <2>2 DEF AddOfLink
  <2>4. InPlace(a)'
    BY <2>1, <2>3 DEF AddOfLink, InPlace
  <2> QED BY <2>1, <2>3, <2>4 DEF AddOfLink
<1>2. ASSUME NEW r \in Request PROVE LinkHolds(r)'
  <2>1. SUFFICES ASSUME Op[r].kind = "link" PROVE LinkHolds(r)'
    BY DEF LinkHolds
  <2>2. Op[r].node \in A /\ LinkHolds(r)
    BY <2>1 DEF Separate, KInv
  <2>3. Op[r].node \in DOMAIN db => Op[r].node \in DOMAIN db' /\ db'[Op[r].node] = db[Op[r].node]
    BY <2>2
  <2>4. \A t : Linked(r, t) => Linked(r, t)'
    BY <2>3 DEF Linked
  <2>5. \A t : Waits(r, t) => Waits(r, t)'
    BY DEF Waits
  <2> QED BY <2>1, <2>2, <2>3, <2>4, <2>5 DEF LinkHolds
<1> QED BY <1>1, <1>2

\* A step of a deletion away from A leaves the links of A.
LEMMA DeletionApart ==
    ASSUME TInv, NEW A, Separate(A), KInv(A), UNCHANGED <<phase, parent, adds>>,
           \A n \in DOMAIN db' : n \in DOMAIN db /\ db'[n] = db[n],
           DOMAIN db \cap A \subseteq DOMAIN db',
           \A c \in DOMAIN removals' : CallApart(c, A)',
           \A u \in unlinks' : u \in unlinks \/ u.node \notin A
    PROVE  KInv(A)'
<1>1. StoreApart(A)'
  BY DEF KInv, StoreApart
<1>2. \A u \in unlinks' : u.node \notin A
  BY DEF KInv
<1>3. /\ \A a \in adds' : AddOfLink(a)'
      /\ \A r \in Request : LinkHolds(r)'
  BY LinksUntouched
<1> QED BY <1>1, <1>2, <1>3 DEF KInv

\* A call whose record alone changes.
LEMMA ChangesApart ==
    ASSUME NEW A, KInv(A), NEW k \in DOMAIN removals, Changes(k), CallApart(k, A)'
    PROVE  \A c \in DOMAIN removals' : CallApart(c, A)'
<1> SUFFICES ASSUME NEW c \in DOMAIN removals, c # k PROVE CallApart(c, A)'
  BY DEF Changes
<1>1. CallApart(c, A) /\ removals'[c] = removals[c]
  BY DEF KInv, Changes
<1> QED BY <1>1 DEF CallApart

\* The targets of a branch stay away from A when the call's relations do.
LEMMA WantedApart ==
    ASSUME TInv, NEW A, KInv(A), NEW k \in DOMAIN removals, NEW t \in DOMAIN removals[k].branch
    PROVE  Wanted(k, t) \cap Node \cap A = {}
<1> DEFINE rels == removals[k].rels
           i == IndexOf(rels, t)
<1>1. CallApart(k, A) /\ rels \in Relations
  BY DEF KInv, TInv, RecordTyped
<1>2. i # 0 /\ References(rels) \cap A = {}
  BY <1>1 DEF CallApart
<1>3. i \in DOMAIN rels
  BY <1>1, <1>2, IndexFacts
<1>4. Wanted(k, t) = ToSet(rels[i].targets)
  BY DEF Wanted
<1> HIDE DEF rels, i
<1>5. ToSet(rels[i].targets) \cap Node \subseteq References(rels)
  BY <1>3 DEF References
<1> QED BY <1>2, <1>4, <1>5

\* No step of a deletion reaches a node of A.
LEMMA RemoveNodeApart ==
    ASSUME IInv, TInv, NEW A, Separate(A), KInv(A), NEW k \in DOMAIN removals, RemoveNode(k)
    PROVE  KInv(A)'
<1>0. /\ k \in CallId /\ k.path # <<>> /\ DOMAIN db \subseteq Node
      /\ CallApart(k, A) /\ removals[k].rels \in Relations
  BY DEF IInv, CallsTyped, KInv, TInv, RecordTyped
<1>1. CASE CheckActive(k)
  <2>1. /\ Changes(k)
        /\ DOMAIN removals'[k].branch \subseteq Types(k)
        /\ \A t \in DOMAIN removals'[k].branch :
              removals'[k].branch[t] = [at |-> "find", found |-> <<>>]
        /\ UNCHANGED <<db, docs, active, phase, parent, unlinks, adds, announced>>
    BY <1>1, CheckFacts
  <2>2. ASSUME NEW t \in Types(k) PROVE IndexOf(removals[k].rels, t) # 0
    BY <1>0, IndexFacts DEF Types
  <2>3. DOMAIN <<>> = {}
    OBVIOUS
  <2>4. CallApart(k, A)'
    BY <1>0, <2>1, <2>2, <2>3 DEF CallApart, Changes
  <2>5. \A c \in DOMAIN removals' : CallApart(c, A)'
    BY <2>1, <2>4, ChangesApart
  <2> QED BY <2>1, <2>5, DeletionApart
<1>2. ASSUME NEW t \in RelationType, FindTargets(k, t) PROVE KInv(A)'
  <2>1. /\ Changes(k) /\ t \in DOMAIN removals[k].branch
        /\ UNCHANGED <<db, docs, active, phase, parent, adds, announced>>
    BY <1>2, FindFacts
  <2>2. PICK found : Finds(k, t, found)
    BY <1>2, FindFacts
  <2>3. DOMAIN found \cap A = {} /\ \A m \in DOMAIN found : m \in DOMAIN db /\ found[m] = db[m]
    BY <1>0, <2>1, <2>2, WantedApart DEF Finds
  <2>4. \A m \in DOMAIN found : References(found[m]) \cap A = {}
    BY <2>3 DEF KInv, StoreApart
  <2>5. BranchIs(k, t, [at |-> IF Cascades(t) THEN "validate" ELSE "calls", found |-> found])
    BY <2>2 DEF Finds
  <2>6. CallApart(k, A)'
    <3>1. ASSUME NEW s \in DOMAIN removals'[k].branch
          PROVE  /\ IndexOf(removals'[k].rels, s) # 0
                 /\ DOMAIN removals'[k].branch[s].found \cap A = {}
                 /\ \A m \in DOMAIN removals'[k].branch[s].found :
                       References(removals'[k].branch[s].found[m]) \cap A = {}
      <4>1. IndexOf(removals'[k].rels, s) # 0
        BY <1>0, <2>1, <2>5 DEF Changes, BranchIs, CallApart
      <4>2. CASE s = t
        BY <2>3, <2>4, <2>5, <4>1, <4>2 DEF BranchIs
      <4>3. CASE s # t
        BY <1>0, <2>5, <4>1, <4>3 DEF BranchIs, CallApart
      <4> QED BY <4>2, <4>3
    <3> QED BY <1>0, <2>1, <3>1 DEF CallApart, Changes
  <2>7. \A c \in DOMAIN removals' : CallApart(c, A)'
    BY <2>1, <2>6, ChangesApart
  <2>8. ASSUME NEW u \in unlinks', u \notin unlinks PROVE u.node \notin A
    <3>1. u.node \in DOMAIN found
      BY <2>2, <2>8, FindUnlinks
    <3> QED BY <2>3, <3>1
  <2> QED BY <2>1, <2>7, <2>8, DeletionApart
<1>3. ASSUME NEW t \in RelationType, ValidateTargets(k, t) PROVE KInv(A)'
  <2> DEFINE found == removals[k].branch[t].found
  <2>1. /\ t \in DOMAIN removals[k].branch
        /\ UNCHANGED <<db, docs, active, phase, parent, unlinks, adds, announced>>
        /\ removals'[k].rels = removals[k].rels
        /\ \A c \in DOMAIN removals : c # k => removals'[c] = removals[c]
        /\ \E f \in {<<>>, found} : BranchIs(k, t, [at |-> "calls", found |-> f])
        /\ \A c \in DOMAIN removals' \ DOMAIN removals :
              /\ c \in Components(k, t)
              /\ removals'[c] = NewRemoval(found[NodeOf(c)], NodeRelations[t].mapping)
    BY <1>3, ValidateEither
  <2>2. PICK f \in {<<>>, found} : BranchIs(k, t, [at |-> "calls", found |-> f])
    BY <2>1
  <2>3. /\ DOMAIN found \cap A = {} /\ DOMAIN found \subseteq Node
        /\ \A m \in DOMAIN found : References(found[m]) \cap A = {}
    BY <1>0, <2>1 DEF CallApart, IInv, CallsTyped, CallShape
  <2>4. DOMAIN f \cap A = {} /\ \A m \in DOMAIN f : References(f[m]) \cap A = {}
    <3>1. DOMAIN <<>> = {}
      OBVIOUS
    <3> QED BY <2>3, <3>1
  <2>5. CallApart(k, A)'
    <3>1. ASSUME NEW s \in DOMAIN removals'[k].branch
          PROVE  /\ IndexOf(removals'[k].rels, s) # 0
                 /\ DOMAIN removals'[k].branch[s].found \cap A = {}
                 /\ \A m \in DOMAIN removals'[k].branch[s].found :
                       References(removals'[k].branch[s].found[m]) \cap A = {}
      <4>1. IndexOf(removals'[k].rels, s) # 0
        BY <1>0, <2>1, <2>2 DEF BranchIs, CallApart
      <4>2. CASE s = t
        BY <2>2, <2>4, <4>1, <4>2 DEF BranchIs
      <4>3. CASE s # t
        BY <1>0, <2>2, <4>1, <4>3 DEF BranchIs, CallApart
      <4> QED BY <4>2, <4>3
    <3> QED BY <1>0, <2>1, <3>1 DEF CallApart
  <2>6. ASSUME NEW c \in DOMAIN removals', c \notin DOMAIN removals PROVE CallApart(c, A)'
    <3>1. PICK m \in DOMAIN found : c = Child(k, m)
      BY <2>1, <2>6 DEF Components
    <3>2. NodeOf(c) = m /\ m \notin A
      BY <1>0, <2>3, <3>1, ChildFacts
    <3>3. removals'[c] = NewRemoval(found[m], NodeRelations[t].mapping)
      BY <2>1, <2>6, <3>2
    <3>4. References(found[m]) \cap A = {}
      BY <2>3
    <3> HIDE DEF found
    <3>5. removals'[c].rels = found[m] /\ DOMAIN removals'[c].branch = {}
      BY <3>3 DEF NewRemoval
    <3> QED BY <3>2, <3>4, <3>5 DEF CallApart
  <2>7. ASSUME NEW c \in DOMAIN removals, c # k PROVE CallApart(c, A)'
    <3>1. CallApart(c, A) /\ removals'[c] = removals[c]
      BY <2>1, <2>7 DEF KInv
    <3> QED BY <3>1 DEF CallApart
  <2>8. \A c \in DOMAIN removals' : CallApart(c, A)'
    BY <2>5, <2>6, <2>7
  <2> QED BY <2>1, <2>8, DeletionApart
<1>4. ASSUME Changes(k), SameBranches(k) PROVE \A c \in DOMAIN removals' : CallApart(c, A)'
  <2>1. CallApart(k, A)'
    BY <1>0, <1>4 DEF CallApart, Changes, SameBranches
  <2> QED BY <1>4, <2>1, ChangesApart
<1>5. CASE ComponentFailed(k)
  <2>1. /\ Changes(k) /\ SameBranches(k)
        /\ UNCHANGED <<db, docs, active, phase, parent, unlinks, adds, announced>>
    BY <1>5, FailedFacts
  <2> QED BY <1>4, <2>1, DeletionApart
<1>6. ASSUME NEW c \in Cleared, Destroy(k, c) PROVE KInv(A)'
  <2>1. /\ Changes(k) /\ SameBranches(k)
        /\ \/ db' = IF c = "nodes" THEN NodeTaken(k) ELSE db
           \/ db' = db
        /\ UNCHANGED <<active, phase, parent, unlinks, adds, announced>>
    BY <1>6, DestroyFacts
  <2>2. NodeOf(k) \notin A
    BY <1>0 DEF CallApart
  <2>3. /\ \A n \in DOMAIN db' : n \in DOMAIN db /\ db'[n] = db[n]
        /\ DOMAIN db \cap A \subseteq DOMAIN db'
    BY <2>1, <2>2 DEF NodeTaken
  <2> QED BY <1>4, <2>1, <2>3, DeletionApart
<1>7. CASE Publish(k)
  <2>1. /\ Changes(k) /\ SameBranches(k)
        /\ UNCHANGED <<db, docs, active, phase, parent, unlinks, adds>>
    BY <1>7, PublishFacts
  <2> QED BY <1>4, <2>1, DeletionApart
<1> QED BY <1>1, <1>2, <1>3, <1>5, <1>6, <1>7 DEF RemoveNode

\* No step of removeRelation reaches a node of A.
LEMMA UnlinkApart ==
    ASSUME TInv, NEW A, Separate(A), KInv(A), NEW u \in unlinks, NEW new, Writes(u.node, new),
           u.node \in DOMAIN db => References(new) \subseteq References(db[u.node]),
           \A v \in unlinks' : v \in unlinks \/ v.node = u.node,
           UNCHANGED <<phase, parent, removals, adds>>
    PROVE  KInv(A)'
<1>1. u.node \notin A
  BY DEF KInv
<1>2. \A n \in DOMAIN db \cap A : n \in DOMAIN db' /\ db'[n] = db[n]
  BY <1>1 DEF Writes
<1>3. StoreApart(A)'
  <2>1. ASSUME NEW n \in DOMAIN db' \ A PROVE References(db'[n]) \cap A = {}
    <3>1. n \in DOMAIN db /\ References(db[n]) \cap A = {}
      BY DEF Writes, KInv, StoreApart
    <3>2. References(db'[n]) \subseteq References(db[n])
      <4>1. CASE n = u.node
        BY <3>1, <4>1 DEF Writes
      <4>2. CASE n # u.node
        BY <3>1, <4>2 DEF Writes
      <4> QED BY <4>1, <4>2
    <3> QED BY <3>1, <3>2
  <2> QED BY <2>1 DEF StoreApart
<1>4. \A c \in DOMAIN removals' : CallApart(c, A)'
  BY DEF KInv, CallApart
<1>5. \A v \in unlinks' : v.node \notin A
  BY <1>1 DEF KInv
<1>6. /\ \A a \in adds' : AddOfLink(a)'
      /\ \A r \in Request : LinkHolds(r)'
  BY <1>2, LinksUntouched
<1> QED BY <1>3, <1>4, <1>5, <1>6 DEF KInv

\* What the last step of a call must have done, and what any other must go on with.
Finishes(a, new) ==
    /\ adds' = adds \ {a}
    /\ \/ Reject(a.by.req)
       \/ phase' = phase /\ ToSet(Op[a.by.req].body[a.type]) \subseteq Listed(new, a.type)
GoesOn(a, b) ==
    /\ NextAdd(a, b) /\ InPlace(b)' /\ phase' = phase
    /\ b.stage = "replace" => a.type = "enclosedBy"

\* The step in between takes a target out of the enclosure.
Replaces(a, t) == a.stage = "replace" /\ t = "enclosedBy" /\ \E b : GoesOn(a, b)

\* A step of addRelation.
LEMMA AddKeepsLinks ==
    ASSUME TInv, TInv', NEW A, Separate(A), KInv(A), NEW a \in adds, NEW new, Writes(a.node, new),
           SamePlaces(db[a.node], new),
           Finishes(a, new) \/ \E b : GoesOn(a, b),
           \A t : Lists(db[a.node], new, t) \/ Replaces(a, t),
           UNCHANGED <<parent, removals, unlinks>>
    PROVE  KInv(A)'
<1> DEFINE r == a.by.req
           n == a.node
<1>1. /\ AddOfLink(a) /\ r \in Request /\ Op[r].kind = "link" /\ a.by = Edit(r) /\ n = Op[r].node
      /\ n \in DOMAIN db /\ n \in A /\ a.type \in Known(r) /\ phase[r] \in {"running", "error"}
  BY DEF KInv, AddOfLink, TInv, AddCall, CallId, Separate
<1>2. phase' = phase \/ (phase[r] = "running" /\ phase' = [phase EXCEPT ![r] = "error"])
  BY <1>1, RejectStep DEF Finishes, GoesOn
<1>3. /\ phase = [q \in Request |-> phase[q]]
      /\ \A q \in Request : phase'[q] = phase[q] \/ (q = r /\ phase'[q] = "error")
  BY <1>1, <1>2 DEF TInv, RequestsTyped
<1>4. db'[n] = new /\ DOMAIN db' = DOMAIN db /\ \A m \in DOMAIN db \ {n} : db'[m] = db[m]
  BY <1>1 DEF Writes
<1>5. StoreApart(A)'
  BY <1>1, <1>4 DEF KInv, StoreApart
<1>6. /\ \A c \in DOMAIN removals' : CallApart(c, A)'
      /\ \A u \in unlinks' : u.node \notin A
  BY DEF KInv, CallApart
<1>7. ASSUME NEW q \in Request, Op[q].kind = "link", Op[q].node \in DOMAIN db
      PROVE  SamePlaces(db[Op[q].node], db'[Op[q].node])
  <2>1. CASE Op[q].node = n
    BY <1>4, <2>1
  <2>2. CASE Op[q].node # n
    BY <1>4, <1>7, <2>2 DEF SamePlaces
  <2> QED BY <2>1, <2>2
\* the calls that are left
<1>8. ASSUME NEW b \in adds PROVE AddOfLink(b)'
  <2>1. AddOfLink(b) /\ b.by.req \in Request
    BY DEF KInv, TInv, AddCall, CallId
  <2>2. /\ InPlace(b) /\ b.node = Op[b.by.req].node /\ b.node \in DOMAIN db
        /\ Op[b.by.req].kind = "link"
    BY <2>1 DEF AddOfLink
  <2>3. InPlace(b)'
    BY <1>7, <2>1, <2>2, InPlaceKept
  <2>4. phase'[b.by.req] \in {"running", "error"}
    BY <1>3, <2>1 DEF AddOfLink
  <2> QED BY <1>4, <2>1, <2>3, <2>4 DEF AddOfLink
<1>9. ASSUME NEW b, GoesOn(a, b) PROVE AddOfLink(b)'
  <2>1. /\ b.by = a.by /\ b.node = n /\ b.type = a.type /\ b.targets = a.targets
        /\ InPlace(b)' /\ (b.stage = "replace" => a.type = "enclosedBy")
    BY <1>9 DEF GoesOn, NextAdd
  <2>2. AddOfLink(a)'
    BY <1>8
  <2> QED BY <2>1, <2>2 DEF AddOfLink
<1>10. \A b \in adds' : AddOfLink(b)'
  BY <1>8, <1>9 DEF Finishes, GoesOn, NextAdd
\* the links that are made
<1>11. ASSUME NEW q \in Request, Op[q].kind = "link", NEW t \in Known(q), Linked(q, t),
              ~(Op[q].node = n /\ Replaces(a, t))
       PROVE  Linked(q, t)'
  <2>1. CASE Op[q].node = n
    <3>1. Lists(db[n], new, t)
      BY <1>11, <2>1
    <3> QED BY <1>4, <1>11, <2>1, <3>1 DEF Linked, Lists
  <2>2. CASE Op[q].node # n
    BY <1>4, <1>11, <2>2 DEF Linked
  <2> QED BY <2>1, <2>2
\* only one request replaces the enclosure of the node
<1>12. ASSUME NEW q \in Request, Op[q].kind = "link", "enclosedBy" \in Known(q),
              Op[q].node = n, a.stage = "replace"
       PROVE  q = r
  <2>1. a.type = "enclosedBy"
    BY <1>1, <1>12 DEF AddOfLink
  <2> QED BY <1>1, <1>12, <2>1 DEF Separate
<1>13. ASSUME NEW q \in Request, NEW t, Waits(q, t), phase'[q] = "running"
       PROVE  Waits(q, t)' \/ Linked(q, t)'
  <2>1. PICK b \in adds : b.by = Edit(q) /\ b.type = t
    BY <1>13 DEF Waits
  <2>2. CASE b # a
    <3>1. b \in adds'
      BY <2>2 DEF Finishes, GoesOn, NextAdd
    <3> QED BY <2>1, <3>1 DEF Waits
  <2>3. CASE b = a
    <3>1. q = r /\ t = a.type
      BY <1>1, <2>1, <2>3 DEF Edit
    <3>2. CASE Finishes(a, new)
      <4>1. ToSet(Op[r].body[a.type]) \subseteq Listed(new, a.type)
        <5>1. ~Reject(r)
          BY <1>3, <1>13, <3>1 DEF Reject
        <5> QED BY <3>2, <5>1 DEF Finishes
      <4> QED BY <1>1, <1>4, <3>1, <4>1 DEF Linked
    <3>3. CASE \E c : GoesOn(a, c)
      <4>1. PICK c : c \in adds' /\ c.by = a.by /\ c.type = a.type
        BY <3>3 DEF GoesOn, NextAdd
      <4> QED BY <1>1, <3>1, <4>1 DEF Waits
    <3> QED BY <3>2, <3>3
  <2> QED BY <2>2, <2>3
<1>14. ASSUME NEW q \in Request, Op[q].kind = "link" PROVE LinkHolds(q)'
  <2>1. LinkHolds(q)
    BY DEF KInv
  <2>2. phase'[q] = "targets" =>
            Op[q].node \in DOMAIN db' /\ SamePlaces(parent'[q], db'[Op[q].node])
    <3> SUFFICES ASSUME phase'[q] = "targets"
                 PROVE  Op[q].node \in DOMAIN db' /\ SamePlaces(parent[q], db'[Op[q].node])
      OBVIOUS
    <3>1. phase[q] = "targets"
      BY <1>3
    <3>2. Op[q].node \in DOMAIN db /\ SamePlaces(parent[q], db[Op[q].node])
      BY <1>14, <2>1, <3>1 DEF LinkHolds
    <3> QED BY <1>4, <1>7, <1>14, <3>2, PlacesTransitive
  <2>3. ASSUME phase'[q] = "running", NEW t \in Known(q) PROVE Waits(q, t)' \/ Linked(q, t)'
    <3>1. phase[q] = "running"
      BY <1>3, <2>3
    <3>2. CASE Waits(q, t)
      BY <1>13, <2>3, <3>2
    <3>3. CASE Linked(q, t) /\ ~(Op[q].node = n /\ Replaces(a, t))
      BY <1>11, <1>14, <3>3
    <3>4. CASE Op[q].node = n /\ Replaces(a, t)
      <4>1. q = r
        BY <1>12, <1>14, <2>3, <3>4 DEF Replaces
      <4>2. a.type = t
        BY <1>1, <3>4 DEF AddOfLink, Replaces
      <4>3. PICK c : c \in adds' /\ c.by = a.by /\ c.type = a.type
        BY <3>4 DEF GoesOn, NextAdd, Replaces
      <4> QED BY <1>1, <4>1, <4>2, <4>3 DEF Waits
    <3> QED BY <1>14, <2>1, <2>3, <3>1, <3>2, <3>3, <3>4 DEF LinkHolds
  <2>4. ASSUME phase'[q] = "ok", NEW t \in Known(q) PROVE Linked(q, t)'
    <3>1. phase[q] = "ok" /\ q # r
      BY <1>1, <1>3, <2>4
    <3>2. Linked(q, t)
      BY <1>14, <2>1, <2>4, <3>1 DEF LinkHolds
    <3> QED BY <1>11, <1>12, <1>14, <2>4, <3>1, <3>2 DEF Replaces
  <2> QED BY <2>2, <2>3, <2>4 DEF LinkHolds
<1>15. \A q \in Request : LinkHolds(q)'
  BY <1>14 DEF LinkHolds
<1> QED BY <1>5, <1>6, <1>10, <1>15 DEF KInv

\* Making sure of an item keeps every link.
LEMMA EnsureLinks ==
    ASSUME TInv, TInv', NEW A, Separate(A), KInv(A), NEW a \in adds, EnsureRelation(a)
    PROVE  KInv(A)'
<1> DEFINE doc == db[a.node]
           new == Ensured(a)
<1>1. /\ Writes(a.node, new) /\ a.stage = "item"
      /\ UNCHANGED <<docs, active, parent, removals, unlinks, announced>>
  BY EnsureStep
<1>2. /\ AddOfLink(a) /\ a.node \in DOMAIN db /\ doc \in Relations /\ a.type \in RelationType
      /\ SamePlaces(a.rels, doc)
  BY <1>1 DEF KInv, AddOfLink, InPlace, TInv, StoreTyped, AddCall
<1>3. new = PushItem(doc, a.type)
  BY DEF Ensured
<1>4. SamePlaces(doc, new) /\ \A t : Lists(doc, new, t)
  BY <1>2, <1>3, ItemLists
<1>5. db'[a.node] = new
  BY <1>1, <1>2 DEF Writes
<1>6. ASSUME NEW b, NextAdd(a, b), b.rels = Modified(a), phase' = phase,
             b.stage = IF a.type = "enclosedBy" THEN "replace" ELSE "push",
             b.index \in DOMAIN b.rels, b.rels[b.index].relationType = a.type
      PROVE  GoesOn(a, b)
  <2>1. b.node = a.node /\ b.type = a.type /\ b.stage # "item"
    BY <1>6 DEF NextAdd
  <2>2. CASE IndexOf(doc, a.type) = 0
    <3>1. b.rels = new
      BY <1>2, <1>6, <2>2 DEF Modified
    <3>2. InPlace(b)'
      BY <1>5, <1>6, <2>1, <3>1 DEF InPlace
    <3> QED BY <1>6, <3>2 DEF GoesOn
  <2>3. CASE IndexOf(doc, a.type) # 0
    <3>1. b.rels = a.rels /\ new = doc
      BY <1>2, <1>3, <1>6, <2>3 DEF Modified, PushItem
    <3>2. b.index \in DOMAIN doc /\ doc[b.index].relationType = a.type
      BY <1>2, <1>6, <3>1 DEF SamePlaces
    <3>3. InPlace(b)'
      BY <1>5, <2>1, <3>1, <3>2 DEF InPlace
    <3> QED BY <1>6, <3>3 DEF GoesOn
  <2> QED BY <2>2, <2>3
<1> HIDE DEF new, doc
<1>7. Finishes(a, new) \/ \E b : GoesOn(a, b)
  BY <1>6, EnsureStep DEF Finishes
<1> QED BY <1>1, <1>4, <1>7, AddKeepsLinks DEF doc

\* Pulling an enclosure keeps every link but the one that is replaced.
LEMMA ReplaceLinks ==
    ASSUME TInv, TInv', NEW A, Separate(A), KInv(A), NEW a \in adds, ReplaceEnclosure(a)
    PROVE  KInv(A)'
<1>1. PICK old : Writes(a.node, PullTargets(db[a.node], a.index, old))
  BY ReplaceStep
<1>2. PICK b : /\ NextAdd(a, b) /\ b.stage = "push" /\ b.rels = a.rels /\ b.index = a.index
  BY ReplaceStep
<1>3. a.stage = "replace" /\ UNCHANGED <<docs, active, phase, parent, removals, unlinks, announced>>
  BY ReplaceStep
<1> DEFINE doc == db[a.node]
           new == PullTargets(doc, a.index, old)
<1>4. /\ AddOfLink(a) /\ a.node \in DOMAIN db /\ doc \in Relations /\ a.type = "enclosedBy"
      /\ a.index \in DOMAIN doc /\ doc[a.index].relationType = a.type
  BY <1>3 DEF KInv, AddOfLink, InPlace, TInv, StoreTyped
<1>5. /\ SamePlaces(doc, new) /\ \A t : t # "enclosedBy" => Lists(doc, new, t)
  BY <1>4, PullLists
<1>6. db'[a.node] = new
  BY <1>1, <1>4 DEF Writes
<1> HIDE DEF new
<1>7. InPlace(b)'
  <2>1. InPlace(a)'
    BY <1>4, <1>5, <1>6, InPlaceKept DEF AddOfLink
  <2> QED BY <1>2, <1>3, <2>1 DEF InPlace, NextAdd
<1>8. GoesOn(a, b)
  BY <1>2, <1>3, <1>7 DEF GoesOn
<1> QED BY <1>1, <1>3, <1>5, <1>8, AddKeepsLinks DEF new, Replaces

\* A push keeps every link, and makes its own.
LEMMA PushLinksKept ==
    ASSUME TInv, TInv', NEW A, Separate(A), KInv(A), NEW a \in adds, PushToRelation(a)
    PROVE  KInv(A)'
<1> DEFINE doc == db[a.node]
           new == PushTargets(doc, a.index, a.targets)
           ids == Op[a.by.req].body[a.type]
<1>1. /\ a.stage = "push" /\ adds' = adds \ {a}
      /\ UNCHANGED <<docs, active, parent, removals, unlinks, announced>>
  BY PushStep
<1>2. /\ AddOfLink(a) /\ a.node \in DOMAIN db /\ doc \in Relations /\ a.targets \in Seq(Target)
      /\ a.index \in DOMAIN doc /\ doc[a.index].relationType = a.type
      /\ a.by.req \in Request
  BY <1>1 DEF KInv, AddOfLink, InPlace, TInv, StoreTyped, AddCall, CallId
<1>3. phase' = phase /\ Writes(a.node, new)
  BY <1>2, PushStep
<1>4. /\ SamePlaces(doc, new) /\ \A t : Lists(doc, new, t)
      /\ ToSet(a.targets) \subseteq TargetsOf(new, a.type)
  BY <1>2, PushLists
<1> HIDE DEF new
<1>5. ToSet(ids) \subseteq Listed(new, a.type)
  <2>1. /\ a.targets = NeedTargetNodes(ids) /\ a.type \in DOMAIN Op[a.by.req].body
        /\ Op[a.by.req].kind = "link"
    BY <1>2 DEF AddOfLink, Known
  <2>2. ids \in Seq(Node)
    BY <1>2, <2>1, OpAssumption
  <2> HIDE DEF ids
  <2> QED BY <1>4, <2>1, <2>2, NeededListed
<1>6. Finishes(a, new)
  BY <1>1, <1>3, <1>5 DEF Finishes
<1> QED BY <1>1, <1>3, <1>4, <1>6, AddKeepsLinks

\* A refused write ends the call of addRelation, and the request with an error.
LEMMA AddFailsLinks ==
    ASSUME TInv, TInv', NEW A, Separate(A), KInv(A), NEW a \in adds, AddFails(a)
    PROVE  KInv(A)'
<1>1. /\ adds' = adds \ {a} /\ Reject(a.by.req)
      /\ UNCHANGED <<db, docs, active, parent, removals, unlinks, announced>>
  BY DEF AddFails
<1>2. Writes(a.node, db[a.node]) /\ SamePlaces(db[a.node], db[a.node])
  BY <1>1 DEF Writes, SamePlaces
<1>3. Finishes(a, db[a.node]) /\ \A t : Lists(db[a.node], db[a.node], t)
  BY <1>1 DEF Finishes, Lists
<1> QED BY <1>1, <1>2, <1>3, AddKeepsLinks

\* A refused write of removeRelation rejects a deletion or an edit, and touches no link.
LEMMA UnlinkFailsApart ==
    ASSUME IInv, TInv, NEW A, KInv(A), NEW u \in unlinks, UnlinkFails(u)
    PROVE  KInv(A)'
<1> DEFINE r == u.by.req
<1>1. unlinks' = unlinks \ {u} /\ UNCHANGED <<db, docs, active, parent, adds, announced>>
  BY UnlinkFailsFacts
<1>2. phase' = phase \/ (phase[r] = "running" /\ phase' = [phase EXCEPT ![r] = "error"])
  BY RejectStep, UnlinkFailsFacts DEF CallFails, TInv, UnlinkCall, CallId
<1>3. \A q \in Request : phase'[q] = phase[q] \/ (phase[q] = "running" /\ phase'[q] = "error")
  BY <1>2 DEF TInv, RequestsTyped
<1> HIDE DEF r
<1>4. StoreApart(A)' /\ \A v \in unlinks' : v.node \notin A
  BY <1>1 DEF KInv, StoreApart
<1>5. \A c \in DOMAIN removals' : CallApart(c, A)'
  <2>1. CASE UNCHANGED removals
    BY <2>1 DEF KInv, CallApart
  <2>2. CASE u.by \in DOMAIN removals /\ CallFails(u.by)
    <3>1. CallApart(u.by, A) /\ Changes(u.by) /\ SameBranches(u.by)
      BY <2>2 DEF KInv, CallFails
    <3>2. CallApart(u.by, A)'
      BY <2>2, <3>1 DEF CallApart, Changes, SameBranches
    <3> QED BY <2>2, <3>1, <3>2, ChangesApart
  <2> QED BY <2>1, <2>2, UnlinkFailsFacts
<1>6. ASSUME NEW a \in adds PROVE AddOfLink(a)'
  <2>1. AddOfLink(a) /\ a.by.req \in Request
    BY DEF KInv, TInv, AddCall, CallId
  <2>2. phase'[a.by.req] \in {"running", "error"}
    BY <1>3, <2>1 DEF AddOfLink
  <2> QED BY <1>1, <2>1, <2>2 DEF AddOfLink, InPlace
<1>7. ASSUME NEW q \in Request PROVE LinkHolds(q)'
  <2>1. LinkHolds(q)
    BY DEF KInv
  <2>2. \A t : (Linked(q, t) => Linked(q, t)') /\ (Waits(q, t) => Waits(q, t)')
    BY <1>1 DEF Linked, Waits
  <2> QED BY <1>1, <1>3, <2>1, <2>2 DEF LinkHolds
<1> QED BY <1>1, <1>4, <1>5, <1>6, <1>7 DEF KInv

\* The handlers of a link wait for every type of its body.
LEMMA HandlersLinks ==
    ASSUME TInv, TInv', NEW A, Separate(A), KInv(A), NEW r \in Request, CallHandlers(r)
    PROVE  KInv(A)'
<1>1. /\ phase[r] = "targets" /\ UNCHANGED <<db, docs, active, parent, removals, announced>>
      /\ phase = [q \in Request |-> phase[q]]
  BY HandlersStep DEF TInv, RequestsTyped
<1>2. PICK s \in {"error", "running"} : phase' = [phase EXCEPT ![r] = s]
  BY HandlersStep
<1>3. /\ phase'[r] = s /\ \A q \in Request : q # r => phase'[q] = phase[q]
  BY <1>1, <1>2
<1>4. StoreApart(A)' /\ \A c \in DOMAIN removals' : CallApart(c, A)'
  BY <1>1 DEF KInv, StoreApart, CallApart
<1>5. Edit(r).req = r
  BY DEF Edit
<1>6. ASSUME NEW a \in adds PROVE AddOfLink(a)' /\ a.by.req # r
  <2>1. AddOfLink(a) /\ a.by.req \in Request /\ phase[a.by.req] \in {"running", "error"}
    BY DEF KInv, AddOfLink, TInv, AddCall, CallId
  <2>2. a.by.req # r /\ phase'[a.by.req] = phase[a.by.req]
    BY <1>1, <1>3, <2>1
  <2> QED BY <1>1, <2>1, <2>2 DEF AddOfLink, InPlace
<1>7. ASSUME NEW q \in Request, q # r, adds \subseteq adds' PROVE LinkHolds(q)'
  <2>1. LinkHolds(q) /\ phase'[q] = phase[q]
    BY <1>3, <1>7 DEF KInv
  <2>2. \A t : (Linked(q, t) => Linked(q, t)') /\ (Waits(q, t) => Waits(q, t)')
    BY <1>1, <1>7 DEF Linked, Waits
  <2> QED BY <1>1, <2>1, <2>2 DEF LinkHolds
<1>8. CASE phase' = [phase EXCEPT ![r] = "error"] /\ UNCHANGED <<unlinks, adds>>
  <2>1. phase'[r] = "error"
    BY <1>1, <1>8
  <2>2. LinkHolds(r)'
    BY <2>1 DEF LinkHolds
  <2> QED BY <1>4, <1>6, <1>7, <1>8, <2>2 DEF KInv
<1>9. CASE /\ phase' = [phase EXCEPT ![r] = "running"] /\ Op[r].kind # "link"
           /\ adds' = adds
           /\ \A u \in unlinks' \ unlinks : u.by = Edit(r) /\ u.node = Op[r].node
  <2>1. LinkHolds(r)'
    BY <1>9 DEF LinkHolds
  <2>2. Op[r].node \notin A
    BY <1>9 DEF Separate
  <2>3. \A u \in unlinks' : u.node \notin A
    BY <1>9, <2>2 DEF KInv
  <2> QED BY <1>4, <1>6, <1>7, <1>9, <2>1, <2>3 DEF KInv
<1>10. CASE /\ phase' = [phase EXCEPT ![r] = "running"] /\ Op[r].kind = "link"
            /\ unlinks' = unlinks
            /\ adds' = adds \cup
                  {[by |-> Edit(r), node |-> Op[r].node, rels |-> parent[r], type |-> t,
                    targets |-> NeedTargetNodes(Op[r].body[t]), index |-> 0, stage |-> "item"] :
                       t \in DOMAIN Op[r].body \cap RelationType}
  <2> DEFINE call(t) ==
                [by |-> Edit(r), node |-> Op[r].node, rels |-> parent[r], type |-> t,
                 targets |-> NeedTargetNodes(Op[r].body[t]), index |-> 0, stage |-> "item"]
  <2>1. adds' = adds \cup {call(t) : t \in Known(r)}
    BY <1>10 DEF Known
  <2>2. ASSUME NEW t \in Known(r)
        PROVE  /\ call(t).by = Edit(r) /\ call(t).node = Op[r].node /\ call(t).rels = parent[r]
               /\ call(t).type = t /\ call(t).targets = NeedTargetNodes(Op[r].body[t])
               /\ call(t).stage = "item"
    OBVIOUS
  <2> HIDE DEF call
  <2>3. phase'[r] = "running" /\ Op[r].node \in DOMAIN db /\ SamePlaces(parent[r], db[Op[r].node])
    BY <1>1, <1>10 DEF KInv, LinkHolds
  <2>4. ASSUME NEW b \in {call(t) : t \in Known(r)} PROVE AddOfLink(b)'
    <3>1. /\ b.by = Edit(r) /\ b.node = Op[r].node /\ b.rels = parent[r] /\ b.stage = "item"
          /\ b.type \in Known(r) /\ b.targets = NeedTargetNodes(Op[r].body[b.type])
      BY <2>2
    <3>2. InPlace(b)'
      BY <1>1, <2>3, <3>1 DEF InPlace
    <3> QED BY <1>1, <1>5, <1>10, <2>3, <3>1, <3>2 DEF AddOfLink
  <2>5. \A a \in adds' : AddOfLink(a)'
    BY <1>6, <2>1, <2>4
  <2>6. \A t \in Known(r) : Waits(r, t)'
    BY <2>1, <2>2 DEF Waits
  <2>7. LinkHolds(r)'
    BY <2>3, <2>6 DEF LinkHolds
  <2>8. \A q \in Request : LinkHolds(q)'
    BY <1>7, <2>1, <2>7
  <2> QED BY <1>4, <1>10, <2>5, <2>8 DEF KInv
<1> QED BY <1>8, <1>9, <1>10, HandlersStep

\* A link that is acknowledged has been made for every type of its body.
LEMMA AnswerLinks ==
    ASSUME TInv, NEW A, Separate(A), KInv(A), NEW r \in Request, Answer(r)
    PROVE  KInv(A)'
<1>1. /\ phase[r] = "running"
      /\ UNCHANGED <<db, docs, active, parent, removals, unlinks, adds, announced>>
      /\ phase = [q \in Request |-> phase[q]]
  BY AnswerStep DEF TInv, RequestsTyped
<1>2. PICK s \in {"error", "ok"} :
        /\ phase' = [phase EXCEPT ![r] = s]
        /\ s = "error" => Op[r].kind = "delete"
        /\ s = "ok" /\ Op[r].kind # "delete" => ~\E c \in unlinks \cup adds : c.by = Edit(r)
  BY AnswerStep
<1>3. /\ phase'[r] = s /\ \A q \in Request : q # r => phase'[q] = phase[q]
  BY <1>1, <1>2
<1>4. /\ StoreApart(A)' /\ \A c \in DOMAIN removals' : CallApart(c, A)'
      /\ \A u \in unlinks' : u.node \notin A
  BY <1>1 DEF KInv, StoreApart, CallApart
<1>5. ASSUME NEW a \in adds PROVE AddOfLink(a)'
  <2>1. AddOfLink(a) /\ a.by.req \in Request
    BY DEF KInv, TInv, AddCall, CallId
  <2>2. a.by.req # r
    BY <1>2, <2>1 DEF AddOfLink
  <2> QED BY <1>1, <1>3, <2>1, <2>2 DEF AddOfLink, InPlace
<1>6. ASSUME NEW q \in Request PROVE LinkHolds(q)'
  <2>1. LinkHolds(q)
    BY DEF KInv
  <2>2. \A t : (Linked(q, t) => Linked(q, t)') /\ (Waits(q, t) => Waits(q, t)')
    BY <1>1 DEF Linked, Waits
  <2>3. CASE q # r
    BY <1>1, <1>3, <2>1, <2>2, <2>3 DEF LinkHolds
  <2>4. CASE q = r
    <3>1. SUFFICES ASSUME Op[r].kind = "link" PROVE LinkHolds(r)'
      BY <2>4 DEF LinkHolds
    <3>2. \A t : ~Waits(r, t)
      BY <1>2, <3>1 DEF Waits
    <3>3. \A t \in Known(r) : Linked(r, t)'
      BY <1>1, <2>1, <2>2, <2>4, <3>1, <3>2 DEF LinkHolds
    <3>4. phase'[r] \in {"error", "ok"}
      BY <1>3
    <3> QED BY <3>3, <3>4 DEF LinkHolds
  <2> QED BY <2>3, <2>4
<1> QED BY <1>1, <1>4, <1>5, <1>6 DEF KInv

\* A request that begins touches no link.
LEMMA ReceiveLinks ==
    ASSUME IInv, TInv, NEW A, Separate(A), KInv(A), NEW r \in Request, Receive(r)
    PROVE  KInv(A)'
<1> DEFINE n == Op[r].node
<1>1. /\ phase[r] = "idle" /\ UNCHANGED <<db, docs, active, unlinks, adds, announced>>
      /\ phase = [q \in Request |-> phase[q]] /\ parent = [q \in Request |-> parent[q]]
  BY ReceiveFacts DEF TInv, RequestsTyped
<1>2. StoreApart(A)' /\ \A u \in unlinks' : u.node \notin A
  BY <1>1 DEF KInv, StoreApart
<1>3. ASSUME NEW s, phase' = [phase EXCEPT ![r] = s],
             \A q \in Request : q # r => parent'[q] = parent[q]
      PROVE  /\ phase'[r] = s
             /\ \A a \in adds' : AddOfLink(a)'
             /\ \A q \in Request : q # r => LinkHolds(q)'
  <2>1. phase'[r] = s /\ \A q \in Request : q # r => phase'[q] = phase[q]
    BY <1>1, <1>3
  <2>2. ASSUME NEW a \in adds PROVE AddOfLink(a)'
    <3>1. AddOfLink(a) /\ a.by.req \in Request
      BY DEF KInv, TInv, AddCall, CallId
    <3>2. a.by.req # r
      BY <1>1, <3>1 DEF AddOfLink
    <3> QED BY <1>1, <2>1, <3>1, <3>2 DEF AddOfLink, InPlace
  <2>3. ASSUME NEW q \in Request, q # r PROVE LinkHolds(q)'
    <3>1. LinkHolds(q) /\ phase'[q] = phase[q] /\ parent'[q] = parent[q]
      BY <1>3, <2>1, <2>3 DEF KInv
    <3>2. \A t : (Linked(q, t) => Linked(q, t)') /\ (Waits(q, t) => Waits(q, t)')
      BY <1>1 DEF Linked, Waits
    <3> QED BY <1>1, <3>1, <3>2 DEF LinkHolds
  <2> QED BY <1>1, <2>1, <2>2, <2>3
<1>4. CASE /\ removals' = removals /\ parent' = parent
           /\ phase' = [phase EXCEPT ![r] = "error"]
  <2>1. /\ phase'[r] = "error"
        /\ \A a \in adds' : AddOfLink(a)'
        /\ \A q \in Request : q # r => LinkHolds(q)'
    BY <1>3, <1>4
  <2>2. LinkHolds(r)'
    BY <2>1 DEF LinkHolds
  <2>3. \A c \in DOMAIN removals' : CallApart(c, A)'
    BY <1>4 DEF KInv, CallApart
  <2> QED BY <1>2, <2>1, <2>2, <2>3 DEF KInv
<1>5. CASE /\ removals' = removals /\ n \in DOMAIN db /\ Op[r].kind # "delete"
           /\ phase' = [phase EXCEPT ![r] = "targets"]
           /\ parent' = [parent EXCEPT ![r] = db[n]]
  <2>0. parent'[r] = db[n] /\ \A q \in Request : q # r => parent'[q] = parent[q]
    BY <1>1, <1>5
  <2>1. /\ phase'[r] = "targets"
        /\ \A a \in adds' : AddOfLink(a)'
        /\ \A q \in Request : q # r => LinkHolds(q)'
    BY <1>3, <1>5, <2>0
  <2>2. LinkHolds(r)'
    BY <1>1, <1>5, <2>0, <2>1 DEF LinkHolds, SamePlaces
  <2>3. \A c \in DOMAIN removals' : CallApart(c, A)'
    BY <1>5 DEF KInv, CallApart
  <2> QED BY <1>2, <2>1, <2>2, <2>3 DEF KInv
<1>6. CASE /\ n \in DOMAIN db /\ Op[r].kind = "delete" /\ parent' = parent
           /\ phase' = [phase EXCEPT ![r] = "running"]
           /\ NodeOf(Root(r)) = n
           /\ DOMAIN removals' = DOMAIN removals \cup {Root(r)}
           /\ removals'[Root(r)] = NewRemoval(db[n], "none")
           /\ \A k \in DOMAIN removals : removals'[k] = removals[k]
  <2>1. /\ \A a \in adds' : AddOfLink(a)'
        /\ \A q \in Request : q # r => LinkHolds(q)'
    BY <1>3, <1>6
  <2>2. LinkHolds(r)'
    BY <1>6 DEF LinkHolds
  <2>3. n \notin A /\ References(db[n]) \cap A = {}
    BY <1>6 DEF Separate, KInv, StoreApart
  <2>4. CallApart(Root(r), A)'
    <3>1. removals'[Root(r)].rels = db[n] /\ DOMAIN removals'[Root(r)].branch = {}
      BY <1>6 DEF NewRemoval
    <3> QED BY <1>6, <2>3, <3>1 DEF CallApart
  <2>5. ASSUME NEW k \in DOMAIN removals PROVE CallApart(k, A)'
    <3>1. CallApart(k, A) /\ removals'[k] = removals[k]
      BY <1>6 DEF KInv
    <3> QED BY <3>1 DEF CallApart
  <2>6. \A k \in DOMAIN removals' : CallApart(k, A)'
    BY <1>6, <2>4, <2>5
  <2> QED BY <1>2, <2>1, <2>2, <2>6 DEF KInv
<1> QED BY <1>4, <1>5, <1>6, ReceiveFacts

\* Every step keeps the links of A.
LEMMA NextKInv ==
    ASSUME NEW A, Separate(A)
    PROVE  IInv /\ TInv /\ KInv(A) /\ [Next]_vars => KInv(A)'
<1> SUFFICES ASSUME IInv, TInv, KInv(A), [Next]_vars PROVE KInv(A)'
  OBVIOUS
<1>0. TInv'
  BY NextTInv
<1>1. ASSUME UNCHANGED <<db, phase, parent, removals, unlinks, adds>> PROVE KInv(A)'
  <2>1. \A c \in DOMAIN removals' : CallApart(c, A)'
    BY <1>1 DEF KInv, CallApart
  <2> QED BY <1>1, <2>1, DeletionApart
<1>2. ASSUME NEW k \in DOMAIN removals, RemoveNode(k) PROVE KInv(A)'
  BY <1>2, RemoveNodeApart
<1>3. ASSUME NEW u \in unlinks, PullFromRelation(u) PROVE KInv(A)'
  <2>1. /\ Writes(u.node, PullTargets(db[u.node], u.index, u.targets))
        /\ \A v \in unlinks' : v \in unlinks \/ v.node = u.node
        /\ UNCHANGED <<phase, parent, removals, adds>>
    BY <1>3, PullStep
  <2>2. u.node \in DOMAIN db =>
            References(PullTargets(db[u.node], u.index, u.targets)) \subseteq References(db[u.node])
    BY PullLists DEF TInv, StoreTyped
  <2> QED BY <2>1, <2>2, UnlinkApart
<1>4. ASSUME NEW u \in unlinks, DropBlankRelation(u) PROVE KInv(A)'
  <2>1. /\ Writes(u.node, PullBlank(db[u.node], u.type))
        /\ \A v \in unlinks' : v \in unlinks \/ v.node = u.node
        /\ UNCHANGED <<phase, parent, removals, adds>>
    BY <1>4, DropStep
  <2>2. u.node \in DOMAIN db => References(PullBlank(db[u.node], u.type)) \subseteq References(db[u.node])
    BY BlankLists DEF TInv, StoreTyped
  <2> QED BY <2>1, <2>2, UnlinkApart
<1>5. ASSUME NEW a \in adds,
             EnsureRelation(a) \/ ReplaceEnclosure(a) \/ PushToRelation(a) \/ AddFails(a)
      PROVE  KInv(A)'
  BY <1>0, <1>5, EnsureLinks, ReplaceLinks, PushLinksKept, AddFailsLinks
<1>6. ASSUME NEW r \in Request, CallHandlers(r) \/ Answer(r) \/ Receive(r) PROVE KInv(A)'
  BY <1>0, <1>6, HandlersLinks, AnswerLinks, ReceiveLinks
<1>7. ASSUME NEW n \in Node, StartWorkflow(n) \/ FinishWorkflow(n) PROVE KInv(A)'
  <2>1. UNCHANGED <<db, phase, parent, removals, unlinks, adds>>
    BY <1>7 DEF StartWorkflow, FinishWorkflow
  <2> QED BY <1>1, <2>1
<1>8. CASE UNCHANGED vars
  BY <1>1, <1>8 DEF vars
<1>9. ASSUME NEW u \in unlinks, UnlinkFails(u) PROVE KInv(A)'
  BY <1>9, UnlinkFailsApart
<1> QED BY <1>2, <1>3, <1>4, <1>5, <1>6, <1>7, <1>8, <1>9 DEF Next, Serve

\* Nothing has been asked at the start.
LEMMA InitKInv ==
    ASSUME NEW A, Separate(A)
    PROVE  Init => KInv(A)
<1> SUFFICES ASSUME Init PROVE KInv(A)
  OBVIOUS
<1>1. /\ db \in InitialDb /\ DOMAIN removals = {} /\ unlinks = {} /\ adds = {}
      /\ \A r \in Request : phase[r] = "idle"
  BY DEF Init
<1>2. StoreApart(A)
  BY <1>1 DEF Separate, StoreApart
<1>3. \A r \in Request : LinkHolds(r)
  BY <1>1 DEF LinkHolds
<1> QED BY <1>1, <1>2, <1>3 DEF KInv

\* A link the service has acknowledged is still there whatever other PUTs are in
\* flight on the same node, whatever deletions and unlinks run on other nodes, and
\* whatever fails: positions found in an old copy of the document stay good.
THEOREM AckedLinksAlwaysKept ==
    ASSUME NEW A, Separate(A)
    PROVE  Spec => []AckedLinksKept
<1>1. Init => IInv /\ TInv /\ KInv(A)
  BY InitIInv, InitTInv, InitKInv
<1>2. IInv /\ TInv /\ KInv(A) /\ [Next]_vars => (IInv /\ TInv /\ KInv(A))'
  BY NextIInv, NextTInv, NextKInv
<1>3. KInv(A) => AckedLinksKept
  BY DEF KInv, LinkHolds, Linked, Known, AckedLinksKept
<1> QED BY <1>1, <1>2, <1>3, PTL DEF Spec

-----------------------------------------------------------------------------
(* Links stored as documents                                               *)

\* The nodes a document lists under a type as documents: by a PUT of the service.
LinkedIn(doc, t) == {n \in Node : AsDocument(n) \in TargetsOf(doc, t)}

Retains(old, new) == \A t : LinkedIn(old, t) \subseteq LinkedIn(new, t)

\* What a link has stored no step takes back, but for the replacement of an enclosure:
\* no removal of the link, and no deletion of the node at its other end.
LinksAreStuck ==
    [][\A n \in DOMAIN db \cap DOMAIN db' :
          \/ Retains(db[n], db'[n])
          \/ \E a \in adds : a.node = n /\ ReplaceEnclosure(a)]_vars

\* Every item that lists a document has a counterpart that lists it too.
LEMMA RetainsItems ==
    ASSUME NEW old, NEW new,
           \A j \in DOMAIN old, n \in Node : AsDocument(n) \in ToSet(old[j].targets) =>
               \E i \in DOMAIN new : /\ new[i].relationType = old[j].relationType
                                     /\ AsDocument(n) \in ToSet(new[i].targets)
    PROVE  Retains(old, new)
<1> SUFFICES ASSUME NEW t, NEW n \in Node, AsDocument(n) \in TargetsOf(old, t)
             PROVE  AsDocument(n) \in TargetsOf(new, t)
  BY DEF Retains, LinkedIn
<1>1. PICK j \in DOMAIN old : old[j].relationType = t /\ AsDocument(n) \in ToSet(old[j].targets)
  BY DEF TargetsOf
<1>2. PICK i \in DOMAIN new : /\ new[i].relationType = old[j].relationType
                              /\ AsDocument(n) \in ToSet(new[i].targets)
  BY <1>1
<1> QED BY <1>1, <1>2 DEF TargetsOf

\* A pull of ids matches no document.
LEMMA PullRetains ==
    ASSUME \A n \in Node : AsDocument(n) \notin Node,
           NEW rels \in Relations, NEW i, NEW ids \in SUBSET Node
    PROVE  Retains(rels, PullTargets(rels, i, ids))
<1> DEFINE new == PullTargets(rels, i, ids)
<1>1. /\ DOMAIN new = DOMAIN rels
      /\ \A j \in DOMAIN rels : new[j].relationType = rels[j].relationType
      /\ \A j \in DOMAIN rels \ {i} : new[j] = rels[j]
      /\ i \in DOMAIN rels => ToSet(new[i].targets) = ToSet(rels[i].targets) \ ids
  BY PullTargetsFacts
<1> HIDE DEF new
<1>2. ASSUME NEW j \in DOMAIN rels, NEW n \in Node, AsDocument(n) \in ToSet(rels[j].targets)
      PROVE  AsDocument(n) \in ToSet(new[j].targets)
  <2>1. CASE j = i
    BY <1>1, <1>2, <2>1
  <2>2. CASE j # i
    BY <1>1, <1>2, <2>2
  <2> QED BY <2>1, <2>2
<1> QED BY <1>1, <1>2, RetainsItems DEF new

\* An item that lists a document is not blank.
LEMMA BlankRetains ==
    ASSUME NEW rels \in Relations, NEW t
    PROVE  Retains(rels, PullBlank(rels, t))
<1> DEFINE new == PullBlank(rels, t)
<1>1. Keeps(new, rels, {Blank(t)})
  BY WithoutKeeps DEF PullBlank, Relations
<1> HIDE DEF new
<1>2. PICK p \in [DOMAIN new -> DOMAIN rels] :
        /\ \A i \in DOMAIN p : new[i] = rels[p[i]]
        /\ \A j \in DOMAIN rels : rels[j] \notin {Blank(t)} => \E i \in DOMAIN p : p[i] = j
  BY <1>1 DEF Keeps
<1>3. ASSUME NEW j \in DOMAIN rels, NEW n \in Node, AsDocument(n) \in ToSet(rels[j].targets)
      PROVE  \E i \in DOMAIN new : new[i] = rels[j]
  <2>1. rels[j] # Blank(t)
    BY <1>3 DEF Blank, ToSet
  <2> QED BY <1>2, <2>1
<1> QED BY <1>3, RetainsItems DEF new

\* A new item, or a push, takes nothing away.
LEMMA AddRetains ==
    ASSUME NEW rels \in Relations
    PROVE  /\ \A t \in RelationType : Retains(rels, PushItem(rels, t))
           /\ \A i \in DOMAIN rels : \A more \in Seq(Target) : Retains(rels, PushTargets(rels, i, more))
<1>1. ASSUME NEW t \in RelationType PROVE Retains(rels, PushItem(rels, t))
  BY PushItemFacts, RetainsItems
<1>2. ASSUME NEW i \in DOMAIN rels, NEW more \in Seq(Target)
      PROVE  Retains(rels, PushTargets(rels, i, more))
  <2> DEFINE new == PushTargets(rels, i, more)
  <2>1. /\ DOMAIN new = DOMAIN rels
        /\ \A j \in DOMAIN rels : new[j].relationType = rels[j].relationType
        /\ ToSet(new[i].targets) = ToSet(rels[i].targets) \cup ToSet(more)
        /\ \A j \in DOMAIN rels \ {i} : new[j] = rels[j]
    BY PushTargetsFacts
  <2> HIDE DEF new
  <2>2. ASSUME NEW j \in DOMAIN rels, NEW n \in Node, AsDocument(n) \in ToSet(rels[j].targets)
        PROVE  AsDocument(n) \in ToSet(new[j].targets)
    <3>1. CASE j = i
      BY <2>1, <2>2, <3>1
    <3>2. CASE j # i
      BY <2>1, <2>2, <3>2
    <3> QED BY <3>1, <3>2
  <2> QED BY <2>1, <2>2, RetainsItems DEF new
<1> QED BY <1>1, <1>2

\* A handler that writes one document and retains what is linked in it.
LEMMA WritesRetain ==
    ASSUME NEW m, NEW new, Writes(m, new), m \in DOMAIN db => Retains(db[m], new)
    PROVE  \A n \in DOMAIN db \cap DOMAIN db' : Retains(db[n], db'[n])
<1> SUFFICES ASSUME NEW n \in DOMAIN db \cap DOMAIN db' PROVE Retains(db[n], db'[n])
  OBVIOUS
<1>1. CASE n = m
  BY <1>1 DEF Writes
<1>2. CASE n # m
  BY <1>2 DEF Writes, Retains
<1> QED BY <1>1, <1>2

\* Why a removal of a link does nothing, for all requests, interleavings and failures:
\* removeRelation and removeNode pull ids, and addRelation has stored a document.
THEOREM LinksAreAlwaysStuck ==
    ASSUME \A n \in Node : AsDocument(n) \notin Node
    PROVE  Spec => LinksAreStuck
<1> DEFINE Kept == \A n \in DOMAIN db \cap DOMAIN db' :
                      \/ Retains(db[n], db'[n])
                      \/ \E a \in adds : a.node = n /\ ReplaceEnclosure(a)
<1>1. IInv /\ TInv /\ [Next]_vars => [Kept]_vars
  <2> SUFFICES ASSUME IInv, TInv, Next PROVE Kept
    OBVIOUS
  <2>1. ASSUME \A n \in DOMAIN db' : n \in DOMAIN db => db'[n] = db[n] PROVE Kept
    BY <2>1 DEF Retains
  <2>2. ASSUME NEW k \in DOMAIN removals, RemoveNode(k)
        PROVE  \A n \in DOMAIN db' : n \in DOMAIN db => db'[n] = db[n]
    <3>1. CASE CheckActive(k) \/ ComponentFailed(k) \/ Publish(k)
      BY <3>1, CheckFacts, FailedFacts, PublishFacts
    <3>2. CASE \E t \in RelationType : FindTargets(k, t) \/ ValidateTargets(k, t)
      BY <3>2, FindFacts, ValidateFacts
    <3>3. CASE \E c \in Cleared : Destroy(k, c)
      <4>1. db' = NodeTaken(k) \/ db' = db
        BY <3>3, DestroyFacts
      <4> QED BY <4>1 DEF NodeTaken
    <3> QED BY <2>2, <3>1, <3>2, <3>3 DEF RemoveNode
  <2>3. ASSUME NEW u \in unlinks, PullFromRelation(u) PROVE Kept
    <3>1. Writes(u.node, PullTargets(db[u.node], u.index, u.targets)) /\ u.targets \in SUBSET Node
      BY <2>3, PullStep DEF TInv, UnlinkCall
    <3>2. u.node \in DOMAIN db => Retains(db[u.node], PullTargets(db[u.node], u.index, u.targets))
      BY <3>1, PullRetains DEF TInv, StoreTyped
    <3> QED BY <3>1, <3>2, WritesRetain
  <2>4. ASSUME NEW u \in unlinks, DropBlankRelation(u) PROVE Kept
    <3>1. Writes(u.node, PullBlank(db[u.node], u.type))
      BY <2>4, DropStep
    <3>2. u.node \in DOMAIN db => Retains(db[u.node], PullBlank(db[u.node], u.type))
      BY BlankRetains DEF TInv, StoreTyped
    <3> QED BY <3>1, <3>2, WritesRetain
  <2>5. ASSUME NEW a \in adds, EnsureRelation(a) PROVE Kept
    <3>1. Writes(a.node, PushItem(db[a.node], a.type)) /\ a.type \in RelationType
      BY <2>5, EnsureStep DEF Ensured, TInv, AddCall
    <3>2. a.node \in DOMAIN db => Retains(db[a.node], PushItem(db[a.node], a.type))
      BY <3>1, AddRetains DEF TInv, StoreTyped
    <3> QED BY <3>1, <3>2, WritesRetain
  <2>6. ASSUME NEW a \in adds, ReplaceEnclosure(a) PROVE Kept
    <3>1. \E old : Writes(a.node, PullTargets(db[a.node], a.index, old))
      BY <2>6, ReplaceStep
    <3>2. \A n \in DOMAIN db \ {a.node} : db'[n] = db[n]
      BY <3>1 DEF Writes
    <3> QED BY <2>6, <3>2 DEF Retains
  <2>7. ASSUME NEW a \in adds, PushToRelation(a) PROVE Kept
    <3>1. a.targets \in Seq(Target)
      BY DEF TInv, AddCall
    <3>2. CASE /\ a.node \in DOMAIN db /\ a.index \in DOMAIN db[a.node]
               /\ Writes(a.node, PushTargets(db[a.node], a.index, a.targets))
      <4>1. Retains(db[a.node], PushTargets(db[a.node], a.index, a.targets))
        BY <3>1, <3>2, AddRetains DEF TInv, StoreTyped
      <4> QED BY <3>2, <4>1, WritesRetain
    <3>3. CASE db' = db
      BY <2>1, <3>3
    <3> QED BY <2>7, <3>2, <3>3, PushStep
  <2>8. ASSUME NEW r \in Request, CallHandlers(r) \/ Answer(r) \/ Receive(r) PROVE db' = db
    BY <2>8, HandlersStep, AnswerStep, ReceiveFacts
  <2>9. ASSUME NEW n \in Node, StartWorkflow(n) \/ FinishWorkflow(n) PROVE db' = db
    BY <2>9 DEF StartWorkflow, FinishWorkflow
  <2>10. ASSUME NEW u \in unlinks, UnlinkFails(u) PROVE db' = db
    BY <2>10, UnlinkFailsFacts
  <2>11. ASSUME NEW a \in adds, AddFails(a) PROVE db' = db
    BY <2>11 DEF AddFails
  <2> HIDE DEF Kept
  <2> QED BY <2>1, <2>2, <2>3, <2>4, <2>5, <2>6, <2>7, <2>8, <2>9, <2>10, <2>11 DEF Next, Serve
<1>2. Spec => [](IInv /\ TInv)
  BY InvariantTyped
<1> QED BY <1>1, <1>2, PTL DEF Spec, LinksAreStuck

-----------------------------------------------------------------------------
(* References to nodes that are gone                                       *)

\* The ids a document lists under a type.
Ids(doc, t) ==
    {x \in Node : \E i \in DOMAIN doc : doc[i].relationType = t /\ x \in ToSet(doc[i].targets)}

\* One item for each type.
Single(doc) == \A i, j \in DOMAIN doc : doc[i].relationType = doc[j].relationType => i = j

ByIds(doc) == \A i \in DOMAIN doc : ToSet(doc[i].targets) \subseteq Node

\* The document of n names nodes along the links of F only.
Within(F, n, doc) ==
    \A i \in DOMAIN doc : \A x \in Node \cap ToSet(doc[i].targets) :
        <<n, doc[i].relationType, x>> \in F.links

Component == {"encloses", "enclosedBy"}

\* What discovery stores: every link from both sides, nodes enclosed in each other
\* as trees (top and depth), other links between different trees only, and those
\* that lead from one node into one tree all of one type.
Forest(F) ==
    /\ F.links \subseteq Node \X RelationType \X Node
    /\ F.depth \in [Node -> Nat]
    /\ \A n \in Node : AsDocument(n) \notin Node
    /\ \A n, m \in Node : \A t \in RelationType : <<n, t, m>> \in F.links =>
          /\ <<m, NodeRelations[t].mapping, n>> \in F.links
          /\ t = "encloses" => F.top[n] = F.top[m] /\ F.depth[n] < F.depth[m]
          /\ t \notin Component => F.top[n] # F.top[m]
          /\ \A x \in Node : t = "enclosedBy" /\ <<n, t, x>> \in F.links => x = m
          /\ \A x \in Node : \A s \in RelationType \ Component :
                t \notin Component /\ <<n, s, x>> \in F.links /\ F.top[x] = F.top[m] => s = t
    /\ \A d \in InitialDb : \A n \in DOMAIN d :
          /\ Single(d[n]) /\ ByIds(d[n]) /\ Contained(d[n]) /\ Within(F, n, d[n])
          /\ \A t \in RelationType : \A x \in Ids(d[n], t) :
                x \in DOMAIN d /\ n \in Ids(d[x], NodeRelations[t].mapping)

\* The documents stored.
StoreFits(F) ==
    \A n \in DOMAIN db : Single(db[n]) /\ Within(F, n, db[n]) /\ (Edited(n) \/ ByIds(db[n]))

\* Call p has called removeNode for component m of its node.
Called(p, m) ==
    /\ "encloses" \in DOMAIN removals[p].branch /\ removals[p].branch["encloses"].at = "calls"
    /\ m \in DOMAIN removals[p].branch["encloses"].found

\* The call for the enclosure of the node of k has made call k.
CalledBy(F, k) ==
    \E p \in DOMAIN removals :
        /\ p.req = k.req /\ k = Child(p, NodeOf(k)) /\ Called(p, NodeOf(k))
        /\ <<NodeOf(p), "encloses", NodeOf(k)>> \in F.links

\* A call is about a node of the tree the request is about, at most one call about
\* each, and the documents of its components are as they are stored.
Placed(F, k) ==
    LET root == Op[k.req].node IN
    /\ root \in Node /\ F.top[NodeOf(k)] = F.top[root]
    /\ \/ removals[k].src = "none" /\ NodeOf(k) = root
       \/ /\ removals[k].src = "enclosedBy" /\ F.depth[root] < F.depth[NodeOf(k)]
          /\ CalledBy(F, k)
    /\ \A c \in DOMAIN removals : c.req = k.req /\ NodeOf(c) = NodeOf(k) => c = k

\* The components found are linked, and unchanged until removeNode is called for them.
FoundFits(F, k) ==
    "encloses" \in DOMAIN removals[k].branch =>
        \A x \in DOMAIN removals[k].branch["encloses"].found :
            /\ <<NodeOf(k), "encloses", x>> \in F.links
            /\ removals[k].branch["encloses"].at = "validate" =>
                  x \in DOMAIN db /\ removals[k].branch["encloses"].found[x] = db[x]

\* What a call of removeNode keeps fits the inventory.
CallFits(F, k) ==
    /\ Within(F, NodeOf(k), removals[k].rels)
    /\ DOMAIN removals[k].branch \subseteq Types(k)
    /\ Placed(F, k) /\ FoundFits(F, k)

\* The datastore call a deletion makes on a neighbour.
Withdraws(F, u) ==
    /\ u.by \in DOMAIN removals /\ DOMAIN removals[u.by].branch # {}
    /\ u.targets = {NodeOf(u.by)} /\ <<u.node, u.type, NodeOf(u.by)>> \in F.links
    /\ u.type # "enclosedBy" /\ (u.type = "encloses" => removals[u.by].src = "none")
    /\ u.stage = "pull" /\ u.node \in DOMAIN db /\ NodeOf(u.by) \in Ids(db[u.node], u.type) =>
          u.index = IndexOf(db[u.node], u.type)

\* A deletion withdraws its own node, a client edits the node it named.
UnlinkFits(F, u) ==
    IF Op[u.by.req].kind = "delete" THEN Withdraws(F, u) ELSE u.node = Op[u.by.req].node

\* What the node of a deletion still names: its neighbours have been told, or asked.
Exempt(n, t) ==
    \E k \in DOMAIN removals :
        /\ NodeOf(k) = n
        /\ t = "encloses" => \E x \in Node : Called(k, x)
        /\ t \notin Component => DOMAIN removals[k].branch # {}

\* Call k will see n among the targets of type s, and finds them all.
Sees(k, n, s) ==
    LET rels == removals[k].rels IN
    /\ IndexOf(rels, s) # 0 /\ IndexOf(rels, s) \in DOMAIN rels
    /\ rels[IndexOf(rels, s)].relationType = s
    /\ n \in Wanted(k, s) /\ Wanted(k, s) \subseteq DOMAIN db

\* Call k, about a node that n lists under t, still has to withdraw its node there,
\* or has failed.
Handles(k, n, t) ==
    LET s == NodeRelations[t].mapping
        branch == removals[k].branch IN
    /\ removals[k].stage \in {"check", "branches", "failed"}
    /\ removals[k].stage = "check" => Sees(k, n, s)
    /\ removals[k].stage = "branches" => s \in DOMAIN branch
    /\ DOMAIN branch # {} =>
          /\ s \in DOMAIN branch
          /\ \/ branch[s].at = "find" /\ Sees(k, n, s)
             \/ branch[s].at = "validate" /\ n \in DOMAIN branch[s].found
             \/ /\ branch[s].at = "calls" /\ s = "encloses"
                /\ DOMAIN branch[s].found = {} /\ removals[k].stage = "failed"
             \/ /\ branch[s].at = "calls" /\ s # "encloses"
                /\ \E u \in unlinks : u.by = k /\ u.node = n /\ u.type = t /\ u.stage = "pull"

\* A node that n lists under t is stored and lists n, and no call about it forgets n.
Mutual(n, t, m) ==
    /\ m \in DOMAIN db
    /\ \/ Edited(m)
       \/ /\ n \in Ids(db[m], NodeRelations[t].mapping)
          /\ \A k \in DOMAIN removals : NodeOf(k) = m => Handles(k, n, t)

\* The links of stored documents are mutual, but those of a deletion under way.
AllMutual ==
    \A n \in DOMAIN db : \A t \in RelationType : \A m \in Ids(db[n], t) :
        Exempt(n, t) \/ Mutual(n, t, m)

\* What a link pushes are documents: it adds no id.
PushesDocuments == \A a \in adds : ToSet(a.targets) \cap Node = {}

EditedGone == \E m \in Node \ DOMAIN db : Edited(m)

\* The invariant, as long as no node was removed that a client had edited: such an edit
\* may leave links with one side.
Core(F) ==
    /\ StoreFits(F)
    /\ \A k \in DOMAIN removals : CallFits(F, k)
    /\ \A u \in unlinks : UnlinkFits(F, u)
    /\ PushesDocuments
    /\ AllMutual

RInv(F) == EditedGone \/ Core(F)

-----------------------------------------------------------------------------
(* What the list operations do to the ids in a document                    *)

\* A relation type and its counterpart.
LEMMA Counterparts ==
    ASSUME NEW t \in RelationType
    PROVE  LET s == NodeRelations[t].mapping IN
           /\ s \in RelationType /\ NodeRelations[s].mapping = t
           /\ t = "encloses" <=> s = "enclosedBy"
           /\ t = "enclosedBy" <=> s = "encloses"
           /\ Cascades(t) <=> t = "encloses"
<1>1. RelationType = {"encloses", "enclosedBy", "contains", "containedBy", "powers", "poweredBy"}
  BY DEF RelationType, NodeRelations
<1>2. /\ NodeRelations["encloses"] = [mapping |-> "enclosedBy", relationClass |-> "component"]
      /\ NodeRelations["enclosedBy"] = [mapping |-> "encloses", relationClass |-> "component"]
      /\ NodeRelations["contains"] = [mapping |-> "containedBy", relationClass |-> "container"]
      /\ NodeRelations["containedBy"] = [mapping |-> "contains", relationClass |-> "container"]
      /\ NodeRelations["powers"] = [mapping |-> "poweredBy", relationClass |-> "dependency"]
      /\ NodeRelations["poweredBy"] = [mapping |-> "powers", relationClass |-> "dependency"]
  BY DEF NodeRelations
<1>3. /\ NodeRelations["encloses"].mapping = "enclosedBy"
      /\ NodeRelations["enclosedBy"].mapping = "encloses"
      /\ NodeRelations["contains"].mapping = "containedBy"
      /\ NodeRelations["containedBy"].mapping = "contains"
      /\ NodeRelations["powers"].mapping = "poweredBy"
      /\ NodeRelations["poweredBy"].mapping = "powers"
      /\ NodeRelations["encloses"].relationClass = "component"
      /\ NodeRelations["contains"].relationClass = "container"
      /\ NodeRelations["powers"].relationClass = "dependency"
  BY <1>2
<1>4. Cascades(t) <=> t = "encloses"
  BY <1>1, <1>3 DEF Cascades
<1> QED BY <1>1, <1>3, <1>4

\* The only item of a type is the one found.
LEMMA IdsAt ==
    ASSUME NEW doc \in Relations, Single(doc), NEW t, NEW x \in Ids(doc, t)
    PROVE  LET i == IndexOf(doc, t) IN
           /\ i # 0 /\ i \in DOMAIN doc /\ doc[i].relationType = t
           /\ Ids(doc, t) = Node \cap ToSet(doc[i].targets)
<1> DEFINE i == IndexOf(doc, t)
<1>1. PICK j \in DOMAIN doc : doc[j].relationType = t /\ x \in ToSet(doc[j].targets)
  BY DEF Ids
<1>2. i # 0 /\ i \in DOMAIN doc /\ doc[i].relationType = t
  BY <1>1, IndexFacts
<1> HIDE DEF i
<1>3. \A h \in DOMAIN doc : doc[h].relationType = t => h = i
  BY <1>2 DEF Single
<1>4. Ids(doc, t) = Node \cap ToSet(doc[i].targets)
  BY <1>2, <1>3 DEF Ids
<1> QED BY <1>2, <1>4 DEF i

\* Items of the same types at the same places, and one item for each type.
LEMMA IndexSame ==
    ASSUME NEW old \in Relations, NEW new \in Relations, NEW t, DOMAIN new = DOMAIN old, Single(old),
           \A i \in DOMAIN old : new[i].relationType = old[i].relationType
    PROVE  IndexOf(new, t) = IndexOf(old, t)
<1> DEFINE i == IndexOf(old, t)
           j == IndexOf(new, t)
<1>1. /\ i # 0 => i \in DOMAIN old /\ old[i].relationType = t
      /\ i = 0 => \A h \in DOMAIN old : old[h].relationType # t
  BY IndexFacts
<1>2. /\ j # 0 => j \in DOMAIN new /\ new[j].relationType = t
      /\ j = 0 => \A h \in DOMAIN new : new[h].relationType # t
  BY IndexFacts
<1> HIDE DEF i, j
<1>3. i = j
  BY <1>1, <1>2 DEF Single
<1> QED BY <1>3 DEF i, j

\* The document lists no id it did not list before.
Fewer(old, new) == Single(new) /\ \A t : Ids(new, t) \subseteq Ids(old, t)

\* Targets that are pulled leave one item; a node that is not among them stays listed,
\* and positions stay.
LEMMA PullIds ==
    ASSUME NEW doc \in Relations, Single(doc), NEW i, NEW old
    PROVE  /\ Fewer(doc, PullTargets(doc, i, old))
           /\ ByIds(doc) => ByIds(PullTargets(doc, i, old))
           /\ \A t : IndexOf(PullTargets(doc, i, old), t) = IndexOf(doc, t)
           /\ \A t : Ids(doc, t) \ old \subseteq Ids(PullTargets(doc, i, old), t)
           /\ \A t : i # 0 /\ i = IndexOf(doc, t) => Ids(PullTargets(doc, i, old), t) \cap old = {}
<1> DEFINE new == PullTargets(doc, i, old)
<1>1. /\ new \in Relations /\ DOMAIN new = DOMAIN doc
      /\ \A j \in DOMAIN doc : /\ new[j].relationType = doc[j].relationType
                               /\ ToSet(new[j].targets) \subseteq ToSet(doc[j].targets)
      /\ \A j \in DOMAIN doc \ {i} : new[j] = doc[j]
  <2>1. new \in Relations /\ DOMAIN new = DOMAIN doc
    BY PullTargetsFacts
  <2>2. \A j \in DOMAIN doc : /\ new[j].relationType = doc[j].relationType
                              /\ ToSet(new[j].targets) \subseteq ToSet(doc[j].targets)
    BY PullTargetsFacts
  <2>3. \A j \in DOMAIN doc \ {i} : new[j] = doc[j]
    BY PullTargetsFacts
  <2> QED BY <2>1, <2>2, <2>3
<1>2. i \in DOMAIN doc => ToSet(new[i].targets) = ToSet(doc[i].targets) \ old
  BY PullTargetsFacts
<1> HIDE DEF new
<1>3. Fewer(doc, new) /\ (ByIds(doc) => ByIds(new))
  BY <1>1 DEF Fewer, Single, Ids, ByIds
<1>4. ASSUME NEW t PROVE IndexOf(new, t) = IndexOf(doc, t)
  BY <1>1, IndexSame
<1>5. ASSUME NEW t, NEW x \in Ids(doc, t) \ old PROVE x \in Ids(new, t)
  <2>1. PICK j \in DOMAIN doc : doc[j].relationType = t /\ x \in ToSet(doc[j].targets)
    BY <1>5 DEF Ids
  <2>2. x \in ToSet(new[j].targets)
    BY <1>1, <1>5, <1>2, <2>1
  <2> QED BY <1>1, <1>5, <2>1, <2>2 DEF Ids
<1>6. ASSUME NEW t, i # 0, i = IndexOf(doc, t), NEW x \in Ids(new, t), x \in old PROVE FALSE
  <2>1. PICK j \in DOMAIN new : new[j].relationType = t /\ x \in ToSet(new[j].targets)
    BY <1>6 DEF Ids
  <2>2. j = i /\ i \in DOMAIN doc
    BY <1>1, <1>6, <2>1, IndexFacts DEF Single
  <2> QED BY <1>6, <1>2, <2>1, <2>2
<1> QED BY <1>3, <1>4, <1>5, <1>6 DEF new

\* A blank item lists nothing: dropping it takes no id away.
LEMMA BlankIds ==
    ASSUME NEW doc \in Relations, Single(doc), NEW t
    PROVE  /\ Fewer(doc, PullBlank(doc, t))
           /\ ByIds(doc) => ByIds(PullBlank(doc, t))
           /\ \A s : Ids(PullBlank(doc, t), s) = Ids(doc, s)
<1> DEFINE new == PullBlank(doc, t)
<1>1. doc \in Seq(Item) /\ new = Without(doc, {Blank(t)})
  BY DEF Relations, PullBlank
<1> HIDE DEF new
<1>2. Keeps(new, doc, {Blank(t)})
  BY <1>1, WithoutKeeps
<1>3. PICK p \in [DOMAIN new -> DOMAIN doc] :
            /\ \A j \in DOMAIN p : new[j] = doc[p[j]]
            /\ \A i \in DOMAIN doc : doc[i] \notin {Blank(t)} => \E j \in DOMAIN p : p[j] = i
  BY <1>2 DEF Keeps
<1>4. Single(new)
  <2>1. PICK q \in [DOMAIN new -> DOMAIN doc] :
              /\ \A j \in DOMAIN new : new[j] = doc[q[j]]
              /\ \A j, h \in DOMAIN new : q[j] = q[h] => j = h
    BY PullBlankFacts DEF new
  <2> QED BY <2>1 DEF Single
<1>5. ASSUME NEW s, NEW x \in Ids(doc, s) PROVE x \in Ids(new, s)
  <2>1. PICK i \in DOMAIN doc : doc[i].relationType = s /\ x \in ToSet(doc[i].targets)
    BY <1>5 DEF Ids
  <2>2. doc[i] # Blank(t)
    BY <2>1 DEF Blank, ToSet
  <2>3. PICK j \in DOMAIN p : p[j] = i
    BY <1>3, <2>2
  <2> QED BY <1>3, <1>5, <2>1, <2>3 DEF Ids
<1>6. ASSUME NEW s, NEW x \in Ids(new, s) PROVE x \in Ids(doc, s)
  <2>1. PICK j \in DOMAIN new : new[j].relationType = s /\ x \in ToSet(new[j].targets)
    BY <1>6 DEF Ids
  <2> QED BY <1>3, <1>6, <2>1 DEF Ids
<1>7. ByIds(doc) => ByIds(new)
  BY <1>3 DEF ByIds
<1> QED BY <1>4, <1>5, <1>6, <1>7 DEF Fewer, new

\* Nothing is dropped, nothing moves.
LEMMA NothingDropped ==
    ASSUME NEW S, NEW s \in Seq(S), NEW drop, \A i \in DOMAIN s : s[i] \notin drop
    PROVE  \A i \in DOMAIN s : i \in DOMAIN Without(s, drop) /\ Without(s, drop)[i] = s[i]
<1> DEFINE w == Without(s, drop)
<1>1. w \in Seq(S) /\ Keeps(w, s, drop)
  BY WithoutKeeps
<1> HIDE DEF w
<1>2. PICK p \in [DOMAIN w -> DOMAIN s] :
            /\ \A j \in DOMAIN p : w[j] = s[p[j]]
            /\ \A j, h \in DOMAIN p : j < h => p[j] < p[h]
            /\ \A i \in DOMAIN s : \E j \in DOMAIN p : p[j] = i
  BY <1>1 DEF Keeps
<1>3. DOMAIN w = 1 .. Len(w) /\ DOMAIN s = 1 .. Len(s) /\ Len(w) \in Nat /\ Len(s) \in Nat
  BY <1>1
<1> DEFINE Moved == {i \in DOMAIN s : i \notin DOMAIN w \/ p[i] # i}
<1>4. Moved = {}
  <2> SUFFICES ASSUME Moved # {} PROVE FALSE
    OBVIOUS
  <2>1. PICK i \in Moved : \A h \in Moved : i <= h
    <3>1. Moved \in SUBSET Nat
      BY <1>3
    <3> HIDE DEF Moved
    <3> QED BY <3>1, Least
  <2>2. i \in DOMAIN s /\ i \in Nat
    BY <1>3
  <2>3. \A h \in DOMAIN s : h < i => h \in DOMAIN w /\ p[h] = h
    BY <1>3, <2>1
  <2>4. PICK j \in DOMAIN w : p[j] = i
    BY <1>2, <2>2
  <2>5. j >= i
    BY <1>3, <2>2, <2>3, <2>4
  <2>6. i \in DOMAIN w /\ p[i] # i
    BY <1>3, <2>1, <2>2, <2>5
  <2>7. i < j /\ p[i] < i
    BY <1>2, <1>3, <2>2, <2>4, <2>5, <2>6
  <2>8. p[i] \in DOMAIN s /\ p[p[i]] = p[i] /\ p[i] \in DOMAIN w
    BY <2>3, <2>6, <2>7
  <2> QED BY <1>2, <1>3, <2>6, <2>7, <2>8
<1> QED BY <1>2, <1>4 DEF w

\* A blank item brings no id, and is the only one of its type.
LEMMA ItemIds ==
    ASSUME NEW doc \in Relations, Single(doc), NEW t \in RelationType
    PROVE  Fewer(doc, PushItem(doc, t))
<1> DEFINE new == PushItem(doc, t)
<1>1. /\ \A j \in DOMAIN doc : j \in DOMAIN new /\ new[j] = doc[j]
      /\ \A j \in DOMAIN new \ DOMAIN doc : new[j] = Blank(t) /\ j = Len(doc) + 1
  BY PushItemFacts
<1>2. new # doc => \A i \in DOMAIN doc : doc[i].relationType # t
  BY IndexFacts DEF PushItem
<1> HIDE DEF new
<1>3. Blank(t).relationType = t /\ ToSet(Blank(t).targets) = {}
  BY DEF Blank, ToSet
<1>4. Single(new)
  <2> SUFFICES ASSUME NEW i \in DOMAIN new, NEW j \in DOMAIN new,
                      new[i].relationType = new[j].relationType
               PROVE  i = j
    BY DEF Single
  <2>1. CASE i \in DOMAIN doc /\ j \in DOMAIN doc
    BY <1>1, <2>1 DEF Single
  <2>2. CASE i \notin DOMAIN doc /\ j \notin DOMAIN doc
    BY <1>1, <2>2
  <2>3. CASE i \in DOMAIN doc /\ j \notin DOMAIN doc
    BY <1>1, <1>2, <1>3, <2>3
  <2>4. CASE i \notin DOMAIN doc /\ j \in DOMAIN doc
    BY <1>1, <1>2, <1>3, <2>4
  <2> QED BY <2>1, <2>2, <2>3, <2>4
<1>5. \A s : Ids(new, s) \subseteq Ids(doc, s)
  BY <1>1, <1>3 DEF Ids
<1> QED BY <1>4, <1>5 DEF Fewer, new

\* Documents that are pushed are no ids.
LEMMA PushIds ==
    ASSUME NEW doc \in Relations, Single(doc), NEW i \in DOMAIN doc, NEW more \in Seq(Target),
           ToSet(more) \cap Node = {}
    PROVE  Fewer(doc, PushTargets(doc, i, more))
<1> DEFINE new == PushTargets(doc, i, more)
<1>1. /\ new \in Relations /\ DOMAIN new = DOMAIN doc
      /\ \A j \in DOMAIN doc : new[j].relationType = doc[j].relationType
      /\ ToSet(new[i].targets) = ToSet(doc[i].targets) \cup ToSet(more)
      /\ \A j \in DOMAIN doc \ {i} : new[j] = doc[j]
  BY PushTargetsFacts
<1> HIDE DEF new
<1>2. Single(new)
  BY <1>1 DEF Single
<1>3. ASSUME NEW s, NEW x \in Ids(new, s) PROVE x \in Ids(doc, s)
  <2>1. PICK j \in DOMAIN new : new[j].relationType = s /\ x \in ToSet(new[j].targets)
    BY <1>3 DEF Ids
  <2>2. x \in Node /\ x \in ToSet(doc[j].targets)
    BY <1>1, <1>3, <2>1 DEF Ids
  <2> QED BY <1>1, <2>1, <2>2 DEF Ids
<1> QED BY <1>2, <1>3 DEF Fewer, new

\* What a document without other links than those of F lists, and one that lists less.
LEMMA WithinIds ==
    ASSUME NEW F, NEW n, NEW doc
    PROVE  Within(F, n, doc) <=> \A t : \A x \in Ids(doc, t) : <<n, t, x>> \in F.links
BY DEF Within, Ids

\* A document that lists less keeps to the links of F.
LEMMA FewerWithin ==
    ASSUME NEW F, NEW n, NEW old, NEW new, Within(F, n, old), Fewer(old, new)
    PROVE  Within(F, n, new)
<1>1. \A t : \A x \in Ids(new, t) : <<n, t, x>> \in F.links
  BY WithinIds DEF Fewer
<1> QED BY <1>1, WithinIds

-----------------------------------------------------------------------------
(* What a step leaves as it is                                             *)

\* An edited node stays one, whatever happens.
LEMMA EditedKept ==
    ASSUME NEW n, Edited(n), \A r \in Request : phase[r] # "idle" => phase'[r] # "idle"
    PROVE  Edited(n)'
BY DEF Edited

\* A call whose record stays sees what it saw, as long as the targets are stored.
LEMMA SeesSame ==
    ASSUME NEW k, NEW n, NEW s, Sees(k, n, s), removals'[k].rels = removals[k].rels,
           Wanted(k, s) \subseteq DOMAIN db'
    PROVE  Sees(k, n, s)'
BY DEF Sees, Wanted

\* A call whose record stays handles what it handled.
LEMMA HandlesSame ==
    ASSUME NEW k, NEW n, NEW t, Handles(k, n, t), removals'[k] = removals[k],
           Sees(k, n, NodeRelations[t].mapping) => Sees(k, n, NodeRelations[t].mapping)',
           \A u \in unlinks : u.by = k /\ u.node = n /\ u.type = t /\ u.stage = "pull" => u \in unlinks'
    PROVE  Handles(k, n, t)'
<1> DEFINE s == NodeRelations[t].mapping
           now == Sees(k, n, s)
           then == Sees(k, n, s)'
           pulls == \E u \in unlinks : u.by = k /\ u.node = n /\ u.type = t /\ u.stage = "pull"
           pulled == \E u \in unlinks' : u.by = k /\ u.node = n /\ u.type = t /\ u.stage = "pull"
<1>1. (now => then) /\ (pulls => pulled)
  OBVIOUS
<1>2. /\ removals[k].stage \in {"check", "branches", "failed"}
      /\ removals[k].stage = "check" => now
      /\ removals[k].stage = "branches" => s \in DOMAIN removals[k].branch
      /\ DOMAIN removals[k].branch # {} =>
            /\ s \in DOMAIN removals[k].branch
            /\ \/ removals[k].branch[s].at = "find" /\ now
               \/ removals[k].branch[s].at = "validate" /\ n \in DOMAIN removals[k].branch[s].found
               \/ /\ removals[k].branch[s].at = "calls" /\ s = "encloses"
                  /\ DOMAIN removals[k].branch[s].found = {} /\ removals[k].stage = "failed"
               \/ removals[k].branch[s].at = "calls" /\ s # "encloses" /\ pulls
  BY DEF Handles
<1> HIDE DEF now, then, pulls, pulled, s
<1>3. /\ removals'[k].stage \in {"check", "branches", "failed"}
      /\ removals'[k].stage = "check" => then
      /\ removals'[k].stage = "branches" => s \in DOMAIN removals'[k].branch
      /\ DOMAIN removals'[k].branch # {} =>
            /\ s \in DOMAIN removals'[k].branch
            /\ \/ removals'[k].branch[s].at = "find" /\ then
               \/ removals'[k].branch[s].at = "validate" /\ n \in DOMAIN removals'[k].branch[s].found
               \/ /\ removals'[k].branch[s].at = "calls" /\ s = "encloses"
                  /\ DOMAIN removals'[k].branch[s].found = {} /\ removals'[k].stage = "failed"
               \/ removals'[k].branch[s].at = "calls" /\ s # "encloses" /\ pulled
  BY <1>1, <1>2
<1> QED BY <1>3 DEF Handles, s, then, pulled

\* While the calls stay what they are, so does where they are placed.
LEMMA PlacedSame ==
    ASSUME NEW F, NEW k, removals' = removals, Placed(F, k)
    PROVE  Placed(F, k)'
BY DEF Placed, CalledBy, Called

\* While the calls stay what they are, so does what is exempt.
LEMMA ExemptSame ==
    ASSUME NEW n, NEW t, removals' = removals
    PROVE  Exempt(n, t)' <=> Exempt(n, t)
BY DEF Exempt, Called

\* A step that deletes nothing, and changes at most the document of an edited node,
\* which lists no id anew.
LEMMA EditKeeps ==
    ASSUME NEW F, TInv, SInv, Core(F), NEW e, NEW new, Writes(e, new), Edited(e)',
           e \in DOMAIN db => Fewer(db[e], new),
           \A n : Edited(n) => Edited(n)',
           removals' = removals,
           \A k \in DOMAIN removals : ~Pending(k),
           \A u \in unlinks : Op[u.by.req].kind # "delete",
           \A u \in unlinks' :
                u \in unlinks \/ (Op[u.by.req].kind # "delete" /\ u.node = Op[u.by.req].node),
           PushesDocuments'
    PROVE  Core(F)'
<1>1. StoreFits(F)'
  <2> SUFFICES ASSUME NEW n \in DOMAIN db'
               PROVE  Single(db'[n]) /\ Within(F, n, db'[n]) /\ (Edited(n)' \/ ByIds(db'[n]))
    BY DEF StoreFits
  <2>1. n \in DOMAIN db
    BY DEF Writes
  <2>2. Single(db[n]) /\ Within(F, n, db[n]) /\ (Edited(n) \/ ByIds(db[n]))
    BY <2>1 DEF Core, StoreFits
  <2>3. CASE n # e
    BY <2>1, <2>2, <2>3 DEF Writes
  <2>4. CASE n = e
    <3>1. db'[n] = new /\ Fewer(db[n], new)
      BY <2>1, <2>4 DEF Writes
    <3>2. Within(F, n, new)
      BY <2>2, <3>1, FewerWithin
    <3>3. Single(new)
      BY <3>1 DEF Fewer
    <3> QED BY <2>4, <3>1, <3>2, <3>3
  <2> QED BY <2>3, <2>4
<1>2. ASSUME NEW k \in DOMAIN removals' PROVE CallFits(F, k)'
  <2>1. CallFits(F, k) /\ ~Pending(k)
    BY DEF Core
  <2>2. Placed(F, k)'
    BY <2>1, PlacedSame DEF CallFits
  <2>3. "encloses" \in DOMAIN removals[k].branch => removals[k].branch["encloses"].at # "validate"
    BY <2>1 DEF Pending
  <2>4. FoundFits(F, k)'
    BY <2>1, <2>3 DEF CallFits, FoundFits
  <2>5. Types(k)' = Types(k)
    BY DEF Types
  <2> QED BY <2>1, <2>2, <2>4, <2>5 DEF CallFits
<1>3. \A u \in unlinks' : UnlinkFits(F, u)'
  BY DEF Core, UnlinkFits
<1>4. AllMutual'
  <2> SUFFICES ASSUME NEW n \in DOMAIN db', NEW t \in RelationType, NEW m \in Ids(db'[n], t),
                      ~Exempt(n, t)'
               PROVE  Mutual(n, t, m)'
    BY DEF AllMutual
  <2>1. n \in DOMAIN db /\ m \in Ids(db[n], t)
    BY DEF Writes, Fewer
  <2>2. ~Exempt(n, t)
    BY ExemptSame
  <2>3. Mutual(n, t, m)
    BY <2>1, <2>2 DEF Core, AllMutual
  <2>4. m \in DOMAIN db'
    BY <2>3 DEF Mutual, Writes
  <2>5. CASE Edited(m)
    BY <2>4, <2>5 DEF Mutual
  <2>6. CASE ~Edited(m)
    <3>1. CASE m = e
      BY <2>4, <3>1 DEF Mutual
    <3>2. CASE m # e
      <4>1. n \in Ids(db'[m], NodeRelations[t].mapping)
        BY <2>3, <2>6, <3>2 DEF Mutual, Writes
      <4>2. ASSUME NEW k \in DOMAIN removals', NodeOf(k) = m PROVE Handles(k, n, t)'
        <5>1. Handles(k, n, t)
          BY <2>3, <2>6, <4>2 DEF Mutual
        <5>2. \A u \in unlinks : u.by # k
          BY DEF SInv, CallsOfDeletions
        <5>3. Sees(k, n, NodeRelations[t].mapping) => Sees(k, n, NodeRelations[t].mapping)'
          BY SeesSame DEF Sees, Writes
        <5> QED BY <5>1, <5>2, <5>3, HandlesSame
      <4> QED BY <2>4, <4>1, <4>2 DEF Mutual
    <3> QED BY <3>1, <3>2
  <2> QED BY <2>5, <2>6
<1> QED BY <1>1, <1>2, <1>3, <1>4 DEF Core

\* A step that changes neither the inventory nor a deletion.
LEMMA SameKeeps ==
    ASSUME NEW F, Core(F), \A n : Edited(n) => Edited(n)', UNCHANGED <<db, removals, unlinks>>,
           PushesDocuments'
    PROVE  Core(F)'
<1>1. StoreFits(F)'
  BY DEF Core, StoreFits
<1>2. ASSUME NEW k \in DOMAIN removals' PROVE CallFits(F, k)'
  <2>1. CallFits(F, k)
    BY DEF Core
  <2>2. Placed(F, k)'
    BY <2>1, PlacedSame DEF CallFits
  <2>3. FoundFits(F, k)'
    BY <2>1 DEF CallFits, FoundFits
  <2>4. Types(k)' = Types(k)
    BY DEF Types
  <2> QED BY <2>1, <2>2, <2>3, <2>4 DEF CallFits
<1>3. ASSUME NEW u \in unlinks' PROVE UnlinkFits(F, u)'
  <2>1. UnlinkFits(F, u)
    BY DEF Core
  <2> QED BY <2>1 DEF UnlinkFits, Withdraws
<1>4. AllMutual'
  <2> SUFFICES ASSUME NEW n \in DOMAIN db', NEW t \in RelationType, NEW m \in Ids(db'[n], t),
                      ~Exempt(n, t)'
               PROVE  Mutual(n, t, m)'
    BY DEF AllMutual
  <2>1. ~Exempt(n, t)
    BY ExemptSame
  <2>2. Mutual(n, t, m)
    BY <2>1 DEF Core, AllMutual
  <2>3. ASSUME NEW k \in DOMAIN removals', Handles(k, n, t) PROVE Handles(k, n, t)'
    <3>1. Sees(k, n, NodeRelations[t].mapping) => Sees(k, n, NodeRelations[t].mapping)'
      BY SeesSame DEF Sees
    <3> QED BY <2>3, <3>1, HandlesSame
  <2> QED BY <2>2, <2>3 DEF Mutual
<1> QED BY <1>1, <1>2, <1>3, <1>4 DEF Core

\* Nodes leave the inventory only, and a request stays received.
LEMMA StepFacts ==
    ASSUME IInv, TInv, Next
    PROVE  /\ DOMAIN db' \subseteq DOMAIN db
           /\ \A r \in Request : phase[r] # "idle" => phase'[r] # "idle"
<1>1. DOMAIN phase = Request
  BY DEF IInv, CallsTyped
<1>2. ASSUME NEW k \in DOMAIN removals, RemoveNode(k) PROVE phase' = phase /\ DOMAIN db' \subseteq DOMAIN db
  <2>1. CASE CheckActive(k) \/ ComponentFailed(k) \/ Publish(k)
    BY <2>1, CheckFacts, FailedFacts, PublishFacts
  <2>2. CASE \E t \in RelationType : FindTargets(k, t)
    BY <2>2, FindFacts
  <2>3. CASE \E t \in RelationType : ValidateTargets(k, t)
    BY <2>3, ValidateFacts
  <2>4. CASE \E c \in Cleared : Destroy(k, c)
    <3>1. PICK c \in Cleared : Destroy(k, c)
      BY <2>4
    <3>2. phase' = phase /\ (db' = NodeTaken(k) \/ db' = db)
      BY <3>1, DestroyFacts
    <3> QED BY <3>2 DEF NodeTaken
  <2> QED BY <1>2, <2>1, <2>2, <2>3, <2>4 DEF RemoveNode
<1>3. ASSUME NEW r \in Request, Reject(r) \/ phase' = phase
      PROVE  \A q \in Request : phase[q] # "idle" => phase'[q] # "idle"
  BY <1>1, <1>3, RejectFacts
<1>4. ASSUME NEW u \in unlinks, PullFromRelation(u) \/ DropBlankRelation(u)
      PROVE  phase' = phase /\ DOMAIN db' = DOMAIN db
  BY <1>4, PullStep, DropStep DEF Writes
<1>5. ASSUME NEW a \in adds, EnsureRelation(a) \/ ReplaceEnclosure(a) \/ PushToRelation(a)
      PROVE  /\ DOMAIN db' = DOMAIN db
             /\ \A q \in Request : phase[q] # "idle" => phase'[q] # "idle"
  <2>1. DOMAIN db' = DOMAIN db /\ (Reject(a.by.req) \/ phase' = phase)
    BY <1>5, EnsureStep, ReplaceStep, PushStep DEF Writes
  <2>2. a.by.req \in Request
    BY DEF TInv, AddCall, CallId
  <2> QED BY <1>3, <2>1, <2>2
<1>6. ASSUME NEW r \in Request, CallHandlers(r) \/ Answer(r)
      PROVE  db' = db /\ \A q \in Request : phase[q] # "idle" => phase'[q] # "idle"
  <2>1. db' = db /\ \E s \in {"error", "running", "ok"} : phase' = [phase EXCEPT ![r] = s]
    BY <1>6, HandlersStep, AnswerStep
  <2> QED BY <1>1, <2>1
<1>7. ASSUME NEW r \in Request, Receive(r)
      PROVE  db' = db /\ \A q \in Request : phase[q] # "idle" => phase'[q] # "idle"
  <2>1. db' = db /\ \E s \in {"error", "running", "targets"} : phase' = [phase EXCEPT ![r] = s]
    BY <1>7, ReceiveFacts
  <2> QED BY <1>1, <2>1
<1>8. ASSUME NEW n \in Node, StartWorkflow(n) \/ FinishWorkflow(n) PROVE db' = db /\ phase' = phase
  BY <1>8 DEF StartWorkflow, FinishWorkflow
<1>9. ASSUME NEW u \in unlinks, UnlinkFails(u)
      PROVE  db' = db /\ \A q \in Request : phase[q] # "idle" => phase'[q] # "idle"
  <2>1. db' = db /\ (Reject(u.by.req) \/ phase' = phase)
    BY <1>9, UnlinkFailsFacts DEF CallFails
  <2>2. u.by.req \in Request
    BY DEF TInv, UnlinkCall, CallId
  <2> QED BY <1>3, <2>1, <2>2
<1>10. ASSUME NEW a \in adds, AddFails(a)
       PROVE  db' = db /\ \A q \in Request : phase[q] # "idle" => phase'[q] # "idle"
  <2>1. db' = db /\ Reject(a.by.req) /\ a.by.req \in Request
    BY <1>10 DEF AddFails, TInv, AddCall, CallId
  <2> QED BY <1>3, <2>1
<1> QED BY <1>2, <1>4, <1>5, <1>6, <1>7, <1>8, <1>9, <1>10 DEF Next, Serve

\* While a client edits, nothing is deleted.
LEMMA EditAlone ==
    ASSUME IInv, TInv, SInv, NEW r \in Request, InFlight(r), Op[r].kind # "delete"
    PROVE  /\ \A k \in DOMAIN removals : ~Pending(k)
           /\ \A u \in unlinks : Op[u.by.req].kind # "delete"
<1>1. \A k \in DOMAIN removals : Pending(k) => k.req = r
  BY NothingElse
<1>2. \A u \in unlinks : u.by.req = r
  BY NothingElse
<1> QED BY <1>1, <1>2 DEF SInv, CallsOfDeletions

\* The call of addRelation, and the node it edits.
LEMMA AddAlone ==
    ASSUME IInv, TInv, SInv, NEW a \in adds,
           \A r \in Request : phase[r] # "idle" => phase'[r] # "idle"
    PROVE  /\ Edited(a.node)'
           /\ \A k \in DOMAIN removals : ~Pending(k)
           /\ \A u \in unlinks : Op[u.by.req].kind # "delete"
<1> DEFINE r == a.by.req
<1>1. r \in Request
  BY DEF TInv, AddCall, CallId
<1>2. phase[r] # "idle" /\ Op[r].kind = "link" /\ a.node = Op[r].node
  BY DEF SInv, AddsOfRequests
<1>3. InFlight(r)
  BY DEF InFlight
<1> HIDE DEF r
<1>4. Edited(a.node)'
  BY <1>1, <1>2 DEF Edited
<1> QED BY <1>1, <1>2, <1>3, <1>4, EditAlone

\* addRelation lists documents only.
LEMMA AddKeepsRefs ==
    ASSUME NEW F, IInv, TInv, SInv, Core(F), NEW a \in adds, Next,
           EnsureRelation(a) \/ ReplaceEnclosure(a) \/ PushToRelation(a)
    PROVE  Core(F)'
<1>1. \A r \in Request : phase[r] # "idle" => phase'[r] # "idle"
  BY StepFacts
<1>2. \A n : Edited(n) => Edited(n)'
  BY <1>1, EditedKept
<1>3. /\ Edited(a.node)'
      /\ \A k \in DOMAIN removals : ~Pending(k)
      /\ \A u \in unlinks : Op[u.by.req].kind # "delete"
  BY <1>1, AddAlone
<1>4. removals' = removals /\ unlinks' = unlinks
  BY EnsureStep, ReplaceStep, PushStep
<1>5. PushesDocuments'
  <2>1. PushesDocuments
    BY DEF Core
  <2>2. \A b \in adds' : b \in adds \/ b.targets = a.targets
    BY EnsureStep, ReplaceStep, PushStep DEF NextAdd
  <2> QED BY <2>1, <2>2 DEF PushesDocuments
<1>6. a.node \in DOMAIN db => db[a.node] \in Relations /\ Single(db[a.node])
  BY DEF TInv, StoreTyped, Core, StoreFits
<1>7. a.type \in RelationType /\ a.targets \in Seq(Target) /\ ToSet(a.targets) \cap Node = {}
  BY DEF TInv, AddCall, Core, PushesDocuments
<1>8. \E new : Writes(a.node, new) /\ (a.node \in DOMAIN db => Fewer(db[a.node], new))
  <2>1. CASE EnsureRelation(a)
    <3>1. Writes(a.node, Ensured(a))
      BY <2>1, EnsureStep
    <3>2. a.node \in DOMAIN db => Fewer(db[a.node], Ensured(a))
      BY <1>6, <1>7, ItemIds DEF Ensured
    <3> QED BY <3>1, <3>2
  <2>2. CASE ReplaceEnclosure(a)
    <3>1. PICK old : Writes(a.node, PullTargets(db[a.node], a.index, old))
      BY <2>2, ReplaceStep
    <3>2. a.node \in DOMAIN db => Fewer(db[a.node], PullTargets(db[a.node], a.index, old))
      BY <1>6, PullIds
    <3> QED BY <3>1, <3>2
  <2>3. CASE PushToRelation(a)
    <3>1. CASE a.node \in DOMAIN db /\ a.index \in DOMAIN db[a.node]
      <4>1. Writes(a.node, PushTargets(db[a.node], a.index, a.targets))
        BY <2>3, <3>1, PushStep
      <4>2. Fewer(db[a.node], PushTargets(db[a.node], a.index, a.targets))
        BY <1>6, <1>7, <3>1, PushIds
      <4> QED BY <4>1, <4>2
    <3>2. CASE ~(a.node \in DOMAIN db /\ a.index \in DOMAIN db[a.node])
      <4>1. Writes(a.node, db[a.node])
        BY <2>3, <3>2, PushStep DEF Writes
      <4>2. a.node \in DOMAIN db => Fewer(db[a.node], db[a.node])
        BY <1>6 DEF Fewer
      <4> QED BY <4>1, <4>2
    <3> QED BY <3>1, <3>2
  <2> QED BY <2>1, <2>2, <2>3
<1>9. PICK new : Writes(a.node, new) /\ (a.node \in DOMAIN db => Fewer(db[a.node], new))
  BY <1>8
<1>10. \A u \in unlinks' : u \in unlinks
  BY <1>4
<1> QED BY <1>2, <1>3, <1>4, <1>5, <1>9, <1>10, EditKeeps

\* removeRelation, when a client asked for it.
LEMMA UnlinkKeepsRefs ==
    ASSUME NEW F, IInv, TInv, SInv, Core(F), NEW u \in unlinks, Next,
           Op[u.by.req].kind # "delete", PullFromRelation(u) \/ DropBlankRelation(u)
    PROVE  Core(F)'
<1> DEFINE r == u.by.req
<1>1. r \in Request
  BY DEF TInv, UnlinkCall, CallId
<1>2. phase[r] # "idle" /\ u.node = Op[r].node
  BY DEF SInv, UnlinksOfRequests, Core, UnlinkFits
<1>3. InFlight(r)
  BY DEF InFlight
<1>4. /\ \A k \in DOMAIN removals : ~Pending(k)
      /\ \A v \in unlinks : Op[v.by.req].kind # "delete"
  BY <1>1, <1>3, EditAlone
<1>5. \A q \in Request : phase[q] # "idle" => phase'[q] # "idle"
  BY StepFacts
<1>6. (\A n : Edited(n) => Edited(n)') /\ Edited(u.node)'
  BY <1>1, <1>2, <1>5, EditedKept DEF Edited
<1>7. u.node \in DOMAIN db => db[u.node] \in Relations /\ Single(db[u.node])
  BY DEF TInv, StoreTyped, Core, StoreFits
<1>8. /\ removals' = removals /\ adds' = adds
      /\ \A v \in unlinks' : v \in unlinks \/ (v.by = u.by /\ v.node = u.node)
  <2>1. CASE PullFromRelation(u)
    BY <2>1, PullStep
  <2>2. CASE DropBlankRelation(u)
    BY <2>2, DropStep
  <2> QED BY <2>1, <2>2
<1>9. \E new : Writes(u.node, new) /\ (u.node \in DOMAIN db => Fewer(db[u.node], new))
  <2>1. CASE PullFromRelation(u)
    <3>1. Writes(u.node, PullTargets(db[u.node], u.index, u.targets))
      BY <2>1, PullStep
    <3>2. u.node \in DOMAIN db => Fewer(db[u.node], PullTargets(db[u.node], u.index, u.targets))
      BY <1>7, PullIds
    <3> QED BY <3>1, <3>2
  <2>2. CASE DropBlankRelation(u)
    <3>1. Writes(u.node, PullBlank(db[u.node], u.type))
      BY <2>2, DropStep
    <3>2. u.node \in DOMAIN db => Fewer(db[u.node], PullBlank(db[u.node], u.type))
      BY <1>7, BlankIds
    <3> QED BY <3>1, <3>2
  <2> QED BY <2>1, <2>2
<1>10. PICK new : Writes(u.node, new) /\ (u.node \in DOMAIN db => Fewer(db[u.node], new))
  BY <1>9
<1>11. PushesDocuments'
  BY <1>8 DEF Core, PushesDocuments
<1>12. \A v \in unlinks' :
                v \in unlinks \/ (Op[v.by.req].kind # "delete" /\ v.node = Op[v.by.req].node)
  BY <1>2, <1>8
<1> QED BY <1>4, <1>6, <1>8, <1>10, <1>11, <1>12, EditKeeps

\* editNodeRelations calls its handlers: the documents of the body are no ids.
LEMMA HandlersKeepRefs ==
    ASSUME NEW F, Forest(F), IInv, TInv, SInv, Core(F), NEW r \in Request, CallHandlers(r), Next
    PROVE  Core(F)'
<1>1. /\ phase[r] = "targets" /\ Op[r].kind # "delete" /\ Op[r].node \in Node
      /\ UNCHANGED <<db, removals>>
  BY HandlersStep
<1>2. InFlight(r)
  BY <1>1 DEF InFlight
<1>3. /\ \A k \in DOMAIN removals : ~Pending(k)
      /\ \A u \in unlinks : Op[u.by.req].kind # "delete"
  BY <1>1, <1>2, EditAlone
<1>4. \A q \in Request : phase[q] # "idle" => phase'[q] # "idle"
  BY StepFacts
<1>5. (\A n : Edited(n) => Edited(n)') /\ Edited(Op[r].node)'
  BY <1>1, <1>4, EditedKept DEF Edited
<1>6. PushesDocuments'
  <2> SUFFICES ASSUME NEW a \in adds', a \notin adds PROVE ToSet(a.targets) \cap Node = {}
    BY DEF Core, PushesDocuments
  <2>1. PICK t \in DOMAIN Op[r].body \cap RelationType : a.targets = NeedTargetNodes(Op[r].body[t])
    BY HandlersStep
  <2>2. Op[r].body[t] \in Seq(Node)
    BY <1>1, OpAssumption
  <2>3. \A n \in Node : AsDocument(n) \notin Node
    BY DEF Forest
  <2>4. \A i \in DOMAIN Op[r].body[t] : Op[r].body[t][i] \in Node
    BY <2>2
  <2> QED BY <2>1, <2>3, <2>4 DEF NeedTargetNodes, ToSet
<1>7. \A u \in unlinks' :
         u \in unlinks \/ (Op[u.by.req].kind # "delete" /\ u.node = Op[u.by.req].node)
  <2>1. \A u \in unlinks' : u \in unlinks \/ (u.by = Edit(r) /\ u.node = Op[r].node)
    BY HandlersStep
  <2>2. Edit(r).req = r
    BY DEF Edit
  <2> QED BY <1>1, <2>1, <2>2
<1>8. Writes(Op[r].node, db[Op[r].node])
  BY <1>1 DEF Writes
<1>9. Op[r].node \in DOMAIN db => Fewer(db[Op[r].node], db[Op[r].node])
  BY DEF Core, StoreFits, Fewer
<1> QED BY <1>1, <1>3, <1>5, <1>6, <1>7, <1>8, <1>9, EditKeeps

\* Answers, workflows, requests that are refused and edits that are received.
LEMMA OthersKeepRefs ==
    ASSUME NEW F, IInv, TInv, Core(F), Next,
           \/ \E r \in Request : Answer(r) \/ (Receive(r) /\ Op[r].kind # "delete")
           \/ \E r \in Request : Receive(r) /\ Op[r].node \notin DOMAIN db
           \/ \E n \in Node : StartWorkflow(n) \/ FinishWorkflow(n)
    PROVE  Core(F)'
<1>1. \A q \in Request : phase[q] # "idle" => phase'[q] # "idle"
  BY StepFacts
<1>2. \A n : Edited(n) => Edited(n)'
  BY <1>1, EditedKept
<1>3. UNCHANGED <<db, removals, unlinks, adds>>
  <2>1. CASE \E r \in Request : Answer(r)
    BY <2>1, AnswerStep
  <2>2. CASE \E r \in Request : Receive(r) /\ (Op[r].kind # "delete" \/ Op[r].node \notin DOMAIN db)
    BY <2>2, ReceiveFacts
  <2>3. CASE \E n \in Node : StartWorkflow(n) \/ FinishWorkflow(n)
    BY <2>3 DEF StartWorkflow, FinishWorkflow
  <2> QED BY <2>1, <2>2, <2>3
<1>4. PushesDocuments'
  BY <1>3 DEF Core, PushesDocuments
<1> QED BY <1>2, <1>3, <1>4, SameKeeps

-----------------------------------------------------------------------------
(* The tree of a deletion                                                  *)

\* The links of the inventory, from both sides and by kind.
LEMMA LinkFacts ==
    ASSUME NEW F, Forest(F), NEW n \in Node, NEW m \in Node, NEW t \in RelationType,
           <<n, t, m>> \in F.links
    PROVE  /\ <<m, NodeRelations[t].mapping, n>> \in F.links
           /\ t = "encloses" => F.top[n] = F.top[m] /\ F.depth[n] < F.depth[m]
           /\ t = "enclosedBy" => F.top[n] = F.top[m] /\ F.depth[m] < F.depth[n]
           /\ t \notin Component => F.top[n] # F.top[m]
           /\ \A x \in Node : t = "enclosedBy" /\ <<n, t, x>> \in F.links => x = m
<1>1. /\ <<m, NodeRelations[t].mapping, n>> \in F.links
      /\ t = "encloses" => F.top[n] = F.top[m] /\ F.depth[n] < F.depth[m]
      /\ t \notin Component => F.top[n] # F.top[m]
      /\ \A x \in Node : t = "enclosedBy" /\ <<n, t, x>> \in F.links => x = m
  BY DEF Forest
<1>2. ASSUME t = "enclosedBy" PROVE F.top[n] = F.top[m] /\ F.depth[m] < F.depth[n]
  <2>1. NodeRelations[t].mapping = "encloses" /\ "encloses" \in RelationType
    BY <1>2, Counterparts
  <2>2. <<m, "encloses", n>> \in F.links
    BY <1>1, <2>1
  <2> QED BY <2>1, <2>2 DEF Forest
<1> QED BY <1>1, <1>2

\* A node has one enclosure.
LEMMA OneEnclosure ==
    ASSUME NEW F, Forest(F), NEW n \in Node, NEW p \in Node, NEW m \in Node,
           <<n, "encloses", m>> \in F.links, <<p, "encloses", m>> \in F.links
    PROVE  n = p
<1>1. "encloses" \in RelationType /\ "enclosedBy" \in RelationType
      /\ NodeRelations["encloses"].mapping = "enclosedBy"
  BY Counterparts DEF RelationType, NodeRelations
<1>2. <<m, "enclosedBy", n>> \in F.links /\ <<m, "enclosedBy", p>> \in F.links
  BY <1>1, LinkFacts
<1> QED BY <1>1, <1>2, LinkFacts

\* The nodes of the calls, and what they were called with.
LEMMA CallFacts ==
    ASSUME NEW F, Forest(F), IInv, TInv, Core(F), NEW k \in DOMAIN removals
    PROVE  /\ k \in CallId /\ k.req \in Request /\ NodeOf(k) \in Node
           /\ Op[k.req].node \in Node
           /\ F.top[NodeOf(k)] = F.top[Op[k.req].node]
           /\ F.depth[NodeOf(k)] \in Nat /\ F.depth[Op[k.req].node] \in Nat
           /\ F.depth[Op[k.req].node] <= F.depth[NodeOf(k)]
           /\ removals[k].src \in {"none", "enclosedBy"}
           /\ removals[k].src = "none" => NodeOf(k) = Op[k.req].node
           /\ removals[k].src = "enclosedBy" =>
                 F.depth[Op[k.req].node] < F.depth[NodeOf(k)] /\ CalledBy(F, k)
           /\ \A c \in DOMAIN removals : c.req = k.req /\ NodeOf(c) = NodeOf(k) => c = k
           /\ removals[k].rels \in Relations /\ DOMAIN removals[k].branch \subseteq RelationType
<1>1. k \in CallId /\ k.path # <<>> /\ k.req \in Request
  BY DEF IInv, CallsTyped, CallId
<1>2. NodeOf(k) \in Node
  BY <1>1, CallNode
<1>3. Placed(F, k)
  BY DEF Core, CallFits
<1>4. Op[k.req].node \in Node /\ F.depth \in [Node -> Nat]
  BY <1>3 DEF Placed, Forest
<1>5. F.depth[NodeOf(k)] \in Nat /\ F.depth[Op[k.req].node] \in Nat
  BY <1>2, <1>4
<1>6. removals[k].rels \in Relations /\ DOMAIN removals[k].branch \subseteq RelationType
  BY DEF TInv, RecordTyped
<1> QED BY <1>1, <1>2, <1>3, <1>4, <1>5, <1>6 DEF Placed

\* The enclosure that has called removeNode for a component is exempt.
LEMMA CallerExempt ==
    ASSUME NEW F, Forest(F), IInv, TInv, Core(F), NEW k \in DOMAIN removals,
           removals[k].src = "enclosedBy", NEW n \in Node, <<n, "encloses", NodeOf(k)>> \in F.links
    PROVE  Exempt(n, "encloses")
<1>1. NodeOf(k) \in Node /\ CalledBy(F, k)
  BY CallFacts
<1>2. PICK p \in DOMAIN removals :
         Called(p, NodeOf(k)) /\ <<NodeOf(p), "encloses", NodeOf(k)>> \in F.links
  BY <1>1 DEF CalledBy
<1>3. NodeOf(p) \in Node
  BY CallFacts
<1>4. NodeOf(p) = n
  BY <1>1, <1>2, <1>3, OneEnclosure
<1> QED BY <1>1, <1>2, <1>4 DEF Exempt, Component

\* Call k has not made its calls for components yet.
Uncalled(k) ==
    "encloses" \in DOMAIN removals[k].branch => removals[k].branch["encloses"].at # "calls"

\* Before that, no call of its request is about a component of its node.
LEMMA NotYetCalled ==
    ASSUME NEW F, Forest(F), IInv, TInv, Core(F), NEW k \in DOMAIN removals, Uncalled(k),
           NEW c \in DOMAIN removals, c.req = k.req,
           <<NodeOf(k), "encloses", NodeOf(c)>> \in F.links
    PROVE  FALSE
<1> DEFINE n == NodeOf(k)
           m == NodeOf(c)
           root == Op[k.req].node
<1>1. /\ n \in Node /\ root \in Node /\ F.depth[n] \in Nat /\ F.depth[root] \in Nat
      /\ F.depth[root] <= F.depth[n]
      /\ \A p \in DOMAIN removals : p.req = k.req /\ NodeOf(p) = n => p = k
  BY CallFacts
<1>2. /\ m \in Node /\ F.depth[m] \in Nat /\ removals[c].src \in {"none", "enclosedBy"}
      /\ removals[c].src = "none" => m = root
      /\ removals[c].src = "enclosedBy" => CalledBy(F, c)
  BY CallFacts
<1> HIDE DEF n, m, root
<1>3. "encloses" \in RelationType
  BY Counterparts DEF RelationType, NodeRelations
<1>4. <<n, "encloses", m>> \in F.links
  BY DEF n, m
<1>5. F.depth[n] < F.depth[m]
  BY <1>1, <1>2, <1>3, <1>4, LinkFacts
<1>6. removals[c].src = "enclosedBy"
  BY <1>1, <1>2, <1>5
<1>7. PICK p \in DOMAIN removals :
         /\ p.req = k.req /\ Called(p, m) /\ <<NodeOf(p), "encloses", m>> \in F.links
  BY <1>2, <1>6 DEF CalledBy, m
<1>8. NodeOf(p) \in Node
  BY CallFacts
<1>9. NodeOf(p) = n
  BY <1>1, <1>2, <1>4, <1>7, <1>8, OneEnclosure
<1>10. p = k
  BY <1>1, <1>7, <1>9
<1> QED BY <1>7, <1>10 DEF Called, Uncalled

-----------------------------------------------------------------------------
(* The steps of removeNode                                                 *)

\* Once a call has called for its components, or started its branches, it has.
Advances(k) ==
    /\ DOMAIN removals[k].branch # {} => DOMAIN removals'[k].branch # {}
    /\ \A x : Called(k, x) => Called(k, x)'
    /\ removals'[k].src = removals[k].src /\ removals'[k].rels = removals[k].rels

\* What is exempt stays so.
LEMMA ExemptGrows ==
    ASSUME DOMAIN removals \subseteq DOMAIN removals', \A k \in DOMAIN removals : Advances(k),
           NEW n, NEW t, Exempt(n, t)
    PROVE  Exempt(n, t)'
<1>1. PICK k \in DOMAIN removals :
         /\ NodeOf(k) = n
         /\ t = "encloses" => \E x \in Node : Called(k, x)
         /\ t \notin Component => DOMAIN removals[k].branch # {}
  BY DEF Exempt
<1>2. /\ k \in DOMAIN removals' /\ \A x : Called(k, x) => Called(k, x)'
      /\ DOMAIN removals[k].branch # {} => DOMAIN removals'[k].branch # {}
  BY DEF Advances
<1>3. t = "encloses" => \E x \in Node : Called(k, x)'
  BY <1>1, <1>2
<1>4. t \notin Component => DOMAIN removals'[k].branch # {}
  BY <1>1, <1>2
<1> QED BY <1>1, <1>2, <1>3, <1>4 DEF Exempt

\* A call stays where it is placed, as long as no other one is made for its node.
LEMMA PlacedGrows ==
    ASSUME DOMAIN removals \subseteq DOMAIN removals', \A c \in DOMAIN removals : Advances(c),
           NEW F, NEW k \in DOMAIN removals, Placed(F, k),
           \A c \in DOMAIN removals' : c.req = k.req /\ NodeOf(c) = NodeOf(k) => c = k
    PROVE  Placed(F, k)'
<1>1. removals'[k].src = removals[k].src
  BY DEF Advances
<1>2. CalledBy(F, k) => CalledBy(F, k)'
  <2> SUFFICES ASSUME CalledBy(F, k) PROVE CalledBy(F, k)'
    OBVIOUS
  <2>1. PICK p \in DOMAIN removals :
           /\ p.req = k.req /\ k = Child(p, NodeOf(k)) /\ Called(p, NodeOf(k))
           /\ <<NodeOf(p), "encloses", NodeOf(k)>> \in F.links
    BY DEF CalledBy
  <2>2. p \in DOMAIN removals' /\ Called(p, NodeOf(k))'
    BY <2>1 DEF Advances
  <2> QED BY <2>1, <2>2 DEF CalledBy
<1> QED BY <1>1, <1>2 DEF Placed

\* A datastore call a deletion waits for stays as it should be.
LEMMA WithdrawsGrows ==
    ASSUME db' = db, DOMAIN removals \subseteq DOMAIN removals',
           \A c \in DOMAIN removals : Advances(c), NEW F, NEW u, UnlinkFits(F, u)
    PROVE  UnlinkFits(F, u)'
BY DEF UnlinkFits, Withdraws, Advances

\* A step of a deletion that leaves the documents alone.
LEMMA DeletionSound ==
    ASSUME NEW F, Core(F), UNCHANGED <<db, adds>>, \A n : Edited(n) => Edited(n)',
           \A k \in DOMAIN removals' : CallFits(F, k)',
           \A u \in unlinks' : UnlinkFits(F, u)',
           \A n, t : Exempt(n, t) => Exempt(n, t)',
           \A n \in DOMAIN db : \A t \in RelationType : \A m \in Ids(db[n], t) :
               ~Exempt(n, t)' /\ ~Edited(m) /\ Mutual(n, t, m) =>
                   \A k \in DOMAIN removals' : NodeOf(k) = m => Handles(k, n, t)'
    PROVE  Core(F)'
<1>1. StoreFits(F)' /\ PushesDocuments'
  BY DEF Core, StoreFits, PushesDocuments
<1>2. AllMutual'
  <2> SUFFICES ASSUME NEW n \in DOMAIN db, NEW t \in RelationType, NEW m \in Ids(db[n], t),
                      ~Exempt(n, t)'
               PROVE  Mutual(n, t, m)'
    BY DEF AllMutual
  <2>1. Mutual(n, t, m)
    BY DEF Core, AllMutual
  <2>2. CASE Edited(m)
    BY <2>1, <2>2 DEF Mutual
  <2>3. CASE ~Edited(m)
    <3>1. \A k \in DOMAIN removals' : NodeOf(k) = m => Handles(k, n, t)'
      BY <2>1, <2>3
    <3> QED BY <2>1, <2>3, <3>1 DEF Mutual
  <2> QED BY <2>2, <2>3
<1> QED BY <1>1, <1>2 DEF Core

\* A step that changes the record of one call, and handles on what the call handled.
LEMMA ChangesSound ==
    ASSUME NEW F, IInv, TInv, Core(F), NEW k \in DOMAIN removals,
           Changes(k), UNCHANGED <<db, phase, adds>>, Advances(k),
           DOMAIN removals'[k].branch \subseteq Types(k), FoundFits(F, k)',
           unlinks \subseteq unlinks', \A u \in unlinks' \ unlinks : UnlinkFits(F, u)',
           \A n \in DOMAIN db : \A t \in RelationType :
               NodeOf(k) \in Ids(db[n], t) /\ Handles(k, n, t) /\ ~Exempt(n, t) => Handles(k, n, t)'
    PROVE  Core(F)'
<1>1. DOMAIN removals' = DOMAIN removals /\ \A c \in DOMAIN removals : c # k => removals'[c] = removals[c]
  BY DEF Changes
<1>2. \A c \in DOMAIN removals : Advances(c)
  <2> SUFFICES ASSUME NEW c \in DOMAIN removals, c # k PROVE Advances(c)
    OBVIOUS
  <2>1. removals'[c] = removals[c]
    BY <1>1
  <2> QED BY <2>1 DEF Advances, Called
<1>3. \A n, t : Exempt(n, t) => Exempt(n, t)'
  BY <1>1, <1>2, ExemptGrows
<1>4. ASSUME NEW c \in DOMAIN removals' PROVE CallFits(F, c)'
  <2>1. CallFits(F, c) /\ removals'[c].rels = removals[c].rels /\ removals'[c].src = removals[c].src
    BY <1>1, <1>2 DEF Core, Advances
  <2>2. Placed(F, c)'
    <3>1. Placed(F, c)
      BY <2>1 DEF CallFits
    <3>2. \A d \in DOMAIN removals' : d.req = c.req /\ NodeOf(d) = NodeOf(c) => d = c
      BY <1>1, <3>1 DEF Placed
    <3> QED BY <1>1, <1>2, <3>1, <3>2, PlacedGrows
  <2>3. FoundFits(F, c)'
    <3>1. CASE c # k
      BY <1>1, <2>1, <3>1 DEF CallFits, FoundFits
    <3> QED BY <3>1
  <2>4. Types(c)' = Types(c)
    BY <2>1 DEF Types
  <2>5. DOMAIN removals'[c].branch \subseteq Types(c)
    BY <1>1, <2>1 DEF CallFits
  <2> QED BY <2>1, <2>2, <2>3, <2>4, <2>5 DEF CallFits
<1>5. ASSUME NEW u \in unlinks' PROVE UnlinkFits(F, u)'
  BY <1>1, <1>2, WithdrawsGrows DEF Core
<1>6. ASSUME NEW n \in DOMAIN db, NEW t \in RelationType, NEW m \in Ids(db[n], t),
             ~Exempt(n, t)', ~Edited(m), Mutual(n, t, m),
             NEW c \in DOMAIN removals', NodeOf(c) = m
      PROVE  Handles(c, n, t)'
  <2>1. ~Exempt(n, t)
    BY <1>3, <1>6
  <2>2. Handles(c, n, t)
    BY <1>1, <1>6 DEF Mutual
  <2>3. CASE c = k
    BY <1>6, <2>1, <2>2, <2>3
  <2>4. CASE c # k
    <3>1. Sees(c, n, NodeRelations[t].mapping) => Sees(c, n, NodeRelations[t].mapping)'
      BY <1>1, <2>4, SeesSame DEF Sees
    <3>2. removals'[c] = removals[c]
      BY <1>1, <2>4
    <3> QED BY <2>2, <3>1, <3>2, HandlesSame
  <2> QED BY <2>3, <2>4
<1>7. \A n : Edited(n) => Edited(n)'
  BY DEF Edited
<1> QED BY <1>3, <1>4, <1>5, <1>6, <1>7, DeletionSound

\* _delValidityCheck of the node itself: what a call sees, it looks for.
LEMMA CheckRefs ==
    ASSUME NEW F, Forest(F), IInv, TInv, Core(F), NEW k \in DOMAIN removals, CheckActive(k)
    PROVE  Core(F)'
<1>1. /\ Changes(k) /\ removals[k].stage = "check" /\ removals'[k].stage \in {"failed", "branches"}
      /\ removals'[k].stage = "branches" => DOMAIN removals'[k].branch = Types(k)
      /\ removals'[k].stage = "failed" => DOMAIN removals'[k].branch = {}
      /\ DOMAIN removals'[k].branch \subseteq Types(k)
      /\ \A t \in DOMAIN removals'[k].branch : removals'[k].branch[t] = [at |-> "find", found |-> <<>>]
      /\ UNCHANGED <<db, phase, unlinks, adds>>
  BY CheckFacts
<1>2. DOMAIN removals[k].branch = {}
  BY <1>1 DEF IInv, CallsTyped, CallShape
<1>3. removals'[k].rels = removals[k].rels /\ removals'[k].src = removals[k].src
  BY <1>1 DEF Changes
<1>4. Advances(k)
  BY <1>2, <1>3 DEF Advances, Called
<1>5. FoundFits(F, k)'
  <2>1. \A t \in DOMAIN removals'[k].branch :
           DOMAIN removals'[k].branch[t].found = {} /\ removals'[k].branch[t].at = "find"
    BY <1>1
  <2> QED BY <2>1 DEF FoundFits
<1>6. ASSUME NEW n \in DOMAIN db, NEW t \in RelationType, NodeOf(k) \in Ids(db[n], t),
             Handles(k, n, t), ~Exempt(n, t)
      PROVE  Handles(k, n, t)'
  <2> DEFINE s == NodeRelations[t].mapping
  <2>1. Sees(k, n, s)
    BY <1>1, <1>6 DEF Handles
  <2>2. Sees(k, n, s)'
    <3>1. Wanted(k, s) \subseteq DOMAIN db'
      BY <1>1, <2>1 DEF Sees
    <3> QED BY <1>3, <2>1, <3>1, SeesSame
  <2>3. s \in Types(k)
    <3>1. s \in RelationType /\ \E i \in DOMAIN removals[k].rels : removals[k].rels[i].relationType = s
      BY <2>1, Counterparts DEF Sees
    <3>2. ASSUME removals[k].src = s PROVE FALSE
      <4>1. s = "enclosedBy" /\ t = "encloses"
        <5>1. removals[k].src \in {"none", "enclosedBy"}
          BY CallFacts
        <5>2. s \in RelationType /\ "none" \notin RelationType
          BY Counterparts DEF RelationType, NodeRelations
        <5> QED BY <3>2, <5>1, <5>2, Counterparts
      <4>2. n \in Node /\ <<n, "encloses", NodeOf(k)>> \in F.links
        BY <1>6, <4>1, WithinIds DEF Core, StoreFits, IInv, CallsTyped
      <4>3. Exempt(n, "encloses")
        BY <3>2, <4>1, <4>2, CallerExempt
      <4> QED BY <1>6, <4>1, <4>3
    <3> QED BY <3>1, <3>2 DEF Types
  <2>4. CASE removals'[k].stage = "failed"
    BY <1>1, <2>4 DEF Handles
  <2>5. CASE removals'[k].stage = "branches"
    <3>1. s \in DOMAIN removals'[k].branch /\ removals'[k].branch[s].at = "find"
      BY <1>1, <2>3, <2>5
    <3> QED BY <2>2, <2>5, <3>1 DEF Handles
  <2> QED BY <1>1, <2>4, <2>5
<1> QED BY <1>1, <1>4, <1>5, <1>6, ChangesSound

\* A rejected component, and the event of a node: nothing is handled by then, or
\* handled as before.
LEMMA FailedRefs ==
    ASSUME NEW F, IInv, TInv, Core(F), NEW k \in DOMAIN removals,
           ComponentFailed(k) \/ Publish(k)
    PROVE  Core(F)'
<1>1. /\ Changes(k) /\ removals'[k].branch = removals[k].branch
      /\ UNCHANGED <<db, phase, unlinks, adds>>
      /\ \/ removals[k].stage = "branches" /\ removals'[k].stage = "failed"
         \/ removals[k].stage = "publish"
  BY FailedFacts, PublishFacts DEF SameBranches
<1>2. Advances(k)
  BY <1>1 DEF Advances, Changes, Called
<1>3. CallFits(F, k)
  BY DEF Core
<1>4. FoundFits(F, k)' /\ DOMAIN removals'[k].branch \subseteq Types(k)
  BY <1>1, <1>3 DEF CallFits, FoundFits
<1>5. ASSUME NEW n \in DOMAIN db, NEW t \in RelationType, NodeOf(k) \in Ids(db[n], t),
             Handles(k, n, t), ~Exempt(n, t)
      PROVE  Handles(k, n, t)'
  <2>1. removals[k].stage = "branches" /\ removals'[k].stage = "failed"
    BY <1>1, <1>5 DEF Handles
  <2>2. Sees(k, n, NodeRelations[t].mapping) => Sees(k, n, NodeRelations[t].mapping)'
    BY <1>1, SeesSame DEF Sees, Changes
  <2> QED BY <1>1, <1>5, <2>1, <2>2 DEF Handles
<1> QED BY <1>1, <1>2, <1>4, <1>5, ChangesSound

\* What a call looks for are neighbours of its node.
LEMMA WantedLinks ==
    ASSUME NEW F, TInv, Core(F), NEW k \in DOMAIN removals, NEW t, IndexOf(removals[k].rels, t) # 0,
           NEW x \in Node, x \in Wanted(k, t)
    PROVE  <<NodeOf(k), t, x>> \in F.links
<1> DEFINE rels == removals[k].rels
           i == IndexOf(rels, t)
<1>1. rels \in Relations /\ Within(F, NodeOf(k), rels)
  BY DEF TInv, RecordTyped, Core, CallFits
<1>2. i \in DOMAIN rels /\ rels[i].relationType = t
  BY <1>1, IndexFacts
<1>3. x \in ToSet(rels[i].targets)
  BY DEF Wanted
<1> HIDE DEF rels, i
<1> QED BY <1>1, <1>2, <1>3 DEF Within

\* The branches of a call are of types that the document of its node lists, but for the
\* one it was called along, and the ids a branch looks for are links of F.
LEMMA BranchWanted ==
    ASSUME NEW F, TInv, Core(F), NEW k \in DOMAIN removals, NEW t \in DOMAIN removals[k].branch
    PROVE  /\ t \in RelationType /\ t # removals[k].src /\ IndexOf(removals[k].rels, t) # 0
           /\ \A x \in Node \cap Wanted(k, t) : <<NodeOf(k), t, x>> \in F.links
<1>1. t \in Types(k)
  BY DEF Core, CallFits
<1>2. IndexOf(removals[k].rels, t) # 0
  <2>1. removals[k].rels \in Relations /\ \E i \in DOMAIN removals[k].rels : removals[k].rels[i].relationType = t
    BY <1>1 DEF Types, TInv, RecordTyped
  <2> QED BY <2>1, IndexFacts
<1>3. t \in RelationType /\ t # removals[k].src
  BY <1>1 DEF Types
<1> QED BY <1>2, <1>3, WantedLinks

\* What the datastore is asked to withdraw when the neighbours have been read.
LEMMA FoundWithdraws ==
    ASSUME NEW F, Forest(F), IInv, TInv, SInv, Core(F), NEW k \in DOMAIN removals,
           NEW t \in RelationType, NEW found, Finds(k, t, found), db' = db, Changes(k),
           NEW u \in unlinks', u \notin unlinks
    PROVE  UnlinkFits(F, u)'
<1> DEFINE s == NodeRelations[t].mapping
           m == NodeOf(k)
<1>1. /\ u.by = k /\ u.node \in Node /\ u.node \in DOMAIN db /\ u.node \in Wanted(k, t) /\ ~Cascades(t)
      /\ u \in StartUnlink(k, u.node, db[u.node], s, {m})
  BY FindUnlinks DEF UnlinkCall
<1>2. u.targets = {m} /\ u.type = s /\ u.index = IndexOf(db[u.node], s)
  BY <1>1 DEF StartUnlink
<1>3. t \in DOMAIN removals[k].branch /\ t # removals[k].src
      /\ \A x \in Node \cap Wanted(k, t) : <<m, t, x>> \in F.links
  BY BranchWanted DEF Finds, BranchIs
<1>4. m \in Node /\ removals[k].src \in {"none", "enclosedBy"}
  BY CallFacts
<1>5. <<u.node, s, m>> \in F.links
  <2>1. <<m, t, u.node>> \in F.links /\ u.node \in Node
    BY <1>1, <1>3
  <2> HIDE DEF m
  <2> QED BY <1>4, <2>1, LinkFacts
<1>6. s # "enclosedBy" /\ (s = "encloses" => removals[k].src = "none")
  BY <1>1, <1>3, <1>4, Counterparts
<1>7. k \in DOMAIN removals' /\ DOMAIN removals'[k].branch # {} /\ removals'[k].src = removals[k].src
  BY <1>3 DEF Finds, BranchIs, Changes
<1>8. Op[k.req].kind = "delete"
  BY DEF SInv, CallsOfDeletions
<1> HIDE DEF s
<1>9. Withdraws(F, u)'
  BY <1>1, <1>2, <1>5, <1>6, <1>7 DEF Withdraws
<1> QED BY <1>1, <1>8, <1>9 DEF UnlinkFits

\* A neighbour that lists the node of a call, and is found, is asked to drop it.
LEMMA PullIsAsked ==
    ASSUME TInv, NEW k \in DOMAIN removals, NEW s \in RelationType, NEW found, Finds(k, s, found),
           ~Cascades(s), NEW t, t = NodeRelations[s].mapping,
           NEW n \in DOMAIN found, n \in DOMAIN db, Single(db[n]), NodeOf(k) \in Ids(db[n], t)
    PROVE  \E u \in unlinks' : u.by = k /\ u.node = n /\ u.type = t /\ u.stage = "pull"
<1> DEFINE doc == db[n]
           i == IndexOf(doc, t)
           u == [by |-> k, node |-> n, type |-> t, targets |-> {NodeOf(k)}, index |-> i,
                 stage |-> IF doc[i].targets = <<>> THEN "blank" ELSE "pull"]
<1>1. doc \in Relations /\ found[n] = doc
  BY DEF TInv, StoreTyped, Finds
<1>2. i # 0 /\ i \in DOMAIN doc /\ Ids(doc, t) = Node \cap ToSet(doc[i].targets)
  BY <1>1, IdsAt
<1>3. doc[i].targets # <<>>
  BY <1>2 DEF ToSet
<1>4. u \in StartUnlink(k, n, found[n], t, {NodeOf(k)})
  BY <1>1, <1>2 DEF StartUnlink
<1>5. u \in unlinks'
  <2>1. unlinks' = unlinks \cup UNION {StartUnlink(k, m, found[m], t, {NodeOf(k)}) : m \in DOMAIN found}
    BY DEF Finds
  <2> HIDE DEF u
  <2> QED BY <1>4, <2>1
<1> QED BY <1>3, <1>5

\* _findTargetNodes: every neighbour that lists the node is found.
LEMMA FindRefs ==
    ASSUME NEW F, Forest(F), "find" \notin Faults, IInv, TInv, SInv, Core(F),
           NEW k \in DOMAIN removals, NEW t0 \in RelationType, FindTargets(k, t0)
    PROVE  Core(F)'
<1>1. /\ Changes(k) /\ removals[k].stage \in {"branches", "failed"}
      /\ removals'[k].stage = removals[k].stage
      /\ t0 \in DOMAIN removals[k].branch /\ removals[k].branch[t0].at = "find"
      /\ UNCHANGED <<db, phase, adds>>
  BY FindFacts
<1>2. PICK found : Finds(k, t0, found)
  BY FindFacts
<1> DEFINE at0 == IF Cascades(t0) THEN "validate" ELSE "calls"
<1>3. /\ DOMAIN removals'[k].branch = DOMAIN removals[k].branch
      /\ removals'[k].branch[t0] = [at |-> at0, found |-> found]
      /\ \A s \in DOMAIN removals[k].branch : s # t0 => removals'[k].branch[s] = removals[k].branch[s]
  BY <1>2 DEF Finds, BranchIs
<1>4. Cascades(t0) <=> t0 = "encloses"
  BY Counterparts
<1>5. removals'[k].rels = removals[k].rels /\ removals'[k].src = removals[k].src
  BY <1>1 DEF Changes
<1>6. Advances(k)
  <2>1. ASSUME NEW x, Called(k, x) PROVE Called(k, x)'
    BY <1>1, <1>3, <2>1 DEF Called
  <2> QED BY <1>3, <1>5, <2>1 DEF Advances
<1>7. /\ unlinks \subseteq unlinks' /\ DOMAIN found \subseteq Wanted(k, t0) \cap DOMAIN db
      /\ \A x \in DOMAIN found : found[x] = db[x]
      /\ Wanted(k, t0) \subseteq DOMAIN db => DOMAIN found = Wanted(k, t0)
  BY <1>2 DEF Finds
<1>8. FoundFits(F, k)'
  <2>1. CASE t0 # "encloses"
    <3>1. FoundFits(F, k)
      BY DEF Core, CallFits
    <3> QED BY <1>1, <1>3, <2>1, <3>1 DEF FoundFits
  <2>2. CASE t0 = "encloses"
    <3>1. DOMAIN db \subseteq Node
      BY DEF IInv, CallsTyped
    <3>2. \A x \in DOMAIN found : <<NodeOf(k), "encloses", x>> \in F.links
      BY <1>1, <1>7, <2>2, <3>1, BranchWanted
    <3> QED BY <1>1, <1>3, <1>7, <2>2, <3>2 DEF FoundFits
  <2> QED BY <2>1, <2>2
<1>9. \A u \in unlinks' \ unlinks : UnlinkFits(F, u)'
  BY <1>1, <1>2, FoundWithdraws
<1>10. DOMAIN removals'[k].branch \subseteq Types(k)
  BY <1>3 DEF Core, CallFits
<1>11. ASSUME NEW n \in DOMAIN db, NEW t \in RelationType, NodeOf(k) \in Ids(db[n], t),
              Handles(k, n, t), ~Exempt(n, t)
       PROVE  Handles(k, n, t)'
  <2> DEFINE s == NodeRelations[t].mapping
  <2>1. s \in RelationType /\ NodeRelations[s].mapping = t /\ (Cascades(s) <=> s = "encloses")
    BY Counterparts
  <2>2. Sees(k, n, s) => Sees(k, n, s)'
    BY <1>1, <1>5, SeesSame DEF Sees
  <2>3. CASE s = t0
    <3>1. Sees(k, n, s)
      BY <1>1, <1>11, <2>3 DEF Handles
    <3>2. n \in DOMAIN found
      BY <1>7, <2>3, <3>1 DEF Sees
    <3>3. CASE s = "encloses"
      BY <1>1, <1>3, <1>4, <2>3, <3>2, <3>3 DEF Handles
    <3>4. CASE s # "encloses"
      <4>1. Single(db[n])
        BY DEF Core, StoreFits
      <4>2. \E u \in unlinks' : u.by = k /\ u.node = n /\ u.type = t /\ u.stage = "pull"
        BY <1>2, <1>11, <2>1, <2>3, <3>2, <3>4, <4>1, PullIsAsked
      <4> QED BY <1>1, <1>3, <1>4, <2>3, <3>4, <4>2 DEF Handles
    <3> QED BY <3>3, <3>4
  <2>4. CASE s # t0
    <3>1. DOMAIN removals[k].branch # {} /\ s \in DOMAIN removals[k].branch
      BY <1>1, <1>11 DEF Handles
    <3>2. removals'[k].branch[s] = removals[k].branch[s]
      BY <1>3, <2>4, <3>1
    <3>3. (\E u \in unlinks : u.by = k /\ u.node = n /\ u.type = t /\ u.stage = "pull")
             => \E u \in unlinks' : u.by = k /\ u.node = n /\ u.type = t /\ u.stage = "pull"
      BY <1>7
    <3> QED BY <1>1, <1>3, <1>11, <2>2, <3>1, <3>2, <3>3 DEF Handles
  <2> QED BY <2>3, <2>4
<1> QED BY <1>1, <1>6, <1>7, <1>8, <1>9, <1>10, <1>11, ChangesSound

\* No call about node m is at work.
NoneAbout(m) ==
    \A k \in DOMAIN removals : NodeOf(k) = m => ~Pending(k) /\ \A u \in unlinks : u.by # k

\* The node m that n lists is not exempt towards n, if no call about it is at work.
LEMMA NotExempt ==
    ASSUME NEW n, NEW t \in RelationType, NEW m, Mutual(n, t, m), ~Edited(m), NoneAbout(m),
           Exempt(m, NodeRelations[t].mapping), t # "encloses"
    PROVE  FALSE
<1> DEFINE s == NodeRelations[t].mapping
<1>1. s \in RelationType /\ (t = "enclosedBy" <=> s = "encloses") /\ s # "enclosedBy"
  BY Counterparts
<1>2. PICK k \in DOMAIN removals :
         /\ NodeOf(k) = m
         /\ s = "encloses" => \E x \in Node : Called(k, x)
         /\ s \notin Component => DOMAIN removals[k].branch # {}
  BY DEF Exempt
<1>3. Handles(k, n, t) /\ ~Pending(k) /\ \A u \in unlinks : u.by # k
  BY <1>2 DEF Mutual, NoneAbout
<1>4. s = "encloses" \/ s \notin Component
  BY <1>1 DEF Component
<1>5. DOMAIN removals[k].branch # {}
  BY <1>2, <1>4 DEF Called
<1>6. /\ s \in DOMAIN removals[k].branch
      /\ removals[k].branch[s].at \notin {"find", "validate"}
  BY <1>3, <1>5 DEF Handles, Pending
<1>7. s = "encloses" /\ DOMAIN removals[k].branch[s].found = {}
  BY <1>3, <1>5, <1>6 DEF Handles
<1> QED BY <1>2, <1>7 DEF Called

\* A call about m that begins with the document as it is stored handles n.
LEMMA FreshHandles ==
    ASSUME NEW F, Forest(F), IInv, TInv, Core(F),
           NEW n \in DOMAIN db, NEW t \in RelationType, NEW m \in Ids(db[n], t),
           Mutual(n, t, m), ~Edited(m), NoneAbout(m), db' = db,
           NEW c, NEW src, NewCall(c, src), removals'[c].rels = db[m]
    PROVE  Handles(c, n, t)'
<1> DEFINE s == NodeRelations[t].mapping
           doc == db[m]
           i == IndexOf(doc, s)
<1>1. m \in DOMAIN db /\ n \in Ids(doc, s) /\ m \in Node /\ n \in Node
  BY DEF Mutual, Ids
<1>2. doc \in Relations /\ Single(doc) /\ ByIds(doc) /\ Within(F, m, doc) /\ Within(F, n, db[n])
  BY <1>1 DEF TInv, StoreTyped, Core, StoreFits
<1>3. /\ i # 0 /\ i \in DOMAIN doc /\ doc[i].relationType = s
      /\ Ids(doc, s) = Node \cap ToSet(doc[i].targets)
  BY <1>1, <1>2, IdsAt
<1>4. ToSet(doc[i].targets) \subseteq Ids(doc, s)
  BY <1>2, <1>3 DEF ByIds
<1>5. s \in RelationType /\ NodeRelations[s].mapping = t /\ (t = "encloses" <=> s = "enclosedBy")
  BY Counterparts
<1>6. ASSUME NEW x \in Ids(doc, s) PROVE x \in DOMAIN db
  <2>1. CASE t = "encloses"
    <3>1. s = "enclosedBy" /\ x \in Node
      BY <1>5, <2>1 DEF Ids
    <3>2. <<m, s, x>> \in F.links /\ <<m, s, n>> \in F.links
      BY <1>1, <1>2, WithinIds
    <3>3. x = n
      <4>1. <<m, "enclosedBy", x>> \in F.links /\ <<m, "enclosedBy", n>> \in F.links
        BY <3>1, <3>2
      <4>2. "enclosedBy" \in RelationType
        BY <1>5, <3>1
      <4> HIDE DEF s
      <4> QED BY <1>1, <3>1, <4>1, <4>2, LinkFacts
    <3> QED BY <3>3
  <2>2. CASE t # "encloses"
    <3>1. ~Exempt(m, s)
      <4> SUFFICES ASSUME Exempt(m, NodeRelations[t].mapping) PROVE FALSE
        OBVIOUS
      <4> QED BY <2>2, NotExempt
    <3>2. Mutual(m, s, x)
      BY <1>1, <1>5, <3>1 DEF Core, AllMutual
    <3> QED BY <3>2 DEF Mutual
  <2> QED BY <2>1, <2>2
<1>7. Sees(c, n, s)'
  BY <1>1, <1>3, <1>4, <1>6 DEF Sees, Wanted
<1>8. removals'[c].stage = "check" /\ DOMAIN removals'[c].branch = {}
  BY DEF NewCall
<1> QED BY <1>7, <1>8 DEF Handles

\* What holds of a call when it is made.
LEMMA NewCallFits ==
    ASSUME NEW F, TInv, Core(F), NEW m \in DOMAIN db, NEW c, NodeOf(c) = m, NEW src, NewCall(c, src),
           removals'[c].rels = db[m], Placed(F, c)'
    PROVE  CallFits(F, c)'
<1>1. Within(F, m, db[m])
  BY DEF Core, StoreFits
<1>2. DOMAIN removals'[c].branch = {}
  BY DEF NewCall
<1>3. FoundFits(F, c)'
  BY <1>2 DEF FoundFits
<1> QED BY <1>1, <1>2, <1>3 DEF CallFits

\* A step that makes calls.
LEMMA CallsSound ==
    ASSUME NEW F, Forest(F), IInv, TInv, Core(F), UNCHANGED <<db, unlinks, adds>>,
           \A n : Edited(n) => Edited(n)',
           DOMAIN removals \subseteq DOMAIN removals', \A c \in DOMAIN removals : Advances(c),
           \A c \in DOMAIN removals : CallFits(F, c)',
           \A c \in DOMAIN removals' \ DOMAIN removals :
               /\ NodeOf(c) \in DOMAIN db /\ removals'[c].rels = db[NodeOf(c)]
               /\ NoneAbout(NodeOf(c)) /\ Placed(F, c)' /\ \E src : NewCall(c, src),
           \A c \in DOMAIN removals : \A n \in DOMAIN db : \A t \in RelationType :
               Handles(c, n, t) /\ ~Exempt(n, t)' => Handles(c, n, t)'
    PROVE  Core(F)'
<1>1. \A n, t : Exempt(n, t) => Exempt(n, t)'
  BY ExemptGrows
<1>2. ASSUME NEW c \in DOMAIN removals' PROVE CallFits(F, c)'
  BY NewCallFits
<1>3. ASSUME NEW u \in unlinks' PROVE UnlinkFits(F, u)'
  BY WithdrawsGrows DEF Core
<1>4. ASSUME NEW n \in DOMAIN db, NEW t \in RelationType, NEW m \in Ids(db[n], t),
             ~Exempt(n, t)', ~Edited(m), Mutual(n, t, m),
             NEW c \in DOMAIN removals', NodeOf(c) = m
      PROVE  Handles(c, n, t)'
  <2>1. CASE c \in DOMAIN removals
    BY <1>4, <2>1 DEF Mutual
  <2>2. CASE c \notin DOMAIN removals
    <3>1. PICK src : NewCall(c, src)
      BY <2>2
    <3>2. removals'[c].rels = db[m] /\ NoneAbout(m)
      BY <1>4, <2>2
    <3> QED BY <1>4, <3>1, <3>2, FreshHandles
  <2> QED BY <2>1, <2>2
<1> QED BY <1>1, <1>2, <1>3, <1>4, DeletionSound

\* DELETE /nodes/:id is received: nothing is at work then.
LEMMA ReceiveRefs ==
    ASSUME NEW F, Forest(F), MaxInFlight = 1, IInv, TInv, SInv, Core(F), Next, NEW r \in Request, Receive(r),
           Op[r].kind = "delete", Op[r].node \in DOMAIN db
    PROVE  Core(F)'
<1> DEFINE c == Root(r)
           m == Op[r].node
<1>1. /\ phase[r] = "idle" /\ c.req = r /\ NodeOf(c) = m /\ NewCall(c, "none")
      /\ DOMAIN removals' = DOMAIN removals \cup {c}
      /\ removals'[c] = NewRemoval(db[m], "none")
      /\ \A k \in DOMAIN removals : removals'[k] = removals[k]
      /\ UNCHANGED <<db, unlinks, adds>>
  BY ReceiveFacts
<1>2. \A q \in Request : ~InFlight(q)
  BY QuietReceive
<1>3. \A n : Edited(n) => Edited(n)'
  BY StepFacts, EditedKept
<1>4. \A k \in DOMAIN removals : Advances(k)
  BY <1>1 DEF Advances, Called
<1>5. \A k \in DOMAIN removals : k.req \in Request /\ k.req # r
  BY <1>1 DEF IInv, CallsTyped, CallId
<1>6. ASSUME NEW k \in DOMAIN removals PROVE CallFits(F, k)'
  <2>1. CallFits(F, k) /\ removals'[k] = removals[k]
    BY <1>1 DEF Core
  <2>2. Placed(F, k)'
    <3>1. Placed(F, k)
      BY <2>1 DEF CallFits
    <3>2. \A d \in DOMAIN removals' : d.req = k.req /\ NodeOf(d) = NodeOf(k) => d = k
      BY <1>1, <1>5, <3>1 DEF Placed
    <3>3. DOMAIN removals \subseteq DOMAIN removals'
      BY <1>1
    <3> QED BY <1>4, <3>1, <3>2, <3>3, PlacedGrows
  <2>3. FoundFits(F, k)' /\ Types(k)' = Types(k)
    BY <1>1, <2>1 DEF CallFits, FoundFits, Types
  <2> QED BY <2>1, <2>2, <2>3 DEF CallFits
<1>7. /\ removals'[c].rels = db[m] /\ removals'[c].src = "none"
      /\ \A d \in DOMAIN removals' : d.req = r => d = c
  BY <1>1, <1>5 DEF NewRemoval
<1>8. Placed(F, c)'
  <2>1. m \in Node
    BY DEF IInv, CallsTyped
  <2> QED BY <1>1, <1>7, <2>1 DEF Placed
<1>9. NoneAbout(m)
  <2>1. ASSUME NEW k \in DOMAIN removals PROVE ~Pending(k)
    BY <1>2, <1>5 DEF InFlight
  <2>2. unlinks = {}
    BY <1>2 DEF InFlight, TInv, UnlinkCall, CallId
  <2> QED BY <2>1, <2>2 DEF NoneAbout
<1>10. ASSUME NEW k \in DOMAIN removals, NEW n \in DOMAIN db, NEW t \in RelationType, Handles(k, n, t)
       PROVE  Handles(k, n, t)'
  <2>1. Sees(k, n, NodeRelations[t].mapping) => Sees(k, n, NodeRelations[t].mapping)'
    BY <1>1, SeesSame DEF Sees
  <2>2. removals'[k] = removals[k]
    BY <1>1
  <2> QED BY <1>1, <1>10, <2>1, <2>2, HandlesSame
<1>11. ASSUME NEW d \in DOMAIN removals' \ DOMAIN removals
       PROVE  /\ NodeOf(d) \in DOMAIN db /\ removals'[d].rels = db[NodeOf(d)]
              /\ NoneAbout(NodeOf(d)) /\ Placed(F, d)' /\ \E src : NewCall(d, src)
  <2>1. d = c
    BY <1>1
  <2> QED BY <1>1, <1>7, <1>8, <1>9, <2>1
<1>12. DOMAIN removals \subseteq DOMAIN removals'
  BY <1>1
<1> QED BY <1>1, <1>3, <1>4, <1>6, <1>10, <1>11, <1>12, CallsSound

\* While a call is at work, no call of another request is, and no other request waits.
LEMMA SameRequest ==
    ASSUME IInv, TInv, SInv, NEW k \in DOMAIN removals, Pending(k)
    PROVE  /\ \A c \in DOMAIN removals : Pending(c) => c.req = k.req
           /\ \A u \in unlinks : u.by.req = k.req
<1>1. k.req \in Request
  BY DEF IInv, CallsTyped, CallId
<1>2. InFlight(k.req)
  BY DEF InFlight
<1> QED BY <1>1, <1>2, NothingElse

\* A component under a workflow: the branch is given up, and the call with it.
LEMMA RejectedRefs ==
    ASSUME NEW F, Forest(F), IInv, TInv, Core(F), NEW k \in DOMAIN removals,
           Changes(k), UNCHANGED <<db, phase, unlinks, adds>>,
           removals'[k].stage = "failed", "encloses" \in DOMAIN removals[k].branch,
           removals[k].branch["encloses"].at = "validate",
           BranchIs(k, "encloses", [at |-> "calls", found |-> <<>>])
    PROVE  Core(F)'
<1>1. /\ DOMAIN removals'[k].branch = DOMAIN removals[k].branch
      /\ removals'[k].branch["encloses"].at = "calls"
      /\ DOMAIN removals'[k].branch["encloses"].found = {}
      /\ \A s \in DOMAIN removals[k].branch : s # "encloses" => removals'[k].branch[s] = removals[k].branch[s]
  BY DEF BranchIs
<1>2. Advances(k)
  BY <1>1 DEF Advances, Called, Changes
<1>3. FoundFits(F, k)' /\ DOMAIN removals'[k].branch \subseteq Types(k)
  BY <1>1 DEF FoundFits, Core, CallFits
<1>4. ASSUME NEW n \in DOMAIN db, NEW t \in RelationType, NodeOf(k) \in Ids(db[n], t),
             Handles(k, n, t), ~Exempt(n, t)
      PROVE  Handles(k, n, t)'
  <2> DEFINE s == NodeRelations[t].mapping
  <2>1. s \in DOMAIN removals[k].branch
    BY <1>4 DEF Handles
  <2>2. Sees(k, n, s) => Sees(k, n, s)'
    BY SeesSame DEF Sees, Changes
  <2>3. CASE s = "encloses"
    BY <1>1, <2>1, <2>3 DEF Handles
  <2>4. CASE s # "encloses"
    <3>1. removals'[k].branch[s] = removals[k].branch[s]
      BY <1>1, <2>1, <2>4
    <3> QED BY <1>1, <1>4, <2>1, <2>2, <2>4, <3>1 DEF Handles
  <2> QED BY <2>3, <2>4
<1> QED BY <1>2, <1>3, <1>4, ChangesSound

\* The components of a node under validation: nobody else calls for them.
LEMMA ComponentsFree ==
    ASSUME NEW F, Forest(F), IInv, TInv, SInv, Core(F), NEW k \in DOMAIN removals,
           "encloses" \in DOMAIN removals[k].branch, removals[k].branch["encloses"].at = "validate",
           NEW x \in DOMAIN removals[k].branch["encloses"].found
    PROVE  /\ x \in Node /\ x \in DOMAIN db /\ removals[k].branch["encloses"].found[x] = db[x]
           /\ <<NodeOf(k), "encloses", x>> \in F.links
           /\ \A c \in DOMAIN removals : c.req = k.req => NodeOf(c) # x
           /\ NoneAbout(x)
<1>1. /\ x \in DOMAIN db /\ removals[k].branch["encloses"].found[x] = db[x]
      /\ <<NodeOf(k), "encloses", x>> \in F.links
  BY DEF Core, CallFits, FoundFits
<1>2. x \in Node
  BY <1>1 DEF IInv, CallsTyped
<1>3. ASSUME NEW c \in DOMAIN removals, c.req = k.req, NodeOf(c) = x PROVE FALSE
  BY <1>1, <1>3, NotYetCalled DEF Uncalled
<1>4. Pending(k)
  BY DEF Pending
<1>5. NoneAbout(x)
  BY <1>3, <1>4, SameRequest DEF NoneAbout
<1> QED BY <1>1, <1>2, <1>3, <1>5

\* removeNode of every component: the calls are placed below the node's own.
LEMMA ComponentPlaced ==
    ASSUME NEW F, Forest(F), IInv, TInv, SInv, Core(F), NEW k \in DOMAIN removals,
           "encloses" \in DOMAIN removals[k].branch, removals[k].branch["encloses"].at = "validate",
           NEW x \in DOMAIN removals[k].branch["encloses"].found,
           DOMAIN removals' = DOMAIN removals \cup Components(k, "encloses"),
           "encloses" \in DOMAIN removals'[k].branch, removals'[k].branch["encloses"].at = "calls",
           x \in DOMAIN removals'[k].branch["encloses"].found,
           removals'[Child(k, x)].src = "enclosedBy"
    PROVE  Placed(F, Child(k, x))'
<1> DEFINE c == Child(k, x)
           root == Op[k.req].node
<1>1. /\ x \in Node /\ <<NodeOf(k), "encloses", x>> \in F.links
      /\ \A d \in DOMAIN removals : d.req = k.req => NodeOf(d) # x
  BY ComponentsFree
<1>2. /\ k \in CallId /\ NodeOf(k) \in Node /\ root \in Node
      /\ F.top[NodeOf(k)] = F.top[root] /\ F.depth[NodeOf(k)] \in Nat /\ F.depth[root] \in Nat
      /\ F.depth[root] <= F.depth[NodeOf(k)]
  BY CallFacts
<1>3. c.req = k.req /\ NodeOf(c) = x
  BY <1>1, <1>2, ChildFacts
<1>4. "encloses" \in RelationType /\ F.depth[x] \in Nat
  BY <1>1, Counterparts DEF RelationType, NodeRelations, Forest
<1>5. F.top[NodeOf(k)] = F.top[x] /\ F.depth[NodeOf(k)] < F.depth[x]
  BY <1>1, <1>2, <1>4, LinkFacts
<1>6. ASSUME NEW d \in DOMAIN removals', d.req = k.req, NodeOf(d) = x PROVE d = c
  <2>1. d \in Components(k, "encloses")
    BY <1>1, <1>6
  <2>2. PICK y \in DOMAIN removals[k].branch["encloses"].found : d = Child(k, y)
    BY <2>1 DEF Components
  <2>3. y \in Node
    BY ComponentsFree
  <2>4. y = x
    BY <1>2, <1>6, <2>2, <2>3, ChildFacts
  <2> QED BY <2>2, <2>4
<1>7. CalledBy(F, c)'
  <2>1. k \in DOMAIN removals' /\ Called(k, x)'
    BY DEF Called
  <2> HIDE DEF c
  <2>2. c = Child(k, NodeOf(c))
    BY <1>3 DEF c
  <2> QED BY <1>1, <1>3, <2>1, <2>2 DEF CalledBy
<1> HIDE DEF c, root
<1>8. F.depth[root] < F.depth[x] /\ F.top[x] = F.top[root]
  BY <1>2, <1>4, <1>5
<1>9. removals'[c].src = "enclosedBy" /\ root = Op[k.req].node
  BY DEF c, root
<1>10. Placed(F, c)'
  BY <1>2, <1>3, <1>6, <1>7, <1>8, <1>9 DEF Placed
<1> QED BY <1>10 DEF c

\* removeNode of every component: each call sees the enclosure, which is exempt now.
LEMMA CalledRefs ==
    ASSUME NEW F, Forest(F), IInv, TInv, SInv, Core(F), NEW k \in DOMAIN removals,
           UNCHANGED <<db, phase, unlinks, adds>>,
           "encloses" \in DOMAIN removals[k].branch, removals[k].branch["encloses"].at = "validate",
           DOMAIN removals' = DOMAIN removals \cup Components(k, "encloses"),
           removals'[k].stage = removals[k].stage,
           removals'[k].rels = removals[k].rels, removals'[k].src = removals[k].src,
           BranchIs(k, "encloses",
                    [at |-> "calls", found |-> removals[k].branch["encloses"].found]),
           \A c \in DOMAIN removals : c # k => removals'[c] = removals[c],
           \A c \in Components(k, "encloses") :
               /\ NewCall(c, "enclosedBy")
               /\ removals'[c].rels = removals[k].branch["encloses"].found[NodeOf(c)]
    PROVE  Core(F)'
<1> DEFINE found == removals[k].branch["encloses"].found
<1>1. /\ DOMAIN removals'[k].branch = DOMAIN removals[k].branch
      /\ removals'[k].branch["encloses"].at = "calls"
      /\ removals'[k].branch["encloses"].found = found
      /\ \A s \in DOMAIN removals[k].branch : s # "encloses" => removals'[k].branch[s] = removals[k].branch[s]
  BY DEF BranchIs
<1> HIDE DEF found
<1>2. DOMAIN removals \subseteq DOMAIN removals' /\ k \in CallId
  BY DEF IInv, CallsTyped
<1>3. ASSUME NEW c \in DOMAIN removals PROVE Advances(c)
  <2>1. CASE c = k
    BY <1>1, <2>1 DEF Advances, Called
  <2>2. CASE c # k
    <3>1. removals'[c] = removals[c]
      BY <2>2
    <3> QED BY <3>1 DEF Advances, Called
  <2> QED BY <2>1, <2>2
<1>4. ASSUME NEW c \in DOMAIN removals' \ DOMAIN removals
      PROVE  \E x \in DOMAIN found : /\ c = Child(k, x) /\ x \in Node /\ NodeOf(c) = x /\ c.req = k.req
                                     /\ x \in DOMAIN db /\ found[x] = db[x] /\ NoneAbout(x)
                                     /\ \A d \in DOMAIN removals : d.req = k.req => NodeOf(d) # x
  <2>1. PICK x \in DOMAIN found : c = Child(k, x)
    BY <1>4 DEF Components, found
  <2>2. /\ x \in Node /\ x \in DOMAIN db /\ found[x] = db[x] /\ NoneAbout(x)
        /\ \A d \in DOMAIN removals : d.req = k.req => NodeOf(d) # x
    BY ComponentsFree DEF found
  <2>3. NodeOf(c) = x /\ c.req = k.req
    BY <1>2, <2>1, <2>2, ChildFacts
  <2> QED BY <2>1, <2>2, <2>3
<1>5. ASSUME NEW c \in DOMAIN removals' \ DOMAIN removals
      PROVE  /\ NodeOf(c) \in DOMAIN db /\ removals'[c].rels = db[NodeOf(c)]
             /\ NoneAbout(NodeOf(c)) /\ Placed(F, c)' /\ \E src : NewCall(c, src)
  <2>1. PICK x \in DOMAIN found : /\ c = Child(k, x) /\ NodeOf(c) = x
                                  /\ x \in DOMAIN db /\ found[x] = db[x] /\ NoneAbout(x)
    BY <1>4
  <2>2. c \in Components(k, "encloses")
    BY <1>5
  <2>3. NewCall(c, "enclosedBy") /\ removals'[c].rels = found[x]
    BY <2>1, <2>2 DEF found
  <2>4. "encloses" \in DOMAIN removals'[k].branch /\ x \in DOMAIN removals'[k].branch["encloses"].found
    BY <1>1, <2>1
  <2>5. Placed(F, c)'
    <3>1. removals'[Child(k, x)].src = "enclosedBy"
      BY <2>1, <2>3 DEF NewCall
    <3>2. x \in DOMAIN removals[k].branch["encloses"].found
      BY <2>1 DEF found
    <3>3. Placed(F, Child(k, x))'
      BY <1>1, <2>4, <3>1, <3>2, ComponentPlaced
    <3> QED BY <2>1, <3>3
  <2> QED BY <2>1, <2>3, <2>5
<1>6. ASSUME NEW c \in DOMAIN removals PROVE CallFits(F, c)'
  <2>1. CallFits(F, c)
    BY DEF Core
  <2>2. Placed(F, c)'
    <3>1. Placed(F, c)
      BY <2>1 DEF CallFits
    <3>2. ASSUME NEW d \in DOMAIN removals', d.req = c.req, NodeOf(d) = NodeOf(c) PROVE d = c
      <4>1. CASE d \in DOMAIN removals
        BY <3>1, <3>2, <4>1 DEF Placed
      <4>2. CASE d \notin DOMAIN removals
        <5>1. PICK x \in DOMAIN found : NodeOf(d) = x /\ d.req = k.req
                  /\ \A e \in DOMAIN removals : e.req = k.req => NodeOf(e) # x
          BY <1>4, <4>2
        <5> QED BY <3>2, <5>1
      <4> QED BY <4>1, <4>2
    <3> QED BY <1>2, <1>3, <3>1, <3>2, PlacedGrows
  <2>3. FoundFits(F, c)'
    <3>1. FoundFits(F, c)
      BY <2>1 DEF CallFits
    <3>2. CASE c = k
      BY <1>1, <3>1, <3>2 DEF FoundFits, found
    <3>3. CASE c # k
      BY <3>1, <3>3 DEF FoundFits
    <3> QED BY <3>2, <3>3
  <2>4. removals'[c].rels = removals[c].rels /\ removals'[c].src = removals[c].src
        /\ DOMAIN removals'[c].branch = DOMAIN removals[c].branch
    BY <1>1
  <2>5. Types(c)' = Types(c)
    BY <2>4 DEF Types
  <2> QED BY <2>1, <2>2, <2>3, <2>4, <2>5 DEF CallFits
<1>7. ASSUME NEW c \in DOMAIN removals, NEW n \in DOMAIN db, NEW t \in RelationType,
             Handles(c, n, t), ~Exempt(n, t)'
      PROVE  Handles(c, n, t)'
  <2> DEFINE s == NodeRelations[t].mapping
  <2>1. removals'[c].rels = removals[c].rels
    BY <1>1
  <2>2. Sees(c, n, s) => Sees(c, n, s)'
    BY <2>1, SeesSame DEF Sees
  <2>3. CASE c # k
    BY <1>7, <2>2, <2>3, HandlesSame
  <2>4. CASE c = k
    <3>1. s \in DOMAIN removals[k].branch
      BY <1>7, <2>4 DEF Handles
    <3>2. CASE s = "encloses"
      <4>1. n \in DOMAIN found /\ t = "enclosedBy"
        <5>1. n \in DOMAIN removals[k].branch[s].found
          BY <1>7, <2>4, <3>1, <3>2 DEF Handles
        <5> QED BY <3>2, <5>1, Counterparts DEF found
      <4>2. n \in Node
        BY <4>1, ComponentsFree DEF found
      <4>3. NodeOf(Child(k, n)) = n
        BY <1>2, <4>2, ChildFacts
      <4>4. Child(k, n) \in DOMAIN removals'
        BY <4>1 DEF Components, found
      <4>5. Exempt(n, t)'
        BY <4>1, <4>3, <4>4 DEF Exempt, Component
      <4> QED BY <1>7, <4>5
    <3>3. CASE s # "encloses"
      <4>1. removals'[k].branch[s] = removals[k].branch[s]
        BY <1>1, <3>1, <3>3
      <4> QED BY <1>1, <1>7, <2>2, <2>4, <3>1, <3>3, <4>1 DEF Handles
    <3> QED BY <3>2, <3>3
  <2> QED BY <2>3, <2>4
<1>8. \A n : Edited(n) => Edited(n)'
  BY DEF Edited
<1> QED BY <1>2, <1>3, <1>5, <1>6, <1>7, <1>8, CallsSound

\* _delValidityCheck of every component, then removeNode of every component.
LEMMA ValidateRefs ==
    ASSUME NEW F, Forest(F), IInv, TInv, SInv, Core(F), NEW k \in DOMAIN removals,
           NEW t \in RelationType, ValidateTargets(k, t)
    PROVE  Core(F)'
<1>1. t = "encloses" /\ NodeRelations["encloses"].mapping = "enclosedBy"
  <2>1. Cascades(t)
    BY ValidateFacts
  <2> QED BY <2>1, Counterparts DEF NodeRelations
<1>2. /\ "encloses" \in DOMAIN removals[k].branch /\ removals[k].branch["encloses"].at = "validate"
      /\ UNCHANGED <<db, phase, unlinks, adds>>
  BY <1>1, ValidateFacts
<1>3. CASE /\ Changes(k) /\ removals'[k].stage = "failed"
           /\ BranchIs(k, "encloses", [at |-> "calls", found |-> <<>>])
  BY <1>2, <1>3, RejectedRefs
<1>4. CASE ~(/\ Changes(k) /\ removals'[k].stage = "failed"
             /\ BranchIs(k, "encloses", [at |-> "calls", found |-> <<>>]))
  <2>1. /\ DOMAIN removals' = DOMAIN removals \cup Components(k, t)
        /\ removals'[k].stage = removals[k].stage
        /\ removals'[k].rels = removals[k].rels /\ removals'[k].src = removals[k].src
        /\ BranchIs(k, t,
                    [at |-> "calls", found |-> removals[k].branch[t].found])
        /\ \A c \in DOMAIN removals : c # k => removals'[c] = removals[c]
        /\ \A c \in Components(k, t) :
              /\ NewCall(c, NodeRelations[t].mapping)
              /\ removals'[c] = NewRemoval(removals[k].branch[t].found[NodeOf(c)], NodeRelations[t].mapping)
    <3>1. ~(/\ Changes(k) /\ removals'[k].stage = "failed"
            /\ BranchIs(k, t, [at |-> "calls", found |-> <<>>]))
      BY <1>1, <1>4
    <3> QED BY <3>1, ValidateFacts
  <2>2. /\ DOMAIN removals' = DOMAIN removals \cup Components(k, "encloses")
        /\ removals'[k].stage = removals[k].stage
        /\ removals'[k].rels = removals[k].rels /\ removals'[k].src = removals[k].src
        /\ BranchIs(k, "encloses",
                    [at |-> "calls", found |-> removals[k].branch["encloses"].found])
        /\ \A c \in DOMAIN removals : c # k => removals'[c] = removals[c]
        /\ \A c \in Components(k, "encloses") :
              /\ NewCall(c, "enclosedBy")
              /\ removals'[c] = NewRemoval(removals[k].branch["encloses"].found[NodeOf(c)], "enclosedBy")
    BY <1>1, <2>1
  <2>3. \A c \in Components(k, "encloses") :
              /\ NewCall(c, "enclosedBy")
              /\ removals'[c].rels = removals[k].branch["encloses"].found[NodeOf(c)]
    BY <2>2 DEF NewRemoval
  <2> QED BY <1>2, <2>2, <2>3, CalledRefs
<1> QED BY <1>3, <1>4

\* A call whose branches are done handles nothing any more.
LEMMA DoneHandles ==
    ASSUME NEW k \in DOMAIN removals,
           (removals[k].stage = "branches" /\ BranchesDone(k)) \/ removals[k].stage \in {"destroy", "publish"},
           NEW n, NEW t \in RelationType, Handles(k, n, t)
    PROVE  FALSE
<1> DEFINE s == NodeRelations[t].mapping
<1>1. removals[k].stage = "branches" /\ BranchesDone(k)
  BY DEF Handles
<1>2. s \in DOMAIN removals[k].branch
  BY <1>1 DEF Handles
<1>3. BranchDone(k, s) /\ NodeRelations[s].mapping = t
  BY <1>1, <1>2, Counterparts DEF BranchesDone
<1>4. /\ removals[k].branch[s].at = "calls"
      /\ \A u \in unlinks : ~(u.by = k /\ u.type = t)
  BY <1>3 DEF BranchDone
<1> QED BY <1>1, <1>2, <1>4 DEF Handles

\* A collection of documents is cleared, or the failure of the datastore swallowed: the
\* inventory stays.
LEMMA ClearedRefs ==
    ASSUME NEW F, IInv, TInv, Core(F), NEW k \in DOMAIN removals, NEW c \in Cleared,
           Destroy(k, c), db' = db
    PROVE  Core(F)'
<1>1. /\ Changes(k) /\ removals'[k].branch = removals[k].branch
      /\ UNCHANGED <<phase, unlinks, adds>>
      /\ (removals[k].stage = "branches" /\ BranchesDone(k)) \/ removals[k].stage = "destroy"
  BY DestroyFacts DEF SameBranches
<1>2. Advances(k)
  BY <1>1 DEF Advances, Changes, Called
<1>3. CallFits(F, k)
  BY DEF Core
<1>4. FoundFits(F, k)' /\ DOMAIN removals'[k].branch \subseteq Types(k)
  BY <1>1, <1>3 DEF CallFits, FoundFits
<1>5. \A n : \A t \in RelationType : ~Handles(k, n, t)
  BY <1>1, DoneHandles
<1> QED BY <1>1, <1>2, <1>4, <1>5, ChangesSound

\* No call of the request of k that is still looking for nodes wants the node of k, but
\* one about a component of it.
LEMMA NotWanted ==
    ASSUME NEW F, Forest(F), IInv, TInv, Core(F), NEW k \in DOMAIN removals,
           NEW c \in DOMAIN removals, c.req = k.req, NEW t \in RelationType,
           NodeRelations[t].mapping = "encloses" => Uncalled(c),
           NEW n \in Node, n # NodeOf(k), NodeOf(c) \in Node, <<n, t, NodeOf(c)>> \in F.links,
           IndexOf(removals[c].rels, NodeRelations[t].mapping) # 0
    PROVE  NodeOf(k) \notin Wanted(c, NodeRelations[t].mapping)
<1> DEFINE s == NodeRelations[t].mapping
           m == NodeOf(c)
           gone == NodeOf(k)
<1> SUFFICES ASSUME gone \in Wanted(c, s) PROVE FALSE
  OBVIOUS
<1>1. gone \in Node /\ F.top[gone] = F.top[Op[k.req].node] /\ F.top[m] = F.top[Op[c.req].node]
  BY CallFacts
<1>2. s \in RelationType /\ (t = "encloses" <=> s = "enclosedBy")
  BY Counterparts
<1>3. <<m, s, gone>> \in F.links
  BY <1>1, WantedLinks
<1>4. <<m, s, n>> \in F.links
  <2>1. m \in Node /\ <<n, t, m>> \in F.links
    OBVIOUS
  <2> HIDE DEF m
  <2> QED BY <2>1, LinkFacts
<1>5. s # "encloses"
  <2>1. CASE s = "encloses"
    BY <1>3, <2>1, NotYetCalled
  <2> QED BY <2>1
<1>6. m \in Node /\ F.top[gone] = F.top[m]
  BY <1>1
<1> HIDE DEF s, m, gone
<1>7. s \in Component
  BY <1>1, <1>2, <1>3, <1>6, LinkFacts
<1>8. s = "enclosedBy"
  BY <1>5, <1>7 DEF Component
<1>9. gone = n
  <2>1. <<m, "enclosedBy", gone>> \in F.links /\ <<m, "enclosedBy", n>> \in F.links
    BY <1>3, <1>4, <1>8
  <2> QED BY <1>1, <1>2, <1>8, <1>6, <2>1, LinkFacts
<1> QED BY <1>9 DEF gone

\* The node's document is destroyed: whoever still lists it is exempt.
LEMMA TakenRefs ==
    ASSUME NEW F, Forest(F), IInv, TInv, SInv, Core(F), NEW k \in DOMAIN removals,
           Changes(k), SameBranches(k), db' = NodeTaken(k), UNCHANGED <<phase, unlinks, adds>>,
           ~Edited(NodeOf(k)), Open(k),
           \A n : \A t \in RelationType : ~Handles(k, n, t)
    PROVE  Core(F)'
<1> DEFINE gone == NodeOf(k)
<1>1. /\ DOMAIN db' = DOMAIN db \ {gone} /\ \A n \in DOMAIN db' : db'[n] = db[n]
      /\ DOMAIN removals' = DOMAIN removals /\ DOMAIN db \subseteq Node
      /\ \A c \in DOMAIN removals : c # k => removals'[c] = removals[c]
  BY DEF NodeTaken, Changes, IInv, CallsTyped
<1> HIDE DEF gone
<1>2. ASSUME NEW c \in DOMAIN removals
      PROVE  /\ removals'[c].rels = removals[c].rels /\ removals'[c].src = removals[c].src
             /\ removals'[c].branch = removals[c].branch
  BY <1>1 DEF Changes, SameBranches
<1>3. \A c \in DOMAIN removals : Advances(c)
  BY <1>2 DEF Advances, Called
<1>4. \A n, t : Exempt(n, t) => Exempt(n, t)'
  BY <1>1, <1>3, ExemptGrows
<1>5. \A n : Edited(n) => Edited(n)'
  BY DEF Edited
<1>6. StoreFits(F)' /\ PushesDocuments'
  BY <1>1, <1>5 DEF Core, StoreFits, PushesDocuments
<1>7. \A c \in DOMAIN removals : Pending(c) => c.req = k.req
  BY SameRequest DEF Pending
<1>8. ASSUME NEW c \in DOMAIN removals' PROVE CallFits(F, c)'
  <2>1. CallFits(F, c) /\ c \in DOMAIN removals
    BY <1>1 DEF Core
  <2>2. Placed(F, c)'
    <3>1. Placed(F, c)
      BY <2>1 DEF CallFits
    <3>2. \A d \in DOMAIN removals' : d.req = c.req /\ NodeOf(d) = NodeOf(c) => d = c
      BY <1>1, <3>1 DEF Placed
    <3> QED BY <1>1, <1>3, <2>1, <3>1, <3>2, PlacedGrows
  <2>3. FoundFits(F, c)'
    <3> SUFFICES ASSUME "encloses" \in DOMAIN removals[c].branch,
                        NEW x \in DOMAIN removals[c].branch["encloses"].found
                 PROVE  /\ <<NodeOf(c), "encloses", x>> \in F.links
                        /\ removals[c].branch["encloses"].at = "validate" =>
                              x \in DOMAIN db' /\ removals[c].branch["encloses"].found[x] = db'[x]
      BY <1>2, <2>1 DEF FoundFits
    <3>1. <<NodeOf(c), "encloses", x>> \in F.links
      BY <2>1 DEF CallFits, FoundFits
    <3>2. CASE removals[c].branch["encloses"].at = "validate"
      <4>1. c.req = k.req
        BY <1>7, <2>1, <3>2 DEF Pending
      <4>2. /\ x \in DOMAIN db /\ removals[c].branch["encloses"].found[x] = db[x]
            /\ \A d \in DOMAIN removals : d.req = c.req => NodeOf(d) # x
        BY <2>1, <3>2, ComponentsFree
      <4>3. x # gone
        BY <4>1, <4>2 DEF gone
      <4> QED BY <1>1, <3>1, <4>2, <4>3
    <3> QED BY <3>1, <3>2
  <2>4. Types(c)' = Types(c)
    BY <1>2, <2>1 DEF Types
  <2> QED BY <1>2, <2>1, <2>2, <2>3, <2>4 DEF CallFits
<1>9. ASSUME NEW u \in unlinks' PROVE UnlinkFits(F, u)'
  <2>1. UnlinkFits(F, u)
    BY DEF Core
  <2>2. u.by \in DOMAIN removals => /\ u.by \in DOMAIN removals'
                                    /\ removals'[u.by].branch = removals[u.by].branch
                                    /\ removals'[u.by].src = removals[u.by].src
    BY <1>1, <1>2
  <2> QED BY <1>1, <2>1, <2>2 DEF UnlinkFits, Withdraws
<1>10. AllMutual'
  <2> SUFFICES ASSUME NEW n \in DOMAIN db', NEW t \in RelationType, NEW m \in Ids(db'[n], t),
                      ~Exempt(n, t)'
               PROVE  Mutual(n, t, m)'
    BY DEF AllMutual
  <2>1. n \in DOMAIN db /\ n # gone /\ m \in Ids(db[n], t) /\ n \in Node /\ m \in Node
    BY <1>1 DEF Ids
  <2>2. Mutual(n, t, m)
    BY <1>4, <2>1 DEF Core, AllMutual
  <2>3. m # gone
    BY <2>2 DEF Mutual, gone
  <2>4. m \in DOMAIN db' /\ db'[m] = db[m]
    BY <1>1, <2>2, <2>3 DEF Mutual
  <2>5. CASE Edited(m)
    BY <1>5, <2>4, <2>5 DEF Mutual
  <2>6. CASE ~Edited(m)
    <3>1. <<n, t, m>> \in F.links
      BY <2>1, WithinIds DEF Core, StoreFits
    <3>2. ASSUME NEW c \in DOMAIN removals', NodeOf(c) = m PROVE Handles(c, n, t)'
      <4> DEFINE s == NodeRelations[t].mapping
      <4>1. c \in DOMAIN removals /\ c # k /\ Handles(c, n, t)
        BY <1>1, <2>2, <2>3, <2>6, <3>2 DEF Mutual, gone
      <4>2. removals'[c] = removals[c]
        BY <1>1, <4>1
      <4>3. CASE removals[c].stage = "check" \/ (DOMAIN removals[c].branch # {} /\ removals[c].branch[s].at = "find")
        <5>1. Sees(c, n, s) => Sees(c, n, s)'
          <6> SUFFICES ASSUME Sees(c, n, s) PROVE Sees(c, n, s)'
            OBVIOUS
          <6>1. c.req = k.req
            <7>1. Pending(c)
              BY <4>1, <4>3 DEF Pending, Open, Handles
            <7> QED BY <1>7, <4>1, <7>1
          <6>2. s = "encloses" => Uncalled(c)
            <7>1. removals[c].stage = "check" => DOMAIN removals[c].branch = {}
              BY <4>1 DEF IInv, CallsTyped, CallShape
            <7> QED BY <4>3, <7>1 DEF Uncalled
          <6>3. IndexOf(removals[c].rels, s) # 0 /\ Wanted(c, s) \subseteq DOMAIN db
            BY DEF Sees
          <6>4. gone \notin Wanted(c, s)
            BY <2>1, <3>1, <3>2, <4>1, <6>1, <6>2, <6>3, NotWanted DEF gone
          <6>5. Wanted(c, s) \subseteq DOMAIN db'
            BY <1>1, <6>3, <6>4
          <6> QED BY <4>2, <6>5, SeesSame
        <5> QED BY <4>1, <4>2, <5>1, HandlesSame
      <4>4. CASE ~(removals[c].stage = "check" \/ (DOMAIN removals[c].branch # {} /\ removals[c].branch[s].at = "find"))
        BY <4>1, <4>2, <4>4 DEF Handles
      <4> QED BY <4>3, <4>4
    <3> QED BY <1>1, <2>2, <2>4, <2>6, <3>2 DEF Mutual
  <2> QED BY <2>5, <2>6
<1> QED BY <1>6, <1>8, <1>9, <1>10 DEF Core

\* Promise.settle over the collections of the node.
LEMMA DestroyRefs ==
    ASSUME NEW F, Forest(F), IInv, TInv, SInv, Core(F), NEW k \in DOMAIN removals,
           NEW c \in Cleared, Destroy(k, c), ~EditedGone'
    PROVE  Core(F)'
<1>1. /\ Changes(k) /\ SameBranches(k) /\ UNCHANGED <<phase, unlinks, adds>>
      /\ (removals[k].stage = "branches" /\ BranchesDone(k)) \/ removals[k].stage = "destroy"
      /\ db' = db \/ db' = NodeTaken(k)
  BY DestroyFacts
<1>2. CASE db' = db
  BY <1>2, ClearedRefs
<1>3. CASE db' = NodeTaken(k)
  <2>1. NodeOf(k) \in Node
    BY CallFacts
  <2>2. NodeOf(k) \notin DOMAIN db'
    BY <1>3 DEF NodeTaken
  <2>3. ~Edited(NodeOf(k))
    BY <1>1, <2>1, <2>2 DEF EditedGone, Edited
  <2>4. Open(k)
    BY <1>1 DEF Open
  <2>5. \A n : \A t \in RelationType : ~Handles(k, n, t)
    BY <1>1, DoneHandles
  <2> QED BY <1>1, <1>3, <2>3, <2>4, <2>5, TakenRefs
<1> QED BY <1>1, <1>2, <1>3

\* A node that a deletion withdraws its node from is not found among the components of
\* a call that still has to validate them.
LEMMA NotFound ==
    ASSUME NEW F, Forest(F), IInv, TInv, SInv, Core(F), NEW u \in unlinks,
           Op[u.by.req].kind = "delete", NEW c \in DOMAIN removals,
           "encloses" \in DOMAIN removals[c].branch, removals[c].branch["encloses"].at = "validate"
    PROVE  u.node \notin DOMAIN removals[c].branch["encloses"].found
<1> SUFFICES ASSUME u.node \in DOMAIN removals[c].branch["encloses"].found PROVE FALSE
  OBVIOUS
<1> DEFINE k == u.by
           w == u.node
           ty == u.type
           n == NodeOf(c)
           m == NodeOf(k)
           root == Op[c.req].node
<1>1. /\ k \in DOMAIN removals /\ w \in Node /\ ty \in RelationType
      /\ <<w, ty, m>> \in F.links
      /\ ty # "enclosedBy" /\ (ty = "encloses" => removals[k].src = "none")
  BY DEF Core, UnlinkFits, Withdraws, TInv, UnlinkCall
<1>2. k.req = c.req
  <2>1. Pending(c)
    BY DEF Pending
  <2> QED BY <2>1, SameRequest
<1>3. <<n, "encloses", w>> \in F.links
  BY DEF Core, CallFits, FoundFits
<1>4. /\ n \in Node /\ m \in Node /\ root \in Node
      /\ F.top[n] = F.top[root] /\ F.top[m] = F.top[root]
      /\ F.depth[n] \in Nat /\ F.depth[root] \in Nat /\ F.depth[root] <= F.depth[n]
      /\ removals[k].src = "none" => m = root
  BY <1>1, <1>2, CallFacts
<1>5. F.depth[w] \in Nat /\ "encloses" \in RelationType
  BY <1>1 DEF Forest, RelationType, NodeRelations
<1> HIDE DEF k, w, ty, n, m, root
<1>6. F.top[n] = F.top[w] /\ F.depth[n] < F.depth[w]
  BY <1>1, <1>3, <1>4, <1>5, LinkFacts
<1>7. ty = "encloses"
  <2>1. ty \in Component
    BY <1>1, <1>4, <1>6, LinkFacts
  <2> QED BY <1>1, <2>1 DEF Component
<1>8. m = root /\ F.depth[w] < F.depth[m]
  BY <1>1, <1>4, <1>7, LinkFacts
<1> QED BY <1>4, <1>5, <1>6, <1>8

\* What a deletion withdraws from is exempt in return.
LEMMA WithdrawnExempt ==
    ASSUME NEW F, Forest(F), IInv, TInv, Core(F), NEW u \in unlinks,
           Op[u.by.req].kind = "delete", NEW t \in RelationType,
           <<NodeOf(u.by), t, u.node>> \in F.links
    PROVE  Exempt(NodeOf(u.by), t)
<1> DEFINE k == u.by
           w == u.node
           ty == u.type
           m == NodeOf(k)
<1>1. /\ k \in DOMAIN removals /\ w \in Node /\ ty \in RelationType
      /\ <<w, ty, m>> \in F.links /\ ty # "enclosedBy" /\ DOMAIN removals[k].branch # {}
  BY DEF Core, UnlinkFits, Withdraws, TInv, UnlinkCall
<1>2. m \in Node
  BY <1>1, CallFacts
<1>3. F.depth[w] \in Nat /\ F.depth[m] \in Nat /\ <<m, t, w>> \in F.links
  BY <1>1, <1>2 DEF Forest
<1> HIDE DEF k, w, ty, m
<1>4. ty \notin Component => F.top[w] # F.top[m]
  BY <1>1, <1>2, LinkFacts
<1>5. t = "encloses" => F.top[m] = F.top[w] /\ F.depth[m] < F.depth[w]
  BY <1>1, <1>2, <1>3, LinkFacts
<1>6. t # "encloses"
  <2> SUFFICES ASSUME t = "encloses" PROVE FALSE
    OBVIOUS
  <2>1. F.top[w] = F.top[m] /\ F.depth[m] < F.depth[w]
    BY <1>5
  <2>2. ty = "encloses"
    <3>1. ty \in Component
      BY <1>4, <2>1
    <3> QED BY <1>1, <3>1 DEF Component
  <2>3. F.depth[w] < F.depth[m]
    BY <1>1, <1>2, <2>2, LinkFacts
  <2> QED BY <1>3, <2>1, <2>3
<1> QED BY <1>1, <1>6 DEF Exempt, k, m

\* A deletion writes the document of a neighbour, which loses no id but that of the
\* node withdrawn.
LEMMA WithdrawKeeps ==
    ASSUME NEW F, Forest(F), IInv, TInv, SInv, Core(F), NEW u \in unlinks,
           Op[u.by.req].kind = "delete", NEW new, Writes(u.node, new),
           UNCHANGED <<removals, phase, adds>>,
           u.node \in DOMAIN db =>
              /\ Fewer(db[u.node], new) /\ (ByIds(db[u.node]) => ByIds(new))
              /\ \A t : Ids(db[u.node], t) \ {NodeOf(u.by)} \subseteq Ids(new, t)
              /\ u.stage = "pull" /\ NodeOf(u.by) \in Ids(db[u.node], u.type) =>
                    NodeOf(u.by) \notin Ids(new, u.type)
              /\ \A v \in unlinks : v # u /\ v.node = u.node /\ v.stage = "pull"
                    /\ NodeOf(v.by) \in Ids(new, v.type) =>
                          IndexOf(new, v.type) = IndexOf(db[u.node], v.type),
           u.node \in DOMAIN db /\ u.stage = "blank" =>
              \A t : Ids(db[u.node], t) \subseteq Ids(new, t),
           unlinks \ {u} \subseteq unlinks',
           \A v \in unlinks' : \/ v \in unlinks /\ v # u
                               \/ /\ v.by = u.by /\ v.node = u.node /\ v.type = u.type
                                  /\ v.targets = u.targets /\ v.stage = "blank"
    PROVE  Core(F)'
<1> DEFINE w == u.node
           k0 == u.by
<1>1. DOMAIN db' = DOMAIN db /\ \A m \in DOMAIN db \ {w} : db'[m] = db[m]
  BY DEF Writes
<1>2. \A n : Edited(n) => Edited(n)'
  BY EditedKept
<1>3. w \in DOMAIN db => db'[w] = new
  BY DEF Writes
<1>4. u \in UnlinkCall /\ Withdraws(F, u)
  BY DEF TInv, Core, UnlinkFits
<1>5. ASSUME NEW n \in DOMAIN db' PROVE Single(db'[n]) /\ Within(F, n, db'[n]) /\ (Edited(n)' \/ ByIds(db'[n]))
  <2>1. Single(db[n]) /\ Within(F, n, db[n]) /\ (Edited(n) \/ ByIds(db[n]))
    BY <1>1, <1>5 DEF Core, StoreFits
  <2>2. CASE n = w
    BY <1>1, <1>2, <1>3, <1>5, <2>1, <2>2, FewerWithin DEF Fewer
  <2>3. CASE n # w
    BY <1>1, <1>2, <1>5, <2>1, <2>3
  <2> QED BY <2>2, <2>3
<1>6. ASSUME NEW k \in DOMAIN removals' PROVE CallFits(F, k)'
  <2>1. CallFits(F, k) /\ k \in DOMAIN removals
    BY <1>6 DEF Core
  <2>2. Placed(F, k)'
    BY <2>1, PlacedSame DEF CallFits
  <2>3. FoundFits(F, k)'
    <3> SUFFICES ASSUME "encloses" \in DOMAIN removals[k].branch,
                        NEW x \in DOMAIN removals[k].branch["encloses"].found
                 PROVE  /\ <<NodeOf(k), "encloses", x>> \in F.links
                        /\ removals[k].branch["encloses"].at = "validate" =>
                              x \in DOMAIN db' /\ removals[k].branch["encloses"].found[x] = db'[x]
      BY DEF FoundFits
    <3>1. /\ <<NodeOf(k), "encloses", x>> \in F.links
          /\ removals[k].branch["encloses"].at = "validate" =>
                x \in DOMAIN db /\ removals[k].branch["encloses"].found[x] = db[x]
      BY <2>1 DEF CallFits, FoundFits
    <3>2. removals[k].branch["encloses"].at = "validate" => x # w
      BY <2>1, NotFound
    <3> QED BY <1>1, <3>1, <3>2
  <2>4. Types(k)' = Types(k)
    BY DEF Types
  <2> QED BY <2>1, <2>2, <2>3, <2>4 DEF CallFits
<1>7. ASSUME NEW v \in unlinks' PROVE UnlinkFits(F, v)'
  <2>1. CASE v \in unlinks /\ v # u
    <3>1. UnlinkFits(F, v)
      BY <2>1 DEF Core
    <3>2. CASE v.node = w /\ v.stage = "pull" /\ w \in DOMAIN db /\ NodeOf(v.by) \in Ids(new, v.type)
      <4>1. IndexOf(new, v.type) = IndexOf(db[w], v.type) /\ NodeOf(v.by) \in Ids(db[w], v.type)
        BY <2>1, <3>2 DEF Fewer
      <4>2. db'[v.node] = new
        BY <1>3, <3>2
      <4> QED BY <3>1, <3>2, <4>1, <4>2 DEF UnlinkFits, Withdraws
    <3>3. CASE v.node = w /\ ~(v.stage = "pull" /\ w \in DOMAIN db /\ NodeOf(v.by) \in Ids(new, v.type))
      BY <1>1, <1>3, <3>1, <3>3 DEF UnlinkFits, Withdraws
    <3>4. CASE v.node # w
      BY <1>1, <3>1, <3>4 DEF UnlinkFits, Withdraws
    <3> QED BY <3>2, <3>3, <3>4
  <2>2. CASE /\ v.by = u.by /\ v.node = u.node /\ v.type = u.type
             /\ v.targets = u.targets /\ v.stage = "blank"
    BY <1>4, <2>2 DEF UnlinkFits, Withdraws
  <2> QED BY <1>7, <2>1, <2>2
<1>8. AllMutual'
  <2> SUFFICES ASSUME NEW n \in DOMAIN db', NEW t \in RelationType, NEW m \in Ids(db'[n], t),
                      ~Exempt(n, t)'
               PROVE  Mutual(n, t, m)'
    BY DEF AllMutual
  <2> DEFINE s == NodeRelations[t].mapping
  <2>1. n \in DOMAIN db /\ n \in Node /\ m \in Node /\ m \in Ids(db[n], t) /\ ~Exempt(n, t)
    <3>1. m \in Ids(db[n], t)
      BY <1>1, <1>3 DEF Fewer
    <3>2. ~Exempt(n, t)
      BY ExemptSame
    <3>3. n \in Node /\ m \in Node
      <4>1. DOMAIN db \subseteq Node
        BY DEF IInv, CallsTyped
      <4> QED BY <1>1, <3>1, <4>1 DEF Ids
    <3> QED BY <1>1, <3>1, <3>2, <3>3
  <2>2. Mutual(n, t, m)
    BY <2>1 DEF Core, AllMutual
  <2>3. CASE Edited(m)
    BY <1>1, <1>2, <2>2, <2>3 DEF Mutual
  <2>4. CASE ~Edited(m)
    <3>1. m \in DOMAIN db /\ n \in Ids(db[m], s) /\ \A k \in DOMAIN removals : NodeOf(k) = m => Handles(k, n, t)
      BY <2>2, <2>4 DEF Mutual
    <3>2. n \in Ids(db'[m], s)
      <4>1. CASE m # w
        BY <1>1, <3>1, <4>1
      <4>2. CASE m = w /\ n # NodeOf(k0)
        BY <1>3, <3>1, <4>2
      <4>3. CASE m = w /\ n = NodeOf(k0)
        <5>1. <<n, t, m>> \in F.links
          BY <2>1, WithinIds DEF Core, StoreFits
        <5> QED BY <2>1, <4>3, <5>1, WithdrawnExempt
      <4> QED BY <4>1, <4>2, <4>3
    <3>3. ASSUME NEW k \in DOMAIN removals', NodeOf(k) = m PROVE Handles(k, n, t)'
      <4>1. Handles(k, n, t)
        BY <3>1, <3>3
      <4>2. Sees(k, n, s) => Sees(k, n, s)'
        BY <1>1, SeesSame DEF Sees
      <4>3. ASSUME NEW v \in unlinks, v.by = k, v.node = n, v.type = t, v.stage = "pull"
            PROVE  v \in unlinks'
        <5>1. CASE v = u
          <6>1. n = w /\ m = NodeOf(k0) /\ t = u.type /\ u.stage = "pull" /\ w \in DOMAIN db
            BY <2>1, <3>3, <4>3, <5>1
          <6> QED BY <1>3, <2>1, <6>1
        <5>2. CASE v # u
          BY <5>2
        <5> QED BY <5>1, <5>2
      <4> QED BY <4>1, <4>2, <4>3, HandlesSame
    <3> QED BY <1>1, <3>1, <3>2, <3>3 DEF Mutual
  <2> QED BY <2>3, <2>4
<1>9. StoreFits(F)' /\ PushesDocuments'
  BY <1>5 DEF StoreFits, Core, PushesDocuments
<1> QED BY <1>6, <1>7, <1>8, <1>9 DEF Core

\* A link of the inventory stays in its tree when it is one between components, and
\* leaves it otherwise.
LEMMA SameTree ==
    ASSUME NEW F, Forest(F), NEW n \in Node, NEW m \in Node, NEW t \in RelationType,
           <<n, t, m>> \in F.links
    PROVE  F.top[n] = F.top[m] <=> t \in Component
<1>1. /\ <<m, NodeRelations[t].mapping, n>> \in F.links
      /\ t = "encloses" => F.top[n] = F.top[m] /\ F.depth[n] < F.depth[m]
      /\ t = "enclosedBy" => F.top[n] = F.top[m] /\ F.depth[m] < F.depth[n]
      /\ t \notin Component => F.top[n] # F.top[m]
      /\ \A x \in Node : t = "enclosedBy" /\ <<n, t, x>> \in F.links => x = m
  BY LinkFacts, ZenonT(30)
<1> QED BY <1>1 DEF Component

\* The links from a node into another tree are all of one type.
LEMMA OneType ==
    ASSUME NEW F, Forest(F), NEW n \in Node, NEW m \in Node, NEW x \in Node,
           NEW t \in RelationType \ Component, NEW s \in RelationType \ Component,
           <<n, t, m>> \in F.links, <<n, s, x>> \in F.links, F.top[x] = F.top[m]
    PROVE  s = t
<1>1. t \in RelationType /\ t \notin Component
  OBVIOUS
<1>2. \A q \in RelationType : <<n, q, m>> \in F.links =>
          \A y \in Node : \A r \in RelationType \ Component :
             q \notin Component /\ <<n, r, y>> \in F.links /\ F.top[y] = F.top[m] => r = q
  BY Zenon DEF Forest
<1> QED BY <1>1, <1>2

\* While the node of the deletion is still listed, the item of its type has a target, so
\* that no blank item of that type is there to be dropped: positions stay.
LEMMA DropPlaces ==
    ASSUME NEW F, Forest(F), IInv, TInv, SInv, Core(F), NEW u \in unlinks,
           Op[u.by.req].kind = "delete", u.node \in DOMAIN db,
           NEW v \in unlinks, v.node = u.node, NodeOf(v.by) \in Ids(db[u.node], v.type)
    PROVE  IndexOf(PullBlank(db[u.node], u.type), v.type) = IndexOf(db[u.node], v.type)
<1> DEFINE w == u.node
           doc == db[w]
           new == PullBlank(doc, u.type)
           i == IndexOf(doc, v.type)
           h == IndexOf(new, v.type)
           m0 == NodeOf(u.by)
           m == NodeOf(v.by)
           ty == u.type
           tv == v.type
           root == Op[u.by.req].node
<1>1. /\ u \in UnlinkCall /\ v \in UnlinkCall
      /\ w \in Node /\ ty \in RelationType /\ tv \in RelationType
      /\ doc \in Relations /\ Single(doc)
  BY DEF TInv, UnlinkCall, StoreTyped, Core, StoreFits
<1>2. v.by.req = u.by.req
  <2>1. u.by.req \in Request
    BY <1>1 DEF UnlinkCall, CallId
  <2>2. InFlight(u.by.req)
    BY DEF InFlight
  <2> QED BY <2>1, <2>2, NothingElse
<1>3. Withdraws(F, u) /\ Withdraws(F, v)
  BY <1>2 DEF Core, UnlinkFits
<1>4. /\ u.by \in DOMAIN removals /\ v.by \in DOMAIN removals
      /\ <<w, ty, m0>> \in F.links /\ <<w, tv, m>> \in F.links
      /\ ty # "enclosedBy" /\ tv # "enclosedBy"
  BY <1>3 DEF Withdraws
<1>5. /\ m0 \in Node /\ m \in Node /\ F.top[m0] = F.top[root] /\ F.top[m] = F.top[root]
  BY <1>2, <1>4, CallFacts
<1>6. ty = tv
  <2> HIDE DEF w, doc, new, i, h, m0, m, ty, tv, root
  <2>1. F.top[w] = F.top[m0] <=> ty \in Component
    BY <1>1, <1>4, <1>5, SameTree
  <2>2. F.top[w] = F.top[m] <=> tv \in Component
    BY <1>1, <1>4, <1>5, SameTree
  <2>3. (ty \in Component <=> ty = "encloses") /\ (tv \in Component <=> tv = "encloses")
    BY <1>4 DEF Component
  <2>4. ty = "encloses" <=> tv = "encloses"
    BY <1>5, <2>1, <2>2, <2>3
  <2>5. ASSUME ty \notin Component, tv \notin Component PROVE ty = tv
    <3>1. ty \in RelationType \ Component /\ tv \in RelationType \ Component
      BY <1>1, <2>5
    <3>2. F.top[m] = F.top[m0]
      BY <1>5
    <3> QED BY <1>1, <1>4, <1>5, <3>1, <3>2, OneType
  <2> QED BY <2>3, <2>4, <2>5
<1>7. i # 0 /\ i \in DOMAIN doc /\ doc[i].relationType = tv /\ m \in ToSet(doc[i].targets)
  BY <1>1, IdsAt
<1>8. \A j \in DOMAIN doc : doc[j] \notin {Blank(ty)}
  <2> SUFFICES ASSUME NEW j \in DOMAIN doc, doc[j] = Blank(ty) PROVE FALSE
    OBVIOUS
  <2>1. doc[j].relationType = ty /\ ToSet(doc[j].targets) = {}
    BY DEF Blank, ToSet
  <2>2. j = i
    BY <1>1, <1>6, <1>7, <2>1 DEF Single
  <2> QED BY <1>7, <2>1, <2>2
<1>9. i \in DOMAIN new /\ new[i] = doc[i]
  <2>1. doc \in Seq(Item) /\ new = Without(doc, {Blank(ty)})
    BY <1>1 DEF Relations, PullBlank
  <2> HIDE DEF doc, new, i, h
  <2> QED BY <1>7, <1>8, <2>1, NothingDropped
<1>10. new \in Relations /\ Single(new)
  BY <1>1, PullBlankFacts, BlankIds DEF Fewer
<1>11. /\ h # 0 => h \in DOMAIN new /\ new[h].relationType = tv
       /\ h = 0 => \A j \in DOMAIN new : new[j].relationType # tv
  BY <1>10, IndexFacts
<1> HIDE DEF doc, new, i, h, tv
<1>12. h = i
  BY <1>7, <1>9, <1>10, <1>11 DEF Single
<1> QED BY <1>12 DEF doc, new, i, h, tv, w

\* removeRelation, when a deletion called it.
LEMMA DeletionUnlinkRefs ==
    ASSUME NEW F, Forest(F), IInv, TInv, SInv, Core(F), NEW u \in unlinks,
           Op[u.by.req].kind = "delete", PullFromRelation(u) \/ DropBlankRelation(u)
    PROVE  Core(F)'
<1>1. u \in UnlinkCall /\ Withdraws(F, u) /\ u.targets = {NodeOf(u.by)}
  BY DEF TInv, Core, UnlinkFits, Withdraws
<1>2. u.node \in DOMAIN db => db[u.node] \in Relations /\ Single(db[u.node])
  BY DEF TInv, StoreTyped, Core, StoreFits
<1>3. CASE PullFromRelation(u)
  <2> DEFINE new == PullTargets(db[u.node], u.index, u.targets)
  <2>1. /\ Writes(u.node, new) /\ unlinks \ {u} \subseteq unlinks' /\ u.stage = "pull"
        /\ UNCHANGED <<removals, phase, adds>>
        /\ \A v \in unlinks' \ unlinks :
              v.by = u.by /\ v.node = u.node /\ v.type = u.type /\ v.targets = u.targets
    BY <1>3, PullStep
  <2>2. \A v \in unlinks' : (v \in unlinks /\ v # u) \/ v.stage = "blank"
    <3>1. \E i : unlinks' \subseteq (unlinks \ {u}) \cup {[u EXCEPT !.stage = "blank", !.index = i]}
      <4> DEFINE i == IndexOf(new, u.type)
                 again == IF i # 0 /\ new[i].targets = <<>>
                          THEN {[u EXCEPT !.stage = "blank", !.index = i]} ELSE {}
      <4>1. unlinks' = (unlinks \ {u}) \cup again \/ unlinks' = unlinks \ {u}
        BY <1>3 DEF PullFromRelation
      <4>2. again \subseteq {[u EXCEPT !.stage = "blank", !.index = i]}
        OBVIOUS
      <4> HIDE DEF again, i
      <4> QED BY <4>1, <4>2
    <3>2. \A i : [u EXCEPT !.stage = "blank", !.index = i].stage = "blank"
      BY <1>1 DEF UnlinkCall
    <3> QED BY <3>1, <3>2
  <2>3. u.node \in DOMAIN db =>
           /\ Fewer(db[u.node], new) /\ (ByIds(db[u.node]) => ByIds(new))
           /\ \A t : IndexOf(new, t) = IndexOf(db[u.node], t)
           /\ \A t : Ids(db[u.node], t) \ {NodeOf(u.by)} \subseteq Ids(new, t)
    BY <1>1, <1>2, PullIds
  <2>4. u.node \in DOMAIN db /\ NodeOf(u.by) \in Ids(db[u.node], u.type) =>
            NodeOf(u.by) \notin Ids(new, u.type)
    <3> SUFFICES ASSUME u.node \in DOMAIN db, NodeOf(u.by) \in Ids(db[u.node], u.type)
                 PROVE  NodeOf(u.by) \notin Ids(new, u.type)
      OBVIOUS
    <3>1. u.index = IndexOf(db[u.node], u.type)
      BY <1>1, <2>1 DEF Withdraws
    <3>2. IndexOf(db[u.node], u.type) # 0
      BY <1>2, IdsAt
    <3>3. Ids(new, u.type) \cap u.targets = {}
      BY <1>2, <3>1, <3>2, PullIds
    <3> QED BY <1>1, <3>3
  <2>5. \A v \in unlinks' : \/ v \in unlinks /\ v # u
                            \/ /\ v.by = u.by /\ v.node = u.node /\ v.type = u.type
                               /\ v.targets = u.targets /\ v.stage = "blank"
    BY <2>1, <2>2
  <2> HIDE DEF new
  <2> QED BY <2>1, <2>3, <2>4, <2>5, WithdrawKeeps
<1>4. CASE DropBlankRelation(u)
  <2> DEFINE new == PullBlank(db[u.node], u.type)
  <2>1. /\ Writes(u.node, new) /\ unlinks' = unlinks \ {u} /\ u.stage = "blank"
        /\ UNCHANGED <<removals, phase, adds>>
    BY <1>4, DropStep DEF DropBlankRelation
  <2>2. u.node \in DOMAIN db =>
           /\ Fewer(db[u.node], new) /\ (ByIds(db[u.node]) => ByIds(new))
           /\ \A t : Ids(new, t) = Ids(db[u.node], t)
           /\ \A t : Ids(db[u.node], t) \subseteq Ids(new, t)
           /\ \A t : Ids(db[u.node], t) \ {NodeOf(u.by)} \subseteq Ids(new, t)
    BY <1>2, BlankIds
  <2>3. u.node \in DOMAIN db =>
           \A v \in unlinks : v # u /\ v.node = u.node /\ v.stage = "pull"
              /\ NodeOf(v.by) \in Ids(new, v.type) =>
                    IndexOf(new, v.type) = IndexOf(db[u.node], v.type)
    BY <2>2, DropPlaces
  <2>4. /\ unlinks \ {u} \subseteq unlinks' /\ u.stage # "pull"
        /\ \A v \in unlinks' : v \in unlinks /\ v # u
    BY <2>1
  <2> HIDE DEF new
  <2> QED BY <2>1, <2>2, <2>3, <2>4, WithdrawKeeps
<1> QED BY <1>3, <1>4

\* removeNode goes on.
LEMMA RemoveNodeRefs ==
    ASSUME NEW F, Forest(F), "find" \notin Faults, IInv, TInv, SInv, Core(F), ~EditedGone',
           NEW k \in DOMAIN removals, RemoveNode(k)
    PROVE  Core(F)'
<1>1. CASE CheckActive(k)
  BY <1>1, CheckRefs
<1>2. CASE \E t \in RelationType : FindTargets(k, t)
  BY <1>2, FindRefs
<1>3. CASE \E t \in RelationType : ValidateTargets(k, t)
  BY <1>3, ValidateRefs
<1>4. CASE ComponentFailed(k) \/ Publish(k)
  BY <1>4, FailedRefs
<1>5. CASE \E c \in Cleared : Destroy(k, c)
  BY <1>5, DestroyRefs
<1> QED BY <1>1, <1>2, <1>3, <1>4, <1>5 DEF RemoveNode

\* Every step keeps the references sound, or an edited node is gone.
LEMMA NextRInv ==
    ASSUME NEW F, Forest(F), MaxInFlight = 1, {"find", "write"} \cap Faults = {}
    PROVE  IInv /\ TInv /\ SInv /\ RInv(F) /\ [Next]_vars => RInv(F)'
<1> SUFFICES ASSUME IInv, TInv, SInv, RInv(F), [Next]_vars PROVE RInv(F)'
  OBVIOUS
<1>1. CASE UNCHANGED vars
  <2>1. UNCHANGED <<db, phase, removals, unlinks, adds>>
    BY <1>1 DEF vars
  <2>2. \A n : Edited(n)' <=> Edited(n)
    BY <2>1 DEF Edited
  <2>3. CASE EditedGone
    BY <2>1, <2>2, <2>3 DEF RInv, EditedGone
  <2>4. CASE Core(F)
    <3>1. PushesDocuments'
      BY <2>1, <2>4 DEF Core, PushesDocuments
    <3>2. Core(F)'
      BY <2>1, <2>2, <2>4, <3>1, SameKeeps
    <3> QED BY <3>2 DEF RInv
  <2> QED BY <2>3, <2>4 DEF RInv
<1>2. CASE Next
  <2>1. /\ DOMAIN db' \subseteq DOMAIN db
        /\ \A r \in Request : phase[r] # "idle" => phase'[r] # "idle"
    BY <1>2, StepFacts
  <2>2. \A n : Edited(n) => Edited(n)'
    BY <2>1, EditedKept
  <2>3. EditedGone => EditedGone'
    BY <2>1, <2>2 DEF EditedGone
  <2>4. ASSUME Core(F), ~EditedGone' PROVE Core(F)'
    <3>1. ASSUME NEW k \in DOMAIN removals, RemoveNode(k) PROVE Core(F)'
      BY <2>4, <3>1, RemoveNodeRefs
    <3>2. ASSUME NEW u \in unlinks, PullFromRelation(u) \/ DropBlankRelation(u) PROVE Core(F)'
      <4>1. CASE Op[u.by.req].kind = "delete"
        BY <2>4, <3>2, <4>1, DeletionUnlinkRefs
      <4>2. CASE Op[u.by.req].kind # "delete"
        BY <1>2, <2>4, <3>2, <4>2, UnlinkKeepsRefs
      <4> QED BY <4>1, <4>2
    <3>3. ASSUME NEW a \in adds, EnsureRelation(a) \/ ReplaceEnclosure(a) \/ PushToRelation(a)
          PROVE  Core(F)'
      BY <1>2, <2>4, <3>3, AddKeepsRefs
    <3>4. ASSUME NEW r \in Request, CallHandlers(r) PROVE Core(F)'
      BY <1>2, <2>4, <3>4, HandlersKeepRefs
    <3>5. ASSUME NEW r \in Request, Answer(r) PROVE Core(F)'
      BY <1>2, <2>4, <3>5, OthersKeepRefs
    <3>6. ASSUME NEW r \in Request, Receive(r) PROVE Core(F)'
      <4>1. CASE Op[r].kind = "delete" /\ Op[r].node \in DOMAIN db
        BY <1>2, <2>4, <3>6, <4>1, ReceiveRefs
      <4>2. CASE ~(Op[r].kind = "delete" /\ Op[r].node \in DOMAIN db)
        BY <1>2, <2>4, <3>6, <4>2, OthersKeepRefs
      <4> QED BY <4>1, <4>2
    <3>7. ASSUME NEW n \in Node, StartWorkflow(n) \/ FinishWorkflow(n) PROVE Core(F)'
      BY <1>2, <2>4, <3>7, OthersKeepRefs
    <3>8. ASSUME NEW u \in unlinks PROVE ~UnlinkFails(u)
      BY DEF UnlinkFails
    <3>9. ASSUME NEW a \in adds PROVE ~AddFails(a)
      BY DEF AddFails
    <3> QED BY <1>2, <3>1, <3>2, <3>3, <3>4, <3>5, <3>6, <3>7, <3>8, <3>9 DEF Next, Serve
  <2> QED BY <2>3, <2>4 DEF RInv
<1> QED BY <1>1, <1>2

\* What discovery has stored names what is stored.
LEMMA InitRInv ==
    ASSUME NEW F, Forest(F)
    PROVE  Init => SInv /\ RInv(F)
<1> SUFFICES ASSUME Init PROVE SInv /\ RInv(F)
  OBVIOUS
<1>1. /\ db \in InitialDb /\ DOMAIN removals = {} /\ unlinks = {} /\ adds = {}
  BY DEF Init
<1>2. SInv
  BY InitSInv DEF Forest
<1>3. StoreFits(F)
  BY <1>1 DEF Forest, StoreFits
<1>4. AllMutual
  <2> SUFFICES ASSUME NEW n \in DOMAIN db, NEW t \in RelationType, NEW m \in Ids(db[n], t)
               PROVE  Mutual(n, t, m)
    BY DEF AllMutual
  <2>1. m \in DOMAIN db /\ n \in Ids(db[m], NodeRelations[t].mapping)
    BY <1>1 DEF Forest
  <2> QED BY <1>1, <2>1 DEF Mutual
<1> QED BY <1>1, <1>2, <1>3, <1>4 DEF RInv, Core, PushesDocuments

\* A node that is gone is not mutual, so that whoever names it is under deletion itself.
LEMMA RefsFollow ==
    ASSUME NEW F, Forest(F)
    PROVE  RInv(F) => ReferencesLive
<1> SUFFICES ASSUME RInv(F), \A m \in Node \ DOMAIN db : ~Edited(m),
                    NEW n \in DOMAIN db, NEW m \in References(db[n]) \ DOMAIN db
             PROVE  Abandoned(n)
  BY DEF ReferencesLive
<1>1. Core(F)
  BY DEF RInv, EditedGone
<1>2. PICK i \in DOMAIN db[n] : m \in Node /\ m \in ToSet(db[n][i].targets)
  BY DEF References
<1> DEFINE t == db[n][i].relationType
<1>3. <<n, t, m>> \in F.links /\ m \in Ids(db[n], t)
  BY <1>1, <1>2 DEF Core, StoreFits, Within, Ids
<1>4. t \in RelationType
  BY <1>3 DEF Forest
<1>5. ~Mutual(n, t, m)
  BY DEF Mutual
<1>6. Exempt(n, t)
  BY <1>1, <1>3, <1>4, <1>5 DEF Core, AllMutual
<1> QED BY <1>6 DEF Exempt, Abandoned

\* On every inventory of this shape, and whatever deletions and edits it has served one
\* after the other, whatever fails but a lookup of targets and a write to a neighbour, no
\* stored node names a node that is gone: but a node whose own deletion is under way or
\* was given up, and as long as every node edited by hand is stored.
THEOREM ReferencesAlwaysLive ==
    ASSUME NEW F, Forest(F), MaxInFlight = 1, {"find", "write"} \cap Faults = {}
    PROVE  Spec => []ReferencesLive
<1>1. Init => IInv /\ TInv /\ SInv /\ RInv(F)
  BY InitIInv, InitTInv, InitRInv
<1>2. IInv /\ TInv /\ SInv /\ RInv(F) /\ [Next]_vars => (IInv /\ TInv /\ SInv /\ RInv(F))'
  BY NextIInv, NextTInv, NextSInv, NextRInv
<1>3. RInv(F) => ReferencesLive
  BY RefsFollow
<1> QED BY <1>1, <1>2, <1>3, PTL DEF Spec
=============================================================================
