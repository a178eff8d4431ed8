--------------------------- MODULE SkuPackProofs ---------------------------
(***************************************************************************)
(* Proofs about SKUs and their packs, for any SKUs, packs and requests,    *)
(* however many of them are in flight and however often the process stops. *)
(***************************************************************************)
EXTENDS ObservedSkuPack, TLAPS

-----------------------------------------------------------------------------
(* Types                                                                   *)

Lookup == {"name", "create", "named"}
Deletion == {"find", "unregister", "clear", "remove"}
Installation == {"validate", "stat", "prepare", "move", "load", "env"}
Steps == Lookup \cup Deletion \cup Installation
         \cup {"patch", "destroy", "regenerate", "idle", "ok", "failed", "lost"}

CallType ==
    [at : Steps, op : Operation \cup {NoOperation}, sku : Sku \cup {None},
     row : Document \cup {NoDocument}, todo : SUBSET (Root \cup {"mkdir", "update"})]

SkuTypes ==
    /\ DOMAIN skus \subseteq issued /\ issued \subseteq Sku
    /\ \A s \in DOMAIN skus : skus[s] \in Document
    /\ DOMAIN dirs \subseteq Sku /\ \A s \in DOMAIN dirs : dirs[s] \subseteq Root \X Pack
    /\ library \cup loading \subseteq Sku \X LibraryRoot \X Pack
    /\ skuHandlers \subseteq Sku
    /\ call \in [Request -> CallType]
    /\ starting \subseteq DOMAIN skus

\* Which requests come to which step.
CallInv(r) ==
    LET c == call[r] IN
    /\ c.at \notin {"idle", "lost"} => c.op \in Menu
    /\ c.at \in Installation => c.op.kind \in Install
    /\ c.at \in Deletion => c.op.kind \in Install \cup {"deletePack", "delete"}
    /\ c.at = "destroy" => c.op.kind = "delete"
    /\ c.at \in Lookup => c.op.kind \in {"upload", "post", "upsert"}
    /\ c.at = "named" => c.op.kind = "upsert"
    /\ c.at = "patch" => c.op.kind \in {"upsert", "patch"}
    /\ c.at = "regenerate" => c.op.kind # "deletePack"
    /\ c.at \in {"unregister", "clear", "load", "env"} => c.row \in Document
    /\ c.at \in (Steps \ Finished) \ Lookup => c.sku \in issued
    /\ c.todo # {} => c.at \in {"prepare", "move", "failed"} /\ c.op.kind \in Install /\ c.sku \in issued
    /\ c.todo # {} => c.op \in Menu
    /\ c.at = "prepare" => c.todo # {} /\ c.todo \subseteq {"mkdir", "update"}
    /\ c.at = "move" => c.todo \subseteq PackOf(r).roots

TInv ==
    /\ SkuTypes /\ \A r \in Request : CallInv(r)
    /\ starting # {} => InFlight = {}
    /\ \A s \in Sku : \A r, q \in Busy(s) : r = q \/ s \in shared

-----------------------------------------------------------------------------
(* One SKU                                                                 *)

\* What has been loaded for SKU s or is being loaded, and that with what failed.
Brought(s) == Lib(s) \cup Pending(s)
Known(s) == {i \in library \cup loading \cup refused : i[1] = s}
RootsOf(s) == IF s \in DOMAIN skus THEN skus[s].roots ELSE {}

\* What is loaded is on disk and described, but for what came too late; what has no
\* document has nothing.
Backed(s) ==
    /\ Brought(s) \subseteq Items(s, RootsOf(s)) \cup late
    /\ s \in skuHandlers => "httpStaticRoot" \in RootsOf(s)
    /\ s \notin DOMAIN skus => s \notin DOMAIN dirs

\* How far a request has come with its SKU.
RequestInv(r) ==
    LET c == call[r]
        s == c.sku
        installs == c.op.kind \in Install
        roots == PackOf(r).roots
    IN
    /\ ~(c.at = "regenerate" /\ c.op.kind = "delete") => s \in DOMAIN skus
    /\ c.at \in {"unregister", "load", "env"} => c.row = skus[s]
    /\ c.at \in {"clear", "remove", "destroy"} => Brought(s) \subseteq late /\ s \notin skuHandlers
    /\ c.at = "destroy" => s \notin DOMAIN dirs
    /\ c.at = "prepare" /\ "update" \notin c.todo => roots \subseteq RootsOf(s)
    /\ installs /\ c.at \in {"move", "load", "env", "regenerate"} =>
         /\ roots \subseteq RootsOf(s)
         /\ \A root \in roots \ c.todo : <<root, c.op.pack>> \in Entries(s)
    /\ installs /\ c.at \in {"load", "env", "regenerate"} /\ "httpStaticRoot" \in roots =>
         s \in skuHandlers
    /\ installs /\ c.at \in {"env", "regenerate"} =>
         \A root \in roots \cap LibraryRoot :
            /\ <<s, root, c.op.pack>> \in Known(s)
            /\ root \notin Unawaited => <<s, root, c.op.pack>> \in Lib(s)

\* While the pack is being changed, unless something has gone wrong.
Changing == {"clear", "remove", "destroy", "prepare", "move", "load"}
UncutInv(r) ==
    LET c == call[r]
        s == c.sku
        roots == PackOf(r).roots
    IN
    /\ c.at = "remove" => RootsOf(s) = {}
    /\ c.at = "prepare" => RootsOf(s) = IF "update" \in c.todo THEN {} ELSE roots
    /\ c.at \in {"move", "load"} => RootsOf(s) = roots
    /\ c.at \in {"prepare", "move", "load"} =>
         /\ Entries(s) = IF c.at = "prepare" THEN {} ELSE (roots \ c.todo) \X {c.op.pack}
         /\ Brought(s) \subseteq late
         /\ c.at # "load" => s \notin skuHandlers
    /\ c.at = "load" => (s \in skuHandlers <=> "httpStaticRoot" \in roots)

Whole(s) ==
    /\ DirRoots(s) = RootsOf(s)
    /\ Items(s, Root) \subseteq Known(s)
    /\ s \notin starting => (s \in skuHandlers <=> "httpStaticRoot" \in RootsOf(s))

Active(r) == r \in InFlight /\ call[r].at \notin Lookup

PackInv ==
    /\ \A s \in Sku \ shared : Backed(s)
    /\ \A r \in Request : Active(r) /\ call[r].sku \notin shared => RequestInv(r)

CutInv ==
    /\ \A r \in Request : Active(r) /\ call[r].sku \notin shared \cup cut => UncutInv(r) /\ call[r].at # "failed"
    /\ \A s \in Sku \ (shared \cup cut) :
          Whole(s) \/ \E r \in Busy(s) : call[r].at \in Changing

\* What a request knows of names, unless others have been giving names too.
NameAt(r) ==
    LET c == call[r] IN
    /\ c.at \in {"unregister", "clear"} /\ c.sku \in DOMAIN skus => c.row.name = skus[c.sku].name
    /\ c.at = "patch" /\ c.sku \in DOMAIN skus => skus[c.sku].name = NameOf(r)
    /\ c.at = "create" => Named(NameOf(r)) = {}

NameInv ==
    ~racing =>
        /\ UniqueNames
        /\ \A r \in Request : NameAt(r)
        /\ \A r, q \in Naming : r = q /\ call[r].op.kind # "patch"

-----------------------------------------------------------------------------
(* The steps of a request                                                  *)

\* A request that comes to a step with the rest of its call as it is given.
Now(r, at, op, sku, row, todo) ==
    /\ call'[r].at = at /\ call'[r].op = op /\ call'[r].sku = sku
    /\ call'[r].row = row /\ call'[r].todo = todo
    /\ call' \in [Request -> CallType]
    /\ \A q \in Request : q # r => call'[q] = call[q]

LEMMA NowAt ==
    ASSUME call \in [Request -> CallType], NEW r \in Request, NEW at \in Steps,
           call' = [call EXCEPT ![r].at = at]
    PROVE  Now(r, at, call[r].op, call[r].sku, call[r].row, call[r].todo)
BY DEF Now, CallType

LEMMA NowAsked ==
    ASSUME call \in [Request -> CallType], NEW r \in Request, NEW at \in Steps,
           NEW o \in Operation, NEW s \in Sku \cup {None},
           call' = [call EXCEPT ![r].at = at, ![r].op = o, ![r].sku = s]
    PROVE  Now(r, at, o, s, call[r].row, call[r].todo)
<1>1. call[r] \in CallType /\ call'[r] = [call[r] EXCEPT !.at = at, !.op = o, !.sku = s]
  OBVIOUS
<1>2. /\ call'[r].at = at /\ call'[r].op = o /\ call'[r].sku = s
      /\ call'[r].row = call[r].row /\ call'[r].todo = call[r].todo
      /\ call'[r] \in CallType
  BY <1>1 DEF CallType
<1>3. \A q \in Request : q # r => call'[q] = call[q]
  OBVIOUS
<1>4. call' \in [Request -> CallType]
  BY <1>2
<1> QED BY <1>2, <1>3, <1>4 DEF Now

LEMMA NowWith ==
    ASSUME call \in [Request -> CallType], NEW r \in Request, NEW at \in Steps,
           NEW s \in Sku \cup {None},
           call' = [call EXCEPT ![r].sku = s, ![r].at = at]
    PROVE  Now(r, at, call[r].op, s, call[r].row, call[r].todo)
BY DEF Now, CallType

LEMMA NowRead ==
    ASSUME call \in [Request -> CallType], NEW r \in Request, NEW at \in Steps,
           NEW row \in Document \cup {NoDocument},
           \/ call' = [call EXCEPT ![r].row = row, ![r].at = at]
           \/ call' = [call EXCEPT ![r].at = at, ![r].row = row]
    PROVE  Now(r, at, call[r].op, call[r].sku, row, call[r].todo)
BY DEF Now, CallType

LEMMA NowDue ==
    ASSUME call \in [Request -> CallType], NEW r \in Request, NEW at \in Steps,
           NEW todo \in SUBSET (Root \cup {"mkdir", "update"}),
           call' = [call EXCEPT ![r].at = at, ![r].todo = todo]
    PROVE  Now(r, at, call[r].op, call[r].sku, call[r].row, todo)
BY DEF Now, CallType

LEMMA NowLeft ==
    ASSUME call \in [Request -> CallType], NEW r \in Request,
           NEW todo \in SUBSET (Root \cup {"mkdir", "update"}),
           call' = [call EXCEPT ![r].todo = todo]
    PROVE  Now(r, call[r].at, call[r].op, call[r].sku, call[r].row, todo)
BY DEF Now, CallType

-----------------------------------------------------------------------------
(* What a step leaves alone                                                *)

SkuInv == TInv /\ PackInv /\ CutInv
Context == SkuInv /\ Observe

SameAt(t) ==
    /\ t \in DOMAIN skus' <=> t \in DOMAIN skus
    /\ t \in DOMAIN skus => skus'[t] = skus[t]
    /\ t \in DOMAIN dirs' <=> t \in DOMAIN dirs
    /\ Entries(t)' = Entries(t)
    /\ Lib(t) \subseteq Lib(t)' /\ Brought(t)' \subseteq Brought(t)
    /\ t \in skuHandlers' <=> t \in skuHandlers
    /\ t \in starting' <=> t \in starting

\* A load that has begun and is not heard of any more has failed.
LEMMA KnownKept ==
    ASSUME Observe, NEW t, Lib(t) \subseteq Lib(t)'
    PROVE  Known(t) \subseteq Known(t)' /\ late \subseteq late'
BY DEF Observe, Known, Lib

LEMMA LibraryKept ==
    ASSUME Context, UNCHANGED <<library, loading>>, NEW t
    PROVE  /\ Lib(t)' = Lib(t) /\ Brought(t)' = Brought(t)
           /\ Known(t) \subseteq Known(t)' /\ late \subseteq late'
  <1>1. Lib(t)' = Lib(t) /\ Brought(t)' = Brought(t)
    BY DEF Lib, Brought, Pending
  <1> QED BY <1>1, KnownKept DEF Context

LEMMA BackedKept ==
    ASSUME Context, NEW t \in Sku, SameAt(t), Backed(t)
    PROVE  Backed(t)'
  <1>1. Brought(t)' \subseteq Items(t, RootsOf(t)) \cup late'
    BY KnownKept DEF SameAt, Context, Backed
  <1>2. Items(t, RootsOf(t))' = Items(t, RootsOf(t)) /\ RootsOf(t)' = RootsOf(t)
    BY DEF SameAt, RootsOf, Items
  <1> QED BY <1>1, <1>2 DEF SameAt, Backed

LEMMA WholeKept ==
    ASSUME Context, NEW t \in Sku, SameAt(t), Whole(t)
    PROVE  Whole(t)'
  <1>1. Items(t, Root) \subseteq Known(t)'
    BY KnownKept DEF SameAt, Context, Whole
  <1>2. /\ Items(t, Root)' = Items(t, Root) /\ RootsOf(t)' = RootsOf(t)
        /\ DirRoots(t)' = DirRoots(t)
    BY DEF SameAt, RootsOf, Items, DirRoots
  <1> QED BY <1>1, <1>2 DEF SameAt, Whole

LEMMA RequestKept ==
    ASSUME Context, NEW q \in Request, call'[q] = call[q], SameAt(call[q].sku), RequestInv(q)
    PROVE  RequestInv(q)'
BY KnownKept DEF SameAt, Context, RequestInv, RootsOf, PackOf

LEMMA UncutKept ==
    ASSUME Context, NEW q \in Request, call'[q] = call[q], SameAt(call[q].sku), UncutInv(q)
    PROVE  UncutInv(q)'
BY KnownKept DEF SameAt, Context, UncutInv, RootsOf, PackOf

\* What there is to show of a step of request r, which has to do with SKU s.
LEMMA StepKeeps ==
    ASSUME Context, NEW r \in Request, NEW s \in Sku \cup {None},
           \A q \in Request : q # r => call'[q] = call[q],
           call'[r].sku = s, call[r].sku = s \/ call[r].at \notin Changing,
           \A t \in Sku : t # s => SameAt(t),
           \/ \A t \in Sku : SameAt(t)
           \/ s \notin issued
           \/ r \in InFlight /\ call[r].sku = s,
           s \in Sku \ shared' => Backed(s)' /\ (Active(r)' => RequestInv(r)'),
           s \in Sku \ (shared' \cup cut') =>
               /\ Active(r)' => UncutInv(r)' /\ call'[r].at # "failed"
               /\ \/ Whole(s)'
                  \/ r \in InFlight' /\ call'[r].at \in Changing
                  \/ SameAt(s) /\ call[r].at \notin Changing,
           SkuTypes', CallInv(r)'
    PROVE  PackInv' /\ CutInv'
  <1>1. /\ shared \subseteq shared' /\ cut \subseteq cut'
        /\ TInv /\ PackInv /\ CutInv
    BY DEF Context, SkuInv, Observe
  <1>2. ASSUME NEW q \in Request, q # r, Active(q)'
        PROVE  /\ Active(q) /\ call'[q] = call[q] /\ call[q].sku \in issued
               /\ call[q].sku \in shared' \/ SameAt(call[q].sku)
    <2>1. call'[q] = call[q] /\ Active(q)
      BY <1>2 DEF Active, InFlight
    <2>2. call[q].sku \in issued /\ call[q].sku \in Sku
      BY <1>1, <2>1 DEF Active, InFlight, TInv, CallInv, SkuTypes, CallType
    <2>3. ASSUME r \in InFlight, call[r].sku = call[q].sku
          PROVE  call[q].sku \in shared'
      BY <1>1, <1>2, <2>1, <2>2, <2>3 DEF TInv, Busy, Active
    <2> QED BY <2>1, <2>2, <2>3
  <1>3. ASSUME NEW t \in Sku \ shared' PROVE Backed(t)'
    <2>1. CASE t = s
      BY <2>1
    <2>2. CASE t # s
      BY <1>1, <2>2, BackedKept DEF PackInv
    <2> QED BY <2>1, <2>2
  <1>4. Active(r)' => s \in Sku
    <2>1. Active(r)' => call'[r].sku \in issued' /\ issued' \subseteq Sku
      BY DEF Active, InFlight, CallInv, SkuTypes, CallType
    <2> QED BY <2>1
  <1>5. ASSUME NEW q \in Request, Active(q)', call'[q].sku \notin shared'
        PROVE  RequestInv(q)'
    <2>1. CASE q = r
      BY <1>4, <1>5, <2>1
    <2>2. CASE q # r
      BY <1>1, <1>2, <1>5, <2>2, RequestKept DEF PackInv
    <2> QED BY <2>1, <2>2
  <1>6. ASSUME NEW q \in Request, Active(q)', call'[q].sku \notin shared' \cup cut'
        PROVE  UncutInv(q)' /\ call'[q].at # "failed"
    <2>1. CASE q = r
      BY <1>4, <1>6, <2>1
    <2>2. CASE q # r
      BY <1>1, <1>2, <1>6, <2>2, UncutKept DEF CutInv
    <2> QED BY <2>1, <2>2
  <1>7. ASSUME NEW t \in Sku \ (shared' \cup cut')
        PROVE  Whole(t)' \/ \E q \in Request : q \in InFlight' /\ call'[q].sku = t /\ call'[q].at \in Changing
    <2>1. CASE Whole(t)'
      BY <2>1
    <2>2. CASE r \in InFlight' /\ call'[r].sku = t /\ call'[r].at \in Changing
      BY <2>2
    <2>3. CASE SameAt(t) /\ (call[r].sku = t => call[r].at \notin Changing)
      <3>1. CASE Whole(t)
        BY <2>3, <3>1, WholeKept
      <3>2. CASE \E q \in Busy(t) : call[q].at \in Changing
        <4>1. PICK q \in Busy(t) : call[q].at \in Changing
          BY <3>2
        <4>2. q \in Request /\ q # r /\ call[q].sku = t /\ q \in InFlight
          BY <2>3, <4>1 DEF Busy, InFlight
        <4>3. call'[q] = call[q] /\ q \in InFlight'
          BY <4>2 DEF InFlight
        <4> QED BY <4>1, <4>2, <4>3
      <3> QED BY <1>1, <1>7, <3>1, <3>2 DEF CutInv
    <2>4. CASE t # s
      BY <2>3, <2>4 DEF Changing
    <2> QED BY <1>7, <2>1, <2>2, <2>3, <2>4
  <1>8. \A t \in Sku \ (shared \cup cut)' :
            Whole(t)' \/ \E q \in Busy(t)' : call'[q].at \in Changing
    BY <1>7 DEF Busy, InFlight
  <1> QED BY <1>3, <1>5, <1>6, <1>8 DEF PackInv, CutInv

-----------------------------------------------------------------------------
(* Steps of one request                                                    *)

\* What a step of request r leaves as it should be, whatever it does to the packs.
LEMMA TypesKept ==
    ASSUME Context, NEW r \in Request, call' \in [Request -> CallType],
           \A q \in Request : q # r => call'[q] = call[q],
           starting = {}, starting' = {}, issued \subseteq issued', SkuTypes', CallInv(r)'
    PROVE  TInv'
  <1>1. SkuTypes' /\ (starting # {} => InFlight = {})'
    BY Zenon DEF TInv
  <1>2. ASSUME NEW q \in Request PROVE CallInv(q)'
    <2>1. CASE q = r
      BY <2>1
    <2>2. CASE q # r
      BY <2>2 DEF Context, SkuInv, TInv, CallInv, PackOf
    <2> QED BY <2>1, <2>2
  <1>3. (\A s \in Sku : \A p, q \in Busy(s) : p = q \/ s \in shared)'
    BY DEF Context, Observe
  <1> QED BY <1>1, <1>2, <1>3 DEF TInv

\* Where a request that is at work on its SKU has come to.
LEMMA ActiveFacts ==
    ASSUME Context, NEW r \in Request, Active(r)
    PROVE  /\ starting = {} /\ SkuTypes /\ CallInv(r)
           /\ call[r].sku \in issued /\ call[r].sku \in Sku
           /\ shared \subseteq shared' /\ cut \subseteq cut'
           /\ call[r].sku \notin shared => RequestInv(r) /\ Backed(call[r].sku)
           /\ call[r].sku \notin shared \cup cut =>
                  /\ UncutInv(r) /\ call[r].at # "failed"
                  /\ call[r].at \in Changing \/ Whole(call[r].sku)
           /\ call'[r].at \in {"lost", "failed"} /\ call[r].at # "regenerate" =>
                  call[r].sku \in cut'
  <1>1. /\ TInv /\ PackInv /\ CutInv
        /\ shared \subseteq shared' /\ cut \subseteq cut'
    BY DEF Context, SkuInv, Observe
  <1>2. r \in InFlight /\ starting = {} /\ SkuTypes /\ CallInv(r)
    BY <1>1 DEF Active, TInv
  <1>3. call[r].sku \in issued /\ call[r].sku \in Sku
    BY <1>2 DEF Active, InFlight, CallInv, SkuTypes, CallType
  <1>4. ASSUME NEW q \in Busy(call[r].sku), call[r].sku \notin shared
        PROVE  q = r
    BY <1>1, <1>2, <1>3, <1>4 DEF TInv, Busy
  <1>5. ASSUME call[r].sku \notin shared \cup cut
        PROVE  call[r].at \in Changing \/ Whole(call[r].sku)
    BY <1>1, <1>3, <1>4, <1>5 DEF CutInv
  <1>6. call'[r].at \in {"lost", "failed"} /\ call[r].at # "regenerate" =>
            call[r].sku \in cut'
    BY <1>2, <1>3 DEF Context, Observe, Busy
  <1> QED BY <1>1, <1>2, <1>3, <1>5, <1>6 DEF PackInv, CutInv

\* A request that is at work on its SKU leaves the other SKUs alone.
LEMMA ActiveStep ==
    ASSUME Context, NEW r \in Request, Active(r), NEW s, s = call[r].sku, NEW at, NEW row, NEW todo,
           Now(r, at, call[r].op, s, row, todo),
           call[r].at = "regenerate" => todo = {},
           \A t \in Sku : t # s => SameAt(t),
           issued' = issued, starting' = starting,
           SkuTypes', CallInv(r)',
           s \notin shared' =>
               Backed(s)' /\ (Active(r)' => RequestInv(r)'),
           s \notin shared' \cup cut' =>
               /\ Active(r)' => UncutInv(r)'
               /\ at \in Changing \/ Whole(s)'
    PROVE  SkuInv'
  <1>1. /\ starting = {} /\ s \in Sku /\ r \in InFlight
        /\ call'[r].at \in {"lost", "failed"} /\ call[r].at # "regenerate" =>
                  s \in cut'
    BY ActiveFacts DEF Active
  <1>2. TInv'
    BY <1>1, TypesKept DEF Now
  <1>3. at \in Changing => r \in InFlight'
    BY DEF Changing, InFlight, Now, Finished
  <1>4. Active(r)' /\ at = "failed" => call[r].at # "regenerate"
    BY DEF Active, InFlight, Now, Finished
  <1>5. PackInv' /\ CutInv'
    BY <1>1, <1>3, <1>4, StepKeeps DEF Now
  <1> QED BY <1>2, <1>5 DEF SkuInv

\* A step of which only the request itself knows.
LEMMA QuietStep ==
    ASSUME Context, NEW r \in Request, UNCHANGED <<stored, effects, process>>,
           NEW at, NEW op, NEW s \in Sku \cup {None}, NEW row, NEW todo,
           Now(r, at, op, s, row, todo), starting = {}, CallInv(r)',
           call[r].sku = s \/ call[r].at \notin Changing,
           s \in Sku \ shared /\ Active(r)' => RequestInv(r)',
           s \in Sku \ (shared \cup cut') =>
               /\ Active(r)' => UncutInv(r)' /\ at # "failed"
               /\ at \in Changing \/ call[r].at \notin Changing
    PROVE  SkuInv'
  <1>1. TInv /\ PackInv /\ CutInv /\ shared \subseteq shared' /\ cut \subseteq cut'
    BY DEF Context, SkuInv, Observe
  <1>2. \A t \in Sku : SameAt(t)
    BY DEF SameAt, Brought, Lib, Pending, Entries, stored, effects, process
  <1>3. SkuTypes'
    BY <1>1 DEF SkuTypes, TInv, Now, stored, effects, process
  <1>4. TInv'
    BY <1>3, TypesKept DEF Now, stored, process
  <1>5. at \in Changing => r \in InFlight'
    BY DEF Changing, InFlight, Now, Finished
  <1>6. s \in Sku \ shared' => Backed(s)'
    BY <1>1, <1>2, BackedKept DEF PackInv
  <1>7. PackInv' /\ CutInv'
    BY <1>1, <1>2, <1>3, <1>5, <1>6, StepKeeps DEF Now
  <1> QED BY <1>4, <1>7 DEF SkuInv

-----------------------------------------------------------------------------
(* The handlers up to the pack, and the steps that only look               *)

LEMMA Calls ==
    ASSUME Context, NEW r \in Request
    PROVE  /\ call \in [Request -> CallType] /\ CallInv(r) /\ SkuTypes
           /\ call[r].sku \in Sku \cup {None} /\ call[r].at \in Steps
           /\ call[r].op.kind \in Install /\ call[r].op \in Menu => call[r].op.pack \in Pack
           /\ r \in InFlight => starting = {}
           /\ r \in InFlight <=> (call[r].at \notin Finished \/ call[r].todo # {})
BY SkuAssumption DEF Context, SkuInv, TInv, SkuTypes, CallType, InFlight

LEMMA ReceiveKeeps ==
    ASSUME Context, NEW r \in Request, NEW o \in Menu, Receive(r, o)
    PROVE  SkuInv'
  <1> DEFINE known == o.sku \in DOMAIN skus
             first == IF o.kind \in {"upload", "post", "upsert"} THEN "name"
                      ELSE IF ~known THEN "failed"
                      ELSE IF o.kind = "put" THEN "validate"
                      ELSE IF o.kind = "patch" THEN "patch" ELSE "find"
  <1>1. /\ call[r].at = "idle" /\ starting = {} /\ UNCHANGED <<stored, effects, process>>
        /\ call' = [call EXCEPT ![r].at = first, ![r].op = o, ![r].sku = o.sku]
    BY DEF Receive
  <1>2. o \in Operation /\ o.sku \in Sku \cup {None} /\ o.kind \in Kind
    BY SkuAssumption DEF Operation
  <1>3. first \in Steps
    BY DEF Steps, Lookup, Installation, Deletion
  <1>4. Now(r, first, o, o.sku, call[r].row, call[r].todo) /\ call[r].todo = {}
    <2> HIDE DEF first
    <2> QED BY <1>1, <1>2, <1>3, Calls, NowAsked DEF CallInv
  <1>5. CallInv(r)'
    BY <1>2, <1>4, Calls, <1>1 DEF CallInv, Now, Steps, Lookup, Installation, Deletion,
        Finished, Kind, Install, SkuTypes, stored
  <1>6. Active(r)' => RequestInv(r)' /\ UncutInv(r)'
    <2>1. Active(r)' => first \in {"validate", "patch", "find"} /\ known
      BY <1>2, <1>4 DEF Active, InFlight, Now, Finished, Lookup, Kind
    <2> HIDE DEF first
    <2>2. skus' = skus /\ call'[r].at = first /\ call'[r].op = o /\ call'[r].sku = o.sku
      BY <1>1, <1>4 DEF Now, stored
    <2>3. Active(r)' => RequestInv(r)'
      BY <2>1, <2>2 DEF RequestInv
    <2>4. Active(r)' => UncutInv(r)'
      BY <2>1, <2>2 DEF UncutInv
    <2> QED BY <2>3, <2>4
  <1>7. first = "failed" => ~Active(r)'
    BY <1>4 DEF Active, InFlight, Now, Finished
  <1> HIDE DEF first
  <1> QED BY <1>1, <1>2, <1>4, <1>5, <1>6, <1>7, QuietStep DEF Changing

LEMMA ValidateKeeps ==
    ASSUME Context, NEW r \in Request, ValidatePack(r)
    PROVE  SkuInv'
  <1> DEFINE at == IF PackOf(r).complete THEN "stat" ELSE "failed"
  <1>1. /\ call[r].at = "validate" /\ UNCHANGED <<stored, effects, process>>
        /\ call' = [call EXCEPT ![r].at = at] /\ at \in {"stat", "failed"}
    BY DEF ValidatePack, Goes
  <1> HIDE DEF at
  <1>2. Active(r) /\ call[r].todo = {} /\ starting = {}
    BY <1>1, Calls DEF Active, InFlight, CallInv, Finished, Lookup
  <1>3. Now(r, at, call[r].op, call[r].sku, call[r].row, {}) /\ CallInv(r)
    BY <1>1, <1>2, Calls, NowAt DEF Steps, Installation
  <1>4. CallInv(r)'
    BY <1>1, <1>3 DEF CallInv, Now, Steps, Lookup, Installation, Deletion, Finished, stored
  <1>5. /\ call[r].sku \in Sku \ shared /\ Active(r)' => RequestInv(r)'
        /\ call[r].sku \in Sku \ (shared \cup cut') => at # "failed"
        /\ UncutInv(r)'
    BY <1>1, <1>2, <1>3, ActiveFacts DEF Now, RequestInv, UncutInv, stored, Active, InFlight, Finished
  <1> QED BY <1>1, <1>2, <1>3, <1>4, <1>5, Calls, QuietStep DEF Changing

LEMMA FindNameKeeps ==
    ASSUME Context, NEW r \in Request, FindName(r)
    PROVE  SkuInv'
  <1> DEFINE at == IF Named(NameOf(r)) = {} THEN "create"
                   ELSE IF call[r].op.kind = "upsert" THEN "named" ELSE "failed"
  <1>1. /\ call[r].at = "name" /\ UNCHANGED <<stored, effects, process>>
        /\ call' = [call EXCEPT ![r].at = at] /\ at \in {"create", "named", "failed"}
        /\ at = "named" => call[r].op.kind = "upsert"
    BY DEF FindName, Goes
  <1> HIDE DEF at
  <1>2. call[r].todo = {} /\ starting = {}
    BY <1>1, Calls DEF CallInv, Finished
  <1>3. Now(r, at, call[r].op, call[r].sku, call[r].row, {}) /\ CallInv(r)
    BY <1>1, <1>2, Calls, NowAt DEF Steps, Lookup
  <1>4. CallInv(r)' /\ ~Active(r)'
    BY <1>1, <1>3 DEF CallInv, Now, Steps, Lookup, Installation, Deletion, Finished, stored,
        Active, InFlight
  <1> QED BY <1>1, <1>2, <1>3, <1>4, Calls, QuietStep DEF Changing

LEMMA FindNamedKeeps ==
    ASSUME Context, NEW r \in Request, FindNamed(r)
    PROVE  SkuInv'
  <1>1. /\ call[r].at = "named" /\ UNCHANGED <<stored, effects, process>>
    BY DEF FindNamed
  <1>2. call[r].todo = {} /\ starting = {} /\ SkuTypes /\ CallInv(r)
    BY <1>1, Calls DEF CallInv, Finished
  <1>3. CASE Goes(r, "named", "failed")
    <2>1. Now(r, "failed", call[r].op, call[r].sku, call[r].row, {})
      BY <1>2, <1>3, Calls, NowAt DEF Goes, Steps
    <2>2. CallInv(r)' /\ ~Active(r)'
      BY <1>1, <1>2, <2>1 DEF CallInv, Now, Steps, Lookup, Installation, Deletion, Finished,
          stored, Active, InFlight
    <2> QED BY <1>1, <1>2, <2>1, <2>2, Calls, QuietStep DEF Changing
  <1>4. CASE \E s \in Named(NameOf(r)) : call' = [call EXCEPT ![r].sku = s, ![r].at = "patch"]
    <2>1. PICK s \in DOMAIN skus : call' = [call EXCEPT ![r].sku = s, ![r].at = "patch"]
      BY <1>4 DEF Named
    <2>2. s \in issued /\ s \in Sku
      BY <1>2 DEF SkuTypes
    <2>3. Now(r, "patch", call[r].op, s, call[r].row, {})
      BY <1>2, <2>1, <2>2, Calls, NowWith DEF Steps
    <2>4. CallInv(r)'
      BY <1>1, <1>2, <2>2, <2>3 DEF CallInv, Now, Steps, Lookup, Installation, Deletion, Finished,
          stored
    <2>5. RequestInv(r)' /\ UncutInv(r)'
      BY <1>1, <2>1, <2>3 DEF Now, RequestInv, UncutInv, stored
    <2> QED BY <1>1, <1>2, <2>2, <2>3, <2>4, <2>5, Calls, QuietStep DEF Changing
  <1> QED BY <1>3, <1>4 DEF FindNamed

LEMMA FindPackKeeps ==
    ASSUME Context, NEW r \in Request, FindPack(r)
    PROVE  SkuInv'
  <1>1. /\ call[r].at = "find" /\ UNCHANGED <<stored, effects, process>>
    BY DEF FindPack
  <1>2. Active(r) /\ call[r].todo = {} /\ starting = {} /\ SkuTypes /\ CallInv(r)
    BY <1>1, Calls DEF Active, CallInv, Finished, Lookup
  <1>3. call[r].sku \notin shared => call[r].sku \in DOMAIN skus
    BY <1>1, <1>2, ActiveFacts DEF RequestInv
  <1>4. CASE call[r].sku \in DOMAIN skus
    <2> DEFINE row == skus[call[r].sku]
    <2>1. call' = [call EXCEPT ![r].row = row, ![r].at = "unregister"] /\ row \in Document
      BY <1>2, <1>4 DEF FindPack, SkuTypes
    <2> HIDE DEF row
    <2>2. Now(r, "unregister", call[r].op, call[r].sku, row, {})
      BY <1>2, <2>1, Calls, NowRead DEF Steps, Deletion
    <2>3. CallInv(r)'
      BY <1>1, <1>2, <2>1, <2>2 DEF CallInv, Now, Steps, Lookup, Installation, Deletion, Finished,
          stored
    <2>4. RequestInv(r)' /\ UncutInv(r)'
      BY <1>1, <1>4, <2>2 DEF Now, RequestInv, UncutInv, stored, row
    <2> QED BY <1>1, <1>2, <2>2, <2>3, <2>4, Calls, QuietStep DEF Changing
  <1>5. CASE call[r].sku \notin DOMAIN skus
    <2> DEFINE at == IF call[r].op.kind \in Install THEN "prepare" ELSE "failed"
               todo == IF call[r].op.kind \in Install THEN {"mkdir", "update"} ELSE {}
    <2>1. call' = [call EXCEPT ![r].at = at, ![r].todo = todo]
      BY <1>5 DEF FindPack, DeleteFails
    <2>2. Now(r, at, call[r].op, call[r].sku, call[r].row, todo)
      BY <2>1, Calls, NowDue DEF Steps, Installation
    <2>3. CallInv(r)'
      BY <1>1, <1>2, <2>2 DEF CallInv, Now, Steps, Lookup, Installation, Deletion, Finished,
          stored
    <2> HIDE DEF at, todo
    <2> QED BY <1>1, <1>2, <1>3, <1>5, <2>2, <2>3, Calls, QuietStep DEF Changing
  <1> QED BY <1>4, <1>5

LEMMA StatKeeps ==
    ASSUME Context, NEW r \in Request, StatDirectory(r)
    PROVE  SkuInv'
  <1>1. /\ call[r].at = "stat" /\ UNCHANGED <<stored, effects, process>>
    BY DEF StatDirectory
  <1>2. Active(r) /\ call[r].todo = {} /\ starting = {} /\ SkuTypes /\ CallInv(r)
    BY <1>1, Calls DEF Active, CallInv, Finished, Lookup
  <1>3. CASE call[r].sku \in DOMAIN dirs
    <2>1. Now(r, "find", call[r].op, call[r].sku, call[r].row, {})
      BY <1>2, <1>3, Calls, NowAt DEF StatDirectory, Goes, Steps, Deletion
    <2>2. CallInv(r)'
      BY <1>1, <1>2, <2>1 DEF CallInv, Now, Steps, Lookup, Installation, Deletion, Finished, stored
    <2>3. /\ call[r].sku \in Sku \ shared => RequestInv(r)'
          /\ UncutInv(r)'
      BY <1>1, <1>2, <2>1, ActiveFacts DEF Now, RequestInv, UncutInv, stored
    <2> QED BY <1>1, <1>2, <2>1, <2>2, <2>3, Calls, QuietStep DEF Changing
  <1>4. CASE call[r].sku \notin DOMAIN dirs
    <2>1. Now(r, "prepare", call[r].op, call[r].sku, call[r].row, {"mkdir", "update"})
      BY <1>4, Calls, NowDue DEF StatDirectory, Steps, Installation
    <2>2. CallInv(r)'
      BY <1>1, <1>2, <2>1 DEF CallInv, Now, Steps, Lookup, Installation, Deletion, Finished, stored
    <2>3. call[r].sku \in Sku \ shared => RequestInv(r)'
      BY <1>1, <1>2, <2>1, ActiveFacts DEF Now, RequestInv, stored
    <2>4. ASSUME call[r].sku \in Sku \ (shared \cup cut')
          PROVE  UncutInv(r)'
      <3>1. Whole(call[r].sku) /\ Entries(call[r].sku) = {}
        BY <1>1, <1>2, <1>4, <2>4, ActiveFacts DEF Entries, Changing
      <3>2. RootsOf(call[r].sku) = {} /\ call[r].sku \notin skuHandlers
        BY <1>2, <3>1 DEF Whole, DirRoots
      <3>3. Brought(call[r].sku) \subseteq late
        BY <1>2, <2>4, <3>1, ActiveFacts DEF Backed, Items
      <3> PICK s : s = call[r].sku
        OBVIOUS
      <3>4. Brought(s)' \subseteq late' /\ call'[r].sku = s
        BY <1>1, <2>1, <3>3, LibraryKept DEF effects, Now
      <3> QED BY <1>1, <2>1, <3>1, <3>2, <3>4 DEF Now, UncutInv, RootsOf, Entries, stored, effects
    <2> QED BY <1>1, <1>2, <2>1, <2>2, <2>3, <2>4, Calls, QuietStep DEF Changing
  <1> QED BY <1>3, <1>4

LEMMA SetScopeKeeps ==
    ASSUME Context, NEW r \in Request, SetScope(r)
    PROVE  SkuInv'
  <1>1. /\ call[r].at = "env" /\ UNCHANGED <<stored, dirs, library, loading, skuHandlers, process>>
        /\ call' = [call EXCEPT ![r].at = "regenerate", ![r].row = NoDocument]
    BY DEF SetScope
  <1>2. Active(r) /\ call[r].todo = {} /\ starting = {} /\ SkuTypes /\ CallInv(r)
    BY <1>1, Calls DEF Active, CallInv, Finished, Lookup
  <1> PICK s \in Sku : s = call[r].sku
    BY <1>2, ActiveFacts
  <1>3. Now(r, "regenerate", call[r].op, s, NoDocument, {})
    <2>1. "regenerate" \in Steps
      BY DEF Steps
    <2> QED BY <1>1, <1>2, <2>1, Calls, NowRead
  <1>4. CallInv(r)'
    BY <1>1, <1>2, <1>3, SkuAssumption DEF CallInv, Now, Steps, Lookup, Installation, Deletion,
        Finished, stored, Install
  <1>5. \A t \in Sku : SameAt(t)
    BY <1>1 DEF SameAt, Brought, Lib, Pending, Entries, stored, process
  <1>6. SkuTypes' /\ starting' = starting /\ issued' = issued
    BY <1>1, <1>2, <1>3 DEF SkuTypes, Now, stored, process
  <1>7. s \notin shared' => Backed(s)' /\ RequestInv(r)'
    <2>1. s \notin shared' => Backed(s)'
      BY <1>2, <1>5, ActiveFacts, BackedKept DEF Now
    <2>2. s \notin shared' => RequestInv(r)'
      BY <1>1, <1>2, <1>3, ActiveFacts, LibraryKept
         DEF Now, RequestInv, RootsOf, Entries, stored, PackOf
    <2> QED BY <1>3, <2>1, <2>2 DEF Now
  <1>8. s \notin shared' \cup cut' => UncutInv(r)' /\ Whole(s)'
    BY <1>1, <1>2, <1>3, <1>5, ActiveFacts, WholeKept DEF Now, UncutInv, Changing
  <1> QED BY <1>2, <1>3, <1>4, <1>5, <1>6, <1>7, <1>8, ActiveStep

LEMMA RegenerateKeeps ==
    ASSUME Context, NEW r \in Request, Regenerate(r)
    PROVE  SkuInv'
  <1>1. /\ call[r].at = "regenerate" /\ UNCHANGED <<stored, effects, process>>
    BY DEF Regenerate, Goes
  <1>2. Active(r) /\ call[r].todo = {} /\ starting = {} /\ SkuTypes /\ CallInv(r)
    BY <1>1, Calls DEF Active, CallInv, Finished, Lookup
  <1> PICK s \in Sku : s = call[r].sku
    BY <1>2, ActiveFacts
  <1>3. PICK at \in {"ok", "failed"} : Goes(r, "regenerate", at)
    BY DEF Regenerate
  <1>4. Now(r, at, call[r].op, s, call[r].row, {})
    BY <1>2, <1>3, Calls, NowAt DEF Goes, Steps
  <1>5. CallInv(r)' /\ ~Active(r)'
    BY <1>1, <1>2, <1>4 DEF CallInv, Now, Steps, Lookup, Installation, Deletion, Finished, stored,
        Active, InFlight
  <1>6. \A t \in Sku : SameAt(t)
    BY <1>1 DEF SameAt, Brought, Lib, Pending, Entries, stored, effects, process
  <1>7. SkuTypes' /\ starting' = starting /\ issued' = issued
    BY <1>1, <1>2, <1>4 DEF SkuTypes, Now, stored, effects, process
  <1>8. s \notin shared' => Backed(s)'
    BY <1>2, <1>6, ActiveFacts, BackedKept
  <1>9. s \notin shared' \cup cut' => Whole(s)'
    BY <1>1, <1>2, <1>6, ActiveFacts, WholeKept DEF Changing
  <1> QED BY <1>2, <1>4, <1>5, <1>6, <1>7, <1>8, <1>9, ActiveStep

LEMMA CreateKeeps ==
    ASSUME Context, NEW r \in Request, CreateSku(r)
    PROVE  SkuInv'
  <1>1. /\ call[r].at = "create" /\ call[r].todo = {} /\ starting = {} /\ SkuTypes /\ CallInv(r)
        /\ UNCHANGED <<effects, process>>
    BY Calls DEF CallInv, Finished, CreateSku, Goes
  <1>2. CASE call[r].op.kind = "upload" /\ Goes(r, "create", "failed") /\ UNCHANGED stored
    <2>1. Now(r, "failed", call[r].op, call[r].sku, call[r].row, {})
      BY <1>1, <1>2, Calls, NowAt DEF Goes, Steps
    <2>2. CallInv(r)' /\ ~Active(r)'
      BY <1>1, <1>2, <2>1 DEF CallInv, Now, Steps, Lookup, Installation, Deletion, Finished,
          stored, Active, InFlight
    <2> QED BY <1>1, <1>2, <2>1, <2>2, Calls, QuietStep DEF Changing
  <1> DEFINE new == [NoDocument EXCEPT !.name = NameOf(r)]
             at == IF call[r].op.kind = "upload" THEN "stat" ELSE "regenerate"
  <1>3. ASSUME NEW s \in Sku \ issued,
               skus' = [t \in DOMAIN skus \cup {s} |-> IF t = s THEN new ELSE skus[t]],
               issued' = issued \cup {s},
               call' = [call EXCEPT ![r].sku = s, ![r].at = at]
        PROVE  SkuInv'
    <2>1. Now(r, at, call[r].op, s, call[r].row, {})
      <3>1. at \in Steps
        BY DEF Steps, Installation
      <3> HIDE DEF at
      <3> QED BY <1>1, <1>3, <3>1, Calls, NowWith
    <2>2. CallInv(r)'
      BY <1>1, <1>3, <2>1 DEF CallInv, Now, Steps, Lookup, Installation, Deletion, Finished, Install
    <2>3. new \in Document /\ new.roots = {}
      <3>1. call[r].op \in Menu /\ call[r].op.kind \in {"upload", "post", "upsert"}
        BY <1>1 DEF CallInv, Lookup
      <3>2. NameOf(r) \in Name
        BY <3>1, SkuAssumption DEF NameOf, PackOf, Config, Install
      <3> QED BY <3>2 DEF Document, NoDocument
    <2>4. SkuTypes'
      BY <1>1, <1>3, <2>1, <2>3 DEF SkuTypes, Now, effects, process
    <2>5. \A t \in Sku : t # s => SameAt(t)
      BY <1>1, <1>3 DEF SameAt, Brought, Lib, Pending, Entries, effects, process
    <2>6. /\ s \in DOMAIN skus' /\ RootsOf(s)' = {} /\ s \notin DOMAIN skus
      BY <1>1, <1>3, <2>3 DEF RootsOf, SkuTypes
    <2>7. ASSUME s \notin shared'
          PROVE  /\ Brought(s)' \subseteq late' /\ s \notin skuHandlers' /\ Entries(s)' = {}
      <3>1. Backed(s)
        BY <1>3, <2>7 DEF Context, SkuInv, PackInv, Observe
      <3>2. Brought(s) \subseteq late /\ s \notin skuHandlers /\ s \notin DOMAIN dirs
        BY <2>6, <3>1 DEF Backed, RootsOf, Items
      <3> QED BY <1>1, <3>2, LibraryKept DEF Entries, effects
    <2>8. s \notin shared' => Backed(s)' /\ Whole(s)'
      BY <2>6, <2>7 DEF Backed, Whole, DirRoots, Items
    <2>9. RequestInv(r)' /\ UncutInv(r)'
      <3>1. call[r].op.kind \in {"upload", "post", "upsert"}
        BY <1>1 DEF CallInv, Lookup
      <3> QED BY <2>1, <2>6, <3>1 DEF Now, RequestInv, UncutInv, Install
    <2>10. at # "failed" /\ call[r].at \notin Changing
      BY <1>1 DEF Changing
    <2>11. PackInv' /\ CutInv'
      BY <1>3, <2>1, <2>2, <2>4, <2>5, <2>8, <2>9, <2>10, StepKeeps DEF Now
    <2>12. TInv'
      BY <1>1, <1>3, <2>1, <2>2, <2>4, TypesKept DEF Now, process
    <2> QED BY <2>11, <2>12 DEF SkuInv
  <1> QED BY <1>2, <1>3 DEF CreateSku

-----------------------------------------------------------------------------
(* Taking a pack away                                                      *)

LEMMA PatchKeeps ==
    ASSUME Context, NEW r \in Request, PatchSku(r)
    PROVE  SkuInv'
  <1>1. /\ call[r].at = "patch" /\ UNCHANGED <<issued, effects, process>>
    BY DEF PatchSku
  <1>2. Active(r) /\ call[r].todo = {} /\ starting = {} /\ SkuTypes /\ CallInv(r)
    BY <1>1, Calls DEF Active, CallInv, Finished, Lookup
  <1> PICK s \in Sku : s = call[r].sku
    BY <1>2, ActiveFacts
  <1> DEFINE at == IF s \in DOMAIN skus THEN "regenerate" ELSE "failed"
  <1>3. /\ skus' = IF s \in DOMAIN skus THEN [skus EXCEPT ![s].name = NameOf(r)] ELSE skus
        /\ call' = [call EXCEPT ![r].at = at]
    BY DEF PatchSku, Goes
  <1>4a. at \in Steps
    BY DEF Steps
  <1> HIDE DEF at
  <1>4. Now(r, at, call[r].op, s, call[r].row, {})
    BY <1>2, <1>3, <1>4a, Calls, NowAt
  <1>5. call[r].op \in Menu /\ call[r].op.kind \in {"upsert", "patch"} /\ NameOf(r) \in Name
    BY <1>1, <1>2, SkuAssumption DEF CallInv, NameOf
  <1>6. CallInv(r)'
    BY <1>1, <1>2, <1>4, <1>5 DEF CallInv, Now, Steps, Lookup, Installation, Deletion, Finished, at
  <1>7. /\ SkuTypes' /\ starting' = starting /\ issued' = issued
        /\ DOMAIN skus' = DOMAIN skus
        /\ \A t \in DOMAIN skus : /\ t # s => skus'[t] = skus[t]
                                  /\ skus'[t].roots = skus[t].roots
    BY <1>1, <1>2, <1>3, <1>4, <1>5 DEF SkuTypes, Now, effects, process, Document
  <1>8. \A t \in Sku : t # s => SameAt(t)
    BY <1>1, <1>7 DEF SameAt, Brought, Lib, Pending, Entries, effects, process
  <1>9. /\ RootsOf(s)' = RootsOf(s) /\ Entries(s)' = Entries(s)
        /\ Brought(s)' = Brought(s) /\ Known(s) \subseteq Known(s)' /\ late \subseteq late'
    BY <1>1, <1>7, LibraryKept DEF RootsOf, Entries, effects
  <1>10. s \notin shared' => Backed(s)'
    BY <1>1, <1>2, <1>7, <1>9, ActiveFacts DEF Backed, Items, effects
  <1>11. s \notin shared' /\ Active(r)' => RequestInv(r)'
    BY <1>1, <1>2, <1>4, <1>5, <1>7, ActiveFacts DEF RequestInv, Now, Install, at
  <1>12. s \notin shared' \cup cut' => Whole(s)'
    <2>1. s \notin shared' \cup cut' => Whole(s)
      BY <1>1, <1>2, ActiveFacts DEF Changing
    <2> QED BY <1>1, <1>9, <2>1 DEF Whole, Items, DirRoots, effects, process
  <1>13. UncutInv(r)'
    BY <1>4 DEF UncutInv, Now, at
  <1> QED BY <1>2, <1>4, <1>6, <1>7, <1>8, <1>10, <1>11, <1>12, <1>13, ActiveStep

LEMMA UnregisterKeeps ==
    ASSUME Context, NEW r \in Request, Unregister(r)
    PROVE  SkuInv'
  <1>1. call[r].at = "unregister" /\ UNCHANGED <<stored, dirs, loading, env, process>>
    BY DEF Unregister
  <1>2. Active(r) /\ call[r].todo = {} /\ starting = {} /\ SkuTypes /\ CallInv(r)
    BY <1>1, Calls DEF Active, CallInv, Finished, Lookup
  <1> PICK s \in Sku : s = call[r].sku
    BY <1>2, ActiveFacts
  <1> PICK roots : roots = call[r].row.roots
    OBVIOUS
  <1> DEFINE installs == call[r].op.kind \in Install
             whole == roots \cap LibraryRoot \subseteq DirRoots(s)
             at == IF whole THEN "clear" ELSE IF installs THEN "prepare" ELSE "failed"
             todo == IF ~whole /\ installs THEN {"mkdir", "update"} ELSE {}
  <1>3. /\ skuHandlers' = IF "httpStaticRoot" \in roots THEN skuHandlers \ {s} ELSE skuHandlers
        /\ library' = library \ Items(s, roots)
    BY DEF Unregister
  <1>4. Now(r, at, call[r].op, s, call[r].row, todo)
    <2>1. CASE whole
      BY <1>2, <2>1, Calls, NowAt DEF Unregister, Goes, Steps, Deletion
    <2>2. CASE ~whole
      BY <2>2, Calls, NowDue DEF Unregister, DeleteFails, Steps, Installation
    <2> QED BY <2>1, <2>2
  <1>5. CallInv(r)'
    BY <1>1, <1>2, <1>4 DEF CallInv, Now, Steps, Lookup, Installation, Deletion, Finished, stored
  <1>6. SkuTypes' /\ starting' = starting /\ issued' = issued
    BY <1>1, <1>2, <1>3, <1>4 DEF SkuTypes, Now, stored, process
  <1>7. \A t \in Sku : t # s => SameAt(t)
    BY <1>1, <1>3 DEF SameAt, Brought, Lib, Pending, Entries, Items, stored, process
  <1>8. ASSUME s \notin shared'
        PROVE  /\ s \in DOMAIN skus /\ roots = RootsOf(s)
               /\ Brought(s)' \subseteq late' /\ s \notin skuHandlers'
    <2>1. /\ s \in DOMAIN skus /\ roots = RootsOf(s)
          /\ Brought(s) \subseteq Items(s, roots) \cup late
          /\ s \in skuHandlers => "httpStaticRoot" \in roots
      BY <1>1, <1>2, <1>8, ActiveFacts DEF RequestInv, Backed, RootsOf
    <2>2. Lib(s)' \subseteq late
      BY <1>3, <2>1 DEF Lib, Brought
    <2>3. call'[r].at # "unregister" /\ r \in InFlight /\ r \in Request
      BY <1>2, <1>4 DEF Now, Active
    <2>4. late \subseteq late' /\ Pending(s) \subseteq late'
      BY <1>1, <2>3 DEF Context, Observe, Pending, Busy
    <2>5. Pending(s)' = Pending(s)
      BY <1>1 DEF Pending
    <2> QED BY <1>3, <2>1, <2>2, <2>4, <2>5 DEF Brought
  <1>9. s \notin shared' => Backed(s)'
    BY <1>1, <1>8 DEF Backed, stored
  <1>10. s \notin shared' /\ Active(r)' => RequestInv(r)'
    BY <1>1, <1>4, <1>8, <1>2 DEF RequestInv, Now, stored, CallInv, Deletion, Install, InFlight, Active, Finished
  <1>11. s \notin shared' \cup cut' => whole
    BY <1>1, <1>2, <1>8, ActiveFacts DEF Changing, Whole
  <1>12. s \notin shared' \cup cut' => UncutInv(r)' /\ at \in Changing
    BY <1>4, <1>11 DEF UncutInv, Now, Changing
  <1> HIDE DEF at, todo
  <1> QED BY <1>1, <1>2, <1>4, <1>5, <1>6, <1>7, <1>9, <1>10, <1>12, ActiveStep

LEMMA ClearKeeps ==
    ASSUME Context, NEW r \in Request, ClearDocument(r)
    PROVE  SkuInv'
  <1>1. /\ call[r].at = "clear" /\ UNCHANGED <<issued, effects, process>>
        /\ call' = [call EXCEPT ![r].at = "remove", ![r].row = NoDocument]
    BY DEF ClearDocument
  <1>2. Active(r) /\ call[r].todo = {} /\ starting = {} /\ SkuTypes /\ CallInv(r)
    BY <1>1, Calls DEF Active, CallInv, Finished, Lookup
  <1> PICK s \in Sku : s = call[r].sku
    BY <1>2, ActiveFacts
  <1> DEFINE new == [NoDocument EXCEPT !.name = call[r].row.name]
  <1>3. skus' = IF s \in DOMAIN skus THEN [skus EXCEPT ![s] = new] ELSE skus
    BY DEF ClearDocument
  <1>4. Now(r, "remove", call[r].op, s, NoDocument, {})
    BY <1>1, <1>2, Calls, NowRead DEF Steps, Deletion
  <1>5. CallInv(r)'
    BY <1>1, <1>2, <1>4 DEF CallInv, Now, Steps, Lookup, Installation, Deletion, Finished
  <1>6. call[r].row \in Document /\ new \in Document /\ new.roots = {}
    BY <1>1, <1>2 DEF CallInv, Document, NoDocument
  <1> HIDE DEF new
  <1>7. SkuTypes' /\ starting' = starting /\ issued' = issued
    BY <1>1, <1>2, <1>3, <1>4, <1>6 DEF SkuTypes, Now, effects, process
  <1>8. \A t \in Sku : t # s => SameAt(t)
    BY <1>1, <1>3 DEF SameAt, Brought, Lib, Pending, Entries, effects, process
  <1>9. ASSUME s \notin shared'
        PROVE  /\ s \in DOMAIN skus' /\ RootsOf(s)' = {}
               /\ Brought(s)' \subseteq late' /\ s \notin skuHandlers'
    <2>1. s \in DOMAIN skus /\ Brought(s) \subseteq late /\ s \notin skuHandlers
      BY <1>1, <1>2, <1>9, ActiveFacts DEF RequestInv
    <2> QED BY <1>1, <1>3, <1>6, <2>1, LibraryKept DEF RootsOf, effects
  <1>10. s \notin shared' => Backed(s)' /\ RequestInv(r)' /\ UncutInv(r)'
    BY <1>4, <1>9 DEF Backed, RequestInv, UncutInv, Now
  <1> QED BY <1>1, <1>2, <1>4, <1>5, <1>7, <1>8, <1>10, ActiveStep DEF Changing

LEMMA RemoveKeeps ==
    ASSUME Context, NEW r \in Request, RemoveDirectory(r)
    PROVE  SkuInv'
  <1>1. /\ call[r].at = "remove" /\ UNCHANGED <<stored, library, loading, env, skuHandlers, process>>
    BY DEF RemoveDirectory
  <1>2. Active(r) /\ call[r].todo = {} /\ starting = {} /\ SkuTypes /\ CallInv(r)
    BY <1>1, Calls DEF Active, CallInv, Finished, Lookup
  <1> PICK s \in Sku : s = call[r].sku
    BY <1>2, ActiveFacts
  <1> DEFINE installs == call[r].op.kind \in Install
             at == IF installs THEN "prepare"
                   ELSE IF call[r].op.kind = "delete" THEN "destroy" ELSE "ok"
             todo == IF installs THEN {"mkdir", "update"} ELSE {}
  <1>3. dirs' = [t \in DOMAIN dirs \ {s} |-> dirs[t]]
    BY DEF RemoveDirectory
  <1>4. Now(r, at, call[r].op, s, call[r].row, todo)
    <2>1. CASE installs
      BY <2>1, Calls, NowDue DEF RemoveDirectory, Steps, Installation
    <2>2. CASE ~installs /\ call[r].op.kind = "delete"
      BY <1>2, <2>2, Calls, NowAt DEF RemoveDirectory, Goes, Steps
    <2>3. CASE ~installs /\ call[r].op.kind # "delete"
      BY <1>2, <2>3, Calls, NowAt DEF RemoveDirectory, Goes, Steps
    <2> QED BY <2>1, <2>2, <2>3
  <1>5. CallInv(r)'
    BY <1>1, <1>2, <1>4 DEF CallInv, Now, Steps, Lookup, Installation, Deletion, Finished, stored
  <1>6. SkuTypes' /\ starting' = starting /\ issued' = issued
    BY <1>1, <1>2, <1>3, <1>4 DEF SkuTypes, Now, stored, process
  <1>7. \A t \in Sku : t # s => SameAt(t)
    BY <1>1, <1>3 DEF SameAt, Brought, Lib, Pending, Entries, stored, process
  <1>8. s \notin DOMAIN dirs' /\ Entries(s)' = {}
    BY <1>3 DEF Entries
  <1>9. ASSUME s \notin shared'
        PROVE  s \in DOMAIN skus' /\ Brought(s)' \subseteq late' /\ s \notin skuHandlers'
    BY <1>1, <1>2, <1>9, ActiveFacts, LibraryKept DEF RequestInv, stored
  <1>10. s \notin shared' => Backed(s)' /\ RequestInv(r)'
    BY <1>4, <1>8, <1>9 DEF Backed, RequestInv, Now
  <1>11. s \notin shared' \cup cut' => RootsOf(s)' = {}
    BY <1>1, <1>2, ActiveFacts DEF UncutInv, RootsOf, stored
  <1>12. s \notin shared' \cup cut' => UncutInv(r)'
    BY <1>4, <1>8, <1>9, <1>11 DEF UncutInv, Now
  <1>13. s \notin shared' \cup cut' => Whole(s)'
    BY <1>8, <1>9, <1>11 DEF Whole, Items, DirRoots
  <1> HIDE DEF at, todo
  <1> QED BY <1>1, <1>2, <1>4, <1>5, <1>6, <1>7, <1>10, <1>12, <1>13, ActiveStep

LEMMA DestroyKeeps ==
    ASSUME Context, NEW r \in Request, DestroySku(r)
    PROVE  SkuInv'
  <1>1. /\ call[r].at = "destroy" /\ UNCHANGED <<issued, effects, process>>
    BY DEF DestroySku, Goes
  <1>2. Active(r) /\ call[r].todo = {} /\ starting = {} /\ SkuTypes /\ CallInv(r)
    BY <1>1, Calls DEF Active, CallInv, Finished, Lookup
  <1> PICK s \in Sku : s = call[r].sku
    BY <1>2, ActiveFacts
  <1>3. skus' = [t \in DOMAIN skus \ {s} |-> skus[t]] /\ call[r].op.kind = "delete"
    BY <1>1, <1>2 DEF DestroySku, CallInv
  <1> PICK at \in {"regenerate", "failed"} :
           Goes(r, "destroy", at) /\ (at = "failed" => s \notin DOMAIN skus)
    BY DEF DestroySku
  <1>4. Now(r, at, call[r].op, s, call[r].row, {})
    BY <1>2, Calls, NowAt DEF Goes, Steps
  <1>5. CallInv(r)'
    BY <1>1, <1>2, <1>3, <1>4 DEF CallInv, Now, Steps, Lookup, Installation, Deletion, Finished
  <1>6. SkuTypes' /\ starting' = starting /\ issued' = issued
    BY <1>1, <1>2, <1>3, <1>4 DEF SkuTypes, Now, effects, process
  <1>7. \A t \in Sku : t # s => SameAt(t)
    BY <1>1, <1>3 DEF SameAt, Brought, Lib, Pending, Entries, effects, process
  <1>8. s \notin DOMAIN skus' /\ RootsOf(s)' = {}
    BY <1>3 DEF RootsOf
  <1>9. ASSUME s \notin shared'
        PROVE  /\ Brought(s)' \subseteq late' /\ s \notin skuHandlers'
               /\ s \notin DOMAIN dirs' /\ Entries(s)' = {} /\ at = "regenerate"
    <2>1. /\ Brought(s) \subseteq late /\ s \notin skuHandlers /\ s \notin DOMAIN dirs
          /\ s \in DOMAIN skus
      BY <1>1, <1>2, <1>9, ActiveFacts DEF RequestInv
    <2> QED BY <1>1, <2>1, LibraryKept DEF Entries, effects
  <1>10. s \notin shared' => Backed(s)' /\ RequestInv(r)'
    BY <1>3, <1>4, <1>8, <1>9 DEF Backed, RequestInv, Now, Install
  <1>11. s \notin shared' => Whole(s)' /\ UncutInv(r)'
    BY <1>4, <1>8, <1>9 DEF Whole, Items, DirRoots, UncutInv, Now
  <1> QED BY <1>1, <1>2, <1>4, <1>5, <1>6, <1>7, <1>10, <1>11, ActiveStep

-----------------------------------------------------------------------------
(* Bringing a pack in                                                      *)

LEMMA PrepareFacts ==
    ASSUME Context, NEW r \in Request, Active(r), call[r].op.kind \in Install, call[r].op \in Menu
    PROVE  call[r].op.pack \in Pack /\ PackOf(r) = Contents[call[r].op.pack]
           /\ PackOf(r).roots \subseteq Root
BY SkuAssumption DEF PackOf, Config

LEMMA PreparedCall ==
    ASSUME Context, NEW r \in Request, Active(r), NEW what \in call[r].todo, Prepared(r, what)
    PROVE  LET left == call[r].todo \ {what}
               done == left = {} /\ call[r].at = "prepare"
           IN  Now(r, IF done THEN "move" ELSE call[r].at, call[r].op, call[r].sku, call[r].row,
                   IF done THEN PackOf(r).roots ELSE left)
  <1> DEFINE left == call[r].todo \ {what}
             done == left = {} /\ call[r].at = "prepare"
  <1>1. CallInv(r) /\ call \in [Request -> CallType] /\ left \in SUBSET (Root \cup {"mkdir", "update"})
    BY Calls DEF CallType
  <1>2. call[r].op.kind \in Install /\ call[r].op \in Menu
    BY <1>1 DEF CallInv
  <1>3. PackOf(r).roots \in SUBSET (Root \cup {"mkdir", "update"})
    BY <1>2, PrepareFacts
  <1>4. CASE done
    BY <1>1, <1>3, <1>4, NowDue DEF Prepared, Steps, Installation
  <1>5. CASE ~done
    BY <1>1, <1>5, NowLeft DEF Prepared
  <1> QED BY <1>4, <1>5

LEMMA MakeKeeps ==
    ASSUME Context, NEW r \in Request, MakeDirectory(r)
    PROVE  SkuInv'
  <1>1. /\ call[r].at = "prepare" /\ "mkdir" \in call[r].todo
        /\ UNCHANGED <<stored, library, loading, env, skuHandlers, process>>
    BY DEF MakeDirectory
  <1>2. /\ Active(r) /\ starting = {} /\ SkuTypes /\ CallInv(r)
        /\ call[r].op.kind \in Install /\ call[r].op \in Menu
        /\ call[r].todo \subseteq {"mkdir", "update"}
    BY <1>1, Calls DEF Active, CallInv, Finished, Lookup
  <1> PICK s \in Sku : s = call[r].sku
    BY <1>2, ActiveFacts
  <1> DEFINE left == call[r].todo \ {"mkdir"}
  <1>3. CASE s \in DOMAIN dirs
    <2>1. call' = [call EXCEPT ![r].at = "failed", ![r].todo = @ \ {"mkdir"}] /\ UNCHANGED dirs
      BY <1>3 DEF MakeDirectory
    <2>2. Now(r, "failed", call[r].op, s, call[r].row, left)
      BY <1>2, <2>1, Calls DEF Now, CallType, Steps
    <2>3. CallInv(r)'
      BY <1>1, <1>2, <2>2 DEF CallInv, Now, Steps, Lookup, Installation, Deletion, Finished, stored
    <2>4. SkuTypes' /\ starting' = starting /\ issued' = issued
      BY <1>1, <1>2, <2>1, <2>2 DEF SkuTypes, Now, stored, process
    <2>5. \A t \in Sku : SameAt(t)
      BY <1>1, <2>1 DEF SameAt, Brought, Lib, Pending, Entries, stored, process
    <2>6. s \notin shared' => Backed(s)'
      BY <1>2, <2>5, ActiveFacts, BackedKept
    <2>7. s \notin shared' => RequestInv(r)'
      BY <1>1, <1>2, <2>2, ActiveFacts DEF RequestInv, Now, stored
    <2>8. s \in cut'
      BY <1>1, <1>2, <2>2, ActiveFacts DEF Now
    <2> QED BY <1>1, <1>2, <2>2, <2>3, <2>4, <2>5, <2>6, <2>7, <2>8, ActiveStep
  <1>4. CASE s \notin DOMAIN dirs
    <2> DEFINE roots == PackOf(r).roots
               at == IF left = {} THEN "move" ELSE "prepare"
               todo == IF left = {} THEN roots ELSE left
    <2>1. Prepared(r, "mkdir") /\ dirs' = [t \in DOMAIN dirs \cup {s} |-> Entries(t)]
      BY <1>4 DEF MakeDirectory
    <2>2. Now(r, at, call[r].op, s, call[r].row, todo)
      BY <1>1, <1>2, <2>1, PreparedCall
    <2>3. roots = PackOf(r)'.roots /\ left \subseteq {"update"}
      BY <1>2, <2>2 DEF Now, PackOf
    <2>4. CallInv(r)'
      BY <1>1, <1>2, <2>2, <2>3 DEF CallInv, Now, Steps, Lookup, Installation, Deletion, Finished,
          stored
    <2>5. SkuTypes' /\ starting' = starting /\ issued' = issued
      BY <1>1, <1>2, <2>1, <2>2 DEF SkuTypes, Now, stored, process, Entries
    <2>6. /\ \A t \in Sku : t # s => SameAt(t)
          /\ Entries(s)' = {} /\ Entries(s) = {}
      BY <1>1, <1>4, <2>1 DEF SameAt, Brought, Lib, Pending, Entries, stored, process
    <2>7. ASSUME s \notin shared'
          PROVE  s \in DOMAIN skus' /\ Backed(s)'
      <3>1. s \in DOMAIN skus /\ Backed(s)
        BY <1>1, <1>2, <2>7, ActiveFacts DEF RequestInv
      <3> QED BY <1>1, <2>6, <3>1, LibraryKept DEF Backed, Items, RootsOf, stored
    <2>8. s \notin shared' => RequestInv(r)'
      <3>1. s \notin shared' /\ left = {} => roots \subseteq RootsOf(s)'
        BY <1>1, <1>2, ActiveFacts DEF RequestInv, RootsOf, stored
      <3> QED BY <2>2, <2>3, <2>7, <3>1 DEF RequestInv, Now
    <2>9. ASSUME s \notin shared' \cup cut'
          PROVE  UncutInv(r)'
      <3>1. /\ RootsOf(s)' = IF "update" \in call[r].todo THEN {} ELSE roots
            /\ Brought(s)' \subseteq late' /\ s \notin skuHandlers'
        BY <1>1, <1>2, <2>9, ActiveFacts, LibraryKept DEF UncutInv, RootsOf, stored
      <3>2. "update" \in call[r].todo <=> left # {}
        BY <2>3
      <3> QED BY <2>2, <2>3, <2>6, <3>1, <3>2 DEF UncutInv, Now
    <2>10. at \in Changing
      BY DEF Changing
    <2> HIDE DEF at, todo
    <2> QED BY <1>1, <1>2, <2>2, <2>4, <2>5, <2>6, <2>7, <2>8, <2>9, <2>10, ActiveStep
  <1> QED BY <1>3, <1>4

\* What has been loaded is still on disk and described when roots are added.
RootsAdded(t) ==
    /\ t \in DOMAIN skus' /\ RootsOf(t) \subseteq RootsOf(t)'
    /\ Brought(t)' = Brought(t) /\ late \subseteq late'
    /\ Entries(t)' = Entries(t) /\ skuHandlers' = skuHandlers

LEMMA StillBacked ==
    ASSUME NEW t \in Sku, RootsAdded(t), Backed(t)
    PROVE  Backed(t)'
  <1>1. ASSUME NEW i \in Brought(t) \ late
        PROVE  \E e \in Entries(t) : e[1] \in RootsOf(t) \cap LibraryRoot /\ i = <<t, e[1], e[2]>>
    BY DEF Backed, Items
  <1>2. ASSUME NEW i \in Brought(t) \ late
        PROVE  i \in Items(t, RootsOf(t))'
    <2> PICK e \in Entries(t) : e[1] \in RootsOf(t) \cap LibraryRoot /\ i = <<t, e[1], e[2]>>
      BY <1>1
    <2> QED BY DEF RootsAdded, Items
  <1>3. t \in skuHandlers' => "httpStaticRoot" \in RootsOf(t)'
    BY DEF RootsAdded, Backed
  <1> QED BY <1>2, <1>3 DEF RootsAdded, Backed

LEMMA UpdateKeeps ==
    ASSUME Context, NEW r \in Request, UpdateDocument(r)
    PROVE  SkuInv'
  <1>1. /\ "update" \in call[r].todo /\ Prepared(r, "update")
        /\ UNCHANGED <<issued, effects, process>>
    BY DEF UpdateDocument
  <1>2. /\ r \in InFlight /\ starting = {} /\ SkuTypes /\ CallInv(r)
        /\ call[r].op.kind \in Install /\ call[r].op \in Menu
        /\ call[r].at \in {"prepare", "move", "failed"}
    BY <1>1, Calls DEF CallInv
  <1>3. Active(r) /\ call[r].op.pack \in Pack /\ PackOf(r).roots \subseteq Root
    BY <1>2, PrepareFacts DEF Active, Lookup
  <1>4. call[r].at # "move"
    BY <1>1, <1>2, <1>3 DEF CallInv, Root, LibraryRoot, LibraryOrder
  <1> PICK s \in Sku : s = call[r].sku
    BY <1>3, ActiveFacts
  <1> PICK p \in Pack : p = call[r].op.pack
    BY <1>3
  <1> DEFINE roots == PackOf(r).roots
             left == call[r].todo \ {"update"}
             done == left = {} /\ call[r].at = "prepare"
             at == IF done THEN "move" ELSE call[r].at
             todo == IF done THEN roots ELSE left
  <1>5. Now(r, at, call[r].op, s, call[r].row, todo)
    BY <1>1, <1>3, PreparedCall
  <1>6. roots = PackOf(r)'.roots /\ roots = Contents[p].roots
    BY <1>5 DEF Now, PackOf
  <1>7. CallInv(r)'
    BY <1>1, <1>2, <1>4, <1>5, <1>6 DEF CallInv, Now, Steps, Lookup, Installation, Deletion, Finished
  <1>8. skus' = IF s \in DOMAIN skus THEN [skus EXCEPT ![s] = Described(@, p)] ELSE skus
    BY DEF UpdateDocument
  <1>9. s \in DOMAIN skus => /\ Described(skus[s], p) \in Document
                             /\ Described(skus[s], p).roots = skus[s].roots \cup roots
    <2>1. s \in DOMAIN skus => skus[s] \in Document
      BY <1>2 DEF SkuTypes
    <2> QED BY <1>3, <1>6, <2>1 DEF Described, Document
  <1>10. SkuTypes' /\ starting' = starting /\ issued' = issued
    <2>1. \A t \in DOMAIN skus' : skus'[t] \in Document
      BY <1>2, <1>8, <1>9 DEF SkuTypes
    <2> QED BY <1>1, <1>2, <1>5, <1>8, <2>1 DEF SkuTypes, Now, effects, process
  <1>11. \A t \in Sku : t # s => SameAt(t)
    BY <1>1, <1>8 DEF SameAt, Brought, Lib, Pending, Entries, effects, process
  <1>12. ASSUME s \notin shared'
         PROVE  s \in DOMAIN skus' /\ RootsOf(s)' = RootsOf(s) \cup roots /\ Backed(s)'
    <2>1. s \in DOMAIN skus /\ Backed(s)
      <3>1. Backed(s) /\ RequestInv(r)
        BY <1>3, <1>12, ActiveFacts
      <3> QED BY <1>2, <1>3, <1>4, <3>1 DEF RequestInv
    <2>2. s \in DOMAIN skus' /\ RootsOf(s)' = RootsOf(s) \cup roots
      BY <1>8, <1>9, <2>1 DEF RootsOf
    <2>3. /\ Brought(s)' = Brought(s) /\ late \subseteq late'
          /\ Entries(s)' = Entries(s) /\ skuHandlers' = skuHandlers
      BY <1>1, LibraryKept DEF Entries, effects
    <2>4. RootsAdded(s)
      <3> HIDE DEF roots, left, done, at, todo
      <3>1. RootsOf(s) \subseteq RootsOf(s)'
        BY <2>2
      <3> QED BY <2>2, <2>3, <3>1 DEF RootsAdded
    <2> QED BY <2>1, <2>2, <2>4, StillBacked
  <1>13. s \notin shared' => RequestInv(r)'
    BY <1>2, <1>4, <1>5, <1>6, <1>12 DEF RequestInv, Now
  <1>14. ASSUME s \notin shared' \cup cut'
         PROVE  UncutInv(r)' /\ at \in Changing
    <2>1. /\ call[r].at = "prepare" /\ RootsOf(s) = {} /\ Entries(s) = {}
          /\ Brought(s) \subseteq late /\ s \notin skuHandlers
      <3>1. UncutInv(r) /\ call[r].at # "failed"
        BY <1>3, <1>14, ActiveFacts
      <3> QED BY <1>1, <1>2, <1>4, <3>1 DEF UncutInv
    <2>2. /\ RootsOf(s)' = roots /\ Entries(s)' = {}
          /\ Brought(s)' \subseteq late' /\ s \notin skuHandlers'
      BY <1>1, <1>12, <1>14, <2>1, LibraryKept DEF Entries, effects
    <2>3. UncutInv(r)'
      BY <1>5, <1>6, <2>1, <2>2 DEF UncutInv, Now
    <2> QED BY <2>1, <2>3 DEF Changing
  <1> HIDE DEF at, todo
  <1> QED BY <1>2, <1>3, <1>5, <1>7, <1>10, <1>11, <1>12, <1>13, <1>14, ActiveStep

LEMMA MoveKeeps ==
    ASSUME Context, NEW r \in Request, NEW root \in Root, MoveEntry(r, root)
    PROVE  SkuInv'
  <1>1. /\ root \in call[r].todo /\ UNCHANGED <<stored, library, loading, env, skuHandlers, process>>
    BY DEF MoveEntry
  <1>2. /\ r \in InFlight /\ starting = {} /\ SkuTypes /\ CallInv(r)
        /\ call[r].op.kind \in Install /\ call[r].op \in Menu
        /\ call[r].at \in {"prepare", "move", "failed"}
    BY <1>1, Calls DEF CallInv
  <1>3. Active(r) /\ call[r].op.pack \in Pack
    BY <1>2, PrepareFacts DEF Active, Lookup
  <1>4. call[r].at # "prepare"
    BY <1>1, <1>2 DEF CallInv, Root, LibraryRoot, LibraryOrder
  <1> PICK s \in Sku : s = call[r].sku
    BY <1>3, ActiveFacts
  <1> PICK p \in Pack : p = call[r].op.pack
    BY <1>3
  <1> DEFINE roots == PackOf(r).roots
             left == call[r].todo \ {root}
  <1>5. ASSUME NEW at \in {call[r].at, "failed"}, Now(r, at, call[r].op, s, call[r].row, left)
        PROVE  /\ CallInv(r)' /\ roots = PackOf(r)'.roots
               /\ starting' = starting /\ issued' = issued
    <2>1. roots = PackOf(r)'.roots
      BY <1>5 DEF Now, PackOf
    <2> QED BY <1>1, <1>2, <1>4, <1>5, <2>1 DEF CallInv, Now, Steps, Lookup, Installation, Deletion,
             Finished, stored, process
  <1>6. CASE /\ call' = [call EXCEPT ![r].at = "failed", ![r].todo = @ \ {root}]
             /\ UNCHANGED dirs
    <2>1. Now(r, "failed", call[r].op, s, call[r].row, left)
      BY <1>2, <1>6, Calls DEF Now, CallType, Steps
    <2>2. SkuTypes'
      BY <1>1, <1>2, <1>6, <2>1 DEF SkuTypes, Now, stored, process
    <2>3. \A t \in Sku : SameAt(t)
      BY <1>1, <1>6 DEF SameAt, Brought, Lib, Pending, Entries, stored, process
    <2>4. s \notin shared' => Backed(s)'
      BY <1>3, <2>3, ActiveFacts, BackedKept
    <2>5. s \notin shared' => RequestInv(r)'
      BY <1>1, <1>2, <1>3, <1>4, <2>1, ActiveFacts DEF RequestInv, Now, stored
    <2>6. s \in cut'
      BY <1>2, <1>3, <2>1, ActiveFacts DEF Now
    <2> QED BY <1>2, <1>3, <1>5, <2>1, <2>2, <2>3, <2>4, <2>5, <2>6, ActiveStep
  <1>7. CASE /\ dirs' = [t \in DOMAIN dirs \cup {s} |->
                           Entries(t) \cup (IF t = s THEN {<<root, p>>} ELSE {})]
             /\ call' = [call EXCEPT ![r].todo = @ \ {root}]
    <2>1. Now(r, call[r].at, call[r].op, s, call[r].row, left)
      BY <1>2, <1>7, Calls DEF Now, CallType
    <2>2. SkuTypes'
      BY <1>1, <1>2, <1>7, <2>1 DEF SkuTypes, Now, stored, process, Entries
    <2>3. /\ \A t \in Sku : t # s => SameAt(t)
          /\ Entries(s)' = Entries(s) \cup {<<root, p>>}
      BY <1>1, <1>7 DEF SameAt, Brought, Lib, Pending, Entries, stored, process
    <2>4. ASSUME s \notin shared'
          PROVE  s \in DOMAIN skus' /\ Backed(s)'
      <3>1. s \in DOMAIN skus /\ Backed(s)
        BY <1>1, <1>2, <1>3, <1>4, <2>4, ActiveFacts DEF RequestInv
      <3> QED BY <1>1, <2>3, <3>1, LibraryKept DEF Backed, Items, RootsOf, stored
    <2>5. ASSUME s \notin shared', call[r].at = "move"
          PROVE  /\ roots \subseteq RootsOf(s)'
                 /\ \A other \in roots \ left : <<other, p>> \in Entries(s)'
      BY <1>1, <1>2, <1>3, <2>3, <2>5, ActiveFacts DEF RequestInv, RootsOf, stored
    <2>6. s \notin shared' => RequestInv(r)'
      BY <1>2, <1>4, <1>5, <2>1, <2>4, <2>5 DEF RequestInv, Now
    <2>7. ASSUME s \notin shared' \cup cut'
          PROVE  UncutInv(r)' /\ call[r].at \in Changing
      <3>1. /\ call[r].at = "move" /\ RootsOf(s) = roots /\ Brought(s) \subseteq late /\ s \notin skuHandlers
            /\ Entries(s) = (roots \ call[r].todo) \X {p} /\ root \in roots
        BY <1>1, <1>2, <1>3, <1>4, <2>7, ActiveFacts DEF UncutInv, CallInv
      <3>2. RootsOf(s)' = roots /\ Brought(s)' \subseteq late' /\ s \notin skuHandlers'
        BY <1>1, <3>1, LibraryKept DEF RootsOf, stored
      <3>3. Entries(s)' = (roots \ left) \X {p}
        BY <2>3, <3>1
      <3> QED BY <1>5, <2>1, <3>1, <3>2, <3>3 DEF UncutInv, Now, Changing
    <2> QED BY <1>2, <1>3, <1>5, <2>1, <2>2, <2>3, <2>4, <2>6, <2>7, ActiveStep
  <1> QED BY <1>6, <1>7 DEF MoveEntry

LEMMA ReadKeeps ==
    ASSUME Context, NEW r \in Request, ReadPack(r)
    PROVE  SkuInv'
  <1>1. /\ call[r].at = "move" /\ call[r].todo = {}
        /\ UNCHANGED <<stored, dirs, library, loading, env, process>>
    BY DEF ReadPack
  <1>2. /\ Active(r) /\ starting = {} /\ SkuTypes /\ CallInv(r) /\ call[r].op.kind \in Install
    BY <1>1, Calls DEF Active, CallInv, Finished, Lookup, Installation
  <1> PICK s \in Sku : s = call[r].sku
    BY <1>2, ActiveFacts
  <1> DEFINE roots == PackOf(r).roots
  <1>3. s \notin shared' => s \in DOMAIN skus
    BY <1>1, <1>2, ActiveFacts DEF RequestInv
  <1>4. \A t \in Sku : t # s => SameAt(t)
    BY <1>1 DEF ReadPack, WithHandler, SameAt, Brought, Lib, Pending, Entries, stored, process
  <1>5. CASE s \notin DOMAIN skus
    <2>1. Now(r, "failed", call[r].op, s, call[r].row, {}) /\ UNCHANGED skuHandlers
      BY <1>1, <1>5, Calls, NowAt DEF ReadPack, Goes, Steps
    <2>2. CallInv(r)' /\ SkuTypes' /\ starting' = starting /\ issued' = issued
      BY <1>1, <1>2, <2>1 DEF CallInv, Now, Steps, Lookup, Installation, Deletion, Finished,
          SkuTypes, stored, process
    <2> QED BY <1>1, <1>2, <1>3, <1>4, <1>5, <2>1, <2>2, ActiveStep
  <1>6. CASE s \in DOMAIN skus
    <2> PICK row : row = skus[s]
      OBVIOUS
    <2>1. /\ call' = [call EXCEPT ![r].at = "load", ![r].row = row] /\ row \in Document
          /\ skuHandlers' = IF "httpStaticRoot" \in row.roots THEN skuHandlers \cup {s} ELSE skuHandlers
      BY <1>2, <1>6 DEF ReadPack, WithHandler, SkuTypes
    <2>2. Now(r, "load", call[r].op, s, row, {})
      <3>1. "load" \in Steps
        BY DEF Steps, Installation
      <3> QED BY <1>1, <2>1, <3>1, Calls, NowRead
    <2>3. CallInv(r)' /\ SkuTypes' /\ starting' = starting /\ issued' = issued
      BY <1>1, <1>2, <2>1, <2>2 DEF CallInv, Now, Steps, Lookup, Installation, Deletion, Finished,
          SkuTypes, stored, process
    <2>4. /\ RootsOf(s) = row.roots /\ RootsOf(s)' = row.roots /\ roots = PackOf(r)'.roots
          /\ Brought(s)' = Brought(s) /\ late \subseteq late' /\ Entries(s)' = Entries(s)
      BY <1>1, <1>6, <2>2, LibraryKept DEF RootsOf, PackOf, Now, Entries, stored
    <2>5. ASSUME s \notin shared' PROVE Backed(s)'
      BY <1>1, <1>2, <1>6, <2>1, <2>4, <2>5, ActiveFacts DEF Backed, Items, stored
    <2>6. ASSUME s \notin shared' PROVE RequestInv(r)'
      <3>1. roots \subseteq row.roots /\ \A root \in roots : <<root, call[r].op.pack>> \in Entries(s)'
        BY <1>1, <1>2, <2>4, <2>6, ActiveFacts DEF RequestInv
      <3> QED BY <1>1, <1>2, <1>6, <2>1, <2>2, <2>4, <3>1 DEF RequestInv, Now, stored
    <2>7. ASSUME s \notin shared' \cup cut' PROVE UncutInv(r)'
      <3>1. /\ row.roots = roots /\ Entries(s) = roots \X {call[r].op.pack}
            /\ Brought(s) \subseteq late /\ s \notin skuHandlers
        BY <1>1, <1>2, <2>4, <2>7, ActiveFacts DEF UncutInv
      <3> QED BY <2>1, <2>2, <2>4, <3>1 DEF UncutInv, Now
    <2> QED BY <1>1, <1>2, <1>4, <2>2, <2>3, <2>5, <2>6, <2>7, ActiveStep DEF Changing
  <1> QED BY <1>5, <1>6

\* What is read of some roots is in the library, or on its way there.
LEMMA LoadFacts ==
    ASSUME Context, NEW s \in Sku, NEW roots, Load(s, roots)
    PROVE  /\ library' \cup loading' \subseteq Sku \X LibraryRoot \X Pack
           /\ Lib(s) \subseteq Lib(s)' /\ Items(s, roots \ Unawaited) \subseteq Lib(s)'
           /\ Brought(s)' \subseteq Brought(s) \cup Items(s, roots)
           /\ Known(s) \cup Items(s, roots) \subseteq Known(s)' /\ late \subseteq late'
           /\ \A t \in Sku : t # s => Lib(t)' = Lib(t) /\ Brought(t)' = Brought(t)
  <1>1. /\ library' = library \cup Items(s, roots \ Unawaited)
        /\ loading' = loading \cup Items(s, roots \cap Unawaited)
    BY DEF Load
  <1>2. /\ Items(s, roots) = Items(s, roots \ Unawaited) \cup Items(s, roots \cap Unawaited)
        /\ \A i \in Items(s, roots) : i[1] = s
    BY DEF Items
  <1>3. SkuTypes
    BY DEF Context, SkuInv, TInv
  <1>4. \A e \in Entries(s) : e = <<e[1], e[2]>> /\ e[1] \in Root /\ e[2] \in Pack
    BY <1>3 DEF SkuTypes, Entries
  <1>5. Items(s, roots) \subseteq Sku \X LibraryRoot \X Pack
    BY <1>4 DEF Items
  <1>6. library' \cup loading' \subseteq Sku \X LibraryRoot \X Pack
    BY <1>1, <1>2, <1>3, <1>5 DEF SkuTypes
  <1>7. Lib(s) \subseteq Lib(s)' /\ Items(s, roots \ Unawaited) \subseteq Lib(s)'
    BY <1>1, <1>2 DEF Lib
  <1>8. Brought(s)' \subseteq Brought(s) \cup Items(s, roots)
    BY <1>1, <1>2 DEF Brought, Lib, Pending
  <1>9. Items(s, roots) \subseteq Known(s)'
    BY <1>1, <1>2 DEF Known
  <1>10. \A t \in Sku : t # s => Lib(t)' = Lib(t) /\ Brought(t)' = Brought(t)
    BY <1>1, <1>2 DEF Brought, Lib, Pending
  <1> QED BY <1>6, <1>7, <1>8, <1>9, <1>10, KnownKept DEF Context

LEMMA LoadKeeps ==
    ASSUME Context, NEW r \in Request, LoadLibrary(r)
    PROVE  SkuInv'
  <1>1. call[r].at = "load" /\ UNCHANGED <<stored, dirs, env, skuHandlers, process>>
    BY DEF LoadLibrary
  <1>2. /\ Active(r) /\ call[r].todo = {} /\ starting = {} /\ SkuTypes /\ CallInv(r)
        /\ call[r].op.kind \in Install
    BY <1>1, Calls DEF Active, CallInv, Finished, Lookup, Installation
  <1> PICK s \in Sku : s = call[r].sku
    BY <1>2, ActiveFacts
  <1> PICK row : row = call[r].row
    OBVIOUS
  <1> DEFINE roots == PackOf(r).roots
  <1>3. PICK loaded \in SUBSET LibraryRoot, at \in {"env", "failed"} :
            /\ Load(s, loaded) /\ loaded \subseteq row.roots \cap LibraryRoot
            /\ call' = [call EXCEPT ![r].at = at]
            /\ at = "env" => loaded = row.roots \cap LibraryRoot
    <2>1. Loaded(s, row.roots) \subseteq row.roots \cap LibraryRoot
      BY DEF Loaded
    <2>2. CASE \E root \in Loaded(s, row.roots) \ Unawaited :
                 /\ Load(s, {q \in Loaded(s, row.roots) : LibraryOrder[q] < LibraryOrder[root]})
                 /\ Goes(r, "load", "failed")
      BY <2>1, <2>2 DEF Goes
    <2>3. CASE /\ Load(s, Loaded(s, row.roots))
               /\ Goes(r, "load", IF Loaded(s, row.roots) = row.roots \cap LibraryRoot
                                  THEN "env" ELSE "failed")
      BY <2>1, <2>3 DEF Goes
    <2> QED BY <2>2, <2>3 DEF LoadLibrary
  <1> DEFINE complete == at = "env"
  <1>4. Now(r, at, call[r].op, s, row, {})
    BY <1>2, <1>3, Calls, NowAt DEF Steps, Installation
  <1>5. CallInv(r)'
    BY <1>1, <1>2, <1>3, <1>4 DEF CallInv, Now, Steps, Lookup, Installation, Deletion, Finished, stored
  <1>6. \A e \in Entries(s) : e = <<e[1], e[2]>> /\ e[1] \in Root /\ e[2] \in Pack
    BY <1>2 DEF SkuTypes, Entries
  <1>7. SkuTypes' /\ starting' = starting /\ issued' = issued
    BY <1>1, <1>2, <1>3, <1>4, LoadFacts DEF SkuTypes, Now, stored, process
  <1>8. /\ \A t \in Sku : t # s => SameAt(t)
        /\ RootsOf(s)' = RootsOf(s) /\ Entries(s)' = Entries(s) /\ roots = PackOf(r)'.roots
    BY <1>1, <1>3, <1>4, LoadFacts DEF SameAt, Entries, RootsOf, PackOf, Now, stored, process
  <1>10. ASSUME s \notin shared'
         PROVE  /\ s \in DOMAIN skus /\ row.roots = RootsOf(s) /\ row = skus[s]
                /\ RequestInv(r) /\ Backed(s)
    BY <1>1, <1>2, <1>10, ActiveFacts DEF RequestInv, RootsOf
  <1>11. ASSUME s \notin shared' PROVE Backed(s)'
    <2>1. Items(s, loaded) \subseteq Items(s, RootsOf(s))
      BY <1>3, <1>10, <1>11 DEF Items
    <2>2. Items(s, RootsOf(s))' = Items(s, RootsOf(s))
      BY <1>8 DEF Items
    <2>3. Brought(s)' \subseteq Items(s, RootsOf(s))' \cup late'
      BY <1>3, <1>10, <1>11, <2>1, <2>2, LoadFacts DEF Backed
    <2> QED BY <1>1, <1>8, <1>10, <1>11, <2>3 DEF Backed, stored
  <1>12. ASSUME s \notin shared' PROVE RequestInv(r)'
    <2>1. /\ roots \subseteq row.roots /\ \A root \in roots : <<root, call[r].op.pack>> \in Entries(s)
          /\ "httpStaticRoot" \in roots => s \in skuHandlers
      BY <1>1, <1>2, <1>10, <1>12 DEF RequestInv
    <2>2. ASSUME complete, NEW root \in roots \cap LibraryRoot
          PROVE  /\ <<s, root, call[r].op.pack>> \in Known(s)'
                 /\ root \notin Unawaited => <<s, root, call[r].op.pack>> \in Lib(s)'
      <3> DEFINE e == <<root, call[r].op.pack>>
      <3>1. e \in Entries(s) /\ e[1] = root /\ e[2] = call[r].op.pack /\ root \in loaded \cap LibraryRoot
        BY <1>3, <2>1, <2>2
      <3>2. /\ <<s, root, call[r].op.pack>> \in Items(s, loaded)
            /\ root \notin Unawaited => <<s, root, call[r].op.pack>> \in Items(s, loaded \ Unawaited)
        BY <3>1 DEF Items
      <3> QED BY <1>3, <3>2, LoadFacts
    <2> QED BY <1>1, <1>3, <1>4, <1>8, <1>10, <1>12, <2>1, <2>2 DEF RequestInv, Now, stored
  <1>13. s \notin shared' \cup cut' => complete
    BY <1>1, <1>2, <1>3, <1>4, ActiveFacts DEF Now
  <1>14. ASSUME s \notin shared' \cup cut' PROVE Whole(s)' /\ UncutInv(r)'
    <2>1. /\ RootsOf(s) = roots /\ Entries(s) = roots \X {call[r].op.pack}
          /\ s \in skuHandlers <=> "httpStaticRoot" \in roots
      BY <1>1, <1>2, <1>14, ActiveFacts DEF UncutInv
    <2>2. DirRoots(s)' = RootsOf(s)'
      <3> DEFINE pair(root) == <<root, call[r].op.pack>>
      <3>1. \A root \in roots : pair(root) \in Entries(s) /\ pair(root)[1] = root
        BY <2>1
      <3>2. \A e \in Entries(s) : e[1] \in roots
        BY <2>1
      <3>3. DirRoots(s)' = DirRoots(s)
        BY <1>8 DEF DirRoots
      <3>4. \A root \in roots : root \in DirRoots(s)
        BY <3>1 DEF DirRoots
      <3>5. DirRoots(s) \subseteq roots
        BY <3>2 DEF DirRoots
      <3>6. DirRoots(s) = roots
        BY <3>4, <3>5
      <3> QED BY <1>8, <2>1, <3>3, <3>6
    <2>3. Items(s, Root)' \subseteq Known(s)'
      <3>1. Items(s, loaded) = Items(s, Root)
        BY <1>3, <1>6, <1>10, <1>13, <1>14, <2>1 DEF Items, Root
      <3>2. Items(s, Root)' = Items(s, Root)
        BY <1>8 DEF Items
      <3> QED BY <1>3, <3>1, <3>2, LoadFacts
    <2> QED BY <1>1, <1>4, <1>8, <1>13, <1>14, <2>1, <2>2, <2>3 DEF Whole, UncutInv, Now
  <1> QED BY <1>1, <1>2, <1>4, <1>5, <1>7, <1>8, <1>11, <1>12, <1>14, ActiveStep

\* Nobody waits for a load that settles; the SKU it belongs to may be busy or gone.
LEMMA SettleKeeps ==
    ASSUME Context, NEW i \in loading, LoadSettles(i)
    PROVE  SkuInv'
  <1>1. /\ TInv /\ PackInv /\ CutInv /\ shared \subseteq shared' /\ cut \subseteq cut'
        /\ loading' = loading \ {i} /\ library \subseteq library'
        /\ library' \subseteq library \cup {i}
        /\ UNCHANGED <<stored, dirs, env, skuHandlers, call, process>>
    BY DEF Context, SkuInv, Observe, LoadSettles
  <1>2. \A t \in Sku : SameAt(t)
    BY <1>1 DEF SameAt, Brought, Lib, Pending, Entries, stored, process
  <1>3. SkuTypes'
    BY <1>1 DEF TInv, SkuTypes, stored, process
  <1>4. TInv'
    <2>1. \A r \in Request : CallInv(r)'
      BY <1>1 DEF TInv, CallInv, PackOf, stored
    <2>2. (\A t \in Sku : \A r, q \in Busy(t) : r = q \/ t \in shared)'
      BY DEF Context, Observe
    <2> QED BY <1>1, <1>3, <2>1, <2>2 DEF TInv, InFlight, process
  <1>5. \A r \in Request : (Active(r)' <=> Active(r)) /\ (Active(r) => call[r].sku \in Sku)
    BY <1>1, ActiveFacts DEF Active, InFlight
  <1>6. PackInv'
    <2>1. \A t \in Sku \ shared' : Backed(t)'
      BY <1>1, <1>2, BackedKept DEF PackInv
    <2>2. \A r \in Request : Active(r)' /\ call'[r].sku \notin shared' => RequestInv(r)'
      BY <1>1, <1>2, <1>5, RequestKept DEF PackInv
    <2> QED BY <2>1, <2>2 DEF PackInv
  <1>7. CutInv'
    <2>1. \A t \in Sku \ (shared' \cup cut') :
             Whole(t)' \/ \E r \in Busy(t)' : call'[r].at \in Changing
      BY <1>1, <1>2, WholeKept DEF CutInv, Busy, InFlight
    <2>2. ASSUME NEW r \in Request, Active(r)', call'[r].sku \notin shared' \cup cut'
          PROVE  UncutInv(r)' /\ call'[r].at # "failed"
      BY <1>1, <1>2, <1>5, <2>2, UncutKept DEF CutInv
    <2> QED BY <2>1, <2>2 DEF CutInv
  <1> QED BY <1>4, <1>6, <1>7 DEF SkuInv

-----------------------------------------------------------------------------
(* start and stop                                                          *)

LEMMA StartKeeps ==
    ASSUME Context, NEW s \in Sku, StartSku(s)
    PROVE  SkuInv'
  <1>1. /\ TInv /\ PackInv /\ CutInv /\ shared \subseteq shared' /\ cut \subseteq cut'
        /\ s \in starting /\ starting' = starting \ {s} /\ UNCHANGED <<stored, dirs, call, restarts>>
    BY DEF Context, SkuInv, Observe, StartSku
  <1>2. SkuTypes /\ InFlight = {} /\ InFlight' = {} /\ s \in DOMAIN skus
    BY <1>1 DEF TInv, SkuTypes, InFlight
  <1> PICK loaded : loaded = Loaded(s, skus[s].roots)
    OBVIOUS
  <1>3. /\ Load(s, loaded)
        /\ skuHandlers' = IF "httpStaticRoot" \in skus[s].roots THEN skuHandlers \cup {s} ELSE skuHandlers
    BY DEF StartSku, WithHandler
  <1>4. /\ loaded \subseteq skus[s].roots \cap LibraryRoot
        /\ RootsOf(s) = skus[s].roots /\ RootsOf(s)' = RootsOf(s) /\ Entries(s)' = Entries(s)
    BY <1>1, <1>2, <1>3 DEF Loaded, RootsOf, Entries, stored
  <1>5. \A t \in Sku : t # s => SameAt(t)
    BY <1>1, <1>3, LoadFacts DEF SameAt, Entries, stored
  <1>6. \A e \in Entries(s) : e = <<e[1], e[2]>> /\ e[1] \in Root /\ e[2] \in Pack
    BY <1>2 DEF SkuTypes, Entries
  <1>7. SkuTypes'
    BY <1>1, <1>2, <1>3, LoadFacts DEF SkuTypes, stored
  <1>8. TInv'
    <2>1. \A r \in Request : CallInv(r)'
      BY <1>1 DEF TInv, CallInv, PackOf, stored
    <2>2. (\A t \in Sku : \A r, q \in Busy(t) : r = q \/ t \in shared)'
      BY DEF Context, Observe
    <2> QED BY <1>2, <1>7, <2>1, <2>2 DEF TInv
  <1>9. \A r \in Request : ~Active(r)'
    BY <1>2 DEF Active
  <1>10. ASSUME NEW t \in Sku \ shared' PROVE Backed(t)'
    <2>1. CASE t # s
      BY <1>1, <1>5, <2>1, BackedKept DEF PackInv
    <2>2. CASE t = s
      <3>1. Backed(s)
        BY <1>1, <2>2 DEF PackInv
      <3>2. Items(s, loaded) \subseteq Items(s, RootsOf(s))
        BY <1>4 DEF Items
      <3>3. Items(s, RootsOf(s))' = Items(s, RootsOf(s))
        BY <1>4 DEF Items
      <3>4. Brought(s)' \subseteq Items(s, RootsOf(s))' \cup late'
        BY <1>3, <1>4, <3>1, <3>2, <3>3, LoadFacts DEF Backed
      <3>5. Backed(s)'
        BY <1>1, <1>2, <1>3, <1>4, <3>1, <3>4 DEF Backed, stored
      <3> QED BY <2>2, <3>5
    <2> QED BY <2>1, <2>2
  <1>11. ASSUME NEW t \in Sku \ (shared \cup cut)' PROVE Whole(t)'
    <2>1. Whole(t) /\ Backed(t)
      BY <1>1, <1>2, <1>11 DEF CutInv, PackInv, Busy
    <2>2. CASE t # s
      BY <1>5, <2>1, <2>2, WholeKept
    <2>3. CASE t = s
      <3>1. Items(s, Root)' = Items(s, Root)
        BY <1>4 DEF Items
      <3>2. Items(s, Root)' \subseteq Known(s)' /\ DirRoots(s)' = RootsOf(s)'
        BY <1>3, <1>4, <2>1, <2>3, <3>1, LoadFacts DEF Whole, DirRoots
      <3>3. Whole(s)'
        BY <1>3, <1>4, <2>1, <2>3, <3>2 DEF Whole, Backed
      <3> QED BY <2>3, <3>3
    <2> QED BY <2>2, <2>3
  <1>12. PackInv' /\ CutInv'
    BY <1>9, <1>10, <1>11 DEF PackInv, CutInv
  <1> QED BY <1>8, <1>12 DEF SkuInv

LEMMA RestartKeeps ==
    ASSUME Context, Restart
    PROVE  SkuInv'
  <1>1. /\ TInv /\ PackInv /\ CutInv /\ shared \subseteq shared' /\ cut \subseteq cut'
        /\ UNCHANGED <<stored, dirs, library, env>> /\ starting' = DOMAIN skus /\ skuHandlers' = {}
        /\ loading' = {}
        /\ call' = [r \in Request |->
                      IF r \in InFlight THEN [NewCall EXCEPT !.at = "lost"] ELSE call[r]]
    BY DEF Context, SkuInv, Observe, Restart
  <1>2. SkuTypes /\ InFlight' = {}
    BY <1>1 DEF TInv, InFlight, NewCall, Finished
  <1>3. call' \in [Request -> CallType]
    BY <1>1, <1>2 DEF SkuTypes, CallType, NewCall, Steps
  <1>4. SkuTypes'
    BY <1>1, <1>2, <1>3 DEF SkuTypes, stored
  <1>5. ASSUME NEW r \in Request PROVE CallInv(r)'
    <2>1. CASE r \in InFlight
      BY <1>1, <2>1 DEF CallInv, NewCall, Steps, Lookup, Installation, Deletion, Finished
    <2>2. CASE r \notin InFlight
      BY <1>1, <2>2 DEF TInv, CallInv, PackOf, stored
    <2> QED BY <2>1, <2>2
  <1>6. (\A t \in Sku : \A r, q \in Busy(t) : r = q \/ t \in shared)'
    BY DEF Context, Observe
  <1>7. TInv'
    BY <1>2, <1>4, <1>5, <1>6 DEF TInv
  <1>8. ASSUME NEW t \in Sku
        PROVE  /\ RootsOf(t)' = RootsOf(t) /\ Entries(t)' = Entries(t)
               /\ Brought(t)' \subseteq Brought(t) /\ Known(t) \subseteq Known(t)'
               /\ late \subseteq late'
               /\ DirRoots(t)' = DirRoots(t)
               /\ t \in starting' <=> t \in DOMAIN skus
               /\ \A roots : Items(t, roots)' = Items(t, roots)
    <2>1. Lib(t)' = Lib(t) /\ Pending(t)' = {}
      BY <1>1 DEF Lib, Pending
    <2>2. Known(t) \subseteq Known(t)' /\ late \subseteq late'
      BY <2>1, KnownKept DEF Context
    <2> QED BY <1>1, <2>1, <2>2 DEF RootsOf, Entries, Brought, Items, DirRoots, stored
  <1>9. ASSUME NEW t \in Sku \ shared' PROVE Backed(t)'
    <2>1. Backed(t)
      BY <1>1, <1>9 DEF PackInv
    <2> QED BY <1>1, <1>8, <2>1 DEF Backed, Items, stored
  <1>10. ASSUME NEW t \in Sku \ (shared \cup cut)' PROVE Whole(t)'
    <2>1. ASSUME NEW r \in Busy(t), call[r].at \in Changing PROVE FALSE
      <3>1. r \in Request /\ r \in InFlight /\ call'[r].at = "lost"
        BY <1>1, <2>1 DEF Busy, InFlight, NewCall
      <3> QED BY <1>10, <2>1, <3>1 DEF Context, Observe, Changing
    <2>2. Whole(t)
      BY <1>1, <1>10, <2>1 DEF CutInv
    <2> QED BY <1>1, <1>8, <2>2 DEF Whole, Items, RootsOf
  <1>11. PackInv' /\ CutInv'
    BY <1>2, <1>9, <1>10 DEF PackInv, CutInv, Active
  <1> QED BY <1>7, <1>11 DEF SkuInv

-----------------------------------------------------------------------------
(* The packs of SKUs                                                       *)

LEMMA SkuFromStart ==
    ASSUME ObservedInit PROVE SkuInv
  <1>1. /\ Init /\ shared = {} /\ cut = {} /\ loading = {}
        /\ call = [r \in Request |-> NewCall]
    BY DEF ObservedInit, Init
  <1>2. InFlight = {} /\ \A r \in Request : ~Active(r) /\ CallInv(r)
    BY <1>1 DEF InFlight, NewCall, Finished, Active, CallInv, Steps, Lookup, Installation, Deletion
  <1>3. SkuTypes
    <2>1. NewCall \in CallType
      BY DEF CallType, NewCall, Steps
    <2> QED BY <1>1, <2>1, SkuAssumption DEF Init, SkuTypes
  <1>4. ASSUME NEW s \in Sku PROVE Backed(s) /\ Whole(s)
    <2>1. Entries(s) = {} /\ Brought(s) = {} /\ RootsOf(s) = {} /\ skuHandlers = {} /\ DOMAIN dirs = {}
      BY <1>1, SkuAssumption DEF Init, Entries, Brought, Lib, Pending, RootsOf
    <2> QED BY <2>1 DEF Backed, Whole, Items, DirRoots
  <1> QED BY <1>2, <1>3, <1>4 DEF SkuInv, TInv, PackInv, CutInv, Busy

LEMMA SkuStep ==
    ASSUME SkuInv, [Next /\ Observe]_ovars PROVE SkuInv'
  <1>1. CASE UNCHANGED ovars
    <2>1. TInv'
      BY <1>1 DEF ovars, vars, SkuInv, TInv, SkuTypes, CallInv, PackOf, Busy, InFlight
    <2>2. PackInv'
      BY <1>1 DEF ovars, vars, SkuInv, PackInv, Backed, RequestInv, Active, InFlight, PackOf, RootsOf,
          Brought, Lib, Pending, Known, Items, Entries
    <2>3. CutInv'
      <3>1. \A t \in Sku \ (shared \cup cut)' : Whole(t) => Whole(t)'
        BY <1>1 DEF ovars, vars, Whole, RootsOf, Known, Items, Entries, DirRoots
      <3>2. \A t \in Sku \ (shared \cup cut)' :
                Whole(t)' \/ \E r \in Busy(t)' : call'[r].at \in Changing
        BY <1>1, <3>1 DEF ovars, vars, SkuInv, CutInv, Busy, InFlight
      <3>3. ASSUME NEW r \in Request, Active(r)', call'[r].sku \notin (shared \cup cut)'
            PROVE  UncutInv(r)' /\ call'[r].at # "failed"
        BY <1>1, <3>3 DEF ovars, vars, SkuInv, CutInv, UncutInv, Active, InFlight, PackOf, RootsOf, Brought,
            Lib, Pending, Entries
      <3> QED BY <3>2, <3>3 DEF CutInv
    <2> QED BY <2>1, <2>2, <2>3 DEF SkuInv
  <1>2. ASSUME Next, Observe PROVE SkuInv'
    <2>1. Context
      BY <1>2 DEF Context
    <2>2. ASSUME NEW r \in Request, NEW o \in Menu, Receive(r, o) PROVE SkuInv'
      BY <2>1, <2>2, ReceiveKeeps
    <2>3. ASSUME NEW r \in Request, DeletePack(r) PROVE SkuInv'
      BY <2>1, <2>3, FindPackKeeps, UnregisterKeeps, ClearKeeps, RemoveKeeps DEF DeletePack
    <2>4. ASSUME NEW r \in Request, InstallPack(r) PROVE SkuInv'
      BY <2>1, <2>4, ValidateKeeps, StatKeeps, MakeKeeps, UpdateKeeps, MoveKeeps DEF InstallPack
    <2>5. ASSUME NEW r \in Request, RegisterPack(r) PROVE SkuInv'
      BY <2>1, <2>5, ReadKeeps, LoadKeeps, SetScopeKeeps DEF RegisterPack
    <2>6. ASSUME NEW r \in Request, Serve(r) PROVE SkuInv'
      BY <2>1, <2>3, <2>4, <2>5, <2>6, FindNameKeeps, CreateKeeps, FindNamedKeeps, PatchKeeps,
         DestroyKeeps, RegenerateKeeps DEF Serve
    <2> QED BY <1>2, <2>1, <2>2, <2>6, StartKeeps, SettleKeeps, RestartKeeps DEF Next
  <1> QED BY <1>1, <1>2

LEMMA SkuAlways == ObservedSpec => []SkuInv
BY SkuFromStart, SkuStep, PTL DEF ObservedSpec

\* What a deleted SKU had is gone once no request is busy with it (deleteSkuById),
\* whatever was stopped or failed half way before, for SKUs on which no two requests
\* overlapped: a SKU without a document has nothing at any time, but for the
\* templates and profiles whose loadFile, which nobody awaits, was overtaken by the
\* unregistration of their pack.
THEOREM DeletedLeavesNothingAlways == ObservedSpec => []DeletedLeavesNothing
  <1>1. SkuInv => DeletedLeavesNothing
    <2> SUFFICES ASSUME SkuInv, NEW s \in issued \ (DOMAIN skus \cup shared)
                 PROVE  NothingLeft(s) /\ Lib(s) \cup Pending(s) \subseteq late
      BY DEF DeletedLeavesNothing
    <2>1. Backed(s) /\ RootsOf(s) = {}
      BY DEF SkuInv, PackInv, TInv, SkuTypes, RootsOf
    <2> QED BY <2>1 DEF Backed, NothingLeft, Items, Brought
  <1> QED BY <1>1, SkuAlways, PTL

\* Collection, directory and handlers agree about every stored SKU at rest
\* (installPack, deletePack, start) on which no two requests overlapped and none was
\* stopped or failed half way; the library agrees with them but for the templates
\* and profiles whose loadFile, which nobody awaits, failed or came too late.
THEOREM PacksAlwaysConsistent == ObservedSpec => []PacksConsistent
  <1>1. SkuInv => PacksConsistent
    <2> SUFFICES ASSUME SkuInv, NEW s \in DOMAIN skus \ (shared \cup cut), Idle(s)
                 PROVE  /\ Consistent(s)
                        /\ Lib(s) \cup Pending(s) \subseteq Items(s, Root) \cup late
                        /\ Items(s, Root) \subseteq Lib(s) \cup Pending(s) \cup refused
      BY DEF PacksConsistent
    <2>1. Whole(s) /\ Backed(s)
      BY DEF SkuInv, PackInv, CutInv, TInv, SkuTypes, Idle, Busy
    <2>2. Consistent(s)
      BY <2>1 DEF Whole, Consistent, Idle, RootsOf
    <2>3. Items(s, RootsOf(s)) \subseteq Items(s, Root)
      BY DEF Items, Root
    <2>4. Known(s) \subseteq Lib(s) \cup Pending(s) \cup refused
      BY DEF Known, Lib, Pending
    <2> QED BY <2>1, <2>2, <2>3, <2>4 DEF Whole, Backed, Brought
  <1> QED BY <1>1, SkuAlways, PTL

-----------------------------------------------------------------------------
(* Acknowledged uploads                                                    *)

LEMMA OthersStay ==
    ASSUME SkuInv, Observe, NEW r \in Request, NEW q \in Request, q # r,
           Serve(q) \/ \E o \in Menu : Receive(q, o)
    PROVE  call'[r] = call[r]
  <1> USE DEF Goes, DeleteFails, Prepared
  <1>1. call \in [Request -> CallType]
    BY DEF SkuInv, TInv, SkuTypes
  <1>2. CASE \E o \in Menu : Receive(q, o)
    BY <1>1, <1>2 DEF Receive
  <1>3. CASE DeletePack(q)
    BY <1>1, <1>3 DEF DeletePack, FindPack, Unregister, ClearDocument, RemoveDirectory
  <1>4. CASE InstallPack(q)
    BY <1>1, <1>4 DEF InstallPack, ValidatePack, StatDirectory, MakeDirectory, UpdateDocument, MoveEntry
  <1>5. CASE RegisterPack(q)
    BY <1>1, <1>5 DEF RegisterPack, ReadPack, LoadLibrary, SetScope
  <1>6. CASE FindName(q) \/ CreateSku(q) \/ FindNamed(q)
    BY <1>1, <1>6 DEF FindName, CreateSku, FindNamed
  <1>7. CASE PatchSku(q) \/ DestroySku(q) \/ Regenerate(q)
    BY <1>1, <1>7 DEF PatchSku, DestroySku, Regenerate
  <1> QED BY <1>2, <1>3, <1>4, <1>5, <1>6, <1>7 DEF Serve

LEMMA RegenerateAcknowledges ==
    ASSUME SkuInv, Observe, Next, NEW r \in Request, call[r].op.kind \in Install,
           call[r].at # "ok", call'[r].at = "ok"
    PROVE  Regenerate(r)
  <1> USE DEF Goes, DeleteFails, Prepared
  <1>1. call \in [Request -> CallType] /\ CallInv(r)
    BY DEF SkuInv, TInv, SkuTypes
  <1>2. ~Restart /\ (\A s \in Sku : ~StartSku(s)) /\ (\A i \in loading : ~LoadSettles(i))
    BY <1>1 DEF Restart, StartSku, LoadSettles, NewCall
  <1>3. Serve(r) \/ \E o \in Menu : Receive(r, o)
    BY <1>2, OthersStay DEF Next
  <1>5. ASSUME NEW o \in Menu, Receive(r, o) PROVE FALSE
    <2> PICK first \in {"name", "failed", "validate", "patch", "find"} :
             call' = [call EXCEPT ![r].at = first, ![r].op = o, ![r].sku = o.sku]
      BY <1>5 DEF Receive
    <2> QED BY <1>1 DEF CallType
  <1>6. ~(FindPack(r) \/ Unregister(r))
    BY <1>1 DEF FindPack, Unregister, CallType
  <1>7. ~(ClearDocument(r) \/ RemoveDirectory(r))
    BY <1>1 DEF ClearDocument, RemoveDirectory, CallType
  <1>8. ~(ValidatePack(r) \/ StatDirectory(r))
    BY <1>1 DEF ValidatePack, StatDirectory, CallType
  <1>9. ~(MakeDirectory(r) \/ UpdateDocument(r) \/ \E root \in Root : MoveEntry(r, root))
    BY <1>1 DEF MakeDirectory, UpdateDocument, MoveEntry, CallType
  <1>10. ~RegisterPack(r)
    BY <1>1 DEF RegisterPack, ReadPack, LoadLibrary, SetScope, CallType
  <1>11. ~FindName(r) /\ ~FindNamed(r)
    <2>1. FindName(r) => \E at \in {"create", "named", "failed"} : call' = [call EXCEPT ![r].at = at]
      BY DEF FindName
    <2>2. FindNamed(r) => \/ call' = [call EXCEPT ![r].at = "failed"]
                          \/ \E s : call' = [call EXCEPT ![r].sku = s, ![r].at = "patch"]
      BY DEF FindNamed
    <2>3. /\ \A at \in {"create", "named", "failed"} : call' # [call EXCEPT ![r].at = at]
          /\ \A s : call' # [call EXCEPT ![r].sku = s, ![r].at = "patch"]
      BY <1>1 DEF CallType
    <2> QED BY <2>1, <2>2, <2>3
  <1>13. ~CreateSku(r)
    <2>1. CreateSku(r) =>
             \/ call' = [call EXCEPT ![r].at = "failed"]
             \/ \E s : \E at \in {"stat", "regenerate"} : call' = [call EXCEPT ![r].sku = s, ![r].at = at]
      BY DEF CreateSku
    <2>2. /\ call' # [call EXCEPT ![r].at = "failed"]
          /\ \A s : \A at \in {"stat", "regenerate"} : call' # [call EXCEPT ![r].sku = s, ![r].at = at]
      BY <1>1 DEF CallType
    <2> QED BY <2>1, <2>2
  <1>12. ~(PatchSku(r) \/ DestroySku(r))
    BY <1>1 DEF PatchSku, DestroySku, CallType
  <1> QED BY <1>3, <1>5, <1>6, <1>7, <1>8, <1>9, <1>10, <1>11, <1>12, <1>13
          DEF Serve, DeletePack, InstallPack

\* When the upload of a pack is acknowledged, its roots are in the document, on disk,
\* in the library and among the handlers (installPack and registerPack), unless another
\* request was busy with the same SKU; the loads of its templates and profiles have been
\* begun, and each is in the library, under way or has failed.
THEOREM AckedPackAlwaysServed == ObservedSpec => AckedPackServed
  <1> DEFINE Acked == \A r \in Request :
                        /\ call[r].op.kind \in Install /\ call[r].at # "ok" /\ call'[r].at = "ok"
                        /\ call[r].sku \notin shared'
                        => LET s == call[r].sku
                               p == call[r].op.pack
                           IN  /\ Served(s, p)'
                               /\ \A root \in Contents[p].roots \cap Unawaited :
                                    <<s, root, p>> \in (library \cup loading \cup refused)'
  <1>1. ASSUME SkuInv, [Next /\ Observe]_ovars
        PROVE  [Acked]_ovars
    <2> SUFFICES ASSUME Next, Observe, NEW r \in Request,
                        call[r].op.kind \in Install, call[r].at # "ok", call'[r].at = "ok",
                        call[r].sku \notin shared'
                 PROVE  /\ Served(call[r].sku, call[r].op.pack)'
                        /\ \A root \in Contents[call[r].op.pack].roots \cap Unawaited :
                              <<call[r].sku, root, call[r].op.pack>>
                                \in (library \cup loading \cup refused)'
      BY <1>1
    <2>1. Regenerate(r) /\ Context
      BY <1>1, RegenerateAcknowledges DEF Context
    <2>2. /\ call[r].at = "regenerate" /\ UNCHANGED <<stored, effects, process>>
          /\ call'[r].sku = call[r].sku /\ call'[r].op = call[r].op
      BY <2>1, Calls DEF Regenerate, Goes, CallType
    <2>3. RequestInv(r) /\ call[r].todo = {}
      BY <2>1, <2>2, Calls, ActiveFacts DEF Active, Finished, Lookup, CallInv
    <2> PICK s : s = call[r].sku
      OBVIOUS
    <2> PICK p : p = call[r].op.pack
      OBVIOUS
    <2>4. Served(s, p)
      BY <2>2, <2>3 DEF RequestInv, Served, PackOf, RootsOf, Install, Lib
    <2>5. Served(s, p)'
      BY <2>2, <2>4 DEF Served, Entries, stored, effects
    <2>6. \A root \in Contents[p].roots \cap Unawaited : <<s, root, p>> \in Known(s)
      BY <2>2, <2>3 DEF RequestInv, PackOf, Install, Unawaited, LibraryRoot, LibraryOrder
    <2>7. Known(s) \subseteq Known(s)'
      BY <2>1, <2>2, LibraryKept DEF effects
    <2>8. Known(s)' \subseteq (library \cup loading \cup refused)'
      BY DEF Known
    <2>9. s = call'[r].sku /\ p = call'[r].op.pack
      BY <2>2
    <2> QED BY <2>5, <2>6, <2>7, <2>8, <2>9
  <1> QED BY <1>1, SkuAlways, PTL DEF ObservedSpec, AckedPackServed

-----------------------------------------------------------------------------
(* Names                                                                   *)

\* A step that gives no SKU a new name.
NoNewName == \A t \in DOMAIN skus' : t \in DOMAIN skus /\ skus'[t].name = skus[t].name

LEMMA NamesKept ==
    ASSUME NameInv, Observe, NEW r \in Request,
           \A q \in Request : q # r => call'[q] = call[q],
           ~racing => NoNewName,
           ~racing' => NameAt(r)'
    PROVE  NameInv'
  <1> SUFFICES ASSUME ~racing'
               PROVE  /\ UniqueNames'
                      /\ \A q \in Request : NameAt(q)'
                      /\ \A p, q \in Naming' : p = q /\ call'[p].op.kind # "patch"
    BY DEF NameInv
  <1>1. ~racing /\ NoNewName /\ UniqueNames /\ \A q \in Request : NameAt(q)
    BY DEF Observe, NameInv
  <1>2. UniqueNames'
    BY <1>1 DEF UniqueNames, NoNewName
  <1>3. ASSUME NEW q \in Request PROVE NameAt(q)'
    <2>1. CASE q = r
      BY <2>1
    <2>2. CASE q # r
      <3>1. call'[q] = call[q] /\ NameOf(q)' = NameOf(q) /\ NameAt(q)
        BY <1>1, <2>2 DEF NameOf, PackOf
      <3>2. \A n : Named(n) = {} => Named(n)' = {}
        BY <1>1 DEF Named, NoNewName
      <3> QED BY <1>1, <3>1, <3>2 DEF NameAt, NoNewName
    <2> QED BY <2>1, <2>2
  <1>4. \A p, q \in Naming' : p = q /\ call'[p].op.kind # "patch"
    BY DEF Observe
  <1> QED BY <1>2, <1>3, <1>4

\* The steps after which a request has nothing to remember about names.
Forgetful(r) ==
    \/ RemoveDirectory(r) \/ DestroySku(r) \/ InstallPack(r) \/ RegisterPack(r) \/ Regenerate(r)
    \/ PatchSku(r) \/ ClearDocument(r)

LEMMA Forgets ==
    ASSUME SkuInv, NEW r \in Request, Forgetful(r)
    PROVE  call'[r].at \notin {"unregister", "clear", "patch", "create"}
  <1> USE DEF Goes, DeleteFails, Prepared
  <1>1. call \in [Request -> CallType] /\ CallInv(r)
    BY DEF SkuInv, TInv, SkuTypes
  <1>2. CASE ClearDocument(r) \/ RemoveDirectory(r)
    BY <1>1, <1>2 DEF ClearDocument, RemoveDirectory, CallType
  <1>3. CASE ValidatePack(r) \/ StatDirectory(r)
    BY <1>1, <1>3 DEF ValidatePack, StatDirectory, CallType
  <1>4. CASE MakeDirectory(r)
    BY <1>1, <1>4 DEF MakeDirectory, CallType
  <1>5. CASE UpdateDocument(r)
    BY <1>1, <1>5 DEF UpdateDocument, CallType, CallInv
  <1>6. CASE \E root \in Root : MoveEntry(r, root)
    BY <1>1, <1>6 DEF MoveEntry, CallType, CallInv, Root, LibraryRoot, LibraryOrder
  <1>7. CASE RegisterPack(r)
    BY <1>1, <1>7 DEF RegisterPack, ReadPack, LoadLibrary, SetScope, CallType
  <1>8. CASE PatchSku(r) \/ DestroySku(r)
    BY <1>1, <1>8 DEF PatchSku, DestroySku, CallType
  <1>9. CASE Regenerate(r)
    BY <1>1, <1>9 DEF Regenerate, CallType
  <1> QED BY <1>2, <1>3, <1>4, <1>5, <1>6, <1>7, <1>8, <1>9 DEF Forgetful, InstallPack

LEMMA ForgetfulGivesNoName ==
    ASSUME SkuInv, NEW r \in Request, Forgetful(r), NameAt(r)
    PROVE  NoNewName
  <1>1. SkuTypes /\ CallInv(r)
    BY DEF SkuInv, TInv
  <1>2. CASE skus' = skus
    BY <1>2 DEF NoNewName
  <1>3. CASE PatchSku(r)
    <2>1. call[r].sku \in DOMAIN skus => skus[call[r].sku].name = NameOf(r)
      BY <1>3 DEF NameAt, PatchSku
    <2> QED BY <1>1, <1>3, <2>1 DEF PatchSku, NoNewName, SkuTypes, Document
  <1>4. CASE ClearDocument(r)
    <2>1. call[r].sku \in DOMAIN skus => skus[call[r].sku].name = call[r].row.name
      BY <1>4 DEF NameAt, ClearDocument
    <2>2. [NoDocument EXCEPT !.name = call[r].row.name].name = call[r].row.name
      BY DEF NoDocument
    <2> QED BY <1>4, <2>1, <2>2 DEF ClearDocument, NoNewName
  <1>5. CASE DestroySku(r)
    BY <1>5 DEF DestroySku, NoNewName
  <1>6. CASE UpdateDocument(r)
    <2>1. \A t \in DOMAIN skus : \A p : Described(skus[t], p).name = skus[t].name
      BY <1>1 DEF Described, SkuTypes, Document
    <2> QED BY <1>6, <2>1 DEF UpdateDocument, NoNewName
  <1>7. CASE InstallPack(r)
    BY <1>2, <1>6, <1>7 DEF InstallPack, ValidatePack, StatDirectory, MakeDirectory, MoveEntry, stored
  <1>8. CASE RemoveDirectory(r) \/ RegisterPack(r) \/ Regenerate(r)
    BY <1>2, <1>8 DEF RemoveDirectory, RegisterPack, ReadPack, LoadLibrary, SetScope, Regenerate, stored
  <1> QED BY <1>3, <1>4, <1>5, <1>7, <1>8 DEF Forgetful

LEMMA NamesStep ==
    ASSUME SkuInv, NameInv, Next, Observe PROVE NameInv'
  <1> USE DEF Goes
  <1>1. TInv /\ SkuTypes /\ call \in [Request -> CallType] /\ Context
    BY DEF SkuInv, TInv, SkuTypes, Context
  <1>2. ASSUME NEW r \in Request, Forgetful(r) PROVE NameInv'
    <2>1. Serve(r)
      BY <1>2 DEF Forgetful, Serve, DeletePack
    <2>2. ~racing => NoNewName
      BY <1>2, ForgetfulGivesNoName DEF NameInv
    <2>3. NameAt(r)'
      BY <1>2, Forgets DEF NameAt
    <2> QED BY <2>1, <2>2, <2>3, OthersStay, NamesKept
  <1>3. ASSUME NEW r \in Request, NEW o \in Menu, Receive(r, o) PROVE NameInv'
    <2>1. NoNewName
      BY <1>3 DEF Receive, NoNewName, stored
    <2>2. PICK first \in {"name", "failed", "validate", "patch", "find"} :
             /\ call' = [call EXCEPT ![r].at = first, ![r].op = o, ![r].sku = o.sku]
             /\ first = "patch" => o.kind = "patch"
      BY <1>3 DEF Receive
    <2>3. call'[r].at = first /\ call'[r].op = o
      BY <1>1, <2>2 DEF CallType
    <2>4. ~racing' => NameAt(r)'
      <3>1. first = "patch" => r \in Naming' /\ call'[r].op.kind = "patch"
        BY <2>2, <2>3 DEF Naming, InFlight, Finished
      <3> QED BY <2>2, <2>3, <3>1 DEF Observe, NameAt
    <2> QED BY <1>3, <2>1, <2>4, OthersStay, NamesKept
  <1>4. ASSUME NEW r \in Request, FindName(r) PROVE NameInv'
    <2>1. NoNewName
      BY <1>4 DEF FindName, NoNewName, stored
    <2>2. PICK at \in {"create", "named", "failed"} :
             /\ call' = [call EXCEPT ![r].at = at]
             /\ at = "create" => Named(NameOf(r)) = {}
      BY <1>4 DEF FindName
    <2>3. call'[r].at = at /\ call'[r].op = call[r].op
      BY <1>1, <2>2 DEF CallType
    <2>4. Named(NameOf(r))' = Named(NameOf(r))
      BY <1>4, <2>3 DEF Named, NameOf, PackOf, FindName, stored
    <2>5. NameAt(r)'
      BY <2>2, <2>3, <2>4 DEF NameAt
    <2> QED BY <1>4, <2>1, <2>5, OthersStay, NamesKept DEF Serve
  <1>5. ASSUME NEW r \in Request, FindNamed(r) PROVE NameInv'
    <2>1. NoNewName /\ skus' = skus
      BY <1>5 DEF FindNamed, NoNewName, stored
    <2>2. CASE call' = [call EXCEPT ![r].at = "failed"]
      <3>1. call'[r].at = "failed"
        BY <1>1, <2>2 DEF CallType
      <3>2. NameAt(r)'
        BY <3>1 DEF NameAt
      <3> QED BY <1>5, <2>1, <3>2, OthersStay, NamesKept DEF Serve
    <2>3. CASE \E s \in Named(NameOf(r)) : call' = [call EXCEPT ![r].sku = s, ![r].at = "patch"]
      <3>1. PICK s \in Named(NameOf(r)) : call' = [call EXCEPT ![r].sku = s, ![r].at = "patch"]
        BY <2>3
      <3>2. call'[r].at = "patch" /\ call'[r].op = call[r].op /\ call'[r].sku = s
        BY <1>1, <3>1 DEF CallType
      <3>3. NameAt(r)'
        BY <2>1, <3>2 DEF NameAt, Named, NameOf, PackOf
      <3> QED BY <1>5, <2>1, <3>3, OthersStay, NamesKept DEF Serve
    <2> QED BY <1>5, <2>2, <2>3 DEF FindNamed
  <1>6. ASSUME NEW r \in Request, FindPack(r) PROVE NameInv'
    <2>1. NoNewName /\ skus' = skus
      BY <1>6 DEF FindPack, NoNewName, stored
    <2>2. NameAt(r)'
      <3>1. CASE call[r].sku \in DOMAIN skus
        <4>1. call'[r].at = "unregister" /\ call'[r].row = skus[call[r].sku] /\ call'[r].sku = call[r].sku
          BY <1>1, <1>6, <3>1 DEF FindPack, CallType
        <4> QED BY <2>1, <4>1 DEF NameAt
      <3>2. CASE call[r].sku \notin DOMAIN skus
        <4>1. call'[r].at \in {"prepare", "failed"}
          BY <1>1, <1>6, <3>2 DEF FindPack, DeleteFails, CallType
        <4> QED BY <4>1 DEF NameAt
      <3> QED BY <3>1, <3>2
    <2> QED BY <1>6, <2>1, <2>2, OthersStay, NamesKept DEF Serve, DeletePack
  <1>7. ASSUME NEW r \in Request, Unregister(r) PROVE NameInv'
    <2>1. NoNewName /\ skus' = skus /\ call[r].at = "unregister"
      BY <1>7 DEF Unregister, NoNewName, stored
    <2>2. \/ call'[r].at \in {"prepare", "failed"}
          \/ call'[r] = [call[r] EXCEPT !.at = "clear"]
      BY <1>1, <1>7 DEF Unregister, DeleteFails, CallType
    <2>3. NameAt(r) => NameAt(r)'
      BY <1>1, <2>1, <2>2 DEF NameAt, CallType
    <2>4. ~racing' => NameAt(r)'
      BY <2>3 DEF NameInv, Observe
    <2> QED BY <1>7, <2>1, <2>4, OthersStay, NamesKept DEF Serve, DeletePack
  <1>8. ASSUME NEW r \in Request, CreateSku(r) PROVE NameInv'
    <2>1. CASE UNCHANGED stored
      <3>1. NoNewName
        BY <2>1 DEF NoNewName, stored
      <3>2. call'[r].at \notin {"unregister", "clear", "patch", "create"}
        <4>1. ASSUME NEW s \in Sku \ issued, issued' = issued \cup {s} PROVE FALSE
          BY <2>1, <4>1 DEF stored
        <4>2. call' = [call EXCEPT ![r].at = "failed"]
          BY <1>8, <4>1 DEF CreateSku
        <4> QED BY <1>1, <4>2 DEF CallType
      <3>3. NameAt(r)'
        BY <3>2 DEF NameAt
      <3> QED BY <1>8, <3>1, <3>3, OthersStay, NamesKept DEF Serve
    <2>2. CASE ~UNCHANGED stored
      <3> SUFFICES ASSUME ~racing'
                   PROVE  /\ UniqueNames'
                          /\ \A q \in Request : NameAt(q)'
                          /\ \A p, q \in Naming' : p = q /\ call'[p].op.kind # "patch"
        BY DEF NameInv
      <3>1. ~racing /\ UniqueNames /\ \A q \in Request : NameAt(q)
        BY DEF Observe, NameInv
      <3>2. PICK s \in Sku \ issued :
               /\ skus' = [t \in DOMAIN skus \cup {s} |->
                             IF t = s THEN [NoDocument EXCEPT !.name = NameOf(r)] ELSE skus[t]]
               /\ call' = [call EXCEPT ![r].sku = s,
                             ![r].at = IF call[r].op.kind = "upload" THEN "stat" ELSE "regenerate"]
        BY <1>8, <2>2 DEF CreateSku
      <3>3. call[r].at = "create" /\ Named(NameOf(r)) = {}
        BY <1>8, <3>1 DEF CreateSku, NameAt
      <3>4. /\ s \notin DOMAIN skus /\ skus'[s].name = NameOf(r)
            /\ \A t \in DOMAIN skus : skus'[t] = skus[t] /\ t # s
        BY <1>1, <3>2 DEF SkuTypes, NoDocument
      <3>5. UniqueNames'
        BY <3>1, <3>2, <3>3, <3>4 DEF UniqueNames, Named
      <3>6. call'[r].at \in {"stat", "regenerate"} /\ call'[r].op = call[r].op
        BY <1>1, <3>2 DEF CallType
      <3>7. ASSUME NEW q \in Request, q # r PROVE NameAt(q)'
        <4>1. call'[q] = call[q] /\ NameOf(q)' = NameOf(q) /\ NameAt(q) /\ CallInv(q) /\ CallInv(r)
          BY <1>1, <1>8, <3>1, <3>7, OthersStay DEF NameOf, PackOf, Serve, TInv
        <4>2. call[q].at # "create"
          BY <3>1, <3>3, <3>7, <4>1 DEF NameInv, Naming, InFlight, CallInv, Lookup, Finished
        <4>3. call[q].at \in {"unregister", "clear", "patch"} => call[q].sku \in issued
          BY <4>1 DEF CallInv, Steps, Deletion, Installation, Lookup, Finished
        <4> QED BY <3>2, <3>4, <4>1, <4>2, <4>3 DEF NameAt
      <3>8. NameAt(r)'
        BY <3>6 DEF NameAt
      <3> QED BY <3>5, <3>7, <3>8 DEF Observe
    <2> QED BY <2>1, <2>2
  <1>9. ASSUME call' = call \/ Restart, skus' = skus PROVE NameInv'
    <2> SUFFICES ASSUME ~racing'
                 PROVE  /\ UniqueNames'
                        /\ \A q \in Request : NameAt(q)'
                        /\ \A p, q \in Naming' : p = q /\ call'[p].op.kind # "patch"
      BY DEF NameInv
    <2>1. UniqueNames /\ \A q \in Request : NameAt(q)
      BY DEF Observe, NameInv
    <2>2. ASSUME NEW q \in Request PROVE NameAt(q)'
      <3>1. CASE call'[q] = call[q]
        BY <1>9, <2>1, <3>1 DEF NameAt, Named, NameOf, PackOf
      <3>2. CASE call'[q].at = "lost"
        BY <3>2 DEF NameAt
      <3> QED BY <1>9, <3>1, <3>2 DEF Restart, NewCall
    <2> QED BY <1>9, <2>1, <2>2 DEF UniqueNames, Observe
  <1>10. Restart \/ (\E s \in Sku : StartSku(s)) \/ (\E i \in loading : LoadSettles(i))
            => (call' = call \/ Restart) /\ skus' = skus
    BY DEF Restart, StartSku, LoadSettles, stored
  <1> QED BY <1>2, <1>3, <1>4, <1>5, <1>6, <1>7, <1>8, <1>9, <1>10
          DEF Next, Serve, DeletePack, Forgetful

\* If the names stored at first are unique, names stay unique as long as no two
\* requests that give a name (postSku, upsertSku, the upload of a pack) overlap and
\* nobody renames a SKU (patchSku).
THEOREM SerialNamesAlwaysUnique ==
    ASSUME \A s, t \in DOMAIN InitialSkus : InitialSkus[s].name = InitialSkus[t].name => s = t
    PROVE  ObservedSpec => []SerialUniqueNames
  <1>1. ObservedInit => NameInv
    <2> SUFFICES ASSUME ObservedInit PROVE NameInv
      OBVIOUS
    <2>1. skus = InitialSkus /\ \A r \in Request : call[r].at = "idle" /\ call[r].todo = {}
      BY DEF ObservedInit, Init, NewCall
    <2> QED BY <2>1 DEF NameInv, UniqueNames, NameAt, Naming, InFlight, Finished
  <1>2. SkuInv /\ NameInv /\ [Next /\ Observe]_ovars => NameInv'
    <2>1. NameInv /\ UNCHANGED ovars => NameInv'
      BY DEF NameInv, UniqueNames, NameAt, Naming, InFlight, Named, NameOf, PackOf, ovars, vars
    <2> QED BY <2>1, NamesStep
  <1>3. NameInv => SerialUniqueNames
    BY DEF NameInv, SerialUniqueNames
  <1> QED BY <1>1, <1>2, <1>3, SkuAlways, PTL DEF ObservedSpec
=============================================================================
