---------------------------- MODULE ServicesProofs ----------------------------
(***************************************************************************)
(* Proofs about the services that run beside the HTTP API.                 *)
(*                                                                         *)
(* The Redfish event service, for every number of clients, alerts and      *)
(* retries: no two subscriptions share a destination, every delivery stays *)
(* within its retries, and subscribers have one listener.                  *)
(*                                                                         *)
(* The uPnP service, for any number of services and of offered types: the  *)
(* alerts about a service alternate, whatever the network does with the    *)
(* messages: the safety half of the refinement of Presence.                *)
(*                                                                         *)
(* The life of the program: the database outlives the requests, for any    *)
(* number of endpoints, of requests and of failing steps, and wherever the *)
(* stop meets the start.  The program that consists of the two: it does    *)
(* only what each of them does, and the uPnP service lives within it.      *)
(***************************************************************************)
EXTENDS ObservedEvents, OnHttp, FiniteSetTheorems, TLAPS

-----------------------------------------------------------------------------
(* Type correctness                                                        *)

LEMMA NewDeliveryType ==
    ASSUME NEW c, NEW withPath \in BOOLEAN
    PROVE  NewDelivery(c, withPath) \in Delivery
BY EventAssumption DEF NewDelivery, Delivery

\* The deliveries that start are well-formed; the others stay as they were.
LEMMA StartDeliveriesType ==
    ASSUME TypeOK, NEW new, NEW withPath \in BOOLEAN, StartDeliveries(new, withPath)
    PROVE  /\ jobs' = [j \in DOMAIN jobs' |-> jobs'[j]]
           /\ \A j \in DOMAIN jobs' : jobs'[j] \in Delivery
<1>1. DOMAIN jobs' = DOMAIN jobs \cup new
  BY DEF StartDeliveries
<1>2. jobs' = [j \in DOMAIN jobs' |-> jobs'[j]]
  BY <1>1 DEF StartDeliveries
<1>3. ASSUME NEW j \in DOMAIN jobs' PROVE jobs'[j] \in Delivery
  <2>1. CASE j \in DOMAIN jobs
    BY <2>1 DEF StartDeliveries, TypeOK
  <2>2. CASE j \notin DOMAIN jobs
    <3>1. jobs'[j] = NewDelivery(j[2], withPath)
      BY <1>1, <1>3, <2>2 DEF StartDeliveries
    <3> QED
      BY <3>1, NewDeliveryType
  <2> QED
    BY <2>1, <2>2
<1> QED
  BY <1>2, <1>3

\* One delivery goes on, the others stay as they were.
LEMMA OneDeliveryType ==
    ASSUME TypeOK, NEW j \in DOMAIN jobs, NEW d \in Delivery,
           jobs' = [jobs EXCEPT ![j] = d]
    PROVE  /\ jobs' = [i \in DOMAIN jobs' |-> jobs'[i]]
           /\ \A i \in DOMAIN jobs' : jobs'[i] \in Delivery
BY DEF TypeOK

LEMMA SendClientType ==
    ASSUME TypeOK, NEW j \in DOMAIN jobs, SendClient(j)
    PROVE  \E d \in Delivery : jobs' = [jobs EXCEPT ![j] = d]
<1> DEFINE d == jobs[j]
           sent == [d EXCEPT !.posts = Append(@, [data |-> d.data, root |-> d.root])]
<1>1. d \in Delivery
  BY DEF TypeOK
<1>2. sent \in Delivery /\ sent.retry = d.retry
  <2> DEFINE posts == Append(d.posts, [data |-> d.data, root |-> d.root])
  <2>1. /\ d.posts \in Seq([data : BOOLEAN, root : BOOLEAN])
        /\ [data |-> d.data, root |-> d.root] \in [data : BOOLEAN, root : BOOLEAN]
    BY <1>1 DEF Delivery
  <2>2. posts \in Seq([data : BOOLEAN, root : BOOLEAN])
    BY <2>1
  <2> HIDE DEF posts
  <2>3. [d EXCEPT !.posts = posts] \in Delivery /\ [d EXCEPT !.posts = posts].retry = d.retry
    BY <1>1, <2>2 DEF Delivery
  <2> QED
    BY <2>3 DEF posts
<1>3. [sent EXCEPT !.at = "delivered"] \in Delivery /\ [sent EXCEPT !.at = "failed"] \in Delivery
  BY <1>2 DEF Delivery
<1>4. RetriesLeft(d) => [sent EXCEPT !.retry = @ - 1, !.data = FALSE] \in Delivery
  <2>1. SUFFICES ASSUME d.retry # 0
                 PROVE  [sent EXCEPT !.retry = @ - 1, !.data = FALSE] \in Delivery
    BY DEF RetriesLeft
  <2>2. sent.retry - 1 \in 0 .. RetryAttempts
    BY <1>1, <1>2, <2>1, EventAssumption DEF Delivery
  <2>3. [sent EXCEPT !.retry = sent.retry - 1, !.data = FALSE] \in Delivery
    BY <1>2, <2>2 DEF Delivery
  <2> QED
    BY <2>3
<1> QED
  BY <1>3, <1>4 DEF SendClient

\* Every step keeps every variable within its type.
THEOREM TypeCorrect == Spec => []TypeOK
<1>1. Init => TypeOK
  BY DEF Init, TypeOK
<1>2. TypeOK /\ [Next]_vars => TypeOK'
  <2> SUFFICES ASSUME TypeOK, [Next]_vars PROVE TypeOK'
    OBVIOUS
  <2> USE DEF TypeOK
  <2>1. ASSUME NEW c \in Create, PostSubscription(c) PROVE TypeOK'
    BY <2>1 DEF PostSubscription
  <2>2. ASSUME NEW c \in Create, ValidatePayload(c) PROVE TypeOK'
    BY <2>2 DEF ValidatePayload
  <2>3. ASSUME NEW c \in Create, EventListener(c) PROVE TypeOK'
    BY <2>3 DEF EventListener
  <2>4. ASSUME NEW c \in Create, SubscribeSettles(c) PROVE TypeOK'
    BY <2>4 DEF SubscribeSettles
  <2>5. ASSUME NEW c \in Create, SubscribeReturns(c) PROVE TypeOK'
    BY <2>5 DEF SubscribeReturns
  <2>6. ASSUME NEW c \in Create, DeleteSubscription(c) PROVE TypeOK'
    BY <2>6 DEF DeleteSubscription
  <2>7. ASSUME NEW c \in Create, DisposeListener(c) PROVE TypeOK'
    BY <2>7 DEF DisposeListener
  <2>8. ASSUME NEW e \in Event, Publish(e) PROVE TypeOK'
    BY <2>8 DEF Publish, Live
  <2>9. ASSUME NEW e \in Event, NEW l \in Create, EventCallback(e, l) PROVE TypeOK'
    <3>1. CASE StartDeliveries({<<e, c, l>> : c \in Clients(e)}, Kind[e].sdr = "Threshold")
      BY <2>9, <3>1, StartDeliveriesType DEF EventCallback
    <3>2. CASE UNCHANGED jobs
      BY <2>9, <3>2 DEF EventCallback
    <3> QED
      BY <2>9, <3>1, <3>2 DEF EventCallback
  <2>10. ASSUME NEW q \in TestRequest, TestEvent(q) PROVE TypeOK'
    BY <2>10, StartDeliveriesType DEF TestEvent
  <2>11. ASSUME NEW j \in DOMAIN jobs, ValidateRecord(j) PROVE TypeOK'
    <3>1. PICK next \in {"send", "dropped"} : jobs' = [jobs EXCEPT ![j].at = next]
      BY <2>11 DEF ValidateRecord
    <3>2. [jobs[j] EXCEPT !.at = next] \in Delivery
      BY DEF Delivery
    <3> QED
      BY <2>11, <3>1, <3>2, OneDeliveryType DEF ValidateRecord
  <2>12. ASSUME NEW j \in DOMAIN jobs, SendClient(j) PROVE TypeOK'
    <3>1. PICK d \in Delivery : jobs' = [jobs EXCEPT ![j] = d]
      BY <2>12, SendClientType
    <3>2. /\ jobs' = [i \in DOMAIN jobs' |-> jobs'[i]]
          /\ \A i \in DOMAIN jobs' : jobs'[i] \in Delivery
      BY <3>1, OneDeliveryType
    <3> QED
      BY <2>12, <3>2 DEF SendClient
  <2>13. CASE UNCHANGED vars
    BY <2>13 DEF vars
  <2> QED
    BY <2>1, <2>2, <2>3, <2>4, <2>5, <2>6, <2>7, <2>8, <2>9, <2>10, <2>11, <2>12, <2>13
       DEF Next, Serve
<1> QED
  BY <1>1, <1>2, PTL DEF Spec

-----------------------------------------------------------------------------
(* Destinations                                                            *)

\* A destination is looked up and the subscription stored in one turn, so no two
\* stored subscriptions ever share a destination, however creations and deletions
\* interleave around the validation of the payload.
THEOREM UniqueDestinationsAlways == Spec => []UniqueDestinations
<1>1. Init => UniqueDestinations
  BY DEF Init, UniqueDestinations
<1>2. UniqueDestinations /\ [Next]_vars => UniqueDestinations'
  <2> SUFFICES ASSUME UniqueDestinations, [Next]_vars PROVE UniqueDestinations'
    OBVIOUS
  <2>1. ASSUME eventSubscriptions' \subseteq eventSubscriptions PROVE UniqueDestinations'
    BY <2>1 DEF UniqueDestinations, SameDestination
  <2>2. ASSUME NEW c \in Create, ValidatePayload(c) PROVE UniqueDestinations'
    <3>1. CASE eventSubscriptions' = eventSubscriptions \cup {c} /\ ~Known(c)
      BY <3>1 DEF UniqueDestinations, Known, SameDestination
    <3>2. CASE UNCHANGED eventSubscriptions
      BY <2>1, <3>2
    <3> QED
      BY <2>2, <3>1, <3>2 DEF ValidatePayload
  <2>3. ASSUME NEW c \in Create, \/ PostSubscription(c) \/ EventListener(c)
                                 \/ SubscribeSettles(c) \/ SubscribeReturns(c)
                                 \/ DeleteSubscription(c) \/ DisposeListener(c)
        PROVE  eventSubscriptions' \subseteq eventSubscriptions
    BY <2>3 DEF PostSubscription, EventListener, SubscribeSettles, SubscribeReturns,
                DeleteSubscription, DisposeListener
  <2>4. ASSUME NEW e \in Event, Publish(e) \/ \E l \in Create : EventCallback(e, l)
        PROVE  eventSubscriptions' \subseteq eventSubscriptions
    BY <2>4 DEF Publish, EventCallback
  <2>5. ASSUME NEW q \in TestRequest, TestEvent(q)
        PROVE  eventSubscriptions' \subseteq eventSubscriptions
    BY <2>5 DEF TestEvent
  <2>6. ASSUME NEW j \in DOMAIN jobs, ValidateRecord(j) \/ SendClient(j)
        PROVE  eventSubscriptions' \subseteq eventSubscriptions
    BY <2>6 DEF ValidateRecord, SendClient
  <2>7. CASE UNCHANGED vars
    BY <2>1, <2>7 DEF vars
  <2> QED
    BY <2>1, <2>2, <2>3, <2>4, <2>5, <2>6, <2>7 DEF Next, Serve
<1> QED
  BY <1>1, <1>2, PTL DEF Spec

-----------------------------------------------------------------------------
(* Retries                                                                 *)

\* What is left and what has been posted add up to the attempts.
Accounted(d) ==
    CASE d.at \in {"validate", "send"} -> Len(d.posts) + d.retry = RetryAttempts
      [] d.at = "delivered" -> Len(d.posts) + d.retry = RetryAttempts + 1
      [] d.at = "failed" -> d.retry = 0 /\ Len(d.posts) = RetryAttempts + 1
      [] OTHER -> Len(d.posts) <= RetryAttempts

RetriesInv == \A j \in DOMAIN jobs : Accounted(jobs[j])

LEMMA AccountedBound ==
    ASSUME NEW d \in Delivery, Accounted(d)
    PROVE  /\ Len(d.posts) <= RetryAttempts + 1
           /\ d.at = "failed" => Len(d.posts) = RetryAttempts + 1
<1>1. Len(d.posts) \in Nat /\ d.retry \in Nat /\ d.retry <= RetryAttempts /\ RetryAttempts \in Nat
  BY EventAssumption DEF Delivery
<1>2. d.at \in {"validate", "send", "delivered", "failed", "dropped"}
  BY DEF Delivery
<1> QED
  BY <1>1, <1>2 DEF Accounted

LEMMA NewAccounted ==
    ASSUME NEW new, NEW withPath, RetriesInv, StartDeliveries(new, withPath)
    PROVE  RetriesInv'
<1> SUFFICES ASSUME NEW j \in DOMAIN jobs' PROVE Accounted(jobs'[j])
  BY DEF RetriesInv, Accounted
<1>1. CASE j \in DOMAIN jobs
  BY <1>1 DEF StartDeliveries, RetriesInv
<1>2. CASE j \notin DOMAIN jobs
  <2>1. jobs'[j] = NewDelivery(j[2], withPath)
    BY <1>2 DEF StartDeliveries
  <2>2. Len(<<>>) = 0 /\ RetryAttempts \in Nat
    BY EventAssumption
  <2> QED
    BY <2>1, <2>2 DEF NewDelivery, Accounted
<1> QED
  BY <1>1, <1>2

\* Every attempt moves one from what is left to what has been posted.
LEMMA SentAccounted ==
    ASSUME TypeOK, NEW j \in DOMAIN jobs, RetriesInv, SendClient(j)
    PROVE  RetriesInv'
<1> DEFINE d == jobs[j]
           p == Append(d.posts, [data |-> d.data, root |-> d.root])
<1>1. /\ d \in Delivery /\ Accounted(d) /\ d.at = "send"
      /\ d.posts \in Seq([data : BOOLEAN, root : BOOLEAN])
      /\ d.retry \in Nat /\ RetryAttempts \in Nat
  BY EventAssumption DEF TypeOK, RetriesInv, SendClient, Delivery
<1>2. Len(p) = Len(d.posts) + 1 /\ Len(d.posts) \in Nat
  BY <1>1
<1>3. Len(d.posts) + d.retry = RetryAttempts
  BY <1>1 DEF Accounted
<1> HIDE DEF p
<1> DEFINE After(at, left) ==
             jobs'[j].at = at /\ jobs'[j].posts = p /\ jobs'[j].retry = left
<1>4. \/ After("delivered", d.retry)
      \/ d.retry # 0 /\ After("send", d.retry - 1)
      \/ d.retry = 0 /\ After("failed", d.retry)
  <2> DEFINE sent == [d EXCEPT !.posts = p]
  <2>1. d = [at |-> "send", retry |-> d.retry, data |-> d.data, root |-> d.root, posts |-> d.posts]
    BY <1>1 DEF Delivery
  <2>2. sent = [at |-> "send", retry |-> d.retry, data |-> d.data, root |-> d.root, posts |-> p]
    BY <2>1
  <2>3. \/ jobs'[j] = [sent EXCEPT !.at = "delivered"]
        \/ d.retry # 0 /\ jobs'[j] = [sent EXCEPT !.retry = @ - 1, !.data = FALSE]
        \/ d.retry = 0 /\ jobs'[j] = [sent EXCEPT !.at = "failed"]
    BY DEF SendClient, RetriesLeft, p
  <2> HIDE DEF sent
  <2> QED
    BY <2>2, <2>3
<1>5. Accounted(jobs'[j])
  <2>1. CASE After("delivered", d.retry)
    BY <1>1, <1>2, <1>3, <2>1 DEF Accounted
  <2>2. CASE d.retry # 0 /\ After("send", d.retry - 1)
    BY <1>1, <1>2, <1>3, <2>2 DEF Accounted
  <2>3. CASE d.retry = 0 /\ After("failed", d.retry)
    BY <1>1, <1>2, <1>3, <2>3 DEF Accounted
  <2> QED
    BY <1>4, <2>1, <2>2, <2>3
<1>6. ASSUME NEW i \in DOMAIN jobs' PROVE Accounted(jobs'[i])
  <2>1. CASE i = j
    BY <1>5, <2>1
  <2>2. CASE i # j
    <3>1. i \in DOMAIN jobs /\ jobs'[i] = jobs[i]
      BY <1>6, <2>2 DEF SendClient
    <3> QED
      BY <3>1 DEF RetriesInv
  <2> QED
    BY <2>1, <2>2
<1> QED
  BY <1>6 DEF RetriesInv, Accounted

\* No delivery posts more often than retryAttempts allows, and none is given up
\* before that (sendClient).
THEOREM RetriesAreBoundedAlways == Spec => []RetriesAreBounded
<1>1. Init => RetriesInv
  BY DEF Init, RetriesInv
<1>2. TypeOK /\ RetriesInv /\ [Next]_vars => RetriesInv'
  <2> SUFFICES ASSUME TypeOK, RetriesInv, [Next]_vars PROVE RetriesInv'
    OBVIOUS
  <2>1. ASSUME UNCHANGED jobs PROVE RetriesInv'
    BY <2>1 DEF RetriesInv, Accounted
  <2>2. ASSUME NEW c \in Create, \/ PostSubscription(c) \/ ValidatePayload(c)
                                 \/ EventListener(c) \/ SubscribeSettles(c)
                                 \/ SubscribeReturns(c) \/ DeleteSubscription(c)
                                 \/ DisposeListener(c)
        PROVE  UNCHANGED jobs
    BY <2>2 DEF PostSubscription, ValidatePayload, EventListener, SubscribeSettles,
                SubscribeReturns, DeleteSubscription, DisposeListener
  <2>3. ASSUME NEW e \in Event, Publish(e) PROVE UNCHANGED jobs
    BY <2>3 DEF Publish
  <2>4. ASSUME NEW e \in Event, NEW l \in Create, EventCallback(e, l) PROVE RetriesInv'
    BY <2>1, <2>4, NewAccounted DEF EventCallback
  <2>5. ASSUME NEW q \in TestRequest, TestEvent(q) PROVE RetriesInv'
    BY <2>5, NewAccounted DEF TestEvent
  <2>6. ASSUME NEW j \in DOMAIN jobs, ValidateRecord(j) PROVE RetriesInv'
    <3>1. Accounted(jobs[j]) /\ jobs[j].at = "validate" /\ jobs[j] \in Delivery
      BY <2>6 DEF ValidateRecord, RetriesInv, TypeOK
    <3>2. /\ jobs'[j].at \in {"send", "dropped"}
          /\ jobs'[j].posts = jobs[j].posts /\ jobs'[j].retry = jobs[j].retry
      BY <2>6, <3>1 DEF ValidateRecord, TypeOK, Delivery
    <3>3. Len(jobs[j].posts) \in Nat /\ jobs[j].retry \in Nat /\ RetryAttempts \in Nat
      BY <3>1, EventAssumption DEF Delivery
    <3>4. Accounted(jobs'[j])
      BY <3>1, <3>2, <3>3 DEF Accounted
    <3>5. ASSUME NEW i \in DOMAIN jobs', i # j PROVE i \in DOMAIN jobs /\ jobs'[i] = jobs[i]
      BY <2>6, <3>5 DEF ValidateRecord
    <3> QED
      BY <3>4, <3>5 DEF RetriesInv, Accounted
  <2>7. ASSUME NEW j \in DOMAIN jobs, SendClient(j) PROVE RetriesInv'
    BY <2>7, SentAccounted
  <2>8. CASE UNCHANGED vars
    BY <2>1, <2>8 DEF vars
  <2> QED
    BY <2>1, <2>2, <2>3, <2>4, <2>5, <2>6, <2>7, <2>8 DEF Next, Serve
<1>3. TypeOK /\ RetriesInv => RetriesAreBounded
  BY AccountedBound DEF TypeOK, RetriesInv, RetriesAreBounded
<1> QED
  BY <1>1, <1>2, <1>3, TypeCorrect, PTL DEF Spec

-----------------------------------------------------------------------------
(* What the retries post                                                   *)

\* Exactly the first attempt of a delivery carries the event.
OnlyFirstPostCarriesEvent ==
    \A j \in DOMAIN jobs : \A i \in DOMAIN jobs[j].posts : jobs[j].posts[i].data <=> i = 1

\* What a delivery has posted; and until it ends, it holds the event exactly as
\* long as it has posted nothing.
Carried(d) ==
    /\ \A i \in 1 .. Len(d.posts) : d.posts[i].data <=> i = 1
    /\ d.at \in {"validate", "send"} => (d.data <=> Len(d.posts) = 0)

DataInv == \A j \in DOMAIN jobs : Carried(jobs[j])

LEMMA NewCarried ==
    ASSUME NEW new, NEW withPath, DataInv, StartDeliveries(new, withPath)
    PROVE  DataInv'
<1> SUFFICES ASSUME NEW j \in DOMAIN jobs' PROVE Carried(jobs'[j])
  BY DEF DataInv, Carried
<1>1. CASE j \in DOMAIN jobs
  BY <1>1 DEF StartDeliveries, DataInv
<1>2. CASE j \notin DOMAIN jobs
  <2>1. jobs'[j] = NewDelivery(j[2], withPath)
    BY <1>2 DEF StartDeliveries
  <2>2. Len(<<>>) = 0
    OBVIOUS
  <2> QED
    BY <2>1, <2>2 DEF NewDelivery, Carried
<1> QED
  BY <1>1, <1>2

\* The delivery posts what it holds, and after an error it holds nothing.
LEMMA SentCarried ==
    ASSUME TypeOK, NEW j \in DOMAIN jobs, DataInv, SendClient(j)
    PROVE  DataInv'
<1> DEFINE d == jobs[j]
           p == Append(d.posts, [data |-> d.data, root |-> d.root])
<1>1. /\ d \in Delivery /\ Carried(d) /\ d.at = "send" /\ d.data \in BOOLEAN
      /\ d.posts \in Seq([data : BOOLEAN, root : BOOLEAN])
  BY DEF TypeOK, DataInv, SendClient, Delivery
<1>2. /\ Len(d.posts) \in Nat /\ Len(p) = Len(d.posts) + 1
      /\ \A i \in 1 .. Len(d.posts) : p[i] = d.posts[i]
      /\ p[Len(d.posts) + 1].data = d.data
  BY <1>1
<1>3. \A i \in 1 .. Len(p) : p[i].data <=> i = 1
  <2> SUFFICES ASSUME NEW i \in 1 .. Len(p) PROVE p[i].data <=> i = 1
    OBVIOUS
  <2>1. CASE i \in 1 .. Len(d.posts)
    BY <1>1, <1>2, <2>1 DEF Carried
  <2>2. CASE i = Len(d.posts) + 1
    <3>1. d.data <=> Len(d.posts) = 0
      BY <1>1 DEF Carried
    <3>2. i = 1 <=> Len(d.posts) = 0
      BY <1>2, <2>2
    <3> QED
      BY <1>2, <2>2, <3>1, <3>2
  <2> QED
    BY <1>2, <2>1, <2>2
<1> HIDE DEF p
<1>4. /\ jobs'[j].posts = p
      /\ jobs'[j].at \in {"delivered", "failed"} \/ jobs'[j].data = FALSE
  <2> DEFINE sent == [d EXCEPT !.posts = p]
  <2>1. sent = [at |-> "send", retry |-> d.retry, data |-> d.data, root |-> d.root, posts |-> p]
    BY <1>1 DEF Delivery
  <2>2. \/ jobs'[j] = [sent EXCEPT !.at = "delivered"]
        \/ jobs'[j] = [sent EXCEPT !.retry = @ - 1, !.data = FALSE]
        \/ jobs'[j] = [sent EXCEPT !.at = "failed"]
    BY DEF SendClient, p
  <2> HIDE DEF sent
  <2> QED
    BY <2>1, <2>2
<1>5. Carried(jobs'[j])
  BY <1>2, <1>3, <1>4 DEF Carried
<1>6. ASSUME NEW i \in DOMAIN jobs', i # j PROVE i \in DOMAIN jobs /\ jobs'[i] = jobs[i]
  BY <1>6 DEF SendClient
<1> QED
  BY <1>5, <1>6 DEF DataInv, Carried

\* sendClient calls itself without "data": for every retryAttempts, the first
\* post of each delivery carries the event, and no retry ever does.
THEOREM RetriesPostNoEvent == Spec => []OnlyFirstPostCarriesEvent
<1>1. Init => DataInv
  BY DEF Init, DataInv
<1>2. TypeOK /\ DataInv /\ [Next]_vars => DataInv'
  <2> SUFFICES ASSUME TypeOK, DataInv, [Next]_vars PROVE DataInv'
    OBVIOUS
  <2>1. ASSUME UNCHANGED jobs PROVE DataInv'
    BY <2>1 DEF DataInv, Carried
  <2>2. ASSUME NEW c \in Create, \/ PostSubscription(c) \/ ValidatePayload(c)
                                 \/ EventListener(c) \/ SubscribeSettles(c)
                                 \/ SubscribeReturns(c) \/ DeleteSubscription(c)
                                 \/ DisposeListener(c)
        PROVE  UNCHANGED jobs
    BY <2>2 DEF PostSubscription, ValidatePayload, EventListener, SubscribeSettles,
                SubscribeReturns, DeleteSubscription, DisposeListener
  <2>3. ASSUME NEW e \in Event, Publish(e) PROVE UNCHANGED jobs
    BY <2>3 DEF Publish
  <2>4. ASSUME NEW e \in Event, NEW l \in Create, EventCallback(e, l) PROVE DataInv'
    BY <2>1, <2>4, NewCarried DEF EventCallback
  <2>5. ASSUME NEW q \in TestRequest, TestEvent(q) PROVE DataInv'
    BY <2>5, NewCarried DEF TestEvent
  <2>6. ASSUME NEW j \in DOMAIN jobs, ValidateRecord(j) PROVE DataInv'
    <3>1. Carried(jobs[j]) /\ jobs[j].at = "validate" /\ jobs[j] \in Delivery
      BY <2>6 DEF ValidateRecord, DataInv, TypeOK
    <3>2. /\ jobs'[j].at \in {"send", "dropped"}
          /\ jobs'[j].posts = jobs[j].posts /\ jobs'[j].data = jobs[j].data
      BY <2>6, <3>1 DEF ValidateRecord, TypeOK, Delivery
    <3>3. Carried(jobs'[j])
      BY <3>1, <3>2 DEF Carried
    <3>4. ASSUME NEW i \in DOMAIN jobs', i # j PROVE i \in DOMAIN jobs /\ jobs'[i] = jobs[i]
      BY <2>6, <3>4 DEF ValidateRecord
    <3> QED
      BY <3>3, <3>4 DEF DataInv, Carried
  <2>7. ASSUME NEW j \in DOMAIN jobs, SendClient(j) PROVE DataInv'
    BY <2>7, SentCarried
  <2>8. CASE UNCHANGED vars
    BY <2>1, <2>8 DEF vars
  <2> QED
    BY <2>1, <2>2, <2>3, <2>4, <2>5, <2>6, <2>7, <2>8 DEF Next, Serve
<1>3. TypeOK /\ DataInv => OnlyFirstPostCarriesEvent
  <2> SUFFICES ASSUME TypeOK, DataInv, NEW j \in DOMAIN jobs
               PROVE  \A i \in DOMAIN jobs[j].posts : jobs[j].posts[i].data <=> i = 1
    BY DEF OnlyFirstPostCarriesEvent
  <2>1. DOMAIN jobs[j].posts = 1 .. Len(jobs[j].posts)
    BY DEF TypeOK, Delivery
  <2> QED
    BY <2>1 DEF DataInv, Carried
<1> QED
  BY <1>1, <1>2, <1>3, TypeCorrect, PTL DEF Spec

-----------------------------------------------------------------------------
(* The listener                                                            *)

\* Somebody is about to bring up a listener.
OnItsWay ==
    \/ \E c \in Create : creating[c] = "stored"
    \/ \E l \in Create : listener[l] \in {"requested", "consuming"}

\* Where there are subscriptions, a listener is held or on its way; and the one
\* that is held is live.
ListenerInv ==
    /\ \A l \in subscription : listener[l] = "resolved"
    /\ eventSubscriptions # {} => subscription # {} \/ OnItsWay

\* When the broker accepts every listener, subscribers have a listener whenever
\* no creation or deletion is under way, however those interleave (eventListener,
\* deleteEvent).
THEOREM SubscribersAreServedAlways ==
    ASSUME "subscribe" \notin Faults
    PROVE  Spec => []SubscribersAreServed
<1>1. Init => ListenerInv
  BY DEF Init, ListenerInv
<1>2. TypeOK /\ ListenerInv /\ [Next]_vars => ListenerInv'
  <2> SUFFICES ASSUME TypeOK, ListenerInv, [Next]_vars PROVE ListenerInv'
    OBVIOUS
  <2> USE DEF TypeOK, ListenerInv, OnItsWay
  <2>1. ASSUME UNCHANGED <<eventSubscriptions, subscription, creating, listener>>
        PROVE  ListenerInv'
    BY <2>1
  <2>2. ASSUME NEW c \in Create, PostSubscription(c) PROVE ListenerInv'
    BY <2>2 DEF PostSubscription
  <2>3. ASSUME NEW c \in Create, ValidatePayload(c) PROVE ListenerInv'
    BY <2>3 DEF ValidatePayload
  <2>4. ASSUME NEW c \in Create, EventListener(c) PROVE ListenerInv'
    BY <2>4 DEF EventListener, ListenerIsHeld
  <2>5. ASSUME NEW c \in Create, SubscribeSettles(c) PROVE ListenerInv'
    BY <2>5 DEF SubscribeSettles
  <2>6. ASSUME NEW c \in Create, SubscribeReturns(c) PROVE ListenerInv'
    BY <2>6 DEF SubscribeReturns
  <2>7. ASSUME NEW c \in Create, DeleteSubscription(c) PROVE ListenerInv'
    BY <2>7 DEF DeleteSubscription
  <2>8. ASSUME NEW c \in Create, DisposeListener(c) PROVE ListenerInv'
    BY <2>8 DEF DisposeListener, NoneLeft
  <2>9. ASSUME NEW e \in Event, Publish(e) \/ \E l \in Create : EventCallback(e, l)
        PROVE  ListenerInv'
    BY <2>1, <2>9 DEF Publish, EventCallback
  <2>10. ASSUME NEW q \in TestRequest, TestEvent(q) PROVE ListenerInv'
    BY <2>1, <2>10 DEF TestEvent
  <2>11. ASSUME NEW j \in DOMAIN jobs, ValidateRecord(j) \/ SendClient(j) PROVE ListenerInv'
    BY <2>1, <2>11 DEF ValidateRecord, SendClient
  <2>12. CASE UNCHANGED vars
    BY <2>1, <2>12 DEF vars
  <2> QED
    BY <2>2, <2>3, <2>4, <2>5, <2>6, <2>7, <2>8, <2>9, <2>10, <2>11, <2>12 DEF Next, Serve
<1>3. TypeOK /\ ListenerInv => SubscribersAreServed
  BY DEF TypeOK, ListenerInv, OnItsWay, SubscribersAreServed, Settled, InFlight, Live, Consuming
<1> QED
  BY <1>1, <1>2, <1>3, TypeCorrect, PTL DEF Spec

-----------------------------------------------------------------------------
(* One listener                                                            *)

\* A creation at its beginning has no listener, one on its way finds the module
\* variable empty, and the variable holds what is resolved.
Held(c) ==
    /\ creating[c] # "created" => listener[c] = "none"
    /\ listener[c] \in {"requested", "consuming"} => subscription = {}
    /\ listener[c] = "resolved" <=> subscription = {c}

OneInv ==
    ~overlapped =>
        /\ \A c, d \in InFlight : c = d
        /\ subscription = {} \/ \E l \in Create : subscription = {l}
        /\ \A c \in Create : Held(c)

LEMMA OneInvHolds == TypeOK /\ OneInv => OneListenerUnlessOverlapped
<1> SUFFICES ASSUME TypeOK, OneInv, ~overlapped PROVE OneListener
  BY DEF OneListenerUnlessOverlapped
<1>1. \A l \in Create : listener[l] = "resolved" => l \in subscription
  BY DEF OneInv, Held
<1>2. Live = {} \/ \E l \in Create : Live = {l}
  BY DEF OneInv, Held, Live, Consuming, InFlight
<1>3. Cardinality({}) = 0 /\ \A l \in Create : Cardinality({l}) = 1
  BY FS_EmptySet, FS_Singleton
<1>4. Cardinality(Live) <= 1
  BY <1>2, <1>3
<1> QED
  BY <1>1, <1>4 DEF OneListener

LEMMA OneInvStep == TypeOK /\ OneInv /\ [ObservedNext]_ovars => OneInv'
<1> SUFFICES ASSUME TypeOK, OneInv, [ObservedNext]_ovars, ~overlapped' PROVE OneInv'
  BY DEF OneInv
<1> USE DEF TypeOK, OneInv, Held
<1>1. ~overlapped /\ (\A c, d \in InFlight : c = d) /\ \A c, d \in InFlight' : c = d
  <2>1. CASE UNCHANGED ovars
    BY <2>1 DEF ovars, vars, InFlight
  <2>2. CASE ObservedNext
    BY <2>2 DEF ObservedNext, Observe
  <2> QED
    BY <2>1, <2>2
<1>2. ASSUME UNCHANGED <<subscription, creating, listener>> PROVE OneInv'
  BY <1>1, <1>2
<1>3. ASSUME NEW c \in Create, PostSubscription(c) \/ ValidatePayload(c) PROVE OneInv'
  BY <1>1, <1>3 DEF PostSubscription, ValidatePayload
<1>4. ASSUME NEW c \in Create, EventListener(c) PROVE OneInv'
  <2>1. \A d \in Create : d # c => listener[d] \notin {"requested", "consuming"}
    BY <1>1, <1>4 DEF EventListener, InFlight
  <2> QED
    BY <1>1, <1>4, <2>1 DEF EventListener, ListenerIsHeld
<1>5. ASSUME NEW c \in Create, SubscribeSettles(c) PROVE OneInv'
  BY <1>1, <1>5 DEF SubscribeSettles
<1>6. ASSUME NEW c \in Create, SubscribeReturns(c) PROVE OneInv'
  <2>1. subscription = {} /\ \A d \in Create : listener[d] # "resolved"
    BY <1>1, <1>6 DEF SubscribeReturns
  <2>2. \A d \in Create : d # c => listener[d] \notin {"requested", "consuming"}
    BY <1>1, <1>6 DEF SubscribeReturns, InFlight
  <2> QED
    BY <1>1, <1>6, <2>1, <2>2 DEF SubscribeReturns
<1>7. ASSUME NEW c \in Create, DeleteSubscription(c) PROVE OneInv'
  BY <1>2, <1>7 DEF DeleteSubscription
<1>8. ASSUME NEW c \in Create, DisposeListener(c) PROVE OneInv'
  BY <1>1, <1>8 DEF DisposeListener
<1>9. ASSUME NEW e \in Event, Publish(e) \/ \E l \in Create : EventCallback(e, l)
      PROVE  OneInv'
  BY <1>2, <1>9 DEF Publish, EventCallback
<1>10. ASSUME NEW q \in TestRequest, TestEvent(q) PROVE OneInv'
  BY <1>2, <1>10 DEF TestEvent
<1>11. ASSUME NEW j \in DOMAIN jobs, ValidateRecord(j) \/ SendClient(j) PROVE OneInv'
  BY <1>2, <1>11 DEF ValidateRecord, SendClient
<1>12. CASE UNCHANGED ovars
  BY <1>2, <1>12 DEF ovars, vars
<1> QED
  BY <1>3, <1>4, <1>5, <1>6, <1>7, <1>8, <1>9, <1>10, <1>11, <1>12
     DEF ObservedNext, Next, Serve

\* As long as no two creations are under way together, there is at most one listener,
\* and once it is up the module variable holds it, however the creations overlap with
\* deletions, which dispose of it (eventListener, deleteEvent).
THEOREM OneListenerAlways == ObservedSpec => []OneListenerUnlessOverlapped
<1>1. ObservedInit => Init /\ OneInv
  BY DEF ObservedInit, Init, OneInv, Held, InFlight
<1>2. [ObservedNext]_ovars => [Next]_vars
  BY DEF ObservedNext, ovars
<1>3. ObservedSpec => Spec
  BY <1>1, <1>2, PTL DEF ObservedSpec, Spec
<1> QED
  BY <1>1, <1>3, OneInvStep, OneInvHolds, TypeCorrect, PTL DEF ObservedSpec


-----------------------------------------------------------------------------
(***************************************************************************)
(* The uPnP service                                                        *)
(***************************************************************************)

-----------------------------------------------------------------------------
(* The alerts                                                              *)

AlertType == [type : {"none", "present", "missing"}, odd : BOOLEAN]

\* A client that does not search has cached nothing, and what is cached has been
\* announced last.
DInv ==
    /\ observing \in BOOLEAN
    /\ cache \in [USN -> {"absent", "valid", "overdue", "lasting"}]
    /\ alerts \in [USN -> AlertType]
    /\ \A u \in USN : cache[u] # "absent" => observing /\ alerts[u].type = "present"

DNext == Network \/ StartServers \/ StartObserving \/ DiscoveryNext \/ Throw \/ Forget

LEMMA DInvInit == DiscoveryInit => DInv /\ Service!Init
  <1> SUFFICES ASSUME DiscoveryInit PROVE DInv /\ Service!Init
    OBVIOUS
  <1> DEFINE none == [type |-> "none", odd |-> FALSE]
  <1>1. /\ observing = FALSE /\ there = {} /\ cache = [u \in USN |-> "absent"]
        /\ alerts = [u \in USN |-> none]
    BY DEF DiscoveryInit
  <1>2. none \in AlertType
    BY DEF AlertType
  <1>3. Announced = {} /\ DInv
    <2> HIDE DEF none
    <2> QED BY <1>1, <1>2 DEF Announced, DInv
  <1> QED BY <1>1, <1>3 DEF Service!Init

LEMMA SweepServes ==
    ASSUME DInv, observing, Sweep, UNCHANGED <<there, observing>>
    PROVE  DInv' /\ Service!Next
  <1> DEFINE over == {u \in USN : cache[u] = "overdue"}
  <1>1. /\ Announced' = Announced \ over /\ over \in SUBSET Announced
        /\ Service!Alert(over, "missing")
    BY DEF Sweep, Sent, Announced, DInv, Service!Alert
  <1>2. Service!Next
    BY <1>1 DEF Service!Next, Service!Missing
  <1>3. DInv'
    BY DEF Sweep, Sent, DInv, AlertType
  <1> QED BY <1>2, <1>3

LEMMA RespondServes ==
    ASSUME DInv, observing, NEW u \in USN, NEW age, Respond(u, age), UNCHANGED <<there, observing>>
    PROVE  DInv' /\ Service!Next
  <1>0. PICK life \in {"valid", "lasting"} : cache' = [cache EXCEPT ![u] = life]
    BY DEF Respond, Lives
  <1>1. cache' \in [USN -> {"absent", "valid", "overdue", "lasting"}] /\ Announced' = Announced \cup {u}
    BY <1>0 DEF Announced, DInv
  <1>2. CASE cache[u] = "absent"
    <2>1. Sent("present", {u}) /\ u \notin Announced
      BY <1>2 DEF Respond, Announced
    <2>2. Service!Present({u})
      BY <1>1, <2>1 DEF Sent, Service!Present, Service!Alert
    <2>3. {u} \in SUBSET (USN \ Announced)
      BY <2>1
    <2>4. Service!Next
      BY <2>2, <2>3 DEF Service!Next
    <2>5. DInv'
      BY <1>0, <1>1, <2>1 DEF Sent, DInv, AlertType
    <2> QED BY <2>4, <2>5
  <1>3. CASE cache[u] # "absent"
    <2>1. alerts' = alerts \/ alerts' = [alerts EXCEPT ![u].type = "present"]
      BY <1>3 DEF Respond, DInv
    <2>2. alerts[u] \in AlertType /\ alerts[u].type = "present"
      BY <1>3 DEF DInv
    <2>3. [alerts[u] EXCEPT !.type = "present"] = alerts[u]
      BY <2>2 DEF AlertType
    <2>4. alerts' = alerts
      BY <2>1, <2>3 DEF DInv
    <2>5. Announced' = Announced
      BY <1>1, <1>3 DEF Announced
    <2> QED BY <1>0, <1>1, <1>3, <2>4, <2>5 DEF DInv, Service!Next
  <1> QED BY <1>2, <1>3

LEMMA ByeServes ==
    ASSUME DInv, Bye
    PROVE  DInv' /\ Service!Next
  <1>1. PICK u \in USN :
            /\ cache' = [cache EXCEPT ![u] = "absent"]
            /\ IF observing /\ cache[u] # "absent" THEN Sent("missing", {u}) ELSE UNCHANGED alerts
            /\ UNCHANGED <<there, observing>>
    BY DEF Bye, Takes
  <1>2. Announced' = Announced \ {u}
    BY <1>1 DEF Announced, DInv
  <1>3. CASE cache[u] = "absent"
    <2>1. Announced' = Announced /\ alerts' = alerts
      BY <1>1, <1>2, <1>3 DEF Announced
    <2> QED BY <1>1, <1>3, <2>1 DEF DInv, Service!Next
  <1>4. CASE cache[u] # "absent"
    <2>1. Sent("missing", {u}) /\ {u} \in SUBSET Announced
      BY <1>1, <1>4 DEF DInv, Announced
    <2>2. Service!Missing({u})
      BY <1>2, <2>1 DEF Sent, Service!Missing, Service!Alert
    <2>3. DInv'
      BY <1>1, <2>1 DEF Sent, DInv, AlertType
    <2> QED BY <1>1, <2>1, <2>2, <2>3 DEF Service!Next
  <1> QED BY <1>3, <1>4

LEMMA DStep == DInv /\ [DNext]_dvars => DInv' /\ [Service!Next]_(Service!vars)
  <1> SUFFICES ASSUME DInv, [DNext]_dvars PROVE DInv' /\ [Service!Next]_(Service!vars)
    OBVIOUS
  <1>1. ASSUME UNCHANGED <<cache, alerts>>, observing' = observing \/ observing' = TRUE
        PROVE  DInv' /\ [Service!Next]_(Service!vars)
    BY <1>1 DEF DInv, Announced, Service!Next
  <1>2. CASE Network \/ StartServers \/ StartObserving \/ Alive \/ Echo \/ UNCHANGED dvars
    BY <1>1, <1>2 DEF Network, StartServers, StartObserving, Alive, Echo, dvars
  <1>3. ASSUME NEW t \in Offered, NEW on \in BOOLEAN, PatchManager(t, on)
        PROVE  DInv' /\ [Service!Next]_(Service!vars)
    BY <1>1, <1>3 DEF PatchManager
  <1>4. ASSUME NEW u \in USN, Overdue(u) PROVE DInv' /\ [Service!Next]_(Service!vars)
    <2>1. Announced' = Announced /\ alerts' = alerts
      BY <1>4 DEF Overdue, Announced, DInv
    <2> QED BY <1>4, <2>1 DEF Overdue, DInv, Service!Next
  <1>5. CASE Poll
    BY <1>5, SweepServes DEF Poll
  <1>6. CASE Response
    <2>1. PICK u \in USN, age \in {"positive", "zero"} :
              Respond(u, age) /\ observing /\ UNCHANGED <<there, observing>>
      BY <1>6 DEF Response, Takes
    <2> QED BY <2>1, RespondServes
  <1>7. CASE Bye
    BY <1>7, ByeServes
  <1>8. CASE Throw \/ Forget
    <2>1. Lose /\ there' = there
      BY <1>8 DEF Throw, Forget, Takes, network
    <2>2. Announced' = {} /\ alerts' = alerts
      BY <2>1 DEF Lose, Announced
    <2>3. Service!Next
      BY <2>1, <2>2 DEF Service!Next, Service!Forget
    <2> QED BY <2>1, <2>2, <2>3 DEF Lose, DInv
  <1> QED BY <1>2, <1>3, <1>4, <1>5, <1>6, <1>7, <1>8 DEF DNext, DiscoveryNext

\* Every step of the service is a step of Presence or none: a service is only announced
\* present when it was not, and only missing when it was, though answers are late, entries
\* run out and notifications cross them (_alertNew, _alertGone, inResponse, the poll).
THEOREM DiscoveryAlternates == DiscoverySpec => Service!Init /\ [][Service!Next]_(Service!vars)
  <1>1. DiscoverySpec => DiscoveryInit /\ [][DNext]_dvars
    BY DEF DiscoverySpec, DNext
  <1> QED BY <1>1, DInvInit, DStep, PTL

-----------------------------------------------------------------------------
(* Start and stop                                                          *)

Serving == {"http", "started"}

Types ==
    /\ http \in [Endpoints -> {"none", "created", "listening", "closing", "closed"}]
    /\ open \in [Endpoints -> Nat]
    /\ stopping \in {"no", "services", "servers", "core", "done"}

\* start has come to the endpoints where one takes requests.
ServersAfterStart ==
    \A e \in Endpoints :
        /\ http[e] \in {"listening", "closing"} => step \in Serving
        /\ open[e] > 0 => http[e] \in {"listening", "closing"}

\* Nothing but the end of a stop takes the database down again.
CoreIsUp == step # "core" => core = "up" \/ stopping = "done"

\* A stop that waits for the endpoints goes on when start has ended, and to the
\* database when they are closed.
StopWaits ==
    /\ stopping \in {"services", "servers"} => stopList = "promise"
    /\ stopList = "promise" /\ stopping # "services" => step = "started"
    /\ stopList = "promise" /\ stopping \in {"core", "done"} => \A e \in Endpoints : http[e] = "closed"
    /\ stopping \in {"core", "done"} => stopList \in {"promise", "empty"}

LInv == Types /\ ServersAfterStart /\ CoreIsUp /\ StopWaits

\* The step after one that is not among the last two is not the first.
LEMMA FollowingStep ==
    ASSUME NEW s \in ToSet(Steps) \ Serving
    PROVE  Following(s) # "core"
  <1> DEFINE i == CHOOSE i \in 1 .. Len(Steps) : Steps[i] = s
  <1>1. \E k \in 1 .. Len(Steps) : Steps[k] = s
    BY DEF ToSet, Steps
  <1>2. i \in 1 .. Len(Steps) /\ Steps[i] = s
    BY <1>1
  <1>3. i \in 1 .. 6
    BY <1>2 DEF Steps, Serving
  <1>4. ASSUME NEW k \in 1 .. 6 PROVE Steps[k + 1] # "core"
    <2>1. k = 1 \/ k = 2 \/ k = 3 \/ k = 4 \/ k = 5 \/ k = 6
      OBVIOUS
    <2> QED BY <2>1 DEF Steps
  <1>5. Steps[i + 1] # "core"
    <2> HIDE DEF i
    <2> QED BY <1>3, <1>4
  <1> QED BY <1>5 DEF Following

LEMMA LInvInit == LifecycleInit => LInv
  BY DEF LifecycleInit, LInv, Types, ServersAfterStart, CoreIsUp, StopWaits

LEMMA LInvStep == LInv /\ [LifecycleNext]_lvars => LInv'
  <1> SUFFICES ASSUME LInv, [LifecycleNext]_lvars PROVE LInv'
    OBVIOUS
  <1> USE DEF LInv, Types, ServersAfterStart, CoreIsUp, StopWaits, Serving
  <1>1. CASE Launch
    BY <1>1 DEF Launch
  <1>2. CASE Ends \/ Crash
    BY <1>2 DEF Ends, Crash, StartFails, Stopped, Exit
  <1>3. ASSUME NEW s \in ToSet(Steps), Started(s) PROVE LInv'
    <2>1. step' # "core"
      BY <1>3, FollowingStep DEF Started
    <2>2. step \notin Serving
      BY <1>3 DEF Started
    <2> QED BY <1>3, <2>1, <2>2 DEF Started
  <1>4. ASSUME NEW i \in 1 .. Len(Endpoint), HttpUp(i) PROVE LInv'
    <2>1. step = "http" /\ step' \in Serving
      BY <1>4 DEF HttpUp
    <2> QED BY <1>4, <2>1 DEF HttpUp
  <1>5. ASSUME NEW e \in Endpoints, Closed(e) PROVE LInv'
    BY <1>5 DEF Closed
  <1>6. CASE CloseServers
    BY <1>6 DEF CloseServers
  <1>7. CASE ServicesStopped
    BY <1>7 DEF ServicesStopped
  <1>8. CASE StopCore
    BY <1>8 DEF StopCore
  <1>9. CASE Interrupt
    BY <1>9 DEF Interrupt
  <1>10. ASSUME NEW e \in Endpoints, Accept(e) \/ Finish(e) PROVE LInv'
    BY <1>10 DEF Accept, Finish
  <1>11. CASE UNCHANGED lvars
    BY <1>11 DEF lvars
  <1>12. "uPnP" \in ToSet(Steps)
    BY DEF ToSet, Steps
  <1> QED
    BY <1>1, <1>2, <1>3, <1>4, <1>5, <1>6, <1>7, <1>8, <1>9, <1>10, <1>11, <1>12
       DEF LifecycleNext, LifecycleStep, LifecycleInput

\* The database and the messenger are there for every request that is accepted, except
\* after a stop that found the list of services empty (app.js, HttpService.stop).
THEOREM CoreOutlivesRequestsAlways == LifecycleSpec => []CoreOutlivesRequests
  <1>1. LInv => CoreOutlivesRequests
    BY DEF LInv, Types, ServersAfterStart, CoreIsUp, StopWaits, Serving, CoreOutlivesRequests
  <1> QED BY <1>1, LInvInit, LInvStep, PTL DEF LifecycleSpec

-----------------------------------------------------------------------------
(* The program                                                             *)

\* Each step of the program is a step of its life or leaves that alone, and a step of the
\* uPnP service, the network included, or leaves that alone.
LEMMA ProgramStep ==
    ASSUME [ProgramNext]_programVars
    PROVE  [LifecycleNext]_lvars /\ [DNext]_dvars
<1>1. CASE UPnPUp
  <2>1. CASE StartServers /\ UNCHANGED lvars
    BY <2>1 DEF DNext
  <2>2. CASE StartObserving /\ Started("uPnP")
    BY <2>2 DEF DNext, LifecycleNext
  <2> QED BY <1>1, <2>1, <2>2 DEF UPnPUp
<1>2. CASE LifecycleStep /\ UNCHANGED dvars
  BY <1>2 DEF LifecycleNext
<1>3. CASE Ends /\ Forget
  BY <1>3 DEF LifecycleNext, DNext
<1>4. CASE Discovering \/ (Throw /\ Crash)
  BY <1>4 DEF Discovering, DNext, LifecycleNext
<1>5. CASE Network /\ UNCHANGED lvars
  BY <1>5 DEF DNext
<1>6. CASE (Launch \/ LifecycleInput) /\ UNCHANGED dvars
  BY <1>6 DEF LifecycleNext
<1>7. CASE UNCHANGED programVars
  BY <1>7 DEF programVars
<1> QED BY <1>1, <1>2, <1>3, <1>4, <1>5, <1>6, <1>7 DEF ProgramNext, Program

\* The program implements its two parts: composed, neither does what it would not do by
\* itself (app.js calls each of them where its specification allows it).
THEOREM ProgramRunsItsParts == ProgramSpec => LifecycleSpec /\ DiscoverySpec
<1>1. ProgramInit => LifecycleInit /\ DiscoveryInit
  BY DEF ProgramInit
<1>2. DiscoveryInit /\ [][DNext]_dvars => DiscoverySpec
  BY DEF DiscoverySpec, DNext
<1> QED BY <1>1, <1>2, ProgramStep, PTL DEF ProgramSpec, LifecycleSpec

\* So what was proved of a part holds of the program: no request meets a database that is
\* down, and the alerts about a service alternate.
COROLLARY ProgramKeepsPromises ==
    ProgramSpec => []CoreOutlivesRequests /\ Service!Init /\ [][Service!Next]_(Service!vars)
BY ProgramRunsItsParts, CoreOutlivesRequestsAlways, DiscoveryAlternates, PTL

Before == {"core", "views", "files", "packs", "accounts"}

\* How far start is tells what there is of the uPnP service.
WithinInv ==
    /\ step \in Before \cup {"uPnP"} \cup Serving
    /\ step \in Before => servers = {} /\ ~observing
    /\ step = "uPnP" => ~observing
    /\ step \in Serving => servers = Offered /\ observing
    /\ ~process => step = "core"

\* The uPnP service is the last step before the endpoints.
LEMMA UPnPComesLast ==
    /\ \A s \in Before : Following(s) \in Before \cup {"uPnP"}
    /\ Following("uPnP") = "http"
<1> DEFINE Place(s) == CHOOSE i \in 1 .. Len(Steps) : Steps[i] = s
<1>1. /\ Steps[1] = "core" /\ Steps[2] = "views" /\ Steps[3] = "files" /\ Steps[4] = "packs"
      /\ Steps[5] = "accounts" /\ Steps[6] = "uPnP" /\ Steps[7] = "http" /\ Steps[8] = "started"
      /\ Len(Steps) = 8
  BY DEF Steps
<1>2. ASSUME NEW s \in Before \cup {"uPnP"} PROVE Place(s) \in 1 .. 8 /\ Steps[Place(s)] = s
  <2>1. \E i \in 1 .. Len(Steps) : Steps[i] = s
    BY <1>1 DEF Before
  <2> QED BY <1>1, <2>1
<1>3. ASSUME NEW s \in Before PROVE Following(s) \in Before \cup {"uPnP"}
  <2> DEFINE i == Place(s)
  <2>1. i \in 1 .. 8 /\ Steps[i] = s
    BY <1>2
  <2>2. Following(s) = Steps[i + 1]
    BY DEF Following
  <2> HIDE DEF i
  <2>3. i \in 1 .. 5
    BY <1>1, <2>1 DEF Before
  <2> QED BY <1>1, <2>2, <2>3 DEF Before
<1>4. Following("uPnP") = "http"
  <2> DEFINE i == Place("uPnP")
  <2>1. i \in 1 .. 8 /\ Steps[i] = "uPnP"
    BY <1>2
  <2>2. Following("uPnP") = Steps[i + 1]
    BY DEF Following
  <2> HIDE DEF i
  <2>3. i = 6
    BY <1>1, <2>1
  <2> QED BY <1>1, <2>2, <2>3
<1> QED BY <1>3, <1>4

LEMMA WithinInvInit == ProgramInit => WithinInv
BY DEF ProgramInit, DiscoveryInit, LifecycleInit, WithinInv, Before, Serving

LEMMA WithinInvStep == WithinInv /\ [ProgramNext]_programVars => WithinInv'
<1> SUFFICES ASSUME WithinInv, [ProgramNext]_programVars PROVE WithinInv'
  OBVIOUS
<1> USE DEF WithinInv, Before, Serving
<1>1. ASSUME step' = step, process' = process, servers' = servers, observing' = observing
      PROVE  WithinInv'
  BY <1>1
<1>2. CASE step = "uPnP" /\ process /\ StartServers /\ UNCHANGED lvars
  BY <1>2 DEF StartServers, lvars
<1>3. CASE step = "uPnP" /\ StartObserving /\ Started("uPnP")
  BY <1>3, UPnPComesLast DEF StartObserving, own, Started
<1>4. ASSUME NEW s \in ToSet(Steps) \ {"uPnP"}, Started(s), UNCHANGED dvars PROVE WithinInv'
  <2>1. s \in Before /\ step = s /\ step' = Following(s) /\ process' = process /\ process
    BY <1>4 DEF Started
  <2>2. servers' = servers /\ observing' = observing
    BY <1>4 DEF dvars, own
  <2> QED BY <2>1, <2>2, UPnPComesLast
<1>5. ASSUME NEW i \in 1 .. Len(Endpoint), HttpUp(i), UNCHANGED dvars PROVE WithinInv'
  BY <1>5 DEF HttpUp, dvars, own
<1>6. CASE (Ends /\ Forget) \/ (Throw /\ Crash)
  BY <1>6 DEF Ends, Crash, StartFails, Stopped, Exit, Throw, Forget, Lose
<1>7. CASE Discovering
  <2>1. servers' = servers /\ observing' = observing
    BY <1>7 DEF Discovering, DiscoveryNext, Response, Poll, Alive, Bye, Echo, Overdue, PatchManager, own
  <2> QED BY <1>1, <1>7, <2>1 DEF Discovering, lvars
<1>8. CASE Network /\ UNCHANGED lvars
  BY <1>1, <1>8 DEF Network, own, lvars
<1>9. CASE Launch /\ UNCHANGED dvars
  BY <1>9 DEF Launch, dvars, own
<1>10. CASE LifecycleInput /\ UNCHANGED dvars
  BY <1>1, <1>10 DEF LifecycleInput, Interrupt, Accept, Finish, dvars, own
<1>11. ASSUME (\E e \in Endpoints : Closed(e)) \/ CloseServers \/ ServicesStopped \/ StopCore,
              UNCHANGED dvars
       PROVE  WithinInv'
  BY <1>1, <1>11 DEF Closed, CloseServers, ServicesStopped, StopCore, dvars, own
<1>12. CASE UNCHANGED programVars
  BY <1>1, <1>12 DEF programVars, dvars, own, lvars
<1> QED BY <1>2, <1>3, <1>4, <1>5, <1>6, <1>7, <1>8, <1>9, <1>10, <1>11, <1>12
        DEF ProgramNext, Program, UPnPUp, LifecycleStep

\* A request finds the servers of the uPnP service, which publishes its alerts while the
\* messenger is connected and ends with the process (app.js, managers.js): for any number of
\* endpoints, requests, types and services, wherever a step of start fails or a stop meets it.
THEOREM UPnPAlwaysWithinProgram == ProgramSpec => []UPnPWithinProgram
<1>1. LInv /\ WithinInv => UPnPWithinProgram
  BY DEF LInv, Types, ServersAfterStart, CoreIsUp, WithinInv, Before, Serving, UPnPWithinProgram
<1>2. ProgramInit => LInv
  BY LInvInit DEF ProgramInit
<1> QED BY <1>1, <1>2, LInvStep, WithinInvInit, WithinInvStep, ProgramStep, PTL DEF ProgramSpec
=============================================================================
