---------------------------- MODULE EventService ----------------------------
(***************************************************************************)
(* The Redfish event service, lib/api/redfish-1.0/event-service.js: the    *)
(* subscriptions clients create and delete, the one AMQP listener that     *)
(* should exist while there are subscriptions, and the delivery of alerts  *)
(* to the subscribers with its retries.  All state is in the memory of the *)
(* process.  One action is the synchronous code between two awaits.        *)
(*                                                                         *)
(* A subscription's uuid is drawn by the request that creates it, so the   *)
(* create request itself identifies the subscription, and also the AMQP    *)
(* listener that this request may bring up.                                *)
(***************************************************************************)
EXTENDS Naturals, Sequences, FiniteSets

CONSTANTS
    Create,         \* POST requests on the subscription collection
    Payload,        \* [Create -> the destination and event types it asks for]
    Host, Path,     \* the parts of a destination URI that deliveries use
    Event,          \* alerts the pollers publish, each once
    Kind,           \* [Event -> what eventCallback makes of it]
    TestRequest,    \* SubmitTestEvent requests
    RetryAttempts,  \* "retryAttempts" of the source
    MaxInFlight,    \* how many creations are under way at the same time
    Faults          \* "subscribe": messenger.subscribe may reject

EventType == {"Alert", "StatusChange", "ResourceUpdated"}
Subscription == [host : Host, path : Path, types : SUBSET EventType]

\* An IPMI reading is Threshold or Discrete; the fabric service names its own
\* event type; anything else is ignored by eventCallback.
AlertKind == [sdr : {"Threshold", "Discrete", "Fabric", "Other"}, type : EventType]

ASSUME EventAssumption ==
    /\ Payload \in [Create -> Subscription]
    /\ Kind \in [Event -> AlertKind]
    /\ RetryAttempts \in Nat
    /\ MaxInFlight \in Nat \ {0}

VARIABLES
    eventSubscriptions, \* the subscriptions stored now (create requests)
    subscription,       \* the listener the module variable holds: {} or {listener}
    creating,           \* [Create -> progress of the request]
    deleting,           \* [Create -> progress of the DELETE of its subscription]
    testing,            \* the test requests served
    listener,           \* [Create -> AMQP listener this request brought up]
    inbox,              \* alerts on their way to a listener: <<event, listener>>
    published,          \* alerts the pollers have published
    jobs                \* deliveries: [<<origin, client, listener>> -> delivery]

vars == <<eventSubscriptions, subscription, creating, deleting, testing,
          listener, inbox, published, jobs>>

\* The broker delivers to a listener from before the promise of subscribe is
\* resolved until it is disposed of.
Consuming(l) == listener[l] \in {"consuming", "resolved"}
Live == {l \in Create : Consuming(l)}

\* Creations whose effects are not complete, the listener's included.
InFlight == {c \in Create : \/ creating[c] \in {"validating", "stored"}
                            \/ listener[c] \in {"requested", "consuming"}}

Init ==
    /\ eventSubscriptions = {}
    /\ subscription = {}
    /\ creating = [c \in Create |-> "idle"]
    /\ deleting = [c \in Create |-> "idle"]
    /\ testing = {}
    /\ listener = [c \in Create |-> "none"]
    /\ inbox = {}
    /\ published = {}
    /\ jobs = <<>>

-----------------------------------------------------------------------------
(* createSubscription and eventListener                                    *)

\* The payload is validated asynchronously.
PostSubscription(c) ==
    /\ creating[c] = "idle"
    /\ Cardinality(InFlight) < MaxInFlight
    /\ creating' = [creating EXCEPT ![c] = "validating"]
    /\ UNCHANGED <<eventSubscriptions, subscription, deleting, testing, listener,
                   inbox, published, jobs>>

\* The Destination of a subscription is its whole URI.
SameDestination(c, d) ==
    /\ Payload[c].host = Payload[d].host
    /\ Payload[c].path = Payload[d].path

\* Mutation: ids are compared, not destinations.
KnownById(c) == c \in eventSubscriptions

Known(c) == \E d \in eventSubscriptions : SameDestination(c, d)

\* validatePayload: an invalid payload is refused, a known destination is a
\* conflict, anything else is stored under a new id.
ValidatePayload(c) ==
    /\ creating[c] = "validating"
    /\ \/ /\ creating' = [creating EXCEPT ![c] = "invalid"]
          /\ UNCHANGED eventSubscriptions
       \/ /\ Known(c)
          /\ creating' = [creating EXCEPT ![c] = "conflict"]
          /\ UNCHANGED eventSubscriptions
       \/ /\ ~Known(c)
          /\ eventSubscriptions' = eventSubscriptions \cup {c}
          /\ creating' = [creating EXCEPT ![c] = "stored"]
    /\ UNCHANGED <<subscription, deleting, testing, listener, inbox, published, jobs>>

\* Mutation: the module variable is not consulted.
ListenerIsHeldNever == FALSE

\* if (subscription) return subscription.
ListenerIsHeld == subscription # {}

\* eventListener is called but not awaited, and 201 is sent.  A listener is
\* requested unless the module variable already holds one.
EventListener(c) ==
    /\ creating[c] = "stored"
    /\ creating' = [creating EXCEPT ![c] = "created"]
    /\ listener' = IF ListenerIsHeld THEN listener
                 ELSE [listener EXCEPT ![c] = "requested"]
    /\ UNCHANGED <<eventSubscriptions, subscription, deleting, testing, inbox,
                   published, jobs>>

\* The broker accepts the consumer, or messenger.subscribe rejects and nobody
\* handles it.
SubscribeSettles(l) ==
    /\ listener[l] = "requested"
    /\ \E s \in {"consuming"} \cup (IF "subscribe" \in Faults THEN {"failed"} ELSE {}) :
         listener' = [listener EXCEPT ![l] = s]
    /\ UNCHANGED <<eventSubscriptions, subscription, creating, deleting, testing,
                   inbox, published, jobs>>

\* The continuation of messenger.subscribe: subscription = sub.
SubscribeReturns(l) ==
    /\ listener[l] = "consuming"
    /\ listener' = [listener EXCEPT ![l] = "resolved"]
    /\ subscription' = {l}
    /\ UNCHANGED <<eventSubscriptions, creating, deleting, testing, inbox,
                   published, jobs>>

-----------------------------------------------------------------------------
(* deleteEvent                                                             *)

DeleteSubscription(c) ==
    /\ creating[c] \in {"stored", "created"}
    /\ deleting[c] = "idle"
    /\ c \in eventSubscriptions
    /\ eventSubscriptions' = eventSubscriptions \ {c}
    /\ deleting' = [deleting EXCEPT ![c] = "removed"]
    /\ UNCHANGED <<subscription, creating, testing, listener, inbox, published, jobs>>

\* Mutation: every deletion disposes of the listener.
NoneLeftAssumed == TRUE

\* !_.keys(eventSubscriptions).length
NoneLeft == eventSubscriptions = {}

\* In the next turn: the last subscription takes the listener with it.
DisposeListener(c) ==
    /\ deleting[c] = "removed"
    /\ deleting' = [deleting EXCEPT ![c] = "deleted"]
    /\ IF NoneLeft
       THEN /\ listener' = [l \in Create |-> IF l \in subscription THEN "disposed"
                                             ELSE listener[l]]
            /\ subscription' = {}
       ELSE UNCHANGED <<listener, subscription>>
    /\ UNCHANGED <<eventSubscriptions, creating, testing, inbox, published, jobs>>

-----------------------------------------------------------------------------
(* eventCallback, testEvent and sendClient                                 *)

\* A poller publishes an alert; the broker queues it for each live listener.
Publish(e) ==
    /\ e \notin published
    /\ published' = published \cup {e}
    /\ inbox' = inbox \cup ({e} \X Live)
    /\ UNCHANGED <<eventSubscriptions, subscription, creating, deleting, testing,
                   listener, jobs>>

\* Whether the EventTypes of subscription c include what the alert is sent as.
Wants(c, e) ==
    /\ Kind[e].sdr # "Other"
    /\ CASE Kind[e].sdr = "Threshold" -> "Alert" \in Payload[c].types
         [] Kind[e].sdr = "Discrete" -> "StatusChange" \in Payload[c].types
         [] OTHER -> Kind[e].type \in Payload[c].types

\* Mutation: _.find in place of _.filter.
ClientsFirstOnly(e) ==
    LET all == {c \in eventSubscriptions : Wants(c, e)}
    IN  IF all = {} THEN {} ELSE {CHOOSE c \in all : TRUE}

\* The subscribers an alert is for.
Clients(e) == {c \in eventSubscriptions : Wants(c, e)}

\* Mutation: the first attempt is counted as a retry.
NewDeliveryOneRetryLess(c, withPath) ==
    [at |-> "validate", retry |-> RetryAttempts - 1,
     data |-> TRUE, root |-> withPath, posts |-> <<>>]

\* A RedfishTool per client; only the Threshold branch sets the path
\* (settings.root) of the destination on it.
NewDelivery(c, withPath) ==
    [at |-> "validate", retry |-> RetryAttempts,
     data |-> TRUE, root |-> withPath, posts |-> <<>>]

StartDeliveries(new, withPath) ==
    jobs' = [j \in DOMAIN jobs \cup new |->
               IF j \in DOMAIN jobs THEN jobs[j] ELSE NewDelivery(j[2], withPath)]

EventCallback(e, l) ==
    /\ <<e, l>> \in inbox
    /\ inbox' = inbox \ {<<e, l>>}
    /\ IF Consuming(l)
       THEN StartDeliveries({<<e, c, l>> : c \in Clients(e)}, Kind[e].sdr = "Threshold")
       ELSE UNCHANGED jobs
    /\ UNCHANGED <<eventSubscriptions, subscription, creating, deleting, testing,
                   listener, published>>

\* SubmitTestEvent goes to every subscriber; its deliveries are not awaited.
TestEvent(q) ==
    /\ q \in TestRequest \ testing
    /\ testing' = testing \cup {q}
    /\ StartDeliveries({<<q, c, q>> : c \in eventSubscriptions}, FALSE)
    /\ UNCHANGED <<eventSubscriptions, subscription, creating, deleting, listener,
                   inbox, published>>

\* Mutation: the rejection of a bad record is never settled.
ValidateRecordHangs(j) ==
    /\ jobs[j].at = "validate"
    /\ \E next \in {"send", "pending"} : jobs' = [jobs EXCEPT ![j].at = next]
    /\ UNCHANGED <<eventSubscriptions, subscription, creating, deleting, testing,
                   listener, inbox, published>>

\* validateSchema of the record; a bad record is dropped.
ValidateRecord(j) ==
    /\ jobs[j].at = "validate"
    /\ \E next \in {"send", "dropped"} : jobs' = [jobs EXCEPT ![j].at = next]
    /\ UNCHANGED <<eventSubscriptions, subscription, creating, deleting, testing,
                   listener, inbox, published>>

\* 0 !== retry
RetriesLeft(d) == d.retry # 0

\* client.clientRequest(root, 'POST', data) settles.  After an error sendClient
\* calls itself with one retry less, and without "data".
SendClient(j) ==
    /\ jobs[j].at = "send"
    /\ LET d    == jobs[j]
           sent == [d EXCEPT !.posts = Append(@, [data |-> d.data, root |-> d.root])]
       IN  \/ jobs' = [jobs EXCEPT ![j] = [sent EXCEPT !.at = "delivered"]]
           \/ /\ RetriesLeft(d)
              /\ jobs' = [jobs EXCEPT ![j] = [sent EXCEPT !.retry = @ - 1, !.data = FALSE]]
           \/ /\ ~RetriesLeft(d)
              /\ jobs' = [jobs EXCEPT ![j] = [sent EXCEPT !.at = "failed"]]
    /\ UNCHANGED <<eventSubscriptions, subscription, creating, deleting, testing,
                   listener, inbox, published>>

-----------------------------------------------------------------------------
Serve ==
    \/ \E c \in Create : \/ ValidatePayload(c) \/ EventListener(c)
                         \/ SubscribeSettles(c) \/ SubscribeReturns(c)
                         \/ DisposeListener(c)
    \/ \E e \in Event, l \in Create : EventCallback(e, l)
    \/ \E j \in DOMAIN jobs : ValidateRecord(j) \/ SendClient(j)

Next ==
    \/ Serve
    \/ \E c \in Create : PostSubscription(c) \/ DeleteSubscription(c)
    \/ \E e \in Event : Publish(e)
    \/ \E q \in TestRequest : TestEvent(q)

Spec == Init /\ [][Next]_vars

\* Every promise settles and every queued message is consumed.
FairSpec == Spec /\ WF_vars(Serve)

-----------------------------------------------------------------------------
(* Properties                                                              *)

Delivery == [at : {"validate", "send", "delivered", "failed", "dropped"},
             retry : 0 .. RetryAttempts, data : BOOLEAN, root : BOOLEAN,
             posts : Seq([data : BOOLEAN, root : BOOLEAN])]

\* Type correctness of the module variables and the work under way.
TypeOK ==
    /\ eventSubscriptions \subseteq Create
    /\ subscription \subseteq Create
    /\ creating \in [Create -> {"idle", "validating", "invalid", "conflict", "stored", "created"}]
    /\ deleting \in [Create -> {"idle", "removed", "deleted"}]
    /\ testing \subseteq TestRequest
    /\ listener \in [Create -> {"none", "requested", "consuming", "resolved", "disposed", "failed"}]
    /\ inbox \subseteq Event \X Create
    /\ published \subseteq Event
    /\ jobs = [j \in DOMAIN jobs |-> jobs[j]]
    /\ \A j \in DOMAIN jobs : jobs[j] \in Delivery

\* 'EventDestination Exists': no two stored subscriptions share a destination,
\* however creations and deletions interleave around the schema validation.
UniqueDestinations ==
    \A c, d \in eventSubscriptions : SameDestination(c, d) => c = d

Settled ==
    /\ InFlight = {}
    /\ \A c \in Create : deleting[c] # "removed"

\* While there are subscribers, a listener is (about to be) up: no deletion that
\* overlaps with creations disposes of the listener of the remaining ones.
SubscribersAreServed ==
    eventSubscriptions # {} /\ Settled => Live # {}

\* There is at most one listener, so that alerts are consumed once, and once its
\* promise is resolved the module variable holds it, so that a later deletion
\* can dispose of it.
OneListener ==
    /\ Cardinality(Live) <= 1
    /\ \A l \in Create : listener[l] = "resolved" => l \in subscription

\* A delivery is given up only after retryAttempts retries, and never posts
\* more often than that.
RetriesAreBounded ==
    \A j \in DOMAIN jobs :
        /\ Len(jobs[j].posts) <= RetryAttempts + 1
        /\ jobs[j].at = "failed" => Len(jobs[j].posts) = RetryAttempts + 1

\* Every delivery of every alert comes to an end.
DeliveriesEnd ==
    \A e \in Event, c, l \in Create :
        <<e, c, l>> \in DOMAIN jobs ~>
            (<<e, c, l>> \in DOMAIN jobs /\ jobs[<<e, c, l>>].at \in {"delivered", "failed", "dropped"})

\* An alert reaches everyone it is for: once it is on its way to a listener while a
\* subscription c that wants it is stored, it is posted to c at least once, unless its
\* record is found invalid (validateSchema), or c is deleted, or the listener disposed
\* of, before the alert is consumed.
AlertsReachSubscribers ==
    \A e \in Event, c, l \in Create :
        (<<e, l>> \in inbox /\ c \in eventSubscriptions /\ Wants(c, e)) ~>
            \/ /\ <<e, c, l>> \in DOMAIN jobs
               /\ jobs[<<e, c, l>>].posts # <<>> \/ jobs[<<e, c, l>>].at = "dropped"
            \/ c \notin eventSubscriptions
            \/ ~Consuming(l)

\* The DeliveryRetryAttempts property: what is retried is "an event posting".
EveryPostCarriesEvent ==
    \A j \in DOMAIN jobs : \A i \in DOMAIN jobs[j].posts : jobs[j].posts[i].data
=============================================================================
