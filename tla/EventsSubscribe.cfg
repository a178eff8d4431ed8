CONSTANTS
    c1 = c1  c2 = c2  c3 = c3  host = host  slash = slash  hook = hook
    e1 = e1  e3 = e3  t1 = t1
    Host = {host}  Path = {slash, hook}
    Create = {c1, c2, c3}
    Payload <- TwoDestinations
    Event = {}
    Kind <- NoKind
    TestRequest = {t1}
    RetryAttempts = 0
    MaxInFlight = 3
    Faults = {}
SPECIFICATION ObservedSpec
INVARIANT UniqueDestinations
INVARIANT SubscribersAreServed
INVARIANT OneListenerUnlessOverlapped
CHECK_DEADLOCK FALSE
