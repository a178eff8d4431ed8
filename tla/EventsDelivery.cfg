CONSTANTS
    c1 = c1  c2 = c2  c3 = c3  host = host  slash = slash  hook = hook
    e1 = e1  e3 = e3  t1 = t1
    Host = {host}  Path = {slash, hook}
    Create = {c1, c2}
    Payload <- TwoSubscribers
    Event = {e1, e3}
    Kind <- TwoKinds
    TestRequest = {}
    RetryAttempts = 1
    MaxInFlight = 1
    Faults = {"subscribe"}
SPECIFICATION ObservedFairSpec
INVARIANT RetriesAreBounded
PROPERTY AlertsReachSubscribers
PROPERTY DeliveriesEnd
CHECK_DEADLOCK FALSE
