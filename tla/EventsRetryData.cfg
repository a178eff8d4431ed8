CONSTANTS
    c1 = c1  c2 = c2  c3 = c3  host = host  slash = slash  hook = hook
    e1 = e1  e3 = e3  t1 = t1
    Host = {host}  Path = {slash, hook}
    Create = {c1}
    Payload <- OneSubscriber
    Event = {e1}
    Kind <- OneAlert
    TestRequest = {}
    RetryAttempts = 3
    MaxInFlight = 1
    Faults = {}
SPECIFICATION ObservedSpec
INVARIANT EveryPostCarriesEvent
CHECK_DEADLOCK FALSE
