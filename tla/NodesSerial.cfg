CONSTANTS
    encl = encl  cpu1 = cpu1  cpu2 = cpu2  gpu = gpu  pdu = pdu  rack = rack
    r1 = r1  r2 = r2  r3 = r3  r4 = r4  r5 = r5  r6 = r6
    Node = {encl, cpu1, cpu2, pdu, rack}
    OtherType = {"near"}
    Request = {r1, r2, r3, r4, r5, r6}
    Op <- SerialOps
    InitialDb <- FlatDb
    InitialActive <- Idle
    MayStart = {encl}
    Collections = {"catalogs"}
    MaxInFlight = 1
    Faults = {"check"}
SPECIFICATION FairSpec
INVARIANT TypeOK
INVARIANT ReferencesLive
INVARIANT NoDocumentOutlivesEvent
INVARIANT SingleContainer
INVARIANT ComponentsGoFirst
PROPERTY DestroyedAnnounced
CHECK_DEADLOCK FALSE
