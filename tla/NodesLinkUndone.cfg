CONSTANTS
    encl = encl  cpu1 = cpu1  cpu2 = cpu2  gpu = gpu  pdu = pdu  rack = rack
    r1 = r1  r2 = r2  r3 = r3  r4 = r4  r5 = r5  r6 = r6
    Node = {encl, cpu1, cpu2, gpu, pdu, rack}
    OtherType = {"near"}
    Request = {r1, r2}
    Op <- UndoneOps
    InitialDb <- RackedDb
    InitialActive <- Idle
    MayStart = {}
    Collections = {}
    MaxInFlight = 1
    Faults = {}
SPECIFICATION Spec
PROPERTY UnlinkTakesEffect
CHECK_DEADLOCK FALSE
