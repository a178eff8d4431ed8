CONSTANTS
    u = u  v = v  op = op  ro = ro  p = p  q = q
    r1 = r1  r2 = r2  r3 = r3  r4 = r4  r5 = r5  r6 = r6  r7 = r7  r8 = r8
    None = None
    User = {u, v}
    Role = {op, ro}
    Privilege = {p, q}
    Request = {r1, r2, r3, r4, r5, r6, r7, r8}
    Op <- Mixed
    DefaultRoles <- Hardcoded
    InitialUsers <- OneUser
    MaxRequests = 3
    MaxInFlight = 2
    MaxRestarts = 1
    Faults = {"find", "write", "get"}
SPECIFICATION ObservedSpec
INVARIANT TypeOK
INVARIANT AclAgrees
PROPERTY AckedInForce
PROPERTY UpAndAnswered
CHECK_DEADLOCK FALSE
