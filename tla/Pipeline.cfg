SPECIFICATION ObservedSpec
CONSTANTS
    admin = admin
    operator = operator
    open = open
    token = token
    drop = drop
    root = root
    jwt = jwt
    find = find
    None = None
    User = {admin, operator}
    Rights <- MCRights
    Request = {open, token, drop, root, jwt, find}
    Op <- Ops
    Faults = {"find", "validate", "handler", "render", "message"}
    Changing = {operator}
    MaxRequests = 3
    MaxInFlight = 2
    MaxRestarts = 1
    MaxChanges = 2
INVARIANTS TypeOK RevokedStaysOut
PROPERTY AnsweredOnce
CHECK_DEADLOCK FALSE
