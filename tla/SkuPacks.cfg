CONSTANTS
    s1 = s1  s2 = s2  p = p  q = q  x = x  a = a  b = b
    r1 = r1  r2 = r2  r3 = r3  r4 = r4
    None = None
    Sku = {s1, s2}
    Name = {a, b}
    Pack = {p, q, x}
    Contents <- Packs
    Request = {r1, r2, r3}
    Menu <- Mixed
    InitialSkus <- OneSku
    MaxInFlight = 2
    MaxRestarts = 1
    Faults = {"move", "define", "load", "regenerate"}
SPECIFICATION ObservedSpec
INVARIANT PacksConsistent
INVARIANT DeletedLeavesNothing
INVARIANT SerialUniqueNames
PROPERTY AckedPackServed
SYMMETRY Requests
CHECK_DEADLOCK FALSE
