CONSTANTS
    a = a  b = b  u1 = u1  u2 = u2  u3 = u3  d1 = d1  g1 = g1
    None = None
    Name = {a}
    Upload = {u1, u2}
    Delete = {d1}
    Get = {g1}
    Target <- SameFile
    Chunks = 2
    MaxInFlight = 2
    Faults = {"store", "disk", "stream", "abort"}
SPECIFICATION ObservedFairSpec
INVARIANT TypeOK
INVARIANT SerialCollectionMatchesDisk
INVARIANT NoTempFileLeft
INVARIANT NamesAreDistinct
PROPERTY SerialUuidStable
PROPERTY UploadsAnswered
CHECK_DEADLOCK FALSE
