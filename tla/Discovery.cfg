SPECIFICATION ProgramSpec
CONSTANTS
    lamp = lamp
    redfish = redfish
    north = north
    south = south
    USN = {lamp}
    Offered = {redfish}
    Type <- MCType
    Endpoint <- MCEndpoint
    MaxOpen = 1
    MaxRuns = 2
    Failing = {"uPnP", "http"}
INVARIANTS CoreOutlivesRequests UPnPWithinProgram
PROPERTIES AlertsFollowServices StopEnds
CHECK_DEADLOCK FALSE
