SPECIFICATION MCSpec
CONSTANTS
    plain = plain
    dell = dell
    fresh = fresh
    s1 = s1
    s2 = s2
    loose = loose
    Box <- MCBox
    MaxMissing = 3
    Request <- MCRequest
    Node = {plain, dell, fresh}
    NoNode = NoNode
    Dell = {dell}
    Catalog <- MCCatalog
    Holder = {plain, dell}
    Nobody = Nobody
    AtFirst <- MCAtFirst
    Change <- MCChange
    Poller = {1, 2, 3, 4, 5, 6}
    MaxSent = 4
    MaxTop = 7
INVARIANTS LinksCanBeFollowed AnswersTellWhatRuns EveryChangeIsTold PagesPartition
CHECK_DEADLOCK FALSE
