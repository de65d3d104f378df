SPECIFICATION FairSpec
CONSTANTS
    Sessions = {s1, s2}
    Fds = {f1, f2}
    NoFd = NoFd
    Generations = 2
    Capacities = {1, 4}
    EdgeModes = {TRUE, FALSE}
    ClientDoes = {{"IN", "RDHUP"}, {"IN", "HUP", "RDHUP", "ERR"}}
    MaxFetched = 1
INVARIANTS
    TypeOK
    StaleEventsMarked
    HangupReportedOnce
    HangupsAreReal
    HangupNotLost
    MarkedIsReported
PROPERTIES
    HangupsReported
