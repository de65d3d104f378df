SPECIFICATION Spec
CONSTANTS
    SessionCount = 3
    QueueSize = 1
    IoQueueSize = 1
    MaxLiveAccepts = 1
    SqEntries = 1
    CounterMax = 8
    Fds = {f1, f2}
    ServerFd = ServerFd
    NoFd = NoFd
    Epolls = {ep1}
    NoEpoll = NoEpoll
    Capacities = {1}
    AppCalls = {"READ", "DRAIN", "CLOSE", "SHUTDOWN", "DETACH"}
    MaxBacklog = 2
    FaultKinds = {}
    MaxFaults = 0
SYMMETRY DescriptorSymmetry
INVARIANTS
    FlagsMatchPipeline
    DescriptorsHaveOneOwner
    InFlightBounded
    AcceptDemandNotLost
