SPECIFICATION Spec
CONSTANTS
    SessionCount = 2
    QueueSize = 3
    IoQueueSize = 4
    MaxLiveAccepts = 2
    SqEntries = 4
    CounterMax = 8
    Fds = {f1, f2}
    ServerFd = ServerFd
    NoFd = NoFd
    Epolls = {ep1}
    NoEpoll = NoEpoll
    Capacities = {1, 2}
    AppCalls = {"READ", "CLOSE", "SHUTDOWN", "DEREGISTER"}
    MaxBacklog = 2
    FaultKinds = {"submit", "epoll_add"}
    MaxFaults = 2
SYMMETRY DescriptorSymmetry
INVARIANTS
    FlagsMatchPipeline
    DescriptorsHaveOneOwner
    AcceptsAreCovered
    InFlightCounted
    AcceptDemandNotLost
PROPERTIES
    ImplementsApi
