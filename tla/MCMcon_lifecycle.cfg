SPECIFICATION Spec
CONSTANTS
    SessionCount = 2
    QueueSize = 3
    IoQueueSize = 4
    MaxLiveAccepts = 2
    SqEntries = 4
    CounterMax = 8
    Fds = {f1, f2, f3}
    ServerFd = ServerFd
    NoFd = NoFd
    Epolls = {ep1}
    NoEpoll = NoEpoll
    Capacities = {0, 2}
    AppCalls = {"READ", "WRITE", "CLOSE", "DETACH", "SHUTDOWN", "RENEW"}
    MaxBacklog = 2
    FaultKinds = {}
    MaxFaults = 0
SYMMETRY DescriptorSymmetry
INVARIANTS
    TypeOK
    FlagsMatchPipeline
    OperationsKeepTheirSocket
    DescriptorsHaveOneOwner
    FreeStackExact
    AcceptsAreCovered
    InFlightBounded
    WakeupPending
    AcceptDemandNotLost
    StoppedIsIdle
PROPERTIES
    SocketReleasedOnce
    ImplementsApi
