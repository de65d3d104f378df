SPECIFICATION Spec
CONSTANTS
    SessionCount = 2
    QueueSize = 3
    IoQueueSize = 4
    MaxLiveAccepts = 2
    SqEntries = 4
    CounterMax = 8
    Fds = {f1, f2}
    ServerFd = ServerFd
    NoFd = NoFd
    Epolls = {ep1}
    NoEpoll = NoEpoll
    Capacities = {2}
    AppCalls = {"SHUTDOWN"}
    MaxBacklog = 1
    FaultKinds = {}
    MaxFaults = 0
INVARIANTS
    ShutdownEndsWithLastConnection
