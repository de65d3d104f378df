SPECIFICATION Spec
CONSTANTS
    SessionCount = 2
    QueueSize = 1
    IoQueueSize = 4
    MaxLiveAccepts = 1
    SqEntries = 2
    CounterMax = 8
    Fds = {f1, f2}
    ServerFd = ServerFd
    NoFd = NoFd
    Epolls = {ep1}
    NoEpoll = NoEpoll
    Capacities = {2}
    AppCalls = {"READ", "CLOSE"}
    MaxBacklog = 1
    FaultKinds = {"submit"}
    MaxFaults = 1
INVARIANTS
    InFlightMaximum
