SPECIFICATION FairSpec
CONSTANTS
    SessionCount = 2
    QueueSize = 2
    IoQueueSize = 3
    MaxLiveAccepts = 2
    SqEntries = 2
    CounterMax = 8
    Fds = {f1, f2}
    ServerFd = ServerFd
    NoFd = NoFd
    Epolls = {ep1}
    NoEpoll = NoEpoll
    Capacities = {2}
    AppCalls = {"READ", "WRITE", "CLOSE", "DETACH", "SHUTDOWN"}
    MaxBacklog = 1
    FaultKinds = {}
    MaxFaults = 0
PROPERTIES
    ClosesComplete
    AcceptsContinue
    ShutdownCompletes
