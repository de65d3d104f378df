SPECIFICATION FairSpec
CONSTANTS
    SessionCount = 2
    QueueSize = 1
    IoQueueSize = 2
    MaxLiveAccepts = 1
    SqEntries = 1
    CounterMax = 8
    Fds = {f1, f2}
    ServerFd = ServerFd
    NoFd = NoFd
    Epolls = {ep1}
    NoEpoll = NoEpoll
    Capacities = {2}
    AppCalls = {"CLOSE"}
    MaxBacklog = 1
    FaultKinds = {"epoll_add"}
    MaxFaults = 1
PROPERTIES
    AcceptsContinue
