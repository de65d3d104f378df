SPECIFICATION Spec
CONSTANTS
    Sessions = {s1, s2}
    Fds = {f1, f2}
    NoFd = NoFd
    Generations = 2
    Capacities = {4}
    EdgeModes = {TRUE}
    ClientDoes = {{"IN"}, {"IN", "RDHUP"}, {"IN", "HUP", "RDHUP", "ERR"}}
    MaxFetched = 1
SYMMETRY FdSessionSymmetry
INVARIANTS
    ErrorsAreOwn
