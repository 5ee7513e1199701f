SPECIFICATION SpecParts
CONSTANTS
    p1 = p1
    p2 = p2
    c1 = c1
    c2 = c2
    NoFile = NoFile
    Procs = {p1, p2}
    Callers = {c1, c2}
    ProcOf <- OneCallEach
    Crashable = {p1, p2}
    Slow = FALSE
    Windows = TRUE
    UnlinkFails = FALSE
    Apps = {A, B}
    Pids = {pid1, pid2}
    NoPid = NoPid
    Builds = {"release"}
    Findings = {{"sea"}}
    MaxLaunches = 3
    Chains = {ask1, ask2}
    Other = other
    Sockets = {w1, w2}
    NoSocket = NoSocket
    MaxChanges = 2
INVARIANT ServersAccounted
PROPERTIES  ImplementsMutex  ViewFollows
CHECK_DEADLOCK FALSE
