SPECIFICATION FairPlugins
CONSTANTS
    peer1 = peer1
    peer2 = peer2
    real = real
    forged = forged
    own = own
    c1 = c1
    c2 = c2
    t1 = t1
    t2 = t2
    A = A
    B = B
    call1 = call1
    call2 = call2
    s1 = s1
    s2 = s2
    Peers = {peer1, peer2}
    Clerks = {c1, c2}
    NoBook = NoBook
    Messages = {real, forged, own}
    Sender <- Senders
    Genuine = {real}
    Talks = {t1, t2}
    NoMessage = NoMessage
    Nodes = {A, B}
    Calls = {call1, call2}
    From <- Callers
    To <- Callees
    MaxCalls = 2
    Channels = {s1, s2}
    Window = 2
    Default <- Defaults
    Sizes = {1, 2}
    MaxTime = 4
    PeerOf <- ForPeer
    Budget <- Budgets
    MaxSessions = 2
    v1 = v1
    Guests = {peer1}
    Visits = {v1}
    Visitor <- Visitors
    ReplayWindow = 1
    RateLimit = 3
    PassTtl = 3
    RequestTtl = 1
    DialLimit = 1
    DialWindow = 1
    MaxClock = 4
SYMMETRY OpsSymmetry
CONSTRAINT TwoAtOnce
INVARIANTS   AccessByLeave
PROPERTIES KeptAsJudged CallsEndTruly
CHECK_DEADLOCK FALSE
