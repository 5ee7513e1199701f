SPECIFICATION FairSpec
CONSTANTS
    bob = bob
    carol = carol
    i1 = i1
    i2 = i2
    a1 = a1
    a2 = a2
    k1 = k1
    k2 = k2
    x1 = x1
    x2 = x2
    w1 = w1
    w2 = w2
    Nobody = Nobody
    Instances = {i1, i2}
    People = {bob, carol}
    Addresses = {a1, a2}
    Owners <- SecondIsAny
    Homes <- SamePlace
    Calls = {k1, k2}
    Wanted <- ToBob
    Conns = {x1, x2}
    Scenes <- AllScenes
    MaxConnections = 1
    MaxTasks = 1
    MaxRetries = 1
    WanCalls = {w1, w2}
    MaxStops = 1
INVARIANTS  LimitsHold
PROPERTIES ImplementsRemoteTask PeerIsFoundAgain
CHECK_DEADLOCK FALSE
