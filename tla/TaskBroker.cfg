SPECIFICATION Spec
CONSTANTS
    Peers = {alice}
    Anonymous = anonymous
    Skills = {s1}
    Tasks = {t1, t2}
    Options <- MixedOptions
    NoSkill = NoSkill
    NoPolicy = NoPolicy
    MaxConcurrentTasks = 1
    PeerMax = 1
    TelemetryMax = 1
    MaxChanges = 3
INVARIANTS Authorized AgentIsFresh CapacityExact
PROPERTY ChargedExactly
