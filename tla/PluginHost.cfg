SPECIFICATION SpecParts
CONSTANTS
    a = a
    b = b
    c = c
    x = x
    y = y
    d = d
    Dirs = {a, b, c, d}
    Plugins = {a, b, c, d}
    Id <- Named
    Order <- Directories
    Manifest <- Manifests
    Certificate <- Certificates
    Exposes <- Topics
    Revokers = {revoker}
    NoPlugin = NoPlugin
    RequireSigned = FALSE
    RequireCertified = TRUE
    EnableNetworking = TRUE
    r1 = r1
    r2 = r2
    Rules = {r1, r2}
    NoRule = NoRule
    ById <- RuleOrder
    Trigger <- Triggers
    Where <- Wheres
    Records = {record}
    Mutations = {m1, m2}
    Edits = {e1, e2}
    MaxRules = 2
    RuleLimit = 1
    RuleWindow = 2
    NodeLimit = 1
    NodeWindow = 1
    operator = operator
    Callers = {peer, operator}
    CallerLimit = 2
    CallerWindow = 3
    AILimit = 3
    AIWindow = 2
    peer = peer
    skill = skill
    Grantees = {peer}
    Surfaces = {skill}
    Admins = {w1, w2}
    Viewers = {v1}
SYMMETRY UnderWay
CONSTRAINT TwoAtOnce
INVARIANTS   EngineFollowsRules WithinBudget 
PROPERTIES AllVisited MatrixHolds
