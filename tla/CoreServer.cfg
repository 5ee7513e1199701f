SPECIFICATION FairSpec
CONSTANTS
    r1 = r1
    r2 = r2
    p1 = p1
    p2 = p2
    p3 = p3
    p4 = p4
    p5 = p5
    p6 = p6
    right = right
    wrong = wrong
    None = None
    Keys = {right, wrong}
    Callers <- AllCallers
    Requests = {r1, r2}
    Providers = {p1, p2, p3, p4, p5, p6}
    Modes = {TRUE}
    Faults = {"boot", "init", "identity"}
    Scenes <- Every
    MaxPairs = 3
    MaxStarts = 3
  
PROPERTIES KeysStayValid 
CHECK_DEADLOCK FALSE
