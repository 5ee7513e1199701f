SPECIFICATION SpecParts
CONSTANTS
    Ids = {t1, t2, t3}
    Owner = owner
    Others = {p1}
    Ops = {o1, o2}
    NoTask = NoTask
    NoPeer = NoPeer
    NoDoc = NoDoc
    Absent = Absent
    MaxDelegated = 1
    Keys = {k1, k2}
    s1 = s1
    s2 = s2
    s3 = s3
    rA = rA
    rB = rB
    Skills = {s1, s2, s3}
    Runs = {rA, rB}
    RunsIn <- Processes
    First = First
    Nothing = Nothing
SYMMETRY Symmetry
CONSTRAINT SmallWhenBusy
PROPERTIES WorkIsOrdered NoMutationLost
