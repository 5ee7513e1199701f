SPECIFICATION Spec
CONSTANTS
    now = now
    later = later
    c1 = c1
    c2 = c2
    Skills = {now, later}
    Announced = {now}
    Calls = {c1, c2}
    SkillOf <- OneOfEach
    HighWater = 2
    MaxPipe = 1
INVARIANT RunsAtMostOnce
CHECK_DEADLOCK FALSE
