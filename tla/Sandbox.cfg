SPECIFICATION FairSpec
CONSTANTS
    now = now
    later = later
    c1 = c1
    c2 = c2
    Skills = {now, later}
    Announced = {now}
    Calls = {c1}
    SkillOf <- JustOne
    HighWater = 20
    MaxPipe = 20
INVARIANT RunsAtMostOnce
PROPERTIES CallsSettle  AnnouncedSkillIsFound
CHECK_DEADLOCK FALSE
