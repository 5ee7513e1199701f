SPECIFICATION LaunchSpec
CONSTANTS
    Apps = {A}
    Pids = {p1}
    NoPid = NoPid
    Builds = {"release", "debug"}
    Findings = {{"sea"}, {"script"}, {"sea", "script"}}
    MaxLaunches = 2
INVARIANT ReleaseRunsBinary
CHECK_DEADLOCK FALSE
