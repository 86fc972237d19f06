SPECIFICATION Spec
CONSTANTS
    s1 = s1
    s2 = s2
    p1 = p1
    p2 = p2
    p3 = p3
    m1 = m1
    Nil = Nil
    Sessions = {s1, s2}
    Prompts = {p1, p2, p3}
    Managements = {m1}
    SessionOf <- MCSessionOf
    MaxActiveRuns = 1
    MaxRestarts = 1
    MaxCrashes = 0
    Faults <- NoFaults
INVARIANT LeaseHasReleaser
CHECK_DEADLOCK FALSE
