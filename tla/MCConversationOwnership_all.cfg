SPECIFICATION FairSpec
CONSTANTS
    s1 = s1
    s2 = s2
    p1 = p1
    p2 = p2
    p3 = p3
    m1 = m1
    Nil = Nil
    Sessions = {s1, s2}
    Prompts = {p1, p2}
    Managements = {}
    SessionOf <- MCSessionOf
    MaxActiveRuns = 2
    MaxRestarts = 2
    MaxCrashes = 1
    Faults <- FaultNames
INVARIANT OneRunPerSession
INVARIANT EndedHasNoAuthority
INVARIANT StoppingIsPending
PROPERTY WorkerComesBack
CHECK_DEADLOCK FALSE
