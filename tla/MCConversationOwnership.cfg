SPECIFICATION FairSpec
CONSTANTS
    s1 = s1
    s2 = s2
    p1 = p1
    p2 = p2
    p3 = p3
    m1 = m1
    Nil = Nil
    Sessions = {s1, s2}
    Prompts = {p1, p2, p3}
    Managements = {m1}
    SessionOf <- MCSessionOf
    MaxActiveRuns = 1
    MaxRestarts = 0
    MaxCrashes = 1
    Faults <- NoFaults
INVARIANT TypeOK
INVARIANT OwnedWhileRunning
INVARIANT ManagedAlone
INVARIANT LeaseHasReleaser
INVARIANT NoGhostRun
PROPERTY LeaseEnds
CHECK_DEADLOCK FALSE
