CONSTANTS
  t1 = t1  t2 = t2  t3 = t3
  p1 = p1  p2 = p2  p3 = p3
  Tasks <- MCTasks
  Pids <- MCPids
  PidOf <- ThreeApps
  Gone <- MCGone
  i1 = i1  i2 = i2
  Inodes <- MCInodes
  NoInode = NoInode
  Nobody = Nobody
  Faults = {"crash", "ioError", "slow"}
SPECIFICATION FairSpec
INVARIANTS
  TypeOK
  LostOnlyByRace
PROPERTIES
  LiveLockUnlinkedOnlyByRace
  OverlapIsNoticed
  AcquireReturns
  StaleLockGoes
CHECK_DEADLOCK FALSE
