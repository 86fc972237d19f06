CONSTANTS
  t1 = t1  t2 = t2  t3 = t3
  p1 = p1  p2 = p2  p3 = p3
  Tasks <- MCTasks
  Pids <- MCPids
  PidOf <- ThreeApps
  Gone = {}
  i1 = i1  i2 = i2
  Inodes <- MCInodes
  NoInode = NoInode
  Nobody = Nobody
  Faults = {}
SPECIFICATION Spec
INVARIANTS
  MutualExclusion
CHECK_DEADLOCK FALSE
