CONSTANTS
  r = r  c = c  m = m  a = a  b = b  v = v  p = p  q = q
  Nil = Nil
  Units = {c, m, b}
  Places = {p, q}
  StageOf <- MCStageOf
  DependsOn <- MCDependsOn
  PlacesOf <- MCPlacesOf
  Chunks = {c}
  Merge = m
  AutoContinue = TRUE
  MaxAttempts = 1
  MaxPackages = 2
  MaxRevisions = 2
  MaxEdits = 2
  Faults = {"crash", "edit"}
SPECIFICATION MergeSpec
INVARIANTS
  KeptIsAsked
CHECK_DEADLOCK FALSE
