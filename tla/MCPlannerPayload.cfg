SPECIFICATION Spec
CONSTANTS
  s1 = s1
  s2 = s2
  s3 = s3
  k1 = k1
  ghost = ghost
  NoRun = NoRun
  NoCheckpoint = NoCheckpoint
  NoStep = NoStep
  Steps = {s1, s2}
  Runs = {r1, r2}
  Checkpoints = {k1}
  Plans <- OnePlan
INVARIANT
  PayloadErrorsComeFirst
CHECK_DEADLOCK FALSE
