\* Failing writes, vanishing and hanging children: what still holds, and the end.
SPECIFICATION Spec
CONSTANTS
  NJobs = 2
  MaxJobs = 2
  Workers = {w1, w2}
  Assertions = {new}
  FailureCodes = {127}
  MinedBefore = {}
  Deadline = 1
  CoreTimeout = 1
  MaxClock = 2
  WritesMayFail = TRUE
  SigchldIgnored = TRUE
  Nobody = Nobody
  Nothing = Nothing
PROPERTY PoolSpec
