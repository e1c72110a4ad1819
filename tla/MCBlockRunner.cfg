\* Two threads, three jobs, a clean disk: safety.
SPECIFICATION Safety
CONSTANTS
  NJobs = 3
  MaxJobs = 2
  Workers = {w1, w2}
  Assertions = {old, new}
  FailureCodes = {1}
  MinedBefore = {old}
  Deadline = 1
  CoreTimeout = 1
  MaxClock = 1
  WritesMayFail = FALSE
  SigchldIgnored = FALSE
  Nobody = Nobody
  Nothing = Nothing
SYMMETRY ThreadsAndNews
INVARIANTS
  TypeOK
  AtMostJobs
  ReportedIsDead
  VerifiedIsPublished
  CleanResults
  EveryCountOnce
  RoundContractMet
  VerifiedReasonExplained
PROPERTY PoolSafety
