\* Two threads, three assertions; EBMC may answer, hang or die.
SPECIFICATION Spec
CONSTANTS
  NJobs = 3
  MaxJobs = 2
  Workers = {w1, w2}
  Timeout = 1
INVARIANTS
  VerifiedWasProved
  SettledIsDead
  EvidenceKept
PROPERTY PoolSpec
