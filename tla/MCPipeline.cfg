\* Six settings, three assertions, killed blocks, throwing checks, short writes,
\* an earlier run: safety and termination.
SPECIFICATION Spec
CONSTANTS
  exact = exact
  twin = twin
  weak = weak
  shallow = shallow
  crossed = crossed
  Configs <- MCConfigs
  Assertions = {exact, crossed, shallow}
  States <- MCStates
  Allows <- MCAllows
  Reachable <- MCReachable
  Shallow <- MCShallow
  Answers = {"Verified", "TimedOut"}
  NVars = 2
  Inherited = {exact}
  BlocksKilled = TRUE
  ChecksThrow = TRUE
  WritesFail = TRUE
INVARIANTS
  LabelIsHonest
  LossesAccounted
  NothingMinedVanishes
  RoundsAreBounded
  WorkDirFate
PROPERTY RunEnds
