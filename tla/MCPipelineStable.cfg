\* What the stability rule counts when the MSA fails.
SPECIFICATION Safety
CONSTANTS
  exact = exact
  twin = twin
  weak = weak
  shallow = shallow
  crossed = crossed
  Configs <- StableConfigs
  Assertions = {exact}
  States <- MCStates
  Allows <- MCAllows
  Reachable <- MCReachable
  Shallow <- MCShallow
  Answers = {"Verified"}
  NVars = 2
  Inherited = {}
  BlocksKilled = FALSE
  ChecksThrow = FALSE
  WritesFail = FALSE
PROPERTY StableStopIsStable
