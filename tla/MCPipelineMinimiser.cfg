\* What the end minimiser keeps when a block was killed after its appends.
SPECIFICATION Safety
CONSTANTS
  exact = exact
  twin = twin
  weak = weak
  shallow = shallow
  crossed = crossed
  Configs <- DefaultConfigs
  Assertions = {exact, weak, crossed}
  States <- MCStates
  Allows <- MCAllows
  Reachable <- MCReachable
  Shallow <- MCShallow
  Answers = {"Verified", "Refuted"}
  NVars = 2
  Inherited = {}
  BlocksKilled = TRUE
  ChecksThrow = FALSE
  WritesFail = FALSE
INVARIANT MinimiserKeepsStrength
