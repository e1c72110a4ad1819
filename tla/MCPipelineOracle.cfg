\* Minimising before the final check: what a refuted assertion takes with it.
SPECIFICATION Safety
CONSTANTS
  exact = exact
  twin = twin
  weak = weak
  shallow = shallow
  crossed = crossed
  Configs <- DefaultConfigs
  Assertions = {exact, shallow}
  States <- MCStates
  Allows <- MCAllows
  Reachable <- MCReachable
  Shallow <- MCShallow
  Answers = {"Verified", "Refuted"}
  NVars = 2
  Inherited = {}
  BlocksKilled = FALSE
  ChecksThrow = FALSE
  WritesFail = FALSE
INVARIANT OracleHolds
