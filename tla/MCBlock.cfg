SPECIFICATION Spec
CONSTANTS
  States <- MCStates
  Start <- MCStart
  Succ <- MCSucc
  Shown <- MCShown
  Cubes <- MCCubes
  Fill <- MCFill
  Settings <- Several
INVARIANTS
  NoCandidateTwice
  DemandsAreReal
  PassesBounded
PROPERTIES
  ContractKept
  BlockEnds
