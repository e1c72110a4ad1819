SPECIFICATION Safety
CONSTANTS
  States <- MCStates
  Start <- MCStart
  Succ <- MCSucc
  Shown <- MCShown
  Cubes <- MCCubes
  Fill <- MCFill
  Settings <- Clocks
INVARIANT WindowsAreCycles
