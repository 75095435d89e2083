\* A collection with a part whose excess width grows with the instance: the
\* retry does not end the growth, and the loop has no other exit.  The
\* solver stopped at MaxCoord is the loop still running, so deadlock is
\* not checked.
CONSTANTS
  Collections = {"growing"}
  PartsOf <- MCGrowingPartsOf
  SlackW <- MCSlackW
  SlackH <- MCSlackH
  Desc <- MCDesc
  NoCollection = NoCollection
  Ceiling = 20
  MaxCoord = 60
  Sizes = {0}
  NoPart = NoPart
  NoResult = NoResult
SPECIFICATION MinCalcSpec
PROPERTIES
  MinCalcReturns
CHECK_DEADLOCK FALSE
