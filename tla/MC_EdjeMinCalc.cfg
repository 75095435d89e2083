\* The solver on a collection that converges and on one with a part of
\* constant excess width, from every caller size.
CONSTANTS
  Collections = {"plain", "broken"}
  PartsOf <- MCPartsOf
  SlackW <- MCSlackW
  SlackH <- MCSlackH
  Desc <- MCDesc
  NoCollection = NoCollection
  Ceiling = 20
  MaxCoord = 60
  Sizes = {0, 4, 30}
  NoPart = NoPart
  NoResult = NoResult
SPECIFICATION MinCalcSpec
INVARIANTS
  ConvergedMinFits
  CallerSizeKept
PROPERTIES
  MinCalcReturns
  MinCalcIdempotent
