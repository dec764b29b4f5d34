SPECIFICATION MCSpec
CONSTANTS
  uA = uA
  uB = uB
  Handles <- MCHandles
  Void = Void
  Specs <- Matrices
  Labellings <- Shifted
  Rowranks = {2}
  Mappers <- Turns
  Pairs <- LegPairs
  Careful = TRUE
  MaxBlocks = 12
  MaxElem = 40
  MaxRank = 2
  Scopes = {"matrix", "cube", "group"}
  MaxCalls = 3
SYMMETRY Interchange
INVARIANT TypeOK
INVARIANT TableComplete
PROPERTY ImplementsArray
CHECK_DEADLOCK FALSE
