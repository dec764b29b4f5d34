SPECIFICATION MCSpec
CONSTANTS
  uA = uA
  uB = uB
  Handles <- MCHandles
  Void = Void
  Specs <- Matrices
  Labellings <- Shifted
  Rowranks = {}
  Mappers <- Rotation
  PlainMappers = {}
  Pairs = {}
  Careful = FALSE
  MaxBlocks = 12
  MaxElem = 40
  MaxRank = 3
  Scopes = {"cube"}
  MaxCalls = 1
SYMMETRY Interchange
PROPERTY PermutedInSign
CHECK_DEADLOCK FALSE
