SPECIFICATION MCSpec
CONSTANTS
  uA = uA
  uB = uB
  Handles <- MCHandles
  Void = Void
  Specs <- Matrices
  Labellings <- Shifted
  Rowranks = {}
  Mappers <- Swap
  PlainMappers <- Rotation
  Pairs = {}
  Careful = TRUE
  MaxBlocks = 12
  MaxElem = 40
  MaxRank = 3
  Scopes = {"matrix", "cube", "group", "vector"}
  MaxCalls = 2
SYMMETRY Interchange
INVARIANT FermionicTypeOK
PROPERTY ImplementsGraded
CHECK_DEADLOCK FALSE
