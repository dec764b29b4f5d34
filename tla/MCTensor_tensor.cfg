SPECIFICATION MCSpec
CONSTANTS
  a = a
  b = b
  i1 = i1
  i2 = i2
  i3 = i3
  s1 = s1
  s2 = s2
  s3 = s3
  Handles <- MCHandles
  Impls <- MCImpls
  Stores <- MCStores
  Void = Void
  None = None
  Raw = Raw
  Sizes = {4}
  Shapes = {}
  NewShapes <- Reshapes3
  Rankings <- Rotations
  Values = {}
  MaxValue = 3
  MaxSize = 4
  UMax = 99
  SharedGrow = FALSE
  Scopes = {"views", "writes", "growth"}
SYMMETRY Symmetry
INVARIANTS TypeOK LayoutOK SizeMatches
PROPERTY ImplementsArray
