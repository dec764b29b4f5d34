SPECIFICATION Spec
CONSTANTS
  a = a
  b = b
  i1 = i1
  i2 = i2
  i3 = i3
  Handles <- MCHandles
  Ids <- MCIds
  Files = {}
  Void = Void
  None = None
  Raw = Raw
  DTypes = {"Int64"}
  Values = {0, 2}
  MaxSize = 3
  Shrink = TRUE
  RawInit = TRUE
SYMMETRY Symmetry
VIEW MemoryView
INVARIANT CapacityOK
PROPERTY ImplementsVector
