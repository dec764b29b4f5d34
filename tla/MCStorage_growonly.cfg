SPECIFICATION Spec
CONSTANTS
  a = a
  b = b
  i1 = i1
  i2 = i2
  i3 = i3
  Handles <- MCHandles
  Ids <- MCIds
  Files = {"f1"}
  Void = Void
  None = None
  Raw = Raw
  DTypes = {"Int64", "Bool"}
  Values = {2}
  MaxSize = 3
  Shrink = FALSE
  RawInit = FALSE
SYMMETRY Symmetry
VIEW MemoryView
INVARIANTS TypeOK TailZero
PROPERTY ImplementsZeroingVector
