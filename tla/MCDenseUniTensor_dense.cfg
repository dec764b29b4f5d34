SPECIFICATION MCSpec
CONSTANTS
  ta = ta
  tb = tb
  i1 = i1
  i2 = i2
  i3 = i3
  s1 = s1
  s2 = s2
  s3 = s3
  s4 = s4
  Handles <- MCHandles
  Impls <- MCImpls
  Stores <- MCStores
  Void = Void
  None = None
  Raw = Raw
  Sizes = {}
  Shapes = {}
  NewShapes <- MCNewShapes
  Rankings = {}
  Values = {7}
  MaxValue = 20
  MaxSize = 12
  UMax = 99
  SharedGrow = FALSE
  Slices <- MCSlices
  SlicePairs = {}
  NewTensors <- MCNewTensors
  Labellings <- MCLabellings
  Renamings <- MCRenamings
  Orders <- MCOrders
  Rowranks <- MCRowranks
  Groups <- MCGroups
  MaxRank = 4
  Careful = TRUE
  Scopes = {"matrix", "cube", "chain", "product", "double", "diagonal", "tagged", "shared", "alias"}
  Deep = {"alias"}
SYMMETRY Interchange
INVARIANT LayoutOK
INVARIANT MetaFits
PROPERTY SlicesAsInPython
PROPERTY ImplementsLabelled
CHECK_DEADLOCK FALSE
