SPECIFICATION MCSpec
CONSTANTS
  a = a
  b = b
  i1 = i1
  i2 = i2
  i3 = i3
  Handles <- MCHandles
  Impls <- MCImpls
  Void = Void
  None = None
  Dims = {2}
  Specs <- MCSpecs
  MaxDim = 4
  MaxCharge = 1
  Scopes = {"products", "throws"}
SYMMETRY Interchange
INVARIANTS TypeOK DimKept QnumsValid
PROPERTY ImplementsSpace
