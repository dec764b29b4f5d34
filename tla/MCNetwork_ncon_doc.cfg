SPECIFICATION MCSpec
CONSTANT Void = Void
CONSTANT NoResult = NoResult
CONSTANT IndexBits = 5
CONSTANT Careful = TRUE
CONSTANT LabelOrder <- MCLabelOrder
CONSTANT Files <- MCFiles
CONSTANT Constructions <- MCConstructions
CONSTANT Plans <- MCPlans
CONSTANT Orders <- MCOrders
CONSTANT Tensors <- MCTensors
CONSTANT SlotNames <- MCSlotNames
CONSTANT Jobs <- MCWideJobs
CONSTANT Scopes = {"ncon"}
INVARIANT NconLegsInOrder
