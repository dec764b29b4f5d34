SPECIFICATION MCSpec
CONSTANT Void = Void
CONSTANT NoResult = NoResult
CONSTANT IndexBits = 5
CONSTANT Careful = FALSE
CONSTANT LabelOrder <- MCLabelOrder
CONSTANT Files <- MCFiles
CONSTANT Constructions <- MCConstructions
CONSTANT Plans <- MCPlans
CONSTANT Orders <- MCOrders
CONSTANT Tensors <- MCTensors
CONSTANT SlotNames <- MCSlotNames
CONSTANT Jobs <- MCJobs
CONSTANT Scopes = {"calls"}
INVARIANT ContractCanBeLaunched
