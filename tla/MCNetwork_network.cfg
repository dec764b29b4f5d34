SPECIFICATION MCSpec
CONSTANT Void = Void
CONSTANT NoResult = NoResult
CONSTANT IndexBits = 5
CONSTANT Careful = TRUE
CONSTANT LabelOrder <- MCLabelOrder
CONSTANT Files <- MCFiles
CONSTANT Constructions <- MCConstructions
CONSTANT Plans <- MCPlans
CONSTANT Orders <- MCOrders
CONSTANT Tensors <- MCTensors
CONSTANT SlotNames <- MCSlotNames
CONSTANT Jobs <- MCJobs
CONSTANT Scopes = {"calls", "search", "ncon"}
INVARIANT SlotsAgree
INVARIANT NothingLostInWalk
PROPERTY LaunchKeepsPromise
PROPERTY PathSaysOrder
PROPERTY FoundOrderIsWhole
PROPERTY CallsEnd
PROPERTY NconIsContraction
INVARIANT EachTensorOnce
INVARIANT LegsOfMembers
INVARIANT OrderReadsBack
INVARIANT CostOfOrder
PROPERTY SearchEnds
CHECK_DEADLOCK FALSE
