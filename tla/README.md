# A verification project for Cytnx

Cytnx is a C++ tensor-network library with Python bindings.  This directory
holds TLA+ modules that model its core, TLC configurations that check them on
small instances, and proofs, checked by TLAPS, of what holds for every instance.
Paths below are relative to the repository (`src/…`, `include/…`, `docs/…`).

## 1. The system

Cytnx is a sequential library.  There are no threads that share its objects and
no messages; what is hard about it is *sharing*: a `Tensor` variable is a handle
on a reference-counted `Tensor_impl`, which is a view (shape and permutation) of
a reference-counted `Storage`, which in turn may be held by other views and by
the user.  Every function either shares, copies or replaces one of these layers,
in place (`permute_`) or not (`permute`), and some throw after they have written.
The faults such code has appear after a sequence of legal calls on several
variables, which unit tests of single functions hardly reach.

| component | state | operations | interacts with | hard behaviour | what makes it correct |
|---|---|---|---|---|---|
| intrusive_ptr (`include/intrusive_ptr_base.hpp`) | reference counts | add, release | all handles | deletion with the last handle | exactly the referenced objects exist |
| Storage (`backend/Storage*`) | buffer, size, capacity, dtype | construct, from_vector, share, clone, astype, resize, append, set, fill, save, load | files; Tensor | growth inside and across the capacity; shrink then grow; stale tail; unread arguments | a reference to a vector; capacity rounded and sufficient; zeros behind the elements |
| Tensor (`Tensor.*`, `backend/Tensor_impl.*`) | shape, mapper, inverse map, contiguous flag, storage | construct, share, clone, permute(_), contiguous(_), reshape(_), flatten, at, get/set, fill, arithmetic, append | Storage, linalg, Accessor | views with lazy permutation that share a storage; calls that throw half-way | an array of shared cells; maps inverse to each other; size matches shape |
| Accessor (`Accessor.*`) | a range, list or single index | get_len_pos, and the get and set kernels it drives | Tensor get/set | steps, negative indices, axes that go, permuted layouts, overlapping slices | the slice of the mathematical array |
| Scalar, Type, Device | one value; tables | conversions | everything | dtype promotion | – |
| Symmetry, Bond | quantum numbers, degeneracies, direction, dimension | construct, combine, group, redirect, remove sector | UniTensor | checks after writes; sharing | the dimension is the sum of the degeneracies; valid quantum numbers |
| UniTensor (Dense, Block, BlockFermionic, Sparse) | labelled bonds, blocks, sector table, signs | permute, contract, combineBonds, truncate, trace | Bond, Tensor, linalg | block table and bonds updated in several steps; blocks shared after relabel and reshaped in place; fermionic signs | one block per neutral choice of sectors; the array the blocks stand for changes as arrays do, with the sign of every pair of odd legs that change places |
| Network, Gncon, ncon | names, labels, slots, order tokens, contraction tree | FromString, construct, Contract, PutUniTensor, RmUniTensor, setOrder, Launch | UniTensor, trees | calls that throw half-way; stale order and path | each tensor is contracted once; output legs as declared; a call ends |
| ContractionTree, SearchTree | nodes, root | build from tokens; greedy search | Network | malformed orders; reads beyond the adjacency matrix; index sets that run out | a binary tree with every tensor at one leaf; the cost reported is that of the order; the search ends |
| linalg, Krylov solvers, LinOp | – | decompositions, iterations | Tensor | convergence | numerical |
| tn_algo | MPS, MPO, environments, centre | DMRG sweep | UniTensor, Krylov | stale environments | environments belong to the current sites |
| algo, random, stat, Physics, Generator | – | pure functions | Tensor | – | – |
| GPU and Torch back ends, Python bindings | – | wrappers, other kernels | – | need hardware | – |

`PROJECT.json` lists the hazards of this code, each at its line, with the
properties that watch them.

## 2. Modules

| module | models | kind |
|---|---|---|
| `StorageObject` | what each member function does to one Storage object | operators |
| `Storage` | handles, reference-counted objects, files | state machine |
| `SharedVector` | what a Storage promises: handles on vectors | abstract specification |
| `StorageProofs` | invariants of `Storage` and the refinement of `SharedVector`, for every instance | proofs |
| `Strided` | row-major locations, permutations, the memory-moving kernel | operators |
| `Tensor` | handles, Tensor_impl objects, the storages they share | state machine, on `StorageObject` and `Strided` |
| `NDArray` | what a Tensor promises: handles on arrays of shared cells | abstract specification |
| `StridedProofs` | what products of a shape, permutations, erased axes and the scatter of an inverse map give | proofs |
| `TensorProofs` | invariants of `Tensor` and of `Slicing` for every instance | proofs |
| `Accessor` | one axis of a slice: which positions it names | operators |
| `Slicing` | get and set of a Tensor, and the proxy of a slice | actions, on `Tensor` and `Accessor` |
| `SlicedArray` | what a slice promises: Python's slices of shared cells | abstract specification, on `NDArray` |
| `Symmetry` | the rules of the four symmetries, on numbers and on lists | operators |
| `BondImpl` | what each member function does to one Bond_impl | operators, on `Symmetry` |
| `Bond` | handles, Bond_impl objects, calls that throw half-way | state machine, on `BondImpl` |
| `GradedSpace` | what a Bond promises: handles on graded spaces | abstract specification |
| `BondProofs` | the totals of lists, products and groupings of degeneracies, the product of two graded spaces; quantum numbers, types and dimensions of bonds and the refinement of `GradedSpace`, for every instance | proofs |
| `Linalg` | what Matmul, Tensordot, Kron, Diag, … do to a block of integers | operators |
| `DenseUniTensor` | UniTensors without symmetries: labels, bonds, rowrank over a Tensor | state machine, on `Slicing`, `BondImpl` and `Linalg` |
| `DenseProofs` | that labels, bonds, rowrank and block of a `DenseUniTensor` fit, for every instance | proofs |
| `LabelledArray` | what they promise: arrays with labels and directions, on shared cells | abstract specification, on `SlicedArray` |
| `BlockUniTensor` | variables, tensors with symmetries, the Tensor_impls that are their blocks | state machine, on `BondImpl` and `Linalg` |
| `SymmetricTensor` | what a UniTensor promises: an array with a label, a direction and charges on every leg | abstract specification |
| `FermionicUniTensor` | BlockFermionicUniTensor: a sign flip beside every block | state machine, on `BlockUniTensor` |
| `GradedTensor` | what it promises: an array with anticommuting legs | abstract specification, on `SymmetricTensor` |
| `ContractionTree` | the tree of an order, its parser, the einsum path | operators |
| `SearchTree` | the greedy search for an order, step by step | state machine |
| `SearchProofs` | what the search keeps, for networks of any size | proofs |
| `NetworkProofs` | the slots of a network, the searches it runs, the parser of orders and the walk of `Launch`, for any calls | proofs |
| `Network` | RegularNetwork: definitions, slots, orders, Launch step by step | state machine, on both trees |
| `Ncon` | ncon: lists of numbers to a local network, its order, its calls | state machine, on `Network` |
| `Contraction` | what a Network promises: slots and one contraction of all of them | abstract specification |
| `Induction` | induction over numbers and lists, for the proofs | proofs |
| `MC…` | small instances of these for TLC | model checking |

Most MC modules have *scopes*: kinds of inputs that do not mix.  A scope is chosen at
the start of a behaviour and kept, so that one run asks one question of all of them.

### Storage

`heap[i]` is the object named `i`: a record of the dtype, the size and the
buffer, whose length is the capacity.  `ref[h]` is the object that handle `h`
refers to, `file[f]` what a file holds.  `Raw` is an element of memory that
`malloc` returned and nobody wrote.  The operators of `StorageObject` are the
member functions of `StorageImplementation`: `Resized` is `resize`, with its
reallocation only across the capacity, `Appended` is `Append`, `Cloned` is
`clone`, which copies `size` elements and not the capacity, and so on.  Every
action of `Storage` ends in `Commit`, which deletes the objects whose last
handle is gone, as `intrusive_ptr_release` does.  A call that throws changes
nothing here, so such calls are not actions.

Two constants are disciplines of the caller: `Shrink` (may `resize` be called
with less than the size?) and `RawInit` (may a Storage be made with
`init_zero = false`?).  They decide what the memory behind the elements holds,
and with it which of the two promises of `SharedVector` the code keeps.  Its actions
are the calls, by name and arguments, and each gives the elements of the vector
after it: `append` the one it was given, `clone`, `astype` and the two ways to read a
file those of their source.  Only the elements a `resize` adds, and those of memory
made with `init_zero = false`, are taken from `Pad`: with `Pad` all values they are
*some*, with `Pad = {0}` they are zeros.  So that a step is compared with the call of
its own name, and not with any call that happens to fit, both modules record the last
call in `call`, which nothing reads.

### Tensor

`impl[i]` is a `Tensor_impl`: shape, `mapper`, `inv` (`_invmapper`), `conti`
(`_contiguous`) and the name `st` of its storage; `heap[s]` is a storage object
as in `StorageObject`.  `permute` composes mappers without moving memory,
`contiguous_` replaces the storage of its own impl by a moved copy
(`Move_memory`), `reshape_` makes its tensor contiguous first.  `at` goes through
the inverse map (`At`), the kernel of `+=` through the inverse maps of both
operands (`LeftPlace`, `RightPlace`), `append` through the storage's `resize`.

`permute_` rewrites the inverse map entry by entry and throws at the first entry
that is no axis; `reshape_` writes the shape before it checks it.  Both are
actions (`PermuteThrows`, `ReshapeThrows`): they put the impl into `torn`, and
whatever a torn tensor is used for follows a broken map, mostly outside the
buffer; so on a torn impl the model has only assignment and `reshape_`, which
repairs it.  What is checked is that the damage stays in that tensor.

`NDArray` knows nothing of storages: a handle refers to an array with a shape, a
sequence of *cells* and their elements; two arrays may share cells.  Permuting
rearranges cells, `contiguous` gives new cells, writing changes the element of one
cell in every array that has it.  `Tensor` maps to it by following `At` for every
locator (`Arr`): a cell is a storage and a location.

### Slicing

An accessor is a record of its type and bounds; `Positions` is `get_len_pos`, with
its own rounding of the number of steps and its wrapping of negative bounds, and
`Refuses` the calls that throw.  `get` brings the accessors into the order of the
storage, merges the axes at the end that are taken whole into units of contiguous
memory, drops the axes with a single index, and permutes back by a map renumbered
for the axes that are gone; `GotStore` and `GotImpl` are the two halves of that.
`set` does the same the other way round, from a value or from a tensor; the proxy
`T(…)` makes `=` and `+=` of the two.  A call that throws has changed nothing.

`SlicedArray` says which elements Python would take, axis by axis, of an array that
has no layout.  What a set from a slice *of the same storage* stores depends on the
order of the loop, which reads what it has overwritten: there the promise is only
that each written cell gets one of the elements read.  An accessor beyond its axis is
outside the model (`OnAxis`): the code wraps around or leaves the buffer.

### DenseUniTensor

A UniTensor without symmetries is a Tensor, its block, and beside it `meta[h]`: labels,
bonds, rowrank and three flags.  `ref`, `impl` and `heap` are those of `Tensor`, so what
a call does to the block is an action of `Tensor` or `Slicing` (`Block!…`) and two
UniTensors share memory as their blocks do: by the Tensor_impl after `relabel`, by the
storage after `permute`.  The legs change in one function and the block in another, and
`contract` finds the legs by label, sorted, where `Tensordot` wants places; that the two
keep fitting each other is what `MetaFits` and the refinement say.  `Tensordot` with
`mv_elem` permutes and reshapes the operands' blocks in place and puts them back
(`ContractMoved`): the elements move in a storage that other UniTensors may look at.

Calls that throw after they have written (`PermuteThrows`, `CombineThrows`, a
`relabel_` that meets a duplicate) put the variable into `amiss`; such a variable is
only assigned.  A `reshape_` that throws tears the block, which of a diagonal has been
made dense by then (`ReshapeDiagThrows`).  `Careful` is what a user has to keep away
from: laying out anew a block whose Tensor_impl another variable has, and the
contractions of `Breaks`, which return a UniTensor whose block does not fit its legs
(both in section 4).  Without `Careful` they are modelled with what they return.  A
`contract` with `mv_elem` of two operands that are one impl is not an action.

What `contract` checks is only the directions; that dimensions agree is the business of
`Tensordot`, `Vectordot` and `Mul` (`Contractible`), and `Mul`, which multiplies two
diagonals, takes one with a single entry as a number.

`LabelledArray` has arrays of cells with a label and a direction on every leg and no
layout, impl or rowrank; a contraction is the sum over equal labels, of a diagonal
array only the diagonal has cells.

### Bond

`impl[i]` is a `Bond_impl`: direction, dimension, quantum numbers, degeneracies
and symmetries; `ref[h]` is the one that handle `h` refers to.  `Combined` is the
product that `combineBond_` and `force_combineBond_` form, which differ in that the
second accepts opposite directions and reverses the numbers of the other bond;
`Groupings` is the sorting and merging of equal numbers, which `group_duplicates_`
does in place and the products do through a `std::map`.  `Removed` is `_rm_qnum`,
used by `truncate_` of a UniTensor.  A graded space forgets the order in which a
bond lists its numbers and their duplicates, so `GradedSpace` states a product by
counting the pairs of basis vectors whose charges add up, and a reversed charge as an
inverse in the group; `Bond` computes the same with list indices and the rules of
`Symmetry`.

Three calls leave fields that do not belong together, and put the impl into
`torn`: an `Init` that throws (`InitSymmetricAgain`), an `Init(dim, type)` on a bond
with quantum numbers (`InitAgain`), and a product of bonds with as many but other
symmetries (`CombineThrows`).  A torn bond is only assigned or initialised again;
what is checked is that the damage stays there and that `Init` repairs it.

### BlockUniTensor

`uten[h]` is the tensor of a variable: bonds, labels, row rank, the table `itoi`
(`_inner_to_outer_idx`) with the sector of every leg for every block, and the names
of its blocks in `tens`, the heap of Tensor_impls.  A block is a shape and its
elements, integers; that a block is itself a view on a storage is the business of
`Tensor`.  `relabel` and `set_rowrank` share Tensor_impls, `permute` and `clone`
give new ones.  `contract` permutes and reshapes the blocks of both operands in
place and puts each back after use, and `ContractedSigned`/`Contracted` do so block by block, so a
block that is not put back would show in the operand's array.  `combineBonds` throws at
the first leg of another direction, after it has permuted the legs and combined the ones
before it (`CombineThrows`).

`SymmetricTensor` has no blocks: an array with a label, a direction and a charge per
basis vector on every leg.  The refinement mapping (`Arrays`) looks every element up
as `at` does, through the table; an element without a block is 0.

`Careful` is what a user has to keep away from: changing the shape of blocks in
place while another variable has them, truncating a sector while later ones are
in use, and a `combineBonds` that combines some legs before it throws.  Section 4 says what happens otherwise.

### FermionicUniTensor

The elements of a block with a flip stand for their negatives.  `SwapSigns` and
`SwapSignsSigned` are the two versions of `_swapsigns_`, which differ in whether the
parities move along with the legs while the permutation is undone by exchanges
(`SwapStep`); `LhsSigns` is `_lhssigns_`.  `GradedTensor` has one rule instead: count
the pairs of odd legs that stand in another order than before; a contraction brings
the summed legs next to each other, and an odd ket on the left counts once more.

`Careful` also excludes three things that are wrong in the code (section 4): permuting
by a signed mapper that is more than an exchange of two legs, outer products in which
the flips read are not the right ones, and sums whose left tensor has flips.

### Network

`ContractionTree` has the tree of an order: `TreeByTokens` is the parser with its two
stacks, `DefaultTree` what is built without an order, `Visits` the walk, `EinsumPath`
and `PathText` the way to positions in a shrinking list of names and back.  `SearchTree` is the
greedy search, one pair or one merge per step; a pair of which one partner is a merged
node reads beyond `adjacencyMatrix`, and the model lets it read either bit.  An index
set has `IndexBits` bits and throws beyond (128 in the code).

`net` holds the members of RegularNetwork, `call` the call that is running.  `Launch`
builds the tree of the order in force and then walks it, one contraction per step;
`setOrder(true)` runs the search.  The calls that throw after they have written
(FromString, construct, setOrder, PutUniTensors) are actions with what they leave.
A tensor in the walk is what it was made of: its `parts` (slots), the bonds it has and
the labels and axes of its legs.  The axes differ from the labels only for a scalar,
whose block is of shape (1): an outer product with it keeps that axis, and the block no
longer fits the labels.  `Contraction` has slots and one step that contracts all of
them; `Network` implements it whatever was called before, for a diagram without a closed
piece beside others (`ClosedPiece`, section 4).

`Ncon` turns the caller's numbers into labels (as texts, so that the default order of
the output legs is that of strings), writes the order: the tensors of each number, once
each, on a stack that is popped into brackets (`Pushed`, `Written`), and runs `Construct`,
`PutUniTensor`, `setOrder(true)` and `Launch` of a local `Network`.  It too implements
`Contraction`: the legs that are asked for are -1, -2, … or `out_labels`.

## 3. Runs

Two variables suffice for any sharing between two tensors, a third object name lets a
call make a new object while both old ones live, and capacities are multiples of 2,
so sizes up to 3 (Storage) and 4 (Tensor) reach growth inside and across the capacity.
A rotation of three axes is the smallest permutation that is not its own inverse,
which is what tells the two maps apart.  Names of objects and variables are
interchangeable (symmetry sets) in the runs on storages, tensors, bonds, slices and
UniTensors, none of which has a liveness property, so the reduction is sound.

| run | instance | shows |
|---|---|---|
| `storage_safety` | sizes ≤ 3, shrinking and raw allocation allowed | `CapacityOK`, refinement of `SharedVector`, with some elements where a `resize` adds them |
| `storage_growonly` | sizes ≤ 3, two dtypes, one file, no shrinking | `TypeOK`, `TailZero`, refinement of `SharedVector`, with zeros where a `resize` adds them |
| `tensor` | *views*: vectors of 4, reshaped to (2,1,2), (-1) and (-1,3), a rotation and an invalid permutation; *writes*: matrices (2,2), a swap, writes and `+=`; *growth*: vectors of 2 that append up to 4 elements | `TypeOK`, `LayoutOK`, `SizeMatches`, refinement of `NDArray` |
| `tensor_append_doc` | a permuted right operand of rank 2 | *violation*: `append` takes raw memory order |
| `dense` | slices: *matrix*: 12 slices of (2,3), contiguous or permuted, on one storage or two; *cube*: (2,3,2) in three layouts; *chain*: two calls in a row.  UniTensors: *product* and *double*: one and two legs in common; *diagonal*, *tagged*; *shared*: one storage; *alias*: one Tensor_impl, two calls | `LayoutOK`, `MetaFits`, `SlicesAsInPython`, refinement of `LabelledArray` |
| `bond` | *products*: U(1) × fermion parity, dimensions ≤ 4; *throws*: Z(3) in both directions, U(1), and four arguments that `Init` refuses | `TypeOK`, `DimKept`, `QnumsValid`, refinement of `GradedSpace` |
| `block` | *matrix*: U(1) × Z(3); *cube*: rank 3 over U(1); *group*: one charge in two sectors; up to three calls on two tensors | `TypeOK`, `TableComplete`, refinement of `SymmetricTensor` |
| `fermion` | *matrix*: U(1) × fermion parity; *cube*: rank 3 over the fermion number, and its dual; *group*; *vector*; two calls and a contraction | `FermionicTypeOK`, refinement of `GradedTensor` |
| `fermion_permute_doc` | a rotation of three legs | *violation*: the sign of a permuted tensor |
| `network` | *calls*: three or four slots: a chain, a ring, two pieces, a label on three tensors, a name given twice, definitions that are refused; orders nested, crossed, incomplete, malformed, of a tensor with itself.  *search*: every network of 4 tensors with uneven dimensions, with and without open legs, every one of 5, two of 6 that outgrow the index sets.  *ncon*: every graph on four tensors with three open legs, with every order of up to three of its numbers or of all, of up to two where it has five or six bonds; traces, a number three times, dimensions that differ, output labels; searched and not | `SlotsAgree`, `NothingLostInWalk`, `LaunchKeepsPromise`, `PathSaysOrder`, `FoundOrderIsWhole`, `CallsEnd`, `NconIsContraction`, `EachTensorOnce`, `LegsOfMembers`, `OrderReadsBack`, `CostOfOrder`, `SearchEnds` |
| `network_contract_doc` | `Network::Contract`, then `Launch` | *violation*: the network it returns cannot be launched |
| `network_ncon_doc` | `ncon` of two tensors with ten open legs | *violation*: the legs are not in the order -1, -2, … |

Bounds.  In `storage_*` and `tensor`, `MaxSize` and `MaxValue` bound sizes and values in the
guards; the runs on Storage write the value 2 (and 0 in `storage_safety`), which is what
tells a written element from a zero and, as a truth value, from 1.  Sizes up to 3 and
capacities of 2 and 4 let a `resize` from 1 to 2 stay inside a capacity that a fill, an
append or a cast has used before.  These two runs leave `call` out of the fingerprint of a
state (`VIEW`): no action, guard or invariant reads it, and an action property is checked on
every step that is generated, also one to a state that is known.  `UMax` stands for 2^64-1,
`-1` stored as a `cytnx_uint64`.  `SharedGrow = FALSE` is a discipline of the caller:
`append` on a storage that another tensor shares makes that tensor's shape and its storage's
size part.  In `bond`, `MaxDim` and `MaxCharge` bound the products only; Z(3) is the smallest
cyclic symmetry with a number that is not its own inverse, and two symmetries together tell
a rule that is applied to the wrong one.  `dense`, `block` and `fermion` bound the number of
calls after the tensors are made (`calls`, `MaxCalls`), which is why deadlock is not checked
there: the model stops, the program does not.  `MaxBlocks`, `MaxElem` and `MaxRank` bound the
heap, the elements and the rank of results; three calls are what it takes to share blocks,
change them in place and look at them through the other tensor.  `dense` starts from states
where the sharing is there already (`Start`), so one call, and two where an impl is shared,
do the same.  In `network`, `IndexBits` stands for the 128 bits of an index set and is small
enough for a search to run out of them (5, and 8 in the scope *search*, which only searches
and then stops: hence no deadlock check).

Every property of a passing run has a mutant in `PROJECT.json`, an operator beside
the original one with a plausible bug, under which the run fails.

Fairness.  `network` assumes weak fairness of the steps of a *running* call
- a step of the search, a step of the walk, the return - and of nothing else: no caller
has to call.  The code justifies it: it is sequential, and a call that has started keeps
the thread until it returns or throws.  The other specifications are
`Init /\ [][Next]_vars`; their actions are whole calls.

## 4. Findings

1. `append` of a non-contiguous tensor of the same dtype copies raw memory order
   (`include/Tensor.hpp:1465` tests the wrong variable): `tensor_append_doc`.
2. `Network::Contract` fills the slots and leaves the base nodes of the tree null
   (`src/RegularNetwork.cpp:377`); what the example in
   `example/Network/Construct.cpp:17` does with it has no meaning:
   `network_contract_doc`.
3. The signed version of `_swapsigns_` moves the parities with the legs and looks them
   up by the legs' old numbers (`src/BlockFermionicUniTensor.cpp:912`), so permuting a
   tensor of fermions by a cycle of three legs flips the wrong blocks:
   `fermion_permute_doc`.  The unsigned version, used inside `contract`, is right.
4. `ncon` passes its numbers on as labels, and without `out_labels` `construct` takes the
   open legs from a map ordered by text (`src/RegularNetwork.cpp:1219`): with ten legs, -10
   comes before -2, where `docs/source/guide/contraction/ncon.rst:8` promises the order of
   the numbers: `network_ncon_doc`.

Seen while reading or found by earlier versions of these models, without a run of
their own:

- *Storage.*  `resize` within the capacity leaves the old elements
  (`src/backend/StorageImplementation.cpp:548`), where
  `docs/source/guide/basic_obj/Storage_3_expand.rst:51` promises zeros.  `Fromfile`
  compares its count with a local that has no value yet (`src/backend/Storage.cpp:217`).
- *Tensor.*  After two tensors that share a storage have both appended a scalar, the
  second one's last element is not its scalar (`include/Tensor.hpp:1577`).
  `reshape_({-1,-1})` is accepted (`include/backend/Tensor_impl.hpp:271`), and a 0
  beside a -1 divides by zero (`:286`).  `append(A.storage())` to `A` itself reads past
  the end (`include/Tensor.hpp:1525`).  `_Load` writes shape and maps before the storage
  is read (`src/Tensor.cpp:515`).
- *Slicing.*  `A(::-1) = A` reads elements it has overwritten
  (`backend/utils_internal_cpu/SetElems_contiguous_cpu.cpp:30`).  A range shorter than
  its step is refused (`src/Accessor.cpp:137`), bounds beyond the axis are not clamped
  and read outside, an empty list means the whole axis; `Tensor_3_access.rst:89` calls
  an accessor equivalent to a Python slice.
- *Bond.*  `combineBond_` multiplies the dimension before it compares the symmetries
  (`src/Bond.cpp:191`), where `include/Bond.hpp:339` asks for the same; `Init(dim, type)`
  on a bond with quantum numbers keeps them (`:11`); the reverse of 0 under Z(n) is n
  (`src/Symmetry.cpp:131`); without OpenMP, `check_qnums` of the fermion parity compares
  with n = -2 (`:171`).
- *BlockUniTensor.*  `truncate_` does not renumber the later sectors in the table
  (`src/BlockUniTensor.cpp:1637`).  `relabel` shares the Tensor objects (`:677`), so
  `permute_` on one tensor leaves the other with shapes that do not fit its bonds;
  `include/UniTensor.hpp:3209` and `labels.rst:61` recommend it for keeping the original.
  The charge of a block reverses all numbers of its first bond by the rule of the first
  symmetry (`include/UniTensor.hpp:1062`), which is wrong for [Z(3), U(1)]; a tensor with a
  single bra of Z(n) has no block, and a contraction into one writes into an empty vector.
  Grouping orders a fused basis by the order of the blocks (`:1796`), so two equal tensors
  may get bonds that compare equal and mean different bases.  Two diagonal tensors
  contracted on one leg throw (`:1164`).  `combineBonds` of three or more legs throws at the
  first of another direction with those before it combined (`:1905`): the Bond of the first
  leg then has a dimension its blocks have not, and the legs combined into it are still there.  The result block of a sum of sectors that is in
  no table is block 0.
- *FermionicUniTensor.*  An outer product reads the flips of its factors at the number of
  the result's block (`src/BlockFermionicUniTensor.cpp:1386`), also beyond their end.
  `Add_` ignores the flips of its left tensor (`:2393`).  A contraction of all legs permutes
  its right tensor with the faulty version of `_swapsigns_` (`:1437`).  `at` and `get_block`
  give elements without their sign.
- *Network.*  After a `setOrder` that throws, the order that `getOrder` shows is not the
  one in force; `setOrder(false,"")` leaves the einsum path of the order before.  An
  incomplete order, or one with a missing comma such as `(A,B)(C)`, drops tensors without a
  message when the result is a scalar.  The search is greedy, where `network.rst` promises
  an optimal order; it makes outer products, and shifts by 64 or more from the 65th tensor
  on (`src/search_tree.cpp:106`).  `construct` does not refuse a name given twice: the einsum path is found by name and,
  when the first two tensors have one name, erases what is before the list
  (`src/RegularNetwork.cpp:259`); so does `setOrder` of a node made of two others in a network
  whose base nodes are null.  Both are in the model, and outside `Careful`.
  A diagram with a closed piece beside others throws or
  gets misaligned legs when the order contracts that piece to a scalar first
  (`src/DenseUniTensor.cpp:966`, the block of a scalar has an axis).  DMRG calls
  `Launch(true)`, which is network type 1 and throws (`src/tn_algo/DMRG.cpp:187`).
- *ncon.*  The tensors are not contracted in the order of `cont_order`: the stack reverses
  it, so a chain of four starts with bond 3, where `ncon.rst:16` promises ascending
  order.  A number twice on one tensor (a trace) puts that tensor into the order twice
  and `construct` throws; a number that occurs once reads past a vector unless
  `check_network` is set (`src/ncon.cpp:50`).
- *DenseUniTensor.*  `relabel` shares the Tensor_impl, so `permute_` of one UniTensor
  changes the layout of the other without its labels and bonds; `labels.rst:61` says that
  only memory is shared.  An outer product of two contiguous UniTensors on one Tensor_impl
  (`A.contract(A.relabel(…))`) reshapes the block for the left one and then reads it as
  the right one (`src/DenseUniTensor.cpp:966`), and with `mv_elem` the second of two such
  operands is read as the first has been laid out.  An outer product with a UniTensor
  without legs leaves an extra axis in the block.  Two diagonal UniTensors with nothing
  left of their row ranks contract to a number although legs remain (`:1047`), and the
  dimensions of two diagonal ones are not compared: if one of them is 1, `Mul` takes its
  block for a number (`src/linalg/Mul.cpp:17`) and the result has a leg of dimension 1 and
  one of dimension n on a block of n (`src/DenseUniTensor.cpp:1049`).  The four
  kinds of call are `Breaks`; unless the dimensions happen to be 1, `MetaFits` is false after
  them.  `permute_`
  with a leg named twice replaces labels and bonds before the block refuses, and of a
  diagonal one it does not refuse (`:358`); `relabel_(old, new)` leaves the duplicate it
  throws at (`src/UniTensor_base.cpp:372`).  `set_rowrank_` and `Trace_` leave
  `is_braket_form` as it was (`include/UniTensor.hpp:499`), and `Trace_` looks at the
  directions of a tagged UniTensor only in that form.  `from_` takes the block of a
  diagonal UniTensor into one that is not, and from a BlockUniTensor it keeps the old
  elements outside the blocks.

## 5. Proofs

The proof modules hold for all sets of handles, names, dtypes, values and arguments and
for all bounds, under `StorageAssumption`, `TensorAssumption`, `SlicesAssumption`,
`DenseAssumption`, `BondAssumption`, `IndexBitsAssumption` and the assumptions of `Network`, which give its arguments their
types.  A theorem with further hypotheses states them.

Two modules, and the first half of `BondProofs`, have no theorem about a specification
but what the others stand on.
`Induction` states induction over numbers and lists without an operator as a parameter:
`NatInduct` and `ListInduct` speak of a *set* that holds 0 (the empty list) and is closed
under the step, and `Recursion` gives every recursion over `0..n` its function.  With
them what a recursive function computes can be proved of every input; `StridedProofs`
and `BondProofs` do it for products of shapes (`ProdPermuted`: a permutation keeps it;
`ProdRest`: what an open dimension of `reshape` is) and for the totals of lists
(`TotalProduct`: the total of all products is the product of the totals; `TotalGrouped`:
grouping equal numbers keeps the total).

*Storage.*  `TypeCorrect` proves `TypeOK` and `CapacityCorrect` proves
`CapacityOK`.  `TypeOK` is inductive; its step has one case per action, and every
action goes through one of three lemmas about `Commit`, `Bind` and `Update`, which
leave only that the new object is well-typed, a lemma per operator of
`StorageObject`.  `CapacityOK` is inductive together with `TypeOK`: rounding is
idempotent and never below its argument.  `GrowOnlyTail` proves
`~Shrink /\ ~RawInit /\ Spec => []TailZero`: with both disciplines the memory
behind the elements is zero, which is what a `resize` that stays inside the capacity
shows.

`StorageIsVector` proves the refinement, `Spec => ImplementsVector`: every step is the call
of its name on the vectors.  A lemma per action shows which, from the invariant
(`HeapOK`, `FileOK`), and `StepMaps` puts them together.  `GrowOnlyIsZeroing` proves the
stronger promise for the two disciplines from the same lemmas and `TailZero`: the two
differ in `Resize` and `Construct` only.

*Tensor.*  `TypeCorrect` and `LayoutCorrect` prove `TypeOK` and `LayoutOK`, of
tensors of any rank, by induction on their conjunction.  `LayoutOK` needs `TypeOK`
for the domains of the maps.  The heart is the lemma that composing the mapper
with a permutation and scattering the inverse map, as `permute` and `permute_` do,
gives two maps inverse to each other again; surjectivity of the permutation comes
from the inverse map of the tensor itself, so no cardinality argument is needed.
A throwing `permute_` or `reshape_` puts its impl into `torn`, which `LayoutOK`
excludes; the proof has to show that the call damages no other impl.

`SizeCorrect` proves `SizeMatches`: the product of a shape is the number of elements in
the storage.  The invariant `SizeInv` adds that every storage has the memory for its
elements, also that of a torn tensor, because `reshape_` may make the tensor whole
again.  It has two hypotheses.  `~SharedGrow` is the discipline of section 3, without which
the property is false.  `OneOpen`: at most one dimension of an argument of `reshape` is
-1.  The code stores a second -1 as it is (2^64-1, section 4), so a shape with two can
pass the check on the number of elements only by wrapping around; the run's arguments
satisfy it.

*Slices.*  `SlicedLayout` proves that `get`, `set` and the proxy of a slice, in any number
and between any calls on tensors, keep `LayoutOK`: `SlicingSpec => []LayoutOK`, from the
types of the accessors (`SlicesAssumption`).  The maps of what `get` returns are those of
a permutation that has lost the axes of which a single index is taken: `SliceIs` shows
that the renumbered rest (`Back`) is a permutation again, of as many axes as dimensions
are kept.  That is a fact about lists from which entries are erased (`ErasedIs`: what is
left of a list without repetitions, in its order) and about numbering the elements of a
finite set by how many are below them (`BelowIs`, `Renumbered`), both in `StridedProofs`.

*DenseUniTensor.*  `MetaCorrect` proves `MetaFits` and `BlocksLaidOut` proves `LayoutOK` of
UniTensors with any number of legs, labels and dimensions, after any calls, those that
throw half-way included.  The invariant `DInv` says of every variable that is not `amiss`
and whose block is not `torn` that its labels, bonds, directions and rowrank are right
(`Proper`) and that its block has the shape they ask for; of all blocks, also those, that
they are laid out (`IInv` of `TensorProofs`).  The proof is in two halves that meet in
`StepInv`.  In the last section of `TensorProofs` every call on Tensors says
which shape it gives a variable and that no other variable's shape changes (`Gets`).  In
`DenseProofs` a lemma per call says that the legs it computes are `Proper` and ask for that
shape: `MetaPermuted`, `MetaCombined`, `MetaContracted` and the others go through lists of
legs, `BlockContractedIs` through the products of matrices, where the dimensions that
`Tensordot` keeps have to come out in the order of the legs that `contract` keeps, although
it finds the legs by label and the products find them by place.  `KeptFits` is the
core of that: the places of the common labels are different ones, in the same order on
both sides, and the legs kept are those whose label the other side has not.

There are two hypotheses.  `Careful` is the discipline of section 2: without it
`permute_` through one variable breaks the legs of the other, a contraction of `Breaks`
returns legs its block does not have (section 4), and `MetaFits` is false.  What `Careful`
leaves out of two diagonals is used once (`MatchingIs`): the checks of the code and not
`Breaks` make the common dimensions equal.  `SomeLegs`: nothing is reshaped to no legs at all.  The code makes of it a block
without axes, while the constructor gives a UniTensor without legs a block with one axis of
dimension 1; the run's arguments have legs.

*Bond.*  `QnumsInRange` proves `QnumsValid`: what `Init` checks once stays true.  The
invariant `IInv` adds that every bond, also a torn one, has lists of numbers as long
as its list of symmetries (`Formed`): a torn bond may be initialised again, and the
`Init` that throws early keeps the old lists.  Products rest on `CombineValid`
(`combine_rule` comes out in range whatever goes in, so a reversed 0 does no harm),
groupings and truncations on the fact that their lists have only elements that were
there.  `ReverseCancels` states why the reverse of 0 is right although it is out of
range.

`BondTypes` and `DimensionIsSum` prove `TypeOK` and `DimKept` together (`DimInv`): that a
dimension is not negative needs that it is the sum of the degeneracies, because
`_rm_qnum` subtracts one of them; and that it is the sum needs the lists to be as long
as each other.  For a product the step is `TotalProduct`, for a grouping `TotalGrouped`,
for `_rm_qnum` that the total of a list without one entry is less by it.

`BondIsSpace` proves the refinement, `Spec => ImplementsSpace`.  The invariant
`SpaceInv` is `DimInv` and `Sides`: a bond has numbers exactly when it has symmetries,
no sector is empty, and there is a direction where there are symmetries.  Without it a
product could have a charge that no pair of basis vectors has, and a reversal could
meet a bond that has no charges to reverse.  What an action does to variables and impls
is one of two state changes, an impl that a variable gets (`BindSpace`) and one that is
changed in place (`UpdateSpace`), each with a lemma; what is left is that the new impl
stands for the space the promise asks for.  For a product this is `CombinedSpace`: the
basis vectors of a sector of the row-by-row list and the pairs of basis vectors that add
up to its charge are matched one to one, and the finite-set theorems count both.

*SearchTree.*  `SearchKeepsTensors` proves `EachTensorOnce` and `SearchKeepsLegs` proves
`LegsOfMembers`, of a search on any list of tensors with any labels, dimensions and
costs.  The invariant `SearchInv` says that the indices that are left (`rest` and `todo`,
in one list) are different ones of nodes there are (`LeftOnce`), and that the id sets of
those nodes and of the results part the network (`Parted`); at the start this is
`ComponentsAre`, that `dfs` from every node that is still unvisited finds every tensor in
exactly one component.  It does not matter which pair a read beyond `adjacencyMatrix`
selects, only that the two positions differ.  `LegInv` adds that the tensors searched for
stay the first nodes and that the legs of every node left are those of one of its members
only; it is inductive only for a diagram, where no label is on three tensors
(`IsDiagram`), which the property presupposes as well.  The two positions are erased from
the list one after the other, the later one first: `PairTakenOut` shows that this takes
out those two, which the mutant `ContractPair_FirstErased` does not.

*Network.*  `SlotsCorrect` proves `SlotsAgree`, for any network files, arguments of
`construct` and `Contract`, orders and tensors, after whatever calls have thrown.  The
invariant `Sound` adds the types of names, labels and slots.  Each way to define a network
has a lemma; for a file it is an induction over its lines (`LinesRead`, `ReadLineKeeps`):
as long as no line was refused every name has its labels.  `SearchInNetwork` composes it
with the search: what `setOrder` hands over is a list of tensors as `SearchProofs` wants it
(`Handed`, from `Sound` and the check that every slot is filled), so `EachTensorOnce` and
`LegsOfMembers` hold of every search that a network runs.

`LaunchLosesNothing` proves `NothingLostInWalk`: while `Launch` walks the tree of an
order that names every tensor once, no value of a node is lost or used twice, and at the
end the root has all of them.  The invariant is `Sound`, that tokens are names or
punctuation (`Listed`), what `SearchInNetwork` keeps and, during a walk (`Walking`), that
the tree is full, that the values that are there hold each tensor once (`HeldOnce`), and
that the root is at the bottom of the walk's stack or has its value (`Bottom`).
It rests on two facts, each for trees of any size.  The parser
reads every order that is well-formed and has each name once into a tree whose root has
every tensor below it (`TreeIsFull`): after i tokens the stack of nodes holds disjoint
sets of tensors that together are those named so far, and there is one node more than
there are commas on the stack of operators (`Reads`).  The walk changes its stack only
above the root, and contracts a node only when both children have values (`WalkedIs`), so
a contraction moves two sets of tensors into their union (`Merging`, `NodeVisited`).
`VoidAssumption` says that the mark for a node without a value is no value.

`IsOrder` and the counts in `OrderNamesMismatch` are said of neighbours and of numbers of
tokens, not by a grammar or bags, because neither a recursion over intervals nor
`SelectSeq` can be reasoned about here; TLC checks the same properties of them.

Only model-checked, and why:

- The liveness properties `CallsEnd` and `SearchEnds`: fairness is out of reach.
  `LaunchKeepsPromise` and `NconIsContraction` compare whole calls with one step of the
  promise; they need besides `LaunchLosesNothing` that the bonds and labels of the last
  value do not depend on the order, which has not been done.
- `FoundOrderIsWhole`, `OrderReadsBack`, `CostOfOrder`: they speak of the text that the
  search builds for its nodes, `PathSaysOrder` of positions in a list that shrinks.  The
  parser is proved for every order; that every text of the search is one has not been.
- `TypeOK` and `TableComplete` of `BlockUniTensor`, `FermionicTypeOK`: their actions fold
  over blocks, sectors and legs with operators of the library that the provers cannot
  unfold (`FoldLeft`, `SelectSeq`), so they would have to be modelled otherwise.
- The refinements of `NDArray`, `SlicedArray`, `LabelledArray`, `SymmetricTensor` and
  `GradedTensor`: they are about the elements, of which the proofs say only how many there
  are and in which order of axes.

## 6. Not modelled

The implementation has about 190 000 lines, of which the greatest part are copies of
one numerical kernel per pair of dtypes (`Add_internal.cpp` and its like on CPU and
GPU, some 100 000 lines) and wrappers around LAPACK, BLAS, cuTENSOR and cuQuantum.
They have no control a model could say something about; one operator stands for all
copies, and is mapped to the lines of one.  So the map covers a small share of the
lines, and the parts that keep state.

- GPU memory and the Torch back end; complex numbers and floating point, and with them
  decompositions and the Krylov solvers.
- dtype promotion in Tensor arithmetic (Storage has the casts between two dtypes);
  `-=`, `*=`, `/=` of tensors, which are the kernel of `+=` with another operation;
  Tensor files.
- `T.storage().resize(…)` on the storage behind a tensor, and `append(A.storage())`
  to `A` itself, which reads past a buffer.
- Of UniTensor: SparseUniTensor (a stub), the diagonal form of tensors with symmetries,
  arithmetic in place, blocks
  put by quantum numbers, conversions between kinds, files.
- Of Network: the text of a line (a line is its tokens), the diagrams it prints.
- DMRG: every step launches a network through the call that throws.
- The components marked `not_modelled` in `PROJECT.json`, each with its reason.

## 7. Plan

1. The in-place arithmetic of UniTensors, which writes through shared blocks.
2. Gncon, after Network; the files of Tensor and UniTensor.
3. Proofs: the refinement of `NDArray`; that the text the search builds is an order; that
   the unsigned `_swapsigns_` gives the sign of an exchange.
