------------------------------ MODULE MCTensor ------------------------------
(***************************************************************************)
(* Tensor on small sets of variables, impls and storages, in three scopes: *)
(* "views" takes vectors apart and reshapes them, "writes" computes with   *)
(* matrices and vectors that share storages, "growth" appends. A scope is  *)
(* chosen at the start and kept.                                           *)
(***************************************************************************)
EXTENDS Tensor, TLC

CONSTANTS a, b, i1, i2, i3, s1, s2, s3,
          Scopes   \* the scopes of a run

MCHandles == {a, b}
MCImpls   == {i1, i2, i3}
MCStores  == {s1, s2, s3}

\* Names of objects are interchangeable, and so are the variables.
Symmetry ==
  Permutations(MCImpls) \cup Permutations(MCStores) \cup Permutations(MCHandles)

\* permute of rank 3: a rotation (its square is its inverse), and an axis that
\* is none behind two that are.
Rotations == {<<2, 3, 1>>, <<2, 1, 4>>}

\* reshape of 4 elements: what fits, and what is refused.
Reshapes3 == {<<2, 1, 2>>, <<-1>>, <<-1, 3>>}

\* reshape of 4 elements to a block, and to a stack of one block.
Stack == {<<2, 2>>, <<1, 2, 2>>}

\* permute of rank 2.
Swap == {<<2, 1>>}

VARIABLE scope

\* The constants of the .cfg are those of "views".
Writing == INSTANCE Tensor WITH
  Sizes <- {}, Shapes <- {<<2, 2>>}, NewShapes <- {<<4>>}, Rankings <- Swap,
  Values <- {1}, MaxValue <- 1

Growing == INSTANCE Tensor WITH
  Sizes <- {2}, Shapes <- {}, NewShapes <- {<<1, 2>>}, Rankings <- Swap,
  Values <- {1}, MaxValue <- 0

MCInit == Init /\ scope \in Scopes

MCNext ==
  /\ \/ scope = "views"  /\ Next
     \/ scope = "writes" /\ Writing!Next
     \/ scope = "growth" /\ Growing!Next
  /\ UNCHANGED scope

MCSpec == MCInit /\ [][MCNext]_<<vars, scope>>

Promised == INSTANCE NDArray WITH obj <- ref, arr <- Arr, Values <- {1}

\* Tensors (include/Tensor.hpp) behave as arrays that
\* share cells. No permute, reshape, contiguous_, copy, write, += or append, in
\* any order and on any mix of contiguous and permuted tensors that share
\* storages, changes an element of any tensor that it should not; a call that
\* throws damages its own tensor only.
ImplementsArray == Promised!Spec
=============================================================================
