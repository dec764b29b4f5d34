-------------------------- MODULE MCDenseUniTensor --------------------------
(***************************************************************************)
(* Slicing and DenseUniTensor on two variables, in scopes; a scope is      *)
(* chosen at the start and kept.  "matrix", "cube" and "chain" slice two   *)
(* tensors, contiguous or permuted, that share a storage or do not: one    *)
(* call with any slice on matrices, one on tensors of rank 3, two calls on *)
(* matrices with fewer slices.  In the others the tensors are the blocks   *)
(* of two UniTensors.  What calls there were before is what the initial    *)
(* states say: tensors made and permuted, UniTensors made of blocks,       *)
(* relabelled and tagged.                                                  *)
(***************************************************************************)
EXTENDS DenseUniTensor

CONSTANTS ta, tb, i1, i2, i3, s1, s2, s3, s4,
          Scopes,   \* the scopes of a run
          Deep      \* the scopes of UniTensors in which a second call is made

MCHandles == {ta, tb}
MCImpls   == {i1, i2, i3}
MCStores  == {s1, s2, s3, s4}

\* Names of unused impls and storages are interchangeable.
Interchange == Permutations(MCImpls) \cup Permutations(MCStores)

VARIABLES scope, calls

-----------------------------------------------------------------------------
(* Slices, of a matrix (2,3), and of its transpose as far as they fit.     *)

Axis == INSTANCE Accessor

All       == Axis!All
Singl(l)  == Axis!Singl(l)
List(l)   == Axis!List(l)
Step(s)   == Axis!Step(s)
Range_(l, m, s) == Axis!Range_(l, m, s)
Tilend(l, s)    == Axis!Tilend(l, s)

Row      == <<Singl(1)>>
Element  == <<Singl(-1), Singl(0)>>
Column   == <<All, Singl(2)>>
Corner   == <<All, Range_(0, 2, 1)>>
Before   == <<Range_(0, -1, 1), All>>
Down     == <<Range_(1, 0, -1)>>
Reversed == <<Step(-1)>>
Outside  == <<All, Step(2)>>
Backward == <<Tilend(-1, -1), Tilend(1, 1)>>
Crossed  == <<List(<<1, 0>>), List(<<2, 0>>)>>
Twice    == <<All, List(<<0, -2>>), All>>
Doubled  == <<All, List(<<0, 0>>)>>
Whole_   == <<All>>

MatrixSlices == {Row, Element, Column, Corner, Before, Down, Reversed, Outside,
                 Backward, Crossed, Doubled, Whole_}

MatrixPairs == {<<Reversed, Whole_>>, <<Crossed, Corner>>, <<Outside, Backward>>,
                <<Row, Element>>, <<Down, Before>>}

\* Slices of a tensor (2,3,2).
CubeSlices == {<<All, Singl(1)>>, <<Singl(0), All, Singl(-1)>>, <<All, All, Singl(1)>>,
               <<Singl(1), Tilend(1, 1)>>, <<All, Step(-2), Range_(1, 0, -1)>>,
               Twice, <<Singl(1), Singl(2), Singl(0)>>}

CubePairs == {<<<<All, Singl(1)>>, <<All, Singl(0)>>>>}

Matrix == INSTANCE Slicing WITH Slices <- MatrixSlices, SlicePairs <- MatrixPairs

Cubic == INSTANCE Slicing WITH Slices <- CubeSlices, SlicePairs <- CubePairs

Short == INSTANCE Slicing
           WITH Slices <- {Backward, Element, Reversed, Row},
                SlicePairs <- {<<Reversed, Whole_>>, <<Row, Element>>}

SliceScopes == {"matrix", "cube", "chain"}

-----------------------------------------------------------------------------
(* Layouts and what UniTensors are made of.                                *)

Plain(shape) == Block!Plain(shape)
Turned_(shape, p) == Block!Permuted(Block!Plain(shape), p)

Matrices == {Plain(<<2, 3>>), Turned_(<<3, 2>>, <<2, 1>>)}
Cubes    == {Plain(<<2, 3, 2>>), Turned_(<<2, 2, 3>>, <<1, 3, 2>>), Turned_(<<2, 2, 3>>, <<2, 3, 1>>)}
Tall     == {Plain(<<3, 2>>), Turned_(<<2, 3>>, <<2, 1>>)}
Squares  == {Plain(<<2, 2>>), Turned_(<<2, 2>>, <<2, 1>>)}
Doubles  == {Plain(<<2>>)}
Singles  == {Plain(<<1>>)}

\* The elements 1, 2, ... or other ones.
Counting(first, n) == Block!FromVector("Int64", [k \in 1..n |-> first + k - 1])

\* Labels, bonds, ... of UniTensors made of a block and relabelled.
Labelled(shape, labels, rowrank, diag) ==
  [ByTensor(shape, diag, rowrank) EXCEPT !.labels = labels]

\* ta has one of these layouts, tb one of those, on one storage or on two, or the two
\* have one Tensor_impl.
Apart(ts, us, m, n) ==
  \E t \in ts, u \in us :
    /\ ref  = [h \in Handles |-> IF h = ta THEN i1 ELSE i2]
    /\ impl = [i \in Impls |-> CASE i = i1 -> [t EXCEPT !.st = s1]
                                 [] i = i2 -> [u EXCEPT !.st = s2]
                                 [] OTHER  -> None]
    /\ heap = [s \in Stores |-> CASE s = s1 -> Counting(1, Prod(t.shape))
                                  [] s = s2 -> Counting(3, Prod(u.shape))
                                  [] OTHER  -> None]
    /\ meta = [h \in Handles |-> IF h = ta THEN m ELSE n]

OneStorage(ts, us, m, n) ==
  \E t \in ts, u \in us :
    /\ ref  = [h \in Handles |-> IF h = ta THEN i1 ELSE i2]
    /\ impl = [i \in Impls |-> CASE i = i1 -> [t EXCEPT !.st = s1]
                                 [] i = i2 -> [u EXCEPT !.st = s1]
                                 [] OTHER  -> None]
    /\ heap = [s \in Stores |-> IF s = s1 THEN Counting(1, Prod(t.shape)) ELSE None]
    /\ meta = [h \in Handles |-> IF h = ta THEN m ELSE n]

OneImpl(ts, m, n) ==
  \E t \in ts :
    /\ ref  = [h \in Handles |-> i1]
    /\ impl = [i \in Impls |-> IF i = i1 THEN [t EXCEPT !.st = s1] ELSE None]
    /\ heap = [s \in Stores |-> IF s = s1 THEN Counting(1, Prod(t.shape)) ELSE None]
    /\ meta = [h \in Handles |-> IF h = ta THEN m ELSE n]

Untagged(shape, labels) == Labelled(shape, labels, 1, FALSE)
Diagonal(labels)        == Labelled(<<2>>, labels, 1, TRUE)

Start ==
  CASE scope = "product" ->   \* two matrices with a leg in common
         Apart(Matrices, Tall, Untagged(<<2, 3>>, <<1, 0>>), Untagged(<<3, 2>>, <<0, 2>>))
    [] scope = "double" ->    \* a cube and a matrix, two legs in common, crossed
         Apart(Cubes, Squares, Untagged(<<2, 3, 2>>, <<0, 1, 2>>), Untagged(<<2, 2>>, <<2, 0>>))
    [] scope = "diagonal" ->  \* a diagonal and what it may be contracted with
         \/ Apart(Doubles, Matrices, Diagonal(<<0, 1>>), Untagged(<<2, 3>>, <<1, 2>>))
         \/ Apart(Doubles, Squares, Diagonal(<<0, 1>>), Untagged(<<2, 2>>, <<1, 0>>))
         \/ Apart(Doubles, Doubles, Diagonal(<<0, 1>>), Diagonal(<<1, 2>>))
         \/ Apart(Doubles, Doubles, Directed(Diagonal(<<0, 1>>)), Directed(Diagonal(<<0, 1>>)))
         \/ Apart(Doubles, Doubles, Diagonal(<<0, 1>>), Untagged(<<2>>, <<1>>))
         \/ Apart(Singles, Singles, Labelled(<<1>>, <<0, 1>>, 1, TRUE), Labelled(<<1>>, <<1, 2>>, 1, TRUE))
    [] scope = "tagged" ->    \* kets and bras
         \/ Apart(Squares, Squares, Directed(Untagged(<<2, 2>>, <<0, 1>>)),
                                    Directed(Untagged(<<2, 2>>, <<1, 2>>)))
         \/ Apart({Turned_(<<2, 2, 3>>, <<1, 3, 2>>)}, Squares, Directed(Untagged(<<2, 3, 2>>, <<0, 1, 2>>)),
                  Directed(Untagged(<<2, 2>>, <<2, 3>>)))
    [] scope = "shared" ->    \* one storage
         \/ OneStorage(Matrices, Tall, Untagged(<<2, 3>>, <<0, 1>>), Untagged(<<3, 2>>, <<1, 2>>))
         \/ OneStorage({Plain(<<2, 3>>)}, {Plain(<<6>>)}, Untagged(<<2, 3>>, <<0, 1>>),
                       Untagged(<<6>>, <<0>>))
    [] scope = "alias" ->     \* one Tensor_impl
         \/ OneImpl(Squares, Untagged(<<2, 2>>, <<0, 1>>), Untagged(<<2, 2>>, <<1, 2>>))
         \/ OneImpl(Doubles, Diagonal(<<0, 1>>), Untagged(<<2>>, <<0>>))

\* The constructor: plain legs, a diagonal, kets and bras, no legs, and what is refused.
Reg(d) == [type |-> B!BD_REG, dim |-> d]
Ket(d) == [type |-> B!BD_KET, dim |-> d]
Bra(d) == [type |-> B!BD_BRA, dim |-> d]

Args(bonds, labels, rowrank, diag) ==
  [bonds |-> bonds, labels |-> labels, rowrank |-> rowrank, diag |-> diag]

MCNewTensors ==
  {Args(<<Reg(2), Reg(3)>>, <<0, 5>>, -1, FALSE), Args(<<Reg(2), Reg(2)>>, <<1, 0>>, 1, TRUE),
   Args(<<Bra(2), Ket(2)>>, <<0, 1>>, -1, FALSE), Args(<<>>, <<>>, -1, FALSE),
   Args(<<Reg(2), Ket(3)>>, <<0, 1>>, -1, FALSE), Args(<<Reg(2), Reg(3)>>, <<0, 0>>, -1, FALSE),
   Args(<<Reg(2), Reg(3)>>, <<0, 1>>, 1, TRUE)}

MCLabellings == {<<0, 3>>, <<2, 1, 3>>, <<1, 1>>}
MCRenamings  == {<<<<1>>, <<4>>>>, <<<<0, 1>>, <<1, 0>>>>, <<<<0>>, <<1>>>>}
MCOrders     == {<<2, 1>>, <<2, 3, 1>>, <<2, 2>>}
MCGroups     == {<<0, 1>>, <<1, 0>>, <<2, 0>>, <<0, 2, 1>>}
MCNewShapes  == {<<-1>>, <<3, -1>>, <<2, 2>>, <<5>>}
MCRowranks   == {-1, 1, 3}
MCSlices     == {<<Singl(1)>>, <<All, Range_(0, 1, 1)>>}

\* The second call, with fewer arguments.
Second == INSTANCE DenseUniTensor
            WITH NewTensors <- {}, Slices <- {}, Rowranks <- {1}, Values <- {},
                 Labellings <- {<<0, 3>>}, Renamings <- {}, NewShapes <- {<<-1>>}

-----------------------------------------------------------------------------
MCInit ==
  /\ scope \in Scopes
  /\ calls = 0
  /\ IF scope \in SliceScopes
     THEN LET layouts == IF scope = "cube" THEN Cubes ELSE Matrices
              none    == [h \in Handles |-> Void]
          IN Apart(layouts, layouts, Void, Void) \/ OneStorage(layouts, layouts, Void, Void)
     ELSE Start
  /\ torn = {} /\ amiss = {}

MCNext ==
  /\ \/ /\ \/ scope = "matrix" /\ calls < 1 /\ Matrix!SliceNext
           \/ scope = "cube"   /\ calls < 1 /\ Cubic!SliceNext
           \/ scope = "chain"  /\ calls < 2 /\ Short!SliceNext
        /\ Keep
     \/ scope \notin SliceScopes /\ calls = 0 /\ Next
     \/ scope \in Deep /\ calls = 1 /\ Second!Next
  /\ calls' = calls + 1
  /\ UNCHANGED scope

MCSpec == MCInit /\ [][MCNext]_<<vars, scope, calls>>

-----------------------------------------------------------------------------
Tensors == Block!Arr

Promised == INSTANCE SlicedArray
              WITH obj <- ref, arr <- Tensors,
                   Slices <- MatrixSlices \cup CubeSlices,
                   SlicePairs <- MatrixPairs \cup CubePairs

\* "Accessor object is equivalent to Python slice"
\* (docs/source/guide/basic_obj/Tensor_3_access.rst): get, set and the proxies
\* that are made of them read and write the elements Python would, of tensors
\* with any layout, and no element of another tensor that does not share them.
SlicesAsInPython == [][(scope \in SliceScopes) => Promised!SliceNext]_<<ref, Tensors>>

Contracts == INSTANCE LabelledArray WITH ten <- Arrays

\* UniTensors without symmetries behave as arrays with labels: contract sums over
\* the legs with a label in common, whatever the order of the legs and the layout of
\* the blocks, and so do Trace_, combineBonds, truncate_ and the rest; a call changes
\* the array of the variable it is made on or assigned to, and of others only the
\* elements they share with it, also where the block is a Tensor that others have,
\* where contract moves the elements of its operands, and where a call throws.
ImplementsLabelled == [][Contracts!Next]_Arrays
=============================================================================
