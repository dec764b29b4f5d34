-------------------------- MODULE MCBlockUniTensor --------------------------
(***************************************************************************)
(* BlockUniTensor on two variables: tensors are made and filled, then a    *)
(* bounded number of calls works with them.  A scope, one kind of tensor,  *)
(* is chosen at the start and kept.                                        *)
(***************************************************************************)
EXTENDS BlockUniTensor

CONSTANTS uA, uB,
          Scopes,      \* the scopes of a run
          MaxCalls     \* bound on the calls once the tensors are filled,
                       \* one less in the scope "group"

MCHandles == {uA, uB}

\* The variables are interchangeable.
Interchange == Permutations(MCHandles)

Bond(type, qnums, degs, syms) ==
  [type |-> type, dim |-> Total(degs), qnums |-> qnums, degs |-> degs, syms |-> syms]

Args(bonds, labels, rowrank) ==
  [bonds |-> bonds, labels |-> labels, rowrank |-> rowrank]

\* "matrix": a bra and a ket over U1 and a cyclic symmetry, sectors of two sizes;
\* and what Init refuses: a leg without a direction, a label twice.
Both(type) == Bond(type, <<<<0, 1>>, <<1, 2>>>>, <<1, 2>>, <<U1, Zn(3)>>)
Matrices   == {Args(<<Both(BD_BRA), Both(BD_KET)>>, <<"x", "y">>, -1),
               Args(<<Both(BD_REG), Both(BD_KET)>>, <<"x", "y">>, -1),
               Args(<<Both(BD_BRA), Both(BD_KET)>>, <<"x", "x">>, -1)}

\* "cube": three legs over U1, the third dual to the first.
Sized(type) == Bond(type, <<<<0>>, <<1>>>>, <<1, 2>>, <<U1>>)
Single == Bond(BD_KET, <<<<1>>, <<0>>>>, <<1, 1>>, <<U1>>)
Cubes  == {Args(<<Sized(BD_KET), Single, Sized(BD_BRA)>>, <<"x", "y", "z">>, 1)}

\* "group": two sectors of one charge, not side by side.
Twice(type) == Bond(type, <<<<1>>, <<0>>, <<1>>>>, <<1, 1, 1>>, <<FermionParity>>)
Parity == Bond(BD_KET, <<<<0>>, <<1>>>>, <<1, 1>>, <<FermionParity>>)
Groups == {Args(<<Twice(BD_BRA), Parity>>, <<"x", "y">>, 1)}

Shifted == {<<"y", "z">>}
ShiftedCube == {<<"x", "y", "w">>}
Turns == {<<2, 1>>, <<2, 3, 1>>}
LegPairs == {<<1, 2>>, <<3, 1>>}

VARIABLES scope,
          calls    \* the calls made since the tensors were filled

Cube == INSTANCE BlockUniTensor WITH
          Specs <- Cubes, Labellings <- ShiftedCube, Rowranks <- {},
          Mappers <- {<<2, 3, 1>>}
Grouping == INSTANCE BlockUniTensor WITH Specs <- Groups

MCInit == Init /\ scope \in Scopes /\ calls = 0

Constructs ==
  \/ scope = "matrix" /\ Construct
  \/ scope = "cube" /\ Cube!Construct
  \/ scope = "group" /\ Grouping!Construct

Operates ==
  \/ scope = "matrix" /\ Operate
  \/ scope = "cube" /\ Cube!Operate
  \/ scope = "group" /\ Grouping!Operate

MCNext ==
  /\ \/ calls = 0 /\ Constructs /\ UNCHANGED calls
     \/ /\ calls < IF scope = "group" THEN MaxCalls - 1 ELSE MaxCalls
        /\ Operates
        /\ calls' = calls + 1
  /\ UNCHANGED scope

MCSpec == MCInit /\ [][MCNext]_<<vars, scope, calls>>

LegsOf(specs) ==
  {[j \in 1..Len(s.bonds) |-> Leg(s.labels[j], s.bonds[j], Basis(s.bonds[j]))] :
     s \in {t \in specs : Constructible(t)}}

Promised == INSTANCE SymmetricTensor WITH
  ten <- Arrays, Fresh <- LegsOf(Matrices \cup Cubes \cup Groups)

\* UniTensors with symmetries behave as the arrays they stand for: permuting,
\* tracing, truncating, combining and contracting blocks is doing so with the
\* array; charges add up in the group with the sign of the direction; and a
\* call changes the array of the one variable it is made on or assigned to, also
\* where blocks are shared, and where combineBond_ throws.
ImplementsArray == Promised!Spec
=============================================================================
