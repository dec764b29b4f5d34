------------------------ MODULE MCFermionicUniTensor ------------------------
(***************************************************************************)
(* FermionicUniTensor on two variables: tensors are made and filled, then a *)
(* bounded number of calls works with them.  A scope, one kind of tensor,  *)
(* is chosen at the start and kept.                                        *)
(***************************************************************************)
EXTENDS FermionicUniTensor

CONSTANTS uA, uB,
          Scopes,      \* the scopes of a run
          MaxCalls     \* bound on the calls once the tensors are filled, which one
                       \* contraction may follow

MCHandles == {uA, uB}

\* The variables are interchangeable.
Interchange == Permutations(MCHandles)

Bond(type, qnums, degs, syms) ==
  [type |-> type, dim |-> Total(degs), qnums |-> qnums, degs |-> degs, syms |-> syms]

Args(bonds, labels, rowrank) ==
  [bonds |-> bonds, labels |-> labels, rowrank |-> rowrank]

\* "matrix": a bra and a ket, charge and fermion parity, sectors of two sizes.
Both(type) == Bond(type, <<<<0, 0>>, <<1, 1>>>>, <<1, 2>>, <<U1, FermionParity>>)
Matrices   == {Args(<<Both(BD_BRA), Both(BD_KET)>>, <<"x", "y">>, -1)}
Shifted    == {<<"y", "z">>}
Swap       == {<<2, 1>>}

\* "cube": three legs over the fermion number, the third with 0, 1 or 2 fermions,
\* and its dual, which has one label of its own.
One(type) == Bond(type, <<<<0>>, <<1>>>>, <<1, 1>>, <<FermionNumber>>)
Two(type) == Bond(type, <<<<0>>, <<1>>, <<2>>>>, <<1, 1, 1>>, <<FermionNumber>>)
Cubes == {Args(<<One(BD_KET), One(BD_KET), Two(BD_BRA)>>, <<"x", "y", "z">>, 1),
          Args(<<Two(BD_KET), One(BD_BRA), One(BD_BRA)>>, <<"z", "y", "w">>, 1)}
DualLabels == {<<"z", "y", "x">>}
Exchanges == {<<2, 1, 3>>, <<3, 2, 1>>}
Rotation  == {<<2, 3, 1>>}

\* "group": two sectors of one parity, not side by side.
Twice(type) == Bond(type, <<<<1>>, <<0>>, <<1>>>>, <<1, 1, 1>>, <<FermionParity>>)
Parity == Bond(BD_KET, <<<<0>>, <<1>>>>, <<1, 1>>, <<FermionParity>>)
Groups == {Args(<<Twice(BD_BRA), Parity>>, <<"x", "y">>, 1)}

\* "vector": one ket, for outer products.
Vectors == {Args(<<Bond(BD_KET, <<<<0>>, <<1>>>>, <<2, 1>>, <<FermionParity>>)>>, <<"x">>, 1)}

VARIABLES scope,
          calls    \* the calls made since the tensors were filled

Cube == INSTANCE FermionicUniTensor WITH
          Specs <- Cubes, Labellings <- DualLabels, Mappers <- Exchanges \cup Mappers
Grouping == INSTANCE FermionicUniTensor WITH Specs <- Groups, Labellings <- {}
Vector == INSTANCE FermionicUniTensor WITH Specs <- Vectors, Labellings <- {<<"w">>}

\* Of the cube and its dual one each is made.
OneEach ==
  \A h, k \in Handles : h # k /\ Set(h) /\ Set(k) => uten[h].labels # uten[k].labels

MCInit == Init /\ scope \in Scopes /\ calls = 0

Constructs ==
  \/ scope = "matrix" /\ ConstructEven
  \/ scope = "cube" /\ Cube!ConstructEven /\ OneEach'
  \/ scope = "group" /\ Grouping!ConstructEven
  \/ scope = "vector" /\ Vector!ConstructEven

Operates ==
  \/ scope = "matrix" /\ OperateSigned
  \/ scope = "cube" /\ Cube!OperateSigned
  \/ scope = "group" /\ Grouping!OperateSigned
  \/ scope = "vector" /\ Vector!OperateSigned

MCNext ==
  /\ \/ calls = 0 /\ Constructs /\ UNCHANGED calls
     \/ calls < MaxCalls /\ Operates /\ calls' = calls + 1
     \/ /\ calls = MaxCalls
        /\ \E h, g, k \in Handles : ContractSigned(k, h, g)
        /\ calls' = calls + 1
  /\ UNCHANGED scope

MCSpec == MCInit /\ [][MCNext]_<<vars, scope, calls>>

LegsOf(specs) ==
  {[j \in 1..Len(s.bonds) |-> Leg(s.labels[j], s.bonds[j], Basis(s.bonds[j]))] :
     s \in specs}

Promised == INSTANCE GradedTensor WITH
  ten <- Meanings, Plain <- PlainMappers,
  Fresh <- LegsOf(Matrices \cup Cubes \cup Groups \cup Vectors)

\* Tensors of fermions behave as arrays with anticommuting legs. However the legs are
\* permuted, duplicates grouped and sectors truncated before, a contraction gives
\* each product of blocks the sign of the order in which the odd legs of both
\* tensors meet, with _signflip, _swapsigns_ and _lhssigns_ in their places; and a
\* call changes the array of one variable.
ImplementsGraded == Promised!GradedSpec

\* "Implements the sign flips when permuting indices; cytnx_int64 version"
\* (src/BlockFermionicUniTensor.cpp:856): a permuted tensor has the sign of every
\* pair of odd legs that changed places.
PermutedInSign ==
  [][\A h, k \in Handles : \A p \in Mappers :
       OfLegs(h, p) /\ PermuteLegs(k, h, p) =>
         \E A \in {Meanings[h]} : \E B \in {Meanings'[k]} :
           Promised!PermutedInSign(A, p, B)]_vars
=============================================================================
