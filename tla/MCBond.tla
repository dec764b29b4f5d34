------------------------------- MODULE MCBond -------------------------------
(***************************************************************************)
(* Bond on small sets of variables, impls and arguments, in two scopes:    *)
(* "products" combines and groups bonds with two symmetries, "throws" is   *)
(* about arguments that are refused. A scope is chosen at the start and    *)
(* kept.                                                                   *)
(***************************************************************************)
EXTENDS Bond, TLC

CONSTANTS a, b, i1, i2, i3,
          Scopes   \* the scopes of a run

MCHandles == {a, b}
MCImpls   == {i1, i2, i3}

\* Names of impls are interchangeable, and so are the variables.
Interchange == Permutations(MCImpls) \cup Permutations(MCHandles)

Args(type, qnums, degs, syms) ==
  [type |-> type, qnums |-> qnums, degs |-> degs, syms |-> syms]

\* Two symmetries, one of them not cyclic.
Pairs == {Args(BD_KET, <<<<1, 1>>, <<0, 1>>>>, <<1, 1>>, <<U1, FermionParity>>),
          Args(BD_BRA, <<<<-1, 1>>>>, <<2>>, <<U1, FermionParity>>)}

\* The default symmetries.
Charges == {Args(BD_KET, <<<<1>>>>, <<2>>, <<>>)}

\* What Init throws on: a degeneracy of 0, lists that do not fit, an undirected
\* bond, a number that is not one of its symmetry.
Refused == {Args(BD_KET, <<<<0>>, <<1>>>>, <<1, 0>>, <<Zn(2)>>),
            Args(BD_KET, <<<<0>>, <<1>>>>, <<1, 2>>, <<Zn(2), U1>>),
            Args(BD_REG, <<<<0>>>>, <<1>>, <<Zn(2)>>),
            Args(BD_BRA, <<<<2>>>>, <<1>>, <<Zn(2)>>)}

\* Z(3) in both directions, where a number, its reverse and 0 are three.
Cyclic == {Args(BD_KET, <<<<1>>>>, <<2>>, <<Zn(3)>>),
           Args(BD_BRA, <<<<1>>>>, <<1>>, <<Zn(3)>>)}

MixedSpecs == Cyclic \cup Charges \cup Refused

\* The arguments of the two scopes.
MCSpecs == Pairs \cup MixedSpecs

VARIABLE scope

Multiplying == INSTANCE Bond WITH Dims <- {}, Specs <- Pairs
Throwing    == INSTANCE Bond WITH Specs <- MixedSpecs

MCInit == Init /\ scope \in Scopes

MCNext ==
  /\ \/ scope = "products" /\ Multiplying!Next
     \/ scope = "throws" /\ Throwing!Next
  /\ UNCHANGED scope

MCSpec == MCInit /\ [][MCNext]_<<vars, scope>>
=============================================================================
