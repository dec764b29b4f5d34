---------------------------- MODULE GradedSpace ----------------------------
(***************************************************************************)
(* What a Bond stands for: a space of kets or of bras, or one without a    *)
(* direction, in which every charge (one number per symmetry, an element   *)
(* of its group) has a multiplicity.  A space without symmetries has the   *)
(* one empty charge.  In which order a Bond lists its charges, and whether *)
(* a charge is listed twice, does not exist here.                          *)
(*                                                                         *)
(* A call that fails leaves its own space broken and every other one alone.*)
(* The operators relate A, the spaces before a step, to B, those after it. *)
(***************************************************************************)
EXTENDS Symmetry, FiniteSets

CONSTANTS Handles,     \* the user's Bond variables
          Void,        \* what an unset variable refers to
          Fresh        \* the spaces a user may describe

VARIABLES obj,         \* obj[h]: the space h refers to
          space        \* space[i]: direction, symmetries and multiplicities

vars == <<obj, space>>

Broken == [type |-> 0, syms |-> <<>>, mult |-> <<>>]

Init == obj = [h \in Handles |-> Void] /\ DOMAIN space = {}

-----------------------------------------------------------------------------
\* The group element a number stands for.
Element(s, x) == IF IsCyclic(s) THEN x % Order(s) ELSE x

\* The charge of a vector of x and one of y; y counts negative if the two spaces
\* have different directions.
Charge(x, y, p, q) ==
  [i \in 1..Len(x.syms) |->
     Element(x.syms[i], IF x.type = y.type THEN p[i] + q[i] ELSE p[i] - q[i])]

\* A basis of x: as many vectors of a charge as its multiplicity.
Basis(x) == UNION {{c} \X (1..x.mult[c]) : c \in DOMAIN x.mult}

\* The pairs of basis vectors are a basis of the product.
Product(x, y) ==
  LET pairs   == Basis(x) \X Basis(y)
      sum(v)  == Charge(x, y, v[1][1], v[2][1])
      charges == {Charge(x, y, p, q) : p \in DOMAIN x.mult, q \in DOMAIN y.mult}
  IN [x EXCEPT !.mult =
        [c \in charges |-> Cardinality({v \in pairs : sum(v) = c})]]

\* y is x with another direction; only a space without symmetries can be
\* without one.
Turned(x, y) ==
  /\ y = [x EXCEPT !.type = y.type]
  /\ x.syms = <<>> \/ y.type # 0

\* y is x with some or all of the vectors of one charge gone, others remaining.
Truncated(x, y) ==
  \E c \in DOMAIN x.mult :
     /\ DOMAIN x.mult \ {c} \subseteq DOMAIN y.mult
     /\ DOMAIN y.mult \subseteq DOMAIN x.mult
     /\ y = [x EXCEPT !.mult = y.mult]
     /\ \A d \in DOMAIN y.mult :
          IF d = c THEN 0 < y.mult[d] /\ y.mult[d] < x.mult[d]
                   ELSE y.mult[d] = x.mult[d]
     /\ DOMAIN y.mult # {}

-----------------------------------------------------------------------------
\* Handle h is assigned: a space there was, a copy, a copy in another direction,
\* the product of two spaces in the same direction, or a fresh space.
Assigned(h, A, B) ==
  LET i == obj'[h]
  IN /\ obj' = [obj EXCEPT ![h] = i]
     /\ \A j \in DOMAIN B \ {i} : B[j] = A[j]
     /\ IF i \in DOMAIN A THEN B[i] = A[i]
        ELSE \/ \E j \in DOMAIN A :
                  /\ A[j] # Broken
                  /\ \/ Turned(A[j], B[i])
                     \/ \E k \in DOMAIN A : /\ A[k] # Broken
                                            /\ A[k].syms = A[j].syms
                                            /\ A[k].type = A[j].type
                                            /\ B[i] = Product(A[j], A[k])
             \/ B[i] \in Fresh

\* The space of h becomes another one: every handle on it sees that.
Changed(h, A, B) ==
  LET i == obj[h]
  IN /\ obj' = obj
     /\ \A j \in DOMAIN B \ {i} : B[j] = A[j]
     /\ \/ B[i] = Broken
        \/ A[i] # Broken /\ (Turned(A[i], B[i]) \/ Truncated(A[i], B[i]))
        \/ \E j \in DOMAIN A : /\ Broken \notin {A[i], A[j]}
                               /\ A[j].syms = A[i].syms
                               /\ B[i] = Product(A[i], A[j])
        \/ B[i] \in Fresh

\* A space is there as long as a handle refers to it.
Next == LET A == space
            B == space'
        IN /\ \E h \in Handles :
                \/ Assigned(h, A, B)
                \/ obj[h] # Void /\ Changed(h, A, B)
           /\ DOMAIN B = {obj'[h] : h \in Handles} \ {Void}

Spec == Init /\ [][Next]_vars
=============================================================================
