---------------------------- MODULE GradedTensor ----------------------------
(***************************************************************************)
(* What a UniTensor of fermions stands for: an array with a label, a        *)
(* direction and a charge per basis vector on every leg, as in the module  *)
(* SymmetricTensor, in which the legs anticommute where they are odd.      *)
(* Signs that are kept beside blocks do not exist here.                    *)
(*                                                                         *)
(* The reference for every sign is one count: how many pairs of odd legs   *)
(* stand in another order than before.                                     *)
(***************************************************************************)
EXTENDS SymmetricTensor

CONSTANT Plain   \* the orders of legs that are taken without signs

-----------------------------------------------------------------------------
\* Basis vector i of a leg has an odd number of fermions.
OddAt(leg, i) ==
  LET fermions == MapThenSumSet(
        LAMBDA n : IF leg.syms[n].stype \in {"fPar", "fNum"} THEN leg.charges[i + 1][n] ELSE 0,
        1..Len(leg.syms))
  IN fermions % 2 = 1

\* The pairs of odd legs that stand the other way round in order, odd[i] being about
\* leg i.
CrossingPairs(order, odd) ==
  {pair \in (1..Len(order)) \X (1..Len(order)) :
     /\ pair[1] < pair[2] /\ order[pair[1]] > order[pair[2]]
     /\ odd[order[pair[1]]] /\ odd[order[pair[2]]]}

Parity(S) == IF Cardinality(S) % 2 = 1 THEN -1 ELSE 1

OddLegs(legs, loc) == [j \in 1..Len(legs) |-> OddAt(legs[j], loc[j])]

\* The locator that has loc where the legs are in the order p.
Unmoved(p, loc) == [j \in 1..Len(p) |-> loc[CHOOSE i \in 1..Len(p) : p[i] = j]]

\* y is x with its legs in the order p.
PermutedInSign(x, p, y) ==
  LET elem(old) == Parity(CrossingPairs(p, OddLegs(x.legs, old))) * At(x, old)
  IN Tabled(y, Compose(x.legs, p), LAMBDA loc : Once(elem, Unmoved(p, loc)))

\* y is the dual of x: the legs in reverse order, in the other direction.
Dualised(x, y) ==
  LET p == [i \in 1..Len(x.legs) |-> Len(x.legs) - i + 1]
      turned == [x EXCEPT !.legs = [j \in 1..Len(@) |-> [@[j] EXCEPT !.type = -@]]]
  IN y = Moved(turned, p)

\* y is x and z summed over the legs with a label in common. All legs, those of x in
\* front, are put in the order: the free ones of x, the summed ones in pairs, the
\* free ones of z. A pair of which x has the ket meets in the wrong order.
GradedProduct(x, z, y) ==
  LET n == Len(x.legs)
      labels == [j \in 1..Len(z.legs) |-> z.legs[j].label]
      c == SelectSeq(Identity(n), LAMBDA i : x.legs[i].label \in ToSet(labels))
      d == [i \in 1..Len(c) |->
              CHOOSE j \in 1..Len(labels) : labels[j] = x.legs[c[i]].label]
      freeL == Rest(n, ToSet(c))
      freeR == Rest(Len(z.legs), ToSet(d))
      inner == Shape(Compose(x.legs, c))
      pairs == [i \in 1..(2 * Len(c)) |->
                  IF i % 2 = 1 THEN c[(i + 1) \div 2] ELSE n + d[i \div 2]]
      order == freeL \o pairs \o [i \in 1..Len(freeR) |-> n + freeR[i]]
      kets(l) == {i \in ToSet(c) : OddAt(x.legs[i], l[i]) /\ x.legs[i].type = -1}
      sign(l, r) == Parity(CrossingPairs(order, OddLegs(x.legs, l) \o OddLegs(z.legs, r)))
                      * Parity(kets(l))
      value(l, r) == LET e == At(x, l) * At(z, r) IN IF e = 0 THEN 0 ELSE e * sign(l, r)
      term(loc, s) ==
        Once(LAMBDA l : Once(LAMBDA r : value(l, r),
                             Spread(freeR, SubSeq(loc, Len(freeL) + 1, Len(loc)), d, s)),
             Spread(freeL, SubSeq(loc, 1, Len(freeL)), c, s))
  IN Tabled(y, Compose(x.legs, freeL) \o Compose(z.legs, freeR),
            LAMBDA loc : MapThenSumSet(LAMBDA k : Once(LAMBDA s : term(loc, s), Locator(inner, k)),
                                       0..(Prod(inner) - 1)))

-----------------------------------------------------------------------------
\* y is made of the array x.
GradedOfOne(x, y) ==
  \/ Relabelled(x, y) \/ Dualised(x, y) \/ Restricted(x, y) \/ Written(x, y)
  \/ /\ Len(y.legs) = Len(x.legs)
     /\ \/ \E p \in Perms(Len(x.legs)) : PermutedInSign(x, p, y)
        \/ \E p \in Plain : Len(p) = Len(x.legs) /\ Transposed(x, p, y)
  \/ \E j \in 1..Len(x.legs) : Reordered(x, j, y)

GradedOfTwo(x, z, y) ==
  \/ Contractible(x, z) /\ GradedProduct(x, z, y)
  \/ Sum(x, z, y)

\* One variable is assigned or changed; A and B are the arrays before and after.
GradedAssigned(k, A, B) ==
  /\ \A h \in Handles \ {k} : B[h] = A[h]
  /\ \/ IsNew(B[k])
     \/ \E h \in {g \in Handles : A[g] # Void} :
          \/ GradedOfOne(A[h], B[k])
          \/ \E g \in {f \in Handles : A[f] # Void} : GradedOfTwo(A[h], A[g], B[k])

GradedNext == \E A \in {ten} : \E B \in {ten'} : \E k \in Handles : GradedAssigned(k, A, B)

GradedSpec == Init /\ [][GradedNext]_ten
=============================================================================
