-------------------------- MODULE SymmetricTensor --------------------------
(***************************************************************************)
(* What a UniTensor with symmetries stands for: an array with a label, a   *)
(* direction and a charge per basis vector on every leg.  How its elements *)
(* are kept in blocks, in which order the blocks are, and which variables  *)
(* share them, does not exist here: an operation is the one of the array.  *)
(*                                                                         *)
(* An array is [legs, elems]: elems in row-major order, and of a leg its    *)
(* label, type, symmetries and charges.  The operators relate the array x, *)
(* or x and z, before a step to the array y after it.                      *)
(***************************************************************************)
EXTENDS Symmetry, Strided, FiniteSetsExt

CONSTANTS Handles,     \* the user's variables
          Void,        \* what an unset variable refers to
          Fresh        \* the legs of the tensors a user makes

VARIABLE ten           \* ten[h]: the array of h, or Void

-----------------------------------------------------------------------------
Shape(legs) == [j \in 1..Len(legs) |-> Len(legs[j].charges)]

At(x, loc) == x.elems[1 + Location(Shape(x.legs), loc)]

\* F of the value of s: TLC works that out once, however often F uses it.
Once(F(_), s) == CHOOSE t \in {F(u) : u \in {s}} : TRUE

\* y has these legs, and its element at a locator is F of it.
Tabled(y, legs, F(_)) ==
  LET filled(shape) ==
        \A n \in 1..Prod(shape) : y.elems[n] = Once(F, Locator(shape, n - 1))
  IN y.legs = legs /\ Once(filled, Shape(legs))

\* The group element that number q stands for on a leg of this type.
Signed(type, s, q) ==
  LET x == IF type = 1 THEN -q ELSE q
  IN IF IsCyclic(s) THEN x % Order(s) ELSE x

\* The charges of the basis vectors at loc cancel.
Neutral(legs, loc) ==
  \A i \in 1..Len(legs[1].syms) :
    LET s == legs[1].syms[i]
        total == MapThenSumSet(
                   LAMBDA j : Signed(legs[j].type, s, legs[j].charges[loc[j] + 1][i]),
                   1..Len(legs))
    IN IF IsCyclic(s) THEN total % Order(s) = 0 ELSE total = 0

\* Only elements whose charges cancel are not zero.
Symmetric(x) ==
  x.legs # <<>> =>
    \A n \in 1..Len(x.elems) :
      x.elems[n] # 0 => Neutral(x.legs, Locator(Shape(x.legs), n - 1))

-----------------------------------------------------------------------------
IsNew(y) == y.legs \in Fresh /\ \A n \in 1..Len(y.elems) : y.elems[n] = 0

\* Every element that a symmetric array may have is given a value.
Written(x, y) ==
  /\ y.legs = x.legs /\ x.legs # <<>>
  /\ \A n \in 1..Len(y.elems) :
       y.elems[n] # 0 <=> Neutral(y.legs, Locator(Shape(y.legs), n - 1))

\* y is x with other labels.
Relabelled(x, y) ==
  /\ y.elems = x.elems
  /\ Len(y.legs) = Len(x.legs)
  /\ \A j \in 1..Len(x.legs) : y.legs[j] = [x.legs[j] EXCEPT !.label = y.legs[j].label]

Turned(x, y) ==
  /\ y.elems = x.elems
  /\ y.legs = [j \in 1..Len(x.legs) |-> [x.legs[j] EXCEPT !.type = -@]]

\* x with its legs in the order p.
Moved(x, p) ==
  [legs  |-> Compose(x.legs, p),
   elems |-> MoveMemory(x.elems, Shape(x.legs), p, 0)]

Transposed(x, p, y) == y.legs = Compose(x.legs, p) /\ y = Moved(x, p)

\* y is x without basis vectors of one leg, all of one charge.
Restricted(x, y) ==
  \E j \in {i \in 1..Len(x.legs) : Len(y.legs) = Len(x.legs)
                                   /\ Len(y.legs[i].charges) < Len(x.legs[i].charges)} :
    LET dim  == Len(x.legs[j].charges)
        gone == dim - Len(y.legs[j].charges)
    IN \E first \in 0..(dim - gone) :
         LET old(i) == IF i < first THEN i ELSE i + gone
         IN /\ \A i \in 1..gone :
                 x.legs[j].charges[first + i] = x.legs[j].charges[first + 1]
            /\ Tabled(y, [x.legs EXCEPT ![j].charges =
                            [i \in 1..(dim - gone) |-> @[old(i - 1) + 1]]],
                      LAMBDA loc : At(x, [loc EXCEPT ![j] = old(@)]))

\* Two legs that a sum may run over.
Dual(l, m) == l.type = -m.type /\ l.charges = m.charges

Rest(rank, S) == SelectSeq(Identity(rank), LAMBDA i : i \notin S)

\* The locator with the entries of loc on the legs rest and those of sum on the
\* legs inner.
Spread(rest, loc, inner, sum) ==
  [i \in 1..(Len(rest) + Len(inner)) |->
     IF \E n \in 1..Len(rest) : rest[n] = i
     THEN loc[CHOOSE n \in 1..Len(rest) : rest[n] = i]
     ELSE sum[CHOOSE n \in 1..Len(inner) : inner[n] = i]]

\* y is x summed over the legs i and j together.
Traced(x, i, j, y) ==
  LET rest == Rest(Len(x.legs), {i, j})
  IN Tabled(y, Compose(x.legs, rest),
            LAMBDA loc : MapThenSumSet(
              LAMBDA d : At(x, Spread(rest, loc, <<i, j>>, <<d, d>>)),
              0..(Len(x.legs[i].charges) - 1)))

\* y is x and z summed over the legs with a label in common, their product where
\* there is none.
Product(x, z, y) ==
  LET labels == [j \in 1..Len(z.legs) |-> z.legs[j].label]
      c == SelectSeq(Identity(Len(x.legs)), LAMBDA i : x.legs[i].label \in ToSet(labels))
      d == [n \in 1..Len(c) |->
              CHOOSE j \in 1..Len(labels) : labels[j] = x.legs[c[n]].label]
      freeL == Rest(Len(x.legs), ToSet(c))
      freeR == Rest(Len(z.legs), ToSet(d))
      inner == Shape(Compose(x.legs, c))
      left(loc)  == SubSeq(loc, 1, Len(freeL))
      right(loc) == SubSeq(loc, Len(freeL) + 1, Len(loc))
      term(loc, sum) == At(x, Spread(freeL, left(loc), c, sum))
                          * At(z, Spread(freeR, right(loc), d, sum))
  IN Tabled(y, Compose(x.legs, freeL) \o Compose(z.legs, freeR),
            LAMBDA loc : MapThenSumSet(LAMBDA n : Once(LAMBDA s : term(loc, s), Locator(inner, n)),
                                       0..(Prod(inner) - 1)))

Contractible(x, z) ==
  \A i \in 1..Len(x.legs), j \in 1..Len(z.legs) :
    x.legs[i].label = z.legs[j].label => Dual(x.legs[i], z.legs[j])

\* The order in which leg j follows leg i, the others staying in theirs.
Before(x, i, j) ==
  LET others == Rest(Len(x.legs), {i, j})
  IN SelectSeq(others, LAMBDA k : k < i) \o <<i, j>>
       \o SelectSeq(others, LAMBDA k : k > i)

\* Legs a and b, side by side, as one: the charge of a pair of basis vectors is
\* their sum, where b counts negative in the direction of a if it has another one.
FusedLeg(a, b) ==
  LET n == Len(b.charges)
      sign == IF a.type = b.type THEN 1 ELSE -1
      add(p, q) == [i \in 1..Len(a.syms) |->
                      LET s == p[i] + sign * q[i]
                      IN IF IsCyclic(a.syms[i]) THEN s % Order(a.syms[i]) ELSE s]
  IN [a EXCEPT !.charges =
        [k \in 1..(Len(a.charges) * n) |->
           add(a.charges[((k - 1) \div n) + 1], b.charges[((k - 1) % n) + 1])]]

\* x with leg j and the one after it as one leg; the elements stay.
Fused(x, j) ==
  [x EXCEPT !.legs = SubSeq(@, 1, j - 1) \o <<FusedLeg(@[j], @[j + 1])>>
                       \o SubSeq(@, j + 2, Len(@))]

\* The basis vectors of leg j of x, each with its charge and the elements there.
Slices(x, j) ==
  LET others(shape) == {k \in 1..Len(x.elems) : Locator(shape, k - 1)[j] = 0}
      slice(shape, i) ==
        [k \in others(shape) |->
           At(x, [Locator(shape, k - 1) EXCEPT ![j] = i - 1])]
  IN Once(LAMBDA shape : [i \in 1..shape[j] |->
                            <<x.legs[j].charges[i], slice(shape, i)>>], Shape(x.legs))

\* y is x with the basis vectors of leg j in another order.
Reordered(x, j, y) ==
  /\ Len(y.legs) = Len(x.legs)
  /\ y.legs = [x.legs EXCEPT ![j].charges = y.legs[j].charges]
  /\ Len(y.legs[j].charges) = Len(x.legs[j].charges)
  /\ \E v \in {Slices(x, j)} : \E w \in {Slices(y, j)} : \A i \in 1..Len(v) :
       Cardinality({k \in 1..Len(v) : v[k] = v[i]})
         = Cardinality({k \in 1..Len(v) : w[k] = v[i]})

\* x and z element by element; whose labels it has is not said.
Sum(x, z, y) ==
  /\ Shape(x.legs) = Shape(z.legs)
  /\ Relabelled([legs |-> x.legs, elems |-> [n \in 1..Len(x.elems) |->
                                               x.elems[n] + z.elems[n]]], y)

-----------------------------------------------------------------------------
\* y is x with the leg i and the leg j as one, where the first of them was; the
\* basis vectors of that leg have some order.
Joined(x, i, j, y) ==
  LET p == Before(x, i, j)
      at == CHOOSE n \in 1..Len(p) : p[n] = i
  IN /\ [n \in 1..Len(y.legs) |-> y.legs[n].label]
          = [n \in 1..Len(y.legs) |-> x.legs[p[IF n <= at THEN n ELSE n + 1]].label]
     /\ \E m \in {Moved(x, p)} : \E v \in {Fused(m, at)} : Reordered(v, at, y)

\* y is made of the array x.
MadeOfOne(x, y) ==
  \/ Relabelled(x, y) \/ Turned(x, y) \/ Restricted(x, y) \/ Written(x, y)
  \/ Len(y.legs) = Len(x.legs) /\ \E p \in Perms(Len(x.legs)) : Transposed(x, p, y)
  \/ \E j \in 1..Len(x.legs) : Reordered(x, j, y)
  \/ /\ Len(y.legs) = Len(x.legs) - 1
     /\ \E i, j \in 1..Len(x.legs) : i # j /\ Joined(x, i, j, y)
  \/ /\ Len(y.legs) = Len(x.legs) - 2
     /\ \E i, j \in 1..Len(x.legs) :
          i < j /\ Dual(x.legs[i], x.legs[j]) /\ Traced(x, i, j, y)

MadeOfTwo(x, z, y) ==
  \/ Contractible(x, z) /\ Product(x, z, y)
  \/ Sum(x, z, y)

\* One variable is assigned or changed; A and B are the arrays before and after.
Assigned(k, A, B) ==
  /\ \A h \in Handles \ {k} : B[h] = A[h]
  /\ \/ IsNew(B[k])
     \/ \E h \in {g \in Handles : A[g] # Void} :
          \/ MadeOfOne(A[h], B[k])
          \/ \E g \in {f \in Handles : A[f] # Void} : MadeOfTwo(A[h], A[g], B[k])

Init == ten = [h \in Handles |-> Void]

Next == \E A \in {ten} : \E B \in {ten'} : \E k \in Handles : Assigned(k, A, B)

Spec == Init /\ [][Next]_ten
=============================================================================
