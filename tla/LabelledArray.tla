--------------------------- MODULE LabelledArray ---------------------------
(***************************************************************************)
(* What a UniTensor without symmetries stands for: an array with a label   *)
(* and a direction on every leg, and the cells its elements are in, which  *)
(* arrays share as numpy's views do.  Of a diagonal array only the         *)
(* diagonal has cells; the other elements are 0.  How elements lie in      *)
(* memory, which arrays are one Tensor_impl, and the rowrank do not exist  *)
(* here.  A call that fails on the way leaves its own array broken and     *)
(* every other one alone.                                                  *)
(*                                                                         *)
(* An array is [legs, diag, cells, elems], and of a leg its label, type    *)
(* and dim.  The operators relate A, the arrays before a step, to B, those *)
(* after it, or single ones, x and z, to one that is made of them, y.      *)
(***************************************************************************)
EXTENDS Strided, FiniteSetsExt

CONSTANTS Handles,     \* the user's variables
          Void,        \* what an unset variable refers to
          Values,      \* the scalars a user writes
          Slices       \* lists of accessors a user passes

VARIABLE ten           \* ten[h]: the array of h, or Void

Python == INSTANCE SlicedArray WITH obj <- ten, arr <- ten, SlicePairs <- {}

Broken == [legs |-> <<>>, diag |-> FALSE, cells |-> <<>>, elems |-> <<>>]

-----------------------------------------------------------------------------
Shape(legs) == [j \in 1..Len(legs) |-> legs[j].dim]

\* The axes that the cells are given along.
Axes(x) ==
  IF x.legs = <<>> THEN <<1>>
  ELSE IF x.diag THEN <<x.legs[1].dim>> ELSE Shape(x.legs)

\* The elements of x as an array of its own.
Full(x) ==
  IF ~x.diag \/ x.legs = <<>> THEN x.elems
  ELSE LET n == Len(x.elems)
       IN [k \in 1..(n * n) |-> IF (k - 1) \div n = (k - 1) % n
                                THEN x.elems[((k - 1) % n) + 1] ELSE 0]

At(x, loc) == Full(x)[1 + Location(Shape(x.legs), loc)]

\* F of the value of s: TLC works that out once, however often F uses it.
Once(F(_), s) == CHOOSE t \in {F(u) : u \in {s}} : TRUE

\* y has these legs, and its element at a locator is F of it.
Tabled(y, legs, F(_)) ==
  LET filled(full, shape) ==
        /\ Len(full) = Prod(shape)
        /\ \A n \in 1..Len(full) : \E loc \in {Locator(shape, n - 1)} : full[n] = F(loc)
  IN y.legs = legs /\ \E full \in {Full(y)} : filled(full, Shape(legs))

Labels(x) == [j \in 1..Len(x.legs) |-> x.legs[j].label]

\* Legs as an array has them that is given none: labelled by their places.
DefaultLegs(shape) ==
  [j \in 1..Len(shape) |-> [label |-> j - 1, type |-> 0, dim |-> shape[j]]]

Intact(B, h) == B[h] \notin {Void, Broken}

\* The array of h in B has cells no other array has.
Own(B, h) ==
  /\ Intact(B, h)
  /\ IsInjective(B[h].cells)
  /\ \A g \in Handles \ {h} : Intact(B, g) => Range(B[g].cells) \cap Range(B[h].cells) = {}

-----------------------------------------------------------------------------
(* Arrays made of arrays.                                                  *)

\* y is x with other labels; with the directions turned; with directions.
Relabelled(x, y) ==
  /\ IsInjective(Labels(y)) /\ Len(y.legs) = Len(x.legs)
  /\ y = [x EXCEPT !.legs = [j \in 1..Len(@) |-> [@[j] EXCEPT !.label = y.legs[j].label]]]

Turned(x, y) ==
  y = [x EXCEPT !.legs = [j \in 1..Len(@) |-> [@[j] EXCEPT !.type = -@]]]

Tagged(x, y) ==
  \E r \in 0..Len(x.legs) :
    y = [x EXCEPT !.legs = [j \in 1..Len(@) |->
                              [@[j] EXCEPT !.type = IF j <= r THEN -1 ELSE 1]]]

\* x with its legs in the order p; a diagonal has one entry for both of its legs.
Moved(x, p) ==
  IF x.diag THEN [x EXCEPT !.legs = Compose(@, p)]
  ELSE [x EXCEPT !.legs  = Compose(@, p),
                 !.cells = MoveMemory(@, Shape(x.legs), p, 0),
                 !.elems = MoveMemory(@, Shape(x.legs), p, 0)]

Transposed(x, y) ==
  /\ Len(y.legs) = Len(x.legs)
  /\ \E p \in Perms(Len(x.legs)) : y.legs = Compose(x.legs, p) /\ y = Moved(x, p)

\* y takes the cells of x for an array of rank 1, or its diagonal, or for one of x's
\* shape, if it is not diagonal.
Wrapped(x, y) ==
  /\ y.cells = x.cells /\ y.elems = x.elems
  /\ y.legs = DefaultLegs(IF y.diag THEN Axes(x) \o Axes(x) ELSE Axes(x))

\* The array w, of which y takes the legs, with the cells of x.
Given(w, x, y) ==
  Axes(x) = Axes(w) /\ y = [w EXCEPT !.cells = x.cells, !.elems = x.elems]

\* y has these legs over the elements of x.
Relegged(x, y, legs) ==
  y.legs = legs /\ ~y.diag /\ y.elems = Full(x) /\ Prod(Shape(legs)) = Len(y.elems)

\* Any legs that hold as many elements, or some of x's, side by side, as one: on the
\* cells of x unless y has its own.
Reshaped(x, y, own) ==
  /\ Relegged(x, y, DefaultLegs(Shape(y.legs)))
  /\ own \/ y.cells = x.cells

Fused(legs, at, n) ==
  SubSeq(legs, 1, at - 1)
    \o <<[legs[at] EXCEPT !.dim = Prod(Shape(SubSeq(legs, at, at + n - 1)))]>>
    \o SubSeq(legs, at + n, Len(legs))

Combined(x, y, own) ==
  /\ ~x.diag /\ Len(y.legs) < Len(x.legs)
  /\ \E p \in Perms(Len(x.legs)), at \in 1..Len(y.legs) :
       /\ y.legs = Fused(Compose(x.legs, p), at, Len(x.legs) - Len(y.legs) + 1)
       /\ \E m \in {Moved(x, p)} : Relegged(m, y, y.legs) /\ (own \/ y.cells = m.cells)

Dense(x, y) == Relegged(x, y, x.legs)

\* y is x summed over the legs i and j together.
Rest(rank, S) == SelectSeq(Identity(rank), LAMBDA i : i \notin S)

\* The locator with the entries of loc on the legs rest and those of sum on the
\* legs inner.
Spread(rest, loc, inner, sum) ==
  [i \in 1..(Len(rest) + Len(inner)) |->
     IF \E n \in 1..Len(rest) : rest[n] = i
     THEN loc[CHOOSE n \in 1..Len(rest) : rest[n] = i]
     ELSE sum[CHOOSE n \in 1..Len(inner) : inner[n] = i]]

Traced(x, y) ==
  \E i, j \in 1..Len(x.legs) :
    /\ i < j /\ x.legs[i].dim = x.legs[j].dim
    /\ LET rest == Rest(Len(x.legs), {i, j})
       IN Tabled(y, Compose(x.legs, rest),
                 LAMBDA loc : MapThenSumSet(
                   LAMBDA d : At(x, Spread(rest, loc, <<i, j>>, <<d, d>>)),
                   0..(x.legs[i].dim - 1)))

\* y is x up to some index on one leg; a diagonal, on both.
Truncated(x, y) ==
  LET cut(j, dim) == [k \in 1..Len(x.legs) |->
                        IF k = j \/ x.diag THEN [x.legs[k] EXCEPT !.dim = dim] ELSE x.legs[k]]
  IN /\ Len(y.legs) = Len(x.legs) /\ y.diag = x.diag
     /\ \E j \in 1..Len(x.legs) :
          /\ y.legs[j].dim < x.legs[j].dim
          /\ Tabled(y, cut(j, y.legs[j].dim), LAMBDA loc : At(x, loc))

\* y is x and z summed over the legs with a label in common, their product where
\* there is none; directions, where there are any, are opposite.
Contracted(x, z, y) ==
  LET c == SelectSeq(Identity(Len(x.legs)), LAMBDA i : x.legs[i].label \in Range(Labels(z)))
      d == [n \in 1..Len(c) |->
              CHOOSE j \in 1..Len(z.legs) : z.legs[j].label = x.legs[c[n]].label]
      freeL == Rest(Len(x.legs), Range(c))
      freeR == Rest(Len(z.legs), Range(d))
      inner == Shape(Compose(x.legs, c))
      left(loc)  == SubSeq(loc, 1, Len(freeL))
      right(loc) == SubSeq(loc, Len(freeL) + 1, Len(loc))
      term(loc, sum) == At(x, Spread(freeL, left(loc), c, sum))
                          * At(z, Spread(freeR, right(loc), d, sum))
  IN /\ \A n \in 1..Len(c) : /\ x.legs[c[n]].dim = z.legs[d[n]].dim
                             /\ x.legs[c[n]].type = -z.legs[d[n]].type
     /\ Tabled(y, Compose(x.legs, freeL) \o Compose(z.legs, freeR),
               LAMBDA loc : MapThenSumSet(LAMBDA n : Once(LAMBDA s : term(loc, s), Locator(inner, n)),
                                          0..(Prod(inner) - 1)))

\* y is a slice of x, as Python takes it.
AsArray(x) == [shape |-> Shape(x.legs), elems |-> x.elems]

Sliced(x, y) ==
  \E accs \in Slices :
    /\ Python!Valid(Shape(x.legs), accs)
    /\ \E s \in {Python!SliceOf(AsArray(x), accs)} :
         Relegged([x EXCEPT !.elems = s.elems], y, DefaultLegs(s.shape))

\* y has the legs of w and the elements of x.
Refilled(w, x, y) ==
  /\ Axes(x) = Axes(w)
  /\ y.legs = w.legs /\ y.diag = w.diag /\ y.elems = x.elems

-----------------------------------------------------------------------------
(* One variable is assigned or changed and no other array is.              *)

IsNew(y) == y.elems = [n \in 1..Prod(Axes(y)) |-> 0] /\ IsInjective(Labels(y))

\* y shares the cells of x.
ViewOf(x, y) ==
  \/ Relabelled(x, y) \/ Turned(x, y) \/ Tagged(x, y) \/ Transposed(x, y) \/ Wrapped(x, y)

CopyOf(x, y) ==
  \/ Refilled(x, x, y) \/ Dense(x, y) \/ Traced(x, y) \/ Truncated(x, y)
  \/ ~x.diag /\ Sliced(x, y)

Assigned(h, A, B) ==
  /\ \A g \in Handles \ {h} : B[g] = A[g]
  /\ B[h] # Void
  /\ \/ B[h] = Broken
     \/ Own(B, h) /\ IsNew(B[h])
     \/ \E g \in {f \in Handles : Intact(A, f)} :
          \/ ViewOf(A[g], B[h])
          \/ Reshaped(A[g], B[h], Own(B, h))
          \/ Combined(A[g], B[h], Own(B, h))
          \/ Intact(A, h) /\ Given(A[h], A[g], B[h])
          \/ Own(B, h) /\ \/ CopyOf(A[g], B[h])
                          \/ Intact(A, h) /\ Refilled(A[h], A[g], B[h])
                          \/ \E f \in Handles : Intact(A, f) /\ Contracted(A[f], A[g], B[h])

-----------------------------------------------------------------------------
(* Elements are written: every array that has one of the cells reads it    *)
(* there.                                                                  *)

Written(A, B, h, e) ==
  \A g \in Handles :
    IF ~Intact(A, g) THEN B[g] = A[g]
    ELSE B[g] = [A[g] EXCEPT !.elems = [m \in 1..Len(@) |->
                   IF A[g].cells[m] \in Range(A[h].cells)
                   THEN e[CHOOSE n \in 1..Len(e) : A[h].cells[n] = A[g].cells[m]]
                   ELSE @[m]]]

Sum(x, z) ==
  [n \in 1..Len(x.elems) |-> x.elems[n] + z.elems[IF Len(z.elems) = 1 THEN 1 ELSE n]]

Wrote(h, A, B) ==
  LET e == A[h].elems
  IN \/ \E v \in Values, n \in 1..Len(e) : Written(A, B, h, [e EXCEPT ![n] = v])
     \/ \E g \in {f \in Handles : Intact(A, f)} :
          \/ /\ Axes(A[g]) \in {<<1>>, Axes(A[h])}
             /\ Written(A, B, h, Sum(A[h], A[g]))
          \/ \E accs \in Slices :
               LET shape  == Shape(A[h].legs)
                   places == Python!SlicePlaces(shape, accs)
               IN /\ ~A[h].diag /\ Python!Valid(shape, accs)
                  /\ Axes(A[g]) = Python!SliceShape(shape, accs) \/ Len(A[g].elems) = 1
                  /\ Written(A, B, h, Python!Replaced(e, places, Python!Spread(A[g], places)))

(* Cells.                                                                  *)

\* The arrays G get other cells, those they had in common too, and v is added to
\* their elements.
Resettled(A, B, G, v) ==
  /\ \A g \in G : B[g] = [A[g] EXCEPT !.cells = B[g].cells,
                                      !.elems = [n \in 1..Len(@) |-> @[n] + v]]
  /\ \A g \in Handles \ G : B[g] = A[g]
  /\ \A g, f \in G : \A m \in 1..Len(A[g].cells), n \in 1..Len(A[f].cells) :
       (A[g].cells[m] = A[f].cells[n]) = (B[g].cells[m] = B[f].cells[n])
  /\ \A g \in G, f \in Handles \ G :
       Intact(A, f) => Range(B[g].cells) \cap Range(B[f].cells) = {}

Together(A, S) == SUBSET {g \in S : Intact(A, g)}

\* The array of h moves alone or with some that share its cells; a contraction that
\* is assigned to h may move the arrays it is made of.
Moves(h, A, B) ==
  \/ \E G \in Together(A, Handles), v \in Values \cup {0} : h \in G /\ Resettled(A, B, G, v)
  \/ \E f, g \in {k \in Handles : Intact(A, k)} :
       /\ Own(B, h) /\ Contracted(A[f], A[g], B[h])
       /\ \E G \in Together(A, Handles \ {h}) : Resettled(A, [B EXCEPT ![h] = A[h]], G, 0)

-----------------------------------------------------------------------------
Init == ten = [h \in Handles |-> Void]

Next ==
  \E A \in {ten} : \E B \in {ten'} : \E h \in Handles :
    \/ Assigned(h, A, B)
    \/ Intact(A, h) /\ Wrote(h, A, B)
    \/ Moves(h, A, B)

Spec == Init /\ [][Next]_ten
=============================================================================
