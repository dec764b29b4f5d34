---------------------------- MODULE SlicedArray ----------------------------
(***************************************************************************)
(* NDArray with slices, which are those of Python: one slice, index or     *)
(* list of indices per axis, in the order of the array's own axes; an axis *)
(* with a single index is removed, lists of two axes pick every pair.      *)
(* Reading a slice gives a new array.  Writing one puts the elements of    *)
(* the other array in its cells and touches no other cell.                 *)
(*                                                                         *)
(* Where the array written and the array read share cells, every cell      *)
(* written holds one of the elements read, but nothing says which.         *)
(***************************************************************************)
EXTENDS NDArray, Accessor, FiniteSetsExt

CONSTANTS Slices,      \* lists of accessors a user passes
          SlicePairs   \* lists passed together to T(...) = U(...)

-----------------------------------------------------------------------------
Normal(i, dim) == IF i < 0 THEN i + dim ELSE i

\* The indices of start:stop:step on an axis of dimension dim, in their order.
PythonRange(start, stop, step, dim) ==
  LET axis  == [k \in 1..dim |-> IF step > 0 THEN k - 1 ELSE dim - k]
      within(i) == IF step > 0 THEN start <= i /\ i < stop ELSE stop < i /\ i <= start
  IN SelectSeq(axis, LAMBDA i : /\ within(i)
                                /\ (i - start) % (IF step > 0 THEN step ELSE -step) = 0)

Indices(acc, dim) ==
  CASE acc.type = "All"    -> PythonRange(0, dim, 1, dim)
    [] acc.type = "Singl"  -> <<Normal(acc.loc, dim)>>
    [] acc.type = "list"   -> [k \in DOMAIN acc.idx |-> Normal(acc.idx[k], dim)]
    [] acc.type = "Range"  -> PythonRange(Normal(acc.min, dim), Normal(acc.max, dim),
                                          acc.step, dim)
    [] acc.type = "Tilend" -> PythonRange(Normal(acc.min, dim),
                                          IF acc.step < 0 THEN -1 ELSE dim,
                                          acc.step, dim)
    [] acc.type = "Step"   -> PythonRange(IF acc.step < 0 THEN dim - 1 ELSE 0,
                                          IF acc.step < 0 THEN -1 ELSE dim,
                                          acc.step, dim)

\* For every axis of an array of this shape, the indices picked; the axes for
\* which nothing is said are taken whole.
Picked(shape, accs) ==
  [k \in 1..Len(shape) |-> Indices(IF k <= Len(accs) THEN accs[k] ELSE All, shape[k])]

Valid(shape, accs) ==
  /\ Len(accs) <= Len(shape)
  /\ \A k \in 1..Len(accs) :
       /\ Indices(accs[k], shape[k]) # <<>>
       /\ Range(Indices(accs[k], shape[k])) \subseteq 0..shape[k] - 1

\* The shape of a slice; of a single element, (1).
SliceShape(shape, accs) ==
  LET axes == SelectSeq(Identity(Len(shape)),
                        LAMBDA k : k > Len(accs) \/ accs[k].type # "Singl")
      picked == Picked(shape, accs)
  IN IF axes = <<>> THEN <<1>> ELSE [k \in DOMAIN axes |-> Len(picked[axes[k]])]

\* The places, in an array of this shape, of the elements of a slice.
SlicePlaces(shape, accs) ==
  LET picked == Picked(shape, accs)
      taken  == [k \in 1..Len(shape) |-> Len(picked[k])]
      Place(c) == Location(shape, [k \in 1..Len(shape) |-> picked[k][c[k] + 1]])
  IN [n \in 1..Prod(taken) |-> Place(Locator(taken, n - 1)) + 1]

\* The slice of an array: its shape and elements.
SliceOf(x, accs) ==
  [shape |-> SliceShape(x.shape, accs),
   elems |-> Compose(x.elems, SlicePlaces(x.shape, accs))]

\* The elements e with new ones at these places; the last one counts where a
\* place is listed twice.
Replaced(e, places, new) ==
  [m \in 1..Len(e) |->
     LET at == {n \in 1..Len(places) : places[n] = m}
     IN IF at = {} THEN e[m] ELSE new[Max(at)]]

\* What a slice of this shape is given by y: its elements, or its only one
\* everywhere.
Spread(y, places) ==
  IF Len(y.elems) = 1 THEN [n \in 1..Len(places) |-> y.elems[1]] ELSE y.elems

\* y has the shape of the slice, or a single element.
Suits(y, shape) == Len(y.elems) = 1 \/ y.shape = shape

\* The elements of array i at these places are replaced.
Put(A, B, i, places, new) ==
  \E e \in {Replaced(A[i].elems, places, new)} :
     B[i].elems = e /\ Written(A, B, i, e)

\* They are replaced by some of y's.
Mixed(A, B, i, places, y) ==
  \E e \in {B[i].elems} :
     /\ \A m \in 1..Len(e) : IF m \in Range(places) THEN e[m] \in Range(y.elems)
                                                    ELSE e[m] = A[i].elems[m]
     /\ Written(A, B, i, e)

-----------------------------------------------------------------------------
\* Handle h is assigned a slice, an array of its own.
GotSlice(h, A, B) ==
  LET i == obj'[h]
  IN /\ obj' = [obj EXCEPT ![h] = i]
     /\ \A j \in DOMAIN B \ {i} : B[j] = A[j]
     /\ i \notin DOMAIN A
     /\ Own(B, i)
     /\ \E j \in DOMAIN A, accs \in Slices :
          /\ Valid(A[j].shape, accs)
          /\ LET s == SliceOf(A[j], accs)
             IN B[i].shape = s.shape /\ B[i].elems = s.elems

\* A slice of the array of h is written: by a value, by its own elements with a
\* value added, by an array, or by a slice of one.
WroteSlice(h, A, B) ==
  LET i == obj[h]
      x == A[i]
  IN /\ obj' = obj
     /\ \A j \in DOMAIN B : B[j].shape = A[j].shape /\ B[j].cells = A[j].cells
     /\ \E accs \in Slices :
          /\ Valid(x.shape, accs)
          /\ \E places \in {SlicePlaces(x.shape, accs)} :
               \/ \E v \in Values :
                    \/ Put(A, B, i, places, [n \in 1..Len(places) |-> v])
                    \/ Put(A, B, i, places,
                           [n \in 1..Len(places) |-> x.elems[places[n]] + v])
               \/ \E j \in DOMAIN A :
                    /\ A[j] # Broken
                    /\ Suits(A[j], SliceShape(x.shape, accs))
                    /\ \/ Put(A, B, i, places, Spread(A[j], places))
                       \/ Shared(x, A[j]) # {} /\ Mixed(A, B, i, places, A[j])
               \/ \E j \in DOMAIN A, bccs \in Slices :
                    /\ <<accs, bccs>> \in SlicePairs
                    /\ Valid(A[j].shape, bccs)
                    /\ \E y \in {SliceOf(A[j], bccs)} :
                         /\ Suits(y, SliceShape(x.shape, accs))
                         /\ Put(A, B, i, places, Spread(y, places))

SliceNext ==
  \E A \in {arr}, B \in {arr'}, h \in Handles :
     \/ GotSlice(h, A, B)
     \/ obj[h] # Void /\ A[obj[h]] # Broken /\ WroteSlice(h, A, B)

SlicedSpec == Init /\ [][Next \/ SliceNext]_vars
=============================================================================
