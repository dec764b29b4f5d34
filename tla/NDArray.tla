------------------------------ MODULE NDArray ------------------------------
(***************************************************************************)
(* What a Tensor promises its user: a shape and, in row-major order, the   *)
(* cells of its elements with what they hold.  Arrays share cells as       *)
(* numpy's views do, which is how                                          *)
(* docs/source/guide/basic_obj/Tensor_2_manip.rst explains permute; how    *)
(* elements lie in memory, and whether an array is contiguous, "does not   *)
(* exist" here.  A call that fails leaves its own array broken, until it   *)
(* is given a shape again, and every other one alone.                      *)
(*                                                                         *)
(* The operators below relate A, the arrays before a step, to B, those     *)
(* after it.                                                               *)
(***************************************************************************)
EXTENDS Strided, FiniteSets

CONSTANTS Handles,     \* the user's Tensor variables
          Void,        \* what an unset variable refers to
          Values       \* the scalars a user writes

VARIABLES obj,         \* obj[h]: the array h refers to
          arr          \* arr[i]: the shape, cells and elements of array i

vars == <<obj, arr>>

Broken == [shape |-> <<>>, cells |-> <<>>, elems |-> <<>>]

Init == obj = [h \in Handles |-> Void] /\ DOMAIN arr = {}

-----------------------------------------------------------------------------
Shared(x, y) == Range(x.cells) \cap Range(y.cells)

\* Array i of B has cells no other array has.
Own(B, i) ==
  /\ IsInjective(B[i].cells)
  /\ \A j \in DOMAIN B \ {i} : Shared(B[j], B[i]) = {}

\* Array y is x with its axes permuted by p.
Transposed(x, y, p) ==
  /\ y.shape = Compose(x.shape, p)
  /\ Len(y.cells) = Len(x.cells)
  /\ \A n \in 1..Len(x.cells) :
       LET m == 1 + Location(y.shape, Compose(Locator(x.shape, n - 1), p))
       IN y.cells[m] = x.cells[n] /\ y.elems[m] = x.elems[n]

\* Array i of B has the elements of array j of A: in other places of the shape,
\* under another shape, or copied to cells of its own.
Arranged(A, B, i, j) ==
  /\ A[j] # Broken
  /\ B[i] # Broken
  /\ \/ /\ B[i].elems = A[j].elems
        /\ B[i].cells = A[j].cells \/ Own(B, i)
        /\ Prod(B[i].shape) = Len(B[i].cells)
     \/ \E p \in Perms(Len(A[j].shape)) : Transposed(A[j], B[i], p)

\* Array i of B is a new one: zeros, or 0, 1, 2, ...
IsNew(B, i) ==
  /\ Own(B, i)
  /\ LET e == B[i].elems IN \/ \A n \in 1..Len(e) : e[n] = 0
                            \/ \A n \in 1..Len(e) : e[n] = n - 1

\* Array i of B is rank 1, on the cells of array j in their order in memory.
Flat(A, B, i, j) ==
  /\ B[i].shape = <<Len(A[j].cells)>>
  /\ Len(B[i].cells) = Len(A[j].cells)
  /\ \A n \in 1..Len(A[j].cells) :
       \E m \in 1..Len(B[i].cells) : /\ B[i].cells[m] = A[j].cells[n]
                                     /\ B[i].elems[m] = A[j].elems[n]

\* Array i has one more entry of its first axis, with the elements e.
Appended(A, B, i, e) ==
  /\ A[i].shape # <<>>
  /\ B[i].shape = [A[i].shape EXCEPT ![1] = @ + 1]
  /\ B[i].elems = A[i].elems \o e
  /\ Own(B, i)

\* The elements of array i become e; every array that has one of its cells
\* reads it there.
Written(A, B, i, e) ==
  /\ B[i].elems = e
  /\ \A j \in DOMAIN B :
       \A m \in 1..Len(A[j].cells) :
          LET c == A[j].cells[m]
          IN B[j].elems[m] = IF c \in Range(A[i].cells)
                             THEN e[CHOOSE n \in 1..Len(e) : A[i].cells[n] = c]
                             ELSE A[j].elems[m]

\* The elements of x with those of y added.
Sum(x, y) ==
  [n \in 1..Len(x.elems) |->
     x.elems[n] + y.elems[IF y.shape = <<1>> THEN 1 ELSE n]]

-----------------------------------------------------------------------------
\* Handle h is assigned, to an array there was or to a new one.
Assigned(h, A, B) ==
  LET i == obj'[h]
  IN /\ obj' = [obj EXCEPT ![h] = i]
     /\ \A j \in DOMAIN B \ {i} : B[j] = A[j]
     /\ IF i \in DOMAIN A THEN B[i] = A[i]
        ELSE \/ IsNew(B, i)
             \/ \E j \in DOMAIN A : Arranged(A, B, i, j) \/ Flat(A, B, i, j)

\* The array of h is changed: given another layout, broken, given a shape again,
\* given cells of its own for a sum with a scalar, or extended: by a
\* scalar, by an array, or by the elements of one in their order in memory.
Changed(h, A, B) ==
  LET i == obj[h]
  IN /\ obj' = obj
     /\ \A j \in DOMAIN B \ {i} : B[j] = A[j]
     /\ \/ Arranged(A, B, i, i)
        \/ B[i] = Broken
        \/ A[i] = Broken
        \/ \E v \in Values :
             \/ /\ Own(B, i)
                /\ B[i].shape = A[i].shape
                /\ B[i].elems = [n \in 1..Len(A[i].elems) |-> A[i].elems[n] + v]
             \/ Appended(A, B, i, <<v>>)
        \/ \E j \in DOMAIN A \ {i} :
             \/ /\ A[j].shape = Tail(A[i].shape)
                /\ Appended(A, B, i, A[j].elems)
             \/ /\ Tail(A[i].shape) = <<Len(A[j].elems)>>
                /\ \E p \in Perms(Len(A[j].elems)) :
                     Appended(A, B, i, Compose(A[j].elems, p))

\* Elements of the array of h are written: one, all, or all by a sum.
Wrote(h, A, B) ==
  LET i == obj[h]
      e == A[i].elems
  IN /\ obj' = obj
     /\ \A j \in DOMAIN B : /\ B[j].shape = A[j].shape
                            /\ B[j].cells = A[j].cells
     /\ \/ \E v \in Values :
             \/ Written(A, B, i, [n \in 1..Len(e) |-> v])
             \/ \E k \in 1..Len(e) : Written(A, B, i, [e EXCEPT ![k] = v])
        \/ \E j \in DOMAIN A : /\ A[j].shape \in {<<1>>, A[i].shape}
                               /\ Written(A, B, i, Sum(A[i], A[j]))

Next == LET A == arr
            B == arr'
        IN \E h \in Handles :
             \/ Assigned(h, A, B)
             \/ obj[h] # Void /\ (Changed(h, A, B) \/ Wrote(h, A, B))

Spec == Init /\ [][Next]_vars
=============================================================================
