------------------------------ MODULE Strided ------------------------------
(***************************************************************************)
(* The index arithmetic every tensor of the library rests on: row-major    *)
(* locations, the permutation of a shape by a mapper, and the kernel that  *)
(* moves the elements of a permuted tensor to their row-major places       *)
(* (MoveMemoryCpu).                                                        *)
(*                                                                         *)
(* Axes are numbered from 1 (the code: from 0); locators and locations     *)
(* keep the code's numbering from 0, so the element at location k of a     *)
(* buffer mem is mem[k + 1].                                               *)
(***************************************************************************)
EXTENDS Integers, Sequences, SequencesExt

\* vec_range(n): the identity mapper of rank n.
Identity(n) == [i \in 1..n |-> i]

\* The permutations of 1..n, as sequences.
Perms(n) == {p \in [1..n -> 1..n] : \A i, j \in 1..n : p[i] = p[j] => i = j}

\* vec_map(in, mapper): out[i] = in[mapper[i]].
Compose(s, m) == [i \in 1..Len(m) |-> s[m[i]]]

\* What vec_erase leaves of a list of axes: the entries of s but those in S, in
\* their order.
Erased(s, S) ==
  LET e[k \in 0..Len(s)] ==
        IF k = 0 THEN <<>> ELSE IF s[k] \in S THEN e[k - 1] ELSE Append(e[k - 1], s[k])
  IN e[Len(s)]

\* The inverse map after the first n steps of permute's loop
\* inv[m[i]] = i, on the map inv.
Scattered(inv, m, n) ==
  [k \in 1..Len(inv) |->
     IF \E i \in 1..n : m[i] = k THEN CHOOSE i \in 1..n : m[i] = k ELSE inv[k]]

\* The number of elements of a tensor of this shape.
Prod(shape) ==
  LET p[i \in 0..Len(shape)] == IF i = 0 THEN 1 ELSE p[i - 1] * shape[i]
  IN p[Len(shape)]

\* cartesian2c: the row-major location of locator c.
Location(shape, c) ==
  LET loc[i \in 0..Len(shape)] ==
        IF i = 0 THEN 0 ELSE loc[i - 1] * shape[i] + c[i]
  IN loc[Len(shape)]

\* c2cartesian: the locator of row-major location k.
Locator(shape, k) ==
  LET accu[i \in 1..Len(shape)] ==
        IF i = Len(shape) THEN 1 ELSE accu[i + 1] * shape[i + 1]
  IN [i \in 1..Len(shape) |-> (k \div accu[i]) % shape[i]]

(***************************************************************************)
(* MoveMemoryCpu: the element of mem at location n, in a buffer of shape   *)
(* oldShape, is scattered to the location its permuted locator has in the  *)
(* permuted shape.  The result is the fresh buffer des, of the capacity of *)
(* mem; what the loop does not write keeps malloc's contents, raw.         *)
(***************************************************************************)
MoveMemory(mem, oldShape, mapper, raw) ==
  LET newShape == Compose(oldShape, mapper)
      places   == [n \in 1..Prod(oldShape) |->
                     Location(newShape,
                              Compose(Locator(oldShape, n - 1), mapper)) + 1]
  IN [k \in 1..Len(mem) |->
        IF \E n \in 1..Len(places) : places[n] = k
        THEN mem[CHOOSE n \in 1..Len(places) : places[n] = k]
        ELSE raw]
=============================================================================
