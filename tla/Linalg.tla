------------------------------- MODULE Linalg -------------------------------
(***************************************************************************)
(* What the functions of a Tensor and of linalg that UniTensors are        *)
(* computed with return.  A Tensor is [shape, data] here, its elements in  *)
(* row-major order; the layout in memory is the module Tensor's.           *)
(***************************************************************************)
EXTENDS Strided

Zeros(shape) == [shape |-> shape, data |-> [n \in 1..Prod(shape) |-> 0]]

\* A DenseUniTensor of one element is written as a tensor without legs.
Number(x) == [shape |-> <<1>>, data |-> <<x>>]

Permuted(t, p) ==
  [shape |-> Compose(t.shape, p), data |-> MoveMemory(t.data, t.shape, p, 0)]

Reshaped(t, shape) == [t EXCEPT !.shape = shape]

\* F of the value of s: TLC works that out once, however often F uses it.
Once(F(_), s) == CHOOSE t \in {F(u) : u \in {s}} : TRUE

Fold(Op(_, _), base, s) == FoldLeft(LAMBDA t, x : Once(LAMBDA u : Op(u, x), t), base, s)

SumOver(lo, hi, F(_)) ==
  LET s[n \in (lo - 1)..hi] == IF n < lo THEN 0 ELSE s[n - 1] + F(n) IN s[hi]

Matmul(l, r) ==
  LET cols == r.shape[2]
      elem(n) == LET i == (n - 1) \div cols
                     j == (n - 1) % cols
                 IN SumOver(0, r.shape[1] - 1,
                            LAMBDA c : l.data[i * l.shape[2] + c + 1]
                                         * r.data[c * cols + j + 1])
  IN [shape |-> <<l.shape[1], cols>>,
      data  |-> [n \in 1..(l.shape[1] * cols) |-> elem(n)]]

\* linalg::Kron of l, with axes of 1 appended, and r.
Kron(l, r) ==
  LET size == Len(r.data)
  IN [shape |-> l.shape \o r.shape,
      data  |-> [n \in 1..(Len(l.data) * size) |->
                   l.data[((n - 1) \div size) + 1] * r.data[((n - 1) % size) + 1]]]

\* linalg::Kron of t, with axes of 1 appended, and itself.
KronSquare(t) ==
  LET shape == [k \in DOMAIN t.shape |-> t.shape[k] * t.shape[k]]
      left(loc)  == [k \in DOMAIN loc |-> loc[k] \div t.shape[k]]
      right(loc) == [k \in DOMAIN loc |-> loc[k] % t.shape[k]]
      elem(loc)  == t.data[1 + Location(t.shape, left(loc))]
                      * t.data[1 + Location(t.shape, right(loc))]
  IN [shape |-> shape \o [k \in DOMAIN shape |-> 1],
      data  |-> [n \in 1..Prod(shape) |-> elem(Locator(shape, n - 1))]]

Vectordot(l, r) == SumOver(1, Len(l.data), LAMBDA n : l.data[n] * r.data[n])

Scaled(x, t) == [t EXCEPT !.data = [n \in 1..Len(@) |-> x * @[n]]]

\* linalg::Mul of rank-1 Tensors: one of shape (1) is a number.
Mul(l, r) ==
  IF l.shape = <<1>> THEN Scaled(l.data[1], r)
  ELSE IF r.shape = <<1>> THEN Scaled(r.data[1], l)
  ELSE [l EXCEPT !.data = [n \in 1..Len(@) |-> @[n] * r.data[n]]]

Plus(l, r) == [l EXCEPT !.data = [n \in 1..Len(@) |-> @[n] + r.data[n]]]

\* The axes 1..rank without those in S, in their order.
Others(rank, S) == Erased(Identity(rank), S)

\* Tensor::Trace: the axes i and j are summed over together.
Traced(t, i, j) ==
  LET rest  == Others(Len(t.shape), {i, j})
      shape == Compose(t.shape, rest)
      place(loc, d) == [p \in 1..Len(t.shape) |->
                          IF p \in {i, j} THEN d
                          ELSE loc[CHOOSE r \in 1..Len(rest) : rest[r] = p]]
      elem(n) == SumOver(0, t.shape[i] - 1,
                         LAMBDA d : t.data[1 + Location(t.shape,
                                             place(Locator(shape, n - 1), d))])
  IN [shape |-> shape, data |-> [n \in 1..Prod(shape) |-> elem(n)]]

\* linalg::Directsum with every axis but j shared: r behind l along axis j.
Joined(l, r, j) ==
  LET shape == [l.shape EXCEPT ![j] = @ + r.shape[j]]
      elem(loc) == IF loc[j] < l.shape[j]
                   THEN l.data[1 + Location(l.shape, loc)]
                   ELSE r.data[1 + Location(r.shape,
                                      [loc EXCEPT ![j] = @ - l.shape[j]])]
  IN [shape |-> shape,
      data  |-> [n \in 1..Prod(shape) |-> elem(Locator(shape, n - 1))]]

-----------------------------------------------------------------------------
\* linalg::Diag of a rank-1 Tensor.
Diag(t) ==
  LET n == Len(t.data)
  IN [shape |-> <<n, n>>,
      data  |-> [k \in 1..(n * n) |->
                   IF (k - 1) \div n = (k - 1) % n THEN t.data[((k - 1) % n) + 1] ELSE 0]]

\* linalg::Sum.
SumOf(t) == Number(SumOver(1, Len(t.data), LAMBDA n : t.data[n]))

\* The orders in which Tensordot brings the axes of both: those contracted last on
\* the left and first on the right.
LeftOrder(l, il)  == Others(Len(l.shape), ToSet(il)) \o il
RightOrder(r, ir) == ir \o Others(Len(r.shape), ToSet(ir))

\* Mutant of Tensordot: the axes of the right Tensor stay in their order.
Tensordot_SameOrder(l, r, il, ir) ==
  LET common == Prod(Compose(l.shape, il))
      freeL  == Compose(l.shape, Others(Len(l.shape), ToSet(il)))
      freeR  == Compose(r.shape, Others(Len(r.shape), ToSet(ir)))
      left   == Permuted(l, LeftOrder(l, il))
      right  == r
      m      == Matmul(Reshaped(left, <<Prod(freeL), common>>),
                       Reshaped(right, <<common, Prod(freeR)>>))
      free   == freeL \o freeR
  IN Reshaped(m, IF free = <<>> THEN <<1>> ELSE free)

\* Tensordot over the axes il of l and ir of r: one product of matrices.
Tensordot(l, r, il, ir) ==
  LET common == Prod(Compose(l.shape, il))
      freeL  == Compose(l.shape, Others(Len(l.shape), ToSet(il)))
      freeR  == Compose(r.shape, Others(Len(r.shape), ToSet(ir)))
      left   == Permuted(l, LeftOrder(l, il))
      right  == Permuted(r, RightOrder(r, ir))
      m      == Matmul(Reshaped(left, <<Prod(freeL), common>>),
                       Reshaped(right, <<common, Prod(freeR)>>))
      free   == freeL \o freeR
  IN Reshaped(m, IF free = <<>> THEN <<1>> ELSE free)

\* Matmul_dg: the rows of the matrix r, or the columns of l, each times its entry
\* of the diagonal d.
RowsTimes(d, r) ==
  LET cols == r.shape[2]
  IN [r EXCEPT !.data = [n \in 1..Len(@) |-> d.data[((n - 1) \div cols) + 1] * @[n]]]

ColumnsTimes(l, d) ==
  LET cols == l.shape[2]
  IN [l EXCEPT !.data = [n \in 1..Len(@) |-> @[n] * d.data[((n - 1) % cols) + 1]]]

\* Tensordot_dg: l holds a diagonal if diagL, else r does.  Over both of its axes the
\* diagonal is made dense.
Tensordot_dg(l, r, il, ir, diagL) ==
  LET free(t, i) == Compose(t.shape, Others(Len(t.shape), ToSet(i)))
      n == IF diagL THEN l.shape[1] ELSE r.shape[1]
  IN CASE diagL /\ Len(il) = 1 ->
            LET m == Reshaped(Permuted(r, RightOrder(r, ir)), <<n, Len(r.data) \div n>>)
            IN Reshaped(RowsTimes(l, m), <<n>> \o free(r, ir))
       [] diagL /\ Len(il) # 1 -> Tensordot(Diag(l), r, <<1, 2>>, ir)
       [] ~diagL /\ Len(ir) = 1 ->
            LET m == Reshaped(Permuted(l, LeftOrder(l, il)), <<Len(l.data) \div n, n>>)
            IN Reshaped(ColumnsTimes(m, r), free(l, il) \o <<n>>)
       [] OTHER -> Tensordot(l, Diag(r), il, <<1, 2>>)
=============================================================================
