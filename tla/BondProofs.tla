----------------------------- MODULE BondProofs -----------------------------
(***************************************************************************)
(* What is proved of Bond for every number of handles, of sectors and of   *)
(* symmetries and every argument of Init: the quantum numbers of a bond    *)
(* that no call has damaged are in the range of their symmetries; its      *)
(* fields are as many as each other and of their types, whatever throws;   *)
(* the dimension that combineBond_, _rm_qnum and the loader update by hand *)
(* is the sum of the degeneracies; and all that the calls make of them is  *)
(* what GradedSpace says of the spaces they stand for.                     *)
(***************************************************************************)
EXTENDS Bond, Induction, FiniteSetTheorems, FunctionTheorems

-----------------------------------------------------------------------------
(* The sums of degeneracies, for every number of sectors: what appending,  *)
(* removing, multiplying and grouping sectors makes of the dimension of a  *)
(* bond; and how often each number then occurs: the sectors of a product   *)
(* are matched one to one with pairs of the vectors of its factors.        *)

\* The partial sums of s: the recursion that Total is defined by.
LEMMA Sums ==
  ASSUME NEW s \in Seq(Int)
  PROVE  \E f \in [0..Len(s) -> Int] :
           /\ f[0] = 0
           /\ \A i \in 1..Len(s) : f[i] = f[i - 1] + s[i]
           /\ Total(s) = f[Len(s)]
<1> DEFINE p == CHOOSE p : p = [i \in 0..Len(s) |->
                                  IF i = 0 THEN 0 ELSE p[i - 1] + s[i]]
           step == [i \in 1..Len(s) |-> [v \in Int |-> v + s[i]]]
           n == Len(s)
           V == Int
<1>1. n \in Nat /\ 0 \in V /\ step \in [1..n -> [V -> V]]
  OBVIOUS
<1>2. \A i \in 1..n, v \in V : step[i][v] = v + s[i]
  OBVIOUS
<1> HIDE DEF V, n, step
<1>3. PICK f \in [0..n -> V] : f[0] = 0 /\ \A i \in 1..n : f[i] = step[i][f[i - 1]]
  <2>1. \E f \in [0..n -> V] : Unfolds(f, n, 0, step)
    BY <1>1, Recursion
  <2> QED BY <2>1 DEF Unfolds
<1>4. \A i \in 1..n : f[i] = f[i - 1] + s[i]
  <2>1. SUFFICES ASSUME NEW i \in 1..n PROVE f[i] = f[i - 1] + s[i]
    OBVIOUS
  <2>2. i - 1 \in 0..n
    BY <1>1
  <2>3. f[i - 1] \in V
    BY <2>2
  <2>4. f[i] = step[i][f[i - 1]]
    BY <1>3
  <2>5. step[i][f[i - 1]] = f[i - 1] + s[i]
    BY <1>2, <2>3, Zenon
  <2> QED BY <2>4, <2>5, Zenon
<1>5. f = [i \in 0..Len(s) |-> IF i = 0 THEN 0 ELSE f[i - 1] + s[i]]
  BY <1>1, <1>3, <1>4 DEF n
<1>6. p = [i \in 0..Len(s) |-> IF i = 0 THEN 0 ELSE p[i - 1] + s[i]]
  BY <1>5
<1>7. Total(s) = p[Len(s)]
  BY DEF Total
<1> HIDE DEF p
<1>8. p[0] = 0 /\ \A i \in 1..Len(s) : p[i] = p[i - 1] + s[i]
  <2>1. p[0] = 0
    BY <1>6
  <2>2. ASSUME NEW i \in 1..Len(s) PROVE p[i] = p[i - 1] + s[i]
    <3>1. i \in 0..Len(s) /\ i # 0
      OBVIOUS
    <3> QED BY <1>6, <3>1
  <2> QED BY <2>1, <2>2
<1>9. p \in [0..Len(s) -> Int]
  <2> DEFINE S == {k \in Nat : k <= Len(s) => p[k] \in Int}
  <2>1. 0 \in S
    BY <1>8
  <2>2. \A k \in Nat : k \in S => k + 1 \in S
    BY <1>8
  <2>3. Nat \subseteq S
    <3> HIDE DEF S
    <3> QED BY <2>1, <2>2, NatInduct
  <2> QED BY <1>6, <2>3
<1> QED BY <1>7, <1>8, <1>9

\* The equations of Total as a function of the list.
LEMMA TotalEquations ==
  /\ Total(<<>>) = 0
  /\ \A s \in Seq(Int) : Total(s) \in Int
  /\ \A s \in Seq(Int), x \in Int : Total(Append(s, x)) = Total(s) + x
<1>1. Total(<<>>) = 0
  <2>1. <<>> \in Seq(Int) /\ Len(<<>>) = 0
    OBVIOUS
  <2> QED BY <2>1, Sums
<1>2. \A s \in Seq(Int) : Total(s) \in Int
  <2>1. SUFFICES ASSUME NEW s \in Seq(Int) PROVE Total(s) \in Int
    OBVIOUS
  <2>2. Len(s) \in 0..Len(s)
    OBVIOUS
  <2> QED BY <2>2, Sums
<1>3. ASSUME NEW s \in Seq(Int), NEW x \in Int
      PROVE  Total(Append(s, x)) = Total(s) + x
  <2> DEFINE t == Append(s, x)
             n == Len(s)
  <2>1. /\ t \in Seq(Int) /\ Len(t) = n + 1 /\ n \in Nat
        /\ t[n + 1] = x /\ \A i \in 1..n : t[i] = s[i]
    OBVIOUS
  <2> HIDE DEF t
  <2>2. PICK f \in [0..n -> Int] :
          /\ f[0] = 0
          /\ \A i \in 1..n : f[i] = f[i - 1] + s[i]
          /\ Total(s) = f[n]
    BY Sums
  <2>3. PICK g \in [0..(n + 1) -> Int] :
          /\ g[0] = 0
          /\ \A i \in 1..(n + 1) : g[i] = g[i - 1] + t[i]
          /\ Total(t) = g[n + 1]
    BY <2>1, Sums
  <2> HIDE DEF n
  <2> DEFINE S == {k \in Nat : k <= n => f[k] = g[k]}
  <2>4. 0 \in S
    BY <2>2, <2>3
  <2>5. \A k \in Nat : k \in S => k + 1 \in S
    <3>1. SUFFICES ASSUME NEW k \in Nat, k \in S, k + 1 <= n
                   PROVE  k + 1 \in S
      OBVIOUS
    <3>2. k + 1 \in 1..n /\ k + 1 \in 1..(n + 1) /\ (k + 1) - 1 = k
      BY <2>1, <3>1
    <3>3. f[k] = g[k]
      BY <2>1, <3>1
    <3>4. f[k + 1] = f[k] + s[k + 1] /\ g[k + 1] = g[k] + t[k + 1]
      BY <2>2, <2>3, <3>2
    <3>5. t[k + 1] = s[k + 1]
      BY <2>1, <3>2
    <3> QED BY <3>3, <3>4, <3>5
  <2>6. Nat \subseteq S
    <3> HIDE DEF S
    <3> QED BY <2>4, <2>5, NatInduct
  <2>7. f[n] = g[n]
    BY <2>1, <2>6
  <2>8. g[n + 1] = g[(n + 1) - 1] + t[n + 1] /\ (n + 1) - 1 = n
    BY <2>1, <2>3
  <2> QED BY <2>1, <2>2, <2>3, <2>7, <2>8 DEF t
<1> QED BY <1>1, <1>2, <1>3

\* A sum of naturals.
LEMMA TotalNat ==
  ASSUME NEW s \in Seq(Nat)
  PROVE  Total(s) \in Nat
<1> DEFINE S == {t \in Seq(Nat) : Total(t) \in Nat}
<1>1. \A t \in Seq(Nat) : t \in Seq(Int)
  OBVIOUS
<1>2. <<>> \in S
  BY TotalEquations
<1>3. ASSUME NEW t \in Seq(Nat), NEW x \in Nat, t \in S
      PROVE  Append(t, x) \in S
  <2>1. Total(Append(t, x)) = Total(t) + x
    BY <1>1, TotalEquations
  <2>2. Total(t) + x \in Nat /\ Append(t, x) \in Seq(Nat)
    BY <1>3
  <2> QED BY <2>1, <2>2
<1>4. Seq(Nat) \subseteq S
  <2> HIDE DEF S
  <2> QED BY <1>2, <1>3, ListInduct
<1> QED BY <1>4

\* The sum without one of its terms.
LEMMA TotalRemove ==
  ASSUME NEW s \in Seq(Int), NEW i \in 1..Len(s)
  PROVE  Total(s) = Total(RemoveAt(s, i)) + s[i]
<1> DEFINE S == {t \in Seq(Int) :
                   \A j \in 1..Len(t) : Total(t) = Total(RemoveAt(t, j)) + t[j]}
<1>1. <<>> \in S
  OBVIOUS
<1>2. ASSUME NEW t \in Seq(Int), NEW x \in Int, t \in S
      PROVE  Append(t, x) \in S
  <2> DEFINE u == Append(t, x)
  <2>1. /\ u \in Seq(Int) /\ Len(u) = Len(t) + 1
        /\ \A j \in 1..Len(t) : u[j] = t[j]
        /\ u[Len(t) + 1] = x
    OBVIOUS
  <2>2. Total(u) = Total(t) + x /\ Total(t) \in Int
    BY TotalEquations
  <2>3. RemoveAt(u, Len(t) + 1) = t
    BY RemoveLast
  <2>4. ASSUME NEW j \in 1..Len(t)
        PROVE  Total(u) = Total(RemoveAt(u, j)) + u[j]
    <3> DEFINE p == Total(RemoveAt(t, j))
    <3>1. RemoveAt(t, j) \in Seq(Int)
      BY RemoveAtIs
    <3>2. Total(RemoveAt(u, j)) = p + x /\ p \in Int
      <4>1. RemoveAt(u, j) = Append(RemoveAt(t, j), x)
        BY RemoveInner
      <4> HIDE DEF u
      <4> QED BY <3>1, <4>1, TotalEquations
    <3>3. Total(t) = p + t[j] /\ t[j] \in Int
      BY <1>2
    <3>4. u[j] = t[j]
      BY <2>1
    <3> HIDE DEF p, u
    <3> QED BY <2>2, <3>2, <3>3, <3>4
  <2> HIDE DEF u
  <2>5. \A j \in 1..Len(u) : Total(u) = Total(RemoveAt(u, j)) + u[j]
    <3>1. SUFFICES ASSUME NEW j \in 1..Len(u)
                   PROVE  Total(u) = Total(RemoveAt(u, j)) + u[j]
      OBVIOUS
    <3>2. CASE j = Len(t) + 1
      BY <2>1, <2>2, <2>3, <3>2
    <3>3. CASE j # Len(t) + 1
      BY <2>1, <2>4, <3>3
    <3> QED BY <3>2, <3>3
  <2> QED BY <2>1, <2>5 DEF u
<1>3. Seq(Int) \subseteq S
  <2> HIDE DEF S
  <2> QED BY <1>1, <1>2, ListInduct
<1> QED BY <1>3

\* One term changed.
LEMMA TotalChanged ==
  ASSUME NEW s \in Seq(Int), NEW t \in Seq(Int), Len(t) = Len(s),
         NEW i \in 1..Len(s),
         \A j \in 1..Len(s) : j # i => t[j] = s[j]
  PROVE  Total(t) = Total(s) + (t[i] - s[i])
<1> DEFINE a == RemoveAt(s, i)
           b == RemoveAt(t, i)
<1>1. /\ a \in Seq(Int) /\ Len(a) = Len(s) - 1
      /\ \A j \in 1..(Len(s) - 1) : a[j] = IF j < i THEN s[j] ELSE s[j + 1]
  BY RemoveAtIs
<1>2. /\ b \in Seq(Int) /\ Len(b) = Len(s) - 1
      /\ \A j \in 1..(Len(s) - 1) : b[j] = IF j < i THEN t[j] ELSE t[j + 1]
  <2>1. i \in 1..Len(t)
    OBVIOUS
  <2> QED BY <2>1, RemoveAtIs
<1>3. Total(s) = Total(a) + s[i] /\ Total(t) = Total(b) + t[i]
  BY TotalRemove
<1> HIDE DEF a, b
<1>4. a = b
  <2>1. ASSUME NEW j \in 1..Len(a) PROVE a[j] = b[j]
    <3>1. j \in 1..(Len(s) - 1) /\ j \in 1..Len(s) /\ j + 1 \in 1..Len(s)
      BY <1>1
    <3>2. CASE j < i
      <4>1. a[j] = s[j] /\ b[j] = t[j] /\ j # i
        BY <1>1, <1>2, <3>1, <3>2
      <4> QED BY <3>1, <4>1
    <3>3. CASE ~(j < i)
      <4>1. a[j] = s[j + 1] /\ b[j] = t[j + 1] /\ j + 1 # i
        BY <1>1, <1>2, <3>1, <3>3
      <4> QED BY <3>1, <4>1
    <3> QED BY <3>2, <3>3
  <2> QED BY <1>1, <1>2, <2>1, SeqEqual
<1>5. Total(a) \in Int
  BY <1>1, TotalEquations
<1>6. t[i] \in Int /\ s[i] \in Int
  OBVIOUS
<1> QED BY <1>3, <1>4, <1>5, <1>6

-----------------------------------------------------------------------------
(* Products.                                                               *)

LEMMA Times ==
  (\A x, y \in Nat : x * y \in Nat) /\ (\A x, y \in Int : x * y \in Int)
OBVIOUS

\* The row and the column of the entry d of a table with n columns, which is
\* listed row by row.
LEMMA CellOf ==
  ASSUME NEW r \in Nat, NEW n \in Nat, NEW j \in Nat, j < n
  PROVE  /\ (((r * n + j) + 1) - 1) \div n = r
         /\ (((r * n + j) + 1) - 1) % n = j
<1>1. ((r * n + j) + 1) - 1 = r * n + j
  OBVIOUS
<1>2. (r * n + j) \div n = r /\ (r * n + j) % n = j
  OBVIOUS
<1> QED BY <1>1, <1>2

\* The rows and columns of a table with n columns.
LEMMA Cell ==
  ASSUME NEW m \in Nat, NEW n \in Nat, NEW d \in 1..(m * n)
  PROVE  /\ ((d - 1) \div n) + 1 \in 1..m
         /\ ((d - 1) % n) + 1 \in 1..n
<1>1. n > 0
  OBVIOUS
<1>2. (d - 1) % n \in 0..(n - 1)
  BY <1>1
<1> DEFINE e == (d - 1) \div n
<1>3. e \in Nat /\ n * e <= d - 1
  BY <1>1
<1> HIDE DEF e
<1>4. n * e < m * n
  BY <1>3
<1>5. e < m
  BY <1>1, <1>3, <1>4
<1> QED
  BY <1>2, <1>3, <1>5 DEF e

LEMMA RowBound ==
  ASSUME NEW r \in Nat, NEW m \in Nat, NEW n \in Nat, NEW j \in Nat, r < m, j < n
  PROVE  /\ r * n \in Nat /\ r * n + j \in Nat
         /\ (r * n + j) + 1 <= m * n
<1>1. PICK q \in Nat : m = (r + 1) + q
  <2>1. m - (r + 1) \in Nat /\ m = (r + 1) + (m - (r + 1))
    OBVIOUS
  <2> QED BY <2>1
<1>2. m * n = (r * n + n) + q * n
  BY <1>1
<1>3. r * n \in Nat /\ q * n \in Nat
  OBVIOUS
<1> QED BY <1>2, <1>3

\* The first k entries of a list, and one more.
LEMMA OneMore ==
  ASSUME NEW k \in Nat, NEW e, e \in [1..(k + 1) -> Int]
  PROVE  /\ [d \in 1..k |-> e[d]] \in Seq(Int)
         /\ [d \in 1..(k + 1) |-> e[d]] = Append([d \in 1..k |-> e[d]], e[k + 1])
         /\ Total([d \in 1..(k + 1) |-> e[d]])
              = Total([d \in 1..k |-> e[d]]) + e[k + 1]
<1> DEFINE V == Int
           f == [d \in 1..k |-> e[d]]
           g == [d \in 1..(k + 1) |-> e[d]]
<1>1. \A d \in 1..(k + 1) : e[d] \in V
  OBVIOUS
<1> HIDE DEF V
<1>2. f \in Seq(V) /\ e[k + 1] \in V
  BY <1>1
<1>3. g \in Seq(V) /\ Len(g) = k + 1
  BY <1>1
<1>4. Append(f, e[k + 1]) \in Seq(V) /\ Len(Append(f, e[k + 1])) = k + 1
  BY <1>2
<1>5. \A d \in 1..(k + 1) : g[d] = Append(f, e[k + 1])[d]
  BY <1>2
<1>6. g = Append(f, e[k + 1])
  <2> HIDE DEF g
  <2> QED BY <1>3, <1>4, <1>5, SeqEqual
<1> HIDE DEF f, g
<1>7. Total(Append(f, e[k + 1])) = Total(f) + e[k + 1]
  BY <1>2, TotalEquations DEF V
<1> QED BY <1>2, <1>6, <1>7 DEF f, g, V

\* All the products of two lists, row by row.
Table(a, b) ==
  [d \in 1..(Len(a) * Len(b)) |->
     a[((d - 1) \div Len(b)) + 1] * b[((d - 1) % Len(b)) + 1]]

LEMMA TableNat ==
  ASSUME NEW a, a \in Seq(Nat), NEW b, b \in Seq(Nat)
  PROVE  Table(a, b) \in Seq(Nat) /\ Len(Table(a, b)) = Len(a) * Len(b)
<1> DEFINE m == Len(a)
           n == Len(b)
           cell(d) == a[((d - 1) \div n) + 1] * b[((d - 1) % n) + 1]
<1>1. m \in Nat /\ n \in Nat
  OBVIOUS
<1>2. (\A i \in 1..m : a[i] \in Nat) /\ (\A j \in 1..n : b[j] \in Nat)
  OBVIOUS
<1>3. Table(a, b) = [d \in 1..(m * n) |-> cell(d)]
  BY DEF Table
<1> HIDE DEF m, n
<1>4. ASSUME NEW d \in 1..(m * n) PROVE cell(d) \in Nat
  <2> DEFINE u == a[((d - 1) \div n) + 1]
             v == b[((d - 1) % n) + 1]
  <2>1. ((d - 1) \div n) + 1 \in 1..m /\ ((d - 1) % n) + 1 \in 1..n
    BY <1>1, Cell
  <2>2. u \in Nat /\ v \in Nat
    BY <1>2, <2>1
  <2> HIDE DEF u, v
  <2>3. u * v \in Nat
    BY <2>2, Times
  <2> QED BY <2>3 DEF u, v
<1>5. m * n \in Nat
  BY <1>1, Times
<1> HIDE DEF cell
<1>6. [d \in 1..(m * n) |-> cell(d)] \in [1..(m * n) -> Nat]
  BY <1>4
<1> QED BY <1>3, <1>5, <1>6 DEF m, n

\* The sum of all the products of two lists is the product of the sums.
LEMMA TotalProduct ==
  ASSUME NEW a, a \in Seq(Int), NEW b, b \in Seq(Int)
  PROVE  Total(Table(a, b)) = Total(a) * Total(b)
<1>0. PICK m, n : m = Len(a) /\ n = Len(b)
  OBVIOUS
<1> DEFINE cell(d) == a[((d - 1) \div n) + 1] * b[((d - 1) % n) + 1]
           h(k) == Total([d \in 1..k |-> cell(d)])
<1>1. m \in Nat /\ n \in Nat
  BY <1>0
<1>2. (\A i \in 1..m : a[i] \in Int) /\ (\A j \in 1..n : b[j] \in Int)
  BY <1>0
<1>3. PICK f \in [0..m -> Int] :
        f[0] = 0 /\ (\A i \in 1..m : f[i] = f[i - 1] + a[i]) /\ Total(a) = f[m]
  BY <1>0, Sums
<1>4. PICK g \in [0..n -> Int] :
        g[0] = 0 /\ (\A j \in 1..n : g[j] = g[j - 1] + b[j]) /\ Total(b) = g[n]
  BY <1>0, Sums
<1>5. ASSUME NEW r \in Nat, r < m, NEW j \in Nat, j < n
      PROVE  /\ cell((r * n + j) + 1) = a[r + 1] * b[j + 1]
             /\ r * n + j \in Nat /\ (r * n + j) + 1 <= m * n
  <2>1. /\ (((r * n + j) + 1) - 1) \div n = r
        /\ (((r * n + j) + 1) - 1) % n = j
    BY <1>1, <1>5, CellOf
  <2>2. r * n + j \in Nat /\ (r * n + j) + 1 <= m * n
    BY <1>1, <1>5, RowBound
  <2>3. cell((r * n + j) + 1) = a[r + 1] * b[j + 1]
    BY <2>1
  <2> QED BY <2>2, <2>3
<1>6. \A d \in 1..(m * n) : cell(d) \in Int
  <2>1. SUFFICES ASSUME NEW d \in 1..(m * n) PROVE cell(d) \in Int
    OBVIOUS
  <2>2. ((d - 1) \div n) + 1 \in 1..m /\ ((d - 1) % n) + 1 \in 1..n
    BY <1>1, Cell
  <2> QED BY <1>2, <2>2
<1>7. h(0) = 0
  <2>1. [d \in 1..0 |-> cell(d)] = <<>>
    OBVIOUS
  <2> QED BY <2>1, TotalEquations
<1> HIDE DEF cell
<1>8. ASSUME NEW k \in Nat, k + 1 <= m * n
      PROVE  h(k + 1) = h(k) + cell(k + 1) /\ h(k) \in Int
  <2> DEFINE e == [d \in 1..(k + 1) |-> cell(d)]
  <2>1. \A d \in 1..(k + 1) : d \in 1..(m * n)
    BY <1>1, <1>8
  <2>2. e \in [1..(k + 1) -> Int] /\ \A d \in 1..(k + 1) : e[d] = cell(d)
    BY <1>6, <2>1
  <2>3. /\ [d \in 1..k |-> e[d]] = [d \in 1..k |-> cell(d)]
        /\ [d \in 1..(k + 1) |-> e[d]] = [d \in 1..(k + 1) |-> cell(d)]
        /\ e[k + 1] = cell(k + 1)
    BY <2>2
  <2> HIDE DEF e
  <2>4. /\ [d \in 1..k |-> e[d]] \in Seq(Int)
        /\ Total([d \in 1..(k + 1) |-> e[d]])
             = Total([d \in 1..k |-> e[d]]) + e[k + 1]
    BY <2>2, OneMore
  <2>5. [d \in 1..k |-> cell(d)] \in Seq(Int) /\ h(k + 1) = h(k) + cell(k + 1)
    BY <2>3, <2>4
  <2> QED BY <2>5, TotalEquations
<1> HIDE DEF h
<1>9. ASSUME NEW r \in Nat, r < m, h(r * n) = f[r] * g[n]
      PROVE  h((r + 1) * n) = f[r + 1] * g[n]
  <2> DEFINE P(j) == h(r * n + j) = f[r] * g[n] + a[r + 1] * g[j]
             S == {j \in Nat : j <= n => P(j)}
  <2>0. r \in 0..m /\ r + 1 \in 1..m /\ n \in 0..n /\ r * n \in Nat /\ (r + 1) - 1 = r
    BY <1>1, <1>9
  <2>1. f[r] \in Int /\ g[n] \in Int /\ a[r + 1] \in Int /\ f[r + 1] = f[r] + a[r + 1]
    BY <1>2, <1>3, <1>4, <2>0
  <2>2. P(0)
    <3>1. r * n + 0 = r * n /\ a[r + 1] * g[0] = 0 /\ f[r] * g[n] \in Int
      BY <1>4, <2>0, <2>1
    <3> QED BY <1>9, <3>1
  <2>3. ASSUME NEW j \in Nat, j + 1 <= n, P(j) PROVE P(j + 1)
    <3>2. j < n /\ j + 1 \in 1..n /\ (j + 1) - 1 = j /\ j \in 0..n
      BY <1>1, <2>3
    <3>4. /\ cell((r * n + j) + 1) = a[r + 1] * b[j + 1]
          /\ r * n + j \in Nat /\ (r * n + j) + 1 <= m * n
      BY <1>5, <1>9, <3>2
    <3>5. h((r * n + j) + 1) = h(r * n + j) + a[r + 1] * b[j + 1]
      BY <1>8, <3>4
    <3>6. g[j + 1] = g[j] + b[j + 1] /\ g[j] \in Int /\ b[j + 1] \in Int
      BY <1>2, <1>4, <3>2
    <3>7. r * n + (j + 1) = (r * n + j) + 1
      BY <2>0
    <3>8. a[r + 1] * g[j + 1] = a[r + 1] * g[j] + a[r + 1] * b[j + 1]
      BY <2>1, <3>6
    <3>9. /\ f[r] * g[n] \in Int /\ a[r + 1] * g[j] \in Int
          /\ a[r + 1] * b[j + 1] \in Int
      <4>1. f[r] * g[n] \in Int
        BY <2>1, Times
      <4>2. a[r + 1] * g[j] \in Int
        BY <2>1, <3>6, Times
      <4>3. a[r + 1] * b[j + 1] \in Int
        BY <2>1, <3>6, Times
      <4> QED BY <4>1, <4>2, <4>3
    <3> QED BY <2>3, <3>5, <3>7, <3>8, <3>9
  <2>4. P(n)
    <3> HIDE DEF P
    <3>1. 0 \in S
      BY <2>2
    <3>2. \A j \in Nat : j \in S => j + 1 \in S
      BY <1>1, <2>3
    <3>3. Nat \subseteq S
      <4> HIDE DEF S
      <4> QED BY <3>1, <3>2, NatInduct
    <3> QED BY <1>1, <3>3
  <2>5. h(r * n + n) = f[r] * g[n] + a[r + 1] * g[n]
    BY <1>1, <2>4
  <2>6. r * n + n = (r + 1) * n
    BY <1>1
  <2>7. f[r] * g[n] + a[r + 1] * g[n] = f[r + 1] * g[n]
    BY <2>1
  <2> QED BY <2>5, <2>6, <2>7
<1>10. h(m * n) = f[m] * g[n]
  <2> DEFINE P(r) == h(r * n) = f[r] * g[n]
             S == {r \in Nat : r <= m => P(r)}
  <2>1. P(0)
    <3>1. 0 * n = 0 /\ f[0] * g[n] = 0
      BY <1>1, <1>3, <1>4
    <3> QED BY <1>7, <3>1
  <2>2. ASSUME NEW r \in Nat, r < m, P(r) PROVE P(r + 1)
    BY <1>9, <2>2
  <2> HIDE DEF P
  <2>3. 0 \in S
    BY <2>1
  <2>4. \A r \in Nat : r \in S => r + 1 \in S
    BY <1>1, <2>2
  <2>5. Nat \subseteq S
    <3> HIDE DEF S
    <3> QED BY <2>3, <2>4, NatInduct
  <2>6. P(m)
    BY <1>1, <2>5
  <2> QED BY <2>6 DEF P
<1>11. Total(Table(a, b)) = h(m * n)
  BY <1>0 DEF Table, h, cell
<1> QED BY <1>3, <1>4, <1>10, <1>11

-----------------------------------------------------------------------------
(* Groups.                                                                 *)

LEMMA TotalZeros ==
  ASSUME NEW n \in Nat
  PROVE  [i \in 1..n |-> 0] \in Seq(Int) /\ Total([i \in 1..n |-> 0]) = 0
<1> DEFINE z(k) == [i \in 1..k |-> 0]
           S == {k \in Nat : z(k) \in Seq(Int) /\ Total(z(k)) = 0}
<1>1. 0 \in S
  <2>1. z(0) = <<>> /\ <<>> \in Seq(Int)
    OBVIOUS
  <2> QED BY <2>1, TotalEquations
<1>2. ASSUME NEW k \in Nat, k \in S PROVE k + 1 \in S
  <2> DEFINE e == z(k + 1)
  <2>1. e \in [1..(k + 1) -> Int] /\ \A i \in 1..(k + 1) : e[i] = 0
    OBVIOUS
  <2>2. /\ [i \in 1..k |-> e[i]] = z(k)
        /\ [i \in 1..(k + 1) |-> e[i]] = z(k + 1)
        /\ e[k + 1] = 0
    BY <2>1
  <2>3. z(k + 1) \in Seq(Int)
    OBVIOUS
  <2> HIDE DEF e, z
  <2>4. Total(z(k + 1)) = Total(z(k)) + 0
    BY <2>1, <2>2, OneMore
  <2> QED BY <1>2, <2>3, <2>4
<1>3. Nat \subseteq S
  <2> HIDE DEF S
  <2> QED BY <1>1, <1>2, NatInduct
<1> QED BY <1>3

\* x is one of the first n entries of s, and only one.
Once(s, n, x) == \E i \in 1..n : s[i] = x /\ \A j \in 1..n : s[j] = x => j = i

\* The m terms g, with the keys q, each of which is one entry of s.
Keyed(q, g, m, s, n) ==
  /\ m \in Nat /\ n \in Nat /\ g \in [1..m -> Int]
  /\ \A k \in 1..m : Once(s, n, q[k])

\* The terms, summed by key.
SumsByKey(q, g, m, s, n) ==
  [i \in 1..n |-> Total([k \in 1..m |-> IF q[k] = s[i] THEN g[k] ELSE 0])]

\* These sums add up to the sum of all the terms.
LEMMA TotalByKey ==
  ASSUME NEW q, NEW g, NEW m, NEW s, NEW n, Keyed(q, g, m, s, n)
  PROVE  Total(SumsByKey(q, g, m, s, n)) = Total(g)
<1> SUFFICES ASSUME m \in Nat, n \in Nat, g \in [1..m -> Int],
                    \A k \in 1..m : Once(s, n, q[k])
             PROVE  Total(SumsByKey(q, g, m, s, n)) = Total(g)
  BY DEF Keyed
<1> DEFINE term(i, k) == IF q[k] = s[i] THEN g[k] ELSE 0
           sum(i, l) == Total([k \in 1..l |-> term(i, k)])
           D(l) == [i \in 1..n |-> sum(i, l)]
           G(l) == Total([k \in 1..l |-> g[k]])
           P(l) == Total(D(l)) = G(l)
           S == {l \in Nat : l <= m => P(l)}
<1>1. P(0)
  <2>1. \A i \in 1..n : [k \in 1..0 |-> term(i, k)] = <<>>
    OBVIOUS
  <2>2. [k \in 1..0 |-> g[k]] = <<>>
    OBVIOUS
  <2>3. \A i \in 1..n : sum(i, 0) = 0
    BY <2>1, TotalEquations
  <2>4. G(0) = 0
    BY <2>2, TotalEquations
  <2> HIDE DEF sum, G
  <2>5. D(0) = [i \in 1..n |-> 0]
    BY <2>3
  <2> QED BY <2>4, <2>5, TotalZeros
<1>2. ASSUME NEW i \in 1..n, NEW l \in Nat, l + 1 <= m
      PROVE  sum(i, l + 1) = sum(i, l) + term(i, l + 1) /\ sum(i, l) \in Int
  <2> DEFINE e == [k \in 1..(l + 1) |-> term(i, k)]
  <2>1. \A k \in 1..(l + 1) : g[k] \in Int
    BY <1>2
  <2>2. e \in [1..(l + 1) -> Int] /\ \A k \in 1..(l + 1) : e[k] = term(i, k)
    BY <2>1
  <2> HIDE DEF term
  <2>3. /\ [k \in 1..l |-> e[k]] = [k \in 1..l |-> term(i, k)]
        /\ [k \in 1..(l + 1) |-> e[k]] = [k \in 1..(l + 1) |-> term(i, k)]
        /\ e[l + 1] = term(i, l + 1)
    BY <2>2
  <2> HIDE DEF e
  <2>4. /\ [k \in 1..l |-> e[k]] \in Seq(Int)
        /\ Total([k \in 1..(l + 1) |-> e[k]])
             = Total([k \in 1..l |-> e[k]]) + e[l + 1]
    BY <2>2, OneMore
  <2>5. [k \in 1..l |-> term(i, k)] \in Seq(Int)
    BY <2>3, <2>4
  <2> QED BY <2>3, <2>4, <2>5, TotalEquations
<1>3. ASSUME NEW l \in Nat, l + 1 <= m
      PROVE  G(l + 1) = G(l) + g[l + 1] /\ g[l + 1] \in Int /\ G(l) \in Int
  <2> DEFINE e == [k \in 1..(l + 1) |-> g[k]]
  <2>1. \A k \in 1..(l + 1) : g[k] \in Int
    BY <1>3
  <2>2. e \in [1..(l + 1) -> Int] /\ \A k \in 1..(l + 1) : e[k] = g[k]
    BY <2>1
  <2>3. /\ [k \in 1..l |-> e[k]] = [k \in 1..l |-> g[k]]
        /\ [k \in 1..(l + 1) |-> e[k]] = [k \in 1..(l + 1) |-> g[k]]
        /\ e[l + 1] = g[l + 1] /\ g[l + 1] \in Int
    BY <2>1, <2>2
  <2> HIDE DEF e
  <2>4. /\ [k \in 1..l |-> e[k]] \in Seq(Int)
        /\ Total([k \in 1..(l + 1) |-> e[k]])
             = Total([k \in 1..l |-> e[k]]) + e[l + 1]
    BY <2>2, OneMore
  <2>5. [k \in 1..l |-> g[k]] \in Seq(Int)
    BY <2>3, <2>4
  <2> QED BY <2>3, <2>4, <2>5, TotalEquations
<1>4. ASSUME NEW l \in Nat, l + 1 <= m, P(l) PROVE P(l + 1)
  <2>1. PICK i \in 1..n : s[i] = q[l + 1] /\ \A j \in 1..n : s[j] = q[l + 1] => j = i
    <3>1. l + 1 \in 1..m
      BY <1>4
    <3> QED BY <3>1 DEF Once
  <2>2. term(i, l + 1) = g[l + 1] /\ \A j \in 1..n : j # i => term(j, l + 1) = 0
    BY <2>1
  <2> HIDE DEF term, sum, G
  <2>3. \A j \in 1..n : sum(j, l) \in Int /\ sum(j, l + 1) = sum(j, l) + term(j, l + 1)
    BY <1>2, <1>4
  <2>4. \A j \in 1..n : j # i => sum(j, l + 1) = sum(j, l)
    BY <2>2, <2>3
  <2>5. sum(i, l + 1) = sum(i, l) + g[l + 1] /\ g[l + 1] \in Int
    BY <1>3, <1>4, <2>2, <2>3
  <2>6. \A j \in 1..n : sum(j, l + 1) \in Int
    BY <2>3, <2>4, <2>5
  <2> DEFINE x == D(l)
             y == D(l + 1)
             V == Int
  <2>7. /\ x \in [1..n -> V] /\ y \in [1..n -> V]
        /\ \A j \in 1..n : x[j] = sum(j, l) /\ y[j] = sum(j, l + 1)
    BY <2>3, <2>6
  <2> HIDE DEF x, y, V
  <2>8. x \in Seq(V) /\ y \in Seq(V) /\ Len(x) = n /\ Len(y) = n
    BY <2>7
  <2>9. \A j \in 1..Len(x) : j # i => y[j] = x[j]
    BY <2>4, <2>7, <2>8
  <2>10. Total(y) = Total(x) + (y[i] - x[i]) /\ Total(x) \in Int
    <3>1. x \in Seq(Int) /\ y \in Seq(Int)
      BY <2>8 DEF V
    <3>2. Len(y) = Len(x) /\ i \in 1..Len(x)
      BY <2>8
    <3>3. Total(y) = Total(x) + (y[i] - x[i])
      BY <2>9, <3>1, <3>2, TotalChanged
    <3> QED BY <3>1, <3>3, TotalEquations
  <2>11. y[i] - x[i] = g[l + 1]
    BY <2>3, <2>5, <2>7
  <2>12. Total(x) = G(l) /\ G(l + 1) = G(l) + g[l + 1]
    BY <1>3, <1>4 DEF x
  <2> QED BY <2>10, <2>11, <2>12 DEF y
<1>5. P(m)
  <2> HIDE DEF P
  <2>1. 0 \in S
    BY <1>1
  <2>2. \A l \in Nat : l \in S => l + 1 \in S
    BY <1>4
  <2>3. Nat \subseteq S
    <3> HIDE DEF S
    <3> QED BY <2>1, <2>2, NatInduct
  <2> QED BY <2>3
<1>6. SumsByKey(q, g, m, s, n) = D(m)
  BY DEF SumsByKey
<1>7. g = [k \in 1..m |-> g[k]]
  OBVIOUS
<1> QED BY <1>5, <1>6, <1>7

\* Lists of numbers of the same length are ordered.
LEMMA LessOrder ==
  ASSUME NEW w \in Nat, NEW p, NEW q, NEW r,
         p \in [1..w -> Int], q \in [1..w -> Int], r \in [1..w -> Int]
  PROVE  /\ ~Less(p, p)
         /\ Less(p, q) /\ Less(q, r) => Less(p, r)
<1>1. Len(p) = w /\ Len(q) = w
  OBVIOUS
<1>2. /\ \A i \in 1..w : p[i] \in Int
      /\ \A i \in 1..w : q[i] \in Int
      /\ \A i \in 1..w : r[i] \in Int
  OBVIOUS
<1>3. ~Less(p, p)
  BY <1>1, <1>2 DEF Less
<1>4. ASSUME Less(p, q), Less(q, r) PROVE Less(p, r)
  <2>1. PICK a \in 1..w : p[a] < q[a] /\ \A j \in 1..(a - 1) : p[j] = q[j]
    BY <1>1, <1>4 DEF Less
  <2>2. PICK c \in 1..w : q[c] < r[c] /\ \A j \in 1..(c - 1) : q[j] = r[j]
    BY <1>1, <1>4 DEF Less
  <2>3. CASE a <= c
    <3>1. p[a] < r[a]
      <4>1. CASE a = c
        BY <1>2, <2>1, <2>2, <4>1
      <4>2. CASE a # c
        <5>1. a \in 1..(c - 1)
          BY <2>3, <4>2
        <5>2. q[a] = r[a]
          BY <2>2, <5>1
        <5> QED BY <2>1, <5>2
      <4> QED BY <4>1, <4>2
    <3>2. \A j \in 1..(a - 1) : p[j] = r[j]
      <4>1. \A j \in 1..(a - 1) : j \in 1..(c - 1)
        BY <2>3
      <4> QED BY <2>1, <2>2, <4>1
    <3> QED BY <1>1, <3>1, <3>2 DEF Less
  <2>4. CASE c < a
    <3>1. c \in 1..(a - 1)
      BY <2>4
    <3>2. p[c] = q[c]
      BY <2>1, <3>1
    <3>3. \A j \in 1..(c - 1) : p[j] = r[j]
      <4>1. \A j \in 1..(c - 1) : j \in 1..(a - 1)
        BY <2>4
      <4> QED BY <2>1, <2>2, <4>1
    <3> QED BY <1>1, <2>2, <3>2, <3>3 DEF Less
  <2> QED BY <2>3, <2>4
<1> QED BY <1>3, <1>4

\* s lists n elements in order.
Ascends(s, n) == \A k \in 1..(n - 1) : Less(s[k], s[k + 1])

\* A sorted list of as many elements as there are has each of them once.
LEMMA SortedOnce ==
  ASSUME NEW w \in Nat, NEW qs, IsFiniteSet(qs), qs \subseteq [1..w -> Int],
         NEW s, s \in [1..Cardinality(qs) -> qs], Ascends(s, Cardinality(qs))
  PROVE  \A q \in qs : Once(s, Cardinality(qs), q)
<1> DEFINE n == Cardinality(qs)
<1>0. \A k \in 1..(n - 1) : Less(s[k], s[k + 1])
  BY DEF Ascends
<1>1. n \in Nat
  BY FS_CardinalityType
<1>2. \A i \in 1..n : s[i] \in [1..w -> Int]
  OBVIOUS
<1> HIDE DEF n
<1>3. \A i, j, k \in 1..n : Less(s[i], s[j]) /\ Less(s[j], s[k]) => Less(s[i], s[k])
  <2>1. SUFFICES ASSUME NEW i \in 1..n, NEW j \in 1..n, NEW k \in 1..n,
                        Less(s[i], s[j]), Less(s[j], s[k])
                 PROVE  Less(s[i], s[k])
    OBVIOUS
  <2>2. /\ s[i] \in [1..w -> Int] /\ s[j] \in [1..w -> Int]
        /\ s[k] \in [1..w -> Int]
    BY <1>2
  <2> QED BY <2>1, <2>2, LessOrder
<1>4. \A i \in 1..n : ~Less(s[i], s[i])
  BY <1>2, LessOrder
<1>5. \A i, j \in 1..n : i < j => Less(s[i], s[j])
  <2> DEFINE P(d) == \A i, j \in 1..n : j = (i + 1) + d => Less(s[i], s[j])
             S == {d \in Nat : P(d)}
  <2>1. P(0)
    <3>1. \A i, j \in 1..n : j = (i + 1) + 0 => i \in 1..(n - 1) /\ j = i + 1
      BY <1>1
    <3> QED BY <1>0, <3>1
  <2>2. ASSUME NEW d \in Nat, P(d) PROVE P(d + 1)
    <3>1. SUFFICES ASSUME NEW i \in 1..n, NEW k \in 1..n, k = (i + 1) + (d + 1)
                   PROVE  Less(s[i], s[k])
      OBVIOUS
    <3>2. k - 1 \in 1..n /\ k - 1 = (i + 1) + d /\ k - 1 \in 1..(n - 1) /\ (k - 1) + 1 = k
      BY <1>1, <3>1
    <3>3. Less(s[i], s[k - 1])
      BY <2>2, <3>2
    <3>4. Less(s[k - 1], s[k])
      BY <1>0, <3>2
    <3> QED BY <1>3, <3>2, <3>3, <3>4
  <2> HIDE DEF P
  <2>3. 0 \in S /\ \A d \in Nat : d \in S => d + 1 \in S
    BY <2>1, <2>2
  <2>4. Nat \subseteq S
    <3> HIDE DEF S
    <3> QED BY <2>3, NatInduct
  <2>5. \A d \in Nat : P(d)
    BY <2>4
  <2>6. SUFFICES ASSUME NEW i \in 1..n, NEW j \in 1..n, i < j PROVE Less(s[i], s[j])
    OBVIOUS
  <2>7. j - (i + 1) \in Nat /\ j = (i + 1) + (j - (i + 1))
    BY <2>6
  <2> QED BY <2>5, <2>7 DEF P
<1>6. \A i, j \in 1..n : s[i] = s[j] => i = j
  <2>1. SUFFICES ASSUME NEW i \in 1..n, NEW j \in 1..n, s[i] = s[j], i # j
                 PROVE  FALSE
    OBVIOUS
  <2>2. i < j \/ j < i
    BY <2>1
  <2>3. Less(s[i], s[j]) \/ Less(s[j], s[i])
    BY <1>5, <2>2
  <2> QED BY <1>4, <2>1, <2>3
<1>7. IsFiniteSet(1..n) /\ Cardinality(1..n) = n
  BY <1>1, FS_Interval
<1>8. s \in Injection(1..n, qs)
  BY <1>6 DEF Injection, IsInjective, n
<1>9. s \in Surjection(1..n, qs)
  BY <1>7, <1>8, FS_Injection DEF n
<1>10. \A q \in qs : \E i \in 1..n : s[i] = q
  BY <1>9 DEF Surjection
<1> QED BY <1>6, <1>10 DEF Once, n

\* The degeneracies of the sectors add up to the same when duplicates are
\* grouped.
LEMMA TotalGrouped ==
  ASSUME NEW b, b.qnums \in Seq(Seq(Int)), b.degs \in Seq(Int),
         Len(b.degs) = Len(b.qnums),
         NEW w \in Nat, \A k \in 1..Len(b.qnums) : Len(b.qnums[k]) = w,
         NEW s \in SortedQnums(b)
  PROVE  Total([k \in 1..Len(s) |-> DegOf(b, s[k])]) = Total(b.degs)
<1> DEFINE qs == ToSet(b.qnums)
           n == Cardinality(qs)
           m == Len(b.qnums)
<1>1. m \in Nat /\ DOMAIN b.qnums = 1..m /\ Len(b.degs) = m
  OBVIOUS
<1>2. qs = {b.qnums[k] : k \in 1..m}
  BY <1>1 DEF ToSet
<1>3. IsFiniteSet(qs)
  <2>1. b.qnums \in Surjection(1..m, qs)
    BY <1>1, <1>2 DEF Surjection
  <2>2. IsFiniteSet(1..m)
    BY <1>1, FS_Interval
  <2> QED BY <2>1, <2>2, FS_Surjection
<1>4. qs \subseteq [1..w -> Int]
  <2>1. \A k \in 1..m : b.qnums[k] \in Seq(Int) /\ Len(b.qnums[k]) = w
    OBVIOUS
  <2>2. \A k \in 1..m : b.qnums[k] \in [1..w -> Int]
    BY <2>1
  <2> QED BY <1>2, <2>2
<1>5. n \in Nat
  BY <1>3, FS_CardinalityType
<1>6. s \in [1..n -> qs] /\ Ascends(s, Len(s))
  BY DEF SortedQnums, Ascends
<1>7. Len(s) = n
  BY <1>5, <1>6
<1>8. \A q \in qs : Once(s, n, q)
  <2> HIDE DEF qs
  <2> QED BY <1>3, <1>4, <1>6, <1>7, SortedOnce
<1> HIDE DEF n
<1>9. \A k \in 1..m : Once(s, n, b.qnums[k])
  BY <1>2, <1>8
<1>10. b.degs \in [1..m -> Int]
  BY <1>1
<1>11. Total(SumsByKey(b.qnums, b.degs, m, s, n)) = Total(b.degs)
  <2> HIDE DEF m
  <2>1. Keyed(b.qnums, b.degs, m, s, n)
    BY <1>1, <1>5, <1>9, <1>10 DEF Keyed
  <2> QED BY <2>1, TotalByKey
<1>12. SumsByKey(b.qnums, b.degs, m, s, n) = [k \in 1..Len(s) |-> DegOf(b, s[k])]
  BY <1>7 DEF DegOf, SumsByKey
<1> QED BY <1>11, <1>12

\* Init adds up the degeneracies in front of the first zero.
LEMMA UpToZeroNat ==
  ASSUME NEW m, m.degs \in Seq(Nat), HasZero(m)
  PROVE  Total(UpToZero(m)) \in Nat
<1>1. PICK g \in Seq(Nat) : g = m.degs
  OBVIOUS
<1> DEFINE N == {l \in 1..Len(g) : g[l] = 0}
           k == CHOOSE k \in 1..Len(g) : g[k] = 0 /\ \A j \in 1..(k - 1) : g[j] # 0
           u == SubSeq(g, 1, k - 1)
<1>2. N # {}
  BY <1>1 DEF HasZero
<1>3. N \subseteq Nat
  OBVIOUS
<1>4. \E l \in 1..Len(g) : g[l] = 0 /\ \A j \in 1..(l - 1) : g[j] # 0
  <2>1. PICK l \in N : \A j \in N : l <= j
    <3> HIDE DEF N
    <3> QED BY <1>2, <1>3, LeastNumber
  <2>2. \A j \in 1..(l - 1) : j \in 1..Len(g) /\ ~(l <= j)
    OBVIOUS
  <2> QED BY <2>1, <2>2
<1>5. k \in 1..Len(g)
  BY <1>4
<1>6. UpToZero(m) = u
  BY <1>1 DEF UpToZero
<1> HIDE DEF k
<1>7. u \in Seq(Nat)
  BY <1>5
<1> HIDE DEF u
<1> QED BY <1>6, <1>7, TotalNat

-----------------------------------------------------------------------------
(* What sums count.                                                        *)

\* Lists of g[k] cells for every k.
Stacked(g) == UNION {{k} \X (1..g[k]) : k \in DOMAIN g}

LEMMA InStacked ==
  ASSUME NEW g, NEW v
  PROVE  v \in Stacked(g) <=> \E k \in DOMAIN g : \E i \in 1..g[k] : v = <<k, i>>
BY DEF Stacked

\* The cells of one column.
LEMMA Column ==
  ASSUME NEW k, NEW n \in Nat
  PROVE  IsFiniteSet({k} \X (1..n)) /\ Cardinality({k} \X (1..n)) = n
<1> DEFINE K == {k}
           N == 1..n
<1>1. IsFiniteSet(K) /\ Cardinality(K) = 1
  BY FS_Singleton
<1>2. IsFiniteSet(N) /\ Cardinality(N) = n
  BY FS_Interval
<1> HIDE DEF K, N
<1>3. IsFiniteSet(K \X N) /\ Cardinality(K \X N) = 1 * n
  BY <1>1, <1>2, FS_Product
<1> QED BY <1>3 DEF K, N

\* A sum of naturals counts cells.
LEMMA TotalCounts ==
  ASSUME NEW s \in Seq(Nat)
  PROVE  IsFiniteSet(Stacked(s)) /\ Cardinality(Stacked(s)) = Total(s)
<1> DEFINE S == {t \in Seq(Nat) : /\ IsFiniteSet(Stacked(t))
                                  /\ Cardinality(Stacked(t)) = Total(t)}
<1>1. <<>> \in S
  <2>1. Stacked(<<>>) = {} /\ <<>> \in Seq(Nat)
    BY DEF Stacked
  <2> QED BY <2>1, TotalEquations, FS_EmptySet
<1>2. ASSUME NEW t \in Seq(Nat), NEW x \in Nat, t \in S
      PROVE  Append(t, x) \in S
  <2> DEFINE u == Append(t, x)
             n == Len(t)
             new == {n + 1} \X (1..x)
  <2>1. /\ u \in Seq(Nat) /\ Len(u) = n + 1 /\ n \in Nat
        /\ DOMAIN u = 1..(n + 1) /\ DOMAIN t = 1..n
        /\ u[n + 1] = x /\ \A i \in 1..n : u[i] = t[i]
    OBVIOUS
  <2>2. IsFiniteSet(new) /\ Cardinality(new) = x
    BY Column
  <2>3. Stacked(u) = Stacked(t) \cup new
    <3> HIDE DEF u, n
    <3>1. 1..(n + 1) = (1..n) \cup {n + 1}
      BY <2>1
    <3> QED BY <2>1, <3>1 DEF Stacked
  <2>4. Stacked(t) \cap new = {}
    <3>1. \A v \in Stacked(t) : v[1] \in 1..n
      BY <2>1 DEF Stacked
    <3>2. \A v \in new : v[1] = n + 1
      OBVIOUS
    <3>3. n + 1 \notin 1..n
      BY <2>1
    <3> QED BY <3>1, <3>2, <3>3
  <2>5. Total(u) = Total(t) + x
    <3>1. t \in Seq(Int) /\ x \in Int
      OBVIOUS
    <3> QED BY <3>1, TotalEquations
  <2>6. Total(t) \in Nat
    BY TotalNat
  <2> HIDE DEF u, new, n
  <2>7. /\ IsFiniteSet(Stacked(u))
        /\ Cardinality(Stacked(u)) = Cardinality(Stacked(t)) + x - Cardinality({})
    <3> DEFINE P == Stacked(t)
    <3>1. IsFiniteSet(P) /\ IsFiniteSet(new) /\ P \cap new = {}
      BY <1>2, <2>2, <2>4
    <3> HIDE DEF P
    <3>2. /\ IsFiniteSet(P \cup new)
          /\ Cardinality(P \cup new)
               = Cardinality(P) + Cardinality(new) - Cardinality(P \cap new)
      BY <3>1, FS_Union
    <3> QED BY <2>2, <2>3, <3>1, <3>2 DEF P
  <2>8. Cardinality(Stacked(u)) = Total(u)
    BY <1>2, <2>5, <2>6, <2>7, FS_EmptySet
  <2> QED BY <2>1, <2>7, <2>8 DEF u
<1>3. Seq(Nat) \subseteq S
  <2> HIDE DEF S
  <2> QED BY <1>1, <1>2, ListInduct
<1> QED BY <1>3

\* The degeneracies g of the sectors with the number c, in the list q of numbers.
OfKey(q, g, c) == [k \in 1..Len(q) |-> IF q[k] = c THEN g[k] ELSE 0]

LEMMA OfKeyNat ==
  ASSUME NEW q, NEW g, g \in Seq(Nat), Len(g) = Len(q), NEW c
  PROVE  /\ OfKey(q, g, c) \in Seq(Nat) /\ Len(OfKey(q, g, c)) = Len(q)
         /\ Len(q) \in Nat
         /\ \A k \in 1..Len(q) : OfKey(q, g, c)[k] = IF q[k] = c THEN g[k] ELSE 0
<1>1. Len(q) \in Nat /\ \A k \in 1..Len(q) : g[k] \in Nat
  OBVIOUS
<1> QED BY <1>1 DEF OfKey

\* Their sum counts the cells of these sectors.
LEMMA KeyCounts ==
  ASSUME NEW q, NEW g, g \in Seq(Nat), Len(g) = Len(q), NEW c
  PROVE  LET fibre == {v \in Stacked(g) : q[v[1]] = c}
         IN IsFiniteSet(fibre) /\ Cardinality(fibre) = Total(OfKey(q, g, c))
<1> DEFINE e == OfKey(q, g, c)
           n == Len(q)
<1>1. /\ e \in Seq(Nat) /\ Len(e) = n /\ n \in Nat
      /\ \A k \in 1..n : e[k] = IF q[k] = c THEN g[k] ELSE 0
  BY OfKeyNat
<1>2. DOMAIN e = 1..n /\ DOMAIN g = 1..n
  BY <1>1
<1> HIDE DEF e, n
<1>3. {v \in Stacked(g) : q[v[1]] = c} = Stacked(e)
  <2>1. ASSUME NEW v \in Stacked(g), q[v[1]] = c PROVE v \in Stacked(e)
    BY <1>1, <1>2, <2>1, InStacked
  <2>2. ASSUME NEW v \in Stacked(e) PROVE v \in Stacked(g) /\ q[v[1]] = c
    <3>1. PICK k \in 1..n : \E i \in 1..e[k] : v = <<k, i>>
      <4>1. \E k \in DOMAIN e : \E i \in 1..e[k] : v = <<k, i>>
        BY DEF Stacked
      <4> QED BY <1>2, <4>1
    <3>2. q[k] = c
      BY <1>1, <3>1
    <3> QED BY <1>1, <1>2, <3>1, <3>2, InStacked
  <2> QED BY <2>1, <2>2
<1> QED BY <1>1, <1>3, TotalCounts DEF e

-----------------------------------------------------------------------------
(* Bijections.                                                             *)

LEMMA BijectionIs ==
  ASSUME NEW S, NEW T, NEW f
  PROVE  f \in Bijection(S, T) <=>
           /\ f \in [S -> T]
           /\ \A x, y \in S : f[x] = f[y] => x = y
           /\ \A t \in T : \E x \in S : f[x] = t
BY DEF Bijection, Injection, Surjection, IsInjective

\* The elements of X with the key c.
Fibre(X, f, c) == {x \in X : f[x] = c}

\* For every key of K, X has as many elements as Y.
AsMany(X, f, Y, g, K) ==
  /\ f \in [X -> K] /\ g \in [Y -> K]
  /\ \A c \in K : ExistsBijection(Fibre(X, f, c), Fibre(Y, g, c))

\* Two sets whose elements have keys, with bijections between the elements of
\* every key, have a bijection that keeps the keys.
LEMMA Glue ==
  ASSUME NEW X, NEW Y, NEW K, NEW f, NEW g, AsMany(X, f, Y, g, K)
  PROVE  \E h \in Bijection(X, Y) : \A x \in X : g[h[x]] = f[x]
<1> DEFINE P(c) == {x \in X : f[x] = c}
           Q(c) == {y \in Y : g[y] = c}
           beta == [c \in K |-> CHOOSE b : b \in Bijection(P(c), Q(c))]
           h == [x \in X |-> beta[f[x]][x]]
<1>0. /\ f \in [X -> K] /\ g \in [Y -> K]
      /\ \A c \in K : ExistsBijection(Fibre(X, f, c), Fibre(Y, g, c))
  BY DEF AsMany
<1>1. \A c \in K : beta[c] \in Bijection(P(c), Q(c))
  BY <1>0 DEF ExistsBijection, Fibre
<1> HIDE DEF beta
<1>2. \A c \in K : /\ beta[c] \in [P(c) -> Q(c)]
                   /\ \A x, y \in P(c) : beta[c][x] = beta[c][y] => x = y
                   /\ \A t \in Q(c) : \E x \in P(c) : beta[c][x] = t
  <2> HIDE DEF P, Q
  <2> QED BY <1>1, BijectionIs
<1>3. \A x \in X : h[x] \in Y /\ g[h[x]] = f[x] /\ h[x] = beta[f[x]][x]
  <2>1. SUFFICES ASSUME NEW x \in X PROVE h[x] \in Y /\ g[h[x]] = f[x] /\ h[x] = beta[f[x]][x]
    BY <1>0
  <2>2. f[x] \in K /\ x \in P(f[x]) /\ h[x] = beta[f[x]][x]
    BY <1>0
  <2>3. beta[f[x]][x] \in Q(f[x])
    <3> HIDE DEF P, Q
    <3>1. beta[f[x]] \in [P(f[x]) -> Q(f[x])]
      BY <1>2, <2>2
    <3> QED BY <2>2, <3>1
  <2> QED BY <2>2, <2>3
<1>4. h \in [X -> Y]
  BY <1>3
<1> HIDE DEF h
<1>5. \A x, y \in X : h[x] = h[y] => x = y
  <2>1. SUFFICES ASSUME NEW x \in X, NEW y \in X, h[x] = h[y] PROVE x = y
    OBVIOUS
  <2>2. f[x] = f[y] /\ f[x] \in K
    BY <1>0, <1>3, <2>1
  <2>3. x \in P(f[x]) /\ y \in P(f[x])
    BY <2>2
  <2>4. beta[f[x]][x] = beta[f[x]][y]
    BY <1>3, <2>1, <2>2
  <2> QED BY <1>2, <2>2, <2>3, <2>4
<1>6. \A t \in Y : \E x \in X : h[x] = t
  <2>1. SUFFICES ASSUME NEW t \in Y PROVE \E x \in X : h[x] = t
    OBVIOUS
  <2>2. g[t] \in K /\ t \in Q(g[t])
    BY <1>0
  <2>3. PICK x \in P(g[t]) : beta[g[t]][x] = t
    BY <1>2, <2>2
  <2>4. x \in X /\ f[x] = g[t]
    OBVIOUS
  <2> QED BY <1>3, <2>3, <2>4
<1>7. h \in Bijection(X, Y)
  BY <1>4, <1>5, <1>6, BijectionIs
<1> QED BY <1>3, <1>7

\* A bijection that keeps keys maps the elements of a key onto those of the key.
LEMMA FibreBijection ==
  ASSUME NEW X, NEW Y, NEW f, NEW g, NEW h \in Bijection(X, Y),
         \A x \in X : g[h[x]] = f[x], NEW c
  PROVE  ExistsBijection(Fibre(X, f, c), Fibre(Y, g, c))
<1> DEFINE P == {x \in X : f[x] = c}
           Q == {y \in Y : g[y] = c}
           r == [x \in P |-> h[x]]
<1>1. /\ h \in [X -> Y]
      /\ \A x, y \in X : h[x] = h[y] => x = y
      /\ \A t \in Y : \E x \in X : h[x] = t
  BY BijectionIs
<1>2. r \in [P -> Q] /\ \A x \in P : r[x] = h[x] /\ x \in X
  BY <1>1
<1>3. \A t \in Q : \E x \in P : r[x] = t
  BY <1>1
<1> HIDE DEF r
<1>4. \A x, y \in P : r[x] = r[y] => x = y
  BY <1>1, <1>2
<1> HIDE DEF P, Q
<1>5. r \in Bijection(P, Q)
  BY <1>2, <1>3, <1>4, BijectionIs
<1> QED BY <1>5 DEF ExistsBijection, Fibre, P, Q

\* f on the first of a pair, g on the second.
Both(f, g, X, U) == [w \in X \X U |-> <<f[w[1]], g[w[2]]>>]

LEMMA PairBijection ==
  ASSUME NEW X, NEW Y, NEW U, NEW V, NEW f, NEW g,
         f \in Bijection(X, Y), g \in Bijection(U, V)
  PROVE  Both(f, g, X, U) \in Bijection(X \X U, Y \X V)
<1> DEFINE h == [w \in X \X U |-> <<f[w[1]], g[w[2]]>>]
<1>1. /\ f \in [X -> Y]
      /\ \A x, y \in X : f[x] = f[y] => x = y
      /\ \A t \in Y : \E x \in X : f[x] = t
  BY BijectionIs
<1>2. /\ g \in [U -> V]
      /\ \A x, y \in U : g[x] = g[y] => x = y
      /\ \A t \in V : \E x \in U : g[x] = t
  BY BijectionIs
<1>3. h \in [X \X U -> Y \X V]
  BY <1>1, <1>2
<1>4. \A x \in X, u \in U : <<x, u>> \in X \X U /\ h[<<x, u>>] = <<f[x], g[u]>>
  OBVIOUS
<1> HIDE DEF h
<1>5. \A v, w \in X \X U : h[v] = h[w] => v = w
  <2>1. SUFFICES ASSUME NEW x \in X, NEW u \in U, NEW y \in X, NEW v \in U,
                        h[<<x, u>>] = h[<<y, v>>]
                 PROVE  x = y /\ u = v
    OBVIOUS
  <2>2. f[x] = f[y] /\ g[u] = g[v]
    BY <1>4, <2>1
  <2> QED BY <1>1, <1>2, <2>2
<1>6. \A t \in Y \X V : \E w \in X \X U : h[w] = t
  <2>1. SUFFICES ASSUME NEW y \in Y, NEW v \in V
                 PROVE  \E w \in X \X U : h[w] = <<y, v>>
    OBVIOUS
  <2>2. PICK x \in X : f[x] = y
    BY <1>1
  <2>3. PICK u \in U : g[u] = v
    BY <1>2
  <2> QED BY <1>4, <2>2, <2>3
<1>7. h \in Bijection(X \X U, Y \X V)
  <2> DEFINE D == X \X U
             E == Y \X V
  <2>1. /\ h \in [D -> E]
        /\ \A v, w \in D : h[v] = h[w] => v = w
        /\ \A t \in E : \E w \in D : h[w] = t
    BY <1>3, <1>5, <1>6
  <2> HIDE DEF D, E
  <2>2. h \in Bijection(D, E)
    BY <2>1, BijectionIs
  <2> QED BY <2>2 DEF D, E
<1> QED BY <1>7 DEF h, Both

-----------------------------------------------------------------------------
(* Products by number.                                                     *)

\* The entry of a table for a row and a column is the only one.
LEMMA CellUnique ==
  ASSUME NEW m \in Nat, NEW n \in Nat, NEW d \in 1..(m * n)
  PROVE  d = (((((d - 1) \div n) + 1) - 1) * n + ((((d - 1) % n) + 1) - 1)) + 1
<1>1. n > 0
  OBVIOUS
<1> DEFINE e == d - 1
<1>2. e \in Int /\ d = e + 1
  OBVIOUS
<1> HIDE DEF e
<1>3. e = n * (e \div n) + (e % n) /\ e \div n \in Int /\ e % n \in Int
  BY <1>1, <1>2
<1>4. n * (e \div n) = (e \div n) * n
  BY <1>1, <1>3
<1>5. ((e \div n) + 1) - 1 = e \div n /\ ((e % n) + 1) - 1 = e % n
  BY <1>3
<1> QED BY <1>2, <1>3, <1>4, <1>5 DEF e

\* h maps a cell of the table of products to a cell of its row and one of its
\* column.
CellsOf(h, a, b) ==
  /\ h \in Bijection(Stacked(Table(a, b)), Stacked(a) \X Stacked(b))
  /\ \A v \in Stacked(Table(a, b)) :
       /\ h[v][1][1] = ((v[1] - 1) \div Len(b)) + 1
       /\ h[v][2][1] = ((v[1] - 1) % Len(b)) + 1

LEMMA TableBijection ==
  ASSUME NEW a, NEW b, a \in Seq(Nat), b \in Seq(Nat)
  PROVE  \E h : CellsOf(h, a, b)
<1>0. PICK m, n : m = Len(a) /\ n = Len(b)
  OBVIOUS
<1> DEFINE left(d)  == ((d - 1) \div n) + 1
           right(d) == ((d - 1) % n) + 1
           t == Table(a, b)
           X == Stacked(t)
           Y == Stacked(a) \X Stacked(b)
           K == (1..m) \X (1..n)
           f == [v \in X |-> <<left(v[1]), right(v[1])>>]
           g == [w \in Y |-> <<w[1][1], w[2][1]>>]
<1>1. /\ m \in Nat /\ n \in Nat /\ DOMAIN a = 1..m /\ DOMAIN b = 1..n
      /\ (\A k \in 1..m : a[k] \in Nat) /\ (\A l \in 1..n : b[l] \in Nat)
  BY <1>0
<1>2. /\ DOMAIN t = 1..(m * n) /\ m * n \in Nat
      /\ \A d \in 1..(m * n) : t[d] = a[left(d)] * b[right(d)]
  BY <1>0, <1>1, Times DEF Table
<1>3. \A d \in 1..(m * n) : left(d) \in 1..m /\ right(d) \in 1..n
  BY <1>1, Cell
<1> HIDE DEF t
<1>4. f \in [X -> K]
  <2> HIDE DEF left, right
  <2>1. \A v \in X : v[1] \in 1..(m * n)
    BY <1>2 DEF Stacked
  <2> HIDE DEF X
  <2> QED BY <1>3, <2>1
<1>5. g \in [Y -> K]
  <2>1. (\A v \in Stacked(a) : v[1] \in 1..m) /\ (\A v \in Stacked(b) : v[1] \in 1..n)
    BY <1>1 DEF Stacked
  <2> QED BY <2>1
<1>6. ASSUME NEW c \in K
      PROVE  ExistsBijection(Fibre(X, f, c), Fibre(Y, g, c))
  <2>1. PICK k \in 1..m, l \in 1..n : c = <<k, l>>
    OBVIOUS
  <2> DEFINE P == {v \in X : f[v] = c}
             Q == {w \in Y : g[w] = c}
             d == ((k - 1) * n + (l - 1)) + 1
             R == {k} \X (1..a[k])
             C == {l} \X (1..b[l])
             D == {d} \X (1..t[d])
  <2>2. left(d) = k /\ right(d) = l /\ d \in 1..(m * n)
    <3>1. k - 1 \in Nat /\ l - 1 \in Nat /\ k - 1 < m /\ l - 1 < n
      BY <1>1
    <3>2. ((d - 1) \div n) = k - 1 /\ ((d - 1) % n) = l - 1
      BY <1>1, <3>1, CellOf
    <3>3. (k - 1) * n + (l - 1) \in Nat /\ d <= m * n
      BY <1>1, <3>1, RowBound
    <3> QED BY <1>2, <3>1, <3>2, <3>3
  <2>3. \A e \in 1..(m * n) : left(e) = k /\ right(e) = l => e = d
    <3>1. SUFFICES ASSUME NEW e \in 1..(m * n), left(e) = k, right(e) = l
                   PROVE  e = d
      OBVIOUS
    <3>2. e = ((left(e) - 1) * n + (right(e) - 1)) + 1
      BY <1>1, CellUnique
    <3> HIDE DEF left, right
    <3> QED BY <3>1, <3>2
  <2>4. P = D
    <3> HIDE DEF left, right, d
    <3>1. ASSUME NEW v \in P PROVE v \in D
      <4>1. PICK e \in 1..(m * n) : \E i \in 1..t[e] : v = <<e, i>>
        BY <1>2 DEF Stacked
      <4>2. left(e) = k /\ right(e) = l
        BY <2>1, <4>1
      <4> QED BY <2>3, <4>1, <4>2
    <3>2. ASSUME NEW v \in D PROVE v \in P
      <4>1. PICK i \in 1..t[d] : v = <<d, i>>
        OBVIOUS
      <4>2. v \in X
        BY <1>2, <2>2, <4>1 DEF Stacked
      <4> QED BY <2>1, <2>2, <4>1, <4>2
    <3> QED BY <3>1, <3>2
  <2>5. Q = R \X C
    <3>1. ASSUME NEW w \in Q PROVE w \in R \X C
      <4>1. PICK u \in Stacked(a), v \in Stacked(b) : w = <<u, v>>
        OBVIOUS
      <4>2. u[1] = k /\ v[1] = l
        BY <2>1, <4>1
      <4>3. u \in R
        BY <4>2 DEF Stacked
      <4>4. v \in C
        BY <4>2 DEF Stacked
      <4> QED BY <4>1, <4>3, <4>4
    <3>2. ASSUME NEW u \in R, NEW v \in C PROVE <<u, v>> \in Q
      <4>1. u \in Stacked(a) /\ u[1] = k
        BY <1>1 DEF Stacked
      <4>2. v \in Stacked(b) /\ v[1] = l
        BY <1>1 DEF Stacked
      <4>3. <<u, v>> \in Y /\ g[<<u, v>>] = <<k, l>>
        BY <4>1, <4>2
      <4> HIDE DEF Y, g
      <4> QED BY <2>1, <4>3
    <3> HIDE DEF Q, R, C
    <3> QED BY <3>1, <3>2
  <2>6. a[k] \in Nat /\ b[l] \in Nat /\ t[d] = a[k] * b[l] /\ t[d] \in Nat
    <3> HIDE DEF left, right, d
    <3>1. a[k] \in Nat /\ b[l] \in Nat /\ t[d] = a[k] * b[l]
      BY <1>1, <1>2, <2>2
    <3> QED BY <3>1, Times
  <2> HIDE DEF P, Q, R, C, D, d
  <2>7. /\ IsFiniteSet(R) /\ Cardinality(R) = a[k]
        /\ IsFiniteSet(C) /\ Cardinality(C) = b[l]
        /\ IsFiniteSet(D) /\ Cardinality(D) = t[d]
    <3>1. IsFiniteSet(R) /\ Cardinality(R) = a[k]
      BY <2>6, Column DEF R
    <3>2. IsFiniteSet(C) /\ Cardinality(C) = b[l]
      BY <2>6, Column DEF C
    <3>3. IsFiniteSet(D) /\ Cardinality(D) = t[d]
      BY <2>6, Column DEF D
    <3> QED BY <3>1, <3>2, <3>3
  <2>8. IsFiniteSet(Q) /\ Cardinality(Q) = Cardinality(P) /\ IsFiniteSet(P)
    <3>1. IsFiniteSet(R \X C) /\ Cardinality(R \X C) = Cardinality(R) * Cardinality(C)
      BY <2>7, FS_Product
    <3>2. IsFiniteSet(Q) /\ Cardinality(Q) = a[k] * b[l]
      BY <2>5, <2>7, <3>1
    <3> QED BY <2>4, <2>6, <2>7, <3>2
  <2>9. ExistsBijection(P, Q)
    BY <2>8, FS_SameCardinalityBij
  <2> QED BY <2>9 DEF P, Q, Fibre
<1> HIDE DEF K, X, Y
<1>7. PICK h \in Bijection(X, Y) : \A v \in X : g[h[v]] = f[v]
  <2> HIDE DEF f, g
  <2>1. AsMany(X, f, Y, g, K)
    BY <1>4, <1>5, <1>6 DEF AsMany
  <2> QED BY <2>1, Glue
<1>8. \A v \in X : h[v] \in Y
  BY BijectionIs
<1>9. \A v \in X : h[v][1][1] = left(v[1]) /\ h[v][2][1] = right(v[1])
  BY <1>7, <1>8
<1> QED BY <1>0, <1>9 DEF X, Y, t, CellsOf

\* mu is how often the numbers of the list q occur, with the degeneracies g.
Counted(q, g, mu) ==
  /\ g \in Seq(Nat) /\ Len(g) = Len(q)
  /\ DOMAIN mu = {q[k] : k \in 1..Len(q)}
  /\ \A c \in DOMAIN mu : mu[c] = Total(OfKey(q, g, c))

\* The sectors of a bond and the numbers have as many cells, number by number.
LEMMA SectorBijection ==
  ASSUME NEW q, NEW g, NEW mu, Counted(q, g, mu)
  PROVE  \E h \in Bijection(Stacked(g), Stacked(mu)) :
           \A v \in Stacked(g) : h[v][1] = q[v[1]]
<1> DEFINE X == Stacked(g)
           Y == Stacked(mu)
           K == DOMAIN mu
           f == [v \in X |-> q[v[1]]]
           key == [w \in Y |-> w[1]]
           n == Len(q)
<1>1. /\ g \in Seq(Nat) /\ Len(g) = n /\ n \in Nat /\ DOMAIN g = 1..n
      /\ \A k \in 1..n : q[k] \in K
      /\ \A c \in K : mu[c] = Total(OfKey(q, g, c))
  BY DEF Counted
<1>2. \A c \in K : OfKey(q, g, c) \in Seq(Nat) /\ mu[c] \in Nat
  BY <1>1, OfKeyNat, TotalNat
<1>3. f \in [X -> K]
  <2>1. \A v \in X : v[1] \in 1..n
    BY <1>1 DEF Stacked
  <2> HIDE DEF X
  <2> QED BY <1>1, <2>1
<1>4. key \in [Y -> K]
  <2>1. \A w \in Y : w[1] \in K
    BY DEF Stacked
  <2> HIDE DEF Y
  <2> QED BY <2>1
<1>5. ASSUME NEW c \in K
      PROVE  ExistsBijection(Fibre(X, f, c), Fibre(Y, key, c))
  <2> DEFINE P == Fibre(X, f, c)
             Q == Fibre(Y, key, c)
             N == mu[c]
  <2>1. IsFiniteSet(P) /\ Cardinality(P) = N
    <3>1. P = {v \in Stacked(g) : q[v[1]] = c}
      BY DEF Fibre
    <3>2. g \in Seq(Nat) /\ Len(g) = Len(q)
      BY <1>1
    <3>3. /\ IsFiniteSet({v \in Stacked(g) : q[v[1]] = c})
          /\ Cardinality({v \in Stacked(g) : q[v[1]] = c}) = Total(OfKey(q, g, c))
      BY <3>2, KeyCounts
    <3> HIDE DEF P
    <3> QED BY <1>1, <3>1, <3>3
  <2>2. Q = {c} \X (1..N)
    BY DEF Fibre, Stacked
  <2>3. IsFiniteSet(Q) /\ Cardinality(Q) = N
    <3>1. N \in Nat
      BY <1>2
    <3> HIDE DEF N, Q
    <3> QED BY <2>2, <3>1, Column
  <2> HIDE DEF P, Q, N
  <2>4. ExistsBijection(P, Q)
    BY <2>1, <2>3, FS_SameCardinalityBij
  <2> QED BY <2>4 DEF P, Q
<1> HIDE DEF X, Y, K, f, key
<1>6. PICK h \in Bijection(X, Y) : \A v \in X : key[h[v]] = f[v]
  <2>1. AsMany(X, f, Y, key, K)
    BY <1>3, <1>4, <1>5 DEF AsMany
  <2> QED BY <2>1, Glue
<1>7. \A v \in X : h[v] \in Y
  BY BijectionIs
<1>8. \A v \in X : h[v][1] = q[v[1]]
  BY <1>6, <1>7 DEF f, key
<1> QED BY <1>8 DEF X, Y

\* The pairs of cells whose numbers F adds up to c.
PairsOf(mu, nu, F, c) ==
  {w \in Stacked(mu) \X Stacked(nu) : F[<<w[1][1], w[2][1]>>] = c}

\* The entries of t are what F makes of the rows q and the columns r.
Tabled(t, q, r, F) ==
  /\ Len(t) = Len(q) * Len(r)
  /\ \A d \in 1..(Len(q) * Len(r)) :
       t[d] = F[<<q[((d - 1) \div Len(r)) + 1], r[((d - 1) % Len(r)) + 1]>>]

\* The sectors of a product: the degeneracies of those with the number c, all
\* together, are the pairs of cells whose numbers add up to c, whatever the
\* addition F is.
LEMMA ProductCounts ==
  ASSUME NEW q, NEW g, NEW mu, Counted(q, g, mu),
         NEW r, NEW e, NEW nu, Counted(r, e, nu),
         NEW F, NEW t, Tabled(t, q, r, F), NEW c
  PROVE  Total(OfKey(t, Table(g, e), c)) = Cardinality(PairsOf(mu, nu, F, c))
<1> DEFINE T == Table(g, e)
           X == Stacked(T)
           U == Stacked(g)
           V == Stacked(e)
           Y == Stacked(mu)
           Z == Stacked(nu)
           n == Len(r)
           left(d)  == ((d - 1) \div n) + 1
           right(d) == ((d - 1) % n) + 1
<1>1. /\ g \in Seq(Nat) /\ e \in Seq(Nat) /\ Len(g) = Len(q) /\ Len(e) = n
      /\ T \in Seq(Nat) /\ Len(T) = Len(q) * n
  <2>1. g \in Seq(Nat) /\ e \in Seq(Nat) /\ Len(g) = Len(q) /\ Len(e) = n
    BY DEF Counted
  <2> QED BY <2>1, TableNat
<1>2. PICK h \in Bijection(X, U \X V) :
        \A v \in X : h[v][1][1] = left(v[1]) /\ h[v][2][1] = right(v[1])
  <2>1. PICK h : CellsOf(h, g, e)
    <3> HIDE DEF CellsOf
    <3> QED BY <1>1, TableBijection
  <2> QED BY <1>1, <2>1 DEF CellsOf
<1>3. PICK a \in Bijection(U, Y) : \A v \in U : a[v][1] = q[v[1]]
  BY SectorBijection
<1>4. PICK b \in Bijection(V, Z) : \A v \in V : b[v][1] = r[v[1]]
  BY SectorBijection
<1>5. \A v \in X : v[1] \in 1..(Len(q) * n)
  <2>1. DOMAIN T = 1..(Len(q) * n)
    BY <1>1
  <2> HIDE DEF T, n
  <2> QED BY <2>1 DEF Stacked
<1> DEFINE p == Both(a, b, U, V)
           k == [v \in X |-> p[h[v]]]
           f == [v \in X |-> t[v[1]]]
           key == [w \in Y \X Z |-> F[<<w[1][1], w[2][1]>>]]
<1>6. p \in Bijection(U \X V, Y \X Z)
  <2>1. a \in Bijection(U, Y) /\ b \in Bijection(V, Z)
    OBVIOUS
  <2> HIDE DEF U, V, Y, Z
  <2> QED BY <2>1, PairBijection
<1>7. k \in Bijection(X, Y \X Z)
  <2> HIDE DEF X, U, V, Y, Z, p
  <2> DEFINE UV == U \X V
             YZ == Y \X Z
  <2>1. h \in Bijection(X, UV) /\ p \in Bijection(UV, YZ)
    BY <1>6
  <2> HIDE DEF UV, YZ
  <2>2. k \in Bijection(X, YZ)
    BY <2>1, Fun_BijTransitive
  <2> QED BY <2>2 DEF YZ
<1>8. ASSUME NEW v \in X PROVE key[k[v]] = f[v]
  <2>1. h[v] \in U \X V
    <3> HIDE DEF X, U, V
    <3> QED BY BijectionIs
  <2>2. PICK u \in U, w \in V : h[v] = <<u, w>>
    BY <2>1
  <2>3. k[v] = <<a[u], b[w]>>
    BY <2>2 DEF Both
  <2>4. a[u] \in Y /\ b[w] \in Z
    <3> HIDE DEF U, V, Y, Z
    <3> QED BY BijectionIs
  <2>5. key[k[v]] = F[<<a[u][1], b[w][1]>>]
    <3> HIDE DEF Y, Z, k
    <3> QED BY <2>3, <2>4
  <2>6. a[u][1] = q[u[1]] /\ b[w][1] = r[w[1]]
    BY <1>3, <1>4
  <2>7. u[1] = left(v[1]) /\ w[1] = right(v[1])
    <3> HIDE DEF left, right, X
    <3> QED BY <1>2, <2>2
  <2>8. t[v[1]] = F[<<q[left(v[1])], r[right(v[1])]>>]
    BY <1>5 DEF Tabled
  <2> HIDE DEF left, right, k, key, X
  <2> QED BY <2>5, <2>6, <2>7, <2>8
<1> DEFINE P == Fibre(X, f, c)
           YZ == Y \X Z
           Q == Fibre(YZ, key, c)
<1>9. IsFiniteSet(P) /\ Cardinality(P) = Total(OfKey(t, T, c))
  <2>1. P = {v \in Stacked(T) : t[v[1]] = c}
    BY DEF Fibre
  <2>2. Len(T) = Len(t)
    BY <1>1 DEF Tabled
  <2> HIDE DEF T, P
  <2>3. /\ IsFiniteSet({v \in Stacked(T) : t[v[1]] = c})
        /\ Cardinality({v \in Stacked(T) : t[v[1]] = c}) = Total(OfKey(t, T, c))
    BY <1>1, <2>2, KeyCounts
  <2> QED BY <2>1, <2>3
<1>10. Q = PairsOf(mu, nu, F, c)
  BY DEF Fibre, PairsOf
<1>11. k \in Bijection(X, YZ)
  BY <1>7
<1> HIDE DEF X, YZ, k, f, key, T
<1>12. ExistsBijection(P, Q)
  BY <1>8, <1>11, FibreBijection
<1> HIDE DEF P, Q
<1>13. Cardinality(Q) = Cardinality(P)
  BY <1>9, <1>12, FS_Bijection
<1> QED BY <1>9, <1>10, <1>13 DEF T

\* The numbers that F adds up to.
ValuesOf(mu, nu, F) == {F[w] : w \in (DOMAIN mu) \X (DOMAIN nu)}

\* The numbers of a product.
LEMMA ProductNumbers ==
  ASSUME NEW q, NEW g, NEW mu, Counted(q, g, mu),
         NEW r, NEW e, NEW nu, Counted(r, e, nu),
         NEW F, NEW t, Tabled(t, q, r, F)
  PROVE  {t[d] : d \in 1..Len(t)} = ValuesOf(mu, nu, F)
<1> DEFINE m == Len(q)
           n == Len(r)
           left(d)  == ((d - 1) \div n) + 1
           right(d) == ((d - 1) % n) + 1
<1>1. /\ m \in Nat /\ n \in Nat
      /\ DOMAIN mu = {q[k] : k \in 1..m} /\ DOMAIN nu = {r[k] : k \in 1..n}
  <2>1. /\ Len(g) = m /\ g \in Seq(Nat) /\ Len(e) = n /\ e \in Seq(Nat)
        /\ DOMAIN mu = {q[k] : k \in 1..m} /\ DOMAIN nu = {r[k] : k \in 1..n}
    BY DEF Counted
  <2> QED BY <2>1
<1>2. /\ Len(t) = m * n
      /\ \A d \in 1..(m * n) : t[d] = F[<<q[left(d)], r[right(d)]>>]
  BY DEF Tabled
<1> HIDE DEF m, n
<1>3. ASSUME NEW d \in 1..Len(t)
      PROVE  \E w \in (DOMAIN mu) \X (DOMAIN nu) : t[d] = F[w]
  <2>1. left(d) \in 1..m /\ right(d) \in 1..n
    BY <1>1, <1>2, Cell
  <2>2. t[d] = F[<<q[left(d)], r[right(d)]>>]
    BY <1>2
  <2> HIDE DEF left, right
  <2> QED BY <1>1, <2>1, <2>2
<1>4. ASSUME NEW w \in (DOMAIN mu) \X (DOMAIN nu)
      PROVE  \E d \in 1..Len(t) : t[d] = F[w]
  <2>1. PICK i \in 1..m, j \in 1..n : w = <<q[i], r[j]>>
    BY <1>1
  <2> DEFINE d == ((i - 1) * n + (j - 1)) + 1
  <2>2. i - 1 \in Nat /\ j - 1 \in Nat /\ i - 1 < m /\ j - 1 < n
    BY <1>1
  <2>3. /\ (i - 1) * n + (j - 1) \in Nat
        /\ d <= m * n
    BY <1>1, <2>2, RowBound
  <2>4. (d - 1) \div n = i - 1 /\ (d - 1) % n = j - 1
    BY <1>1, <2>2, CellOf
  <2>5. d \in 1..(m * n)
    <3>1. m * n \in Nat
      BY <1>1, Times
    <3> QED BY <2>3, <3>1
  <2> HIDE DEF d
  <2>6. left(d) = i /\ right(d) = j
    BY <2>4
  <2>7. t[d] = F[<<q[left(d)], r[right(d)]>>]
    BY <1>2, <2>5
  <2> HIDE DEF left, right
  <2> QED BY <1>2, <2>1, <2>5, <2>6, <2>7
<1> QED BY <1>3, <1>4 DEF ValuesOf

-----------------------------------------------------------------------------
(* The sums of a number, when sectors are grouped or removed.              *)

\* A term of a sum of naturals is at most the sum.
LEMMA TotalAtLeast ==
  ASSUME NEW s, s \in Seq(Nat), NEW i \in 1..Len(s)
  PROVE  s[i] <= Total(s) /\ s[i] \in Nat /\ Total(s) \in Nat
<1>1. s \in Seq(Int) /\ s[i] \in Nat
  OBVIOUS
<1>2. Total(s) = Total(RemoveAt(s, i)) + s[i]
  BY <1>1, TotalRemove
<1>3. Total(RemoveAt(s, i)) \in Nat
  <2>1. RemoveAt(s, i) \in Seq(Nat)
    BY RemoveAtIs
  <2> QED BY <2>1, TotalNat
<1> QED BY <1>1, <1>2, <1>3

\* A number that one sector has: its sum is the degeneracy of the sector.
LEMMA KeyOnce ==
  ASSUME NEW q, NEW g, g \in Seq(Nat), Len(g) = Len(q), NEW i \in 1..Len(q),
         \A j \in 1..Len(q) : q[j] = q[i] => j = i
  PROVE  Total(OfKey(q, g, q[i])) = g[i]
<1> DEFINE n == Len(q)
           e == OfKey(q, g, q[i])
           z == [k \in 1..n |-> 0]
<1>1. /\ e \in Seq(Nat) /\ Len(e) = n /\ n \in Nat
      /\ \A k \in 1..n : e[k] = IF q[k] = q[i] THEN g[k] ELSE 0
  BY OfKeyNat
<1>2. z \in Seq(Int) /\ Total(z) = 0 /\ Len(z) = n /\ \A k \in 1..n : z[k] = 0
  BY <1>1, TotalZeros
<1>3. e \in Seq(Int) /\ g[i] \in Nat
  BY <1>1
<1>4. e[i] = g[i] /\ \A j \in 1..n : j # i => e[j] = 0
  BY <1>1
<1> HIDE DEF e, z
<1>5. Total(e) = Total(z) + (e[i] - z[i])
  <2>1. Len(e) = Len(z) /\ i \in 1..Len(z)
    BY <1>1, <1>2
  <2>2. \A j \in 1..Len(z) : j # i => e[j] = z[j]
    BY <1>2, <1>4
  <2> QED BY <1>2, <1>3, <2>1, <2>2, TotalChanged
<1> QED BY <1>2, <1>3, <1>4, <1>5 DEF e

\* A sector removed: the sum of its number is less by its degeneracy, the others
\* stay.
LEMMA KeyRemoved ==
  ASSUME NEW X, NEW q, q \in Seq(X), NEW g, g \in Seq(Nat), Len(g) = Len(q),
         NEW i \in 1..Len(q), NEW c
  PROVE  Total(OfKey(q, g, c)) =
           Total(OfKey(RemoveAt(q, i), RemoveAt(g, i), c))
             + (IF q[i] = c THEN g[i] ELSE 0)
<1> DEFINE n == Len(q)
           p == RemoveAt(q, i)
           h == RemoveAt(g, i)
           e == OfKey(q, g, c)
           f == OfKey(p, h, c)
           r == RemoveAt(e, i)
<1>1. /\ e \in Seq(Nat) /\ Len(e) = n /\ n \in Nat
      /\ \A k \in 1..n : e[k] = IF q[k] = c THEN g[k] ELSE 0
  BY OfKeyNat
<1>2. /\ Len(p) = n - 1
      /\ \A j \in 1..(n - 1) : p[j] = IF j < i THEN q[j] ELSE q[j + 1]
  BY RemoveAtIs
<1>3. /\ h \in Seq(Nat) /\ Len(h) = n - 1
      /\ \A j \in 1..(n - 1) : h[j] = IF j < i THEN g[j] ELSE g[j + 1]
  <2>1. i \in 1..Len(g) /\ Len(g) = n
    OBVIOUS
  <2> QED BY <2>1, RemoveAtIs
<1> HIDE DEF e, p, h
<1>4. /\ r \in Seq(Nat) /\ Len(r) = n - 1
      /\ \A j \in 1..(n - 1) : r[j] = IF j < i THEN e[j] ELSE e[j + 1]
  <2>1. i \in 1..Len(e) /\ Len(e) = n
    BY <1>1
  <2> QED BY <1>1, <2>1, RemoveAtIs
<1>5. /\ f \in Seq(Nat) /\ Len(f) = n - 1
      /\ \A k \in 1..(n - 1) : f[k] = IF p[k] = c THEN h[k] ELSE 0
  <2>1. Len(h) = Len(p)
    BY <1>2, <1>3
  <2>2. /\ f \in Seq(Nat) /\ Len(f) = Len(p)
        /\ \A k \in 1..Len(p) : f[k] = IF p[k] = c THEN h[k] ELSE 0
    BY <1>3, <2>1, OfKeyNat
  <2> HIDE DEF f, r
  <2> QED BY <1>2, <2>2
<1> HIDE DEF r, f
<1>6. r = f
  <2>1. ASSUME NEW j \in 1..Len(r) PROVE r[j] = f[j]
    <3>1. j \in 1..(n - 1) /\ j \in 1..n /\ j + 1 \in 1..n
      BY <1>1, <1>4
    <3>2. CASE j < i
      <4>1. p[j] = q[j] /\ h[j] = g[j] /\ r[j] = e[j]
        BY <1>2, <1>3, <1>4, <3>1, <3>2
      <4> QED BY <1>1, <1>5, <3>1, <4>1
    <3>3. CASE ~(j < i)
      <4>1. p[j] = q[j + 1] /\ h[j] = g[j + 1] /\ r[j] = e[j + 1]
        BY <1>2, <1>3, <1>4, <3>1, <3>3
      <4> QED BY <1>1, <1>5, <3>1, <4>1
    <3> QED BY <3>2, <3>3
  <2> QED BY <1>4, <1>5, <2>1, SeqEqual
<1>7. Total(e) = Total(r) + e[i]
  <2>1. e \in Seq(Int) /\ i \in 1..Len(e)
    BY <1>1
  <2> QED BY <2>1, TotalRemove DEF r
<1>8. e[i] = IF q[i] = c THEN g[i] ELSE 0
  BY <1>1
<1> QED BY <1>6, <1>7, <1>8 DEF e, f, p, h

\* A product that is not empty has factors that are not.
LEMMA TableNonZero ==
  ASSUME NEW a, a \in Seq(Nat), NEW b, b \in Seq(Nat),
         \A k \in 1..Len(a) : a[k] # 0, \A k \in 1..Len(b) : b[k] # 0
  PROVE  \A d \in 1..Len(Table(a, b)) : Table(a, b)[d] # 0
<1> DEFINE m == Len(a)
           n == Len(b)
           left(d)  == ((d - 1) \div n) + 1
           right(d) == ((d - 1) % n) + 1
<1>1. m \in Nat /\ n \in Nat
  OBVIOUS
<1>2. Table(a, b) = [d \in 1..(m * n) |-> a[left(d)] * b[right(d)]]
  BY DEF Table
<1>3. Len(Table(a, b)) = m * n
  BY TableNat
<1>4. (\A k \in 1..m : a[k] \in Nat \ {0}) /\ (\A k \in 1..n : b[k] \in Nat \ {0})
  OBVIOUS
<1> HIDE DEF m, n
<1>5. ASSUME NEW d \in 1..(m * n) PROVE a[left(d)] * b[right(d)] # 0
  <2>1. left(d) \in 1..m /\ right(d) \in 1..n
    BY <1>1, Cell
  <2> DEFINE u == a[left(d)]
             v == b[right(d)]
  <2>2. u \in Nat \ {0} /\ v \in Nat \ {0}
    BY <1>4, <2>1
  <2> HIDE DEF u, v
  <2>3. u * v # 0
    BY <2>2
  <2> QED BY <2>3 DEF u, v
<1> QED BY <1>2, <1>3, <1>5

-----------------------------------------------------------------------------
(* The invariants of a bond.                                               *)

\* The fields of a bond are there, and there is one number per symmetry.
Formed(b) ==
  /\ b \in [type: {b.type}, dim: {b.dim}, qnums: Seq(Seq(Int)),
            degs: {b.degs}, syms: Seq(Symmetries)]
  /\ \A k \in 1..Len(b.qnums) : Len(b.qnums[k]) = Len(b.syms)

InRange(b) == \A k \in 1..Len(b.qnums) : Valid(b.syms, b.qnums[k])

\* The invariant: damaged bonds are formed as well, they can be Init-ed again.
IInv ==
  /\ ref \in [Handles -> Impls \cup {Void}]
  /\ DOMAIN impl = Impls
  /\ \A i \in Live(ref) : Formed(impl[i])
  /\ \A i \in Intact : InRange(impl[i])

-----------------------------------------------------------------------------
(* The rules for quantum numbers.                                          *)

\* The order of a cyclic symmetry is more than 1.
LEMMA Orders ==
  ASSUME NEW s \in Symmetries, IsCyclic(s)
  PROVE  Order(s) \in Nat \ {0, 1}
BY DEF Symmetries, IsCyclic, Order, U1, FermionParity, FermionNumber

\* combine_rule never leaves the range of the symmetry, whatever it combines: a
\* reversed number, which may be out of range, comes back into it.
THEOREM CombineValid ==
  ASSUME NEW s \in Symmetries, NEW a \in Int, NEW b \in Int
  PROVE  /\ combine_rule(s, a, b) \in Int
         /\ check_qnum(s, combine_rule(s, a, b))
<1>1. CASE IsCyclic(s)
  <2>1. Order(s) \in Nat \ {0, 1}
    BY <1>1, Orders
  <2>2. (a + b) % Order(s) \in 0..(Order(s) - 1)
    BY <2>1
  <2> QED
    BY <1>1, <2>1, <2>2 DEF combine_rule, check_qnum
<1>2. CASE ~IsCyclic(s)
  BY <1>2 DEF combine_rule, check_qnum
<1> QED
  BY <1>1, <1>2

\* reverse_rule gives a number, in range unless the symmetry is cyclic and the
\* number 0.
THEOREM ReverseValid ==
  ASSUME NEW s \in Symmetries, NEW a \in Int, check_qnum(s, a)
  PROVE  /\ reverse_rule(s, a) \in Int
         /\ check_qnum(s, reverse_rule(s, a)) <=> ~(IsCyclic(s) /\ a = 0)
<1>1. CASE IsCyclic(s)
  <2>1. Order(s) \in Nat \ {0, 1}
    BY <1>1, Orders
  <2> QED
    BY <1>1, <2>1 DEF reverse_rule, check_qnum
<1>2. CASE ~IsCyclic(s)
  BY <1>2 DEF reverse_rule, check_qnum
<1> QED
  BY <1>1, <1>2

\* A number combined with its own reverse is 0: the reverse is right although it
\* may be out of range.
THEOREM ReverseCancels ==
  ASSUME NEW s \in Symmetries, NEW a \in Int
  PROVE  combine_rule(s, a, reverse_rule(s, a)) = 0
<1>1. CASE IsCyclic(s)
  <2>1. Order(s) \in Nat \ {0, 1}
    BY <1>1, Orders
  <2>2. a + (Order(s) - a) = Order(s)
    BY <2>1
  <2>3. Order(s) % Order(s) = 0
    BY <2>1
  <2> QED
    BY <1>1, <2>2, <2>3 DEF combine_rule, reverse_rule
<1>2. CASE ~IsCyclic(s)
  BY <1>2 DEF combine_rule, reverse_rule
<1> QED
  BY <1>1, <1>2

\* Lists of numbers combine to a valid list.
LEMMA CombineAllValid ==
  ASSUME NEW syms \in Seq(Symmetries),
         NEW p \in Seq(Int), Len(p) = Len(syms),
         NEW q, \A i \in 1..Len(syms) : q[i] \in Int
  PROVE  /\ CombineAll(syms, p, q) \in Seq(Int)
         /\ Len(CombineAll(syms, p, q)) = Len(syms)
         /\ Valid(syms, CombineAll(syms, p, q))
<1>1. \A i \in 1..Len(syms) : /\ syms[i] \in Symmetries
                              /\ p[i] \in Int
                              /\ q[i] \in Int
  OBVIOUS
<1>2. \A i \in 1..Len(syms) :
        /\ combine_rule(syms[i], p[i], q[i]) \in Int
        /\ check_qnum(syms[i], combine_rule(syms[i], p[i], q[i]))
  BY <1>1, CombineValid
<1>3. Len(syms) \in Nat
  OBVIOUS
<1> QED
  BY <1>2, <1>3 DEF CombineAll, Valid

LEMMA ReverseAllInt ==
  ASSUME NEW syms \in Seq(Symmetries),
         NEW q \in Seq(Int), Len(q) = Len(syms)
  PROVE  \A i \in 1..Len(syms) : ReverseAll(syms, q)[i] \in Int
<1>1. ASSUME NEW i \in 1..Len(syms)
      PROVE  reverse_rule(syms[i], q[i]) \in Int
  <2>1. syms[i] \in Symmetries /\ q[i] \in Int
    OBVIOUS
  <2>2. IsCyclic(syms[i]) => Order(syms[i]) \in Nat
    BY <2>1, Orders
  <2> QED
    BY <2>1, <2>2 DEF reverse_rule
<1> QED
  BY <1>1 DEF ReverseAll

-----------------------------------------------------------------------------
(* What the parts of the member functions make of a bond.                  *)

LEMMA EmptyFormed == Formed(Empty) /\ InRange(Empty)
BY DEF Formed, InRange, Empty

\* A new direction leaves the numbers alone.
LEMMA NewType ==
  ASSUME NEW b, Formed(b), NEW t
  PROVE  LET c == [b EXCEPT !.type = t]
         IN /\ Formed(c) /\ (InRange(b) => InRange(c))
            /\ c.qnums = b.qnums /\ c.degs = b.degs /\ c.syms = b.syms
<1> DEFINE c == [b EXCEPT !.type = t]
<1>1. b \in [type: {b.type}, dim: {b.dim}, qnums: Seq(Seq(Int)),
            degs: {b.degs}, syms: Seq(Symmetries)]
  BY DEF Formed
<1>2. /\ c \in [type: {c.type}, dim: {c.dim}, qnums: Seq(Seq(Int)),
               degs: {c.degs}, syms: Seq(Symmetries)]
      /\ c.qnums = b.qnums /\ c.degs = b.degs /\ c.syms = b.syms
  BY <1>1
<1> HIDE DEF c
<1>3. Formed(c) /\ (InRange(b) => InRange(c))
  BY <1>2 DEF Formed, InRange
<1> QED
  BY <1>2, <1>3 DEF c

\* So does a new dimension.
LEMMA NewDim ==
  ASSUME NEW b, Formed(b), NEW d
  PROVE  LET c == [b EXCEPT !.dim = d]
         IN /\ Formed(c) /\ (InRange(b) => InRange(c))
            /\ c.qnums = b.qnums /\ c.degs = b.degs /\ c.syms = b.syms
<1> DEFINE c == [b EXCEPT !.dim = d]
<1>1. b \in [type: {b.type}, dim: {b.dim}, qnums: Seq(Seq(Int)),
            degs: {b.degs}, syms: Seq(Symmetries)]
  BY DEF Formed
<1>2. /\ c \in [type: {c.type}, dim: {c.dim}, qnums: Seq(Seq(Int)),
               degs: {c.degs}, syms: Seq(Symmetries)]
      /\ c.qnums = b.qnums /\ c.degs = b.degs /\ c.syms = b.syms
  BY <1>1
<1> HIDE DEF c
<1>3. Formed(c) /\ (InRange(b) => InRange(c))
  BY <1>2 DEF Formed, InRange
<1> QED
  BY <1>2, <1>3 DEF c

\* And so do new degeneracies.
LEMMA NewDegs ==
  ASSUME NEW b, Formed(b), NEW g
  PROVE  LET c == [b EXCEPT !.degs = g]
         IN /\ Formed(c) /\ (InRange(b) => InRange(c))
            /\ c.qnums = b.qnums /\ c.syms = b.syms
<1> DEFINE c == [b EXCEPT !.degs = g]
<1>1. b \in [type: {b.type}, dim: {b.dim}, qnums: Seq(Seq(Int)),
            degs: {b.degs}, syms: Seq(Symmetries)]
  BY DEF Formed
<1>2. /\ c \in [type: {c.type}, dim: {c.dim}, qnums: Seq(Seq(Int)),
               degs: {c.degs}, syms: Seq(Symmetries)]
      /\ c.qnums = b.qnums /\ c.syms = b.syms
  BY <1>1
<1> HIDE DEF c
<1>3. Formed(c) /\ (InRange(b) => InRange(c))
  BY <1>2 DEF Formed, InRange
<1> QED
  BY <1>2, <1>3 DEF c

\* A bond with other numbers is well-formed if they are.
LEMMA NewQnums ==
  ASSUME NEW b, Formed(b), NEW q \in Seq(Seq(Int)),
         \A k \in 1..Len(q) : Len(q[k]) = Len(b.syms)
  PROVE  LET c == [b EXCEPT !.qnums = q]
         IN /\ Formed(c)
            /\ (\A k \in 1..Len(q) : Valid(b.syms, q[k])) => InRange(c)
<1> DEFINE c == [b EXCEPT !.qnums = q]
<1>1. b \in [type: {b.type}, dim: {b.dim}, qnums: Seq(Seq(Int)),
            degs: {b.degs}, syms: Seq(Symmetries)]
  BY DEF Formed
<1>2. /\ c \in [type: {c.type}, dim: {c.dim}, qnums: Seq(Seq(Int)),
               degs: {c.degs}, syms: Seq(Symmetries)]
      /\ c.qnums = q /\ c.syms = b.syms
  BY <1>1
<1> HIDE DEF c
<1>3. /\ Formed(c)
      /\ (\A k \in 1..Len(q) : Valid(b.syms, q[k])) => InRange(c)
  BY <1>2 DEF Formed, InRange
<1> QED
  BY <1>3 DEF c

\* Init gives a bond that is well-formed, and in range if Init returns.
LEMMA InitFormed ==
  ASSUME NEW b, Formed(b), NEW m \in Specs
  PROVE  /\ Formed(InitSymmetric(b, m))
         /\ Accepted(m) => InRange(InitSymmetric(b, m))
<1> DEFINE made == [type |-> m.type, dim |-> Total(m.degs),
                    qnums |-> m.qnums, degs |-> m.degs, syms |-> SymsOf(m)]
<1>0. /\ m.qnums \in Seq(Seq(Int)) /\ m.qnums # <<>>
      /\ m.syms \in Seq(Symmetries)
  BY BondAssumption
<1>1. CASE HasZero(m) \/ Misfit(m)
  <2>1. /\ Formed([b EXCEPT !.dim = Total(UpToZero(m))])
        /\ Formed([b EXCEPT !.dim = Total(m.degs)])
    BY NewDim
  <2> QED
    BY <1>1, <2>1 DEF InitSymmetric, Accepted
<1>2. CASE ~HasZero(m) /\ ~Misfit(m)
  <2>1. InitSymmetric(b, m) = made
    BY <1>2 DEF InitSymmetric
  <2>2. \A k \in 1..Len(m.qnums) : Len(m.qnums[k]) = Len(m.qnums[1])
    BY <1>2 DEF Misfit
  <2>3. m.qnums[1] \in Seq(Int)
    BY <1>0
  <2>4. SymsOf(m) \in Seq(Symmetries) /\ Len(SymsOf(m)) = Len(m.qnums[1])
    <3>1. CASE m.syms = <<>>
      <4>1. U1 \in Symmetries
        BY DEF Symmetries
      <4>2. Len(m.qnums[1]) \in Nat
        BY <2>3
      <4> QED
        BY <3>1, <4>1, <4>2 DEF SymsOf
    <3>2. CASE m.syms # <<>>
      BY <3>2, <1>0, <1>2 DEF SymsOf, Misfit
    <3> QED
      BY <3>1, <3>2
  <2>5. Formed(made)
    BY <1>0, <2>2, <2>4 DEF Formed
  <2>6. Accepted(m) => InRange(made)
    BY DEF Accepted, InRange
  <2> QED
    BY <2>1, <2>5, <2>6
<1> QED
  BY <1>1, <1>2

\* Grouping selects numbers that were there.
LEMMA GroupingFormed ==
  ASSUME NEW b, Formed(b), NEW c \in Groupings(b)
  PROVE  Formed(c) /\ (InRange(b) => InRange(c))
<1> DEFINE qs == ToSet(b.qnums)
<1>1. b.qnums \in Seq(Seq(Int)) /\ DOMAIN b.qnums = 1..Len(b.qnums)
  BY DEF Formed
<1>2. qs = {b.qnums[k] : k \in 1..Len(b.qnums)}
  BY <1>1 DEF ToSet
<1>3. Cardinality(qs) \in Nat
  <2>1. b.qnums \in Surjection(1..Len(b.qnums), qs)
    BY <1>1, <1>2 DEF Surjection
  <2>2. IsFiniteSet(1..Len(b.qnums))
    BY <1>1, FS_Interval
  <2>3. IsFiniteSet(qs)
    BY <2>1, <2>2, FS_Surjection
  <2> QED
    BY <2>3, FS_CardinalityType
<1>4. PICK s \in SortedQnums(b) : c = Grouped(b, s)
  BY DEF Groupings
<1>5. s \in [1..Cardinality(qs) -> qs]
  BY <1>4 DEF SortedQnums
<1> HIDE DEF qs
<1>6. Len(s) = Cardinality(qs) /\ s \in Seq(qs)
  BY <1>3, <1>5
<1>7. \A q \in qs : q \in Seq(Int) /\ Len(q) = Len(b.syms)
  BY <1>1, <1>2 DEF Formed
<1>8. s \in Seq(Seq(Int)) /\ \A k \in 1..Len(s) : s[k] \in qs
  BY <1>3, <1>5, <1>6, <1>7
<1> DEFINE x == [b EXCEPT !.qnums = s]
           g == [k \in 1..Len(s) |-> DegOf(b, s[k])]
<1>9. InRange(b) => \A q \in qs : Valid(b.syms, q)
  BY <1>2 DEF InRange
<1>10. Formed(x) /\ (InRange(b) => InRange(x))
  BY <1>7, <1>8, <1>9, NewQnums
<1>11. c = [x EXCEPT !.degs = g]
  BY <1>4 DEF Grouped
<1> HIDE DEF x, g
<1> QED
  BY <1>10, <1>11, NewDegs

\* A list with one element removed has elements of the list.
LEMMA RemoveAtIn ==
  ASSUME NEW S, NEW s \in Seq(S), NEW i \in 1..Len(s)
  PROVE  RemoveAt(s, i) \in Seq(S)
<1>1. SubSeq(s, 1, i - 1) \in Seq(S)
  OBVIOUS
<1>2. SubSeq(s, i + 1, Len(s)) \in Seq(S)
  OBVIOUS
<1> QED
  BY <1>1, <1>2 DEF RemoveAt

\* A list is a list of its own elements.
LEMMA OwnElements ==
  ASSUME NEW S, NEW s \in Seq(S)
  PROVE  s \in Seq({s[k] : k \in 1..Len(s)})
<1>1. Len(s) \in Nat /\ s = [k \in 1..Len(s) |-> s[k]]
  OBVIOUS
<1>2. s \in [1..Len(s) -> {s[k] : k \in 1..Len(s)}]
  BY <1>1
<1> QED
  BY <1>1, <1>2

LEMMA RemovedFormed ==
  ASSUME NEW b, Formed(b), NEW q \in 1..Len(b.qnums)
  PROVE  /\ Formed(Removed(b, q))
         /\ InRange(b) => InRange(Removed(b, q))
<1> DEFINE S == {b.qnums[k] : k \in 1..Len(b.qnums)}
           r == RemoveAt(b.qnums, q)
           x == [b EXCEPT !.dim = @ - b.degs[q]]
           y == [x EXCEPT !.degs = RemoveAt(@, q)]
<1>1. b.qnums \in Seq(Seq(Int))
  BY DEF Formed
<1>2. b.qnums \in Seq(S)
  BY <1>1, OwnElements
<1>3. \A p \in S : /\ p \in Seq(Int) /\ Len(p) = Len(b.syms)
                   /\ InRange(b) => Valid(b.syms, p)
  BY <1>1 DEF Formed, InRange
<1> HIDE DEF S
<1>4. r \in Seq(S)
  BY <1>2, RemoveAtIn
<1> HIDE DEF r
<1>5. \A k \in 1..Len(r) : r[k] \in S
  BY <1>4
<1>6. r \in Seq(Seq(Int)) /\ \A k \in 1..Len(r) : Len(r[k]) = Len(b.syms)
  BY <1>3, <1>4, <1>5
<1>7. InRange(b) => \A k \in 1..Len(r) : Valid(b.syms, r[k])
  BY <1>3, <1>5
<1>8. /\ Formed(x) /\ (InRange(b) => InRange(x))
      /\ x.qnums = b.qnums /\ x.syms = b.syms
  BY NewDim
<1> HIDE DEF x
<1>9. /\ Formed(y) /\ (InRange(x) => InRange(y))
      /\ y.qnums = b.qnums /\ y.syms = b.syms
  BY <1>8, NewDegs
<1>10. Removed(b, q) = [y EXCEPT !.qnums = RemoveAt(@, q)]
  BY DEF Removed, x
<1> HIDE DEF y
<1>11. Removed(b, q) = [y EXCEPT !.qnums = r]
  BY <1>9, <1>10 DEF r
<1> QED
  BY <1>6, <1>7, <1>9, <1>11, NewQnums

\* Every number of a product is the result of combine_rule, hence in range.
LEMMA CombinedFormed ==
  ASSUME NEW b, Formed(b), NEW c, Formed(c), c.syms = b.syms
  PROVE  Formed(Combined(b, c)) /\ InRange(Combined(b, c))
<1> DEFINE m == Len(b.qnums)
           n == Len(c.qnums)
           left(d)  == ((d - 1) \div n) + 1
           right(d) == ((d - 1) % n) + 1
           turned(v) == IF b.type = c.type THEN v ELSE ReverseAll(b.syms, v)
           cell(d) == CombineAll(b.syms, b.qnums[left(d)],
                                 turned(c.qnums[right(d)]))
           q == [d \in 1..(m * n) |-> cell(d)]
           g == [d \in 1..(m * n) |-> b.degs[left(d)] * c.degs[right(d)]]
           x == [b EXCEPT !.dim = b.dim * c.dim]
           y == [x EXCEPT !.qnums = q]
<1>1. /\ b.qnums \in Seq(Seq(Int)) /\ c.qnums \in Seq(Seq(Int))
      /\ b.syms \in Seq(Symmetries)
      /\ m \in Nat /\ n \in Nat
  BY DEF Formed
<1>2. Combined(b, c) = [y EXCEPT !.degs = g]
  BY DEF Combined
<1>3. \A k \in 1..m : b.qnums[k] \in Seq(Int) /\ Len(b.qnums[k]) = Len(b.syms)
  BY <1>1 DEF Formed
<1>4. \A k \in 1..n : c.qnums[k] \in Seq(Int) /\ Len(c.qnums[k]) = Len(b.syms)
  BY <1>1 DEF Formed
<1> HIDE DEF m, n, g
<1>5. m * n \in Nat
  BY <1>1
<1>6. ASSUME NEW d \in 1..(m * n)
      PROVE  /\ cell(d) \in Seq(Int) /\ Len(cell(d)) = Len(b.syms)
             /\ Valid(b.syms, cell(d))
  <2>1. left(d) \in 1..m /\ right(d) \in 1..n
    BY <1>1, Cell
  <2> DEFINE u == b.qnums[left(d)]
             v == c.qnums[right(d)]
             w == turned(v)
  <2>2. /\ u \in Seq(Int) /\ Len(u) = Len(b.syms)
        /\ v \in Seq(Int) /\ Len(v) = Len(b.syms)
    BY <2>1, <1>3, <1>4
  <2>3. cell(d) = CombineAll(b.syms, u, w)
    OBVIOUS
  <2> HIDE DEF u, v, cell
  <2>4. \A i \in 1..Len(b.syms) : w[i] \in Int
    BY <1>1, <2>2, ReverseAllInt
  <2> HIDE DEF w
  <2>5. /\ CombineAll(b.syms, u, w) \in Seq(Int)
        /\ Len(CombineAll(b.syms, u, w)) = Len(b.syms)
        /\ Valid(b.syms, CombineAll(b.syms, u, w))
    BY <1>1, <2>2, <2>4, CombineAllValid
  <2> QED
    BY <2>3, <2>5
<1> HIDE DEF cell
<1>7. /\ q \in Seq(Seq(Int)) /\ Len(q) = m * n
      /\ \A d \in 1..(m * n) : q[d] = cell(d)
  <2>1. q \in [1..(m * n) -> Seq(Int)]
    BY <1>6
  <2> QED
    BY <1>5, <2>1
<1> HIDE DEF q
<1>8. Formed(x) /\ x.syms = b.syms
  BY NewDim
<1> HIDE DEF x
<1>9. Formed(y) /\ InRange(y)
  BY <1>6, <1>7, <1>8, NewQnums
<1> HIDE DEF y
<1> QED
  BY <1>2, <1>9, NewDegs

LEMMA ProductFormed ==
  ASSUME NEW b, Formed(b), NEW c, Formed(c), c.syms = b.syms,
         NEW grp \in BOOLEAN, NEW p \in Products(b, c, grp)
  PROVE  Formed(p) /\ InRange(p)
<1>1. Formed(Combined(b, c)) /\ InRange(Combined(b, c))
  BY CombinedFormed
<1>2. CASE grp
  BY <1>1, <1>2, GroupingFormed DEF Products
<1>3. CASE ~grp
  BY <1>1, <1>3 DEF Products
<1> QED
  BY <1>2, <1>3

-----------------------------------------------------------------------------
(* The three ways in which an operation changes the state.                 *)

LEMMA BindKeeps ==
  ASSUME IInv, NEW h \in Handles, NEW b, Formed(b), InRange(b), Bind(h, b)
  PROVE  IInv'
<1>1. PICK i \in Impls \ Live(ref) :
        Commit([ref EXCEPT ![h] = i], [impl EXCEPT ![i] = b], torn)
  BY DEF Bind
<1>2. ref' = [ref EXCEPT ![h] = i] /\ ref' \in [Handles -> Impls \cup {Void}]
  BY <1>1 DEF Commit, IInv
<1>3. Live(ref') \subseteq Live(ref) \cup {i}
  BY <1>2 DEF Live, IInv
<1>4. torn' = torn \cap Live(ref')
  BY <1>1, <1>2 DEF Commit
<1>5. \A j \in Live(ref') \cap Impls :
        impl'[j] = [impl EXCEPT ![i] = b][j]
  BY <1>1, <1>2 DEF Commit
<1>6. Live(ref') \subseteq Impls
  BY <1>2 DEF Live
<1>7. DOMAIN impl = Impls
  BY DEF IInv
<1>8. impl'[i] = b \/ i \notin Live(ref')
  BY <1>5, <1>6, <1>7
<1>9. \A j \in Live(ref') \ {i} : j \in Live(ref) /\ impl'[j] = impl[j]
  BY <1>3, <1>5, <1>6, <1>7
<1>10. DOMAIN impl' = Impls
  BY <1>1 DEF Commit
<1>11. \A j \in Live(ref') : Formed(impl'[j])
  BY <1>8, <1>9 DEF IInv
<1>12. \A j \in Live(ref') \ torn' : InRange(impl'[j])
  BY <1>4, <1>8, <1>9 DEF IInv, Intact
<1> QED
  BY <1>2, <1>10, <1>11, <1>12 DEF IInv, Intact, Live, Formed, InRange

LEMMA UpdateKeeps ==
  ASSUME IInv, NEW h \in Handles, ref[h] # Void, NEW b, Formed(b),
         NEW tn, torn \ {ref[h]} \subseteq tn,
         ref[h] \notin tn => InRange(b),
         Update(h, b, tn)
  PROVE  IInv'
<1>1. /\ ref' = ref
      /\ torn' = tn \cap Live(ref)
      /\ DOMAIN impl' = Impls
  BY DEF Update, Commit
<1>2. Live(ref) \subseteq Impls /\ ref[h] \in Live(ref)
  BY DEF Live, IInv
<1>3. \A j \in Live(ref) : impl'[j] = [impl EXCEPT ![ref[h]] = b][j]
  BY <1>2 DEF Update, Commit
<1>4. impl'[ref[h]] = b
  BY <1>2, <1>3 DEF IInv
<1>5. \A j \in Live(ref) \ {ref[h]} : impl'[j] = impl[j]
  BY <1>2, <1>3 DEF IInv
<1>6. \A j \in Live(ref) : Formed(impl'[j])
  BY <1>4, <1>5 DEF IInv
<1>7. \A j \in Live(ref) \ torn' : InRange(impl'[j])
  BY <1>1, <1>4, <1>5 DEF IInv, Intact
<1> QED
  BY <1>1, <1>6, <1>7 DEF IInv, Intact, Live, Formed, InRange

LEMMA AssignKeeps ==
  ASSUME IInv, NEW h \in Handles, NEW g \in Handles, Assign(h, g)
  PROVE  IInv'
<1>1. /\ ref[g] # Void
      /\ ref' = [ref EXCEPT ![h] = ref[g]]
      /\ impl' = [i \in Impls |-> IF i \in Live(ref') THEN impl[i] ELSE None]
      /\ torn' = torn \cap Live(ref')
  BY DEF Assign, Commit
<1>2. ref' \in [Handles -> Impls \cup {Void}]
  BY <1>1 DEF IInv
<1>3. Live(ref') \subseteq Live(ref) /\ Live(ref') \subseteq Impls
  BY <1>1, <1>2 DEF Live, IInv
<1>4. \A j \in Live(ref') : impl'[j] = impl[j]
  BY <1>1, <1>3
<1>5. \A j \in Live(ref') : Formed(impl'[j])
  BY <1>3, <1>4 DEF IInv
<1>6. \A j \in Live(ref') \ torn' : InRange(impl'[j])
  BY <1>1, <1>3, <1>4 DEF IInv, Intact
<1> QED
  BY <1>1, <1>2, <1>5, <1>6 DEF IInv, Intact, Live, Formed, InRange

\* The bond of a handle on an intact impl.
LEMMA WholeBond ==
  ASSUME IInv, NEW h \in Handles
  PROVE  /\ ref[h] # Void => Formed(B(h))
         /\ Whole(h) => /\ ref[h] # Void
                        /\ Formed(B(h)) /\ InRange(B(h))
BY DEF IInv, Live, Intact, Whole, B
-----------------------------------------------------------------------------
(* The invariant.                                                          *)

LEMMA InitHolds == Init => IInv
<1> SUFFICES ASSUME Init PROVE IInv
  OBVIOUS
<1>1. Live(ref) = {}
  BY DEF Init, Live
<1> QED
  BY <1>1 DEF Init, IInv, Intact

\* The operations that give a handle a new impl.
LEMMA NewBondKeeps ==
  ASSUME IInv, NEW h \in Handles, NEW g \in Handles
  PROVE  /\ Default(h) => IInv'
         /\ \A dim, type : Regular(h, dim, type) => IInv'
         /\ \A m \in Specs : Symmetric(h, m) => IInv'
         /\ Clone(h, g) => IInv'
         /\ SaveLoad(h, g) => IInv'
         /\ \A type : Retype(h, g, type) => IInv'
         /\ Redirect(h, g) => IInv'
         /\ Group(h, g) => IInv'
<1>1. Default(h) => IInv'
  BY EmptyFormed, BindKeeps DEF Default
<1>2. ASSUME NEW dim, NEW type, Regular(h, dim, type) PROVE IInv'
  <2> DEFINE x == [Empty EXCEPT !.type = type]
  <2>1. Formed(x) /\ InRange(x)
    BY EmptyFormed, NewType
  <2>2. InitRegular(Empty, dim, type) = [x EXCEPT !.dim = dim]
    BY DEF InitRegular
  <2> HIDE DEF x
  <2>3. /\ Formed(InitRegular(Empty, dim, type))
        /\ InRange(InitRegular(Empty, dim, type))
    BY <2>1, <2>2, NewDim
  <2> QED
    BY <1>2, <2>3, BindKeeps DEF Regular
<1>3. ASSUME NEW m \in Specs, Symmetric(h, m) PROVE IInv'
  BY <1>3, EmptyFormed, InitFormed, BindKeeps DEF Symmetric
<1>4. Clone(h, g) => IInv'
  BY WholeBond, BindKeeps DEF Clone
<1>5. ASSUME SaveLoad(h, g) PROVE IInv'
  <2> DEFINE x == [B(g) EXCEPT !.dim = Total(B(g).degs)]
  <2>1. Formed(B(g)) /\ InRange(B(g))
    BY <1>5, WholeBond DEF SaveLoad
  <2>2. Formed(x) /\ InRange(x)
    BY <2>1, NewDim
  <2>3. Bind(h, B(g)) \/ Bind(h, x)
    BY <1>5 DEF SaveLoad
  <2> HIDE DEF x
  <2> QED
    BY <2>1, <2>2, <2>3, BindKeeps
<1>6. ASSUME NEW type, Retype(h, g, type) PROVE IInv'
  <2>1. Formed(B(g)) /\ InRange(B(g))
    BY <1>6, WholeBond DEF Retype
  <2>2. LET x == [B(g) EXCEPT !.type = type] IN Formed(x) /\ InRange(x)
    BY <2>1, NewType
  <2> QED
    BY <1>6, <2>2, BindKeeps DEF Retype
<1>7. ASSUME Redirect(h, g) PROVE IInv'
  <2>1. Formed(B(g)) /\ InRange(B(g))
    BY <1>7, WholeBond DEF Redirect
  <2>2. LET x == [B(g) EXCEPT !.type = -@] IN Formed(x) /\ InRange(x)
    BY <2>1, NewType
  <2> QED
    BY <1>7, <2>2, BindKeeps DEF Redirect
<1>8. ASSUME Group(h, g) PROVE IInv'
  <2>1. Formed(B(g)) /\ InRange(B(g))
    BY <1>8, WholeBond DEF Group
  <2> QED
    BY <1>8, <2>1, GroupingFormed, BindKeeps DEF Group
<1> QED
  BY <1>1, <1>2, <1>3, <1>4, <1>5, <1>6, <1>7, <1>8

\* Init on the bond there is, whether it returns or throws.
LEMMA AgainKeeps ==
  ASSUME IInv, NEW h \in Handles
  PROVE  /\ \A dim, type : InitAgain(h, dim, type) => IInv'
         /\ \A m \in Specs : InitSymmetricAgain(h, m) => IInv'
<1>1. ASSUME NEW dim, NEW type, InitAgain(h, dim, type) PROVE IInv'
  <2> DEFINE x == [B(h) EXCEPT !.type = type]
             r == InitRegular(B(h), dim, type)
             tn == IF B(h).qnums = <<>> THEN torn \ {ref[h]}
                   ELSE torn \cup {ref[h]}
  <2>1. ref[h] # Void /\ Formed(B(h)) /\ Update(h, r, tn)
    BY <1>1, WholeBond DEF InitAgain
  <2>2. Formed(x) /\ x.qnums = B(h).qnums
    BY <2>1, NewType
  <2>3. r = [x EXCEPT !.dim = dim]
    BY DEF InitRegular
  <2> HIDE DEF x, r
  <2>4. Formed(r) /\ r.qnums = B(h).qnums
    BY <2>2, <2>3, NewDim
  <2>5. B(h).qnums = <<>> => InRange(r)
    BY <2>4 DEF InRange
  <2>6. torn \ {ref[h]} \subseteq tn /\ (ref[h] \notin tn => InRange(r))
    BY <2>5
  <2> HIDE DEF tn
  <2> QED
    BY <2>1, <2>4, <2>6, UpdateKeeps
<1>2. ASSUME NEW m \in Specs, InitSymmetricAgain(h, m) PROVE IInv'
  <2> DEFINE r == InitSymmetric(B(h), m)
             tn == IF Accepted(m) THEN torn \ {ref[h]} ELSE torn \cup {ref[h]}
  <2>1. ref[h] # Void /\ Formed(B(h)) /\ Update(h, r, tn)
    BY <1>2, WholeBond DEF InitSymmetricAgain
  <2>2. Formed(r) /\ (Accepted(m) => InRange(r))
    BY <2>1, InitFormed
  <2> HIDE DEF r
  <2>3. torn \ {ref[h]} \subseteq tn /\ (ref[h] \notin tn => InRange(r))
    BY <2>2
  <2> HIDE DEF tn
  <2> QED
    BY <2>1, <2>2, <2>3, UpdateKeeps
<1> QED
  BY <1>1, <1>2

\* The operations that change one impl.
LEMMA ChangeKeeps ==
  ASSUME IInv, NEW h \in Handles
  PROVE  /\ \A type : SetType(h, type) => IInv'
         /\ RedirectInPlace(h) => IInv'
         /\ GroupInPlace(h) => IInv'
         /\ \A q : Truncate(h, q) => IInv'
<1>1. ASSUME NEW type, SetType(h, type) PROVE IInv'
  <2>1. ref[h] # Void /\ Formed(B(h)) /\ InRange(B(h))
    BY <1>1, WholeBond DEF SetType
  <2>2. LET x == [B(h) EXCEPT !.type = type] IN Formed(x) /\ InRange(x)
    BY <2>1, NewType
  <2> QED
    BY <1>1, <2>1, <2>2, UpdateKeeps DEF SetType
<1>2. ASSUME RedirectInPlace(h) PROVE IInv'
  <2>1. ref[h] # Void /\ Formed(B(h)) /\ InRange(B(h))
    BY <1>2, WholeBond DEF RedirectInPlace
  <2>2. LET x == [B(h) EXCEPT !.type = -@] IN Formed(x) /\ InRange(x)
    BY <2>1, NewType
  <2> QED
    BY <1>2, <2>1, <2>2, UpdateKeeps DEF RedirectInPlace
<1>3. ASSUME GroupInPlace(h) PROVE IInv'
  <2>1. ref[h] # Void /\ Formed(B(h)) /\ InRange(B(h))
    BY <1>3, WholeBond DEF GroupInPlace
  <2> QED
    BY <1>3, <2>1, GroupingFormed, UpdateKeeps DEF GroupInPlace
<1>4. ASSUME NEW q, Truncate(h, q) PROVE IInv'
  <2>1. /\ ref[h] # Void /\ Formed(B(h)) /\ InRange(B(h))
        /\ q \in 1..Len(B(h).qnums)
    BY <1>4, WholeBond DEF Truncate
  <2>2. Formed(Removed(B(h), q)) /\ InRange(Removed(B(h), q))
    BY <2>1, RemovedFormed
  <2> QED
    BY <1>4, <2>1, <2>2, UpdateKeeps DEF Truncate
<1> QED
  BY <1>1, <1>2, <1>3, <1>4

\* The products, and the one that throws.
LEMMA ProductKeeps ==
  ASSUME IInv, NEW h \in Handles, NEW g \in Handles
  PROVE  /\ \A force \in BOOLEAN, grp \in BOOLEAN :
              CombineInPlace(h, g, force, grp) => IInv'
         /\ \A force \in BOOLEAN : CombineThrows(h, g, force) => IInv'
         /\ \A k \in Handles, grp \in BOOLEAN :
              CombineBond(k, h, g, grp) => IInv'
<1>1. ASSUME NEW force \in BOOLEAN, NEW grp \in BOOLEAN,
             CombineInPlace(h, g, force, grp)
      PROVE  IInv'
  <2>1. /\ ref[h] # Void /\ Formed(B(h)) /\ Formed(B(g))
        /\ B(g).syms = B(h).syms
    BY <1>1, WholeBond DEF CombineInPlace
  <2>2. PICK p \in Products(B(h), B(g), grp) : Update(h, p, torn)
    BY <1>1 DEF CombineInPlace
  <2>3. Formed(p) /\ InRange(p)
    BY <2>1, ProductFormed
  <2> QED
    BY <2>1, <2>2, <2>3, UpdateKeeps
<1>2. ASSUME NEW force \in BOOLEAN, CombineThrows(h, g, force) PROVE IInv'
  <2> DEFINE x == [B(h) EXCEPT !.dim = @ * B(g).dim]
             tn == torn \cup {ref[h]}
  <2>1. ref[h] # Void /\ Formed(B(h)) /\ Update(h, x, tn)
    BY <1>2, WholeBond DEF CombineThrows
  <2>2. Formed(x)
    BY <2>1, NewDim
  <2>3. torn \ {ref[h]} \subseteq tn /\ ref[h] \in tn
    OBVIOUS
  <2> HIDE DEF x, tn
  <2> QED
    BY <2>1, <2>2, <2>3, UpdateKeeps
<1>3. ASSUME NEW k \in Handles, NEW grp \in BOOLEAN, CombineBond(k, h, g, grp)
      PROVE  IInv'
  <2>1. Formed(B(h)) /\ Formed(B(g)) /\ B(g).syms = B(h).syms
    BY <1>3, WholeBond DEF CombineBond
  <2>2. PICK p \in Products(B(h), B(g), grp) : Bind(k, p)
    BY <1>3 DEF CombineBond
  <2>3. Formed(p) /\ InRange(p)
    BY <2>1, ProductFormed
  <2> QED
    BY <2>2, <2>3, BindKeeps
<1> QED
  BY <1>1, <1>2, <1>3

LEMMA StepKeeps == IInv /\ [Next]_vars => IInv'
<1> SUFFICES ASSUME IInv, [Next]_vars PROVE IInv'
  OBVIOUS
<1>1. CASE UNCHANGED vars
  BY <1>1 DEF IInv, Live, Intact, Formed, InRange, vars
<1>2. CASE Next
  <2>1. PICK h \in Handles :
          \/ Default(h)
          \/ \E dim \in Dims, type \in Types :
               Regular(h, dim, type) \/ InitAgain(h, dim, type)
          \/ \E m \in Specs : Symmetric(h, m) \/ InitSymmetricAgain(h, m)
          \/ \E type \in Types : SetType(h, type)
          \/ RedirectInPlace(h)
          \/ GroupInPlace(h)
          \/ \E q \in 1..Len(B(h).qnums) : Truncate(h, q)
          \/ \E g \in Handles :
               \/ Assign(h, g) \/ Clone(h, g) \/ SaveLoad(h, g)
               \/ Redirect(h, g) \/ Group(h, g)
               \/ \E type \in Types : Retype(h, g, type)
               \/ \E force \in BOOLEAN :
                    \/ CombineThrows(h, g, force)
                    \/ \E grp \in BOOLEAN : CombineInPlace(h, g, force, grp)
               \/ \E k \in Handles, grp \in BOOLEAN : CombineBond(k, h, g, grp)
    BY <1>2 DEF Next
  <2>2. CASE Default(h)
    BY <2>2, NewBondKeeps
  <2>3. CASE \E dim \in Dims, type \in Types :
               Regular(h, dim, type) \/ InitAgain(h, dim, type)
    BY <2>3, NewBondKeeps, AgainKeeps
  <2>4. CASE \E m \in Specs : Symmetric(h, m) \/ InitSymmetricAgain(h, m)
    BY <2>4, NewBondKeeps, AgainKeeps
  <2>5. CASE \/ \E type \in Types : SetType(h, type)
             \/ RedirectInPlace(h)
             \/ GroupInPlace(h)
             \/ \E q \in 1..Len(B(h).qnums) : Truncate(h, q)
    BY <2>5, ChangeKeeps
  <2>6. ASSUME NEW g \in Handles,
               \/ Assign(h, g) \/ Clone(h, g) \/ SaveLoad(h, g)
               \/ Redirect(h, g) \/ Group(h, g)
               \/ \E type \in Types : Retype(h, g, type)
        PROVE  IInv'
    BY <2>6, AssignKeeps, NewBondKeeps
  <2>7. ASSUME NEW g \in Handles,
               \/ \E force \in BOOLEAN :
                    \/ CombineThrows(h, g, force)
                    \/ \E grp \in BOOLEAN : CombineInPlace(h, g, force, grp)
               \/ \E k \in Handles, grp \in BOOLEAN : CombineBond(k, h, g, grp)
        PROVE  IInv'
    BY <2>7, ProductKeeps
  <2> QED
    BY <2>1, <2>2, <2>3, <2>4, <2>5, <2>6, <2>7
<1> QED
  BY <1>1, <1>2

\* Whatever products, reversals of direction, groupings, truncations, files and
\* failed calls a bond goes through, its quantum numbers stay in the range that
\* Init checked them against, for every Z(n) and any number of symmetries.
THEOREM QnumsInRange == Spec => []QnumsValid
<1>1. IInv => QnumsValid
  BY DEF IInv, QnumsValid, InRange
<1> QED
  BY <1>1, InitHolds, StepKeeps, PTL DEF Spec

-----------------------------------------------------------------------------
(* Types and dimensions.                                                   *)

\* The fields have their types and are as many.
Fit(b) == b \in Bonds /\ Len(b.qnums) = Len(b.degs)

\* The dimension is the sum of the degeneracies.
Kept(b) == b.qnums # <<>> => b.dim = Total(b.degs)

\* The invariant. The types need the dimensions: _rm_qnum subtracts from one.
DimInv == IInv /\ TypeOK /\ DimKept

-----------------------------------------------------------------------------
(* What the parts of the member functions make of a bond.                  *)

LEMMA EmptyFit == Fit(Empty) /\ Kept(Empty)
<1>1. <<>> \in Seq(Seq(Int)) /\ <<>> \in Seq(Nat) /\ <<>> \in Seq(Symmetries)
  OBVIOUS
<1>2. BD_REG \in Types
  BY DEF Types
<1> QED BY <1>1, <1>2 DEF Fit, Kept, Empty, Bonds

LEMMA NewTypeFit ==
  ASSUME NEW b, Fit(b), NEW t \in Types
  PROVE  /\ Fit([b EXCEPT !.type = t])
         /\ Kept(b) => Kept([b EXCEPT !.type = t])
BY DEF Fit, Kept, Bonds

LEMMA NewDimFit ==
  ASSUME NEW b, Fit(b), NEW d \in Nat
  PROVE  /\ Fit([b EXCEPT !.dim = d])
         /\ b.qnums = <<>> \/ d = Total(b.degs) => Kept([b EXCEPT !.dim = d])
BY DEF Fit, Kept, Bonds

\* Sectors: numbers, and as many degeneracies.
Sectors(q, g) == q \in Seq(Seq(Int)) /\ g \in Seq(Nat) /\ Len(q) = Len(g)

\* b with other sectors.
Resected(b, d, q, g) == [b EXCEPT !.dim = d, !.qnums = q, !.degs = g]

LEMMA ResectedFit ==
  ASSUME NEW b, Fit(b), NEW q, NEW g, Sectors(q, g), NEW d, d \in Nat
  PROVE  /\ Fit(Resected(b, d, q, g))
         /\ Resected(b, d, q, g).dim = d
         /\ Resected(b, d, q, g).qnums = q
         /\ Resected(b, d, q, g).degs = g
<1> DEFINE c == [b EXCEPT !.dim = d, !.qnums = q, !.degs = g]
<1>1. b \in Bonds
  BY DEF Fit
<1>2. q \in Seq(Seq(Int)) /\ g \in Seq(Nat) /\ Len(q) = Len(g)
  BY DEF Sectors
<1>3. c.dim = d /\ c.qnums = q /\ c.degs = g /\ c \in Bonds
  BY <1>1, <1>2 DEF Bonds
<1>4. Resected(b, d, q, g) = c
  BY DEF Resected
<1> HIDE DEF c
<1> QED BY <1>2, <1>3, <1>4 DEF Fit

\* The degeneracies of a bond, as a list of integers too.
LEMMA Degs ==
  ASSUME NEW b, Fit(b)
  PROVE  /\ b.degs \in Seq(Nat) /\ b.degs \in Seq(Int)
         /\ Total(b.degs) \in Nat /\ b.dim \in Nat /\ b.type \in Types
         /\ b.qnums \in Seq(Seq(Int)) /\ Len(b.qnums) = Len(b.degs)
<1>1. /\ b.degs \in Seq(Nat) /\ b.dim \in Nat /\ b.type \in Types
      /\ b.qnums \in Seq(Seq(Int)) /\ Len(b.qnums) = Len(b.degs)
  BY DEF Fit, Bonds
<1>2. b.degs \in Seq(Int)
  BY <1>1
<1> QED BY <1>1, <1>2, TotalNat

\* Init, whether it returns or throws.
LEMMA InitFit ==
  ASSUME NEW b, Fit(b), NEW m \in Specs
  PROVE  /\ Fit(InitSymmetric(b, m))
         /\ Accepted(m) => Kept(InitSymmetric(b, m))
<1>1. /\ m.type \in Types /\ m.qnums \in Seq(Seq(Int)) /\ m.degs \in Seq(Nat)
      /\ Len(m.degs) = Len(m.qnums) /\ m.qnums # <<>> /\ m.syms \in Seq(Symmetries)
  BY BondAssumption DEF Types, BD_KET, BD_REG, BD_BRA
<1>2. Total(m.degs) \in Nat
  BY <1>1, TotalNat
<1>3. CASE HasZero(m)
  <2>1. Total(UpToZero(m)) \in Nat
    BY <1>1, <1>3, UpToZeroNat
  <2> QED BY <1>3, <2>1, NewDimFit DEF InitSymmetric, Accepted
<1>4. CASE ~HasZero(m) /\ Misfit(m)
  BY <1>2, <1>4, NewDimFit DEF InitSymmetric, Accepted
<1>5. CASE ~HasZero(m) /\ ~Misfit(m)
  <2> DEFINE c == [type |-> m.type, dim |-> Total(m.degs), qnums |-> m.qnums,
                   degs |-> m.degs, syms |-> SymsOf(m)]
  <2>1. InitSymmetric(b, m) = c
    BY <1>5 DEF InitSymmetric
  <2>2. SymsOf(m) \in Seq(Symmetries)
    <3>1. CASE m.syms = <<>>
      <4>1. U1 \in Symmetries
        BY DEF Symmetries
      <4>2. Len(m.qnums[1]) \in Nat
        <5>1. m.qnums[1] \in Seq(Int)
          BY <1>1
        <5> QED BY <5>1
      <4> QED BY <3>1, <4>1, <4>2 DEF SymsOf
    <3>2. CASE m.syms # <<>>
      BY <1>1, <3>2 DEF SymsOf
    <3> QED BY <3>1, <3>2
  <2>3. c \in Bonds /\ Len(c.qnums) = Len(c.degs)
    BY <1>1, <1>2, <2>2 DEF Bonds
  <2>4. Fit(c) /\ Kept(c)
    BY <2>3 DEF Fit, Kept
  <2> QED BY <2>1, <2>4
<1> QED BY <1>3, <1>4, <1>5

\* Grouping: the sectors are fewer, the sum is the same.
LEMMA GroupingFit ==
  ASSUME NEW b, Fit(b), Formed(b), NEW c \in Groupings(b)
  PROVE  Fit(c) /\ (Kept(b) => Kept(c))
<1>1. PICK s \in SortedQnums(b) : c = Grouped(b, s)
  BY DEF Groupings
<1> DEFINE g == [k \in 1..Len(s) |-> DegOf(b, s[k])]
           m == Len(b.qnums)
<1>2. /\ b.degs \in Seq(Nat) /\ b.degs \in Seq(Int) /\ Total(b.degs) \in Nat
      /\ b.dim \in Nat /\ b.qnums \in Seq(Seq(Int)) /\ Len(b.degs) = m
  BY Degs
<1>3. m \in Nat /\ Len(b.syms) \in Nat
  BY <1>2 DEF Fit, Bonds
<1>4. Formed(c)
  BY GroupingFormed
<1>5. c.qnums = s /\ c = [b EXCEPT !.dim = b.dim, !.qnums = s, !.degs = g]
  BY <1>1, <1>3 DEF Grouped, Fit, Bonds
<1>6. s \in Seq(Seq(Int)) /\ Len(s) \in Nat
  <2>1. c.qnums \in Seq(Seq(Int))
    BY <1>4 DEF Formed
  <2>2. s \in Seq(Seq(Int))
    BY <1>5, <2>1
  <2> QED BY <2>2
<1>7. ASSUME NEW q PROVE DegOf(b, q) \in Nat
  <2> DEFINE t == [k \in 1..m |-> IF b.qnums[k] = q THEN b.degs[k] ELSE 0]
  <2>1. \A k \in 1..m : b.degs[k] \in Nat
    BY <1>2, SMTT(30)
  <2>2. t \in Seq(Nat)
    BY <1>3, <2>1
  <2> HIDE DEF t
  <2>3. Total(t) \in Nat
    BY <2>2, TotalNat
  <2> QED BY <2>3 DEF DegOf, t
<1>8. g \in Seq(Nat) /\ Len(g) = Len(s)
  BY <1>6, <1>7
<1>9. Total(g) = Total(b.degs)
  <2>1. \A k \in 1..Len(b.qnums) : Len(b.qnums[k]) = Len(b.syms)
    BY DEF Formed
  <2> QED BY <1>2, <1>3, <2>1, TotalGrouped
<1>10. Fit(c) /\ c.dim = b.dim /\ c.degs = g
  <2>1. Sectors(s, g)
    BY <1>6, <1>8 DEF Sectors
  <2>2. c = Resected(b, b.dim, s, g)
    BY <1>5 DEF Resected
  <2> HIDE DEF g
  <2> QED BY <1>2, <2>1, <2>2, ResectedFit
<1>11. s # <<>> => b.qnums # <<>>
  <2>1. SUFFICES ASSUME b.qnums = <<>> PROVE s = <<>>
    OBVIOUS
  <2>2. ToSet(b.qnums) = {}
    BY <2>1 DEF ToSet
  <2>3. s \in [1..0 -> {}]
    BY <2>2, FS_EmptySet DEF SortedQnums
  <2> QED BY <1>6, <2>3
<1> QED BY <1>5, <1>9, <1>10, <1>11 DEF Kept

\* One sector removed, of a bond whose dimension is the sum.
LEMMA RemovedFit ==
  ASSUME NEW b, Fit(b), Kept(b), NEW q \in 1..Len(b.qnums)
  PROVE  Fit(Removed(b, q)) /\ Kept(Removed(b, q))
<1> DEFINE r == RemoveAt(b.qnums, q)
           g == RemoveAt(b.degs, q)
           d == b.dim - b.degs[q]
<1>1. /\ b.degs \in Seq(Nat) /\ b.degs \in Seq(Int) /\ b.dim \in Nat
      /\ b.qnums \in Seq(Seq(Int)) /\ Len(b.qnums) = Len(b.degs)
  BY Degs
<1>2. q \in 1..Len(b.degs) /\ b.degs[q] \in Nat
  BY <1>1
<1>3. r \in Seq(Seq(Int)) /\ Len(r) = Len(b.qnums) - 1
  BY <1>1, RemoveAtIs
<1>4. g \in Seq(Nat) /\ Len(g) = Len(b.degs) - 1
  BY <1>1, <1>2, RemoveAtIs
<1>5. b.dim = Total(g) + b.degs[q] /\ Total(g) \in Nat
  <2>1. b.qnums # <<>>
    <3>1. CASE b.qnums = <<>>
      <4>1. Len(b.qnums) = 0
        BY <3>1
      <4> QED BY <4>1
    <3> QED BY <3>1
  <2>2. Total(b.degs) = Total(g) + b.degs[q]
    BY <1>1, <1>2, TotalRemove
  <2>3. Total(g) \in Nat
    BY <1>4, TotalNat
  <2> QED BY <2>1, <2>2, <2>3 DEF Kept
<1>6. Removed(b, q) = Resected(b, d, r, g)
  BY DEF Removed, Resected, Fit, Bonds
<1>7. Sectors(r, g)
  BY <1>1, <1>3, <1>4 DEF Sectors
<1>8. d \in Nat /\ d = Total(g)
  BY <1>2, <1>5
<1> HIDE DEF d, r, g
<1> QED BY <1>6, <1>7, <1>8, ResectedFit DEF Kept

\* The product of two bonds with the same symmetries.
LEMMA CombinedFit ==
  ASSUME NEW b, Fit(b), Kept(b), Formed(b),
         NEW c, Fit(c), Kept(c), Formed(c), c.syms = b.syms
  PROVE  Fit(Combined(b, c)) /\ Kept(Combined(b, c))
<1> DEFINE n == Len(c.qnums)
           m == Len(b.qnums)
           p == Combined(b, c)
           g == [d \in 1..(m * n) |->
                   b.degs[((d - 1) \div n) + 1] * c.degs[((d - 1) % n) + 1]]
<1>1. /\ b.degs \in Seq(Nat) /\ b.degs \in Seq(Int) /\ b.dim \in Nat
      /\ b.qnums \in Seq(Seq(Int)) /\ Len(b.degs) = m
  BY Degs
<1>2. /\ c.degs \in Seq(Nat) /\ c.degs \in Seq(Int) /\ c.dim \in Nat
      /\ c.qnums \in Seq(Seq(Int)) /\ Len(c.degs) = n
  BY Degs
<1>3. m \in Nat /\ n \in Nat
  BY <1>1, <1>2
<1>4. m * n \in Nat /\ b.dim * c.dim \in Nat
  <2> HIDE DEF m, n
  <2> QED BY <1>1, <1>2, <1>3, Times
<1>5. /\ p.dim = b.dim * c.dim /\ p.degs = g /\ Len(p.qnums) = m * n
      /\ p = Resected(b, p.dim, p.qnums, p.degs)
  BY <1>4 DEF Combined, Resected, Fit, Bonds
<1>6. p.qnums \in Seq(Seq(Int))
  <2>1. Formed(p)
    BY CombinedFormed
  <2> HIDE DEF p
  <2> QED BY <2>1 DEF Formed
<1>7. g = Table(b.degs, c.degs)
  BY <1>1, <1>2 DEF Table
<1>8. /\ g \in Seq(Nat) /\ Len(g) = m * n
      /\ Total(g) = Total(b.degs) * Total(c.degs)
  <2> HIDE DEF g, m, n
  <2> QED BY <1>1, <1>2, <1>7, TableNat, TotalProduct
<1>9. Sectors(p.qnums, p.degs)
  <2> HIDE DEF p, g
  <2> QED BY <1>5, <1>6, <1>8 DEF Sectors
<1>10. Fit(p)
  <2> HIDE DEF p, g
  <2> QED BY <1>4, <1>5, <1>9, ResectedFit
<1>11. Kept(p)
  <2>1. SUFFICES ASSUME p.qnums # <<>> PROVE p.dim = Total(p.degs)
    BY DEF Kept
  <2>2. m # 0 /\ n # 0
    <3>1. CASE m * n = 0
      <4>1. Len(p.qnums) = 0
        BY <1>5, <3>1
      <4> HIDE DEF p
      <4>2. p.qnums = <<>>
        <5>1. \A s \in Seq(Seq(Int)) : Len(s) = 0 => s = <<>>
          OBVIOUS
        <5> QED BY <1>6, <4>1, <5>1
      <4> QED BY <2>1, <4>2
    <3>2. CASE m * n # 0
      <4> HIDE DEF m, n
      <4> QED BY <1>3, <3>2
    <3> QED BY <3>1, <3>2
  <2>3. b.qnums # <<>> /\ c.qnums # <<>>
    BY <2>2
  <2>4. b.dim = Total(b.degs) /\ c.dim = Total(c.degs)
    BY <2>3 DEF Kept
  <2> HIDE DEF p, g
  <2> QED BY <1>5, <1>8, <2>4
<1> QED BY <1>10, <1>11

LEMMA ProductFit ==
  ASSUME NEW b, Fit(b), Kept(b), Formed(b),
         NEW c, Fit(c), Kept(c), Formed(c), c.syms = b.syms,
         NEW grp \in BOOLEAN, NEW p \in Products(b, c, grp)
  PROVE  Fit(p) /\ Kept(p)
<1>1. Fit(Combined(b, c)) /\ Kept(Combined(b, c)) /\ Formed(Combined(b, c))
  BY CombinedFit, CombinedFormed
<1>2. CASE grp
  BY <1>1, <1>2, GroupingFit DEF Products
<1>3. CASE ~grp
  BY <1>1, <1>3 DEF Products
<1> QED BY <1>2, <1>3

-----------------------------------------------------------------------------
(* The three ways in which an operation changes the state.                 *)

LEMMA DimInvFacts ==
  ASSUME DimInv, NEW h \in Handles
  PROVE  /\ ref[h] # Void => Fit(B(h)) /\ Formed(B(h))
         /\ Whole(h) => Kept(B(h))
BY DEF DimInv, IInv, TypeOK, DimKept, Live, Intact, Whole, B, Fit, Kept

LEMMA BindDims ==
  ASSUME TypeOK, DimKept, NEW h \in Handles, NEW b, Fit(b), Kept(b), Bind(h, b)
  PROVE  TypeOK' /\ DimKept'
<1>1. PICK i \in Impls \ Live(ref) :
        Commit([ref EXCEPT ![h] = i], [impl EXCEPT ![i] = b], torn)
  BY DEF Bind
<1>2. /\ ref' = [ref EXCEPT ![h] = i] /\ ref' \in [Handles -> Impls \cup {Void}]
      /\ torn' = torn \cap Live(ref')
      /\ DOMAIN impl' = Impls
      /\ \A j \in Impls \ Live(ref') : impl'[j] = None
      /\ \A j \in Impls \cap Live(ref') : impl'[j] = [impl EXCEPT ![i] = b][j]
  BY <1>1 DEF Commit, TypeOK, Live
<1>3. Live(ref') \subseteq Live(ref) \cup {i} /\ Live(ref') \subseteq Impls
  BY <1>2 DEF Live, TypeOK
<1>4. \A j \in Live(ref') :
        IF j = i THEN impl'[j] = b ELSE impl'[j] = impl[j] /\ j \in Live(ref)
  BY <1>2, <1>3 DEF TypeOK
<1>5. \A j \in Live(ref') : impl'[j] \in Bonds /\ Len(impl'[j].qnums) = Len(impl'[j].degs)
  BY <1>3, <1>4 DEF TypeOK, Fit
<1>6. \A j \in Live(ref') \ torn' :
        impl'[j].qnums # <<>> => impl'[j].dim = Total(impl'[j].degs)
  <2>1. SUFFICES ASSUME NEW j \in Live(ref') \ torn' PROVE Kept(impl'[j])
    BY DEF Kept
  <2>2. CASE j = i
    BY <1>4, <2>2
  <2>3. CASE j # i
    <3>1. j \in Intact /\ impl'[j] = impl[j]
      BY <1>2, <1>4, <2>3 DEF Intact
    <3> QED BY <3>1 DEF DimKept, Kept
  <2> QED BY <2>2, <2>3
<1>7. TypeOK'
  BY <1>2, <1>5 DEF TypeOK, Live
<1>8. DimKept'
  BY <1>6 DEF DimKept, Intact, Live
<1> QED BY <1>7, <1>8

LEMMA UpdateDims ==
  ASSUME TypeOK, DimKept, NEW h \in Handles, ref[h] # Void, NEW b, Fit(b),
         NEW tn, torn \ {ref[h]} \subseteq tn, ref[h] \notin tn => Kept(b),
         Update(h, b, tn)
  PROVE  TypeOK' /\ DimKept'
<1>1. /\ ref' = ref /\ torn' = tn \cap Live(ref) /\ DOMAIN impl' = Impls
      /\ \A j \in Impls \ Live(ref) : impl'[j] = None
      /\ \A j \in Impls \cap Live(ref) : impl'[j] = [impl EXCEPT ![ref[h]] = b][j]
  BY DEF Update, Commit
<1>2. Live(ref') = Live(ref) /\ Live(ref) \subseteq Impls /\ ref[h] \in Live(ref)
  BY <1>1 DEF Live, TypeOK
<1>3. \A j \in Live(ref) :
        impl'[j] = IF j = ref[h] THEN b ELSE impl[j]
  BY <1>1, <1>2 DEF TypeOK
<1>4. \A j \in Live(ref) : impl'[j] \in Bonds /\ Len(impl'[j].qnums) = Len(impl'[j].degs)
  BY <1>2, <1>3 DEF TypeOK, Fit
<1>5. \A j \in Live(ref) \ torn' :
        impl'[j].qnums # <<>> => impl'[j].dim = Total(impl'[j].degs)
  BY <1>1, <1>3 DEF DimKept, Intact, Kept
<1>6. TypeOK'
  BY <1>1, <1>2, <1>4 DEF TypeOK, Live
<1>7. DimKept'
  BY <1>2, <1>5 DEF DimKept, Intact, Live
<1> QED BY <1>6, <1>7

LEMMA AssignDims ==
  ASSUME TypeOK, DimKept, NEW h \in Handles, NEW g \in Handles, Assign(h, g)
  PROVE  TypeOK' /\ DimKept'
<1>1. /\ ref[g] # Void /\ ref' = [ref EXCEPT ![h] = ref[g]]
      /\ torn' = torn \cap Live(ref')
      /\ impl' = [i \in Impls |-> IF i \in Live(ref') THEN impl[i] ELSE None]
  BY DEF Assign, Commit
<1>2. ref' \in [Handles -> Impls \cup {Void}]
  BY <1>1 DEF TypeOK
<1>3. Live(ref') \subseteq Live(ref) /\ Live(ref') \subseteq Impls
  BY <1>1, <1>2 DEF Live, TypeOK
<1>4. \A j \in Live(ref') : impl'[j] = impl[j]
  BY <1>1, <1>3
<1>5. \A j \in Live(ref') : impl'[j] \in Bonds /\ Len(impl'[j].qnums) = Len(impl'[j].degs)
  BY <1>3, <1>4 DEF TypeOK
<1>6. \A j \in Live(ref') \ torn' :
        impl'[j].qnums # <<>> => impl'[j].dim = Total(impl'[j].degs)
  BY <1>1, <1>3, <1>4 DEF DimKept, Intact
<1>7. TypeOK'
  BY <1>1, <1>2, <1>3, <1>5 DEF TypeOK, Live
<1>8. DimKept'
  BY <1>6 DEF DimKept, Intact, Live
<1> QED BY <1>7, <1>8

-----------------------------------------------------------------------------
(* The invariant.                                                          *)

LEMMA InitDims == Init => DimInv
<1> SUFFICES ASSUME Init PROVE TypeOK /\ DimKept
  BY InitHolds DEF DimInv
<1>1. Live(ref) = {}
  BY DEF Init, Live
<1> QED BY <1>1 DEF Init, TypeOK, DimKept, Intact

\* The operations that give a handle a new impl.
LEMMA NewBondDims ==
  ASSUME DimInv, NEW h \in Handles, NEW g \in Handles
  PROVE  LET After == TypeOK' /\ DimKept'
         IN /\ Default(h) => After
            /\ \A dim \in Dims, type \in Types : Regular(h, dim, type) => After
            /\ \A m \in Specs : Symmetric(h, m) => After
            /\ Assign(h, g) => After
            /\ Clone(h, g) => After
            /\ SaveLoad(h, g) => After
            /\ \A type \in Types : Retype(h, g, type) => After
            /\ Redirect(h, g) => After
            /\ Group(h, g) => After
<1> DEFINE After == TypeOK' /\ DimKept'
<1>0. TypeOK /\ DimKept
  BY DEF DimInv
<1>1. Default(h) => After
  BY <1>0, EmptyFit, BindDims DEF Default
<1>2. ASSUME NEW dim \in Dims, NEW type \in Types, Regular(h, dim, type) PROVE After
  <2> DEFINE x == [Empty EXCEPT !.type = type]
             y == InitRegular(Empty, dim, type)
  <2>1. Fit(x) /\ x.qnums = <<>>
    BY EmptyFit, NewTypeFit DEF Empty
  <2>2. dim \in Nat
    BY BondAssumption
  <2>3. y = [x EXCEPT !.dim = dim]
    BY DEF InitRegular
  <2>4. Bind(h, y)
    BY <1>2 DEF Regular
  <2> HIDE DEF x, y
  <2>5. Fit(y) /\ Kept(y)
    BY <2>1, <2>2, <2>3, NewDimFit
  <2> QED BY <1>0, <2>4, <2>5, BindDims
<1>3. ASSUME NEW m \in Specs, Symmetric(h, m) PROVE After
  BY <1>0, <1>3, EmptyFit, InitFit, BindDims DEF Symmetric
<1>4. Assign(h, g) => After
  BY <1>0, AssignDims
<1>5. Clone(h, g) => After
  BY <1>0, DimInvFacts, BindDims DEF Clone, Whole
<1>6. ASSUME SaveLoad(h, g) PROVE After
  <2> DEFINE x == [B(g) EXCEPT !.dim = Total(B(g).degs)]
  <2>1. Fit(B(g)) /\ Kept(B(g))
    BY <1>6, DimInvFacts DEF SaveLoad, Whole
  <2>2. Fit(x) /\ Kept(x)
    BY <2>1, Degs, NewDimFit
  <2>3. Bind(h, B(g)) \/ Bind(h, x)
    BY <1>6 DEF SaveLoad
  <2> HIDE DEF x
  <2> QED BY <1>0, <2>1, <2>2, <2>3, BindDims
<1>7. ASSUME NEW type \in Types, Retype(h, g, type) PROVE After
  <2> DEFINE x == [B(g) EXCEPT !.type = type]
  <2>1. Fit(B(g)) /\ Kept(B(g))
    BY <1>7, DimInvFacts DEF Retype, Whole
  <2>2. Fit(x) /\ Kept(x)
    BY <2>1, NewTypeFit
  <2> QED BY <1>0, <1>7, <2>2, BindDims DEF Retype
<1>8. ASSUME Redirect(h, g) PROVE After
  <2> DEFINE x == [B(g) EXCEPT !.type = -@]
  <2>1. Fit(B(g)) /\ Kept(B(g))
    BY <1>8, DimInvFacts DEF Redirect, Whole
  <2>2. -(B(g).type) \in Types
    BY <2>1, Degs DEF Types, BD_KET, BD_REG, BD_BRA
  <2>3. Fit(x) /\ Kept(x)
    BY <2>1, <2>2, NewTypeFit
  <2> QED BY <1>0, <1>8, <2>3, BindDims DEF Redirect
<1>9. ASSUME Group(h, g) PROVE After
  <2>1. Fit(B(g)) /\ Kept(B(g)) /\ Formed(B(g))
    BY <1>9, DimInvFacts DEF Group, Whole
  <2> QED BY <1>0, <1>9, <2>1, GroupingFit, BindDims DEF Group
<1> QED BY <1>1, <1>2, <1>3, <1>4, <1>5, <1>6, <1>7, <1>8, <1>9

\* The operations that change the impl there is.
LEMMA ChangeDims ==
  ASSUME DimInv, NEW h \in Handles
  PROVE  LET After == TypeOK' /\ DimKept'
         IN /\ \A dim \in Dims, type \in Types : InitAgain(h, dim, type) => After
            /\ \A m \in Specs : InitSymmetricAgain(h, m) => After
            /\ \A type \in Types : SetType(h, type) => After
            /\ RedirectInPlace(h) => After
            /\ GroupInPlace(h) => After
            /\ \A q : Truncate(h, q) => After
<1> DEFINE After == TypeOK' /\ DimKept'
<1>0. TypeOK /\ DimKept
  BY DEF DimInv
<1>1. ASSUME NEW dim \in Dims, NEW type \in Types, InitAgain(h, dim, type) PROVE After
  <2> DEFINE x == [B(h) EXCEPT !.type = type]
             r == InitRegular(B(h), dim, type)
             tn == IF B(h).qnums = <<>> THEN torn \ {ref[h]}
                   ELSE torn \cup {ref[h]}
  <2>1. ref[h] # Void /\ Fit(B(h)) /\ Update(h, r, tn)
    BY <1>1, DimInvFacts DEF InitAgain
  <2>2. dim \in Nat
    BY BondAssumption
  <2>3. Fit(x) /\ x.qnums = B(h).qnums
    BY <2>1, NewTypeFit DEF Fit, Bonds
  <2>4. r = [x EXCEPT !.dim = dim]
    BY DEF InitRegular
  <2> HIDE DEF x, r
  <2>5. Fit(r) /\ (B(h).qnums = <<>> => Kept(r))
    BY <2>2, <2>3, <2>4, NewDimFit
  <2>6. torn \ {ref[h]} \subseteq tn /\ (ref[h] \notin tn => Kept(r))
    BY <2>5
  <2> HIDE DEF tn
  <2> QED BY <1>0, <2>1, <2>5, <2>6, UpdateDims
<1>2. ASSUME NEW m \in Specs, InitSymmetricAgain(h, m) PROVE After
  <2> DEFINE r == InitSymmetric(B(h), m)
             tn == IF Accepted(m) THEN torn \ {ref[h]} ELSE torn \cup {ref[h]}
  <2>1. ref[h] # Void /\ Fit(B(h)) /\ Update(h, r, tn)
    BY <1>2, DimInvFacts DEF InitSymmetricAgain
  <2>2. Fit(r) /\ (Accepted(m) => Kept(r))
    BY <2>1, InitFit
  <2> HIDE DEF r
  <2>3. torn \ {ref[h]} \subseteq tn /\ (ref[h] \notin tn => Kept(r))
    BY <2>2
  <2> HIDE DEF tn
  <2> QED BY <1>0, <2>1, <2>2, <2>3, UpdateDims
<1>3. ASSUME NEW type \in Types, SetType(h, type) PROVE After
  <2> DEFINE x == [B(h) EXCEPT !.type = type]
  <2>1. ref[h] # Void /\ Fit(B(h)) /\ Kept(B(h))
    BY <1>3, DimInvFacts DEF SetType, Whole
  <2>2. Fit(x) /\ Kept(x)
    BY <2>1, NewTypeFit
  <2> QED BY <1>0, <1>3, <2>1, <2>2, UpdateDims DEF SetType
<1>4. ASSUME RedirectInPlace(h) PROVE After
  <2> DEFINE x == [B(h) EXCEPT !.type = -@]
  <2>1. ref[h] # Void /\ Fit(B(h)) /\ Kept(B(h))
    BY <1>4, DimInvFacts DEF RedirectInPlace, Whole
  <2>2. -(B(h).type) \in Types
    BY <2>1, Degs DEF Types, BD_KET, BD_REG, BD_BRA
  <2>3. Fit(x) /\ Kept(x)
    BY <2>1, <2>2, NewTypeFit
  <2> QED BY <1>0, <1>4, <2>1, <2>3, UpdateDims DEF RedirectInPlace
<1>5. ASSUME GroupInPlace(h) PROVE After
  <2>1. ref[h] # Void /\ Fit(B(h)) /\ Kept(B(h)) /\ Formed(B(h))
    BY <1>5, DimInvFacts DEF GroupInPlace, Whole
  <2> QED BY <1>0, <1>5, <2>1, GroupingFit, UpdateDims DEF GroupInPlace
<1>6. ASSUME NEW q, Truncate(h, q) PROVE After
  <2>1. /\ ref[h] # Void /\ Fit(B(h)) /\ Kept(B(h))
        /\ q \in 1..Len(B(h).qnums)
    BY <1>6, DimInvFacts DEF Truncate, Whole
  <2>2. Fit(Removed(B(h), q)) /\ Kept(Removed(B(h), q))
    BY <2>1, RemovedFit
  <2> QED BY <1>0, <1>6, <2>1, <2>2, UpdateDims DEF Truncate
<1> QED BY <1>1, <1>2, <1>3, <1>4, <1>5, <1>6

\* The products, and the one that throws.
LEMMA ProductDims ==
  ASSUME DimInv, NEW h \in Handles, NEW g \in Handles
  PROVE  LET After == TypeOK' /\ DimKept'
         IN /\ \A force \in BOOLEAN, grp \in BOOLEAN :
                 CombineInPlace(h, g, force, grp) => After
            /\ \A force \in BOOLEAN : CombineThrows(h, g, force) => After
            /\ \A k \in Handles, grp \in BOOLEAN :
                 CombineBond(k, h, g, grp) => After
<1> DEFINE After == TypeOK' /\ DimKept'
<1>0. TypeOK /\ DimKept
  BY DEF DimInv
<1>1. ASSUME NEW force \in BOOLEAN, NEW grp \in BOOLEAN,
             CombineInPlace(h, g, force, grp)
      PROVE  After
  <2>1. /\ ref[h] # Void /\ B(g).syms = B(h).syms
        /\ Fit(B(h)) /\ Kept(B(h)) /\ Formed(B(h))
        /\ Fit(B(g)) /\ Kept(B(g)) /\ Formed(B(g))
    BY <1>1, DimInvFacts DEF CombineInPlace, Whole
  <2>2. PICK p \in Products(B(h), B(g), grp) : Update(h, p, torn)
    BY <1>1 DEF CombineInPlace
  <2>3. Fit(p) /\ Kept(p)
    BY <2>1, ProductFit
  <2> QED BY <1>0, <2>1, <2>2, <2>3, UpdateDims
<1>2. ASSUME NEW force \in BOOLEAN, CombineThrows(h, g, force) PROVE After
  <2> DEFINE x == [B(h) EXCEPT !.dim = @ * B(g).dim]
             tn == torn \cup {ref[h]}
  <2>1. ref[h] # Void /\ Fit(B(h)) /\ Fit(B(g)) /\ Update(h, x, tn)
    BY <1>2, DimInvFacts DEF CombineThrows, Whole
  <2>2. B(h).dim * B(g).dim \in Nat
    BY <2>1, Degs, Times
  <2>3. Fit(x)
    BY <2>1, <2>2, NewDimFit
  <2>4. torn \ {ref[h]} \subseteq tn /\ ref[h] \in tn
    OBVIOUS
  <2> HIDE DEF x, tn
  <2> QED BY <1>0, <2>1, <2>3, <2>4, UpdateDims
<1>3. ASSUME NEW k \in Handles, NEW grp \in BOOLEAN, CombineBond(k, h, g, grp)
      PROVE  After
  <2>1. /\ B(g).syms = B(h).syms
        /\ Fit(B(h)) /\ Kept(B(h)) /\ Formed(B(h))
        /\ Fit(B(g)) /\ Kept(B(g)) /\ Formed(B(g))
    BY <1>3, DimInvFacts DEF CombineBond, Whole
  <2>2. PICK p \in Products(B(h), B(g), grp) : Bind(k, p)
    BY <1>3 DEF CombineBond
  <2>3. Fit(p) /\ Kept(p)
    BY <2>1, ProductFit
  <2> QED BY <1>0, <2>2, <2>3, BindDims
<1> QED BY <1>1, <1>2, <1>3

LEMMA StepDims == DimInv /\ [Next]_vars => DimInv'
<1> SUFFICES ASSUME DimInv, [Next]_vars PROVE TypeOK' /\ DimKept'
  BY StepKeeps DEF DimInv
<1>1. CASE UNCHANGED vars
  BY <1>1 DEF DimInv, TypeOK, DimKept, Live, Intact, vars
<1>2. CASE Next
  <2>1. PICK h \in Handles :
          \/ Default(h)
          \/ \E dim \in Dims, type \in Types :
               Regular(h, dim, type) \/ InitAgain(h, dim, type)
          \/ \E m \in Specs : Symmetric(h, m) \/ InitSymmetricAgain(h, m)
          \/ \E type \in Types : SetType(h, type)
          \/ RedirectInPlace(h)
          \/ GroupInPlace(h)
          \/ \E q \in 1..Len(B(h).qnums) : Truncate(h, q)
          \/ \E g \in Handles :
               \/ Assign(h, g) \/ Clone(h, g) \/ SaveLoad(h, g)
               \/ Redirect(h, g) \/ Group(h, g)
               \/ \E type \in Types : Retype(h, g, type)
               \/ \E force \in BOOLEAN :
                    \/ CombineThrows(h, g, force)
                    \/ \E grp \in BOOLEAN : CombineInPlace(h, g, force, grp)
               \/ \E k \in Handles, grp \in BOOLEAN : CombineBond(k, h, g, grp)
    BY <1>2 DEF Next
  <2>2. CASE Default(h)
    BY <2>2, NewBondDims
  <2>3. CASE \E dim \in Dims, type \in Types :
               Regular(h, dim, type) \/ InitAgain(h, dim, type)
    BY <2>3, NewBondDims, ChangeDims
  <2>4. CASE \E m \in Specs : Symmetric(h, m) \/ InitSymmetricAgain(h, m)
    BY <2>4, NewBondDims, ChangeDims
  <2>5. CASE \/ \E type \in Types : SetType(h, type)
             \/ RedirectInPlace(h)
             \/ GroupInPlace(h)
             \/ \E q \in 1..Len(B(h).qnums) : Truncate(h, q)
    BY <2>5, ChangeDims
  <2>6. ASSUME NEW g \in Handles,
               \/ Assign(h, g) \/ Clone(h, g) \/ SaveLoad(h, g)
               \/ Redirect(h, g) \/ Group(h, g)
               \/ \E type \in Types : Retype(h, g, type)
        PROVE  TypeOK' /\ DimKept'
    BY <2>6, NewBondDims
  <2>7. ASSUME NEW g \in Handles,
               \/ \E force \in BOOLEAN :
                    \/ CombineThrows(h, g, force)
                    \/ \E grp \in BOOLEAN : CombineInPlace(h, g, force, grp)
               \/ \E k \in Handles, grp \in BOOLEAN : CombineBond(k, h, g, grp)
        PROVE  TypeOK' /\ DimKept'
    BY <2>7, ProductDims
  <2> QED BY <2>1, <2>2, <2>3, <2>4, <2>5, <2>6, <2>7
<1> QED BY <1>1, <1>2

\* No call, also none that throws, leaves a bond with more sectors than
\* degeneracies or with a negative dimension, and no bond outlives its handles
\* (intrusive_ptr.hpp; Bond.cpp).
THEOREM BondTypes == Spec => []TypeOK
<1>1. DimInv => TypeOK
  BY DEF DimInv
<1> QED BY <1>1, InitDims, StepDims, PTL DEF Spec

\* For any number of sectors and symmetries, and any degeneracies: the dimension
\* that combineBond_ multiplies, _rm_qnum reduces and the loader sums up is the
\* sum of the degeneracies, whatever is grouped, turned or removed on the way.
THEOREM DimensionIsSum == Spec => []DimKept
<1>1. DimInv => DimKept
  BY DEF DimInv
<1> QED BY <1>1, InitDims, StepDims, PTL DEF Spec

-----------------------------------------------------------------------------
(* What the parts of the member functions make of a bond, in the space it  *)
(* stands for.                                                             *)

\* A bond has numbers if and only if it has symmetries.
Sided(b) == b.qnums = <<>> <=> b.syms = <<>>

\* No sector is empty, and a bond with symmetries has a direction.
Proper(b) ==
  /\ \A k \in 1..Len(b.degs) : b.degs[k] # 0
  /\ b.syms = <<>> \/ b.type # BD_REG

\* The multiplicities of the numbers of b.
MultOf(b) ==
  IF b.syms = <<>> THEN [c \in {<<>>} |-> b.dim]
  ELSE [c \in ToSet(b.qnums) |-> DegOf(b, c)]

LEMMA SpaceIs ==
  ASSUME NEW b
  PROVE  /\ SpaceOf(b) = [type |-> b.type, syms |-> b.syms, mult |-> MultOf(b)]
         /\ SpaceOf(b).type = b.type /\ SpaceOf(b).syms = b.syms
         /\ SpaceOf(b).mult = MultOf(b)
BY DEF SpaceOf, MultOf

\* Its numbers and degeneracies, counted.
LEMMA MultCounted ==
  ASSUME NEW b, Fit(b), b.syms # <<>>
  PROVE  /\ Counted(b.qnums, b.degs, MultOf(b))
         /\ DOMAIN MultOf(b) = ToSet(b.qnums)
<1>1. b.degs \in Seq(Nat) /\ Len(b.degs) = Len(b.qnums) /\ b.qnums \in Seq(Seq(Int))
  BY Degs
<1>2. ToSet(b.qnums) = {b.qnums[k] : k \in 1..Len(b.qnums)}
  <2>1. DOMAIN b.qnums = 1..Len(b.qnums)
    BY <1>1
  <2> QED BY <2>1 DEF ToSet
<1>3. MultOf(b) = [c \in ToSet(b.qnums) |-> Total(OfKey(b.qnums, b.degs, c))]
  BY DEF MultOf, DegOf, OfKey
<1>4. /\ DOMAIN MultOf(b) = ToSet(b.qnums)
      /\ \A c \in ToSet(b.qnums) : MultOf(b)[c] = Total(OfKey(b.qnums, b.degs, c))
  BY <1>3
<1> QED BY <1>1, <1>2, <1>4 DEF Counted

\* An intact bond stands for a space that is not the broken one.
LEMMA SpaceNotBroken ==
  ASSUME NEW b
  PROVE  SpaceOf(b) # Promised!Broken
<1>1. SpaceOf(b).syms = b.syms /\ SpaceOf(b).mult = MultOf(b)
  BY SpaceIs
<1>2. Promised!Broken.syms = <<>> /\ Promised!Broken.mult = <<>>
  BY DEF Promised!Broken
<1>3. CASE b.syms = <<>>
  <2>1. DOMAIN MultOf(b) = {<<>>}
    BY <1>3 DEF MultOf
  <2>2. DOMAIN <<>> = {}
    OBVIOUS
  <2> QED BY <1>1, <1>2, <2>1, <2>2
<1>4. CASE b.syms # <<>>
  BY <1>1, <1>2, <1>4
<1> QED BY <1>3, <1>4

LEMMA EmptyProper == Sided(Empty) /\ Proper(Empty)
BY DEF Sided, Proper, Empty

\* A new direction.
LEMMA NewTypeSpace ==
  ASSUME NEW b, Fit(b), Sided(b), NEW t \in Types
  PROVE  LET c == [b EXCEPT !.type = t]
         IN /\ Sided(c)
            /\ Proper(b) /\ (b.qnums = <<>> \/ t # BD_REG) =>
                 Proper(c) /\ Promised!Turned(SpaceOf(b), SpaceOf(c))
<1> DEFINE c == [b EXCEPT !.type = t]
<1>1. /\ c.type = t /\ c.dim = b.dim /\ c.qnums = b.qnums /\ c.degs = b.degs
      /\ c.syms = b.syms
  BY DEF Fit, Bonds
<1> HIDE DEF c
<1>2. Sided(c)
  BY <1>1 DEF Sided
<1>3. ASSUME Proper(b), b.qnums = <<>> \/ t # BD_REG
      PROVE  Proper(c) /\ Promised!Turned(SpaceOf(b), SpaceOf(c))
  <2>1. b.syms = <<>> \/ t # 0
    BY <1>3 DEF Sided, BD_REG
  <2>2. Proper(c)
    BY <1>1, <1>3, <2>1 DEF Proper, BD_REG
  <2>3. MultOf(c) = MultOf(b)
    BY <1>1 DEF MultOf, DegOf
  <2>4. SpaceOf(b) = [type |-> b.type, syms |-> b.syms, mult |-> MultOf(b)]
    BY SpaceIs
  <2>5. SpaceOf(c) = [type |-> t, syms |-> b.syms, mult |-> MultOf(b)]
    BY <1>1, <2>3, SpaceIs
  <2> QED BY <2>1, <2>2, <2>4, <2>5 DEF Promised!Turned
<1> QED BY <1>2, <1>3 DEF c

\* The loader computes the dimension anew.
LEMMA NewDimSpace ==
  ASSUME NEW b, Fit(b), Sided(b), NEW d
  PROVE  LET c == [b EXCEPT !.dim = d]
         IN /\ Sided(c) /\ (Proper(b) => Proper(c))
            /\ c.type = b.type /\ c.syms = b.syms
            /\ b.qnums # <<>> => SpaceOf(c) = SpaceOf(b)
<1> DEFINE c == [b EXCEPT !.dim = d]
<1>1. /\ c.type = b.type /\ c.qnums = b.qnums /\ c.degs = b.degs
      /\ c.syms = b.syms
  BY DEF Fit, Bonds
<1> HIDE DEF c
<1>2. Sided(c) /\ (Proper(b) => Proper(c))
  BY <1>1 DEF Sided, Proper
<1>3. b.qnums # <<>> => SpaceOf(c) = SpaceOf(b)
  BY <1>1 DEF Sided, SpaceOf, DegOf
<1> QED BY <1>1, <1>2, <1>3 DEF c

\* The arguments of Init that it accepts.
LEMMA InitProper ==
  ASSUME NEW b, Fit(b), Sided(b), NEW m \in Specs
  PROVE  /\ Sided(InitSymmetric(b, m))
         /\ Accepted(m) => Proper(InitSymmetric(b, m))
<1>1. /\ m.qnums \in Seq(Seq(Int)) /\ m.qnums # <<>> /\ m.qnums[1] # <<>>
      /\ m.degs \in Seq(Nat) /\ Len(m.degs) = Len(m.qnums) /\ m.syms \in Seq(Symmetries)
  BY BondAssumption
<1>2. CASE HasZero(m) \/ Misfit(m)
  <2>1. /\ Sided([b EXCEPT !.dim = Total(UpToZero(m))])
        /\ Sided([b EXCEPT !.dim = Total(m.degs)])
    BY NewDimSpace
  <2> QED BY <1>2, <2>1 DEF InitSymmetric, Accepted
<1>3. CASE ~HasZero(m) /\ ~Misfit(m)
  <2> DEFINE c == InitSymmetric(b, m)
  <2>1. /\ c.type = m.type /\ c.qnums = m.qnums /\ c.degs = m.degs
        /\ c.syms = SymsOf(m)
    BY <1>3 DEF InitSymmetric
  <2>2. SymsOf(m) # <<>>
    <3>1. CASE m.syms = <<>>
      <4>1. m.qnums[1] \in Seq(Int)
        BY <1>1
      <4>2. Len(m.qnums[1]) \in Nat /\ Len(m.qnums[1]) # 0
        BY <1>1, <4>1
      <4>3. Len(SymsOf(m)) = Len(m.qnums[1])
        BY <3>1, <4>2 DEF SymsOf
      <4>4. Len(<<>>) = 0
        OBVIOUS
      <4> QED BY <4>2, <4>3, <4>4
    <3>2. CASE m.syms # <<>>
      BY <3>2 DEF SymsOf
    <3> QED BY <3>1, <3>2
  <2> HIDE DEF c
  <2>3. Sided(c)
    BY <1>1, <2>1, <2>2 DEF Sided
  <2>4. Accepted(m) => Proper(c)
    BY <1>3, <2>1 DEF Accepted, HasZero, Proper
  <2> QED BY <2>3, <2>4 DEF c
<1> QED BY <1>2, <1>3

\* What Init accepts is a fresh space, whatever the bond was.
LEMMA InitFresh ==
  ASSUME NEW b, NEW m \in Specs, Accepted(m)
  PROVE  SpaceOf(InitSymmetric(b, m)) \in FreshSpaces
<1>1. InitSymmetric(b, m) = InitSymmetric(Empty, m)
  BY DEF InitSymmetric, Accepted
<1> QED BY <1>1 DEF FreshSpaces

LEMMA RegularFresh ==
  ASSUME NEW b, Fit(b), b.qnums = <<>>, b.syms = <<>>,
         NEW d \in Dims, NEW t \in Types
  PROVE  SpaceOf(InitRegular(b, d, t)) \in FreshSpaces
<1>1. /\ InitRegular(b, d, t).type = t /\ InitRegular(b, d, t).dim = d
      /\ InitRegular(b, d, t).syms = <<>>
  BY DEF InitRegular, Fit, Bonds
<1>2. /\ InitRegular(Empty, d, t).type = t /\ InitRegular(Empty, d, t).dim = d
      /\ InitRegular(Empty, d, t).syms = <<>>
  BY DEF InitRegular, Empty
<1>3. SpaceOf(InitRegular(b, d, t)) = SpaceOf(InitRegular(Empty, d, t))
  BY <1>1, <1>2 DEF SpaceOf
<1> QED BY <1>3 DEF FreshSpaces

-----------------------------------------------------------------------------
(* Grouping and removing sectors.                                          *)

LEMMA DegOfIs ==
  ASSUME NEW b, NEW c
  PROVE  DegOf(b, c) = Total(OfKey(b.qnums, b.degs, c))
BY DEF DegOf, OfKey

\* The numbers sorted without duplicates: the same ones, each once.
LEMMA SortedLists ==
  ASSUME NEW b, Fit(b), Formed(b), NEW s \in SortedQnums(b)
  PROVE  /\ s \in Seq(Seq(Int)) /\ DOMAIN s = 1..Len(s)
         /\ ToSet(s) = ToSet(b.qnums)
         /\ \A i \in 1..Len(s) : \E k \in 1..Len(b.qnums) : s[i] = b.qnums[k]
         /\ \A i, j \in 1..Len(s) : s[j] = s[i] => j = i
<1> DEFINE qs == ToSet(b.qnums)
           n == Cardinality(qs)
           m == Len(b.qnums)
           w == Len(b.syms)
<1>1. /\ b.qnums \in Seq(Seq(Int)) /\ m \in Nat /\ DOMAIN b.qnums = 1..m
      /\ w \in Nat /\ \A k \in 1..m : Len(b.qnums[k]) = w
  BY DEF Formed
<1>2. qs = {b.qnums[k] : k \in 1..m}
  BY <1>1 DEF ToSet
<1>3. IsFiniteSet(qs)
  <2>1. b.qnums \in Surjection(1..m, qs)
    BY <1>1, <1>2 DEF Surjection
  <2>2. IsFiniteSet(1..m)
    BY <1>1, FS_Interval
  <2> QED BY <2>1, <2>2, FS_Surjection
<1>4. qs \subseteq [1..w -> Int]
  <2>1. \A k \in 1..m : b.qnums[k] \in Seq(Int) /\ Len(b.qnums[k]) = w
    BY <1>1
  <2>2. \A k \in 1..m : b.qnums[k] \in [1..w -> Int]
    BY <2>1
  <2> QED BY <1>2, <2>2
<1>5. n \in Nat
  BY <1>3, FS_CardinalityType
<1>6. s \in [1..n -> qs] /\ Ascends(s, Len(s))
  BY DEF SortedQnums, Ascends
<1>7. Len(s) = n
  BY <1>5, <1>6
<1>8. \A q \in qs : Once(s, n, q)
  <2> HIDE DEF qs
  <2> QED BY <1>1, <1>3, <1>4, <1>6, <1>7, SortedOnce
<1>9. qs \subseteq Seq(Int)
  BY <1>1, <1>2
<1> HIDE DEF qs, n, m
<1>10. s \in Seq(Seq(Int)) /\ DOMAIN s = 1..n /\ \A i \in 1..n : s[i] \in qs
  BY <1>5, <1>6, <1>9
<1>11. \A q \in qs : \E i \in 1..n : s[i] = q /\ \A j \in 1..n : s[j] = q => j = i
  BY <1>8 DEF Once
<1>12. ToSet(s) = qs
  BY <1>10, <1>11 DEF ToSet
<1>13. \A i, j \in 1..n : s[j] = s[i] => j = i
  BY <1>10, <1>11
<1> QED BY <1>2, <1>7, <1>10, <1>12, <1>13 DEF qs, m

\* The fields of a bond whose sectors are grouped.
LEMMA GroupedIs ==
  ASSUME NEW b, Fit(b), NEW s
  PROVE  LET c == Grouped(b, s)
         IN /\ c.type = b.type /\ c.dim = b.dim /\ c.syms = b.syms /\ c.qnums = s
            /\ c.degs = [k \in 1..Len(s) |-> DegOf(b, s[k])]
BY DEF Grouped, Fit, Bonds

\* A number that a sector has, which is not empty, has vectors.
LEMMA DegPositive ==
  ASSUME NEW b, Fit(b), NEW k \in 1..Len(b.qnums)
  PROVE  /\ b.degs[k] \in Nat
         /\ DegOf(b, b.qnums[k]) \in Nat
         /\ b.degs[k] <= DegOf(b, b.qnums[k])
<1> DEFINE e == OfKey(b.qnums, b.degs, b.qnums[k])
<1>1. b.degs \in Seq(Nat) /\ Len(b.degs) = Len(b.qnums)
  BY Degs
<1>2. e \in Seq(Nat) /\ Len(e) = Len(b.qnums) /\ e[k] = b.degs[k]
  BY <1>1, OfKeyNat
<1>3. DegOf(b, b.qnums[k]) = Total(e)
  BY DegOfIs
<1> HIDE DEF e
<1> QED BY <1>2, <1>3, TotalAtLeast

LEMMA DegNat ==
  ASSUME NEW b, Fit(b), NEW c
  PROVE  DegOf(b, c) \in Nat
<1>1. b.degs \in Seq(Nat) /\ Len(b.degs) = Len(b.qnums)
  BY Degs
<1>2. OfKey(b.qnums, b.degs, c) \in Seq(Nat)
  BY <1>1, OfKeyNat
<1> QED BY <1>2, DegOfIs, TotalNat

\* Grouping changes nothing.
LEMMA GroupingSpace ==
  ASSUME NEW b, Fit(b), Formed(b), Sided(b), NEW c \in Groupings(b)
  PROVE  Sided(c) /\ (Proper(b) => Proper(c)) /\ SpaceOf(c) = SpaceOf(b)
<1>1. PICK s \in SortedQnums(b) : c = Grouped(b, s)
  BY DEF Groupings
<1> DEFINE g == [k \in 1..Len(s) |-> DegOf(b, s[k])]
<1>2. /\ c.type = b.type /\ c.dim = b.dim /\ c.syms = b.syms
      /\ c.qnums = s /\ c.degs = g
  BY <1>1, GroupedIs
<1>3. /\ s \in Seq(Seq(Int)) /\ DOMAIN s = 1..Len(s)
      /\ ToSet(s) = ToSet(b.qnums)
      /\ \A i \in 1..Len(s) : \E k \in 1..Len(b.qnums) : s[i] = b.qnums[k]
      /\ \A i, j \in 1..Len(s) : s[j] = s[i] => j = i
  BY SortedLists
<1>4. Len(s) \in Nat /\ \A k \in 1..Len(s) : DegOf(b, s[k]) \in Nat
  BY <1>3, DegNat
<1>5. g \in Seq(Nat) /\ Len(g) = Len(s) /\ \A k \in 1..Len(s) : g[k] = DegOf(b, s[k])
  BY <1>4
<1> HIDE DEF g
<1>6. s = <<>> <=> b.qnums = <<>>
  <2>1. \A q \in Seq(Seq(Int)) : q = <<>> <=> ToSet(q) = {}
    <3>1. SUFFICES ASSUME NEW q \in Seq(Seq(Int)) PROVE q = <<>> <=> ToSet(q) = {}
      OBVIOUS
    <3>2. DOMAIN q = 1..Len(q) /\ Len(q) \in Nat
      OBVIOUS
    <3>3. ToSet(q) = {q[k] : k \in 1..Len(q)}
      BY <3>2 DEF ToSet
    <3>4. Len(q) = 0 => ToSet(q) = {}
      BY <3>2, <3>3
    <3>5. ASSUME Len(q) # 0 PROVE ToSet(q) # {}
      <4>1. 1 \in 1..Len(q)
        BY <3>2, <3>5
      <4> QED BY <3>3, <4>1
    <3> QED BY <3>2, <3>4, <3>5
  <2>2. b.qnums \in Seq(Seq(Int))
    BY Degs
  <2> QED BY <1>3, <2>1, <2>2
<1>7. Sided(c)
  BY <1>2, <1>6 DEF Sided
<1>8. ASSUME Proper(b) PROVE Proper(c)
  <2>1. ASSUME NEW i \in 1..Len(s) PROVE g[i] # 0
    <3>1. PICK k \in 1..Len(b.qnums) : s[i] = b.qnums[k]
      BY <1>3
    <3>2. b.degs[k] # 0
      <4>1. Len(b.degs) = Len(b.qnums)
        BY Degs
      <4> QED BY <1>8, <4>1 DEF Proper
    <3>3. /\ b.degs[k] \in Nat /\ DegOf(b, s[i]) \in Nat
          /\ b.degs[k] <= DegOf(b, s[i])
      BY <3>1, DegPositive
    <3> QED BY <1>5, <3>2, <3>3
  <2> QED BY <1>2, <1>5, <1>8, <2>1 DEF Proper
<1>9. MultOf(c) = MultOf(b)
  <2>1. CASE b.syms = <<>>
    BY <1>2, <2>1 DEF MultOf
  <2>2. CASE b.syms # <<>>
    <3>1. ASSUME NEW q \in ToSet(b.qnums) PROVE DegOf(c, q) = DegOf(b, q)
      <4>1. PICK i \in 1..Len(s) : q = s[i]
        BY <1>3 DEF ToSet
      <4>2. Total(OfKey(s, g, s[i])) = g[i]
        <5>1. g \in Seq(Nat) /\ Len(g) = Len(s)
          BY <1>5
        <5>2. \A j \in 1..Len(s) : s[j] = s[i] => j = i
          BY <1>3
        <5> QED BY <5>1, <5>2, KeyOnce
      <4> QED BY <1>2, <1>5, <4>1, <4>2, DegOfIs
    <3> QED BY <1>2, <1>3, <2>2, <3>1 DEF MultOf
  <2> QED BY <2>1, <2>2
<1>10. SpaceOf(c) = SpaceOf(b)
  BY <1>2, <1>9, SpaceIs
<1> QED BY <1>7, <1>8, <1>10

LEMMA RemovedIs ==
  ASSUME NEW b, Fit(b), NEW q
  PROVE  LET c == Removed(b, q)
         IN /\ c.type = b.type /\ c.dim = b.dim - b.degs[q] /\ c.syms = b.syms
            /\ c.qnums = RemoveAt(b.qnums, q) /\ c.degs = RemoveAt(b.degs, q)
BY DEF Removed, Fit, Bonds

\* A sector removed is vectors of one charge less.
LEMMA RemovedSpace ==
  ASSUME NEW b, Fit(b), Sided(b), Proper(b),
         NEW q \in 1..Len(b.qnums), Len(b.qnums) # 1
  PROVE  /\ Sided(Removed(b, q)) /\ Proper(Removed(b, q))
         /\ Promised!Truncated(SpaceOf(b), SpaceOf(Removed(b, q)))
<1> DEFINE l == b.qnums
           f == b.degs
           n == Len(l)
           p == RemoveAt(l, q)
           g == RemoveAt(f, q)
           r == Removed(b, q)
           c == l[q]
           mu == MultOf(b)
           nu == MultOf(r)
<1>1. f \in Seq(Nat) /\ Len(f) = n /\ l \in Seq(Seq(Int))
  BY Degs
<1>2. /\ r.type = b.type /\ r.syms = b.syms
      /\ r.qnums = p /\ r.degs = g
  BY RemovedIs
<1>3. \A k \in 1..n : f[k] # 0
  BY <1>1 DEF Proper
<1>4. /\ q \in 1..n /\ n # 1
      /\ l = <<>> <=> b.syms = <<>>
  BY DEF Sided
<1>5. \A d : DegOf(b, d) = Total(OfKey(l, f, d)) /\ DegOf(r, d) = Total(OfKey(p, g, d))
  BY <1>2, DegOfIs
<1>6. /\ b.syms # <<>> =>
           /\ mu = [d \in ToSet(l) |-> DegOf(b, d)]
           /\ nu = [d \in ToSet(p) |-> DegOf(r, d)]
      /\ SpaceOf(b) = [type |-> b.type, syms |-> b.syms, mult |-> mu]
      /\ SpaceOf(r) = [type |-> b.type, syms |-> b.syms, mult |-> nu]
  BY <1>2, SpaceIs DEF MultOf
<1> HIDE DEF l, f, r, mu, nu
<1>7. n \in Nat /\ n > 1 /\ DOMAIN l = 1..n
  BY <1>1, <1>4
<1>8. /\ p \in Seq(Seq(Int)) /\ Len(p) = n - 1
      /\ \A j \in 1..(n - 1) : p[j] = IF j < q THEN l[j] ELSE l[j + 1]
  BY <1>1, <1>4, RemoveAtIs
<1>9. /\ g \in Seq(Nat) /\ Len(g) = n - 1
      /\ \A j \in 1..(n - 1) : g[j] = IF j < q THEN f[j] ELSE f[j + 1]
  BY <1>1, <1>4, RemoveAtIs
<1>10. \A d : DegOf(b, d) = DegOf(r, d) + (IF c = d THEN f[q] ELSE 0)
  <2>1. SUFFICES ASSUME NEW d
                 PROVE  Total(OfKey(l, f, d)) =
                          Total(OfKey(p, g, d)) + (IF c = d THEN f[q] ELSE 0)
    BY <1>5
  <2> QED BY <1>1, <1>4, KeyRemoved
<1> HIDE DEF n, p, g
<1>11. \A k \in 1..n : f[k] \in Nat
  BY <1>1
<1>12. \A j \in 1..(n - 1) : g[j] \in Nat /\ g[j] # 0
  <2>1. SUFFICES ASSUME NEW j \in 1..(n - 1) PROVE g[j] \in Nat /\ g[j] # 0
    OBVIOUS
  <2>2. j \in 1..n /\ j + 1 \in 1..n
    BY <1>7
  <2> QED BY <1>3, <1>9, <1>11, <2>2
<1>13. b.syms # <<>> /\ p # <<>>
  <2>1. Len(<<>>) = 0
    OBVIOUS
  <2>2. l # <<>>
    BY <1>7, <2>1 DEF n
  <2> QED BY <1>4, <1>7, <1>8, <2>1, <2>2
<1>14. Sided(r) /\ Proper(r)
  <2>1. Sided(r)
    BY <1>2, <1>13 DEF Sided
  <2>2. b.syms = <<>> \/ b.type # BD_REG
    BY DEF Proper
  <2> QED BY <1>2, <1>9, <1>12, <2>1, <2>2 DEF Proper
<1>15. /\ DOMAIN mu = {l[k] : k \in 1..n}
       /\ \A d \in DOMAIN mu : mu[d] = DegOf(b, d)
  <2>1. ToSet(l) = {l[k] : k \in 1..n}
    BY <1>7 DEF ToSet
  <2> QED BY <1>6, <1>13, <2>1
<1>16. /\ DOMAIN nu = {p[k] : k \in 1..(n - 1)}
       /\ \A d \in DOMAIN nu : nu[d] = DegOf(r, d)
  <2>1. DOMAIN p = 1..(n - 1)
    BY <1>8
  <2>2. ToSet(p) = {p[k] : k \in 1..(n - 1)}
    BY <2>1 DEF ToSet
  <2> QED BY <1>6, <1>13, <2>2
<1>17. \A j \in 1..(n - 1) : \E k \in 1..n : p[j] = l[k]
  <2>1. SUFFICES ASSUME NEW j \in 1..(n - 1) PROVE \E k \in 1..n : p[j] = l[k]
    OBVIOUS
  <2>2. j \in 1..n /\ j + 1 \in 1..n
    BY <1>7
  <2> QED BY <1>8, <2>2
<1>18. DOMAIN nu \subseteq DOMAIN mu
  BY <1>15, <1>16, <1>17
<1>19. ASSUME NEW d \in DOMAIN nu
       PROVE  /\ nu[d] \in Nat /\ nu[d] # 0
              /\ mu[d] = nu[d] + (IF d = c THEN f[q] ELSE 0)
  <2>1. PICK j \in 1..(n - 1) : d = p[j]
    BY <1>16
  <2>2. mu[d] = nu[d] + (IF d = c THEN f[q] ELSE 0)
    BY <1>10, <1>15, <1>16, <1>18
  <2> DEFINE e == OfKey(p, g, d)
  <2>3. e \in Seq(Nat) /\ Len(e) = n - 1 /\ e[j] = g[j]
    <3>1. g \in Seq(Nat) /\ Len(g) = Len(p)
      BY <1>8, <1>9
    <3>2. /\ e \in Seq(Nat) /\ Len(e) = Len(p)
          /\ \A k \in 1..Len(p) : e[k] = IF p[k] = d THEN g[k] ELSE 0
      BY <3>1, OfKeyNat
    <3> HIDE DEF e
    <3> QED BY <1>8, <2>1, <3>2
  <2>4. nu[d] = Total(e)
    BY <1>5, <1>16
  <2> HIDE DEF e
  <2>5. e[j] <= Total(e) /\ Total(e) \in Nat
    BY <2>3, TotalAtLeast
  <2> QED BY <1>12, <2>2, <2>3, <2>4, <2>5
<1>20. c \in DOMAIN mu
  BY <1>4, <1>15
<1>21. DOMAIN mu \ {c} \subseteq DOMAIN nu
  <2>1. SUFFICES ASSUME NEW k \in 1..n, l[k] # c PROVE l[k] \in DOMAIN nu
    BY <1>15
  <2>2. k # q
    BY <2>1
  <2>3. CASE k < q
    <3>1. k \in 1..(n - 1)
      BY <1>4, <1>7, <2>3
    <3> QED BY <1>8, <1>16, <2>3, <3>1
  <2>4. CASE k > q
    <3>1. k - 1 \in 1..(n - 1) /\ ~(k - 1 < q) /\ (k - 1) + 1 = k
      BY <1>4, <1>7, <2>4
    <3>2. p[k - 1] = l[(k - 1) + 1]
      BY <1>8, <3>1
    <3> QED BY <1>16, <3>1, <3>2
  <2>5. k \in Int /\ q \in Int
    BY <1>4, <1>7
  <2> QED BY <2>2, <2>3, <2>4, <2>5
<1>22. DOMAIN nu # {}
  <2>1. 1 \in 1..(n - 1)
    BY <1>7
  <2> QED BY <1>16, <2>1
<1> DEFINE x == SpaceOf(b)
           y == SpaceOf(r)
<1>23. x.mult = mu /\ y.mult = nu /\ y = [x EXCEPT !.mult = nu]
  BY <1>6
<1> HIDE DEF x, y
<1>24. \A d \in DOMAIN nu :
         IF d = c THEN 0 < nu[d] /\ nu[d] < mu[d] ELSE nu[d] = mu[d]
  <2>1. f[q] \in Nat /\ f[q] # 0
    BY <1>3, <1>4, <1>11
  <2> QED BY <1>19, <2>1
<1>25. Promised!Truncated(x, y)
  BY <1>18, <1>20, <1>21, <1>22, <1>23, <1>24 DEF Promised!Truncated
<1> QED BY <1>14, <1>25 DEF r, x, y

-----------------------------------------------------------------------------
(* Products.                                                               *)

\* What a whole turn adds to a number modulo n is nothing.
LEMMA WholeTurn ==
  ASSUME NEW x \in Int, NEW n \in Nat, n > 0
  PROVE  (x + n) % n = x % n
<1>1. x = n * (x \div n) + (x % n) /\ x \div n \in Int /\ x % n \in 0..(n - 1)
  OBVIOUS
<1>2. PICK k \in Int, j \in 0..(n - 1) : x = n * k + j /\ x % n = j
  BY <1>1
<1>3. x + n = n * (k + 1) + j
  BY <1>2
<1>4. \A y \in Int, l \in Int : y = n * l + j => y % n = j
  OBVIOUS
<1> QED BY <1>2, <1>3, <1>4

\* The rules add in the group: also what is added reversed.
LEMMA ElementIs ==
  ASSUME NEW s \in Symmetries, NEW a \in Int, NEW r \in Int
  PROVE  /\ combine_rule(s, a, r) = Promised!Element(s, a + r)
         /\ combine_rule(s, a, reverse_rule(s, r)) = Promised!Element(s, a - r)
<1>1. CASE IsCyclic(s)
  <2>1. Order(s) \in Nat /\ Order(s) > 0
    BY <1>1, Orders
  <2>2. Promised!IsCyclic(s) /\ Promised!Order(s) = Order(s)
    BY <1>1 DEF IsCyclic, Order, Promised!IsCyclic, Promised!Order
  <2> DEFINE n == Order(s)
  <2>3. a + (n - r) = (a - r) + n
    BY <2>1
  <2>4. ((a - r) + n) % n = (a - r) % n
    <3>1. a - r \in Int
      OBVIOUS
    <3> HIDE DEF n
    <3> QED BY <2>1, <3>1, WholeTurn DEF n
  <2> QED BY <1>1, <2>2, <2>3, <2>4 DEF combine_rule, reverse_rule, Promised!Element
<1>2. CASE ~IsCyclic(s)
  <2>1. ~Promised!IsCyclic(s)
    BY <1>2 DEF IsCyclic, Promised!IsCyclic
  <2>2. a + (-r) = a - r
    OBVIOUS
  <2> QED BY <1>2, <2>1, <2>2 DEF combine_rule, reverse_rule, Promised!Element
<1> QED BY <1>1, <1>2

\* The numbers of a sector of b and one of c, combined, are the charge of their
\* vectors.
LEMMA ChargeIs ==
  ASSUME NEW syms \in Seq(Symmetries), NEW p \in Seq(Int), NEW q \in Seq(Int),
         Len(p) = Len(syms), Len(q) = Len(syms),
         NEW x, NEW y, x.syms = syms
  PROVE  CombineAll(syms, p, IF x.type = y.type THEN q ELSE ReverseAll(syms, q))
           = Promised!Charge(x, y, p, q)
<1>1. ASSUME NEW i \in 1..Len(syms)
      PROVE  combine_rule(syms[i], p[i],
                          (IF x.type = y.type THEN q ELSE ReverseAll(syms, q))[i])
               = Promised!Element(syms[i],
                          IF x.type = y.type THEN p[i] + q[i] ELSE p[i] - q[i])
  <2>1. syms[i] \in Symmetries /\ p[i] \in Int /\ q[i] \in Int
    OBVIOUS
  <2>2. ReverseAll(syms, q)[i] = reverse_rule(syms[i], q[i])
    BY DEF ReverseAll
  <2>3. /\ combine_rule(syms[i], p[i], q[i]) = Promised!Element(syms[i], p[i] + q[i])
        /\ combine_rule(syms[i], p[i], reverse_rule(syms[i], q[i]))
             = Promised!Element(syms[i], p[i] - q[i])
    BY <2>1, ElementIs
  <2> QED BY <2>2, <2>3
<1> QED BY <1>1 DEF CombineAll, Promised!Charge

\* The fields of the product of two bonds.
LEMMA CombinedIs ==
  ASSUME NEW b, Fit(b), NEW c, Fit(c)
  PROVE  LET p == Combined(b, c)
             n == Len(c.qnums)
         IN /\ p.type = b.type /\ p.syms = b.syms /\ p.dim = b.dim * c.dim
            /\ p.degs = Table(b.degs, c.degs)
            /\ DOMAIN p.qnums = 1..(Len(b.qnums) * n)
            /\ p.qnums = [d \in 1..(Len(b.qnums) * n) |->
                 CombineAll(b.syms, b.qnums[((d - 1) \div n) + 1],
                   IF b.type = c.type THEN c.qnums[((d - 1) % n) + 1]
                   ELSE ReverseAll(b.syms, c.qnums[((d - 1) % n) + 1]))]
<1>1. Len(b.degs) = Len(b.qnums) /\ Len(c.degs) = Len(c.qnums)
  BY Degs
<1> QED BY <1>1 DEF Combined, Table, Fit, Bonds

\* GradedSpace counts as this module does.
LEMMA SameCount ==
  ASSUME NEW S
  PROVE  Promised!Cardinality(S) = Cardinality(S)
BY DEF Promised!Cardinality, Cardinality

\* The charges of two spaces.
ChargeOf(x, y) ==
  [w \in (DOMAIN x.mult) \X (DOMAIN y.mult) |-> Promised!Charge(x, y, w[1], w[2])]

\* The sectors of a product have the charges of the pairs of vectors.
LEMMA CombinedTabled ==
  ASSUME NEW b, Fit(b), Formed(b), NEW c, Fit(c), Formed(c),
         c.syms = b.syms, b.syms # <<>>
  PROVE  Tabled(Combined(b, c).qnums, b.qnums, c.qnums,
                ChargeOf(SpaceOf(b), SpaceOf(c)))
<1> DEFINE l == b.qnums
           r == c.qnums
           syms == b.syms
           m == Len(l)
           n == Len(r)
           x == SpaceOf(b)
           y == SpaceOf(c)
           t == Combined(b, c).qnums
           F == ChargeOf(x, y)
           left(d)  == ((d - 1) \div n) + 1
           right(d) == ((d - 1) % n) + 1
           turned(v) == IF b.type = c.type THEN v ELSE ReverseAll(syms, v)
<1>1. /\ l \in Seq(Seq(Int)) /\ r \in Seq(Seq(Int)) /\ syms \in Seq(Symmetries)
      /\ (\A k \in 1..m : Len(l[k]) = Len(syms))
      /\ (\A k \in 1..n : Len(r[k]) = Len(syms))
  BY DEF Formed
<1>2. x.type = b.type /\ y.type = c.type /\ x.syms = syms
  BY SpaceIs
<1>3. DOMAIN x.mult = {l[k] : k \in 1..m} /\ DOMAIN y.mult = {r[k] : k \in 1..n}
  <2>1. DOMAIN MultOf(b) = {l[k] : k \in 1..m}
    BY MultCounted DEF Counted
  <2>2. DOMAIN MultOf(c) = {r[k] : k \in 1..n}
    BY MultCounted DEF Counted
  <2> QED BY <2>1, <2>2, SpaceIs
<1>4. t = [d \in 1..(m * n) |-> CombineAll(syms, l[left(d)], turned(r[right(d)]))]
  BY CombinedIs
<1> HIDE DEF x, y, t, l, r, syms
<1>5. m \in Nat /\ n \in Nat
  BY <1>1
<1>6. m * n \in Nat
  <2> HIDE DEF m, n
  <2> QED BY <1>5, Times
<1> HIDE DEF m, n
<1>7. ASSUME NEW d \in 1..(m * n)
      PROVE  t[d] = F[<<l[left(d)], r[right(d)]>>]
  <2>1. left(d) \in 1..m /\ right(d) \in 1..n
    BY <1>5, Cell
  <2>2. t[d] = CombineAll(syms, l[left(d)], turned(r[right(d)]))
    BY <1>4
  <2> DEFINE u == l[left(d)]
             v == r[right(d)]
  <2>3. /\ u \in DOMAIN x.mult /\ v \in DOMAIN y.mult
        /\ u \in Seq(Int) /\ Len(u) = Len(syms) /\ v \in Seq(Int) /\ Len(v) = Len(syms)
    <3> HIDE DEF left, right
    <3> QED BY <1>1, <1>3, <2>1 DEF m, n
  <2> HIDE DEF u, v
  <2>4. CombineAll(syms, u, turned(v)) = Promised!Charge(x, y, u, v)
    BY <1>1, <1>2, <2>3, ChargeIs
  <2>5. F[<<u, v>>] = Promised!Charge(x, y, u, v)
    BY <2>3 DEF ChargeOf
  <2> QED BY <2>2, <2>4, <2>5 DEF u, v
<1>8. Len(t) = m * n
  BY <1>4, <1>6
<1> HIDE DEF F
<1> QED BY <1>7, <1>8 DEF Tabled, F, x, y, t, l, r, m, n

\* A product of spaces, with the charges of ChargeOf.
LEMMA ProductIs ==
  ASSUME NEW x, NEW y
  PROVE  LET F == ChargeOf(x, y)
         IN Promised!Product(x, y) =
              [x EXCEPT !.mult =
                 [c \in ValuesOf(x.mult, y.mult, F) |->
                    Cardinality(PairsOf(x.mult, y.mult, F, c))]]
<1> DEFINE F == ChargeOf(x, y)
           X == Stacked(x.mult)
           Y == Stacked(y.mult)
           C == {F[w] : w \in (DOMAIN x.mult) \X (DOMAIN y.mult)}
           D == {Promised!Charge(x, y, p, q) : p \in DOMAIN x.mult, q \in DOMAIN y.mult}
<1>1. X = Promised!Basis(x) /\ Y = Promised!Basis(y)
  BY DEF Stacked, Promised!Basis
<1>2. \A p \in DOMAIN x.mult, q \in DOMAIN y.mult : F[<<p, q>>] = Promised!Charge(x, y, p, q)
  BY DEF ChargeOf
<1>3. \A v \in X \X Y : v[1][1] \in DOMAIN x.mult /\ v[2][1] \in DOMAIN y.mult
  <2>1. (\A v \in X : v[1] \in DOMAIN x.mult) /\ (\A v \in Y : v[1] \in DOMAIN y.mult)
    BY DEF Stacked
  <2> HIDE DEF X, Y
  <2> QED BY <2>1
<1> HIDE DEF F, X, Y
<1>4. C = D
  <2>1. ASSUME NEW c \in C PROVE c \in D
    <3>1. PICK p \in DOMAIN x.mult, q \in DOMAIN y.mult : c = F[<<p, q>>]
      OBVIOUS
    <3>2. c = Promised!Charge(x, y, p, q)
      BY <1>2, <3>1
    <3> QED BY <3>2
  <2>2. ASSUME NEW c \in D PROVE c \in C
    <3>1. PICK p \in DOMAIN x.mult, q \in DOMAIN y.mult : c = Promised!Charge(x, y, p, q)
      OBVIOUS
    <3>2. c = F[<<p, q>>] /\ <<p, q>> \in (DOMAIN x.mult) \X (DOMAIN y.mult)
      BY <1>2, <3>1
    <3> QED BY <3>2
  <2> QED BY <2>1, <2>2
<1> DEFINE P == Promised!Basis(x) \X Promised!Basis(y)
<1>5. \A c : {v \in X \X Y : F[<<v[1][1], v[2][1]>>] = c}
               = {v \in P : Promised!Charge(x, y, v[1][1], v[2][1]) = c}
  BY <1>1, <1>2, <1>3
<1> DEFINE f == [c \in C |-> Cardinality({v \in X \X Y : F[<<v[1][1], v[2][1]>>] = c})]
           g == [c \in D |-> Promised!Cardinality({v \in P :
                                Promised!Charge(x, y, v[1][1], v[2][1]) = c})]
<1>6. f = g
  <2> HIDE DEF C, D, P
  <2> QED BY <1>4, <1>5, SameCount
<1>7. Promised!Product(x, y) = [x EXCEPT !.mult = g]
  BY DEF Promised!Product
<1> HIDE DEF f, g
<1>8. Promised!Product(x, y) = [x EXCEPT !.mult = f]
  BY <1>6, <1>7
<1>9. f = [c \in ValuesOf(x.mult, y.mult, F) |->
             Cardinality(PairsOf(x.mult, y.mult, F, c))]
  BY DEF f, F, X, Y, C, ValuesOf, PairsOf
<1> QED BY <1>8, <1>9 DEF F

\* A product of bonds is the product of their spaces: the sectors that combineBond_
\* lists, row by row, carry each charge as often as the pairs of vectors do whose
\* charges add up to it in the group, with the sign that the directions ask for.
THEOREM CombinedSpace ==
  ASSUME NEW b, Fit(b), Formed(b), Sided(b),
         NEW c, Fit(c), Formed(c), Sided(c), c.syms = b.syms
  PROVE  /\ Sided(Combined(b, c))
         /\ Proper(b) /\ Proper(c) => Proper(Combined(b, c))
         /\ SpaceOf(Combined(b, c)) = Promised!Product(SpaceOf(b), SpaceOf(c))
<1> DEFINE p == Combined(b, c)
           t == p.qnums
           m == Len(b.qnums)
           n == Len(c.qnums)
           x == SpaceOf(b)
           y == SpaceOf(c)
           mu == MultOf(b)
           nu == MultOf(c)
           F == ChargeOf(x, y)
<1>1. /\ p.type = b.type /\ p.syms = b.syms /\ p.dim = b.dim * c.dim
      /\ p.degs = Table(b.degs, c.degs) /\ DOMAIN t = 1..(m * n)
  BY CombinedIs
<1>2. /\ b.degs \in Seq(Nat) /\ Len(b.degs) = m /\ c.degs \in Seq(Nat) /\ Len(c.degs) = n
      /\ b.dim \in Nat /\ c.dim \in Nat
      /\ b.qnums \in Seq(Seq(Int)) /\ c.qnums \in Seq(Seq(Int))
  BY Degs
<1>3. m \in Nat /\ n \in Nat /\ m * n \in Nat
  <2>1. m \in Nat /\ n \in Nat
    BY <1>2
  <2> HIDE DEF m, n
  <2> QED BY <2>1, Times
<1>4. t \in Seq(Seq(Int)) /\ Len(t) = m * n
  <2>1. Formed(p)
    BY CombinedFormed
  <2>2. t \in Seq(Seq(Int))
    BY <2>1 DEF Formed
  <2> HIDE DEF t, m, n
  <2> QED BY <1>1, <1>3, <2>2
<1>5. /\ x.type = b.type /\ x.syms = b.syms /\ x.mult = mu /\ y.mult = nu
      /\ x = [type |-> b.type, syms |-> b.syms, mult |-> mu]
      /\ SpaceOf(p) = [type |-> b.type, syms |-> b.syms, mult |-> MultOf(p)]
  BY <1>1, SpaceIs
<1>6. Sided(p)
  <2>1. \A q \in Seq(Seq(Int)) : q = <<>> <=> Len(q) = 0
    OBVIOUS
  <2>2. /\ b.qnums = <<>> <=> m = 0
        /\ c.qnums = <<>> <=> n = 0
        /\ t = <<>> <=> m * n = 0
    BY <1>2, <1>4, <2>1
  <2>3. m * n = 0 <=> m = 0 \/ n = 0
    <3> HIDE DEF m, n
    <3> QED BY <1>3
  <2> QED BY <1>1, <2>2, <2>3 DEF Sided
<1>7. ASSUME Proper(b), Proper(c) PROVE Proper(p)
  <2>1. (\A k \in 1..Len(b.degs) : b.degs[k] # 0) /\ (\A k \in 1..Len(c.degs) : c.degs[k] # 0)
    BY <1>7 DEF Proper
  <2>2. \A d \in 1..Len(p.degs) : p.degs[d] # 0
    <3> HIDE DEF p
    <3> QED BY <1>1, <1>2, <2>1, TableNonZero
  <2> QED BY <1>1, <1>7, <2>2 DEF Proper
<1> DEFINE C == ValuesOf(mu, nu, F)
           N(d) == Cardinality(PairsOf(mu, nu, F, d))
<1>8. Promised!Product(x, y) = [x EXCEPT !.mult = [d \in C |-> N(d)]]
  BY <1>5, ProductIs
<1>9. MultOf(p) = [d \in C |-> N(d)]
  <2>1. CASE b.syms # <<>>
    <3>1. Tabled(t, b.qnums, c.qnums, F)
      BY <2>1, CombinedTabled
    <3>2. Counted(b.qnums, b.degs, mu) /\ Counted(c.qnums, c.degs, nu)
      BY <2>1, MultCounted
    <3> HIDE DEF F, t, p, mu, nu
    <3>3. {t[d] : d \in 1..Len(t)} = C
      BY <3>1, <3>2, ProductNumbers
    <3>4. ToSet(t) = C
      <4>1. DOMAIN t = 1..Len(t)
        BY <1>4
      <4> QED BY <3>3, <4>1 DEF ToSet
    <3>5. ASSUME NEW d PROVE DegOf(p, d) = N(d)
      <4>1. DegOf(p, d) = Total(OfKey(t, Table(b.degs, c.degs), d))
        BY <1>1, DegOfIs DEF t
      <4>2. Total(OfKey(t, Table(b.degs, c.degs), d)) = N(d)
        BY <3>1, <3>2, ProductCounts
      <4> QED BY <4>1, <4>2
    <3>6. MultOf(p) = [d \in ToSet(t) |-> DegOf(p, d)]
      BY <1>1, <2>1 DEF MultOf, t
    <3> HIDE DEF C, N
    <3> QED BY <3>4, <3>5, <3>6
  <2>2. CASE b.syms = <<>>
    <3>1. mu = [d \in {<<>>} |-> b.dim] /\ nu = [d \in {<<>>} |-> c.dim]
      BY <2>2 DEF MultOf
    <3>2. MultOf(p) = [d \in {<<>>} |-> b.dim * c.dim]
      BY <1>1, <2>2 DEF MultOf
    <3>3. DOMAIN mu = {<<>>} /\ mu[<<>>] = b.dim /\ DOMAIN nu = {<<>>} /\ nu[<<>>] = c.dim
      BY <3>1
    <3> DEFINE X == Stacked(mu)
               Y == Stacked(nu)
    <3>4. Promised!Charge(x, y, <<>>, <<>>) = <<>>
      BY <1>5, <2>2 DEF Promised!Charge
    <3>5. F[<< <<>>, <<>> >>] = <<>> /\ C = {<<>>}
      <4>1. F[<< <<>>, <<>> >>] = <<>>
        BY <1>5, <3>3, <3>4 DEF ChargeOf
      <4> HIDE DEF F, mu, nu
      <4> QED BY <3>3, <4>1 DEF ValuesOf
    <3>6. X = {<<>>} \X (1..b.dim) /\ Y = {<<>>} \X (1..c.dim)
      <4> HIDE DEF mu, nu
      <4> QED BY <3>3 DEF Stacked
    <3>7. /\ IsFiniteSet(X) /\ Cardinality(X) = b.dim
          /\ IsFiniteSet(Y) /\ Cardinality(Y) = c.dim
      <4>1. /\ IsFiniteSet({<<>>} \X (1..b.dim))
            /\ Cardinality({<<>>} \X (1..b.dim)) = b.dim
        BY <1>2, Column
      <4>2. /\ IsFiniteSet({<<>>} \X (1..c.dim))
            /\ Cardinality({<<>>} \X (1..c.dim)) = c.dim
        BY <1>2, Column
      <4> HIDE DEF X, Y
      <4> QED BY <3>6, <4>1, <4>2
    <3>8. \A v \in X \X Y : v[1][1] = <<>> /\ v[2][1] = <<>>
      <4>1. (\A v \in X : v[1] = <<>>) /\ (\A v \in Y : v[1] = <<>>)
        <5> HIDE DEF X, Y
        <5> QED BY <3>6
      <4> HIDE DEF X, Y
      <4> QED BY <4>1
    <3> HIDE DEF X, Y, F
    <3>9. {v \in X \X Y : F[<<v[1][1], v[2][1]>>] = <<>>} = X \X Y
      BY <3>5, <3>8
    <3>10. Cardinality(X \X Y) = b.dim * c.dim
      BY <3>7, FS_Product
    <3>11. N(<<>>) = b.dim * c.dim
      BY <3>9, <3>10 DEF X, Y, PairsOf
    <3> HIDE DEF C, N
    <3> QED BY <3>2, <3>5, <3>11
  <2> QED BY <2>1, <2>2
<1>10. SpaceOf(p) = Promised!Product(x, y)
  <2> DEFINE f == [d \in C |-> N(d)]
  <2>1. MultOf(p) = f /\ Promised!Product(x, y) = [x EXCEPT !.mult = f]
    BY <1>8, <1>9
  <2> HIDE DEF f, p, x, y, C, N, mu
  <2> QED BY <1>5, <2>1
<1> QED BY <1>6, <1>7, <1>10

\* So is one whose duplicates are grouped.
LEMMA ProductSpace ==
  ASSUME NEW b, Fit(b), Kept(b), Formed(b), Sided(b), Proper(b),
         NEW c, Fit(c), Kept(c), Formed(c), Sided(c), Proper(c), c.syms = b.syms,
         NEW grp \in BOOLEAN, NEW p \in Products(b, c, grp)
  PROVE  /\ Sided(p) /\ Proper(p)
         /\ SpaceOf(p) = Promised!Product(SpaceOf(b), SpaceOf(c))
<1> DEFINE d == Combined(b, c)
<1>1. /\ Sided(d) /\ Proper(d)
      /\ SpaceOf(d) = Promised!Product(SpaceOf(b), SpaceOf(c))
  BY CombinedSpace
<1>2. Fit(d) /\ Formed(d)
  BY CombinedFit, CombinedFormed
<1>3. CASE grp
  <2>1. p \in Groupings(d)
    BY <1>3 DEF Products
  <2> HIDE DEF d
  <2> QED BY <1>1, <1>2, <2>1, GroupingSpace
<1>4. CASE ~grp
  BY <1>1, <1>4 DEF Products
<1> QED BY <1>3, <1>4

-----------------------------------------------------------------------------
(* The invariant, and the steps of the spaces.                             *)

Sides ==
  /\ \A i \in Live(ref) : Sided(impl[i])
  /\ \A i \in Intact : Proper(impl[i])

\* Bonds with numbers have symmetries and a direction, and no sector is empty.
SpaceInv == DimInv /\ Sides

LEMMA SpaceAt ==
  /\ DOMAIN Space = Live(ref)
  /\ \A i \in Live(ref) :
       Space[i] = IF i \in torn THEN Promised!Broken ELSE SpaceOf(impl[i])
BY DEF Space, Promised!Broken

LEMMA SpaceAtNext ==
  /\ DOMAIN Space' = Live(ref')
  /\ \A i \in Live(ref') :
       Space'[i] = IF i \in torn' THEN Promised!Broken ELSE SpaceOf(impl'[i])
<1>1. Space' = [i \in Live(ref') |->
                  IF i \in torn' THEN Promised!Broken ELSE SpaceOf(impl'[i])]
  BY DEF Space, Live, Promised!Broken
<1> QED BY <1>1

\* What a bond that a handle is given may be.
Given(b) ==
  \/ SpaceOf(b) \in FreshSpaces
  \/ \E j \in Intact : Promised!Turned(SpaceOf(impl[j]), SpaceOf(b))
  \/ \E j, k \in Intact :
       /\ impl[j].syms = impl[k].syms /\ impl[j].type = impl[k].type
       /\ SpaceOf(b) = Promised!Product(SpaceOf(impl[j]), SpaceOf(impl[k]))

\* What the bond of h may become.
Become(h, b) ==
  \/ SpaceOf(b) \in FreshSpaces
  \/ /\ Whole(h)
     /\ \/ Promised!Turned(SpaceOf(B(h)), SpaceOf(b))
        \/ Promised!Truncated(SpaceOf(B(h)), SpaceOf(b))
        \/ \E j \in Intact :
             /\ impl[j].syms = B(h).syms
             /\ SpaceOf(b) = Promised!Product(SpaceOf(B(h)), SpaceOf(impl[j]))

\* A step of the spaces.
Stepped == Promised!Next /\ Sides'

LEMMA BindSpace ==
  ASSUME TypeOK, Sides, NEW h \in Handles, NEW b, Sided(b), Proper(b), Given(b),
         Bind(h, b)
  PROVE  Stepped
<1>1. PICK i \in Impls \ Live(ref) :
        Commit([ref EXCEPT ![h] = i], [impl EXCEPT ![i] = b], torn)
  BY DEF Bind
<1>2. /\ ref' = [ref EXCEPT ![h] = i]
      /\ torn' = torn \cap Live(ref')
      /\ impl' = [j \in Impls |-> IF j \in Live(ref') THEN [impl EXCEPT ![i] = b][j]
                                  ELSE None]
  BY <1>1 DEF Commit
<1>3. /\ ref' \in [Handles -> Impls \cup {Void}]
      /\ i # Void /\ Live(ref') \subseteq Impls
      /\ ref'[h] = i /\ ref' = [ref EXCEPT ![h] = ref'[h]]
  BY <1>2, BondAssumption DEF TypeOK, Live
<1>4. /\ Live(ref') \subseteq Live(ref) \cup {i} /\ i \in Live(ref')
      /\ i \notin torn /\ torn \subseteq Live(ref)
  BY <1>2, <1>3 DEF Live, TypeOK
<1>5. impl'[i] = b /\ \A j \in Live(ref') \ {i} : impl'[j] = impl[j]
  BY <1>2, <1>3, <1>4 DEF TypeOK
<1>6. Sides'
  <2>1. \A j \in Live(ref') : Sided(impl'[j])
    BY <1>4, <1>5 DEF Sides
  <2>2. \A j \in Live(ref') \ torn' : Proper(impl'[j])
    BY <1>2, <1>4, <1>5 DEF Sides, Intact
  <2> QED BY <2>1, <2>2 DEF Sides, Intact, Live
<1>7. /\ DOMAIN Space = Live(ref) /\ DOMAIN Space' = Live(ref')
      /\ Space'[i] = SpaceOf(b)
      /\ \A j \in DOMAIN Space' \ {i} : Space'[j] = Space[j]
  BY <1>2, <1>4, <1>5, SpaceAt, SpaceAtNext
<1>8. \A j \in Intact :
        /\ j \in DOMAIN Space /\ Space[j] = SpaceOf(impl[j])
        /\ Space[j] # Promised!Broken
        /\ Space[j].syms = impl[j].syms /\ Space[j].type = impl[j].type
  BY SpaceAt, SpaceNotBroken, SpaceIs DEF Intact
<1>9. \/ \E j \in DOMAIN Space :
           /\ Space[j] # Promised!Broken
           /\ \/ Promised!Turned(Space[j], Space'[i])
              \/ \E k \in DOMAIN Space :
                   /\ Space[k] # Promised!Broken
                   /\ Space[k].syms = Space[j].syms
                   /\ Space[k].type = Space[j].type
                   /\ Space'[i] = Promised!Product(Space[j], Space[k])
      \/ Space'[i] \in FreshSpaces
  <2>1. CASE SpaceOf(b) \in FreshSpaces
    BY <1>7, <2>1
  <2>2. CASE \E j \in Intact : Promised!Turned(SpaceOf(impl[j]), SpaceOf(b))
    BY <1>7, <1>8, <2>2
  <2>3. CASE \E j, k \in Intact :
               /\ impl[j].syms = impl[k].syms /\ impl[j].type = impl[k].type
               /\ SpaceOf(b) = Promised!Product(SpaceOf(impl[j]), SpaceOf(impl[k]))
    BY <1>7, <1>8, <2>3
  <2> QED BY <2>1, <2>2, <2>3 DEF Given
<1>10. Promised!Assigned(h, Space, Space')
  BY <1>1, <1>3, <1>7, <1>9 DEF Promised!Assigned
<1>11. Promised!Next
  BY <1>7, <1>10 DEF Promised!Next, Live
<1> QED BY <1>6, <1>11 DEF Stepped

LEMMA UpdateSpace ==
  ASSUME TypeOK, Sides, NEW h \in Handles, ref[h] # Void, NEW b, Sided(b),
         NEW tn, tn \ {ref[h]} = torn \ {ref[h]},
         ref[h] \notin tn => Proper(b) /\ Become(h, b),
         Update(h, b, tn)
  PROVE  Stepped
<1> DEFINE i == ref[h]
<1>1. /\ ref' = ref
      /\ torn' = tn \cap Live(ref)
      /\ impl' = [j \in Impls |-> IF j \in Live(ref) THEN [impl EXCEPT ![i] = b][j]
                                  ELSE None]
  BY DEF Update, Commit
<1>2. /\ i \in Live(ref) /\ Live(ref) \subseteq Impls /\ torn \subseteq Live(ref)
  BY DEF Live, TypeOK
<1>3. impl'[i] = b /\ \A j \in Live(ref) \ {i} : impl'[j] = impl[j]
  BY <1>1, <1>2 DEF TypeOK
<1>4. B(h) = impl[i]
  BY DEF B
<1>5. i \in torn' <=> i \in tn
  BY <1>1, <1>2
<1>6. \A j \in Live(ref) \ {i} : j \in torn' <=> j \in torn
  BY <1>1
<1>7. Sides'
  <2>1. \A j \in Live(ref') : Sided(impl'[j])
    BY <1>1, <1>3 DEF Sides
  <2>2. \A j \in Live(ref') \ torn' : Proper(impl'[j])
    BY <1>1, <1>3, <1>5, <1>6 DEF Sides, Intact
  <2> QED BY <2>1, <2>2 DEF Sides, Intact, Live
<1>8. /\ DOMAIN Space = Live(ref) /\ DOMAIN Space' = Live(ref)
      /\ Space'[i] = IF i \in tn THEN Promised!Broken ELSE SpaceOf(b)
      /\ \A j \in DOMAIN Space' \ {i} : Space'[j] = Space[j]
  BY <1>1, <1>2, <1>3, <1>5, <1>6, SpaceAt, SpaceAtNext
<1>9. \A j \in Intact :
        /\ j \in DOMAIN Space /\ Space[j] = SpaceOf(impl[j])
        /\ Space[j] # Promised!Broken
        /\ Space[j].syms = impl[j].syms
  BY SpaceAt, SpaceNotBroken, SpaceIs DEF Intact
<1>10. Whole(h) => i \in Intact
  BY <1>2 DEF Whole, Intact
<1> HIDE DEF i
<1>11. \/ Space'[i] = Promised!Broken
       \/ /\ Space[i] # Promised!Broken
          /\ Promised!Turned(Space[i], Space'[i]) \/ Promised!Truncated(Space[i], Space'[i])
       \/ \E j \in DOMAIN Space :
            /\ Promised!Broken \notin {Space[i], Space[j]}
            /\ Space[j].syms = Space[i].syms
            /\ Space'[i] = Promised!Product(Space[i], Space[j])
       \/ Space'[i] \in FreshSpaces
  <2>1. CASE i \in tn
    BY <1>8, <2>1
  <2>2. CASE i \notin tn
    <3>1. Space'[i] = SpaceOf(b)
      BY <1>8, <2>2
    <3>2. Become(h, b)
      BY <2>2 DEF i
    <3>3. CASE SpaceOf(b) \in FreshSpaces
      BY <3>1, <3>3
    <3>4. CASE /\ Whole(h)
               /\ \/ Promised!Turned(SpaceOf(impl[i]), SpaceOf(b))
                  \/ Promised!Truncated(SpaceOf(impl[i]), SpaceOf(b))
      BY <1>9, <1>10, <3>1, <3>4
    <3>5. CASE /\ Whole(h)
               /\ \E j \in Intact :
                    /\ impl[j].syms = impl[i].syms
                    /\ SpaceOf(b) = Promised!Product(SpaceOf(impl[i]), SpaceOf(impl[j]))
      BY <1>9, <1>10, <3>1, <3>5
    <3> QED BY <1>4, <3>2, <3>3, <3>4, <3>5 DEF Become
  <2> QED BY <2>1, <2>2
<1>12. Promised!Changed(h, Space, Space')
  BY <1>1, <1>8, <1>11 DEF Promised!Changed, i
<1>13. Promised!Next
  BY <1>1, <1>8, <1>12 DEF Promised!Next, Live
<1> QED BY <1>7, <1>13 DEF Stepped

LEMMA AssignSpace ==
  ASSUME TypeOK, Sides, NEW h \in Handles, NEW g \in Handles, Assign(h, g)
  PROVE  Stepped
<1>1. /\ ref[g] # Void /\ ref' = [ref EXCEPT ![h] = ref[g]]
      /\ torn' = torn \cap Live(ref')
      /\ impl' = [i \in Impls |-> IF i \in Live(ref') THEN impl[i] ELSE None]
  BY DEF Assign, Commit
<1>2. /\ ref' \in [Handles -> Impls \cup {Void}] /\ ref'[h] = ref[g]
      /\ ref' = [ref EXCEPT ![h] = ref'[h]]
  BY <1>1 DEF TypeOK
<1>3. /\ Live(ref') \subseteq Live(ref) /\ Live(ref') \subseteq Impls
      /\ ref[g] \in Live(ref) /\ ref[g] \in Live(ref')
  BY <1>1, <1>2 DEF Live, TypeOK
<1>4. \A j \in Live(ref') : impl'[j] = impl[j]
  BY <1>1, <1>3
<1>5. Sides'
  <2>1. \A j \in Live(ref') : Sided(impl'[j])
    BY <1>3, <1>4 DEF Sides
  <2>2. \A j \in Live(ref') \ torn' : Proper(impl'[j])
    BY <1>1, <1>3, <1>4 DEF Sides, Intact
  <2> QED BY <2>1, <2>2 DEF Sides, Intact, Live
<1>6. /\ DOMAIN Space = Live(ref) /\ DOMAIN Space' = Live(ref')
      /\ \A j \in DOMAIN Space' : Space'[j] = Space[j]
  BY <1>1, <1>3, <1>4, SpaceAt, SpaceAtNext
<1>7. Promised!Assigned(h, Space, Space')
  BY <1>2, <1>3, <1>6 DEF Promised!Assigned
<1>8. Promised!Next
  BY <1>6, <1>7 DEF Promised!Next, Live
<1> QED BY <1>5, <1>8 DEF Stepped

LEMMA SpaceInvFacts ==
  ASSUME SpaceInv, NEW h \in Handles
  PROVE  /\ TypeOK /\ Sides /\ DimInv
         /\ ref[h] # Void => Fit(B(h)) /\ Formed(B(h)) /\ Sided(B(h))
         /\ Whole(h) => /\ ref[h] # Void /\ ref[h] \in Intact /\ B(h) = impl[ref[h]]
                        /\ Fit(B(h)) /\ Formed(B(h)) /\ Kept(B(h))
                        /\ Sided(B(h)) /\ Proper(B(h))
<1>1. DimInv /\ TypeOK /\ Sides
  BY DEF SpaceInv, DimInv
<1>2. /\ ref[h] # Void => Fit(B(h)) /\ Formed(B(h))
      /\ Whole(h) => Kept(B(h))
  BY <1>1, DimInvFacts
<1>3. ref[h] # Void => Sided(B(h))
  BY <1>1 DEF Sides, Live, B
<1>4. Whole(h) => /\ ref[h] # Void /\ ref[h] \in Intact /\ B(h) = impl[ref[h]]
                  /\ Proper(B(h))
  BY <1>1 DEF Sides, Live, Intact, Whole, B
<1> QED BY <1>1, <1>2, <1>3, <1>4

\* The other direction of an intact bond, which has one if it has numbers.
LEMMA OtherType ==
  ASSUME NEW b, Fit(b), Sided(b), Proper(b)
  PROVE  -(b.type) \in Types /\ (b.qnums = <<>> \/ -(b.type) # BD_REG)
<1>1. b.type \in {-1, 0, 1}
  BY Degs DEF Types, BD_KET, BD_REG, BD_BRA
<1> QED BY <1>1 DEF Sided, Proper, Types, BD_KET, BD_REG, BD_BRA

\* A bond is itself turned its own way.
LEMMA SameTurned ==
  ASSUME NEW b, Proper(b), NEW c, SpaceOf(c) = SpaceOf(b)
  PROVE  Promised!Turned(SpaceOf(b), SpaceOf(c))
<1>1. SpaceOf(b) = [type |-> b.type, syms |-> b.syms, mult |-> MultOf(b)]
  BY SpaceIs
<1>2. b.syms = <<>> \/ b.type # 0
  BY DEF Proper, BD_REG
<1> QED BY <1>1, <1>2 DEF Promised!Turned

\* The operations that give a handle a new impl.
LEMMA NewBondSpace ==
  ASSUME SpaceInv, NEW h \in Handles, NEW g \in Handles
  PROVE  /\ Default(h) => Stepped
         /\ \A dim \in Dims, type \in Types : Regular(h, dim, type) => Stepped
         /\ \A m \in Specs : Symmetric(h, m) => Stepped
         /\ Assign(h, g) => Stepped
         /\ Clone(h, g) => Stepped
         /\ SaveLoad(h, g) => Stepped
         /\ \A type \in Types : Retype(h, g, type) => Stepped
         /\ Redirect(h, g) => Stepped
         /\ Group(h, g) => Stepped
<1>0. TypeOK /\ Sides
  BY SpaceInvFacts
<1>1. ASSUME Default(h) PROVE Stepped
  <2>1. Given(Empty)
    BY DEF Given, FreshSpaces
  <2> QED BY <1>0, <1>1, <2>1, EmptyProper, BindSpace DEF Default
<1>2. ASSUME NEW dim \in Dims, NEW type \in Types, Regular(h, dim, type) PROVE Stepped
  <2> DEFINE y == InitRegular(Empty, dim, type)
  <2>1. Bind(h, y)
    BY <1>2 DEF Regular
  <2>2. y.qnums = <<>> /\ y.syms = <<>> /\ y.degs = <<>>
    BY DEF InitRegular, Empty
  <2>3. SpaceOf(y) \in FreshSpaces
    BY DEF FreshSpaces
  <2> HIDE DEF y
  <2>4. Sided(y) /\ Proper(y) /\ Given(y)
    BY <2>2, <2>3 DEF Sided, Proper, Given
  <2> QED BY <1>0, <2>1, <2>4, BindSpace
<1>3. ASSUME NEW m \in Specs, Symmetric(h, m) PROVE Stepped
  <2> DEFINE y == InitSymmetric(Empty, m)
  <2>1. Accepted(m) /\ Bind(h, y)
    BY <1>3 DEF Symmetric
  <2>2. Sided(y) /\ Proper(y)
    BY <2>1, EmptyFit, EmptyProper, InitProper
  <2>3. Given(y)
    BY <2>1, InitFresh DEF Given
  <2> HIDE DEF y
  <2> QED BY <1>0, <2>1, <2>2, <2>3, BindSpace
<1>4. Assign(h, g) => Stepped
  BY <1>0, AssignSpace
<1>5. ASSUME Clone(h, g) PROVE Stepped
  <2>1. /\ Whole(g) /\ Bind(h, B(g)) /\ ref[g] \in Intact /\ B(g) = impl[ref[g]]
        /\ Sided(B(g)) /\ Proper(B(g))
    BY <1>5, SpaceInvFacts DEF Clone
  <2>2. Given(B(g))
    BY <2>1, SameTurned DEF Given
  <2> QED BY <1>0, <2>1, <2>2, BindSpace
<1>6. ASSUME SaveLoad(h, g) PROVE Stepped
  <2> DEFINE b == B(g)
             x == [b EXCEPT !.dim = Total(b.degs)]
             c == IF b.degs = <<>> THEN b ELSE x
  <2>1. /\ ref[g] \in Intact /\ b = impl[ref[g]] /\ Bind(h, c)
        /\ Fit(b) /\ Sided(b) /\ Proper(b)
    BY <1>6, SpaceInvFacts DEF SaveLoad
  <2> HIDE DEF b
  <2>2. /\ Sided(x) /\ Proper(x)
        /\ b.qnums # <<>> => SpaceOf(x) = SpaceOf(b)
    BY <2>1, NewDimSpace
  <2>3. b.degs # <<>> => b.qnums # <<>>
    <3>1. b.degs \in Seq(Nat) /\ Len(b.qnums) = Len(b.degs)
      BY <2>1, Degs
    <3>2. \A s \in Seq(Nat) : s # <<>> => Len(s) # 0
      OBVIOUS
    <3>3. Len(<<>>) = 0
      OBVIOUS
    <3> QED BY <3>1, <3>2, <3>3
  <2> HIDE DEF x
  <2>4. Sided(c) /\ Proper(c) /\ SpaceOf(c) = SpaceOf(b)
    BY <2>1, <2>2, <2>3
  <2> HIDE DEF c
  <2>5. Given(c)
    BY <2>1, <2>4, SameTurned DEF Given
  <2> QED BY <1>0, <2>1, <2>4, <2>5, BindSpace
<1>7. ASSUME NEW type \in Types, Retype(h, g, type) PROVE Stepped
  <2> DEFINE b == B(g)
             x == [b EXCEPT !.type = type]
  <2>1. /\ ref[g] \in Intact /\ b = impl[ref[g]] /\ Bind(h, x)
        /\ Fit(b) /\ Sided(b) /\ Proper(b) /\ TypeFits(b, type)
    BY <1>7, SpaceInvFacts DEF Retype
  <2> HIDE DEF b
  <2>2. Sided(x) /\ Proper(x) /\ Promised!Turned(SpaceOf(b), SpaceOf(x))
    BY <2>1, NewTypeSpace DEF TypeFits
  <2> HIDE DEF x
  <2>3. Given(x)
    BY <2>1, <2>2 DEF Given
  <2> QED BY <1>0, <2>1, <2>2, <2>3, BindSpace
<1>8. ASSUME Redirect(h, g) PROVE Stepped
  <2> DEFINE b == B(g)
             x == [b EXCEPT !.type = -(b.type)]
  <2>1. /\ ref[g] \in Intact /\ b = impl[ref[g]] /\ Bind(h, x)
        /\ Fit(b) /\ Sided(b) /\ Proper(b)
    BY <1>8, SpaceInvFacts DEF Redirect
  <2> HIDE DEF b
  <2>2. Sided(x) /\ Proper(x) /\ Promised!Turned(SpaceOf(b), SpaceOf(x))
    BY <2>1, OtherType, NewTypeSpace
  <2> HIDE DEF x
  <2>3. Given(x)
    BY <2>1, <2>2 DEF Given
  <2> QED BY <1>0, <2>1, <2>2, <2>3, BindSpace
<1>9. ASSUME Group(h, g) PROVE Stepped
  <2>1. /\ ref[g] \in Intact /\ B(g) = impl[ref[g]]
        /\ Fit(B(g)) /\ Formed(B(g)) /\ Sided(B(g)) /\ Proper(B(g))
    BY <1>9, SpaceInvFacts DEF Group
  <2>2. PICK c \in Groupings(B(g)) : Bind(h, c)
    BY <1>9 DEF Group
  <2>3. Sided(c) /\ Proper(c) /\ SpaceOf(c) = SpaceOf(B(g))
    BY <2>1, GroupingSpace
  <2>4. Given(c)
    BY <2>1, <2>3, SameTurned DEF Given
  <2> QED BY <1>0, <2>2, <2>3, <2>4, BindSpace
<1> QED BY <1>1, <1>2, <1>3, <1>4, <1>5, <1>6, <1>7, <1>8, <1>9

\* The operations that change the impl there is.
LEMMA ChangeSpace ==
  ASSUME SpaceInv, NEW h \in Handles
  PROVE  /\ \A dim \in Dims, type \in Types : InitAgain(h, dim, type) => Stepped
         /\ \A m \in Specs : InitSymmetricAgain(h, m) => Stepped
         /\ \A type \in Types : SetType(h, type) => Stepped
         /\ RedirectInPlace(h) => Stepped
         /\ GroupInPlace(h) => Stepped
         /\ \A q : Truncate(h, q) => Stepped
<1>0. TypeOK /\ Sides
  BY SpaceInvFacts
<1>1. ASSUME NEW dim \in Dims, NEW type \in Types, InitAgain(h, dim, type) PROVE Stepped
  <2> DEFINE b == B(h)
             r == InitRegular(b, dim, type)
             tn == IF b.qnums = <<>> THEN torn \ {ref[h]} ELSE torn \cup {ref[h]}
  <2>1. ref[h] # Void /\ Update(h, r, tn) /\ Fit(b) /\ Sided(b)
    BY <1>1, SpaceInvFacts DEF InitAgain
  <2> HIDE DEF b
  <2>2. r.qnums = b.qnums /\ r.degs = b.degs /\ r.syms = b.syms
    BY <2>1 DEF InitRegular, Fit, Bonds
  <2>3. b.qnums = <<>> => SpaceOf(r) \in FreshSpaces
    BY <2>1, RegularFresh DEF Sided
  <2> HIDE DEF r
  <2>4. Sided(r)
    BY <2>1, <2>2 DEF Sided
  <2>5. b.qnums = <<>> => Proper(r) /\ Become(h, r)
    <3>1. SUFFICES ASSUME b.qnums = <<>> PROVE Proper(r) /\ Become(h, r)
      OBVIOUS
    <3>2. Len(b.degs) = 0
      BY <2>1, <3>1, Degs
    <3> QED BY <2>1, <2>2, <2>3, <3>1, <3>2 DEF Sided, Proper, Become
  <2>6. /\ tn \ {ref[h]} = torn \ {ref[h]}
        /\ ref[h] \notin tn => Proper(r) /\ Become(h, r)
    BY <2>5
  <2> HIDE DEF tn
  <2> QED BY <1>0, <2>1, <2>4, <2>6, UpdateSpace
<1>2. ASSUME NEW m \in Specs, InitSymmetricAgain(h, m) PROVE Stepped
  <2> DEFINE r == InitSymmetric(B(h), m)
             tn == IF Accepted(m) THEN torn \ {ref[h]} ELSE torn \cup {ref[h]}
  <2>1. ref[h] # Void /\ Update(h, r, tn) /\ Fit(B(h)) /\ Sided(B(h))
    BY <1>2, SpaceInvFacts DEF InitSymmetricAgain
  <2>2. Sided(r) /\ (Accepted(m) => Proper(r))
    BY <2>1, InitProper
  <2>3. Accepted(m) => Become(h, r)
    BY InitFresh DEF Become
  <2> HIDE DEF r
  <2>4. /\ tn \ {ref[h]} = torn \ {ref[h]}
        /\ ref[h] \notin tn => Proper(r) /\ Become(h, r)
    BY <2>2, <2>3
  <2> HIDE DEF tn
  <2> QED BY <1>0, <2>1, <2>2, <2>4, UpdateSpace
<1>3. ASSUME NEW type \in Types, SetType(h, type) PROVE Stepped
  <2> DEFINE b == B(h)
             x == [b EXCEPT !.type = type]
  <2>1. /\ Whole(h) /\ ref[h] # Void /\ Update(h, x, torn)
        /\ Fit(b) /\ Sided(b) /\ Proper(b) /\ TypeFits(b, type)
    BY <1>3, SpaceInvFacts DEF SetType
  <2> HIDE DEF b
  <2>2. Sided(x) /\ Proper(x) /\ Promised!Turned(SpaceOf(b), SpaceOf(x))
    BY <2>1, NewTypeSpace DEF TypeFits
  <2> HIDE DEF x
  <2>3. Become(h, x)
    BY <2>1, <2>2 DEF Become, b
  <2> QED BY <1>0, <2>1, <2>2, <2>3, UpdateSpace
<1>4. ASSUME RedirectInPlace(h) PROVE Stepped
  <2> DEFINE b == B(h)
             x == [b EXCEPT !.type = -(b.type)]
  <2>1. /\ Whole(h) /\ ref[h] # Void /\ Update(h, x, torn)
        /\ Fit(b) /\ Sided(b) /\ Proper(b)
    BY <1>4, SpaceInvFacts DEF RedirectInPlace
  <2> HIDE DEF b
  <2>2. Sided(x) /\ Proper(x) /\ Promised!Turned(SpaceOf(b), SpaceOf(x))
    BY <2>1, OtherType, NewTypeSpace
  <2> HIDE DEF x
  <2>3. Become(h, x)
    BY <2>1, <2>2 DEF Become, b
  <2> QED BY <1>0, <2>1, <2>2, <2>3, UpdateSpace
<1>5. ASSUME GroupInPlace(h) PROVE Stepped
  <2>1. /\ Whole(h) /\ ref[h] # Void
        /\ Fit(B(h)) /\ Formed(B(h)) /\ Sided(B(h)) /\ Proper(B(h))
    BY <1>5, SpaceInvFacts DEF GroupInPlace
  <2>2. PICK c \in Groupings(B(h)) : Update(h, c, torn)
    BY <1>5 DEF GroupInPlace
  <2>3. Sided(c) /\ Proper(c) /\ SpaceOf(c) = SpaceOf(B(h))
    BY <2>1, GroupingSpace
  <2>4. Become(h, c)
    BY <2>1, <2>3, SameTurned DEF Become
  <2> QED BY <1>0, <2>1, <2>2, <2>3, <2>4, UpdateSpace
<1>6. ASSUME NEW q, Truncate(h, q) PROVE Stepped
  <2> DEFINE r == Removed(B(h), q)
  <2>1. /\ Whole(h) /\ ref[h] # Void /\ Update(h, r, torn)
        /\ Fit(B(h)) /\ Sided(B(h)) /\ Proper(B(h))
        /\ q \in 1..Len(B(h).qnums) /\ Len(B(h).qnums) # 1
    BY <1>6, SpaceInvFacts DEF Truncate
  <2>2. Sided(r) /\ Proper(r) /\ Promised!Truncated(SpaceOf(B(h)), SpaceOf(r))
    BY <2>1, RemovedSpace
  <2> HIDE DEF r
  <2>3. Become(h, r)
    BY <2>1, <2>2 DEF Become
  <2> QED BY <1>0, <2>1, <2>2, <2>3, UpdateSpace
<1> QED BY <1>1, <1>2, <1>3, <1>4, <1>5, <1>6

\* The products, and the one that throws.
LEMMA ProductSteps ==
  ASSUME SpaceInv, NEW h \in Handles, NEW g \in Handles
  PROVE  /\ \A force \in BOOLEAN, grp \in BOOLEAN :
              CombineInPlace(h, g, force, grp) => Stepped
         /\ \A force \in BOOLEAN : CombineThrows(h, g, force) => Stepped
         /\ \A k \in Handles, grp \in BOOLEAN : CombineBond(k, h, g, grp) => Stepped
<1>0. TypeOK /\ Sides
  BY SpaceInvFacts
<1>1. ASSUME NEW force \in BOOLEAN, NEW grp \in BOOLEAN,
             CombineInPlace(h, g, force, grp)
      PROVE  Stepped
  <2>1. Whole(h) /\ Whole(g) /\ B(g).syms = B(h).syms
    BY <1>1 DEF CombineInPlace
  <2>2. /\ ref[h] # Void
        /\ Fit(B(h)) /\ Formed(B(h)) /\ Kept(B(h)) /\ Sided(B(h)) /\ Proper(B(h))
    BY <2>1, SpaceInvFacts
  <2>3. /\ ref[g] \in Intact /\ B(g) = impl[ref[g]]
        /\ Fit(B(g)) /\ Formed(B(g)) /\ Kept(B(g)) /\ Sided(B(g)) /\ Proper(B(g))
    BY <2>1, SpaceInvFacts
  <2>4. PICK p \in Products(B(h), B(g), grp) : Update(h, p, torn)
    BY <1>1 DEF CombineInPlace
  <2>5. /\ Sided(p) /\ Proper(p)
        /\ SpaceOf(p) = Promised!Product(SpaceOf(B(h)), SpaceOf(B(g)))
    BY <2>1, <2>2, <2>3, ProductSpace
  <2>6. Become(h, p)
    BY <2>1, <2>3, <2>5 DEF Become
  <2> QED BY <1>0, <2>2, <2>4, <2>5, <2>6, UpdateSpace
<1>2. ASSUME NEW force \in BOOLEAN, CombineThrows(h, g, force) PROVE Stepped
  <2> DEFINE b == B(h)
             x == [b EXCEPT !.dim = b.dim * B(g).dim]
             tn == torn \cup {ref[h]}
  <2>1. ref[h] # Void /\ Fit(b) /\ Sided(b) /\ Update(h, x, tn)
    BY <1>2, SpaceInvFacts DEF CombineThrows
  <2> HIDE DEF b
  <2>2. Sided(x)
    BY <2>1, NewDimSpace
  <2>3. tn \ {ref[h]} = torn \ {ref[h]} /\ ref[h] \in tn
    OBVIOUS
  <2> HIDE DEF x, tn
  <2> QED BY <1>0, <2>1, <2>2, <2>3, UpdateSpace
<1>3. ASSUME NEW k \in Handles, NEW grp \in BOOLEAN, CombineBond(k, h, g, grp)
      PROVE  Stepped
  <2>1. Whole(h) /\ Whole(g) /\ B(g).syms = B(h).syms /\ B(h).type = B(g).type
    BY <1>3 DEF CombineBond, Combinable
  <2>2. /\ ref[h] \in Intact /\ B(h) = impl[ref[h]]
        /\ Fit(B(h)) /\ Formed(B(h)) /\ Kept(B(h)) /\ Sided(B(h)) /\ Proper(B(h))
    BY <2>1, SpaceInvFacts
  <2>3. /\ ref[g] \in Intact /\ B(g) = impl[ref[g]]
        /\ Fit(B(g)) /\ Formed(B(g)) /\ Kept(B(g)) /\ Sided(B(g)) /\ Proper(B(g))
    BY <2>1, SpaceInvFacts
  <2>4. PICK p \in Products(B(h), B(g), grp) : Bind(k, p)
    BY <1>3 DEF CombineBond
  <2>5. /\ Sided(p) /\ Proper(p)
        /\ SpaceOf(p) = Promised!Product(SpaceOf(B(h)), SpaceOf(B(g)))
    BY <2>1, <2>2, <2>3, ProductSpace
  <2>6. Given(p)
    BY <2>1, <2>2, <2>3, <2>5 DEF Given
  <2> QED BY <1>0, <2>4, <2>5, <2>6, BindSpace
<1> QED BY <1>1, <1>2, <1>3

LEMMA InitSpace == Init => SpaceInv /\ Promised!Init
<1> SUFFICES ASSUME Init PROVE Sides /\ Promised!Init
  BY InitDims DEF SpaceInv
<1>1. Live(ref) = {}
  BY DEF Init, Live
<1>2. DOMAIN Space = {}
  BY <1>1, SpaceAt
<1> QED BY <1>1, <1>2 DEF Init, Sides, Intact, Promised!Init

LEMMA StepSpace ==
  SpaceInv /\ [Next]_vars => SpaceInv' /\ [Promised!Next]_(Promised!vars)
<1> SUFFICES ASSUME SpaceInv, [Next]_vars
             PROVE  Sides' /\ [Promised!Next]_(Promised!vars)
  BY StepDims DEF SpaceInv
<1>1. CASE UNCHANGED vars
  <2>1. ref' = ref /\ impl' = impl /\ torn' = torn
    BY <1>1 DEF vars
  <2>2. Space' = Space
    BY <2>1 DEF Space, Live, SpaceOf
  <2>3. Sides'
    BY <2>1 DEF SpaceInv, Sides, Live, Intact
  <2> QED BY <2>1, <2>2, <2>3 DEF Promised!vars
<1>2. ASSUME Next PROVE Stepped
  <2>1. PICK h \in Handles :
          \/ Default(h)
          \/ \E dim \in Dims, type \in Types :
               Regular(h, dim, type) \/ InitAgain(h, dim, type)
          \/ \E m \in Specs : Symmetric(h, m) \/ InitSymmetricAgain(h, m)
          \/ \E type \in Types : SetType(h, type)
          \/ RedirectInPlace(h)
          \/ GroupInPlace(h)
          \/ \E q \in 1..Len(B(h).qnums) : Truncate(h, q)
          \/ \E g \in Handles :
               \/ Assign(h, g) \/ Clone(h, g) \/ SaveLoad(h, g)
               \/ Redirect(h, g) \/ Group(h, g)
               \/ \E type \in Types : Retype(h, g, type)
               \/ \E force \in BOOLEAN :
                    \/ CombineThrows(h, g, force)
                    \/ \E grp \in BOOLEAN : CombineInPlace(h, g, force, grp)
               \/ \E k \in Handles, grp \in BOOLEAN : CombineBond(k, h, g, grp)
    BY <1>2 DEF Next
  <2>2. CASE Default(h)
    BY <2>2, NewBondSpace
  <2>3. CASE \E dim \in Dims, type \in Types :
               Regular(h, dim, type) \/ InitAgain(h, dim, type)
    BY <2>3, NewBondSpace, ChangeSpace
  <2>4. CASE \E m \in Specs : Symmetric(h, m) \/ InitSymmetricAgain(h, m)
    BY <2>4, NewBondSpace, ChangeSpace
  <2>5. CASE \/ \E type \in Types : SetType(h, type)
             \/ RedirectInPlace(h)
             \/ GroupInPlace(h)
             \/ \E q \in 1..Len(B(h).qnums) : Truncate(h, q)
    BY <2>5, ChangeSpace
  <2>6. ASSUME NEW g \in Handles,
               \/ Assign(h, g) \/ Clone(h, g) \/ SaveLoad(h, g)
               \/ Redirect(h, g) \/ Group(h, g)
               \/ \E type \in Types : Retype(h, g, type)
        PROVE  Stepped
    BY <2>6, NewBondSpace
  <2>7. ASSUME NEW g \in Handles,
               \/ \E force \in BOOLEAN :
                    \/ CombineThrows(h, g, force)
                    \/ \E grp \in BOOLEAN : CombineInPlace(h, g, force, grp)
               \/ \E k \in Handles, grp \in BOOLEAN : CombineBond(k, h, g, grp)
        PROVE  Stepped
    BY <2>7, ProductSteps
  <2> QED BY <2>1, <2>2, <2>3, <2>4, <2>5, <2>6, <2>7
<1> QED BY <1>1, <1>2 DEF Stepped

\* Bonds behave as graded spaces, with any number of handles, symmetries and
\* sectors: whatever combineBond_, group_duplicates_, redirect_, truncation and the
\* loader make of the lists of numbers and degeneracies is what the space they
\* stand for asks for, on the bond the call is made on and on no other, also when
\* the call throws.
THEOREM BondIsSpace == Spec => ImplementsSpace
<1> QED BY InitSpace, StepSpace, PTL DEF Spec, ImplementsSpace, Promised!Spec
=============================================================================
