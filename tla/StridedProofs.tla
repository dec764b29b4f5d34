--------------------------- MODULE StridedProofs ---------------------------
(***************************************************************************)
(* The products of shapes, for every rank: what appending, dropping,       *)
(* permuting and replacing dimensions makes of the number of elements.     *)
(***************************************************************************)
EXTENDS Strided, Induction, FiniteSetTheorems, SequenceTheorems

\* The partial products of s: the recursion that Prod is defined by.
LEMMA Products ==
  ASSUME NEW s \in Seq(Int)
  PROVE  \E f \in [0..Len(s) -> Int] :
           /\ f[0] = 1
           /\ \A i \in 1..Len(s) : f[i] = f[i - 1] * s[i]
           /\ Prod(s) = f[Len(s)]
<1> DEFINE p == CHOOSE p : p = [i \in 0..Len(s) |->
                                  IF i = 0 THEN 1 ELSE p[i - 1] * s[i]]
           step == [i \in 1..Len(s) |-> [v \in Int |-> v * s[i]]]
           n == Len(s)
           V == Int
<1>1. n \in Nat /\ 1 \in V /\ step \in [1..n -> [V -> V]]
  OBVIOUS
<1>2. \A i \in 1..n, v \in V : step[i][v] = v * s[i]
  OBVIOUS
<1> HIDE DEF V, n, step
<1>3. PICK f \in [0..n -> V] : f[0] = 1 /\ \A i \in 1..n : f[i] = step[i][f[i - 1]]
  <2>1. \E f \in [0..n -> V] : Unfolds(f, n, 1, step)
    BY <1>1, Recursion
  <2> QED BY <2>1 DEF Unfolds
<1>4. \A i \in 1..n : f[i] = f[i - 1] * s[i]
  <2>1. SUFFICES ASSUME NEW i \in 1..n PROVE f[i] = f[i - 1] * s[i]
    OBVIOUS
  <2>2. i - 1 \in 0..n
    BY <1>1
  <2>3. f[i - 1] \in V
    BY <2>2
  <2> QED BY <1>2, <1>3, <2>3
<1>5. f = [i \in 0..Len(s) |-> IF i = 0 THEN 1 ELSE f[i - 1] * s[i]]
  BY <1>1, <1>3, <1>4 DEF n
<1>6. p = [i \in 0..Len(s) |-> IF i = 0 THEN 1 ELSE p[i - 1] * s[i]]
  BY <1>5
<1>7. Prod(s) = p[Len(s)]
  BY DEF Prod
<1> HIDE DEF p
<1>8. p[0] = 1 /\ \A i \in 1..Len(s) : p[i] = p[i - 1] * s[i]
  <2>1. p[0] = 1
    BY <1>6
  <2>2. ASSUME NEW i \in 1..Len(s) PROVE p[i] = p[i - 1] * s[i]
    <3>1. i \in 0..Len(s) /\ i # 0
      OBVIOUS
    <3> QED BY <1>6, <3>1
  <2> QED BY <2>1, <2>2
<1>9. p \in [0..Len(s) -> Int]
  <2> DEFINE S == {k \in Nat : k <= Len(s) => p[k] \in Int}
  <2>1. 0 \in S
    BY <1>8
  <2>2. \A k \in Nat : k \in S => k + 1 \in S
    BY <1>8, SMTT(30)
  <2>3. Nat \subseteq S
    <3> HIDE DEF S
    <3> QED BY <2>1, <2>2, NatInduct
  <2> QED BY <1>6, <2>3
<1> QED BY <1>7, <1>8, <1>9

\* The equations of Prod as a function of the list.
LEMMA ProdEquations ==
  /\ Prod(<<>>) = 1
  /\ \A s \in Seq(Int) : Prod(s) \in Int
  /\ \A s \in Seq(Int), x \in Int : Prod(Append(s, x)) = Prod(s) * x
<1>1. Prod(<<>>) = 1
  <2>1. <<>> \in Seq(Int) /\ Len(<<>>) = 0
    OBVIOUS
  <2> QED BY <2>1, Products
<1>2. \A s \in Seq(Int) : Prod(s) \in Int
  <2>1. SUFFICES ASSUME NEW s \in Seq(Int) PROVE Prod(s) \in Int
    OBVIOUS
  <2>2. Len(s) \in 0..Len(s)
    OBVIOUS
  <2> QED BY <2>2, Products
<1>3. ASSUME NEW s \in Seq(Int), NEW x \in Int
      PROVE  Prod(Append(s, x)) = Prod(s) * x
  <2> DEFINE t == Append(s, x)
             n == Len(s)
  <2>1. /\ t \in Seq(Int) /\ Len(t) = n + 1 /\ n \in Nat
        /\ t[n + 1] = x /\ \A i \in 1..n : t[i] = s[i]
    OBVIOUS
  <2> HIDE DEF t
  <2>2. PICK f \in [0..n -> Int] :
          /\ f[0] = 1
          /\ \A i \in 1..n : f[i] = f[i - 1] * s[i]
          /\ Prod(s) = f[n]
    BY Products
  <2>3. PICK g \in [0..(n + 1) -> Int] :
          /\ g[0] = 1
          /\ \A i \in 1..(n + 1) : g[i] = g[i - 1] * t[i]
          /\ Prod(t) = g[n + 1]
    BY <2>1, Products
  <2> HIDE DEF n
  <2> DEFINE S == {k \in Nat : k <= n => f[k] = g[k]}
  <2>4. 0 \in S
    BY <2>2, <2>3
  <2>5. \A k \in Nat : k \in S => k + 1 \in S
    <3>1. SUFFICES ASSUME NEW k \in Nat, k \in S, k + 1 <= n
                   PROVE  k + 1 \in S
      OBVIOUS
    <3>2. k + 1 \in 1..n /\ k + 1 \in 1..(n + 1) /\ (k + 1) - 1 = k
      BY <2>1, <3>1
    <3>3. f[k] = g[k]
      BY <2>1, <3>1
    <3>4. f[k + 1] = f[k] * s[k + 1] /\ g[k + 1] = g[k] * t[k + 1]
      BY <2>2, <2>3, <3>2
    <3>5. t[k + 1] = s[k + 1]
      BY <2>1, <3>2
    <3> QED BY <3>3, <3>4, <3>5
  <2>6. Nat \subseteq S
    <3> HIDE DEF S
    <3> QED BY <2>4, <2>5, NatInduct
  <2>7. f[n] = g[n]
    BY <2>1, <2>6
  <2>8. g[n + 1] = g[(n + 1) - 1] * t[n + 1] /\ (n + 1) - 1 = n
    BY <2>1, <2>3
  <2> QED BY <2>1, <2>2, <2>3, <2>7, <2>8 DEF t
<1> QED BY <1>1, <1>2, <1>3

-----------------------------------------------------------------------------
(* Shapes without one of their dimensions.                                 *)

\* The product of a shape without one of its dimensions.
LEMMA ProdRemove ==
  ASSUME NEW s \in Seq(Int), NEW i \in 1..Len(s)
  PROVE  Prod(s) = Prod(RemoveAt(s, i)) * s[i]
<1> DEFINE S == {t \in Seq(Int) :
                   \A j \in 1..Len(t) : Prod(t) = Prod(RemoveAt(t, j)) * t[j]}
<1>1. <<>> \in S
  OBVIOUS
<1>2. ASSUME NEW t \in Seq(Int), NEW x \in Int, t \in S
      PROVE  Append(t, x) \in S
  <2> DEFINE u == Append(t, x)
  <2>1. /\ u \in Seq(Int) /\ Len(u) = Len(t) + 1
        /\ \A j \in 1..Len(t) : u[j] = t[j]
        /\ u[Len(t) + 1] = x
    OBVIOUS
  <2>2. Prod(u) = Prod(t) * x /\ Prod(t) \in Int
    BY ProdEquations
  <2>3. RemoveAt(u, Len(t) + 1) = t
    BY RemoveLast
  <2>4. ASSUME NEW j \in 1..Len(t)
        PROVE  Prod(u) = Prod(RemoveAt(u, j)) * u[j]
    <3> DEFINE p == Prod(RemoveAt(t, j))
    <3>1. RemoveAt(t, j) \in Seq(Int)
      BY RemoveAtIs
    <3>2. Prod(RemoveAt(u, j)) = p * x /\ p \in Int
      <4>1. RemoveAt(u, j) = Append(RemoveAt(t, j), x)
        BY RemoveInner
      <4> HIDE DEF u
      <4> QED BY <3>1, <4>1, ProdEquations
    <3>3. Prod(t) = p * t[j] /\ t[j] \in Int
      BY <1>2
    <3> HIDE DEF p, u
    <3>4. (p * t[j]) * x = (p * x) * t[j]
      BY <3>2, <3>3
    <3> QED BY <2>1, <2>2, <3>2, <3>3, <3>4
  <2> HIDE DEF u
  <2>5. \A j \in 1..Len(u) : Prod(u) = Prod(RemoveAt(u, j)) * u[j]
    <3>1. SUFFICES ASSUME NEW j \in 1..Len(u)
                   PROVE  Prod(u) = Prod(RemoveAt(u, j)) * u[j]
      OBVIOUS
    <3>2. CASE j = Len(t) + 1
      BY <2>1, <2>2, <2>3, <3>2
    <3>3. CASE j # Len(t) + 1
      BY <2>1, <2>4, <3>3
    <3> QED BY <3>2, <3>3
  <2> QED BY <2>1, <2>5 DEF u
<1>3. Seq(Int) \subseteq S
  <2> HIDE DEF S
  <2> QED BY <1>1, <1>2, ListInduct
<1> QED BY <1>3

-----------------------------------------------------------------------------
(* Permuted shapes.                                                        *)

\* An injective map of 1..n reaches every number.
LEMMA PermOnto ==
  ASSUME NEW n \in Nat, NEW p \in Perms(n)
  PROVE  \A k \in 1..n : \E i \in 1..n : p[i] = k
<1>1. IsFiniteSet(1..n)
  BY FS_Interval
<1>2. p \in Injection(1..n, 1..n)
  BY DEF Perms, Injection, IsInjective
<1>3. p \in Surjection(1..n, 1..n)
  BY <1>1, <1>2, FS_Injection
<1> QED BY <1>3 DEF Surjection

LEMMA ComposeAt ==
  ASSUME NEW s, NEW n \in Nat, NEW p \in Perms(n)
  PROVE  \A k \in 1..n : Compose(s, p)[k] = s[p[k]]
<1>1. Len(p) = n
  BY DEF Perms
<1> QED BY <1>1 DEF Compose

LEMMA ComposeSeq ==
  ASSUME NEW X, NEW s \in Seq(X), NEW n, Len(s) = n, NEW p \in Perms(n)
  PROVE  Compose(s, p) \in Seq(X) /\ Len(Compose(s, p)) = n
<1>1. n \in Nat /\ p \in [1..n -> 1..n] /\ Len(p) = n
  BY DEF Perms
<1>2. \A k \in 1..n : s[p[k]] \in X
  BY <1>1
<1>3. Compose(s, p) = [k \in 1..n |-> s[p[k]]]
  BY <1>1 DEF Compose
<1> QED BY <1>1, <1>2, <1>3

\* A permutation of 1..(n + 1) without the place of n + 1 is one of 1..n.
LEMMA PermRemove ==
  ASSUME NEW n \in Nat, NEW p \in Perms(n + 1),
         NEW j \in 1..(n + 1), p[j] = n + 1
  PROVE  /\ RemoveAt(p, j) \in Perms(n)
         /\ \A k \in 1..n : RemoveAt(p, j)[k] = IF k < j THEN p[k] ELSE p[k + 1]
<1> DEFINE q == RemoveAt(p, j)
<1>1. /\ p \in [1..(n + 1) -> 1..(n + 1)] /\ n + 1 \in Nat
      /\ \A i, k \in 1..(n + 1) : p[i] = p[k] => i = k
  BY DEF Perms
<1>2. p \in Seq(1..(n + 1)) /\ Len(p) = n + 1
  BY <1>1
<1>3. /\ q \in Seq(1..(n + 1)) /\ Len(q) = n
      /\ \A k \in 1..n : q[k] = IF k < j THEN p[k] ELSE p[k + 1]
  <2>1. j \in 1..Len(p) /\ Len(p) - 1 = n
    BY <1>2
  <2>2. /\ q \in Seq(1..(n + 1)) /\ Len(q) = Len(p) - 1
        /\ \A k \in 1..(Len(p) - 1) : q[k] = IF k < j THEN p[k] ELSE p[k + 1]
    BY <1>2, <2>1, RemoveAtIs
  <2> QED BY <2>1, <2>2
<1> HIDE DEF q
<1> DEFINE o(k) == IF k < j THEN k ELSE k + 1
<1>4. \A k \in 1..n : o(k) \in 1..(n + 1) /\ o(k) # j /\ q[k] = p[o(k)]
  BY <1>3
<1>5. \A i, k \in 1..n : o(i) = o(k) => i = k
  OBVIOUS
<1> HIDE DEF o
<1>6. \A k \in 1..n : q[k] \in 1..n
  <2>1. SUFFICES ASSUME NEW k \in 1..n PROVE q[k] \in 1..n
    OBVIOUS
  <2>2. p[o(k)] \in 1..(n + 1) /\ p[o(k)] # n + 1
    BY <1>1, <1>4
  <2> QED BY <1>4, <2>2
<1>7. \A i, k \in 1..n : q[i] = q[k] => i = k
  BY <1>1, <1>4, <1>5
<1>8. q \in [1..n -> 1..n]
  BY <1>3, <1>6
<1>9. q \in Perms(n)
  BY <1>7, <1>8 DEF Perms
<1> QED BY <1>3, <1>9 DEF q

\* permute keeps the number of elements, for every rank and every permutation.
LEMMA ProdPermuted ==
  \A s \in Seq(Int) : \A p \in Perms(Len(s)) : Prod(Compose(s, p)) = Prod(s)
<1> DEFINE S == {n \in Nat : \A t \in Seq(Int) : Len(t) = n =>
                               \A q \in Perms(n) : Prod(Compose(t, q)) = Prod(t)}
<1>1. 0 \in S
  <2>1. SUFFICES ASSUME NEW t \in Seq(Int), Len(t) = 0, NEW q \in Perms(0)
                 PROVE  Prod(Compose(t, q)) = Prod(t)
    OBVIOUS
  <2>3. Compose(t, q) \in Seq(Int) /\ Len(Compose(t, q)) = 0
    BY <2>1, ComposeSeq, ZenonT(60)
  <2>4. Compose(t, q) = t
    BY <2>1, <2>3, SeqEqual
  <2> QED BY <2>4
<1>2. ASSUME NEW n \in Nat, n \in S
      PROVE  n + 1 \in S
  <2>1. SUFFICES ASSUME NEW t, t \in Seq(Int), Len(t) = n + 1,
                        NEW q, q \in Perms(n + 1)
                 PROVE  Prod(Compose(t, q)) = Prod(t)
    OBVIOUS
  <2>2. PICK j \in 1..(n + 1) : q[j] = n + 1
    <3>1. n + 1 \in Nat /\ n + 1 \in 1..(n + 1)
      OBVIOUS
    <3> QED BY <2>1, <3>1, PermOnto
  <2> DEFINE c == Compose(t, q)
             d == RemoveAt(c, j)
             u == RemoveAt(t, n + 1)
             r == RemoveAt(q, j)
             e == Compose(u, r)
  <2>3. /\ q \in [1..(n + 1) -> 1..(n + 1)] /\ n + 1 \in Nat
        /\ \A i, k \in 1..(n + 1) : q[i] = q[k] => i = k
    BY <2>1 DEF Perms
  <2>4. /\ c \in Seq(Int) /\ Len(c) = n + 1
        /\ \A k \in 1..(n + 1) : c[k] = t[q[k]]
    <3>1. c \in Seq(Int) /\ Len(c) = n + 1
      BY <2>1, ComposeSeq
    <3>2. \A k \in 1..(n + 1) : c[k] = t[q[k]]
      <4>1. n + 1 \in Nat /\ q \in Perms(n + 1)
        BY <2>1
      <4> QED BY <4>1, ComposeAt
    <3> HIDE DEF c
    <3> QED BY <3>1, <3>2
  <2> HIDE DEF c
  <2>5. /\ d \in Seq(Int) /\ Len(d) = n
        /\ \A k \in 1..n : d[k] = IF k < j THEN c[k] ELSE c[k + 1]
        /\ Prod(c) = Prod(d) * c[j]
    <3>1. j \in 1..Len(c) /\ Len(c) - 1 = n
      BY <2>4
    <3>2. /\ d \in Seq(Int) /\ Len(d) = Len(c) - 1
          /\ \A k \in 1..(Len(c) - 1) : d[k] = IF k < j THEN c[k] ELSE c[k + 1]
      BY <2>4, <3>1, RemoveAtIs
    <3> QED BY <2>4, <3>1, <3>2, ProdRemove
  <2>6. /\ u \in Seq(Int) /\ Len(u) = n
        /\ \A k \in 1..n : u[k] = t[k]
        /\ Prod(t) = Prod(u) * t[n + 1]
    <3>1. n + 1 \in 1..Len(t) /\ Len(t) - 1 = n
      BY <2>1
    <3>2. /\ u \in Seq(Int) /\ Len(u) = Len(t) - 1
          /\ \A k \in 1..(Len(t) - 1) : u[k] = IF k < n + 1 THEN t[k] ELSE t[k + 1]
      BY <2>1, <3>1, RemoveAtIs
    <3>3. Prod(t) = Prod(u) * t[n + 1]
      BY <2>1, <3>1, ProdRemove
    <3> HIDE DEF u
    <3> QED BY <2>1, <3>2, <3>3
  <2>7. /\ r \in Perms(n) /\ r \in [1..n -> 1..n]
        /\ \A k \in 1..n : r[k] = IF k < j THEN q[k] ELSE q[k + 1]
    <3>1. r \in Perms(n)
      BY <2>1, <2>2, PermRemove
    <3>2. \A k \in 1..n : r[k] = IF k < j THEN q[k] ELSE q[k + 1]
      BY <2>1, <2>2, PermRemove
    <3> QED BY <3>1, <3>2 DEF Perms
  <2> HIDE DEF d, u, r
  <2>8. /\ e \in Seq(Int) /\ Len(e) = n
        /\ \A k \in 1..n : e[k] = u[r[k]]
    <3>1. u \in Seq(Int) /\ Len(u) = n /\ r \in Perms(n)
      BY <2>6, <2>7
    <3>2. e \in Seq(Int) /\ Len(e) = n
      BY <3>1, ComposeSeq
    <3>3. \A k \in 1..n : e[k] = u[r[k]]
      BY <3>1, ComposeAt
    <3> HIDE DEF e
    <3> QED BY <3>2, <3>3
  <2>9. Prod(e) = Prod(u)
    BY <1>2, <2>6, <2>7
  <2> HIDE DEF e
  <2>10. ASSUME NEW k \in 1..n PROVE d[k] = e[k]
    <3> DEFINE i == IF k < j THEN k ELSE k + 1
    <3>1. i \in 1..(n + 1) /\ d[k] = c[i] /\ r[k] = q[i]
      BY <2>5, <2>7
    <3> HIDE DEF i
    <3>2. c[i] = t[q[i]]
      BY <2>4, <3>1
    <3>3. r[k] \in 1..n
      BY <2>7
    <3>4. e[k] = u[r[k]] /\ u[r[k]] = t[r[k]]
      BY <2>6, <2>8, <3>3
    <3> QED BY <3>1, <3>2, <3>4
  <2>11. d = e
    BY <2>5, <2>8, <2>10, SeqEqual
  <2>12. c[j] = t[n + 1]
    BY <2>2, <2>4
  <2> QED BY <2>5, <2>6, <2>9, <2>11, <2>12 DEF c
<1>3. Nat \subseteq S
  <2> HIDE DEF S
  <2> QED BY <1>1, <1>2, NatInduct
<1> QED BY <1>3

-----------------------------------------------------------------------------
(* Other shapes.                                                           *)

\* Entries that are natural numbers have a product that is one.
LEMMA ProdNat == \A s \in Seq(Nat) : Prod(s) \in Nat
<1> DEFINE S == {s \in Seq(Nat) : Prod(s) \in Nat}
<1>1. \A s \in Seq(Nat) : s \in Seq(Int)
  OBVIOUS
<1>2. <<>> \in S
  BY ProdEquations
<1>3. ASSUME NEW s \in Seq(Nat), NEW x \in Nat, s \in S
      PROVE  Append(s, x) \in S
  <2>1. Prod(Append(s, x)) = Prod(s) * x
    BY <1>1, ProdEquations
  <2>2. Prod(s) * x \in Nat /\ Append(s, x) \in Seq(Nat)
    BY <1>3
  <2> QED BY <2>1, <2>2
<1>4. Seq(Nat) \subseteq S
  <2> HIDE DEF S
  <2> QED BY <1>2, <1>3, ListInduct
<1> QED BY <1>4

\* Vectors and matrices.
LEMMA ProdShort ==
  /\ \A x \in Int : Prod(<<x>>) = x
  /\ \A x, y \in Int : Prod(<<x, y>>) = x * y
<1>1. ASSUME NEW x \in Int PROVE Prod(<<x>>) = x
  <2>1. <<>> \in Seq(Int) /\ Append(<<>>, x) = <<x>>
    OBVIOUS
  <2>2. Prod(Append(<<>>, x)) = 1 * x
    BY <2>1, ProdEquations
  <2> QED BY <2>1, <2>2
<1>2. ASSUME NEW x \in Int, NEW y \in Int PROVE Prod(<<x, y>>) = x * y
  <2>1. <<x>> \in Seq(Int) /\ <<x, y>> \in Seq(Int)
    OBVIOUS
  <2>2. Append(<<x>>, y) = <<x, y>>
    <3> DEFINE t == Append(<<x>>, y)
    <3>1. t \in Seq(Int) /\ Len(t) = 2 /\ t[1] = x /\ t[2] = y
      BY <2>1
    <3> HIDE DEF t
    <3>2. Len(<<x, y>>) = 2 /\ <<x, y>>[1] = x /\ <<x, y>>[2] = y
      OBVIOUS
    <3>3. t = <<x, y>>
      BY <2>1, <3>1, <3>2, SeqEqual
    <3> QED BY <3>3 DEF t
  <2>3. Prod(Append(<<x>>, y)) = Prod(<<x>>) * y
    BY <2>1, ProdEquations
  <2> QED BY <1>1, <2>2, <2>3
<1> QED BY <1>1, <1>2

\* The first dimension and the others.
LEMMA ProdTail ==
  ASSUME NEW s \in Seq(Int), s # <<>>
  PROVE  Prod(s) = s[1] * Prod(Tail(s)) /\ Tail(s) \in Seq(Int)
<1>1. 1 \in 1..Len(s) /\ s[1] \in Int
  OBVIOUS
<1>2. Tail(s) \in Seq(Int) /\ RemoveAt(s, 1) = Tail(s)
  <2>1. /\ RemoveAt(s, 1) \in Seq(Int) /\ Len(RemoveAt(s, 1)) = Len(s) - 1
        /\ \A j \in 1..(Len(s) - 1) : RemoveAt(s, 1)[j] = IF j < 1 THEN s[j] ELSE s[j + 1]
    BY <1>1, RemoveAtIs
  <2>2. /\ Tail(s) \in Seq(Int) /\ Len(Tail(s)) = Len(s) - 1
        /\ \A j \in 1..(Len(s) - 1) : Tail(s)[j] = s[j + 1]
    OBVIOUS
  <2> QED BY <2>1, <2>2, SeqEqual, SMTT(30)
<1>3. Prod(s) = Prod(RemoveAt(s, 1)) * s[1]
  BY <1>1, ProdRemove
<1>4. Prod(Tail(s)) \in Int
  BY <1>2, ProdEquations
<1>5. Prod(s) = Prod(Tail(s)) * s[1]
  BY <1>2, <1>3
<1>6. Prod(Tail(s)) * s[1] = s[1] * Prod(Tail(s))
  BY <1>1, <1>4
<1> QED BY <1>2, <1>5, <1>6

\* One more entry of the first axis.
LEMMA ProdGrown ==
  ASSUME NEW s \in Seq(Int), s # <<>>
  PROVE  Prod([s EXCEPT ![1] = @ + 1]) = Prod(s) + Prod(Tail(s))
<1> DEFINE t == [s EXCEPT ![1] = @ + 1]
<1>1. 1 \in 1..Len(s) /\ s[1] \in Int /\ s[1] + 1 \in Int
  OBVIOUS
<1>2. /\ t \in Seq(Int) /\ Len(t) = Len(s)
      /\ \A j \in 1..Len(s) : t[j] = IF j = 1 THEN s[1] + 1 ELSE s[j]
  BY <1>1, ExceptSeq
<1> HIDE DEF t
<1>3. t # <<>> /\ t[1] = s[1] + 1
  BY <1>1, <1>2
<1>4. Tail(t) = Tail(s)
  <2>1. /\ Tail(s) \in Seq(Int) /\ Len(Tail(s)) = Len(s) - 1
        /\ \A j \in 1..(Len(s) - 1) : Tail(s)[j] = s[j + 1]
    OBVIOUS
  <2>2. /\ Tail(t) \in Seq(Int) /\ Len(Tail(t)) = Len(s) - 1
        /\ \A j \in 1..(Len(s) - 1) : Tail(t)[j] = t[j + 1]
    BY <1>2, <1>3
  <2>3. \A j \in 1..(Len(s) - 1) : t[j + 1] = s[j + 1]
    BY <1>2
  <2> QED BY <2>1, <2>2, <2>3, SeqEqual
<1>5. Prod(t) = t[1] * Prod(Tail(t)) /\ Prod(s) = s[1] * Prod(Tail(s))
  BY <1>2, <1>3, ProdTail
<1>6. Prod(Tail(s)) \in Int
  BY ProdTail, ProdEquations
<1>7. (s[1] + 1) * Prod(Tail(s)) = s[1] * Prod(Tail(s)) + Prod(Tail(s))
  BY <1>1, <1>6
<1> QED BY <1>3, <1>4, <1>5, <1>7 DEF t

\* One dimension in the place of a 1: what reshape_ does with the dimension it
\* determines.
LEMMA ProdReplaced ==
  ASSUME NEW s \in Seq(Int), NEW t \in Seq(Int), Len(t) = Len(s),
         NEW i \in 1..Len(s), s[i] = 1,
         \A j \in 1..Len(s) : j # i => t[j] = s[j]
  PROVE  Prod(t) = Prod(s) * t[i]
<1> DEFINE a == RemoveAt(s, i)
           b == RemoveAt(t, i)
<1>1. /\ a \in Seq(Int) /\ Len(a) = Len(s) - 1
      /\ \A j \in 1..(Len(s) - 1) : a[j] = IF j < i THEN s[j] ELSE s[j + 1]
  BY RemoveAtIs
<1>2. /\ b \in Seq(Int) /\ Len(b) = Len(s) - 1
      /\ \A j \in 1..(Len(s) - 1) : b[j] = IF j < i THEN t[j] ELSE t[j + 1]
  <2>1. i \in 1..Len(t)
    OBVIOUS
  <2> QED BY <2>1, RemoveAtIs
<1>3. Prod(s) = Prod(a) * s[i] /\ Prod(t) = Prod(b) * t[i]
  BY ProdRemove
<1> HIDE DEF a, b
<1>4. a = b
  <2>1. ASSUME NEW j \in 1..Len(a) PROVE a[j] = b[j]
    <3>1. j \in 1..(Len(s) - 1) /\ j \in 1..Len(s) /\ j + 1 \in 1..Len(s)
      BY <1>1
    <3>2. CASE j < i
      <4>1. a[j] = s[j] /\ b[j] = t[j] /\ j # i
        BY <1>1, <1>2, <3>1, <3>2
      <4> QED BY <3>1, <4>1
    <3>3. CASE ~(j < i)
      <4>1. a[j] = s[j + 1] /\ b[j] = t[j + 1] /\ j + 1 # i
        BY <1>1, <1>2, <3>1, <3>3
      <4> QED BY <3>1, <4>1
    <3> QED BY <3>2, <3>3
  <2> QED BY <1>1, <1>2, <2>1, SeqEqual
<1>5. Prod(a) \in Int /\ t[i] \in Int
  BY <1>1, ProdEquations
<1> QED BY <1>3, <1>4, <1>5

\* The rest of a list of one, and of two.
LEMMA RestOfOne ==
  ASSUME NEW X, NEW s \in Seq(X), Len(s) = 1
  PROVE  s # <<>> /\ Tail(s) = <<>>
<1>1. s # <<>>
  OBVIOUS
<1>2. Tail(s) \in Seq(X) /\ Len(Tail(s)) = 0
  BY <1>1
<1>3. \A t \in Seq(X) : Len(t) = 0 => t = <<>>
  OBVIOUS
<1>4. Tail(s) = <<>>
  <2> DEFINE t == Tail(s)
  <2>1. t \in Seq(X) /\ Len(t) = 0
    BY <1>2
  <2> HIDE DEF t
  <2>2. t = <<>>
    BY <1>3, <2>1
  <2> QED BY <2>2 DEF t
<1> QED BY <1>1, <1>4

LEMMA RestOfTwo ==
  ASSUME NEW X, NEW s \in Seq(X), Len(s) = 2
  PROVE  s # <<>> /\ s[2] \in X /\ Tail(s) = <<s[2]>>
<1>1. s # <<>>
  OBVIOUS
<1>2. s[2] \in X
  OBVIOUS
<1>3. Tail(s) \in Seq(X)
  BY <1>1
<1>4. Len(Tail(s)) = 1
  BY <1>1
<1>5. Tail(s)[1] = s[2]
  BY <1>1
<1>6. <<s[2]>> \in Seq(X) /\ Len(<<s[2]>>) = 1 /\ <<s[2]>>[1] = s[2]
  BY <1>2
<1>7. Tail(s) = <<s[2]>>
  <2> DEFINE a == Tail(s)
             b == <<s[2]>>
  <2>1. a \in Seq(X) /\ b \in Seq(X) /\ Len(a) = 1 /\ Len(b) = 1 /\ a[1] = b[1]
    BY <1>3, <1>4, <1>5, <1>6
  <2> HIDE DEF a, b
  <2>2. \A i \in 1..Len(a) : a[i] = b[i]
    <3>1. 1..Len(a) = {1}
      BY <2>1
    <3> QED BY <2>1, <3>1
  <2>3. a = b
    BY <2>1, <2>2, SeqEqual
  <2> QED BY <2>3 DEF a, b
<1> QED BY <1>1, <1>2, <1>7

\* What follows the first dimension of a list of one or two.
LEMMA ProdRest ==
  /\ \A s \in Seq(Int) : Len(s) = 1 => s # <<>> /\ Prod(Tail(s)) = 1
  /\ \A s \in Seq(Int) : Len(s) = 2 => s # <<>> /\ Prod(Tail(s)) = s[2]
<1>1. ASSUME NEW s \in Seq(Int), Len(s) = 1
      PROVE  s # <<>> /\ Prod(Tail(s)) = 1
  <2>1. s # <<>> /\ Tail(s) = <<>>
    BY <1>1, RestOfOne
  <2> QED BY <2>1, ProdEquations
<1>2. ASSUME NEW s \in Seq(Int), Len(s) = 2
      PROVE  s # <<>> /\ Prod(Tail(s)) = s[2]
  <2>1. s # <<>> /\ s[2] \in Int /\ Tail(s) = <<s[2]>>
    BY <1>2, RestOfTwo
  <2> QED BY <2>1, ProdShort
<1> QED BY <1>1, <1>2

-----------------------------------------------------------------------------
(* Lists of axes with some taken out.                                      *)

\* e: what is left of the first entries of s, one by one.
Erases(X, s, S, e) ==
  /\ e \in [0..Len(s) -> Seq(X)] /\ e[0] = <<>>
  /\ \A k \in 1..Len(s) : e[k] = IF s[k] \in S THEN e[k - 1] ELSE Append(e[k - 1], s[k])
  /\ Erased(s, S) = e[Len(s)]

LEMMA ErasedSteps ==
  ASSUME NEW X, NEW s \in Seq(X), NEW S
  PROVE  \E f : Erases(X, s, S, f)
<1> DEFINE n == Len(s)
           V == Seq(X)
           Next(k, v) == IF s[k] \in S THEN v ELSE Append(v, s[k])
           step == [k \in 1..n |-> [v \in V |-> Next(k, v)]]
           p == CHOOSE p : p = [k \in 0..n |->
                                  IF k = 0 THEN <<>>
                                  ELSE IF s[k] \in S THEN p[k - 1]
                                  ELSE Append(p[k - 1], s[k])]
<1>1. n \in Nat /\ \A k \in 1..n : s[k] \in X
  OBVIOUS
<1>2. Erased(s, S) = p[n]
  BY DEF Erased
<1>3. \A k \in 1..n, v \in V : Next(k, v) \in V
  BY <1>1
<1>4. step \in [1..n -> [V -> V]] /\ <<>> \in V
  <2>1. <<>> \in V
    OBVIOUS
  <2> HIDE DEF V, n, Next
  <2> QED BY <1>3, <2>1
<1>5. PICK f \in [0..n -> V] : Unfolds(f, n, <<>>, step)
  <2> HIDE DEF V, n, step
  <2> QED BY <1>1, <1>4, Recursion
<1>6. f[0] = <<>> /\ \A k \in 1..n : f[k] = Next(k, f[k - 1])
  <2>1. f[0] = <<>> /\ \A k \in 1..n : f[k] = step[k][f[k - 1]]
    BY <1>5 DEF Unfolds
  <2>2. \A k \in 1..n : k - 1 \in 0..n
    BY <1>1
  <2>3. \A k \in 1..n, x \in V : step[k][x] = Next(k, x)
    OBVIOUS
  <2> HIDE DEF V, n, step, Next
  <2> QED BY <1>1, <2>1, <2>2, <2>3
<1>7. f = [k \in 0..n |-> IF k = 0 THEN <<>>
                          ELSE IF s[k] \in S THEN f[k - 1]
                          ELSE Append(f[k - 1], s[k])]
  <2>1. \A k \in 0..n : f[k] = IF k = 0 THEN <<>>
                               ELSE IF s[k] \in S THEN f[k - 1]
                               ELSE Append(f[k - 1], s[k])
    <3>1. \A k \in 0..n : k = 0 \/ k \in 1..n
      BY <1>1
    <3> HIDE DEF n, V
    <3> QED BY <1>6, <3>1
  <2> HIDE DEF n, V, p, step, Next
  <2> QED BY <2>1
<1>8. p = [k \in 0..n |-> IF k = 0 THEN <<>>
                          ELSE IF s[k] \in S THEN p[k - 1]
                          ELSE Append(p[k - 1], s[k])]
  <2> HIDE DEF n
  <2> QED BY <1>7
<1> HIDE DEF p, step
<1>9. /\ p[0] = <<>>
      /\ \A k \in 1..n : p[k] = IF s[k] \in S THEN p[k - 1] ELSE Append(p[k - 1], s[k])
  <2>1. 0 \in 0..n /\ \A k \in 1..n : k \in 0..n /\ k # 0
    BY <1>1
  <2> HIDE DEF n, V, Next
  <2>2. p[0] = <<>>
    BY <1>8, <2>1
  <2>3. ASSUME NEW k \in 1..n
        PROVE  p[k] = IF s[k] \in S THEN p[k - 1] ELSE Append(p[k - 1], s[k])
    BY <1>8, <2>1, Zenon
  <2> QED BY <2>2, <2>3
<1>10. \A k \in 0..n : p[k] \in V
  <2> DEFINE A == {k \in Nat : k <= n => p[k] \in V}
  <2> HIDE DEF V, n
  <2>1. 0 \in A
    BY <1>4, <1>9
  <2>2. ASSUME NEW k \in Nat, k \in A PROVE k + 1 \in A
    <3>1. SUFFICES ASSUME k + 1 <= n PROVE p[k + 1] \in V
      OBVIOUS
    <3>2. k + 1 \in 1..n /\ (k + 1) - 1 = k /\ p[k] \in V
      BY <1>1, <2>2, <3>1
    <3>3. p[k + 1] = Next(k + 1, p[k])
      BY <1>9, <3>2
    <3> QED BY <1>3, <3>2, <3>3
  <2> HIDE DEF A
  <2>3. Nat \subseteq A
    BY <2>1, <2>2, NatInduct
  <2> QED BY <1>1, <2>3 DEF A
<1>11. p \in [0..n -> V]
  <2> HIDE DEF V, n
  <2> QED BY <1>8, <1>10
<1> QED BY <1>2, <1>9, <1>11 DEF Erases

\* The entries of s.
Members(s) == {s[i] : i \in 1..Len(s)}

LEMMA AppendMembers ==
  ASSUME NEW X, NEW s \in Seq(X), NEW x \in X
  PROVE  /\ Append(s, x) \in Seq(X) /\ Len(Append(s, x)) = Len(s) + 1
         /\ Members(Append(s, x)) = Members(s) \cup {x}
         /\ IsInjective(s) /\ x \notin Members(s) => IsInjective(Append(s, x))
<1> DEFINE t == Append(s, x)
           n == Len(s)
<1>1. /\ t \in Seq(X) /\ Len(t) = n + 1 /\ n \in Nat /\ DOMAIN t = 1..(n + 1) /\ DOMAIN s = 1..n
      /\ \A i \in 1..n : t[i] = s[i]
      /\ t[n + 1] = x
  OBVIOUS
<1> HIDE DEF t
<1>2. 1..(n + 1) = 1..n \cup {n + 1} /\ n + 1 \notin 1..n
  BY <1>1
<1>3. Members(t) = Members(s) \cup {x}
  <2> HIDE DEF n
  <2>1. Members(t) = {t[i] : i \in 1..(n + 1)}
    BY <1>1 DEF Members
  <2>2. Members(s) = {s[i] : i \in 1..n}
    BY DEF Members, n
  <2> QED BY <1>1, <1>2, <2>1, <2>2
<1>4. ASSUME IsInjective(s), x \notin Members(s)
      PROVE  IsInjective(t)
  <2>1. \A i, j \in 1..n : s[i] = s[j] => i = j
    BY <1>1, <1>4 DEF IsInjective
  <2>2. \A i \in 1..n : s[i] # x
    BY <1>4 DEF Members
  <2> HIDE DEF n
  <2>3. \A i, j \in 1..(n + 1) : t[i] = t[j] => i = j
    BY <1>1, <1>2, <2>1, <2>2
  <2> QED BY <1>1, <2>3 DEF IsInjective
<1> QED BY <1>1, <1>3, <1>4 DEF t

\* Taking out S leaves the other entries, each as often as it was there.
LEMMA ErasedIs ==
  ASSUME NEW X, NEW s \in Seq(X), NEW S
  PROVE  /\ Erased(s, S) \in Seq(X)
         /\ Members(Erased(s, S)) = Members(s) \ S
         /\ IsInjective(s) => IsInjective(Erased(s, S))
<1> DEFINE n == Len(s)
           First(k) == {s[i] : i \in 1..k} \ S
<1>1. n \in Nat /\ DOMAIN s = 1..n /\ \A k \in 1..n : s[k] \in X
  OBVIOUS
<1>2. PICK e : Erases(X, s, S, e)
  BY ErasedSteps
<1>3. /\ e[0] = <<>> /\ Erased(s, S) = e[n]
      /\ \A k \in 0..n : e[k] \in Seq(X)
      /\ \A k \in 1..n : e[k] = IF s[k] \in S THEN e[k - 1] ELSE Append(e[k - 1], s[k])
  BY <1>2 DEF Erases
<1> DEFINE Good(k) == /\ Members(e[k]) = First(k)
                      /\ IsInjective(s) => IsInjective(e[k])
           A == {k \in Nat : k <= n => Good(k)}
<1>4. 0 \in A
  <2>1. Len(<<>>) = 0 /\ 1..0 = {} /\ DOMAIN <<>> = {}
    OBVIOUS
  <2>2. Members(<<>>) = {} /\ First(0) = {}
    BY <2>1 DEF Members
  <2>3. IsInjective(<<>>)
    BY <2>1 DEF IsInjective
  <2> QED BY <1>3, <2>2, <2>3
<1> HIDE DEF n
<1>5. ASSUME NEW k \in Nat, k \in A PROVE k + 1 \in A
  <2>1. SUFFICES ASSUME k + 1 <= n PROVE Good(k + 1)
    OBVIOUS
  <2>2. k + 1 \in 1..n /\ (k + 1) - 1 = k /\ k \in 0..n /\ Good(k)
    BY <1>1, <1>5, <2>1
  <2> DEFINE x == s[k + 1]
  <2>3. 1..(k + 1) = 1..k \cup {k + 1}
    OBVIOUS
  <2>4. {s[i] : i \in 1..(k + 1)} = {s[i] : i \in 1..k} \cup {x}
    BY <2>3
  <2>5. CASE x \in S
    <3>1. e[k + 1] = e[k]
      BY <1>3, <2>2, <2>5
    <3>2. First(k + 1) = First(k)
      BY <2>4, <2>5
    <3> QED BY <2>2, <3>1, <3>2
  <2>6. CASE x \notin S
    <3>1. e[k + 1] = Append(e[k], x) /\ e[k] \in Seq(X) /\ x \in X
      BY <1>1, <1>3, <2>2, <2>6
    <3>2. First(k + 1) = First(k) \cup {x}
      BY <2>4, <2>6
    <3>3. Members(Append(e[k], x)) = Members(e[k]) \cup {x}
      BY <3>1, AppendMembers
    <3>4. ASSUME IsInjective(s) PROVE IsInjective(Append(e[k], x))
      <4>1. \A i \in 1..k : i \in DOMAIN s /\ i # k + 1
        BY <1>1, <2>2
      <4>2. k + 1 \in DOMAIN s
        BY <1>1, <2>2
      <4>3. \A i \in 1..k : s[i] # x
        BY <3>4, <4>1, <4>2 DEF IsInjective
      <4>4. x \notin Members(e[k])
        BY <2>2, <4>3
      <4>5. IsInjective(e[k])
        BY <2>2, <3>4
      <4> HIDE DEF x
      <4> QED BY <3>1, <4>4, <4>5, AppendMembers
    <3> HIDE DEF x, First
    <3> QED BY <2>2, <3>1, <3>2, <3>3, <3>4
  <2> QED BY <2>5, <2>6
<1> HIDE DEF A
<1>6. Nat \subseteq A
  BY <1>4, <1>5, NatInduct
<1>7. Good(n) /\ n \in 0..n
  BY <1>1, <1>6 DEF A
<1>8. First(n) = Members(s) \ S
  BY DEF Members, n
<1> QED BY <1>3, <1>7, <1>8

\* A list without repetitions is as long as the set of its entries.
LEMMA MembersCount ==
  ASSUME NEW X, NEW s \in Seq(X), IsInjective(s)
  PROVE  IsFiniteSet(Members(s)) /\ Cardinality(Members(s)) = Len(s)
<1> DEFINE n == Len(s)
           M == Members(s)
<1>1. n \in Nat /\ s \in [1..n -> X] /\ DOMAIN s = 1..n
  OBVIOUS
<1>2. IsFiniteSet(1..n) /\ Cardinality(1..n) = n
  BY <1>1, FS_Interval
<1>3. \A i \in 1..n : s[i] \in M
  BY DEF Members
<1>4. \A m \in M : \E i \in 1..n : s[i] = m
  BY DEF Members
<1>5. \A i, j \in 1..n : s[i] = s[j] => i = j
  BY <1>1 DEF IsInjective
<1> HIDE DEF n, M
<1>6. s \in [1..n -> M]
  BY <1>1, <1>3
<1>7. s \in Surjection(1..n, M)
  BY <1>4, <1>6 DEF Surjection
<1>8. s \in Injection(1..n, M)
  BY <1>5, <1>6 DEF Injection, IsInjective
<1>9. IsFiniteSet(M) /\ Cardinality(M) = Cardinality(1..n)
  BY <1>2, <1>7, <1>8, FS_Surjection
<1> QED BY <1>2, <1>9 DEF n, M

\* Taking out nothing leaves a list as it was.
LEMMA ErasedNone ==
  ASSUME NEW X, NEW s \in Seq(X)
  PROVE  Erased(s, {}) = s
<1> DEFINE n == Len(s)
<1>1. n \in Nat /\ \A k \in 1..n : s[k] \in X
  OBVIOUS
<1>2. PICK e : Erases(X, s, {}, e)
  BY ErasedSteps
<1>3. /\ e[0] = <<>> /\ Erased(s, {}) = e[n]
      /\ \A k \in 1..n : e[k] = Append(e[k - 1], s[k])
      /\ \A k \in 0..n : e[k] \in Seq(X)
  BY <1>2 DEF Erases
<1> DEFINE Good(k) == Len(e[k]) = k /\ \A i \in 1..k : e[k][i] = s[i]
           A == {k \in Nat : k <= n => Good(k)}
<1>4. 0 \in A
  BY <1>3
<1> HIDE DEF n
<1>5. ASSUME NEW k \in Nat, k \in A PROVE k + 1 \in A
  <2>1. SUFFICES ASSUME k + 1 <= n PROVE Good(k + 1)
    OBVIOUS
  <2>2. k + 1 \in 1..n /\ (k + 1) - 1 = k /\ k \in 0..n /\ Good(k)
    BY <1>1, <1>5, <2>1
  <2>3. e[k + 1] = Append(e[k], s[k + 1]) /\ e[k] \in Seq(X) /\ s[k + 1] \in X
    BY <1>1, <1>3, <2>2
  <2>4. Len(e[k]) = k /\ \A i \in 1..k : e[k][i] = s[i]
    BY <2>2
  <2> DEFINE f == e[k]
  <2> HIDE DEF f
  <2>5. /\ Len(Append(f, s[k + 1])) = k + 1
        /\ Append(f, s[k + 1])[k + 1] = s[k + 1]
        /\ \A i \in 1..k : Append(f, s[k + 1])[i] = f[i]
    BY <2>3, <2>4 DEF f
  <2>6. \A i \in 1..(k + 1) : i \in 1..k \/ i = k + 1
    OBVIOUS
  <2> QED BY <2>3, <2>4, <2>5, <2>6 DEF f
<1> HIDE DEF A
<1>6. Nat \subseteq A
  BY <1>4, <1>5, NatInduct
<1>7. Good(n) /\ e[n] \in Seq(X)
  BY <1>1, <1>3, <1>6 DEF A
<1> QED BY <1>3, <1>7, SeqEqual DEF n

\* How many elements of S are smaller than a.
Below(S, a) == Cardinality({k \in S : k < a})

\* The elements of a finite set of numbers are numbered by those below them.
LEMMA BelowIs ==
  ASSUME NEW S \in SUBSET Int, IsFiniteSet(S)
  PROVE  /\ Cardinality(S) \in Nat
         /\ \A a \in S : Below(S, a) \in 0..(Cardinality(S) - 1)
         /\ \A a, b \in S : Below(S, a) = Below(S, b) => a = b
         /\ \A k \in 0..(Cardinality(S) - 1) : \E a \in S : Below(S, a) = k
<1> DEFINE c == Cardinality(S)
           B(a) == {k \in S : k < a}
<1>1. c \in Nat
  BY FS_CardinalityType
<1>2. \A a \in S : IsFiniteSet(B(a)) /\ Cardinality(B(a)) \in Nat
  <2> TAKE a \in S
  <2>1. B(a) \in SUBSET S
    OBVIOUS
  <2> HIDE DEF B
  <2> QED BY <2>1, FS_Subset, FS_CardinalityType
<1>3. \A a \in S : Below(S, a) \in 0..(c - 1)
  <2> TAKE a \in S
  <2>1. B(a) \in SUBSET S /\ B(a) # S
    <3>1. a \notin B(a)
      OBVIOUS
    <3> QED BY <3>1
  <2>2. Below(S, a) = Cardinality(B(a))
    BY DEF Below
  <2> HIDE DEF B
  <2>3. Cardinality(B(a)) <= c /\ Cardinality(B(a)) # c
    BY <2>1, FS_Subset
  <2> HIDE DEF c
  <2> QED BY <1>1, <1>2, <2>2, <2>3
<1>4. ASSUME NEW a \in S, NEW b \in S, a < b
      PROVE  Below(S, a) < Below(S, b)
  <2>1. a \in Int /\ b \in Int
    OBVIOUS
  <2>2. a \in B(b) /\ a \notin B(a)
    BY <1>4, <2>1
  <2>3. ASSUME NEW k \in S, k < a PROVE k < b
    <3>1. k \in Int
      OBVIOUS
    <3> QED BY <1>4, <2>1, <2>3, <3>1
  <2>4. B(a) \in SUBSET B(b)
    BY <2>3
  <2>5. Below(S, a) = Cardinality(B(a)) /\ Below(S, b) = Cardinality(B(b))
    BY DEF Below
  <2> HIDE DEF B
  <2>6. B(a) # B(b)
    BY <2>2
  <2>7. Cardinality(B(a)) <= Cardinality(B(b)) /\ Cardinality(B(a)) # Cardinality(B(b))
    BY <1>2, <2>4, <2>6, FS_Subset
  <2> QED BY <1>2, <2>5, <2>7
<1>5. \A a, b \in S : Below(S, a) = Below(S, b) => a = b
  <2>1. SUFFICES ASSUME NEW a \in S, NEW b \in S, Below(S, a) = Below(S, b)
                 PROVE  a = b
    OBVIOUS
  <2>2. a \in Int /\ b \in Int /\ Below(S, a) \in Int
    BY <1>1, <1>3
  <2>3. ~(a < b) /\ ~(b < a)
    BY <1>4, <2>1, <2>2
  <2> QED BY <2>2, <2>3
<1>6. \A k \in 0..(c - 1) : \E a \in S : Below(S, a) = k
  <2> DEFINE f == [a \in S |-> Below(S, a)]
             D == 0..(c - 1)
  <2>1. f \in [S -> D]
    BY <1>3
  <2>2. \A a, b \in S : f[a] = f[b] => a = b
    BY <1>5
  <2>3. \A a \in S : f[a] = Below(S, a)
    OBVIOUS
  <2>4. IsFiniteSet(D) /\ Cardinality(D) = c
    <3> HIDE DEF c
    <3>1. 0 \in Int /\ c - 1 \in Int
      BY <1>1
    <3>2. /\ IsFiniteSet(0..(c - 1))
          /\ Cardinality(0..(c - 1)) = IF 0 > c - 1 THEN 0 ELSE (c - 1) - 0 + 1
      BY <3>1, FS_Interval
    <3> QED BY <1>1, <3>2
  <2> HIDE DEF f, D
  <2>5. f \in Injection(S, D)
    BY <2>1, <2>2 DEF Injection, IsInjective
  <2>6. f \in Surjection(S, D)
    BY <2>4, <2>5, FS_Injection
  <2>7. \A k \in D : \E a \in S : f[a] = k
    BY <2>6 DEF Surjection
  <2> QED BY <2>3, <2>7 DEF D
<1> QED BY <1>1, <1>3, <1>5, <1>6

\* The number of axis a once the axes of R are gone.
Anew(R, a) == a - Cardinality({k \in R : k < a})

\* Numbering anew the axes of 1..n that are not in R makes them 1, 2, ...
LEMMA Renumbered ==
  ASSUME NEW n \in Nat, NEW R \in SUBSET (1..n)
  PROVE  /\ Cardinality((1..n) \ R) \in Nat
         /\ \A a \in (1..n) \ R : Anew(R, a) \in 1..Cardinality((1..n) \ R)
         /\ \A a, b \in (1..n) \ R : Anew(R, a) = Anew(R, b) => a = b
<1> DEFINE S == (1..n) \ R
           c == Cardinality(S)
<1>1. IsFiniteSet(1..n)
  BY FS_Interval
<1>2. IsFiniteSet(S) /\ S \in SUBSET Int
  <2>1. S \in SUBSET (1..n) /\ S \in SUBSET Int
    OBVIOUS
  <2> HIDE DEF S
  <2>2. IsFiniteSet(S)
    BY <1>1, <2>1, FS_Subset
  <2> QED BY <2>1, <2>2
<1>3. \A a \in S : Anew(R, a) = Below(S, a) + 1
  <2> TAKE a \in S
  <2> DEFINE A == 1..(a - 1)
             K == {k \in R : k < a}
             L == {k \in S : k < a}
  <2>1. a \in 1..n /\ R \subseteq 1..n
    OBVIOUS
  <2>2. IsFiniteSet(A) /\ Cardinality(A) = a - 1
    BY <2>1, FS_Interval
  <2>3. L = A \ K /\ A \cap K = K
    <3>1. \A k : k \in L <=> k \in 1..n /\ k \notin R /\ k < a
      OBVIOUS
    <3>2. \A k : k \in K <=> k \in R /\ k < a
      OBVIOUS
    <3>3. \A k : k \in A <=> k \in 1..n /\ k < a
      BY <2>1
    <3> HIDE DEF A, K, L
    <3>4. \A k : k \in L <=> k \in A /\ k \notin K
      BY <3>1, <3>2, <3>3
    <3>5. \A k : k \in K => k \in A
      BY <2>1, <3>2, <3>3
    <3> QED BY <3>4, <3>5
  <2>4. Below(S, a) = Cardinality(L) /\ Anew(R, a) = a - Cardinality(K)
    BY DEF Below, Anew
  <2> HIDE DEF A, K, L, S
  <2>5. IsFiniteSet(K) /\ Cardinality(K) \in Nat
    BY <2>2, <2>3, FS_Intersection, FS_CardinalityType
  <2>6. Cardinality(A \ K) = Cardinality(A) - Cardinality(A \cap K)
    BY <2>2, FS_Difference
  <2> QED BY <2>1, <2>2, <2>3, <2>4, <2>5, <2>6
<1> HIDE DEF S
<1>4. /\ c \in Nat
      /\ \A a \in S : Below(S, a) \in 0..(c - 1)
      /\ \A a, b \in S : Below(S, a) = Below(S, b) => a = b
  BY <1>2, BelowIs
<1> HIDE DEF c
<1>5. \A a \in S : Anew(R, a) \in 1..c
  <2> TAKE a \in S
  <2>1. Anew(R, a) = Below(S, a) + 1 /\ Below(S, a) \in 0..(c - 1)
    BY <1>3, <1>4
  <2> QED BY <1>4, <2>1
<1>6. \A a, b \in S : Anew(R, a) = Anew(R, b) => a = b
  <2> SUFFICES ASSUME NEW a \in S, NEW b \in S, Anew(R, a) = Anew(R, b)
               PROVE  a = b
    OBVIOUS
  <2>1. Anew(R, a) = Below(S, a) + 1 /\ Anew(R, b) = Below(S, b) + 1
    BY <1>3
  <2>2. Below(S, a) \in Int /\ Below(S, b) \in Int
    BY <1>4
  <2>3. Below(S, a) + 1 = Below(S, b) + 1
    BY <2>1, Zenon
  <2>4. Below(S, a) = Below(S, b)
    <3> DEFINE x == Below(S, a)
               y == Below(S, b)
    <3>1. x \in Int /\ y \in Int /\ x + 1 = y + 1
      BY <2>2, <2>3
    <3> HIDE DEF x, y
    <3>2. x = y
      BY <3>1
    <3> QED BY <3>2 DEF x, y
  <2> QED BY <1>4, <2>4
<1> QED BY <1>4, <1>5, <1>6 DEF S, c
=============================================================================
