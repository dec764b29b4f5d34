---------------------------- MODULE SearchProofs ----------------------------
(***************************************************************************)
(* What is proved of the search for a contraction order, for networks of   *)
(* any number of tensors with any legs: the components that dfs finds part *)
(* the network; at every step the tensors still to be contracted hold each *)
(* tensor of the network exactly once; and on a diagram the legs of each   *)
(* are those of its members that no other member shares.                   *)
(***************************************************************************)
EXTENDS SearchTree, Induction, FiniteSetTheorems

-----------------------------------------------------------------------------
(* Lists without duplicates.                                               *)

Distinct(s) == \A i, j \in 1..Len(s) : s[i] = s[j] => i = j

LEMMA SetOf ==
  ASSUME NEW X, NEW s \in Seq(X)
  PROVE  /\ \A x : x \in ToSet(s) <=> \E i \in 1..Len(s) : x = s[i]
         /\ ToSet(s) \subseteq X
         /\ \A i \in 1..Len(s) : s[i] \in ToSet(s)
         /\ ToSet(s) = {} <=> s = <<>>
<1>1. ToSet(s) = {s[i] : i \in 1..Len(s)}
  BY DEF ToSet
<1>2. s # <<>> => 1 \in 1..Len(s)
  OBVIOUS
<1> QED BY <1>1, <1>2

LEMMA AppendDistinct ==
  ASSUME NEW X, NEW s \in Seq(X), NEW x \in X
  PROVE  /\ ToSet(Append(s, x)) = ToSet(s) \cup {x}
         /\ Distinct(s) /\ x \notin ToSet(s) => Distinct(Append(s, x))
<1> DEFINE t == Append(s, x)
<1>1. /\ t \in Seq(X) /\ Len(t) = Len(s) + 1 /\ Len(s) \in Nat
      /\ \A i \in 1..Len(s) : t[i] = s[i]
      /\ t[Len(s) + 1] = x
  OBVIOUS
<1> HIDE DEF t
<1>2. /\ \A y : y \in ToSet(t) <=> \E i \in 1..Len(t) : y = t[i]
      /\ \A y : y \in ToSet(s) <=> \E i \in 1..Len(s) : y = s[i]
  BY <1>1, SetOf
<1>3. ToSet(t) = ToSet(s) \cup {x}
  <2>1. 1..Len(t) = (1..Len(s)) \cup {Len(s) + 1}
    BY <1>1
  <2> QED BY <1>1, <1>2, <2>1
<1>4. ASSUME Distinct(s), x \notin ToSet(s), NEW i \in 1..Len(t), NEW j \in 1..Len(t),
             t[i] = t[j]
      PROVE  i = j
  <2>1. \A k \in 1..Len(s) : t[k] # x
    BY <1>1, <1>2, <1>4
  <2>2. i \in 1..Len(s) \/ i = Len(s) + 1
    BY <1>1
  <2>3. j \in 1..Len(s) \/ j = Len(s) + 1
    BY <1>1
  <2> QED BY <1>1, <1>4, <2>1, <2>2, <2>3 DEF Distinct
<1>5. Distinct(s) /\ x \notin ToSet(s) => Distinct(t)
  BY <1>4 DEF Distinct
<1> QED BY <1>3, <1>5 DEF t

LEMMA ConcatDistinct ==
  ASSUME NEW X, NEW s \in Seq(X), NEW t \in Seq(X)
  PROVE  /\ ToSet(s \o t) = ToSet(s) \cup ToSet(t)
         /\ Distinct(s \o t) <=>
              Distinct(s) /\ Distinct(t) /\ ToSet(s) \cap ToSet(t) = {}
<1> DEFINE u == s \o t
           m == Len(s)
           n == Len(t)
<1>1. /\ u \in Seq(X) /\ Len(u) = m + n /\ m \in Nat /\ n \in Nat
      /\ \A i \in 1..m : u[i] = s[i]
      /\ \A i \in 1..n : u[m + i] = t[i]
  OBVIOUS
<1>b. \A y : y \in ToSet(u) <=> \E i \in 1..(m + n) : y = u[i]
  <2>1. \A y : y \in ToSet(u) <=> \E i \in 1..Len(u) : y = u[i]
    <3> HIDE DEF u
    <3> QED BY <1>1, SetOf
  <2> HIDE DEF u
  <2> QED BY <1>1, <2>1
<1>c. \A y : y \in ToSet(s) <=> \E i \in 1..m : y = s[i]
  BY SetOf
<1>d. \A y : y \in ToSet(t) <=> \E i \in 1..n : y = t[i]
  BY SetOf
<1>a. /\ Distinct(s) <=> \A i, j \in 1..m : s[i] = s[j] => i = j
      /\ Distinct(t) <=> \A i, j \in 1..n : t[i] = t[j] => i = j
      /\ Distinct(u) <=> \A i, j \in 1..(m + n) : u[i] = u[j] => i = j
  BY <1>1 DEF Distinct
<1> HIDE DEF u, m, n
<1>3. \A k \in 1..(m + n) : k \in 1..m \/ \E i \in 1..n : k = m + i
  <2>1. SUFFICES ASSUME NEW k \in 1..(m + n), ~(k \in 1..m)
                 PROVE  \E i \in 1..n : k = m + i
    OBVIOUS
  <2>2. k - m \in 1..n /\ k = m + (k - m)
    BY <1>1, <2>1
  <2> QED BY <2>2
<1>4. /\ \A i \in 1..m : i \in 1..(m + n)
      /\ \A i \in 1..n : m + i \in 1..(m + n) /\ m + i \notin 1..m
      /\ \A i, j \in 1..n : m + i = m + j => i = j
  BY <1>1
<1>5. ToSet(u) = ToSet(s) \cup ToSet(t)
  <2>1. ToSet(u) \subseteq ToSet(s) \cup ToSet(t)
    <3>1. SUFFICES ASSUME NEW k \in 1..(m + n)
                   PROVE  u[k] \in ToSet(s) \cup ToSet(t)
      BY <1>b
    <3>2. CASE k \in 1..m
      BY <1>1, <1>c, <3>2
    <3>3. CASE \E i \in 1..n : k = m + i
      BY <1>1, <1>d, <3>3
    <3> QED BY <1>3, <3>2, <3>3
  <2>2. ToSet(s) \subseteq ToSet(u)
    BY <1>1, <1>b, <1>c, <1>4
  <2>3. ToSet(t) \subseteq ToSet(u)
    BY <1>1, <1>b, <1>d, <1>4
  <2> QED BY <2>1, <2>2, <2>3
<1>6. ASSUME Distinct(u)
      PROVE  Distinct(s) /\ Distinct(t) /\ ToSet(s) \cap ToSet(t) = {}
  <2>1. Distinct(s)
    BY <1>1, <1>4, <1>6, <1>a
  <2>2. \A i, j \in 1..n : t[i] = t[j] => m + i = m + j
    BY <1>1, <1>4, <1>6, <1>a
  <2>3. Distinct(t)
    BY <1>4, <2>2, <1>a
  <2>4. \A i \in 1..m, j \in 1..n : s[i] # t[j]
    BY <1>1, <1>4, <1>6, <1>a
  <2> QED BY <1>c, <1>d, <2>1, <2>3, <2>4
<1>7. ASSUME Distinct(s), Distinct(t), ToSet(s) \cap ToSet(t) = {},
             NEW i \in 1..(m + n), NEW j \in 1..(m + n), u[i] = u[j]
      PROVE  i = j
  <2>1. \A k \in 1..m, l \in 1..n : s[k] # t[l]
    BY <1>c, <1>d, <1>7
  <2>2. CASE i \in 1..m /\ j \in 1..m
    BY <1>1, <1>7, <1>a, <2>2
  <2>3. ASSUME i \in 1..m, NEW l \in 1..n, j = m + l PROVE FALSE
    <3>1. u[i] = s[i] /\ u[j] = t[l]
      BY <1>1, <2>3
    <3> QED BY <1>7, <2>1, <2>3, <3>1
  <2>4. ASSUME j \in 1..m, NEW l \in 1..n, i = m + l PROVE FALSE
    <3>1. u[j] = s[j] /\ u[i] = t[l]
      BY <1>1, <2>4
    <3> QED BY <1>7, <2>1, <2>4, <3>1
  <2>5. ASSUME NEW k \in 1..n, i = m + k, NEW l \in 1..n, j = m + l PROVE i = j
    <3>1. u[i] = t[k] /\ u[j] = t[l]
      BY <1>1, <2>5
    <3>2. k = l
      BY <1>7, <1>a, <2>5, <3>1
    <3> QED BY <2>5, <3>2
  <2> QED BY <1>3, <2>2, <2>3, <2>4, <2>5
<1>8. Distinct(u) <=> Distinct(s) /\ Distinct(t) /\ ToSet(s) \cap ToSet(t) = {}
  BY <1>6, <1>7, <1>a
<1> QED BY <1>5, <1>8 DEF u

LEMMA RemoveDistinct ==
  ASSUME NEW X, NEW s \in Seq(X), NEW i \in 1..Len(s), Distinct(s)
  PROVE  /\ Distinct(RemoveAt(s, i))
         /\ ToSet(RemoveAt(s, i)) = ToSet(s) \ {s[i]}
<1> DEFINE r == RemoveAt(s, i)
           n == Len(s)
<1>1. /\ r \in Seq(X) /\ Len(r) = n - 1 /\ n \in Nat /\ i \in 1..n
      /\ \A j \in 1..(n - 1) : r[j] = IF j < i THEN s[j] ELSE s[j + 1]
  BY RemoveAtIs
<1>2. \A j, k \in 1..n : s[j] = s[k] => j = k
  BY DEF Distinct
<1> HIDE DEF r
<1>3. /\ \A y : y \in ToSet(r) <=> \E j \in 1..(n - 1) : y = r[j]
      /\ \A y : y \in ToSet(s) <=> \E j \in 1..n : y = s[j]
  BY <1>1, SetOf
<1> HIDE DEF n
<1> DEFINE at(j) == IF j < i THEN j ELSE j + 1
<1>4. \A j \in 1..(n - 1) : at(j) \in 1..n /\ at(j) # i /\ r[j] = s[at(j)]
  BY <1>1
<1>5. \A j, k \in 1..(n - 1) : at(j) = at(k) => j = k
  BY <1>1
<1>6. \A k \in 1..n : k # i => \E j \in 1..(n - 1) : k = at(j)
  <2>1. SUFFICES ASSUME NEW k \in 1..n, k # i
                 PROVE  \E j \in 1..(n - 1) : k = at(j)
    OBVIOUS
  <2>2. CASE k < i
    <3>1. k \in 1..(n - 1) /\ k = at(k)
      BY <1>1, <2>2
    <3> HIDE DEF at
    <3> QED BY <3>1
  <2>3. CASE k > i
    <3>1. k - 1 \in 1..(n - 1) /\ k = at(k - 1)
      BY <1>1, <2>3
    <3> HIDE DEF at
    <3> QED BY <3>1
  <2> QED BY <1>1, <2>1, <2>2, <2>3
<1> HIDE DEF at
<1>7. Distinct(r)
  <2>1. SUFFICES ASSUME NEW j \in 1..(n - 1), NEW k \in 1..(n - 1), r[j] = r[k]
                 PROVE  j = k
    BY <1>1 DEF Distinct
  <2>2. at(j) = at(k)
    BY <1>2, <1>4, <2>1
  <2> QED BY <1>5, <2>2
<1>8. ToSet(r) \subseteq ToSet(s) \ {s[i]}
  <2>1. SUFFICES ASSUME NEW j \in 1..(n - 1)
                 PROVE  r[j] \in ToSet(s) \ {s[i]}
    BY <1>3
  <2>2. at(j) \in 1..n /\ at(j) # i /\ r[j] = s[at(j)]
    BY <1>4
  <2> QED BY <1>1, <1>2, <1>3, <2>2
<1>9. ToSet(s) \ {s[i]} \subseteq ToSet(r)
  BY <1>3, <1>4, <1>6
<1> QED BY <1>7, <1>8, <1>9 DEF r

LEMMA DistinctCount ==
  ASSUME NEW X, NEW s \in Seq(X), Distinct(s)
  PROVE  IsFiniteSet(ToSet(s)) /\ Cardinality(ToSet(s)) = Len(s)
<1> DEFINE n == Len(s)
           f == [i \in 1..n |-> s[i]]
<1>1. n \in Nat /\ \A y : y \in ToSet(s) <=> \E i \in 1..n : y = s[i]
  BY SetOf
<1>2. \A i, j \in 1..n : s[i] = s[j] => i = j
  BY DEF Distinct
<1> HIDE DEF n
<1>3. f \in Bijection(1..n, ToSet(s))
  <2>1. f \in [1..n -> ToSet(s)] /\ \A i \in 1..n : f[i] = s[i]
    BY <1>1
  <2> HIDE DEF f
  <2>2. IsInjective(f)
    BY <1>2, <2>1 DEF IsInjective
  <2>3. \A y \in ToSet(s) : \E i \in 1..n : f[i] = y
    BY <1>1, <2>1
  <2> QED BY <2>1, <2>2, <2>3 DEF Bijection, Injection, Surjection
<1>4. ExistsBijection(1..n, ToSet(s))
  BY <1>3 DEF ExistsBijection
<1>5. IsFiniteSet(1..n) /\ Cardinality(1..n) = n
  <2>1. 1 \in Int /\ n \in Int /\ (IF 1 > n THEN 0 ELSE n - 1 + 1) = n
    BY <1>1
  <2> QED BY <2>1, FS_Interval
<1>6. IsFiniteSet(ToSet(s)) /\ Cardinality(ToSet(s)) = Cardinality(1..n)
  BY <1>4, <1>5, FS_Bijection
<1> QED BY <1>5, <1>6 DEF n

\* FlattenSeq, by the last list and by the first.
LEMMA FlatEquations ==
  ASSUME NEW X
  PROVE  /\ FlattenSeq(<<>>) = <<>>
         /\ \A ss \in Seq(Seq(X)) : FlattenSeq(ss) \in Seq(X)
         /\ \A ss \in Seq(Seq(X)), s \in Seq(X) :
              FlattenSeq(Append(ss, s)) = FlattenSeq(ss) \o s
<1> DEFINE V == Seq(X)
<1>1. FlattenSeq(<<>>) = <<>>
  BY DEF FlattenSeq
<1>2. ASSUME NEW ss \in Seq(V), ss # <<>>
      PROVE  \E f \in [0..(Len(ss) - 1) -> V] :
               /\ f[0] = ss[1]
               /\ \A i \in 1..(Len(ss) - 1) : f[i] = f[i - 1] \o ss[i + 1]
               /\ FlattenSeq(ss) = f[Len(ss) - 1]
  <2> DEFINE n == Len(ss) - 1
             step == [i \in 1..n |-> [v \in V |-> v \o ss[i + 1]]]
             p == CHOOSE p : p = [i \in 1..Len(ss) |->
                                    IF i = 1 THEN ss[i] ELSE p[i - 1] \o ss[i]]
  <2>1. n \in Nat /\ ss[1] \in V /\ \A i \in 1..n : ss[i + 1] \in V
    BY <1>2
  <2>a. \A v, w \in V : v \o w \in V
    OBVIOUS
  <2>2. step \in [1..n -> [V -> V]]
    <3> HIDE DEF V, n
    <3> QED BY <2>1, <2>a
  <2>3. PICK f \in [0..n -> V] : Unfolds(f, n, ss[1], step)
    <3> HIDE DEF V, n, step
    <3> QED BY <2>1, <2>2, Recursion
  <2>4. f[0] = ss[1] /\ \A i \in 1..n : f[i] = f[i - 1] \o ss[i + 1]
    <3>1. f[0] = ss[1] /\ \A i \in 1..n : f[i] = step[i][f[i - 1]]
      BY <2>3 DEF Unfolds
    <3>2. \A i \in 1..n : i - 1 \in 0..n
      BY <2>1
    <3>3. \A i \in 1..n, v \in V : step[i][v] = v \o ss[i + 1]
      OBVIOUS
    <3> HIDE DEF V, n, step
    <3> QED BY <3>1, <3>2, <3>3
  <2>5. Len(ss) = n + 1
    BY <1>2
  <2> DEFINE g == [i \in 1..Len(ss) |-> f[i - 1]]
  <2>6. g = [i \in 1..Len(ss) |-> IF i = 1 THEN ss[i] ELSE g[i - 1] \o ss[i]]
    <3>1. ASSUME NEW i \in 1..Len(ss)
          PROVE  f[i - 1] = IF i = 1 THEN ss[i] ELSE g[i - 1] \o ss[i]
      <4>1. CASE i = 1
        BY <2>4, <4>1
      <4>2. CASE i # 1
        <5>1. i - 1 \in 1..n /\ (i - 1) + 1 = i /\ i - 1 \in 1..Len(ss)
          BY <2>1, <2>5, <4>2
        <5>2. g[i - 1] = f[(i - 1) - 1]
          BY <5>1
        <5> HIDE DEF g, n
        <5> QED BY <2>4, <4>2, <5>1, <5>2
      <4> QED BY <4>1, <4>2
    <3> QED BY <3>1
  <2>7. p = [i \in 1..Len(ss) |-> IF i = 1 THEN ss[i] ELSE p[i - 1] \o ss[i]]
    <3> HIDE DEF g
    <3> QED BY <2>6
  <2>8. FlattenSeq(ss) = p[Len(ss)]
    BY <1>2 DEF FlattenSeq
  <2> HIDE DEF p, step
  <2>9. \A k \in Nat : k <= n => p[k + 1] = f[k]
    <3> DEFINE S == {k \in Nat : k <= n => p[k + 1] = f[k]}
    <3>1. 0 \in S
      BY <2>1, <2>4, <2>5, <2>7
    <3>2. ASSUME NEW k \in Nat, k \in S, k + 1 <= n PROVE p[(k + 1) + 1] = f[k + 1]
      <4>1. (k + 1) + 1 \in 1..Len(ss) /\ (k + 1) + 1 # 1 /\ k + 1 \in 1..n /\ k <= n
            /\ ((k + 1) + 1) - 1 = k + 1 /\ (k + 1) - 1 = k
        BY <2>1, <2>5, <3>2
      <4>2. p[(k + 1) + 1] = p[k + 1] \o ss[(k + 1) + 1]
        BY <2>7, <4>1
      <4>3. f[k + 1] = f[k] \o ss[(k + 1) + 1]
        BY <2>4, <4>1
      <4> QED BY <3>2, <4>1, <4>2, <4>3
    <3>3. Nat \subseteq S
      <4>1. \A k \in Nat : k \in S => k + 1 \in S
        BY <3>2
      <4> HIDE DEF S
      <4> QED BY <3>1, <4>1, NatInduct
    <3> QED BY <3>3
  <2>10. FlattenSeq(ss) = f[n]
    BY <2>1, <2>5, <2>8, <2>9
  <2> QED BY <2>4, <2>10
<1>3. ASSUME NEW ss \in Seq(V)
      PROVE  FlattenSeq(ss) \in V
  <2>1. CASE ss = <<>>
    <3>1. <<>> \in V
      OBVIOUS
    <3> HIDE DEF V
    <3> QED BY <1>1, <2>1, <3>1
  <2>2. CASE ss # <<>>
    <3>1. Len(ss) - 1 \in 0..(Len(ss) - 1)
      BY <2>2
    <3>2. PICK f \in [0..(Len(ss) - 1) -> V] : FlattenSeq(ss) = f[Len(ss) - 1]
      <4> HIDE DEF V
      <4> QED BY <1>2, <2>2
    <3> HIDE DEF V
    <3> QED BY <3>1, <3>2
  <2> QED BY <2>1, <2>2
<1>4. ASSUME NEW ss \in Seq(V), NEW s \in V
      PROVE  FlattenSeq(Append(ss, s)) = FlattenSeq(ss) \o s
  <2> DEFINE tt == Append(ss, s)
             n == Len(ss)
  <2>1. /\ tt \in Seq(V) /\ Len(tt) = n + 1 /\ n \in Nat
        /\ \A i \in 1..n : tt[i] = ss[i]
        /\ tt[n + 1] = s
        /\ tt # <<>>
    <3> HIDE DEF V
    <3>1. /\ tt \in Seq(V) /\ Len(tt) = n + 1 /\ n \in Nat
          /\ \A i \in 1..n : tt[i] = ss[i]
          /\ tt[n + 1] = s
      OBVIOUS
    <3> HIDE DEF tt
    <3> QED BY <3>1
  <2> HIDE DEF tt
  <2>2. PICK g \in [0..(Len(tt) - 1) -> V] :
               /\ g[0] = tt[1]
               /\ \A i \in 1..(Len(tt) - 1) : g[i] = g[i - 1] \o tt[i + 1]
               /\ FlattenSeq(tt) = g[Len(tt) - 1]
    <3> HIDE DEF V
    <3> QED BY <1>2, <2>1
  <2>3. CASE ss = <<>>
    <3>1. n = 0 /\ Len(tt) - 1 = 0
      BY <2>1, <2>3
    <3>2. FlattenSeq(tt) = s
      BY <2>1, <2>2, <3>1
    <3> QED BY <1>1, <2>3, <3>2 DEF tt
  <2>4. CASE ss # <<>>
    <3>1. PICK f \in [0..(n - 1) -> V] :
               /\ f[0] = ss[1]
               /\ \A i \in 1..(n - 1) : f[i] = f[i - 1] \o ss[i + 1]
               /\ FlattenSeq(ss) = f[n - 1]
      <4> HIDE DEF V
      <4> QED BY <1>2, <2>4
    <3>2. n \in Nat \ {0} /\ Len(tt) - 1 = n
      BY <2>1, <2>4
    <3> HIDE DEF n
    <3> DEFINE S == {k \in Nat : k <= n - 1 => f[k] = g[k]}
    <3>3. 0 \in S
      BY <2>1, <2>2, <3>1, <3>2
    <3>4. ASSUME NEW k \in Nat, k \in S, k + 1 <= n - 1 PROVE f[k + 1] = g[k + 1]
      <4>1. k + 1 \in 1..(n - 1) /\ k + 1 \in 1..n /\ (k + 1) - 1 = k
            /\ (k + 1) + 1 \in 1..n /\ k <= n - 1
        BY <3>2, <3>4
      <4>2. f[k + 1] = f[k] \o ss[(k + 1) + 1]
        BY <3>1, <4>1
      <4>3. g[k + 1] = g[k] \o tt[(k + 1) + 1]
        BY <2>2, <3>2, <4>1
      <4> QED BY <2>1, <3>4, <4>1, <4>2, <4>3
    <3>5. Nat \subseteq S
      <4>1. \A k \in Nat : k \in S => k + 1 \in S
        BY <3>4
      <4> HIDE DEF S
      <4> QED BY <3>3, <4>1, NatInduct
    <3>6. f[n - 1] = g[n - 1]
      BY <3>2, <3>5
    <3>7. g[n] = g[n - 1] \o tt[n + 1]
      <4>1. n \in 1..(Len(tt) - 1)
        BY <3>2
      <4> HIDE DEF V
      <4> QED BY <2>2, <4>1
    <3> QED BY <2>1, <2>2, <3>1, <3>2, <3>6, <3>7 DEF tt
  <2> QED BY <2>3, <2>4
<1> QED BY <1>1, <1>3, <1>4

LEMMA FlatHead ==
  ASSUME NEW X, NEW ss \in Seq(Seq(X)), ss # <<>>
  PROVE  FlattenSeq(ss) = Head(ss) \o FlattenSeq(Tail(ss))
<1> DEFINE V == Seq(X)
           S == {tt \in Seq(V) :
                   \A s \in V : FlattenSeq(<<s>> \o tt) = s \o FlattenSeq(tt)}
<1>1. /\ FlattenSeq(<<>>) = <<>>
      /\ \A u \in Seq(V) : FlattenSeq(u) \in V
      /\ \A u \in Seq(V), s \in V : FlattenSeq(Append(u, s)) = FlattenSeq(u) \o s
  BY FlatEquations
<1>2. <<>> \in S
  <2>1. ASSUME NEW s \in V
        PROVE  FlattenSeq(<<s>> \o <<>>) = s \o FlattenSeq(<<>>)
    <3>1. <<s>> \o <<>> = Append(<<>>, s) /\ <<>> \in Seq(V)
      BY <2>1
    <3>2. FlattenSeq(Append(<<>>, s)) = FlattenSeq(<<>>) \o s
      BY <1>1, <3>1
    <3>3. <<>> \o s = s /\ s \o <<>> = s
      BY <2>1
    <3> QED BY <1>1, <3>1, <3>2, <3>3
  <2> QED BY <2>1
<1>3. ASSUME NEW tt \in Seq(V), NEW x \in V, tt \in S
      PROVE  Append(tt, x) \in S
  <2>1. ASSUME NEW s \in V
        PROVE  FlattenSeq(<<s>> \o Append(tt, x)) = s \o FlattenSeq(Append(tt, x))
    <3>1. <<s>> \o Append(tt, x) = Append(<<s>> \o tt, x) /\ <<s>> \o tt \in Seq(V)
      BY <2>1
    <3>2. FlattenSeq(<<s>> \o tt) = s \o FlattenSeq(tt)
      BY <1>3, <2>1
    <3>3. FlattenSeq(Append(<<s>> \o tt, x)) = FlattenSeq(<<s>> \o tt) \o x
      BY <1>1, <3>1
    <3>4. FlattenSeq(Append(tt, x)) = FlattenSeq(tt) \o x /\ FlattenSeq(tt) \in V
      BY <1>1
    <3>5. \A a, b, c \in V : (a \o b) \o c = a \o (b \o c)
      OBVIOUS
    <3>6. (s \o FlattenSeq(tt)) \o x = s \o (FlattenSeq(tt) \o x)
      <4> HIDE DEF V
      <4> QED BY <3>4, <3>5
    <3> QED BY <3>1, <3>2, <3>3, <3>4, <3>6
  <2>2. Append(tt, x) \in Seq(V)
    OBVIOUS
  <2> QED BY <2>1, <2>2
<1>4. Seq(V) \subseteq S
  <2> HIDE DEF S, V
  <2> QED BY <1>2, <1>3, ListInduct
<1>5. Head(ss) \in V /\ Tail(ss) \in Seq(V) /\ ss = <<Head(ss)>> \o Tail(ss)
  OBVIOUS
<1>6. Tail(ss) \in S
  BY <1>4, <1>5
<1> QED BY <1>5, <1>6

-----------------------------------------------------------------------------
(* The components: dfs visits the nodes it can reach, each once.           *)

\* A function defined by a recursion over 0..n is that recursion.
LEMMA Volumes ==
  ASSUME NEW L, NEW legs \in Seq(L \X Nat)
  PROVE  Volume(legs) \in Nat
<1> DEFINE n == Len(legs)
           V == Nat
           dim == [k \in 1..n |-> legs[k][2]]
           step == [k \in 1..n |-> [x \in V |-> x * dim[k]]]
           p == CHOOSE p : p = [k \in 0..n |-> IF k = 0 THEN 1 ELSE p[k - 1] * legs[k][2]]
<1>1. n \in Nat /\ \A k \in 1..n : dim[k] \in Nat /\ dim[k] = legs[k][2]
  OBVIOUS
<1>2. \A k \in 1..n, x \in V : x * dim[k] \in V
  BY <1>1
<1>3. step \in [1..n -> [V -> V]] /\ 1 \in V
  <2>1. 1 \in V
    OBVIOUS
  <2> HIDE DEF V, n, dim
  <2> QED BY <1>2, <2>1
<1>4. PICK f \in [0..n -> V] : Unfolds(f, n, 1, step)
  <2> HIDE DEF V, n, step
  <2> QED BY <1>1, <1>3, Recursion
<1>5. f[0] = 1 /\ \A k \in 1..n : f[k] = f[k - 1] * legs[k][2]
  <2>1. f[0] = 1 /\ \A k \in 1..n : f[k] = step[k][f[k - 1]]
    BY <1>4 DEF Unfolds
  <2>2. \A k \in 1..n : k - 1 \in 0..n
    BY <1>1
  <2>3. \A k \in 1..n, x \in V : step[k][x] = x * dim[k]
    OBVIOUS
  <2> HIDE DEF V, n, step, dim
  <2> QED BY <1>1, <2>1, <2>2, <2>3
<1>6. f = [k \in 0..n |-> IF k = 0 THEN 1 ELSE f[k - 1] * legs[k][2]]
  <2> HIDE DEF n
  <2> QED BY <1>1, <1>5
<1>7. p = [k \in 0..n |-> IF k = 0 THEN 1 ELSE p[k - 1] * legs[k][2]]
  <2> HIDE DEF n
  <2> QED BY <1>6
<1>8. Volume(legs) = p[n]
  BY DEF Volume
<1> HIDE DEF p, step
<1>9. \A k \in Nat : k <= n => p[k] = f[k]
  <2> HIDE DEF n
  <2> DEFINE S == {k \in Nat : k <= n => p[k] = f[k]}
  <2>1. 0 \in S
    BY <1>1, <1>5, <1>7
  <2>2. ASSUME NEW k \in Nat, k \in S, k + 1 <= n PROVE p[k + 1] = f[k + 1]
    <3>1. k + 1 \in 0..n /\ k + 1 # 0 /\ k + 1 \in 1..n /\ (k + 1) - 1 = k /\ k <= n
      BY <1>1, <2>2
    <3>2. p[k + 1] = p[k] * legs[k + 1][2]
      BY <1>7, <3>1
    <3>3. f[k + 1] = f[k] * legs[k + 1][2]
      BY <1>5, <3>1
    <3> QED BY <2>2, <3>1, <3>2, <3>3
  <2>3. Nat \subseteq S
    <3>1. \A k \in Nat : k \in S => k + 1 \in S
      BY <2>2
    <3> HIDE DEF S
    <3> QED BY <2>1, <3>1, NatInduct
  <2> QED BY <2>3
<1>10. f[n] \in Nat
  BY <1>1
<1> QED BY <1>1, <1>8, <1>9, <1>10


\* The least and the greatest number of a set.
LEMMA MinIs ==
  ASSUME NEW S, S \subseteq Nat, S # {}
  PROVE  Min(S) \in S /\ \A y \in S : Min(S) <= y
<1>1. \E x \in S : \A y \in S : x <= y
  BY LeastNumber
<1> QED BY <1>1 DEF Min

LEMMA MaxIs ==
  ASSUME NEW n \in Nat, NEW S, S \subseteq 1..n, S # {}
  PROVE  Max(S) \in S /\ \A y \in S : Max(S) >= y
<1> DEFINE T == {n - x : x \in S}
<1>2. \A x \in S : n - x \in T
  OBVIOUS
<1>1. T \subseteq Nat /\ T # {}
  <2>1. \A x \in S : n - x \in Nat
    OBVIOUS
  <2>2. T # {}
    BY <1>2
  <2> QED BY <2>1, <2>2
<1>3. PICK t \in T : \A u \in T : t <= u
  <2> HIDE DEF T
  <2> QED BY <1>1, LeastNumber
<1>4. PICK m \in S : t = n - m
  OBVIOUS
<1> HIDE DEF T
<1>5. \A y \in S : m >= y
  BY <1>2, <1>3, <1>4
<1>6. \E x \in S : \A y \in S : x >= y
  BY <1>5
<1> QED BY <1>6 DEF Max

\* A set of nodes with all the neighbours of its members.
Closed(base, S) == S \subseteq 1..Len(base) /\ \A x \in S : Neighbours(base, x) \subseteq S

LEMMA NeighboursIs ==
  ASSUME NEW N, NEW base \in Seq(N)
  PROVE  /\ Len(base) \in Nat
         /\ \A x : Neighbours(base, x) \subseteq 1..Len(base)
         /\ \A x, y \in 1..Len(base) : y \in Neighbours(base, x) => x \in Neighbours(base, y)
<1>1. DOMAIN base = 1..Len(base) /\ Len(base) \in Nat
  OBVIOUS
<1>2. \A a, b : Common(a, b) = Common(b, a)
  BY DEF Common
<1> QED BY <1>1, <1>2 DEF Neighbours

\* One visit appends a neighbour of a visited node that was not visited, if
\* there is one.
LEMMA VisitIs ==
  ASSUME NEW N, NEW base \in Seq(N), NEW seq \in Seq(1..Len(base))
  PROVE  \/ Closed(base, ToSet(seq)) /\ Visit(base, seq) = seq
         \/ \E p \in 1..Len(seq), x \in 1..Len(base) :
              /\ x \in Neighbours(base, seq[p]) /\ x \notin ToSet(seq)
              /\ Visit(base, seq) = Append(seq, x)
<1> DEFINE n == Len(base)
           Unvisited(x) == Neighbours(base, x) \ ToSet(seq)
           open == {p \in DOMAIN seq : Unvisited(seq[p]) # {}}
<1>1. n \in Nat /\ \A x : Unvisited(x) \subseteq 1..n
  BY NeighboursIs
<1>2. DOMAIN seq = 1..Len(seq) /\ Len(seq) \in Nat
  OBVIOUS
<1>3. Visit(base, seq) = IF open = {} THEN seq ELSE Append(seq, Min(Unvisited(seq[Max(open)])))
  BY DEF Visit
<1>4. CASE open = {}
  <2>1. \A p \in 1..Len(seq) : Neighbours(base, seq[p]) \subseteq ToSet(seq)
    BY <1>2, <1>4
  <2>2. /\ \A x : x \in ToSet(seq) <=> \E p \in 1..Len(seq) : x = seq[p]
        /\ ToSet(seq) \subseteq 1..n
    BY SetOf
  <2>3. Closed(base, ToSet(seq))
    BY <2>1, <2>2 DEF Closed
  <2> QED BY <1>3, <1>4, <2>3
<1>5. CASE open # {}
  <2>1. open \subseteq 1..Len(seq)
    BY <1>2
  <2>2. Max(open) \in open
    <3> HIDE DEF open
    <3> QED BY <1>2, <1>5, <2>1, MaxIs
  <2> DEFINE p == Max(open)
             U == Unvisited(seq[p])
  <2>3. p \in 1..Len(seq) /\ U # {}
    BY <2>1, <2>2
  <2>4. U \subseteq Nat
    BY <1>1
  <2>5. Min(U) \in U
    <3> HIDE DEF U
    <3> QED BY <2>3, <2>4, MinIs
  <2>6. Visit(base, seq) = Append(seq, Min(U))
    BY <1>3, <1>5
  <2>7. Min(U) \in 1..n /\ Min(U) \in Neighbours(base, seq[p]) /\ Min(U) \notin ToSet(seq)
    BY <1>1, <2>5
  <2> HIDE DEF p, U
  <2> QED BY <2>3, <2>6, <2>7
<1> QED BY <1>4, <1>5

\* The nodes that are in no set with all its neighbours, unless i is in it.
Apart(base, i, S) == \A T : Closed(base, T) /\ i \notin T => S \cap T = {}

\* Where dfs from node i is: it has finished or has visited k nodes more.
Visited(base, i, k, seq) ==
  /\ seq \in Seq(1..Len(base))
  /\ Distinct(seq)
  /\ i \in ToSet(seq)
  /\ Apart(base, i, ToSet(seq))
  /\ Closed(base, ToSet(seq)) \/ Len(seq) = k + 1

LEMMA VisitKeeps ==
  ASSUME NEW N, NEW base \in Seq(N), NEW i \in 1..Len(base), NEW k \in Nat, NEW seq,
         Visited(base, i, k, seq)
  PROVE  Visited(base, i, k + 1, Visit(base, seq))
<1> DEFINE n == Len(base)
<1>1. /\ seq \in Seq(1..n) /\ Distinct(seq) /\ i \in ToSet(seq)
      /\ Apart(base, i, ToSet(seq))
      /\ Closed(base, ToSet(seq)) \/ Len(seq) = k + 1
  BY DEF Visited
<1>2. CASE Closed(base, ToSet(seq)) /\ Visit(base, seq) = seq
  BY <1>1, <1>2 DEF Visited
<1>3. ASSUME NEW p \in 1..Len(seq), NEW x \in 1..n,
             x \in Neighbours(base, seq[p]), x \notin ToSet(seq),
             Visit(base, seq) = Append(seq, x)
      PROVE  Visited(base, i, k + 1, Visit(base, seq))
  <2> DEFINE new == Append(seq, x)
  <2>1. new \in Seq(1..n) /\ Len(new) = Len(seq) + 1
    BY <1>1, <1>3
  <2>2. ToSet(new) = ToSet(seq) \cup {x} /\ Distinct(new)
    BY <1>1, <1>3, AppendDistinct
  <2>3. seq[p] \in ToSet(seq) /\ seq[p] \in 1..n
    BY <1>1, SetOf
  <2>4. ~Closed(base, ToSet(seq))
    BY <1>3, <2>3 DEF Closed
  <2>5. Apart(base, i, ToSet(new))
    <3>1. SUFFICES ASSUME NEW T, Closed(base, T), i \notin T, x \in T PROVE FALSE
      BY <1>1, <2>2 DEF Apart
    <3>2. seq[p] \in Neighbours(base, x)
      BY <1>3, <2>3, NeighboursIs
    <3>3. seq[p] \in T
      BY <3>1, <3>2 DEF Closed
    <3> QED BY <1>1, <2>3, <3>1, <3>3 DEF Apart
  <2>6. Len(new) = (k + 1) + 1
    BY <1>1, <2>1, <2>4
  <2> HIDE DEF new
  <2>7. Visited(base, i, k + 1, new)
    BY <1>1, <2>1, <2>2, <2>5, <2>6 DEF Visited
  <2> QED BY <1>3, <2>7 DEF new
<1> QED BY <1>1, <1>2, <1>3, VisitIs

\* Component: the nodes that can be reached from node i, each once.
LEMMA ComponentIs ==
  ASSUME NEW N, NEW base \in Seq(N), NEW i \in 1..Len(base)
  PROVE  /\ Component(base, i) \in Seq(1..Len(base))
         /\ Distinct(Component(base, i))
         /\ i \in ToSet(Component(base, i))
         /\ Closed(base, ToSet(Component(base, i)))
         /\ Apart(base, i, ToSet(Component(base, i)))
<1> DEFINE n == Len(base)
           V == Seq(1..n)
           step == [k \in 1..n |-> [seq \in V |-> Visit(base, seq)]]
           p == CHOOSE p : p = [k \in 0..n |-> IF k = 0 THEN <<i>> ELSE Visit(base, p[k - 1])]
<1>1. n \in Nat
  OBVIOUS
<1>2. ASSUME NEW seq \in V PROVE Visit(base, seq) \in V
  <2>1. \/ Visit(base, seq) = seq
        \/ \E x \in 1..n : Visit(base, seq) = Append(seq, x)
    BY VisitIs
  <2>2. \A x \in 1..n : Append(seq, x) \in V
    OBVIOUS
  <2> HIDE DEF V, n
  <2> QED BY <2>1, <2>2
<1>3. step \in [1..n -> [V -> V]] /\ <<i>> \in V
  <2>1. <<i>> \in V
    OBVIOUS
  <2> HIDE DEF V, n
  <2> QED BY <1>2, <2>1
<1>4. PICK f \in [0..n -> V] : Unfolds(f, n, <<i>>, step)
  <2> HIDE DEF V, n, step
  <2> QED BY <1>1, <1>3, Recursion
<1>5. f[0] = <<i>> /\ \A k \in 1..n : f[k] = Visit(base, f[k - 1])
  <2>1. f[0] = <<i>> /\ \A k \in 1..n : f[k] = step[k][f[k - 1]]
    BY <1>4 DEF Unfolds
  <2>2. \A k \in 1..n : k - 1 \in 0..n
    BY <1>1
  <2>3. \A k \in 1..n, x \in V : step[k][x] = Visit(base, x)
    OBVIOUS
  <2> HIDE DEF V, n, step
  <2> QED BY <1>1, <2>1, <2>2, <2>3
<1>6. f = [k \in 0..n |-> IF k = 0 THEN <<i>> ELSE Visit(base, f[k - 1])]
  <2>1. \A k \in 0..n : f[k] = IF k = 0 THEN <<i>> ELSE Visit(base, f[k - 1])
    <3>1. \A k \in 0..n : k = 0 \/ k \in 1..n
      BY <1>1
    <3> HIDE DEF n, V
    <3> QED BY <1>5, <3>1
  <2> HIDE DEF n, V, p, step
  <2> QED BY <2>1
<1>7. p = [k \in 0..n |-> IF k = 0 THEN <<i>> ELSE Visit(base, p[k - 1])]
  <2> HIDE DEF n
  <2> QED BY <1>6
<1>8. Component(base, i) = p[n]
  BY DEF Component
<1> HIDE DEF p, step
<1>9. Visited(base, i, 0, <<i>>)
  <2>1. <<i>> \in Seq(1..n) /\ Len(<<i>>) = 1 /\ \A j \in 1..1 : <<i>>[j] = i
    OBVIOUS
  <2>2. \A x : x \in ToSet(<<i>>) <=> \E j \in 1..Len(<<i>>) : x = <<i>>[j]
    BY <2>1, SetOf
  <2>3. ToSet(<<i>>) = {i}
    BY <2>1, <2>2
  <2>4. Distinct(<<i>>)
    BY <2>1 DEF Distinct
  <2> QED BY <2>1, <2>3, <2>4 DEF Visited, Apart
<1>10. \A k \in Nat : k <= n => Visited(base, i, k, p[k])
  <2> HIDE DEF n, V
  <2> DEFINE S == {k \in Nat : k <= n => Visited(base, i, k, p[k])}
  <2>1. 0 \in S
    BY <1>1, <1>7, <1>9
  <2>2. ASSUME NEW k \in Nat, k \in S, k + 1 <= n PROVE Visited(base, i, k + 1, p[k + 1])
    <3>1. k + 1 \in 0..n /\ k + 1 # 0 /\ (k + 1) - 1 = k /\ k <= n
      BY <1>1, <2>2
    <3>2. p[k + 1] = Visit(base, p[k])
      BY <1>7, <3>1
    <3>3. Visited(base, i, k, p[k])
      BY <2>2, <3>1
    <3> QED BY <3>2, <3>3, VisitKeeps
  <2>3. Nat \subseteq S
    <3>1. \A k \in Nat : k \in S => k + 1 \in S
      BY <2>2
    <3> HIDE DEF S
    <3> QED BY <2>1, <3>1, NatInduct
  <2> QED BY <2>3
<1>11. Visited(base, i, n, Component(base, i))
  BY <1>1, <1>8, <1>10
<1> DEFINE C == Component(base, i)
<1> HIDE DEF C
<1>12. /\ C \in Seq(1..n) /\ Distinct(C) /\ i \in ToSet(C) /\ Apart(base, i, ToSet(C))
       /\ Closed(base, ToSet(C)) \/ Len(C) = n + 1
  BY <1>11 DEF Visited, C
<1>13. Len(C) # n + 1
  <2>1. ToSet(C) \subseteq 1..n
    BY <1>12, SetOf
  <2>2. IsFiniteSet(1..n) /\ Cardinality(1..n) = n
    <3>1. 1 \in Int /\ n \in Int /\ (IF 1 > n THEN 0 ELSE n - 1 + 1) = n
      BY <1>1
    <3> HIDE DEF n
    <3> QED BY <3>1, FS_Interval
  <2>3. Cardinality(ToSet(C)) <= n
    BY <2>1, <2>2, FS_Subset
  <2>4. Cardinality(ToSet(C)) = Len(C)
    BY <1>12, DistinctCount
  <2> QED BY <1>1, <2>3, <2>4
<1> QED BY <1>12, <1>13 DEF C

\* findConnectedComponents once the nodes 1..i have been looked at: the
\* components found part a set of nodes that has all its neighbours.
Found(base, i, cs) ==
  /\ cs \in Seq(Seq(1..Len(base)))
  /\ Distinct(FlattenSeq(cs))
  /\ Closed(base, ToSet(FlattenSeq(cs)))
  /\ 1..i \subseteq ToSet(FlattenSeq(cs))

LEMMA FoundMore ==
  ASSUME NEW N, NEW base \in Seq(N), NEW i \in Nat, i + 1 <= Len(base), NEW cs,
         Found(base, i, cs)
  PROVE  Found(base, i + 1, WithComponent(base, cs, i + 1))
<1> DEFINE n == Len(base)
           j == i + 1
           flat == FlattenSeq(cs)
<1>1. /\ cs \in Seq(Seq(1..n)) /\ Distinct(flat) /\ Closed(base, ToSet(flat))
      /\ 1..i \subseteq ToSet(flat)
      BY DEF Found
<1>2. n \in Nat /\ j \in 1..n /\ \A k \in 1..j : k \in 1..i \/ k = j
  OBVIOUS
<1> HIDE DEF j
<1>3. flat \in Seq(1..n)
  BY <1>1, FlatEquations
<1>4. CASE j \in ToSet(flat)
  <2>1. 1..j \subseteq ToSet(flat)
    BY <1>1, <1>2, <1>4
  <2>2. Found(base, j, cs)
    BY <1>1, <2>1 DEF Found
  <2> QED BY <1>4, <2>2 DEF WithComponent, j
<1>5. CASE j \notin ToSet(flat)
  <2> DEFINE C == Component(base, j)
             new == Append(cs, C)
  <2>1. /\ C \in Seq(1..n) /\ Distinct(C) /\ j \in ToSet(C) /\ Closed(base, ToSet(C))
        /\ Apart(base, j, ToSet(C))
    BY <1>2, ComponentIs
  <2>2. WithComponent(base, cs, j) = new
    BY <1>5 DEF WithComponent
  <2> HIDE DEF C
  <2>3. FlattenSeq(new) = flat \o C
    BY <1>1, <2>1, FlatEquations
  <2>4. ToSet(C) \cap ToSet(flat) = {}
    BY <1>1, <1>5, <2>1 DEF Apart
  <2>5. ToSet(flat \o C) = ToSet(flat) \cup ToSet(C) /\ Distinct(flat \o C)
    BY <1>1, <1>3, <2>1, <2>4, ConcatDistinct
  <2>6. Closed(base, ToSet(flat \o C))
    BY <1>1, <2>1, <2>5 DEF Closed
  <2>8. new \in Seq(Seq(1..n))
    BY <1>1, <2>1
  <2>9. 1..j \subseteq ToSet(flat \o C)
    BY <1>1, <1>2, <2>1, <2>5
  <2> HIDE DEF new
  <2>10. Found(base, j, new)
    BY <2>3, <2>5, <2>6, <2>8, <2>9 DEF Found
  <2> QED BY <2>2, <2>10 DEF j
<1> QED BY <1>4, <1>5

\* Components: lists of nodes that hold every node once.
LEMMA ComponentsAre ==
  ASSUME NEW N, NEW base \in Seq(N)
  PROVE  /\ Components(base) \in Seq(Seq(1..Len(base)))
         /\ Distinct(FlattenSeq(Components(base)))
         /\ ToSet(FlattenSeq(Components(base))) = 1..Len(base)
<1> DEFINE n == Len(base)
           V == Seq(Seq(1..n))
           step == [i \in 1..n |-> [cs \in V |-> WithComponent(base, cs, i)]]
           p == CHOOSE p : p = [i \in 0..n |->
                                  IF i = 0 THEN <<>> ELSE WithComponent(base, p[i - 1], i)]
<1>1. n \in Nat
  OBVIOUS
<1>2. ASSUME NEW i \in 1..n, NEW cs \in V PROVE WithComponent(base, cs, i) \in V
  <2>1. Component(base, i) \in Seq(1..n)
    BY ComponentIs
  <2>2. Append(cs, Component(base, i)) \in V
    BY <2>1
  <2> QED BY <2>2 DEF WithComponent
<1>3. step \in [1..n -> [V -> V]] /\ <<>> \in V
  <2>1. <<>> \in V
    OBVIOUS
  <2> HIDE DEF V, n
  <2> QED BY <1>2, <2>1
<1>4. PICK f \in [0..n -> V] : Unfolds(f, n, <<>>, step)
  <2> HIDE DEF V, n, step
  <2> QED BY <1>1, <1>3, Recursion
<1>5. f[0] = <<>> /\ \A i \in 1..n : f[i] = WithComponent(base, f[i - 1], i)
  <2>1. f[0] = <<>> /\ \A i \in 1..n : f[i] = step[i][f[i - 1]]
    BY <1>4 DEF Unfolds
  <2>2. \A i \in 1..n : i - 1 \in 0..n
    BY <1>1
  <2>3. \A i \in 1..n, x \in V : step[i][x] = WithComponent(base, x, i)
    OBVIOUS
  <2> HIDE DEF V, n, step
  <2> QED BY <1>1, <2>1, <2>2, <2>3
<1>6. f = [i \in 0..n |-> IF i = 0 THEN <<>> ELSE WithComponent(base, f[i - 1], i)]
  <2>1. \A i \in 0..n : f[i] = IF i = 0 THEN <<>> ELSE WithComponent(base, f[i - 1], i)
    <3>1. \A i \in 0..n : i = 0 \/ i \in 1..n
      BY <1>1
    <3> HIDE DEF n, V
    <3> QED BY <1>5, <3>1
  <2> HIDE DEF n, V, p, step
  <2> QED BY <2>1
<1>7. p = [i \in 0..n |-> IF i = 0 THEN <<>> ELSE WithComponent(base, p[i - 1], i)]
  <2> HIDE DEF n
  <2> QED BY <1>6
<1>8. Components(base) = p[n]
  BY DEF Components
<1> HIDE DEF p, step
<1>9. Found(base, 0, <<>>)
  <2>1. FlattenSeq(<<>>) = <<>> /\ <<>> \in V /\ <<>> \in Seq(1..n) /\ Len(<<>>) = 0
    BY FlatEquations
  <2>2. ToSet(<<>>) = {}
    BY <2>1, SetOf
  <2> QED BY <2>1, <2>2 DEF Found, Distinct, Closed
<1>10. \A i \in Nat : i <= n => Found(base, i, p[i])
  <2> DEFINE S == {i \in Nat : i <= n => Found(base, i, p[i])}
  <2>1. 0 \in S
    <3> HIDE DEF n, V
    <3> QED BY <1>1, <1>7, <1>9
  <2>2. ASSUME NEW i \in Nat, i \in S, i + 1 <= n PROVE Found(base, i + 1, p[i + 1])
    <3>1. i + 1 \in 0..n /\ i + 1 # 0 /\ (i + 1) - 1 = i /\ i <= n
      BY <1>1, <2>2
    <3>2. p[i + 1] = WithComponent(base, p[i], i + 1)
      <4> HIDE DEF n
      <4> QED BY <1>7, <3>1
    <3>3. Found(base, i, p[i])
      BY <2>2, <3>1
    <3> QED BY <2>2, <3>2, <3>3, FoundMore
  <2>3. Nat \subseteq S
    <3>1. \A i \in Nat : i \in S => i + 1 \in S
      BY <2>2
    <3> HIDE DEF S
    <3> QED BY <2>1, <3>1, NatInduct
  <2> QED BY <2>3
<1>11. Found(base, n, Components(base))
  BY <1>1, <1>8, <1>10
<1> QED BY <1>11 DEF Found, Closed

-----------------------------------------------------------------------------
(* The cheapest pair.                                                      *)

\* Without: the legs that are kept.
LEMMA WithoutIs ==
  ASSUME NEW L, NEW t, NEW labels, t.legs \in Seq(L \X Nat)
  PROVE  /\ Without(t, labels) \in Seq(L \X Nat)
         /\ \A leg : leg \in ToSet(Without(t, labels)) <=>
                      leg \in ToSet(t.legs) /\ leg[1] \notin labels
<1> DEFINE legs == t.legs
           n == Len(legs)
           X == L \X Nat
           V == Seq(X)
           Kept(k, v) == IF legs[k][1] \in labels THEN v ELSE Append(v, legs[k])
           step == [k \in 1..n |-> [v \in V |-> Kept(k, v)]]
           p == CHOOSE p : p = [k \in 0..n |->
                                  IF k = 0 THEN <<>>
                                  ELSE IF legs[k][1] \in labels THEN p[k - 1]
                                  ELSE Append(p[k - 1], legs[k])]
<1>1. n \in Nat /\ legs \in Seq(X) /\ \A k \in 1..n : legs[k] \in X
  OBVIOUS
<1>8. Without(t, labels) = p[n]
  BY DEF Without
<1> HIDE DEF legs, X
<1>2. \A k \in 1..n, v \in V : Kept(k, v) \in V
  BY <1>1
<1>3. step \in [1..n -> [V -> V]] /\ <<>> \in V
  <2>1. <<>> \in V
    OBVIOUS
  <2> HIDE DEF V, n, Kept
  <2> QED BY <1>2, <2>1
<1>4. PICK f \in [0..n -> V] : Unfolds(f, n, <<>>, step)
  <2> HIDE DEF V, n, step
  <2> QED BY <1>1, <1>3, Recursion
<1>5. f[0] = <<>> /\ \A k \in 1..n : f[k] = Kept(k, f[k - 1])
  <2>1. f[0] = <<>> /\ \A k \in 1..n : f[k] = step[k][f[k - 1]]
    BY <1>4 DEF Unfolds
  <2>2. \A k \in 1..n : k - 1 \in 0..n
    BY <1>1
  <2>3. \A k \in 1..n, x \in V : step[k][x] = Kept(k, x)
    OBVIOUS
  <2> HIDE DEF V, n, step, Kept
  <2> QED BY <1>1, <2>1, <2>2, <2>3
<1>6. f = [k \in 0..n |-> IF k = 0 THEN <<>>
                          ELSE IF legs[k][1] \in labels THEN f[k - 1]
                          ELSE Append(f[k - 1], legs[k])]
  <2>1. \A k \in 0..n : f[k] = IF k = 0 THEN <<>>
                               ELSE IF legs[k][1] \in labels THEN f[k - 1]
                               ELSE Append(f[k - 1], legs[k])
    <3>1. \A k \in 0..n : k = 0 \/ k \in 1..n
      BY <1>1
    <3> HIDE DEF n, V
    <3> QED BY <1>5, <3>1
  <2> HIDE DEF n, V, p, step, Kept
  <2> QED BY <2>1
<1>7. p = [k \in 0..n |-> IF k = 0 THEN <<>>
                          ELSE IF legs[k][1] \in labels THEN p[k - 1]
                          ELSE Append(p[k - 1], legs[k])]
  <2> HIDE DEF n
  <2> QED BY <1>6
<1> HIDE DEF p, step
<1> DEFINE Good(k) ==
      /\ p[k] \in Seq(X)
      /\ ToSet(p[k]) = {x \in X : x[1] \notin labels /\ \E j \in 1..k : x = legs[j]}
<1>9. Good(0)
  <2>1. p[0] = <<>> /\ <<>> \in Seq(X)
    BY <1>1, <1>7
  <2>2. ToSet(<<>>) = {}
    BY <2>1, SetOf
  <2> QED BY <2>1, <2>2
<1>10. ASSUME NEW k \in Nat, k + 1 <= n, Good(k) PROVE Good(k + 1)
  <2>1. k + 1 \in 0..n /\ k + 1 # 0 /\ k + 1 \in 1..n /\ (k + 1) - 1 = k
    BY <1>1, <1>10
  <2> DEFINE x == legs[k + 1]
  <2>2. /\ x[1] \in labels => p[k + 1] = p[k]
        /\ x[1] \notin labels => p[k + 1] = Append(p[k], x)
    <3> HIDE DEF n
    <3> QED BY <1>7, <2>1
  <2>3. x \in X
    BY <1>1, <2>1
  <2>4. \A j : j \in 1..(k + 1) <=> j \in 1..k \/ j = k + 1
    BY <1>10
  <2> HIDE DEF x
  <2>5. CASE x[1] \in labels
    BY <1>10, <2>2, <2>4, <2>5 DEF x
  <2>6. CASE x[1] \notin labels
    <3>1. Append(p[k], x) \in Seq(X) /\ ToSet(Append(p[k], x)) = ToSet(p[k]) \cup {x}
      BY <1>10, <2>3, AppendDistinct
    <3> QED BY <1>10, <2>2, <2>3, <2>4, <2>6, <3>1 DEF x
  <2> QED BY <2>5, <2>6
<1>11. Good(n)
  <2> HIDE DEF n, Good
  <2> DEFINE S == {k \in Nat : k <= n => Good(k)}
  <2>1. 0 \in S
    BY <1>9
  <2>2. \A k \in Nat : k \in S => k + 1 \in S
    <3>1. SUFFICES ASSUME NEW k \in Nat, k \in S, k + 1 <= n PROVE Good(k + 1)
      OBVIOUS
    <3>2. k <= n
      BY <1>1, <3>1
    <3> QED BY <1>10, <3>1, <3>2
  <2>3. n \in S
    <3> HIDE DEF S
    <3> QED BY <1>1, <2>1, <2>2, NatInduct
  <2> QED BY <2>3
<1>12. \A x : x \in ToSet(legs) <=> \E j \in 1..n : x = legs[j]
  BY <1>1, SetOf
<1>13. ToSet(p[n]) = {leg \in ToSet(legs) : leg[1] \notin labels}
  BY <1>1, <1>11, <1>12
<1> QED BY <1>8, <1>11, <1>13 DEF legs, X

\* A node of the search, with legs labelled by L and tokens K of its text.
PseudoUniTensors(L, K) == [legs : Seq(L \X Nat), cost : Nat, id : SUBSET Nat, text : Seq(K)]

LEMMA CostIs ==
  ASSUME NEW L, NEW K, NEW a \in PseudoUniTensors(L, K), NEW b \in PseudoUniTensors(L, K)
  PROVE  Cost(a, b) \in Nat
<1>1. /\ a.legs \in Seq(L \X Nat) /\ b.legs \in Seq(L \X Nat)
      /\ a.cost \in Nat /\ b.cost \in Nat
  BY DEF PseudoUniTensors
<1>2. Without(b, Common(a, b)) \in Seq(L \X Nat)
  BY <1>1, WithoutIs
<1>3. Volume(a.legs) \in Nat /\ Volume(Without(b, Common(a, b))) \in Nat
  BY <1>1, <1>2, Volumes
<1>4. \A x, y, z, w \in Nat : x * y + z + w \in Nat
  OBVIOUS
<1> QED BY <1>1, <1>3, <1>4 DEF Cost

LEMMA Lists ==
  ASSUME NEW X
  PROVE  /\ <<>> \in Seq(X)
         /\ \A x \in X : <<x>> \in Seq(X)
         /\ \A s, t \in Seq(X) : s \o t \in Seq(X)
<1>1. \A x \in X : <<x>> \in Seq(X)
  OBVIOUS
<1>2. \A s, t \in Seq(X) : s \o t \in Seq(X)
  OBVIOUS
<1>3. <<>> \in Seq(X)
  OBVIOUS
<1> QED BY <1>1, <1>2, <1>3

\* K has the brackets and the comma that a contraction writes.
Punctuated(K) == {"(", ",", ")"} \subseteq K

\* The node that a contraction makes.
LEMMA ContractedIs ==
  ASSUME NEW L, NEW K, Punctuated(K),
         NEW a \in PseudoUniTensors(L, K), NEW b \in PseudoUniTensors(L, K)
  PROVE  /\ PContract(a, b) \in PseudoUniTensors(L, K)
         /\ PContract(a, b).id = SymDiff(a.id, b.id)
         /\ CombinedComponents(a, b) \in PseudoUniTensors(L, K)
         /\ CombinedComponents(a, b).id = SymDiff(a.id, b.id)
<1>1. /\ a.legs \in Seq(L \X Nat) /\ b.legs \in Seq(L \X Nat)
      /\ a.id \subseteq Nat /\ b.id \subseteq Nat
      /\ a.text \in Seq(K) /\ b.text \in Seq(K)
  BY DEF PseudoUniTensors
<1>2. /\ Without(a, Common(a, b)) \in Seq(L \X Nat)
      /\ Without(b, Common(a, b)) \in Seq(L \X Nat)
  BY <1>1, WithoutIs
<1>3. Without(a, Common(a, b)) \o Without(b, Common(a, b)) \in Seq(L \X Nat)
      /\ <<>> \in Seq(L \X Nat)
  BY <1>2, Lists
<1>4. Joined(a, b) \in Seq(K)
  <2>1. <<"(">> \in Seq(K) /\ <<",">> \in Seq(K) /\ <<")">> \in Seq(K)
    BY Lists, Zenon DEF Punctuated
  <2>2. \A s, t \in Seq(K) : s \o t \in Seq(K)
    BY Lists
  <2> QED BY <1>1, <2>1, <2>2, Zenon DEF Joined
<1>5. SymDiff(a.id, b.id) \subseteq Nat
  BY <1>1 DEF SymDiff
<1>6. Cost(a, b) \in Nat
  BY CostIs
<1> QED BY <1>3, <1>4, <1>5, <1>6 DEF PContract, CombinedComponents, PseudoUniTensors

\* BestPair: two positions of the list, the smaller first, whatever is read
\* beyond the adjacency matrix.
LEMMA BestPairIs ==
  ASSUME NEW L, NEW K, NEW s, NEW stray,
         s.nodes \in Seq(PseudoUniTensors(L, K)), s.rest \in Seq(1..Len(s.nodes)),
         Len(s.rest) > 1
  PROVE  BestPair(s, stray) \in Positions(s)
<1> DEFINE n == Len(s.rest)
           pairs == {pq \in Positions(s) : Adjacent(s, pq[1], pq[2], stray)}
           cost == [pq \in pairs |-> Cost(s.nodes[s.rest[pq[1]]], s.nodes[s.rest[pq[2]]])]
           costs == {cost[pq] : pq \in pairs}
           least == Min(costs)
           cheapest == {pq \in pairs : cost[pq] = least}
           Before(x, y) == x[1] < y[1] \/ (x[1] = y[1] /\ x[2] <= y[2])
           first == CHOOSE x \in cheapest : \A y \in cheapest : Before(x, y)
<1>1. n \in Nat /\ n > 1
  OBVIOUS
<1>2. /\ Positions(s) = {pq \in (1..n) \X (1..n) : pq[1] < pq[2]}
      /\ \A pq \in Positions(s) : pq[1] \in 1..n /\ pq[2] \in 1..n
  BY DEF Positions
<1>3. BestPair(s, stray) = IF pairs = {} THEN <<1, 2>> ELSE first
  BY DEF BestPair
<1>4. pairs \subseteq Positions(s)
  OBVIOUS
<1>5. CASE pairs = {}
  <2>1. <<1, 2>> \in Positions(s)
    BY <1>1, <1>2
  <2> QED BY <1>3, <1>5, <2>1
<1>6. CASE pairs # {}
  <2>1. \A pq \in pairs : cost[pq] \in Nat
    <3>1. SUFFICES ASSUME NEW pq \in pairs PROVE cost[pq] \in Nat
      OBVIOUS
    <3>2. pq[1] \in 1..n /\ pq[2] \in 1..n
      BY <1>2, <1>4
    <3>3. \A i \in 1..n : s.nodes[s.rest[i]] \in PseudoUniTensors(L, K)
      <4>1. \A i \in 1..n : s.rest[i] \in 1..Len(s.nodes)
        OBVIOUS
      <4> QED BY <4>1
    <3> QED BY <3>2, <3>3, CostIs
  <2> HIDE DEF pairs, cost
  <2>2. costs \subseteq Nat /\ costs # {}
    BY <1>6, <2>1
  <2>3. least \in costs
    <3> HIDE DEF costs
    <3> QED BY <2>2, MinIs
  <2>4. cheapest # {} /\ cheapest \subseteq pairs
    BY <2>3
  <2> HIDE DEF cheapest, least, costs
  <2> DEFINE A == {x[1] : x \in cheapest}
  <2>5. A \subseteq Nat /\ A # {}
    BY <1>2, <1>4, <2>4
  <2>6. PICK a \in A : \A y \in A : a <= y
    <3> HIDE DEF A
    <3> QED BY <2>5, LeastNumber
  <2> DEFINE B == {x[2] : x \in {y \in cheapest : y[1] = a}}
  <2>7. B \subseteq Nat /\ B # {}
    BY <1>2, <1>4, <2>4, <2>6
  <2>8. PICK b \in B : \A y \in B : b <= y
    <3> HIDE DEF B
    <3> QED BY <2>7, LeastNumber
  <2>9. PICK x \in cheapest : x[1] = a /\ x[2] = b
    BY <2>8
  <2>10. \A y \in cheapest : Before(x, y)
    <3>1. SUFFICES ASSUME NEW y \in cheapest PROVE Before(x, y)
      OBVIOUS
    <3>2. y[1] \in Nat /\ y[2] \in Nat /\ x[1] \in Nat /\ x[2] \in Nat
      <4>1. x \in Positions(s) /\ y \in Positions(s)
        BY <1>4, <2>4, <2>9
      <4> QED BY <1>2, <4>1
    <3>3. x[1] <= y[1]
      BY <2>6, <2>9
    <3>4. y[1] = x[1] => x[2] <= y[2]
      BY <2>8, <2>9
    <3> QED BY <3>2, <3>3, <3>4
  <2> HIDE DEF Before
  <2>11. first \in cheapest
    BY <2>10
  <2> QED BY <1>3, <1>4, <1>6, <2>4, <2>11
<1> QED BY <1>5, <1>6

-----------------------------------------------------------------------------
(* The invariant of solve: the nodes still to be contracted and the        *)
(* results of the components before part the tensors of the network.       *)

SearchStates(L, K) ==
  [phase : {"idle", "pairs", "combine", "done", "throws"},
   nodes : Seq(PseudoUniTensors(L, K)), base : Nat, rest : Seq(Nat), todo : Seq(Seq(Nat)),
   results : Seq(PseudoUniTensors(L, K))]

\* The nodes of the component at hand and of those after it, in one list.
Pool(s) == s.rest \o FlattenSeq(s.todo)

\* Pool(s) has no node twice, and only nodes there are.
LeftOnce(s) == Distinct(Pool(s)) /\ ToSet(Pool(s)) \subseteq 1..Len(s.nodes)

\* Every tensor of the network is in exactly one of the nodes and results.
Parted(s) ==
  /\ \A i \in ToSet(Pool(s)) : s.nodes[i].id # {}
  /\ \A k \in 1..Len(s.results) : s.results[k].id # {}
  /\ \A i, j \in ToSet(Pool(s)) : i # j => s.nodes[i].id \cap s.nodes[j].id = {}
  /\ \A i \in ToSet(Pool(s)), k \in 1..Len(s.results) : s.nodes[i].id \cap s.results[k].id = {}
  /\ \A k, l \in 1..Len(s.results) : k # l => s.results[k].id \cap s.results[l].id = {}
  /\ \A x : x \in 1..s.base <=> \/ \E i \in ToSet(Pool(s)) : x \in s.nodes[i].id
                                \/ \E k \in 1..Len(s.results) : x \in s.results[k].id

\* The invariant, of a state s of the search.
Sought(s, L, K) ==
  s \in SearchStates(L, K) /\ (s.phase \in {"pairs", "combine", "done"} => LeftOnce(s) /\ Parted(s))

SearchInv(L, K) == search \in SearchStates(L, K) /\ (Running => LeftOnce(search) /\ Parted(search))

LEMMA LeftIs ==
  ASSUME NEW L, NEW K, NEW s \in SearchStates(L, K)
  PROVE  /\ s.rest \in Seq(Nat) /\ FlattenSeq(s.todo) \in Seq(Nat) /\ Pool(s) \in Seq(Nat)
         /\ ToSet(Pool(s)) = ToSet(s.rest) \cup ToSet(FlattenSeq(s.todo))
         /\ Distinct(Pool(s)) <=> /\ Distinct(s.rest) /\ Distinct(FlattenSeq(s.todo))
                                  /\ ToSet(s.rest) \cap ToSet(FlattenSeq(s.todo)) = {}
<1>1. s.rest \in Seq(Nat) /\ s.todo \in Seq(Seq(Nat))
  BY DEF SearchStates
<1>2. FlattenSeq(s.todo) \in Seq(Nat)
  BY <1>1, FlatEquations
<1>3. s.rest \o FlattenSeq(s.todo) \in Seq(Nat)
  BY <1>1, <1>2, Lists
<1> QED BY <1>1, <1>2, <1>3, ConcatDistinct DEF Pool

\* The step of one list: two nodes are taken out and a new one put at its end.
LEMMA PairTakenOut ==
  ASSUME NEW s \in Seq(Nat), Distinct(s), NEW p \in 1..Len(s), NEW q \in 1..Len(s), p < q,
         NEW new \in Nat, new \notin ToSet(s)
  PROVE  /\ s[p] # s[q] /\ s[p] \in ToSet(s) /\ s[q] \in ToSet(s)
         /\ Append(RemoveAt(RemoveAt(s, q), p), new) \in Seq(Nat)
         /\ Distinct(Append(RemoveAt(RemoveAt(s, q), p), new))
         /\ ToSet(Append(RemoveAt(RemoveAt(s, q), p), new)) =
              (ToSet(s) \ {s[p], s[q]}) \cup {new}
<1> DEFINE r == RemoveAt(s, q)
           u == RemoveAt(r, p)
<1>1. s[p] # s[q] /\ s[p] \in ToSet(s) /\ s[q] \in ToSet(s)
  BY SetOf DEF Distinct
<1>2. /\ r \in Seq(Nat) /\ Len(r) = Len(s) - 1 /\ Distinct(r) /\ ToSet(r) = ToSet(s) \ {s[q]}
      /\ p \in 1..(Len(s) - 1) => r[p] = s[p]
  BY RemoveAtIs, RemoveDistinct
<1>3. p \in 1..(Len(s) - 1)
  OBVIOUS
<1> HIDE DEF r
<1>4. u \in Seq(Nat) /\ Distinct(u) /\ ToSet(u) = ToSet(r) \ {s[p]}
  <2>1. p \in 1..Len(r) /\ r[p] = s[p]
    BY <1>2, <1>3
  <2>2. Distinct(u) /\ ToSet(u) = ToSet(r) \ {r[p]}
    BY <1>2, <2>1, RemoveDistinct
  <2>3. u \in Seq(Nat)
    BY <1>2, <2>1, RemoveAtIs
  <2> QED BY <2>1, <2>2, <2>3
<1> HIDE DEF u
<1>5. /\ Append(u, new) \in Seq(Nat)
      /\ ToSet(Append(u, new)) = ToSet(u) \cup {new}
      /\ Distinct(Append(u, new))
  BY <1>2, <1>4, AppendDistinct, SMTT(30)
<1> QED BY <1>1, <1>2, <1>4, <1>5 DEF r, u

LEMMA StateIs ==
  ASSUME NEW L, NEW K, NEW s \in SearchStates(L, K)
  PROVE  /\ s.nodes \in Seq(PseudoUniTensors(L, K)) /\ s.results \in Seq(PseudoUniTensors(L, K))
         /\ s.base \in Nat /\ s.rest \in Seq(Nat) /\ s.todo \in Seq(Seq(Nat))
         /\ Len(s.nodes) \in Nat /\ Len(s.rest) \in Nat /\ Len(s.results) \in Nat
<1>1. /\ s.nodes \in Seq(PseudoUniTensors(L, K)) /\ s.results \in Seq(PseudoUniTensors(L, K))
      /\ s.base \in Nat /\ s.rest \in Seq(Nat) /\ s.todo \in Seq(Seq(Nat))
  BY DEF SearchStates
<1>2. \A X, u : u \in Seq(X) => Len(u) \in Nat
  OBVIOUS
<1> QED BY <1>1, <1>2

LEMMA AppendIs ==
  ASSUME NEW X, NEW s \in Seq(X), NEW x \in X
  PROVE  /\ Append(s, x) \in Seq(X) /\ Len(Append(s, x)) = Len(s) + 1
         /\ \A k \in 1..Len(s) : Append(s, x)[k] = s[k]
         /\ Append(s, x)[Len(s) + 1] = x
OBVIOUS

LEMMA Beyond ==
  ASSUME NEW n \in Nat
  PROVE  n + 1 \in Nat /\ n + 1 \notin 1..n /\ 1..n \subseteq 1..(n + 1) /\ n + 1 \in 1..(n + 1)
OBVIOUS

\* Two nodes are replaced by one that holds what they held.
LEMMA PartsJoined ==
  ASSUME NEW s, NEW t, Parted(s), t.results = s.results, t.base = s.base,
         NEW i \in ToSet(Pool(s)), NEW j \in ToSet(Pool(s)), NEW new,
         new \notin ToSet(Pool(s)),
         ToSet(Pool(t)) = (ToSet(Pool(s)) \ {i, j}) \cup {new},
         \A k \in ToSet(Pool(s)) : t.nodes[k] = s.nodes[k],
         t.nodes[new].id = s.nodes[i].id \cup s.nodes[j].id
  PROVE  Parted(t)
<1> DEFINE I == ToSet(Pool(s))
           J == ToSet(Pool(t))
           R == 1..Len(s.results)
           A(k) == s.nodes[k].id
           B(k) == t.nodes[k].id
           C(k) == s.results[k].id
<1>1. /\ \A k \in I : A(k) # {}
      /\ \A k \in R : C(k) # {}
      /\ \A k, l \in I : k # l => A(k) \cap A(l) = {}
      /\ \A k \in I, l \in R : A(k) \cap C(l) = {}
      /\ \A k, l \in R : k # l => C(k) \cap C(l) = {}
      /\ \A x : x \in 1..s.base <=> (\E k \in I : x \in A(k)) \/ (\E k \in R : x \in C(k))
  BY DEF Parted
<1>2. /\ J = (I \ {i, j}) \cup {new} /\ new \notin I /\ i \in I /\ j \in I
      /\ \A k \in I : B(k) = A(k)
      /\ B(new) = A(i) \cup A(j)
  OBVIOUS
<1>3. SUFFICES
        /\ \A k \in J : B(k) # {}
        /\ \A k \in R : C(k) # {}
        /\ \A k, l \in J : k # l => B(k) \cap B(l) = {}
        /\ \A k \in J, l \in R : B(k) \cap C(l) = {}
        /\ \A k, l \in R : k # l => C(k) \cap C(l) = {}
        /\ \A x : x \in 1..s.base <=> (\E k \in J : x \in B(k)) \/ (\E k \in R : x \in C(k))
  BY DEF Parted
<1> HIDE DEF I, J, R, A, B, C
<1>4. \A k \in J : B(k) # {}
  BY <1>1, <1>2
<1>5. \A k, l \in J : k # l => B(k) \cap B(l) = {}
  <2>1. \A k \in J : k # new => k \in I /\ k # i /\ k # j
    BY <1>2
  <2>2. \A k \in J : k # new => B(k) \cap B(new) = {}
    BY <1>1, <1>2, <2>1
  <2> QED BY <1>1, <1>2, <2>1, <2>2
<1>6. \A k \in J, l \in R : B(k) \cap C(l) = {}
  BY <1>1, <1>2
<1>7. ASSUME NEW x PROVE (\E k \in I : x \in A(k)) <=> (\E k \in J : x \in B(k))
  <2>1. new \in J /\ \A k \in I : k = i \/ k = j \/ k \in J
    BY <1>2
  <2>2. ASSUME NEW k \in I, x \in A(k) PROVE \E l \in J : x \in B(l)
    BY <1>2, <2>1, <2>2
  <2>3. ASSUME NEW k \in J, x \in B(k) PROVE \E l \in I : x \in A(l)
    BY <1>2, <2>3
  <2> QED BY <2>2, <2>3
<1> QED BY <1>1, <1>4, <1>5, <1>6, <1>7

\* The state after the nodes at two positions of the list are contracted.
Merged(s, p, q) ==
  [s EXCEPT !.nodes = Append(s.nodes, PContract(s.nodes[s.rest[p]], s.nodes[s.rest[q]])),
            !.rest  = Append(RemoveAt(RemoveAt(s.rest, q), p), Len(s.nodes) + 1)]

\* One node is new, the contraction of two that were left.
OneNewNode(s, t) ==
  /\ t.base = s.base /\ Len(t.nodes) = Len(s.nodes) + 1
  /\ \A k \in 1..Len(s.nodes) : t.nodes[k] = s.nodes[k]
  /\ \E i, j \in ToSet(Pool(s)) :
       /\ i # j /\ t.nodes[Len(s.nodes) + 1] = PContract(s.nodes[i], s.nodes[j])
       /\ ToSet(Pool(t)) = (ToSet(Pool(s)) \ {i, j}) \cup {Len(s.nodes) + 1}

\* No node is new.
NoNewNode(s, t) ==
  t.base = s.base /\ t.nodes = s.nodes /\ ToSet(Pool(t)) \subseteq ToSet(Pool(s))

\* ContractPair: the new node holds what the two it joins held.
LEMMA PairContracted ==
  ASSUME NEW L, NEW K, Punctuated(K),
         NEW s \in SearchStates(L, K), LeftOnce(s), Parted(s),
         NEW p \in 1..Len(s.rest), NEW q \in 1..Len(s.rest), p < q
  PROVE  /\ Merged(s, p, q) \in SearchStates(L, K)
         /\ LeftOnce(Merged(s, p, q)) /\ Parted(Merged(s, p, q))
         /\ OneNewNode(s, Merged(s, p, q))
<1> DEFINE t == Merged(s, p, q)
           P == PseudoUniTensors(L, K)
           n == Len(s.nodes)
           F == FlattenSeq(s.todo)
           i == s.rest[p]
           j == s.rest[q]
           c == PContract(s.nodes[i], s.nodes[j])
           nodes == Append(s.nodes, c)
           rest == Append(RemoveAt(RemoveAt(s.rest, q), p), n + 1)
<1>a. n \in Nat
  BY StateIs
<1>b. s.nodes \in Seq(P)
  BY StateIs
<1>c. s.rest \in Seq(Nat)
  BY StateIs
<1>2. t = [s EXCEPT !.nodes = nodes, !.rest = rest]
  BY DEF Merged
<1> HIDE DEF t, P, n, F, c, nodes, rest
<1>3. /\ ToSet(Pool(s)) = ToSet(s.rest) \cup ToSet(F)
      /\ Distinct(s.rest) /\ Distinct(F) /\ ToSet(s.rest) \cap ToSet(F) = {}
      /\ ToSet(Pool(s)) \subseteq 1..n
  BY LeftIs DEF LeftOnce, F, n
<1>4. n + 1 \in Nat /\ n + 1 \notin ToSet(Pool(s)) /\ n + 1 \notin ToSet(s.rest)
  <2>1. n + 1 \in Nat /\ n + 1 \notin 1..n
    BY <1>a, Beyond
  <2> QED BY <1>3, <2>1
<1>5. /\ i # j /\ i \in ToSet(s.rest) /\ j \in ToSet(s.rest)
      /\ rest \in Seq(Nat) /\ Distinct(rest)
      /\ ToSet(rest) = (ToSet(s.rest) \ {i, j}) \cup {n + 1}
  BY <1>c, <1>3, <1>4, PairTakenOut DEF rest
<1> HIDE DEF i, j
<1>6. i \in ToSet(Pool(s)) /\ j \in ToSet(Pool(s)) /\ i \in 1..n /\ j \in 1..n
  BY <1>3, <1>5
<1>7. c \in P /\ c.id = s.nodes[i].id \cup s.nodes[j].id
  <2>1. s.nodes[i] \in P /\ s.nodes[j] \in P
    BY <1>b, <1>6 DEF n
  <2>2. s.nodes[i].id \cap s.nodes[j].id = {}
    BY <1>5, <1>6 DEF Parted
  <2>3. c \in P /\ c.id = SymDiff(s.nodes[i].id, s.nodes[j].id)
    BY <2>1, ContractedIs DEF P, c
  <2> QED BY <2>2, <2>3 DEF SymDiff
<1>8. /\ nodes \in Seq(P) /\ Len(nodes) = n + 1
      /\ \A k \in 1..n : nodes[k] = s.nodes[k]
      /\ nodes[n + 1] = c
  BY <1>b, <1>7, AppendIs DEF nodes, n
<1>9. t \in SearchStates(L, K)
  BY <1>2, <1>5, <1>8 DEF SearchStates, P
<1>10. /\ t.nodes = nodes /\ t.rest = rest /\ t.todo = s.todo
       /\ t.results = s.results /\ t.base = s.base
  BY <1>2 DEF SearchStates
<1>11. ToSet(Pool(t)) = (ToSet(Pool(s)) \ {i, j}) \cup {n + 1} /\ Distinct(Pool(t))
  <2>1. i \notin ToSet(F) /\ j \notin ToSet(F) /\ ToSet(rest) \cap ToSet(F) = {}
    BY <1>3, <1>4, <1>5
  <2>2. ToSet(Pool(t)) = ToSet(rest) \cup ToSet(F)
    BY <1>9, <1>10, LeftIs DEF F
  <2>3. Distinct(Pool(t))
    BY <1>3, <1>5, <1>9, <1>10, <2>1, LeftIs DEF F
  <2> QED BY <1>3, <1>5, <2>1, <2>2, <2>3
<1>12. LeftOnce(t)
  <2>1. 1..n \subseteq 1..(n + 1) /\ n + 1 \in 1..(n + 1)
    BY <1>a, Beyond
  <2>2. ToSet(Pool(t)) \subseteq 1..Len(t.nodes)
    BY <1>3, <1>8, <1>10, <1>11, <2>1
  <2> QED BY <1>11, <2>2 DEF LeftOnce
<1>13. Parted(t)
  <2>1. \A k \in ToSet(Pool(s)) : t.nodes[k] = s.nodes[k]
    BY <1>3, <1>8, <1>10
  <2>2. t.nodes[n + 1].id = s.nodes[i].id \cup s.nodes[j].id
    BY <1>7, <1>8, <1>10
  <2> QED BY <1>4, <1>6, <1>10, <1>11, <2>1, <2>2, PartsJoined
<1>14. OneNewNode(s, t)
  BY <1>5, <1>6, <1>8, <1>10, <1>11 DEF OneNewNode, n, c
<1> QED BY <1>9, <1>12, <1>13, <1>14 DEF t

LEMMA PairKeeps ==
  ASSUME NEW L, NEW K, Punctuated(K), SearchInv(L, K), ContractPair
  PROVE  SearchInv(L, K)' /\ OneNewNode(search, search')
<1> DEFINE s == search
<1>1. s \in SearchStates(L, K) /\ LeftOnce(s) /\ Parted(s) /\ s.phase = "pairs"
  BY DEF SearchInv, ContractPair, Running
<1>2. /\ s.nodes \in Seq(PseudoUniTensors(L, K)) /\ s.rest \in Seq(Nat) /\ Len(s.rest) \in Nat
      /\ Len(s.rest) > 1
  BY <1>1, StateIs DEF ContractPair
<1>3. s.rest \in Seq(1..Len(s.nodes))
  <2>1. \A k \in 1..Len(s.rest) : s.rest[k] \in ToSet(s.rest)
    BY <1>2, SetOf
  <2>2. ToSet(s.rest) \subseteq 1..Len(s.nodes)
    BY <1>1, LeftIs DEF LeftOnce
  <2>3. \A k \in 1..Len(s.rest) : s.rest[k] \in 1..Len(s.nodes)
    BY <2>1, <2>2
  <2> QED BY <1>2, <2>3
<1>4. PICK pq :
        /\ \E stray : pq = BestPair(s, stray)
        /\ search' = Merged(s, pq[1], pq[2])
  BY DEF ContractPair, Merged
<1>5. pq \in Positions(s)
  BY <1>2, <1>3, <1>4, BestPairIs
<1>6. pq[1] \in 1..Len(s.rest) /\ pq[2] \in 1..Len(s.rest) /\ pq[1] < pq[2]
  BY <1>5 DEF Positions
<1> HIDE DEF s
<1>7. /\ search' \in SearchStates(L, K) /\ LeftOnce(search') /\ Parted(search')
      /\ OneNewNode(s, search')
  BY <1>1, <1>4, <1>6, PairContracted
<1> QED BY <1>7 DEF SearchInv, s

\* FinishComponent: the node that is left becomes a result.
LEMMA PartsMoved ==
  ASSUME NEW s, NEW t, Parted(s), t.base = s.base, t.nodes = s.nodes,
         NEW h \in ToSet(Pool(s)), ToSet(Pool(t)) = ToSet(Pool(s)) \ {h},
         Len(s.results) \in Nat, Len(t.results) = Len(s.results) + 1,
         \A k \in 1..Len(s.results) : t.results[k] = s.results[k],
         t.results[Len(s.results) + 1] = s.nodes[h]
  PROVE  Parted(t)
<1> DEFINE I == ToSet(Pool(s))
           J == ToSet(Pool(t))
           R == 1..Len(s.results)
           Q == 1..Len(t.results)
           m == Len(s.results) + 1
           A(k) == s.nodes[k].id
           C(k) == s.results[k].id
           D(k) == t.results[k].id
<1>1. /\ \A k \in I : A(k) # {}
      /\ \A k \in R : C(k) # {}
      /\ \A k, l \in I : k # l => A(k) \cap A(l) = {}
      /\ \A k \in I, l \in R : A(k) \cap C(l) = {}
      /\ \A k, l \in R : k # l => C(k) \cap C(l) = {}
      /\ \A x : x \in 1..s.base <=> (\E k \in I : x \in A(k)) \/ (\E k \in R : x \in C(k))
  BY DEF Parted
<1>2. /\ J = I \ {h} /\ h \in I /\ Q = R \cup {m} /\ m \notin R
      /\ \A k \in R : D(k) = C(k)
      /\ D(m) = A(h)
  <2>1. \A n \in Nat : 1..(n + 1) = (1..n) \cup {n + 1} /\ n + 1 \notin 1..n
    OBVIOUS
  <2> QED BY <2>1
<1>3. SUFFICES
        /\ \A k \in J : A(k) # {}
        /\ \A k \in Q : D(k) # {}
        /\ \A k, l \in J : k # l => A(k) \cap A(l) = {}
        /\ \A k \in J, l \in Q : A(k) \cap D(l) = {}
        /\ \A k, l \in Q : k # l => D(k) \cap D(l) = {}
        /\ \A x : x \in 1..s.base <=> (\E k \in J : x \in A(k)) \/ (\E k \in Q : x \in D(k))
  BY DEF Parted
<1> HIDE DEF I, J, R, Q, m, A, C, D
<1>4. /\ \A k \in J : A(k) # {}
      /\ \A k \in Q : D(k) # {}
      /\ \A k, l \in J : k # l => A(k) \cap A(l) = {}
  BY <1>1, <1>2
<1>5. \A k \in J, l \in Q : A(k) \cap D(l) = {}
  BY <1>1, <1>2
<1>6. \A k, l \in Q : k # l => D(k) \cap D(l) = {}
  BY <1>1, <1>2
<1>7. ASSUME NEW x
      PROVE  (\E k \in I : x \in A(k)) \/ (\E k \in R : x \in C(k))
               <=> (\E k \in J : x \in A(k)) \/ (\E k \in Q : x \in D(k))
  <2>1. (\E k \in Q : x \in D(k)) <=> x \in A(h) \/ (\E k \in R : x \in C(k))
    BY <1>2
  <2>2. (\E k \in I : x \in A(k)) <=> x \in A(h) \/ (\E k \in J : x \in A(k))
    BY <1>2
  <2> QED BY <2>1, <2>2
<1> QED BY <1>1, <1>4, <1>5, <1>6, <1>7

LEMMA FinishKeeps ==
  ASSUME NEW L, NEW K, SearchInv(L, K), FinishComponent
  PROVE  SearchInv(L, K)' /\ NoNewNode(search, search')
<1> DEFINE s == search
           t == search'
           h == Head(s.rest)
           rest == IF s.todo = <<>> THEN <<>> ELSE Head(s.todo)
           todo == IF s.todo = <<>> THEN <<>> ELSE Tail(s.todo)
           results == Append(s.results, s.nodes[h])
           phase == IF s.todo = <<>> THEN "combine" ELSE "pairs"
           P == PseudoUniTensors(L, K)
           F == FlattenSeq(s.todo)
<1>1. s \in SearchStates(L, K) /\ LeftOnce(s) /\ Parted(s) /\ Len(s.rest) = 1
  BY DEF SearchInv, FinishComponent, Running
<1>2. s.nodes \in Seq(P) /\ s.results \in Seq(P) /\ s.rest \in Seq(Nat) /\ s.todo \in Seq(Seq(Nat))
      /\ Len(s.results) \in Nat
  BY <1>1, StateIs
<1>3. t = [s EXCEPT !.results = results, !.rest = rest, !.todo = todo, !.phase = phase]
  BY DEF FinishComponent
<1>4. rest \in Seq(Nat) /\ todo \in Seq(Seq(Nat)) /\ rest \o FlattenSeq(todo) = F
  <2>1. CASE s.todo = <<>>
    <3>1. <<>> \in Seq(Nat) /\ <<>> \in Seq(Seq(Nat)) /\ <<>> \o <<>> = <<>>
      OBVIOUS
    <3>2. FlattenSeq(<<>>) = <<>>
      BY FlatEquations
    <3> QED BY <2>1, <3>1, <3>2
  <2>2. CASE s.todo # <<>>
    <3> DEFINE V == Seq(Nat)
    <3>1. s.todo \in Seq(V)
      BY <1>2
    <3> HIDE DEF V
    <3>2. Head(s.todo) \in V /\ Tail(s.todo) \in Seq(V)
      BY <2>2, <3>1
    <3>3. F = Head(s.todo) \o FlattenSeq(Tail(s.todo))
      BY <2>2, <1>2, FlatHead
    <3> QED BY <2>2, <3>2, <3>3 DEF V
  <2> QED BY <2>1, <2>2
<1>5. h = s.rest[1] /\ 1 \in 1..Len(s.rest) /\ \A k \in 1..Len(s.rest) : k = 1
  BY <1>1, <1>2
<1>6. ToSet(s.rest) = {h}
  <2>1. \A x : x \in ToSet(s.rest) <=> \E k \in 1..Len(s.rest) : x = s.rest[k]
    BY <1>2, SetOf
  <2> HIDE DEF h
  <2> QED BY <1>5, <2>1
<1> HIDE DEF s, t, h, rest, todo, results, phase, P, F
<1>7. /\ ToSet(Pool(s)) = {h} \cup ToSet(F) /\ h \notin ToSet(F) /\ Distinct(F)
      /\ ToSet(Pool(s)) \subseteq 1..Len(s.nodes)
  BY <1>1, <1>6, LeftIs DEF LeftOnce, F
<1>8. s.nodes[h] \in P
  BY <1>2, <1>7
<1>9. /\ results \in Seq(P) /\ Len(results) = Len(s.results) + 1
      /\ \A k \in 1..Len(s.results) : results[k] = s.results[k]
      /\ results[Len(s.results) + 1] = s.nodes[h]
  BY <1>2, <1>8, AppendIs DEF results
<1>10. t \in SearchStates(L, K)
  <2>1. phase \in {"idle", "pairs", "combine", "done", "throws"}
    BY DEF phase
  <2> QED BY <1>1, <1>3, <1>4, <1>9, <2>1 DEF SearchStates, P
<1>11. /\ t.nodes = s.nodes /\ t.rest = rest /\ t.todo = todo
       /\ t.results = results /\ t.base = s.base
  BY <1>1, <1>3 DEF SearchStates
<1>12. Pool(t) = F
  BY <1>4, <1>11 DEF Pool
<1>13. ToSet(Pool(t)) = ToSet(Pool(s)) \ {h}
  BY <1>7, <1>12
<1>14. LeftOnce(t)
  BY <1>7, <1>11, <1>12, <1>13 DEF LeftOnce
<1>15. Parted(t)
  <2>1. h \in ToSet(Pool(s))
    BY <1>7
  <2> QED BY <1>1, <1>2, <1>9, <1>11, <1>13, <2>1, PartsMoved
<1>16. NoNewNode(s, t)
  BY <1>11, <1>13 DEF NoNewNode
<1> QED BY <1>10, <1>14, <1>15, <1>16 DEF SearchInv, s, t

\* CombineComponents: the first two results become one.
LEMMA TwoInOne ==
  ASSUME NEW X, NEW r \in Seq(X), Len(r) > 1, NEW c \in X
  PROVE  /\ <<c>> \o SubSeq(r, 3, Len(r)) \in Seq(X)
         /\ Len(<<c>> \o SubSeq(r, 3, Len(r))) = Len(r) - 1
         /\ (<<c>> \o SubSeq(r, 3, Len(r)))[1] = c
         /\ \A k \in 2..(Len(r) - 1) : (<<c>> \o SubSeq(r, 3, Len(r)))[k] = r[k + 1]
<1> DEFINE u == SubSeq(r, 3, Len(r))
           v == <<c>> \o u
<1>1. /\ u \in Seq(X) /\ Len(u) = Len(r) - 2 /\ Len(r) \in Nat
      /\ \A k \in 1..(Len(r) - 2) : u[k] = r[k + 2]
  <2>1. Len(r) \in Nat
    OBVIOUS
  <2>2. u \in Seq(X)
    OBVIOUS
  <2>3. Len(u) = Len(r) - 2
    <3>1. 3 \in Int /\ Len(r) \in Int /\ \A k \in 3..Len(r) : r[k] \in X
      OBVIOUS
    <3>2. Len(u) = IF 3 <= Len(r) THEN Len(r) - 3 + 1 ELSE 0
      BY <3>1, SubSeqProperties
    <3> HIDE DEF u
    <3>3. CASE 3 <= Len(r)
      BY <2>1, <3>2, <3>3
    <3>4. CASE ~(3 <= Len(r))
      <4>1. \A n \in Nat : n > 1 /\ ~(3 <= n) => n = 2
        OBVIOUS
      <4>2. Len(r) = 2
        BY <2>1, <3>4, <4>1
      <4> QED BY <3>2, <4>2
    <3> QED BY <3>3, <3>4
  <2>4. \A k \in 1..(Len(r) - 2) : u[k] = r[k + 2]
    OBVIOUS
  <2> QED BY <2>1, <2>2, <2>3, <2>4
<1>2. <<c>> \in Seq(X) /\ Len(<<c>>) = 1 /\ <<c>>[1] = c
  OBVIOUS
<1> HIDE DEF u
<1>3. /\ v \in Seq(X) /\ Len(v) = 1 + Len(u) /\ v[1] = c
      /\ \A k \in 2..(1 + Len(u)) : v[k] = u[k - 1]
  BY <1>1, <1>2
<1> HIDE DEF v
<1>4. \A k \in 2..(Len(r) - 1) : v[k] = r[k + 1]
  <2>1. SUFFICES ASSUME NEW k \in 2..(Len(r) - 1) PROVE v[k] = r[k + 1]
    OBVIOUS
  <2>2. k \in 2..(1 + Len(u)) /\ k - 1 \in 1..(Len(r) - 2) /\ (k - 1) + 2 = k + 1
    BY <1>1
  <2> QED BY <1>1, <1>3, <2>2
<1> QED BY <1>1, <1>3, <1>4 DEF v, u

LEMMA PartsCombined ==
  ASSUME NEW s, NEW t, Parted(s), t.base = s.base, t.nodes = s.nodes, Pool(t) = Pool(s),
         Len(s.results) \in Nat, Len(s.results) > 1, Len(t.results) = Len(s.results) - 1,
         t.results[1].id = s.results[1].id \cup s.results[2].id,
         \A k \in 2..(Len(s.results) - 1) : t.results[k] = s.results[k + 1]
  PROVE  Parted(t)
<1> DEFINE I == ToSet(Pool(s))
           n == Len(s.results)
           A(k) == s.nodes[k].id
           C(k) == s.results[k].id
           D(k) == t.results[k].id
           R == 1..n
           Q == 1..(n - 1)
<1>1. /\ \A k \in I : A(k) # {}
      /\ \A k \in R : C(k) # {}
      /\ \A k, l \in I : k # l => A(k) \cap A(l) = {}
      /\ \A k \in I, l \in R : A(k) \cap C(l) = {}
      /\ \A k, l \in R : k # l => C(k) \cap C(l) = {}
      /\ \A x : x \in 1..s.base <=> (\E k \in I : x \in A(k)) \/ (\E k \in R : x \in C(k))
  BY DEF Parted
<1>2. /\ n \in Nat /\ n > 1 /\ D(1) = C(1) \cup C(2)
      /\ \A k \in 2..(n - 1) : D(k) = C(k + 1)
  OBVIOUS
<1>3. SUFFICES
        /\ \A k \in Q : D(k) # {}
        /\ \A k \in I, l \in Q : A(k) \cap D(l) = {}
        /\ \A k, l \in Q : k # l => D(k) \cap D(l) = {}
        /\ \A x : (\E k \in R : x \in C(k)) <=> (\E k \in Q : x \in D(k))
  <2>1. Len(t.results) = n - 1
    OBVIOUS
  <2> QED BY <1>1, <2>1 DEF Parted
<1> HIDE DEF I, A, C, D, n
<1>4. /\ 1 \in R /\ 2 \in R /\ 1 \in Q
      /\ \A k \in Q : k # 1 => k \in 2..(n - 1) /\ k + 1 \in R /\ k + 1 # 1 /\ k + 1 # 2
      /\ \A k, l \in Q : k # l => k + 1 # l + 1
      /\ \A k \in R : k = 1 \/ k = 2 \/ (k - 1 \in 2..(n - 1) /\ k - 1 \in Q /\ (k - 1) + 1 = k)
  BY <1>2
<1> HIDE DEF R, Q
<1>5. \A k \in Q : k # 1 => D(k) = C(k + 1)
  BY <1>2, <1>4
<1>6. \A k \in Q : D(k) # {}
  BY <1>1, <1>2, <1>4, <1>5
<1>7. \A k \in I, l \in Q : A(k) \cap D(l) = {}
  <2>1. \A k \in I : A(k) \cap D(1) = {}
    BY <1>1, <1>2, <1>4
  <2> QED BY <1>1, <1>4, <1>5, <2>1
<1>8. \A k, l \in Q : k # l => D(k) \cap D(l) = {}
  <2>1. \A k \in Q : k # 1 => D(1) \cap D(k) = {}
    BY <1>1, <1>2, <1>4, <1>5
  <2>2. \A k, l \in Q : k # 1 /\ l # 1 /\ k # l => D(k) \cap D(l) = {}
    BY <1>1, <1>4, <1>5
  <2> QED BY <2>1, <2>2
<1>9. ASSUME NEW x PROVE (\E k \in R : x \in C(k)) <=> (\E k \in Q : x \in D(k))
  <2>1. ASSUME NEW k \in R, x \in C(k) PROVE \E l \in Q : x \in D(l)
    <3>1. CASE k = 1 \/ k = 2
      BY <1>2, <1>4, <2>1, <3>1
    <3>2. CASE k - 1 \in 2..(n - 1) /\ k - 1 \in Q /\ (k - 1) + 1 = k
      BY <1>2, <2>1, <3>2
    <3> QED BY <1>4, <3>1, <3>2
  <2>2. ASSUME NEW k \in Q, x \in D(k) PROVE \E l \in R : x \in C(l)
    BY <1>2, <1>4, <1>5, <2>2
  <2> QED BY <2>1, <2>2
<1> QED BY <1>6, <1>7, <1>8, <1>9

LEMMA CombineKeeps ==
  ASSUME NEW L, NEW K, Punctuated(K), SearchInv(L, K), CombineComponents
  PROVE  SearchInv(L, K)' /\ NoNewNode(search, search')
<1> DEFINE s == search
           t == search'
           P == PseudoUniTensors(L, K)
           r == s.results
           c == CombinedComponents(r[1], r[2])
           results == <<c>> \o SubSeq(r, 3, Len(r))
<1>1. s \in SearchStates(L, K) /\ LeftOnce(s) /\ Parted(s) /\ Len(r) > 1
  BY DEF SearchInv, CombineComponents, Running
<1>2. r \in Seq(P) /\ Len(r) \in Nat
  BY <1>1, StateIs
<1>3. t = [s EXCEPT !.results = results]
  BY DEF CombineComponents
<1> HIDE DEF s, t, P, c, results
<1>4. r[1] \in P /\ r[2] \in P
  BY <1>1, <1>2
<1>5. c \in P /\ c.id = r[1].id \cup r[2].id
  <2>1. c \in P /\ c.id = SymDiff(r[1].id, r[2].id)
    BY <1>4, ContractedIs DEF P, c
  <2>2. r[1].id \cap r[2].id = {}
    <3>1. 1 \in 1..Len(r) /\ 2 \in 1..Len(r) /\ 1 # 2
      BY <1>1, <1>2
    <3> QED BY <1>1, <3>1 DEF Parted
  <2> QED BY <2>1, <2>2 DEF SymDiff
<1>6. /\ results \in Seq(P) /\ Len(results) = Len(r) - 1 /\ results[1] = c
      /\ \A k \in 2..(Len(r) - 1) : results[k] = r[k + 1]
  BY <1>1, <1>2, <1>5, TwoInOne DEF results
<1>7. t \in SearchStates(L, K)
  BY <1>1, <1>3, <1>6 DEF SearchStates, P
<1>8. /\ t.nodes = s.nodes /\ t.rest = s.rest /\ t.todo = s.todo
      /\ t.results = results /\ t.base = s.base
  BY <1>1, <1>3 DEF SearchStates
<1>9. Pool(t) = Pool(s)
  BY <1>8 DEF Pool
<1>10. LeftOnce(t)
  BY <1>1, <1>8, <1>9 DEF LeftOnce
<1>11. Parted(t)
  BY <1>1, <1>2, <1>5, <1>6, <1>8, <1>9, PartsCombined
<1>12. NoNewNode(s, t)
  BY <1>8, <1>9 DEF NoNewNode
<1> QED BY <1>7, <1>10, <1>11, <1>12 DEF SearchInv, s, t

LEMMA ListFacts ==
  ASSUME NEW X
  PROVE  /\ \A s \in Seq(X) : Len(s) \in Nat /\ \A i \in 1..Len(s) : s[i] \in X
         /\ \A s, t \in Seq(X) : s \o t \in Seq(X) /\ Len(s \o t) = Len(s) + Len(t)
         /\ \A n \in Nat : \A f \in [1..n -> X] : f \in Seq(X) /\ Len(f) = n
<1>1. \A s \in Seq(X) : Len(s) \in Nat /\ \A i \in 1..Len(s) : s[i] \in X
  OBVIOUS
<1>2. \A s, t \in Seq(X) : s \o t \in Seq(X) /\ Len(s \o t) = Len(s) + Len(t)
  OBVIOUS
<1>3. \A n \in Nat : \A f \in [1..n -> X] : f \in Seq(X) /\ Len(f) = n
  OBVIOUS
<1> QED BY <1>1, <1>2, <1>3

\* search_order starts with every tensor in one component.
LEMMA SearchStarts ==
  ASSUME NEW L, NEW K, NEW tensors \in Seq(PseudoUniTensors(L, K)),
         NEW t, t = Searching(tensors)
  PROVE  Sought(t, L, K)
<1> DEFINE P == PseudoUniTensors(L, K)
           n == Len(tensors)
           nodes == [i \in DOMAIN tensors |-> [tensors[i] EXCEPT !.id = {i}]]
           comps == Components(nodes)
           s == [phase |-> "pairs", nodes |-> nodes, base |-> n,
                 rest |-> Head(comps), todo |-> Tail(comps), results |-> <<>>]
<1>1. t = IF n < 2 \/ n > IndexBits THEN [Idle EXCEPT !.phase = "throws"] ELSE s
  BY DEF Searching
<1>2. n \in Nat /\ DOMAIN tensors = 1..n
  OBVIOUS
<1>3. CASE n < 2 \/ n > IndexBits
  <2>1. <<>> \in Seq(P) /\ <<>> \in Seq(Nat) /\ <<>> \in Seq(Seq(Nat))
    BY Lists
  <2>2. t = [phase |-> "throws", nodes |-> <<>>, base |-> 0,
                  rest |-> <<>>, todo |-> <<>>, results |-> <<>>]
    BY <1>1, <1>3 DEF Idle
  <2> HIDE DEF P
  <2>3. t \in SearchStates(L, K)
    BY <2>1, <2>2 DEF SearchStates, P
  <2> QED BY <2>2, <2>3 DEF Sought
<1>4. CASE ~(n < 2 \/ n > IndexBits)
  <2>1. n > 1 /\ t = s
    BY <1>1, <1>2, <1>4
  <2>2. /\ nodes \in Seq(P) /\ Len(nodes) = n
        /\ \A i \in 1..n : nodes[i].id = {i}
    <3>1. ASSUME NEW i \in 1..n
          PROVE  [tensors[i] EXCEPT !.id = {i}] \in P /\ [tensors[i] EXCEPT !.id = {i}].id = {i}
      <4>1. tensors[i] \in P
        BY ListFacts
      <4>2. {i} \subseteq Nat
        BY <1>2
      <4> QED BY <4>1, <4>2 DEF PseudoUniTensors
    <3>2. \A i \in 1..n : nodes[i] = [tensors[i] EXCEPT !.id = {i}]
      BY <1>2
    <3>3. nodes \in [1..n -> P]
      <4> HIDE DEF P, n
      <4> QED BY <1>2, <3>1
    <3>4. nodes \in Seq(P) /\ Len(nodes) = n
      <4> HIDE DEF P, nodes, n
      <4> QED BY <1>2, <3>3, ListFacts
    <3> QED BY <3>1, <3>2, <3>4
  <2> HIDE DEF P, nodes, n
  <2>3. /\ comps \in Seq(Seq(1..n)) /\ Distinct(FlattenSeq(comps))
        /\ ToSet(FlattenSeq(comps)) = 1..n
    BY <2>2, ComponentsAre
  <2> HIDE DEF comps, s
  <2>4. comps # <<>>
    <3>1. ToSet(FlattenSeq(<<>>)) = {}
      <4>1. FlattenSeq(<<>>) = <<>> /\ <<>> \in Seq(Nat)
        BY FlatEquations, Lists
      <4> QED BY <4>1, SetOf
    <3>2. 1 \in 1..n
      BY <1>2, <2>1
    <3> QED BY <2>3, <3>1, <3>2
  <2>5. Head(comps) \in Seq(Nat) /\ Tail(comps) \in Seq(Seq(Nat))
    <3> DEFINE V == Seq(1..n)
    <3>1. comps \in Seq(V) /\ comps # <<>>
      BY <2>3, <2>4
    <3>2. V \subseteq Seq(Nat)
      BY <1>2
    <3> HIDE DEF V
    <3>3. Head(comps) \in V /\ Tail(comps) \in Seq(V)
      BY <3>1
    <3>4. \A W : V \subseteq W => Seq(V) \subseteq Seq(W)
      OBVIOUS
    <3> QED BY <3>2, <3>3, <3>4
  <2>6. /\ s.phase = "pairs" /\ s.nodes = nodes /\ s.base = n
        /\ s.rest = Head(comps) /\ s.todo = Tail(comps) /\ s.results = <<>>
    BY DEF s
  <2>7. s \in SearchStates(L, K)
    <3>1. <<>> \in Seq(P)
      BY Lists
    <3> QED BY <1>2, <2>2, <2>5, <3>1 DEF SearchStates, s, P
  <2>8. Pool(s) = FlattenSeq(comps)
    BY <2>3, <2>4, <2>6, FlatHead DEF Pool
  <2>9. LeftOnce(s)
    BY <2>2, <2>3, <2>6, <2>8 DEF LeftOnce
  <2>10. Parted(s)
    <3>1. ToSet(Pool(s)) = 1..n /\ 1..Len(s.results) = {} /\ s.base = n
      BY <2>3, <2>6, <2>8
    <3>2. \A i \in 1..n : s.nodes[i].id = {i}
      BY <2>2, <2>6
    <3> HIDE DEF n
    <3>3. \A x : x \in 1..n <=> \E i \in 1..n : x \in s.nodes[i].id
      BY <3>2
    <3>4. \A i, j \in 1..n : i # j => s.nodes[i].id \cap s.nodes[j].id = {}
      BY <3>2
    <3>5. \A i \in 1..n : s.nodes[i].id # {}
      BY <3>2
    <3> QED BY <3>1, <3>3, <3>4, <3>5 DEF Parted
  <2> QED BY <2>1, <2>7, <2>9, <2>10 DEF Sought
<1> QED BY <1>3, <1>4

\* A step of solve: the invariant holds again, and a node is new only if two
\* have been contracted.
LEMMA StepKeeps ==
  ASSUME NEW L, NEW K, Punctuated(K), SearchInv(L, K), SolveStep
  PROVE  /\ SearchInv(L, K)'
         /\ Running' => /\ Running
                        /\ NoNewNode(search, search') \/ OneNewNode(search, search')
<1>1. CASE ContractPair
  BY <1>1, PairKeeps DEF ContractPair, Running
<1>2. CASE PairThrows
  <2>1. <<>> \in Seq(PseudoUniTensors(L, K)) /\ <<>> \in Seq(Nat) /\ <<>> \in Seq(Seq(Nat))
    BY Lists
  <2>2. search' = [phase |-> "throws", nodes |-> <<>>, base |-> 0,
                   rest |-> <<>>, todo |-> <<>>, results |-> <<>>]
    BY <1>2 DEF PairThrows, Idle
  <2>3. search' \in SearchStates(L, K)
    BY <2>1, <2>2 DEF SearchStates
  <2> QED BY <2>2, <2>3 DEF SearchInv, Running
<1>3. CASE FinishComponent
  BY <1>3, FinishKeeps DEF FinishComponent, Running
<1>4. CASE CombineComponents
  BY <1>4, CombineKeeps DEF CombineComponents, Running
<1>5. CASE FinishSearch
  <2>1. search \in SearchStates(L, K) /\ LeftOnce(search) /\ Parted(search) /\ Running
    BY <1>5 DEF SearchInv, FinishSearch, Running
  <2>2. search' = [search EXCEPT !.phase = "done"]
    BY <1>5 DEF FinishSearch
  <2>3. /\ search' \in SearchStates(L, K)
        /\ search'.nodes = search.nodes /\ search'.rest = search.rest
        /\ search'.todo = search.todo /\ search'.results = search.results
        /\ search'.base = search.base
    BY <2>1, <2>2 DEF SearchStates
  <2>4. Pool(search') = Pool(search)
    BY <2>3 DEF Pool
  <2>5. LeftOnce(search') /\ Parted(search') /\ NoNewNode(search, search')
    BY <2>1, <2>3, <2>4 DEF LeftOnce, Parted, NoNewNode
  <2> QED BY <2>1, <2>3, <2>5 DEF SearchInv
<1> QED BY <1>1, <1>2, <1>3, <1>4, <1>5 DEF SolveStep

\* The invariant says that each tensor is there once.
LEMMA OnceEach ==
  ASSUME NEW L, NEW K, SearchInv(L, K)
  PROVE  EachTensorOnce
<1> DEFINE s == search
           P == PseudoUniTensors(L, K)
           I == ToSet(Pool(s))
           left == Pool(s)
           found == [k \in 1..Len(left) |-> s.nodes[left[k]]]
<1>1. SUFFICES ASSUME Running
               PROVE  /\ UNION {t.id : t \in Live} = 1..s.base
                      /\ \A t, u \in Live : t # u => t.id \cap u.id = {}
                      /\ Cardinality(Live) =
                           Len(s.rest) + Len(FlattenSeq(s.todo)) + Len(s.results)
  BY DEF EachTensorOnce
<1>2. s \in SearchStates(L, K) /\ LeftOnce(s) /\ Parted(s)
  BY <1>1 DEF SearchInv
<1>3. /\ s.nodes \in Seq(P) /\ s.results \in Seq(P) /\ s.rest \in Seq(Nat)
      /\ Len(s.results) \in Nat
  BY <1>2, StateIs
<1>4. /\ left \in Seq(Nat) /\ Distinct(left) /\ I \subseteq 1..Len(s.nodes)
      /\ I = ToSet(s.rest) \cup ToSet(FlattenSeq(s.todo))
      /\ FlattenSeq(s.todo) \in Seq(Nat)
  BY <1>2, LeftIs DEF LeftOnce
<1>5. Len(left) = Len(s.rest) + Len(FlattenSeq(s.todo)) /\ Len(left) \in Nat
  <2>1. Pool(s) = s.rest \o FlattenSeq(s.todo)
    BY DEF Pool
  <2> HIDE DEF s
  <2>2. Len(s.rest \o FlattenSeq(s.todo)) = Len(s.rest) + Len(FlattenSeq(s.todo))
    BY <1>3, <1>4, ConcatProperties, Zenon
  <2>3. Len(left) \in Nat
    BY <1>4, ListFacts, Zenon
  <2> QED BY <2>1, <2>2, <2>3
<1>6. Live = {s.nodes[i] : i \in I} \cup ToSet(s.results)
  BY <1>4 DEF Live, Waiting
<1>7. \A r : r \in ToSet(s.results) <=> \E k \in 1..Len(s.results) : r = s.results[k]
  BY <1>3, SetOf
<1>8. \A i : i \in I <=> \E k \in 1..Len(left) : i = left[k]
  BY <1>4, SetOf
<1>9. /\ \A i \in I : s.nodes[i].id # {}
      /\ \A k \in 1..Len(s.results) : s.results[k].id # {}
      /\ \A i, j \in I : i # j => s.nodes[i].id \cap s.nodes[j].id = {}
      /\ \A i \in I, k \in 1..Len(s.results) : s.nodes[i].id \cap s.results[k].id = {}
      /\ \A k, l \in 1..Len(s.results) : k # l => s.results[k].id \cap s.results[l].id = {}
      /\ \A x : x \in 1..s.base <=> \/ \E i \in I : x \in s.nodes[i].id
                                    \/ \E k \in 1..Len(s.results) : x \in s.results[k].id
  BY <1>2 DEF Parted
<1> HIDE DEF s, I, P, left
<1>10. \A t : t \in Live <=> \/ \E i \in I : t = s.nodes[i]
                             \/ \E k \in 1..Len(s.results) : t = s.results[k]
  BY <1>6, <1>7
<1>11. UNION {t.id : t \in Live} = 1..s.base
  <2>1. ASSUME NEW x
        PROVE  x \in UNION {t.id : t \in Live} <=> x \in 1..s.base
    <3>1. x \in UNION {t.id : t \in Live} <=> \E t \in Live : x \in t.id
      OBVIOUS
    <3>2. (\E t \in Live : x \in t.id) <=>
             \/ \E i \in I : x \in s.nodes[i].id
             \/ \E k \in 1..Len(s.results) : x \in s.results[k].id
      BY <1>10
    <3> QED BY <1>9, <3>1, <3>2
  <2> QED BY <2>1
<1>12. ASSUME NEW t \in Live, NEW u \in Live, t # u
       PROVE  t.id \cap u.id = {}
  <2>1. \/ \E i \in I : t = s.nodes[i]
        \/ \E k \in 1..Len(s.results) : t = s.results[k]
    BY <1>10
  <2>2. \/ \E i \in I : u = s.nodes[i]
        \/ \E k \in 1..Len(s.results) : u = s.results[k]
    BY <1>10
  <2> QED BY <1>9, <1>12, <2>1, <2>2
<1>13. Cardinality(Live) = Len(left) + Len(s.results)
  <2>1. found \in Seq(P) /\ Len(found) = Len(left)
    <3>1. \A k \in 1..Len(left) : s.nodes[left[k]] \in P
      <4>1. \A i \in I : s.nodes[i] \in P
        BY <1>3, <1>4
      <4> QED BY <1>8, <4>1
    <3>2. found \in [1..Len(left) -> P]
      BY <3>1
    <3> HIDE DEF found
    <3> QED BY <1>5, <3>2, ListFacts
  <2>2. \A k \in 1..Len(left) : left[k] \in I /\ found[k] = s.nodes[left[k]]
    BY <1>8
  <2> HIDE DEF found
  <2>3. Distinct(found)
    <3>1. SUFFICES ASSUME NEW k \in 1..Len(left), NEW l \in 1..Len(left), found[k] = found[l]
                   PROVE  k = l
      BY <2>1 DEF Distinct
    <3>2. left[k] = left[l]
      BY <1>9, <2>2, <3>1
    <3> QED BY <1>4, <3>2 DEF Distinct
  <2>4. Distinct(s.results)
    BY <1>9 DEF Distinct
  <2>5. ToSet(found) = {s.nodes[i] : i \in I}
    <3>1. \A t : t \in ToSet(found) <=> \E k \in 1..Len(left) : t = found[k]
      BY <2>1, SetOf
    <3> QED BY <1>8, <2>2, <3>1
  <2>6. ToSet(found) \cap ToSet(s.results) = {}
    BY <1>7, <1>9, <2>5
  <2>7. ToSet(found \o s.results) = Live /\ Distinct(found \o s.results)
    BY <1>3, <1>6, <2>1, <2>3, <2>4, <2>5, <2>6, ConcatDistinct
  <2>8. found \o s.results \in Seq(P) /\ Len(found \o s.results) = Len(left) + Len(s.results)
    <3>1. /\ found \o s.results \in Seq(P)
          /\ Len(found \o s.results) = Len(found) + Len(s.results)
      BY <1>3, <2>1, ConcatProperties, Zenon
    <3> QED BY <2>1, <3>1
  <2> QED BY <2>7, <2>8, DistinctCount
<1> QED BY <1>5, <1>11, <1>12, <1>13 DEF s

\* The search for an order, called with any number of tensors with any legs:
\* at every step the tensors still to be contracted hold each tensor of the
\* network exactly once.
THEOREM SearchKeepsTensors ==
  ASSUME NEW L, NEW K, Punctuated(K), NEW tensors \in Seq(PseudoUniTensors(L, K))
  PROVE  SearchOrder(tensors) => []EachTensorOnce
<1>1. search = Searching(tensors) => SearchInv(L, K)
  BY SearchStarts DEF SearchInv, Sought, Running
<1>2. SearchInv(L, K) /\ [SolveStep]_search => SearchInv(L, K)'
  BY StepKeeps DEF SearchInv, Running
<1>3. SearchInv(L, K) => EachTensorOnce
  BY OnceEach
<1> QED BY <1>1, <1>2, <1>3, PTL DEF SearchOrder

-----------------------------------------------------------------------------
(* The legs of a merged tensor are those its members do not share.         *)

\* LegsLeft without counting: exactly one tensor in S has the leg.
LEMMA OneHolder ==
  ASSUME NEW s, NEW S, IsFiniteSet(S)
  PROVE  \A l : l \in LegsLeft(s, S) <=>
                  \E i \in S : /\ l \in ToSet(s.nodes[i].legs)
                               /\ \A j \in S : j # i => l \notin ToSet(s.nodes[j].legs)
<1> DEFINE H(l) == {i \in S : l \in ToSet(s.nodes[i].legs)}
<1>1. \A l : IsFiniteSet(H(l))
  BY FS_Subset
<1>2. \A l : Cardinality(H(l)) = 1 <=> \E i : H(l) = {i}
  BY <1>1, FS_Singleton
<1>3. \A l : l \in LegsLeft(s, S) <=>
               (\E i \in S : l \in ToSet(s.nodes[i].legs)) /\ Cardinality(H(l)) = 1
  BY DEF LegsLeft
<1>4. \A l, i : H(l) = {i} <=> /\ i \in S /\ l \in ToSet(s.nodes[i].legs)
                               /\ \A j \in S : j # i => l \notin ToSet(s.nodes[j].legs)
  OBVIOUS
<1>5. ASSUME NEW l
      PROVE  l \in LegsLeft(s, S) <=>
               \E i \in S : /\ l \in ToSet(s.nodes[i].legs)
                            /\ \A j \in S : j # i => l \notin ToSet(s.nodes[j].legs)
  <2> HIDE DEF H
  <2>1. ASSUME l \in LegsLeft(s, S)
        PROVE  \E i \in S : /\ l \in ToSet(s.nodes[i].legs)
                            /\ \A j \in S : j # i => l \notin ToSet(s.nodes[j].legs)
    <3>1. PICK i : H(l) = {i}
      BY <1>2, <1>3, <2>1
    <3> QED BY <1>4, <3>1
  <2>2. ASSUME NEW i \in S, l \in ToSet(s.nodes[i].legs),
               \A j \in S : j # i => l \notin ToSet(s.nodes[j].legs)
        PROVE  l \in LegsLeft(s, S)
    <3>1. H(l) = {i}
      BY <1>4, <2>2
    <3> QED BY <1>2, <1>3, <2>2, <3>1
  <2> QED BY <2>1, <2>2
<1> QED BY <1>5

LEMMA ContractedLegs ==
  ASSUME NEW L, NEW a, a.legs \in Seq(L \X Nat), NEW b, b.legs \in Seq(L \X Nat)
  PROVE  \A l : l \in ToSet(PContract(a, b).legs) <=>
                  /\ l \in ToSet(a.legs) \/ l \in ToSet(b.legs)
                  /\ l[1] \notin Common(a, b)
<1> DEFINE C == Common(a, b)
<1>0. a.legs \in Seq(L \X Nat) /\ b.legs \in Seq(L \X Nat)
  OBVIOUS
<1>1. /\ Without(a, C) \in Seq(L \X Nat)
      /\ \A l : l \in ToSet(Without(a, C)) <=> l \in ToSet(a.legs) /\ l[1] \notin C
  <2> HIDE DEF C
  <2> QED BY <1>0, WithoutIs
<1>2. /\ Without(b, C) \in Seq(L \X Nat)
      /\ \A l : l \in ToSet(Without(b, C)) <=> l \in ToSet(b.legs) /\ l[1] \notin C
  <2> HIDE DEF C
  <2> QED BY <1>0, WithoutIs
<1>3. PContract(a, b).legs = Without(a, C) \o Without(b, C)
  BY DEF PContract
<1> HIDE DEF C
<1>4. ToSet(Without(a, C) \o Without(b, C)) = ToSet(Without(a, C)) \cup ToSet(Without(b, C))
  BY <1>1, <1>2, ConcatDistinct
<1>5. \A l : l \in ToSet(PContract(a, b).legs) <=>
               (l \in ToSet(a.legs) \/ l \in ToSet(b.legs)) /\ l[1] \notin C
  BY <1>1, <1>2, <1>3, <1>4
<1> QED BY <1>5 DEF C

\* pContract on two tensors of a diagram that have no member in common.
LEMMA LegsJoined ==
  ASSUME NEW s, IsDiagram(s), s.base \in Nat,
         NEW S, S \subseteq 1..s.base, NEW T, T \subseteq 1..s.base, S \cap T = {},
         NEW L, NEW K,
         NEW a \in PseudoUniTensors(L, K), ToSet(a.legs) = LegsLeft(s, S),
         NEW b \in PseudoUniTensors(L, K), ToSet(b.legs) = LegsLeft(s, T)
  PROVE  ToSet(PContract(a, b).legs) = LegsLeft(s, S \cup T)
<1> DEFINE C == Common(a, b)
           U == S \cup T
           Has(i, l) == l \in ToSet(s.nodes[i].legs)
           One(V, l) == \E i \in V : Has(i, l) /\ \A j \in V : j # i => ~Has(j, l)
<1>1. \A l : l \in ToSet(PContract(a, b).legs) <=>
               (l \in LegsLeft(s, S) \/ l \in LegsLeft(s, T)) /\ l[1] \notin C
  <2>1. a.legs \in Seq(L \X Nat) /\ b.legs \in Seq(L \X Nat)
    BY DEF PseudoUniTensors
  <2>2. ToSet(a.legs) = LegsLeft(s, S) /\ ToSet(b.legs) = LegsLeft(s, T)
    OBVIOUS
  <2>3. \A l : l \in ToSet(PContract(a, b).legs) <=>
                 (l \in ToSet(a.legs) \/ l \in ToSet(b.legs)) /\ l[1] \notin C
    BY <2>1, ContractedLegs
  <2> QED BY <2>2, <2>3
<1>2. IsFiniteSet(S) /\ IsFiniteSet(T) /\ IsFiniteSet(U)
  <2>1. IsFiniteSet(1..s.base)
    <3>1. \A n \in Nat : IsFiniteSet(1..n)
      BY FS_Interval
    <3> QED BY <3>1
  <2> QED BY <2>1, FS_Subset
<1>3. /\ \A l : l \in LegsLeft(s, S) <=> One(S, l)
      /\ \A l : l \in LegsLeft(s, T) <=> One(T, l)
      /\ \A l : l \in LegsLeft(s, U) <=> One(U, l)
  <2>1. ASSUME NEW V, IsFiniteSet(V) PROVE \A l : l \in LegsLeft(s, V) <=> One(V, l)
    BY <2>1, OneHolder
  <2> HIDE DEF One, U
  <2> QED BY <1>2, <2>1
<1>4. \A c : c \in C <=> /\ \E x : One(S, x) /\ c = x[1]
                         /\ \E y : One(T, y) /\ c = y[1]
  <2>1. \A c : c \in C <=> /\ \E x \in LegsLeft(s, S) : c = x[1]
                           /\ \E y \in LegsLeft(s, T) : c = y[1]
    BY DEF Common, LabelsOf
  <2> HIDE DEF One, C
  <2> QED BY <1>3, <2>1
<1>5. \A i, j \in 1..s.base : \A x, y : Has(i, x) /\ Has(j, y) /\ x[1] = y[1] => x = y
  BY DEF IsDiagram
<1>6. \A i, j, k \in 1..s.base : i # j /\ k # i /\ k # j =>
        \A l : Has(i, l) /\ Has(j, l) => ~Has(k, l)
  <2>1. SUFFICES ASSUME NEW i \in 1..s.base, NEW j \in 1..s.base, NEW k \in 1..s.base,
                        i # j, k # i, k # j, NEW l, Has(i, l), Has(j, l), Has(k, l)
                 PROVE  FALSE
    OBVIOUS
  <2>2. Common(s.nodes[i], s.nodes[j]) \cap LabelsOf(s.nodes[k]) = {}
    BY <2>1 DEF IsDiagram
  <2> QED BY <2>1, <2>2 DEF Common, LabelsOf
<1> HIDE DEF C, U, Has
<1>7. \A i \in U : i \in 1..s.base /\ (i \in S \/ i \in T) /\ ~(i \in S /\ i \in T)
  BY DEF U
<1>8. \A i : i \in S \/ i \in T => i \in U
  BY DEF U
<1>9. ASSUME NEW l, One(U, l)
      PROVE  (One(S, l) \/ One(T, l)) /\ l[1] \notin C
  <2>1. PICK i \in U : Has(i, l) /\ \A j \in U : j # i => ~Has(j, l)
    BY <1>9
  <2>2. i \in S => One(S, l)
    BY <1>8, <2>1
  <2>3. i \in T => One(T, l)
    BY <1>8, <2>1
  <2>4. ASSUME l[1] \in C PROVE FALSE
    <3>1. PICK x, y : One(S, x) /\ l[1] = x[1] /\ One(T, y) /\ l[1] = y[1]
      BY <1>4, <2>4
    <3>2. PICK j \in S : Has(j, x)
      BY <3>1
    <3>3. PICK k \in T : Has(k, y)
      BY <3>1
    <3>4. j \in U /\ k \in U /\ j # k
      BY <1>7, <1>8
    <3>5. x = l /\ y = l
      BY <1>5, <1>7, <2>1, <3>1, <3>2, <3>3, <3>4
    <3> QED BY <2>1, <3>2, <3>3, <3>4, <3>5
  <2> QED BY <1>7, <2>1, <2>2, <2>3, <2>4
<1>10. ASSUME NEW V, NEW W, V \cup W = U, V \cap W = {},
              \A c : c \in C <=> (\E x : One(V, x) /\ c = x[1]) /\ (\E y : One(W, y) /\ c = y[1]),
              NEW l, One(V, l), l[1] \notin C
       PROVE  One(U, l)
  <2>1. PICK i \in V : Has(i, l) /\ \A j \in V : j # i => ~Has(j, l)
    BY <1>10
  <2>2. i \in U /\ \A j \in U : j \in V \/ j \in W
    BY <1>10
  <2>3. ASSUME NEW j \in W, Has(j, l) PROVE FALSE
    <3>1. j \in U /\ i # j /\ \A k \in W : k \in U /\ k # i
      BY <1>10
    <3>2. \A k \in W : k # j => ~Has(k, l)
      BY <1>6, <1>7, <2>1, <2>2, <2>3, <3>1
    <3>3. One(W, l)
      BY <2>3, <3>2
    <3> HIDE DEF One
    <3> QED BY <1>10, <3>3
  <2>4. \A j \in U : j # i => ~Has(j, l)
    BY <2>1, <2>2, <2>3
  <2> QED BY <2>1, <2>2, <2>4
<1>11. ASSUME NEW l, One(S, l) \/ One(T, l), l[1] \notin C
       PROVE  One(U, l)
  <2>1. S \cup T = U /\ T \cup S = U /\ T \cap S = {}
    BY DEF U
  <2>2. \A c : c \in C <=> (\E x : One(T, x) /\ c = x[1]) /\ (\E y : One(S, y) /\ c = y[1])
    <3> HIDE DEF One
    <3> QED BY <1>4
  <2> HIDE DEF One
  <2> QED BY <1>4, <1>10, <1>11, <2>1, <2>2
<1> HIDE DEF One
<1> QED BY <1>1, <1>3, <1>9, <1>11 DEF U

\* The part of the invariant about legs: the tensors searched for stay the
\* first nodes, and every node that is left has the legs its members leave.
LegInv(s) ==
  /\ s.base <= Len(s.nodes)
  /\ IsDiagram(s) =>
       \A i \in ToSet(Pool(s)) : ToSet(s.nodes[i].legs) = LegsLeft(s, s.nodes[i].id)

LEMMA SameDiagram ==
  ASSUME NEW s, NEW t, t.base = s.base, \A k \in 1..s.base : t.nodes[k] = s.nodes[k], IsDiagram(s)
  PROVE  IsDiagram(t)
<1> DEFINE B == 1..s.base
<1>1. /\ \A i, j \in B : \A x \in ToSet(s.nodes[i].legs), y \in ToSet(s.nodes[j].legs) :
            x[1] = y[1] => x = y
      /\ \A i, j \in B : i # j =>
            \A k \in B \ {i, j} : Common(s.nodes[i], s.nodes[j]) \cap LabelsOf(s.nodes[k]) = {}
  BY DEF IsDiagram
<1>2. \A k \in B : t.nodes[k] = s.nodes[k]
  OBVIOUS
<1>3. t.base = s.base
  OBVIOUS
<1> HIDE DEF B
<1>4. \A i, j \in B : \A x \in ToSet(t.nodes[i].legs), y \in ToSet(t.nodes[j].legs) :
        x[1] = y[1] => x = y
  BY <1>1, <1>2
<1>5. \A i, j \in B : i # j =>
        \A k \in B \ {i, j} : Common(t.nodes[i], t.nodes[j]) \cap LabelsOf(t.nodes[k]) = {}
  BY <1>1, <1>2
<1> QED BY <1>3, <1>4, <1>5 DEF IsDiagram, B

LEMMA SameTensors ==
  ASSUME NEW s, NEW t, t.base = s.base, \A k \in 1..s.base : t.nodes[k] = s.nodes[k]
  PROVE  /\ IsDiagram(t) <=> IsDiagram(s)
         /\ \A S : S \subseteq 1..s.base => LegsLeft(t, S) = LegsLeft(s, S)
<1>1. IsDiagram(t) <=> IsDiagram(s)
  <2>1. s.base = t.base /\ \A k \in 1..t.base : s.nodes[k] = t.nodes[k]
    OBVIOUS
  <2> QED BY <2>1, SameDiagram
<1>2. ASSUME NEW S, S \subseteq 1..s.base
      PROVE  LegsLeft(t, S) = LegsLeft(s, S)
  <2>1. \A i \in S : t.nodes[i] = s.nodes[i]
    BY <1>2
  <2>2. UNION {ToSet(t.nodes[i].legs) : i \in S} = UNION {ToSet(s.nodes[i].legs) : i \in S}
    BY <2>1
  <2>3. \A l : {i \in S : l \in ToSet(t.nodes[i].legs)} = {i \in S : l \in ToSet(s.nodes[i].legs)}
    BY <2>1
  <2> QED BY <2>2, <2>3 DEF LegsLeft
<1> QED BY <1>1, <1>2

LEMMA LegsKept ==
  ASSUME NEW L, NEW K, NEW s \in SearchStates(L, K), LeftOnce(s), Parted(s), LegInv(s),
         NEW t, NoNewNode(s, t) \/ OneNewNode(s, t)
  PROVE  LegInv(t)
<1> DEFINE n == Len(s.nodes)
           I == ToSet(Pool(s))
           J == ToSet(Pool(t))
<1>1. /\ n \in Nat /\ s.base \in Nat /\ s.base <= n /\ s.nodes \in Seq(PseudoUniTensors(L, K))
      /\ I \subseteq 1..n
  BY StateIs DEF LegInv, LeftOnce
<1>2. t.base = s.base /\ s.base <= Len(t.nodes) /\ \A k \in 1..n : t.nodes[k] = s.nodes[k]
  <2>1. CASE NoNewNode(s, t)
    BY <1>1, <2>1 DEF NoNewNode
  <2>2. CASE OneNewNode(s, t)
    BY <1>1, <2>2 DEF OneNewNode
  <2> QED BY <2>1, <2>2
<1>3. \A k \in 1..s.base : t.nodes[k] = s.nodes[k]
  BY <1>1, <1>2
<1>4. /\ IsDiagram(t) <=> IsDiagram(s)
      /\ \A S : S \subseteq 1..s.base => LegsLeft(t, S) = LegsLeft(s, S)
  BY <1>2, <1>3, SameTensors
<1>5. SUFFICES ASSUME IsDiagram(s)
               PROVE  \A i \in J : ToSet(t.nodes[i].legs) = LegsLeft(t, t.nodes[i].id)
  BY <1>2, <1>4 DEF LegInv
<1>6. \A i \in I : /\ s.nodes[i].id \subseteq 1..s.base
                   /\ ToSet(s.nodes[i].legs) = LegsLeft(s, s.nodes[i].id)
  BY <1>5 DEF LegInv, Parted
<1> HIDE DEF n, I, J
<1>7. \A i \in I : ToSet(t.nodes[i].legs) = LegsLeft(t, t.nodes[i].id)
  BY <1>1, <1>2, <1>4, <1>6
<1>8. CASE NoNewNode(s, t)
  BY <1>7, <1>8 DEF NoNewNode, I, J
<1>9. CASE OneNewNode(s, t)
  <2>1. PICK i \in I, j \in I :
          /\ i # j /\ t.nodes[n + 1] = PContract(s.nodes[i], s.nodes[j])
          /\ J = (I \ {i, j}) \cup {n + 1}
    BY <1>9 DEF OneNewNode, n, I, J
  <2> DEFINE a == s.nodes[i]
             b == s.nodes[j]
             c == PContract(a, b)
  <2>2. a \in PseudoUniTensors(L, K) /\ b \in PseudoUniTensors(L, K)
    BY <1>1 DEF n
  <2> HIDE DEF a, b, c
  <2>4. /\ a.id \subseteq 1..s.base /\ b.id \subseteq 1..s.base /\ a.id \cap b.id = {}
        /\ ToSet(a.legs) = LegsLeft(s, a.id) /\ ToSet(b.legs) = LegsLeft(s, b.id)
    BY <1>6, <2>1 DEF Parted, a, b, I
  <2>5. ToSet(c.legs) = LegsLeft(s, a.id \cup b.id)
    <3>1. IsDiagram(s) /\ s.base \in Nat
      BY <1>1, <1>5
    <3>2. ToSet(PContract(a, b).legs) = LegsLeft(s, a.id \cup b.id)
      BY <2>2, <2>4, <3>1, LegsJoined
    <3> QED BY <3>2 DEF c
  <2>6. c.id = a.id \cup b.id
    <3>1. c.id = SymDiff(a.id, b.id)
      BY DEF PContract, c
    <3> QED BY <2>4, <3>1 DEF SymDiff
  <2>7. t.nodes[n + 1] = c
    BY <2>1 DEF a, b, c
  <2>8. ToSet(t.nodes[n + 1].legs) = LegsLeft(t, t.nodes[n + 1].id)
    <3>1. a.id \cup b.id \subseteq 1..s.base
      BY <2>4
    <3> QED BY <1>4, <2>5, <2>6, <2>7, <3>1
  <2> QED BY <1>7, <2>1, <2>8
<1> QED BY <1>8, <1>9

LEMMA LegsStart ==
  ASSUME NEW L, NEW K, NEW tensors \in Seq(PseudoUniTensors(L, K)),
         NEW t, t = Searching(tensors), t.phase \in {"pairs", "combine", "done"}
  PROVE  LegInv(t)
<1> DEFINE n == Len(tensors)
           nodes == [i \in DOMAIN tensors |-> [tensors[i] EXCEPT !.id = {i}]]
           P == PseudoUniTensors(L, K)
<1>1. t.nodes = nodes /\ t.base = n
  BY DEF Searching, Idle
<1>2. n \in Nat /\ DOMAIN tensors = 1..n /\ \A i \in 1..n : tensors[i] \in P
  BY ListFacts
<1>3. Len(nodes) = n
  BY <1>2
<1>4. \A i \in 1..n : nodes[i].id = {i}
  BY <1>2 DEF PseudoUniTensors
<1>5. ToSet(Pool(t)) \subseteq 1..n
  <2>1. Sought(t, L, K)
    BY SearchStarts
  <2> QED BY <1>1, <1>3, <2>1 DEF Sought, LeftOnce
<1> HIDE DEF n, nodes
<1>6. \A i \in 1..n : ToSet(nodes[i].legs) = LegsLeft(t, {i})
  <2>1. SUFFICES ASSUME NEW i \in 1..n
                 PROVE  ToSet(nodes[i].legs) = LegsLeft(t, {i})
    OBVIOUS
  <2>2. IsFiniteSet({i})
    BY FS_Singleton
  <2>3. \A l : l \in LegsLeft(t, {i}) <=> l \in ToSet(t.nodes[i].legs)
    BY <2>2, OneHolder
  <2> QED BY <1>1, <2>3
<1> QED BY <1>1, <1>2, <1>3, <1>4, <1>5, <1>6 DEF LegInv

\* The invariant of both properties.
SearchLegsInv(L, K) == SearchInv(L, K) /\ (Running => LegInv(search))

LEMMA LegsStepKeeps ==
  ASSUME NEW L, NEW K, Punctuated(K), SearchLegsInv(L, K), SolveStep
  PROVE  SearchLegsInv(L, K)'
<1>1. SearchInv(L, K) /\ Punctuated(K) /\ (Running => LegInv(search))
  BY DEF SearchLegsInv
<1>2. SearchInv(L, K)'
  BY <1>1, StepKeeps
<1>3. Running
  BY DEF SolveStep, ContractPair, PairThrows, FinishComponent,
         CombineComponents, FinishSearch, Running
<1>4. Running' => NoNewNode(search, search') \/ OneNewNode(search, search')
  BY <1>1, StepKeeps
<1>5. ASSUME Running' PROVE LegInv(search')
  <2>1. search \in SearchStates(L, K) /\ LeftOnce(search) /\ Parted(search) /\ LegInv(search)
    BY <1>1, <1>3 DEF SearchInv
  <2> QED BY <1>4, <1>5, <2>1, LegsKept
<1> QED BY <1>2, <1>5 DEF SearchLegsInv

LEMMA LegsAre ==
  ASSUME NEW L, NEW K, SearchLegsInv(L, K)
  PROVE  LegsOfMembers
<1> SUFFICES ASSUME Running, IsDiagram(search), NEW t \in Waiting
             PROVE  ToSet(t.legs) = LegsLeft(search, t.id)
  BY DEF LegsOfMembers
<1>1. search \in SearchStates(L, K) /\ LegInv(search)
  BY DEF SearchInv, SearchLegsInv
<1>2. ToSet(Pool(search)) = ToSet(search.rest) \cup ToSet(FlattenSeq(search.todo))
  BY <1>1, LeftIs
<1>3. PICK i \in ToSet(Pool(search)) : t = search.nodes[i]
  BY <1>2 DEF Waiting
<1> QED BY <1>1, <1>3 DEF LegInv

\* The search on a diagram: at every step the legs of a tensor still to be
\* contracted are those of its members that no other member shares.
THEOREM SearchKeepsLegs ==
  ASSUME NEW L, NEW K, Punctuated(K), NEW tensors \in Seq(PseudoUniTensors(L, K))
  PROVE  SearchOrder(tensors) => []LegsOfMembers
<1>1. search = Searching(tensors) => SearchLegsInv(L, K)
  BY SearchStarts, LegsStart DEF SearchInv, SearchLegsInv, Sought, Running
<1>2. SearchLegsInv(L, K) /\ [SolveStep]_search => SearchLegsInv(L, K)'
  BY LegsStepKeeps DEF SearchLegsInv, SearchInv, Running
<1>3. SearchLegsInv(L, K) => LegsOfMembers
  BY LegsAre
<1> QED BY <1>1, <1>2, <1>3, PTL DEF SearchOrder
=============================================================================
