----------------------------- MODULE Induction -----------------------------
(***************************************************************************)
(* Induction over numbers and over lists, and the existence of functions   *)
(* that are defined by recursion, stated with sets in the place of         *)
(* predicates, and lists with an entry taken out: what the proofs about    *)
(* the products of shapes and the sums of degeneracies rest on.            *)
(***************************************************************************)
EXTENDS Integers, SequencesExt, SequenceTheorems, WellFoundedInduction, TLAPS

\* A set of natural numbers has a least one.
LEMMA LeastNumber ==
  ASSUME NEW T, T \subseteq Nat, T # {}
  PROVE  \E x \in T : \A y \in T : x <= y
<1> DEFINE R == OpToRel(<, Nat)
<1>1. IsWellFoundedOn(R, Nat)
  BY NatLessThanWellFounded, Zenon
<1>2. R = {ss \in Nat \X Nat : ss[1] < ss[2]}
  BY Zenon DEF OpToRel
<1> HIDE DEF R
<1>3. PICK x \in T : \A y \in T : ~(<<y, x>> \in R)
  BY <1>1, WFMin
<1>4. \A y \in T : ~(y < x)
  BY <1>2, <1>3
<1>5. \A y \in T : x <= y
  BY <1>4
<1> QED BY <1>5

\* Induction over the natural numbers: the least number outside S would have a
\* predecessor in S.
LEMMA NatInduct ==
  ASSUME NEW S, 0 \in S, \A n \in Nat : n \in S => n + 1 \in S
  PROVE  Nat \subseteq S
<1> DEFINE T == Nat \ S
<1>1. SUFFICES ASSUME T # {} PROVE FALSE
  OBVIOUS
<1>2. T \subseteq Nat
  OBVIOUS
<1> HIDE DEF T
<1>3. PICK x \in T : \A y \in T : x <= y
  BY <1>1, <1>2, LeastNumber
<1>4. x # 0 /\ x \in Nat
  BY DEF T
<1>5. x - 1 \in Nat /\ (x - 1) + 1 = x /\ ~(x <= x - 1)
  BY <1>4
<1>6. x - 1 \in S
  BY <1>3, <1>5 DEF T
<1> QED BY <1>5, <1>6 DEF T

\* Induction over the lists of elements of X.
LEMMA ListInduct ==
  ASSUME NEW X, NEW S, <<>> \in S,
         \A s \in Seq(X), x \in X : s \in S => Append(s, x) \in S
  PROVE  Seq(X) \subseteq S
<1> DEFINE N == {n \in Nat : \A s \in Seq(X) : Len(s) = n => s \in S}
<1>1. 0 \in N
  <2>1. \A s \in Seq(X) : Len(s) = 0 => s = <<>>
    OBVIOUS
  <2> QED BY <2>1
<1>2. ASSUME NEW n \in Nat, n \in N
      PROVE  n + 1 \in N
  <2>1. ASSUME NEW s \in Seq(X), Len(s) = n + 1
        PROVE  s \in S
    <3> DEFINE t == SubSeq(s, 1, n)
    <3>1. t \in Seq(X) /\ Len(t) = n /\ s[n + 1] \in X
      BY <2>1
    <3>2. s = Append(t, s[n + 1])
      BY <2>1
    <3>3. t \in S
      BY <1>2, <3>1
    <3> HIDE DEF t
    <3> QED BY <3>1, <3>2, <3>3
  <2> QED BY <2>1
<1>3. Nat \subseteq N
  <2> HIDE DEF N
  <2> QED BY <1>1, <1>2, NatInduct
<1>4. \A s \in Seq(X) : Len(s) \in N
  BY <1>3
<1> QED BY <1>4

\* f takes the values of a recursion: v0 first, the i-th from the one before by
\* step[i].
Unfolds(f, n, v0, step) ==
  /\ f[0] = v0
  /\ \A i \in 1..n : f[i] = step[i][f[i - 1]]

\* Every recursion over 0..n has such a function.
LEMMA Recursion ==
  ASSUME NEW n \in Nat, NEW V, NEW v0 \in V, NEW step \in [1..n -> [V -> V]]
  PROVE  \E f \in [0..n -> V] : Unfolds(f, n, v0, step)
<1> DEFINE Good(k, f) == f[0] = v0 /\ \A i \in 1..k : f[i] = step[i][f[i - 1]]
           S == {k \in Nat : k <= n => \E f \in [0..k -> V] : Good(k, f)}
<1>1. 0 \in S
  <2>1. Good(0, [i \in 0..0 |-> v0])
    OBVIOUS
  <2> QED BY <2>1
<1>2. ASSUME NEW k \in Nat, k + 1 <= n, NEW f \in [0..k -> V], Good(k, f)
      PROVE  \E g \in [0..(k + 1) -> V] : Good(k + 1, g)
  <2> DEFINE g == [i \in 0..(k + 1) |->
                     IF i = k + 1 THEN step[k + 1][f[k]] ELSE f[i]]
  <2>1. step[k + 1][f[k]] \in V
    BY <1>2
  <2>2. g \in [0..(k + 1) -> V]
    BY <2>1
  <2>3. ASSUME NEW i \in 1..(k + 1) PROVE g[i] = step[i][g[i - 1]]
    BY <1>2
  <2>4. g[0] = v0
    BY <1>2
  <2> QED BY <2>2, <2>3, <2>4
<1>3. \A k \in Nat : k \in S => k + 1 \in S
  <2> HIDE DEF Good
  <2>1. SUFFICES ASSUME NEW k \in Nat, k \in S, k + 1 <= n PROVE k + 1 \in S
    OBVIOUS
  <2>2. PICK f \in [0..k -> V] : Good(k, f)
    BY <2>1
  <2> QED BY <1>2, <2>1, <2>2
<1>4. n \in S
  <2> HIDE DEF S
  <2> QED BY <1>1, <1>3, NatInduct
<1> QED BY <1>4 DEF Unfolds

-----------------------------------------------------------------------------
(* Lists with one entry taken out.                                         *)

LEMMA RemoveAtIs ==
  ASSUME NEW X, NEW s \in Seq(X), NEW i \in 1..Len(s)
  PROVE  /\ RemoveAt(s, i) \in Seq(X)
         /\ Len(RemoveAt(s, i)) = Len(s) - 1
         /\ \A j \in 1..(Len(s) - 1) :
              RemoveAt(s, i)[j] = IF j < i THEN s[j] ELSE s[j + 1]
<1> DEFINE l == SubSeq(s, 1, i - 1)
           r == SubSeq(s, i + 1, Len(s))
<1>1. /\ l \in Seq(X) /\ Len(l) = i - 1
      /\ \A j \in 1..(i - 1) : l[j] = s[j]
  OBVIOUS
<1>2. /\ r \in Seq(X) /\ Len(r) = Len(s) - i
      /\ \A j \in 1..(Len(s) - i) : r[j] = s[j + i]
  OBVIOUS
<1>3. RemoveAt(s, i) = l \o r
  BY DEF RemoveAt
<1> HIDE DEF l, r
<1>4. /\ l \o r \in Seq(X) /\ Len(l \o r) = Len(l) + Len(r)
      /\ \A j \in 1..(Len(l) + Len(r)) :
            (l \o r)[j] = IF j <= Len(l) THEN l[j] ELSE r[j - Len(l)]
  BY <1>1, <1>2, ConcatProperties
<1>5. ASSUME NEW j \in 1..(Len(s) - 1)
      PROVE  (l \o r)[j] = IF j < i THEN s[j] ELSE s[j + 1]
  <2>1. j \in 1..(Len(l) + Len(r))
    BY <1>1, <1>2
  <2>2. CASE j < i
    BY <1>1, <1>4, <2>1, <2>2
  <2>3. CASE ~(j < i)
    <3>1. j - Len(l) \in 1..(Len(s) - i) /\ (j - Len(l)) + i = j + 1
      BY <1>1, <2>3
    <3>2. ~(j <= Len(l))
      BY <1>1, <2>3
    <3>3. (l \o r)[j] = r[j - Len(l)]
      BY <1>4, <2>1, <3>2
    <3>4. r[j - Len(l)] = s[(j - Len(l)) + i]
      BY <1>2, <3>1
    <3> QED BY <2>3, <3>1, <3>3, <3>4
  <2> QED BY <2>2, <2>3
<1> QED BY <1>1, <1>2, <1>3, <1>4, <1>5

\* The last entry, taken out of a list one longer.
LEMMA RemoveLast ==
  ASSUME NEW X, NEW s \in Seq(X), NEW x \in X
  PROVE  RemoveAt(Append(s, x), Len(s) + 1) = s
<1> DEFINE t == Append(s, x)
           r == RemoveAt(t, Len(s) + 1)
<1>1. t \in Seq(X) /\ Len(t) = Len(s) + 1 /\ \A i \in 1..Len(s) : t[i] = s[i]
  OBVIOUS
<1> HIDE DEF t
<1>2. /\ r \in Seq(X) /\ Len(r) = Len(s)
      /\ \A j \in 1..Len(s) : r[j] = s[j]
  <2>1. Len(s) + 1 \in 1..Len(t) /\ Len(t) - 1 = Len(s)
    BY <1>1
  <2>2. /\ r \in Seq(X) /\ Len(r) = Len(t) - 1
        /\ \A j \in 1..(Len(t) - 1) :
             r[j] = IF j < Len(s) + 1 THEN t[j] ELSE t[j + 1]
    BY <1>1, <2>1, RemoveAtIs
  <2> QED BY <1>1, <2>1, <2>2
<1> HIDE DEF r
<1>3. r = s
  BY <1>2, SeqEqual
<1> QED BY <1>3 DEF r, t

\* Another entry, taken out of a list one longer.
LEMMA RemoveInner ==
  ASSUME NEW X, NEW s \in Seq(X), NEW x \in X, NEW i \in 1..Len(s)
  PROVE  RemoveAt(Append(s, x), i) = Append(RemoveAt(s, i), x)
<1> DEFINE t == Append(s, x)
           a == RemoveAt(t, i)
           r == RemoveAt(s, i)
           b == Append(r, x)
<1>1. /\ t \in Seq(X) /\ Len(t) = Len(s) + 1
      /\ \A j \in 1..Len(s) : t[j] = s[j]
      /\ t[Len(s) + 1] = x
  OBVIOUS
<1> HIDE DEF t
<1>2. /\ a \in Seq(X) /\ Len(a) = Len(s)
      /\ \A j \in 1..Len(s) : a[j] = IF j < i THEN t[j] ELSE t[j + 1]
  <2>1. i \in 1..Len(t) /\ Len(t) - 1 = Len(s)
    BY <1>1
  <2>2. /\ a \in Seq(X) /\ Len(a) = Len(t) - 1
        /\ \A j \in 1..(Len(t) - 1) : a[j] = IF j < i THEN t[j] ELSE t[j + 1]
    BY <1>1, <2>1, RemoveAtIs
  <2> QED BY <2>1, <2>2
<1>3. /\ r \in Seq(X) /\ Len(r) = Len(s) - 1
      /\ \A j \in 1..(Len(s) - 1) : r[j] = IF j < i THEN s[j] ELSE s[j + 1]
  BY RemoveAtIs
<1> HIDE DEF a, r
<1>4. /\ b \in Seq(X) /\ Len(b) = Len(s)
      /\ \A j \in 1..(Len(s) - 1) : b[j] = r[j]
      /\ b[Len(s)] = x
  BY <1>3
<1> HIDE DEF b
<1>5. ASSUME NEW j \in 1..Len(s) PROVE a[j] = b[j]
  <2>1. CASE j = Len(s)
    BY <1>1, <1>2, <1>4, <2>1
  <2>2. CASE j # Len(s)
    <3>1. j \in 1..(Len(s) - 1) /\ j + 1 \in 1..Len(s)
      BY <2>2
    <3> QED BY <1>1, <1>2, <1>3, <1>4, <3>1
  <2> QED BY <2>1, <2>2
<1>6. a = b
  BY <1>2, <1>4, <1>5, SeqEqual
<1> QED BY <1>6 DEF a, b, t, r
=============================================================================
