---------------------------- MODULE TensorProofs ----------------------------
(***************************************************************************)
(* What is proved of Tensor for every number of variables, ranks and       *)
(* shapes: type correctness, and that the maps of every intact tensor are  *)
(* inverse to one another and agree with its contiguous flag.              *)
(***************************************************************************)
EXTENDS Slicing, StridedProofs

\* Metadata, of a Tensor_impl that has a storage or of one that gets it next.
MetaRecords == [st : Stores \cup {None}, shape : Seq(Nat), mapper : Seq(Nat),
                inv : Seq(Nat), conti : BOOLEAN]

IInv == TypeOK /\ LayoutOK

-----------------------------------------------------------------------------
(* Sequences and maps.                                                     *)

\* A function on 1..n is a sequence of length n.
LEMMA FunctionSeq ==
  ASSUME NEW n \in Nat, NEW X, NEW f, f \in [1..n -> X]
  PROVE  f \in Seq(X) /\ Len(f) = n
<1>1. f \in Seq(X)
  OBVIOUS
<1> QED BY <1>1

\* The identity of rank n is a sequence of axes.
LEMMA IdentitySeq ==
  ASSUME NEW n \in Nat
  PROVE  /\ Identity(n) \in [1..n -> 1..n]
         /\ Identity(n) \in Seq(Nat) /\ Len(Identity(n)) = n
<1>1. Identity(n) \in [1..n -> 1..n]
  BY DEF Identity
<1>2. Identity(n) \in [1..n -> Nat]
  BY DEF Identity
<1> QED BY <1>1, <1>2, FunctionSeq

\* The loop of permute keeps a sequence of axes one, of the same length.
LEMMA ScatteredSeq ==
  ASSUME NEW inv \in Seq(Nat), NEW m, NEW n \in Nat
  PROVE  Scattered(inv, m, n) \in Seq(Nat) /\ Len(Scattered(inv, m, n)) = Len(inv)
<1>1. Scattered(inv, m, n) \in [1..Len(inv) -> Nat]
  <2>1. ASSUME NEW k \in 1..Len(inv), \E i \in 1..n : m[i] = k
        PROVE  (CHOOSE i \in 1..n : m[i] = k) \in Nat
    BY <2>1
  <2>2. \A k \in 1..Len(inv) : inv[k] \in Nat
    OBVIOUS
  <2> QED BY <2>1, <2>2 DEF Scattered
<1> QED BY <1>1, FunctionSeq

\* A metadata record on a storage.
LEMMA OnStore ==
  ASSUME NEW t \in MetaRecords, NEW s \in Stores
  PROVE  /\ [t EXCEPT !.st = s] \in ImplRecords
         /\ [t EXCEPT !.st = s].st = s
         /\ Laid(t) => Laid([t EXCEPT !.st = s])
BY DEF MetaRecords, ImplRecords, Laid

\* The metadata of a tensor made contiguous.
LEMMA PlainLaid ==
  ASSUME NEW shape \in Seq(Nat)
  PROVE  Plain(shape) \in MetaRecords /\ Laid(Plain(shape))
<1> DEFINE n == Len(shape)
           e == Identity(n)
<1>1. n \in Nat /\ e \in [1..n -> 1..n] /\ e \in Seq(Nat)
  BY IdentitySeq
<1>2. \A k \in 1..n : e[k] = k
  BY DEF Identity
<1>3. Plain(shape) = [st |-> None, shape |-> shape, mapper |-> e, inv |-> e,
                      conti |-> TRUE]
  BY DEF Plain
<1> HIDE DEF e
<1>4. Plain(shape) \in MetaRecords
  BY <1>1, <1>3 DEF MetaRecords
<1>5. Laid(Plain(shape))
  BY <1>1, <1>2, <1>3 DEF Laid, e
<1> QED BY <1>4, <1>5

LEMMA ContiLaid ==
  ASSUME NEW t \in ImplRecords, t.conti => Laid(t)
  PROVE  /\ ContiMeta(t) \in MetaRecords /\ Laid(ContiMeta(t))
         /\ ContiMeta(t).shape = t.shape
<1>1. CASE t.conti
  BY <1>1 DEF ContiMeta, ImplRecords, MetaRecords
<1>2. CASE ~t.conti
  <2>1. t.shape \in Seq(Nat) /\ t.st \in Stores
    BY DEF ImplRecords
  <2>2. Plain(t.shape) \in MetaRecords /\ Laid(Plain(t.shape))
    BY <2>1, PlainLaid
  <2>3. Plain(t.shape).shape = t.shape
    BY DEF Plain
  <2>4. ContiMeta(t) = [Plain(t.shape) EXCEPT !.st = t.st]
    BY <1>2 DEF ContiMeta
  <2> HIDE DEF Plain
  <2> QED
    BY <2>1, <2>2, <2>3, <2>4, OnStore DEF ImplRecords, MetaRecords
<1> QED BY <1>1, <1>2 DEF ImplRecords

\* An injective ranking of n axes reaches every axis.
LEMMA RankingOnto ==
  ASSUME NEW n \in Nat, NEW p \in [1..n -> 1..n], IsInjective(p)
  PROVE  \A k \in 1..n : \E i \in 1..n : p[i] = k
<1>1. IsFiniteSet(1..n)
  BY FS_Interval
<1>2. p \in Injection(1..n, 1..n)
  BY DEF Injection
<1>3. p \in Surjection(1..n, 1..n)
  BY <1>1, <1>2, FS_Injection
<1> QED BY <1>3 DEF Surjection

\* permute keeps the maps inverse to one another.
LEMMA PermutedLaid ==
  ASSUME NEW t \in MetaRecords, Laid(t),
         NEW p \in Seq(Nat \ {0}), IsInjective(p), Len(p) = Len(t.shape),
         \A i \in 1..Len(p) : p[i] <= Len(p)
  PROVE  Permuted(t, p) \in MetaRecords /\ Laid(Permuted(t, p))
<1> DEFINE n == Len(p)
           m == Compose(t.mapper, p)
           v == Scattered(t.inv, m, n)
           w == Compose(t.shape, p)
<1>1. n \in Nat /\ p \in [1..n -> 1..n]
  OBVIOUS
<1> HIDE DEF m, v, w
<1>2. \A k \in 1..n : \E i \in 1..n : p[i] = k
  BY <1>1, RankingOnto
<1>3. \A i, j \in 1..n : p[i] = p[j] => i = j
  BY <1>1 DEF IsInjective
<1>4. /\ t.mapper \in [1..n -> 1..n] /\ t.inv \in [1..n -> 1..n]
      /\ \A k \in 1..n : t.inv[t.mapper[k]] = k /\ t.mapper[t.inv[k]] = k
      /\ t.inv \in Seq(Nat) /\ Len(t.inv) = n
      /\ t.shape \in Seq(Nat) /\ Len(t.shape) = n
  <2>1. t.shape \in Seq(Nat) /\ t.inv \in Seq(Nat) /\ Len(t.shape) = n
    BY DEF MetaRecords
  <2>2. /\ t.mapper \in [1..n -> 1..n] /\ t.inv \in [1..n -> 1..n]
        /\ \A k \in 1..n : t.inv[t.mapper[k]] = k /\ t.mapper[t.inv[k]] = k
    BY DEF Laid
  <2>3. Len(t.inv) = n
    BY <1>1, <2>1, <2>2
  <2> QED BY <2>1, <2>2, <2>3
<1>5. /\ m \in [1..n -> 1..n]
      /\ \A i \in 1..n : m[i] = t.mapper[p[i]]
  BY <1>1, <1>4 DEF Compose, m
<1>6. \A i, j \in 1..n : m[i] = m[j] => i = j
  <2>1. \A i \in 1..n : t.inv[m[i]] = p[i]
    <3> TAKE i \in 1..n
    <3>1. p[i] \in 1..n
      BY <1>1
    <3>2. m[i] = t.mapper[p[i]]
      BY <1>5
    <3> QED BY <1>4, <3>1, <3>2
  <2> QED BY <1>3, <2>1
<1>7. \A k \in 1..n : \E i \in 1..n : m[i] = k
  <2> TAKE k \in 1..n
  <2>1. t.inv[k] \in 1..n
    BY <1>4
  <2>2. PICK i \in 1..n : p[i] = t.inv[k]
    BY <1>2, <2>1
  <2>3. m[i] = t.mapper[t.inv[k]]
    BY <1>5, <2>2
  <2>4. t.mapper[t.inv[k]] = k
    BY <1>4
  <2> QED BY <2>3, <2>4
<1>8. /\ v \in [1..n -> 1..n]
      /\ \A k \in 1..n : m[v[k]] = k
  <2>1. v = [k \in 1..n |-> CHOOSE i \in 1..n : m[i] = k]
    BY <1>4, <1>7 DEF Scattered, v
  <2>2. \A k \in 1..n : /\ (CHOOSE i \in 1..n : m[i] = k) \in 1..n
                        /\ m[CHOOSE i \in 1..n : m[i] = k] = k
    BY <1>7
  <2> QED BY <2>1, <2>2
<1>9. \A k \in 1..n : v[m[k]] = k
  <2> TAKE k \in 1..n
  <2>1. m[k] \in 1..n /\ v[m[k]] \in 1..n
    BY <1>5, <1>8
  <2>2. m[v[m[k]]] = m[k]
    BY <1>8, <2>1
  <2> QED BY <1>6, <2>1, <2>2
<1>10. w \in [1..n -> Nat]
  <2>1. ASSUME NEW k \in 1..n
        PROVE  t.shape[p[k]] \in Nat
    <3>1. p[k] \in 1..Len(t.shape)
      BY <1>1, <1>4
    <3>2. t.shape \in Seq(Nat)
      BY <1>4
    <3>3. \A i \in 1..Len(t.shape) : t.shape[i] \in Nat
      BY <3>2
    <3> QED BY <3>1, <3>3
  <2>2. w = [k \in 1..n |-> t.shape[p[k]]]
    BY DEF Compose, w
  <2> QED BY <2>1, <2>2
<1>11. /\ m \in Seq(Nat) /\ v \in Seq(Nat)
       /\ w \in Seq(Nat) /\ Len(w) = n
  <2>1. m \in [1..n -> Nat] /\ v \in [1..n -> Nat]
    BY <1>5, <1>8
  <2> QED BY <1>1, <1>10, <2>1, FunctionSeq
<1>12. Permuted(t, p) = [t EXCEPT !.shape = w, !.mapper = m, !.inv = v,
                                  !.conti = (m = Identity(n))]
  BY DEF Permuted, m, v, w
<1> HIDE DEF n
<1>13. Permuted(t, p) = [st |-> t.st, shape |-> w, mapper |-> m, inv |-> v,
                         conti |-> (m = Identity(n))]
  BY <1>12 DEF MetaRecords
<1>14. Permuted(t, p) \in MetaRecords
  <2>1. t.st \in Stores \cup {None}
    BY DEF MetaRecords
  <2> QED BY <1>11, <1>13, <2>1 DEF MetaRecords
<1>15. Laid(Permuted(t, p))
  <2> DEFINE q == Permuted(t, p)
  <2>1. q.mapper = m /\ q.inv = v /\ q.shape = w
    BY <1>13
  <2>3. Len(q.shape) = n
    BY <1>11, <2>1
  <2>4. q.conti = (m = Identity(n))
    BY <1>13
  <2> HIDE DEF q
  <2>5. /\ q.mapper \in [1..n -> 1..n] /\ q.inv \in [1..n -> 1..n]
        /\ \A k \in 1..n : q.inv[q.mapper[k]] = k /\ q.mapper[q.inv[k]] = k
    BY <1>5, <1>8, <1>9, <2>1
  <2>6. q.conti <=> q.mapper = Identity(n)
    BY <2>1, <2>4
  <2>7. Laid(q)
    BY <2>3, <2>5, <2>6, Zenon DEF Laid
  <2> QED BY <2>7 DEF q
<1> QED BY <1>14, <1>15

\* The shape reshape_ writes is one of natural numbers.
LEMMA SettledSeq ==
  ASSUME NEW ns \in NewShapes, NEW d \in Nat
  PROVE  Settled(ns, d) \in Seq(Nat)
<1>1. ns \in Seq(Int) /\ UMax \in Nat
  BY TensorAssumption
<1>2. Settled(ns, d) \in [1..Len(ns) -> Nat]
  <2>1. ASSUME NEW i \in 1..Len(ns)
        PROVE  Settled(ns, d)[i] \in Nat
    <3>1. ns[i] \in Int
      BY <1>1
    <3>2. CASE ns[i] >= 0
      BY <3>1, <3>2 DEF Settled
    <3>3. CASE ns[i] < 0 /\ \E j \in Undetermined(ns) : j > i
      BY <1>1, <3>1, <3>3 DEF Settled
    <3>4. CASE ns[i] < 0 /\ ~\E j \in Undetermined(ns) : j > i
      BY <3>1, <3>4 DEF Settled
    <3> QED BY <3>1, <3>2, <3>3, <3>4
  <2> QED BY <2>1 DEF Settled
<1> QED BY <1>1, <1>2, FunctionSeq

-----------------------------------------------------------------------------
(* Storages.                                                               *)

\* A Storage record, whatever its buffer holds.
Sized(o) == DOMAIN o = {"dt", "size", "mem"} /\ o.size \in Nat

\* Replacing the buffer replaces nothing else.
LEMMA SetBuffer ==
  ASSUME NEW o, Sized(o), NEW x
  PROVE  Sized([o EXCEPT !.mem = x]) /\ [o EXCEPT !.mem = x].size = o.size
BY DEF Sized

LEMMA ResizedSized ==
  ASSUME NEW o, Sized(o), NEW n \in Nat
  PROVE  Sized(Resized(o, n)) /\ Resized(o, n).size = n
<1>1. ASSUME NEW x
      PROVE  /\ Sized([o EXCEPT !.size = n, !.mem = x])
             /\ [o EXCEPT !.size = n, !.mem = x].size = n
  BY DEF Sized
<1>2. Sized([o EXCEPT !.size = n]) /\ [o EXCEPT !.size = n].size = n
  BY DEF Sized
<1>3. CASE n > Capacity(o)
  BY <1>1, <1>3 DEF Resized
<1>4. CASE ~(n > Capacity(o))
  BY <1>2, <1>4 DEF Resized
<1> QED BY <1>3, <1>4

LEMMA AppendedSized ==
  ASSUME NEW o, Sized(o), NEW v
  PROVE  Sized(Appended(o, v))
<1> DEFINE g == IF o.size = Capacity(o) THEN Resized(o, o.size + 1)
                ELSE [o EXCEPT !.size = @ + 1]
<1>1. o.size + 1 \in Nat
  BY DEF Sized
<1>2. Sized(Resized(o, o.size + 1))
  BY <1>1, ResizedSized
<1>3. Sized([o EXCEPT !.size = @ + 1])
  BY <1>1 DEF Sized
<1>4. Sized(g)
  BY <1>2, <1>3
<1>5. Appended(o, v) = [g EXCEPT !.mem = Write(g.mem, g.size, CastTo(o.dt, v))]
  BY DEF Appended
<1> HIDE DEF g
<1> QED BY <1>4, <1>5, SetBuffer

LEMMA ExtendedSized ==
  ASSUME NEW o, Sized(o), NEW n, o.size + n \in Nat, NEW mem
  PROVE  Sized(Extended(o, n, mem))
<1> DEFINE g == Resized(o, o.size + n)
           x == [k \in 1..Len(g.mem) |->
                   IF k > o.size /\ k <= o.size + n
                   THEN mem[k - o.size] ELSE g.mem[k]]
<1>1. Sized(g)
  BY ResizedSized
<1>2. Extended(o, n, mem) = [g EXCEPT !.mem = x]
  BY DEF Extended
<1> HIDE DEF g, x
<1> QED BY <1>1, <1>2, SetBuffer

LEMMA MovedSized ==
  ASSUME NEW t, NEW o, Sized(o)
  PROVE  /\ Sized(Moved(t, o)) /\ Moved(t, o).size = o.size
         /\ Sized(ContiStore(t, o)) /\ ContiStore(t, o).size = o.size
<1>1. Sized(Moved(t, o)) /\ Moved(t, o).size = o.size
  BY SetBuffer DEF Moved
<1> QED BY <1>1 DEF ContiStore

\* The operations that only write elements, and the constructors.
LEMMA WritesSized ==
  ASSUME NEW o, Sized(o), NEW k, NEW v
  PROVE  Sized(ItemSet(o, k, v)) /\ Sized(Filled(o, v)) /\ Sized(Cloned(o))
         /\ Cloned(o).size = o.size
BY SetBuffer DEF ItemSet, Filled, Cloned

LEMMA NewSized ==
  ASSUME NEW dt, NEW n \in Nat, NEW z, NEW v, Len(v) \in Nat
  PROVE  Sized(Blank(dt, n, z)) /\ Sized(FromVector(dt, v))
BY DEF Sized, Blank, FromVector

-----------------------------------------------------------------------------
(* The heap.                                                               *)

\* A commit of well-formed impls on well-formed storages keeps the invariant.
LEMMA CommitInv ==
  ASSUME NEW r, r \in [Handles -> Impls \cup {Void}], NEW im, NEW hp, NEW tn,
         \A i \in Live(r) : /\ im[i] \in ImplRecords
                            /\ Sized(hp[im[i].st])
                            /\ i \notin tn => Laid(im[i]),
         Commit(r, im, hp, tn)
  PROVE  IInv'
<1>1. ref' = r /\ Live(ref)' = Live(r)
  BY DEF Commit, Live
<1>2. Live(r) \subseteq Impls
  BY DEF Live
<1>3. \A i \in Impls : impl'[i] = IF i \in Live(r) THEN im[i] ELSE None
  BY DEF Commit
<1>4. Used' = {im[i].st : i \in Live(r)}
  BY <1>1, <1>2, <1>3 DEF Used
<1>5. \A s \in Stores : heap'[s] = IF s \in Used' THEN hp[s] ELSE None
  BY <1>4 DEF Commit
<1>6. \A s \in Used' : Sized(hp[s])
  BY <1>4
<1>7. torn' = tn \cap Live(r)
  BY DEF Commit
<1>8. TypeOK'
  <2>1. ref' \in [Handles -> Impls \cup {Void}]
    BY <1>1
  <2>2. DOMAIN impl' = Impls /\ DOMAIN heap' = Stores
    BY DEF Commit
  <2>3. \A i \in Impls : IF i \in Live(ref)' THEN impl'[i] \in ImplRecords
                                          ELSE impl'[i] = None
    BY <1>1, <1>3
  <2>4. \A s \in Stores : IF s \in Used' THEN Sized(heap'[s])
                                       ELSE heap'[s] = None
    BY <1>5, <1>6
  <2>5. torn' \subseteq Live(ref)'
    BY <1>1, <1>7
  <2> QED BY <2>1, <2>2, <2>3, <2>4, <2>5 DEF TypeOK, Sized
<1>9. LayoutOK'
  <2>1. ASSUME NEW i \in Live(r), i \notin tn
        PROVE  impl'[i] = im[i] /\ Laid(im[i])
    BY <1>2, <1>3, <2>1
  <2>2. Intact' = Live(r) \ tn
    BY <1>1, <1>7 DEF Intact
  <2>3. \A i \in Intact' : Laid(impl[i])'
    <3> TAKE i \in Intact'
    <3>1. impl'[i] = im[i] /\ Laid(im[i])
      BY <2>1, <2>2
    <3> QED BY <3>1 DEF Laid
  <2> QED BY <2>3 DEF LayoutOK
<1> QED BY <1>8, <1>9 DEF IInv

\* What a variable that is set refers to.
LEMMA Refers ==
  ASSUME IInv, NEW h \in Handles, ref[h] # Void
  PROVE  /\ ref[h] \in Live(ref) /\ ref[h] \in Impls
         /\ T(h) \in ImplRecords /\ T(h) \in MetaRecords /\ T(h).st \in Stores
         /\ Sized(S(h))
         /\ ref[h] \notin torn => Laid(T(h))
<1>1. ref[h] \in Live(ref) /\ ref[h] \in Impls
  BY DEF IInv, TypeOK, Live
<1>2. T(h) \in ImplRecords
  BY <1>1 DEF IInv, TypeOK, T
<1>3. T(h).st \in Stores /\ T(h) \in MetaRecords
  BY <1>2 DEF ImplRecords, MetaRecords
<1>4. T(h).st \in Used
  BY <1>1 DEF Used, T
<1>5. Sized(S(h))
  BY <1>3, <1>4 DEF IInv, TypeOK, S, Sized
<1>6. ref[h] \notin torn => Laid(T(h))
  BY <1>1 DEF IInv, LayoutOK, Intact, T
<1> QED BY <1>1, <1>2, <1>3, <1>5, <1>6

\* The impls and storages there are.
LEMMA Existing ==
  ASSUME IInv, NEW i \in Live(ref)
  PROVE  /\ i \in Impls /\ impl[i] \in ImplRecords /\ impl[i].st \in Stores
         /\ Sized(heap[impl[i].st])
         /\ i \notin torn => Laid(impl[i])
<1>1. PICK h \in Handles : i = ref[h] /\ ref[h] # Void
  BY DEF Live
<1> QED BY <1>1, Refers DEF T, S

\* A new impl on a well-formed storage.
LEMMA BindInv ==
  ASSUME IInv, NEW h \in Handles, NEW t \in MetaRecords, Laid(t),
         NEW s \in Stores, NEW o, Sized(o), Bind(h, t, s, o)
  PROVE  IInv'
<1>1. PICK i \in Impls \ Live(ref) :
        Commit([ref EXCEPT ![h] = i], [impl EXCEPT ![i] = [t EXCEPT !.st = s]],
               [heap EXCEPT ![s] = o], torn)
  BY DEF Bind
<1> DEFINE r  == [ref EXCEPT ![h] = i]
           x  == [t EXCEPT !.st = s]
           im == [impl EXCEPT ![i] = x]
           hp == [heap EXCEPT ![s] = o]
<1>2. r \in [Handles -> Impls \cup {Void}]
  BY DEF IInv, TypeOK
<1>3. x \in ImplRecords /\ x.st = s /\ Laid(x)
  BY OnStore
<1>4. \A j \in Live(r) : j = i \/ j \in Live(ref)
  BY DEF Live, IInv, TypeOK
<1> HIDE DEF x
<1>5. ASSUME NEW j \in Live(r)
      PROVE  im[j] \in ImplRecords /\ Sized(hp[im[j].st])
             /\ (j \notin torn => Laid(im[j]))
  <2>1. CASE j = i
    <3>1. im[j] = x
      BY <2>1 DEF IInv, TypeOK
    <3>2. hp[s] = o
      BY DEF IInv, TypeOK
    <3> QED BY <1>3, <3>1, <3>2
  <2>2. CASE j # i
    <3>1. j \in Live(ref)
      BY <1>4, <2>2
    <3>2. im[j] = impl[j]
      BY <2>2, <3>1, Existing DEF IInv, TypeOK
    <3>3. hp[impl[j].st] = heap[impl[j].st] \/ hp[impl[j].st] = o
      BY <3>1, Existing DEF IInv, TypeOK
    <3> QED BY <3>1, <3>2, <3>3, Existing
  <2> QED BY <2>1, <2>2
<1> HIDE DEF r, im, hp
<1> QED BY <1>1, <1>2, <1>5, CommitInv DEF r, im, hp, x

\* A change of one impl, on a well-formed storage.
LEMMA UpdateInv ==
  ASSUME IInv, NEW h \in Handles, ref[h] # Void, NEW t \in MetaRecords,
         NEW s \in Stores, NEW o, Sized(o), NEW tn,
         torn \ {ref[h]} \subseteq tn, ref[h] \notin tn => Laid(t),
         Update(h, t, s, o, tn)
  PROVE  IInv'
<1> DEFINE x  == [t EXCEPT !.st = s]
           im == [impl EXCEPT ![ref[h]] = x]
           hp == [heap EXCEPT ![s] = o]
<1>1. ref \in [Handles -> Impls \cup {Void}] /\ Commit(ref, im, hp, tn)
  BY DEF IInv, TypeOK, Update
<1>2. x \in ImplRecords /\ x.st = s /\ (ref[h] \notin tn => Laid(x))
  BY OnStore
<1> HIDE DEF x
<1>3. ASSUME NEW j \in Live(ref)
      PROVE  im[j] \in ImplRecords /\ Sized(hp[im[j].st])
             /\ (j \notin tn => Laid(im[j]))
  <2>1. CASE j = ref[h]
    <3>1. im[j] = x
      BY <2>1, Existing DEF IInv, TypeOK
    <3>2. hp[s] = o
      BY DEF IInv, TypeOK
    <3> QED BY <1>2, <2>1, <3>1, <3>2
  <2>2. CASE j # ref[h]
    <3>1. im[j] = impl[j]
      BY <2>2, Existing DEF IInv, TypeOK
    <3>2. hp[impl[j].st] = heap[impl[j].st] \/ hp[impl[j].st] = o
      BY Existing DEF IInv, TypeOK
    <3> QED BY <2>2, <3>1, <3>2, Existing
  <2> QED BY <2>1, <2>2
<1> HIDE DEF im, hp
<1> QED BY <1>1, <1>3, CommitInv

\* contiguous_ and a change of the impl.
LEMMA SettleInv ==
  ASSUME IInv, NEW h \in Handles, ref[h] # Void, NEW t \in MetaRecords,
         NEW o, Sized(o), NEW tn,
         torn \ {ref[h]} \subseteq tn, ref[h] \notin tn => Laid(t),
         Settle(h, t, o, tn)
  PROVE  IInv'
<1>1. PICK s \in IF T(h).conti THEN {T(h).st} ELSE Stores \ Used :
        Update(h, t, s, o, tn)
  BY DEF Settle
<1>2. s \in Stores
  BY Refers
<1> QED BY <1>1, <1>2, UpdateInv

-----------------------------------------------------------------------------
(* The invariant.                                                          *)

LEMMA InitInv == Init => IInv
<1> SUFFICES ASSUME Init PROVE IInv
  OBVIOUS
<1>1. Live(ref) = {}
  BY DEF Init, Live
<1>2. TypeOK
  BY <1>1 DEF Init, TypeOK, Used
<1>3. LayoutOK
  BY <1>1 DEF LayoutOK, Intact
<1> QED BY <1>2, <1>3 DEF IInv

\* Construction and copies.
LEMMA CopiesInv ==
  ASSUME IInv, NEW h \in Handles, NEW g \in Handles,
         \/ \E shape \in Shapes : Construct(h, shape)
         \/ \E n \in Sizes : FromVec(h, n)
         \/ FromStorage(h, g) \/ Assign(h, g) \/ Clone(h, g)
         \/ Contiguous(h, g) \/ Flatten(h, g)
  PROVE  IInv'
<1>1. ASSUME NEW t \in MetaRecords, Laid(t), NEW o, Sized(o), BindFresh(h, t, o)
      PROVE  IInv'
  BY <1>1, BindInv DEF BindFresh
<1>2. ASSUME NEW shape \in Shapes, Construct(h, shape) PROVE IInv'
  <2>1. Plain(shape) \in MetaRecords /\ Laid(Plain(shape))
    BY PlainLaid, TensorAssumption
  <2>2. Sized(Blank("Int64", Prod(shape), TRUE))
    <3>1. Prod(shape) \in Nat
      BY <1>2, TensorAssumption DEF Construct
    <3> QED BY <3>1 DEF Sized, Blank
  <2> QED BY <1>1, <1>2, <2>1, <2>2 DEF Construct
<1>3. ASSUME NEW n \in Sizes, FromVec(h, n) PROVE IInv'
  <2> DEFINE v == [k \in 1..n |-> k - 1]
  <2>1. n \in Nat
    BY TensorAssumption
  <2>2. Plain(<<n>>) \in MetaRecords /\ Laid(Plain(<<n>>))
    <3>1. <<n>> \in Seq(Nat)
      BY <2>1
    <3> QED BY <3>1, PlainLaid
  <2>3. Len(v) \in Nat
    BY <2>1
  <2>4. BindFresh(h, Plain(<<n>>), FromVector("Int64", v))
    BY <1>3 DEF FromVec
  <2> HIDE DEF v
  <2>5. Sized(FromVector("Int64", v))
    BY <2>3 DEF Sized, FromVector
  <2> QED BY <1>1, <2>2, <2>4, <2>5
<1>4. ASSUME Whole(g)
      PROVE  /\ ref[g] # Void /\ T(g) \in ImplRecords /\ T(g) \in MetaRecords
             /\ Laid(T(g)) /\ T(g).st \in Stores
             /\ Sized(S(g)) /\ S(g).size \in Nat
             /\ Plain(<<S(g).size>>) \in MetaRecords
             /\ Laid(Plain(<<S(g).size>>))
  <2>1. /\ ref[g] # Void /\ T(g) \in ImplRecords /\ T(g) \in MetaRecords
        /\ Laid(T(g)) /\ T(g).st \in Stores /\ Sized(S(g))
    BY <1>4, Refers DEF Whole
  <2>2. S(g).size \in Nat
    BY <2>1 DEF Sized
  <2>3. <<S(g).size>> \in Seq(Nat)
    BY <2>2
  <2> QED BY <2>1, <2>2, <2>3, PlainLaid
<1>5. CASE FromStorage(h, g)
  BY <1>4, <1>5, BindInv DEF FromStorage
<1>6. CASE Assign(h, g)
  <2> DEFINE r == [ref EXCEPT ![h] = ref[g]]
  <2>1. r \in [Handles -> Impls \cup {Void}] /\ Live(r) \subseteq Live(ref)
    BY <1>6 DEF Assign, IInv, TypeOK, Live
  <2>2. Commit(r, impl, heap, torn)
    BY <1>6 DEF Assign
  <2> HIDE DEF r
  <2> QED BY <2>1, <2>2, Existing, CommitInv
<1>7. CASE Clone(h, g)
  BY <1>1, <1>4, <1>7, WritesSized DEF Clone
<1>8. CASE Contiguous(h, g)
  <2>1. ContiMeta(T(g)) \in MetaRecords /\ Laid(ContiMeta(T(g)))
    BY <1>4, <1>8, ContiLaid DEF Contiguous
  <2> QED BY <1>1, <1>4, <1>8, <2>1, MovedSized DEF Contiguous
<1>9. CASE Flatten(h, g)
  <2>1. Sized(ContiStore(T(g), Cloned(S(g))))
    BY <1>4, <1>9, WritesSized, MovedSized DEF Flatten
  <2> QED BY <1>1, <1>4, <1>9, <2>1 DEF Flatten
<1> QED BY <1>2, <1>3, <1>5, <1>6, <1>7, <1>8, <1>9

\* permute.
LEMMA PermutesInv ==
  ASSUME IInv, NEW h \in Handles, NEW g \in Handles, NEW p \in Rankings,
         \/ Permute(h, g, p) \/ Permute_(h, p)
         \/ \E n \in 1..Len(p) : PermuteThrows(h, p, n)
  PROVE  IInv'
<1>1. p \in Seq(Nat \ {0}) /\ IsInjective(p)
  BY TensorAssumption
<1>2. CASE Permute(h, g, p)
  <2>1. /\ T(g) \in MetaRecords /\ Laid(T(g)) /\ T(g).st \in Stores
        /\ Sized(S(g))
    BY <1>2, Refers DEF Permute, Whole
  <2>2. Permuted(T(g), p) \in MetaRecords /\ Laid(Permuted(T(g), p))
    BY <1>1, <1>2, <2>1, PermutedLaid DEF Permute
  <2> QED BY <1>2, <2>1, <2>2, BindInv DEF Permute
<1>3. CASE Permute_(h, p)
  <2>1. /\ ref[h] # Void /\ T(h) \in MetaRecords /\ Laid(T(h))
        /\ T(h).st \in Stores /\ Sized(S(h))
    BY <1>3, Refers DEF Permute_, Whole
  <2>2. Permuted(T(h), p) \in MetaRecords /\ Laid(Permuted(T(h), p))
    BY <1>1, <1>3, <2>1, PermutedLaid DEF Permute_
  <2> QED BY <1>3, <2>1, <2>2, UpdateInv DEF Permute_
<1>4. ASSUME NEW n \in 1..Len(p), PermuteThrows(h, p, n)
      PROVE  IInv'
  <2> DEFINE m == [i \in 1..n |-> T(h).mapper[p[i]]]
             t == [T(h) EXCEPT !.inv = Scattered(@, m, n)]
  <2>1. /\ ref[h] # Void /\ T(h) \in ImplRecords
        /\ T(h).st \in Stores /\ Sized(S(h))
    BY <1>4, Refers DEF PermuteThrows, Whole
  <2>2. Update(h, t, T(h).st, S(h), torn \cup {ref[h]})
    BY <1>4 DEF PermuteThrows
  <2> HIDE DEF m
  <2>3. Scattered(T(h).inv, m, n) \in Seq(Nat)
    BY <2>1, ScatteredSeq DEF ImplRecords
  <2>4. t \in MetaRecords
    BY <2>1, <2>3 DEF ImplRecords, MetaRecords
  <2> HIDE DEF t
  <2> QED BY <2>1, <2>2, <2>4, UpdateInv
<1> QED BY <1>2, <1>3, <1>4

\* contiguous_.
LEMMA ContiguousInv ==
  ASSUME IInv, NEW h \in Handles, Contiguous_(h)
  PROVE  IInv'
<1>1. /\ ref[h] # Void /\ T(h) \in ImplRecords /\ Laid(T(h)) /\ Sized(S(h))
  BY Refers DEF Contiguous_, Whole
<1>2. ContiMeta(T(h)) \in MetaRecords /\ Laid(ContiMeta(T(h)))
  BY <1>1, ContiLaid
<1>3. Settle(h, ContiMeta(T(h)), Moved(T(h), S(h)), torn)
  BY DEF Contiguous_
<1> QED BY <1>1, <1>2, <1>3, MovedSized, SettleInv

\* reshape.
LEMMA ReshapesInv ==
  ASSUME IInv, NEW h \in Handles, NEW g \in Handles, NEW ns \in NewShapes,
         Reshape(h, g, ns) \/ Reshape_(h, ns) \/ ReshapeThrows(h, ns)
  PROVE  IInv'
<1>1. ASSUME NEW d \in Nat
      PROVE  /\ Settled(ns, d) \in Seq(Nat)
             /\ Plain(Settled(ns, d)) \in MetaRecords
             /\ Laid(Plain(Settled(ns, d)))
  BY SettledSeq, PlainLaid
<1>2. 0..MaxSize \subseteq Nat /\ UMax \in Nat
  BY TensorAssumption
<1>4. CASE Reshape(h, g, ns)
  <2>1. T(g).st \in Stores /\ Sized(S(g))
    BY <1>4, Refers DEF Reshape, Whole
  <2>2. PICK d \in 0..MaxSize :
          IF T(g).conti
          THEN Bind(h, Plain(Settled(ns, d)), T(g).st, S(g))
          ELSE BindFresh(h, Plain(Settled(ns, d)), Moved(T(g), S(g)))
    BY <1>4 DEF Reshape
  <2>3. Plain(Settled(ns, d)) \in MetaRecords /\ Laid(Plain(Settled(ns, d)))
    BY <1>1, <1>2
  <2> QED BY <2>1, <2>2, <2>3, MovedSized, BindInv DEF BindFresh
<1>5. CASE Reshape_(h, ns)
  <2>1. ref[h] # Void /\ Sized(S(h))
    BY <1>5, Refers DEF Reshape_
  <2>2. PICK d \in 0..MaxSize :
          Settle(h, Plain(Settled(ns, d)), ContiStore(T(h), S(h)),
                 torn \ {ref[h]})
    BY <1>5 DEF Reshape_
  <2>3. Plain(Settled(ns, d)) \in MetaRecords /\ Laid(Plain(Settled(ns, d)))
    BY <1>1, <1>2
  <2> QED BY <2>1, <2>2, <2>3, MovedSized, SettleInv
<1>6. CASE ReshapeThrows(h, ns)
  <2> DEFINE t == [ContiMeta(T(h)) EXCEPT !.shape = Settled(ns, UMax)]
  <2>1. ref[h] # Void /\ T(h) \in ImplRecords /\ Sized(S(h))
    BY <1>6, Refers DEF ReshapeThrows
  <2>2. ContiMeta(T(h)) \in MetaRecords
    <3>1. CASE T(h).conti
      BY <2>1, <3>1, Refers DEF ContiMeta
    <3>2. CASE ~T(h).conti
      BY <2>1, <3>2, ContiLaid
    <3> QED BY <3>1, <3>2
  <2>3. t \in MetaRecords
    BY <1>1, <1>2, <2>2 DEF MetaRecords
  <2>4. Settle(h, t, ContiStore(T(h), S(h)), torn \cup {ref[h]})
    BY <1>6 DEF ReshapeThrows
  <2> HIDE DEF t
  <2> QED BY <2>1, <2>3, <2>4, MovedSized, SettleInv
<1> QED BY <1>4, <1>5, <1>6

\* Writes and sums.
LEMMA WritesInv ==
  ASSUME IInv, NEW h \in Handles, NEW g \in Handles, NEW v, NEW n,
         SetItem(h, n, v) \/ Fill(h, v) \/ AddScalar(h, v) \/ AddTensor(h, g)
  PROVE  IInv'
<1>1. /\ ref[h] # Void /\ T(h) \in MetaRecords /\ T(h).st \in Stores
      /\ Sized(S(h)) /\ Laid(T(h))
  BY Refers DEF SetItem, Fill, AddScalar, AddTensor, Whole
<1>2. CASE SetItem(h, n, v)
  BY <1>1, <1>2, WritesSized, UpdateInv DEF SetItem
<1>3. CASE Fill(h, v)
  BY <1>1, <1>3, WritesSized, UpdateInv DEF Fill
<1>4. CASE AddScalar(h, v)
  <2> DEFINE x == [k \in 1..S(h).size |-> S(h).mem[k] + v]
  <2>1. PICK s \in Stores \ Used :
          Update(h, T(h), s, FromVector("Int64", x), torn)
    BY <1>4 DEF AddScalar
  <2>2. Len(x) \in Nat
    BY <1>1 DEF Sized
  <2> HIDE DEF x
  <2>3. Sized(FromVector("Int64", x))
    BY <2>2 DEF Sized, FromVector
  <2> QED BY <1>1, <2>1, <2>3, UpdateInv
<1>5. CASE AddTensor(h, g)
  <2>1. Update(h, T(h), T(h).st, Added(T(h), S(h), T(g), S(g)), torn)
    BY <1>5 DEF AddTensor
  <2>2. Sized(Added(T(h), S(h), T(g), S(g)))
    BY <1>1, SetBuffer DEF Added
  <2> QED BY <1>1, <2>1, <2>2, UpdateInv
<1> QED BY <1>2, <1>3, <1>4, <1>5

\* The first axis, one longer.
LEMMA GrownLaid ==
  ASSUME NEW t \in ImplRecords, Laid(t)
  PROVE  /\ Grown(t) \in MetaRecords /\ Laid(Grown(t))
         /\ Grown(t).shape = [t.shape EXCEPT ![1] = @ + 1]
<1> DEFINE c == ContiMeta(t)
           w == [c.shape EXCEPT ![1] = @ + 1]
<1>1. c \in MetaRecords /\ Laid(c) /\ c.shape = t.shape
  BY ContiLaid
<1>2. c.shape \in Seq(Nat)
  BY <1>1 DEF MetaRecords
<1>3. w \in Seq(Nat) /\ Len(w) = Len(c.shape)
  <2> HIDE DEF c
  <2>1. ASSUME NEW i \in 1..Len(c.shape)
        PROVE  w[i] \in Nat
    <3>1. c.shape[i] \in Nat
      BY <1>2
    <3>2. w[i] = IF i = 1 THEN c.shape[i] + 1 ELSE c.shape[i]
      BY <1>2
    <3> QED BY <3>1, <3>2
  <2>2. DOMAIN w = 1..Len(c.shape)
    BY <1>2
  <2>3. w = [i \in 1..Len(c.shape) |-> w[i]]
    BY <2>2
  <2> HIDE DEF w
  <2>4. w \in [1..Len(c.shape) -> Nat]
    BY <2>1, <2>3
  <2>5. Len(c.shape) \in Nat
    BY <1>2
  <2> QED BY <2>4, <2>5, FunctionSeq
<1>4. Grown(t) = [c EXCEPT !.shape = w]
  BY DEF Grown
<1>5. w = [t.shape EXCEPT ![1] = @ + 1]
  BY <1>1
<1> HIDE DEF c, w
<1>6. Grown(t) \in MetaRecords /\ Grown(t).shape = w
  BY <1>1, <1>3, <1>4 DEF MetaRecords
<1>7. Laid(Grown(t))
  BY <1>1, <1>3, <1>4 DEF MetaRecords, Laid
<1> QED BY <1>5, <1>6, <1>7

\* append.
LEMMA AppendsInv ==
  ASSUME IInv, NEW h \in Handles, NEW g \in Handles, NEW v,
         AppendTensor(h, g) \/ AppendStorage(h, g) \/ AppendScalar(h, v)
  PROVE  IInv'
<1>1. ref[h] # Void /\ T(h) \in ImplRecords /\ Sized(S(h)) /\ Laid(T(h))
  BY Refers DEF AppendTensor, AppendStorage, AppendScalar, Whole
<1>2. Sized(ContiStore(T(h), S(h))) /\ ContiStore(T(h), S(h)).size = S(h).size
  BY <1>1, MovedSized
<1>3. Grown(T(h)) \in MetaRecords /\ Laid(Grown(T(h)))
  BY <1>1, GrownLaid
<1>4. CASE AppendTensor(h, g)
  <2> DEFINE n == Prod(T(g).shape)
  <2>1. S(h).size + n \in Nat
    BY <1>4, TensorAssumption DEF AppendTensor
  <2>2. Sized(Extended(ContiStore(T(h), S(h)), n, S(g).mem))
    BY <1>2, <2>1, ExtendedSized
  <2> QED BY <1>1, <1>3, <1>4, <2>2, SettleInv DEF AppendTensor
<1>5. CASE AppendStorage(h, g)
  <2>1. S(h).size + S(g).size \in Nat
    BY <1>5, TensorAssumption DEF AppendStorage
  <2>2. Sized(Extended(ContiStore(T(h), S(h)), S(g).size, S(g).mem))
    BY <1>2, <2>1, ExtendedSized
  <2> QED BY <1>1, <1>3, <1>5, <2>2, SettleInv DEF AppendStorage
<1>6. CASE AppendScalar(h, v)
  BY <1>1, <1>3, <1>6, AppendedSized, SettleInv DEF AppendScalar
<1> QED BY <1>4, <1>5, <1>6

LEMMA NextInv == IInv /\ [Next]_vars => IInv'
<1> SUFFICES ASSUME IInv, [Next]_vars PROVE IInv'
  OBVIOUS
<1>1. CASE UNCHANGED vars
  BY <1>1 DEF vars, IInv, TypeOK, LayoutOK, Live, Used, Intact, Laid
<1>2. CASE Next
  <2>1. PICK h \in Handles :
     \/ \E shape \in Shapes : Construct(h, shape)
     \/ \E n \in Sizes : FromVec(h, n)
     \/ Contiguous_(h)
     \/ \E g \in Handles : \/ FromStorage(h, g) \/ Assign(h, g) \/ Clone(h, g)
                           \/ Contiguous(h, g) \/ Flatten(h, g)
                           \/ AddTensor(h, g)
                           \/ AppendTensor(h, g) \/ AppendStorage(h, g)
     \/ \E rnks \in Rankings : \/ Permute_(h, rnks)
                               \/ \E n \in 1..Len(rnks) :
                                    PermuteThrows(h, rnks, n)
                               \/ \E g \in Handles : Permute(h, g, rnks)
     \/ \E ns \in NewShapes : \/ Reshape_(h, ns) \/ ReshapeThrows(h, ns)
                              \/ \E g \in Handles : Reshape(h, g, ns)
     \/ \E v \in Values : \/ Fill(h, v) \/ AddScalar(h, v) \/ AppendScalar(h, v)
                          \/ \E n \in 1..MaxSize : SetItem(h, n, v)
    BY <1>2 DEF Next
  <2>2. CASE \E shape \in Shapes : Construct(h, shape)
    BY <2>2, CopiesInv
  <2>3. CASE \E n \in Sizes : FromVec(h, n)
    BY <2>3, CopiesInv
  <2>4. CASE Contiguous_(h)
    BY <2>4, ContiguousInv
  <2>5. ASSUME NEW g \in Handles,
               \/ FromStorage(h, g) \/ Assign(h, g) \/ Clone(h, g)
               \/ Contiguous(h, g) \/ Flatten(h, g)
        PROVE  IInv'
    BY <2>5, CopiesInv
  <2>6. ASSUME NEW g \in Handles, AddTensor(h, g) PROVE IInv'
    BY <2>6, WritesInv
  <2>7. ASSUME NEW g \in Handles, AppendTensor(h, g) \/ AppendStorage(h, g)
        PROVE  IInv'
    BY <2>7, AppendsInv
  <2>8. ASSUME NEW rnks \in Rankings,
               \/ Permute_(h, rnks)
               \/ \E n \in 1..Len(rnks) : PermuteThrows(h, rnks, n)
               \/ \E g \in Handles : Permute(h, g, rnks)
        PROVE  IInv'
    BY <2>8, PermutesInv
  <2>9. ASSUME NEW ns \in NewShapes,
               \/ Reshape_(h, ns) \/ ReshapeThrows(h, ns)
               \/ \E g \in Handles : Reshape(h, g, ns)
        PROVE  IInv'
    BY <2>9, ReshapesInv
  <2>10. ASSUME NEW v \in Values,
                \/ Fill(h, v) \/ AddScalar(h, v)
                \/ \E n \in 1..MaxSize : SetItem(h, n, v)
         PROVE  IInv'
    BY <2>10, WritesInv
  <2>11. ASSUME NEW v \in Values, AppendScalar(h, v) PROVE IInv'
    BY <2>11, AppendsInv
  <2> QED
    BY <2>1, <2>2, <2>3, <2>4, <2>5, <2>6, <2>7, <2>8, <2>9, <2>10, <2>11
<1> QED BY <1>1, <1>2

LEMMA Invariance == Spec => []IInv
<1> QED BY InitInv, NextInv, PTL DEF Spec

\* Whatever calls are made, refused calls included, every variable refers to Void
\* or to an impl with a storage, and nothing outlives its last reference.
THEOREM TypeCorrect == Spec => []TypeOK
<1>1. IInv => TypeOK
  BY DEF IInv
<1> QED BY <1>1, Invariance, PTL

-----------------------------------------------------------------------------
(* Slices.                                                                 *)

LEMMA QuotientInt ==
  ASSUME NEW m \in Int, NEW n \in Int \ {0}
  PROVE  Quotient(m, n) \in Int
<1> DEFINE a == IF m < 0 THEN -m ELSE m
           b == IF n < 0 THEN -n ELSE n
<1>1. a \in Nat /\ b \in Nat /\ b > 0
  OBVIOUS
<1>2. Quotient(m, n) = IF (m < 0) = (n < 0) THEN a \div b ELSE -(a \div b)
  BY DEF Quotient
<1> HIDE DEF a, b
<1>3. a \div b \in Int
  BY <1>1
<1> QED BY <1>2, <1>3

LEMMA StrideCount ==
  ASSUME NEW first \in Int, NEW last \in Int, NEW step \in Int \ {0}
  PROVE  Len(Stride(first, last, step)) \in Nat
<1> DEFINE q == Quotient(last - first, step)
           n == IF q + 1 < 0 THEN 0 ELSE q + 1
           f == Stride(first, last, step)
<1>1. q \in Int
  BY QuotientInt
<1>2. f = [k \in 1..(q + 1) |-> first + (k - 1) * step]
  BY DEF Stride
<1> HIDE DEF q
<1>3. n \in Nat /\ 1..(q + 1) = 1..n
  BY <1>1
<1> HIDE DEF n
<1>4. f = [k \in 1..n |-> first + (k - 1) * step]
  BY <1>2, <1>3
<1>5. ASSUME NEW k \in 1..n PROVE first + (k - 1) * step \in Int
  BY <1>3
<1>6. f \in [1..n -> Int]
  BY <1>4, <1>5
<1> HIDE DEF f
<1>7. Len(f) = n
  BY <1>3, <1>6, FunctionSeq
<1> QED BY <1>3, <1>7 DEF f

\* How many positions an accessor takes of an axis it stays on.
LEMMA PositionsCount ==
  ASSUME NEW acc \in Accessors, NEW dim \in Nat, acc # All, OnAxis(acc, dim)
  PROVE  Len(Positions(acc, dim)) \in Nat
<1>1. CASE acc \in [type : {"Singl"}, loc : Int]
  <2>1. acc.type = "Singl"
    BY <1>1
  <2> DEFINE x == IF acc.loc < 0 THEN acc.loc + dim ELSE acc.loc
  <2>2. Positions(acc, dim) = <<x>>
    BY <2>1 DEF Positions
  <2> HIDE DEF x
  <2> QED BY <2>2
<1>2. CASE acc \in [type : {"list"}, idx : Seq(Int)]
  <2>1. acc.type = "list" /\ acc.idx \in Seq(Int)
    BY <1>2
  <2>2. Positions(acc, dim) = [k \in DOMAIN acc.idx |->
                                 IF acc.idx[k] < 0 THEN acc.idx[k] + dim ELSE acc.idx[k]]
    BY <2>1 DEF Positions
  <2>3. Positions(acc, dim) \in [1..Len(acc.idx) -> Int]
    BY <2>1, <2>2
  <2> QED BY <2>1, <2>3, FunctionSeq
<1>3. CASE acc \in [type : {"Range"}, min : Int, max : Int, step : Int \ {0}]
  <2>1. /\ acc.type = "Range" /\ acc.min \in Int /\ acc.max \in Int
        /\ acc.step \in Int \ {0}
    BY <1>3
  <2>2. Positions(acc, dim) = Stride(First(acc, dim),
          Bound(acc, dim) - (IF acc.step < 0 THEN -1 ELSE 1), acc.step)
    BY <2>1 DEF Positions
  <2>3. First(acc, dim) \in Int /\ Bound(acc, dim) \in Int
    BY <2>1 DEF First, Bound
  <2>4. Bound(acc, dim) - (IF acc.step < 0 THEN -1 ELSE 1) \in Int
    BY <2>1, <2>3
  <2> QED BY <2>1, <2>2, <2>3, <2>4, StrideCount
<1>4. CASE acc \in [type : {"Tilend"}, min : Int, step : Int \ {0}]
  <2>1. acc.type = "Tilend" /\ acc.min \in Int /\ acc.step \in Int \ {0}
    BY <1>4
  <2>2. Positions(acc, dim) = Stride(First(acc, dim), Bound(acc, dim), acc.step)
    BY <2>1 DEF Positions
  <2>3. dim > 0
    BY <2>1 DEF OnAxis
  <2>4. First(acc, dim) = (acc.min + dim) % dim
    BY <2>1 DEF First
  <2>5. First(acc, dim) \in Int
    BY <2>1, <2>3, <2>4
  <2>6. Bound(acc, dim) \in Int
    BY <2>1 DEF Bound
  <2> QED BY <2>1, <2>2, <2>5, <2>6, StrideCount
<1>5. CASE acc \in [type : {"Step"}, step : Int \ {0}]
  <2>1. acc.type = "Step" /\ acc.step \in Int \ {0}
    BY <1>5
  <2>2. Positions(acc, dim) = Stride(First(acc, dim), Bound(acc, dim), acc.step)
    BY <2>1 DEF Positions
  <2>3. First(acc, dim) \in Int /\ Bound(acc, dim) \in Int
    BY <2>1 DEF First, Bound
  <2> QED BY <2>1, <2>2, <2>3, StrideCount
<1> QED BY <1>1, <1>2, <1>3, <1>4, <1>5 DEF Accessors

\* The accessors in the order of the storage, and what they take of its axes.
LEMMA InStorageIs ==
  ASSUME NEW t \in MetaRecords, Laid(t), NEW accs \in Seq(Accessors), Accepts(t, accs)
  PROVE  LET n   == Len(t.shape)
             acc == InStorage(t, accs)
         IN /\ n \in Nat /\ acc \in [1..n -> Accessors] /\ Len(acc) = n
            /\ Removed(acc) \in SUBSET (1..n)
            /\ StorageShape(t) \in [1..n -> Nat]
            /\ Lengths(StorageShape(t), acc) \in [1..n -> Nat]
            /\ \A k \in 1..n : acc[k] = IF t.inv[k] <= Len(accs) THEN accs[t.inv[k]] ELSE All
            /\ \A k \in 1..n : StorageShape(t)[k] = t.shape[t.inv[k]]
<1> DEFINE n    == Len(t.shape)
           acc  == InStorage(t, accs)
           dims == StorageShape(t)
           all  == [k \in 1..n |-> IF k <= Len(accs) THEN accs[k] ELSE All]
<1>1. /\ n \in Nat /\ t.inv \in [1..n -> 1..n] /\ t.inv \in Seq(Nat)
      /\ \A k \in 1..n : t.shape[k] \in Nat
  BY DEF Laid, MetaRecords
<1>2. Len(t.inv) = n
  BY <1>1
<1>3. /\ Len(accs) \in Nat /\ \A k \in 1..Len(accs) : accs[k] \in Accessors
      /\ \A k \in 1..Len(accs) : OnAxis(accs[k], t.shape[k])
      /\ All \in Accessors
  BY DEF Accepts, Accessors
<1>4. acc = [k \in 1..n |-> all[t.inv[k]]]
  BY <1>2 DEF InStorage, Compose
<1>5. dims = [k \in 1..n |-> t.shape[t.inv[k]]]
  BY <1>2 DEF StorageShape, Compose
<1> HIDE DEF acc, dims, n
<1>6. ASSUME NEW k \in 1..n
      PROVE  /\ acc[k] = IF t.inv[k] <= Len(accs) THEN accs[t.inv[k]] ELSE All
             /\ dims[k] = t.shape[t.inv[k]] /\ dims[k] \in Nat
             /\ acc[k] \in Accessors
             /\ acc[k] # All => OnAxis(acc[k], dims[k])
  <2> DEFINE j == t.inv[k]
  <2>1. j \in 1..n
    BY <1>1
  <2>2. acc[k] = all[j] /\ dims[k] = t.shape[j] /\ dims[k] \in Nat
    BY <1>1, <1>4, <1>5, <2>1
  <2>3. all[j] = IF j <= Len(accs) THEN accs[j] ELSE All
    BY <2>1
  <2> HIDE DEF j, all
  <2>4. CASE j <= Len(accs)
    <3>1. j \in 1..Len(accs)
      BY <1>1, <1>3, <2>1, <2>4
    <3> QED BY <1>3, <2>2, <2>3, <2>4, <3>1 DEF j
  <2>5. CASE ~(j <= Len(accs))
    BY <1>3, <2>2, <2>3, <2>5 DEF j
  <2> QED BY <2>4, <2>5
<1>7. acc \in [1..n -> Accessors] /\ dims \in [1..n -> Nat] /\ DOMAIN acc = 1..n
  <2> HIDE DEF all
  <2> QED BY <1>4, <1>5, <1>6
<1>8. Len(acc) = n
  BY <1>1, <1>7, FunctionSeq
<1>9. Removed(acc) \in SUBSET (1..n)
  BY <1>7 DEF Removed
<1>10. Lengths(dims, acc) \in [1..n -> Nat]
  <2>1. ASSUME NEW k \in 1..n
        PROVE  (IF acc[k] = All THEN dims[k] ELSE Len(Positions(acc[k], dims[k]))) \in Nat
    <3>1. CASE acc[k] = All
      BY <1>6, <3>1
    <3>2. CASE acc[k] # All
      BY <1>6, <3>2, PositionsCount
    <3> QED BY <3>1, <3>2
  <2>2. Lengths(dims, acc) =
          [k \in 1..n |-> IF acc[k] = All THEN dims[k] ELSE Len(Positions(acc[k], dims[k]))]
    BY <1>7 DEF Lengths
  <2> QED BY <2>1, <2>2
<1>11. /\ n \in Nat /\ acc \in [1..n -> Accessors] /\ Len(acc) = n
       /\ Removed(acc) \in SUBSET (1..n)
       /\ dims \in [1..n -> Nat]
       /\ Lengths(dims, acc) \in [1..n -> Nat]
       /\ \A k \in 1..n : acc[k] = IF t.inv[k] <= Len(accs) THEN accs[t.inv[k]] ELSE All
       /\ \A k \in 1..n : dims[k] = t.shape[t.inv[k]]
  BY <1>1, <1>6, <1>7, <1>8, <1>9, <1>10
<1> QED BY <1>11, Zenon DEF n, acc, dims

\* The axes of the storage, and those of the user, of which more than a single index
\* is taken.
LEMMA AxesLeft ==
  ASSUME NEW n \in Nat, NEW R \in SUBSET (1..n), NEW p \in [1..n -> 1..n], IsInjective(p)
  PROVE  /\ Erased(p, R) \in Seq(1..n) /\ IsInjective(Erased(p, R))
         /\ Members(Erased(p, R)) = (1..n) \ R
         /\ Len(Erased(p, R)) = Cardinality((1..n) \ R)
<1> DEFINE X == 1..n
<1>1. p \in Seq(X) /\ Len(p) = n
  BY FunctionSeq
<1>2. \A k \in X : \E i \in X : p[i] = k
  BY RankingOnto
<1>3. Members(p) = X
  <2>1. \A i \in X : p[i] \in X
    OBVIOUS
  <2>2. Members(p) = {p[i] : i \in X}
    BY <1>1 DEF Members
  <2> HIDE DEF X
  <2> QED BY <1>2, <2>1, <2>2
<1> HIDE DEF X
<1>4. /\ Erased(p, R) \in Seq(X) /\ IsInjective(Erased(p, R))
      /\ Members(Erased(p, R)) = X \ R
  BY <1>1, <1>3, ErasedIs
<1>5. Cardinality(X \ R) = Len(Erased(p, R))
  BY <1>4, MembersCount
<1> QED BY <1>4, <1>5 DEF X

LEMMA IdentityOnce == \A n \in Nat : IsInjective(Identity(n))
BY DEF Identity, IsInjective

LEMMA InverseOnce ==
  ASSUME NEW t \in MetaRecords, Laid(t)
  PROVE  IsInjective(t.mapper) /\ IsInjective(t.inv)
<1> DEFINE n == Len(t.shape)
<1>1. /\ DOMAIN t.mapper = 1..n /\ DOMAIN t.inv = 1..n
      /\ \A k \in 1..n : t.inv[t.mapper[k]] = k /\ t.mapper[t.inv[k]] = k
  BY DEF Laid
<1> HIDE DEF n
<1> QED BY <1>1 DEF IsInjective

\* The shape of what a slice takes, and the permutation back to the user's order.
LEMMA SliceIs ==
  ASSUME NEW t \in MetaRecords, Laid(t), NEW accs \in Seq(Accessors), Accepts(t, accs)
  PROVE  /\ Kept(t, accs) \in Seq(Nat)
         /\ Back(t, accs) \in Seq(Nat \ {0}) /\ IsInjective(Back(t, accs))
         /\ Len(Back(t, accs)) = Len(Kept(t, accs))
         /\ \A i \in 1..Len(Back(t, accs)) : Back(t, accs)[i] <= Len(Back(t, accs))
<1> DEFINE n == Len(t.shape)
           acc == InStorage(t, accs)
           R == Removed(acc)
           lengths == Lengths(StorageShape(t), acc)
           e == Erased(Identity(n), R)
           f == Erased(t.mapper, R)
           c == Cardinality((1..n) \ R)
<1>1. n \in Nat /\ R \in SUBSET (1..n) /\ lengths \in [1..n -> Nat] /\ Len(acc) = n
  BY InStorageIs
<1>2. Identity(n) \in [1..n -> 1..n] /\ IsInjective(Identity(n))
  BY <1>1, IdentitySeq, IdentityOnce
<1>3. t.mapper \in [1..n -> 1..n] /\ IsInjective(t.mapper)
  BY InverseOnce DEF Laid
<1>4. Kept(t, accs) = [i \in 1..Len(e) |-> lengths[e[i]]]
  BY <1>1 DEF Kept, Compose
<1>5. Back(t, accs) = [i \in DOMAIN f |-> Anew(R, f[i])]
  BY DEF Back, Anew
<1> HIDE DEF n, acc, R, lengths
<1>6. e \in Seq(1..n) /\ Len(e) = c
  BY <1>1, <1>2, AxesLeft
<1>7. f \in Seq(1..n) /\ Len(f) = c /\ IsInjective(f) /\ Members(f) = (1..n) \ R
  BY <1>1, <1>3, AxesLeft
<1>8. /\ c \in Nat
      /\ \A a \in (1..n) \ R : Anew(R, a) \in 1..c
      /\ \A a, b \in (1..n) \ R : Anew(R, a) = Anew(R, b) => a = b
  BY <1>1, Renumbered
<1> HIDE DEF e, f, c
<1>9. Kept(t, accs) \in Seq(Nat) /\ Len(Kept(t, accs)) = c
  <2>1. \A i \in 1..Len(e) : e[i] \in 1..n
    <3> DEFINE X == 1..n
    <3>1. e \in Seq(X)
      BY <1>6
    <3> HIDE DEF X
    <3>2. \A i \in 1..Len(e) : e[i] \in X
      BY <3>1
    <3> QED BY <3>2 DEF X
  <2>2. Kept(t, accs) \in [1..c -> Nat]
    BY <1>1, <1>4, <1>6, <2>1
  <2> QED BY <1>8, <2>2, FunctionSeq
<1>10. DOMAIN f = 1..c /\ \A i \in 1..c : f[i] \in (1..n) \ R
  BY <1>7 DEF Members
<1>11. Back(t, accs) \in [1..c -> 1..c]
  BY <1>5, <1>8, <1>10
<1>12. \A i, j \in 1..c : Back(t, accs)[i] = Back(t, accs)[j] => i = j
  <2> TAKE i, j \in 1..c
  <2>1. Back(t, accs)[i] = Anew(R, f[i]) /\ Back(t, accs)[j] = Anew(R, f[j])
    BY <1>5, <1>10
  <2>2. f[i] = f[j] => i = j
    BY <1>7, <1>10 DEF IsInjective
  <2> QED BY <1>8, <1>10, <2>1, <2>2
<1>13. IsInjective(Back(t, accs))
  BY <1>11, <1>12 DEF IsInjective
<1>14. Back(t, accs) \in Seq(Nat \ {0}) /\ Len(Back(t, accs)) = c
  <2>1. Back(t, accs) \in [1..c -> Nat \ {0}]
    BY <1>8, <1>11
  <2> QED BY <1>8, <2>1, FunctionSeq
<1>15. \A i \in 1..c : Back(t, accs)[i] <= c
  BY <1>8, <1>11
<1> QED BY <1>9, <1>13, <1>14, <1>15

\* The metadata of what get returns.
LEMMA GotLaid ==
  ASSUME NEW t \in MetaRecords, Laid(t), NEW accs \in Seq(Accessors), Accepts(t, accs)
  PROVE  GotImpl(t, accs) \in MetaRecords /\ Laid(GotImpl(t, accs))
<1> DEFINE w == Kept(t, accs)
           p == Back(t, accs)
<1>1. /\ w \in Seq(Nat) /\ p \in Seq(Nat \ {0}) /\ IsInjective(p)
      /\ Len(p) = Len(w) /\ \A i \in 1..Len(p) : p[i] <= Len(p)
  BY SliceIs
<1>2. CASE w = <<>>
  <2>1. GotImpl(t, accs) = Plain(<<1>>)
    BY <1>2 DEF GotImpl
  <2>2. <<1>> \in Seq(Nat)
    OBVIOUS
  <2> QED BY <2>1, <2>2, PlainLaid
<1>3. CASE w # <<>>
  <2>1. GotImpl(t, accs) = Permuted(Plain(w), p)
    BY <1>3 DEF GotImpl
  <2> HIDE DEF w, p
  <2>2. Plain(w) \in MetaRecords /\ Laid(Plain(w)) /\ Plain(w).shape = w
    BY <1>1, PlainLaid DEF Plain
  <2>3. Permuted(Plain(w), p) \in MetaRecords /\ Laid(Permuted(Plain(w), p))
    BY <1>1, <2>2, PermutedLaid
  <2> QED BY <2>1, <2>3
<1> QED BY <1>2, <1>3

\* The units begin behind one of the axes.
LEMMA FrontsIs ==
  ASSUME NEW acc, Len(acc) \in Nat
  PROVE  Fronts(acc) \in 0..Len(acc)
<1> DEFINE D == {k \in Nat : k <= Len(acc) /\ \A j \in (k + 1)..Len(acc) : acc[j] = All}
<1>1. Len(acc) \in D
  OBVIOUS
<1>2. D \subseteq Nat
  OBVIOUS
<1>3. PICK n \in D : \A k \in D : n <= k
  <2> HIDE DEF D
  <2> QED BY <1>1, <1>2, LeastNumber
<1>4. n = 0 \/ acc[n] # All
  <2>1. SUFFICES ASSUME n # 0, acc[n] = All PROVE FALSE
    OBVIOUS
  <2>2. n - 1 \in Nat /\ n - 1 <= Len(acc) /\ ~(n <= n - 1)
    BY <2>1
  <2>3. \A j \in ((n - 1) + 1)..Len(acc) : acc[j] = All
    <3>1. \A j \in ((n - 1) + 1)..Len(acc) : j = n \/ j \in (n + 1)..Len(acc)
      OBVIOUS
    <3> QED BY <2>1, <3>1
  <2>4. n - 1 \in D
    BY <2>2, <2>3
  <2> QED BY <1>3, <2>2, <2>4
<1>5. /\ n \in 0..Len(acc)
      /\ n = 0 \/ acc[n] # All
      /\ \A k \in (n + 1)..Len(acc) : acc[k] = All
  BY <1>4
<1>6. \E k \in 0..Len(acc) :
        /\ k = 0 \/ acc[k] # All
        /\ \A j \in k + 1..Len(acc) : acc[j] = All
  BY <1>5
<1> QED BY <1>6 DEF Fronts

\* How many places a slice touches.
LEMMA TouchedCount ==
  ASSUME NEW t \in MetaRecords, Laid(t), NEW accs \in Seq(Accessors), Accepts(t, accs)
  PROVE  Len(Touched(t, accs)) \in Nat
<1> DEFINE acc   == InStorage(t, accs)
           dims  == StorageShape(t)
           ls    == Lengths(dims, acc)
           n     == Len(t.shape)
           f     == Fronts(acc)
           taken == SubSeq(ls, 1, f)
           rest  == SubSeq(dims, f + 1, Len(acc))
           units == Units(t, accs)
           u     == Nunit(t, accs)
<1>1. n \in Nat /\ Len(acc) = n /\ dims \in [1..n -> Nat] /\ ls \in [1..n -> Nat]
  BY InStorageIs
<1>2. f \in 0..n
  BY <1>1, FrontsIs
<1>3. u = Prod(rest)
  BY DEF Nunit
<1>4. taken \in Seq(Nat) /\ rest \in Seq(Nat)
  <2>1. dims \in Seq(Nat) /\ Len(dims) = n /\ ls \in Seq(Nat) /\ Len(ls) = n
    BY <1>1, FunctionSeq
  <2> HIDE DEF dims, ls, f, n
  <2>2. \A i \in 1..f : i \in 1..n
    BY <1>1, <1>2
  <2>3. taken \in Seq(Nat)
    BY <1>1, <1>2, <2>1, <2>2, SubSeqProperties
  <2>4. \A i \in (f + 1)..n : i \in 1..n
    BY <1>1, <1>2
  <2>5. rest \in Seq(Nat)
    BY <1>1, <1>2, <2>1, <2>4, SubSeqProperties
  <2> QED BY <2>3, <2>5
<1>5. Prod(taken) \in Nat /\ u \in Nat
  <2> HIDE DEF taken, rest
  <2> QED BY <1>3, <1>4, ProdNat
<1>6. \E g : units = [q \in 1..Prod(taken) |-> g[q]]
  <2>1. units = [q \in 1..Prod(taken) |-> units[q]]
    BY Zenon DEF Units
  <2> QED BY <2>1
<1> HIDE DEF taken, units, u
<1>7. Len(units) = Prod(taken)
  BY <1>5, <1>6
<1>8. Touched(t, accs) = [m \in 1..Len(units) * u |->
                            units[((m - 1) \div u) + 1] * u + ((m - 1) % u) + 1]
  BY DEF Touched, units, u
<1>9. Len(units) * u \in Nat
  BY <1>5, <1>7
<1> DEFINE k == Len(units) * u
<1>10. Touched(t, accs) = [m \in 1..k |-> Touched(t, accs)[m]]
  BY <1>8, Zenon
<1> HIDE DEF k
<1>11. Len(Touched(t, accs)) = k
  BY <1>9, <1>10 DEF k
<1> QED BY <1>9, <1>11 DEF k

\* get, set, and what the proxies make of them.
LEMMA SlicesInv ==
  ASSUME IInv, SlicesAssumption,
         NEW h \in Handles, NEW g \in Handles, NEW accs \in Slices, NEW bccs \in Slices,
         NEW v,
         \/ Get(h, g, accs) \/ Set(h, accs, g) \/ SetScalar(h, accs, v)
         \/ AddSlice(h, accs, v) \/ SetSlice(h, accs, g, bccs)
  PROVE  IInv'
<1>1. accs \in Seq(Accessors)
  BY DEF SlicesAssumption
<1>2. CASE Get(h, g, accs)
  <2> DEFINE t == GotImpl(T(g), accs)
             c == Compose(S(g).mem, Touched(T(g), accs))
             o == FromVector("Int64", c)
  <2>1. /\ T(g) \in MetaRecords /\ Laid(T(g)) /\ Accepts(T(g), accs)
        /\ BindFresh(h, t, GotStore(T(g), S(g), accs))
    BY <1>2, Refers DEF Get, Whole
  <2>2. t \in MetaRecords /\ Laid(t)
    BY <1>1, <2>1, GotLaid
  <2>3. Len(Touched(T(g), accs)) \in Nat
    BY <1>1, <2>1, TouchedCount
  <2>4. Len(c) \in Nat
    BY <2>3 DEF Compose
  <2> HIDE DEF c, t
  <2>5. Sized(o)
    BY <2>4 DEF Sized, FromVector
  <2>6. GotStore(T(g), S(g), accs) = o
    BY DEF GotStore, c
  <2>7. PICK s \in Stores \ Used : Bind(h, t, s, o)
    BY <2>1, <2>6 DEF BindFresh, t
  <2> HIDE DEF o
  <2> QED BY <2>2, <2>5, <2>7, BindInv
<1>3. ASSUME NEW x, Whole(h), Update(h, T(h), T(h).st, [S(h) EXCEPT !.mem = x], torn)
      PROVE  IInv'
  <2>1. /\ ref[h] # Void /\ T(h) \in MetaRecords /\ T(h).st \in Stores
        /\ Sized(S(h)) /\ Laid(T(h))
    BY <1>3, Refers DEF Whole
  <2>2. Sized([S(h) EXCEPT !.mem = x])
    BY <2>1, SetBuffer
  <2> QED BY <1>3, <2>1, <2>2, UpdateInv
<1>4. CASE Set(h, accs, g)
  <2> DEFINE x == SetElems(T(h), S(h).mem, accs, T(g), S(g), T(g).st = T(h).st)
  <2>1. Whole(h) /\ Update(h, T(h), T(h).st, [S(h) EXCEPT !.mem = x], torn)
    BY <1>4 DEF Set, SetStore
  <2> HIDE DEF x
  <2> QED BY <1>3, <2>1
<1>5. CASE SetScalar(h, accs, v)
  <2> DEFINE x == LET touched == Range(Touched(T(h), accs))
                  IN [k \in DOMAIN S(h).mem |-> IF k \in touched THEN v ELSE S(h).mem[k]]
  <2>1. Whole(h) /\ Update(h, T(h), T(h).st, [S(h) EXCEPT !.mem = x], torn)
    BY <1>5 DEF SetScalar
  <2> HIDE DEF x
  <2> QED BY <1>3, <2>1
<1>6. CASE SetSlice(h, accs, g, bccs)
  <2> DEFINE x == SetElems(T(h), S(h).mem, accs, GotImpl(T(g), bccs),
                           GotStore(T(g), S(g), bccs), FALSE)
  <2>1. Whole(h) /\ Update(h, T(h), T(h).st, [S(h) EXCEPT !.mem = x], torn)
    BY <1>6 DEF SetSlice, SetStore
  <2> HIDE DEF x
  <2> QED BY <1>3, <2>1
<1>7. CASE AddSlice(h, accs, v)
  <2> DEFINE ro  == GotStore(T(h), S(h), accs)
             sum == [ro EXCEPT !.mem = [k \in DOMAIN @ |-> IF k <= ro.size THEN @[k] + v ELSE @[k]]]
             x   == SetElems(T(h), S(h).mem, accs, GotImpl(T(h), accs), sum, FALSE)
  <2>1. Whole(h) /\ Update(h, T(h), T(h).st, [S(h) EXCEPT !.mem = x], torn)
    BY <1>7 DEF AddSlice, SetStore
  <2> HIDE DEF x
  <2> QED BY <1>3, <2>1
<1> QED BY <1>2, <1>4, <1>5, <1>6, <1>7

\* The maps of every tensor no call threw on are inverse to one another and agree
\* with the contiguous flag, for tensors of every rank and shape.
THEOREM LayoutCorrect == Spec => []LayoutOK
<1>1. IInv => LayoutOK
  BY DEF IInv
<1> QED BY <1>1, Invariance, PTL

\* Reading and writing slices, at any time between the other calls and with any
\* accessors that get_len_pos takes, keeps it so: what get returns is laid out in
\* the order of the user's axes, of which those with a single index are gone and
\* the others renumbered, for tensors of every rank and layout.
THEOREM SlicedLayout == SlicesAssumption => (SlicingSpec => []LayoutOK)
<1> SUFFICES ASSUME SlicesAssumption PROVE SlicingSpec => []LayoutOK
  OBVIOUS
<1>1. IInv /\ SliceNext => IInv'
  <2> SUFFICES ASSUME IInv, SliceNext PROVE IInv'
    OBVIOUS
  <2>1. PICK h \in Handles, accs \in Slices :
          \/ \E g \in Handles : Get(h, g, accs) \/ Set(h, accs, g)
          \/ \E v \in Values : SetScalar(h, accs, v) \/ AddSlice(h, accs, v)
          \/ \E g \in Handles, bccs \in Slices :
               <<accs, bccs>> \in SlicePairs /\ SetSlice(h, accs, g, bccs)
    BY DEF SliceNext
  <2> QED BY <2>1, SlicesInv
<1>2. IInv /\ [Next \/ SliceNext]_vars => IInv'
  BY <1>1, NextInv
<1>3. IInv => LayoutOK
  BY DEF IInv
<1> QED BY <1>2, <1>3, InitInv, PTL DEF SlicingSpec

-----------------------------------------------------------------------------
(* Sizes.                                                                  *)

\* The buffer holds the elements.
Held(o) == Len(o.mem) \in Nat /\ o.size <= Len(o.mem)

\* Every storage holds its elements, those of torn tensors too: reshape_ takes a
\* torn tensor by the size of its storage.
SizeInv ==
  /\ \A i \in Live(ref) : Held(heap[impl[i].st])
  /\ \A i \in Intact : Prod(impl[i].shape) = heap[impl[i].st].size

\* At most one dimension of an argument of reshape is left open: the code stores
\* any other -1 as it is.
OneOpen == \A ns \in NewShapes : \A i, j \in Undetermined(ns) : i = j

LEMMA RoundUpHolds == \A n \in Nat : RoundUp(n) \in Nat /\ n <= RoundUp(n)
BY DEF RoundUp, STORAGE_DEFT_SZ

\* A change of the elements that keeps the length of the buffer.
LEMMA SetHeld ==
  ASSUME NEW o, Sized(o), Held(o), NEW f, f = [k \in 1..Len(o.mem) |-> f[k]]
  PROVE  Held([o EXCEPT !.mem = f])
<1>1. [o EXCEPT !.mem = f].mem = f /\ [o EXCEPT !.mem = f].size = o.size
  BY DEF Sized
<1>2. Len(f) = Len(o.mem)
  BY DEF Held
<1> QED BY <1>1, <1>2 DEF Held

LEMMA ResizedHeld ==
  ASSUME NEW o, Sized(o), Held(o), NEW n \in Nat
  PROVE  Held(Resized(o, n))
<1> DEFINE f == [k \in 1..RoundUp(n) |-> IF k <= o.size THEN o.mem[k] ELSE 0]
<1>1. RoundUp(n) \in Nat /\ n <= RoundUp(n)
  BY RoundUpHolds
<1>2. CASE n > Capacity(o)
  <2>1. Len(f) = RoundUp(n)
    BY <1>1
  <2>2. Resized(o, n) = [o EXCEPT !.size = n, !.mem = f]
    BY <1>2 DEF Resized
  <2> HIDE DEF f
  <2>3. Resized(o, n).mem = f /\ Resized(o, n).size = n
    BY <2>2 DEF Sized
  <2> QED BY <1>1, <2>1, <2>3 DEF Held
<1>3. CASE ~(n > Capacity(o))
  <2>1. Resized(o, n) = [o EXCEPT !.size = n]
    BY <1>3 DEF Resized
  <2>2. Resized(o, n).mem = o.mem /\ Resized(o, n).size = n
    BY <2>1 DEF Sized
  <2> QED BY <1>3, <2>2 DEF Held, Capacity
<1> QED BY <1>2, <1>3

LEMMA ExtendedHeld ==
  ASSUME NEW o, Sized(o), Held(o), NEW n, o.size + n \in Nat, NEW mem
  PROVE  Held(Extended(o, n, mem)) /\ Extended(o, n, mem).size = o.size + n
<1> DEFINE g == Resized(o, o.size + n)
           x == [k \in 1..Len(g.mem) |->
                   IF k > o.size /\ k <= o.size + n
                   THEN mem[k - o.size] ELSE g.mem[k]]
<1>1. Sized(g) /\ Held(g) /\ g.size = o.size + n
  BY ResizedSized, ResizedHeld
<1>2. Extended(o, n, mem) = [g EXCEPT !.mem = x]
  BY DEF Extended
<1>3. x = [k \in 1..Len(g.mem) |-> x[k]]
  OBVIOUS
<1> HIDE DEF g, x
<1> QED BY <1>1, <1>2, <1>3, SetHeld, SetBuffer

LEMMA AppendedHeld ==
  ASSUME NEW o, Sized(o), Held(o), NEW v
  PROVE  Held(Appended(o, v)) /\ Appended(o, v).size = o.size + 1
<1> DEFINE g == IF o.size = Capacity(o) THEN Resized(o, o.size + 1)
                ELSE [o EXCEPT !.size = @ + 1]
           x == Write(g.mem, g.size, CastTo(o.dt, v))
<1>1. o.size + 1 \in Nat
  BY DEF Sized
<1>2. Sized(g) /\ Held(g) /\ g.size = o.size + 1
  <2>1. CASE o.size = Capacity(o)
    BY <1>1, <2>1, ResizedSized, ResizedHeld
  <2>2. CASE o.size # Capacity(o)
    <3> DEFINE e == [o EXCEPT !.size = @ + 1]
    <3>1. Sized(e) /\ e.size = o.size + 1 /\ e.mem = o.mem
      BY <1>1 DEF Sized
    <3>2. o.size + 1 <= Len(o.mem)
      BY <2>2 DEF Sized, Held, Capacity
    <3>3. g = e
      BY <2>2
    <3> HIDE DEF e, g
    <3> QED BY <3>1, <3>2, <3>3 DEF Held
  <2> QED BY <2>1, <2>2
<1>3. Appended(o, v) = [g EXCEPT !.mem = x]
  BY DEF Appended
<1>4. x = [k \in 1..Len(g.mem) |-> x[k]]
  BY DEF Write
<1> HIDE DEF g, x
<1> QED BY <1>2, <1>3, <1>4, SetHeld, SetBuffer

LEMMA MovedHeld ==
  ASSUME NEW t, NEW o, Sized(o), Held(o)
  PROVE  Held(Moved(t, o)) /\ Held(ContiStore(t, o))
<1> DEFINE x == MoveMemory(o.mem, Compose(t.shape, t.inv), t.mapper, Raw)
<1>1. x = [k \in 1..Len(o.mem) |-> x[k]]
  BY DEF MoveMemory
<1>2. Moved(t, o) = [o EXCEPT !.mem = x]
  BY DEF Moved
<1> HIDE DEF x
<1> QED BY <1>1, <1>2, SetHeld DEF ContiStore

LEMMA WritesHeld ==
  ASSUME NEW o, Sized(o), Held(o), NEW k, NEW v
  PROVE  /\ Held(ItemSet(o, k, v)) /\ ItemSet(o, k, v).size = o.size
         /\ Held(Filled(o, v)) /\ Filled(o, v).size = o.size
         /\ Held(Cloned(o))
<1>1. Held(ItemSet(o, k, v)) /\ ItemSet(o, k, v).size = o.size
  <2> DEFINE x == Write(o.mem, k + 1, CastTo(o.dt, v))
  <2>1. x = [j \in 1..Len(o.mem) |-> x[j]]
    BY DEF Write
  <2>2. ItemSet(o, k, v) = [o EXCEPT !.mem = x]
    BY DEF ItemSet
  <2> HIDE DEF x
  <2> QED BY <2>1, <2>2, SetHeld, SetBuffer
<1>2. Held(Filled(o, v)) /\ Filled(o, v).size = o.size
  <2> DEFINE x == [j \in 1..Len(o.mem) |->
                     IF j <= o.size THEN CastTo(o.dt, v) ELSE o.mem[j]]
  <2>1. x = [j \in 1..Len(o.mem) |-> x[j]]
    OBVIOUS
  <2>2. Filled(o, v) = [o EXCEPT !.mem = x]
    BY DEF Filled
  <2> HIDE DEF x
  <2> QED BY <2>1, <2>2, SetHeld, SetBuffer
<1>3. Held(Cloned(o))
  <2> DEFINE x == [j \in 1..RoundUp(o.size) |->
                     IF j <= o.size THEN o.mem[j] ELSE 0]
  <2>1. RoundUp(o.size) \in Nat /\ o.size <= RoundUp(o.size)
    BY RoundUpHolds DEF Sized
  <2>2. Len(x) = RoundUp(o.size)
    BY <2>1
  <2>3. Cloned(o) = [o EXCEPT !.mem = x]
    BY DEF Cloned
  <2> HIDE DEF x
  <2>4. Cloned(o).mem = x /\ Cloned(o).size = o.size
    BY <2>3 DEF Sized
  <2> QED BY <2>1, <2>2, <2>4 DEF Held
<1> QED BY <1>1, <1>2, <1>3

LEMMA AddedHeld ==
  ASSUME NEW l, Sized(l), Held(l), NEW lt, NEW rt, NEW r
  PROVE  Held(Added(lt, l, rt, r)) /\ Added(lt, l, rt, r).size = l.size
<1> DEFINE Term(j) == IF r.size = 1 THEN r.mem[1]
                      ELSE r.mem[RightPlace(lt, rt,
                             CHOOSE k \in 1..l.size : LeftPlace(lt, rt, k) = j)]
           x == [j \in 1..Len(l.mem) |->
                   IF j <= l.size THEN l.mem[j] + Term(j) ELSE l.mem[j]]
<1>1. Added(lt, l, rt, r) = [l EXCEPT !.mem = x]
  BY DEF Added
<1> HIDE DEF Term
<1>2. x = [j \in 1..Len(l.mem) |-> x[j]]
  OBVIOUS
<1> HIDE DEF x
<1> QED BY <1>1, <1>2, SetHeld, SetBuffer

LEMMA NewHeld ==
  ASSUME NEW dt, NEW n \in Nat, NEW z, NEW v, Len(v) \in Nat
  PROVE  /\ Held(Blank(dt, n, z)) /\ Blank(dt, n, z).size = n
         /\ Held(FromVector(dt, v)) /\ FromVector(dt, v).size = Len(v)
<1>1. /\ RoundUp(n) \in Nat /\ n <= RoundUp(n)
      /\ RoundUp(Len(v)) \in Nat /\ Len(v) <= RoundUp(Len(v))
  BY RoundUpHolds
<1>2. Len(Blank(dt, n, z).mem) = RoundUp(n) /\ Blank(dt, n, z).size = n
  BY <1>1 DEF Blank
<1>3. /\ Len(FromVector(dt, v).mem) = RoundUp(Len(v))
      /\ FromVector(dt, v).size = Len(v)
  BY <1>1 DEF FromVector
<1> QED BY <1>1, <1>2, <1>3 DEF Held

\* A commit of impls that fit their storages.
LEMMA CommitSize ==
  ASSUME NEW r, r \in [Handles -> Impls \cup {Void}], NEW im, NEW hp, NEW tn,
         \A i \in Live(r) :
           /\ im[i].st \in Stores /\ Held(hp[im[i].st])
           /\ i \notin tn => Prod(im[i].shape) = hp[im[i].st].size,
         Commit(r, im, hp, tn)
  PROVE  SizeInv'
<1>1. Live(ref)' = Live(r) /\ Live(r) \subseteq Impls
  BY DEF Commit, Live
<1>2. \A i \in Live(r) : impl'[i] = im[i]
  BY <1>1 DEF Commit
<1>3. \A i \in Live(r) : heap'[im[i].st] = hp[im[i].st]
  BY DEF Commit
<1>4. Intact' = Live(r) \ tn
  BY <1>1 DEF Intact, Commit
<1>5. \A i \in Live(r) : Held(heap'[impl'[i].st])
  BY <1>2, <1>3
<1>6. \A i \in Live(r) \ tn : Prod(impl'[i].shape) = heap'[impl'[i].st].size
  BY <1>2, <1>3
<1> QED BY <1>1, <1>4, <1>5, <1>6 DEF SizeInv, Held

\* A new impl on the storage s: a free one, or one that stays as large as it was.
LEMMA BindSize ==
  ASSUME IInv, SizeInv, NEW h \in Handles, NEW t \in MetaRecords,
         NEW s \in Stores, NEW o, Held(o), Prod(t.shape) = o.size,
         s \notin Used \/ o.size = heap[s].size,
         Bind(h, t, s, o)
  PROVE  SizeInv'
<1>1. PICK i \in Impls \ Live(ref) :
        Commit([ref EXCEPT ![h] = i], [impl EXCEPT ![i] = [t EXCEPT !.st = s]],
               [heap EXCEPT ![s] = o], torn)
  BY DEF Bind
<1> DEFINE r  == [ref EXCEPT ![h] = i]
           x  == [t EXCEPT !.st = s]
           im == [impl EXCEPT ![i] = x]
           hp == [heap EXCEPT ![s] = o]
<1>2. r \in [Handles -> Impls \cup {Void}]
  BY DEF IInv, TypeOK
<1>3. x.st = s /\ x.shape = t.shape
  BY DEF MetaRecords
<1>4. \A j \in Live(r) : j = i \/ j \in Live(ref)
  BY DEF Live, IInv, TypeOK
<1>5. hp[s] = o /\ \A q \in Stores \ {s} : hp[q] = heap[q]
  BY DEF IInv, TypeOK
<1> HIDE DEF x
<1>6. ASSUME NEW j \in Live(r)
      PROVE  /\ im[j].st \in Stores /\ Held(hp[im[j].st])
             /\ j \notin torn => Prod(im[j].shape) = hp[im[j].st].size
  <2>1. CASE j = i
    <3>1. im[j] = x
      BY <2>1 DEF IInv, TypeOK
    <3> QED BY <1>3, <1>5, <3>1
  <2>2. CASE j # i
    <3>1. j \in Live(ref)
      BY <1>4, <2>2
    <3>2. im[j] = impl[j] /\ impl[j].st \in Stores
      BY <2>2, <3>1, Existing DEF IInv, TypeOK
    <3>3. /\ Held(heap[impl[j].st])
          /\ j \notin torn => Prod(impl[j].shape) = heap[impl[j].st].size
      BY <3>1 DEF SizeInv, Intact
    <3>4. CASE impl[j].st = s
      <4>1. s \in Used
        BY <3>1, <3>4 DEF Used
      <4> QED BY <1>5, <3>2, <3>3, <3>4, <4>1
    <3>5. CASE impl[j].st # s
      BY <1>5, <3>2, <3>3, <3>5
    <3> QED BY <3>4, <3>5
  <2> QED BY <2>1, <2>2
<1> HIDE DEF r, im, hp
<1> QED BY <1>1, <1>2, <1>6, CommitSize DEF r, im, hp, x

\* A change of one impl, on a storage that nobody else refers to or that stays as
\* large as it was.
LEMMA UpdateSize ==
  ASSUME IInv, SizeInv, NEW h \in Handles, ref[h] # Void, NEW t \in MetaRecords,
         NEW s \in Stores, NEW o, Held(o), NEW tn,
         torn \ {ref[h]} \subseteq tn,
         ref[h] \notin tn => Prod(t.shape) = o.size,
         \/ \A j \in Live(ref) \ {ref[h]} : impl[j].st # s
         \/ o.size = heap[s].size,
         Update(h, t, s, o, tn)
  PROVE  SizeInv'
<1> DEFINE x  == [t EXCEPT !.st = s]
           im == [impl EXCEPT ![ref[h]] = x]
           hp == [heap EXCEPT ![s] = o]
<1>1. ref \in [Handles -> Impls \cup {Void}] /\ Commit(ref, im, hp, tn)
  BY DEF IInv, TypeOK, Update
<1>2. x.st = s /\ x.shape = t.shape
  BY DEF MetaRecords
<1>3. hp[s] = o /\ \A q \in Stores \ {s} : hp[q] = heap[q]
  BY DEF IInv, TypeOK
<1> HIDE DEF x
<1>4. ASSUME NEW j \in Live(ref)
      PROVE  /\ im[j].st \in Stores /\ Held(hp[im[j].st])
             /\ j \notin tn => Prod(im[j].shape) = hp[im[j].st].size
  <2>1. CASE j = ref[h]
    <3>1. im[j] = x
      BY <2>1, Existing DEF IInv, TypeOK
    <3> QED BY <1>2, <1>3, <2>1, <3>1
  <2>2. CASE j # ref[h]
    <3>1. im[j] = impl[j] /\ impl[j].st \in Stores
      BY <2>2, Existing DEF IInv, TypeOK
    <3>2. /\ Held(heap[impl[j].st])
          /\ j \notin tn => Prod(impl[j].shape) = heap[impl[j].st].size
      BY <2>2 DEF SizeInv, Intact
    <3>3. CASE impl[j].st = s
      BY <1>3, <2>2, <3>1, <3>2, <3>3
    <3>4. CASE impl[j].st # s
      BY <1>3, <3>1, <3>2, <3>4
    <3> QED BY <3>3, <3>4
  <2> QED BY <2>1, <2>2
<1> HIDE DEF im, hp
<1> QED BY <1>1, <1>4, CommitSize

\* contiguous_ and a change of the impl.
LEMMA SettleSize ==
  ASSUME IInv, SizeInv, NEW h \in Handles, ref[h] # Void, NEW t \in MetaRecords,
         NEW o, Held(o), NEW tn,
         torn \ {ref[h]} \subseteq tn,
         ref[h] \notin tn => Prod(t.shape) = o.size,
         \/ ~T(h).conti
         \/ \A j \in Live(ref) \ {ref[h]} : impl[j].st # T(h).st
         \/ o.size = S(h).size,
         Settle(h, t, o, tn)
  PROVE  SizeInv'
<1>1. PICK s \in IF T(h).conti THEN {T(h).st} ELSE Stores \ Used :
        Update(h, t, s, o, tn)
  BY DEF Settle
<1>2. T(h).st \in Stores /\ s \in Stores
  BY Refers
<1>3. CASE T(h).conti
  BY <1>1, <1>2, <1>3, UpdateSize DEF S
<1>4. CASE ~T(h).conti
  <2>1. \A j \in Live(ref) \ {ref[h]} : impl[j].st # s
    BY <1>1, <1>4 DEF Used
  <2> QED BY <1>1, <1>2, <2>1, UpdateSize
<1> QED BY <1>3, <1>4

\* What is known of a variable that is set.
LEMMA Whereabouts ==
  ASSUME IInv, SizeInv, NEW h \in Handles, ref[h] # Void
  PROVE  /\ Sized(S(h)) /\ S(h).size \in Nat /\ Held(S(h))
         /\ T(h) \in ImplRecords /\ T(h) \in MetaRecords /\ T(h).st \in Stores
         /\ T(h).shape \in Seq(Nat) /\ T(h).shape \in Seq(Int)
         /\ heap[T(h).st] = S(h)
         /\ ref[h] \notin torn => Prod(T(h).shape) = S(h).size /\ Laid(T(h))
<1>1. ref[h] \in Live(ref)
  BY Refers
<1>2. Held(S(h)) /\ (ref[h] \notin torn => Prod(T(h).shape) = S(h).size)
  BY <1>1 DEF SizeInv, Intact, S, T
<1>3. T(h).shape \in Seq(Nat)
  BY Refers DEF ImplRecords
<1>4. T(h).shape \in Seq(Int)
  BY <1>3
<1> QED BY <1>2, <1>3, <1>4, Refers DEF Sized, S

\* Ranking the axes leaves the number of elements.
LEMMA PermutedSize ==
  ASSUME NEW t \in ImplRecords,
         NEW p \in Seq(Nat \ {0}), IsInjective(p), Len(p) = Len(t.shape),
         \A i \in 1..Len(p) : p[i] <= Len(p)
  PROVE  Prod(Permuted(t, p).shape) = Prod(t.shape)
<1>1. t.shape \in Seq(Int)
  <2>1. t.shape \in Seq(Nat)
    BY DEF ImplRecords
  <2> QED BY <2>1
<1>2. p \in Perms(Len(t.shape))
  BY DEF Perms, IsInjective
<1>3. Permuted(t, p).shape = Compose(t.shape, p)
  BY DEF Permuted, ImplRecords
<1>4. Prod(Compose(t.shape, p)) = Prod(t.shape)
  BY <1>1, <1>2, ProdPermuted
<1> QED BY <1>3, <1>4

\* A shape that reshape accepts has as many elements as the storage.
LEMMA SettledSize ==
  ASSUME OneOpen, NEW ns \in NewShapes, NEW d \in Nat, NEW n \in Nat,
         Resolves(ns, d, n)
  PROVE  Prod(Settled(ns, d)) = n
<1> DEFINE b == [i \in 1..Len(ns) |-> IF ns[i] < 0 THEN 1 ELSE ns[i]]
           t == Settled(ns, d)
<1>1. ns \in Seq(Int) /\ Len(ns) \in Nat
  BY TensorAssumption
<1>2. /\ b \in Seq(Int) /\ Len(b) = Len(ns)
      /\ \A i \in 1..Len(ns) : b[i] = IF ns[i] < 0 THEN 1 ELSE ns[i]
  BY <1>1
<1>3. NewN(ns) = Prod(b)
  BY DEF NewN
<1>4. t \in Seq(Int) /\ Len(t) = Len(ns)
  <2>1. t \in Seq(Nat)
    BY SettledSeq
  <2>2. Len(t) = Len(ns)
    BY <1>1 DEF Settled
  <2> QED BY <2>1, <2>2
<1>5. \A i \in 1..Len(ns) :
        t[i] = CASE ns[i] >= 0 -> ns[i]
                 [] ns[i] < 0 /\ \E j \in Undetermined(ns) : j > i -> UMax
                 [] OTHER -> d
  BY DEF Settled
<1> HIDE DEF b, t
<1>6. CASE Undetermined(ns) = {}
  <2>1. \A i \in 1..Len(ns) : ns[i] >= 0
    BY <1>1, <1>6 DEF Undetermined
  <2>2. \A i \in 1..Len(ns) : t[i] = b[i]
    BY <1>1, <1>2, <1>5, <2>1
  <2>3. t = b
    BY <1>2, <1>4, <2>2, SeqEqual
  <2>4. NewN(ns) = n
    BY <1>6 DEF Resolves
  <2> QED BY <1>3, <2>3, <2>4 DEF t
<1>7. CASE Undetermined(ns) # {}
  <2>1. PICK i \in Undetermined(ns) : TRUE
    BY <1>7
  <2>2. /\ i \in 1..Len(ns) /\ ns[i] < 0
        /\ \A j \in Undetermined(ns) : j = i
    BY <2>1 DEF Undetermined, OneOpen
  <2>3. t[i] = d
    BY <1>1, <1>5, <2>2
  <2>4. \A j \in 1..Len(ns) : j # i => t[j] = b[j]
    <3>1. SUFFICES ASSUME NEW j \in 1..Len(ns), j # i PROVE t[j] = b[j]
      OBVIOUS
    <3>2. ns[j] >= 0
      BY <1>1, <2>2, <3>1 DEF Undetermined
    <3> QED BY <1>1, <1>2, <1>5, <3>2
  <2>5. b[i] = 1
    BY <1>2, <2>2
  <2>6. i \in 1..Len(b) /\ Len(t) = Len(b)
    BY <1>2, <1>4, <2>2
  <2>7. Prod(t) = Prod(b) * t[i]
    BY <1>2, <1>4, <2>4, <2>5, <2>6, ProdReplaced
  <2>8. NewN(ns) * d = n
    BY <1>7 DEF Resolves
  <2> QED BY <1>3, <2>3, <2>7, <2>8 DEF t
<1> QED BY <1>6, <1>7

LEMMA PlainShape == \A w : Plain(w).shape = w
BY DEF Plain

\* Construction and copies.
LEMMA CopiesSize ==
  ASSUME IInv, SizeInv, NEW h \in Handles, NEW g \in Handles,
         \/ \E shape \in Shapes : Construct(h, shape)
         \/ \E n \in Sizes : FromVec(h, n)
         \/ FromStorage(h, g) \/ Assign(h, g) \/ Clone(h, g)
         \/ Contiguous(h, g) \/ Flatten(h, g)
  PROVE  SizeInv'
<1>1. ASSUME NEW t \in MetaRecords, NEW o, Held(o), Prod(t.shape) = o.size,
             BindFresh(h, t, o)
      PROVE  SizeInv'
  BY <1>1, BindSize DEF BindFresh
<1>2. ASSUME NEW shape \in Shapes, Construct(h, shape) PROVE SizeInv'
  <2> DEFINE o == Blank("Int64", Prod(shape), TRUE)
  <2>1. Prod(shape) \in Nat /\ BindFresh(h, Plain(shape), o)
    <3>1. Prod(shape) \in 0..MaxSize /\ BindFresh(h, Plain(shape), o)
      BY <1>2 DEF Construct
    <3> HIDE DEF o
    <3> QED BY <3>1, TensorAssumption
  <2>2. Held(o) /\ o.size = Prod(shape)
    <3>1. Len(<<>>) \in Nat
      OBVIOUS
    <3> QED BY <2>1, <3>1, NewHeld
  <2>3. Plain(shape) \in MetaRecords /\ Plain(shape).shape = shape
    BY PlainLaid, PlainShape, TensorAssumption
  <2> HIDE DEF o
  <2> QED BY <1>1, <2>1, <2>2, <2>3
<1>3. ASSUME NEW n \in Sizes, FromVec(h, n) PROVE SizeInv'
  <2> DEFINE v == [k \in 1..n |-> k - 1]
             o == FromVector("Int64", v)
  <2>1. n \in Nat /\ Len(v) = n
    BY TensorAssumption
  <2>2. BindFresh(h, Plain(<<n>>), o)
    BY <1>3 DEF FromVec
  <2> HIDE DEF v
  <2>3. Held(o) /\ o.size = n
    BY <2>1, NewHeld
  <2> HIDE DEF o
  <2>4. Plain(<<n>>) \in MetaRecords /\ Plain(<<n>>).shape = <<n>>
    <3>1. <<n>> \in Seq(Nat)
      BY <2>1
    <3> QED BY <3>1, PlainLaid, PlainShape
  <2>5. Prod(<<n>>) = n
    BY <2>1, ProdShort
  <2> QED BY <1>1, <2>2, <2>3, <2>4, <2>5
<1>4. ASSUME Whole(g)
      PROVE  /\ ref[g] # Void /\ T(g) \in ImplRecords /\ T(g) \in MetaRecords
             /\ T(g).st \in Stores /\ heap[T(g).st] = S(g) /\ Laid(T(g))
             /\ Sized(S(g)) /\ Held(S(g)) /\ Prod(T(g).shape) = S(g).size
             /\ Plain(<<S(g).size>>) \in MetaRecords
             /\ Prod(Plain(<<S(g).size>>).shape) = S(g).size
  <2>1. /\ ref[g] # Void /\ T(g) \in ImplRecords /\ T(g) \in MetaRecords
        /\ T(g).st \in Stores /\ heap[T(g).st] = S(g) /\ Laid(T(g))
        /\ Sized(S(g)) /\ Held(S(g)) /\ Prod(T(g).shape) = S(g).size
        /\ S(g).size \in Nat
    BY <1>4, Whereabouts DEF Whole
  <2>2. <<S(g).size>> \in Seq(Nat) /\ Prod(<<S(g).size>>) = S(g).size
    BY <2>1, ProdShort
  <2> QED BY <2>1, <2>2, PlainLaid, PlainShape
<1>5. CASE FromStorage(h, g)
  <2>1. Bind(h, Plain(<<S(g).size>>), T(g).st, S(g)) /\ Whole(g)
    BY <1>5 DEF FromStorage
  <2> QED BY <1>4, <2>1, BindSize
<1>6. CASE Assign(h, g)
  <2> DEFINE r == [ref EXCEPT ![h] = ref[g]]
  <2>1. r \in [Handles -> Impls \cup {Void}] /\ Live(r) \subseteq Live(ref)
    BY <1>6 DEF Assign, IInv, TypeOK, Live
  <2>2. Commit(r, impl, heap, torn)
    BY <1>6 DEF Assign
  <2> HIDE DEF r
  <2>3. ASSUME NEW i \in Live(r)
        PROVE  /\ impl[i].st \in Stores /\ Held(heap[impl[i].st])
               /\ i \notin torn => Prod(impl[i].shape) = heap[impl[i].st].size
    BY <2>1, Existing DEF SizeInv, Intact
  <2> QED BY <2>1, <2>2, <2>3, CommitSize
<1>7. CASE Clone(h, g)
  <2>1. BindFresh(h, T(g), Cloned(S(g))) /\ Whole(g)
    BY <1>7 DEF Clone
  <2>2. Held(Cloned(S(g))) /\ Cloned(S(g)).size = S(g).size
    BY <1>4, <2>1, WritesHeld, WritesSized
  <2> QED BY <1>1, <1>4, <2>1, <2>2
<1>8. CASE Contiguous(h, g)
  <2>1. BindFresh(h, ContiMeta(T(g)), Moved(T(g), S(g))) /\ Whole(g)
    BY <1>8 DEF Contiguous
  <2>2. ContiMeta(T(g)) \in MetaRecords /\ ContiMeta(T(g)).shape = T(g).shape
    BY <1>4, <2>1, ContiLaid
  <2>3. Held(Moved(T(g), S(g))) /\ Moved(T(g), S(g)).size = S(g).size
    BY <1>4, <2>1, MovedHeld, MovedSized
  <2> QED BY <1>1, <1>4, <2>1, <2>2, <2>3
<1>9. CASE Flatten(h, g)
  <2> DEFINE c == Cloned(S(g))
             o == ContiStore(T(g), c)
  <2>1. BindFresh(h, Plain(<<S(g).size>>), o) /\ Whole(g)
    BY <1>9 DEF Flatten
  <2>2. Sized(c) /\ Held(c) /\ c.size = S(g).size
    BY <1>4, <2>1, WritesHeld, WritesSized
  <2> HIDE DEF c
  <2>3. Held(o) /\ o.size = S(g).size
    BY <2>2, MovedHeld, MovedSized
  <2> HIDE DEF o
  <2> QED BY <1>1, <1>4, <2>1, <2>3
<1> QED BY <1>2, <1>3, <1>5, <1>6, <1>7, <1>8, <1>9

\* permute.
LEMMA PermutesSize ==
  ASSUME IInv, SizeInv, NEW h \in Handles, NEW g \in Handles, NEW p \in Rankings,
         \/ Permute(h, g, p) \/ Permute_(h, p)
         \/ \E n \in 1..Len(p) : PermuteThrows(h, p, n)
  PROVE  SizeInv'
<1>1. p \in Seq(Nat \ {0}) /\ IsInjective(p)
  BY TensorAssumption
<1>2. ASSUME NEW k \in Handles, Whole(k), Len(p) = Len(T(k).shape),
             \A i \in 1..Len(p) : p[i] <= Len(p)
      PROVE  /\ ref[k] # Void /\ T(k).st \in Stores /\ heap[T(k).st] = S(k)
             /\ Held(S(k)) /\ Permuted(T(k), p) \in MetaRecords
             /\ Prod(Permuted(T(k), p).shape) = S(k).size
  <2>1. /\ ref[k] # Void /\ T(k) \in ImplRecords /\ T(k) \in MetaRecords
        /\ Laid(T(k))
        /\ T(k).st \in Stores /\ heap[T(k).st] = S(k)
        /\ Held(S(k)) /\ Prod(T(k).shape) = S(k).size
    BY <1>2, Whereabouts DEF Whole
  <2>2. Permuted(T(k), p) \in MetaRecords
    BY <1>1, <1>2, <2>1, PermutedLaid
  <2>3. Prod(Permuted(T(k), p).shape) = Prod(T(k).shape)
    BY <1>1, <1>2, <2>1, PermutedSize
  <2> QED BY <2>1, <2>2, <2>3
<1>3. CASE Permute(h, g, p)
  <2>1. /\ Whole(g) /\ Len(p) = Len(T(g).shape)
        /\ \A i \in 1..Len(p) : p[i] <= Len(p)
        /\ Bind(h, Permuted(T(g), p), T(g).st, S(g))
    BY <1>3 DEF Permute
  <2> QED BY <1>2, <2>1, BindSize
<1>4. CASE Permute_(h, p)
  <2>1. /\ Whole(h) /\ Len(p) = Len(T(h).shape)
        /\ \A i \in 1..Len(p) : p[i] <= Len(p)
        /\ Update(h, Permuted(T(h), p), T(h).st, S(h), torn)
    BY <1>4 DEF Permute_
  <2> QED BY <1>2, <2>1, UpdateSize
<1>5. ASSUME NEW n \in 1..Len(p), PermuteThrows(h, p, n)
      PROVE  SizeInv'
  <2> DEFINE m == [i \in 1..n |-> T(h).mapper[p[i]]]
             t == [T(h) EXCEPT !.inv = Scattered(@, m, n)]
  <2>1. /\ ref[h] # Void /\ T(h) \in ImplRecords /\ T(h).st \in Stores
        /\ heap[T(h).st] = S(h) /\ Held(S(h))
    BY <1>5, Whereabouts DEF PermuteThrows, Whole
  <2>2. Update(h, t, T(h).st, S(h), torn \cup {ref[h]})
    BY <1>5 DEF PermuteThrows
  <2> HIDE DEF m
  <2>3. Scattered(T(h).inv, m, n) \in Seq(Nat)
    BY <2>1, ScatteredSeq DEF ImplRecords
  <2>4. t \in MetaRecords
    BY <2>1, <2>3 DEF ImplRecords, MetaRecords
  <2> HIDE DEF t
  <2> QED BY <2>1, <2>2, <2>4, UpdateSize
<1> QED BY <1>3, <1>4, <1>5

\* contiguous_.
LEMMA ContiguousSize ==
  ASSUME IInv, SizeInv, NEW h \in Handles, Contiguous_(h)
  PROVE  SizeInv'
<1>1. /\ ref[h] # Void /\ T(h) \in ImplRecords /\ Laid(T(h))
      /\ Sized(S(h)) /\ Held(S(h)) /\ Prod(T(h).shape) = S(h).size
  BY Whereabouts DEF Contiguous_, Whole
<1>2. ContiMeta(T(h)) \in MetaRecords /\ ContiMeta(T(h)).shape = T(h).shape
  BY <1>1, ContiLaid
<1>3. Settle(h, ContiMeta(T(h)), Moved(T(h), S(h)), torn)
  BY DEF Contiguous_
<1>4. Held(Moved(T(h), S(h))) /\ Moved(T(h), S(h)).size = S(h).size
  BY <1>1, MovedHeld, MovedSized
<1> QED BY <1>1, <1>2, <1>3, <1>4, SettleSize

\* reshape, with at most one dimension left open.
LEMMA ReshapesSize ==
  ASSUME IInv, SizeInv, OneOpen,
         NEW h \in Handles, NEW g \in Handles, NEW ns \in NewShapes,
         Reshape(h, g, ns) \/ Reshape_(h, ns) \/ ReshapeThrows(h, ns)
  PROVE  SizeInv'
<1>1. 0..MaxSize \subseteq Nat /\ UMax \in Nat
  BY TensorAssumption
<1>2. ASSUME NEW d \in 0..MaxSize, NEW n \in Nat, Resolves(ns, d, n)
      PROVE  /\ Plain(Settled(ns, d)) \in MetaRecords
             /\ Prod(Plain(Settled(ns, d)).shape) = n
  <2>1. Settled(ns, d) \in Seq(Nat)
    BY <1>1, SettledSeq
  <2>2. Prod(Settled(ns, d)) = n
    BY <1>1, <1>2, SettledSize
  <2> QED BY <2>1, <2>2, PlainLaid, PlainShape
<1>3. ASSUME NEW k \in Handles, ref[k] # Void
      PROVE  /\ T(k).st \in Stores /\ heap[T(k).st] = S(k)
             /\ Sized(S(k)) /\ Held(S(k)) /\ S(k).size \in Nat
             /\ Held(Moved(T(k), S(k))) /\ Moved(T(k), S(k)).size = S(k).size
             /\ Held(ContiStore(T(k), S(k)))
             /\ ContiStore(T(k), S(k)).size = S(k).size
  BY <1>3, Whereabouts, MovedHeld, MovedSized
<1>4. CASE Reshape(h, g, ns)
  <2>1. ref[g] # Void
    BY <1>4 DEF Reshape, Whole
  <2>2. PICK d \in 0..MaxSize :
          /\ Resolves(ns, d, S(g).size)
          /\ IF T(g).conti
             THEN Bind(h, Plain(Settled(ns, d)), T(g).st, S(g))
             ELSE BindFresh(h, Plain(Settled(ns, d)), Moved(T(g), S(g)))
    BY <1>4 DEF Reshape
  <2> DEFINE t == Plain(Settled(ns, d))
  <2>3. t \in MetaRecords /\ Prod(t.shape) = S(g).size
    BY <1>2, <1>3, <2>1, <2>2
  <2>4. \/ Bind(h, t, T(g).st, S(g))
        \/ \E s \in Stores \ Used : Bind(h, t, s, Moved(T(g), S(g)))
    BY <2>2 DEF BindFresh
  <2> HIDE DEF t
  <2>5. CASE Bind(h, t, T(g).st, S(g))
    BY <1>3, <2>1, <2>3, <2>5, BindSize
  <2>6. CASE \E s \in Stores \ Used : Bind(h, t, s, Moved(T(g), S(g)))
    BY <1>3, <2>1, <2>3, <2>6, BindSize
  <2> QED BY <2>4, <2>5, <2>6
<1>5. CASE Reshape_(h, ns)
  <2>1. ref[h] # Void
    BY <1>5 DEF Reshape_
  <2>2. PICK d \in 0..MaxSize :
          /\ Resolves(ns, d, S(h).size)
          /\ Settle(h, Plain(Settled(ns, d)), ContiStore(T(h), S(h)),
                    torn \ {ref[h]})
    BY <1>5 DEF Reshape_
  <2> DEFINE t == Plain(Settled(ns, d))
             o == ContiStore(T(h), S(h))
             tn == torn \ {ref[h]}
  <2>3. t \in MetaRecords /\ Prod(t.shape) = S(h).size
    BY <1>2, <1>3, <2>1, <2>2
  <2>4. Held(o) /\ o.size = S(h).size
    BY <1>3, <2>1
  <2>5. Settle(h, t, o, tn) /\ torn \ {ref[h]} \subseteq tn
    BY <2>2
  <2> HIDE DEF t, o, tn
  <2> QED BY <2>1, <2>3, <2>4, <2>5, SettleSize
<1>6. CASE ReshapeThrows(h, ns)
  <2> DEFINE t == [ContiMeta(T(h)) EXCEPT !.shape = Settled(ns, UMax)]
             o == ContiStore(T(h), S(h))
             tn == torn \cup {ref[h]}
  <2>1. ref[h] # Void /\ T(h) \in ImplRecords /\ T(h) \in MetaRecords
    BY <1>6, Whereabouts DEF ReshapeThrows
  <2>2. ContiMeta(T(h)) \in MetaRecords
    <3>1. CASE T(h).conti
      BY <2>1, <3>1 DEF ContiMeta
    <3>2. CASE ~T(h).conti
      BY <2>1, <3>2, ContiLaid
    <3> QED BY <3>1, <3>2
  <2>3. t \in MetaRecords
    BY <1>1, <2>2, SettledSeq DEF MetaRecords
  <2>4. Held(o) /\ o.size = S(h).size
    BY <1>3, <2>1
  <2>5. Settle(h, t, o, tn) /\ torn \ {ref[h]} \subseteq tn /\ ref[h] \in tn
    BY <1>6 DEF ReshapeThrows
  <2> HIDE DEF t, o, tn
  <2> QED BY <2>1, <2>3, <2>4, <2>5, SettleSize
<1> QED BY <1>4, <1>5, <1>6

\* Writes and sums.
LEMMA WritesSize ==
  ASSUME IInv, SizeInv, NEW h \in Handles, NEW g \in Handles, NEW v, NEW n,
         SetItem(h, n, v) \/ Fill(h, v) \/ AddScalar(h, v) \/ AddTensor(h, g)
  PROVE  SizeInv'
<1>1. /\ ref[h] # Void /\ T(h) \in MetaRecords /\ T(h).st \in Stores
      /\ heap[T(h).st] = S(h) /\ Sized(S(h)) /\ Held(S(h))
      /\ S(h).size \in Nat /\ Prod(T(h).shape) = S(h).size
  BY Whereabouts DEF SetItem, Fill, AddScalar, AddTensor, Whole
<1>2. ASSUME NEW o, Held(o), o.size = S(h).size, Update(h, T(h), T(h).st, o, torn)
      PROVE  SizeInv'
  BY <1>1, <1>2, UpdateSize
<1>3. CASE SetItem(h, n, v)
  <2> DEFINE k == Places(T(h))[n] - 1
  <2>1. Update(h, T(h), T(h).st, ItemSet(S(h), k, v), torn)
    BY <1>3 DEF SetItem
  <2> HIDE DEF k
  <2> QED BY <1>1, <1>2, <2>1, WritesHeld
<1>4. CASE Fill(h, v)
  <2>1. Update(h, T(h), T(h).st, Filled(S(h), v), torn)
    BY <1>4 DEF Fill
  <2> QED BY <1>1, <1>2, <2>1, WritesHeld
<1>5. CASE AddScalar(h, v)
  <2> DEFINE x == [k \in 1..S(h).size |-> S(h).mem[k] + v]
             o == FromVector("Int64", x)
  <2>1. PICK s \in Stores \ Used : Update(h, T(h), s, o, torn)
    BY <1>5 DEF AddScalar
  <2>2. Len(x) = S(h).size
    BY <1>1
  <2> HIDE DEF x
  <2>3. Held(o) /\ o.size = S(h).size
    BY <1>1, <2>2, NewHeld
  <2>4. \A j \in Live(ref) \ {ref[h]} : impl[j].st # s
    BY <2>1 DEF Used
  <2> HIDE DEF o
  <2> QED BY <1>1, <2>1, <2>3, <2>4, UpdateSize
<1>6. CASE AddTensor(h, g)
  <2> DEFINE o == Added(T(h), S(h), T(g), S(g))
  <2>1. Update(h, T(h), T(h).st, o, torn)
    BY <1>6 DEF AddTensor
  <2>2. Held(o) /\ o.size = S(h).size
    BY <1>1, AddedHeld
  <2> HIDE DEF o
  <2> QED BY <1>2, <2>1, <2>2
<1> QED BY <1>3, <1>4, <1>5, <1>6

\* append, to a storage that no other tensor is on.
LEMMA AppendsSize ==
  ASSUME IInv, SizeInv, ~SharedGrow, NEW h \in Handles, NEW g \in Handles, NEW v,
         AppendTensor(h, g) \/ AppendStorage(h, g) \/ AppendScalar(h, v)
  PROVE  SizeInv'
<1>1. /\ ref[h] # Void /\ T(h) \in ImplRecords /\ Laid(T(h))
      /\ Sized(S(h)) /\ Held(S(h)) /\ S(h).size \in Nat
      /\ T(h).shape \in Seq(Int) /\ Prod(T(h).shape) = S(h).size
  BY Whereabouts DEF AppendTensor, AppendStorage, AppendScalar, Whole
<1>2. \/ ~T(h).conti
      \/ \A j \in Live(ref) \ {ref[h]} : impl[j].st # T(h).st
  BY DEF AppendTensor, AppendStorage, AppendScalar, MayGrow
<1> DEFINE c == ContiStore(T(h), S(h))
<1>3. Sized(c) /\ Held(c) /\ c.size = S(h).size
  BY <1>1, MovedHeld, MovedSized
<1>4. /\ Grown(T(h)) \in MetaRecords
      /\ Grown(T(h)).shape = [T(h).shape EXCEPT ![1] = @ + 1]
  BY <1>1, GrownLaid
<1>5. ASSUME NEW n \in Nat, T(h).shape # <<>>, n = Prod(Tail(T(h).shape)),
             NEW o, Held(o), o.size = S(h).size + n,
             Settle(h, Grown(T(h)), o, torn)
      PROVE  SizeInv'
  <2>1. Prod(Grown(T(h)).shape) = o.size
    BY <1>1, <1>4, <1>5, ProdGrown
  <2> QED BY <1>1, <1>2, <1>4, <1>5, <2>1, SettleSize
<1>6. CASE AppendTensor(h, g)
  <2> DEFINE w == T(g).shape
             n == Prod(w)
             o == Extended(c, n, S(g).mem)
  <2>1. /\ Whole(g) /\ Len(w) > 0 /\ w = Tail(T(h).shape)
        /\ Settle(h, Grown(T(h)), o, torn)
    BY <1>6 DEF AppendTensor
  <2>2. w \in Seq(Nat)
    BY <2>1, Whereabouts DEF Whole
  <2>3. n \in Nat
    BY <2>2, ProdNat
  <2>4. T(h).shape # <<>>
    <3>1. CASE T(h).shape = <<>>
      BY <1>6, <3>1, Whereabouts DEF AppendTensor, Whole
    <3> QED BY <3>1
  <2> HIDE DEF w, n, c
  <2>5. Held(o) /\ o.size = S(h).size + n
    <3>1. c.size + n \in Nat
      BY <1>1, <1>3, <2>3
    <3> QED BY <1>3, <3>1, ExtendedHeld
  <2>6. n = Prod(Tail(T(h).shape))
    BY <2>1 DEF n
  <2> HIDE DEF o
  <2> QED BY <1>5, <2>1, <2>3, <2>4, <2>5, <2>6
<1>7. CASE AppendStorage(h, g)
  <2> DEFINE n == S(g).size
             o == Extended(c, n, S(g).mem)
  <2>1. /\ Whole(g) /\ Len(T(h).shape) = 2 /\ T(h).shape[2] = n
        /\ Settle(h, Grown(T(h)), o, torn)
    BY <1>7 DEF AppendStorage
  <2>2. n \in Nat
    BY <2>1, Whereabouts DEF Whole
  <2>3. n = Prod(Tail(T(h).shape)) /\ T(h).shape # <<>>
    BY <1>1, <2>1, ProdRest
  <2> HIDE DEF n, c
  <2>4. Held(o) /\ o.size = S(h).size + n
    <3>1. c.size + n \in Nat
      BY <1>1, <1>3, <2>2
    <3> QED BY <1>3, <3>1, ExtendedHeld
  <2> HIDE DEF o
  <2> QED BY <1>5, <2>1, <2>2, <2>3, <2>4
<1>8. CASE AppendScalar(h, v)
  <2>1. Len(T(h).shape) = 1 /\ Settle(h, Grown(T(h)), Appended(S(h), v), torn)
    BY <1>8 DEF AppendScalar
  <2>2. Held(Appended(S(h), v)) /\ Appended(S(h), v).size = S(h).size + 1
    BY <1>1, AppendedHeld
  <2>3. T(h).shape # <<>> /\ 1 = Prod(Tail(T(h).shape))
    BY <1>1, <2>1, ProdRest
  <2> QED BY <1>5, <2>1, <2>2, <2>3
<1> QED BY <1>6, <1>7, <1>8

LEMMA NextSize ==
  ~SharedGrow /\ OneOpen /\ IInv /\ SizeInv /\ [Next]_vars => SizeInv'
<1> SUFFICES ASSUME ~SharedGrow, OneOpen, IInv, SizeInv, [Next]_vars
             PROVE  SizeInv'
  OBVIOUS
<1>1. CASE UNCHANGED vars
  BY <1>1 DEF vars, SizeInv, Live, Intact, Held
<1>2. CASE Next
  <2>1. PICK h \in Handles :
     \/ \E shape \in Shapes : Construct(h, shape)
     \/ \E n \in Sizes : FromVec(h, n)
     \/ Contiguous_(h)
     \/ \E g \in Handles : \/ FromStorage(h, g) \/ Assign(h, g) \/ Clone(h, g)
                           \/ Contiguous(h, g) \/ Flatten(h, g)
                           \/ AddTensor(h, g)
                           \/ AppendTensor(h, g) \/ AppendStorage(h, g)
     \/ \E rnks \in Rankings : \/ Permute_(h, rnks)
                               \/ \E n \in 1..Len(rnks) :
                                    PermuteThrows(h, rnks, n)
                               \/ \E g \in Handles : Permute(h, g, rnks)
     \/ \E ns \in NewShapes : \/ Reshape_(h, ns) \/ ReshapeThrows(h, ns)
                              \/ \E g \in Handles : Reshape(h, g, ns)
     \/ \E v \in Values : \/ Fill(h, v) \/ AddScalar(h, v) \/ AppendScalar(h, v)
                          \/ \E n \in 1..MaxSize : SetItem(h, n, v)
    BY <1>2 DEF Next
  <2>2. CASE (\E shape \in Shapes : Construct(h, shape)) \/ \E n \in Sizes : FromVec(h, n)
    BY <2>2, CopiesSize
  <2>3. CASE Contiguous_(h)
    BY <2>3, ContiguousSize
  <2>4. ASSUME NEW g \in Handles,
               \/ FromStorage(h, g) \/ Assign(h, g) \/ Clone(h, g)
               \/ Contiguous(h, g) \/ Flatten(h, g)
        PROVE  SizeInv'
    BY <2>4, CopiesSize
  <2>5. ASSUME NEW g \in Handles, AddTensor(h, g) PROVE SizeInv'
    BY <2>5, WritesSize
  <2>6. ASSUME NEW g \in Handles, AppendTensor(h, g) \/ AppendStorage(h, g)
        PROVE  SizeInv'
    BY <2>6, AppendsSize
  <2>7. ASSUME NEW rnks \in Rankings,
               \/ Permute_(h, rnks)
               \/ \E n \in 1..Len(rnks) : PermuteThrows(h, rnks, n)
               \/ \E g \in Handles : Permute(h, g, rnks)
        PROVE  SizeInv'
    BY <2>7, PermutesSize
  <2>8. ASSUME NEW ns \in NewShapes,
               \/ Reshape_(h, ns) \/ ReshapeThrows(h, ns)
               \/ \E g \in Handles : Reshape(h, g, ns)
        PROVE  SizeInv'
    BY <2>8, ReshapesSize
  <2>9. ASSUME NEW v \in Values,
               \/ Fill(h, v) \/ AddScalar(h, v)
               \/ \E n \in 1..MaxSize : SetItem(h, n, v)
        PROVE  SizeInv'
    BY <2>9, WritesSize
  <2>10. ASSUME NEW v \in Values, AppendScalar(h, v) PROVE SizeInv'
    BY <2>10, AppendsSize
  <2> QED BY <2>1, <2>2, <2>3, <2>4, <2>5, <2>6, <2>7, <2>8, <2>9, <2>10
<1> QED BY <1>1, <1>2

\* Whatever views, copies, permutations, reshapes, sums, appends and refused calls
\* there are, of tensors of every rank and size, a tensor no call threw on has the
\* elements its shape says: for a client that appends to no storage it has views
\* of, and leaves at most one dimension of a reshape open.
THEOREM SizeCorrect == ~SharedGrow /\ OneOpen /\ Spec => []SizeMatches
<1> SUFFICES ASSUME ~SharedGrow, OneOpen PROVE Spec => []SizeMatches
  OBVIOUS
<1>1. Init => SizeInv
  BY DEF Init, SizeInv, Live, Intact
<1>2. IInv /\ SizeInv /\ [Next]_vars => SizeInv'
  BY NextSize
<1>3. SizeInv => SizeMatches
  BY DEF SizeInv, SizeMatches, Intact, Held
<1> QED BY <1>1, <1>2, <1>3, Invariance, PTL DEF Spec

-----------------------------------------------------------------------------
(* What a call makes of the shapes, for the UniTensors that these Tensors  *)
(* are the blocks of.                                                      *)

\* h ends with a Tensor of the shape w, if with a whole one, and the Tensors of the
\* other variables keep their shapes.
Gets(h, w) ==
  /\ ref'[h] # Void
  /\ ref'[h] \notin torn' => impl'[ref'[h]].shape = w
  /\ \A g \in Handles \ {h} :
       /\ ref'[g] = ref[g]
       /\ ref[g] # Void /\ ref[g] \notin torn' =>
            ref[g] \notin torn /\ impl'[ref[g]].shape = impl[ref[g]].shape

\* No other variable has the Tensor_impl of h.
Alone(h) == \A g \in Handles \ {h} : ref[g] # ref[h]

LEMMA CommitGets ==
  ASSUME NEW r, r \in [Handles -> Impls \cup {Void}], NEW im, NEW hp, NEW tn,
         NEW h \in Handles, NEW w,
         Commit(r, im, hp, tn),
         r[h] # Void,
         r[h] \notin tn => im[r[h]].shape = w,
         \A g \in Handles \ {h} :
           /\ r[g] = ref[g]
           /\ ref[g] # Void /\ ref[g] \notin tn =>
                ref[g] \notin torn /\ im[ref[g]].shape = impl[ref[g]].shape
  PROVE  Gets(h, w)
<1>1. ref' = r /\ torn' = tn \cap Live(r)
  BY DEF Commit
<1>2. \A i \in Impls : i \in Live(r) => impl'[i] = im[i]
  BY DEF Commit
<1>3. \A g \in Handles : r[g] # Void => r[g] \in Impls /\ r[g] \in Live(r)
  BY DEF Live
<1>4. r[h] \notin torn' => impl'[r[h]].shape = w
  BY <1>1, <1>2, <1>3
<1>5. ASSUME NEW g \in Handles \ {h}
      PROVE  /\ r[g] = ref[g]
             /\ ref[g] # Void /\ ref[g] \notin torn' =>
                  ref[g] \notin torn /\ impl'[ref[g]].shape = impl[ref[g]].shape
  BY <1>1, <1>2, <1>3
<1> QED BY <1>1, <1>4, <1>5 DEF Gets

\* A variable is given a new Tensor.
LEMMA BindGets ==
  ASSUME IInv, NEW h \in Handles, NEW t \in MetaRecords, Laid(t),
         NEW s \in Stores, NEW o, Sized(o), Bind(h, t, s, o)
  PROVE  IInv' /\ Gets(h, t.shape)
<1>1. PICK i \in Impls \ Live(ref) :
        Commit([ref EXCEPT ![h] = i], [impl EXCEPT ![i] = [t EXCEPT !.st = s]],
               [heap EXCEPT ![s] = o], torn)
  BY DEF Bind
<1> DEFINE r  == [ref EXCEPT ![h] = i]
           x  == [t EXCEPT !.st = s]
           im == [impl EXCEPT ![i] = x]
           hp == [heap EXCEPT ![s] = o]
<1>2. /\ r \in [Handles -> Impls \cup {Void}] /\ r[h] = i /\ i # Void
      /\ \A g \in Handles \ {h} : r[g] = ref[g]
  BY TensorAssumption DEF IInv, TypeOK
<1>3. x.shape = t.shape
  BY DEF MetaRecords
<1> HIDE DEF x
<1>4. /\ im[i].shape = t.shape
      /\ \A j : j # i => im[j] = impl[j]
  <2>1. im[i] = x
    BY DEF IInv, TypeOK
  <2> QED BY <1>3, <2>1
<1>5. \A g \in Handles : ref[g] # Void => ref[g] # i
  BY DEF Live
<1> HIDE DEF r, im, hp
<1>6. \A g \in Handles \ {h} :
        /\ r[g] = ref[g]
        /\ ref[g] # Void /\ ref[g] \notin torn =>
             ref[g] \notin torn /\ im[ref[g]].shape = impl[ref[g]].shape
  BY <1>2, <1>4, <1>5
<1>7. Commit(r, im, hp, torn)
  BY <1>1 DEF r, im, hp, x
<1>8. Gets(h, t.shape)
  BY <1>2, <1>4, <1>6, <1>7, CommitGets
<1> QED BY <1>8, BindInv

\* A variable is given a Tensor that is torn.
LEMMA TornGets ==
  ASSUME IInv, NEW h \in Handles, NEW i \in Impls \ Live(ref), NEW s \in Stores,
         NEW x \in ImplRecords, x.st = s, NEW o, Sized(o),
         Commit([ref EXCEPT ![h] = i], [impl EXCEPT ![i] = x], [heap EXCEPT ![s] = o],
                torn \cup {i})
  PROVE  IInv' /\ ref'[h] \in torn' /\ Gets(h, x.shape)
<1> DEFINE r  == [ref EXCEPT ![h] = i]
           im == [impl EXCEPT ![i] = x]
           hp == [heap EXCEPT ![s] = o]
           tn == torn \cup {i}
<1>1. /\ r \in [Handles -> Impls \cup {Void}] /\ r[h] = i /\ i # Void
      /\ \A g \in Handles \ {h} : r[g] = ref[g]
  BY TensorAssumption DEF IInv, TypeOK
<1>2. im[i] = x /\ hp[s] = o /\ \A j : j # i => im[j] = impl[j]
  BY DEF IInv, TypeOK
<1>3. \A j \in Live(r) : j = i \/ j \in Live(ref)
  BY DEF Live, IInv, TypeOK
<1>4. ASSUME NEW j \in Live(r)
      PROVE  im[j] \in ImplRecords /\ Sized(hp[im[j].st]) /\ (j \notin tn => Laid(im[j]))
  <2>1. CASE j = i
    BY <1>2, <2>1
  <2>2. CASE j # i
    <3>1. j \in Live(ref) /\ im[j] = impl[j]
      BY <1>2, <1>3, <2>2
    <3>2. hp[impl[j].st] = heap[impl[j].st] \/ hp[impl[j].st] = o
      BY <3>1, Existing DEF IInv, TypeOK
    <3> QED BY <3>1, <3>2, Existing
  <2> QED BY <2>1, <2>2
<1>5. \A g \in Handles \ {h} :
        /\ r[g] = ref[g]
        /\ ref[g] # Void /\ ref[g] \notin tn =>
             ref[g] \notin torn /\ im[ref[g]].shape = impl[ref[g]].shape
  BY <1>1, <1>2
<1>6. ref' = r /\ torn' = tn \cap Live(r) /\ i \in Live(r)
  BY <1>1 DEF Commit, Live
<1> HIDE DEF r, im, hp
<1>7. Commit(r, im, hp, tn)
  BY DEF r, im, hp
<1>8. IInv'
  BY <1>1, <1>4, <1>7, CommitInv
<1>9. Gets(h, x.shape)
  BY <1>1, <1>2, <1>5, <1>7, CommitGets
<1> QED BY <1>1, <1>6, <1>8, <1>9

LEMMA FreshGets ==
  ASSUME IInv, NEW h \in Handles, NEW t \in MetaRecords, Laid(t), NEW o, Sized(o),
         BindFresh(h, t, o)
  PROVE  IInv' /\ Gets(h, t.shape)
BY BindGets DEF BindFresh

\* The Tensor_impl of a variable is changed, which no other has if its shape is.
LEMMA UpdateGets ==
  ASSUME IInv, NEW h \in Handles, Whole(h), NEW t \in MetaRecords,
         NEW s \in Stores, NEW o, Sized(o), NEW tn, tn \in {torn, torn \cup {ref[h]}, torn \ {ref[h]}},
         ref[h] \notin tn => Laid(t),
         Alone(h) \/ t.shape = T(h).shape,
         Update(h, t, s, o, tn)
  PROVE  IInv' /\ Gets(h, t.shape)
<1> DEFINE x  == [t EXCEPT !.st = s]
           im == [impl EXCEPT ![ref[h]] = x]
           hp == [heap EXCEPT ![s] = o]
<1>1. ref \in [Handles -> Impls \cup {Void}] /\ Commit(ref, im, hp, tn)
  BY DEF IInv, TypeOK, Update
<1>2. ref[h] # Void /\ ref[h] \notin torn /\ ref[h] \in Impls
  BY <1>1 DEF Whole
<1>3. x.shape = t.shape
  BY DEF MetaRecords
<1> HIDE DEF x
<1>4. im[ref[h]] = x /\ \A j : j # ref[h] => im[j] = impl[j]
  BY <1>2 DEF IInv, TypeOK
<1> HIDE DEF im, hp
<1>5. ASSUME NEW g \in Handles \ {h}, ref[g] # Void, ref[g] \notin tn
      PROVE  ref[g] \notin torn /\ im[ref[g]].shape = impl[ref[g]].shape
  <2>1. CASE ref[g] = ref[h]
    <3>1. t.shape = T(h).shape
      BY <2>1 DEF Alone
    <3> QED BY <1>2, <1>3, <1>4, <2>1, <3>1 DEF T
  <2>2. CASE ref[g] # ref[h]
    BY <1>4, <1>5, <2>2
  <2> QED BY <2>1, <2>2
<1>6. im[ref[h]].shape = t.shape
  BY <1>3, <1>4
<1>7. Gets(h, t.shape)
  BY <1>1, <1>2, <1>5, <1>6, CommitGets
<1>8. torn \ {ref[h]} \subseteq tn
  OBVIOUS
<1> QED BY <1>2, <1>7, <1>8, UpdateInv

LEMMA SettleGets ==
  ASSUME IInv, NEW h \in Handles, Whole(h), NEW t \in MetaRecords,
         NEW o, Sized(o), NEW tn, tn \in {torn, torn \cup {ref[h]}, torn \ {ref[h]}},
         ref[h] \notin tn => Laid(t),
         Alone(h) \/ t.shape = T(h).shape,
         Settle(h, t, o, tn)
  PROVE  IInv' /\ Gets(h, t.shape)
<1>1. PICK s \in IF T(h).conti THEN {T(h).st} ELSE Stores \ Used :
        Update(h, t, s, o, tn)
  BY DEF Settle
<1>2. s \in Stores
  BY Refers DEF Whole
<1> QED BY <1>1, <1>2, UpdateGets

\* What a variable has that one can compute with.
LEMMA Wholly ==
  ASSUME IInv, NEW h \in Handles, Whole(h)
  PROVE  /\ ref[h] # Void /\ T(h) \in ImplRecords /\ T(h) \in MetaRecords
         /\ T(h).st \in Stores /\ T(h).shape \in Seq(Nat)
         /\ Laid(T(h)) /\ Sized(S(h)) /\ S(h).size \in Nat
BY Refers DEF Whole, Sized, MetaRecords

\* Nothing happens to any Tensor.
LEMMA StaysGets ==
  ASSUME IInv, NEW h \in Handles, Whole(h), UNCHANGED vars
  PROVE  IInv' /\ Gets(h, T(h).shape)
<1>1. IInv'
  BY DEF vars, IInv, TypeOK, LayoutOK, Live, Used, Intact, Laid
<1>2. ref' = ref /\ impl' = impl /\ torn' = torn
  BY DEF vars
<1> QED BY <1>1, <1>2 DEF Gets, T, Whole

LEMMA CopyGets ==
  ASSUME IInv, NEW h \in Handles, NEW g \in Handles, Whole(g),
         Assign(h, g) \/ Clone(h, g) \/ Contiguous(h, g)
  PROVE  IInv' /\ Gets(h, T(g).shape)
<1>1. /\ ref[g] # Void /\ T(g) \in ImplRecords /\ T(g) \in MetaRecords
      /\ T(g).shape \in Seq(Nat) /\ Laid(T(g)) /\ Sized(S(g))
  BY Wholly
<1>2. CASE Assign(h, g)
  <2> DEFINE r == [ref EXCEPT ![h] = ref[g]]
  <2>1. r \in [Handles -> Impls \cup {Void}] /\ r[h] = ref[g]
        /\ \A f \in Handles \ {h} : r[f] = ref[f]
    BY DEF IInv, TypeOK
  <2>2. Commit(r, impl, heap, torn)
    BY <1>2 DEF Assign
  <2> HIDE DEF r
  <2>3. impl[r[h]].shape = T(g).shape
    BY <2>1 DEF T
  <2>4. \A f \in Handles \ {h} :
          /\ r[f] = ref[f]
          /\ ref[f] # Void /\ ref[f] \notin torn =>
               ref[f] \notin torn /\ impl[ref[f]].shape = impl[ref[f]].shape
    BY <2>1
  <2>5. Gets(h, T(g).shape)
    BY <1>1, <2>1, <2>2, <2>3, <2>4, CommitGets
  <2> QED BY <1>2, <2>5, CopiesInv
<1>3. CASE Clone(h, g)
  BY <1>1, <1>3, WritesSized, FreshGets DEF Clone
<1>4. CASE Contiguous(h, g)
  <2>1. /\ ContiMeta(T(g)) \in MetaRecords /\ Laid(ContiMeta(T(g)))
        /\ ContiMeta(T(g)).shape = T(g).shape
    BY <1>1, ContiLaid
  <2>2. BindFresh(h, ContiMeta(T(g)), Moved(T(g), S(g)))
    BY <1>4 DEF Contiguous
  <2>3. Sized(Moved(T(g), S(g)))
    BY <1>1, MovedSized
  <2>4. IInv' /\ Gets(h, ContiMeta(T(g)).shape)
    BY <2>1, <2>2, <2>3, FreshGets
  <2> QED BY <2>1, <2>4
<1> QED BY <1>2, <1>3, <1>4

LEMMA PermutedShape ==
  \A t \in MetaRecords : \A p : Permuted(t, p).shape = Compose(t.shape, p)
BY DEF Permuted, MetaRecords

LEMMA PermuteGets ==
  ASSUME IInv, NEW h \in Handles, NEW g \in Handles,
         NEW p \in Seq(Nat \ {0}), IsInjective(p), Permute(h, g, p)
  PROVE  IInv' /\ Gets(h, Compose(T(g).shape, p))
<1>1. Whole(g) /\ Bind(h, Permuted(T(g), p), T(g).st, S(g))
  BY DEF Permute
<1>2. T(g) \in MetaRecords /\ T(g).st \in Stores /\ Laid(T(g)) /\ Sized(S(g))
  BY <1>1, Wholly
<1>3. Permuted(T(g), p) \in MetaRecords /\ Laid(Permuted(T(g), p))
  BY <1>2, PermutedLaid DEF Permute
<1>4. Permuted(T(g), p).shape = Compose(T(g).shape, p)
  BY <1>2, PermutedShape
<1>5. IInv' /\ Gets(h, Permuted(T(g), p).shape)
  BY <1>1, <1>2, <1>3, BindGets
<1> QED BY <1>4, <1>5

LEMMA Permute_Gets ==
  ASSUME IInv, NEW h \in Handles, Alone(h),
         NEW p \in Seq(Nat \ {0}), IsInjective(p), Permute_(h, p)
  PROVE  IInv' /\ Gets(h, Compose(T(h).shape, p))
<1>1. Whole(h) /\ Update(h, Permuted(T(h), p), T(h).st, S(h), torn)
  BY DEF Permute_
<1>2. T(h) \in MetaRecords /\ T(h).st \in Stores /\ Laid(T(h)) /\ Sized(S(h))
  BY <1>1, Wholly
<1>3. Permuted(T(h), p) \in MetaRecords /\ Laid(Permuted(T(h), p))
  BY <1>2, PermutedLaid DEF Permute_
<1>4. Permuted(T(h), p).shape = Compose(T(h).shape, p)
  BY <1>2, PermutedShape
<1>5. IInv' /\ Gets(h, Permuted(T(h), p).shape)
  BY <1>1, <1>2, <1>3, UpdateGets
<1> QED BY <1>4, <1>5

\* reshape: to a shape of as many axes as it is asked for.
LEMMA ReshapeGets ==
  ASSUME IInv, NEW h \in Handles, NEW g \in Handles, NEW ns \in NewShapes,
         \/ Reshape(h, g, ns)
         \/ Whole(h) /\ Alone(h) /\ Reshape_(h, ns)
  PROVE  IInv' /\ \E d \in Nat : Gets(h, Settled(ns, d))
<1>1. ASSUME NEW d \in Nat
      PROVE  /\ Plain(Settled(ns, d)) \in MetaRecords
             /\ Laid(Plain(Settled(ns, d)))
             /\ Plain(Settled(ns, d)).shape = Settled(ns, d)
  BY SettledSeq, PlainLaid, PlainShape
<1>2. 0..MaxSize \subseteq Nat
  BY TensorAssumption
<1>3. CASE Reshape(h, g, ns)
  <2>1. Whole(g)
    BY <1>3 DEF Reshape
  <2>2. T(g).st \in Stores /\ Sized(S(g))
    BY <2>1, Wholly
  <2>3. PICK d \in 0..MaxSize :
          IF T(g).conti
          THEN Bind(h, Plain(Settled(ns, d)), T(g).st, S(g))
          ELSE BindFresh(h, Plain(Settled(ns, d)), Moved(T(g), S(g)))
    BY <1>3 DEF Reshape
  <2>4. d \in Nat
    BY <1>2
  <2>5. IInv' /\ Gets(h, Plain(Settled(ns, d)).shape)
    <3>1. Sized(Moved(T(g), S(g)))
      BY <2>2, MovedSized
    <3>2. Plain(Settled(ns, d)) \in MetaRecords /\ Laid(Plain(Settled(ns, d)))
      BY <1>1, <2>4
    <3> QED BY <2>2, <2>3, <3>1, <3>2, BindGets, FreshGets
  <2> QED BY <1>1, <2>4, <2>5
<1>4. CASE Whole(h) /\ Alone(h) /\ Reshape_(h, ns)
  <2>1. Sized(S(h))
    BY <1>4, Wholly
  <2>2. PICK d \in 0..MaxSize :
          Settle(h, Plain(Settled(ns, d)), ContiStore(T(h), S(h)), torn \ {ref[h]})
    BY <1>4 DEF Reshape_
  <2>3. d \in Nat
    BY <1>2
  <2>4. Sized(ContiStore(T(h), S(h)))
    BY <2>1, MovedSized
  <2>5. Plain(Settled(ns, d)) \in MetaRecords /\ Laid(Plain(Settled(ns, d)))
    BY <1>1, <2>3
  <2>6. IInv' /\ Gets(h, Plain(Settled(ns, d)).shape)
    BY <1>4, <2>2, <2>4, <2>5, SettleGets
  <2> QED BY <1>1, <2>3, <2>6
<1> QED BY <1>3, <1>4

\* reshape_ that throws leaves a torn Tensor, of which nothing is said.
LEMMA ReshapeThrowsGets ==
  ASSUME IInv, NEW h \in Handles, NEW ns \in NewShapes, Whole(h), Alone(h),
         ReshapeThrows(h, ns)
  PROVE  /\ IInv' /\ ref'[h] \in torn'
         /\ \E w : Gets(h, w)
<1> DEFINE t == [ContiMeta(T(h)) EXCEPT !.shape = Settled(ns, UMax)]
<1>1. T(h) \in ImplRecords /\ Laid(T(h)) /\ Sized(S(h)) /\ ref[h] # Void
  BY Wholly
<1>2. ContiMeta(T(h)) \in MetaRecords
  BY <1>1, ContiLaid
<1>3. t \in MetaRecords
  BY <1>2, SettledSeq, TensorAssumption DEF MetaRecords
<1>4. Settle(h, t, ContiStore(T(h), S(h)), torn \cup {ref[h]})
  BY DEF ReshapeThrows
<1>5. Sized(ContiStore(T(h), S(h)))
  BY <1>1, MovedSized
<1> HIDE DEF t
<1>6. IInv' /\ Gets(h, t.shape)
  BY <1>3, <1>4, <1>5, SettleGets
<1>7. ref' = ref /\ torn' = (torn \cup {ref[h]}) \cap Live(ref)
  BY <1>4 DEF Settle, Update, Commit
<1>8. ref[h] \in Live(ref)
  BY <1>1 DEF Live
<1> QED BY <1>6, <1>7, <1>8

\* What only writes elements, or moves them.
LEMMA WriteGets ==
  ASSUME IInv, NEW h \in Handles, NEW g \in Handles, NEW v, NEW n,
         \/ SetItem(h, n, v) \/ AddScalar(h, v) \/ AddTensor(h, g) \/ Contiguous_(h)
         \/ \E x : Whole(h) /\ Update(h, T(h), T(h).st, [S(h) EXCEPT !.mem = x], torn)
  PROVE  IInv' /\ Gets(h, T(h).shape)
<1>1. Whole(h)
  BY DEF SetItem, AddScalar, AddTensor, Contiguous_
<1>2. /\ T(h) \in ImplRecords /\ T(h) \in MetaRecords /\ T(h).st \in Stores
      /\ Sized(S(h)) /\ Laid(T(h)) /\ S(h).size \in Nat
  BY <1>1, Wholly
<1>3. ASSUME NEW s \in Stores, NEW o, Sized(o), Update(h, T(h), s, o, torn)
      PROVE  IInv' /\ Gets(h, T(h).shape)
  BY <1>1, <1>2, <1>3, UpdateGets
<1>4. CASE SetItem(h, n, v)
  BY <1>2, <1>3, <1>4, WritesSized DEF SetItem
<1>5. CASE AddScalar(h, v)
  <2> DEFINE x == [k \in 1..S(h).size |-> S(h).mem[k] + v]
  <2>1. PICK s \in Stores \ Used :
          Update(h, T(h), s, FromVector("Int64", x), torn)
    BY <1>5 DEF AddScalar
  <2>2. Len(x) \in Nat
    BY <1>2
  <2> HIDE DEF x
  <2>3. Sized(FromVector("Int64", x))
    BY <2>2 DEF Sized, FromVector
  <2> QED BY <1>3, <2>1, <2>3
<1>6. CASE AddTensor(h, g)
  <2>1. Update(h, T(h), T(h).st, Added(T(h), S(h), T(g), S(g)), torn)
    BY <1>6 DEF AddTensor
  <2>2. Sized(Added(T(h), S(h), T(g), S(g)))
    BY <1>2, SetBuffer DEF Added
  <2> QED BY <1>2, <1>3, <2>1, <2>2
<1>7. CASE Contiguous_(h)
  <2>1. /\ ContiMeta(T(h)) \in MetaRecords /\ Laid(ContiMeta(T(h)))
        /\ ContiMeta(T(h)).shape = T(h).shape
    BY <1>2, ContiLaid
  <2>2. Settle(h, ContiMeta(T(h)), Moved(T(h), S(h)), torn)
    BY <1>7 DEF Contiguous_
  <2>3. Sized(Moved(T(h), S(h)))
    BY <1>2, MovedSized
  <2>4. IInv' /\ Gets(h, ContiMeta(T(h)).shape)
    BY <1>1, <2>1, <2>2, <2>3, SettleGets
  <2> QED BY <2>1, <2>4
<1>8. CASE \E x : Whole(h) /\ Update(h, T(h), T(h).st, [S(h) EXCEPT !.mem = x], torn)
  <2>1. PICK x : Update(h, T(h), T(h).st, [S(h) EXCEPT !.mem = x], torn)
    BY <1>8
  <2>2. Sized([S(h) EXCEPT !.mem = x])
    BY <1>2, SetBuffer
  <2> QED BY <1>2, <1>3, <2>1, <2>2
<1> QED BY <1>4, <1>5, <1>6, <1>7, <1>8

\* get.
LEMMA SliceGets ==
  ASSUME IInv, NEW h \in Handles, NEW g \in Handles, NEW accs \in Seq(Accessors),
         Get(h, g, accs)
  PROVE  IInv' /\ Gets(h, GotImpl(T(g), accs).shape)
<1> DEFINE t == GotImpl(T(g), accs)
           c == Compose(S(g).mem, Touched(T(g), accs))
           o == FromVector("Int64", c)
<1>1. /\ Whole(g) /\ Accepts(T(g), accs)
      /\ BindFresh(h, t, GotStore(T(g), S(g), accs))
  BY DEF Get
<1>2. T(g) \in MetaRecords /\ Laid(T(g))
  BY <1>1, Wholly
<1>3. t \in MetaRecords /\ Laid(t)
  BY <1>1, <1>2, GotLaid
<1>4. Len(Touched(T(g), accs)) \in Nat
  BY <1>1, <1>2, TouchedCount
<1>5. Len(c) \in Nat
  BY <1>4 DEF Compose
<1> HIDE DEF c
<1>6. Sized(o)
  BY <1>5 DEF Sized, FromVector
<1>7. GotStore(T(g), S(g), accs) = o
  BY DEF GotStore, c
<1> HIDE DEF o, t
<1>8. BindFresh(h, t, o)
  BY <1>1, <1>7 DEF t
<1>9. IInv' /\ Gets(h, t.shape)
  BY <1>3, <1>6, <1>8, FreshGets
<1> QED BY <1>9 DEF t

\* A slice is never without axes.
LEMMA GotAxes ==
  ASSUME NEW t \in MetaRecords, Laid(t), NEW accs \in Seq(Accessors), Accepts(t, accs)
  PROVE  GotImpl(t, accs).shape \in Seq(Nat) /\ GotImpl(t, accs).shape # <<>>
<1> DEFINE w == Kept(t, accs)
           p == Back(t, accs)
<1>1. GotImpl(t, accs) \in MetaRecords
  BY GotLaid
<1>2. w \in Seq(Nat) /\ p \in Seq(Nat \ {0}) /\ Len(p) = Len(w)
  BY SliceIs
<1>3. CASE w = <<>>
  BY <1>3 DEF GotImpl, Plain
<1>4. CASE w # <<>>
  <2>1. GotImpl(t, accs) = Permuted(Plain(w), p)
    BY <1>4 DEF GotImpl
  <2> HIDE DEF w, p
  <2>2. GotImpl(t, accs).shape = Compose(w, p)
    BY <1>2, <2>1, PlainLaid, PlainShape, PermutedShape
  <2>3. Len(Compose(w, p)) = Len(p) /\ Len(p) # 0
    BY <1>2, <1>4 DEF Compose
  <2> QED BY <1>1, <2>2, <2>3 DEF MetaRecords
<1> QED BY <1>3, <1>4

\* The accessors without a single index keep every axis where it is.
LEMMA GotCut ==
  ASSUME NEW t \in MetaRecords, Laid(t), NEW accs \in Seq(Accessors), Accepts(t, accs),
         \A k \in 1..Len(accs) : accs[k].type # "Singl",
         t.shape # <<>>
  PROVE  LET w == GotImpl(t, accs).shape
             n == Len(t.shape)
         IN /\ w \in Seq(Nat) /\ Len(w) = n
            /\ \A i \in 1..n :
                 w[i] = IF i <= Len(accs) /\ accs[i] # All
                        THEN Len(Positions(accs[i], t.shape[i])) ELSE t.shape[i]
<1> DEFINE n == Len(t.shape)
           acc == InStorage(t, accs)
           dims == StorageShape(t)
           ls == Lengths(dims, acc)
           w == GotImpl(t, accs).shape
<1>1. /\ n \in Nat /\ acc \in [1..n -> Accessors] /\ Len(acc) = n
      /\ dims \in [1..n -> Nat] /\ ls \in [1..n -> Nat]
      /\ \A k \in 1..n : acc[k] = IF t.inv[k] <= Len(accs) THEN accs[t.inv[k]] ELSE All
      /\ \A k \in 1..n : dims[k] = t.shape[t.inv[k]]
  BY InStorageIs
<1> HIDE DEF acc, dims, ls, w
<1>2. /\ t.mapper \in [1..n -> 1..n] /\ t.inv \in [1..n -> 1..n]
      /\ \A k \in 1..n : t.inv[t.mapper[k]] = k
      /\ t.mapper \in Seq(Nat) /\ n # 0
  <2>1. /\ t.mapper \in Seq(Nat) /\ t.inv \in Seq(Nat)
        /\ t.mapper \in [1..n -> 1..n] /\ t.inv \in [1..n -> 1..n]
        /\ \A k \in 1..n : t.inv[t.mapper[k]] = k
    BY DEF Laid, MetaRecords
  <2>2. n # 0
    OBVIOUS
  <2> QED BY <2>1, <2>2
<1>3. Len(t.mapper) = n
  BY <1>1, <1>2
<1>4. All.type # "Singl"
  BY DEF All
<1>5. Len(accs) \in Nat
  OBVIOUS
<1> HIDE DEF n, acc, dims
<1>6. Removed(acc) = {}
  <2>1. \A k \in 1..n : t.inv[k] \in Nat /\ t.inv[k] >= 1
    <3>1. n \in Nat
      BY <1>1
    <3>2. \A j \in 1..n : j \in Nat /\ j >= 1
      BY <3>1
    <3>3. \A k \in 1..n : t.inv[k] \in 1..n
      BY <1>2
    <3> QED BY <3>2, <3>3
  <2>2. \A k \in 1..n : acc[k].type # "Singl"
    <3>1. SUFFICES ASSUME NEW k \in 1..n PROVE acc[k].type # "Singl"
      OBVIOUS
    <3>2. acc[k] = IF t.inv[k] <= Len(accs) THEN accs[t.inv[k]] ELSE All
      BY <1>1
    <3>3. CASE t.inv[k] <= Len(accs)
      <4>1. t.inv[k] \in 1..Len(accs)
        BY <1>5, <2>1, <3>3
      <4> QED BY <3>2, <3>3, <4>1
    <3>4. CASE ~(t.inv[k] <= Len(accs))
      BY <1>4, <3>2, <3>4
    <3> QED BY <3>3, <3>4
  <2>3. DOMAIN acc = 1..n
    BY <1>1
  <2> QED BY <2>2, <2>3 DEF Removed
<1>7. Erased(Identity(n), {}) = Identity(n) /\ Erased(t.mapper, {}) = t.mapper
  BY <1>1, <1>2, IdentitySeq, ErasedNone
<1>8. \A a \in Nat : a - Cardinality({k \in {} : k < a}) = a
  <2>1. \A a \in Nat : {k \in {} : k < a} = {}
    OBVIOUS
  <2> QED BY <2>1, FS_EmptySet
<1>9. Back(t, accs) = t.mapper
  <2>1. Back(t, accs) = [i \in DOMAIN t.mapper |->
                           t.mapper[i] - Cardinality({k \in {} : k < t.mapper[i]})]
    BY <1>6, <1>7 DEF Back, acc
  <2>2. DOMAIN t.mapper = 1..n /\ \A i \in 1..n : t.mapper[i] \in Nat
    <3>1. n \in Nat
      BY <1>1
    <3>2. \A j \in 1..n : j \in Nat
      BY <3>1
    <3>3. DOMAIN t.mapper = 1..n /\ \A k \in 1..n : t.mapper[k] \in 1..n
      BY <1>2
    <3> QED BY <3>2, <3>3
  <2>3. \A i \in 1..n : t.mapper[i] - Cardinality({k \in {} : k < t.mapper[i]}) = t.mapper[i]
    BY <1>8, <2>2
  <2>4. Back(t, accs) = [i \in 1..n |-> t.mapper[i]]
    BY <2>1, <2>2, <2>3, Zenon
  <2> QED BY <1>2, <2>2, <2>4
<1>10. Kept(t, accs) = ls
  <2>1. Kept(t, accs) = Compose(ls, Identity(n))
    <3>1. Kept(t, accs) = Compose(ls, Erased(Identity(Len(acc)), Removed(acc)))
      BY DEF Kept, ls, acc, dims
    <3>2. Len(acc) = n
      BY <1>1
    <3> HIDE DEF ls
    <3> QED BY <1>6, <1>7, <3>1, <3>2
  <2>2. Len(Identity(n)) = n /\ \A i \in 1..n : Identity(n)[i] = i
    BY <1>1, IdentitySeq DEF Identity
  <2> HIDE DEF ls
  <2>3. Kept(t, accs) = [i \in 1..n |-> ls[i]]
    BY <2>1, <2>2 DEF Compose
  <2> QED BY <1>1, <2>3
<1> HIDE DEF ls
<1>11. ls \in Seq(Nat) /\ Len(ls) = n
  BY <1>1, FunctionSeq
<1>12. ls # <<>>
  BY <1>2, <1>11
<1>13. w = Compose(ls, t.mapper)
  <2>1. GotImpl(t, accs) = Permuted(Plain(ls), t.mapper)
    BY <1>9, <1>10, <1>12 DEF GotImpl
  <2>2. w = Permuted(Plain(ls), t.mapper).shape
    BY <2>1 DEF w
  <2> HIDE DEF w
  <2>3. Plain(ls) \in MetaRecords /\ Plain(ls).shape = ls
    BY <1>11, PlainLaid, PlainShape
  <2> QED BY <2>2, <2>3, PermutedShape
<1>14. w = [i \in 1..n |-> ls[t.mapper[i]]]
  BY <1>3, <1>13 DEF Compose
<1> HIDE DEF w
<1>15. ASSUME NEW i \in 1..n
       PROVE  w[i] = IF i <= Len(accs) /\ accs[i] # All
                     THEN Len(Positions(accs[i], t.shape[i])) ELSE t.shape[i]
  <2> DEFINE j == t.mapper[i]
  <2>1. j \in 1..n /\ t.inv[j] = i /\ w[i] = ls[j]
    BY <1>2, <1>14
  <2>2. acc[j] = (IF i <= Len(accs) THEN accs[i] ELSE All) /\ dims[j] = t.shape[i]
    BY <1>1, <2>1
  <2> HIDE DEF j
  <2>3. ls[j] = IF acc[j] = All THEN dims[j] ELSE Len(Positions(acc[j], dims[j]))
    BY <1>1, <2>1 DEF ls, Lengths
  <2> QED BY <2>1, <2>2, <2>3
<1>16. w \in Seq(Nat) /\ Len(w) = n
  <2>1. w \in [1..n -> Nat]
    BY <1>1, <1>2, <1>14
  <2> QED BY <1>1, <2>1, FunctionSeq
<1> QED BY <1>15, <1>16 DEF w, n

\* The first dim entries of an axis.
LEMMA RangeCount ==
  ASSUME NEW dim \in Nat \ {0}, NEW d \in Nat
  PROVE  /\ Range_(0, dim, 1) \in Accessors /\ Range_(0, dim, 1) # All
         /\ Range_(0, dim, 1).type = "Range"
         /\ Len(Positions(Range_(0, dim, 1), d)) = dim
<1> DEFINE a == Range_(0, dim, 1)
<1>1. a = [type |-> "Range", min |-> 0, max |-> dim, step |-> 1]
  BY DEF Range_
<1>2. a \in [type : {"Range"}, min : Int, max : Int, step : Int \ {0}]
  BY <1>1
<1>3. a.type = "Range" /\ a.min = 0 /\ a.max = dim /\ a.step = 1
  BY <1>1
<1> HIDE DEF a
<1>4. First(a, d) = 0 /\ Bound(a, d) = dim
  BY <1>3 DEF First, Bound
<1>5. Positions(a, d) = Stride(0, dim - 1, 1)
  <2>1. (IF a.step < 0 THEN -1 ELSE 1) = 1
    BY <1>3
  <2>2. Positions(a, d) = Stride(First(a, d), Bound(a, d) - (IF a.step < 0 THEN -1 ELSE 1), a.step)
    BY <1>3 DEF Positions
  <2> QED BY <1>3, <1>4, <2>1, <2>2
<1>6. Quotient((dim - 1) - 0, 1) = dim - 1
  <2>1. (dim - 1) \div 1 = dim - 1
    OBVIOUS
  <2> QED BY <2>1 DEF Quotient
<1>7. Stride(0, dim - 1, 1) = [k \in 1..dim |-> 0 + (k - 1) * 1]
  <2>1. Quotient((dim - 1) - 0, 1) + 1 = dim
    BY <1>6
  <2> QED BY <2>1, Zenon DEF Stride
<1>8. Len(Positions(a, d)) = dim
  <2> DEFINE f == [k \in 1..dim |-> 0 + (k - 1) * 1]
  <2>1. f \in [1..dim -> Int]
    OBVIOUS
  <2> HIDE DEF f
  <2>2. Len(f) = dim
    BY <2>1, FunctionSeq
  <2> QED BY <1>5, <1>7, <2>2 DEF f
<1>9. a \in Accessors /\ a # All
  <2>1. a \in Accessors
    BY <1>2 DEF Accessors
  <2> QED BY <1>3, <2>1 DEF All
<1> QED BY <1>3, <1>8, <1>9 DEF a

\* A new Tensor for h, and those of f and g laid out anew, in their shapes.
LEMMA RelaidGets ==
  ASSUME NEW h \in Handles, NEW f \in Handles, NEW g \in Handles,
         NEW i \in Impls \ Live(ref), NEW t \in MetaRecords,
         NEW s \in Stores, NEW sf \in Stores, NEW sg \in Stores, NEW o, NEW of, NEW og,
         NEW tf \in ImplRecords, NEW tg \in ImplRecords,
         IInv, Whole(f), Whole(g), ref[f] # ref[g],
         Laid(t), Sized(o), Laid(tf), Sized(of), Laid(tg), Sized(og),
         tf.st = sf, tg.st = sg, tf.shape = T(f).shape, tg.shape = T(g).shape,
         Commit([ref EXCEPT ![h] = i],
                [impl EXCEPT ![i] = [t EXCEPT !.st = s], ![ref[f]] = tf, ![ref[g]] = tg],
                [heap EXCEPT ![sf] = of, ![sg] = og, ![s] = o], torn)
  PROVE  IInv' /\ Gets(h, t.shape)
<1> DEFINE r  == [ref EXCEPT ![h] = i]
           x  == [t EXCEPT !.st = s]
           im == [impl EXCEPT ![i] = x, ![ref[f]] = tf, ![ref[g]] = tg]
           hp == [heap EXCEPT ![sf] = of, ![sg] = og, ![s] = o]
<1>1. /\ r \in [Handles -> Impls \cup {Void}] /\ r[h] = i /\ i # Void
      /\ \A k \in Handles \ {h} : r[k] = ref[k]
  BY TensorAssumption DEF IInv, TypeOK
<1>2. x \in ImplRecords /\ Laid(x) /\ x.shape = t.shape /\ x.st = s
  BY OnStore DEF MetaRecords
<1>3. /\ ref[f] \in Impls /\ ref[g] \in Impls /\ ref[f] # i /\ ref[g] # i
      /\ ref[f] \notin torn /\ ref[g] \notin torn
  BY Refers DEF Whole
<1> HIDE DEF x
<1>4. /\ im[i] = x /\ im[ref[f]] = tf /\ im[ref[g]] = tg
      /\ \A j \in Impls \ {i, ref[f], ref[g]} : im[j] = impl[j]
  <2> DEFINE a == ref[f]
             b == ref[g]
  <2>1. /\ DOMAIN impl = Impls /\ i \in Impls /\ a \in Impls /\ b \in Impls
        /\ a # b /\ a # i /\ b # i
    BY <1>3 DEF IInv, TypeOK
  <2>2. im = [impl EXCEPT ![i] = x, ![a] = tf, ![b] = tg]
    OBVIOUS
  <2> HIDE DEF a, b, im
  <2>3. /\ im[i] = x /\ im[a] = tf /\ im[b] = tg
        /\ \A j \in Impls \ {i, a, b} : im[j] = impl[j]
    BY <2>1, <2>2
  <2> QED BY <2>3 DEF a, b
<1>5. /\ \A k \in Stores : hp[k] \in {o, of, og, heap[k]}
      /\ \A k \in {s, sf, sg} : hp[k] \in {o, of, og}
  BY DEF IInv, TypeOK
<1>6. Commit(r, im, hp, torn)
  BY DEF x
<1> HIDE DEF r, im, hp
<1>7. Live(r) \subseteq Live(ref) \cup {i}
  BY <1>1 DEF Live
<1>8. ASSUME NEW j \in Live(r)
      PROVE  /\ im[j] \in ImplRecords /\ Sized(hp[im[j].st])
             /\ j \notin torn => Laid(im[j])
  <2>1. CASE j \in {i, ref[f], ref[g]}
    <3>1. im[j] \in ImplRecords /\ Laid(im[j])
      BY <1>2, <1>4, <2>1
    <3>2. im[j].st \in {s, sf, sg}
      BY <1>2, <1>4, <2>1
    <3> QED BY <1>5, <3>1, <3>2
  <2>2. CASE j \notin {i, ref[f], ref[g]}
    <3>1. j \in Live(ref)
      BY <1>7, <2>2
    <3>3. im[j] = impl[j]
      BY <1>4, <2>2, <3>1, Existing
    <3>2. /\ impl[j] \in ImplRecords /\ impl[j].st \in Stores /\ Sized(heap[impl[j].st])
          /\ j \notin torn => Laid(impl[j])
      BY <3>1, Existing
    <3> QED BY <1>5, <3>1, <3>2, <3>3
  <2> QED BY <2>1, <2>2
<1>9. IInv'
  BY <1>1, <1>6, <1>8, CommitInv
<1>10. ASSUME NEW k \in Handles \ {h}
       PROVE  /\ r[k] = ref[k]
              /\ ref[k] # Void /\ ref[k] \notin torn =>
                   ref[k] \notin torn /\ im[ref[k]].shape = impl[ref[k]].shape
  <2>1. ref[k] # i
    BY <1>1 DEF Live
  <2>2. CASE ref[k] \in {ref[f], ref[g]}
    BY <1>1, <1>4, <2>1, <2>2 DEF T
  <2>3. CASE ref[k] \notin {ref[f], ref[g]}
    BY <1>1, <1>4, <2>1, <2>3
  <2> QED BY <2>2, <2>3
<1>11. Gets(h, t.shape)
  <2> DEFINE w == t.shape
  <2>1. r[h] # Void /\ (r[h] \notin torn => im[r[h]].shape = w)
    BY <1>1, <1>2, <1>4
  <2>2. \A k \in Handles \ {h} :
          /\ r[k] = ref[k]
          /\ ref[k] # Void /\ ref[k] \notin torn =>
               ref[k] \notin torn /\ im[ref[k]].shape = impl[ref[k]].shape
    BY <1>10
  <2> HIDE DEF w
  <2>3. Gets(h, w)
    BY <1>1, <1>6, <2>1, <2>2, CommitGets
  <2> QED BY <2>3 DEF w
<1> QED BY <1>9, <1>11
=============================================================================
