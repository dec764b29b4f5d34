------------------------------- MODULE Tensor -------------------------------
(***************************************************************************)
(* The Tensor component: user variables, the reference-counted             *)
(* Tensor_impl objects they share, and the storages these share in turn.   *)
(* A Tensor_impl is a shape over a storage and the mapper that takes the   *)
(* storage's axes to the axes the user sees.  Elements have one dtype; the *)
(* conversions are in module StorageObject.                                *)
(*                                                                         *)
(* A call that throws is an action only where it has changed something by  *)
(* then: permute_ and reshape_.  torn remembers the Tensor_impls they left *)
(* that way.  Reading the elements of a torn one reads outside its buffer  *)
(* as often as not, so the only calls made on it here are those that never *)
(* follow its inverse map: assignment and reshape_.                        *)
(***************************************************************************)
EXTENDS Strided, StorageObject, FiniteSets

CONSTANTS Handles,     \* the user's Tensor variables
          Impls,       \* names of Tensor_impl objects
          Stores,      \* names of Storage objects
          Void,        \* what an unset variable refers to
          None,        \* a free name
          Sizes,       \* lengths of the vectors tensors are made from
          Shapes,      \* shapes passed to the constructor
          NewShapes,   \* arguments of reshape: dimensions, and -1
          Rankings,    \* arguments of permute: distinct axes
          Values,      \* element values a user writes
          MaxValue,    \* bound on the values of elements
          MaxSize,     \* bound on the number of elements
          UMax,        \* -1 as a cytnx_uint64: larger than any size
          SharedGrow   \* may append grow a storage that several impls hold?

ASSUME TensorAssumption ==
  /\ Sizes \subseteq Nat /\ \A shape \in Shapes : shape \in Seq(Nat)
  /\ MaxSize \in Nat /\ MaxValue \in Nat /\ UMax \in Nat
  /\ \A ns \in NewShapes : ns \in Seq(Int)
  /\ \A p \in Rankings : p \in Seq(Nat \ {0}) /\ IsInjective(p)
  /\ SharedGrow \in BOOLEAN
  /\ Void \notin Impls /\ None \notin Impls

VARIABLES ref,         \* ref[h]: the impl h refers to, or Void
          impl,        \* impl[i]: the Tensor_impl named i, or None
          heap,        \* heap[s]: the Storage named s, or None
          torn         \* impls left by a call that threw on the way

vars == <<ref, impl, heap, torn>>

-----------------------------------------------------------------------------
Live(r) == {r[h] : h \in Handles} \ {Void}

Used == {impl[i].st : i \in Live(ref)}

\* Handles that refer to a Tensor one can compute with.
Whole(h) == ref[h] # Void /\ ref[h] \notin torn

T(h) == impl[ref[h]]
S(h) == heap[T(h).st]

\* A Tensor_impl with the identity mapper; its storage is filled in later.
Plain(shape) ==
  [st |-> None, shape |-> shape, mapper |-> Identity(Len(shape)),
   inv |-> Identity(Len(shape)), conti |-> TRUE]

\* Mutant of Commit: a storage outlives the impls that referred to it.
Commit_Leak(r, im, hp, tn) ==
  /\ ref'  = r
  /\ impl' = [i \in Impls |-> IF i \in Live(r) THEN im[i] ELSE None]
  /\ heap' = hp
  /\ torn' = tn \cap Live(r)

\* intrusive_ptr: impls and storages are deleted with their last reference.
Commit(r, im, hp, tn) ==
  /\ ref'  = r
  /\ impl' = [i \in Impls |-> IF i \in Live(r) THEN im[i] ELSE None]
  /\ heap' = [s \in Stores |->
                IF \E i \in Live(r) : im[i].st = s THEN hp[s] ELSE None]
  /\ torn' = tn \cap Live(r)

\* h is given the new impl t, on the storage s, which now is o.
Bind(h, t, s, o) ==
  \E i \in Impls \ Live(ref) :
     Commit([ref EXCEPT ![h] = i],
            [impl EXCEPT ![i] = [t EXCEPT !.st = s]],
            [heap EXCEPT ![s] = o],
            torn)

\* h is given the new impl t on a storage of its own.
BindFresh(h, t, o) == \E s \in Stores \ Used : Bind(h, t, s, o)

\* The impl of h becomes t on the storage s, which now is o.
Update(h, t, s, o, tn) ==
  Commit(ref, [impl EXCEPT ![ref[h]] = [t EXCEPT !.st = s]],
         [heap EXCEPT ![s] = o], tn)

-----------------------------------------------------------------------------
(* The parts of the member functions.                                      *)

\* Mutant of Permuted: the test for contiguity that the code has commented out.
Permuted_SelfInverse(t, rnks) ==
  LET m == Compose(t.mapper, rnks)
      v == Scattered(t.inv, m, Len(rnks))
  IN [t EXCEPT !.shape  = Compose(t.shape, rnks),
               !.mapper = m,
               !.inv    = v,
               !.conti  = (m = v)]

\* permute and permute_: the mappers composed with rnks, on the map inv.
Permuted(t, rnks) ==
  LET m == Compose(t.mapper, rnks)
  IN [t EXCEPT !.shape  = Compose(t.shape, rnks),
               !.mapper = m,
               !.inv    = Scattered(t.inv, m, Len(rnks)),
               !.conti  = (m = Identity(Len(rnks)))]

\* contiguous and contiguous_ of a non-contiguous tensor: what Move_memory
\* returns, and the metadata that goes with it.
Moved(t, o) ==
  [o EXCEPT !.mem = MoveMemory(@, Compose(t.shape, t.inv), t.mapper, Raw)]

ContiMeta(t) == IF t.conti THEN t ELSE [Plain(t.shape) EXCEPT !.st = t.st]
ContiStore(t, o) == IF t.conti THEN o ELSE Moved(t, o)

\* contiguous_ and then a change of the metadata to t and the storage to o: in
\* place if the tensor was contiguous, else on the storage Move_memory made.
Settle(h, t, o, tn) ==
  \E s \in IF T(h).conti THEN {T(h).st} ELSE Stores \ Used :
     Update(h, t, s, o, tn)

\* reshape_: the shape it writes, with the undetermined dimension d in the
\* place of the last -1; any other -1 is stored as it is.
Undetermined(ns) == {i \in 1..Len(ns) : ns[i] < 0}

Settled(ns, d) ==
  [i \in 1..Len(ns) |->
     CASE ns[i] >= 0 -> ns[i]
       [] ns[i] < 0 /\ \E j \in Undetermined(ns) : j > i -> UMax
       [] OTHER -> d]

\* new_N: the product of the dimensions that are given.
NewN(ns) == Prod([i \in 1..Len(ns) |-> IF ns[i] < 0 THEN 1 ELSE ns[i]])

\* The checks of reshape_ on a storage of n elements pass, with d in the place
\* of the undetermined dimension.  new_N = 0 beside a -1 divides by zero: the
\* program stops.
Resolves(ns, d, n) ==
  /\ \A i \in 1..Len(ns) : ns[i] >= -1
  /\ IF Undetermined(ns) = {} THEN d = 0 /\ NewN(ns) = n
     ELSE NewN(ns) \in 1..n /\ NewN(ns) * d = n

Divides(ns) == Undetermined(ns) = {} \/ NewN(ns) # 0

-----------------------------------------------------------------------------
Init == /\ ref  = [h \in Handles |-> Void]
        /\ impl = [i \in Impls |-> None]
        /\ heap = [s \in Stores |-> None]
        /\ torn = {}

(* Construction, assignment and copies.                                    *)

\* Tensor(shape): zeros; Init rejects rank 0 and dimensions of 0.
Construct(h, shape) ==
  /\ Len(shape) > 0
  /\ \A i \in 1..Len(shape) : shape[i] > 0
  /\ Prod(shape) \in 0..MaxSize
  /\ BindFresh(h, Plain(shape), Blank("Int64", Prod(shape), TRUE))

\* from_storage(Storage::from_vector({0, 1, ..., n - 1})).
FromVec(h, n) ==
  BindFresh(h, Plain(<<n>>), FromVector("Int64", [k \in 1..n |-> k - 1]))

\* from_storage(g.storage()): a rank-1 tensor on the same storage.
FromStorage(h, g) ==
  /\ Whole(g)
  /\ Bind(h, Plain(<<S(g).size>>), T(g).st, S(g))

\* operator=; to(), astype() to the device and dtype it has, contiguous() of a
\* contiguous tensor.
Assign(h, g) ==
  /\ ref[g] # Void
  /\ Commit([ref EXCEPT ![h] = ref[g]], impl, heap, torn)

Clone(h, g) ==
  /\ Whole(g)
  /\ BindFresh(h, T(g), Cloned(S(g)))

-----------------------------------------------------------------------------
(* Layout.                                                                 *)

Permute(h, g, rnks) ==
  /\ Whole(g)
  /\ Len(rnks) = Len(T(g).shape)
  /\ \A i \in 1..Len(rnks) : rnks[i] <= Len(rnks)
  /\ Bind(h, Permuted(T(g), rnks), T(g).st, S(g))

Permute_(h, rnks) ==
  /\ Whole(h)
  /\ Len(rnks) = Len(T(h).shape)
  /\ \A i \in 1..Len(rnks) : rnks[i] <= Len(rnks)
  /\ Update(h, Permuted(T(h), rnks), T(h).st, S(h), torn)

\* permute_ throws at the first entry that is no axis, with the inverse map
\* rewritten by the n entries before it.
PermuteThrows(h, rnks, n) ==
  /\ Whole(h)
  /\ Len(rnks) = Len(T(h).shape)
  /\ n < Len(rnks)
  /\ rnks[n + 1] > Len(rnks)
  /\ \A i \in 1..n : rnks[i] <= Len(rnks)
  /\ LET m == [i \in 1..n |-> T(h).mapper[rnks[i]]]
     IN Update(h, [T(h) EXCEPT !.inv = Scattered(@, m, n)], T(h).st, S(h),
               torn \cup {ref[h]})

\* contiguous() of a non-contiguous tensor.
Contiguous(h, g) ==
  /\ Whole(g)
  /\ ~T(g).conti
  /\ BindFresh(h, ContiMeta(T(g)), Moved(T(g), S(g)))

Contiguous_(h) ==
  /\ Whole(h)
  /\ ~T(h).conti
  /\ Settle(h, ContiMeta(T(h)), Moved(T(h), S(h)), torn)

\* reshape: shares the storage of a contiguous tensor.
Reshape(h, g, ns) ==
  /\ Whole(g)
  /\ \E d \in 0..MaxSize :
       /\ Resolves(ns, d, S(g).size)
       /\ IF T(g).conti
          THEN Bind(h, Plain(Settled(ns, d)), T(g).st, S(g))
          ELSE BindFresh(h, Plain(Settled(ns, d)), Moved(T(g), S(g)))

\* reshape_, also of a torn tensor unless contiguous_ would follow its maps;
\* flatten_ is reshape_({-1}).
Reshape_(h, ns) ==
  /\ ref[h] # Void
  /\ ref[h] \in torn => T(h).conti
  /\ \E d \in 0..MaxSize :
       /\ Resolves(ns, d, S(h).size)
       /\ Settle(h, Plain(Settled(ns, d)), ContiStore(T(h), S(h)),
                 torn \ {ref[h]})

\* reshape_ checks the shape it has already written: when it throws, the
\* mappers still are those of the old shape.
ReshapeThrows(h, ns) ==
  /\ ref[h] # Void
  /\ ref[h] \in torn => T(h).conti
  /\ Divides(ns)
  /\ \A d \in 0..MaxSize : ~Resolves(ns, d, S(h).size)
  /\ Settle(h, [ContiMeta(T(h)) EXCEPT !.shape = Settled(ns, UMax)],
            ContiStore(T(h), S(h)), torn \cup {ref[h]})

\* flatten: clone, contiguous_, reshape_({-1}).
Flatten(h, g) ==
  /\ Whole(g)
  /\ BindFresh(h, Plain(<<S(g).size>>), ContiStore(T(g), Cloned(S(g))))

-----------------------------------------------------------------------------
(* Elements.                                                               *)

\* at(locator): the location it reads in the storage.
At(t, locator) ==
  Location(Compose(t.shape, t.inv), Compose(locator, t.inv))

\* The storage locations of the elements of t, in row-major order.
Places(t) == [n \in 1..Prod(t.shape) |-> At(t, Locator(t.shape, n - 1)) + 1]

\* at<T>(locator) = v.
SetItem(h, n, v) ==
  /\ Whole(h)
  /\ n \in 1..Prod(T(h).shape)
  /\ Update(h, T(h), T(h).st, ItemSet(S(h), Places(T(h))[n] - 1, v), torn)

\* fill: the whole storage.
Fill(h, v) ==
  /\ Whole(h)
  /\ Update(h, T(h), T(h).st, Filled(S(h), v), torn)

\* += of a scalar: the storage is replaced by that of linalg::Add's result.
AddScalar(h, v) ==
  /\ Whole(h)
  /\ \A k \in 1..S(h).size : S(h).mem[k] + v <= MaxValue
  /\ \E s \in Stores \ Used :
       Update(h, T(h), s,
              FromVector("Int64", [k \in 1..S(h).size |-> S(h).mem[k] + v]),
              torn)

\* iAdd: the locations its kernel pairs for the k-th step of the loop, in the
\* storage of the left and of the right tensor.
LeftPlace(l, r, k)  == IF l.conti /\ r.conti THEN k ELSE Places(l)[k]

\* Mutant of RightPlace: the inverse map of the left tensor is used for both.
RightPlace_Left(l, r, k) == LeftPlace(l, r, k)

RightPlace(l, r, k) == IF l.conti /\ r.conti THEN k
                       ELSE Places([r EXCEPT !.shape = l.shape])[k]

\* The elements of the storage l of the tensor lt, with those of rt added.
Added(lt, l, rt, r) ==
  LET Term(j) == IF r.size = 1 THEN r.mem[1]
                 ELSE r.mem[RightPlace(lt, rt,
                        CHOOSE k \in 1..l.size : LeftPlace(lt, rt, k) = j)]
  IN [l EXCEPT !.mem = [j \in 1..Len(@) |->
                          IF j <= l.size THEN @[j] + Term(j) ELSE @[j]]]

\* += of a tensor.  The right operand is cloned when the two share a storage, so
\* it is read as it was.  The loop runs over the size of the left storage: what a
\* shared append leaves of another size on the right, it reads past its end.
AddTensor(h, g) ==
  /\ Whole(h) /\ Whole(g)
  /\ T(g).shape = <<1>> \/ T(g).shape = T(h).shape
  /\ S(g).size \in {1, S(h).size}
  /\ LET sum == Added(T(h), S(h), T(g), S(g))
     IN /\ \A k \in 1..sum.size : sum.mem[k] <= MaxValue
        /\ Update(h, T(h), T(h).st, sum, torn)

-----------------------------------------------------------------------------
(* append.  A call that is refused has made the tensor contiguous by then, *)
(* which is Contiguous_.                                                   *)

MayGrow(h) == SharedGrow \/ ~T(h).conti
                         \/ \A i \in Live(ref) \ {ref[h]} : impl[i].st # T(h).st

\* One more entry of the first axis: the n elements at the start of mem, copied
\* to the end of the storage o.
Extended(o, n, mem) ==
  LET grown == Resized(o, o.size + n)
  IN [grown EXCEPT !.mem = [k \in 1..Len(@) |->
                              IF k > o.size /\ k <= o.size + n
                              THEN mem[k - o.size] ELSE @[k]]]

\* Mutant of Grown: the shape is left as it was.
Grown_SameShape(t) == ContiMeta(t)

Grown(t) == [ContiMeta(t) EXCEPT !.shape[1] = @ + 1]

\* append(rhs): rhs is taken as it lies in memory.
AppendTensor(h, g) ==
  /\ Whole(h) /\ Whole(g)
  /\ MayGrow(h)
  /\ Len(T(g).shape) > 0
  /\ T(g).shape = Tail(T(h).shape)
  /\ S(h).size + Prod(T(g).shape) \in 0..MaxSize
  /\ Settle(h, Grown(T(h)),
            Extended(ContiStore(T(h), S(h)), Prod(T(g).shape), S(g).mem), torn)

\* append(g.storage()) to a rank-2 tensor on another storage.
AppendStorage(h, g) ==
  /\ Whole(h) /\ Whole(g)
  /\ MayGrow(h)
  /\ T(h).st # T(g).st
  /\ S(g).size > 0
  /\ Len(T(h).shape) = 2
  /\ T(h).shape[2] = S(g).size
  /\ S(h).size + S(g).size \in 0..MaxSize
  /\ Settle(h, Grown(T(h)),
            Extended(ContiStore(T(h), S(h)), S(g).size, S(g).mem), torn)

AppendScalar(h, v) ==
  /\ Whole(h)
  /\ MayGrow(h)
  /\ Len(T(h).shape) = 1
  /\ T(h).conti
  /\ S(h).size < MaxSize
  /\ Settle(h, Grown(T(h)), Appended(S(h), v), torn)

-----------------------------------------------------------------------------
Next ==
  \E h \in Handles :
     \/ \E shape \in Shapes : Construct(h, shape)
     \/ \E n \in Sizes : FromVec(h, n)
     \/ Contiguous_(h)
     \/ \E g \in Handles : \/ FromStorage(h, g) \/ Assign(h, g) \/ Clone(h, g)
                           \/ Contiguous(h, g) \/ Flatten(h, g)
                           \/ AddTensor(h, g)
                           \/ AppendTensor(h, g) \/ AppendStorage(h, g)
     \/ \E rnks \in Rankings : \/ Permute_(h, rnks)
                               \/ \E n \in 1..Len(rnks) :
                                    PermuteThrows(h, rnks, n)
                               \/ \E g \in Handles : Permute(h, g, rnks)
     \/ \E ns \in NewShapes : \/ Reshape_(h, ns) \/ ReshapeThrows(h, ns)
                              \/ \E g \in Handles : Reshape(h, g, ns)
     \/ \E v \in Values : \/ Fill(h, v) \/ AddScalar(h, v) \/ AppendScalar(h, v)
                          \/ \E n \in 1..MaxSize : SetItem(h, n, v)

Spec == Init /\ [][Next]_vars

-----------------------------------------------------------------------------
(* Properties.                                                             *)

ImplRecords == [st : Stores, shape : Seq(Nat), mapper : Seq(Nat),
                inv : Seq(Nat), conti : BOOLEAN]

\* Exactly the impls some variable refers to exist, and exactly the storages
\* these refer to.
TypeOK ==
  /\ ref \in [Handles -> Impls \cup {Void}]
  /\ DOMAIN impl = Impls /\ DOMAIN heap = Stores
  /\ \A i \in Impls : IF i \in Live(ref) THEN impl[i] \in ImplRecords
                                       ELSE impl[i] = None
  /\ \A s \in Stores : IF s \in Used
                      THEN /\ DOMAIN heap[s] = {"dt", "size", "mem"}
                           /\ heap[s].size \in Nat
                      ELSE heap[s] = None
  /\ torn \subseteq Live(ref)

Intact == Live(ref) \ torn

\* The two maps of t are inverse to one another, over as many axes as it has, and
\* the contiguous flag tells whether they are the identity.
Laid(t) ==
  LET n == Len(t.shape)
  IN /\ t.mapper \in [1..n -> 1..n] /\ t.inv \in [1..n -> 1..n]
     /\ \A k \in 1..n : t.inv[t.mapper[k]] = k /\ t.mapper[t.inv[k]] = k
     /\ t.conti <=> t.mapper = Identity(n)

\* Every intact tensor is laid out: at(), contiguous_(), iAdd and append follow one
\* of its maps, or skip both on the flag's word, and permute_, contiguous_ and
\* reshape_ each rewrite the four fields.
LayoutOK == \A i \in Intact : Laid(impl[i])

\* The storage of a tensor has as many elements as its shape says, and a buffer
\* that holds them.
SizeMatches ==
  \A i \in Intact :
     LET o == heap[impl[i].st]
     IN Prod(impl[i].shape) = o.size /\ o.size <= Len(o.mem)

\* The arrays the impls stand for.
Arr == [i \in Live(ref) |->
          IF i \in torn THEN [shape |-> <<>>, cells |-> <<>>, elems |-> <<>>]
          ELSE LET at  == Places(impl[i])
                   mem == heap[impl[i].st].mem
               IN [shape |-> impl[i].shape,
                   cells |-> [n \in 1..Len(at) |-> <<impl[i].st, at[n]>>],
                   elems |-> [n \in 1..Len(at) |-> mem[at[n]]]]]

\* "C(i,j,k) = B(j,k) if i = N" (include/Tensor.hpp:1426): the elements of the
\* appended tensor, in the order its user reads them, are the last ones of the
\* result.
AppendedElements ==
  [][\A h, g \in Handles :
       AppendTensor(h, g) =>
         LET i   == ref[h]
             old == Places(T(g))
             new == Places(impl'[i])
         IN \A k \in 1..Len(old) :
              heap'[impl'[i].st].mem[new[Len(new) - Len(old) + k]]
                = S(g).mem[old[k]]]_vars
=============================================================================
