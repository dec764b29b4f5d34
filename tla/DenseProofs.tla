---------------------------- MODULE DenseProofs ----------------------------
(***************************************************************************)
(* What is proved of DenseUniTensor for every number of variables, ranks,  *)
(* labels and shapes: that the labels, bonds, directions, rowrank and      *)
(* block of every UniTensor fit one another, and that the blocks are laid  *)
(* out.  What a call does to the block is proved in TensorProofs.          *)
(***************************************************************************)
EXTENDS DenseUniTensor, StridedProofs

\* The theorems on Tensors and slices, of the blocks.
TP == INSTANCE TensorProofs

-----------------------------------------------------------------------------
(* The blocks of DenseUniTensor are the Tensors of TensorProofs.           *)

LEMMA Assumed == TP!TensorAssumption /\ TP!SlicesAssumption
<1>1. TP!TensorAssumption
  BY DenseAssumption DEF TP!TensorAssumption, IsInjective, TP!IsInjective
<1>2. TP!SlicesAssumption
  <2>1. Block!Accessors = TP!Accessors
    BY DEF Block!Accessors, TP!Accessors, Block!All, TP!All
  <2>2. Block!SlicesAssumption
    BY DenseAssumption
  <2> QED BY <2>1, <2>2 DEF TP!SlicesAssumption, Block!SlicesAssumption
<1> QED BY <1>1, <1>2

LEMMA Once_ == \A p : IsInjective(p) <=> TP!IsInjective(p)
BY DEF IsInjective, TP!IsInjective

LEMMA SameBlock ==
  ASSUME NEW h
  PROVE  /\ Block!T(h) = TP!T(h) /\ Block!S(h) = TP!S(h)
         /\ Block!Whole(h) <=> TP!Whole(h)
BY DEF Block!T, TP!T, Block!S, TP!S, Block!Whole, TP!Whole

LEMMA SameStart == Block!Init <=> TP!Init
BY DEF Block!Init, TP!Init

LEMMA SameLayout == Block!LayoutOK <=> TP!LayoutOK
BY DEF Block!LayoutOK, TP!LayoutOK, Block!Intact, TP!Intact, Block!Live, TP!Live,
       Block!Laid, TP!Laid, Block!Identity, TP!Identity

LEMMA SameParts ==
  /\ \A r : Block!Live(r) = TP!Live(r)
  /\ Block!Used = TP!Used
  /\ \A shape : Block!Plain(shape) = TP!Plain(shape)
  /\ \A o : Block!Cloned(o) = TP!Cloned(o)
  /\ \A dt, v : Block!FromVector(dt, v) = TP!FromVector(dt, v)
  /\ \A ns, d : Block!Settled(ns, d) = TP!Settled(ns, d)
  /\ \A t, p : Block!Permuted(t, p) = TP!Permuted(t, p)
<1>1. \A r : Block!Live(r) = TP!Live(r)
  BY DEF Block!Live, TP!Live
<1>2. Block!Used = TP!Used
  BY DEF Block!Used, TP!Used, Block!Live, TP!Live
<1>3. \A shape : Block!Plain(shape) = TP!Plain(shape)
  BY DEF Block!Plain, TP!Plain, Block!Identity, TP!Identity
<1>4. \A o : Block!Cloned(o) = TP!Cloned(o)
  BY DEF Block!Cloned, TP!Cloned, Block!RoundUp, TP!RoundUp,
         Block!STORAGE_DEFT_SZ, TP!STORAGE_DEFT_SZ
<1>5. \A dt, v : Block!FromVector(dt, v) = TP!FromVector(dt, v)
  BY DEF Block!FromVector, TP!FromVector, Block!Capacity, TP!Capacity, Block!RoundUp, TP!RoundUp,
         Block!STORAGE_DEFT_SZ, TP!STORAGE_DEFT_SZ, Block!CastTo, TP!CastTo
<1>6. \A ns, d : Block!Settled(ns, d) = TP!Settled(ns, d)
  BY DEF Block!Settled, TP!Settled, Block!Undetermined, TP!Undetermined
<1>7. \A t, p : Block!Permuted(t, p) = TP!Permuted(t, p)
  BY DEF Block!Permuted, TP!Permuted, Block!Compose, TP!Compose, Block!Scattered, TP!Scattered,
         Block!Identity, TP!Identity
<1> QED BY <1>1, <1>2, <1>3, <1>4, <1>5, <1>6, <1>7

LEMMA SameBind ==
  ASSUME NEW h, NEW t, NEW o
  PROVE  Block!BindFresh(h, t, o) <=> TP!BindFresh(h, t, o)
BY DEF Block!BindFresh, TP!BindFresh, Block!Bind, TP!Bind, Block!Commit, TP!Commit,
       Block!Live, TP!Live, Block!Used, TP!Used

LEMMA SameUpdate ==
  ASSUME NEW h, NEW t, NEW s, NEW o, NEW tn
  PROVE  Block!Update(h, t, s, o, tn) <=> TP!Update(h, t, s, o, tn)
BY DEF Block!Update, TP!Update, Block!Commit, TP!Commit, Block!Live, TP!Live

LEMMA SameStore ==
  ASSUME NEW t, NEW o
  PROVE  Block!Moved(t, o) = TP!Moved(t, o) /\ Block!ContiStore(t, o) = TP!ContiStore(t, o)
         /\ Block!ContiMeta(t) = TP!ContiMeta(t)
BY SameParts
   DEF Block!Moved, TP!Moved, Block!ContiStore, TP!ContiStore, Block!ContiMeta, TP!ContiMeta,
       Block!MoveMemory, TP!MoveMemory, Block!Compose, TP!Compose, Block!Prod, TP!Prod,
       Block!Location, TP!Location, Block!Locator, TP!Locator

LEMMA SameSettle ==
  ASSUME NEW h, NEW t, NEW o, NEW tn
  PROVE  Block!Settle(h, t, o, tn) <=> TP!Settle(h, t, o, tn)
BY SameParts, SameUpdate, SameBlock DEF Block!Settle, TP!Settle

LEMMA SameCopy ==
  ASSUME NEW h, NEW g
  PROVE  /\ Block!Assign(h, g) <=> TP!Assign(h, g)
         /\ Block!Clone(h, g) <=> TP!Clone(h, g)
         /\ Block!Contiguous(h, g) <=> TP!Contiguous(h, g)
         /\ Block!Contiguous_(h) <=> TP!Contiguous_(h)
<1>1. Block!Assign(h, g) <=> TP!Assign(h, g)
  BY DEF Block!Assign, TP!Assign, Block!Commit, TP!Commit, Block!Live, TP!Live
<1>2. Block!Clone(h, g) <=> TP!Clone(h, g)
  BY SameBind, SameBlock, SameParts DEF Block!Clone, TP!Clone
<1>3. Block!Contiguous(h, g) <=> TP!Contiguous(h, g)
  BY SameBind, SameBlock, SameStore DEF Block!Contiguous, TP!Contiguous
<1>4. Block!Contiguous_(h) <=> TP!Contiguous_(h)
  BY SameSettle, SameBlock, SameStore DEF Block!Contiguous_, TP!Contiguous_
<1> QED BY <1>1, <1>2, <1>3, <1>4

LEMMA SamePermute ==
  ASSUME NEW h, NEW g, NEW p
  PROVE  /\ Block!Permute(h, g, p) <=> TP!Permute(h, g, p)
         /\ Block!Permute_(h, p) <=> TP!Permute_(h, p)
<1>1. Block!Permute(h, g, p) <=> TP!Permute(h, g, p)
  <2>1. \A t, s, o : Block!Bind(h, t, s, o) <=> TP!Bind(h, t, s, o)
    BY DEF Block!Bind, TP!Bind, Block!Commit, TP!Commit, Block!Live, TP!Live
  <2> QED BY <2>1, SameBlock, SameParts DEF Block!Permute, TP!Permute
<1>2. Block!Permute_(h, p) <=> TP!Permute_(h, p)
  BY SameBlock, SameParts, SameUpdate DEF Block!Permute_, TP!Permute_
<1> QED BY <1>1, <1>2

LEMMA SameReshape ==
  ASSUME NEW h, NEW g, NEW ns
  PROVE  /\ Block!Reshape(h, g, ns) <=> TP!Reshape(h, g, ns)
         /\ Block!Reshape_(h, ns) <=> TP!Reshape_(h, ns)
         /\ Block!ReshapeThrows(h, ns) <=> TP!ReshapeThrows(h, ns)
<1>1. \A d, n : Block!Resolves(ns, d, n) <=> TP!Resolves(ns, d, n)
  BY DEF Block!Resolves, TP!Resolves, Block!Undetermined, TP!Undetermined,
               Block!NewN, TP!NewN, Block!Prod, TP!Prod
<1>2. Block!Divides(ns) <=> TP!Divides(ns)
  BY DEF Block!Divides, TP!Divides, Block!Undetermined, TP!Undetermined,
               Block!NewN, TP!NewN, Block!Prod, TP!Prod
<1>3. \A t, s, o : Block!Bind(h, t, s, o) <=> TP!Bind(h, t, s, o)
  BY DEF Block!Bind, TP!Bind, Block!Commit, TP!Commit, Block!Live, TP!Live
<1>4. Block!Reshape(h, g, ns) <=> TP!Reshape(h, g, ns)
  BY <1>1, <1>3, SameBlock, SameParts, SameBind, SameStore DEF Block!Reshape, TP!Reshape
<1>5. Block!Reshape_(h, ns) <=> TP!Reshape_(h, ns)
  BY <1>1, SameBlock, SameParts, SameSettle, SameStore DEF Block!Reshape_, TP!Reshape_
<1>6. Block!ReshapeThrows(h, ns) <=> TP!ReshapeThrows(h, ns)
  BY <1>1, <1>2, SameBlock, SameParts, SameSettle, SameStore
     DEF Block!ReshapeThrows, TP!ReshapeThrows
<1> QED BY <1>4, <1>5, <1>6

\* What only writes elements.
LEMMA SameWrite ==
  ASSUME NEW h, NEW g, NEW n, NEW v, NEW accs
  PROVE  /\ Block!SetItem(h, n, v) <=> TP!SetItem(h, n, v)
         /\ Block!AddScalar(h, v) <=> TP!AddScalar(h, v)
         /\ Block!AddTensor(h, g) <=> TP!AddTensor(h, g)
         /\ Block!Set(h, accs, g) =>
              \E x : TP!Whole(h) /\ TP!Update(h, TP!T(h), TP!T(h).st, [TP!S(h) EXCEPT !.mem = x], torn)
<1>1. \A t : Block!Places(t) = TP!Places(t)
  BY DEF Block!Places, TP!Places, Block!At, TP!At, Block!Compose, TP!Compose,
               Block!Prod, TP!Prod, Block!Location, TP!Location, Block!Locator, TP!Locator
<1>2. Block!SetItem(h, n, v) <=> TP!SetItem(h, n, v)
  <2>1. Block!Prod(TP!T(h).shape) = TP!Prod(TP!T(h).shape)
    BY DEF Block!Prod, TP!Prod
  <2>2. \A o, k : Block!ItemSet(o, k, v) = TP!ItemSet(o, k, v)
    BY DEF Block!ItemSet, TP!ItemSet, Block!Write, TP!Write, Block!CastTo, TP!CastTo
  <2> QED BY <1>1, <2>1, <2>2, SameBlock, SameUpdate DEF Block!SetItem, TP!SetItem
<1>3. Block!AddScalar(h, v) <=> TP!AddScalar(h, v)
  BY SameBlock, SameUpdate, SameParts DEF Block!AddScalar, TP!AddScalar
<1>4. Block!AddTensor(h, g) <=> TP!AddTensor(h, g)
  <2>1. \A lt, l, rt, r : Block!Added(lt, l, rt, r) = TP!Added(lt, l, rt, r)
    BY DEF Block!Added, TP!Added, Block!LeftPlace, TP!LeftPlace, Block!RightPlace,
           TP!RightPlace, Block!Places, TP!Places, Block!At, TP!At, Block!Compose,
           TP!Compose, Block!Prod, TP!Prod, Block!Location, TP!Location, Block!Locator,
           TP!Locator
  <2> QED BY <2>1, SameBlock, SameUpdate DEF Block!AddTensor, TP!AddTensor
<1>5. ASSUME Block!Set(h, accs, g)
      PROVE  \E x : TP!Whole(h) /\ TP!Update(h, TP!T(h), TP!T(h).st, [TP!S(h) EXCEPT !.mem = x], torn)
  <2> DEFINE x == Block!SetElems(TP!T(h), TP!S(h).mem, accs, TP!T(g), TP!S(g), TP!T(g).st = TP!T(h).st)
  <2>1. TP!Whole(h) /\ TP!Update(h, TP!T(h), TP!T(h).st, [TP!S(h) EXCEPT !.mem = x], torn)
    BY <1>5, SameBlock, SameUpdate DEF Block!Set, Block!SetStore
  <2> HIDE DEF x
  <2> QED BY <2>1
<1> QED BY <1>2, <1>3, <1>4, <1>5

LEMMA SameGet ==
  ASSUME NEW h, NEW g, NEW accs
  PROVE  Block!Get(h, g, accs) <=> TP!Get(h, g, accs)
<1>1. \A t : Block!Accepts(t, accs) <=> TP!Accepts(t, accs)
  BY DEF Block!Accepts, TP!Accepts, Block!OnAxis, TP!OnAxis, Block!Refuses, TP!Refuses,
               Block!Quotient, TP!Quotient, Block!Bound, TP!Bound, Block!First, TP!First
<1>2. /\ \A t : Block!InStorage(t, accs) = TP!InStorage(t, accs)
      /\ \A t : Block!StorageShape(t) = TP!StorageShape(t)
      /\ \A acc : Block!Removed(acc) = TP!Removed(acc)
      /\ \A acc : Block!Fronts(acc) = TP!Fronts(acc)
      /\ Block!All = TP!All
      /\ \A s : Block!Prod(s) = TP!Prod(s)
      /\ \A s, S : Block!Erased(s, S) = TP!Erased(s, S)
      /\ \A n : Block!Identity(n) = TP!Identity(n)
  BY DEF Block!InStorage, TP!InStorage, Block!Compose, TP!Compose, Block!All, TP!All,
               Block!StorageShape, TP!StorageShape, Block!Removed, TP!Removed,
               Block!Fronts, TP!Fronts, Block!Prod, TP!Prod, Block!Erased, TP!Erased,
               Block!Identity, TP!Identity
<1>3. \A acc, dim : Block!Positions(acc, dim) = TP!Positions(acc, dim)
  BY DEF Block!Positions, TP!Positions, Block!Stride, TP!Stride, Block!Quotient,
               TP!Quotient, Block!Bound, TP!Bound, Block!First, TP!First
<1>4. \A dims, acc : Block!Lengths(dims, acc) = TP!Lengths(dims, acc)
  BY <1>2, <1>3 DEF Block!Lengths, TP!Lengths
<1>5. \A s, m : Block!Compose(s, m) = TP!Compose(s, m)
  BY DEF Block!Compose, TP!Compose
<1>6. \A t : Block!Kept(t, accs) = TP!Kept(t, accs) /\ Block!Back(t, accs) = TP!Back(t, accs)
  <2>1. \A t : Block!Kept(t, accs) = TP!Kept(t, accs)
    BY <1>2, <1>4, <1>5 DEF Block!Kept, TP!Kept, Block!Identity, TP!Identity
  <2>2. \A t : Block!Back(t, accs) = TP!Back(t, accs)
    BY DEF Block!Cardinality, TP!Cardinality, Block!All, TP!All, Block!Back, TP!Back, Block!Compose, TP!Compose,
           Block!Erased, TP!Erased, Block!InStorage, TP!InStorage, Block!Removed,
           TP!Removed
  <2> QED BY <2>1, <2>2
<1>7. \A t : Block!GotImpl(t, accs) = TP!GotImpl(t, accs)
  BY <1>6, SameParts DEF Block!GotImpl, TP!GotImpl
<1>8. \A t : Block!Touched(t, accs) = TP!Touched(t, accs)
  <2>1. \A front, c : Block!Location(front, c) = TP!Location(front, c)
    BY DEF Block!Location, TP!Location
  <2>2. \A s, k : Block!Locator(s, k) = TP!Locator(s, k)
    BY DEF Block!Locator, TP!Locator
  <2>3. \A t : Block!Units(t, accs) = TP!Units(t, accs)
    <3> TAKE t
    <3> DEFINE acc == Block!InStorage(t, accs)
               dims == Block!StorageShape(t)
               n == Block!Fronts(acc)
               front == SubSeq(dims, 1, n)
               taken == SubSeq(Block!Lengths(dims, acc), 1, n)
               At(c) == Block!Location(front,
                          [k \in 1..n |-> IF acc[k] = Block!All THEN c[k]
                                          ELSE Block!Positions(acc[k], dims[k])[c[k] + 1]])
               AtT(c) == TP!Location(front,
                          [k \in 1..n |-> IF acc[k] = TP!All THEN c[k]
                                          ELSE TP!Positions(acc[k], dims[k])[c[k] + 1]])
    <3>1. Block!Units(t, accs) = [q \in 1..Block!Prod(taken) |-> At(Block!Locator(taken, q - 1))]
      BY DEF Block!Units
    <3>2. TP!Units(t, accs) = [q \in 1..Block!Prod(taken) |-> AtT(Block!Locator(taken, q - 1))]
      <4>1. /\ acc = TP!InStorage(t, accs) /\ dims = TP!StorageShape(t)
            /\ n = TP!Fronts(acc) /\ taken = SubSeq(TP!Lengths(dims, acc), 1, n)
            /\ Block!Prod(taken) = TP!Prod(taken)
        BY <1>2, <1>4
      <4>2. TP!Units(t, accs) = [q \in 1..TP!Prod(taken) |-> AtT(TP!Locator(taken, q - 1))]
        BY <4>1 DEF TP!Units
      <4> HIDE DEF acc, dims, n, front, taken, AtT
      <4> QED BY <4>1, <4>2, <2>2
    <3>3. \A c : At(c) = AtT(c)
      <4> TAKE c
      <4>1. \A k : Block!Positions(acc[k], dims[k]) = TP!Positions(acc[k], dims[k])
        BY <1>3
      <4> HIDE DEF acc, dims, n, front, taken
      <4>2. [k \in 1..n |-> IF acc[k] = Block!All THEN c[k]
                            ELSE Block!Positions(acc[k], dims[k])[c[k] + 1]]
              = [k \in 1..n |-> IF acc[k] = TP!All THEN c[k]
                                ELSE TP!Positions(acc[k], dims[k])[c[k] + 1]]
        BY <4>1, <1>2
      <4> QED BY <4>2, <2>1
    <3> HIDE DEF acc, dims, n, front, taken, At, AtT
    <3> QED BY <3>1, <3>2, <3>3
  <2>4. \A t : Block!Nunit(t, accs) = TP!Nunit(t, accs)
    BY <1>2 DEF Block!Nunit, TP!Nunit
  <2> QED BY <2>3, <2>4 DEF Block!Touched, TP!Touched
<1>9. \A t, o : Block!GotStore(t, o, accs) = TP!GotStore(t, o, accs)
  BY <1>5, <1>8, SameParts DEF Block!GotStore, TP!GotStore
<1> QED BY <1>1, <1>7, <1>9, SameBlock, SameBind DEF Block!Get, TP!Get

-----------------------------------------------------------------------------
(* What is invariant.                                                      *)

Metas == [labels : Seq(Nat), bonds : Seq(Legs), rowrank : Nat, diag : BOOLEAN,
          tag : BOOLEAN, braket : BOOLEAN]

\* What MetaFits says of a UniTensor besides its block.
Proper(m) ==
  /\ m \in Metas
  /\ IsInjective(m.labels) /\ Len(m.labels) = Len(m.bonds)
  /\ \A j \in DOMAIN m.bonds : (m.bonds[j].type # B!BD_REG) = m.tag
  /\ m.diag /\ m.bonds # <<>> => Len(m.bonds) = 2 /\ m.bonds[1].dim = m.bonds[2].dim
  /\ m.rowrank \in 0..Rank(m)

DInv ==
  /\ TP!IInv
  /\ meta = [h \in Handles |-> meta[h]]
  /\ \A h \in Handles : meta[h] # Void =>
       /\ ref[h] # Void
       /\ h \notin amiss /\ ref[h] \notin torn =>
            Proper(meta[h]) /\ Block!T(h).shape = BlockShape(meta[h])

LEMMA Fitting == DInv => MetaFits /\ LayoutOK
<1> SUFFICES ASSUME DInv PROVE MetaFits /\ LayoutOK
  OBVIOUS
<1>1. LayoutOK
  BY SameLayout DEF DInv, TP!IInv, LayoutOK
<1>2. ASSUME NEW h \in {k \in Handles \ amiss : meta[k] # Void /\ ref[k] \notin torn}
      PROVE  Proper(meta[h]) /\ Block!T(h).shape = BlockShape(meta[h])
  BY DEF DInv
<1>3. MetaFits
  BY <1>2 DEF MetaFits, Proper
<1> QED BY <1>1, <1>3

\* A call that describes h anew: what it says fits the block that h has then.
LEMMA StepInv ==
  ASSUME DInv, NEW h \in Handles, NEW w, NEW m,
         TP!IInv', TP!Gets(h, w),
         meta' = [meta EXCEPT ![h] = m],
         amiss \ {h} \subseteq amiss',
         h \notin amiss' /\ ref'[h] \notin torn' => Proper(m) /\ w = BlockShape(m)
  PROVE  DInv'
<1>1. meta' = [g \in Handles |-> meta'[g]]
  BY DEF DInv
<1>2. meta'[h] = m /\ \A g \in Handles \ {h} : meta'[g] = meta[g]
  BY DEF DInv
<1>3. /\ ref'[h] # Void
      /\ h \notin amiss' /\ ref'[h] \notin torn' =>
           Proper(m) /\ impl'[ref'[h]].shape = BlockShape(m)
  BY DEF TP!Gets
<1>4. ASSUME NEW g \in Handles \ {h}, meta[g] # Void
      PROVE  /\ ref'[g] # Void
             /\ g \notin amiss' /\ ref'[g] \notin torn' =>
                  Proper(meta[g]) /\ impl'[ref'[g]].shape = BlockShape(meta[g])
  <2>1. /\ ref[g] # Void
        /\ g \notin amiss /\ ref[g] \notin torn =>
             Proper(meta[g]) /\ impl[ref[g]].shape = BlockShape(meta[g])
    BY <1>4 DEF DInv, Block!T
  <2>2. /\ ref'[g] = ref[g]
        /\ ref[g] # Void /\ ref[g] \notin torn' =>
             ref[g] \notin torn /\ impl'[ref[g]].shape = impl[ref[g]].shape
    BY DEF TP!Gets
  <2>3. g \notin amiss' => g \notin amiss
    OBVIOUS
  <2> QED BY <2>1, <2>2, <2>3
<1>5. \A k \in Handles : meta'[k] # Void =>
        /\ ref'[k] # Void
        /\ k \notin amiss' /\ ref'[k] \notin torn' =>
             Proper(meta'[k]) /\ impl'[ref'[k]].shape = BlockShape(meta'[k])
  BY <1>2, <1>3, <1>4
<1> QED BY <1>1, <1>5 DEF DInv, Block!T

\* A call that only changes the block, and keeps its shape.
LEMMA KeepInv ==
  ASSUME DInv, NEW h \in Handles, NEW w,
         TP!IInv', TP!Gets(h, w), Keep,
         h \notin amiss /\ ref'[h] \notin torn' => Proper(meta[h]) /\ w = BlockShape(meta[h])
  PROVE  DInv'
<1>1. meta' = [meta EXCEPT ![h] = meta[h]] /\ amiss' = amiss
  BY DEF Keep, DInv
<1> QED BY <1>1, StepInv

\* What h has if one can compute with it.
LEMMA UsableIs ==
  ASSUME DInv, NEW h \in Handles, Usable(h)
  PROVE  /\ TP!IInv /\ TP!Whole(h) /\ h \notin amiss /\ ref[h] \notin torn
         /\ Proper(meta[h]) /\ TP!T(h).shape = BlockShape(meta[h])
         /\ meta[h].diag => meta[h].bonds # <<>>
<1>1. TP!Whole(h) /\ Block!T(h) = TP!T(h)
  BY SameBlock DEF Usable
<1>2. ref[h] \notin torn
  BY <1>1 DEF TP!Whole
<1> QED BY <1>1, <1>2 DEF Usable, DInv

LEMMA OneOwner ==
  ASSUME NEW h \in Handles, Careful, MayLayOut(h)
  PROVE  TP!Alone(h)
BY DEF MayLayOut, TP!Alone

\* A block of one's own.
LEMMA BlockGets ==
  ASSUME DInv, NEW h \in Handles, NEW t, t.shape \in Seq(Nat), Len(t.data) \in Nat,
         BindBlock(h, t)
  PROVE  TP!IInv' /\ TP!Gets(h, t.shape)
<1> DEFINE p == TP!Plain(t.shape)
           o == TP!FromVector("Int64", t.data)
<1>1. TP!BindFresh(h, p, o)
  BY SameBind, SameParts DEF BindBlock
<1>2. p \in TP!MetaRecords /\ TP!Laid(p) /\ p.shape = t.shape
  BY Assumed, TP!PlainLaid, TP!PlainShape
<1>3. TP!Sized(o)
  BY Assumed, TP!NewSized
<1>4. TP!IInv
  BY DEF DInv
<1> HIDE DEF p, o
<1>5. TP!IInv' /\ TP!Gets(h, p.shape)
  BY <1>1, <1>2, <1>3, <1>4, Assumed, TP!FreshGets
<1> QED BY <1>2, <1>5

-----------------------------------------------------------------------------
(* Labels, bonds, directions and rowranks.                                 *)

LEMMA ShapeNat ==
  ASSUME NEW m, Proper(m)
  PROVE  BlockShape(m) \in Seq(Nat) /\ BlockShape(m) # <<>>
<1> DEFINE n == Len(m.bonds)
<1>1. n \in Nat /\ m.bonds \in [1..n -> Legs] /\ m.bonds \in Seq(Legs)
  BY DEF Proper, Metas
<1>2. \A j \in 1..n : m.bonds[j].dim \in Nat
  BY <1>1 DEF Legs
<1>3. CASE m.bonds = <<>>
  <2>1. BlockShape(m) = <<1>>
    BY <1>3 DEF BlockShape
  <2> QED BY <2>1
<1>4. CASE m.bonds # <<>> /\ m.diag
  <2>1. BlockShape(m) = <<m.bonds[1].dim>> /\ 1 \in 1..n
    BY <1>1, <1>4 DEF BlockShape
  <2>2. m.bonds[1].dim \in Nat
    BY <1>2, <2>1
  <2> QED BY <2>1, <2>2
<1>5. CASE m.bonds # <<>> /\ ~m.diag
  <2>1. BlockShape(m) = [j \in 1..n |-> m.bonds[j].dim] /\ n # 0
    BY <1>1, <1>5 DEF BlockShape, Dims
  <2>2. BlockShape(m) \in [1..n -> Nat]
    BY <1>2, <2>1
  <2>3. Len(BlockShape(m)) = n
    BY <1>1, <2>1
  <2> QED BY <1>1, <2>1, <2>2, <2>3
<1> QED BY <1>3, <1>4, <1>5

LEMMA UpdatedFits ==
  ASSUME NEW m, Proper(m)
  PROVE  Proper(Updated(m)) /\ BlockShape(Updated(m)) = BlockShape(m)
<1> DEFINE b == Braket(m.bonds, m.rowrank)
<1>1. b \in BOOLEAN
  BY DEF Braket
<1>2. Updated(m) = [m EXCEPT !.braket = b]
  BY DEF Updated
<1> HIDE DEF b
<1> DEFINE u == Updated(m)
<1>3. m \in Metas
  BY DEF Proper
<1>4. /\ u \in Metas /\ u.labels = m.labels /\ u.bonds = m.bonds
      /\ u.rowrank = m.rowrank /\ u.diag = m.diag /\ u.tag = m.tag
  BY <1>1, <1>2, <1>3 DEF Metas
<1> HIDE DEF u
<1>5. Proper(u)
  BY <1>4 DEF Proper, Rank
<1>6. BlockShape(u) = BlockShape(m)
  BY <1>4 DEF BlockShape, Dims
<1> QED BY <1>5, <1>6 DEF u

\* The bonds of a UniTensor that is tagged have directions, those of another have
\* none.
LEMMA TagsFit ==
  ASSUME NEW bonds, NEW tag \in BOOLEAN
  PROVE  (\A j \in DOMAIN bonds : (bonds[j].type # B!BD_REG) = tag)
           <=> /\ tag => \A j \in DOMAIN bonds : bonds[j].type # B!BD_REG
               /\ ~tag => \A j \in DOMAIN bonds : bonds[j].type = B!BD_REG
<1>1. CASE tag = TRUE
  BY <1>1
<1>2. CASE tag = FALSE
  BY <1>2
<1> QED BY <1>1, <1>2

\* Init_by_Tensor.
LEMMA ByTensorFits ==
  ASSUME NEW shape \in Seq(Nat), shape # <<>>, NEW diag \in BOOLEAN, NEW rowrank \in Int,
         Initable(shape, diag, rowrank)
  PROVE  LET m == ByTensor(shape, diag, rowrank)
         IN Proper(m) /\ BlockShape(m) = shape
<1> DEFINE dims == IF diag THEN shape \o shape ELSE shape
           n == Len(dims)
           m == ByTensor(shape, diag, rowrank)
<1>1. n \in Nat /\ n # 0 /\ dims \in Seq(Nat) /\ dims \in [1..n -> Nat] /\ DOMAIN dims = 1..n
  <2>1. shape \o shape \in Seq(Nat) /\ Len(shape \o shape) = Len(shape) + Len(shape)
    BY ConcatProperties
  <2>2. Len(shape) \in Nat /\ Len(shape) # 0
    OBVIOUS
  <2>3. dims \in Seq(Nat) /\ n # 0
    BY <2>1, <2>2
  <2> HIDE DEF dims
  <2> QED BY <2>3
<1>2. diag => n = 2 /\ dims[1] = shape[1] /\ dims[2] = shape[1]
  <2>1. ASSUME diag PROVE n = 2 /\ dims[1] = shape[1] /\ dims[2] = shape[1]
    <3>1. Len(shape) = 1 /\ dims = shape \o shape
      BY <2>1 DEF Initable
    <3>2. shape \in Seq(Nat)
      OBVIOUS
    <3>3. /\ Len(shape \o shape) = Len(shape) + Len(shape)
          /\ \A j \in 1..(Len(shape) + Len(shape)) :
               (shape \o shape)[j] = IF j <= Len(shape) THEN shape[j] ELSE shape[j - Len(shape)]
      BY <3>2, ConcatProperties
    <3>4. (shape \o shape)[1] = shape[1] /\ (shape \o shape)[2] = shape[1]
      BY <3>1, <3>3
    <3> QED BY <3>1, <3>3, <3>4
  <2> QED BY <2>1
<1>3. ~diag => dims = shape
  OBVIOUS
<1> DEFINE labels == [j \in 1..n |-> j - 1]
           bonds == [j \in 1..n |-> [type |-> B!BD_REG, dim |-> dims[j]]]
           r == IF rowrank >= 0 THEN rowrank ELSE n \div 2
<1>4. m = [labels |-> labels, bonds |-> bonds, rowrank |-> r, diag |-> diag,
           tag |-> FALSE, braket |-> FALSE]
  BY <1>1 DEF ByTensor
<1>5. r \in 0..n
  <2>1. rowrank >= 0 => rowrank <= n
    BY <1>2, <1>3 DEF Initable
  <2>2. n \div 2 \in 0..n
    <3>1. \A k \in Nat : k \div 2 \in 0..k
      OBVIOUS
    <3> HIDE DEF n
    <3> QED BY <1>1, <3>1
  <2> HIDE DEF n
  <2> QED BY <2>1, <2>2
<1>6. labels \in Seq(Nat) /\ Len(labels) = n /\ IsInjective(labels)
  BY <1>1 DEF IsInjective
<1>7. bonds \in Seq(Legs) /\ Len(bonds) = n
  <2>1. \A j \in 1..n : [type |-> B!BD_REG, dim |-> dims[j]] \in Legs
    BY <1>1 DEF Legs
  <2>2. bonds \in [1..n -> Legs]
    BY <2>1
  <2> HIDE DEF n, dims
  <2> QED BY <1>1, <2>2
<1>8. \A j \in 1..n : bonds[j].type = B!BD_REG /\ bonds[j].dim = dims[j]
  OBVIOUS
<1>9. /\ m.labels = labels /\ m.bonds = bonds /\ m.rowrank = r /\ m.diag = diag
      /\ m.tag = FALSE
  BY <1>4
<1>10. m \in Metas
  <2> HIDE DEF labels, bonds, r
  <2>1. r \in Nat
    BY <1>1, <1>5
  <2> QED BY <1>4, <1>6, <1>7, <2>1 DEF Metas
<1> HIDE DEF m, labels, bonds, r
<1>11. Proper(m)
  <2>1. m.diag /\ m.bonds # <<>> => Len(m.bonds) = 2 /\ m.bonds[1].dim = m.bonds[2].dim
    BY <1>2, <1>7, <1>8, <1>9
  <2>2. \A j \in DOMAIN m.bonds : (m.bonds[j].type # B!BD_REG) = m.tag
    <3>1. \A j \in DOMAIN m.bonds : m.bonds[j].type = B!BD_REG
      BY <1>7, <1>8, <1>9
    <3> QED BY <1>9, <3>1, TagsFit
  <2> QED BY <1>5, <1>6, <1>7, <1>9, <1>10, <2>1, <2>2 DEF Proper, Rank
<1>12. BlockShape(m) = shape
  <2>1. m.bonds # <<>> /\ DOMAIN m.bonds = 1..n
    BY <1>1, <1>7, <1>9
  <2>2. CASE diag
    <3>1. Len(shape) = 1
      BY <2>2 DEF Initable
    <3>2. shape = <<shape[1]>>
      BY <3>1
    <3>3. BlockShape(m) = <<m.bonds[1].dim>>
      BY <1>9, <2>1, <2>2 DEF BlockShape
    <3> QED BY <1>2, <1>8, <1>9, <2>2, <3>2, <3>3
  <2>3. CASE ~diag
    <3>1. BlockShape(m) = [j \in 1..n |-> m.bonds[j].dim]
      BY <1>9, <2>1, <2>3 DEF BlockShape, Dims
    <3>2. BlockShape(m) = [j \in 1..n |-> shape[j]]
      BY <1>3, <1>8, <1>9, <2>3, <3>1
    <3> QED BY <1>3, <2>3, <3>2
  <2> QED BY <2>2, <2>3
<1> QED BY <1>11, <1>12 DEF m

-----------------------------------------------------------------------------
(* What every call leaves behind.                                          *)

LEMMA StartInv == Init => DInv
<1> SUFFICES ASSUME Init PROVE DInv
  OBVIOUS
<1>1. TP!IInv
  BY SameStart, Assumed, TP!InitInv DEF Init
<1>2. meta = [h \in Handles |-> meta[h]] /\ \A h \in Handles : meta[h] = Void
  BY DEF Init
<1> QED BY <1>1, <1>2 DEF DInv

\* The elements of a block are as many as its shape says.
LEMMA ContentIs ==
  ASSUME DInv, NEW h \in Handles, Usable(h)
  PROVE  LET x == Content(h)
             w == BlockShape(meta[h])
         IN /\ x.shape = w /\ w \in Seq(Nat) /\ w # <<>>
            /\ Prod(w) \in Nat /\ DOMAIN x.data = 1..Prod(w) /\ Len(x.data) = Prod(w)
<1> DEFINE w == BlockShape(meta[h])
           at == Block!Places(Block!T(h))
<1>1. Proper(meta[h]) /\ Block!T(h).shape = w
  BY UsableIs, SameBlock
<1>2. w \in Seq(Nat) /\ w # <<>>
  BY <1>1, ShapeNat
<1>3. Block!Prod(w) = Prod(w) /\ Prod(w) \in Nat
  BY <1>2, ProdNat DEF Block!Prod, Prod
<1>4. DOMAIN at = 1..Prod(w)
  BY <1>1, <1>3 DEF Block!Places
<1>5. Content(h).shape = w /\ DOMAIN Content(h).data = 1..Prod(w)
  BY <1>1, <1>4 DEF Content
<1> HIDE DEF w, at
<1>6. Content(h).data = [n \in 1..Prod(w) |-> Content(h).data[n]]
  BY <1>4 DEF Content, at
<1>7. Len(Content(h).data) = Prod(w)
  BY <1>3, <1>6
<1> QED BY <1>2, <1>3, <1>5, <1>7 DEF w

\* The constructor.
LEMMA Constructed ==
  ASSUME NEW a \in NewTensors, Accepted(a)
  PROVE  LET m == [labels |-> a.labels, bonds |-> a.bonds, rowrank |-> InitRowrank(a),
                   diag |-> a.diag, tag |-> Tagged(a.bonds), braket |-> FALSE]
         IN Proper(m)
<1> DEFINE n == Len(a.bonds)
           r == InitRowrank(a)
           t == Tagged(a.bonds)
           m == [labels |-> a.labels, bonds |-> a.bonds, rowrank |-> r, diag |-> a.diag,
                 tag |-> t, braket |-> FALSE]
<1>1. /\ a.labels \in Seq(Nat) /\ a.bonds \in Seq(Legs)
      /\ a.rowrank \in Int /\ a.diag \in BOOLEAN
  BY DenseAssumption
<1>2. n \in Nat /\ DOMAIN a.bonds = 1..n /\ (a.bonds = <<>> <=> n = 0)
  BY <1>1
<1>3. t \in BOOLEAN
  BY DEF Tagged
<1>4. r \in 0..n
  <2>1. Cardinality(Kets(a.bonds)) \in 0..n
    <3>1. IsFiniteSet(1..n) /\ Cardinality(1..n) = n
      BY <1>2, FS_Interval
    <3>2. Kets(a.bonds) \subseteq 1..n
      BY <1>2 DEF Kets
    <3>3. Cardinality(Kets(a.bonds)) \in Nat /\ Cardinality(Kets(a.bonds)) <= n
      BY <3>1, <3>2, FS_Subset, FS_CardinalityType
    <3> QED BY <1>2, <3>3
  <2>2. a.rowrank = -1 \/ a.bonds = <<>> \/ a.rowrank \in 0..n
    BY DEF Accepted
  <2>3. CASE a.bonds = <<>>
    BY <1>2, <2>3 DEF InitRowrank
  <2>4. CASE a.bonds # <<>> /\ a.rowrank >= 0
    BY <2>2, <2>4 DEF InitRowrank
  <2>5. CASE a.bonds # <<>> /\ ~(a.rowrank >= 0)
    <3>1. 1 \in 0..n
      BY <1>2, <2>5
    <3> HIDE DEF n
    <3> QED BY <2>1, <2>5, <3>1 DEF InitRowrank
  <2> QED BY <2>3, <2>4, <2>5
<1>5. /\ \A j \in 1..n : (a.bonds[j].type # B!BD_REG) = t
      /\ a.diag => n = 2 /\ a.bonds[1].dim = a.bonds[2].dim
      /\ Len(a.labels) = n /\ IsInjective(a.labels)
  BY <1>2 DEF Accepted
<1> HIDE DEF n, r, t
<1>6. m \in Metas
  BY <1>1, <1>2, <1>3, <1>4 DEF Metas
<1>7. /\ m.labels = a.labels /\ m.bonds = a.bonds /\ m.rowrank = r /\ m.diag = a.diag
      /\ m.tag = t
  OBVIOUS
<1> HIDE DEF m
<1>8. m.diag /\ m.bonds # <<>> => Len(m.bonds) = 2 /\ m.bonds[1].dim = m.bonds[2].dim
  BY <1>5, <1>7 DEF n
<1>9. \A j \in DOMAIN m.bonds : (m.bonds[j].type # B!BD_REG) = m.tag
  BY <1>2, <1>5, <1>7, Zenon
<1>10. Proper(m)
  BY <1>4, <1>5, <1>6, <1>7, <1>8, <1>9 DEF Proper, Rank, n
<1> QED BY <1>10 DEF m, n, r, t

LEMMA ConstructInv ==
  ASSUME DInv, NEW h \in Handles, NEW a \in NewTensors, Construct(h, a)
  PROVE  DInv'
<1> DEFINE m == [labels |-> a.labels, bonds |-> a.bonds, rowrank |-> InitRowrank(a),
                 diag |-> a.diag, tag |-> Tagged(a.bonds), braket |-> FALSE]
           w == BlockShape(m)
<1>1. Accepted(a)
  BY DEF Construct
<1>2. Proper(m)
  BY <1>1, Constructed
<1>3. Proper(Updated(m)) /\ BlockShape(Updated(m)) = w /\ w \in Seq(Nat)
  <2> HIDE DEF m
  <2> QED BY <1>2, UpdatedFits, ShapeNat
<1>4. BindBlock(h, Zeros(w)) /\ Describe(h, Updated(m))
  BY DEF Construct, BlockShape, Dims
<1> HIDE DEF m, w
<1>5. Zeros(w).shape = w /\ Len(Zeros(w).data) \in Nat
  <2>1. Prod(w) \in Nat
    BY <1>3, ProdNat
  <2>2. Zeros(w).data = [n \in 1..Prod(w) |-> 0] /\ Zeros(w).shape = w
    BY DEF Zeros
  <2> QED BY <2>1, <2>2
<1>6. TP!IInv' /\ TP!Gets(h, w)
  BY <1>3, <1>4, <1>5, BlockGets
<1>7. meta' = [meta EXCEPT ![h] = Updated(m)] /\ amiss \ {h} \subseteq amiss'
  BY <1>4 DEF Describe
<1> QED BY <1>3, <1>6, <1>7, StepInv

\* A copy of the block of another, or the Tensor_impl itself.
LEMMA TakenGets ==
  ASSUME DInv, NEW h \in Handles, NEW g \in Handles, Usable(g),
         \/ Block!Assign(h, g) \/ Block!Clone(h, g) \/ Block!Contiguous(h, g)
         \/ Block!BindFresh(h, Block!T(g), Block!Cloned(Block!S(g)))
  PROVE  TP!IInv' /\ TP!Gets(h, BlockShape(meta[g]))
<1>1. TP!IInv /\ TP!Whole(g) /\ TP!T(g).shape = BlockShape(meta[g])
  BY UsableIs
<1>2. CASE Block!Assign(h, g) \/ Block!Clone(h, g) \/ Block!Contiguous(h, g)
  <2>1. TP!Assign(h, g) \/ TP!Clone(h, g) \/ TP!Contiguous(h, g)
    BY <1>2, SameCopy
  <2> QED BY <1>1, <2>1, Assumed, TP!CopyGets
<1>3. CASE Block!BindFresh(h, Block!T(g), Block!Cloned(Block!S(g)))
  <2>1. TP!BindFresh(h, TP!T(g), TP!Cloned(TP!S(g)))
    BY <1>3, SameBind, SameBlock, SameParts
  <2>2. TP!T(g) \in TP!MetaRecords /\ TP!Laid(TP!T(g)) /\ TP!Sized(TP!S(g))
    BY <1>1, Assumed, TP!Wholly
  <2>3. TP!Sized(TP!Cloned(TP!S(g)))
    BY <2>2, Assumed, TP!WritesSized
  <2> QED BY <1>1, <2>1, <2>2, <2>3, Assumed, TP!FreshGets
<1> QED BY <1>2, <1>3

\* h takes a block and what goes with it.
LEMMA DescribeInv ==
  ASSUME DInv, NEW h \in Handles, NEW w, NEW m,
         TP!IInv', TP!Gets(h, w), Describe(h, m), Proper(m), w = BlockShape(m)
  PROVE  DInv'
BY StepInv DEF Describe

LEMMA OfBlockInv ==
  ASSUME DInv, NEW h \in Handles, NEW g \in Handles, NEW diag \in BOOLEAN,
         NEW rowrank \in Rowranks, OfBlock(h, g, diag, rowrank)
  PROVE  DInv'
<1> DEFINE w == BlockShape(meta[g])
           m == ByTensor(w, diag, rowrank)
<1>1. Usable(g) /\ Block!Assign(h, g)
  BY DEF OfBlock
<1>2. Block!T(g).shape = w /\ w \in Seq(Nat) /\ w # <<>>
  BY <1>1, UsableIs, SameBlock, ShapeNat
<1>3. Initable(w, diag, rowrank) /\ Describe(h, m) /\ rowrank \in Int
  BY <1>2, DenseAssumption DEF OfBlock
<1> HIDE DEF w
<1>4. Proper(m) /\ w = BlockShape(m)
  BY <1>2, <1>3, ByTensorFits
<1>5. TP!IInv' /\ TP!Gets(h, w)
  BY <1>1, TakenGets DEF w
<1> HIDE DEF m
<1> QED BY <1>3, <1>4, <1>5, DescribeInv

LEMMA CopiesInv ==
  ASSUME DInv, NEW h \in Handles, NEW g \in Handles, Clone(h, g) \/ Contiguous(h, g)
  PROVE  DInv'
<1>1. /\ Usable(g) /\ Describe(h, meta[g])
      /\ Block!Clone(h, g) \/ Block!Contiguous(h, g)
  BY DEF Clone, Contiguous
<1>2. TP!IInv' /\ TP!Gets(h, BlockShape(meta[g])) /\ Proper(meta[g])
  BY <1>1, TakenGets, UsableIs
<1> QED BY <1>1, <1>2, DescribeInv

LEMMA PutsInv ==
  ASSUME DInv, NEW h \in Handles, NEW g \in Handles,
         \/ PutBlock(h, g) \/ PutBlock_(h, g)
         \/ \E force \in BOOLEAN : From_(h, g, force)
  PROVE  DInv'
<1>1. /\ Puttable(h, g) /\ Keep
      /\ \/ Block!Assign(h, g)
         \/ Block!BindFresh(h, Block!T(g), Block!Cloned(Block!S(g)))
  BY DEF PutBlock, PutBlock_, From_
<1>2. Usable(g) /\ Usable(h) /\ Block!T(g).shape = Block!T(h).shape
  BY <1>1 DEF Puttable
<1>3. Proper(meta[h]) /\ BlockShape(meta[g]) = BlockShape(meta[h])
  BY <1>2, UsableIs, SameBlock
<1>4. TP!IInv' /\ TP!Gets(h, BlockShape(meta[g]))
  BY <1>1, <1>2, TakenGets
<1> QED BY <1>1, <1>3, <1>4, KeepInv

LEMMA WritesInv ==
  ASSUME DInv, NEW h \in Handles, NEW g \in Handles, NEW n, NEW v, NEW accs,
         \/ Contiguous_(h) \/ Add_(h, g) \/ AddScalar_(h, v) \/ SetItem(h, n, v)
         \/ Set(h, accs, g)
  PROVE  DInv'
<1>1. /\ Usable(h) /\ Keep
      /\ \/ Block!Contiguous_(h) \/ Block!AddTensor(h, g) \/ Block!AddScalar(h, v)
         \/ Block!SetItem(h, n, v) \/ Block!Set(h, accs, g)
  BY DEF Contiguous_, Add_, AddScalar_, SetItem, Set
<1>2. /\ TP!IInv /\ TP!Whole(h) /\ Proper(meta[h])
      /\ TP!T(h).shape = BlockShape(meta[h])
  BY <1>1, UsableIs
<1>3. \/ TP!SetItem(h, n, v) \/ TP!AddScalar(h, v) \/ TP!AddTensor(h, g) \/ TP!Contiguous_(h)
      \/ \E x : /\ TP!Whole(h)
                /\ TP!Update(h, TP!T(h), TP!T(h).st, [TP!S(h) EXCEPT !.mem = x], torn)
  BY <1>1, SameWrite, SameCopy
<1>4. TP!IInv' /\ TP!Gets(h, TP!T(h).shape)
  BY <1>2, <1>3, Assumed, TP!WriteGets
<1> QED BY <1>1, <1>2, <1>4, KeepInv

\* Nothing happens to the blocks.
LEMMA StillGets ==
  ASSUME DInv, NEW h \in Handles, Usable(h), UNCHANGED blocks
  PROVE  TP!IInv' /\ TP!Gets(h, BlockShape(meta[h]))
<1>1. TP!IInv /\ TP!Whole(h) /\ TP!T(h).shape = BlockShape(meta[h])
  BY UsableIs
<1>2. UNCHANGED TP!vars
  BY DEF blocks, TP!vars
<1> QED BY <1>1, <1>2, Assumed, TP!StaysGets

\* A call that gives h, whose block stays, another description of the same shape.
LEMMA RedescribeInv ==
  ASSUME DInv, NEW h \in Handles, Usable(h), UNCHANGED blocks, NEW m,
         meta' = [meta EXCEPT ![h] = m], amiss' = amiss,
         Proper(m), BlockShape(m) = BlockShape(meta[h])
  PROVE  DInv'
BY StillGets, StepInv

LEMMA RelabelInv ==
  ASSUME DInv, NEW h \in Handles, NEW g \in Handles, NEW labels \in Labellings,
         Relabel(h, g, labels)
  PROVE  DInv'
<1> DEFINE m == [meta[g] EXCEPT !.labels = labels]
<1>1. /\ Usable(g) /\ Block!Assign(h, g) /\ Describe(h, m)
      /\ Len(labels) = Len(meta[g].labels) /\ IsInjective(labels)
  BY DEF Relabel, Rank
<1>2. Proper(meta[g]) /\ TP!IInv' /\ TP!Gets(h, BlockShape(meta[g]))
  BY <1>1, TakenGets, UsableIs
<1>3. labels \in Seq(Nat)
  BY DenseAssumption
<1>4. meta[g] \in Metas
  BY <1>2 DEF Proper
<1>5. /\ m \in Metas /\ m.labels = labels /\ m.bonds = meta[g].bonds
      /\ m.rowrank = meta[g].rowrank /\ m.diag = meta[g].diag /\ m.tag = meta[g].tag
  BY <1>3, <1>4 DEF Metas
<1> HIDE DEF m
<1>6. Proper(m) /\ BlockShape(m) = BlockShape(meta[g])
  BY <1>1, <1>2, <1>5 DEF Proper, Rank, BlockShape, Dims
<1> QED BY <1>1, <1>2, <1>6, DescribeInv

\* relabel_ of an old and a new list of labels.
LEMMA Relabel_Inv ==
  ASSUME DInv, NEW h \in Handles, NEW names \in Renamings,
         Relabel_(h, names[1], names[2])
  PROVE  DInv'
<1> DEFINE old == names[1]
           new == names[2]
           labels == Renamed(meta[h], old, new)
           m == [meta[h] EXCEPT !.labels = labels]
<1>1. /\ Usable(h) /\ UNCHANGED blocks /\ Len(old) = Len(new)
      /\ meta' = [meta EXCEPT ![h].labels = labels]
      /\ amiss' = IF IsInjective(labels) THEN amiss ELSE amiss \cup {h}
  BY DEF Relabel_
<1>2. Proper(meta[h]) /\ meta[h] \in Metas
  BY <1>1, UsableIs DEF Proper
<1>3. old \in Seq(Nat) /\ new \in Seq(Nat)
  BY DenseAssumption
<1>4. labels \in Seq(Nat) /\ Len(labels) = Len(meta[h].labels)
  <2> DEFINE n == Len(meta[h].labels)
  <2>1. n \in Nat /\ meta[h].labels \in [1..n -> Nat]
    BY <1>2 DEF Metas
  <2>2. ASSUME NEW j \in 1..n, meta[h].labels[j] \in Range(old)
        PROVE  new[CHOOSE k \in DOMAIN old : old[k] = meta[h].labels[j]] \in Nat
    <3> DEFINE l == CHOOSE k \in DOMAIN old : old[k] = meta[h].labels[j]
    <3>1. \E k \in DOMAIN old : old[k] = meta[h].labels[j]
      BY <2>2 DEF Range
    <3>2. l \in DOMAIN old
      BY <3>1
    <3>3. DOMAIN old = DOMAIN new
      BY <1>1, <1>3
    <3> HIDE DEF l
    <3>4. new[l] \in Nat
      BY <1>3, <3>2, <3>3
    <3> QED BY <3>4 DEF l
  <2>3. labels = [j \in 1..n |-> IF meta[h].labels[j] \in Range(old)
                                 THEN new[CHOOSE k \in DOMAIN old : old[k] = meta[h].labels[j]]
                                 ELSE meta[h].labels[j]]
    BY DEF Renamed, Rank
  <2>4. labels \in [1..n -> Nat]
    BY <2>1, <2>2, <2>3
  <2> HIDE DEF n, labels
  <2> QED BY <2>1, <2>4 DEF n
<1>5. meta' = [meta EXCEPT ![h] = m]
  BY <1>1
<1> HIDE DEF labels
<1>6. /\ m \in Metas /\ m.labels = labels /\ m.bonds = meta[h].bonds
      /\ m.rowrank = meta[h].rowrank /\ m.diag = meta[h].diag /\ m.tag = meta[h].tag
  BY <1>2, <1>4 DEF Metas
<1> HIDE DEF m
<1>7. IsInjective(labels) => Proper(m) /\ BlockShape(m) = BlockShape(meta[h])
  BY <1>2, <1>4, <1>6 DEF Proper, Rank, BlockShape, Dims
<1>8. TP!IInv' /\ TP!Gets(h, BlockShape(meta[h]))
  BY <1>1, StillGets
<1>9. amiss \ {h} \subseteq amiss' /\ (h \notin amiss' => IsInjective(labels))
  BY <1>1
<1> QED BY <1>5, <1>7, <1>8, <1>9, StepInv

LEMMA SetRowrank_Inv ==
  ASSUME DInv, NEW h \in Handles, NEW rowrank \in Rowranks, SetRowrank_(h, rowrank)
  PROVE  DInv'
<1> DEFINE m == [meta[h] EXCEPT !.rowrank = rowrank]
<1>1. /\ Usable(h) /\ UNCHANGED blocks /\ amiss' = amiss
      /\ meta' = [meta EXCEPT ![h] = m]
      /\ rowrank \in IF meta[h].diag THEN {1} ELSE 0..Rank(meta[h])
  BY DEF SetRowrank_
<1>2. Proper(meta[h]) /\ meta[h] \in Metas /\ (meta[h].diag => meta[h].bonds # <<>>)
  BY <1>1, UsableIs DEF Proper
<1>3. rowrank \in 0..Rank(meta[h]) /\ rowrank \in Nat
  <2>1. Rank(meta[h]) \in Nat /\ Rank(meta[h]) = Len(meta[h].bonds)
    BY <1>2 DEF Rank, Metas, Proper
  <2>2. CASE meta[h].diag
    <3>1. Rank(meta[h]) = 2 /\ rowrank = 1
      BY <1>1, <1>2, <2>1, <2>2 DEF Proper
    <3> QED BY <3>1
  <2>3. CASE ~meta[h].diag
    BY <1>1, <2>1, <2>3
  <2> QED BY <2>2, <2>3
<1>4. /\ m \in Metas /\ m.labels = meta[h].labels /\ m.bonds = meta[h].bonds
      /\ m.rowrank = rowrank /\ m.diag = meta[h].diag /\ m.tag = meta[h].tag
  BY <1>2, <1>3 DEF Metas
<1> HIDE DEF m
<1>5. Proper(m) /\ BlockShape(m) = BlockShape(meta[h])
  BY <1>2, <1>3, <1>4 DEF Proper, Rank, BlockShape, Dims
<1> QED BY <1>1, <1>5, RedescribeInv

-----------------------------------------------------------------------------
(* Directions, parts, shapes.                                              *)

\* Bonds of the same dimensions in other directions.
LEMMA AlikeFits ==
  ASSUME NEW m, Proper(m), NEW n \in Metas,
         n.labels = m.labels, n.rowrank = m.rowrank, n.diag = m.diag,
         Len(n.bonds) = Len(m.bonds),
         \A j \in DOMAIN m.bonds : n.bonds[j].dim = m.bonds[j].dim,
         \A j \in DOMAIN n.bonds : (n.bonds[j].type # B!BD_REG) = n.tag
  PROVE  Proper(n) /\ BlockShape(n) = BlockShape(m)
<1>1. m.bonds \in Seq(Legs) /\ n.bonds \in Seq(Legs)
  BY DEF Proper, Metas
<1>2. DOMAIN m.bonds = DOMAIN n.bonds /\ (n.bonds = <<>> <=> m.bonds = <<>>)
      /\ DOMAIN m.bonds = 1..Len(m.bonds)
  BY <1>1
<1>3. n.diag /\ n.bonds # <<>> => Len(n.bonds) = 2 /\ n.bonds[1].dim = n.bonds[2].dim
  BY <1>2 DEF Proper
<1>4. Proper(n)
  BY <1>3 DEF Proper, Rank
<1>5. Dims(n) = Dims(m)
  BY <1>2 DEF Dims
<1>6. n.bonds # <<>> => n.bonds[1].dim = m.bonds[1].dim
  BY <1>1, <1>2
<1> QED BY <1>2, <1>4, <1>5, <1>6 DEF BlockShape

LEMMA DirectedFits ==
  ASSUME NEW m, Proper(m)
  PROVE  Proper(Directed(m)) /\ BlockShape(Directed(m)) = BlockShape(m)
<1> DEFINE k == Len(m.bonds)
           b == [j \in DOMAIN m.bonds |->
                   [m.bonds[j] EXCEPT !.type = IF j <= m.rowrank THEN B!BD_KET ELSE B!BD_BRA]]
           n == [m EXCEPT !.tag = TRUE, !.bonds = b]
<1>1. m \in Metas /\ k \in Nat /\ DOMAIN m.bonds = 1..k /\ m.bonds \in [1..k -> Legs]
  BY DEF Proper, Metas
<1>2. ASSUME NEW j \in 1..k
      PROVE  /\ b[j] \in Legs /\ b[j].dim = m.bonds[j].dim /\ b[j].type # B!BD_REG
  <2>1. m.bonds[j] \in Legs /\ b[j] = [m.bonds[j] EXCEPT !.type = IF j <= m.rowrank THEN B!BD_KET ELSE B!BD_BRA]
    BY <1>1
  <2> HIDE DEF b
  <2> QED BY <2>1 DEF Legs, B!BD_KET, B!BD_BRA, B!BD_REG
<1>3. b \in Seq(Legs) /\ Len(b) = k /\ DOMAIN b = 1..k
  <2>1. DOMAIN b = 1..k /\ b = [j \in 1..k |-> b[j]]
    BY <1>1
  <2> HIDE DEF b
  <2>2. b \in [1..k -> Legs]
    BY <1>2, <2>1
  <2> HIDE DEF k
  <2> QED BY <1>1, <2>2
<1> HIDE DEF b
<1>4. /\ n \in Metas /\ n.labels = m.labels /\ n.bonds = b /\ n.rowrank = m.rowrank
      /\ n.diag = m.diag /\ n.tag = TRUE
  BY <1>1, <1>3 DEF Metas
<1>5. Directed(m) = Updated(n)
  BY DEF Directed, b
<1> HIDE DEF n
<1>6. \A j \in DOMAIN n.bonds : (n.bonds[j].type # B!BD_REG) = n.tag
  BY <1>2, <1>3, <1>4, TagsFit
<1>7. Proper(n) /\ BlockShape(n) = BlockShape(m)
  BY <1>1, <1>2, <1>3, <1>4, <1>6, AlikeFits
<1> QED BY <1>5, <1>7, UpdatedFits

\* Transpose_ of a tagged UniTensor.
LEMMA TurnedFits ==
  ASSUME NEW m, Proper(m), m.tag
  PROVE  Proper(Turned(m)) /\ BlockShape(Turned(m)) = BlockShape(m)
<1> DEFINE k == Len(m.bonds)
           b == [j \in DOMAIN m.bonds |->
                   [m.bonds[j] EXCEPT !.type = IF @ = B!BD_KET THEN B!BD_BRA ELSE B!BD_KET]]
           n == [m EXCEPT !.bonds = b]
<1>1. m \in Metas /\ k \in Nat /\ DOMAIN m.bonds = 1..k /\ m.bonds \in [1..k -> Legs]
      /\ m.tag \in BOOLEAN
  BY DEF Proper, Metas
<1>2. ASSUME NEW j \in 1..k
      PROVE  /\ b[j] \in Legs /\ b[j].dim = m.bonds[j].dim /\ b[j].type # B!BD_REG
  <2>1. m.bonds[j] \in Legs /\ b[j] = [m.bonds[j] EXCEPT !.type = IF @ = B!BD_KET THEN B!BD_BRA ELSE B!BD_KET]
    BY <1>1
  <2> HIDE DEF b
  <2> QED BY <2>1 DEF Legs, B!BD_KET, B!BD_BRA, B!BD_REG
<1>3. b \in Seq(Legs) /\ Len(b) = k /\ DOMAIN b = 1..k
  <2>1. DOMAIN b = 1..k /\ b = [j \in 1..k |-> b[j]]
    BY <1>1
  <2> HIDE DEF b
  <2>2. b \in [1..k -> Legs]
    BY <1>2, <2>1
  <2> HIDE DEF k
  <2> QED BY <1>1, <2>2
<1> HIDE DEF b
<1>4. /\ n \in Metas /\ n.labels = m.labels /\ n.bonds = b /\ n.rowrank = m.rowrank
      /\ n.diag = m.diag /\ n.tag = m.tag
  BY <1>1, <1>3 DEF Metas
<1>5. Turned(m) = Updated(n)
  BY DEF Turned, b
<1> HIDE DEF n
<1>6. \A j \in DOMAIN n.bonds : (n.bonds[j].type # B!BD_REG) = n.tag
  BY <1>1, <1>2, <1>3, <1>4, TagsFit
<1>7. Proper(n) /\ BlockShape(n) = BlockShape(m)
  BY <1>1, <1>2, <1>3, <1>4, <1>6, AlikeFits
<1> QED BY <1>5, <1>7, UpdatedFits

LEMMA TagInv ==
  ASSUME DInv, NEW h \in Handles, Tag(h)
  PROVE  DInv'
<1>1. /\ Usable(h) /\ UNCHANGED blocks /\ amiss' = amiss
      /\ meta' = [meta EXCEPT ![h] = Directed(meta[h])]
  BY DEF Tag
<1>2. Proper(Directed(meta[h])) /\ BlockShape(Directed(meta[h])) = BlockShape(meta[h])
  BY <1>1, UsableIs, DirectedFits
<1> QED BY <1>1, <1>2, RedescribeInv

\* A diagonal, made dense.
LEMMA DiagIs ==
  ASSUME DInv, NEW g \in Handles, Usable(g), meta[g].diag
  PROVE  LET t == Diag(Content(g))
             d == meta[g].bonds[1].dim
         IN /\ d \in Nat /\ t.shape = <<d, d>> /\ t.shape \in Seq(Nat)
            /\ Len(t.data) \in Nat
            /\ Proper(Dense(meta[g])) /\ BlockShape(Dense(meta[g])) = t.shape
            /\ Len(Content(g).data) = d
<1> DEFINE m == meta[g]
           d == m.bonds[1].dim
           t == Diag(Content(g))
<1>1. Proper(m) /\ m \in Metas /\ m.diag /\ m.bonds # <<>>
  BY UsableIs DEF Proper
<1>2. /\ Len(m.bonds) = 2 /\ DOMAIN m.bonds = 1..2 /\ m.bonds[2].dim = d
      /\ m.bonds[1] \in Legs /\ m.bonds[2] \in Legs
  BY <1>1 DEF Proper, Metas
<1>3. d \in Nat
  BY <1>2 DEF Legs
<1>4. Len(Content(g).data) = d
  <2>1. BlockShape(m) = <<d>>
    BY <1>1 DEF BlockShape
  <2> HIDE DEF d
  <2>2. Prod(BlockShape(m)) = d
    BY <1>3, <2>1, ProdShort
  <2> QED BY <2>2, ContentIs
<1>5. t.shape = <<d, d>> /\ Len(t.data) = d * d
  <2>1. d * d \in Nat
    BY <1>3
  <2> DEFINE c == Content(g)
  <2>2. t = [shape |-> <<d, d>>,
             data |-> [k \in 1..(d * d) |->
                         IF (k - 1) \div d = (k - 1) % d THEN c.data[((k - 1) % d) + 1] ELSE 0]]
    BY <1>4 DEF Diag
  <2> HIDE DEF c, d, t
  <2> QED BY <2>1, <2>2
<1>6. d * d \in Nat
  BY <1>3
<1> DEFINE n == Dense(m)
<1>7. /\ n \in Metas /\ n.labels = m.labels /\ n.bonds = m.bonds /\ n.rowrank = m.rowrank
      /\ n.diag = FALSE /\ n.tag = m.tag
  BY <1>1 DEF Dense, Metas
<1> HIDE DEF n
<1>8. Proper(n)
  BY <1>1, <1>7 DEF Proper, Rank
<1>9. BlockShape(n) = <<d, d>>
  <2>1. BlockShape(n) = [j \in 1..2 |-> m.bonds[j].dim]
    BY <1>1, <1>2, <1>7 DEF BlockShape, Dims
  <2> QED BY <1>2, <2>1
<1> QED BY <1>3, <1>4, <1>5, <1>6, <1>8, <1>9 DEF n

LEMMA ToDenseInv ==
  ASSUME DInv, NEW h \in Handles, NEW g \in Handles, ToDense(h, g)
  PROVE  DInv'
<1> DEFINE t == Diag(Content(g))
<1>1. Usable(g) /\ meta[g].diag /\ BindBlock(h, t) /\ Describe(h, Dense(meta[g]))
  BY DEF ToDense
<1>2. /\ t.shape \in Seq(Nat) /\ Len(t.data) \in Nat
      /\ Proper(Dense(meta[g])) /\ BlockShape(Dense(meta[g])) = t.shape
  BY <1>1, DiagIs
<1> HIDE DEF t
<1>3. TP!IInv' /\ TP!Gets(h, t.shape)
  BY <1>1, <1>2, BlockGets
<1> QED BY <1>1, <1>2, <1>3, DescribeInv

\* What is described by the block that it was given.
LEMMA ByBlockInv ==
  ASSUME DInv, NEW h \in Handles, NEW w \in Seq(Nat), w # <<>>, NEW rowrank \in 0..Len(w),
         TP!IInv', TP!Gets(h, w),
         Describe(h, ByTensor(impl'[ref'[h]].shape, FALSE, rowrank))
  PROVE  DInv'
<1> DEFINE m == ByTensor(impl'[ref'[h]].shape, FALSE, rowrank)
<1>1. Initable(w, FALSE, rowrank) /\ rowrank \in Int
  BY DEF Initable
<1>2. Proper(ByTensor(w, FALSE, rowrank)) /\ w = BlockShape(ByTensor(w, FALSE, rowrank))
  BY <1>1, ByTensorFits
<1>3. ref'[h] \notin torn' => impl'[ref'[h]].shape = w
  BY DEF TP!Gets
<1>4. ref'[h] \notin torn' => Proper(m) /\ w = BlockShape(m)
  BY <1>2, <1>3
<1> HIDE DEF m
<1>5. meta' = [meta EXCEPT ![h] = m] /\ amiss \ {h} \subseteq amiss'
  BY DEF Describe, m
<1> QED BY <1>4, <1>5, StepInv

LEMMA GetInv ==
  ASSUME DInv, NEW h \in Handles, NEW g \in Handles, NEW accs \in Slices, Get(h, g, accs)
  PROVE  DInv'
<1> DEFINE w == TP!GotImpl(TP!T(g), accs).shape
<1>1. Usable(g) /\ Block!Get(h, g, accs)
      /\ Describe(h, ByTensor(impl'[ref'[h]].shape, FALSE, 0))
  BY DEF Get
<1>2. TP!Get(h, g, accs)
  BY <1>1, SameGet
<1>3. accs \in Seq(TP!Accessors)
  BY Assumed DEF TP!SlicesAssumption
<1>4. TP!IInv /\ TP!Whole(g)
  BY <1>1, UsableIs
<1>5. TP!T(g) \in TP!MetaRecords /\ TP!Laid(TP!T(g))
  BY <1>4, Assumed, TP!Wholly
<1>6. TP!Accepts(TP!T(g), accs)
  BY <1>2 DEF TP!Get
<1>7. w \in Seq(Nat) /\ w # <<>>
  BY <1>3, <1>5, <1>6, Assumed, TP!GotAxes
<1>8. TP!IInv' /\ TP!Gets(h, w)
  BY <1>2, <1>3, <1>4, Assumed, TP!SliceGets
<1> HIDE DEF w
<1>9. 0 \in 0..Len(w)
  BY <1>7
<1> QED BY <1>1, <1>7, <1>8, <1>9, ByBlockInv

-----------------------------------------------------------------------------
(* The order of the legs.                                                  *)

\* Legs in another order.
LEMMA PermutedFits ==
  ASSUME NEW m, Proper(m), NEW p \in Perms(Rank(m))
  PROVE  LET n == MetaPermuted(m, p)
         IN /\ Proper(n) /\ Rank(n) = Rank(m) /\ n.diag = m.diag /\ n.tag = m.tag
            /\ n.rowrank = m.rowrank
            /\ n.labels = Compose(m.labels, p) /\ n.bonds = Compose(m.bonds, p)
            /\ m.diag => BlockShape(n) = BlockShape(m)
            /\ ~m.diag /\ m.bonds # <<>> => BlockShape(n) = Compose(BlockShape(m), p)
<1> DEFINE k == Rank(m)
           l == Compose(m.labels, p)
           b == Compose(m.bonds, p)
           n == MetaPermuted(m, p)
<1>1. /\ m \in Metas /\ k \in Nat /\ Len(m.labels) = k /\ Len(m.bonds) = k
      /\ m.labels \in Seq(Nat) /\ m.bonds \in Seq(Legs)
  BY DEF Proper, Metas, Rank
<1>2. p \in [1..k -> 1..k] /\ \A i, j \in 1..k : p[i] = p[j] => i = j
  BY DEF Perms
<1> HIDE DEF k
<1>3. l \in Seq(Nat) /\ Len(l) = k /\ b \in Seq(Legs) /\ Len(b) = k
  BY <1>1, ComposeSeq DEF k
<1>4. \A j \in 1..k : l[j] = m.labels[p[j]] /\ b[j] = m.bonds[p[j]]
  BY <1>1, ComposeAt DEF k
<1> HIDE DEF l, b
<1>5. /\ n \in Metas /\ n.labels = l /\ n.bonds = b /\ n.rowrank = m.rowrank
      /\ n.diag = m.diag /\ n.tag = m.tag
  BY <1>1, <1>3 DEF Metas, MetaPermuted, l, b
<1> HIDE DEF n
<1>6. IsInjective(l)
  <2>1. \A i, j \in 1..k : m.labels[i] = m.labels[j] => i = j
    BY <1>1 DEF Proper, IsInjective
  <2>2. DOMAIN l = 1..k
    BY <1>1, <1>3
  <2>3. ASSUME NEW i \in 1..k, NEW j \in 1..k, l[i] = l[j] PROVE i = j
    <3>1. p[i] \in 1..k /\ p[j] \in 1..k
      BY <1>2
    <3>2. p[i] = p[j]
      BY <1>4, <2>1, <2>3, <3>1
    <3> QED BY <1>2, <3>2
  <2> QED BY <2>2, <2>3 DEF IsInjective
<1>7. \A j \in DOMAIN n.bonds : (n.bonds[j].type # B!BD_REG) = n.tag
  <2>1. ASSUME NEW j \in 1..k PROVE (n.bonds[j].type # B!BD_REG) = n.tag
    <3>1. p[j] \in 1..k /\ p[j] \in DOMAIN m.bonds
      BY <1>1, <1>2
    <3>2. (m.bonds[p[j]].type # B!BD_REG) = m.tag
      BY <3>1 DEF Proper
    <3>3. n.bonds[j] = m.bonds[p[j]] /\ n.tag = m.tag
      BY <1>4, <1>5
    <3> QED BY <3>2, <3>3, Zenon
  <2>2. DOMAIN n.bonds = 1..k
    BY <1>1, <1>3, <1>5
  <2> QED BY <2>1, <2>2
<1>8. m.diag /\ k # 0 => /\ k = 2 /\ m.bonds[1].dim = m.bonds[2].dim
                         /\ n.bonds[1].dim = m.bonds[1].dim
                         /\ n.bonds[2].dim = m.bonds[1].dim
  <2> SUFFICES ASSUME m.diag, k # 0
               PROVE  /\ k = 2 /\ m.bonds[1].dim = m.bonds[2].dim
                      /\ n.bonds[1].dim = m.bonds[1].dim /\ n.bonds[2].dim = m.bonds[1].dim
    OBVIOUS
  <2>1. k = 2 /\ m.bonds[1].dim = m.bonds[2].dim
    BY <1>1 DEF Proper
  <2>2. p[1] \in 1..2 /\ p[2] \in 1..2 /\ b[1] = m.bonds[p[1]] /\ b[2] = m.bonds[p[2]]
    BY <1>2, <1>4, <2>1
  <2>3. p[1] = 1 \/ p[1] = 2
    BY <2>2
  <2>4. p[2] = 1 \/ p[2] = 2
    BY <2>2
  <2> QED BY <1>5, <2>1, <2>2, <2>3, <2>4
<1>9. Len(n.bonds) = k /\ Rank(n) = k /\ (n.bonds = <<>> <=> k = 0) /\ (m.bonds = <<>> <=> k = 0)
  BY <1>1, <1>3, <1>5 DEF Rank
<1>10. Proper(n)
  <2>1. n.rowrank \in 0..Rank(n)
    BY <1>5, <1>9 DEF Proper, k
  <2> QED BY <1>3, <1>5, <1>6, <1>7, <1>8, <1>9, <2>1 DEF Proper
<1>11. m.diag => BlockShape(n) = BlockShape(m)
  BY <1>5, <1>8, <1>9 DEF BlockShape
<1>12. ~m.diag /\ m.bonds # <<>> => BlockShape(n) = Compose(BlockShape(m), p)
  <2> SUFFICES ASSUME ~m.diag, m.bonds # <<>>
               PROVE  BlockShape(n) = Compose(BlockShape(m), p)
    OBVIOUS
  <2>1. BlockShape(n) = [j \in 1..k |-> n.bonds[j].dim]
    <3>1. DOMAIN n.bonds = 1..k
      BY <1>1, <1>3, <1>5
    <3>2. n.bonds # <<>> /\ ~n.diag
      BY <1>5, <1>9
    <3> QED BY <3>1, <3>2 DEF BlockShape, Dims
  <2>2. BlockShape(m) = [j \in 1..k |-> m.bonds[j].dim]
    BY <1>1 DEF BlockShape, Dims
  <2>3. Len(p) = k
    BY <1>1, <1>2
  <2>4. Compose(BlockShape(m), p) = [j \in 1..k |-> m.bonds[p[j]].dim]
    BY <1>2, <2>2, <2>3 DEF Compose
  <2> QED BY <1>4, <1>5, <2>1, <2>4
<1> QED BY <1>5, <1>9, <1>10, <1>11, <1>12 DEF n, k, l, b

LEMMA RankedFits ==
  ASSUME NEW m, Proper(m), NEW r \in 0..Rank(m)
  PROVE  LET n == [m EXCEPT !.rowrank = r] IN Proper(n) /\ BlockShape(n) = BlockShape(m)
<1> DEFINE n == [m EXCEPT !.rowrank = r]
<1>1. r \in Nat
  BY DEF Proper, Metas, Rank
<1>2. /\ n \in Metas /\ n.labels = m.labels /\ n.bonds = m.bonds
      /\ n.rowrank = r /\ n.diag = m.diag /\ n.tag = m.tag
  BY <1>1 DEF Proper, Metas
<1> HIDE DEF n
<1>3. Proper(n) /\ BlockShape(n) = BlockShape(m)
  BY <1>2 DEF Proper, Rank, BlockShape, Dims
<1> QED BY <1>3 DEF n

LEMMA WithRowrankFits ==
  ASSUME NEW m, Proper(m), NEW r \in Int, r <= Rank(m)
  PROVE  LET n == WithRowrank(m, r) IN Proper(n) /\ BlockShape(n) = BlockShape(m)
<1>1. CASE r >= 0
  <2>1. r \in 0..Rank(m)
    BY <1>1 DEF Proper, Metas, Rank
  <2>2. /\ Proper([m EXCEPT !.rowrank = r])
        /\ BlockShape([m EXCEPT !.rowrank = r]) = BlockShape(m)
    BY <2>1, RankedFits
  <2> QED BY <1>1, <2>2, UpdatedFits DEF WithRowrank
<1>2. CASE ~(r >= 0)
  BY <1>2, UpdatedFits DEF WithRowrank
<1> QED BY <1>1, <1>2

\* An accepted order that lists no leg twice.
LEMMA OrderPerm ==
  ASSUME NEW m, Proper(m), NEW p \in Seq(Nat \ {0}), Maps(p, m), IsInjective(p)
  PROVE  p \in Perms(Rank(m))
<1> DEFINE k == Rank(m)
<1>1. k \in Nat /\ Len(p) = k /\ DOMAIN p = 1..k
  BY DEF Proper, Metas, Rank, Maps
<1>2. \A j \in 1..k : p[j] \in Nat \ {0} /\ p[j] <= k
  BY <1>1 DEF Maps
<1> HIDE DEF k
<1>3. \A j \in 1..k : p[j] \in 1..k
  BY <1>1, <1>2
<1>4. p \in [1..k -> 1..k]
  BY <1>1, <1>3
<1>5. \A i, j \in 1..k : p[i] = p[j] => i = j
  BY <1>1 DEF IsInjective
<1> QED BY <1>4, <1>5 DEF Perms, k

LEMMA PermOrder ==
  ASSUME NEW n \in Nat, NEW p \in Perms(n)
  PROVE  p \in Seq(Nat \ {0}) /\ IsInjective(p) /\ Len(p) = n
<1>1. p \in [1..n -> 1..n] /\ \A i, j \in 1..n : p[i] = p[j] => i = j
  BY DEF Perms
<1>2. p \in [1..n -> Nat \ {0}]
  BY <1>1
<1> QED BY <1>1, <1>2 DEF IsInjective

\* permute_ of the block.
LEMMA BlockPermuted ==
  ASSUME DInv, NEW h \in Handles, Usable(h), ~meta[h].diag, Careful, MayLayOut(h),
         NEW p \in Perms(Rank(meta[h])), Block!Permute_(h, p)
  PROVE  /\ TP!IInv' /\ TP!Gets(h, Compose(BlockShape(meta[h]), p))
         /\ meta[h].bonds # <<>>
<1> DEFINE k == Rank(meta[h])
<1>1. TP!IInv /\ Proper(meta[h]) /\ TP!T(h).shape = BlockShape(meta[h])
  BY UsableIs
<1>2. k \in Nat /\ p \in Seq(Nat \ {0}) /\ TP!IsInjective(p) /\ Len(p) = k
  <2>1. k \in Nat
    BY <1>1 DEF Proper, Metas, Rank
  <2> HIDE DEF k
  <2> QED BY <2>1, PermOrder, Once_ DEF k
<1>3. TP!Permute_(h, p)
  BY SamePermute
<1>4. TP!Alone(h)
  BY OneOwner
<1>5. TP!IInv' /\ TP!Gets(h, Compose(BlockShape(meta[h]), p))
  <2>1. TP!IInv' /\ TP!Gets(h, TP!Compose(TP!T(h).shape, p))
    BY <1>1, <1>2, <1>3, <1>4, Assumed, TP!Permute_Gets
  <2>2. TP!Compose(TP!T(h).shape, p) = Compose(BlockShape(meta[h]), p)
    BY <1>1 DEF TP!Compose, Compose
  <2> QED BY <2>1, <2>2
<1>6. ASSUME meta[h].bonds = <<>> PROVE FALSE
  <2>1. Len(p) = Len(TP!T(h).shape)
    BY <1>3 DEF TP!Permute_
  <2>2. BlockShape(meta[h]) = <<1>> /\ k = 0
    BY <1>1, <1>6 DEF BlockShape, Proper, Rank
  <2>3. Len(TP!T(h).shape) = 1
    BY <1>1, <2>2
  <2>4. Len(p) = 0
    BY <1>2, <2>2
  <2> HIDE DEF k
  <2> QED BY <2>1, <2>3, <2>4
<1> QED BY <1>5, <1>6

LEMMA PermuteInv ==
  ASSUME DInv, NEW h \in Handles, NEW g \in Handles, NEW p \in Orders,
         NEW r \in Rowranks, Permute(h, g, p, r)
  PROVE  DInv'
<1> DEFINE m == MetaPermuted(meta[g], p)
<1>1. Usable(g) /\ Maps(p, meta[g]) /\ IsInjective(p)
  BY DEF Permute
<1>2. /\ TP!IInv /\ Proper(meta[g]) /\ TP!T(g).shape = BlockShape(meta[g])
      /\ p \in Seq(Nat \ {0}) /\ r \in Int
  BY <1>1, UsableIs, DenseAssumption
<1>3. p \in Perms(Rank(meta[g]))
  BY <1>1, <1>2, OrderPerm
<1>4. /\ Proper(m) /\ m.diag = meta[g].diag
      /\ meta[g].diag => BlockShape(m) = BlockShape(meta[g])
      /\ ~meta[g].diag /\ meta[g].bonds # <<>> =>
           BlockShape(m) = Compose(BlockShape(meta[g]), p)
  BY <1>2, <1>3, PermutedFits
<1>5. IF m.diag
      THEN Block!Assign(h, g) /\ Describe(h, Updated(m))
      ELSE /\ r <= Rank(m) /\ Block!Permute(h, g, p)
           /\ Describe(h, WithRowrank(m, r))
  BY DEF Permute
<1> HIDE DEF m
<1>6. CASE m.diag
  <2>1. TP!IInv' /\ TP!Gets(h, BlockShape(meta[g]))
    BY <1>1, <1>5, <1>6, TakenGets
  <2>2. Proper(Updated(m)) /\ BlockShape(Updated(m)) = BlockShape(meta[g])
    BY <1>4, <1>6, UpdatedFits
  <2> QED BY <1>5, <1>6, <2>1, <2>2, DescribeInv
<1>7. CASE ~m.diag
  <2>1. TP!Permute(h, g, p)
    BY <1>5, <1>7, SamePermute
  <2>2. TP!IsInjective(p)
    BY <1>1, Once_
  <2>3. TP!IInv' /\ TP!Gets(h, Compose(BlockShape(meta[g]), p))
    <3>1. TP!IInv' /\ TP!Gets(h, TP!Compose(TP!T(g).shape, p))
      BY <1>2, <2>1, <2>2, Assumed, TP!PermuteGets
    <3>2. TP!Compose(TP!T(g).shape, p) = Compose(BlockShape(meta[g]), p)
      BY <1>2 DEF TP!Compose, Compose
    <3> QED BY <3>1, <3>2
  <2>4. meta[g].bonds # <<>>
    <3>1. ASSUME meta[g].bonds = <<>> PROVE FALSE
      <4>1. Len(p) = Len(TP!T(g).shape)
        BY <2>1 DEF TP!Permute
      <4>2. BlockShape(meta[g]) = <<1>> /\ Len(p) = 0
        BY <1>1, <1>2, <3>1 DEF BlockShape, Proper, Rank, Maps
      <4> QED BY <1>2, <4>1, <4>2
    <3> QED BY <3>1
  <2>5. /\ Proper(WithRowrank(m, r))
        /\ BlockShape(WithRowrank(m, r)) = Compose(BlockShape(meta[g]), p)
    BY <1>2, <1>4, <1>5, <1>7, <2>4, WithRowrankFits
  <2> QED BY <1>5, <1>7, <2>3, <2>5, DescribeInv
<1> QED BY <1>6, <1>7

LEMMA Permute_Inv ==
  ASSUME DInv, Careful, NEW h \in Handles, NEW p \in Orders,
         NEW r \in Rowranks, Permute_(h, p, r)
  PROVE  DInv'
<1> DEFINE m == MetaPermuted(meta[h], p)
           n == IF m.diag THEN Updated(m)
                ELSE IF r > Rank(m) THEN m ELSE WithRowrank(m, r)
<1>1. /\ Usable(h) /\ Maps(p, meta[h]) /\ IsInjective(p)
      /\ meta' = [meta EXCEPT ![h] = n] /\ amiss' = amiss
  BY DEF Permute_
<1>2. Proper(meta[h]) /\ p \in Seq(Nat \ {0}) /\ r \in Int
  BY <1>1, UsableIs, DenseAssumption
<1>3. p \in Perms(Rank(meta[h]))
  BY <1>1, <1>2, OrderPerm
<1>4. /\ Proper(m) /\ m.diag = meta[h].diag
      /\ meta[h].diag => BlockShape(m) = BlockShape(meta[h])
      /\ ~meta[h].diag /\ meta[h].bonds # <<>> =>
           BlockShape(m) = Compose(BlockShape(meta[h]), p)
  BY <1>2, <1>3, PermutedFits
<1>5. IF m.diag THEN UNCHANGED blocks ELSE MayLayOut(h) /\ Block!Permute_(h, p)
  BY DEF Permute_
<1> HIDE DEF m
<1>6. Proper(n) /\ BlockShape(n) = BlockShape(m)
  <2>1. CASE m.diag
    BY <1>4, <2>1, UpdatedFits
  <2>2. CASE ~m.diag /\ r > Rank(m)
    BY <1>4, <2>2
  <2>3. CASE ~m.diag /\ ~(r > Rank(m))
    <3>1. r <= Rank(m)
      BY <1>2, <1>4, <2>3 DEF Proper, Metas, Rank
    <3> QED BY <1>2, <1>4, <2>3, <3>1, WithRowrankFits
  <2> QED BY <2>1, <2>2, <2>3
<1> HIDE DEF n
<1>7. CASE m.diag
  <2>1. TP!IInv' /\ TP!Gets(h, BlockShape(meta[h]))
    BY <1>1, <1>5, <1>7, StillGets
  <2> QED BY <1>1, <1>4, <1>6, <1>7, <2>1, StepInv
<1>8. CASE ~m.diag
  <2>1. /\ TP!IInv' /\ TP!Gets(h, Compose(BlockShape(meta[h]), p))
        /\ meta[h].bonds # <<>>
    BY <1>1, <1>3, <1>4, <1>5, <1>8, BlockPermuted
  <2> QED BY <1>1, <1>4, <1>6, <1>8, <2>1, StepInv
<1> QED BY <1>7, <1>8

\* Nothing is said of the labels and bonds that permute_ leaves when it throws.
LEMMA PermuteThrowsInv ==
  ASSUME DInv, NEW h \in Handles, NEW p, PermuteThrows(h, p)
  PROVE  DInv'
<1> DEFINE m == MetaPermuted(meta[h], p)
<1>1. /\ Usable(h) /\ UNCHANGED blocks /\ amiss' = amiss \cup {h}
      /\ meta' = [meta EXCEPT ![h] = m]
  BY DEF PermuteThrows
<1>2. TP!IInv' /\ TP!Gets(h, BlockShape(meta[h]))
  BY <1>1, StillGets
<1> HIDE DEF m
<1> QED BY <1>1, <1>2, StepInv

LEMMA Transpose_Inv ==
  ASSUME DInv, Careful, NEW h \in Handles, Transpose_(h)
  PROVE  DInv'
<1> DEFINE m == meta[h]
           k == Rank(m)
           c == k - m.rowrank
           p == [j \in 1..c |-> m.rowrank + j] \o Identity(m.rowrank)
           q == MetaPermuted(m, p)
           n == Updated([q EXCEPT !.rowrank = c])
<1>1. /\ Usable(h) /\ amiss' = amiss
      /\ meta' = [meta EXCEPT ![h] = IF m.tag THEN Turned(m) ELSE n]
      /\ IF m.tag \/ m.diag THEN UNCHANGED blocks ELSE MayLayOut(h) /\ Block!Permute_(h, p)
  BY DEF Transpose_
<1>2. Proper(m) /\ m.tag \in BOOLEAN /\ m.rowrank \in Nat /\ k \in Nat /\ m.rowrank \in 0..k
  BY <1>1, UsableIs DEF Proper, Metas, Rank
<1>3. CASE m.tag
  <2>1. Proper(Turned(m)) /\ BlockShape(Turned(m)) = BlockShape(m)
    BY <1>2, <1>3, TurnedFits
  <2>2. UNCHANGED blocks /\ meta' = [meta EXCEPT ![h] = Turned(m)]
    BY <1>1, <1>3
  <2> QED BY <1>1, <2>1, <2>2, RedescribeInv
<1>4. CASE ~m.tag
  <2> HIDE DEF m, k
  <2>1. c \in Nat /\ c \in 0..k /\ c + m.rowrank = k
    BY <1>2
  <2>2. p \in Perms(k)
    <3> DEFINE a == [j \in 1..c |-> m.rowrank + j]
               b == Identity(m.rowrank)
    <3>1. a \in [1..c -> Nat] /\ Len(a) = c /\ a \in Seq(Nat)
      <4>1. a \in [1..c -> Nat]
        BY <1>2
      <4> HIDE DEF a, c
      <4> QED BY <2>1, <4>1
    <3>2. b \in [1..m.rowrank -> Nat] /\ Len(b) = m.rowrank /\ b \in Seq(Nat)
      BY <1>2 DEF Identity
    <3>3. /\ p = a \o b /\ p \in Seq(Nat) /\ Len(p) = k
      BY <2>1, <3>1, <3>2, ConcatProperties
    <3>4. \A j \in 1..k : p[j] = IF j <= c THEN m.rowrank + j ELSE j - c
      <4>1. ASSUME NEW j \in 1..k, j <= c PROVE p[j] = m.rowrank + j
        <5>1. j \in 1..c
          BY <4>1, <2>1
        <5>2. p[j] = a[j]
          <6> HIDE DEF a, b, p, c
          <6> QED BY <2>1, <3>1, <3>2, <3>3, <4>1, ConcatProperties
        <5> QED BY <5>1, <5>2
      <4>2. ASSUME NEW j \in 1..k, ~(j <= c) PROVE p[j] = j - c
        <5>1. j - c \in 1..m.rowrank
          BY <1>2, <2>1, <4>2
        <5>2. p[j] = b[j - c]
          <6> HIDE DEF a, b, p, c
          <6> QED BY <2>1, <3>1, <3>2, <3>3, <4>2, ConcatProperties
        <5> QED BY <5>1, <5>2 DEF Identity
      <4> QED BY <4>1, <4>2
    <3> HIDE DEF p, c
    <3>5. \A j \in 1..k : p[j] \in 1..k
      BY <1>2, <2>1, <3>4
    <3>6. \A i, j \in 1..k : p[i] = p[j] => i = j
      BY <1>2, <2>1, <3>4
    <3>7. p \in [1..k -> 1..k]
      <4>1. p \in Seq(Nat) /\ Len(p) = k
        BY <3>3
      <4>2. p = [j \in 1..k |-> p[j]]
        BY <4>1
      <4> QED BY <3>5, <4>2
    <3> QED BY <3>6, <3>7 DEF Perms
  <2> HIDE DEF p
  <2>3. /\ Proper(q) /\ Rank(q) = k
        /\ m.diag => BlockShape(q) = BlockShape(m)
        /\ ~m.diag /\ m.bonds # <<>> => BlockShape(q) = Compose(BlockShape(m), p)
    BY <1>2, <2>2, PermutedFits DEF k
  <2> HIDE DEF q, c
  <2>4. Proper(n) /\ BlockShape(n) = BlockShape(q)
    BY <2>1, <2>3, RankedFits, UpdatedFits
  <2>5. meta' = [meta EXCEPT ![h] = n]
    BY <1>1, <1>4 DEF c, q, p
  <2> HIDE DEF n
  <2>6. CASE m.diag
    <3>1. TP!IInv' /\ TP!Gets(h, BlockShape(m))
      BY <1>1, <2>6, StillGets DEF m
    <3> QED BY <1>1, <2>3, <2>4, <2>5, <2>6, <3>1, StepInv
  <2>7. CASE ~m.diag
    <3>1. TP!IInv' /\ TP!Gets(h, Compose(BlockShape(m), p)) /\ m.bonds # <<>>
      BY <1>1, <1>4, <2>2, <2>7, BlockPermuted DEF m, k, p, c
    <3> QED BY <1>1, <2>3, <2>4, <2>5, <2>7, <3>1, StepInv
  <2> QED BY <2>6, <2>7
<1> QED BY <1>3, <1>4

-----------------------------------------------------------------------------
(* reshape.                                                                *)

LEMMA SettledIs ==
  ASSUME NEW ns \in NewShapes, ns # <<>>, NEW d \in Nat
  PROVE  LET w == TP!Settled(ns, d)
         IN w \in Seq(Nat) /\ w # <<>> /\ Len(w) = Len(ns)
<1> DEFINE w == TP!Settled(ns, d)
<1>1. w \in Seq(Nat)
  BY Assumed, TP!SettledSeq
<1>2. ns \in Seq(Int)
  BY DenseAssumption
<1>3. DOMAIN w = 1..Len(ns)
  BY DEF TP!Settled
<1> HIDE DEF w
<1>4. Len(w) = Len(ns)
  BY <1>1, <1>2, <1>3
<1> QED BY <1>1, <1>2, <1>4 DEF w

LEMMA ReshapeDiagGets ==
  ASSUME DInv, NEW h \in Handles, NEW g \in Handles, Usable(g), meta[g].diag,
         NEW ns \in NewShapes, ns # <<>>, ReshapeDiag(h, g, ns)
  PROVE  TP!IInv' /\ \E d \in Nat : TP!Gets(h, TP!Settled(ns, d))
<1> DEFINE t == Diag(Content(g))
<1>1. PICK d \in 0..MaxSize : BindBlock(h, Reshaped(t, Block!Settled(ns, d)))
  BY DEF ReshapeDiag
<1>2. d \in Nat
  BY DenseAssumption
<1> DEFINE w == TP!Settled(ns, d)
<1>3. BindBlock(h, Reshaped(t, w))
  BY <1>1, SameParts
<1>4. w \in Seq(Nat)
  BY <1>2, SettledIs
<1>5. Len(t.data) \in Nat
  BY DiagIs
<1>6. Reshaped(t, w).shape = w /\ Reshaped(t, w).data = t.data
  BY DEF Reshaped, Diag
<1> HIDE DEF t, w
<1>7. TP!IInv' /\ TP!Gets(h, w)
  BY <1>3, <1>4, <1>5, <1>6, BlockGets
<1> QED BY <1>2, <1>7 DEF w

LEMMA ReshapesInv ==
  ASSUME DInv, NEW h \in Handles, NEW g \in Handles, NEW ns \in NewShapes, ns # <<>>,
         NEW r \in Rowranks, Careful,
         \/ Reshape(h, g, ns, r)
         \/ g = h /\ Reshape_(h, ns, r)
  PROVE  DInv'
<1>1. /\ Usable(g) /\ r \in 0..Len(ns)
      /\ Describe(h, ByTensor(impl'[ref'[h]].shape, FALSE, r))
      /\ IF meta[g].diag THEN ReshapeDiag(h, g, ns)
         ELSE \/ Block!Reshape(h, g, ns)
              \/ g = h /\ MayLayOut(h) /\ Block!Reshape_(h, ns)
  BY DEF Reshape, Reshape_, Reshapeable, DescribeReshaped
<1>2. TP!IInv' /\ \E d \in Nat : TP!Gets(h, TP!Settled(ns, d))
  <2>1. CASE meta[g].diag
    BY <1>1, <2>1, ReshapeDiagGets
  <2>2. CASE ~meta[g].diag
    <3>1. TP!IInv /\ TP!Whole(g)
      BY <1>1, UsableIs
    <3>2. \/ TP!Reshape(h, g, ns)
          \/ TP!Whole(h) /\ TP!Alone(h) /\ TP!Reshape_(h, ns)
      <4>1. \/ Block!Reshape(h, g, ns)
            \/ g = h /\ MayLayOut(h) /\ Block!Reshape_(h, ns)
        BY <1>1, <2>2
      <4>2. CASE Block!Reshape(h, g, ns)
        BY <4>2, SameReshape
      <4>3. CASE g = h /\ MayLayOut(h) /\ Block!Reshape_(h, ns)
        <5>1. TP!Reshape_(h, ns)
          BY <4>3, SameReshape
        <5> QED BY <3>1, <4>3, <5>1, OneOwner
      <4> QED BY <4>1, <4>2, <4>3
    <3> QED BY <3>1, <3>2, Assumed, TP!ReshapeGets
  <2> QED BY <2>1, <2>2
<1>3. PICK d \in Nat : TP!Gets(h, TP!Settled(ns, d))
  BY <1>2
<1> DEFINE w == TP!Settled(ns, d)
<1>4. w \in Seq(Nat) /\ w # <<>> /\ Len(w) = Len(ns)
  BY SettledIs
<1> HIDE DEF w
<1>5. TP!Gets(h, w) /\ r \in 0..Len(w)
  BY <1>1, <1>3, <1>4 DEF w
<1> QED BY <1>1, <1>2, <1>4, <1>5, ByBlockInv

\* A diagonal is given a dense block, which is torn.
LEMMA ReshapeDiagThrowsGets ==
  ASSUME DInv, NEW h \in Handles, Usable(h), meta[h].diag, NEW ns \in NewShapes,
         ReshapeDiagThrows(h, ns)
  PROVE  TP!IInv' /\ ref'[h] \in torn' /\ \E w : TP!Gets(h, w)
<1> DEFINE t == Diag(Content(h))
           w == Block!Settled(ns, UMax)
           y == Block!Plain(t.shape)
           o == Block!FromVector("Int64", t.data)
<1>1. \E i \in Impls \ Block!Live(ref), s \in Stores \ Block!Used :
        Block!Commit([ref EXCEPT ![h] = i],
                     [impl EXCEPT ![i] = [y EXCEPT !.shape = w, !.st = s]],
                     [heap EXCEPT ![s] = o], torn \cup {i})
  BY Zenon DEF ReshapeDiagThrows
<1>2. t.shape \in Seq(Nat) /\ Len(t.data) \in Nat
  BY DiagIs
<1>3. w \in Seq(Nat)
  BY Assumed, DenseAssumption, TP!SettledSeq, SameParts
<1>4. y \in TP!MetaRecords /\ TP!Sized(o)
  BY <1>2, Assumed, TP!PlainLaid, TP!NewSized, SameParts
<1> HIDE DEF t, w, y, o
<1>10. PICK i \in Impls \ TP!Live(ref), s \in Stores :
         Block!Commit([ref EXCEPT ![h] = i],
                      [impl EXCEPT ![i] = [y EXCEPT !.shape = w, !.st = s]],
                      [heap EXCEPT ![s] = o], torn \cup {i})
  <2>1. Block!Live(ref) = TP!Live(ref)
    BY SameParts
  <2> QED BY <1>1, <2>1, Zenon
<1> DEFINE x == [y EXCEPT !.shape = w, !.st = s]
<1>5. x \in TP!ImplRecords /\ x.st = s
  BY <1>3, <1>4 DEF TP!MetaRecords, TP!ImplRecords
<1>6. Block!Commit([ref EXCEPT ![h] = i], [impl EXCEPT ![i] = x], [heap EXCEPT ![s] = o],
                   torn \cup {i})
  BY <1>10
<1> HIDE DEF x
<1>7. TP!Commit([ref EXCEPT ![h] = i], [impl EXCEPT ![i] = x], [heap EXCEPT ![s] = o],
                torn \cup {i})
  BY <1>6 DEF Block!Commit, TP!Commit, Block!Live, TP!Live
<1>8. TP!IInv
  BY DEF DInv
<1>9. TP!IInv' /\ ref'[h] \in torn' /\ TP!Gets(h, x.shape)
  BY <1>4, <1>5, <1>7, <1>8, Assumed, TP!TornGets
<1> QED BY <1>9

LEMMA ReshapeThrowsInv ==
  ASSUME DInv, Careful, NEW h \in Handles, NEW ns \in NewShapes, NEW r,
         ReshapeThrows(h, ns, r)
  PROVE  DInv'
<1>1. /\ Usable(h) /\ Keep
      /\ IF meta[h].diag THEN ReshapeDiagThrows(h, ns)
         ELSE MayLayOut(h) /\ Block!ReshapeThrows(h, ns)
  BY DEF ReshapeThrows, Reshapeable
<1>2. CASE meta[h].diag
  <2>1. TP!IInv' /\ ref'[h] \in torn' /\ \E w : TP!Gets(h, w)
    BY <1>1, <1>2, ReshapeDiagThrowsGets
  <2> QED BY <1>1, <2>1, KeepInv
<1>3. CASE ~meta[h].diag
  <2>1. TP!IInv /\ TP!Whole(h) /\ TP!Alone(h) /\ TP!ReshapeThrows(h, ns)
    BY <1>1, <1>3, UsableIs, OneOwner, SameReshape
  <2>2. TP!IInv' /\ ref'[h] \in torn' /\ \E w : TP!Gets(h, w)
    BY <2>1, Assumed, TP!ReshapeThrowsGets
  <2> QED BY <1>1, <2>2, KeepInv
<1> QED BY <1>2, <1>3

-----------------------------------------------------------------------------
(* Lists of legs.                                                          *)

LEMMA ConcatMembers ==
  ASSUME NEW X, NEW s \in Seq(X), NEW t \in Seq(X)
  PROVE  /\ s \o t \in Seq(X) /\ Len(s \o t) = Len(s) + Len(t)
         /\ Members(s \o t) = Members(s) \cup Members(t)
         /\ IsInjective(s) /\ IsInjective(t) /\ Members(s) \cap Members(t) = {}
              => IsInjective(s \o t)
<1> DEFINE u == s \o t
           a == Len(s)
           b == Len(t)
<1>1. /\ u \in Seq(X) /\ Len(u) = a + b /\ a \in Nat /\ b \in Nat
      /\ \A i \in 1..(a + b) : u[i] = IF i <= a THEN s[i] ELSE t[i - a]
  BY ConcatProperties
<1>2. DOMAIN u = 1..(a + b) /\ DOMAIN s = 1..a /\ DOMAIN t = 1..b
  BY <1>1
<1> HIDE DEF u, a, b
<1>3. \A i \in 1..a : i \in 1..(a + b) /\ u[i] = s[i]
  BY <1>1
<1>4. \A i \in 1..b : a + i \in 1..(a + b) /\ u[a + i] = t[i]
  <2> SUFFICES ASSUME NEW i \in 1..b PROVE a + i \in 1..(a + b) /\ u[a + i] = t[i]
    OBVIOUS
  <2>1. a + i \in 1..(a + b) /\ ~(a + i <= a) /\ (a + i) - a = i
    BY <1>1
  <2> QED BY <1>1, <2>1
<1>5. \A i \in 1..(a + b) : \/ i \in 1..a /\ u[i] = s[i]
                            \/ i - a \in 1..b /\ u[i] = t[i - a]
  BY <1>1
<1>6. Members(u) = Members(s) \cup Members(t)
  <2>1. Members(u) \subseteq Members(s) \cup Members(t)
    BY <1>1, <1>5 DEF Members, a, b
  <2>2. Members(s) \subseteq Members(u)
    BY <1>1, <1>3 DEF Members, a
  <2>3. Members(t) \subseteq Members(u)
    <3> SUFFICES ASSUME NEW i \in 1..b PROVE t[i] \in Members(u)
      BY DEF Members, b
    <3>1. a + i \in 1..(a + b) /\ u[a + i] = t[i]
      BY <1>4
    <3> QED BY <1>1, <3>1 DEF Members
  <2> QED BY <2>1, <2>2, <2>3
<1>7. ASSUME IsInjective(s), IsInjective(t), Members(s) \cap Members(t) = {}
      PROVE  IsInjective(u)
  <2>1. \A i, j \in 1..a : s[i] = s[j] => i = j
    BY <1>2, <1>7 DEF IsInjective
  <2>2. \A i, j \in 1..b : t[i] = t[j] => i = j
    BY <1>2, <1>7 DEF IsInjective
  <2>3. \A i \in 1..a, j \in 1..b : s[i] # t[j]
    BY <1>7 DEF Members, a, b
  <2>4. ASSUME NEW i \in 1..(a + b), NEW j \in 1..(a + b), u[i] = u[j]
        PROVE  i = j
    <3>1. CASE i \in 1..a /\ j \in 1..a
      BY <1>3, <2>1, <2>4, <3>1
    <3>2. CASE i \notin 1..a /\ j \notin 1..a
      <4>1. i - a \in 1..b /\ j - a \in 1..b /\ u[i] = t[i - a] /\ u[j] = t[j - a]
        BY <1>5, <3>2
      <4>2. i - a = j - a
        BY <2>2, <2>4, <4>1
      <4> QED BY <1>1, <4>2
    <3>3. CASE i \in 1..a /\ j \notin 1..a
      BY <1>3, <1>5, <2>3, <2>4, <3>3
    <3>4. CASE i \notin 1..a /\ j \in 1..a
      BY <1>3, <1>5, <2>3, <2>4, <3>4
    <3> QED BY <3>1, <3>2, <3>3, <3>4
  <2> QED BY <1>2, <2>4 DEF IsInjective
<1> QED BY <1>1, <1>6, <1>7 DEF u, a, b

\* A list of all of the axes, none listed twice.
LEMMA MembersPerm ==
  ASSUME NEW n \in Nat, NEW X, NEW s \in Seq(X), IsInjective(s), Members(s) = 1..n
  PROVE  s \in Perms(n)
<1>1. Len(s) = n
  <2>1. Cardinality(Members(s)) = Len(s)
    BY MembersCount
  <2>2. Cardinality(1..n) = n
    BY FS_Interval
  <2> QED BY <2>1, <2>2
<1>2. \A i \in 1..n : s[i] \in 1..n
  BY <1>1 DEF Members
<1>3. s = [i \in 1..n |-> s[i]]
  BY <1>1
<1>4. s \in [1..n -> 1..n]
  BY <1>2, <1>3
<1>5. \A i, j \in 1..n : s[i] = s[j] => i = j
  BY <1>1 DEF IsInjective
<1> QED BY <1>4, <1>5 DEF Perms

\* The axes that are left.
LEMMA OthersAre ==
  ASSUME NEW n \in Nat, NEW R
  PROVE  LET s == Others(n, R)
         IN /\ s \in Seq(1..n) /\ IsInjective(s) /\ Members(s) = (1..n) \ R
<1> DEFINE e == Identity(n)
<1>1. e \in Seq(1..n) /\ Len(e) = n /\ \A i \in 1..n : e[i] = i
  BY DEF Identity
<1>2. IsInjective(e) /\ Members(e) = 1..n
  <2>1. DOMAIN e = 1..n
    BY DEF Identity
  <2> HIDE DEF e
  <2>2. IsInjective(e)
    BY <1>1, <2>1 DEF IsInjective
  <2>3. Members(e) = 1..n
    BY <1>1 DEF Members
  <2> QED BY <2>2, <2>3
<1> HIDE DEF e
<1>3. /\ Erased(e, R) \in Seq(1..n) /\ Members(Erased(e, R)) = Members(e) \ R
      /\ IsInjective(Erased(e, R))
  BY <1>1, <1>2, ErasedIs
<1> QED BY <1>2, <1>3 DEF Others, e

\* Where a label is.
LEMMA IndexIs ==
  ASSUME NEW m, NEW l \in Range(m.labels), m.labels \in Seq(Nat)
  PROVE  IndexOf(m, l) \in 1..Rank(m) /\ m.labels[IndexOf(m, l)] = l
<1>1. DOMAIN m.labels = 1..Rank(m)
  BY DEF Rank
<1>2. \E j \in 1..Rank(m) : m.labels[j] = l
  BY <1>1 DEF Range
<1> QED BY <1>2 DEF IndexOf

-----------------------------------------------------------------------------
(* combineBonds.                                                           *)

\* A list with n of its entries, from the i-th on, replaced by one.
LEMMA CombinedIs ==
  ASSUME NEW X, NEW s \in Seq(X), NEW i \in 1..Len(s), NEW n \in Nat \ {0}, NEW x \in X,
         i + n - 1 <= Len(s)
  PROVE  LET c == Combined(s, i, n, x)
         IN /\ c \in Seq(X) /\ Len(c) = Len(s) - n + 1
            /\ \A j \in 1..Len(c) :
                 c[j] = IF j < i THEN s[j] ELSE IF j = i THEN x ELSE s[j + n - 1]
<1> DEFINE k == Len(s)
           a == SubSeq(s, 1, i - 1)
           b == <<x>>
           d == SubSeq(s, i + n, k)
           c == (a \o b) \o d
<1>1. k \in Nat /\ i \in Nat /\ i >= 1 /\ i <= k /\ \A j \in 1..k : s[j] \in X
  OBVIOUS
<1> HIDE DEF k
<1>2. /\ a \in Seq(X) /\ Len(a) = i - 1
      /\ \A j \in 1..(i - 1) : a[j] = s[j]
  <2>1. 1 \in Int /\ i - 1 \in Int /\ \A j \in 1..(i - 1) : s[j] \in X
    BY <1>1
  <2>2. /\ a \in Seq(X) /\ Len(a) = IF 1 <= i - 1 THEN (i - 1) - 1 + 1 ELSE 0
        /\ \A j \in 1..((i - 1) - 1 + 1) : a[j] = s[1 + j - 1]
    BY <2>1, SubSeqProperties
  <2>3. Len(a) = i - 1
    BY <1>1, <2>2
  <2>4. \A j \in 1..(i - 1) : a[j] = s[j]
    <3> SUFFICES ASSUME NEW j \in 1..(i - 1) PROVE a[j] = s[j]
      OBVIOUS
    <3>1. j \in 1..((i - 1) - 1 + 1) /\ 1 + j - 1 = j
      BY <1>1
    <3> HIDE DEF a
    <3> QED BY <2>2, <3>1
  <2> QED BY <2>2, <2>3, <2>4
<1>3. b \in Seq(X) /\ Len(b) = 1 /\ b[1] = x
  OBVIOUS
<1>4. /\ d \in Seq(X) /\ Len(d) = k - i - n + 1
      /\ \A j \in 1..(k - i - n + 1) : d[j] = s[i + n + j - 1]
  <2>1. i + n \in Int /\ k \in Int /\ \A j \in (i + n)..k : s[j] \in X
    BY <1>1
  <2>2. /\ d \in Seq(X) /\ Len(d) = IF i + n <= k THEN k - (i + n) + 1 ELSE 0
        /\ \A j \in 1..(k - (i + n) + 1) : d[j] = s[(i + n) + j - 1]
    BY <2>1, SubSeqProperties
  <2>3. Len(d) = k - i - n + 1
    BY <1>1, <2>2 DEF k
  <2>4. k - i - n + 1 = k - (i + n) + 1
    BY <1>1
  <2> QED BY <2>2, <2>3, <2>4
<1> HIDE DEF a, b, d
<1>5. /\ a \o b \in Seq(X) /\ Len(a \o b) = i
      /\ \A j \in 1..i : (a \o b)[j] = IF j <= i - 1 THEN a[j] ELSE b[j - (i - 1)]
  <2>1. /\ a \o b \in Seq(X) /\ Len(a \o b) = Len(a) + Len(b)
        /\ \A j \in 1..(Len(a) + Len(b)) : (a \o b)[j] = IF j <= Len(a) THEN a[j] ELSE b[j - Len(a)]
    <3>1. a \in Seq(X) /\ b \in Seq(X)
      BY <1>2, <1>3
    <3> QED BY <3>1, ConcatProperties, Zenon
  <2>2. Len(a) = i - 1 /\ Len(b) = 1 /\ (i - 1) + 1 = i
    BY <1>1, <1>2, <1>3
  <2> QED BY <2>1, <2>2
<1>6. /\ c \in Seq(X) /\ Len(c) = k - n + 1
      /\ \A j \in 1..(k - n + 1) : c[j] = IF j <= i THEN (a \o b)[j] ELSE d[j - i]
  <2> DEFINE e == a \o b
  <2>1. e \in Seq(X) /\ Len(e) = i
    BY <1>5
  <2> HIDE DEF e
  <2>2. /\ e \o d \in Seq(X) /\ Len(e \o d) = Len(e) + Len(d)
        /\ \A j \in 1..(Len(e) + Len(d)) : (e \o d)[j] = IF j <= Len(e) THEN e[j] ELSE d[j - Len(e)]
    <3>1. e \in Seq(X) /\ d \in Seq(X)
      BY <1>4, <2>1
    <3> QED BY <3>1, ConcatProperties, Zenon
  <2>3. Len(e) = i /\ Len(e) + Len(d) = k - n + 1
    BY <1>1, <1>4, <2>1
  <2> QED BY <2>2, <2>3 DEF e
<1>7. ASSUME NEW j \in 1..(k - n + 1)
      PROVE  c[j] = IF j < i THEN s[j] ELSE IF j = i THEN x ELSE s[j + n - 1]
  <2>1. CASE j < i
    <3>1. j \in 1..i /\ j \in 1..(i - 1) /\ j <= i /\ j <= i - 1
      BY <1>1, <2>1
    <3> HIDE DEF c
    <3>2. c[j] = a[j]
      BY <1>5, <1>6, <3>1
    <3> QED BY <1>2, <2>1, <3>1, <3>2
  <2>2. CASE j = i
    <3>1. j \in 1..i /\ j <= i /\ ~(j <= i - 1) /\ j - (i - 1) = 1
      BY <1>1, <2>2
    <3> HIDE DEF c
    <3>2. c[j] = b[1]
      BY <1>5, <1>6, <3>1
    <3>3. ~(j < i)
      BY <1>1, <2>2
    <3> QED BY <1>3, <2>2, <3>2, <3>3
  <2>3. CASE j > i
    <3>1. ~(j <= i) /\ j - i \in 1..(k - i - n + 1) /\ i + n + (j - i) - 1 = j + n - 1
      BY <1>1, <2>3 DEF k
    <3> HIDE DEF c
    <3>2. c[j] = d[j - i]
      BY <1>6, <3>1
    <3>3. d[j - i] = s[j + n - 1]
      BY <1>4, <3>1
    <3>4. ~(j < i) /\ j # i
      BY <1>1, <2>3
    <3> QED BY <3>2, <3>3, <3>4
  <2>4. j < i \/ j = i \/ j > i
    BY <1>1
  <2> QED BY <2>1, <2>2, <2>3, <2>4
<1>8. Combined(s, i, n, x) = c
  BY DEF Combined, a, b, d, k
<1> HIDE DEF c
<1> QED BY <1>6, <1>7, <1>8 DEF k

\* The legs to combine, side by side.
LEMMA GatheredIs ==
  ASSUME NEW m, Proper(m), NEW labels \in Seq(Nat), IsInjective(labels),
         Len(labels) > 1, Range(labels) \subseteq Range(m.labels)
  PROVE  LET order == Gathered(m, labels)
             at    == IndexOf(MetaPermuted(m, order), labels[1])
         IN /\ order \in Perms(Rank(m))
            /\ at \in 1..Rank(m) /\ at + Len(labels) - 1 <= Rank(m)
<1> DEFINE k == Rank(m)
           n == Len(labels)
           legs == [j \in DOMAIN labels |-> IndexOf(m, labels[j])]
           other == Others(k, Range(legs))
           A == Erased(other, legs[1]..k)
           C == Erased(other, 1..legs[1])
           order == (A \o legs) \o C
           p == MetaPermuted(m, order)
           at == IndexOf(p, labels[1])
<1>1. /\ k \in Nat /\ m.labels \in Seq(Nat) /\ Len(m.labels) = k /\ IsInjective(m.labels)
      /\ DOMAIN m.labels = 1..k
  BY DEF Proper, Metas, Rank
<1>2. n \in Nat /\ n > 1 /\ DOMAIN labels = 1..n
  OBVIOUS
<1>3. \A j \in 1..n : IndexOf(m, labels[j]) \in 1..k /\ m.labels[IndexOf(m, labels[j])] = labels[j]
  <2> SUFFICES ASSUME NEW j \in 1..n
               PROVE  IndexOf(m, labels[j]) \in 1..k /\ m.labels[IndexOf(m, labels[j])] = labels[j]
    OBVIOUS
  <2>1. labels[j] \in Range(m.labels)
    BY <1>2 DEF Range
  <2> QED BY <1>1, <2>1, IndexIs
<1> HIDE DEF k, n
<1> DEFINE Q == 1..k
<1> HIDE DEF Q
<1>4. /\ legs \in Seq(Q) /\ Len(legs) = n /\ DOMAIN legs = 1..n
      /\ \A j \in 1..n : legs[j] \in 1..k /\ m.labels[legs[j]] = labels[j]
  <2>1. legs = [j \in 1..n |-> IndexOf(m, labels[j])]
    BY <1>2
  <2> HIDE DEF legs
  <2>2. legs \in [1..n -> Q] /\ \A j \in 1..n : m.labels[legs[j]] = labels[j]
    BY <1>3, <2>1 DEF Q
  <2>3. legs \in Seq(Q) /\ Len(legs) = n
    BY <1>2, <2>2
  <2> QED BY <2>2, <2>3 DEF Q
<1> HIDE DEF legs
<1>5. IsInjective(legs) /\ Members(legs) = Range(legs)
  <2>1. \A i, j \in 1..n : labels[i] = labels[j] => i = j
    BY <1>2 DEF IsInjective
  <2>2. IsInjective(legs)
    BY <1>4, <2>1 DEF IsInjective
  <2>3. Members(legs) = Range(legs)
    BY <1>4 DEF Members, Range
  <2> QED BY <2>2, <2>3
<1> DEFINE f == legs[1]
<1>6. f \in 1..k /\ f \in Members(legs) /\ m.labels[f] = labels[1]
  BY <1>2, <1>4 DEF Members
<1>7. other \in Seq(Q) /\ IsInjective(other) /\ Members(other) = (1..k) \ Members(legs)
  BY <1>1, <1>5, OthersAre DEF Q
<1> HIDE DEF other
<1>7a. ASSUME NEW R
       PROVE  /\ Erased(other, R) \in Seq(Q) /\ IsInjective(Erased(other, R))
              /\ Members(Erased(other, R)) = Members(other) \ R
  <2>1. other \in Seq(Q) /\ IsInjective(other)
    BY <1>7
  <2> QED BY <2>1, ErasedIs
<1>8. A \in Seq(Q) /\ IsInjective(A) /\ Members(A) = Members(other) \ (f..k)
  BY <1>7, <1>7a
<1>9. C \in Seq(Q) /\ IsInjective(C) /\ Members(C) = Members(other) \ (1..f)
  BY <1>7, <1>7a
<1> HIDE DEF A, C, f
<1>10. /\ A \o legs \in Seq(Q) /\ Len(A \o legs) = Len(A) + n
       /\ Members(A \o legs) = Members(A) \cup Members(legs)
       /\ IsInjective(A \o legs)
  <2>1. Members(A) \cap Members(legs) = {}
    BY <1>7, <1>8
  <2>2. A \in Seq(Q) /\ legs \in Seq(Q)
    BY <1>4, <1>8
  <2>3. /\ A \o legs \in Seq(Q) /\ Len(A \o legs) = Len(A) + Len(legs)
        /\ Members(A \o legs) = Members(A) \cup Members(legs)
        /\ IsInjective(A) /\ IsInjective(legs) /\ Members(A) \cap Members(legs) = {}
             => IsInjective(A \o legs)
    BY <2>2, ConcatMembers, Zenon
  <2> QED BY <1>4, <1>5, <1>8, <2>1, <2>3
<1>11. /\ order \in Seq(Q) /\ Len(order) = Len(A) + n + Len(C)
       /\ Members(order) = Members(A) \cup Members(legs) \cup Members(C)
       /\ IsInjective(order)
  <2> DEFINE e == A \o legs
  <2>1. /\ e \in Seq(Q) /\ Len(e) = Len(A) + n /\ IsInjective(e)
        /\ Members(e) = Members(A) \cup Members(legs)
    BY <1>10
  <2>2. (Members(A) \cup Members(legs)) \cap Members(C) = {}
    <3>1. Members(legs) \cap Members(C) = {}
      BY <1>7, <1>9
    <3>2. ASSUME NEW x \in Members(A), x \in Members(C) PROVE FALSE
      <4>1. x \in 1..k /\ x \notin f..k /\ x \notin 1..f
        BY <1>7, <1>8, <1>9, <3>2
      <4> QED BY <1>1, <1>6, <4>1
    <3> QED BY <3>1, <3>2
  <2> HIDE DEF e
  <2>3. /\ e \o C \in Seq(Q) /\ Len(e \o C) = Len(e) + Len(C)
        /\ Members(e \o C) = Members(e) \cup Members(C)
        /\ IsInjective(e \o C)
    <3>1. /\ e \in Seq(Q) /\ C \in Seq(Q) /\ IsInjective(e) /\ IsInjective(C)
          /\ Members(e) \cap Members(C) = {}
      BY <1>9, <2>1, <2>2
    <3> HIDE DEF C, Q
    <3> QED BY <3>1, ConcatMembers
  <2> QED BY <2>1, <2>3 DEF e
<1>12. Members(order) = 1..k
  <2>1. Members(legs) \subseteq 1..k
    BY <1>4 DEF Members
  <2>2. \A x \in (1..k) \ Members(legs) : x \notin f..k \/ x \notin 1..f
    BY <1>1, <1>6
  <2> HIDE DEF order
  <2> QED BY <1>7, <1>8, <1>9, <1>11, <2>1, <2>2
<1>13. Gathered(m, labels) = order
  BY DEF Gathered, A, C, f, other, legs, k
<1>14. order[Len(A) + 1] = f /\ Len(A) \in Nat
  <2> DEFINE e == A \o legs
  <2>1. e \in Seq(Q) /\ Len(e) = Len(A) + n /\ Len(A) \in Nat /\ Len(C) \in Nat
    BY <1>8, <1>9, <1>10
  <2>2. \A i \in 1..(Len(A) + n) : e[i] = IF i <= Len(A) THEN A[i] ELSE legs[i - Len(A)]
    BY <1>4, <1>8, ConcatProperties
  <2>3. e[Len(A) + 1] = legs[1]
    <3>1. Len(A) + 1 \in 1..(Len(A) + n) /\ ~(Len(A) + 1 <= Len(A)) /\ (Len(A) + 1) - Len(A) = 1
      BY <1>2, <2>1
    <3> HIDE DEF e
    <3> QED BY <2>2, <3>1
  <2> HIDE DEF e
  <2>4. \A i \in 1..(Len(e) + Len(C)) : (e \o C)[i] = IF i <= Len(e) THEN e[i] ELSE C[i - Len(e)]
    BY <1>9, <2>1, ConcatProperties
  <2>5. Len(A) + 1 \in 1..(Len(e) + Len(C)) /\ Len(A) + 1 <= Len(e)
    BY <1>2, <2>1
  <2>6. (e \o C)[Len(A) + 1] = legs[1]
    BY <2>3, <2>4, <2>5
  <2> QED BY <2>1, <2>6 DEF e, f
<1> HIDE DEF order
<1>15. order \in Perms(k)
  <2>1. order \in Seq(Q) /\ IsInjective(order)
    BY <1>11 DEF order
  <2> QED BY <1>1, <1>12, <2>1, MembersPerm
<1>16. Len(order) = k
  BY <1>1, <1>15, PermOrder
<1>17. /\ Proper(p) /\ Rank(p) = k /\ p.labels = Compose(m.labels, order)
  BY <1>15, PermutedFits DEF k
<1> HIDE DEF p
<1>18. Len(A) + 1 \in 1..k /\ (Len(A) + 1) + n - 1 <= k
  <2>1. Len(A) \in Nat /\ Len(C) \in Nat /\ Len(A) + n + Len(C) = k
    BY <1>8, <1>9, <1>11, <1>16
  <2> QED BY <1>2, <2>1
<1>19. p.labels[Len(A) + 1] = labels[1]
  <2>1. p.labels[Len(A) + 1] = m.labels[order[Len(A) + 1]]
    BY <1>1, <1>15, <1>17, <1>18, ComposeAt
  <2> QED BY <1>6, <1>14, <2>1
<1>20. at = Len(A) + 1
  <2>1. p.labels \in Seq(Nat) /\ DOMAIN p.labels = 1..k /\ IsInjective(p.labels)
    BY <1>17 DEF Proper, Metas, Rank
  <2>2. labels[1] \in Range(p.labels)
    BY <1>18, <1>19, <2>1 DEF Range
  <2>3. at \in 1..k /\ p.labels[at] = labels[1]
    BY <1>17, <2>1, <2>2, IndexIs
  <2> HIDE DEF at
  <2> QED BY <1>18, <1>19, <2>1, <2>3 DEF IsInjective
<1> HIDE DEF at
<1>21. order \in Perms(k) /\ at \in 1..k /\ at + n - 1 <= k
  BY <1>15, <1>18, <1>20
<1> QED BY <1>13, <1>21 DEF at, p, k, n

LEMMA ShapeOfDims ==
  ASSUME NEW m, Proper(m)
  PROVE  /\ Dims(m) \in Seq(Nat) /\ Len(Dims(m)) = Rank(m)
         /\ \A j \in 1..Rank(m) : Dims(m)[j] = m.bonds[j].dim /\ m.bonds[j].dim \in Nat
         /\ ~m.diag /\ m.bonds # <<>> => BlockShape(m) = Dims(m)
<1> DEFINE k == Rank(m)
<1>1. k \in Nat /\ m.bonds \in [1..k -> Legs] /\ DOMAIN m.bonds = 1..k
  BY DEF Proper, Metas, Rank
<1> HIDE DEF k
<1>2. \A j \in 1..k : m.bonds[j].dim \in Nat
  BY <1>1 DEF Legs
<1>3. Dims(m) = [j \in 1..k |-> m.bonds[j].dim]
  BY <1>1 DEF Dims
<1>4. Dims(m) \in [1..k -> Nat]
  BY <1>2, <1>3
<1>5. Dims(m) \in Seq(Nat) /\ Len(Dims(m)) = k
  BY <1>1, <1>4
<1>6. ~m.diag /\ m.bonds # <<>> => BlockShape(m) = Dims(m)
  BY DEF BlockShape
<1> QED BY <1>2, <1>3, <1>5, <1>6 DEF k

\* One entry on its own.
LEMMA SingleIs ==
  ASSUME NEW s, NEW a \in Int, NEW b \in Int, a = b, s[a] \in Nat
  PROVE  SubSeq(s, a, b) = <<s[a]>>
<1> DEFINE w == SubSeq(s, a, b)
<1>1. \A j \in a..b : s[j] \in Nat
  OBVIOUS
<1>2. /\ w \in Seq(Nat) /\ Len(w) = IF a <= b THEN b - a + 1 ELSE 0
      /\ \A j \in 1..(b - a + 1) : w[j] = s[a + j - 1]
  BY <1>1, SubSeqProperties
<1> HIDE DEF w
<1>3. Len(w) = 1 /\ w[1] = s[a]
  <2>1. 1 \in 1..(b - a + 1) /\ a + 1 - 1 = a /\ b - a + 1 = 1
    OBVIOUS
  <2> QED BY <1>2, <2>1
<1>4. w = <<w[1]>>
  BY <1>2, <1>3
<1> QED BY <1>3, <1>4 DEF w

\* The product of some dimensions in a row.
LEMMA RowProduct ==
  ASSUME NEW m, Proper(m), NEW a \in 1..Rank(m), NEW b \in Int, b <= Rank(m)
  PROVE  Prod(SubSeq(Dims(m), a, b)) \in Nat
<1>1. Rank(m) \in Nat /\ \A j \in a..b : Dims(m)[j] \in Nat
  <2>1. Rank(m) \in Nat
    BY DEF Proper, Metas, Rank
  <2>2. \A j \in 1..Rank(m) : Dims(m)[j] \in Nat
    BY ShapeOfDims
  <2>3. a..b \subseteq 1..Rank(m)
    BY <2>1
  <2> QED BY <2>1, <2>2, <2>3
<1>2. a \in Int
  BY <1>1
<1>3. SubSeq(Dims(m), a, b) \in Seq(Nat)
  BY <1>1, <1>2, SubSeqProperties
<1> QED BY <1>3, ProdNat

LEMMA MetaCombinedFits ==
  ASSUME NEW m, Proper(m), ~m.diag, NEW at \in 1..Rank(m), NEW n \in Nat \ {0},
         at + n - 1 <= Rank(m)
  PROVE  LET c == MetaCombined(m, at, n)
         IN /\ Proper(c) /\ BlockShape(c) = Dims(c) /\ Dims(c) \in Seq(Nat)
<1> DEFINE k == Rank(m)
           rank == k - n + 1
           bond == [m.bonds[at] EXCEPT !.dim = Prod(SubSeq(Dims(m), at, at + n - 1))]
           l == Combined(m.labels, at, n, m.labels[at])
           b == Combined(m.bonds, at, n, bond)
           r == IF m.rowrank >= rank THEN rank ELSE m.rowrank
           c == [m EXCEPT !.labels = l, !.bonds = b, !.rowrank = r]
<1>1. /\ m \in Metas /\ k \in Nat /\ m.labels \in Seq(Nat) /\ Len(m.labels) = k
      /\ m.bonds \in Seq(Legs) /\ Len(m.bonds) = k /\ m.rowrank \in 0..k /\ m.rowrank \in Nat
      /\ m.tag \in BOOLEAN
  BY DEF Proper, Metas, Rank
<1> HIDE DEF k
<1>2. /\ at \in 1..k /\ at \in Nat /\ at + n - 1 <= k /\ rank \in Nat /\ rank >= 1
      /\ at + n - 1 \in Int /\ at <= k
  BY <1>1 DEF k
<1>3. m.labels[at] \in Nat /\ m.bonds[at] \in Legs
  BY <1>1, <1>2
<1>4. bond \in Legs /\ bond.type = m.bonds[at].type
  <2>1. Prod(SubSeq(Dims(m), at, at + n - 1)) \in Nat
    BY <1>2, RowProduct DEF k
  <2> HIDE DEF rank, l, b, r, c
  <2> QED BY <1>3, <2>1 DEF Legs
<1> HIDE DEF bond
<1>5. /\ l \in Seq(Nat) /\ Len(l) = rank
      /\ \A j \in 1..rank : l[j] = IF j < at THEN m.labels[j] ELSE IF j = at THEN m.labels[at]
                                   ELSE m.labels[j + n - 1]
  <2> DEFINE Q == Nat
             y == m.labels
             z == m.labels[at]
             e == Combined(y, at, n, z)
  <2>1. y \in Seq(Q) /\ at \in 1..Len(y) /\ n \in Nat \ {0} /\ at + n - 1 <= Len(y) /\ z \in Q
    BY <1>1, <1>2, <1>3
  <2> HIDE DEF Q, y, z, rank, l, b, r, c
  <2>2. /\ e \in Seq(Q) /\ Len(e) = Len(y) - n + 1
        /\ \A j \in 1..Len(e) :
             e[j] = IF j < at THEN y[j] ELSE IF j = at THEN z ELSE y[j + n - 1]
    BY <2>1, CombinedIs
  <2> HIDE DEF e
  <2>3. Len(e) = rank /\ l = e
    BY <1>1, <2>2 DEF e, y, z, rank, l
  <2> HIDE DEF l, rank
  <2> QED BY <2>2, <2>3 DEF y, z, Q
<1>6. /\ b \in Seq(Legs) /\ Len(b) = rank
      /\ \A j \in 1..rank : b[j] = IF j < at THEN m.bonds[j] ELSE IF j = at THEN bond
                                   ELSE m.bonds[j + n - 1]
  <2> DEFINE Q == Legs
             y == m.bonds
             e == Combined(y, at, n, bond)
  <2>1. y \in Seq(Q) /\ at \in 1..Len(y) /\ n \in Nat \ {0} /\ at + n - 1 <= Len(y)
        /\ bond \in Q
    BY <1>1, <1>2, <1>4
  <2> HIDE DEF Q, y, rank, l, b, r, c
  <2>2. /\ e \in Seq(Q) /\ Len(e) = Len(y) - n + 1
        /\ \A j \in 1..Len(e) :
             e[j] = IF j < at THEN y[j] ELSE IF j = at THEN bond ELSE y[j + n - 1]
    BY <2>1, CombinedIs
  <2> HIDE DEF e
  <2>3. Len(e) = rank /\ b = e
    BY <1>1, <2>2 DEF e, y, rank, b
  <2> HIDE DEF b, rank
  <2> QED BY <2>2, <2>3 DEF y, Q
<1>7. r \in 0..rank /\ r \in Nat
  BY <1>1, <1>2
<1> HIDE DEF l, b, r
<1>8. /\ c \in Metas /\ c.labels = l /\ c.bonds = b /\ c.rowrank = r /\ c.diag = m.diag
      /\ c.tag = m.tag
  BY <1>1, <1>5, <1>6, <1>7 DEF Metas
<1>9. MetaCombined(m, at, n) = Updated(c)
  BY DEF MetaCombined, l, b, r, bond, k
<1> HIDE DEF c
<1>10. IsInjective(l)
  <2>1. \A i, j \in 1..k : m.labels[i] = m.labels[j] => i = j
    BY <1>1 DEF Proper, IsInjective
  <2> DEFINE f(j) == IF j <= at THEN j ELSE j + n - 1
  <2>2. \A j \in 1..rank : f(j) \in 1..k /\ l[j] = m.labels[f(j)]
    <3> SUFFICES ASSUME NEW j \in 1..rank PROVE f(j) \in 1..k /\ l[j] = m.labels[f(j)]
      OBVIOUS
    <3>1. j \in Nat /\ l[j] = IF j < at THEN m.labels[j] ELSE IF j = at THEN m.labels[at]
                                ELSE m.labels[j + n - 1]
      BY <1>5
    <3>2. f(j) \in 1..k
      BY <1>1, <1>2
    <3>3. CASE j <= at
      BY <1>2, <3>1, <3>2, <3>3
    <3>4. CASE ~(j <= at)
      BY <1>2, <3>1, <3>2, <3>4
    <3> QED BY <3>3, <3>4
  <2>3. \A i, j \in 1..rank : f(i) = f(j) => i = j
    BY <1>2
  <2>4. DOMAIN l = 1..rank
    BY <1>5
  <2> HIDE DEF f, rank
  <2> QED BY <2>1, <2>2, <2>3, <2>4 DEF IsInjective
<1>11. \A j \in DOMAIN c.bonds : (c.bonds[j].type # B!BD_REG) = c.tag
  <2>1. \A j \in 1..k : (m.bonds[j].type # B!BD_REG) = m.tag
    BY <1>1 DEF Proper
  <2>2. ASSUME NEW j \in 1..rank
        PROVE  \E i \in 1..k : b[j].type = m.bonds[i].type
    <3>1. CASE j < at
      <4>1. b[j] = m.bonds[j] /\ j \in 1..k
        BY <1>1, <1>2, <1>6, <3>1
      <4> QED BY <4>1
    <3>2. CASE j = at
      <4>1. b[j] = bond
        BY <1>2, <1>6, <3>2
      <4> QED BY <1>2, <1>4, <4>1
    <3>3. CASE j > at
      <4>1. ~(j < at) /\ j # at /\ j + n - 1 \in 1..k
        BY <1>1, <1>2, <3>3
      <4>2. b[j] = m.bonds[j + n - 1]
        BY <1>6, <4>1
      <4> QED BY <4>1, <4>2
    <3> QED BY <1>2, <3>1, <3>2, <3>3
  <2>3. DOMAIN c.bonds = 1..rank
    BY <1>6, <1>8
  <2>4. ASSUME NEW j \in 1..rank PROVE (c.bonds[j].type # B!BD_REG) = c.tag
    <3>1. PICK i \in 1..k : b[j].type = m.bonds[i].type
      BY <2>2
    <3>2. (m.bonds[i].type # B!BD_REG) = m.tag
      BY <2>1
    <3>3. c.bonds[j].type = m.bonds[i].type /\ c.tag = m.tag
      BY <1>8, <3>1
    <3> QED BY <3>2, <3>3, Zenon
  <2> QED BY <2>3, <2>4
<1> HIDE DEF rank
<1>12. Proper(c) /\ Rank(c) = rank /\ ~c.diag /\ c.bonds # <<>>
  BY <1>2, <1>5, <1>6, <1>7, <1>8, <1>10, <1>11 DEF Proper, Rank
<1>13. BlockShape(c) = Dims(c) /\ Dims(c) \in Seq(Nat)
  BY <1>12, ShapeOfDims
<1>14. Dims(Updated(c)) = Dims(c)
  <2>1. Updated(c).bonds = c.bonds
    BY <1>8 DEF Updated, Metas
  <2> QED BY <2>1 DEF Dims
<1> QED BY <1>9, <1>12, <1>13, <1>14, UpdatedFits

\* The legs of h that are combined.
LEMMA CombinableIs ==
  ASSUME DInv, NEW h \in Handles, NEW labels \in Groups, Combinable(h, labels)
  PROVE  LET order == Gathered(meta[h], labels)
             m     == MetaPermuted(meta[h], order)
             at    == IndexOf(m, labels[1])
             n     == Len(labels)
         IN /\ Usable(h) /\ ~meta[h].diag /\ MayLayOut(h)
            /\ n \in Nat /\ n > 1
            /\ order \in Perms(Rank(meta[h])) /\ Proper(m) /\ ~m.diag
            /\ at \in 1..Rank(m) /\ at + n - 1 <= Rank(m)
            /\ meta[h].bonds # <<>> => BlockShape(m) = Compose(BlockShape(meta[h]), order)
<1> DEFINE order == Gathered(meta[h], labels)
           m == MetaPermuted(meta[h], order)
           at == IndexOf(m, labels[1])
           n == Len(labels)
<1>1. /\ Usable(h) /\ ~meta[h].diag /\ MayLayOut(h)
      /\ n > 1 /\ Range(labels) \subseteq Range(meta[h].labels)
  BY DEF Combinable
<1>2. labels \in Seq(Nat) /\ IsInjective(labels)
  BY DenseAssumption
<1>3. Proper(meta[h])
  BY <1>1, UsableIs
<1>4. /\ order \in Perms(Rank(meta[h]))
      /\ at \in 1..Rank(meta[h]) /\ at + n - 1 <= Rank(meta[h])
  BY <1>1, <1>2, <1>3, GatheredIs
<1> HIDE DEF order
<1>5. /\ Proper(m) /\ Rank(m) = Rank(meta[h]) /\ m.diag = meta[h].diag
      /\ ~meta[h].diag /\ meta[h].bonds # <<>> =>
           BlockShape(m) = Compose(BlockShape(meta[h]), order)
  BY <1>3, <1>4, PermutedFits
<1>6. n \in Nat
  BY <1>2
<1> HIDE DEF m, at, n
<1> QED BY <1>1, <1>4, <1>5, <1>6 DEF order, m, at, n

LEMMA CombineBondsInv ==
  ASSUME DInv, Careful, NEW h \in Handles, NEW labels \in Groups, NEW force,
         CombineBonds(h, labels, force)
  PROVE  DInv'
<1> DEFINE order == Gathered(meta[h], labels)
           m == MetaPermuted(meta[h], order)
           at == IndexOf(m, labels[1])
           n == Len(labels)
           t == TP!Permuted(TP!T(h), order)
           c == MetaCombined(m, at, n)
           p == TP!Plain(Dims(c))
           o == TP!ContiStore(t, TP!S(h))
<1>1. Combinable(h, labels) /\ Describe(h, c)
  BY DEF CombineBonds
<1>2. PICK s \in IF t.conti THEN {t.st} ELSE Stores \ TP!Used :
        TP!Update(h, p, s, o, torn)
  <2>1. \E s \in IF Block!Permuted(Block!T(h), order).conti
                 THEN {Block!Permuted(Block!T(h), order).st} ELSE Stores \ Block!Used :
          Block!Update(h, Block!Plain(Dims(c)), s,
                       Block!ContiStore(Block!Permuted(Block!T(h), order), Block!S(h)), torn)
    BY DEF CombineBonds
  <2> HIDE DEF c, order
  <2>2. /\ Block!Permuted(Block!T(h), order) = t /\ Block!Used = TP!Used
        /\ Block!Plain(Dims(c)) = p
    BY SameParts, SameBlock
  <2>3. Block!ContiStore(t, Block!S(h)) = o
    BY SameStore, SameBlock
  <2> QED BY <2>1, <2>2, <2>3, SameUpdate
<1>3. /\ Usable(h) /\ MayLayOut(h) /\ n \in Nat /\ n > 1 /\ Proper(m) /\ ~m.diag
      /\ at \in 1..Rank(m) /\ at + n - 1 <= Rank(m)
  BY <1>1, CombinableIs
<1>4. Proper(c) /\ BlockShape(c) = Dims(c) /\ Dims(c) \in Seq(Nat)
  BY <1>3, MetaCombinedFits
<1>5. TP!IInv /\ TP!Whole(h) /\ TP!Alone(h)
  BY <1>3, UsableIs, OneOwner
<1>6. /\ TP!T(h) \in TP!MetaRecords /\ TP!T(h).st \in Stores /\ TP!Sized(TP!S(h))
      /\ ref[h] \notin torn
  BY <1>5, Assumed, TP!Wholly DEF TP!Whole
<1> HIDE DEF order, m, at, n, c
<1>7. p \in TP!MetaRecords /\ TP!Laid(p) /\ p.shape = Dims(c)
  BY <1>4, Assumed, TP!PlainLaid, TP!PlainShape
<1>8. TP!Sized(o)
  BY <1>6, Assumed, TP!MovedSized
<1>9. s \in Stores
  <2>1. t.st = TP!T(h).st
    BY <1>6 DEF TP!Permuted, TP!MetaRecords
  <2> HIDE DEF t
  <2> QED BY <1>2, <1>6, <2>1
<1> HIDE DEF t, p, o
<1>10. TP!IInv' /\ TP!Gets(h, p.shape)
  BY <1>2, <1>5, <1>7, <1>8, <1>9, Assumed, TP!UpdateGets
<1> QED BY <1>1, <1>4, <1>7, <1>10, DescribeInv

\* The first leg that combineBond_ refuses is not the first of those to combine.
LEMMA RefusedIs ==
  ASSUME NEW m, NEW at, NEW n \in Nat
  PROVE  Refused(m, at, n) = 0 \/ Refused(m, at, n) \in 2..n
<1> DEFINE others == {k \in 2..n : m.bonds[at + k - 1].type # m.bonds[at].type}
           R == CHOOSE k \in others : \A j \in others : k <= j
<1>1. Refused(m, at, n) = IF others = {} THEN 0 ELSE R
  BY DEF Refused
<1>2. others # {} => R \in others
  <2>1. others \subseteq Nat
    OBVIOUS
  <2> HIDE DEF others
  <2>2. others # {} => \E k \in others : \A j \in others : k <= j
    BY <2>1, LeastNumber
  <2> QED BY <2>2
<1>3. others \subseteq 2..n
  OBVIOUS
<1> HIDE DEF others, R
<1> QED BY <1>1, <1>2, <1>3

LEMMA CombineThrowsInv ==
  ASSUME DInv, Careful, NEW h \in Handles, NEW labels \in Groups, CombineThrows(h, labels)
  PROVE  DInv'
<1> DEFINE order == Gathered(meta[h], labels)
           q == MetaPermuted(meta[h], order)
           m == Updated(q)
           at == IndexOf(m, labels[1])
           k == Refused(m, at, Len(labels))
           x == Prod(SubSeq(Dims(m), at, at + k - 2))
           d == [m EXCEPT !.bonds[at].dim = x]
<1>1. /\ Combinable(h, labels) /\ k # 0 /\ Block!Permute_(h, order)
      /\ meta' = [meta EXCEPT ![h] = d]
      /\ amiss' = IF k > 2 THEN amiss \cup {h} ELSE amiss
  BY DEF CombineThrows
<1>2. /\ Usable(h) /\ ~meta[h].diag /\ MayLayOut(h)
      /\ order \in Perms(Rank(meta[h])) /\ Proper(q) /\ ~q.diag
      /\ IndexOf(q, labels[1]) \in 1..Rank(q) /\ Len(labels) \in Nat
      /\ meta[h].bonds # <<>> => BlockShape(q) = Compose(BlockShape(meta[h]), order)
  BY <1>1, CombinableIs
<1>3. TP!IInv' /\ TP!Gets(h, Compose(BlockShape(meta[h]), order)) /\ meta[h].bonds # <<>>
  BY <1>1, <1>2, BlockPermuted
<1> HIDE DEF order, q
<1>4. Proper(m) /\ BlockShape(m) = BlockShape(q)
  BY <1>2, UpdatedFits
<1>5. at \in 1..Rank(m)
  <2>1. m.labels = q.labels
    BY <1>2 DEF Updated, Proper, Metas
  <2> QED BY <1>2, <2>1 DEF IndexOf, Rank
<1>6. k \in 2..Len(labels)
  BY <1>1, <1>2, RefusedIs
<1>7. amiss \ {h} \subseteq amiss' /\ (h \notin amiss' => k = 2)
  BY <1>1, <1>2, <1>6
<1>8. k = 2 => d = m
  <2> SUFFICES ASSUME k = 2 PROVE d = m
    OBVIOUS
  <2> HIDE DEF m, at, k
  <2>1. at \in Nat /\ at <= Rank(m) /\ Rank(m) \in Nat /\ m.bonds \in [1..Rank(m) -> Legs]
    BY <1>4, <1>5 DEF Proper, Metas, Rank
  <2>2. at + k - 2 = at
    BY <2>1
  <2> DEFINE w == SubSeq(Dims(m), at, at)
  <2>3. w = <<m.bonds[at].dim>> /\ m.bonds[at].dim \in Nat
    <3>1. Dims(m)[at] = m.bonds[at].dim /\ m.bonds[at].dim \in Nat
      BY <1>4, <1>5, ShapeOfDims
    <3>2. w = <<Dims(m)[at]>>
      BY <2>1, <3>1, SingleIs
    <3> QED BY <3>1, <3>2
  <2>4. x = m.bonds[at].dim
    <3> HIDE DEF w
    <3>1. Prod(w) = m.bonds[at].dim
      BY <2>3, ProdShort
    <3> QED BY <2>2, <3>1 DEF w
  <2> HIDE DEF x
  <2>5. m \in Metas /\ m.bonds[at] \in Legs
    BY <1>4, <1>5, <2>1 DEF Proper
  <2> DEFINE b == [m.bonds EXCEPT ![at].dim = x]
  <2>6. b = m.bonds
    <3>1. [m.bonds[at] EXCEPT !.dim = x] = m.bonds[at]
      BY <2>4, <2>5 DEF Legs
    <3>2. b = [m.bonds EXCEPT ![at] = [m.bonds[at] EXCEPT !.dim = x]]
      OBVIOUS
    <3> QED BY <2>1, <3>1, <3>2
  <2>7. d = [m EXCEPT !.bonds = b]
    OBVIOUS
  <2> HIDE DEF b
  <2> QED BY <2>5, <2>6, <2>7 DEF Metas
<1> HIDE DEF m, k, d
<1> QED BY <1>1, <1>2, <1>3, <1>4, <1>7, <1>8, StepInv

-----------------------------------------------------------------------------
(* The legs that are left: contract and Trace_.                            *)

LEMMA ChosenSeq ==
  ASSUME NEW X, NEW Q, NEW s \in [Q -> X], NEW p \in Seq(Q)
  PROVE  /\ Compose(s, p) \in Seq(X) /\ Len(Compose(s, p)) = Len(p)
         /\ DOMAIN Compose(s, p) = 1..Len(p)
         /\ \A j \in 1..Len(p) : p[j] \in Q /\ Compose(s, p)[j] = s[p[j]]
<1> DEFINE n == Len(p)
<1>1. n \in Nat /\ \A j \in 1..n : p[j] \in Q
  OBVIOUS
<1>2. \A j \in 1..n : s[p[j]] \in X
  BY <1>1
<1>3. Compose(s, p) = [j \in 1..n |-> s[p[j]]]
  BY DEF Compose
<1> HIDE DEF n
<1>4. Compose(s, p) \in [1..n -> X]
  BY <1>2, <1>3
<1>5. Compose(s, p) \in Seq(X) /\ Len(Compose(s, p)) = n
  BY <1>1, <1>4
<1> QED BY <1>1, <1>3, <1>5 DEF n

\* The legs of m without those in R.
LEMMA RestFits ==
  ASSUME NEW m, Proper(m), NEW R
  PROVE  LET f == Others(Rank(m), R)
             l == Compose(m.labels, f)
             b == Compose(m.bonds, f)
         IN /\ f \in Seq(1..Rank(m)) /\ Len(f) \in Nat
            /\ l \in Seq(Nat) /\ Len(l) = Len(f) /\ IsInjective(l)
            /\ \A j \in 1..Len(f) : \E i \in (1..Rank(m)) \ R : l[j] = m.labels[i]
            /\ b \in Seq(Legs) /\ Len(b) = Len(f)
            /\ \A j \in 1..Len(f) : (b[j].type # B!BD_REG) = m.tag
            /\ Compose(Dims(m), f) \in Seq(Nat) /\ Len(Compose(Dims(m), f)) = Len(f)
            /\ \A j \in 1..Len(f) : Compose(Dims(m), f)[j] = b[j].dim
<1> DEFINE k == Rank(m)
           Q == 1..k
           f == Others(k, R)
           l == Compose(m.labels, f)
           b == Compose(m.bonds, f)
           d == Compose(Dims(m), f)
           n == Len(f)
<1>1. /\ k \in Nat /\ m.labels \in [1..k -> Nat] /\ m.bonds \in [1..k -> Legs]
      /\ DOMAIN m.labels = 1..k /\ DOMAIN m.bonds = 1..k
  BY DEF Proper, Metas, Rank
<1>2. Dims(m) \in [1..k -> Nat] /\ \A j \in 1..k : Dims(m)[j] = m.bonds[j].dim
  <2>1. Dims(m) \in Seq(Nat) /\ Len(Dims(m)) = k
    BY ShapeOfDims
  <2> QED BY <2>1, ShapeOfDims
<1>3. (\A i, j \in 1..k : m.labels[i] = m.labels[j] => i = j)
  BY <1>1 DEF Proper, IsInjective
<1>4. \A j \in 1..k : (m.bonds[j].type # B!BD_REG) = m.tag
  BY <1>1 DEF Proper
<1> HIDE DEF k
<1>5. f \in Seq(Q) /\ IsInjective(f) /\ Members(f) = Q \ R
  BY <1>1, OthersAre
<1>6. n \in Nat /\ DOMAIN f = 1..n /\ \A j \in 1..n : f[j] \in Q \ R
  BY <1>5 DEF Members
<1>6a. m.labels \in [Q -> Nat] /\ m.bonds \in [Q -> Legs] /\ Dims(m) \in [Q -> Nat]
  BY <1>1, <1>2
<1> HIDE DEF f, Q
<1>6b. ASSUME NEW X, NEW s \in [Q -> X]
       PROVE  LET c == Compose(s, f)
              IN /\ c \in Seq(X) /\ Len(c) = Len(f) /\ DOMAIN c = 1..Len(f)
                 /\ \A j \in 1..Len(f) : f[j] \in Q /\ c[j] = s[f[j]]
  <2>1. f \in Seq(Q)
    BY <1>5
  <2> DEFINE c == Compose(s, f)
  <2>2. s \in [Q -> X]
    OBVIOUS
  <2>3. c \in Seq(X) /\ Len(c) = Len(f) /\ DOMAIN c = 1..Len(f)
    BY <2>1, <2>2, ChosenSeq
  <2>4. \A j \in 1..Len(f) : f[j] \in Q
    BY <2>1
  <2>5. \A j \in 1..Len(f) : c[j] = s[f[j]]
    BY <2>1 DEF Compose
  <2> QED BY <2>3, <2>4, <2>5
<1>7. /\ l \in Seq(Nat) /\ Len(l) = Len(f) /\ DOMAIN l = 1..Len(f)
      /\ \A j \in 1..Len(f) : f[j] \in Q /\ l[j] = m.labels[f[j]]
  BY <1>6a, <1>6b
<1>8. /\ b \in Seq(Legs) /\ Len(b) = Len(f) /\ DOMAIN b = 1..Len(f)
      /\ \A j \in 1..Len(f) : f[j] \in Q /\ b[j] = m.bonds[f[j]]
  BY <1>6a, <1>6b
<1>9. /\ d \in Seq(Nat) /\ Len(d) = Len(f) /\ DOMAIN d = 1..Len(f)
      /\ \A j \in 1..Len(f) : f[j] \in Q /\ d[j] = Dims(m)[f[j]]
  BY <1>6a, <1>6b
<1> HIDE DEF l, b, d, n
<1>10. IsInjective(l)
  <2>1. ASSUME NEW i \in 1..n, NEW j \in 1..n, l[i] = l[j] PROVE i = j
    <3>1. f[i] = f[j]
      BY <1>3, <1>6, <1>7, <2>1 DEF Q, n
    <3> QED BY <1>5, <1>6, <3>1 DEF IsInjective
  <2> QED BY <1>7, <2>1 DEF IsInjective, n
<1>11. \A j \in 1..n : \E i \in (1..k) \ R : l[j] = m.labels[i]
  BY <1>6, <1>7 DEF Q, n
<1>12. ASSUME NEW j \in 1..n PROVE (b[j].type # B!BD_REG) = m.tag
  <2>1. (m.bonds[f[j]].type # B!BD_REG) = m.tag
    BY <1>4, <1>6 DEF Q
  <2>2. b[j] = m.bonds[f[j]]
    BY <1>8 DEF n
  <2> QED BY <2>1, <2>2, Zenon
<1>13. \A j \in 1..n : d[j] = b[j].dim
  BY <1>2, <1>6, <1>8, <1>9 DEF Q, n
<1> QED BY <1>5, <1>6, <1>7, <1>8, <1>9, <1>10, <1>11, <1>12, <1>13
        DEF k, f, l, b, d, n, Q

\* What is left of a rowrank: as many as there are legs on the left that stay.
LEMMA LeftIs ==
  ASSUME NEW m, Proper(m), NEW idx \in Seq(1..Rank(m)), IsInjective(idx)
  PROVE  Left(m, idx) \in 0..Len(Others(Rank(m), Members(idx)))
<1> DEFINE k == Rank(m)
           r == m.rowrank
           I == Members(idx)
           K == {j \in DOMAIN idx : idx[j] <= r}
           L == (1..r) \cap I
           f == [j \in K |-> idx[j]]
<1>1. k \in Nat /\ r \in 0..k /\ r \in Nat
  BY DEF Proper, Metas, Rank
<1>2. DOMAIN idx = 1..Len(idx) /\ Len(idx) \in Nat /\ \A j \in 1..Len(idx) : idx[j] \in 1..k
  <2> DEFINE Q == 1..Rank(m)
  <2>1. idx \in Seq(Q)
    OBVIOUS
  <2> HIDE DEF Q
  <2>2. DOMAIN idx = 1..Len(idx) /\ Len(idx) \in Nat /\ \A j \in 1..Len(idx) : idx[j] \in Q
    BY <2>1
  <2> QED BY <2>2 DEF Q
<1> HIDE DEF k, r
<1>3. IsFiniteSet(1..r) /\ Cardinality(1..r) = r /\ IsFiniteSet(1..k)
  BY <1>1, FS_Interval
<1>4. \A j \in K : f[j] = idx[j] /\ idx[j] \in L
  BY <1>1, <1>2 DEF Members
<1>5. f \in [K -> L]
  BY <1>4
<1>6. \A i, j \in K : f[i] = f[j] => i = j
  BY DEF IsInjective
<1>7. \A x \in L : \E j \in K : f[j] = x
  <2> SUFFICES ASSUME NEW x \in L PROVE \E j \in K : f[j] = x
    OBVIOUS
  <2>1. PICK j \in 1..Len(idx) : idx[j] = x
    BY DEF Members
  <2>2. x <= r
    BY <1>1
  <2>3. j \in K
    BY <1>2, <2>1, <2>2
  <2> QED BY <2>1, <2>3
<1>8. IsFiniteSet(L)
  <2>1. L \in SUBSET (1..r)
    OBVIOUS
  <2> HIDE DEF L
  <2> QED BY <1>3, <2>1, FS_Subset
<1> HIDE DEF f, K
<1>9. Cardinality(K) = Cardinality(L)
  <2> HIDE DEF L
  <2>1. f \in Injection(K, L)
    BY <1>5, <1>6 DEF Injection, IsInjective
  <2>2. f \in Surjection(K, L)
    BY <1>5, <1>7 DEF Surjection
  <2> QED BY <1>8, <2>1, <2>2, FS_Injection
<1>10. Cardinality((1..r) \ I) = r - Cardinality(L) /\ Cardinality((1..r) \ I) \in Nat
  BY <1>3, FS_Difference, FS_CardinalityType
<1>11. Cardinality((1..r) \ I) <= Cardinality((1..k) \ I)
  <2>1. IsFiniteSet((1..k) \ I)
    BY <1>3, FS_Difference
  <2>2. (1..r) \ I \in SUBSET ((1..k) \ I)
    BY <1>1
  <2> QED BY <2>1, <2>2, FS_Subset
<1>12. Cardinality((1..k) \ I) = Len(Others(k, I))
  <2> DEFINE Q == 1..k
             o == Others(k, I)
  <2>1. o \in Seq(Q) /\ IsInjective(o) /\ Members(o) = Q \ I
    BY <1>1, OthersAre
  <2> HIDE DEF Q, o
  <2>2. Cardinality(Members(o)) = Len(o)
    BY <2>1, MembersCount, Zenon
  <2> QED BY <2>1, <2>2 DEF o, Q
<1>13. Left(m, idx) = r - Cardinality(K)
  BY DEF Left, r, K
<1>14. Len(Others(k, I)) \in Nat
  BY <1>3, <1>12, FS_Difference, FS_CardinalityType
<1> HIDE DEF I, L
<1> QED BY <1>1, <1>9, <1>10, <1>11, <1>12, <1>13, <1>14 DEF k, I

\* The labels in common, each once.
LEMMA CommonIs ==
  ASSUME NEW m, Proper(m), NEW n, Proper(n)
  PROVE  /\ Common(m, n) \in Seq(Nat) /\ IsInjective(Common(m, n))
         /\ Members(Common(m, n)) = Range(m.labels) \cap Range(n.labels)
<1> DEFINE S == Range(m.labels) \cap Range(n.labels)
           c == Cardinality(S)
           P(l, j) == l \in S /\ Below(S, l) = j - 1
           s == Common(m, n)
           L == m.labels
<1>1. S \in SUBSET Int /\ S \subseteq Nat /\ IsFiniteSet(S)
  <2>1. L \in Seq(Nat) /\ IsInjective(L)
    BY DEF Proper, Metas
  <2> HIDE DEF L
  <2>2. Range(L) = Members(L)
    BY <2>1 DEF Range, Members
  <2>3. IsFiniteSet(Members(L))
    BY <2>1, MembersCount, Zenon
  <2>4. Members(L) \subseteq Nat
    BY <2>1 DEF Members
  <2>5. S \in SUBSET Range(L)
    BY DEF L
  <2> HIDE DEF S
  <2> QED BY <2>2, <2>3, <2>4, <2>5, FS_Subset
<1>2. s = [j \in 1..c |-> CHOOSE l \in S : Below(S, l) = j - 1]
  BY DEF Common, Below
<1> HIDE DEF S
<1>3. /\ c \in Nat
      /\ \A a \in S : Below(S, a) \in 0..(c - 1)
      /\ \A a, b \in S : Below(S, a) = Below(S, b) => a = b
      /\ \A k \in 0..(c - 1) : \E a \in S : Below(S, a) = k
  BY <1>1, BelowIs
<1> HIDE DEF c, s
<1>4. \A j \in 1..c : s[j] \in S /\ Below(S, s[j]) = j - 1
  <2> TAKE j \in 1..c
  <2>1. j - 1 \in 0..(c - 1)
    BY <1>3
  <2>2. \E l \in S : Below(S, l) = j - 1
    BY <1>3, <2>1
  <2>3. s[j] = CHOOSE l \in S : Below(S, l) = j - 1
    BY <1>2
  <2> QED BY <2>2, <2>3
<1>5. s \in [1..c -> Nat] /\ DOMAIN s = 1..c
  <2>1. \A j \in 1..c : s[j] \in Nat
    BY <1>1, <1>4
  <2>2. s = [j \in 1..c |-> s[j]]
    BY <1>2
  <2> QED BY <2>1, <2>2
<1>6. s \in Seq(Nat) /\ Len(s) = c
  BY <1>3, <1>5
<1>7. IsInjective(s)
  <2>1. ASSUME NEW i \in 1..c, NEW j \in 1..c, s[i] = s[j] PROVE i = j
    <3>1. i - 1 = j - 1
      BY <1>4, <2>1
    <3> QED BY <1>3, <3>1
  <2> QED BY <1>5, <2>1 DEF IsInjective
<1>8. Members(s) = S
  <2>1. ASSUME NEW a \in S PROVE \E j \in 1..c : s[j] = a
    <3>1. Below(S, a) + 1 \in 1..c /\ Below(S, a) \in Int
      BY <1>3
    <3>2. Below(S, s[Below(S, a) + 1]) = Below(S, a)
      BY <1>4, <3>1
    <3>3. s[Below(S, a) + 1] = a
      BY <1>3, <1>4, <3>1, <3>2
    <3> QED BY <3>1, <3>3
  <2> QED BY <1>4, <1>6, <2>1 DEF Members
<1> QED BY <1>6, <1>7, <1>8 DEF s, S

\* Where the labels of a list are.
LEMMA IndicesAre ==
  ASSUME NEW m, Proper(m), NEW c \in Seq(Nat), IsInjective(c),
         Members(c) \subseteq Range(m.labels)
  PROVE  LET i == Indices(m, c)
         IN /\ i \in Seq(1..Rank(m)) /\ Len(i) = Len(c) /\ IsInjective(i)
            /\ Range(i) = Members(i)
            /\ \A j \in 1..Len(c) : i[j] = IndexOf(m, c[j]) /\ m.labels[i[j]] = c[j]
            /\ \A a \in 1..Rank(m) : a \in Members(i) <=> m.labels[a] \in Members(c)
<1> DEFINE k == Rank(m)
           Q == 1..k
           i == Indices(m, c)
           n == Len(c)
<1>1. /\ k \in Nat /\ m.labels \in Seq(Nat) /\ DOMAIN m.labels = Q
      /\ \A a, b \in Q : m.labels[a] = m.labels[b] => a = b
  BY DEF Proper, Metas, Rank, IsInjective
<1>2. n \in Nat /\ DOMAIN c = 1..n
  OBVIOUS
<1>3. i = [j \in 1..n |-> IndexOf(m, c[j])]
  BY <1>2 DEF Indices
<1>4. \A j \in 1..n : IndexOf(m, c[j]) \in Q /\ m.labels[IndexOf(m, c[j])] = c[j]
  <2> TAKE j \in 1..n
  <2>1. c[j] \in Range(m.labels)
    BY DEF Members
  <2> QED BY <1>1, <2>1, IndexIs DEF k
<1> HIDE DEF i, n, Q
<1>5. DOMAIN i = 1..n /\ \A j \in 1..n : i[j] \in Q /\ i[j] = IndexOf(m, c[j]) /\ m.labels[i[j]] = c[j]
  BY <1>3, <1>4
<1>6. i \in [1..n -> Q]
  BY <1>3, <1>4
<1>7. i \in Seq(Q) /\ Len(i) = n
  BY <1>2, <1>6
<1>8. IsInjective(i)
  <2>1. ASSUME NEW a \in 1..n, NEW b \in 1..n, i[a] = i[b] PROVE a = b
    <3>1. c[a] = c[b]
      BY <1>5, <2>1
    <3> QED BY <1>2, <3>1 DEF IsInjective
  <2> QED BY <1>5, <2>1 DEF IsInjective
<1>9. Range(i) = Members(i)
  BY <1>5, <1>7 DEF Range, Members
<1>10. ASSUME NEW a \in Q PROVE a \in Members(i) <=> m.labels[a] \in Members(c)
  <2>1. ASSUME a \in Members(i) PROVE m.labels[a] \in Members(c)
    <3>1. PICK j \in 1..n : i[j] = a
      BY <1>7, <2>1 DEF Members
    <3> QED BY <1>5, <3>1 DEF Members, n
  <2>2. ASSUME m.labels[a] \in Members(c) PROVE a \in Members(i)
    <3>1. PICK j \in 1..n : c[j] = m.labels[a]
      BY <2>2 DEF Members, n
    <3>2. i[j] = a
      BY <1>1, <1>5, <3>1
    <3> QED BY <1>7, <3>2 DEF Members
  <2> QED BY <2>1, <2>2
<1> QED BY <1>5, <1>7, <1>8, <1>9, <1>10 DEF k, Q, i, n

\* The legs that contract and Trace_ leave of m.
LEMMA KeptFits ==
  ASSUME NEW m, Proper(m), NEW n, Proper(n)
  PROVE  LET im == Indices(m, Common(m, n))
         IN /\ im \in Seq(1..Rank(m)) /\ Len(im) = Len(Common(m, n)) /\ IsInjective(im)
            /\ Range(im) = Members(im)
            /\ \A j \in 1..Len(im) : im[j] = IndexOf(m, Common(m, n)[j])
            /\ Left(m, im) \in 0..Len(Others(Rank(m), Range(im)))
            /\ \A a \in 1..Rank(m) : a \in Range(im) <=> m.labels[a] \in Range(n.labels)
<1> DEFINE c == Common(m, n)
           im == Indices(m, c)
<1>1. /\ c \in Seq(Nat) /\ IsInjective(c)
      /\ Members(c) = Range(m.labels) \cap Range(n.labels)
  BY CommonIs
<1> HIDE DEF c
<1>2. Members(c) \subseteq Range(m.labels)
  BY <1>1
<1>3. /\ im \in Seq(1..Rank(m)) /\ Len(im) = Len(c) /\ IsInjective(im)
      /\ Range(im) = Members(im)
      /\ \A j \in 1..Len(c) : im[j] = IndexOf(m, c[j]) /\ m.labels[im[j]] = c[j]
      /\ \A a \in 1..Rank(m) : a \in Members(im) <=> m.labels[a] \in Members(c)
  BY <1>1, <1>2, IndicesAre
<1> HIDE DEF im
<1>4. Left(m, im) \in 0..Len(Others(Rank(m), Members(im)))
  BY <1>3, LeftIs
<1>5. \A a \in 1..Rank(m) : m.labels[a] \in Range(m.labels)
  <2>1. DOMAIN m.labels = 1..Rank(m)
    BY DEF Proper, Metas, Rank
  <2> QED BY <2>1 DEF Range
<1> QED BY <1>1, <1>3, <1>4, <1>5 DEF c, im

LEMMA CommonSame == ASSUME NEW m, NEW n PROVE Common(m, n) = Common(n, m)
<1>1. Range(m.labels) \cap Range(n.labels) = Range(n.labels) \cap Range(m.labels)
  OBVIOUS
<1> DEFINE S == Range(m.labels) \cap Range(n.labels)
           T == Range(n.labels) \cap Range(m.labels)
           W(U) == [k \in 1..Cardinality(U) |->
                      CHOOSE l \in U : Cardinality({x \in U : x < l}) = k - 1]
<1>2. Common(m, n) = W(S) /\ Common(n, m) = W(T)
  BY DEF Common
<1>3. S = T
  BY <1>1
<1> HIDE DEF S, T, W
<1> QED BY <1>2, <1>3

\* As many legs are left as are not contracted.
LEMMA OthersCount ==
  ASSUME NEW k \in Nat, NEW idx \in Seq(1..k), IsInjective(idx)
  PROVE  Len(Others(k, Members(idx))) = k - Len(idx)
<1> DEFINE Q == 1..k
           I == Members(idx)
           o == Others(k, I)
<1>1. o \in Seq(Q) /\ IsInjective(o) /\ Members(o) = Q \ I
  BY OthersAre
<1>2. IsFiniteSet(Q) /\ Cardinality(Q) = k
  BY FS_Interval
<1> HIDE DEF Q, o
<1>3. Cardinality(Q \ I) = Len(o)
  BY <1>1, MembersCount
<1>4. Cardinality(I) = Len(idx) /\ I \subseteq Q
  <2>1. idx \in Seq(Q)
    BY DEF Q
  <2>2. Cardinality(I) = Len(idx)
    BY <2>1, MembersCount
  <2>3. \A j \in 1..Len(idx) : idx[j] \in Q
    BY <2>1
  <2>4. I \subseteq Q
    BY <2>3 DEF Members
  <2> QED BY <2>2, <2>4
<1> HIDE DEF I
<1>5. Q \cap I = I
  BY <1>4
<1>6. Cardinality(Q \ I) = Cardinality(Q) - Cardinality(Q \cap I)
  BY <1>2, FS_Difference
<1> QED BY <1>2, <1>3, <1>4, <1>5, <1>6 DEF o, I

\* Labels in common are those of legs of one dimension.
Matching(m, n) ==
  /\ m.tag = n.tag
  /\ \A l \in Range(Common(m, n)) :
       m.bonds[IndexOf(m, l)].dim = n.bonds[IndexOf(n, l)].dim

\* Of two diagonals contract does not check that.
LEMMA MatchingIs ==
  ASSUME NEW m, Proper(m), NEW n, Proper(n), Contractible(m, n),
         m.diag => m.bonds # <<>>, n.diag => n.bonds # <<>>,
         m.diag /\ n.diag /\ Common(m, n) # <<>> => m.bonds[1].dim = n.bonds[1].dim
  PROVE  Matching(m, n)
<1> DEFINE c == Common(m, n)
<1>1. /\ c \in Seq(Nat) /\ Members(c) = Range(m.labels) \cap Range(n.labels)
      /\ Range(c) = Members(c)
  <2>1. c \in Seq(Nat) /\ Members(c) = Range(m.labels) \cap Range(n.labels)
    BY CommonIs
  <2> HIDE DEF c
  <2>2. DOMAIN c = 1..Len(c)
    BY <2>1
  <2>3. Range(c) = Members(c)
    BY <2>2, Zenon DEF Range, Members
  <2> QED BY <2>1, <2>3
<1>2. m.tag = n.tag
  BY DEF Contractible
<1>3. \/ \A l \in Range(c) : m.bonds[IndexOf(m, l)].dim = n.bonds[IndexOf(n, l)].dim
      \/ m.diag /\ n.diag
  BY DEF Contractible
<1>4. ASSUME m.diag, n.diag, NEW l \in Range(c)
      PROVE  m.bonds[IndexOf(m, l)].dim = n.bonds[IndexOf(n, l)].dim
  <2>1. c # <<>>
    <3> HIDE DEF c
    <3> QED BY <1>4 DEF Range
  <2>2. m.bonds[1].dim = n.bonds[1].dim
    BY <1>4, <2>1
  <2>3. /\ Rank(m) = 2 /\ m.bonds[2].dim = m.bonds[1].dim /\ m.labels \in Seq(Nat)
        /\ Rank(n) = 2 /\ n.bonds[2].dim = n.bonds[1].dim /\ n.labels \in Seq(Nat)
    BY <1>4 DEF Proper, Metas, Rank
  <2>4. l \in Range(m.labels) /\ l \in Range(n.labels)
    BY <1>1, <1>4
  <2>5. IndexOf(m, l) \in 1..2 /\ IndexOf(n, l) \in 1..2
    BY <2>3, <2>4, IndexIs
  <2> QED BY <2>2, <2>3, <2>5
<1> QED BY <1>2, <1>3, <1>4 DEF Matching

\* The contraction of two diagonals over one leg has two legs of their dimension.
LEMMA DiagonalLeft ==
  ASSUME NEW m, Proper(m), NEW n, Proper(n), Matching(m, n),
         m.diag, n.diag, m.bonds # <<>>, n.bonds # <<>>, Common(m, n) # <<>>
  PROVE  LET c  == Common(m, n)
             fm == Others(Rank(m), Range(Indices(m, c)))
             fn == Others(Rank(n), Range(Indices(n, c)))
             b  == Compose(m.bonds, fm) \o Compose(n.bonds, fn)
         IN b # <<>> => /\ Len(b) = 2 /\ b[1].dim = b[2].dim
                        /\ b[1].dim = m.bonds[1].dim
<1> DEFINE c == Common(m, n)
           im == Indices(m, c)
           in == Indices(n, c)
           fm == Others(Rank(m), Range(im))
           fn == Others(Rank(n), Range(in))
           u == Compose(m.bonds, fm)
           v == Compose(n.bonds, fn)
           b == u \o v
           k == Len(c)
<1>1. /\ Rank(m) = 2 /\ Rank(n) = 2
      /\ \A j \in 1..2 : m.bonds[j].dim = m.bonds[1].dim
      /\ \A j \in 1..2 : n.bonds[j].dim = n.bonds[1].dim
  <2>1. /\ Rank(m) = 2 /\ m.bonds[2].dim = m.bonds[1].dim
        /\ Rank(n) = 2 /\ n.bonds[2].dim = n.bonds[1].dim
    BY DEF Proper, Rank
  <2> QED BY <2>1
<1>2. c \in Seq(Nat) /\ k \in Nat /\ k # 0
  <2>1. c \in Seq(Nat)
    BY CommonIs
  <2> QED BY <2>1
<1>3. /\ im \in Seq(1..Rank(m)) /\ IsInjective(im) /\ Range(im) = Members(im) /\ Len(im) = k
      /\ \A j \in 1..Len(im) : im[j] = IndexOf(m, c[j])
  BY KeptFits
<1>4. /\ in \in Seq(1..Rank(n)) /\ IsInjective(in) /\ Range(in) = Members(in) /\ Len(in) = k
      /\ \A j \in 1..Len(in) : in[j] = IndexOf(n, c[j])
  <2>1. c = Common(n, m)
    BY CommonSame
  <2> HIDE DEF c
  <2> QED BY <2>1, KeptFits
<1>5. m.bonds[1].dim = n.bonds[1].dim
  <2>1. c[1] \in Range(c)
    BY <1>2 DEF Range
  <2>2. m.bonds[IndexOf(m, c[1])].dim = n.bonds[IndexOf(n, c[1])].dim
    BY <2>1 DEF Matching
  <2> HIDE DEF c, im, in
  <2>3. im[1] \in 1..2 /\ in[1] \in 1..2 /\ im[1] = IndexOf(m, c[1]) /\ in[1] = IndexOf(n, c[1])
    BY <1>1, <1>2, <1>3, <1>4
  <2> QED BY <1>1, <2>2, <2>3
<1> HIDE DEF c, im, in
<1>6. Len(fm) = 2 - k /\ Len(fn) = 2 - k
  <2>1. Len(Others(2, Members(im))) = 2 - Len(im)
    BY <1>1, <1>3, OthersCount
  <2>2. Len(Others(2, Members(in))) = 2 - Len(in)
    BY <1>1, <1>4, OthersCount
  <2> QED BY <1>1, <1>3, <1>4, <2>1, <2>2
<1>7. /\ fm \in Seq(1..2) /\ Len(fm) \in Nat /\ u \in Seq(Legs) /\ Len(u) = Len(fm)
  <2> DEFINE R == Range(im)
  <2> HIDE DEF R
  <2>1. /\ Others(Rank(m), R) \in Seq(1..Rank(m)) /\ Len(Others(Rank(m), R)) \in Nat
        /\ Compose(m.bonds, Others(Rank(m), R)) \in Seq(Legs)
        /\ Len(Compose(m.bonds, Others(Rank(m), R))) = Len(Others(Rank(m), R))
    BY RestFits
  <2> QED BY <1>1, <2>1 DEF R
<1>8. /\ fn \in Seq(1..2) /\ Len(fn) \in Nat /\ v \in Seq(Legs) /\ Len(v) = Len(fn)
  <2> DEFINE R == Range(in)
  <2> HIDE DEF R
  <2>1. /\ Others(Rank(n), R) \in Seq(1..Rank(n)) /\ Len(Others(Rank(n), R)) \in Nat
        /\ Compose(n.bonds, Others(Rank(n), R)) \in Seq(Legs)
        /\ Len(Compose(n.bonds, Others(Rank(n), R))) = Len(Others(Rank(n), R))
    BY RestFits
  <2> QED BY <1>1, <2>1 DEF R
<1>9. \A j \in 1..Len(fm) : u[j] = m.bonds[fm[j]] /\ fm[j] \in 1..2
  BY <1>7 DEF Compose
<1>10. \A j \in 1..Len(fn) : v[j] = n.bonds[fn[j]] /\ fn[j] \in 1..2
  BY <1>8 DEF Compose
<1> HIDE DEF fm, fn, u, v
<1>11. /\ b \in Seq(Legs) /\ Len(b) = Len(u) + Len(v)
       /\ \A j \in 1..(Len(u) + Len(v)) : b[j] = IF j <= Len(u) THEN u[j] ELSE v[j - Len(u)]
  BY <1>7, <1>8, ConcatProperties
<1> HIDE DEF b
<1>12. ASSUME b # <<>>
       PROVE  /\ Len(b) = 2 /\ b[1].dim = b[2].dim
              /\ b[1].dim = m.bonds[1].dim
  <2>1. Len(b) # 0
    BY <1>11, <1>12
  <2>2. Len(u) = 1 /\ Len(v) = 1
    BY <1>2, <1>6, <1>7, <1>8, <1>11, <2>1
  <2>3. b[1] = u[1] /\ b[2] = v[1]
    BY <1>11, <2>2
  <2>4. u[1].dim = m.bonds[1].dim /\ v[1].dim = n.bonds[1].dim
    BY <1>1, <1>7, <1>8, <1>9, <1>10, <2>2
  <2> QED BY <1>5, <1>11, <2>2, <2>3, <2>4
<1> QED BY <1>12 DEF b, u, v, fm, fn, im, in, c

\* The labels and bonds of a contraction fit one another.
LEMMA MetaContractedFits ==
  ASSUME NEW m, Proper(m), NEW n, Proper(n), Matching(m, n),
         m.diag => m.bonds # <<>>, n.diag => n.bonds # <<>>
  PROVE  LET c  == Common(m, n)
             fm == Others(Rank(m), Range(Indices(m, c)))
             fn == Others(Rank(n), Range(Indices(n, c)))
             r  == MetaContracted(m, n)
         IN /\ Proper(r)
            /\ Dims(r) = Compose(Dims(m), fm) \o Compose(Dims(n), fn)
            /\ r.diag = (m.diag /\ n.diag /\ c # <<>>)
            /\ r.bonds = <<>> <=> Compose(Dims(m), fm) \o Compose(Dims(n), fn) = <<>>
            /\ r.diag /\ r.bonds # <<>> => r.bonds[1].dim = m.bonds[1].dim
<1> DEFINE c == Common(m, n)
           im == Indices(m, c)
           in == Indices(n, c)
           fm == Others(Rank(m), Range(im))
           fn == Others(Rank(n), Range(in))
           lm == Compose(m.labels, fm)
           ln == Compose(n.labels, fn)
           bm == Compose(m.bonds, fm)
           bn == Compose(n.bonds, fn)
           dm == Compose(Dims(m), fm)
           dn == Compose(Dims(n), fn)
           l == lm \o ln
           b == bm \o bn
           d == dm \o dn
           g == m.diag /\ n.diag /\ im # <<>>
           k == Len(fm) + Len(fn)
           r == [labels |-> l, bonds |-> b, rowrank |-> Left(m, im) + Left(n, in),
                 diag |-> g, tag |-> m.tag, braket |-> FALSE]
<1>1. MetaContracted(m, n) = Updated(r)
  BY DEF MetaContracted
<1>2. /\ Len(im) = Len(c) /\ Left(m, im) \in 0..Len(fm) /\ im \in Seq(1..Rank(m))
      /\ \A a \in 1..Rank(m) : a \in Range(im) <=> m.labels[a] \in Range(n.labels)
  BY KeptFits
<1>3. /\ Len(in) = Len(c) /\ Left(n, in) \in 0..Len(fn)
      /\ \A a \in 1..Rank(n) : a \in Range(in) <=> n.labels[a] \in Range(m.labels)
  <2>1. c = Common(n, m)
    BY CommonSame
  <2> HIDE DEF c
  <2> QED BY <2>1, KeptFits
<1>4. g = (m.diag /\ n.diag /\ c # <<>>)
  <2>1. c \in Seq(Nat)
    BY CommonIs
  <2> HIDE DEF c, im
  <2>2. im # <<>> <=> c # <<>>
    BY <1>2, <2>1
  <2> QED BY <2>2
<1>5. b # <<>> /\ g => /\ Len(b) = 2 /\ b[1].dim = b[2].dim
                        /\ b[1].dim = m.bonds[1].dim
  <2> SUFFICES ASSUME g, b # <<>>
               PROVE  Len(b) = 2 /\ b[1].dim = b[2].dim /\ b[1].dim = m.bonds[1].dim
    OBVIOUS
  <2>1. c # <<>>
    BY <1>4
  <2>2. m.diag /\ n.diag
    OBVIOUS
  <2> QED BY <2>1, <2>2, DiagonalLeft
<1> DEFINE RM == Range(im)
           RN == Range(in)
<1> HIDE DEF c, im, in, RM, RN
<1>6. /\ fm \in Seq(1..Rank(m)) /\ Len(fm) \in Nat
      /\ lm \in Seq(Nat) /\ Len(lm) = Len(fm) /\ IsInjective(lm)
      /\ \A j \in 1..Len(fm) : \E i \in (1..Rank(m)) \ RM : lm[j] = m.labels[i]
      /\ bm \in Seq(Legs) /\ Len(bm) = Len(fm)
      /\ \A j \in 1..Len(fm) : (bm[j].type # B!BD_REG) = m.tag
      /\ dm \in Seq(Nat) /\ Len(dm) = Len(fm)
      /\ \A j \in 1..Len(fm) : dm[j] = bm[j].dim
  BY RestFits DEF RM
<1>7. /\ fn \in Seq(1..Rank(n)) /\ Len(fn) \in Nat
      /\ ln \in Seq(Nat) /\ Len(ln) = Len(fn) /\ IsInjective(ln)
      /\ \A j \in 1..Len(fn) : \E i \in (1..Rank(n)) \ RN : ln[j] = n.labels[i]
      /\ bn \in Seq(Legs) /\ Len(bn) = Len(fn)
      /\ \A j \in 1..Len(fn) : (bn[j].type # B!BD_REG) = n.tag
      /\ dn \in Seq(Nat) /\ Len(dn) = Len(fn)
      /\ \A j \in 1..Len(fn) : dn[j] = bn[j].dim
  BY RestFits DEF RN
<1>8. /\ DOMAIN m.labels = 1..Rank(m) /\ DOMAIN n.labels = 1..Rank(n)
      /\ m.tag \in BOOLEAN /\ n.tag \in BOOLEAN /\ m.tag = n.tag
      /\ m.diag \in BOOLEAN /\ n.diag \in BOOLEAN
  BY DEF Proper, Metas, Rank, Matching
<1> HIDE DEF fm, fn, lm, ln, bm, bn, dm, dn, g
<1>9. Members(lm) \cap Members(ln) = {}
  <2> SUFFICES ASSUME NEW x \in Members(lm), x \in Members(ln) PROVE FALSE
    OBVIOUS
  <2>1. PICK i \in (1..Rank(m)) \ RM : x = m.labels[i]
    <3>1. PICK a \in 1..Len(lm) : x = lm[a]
      BY DEF Members
    <3>2. a \in 1..Len(fm)
      BY <1>6
    <3> QED BY <1>6, <3>1, <3>2
  <2>2. PICK j \in (1..Rank(n)) \ RN : x = n.labels[j]
    <3>1. PICK a \in 1..Len(ln) : x = ln[a]
      BY DEF Members
    <3>2. a \in 1..Len(fn)
      BY <1>7
    <3> QED BY <1>7, <3>1, <3>2
  <2>3. x \in Range(n.labels)
    BY <1>8, <2>2 DEF Range
  <2> QED BY <1>2, <2>1, <2>3 DEF RM
<1>10. l \in Seq(Nat) /\ Len(l) = k /\ IsInjective(l)
  <2>1. /\ lm \o ln \in Seq(Nat) /\ Len(lm \o ln) = Len(lm) + Len(ln)
        /\ IsInjective(lm \o ln)
    <3>1. lm \in Seq(Nat) /\ ln \in Seq(Nat) /\ IsInjective(lm) /\ IsInjective(ln)
      BY <1>6, <1>7
    <3> QED BY <1>9, <3>1, ConcatMembers
  <2> QED BY <1>6, <1>7, <2>1
<1>11. /\ b \in Seq(Legs) /\ Len(b) = k
       /\ \A j \in 1..k : b[j] = IF j <= Len(fm) THEN bm[j] ELSE bn[j - Len(fm)]
  <2>1. /\ bm \o bn \in Seq(Legs) /\ Len(bm \o bn) = Len(bm) + Len(bn)
        /\ \A j \in 1..(Len(bm) + Len(bn)) :
             (bm \o bn)[j] = IF j <= Len(bm) THEN bm[j] ELSE bn[j - Len(bm)]
    <3>1. bm \in Seq(Legs) /\ bn \in Seq(Legs)
      BY <1>6, <1>7
    <3> QED BY <3>1, ConcatProperties
  <2> QED BY <1>6, <1>7, <2>1
<1>12. /\ d \in Seq(Nat) /\ Len(d) = k
       /\ \A j \in 1..k : d[j] = IF j <= Len(fm) THEN dm[j] ELSE dn[j - Len(fm)]
  <2>1. /\ dm \o dn \in Seq(Nat) /\ Len(dm \o dn) = Len(dm) + Len(dn)
        /\ \A j \in 1..(Len(dm) + Len(dn)) :
             (dm \o dn)[j] = IF j <= Len(dm) THEN dm[j] ELSE dn[j - Len(dm)]
    <3>1. dm \in Seq(Nat) /\ dn \in Seq(Nat)
      BY <1>6, <1>7
    <3> QED BY <3>1, ConcatProperties
  <2> QED BY <1>6, <1>7, <2>1
<1>13. Left(m, im) + Left(n, in) \in 0..k /\ Left(m, im) + Left(n, in) \in Nat
       /\ k \in Nat
  <2> DEFINE x == Left(m, im)
             y == Left(n, in)
  <2>1. x \in 0..Len(fm) /\ y \in 0..Len(fn)
    BY <1>2, <1>3 DEF fm, fn
  <2> HIDE DEF x, y
  <2>2. x + y \in 0..k /\ x + y \in Nat /\ k \in Nat
    BY <1>6, <1>7, <2>1
  <2> QED BY <2>2 DEF x, y
<1> HIDE DEF l, b, d
<1>14. ASSUME NEW j \in 1..k
       PROVE  (b[j].type # B!BD_REG) = m.tag /\ d[j] = b[j].dim
  <2>1. CASE j <= Len(fm)
    <3>1. j \in 1..Len(fm) /\ b[j] = bm[j] /\ d[j] = dm[j]
      BY <1>6, <1>11, <1>12, <1>13, <2>1
    <3>2. (bm[j].type # B!BD_REG) = m.tag /\ dm[j] = bm[j].dim
      BY <1>6, <3>1, Zenon
    <3> QED BY <3>1, <3>2, Zenon
  <2>2. CASE ~(j <= Len(fm))
    <3> DEFINE i == j - Len(fm)
    <3>1. i \in 1..Len(fn) /\ b[j] = bn[i] /\ d[j] = dn[i]
      BY <1>6, <1>7, <1>11, <1>12, <1>13, <2>2
    <3> HIDE DEF i
    <3>2. (bn[i].type # B!BD_REG) = n.tag /\ dn[i] = bn[i].dim
      BY <1>7, <3>1, Zenon
    <3> QED BY <1>8, <3>1, <3>2, Zenon
  <2> QED BY <2>1, <2>2
<1>15. /\ r \in Metas /\ r.labels = l /\ r.bonds = b /\ r.diag = g /\ r.tag = m.tag
       /\ r.rowrank = Left(m, im) + Left(n, in)
  <2>1. g \in BOOLEAN
    BY DEF g
  <2> HIDE DEF k
  <2> DEFINE x == Left(m, im) + Left(n, in)
  <2>2. x \in Nat
    BY <1>13
  <2> HIDE DEF x
  <2>3. [labels |-> l, bonds |-> b, rowrank |-> x, diag |-> g, tag |-> m.tag,
         braket |-> FALSE] \in Metas
    BY <1>8, <1>10, <1>11, <2>1, <2>2 DEF Metas
  <2> QED BY <2>3 DEF x
<1> HIDE DEF r
<1>16. \A j \in DOMAIN r.bonds : (r.bonds[j].type # B!BD_REG) = r.tag
  <2>1. DOMAIN r.bonds = 1..k
    BY <1>11, <1>15
  <2>2. \A j \in 1..k : (b[j].type # B!BD_REG) = m.tag
    BY <1>14
  <2> QED BY <1>15, <2>1, <2>2, Zenon
<1>17. r.diag /\ r.bonds # <<>> => /\ Len(r.bonds) = 2 /\ r.bonds[1].dim = r.bonds[2].dim
                                   /\ r.bonds[1].dim = m.bonds[1].dim
  BY <1>5, <1>15 DEF b, bm, bn, fm, fn
<1>18. Proper(r)
  BY <1>10, <1>11, <1>13, <1>15, <1>16, <1>17 DEF Proper, Rank
<1>19. Dims(r) = d
  <2>1. Dims(r) \in Seq(Nat) /\ Len(Dims(r)) = k /\ \A j \in 1..k : Dims(r)[j] = b[j].dim
    <3>1. Rank(r) = k
      BY <1>10, <1>15 DEF Rank
    <3> QED BY <1>15, <1>18, <3>1, ShapeOfDims
  <2> HIDE DEF k
  <2>2. \A j \in 1..k : Dims(r)[j] = d[j]
    BY <1>14, <2>1 DEF k
  <2> QED BY <1>12, <2>1, <2>2, SeqEqual
<1>20. r.bonds = <<>> <=> d = <<>>
  BY <1>11, <1>12, <1>13, <1>15
<1> DEFINE w == Updated(r)
<1>21. Proper(w) /\ w.bonds = r.bonds /\ w.diag = r.diag /\ Dims(w) = Dims(r)
  <2>1. Proper(w)
    BY <1>18, UpdatedFits
  <2>2. w.bonds = r.bonds /\ w.diag = r.diag
    BY <1>15 DEF Updated, Metas
  <2> QED BY <2>1, <2>2 DEF Dims
<1> HIDE DEF w
<1>22. MetaContracted(m, n) = w
  BY <1>1 DEF r, w, l, b, g, k, lm, ln, bm, bn, fm, fn
<1> QED BY <1>4, <1>15, <1>17, <1>19, <1>20, <1>21, <1>22
        DEF d, dm, dn, fm, fn, im, in, c

-----------------------------------------------------------------------------
(* The blocks of contract.                                                 *)

\* A list given by a function on 1..n.
LEMMA LengthIs ==
  ASSUME NEW s, NEW n \in Nat, s = [j \in 1..n |-> s[j]]
  PROVE  Len(s) = n
OBVIOUS

LEMMA MatmulIs ==
  ASSUME NEW l, NEW r, l.shape[1] * r.shape[2] \in Nat
  PROVE  Len(Matmul(l, r).data) = l.shape[1] * r.shape[2]
<1> DEFINE x == Matmul(l, r).data
           n == l.shape[1] * r.shape[2]
<1>1. x = [j \in 1..n |-> x[j]]
  BY Zenon DEF Matmul
<1>2. n \in Nat
  OBVIOUS
<1> HIDE DEF x, n
<1>3. Len(x) = n
  BY <1>1, <1>2, LengthIs
<1> QED BY <1>3 DEF x, n

\* The shape and the number of elements of a contraction over the axes il and ir.
LEMMA TensordotIs ==
  ASSUME NEW l, NEW r, NEW il, NEW ir,
         l.shape \in Seq(Nat), r.shape \in Seq(Nat),
         Compose(l.shape, Others(Len(l.shape), ToSet(il))) \in Seq(Nat),
         Compose(r.shape, Others(Len(r.shape), ToSet(ir))) \in Seq(Nat)
  PROVE  LET w == Compose(l.shape, Others(Len(l.shape), ToSet(il)))
                    \o Compose(r.shape, Others(Len(r.shape), ToSet(ir)))
             x == Tensordot(l, r, il, ir)
         IN /\ x.shape = IF w = <<>> THEN <<1>> ELSE w
            /\ x.shape \in Seq(Nat) /\ Len(x.data) \in Nat
<1> DEFINE common == Prod(Compose(l.shape, il))
           a == Compose(l.shape, Others(Len(l.shape), ToSet(il)))
           b == Compose(r.shape, Others(Len(r.shape), ToSet(ir)))
           p == Reshaped(Permuted(l, LeftOrder(l, il)), <<Prod(a), common>>)
           q == Reshaped(Permuted(r, RightOrder(r, ir)), <<common, Prod(b)>>)
           w == a \o b
           y == Matmul(p, q)
           x == Tensordot(l, r, il, ir)
<1>1. x = [y EXCEPT !.shape = IF w = <<>> THEN <<1>> ELSE w]
  BY DEF Tensordot, Reshaped
<1>2. a \in Seq(Nat) /\ b \in Seq(Nat) /\ Prod(a) \in Nat /\ Prod(b) \in Nat
  BY ProdNat
<1>3. w \in Seq(Nat)
  <2> HIDE DEF a, b
  <2> QED BY <1>2
<1>4. p.shape = <<Prod(a), common>> /\ q.shape = <<common, Prod(b)>>
  BY DEF Reshaped, Permuted
<1> HIDE DEF a, b, common, p, q
<1>5. Prod(a) * Prod(b) \in Nat
  BY <1>2
<1>6. p.shape[1] = Prod(a) /\ q.shape[2] = Prod(b)
  BY <1>4
<1>7. Len(y.data) = p.shape[1] * q.shape[2]
  BY <1>5, <1>6, MatmulIs
<1>8. \E s, d : y = [shape |-> s, data |-> d]
  BY Zenon DEF Matmul
<1> HIDE DEF x, y, w
<1>9. x.shape = (IF w = <<>> THEN <<1>> ELSE w) /\ x.data = y.data
  BY <1>1, <1>8
<1> QED BY <1>3, <1>5, <1>6, <1>7, <1>9 DEF x, y, w, a, b

LEMMA KronIs ==
  ASSUME NEW l, NEW r, Len(l.data) \in Nat, Len(r.data) \in Nat
  PROVE  /\ Kron(l, r).shape = l.shape \o r.shape
         /\ Len(Kron(l, r).data) \in Nat
<1> DEFINE x == Kron(l, r).data
           n == Len(l.data) * Len(r.data)
<1>1. x = [j \in 1..n |-> x[j]]
  BY Zenon DEF Kron
<1>2. n \in Nat
  <2>1. \A a, b \in Nat : a * b \in Nat
    OBVIOUS
  <2> QED BY <2>1
<1>3. Kron(l, r).shape = l.shape \o r.shape
  BY DEF Kron
<1> HIDE DEF x, n
<1>4. Len(x) = n
  BY <1>1, <1>2, LengthIs
<1> QED BY <1>2, <1>3, <1>4 DEF x

\* The product of a diagonal and a matrix, over one axis.
LEMMA TimesIs ==
  ASSUME NEW d, NEW t, NEW p, NEW s, NEW w, Len(t.data) \in Nat
  PROVE  LET m == Reshaped(Permuted(t, p), s)
             x == Reshaped(RowsTimes(d, m), w)
             y == Reshaped(ColumnsTimes(m, d), w)
         IN /\ x.shape = w /\ Len(x.data) \in Nat
            /\ y.shape = w /\ Len(y.data) \in Nat
<1> DEFINE q == Permuted(t, p)
           z == MoveMemory(t.data, t.shape, p, 0)
           n == Len(t.data)
           m == Reshaped(q, s)
           f == RowsTimes(d, m).data
           g == ColumnsTimes(m, d).data
<1>1. z = [j \in 1..n |-> z[j]]
  BY Zenon DEF MoveMemory
<1>2. m = [shape |-> s, data |-> z]
  <2>1. q = [shape |-> Compose(t.shape, p), data |-> z]
    BY DEF Permuted
  <2> HIDE DEF z, q
  <2> QED BY <2>1 DEF Reshaped
<1> HIDE DEF z, n
<1>3. Len(z) = n /\ n \in Nat
  BY <1>1, LengthIs DEF n
<1> HIDE DEF m
<1>4. RowsTimes(d, m) = [shape |-> s, data |-> f] /\ ColumnsTimes(m, d) = [shape |-> s, data |-> g]
  <2> DEFINE F == [j \in 1..Len(m.data) |-> d.data[((j - 1) \div m.shape[2]) + 1] * m.data[j]]
             G == [j \in 1..Len(m.data) |-> m.data[j] * d.data[((j - 1) % m.shape[2]) + 1]]
  <2>1. RowsTimes(d, m) = [m EXCEPT !.data = F] /\ ColumnsTimes(m, d) = [m EXCEPT !.data = G]
    BY DEF RowsTimes, ColumnsTimes
  <2> HIDE DEF F, G
  <2> QED BY <1>2, <2>1
<1>5. f = [j \in 1..Len(m.data) |-> f[j]]
  BY <1>2 DEF RowsTimes
<1>6. g = [j \in 1..Len(m.data) |-> g[j]]
  BY <1>2 DEF ColumnsTimes
<1> HIDE DEF f, g
<1>7. Len(m.data) \in Nat
  BY <1>2, <1>3
<1>8. Len(f) \in Nat /\ Len(g) \in Nat
  BY <1>5, <1>6, <1>7, LengthIs
<1> QED BY <1>4, <1>8 DEF Reshaped, m, q

LEMMA ToSetIs == \A s : ToSet(s) = Range(s)
BY DEF ToSet, Range

\* A block with an axis per leg.
LEMMA OpenedIs ==
  ASSUME DInv, NEW g \in Handles, Usable(g), meta[g].bonds # <<>>
  PROVE  LET z == IF meta[g].diag THEN Diag(Content(g)) ELSE Content(g)
         IN /\ z.shape = Dims(meta[g]) /\ z.shape \in Seq(Nat)
            /\ Len(z.data) \in Nat
<1>1. Proper(meta[g])
  BY UsableIs
<1>2. Dims(meta[g]) \in Seq(Nat)
  BY <1>1, ShapeOfDims
<1>3. CASE meta[g].diag
  <2>1. /\ Diag(Content(g)).shape = BlockShape(Dense(meta[g]))
        /\ Len(Diag(Content(g)).data) \in Nat
    BY <1>3, DiagIs
  <2>2. Dense(meta[g]).bonds = meta[g].bonds /\ ~Dense(meta[g]).diag
    BY <1>1 DEF Dense, Proper, Metas
  <2>3. BlockShape(Dense(meta[g])) = Dims(meta[g])
    BY <2>2 DEF BlockShape, Dims
  <2> QED BY <1>2, <1>3, <2>1, <2>3
<1>4. CASE ~meta[g].diag
  <2>1. Content(g).shape = BlockShape(meta[g]) /\ Len(Content(g).data) \in Nat
    BY ContentIs
  <2>2. BlockShape(meta[g]) = Dims(meta[g])
    BY <1>4 DEF BlockShape
  <2> QED BY <1>2, <1>4, <2>1, <2>2
<1> QED BY <1>3, <1>4

\* All of the dimensions.
LEMMA AllDims ==
  ASSUME NEW m, Proper(m)
  PROVE  Compose(Dims(m), Others(Rank(m), {})) = Dims(m)
<1> DEFINE k == Rank(m)
           e == Identity(k)
           d == Dims(m)
<1>1. d \in Seq(Nat) /\ Len(d) = k /\ k \in Nat
  <2>1. k \in Nat
    BY DEF Proper, Metas, Rank
  <2> HIDE DEF k
  <2> QED BY <2>1, ShapeOfDims DEF k
<1> HIDE DEF d, k
<1>2. e \in Seq(Nat) /\ Len(e) = k /\ \A j \in 1..k : e[j] = j
  BY <1>1 DEF Identity
<1>3. Erased(e, {}) = e
  <2> HIDE DEF e
  <2> QED BY <1>2, ErasedNone
<1>4. Compose(d, e) = [j \in 1..k |-> d[e[j]]]
  BY <1>2 DEF Compose
<1> HIDE DEF e
<1>5. Compose(d, e) = [j \in 1..k |-> d[j]]
  BY <1>2, <1>4
<1>6. Compose(d, e) = d
  BY <1>1, <1>5
<1> QED BY <1>3, <1>6 DEF Others, d, e, k

\* The axes that the lists idx and jdx, which both are all of two, leave.
LEMMA NoneLeft ==
  ASSUME NEW idx \in Seq(1..2), IsInjective(idx), Len(idx) = 2
  PROVE  Others(2, Range(idx)) = <<>>
<1> DEFINE Q == 1..2
           o == Others(2, Range(idx))
<1>1. Range(idx) = Members(idx)
  BY DEF Range, Members
<1>2. Len(Others(2, Members(idx))) = 0
  <2>1. 2 \in Nat
    OBVIOUS
  <2>2. Len(Others(2, Members(idx))) = 2 - Len(idx)
    BY <2>1, OthersCount
  <2> QED BY <2>2
<1>3. o \in Seq(Q)
  BY OthersAre
<1> HIDE DEF Q
<1>4. Len(o) = 0
  BY <1>1, <1>2
<1> HIDE DEF o
<1>5. o = <<>>
  BY <1>3, <1>4
<1> QED BY <1>5 DEF o

\* What Tensordot_dg returns: il are axes of l, ir of r, as many, and the one that
\* holds a diagonal stands for two.
LEMMA Tensordot_dgIs ==
  ASSUME NEW l, NEW r, NEW il \in Seq(Nat), NEW ir \in Seq(Nat), NEW diagL \in BOOLEAN,
         l.shape \in Seq(Nat), r.shape \in Seq(Nat),
         Len(l.data) \in Nat, Len(r.data) \in Nat,
         Len(il) = Len(ir), Len(il) = 1 \/ Len(il) = 2,
         NEW d \in Nat,
         diagL => l.shape = <<d>> /\ Len(l.data) = d,
         ~diagL => r.shape = <<d>> /\ Len(r.data) = d,
         NEW rest \in Seq(Nat),
         diagL => rest = Compose(r.shape, Others(Len(r.shape), ToSet(ir))),
         ~diagL => rest = Compose(l.shape, Others(Len(l.shape), ToSet(il)))
  PROVE  LET x == Tensordot_dg(l, r, il, ir, diagL)
         IN /\ x.shape = IF Len(il) = 2 THEN IF rest = <<>> THEN <<1>> ELSE rest
                         ELSE IF diagL THEN <<d>> \o rest ELSE rest \o <<d>>
            /\ x.shape \in Seq(Nat) /\ Len(x.data) \in Nat
<1> DEFINE x == Tensordot_dg(l, r, il, ir, diagL)
           two == <<1, 2>>
<1>0. /\ <<d>> \in Seq(Nat) /\ <<d>> \o rest \in Seq(Nat) /\ rest \o <<d>> \in Seq(Nat)
      /\ <<d>>[1] = d /\ <<1>> \in Seq(Nat)
  <2>1. <<d>> \in Seq(Nat) /\ <<d>>[1] = d /\ <<1>> \in Seq(Nat)
    OBVIOUS
  <2> DEFINE e == <<d>>
  <2> HIDE DEF e
  <2>2. e \in Seq(Nat) => e \o rest \in Seq(Nat) /\ rest \o e \in Seq(Nat)
    OBVIOUS
  <2> QED BY <2>1, <2>2 DEF e
<1>1. CASE diagL /\ Len(il) = 1
  <2> DEFINE w == <<d>> \o rest
             p == RightOrder(r, ir)
             s == <<d, Len(r.data) \div d>>
             y == RowsTimes(l, Reshaped(Permuted(r, p), s))
  <2>1. x = Reshaped(y, w)
    BY <1>0, <1>1 DEF Tensordot_dg
  <2> HIDE DEF w, p, s
  <2>2. Reshaped(y, w).shape = w /\ Len(Reshaped(y, w).data) \in Nat
    BY TimesIs
  <2> HIDE DEF y, x
  <2>3. x.shape = w /\ Len(x.data) \in Nat
    BY <2>1, <2>2
  <2>4. w \in Seq(Nat)
    BY <1>0 DEF w
  <2>5. w = IF Len(il) = 2 THEN IF rest = <<>> THEN <<1>> ELSE rest
            ELSE IF diagL THEN <<d>> \o rest ELSE rest \o <<d>>
    BY <1>1 DEF w
  <2>6. /\ x.shape = IF Len(il) = 2 THEN IF rest = <<>> THEN <<1>> ELSE rest
                     ELSE IF diagL THEN <<d>> \o rest ELSE rest \o <<d>>
        /\ x.shape \in Seq(Nat) /\ Len(x.data) \in Nat
    BY <2>3, <2>4, <2>5, Zenon
  <2> QED BY <2>6 DEF x
<1>2. CASE ~diagL /\ Len(il) = 1
  <2> DEFINE w == rest \o <<d>>
             p == LeftOrder(l, il)
             s == <<Len(l.data) \div d, d>>
             y == ColumnsTimes(Reshaped(Permuted(l, p), s), r)
  <2>1. x = Reshaped(y, w)
    BY <1>0, <1>2 DEF Tensordot_dg
  <2> HIDE DEF w, p, s
  <2>2. Reshaped(y, w).shape = w /\ Len(Reshaped(y, w).data) \in Nat
    BY TimesIs
  <2> HIDE DEF y, x
  <2>3. x.shape = w /\ Len(x.data) \in Nat
    BY <2>1, <2>2
  <2>4. w \in Seq(Nat)
    BY <1>0 DEF w
  <2>5. w = IF Len(il) = 2 THEN IF rest = <<>> THEN <<1>> ELSE rest
            ELSE IF diagL THEN <<d>> \o rest ELSE rest \o <<d>>
    BY <1>2 DEF w
  <2>6. /\ x.shape = IF Len(il) = 2 THEN IF rest = <<>> THEN <<1>> ELSE rest
                     ELSE IF diagL THEN <<d>> \o rest ELSE rest \o <<d>>
        /\ x.shape \in Seq(Nat) /\ Len(x.data) \in Nat
    BY <2>3, <2>4, <2>5, Zenon
  <2> QED BY <2>6 DEF x
<1>3. /\ two \in Seq(1..2) /\ IsInjective(two) /\ Len(two) = 2
      /\ Others(2, ToSet(two)) = <<>>
  <2>1. two \in Seq(1..2) /\ Len(two) = 2
    OBVIOUS
  <2>2. IsInjective(two)
    <3>1. DOMAIN two = 1..2 /\ two[1] = 1 /\ two[2] = 2
      OBVIOUS
    <3> HIDE DEF two
    <3>2. \A i, j \in 1..2 : two[i] = two[j] => i = j
      BY <3>1
    <3> QED BY <3>1, <3>2 DEF IsInjective
  <2> HIDE DEF two
  <2>3. ToSet(two) = Range(two)
    BY ToSetIs
  <2> QED BY <2>1, <2>2, <2>3, NoneLeft
<1>4. /\ \A z : z.shape = <<d, d>> => Compose(z.shape, Others(Len(z.shape), ToSet(two))) = <<>>
      /\ <<d, d>> \in Seq(Nat)
  <2>1. \A s : Compose(s, <<>>) = <<>>
    BY DEF Compose
  <2>2. Len(<<d, d>>) = 2 /\ <<d, d>> \in Seq(Nat)
    OBVIOUS
  <2> DEFINE o == Others(2, ToSet(two))
  <2>3. o = <<>>
    BY <1>3
  <2> HIDE DEF o, two
  <2>4. ASSUME NEW z, z.shape = <<d, d>> PROVE Compose(z.shape, Others(Len(z.shape), ToSet(two))) = <<>>
    <3>1. Others(Len(z.shape), ToSet(two)) = o
      BY <2>2, <2>4 DEF o
    <3> QED BY <2>1, <2>3, <3>1
  <2> QED BY <2>2, <2>4
<1>5. <<>> \o rest = rest /\ rest \o <<>> = rest /\ <<>> \in Seq(Nat)
  OBVIOUS
<1>6. CASE diagL /\ Len(il) = 2
  <2> DEFINE z == Diag(l)
  <2>1. x = Tensordot(z, r, two, ir)
    BY <1>6 DEF Tensordot_dg
  <2>2. z.shape = <<d, d>>
    BY <1>6 DEF Diag
  <2> HIDE DEF z, x, two
  <2>3. Compose(z.shape, Others(Len(z.shape), ToSet(two))) = <<>> /\ z.shape \in Seq(Nat)
    BY <1>4, <2>2
  <2>4. /\ x.shape = IF rest = <<>> THEN <<1>> ELSE rest
        /\ x.shape \in Seq(Nat) /\ Len(x.data) \in Nat
    <3> DEFINE a == Compose(z.shape, Others(Len(z.shape), ToSet(two)))
               b == Compose(r.shape, Others(Len(r.shape), ToSet(ir)))
               w == a \o b
               y == Tensordot(z, r, two, ir)
    <3>1. a \in Seq(Nat) /\ b \in Seq(Nat) /\ w = rest
      BY <1>5, <1>6, <2>3
    <3>2. z.shape \in Seq(Nat) /\ r.shape \in Seq(Nat)
      BY <2>3
    <3>3. /\ y.shape = IF w = <<>> THEN <<1>> ELSE w
          /\ y.shape \in Seq(Nat) /\ Len(y.data) \in Nat
      BY <3>1, <3>2, TensordotIs
    <3> HIDE DEF w, y
    <3> QED BY <2>1, <3>1, <3>3 DEF y
  <2> QED BY <1>6, <2>4 DEF x
<1>7. CASE ~diagL /\ Len(il) = 2
  <2> DEFINE z == Diag(r)
  <2>1. x = Tensordot(l, z, il, two)
    BY <1>7 DEF Tensordot_dg
  <2>2. z.shape = <<d, d>>
    BY <1>7 DEF Diag
  <2> HIDE DEF z, x, two
  <2>3. Compose(z.shape, Others(Len(z.shape), ToSet(two))) = <<>> /\ z.shape \in Seq(Nat)
    BY <1>4, <2>2
  <2>4. /\ x.shape = IF rest = <<>> THEN <<1>> ELSE rest
        /\ x.shape \in Seq(Nat) /\ Len(x.data) \in Nat
    <3> DEFINE a == Compose(l.shape, Others(Len(l.shape), ToSet(il)))
               b == Compose(z.shape, Others(Len(z.shape), ToSet(two)))
               w == a \o b
               y == Tensordot(l, z, il, two)
    <3>1. a \in Seq(Nat) /\ b \in Seq(Nat) /\ w = rest
      BY <1>5, <1>7, <2>3
    <3>2. l.shape \in Seq(Nat) /\ z.shape \in Seq(Nat)
      BY <2>3
    <3>3. /\ y.shape = IF w = <<>> THEN <<1>> ELSE w
          /\ y.shape \in Seq(Nat) /\ Len(y.data) \in Nat
      BY <3>1, <3>2, TensordotIs
    <3> HIDE DEF w, y
    <3> QED BY <2>1, <3>1, <3>3 DEF y
  <2> QED BY <1>7, <2>4 DEF x
<1> QED BY <1>1, <1>2, <1>6, <1>7

\* The product of two diagonals of one size.
LEMMA MulIs ==
  ASSUME NEW u, NEW v, u = [shape |-> u.shape, data |-> u.data],
         v = [shape |-> v.shape, data |-> v.data], v.shape = u.shape,
         Len(u.data) \in Nat, Len(v.data) \in Nat
  PROVE  Mul(u, v).shape = u.shape /\ Len(Mul(u, v).data) \in Nat
<1> DEFINE F(x, t) == [k \in 1..Len(t.data) |-> x * t.data[k]]
           G == [k \in 1..Len(u.data) |-> u.data[k] * v.data[k]]
<1>1. ASSUME NEW x, NEW t, t = [shape |-> t.shape, data |-> t.data], Len(t.data) \in Nat
      PROVE  Scaled(x, t).shape = t.shape /\ Len(Scaled(x, t).data) \in Nat
  <2> DEFINE f == F(x, t)
  <2>1. Scaled(x, t) = [t EXCEPT !.data = f]
    BY DEF Scaled
  <2>2. f = [k \in 1..Len(t.data) |-> f[k]]
    OBVIOUS
  <2> HIDE DEF f
  <2>3. Len(f) \in Nat
    BY <1>1, <2>2, LengthIs
  <2> QED BY <1>1, <2>1, <2>3
<1>2. CASE u.shape = <<1>> \/ v.shape = <<1>>
  <2>1. Mul(u, v) = Scaled(u.data[1], v)
    BY <1>2 DEF Mul
  <2> QED BY <1>1, <2>1
<1>3. CASE ~(u.shape = <<1>> \/ v.shape = <<1>>)
  <2>1. Mul(u, v) = [u EXCEPT !.data = G]
    BY <1>3 DEF Mul
  <2>2. G = [k \in 1..Len(u.data) |-> G[k]]
    OBVIOUS
  <2> HIDE DEF G
  <2>3. Len(G) \in Nat
    BY <2>2, LengthIs
  <2> QED BY <2>1, <2>3
<1> QED BY <1>2, <1>3

\* Which of the functions of linalg makes the block.
LEMMA ContractedBy ==
  ASSUME NEW x, NEW y, NEW m, NEW n, Indices(m, Common(m, n)) # <<>>
  PROVE  LET im == Indices(m, Common(m, n))
             in == Indices(n, Common(m, n))
         IN /\ m.diag = FALSE /\ n.diag = FALSE
               => BlockContracted(x, y, m, n) = Tensordot(x, y, im, in)
            /\ m.diag = TRUE /\ n.diag = FALSE
               => BlockContracted(x, y, m, n) = Tensordot_dg(x, y, im, in, TRUE)
            /\ m.diag = FALSE /\ n.diag = TRUE
               => BlockContracted(x, y, m, n) = Tensordot_dg(x, y, im, in, FALSE)
<1> DEFINE z == BlockContracted(x, y, m, n)
           im == Indices(m, Common(m, n))
           in == Indices(n, Common(m, n))
<1>1. z = CASE m.diag /\ n.diag -> DiagProduct(x, y, MetaContracted(m, n).rowrank)
            [] m.diag # n.diag  -> Tensordot_dg(x, y, im, in, m.diag)
            [] OTHER            -> Tensordot(x, y, im, in)
  BY DEF BlockContracted
<1> HIDE DEF z, im, in
<1>2. ASSUME m.diag = FALSE, n.diag = FALSE PROVE z = Tensordot(x, y, im, in)
  BY <1>1, <1>2
<1>3. ASSUME m.diag = TRUE, n.diag = FALSE PROVE z = Tensordot_dg(x, y, im, in, TRUE)
  <2>1. z = Tensordot_dg(x, y, im, in, m.diag)
    BY <1>1, <1>3
  <2> QED BY <1>3, <2>1
<1>4. ASSUME m.diag = FALSE, n.diag = TRUE PROVE z = Tensordot_dg(x, y, im, in, FALSE)
  <2>1. z = Tensordot_dg(x, y, im, in, m.diag)
    BY <1>1, <1>4
  <2> QED BY <1>4, <2>1
<1> QED BY <1>2, <1>3, <1>4 DEF z, im, in

\* The block of a contraction is one that its legs have.
LEMMA BlockContractedIs ==
  ASSUME DInv, NEW f \in Handles, NEW g \in Handles, Usable(f), Usable(g),
         Contractible(meta[f], meta[g]), ~Breaks(f, g)
  PROVE  LET x == BlockContracted(Content(f), Content(g), meta[f], meta[g])
             r == MetaContracted(meta[f], meta[g])
         IN /\ Proper(r) /\ x.shape = BlockShape(r)
            /\ x.shape \in Seq(Nat) /\ Len(x.data) \in Nat
<1> DEFINE m == meta[f]
           n == meta[g]
           u == Content(f)
           v == Content(g)
           c == Common(m, n)
           im == Indices(m, c)
           in == Indices(n, c)
           fm == Others(Rank(m), Range(im))
           fn == Others(Rank(n), Range(in))
           dm == Compose(Dims(m), fm)
           dn == Compose(Dims(n), fn)
           d == dm \o dn
           r == MetaContracted(m, n)
           x == BlockContracted(u, v, m, n)
<1>1. /\ Proper(m) /\ m.diag \in BOOLEAN /\ m.labels \in Seq(Nat) /\ Rank(m) \in Nat
      /\ m.diag => m.bonds # <<>> /\ Rank(m) = 2
      /\ m.bonds = <<>> <=> Rank(m) = 0
  BY UsableIs DEF Proper, Metas, Rank
<1>2. /\ Proper(n) /\ n.diag \in BOOLEAN /\ n.labels \in Seq(Nat) /\ Rank(n) \in Nat
      /\ n.diag => n.bonds # <<>> /\ Rank(n) = 2
      /\ n.bonds = <<>> <=> Rank(n) = 0
  BY UsableIs DEF Proper, Metas, Rank
<1>18. Matching(m, n) /\ (m.diag /\ n.diag /\ c # <<>> => m.bonds[1].dim = n.bonds[1].dim)
  <2>1. r.diag = (m.diag /\ n.diag /\ im # <<>>)
    BY DEF MetaContracted, Updated
  <2>2. im = <<>> <=> c = <<>>
    <3>1. c \in Seq(Nat)
      BY <1>1, <1>2, CommonIs
    <3>2. im \in Seq(1..Rank(m)) /\ Len(im) = Len(c)
      BY <1>1, <1>2, KeptFits
    <3> HIDE DEF c, im
    <3> QED BY <3>1, <3>2
  <2>3. ~(r.diag /\ m.bonds[1].dim # n.bonds[1].dim)
    BY DEF Breaks
  <2>4. m.diag /\ n.diag /\ c # <<>> => m.bonds[1].dim = n.bonds[1].dim
    BY <2>1, <2>2, <2>3
  <2>5. Contractible(m, n)
    OBVIOUS
  <2> HIDE DEF m, n, r, im
  <2> QED BY <1>1, <1>2, <2>4, <2>5, MatchingIs
<1>3. /\ Proper(r) /\ Dims(r) = d /\ r.diag = (m.diag /\ n.diag /\ c # <<>>)
      /\ r.bonds = <<>> <=> d = <<>>
      /\ r.diag /\ r.bonds # <<>> => r.bonds[1].dim = m.bonds[1].dim
  BY <1>1, <1>2, <1>18, MetaContractedFits
<1>4. /\ dm \in Seq(Nat) /\ dn \in Seq(Nat) /\ Len(dm) = Len(fm) /\ Len(dn) = Len(fn)
  BY <1>1, <1>2, RestFits
<1>5. c \in Seq(Nat)
  BY <1>1, <1>2, CommonIs
<1>6. /\ im \in Seq(1..Rank(m)) /\ Len(im) = Len(c) /\ IsInjective(im)
      /\ Range(im) = Members(im)
  BY <1>1, <1>2, KeptFits
<1>7. /\ in \in Seq(1..Rank(n)) /\ Len(in) = Len(c) /\ IsInjective(in)
      /\ Range(in) = Members(in)
  <2>1. c = Common(n, m)
    BY CommonSame
  <2> HIDE DEF c
  <2> QED BY <1>1, <1>2, <2>1, KeptFits
<1>8. /\ m.bonds # <<>> /\ ~m.diag => u.shape = Dims(m)
      /\ m.diag => u.shape = <<m.bonds[1].dim>> /\ Len(u.data) = m.bonds[1].dim
                   /\ m.bonds[1].dim \in Nat
      /\ Len(u.data) \in Nat /\ u.shape \in Seq(Nat)
  <2>1. u.shape = BlockShape(m) /\ u.shape \in Seq(Nat) /\ Len(u.data) \in Nat
    BY ContentIs
  <2>2. m.diag => Len(u.data) = m.bonds[1].dim /\ m.bonds[1].dim \in Nat
    BY DiagIs
  <2> HIDE DEF u
  <2> QED BY <1>1, <2>1, <2>2 DEF BlockShape
<1>9. /\ n.bonds # <<>> /\ ~n.diag => v.shape = Dims(n)
      /\ n.diag => v.shape = <<n.bonds[1].dim>> /\ Len(v.data) = n.bonds[1].dim
                   /\ n.bonds[1].dim \in Nat
      /\ Len(v.data) \in Nat /\ v.shape \in Seq(Nat)
  <2>1. v.shape = BlockShape(n) /\ v.shape \in Seq(Nat) /\ Len(v.data) \in Nat
    BY ContentIs
  <2>2. n.diag => Len(v.data) = n.bonds[1].dim /\ n.bonds[1].dim \in Nat
    BY DiagIs
  <2> HIDE DEF v
  <2> QED BY <1>2, <2>1, <2>2 DEF BlockShape
<1>10. /\ Dims(m) \in Seq(Nat) /\ Len(Dims(m)) = Rank(m)
       /\ Dims(n) \in Seq(Nat) /\ Len(Dims(n)) = Rank(n)
  BY <1>1, <1>2, ShapeOfDims
<1>11. ~r.diag => BlockShape(r) = IF d = <<>> THEN <<1>> ELSE d
  <2> HIDE DEF r, d
  <2> QED BY <1>3 DEF BlockShape
<1>12. /\ im = <<>> <=> c = <<>>
       /\ c # <<>> => Rank(m) # 0 /\ Rank(n) # 0
       /\ m.diag \/ n.diag => Len(im) = 0 \/ Len(im) = 1 \/ Len(im) = 2
  <2> HIDE DEF im, in, c, m, n
  <2>1. Len(im) <= Rank(m) /\ Len(in) <= Rank(n)
    <3>1. Len(Others(Rank(m), Members(im))) = Rank(m) - Len(im)
      BY <1>1, <1>6, OthersCount
    <3>2. Len(Others(Rank(n), Members(in))) = Rank(n) - Len(in)
      BY <1>2, <1>7, OthersCount
    <3>3. Len(Others(Rank(m), Members(im))) \in Nat /\ Len(Others(Rank(n), Members(in))) \in Nat
      BY <1>1, <1>2, RestFits
    <3>4. Len(im) \in Nat /\ Len(in) \in Nat
      BY <1>5, <1>6, <1>7
    <3> QED BY <1>1, <1>2, <3>1, <3>2, <3>3, <3>4
  <2>2. Len(c) \in Nat /\ (c = <<>> <=> Len(c) = 0)
    BY <1>5
  <2>3. im = <<>> <=> Len(im) = 0
    BY <1>6
  <2>4. Len(im) = Len(c) /\ Len(in) = Len(c)
    BY <1>6, <1>7
  <2>5. m.diag \/ n.diag => Len(c) <= 2
    BY <1>1, <1>2, <2>1, <2>4
  <2>6. c # <<>> => Rank(m) # 0 /\ Rank(n) # 0
    BY <1>1, <1>2, <2>1, <2>2, <2>4
  <2>7. Len(c) <= 2 => Len(im) = 0 \/ Len(im) = 1 \/ Len(im) = 2
    BY <2>2, <2>4
  <2> QED BY <2>2, <2>3, <2>4, <2>5, <2>6, <2>7
<1>13. CASE c = <<>>
  <2> DEFINE y == IF m.diag THEN Diag(u) ELSE u
             z == IF n.diag THEN Diag(v) ELSE v
  <2>1. m.bonds # <<>> /\ n.bonds # <<>>
    BY <1>13 DEF Breaks
  <2>2. x = Kron(y, z)
    BY <1>12, <1>13 DEF BlockContracted, Outer
  <2>3. y.shape = Dims(m) /\ Len(y.data) \in Nat
    BY <2>1, OpenedIs
  <2>4. z.shape = Dims(n) /\ Len(z.data) \in Nat
    BY <2>1, OpenedIs
  <2>5. Range(im) = {} /\ Range(in) = {}
    <3>1. Len(im) = 0 /\ Len(in) = 0
      BY <1>6, <1>7, <1>13
    <3> HIDE DEF im, in
    <3> QED BY <1>6, <1>7, <3>1 DEF Members
  <2>6. dm = Dims(m) /\ dn = Dims(n)
    <3>1. Compose(Dims(m), Others(Rank(m), {})) = Dims(m)
      BY <1>1, AllDims
    <3>2. Compose(Dims(n), Others(Rank(n), {})) = Dims(n)
      BY <1>2, AllDims
    <3> HIDE DEF m, n, c, im, in
    <3> QED BY <2>5, <3>1, <3>2
  <2> HIDE DEF y, z, x, dm, dn, r, m, n, c, im, in
  <2>7. x.shape = d /\ Len(x.data) \in Nat
    BY <2>2, <2>3, <2>4, <2>6, KronIs
  <2>8. d # <<>> /\ d \in Seq(Nat)
    <3>1. Len(dm) # 0
      BY <1>1, <1>10, <2>1, <2>6
    <3> QED BY <1>4, <3>1
  <2>9. ~r.diag
    BY <1>3, <1>13
  <2>10. x.shape = BlockShape(r) /\ x.shape \in Seq(Nat) /\ Len(x.data) \in Nat
    <3> HIDE DEF d
    <3> QED BY <1>11, <2>7, <2>8, <2>9
  <2> QED BY <1>3, <2>10 DEF x, r, u, v, m, n
<1>14. CASE c # <<>> /\ ~m.diag /\ ~n.diag
  <2>1. x = Tensordot(u, v, im, in)
    <3>1. m.diag = FALSE /\ n.diag = FALSE /\ im # <<>>
      BY <1>1, <1>2, <1>12, <1>14
    <3>2. BlockContracted(u, v, m, n) = Tensordot(u, v, im, in)
      <4> HIDE DEF u, v, m, n
      <4> QED BY <3>1, ContractedBy
    <3> QED BY <3>2
  <2>2. u.shape = Dims(m) /\ v.shape = Dims(n)
    BY <1>1, <1>2, <1>8, <1>9, <1>12, <1>14
  <2>3. ToSet(im) = Range(im) /\ ToSet(in) = Range(in)
    BY ToSetIs
  <2> HIDE DEF u, v, x, r, m, n, c, im, in
  <2>4. /\ Compose(u.shape, Others(Len(u.shape), ToSet(im))) = dm
        /\ Compose(v.shape, Others(Len(v.shape), ToSet(in))) = dn
    BY <1>10, <2>2, <2>3
  <2> HIDE DEF dm, dn
  <2>5. /\ x.shape = IF d = <<>> THEN <<1>> ELSE d
        /\ x.shape \in Seq(Nat) /\ Len(x.data) \in Nat
    <3> DEFINE a == Compose(u.shape, Others(Len(u.shape), ToSet(im)))
               b == Compose(v.shape, Others(Len(v.shape), ToSet(in)))
               w == a \o b
               y == Tensordot(u, v, im, in)
    <3>1. a \in Seq(Nat) /\ b \in Seq(Nat) /\ w = d
      BY <1>4, <2>4
    <3>2. u.shape \in Seq(Nat) /\ v.shape \in Seq(Nat)
      BY <1>8, <1>9
    <3>3. /\ y.shape = IF w = <<>> THEN <<1>> ELSE w
          /\ y.shape \in Seq(Nat) /\ Len(y.data) \in Nat
      BY <3>1, <3>2, TensordotIs
    <3> HIDE DEF w, y, d
    <3> QED BY <2>1, <3>1, <3>3 DEF y
  <2>6. ~r.diag
    BY <1>3, <1>14
  <2>7. x.shape = BlockShape(r) /\ x.shape \in Seq(Nat) /\ Len(x.data) \in Nat
    <3> HIDE DEF d
    <3> QED BY <1>11, <2>5, <2>6
  <2> QED BY <1>3, <2>7 DEF x, r, u, v, m, n
<1>15. CASE c # <<>> /\ m.diag /\ n.diag
  <2>1. x = DiagProduct(u, v, r.rowrank)
    BY <1>12, <1>15 DEF BlockContracted
  <2>2. r.diag
    BY <1>3, <1>15
  <2>3. r.rowrank = 0 => r.bonds = <<>>
    BY <2>2 DEF Breaks
  <2>4. r.rowrank \in 0..Rank(r) /\ Rank(r) = Len(r.bonds)
    BY <1>3 DEF Proper, Rank
  <2> HIDE DEF r
  <2>5. CASE r.rowrank = 0
    <3>1. x = [shape |-> <<1>>, data |-> <<Vectordot(u, v)>>]
      BY <2>1, <2>5 DEF DiagProduct, Number
    <3>2. BlockShape(r) = <<1>>
      BY <2>3, <2>5 DEF BlockShape
    <3> DEFINE s == Vectordot(u, v)
    <3> HIDE DEF s, x
    <3>3. x.shape = <<1>> /\ Len(x.data) = 1
      BY <3>1 DEF s
    <3>4. x.shape = BlockShape(r) /\ x.shape \in Seq(Nat) /\ Len(x.data) \in Nat
      BY <3>2, <3>3
    <3> QED BY <1>3, <3>4 DEF x, r, u, v, m, n
  <2>6. CASE r.rowrank # 0
    <3>1. r.bonds # <<>>
      BY <2>4, <2>6
    <3>2. BlockShape(r) = <<m.bonds[1].dim>>
      BY <1>3, <2>2, <3>1 DEF BlockShape
    <3>3. x = Mul(u, v)
      BY <2>1, <2>6 DEF DiagProduct
    <3>4. u = [shape |-> u.shape, data |-> u.data] /\ v = [shape |-> v.shape, data |-> v.data]
      BY DEF Content
    <3>5. Len(u.data) \in Nat /\ Len(v.data) \in Nat
      BY <1>8, <1>9
    <3>6. u.shape = <<m.bonds[1].dim>> /\ v.shape = u.shape
      BY <1>8, <1>9, <1>15, <1>18
    <3>7. Mul(u, v).shape = u.shape /\ Len(Mul(u, v).data) \in Nat
      <4> HIDE DEF u, v
      <4> QED BY <3>4, <3>5, <3>6, MulIs
    <3> HIDE DEF u, v, x
    <3>8. x.shape = BlockShape(r) /\ x.shape \in Seq(Nat) /\ Len(x.data) \in Nat
      BY <1>8, <1>15, <3>2, <3>3, <3>6, <3>7
    <3> QED BY <1>3, <3>8 DEF x, r, u, v, m, n
  <2> QED BY <2>5, <2>6
<1>16. CASE c # <<>> /\ m.diag /\ ~n.diag
  <2> DEFINE e == m.bonds[1].dim
  <2>1. x = Tensordot_dg(u, v, im, in, TRUE)
    <3>1. m.diag = TRUE /\ n.diag = FALSE /\ im # <<>>
      BY <1>1, <1>2, <1>12, <1>16
    <3> QED BY <3>1, ContractedBy
  <2>2. v.shape = Dims(n) /\ u.shape = <<e>> /\ Len(u.data) = e /\ e \in Nat
    BY <1>2, <1>8, <1>9, <1>12, <1>16
  <2>3. ToSet(im) = Range(im) /\ ToSet(in) = Range(in)
    BY ToSetIs
  <2>4. Len(im) = 1 \/ Len(im) = 2
    BY <1>5, <1>6, <1>12, <1>16
  <2>5. dm = IF Len(im) = 2 THEN <<>> ELSE <<e>>
    <3>1. Rank(m) = 2 /\ Dims(m)[1] = e /\ Dims(m)[2] = e
      <4>1. m.bonds[2].dim = e /\ Rank(m) = 2
        BY <1>1, <1>16 DEF Proper
      <4>2. \A j \in 1..Rank(m) : Dims(m)[j] = m.bonds[j].dim
        BY <1>1, ShapeOfDims
      <4> QED BY <4>1, <4>2
    <3>2. Len(dm) = 2 - Len(im)
      <4>1. Len(Others(Rank(m), Members(im))) = Rank(m) - Len(im)
        BY <1>1, <1>6, OthersCount
      <4> QED BY <1>4, <1>6, <3>1, <4>1
    <3>3. \A j \in 1..Len(fm) : dm[j] = e
      <4>1. fm \in Seq(1..Rank(m))
        BY <1>1, RestFits
      <4> HIDE DEF fm
      <4>2. \A j \in 1..Len(fm) : fm[j] \in 1..2 /\ dm[j] = Dims(m)[fm[j]]
        BY <3>1, <4>1 DEF Compose
      <4> QED BY <3>1, <4>2
    <3> HIDE DEF dm, e, im
    <3>4. CASE Len(im) = 2
      <4>1. Len(dm) = 0
        BY <3>2, <3>4
      <4> QED BY <1>4, <3>4, <4>1
    <3>5. CASE Len(im) = 1
      <4>1. Len(dm) = 1 /\ dm[1] = e
        BY <1>4, <3>2, <3>3, <3>5
      <4> QED BY <1>4, <3>5, <4>1
    <3> QED BY <2>4, <3>4, <3>5
  <2>6. im \in Seq(Nat) /\ in \in Seq(Nat)
    <3>1. \A k \in Nat : \A s \in Seq(1..k) : s \in Seq(Nat)
      OBVIOUS
    <3> QED BY <1>1, <1>2, <1>6, <1>7, <3>1
  <2> HIDE DEF u, v, x, r, m, n, c, im, in, e
  <2>7. Compose(v.shape, Others(Len(v.shape), ToSet(in))) = dn
    BY <1>10, <2>2, <2>3
  <2>8. Len(im) = Len(in)
    BY <1>6, <1>7
  <2> HIDE DEF dm, dn
  <2>9. /\ x.shape = IF Len(im) = 2 THEN IF dn = <<>> THEN <<1>> ELSE dn ELSE <<e>> \o dn
        /\ x.shape \in Seq(Nat) /\ Len(x.data) \in Nat
    <3>1. /\ TRUE => u.shape = <<e>> /\ Len(u.data) = e
          /\ ~TRUE => v.shape = <<e>> /\ Len(v.data) = e
          /\ TRUE => dn = Compose(v.shape, Others(Len(v.shape), ToSet(in)))
          /\ ~TRUE => dn = Compose(u.shape, Others(Len(u.shape), ToSet(im)))
          /\ TRUE \in BOOLEAN
      BY <2>2, <2>7
    <3> DEFINE y == Tensordot_dg(u, v, im, in, TRUE)
    <3>2. /\ y.shape = IF Len(im) = 2 THEN IF dn = <<>> THEN <<1>> ELSE dn
                       ELSE IF TRUE THEN <<e>> \o dn ELSE dn \o <<e>>
          /\ y.shape \in Seq(Nat) /\ Len(y.data) \in Nat
      <4>1. /\ u.shape \in Seq(Nat) /\ v.shape \in Seq(Nat) /\ e \in Nat
            /\ Len(u.data) \in Nat /\ Len(v.data) \in Nat /\ dn \in Seq(Nat)
        BY <1>4, <1>8, <1>9, <2>2
      <4> QED BY <2>4, <2>6, <2>8, <3>1, <4>1, Tensordot_dgIs
    <3> HIDE DEF y
    <3> QED BY <2>1, <3>2 DEF y
  <2>10. ~r.diag
    BY <1>3, <1>16
  <2>11. IF Len(im) = 2 THEN d = dn ELSE d = <<e>> \o dn /\ d # <<>>
    <3>1. <<>> \o dn = dn
      BY <1>4
    <3>2. <<e>> \o dn # <<>>
      <4> DEFINE z == <<e>>
      <4>1. z \in Seq(Nat) /\ Len(z) = 1
        BY <2>2
      <4> HIDE DEF z
      <4>2. z \in Seq(Nat) /\ dn \in Seq(Nat)
        BY <1>4, <4>1
      <4>4. Len(z \o dn) = Len(z) + Len(dn) /\ Len(dn) \in Nat
        BY <4>2
      <4>3. z \o dn # <<>>
        BY <4>1, <4>4
      <4> QED BY <4>3 DEF z
    <3> QED BY <2>5, <3>1, <3>2
  <2>12. x.shape = BlockShape(r) /\ x.shape \in Seq(Nat) /\ Len(x.data) \in Nat
    <3> HIDE DEF d
    <3> QED BY <1>11, <2>9, <2>10, <2>11
  <2> QED BY <1>3, <2>12 DEF x, r, u, v, m, n
<1>17. CASE c # <<>> /\ ~m.diag /\ n.diag
  <2> DEFINE e == n.bonds[1].dim
  <2>1. x = Tensordot_dg(u, v, im, in, FALSE)
    <3>1. m.diag = FALSE /\ n.diag = TRUE /\ im # <<>>
      BY <1>1, <1>2, <1>12, <1>17
    <3> QED BY <3>1, ContractedBy
  <2>2. u.shape = Dims(m) /\ v.shape = <<e>> /\ Len(v.data) = e /\ e \in Nat
    BY <1>1, <1>8, <1>9, <1>12, <1>17
  <2>3. ToSet(im) = Range(im) /\ ToSet(in) = Range(in)
    BY ToSetIs
  <2>4. Len(im) = 1 \/ Len(im) = 2
    BY <1>5, <1>6, <1>12, <1>17
  <2>8. Len(im) = Len(in)
    BY <1>6, <1>7
  <2>5. dn = IF Len(im) = 2 THEN <<>> ELSE <<e>>
    <3>1. Rank(n) = 2 /\ Dims(n)[1] = e /\ Dims(n)[2] = e
      <4>1. n.bonds[2].dim = e /\ Rank(n) = 2
        BY <1>2, <1>17 DEF Proper
      <4>2. \A j \in 1..Rank(n) : Dims(n)[j] = n.bonds[j].dim
        BY <1>2, ShapeOfDims
      <4> QED BY <4>1, <4>2
    <3>2. Len(dn) = 2 - Len(im)
      <4>1. Len(Others(Rank(n), Members(in))) = Rank(n) - Len(in)
        BY <1>2, <1>7, OthersCount
      <4> QED BY <1>4, <1>7, <2>8, <3>1, <4>1
    <3>3. \A j \in 1..Len(fn) : dn[j] = e
      <4>1. fn \in Seq(1..Rank(n))
        BY <1>2, RestFits
      <4> HIDE DEF fn
      <4>2. \A j \in 1..Len(fn) : fn[j] \in 1..2 /\ dn[j] = Dims(n)[fn[j]]
        BY <3>1, <4>1 DEF Compose
      <4> QED BY <3>1, <4>2
    <3> HIDE DEF dn, e, im
    <3>4. CASE Len(im) = 2
      <4>1. Len(dn) = 0
        BY <3>2, <3>4
      <4> QED BY <1>4, <3>4, <4>1
    <3>5. CASE Len(im) = 1
      <4>1. Len(dn) = 1 /\ dn[1] = e
        BY <1>4, <3>2, <3>3, <3>5
      <4> QED BY <1>4, <3>5, <4>1
    <3> QED BY <2>4, <3>4, <3>5
  <2>6. im \in Seq(Nat) /\ in \in Seq(Nat)
    <3>1. \A k \in Nat : \A s \in Seq(1..k) : s \in Seq(Nat)
      OBVIOUS
    <3> QED BY <1>1, <1>2, <1>6, <1>7, <3>1
  <2> HIDE DEF u, v, x, r, m, n, c, im, in, e
  <2>7. Compose(u.shape, Others(Len(u.shape), ToSet(im))) = dm
    BY <1>10, <2>2, <2>3
  <2> HIDE DEF dm, dn
  <2>9. /\ x.shape = IF Len(im) = 2 THEN IF dm = <<>> THEN <<1>> ELSE dm ELSE dm \o <<e>>
        /\ x.shape \in Seq(Nat) /\ Len(x.data) \in Nat
    <3>1. /\ FALSE => u.shape = <<e>> /\ Len(u.data) = e
          /\ ~FALSE => v.shape = <<e>> /\ Len(v.data) = e
          /\ FALSE => dm = Compose(v.shape, Others(Len(v.shape), ToSet(in)))
          /\ ~FALSE => dm = Compose(u.shape, Others(Len(u.shape), ToSet(im)))
          /\ FALSE \in BOOLEAN
      BY <2>2, <2>7
    <3> DEFINE y == Tensordot_dg(u, v, im, in, FALSE)
    <3>2. /\ y.shape = IF Len(im) = 2 THEN IF dm = <<>> THEN <<1>> ELSE dm
                       ELSE IF FALSE THEN <<e>> \o dm ELSE dm \o <<e>>
          /\ y.shape \in Seq(Nat) /\ Len(y.data) \in Nat
      <4>1. /\ u.shape \in Seq(Nat) /\ v.shape \in Seq(Nat) /\ e \in Nat
            /\ Len(u.data) \in Nat /\ Len(v.data) \in Nat /\ dm \in Seq(Nat)
        BY <1>4, <1>8, <1>9, <2>2
      <4> QED BY <2>4, <2>6, <2>8, <3>1, <4>1, Tensordot_dgIs
    <3> HIDE DEF y
    <3> QED BY <2>1, <3>2 DEF y
  <2>10. ~r.diag
    BY <1>3, <1>17
  <2>11. IF Len(im) = 2 THEN d = dm ELSE d = dm \o <<e>> /\ d # <<>>
    <3>1. dm \o <<>> = dm
      BY <1>4
    <3>2. dm \o <<e>> # <<>>
      <4> DEFINE z == <<e>>
      <4>1. z \in Seq(Nat) /\ Len(z) = 1
        BY <2>2
      <4> HIDE DEF z
      <4>2. z \in Seq(Nat) /\ dm \in Seq(Nat)
        BY <1>4, <4>1
      <4>4. Len(dm \o z) = Len(dm) + Len(z) /\ Len(dm) \in Nat
        BY <4>2
      <4>3. dm \o z # <<>>
        BY <4>1, <4>4
      <4> QED BY <4>3 DEF z
    <3> QED BY <2>5, <3>1, <3>2
  <2>12. x.shape = BlockShape(r) /\ x.shape \in Seq(Nat) /\ Len(x.data) \in Nat
    <3> HIDE DEF d
    <3> QED BY <1>11, <2>9, <2>10, <2>11
  <2> QED BY <1>3, <2>12 DEF x, r, u, v, m, n
<1> QED BY <1>1, <1>2, <1>13, <1>14, <1>15, <1>16, <1>17

\* contract without mv_elem.
LEMMA ContractInv ==
  ASSUME DInv, Careful, NEW h \in Handles, NEW f \in Handles, NEW g \in Handles,
         Contract(h, f, g)
  PROVE  DInv'
<1> DEFINE x == BlockContracted(Content(f), Content(g), meta[f], meta[g])
           r == MetaContracted(meta[f], meta[g])
<1>1. /\ Usable(f) /\ Usable(g) /\ Contractible(meta[f], meta[g]) /\ ~Breaks(f, g)
      /\ BindBlock(h, x) /\ Describe(h, r)
  BY DEF Contract, Breaks
<1>2. /\ Proper(r) /\ x.shape = BlockShape(r)
      /\ x.shape \in Seq(Nat) /\ Len(x.data) \in Nat
  BY <1>1, BlockContractedIs
<1> HIDE DEF x, r
<1>3. TP!IInv' /\ TP!Gets(h, x.shape)
  BY <1>1, <1>2, BlockGets
<1> QED BY <1>1, <1>2, <1>3, DescribeInv

\* An order of the axes and back: the shape is what it was.
LEMMA OrderedIs ==
  ASSUME NEW t \in TP!ImplRecords, NEW n \in Nat, Len(t.shape) = n, NEW p \in Perms(n),
         NEW s \in Stores
  PROVE  LET x == [Ordered(t, p) EXCEPT !.st = s]
         IN x \in TP!ImplRecords /\ TP!Laid(x) /\ x.shape = t.shape /\ x.st = s
<1> DEFINE w == Compose(t.shape, p)
           q == Block!Inverted(p)
           y == TP!Plain(w)
           z == TP!Permuted(y, q)
<1>1. t.shape \in Seq(Nat) /\ t.shape \in [1..n -> Nat]
  BY DEF TP!ImplRecords
<1>2. /\ p \in [1..n -> 1..n] /\ Len(p) = n /\ DOMAIN p = 1..n
      /\ \A i, j \in 1..n : p[i] = p[j] => i = j
  BY PermOrder DEF Perms
<1>3. \A k \in 1..n : \E i \in 1..n : p[i] = k
  <2>1. TP!IsInjective(p)
    BY PermOrder, Once_
  <2> QED BY <1>2, <2>1, Assumed, TP!RankingOnto
<1>4. /\ q = [k \in 1..n |-> q[k]]
      /\ \A k \in 1..n : q[k] \in 1..n /\ p[q[k]] = k
  BY <1>2, <1>3 DEF Block!Inverted
<1>5. w \in [1..n -> Nat] /\ w \in Seq(Nat) /\ Len(w) = n
  <2>1. w = [i \in 1..n |-> t.shape[p[i]]]
    BY <1>2 DEF Compose
  <2>2. w \in [1..n -> Nat]
    BY <1>1, <1>2, <2>1
  <2> HIDE DEF w
  <2> QED BY <2>2
<1>6. y \in TP!MetaRecords /\ TP!Laid(y) /\ y.shape = w
  BY <1>5, Assumed, TP!PlainLaid, TP!PlainShape
<1>7. q \in Seq(Nat \ {0}) /\ TP!IsInjective(q) /\ Len(q) = n
      /\ \A i \in 1..n : q[i] <= n
  <2>1. q \in [1..n -> 1..n]
    BY <1>4
  <2>2. \A i, j \in 1..n : q[i] = q[j] => i = j
    BY <1>4
  <2> HIDE DEF q
  <2>3. q \in [1..n -> Nat \ {0}]
    BY <2>1
  <2> QED BY <2>1, <2>2, <2>3 DEF TP!IsInjective
<1>8. z \in TP!MetaRecords /\ TP!Laid(z) /\ z.shape = Compose(w, q)
  <2> HIDE DEF y, q, w
  <2>1. z \in TP!MetaRecords /\ TP!Laid(z)
    BY <1>5, <1>6, <1>7, Assumed, TP!PermutedLaid
  <2>2. z.shape = TP!Compose(w, q)
    BY <1>6, Assumed, TP!PermutedShape
  <2> QED BY <2>1, <2>2 DEF TP!Compose, Compose
<1>9. Compose(w, q) = t.shape
  <2>1. Compose(w, q) = [k \in 1..n |-> w[q[k]]]
    BY <1>7 DEF Compose
  <2>2. \A k \in 1..n : w[q[k]] = t.shape[k]
    BY <1>2, <1>4 DEF Compose
  <2> HIDE DEF w, q
  <2> QED BY <1>1, <2>1, <2>2
<1>10. Ordered(t, p) = z
  BY SameParts DEF Ordered
<1> HIDE DEF z
<1> QED BY <1>8, <1>9, <1>10, Assumed, TP!OnStore DEF TP!MetaRecords

\* What mv_elem leaves of an operand.
LEMMA OrderedFits ==
  ASSUME DInv, NEW f \in Handles, Usable(f), ~meta[f].diag, meta[f].bonds # <<>>,
         NEW p \in Perms(Rank(meta[f])), NEW moved \in BOOLEAN,
         NEW s \in OrderedOn(f, p, moved)
  PROVE  LET x == OrderedImpl(f, p, s, moved)
         IN /\ s \in Stores /\ x \in TP!ImplRecords /\ TP!Laid(x) /\ x.st = s
            /\ x.shape = TP!T(f).shape /\ TP!Sized(OrderedStore(f, p, moved))
<1> DEFINE n == Rank(meta[f])
           x == OrderedImpl(f, p, s, moved)
<1>1. /\ TP!IInv /\ TP!Whole(f) /\ Proper(meta[f]) /\ TP!T(f).shape = BlockShape(meta[f])
      /\ Block!T(f) = TP!T(f) /\ Block!S(f) = TP!S(f)
  BY UsableIs, SameBlock
<1>2. /\ TP!T(f) \in TP!ImplRecords /\ TP!T(f).st \in Stores
      /\ TP!Laid(TP!T(f)) /\ TP!Sized(TP!S(f))
  BY <1>1, Assumed, TP!Wholly
<1>3. n \in Nat /\ Len(TP!T(f).shape) = n
  <2>1. BlockShape(meta[f]) = Dims(meta[f])
    BY DEF BlockShape
  <2> QED BY <1>1, <2>1, ShapeOfDims DEF Proper, Metas, Rank
<1>4. s \in Stores
  BY <1>1, <1>2 DEF OrderedOn
<1>5. x \in TP!ImplRecords /\ TP!Laid(x) /\ x.st = s /\ x.shape = TP!T(f).shape
  <2>1. CASE moved
    <3>1. x = [Ordered(TP!T(f), p) EXCEPT !.st = s]
      BY <1>1, <2>1 DEF OrderedImpl
    <3> HIDE DEF x, n
    <3> QED BY <1>2, <1>3, <1>4, <3>1, OrderedIs DEF n
  <2>2. CASE ~moved
    <3>1. x = TP!T(f) /\ s = TP!T(f).st
      BY <1>1, <2>2 DEF OrderedImpl, OrderedOn
    <3> QED BY <1>2, <3>1
  <2> QED BY <2>1, <2>2
<1>6. TP!Sized(OrderedStore(f, p, moved))
  <2>1. CASE moved
    <3>1. OrderedStore(f, p, moved) = TP!ContiStore(TP!Permuted(TP!T(f), p), TP!S(f))
      BY <1>1, <2>1, SameParts, SameStore DEF OrderedStore
    <3> QED BY <1>2, <3>1, Assumed, TP!MovedSized
  <2>2. CASE ~moved
    BY <1>1, <1>2, <2>2 DEF OrderedStore
  <2> QED BY <2>1, <2>2
<1> QED BY <1>4, <1>5, <1>6

\* The orders that mv_elem brings the axes in: those contracted last, or first.
LEMMA MovedOrder ==
  ASSUME NEW k \in Nat, NEW idx \in Seq(1..k), IsInjective(idx)
  PROVE  /\ Others(k, Members(idx)) \o idx \in Perms(k)
         /\ idx \o Others(k, Members(idx)) \in Perms(k)
<1> DEFINE Q == 1..k
           o == Others(k, Members(idx))
<1>1. o \in Seq(Q) /\ IsInjective(o) /\ Members(o) = Q \ Members(idx)
  BY OthersAre
<1>2. idx \in Seq(Q) /\ Members(idx) \subseteq Q
  BY DEF Members
<1> HIDE DEF o, Q
<1>3. /\ o \o idx \in Seq(Q) /\ IsInjective(o \o idx) /\ Members(o \o idx) = Q
      /\ idx \o o \in Seq(Q) /\ IsInjective(idx \o o) /\ Members(idx \o o) = Q
  <2> DEFINE A == Members(o)
             C == Members(idx)
  <2>1. A \cap C = {} /\ C \cap A = {} /\ A \cup C = Q /\ C \cup A = Q
    BY <1>1, <1>2
  <2>2. /\ o \o idx \in Seq(Q) /\ Members(o \o idx) = A \cup C
        /\ A \cap C = {} => IsInjective(o \o idx)
    BY <1>1, <1>2, ConcatMembers
  <2>3. /\ idx \o o \in Seq(Q) /\ Members(idx \o o) = C \cup A
        /\ C \cap A = {} => IsInjective(idx \o o)
    BY <1>1, <1>2, ConcatMembers
  <2> HIDE DEF A, C
  <2> QED BY <2>1, <2>2, <2>3
<1> QED BY <1>3, MembersPerm DEF o, Q

LEMMA ContractMovedInv ==
  ASSUME DInv, NEW h \in Handles, NEW f \in Handles, NEW g \in Handles,
         NEW mvF \in BOOLEAN, NEW mvG \in BOOLEAN, ContractMoved(h, f, g, mvF, mvG)
  PROVE  DInv'
<1> DEFINE m == meta[f]
           n == meta[g]
           c == Common(m, n)
           r == MetaContracted(m, n)
           im == Indices(m, c)
           in == Indices(n, c)
           left == Others(Rank(m), Range(im)) \o im
           right == in \o Others(Rank(n), Range(in))
           x == BlockContracted(Content(f), Content(g), m, n)
<1>1. /\ Usable(f) /\ Usable(g) /\ ~m.diag /\ ~n.diag
      /\ Contractible(m, n) /\ c # <<>> /\ ref[f] # ref[g] /\ Describe(h, r)
  BY DEF ContractMoved
<1>2. PICK i \in Impls \ Block!Live(ref), s \in Stores \ Block!Used,
           sf \in OrderedOn(f, left, mvF), sg \in OrderedOn(g, right, mvG) :
        Block!Commit(
          [ref EXCEPT ![h] = i],
          [impl EXCEPT ![i] = [Block!Plain(x.shape) EXCEPT !.st = s],
                       ![ref[f]] = OrderedImpl(f, left, sf, mvF),
                       ![ref[g]] = OrderedImpl(g, right, sg, mvG)],
          [heap EXCEPT ![sf] = OrderedStore(f, left, mvF),
                       ![sg] = OrderedStore(g, right, mvG),
                       ![s]  = Block!FromVector("Int64", x.data)],
          torn)
  BY DEF ContractMoved
<1>3. /\ Proper(m) /\ Proper(n) /\ Rank(m) \in Nat /\ Rank(n) \in Nat
      /\ TP!IInv /\ TP!Whole(f) /\ TP!Whole(g)
  BY <1>1, UsableIs DEF Proper, Metas, Rank
<1>4. im \in Seq(1..Rank(m)) /\ IsInjective(im) /\ Range(im) = Members(im) /\ Len(im) = Len(c)
  BY <1>3, KeptFits
<1>5. in \in Seq(1..Rank(n)) /\ IsInjective(in) /\ Range(in) = Members(in) /\ Len(in) = Len(c)
  <2>1. c = Common(n, m)
    BY CommonSame
  <2> HIDE DEF c
  <2> QED BY <1>3, <2>1, KeptFits
<1>6. left \in Perms(Rank(m)) /\ right \in Perms(Rank(n))
  <2> HIDE DEF im, in, m, n
  <2>1. Others(Rank(m), Members(im)) \o im \in Perms(Rank(m))
    BY <1>3, <1>4, MovedOrder
  <2>2. in \o Others(Rank(n), Members(in)) \in Perms(Rank(n))
    BY <1>3, <1>5, MovedOrder
  <2> QED BY <1>4, <1>5, <2>1, <2>2
<1>7. m.bonds # <<>> /\ n.bonds # <<>>
  <2>1. Len(c) \in Nat \ {0}
    BY <1>1, <1>3, CommonIs
  <2> HIDE DEF c, im, in, m, n
  <2>2. Rank(m) # 0 /\ Rank(n) # 0
    <3> DEFINE Q == 1..Rank(m)
               R == 1..Rank(n)
    <3>1. /\ im \in Seq(Q) /\ in \in Seq(R) /\ Len(im) \in Nat \ {0}
          /\ Len(in) \in Nat \ {0}
      BY <1>4, <1>5, <2>1
    <3> HIDE DEF Q, R
    <3>2. im[1] \in Q /\ in[1] \in R
      BY <3>1
    <3> QED BY <1>3, <3>2 DEF Q, R
  <2> QED BY <1>3, <2>2 DEF Proper, Rank
<1>8. /\ Proper(r) /\ x.shape = BlockShape(r)
      /\ x.shape \in Seq(Nat) /\ Len(x.data) \in Nat
  <2>1. r.diag = (m.diag /\ n.diag /\ im # <<>>)
    BY DEF MetaContracted, Updated
  <2>2. ~Breaks(f, g)
    BY <1>1, <2>1 DEF Breaks, OneBlock
  <2> QED BY <1>1, <2>2, BlockContractedIs
<1> DEFINE y == TP!Plain(x.shape)
           o == TP!FromVector("Int64", x.data)
           tf == OrderedImpl(f, left, sf, mvF)
           tg == OrderedImpl(g, right, sg, mvG)
           of == OrderedStore(f, left, mvF)
           og == OrderedStore(g, right, mvG)
<1>9. /\ sf \in Stores /\ tf \in TP!ImplRecords /\ TP!Laid(tf) /\ tf.st = sf
      /\ tf.shape = TP!T(f).shape /\ TP!Sized(of)
  <2> HIDE DEF left
  <2> QED BY <1>1, <1>6, <1>7, OrderedFits
<1>10. /\ sg \in Stores /\ tg \in TP!ImplRecords /\ TP!Laid(tg) /\ tg.st = sg
       /\ tg.shape = TP!T(g).shape /\ TP!Sized(og)
  <2> HIDE DEF right
  <2> QED BY <1>1, <1>6, <1>7, OrderedFits
<1> HIDE DEF x, r, left, right
<1>11. /\ y \in TP!MetaRecords /\ TP!Laid(y) /\ y.shape = x.shape /\ TP!Sized(o)
  BY <1>8, Assumed, TP!PlainLaid, TP!PlainShape, TP!NewSized
<1>12. i \in Impls \ TP!Live(ref) /\ s \in Stores
  BY SameParts
<1>13. TP!Commit([ref EXCEPT ![h] = i],
                 [impl EXCEPT ![i] = [y EXCEPT !.st = s], ![ref[f]] = tf, ![ref[g]] = tg],
                 [heap EXCEPT ![sf] = of, ![sg] = og, ![s] = o], torn)
  <2>1. \A a, b, d, e : Block!Commit(a, b, d, e) <=> TP!Commit(a, b, d, e)
    BY DEF Block!Commit, TP!Commit, Block!Live, TP!Live
  <2>2. Block!Plain(x.shape) = y /\ Block!FromVector("Int64", x.data) = o
    BY SameParts
  <2> HIDE DEF y, o, tf, tg, of, og
  <2>3. Block!Commit([ref EXCEPT ![h] = i],
                 [impl EXCEPT ![i] = [y EXCEPT !.st = s], ![ref[f]] = tf, ![ref[g]] = tg],
                 [heap EXCEPT ![sf] = of, ![sg] = og, ![s] = o], torn)
    BY <1>2, <2>2 DEF tf, tg, of, og
  <2> QED BY <2>1, <2>3
<1> HIDE DEF y, o, tf, tg, of, og
<1>14. TP!IInv' /\ TP!Gets(h, y.shape)
  BY <1>1, <1>3, <1>9, <1>10, <1>11, <1>12, <1>13, Assumed, TP!RelaidGets
<1> QED BY <1>1, <1>8, <1>11, <1>14, DescribeInv

-----------------------------------------------------------------------------
(* Trace_ and truncate_.                                                   *)

LEMMA MetaTracedFits ==
  ASSUME NEW m, Proper(m), m.bonds # <<>>, NEW i \in 1..Rank(m), NEW j \in 1..Rank(m), i # j
  PROVE  LET r == MetaTraced(m, i, j)
             d == Compose(Dims(m), Others(Rank(m), {i, j}))
         IN /\ Proper(r) /\ d \in Seq(Nat)
            /\ BlockShape(r) = IF m.diag \/ d = <<>> THEN <<1>> ELSE d
<1> DEFINE k == Rank(m)
           Q == 1..k
           R == {i, j}
           f == Others(k, R)
           l == Compose(m.labels, f)
           b == Compose(m.bonds, f)
           d == Compose(Dims(m), f)
           p == <<i, j>>
           w == Left(m, p)
           r == [m EXCEPT !.labels = l, !.bonds = b, !.rowrank = w]
<1>1. /\ f \in Seq(Q) /\ Len(f) \in Nat
      /\ l \in Seq(Nat) /\ Len(l) = Len(f) /\ IsInjective(l)
      /\ b \in Seq(Legs) /\ Len(b) = Len(f)
      /\ \A a \in 1..Len(f) : (b[a].type # B!BD_REG) = m.tag
      /\ d \in Seq(Nat) /\ Len(d) = Len(f)
      /\ \A a \in 1..Len(f) : d[a] = b[a].dim
  <2> HIDE DEF R
  <2> QED BY RestFits
<1>2. p \in Seq(Q) /\ IsInjective(p) /\ Members(p) = R
  <2>1. i \in Q /\ j \in Q
    OBVIOUS
  <2> HIDE DEF Q
  <2>2. p \in Seq(Q) /\ Len(p) = 2 /\ p[1] = i /\ p[2] = j /\ DOMAIN p = 1..2
    BY <2>1
  <2> HIDE DEF p
  <2>3. IsInjective(p)
    BY <2>2 DEF IsInjective
  <2>4. Members(p) = R
    BY <2>2 DEF Members
  <2> QED BY <2>2, <2>3, <2>4
<1>3. w \in 0..Len(f)
  <2> HIDE DEF p, R
  <2>1. Left(m, p) \in 0..Len(Others(Rank(m), Members(p)))
    BY <1>2, LeftIs
  <2> QED BY <1>2, <2>1
<1>4. m.diag => Len(f) = 0
  <2>1. m.diag => k = 2
    BY DEF Proper, Rank
  <2>2. Len(Others(k, Members(p))) = k - Len(p)
    <3>1. k \in Nat
      BY DEF Proper, Metas, Rank
    <3> HIDE DEF k, p
    <3> QED BY <1>2, <3>1, OthersCount
  <2>3. Len(p) = 2
    OBVIOUS
  <2> HIDE DEF k, p, R
  <2> QED BY <1>2, <2>1, <2>2, <2>3
<1>5. MetaTraced(m, i, j) = r
  BY DEF MetaTraced
<1>6. m \in Metas
  BY DEF Proper
<1> HIDE DEF f, l, b, d, w
<1>7. /\ r \in Metas /\ r.labels = l /\ r.bonds = b /\ r.rowrank = w
      /\ r.diag = m.diag /\ r.tag = m.tag
  <2>1. w \in Nat
    BY <1>1, <1>3
  <2>2. l \in Seq(Nat) /\ b \in Seq(Legs)
    BY <1>1
  <2> QED BY <1>6, <2>1, <2>2 DEF Metas
<1> HIDE DEF r
<1>8. DOMAIN b = 1..Len(f) /\ (b = <<>> <=> Len(f) = 0) /\ (d = <<>> <=> Len(f) = 0)
  BY <1>1
<1>9. Proper(r)
  <2>1. r.diag => r.bonds = <<>>
    BY <1>4, <1>7, <1>8
  <2>2. \A a \in DOMAIN r.bonds : (r.bonds[a].type # B!BD_REG) = r.tag
    BY <1>1, <1>7, <1>8
  <2>3. r.rowrank \in 0..Rank(r) /\ Len(r.labels) = Len(r.bonds) /\ IsInjective(r.labels)
    BY <1>1, <1>3, <1>7 DEF Rank
  <2> QED BY <1>7, <2>1, <2>2, <2>3 DEF Proper
<1>10. Dims(r) = d
  <2>1. Dims(r) = [a \in 1..Len(f) |-> b[a].dim]
    BY <1>7, <1>8 DEF Dims
  <2>2. d = [a \in 1..Len(f) |-> d[a]]
    BY <1>1
  <2> QED BY <1>1, <2>1, <2>2
<1>11. BlockShape(r) = IF m.diag \/ d = <<>> THEN <<1>> ELSE d
  BY <1>4, <1>7, <1>8, <1>10 DEF BlockShape
<1> QED BY <1>1, <1>5, <1>9, <1>11 DEF d, f

\* What Tensor::Trace returns.
LEMMA TracedIs ==
  ASSUME NEW t, t.shape \in Seq(Nat), NEW i, NEW j,
         Compose(t.shape, Others(Len(t.shape), {i, j})) \in Seq(Nat)
  PROVE  LET x == Traced(t, i, j)
         IN /\ x.shape = Compose(t.shape, Others(Len(t.shape), {i, j}))
            /\ Len(x.data) \in Nat
<1> DEFINE x == Traced(t, i, j)
           w == Compose(t.shape, Others(Len(t.shape), {i, j}))
           n == Prod(w)
<1>1. x.shape = w
  BY Zenon DEF Traced
<1>2. x.data = [a \in 1..n |-> x.data[a]]
  BY Zenon DEF Traced
<1>3. n \in Nat
  BY ProdNat
<1> HIDE DEF x, n
<1>4. Len(x.data) = n
  BY <1>2, <1>3, LengthIs
<1> QED BY <1>1, <1>3, <1>4 DEF x

LEMMA NumberIs ==
  ASSUME NEW v
  PROVE  /\ Number(v).shape = <<1>> /\ Number(v).shape \in Seq(Nat)
         /\ Len(Number(v).data) \in Nat
BY DEF Number

LEMMA Trace_Inv ==
  ASSUME DInv, NEW h \in Handles, NEW i \in 1..MaxRank, NEW j \in 1..MaxRank, Trace_(h, i, j)
  PROVE  DInv'
<1> DEFINE m == meta[h]
           x == Content(h)
           t == Traced(x, i, j)
           r == MetaTraced(m, i, j)
           y == IF m.diag THEN SumOf(x) ELSE IF t.shape = <<>> THEN Number(t.data[1]) ELSE t
           d == Compose(Dims(m), Others(Rank(m), {i, j}))
<1>1. /\ Usable(h) /\ i # j /\ i \in 1..Rank(m) /\ j \in 1..Rank(m)
      /\ BindBlock(h, y) /\ Describe(h, r)
  BY DEF Trace_
<1>2. Proper(m) /\ Rank(m) \in Nat
  BY <1>1, UsableIs DEF Proper, Metas, Rank
<1>3. m.bonds # <<>>
  <2>1. Rank(m) # 0
    BY <1>1, <1>2
  <2> QED BY <1>2, <2>1 DEF Proper, Rank
<1>4. Proper(r) /\ d \in Seq(Nat) /\ BlockShape(r) = IF m.diag \/ d = <<>> THEN <<1>> ELSE d
  BY <1>1, <1>2, <1>3, MetaTracedFits
<1> HIDE DEF r
<1>5. y.shape = BlockShape(r) /\ y.shape \in Seq(Nat) /\ Len(y.data) \in Nat
  <2>1. CASE m.diag
    <3> DEFINE v == SumOver(1, Len(x.data), LAMBDA n : x.data[n])
    <3>1. y = Number(v)
      BY <2>1, Zenon DEF SumOf
    <3> HIDE DEF v, y
    <3> QED BY <1>4, <2>1, <3>1, NumberIs
  <2>2. CASE ~m.diag
    <3>1. x.shape = Dims(m)
      BY <1>1, <1>3, <2>2, ContentIs DEF BlockShape
    <3>2. Dims(m) \in Seq(Nat) /\ Len(Dims(m)) = Rank(m)
      BY <1>2, ShapeOfDims
    <3> HIDE DEF x
    <3>3. t.shape = d /\ Len(t.data) \in Nat
      <4>1. Compose(x.shape, Others(Len(x.shape), {i, j})) = d /\ x.shape \in Seq(Nat)
        BY <3>1, <3>2
      <4>2. Compose(x.shape, Others(Len(x.shape), {i, j})) \in Seq(Nat)
        BY <1>4, <4>1
      <4> HIDE DEF d
      <4>3. /\ Traced(x, i, j).shape = Compose(x.shape, Others(Len(x.shape), {i, j}))
            /\ Len(Traced(x, i, j).data) \in Nat
        BY <4>1, <4>2, TracedIs
      <4> QED BY <4>1, <4>3
    <3> HIDE DEF t, d
    <3>4. CASE d = <<>>
      <4>1. y = Number(t.data[1])
        BY <2>2, <3>3, <3>4
      <4> HIDE DEF y
      <4> QED BY <1>4, <3>4, <4>1, NumberIs
    <3>5. CASE d # <<>>
      <4>1. y = t
        BY <2>2, <3>3, <3>5
      <4> QED BY <1>4, <2>2, <3>3, <3>5, <4>1
    <3> QED BY <3>4, <3>5
  <2> QED BY <2>1, <2>2
<1> HIDE DEF y
<1>6. TP!IInv' /\ TP!Gets(h, y.shape)
  BY <1>1, <1>5, BlockGets
<1> QED BY <1>1, <1>4, <1>5, <1>6, DescribeInv

\* m after truncate_: the dimension of the legs in K is dim.
CutTo(m, K, dim) ==
  [m EXCEPT !.bonds = [j \in DOMAIN m.bonds |->
     IF j \in K THEN [m.bonds[j] EXCEPT !.dim = dim] ELSE m.bonds[j]]]

LEMMA MetaCutFits ==
  ASSUME NEW m, NEW dim \in Nat, NEW K, Proper(m), m.bonds # <<>>,
         m.diag => \A j \in 1..Rank(m) : j \in K
  PROVE  LET r == CutTo(m, K, dim)
         IN /\ Proper(r)
            /\ BlockShape(r) = IF m.diag THEN <<dim>>
                               ELSE [j \in 1..Rank(m) |-> IF j \in K THEN dim ELSE Dims(m)[j]]
<1> DEFINE k == Rank(m)
           b == [j \in DOMAIN m.bonds |->
                   IF j \in K THEN [m.bonds[j] EXCEPT !.dim = dim] ELSE m.bonds[j]]
           r == [m EXCEPT !.bonds = b]
<1>1. /\ m \in Metas /\ k \in Nat /\ k # 0 /\ DOMAIN m.bonds = 1..k
      /\ m.bonds \in [1..k -> Legs] /\ m.tag \in BOOLEAN /\ Len(m.labels) = k
      /\ m.diag => k = 2
  BY DEF Proper, Metas, Rank
<1>2. ASSUME NEW j \in 1..k
      PROVE  /\ b[j] \in Legs /\ b[j].type = m.bonds[j].type
             /\ b[j].dim = IF j \in K THEN dim ELSE m.bonds[j].dim
  <2>1. m.bonds[j] \in Legs
        /\ b[j] = IF j \in K THEN [m.bonds[j] EXCEPT !.dim = dim] ELSE m.bonds[j]
    BY <1>1
  <2> HIDE DEF b
  <2> QED BY <2>1 DEF Legs
<1>3. b \in Seq(Legs) /\ Len(b) = k /\ DOMAIN b = 1..k /\ b # <<>>
  <2>1. DOMAIN b = 1..k /\ b = [j \in 1..k |-> b[j]]
    BY <1>1
  <2> HIDE DEF b
  <2>2. b \in [1..k -> Legs]
    BY <1>2, <2>1
  <2> HIDE DEF k
  <2>3. Len(b) = k
    BY <1>1, <2>1, LengthIs
  <2> QED BY <1>1, <2>1, <2>2, <2>3
<1> HIDE DEF b
<1>4. /\ r \in Metas /\ r.labels = m.labels /\ r.bonds = b /\ r.rowrank = m.rowrank
      /\ r.diag = m.diag /\ r.tag = m.tag
  BY <1>1, <1>3 DEF Metas
<1> HIDE DEF r
<1>5. Proper(r)
  <2>1. \A j \in DOMAIN r.bonds : (r.bonds[j].type # B!BD_REG) = r.tag
    <3>1. \A j \in 1..k : (m.bonds[j].type # B!BD_REG) = m.tag
      BY <1>1 DEF Proper
    <3>2. ASSUME NEW j \in 1..k PROVE (r.bonds[j].type # B!BD_REG) = r.tag
      <4>1. r.bonds[j].type = m.bonds[j].type /\ r.tag = m.tag
        BY <1>2, <1>4
      <4> QED BY <3>1, <4>1, Zenon
    <3> QED BY <1>3, <1>4, <3>2
  <2>2. r.diag => Len(r.bonds) = 2 /\ r.bonds[1].dim = r.bonds[2].dim
    BY <1>1, <1>2, <1>3, <1>4
  <2>3. IsInjective(r.labels) /\ Len(r.labels) = Len(r.bonds) /\ r.rowrank \in 0..Rank(r)
    BY <1>1, <1>3, <1>4 DEF Proper, Rank
  <2> QED BY <1>4, <2>1, <2>2, <2>3 DEF Proper
<1>6. CASE m.diag
  <2>1. b[1].dim = dim
    BY <1>1, <1>2, <1>6
  <2>2. BlockShape(r) = <<dim>>
    BY <1>3, <1>4, <1>6, <2>1 DEF BlockShape
  <2> QED BY <1>5, <1>6, <2>2 DEF r, b, CutTo
<1>7. CASE ~m.diag
  <2> DEFINE d == [j \in 1..k |-> IF j \in K THEN dim ELSE Dims(m)[j]]
  <2>1. BlockShape(r) = [j \in 1..k |-> b[j].dim]
    BY <1>3, <1>4, <1>7 DEF BlockShape, Dims
  <2>2. \A j \in 1..k : Dims(m)[j] = m.bonds[j].dim
    BY <1>1 DEF Dims
  <2>3. BlockShape(r) = d
    BY <1>2, <2>1, <2>2
  <2> QED BY <1>5, <1>7, <2>3 DEF r, b, CutTo
<1> QED BY <1>6, <1>7

LEMMA Truncate_Inv ==
  ASSUME DInv, NEW h \in Handles, NEW i, NEW dim, Truncate_(h, i, dim)
  PROVE  DInv'
<1> DEFINE m == meta[h]
           k == Rank(m)
           K == {j \in 1..k : m.diag \/ j = i}
           range == Block!Range_(0, dim, 1)
           accs == IF m.diag THEN <<range>>
                   ELSE [j \in 1..k |-> IF j = i THEN range ELSE Block!All]
           b == [j \in DOMAIN m.bonds |->
                   IF j \in K THEN [m.bonds[j] EXCEPT !.dim = dim] ELSE m.bonds[j]]
           r == [m EXCEPT !.bonds = b]
           t == TP!T(h)
           w == TP!GotImpl(t, accs).shape
<1>1. /\ Usable(h) /\ i \in 1..k /\ dim \in 1..(m.bonds[i].dim - 1)
      /\ Block!Get(h, h, accs)
      /\ Describe(h, [m EXCEPT !.bonds = [j \in DOMAIN m.bonds |->
                        IF m.diag \/ j = i THEN [m.bonds[j] EXCEPT !.dim = dim]
                                           ELSE m.bonds[j]]])
  BY DEF Truncate_
<1>2. /\ TP!IInv /\ TP!Whole(h) /\ Proper(m) /\ k \in Nat /\ t.shape = BlockShape(m)
      /\ m.bonds \in Seq(Legs) /\ Len(m.bonds) = k /\ DOMAIN m.bonds = 1..k
      /\ m.diag \in BOOLEAN
  BY <1>1, UsableIs DEF Proper, Metas, Rank
<1>3. m.bonds # <<>> /\ dim \in Nat \ {0}
  <2>1. m.bonds[i] \in Legs
    BY <1>1, <1>2
  <2> QED BY <1>1, <1>2, <2>1 DEF Legs
<1>4. Describe(h, r)
  <2>1. [j \in DOMAIN m.bonds |-> IF m.diag \/ j = i THEN [m.bonds[j] EXCEPT !.dim = dim]
                                                   ELSE m.bonds[j]] = b
    BY <1>2
  <2> HIDE DEF b
  <2> QED BY <1>1, <2>1
<1>5. /\ Proper(r)
      /\ BlockShape(r) = IF m.diag THEN <<dim>>
                         ELSE [j \in 1..k |-> IF j \in K THEN dim ELSE Dims(m)[j]]
  <2>1. m.diag => \A j \in 1..Rank(m) : j \in K
    OBVIOUS
  <2>2. Proper(m) /\ m.bonds # <<>> /\ dim \in Nat
    BY <1>2, <1>3
  <2>3. r = CutTo(m, K, dim)
    BY DEF CutTo
  <2> HIDE DEF K, m, r
  <2> QED BY <2>1, <2>2, <2>3, MetaCutFits
<1>6. TP!Range_(0, dim, 1) = range /\ TP!All = Block!All
  BY DEF TP!Range_, Block!Range_, TP!All, Block!All
<1>7. /\ range \in TP!Accessors /\ range # TP!All /\ range.type = "Range"
      /\ \A d \in Nat : Len(TP!Positions(range, d)) = dim
      /\ TP!All \in TP!Accessors /\ TP!All.type # "Singl"
  <2>1. TP!All \in TP!Accessors /\ TP!All.type # "Singl"
    BY DEF TP!All, TP!Accessors
  <2>2. \A d \in Nat : /\ TP!Range_(0, dim, 1) \in TP!Accessors
                       /\ TP!Range_(0, dim, 1) # TP!All
                       /\ TP!Range_(0, dim, 1).type = "Range"
                       /\ Len(TP!Positions(TP!Range_(0, dim, 1), d)) = dim
    BY <1>3, Assumed, TP!RangeCount
  <2> HIDE DEF range
  <2> QED BY <1>6, <2>1, <2>2
<1> HIDE DEF r, range, t
<1>8. accs \in Seq(TP!Accessors) /\ \A j \in 1..Len(accs) : accs[j].type # "Singl"
  <2>1. CASE m.diag
    <3>1. accs = <<range>>
      BY <2>1
    <3> HIDE DEF accs
    <3> QED BY <1>7, <3>1
  <2>2. CASE ~m.diag
    <3>1. accs = [j \in 1..k |-> IF j = i THEN range ELSE TP!All]
      BY <1>6, <2>2
    <3> HIDE DEF accs, k
    <3>2. accs \in [1..k -> TP!Accessors] /\ \A j \in 1..k : accs[j].type # "Singl"
      BY <1>7, <3>1
    <3>3. Len(accs) = k
      BY <1>2, <3>1
    <3> QED BY <1>2, <3>2, <3>3
  <2> QED BY <2>1, <2>2
<1>9. TP!Get(h, h, accs) /\ TP!Accepts(t, accs)
  <2>1. TP!Get(h, h, accs)
    BY <1>1, SameGet
  <2> QED BY <2>1 DEF TP!Get, t
<1>10. t \in TP!MetaRecords /\ TP!Laid(t) /\ t.shape # <<>> /\ t.shape \in Seq(Nat)
  BY <1>2, Assumed, TP!Wholly, ShapeNat DEF t
<1> HIDE DEF accs
<1>11. LET n == Len(t.shape)
       IN /\ w \in Seq(Nat) /\ Len(w) = n
          /\ \A j \in 1..n :
               w[j] = IF j <= Len(accs) /\ accs[j] # TP!All
                      THEN Len(TP!Positions(accs[j], t.shape[j])) ELSE t.shape[j]
  BY <1>8, <1>9, <1>10, Assumed, TP!GotCut
<1>12. TP!IInv' /\ TP!Gets(h, w)
  BY <1>2, <1>8, <1>9, Assumed, TP!SliceGets DEF t
<1> HIDE DEF w
<1>13. w = BlockShape(r)
  <2>1. CASE m.diag
    <3>1. accs = <<range>> /\ Len(accs) = 1 /\ accs[1] = range
      BY <2>1 DEF accs
    <3>2. Len(t.shape) = 1 /\ t.shape[1] \in Nat
      <4>1. t.shape = <<m.bonds[1].dim>>
        BY <1>2, <1>3, <2>1 DEF BlockShape
      <4>2. Len(t.shape) = 1
        BY <4>1
      <4> QED BY <1>10, <4>2
    <3>3. w \in Seq(Nat) /\ Len(w) = 1 /\ w[1] = dim
      BY <1>7, <1>11, <3>1, <3>2
    <3>4. w = <<dim>>
      BY <3>3
    <3> QED BY <1>5, <2>1, <3>4
  <2>2. CASE ~m.diag
    <3>1. t.shape = Dims(m) /\ Len(t.shape) = k /\ \A j \in 1..k : t.shape[j] \in Nat
      <4>1. t.shape = Dims(m)
        BY <1>2, <1>3, <2>2 DEF BlockShape
      <4>2. Len(Dims(m)) = k
        BY <1>2, ShapeOfDims
      <4> QED BY <1>10, <4>1, <4>2
    <3>2. accs = [j \in 1..k |-> IF j = i THEN range ELSE TP!All]
      BY <1>6, <2>2 DEF accs
    <3>3. Len(accs) = k
      BY <1>2, <3>2
    <3>4. ASSUME NEW j \in 1..k
          PROVE  w[j] = IF j \in K THEN dim ELSE Dims(m)[j]
      <4>1. accs[j] = IF j = i THEN range ELSE TP!All
        BY <3>2
      <4>2. j <= Len(accs)
        BY <1>2, <3>3
      <4>3. w[j] = IF accs[j] # TP!All
                   THEN Len(TP!Positions(accs[j], t.shape[j])) ELSE t.shape[j]
        BY <1>11, <3>1, <4>2
      <4>4. j \in K <=> j = i
        BY <2>2
      <4> HIDE DEF K
      <4> QED BY <1>7, <3>1, <4>1, <4>3, <4>4
    <3>5. w = [j \in 1..k |-> w[j]]
      BY <1>2, <1>11, <3>1
    <3> HIDE DEF K, k
    <3>6. w = [j \in 1..k |-> IF j \in K THEN dim ELSE Dims(m)[j]]
      BY <3>4, <3>5
    <3> QED BY <1>5, <2>2, <3>6
  <2> QED BY <2>1, <2>2
<1> QED BY <1>4, <1>5, <1>12, <1>13, DescribeInv

-----------------------------------------------------------------------------
(* The theorems.                                                           *)

\* Nothing is reshaped to a UniTensor without legs: its block would be one without
\* axes, and that of a UniTensor made without legs has one.
SomeLegs == \A ns \in NewShapes : ns # <<>>

LEMMA AssignsInv ==
  ASSUME DInv, Careful, SomeLegs, NEW h \in Handles, NEW g \in Handles, Assigns(h, g)
  PROVE  DInv'
<1>1. ASSUME NEW diag \in BOOLEAN, NEW rowrank \in Rowranks, OfBlock(h, g, diag, rowrank)
      PROVE  DInv'
  BY <1>1, OfBlockInv
<1>2. CASE Clone(h, g) \/ Contiguous(h, g)
  BY <1>2, CopiesInv
<1>3. CASE ToDense(h, g)
  BY <1>3, ToDenseInv
<1>4. ASSUME NEW labels \in Labellings, Relabel(h, g, labels) PROVE DInv'
  BY <1>4, RelabelInv
<1>5. ASSUME NEW p \in Orders, NEW rowrank \in Rowranks, Permute(h, g, p, rowrank)
      PROVE  DInv'
  BY <1>5, PermuteInv
<1>6. ASSUME NEW ns \in NewShapes, NEW rowrank \in Rowranks, Reshape(h, g, ns, rowrank)
      PROVE  DInv'
  BY <1>6, ReshapesInv DEF SomeLegs
<1>7. ASSUME NEW accs \in Slices, Get(h, g, accs) PROVE DInv'
  BY <1>7, GetInv
<1>8. ASSUME NEW f \in Handles, Contract(h, f, g) PROVE DInv'
  BY <1>8, ContractInv
<1>9. ASSUME NEW f \in Handles, NEW mvF \in BOOLEAN, NEW mvG \in BOOLEAN,
             ContractMoved(h, f, g, mvF, mvG)
      PROVE  DInv'
  BY <1>9, ContractMovedInv
<1> QED BY <1>1, <1>2, <1>3, <1>4, <1>5, <1>6, <1>7, <1>8, <1>9 DEF Assigns

LEMMA UpdatesInv ==
  ASSUME DInv, Careful, SomeLegs, NEW h \in Handles, Updates(h)
  PROVE  DInv'
<1>1. CASE ToDense_(h)
  BY <1>1, ToDenseInv DEF ToDense_
<1>2. CASE Tag(h)
  BY <1>2, TagInv
<1>3. CASE Transpose_(h)
  BY <1>3, Transpose_Inv
<1>4. ASSUME NEW names \in Renamings, Relabel_(h, names[1], names[2]) PROVE DInv'
  BY <1>4, Relabel_Inv
<1>5. ASSUME NEW rowrank \in Rowranks, SetRowrank_(h, rowrank) PROVE DInv'
  BY <1>5, SetRowrank_Inv
<1>6. ASSUME NEW p \in Orders, NEW rowrank \in Rowranks, Permute_(h, p, rowrank)
      PROVE  DInv'
  BY <1>6, Permute_Inv
<1>7. ASSUME NEW p \in Orders, PermuteThrows(h, p) PROVE DInv'
  BY <1>7, PermuteThrowsInv
<1>8. ASSUME NEW ns \in NewShapes, NEW rowrank \in Rowranks,
             Reshape_(h, ns, rowrank) \/ ReshapeThrows(h, ns, rowrank)
      PROVE  DInv'
  BY <1>8, ReshapesInv, ReshapeThrowsInv DEF SomeLegs
<1>9. ASSUME NEW labels \in Groups,
             CombineThrows(h, labels) \/ \E force \in BOOLEAN : CombineBonds(h, labels, force)
      PROVE  DInv'
  BY <1>9, CombineThrowsInv, CombineBondsInv
<1>10. ASSUME NEW i \in 1..MaxRank, NEW j \in 1..MaxRank, Trace_(h, i, j) PROVE DInv'
  BY <1>10, Trace_Inv
<1>11. ASSUME NEW i \in 1..MaxRank, NEW dim \in 1..MaxSize, Truncate_(h, i, dim)
       PROVE  DInv'
  BY <1>11, Truncate_Inv
<1>12. ASSUME \/ Contiguous_(h)
              \/ \E v \in Values : AddScalar_(h, v) \/ \E n \in 1..MaxSize : SetItem(h, n, v)
       PROVE  DInv'
  BY <1>12, WritesInv
<1>13. ASSUME NEW g \in Handles,
              \/ PutBlock(h, g) \/ PutBlock_(h, g) \/ Add_(h, g)
              \/ \E force \in BOOLEAN : From_(h, g, force)
              \/ \E accs \in Slices : Set(h, accs, g)
       PROVE  DInv'
  BY <1>13, PutsInv, WritesInv
<1> QED BY <1>1, <1>2, <1>3, <1>4, <1>5, <1>6, <1>7, <1>8, <1>9, <1>10, <1>11, <1>12,
           <1>13 DEF Updates

LEMMA NextInv == Careful /\ SomeLegs => (DInv /\ [Next]_vars => DInv')
<1> SUFFICES ASSUME Careful, SomeLegs, DInv, [Next]_vars PROVE DInv'
  OBVIOUS
<1>1. CASE Next
  <2>1. PICK h \in Handles : \/ \E a \in NewTensors : Construct(h, a)
                             \/ \E g \in Handles : Assigns(h, g)
                             \/ Updates(h)
    BY <1>1 DEF Next
  <2> QED BY <2>1, ConstructInv, AssignsInv, UpdatesInv
<1>2. CASE UNCHANGED vars
  <2>1. ref' = ref /\ impl' = impl /\ heap' = heap /\ torn' = torn
        /\ meta' = meta /\ amiss' = amiss
    BY <1>2 DEF vars
  <2>2. TP!IInv'
    <3>1. TP!IInv /\ UNCHANGED TP!vars
      BY <2>1 DEF DInv, TP!vars
    <3> QED BY <3>1, Assumed, TP!NextInv
  <2> QED BY <2>1, <2>2 DEF DInv, Block!T
<1> QED BY <1>1, <1>2

LEMMA Invariance == Careful /\ SomeLegs /\ Spec => []DInv
<1>1. ASSUME Careful, SomeLegs PROVE Spec => []DInv
  <2>1. DInv /\ [Next]_vars => DInv'
    BY <1>1, NextInv
  <2> QED BY <2>1, StartInv, PTL DEF Spec
<1> QED BY <1>1

\* However UniTensors are made, permuted, reshaped, combined, truncated, traced and
\* contracted, refused calls included, the labels, bonds, directions and rowrank of
\* one fit one another and its block, whatever others share its Tensor_impl or its
\* storage, provided that the user keeps away from the calls that break one.
THEOREM MetaCorrect == Careful /\ SomeLegs /\ Spec => []MetaFits
<1>1. DInv => MetaFits
  BY Fitting
<1> QED BY <1>1, Invariance, PTL

\* And the blocks are laid out: what UniTensors do to them keeps the mappers
\* permutations that are inverse to one another, and contiguous means the identity.
THEOREM BlocksLaidOut == Careful /\ SomeLegs /\ Spec => []LayoutOK
<1>1. DInv => LayoutOK
  BY Fitting
<1> QED BY <1>1, Invariance, PTL
=============================================================================
