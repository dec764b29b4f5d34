--------------------------- MODULE DenseUniTensor ---------------------------
(***************************************************************************)
(* UniTensors without symmetries (DenseUniTensor): labels, bonds and a     *)
(* rowrank over one Tensor, the block, which has an axis per leg; of a     *)
(* diagonal UniTensor, which has two legs, only the diagonal.  The blocks  *)
(* are Tensors of the module Tensor and what happens to them is what       *)
(* happens there: ref[h] is the Tensor_impl of h's block.  relabel,        *)
(* put_block_ and a UniTensor made of get_block_() share that Tensor_impl, *)
(* permute and reshape of a UniTensor only its storage.                    *)
(*                                                                         *)
(* amiss are the UniTensors that a call which threw had written to: their  *)
(* labels and bonds do not fit their block, or one another.  Here they can *)
(* only be assigned, as those whose block is torn.                         *)
(*                                                                         *)
(* Left out: dtypes, devices and names; assignment and what returns the    *)
(* UniTensor itself, after which two variables are one; a UniTensor that   *)
(* is diagonal and without legs (a trace, or a contraction over both legs) *)
(* as an operand; repeated entries in what a diagonal one is permuted by;  *)
(* mv_elem of two UniTensors that have one Tensor_impl.                    *)
(***************************************************************************)
EXTENDS Linalg, FiniteSets

CONSTANTS Handles, Impls, Stores, Void, None, Raw,        \* as in Tensor
          Sizes, Shapes, NewShapes, Rankings, Values,
          MaxValue, MaxSize, UMax, SharedGrow,
          Slices, SlicePairs,                             \* as in Slicing
          NewTensors,  \* arguments of the constructor, bad ones too
          Labellings,  \* lists of labels
          Renamings,   \* old labels and the new ones, as pairs of lists
          Orders,      \* lists of legs that permute is called with
          Rowranks,    \* rowranks a user asks for; -1: none
          Groups,      \* labels of legs to combine
          MaxRank,     \* bound on the legs of outer products
          Careful      \* the user changes no layout that two UniTensors have, and
                       \* makes none of the contractions of Breaks

VARIABLES ref, impl, heap, torn,  \* as in Tensor
          meta,        \* meta[h]: what h has besides its block, or Void
          amiss        \* handles left by a call that threw on the way

Block == INSTANCE Slicing
B == INSTANCE BondImpl

\* Bonds without symmetries: a direction and a dimension.
Legs == [type : {B!BD_REG, B!BD_KET, B!BD_BRA}, dim : Nat]

\* What a user passes.  A label is a number: the code's are strings, those given by
\* default "0", "1", ...  Of the legs to combine none is listed twice.
ASSUME DenseAssumption ==
  /\ Sizes \subseteq Nat /\ \A shape \in Shapes : shape \in Seq(Nat)
  /\ MaxSize \in Nat /\ MaxValue \in Nat /\ UMax \in Nat
  /\ \A ns \in NewShapes : ns \in Seq(Int)
  /\ \A p \in Rankings : p \in Seq(Nat \ {0}) /\ IsInjective(p)
  /\ SharedGrow \in BOOLEAN
  /\ Void \notin Impls /\ None \notin Impls
  /\ Block!SlicesAssumption
  /\ \A a \in NewTensors : /\ a.labels \in Seq(Nat) /\ a.bonds \in Seq(Legs)
                            /\ a.rowrank \in Int /\ a.diag \in BOOLEAN
  /\ \A l \in Labellings : l \in Seq(Nat)
  /\ \A names \in Renamings : names[1] \in Seq(Nat) /\ names[2] \in Seq(Nat)
  /\ \A p \in Orders : p \in Seq(Nat \ {0})
  /\ \A l \in Groups : l \in Seq(Nat) /\ IsInjective(l)
  /\ Rowranks \subseteq Int /\ MaxRank \in Nat /\ Careful \in BOOLEAN

blocks == <<ref, impl, heap, torn>>
vars == <<ref, impl, heap, torn, meta, amiss>>

-----------------------------------------------------------------------------
(* What the member functions are made of.                                  *)

Rank(m) == Len(m.labels)
Dims(m) == [j \in DOMAIN m.bonds |-> m.bonds[j].dim]

\* A block of h one can compute with.
Usable(h) == /\ meta[h] # Void /\ h \notin amiss
             /\ Block!Whole(h)
             /\ ~meta[h].diag \/ meta[h].bonds # <<>>

\* The layout of h's block may be changed: others that share the Tensor_impl would
\* keep labels and bonds for the old one.
MayLayOut(h) == Careful => \A g \in Handles \ {h} : ref[g] # ref[h]

\* The block of h, for the functions of linalg.
Content(h) ==
  LET places == Block!Places(Block!T(h))
  IN [shape |-> Block!T(h).shape,
      data  |-> [n \in DOMAIN places |-> Block!S(h).mem[places[n]]]]

\* The block of h becomes a new Tensor.
BindBlock(h, t) ==
  Block!BindFresh(h, Block!Plain(t.shape), Block!FromVector("Int64", t.data))

\* h gets these labels, bonds, ...
Describe(h, m) == meta' = [meta EXCEPT ![h] = m] /\ amiss' = amiss \ {h}

\* Only the block changes.
Keep == UNCHANGED <<meta, amiss>>

\* _update_braket: the first legs, as many as rowrank says, are kets, the others
\* bras.
Braket(bonds, rowrank) ==
  /\ bonds # <<>>
  /\ bonds[1].type # B!BD_REG
  /\ \A j \in DOMAIN bonds : bonds[j].type = IF j <= rowrank THEN B!BD_KET ELSE B!BD_BRA

Updated(m) == [m EXCEPT !.braket = Braket(m.bonds, m.rowrank)]

\* Init_by_Tensor: one leg per axis, or two of a diagonal; half of the legs on the
\* left where no rowrank is given.
ByTensor(shape, diag, rowrank) ==
  LET dims == IF diag THEN shape \o shape ELSE shape
  IN [labels  |-> [j \in DOMAIN dims |-> j - 1],
      bonds   |-> [j \in DOMAIN dims |-> [type |-> B!BD_REG, dim |-> dims[j]]],
      rowrank |-> IF rowrank >= 0 THEN rowrank ELSE Len(dims) \div 2,
      diag    |-> diag, tag |-> FALSE, braket |-> FALSE]

\* Its checks.
Initable(shape, diag, rowrank) ==
  /\ rowrank >= -1
  /\ IF diag THEN Len(shape) = 1 /\ rowrank \in {-1, 1} ELSE rowrank <= Len(shape)

\* Where the label l of m is.
IndexOf(m, l) == CHOOSE j \in 1..Rank(m) : m.labels[j] = l

\* The legs of m in another order.
MetaPermuted(m, p) ==
  [m EXCEPT !.labels = Compose(@, p), !.bonds = Compose(@, p)]

-----------------------------------------------------------------------------
Init == Block!Init /\ meta = [h \in Handles |-> Void] /\ amiss = {}

(* Construction and copies.                                                *)

Tagged(bonds) == bonds # <<>> /\ bonds[1].type # B!BD_REG

Kets(bonds) == {j \in DOMAIN bonds : bonds[j].type = B!BD_KET}

\* Init(bonds, labels, rowrank, is_diag) returns: none of its checks throws.
Accepted(a) ==
  /\ \A j \in DOMAIN a.bonds : /\ (a.bonds[j].type # B!BD_REG) = Tagged(a.bonds)
                               /\ a.bonds[j].dim > 0
  /\ a.diag => /\ Len(a.bonds) = 2 /\ a.bonds[1].dim = a.bonds[2].dim
               /\ Tagged(a.bonds) => Cardinality(Kets(a.bonds)) = 1
               /\ a.rowrank \in {-1, 1}
  /\ a.rowrank = -1 \/ a.bonds = <<>> \/ a.rowrank \in 0..Len(a.bonds)
  /\ Len(a.labels) = Len(a.bonds) /\ IsInjective(a.labels)

\* The rowrank it sets.
InitRowrank(a) ==
  IF a.bonds = <<>> THEN 0
  ELSE IF a.rowrank >= 0 THEN a.rowrank
  ELSE IF Tagged(a.bonds) THEN Cardinality(Kets(a.bonds)) ELSE 1

\* UniTensor(bonds, labels, rowrank, is_diag): zeros.
Construct(h, a) ==
  /\ Accepted(a)
  /\ LET shape == IF a.bonds = <<>> THEN <<1>>
                  ELSE IF a.diag THEN <<a.bonds[1].dim>> ELSE Dims(a)
     IN Prod(shape) <= MaxSize /\ BindBlock(h, Zeros(shape))
  /\ Describe(h, Updated([labels |-> a.labels, bonds |-> a.bonds, rowrank |-> InitRowrank(a),
                          diag |-> a.diag, tag |-> Tagged(a.bonds), braket |-> FALSE]))

\* UniTensor(g.get_block_(), is_diag, rowrank).
OfBlock(h, g, diag, rowrank) ==
  /\ Usable(g)
  /\ Initable(Block!T(g).shape, diag, rowrank)
  /\ Block!Assign(h, g)
  /\ Describe(h, ByTensor(Block!T(g).shape, diag, rowrank))

Clone(h, g) == Usable(g) /\ Block!Clone(h, g) /\ Describe(h, meta[g])

\* contiguous() of a UniTensor that is not.
Contiguous(h, g) == Usable(g) /\ Block!Contiguous(h, g) /\ Describe(h, meta[g])

Contiguous_(h) == Usable(h) /\ Block!Contiguous_(h) /\ Keep

\* put_block(g.get_block_()) and put_block_(g.get_block_()).  shape() of a UniTensor
\* that is not diagonal is that of its block, whatever its bonds are.
Puttable(h, g) == Usable(h) /\ Usable(g) /\ Block!T(g).shape = Block!T(h).shape

PutBlock(h, g) ==
  Puttable(h, g) /\ Block!BindFresh(h, Block!T(g), Block!Cloned(Block!S(g))) /\ Keep

PutBlock_(h, g) == Puttable(h, g) /\ Block!Assign(h, g) /\ Keep

\* from_(g), of UniTensors with legs that both are diagonal or both are not: of
\* the others g's block is taken as well, and is not one h can have.
From_(h, g, force) ==
  /\ Puttable(h, g) /\ meta[h].diag = meta[g].diag
  /\ meta[h].bonds # <<>> /\ meta[g].bonds # <<>>
  /\ \/ force
     \/ \E k \in {h, g} : meta[k].bonds[1].type = B!BD_REG
     \/ meta[h].bonds = meta[g].bonds
  /\ Block!BindFresh(h, Block!T(g), Block!Cloned(Block!S(g)))
  /\ Keep

\* to_dense and to_dense_.
Dense(m) == [m EXCEPT !.diag = FALSE]

ToDense(h, g) ==
  /\ Usable(g) /\ meta[g].diag
  /\ BindBlock(h, Diag(Content(g)))
  /\ Describe(h, Dense(meta[g]))

ToDense_(h) == ToDense(h, h)

-----------------------------------------------------------------------------
(* Labels, directions and the rowrank.                                     *)

\* relabel(labels).
Relabel(h, g, labels) ==
  /\ Usable(g)
  /\ Len(labels) = Rank(meta[g]) /\ IsInjective(labels)
  /\ Block!Assign(h, g)
  /\ Describe(h, [meta[g] EXCEPT !.labels = labels])

\* The labels of m after relabel_(old, new) has replaced them.
Renamed(m, old, new) ==
  [j \in 1..Rank(m) |-> IF m.labels[j] \in Range(old)
                        THEN new[CHOOSE k \in DOMAIN old : old[k] = m.labels[j]]
                        ELSE m.labels[j]]

\* relabel_(old, new) looks for duplicates in the labels it has written already.
Relabel_(h, old, new) ==
  /\ Usable(h)
  /\ Len(old) = Len(new) /\ IsInjective(old) /\ Range(old) \subseteq Range(meta[h].labels)
  /\ LET labels == Renamed(meta[h], old, new)
     IN /\ meta' = [meta EXCEPT ![h].labels = labels]
        /\ amiss' = IF IsInjective(labels) THEN amiss ELSE amiss \cup {h}
  /\ UNCHANGED blocks

\* set_rowrank_: the braket form is left as it was.
SetRowrank_(h, rowrank) ==
  /\ Usable(h)
  /\ rowrank \in IF meta[h].diag THEN {1} ELSE 0..Rank(meta[h])
  /\ meta' = [meta EXCEPT ![h].rowrank = rowrank]
  /\ UNCHANGED <<blocks, amiss>>

Directed(m) ==
  Updated([m EXCEPT !.tag = TRUE,
                    !.bonds = [j \in DOMAIN @ |->
                                 [@[j] EXCEPT !.type = IF j <= m.rowrank THEN B!BD_KET
                                                       ELSE B!BD_BRA]]])

\* tag().
Tag(h) ==
  /\ Usable(h) /\ ~meta[h].tag
  /\ meta' = [meta EXCEPT ![h] = Directed(@)]
  /\ UNCHANGED <<blocks, amiss>>

\* Transpose_: of a tagged UniTensor only the directions change, of another one
\* the legs behind rowrank come first.
Turned(m) ==
  Updated([m EXCEPT !.bonds = [j \in DOMAIN @ |->
                                 [@[j] EXCEPT !.type = IF m.bonds[j].type = B!BD_KET
                                                       THEN B!BD_BRA ELSE B!BD_KET]]])

Transpose_(h) ==
  LET m == meta[h]
      p == [j \in 1..(Rank(m) - m.rowrank) |-> m.rowrank + j] \o Identity(m.rowrank)
      n == Updated([MetaPermuted(m, p) EXCEPT !.rowrank = Rank(m) - m.rowrank])
  IN /\ Usable(h)
     /\ IF m.tag \/ m.diag THEN UNCHANGED blocks
        ELSE MayLayOut(h) /\ Block!Permute_(h, p)
     /\ meta' = [meta EXCEPT ![h] = IF m.tag THEN Turned(m) ELSE n]
     /\ UNCHANGED amiss

-----------------------------------------------------------------------------
(* Layout.                                                                 *)

\* vec_map accepts p for the legs of m: it may still list a leg twice.
Maps(p, m) == Len(p) = Rank(m) /\ \A j \in DOMAIN p : p[j] <= Rank(m)

WithRowrank(m, rowrank) ==
  Updated(IF rowrank >= 0 THEN [m EXCEPT !.rowrank = rowrank] ELSE m)

\* permute: a diagonal UniTensor keeps its block and its rowrank.
Permute(h, g, p, rowrank) ==
  LET m == MetaPermuted(meta[g], p)
  IN /\ Usable(g)
     /\ Maps(p, meta[g]) /\ IsInjective(p)
     /\ IF m.diag
        THEN rowrank \in {-1, 1} /\ Block!Assign(h, g) /\ Describe(h, Updated(m))
        ELSE /\ rowrank <= Rank(m)
             /\ Block!Permute(h, g, p)
             /\ Describe(h, WithRowrank(m, rowrank))

\* permute_.  When the rowrank is too large it throws at the end, with the legs
\* and the block permuted: only the rowrank and the braket form are not set.
Permute_(h, p, rowrank) ==
  LET m == MetaPermuted(meta[h], p)
  IN /\ Usable(h)
     /\ Maps(p, meta[h]) /\ IsInjective(p)
     /\ IF m.diag THEN rowrank \in {-1, 1} /\ UNCHANGED blocks
                  ELSE MayLayOut(h) /\ Block!Permute_(h, p)
     /\ meta' = [meta EXCEPT ![h] = IF m.diag THEN Updated(m)
                                    ELSE IF rowrank > Rank(m) THEN m
                                    ELSE WithRowrank(m, rowrank)]
     /\ UNCHANGED amiss

\* permute_ with a leg listed twice: the labels and bonds are replaced before the
\* block refuses.
PermuteThrows(h, p) ==
  /\ Usable(h) /\ ~meta[h].diag
  /\ Maps(p, meta[h]) /\ ~IsInjective(p)
  /\ meta' = [meta EXCEPT ![h] = MetaPermuted(@, p)]
  /\ amiss' = amiss \cup {h}
  /\ UNCHANGED blocks

\* reshape and reshape_: the legs are new ones.  A diagonal UniTensor is made dense
\* before.
Reshapeable(g, ns, rowrank) ==
  /\ Usable(g) /\ ~meta[g].tag
  /\ rowrank \in 0..Len(ns)

DescribeReshaped(h, rowrank) ==
  Describe(h, ByTensor(impl'[ref'[h]].shape, FALSE, rowrank))

ReshapeDiag(h, g, ns) ==
  LET t == Diag(Content(g))
  IN \E d \in 0..MaxSize :
       /\ Block!Resolves(ns, d, Len(t.data))
       /\ BindBlock(h, Reshaped(t, Block!Settled(ns, d)))

Reshape(h, g, ns, rowrank) ==
  /\ Reshapeable(g, ns, rowrank)
  /\ IF meta[g].diag THEN ReshapeDiag(h, g, ns) ELSE Block!Reshape(h, g, ns)
  /\ DescribeReshaped(h, rowrank)

Reshape_(h, ns, rowrank) ==
  /\ Reshapeable(h, ns, rowrank)
  /\ IF meta[h].diag THEN ReshapeDiag(h, h, ns) ELSE MayLayOut(h) /\ Block!Reshape_(h, ns)
  /\ DescribeReshaped(h, rowrank)

\* A diagonal UniTensor has a dense block then, the shape of which reshape_ has
\* written before it throws.
ReshapeDiagThrows(h, ns) ==
  LET t == Diag(Content(h))
  IN /\ Len(t.data) <= MaxSize
     /\ Block!Divides(ns)
     /\ \A d \in 0..MaxSize : ~Block!Resolves(ns, d, Len(t.data))
     /\ \E i \in Impls \ Block!Live(ref), s \in Stores \ Block!Used :
          Block!Commit([ref EXCEPT ![h] = i],
                       [impl EXCEPT ![i] = [Block!Plain(t.shape) EXCEPT
                                              !.shape = Block!Settled(ns, UMax), !.st = s]],
                       [heap EXCEPT ![s] = Block!FromVector("Int64", t.data)],
                       torn \cup {i})

\* reshape_ leaves a torn block when it throws, and of a diagonal UniTensor says
\* that it still is one.
ReshapeThrows(h, ns, rowrank) ==
  /\ Reshapeable(h, ns, rowrank)
  /\ IF meta[h].diag THEN ReshapeDiagThrows(h, ns)
     ELSE MayLayOut(h) /\ Block!ReshapeThrows(h, ns)
  /\ Keep

-----------------------------------------------------------------------------
(* combineBonds.                                                           *)

Combinable(h, labels) ==
  /\ Usable(h) /\ ~meta[h].diag /\ MayLayOut(h)
  /\ Len(labels) > 1 /\ Range(labels) \subseteq Range(meta[h].labels)

\* The legs to combine, side by side where the first of them is.
Gathered(m, labels) ==
  LET legs  == [k \in DOMAIN labels |-> IndexOf(m, labels[k])]
      other == Others(Rank(m), Range(legs))
  IN Erased(other, legs[1]..Rank(m)) \o legs \o Erased(other, 1..legs[1])

\* s with its entries from the i-th on, n of them, replaced by x.
Combined(s, i, n, x) == SubSeq(s, 1, i - 1) \o <<x>> \o SubSeq(s, i + n, Len(s))

\* m with the n legs from at on as one.
MetaCombined(m, at, n) ==
  LET bond == [m.bonds[at] EXCEPT !.dim = Prod(SubSeq(Dims(m), at, at + n - 1))]
      rank == Rank(m) - n + 1
  IN Updated([m EXCEPT !.labels = Combined(@, at, n, @[at]),
                       !.bonds = Combined(@, at, n, bond),
                       !.rowrank = IF @ >= rank THEN rank ELSE @])

\* The first of the legs to combine that combineBond_ refuses to add, or 0.
Refused(m, at, n) ==
  LET others == {k \in 2..n : m.bonds[at + k - 1].type # m.bonds[at].type}
  IN IF others = {} THEN 0 ELSE CHOOSE k \in others : \A j \in others : k <= j

\* combineBonds(labels, force): permute_, then reshape_ of the block.
CombineBonds(h, labels, force) ==
  LET order == Gathered(meta[h], labels)
      m     == MetaPermuted(meta[h], order)
      at    == IndexOf(m, labels[1])
      n     == Len(labels)
      t     == Block!Permuted(Block!T(h), order)
  IN /\ Combinable(h, labels)
     /\ force \/ Refused(m, at, n) = 0
     /\ \E s \in IF t.conti THEN {t.st} ELSE Stores \ Block!Used :
          Block!Update(h, Block!Plain(Dims(MetaCombined(m, at, n))), s,
                       Block!ContiStore(t, Block!S(h)), torn)
     /\ Describe(h, MetaCombined(m, at, n))

\* Without force, bonds of two directions are refused: the legs are permuted then,
\* and a bond that was added before is in the dimension of the first.
CombineThrows(h, labels) ==
  LET order == Gathered(meta[h], labels)
      m     == Updated(MetaPermuted(meta[h], order))
      at    == IndexOf(m, labels[1])
      k     == Refused(m, at, Len(labels))
  IN /\ Combinable(h, labels)
     /\ k # 0
     /\ Block!Permute_(h, order)
     /\ meta' = [meta EXCEPT ![h] =
                   [m EXCEPT !.bonds[at].dim = Prod(SubSeq(Dims(m), at, at + k - 2))]]
     /\ amiss' = IF k > 2 THEN amiss \cup {h} ELSE amiss

-----------------------------------------------------------------------------
(* contract.                                                               *)

\* vec_intersect_: the labels in common, sorted, and where both have them.
Common(m, n) ==
  LET shared == Range(m.labels) \cap Range(n.labels)
  IN [k \in 1..Cardinality(shared) |->
        CHOOSE l \in shared : Cardinality({x \in shared : x < l}) = k - 1]

Indices(m, labels) == [k \in DOMAIN labels |-> IndexOf(m, labels[k])]

\* Mutant of Left: every index that is contracted counts.
Left_All(m, idx) == m.rowrank - Len(idx)

\* What is left of the rowrank of m without the legs idx.
Left(m, idx) == m.rowrank - Cardinality({k \in DOMAIN idx : idx[k] <= m.rowrank})

\* Labels, bonds, ... of the contraction: the legs that are left of both.
MetaContracted(m, n) ==
  LET im    == Indices(m, Common(m, n))
      in    == Indices(n, Common(m, n))
      freeM == Others(Rank(m), Range(im))
      freeN == Others(Rank(n), Range(in))
  IN Updated([labels  |-> Compose(m.labels, freeM) \o Compose(n.labels, freeN),
              bonds   |-> Compose(m.bonds, freeM) \o Compose(n.bonds, freeN),
              rowrank |-> Left(m, im) + Left(n, in),
              diag    |-> m.diag /\ n.diag /\ im # <<>>,
              tag     |-> m.tag, braket |-> FALSE])

\* The checks of contract: of the directions its own, of the dimensions those of
\* Tensordot, Vectordot and Mul.  Mul, which multiplies two diagonals, takes one of a
\* single entry as a number.
Contractible(m, n) ==
  LET common  == Range(Common(m, n))
      left(l)  == m.bonds[IndexOf(m, l)]
      right(l) == n.bonds[IndexOf(n, l)]
  IN /\ m.tag = n.tag
     /\ m.tag => \A l \in common : left(l).type # right(l).type
     /\ \/ \A l \in common : left(l).dim = right(l).dim
        \/ /\ m.diag /\ n.diag /\ common # {}
           /\ 1 \in {m.bonds[1].dim, n.bonds[1].dim}
           /\ MetaContracted(m, n).rowrank # 0

\* The outer product is linalg::Kron of blocks; diagonals are made dense for it.
Outer(x, y, m, n) ==
  Kron(IF m.diag THEN Diag(x) ELSE x, IF n.diag THEN Diag(y) ELSE y)

\* Two diagonals: the products of their entries, or their sum where no leg is on
\* the left of the result.
DiagProduct(x, y, rowrank) ==
  IF rowrank = 0 THEN Number(Vectordot(x, y)) ELSE Mul(x, y)

\* The block of the contraction.
BlockContracted(x, y, m, n) ==
  LET im == Indices(m, Common(m, n))
      in == Indices(n, Common(m, n))
  IN IF im = <<>> THEN Outer(x, y, m, n)
     ELSE CASE m.diag /\ n.diag -> DiagProduct(x, y, MetaContracted(m, n).rowrank)
            [] m.diag # n.diag  -> Tensordot_dg(x, y, im, in, m.diag)
            [] OTHER            -> Tensordot(x, y, im, in)

\* The outer product of blocks that are one Tensor_impl: contract appends axes of 1
\* to the left one for a while, and so to the right one.
OneBlock(f, g) ==
  /\ Common(meta[f], meta[g]) = <<>>
  /\ ~meta[f].diag /\ ~meta[g].diag
  /\ ref[f] = ref[g] /\ Block!T(f).conti

\* Calls that return a UniTensor whose block does not fit its legs: two diagonals of
\* different dimensions, or with legs left but none of them on the left; an outer
\* product with a UniTensor without legs, or of one block with itself.
Breaks(f, g) ==
  LET m == meta[f]
      n == meta[g]
      r == MetaContracted(m, n)
  IN \/ r.diag /\ m.bonds[1].dim # n.bonds[1].dim
     \/ r.diag /\ r.rowrank = 0 /\ r.bonds # <<>>
     \/ Common(m, n) = <<>> /\ (m.bonds = <<>> \/ n.bonds = <<>>)
     \/ OneBlock(f, g)

\* contract without mv_elem.
Contract(h, f, g) ==
  /\ Usable(f) /\ Usable(g)
  /\ Contractible(meta[f], meta[g])
  /\ Careful => ~Breaks(f, g)
  /\ LET r == MetaContracted(meta[f], meta[g])
     IN /\ Rank(r) <= MaxRank /\ Prod(Dims(r)) <= MaxSize
        /\ BindBlock(h, IF OneBlock(f, g) THEN KronSquare(Content(f))
                        ELSE BlockContracted(Content(f), Content(g), meta[f], meta[g]))
        /\ Describe(h, r)

\* mv_elem: Tensordot permutes and reshapes the block itself, and back.  That leaves
\* its elements in the order of the matrix product.
Ordered(t, order) == Block!Permuted(Block!Plain(Compose(t.shape, order)), Block!Inverted(order))

\* The storages that the block of f may be on then, if moved.
OrderedOn(f, order, moved) ==
  IF moved /\ ~Block!Permuted(Block!T(f), order).conti THEN Stores \ Block!Used
  ELSE {Block!T(f).st}

OrderedImpl(f, order, s, moved) ==
  IF moved THEN [Ordered(Block!T(f), order) EXCEPT !.st = s] ELSE Block!T(f)

OrderedStore(f, order, moved) ==
  IF moved THEN Block!ContiStore(Block!Permuted(Block!T(f), order), Block!S(f)) ELSE Block!S(f)

\* contract of two UniTensors that are not diagonal, with mv_elem_self, mv_elem_rhs
\* or both.  Tensordot refuses to move both of two that share a storage; of two
\* that share the Tensor_impl it reads one as it has laid out the other.
ContractMoved(h, f, g, mvF, mvG) ==
  LET m == meta[f]
      n == meta[g]
      c == Common(m, n)
      r == MetaContracted(m, n)
      left  == Others(Rank(m), Range(Indices(m, c))) \o Indices(m, c)
      right == Indices(n, c) \o Others(Rank(n), Range(Indices(n, c)))
      out   == BlockContracted(Content(f), Content(g), m, n)
  IN /\ Usable(f) /\ Usable(g) /\ ~m.diag /\ ~n.diag
     /\ Contractible(m, n) /\ c # <<>>
     /\ mvF \/ mvG
     /\ ref[f] # ref[g]
     /\ mvF /\ mvG => Block!T(f).st # Block!T(g).st
     /\ Prod(Dims(r)) <= MaxSize
     /\ \E i \in Impls \ Block!Live(ref), s \in Stores \ Block!Used,
           sf \in OrderedOn(f, left, mvF), sg \in OrderedOn(g, right, mvG) :
          /\ s \notin {sf, sg} /\ (sf = sg => Block!T(f).st = Block!T(g).st)
          /\ Block!Commit(
               [ref EXCEPT ![h] = i],
               [impl EXCEPT ![i] = [Block!Plain(out.shape) EXCEPT !.st = s],
                            ![ref[f]] = OrderedImpl(f, left, sf, mvF),
                            ![ref[g]] = OrderedImpl(g, right, sg, mvG)],
               [heap EXCEPT ![sf] = OrderedStore(f, left, mvF),
                            ![sg] = OrderedStore(g, right, mvG),
                            ![s]  = Block!FromVector("Int64", out.data)],
               torn)
     /\ Describe(h, r)

-----------------------------------------------------------------------------
(* Traces, parts, sums.                                                    *)

\* Trace_: the braket form is left as it was, and only in it directions matter.
MetaTraced(m, i, j) ==
  LET rest == Others(Rank(m), {i, j})
  IN [m EXCEPT !.labels = Compose(@, rest), !.bonds = Compose(@, rest),
               !.rowrank = Left(m, <<i, j>>)]

Trace_(h, i, j) ==
  LET m == meta[h]
      x == Content(h)
      t == Traced(x, i, j)
  IN /\ Usable(h)
     /\ i # j /\ {i, j} \subseteq 1..Rank(m)
     /\ m.bonds[i].dim = m.bonds[j].dim
     /\ m.braket => m.bonds[i].type # m.bonds[j].type
     /\ BindBlock(h, IF m.diag THEN SumOf(x)
                     ELSE IF t.shape = <<>> THEN Number(t.data[1]) ELSE t)
     /\ Describe(h, MetaTraced(m, i, j))

\* truncate_: of a diagonal UniTensor, on both legs.
Truncate_(h, i, dim) ==
  LET m == meta[h]
      range == Block!Range_(0, dim, 1)
      cut(j) == m.diag \/ j = i
  IN /\ Usable(h)
     /\ i \in 1..Rank(m) /\ dim \in 1..(m.bonds[i].dim - 1)
     /\ Block!Get(h, h, IF m.diag THEN <<range>>
                        ELSE [j \in 1..Rank(m) |-> IF j = i THEN range ELSE Block!All])
     /\ Describe(h, [m EXCEPT !.bonds = [j \in DOMAIN @ |->
                                           IF cut(j) THEN [@[j] EXCEPT !.dim = dim] ELSE @[j]]])

\* Add_ of UniTensors that both are diagonal or both are not: element by element,
\* whatever the labels are.
Add_(h, g) ==
  /\ Usable(h) /\ Usable(g)
  /\ meta[h].diag = meta[g].diag
  /\ meta[h].tag => meta[g].tag /\ meta[g].bonds = meta[h].bonds
  /\ Block!AddTensor(h, g)
  /\ Keep

\* Add_ of a Scalar.
AddScalar_(h, v) == Usable(h) /\ Block!AddScalar(h, v) /\ Keep

\* at of a locator, or of one index of a diagonal, that is assigned to.
SetItem(h, n, v) == Usable(h) /\ Block!SetItem(h, n, v) /\ Keep

\* get of a UniTensor that is not diagonal.
Get(h, g, accs) ==
  /\ Usable(g) /\ ~meta[g].diag
  /\ Block!Get(h, g, accs)
  /\ Describe(h, ByTensor(impl'[ref'[h]].shape, FALSE, 0))

\* set, from the block of a UniTensor on another storage.
Set(h, accs, g) ==
  /\ Usable(h) /\ Usable(g) /\ ~meta[h].diag
  /\ Block!T(h).st # Block!T(g).st
  /\ Block!Set(h, accs, g)
  /\ Keep

-----------------------------------------------------------------------------
Assigns(h, g) ==
  \/ \E diag \in BOOLEAN, rowrank \in Rowranks : OfBlock(h, g, diag, rowrank)
  \/ Clone(h, g) \/ Contiguous(h, g) \/ ToDense(h, g)
  \/ \E labels \in Labellings : Relabel(h, g, labels)
  \/ \E p \in Orders, rowrank \in Rowranks : Permute(h, g, p, rowrank)
  \/ \E ns \in NewShapes, rowrank \in Rowranks : Reshape(h, g, ns, rowrank)
  \/ \E accs \in Slices : Get(h, g, accs)
  \/ \E f \in Handles : \/ Contract(h, f, g)
                        \/ \E mvF, mvG \in BOOLEAN : ContractMoved(h, f, g, mvF, mvG)

Updates(h) ==
  \/ Contiguous_(h) \/ ToDense_(h) \/ Tag(h) \/ Transpose_(h)
  \/ \E names \in Renamings : Relabel_(h, names[1], names[2])
  \/ \E rowrank \in Rowranks : SetRowrank_(h, rowrank)
  \/ \E p \in Orders, rowrank \in Rowranks : Permute_(h, p, rowrank)
  \/ \E p \in Orders : PermuteThrows(h, p)
  \/ \E ns \in NewShapes, rowrank \in Rowranks :
       Reshape_(h, ns, rowrank) \/ ReshapeThrows(h, ns, rowrank)
  \/ \E labels \in Groups : \/ CombineThrows(h, labels)
                            \/ \E force \in BOOLEAN : CombineBonds(h, labels, force)
  \/ \E i, j \in 1..MaxRank : Trace_(h, i, j)
  \/ \E i \in 1..MaxRank, dim \in 1..MaxSize : Truncate_(h, i, dim)
  \/ \E v \in Values : AddScalar_(h, v) \/ \E n \in 1..MaxSize : SetItem(h, n, v)
  \/ \E g \in Handles : \/ PutBlock(h, g) \/ PutBlock_(h, g) \/ Add_(h, g)
                        \/ \E force \in BOOLEAN : From_(h, g, force)
                        \/ \E accs \in Slices : Set(h, accs, g)

Next ==
  \E h \in Handles : \/ \E a \in NewTensors : Construct(h, a)
                     \/ \E g \in Handles : Assigns(h, g)
                     \/ Updates(h)

Spec == Init /\ [][Next]_vars

-----------------------------------------------------------------------------
(* Properties.                                                             *)

\* The shape that the block of a UniTensor with these legs has.
BlockShape(m) ==
  IF m.bonds = <<>> THEN <<1>> ELSE IF m.diag THEN <<m.bonds[1].dim>> ELSE Dims(m)

\* The blocks are laid out.
LayoutOK == Block!LayoutOK

\* Labels, bonds, directions, rowrank and block of a UniTensor fit one another
\* through every sequence of calls of a Careful user, whoever else has its
\* Tensor_impl: contract, Trace_, combineBonds, truncate_ and the constructor each
\* compute them apart.  Without Careful, MayLayOut and Breaks name the calls that
\* return or leave one that does not fit.
MetaFits ==
  \A h \in {k \in Handles \ amiss : meta[k] # Void /\ ref[k] \notin torn} :
    LET m == meta[h]
    IN /\ IsInjective(m.labels) /\ Len(m.labels) = Len(m.bonds)
       /\ \A j \in DOMAIN m.bonds : (m.bonds[j].type # B!BD_REG) = m.tag
       /\ m.diag /\ m.bonds # <<>> => Len(m.bonds) = 2 /\ m.bonds[1].dim = m.bonds[2].dim
       /\ m.rowrank \in 0..Rank(m)
       /\ Block!T(h).shape = BlockShape(m)

\* The array that a UniTensor stands for.
ArrayOf(h) ==
  IF meta[h] = Void THEN Void
  ELSE IF h \in amiss \/ ref[h] \in torn THEN [legs |-> <<>>, diag |-> FALSE, cells |-> <<>>, elems |-> <<>>]
  ELSE LET m == meta[h]
           at == Block!Places(Block!T(h))
           mem == Block!S(h).mem
       IN [legs  |-> [j \in 1..Rank(m) |->
                        [label |-> m.labels[j], type |-> m.bonds[j].type, dim |-> m.bonds[j].dim]],
           diag  |-> m.diag,
           cells |-> [n \in DOMAIN at |-> <<Block!T(h).st, at[n]>>],
           elems |-> [n \in DOMAIN at |-> mem[at[n]]]]

Arrays == [h \in Handles |-> ArrayOf(h)]
=============================================================================
