--------------------------- MODULE BlockUniTensor ---------------------------
(***************************************************************************)
(* UniTensors with symmetries (BlockUniTensor).  Every leg has a bond whose *)
(* sectors carry charges; a block, a Tensor, is kept for each choice of    *)
(* one sector per leg whose charges cancel.  itoi (_inner_to_outer_idx)    *)
(* says which choice block k is for, in sectors numbered from 0.           *)
(*                                                                         *)
(* A block is a Tensor_impl that UniTensors may share: relabel and          *)
(* set_rowrank copy handles.  Of a Tensor_impl its shape and its elements  *)
(* in row-major order count here, so reshape_ changes the shape alone; the *)
(* storage under it is the module Tensor's.  Elements are only written     *)
(* when a tensor is made, so which storages are shared cannot be seen.     *)
(*                                                                         *)
(* Left out: the diagonal form (is_diag), names, dtypes and devices.  What *)
(* fermionic tensors add is the module FermionicUniTensor.  uten[h] is the *)
(* object of variable h: two variables on one object are one variable with *)
(* two names.                                                              *)
(***************************************************************************)
EXTENDS BondImpl, Linalg, TLC

CONSTANTS Handles,     \* the user's UniTensor variables
          Void,        \* what an unset variable refers to
          Specs,       \* arguments of the constructor, bad ones too
          Labellings,  \* the lists of labels that relabel is called with
          Rowranks,    \* the arguments of set_rowrank
          Mappers,     \* the arguments of permute, for any number of legs
          Pairs,       \* the legs that Trace and combineBonds are called with
          Careful,     \* the user keeps away from calls that break a tensor
          MaxBlocks,   \* bound on the Tensor_impls at one time
          MaxElem,     \* bound on the elements of sums and contractions
          MaxRank      \* bound on the legs of outer products

VARIABLES uten,        \* uten[h]: the BlockUniTensor of h, or Void
          tens         \* tens[t]: the Tensor_impl named t

vars == <<uten, tens>>

-----------------------------------------------------------------------------
(* The table of blocks.                                                    *)

\* Mutant of TotalFlux: the direction of the first bond is ignored.
TotalFlux_FirstKet(bonds, loc) ==
  LET syms == bonds[1].syms
      signed(j, i) == LET q == bonds[j].qnums[loc[j] + 1][i]
                      IN IF bonds[j].type = BD_BRA /\ j # 1
                         THEN reverse_rule(syms[i], q)
                         ELSE q
  IN [i \in 1..Len(syms) |->
        LET flux[j \in 1..Len(bonds)] ==
              IF j = 1 THEN signed(1, i)
              ELSE combine_rule(syms[i], flux[j - 1], signed(j, i))
        IN flux[Len(bonds)]]

\* _fx_get_total_fluxs: the numbers of the first bond are all reversed by the
\* rule of the first symmetry.
TotalFlux(bonds, loc) ==
  LET syms == bonds[1].syms
      signed(j, i) == LET q == bonds[j].qnums[loc[j] + 1][i]
                      IN IF bonds[j].type = BD_BRA
                         THEN reverse_rule(IF j = 1 THEN syms[1] ELSE syms[i], q)
                         ELSE q
  IN [i \in 1..Len(syms) |->
        LET flux[j \in 1..Len(bonds)] ==
              IF j = 1 THEN signed(1, i)
              ELSE combine_rule(syms[i], flux[j - 1], signed(j, i))
        IN flux[Len(bonds)]]

\* Every choice of sectors, in the order the odometer of Init visits them.
SectorChoices(bonds) ==
  LET counts == [j \in 1..Len(bonds) |-> Len(bonds[j].qnums)]
  IN [n \in 1..Prod(counts) |-> Locator(counts, n - 1)]

Table(bonds) ==
  SelectSeq(SectorChoices(bonds),
            LAMBDA loc : \A x \in ToSet(TotalFlux(bonds, loc)) : x = 0)

SectorShape(bonds, loc) == [j \in 1..Len(bonds) |-> bonds[j].degs[loc[j] + 1]]

\* The position of loc in a table that has it.
IndexIn(itoi, loc) == CHOOSE k \in 1..Len(itoi) : itoi[k] = loc

\* Init throws for none of its arguments.
Constructible(s) ==
  /\ \A j \in 1..Len(s.bonds) :
       /\ s.bonds[j].type # BD_REG /\ s.bonds[j].degs # <<>> /\ s.bonds[j].dim # 0
       /\ s.bonds[j].syms = s.bonds[1].syms
  /\ s.rowrank = -1 \/ s.rowrank \in 0..Len(s.bonds)
  /\ Len(s.labels) = Len(s.bonds) /\ IsInjective(s.labels)

\* Init, without the blocks; a rowrank of -1 counts the kets.
Built(bonds, labels, rowrank) ==
  [bonds |-> bonds, labels |-> labels, itoi |-> Table(bonds),
   rowrank |-> IF rowrank # -1 THEN rowrank
               ELSE Cardinality({j \in 1..Len(bonds) : bonds[j].type = BD_KET})]

\* The blocks of zeros that Init makes for u.
Blank(u) == [k \in 1..Len(u.itoi) |-> Zeros(SectorShape(u.bonds, u.itoi[k]))]

-----------------------------------------------------------------------------
(* UniTensors and the Tensor_impls they refer to.                          *)

Set(h) == uten[h] # Void

\* The blocks of u.
Blocks(u) == [k \in 1..Len(u.blocks) |-> tens[u.blocks[k]]]

\* The blocks of h have the shapes of their sectors; other tensors, which only
\* careless users have, are assigned again and not used.
Fits(u) ==
  \A k \in 1..Len(u.blocks) :
    /\ \A j \in 1..Len(u.bonds) : u.itoi[k][j] < Len(u.bonds[j].degs)
    /\ tens[u.blocks[k]].shape = SectorShape(u.bonds, u.itoi[k])

Usable(h) == Set(h) /\ uten[h].bonds # <<>> /\ Fits(uten[h])

\* No block of h is another variable's too.
Alone(h) ==
  \A g \in Handles \ {h} :
    Set(g) => ToSet(uten[g].blocks) \cap ToSet(uten[h].blocks) = {}

\* A Tensor_impl is deleted with its last handle.
Commit(u, t) ==
  /\ uten' = u
  /\ tens' = [n \in UNION {ToSet(u[h].blocks) : h \in {g \in Handles : u[g] # Void}}
                |-> t[n]]

\* h becomes u with these blocks, on the heap t: block k is the Tensor_impl
\* at[k], or a new one where that is 0.
Place(h, u, blocks, at, t) ==
  LET free  == SelectSeq(Identity(MaxBlocks), LAMBDA n : n \notin DOMAIN t)
      fresh == SelectSeq(Identity(Len(at)), LAMBDA k : at[k] = 0)
      name  == [k \in 1..Len(at) |->
                  IF at[k] # 0 THEN at[k] ELSE free[IndexIn(fresh, k)]]
  IN /\ Len(fresh) <= Len(free)
     /\ Commit([uten EXCEPT ![h] = [f \in {"blocks"} |-> name] @@ u],
               [n \in ToSet(name) |-> blocks[IndexIn(name, n)]] @@ t)

\* h becomes u, with blocks of its own.
Own(h, u, blocks) ==
  Place(h, u, blocks, [k \in 1..Len(blocks) |-> 0], tens)

\* h becomes u, with the handles on blocks that u has.
Share(h, u) == Commit([uten EXCEPT ![h] = u], tens)

\* The bounds on what is computed.
Small(blocks) ==
  \A k \in 1..Len(blocks) : \A x \in ToSet(blocks[k].data) : -MaxElem <= x /\ x <= MaxElem

Init == uten = [h \in Handles |-> Void] /\ tens = <<>>

\* h = UniTensor(bonds, labels, rowrank)
Make(h, s) ==
  /\ Constructible(s)
  /\ LET u == Built(s.bonds, s.labels, s.rowrank) IN Own(h, u, Blank(u))

\* put_block on every block of a tensor that is still zero: 1, 2, 3, ...
Fill(h) ==
  /\ Usable(h)
  /\ \A k \in 1..Len(uten[h].blocks) : ToSet(Blocks(uten[h])[k].data) = {0}
  /\ LET old == Blocks(uten[h])
         before(k) == SumOver(1, k - 1, LAMBDA i : Len(old[i].data))
     IN Own(h, uten[h], [k \in 1..Len(old) |->
              [old[k] EXCEPT !.data = [n \in 1..Len(@) |-> before(k) + n]]])

\* k = h.clone()
Clone(k, h) == Usable(h) /\ Own(k, uten[h], Blocks(uten[h]))

\* k = h.relabel(labels): the blocks are shared.
Relabel(k, h, labels) ==
  /\ Usable(h)
  /\ Len(labels) = Len(uten[h].labels) /\ IsInjective(labels)
  /\ Share(k, [uten[h] EXCEPT !.labels = labels])

\* k = h.set_rowrank(n)
SetRowrank(k, h, n) ==
  /\ Usable(h)
  /\ n <= Len(uten[h].labels)
  /\ Share(k, [uten[h] EXCEPT !.rowrank = n])

\* Bonds, labels and table under the mapper p.
Mapped(u, p) ==
  [u EXCEPT !.bonds = Compose(@, p), !.labels = Compose(@, p),
            !.itoi = [k \in 1..Len(@) |-> Compose(@[k], p)]]

\* k = h.permute(p); a rowrank in the same call is one in a set_rowrank after it.
Permute(k, h, p) ==
  /\ Usable(h)
  /\ Own(k, Mapped(uten[h], p),
         [n \in 1..Len(uten[h].blocks) |-> Permuted(Blocks(uten[h])[n], p)])

\* The heap after permute_(p) of the blocks of u.
PermutedHeap(u, p) ==
  [t \in DOMAIN tens |->
     IF t \in ToSet(u.blocks) THEN Permuted(tens[t], p) ELSE tens[t]]

\* h.permute_(p): the Tensor_impls themselves are permuted, whoever has them.
PermuteInPlace(h, p) ==
  /\ Usable(h)
  /\ Careful => Alone(h)
  /\ Commit([uten EXCEPT ![h] = Mapped(@, p)],
            PermutedHeap(uten[h], p))

\* h.Transpose_(): the bonds change direction.
Transpose(h) ==
  /\ Usable(h)
  /\ Share(h, [uten[h] EXCEPT !.bonds = [j \in 1..Len(@) |->
                                            [@[j] EXCEPT !.type = -@]]])

\* The checks of truncate_(j, q).
Truncatable(h, j, q) ==
  /\ Usable(h)
  /\ q < Len(uten[h].bonds[j].qnums) /\ Len(uten[h].bonds[j].qnums) # 1
  /\ Careful => \A k \in 1..Len(uten[h].itoi) : uten[h].itoi[k][j] <= q

\* The blocks that are not in sector q of leg j.
Remaining(u, j, q) == SelectSeq(Identity(Len(u.itoi)), LAMBDA k : u.itoi[k][j] # q)

\* u without sector q of leg j: later sectors get a smaller number, in the bond
\* only.
Truncated(u, j, q) ==
  [u EXCEPT !.bonds[j] = Removed(@, q + 1),
            !.itoi     = Compose(@, Remaining(u, j, q)),
            !.blocks   = Compose(@, Remaining(u, j, q))]

\* h.truncate_(j, q)
Truncate(h, j, q) == Truncatable(h, j, q) /\ Share(h, Truncated(uten[h], j, q))

-----------------------------------------------------------------------------
(* Sectors with the same charges become one.                               *)

Duplicates(b) == Cardinality(ToSet(b.qnums)) # Len(b.qnums)

GroupedBond(b) == CHOOSE c \in Groupings(b) : TRUE

\* Where the blocks of u come to when the sectors of leg j are grouped.
GroupedPlaces(u, j) ==
  LET qnums    == u.bonds[j].qnums
      newIndex == [s \in 1..Len(qnums) |->
                     IndexIn(GroupedBond(u.bonds[j]).qnums, qnums[s]) - 1]
  IN [k \in 1..Len(u.itoi) |-> [u.itoi[k] EXCEPT ![j] = newIndex[@ + 1]]]

\* The numbers of the blocks that come to the place of block k.
SamePlace(place, k) == SelectSeq(Identity(Len(place)), LAMBDA i : place[i] = place[k])

\* The first block of every place.
Firsts(place) ==
  SelectSeq(Identity(Len(place)), LAMBDA k : SamePlace(place, k)[1] = k)

\* One pass of _fx_group_duplicates, for leg j: blocks that come to the same place
\* are put behind each other in their order.
GroupLeg(u, j) ==
  LET place    == GroupedPlaces(u, j)
      group(k) == SamePlace(place, k)
      firsts   == Firsts(place)
      joined(k) == Fold(LAMBDA l, i : Joined(l, u.blocks[i], j),
                            u.blocks[k], Tail(group(k)))
  IN [u EXCEPT !.bonds[j] = GroupedBond(@),
               !.itoi   = Compose(place, firsts),
               !.blocks = [n \in 1..Len(firsts) |-> joined(firsts[n])],
               !.at     = [n \in 1..Len(firsts) |->
                             IF Len(group(firsts[n])) = 1 THEN @[firsts[n]] ELSE 0]]

\* group_basis_ of u, whose blocks are values here, block k in Tensor_impl at[k].
GroupBasis(u) ==
  Fold(GroupLeg, u,
           SelectSeq(Identity(Len(u.bonds)), LAMBDA j : Duplicates(u.bonds[j])))

\* u with the blocks and where they are.
Opened(u, blocks) == [at |-> u.blocks] @@ [u EXCEPT !.blocks = blocks]

Closed(u) == [f \in DOMAIN u \ {"at"} |-> u[f]]

\* h becomes u, which GroupBasis has returned; t is the heap.
Become(h, u, t) == Place(h, Closed(u), u.blocks, u.at, t)

\* h.group_basis_()
Group(h) ==
  /\ Usable(h)
  /\ \E j \in 1..Len(uten[h].bonds) : Duplicates(uten[h].bonds[j])
  /\ Become(h, GroupBasis(Opened(uten[h], Blocks(uten[h]))), tens)

\* The mapper of combineBonds: the legs of inds to where the first of them is.
ToFront(rank, inds) ==
  LET others == Others(rank, ToSet(inds))
  IN SelectSeq(others, LAMBDA i : i < inds[1]) \o inds
       \o SelectSeq(others, LAMBDA i : i > inds[1])

\* The legs from..to of u as one, of which the sectors are numbered by counts.
Merged(u, from, to, counts) ==
  LET fuse(s, x) == SubSeq(s, 1, from - 1) \o <<x>> \o SubSeq(s, to + 1, Len(s))
      part(s)    == SubSeq(s, from, to)
      bond       == Fold(Combined, u.bonds[from], Tail(part(u.bonds)))
      place(s)   == fuse(s, Location(counts, part(s)))
      shape(b)   == fuse(b.shape, Prod(part(b.shape)))
  IN [u EXCEPT !.bonds   = fuse(@, bond),
               !.labels  = fuse(@, @[from]),
               !.itoi    = [k \in 1..Len(@) |-> place(@[k])],
               !.blocks  = [k \in 1..Len(@) |-> Reshaped(@[k], shape(@[k]))]]

SectorCounts(u, from, to) == [i \in 1..(to - from + 1) |-> Len(u.bonds[from + i - 1].qnums)]

\* Mutant of Fused: the row rank may come out above the rank.
Fused_Rowrank(u, from, to) == Merged(u, from, to, SectorCounts(u, from, to))

\* The legs from..to of u as one.
Fused(u, from, to) ==
  LET v == Merged(u, from, to, SectorCounts(u, from, to))
  IN [v EXCEPT !.rowrank = IF @ > Len(v.bonds) THEN Len(v.bonds) ELSE @]

\* h.combineBonds(inds, force)
CombineBonds(h, inds, force) ==
  LET u    == uten[h]
      p    == ToFront(Len(u.bonds), inds)
      heap == PermutedHeap(u, p)
      at   == CHOOSE i \in 1..Len(p) : p[i] = inds[1]
      v    == Fused(Opened(Mapped(u, p), [k \in 1..Len(u.blocks) |-> heap[u.blocks[k]]]),
                    at, at + Len(inds) - 1)
  IN /\ Usable(h)
     /\ Careful => Alone(h)
     /\ force \/ \A i, j \in ToSet(inds) : u.bonds[i].type = u.bonds[j].type
     /\ Become(h, GroupBasis(v),
               [k \in ToSet(v.at) |-> v.blocks[IndexIn(v.at, k)]] @@ heap)

\* combineBond_ throws at the first leg of another type than that of inds[1], when
\* the legs are permuted. The bonds before it are combined by then, in the Bond
\* of inds[1], which fits no block any more if there were any.
CombineThrows(h, inds) ==
  LET u     == uten[h]
      v     == Mapped(u, ToFront(Len(u.bonds), inds))
      at    == CHOOSE i \in 1..Len(u.bonds) : ToFront(Len(u.bonds), inds)[i] = inds[1]
      mixed == {n \in 2..Len(inds) : u.bonds[inds[n]].type # u.bonds[inds[1]].type}
      done  == SubSeq(inds, 2, Min(mixed) - 1)
  IN /\ Usable(h)
     /\ mixed # {}
     /\ Careful => Alone(h) /\ done = <<>>
     /\ Commit([uten EXCEPT ![h] = [v EXCEPT !.bonds[at] = Fold(Combined, @, Compose(u.bonds, done))]],
               PermutedHeap(u, ToFront(Len(u.bonds), inds)))

-----------------------------------------------------------------------------
(* Sums over legs.                                                         *)

\* A DenseUniTensor without legs.
Scalar ==
  [bonds |-> <<>>, labels |-> <<>>, rowrank |-> 0, itoi |-> <<<<>>>>]

RowLegs(u, S) == Cardinality({i \in S : i <= u.rowrank})

\* Blocks of one place are added up; the places are in the order of their first.
Collected(places, blocks) ==
  LET firsts == Firsts(places)
      sum(k) == Fold(LAMBDA l, i : Plus(l, blocks[i]), blocks[k],
                     Tail(SamePlace(places, k)))
  IN [itoi   |-> Compose(places, firsts),
      blocks |-> [n \in 1..Len(firsts) |-> sum(firsts[n])]]

\* The legs i and j of u carry the same sectors, in two directions.
Matching(b, c) ==
  b.type # c.type /\ b.degs = c.degs /\ b.qnums = c.qnums

\* k = h.Trace(i, j); a tensor that has no leg left becomes a number.
Trace(k, h, i, j) ==
  LET u     == uten[h]
      rest  == Others(Len(u.bonds), {i, j})
      equal == SelectSeq(Identity(Len(u.itoi)), LAMBDA b : u.itoi[b][i] = u.itoi[b][j])
      parts == [n \in 1..Len(equal) |-> Traced(Blocks(u)[equal[n]], i, j)]
      sums  == Collected([n \in 1..Len(equal) |-> Compose(u.itoi[equal[n]], rest)], parts)
  IN /\ Usable(h)
     /\ i # j /\ Matching(u.bonds[i], u.bonds[j])
     /\ IF rest = <<>>
        THEN Own(k, Scalar, <<Number(SumOver(1, Len(parts), LAMBDA n : parts[n].data[1]))>>)
        ELSE Own(k, [bonds   |-> Compose(u.bonds, rest),
                     labels  |-> Compose(u.labels, rest),
                     rowrank |-> u.rowrank - RowLegs(u, {i, j}),
                     itoi    |-> sums.itoi], sums.blocks)

\* The legs of u with a label of v, as vec_intersect_ lists them.
CommonLegs(u, v) ==
  SelectSeq(Identity(Len(u.labels)), LAMBDA i : u.labels[i] \in ToSet(v.labels))

Partners(u, v) ==
  LET c == CommonLegs(u, v) IN [n \in 1..Len(c) |-> IndexIn(v.labels, u.labels[c[n]])]

\* No label in common: every block of the result is an outer product.
Outer(u, v) ==
  LET out == Built(u.bonds \o v.bonds, u.labels \o v.labels, u.rowrank + v.rowrank)
      n   == Len(u.bonds)
      left(s)  == SubSeq(s, 1, n)
      right(s) == SubSeq(s, n + 1, Len(s))
      block(s) == IF left(s) \in ToSet(u.itoi)
                  THEN Kron(Blocks(u)[IndexIn(u.itoi, left(s))],
                            Blocks(v)[IndexIn(v.itoi, right(s))])
                  ELSE Zeros(SectorShape(out.bonds, s))
  IN [meta |-> out, blocks |-> [k \in 1..Len(out.itoi) |-> block(out.itoi[k])]]

\* Every leg is contracted: blocks of one place, after permute, as vectors, where
\* block k of u counts x[k] times and block n of v y[n] times. The number stays
\* unset, no block here, if there is no such pair.
Inner(u, v, x, y) ==
  LET c == CommonLegs(u, v)
      d == Partners(u, v)
      pair(k, n) == Compose(u.itoi[k], c) = Compose(v.itoi[n], d)
      dot(k, n) == IF pair(k, n)
                   THEN x[k] * y[n] * Vectordot(Permuted(Blocks(u)[k], c),
                                                Permuted(Blocks(v)[n], d))
                   ELSE 0
      sum == SumOver(1, Len(u.itoi), LAMBDA k :
                       SumOver(1, Len(v.itoi), LAMBDA n : dot(k, n)))
  IN [meta   |-> Scalar,
      blocks |-> IF \E k \in 1..Len(u.itoi), n \in 1..Len(v.itoi) : pair(k, n)
                 THEN <<Number(sum)>> ELSE <<>>]

\* Mutant of Inverted: blocks go back by the mapper they came by.
Inverted_Same(p) == p

\* inv[p[i]] = i.
Inverted(p) == [i \in 1..Len(p) |-> IndexIn(p, i)]

\* The general case. The blocks of u and v are brought to matrices in place, each
\* left block a with the right blocks in its sectors, and brought back after it.
Contracted(u, v, x, y) ==
  LET c     == CommonLegs(u, v)
      d     == Partners(u, v)
      freeL == Others(Len(u.bonds), ToSet(c))
      freeR == Others(Len(v.bonds), ToSet(d))
      pL    == freeL \o c
      pR    == d \o freeR
      out   == Built(Compose(u.bonds, freeL) \o Compose(v.bonds, freeR),
                     Compose(u.labels, freeL) \o Compose(v.labels, freeR),
                     u.rowrank + v.rowrank - RowLegs(u, ToSet(c)) - RowLegs(v, ToSet(d)))
      partners(a) == SelectSeq(Identity(Len(v.itoi)),
                               LAMBDA b : Compose(v.itoi[b], d) = Compose(u.itoi[a], c))
      target(a, b) == IndexIn(out.itoi, Compose(u.itoi[a], freeL)
                                          \o Compose(v.itoi[b], freeR))
      back(t, rows, p) == Permuted(Reshaped(t, rows), Inverted(p))
      pass(st, a) ==
        LET l     == Permuted(st.heap[u.blocks[a]], pL)
            comm  == Prod(SubSeq(l.shape, Len(freeL) + 1, Len(pL)))
            left  == Reshaped(l, <<Len(l.data) \div comm, comm>>)
            r(b)  == Permuted(st.heap[v.blocks[b]], pR)
            right(b) == Reshaped(r(b), <<comm, Len(r(b).data) \div comm>>)
            bs    == partners(a)
            add(bl, b) == LET k == target(a, b)
                          IN [bl EXCEPT ![k] =
                                Plus(@, Scaled(x[a] * y[b], Matmul(left, right(b))))]
        IN [heap   |-> [n \in DOMAIN st.heap |->
                          IF n = u.blocks[a] THEN back(left, l.shape, pL)
                          ELSE IF \E b \in ToSet(bs) : v.blocks[b] = n
                          THEN LET b == IndexIn(v.blocks, n)
                               IN back(right(b), r(b).shape, pR)
                          ELSE st.heap[n]],
            blocks |-> Fold(add, st.blocks, bs)]
      end == Fold(pass, [heap |-> tens, blocks |-> Blank(out)], Identity(Len(u.itoi)))
  IN [meta |-> out, blocks |-> end.blocks, heap |-> end.heap]

\* What a user of contract looks after: common labels are on matching legs, and
\* no Tensor_impl is a block of both tensors.
Contractible(u, v) ==
  /\ u.bonds[1].syms = v.bonds[1].syms
  /\ LET c == CommonLegs(u, v)
         d == Partners(u, v)
     IN \A n \in 1..Len(c) : Matching(u.bonds[c[n]], v.bonds[d[n]])
  /\ ToSet(u.blocks) \cap ToSet(v.blocks) = {}

\* Every block of u counts once.
Ones(u) == [k \in 1..Len(u.itoi) |-> 1]

\* k = h.contract(g); results without a block are left out.
Contract(k, h, g) ==
  LET u == uten[h]
      v == uten[g]
      common == Len(CommonLegs(u, v))
      rank == Len(u.bonds) + Len(v.bonds) - 2 * common
  IN /\ Usable(h) /\ Usable(g)
     /\ Contractible(u, v)
     /\ rank <= MaxRank
     /\ \E w \in {IF common = 0 THEN [heap |-> tens] @@ Outer(u, v)
                  ELSE IF rank = 0 THEN [heap |-> tens] @@ Inner(u, v, Ones(u), Ones(v))
                  ELSE Contracted(u, v, Ones(u), Ones(v))} :
          /\ Small(w.blocks) /\ w.blocks # <<>>
          /\ Place(k, w.meta, w.blocks, [b \in 1..Len(w.blocks) |-> 0], w.heap)

\* k = h + g: blocks are found by their place; labels become positions.
Sum(k, h, g) ==
  LET u == uten[h]
      v == uten[g]
      plus(b) == IF u.itoi[b] \in ToSet(v.itoi)
                 THEN Plus(Blocks(u)[b], Blocks(v)[IndexIn(v.itoi, u.itoi[b])])
                 ELSE Blocks(u)[b]
  IN /\ Usable(h) /\ Usable(g)
     /\ u.bonds = v.bonds
     /\ \E blocks \in {[b \in 1..Len(u.blocks) |-> plus(b)]} :
          /\ Small(blocks)
          /\ Own(k, [u EXCEPT !.labels = [i \in 1..Len(@) |-> ToString(i - 1)]], blocks)

\* m is an order of the legs of h.
OfLegs(h, m) == Set(h) /\ Len(m) = Len(uten[h].bonds)

\* A tensor is made and given its values.
Construct == \E h \in Handles : (\E s \in Specs : Make(h, s)) \/ Fill(h)

\* Tensors are worked with.
Operate ==
  \E h \in Handles :
    \/ Set(h) /\ Transpose(h)
    \/ Set(h) /\ Group(h)
    \/ \E labels \in Labellings, k \in Handles : Relabel(k, h, labels)
    \/ \E n \in Rowranks, k \in Handles : SetRowrank(k, h, n)
    \/ \E k \in Handles : Clone(k, h)
    \/ \E p \in {m \in Mappers : OfLegs(h, m)} :
         PermuteInPlace(h, p) \/ \E k \in Handles : Permute(k, h, p)
    \/ \E inds \in {m \in Pairs : Set(h) /\ ToSet(m) \subseteq 1..Len(uten[h].bonds)} :
         \/ \E k \in Handles : Trace(k, h, inds[1], inds[2])
         \/ \E force \in BOOLEAN : CombineBonds(h, inds, force)
         \/ CombineThrows(h, inds)
    \/ Set(h) /\ \E j \in 1..Len(uten[h].bonds) :
         \E q \in 0..(Len(uten[h].bonds[j].qnums) - 1) : Truncate(h, j, q)
    \/ \E g, k \in Handles : Contract(k, h, g) \/ Sum(k, h, g)

Next == Construct \/ Operate

Spec == Init /\ [][Next]_vars

-----------------------------------------------------------------------------
(* The array a user reads.                                                 *)

\* For every basis vector of b the sector it is in, and its place there.
Basis(b) ==
  LET start(s) == Total(SubSeq(b.degs, 1, s))
      sector(i) == CHOOSE s \in 0..(Len(b.degs) - 1) : start(s) <= i /\ i < start(s + 1)
      at(i, s) == [sector |-> s, place |-> i - start(s)]
  IN [i \in 1..b.dim |-> Once(LAMBDA s : at(i - 1, s), sector(i - 1))]

Leg(label, b, basis) ==
  [label |-> label, type |-> b.type, syms |-> b.syms,
   charges |-> [i \in 1..b.dim |-> b.qnums[basis[i].sector + 1]]]

\* The element at loc of u with these blocks, 0 where there is no block
\* (_fx_locate_elem).
ElementAt(u, blocks, basis, loc) ==
  LET read(q) == IF q \notin ToSet(u.itoi) THEN 0
                 ELSE LET t == blocks[IndexIn(u.itoi, q)]
                      IN t.data[1 + Location(t.shape, [j \in 1..Len(loc) |->
                                                         basis[j][loc[j] + 1].place])]
  IN Once(read, [j \in 1..Len(loc) |-> basis[j][loc[j] + 1].sector])

\* The array of u with these blocks: its legs and its elements in row-major order.
Dense(u, blocks) ==
  LET elem(basis, loc) == IF loc = <<>> THEN blocks[1].data[1]
                          ELSE ElementAt(u, blocks, basis, loc)
      array(basis) ==
        LET shape == [j \in 1..Len(basis) |-> Len(basis[j])]
        IN [legs  |-> [j \in 1..Len(basis) |->
                         Leg(u.labels[j], u.bonds[j], basis[j])],
            elems |-> [n \in 1..Prod(shape) |->
                         Once(LAMBDA loc : elem(basis, loc), Locator(shape, n - 1))]]
  IN Once(array, [j \in 1..Len(u.bonds) |-> Basis(u.bonds[j])])

\* The arrays of the variables; one whose blocks do not fit its sectors has no
\* elements.
ArrayOf(u) ==
  IF u = Void THEN Void
  ELSE IF u.bonds # <<>> /\ ~Fits(u) THEN [legs |-> <<>>, elems |-> <<>>]
  ELSE Once(LAMBDA blocks : Dense(u, blocks), Blocks(u))

Arrays == [h \in Handles |-> Once(ArrayOf, uten[h])]

-----------------------------------------------------------------------------
\* Every variable has bonds, labels and a table of one length, distinct labels,
\* and for every entry of the table a block; every Tensor_impl is a block.
TypeOK ==
  /\ DOMAIN tens = UNION {ToSet(uten[h].blocks) : h \in {g \in Handles : Set(g)}}
  /\ \A t \in DOMAIN tens : Len(tens[t].data) = Prod(tens[t].shape)
  /\ \A h \in Handles : Set(h) =>
       /\ Len(uten[h].labels) = Len(uten[h].bonds) /\ IsInjective(uten[h].labels)
       /\ uten[h].rowrank \in 0..Len(uten[h].bonds)
       /\ Len(uten[h].blocks) = Len(uten[h].itoi) /\ IsInjective(uten[h].blocks)
       /\ \A k \in 1..Len(uten[h].itoi) : Len(uten[h].itoi[k]) = Len(uten[h].bonds)

\* The charge of a choice of sectors, as an element of the group: a bra counts
\* negative.
Neutral(u, loc) ==
  \A i \in 1..Len(u.bonds[1].syms) :
    LET s == u.bonds[1].syms[i]
        q(j) == u.bonds[j].qnums[loc[j] + 1][i]
        total == SumOver(1, Len(loc), LAMBDA j :
                           IF u.bonds[j].type = BD_BRA THEN -q(j) ELSE q(j))
    IN IF IsCyclic(s) THEN total % Order(s) = 0 ELSE total = 0

\* Whatever is done to a tensor, it has exactly one block for each choice of
\* sectors whose charges cancel and no other: "_inner_to_outer_idx" stays the
\* table that Init would build, in some order, through permutations, products,
\* traces, contractions and groupings.
TableComplete ==
  \A h \in Handles :
    Set(h) /\ uten[h].bonds # <<>> /\ Fits(uten[h]) =>
      /\ IsInjective(uten[h].itoi)
      /\ ToSet(uten[h].itoi) =
           {loc \in ToSet(SectorChoices(uten[h].bonds)) : Neutral(uten[h], loc)}
=============================================================================
