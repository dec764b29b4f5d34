------------------------- MODULE FermionicUniTensor -------------------------
(***************************************************************************)
(* UniTensors of fermions (BlockFermionicUniTensor): a BlockUniTensor in    *)
(* which every block has a sign flip besides.  The elements of a block with *)
(* a flip stand for their negatives.  Legs in odd sectors anticommute, so  *)
(* permuting legs flips signs and contracting them has to account for the  *)
(* order in which they meet.                                               *)
(*                                                                         *)
(* clone, relabel, put_block and permute_nosignflip(_) are those of the     *)
(* module BlockUniTensor: the flips come along.  Trace and combineBonds     *)
(* throw before they do anything.                                          *)
(***************************************************************************)
EXTENDS BlockUniTensor

CONSTANT PlainMappers  \* the arguments of permute_nosignflip

-----------------------------------------------------------------------------
(* Parities and sign flips.                                                *)

\* Symmetry::get_fermion_parity.
OddCharge(s, q) ==
  CASE s.stype = "fPar" -> q = 1
    [] s.stype = "fNum" -> q % 2 # 0
    [] OTHER            -> FALSE

\* Bond_impl::get_fermion_parity.
OddSector(b, q) ==
  LET odd[i \in 0..Len(b.syms)] ==
        IF i = 0 THEN FALSE ELSE odd[i - 1] # OddCharge(b.syms[i], b.qnums[q + 1][i])
  IN odd[Len(b.syms)]

\* Which legs of block k are odd.
Parities(u, k) == [j \in 1..Len(u.bonds) |-> OddSector(u.bonds[j], u.itoi[k][j])]

IsOdd(n) == n % 2 = 1

\* One step of the loop that brings leg st.q to its place: the entries at st.q and
\* at its target change places. The signed version of the loop lets the parities
\* move with the legs (moves) and still looks them up by the legs' old numbers.
SwapStep(st, moves) ==
  LET q    == st.q
      a    == st.perm[q]
      here == IF moves THEN st.odd[q] ELSE st.odd[st.perm[a]]
      between == {i \in (q + 1)..(a - 1) : st.odd[st.perm[i]]}
      crossed == IF here /\ st.odd[a] THEN 1
                 ELSE IF here # st.odd[a] THEN Cardinality(between) ELSE 0
  IN IF q > Len(st.perm) THEN st
     ELSE IF a = q THEN [st EXCEPT !.q = q + 1]
     ELSE [q    |-> q,
           perm |-> [st.perm EXCEPT ![q] = st.perm[a], ![a] = a],
           odd  |-> IF moves THEN [st.odd EXCEPT ![q] = st.odd[a], ![a] = here] ELSE st.odd,
           flip |-> st.flip # IsOdd(crossed)]

\* Whether legs of these parities change the sign when they are permuted by p. A leg
\* is in its place after each exchange, so 2 * Len(p) steps are enough.
Flip(p, odd, moves) ==
  Fold(LAMBDA st, n : SwapStep(st, moves),
       [q |-> 1, perm |-> p, odd |-> odd, flip |-> FALSE],
       Identity(2 * Len(p))).flip

\* _swapsigns_, for a mapper of signed numbers.
SwapSignsSigned(u, p) ==
  [k \in 1..Len(u.signs) |-> u.signs[k] # Flip(p, Parities(u, k), TRUE)]

\* _swapsigns_, for a mapper of unsigned numbers.
SwapSigns(u, p) ==
  [k \in 1..Len(u.signs) |-> u.signs[k] # Flip(p, Parities(u, k), FALSE)]

\* Mutant of LhsSigns: kets count as bras do.
LhsSigns_NoKets(u, p, n) == SwapSigns(u, p)

\* _lhssigns_: an odd ket among the last n legs, which are contracted, flips too.
LhsSigns(u, p, n) ==
  LET kets(odd) == {i \in (Len(p) - n + 1)..Len(p) :
                      odd[p[i]] /\ u.bonds[p[i]].type = BD_KET}
  IN [k \in 1..Len(u.signs) |->
        SwapSigns(u, p)[k] # IsOdd(Cardinality(kets(Parities(u, k))))]

Sign(flip) == IF flip THEN -1 ELSE 1

Signs(flips) == [k \in 1..Len(flips) |-> Sign(flips[k])]

\* The blocks of u as their readers have to take them.
SignedBlocks(u) == [k \in 1..Len(u.blocks) |-> Scaled(Sign(u.signs[k]), Blocks(u)[k])]

\* u without flips.
Even(u) == [signs |-> [k \in 1..Len(u.itoi) |-> FALSE]] @@ u

-----------------------------------------------------------------------------
(* Operations.                                                             *)

\* h = UniTensor(bonds, labels, rowrank), over symmetries of which one is fermionic.
MakeEven(h, s) ==
  /\ Constructible(s)
  /\ LET u == Even(Built(s.bonds, s.labels, s.rowrank)) IN Own(h, u, Blank(u))

\* p exchanges two legs or none: for other mappers the signed loop may go wrong.
IsExchange(p) == Cardinality({i \in 1..Len(p) : p[i] # i}) <= 2

\* u after permute(p), but for its blocks.
MappedSigned(u, p) == [Mapped(u, p) EXCEPT !.signs = SwapSignsSigned(u, p)]

\* k = h.permute(p)
PermuteLegs(k, h, p) ==
  /\ Usable(h)
  /\ Careful => IsExchange(p)
  /\ Own(k, MappedSigned(uten[h], p),
         [n \in 1..Len(uten[h].blocks) |-> Permuted(Blocks(uten[h])[n], p)])

\* h.permute_(p)
PermuteLegsInPlace(h, p) ==
  /\ Usable(h)
  /\ Careful => Alone(h) /\ IsExchange(p)
  /\ Commit([uten EXCEPT ![h] = MappedSigned(@, p)], PermutedHeap(uten[h], p))

\* h.Transpose_(): the bonds change direction, and the legs are put in reverse order
\* without flips.
TransposeLegs(h) ==
  LET turned == [uten[h] EXCEPT !.bonds = [j \in 1..Len(@) |-> [@[j] EXCEPT !.type = -@]]]
      p      == Reverse(Identity(Len(uten[h].bonds)))
  IN /\ Usable(h)
     /\ Careful => Alone(h)
     /\ Commit([uten EXCEPT ![h] = Mapped(turned, p)], PermutedHeap(uten[h], p))

\* Mutant of TruncatedSigned: the flips of the blocks that go stay.
TruncatedSigned_KeepFlips(u, j, q) == Truncated(u, j, q)

TruncatedSigned(u, j, q) ==
  [Truncated(u, j, q) EXCEPT !.signs = Compose(@, Remaining(u, j, q))]

\* h.truncate_(j, q)
TruncateSigned(h, j, q) ==
  Truncatable(h, j, q) /\ Share(h, TruncatedSigned(uten[h], j, q))

\* One pass of _fx_group_duplicates: blocks that are joined lose their flips first.
GroupLegSigned(u, j) ==
  LET place  == GroupedPlaces(u, j)
      firsts == Firsts(place)
      stays(k) == u.signs[k] /\ Len(SamePlace(place, k)) = 1
      flat == [u EXCEPT !.blocks = [k \in 1..Len(@) |->
                 Scaled(Sign(u.signs[k] /\ ~stays(k)), @[k])]]
  IN [GroupLeg(flat, j) EXCEPT !.signs = [n \in 1..Len(firsts) |-> stays(firsts[n])]]

\* h.group_basis_()
GroupSigned(h) ==
  LET u == uten[h]
  IN /\ Usable(h)
     /\ \E j \in 1..Len(u.bonds) : Duplicates(u.bonds[j])
     /\ Become(h, Fold(GroupLegSigned, Opened(u, Blocks(u)),
                       SelectSeq(Identity(Len(u.bonds)),
                                 LAMBDA j : Duplicates(u.bonds[j]))), tens)

\* The flip of block b of an outer product, which is of block l of u and r of v, is
\* read from the flips of u and of v at b; beyond their end anything is there.
OuterFlips(u, v, b) ==
  IF b <= Len(u.signs) /\ b <= Len(v.signs) THEN {u.signs[b] # v.signs[b]} ELSE BOOLEAN

\* No label in common: a block without a left block keeps its zeros and no flip.
OuterSigned(u, v) ==
  LET out == Outer(u, v).meta
      left(b)  == SubSeq(out.itoi[b], 1, Len(u.bonds))
      right(b) == SubSeq(out.itoi[b], Len(u.bonds) + 1, Len(out.bonds))
      true(b)  == u.signs[IndexIn(u.itoi, left(b))] # v.signs[IndexIn(v.itoi, right(b))]
      flips(b) == IF left(b) \in ToSet(u.itoi) THEN OuterFlips(u, v, b) ELSE {FALSE}
      fine == \A b \in 1..Len(out.itoi) : left(b) \in ToSet(u.itoi) =>
                                              OuterFlips(u, v, b) = {true(b)}
  IN {[meta |-> [signs |-> s] @@ out, blocks |-> Outer(u, v).blocks, heap |-> tens] :
        s \in {f \in [1..Len(out.itoi) -> BOOLEAN] :
                 /\ Careful => fine
                 /\ \A b \in 1..Len(out.itoi) : f[b] \in flips(b)}}

\* Every leg is contracted: the legs of u in reverse meet those of v, which has been
\* permuted.
InnerSigned(u, v) ==
  LET c == CommonLegs(u, v)
      d == Partners(u, v)
      even(w) == [meta |-> Even(w.meta), blocks |-> w.blocks, heap |-> tens]
  IN IF Careful /\ ~IsExchange(d) THEN {}
     ELSE {even(Inner(u, v, l, r)) : l \in {Signs(LhsSigns(u, Reverse(c), Len(c)))},
                                     r \in {Signs(SwapSignsSigned(v, d))}}

\* The general case.
ContractedSigned(u, v) ==
  LET c     == CommonLegs(u, v)
      d     == Partners(u, v)
      freeL == Others(Len(u.bonds), ToSet(c))
      freeR == Others(Len(v.bonds), ToSet(d))
      even(w) == [w EXCEPT !.meta = Even(@)]
  IN {even(Contracted(u, v, l, r)) : l \in {Signs(LhsSigns(u, freeL \o Reverse(c), Len(c)))},
                                     r \in {Signs(SwapSigns(v, d \o freeR))}}

\* k = h.contract(g); results without a block are left out.
ContractSigned(k, h, g) ==
  LET u == uten[h]
      v == uten[g]
      common == Len(CommonLegs(u, v))
      rank == Len(u.bonds) + Len(v.bonds) - 2 * common
  IN /\ Usable(h) /\ Usable(g)
     /\ Contractible(u, v)
     /\ rank <= MaxRank
     /\ \E w \in IF common = 0 THEN OuterSigned(u, v)
                 ELSE IF rank = 0 THEN InnerSigned(u, v)
                 ELSE ContractedSigned(u, v) :
          /\ Small(w.blocks) /\ w.blocks # <<>>
          /\ Place(k, w.meta, w.blocks, [b \in 1..Len(w.blocks) |-> 0], w.heap)

\* k = h + g: of g the flips are heeded, of h they are not.
SumSigned(k, h, g) ==
  LET u == uten[h]
      v == uten[g]
      plus(b) == IF u.itoi[b] \in ToSet(v.itoi)
                 THEN Plus(Blocks(u)[b], SignedBlocks(v)[IndexIn(v.itoi, u.itoi[b])])
                 ELSE Blocks(u)[b]
  IN /\ Usable(h) /\ Usable(g)
     /\ u.bonds = v.bonds
     /\ Careful => TRUE \notin ToSet(u.signs)
     /\ \E blocks \in {[b \in 1..Len(u.blocks) |-> plus(b)]} :
          /\ Small(blocks)
          /\ Own(k, [u EXCEPT !.labels = [i \in 1..Len(@) |-> ToString(i - 1)]], blocks)

ConstructEven == \E h \in Handles : (\E s \in Specs : MakeEven(h, s)) \/ Fill(h)

OperateSigned ==
  \E h \in Handles :
    \/ Set(h) /\ TransposeLegs(h)
    \/ Set(h) /\ GroupSigned(h)
    \/ \E labels \in Labellings, k \in Handles : Relabel(k, h, labels)
    \/ \E k \in Handles : Clone(k, h)
    \/ \E p \in {m \in Mappers : OfLegs(h, m)} :
         PermuteLegsInPlace(h, p) \/ \E k \in Handles : PermuteLegs(k, h, p)
    \/ \E p \in {m \in PlainMappers : OfLegs(h, m)} :
         PermuteInPlace(h, p) \/ \E k \in Handles : Permute(k, h, p)
    \/ Set(h) /\ \E j \in 1..Len(uten[h].bonds) :
         \E q \in 0..(Len(uten[h].bonds[j].qnums) - 1) : TruncateSigned(h, j, q)
    \/ \E g, k \in Handles : ContractSigned(k, h, g) \/ SumSigned(k, h, g)

FermionicNext == ConstructEven \/ OperateSigned

FermionicSpec == Init /\ [][FermionicNext]_vars

-----------------------------------------------------------------------------
\* The array of a tensor: what its elements stand for.
Meaning(u) ==
  IF u = Void THEN Void
  ELSE IF u.bonds # <<>> /\ ~Fits(u) THEN [legs |-> <<>>, elems |-> <<>>]
  ELSE Once(LAMBDA blocks : Dense(u, blocks), SignedBlocks(u))

Meanings == [h \in Handles |-> Once(Meaning, uten[h])]

\* What BlockUniTensor keeps, and one flip for every block ("_signflip"), whatever
\* is truncated, grouped, joined or contracted.
FermionicTypeOK ==
  /\ TypeOK
  /\ \A h \in Handles : Set(h) =>
       /\ Len(uten[h].signs) = Len(uten[h].itoi)
       /\ \A k \in 1..Len(uten[h].signs) : uten[h].signs[k] \in BOOLEAN
=============================================================================
