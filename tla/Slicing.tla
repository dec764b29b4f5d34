------------------------------ MODULE Slicing ------------------------------
(***************************************************************************)
(* Reading and writing parts of a Tensor: get and set with one Accessor    *)
(* per axis, and T(...) += v and T(...) = U(...), which the proxy of a     *)
(* slice makes of them.  The accessors are given for the axes the user     *)
(* sees; get and set bring them into the order of the storage, merge the   *)
(* axes at the end that are taken whole into units of contiguous memory,   *)
(* and permute what they have read, or are about to write, between the two *)
(* orders.                                                                 *)
(*                                                                         *)
(* A call that throws has changed nothing, so it is no action.             *)
(***************************************************************************)
EXTENDS Tensor, Accessor

CONSTANTS Slices,      \* lists of accessors a user passes
          SlicePairs   \* lists passed together to T(...) = U(...)

\* What a user passes.
SlicesAssumption == \A accs \in Slices : accs \in Seq(Accessors)

-----------------------------------------------------------------------------
\* vec_map by the inverse map, with All for the axes no accessor is given for.
InStorage(t, accs) ==
  Compose([k \in 1..Len(t.shape) |-> IF k <= Len(accs) THEN accs[k] ELSE All], t.inv)

StorageShape(t) == Compose(t.shape, t.inv)

Removed(acc) == {k \in DOMAIN acc : acc[k].type = "Singl"}

\* The axes before the units: up to the last one that is not taken whole.
Fronts(acc) ==
  CHOOSE n \in 0..Len(acc) :
    /\ n = 0 \/ acc[n] # All
    /\ \A k \in n + 1..Len(acc) : acc[k] = All

\* get_shape: how much is taken of every axis of the storage.
Lengths(dims, acc) ==
  [k \in DOMAIN acc |->
     IF acc[k] = All THEN dims[k] ELSE Len(Positions(acc[k], dims[k]))]

\* The call is accepted, and stays on the axes.
Accepts(t, accs) ==
  /\ Len(accs) <= Len(t.shape)
  /\ \A k \in 1..Len(accs) : /\ OnAxis(accs[k], t.shape[k])
                             /\ ~Refuses(accs[k], t.shape[k])

\* The kernels of GetElem_byShape_v2 and SetElem_byShape_v2: the units they touch,
\* in the order in which they do.
Units(t, accs) ==
  LET acc   == InStorage(t, accs)
      dims  == StorageShape(t)
      n     == Fronts(acc)
      front == SubSeq(dims, 1, n)
      taken == SubSeq(Lengths(dims, acc), 1, n)
      At_(c) == Location(front,
                  [k \in 1..n |-> IF acc[k] = All THEN c[k]
                                  ELSE Positions(acc[k], dims[k])[c[k] + 1]])
  IN [q \in 1..Prod(taken) |-> At_(Locator(taken, q - 1))]

\* Nunit: how many elements make a unit.
Nunit(t, accs) ==
  LET acc == InStorage(t, accs)
  IN Prod(SubSeq(StorageShape(t), Fronts(acc) + 1, Len(acc)))

\* The places in the storage they touch.
Touched(t, accs) ==
  LET units == Units(t, accs)
      n     == Nunit(t, accs)
  IN [m \in 1..Len(units) * n |->
        units[((m - 1) \div n) + 1] * n + ((m - 1) % n) + 1]

\* new_shape: what is taken, in the order of the storage, without the axes of
\* which a single index is.
Kept(t, accs) ==
  LET acc     == InStorage(t, accs)
      lengths == Lengths(StorageShape(t), acc)
      axes    == Erased(Identity(Len(acc)), Removed(acc))
  IN Compose(lengths, axes)

\* perm: from the order of the storage back to the user's.  An axis of the storage
\* is renumbered by the removed ones before it.
Back(t, accs) ==
  LET removed == Removed(InStorage(t, accs))
      axes    == Erased(t.mapper, removed)
  IN [i \in DOMAIN axes |->
        axes[i] - Cardinality({k \in removed : k < axes[i]})]

\* Mutant of Inverted: the right tensor is permuted like a slice that is read.
Inverted_Same(perm) == perm

\* iperm: the inverse of perm.
Inverted(perm) == [k \in DOMAIN perm |-> CHOOSE i \in DOMAIN perm : perm[i] = k]

-----------------------------------------------------------------------------
(* get: an impl and the storage made for it.                               *)

\* Mutant of GotImpl: the inverse map of the sliced tensor is taken over.
GotImpl_OldInverse(t, accs) ==
  IF Kept(t, accs) = <<>> THEN Plain(<<1>>)
  ELSE [Permuted(Plain(Kept(t, accs)), Back(t, accs)) EXCEPT !.inv = t.inv]

\* What is read, permuted back to the order of the user's axes.
GotImpl(t, accs) ==
  IF Kept(t, accs) = <<>> THEN Plain(<<1>>)
  ELSE Permuted(Plain(Kept(t, accs)), Back(t, accs))

GotStore(t, o, accs) ==
  FromVector("Int64", Compose(o.mem, Touched(t, accs)))

Get(h, g, accs) ==
  /\ Whole(g)
  /\ Accepts(T(g), accs)
  /\ BindFresh(h, GotImpl(T(g), accs), GotStore(T(g), S(g), accs))

-----------------------------------------------------------------------------
(* set.                                                                    *)

\* The check of the shape, of a right tensor that is not a single element.
Fits(t, accs, rt) ==
  LET perm  == Back(t, accs)
      shape == IF Kept(t, accs) = <<>> THEN <<1>> ELSE Kept(t, accs)
  IN /\ Len(rt.shape) = Len(perm)
     /\ Compose(rt.shape, Inverted(perm)) = shape

(***************************************************************************)
(* The elements mem of the storage of t after set from the tensor rt on    *)
(* the storage ro.  What is written comes from rt brought into the order   *)
(* of t's storage and made contiguous: that is a copy, or rt's own         *)
(* storage, and the storage of t itself if alias says so.  Then the loop   *)
(* reads what it has already written.                                      *)
(***************************************************************************)
SetElems(t, mem, accs, rt, ro, alias) ==
  LET places == Touched(t, accs)
      tmp    == Permuted(rt, Inverted(Back(t, accs)))
      in     == ContiStore(tmp, ro).mem
      WriteOne(m, n) == [m EXCEPT ![places[n]] =
                           IF ro.size = 1 THEN ro.mem[1]
                           ELSE IF alias /\ tmp.conti THEN m[n] ELSE in[n]]
  IN FoldLeft(WriteOne, mem, Identity(Len(places)))

\* The storage o of t after set from rt; that of rt is ro.
SetStore(t, o, accs, rt, ro, alias) ==
  [o EXCEPT !.mem = SetElems(t, @, accs, rt, ro, alias)]

Set(h, accs, g) ==
  /\ Whole(h) /\ Whole(g)
  /\ Accepts(T(h), accs)
  /\ S(g).size = 1 \/ Fits(T(h), accs, T(g))
  /\ Update(h, T(h), T(h).st,
            SetStore(T(h), S(h), accs, T(g), S(g), T(g).st = T(h).st), torn)

\* set of a scalar: a storage of one element is made for it.
SetScalar(h, accs, v) ==
  /\ Whole(h)
  /\ Accepts(T(h), accs)
  /\ Update(h, T(h), T(h).st,
            [S(h) EXCEPT !.mem =
               LET touched == Range(Touched(T(h), accs))
               IN [k \in DOMAIN @ |-> IF k \in touched THEN v ELSE @[k]]],
            torn)

\* T(accs) = U(bccs): the slice of U is read before the one of T is written.
SetSlice(h, accs, g, bccs) ==
  /\ Whole(h) /\ Whole(g)
  /\ Accepts(T(h), accs) /\ Accepts(T(g), bccs)
  /\ LET rt == GotImpl(T(g), bccs)
         ro == GotStore(T(g), S(g), bccs)
     IN /\ ro.size = 1 \/ Fits(T(h), accs, rt)
        /\ Update(h, T(h), T(h).st,
                  SetStore(T(h), S(h), accs, rt, ro, FALSE), torn)

\* T(accs) += v: the slice is read, added to and written back.
AddSlice(h, accs, v) ==
  /\ Whole(h)
  /\ Accepts(T(h), accs)
  /\ LET rt == GotImpl(T(h), accs)
         ro == GotStore(T(h), S(h), accs)
         sum == [ro EXCEPT !.mem = [k \in DOMAIN @ |-> IF k <= ro.size THEN @[k] + v ELSE @[k]]]
     IN /\ \A k \in 1..ro.size : sum.mem[k] <= MaxValue
        /\ Update(h, T(h), T(h).st,
                  SetStore(T(h), S(h), accs, rt, sum, FALSE), torn)

-----------------------------------------------------------------------------
SliceNext ==
  \E h \in Handles, accs \in Slices :
     \/ \E g \in Handles : Get(h, g, accs) \/ Set(h, accs, g)
     \/ \E v \in Values : SetScalar(h, accs, v) \/ AddSlice(h, accs, v)
     \/ \E g \in Handles, bccs \in Slices :
          <<accs, bccs>> \in SlicePairs /\ SetSlice(h, accs, g, bccs)

SlicingSpec == Init /\ [][Next \/ SliceNext]_vars
=============================================================================
