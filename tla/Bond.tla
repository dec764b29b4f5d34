-------------------------------- MODULE Bond --------------------------------
(***************************************************************************)
(* The Bond component: user variables and the reference-counted Bond_impl  *)
(* objects they share, whose contents are the values of BondImpl.          *)
(*                                                                         *)
(* Init and combineBond_ write some fields before the checks they throw    *)
(* on, and Init(dim, type) keeps the quantum numbers of a symmetric bond.  *)
(* torn remembers the impls whose fields these calls have left that do not *)
(* belong together; such a bond is only assigned or initialised again.     *)
(*                                                                         *)
(* Quantum numbers without degeneracies (the old format) are left out: no  *)
(* constructor makes them, they only come from files of older versions.    *)
(***************************************************************************)
EXTENDS BondImpl

CONSTANTS Handles,     \* the user's Bond variables
          Impls,       \* names of Bond_impl objects
          Void,        \* what an unset variable refers to
          None,        \* a free name
          Dims,        \* dimensions of bonds without symmetries
          Specs,       \* arguments of Init with quantum numbers, bad ones too
          MaxDim,      \* bound on the dimension of a bond
          MaxCharge    \* bound on the quantum numbers that are not cyclic

\* Lists that are empty or of two lengths, and the dimension 0, are refused
\* before anything is written and are left out, as are numbers for no symmetry.
ASSUME BondAssumption ==
  /\ Void \notin Impls /\ None \notin Impls
  /\ Dims \subseteq Nat \ {0}
  /\ \A m \in Specs :
       /\ m.type \in {-1, 0, 1}
       /\ m.qnums \in Seq(Seq(Int)) /\ m.qnums # <<>> /\ m.qnums[1] # <<>>
       /\ m.degs \in Seq(Nat) /\ Len(m.degs) = Len(m.qnums)
       /\ m.syms \in Seq(Symmetries)
  /\ MaxDim \in Nat /\ MaxCharge \in Nat

VARIABLES ref,         \* ref[h]: the impl h refers to, or Void
          impl,        \* impl[i]: the Bond_impl named i, or None
          torn         \* impls whose fields do not belong together

vars == <<ref, impl, torn>>

-----------------------------------------------------------------------------
Live(r) == {r[h] : h \in Handles} \ {Void}

\* Handles on a bond that is as its constructor promises.
Whole(h) == ref[h] # Void /\ ref[h] \notin torn

B(h) == impl[ref[h]]

\* Mutant of Commit: an impl outlives its last handle.
Commit_Leak(r, im, tn) ==
  /\ ref'  = r
  /\ impl' = im
  /\ torn' = tn \cap Live(r)

\* intrusive_ptr: an impl is deleted with its last handle.
Commit(r, im, tn) ==
  /\ ref'  = r
  /\ impl' = [i \in Impls |-> IF i \in Live(r) THEN im[i] ELSE None]
  /\ torn' = tn \cap Live(r)

\* h is given a new impl, which is b.
Bind(h, b) ==
  \E i \in Impls \ Live(ref) :
     Commit([ref EXCEPT ![h] = i], [impl EXCEPT ![i] = b], torn)

\* The impl of h becomes b; tn are the torn impls then.
Update(h, b, tn) == Commit(ref, [impl EXCEPT ![ref[h]] = b], tn)

\* The bounds on the products a user makes.
SmallDim(b, c) == b.dim * c.dim <= MaxDim

SmallCharges(b) ==
  \A k \in 1..Len(b.qnums) : \A i \in 1..Len(b.syms) :
    ~IsCyclic(b.syms[i]) => b.qnums[k][i] \in -MaxCharge..MaxCharge

-----------------------------------------------------------------------------
(* The operations.                                                         *)

Init ==
  /\ ref  = [h \in Handles |-> Void]
  /\ impl = [i \in Impls |-> None]
  /\ torn = {}

\* Bond()
Default(h) == Bind(h, Empty)

\* Bond(dim, type)
Regular(h, dim, type) == Bind(h, InitRegular(Empty, dim, type))

\* Bond(type, qnums, degs, syms); there is no object if Init throws.
Symmetric(h, m) == Accepted(m) /\ Bind(h, InitSymmetric(Empty, m))

\* Init on the bond there is, without symmetries.
InitAgain(h, dim, type) ==
  /\ ref[h] # Void
  /\ Update(h, InitRegular(B(h), dim, type),
            IF B(h).qnums = <<>> THEN torn \ {ref[h]} ELSE torn \cup {ref[h]})

\* Init on the bond there is, with symmetries.
InitSymmetricAgain(h, m) ==
  /\ ref[h] # Void
  /\ Update(h, InitSymmetric(B(h), m),
            IF Accepted(m) THEN torn \ {ref[h]} ELSE torn \cup {ref[h]})

\* h = g: one impl, two handles.
Assign(h, g) ==
  /\ ref[g] # Void
  /\ Commit([ref EXCEPT ![h] = ref[g]], impl, torn)

Clone(h, g) == Whole(g) /\ Bind(h, B(g))

\* h = Load of a file that g was saved to: the dimension is computed anew.
SaveLoad(h, g) ==
  /\ Whole(g)
  /\ Bind(h, IF B(g).degs = <<>> THEN B(g)
             ELSE [B(g) EXCEPT !.dim = Total(B(g).degs)])

\* set_type does not throw: not the type BD_REG for a bond with numbers.
TypeFits(b, type) == b.qnums = <<>> \/ type # BD_REG

\* set_type, and clear_type with BD_REG.
SetType(h, type) ==
  /\ Whole(h) /\ TypeFits(B(h), type)
  /\ Update(h, [B(h) EXCEPT !.type = type], torn)

\* h = g.retype(type)
Retype(h, g, type) ==
  /\ Whole(g) /\ TypeFits(B(g), type)
  /\ Bind(h, [B(g) EXCEPT !.type = type])

\* redirect_
RedirectInPlace(h) ==
  Whole(h) /\ Update(h, [B(h) EXCEPT !.type = -@], torn)

\* h = g.redirect()
Redirect(h, g) == Whole(g) /\ Bind(h, [B(g) EXCEPT !.type = -@])

\* combineBond_ (and force_combineBond_, which takes any type) pass their first
\* checks.
Combinable(b, c, force) ==
  /\ force \/ b.type = c.type
  /\ Len(b.syms) = Len(c.syms)

\* h.combineBond_(g) and force_combineBond_; g may be h.  A list of bonds is
\* combined one at a time.
CombineInPlace(h, g, force, grp) ==
  /\ Whole(h) /\ Whole(g)
  /\ Combinable(B(h), B(g), force)
  /\ B(h).syms = B(g).syms
  /\ SmallDim(B(h), B(g))
  /\ \E b \in Products(B(h), B(g), grp) : SmallCharges(b) /\ Update(h, b, torn)

\* The same when the symmetries differ: it throws, the dimension is multiplied.
CombineThrows(h, g, force) ==
  /\ Whole(h) /\ Whole(g)
  /\ Combinable(B(h), B(g), force)
  /\ B(h).syms # B(g).syms
  /\ SmallDim(B(h), B(g))
  /\ Update(h, [B(h) EXCEPT !.dim = @ * B(g).dim], torn \cup {ref[h]})

\* k = h.combineBond(g): a clone that throws is lost.
CombineBond(k, h, g, grp) ==
  /\ Whole(h) /\ Whole(g)
  /\ Combinable(B(h), B(g), FALSE)
  /\ B(h).syms = B(g).syms
  /\ SmallDim(B(h), B(g))
  /\ \E b \in Products(B(h), B(g), grp) : SmallCharges(b) /\ Bind(k, b)

\* group_duplicates_; it throws for a bond without degeneracies.
GroupInPlace(h) ==
  /\ Whole(h) /\ B(h).degs # <<>>
  /\ \E b \in Groupings(B(h)) : Update(h, b, torn)

\* h = g.group_duplicates()
Group(h, g) ==
  /\ Whole(g) /\ B(g).degs # <<>>
  /\ \E b \in Groupings(B(g)) : Bind(h, b)

\* UniTensor::truncate_ removes a quantum number, but never the only one.
Truncate(h, q) ==
  /\ Whole(h)
  /\ q \in 1..Len(B(h).qnums) /\ Len(B(h).qnums) # 1
  /\ Update(h, Removed(B(h), q), torn)

Next ==
  \E h \in Handles :
    \/ Default(h)
    \/ \E dim \in Dims, type \in Types :
         Regular(h, dim, type) \/ InitAgain(h, dim, type)
    \/ \E m \in Specs : Symmetric(h, m) \/ InitSymmetricAgain(h, m)
    \/ \E type \in Types : SetType(h, type)
    \/ RedirectInPlace(h)
    \/ GroupInPlace(h)
    \/ Whole(h) /\ \E q \in 1..Len(B(h).qnums) : Truncate(h, q)
    \/ \E g \in Handles :
         \/ Assign(h, g) \/ Clone(h, g) \/ SaveLoad(h, g)
         \/ Redirect(h, g) \/ Group(h, g)
         \/ \E type \in Types : Retype(h, g, type)
         \/ \E force \in BOOLEAN :
              \/ CombineThrows(h, g, force)
              \/ \E grp \in BOOLEAN : CombineInPlace(h, g, force, grp)
         \/ \E k \in Handles, grp \in BOOLEAN : CombineBond(k, h, g, grp)

Spec == Init /\ [][Next]_vars

-----------------------------------------------------------------------------
Bonds ==
  [type: Types, dim: Nat, qnums: Seq(Seq(Int)), degs: Seq(Nat),
   syms: Seq(Symmetries)]

\* Every handle refers to a bond that exists, every bond has a handle, and
\* quantum numbers and degeneracies are as many, also after a call that threw.
TypeOK ==
  /\ ref \in [Handles -> Impls \cup {Void}]
  /\ DOMAIN impl = Impls
  /\ torn \subseteq Live(ref)
  /\ \A i \in Impls :
       IF i \in Live(ref)
       THEN impl[i] \in Bonds /\ Len(impl[i].qnums) = Len(impl[i].degs)
       ELSE impl[i] = None

Intact == Live(ref) \ torn

\* The dimension that combineBond_, _rm_qnum and _Load keep in step with the
\* degeneracies is their sum, whatever the products, groupings and removals.
DimKept ==
  \A i \in Intact :
     impl[i].qnums # <<>> => impl[i].dim = Total(impl[i].degs)

\* What Init checks once stays true: the quantum numbers of a bond are in the
\* range of their symmetries after every product, also one in which the numbers
\* of the other bond were reversed, out of that range.
QnumsValid ==
  \A i \in Intact : \A k \in 1..Len(impl[i].qnums) :
     Valid(impl[i].syms, impl[i].qnums[k])

\* The graded space a bond stands for.
SpaceOf(b) ==
  [type |-> b.type, syms |-> b.syms,
   mult |-> IF b.syms = <<>> THEN [c \in {<<>>} |-> b.dim]
            ELSE [c \in ToSet(b.qnums) |-> DegOf(b, c)]]

Space ==
  [i \in Live(ref) |->
     IF i \in torn THEN [type |-> 0, syms |-> <<>>, mult |-> <<>>]
     ELSE SpaceOf(impl[i])]

FreshSpaces ==
  {SpaceOf(Empty)}
    \cup {SpaceOf(InitRegular(Empty, d, t)) : d \in Dims, t \in Types}
    \cup {SpaceOf(InitSymmetric(Empty, m)) : m \in {s \in Specs : Accepted(s)}}

Promised == INSTANCE GradedSpace WITH
  obj <- ref, space <- Space, Fresh <- FreshSpaces

\* Bonds (include/Bond.hpp) behave as graded spaces. Products multiply
\* multiplicities and add charges in the group, with the sign that the directions
\* ask for; grouping and saving change nothing; a call touches the bond it is made
\* on and every handle on it, and no other, whether it returns or throws.
ImplementsSpace == Promised!Spec
=============================================================================
