------------------------------ MODULE BondImpl ------------------------------
(***************************************************************************)
(* A Bond_impl as a value, and what its member functions make of it: a     *)
(* direction, a dimension and, with symmetries, a list of quantum numbers  *)
(* (the sectors) with their degeneracies.                                  *)
(***************************************************************************)
EXTENDS Symmetry, FiniteSets, SequencesExt

\* bondType.
BD_KET == -1
BD_REG == 0
BD_BRA == 1

Types == {BD_KET, BD_REG, BD_BRA}

Total(degs) ==
  LET t[k \in 0..Len(degs)] == IF k = 0 THEN 0 ELSE t[k - 1] + degs[k]
  IN t[Len(degs)]

-----------------------------------------------------------------------------
(* The parts of the member functions.                                      *)

\* Bond_impl().
Empty ==
  [type |-> BD_REG, dim |-> 0, qnums |-> <<>>, degs |-> <<>>, syms |-> <<>>]

\* Init(dim, type): the other fields stay.
InitRegular(b, dim, type) == [b EXCEPT !.type = type, !.dim = dim]

\* The symmetries that Init gives the bond: U1 where none are named.
SymsOf(m) ==
  IF m.syms = <<>> THEN [i \in 1..Len(m.qnums[1]) |-> U1] ELSE m.syms

HasZero(m) == \E k \in 1..Len(m.degs) : m.degs[k] = 0

\* The degeneracies in front of the first 0.
UpToZero(m) ==
  SubSeq(m.degs, 1, (CHOOSE k \in 1..Len(m.degs) :
                       /\ m.degs[k] = 0
                       /\ \A j \in 1..(k - 1) : m.degs[j] # 0) - 1)

\* Quantum numbers of different lengths, or too few or too many symmetries.
Misfit(m) ==
  \/ \E k \in 1..Len(m.qnums) : Len(m.qnums[k]) # Len(m.qnums[1])
  \/ m.syms # <<>> /\ Len(m.syms) # Len(m.qnums[1])

\* Mutant of Accepted: the quantum numbers are not checked.
Accepted_Unchecked(m) == ~HasZero(m) /\ ~Misfit(m) /\ m.type # BD_REG

\* Init(type, qnums, degs, syms) returns: none of its checks throws.
Accepted(m) ==
  /\ ~HasZero(m) /\ ~Misfit(m)
  /\ m.type # BD_REG
  /\ \A k \in 1..Len(m.qnums) : Valid(SymsOf(m), m.qnums[k])

\* Mutant of InitSymmetric: the dimension is added to the one there was.
InitSymmetric_NoReset(b, m) ==
  IF HasZero(m) THEN [b EXCEPT !.dim = @ + Total(UpToZero(m))]
  ELSE IF Misfit(m) THEN [b EXCEPT !.dim = @ + Total(m.degs)]
  ELSE [type |-> m.type, dim |-> b.dim + Total(m.degs), qnums |-> m.qnums,
        degs |-> m.degs, syms |-> SymsOf(m)]

\* Init(type, qnums, degs, syms), whether it returns or throws: the dimension is
\* written while the degeneracies are checked, the rest before the type and the
\* quantum numbers are.
InitSymmetric(b, m) ==
  IF HasZero(m) THEN [b EXCEPT !.dim = Total(UpToZero(m))]
  ELSE IF Misfit(m) THEN [b EXCEPT !.dim = Total(m.degs)]
  ELSE [type |-> m.type, dim |-> Total(m.degs), qnums |-> m.qnums,
        degs |-> m.degs, syms |-> SymsOf(m)]

\* Lists of quantum numbers compare as std::vectors do.
Less(p, q) ==
  \E i \in 1..Len(p) : p[i] < q[i] /\ \A j \in 1..(i - 1) : p[j] = q[j]

\* The total degeneracy of quantum numbers q.
DegOf(b, q) ==
  Total([k \in 1..Len(b.qnums) |-> IF b.qnums[k] = q THEN b.degs[k] ELSE 0])

\* The lists of the quantum numbers of b, sorted, without duplicates: one.
SortedQnums(b) ==
  LET qs == ToSet(b.qnums)
  IN {s \in [1..Cardinality(qs) -> qs] :
        \A k \in 1..(Len(s) - 1) : Less(s[k], s[k + 1])}

\* b with the quantum numbers s, each with the degeneracy of all its duplicates.
Grouped(b, s) ==
  [b EXCEPT !.qnums = s, !.degs = [k \in 1..Len(s) |-> DegOf(b, s[k])]]

\* What group_duplicates_, or the map QNpool of combineBond_, makes of b.
Groupings(b) == {Grouped(b, s) : s \in SortedQnums(b)}

\* combineBond_ and force_combineBond_ on the bonds b and c, before duplicates are
\* grouped.  Only force_combineBond_ meets two types: c's numbers count reversed.
Combined(b, c) ==
  LET n == Len(c.qnums)
      left(d)  == ((d - 1) \div n) + 1
      right(d) == ((d - 1) % n) + 1
      turned(q) == IF b.type = c.type THEN q ELSE ReverseAll(b.syms, q)
  IN [b EXCEPT
        !.dim   = b.dim * c.dim,
        !.qnums = [d \in 1..(Len(b.qnums) * n) |->
                     CombineAll(b.syms, b.qnums[left(d)],
                                turned(c.qnums[right(d)]))],
        !.degs  = [d \in 1..(Len(b.qnums) * n) |->
                     b.degs[left(d)] * c.degs[right(d)]]]

\* The same with is_grp or without.
Products(b, c, grp) ==
  IF grp THEN Groupings(Combined(b, c)) ELSE {Combined(b, c)}

\* _rm_qnum.
Removed(b, q) ==
  [b EXCEPT !.dim = @ - b.degs[q], !.degs = RemoveAt(@, q),
            !.qnums = RemoveAt(@, q)]
=============================================================================
