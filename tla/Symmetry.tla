------------------------------ MODULE Symmetry ------------------------------
(***************************************************************************)
(* The four symmetries a bond can carry and their rules for quantum        *)
(* numbers.  A list of quantum numbers, one per symmetry, is a sequence.   *)
(*                                                                         *)
(* The % of C++ and that of TLA+ agree where a sum of two valid numbers,   *)
(* or of a valid one and a reversed valid one, is taken, which is never    *)
(* negative. In the table of a UniTensor the numbers of a first bra are    *)
(* reversed by the rule of its first symmetry: -a, if that is U1. The two  *)
(* remainders then differ by the order of the symmetry, and whether the    *)
(* total is 0, which alone counts there, is the same.                      *)
(***************************************************************************)
EXTENDS Integers, Sequences

\* The constructors, with the n that operator== compares.
U1            == [stype |-> "U", n |-> 1]
Zn(n)         == [stype |-> "Z", n |-> n]
FermionParity == [stype |-> "fPar", n |-> -2]
FermionNumber == [stype |-> "fNum", n |-> -1]

Symmetries ==
  {U1, FermionParity, FermionNumber} \cup [stype: {"Z"}, n: Nat \ {0, 1}]

\* Z(n) and the fermion parity count modulo their order, the others do not.
IsCyclic(s) == s.stype \in {"Z", "fPar"}

Order(s) == IF s.stype = "fPar" THEN 2 ELSE s.n

check_qnum(s, q) == IsCyclic(s) => 0 <= q /\ q < Order(s)

combine_rule(s, a, b) == IF IsCyclic(s) THEN (a + b) % Order(s) ELSE a + b

\* Mutant of reverse_rule: the sign of the numbers that are not cyclic is kept.
reverse_rule_Same(s, a) == IF IsCyclic(s) THEN Order(s) - a ELSE a

\* The reverse of 0 under a cyclic symmetry is its order, which is not valid.
reverse_rule(s, a) == IF IsCyclic(s) THEN Order(s) - a ELSE -a

-----------------------------------------------------------------------------
(* The rules on lists, for the symmetries syms.                            *)

Valid(syms, q) == \A i \in 1..Len(syms) : check_qnum(syms[i], q[i])

CombineAll(syms, p, q) ==
  [i \in 1..Len(syms) |-> combine_rule(syms[i], p[i], q[i])]

ReverseAll(syms, q) == [i \in 1..Len(syms) |-> reverse_rule(syms[i], q[i])]
=============================================================================
