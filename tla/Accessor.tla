------------------------------ MODULE Accessor ------------------------------
(***************************************************************************)
(* Accessors: what a user passes to get and set for one axis of a tensor,  *)
(* and the positions it stands for on an axis of dimension dim             *)
(* (get_len_pos).  Positions count from 0, as in the code.  An Accessor    *)
(* that the constructors refuse, such as one of step 0, is none.           *)
(***************************************************************************)
EXTENDS Integers, Sequences

Singl(loc)             == [type |-> "Singl", loc |-> loc]
All                    == [type |-> "All"]
Range_(min, max, step) == [type |-> "Range", min |-> min, max |-> max, step |-> step]
Tilend(min, step)      == [type |-> "Tilend", min |-> min, step |-> step]
Step(step)             == [type |-> "Step", step |-> step]
List(idx)              == [type |-> "list", idx |-> idx]

Accessors ==
       {All} \cup [type : {"Singl"}, loc : Int] \cup [type : {"list"}, idx : Seq(Int)]
  \cup [type : {"Range"}, min : Int, max : Int, step : Int \ {0}]
  \cup [type : {"Tilend"}, min : Int, step : Int \ {0}]
  \cup [type : {"Step"}, step : Int \ {0}]

-----------------------------------------------------------------------------
\* The division of C++, which rounds towards 0.
Quotient(m, n) ==
  LET q == (IF m < 0 THEN -m ELSE m) \div (IF n < 0 THEN -n ELSE n)
  IN IF (m < 0) = (n < 0) THEN q ELSE -q

\* The positions from first to last, both included, in steps of step.
Stride(first, last, step) ==
  [k \in 1..Quotient(last - first, step) + 1 |-> first + (k - 1) * step]

\* Where the loop starts and where it stops: Range stops before its bound.
First(acc, dim) ==
  CASE acc.type = "Range"  -> IF acc.min < 0 THEN acc.min + dim ELSE acc.min
    [] acc.type = "Tilend" -> (acc.min + dim) % dim
    [] acc.type = "Step"   -> IF acc.step < 0 THEN dim - 1 ELSE 0

Bound(acc, dim) ==
  CASE acc.type = "Range" -> IF acc.max < 0 THEN acc.max + dim ELSE acc.max
    [] acc.type \in {"Tilend", "Step"} -> IF acc.step < 0 THEN 0 ELSE dim - 1

\* The accessors that get_len_pos refuses: an index that is not smaller than dim,
\* with either sign, and a loop that is not one step long - of a Tilend, one that
\* goes backwards.
Refuses(acc, dim) ==
  CASE acc.type = "All"   -> FALSE
    [] acc.type = "Singl" -> acc.loc >= dim \/ -acc.loc >= dim
    [] acc.type = "list"  -> \E k \in DOMAIN acc.idx : acc.idx[k] >= dim
    [] OTHER -> LET q == Quotient(Bound(acc, dim) - First(acc, dim), acc.step)
                IN IF acc.type = "Tilend" THEN q < 0 ELSE q <= 0

\* The positions of an accessor that is not refused; none for All.
Positions(acc, dim) ==
  LET Norm(i) == IF i < 0 THEN i + dim ELSE i
  IN CASE acc.type = "All"   -> <<>>
       [] acc.type = "Singl" -> <<Norm(acc.loc)>>
       [] acc.type = "list"  -> [k \in DOMAIN acc.idx |-> Norm(acc.idx[k])]
       [] acc.type = "Range" ->
            Stride(First(acc, dim),
                   Bound(acc, dim) - (IF acc.step < 0 THEN -1 ELSE 1), acc.step)
       [] acc.type \in {"Tilend", "Step"} ->
            Stride(First(acc, dim), Bound(acc, dim), acc.step)

\* The caller stays on the axis.  The code neither clamps a bound beyond it, as
\* Python does, nor refuses it: it wraps around, or reads outside of the buffer.
\* An empty list has no positions and is taken for All.
OnAxis(acc, dim) ==
  CASE acc.type = "Range"  -> acc.min \in -dim..dim - 1 /\ acc.max \in -dim..dim
    [] acc.type = "Tilend" -> acc.min \in -dim..dim - 1
    [] acc.type = "list"   -> acc.idx # <<>> /\ \A k \in DOMAIN acc.idx : -dim <= acc.idx[k]
    [] OTHER -> TRUE
=============================================================================
