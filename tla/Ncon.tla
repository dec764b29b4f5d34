-------------------------------- MODULE Ncon --------------------------------
(***************************************************************************)
(* ncon (ncon.cpp): the tensors come with lists of integers, a positive    *)
(* number for a bond and a negative one for an open leg. ncon writes an    *)
(* order of contraction from cont_order, defines a local Network with it,  *)
(* puts the tensors and launches. Here net is that local network: ncon     *)
(* runs the calls of the module Network one after the other.               *)
(***************************************************************************)
EXTENDS Network

CONSTANT Jobs   \* the argument lists: [tensors, connect, check, optimize, order, out]

VARIABLE job    \* the arguments of the call that is running, with pc

NoJob == [pc |-> "idle", connect |-> <<>>, tensors |-> <<>>, out |-> <<>>]

\* to_string of a number and "t" + to_string(i).
ToLabel(number) == ToString(number)
Alias(i) == "t" \o ToString(i - 1)

-----------------------------------------------------------------------------
(* The order of contraction.                                               *)

Positives(connect) == {b \in UNION {ToSet(connect[i]) : i \in DOMAIN connect} : b > 0}

\* posbond2tensor[b]: a tensor that has the number twice is in it twice.
TensorsOf(connect, b) ==
  FlattenSeq([i \in DOMAIN connect |->
    [k \in 1..Len(SelectSeq(connect[i], LAMBDA x : x = b)) |-> i]])

\* cont_order, by default the positive numbers in ascending order.
ContOrder(j) ==
  IF j.order # <<>> \/ Positives(j.connect) = {} THEN j.order
  ELSE SelectSeq([b \in 1..Max(Positives(j.connect)) |-> b], LAMBDA b : b \in Positives(j.connect))

\* What is pushed on the stack between two marks: for each number of cont_order
\* those of its first two tensors that were not pushed for an earlier number,
\* then every tensor that is left on its own.
Pushed(j) ==
  LET Push(groups, b) ==
        LET new == SelectSeq(SubSeq(TensorsOf(j.connect, b), 1, 2),
                             LAMBDA i : i \notin ToSet(FlattenSeq(groups)))
        IN IF new = <<>> THEN groups ELSE Append(groups, new)
      groups == FoldLeft(Push, <<>>, ContOrder(j))
      left == SelectSeq([i \in DOMAIN j.tensors |-> i], LAMBDA i : i \notin ToSet(FlattenSeq(groups)))
  IN groups \o [k \in DOMAIN left |-> <<left[k]>>]

\* Mutant of Written: needed_parentheses is not reduced for a pair.
Written_AllBrackets(n, groups) ==
  LET top == Last(Last(groups))
      rest == Append(Front(groups), Front(Last(groups)))
      Term(group) ==
        IF Len(group) = 2 THEN <<",", "(", Alias(group[2]), ",", Alias(group[1]), ")", ")">>
        ELSE IF Len(group) = 1 THEN <<",", Alias(group[1]), ")">>
        ELSE <<>>
  IN [k \in 1..(n - 1) |-> "("] \o <<Alias(top)>>
       \o FlattenSeq([k \in DOMAIN rest |-> Term(Reverse(rest)[k])])

\* str_order: the stack is popped; a pair brings its own opening bracket, the
\* others are put in front.
Written(n, groups) ==
  LET top == Last(Last(groups))
      rest == Append(Front(groups), Front(Last(groups)))
      Term(group) ==
        IF Len(group) = 2 THEN <<",", "(", Alias(group[2]), ",", Alias(group[1]), ")", ")">>
        ELSE IF Len(group) = 1 THEN <<",", Alias(group[1]), ")">>
        ELSE <<>>
      needed == n - 1 - Len(SelectSeq(rest, LAMBDA group : Len(group) = 2))
  IN [k \in 1..needed |-> "("] \o <<Alias(top)>>
       \o FlattenSeq([k \in DOMAIN rest |-> Term(Reverse(rest)[k])])

-----------------------------------------------------------------------------
(* The call.                                                               *)

\* Everything up to the last PutUniTensor. posbond2tensor[b][0] and [1] are
\* read without a check of their number.
Prepared(j) ==
  LET many(b) == Len(TensorsOf(j.connect, b))
      names  == [i \in DOMAIN j.tensors |-> Alias(i)]
      labels == [i \in DOMAIN j.connect |-> [k \in DOMAIN j.connect[i] |-> ToLabel(j.connect[i][k])]]
  IN IF j.check /\ \E b \in Positives(j.connect) : many(b) # 2 THEN [n |-> Fresh, err |-> "throws"]
     ELSE IF \E b \in ToSet(ContOrder(j)) : many(b) < 2 THEN [n |-> Fresh, err |-> "undefined"]
     ELSE LET d == Constructed(names, labels, j.out, 1, Written(Len(names), Pushed(j)))
          IN IF d.err # "ok" THEN d
             ELSE IF \E i \in DOMAIN labels : Len(labels[i]) # Len(j.tensors[i].dims)
                  THEN [n |-> d.n, err |-> "throws"]
                  ELSE [n |-> [d.n EXCEPT !.tensors = j.tensors], err |-> "ok"]

NconCalled ==
  /\ job = NoJob
  /\ \E j \in Jobs : job' = [pc |-> "begin"] @@ j
  /\ result' = NoResult
  /\ UNCHANGED <<net, call, search, standing>>

NconBegin ==
  /\ job.pc = "begin"
  /\ \E d \in {Prepared(job)} :
       /\ Careful => d.err # "undefined"
       /\ Becomes(d.n)
       /\ job' = [job EXCEPT !.pc = IF d.err # "ok" THEN d.err
                                   ELSE IF job.optimize THEN "search" ELSE "launch"]
  /\ UNCHANGED <<call, result, search>>

NconSearch ==
  /\ job.pc = "search" /\ SetOrderOptimal
  /\ job' = [job EXCEPT !.pc = "searching"]

NconLaunch ==
  /\ job.pc = "launch" /\ LaunchBegin
  /\ job' = [job EXCEPT !.pc = IF call' = NoCall THEN "throws" ELSE "launching"]

\* A step of getOptimalOrder or of Launch.
NconStep ==
  /\ job.pc \in {"searching", "launching"} /\ Step
  /\ job' = [job EXCEPT !.pc =
       IF call' # NoCall THEN @
       ELSE IF @ = "searching" THEN IF search.phase = "done" THEN "launch" ELSE "throws"
       ELSE IF result'.kind = "threw" THEN "throws" ELSE "returned"]

\* The local network is destroyed; out_labels are set on the result, whose
\* labels they already are.
NconEnds ==
  /\ job.pc \in {"returned", "throws"}
  /\ Becomes(Fresh) /\ job' = NoJob /\ result' = NoResult
  /\ UNCHANGED <<call, search>>

NconNext == NconCalled \/ NconBegin \/ NconSearch \/ NconLaunch \/ NconStep \/ NconEnds

-----------------------------------------------------------------------------
(* What the caller asked for: the diagram of the numbers, the open legs in *)
(* the order -1, -2, ...                                                   *)

OpenLegs(j) == Len(SelectSeq(FlattenSeq(j.connect), LAMBDA x : x < 0))

\* The labels of the result: out_labels, or -1, -2, ...
Wanted(j) ==
  IF j.out = <<>> THEN [k \in 1..OpenLegs(j) |-> -k]
  ELSE [k \in DOMAIN j.out |-> CHOOSE x \in (-OpenLegs(j))..(-1) : ToLabel(x) = j.out[k]]

\* The rules for the numbers (docs/source/guide/contraction/ncon.rst), for
\* tensors of these ranks; a piece that is closed beside others is left out.
Wellformed(j) ==
  LET all == FlattenSeq(j.connect)
      count(x) == Len(SelectSeq(all, LAMBDA y : y = x))
  IN /\ Len(j.tensors) >= 2
     /\ \A i \in DOMAIN j.connect : ~Repeated(j.connect[i]) /\ Len(j.connect[i]) = Len(j.tensors[i].dims)
     /\ \A x \in ToSet(all) : count(x) = IF x > 0 THEN 2 ELSE 1
     /\ {x \in ToSet(all) : x < 0} = (-OpenLegs(j))..(-1)
     /\ ~ClosedPiece(j.connect, {x \in ToSet(all) : x < 0})
     /\ j.out # <<>> => /\ Len(j.out) = OpenLegs(j)
                        /\ ToSet(j.out) = {ToLabel(-k) : k \in 1..OpenLegs(j)}

Asked == INSTANCE Contraction WITH
  labels  <- job.connect,
  out     <- [labels  |-> IF job = NoJob \/ ~Wellformed(job) THEN <<>> ELSE Wanted(job),
              rowrank |-> IF OpenLegs(job) = 0 THEN 0 ELSE Len(job.out) - 1],
  valid   <- job # NoJob /\ Wellformed(job) /\ (job.out = <<>> => OpenLegs(job) < 10),
  tensors <- job.tensors,
  order   <- "whole",
  result  <- CASE job.pc = "returned" -> result
               [] job.pc = "throws"    -> [kind |-> "threw"]
               [] OTHER               -> NoResult
=============================================================================
