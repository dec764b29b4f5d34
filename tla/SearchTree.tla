----------------------------- MODULE SearchTree -----------------------------
(***************************************************************************)
(* The search for a contraction order (search_tree.hpp/.cpp), which        *)
(* RegularNetwork::getOptimalOrder runs on the tensors of a network: a     *)
(* greedy pairing inside every connected component, then the components    *)
(* two by two from the front. One step per contracted pair, so that a      *)
(* property can speak of the tensors that are left in between.             *)
(*                                                                         *)
(* A PseudoUniTensor is [legs, cost, id, text]: legs is labels and shape   *)
(* zipped, id the set of bits of ID, text the tokens of accu_str.          *)
(***************************************************************************)
EXTENDS Integers, Sequences, SequencesExt

CONSTANT IndexBits   \* the width of IndexSet = std::bitset<128>

ASSUME IndexBitsAssumption == IndexBits \in Nat

VARIABLE search

LabelsOf(t) == {leg[1] : leg \in ToSet(t.legs)}
Common(a, b) == LabelsOf(a) \cap LabelsOf(b)

\* The legs of t that carry none of the labels, in their order.
Without(t, labels) ==
  LET kept[k \in 0..Len(t.legs)] ==
        IF k = 0 THEN <<>>
        ELSE IF t.legs[k][1] \in labels THEN kept[k - 1]
        ELSE Append(kept[k - 1], t.legs[k])
  IN kept[Len(t.legs)]

Volume(legs) ==
  LET v[k \in 0..Len(legs)] == IF k = 0 THEN 1 ELSE v[k - 1] * legs[k][2]
  IN v[Len(legs)]

\* Mutant of Cost: the cost of the second tensor is not added.
Cost_First(a, b) == Volume(a.legs) * Volume(Without(b, Common(a, b))) + a.cost

\* get_cost: a common dimension is counted once, with the tensor on the left.
Cost(a, b) == Volume(a.legs) * Volume(Without(b, Common(a, b))) + a.cost + b.cost

\* Mutant of Joined: no brackets.
Joined_Bare(a, b) == a.text \o <<",">> \o b.text

Joined(a, b) == <<"(">> \o a.text \o <<",">> \o b.text \o <<")">>

\* Mutant of PContract: the common legs are only erased from the first tensor.
PContract_OneSide(a, b) ==
  [legs |-> Without(a, Common(a, b)) \o b.legs,
   cost |-> Cost(a, b),
   id   |-> SymDiff(a.id, b.id),
   text |-> Joined(a, b)]

\* pContract. ID is an exclusive or.
PContract(a, b) ==
  [legs |-> Without(a, Common(a, b)) \o Without(b, Common(a, b)),
   cost |-> Cost(a, b),
   id   |-> SymDiff(a.id, b.id),
   text |-> Joined(a, b)]

\* The node that joins two components sets neither labels nor shape.
CombinedComponents(a, b) ==
  [legs |-> <<>>, cost |-> Cost(a, b), id |-> SymDiff(a.id, b.id), text |-> Joined(a, b)]

-----------------------------------------------------------------------------
Neighbours(base, i) == {j \in DOMAIN base : j # i /\ Common(base[i], base[j]) # {}}

\* dfs: the node visited next is the smallest unvisited neighbour of the most
\* recently visited node that still has one.
Visit(base, seq) ==
  LET Unvisited(x) == Neighbours(base, x) \ ToSet(seq)
      open == {p \in DOMAIN seq : Unvisited(seq[p]) # {}}
  IN IF open = {} THEN seq ELSE Append(seq, Min(Unvisited(seq[Max(open)])))

Component(base, i) ==
  LET visited[k \in 0..Len(base)] ==
        IF k = 0 THEN <<i>> ELSE Visit(base, visited[k - 1])
  IN visited[Len(base)]

\* findConnectedComponents: cs once node i has been looked at.
WithComponent(base, cs, i) ==
  IF i \in ToSet(FlattenSeq(cs)) THEN cs ELSE Append(cs, Component(base, i))

Components(base) ==
  LET found[i \in 0..Len(base)] ==
        IF i = 0 THEN <<>> ELSE WithComponent(base, found[i - 1], i)
  IN found[Len(base)]

-----------------------------------------------------------------------------
(* The solver's state: nodes; base, how many of them are tensors of the    *)
(* network (the rows of adjacencyMatrix); rest, the remaining_indices of   *)
(* the component at hand; todo, the components after it; results, the      *)
(* component_results.                                                      *)
Idle == [phase |-> "idle", nodes |-> <<>>, base |-> 0,
         rest |-> <<>>, todo |-> <<>>, results |-> <<>>]

\* search_order and the head of solve. IndexSet::test throws on an index that
\* the bitset has no bit for.
Searching(tensors) ==
  LET nodes == [i \in DOMAIN tensors |-> [tensors[i] EXCEPT !.id = {i}]]
      comps == Components(nodes)
  IN IF Len(tensors) < 2 \/ Len(tensors) > IndexBits
     THEN [Idle EXCEPT !.phase = "throws"]
     ELSE [phase |-> "pairs", nodes |-> nodes, base |-> Len(tensors),
           rest |-> Head(comps), todo |-> Tail(comps), results |-> <<>>]

\* adjacencyMatrix[i].test(j) for the nodes at two positions of rest: the
\* bit of a merged node is never set, the row of one lies beyond the matrix
\* (stray: the outcomes of those reads).
Adjacent(s, p, q, stray) ==
  IF s.rest[p] > s.base THEN <<p, q>> \in stray
  ELSE s.rest[q] <= s.base /\ Common(s.nodes[s.rest[p]], s.nodes[s.rest[q]]) # {}

Positions(s) == {pq \in (1..Len(s.rest)) \X (1..Len(s.rest)) : pq[1] < pq[2]}

StrayReads(s) == {pq \in Positions(s) : s.rest[pq[1]] > s.base}

\* The cheapest adjacent pair, the first of several in the order of the two
\* loops, and the first two nodes if no pair is adjacent.
BestPair(s, stray) ==
  LET pairs == {pq \in Positions(s) : Adjacent(s, pq[1], pq[2], stray)}
      cost == [pq \in pairs |-> Cost(s.nodes[s.rest[pq[1]]], s.nodes[s.rest[pq[2]]])]
      least == Min({cost[pq] : pq \in pairs})
      cheapest == {pq \in pairs : cost[pq] = least}
      Before(x, y) == x[1] < y[1] \/ (x[1] = y[1] /\ x[2] <= y[2])
  IN IF pairs = {} THEN <<1, 2>> ELSE CHOOSE x \in cheapest : \A y \in cheapest : Before(x, y)

\* Mutant of ContractPair: the two indices are erased in the other order.
ContractPair_FirstErased ==
  /\ search.phase = "pairs" /\ Len(search.rest) > 1
  /\ \A q \in 2..Len(search.rest) : search.rest[q] <= IndexBits
  /\ \E pq \in {BestPair(search, stray) : stray \in SUBSET StrayReads(search)} :
       LET a == search.nodes[search.rest[pq[1]]]
           b == search.nodes[search.rest[pq[2]]]
       IN search' = [search EXCEPT
            !.nodes = Append(@, PContract(a, b)),
            !.rest  = Append(RemoveAt(RemoveAt(@, pq[1]), pq[2]), Len(search.nodes) + 1)]

ContractPair ==
  /\ search.phase = "pairs" /\ Len(search.rest) > 1
  /\ \A q \in 2..Len(search.rest) : search.rest[q] <= IndexBits
  /\ \E pq \in {BestPair(search, stray) : stray \in SUBSET StrayReads(search)} :
       LET a == search.nodes[search.rest[pq[1]]]
           b == search.nodes[search.rest[pq[2]]]
       IN search' = [search EXCEPT
            !.nodes = Append(@, PContract(a, b)),
            !.rest  = Append(RemoveAt(RemoveAt(@, pq[2]), pq[1]), Len(search.nodes) + 1)]

\* test(j) of an index beyond the bitset's width: std::out_of_range.
PairThrows ==
  /\ search.phase = "pairs" /\ Len(search.rest) > 1
  /\ \E q \in 2..Len(search.rest) : search.rest[q] > IndexBits
  /\ search' = [Idle EXCEPT !.phase = "throws"]

\* Mutant of FinishComponent: it never goes on to combine the components.
FinishComponent_Stays ==
  /\ search.phase = "pairs" /\ Len(search.rest) = 1
  /\ search' = [search EXCEPT
       !.results = Append(@, search.nodes[Head(search.rest)]),
       !.rest    = IF search.todo = <<>> THEN <<>> ELSE Head(search.todo),
       !.todo    = IF @ = <<>> THEN <<>> ELSE Tail(@)]

\* Mutant of FinishComponent: the components after the first are forgotten.
FinishComponent_FirstOnly ==
  /\ search.phase = "pairs" /\ Len(search.rest) = 1
  /\ search' = [search EXCEPT
       !.results = Append(@, search.nodes[Head(search.rest)]),
       !.rest = <<>>, !.todo = <<>>, !.phase = "combine"]

FinishComponent ==
  /\ search.phase = "pairs" /\ Len(search.rest) = 1
  /\ search' = [search EXCEPT
       !.results = Append(@, search.nodes[Head(search.rest)]),
       !.rest    = IF search.todo = <<>> THEN <<>> ELSE Head(search.todo),
       !.todo    = IF @ = <<>> THEN <<>> ELSE Tail(@),
       !.phase   = IF search.todo = <<>> THEN "combine" ELSE "pairs"]

CombineComponents ==
  /\ search.phase = "combine" /\ Len(search.results) > 1
  /\ search' = [search EXCEPT
       !.results = <<CombinedComponents(@[1], @[2])>> \o SubSeq(@, 3, Len(@))]

FinishSearch ==
  /\ search.phase = "combine" /\ Len(search.results) = 1
  /\ search' = [search EXCEPT !.phase = "done"]

SolveStep == ContractPair \/ PairThrows \/ FinishComponent \/ CombineComponents \/ FinishSearch

Ended == search.phase \in {"idle", "done", "throws"}

\* search_order called with the tensors.
SearchOrder(tensors) == search = Searching(tensors) /\ [][SolveStep]_search

-----------------------------------------------------------------------------
(* Properties.                                                             *)

\* The tensors that have been found or made and are still to be contracted.
Waiting == {search.nodes[i] : i \in ToSet(search.rest) \cup ToSet(FlattenSeq(search.todo))}
Live == Waiting \cup ToSet(search.results)
Running == search.phase \in {"pairs", "combine", "done"}

\* solve (search_tree.cpp:94-209): at every step the tensors still to be
\* contracted hold each tensor of the network exactly once, whichever pairs
\* the reads beyond adjacencyMatrix select: no move leaves an index of an
\* emptied node behind and no exclusive or cancels a tensor.
EachTensorOnce ==
  Running =>
    /\ UNION {t.id : t \in Live} = 1..search.base
    /\ \A t, u \in Live : t # u => t.id \cap u.id = {}
    /\ Cardinality(Live) = Len(search.rest) + Len(FlattenSeq(search.todo)) + Len(search.results)

\* The tensors searched for form a diagram: a label is one leg, on at most
\* two of them.
IsDiagram(s) ==
  /\ \A i, j \in 1..s.base : \A x \in ToSet(s.nodes[i].legs), y \in ToSet(s.nodes[j].legs) :
       x[1] = y[1] => x = y
  /\ \A i, j \in 1..s.base : i # j =>
       \A k \in (1..s.base) \ {i, j} : Common(s.nodes[i], s.nodes[j]) \cap LabelsOf(s.nodes[k]) = {}

\* The legs that one of the tensors in S has and no other of them.
LegsLeft(s, S) ==
  {l \in UNION {ToSet(s.nodes[i].legs) : i \in S} :
     Cardinality({i \in S : l \in ToSet(s.nodes[i].legs)}) = 1}

\* pContract (search_tree.cpp:36-61): the legs of a merged tensor are those
\* of its members that no other member shares.
LegsOfMembers ==
  Running /\ IsDiagram(search) => \A t \in Waiting : ToSet(t.legs) = LegsLeft(search, t.id)
=============================================================================
