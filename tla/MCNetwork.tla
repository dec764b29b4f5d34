------------------------------ MODULE MCNetwork ------------------------------
(***************************************************************************)
(* Small networks of three or four slots: a chain, a ring (the result is a *)
(* scalar), two pieces, and definitions that are refused or that Launch    *)
(* promises nothing about. The orders are texts a caller can pass: both    *)
(* ways of bracketing, without brackets, incomplete, with a name that does *)
(* not exist, with a comma missing, and malformed.                         *)
(*                                                                         *)
(* Three callers (Scopes), each on its own: "calls" uses a Network, "ncon" *)
(* calls ncon, "search" runs the search by itself, in a wider IndexSet, on *)
(* every network of four tensors and of five, and on one of six.           *)
(***************************************************************************)
EXTENDS Ncon

TN(name, labels) == [kind |-> "TN", name |-> name, labels |-> labels]
TOUT(labels, rowrank) == [kind |-> "TOUT", labels |-> labels, semicolon |-> TRUE, rowrank |-> rowrank]
PlainTOUT(labels) == [kind |-> "TOUT", labels |-> labels, semicolon |-> FALSE]
ORDER(tokens) == [kind |-> "ORDER", tokens |-> tokens]

Nested  == <<"(", "a", ",", "(", "b", ",", "c", ")", ")">>
Crossed == <<"(", "c", ",", "a", ")", ",", "b">>
NoComma == <<"(", "a", ",", "b", ")", "(", "c", ")">>
Paired  == <<"(", "(", "a", ",", "b", ")", ",", "(", "c", ",", "d", ")", ")">>
Fewer   == <<"(", "a", ",", "b", ")">>
Unknown == <<"(", "a", ",", "(", "b", ",", "x", ")", ")">>
Twice   == <<"(", "a", ",", "(", "b", ",", "a", ")", ")">>
Lone    == <<"(", "a", ")">>
Itself  == <<"(", "b", ",", "b", ")">>
Crooked == <<")", "a", ",", "b", ",", "c", "(">>
Unpaired == <<"(", "a", ",", "b", ",", "c">>

Chain == <<TN("a", <<"i", "j">>), TN("b", <<"j", "k">>), TN("c", <<"k", "l">>)>>
Ring  == <<TN("a", <<"i", "j">>), TN("b", <<"j", "k">>), TN("c", <<"k", "i">>)>>
Split == <<TN("a", <<"i", "j">>), TN("b", <<"j", "i">>), TN("c", <<"k", "l">>)>>
Four  == <<TN("a", <<"i", "j">>), TN("b", <<"j", "k">>), TN("c", <<"k", "l">>), TN("d", <<"l", "i">>)>>
Fan   == <<TN("a", <<"i", "j">>), TN("b", <<"i", "k">>), TN("c", <<"i", "l">>)>>

MCFiles ==
  {Chain \o <<TOUT(<<"l", "i">>, 1)>>,
   <<ORDER(Nested)>> \o Ring,
   Split \o <<PlainTOUT(<<"k", "l">>)>>,
   Ring \o <<ORDER(NoComma)>>,
   <<ORDER(Paired)>> \o Four,
   Fan \o <<TOUT(<<"j", "k", "l">>, 1)>>,
   <<TN("a", <<"i", "j">>), TN("b", <<"j", "k">>), TOUT(<<"i">>, 1)>>,
   Chain \o <<ORDER(Fewer), TOUT(<<"l", "i">>, 1)>>,
   <<TN("a", <<"i">>), TN("a", <<"i">>)>>,
   <<TN("a", <<"i">>), [kind |-> "bad"]>>,
   <<TN("a", <<"i">>), ORDER(Unpaired)>>,
   <<TN("a", <<"i">>)>>}

MCConstructions ==
  {[names |-> <<"a", "b", "c">>, labels |-> <<<<"i", "j">>, <<"j", "k">>, <<"k", "l">>>>,
    out |-> <<>>, outrk |-> -1, tokens |-> Crossed],
   [names |-> <<"a", "b">>, labels |-> <<<<"i", "j">>, <<"j", "k">>>>,
    out |-> <<"k">>, outrk |-> 0, tokens |-> <<>>],
   [names |-> <<"a", "b">>, labels |-> <<<<"i", "j">>, <<"j">>, <<"k", "l">>>>,
    out |-> <<"i">>, outrk |-> 0, tokens |-> Fewer],
   [names |-> <<"b", "a", "a">>, labels |-> <<<<"j", "k">>, <<"i", "j">>, <<"k", "l">>>>,
    out |-> <<>>, outrk |-> -1, tokens |-> <<>>],
   [names |-> <<"a">>, labels |-> <<<<"i", "j">>>>, out |-> <<>>, outrk |-> 0, tokens |-> <<>>]}

Plain == [id |-> 1, own |-> <<"x", "y">>, dims |-> <<2, 2>>]
Other == [id |-> 2, own |-> <<"y", "z">>, dims |-> <<2, 2>>]
Wide  == [id |-> 3, own |-> <<"v", "w">>, dims |-> <<3, 3>>]
Flat  == [id |-> 4, own |-> <<"x">>, dims |-> <<2>>]

MCPlans == {[tensors |-> <<Plain, Other>>, out |-> <<"x", "z">>, rowrank |-> 1,
             names |-> <<"a", "b">>, tokens |-> Fewer]}
MCTensors == {Plain, Wide, Flat}
MCOrders  == {<<>>, Crossed, Unknown, Twice, Lone, Itself, Crooked, Unpaired}
MCLabelOrder == <<"-1", "-10", "-2", "-3", "-4", "-5", "-6", "-7", "-8", "-9",
                  "1", "2", "3", "4", "5", "6", "i", "j", "k", "l", "v", "w", "x", "y", "z">>
MCSlotNames == {"a", "b", "c", "d", "x"}

NodeNames == <<"a", "b", "c", "d", "e", "f">>

\* A bond is labelled by the set of the tensors it joins, an open leg by the
\* singleton of its own. D gives the dimensions.
TensorAt(i, edges, D(_)) ==
  [legs |-> FoldSet(LAMBDA e, s : Append(s, <<e, D(e)>>), <<>>, {x \in edges : i \in x}),
   cost |-> 0, id |-> {}, text |-> <<NodeNames[i]>>]
NetworkOf(n, edges, D(_)) == [i \in 1..n |-> TensorAt(i, edges, D)]

Pairs(n) == {{i, j} : i, j \in 1..n} \ {{i} : i \in 1..n}
Even(e) == 2
Uneven(e) == IF 1 \in e THEN 2 ELSE IF 2 \in e THEN 5 ELSE 3

Networks ==
  UNION {
    {NetworkOf(4, edges \cup open, Uneven) :
       edges \in SUBSET Pairs(4), open \in {{}, {{1}, {2}}}},
    {NetworkOf(5, edges, Even) : edges \in SUBSET Pairs(5)},
    {NetworkOf(6, {{i, i + 1} : i \in 1..5}, Even), NetworkOf(6, {{1, 2}}, Even)}}

\* Arguments of ncon: the graph edges on n tensors, an edge numbered by its
\* place in AllPairs, with open legs -1, -2, ... at the tensors of open.
AllPairs == <<{1, 2}, {2, 3}, {3, 4}, {1, 4}, {1, 3}, {2, 4}>>
Connect(i, edges, open) ==
  SelectSeq([e \in DOMAIN AllPairs |-> e], LAMBDA e : AllPairs[e] \in edges /\ i \in AllPairs[e])
    \o SelectSeq([k \in DOMAIN open |-> -k], LAMBDA x : open[-x] = i)

Square(i, connect) == [id |-> i, own |-> [k \in DOMAIN connect |-> ToLabel(k - 1)],
                       dims |-> [k \in DOMAIN connect |-> 2]]
JobOf(connect, order, optimize) ==
  [connect |-> connect, tensors |-> [i \in DOMAIN connect |-> Square(i, connect[i])],
   check |-> TRUE, optimize |-> optimize, order |-> order, out |-> <<>>]
GraphJob(k, edges, open, order) ==
  JobOf([i \in 1..k |-> Connect(i, edges, open)], order, FALSE)

Numbers(edges) == {e \in DOMAIN AllPairs : AllPairs[e] \in edges}
OrdersOf(edges) ==
  UNION {{s \in [1..k -> Numbers(edges)] : IsInjective(s)} :
           k \in {0, 1, 2} \cup (IF Cardinality(edges) <= 4 THEN {3, Cardinality(edges)} ELSE {})}

Cyclic == <<<<1, 2, -2>>, <<2, 3>>, <<3, 1, -1>>>>
Traced == <<<<1, 1>>, <<2, -1>>, <<2, -2>>>>
Triple == <<<<1, -1>>, <<1, -2>>, <<1, -3>>>>
Doubled == <<<<1, 2, -3>>, <<2, 1, -1>>, <<-2>>>>
MCJobs ==
  UNION {
    {GraphJob(4, edges, <<3, 1, 4>>, order) : order \in OrdersOf(edges)} : edges \in SUBSET Pairs(4)}
  \cup
  {JobOf(connect, order, optimize) :
     connect \in {Cyclic, Traced, Doubled}, order \in {<<>>, <<2, 1>>}, optimize \in BOOLEAN}
  \cup
  {[JobOf(Triple, order, FALSE) EXCEPT !.check = check] :
     order \in {<<>>, <<1>>}, check \in BOOLEAN}
  \cup
  {[JobOf(Cyclic, <<3>>, FALSE) EXCEPT !.out = out] :
     out \in {<<"-2", "-1">>, <<"-1">>, <<"p", "q">>}}
  \cup
  {[JobOf(Cyclic, <<3>>, FALSE) EXCEPT !.tensors[1].dims = dims,
                                     !.tensors[1].own = SubSeq(@, 1, Len(dims))] :
     dims \in {<<3, 2, 2>>, <<2, 2>>}}

\* Two tensors with five open legs each.
TenLegs == <<<<1, -1, -2, -3, -4, -5>>, <<1, -6, -7, -8, -9, -10>>>>
MCWideJobs == {JobOf(TenLegs, <<>>, FALSE)}

-----------------------------------------------------------------------------
CONSTANT Scopes

VARIABLE given   \* the tensors the search on its own was called with

Alone == INSTANCE SearchTree WITH IndexBits <- 8

mcvars == <<vars, job, given>>

MCInit ==
  \/ Init /\ job = NoJob /\ given = <<>> /\ Scopes # {"search"}
  \/ /\ "search" \in Scopes
     /\ net = Fresh /\ call = NoCall /\ result = NoResult /\ job = NoJob
     /\ standing = [order |-> OrderKind(Fresh), valid |-> FALSE]
     /\ \E tensors \in Networks : given = tensors /\ search = Alone!Searching(tensors)

CallsNext == "calls" \in Scopes /\ given = <<>> /\ job = NoJob /\ Next /\ UNCHANGED <<job, given>>
NconCalls ==
  /\ "ncon" \in Scopes /\ given = <<>>
  /\ job = NoJob => net = Fresh /\ call = NoCall
  /\ NconNext /\ UNCHANGED given
SearchAlone == given # <<>> /\ Alone!SolveStep
                 /\ UNCHANGED <<net, call, result, standing, job, given>>

\* The search on its own stops when it has ended.
MCNext == CallsNext \/ NconCalls \/ SearchAlone

\* A loop that runs keeps running: no fairness is asked of the caller.
MCSpec == /\ MCInit /\ [][MCNext]_mcvars
          /\ WF_mcvars(given = <<>> /\ job = NoJob /\ Step /\ UNCHANGED <<job, given>>)
          /\ WF_mcvars(given = <<>> /\ NconStep /\ UNCHANGED given)
          /\ WF_mcvars(SearchAlone)

-----------------------------------------------------------------------------
\* Launch (RegularNetwork.cpp:975-1027) in one step: it returns the
\* contraction of the whole diagram with the tensors last put, whatever the
\* order, or throws. Between calls nothing else of an earlier launch, a
\* failed setOrder or a search is left to change it.
LaunchKeepsPromise == Promise!Spec

\* CtTree_to_eisumpath: whenever a path is set, einsumpath_to_string reads it
\* back as the text of the tree of the order in force.
PathSaysOrder ==
  [][net'.path # net.path /\ net'.path # <<>> =>
       LET t == TreeInForce(net').tree
       IN PathText(net'.path, net'.names) =
            NodeName(net'.base, t, net'.names, Root(net'.base, t))]_vars

\* Every call returns or throws (RegularNetwork.cpp:921-1064).
CallsEnd == (call.pc \in {"search", "walk"}) ~> (call.pc = "idle")

\* example/Network/Construct.cpp:17-24 launches what Network::Contract returns:
\* that call has a meaning.
ContractCanBeLaunched == call.pc = "undefined" /\ call.in = "Launch" => ~net.null

\* ncon (ncon.cpp:8-102) in one step: whatever the order of the numbers in
\* cont_order, however many of them it names, it returns the contraction of the
\* diagram of the numbers with the open legs in the order asked for, or throws
\* because two dimensions differ. With fewer than ten open legs, see
\* NconLegsInOrder.
NconIsContraction == Asked!Spec

\* docs/source/guide/contraction/ncon.rst:8: "[-1,-2,-3,...]. These values
\* define the index order of the final tensor, which has -1 as the first index,
\* -2 as the second".
NconLegsInOrder ==
  job.pc = "returned" /\ Wellformed(job) => result.legs = Asked!Full.legs

-----------------------------------------------------------------------------
(* The search on its own.                                                  *)

n == Len(given)

\* get_cost adds up: in a network in one piece the reported cost is the sum,
\* over the contractions of the order found, of the product of all the
\* dimensions that take part in each.
VolumeAt(tree, x) ==
  LET below(y) == LegsLeft(search, ToSet(LeavesBelow(n, tree, y)))
  IN FoldSet(LAMBDA leg, v : v * leg[2], 1, below(Left(n, tree, x)) \cup below(Right(n, tree, x)))
TreeCost(tree) == FoldLeft(LAMBDA c, x : c + VolumeAt(tree, x), 0, Visits(n, tree))
CostOfOrder ==
  given # <<>> /\ search.phase = "done" /\ Len(Components(given)) = 1 =>
    LET r == Head(search.results)
    IN r.cost = TreeCost(TreeByTokens(n, PosIn(SubSeq(NodeNames, 1, n)), r.text).tree)

\* SearchTree::search_order returns (or throws) whatever it reads.
SearchEnds == (given # <<>>) ~> Ended
=============================================================================
