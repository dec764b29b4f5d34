------------------------------- MODULE Network -------------------------------
(***************************************************************************)
(* RegularNetwork (Network.hpp, RegularNetwork.cpp): a network is defined  *)
(* from the lines of a network file, from arrays of names and labels, or   *)
(* from tensors; tensors are put into its slots and removed; the order of  *)
(* contraction is given, searched or left at the default; Launch builds    *)
(* the contraction tree of the order in force and walks it. The calls of a *)
(* caller are the actions; setOrder(true) and Launch take several steps.   *)
(*                                                                         *)
(* A line of text is the sequence of its tokens. A UniTensor is            *)
(* [id, own, dims]: own is its label attribute. nodes_container is not     *)
(* kept between calls: everything that reads it rebuilds it first.         *)
(***************************************************************************)
EXTENDS SearchTree, ContractionTree, FiniteSets

CONSTANTS Void,         \* UniTensor(): the content of an empty slot
          NoResult,
          LabelOrder,   \* every label, in the order of std::map<std::string, ...>
          Careful,      \* TRUE: callers avoid the calls that end undefined
          Files,        \* the network files
          Constructions, \* the argument lists of construct
          Plans,        \* the argument lists of Network::Contract
          Orders,       \* the texts passed to setOrder
          Tensors,      \* the UniTensors
          SlotNames     \* the names used by PutUniTensor and RmUniTensor

\* A UniTensor has as many labels as dimensions.
UniTensors == {u \in [id : Nat, own : Seq(STRING), dims : Seq(Nat)] : Len(u.own) = Len(u.dims)}

\* What a node of the tree holds during a launch.
NodeValues ==
  [parts : SUBSET (Nat \X UniTensors), bonds : SUBSET (SUBSET (Nat \X Nat)),
   labs : Seq(STRING), axes : Seq([at : Nat \X Nat, dim : Nat])]

\* A line of a network file: one that is refused, or one of the three forms.
Lines ==
  [kind : {"bad"}]
    \cup [kind : {"ORDER"}, tokens : Seq(STRING)]
    \cup [kind : {"TOUT"}, labels : Seq(STRING), semicolon : {TRUE}, rowrank : Int]
    \cup [kind : {"TOUT"}, labels : Seq(STRING), semicolon : {FALSE}]
    \cup [kind : {"TN"}, name : STRING, labels : Seq(STRING)]

ASSUME VoidAssumption == Void \notin NodeValues
ASSUME CarefulAssumption == Careful \in BOOLEAN
ASSUME FilesAssumption == Files \subseteq Seq(Lines)
ASSUME ConstructionsAssumption ==
  Constructions \subseteq [names : Seq(STRING), labels : Seq(Seq(STRING)), out : Seq(STRING),
                          outrk : Int, tokens : Seq(STRING)]
ASSUME PlansAssumption ==
  Plans \subseteq [tensors : Seq(UniTensors), out : Seq(STRING), rowrank : Int,
                  names : Seq(STRING), tokens : Seq(STRING)]
ASSUME OrdersAssumption == Orders \subseteq Seq(STRING)
ASSUME TensorsAssumption == Tensors \subseteq UniTensors

VARIABLES net,      \* the members of RegularNetwork
          call,     \* the call that is running
          result,   \* how the last Launch ended
          standing  \* auxiliary: what can be promised of net, see OrderKind and Valid

vars == <<net, call, result, search, standing>>

Fresh == [names |-> <<>>, labels |-> <<>>, out |-> <<>>, rowrank |-> 0,
          tokens |-> <<>>, line |-> <<>>, tensors |-> <<>>,
          base |-> 0, null |-> FALSE, path |-> <<>>]

NoCall == [pc |-> "idle"]

-----------------------------------------------------------------------------
(* Orders.                                                                 *)

PosIn(names) == [name \in ToSet(names) |-> Max({i \in DOMAIN names : names[i] = name})]
Pos(net_) == PosIn(net_.names)

\* How often x is in s, and among its first k entries.
CountTo(x, s, k) == Cardinality({i \in 1..k : s[i] = x})
Count(x, s) == CountTo(x, s, Len(s))

\* _parse_ORDER_line_: the checks; the tokens are assigned after them.
BadOrderLine(tokens) ==
  \/ ToSet(tokens) \cap Punctuation = {}
  \/ Count("(", tokens) # Count(")", tokens)

\* The tree that Launch, FromString and construct build.
TreeInForce(n) ==
  IF n.tokens = <<>> THEN [tree |-> DefaultTree(n.base), err |-> "ok"]
  ELSE TreeByTokens(n.base, Pos(n), n.tokens)

\* CtTree_to_eisumpath on that tree. With null pointers for base nodes only the
\* nodes made of two others have two children, and those have no names to find;
\* nodes_container.back() of an empty container is undefined.
PathInForce(n) ==
  LET t == TreeInForce(n)
      Pairs == {x \in ToSet(Visits(n.base, t.tree)) :
                  Left(n.base, t.tree, x) > n.base /\ Right(n.base, t.tree, x) > n.base}
  IN IF t.err # "ok" THEN [path |-> n.path, err |-> t.err]
     ELSE IF t.tree = <<>> \/ (n.null /\ Pairs # {}) THEN [path |-> n.path, err |-> "undefined"]
     ELSE IF n.null THEN [path |-> <<>>, err |-> "ok"]
     ELSE EinsumPath(n.base, t.tree, n.names)

\* The check "all TN are set in ORDER": the names in the tokens are those of
\* the network, each once.
OrderNamesMismatch(n) ==
  \/ ToSet(n.names) \cap Punctuation # {}
  \/ \E x \in (ToSet(n.tokens) \ Punctuation) \cup ToSet(n.names) :
       Count(x, n.tokens) # Count(x, n.names)

Repeated(s) == Cardinality(ToSet(s)) # Len(s)

\* expected_TOUT: the labels counted once, in the map's order.
ExpectedOut(n) ==
  LET all == FlattenSeq(n.labels)
  IN SelectSeq(LabelOrder, LAMBDA l : Len(SelectSeq(all, LAMBDA x : x = l)) = 1)

OutMismatch(n) ==
  \/ Len(n.out) # Len(ExpectedOut(n))
  \/ ToSet(n.out) # ToSet(ExpectedOut(n))

-----------------------------------------------------------------------------
(* What Launch promises depends on the diagram and on the order in force.  *)

\* Some of the slots, not all, have no open label and share none with the rest.
ClosedPiece(labels, open) ==
  \E S \in SUBSET (DOMAIN labels) \ {{}, DOMAIN labels} :
    UNION {ToSet(labels[i]) : i \in S} \cap
      (open \cup UNION {ToSet(labels[i]) : i \in DOMAIN labels \ S}) = {}

\* The definition was accepted, every label joins at most two slots and no
\* piece of the diagram is closed beside another.
Valid(n) ==
  /\ n.base = Len(n.names) /\ n.base >= 2 /\ Len(n.tensors) = n.base /\ ~n.null
  /\ ~OutMismatch(n) /\ n.rowrank <= Len(n.out)
  /\ \A i \in DOMAIN n.labels : ~Repeated(n.labels[i])
  /\ LET all == FlattenSeq(n.labels)
     IN \A l \in ToSet(all) : Len(SelectSeq(all, LAMBDA x : x = l)) <= 2
  /\ ~ClosedPiece(n.labels, ToSet(n.out))

\* The texts of an order: terms joined by commas, a term being a name or an
\* order in brackets. Said of neighbours and of the brackets that are open after
\* each token, independently of the parser of ContractionTree.
IsOrder(tokens) ==
  LET N == Len(tokens)
      Opened(k) == CountTo("(", tokens, k)
      Closed(k) == CountTo(")", tokens, k)
  IN /\ N > 0 /\ tokens[1] \notin {",", ")"} /\ tokens[N] \notin {",", "("}
     /\ \A k \in 1..(N - 1) :
          tokens[k] \in {",", "("} <=> tokens[k + 1] \notin {",", ")"}
     /\ \A k \in 1..N : Closed(k) <= Opened(k)
     /\ Closed(N) = Opened(N)

\* "whole": no order, or one that names every tensor once; "refused": it names
\* a tensor that does not exist.
OrderKind(n) ==
  CASE ToSet(n.tokens) \ (Punctuation \cup ToSet(n.names)) # {} -> "refused"
    [] \/ n.tokens = <<>>
       \/ IsOrder(n.tokens) /\ ~OrderNamesMismatch(n) /\ ~Repeated(n.names) -> "whole"
    [] OTHER -> "partial"

Becomes(n) == net' = n /\ standing' = [order |-> OrderKind(n), valid |-> Valid(n)]

Init ==
  /\ net = Fresh /\ call = NoCall /\ result = NoResult /\ search = Idle
  /\ standing = [order |-> OrderKind(Fresh), valid |-> FALSE]

\* A call that ends at once. "undefined": the program has no meaning any more.
Ends(outcome, after) ==
  /\ call = NoCall
  /\ Careful => outcome # "undefined"
  /\ Becomes(after)
  /\ call' = IF outcome = "undefined" THEN [pc |-> "undefined", in |-> "a call"] ELSE NoCall
  /\ result' = NoResult
  /\ UNCHANGED search

-----------------------------------------------------------------------------
(* Definitions.                                                            *)

\* One line of a network file. A TOUT line without a semicolon puts half of
\* its labels before the row rank.
ReadLine(s, item) ==
  IF s.err # "ok" THEN s
  ELSE CASE item.kind = "bad" -> [s EXCEPT !.err = "throws"]
         [] item.kind = "ORDER" ->
              IF BadOrderLine(item.tokens)
              THEN [s EXCEPT !.n.line = item.tokens, !.err = "throws"]
              ELSE [s EXCEPT !.n.line = item.tokens, !.n.tokens = item.tokens]
         [] item.kind = "TOUT" ->
              [s EXCEPT !.n.out = item.labels,
                        !.n.rowrank = IF item.semicolon THEN item.rowrank
                                      ELSE Len(item.labels) \div 2]
         [] item.kind = "TN" ->
              [s EXCEPT !.n.names  = Append(@, item.name),
                        !.n.labels = IF item.name \in ToSet(s.n.names) \/ item.labels = <<>>
                                     THEN @ ELSE Append(@, item.labels),
                        !.err = IF item.name \in ToSet(s.n.names) \/ item.labels = <<>>
                                THEN "throws" ELSE @]

\* The end of FromString and of construct: tree and einsum path.
WithPath(n) == LET p == PathInForce(n) IN [n |-> [n EXCEPT !.path = p.path], err |-> p.err]

WithSlots(n) == [n EXCEPT !.base = Len(n.names),
                          !.tensors = [i \in DOMAIN n.names |-> Void]]

\* FromString (and Fromfile, which reads the lines), on a fresh RegularNetwork.
Loaded(lines) ==
  LET read[k \in 0..Len(lines)] ==
        IF k = 0 THEN [n |-> Fresh, err |-> "ok"] ELSE ReadLine(read[k - 1], lines[k])
      s == read[Len(lines)]
      n == WithSlots(s.n)
  IN IF s.err # "ok" THEN s
     ELSE IF Len(s.n.names) < 2 THEN [s EXCEPT !.err = "throws"]
     ELSE IF n.tokens # <<>> /\ OrderNamesMismatch(n) THEN [n |-> n, err |-> "throws"]
     ELSE IF OutMismatch(n) THEN [n |-> n, err |-> "throws"]
     ELSE WithPath(n)

FromString(lines) == LET d == Loaded(lines) IN Ends(d.err, d.n)

\* construct: one list of labels is read for each name; the ORDER is checked
\* before the slots are made; an empty outlabel stands for the labels that are
\* expected.
Constructed(names, labels, out, outrk, tokens) ==
  LET n0 == [Fresh EXCEPT !.names = names, !.labels = SubSeq(labels, 1, Len(names)), !.out = out,
                          !.rowrank = Len(out) - outrk, !.line = tokens]
      n1 == [n0 EXCEPT !.tokens = tokens]
      n2 == WithSlots(n1)
      n3 == IF out = <<>> THEN [n2 EXCEPT !.out = ExpectedOut(n2)] ELSE n2
  IN IF Len(labels) < Len(names) THEN [n |-> Fresh, err |-> "undefined"]
     ELSE IF tokens # <<>> /\ BadOrderLine(tokens) THEN [n |-> n0, err |-> "throws"]
     ELSE IF tokens # <<>> /\ OrderNamesMismatch(n1) THEN [n |-> n1, err |-> "throws"]
     ELSE IF Len(names) < 2 THEN [n |-> n1, err |-> "throws"]
     ELSE IF OutMismatch(n3) THEN [n |-> n3, err |-> "throws"]
     ELSE WithPath(n3)

Construct(names, labels, out, outrk, tokens) ==
  LET d == Constructed(names, labels, out, outrk, tokens) IN Ends(d.err, d.n)

\* Network::Contract(tensors, ...), by Contract_plan: the labels are those of
\* the tensors, base_nodes is resized (to null pointers), no tree is built.
Planned(us, out, rowrank, names, tokens) ==
  LET n0 == [Fresh EXCEPT !.tokens = tokens, !.out = out, !.rowrank = rowrank]
      n1 == [WithSlots([n0 EXCEPT !.names = names, !.labels = [i \in DOMAIN us |-> us[i].own]])
               EXCEPT !.null = TRUE]
  IN IF \/ Len(us) < 2 \/ Len(us) # Len(names) \/ Repeated(names)
        \/ tokens # <<>> /\ BadOrderLine(tokens)
     THEN [n |-> Fresh, err |-> "throws"]
     ELSE IF tokens # <<>> /\ OrderNamesMismatch(n1) THEN [n |-> n1, err |-> "throws"]
     ELSE IF OutMismatch(n1) THEN [n |-> n1, err |-> "throws"]
     ELSE [n |-> [n1 EXCEPT !.tensors = us], err |-> "ok"]

\* The new object is only the caller's if nothing was thrown.
Contract_plan(us, out, rowrank, names, tokens) ==
  LET d == Planned(us, out, rowrank, names, tokens)
  IN Ends(d.err, IF d.err = "ok" THEN d.n ELSE net)

\* clear(): order_line and einsum_path stay.
Clear == Ends("ok", [Fresh EXCEPT !.line = net.line, !.path = net.path])

\* net = net.clone(): tensors, order_line and einsum_path are not copied.
ReplaceByClone == Ends("ok", [net EXCEPT !.tensors = <<>>, !.line = <<>>, !.path = <<>>])

-----------------------------------------------------------------------------
(* Tensors.                                                                *)

\* Mutant of PutUniTensor: the rank is not checked.
PutUniTensor_AnyRank(name, u) ==
  LET i == Pos(net)[name] IN
  IF name \notin DOMAIN Pos(net) \/ i > net.base THEN Ends("throws", net)
  ELSE IF i \notin DOMAIN net.tensors THEN Ends("undefined", net)
  ELSE Ends("ok", [net EXCEPT !.tensors[i] = u])

\* PutUniTensor: the index is checked against base_nodes, then tensors is
\* written; in a clone it has no elements.
PutUniTensor(name, u) ==
  LET i == Pos(net)[name] IN
  IF name \notin DOMAIN Pos(net) \/ i > net.base \/ Len(net.labels[i]) # Len(u.dims)
  THEN Ends("throws", net)
  ELSE IF i \notin DOMAIN net.tensors THEN Ends("undefined", net)
  ELSE Ends("ok", [net EXCEPT !.tensors[i] = u])

RmUniTensor(name) ==
  LET i == Pos(net)[name] IN
  IF name \notin DOMAIN Pos(net) \/ i > net.base THEN Ends("throws", net)
  ELSE IF i \notin DOMAIN net.tensors THEN Ends("undefined", net)
  ELSE Ends("ok", [net EXCEPT !.tensors[i] = Void])

-----------------------------------------------------------------------------
(* setOrder.                                                               *)

\* check(): every tensor must be set (all are of one type, on the CPU).
NotReady(n) == Len(n.tensors) < 2 \/ Void \in ToSet(n.tensors)

\* setOrder(false, contract_order): the line is stored and the tokens are
\* cleared before anything is checked; the default order leaves the path.
Reordered(tokens) ==
  LET n0 == [net EXCEPT !.line = tokens, !.tokens = <<>>]
      n1 == [n0 EXCEPT !.tokens = tokens]
  IN IF tokens = <<>> THEN [n |-> n0, err |-> IF net.base < 2 THEN "throws" ELSE "ok"]
     ELSE IF BadOrderLine(tokens) THEN [n |-> n0, err |-> "throws"]
     ELSE WithPath(n1)

SetOrder(tokens) == LET d == Reordered(tokens) IN Ends(d.err, d.n)

\* setOrder(true): the tokens are cleared, then the search runs on the
\* tensors with their own labels.
SetOrderOptimal ==
  IF NotReady(net) THEN Ends("throws", [net EXCEPT !.tokens = <<>>])
  ELSE /\ call = NoCall
       /\ Becomes([net EXCEPT !.tokens = <<>>])
       /\ call' = [pc |-> "search"]
       /\ result' = NoResult
       /\ search' = Searching([i \in DOMAIN net.tensors |->
                      [legs |-> Zip(net.tensors[i].own, net.tensors[i].dims),
                       cost |-> 0, id |-> {}, text |-> <<net.names[i]>>]])

SearchStep == call.pc = "search" /\ SolveStep /\ UNCHANGED <<net, call, result, standing>>

\* The text of the root becomes the order line and is cut into tokens.
SearchReturns ==
  /\ call.pc = "search" /\ Ended
  /\ LET text == IF search.phase = "done" THEN Head(search.results).text ELSE <<>>
     IN Becomes(IF search.phase # "done" THEN net
                ELSE IF BadOrderLine(text) THEN [net EXCEPT !.line = text]
                ELSE [net EXCEPT !.line = text, !.tokens = text])
  /\ call' = NoCall /\ search' = Idle /\ UNCHANGED result

-----------------------------------------------------------------------------
(* Launch. The value of a node is Void or [parts, bonds, labs, axes]: the  *)
(* tensors in it with their slots, the legs joined so far, its labels, and *)
(* the axes of its block, each with the leg <<slot, axis>> it is and its   *)
(* dimension. An axis follows its label except beside a scalar: the block  *)
(* of a tensor without labels has one axis of dimension 1, which the outer *)
(* product keeps.                                                          *)

Relabelled(i) ==
  [parts |-> {<<i, net.tensors[i]>>},
   bonds |-> {},
   labs  |-> net.labels[i],
   axes  |-> [k \in DOMAIN net.labels[i] |-> [at |-> <<i, k>>, dim |-> net.tensors[i].dims[k]]]]

UnitAxis == [at |-> <<0, 0>>, dim |-> 1]

\* DenseUniTensor::contract: the axes at the places of a common label are joined.
Joins(a, b) ==
  {pq \in (DOMAIN a.labs) \X (DOMAIN b.labs) : a.labs[pq[1]] = b.labs[pq[2]]}

CannotContract(a, b) ==
  \/ Void \in {a, b}
  \/ \E pq \in Joins(a, b) : a.axes[pq[1]].dim # b.axes[pq[2]].dim

\* The entries of s at the places that are not joined, in their order.
Open(s, joined) ==
  LET open[k \in 0..Len(s)] ==
        IF k = 0 THEN <<>>
        ELSE IF k \in joined THEN open[k - 1]
        ELSE Append(open[k - 1], s[k])
  IN open[Len(s)]

Contracted(a, b) ==
  LET joins == Joins(a, b)
      both(sa, sb) == Open(sa, {pq[1] : pq \in joins}) \o Open(sb, {pq[2] : pq \in joins})
      axes == both(a.axes, b.axes)
  IN [parts |-> a.parts \cup b.parts,
      bonds |-> a.bonds \cup b.bonds \cup
                {{a.axes[pq[1]].at, b.axes[pq[2]].at} : pq \in joins},
      labs  |-> both(a.labs, b.labs),
      axes  |-> IF axes = <<>> THEN <<UnitAxis>> ELSE axes]

\* The head of Launch: check, relabel the tensors into the base nodes (which
\* must not be null), rebuild the tree of the order in force.
LaunchBegin ==
  LET t == TreeInForce(net)
      outcome == IF NotReady(net) THEN "throws"
                 ELSE IF net.null THEN "undefined"
                 ELSE IF \E i \in DOMAIN net.labels : Repeated(net.labels[i]) THEN "throws"
                 ELSE IF t.err = "ok" /\ t.tree = <<>> THEN "undefined"
                 ELSE t.err
  IN /\ call = NoCall
     /\ Careful => outcome # "undefined"
     /\ result' = IF outcome = "throws" THEN [kind |-> "threw"] ELSE NoResult
     /\ call' = CASE outcome = "throws"    -> NoCall
                  [] outcome = "undefined" -> [pc |-> "undefined", in |-> "Launch"]
                  [] OTHER -> [pc   |-> "walk", tree |-> t.tree,
                               w    |-> WalkStart(net.base, t.tree),
                               val  |-> [x \in 1..Root(net.base, t.tree) |->
                                           IF x <= net.base THEN Relabelled(x) ELSE Void]]
     /\ UNCHANGED <<net, search, standing>>

\* Mutant of WalkStep: the children keep their values.
WalkStep_KeepChildren ==
  /\ call.pc = "walk" /\ ~WalkEnded(call.w)
  /\ \E w \in {Walked(net.base, call.tree, call.w)} :
     LET x == w.visit
         l == Left(net.base, call.tree, x)
         r == Right(net.base, call.tree, x)
     IN IF x # 0 /\ CannotContract(call.val[l], call.val[r])
        THEN call' = NoCall /\ result' = [kind |-> "threw"]
        ELSE /\ call' = [call EXCEPT !.w = w, !.val =
                  IF x = 0 THEN @
                  ELSE [@ EXCEPT ![x] = Contracted(call.val[l], call.val[r])]]
             /\ UNCHANGED result
  /\ UNCHANGED <<net, search, standing>>

\* One pass of the do-while loop: contracting a node clears its children.
WalkStep ==
  /\ call.pc = "walk" /\ ~WalkEnded(call.w)
  /\ \E w \in {Walked(net.base, call.tree, call.w)} :
     LET x == w.visit
         l == Left(net.base, call.tree, x)
         r == Right(net.base, call.tree, x)
     IN IF x # 0 /\ CannotContract(call.val[l], call.val[r])
        THEN call' = NoCall /\ result' = [kind |-> "threw"]
        ELSE /\ call' = [call EXCEPT !.w = w, !.val =
                  IF x = 0 THEN @
                  ELSE [@ EXCEPT ![l] = Void, ![r] = Void,
                                 ![x] = Contracted(call.val[l], call.val[r])]]
             /\ UNCHANGED result
  /\ UNCHANGED <<net, search, standing>>

\* The end of Launch: the value of nodes_container.back(), permuted to TOUT
\* unless that is empty; permute_ throws when the labels are not TOUT's, the
\* block has more axes than labels, or the row rank exceeds the rank; it keeps
\* the row rank when given a negative one.
LaunchReturns ==
  /\ call.pc = "walk" /\ WalkEnded(call.w)
  /\ LET v == call.val[Root(net.base, call.tree)]
         axis(l) == v.axes[CHOOSE k \in DOMAIN v.labs : v.labs[k] = l].at
         returned == [kind |-> "returned", parts |-> v.parts, bonds |-> v.bonds]
     IN result' =
          IF net.out = <<>>
          THEN returned @@ [legs |-> [k \in DOMAIN v.labs |-> v.axes[k].at], rowrank |-> 0]
          ELSE IF \/ Len(net.out) # Len(v.labs)
                  \/ ToSet(v.labs) # ToSet(net.out)
                  \/ Len(net.out) # Len(v.axes)
                  \/ net.rowrank > Len(net.out)
          THEN [kind |-> "threw"]
          ELSE returned @@ [legs    |-> [k \in DOMAIN net.out |-> axis(net.out[k])],
                            rowrank |-> net.rowrank]
  /\ call' = NoCall
  /\ UNCHANGED <<net, search, standing>>

-----------------------------------------------------------------------------
Call ==
  \/ \E lines \in Files : FromString(lines)
  \/ \E c \in Constructions : Construct(c.names, c.labels, c.out, c.outrk, c.tokens)
  \/ \E p \in Plans : Contract_plan(p.tensors, p.out, p.rowrank, p.names, p.tokens)
  \/ Clear \/ ReplaceByClone
  \/ \E name \in SlotNames : RmUniTensor(name) \/ \E u \in Tensors : PutUniTensor(name, u)
  \/ \E tokens \in Orders : SetOrder(tokens)
  \/ SetOrderOptimal
  \/ LaunchBegin

\* The steps of a call that is running.
Step == SearchStep \/ SearchReturns \/ WalkStep \/ LaunchReturns

Next == Call \/ Step

\* A call that runs keeps running: no fairness is asked of the caller.
Spec == Init /\ [][Next]_vars /\ WF_vars(Step)

-----------------------------------------------------------------------------
(* The contraction that Launch promises, on the network's own state.       *)

Promise == INSTANCE Contraction WITH
  labels  <- net.labels,
  out     <- [labels |-> net.out, rowrank |-> IF net.out = <<>> THEN 0 ELSE net.rowrank],
  valid   <- standing.valid,
  tensors <- net.tensors,
  order   <- standing.order

-----------------------------------------------------------------------------
(* Properties.                                                             *)

Agrees(n) ==
  /\ n.base # 0 => n.base = Len(n.names) /\ n.base = Len(n.labels)
  /\ Len(n.tensors) \in {0, n.base}
  /\ \A i \in DOMAIN n.tensors :
       n.tensors[i] # Void => Len(n.tensors[i].dims) = Len(n.labels[i])
  /\ n.tokens # <<>> => ~BadOrderLine(n.tokens)

\* PutUniTensor's checks hold whenever a network can be launched: every slot
\* that is filled has a tensor of its rank, and the tokens in force passed the
\* checks of _parse_ORDER_line_ (a failed setOrder leaves none).
SlotsAgree == Agrees(net)

\* Launch (RegularNetwork.cpp:975-1027): during the walk of an order that uses
\* every tensor once, the values of the nodes partition the tensors and none is
\* lost: a node is contracted before its value is used and is cleared only after.
NothingLostInWalk ==
  call.pc = "walk" /\ standing.order = "whole" =>
    LET held == {x \in DOMAIN call.val : call.val[x] # Void}
    IN /\ \A x, y \in held : x # y => call.val[x].parts \cap call.val[y].parts = {}
       /\ UNION {call.val[x].parts : x \in held} =
            {<<i, net.tensors[i]>> : i \in DOMAIN net.tensors}
       /\ WalkEnded(call.w) => held = {Root(net.base, call.tree)}

\* setOrder(true): the order that is found uses every tensor of the network
\* once, whatever labels the tensors carry.
FoundOrderIsWhole ==
  [][call.pc = "search" /\ search.phase = "done" => standing'.order = "whole"]_vars

\* getOptimalOrder hands accu_str to the ORDER parser: it must read back as a
\* tree that contracts every tensor once, in the pairs the search chose.
OrderReadsBack ==
  search.phase = "done" =>
    LET n     == search.base
        names == [i \in 1..n |-> Head(search.nodes[i].text)]
        text  == Head(search.results).text
        tree  == TreeByTokens(n, PosIn(names), text)
    IN /\ tree.err = "ok" /\ Whole(n, tree.tree)
       /\ NodeName(n, tree.tree, names, Root(n, tree.tree)) = text
=============================================================================
