--------------------------- MODULE ContractionTree ---------------------------
(***************************************************************************)
(* The contraction tree of a network (contraction_tree.hpp/.cpp) and the   *)
(* three algorithms on it: the shunting-yard parser that builds it from    *)
(* the tokens of an ORDER line, the do-while walk that visits it in post   *)
(* order (the same loop in RegularNetwork::Launch and in                   *)
(* CtTree_to_eisumpath), and the conversion to an einsum path and back.    *)
(*                                                                         *)
(* A node is a number: 1..n are the base nodes, n + k is the k-th node of  *)
(* nodes_container, and "tree" is nodes_container as the sequence of the   *)
(* pairs <<left, right>>. 0 is the null pointer.                           *)
(***************************************************************************)
EXTENDS Integers, Sequences, SequencesExt

Punctuation == {"(", ")", ","}

\* The element of a set of one: Sole({F(u) : u \in {s}}) is F(s), with s worked
\* out once. The steps below refer to the state they are given many times.
Sole(S) == CHOOSE x \in S : TRUE
Once(F(_), s) == Sole({F(u) : u \in {s}})

Left(n, tree, x)  == IF x > n THEN tree[x - n][1] ELSE 0
Right(n, tree, x) == IF x > n THEN tree[x - n][2] ELSE 0

\* build_default_contraction_tree: contract from the first tensor to the last.
DefaultTree(n) == [k \in 1..(n - 1) |-> <<IF k = 1 THEN 1 ELSE n + k - 1, k + 1>>]

-----------------------------------------------------------------------------
(* The parser: s.ops is the stack "operators", s.stk the stack of nodes.   *)

\* One pass of the inner loop: an operator is popped and the two nodes on the
\* top of the stack become the children of a new one. Popping an empty
\* std::stack is undefined behaviour.
Reduced(n, s) ==
  LET k == Len(s.stk) IN
  IF s.err # "ok" THEN s
  ELSE IF k < 2 THEN [s EXCEPT !.err = "undefined"]
  ELSE [ops  |-> Front(s.ops),
        stk  |-> Append(SubSeq(s.stk, 1, k - 2), n + Len(s.tree) + 1),
        tree |-> Append(s.tree, <<s.stk[k - 1], s.stk[k]>>),
        err  |-> "ok"]

ReducedTimes(n, s, k) ==
  LET f[i \in 0..k] == IF i = 0 THEN s ELSE Sole({Reduced(n, u) : u \in {f[i - 1]}})
  IN f[k]

\* The operators above the innermost open parenthesis.
OpenOps(ops) == Len(ops) - Max({0} \cup {i \in DOMAIN ops : ops[i] = "("})

\* One token; pos is name2pos.
Parsed(n, pos, s, tok) ==
  LET c == ReducedTimes(n, s, OpenOps(s.ops)) IN
  IF s.err # "ok" THEN s
  ELSE CASE tok = "(" -> [s EXCEPT !.ops = Append(@, tok)]
         [] tok = "," -> IF c.err = "ok" THEN [c EXCEPT !.ops = Append(@, tok)] ELSE c
         [] tok = ")" -> IF c.err # "ok" THEN c
                         ELSE IF c.ops = <<>> THEN [c EXCEPT !.err = "undefined"]
                         ELSE [c EXCEPT !.ops = Front(@)]
         [] OTHER     -> IF tok \in DOMAIN pos THEN [s EXCEPT !.stk = Append(@, pos[tok])]
                         ELSE [s EXCEPT !.err = "throws"]

Start == [ops |-> <<>>, stk |-> <<>>, tree |-> <<>>, err |-> "ok"]

\* The tokens, from the first to the last.
Read(n, pos, tokens) ==
  LET f[k \in 0..Len(tokens)] ==
        IF k = 0 THEN Start ELSE Sole({Parsed(n, pos, u, tokens[k]) : u \in {f[k - 1]}})
  IN f[Len(tokens)]

\* Mutant of TreeByTokens: the operators left at the end are not applied.
TreeByTokens_NoRest(n, pos, tokens) ==
  IF n < 2 \/ tokens = <<>> THEN [Start EXCEPT !.err = "throws"] ELSE Read(n, pos, tokens)

\* build_contraction_tree_by_tokens: the tree it leaves in nodes_container
\* and how it ended. What is left on the stack of nodes is dropped.
TreeByTokens(n, pos, tokens) ==
  LET Rest(s) == ReducedTimes(n, s, IF s.err = "ok" THEN Len(s.ops) ELSE 0)
  IN IF n < 2 \/ tokens = <<>> THEN [Start EXCEPT !.err = "throws"]
     ELSE Sole({Rest(s) : s \in {Read(n, pos, tokens)}})

-----------------------------------------------------------------------------
(* The walk: w.stk is the explicit stack, w.root the pointer, w.visit the  *)
(* node contracted by the last pass (0: none).                             *)

\* The inner while loop: what it pushes on the way down to the leftmost leaf.
Spine(n, tree, root) ==
  LET f[x \in 0..(n + Len(tree))] ==
        IF x = 0 THEN <<>>
        ELSE IF x <= n THEN <<x>>
        ELSE <<Right(n, tree, x), x>> \o f[Left(n, tree, x)]
  IN f[root]

\* Mutant of Walked: the right child is not popped before its parent is pushed.
Walked_NoPop(n, tree, w) ==
  LET down == w.stk \o Spine(n, tree, w.root)
      x    == Last(down)
      rest == Front(down)
  IN IF x > n /\ rest # <<>> /\ Last(rest) = Right(n, tree, x)
     THEN [stk |-> Append(rest, x), root |-> Right(n, tree, x), visit |-> 0]
     ELSE [stk |-> rest, root |-> 0, visit |-> IF x > n THEN x ELSE 0]

\* One pass of the do-while loop.
Walked(n, tree, w) ==
  LET down == w.stk \o Spine(n, tree, w.root)
      x    == Last(down)
      rest == Front(down)
  IN IF x > n /\ rest # <<>> /\ Last(rest) = Right(n, tree, x)
     THEN [stk |-> Append(Front(rest), x), root |-> Right(n, tree, x), visit |-> 0]
     ELSE [stk |-> rest, root |-> 0, visit |-> IF x > n THEN x ELSE 0]

Root(n, tree) == n + Len(tree)
WalkStart(n, tree) == [stk |-> <<>>, root |-> Root(n, tree), visit |-> 0]

\* The loop ends when the stack is empty after a pass.
WalkEnded(w) == w.stk = <<>> /\ w.root = 0

\* The nodes in the order in which the walk contracts them.
Visits(n, tree) ==
  LET Pass(v) ==
        LET Passed(w) == [w |-> w, seq |-> IF w.visit = 0 THEN v.seq ELSE Append(v.seq, w.visit)]
        IN IF WalkEnded(v.w) THEN v ELSE Once(Passed, Walked(n, tree, v.w))
  IN FoldLeft(LAMBDA v, i : Once(Pass, v), [w |-> WalkStart(n, tree), seq |-> <<>>],
              [i \in 1..(4 * Len(tree) + 2) |-> i]).seq

-----------------------------------------------------------------------------
(* The einsum path (RegularNetwork.cpp:209-276). Positions count from 0.   *)

\* Node::name, as tokens.
NodeName(n, tree, names, x) ==
  LET f[y \in 1..(n + Len(tree))] ==
        IF y <= n THEN <<names[y]>>
        ELSE <<"(">> \o f[Left(n, tree, y)] \o <<",">> \o f[Right(n, tree, y)] \o <<")">>
  IN f[x]

\* Mutant of EinsumPath: the second position is taken after the first erase.
EinsumPath_AfterErase(n, tree, names) ==
  LET Find(s, x) == SelectInSeq(s, LAMBDA y : y = NodeName(n, tree, names, x))
      Merge(p, x) ==
        LET a    == Find(p.tns, Left(n, tree, x))
            left == RemoveAt(p.tns, a)
            b    == Find(left, Right(n, tree, x))
        IN IF p.err # "ok" THEN p
           ELSE IF a = 0 \/ b = 0 THEN [p EXCEPT !.err = "undefined"]
           ELSE [tns  |-> Append(RemoveAt(left, b), NodeName(n, tree, names, x)),
                 path |-> Append(p.path, <<a - 1, b - 1>>), err |-> "ok"]
  IN FoldLeft(LAMBDA p, x : Once(LAMBDA u : Merge(u, x), p),
              [tns |-> [i \in DOMAIN names |-> <<names[i]>>], path |-> <<>>, err |-> "ok"],
              Visits(n, tree))

\* CtTree_to_eisumpath: the positions of the children's names in the list of
\* what is left, which loses both and gains the new name at its end. What is
\* found is the first tensor of that name. To erase a name that is not in the
\* list, or what is before its first, is undefined behaviour.
EinsumPath(n, tree, names) ==
  LET Find(s, x) == SelectInSeq(s, LAMBDA y : y = NodeName(n, tree, names, x))
      Merge(p, x) ==
        LET a    == Find(p.tns, Left(n, tree, x))
            b    == Find(p.tns, Right(n, tree, x))
            next == IF a > b THEN b ELSE b - 1
        IN IF p.err # "ok" THEN p
           ELSE IF a = 0 \/ b = 0 \/ next = 0 THEN [p EXCEPT !.err = "undefined"]
           ELSE [tns  |-> Append(RemoveAt(RemoveAt(p.tns, a), next), NodeName(n, tree, names, x)),
                 path |-> Append(p.path, <<a - 1, b - 1>>), err |-> "ok"]
  IN FoldLeft(LAMBDA p, x : Once(LAMBDA u : Merge(u, x), p),
              [tns |-> [i \in DOMAIN names |-> <<names[i]>>], path |-> <<>>, err |-> "ok"],
              Visits(n, tree))

\* einsumpath_to_string: names |-> the text (here its tokens) a path stands for.
PathText(path, names) ==
  LET Merge(p, ids) ==
        LET a == ids[1] + 1
            b == IF ids[1] > ids[2] THEN ids[2] + 1 ELSE ids[2]
            res == <<"(">> \o p.tns[a] \o <<",">> \o p.tns[ids[2] + 1] \o <<")">>
        IN [tns |-> Append(RemoveAt(RemoveAt(p.tns, a), b), res), res |-> res]
  IN FoldLeft(LAMBDA p, ids : Once(LAMBDA u : Merge(u, ids), p),
              [tns |-> [i \in DOMAIN names |-> <<names[i]>>], res |-> <<>>], path).res

\* The base nodes below a node, one entry for every time it is reached.
LeavesBelow(n, tree, x) ==
  LET f[y \in 1..(n + Len(tree))] ==
        IF y <= n THEN <<y>> ELSE f[Left(n, tree, y)] \o f[Right(n, tree, y)]
  IN f[x]

\* The tree contracts every tensor of the network, each of them once.
Whole(n, tree) ==
  /\ tree # <<>>
  /\ LET leaves == LeavesBelow(n, tree, Root(n, tree))
     IN Len(leaves) = n /\ ToSet(leaves) = 1..n
=============================================================================
