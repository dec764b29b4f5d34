----------------------------- MODULE Contraction -----------------------------
(***************************************************************************)
(* What a Network promises, without trees, tokens or walks: a diagram of   *)
(* slots whose legs are joined by label, a tensor in every slot, and       *)
(* Launch, which in one step returns the contraction of the whole diagram  *)
(* with the tensors that are in the slots at that moment. Neither the      *)
(* order of contraction nor what was launched before can change it.        *)
(*                                                                         *)
(* The order in force appears only as far as a caller can get it wrong:    *)
(* "whole" uses every tensor once, "partial" does not (then Launch         *)
(* promises nothing), "refused" names a tensor that does not exist.        *)
(***************************************************************************)
EXTENDS Integers, Sequences, SequencesExt

CONSTANTS Void,       \* the tensor of an empty slot
          NoResult    \* nothing was launched since the network last changed

VARIABLES labels,     \* slot -> the sequence of its labels
          out,        \* [labels, rowrank] of the result
          valid,      \* Launch promises something about this diagram
          tensors,    \* slot -> tensor, a record with its dims
          order,      \* "whole", "partial" or "refused"
          result

diagram == <<labels, out, valid>>
vars == <<diagram, tensors, order, result>>

Legs == UNION {{<<i, k>> : k \in DOMAIN labels[i]} : i \in DOMAIN labels}
LabelAt(leg) == labels[leg[1]][leg[2]]
DimAt(leg)   == tensors[leg[1]].dims[leg[2]]

\* The legs that are joined, two by two.
Bonds == {{pq[1], pq[2]} : pq \in {xy \in Legs \X Legs :
                               xy[1] # xy[2] /\ LabelAt(xy[1]) = LabelAt(xy[2])}}

Full == [kind    |-> "returned",
         parts   |-> {<<i, tensors[i]>> : i \in DOMAIN tensors},
         bonds   |-> Bonds,
         legs    |-> [k \in DOMAIN out.labels |->
                        CHOOSE p \in Legs : LabelAt(p) = out.labels[k]],
         rowrank |-> out.rowrank]

Threw == [kind |-> "threw"]

Contractible ==
  /\ Void \notin ToSet(tensors)
  /\ \A b \in Bonds : \A p, q \in b : DimAt(p) = DimAt(q)

\* A new network, or none that can be launched; its slots are empty, or
\* filled by the call that made it.
Define ==
  /\ result' = NoResult
  /\ Void \in ToSet(tensors') => ToSet(tensors') = {Void}

\* Putting a tensor into a slot, or removing it.
Replace ==
  /\ result' = NoResult
  /\ \E i \in DOMAIN tensors : tensors' = [tensors EXCEPT ![i] = tensors'[i]]
  /\ UNCHANGED <<diagram, order>>

Reorder ==
  /\ result' = NoResult
  /\ order' \in {"whole", "partial", "refused"}
  /\ UNCHANGED <<diagram, tensors>>

Launch ==
  /\ valid =>
       \/ order = "partial"
       \/ order = "whole" /\ Contractible /\ result' = Full
       \/ (order = "refused" \/ ~Contractible) /\ result' = Threw
  /\ UNCHANGED <<diagram, tensors, order>>

Next == Define \/ Replace \/ Reorder \/ Launch

Spec == result = NoResult /\ [][Next]_vars
=============================================================================
