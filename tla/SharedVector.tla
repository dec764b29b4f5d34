---------------------------- MODULE SharedVector ----------------------------
(***************************************************************************)
(* What a Storage promises its user: it is a reference to a vector, and    *)
(* "everything is reference" (docs/source/guide/behavior.rst): handles     *)
(* that were assigned to one another name the same vector.  There is no    *)
(* capacity here.  Pad is the set of values that an element nobody wrote   *)
(* may have: {0} for the documented vector.  A step names the call it is,  *)
(* so that growth by resize is told from growth by append.                 *)
(***************************************************************************)
EXTENDS Integers, Sequences

CONSTANTS Handles,     \* the user's Storage variables
          Ids,         \* names of vectors
          Files,       \* file names
          Void,        \* what an unset handle refers to
          None,        \* a file that does not exist
          DTypes,      \* dtypes in use
          Values,      \* element values a user writes
          Vectors,     \* vectors passed to from_vector
          Sizes,       \* numbers of elements asked for
          Pad          \* what an element that nobody wrote may be

VARIABLES obj,         \* obj[h]: the vector h refers to
          val,         \* val[i]: its dtype and its elements
          file,        \* file[f]: what f holds, or None
          call         \* the last call: its name and its arguments

vars == <<obj, val, file, call>>

Init == /\ obj = [h \in Handles |-> Void]
        /\ file = [f \in Files |-> None]
        /\ call = <<>>

Named(o) == {o[h] : h \in Handles} \ {Void}

\* The vectors named before and after a step, other than those of S, are kept.
Kept(S) == \A i \in (Named(obj) \cap Named(obj')) \ S : val'[i] = val[i]

\* A number as an element of dtype dt: a truth value, if that is what dt has.
As(dt, v) == IF dt = "Bool" /\ v \in Int /\ v # 0 THEN 1 ELSE v

Vec(dt, v) == [dt |-> dt, elems |-> [k \in 1..Len(v) |-> As(dt, v[k])]]

\* h is made to refer to a vector that nobody else refers to.
Make(h) ==
  /\ \E i \in Ids \ Named(obj) : obj' = [obj EXCEPT ![h] = i]
  /\ Kept({})
  /\ UNCHANGED file

\* The vector of h after the step.
Result(h) == val'[obj'[h]]

Construct(h, dt, n, initZero) ==
  /\ call' = <<"Storage", h, dt, n, initZero>>
  /\ Make(h)
  /\ Result(h).dt = dt /\ Len(Result(h).elems) = n
  /\ \A k \in 1..n : Result(h).elems[k] \in IF initZero THEN {0} ELSE Pad

Vector(h, dt, v) ==
  /\ call' = <<"from_vector", h, dt, v>>
  /\ Make(h)
  /\ Result(h) = Vec(dt, v)

Share(h, g) ==
  /\ obj[g] # Void
  /\ obj' = [obj EXCEPT ![h] = obj[g]]
  /\ Kept({})
  /\ UNCHANGED file

Assign(h, g) == call' = <<"operator=", h, g>> /\ Share(h, g)

\* h is made a copy of g: the same elements, in a vector of its own.
Clone(h, g) ==
  /\ call' = <<"clone", h, g>>
  /\ obj[g] # Void
  /\ Make(h)
  /\ Result(h) = val[obj[g]]

Astype(h, g, dt) ==
  /\ call' = <<"astype", h, g, dt>>
  /\ obj[g] # Void
  /\ IF dt = val[obj[g]].dt
     THEN Share(h, g)
     ELSE Make(h) /\ Result(h) = Vec(dt, val[obj[g]].elems)

\* A change of the vector h refers to, as every handle on it sees it.
Change(h) ==
  /\ obj[h] # Void
  /\ obj' = obj
  /\ Kept({obj[h]})
  /\ val'[obj[h]].dt = val[obj[h]].dt
  /\ UNCHANGED file

\* Its elements before and after the step.
Old(h) == val[obj[h]].elems
New(h) == val'[obj[h]].elems

Resize(h, n) ==
  /\ call' = <<"resize", h, n>>
  /\ Change(h)
  /\ Len(New(h)) = n
  /\ \A k \in 1..n :
       IF k <= Len(Old(h)) THEN New(h)[k] = Old(h)[k] ELSE New(h)[k] \in Pad

AppendValue(h, v) ==
  /\ call' = <<"append", h, v>>
  /\ Change(h)
  /\ New(h) = Append(Old(h), As(val[obj[h]].dt, v))

SetItem(h, k, v) ==
  /\ call' = <<"set_item", h, k, v>>
  /\ Change(h)
  /\ k < Len(Old(h))
  /\ New(h) = [Old(h) EXCEPT ![k + 1] = As(val[obj[h]].dt, v)]

Fill(h, v) ==
  /\ call' = <<"fill", h, v>>
  /\ Change(h)
  /\ New(h) = [k \in 1..Len(Old(h)) |-> As(val[obj[h]].dt, v)]

\* A file holds the dtype and the elements that h had.
Written(h, f, kind) ==
  /\ obj[h] # Void
  /\ file' = [file EXCEPT ![f] = [kind  |-> kind,
                                  dt    |-> val[obj[h]].dt,
                                  elems |-> Old(h)]]
  /\ obj' = obj
  /\ Kept({})

Save(h, f)   == call' = <<"Save", h, f>> /\ Written(h, f, "cyst")
Tofile(h, f) == call' = <<"Tofile", h, f>> /\ Written(h, f, "binary")

Load(h, f) ==
  /\ call' = <<"Load", h, f>>
  /\ file[f] # None
  /\ Make(h)
  /\ Result(h) = Vec(file[f].dt, file[f].elems)

\* The elements of the file; count of them, if it is not -1, with zeros for those
\* the file has not.
Fromfile(h, f, count) ==
  /\ call' = <<"Fromfile", h, f, count>>
  /\ file[f] # None
  /\ Make(h)
  /\ LET v == file[f].elems
         n == IF count < 0 THEN Len(v) ELSE count
     IN Result(h) = Vec(file[f].dt, [k \in 1..n |-> IF k <= Len(v) THEN v[k] ELSE 0])

Next ==
  \E h \in Handles :
     \/ \E dt \in DTypes, n \in Sizes, z \in BOOLEAN : Construct(h, dt, n, z)
     \/ \E dt \in DTypes, v \in Vectors : Vector(h, dt, v)
     \/ \E g \in Handles : Assign(h, g) \/ Clone(h, g)
     \/ \E g \in Handles, dt \in DTypes : Astype(h, g, dt)
     \/ \E n \in Sizes : Resize(h, n)
     \/ \E v \in Values : AppendValue(h, v) \/ Fill(h, v)
     \/ \E k \in Sizes, v \in Values : SetItem(h, k, v)
     \/ \E f \in Files : Save(h, f) \/ Tofile(h, f) \/ Load(h, f)
     \/ \E f \in Files, count \in Sizes \cup {-1} : Fromfile(h, f, count)

Spec == Init /\ [][Next]_vars
=============================================================================
