--------------------------- MODULE StorageObject ---------------------------
(***************************************************************************)
(* What one Storage object holds and what each member function of          *)
(* StorageImplementation does to it.  An object is a record                *)
(*    dt    its dtype                                                      *)
(*    size  the number of elements the user sees                           *)
(*    mem   the allocated buffer; its length is the capacity               *)
(* Only the CPU build is modelled (device = -1).  Elements are integers;   *)
(* Raw stands for the contents of memory that malloc returned and nobody   *)
(* wrote.                                                                  *)
(***************************************************************************)
EXTENDS Integers, Sequences

CONSTANT Raw           \* an element of never written memory

STORAGE_DEFT_SZ == 2

\* Capacities are rounded up to a multiple of STORAGE_DEFT_SZ.
RoundUp(n) ==
  IF n % STORAGE_DEFT_SZ # 0
  THEN (n \div STORAGE_DEFT_SZ + 1) * STORAGE_DEFT_SZ
  ELSE n

Capacity(s) == Len(s.mem)

\* The elements of s, as a user reads them.
Elems(s) == SubSeq(s.mem, 1, s.size)

\* The buffer mem after a write of v to its k-th element.
Write(mem, k, v) == [j \in 1..Len(mem) |-> IF j = k THEN v ELSE mem[j]]

\* static_cast<DType>(v): Bool keeps only whether v is zero.
CastTo(dt, v) == IF v = Raw \/ dt # "Bool" \/ v = 0 THEN v ELSE 1

\* Init(len_in, device, init_zero): calloc or malloc of the rounded capacity.
Blank(dt, n, initZero) ==
  [dt   |-> dt,
   size |-> n,
   mem  |-> [k \in 1..RoundUp(n) |-> IF initZero THEN 0 ELSE Raw]]

\* _from_vector: Init, then a memcpy of the vector.
FromVector(dt, v) ==
  [dt   |-> dt,
   size |-> Len(v),
   mem  |-> [k \in 1..RoundUp(Len(v)) |->
               IF k <= Len(v) THEN CastTo(dt, v[k]) ELSE 0]]

\* clone: Init(size_), then a memcpy of the size_ elements, not of the capacity.
Cloned(s) ==
  [s EXCEPT !.mem = [k \in 1..RoundUp(s.size) |->
                       IF k <= s.size THEN s.mem[k] ELSE 0]]

\* astype to another dtype: the cast kernel allocates with Init(len_in).
Casted(s, dt) ==
  [dt   |-> dt,
   size |-> s.size,
   mem  |-> [k \in 1..RoundUp(s.size) |->
               IF k <= s.size THEN CastTo(dt, s.mem[k]) ELSE 0]]

\* Mutant of Resized: the new capacity is not rounded up.
Resized_Unrounded(s, newsize) ==
  IF newsize > Capacity(s)
  THEN [s EXCEPT !.size = newsize,
                 !.mem  = [k \in 1..newsize |->
                             IF k <= s.size THEN s.mem[k] ELSE 0]]
  ELSE [s EXCEPT !.size = newsize]

\* Mutant of Resized: malloc in the place of calloc.
Resized_Malloc(s, newsize) ==
  IF newsize > Capacity(s)
  THEN [s EXCEPT !.size = newsize,
                 !.mem  = [k \in 1..RoundUp(newsize) |->
                             IF k <= s.size THEN s.mem[k] ELSE Raw]]
  ELSE [s EXCEPT !.size = newsize]

\* resize: the buffer is replaced only when the capacity is exceeded; a resize
\* within the capacity only moves size_.
Resized(s, newsize) ==
  IF newsize > Capacity(s)
  THEN [s EXCEPT !.size = newsize,
                 !.mem  = [k \in 1..RoundUp(newsize) |->
                             IF k <= s.size THEN s.mem[k] ELSE 0]]
  ELSE [s EXCEPT !.size = newsize]

\* Mutant of Appended: the value is written below the new element.
Appended_OffByOne(s, v) ==
  LET grown == IF s.size = Capacity(s)
               THEN Resized(s, s.size + 1)
               ELSE [s EXCEPT !.size = @ + 1]
  IN [grown EXCEPT !.mem = Write(@, grown.size - 1, CastTo(s.dt, v))]

\* Append: grow by one element, then write it.
Appended(s, v) ==
  LET grown == IF s.size = Capacity(s)
               THEN Resized(s, s.size + 1)
               ELSE [s EXCEPT !.size = @ + 1]
  IN [grown EXCEPT !.mem = Write(@, grown.size, CastTo(s.dt, v))]

\* SetItem(k, v), through at(), which rejects k >= size: k < s.size here.
ItemSet(s, k, v) == [s EXCEPT !.mem = Write(@, k + 1, CastTo(s.dt, v))]

\* Mutant of Filled: the whole capacity is filled.
Filled_Capacity(s, v) ==
  [s EXCEPT !.mem = [k \in 1..Len(s.mem) |-> CastTo(s.dt, v)]]

\* Fill: the size_ elements, not the rest of the capacity (set_zeros: v = 0).
Filled(s, v) ==
  [s EXCEPT !.mem = [k \in 1..Len(s.mem) |->
                       IF k <= s.size THEN CastTo(s.dt, v) ELSE s.mem[k]]]
=============================================================================
