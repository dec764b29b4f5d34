------------------------------ MODULE Storage ------------------------------
(***************************************************************************)
(* The Storage component: user handles, the reference-counted objects they *)
(* share, and the files they are saved to.  A call that throws changes     *)
(* nothing here, so only calls that return are actions.                    *)
(***************************************************************************)
EXTENDS StorageObject, FiniteSets

CONSTANTS Handles,     \* the user's Storage variables
          Ids,         \* names of heap objects
          Files,       \* file names
          Void,        \* the Storage_base of a default-constructed handle
          None,        \* a free heap name; a file that does not exist
          DTypes,      \* dtypes in use
          Values,      \* element values a user writes
          MaxSize,     \* bound on the number of elements
          Shrink,      \* may resize be called with less than the size?
          RawInit      \* may a Storage be made with init_zero = false?

ASSUME StorageAssumption ==
  /\ MaxSize \in Nat
  /\ Shrink \in BOOLEAN /\ RawInit \in BOOLEAN
  /\ Void \notin Ids
  /\ Raw \notin Int
  /\ Values \subseteq Int

VARIABLES ref,         \* ref[h]: the object handle h refers to, or Void
          heap,        \* heap[i]: the object named i, or None
          file,        \* file[f]: what f holds, or None
          call         \* for the properties: the last call and its arguments

vars == <<ref, heap, file, call>>

-----------------------------------------------------------------------------
Sizes == 0..MaxSize

\* Vectors passed to from_vector: one per length, of a number that a cast to Bool
\* changes.
Vectors == {[k \in 1..n |-> 2] : n \in Sizes}

Live(r) == {r[h] : h \in Handles} \ {Void}

\* Mutant of Commit: an object outlives its last reference.
Commit_Leak(r, hp) ==
  /\ ref' = r
  /\ heap' = hp

\* intrusive_ptr: an object is deleted with its last reference.
Commit(r, hp) ==
  /\ ref' = r
  /\ heap' = [i \in Ids |-> IF i \in Live(r) THEN hp[i] ELSE None]

\* h is given an object of its own.
Bind(h, s) ==
  \E i \in Ids \ Live(ref) :
     Commit([ref EXCEPT ![h] = i], [heap EXCEPT ![i] = s])

\* The object h refers to becomes s.
Update(h, s) == Commit(ref, [heap EXCEPT ![ref[h]] = s])

Obj(h) == heap[ref[h]]

Init == /\ ref = [h \in Handles |-> Void]
        /\ heap = [i \in Ids |-> None]
        /\ file = [f \in Files |-> None]
        /\ call = <<>>

-----------------------------------------------------------------------------
(* Construction, assignment and copies.                                    *)

Construct(h, dt, n, initZero) ==
  /\ call' = <<"Storage", h, dt, n, initZero>>
  /\ initZero \/ RawInit
  /\ Bind(h, Blank(dt, n, initZero))
  /\ UNCHANGED file

Vector(h, dt, v) ==
  /\ call' = <<"from_vector", h, dt, v>>
  /\ Bind(h, FromVector(dt, v))
  /\ UNCHANGED file

\* operator=, and to() on the device the Storage is on.
Assign(h, g) ==
  /\ call' = <<"operator=", h, g>>
  /\ ref[g] # Void
  /\ Commit([ref EXCEPT ![h] = ref[g]], heap)
  /\ UNCHANGED file

Clone(h, g) ==
  /\ call' = <<"clone", h, g>>
  /\ ref[g] # Void
  /\ Bind(h, Cloned(Obj(g)))
  /\ UNCHANGED file

\* astype: to its own dtype a Storage returns itself.
Astype(h, g, dt) ==
  /\ call' = <<"astype", h, g, dt>>
  /\ ref[g] # Void
  /\ IF dt = Obj(g).dt
     THEN Commit([ref EXCEPT ![h] = ref[g]], heap)
     ELSE Bind(h, Casted(Obj(g), dt))
  /\ UNCHANGED file

-----------------------------------------------------------------------------
(* Changes of the object.                                                  *)

Resize(h, n) ==
  /\ call' = <<"resize", h, n>>
  /\ ref[h] # Void
  /\ n >= Obj(h).size \/ Shrink
  /\ Update(h, Resized(Obj(h), n))
  /\ UNCHANGED file

AppendValue(h, v) ==
  /\ call' = <<"append", h, v>>
  /\ ref[h] # Void
  /\ Obj(h).size < MaxSize
  /\ Update(h, Appended(Obj(h), v))
  /\ UNCHANGED file

SetItem(h, k, v) ==
  /\ call' = <<"set_item", h, k, v>>
  /\ ref[h] # Void
  /\ k < Obj(h).size
  /\ Update(h, ItemSet(Obj(h), k, v))
  /\ UNCHANGED file

Fill(h, v) ==
  /\ call' = <<"fill", h, v>>
  /\ ref[h] # Void
  /\ Update(h, Filled(Obj(h), v))
  /\ UNCHANGED file

-----------------------------------------------------------------------------
(* Files.  Save writes a header (dtype, size) and the elements, Tofile the *)
(* elements alone; both truncate the file first.                           *)

Save(h, f) ==
  /\ call' = <<"Save", h, f>>
  /\ ref[h] # Void
  /\ file' = [file EXCEPT ![f] = [kind  |-> "cyst",
                                  dt    |-> Obj(h).dt,
                                  elems |-> Elems(Obj(h))]]
  /\ UNCHANGED <<ref, heap>>

Tofile(h, f) ==
  /\ call' = <<"Tofile", h, f>>
  /\ ref[h] # Void
  /\ file' = [file EXCEPT ![f] = [kind  |-> "binary",
                                  dt    |-> Obj(h).dt,
                                  elems |-> Elems(Obj(h))]]
  /\ UNCHANGED <<ref, heap>>

\* Init(sz, dv) and a read of sz elements behind the header.
Load(h, f) ==
  /\ call' = <<"Load", h, f>>
  /\ file[f] # None
  /\ file[f].kind = "cyst"
  /\ Bind(h, FromVector(file[f].dt, file[f].elems))
  /\ UNCHANGED file

(***************************************************************************)
(* Fromfile reads a binary file of the caller's dtype.  With count = -1 it *)
(* reads the elements the file has.  With count > 0 the code compares      *)
(* count with a local it has not initialised: the call may be refused, or  *)
(* go on, whatever count is; when it goes on it allocates count zeros and  *)
(* reads what the file has of them.                                        *)
(***************************************************************************)
Fromfile(h, f, count) ==
  /\ call' = <<"Fromfile", h, f, count>>
  /\ count # 0
  /\ file[f] # None
  /\ file[f].kind = "binary"
  /\ LET inFile == Len(file[f].elems)
         nelem  == IF count < 0 THEN inFile ELSE count
     IN Bind(h, FromVector(file[f].dt,
                           [k \in 1..nelem |->
                              IF k <= inFile THEN file[f].elems[k] ELSE 0]))
  /\ UNCHANGED file

-----------------------------------------------------------------------------
Next ==
  \E h \in Handles :
     \/ \E dt \in DTypes, n \in Sizes, z \in BOOLEAN : Construct(h, dt, n, z)
     \/ \E dt \in DTypes, v \in Vectors : Vector(h, dt, v)
     \/ \E g \in Handles : Assign(h, g) \/ Clone(h, g)
     \/ \E g \in Handles, dt \in DTypes : Astype(h, g, dt)
     \/ \E n \in Sizes : Resize(h, n)
     \/ \E v \in Values : AppendValue(h, v) \/ Fill(h, v)
     \/ \E k \in Sizes, v \in Values : SetItem(h, k, v)
     \/ \E f \in Files : Save(h, f) \/ Tofile(h, f) \/ Load(h, f)
     \/ \E f \in Files, count \in Sizes \cup {-1} : Fromfile(h, f, count)

Spec == Init /\ [][Next]_vars

-----------------------------------------------------------------------------
(* Properties.                                                             *)

Elements == Int \cup {Raw}

Objects == [dt : DTypes, size : Nat, mem : Seq(Elements)]

\* Every handle refers to Void or to an allocated object, exactly the objects
\* some handle refers to are allocated, and files hold what Save and Tofile
\* write.
TypeOK ==
  /\ ref \in [Handles -> Ids \cup {Void}]
  /\ DOMAIN heap = Ids
  /\ \A i \in Live(ref) : heap[i] \in Objects
  /\ \A i \in Ids \ Live(ref) : heap[i] = None
  /\ DOMAIN file = Files
  /\ \A f \in Files :
       file[f] = None \/ file[f] \in [kind  : {"cyst", "binary"},
                                      dt    : DTypes,
                                      elems : Seq(Elements)]

\* The buffer holds the elements, and it has the multiple-of-STORAGE_DEFT_SZ
\* length that _Init_byptr insists on and "Internally, Cytnx allocates memory
\* in multiples of 2" states: every path that allocates has to round, and the
\* paths that only move size_ have to stay inside.
CapacityOK ==
  \A i \in Live(ref) : /\ heap[i].size <= Capacity(heap[i])
                       /\ Capacity(heap[i]) % STORAGE_DEFT_SZ = 0

\* The memory between size and capacity is zero.  It is what resize relies on
\* when it grows inside the capacity without writing; it holds as long as no
\* Storage is shrunk and none is made with init_zero = false.
TailZero ==
  \A i \in Live(ref) :
     \A k \in heap[i].size + 1..Capacity(heap[i]) : heap[i].mem[k] = 0

\* The vectors the objects stand for.
Contents == [i \in Live(ref) |-> [dt |-> heap[i].dt, elems |-> Elems(heap[i])]]

Loose == INSTANCE SharedVector
           WITH obj <- ref, val <- Contents, Pad <- Elements

Documented == INSTANCE SharedVector
                WITH obj <- ref, val <- Contents, Pad <- {0}

\* A Storage is a reference to a vector: every call - sharing, copying, casting,
\* growing across and inside the capacity, writing, saving and loading - gives the
\* elements it should to the vector it should and touches no other.  Only the
\* elements that a resize adds, and those made with init_zero = false, are of any
\* value.
ImplementsVector == Loose!Spec

\* The same, and the elements that a resize adds are zeros, as
\* docs/source/guide/basic_obj/Storage_3_expand.rst:51 says.
ImplementsZeroingVector == Documented!Spec
=============================================================================
