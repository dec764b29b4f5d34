--------------------------- MODULE StorageProofs ---------------------------
(***************************************************************************)
(* What is proved of Storage for every number of handles and elements:     *)
(* type correctness, the capacity invariant, the zero tail of the grow-    *)
(* only client, and that a Storage is a reference to a vector.             *)
(***************************************************************************)
EXTENDS Storage, TLAPS

\* A well-formed object: its buffer holds its elements and has an even length.
Sound(s) == /\ s \in Objects
            /\ s.size <= Len(s.mem)
            /\ Len(s.mem) % STORAGE_DEFT_SZ = 0

\* The object's memory beyond its elements is zero.
ZeroTail(s) == \A k \in s.size + 1..Len(s.mem) : s.mem[k] = 0

\* RoundUp returns the least multiple of two that is large enough.
LEMMA RoundUpEven ==
  ASSUME NEW n \in Nat
  PROVE  /\ RoundUp(n) \in Nat
         /\ RoundUp(n) >= n
         /\ RoundUp(n) % STORAGE_DEFT_SZ = 0
BY DEF RoundUp, STORAGE_DEFT_SZ

\* A cast yields an element.
LEMMA CastToElement ==
  ASSUME NEW dt, NEW v \in Elements
  PROVE  CastTo(dt, v) \in Elements
BY DEF CastTo, Elements

\* A function on 1..n with elements as values is a sequence of length n.
LEMMA Buffer ==
  ASSUME NEW n \in Nat, NEW f, f \in [1..n -> Elements]
  PROVE  f \in Seq(Elements) /\ Len(f) = n /\ DOMAIN f = 1..n
<1>1. f \in Seq(Elements)
  OBVIOUS
<1> QED
  BY <1>1

\* Replacing the buffer of an object replaces nothing else.
LEMMA SetMem ==
  ASSUME NEW s, s \in Objects, NEW x
  PROVE  [s EXCEPT !.mem = x] = [dt |-> s.dt, size |-> s.size, mem |-> x]
BY DEF Objects

\* What a fresh Storage looks like.
LEMMA BlankSound ==
  ASSUME NEW dt \in DTypes, NEW n \in Nat, NEW z \in BOOLEAN
  PROVE  /\ Sound(Blank(dt, n, z))
         /\ z => ZeroTail(Blank(dt, n, z))
<1> DEFINE buf == [k \in 1..RoundUp(n) |-> IF z THEN 0 ELSE Raw]
<1>1. RoundUp(n) \in Nat /\ RoundUp(n) >= n /\ RoundUp(n) % STORAGE_DEFT_SZ = 0
  BY RoundUpEven
<1>2. buf \in [1..RoundUp(n) -> Elements]
  BY DEF Elements
<1>3. buf \in Seq(Elements) /\ Len(buf) = RoundUp(n)
  BY <1>1, <1>2, Buffer
<1>4. Blank(dt, n, z) = [dt |-> dt, size |-> n, mem |-> buf]
  BY DEF Blank
<1>5. Sound(Blank(dt, n, z))
  <2> HIDE DEF buf
  <2> QED BY <1>1, <1>3, <1>4 DEF Sound, Objects
<1>6. z => ZeroTail(Blank(dt, n, z))
  BY <1>1, <1>3, <1>4 DEF ZeroTail
<1> QED
  BY <1>5, <1>6

\* from_vector makes a sound object with a zero tail of any vector.
LEMMA FromVectorSound ==
  ASSUME NEW dt \in DTypes, NEW v \in Seq(Elements)
  PROVE  Sound(FromVector(dt, v)) /\ ZeroTail(FromVector(dt, v))
<1> DEFINE n   == Len(v)
           buf == [k \in 1..RoundUp(n) |-> IF k <= n THEN CastTo(dt, v[k]) ELSE 0]
<1>0. n \in Nat
  OBVIOUS
<1>1. RoundUp(n) \in Nat /\ RoundUp(n) >= n /\ RoundUp(n) % STORAGE_DEFT_SZ = 0
  BY <1>0, RoundUpEven
<1>2. \A k \in 1..n : CastTo(dt, v[k]) \in Elements
  BY CastToElement
<1>3. buf \in [1..RoundUp(n) -> Elements]
  BY <1>0, <1>1, <1>2 DEF Elements
<1>4. buf \in Seq(Elements) /\ Len(buf) = RoundUp(n)
  BY <1>1, <1>3, Buffer
<1>5. FromVector(dt, v) = [dt |-> dt, size |-> n, mem |-> buf]
  BY DEF FromVector
<1>6. Sound(FromVector(dt, v))
  <2> HIDE DEF buf, n
  <2> QED BY <1>0, <1>1, <1>4, <1>5 DEF Sound, Objects
<1>7. ZeroTail(FromVector(dt, v))
  <2>1. \A k \in n + 1..RoundUp(n) : buf[k] = 0
    BY <1>0, <1>1
  <2> HIDE DEF buf, n
  <2> QED BY <1>4, <1>5, <2>1 DEF ZeroTail
<1> QED
  BY <1>6, <1>7

\* astype's new object holds the elements cast and a zero tail.
LEMMA CastedSound ==
  ASSUME NEW dt \in DTypes, NEW s, Sound(s)
  PROVE  Sound(Casted(s, dt)) /\ ZeroTail(Casted(s, dt))
<1> DEFINE n   == s.size
           buf == [k \in 1..RoundUp(n) |-> IF k <= n THEN CastTo(dt, s.mem[k]) ELSE 0]
<1>0. n \in Nat /\ s.mem \in Seq(Elements) /\ n <= Len(s.mem)
  BY DEF Sound, Objects
<1>1. RoundUp(n) \in Nat /\ RoundUp(n) >= n /\ RoundUp(n) % STORAGE_DEFT_SZ = 0
  BY <1>0, RoundUpEven
<1>2. \A k \in 1..n : CastTo(dt, s.mem[k]) \in Elements
  BY <1>0, CastToElement
<1>3. buf \in [1..RoundUp(n) -> Elements]
  BY <1>0, <1>1, <1>2 DEF Elements
<1>4. buf \in Seq(Elements) /\ Len(buf) = RoundUp(n)
  BY <1>1, <1>3, Buffer
<1>5. Casted(s, dt) = [dt |-> dt, size |-> n, mem |-> buf]
  BY DEF Casted
<1>6. Sound(Casted(s, dt))
  <2> HIDE DEF buf, n
  <2> QED BY <1>0, <1>1, <1>4, <1>5 DEF Sound, Objects
<1>7. ZeroTail(Casted(s, dt))
  <2>1. \A k \in n + 1..RoundUp(n) : buf[k] = 0
    BY <1>0, <1>1
  <2> HIDE DEF buf, n
  <2> QED BY <1>4, <1>5, <2>1 DEF ZeroTail
<1> QED
  BY <1>6, <1>7

\* A clone is sound and has a zero tail, whatever the tail of the original.
LEMMA ClonedSound ==
  ASSUME NEW s, Sound(s)
  PROVE  Sound(Cloned(s)) /\ ZeroTail(Cloned(s))
<1> DEFINE n   == s.size
           buf == [k \in 1..RoundUp(n) |-> IF k <= n THEN s.mem[k] ELSE 0]
<1>0. /\ n \in Nat /\ s.mem \in Seq(Elements) /\ n <= Len(s.mem) /\ s.dt \in DTypes
      /\ s = [dt |-> s.dt, size |-> s.size, mem |-> s.mem]
  BY DEF Sound, Objects
<1>1. RoundUp(n) \in Nat /\ RoundUp(n) >= n /\ RoundUp(n) % STORAGE_DEFT_SZ = 0
  BY <1>0, RoundUpEven
<1>3. buf \in [1..RoundUp(n) -> Elements]
  BY <1>0, <1>1 DEF Elements
<1>4. buf \in Seq(Elements) /\ Len(buf) = RoundUp(n)
  BY <1>1, <1>3, Buffer
<1>5. Cloned(s) = [dt |-> s.dt, size |-> n, mem |-> buf]
  <2>1. Cloned(s) = [s EXCEPT !.mem = buf]
    BY DEF Cloned
  <2> HIDE DEF buf
  <2> QED BY <2>1, SetMem DEF Sound
<1>6. Sound(Cloned(s))
  <2> HIDE DEF buf, n
  <2> QED BY <1>0, <1>1, <1>4, <1>5 DEF Sound, Objects
<1>7. ZeroTail(Cloned(s))
  <2>1. \A k \in n + 1..RoundUp(n) : buf[k] = 0
    BY <1>0, <1>1
  <2> HIDE DEF buf, n
  <2> QED BY <1>4, <1>5, <2>1 DEF ZeroTail
<1> QED
  BY <1>6, <1>7

\* resize keeps an object sound; growing keeps its tail zero.
LEMMA ResizedSound ==
  ASSUME NEW s, Sound(s), NEW m \in Nat
  PROVE  /\ Sound(Resized(s, m))
         /\ Resized(s, m).size = m
         /\ ZeroTail(s) /\ m >= s.size => ZeroTail(Resized(s, m))
<1> DEFINE n   == s.size
           buf == [k \in 1..RoundUp(m) |-> IF k <= n THEN s.mem[k] ELSE 0]
<1>0. /\ n \in Nat /\ s.mem \in Seq(Elements) /\ n <= Len(s.mem) /\ s.dt \in DTypes
      /\ Len(s.mem) % STORAGE_DEFT_SZ = 0
      /\ s = [dt |-> s.dt, size |-> s.size, mem |-> s.mem]
  BY DEF Sound, Objects
<1>1. RoundUp(m) \in Nat /\ RoundUp(m) >= m /\ RoundUp(m) % STORAGE_DEFT_SZ = 0
  BY RoundUpEven
<1>2. CASE m > Len(s.mem)
  <2>1. buf \in [1..RoundUp(m) -> Elements]
    BY <1>0, <1>1 DEF Elements
  <2>2. buf \in Seq(Elements) /\ Len(buf) = RoundUp(m)
    BY <1>1, <2>1, Buffer
  <2>3. Resized(s, m) = [dt |-> s.dt, size |-> m, mem |-> buf]
    BY <1>2 DEF Resized, Capacity, Sound, Objects
  <2>4. \A k \in m + 1..RoundUp(m) : buf[k] = 0
    BY <1>0, <1>1, <1>2
  <2> HIDE DEF buf, n
  <2> QED BY <1>0, <1>1, <2>2, <2>3, <2>4 DEF Sound, Objects, ZeroTail
<1>3. CASE m <= Len(s.mem)
  <2>1. Resized(s, m) = [dt |-> s.dt, size |-> m, mem |-> s.mem]
    BY <1>0, <1>3 DEF Resized, Capacity, Sound, Objects
  <2>2. Sound(Resized(s, m)) /\ Resized(s, m).size = m
    BY <1>0, <1>3, <2>1 DEF Sound, Objects
  <2>3. ASSUME ZeroTail(s), m >= s.size
        PROVE  ZeroTail(Resized(s, m))
    BY <1>0, <2>1, <2>3 DEF ZeroTail
  <2> QED BY <2>2, <2>3
<1> QED
  BY <1>0, <1>2, <1>3

\* A write to a buffer keeps it a buffer of its length.
LEMMA WriteBuffer ==
  ASSUME NEW mem \in Seq(Elements), NEW k \in Nat, NEW v \in Elements
  PROVE  /\ Write(mem, k, v) \in Seq(Elements)
         /\ Len(Write(mem, k, v)) = Len(mem)
         /\ \A j \in 1..Len(mem) : j # k => Write(mem, k, v)[j] = mem[j]
<1>1. Len(mem) \in Nat
  OBVIOUS
<1>2. Write(mem, k, v) \in [1..Len(mem) -> Elements]
  BY DEF Write
<1>3. Write(mem, k, v) \in Seq(Elements) /\ Len(Write(mem, k, v)) = Len(mem)
  BY <1>1, <1>2, Buffer
<1>4. \A j \in 1..Len(mem) : j # k => Write(mem, k, v)[j] = mem[j]
  BY DEF Write
<1> QED
  BY <1>3, <1>4

\* A write of an element below size keeps the object sound and its tail.
LEMMA WriteSound ==
  ASSUME NEW s, Sound(s), NEW k \in 1..s.size, NEW v \in Elements
  PROVE  LET t == [s EXCEPT !.mem = Write(@, k, v)]
         IN Sound(t) /\ (ZeroTail(s) => ZeroTail(t))
<1>0. /\ s.size \in Nat /\ s.mem \in Seq(Elements) /\ s.size <= Len(s.mem)
      /\ s.dt \in DTypes /\ Len(s.mem) % STORAGE_DEFT_SZ = 0
      /\ s = [dt |-> s.dt, size |-> s.size, mem |-> s.mem]
  BY DEF Sound, Objects
<1> DEFINE t == [s EXCEPT !.mem = Write(@, k, v)]
<1>1. t = [dt |-> s.dt, size |-> s.size, mem |-> Write(s.mem, k, v)]
  BY DEF Sound, Objects
<1>2. /\ Write(s.mem, k, v) \in Seq(Elements)
      /\ Len(Write(s.mem, k, v)) = Len(s.mem)
      /\ \A j \in 1..Len(s.mem) : j # k => Write(s.mem, k, v)[j] = s.mem[j]
  <2>1. k \in Nat
    BY <1>0
  <2> QED BY <1>0, <2>1, WriteBuffer
<1>3. Sound(t)
  BY <1>0, <1>1, <1>2 DEF Sound, Objects
<1>4. ZeroTail(s) => ZeroTail(t)
  BY <1>0, <1>1, <1>2 DEF ZeroTail
<1> QED
  BY <1>3, <1>4

\* append keeps an object sound and its tail zero.
LEMMA AppendedSound ==
  ASSUME NEW s, Sound(s), NEW v \in Elements
  PROVE  Sound(Appended(s, v)) /\ (ZeroTail(s) => ZeroTail(Appended(s, v)))
<1>0. /\ s.size \in Nat /\ s.mem \in Seq(Elements) /\ s.size <= Len(s.mem)
      /\ s.dt \in DTypes
      /\ s = [dt |-> s.dt, size |-> s.size, mem |-> s.mem]
  BY DEF Sound, Objects
<1> DEFINE grown == IF s.size = Capacity(s)
                    THEN Resized(s, s.size + 1)
                    ELSE [s EXCEPT !.size = @ + 1]
<1>1. /\ Sound(grown) /\ grown.size = s.size + 1
      /\ ZeroTail(s) => ZeroTail(grown)
  <2>1. CASE s.size = Capacity(s)
    <3>1. s.size + 1 \in Nat /\ s.size + 1 >= s.size
      BY <1>0
    <3>2. grown = Resized(s, s.size + 1)
      BY <2>1
    <3> QED BY <3>1, <3>2, ResizedSound
  <2>2. CASE s.size # Capacity(s)
    <3>1. grown = [dt |-> s.dt, size |-> s.size + 1, mem |-> s.mem]
      BY <2>2 DEF Sound, Objects
    <3>2. s.size + 1 <= Len(s.mem)
      BY <1>0, <2>2 DEF Capacity
    <3> QED BY <1>0, <3>1, <3>2 DEF Sound, Objects, ZeroTail
  <2> QED BY <2>1, <2>2
<1>2. grown.size \in 1..grown.size
  BY <1>0, <1>1
<1>3. CastTo(s.dt, v) \in Elements
  BY CastToElement
<1>4. Appended(s, v) = [grown EXCEPT !.mem = Write(@, grown.size, CastTo(s.dt, v))]
  BY DEF Appended
<1> HIDE DEF grown
<1> QED
  BY <1>1, <1>2, <1>3, <1>4, WriteSound

\* fill keeps an object sound and its tail.
LEMMA FilledSound ==
  ASSUME NEW s, Sound(s), NEW v \in Elements
  PROVE  Sound(Filled(s, v)) /\ (ZeroTail(s) => ZeroTail(Filled(s, v)))
<1>0. /\ s.size \in Nat /\ s.mem \in Seq(Elements) /\ s.size <= Len(s.mem)
      /\ s.dt \in DTypes /\ Len(s.mem) % STORAGE_DEFT_SZ = 0
      /\ s = [dt |-> s.dt, size |-> s.size, mem |-> s.mem]
      /\ Len(s.mem) \in Nat
  BY DEF Sound, Objects
<1> DEFINE buf == [k \in 1..Len(s.mem) |->
                     IF k <= s.size THEN CastTo(s.dt, v) ELSE s.mem[k]]
<1>1. CastTo(s.dt, v) \in Elements
  BY CastToElement
<1>2. buf \in [1..Len(s.mem) -> Elements]
  BY <1>0, <1>1
<1>3. buf \in Seq(Elements) /\ Len(buf) = Len(s.mem)
  BY <1>0, <1>2, Buffer
<1>4. Filled(s, v) = [dt |-> s.dt, size |-> s.size, mem |-> buf]
  <2>1. Filled(s, v) = [s EXCEPT !.mem = buf]
    BY DEF Filled
  <2> HIDE DEF buf
  <2> QED BY <2>1, SetMem DEF Sound
<1>5. \A k \in s.size + 1..Len(s.mem) : buf[k] = s.mem[k]
  BY <1>0
<1> HIDE DEF buf
<1> QED
  BY <1>0, <1>3, <1>4, <1>5 DEF Sound, Objects, ZeroTail

-----------------------------------------------------------------------------
(* The state machine.                                                      *)

HeapOK ==
  /\ ref \in [Handles -> Ids \cup {Void}]
  /\ DOMAIN heap = Ids
  /\ \A i \in Live(ref) : Sound(heap[i])
  /\ \A i \in Ids \ Live(ref) : heap[i] = None

FileOK ==
  /\ DOMAIN file = Files
  /\ \A f \in Files :
       file[f] = None \/ file[f] \in [kind  : {"cyst", "binary"},
                                      dt    : DTypes,
                                      elems : Seq(Elements)]

\* The inductive invariant: an object's type alone is not kept by append,
\* which writes where size says; that size stays inside the buffer is.
IInv == HeapOK /\ FileOK

\* Handles that are not Void refer to sound objects.
LEMMA ObjSound ==
  ASSUME HeapOK, NEW h \in Handles, ref[h] # Void
  PROVE  ref[h] \in Ids /\ ref[h] \in Live(ref) /\ Sound(Obj(h))
BY DEF HeapOK, Live, Obj

\* A commit of sound objects yields a heap that is in order.
LEMMA CommitHeap ==
  ASSUME NEW r \in [Handles -> Ids \cup {Void}], NEW hp, Commit(r, hp),
         \A i \in Live(r) : Sound(hp[i]), StorageAssumption
  PROVE  HeapOK'
<1>1. ref' = r /\ heap' = [i \in Ids |-> IF i \in Live(r) THEN hp[i] ELSE None]
  BY DEF Commit
<1>2. Live(ref') = Live(r) /\ Live(r) \subseteq Ids
  BY <1>1 DEF Live
<1> QED
  BY <1>1, <1>2 DEF HeapOK

\* Binding a handle to a sound object keeps the heap in order.
LEMMA BindHeap ==
  ASSUME HeapOK, NEW h \in Handles, NEW s, Sound(s), Bind(h, s), StorageAssumption
  PROVE  HeapOK'
<1>1. PICK i \in Ids \ Live(ref) :
        Commit([ref EXCEPT ![h] = i], [heap EXCEPT ![i] = s])
  BY DEF Bind
<1> DEFINE r  == [ref EXCEPT ![h] = i]
           hp == [heap EXCEPT ![i] = s]
<1>2. r \in [Handles -> Ids \cup {Void}]
  BY DEF HeapOK
<1>3. \A j \in Live(r) : j = i \/ j \in Live(ref)
  BY DEF Live, HeapOK
<1>4. \A j \in Live(r) : Sound(hp[j])
  BY <1>3 DEF HeapOK, Live
<1> HIDE DEF r, hp
<1> QED
  BY <1>1, <1>2, <1>4, CommitHeap DEF r, hp

\* So does a change of a live object that leaves it sound.
LEMMA UpdateHeap ==
  ASSUME HeapOK, NEW h \in Handles, ref[h] # Void, NEW s, Sound(s), Update(h, s),
         StorageAssumption
  PROVE  HeapOK'
<1> DEFINE hp == [heap EXCEPT ![ref[h]] = s]
<1>1. ref \in [Handles -> Ids \cup {Void}] /\ Commit(ref, hp)
  BY DEF HeapOK, Update
<1>2. \A j \in Live(ref) : Sound(hp[j])
  BY ObjSound DEF HeapOK, Live
<1> HIDE DEF hp
<1> QED
  BY <1>1, <1>2, CommitHeap

\* And one more reference to a live object.
LEMMA ShareHeap ==
  ASSUME HeapOK, NEW h \in Handles, NEW g \in Handles, ref[g] # Void,
         Commit([ref EXCEPT ![h] = ref[g]], heap), StorageAssumption
  PROVE  HeapOK'
<1> DEFINE r == [ref EXCEPT ![h] = ref[g]]
<1>1. r \in [Handles -> Ids \cup {Void}]
  BY DEF HeapOK
<1>2. Live(r) \subseteq Live(ref)
  BY DEF Live, HeapOK
<1>3. \A j \in Live(r) : Sound(heap[j])
  BY <1>2 DEF HeapOK
<1> HIDE DEF r
<1> QED
  BY <1>1, <1>3, CommitHeap DEF r

\* What a user passes is an element.
LEMMA UserValues ==
  ASSUME StorageAssumption
  PROVE  /\ Sizes \subseteq Nat
         /\ \A v \in Values : v \in Elements
         /\ Vectors \subseteq Seq(Elements)
<1>1. Sizes \subseteq Nat
  BY DEF StorageAssumption, Sizes
<1>2. \A v \in Values : v \in Elements
  BY DEF StorageAssumption, Elements
<1>3. ASSUME NEW n \in Sizes
      PROVE  [k \in 1..n |-> 2] \in Seq(Elements)
  <2>1. [k \in 1..n |-> 2] \in [1..n -> Elements]
    BY DEF Elements
  <2> QED BY <1>1, <2>1, Buffer
<1> QED
  BY <1>1, <1>2, <1>3 DEF Vectors

\* The elements of a sound object form a sequence.
LEMMA ElemsSeq ==
  ASSUME NEW s, Sound(s)
  PROVE  Elems(s) \in Seq(Elements)
<1>1. s.mem \in Seq(Elements) /\ s.size \in Nat /\ s.size <= Len(s.mem)
  BY DEF Sound, Objects
<1>2. \A k \in 1..s.size : s.mem[k] \in Elements
  BY <1>1
<1> QED
  BY <1>1, <1>2 DEF Elems

LEMMA InitInv == StorageAssumption /\ Init => IInv
BY DEF Init, IInv, HeapOK, FileOK, StorageAssumption, Live

\* Every step keeps the invariant.
LEMMA NextInv ==
  ASSUME StorageAssumption, IInv, [Next]_vars
  PROVE  IInv'
<1> USE DEF IInv
<1>0. /\ Sizes \subseteq Nat
      /\ \A v \in Values : v \in Elements
      /\ Vectors \subseteq Seq(Elements)
  BY UserValues
<1>1. ASSUME NEW h \in Handles, NEW dt \in DTypes, NEW n \in Sizes, NEW z \in BOOLEAN,
             Construct(h, dt, n, z)
      PROVE  IInv'
  <2>1. Sound(Blank(dt, n, z))
    BY <1>0, BlankSound
  <2>2. HeapOK'
    BY <1>1, <2>1, BindHeap DEF Construct
  <2> QED BY <1>1, <2>2 DEF Construct, FileOK
<1>2. ASSUME NEW h \in Handles, NEW dt \in DTypes, NEW v \in Vectors,
             Vector(h, dt, v)
      PROVE  IInv'
  <2>1. Sound(FromVector(dt, v))
    BY <1>0, FromVectorSound
  <2>2. HeapOK'
    BY <1>2, <2>1, BindHeap DEF Vector
  <2> QED BY <1>2, <2>2 DEF Vector, FileOK
<1>3. ASSUME NEW h \in Handles, NEW g \in Handles, Assign(h, g)
      PROVE  IInv'
  <2>1. HeapOK'
    BY <1>3, ShareHeap DEF Assign
  <2> QED BY <1>3, <2>1 DEF Assign, FileOK
<1>4. ASSUME NEW h \in Handles, NEW g \in Handles, Clone(h, g)
      PROVE  IInv'
  <2>1. Sound(Cloned(Obj(g)))
    BY <1>4, ObjSound, ClonedSound DEF Clone
  <2>2. HeapOK'
    BY <1>4, <2>1, BindHeap DEF Clone
  <2> QED BY <1>4, <2>2 DEF Clone, FileOK
<1>5. ASSUME NEW h \in Handles, NEW g \in Handles, NEW dt \in DTypes,
             Astype(h, g, dt)
      PROVE  IInv'
  <2>1. CASE dt = Obj(g).dt
    BY <1>5, <2>1, ShareHeap DEF Astype, FileOK
  <2>2. CASE dt # Obj(g).dt
    <3>1. Sound(Casted(Obj(g), dt))
      BY <1>5, ObjSound, CastedSound DEF Astype
    <3>2. HeapOK'
      BY <1>5, <2>2, <3>1, BindHeap DEF Astype
    <3> QED BY <1>5, <3>2 DEF Astype, FileOK
  <2> QED BY <2>1, <2>2
<1>6. ASSUME NEW h \in Handles, NEW n \in Sizes, Resize(h, n)
      PROVE  IInv'
  <2>1. Sound(Resized(Obj(h), n))
    BY <1>0, <1>6, ObjSound, ResizedSound DEF Resize
  <2>2. HeapOK'
    BY <1>6, <2>1, UpdateHeap DEF Resize
  <2> QED BY <1>6, <2>2 DEF Resize, FileOK
<1>7. ASSUME NEW h \in Handles, NEW v \in Values, AppendValue(h, v)
      PROVE  IInv'
  <2>1. Sound(Appended(Obj(h), v))
    BY <1>0, <1>7, ObjSound, AppendedSound DEF AppendValue
  <2>2. HeapOK'
    BY <1>7, <2>1, UpdateHeap DEF AppendValue
  <2> QED BY <1>7, <2>2 DEF AppendValue, FileOK
<1>8. ASSUME NEW h \in Handles, NEW v \in Values, Fill(h, v)
      PROVE  IInv'
  <2>1. Sound(Filled(Obj(h), v))
    BY <1>0, <1>8, ObjSound, FilledSound DEF Fill
  <2>2. HeapOK'
    BY <1>8, <2>1, UpdateHeap DEF Fill
  <2> QED BY <1>8, <2>2 DEF Fill, FileOK
<1>9. ASSUME NEW h \in Handles, NEW k \in Sizes, NEW v \in Values, SetItem(h, k, v)
      PROVE  IInv'
  <2>1. Sound(ItemSet(Obj(h), k, v))
    <3>1. Sound(Obj(h)) /\ k + 1 \in 1..Obj(h).size
      BY <1>0, <1>9, ObjSound DEF SetItem, Sound, Objects
    <3>2. CastTo(Obj(h).dt, v) \in Elements
      BY <1>0, CastToElement
    <3> QED BY <3>1, <3>2, WriteSound DEF ItemSet
  <2>2. HeapOK'
    BY <1>9, <2>1, UpdateHeap DEF SetItem
  <2> QED BY <1>9, <2>2 DEF SetItem, FileOK
<1>10. ASSUME NEW h \in Handles, NEW f \in Files, Save(h, f) \/ Tofile(h, f)
       PROVE  IInv'
  <2>1. Sound(Obj(h)) /\ Elems(Obj(h)) \in Seq(Elements) /\ Obj(h).dt \in DTypes
    BY <1>10, ObjSound, ElemsSeq DEF Save, Tofile, Sound, Objects
  <2>2. FileOK'
    BY <1>10, <2>1 DEF Save, Tofile, FileOK
  <2> QED BY <1>10, <2>2 DEF Save, Tofile, HeapOK, Live
<1>11. ASSUME NEW h \in Handles, NEW f \in Files, Load(h, f)
       PROVE  IInv'
  <2>1. Sound(FromVector(file[f].dt, file[f].elems))
    BY <1>11, FromVectorSound DEF Load, FileOK
  <2>2. HeapOK'
    BY <1>11, <2>1, BindHeap DEF Load
  <2> QED BY <1>11, <2>2 DEF Load, FileOK
<1>12. ASSUME NEW h \in Handles, NEW f \in Files, NEW count \in Sizes \cup {-1},
              Fromfile(h, f, count)
       PROVE  IInv'
  <2> DEFINE inFile == Len(file[f].elems)
             nelem  == IF count < 0 THEN inFile ELSE count
             read   == [k \in 1..nelem |-> IF k <= inFile THEN file[f].elems[k] ELSE 0]
  <2>1. file[f].elems \in Seq(Elements) /\ file[f].dt \in DTypes
    BY <1>12 DEF Fromfile, FileOK
  <2>2. nelem \in Nat /\ inFile \in Nat
    BY <1>0, <2>1
  <2>3. read \in [1..nelem -> Elements]
    BY <2>1, <2>2 DEF Elements
  <2>4. read \in Seq(Elements)
    <3> HIDE DEF read, nelem
    <3> QED BY <2>2, <2>3, Buffer
  <2>5. Sound(FromVector(file[f].dt, read))
    <3> HIDE DEF read
    <3> QED BY <2>1, <2>4, FromVectorSound
  <2>6. Bind(h, FromVector(file[f].dt, read)) /\ UNCHANGED file
    BY <1>12 DEF Fromfile
  <2>7. HeapOK'
    <3> HIDE DEF read
    <3> QED BY <2>5, <2>6, BindHeap
  <2> QED BY <2>6, <2>7 DEF FileOK
<1>13. CASE UNCHANGED vars
  BY <1>13 DEF vars, HeapOK, FileOK, Live
<1> QED
  BY <1>1, <1>2, <1>3, <1>4, <1>5, <1>6, <1>7, <1>8, <1>9, <1>10, <1>11, <1>12,
     <1>13 DEF Next

\* The invariant holds of every reachable state.
LEMMA Invariance == Spec => []IInv
<1>1. Init => IInv
  BY InitInv, StorageAssumption
<1>2. IInv /\ [Next]_vars => IInv'
  BY NextInv, StorageAssumption
<1> QED
  BY <1>1, <1>2, PTL DEF Spec

\* Handles, objects and files are well-formed after any sequence of calls, and
\* an object lives exactly as long as some handle refers to it.
THEOREM TypeCorrect == Spec => []TypeOK
<1>1. IInv => TypeOK
  BY DEF IInv, HeapOK, FileOK, TypeOK, Sound
<1> QED
  BY <1>1, Invariance, PTL

\* No sequence of calls makes an object larger than its buffer or gives it a
\* buffer that _Init_byptr would refuse.
THEOREM CapacityCorrect == Spec => []CapacityOK
<1>1. IInv => CapacityOK
  BY DEF IInv, HeapOK, CapacityOK, Sound, Capacity
<1> QED
  BY <1>1, Invariance, PTL

-----------------------------------------------------------------------------
(* The zero tail.                                                          *)

TailInv == \A i \in Live(ref) : ZeroTail(heap[i])

\* A commit of objects with zero tails.
LEMMA CommitTail ==
  ASSUME NEW r \in [Handles -> Ids \cup {Void}], NEW hp, Commit(r, hp),
         \A i \in Live(r) : ZeroTail(hp[i])
  PROVE  TailInv'
<1>1. ref' = r /\ heap' = [i \in Ids |-> IF i \in Live(r) THEN hp[i] ELSE None]
  BY DEF Commit
<1>2. Live(ref') = Live(r) /\ Live(r) \subseteq Ids
  BY <1>1 DEF Live
<1>3. \A i \in Live(r) : heap'[i] = hp[i]
  BY <1>1, <1>2
<1> QED
  BY <1>2, <1>3 DEF TailInv

LEMMA BindTail ==
  ASSUME HeapOK, TailInv, NEW h \in Handles, NEW s, ZeroTail(s), Bind(h, s)
  PROVE  TailInv'
<1>1. PICK i \in Ids \ Live(ref) :
        Commit([ref EXCEPT ![h] = i], [heap EXCEPT ![i] = s])
  BY DEF Bind
<1> DEFINE r  == [ref EXCEPT ![h] = i]
           hp == [heap EXCEPT ![i] = s]
<1>2. r \in [Handles -> Ids \cup {Void}]
  BY DEF HeapOK
<1>3. \A j \in Live(r) : j = i \/ j \in Live(ref)
  BY DEF Live, HeapOK
<1>4. \A j \in Live(r) : ZeroTail(hp[j])
  <2>1. ASSUME NEW j \in Live(r)
        PROVE  ZeroTail(hp[j])
    <3>1. CASE j = i
      <4>1. hp[j] = s
        BY <3>1 DEF HeapOK
      <4> QED BY <4>1
    <3>2. CASE j # i
      <4>1. j \in Live(ref)
        BY <3>2, <1>3
      <4>2. hp[j] = heap[j]
        BY <3>2
      <4> QED BY <4>1, <4>2 DEF TailInv
    <3> QED BY <3>1, <3>2
  <2> QED BY <2>1
<1> HIDE DEF r, hp
<1> QED
  BY <1>1, <1>2, <1>4, CommitTail DEF r, hp

LEMMA UpdateTail ==
  ASSUME HeapOK, TailInv, NEW h \in Handles, ref[h] # Void, NEW s, ZeroTail(s),
         Update(h, s)
  PROVE  TailInv'
<1> DEFINE hp == [heap EXCEPT ![ref[h]] = s]
<1>1. ref \in [Handles -> Ids \cup {Void}] /\ Commit(ref, hp)
  BY DEF HeapOK, Update
<1>2. \A j \in Live(ref) : ZeroTail(hp[j])
  <2>1. ASSUME NEW j \in Live(ref)
        PROVE  ZeroTail(hp[j])
    <3>1. CASE j = ref[h]
      <4>1. hp[j] = s
        BY <3>1, ObjSound DEF HeapOK
      <4> QED BY <4>1
    <3>2. CASE j # ref[h]
      <4>1. hp[j] = heap[j]
        BY <3>2 DEF HeapOK
      <4> QED BY <4>1 DEF TailInv
    <3> QED BY <3>1, <3>2
  <2> QED BY <2>1
<1> HIDE DEF hp
<1> QED
  BY <1>1, <1>2, CommitTail

LEMMA ShareTail ==
  ASSUME HeapOK, TailInv, NEW h \in Handles, NEW g \in Handles, ref[g] # Void,
         Commit([ref EXCEPT ![h] = ref[g]], heap)
  PROVE  TailInv'
<1> DEFINE r == [ref EXCEPT ![h] = ref[g]]
<1>1. r \in [Handles -> Ids \cup {Void}]
  BY DEF HeapOK
<1>2. Live(r) \subseteq Live(ref)
  BY DEF Live, HeapOK
<1>3. \A j \in Live(r) : ZeroTail(heap[j])
  BY <1>2 DEF TailInv
<1> HIDE DEF r
<1> QED
  BY <1>1, <1>3, CommitTail DEF r

\* Without shrinking and without init_zero = false every step keeps it.
LEMMA NextTail ==
  ASSUME StorageAssumption, ~Shrink, ~RawInit, IInv, TailInv, [Next]_vars
  PROVE  TailInv'
<1>0. /\ Sizes \subseteq Nat
      /\ \A v \in Values : v \in Elements
      /\ Vectors \subseteq Seq(Elements)
      /\ HeapOK
  BY UserValues DEF IInv
<1>a. ASSUME NEW h \in Handles, ref[h] # Void
      PROVE  Sound(Obj(h)) /\ ZeroTail(Obj(h))
  BY <1>0, <1>a, ObjSound DEF TailInv, Obj
<1>1. ASSUME NEW h \in Handles, NEW dt \in DTypes, NEW n \in Sizes, NEW z \in BOOLEAN,
             Construct(h, dt, n, z)
      PROVE  TailInv'
  <2>1. ZeroTail(Blank(dt, n, z))
    BY <1>0, <1>1, BlankSound DEF Construct
  <2> QED BY <1>0, <1>1, <2>1, BindTail DEF Construct
<1>2. ASSUME NEW h \in Handles, NEW dt \in DTypes, NEW v \in Vectors,
             Vector(h, dt, v)
      PROVE  TailInv'
  <2>1. ZeroTail(FromVector(dt, v))
    BY <1>0, FromVectorSound
  <2> QED BY <1>0, <1>2, <2>1, BindTail DEF Vector
<1>3. ASSUME NEW h \in Handles, NEW g \in Handles, Assign(h, g)
      PROVE  TailInv'
  BY <1>0, <1>3, ShareTail DEF Assign
<1>4. ASSUME NEW h \in Handles, NEW g \in Handles, Clone(h, g)
      PROVE  TailInv'
  <2>1. ZeroTail(Cloned(Obj(g)))
    BY <1>4, <1>a, ClonedSound DEF Clone
  <2> QED BY <1>0, <1>4, <2>1, BindTail DEF Clone
<1>5. ASSUME NEW h \in Handles, NEW g \in Handles, NEW dt \in DTypes,
             Astype(h, g, dt)
      PROVE  TailInv'
  <2>1. CASE dt = Obj(g).dt
    BY <1>0, <1>5, <2>1, ShareTail DEF Astype
  <2>2. CASE dt # Obj(g).dt
    <3>1. ZeroTail(Casted(Obj(g), dt))
      BY <1>5, <1>a, CastedSound DEF Astype
    <3> QED BY <1>0, <1>5, <2>2, <3>1, BindTail DEF Astype
  <2> QED BY <2>1, <2>2
<1>6. ASSUME NEW h \in Handles, NEW n \in Sizes, Resize(h, n)
      PROVE  TailInv'
  <2>1. n >= Obj(h).size
    BY <1>6 DEF Resize
  <2>2. ZeroTail(Resized(Obj(h), n))
    BY <1>0, <1>6, <1>a, <2>1, ResizedSound DEF Resize
  <2> QED BY <1>0, <1>6, <2>2, UpdateTail DEF Resize
<1>7. ASSUME NEW h \in Handles, NEW v \in Values, AppendValue(h, v)
      PROVE  TailInv'
  <2>1. ZeroTail(Appended(Obj(h), v))
    BY <1>0, <1>7, <1>a, AppendedSound DEF AppendValue
  <2> QED BY <1>0, <1>7, <2>1, UpdateTail DEF AppendValue
<1>8. ASSUME NEW h \in Handles, NEW v \in Values, Fill(h, v)
      PROVE  TailInv'
  <2>1. ZeroTail(Filled(Obj(h), v))
    BY <1>0, <1>8, <1>a, FilledSound DEF Fill
  <2> QED BY <1>0, <1>8, <2>1, UpdateTail DEF Fill
<1>9. ASSUME NEW h \in Handles, NEW k \in Sizes, NEW v \in Values, SetItem(h, k, v)
      PROVE  TailInv'
  <2>1. ZeroTail(ItemSet(Obj(h), k, v))
    <3>1. Sound(Obj(h)) /\ ZeroTail(Obj(h)) /\ k + 1 \in 1..Obj(h).size
      BY <1>0, <1>9, <1>a DEF SetItem, Sound, Objects
    <3>2. CastTo(Obj(h).dt, v) \in Elements
      BY <1>0, CastToElement
    <3> QED BY <3>1, <3>2, WriteSound DEF ItemSet
  <2> QED BY <1>0, <1>9, <2>1, UpdateTail DEF SetItem
<1>10. ASSUME NEW h \in Handles, NEW f \in Files, Save(h, f) \/ Tofile(h, f)
       PROVE  TailInv'
  BY <1>10 DEF Save, Tofile, TailInv, Live
<1>11. ASSUME NEW h \in Handles, NEW f \in Files, Load(h, f)
       PROVE  TailInv'
  <2>1. ZeroTail(FromVector(file[f].dt, file[f].elems))
    BY <1>11, FromVectorSound DEF Load, IInv, FileOK
  <2> QED BY <1>0, <1>11, <2>1, BindTail DEF Load
<1>12. ASSUME NEW h \in Handles, NEW f \in Files, NEW count \in Sizes \cup {-1},
              Fromfile(h, f, count)
       PROVE  TailInv'
  <2> DEFINE inFile == Len(file[f].elems)
             nelem  == IF count < 0 THEN inFile ELSE count
             read   == [k \in 1..nelem |-> IF k <= inFile THEN file[f].elems[k] ELSE 0]
  <2>1. file[f].elems \in Seq(Elements) /\ file[f].dt \in DTypes
    BY <1>12 DEF Fromfile, IInv, FileOK
  <2>2. nelem \in Nat /\ inFile \in Nat
    BY <1>0, <2>1
  <2>3. read \in [1..nelem -> Elements]
    BY <2>1, <2>2 DEF Elements
  <2>4. read \in Seq(Elements)
    <3> HIDE DEF read, nelem
    <3> QED BY <2>2, <2>3, Buffer
  <2>5. ZeroTail(FromVector(file[f].dt, read))
    <3> HIDE DEF read
    <3> QED BY <2>1, <2>4, FromVectorSound
  <2>6. Bind(h, FromVector(file[f].dt, read))
    BY <1>12 DEF Fromfile
  <2> HIDE DEF read
  <2> QED BY <1>0, <2>5, <2>6, BindTail
<1>13. CASE UNCHANGED vars
  BY <1>13 DEF vars, TailInv, Live
<1> QED
  BY <1>1, <1>2, <1>3, <1>4, <1>5, <1>6, <1>7, <1>8, <1>9, <1>10, <1>11, <1>12,
     <1>13 DEF Next

\* The documented zeros hold for a client that never shrinks a Storage and
\* never asks for uninitialised memory: what resize exposes is then zero.
THEOREM GrowOnlyTail == ~Shrink /\ ~RawInit /\ Spec => []TailZero
<1> SUFFICES ASSUME ~Shrink, ~RawInit
             PROVE  Spec => []TailZero
  OBVIOUS
<1>1. Init => TailInv
  BY StorageAssumption DEF Init, TailInv, Live
<1>2. IInv /\ TailInv /\ [Next]_vars => TailInv'
  BY NextTail, StorageAssumption
<1>3. TailInv => TailZero
  BY DEF TailInv, TailZero, ZeroTail, Capacity
<1> QED
  BY <1>1, <1>2, <1>3, Invariance, PTL DEF Spec

-----------------------------------------------------------------------------
(* The vectors.                                                            *)

\* What the vector of an object is.
Vec(s) == [dt |-> s.dt, elems |-> Elems(s)]

\* The elements of a sound object are the first of its buffer.
LEMMA ElemsAre ==
  ASSUME NEW s, Sound(s)
  PROVE  /\ s.size \in Nat
         /\ Len(Elems(s)) = s.size
         /\ \A k \in 1..s.size : Elems(s)[k] = s.mem[k]
<1>1. s.mem \in Seq(Elements) /\ s.size \in Nat /\ s.size <= Len(s.mem)
  BY DEF Sound, Objects
<1> QED
  BY <1>1 DEF Elems

\* A clone has the dtype and the elements of the original.
LEMMA ClonedElems ==
  ASSUME NEW s, Sound(s)
  PROVE  Cloned(s).dt = s.dt /\ Elems(Cloned(s)) = Elems(s)
<1> DEFINE n   == s.size
           buf == [k \in 1..RoundUp(n) |-> IF k <= n THEN s.mem[k] ELSE 0]
<1>0. n \in Nat /\ s.mem \in Seq(Elements) /\ n <= Len(s.mem)
  BY DEF Sound, Objects
<1>1. RoundUp(n) \in Nat /\ RoundUp(n) >= n
  BY <1>0, RoundUpEven
<1>2. Cloned(s) = [dt |-> s.dt, size |-> n, mem |-> buf]
  <2>1. Cloned(s) = [s EXCEPT !.mem = buf]
    BY DEF Cloned
  <2> HIDE DEF buf
  <2> QED BY <2>1, SetMem DEF Sound
<1>3. Cloned(s).dt = s.dt /\ Cloned(s).size = n /\ Cloned(s).mem = buf
  <2> HIDE DEF buf
  <2> QED BY <1>2
<1>4. Sound(Cloned(s))
  BY ClonedSound
<1>5. \A k \in 1..n : Elems(Cloned(s))[k] = Elems(s)[k]
  <2>1. \A k \in 1..n : buf[k] = s.mem[k]
    BY <1>0, <1>1
  <2> HIDE DEF buf
  <2> QED BY <1>3, <1>4, <2>1, ElemsAre DEF n
<1>6. /\ Elems(Cloned(s)) \in Seq(Elements) /\ Elems(s) \in Seq(Elements)
      /\ Len(Elems(Cloned(s))) = n /\ Len(Elems(s)) = n
  BY <1>3, <1>4, ElemsAre, ElemsSeq
<1> QED
  BY <1>3, <1>5, <1>6

\* The cast of the promise is that of the kernels.
LEMMA AsIs ==
  ASSUME NEW dt, NEW v \in Elements
  PROVE  Loose!As(dt, v) = CastTo(dt, v)
BY StorageAssumption DEF StorageAssumption, Elements, CastTo, Loose!As

\* Sequences of one length with the same elements are one.
LEMMA SameElems ==
  ASSUME NEW a \in Seq(Elements), NEW n \in Nat, NEW f,
         Len(a) = n, f = [k \in 1..n |-> f[k]], \A k \in 1..n : a[k] = f[k]
  PROVE  a = f
<1>1. a = [k \in 1..n |-> a[k]]
  OBVIOUS
<1> QED BY <1>1

\* A new object holds zeros, or elements of any value.
LEMMA BlankElems ==
  ASSUME NEW dt \in DTypes, NEW n \in Nat, NEW z \in BOOLEAN
  PROVE  LET t == Blank(dt, n, z)
         IN  /\ t.dt = dt /\ Len(Elems(t)) = n
             /\ \A k \in 1..n : Elems(t)[k] \in Elements /\ (z => Elems(t)[k] = 0)
<1> DEFINE buf == [k \in 1..RoundUp(n) |-> IF z THEN 0 ELSE Raw]
           t   == Blank(dt, n, z)
<1>1. RoundUp(n) \in Nat /\ RoundUp(n) >= n
  BY RoundUpEven
<1>2. t = [dt |-> dt, size |-> n, mem |-> buf]
  BY DEF Blank
<1>3. t.dt = dt /\ t.size = n /\ t.mem = buf
  <2> HIDE DEF buf, t
  <2> QED BY <1>2
<1>4. \A k \in 1..n : buf[k] \in Elements /\ (z => buf[k] = 0)
  BY <1>1 DEF Elements
<1>5. Sound(t)
  BY BlankSound
<1> HIDE DEF buf, t
<1>6. Len(Elems(t)) = n /\ \A k \in 1..n : Elems(t)[k] = t.mem[k]
  BY <1>3, <1>5, ElemsAre
<1> QED BY <1>3, <1>4, <1>6 DEF t

\* from_vector holds the vector, cast.
LEMMA FromVectorElems ==
  ASSUME NEW dt \in DTypes, NEW v \in Seq(Elements)
  PROVE  Vec(FromVector(dt, v)) = Loose!Vec(dt, v)
<1> DEFINE n   == Len(v)
           buf == [k \in 1..RoundUp(n) |-> IF k <= n THEN CastTo(dt, v[k]) ELSE 0]
           t   == FromVector(dt, v)
           e   == [k \in 1..n |-> Loose!As(dt, v[k])]
<1>1. n \in Nat /\ RoundUp(n) \in Nat /\ RoundUp(n) >= n
  BY RoundUpEven
<1>2. t = [dt |-> dt, size |-> n, mem |-> buf]
  BY DEF FromVector
<1>3. t.dt = dt /\ t.size = n /\ t.mem = buf
  <2> HIDE DEF buf, t, n
  <2> QED BY <1>2
<1>4. \A k \in 1..n : buf[k] = e[k]
  <2>1. \A k \in 1..n : buf[k] = CastTo(dt, v[k])
    BY <1>1
  <2>2. \A k \in 1..n : v[k] \in Elements
    OBVIOUS
  <2> HIDE DEF buf
  <2> QED BY <2>1, <2>2, AsIs
<1>5. Sound(t)
  BY FromVectorSound
<1>6. Loose!Vec(dt, v) = [dt |-> dt, elems |-> e]
  BY DEF Loose!Vec
<1>7. e = [k \in 1..n |-> e[k]]
  OBVIOUS
<1> HIDE DEF buf, t, e, n
<1>8. Elems(t) \in Seq(Elements) /\ Len(Elems(t)) = n /\ \A k \in 1..n : Elems(t)[k] = t.mem[k]
  BY <1>3, <1>5, ElemsAre, ElemsSeq
<1>9. Elems(t) = e
  BY <1>1, <1>3, <1>4, <1>7, <1>8, SameElems
<1> QED BY <1>3, <1>6, <1>9 DEF t, Vec

\* astype casts every element.
LEMMA CastedElems ==
  ASSUME NEW dt \in DTypes, NEW s, Sound(s)
  PROVE  Vec(Casted(s, dt)) = Loose!Vec(dt, Elems(s))
<1> DEFINE n   == s.size
           buf == [k \in 1..RoundUp(n) |-> IF k <= n THEN CastTo(dt, s.mem[k]) ELSE 0]
           t   == Casted(s, dt)
           e   == [k \in 1..Len(Elems(s)) |-> Loose!As(dt, Elems(s)[k])]
<1>1. /\ n \in Nat /\ RoundUp(n) \in Nat /\ RoundUp(n) >= n
      /\ s.mem \in Seq(Elements) /\ n <= Len(s.mem)
  BY RoundUpEven DEF Sound, Objects
<1>2. t = [dt |-> dt, size |-> n, mem |-> buf]
  BY DEF Casted
<1>3. t.dt = dt /\ t.size = n /\ t.mem = buf
  <2> HIDE DEF buf, t, n
  <2> QED BY <1>2
<1>4. Len(Elems(s)) = n /\ \A k \in 1..n : Elems(s)[k] = s.mem[k] /\ s.mem[k] \in Elements
  BY <1>1, ElemsAre
<1>5. \A k \in 1..n : buf[k] = e[k]
  <2>1. \A k \in 1..n : buf[k] = CastTo(dt, s.mem[k])
    BY <1>1
  <2>2. \A k \in 1..n : e[k] = Loose!As(dt, s.mem[k])
    BY <1>4
  <2> HIDE DEF buf, e
  <2> QED BY <1>4, <2>1, <2>2, AsIs
<1>6. Sound(t)
  BY CastedSound
<1>7. Loose!Vec(dt, Elems(s)) = [dt |-> dt, elems |-> e]
  BY DEF Loose!Vec
<1>8. e = [k \in 1..n |-> e[k]]
  BY <1>4
<1> HIDE DEF buf, t, e, n
<1>9. Elems(t) \in Seq(Elements) /\ Len(Elems(t)) = n /\ \A k \in 1..n : Elems(t)[k] = t.mem[k]
  BY <1>3, <1>6, ElemsAre, ElemsSeq
<1>10. Elems(t) = e
  BY <1>1, <1>3, <1>5, <1>8, <1>9, SameElems
<1> QED BY <1>3, <1>7, <1>10 DEF t, Vec

\* resize keeps the elements there are; those it adds are zero when the memory
\* beyond the elements was.
LEMMA ResizedElems ==
  ASSUME NEW s, Sound(s), NEW m \in Nat
  PROVE  LET t == Resized(s, m)
         IN  /\ t.dt = s.dt /\ Len(Elems(t)) = m
             /\ \A k \in 1..Len(Elems(t)) :
                  /\ k <= Len(Elems(s)) => Elems(t)[k] = Elems(s)[k]
                  /\ Elems(t)[k] \in Elements
                  /\ k > Len(Elems(s)) /\ ZeroTail(s) => Elems(t)[k] = 0
<1> DEFINE n   == s.size
           t   == Resized(s, m)
           buf == [k \in 1..RoundUp(m) |-> IF k <= n THEN s.mem[k] ELSE 0]
<1>0. n \in Nat /\ s.mem \in Seq(Elements) /\ n <= Len(s.mem) /\ Len(s.mem) \in Nat
  BY DEF Sound, Objects
<1>1. RoundUp(m) \in Nat /\ RoundUp(m) >= m
  BY RoundUpEven
<1>2. Sound(t) /\ t.size = m
  BY ResizedSound
<1>3. /\ Len(Elems(t)) = m /\ Len(Elems(s)) = n
      /\ \A k \in 1..m : Elems(t)[k] = t.mem[k]
      /\ \A k \in 1..n : Elems(s)[k] = s.mem[k]
  BY <1>2, ElemsAre
<1>4. \A k \in 1..m : Elems(t)[k] \in Elements
  BY <1>2, <1>3, ElemsSeq
<1>5. CASE m > Len(s.mem)
  <2>1. t = [dt |-> s.dt, size |-> m, mem |-> buf]
    BY <1>5 DEF Resized, Capacity, Sound, Objects
  <2>2. t.dt = s.dt /\ t.mem = buf
    <3> HIDE DEF buf, t
    <3> QED BY <2>1
  <2>3. \A k \in 1..m : buf[k] = IF k <= n THEN s.mem[k] ELSE 0
    BY <1>1
  <2> HIDE DEF buf, t
  <2> QED BY <1>0, <1>3, <1>4, <2>2, <2>3 DEF t
<1>6. CASE m <= Len(s.mem)
  <2>1. t = [dt |-> s.dt, size |-> m, mem |-> s.mem]
    BY <1>0, <1>6 DEF Resized, Capacity, Sound, Objects
  <2>2. t.dt = s.dt /\ t.mem = s.mem
    <3> HIDE DEF t
    <3> QED BY <2>1
  <2> HIDE DEF t
  <2> QED BY <1>0, <1>3, <1>4, <1>6, <2>2 DEF t, ZeroTail
<1> QED
  BY <1>0, <1>5, <1>6

\* A write of one element changes no other.
LEMMA WriteElems ==
  ASSUME NEW s, Sound(s), NEW k \in 1..s.size, NEW v \in Elements
  PROVE  LET t == [s EXCEPT !.mem = Write(@, k, v)]
         IN  /\ t.dt = s.dt
             /\ Len(Elems(t)) = Len(Elems(s))
             /\ k \in 1..Len(Elems(s))
             /\ Elems(t) = [Elems(s) EXCEPT ![k] = v]
<1> DEFINE t == [s EXCEPT !.mem = Write(@, k, v)]
<1>1. /\ s.size \in Nat /\ s.mem \in Seq(Elements) /\ s.size <= Len(s.mem)
      /\ Len(s.mem) \in Nat
  BY DEF Sound, Objects
<1>2. t = [dt |-> s.dt, size |-> s.size, mem |-> Write(s.mem, k, v)]
  BY DEF Sound, Objects
<1>3. t.dt = s.dt /\ t.size = s.size /\ t.mem = Write(s.mem, k, v)
  <2> HIDE DEF t
  <2> QED BY <1>2
<1>4. Sound(t)
  BY WriteSound
<1> HIDE DEF t
<1>5. \A j \in 1..s.size : t.mem[j] = IF j = k THEN v ELSE s.mem[j]
  <2>1. \A j \in 1..Len(s.mem) : Write(s.mem, k, v)[j] = IF j = k THEN v ELSE s.mem[j]
    BY DEF Write
  <2> QED BY <1>1, <1>3, <2>1
<1>6. /\ Len(Elems(t)) = s.size /\ Len(Elems(s)) = s.size
      /\ \A j \in 1..s.size : Elems(t)[j] = t.mem[j] /\ Elems(s)[j] = s.mem[j]
  <2>1. \A u : Sound(u) => /\ Len(Elems(u)) = u.size
                          /\ \A j \in 1..u.size : Elems(u)[j] = u.mem[j]
    BY ElemsAre
  <2> QED BY <1>3, <1>4, <2>1
<1>7. Elems(t) \in Seq(Elements) /\ Elems(s) \in Seq(Elements)
  BY <1>4, ElemsSeq
<1>8. Elems(t) = [Elems(s) EXCEPT ![k] = v]
  <2> DEFINE f == [Elems(s) EXCEPT ![k] = v]
  <2>1. f = [j \in 1..s.size |-> IF j = k THEN v ELSE Elems(s)[j]]
    BY <1>6, <1>7
  <2>2. f = [j \in 1..s.size |-> f[j]] /\ \A j \in 1..s.size : Elems(t)[j] = f[j]
    BY <1>5, <1>6, <2>1
  <2> HIDE DEF f
  <2>3. Elems(t) \in Seq(Elements) /\ s.size \in Nat /\ Len(Elems(t)) = s.size
    BY <1>1, <1>6, <1>7
  <2>4. Elems(t) = f
    BY <2>2, <2>3, SameElems
  <2> QED BY <2>4 DEF f
<1> QED
  BY <1>3, <1>6, <1>8 DEF t

\* append adds one element and changes no other.
LEMMA AppendedElems ==
  ASSUME NEW s, Sound(s), NEW v \in Elements
  PROVE  LET t == Appended(s, v)
         IN  /\ t.dt = s.dt
             /\ Elems(t) = Append(Elems(s), CastTo(s.dt, v))
<1> DEFINE grown == IF s.size = Capacity(s)
                    THEN Resized(s, s.size + 1)
                    ELSE [s EXCEPT !.size = @ + 1]
<1>0. s.size \in Nat /\ s.mem \in Seq(Elements) /\ s.size <= Len(s.mem)
  BY DEF Sound, Objects
<1>1. /\ Sound(grown) /\ grown.size = s.size + 1 /\ grown.dt = s.dt
      /\ \A k \in 1..s.size : Elems(grown)[k] = Elems(s)[k]
  <2>1. CASE s.size = Capacity(s)
    <3>1. s.size + 1 \in Nat
      BY <1>0
    <3>2. grown = Resized(s, s.size + 1)
      BY <2>1
    <3>3. Sound(grown) /\ grown.size = s.size + 1
      BY <3>1, <3>2, ResizedSound
    <3>4. Len(Elems(grown)) = s.size + 1 /\ Len(Elems(s)) = s.size
      BY <3>3, ElemsAre
    <3>5. /\ grown.dt = s.dt
          /\ \A k \in 1..Len(Elems(grown)) : k <= Len(Elems(s)) => Elems(grown)[k] = Elems(s)[k]
      <4> DEFINE m == s.size + 1
      <4>1. m \in Nat
        BY <1>0
      <4> HIDE DEF m
      <4>2. /\ Resized(s, m).dt = s.dt
            /\ \A k \in 1..Len(Elems(Resized(s, m))) :
                 k <= Len(Elems(s)) => Elems(Resized(s, m))[k] = Elems(s)[k]
        BY <4>1, ResizedElems
      <4> QED BY <3>2, <4>2 DEF m
    <3> HIDE DEF grown
    <3> QED BY <1>0, <3>3, <3>4, <3>5
  <2>2. CASE s.size # Capacity(s)
    <3>1. grown = [dt |-> s.dt, size |-> s.size + 1, mem |-> s.mem]
      BY <2>2 DEF Sound, Objects
    <3>2. s.size + 1 <= Len(s.mem)
      BY <1>0, <2>2 DEF Capacity
    <3>3. Sound(grown)
      BY <1>0, <3>1, <3>2 DEF Sound, Objects
    <3>4. grown.size = s.size + 1 /\ grown.dt = s.dt /\ grown.mem = s.mem
      <4> HIDE DEF grown
      <4> QED BY <3>1
    <3> HIDE DEF grown
    <3>5. \A k \in 1..s.size + 1 : Elems(grown)[k] = s.mem[k]
      BY <3>3, <3>4, ElemsAre
    <3>6. \A k \in 1..s.size : Elems(s)[k] = s.mem[k]
      BY ElemsAre
    <3> QED BY <1>0, <3>3, <3>4, <3>5, <3>6
  <2> QED BY <2>1, <2>2
<1>2. grown.size \in 1..grown.size /\ CastTo(s.dt, v) \in Elements
  BY <1>0, <1>1, CastToElement
<1>3. Appended(s, v) = [grown EXCEPT !.mem = Write(@, grown.size, CastTo(s.dt, v))]
  BY DEF Appended
<1>4. Len(Elems(grown)) = s.size + 1 /\ Len(Elems(s)) = s.size
  BY <1>1, ElemsAre
<1> HIDE DEF grown
<1>5. /\ Appended(s, v).dt = grown.dt
      /\ Elems(Appended(s, v)) = [Elems(grown) EXCEPT ![grown.size] = CastTo(s.dt, v)]
  BY <1>1, <1>2, <1>3, WriteElems
<1>6. Elems(grown) \in Seq(Elements) /\ Elems(s) \in Seq(Elements)
  BY <1>1, ElemsSeq
<1> DEFINE a == Append(Elems(s), CastTo(s.dt, v))
           e == [Elems(grown) EXCEPT ![grown.size] = CastTo(s.dt, v)]
<1>7. /\ a = [k \in 1..s.size + 1 |-> a[k]]
      /\ \A k \in 1..s.size + 1 : a[k] = IF k = s.size + 1 THEN CastTo(s.dt, v) ELSE Elems(s)[k]
  BY <1>0, <1>2, <1>4, <1>6
<1>8. /\ e \in Seq(Elements) /\ Len(e) = s.size + 1
      /\ \A k \in 1..s.size + 1 : e[k] = IF k = s.size + 1 THEN CastTo(s.dt, v) ELSE Elems(s)[k]
  BY <1>0, <1>1, <1>2, <1>4, <1>6
<1>9. e = a
  <2> DEFINE n == s.size + 1
  <2>1. n \in Nat /\ e \in Seq(Elements) /\ Len(e) = n /\ a = [k \in 1..n |-> a[k]]
    BY <1>0, <1>7, <1>8
  <2>2. \A k \in 1..n : e[k] = a[k]
    BY <1>7, <1>8
  <2> HIDE DEF a, e, n
  <2> QED BY <2>1, <2>2, SameElems
<1> QED
  BY <1>1, <1>5, <1>9

\* fill makes all elements alike.
LEMMA FilledElems ==
  ASSUME NEW s, Sound(s), NEW v \in Elements
  PROVE  LET t == Filled(s, v)
         IN  /\ t.dt = s.dt
             /\ Elems(t) = [k \in 1..Len(Elems(s)) |-> CastTo(s.dt, v)]
<1> DEFINE buf == [k \in 1..Len(s.mem) |->
                     IF k <= s.size THEN CastTo(s.dt, v) ELSE s.mem[k]]
           t   == Filled(s, v)
<1>0. /\ s.size \in Nat /\ s.mem \in Seq(Elements) /\ s.size <= Len(s.mem)
      /\ Len(s.mem) \in Nat
  BY DEF Sound, Objects
<1>1. t = [dt |-> s.dt, size |-> s.size, mem |-> buf]
  <2>1. t = [s EXCEPT !.mem = buf]
    BY DEF Filled
  <2>2. s \in Objects
    BY DEF Sound
  <2> HIDE DEF buf, t
  <2> QED BY <2>1, <2>2, SetMem
<1>2. t.dt = s.dt /\ t.size = s.size /\ t.mem = buf
  <2> HIDE DEF buf, t
  <2> QED BY <1>1
<1>3. \A j \in 1..s.size : buf[j] = CastTo(s.dt, v)
  BY <1>0
<1>4. Sound(t)
  BY FilledSound
<1> HIDE DEF buf, t
<1>5. /\ Len(Elems(t)) = s.size /\ Len(Elems(s)) = s.size
      /\ \A j \in 1..s.size : Elems(t)[j] = t.mem[j]
  BY <1>2, <1>4, ElemsAre
<1>6. \A j \in 1..Len(Elems(t)) : Elems(t)[j] = CastTo(s.dt, v)
  BY <1>2, <1>3, <1>5
<1>7. Elems(t) \in Seq(Elements)
  BY <1>4, ElemsSeq
<1>8. Elems(t) = [k \in 1..Len(Elems(s)) |-> CastTo(s.dt, v)]
  BY <1>5, <1>6, <1>7
<1> QED
  BY <1>2, <1>8 DEF t

-----------------------------------------------------------------------------
(* Refinement.                                                             *)

\* The vectors after a commit.
LEMMA CommitContents ==
  ASSUME NEW r \in [Handles -> Ids \cup {Void}], NEW hp, Commit(r, hp)
  PROVE  ref' = r /\ \A i \in Live(r) : Contents'[i] = Vec(hp[i])
<1>1. ref' = r /\ heap' = [i \in Ids |-> IF i \in Live(r) THEN hp[i] ELSE None]
  BY DEF Commit
<1>2. Live(ref') = Live(r) /\ Live(r) \subseteq Ids
  BY <1>1 DEF Live
<1>3. \A i \in Live(r) : heap'[i] = hp[i]
  BY <1>1, <1>2
<1>4. Contents' = [i \in Live(ref') |-> Vec(heap'[i])]
  BY DEF Contents, Vec
<1> QED
  BY <1>1, <1>2, <1>3, <1>4

LEMMA ContentsAre == \A i \in Live(ref) : Contents[i] = Vec(heap[i])
BY DEF Contents, Vec

\* Binding a handle makes a vector of its own and keeps every other.
LEMMA BindMakes ==
  ASSUME HeapOK, NEW h \in Handles, NEW s, Bind(h, s), UNCHANGED file
  PROVE  Loose!Make(h) /\ Loose!Result(h) = Vec(s)
<1>1. PICK i \in Ids \ Live(ref) :
        Commit([ref EXCEPT ![h] = i], [heap EXCEPT ![i] = s])
  BY DEF Bind
<1> DEFINE r  == [ref EXCEPT ![h] = i]
           hp == [heap EXCEPT ![i] = s]
<1>2. r \in [Handles -> Ids \cup {Void}]
  BY DEF HeapOK
<1>3. ref' = r /\ \A j \in Live(r) : Contents'[j] = Vec(hp[j])
  <2> HIDE DEF r, hp
  <2> QED BY <1>1, <1>2, CommitContents DEF r, hp
<1>4. hp[i] = s /\ \A j \in Ids : j # i => hp[j] = heap[j]
  BY DEF HeapOK
<1>5. \A j \in Live(ref) \cap Live(r) : j \in Ids /\ j # i
  BY DEF Live, HeapOK
<1>6. Loose!Kept({})
  <2>1. \A j \in Live(ref) \cap Live(r) : Contents'[j] = Contents[j]
    <3> HIDE DEF r, hp
    <3> QED BY <1>3, <1>4, <1>5, ContentsAre
  <2> QED BY <1>3, <2>1 DEF Loose!Kept, Loose!Named, Live
<1>7. i \in Live(r) /\ r[h] = i
  BY StorageAssumption DEF Live, HeapOK, StorageAssumption
<1>8. i \in Ids \ Loose!Named(ref)
  BY <1>1 DEF Loose!Named, Live
<1> QED
  BY <1>1, <1>3, <1>4, <1>6, <1>7, <1>8 DEF Loose!Make, Loose!Result

\* A change of an object is a change of its vector and of no other.
LEMMA UpdateChanges ==
  ASSUME HeapOK, NEW h \in Handles, ref[h] # Void, NEW s, s.dt = Obj(h).dt, Update(h, s),
         UNCHANGED file
  PROVE  /\ Loose!Change(h)
         /\ Loose!New(h) = Elems(s)
         /\ Loose!Old(h) = Elems(Obj(h)) /\ Contents[ref[h]].dt = Obj(h).dt
<1> DEFINE hp == [heap EXCEPT ![ref[h]] = s]
<1>1. ref \in [Handles -> Ids \cup {Void}] /\ Commit(ref, hp)
  BY DEF HeapOK, Update
<1>2. ref' = ref /\ \A j \in Live(ref) : Contents'[j] = Vec(hp[j])
  <2> HIDE DEF hp
  <2> QED BY <1>1, CommitContents
<1>3. ref[h] \in Ids /\ ref[h] \in Live(ref) /\ Live(ref) \subseteq Ids
  BY DEF HeapOK, Live
<1>4. hp[ref[h]] = s /\ \A j \in Ids : j # ref[h] => hp[j] = heap[j]
  BY <1>3 DEF HeapOK
<1> HIDE DEF hp
<1>5. Contents'[ref[h]] = Vec(s) /\ Contents[ref[h]] = Vec(Obj(h))
  BY <1>2, <1>3, <1>4, ContentsAre DEF Obj
<1>6. \A j \in Live(ref) : j # ref[h] => Contents'[j] = Contents[j]
  BY <1>2, <1>3, <1>4, ContentsAre
<1>7. Loose!Kept({ref[h]})
  BY <1>2, <1>6 DEF Loose!Kept, Loose!Named, Live
<1> QED
  BY <1>2, <1>5, <1>7 DEF Loose!Change, Loose!New, Loose!Old, Vec

\* One more reference to an object is one more to its vector.
LEMMA ShareShares ==
  ASSUME HeapOK, NEW h \in Handles, NEW g \in Handles, ref[g] # Void,
         Commit([ref EXCEPT ![h] = ref[g]], heap), UNCHANGED file
  PROVE  Loose!Share(h, g)
<1> DEFINE r == [ref EXCEPT ![h] = ref[g]]
<1>1. r \in [Handles -> Ids \cup {Void}]
  BY DEF HeapOK
<1>2. ref' = r /\ \A j \in Live(r) : Contents'[j] = Vec(heap[j])
  <2> HIDE DEF r
  <2> QED BY <1>1, CommitContents DEF r
<1>3. Loose!Kept({})
  BY <1>2, ContentsAre DEF Loose!Kept, Loose!Named, Live
<1> QED
  BY <1>2, <1>3 DEF Loose!Share

\* A call that does not depend on what an element nobody wrote may be.
Fixed ==
  \E h \in Handles :
     \/ \E dt \in DTypes, v \in Vectors : Loose!Vector(h, dt, v)
     \/ \E g \in Handles : Loose!Assign(h, g) \/ Loose!Clone(h, g)
     \/ \E g \in Handles, dt \in DTypes : Loose!Astype(h, g, dt)
     \/ \E v \in Values : Loose!AppendValue(h, v) \/ Loose!Fill(h, v)
     \/ \E k \in Sizes, v \in Values : Loose!SetItem(h, k, v)
     \/ \E f \in Files : Loose!Save(h, f) \/ Loose!Tofile(h, f) \/ Loose!Load(h, f)
     \/ \E f \in Files, count \in Sizes \cup {-1} : Loose!Fromfile(h, f, count)

\* And one that does.
Grown(zeros) ==
  \E h \in Handles :
     \/ \E dt \in DTypes, n \in Sizes, z \in BOOLEAN :
          Loose!Construct(h, dt, n, z) /\ (zeros => Documented!Construct(h, dt, n, z))
     \/ \E n \in Sizes : Loose!Resize(h, n) /\ (zeros => Documented!Resize(h, n))

\* The two promises share everything but what they say of such elements.
LEMMA SameMake ==
  /\ \A h \in Handles : /\ Loose!Make(h) <=> Documented!Make(h)
                        /\ Loose!Change(h) <=> Documented!Change(h)
                        /\ Loose!Result(h) = Documented!Result(h)
                        /\ Loose!Old(h) = Documented!Old(h)
                        /\ Loose!New(h) = Documented!New(h)
  /\ \A h, g \in Handles : Loose!Share(h, g) <=> Documented!Share(h, g)
  /\ \A dt, v : Loose!As(dt, v) = Documented!As(dt, v)
  /\ \A dt, v : Loose!Vec(dt, v) = Documented!Vec(dt, v)
<1>1. /\ \A o : Loose!Named(o) = Documented!Named(o)
      /\ \A dt, v : Loose!As(dt, v) = Documented!As(dt, v)
  BY DEF Loose!Named, Documented!Named, Loose!As, Documented!As
<1>2. \A S : Loose!Kept(S) <=> Documented!Kept(S)
  BY <1>1 DEF Loose!Kept, Documented!Kept
<1>3. \A dt, v : Loose!Vec(dt, v) = Documented!Vec(dt, v)
  BY <1>1, Zenon DEF Loose!Vec, Documented!Vec
<1> QED
  BY <1>1, <1>2, <1>3 DEF Loose!Make, Documented!Make, Loose!Change, Documented!Change,
     Loose!Result, Documented!Result, Loose!Old, Documented!Old, Loose!New,
     Documented!New, Loose!Share, Documented!Share

LEMMA FixedSame == Fixed => Documented!Next
<1> SUFFICES ASSUME Fixed PROVE Documented!Next
  OBVIOUS
<1>1. PICK h \in Handles :
     \/ \E dt \in DTypes, v \in Vectors : Loose!Vector(h, dt, v)
     \/ \E g \in Handles : Loose!Assign(h, g) \/ Loose!Clone(h, g)
     \/ \E g \in Handles, dt \in DTypes : Loose!Astype(h, g, dt)
     \/ \E v \in Values : Loose!AppendValue(h, v) \/ Loose!Fill(h, v)
     \/ \E k \in Sizes, v \in Values : Loose!SetItem(h, k, v)
     \/ \E f \in Files : Loose!Save(h, f) \/ Loose!Tofile(h, f) \/ Loose!Load(h, f)
     \/ \E f \in Files, count \in Sizes \cup {-1} : Loose!Fromfile(h, f, count)
  BY DEF Fixed
<1>2. ASSUME NEW dt \in DTypes, NEW v \in Vectors, Loose!Vector(h, dt, v)
      PROVE  Documented!Vector(h, dt, v)
  BY <1>2, SameMake DEF Loose!Vector, Documented!Vector
<1>3. ASSUME NEW g \in Handles, Loose!Assign(h, g) \/ Loose!Clone(h, g)
      PROVE  Documented!Assign(h, g) \/ Documented!Clone(h, g)
  BY <1>3, SameMake DEF Loose!Assign, Documented!Assign, Loose!Clone, Documented!Clone
<1>4. ASSUME NEW g \in Handles, NEW dt \in DTypes, Loose!Astype(h, g, dt)
      PROVE  Documented!Astype(h, g, dt)
  BY <1>4, SameMake DEF Loose!Astype, Documented!Astype
<1>5. ASSUME NEW v \in Values, Loose!AppendValue(h, v) \/ Loose!Fill(h, v)
      PROVE  Documented!AppendValue(h, v) \/ Documented!Fill(h, v)
  BY <1>5, SameMake DEF Loose!AppendValue, Documented!AppendValue, Loose!Fill,
     Documented!Fill
<1>6. ASSUME NEW k \in Sizes, NEW v \in Values, Loose!SetItem(h, k, v)
      PROVE  Documented!SetItem(h, k, v)
  BY <1>6, SameMake DEF Loose!SetItem, Documented!SetItem
<1>7. ASSUME NEW f \in Files, Loose!Save(h, f) \/ Loose!Tofile(h, f) \/ Loose!Load(h, f)
      PROVE  Documented!Save(h, f) \/ Documented!Tofile(h, f) \/ Documented!Load(h, f)
  <2>1. \A S : Loose!Kept(S) <=> Documented!Kept(S)
    BY DEF Loose!Kept, Documented!Kept, Loose!Named, Documented!Named
  <2>2. \A kind : Loose!Written(h, f, kind) => Documented!Written(h, f, kind)
    BY <2>1, SameMake DEF Loose!Written, Documented!Written
  <2> QED BY <1>7, <2>2, SameMake DEF Loose!Save, Documented!Save, Loose!Tofile,
             Documented!Tofile, Loose!Load, Documented!Load
<1>8. ASSUME NEW f \in Files, NEW count \in Sizes \cup {-1}, Loose!Fromfile(h, f, count)
      PROVE  Documented!Fromfile(h, f, count)
  BY <1>8, SameMake DEF Loose!Fromfile, Documented!Fromfile
<1> QED
  BY <1>1, <1>2, <1>3, <1>4, <1>5, <1>6, <1>7, <1>8 DEF Documented!Next

\* Every call on the objects is that call on the vectors.
LEMMA StepMaps ==
  ASSUME IInv, [Next]_vars
  PROVE  \/ Fixed
         \/ Grown(TailInv /\ ~RawInit)
         \/ UNCHANGED <<ref, Contents, file, call>>
<1>0. /\ Sizes \subseteq Nat
      /\ \A v \in Values : v \in Elements
      /\ Vectors \subseteq Seq(Elements)
      /\ HeapOK
  BY UserValues, StorageAssumption DEF IInv
<1>a. ASSUME NEW h \in Handles, ref[h] # Void
      PROVE  /\ Sound(Obj(h)) /\ Contents[ref[h]] = Vec(Obj(h))
             /\ Contents[ref[h]].dt = Obj(h).dt /\ Contents[ref[h]].elems = Elems(Obj(h))
  <2>1. Sound(Obj(h)) /\ ref[h] \in Live(ref)
    BY <1>0, <1>a, ObjSound
  <2>2. Contents[ref[h]] = Vec(Obj(h))
    BY <2>1, ContentsAre DEF Obj
  <2> QED BY <2>1, <2>2 DEF Vec
<1>1. ASSUME NEW h \in Handles, NEW dt \in DTypes, NEW n \in Sizes, NEW z \in BOOLEAN,
             Construct(h, dt, n, z)
      PROVE  /\ Loose!Construct(h, dt, n, z)
             /\ TailInv /\ ~RawInit => Documented!Construct(h, dt, n, z)
  <2> DEFINE t == Blank(dt, n, z)
  <2>1. /\ t.dt = dt /\ Len(Elems(t)) = n
        /\ \A k \in 1..n : Elems(t)[k] \in Elements /\ (z => Elems(t)[k] = 0)
    BY <1>0, BlankElems
  <2>2. /\ Loose!Make(h) /\ Loose!Result(h) = Vec(t)
        /\ call' = <<"Storage", h, dt, n, z>> /\ (z \/ RawInit)
    BY <1>0, <1>1, BindMakes DEF Construct
  <2>3. Vec(t).dt = t.dt /\ Vec(t).elems = Elems(t)
    BY DEF Vec
  <2> HIDE DEF t
  <2>4. Loose!Construct(h, dt, n, z)
    BY <2>1, <2>2, <2>3 DEF Loose!Construct
  <2>5. ~RawInit => Documented!Construct(h, dt, n, z)
    BY <2>1, <2>2, <2>3, SameMake DEF Documented!Construct
  <2> QED BY <2>4, <2>5
<1>2. ASSUME NEW h \in Handles, NEW dt \in DTypes, NEW v \in Vectors, Vector(h, dt, v)
      PROVE  Loose!Vector(h, dt, v)
  BY <1>0, <1>2, BindMakes, FromVectorElems DEF Vector, Loose!Vector
<1>3. ASSUME NEW h \in Handles, NEW g \in Handles, Assign(h, g)
      PROVE  Loose!Assign(h, g)
  BY <1>0, <1>3, ShareShares DEF Assign, Loose!Assign
<1>4. ASSUME NEW h \in Handles, NEW g \in Handles, Clone(h, g)
      PROVE  Loose!Clone(h, g)
  <2>1. Loose!Make(h) /\ Loose!Result(h) = Vec(Cloned(Obj(g)))
    BY <1>0, <1>4, BindMakes DEF Clone
  <2>2. Vec(Cloned(Obj(g))) = Vec(Obj(g))
    BY <1>4, <1>a, ClonedElems DEF Vec, Clone
  <2> QED BY <1>4, <1>a, <2>1, <2>2 DEF Clone, Loose!Clone
<1>5. ASSUME NEW h \in Handles, NEW g \in Handles, NEW dt \in DTypes, Astype(h, g, dt)
      PROVE  Loose!Astype(h, g, dt)
  <2>1. /\ ref[g] # Void /\ UNCHANGED file /\ call' = <<"astype", h, g, dt>>
        /\ Contents[ref[g]].dt = Obj(g).dt /\ Contents[ref[g]].elems = Elems(Obj(g))
        /\ Sound(Obj(g))
    BY <1>5, <1>a DEF Astype
  <2>2. CASE dt = Obj(g).dt
    BY <1>0, <1>5, <2>1, <2>2, ShareShares DEF Astype, Loose!Astype
  <2>3. CASE dt # Obj(g).dt
    <3>1. Loose!Make(h) /\ Loose!Result(h) = Vec(Casted(Obj(g), dt))
      BY <1>0, <1>5, <2>1, <2>3, BindMakes DEF Astype
    <3> QED BY <2>1, <2>3, <3>1, CastedElems DEF Loose!Astype
  <2> QED BY <2>2, <2>3
<1>6. ASSUME NEW h \in Handles, NEW n \in Sizes, Resize(h, n)
      PROVE  Loose!Resize(h, n) /\ (TailInv => Documented!Resize(h, n))
  <2> DEFINE t == Resized(Obj(h), n)
  <2>1. /\ Sound(Obj(h)) /\ n \in Nat /\ ref[h] \in Live(ref) /\ UNCHANGED file
        /\ call' = <<"resize", h, n>>
    BY <1>0, <1>6, ObjSound DEF Resize
  <2>2. /\ t.dt = Obj(h).dt /\ Len(Elems(t)) = n
        /\ \A k \in 1..Len(Elems(t)) :
             /\ k <= Len(Elems(Obj(h))) => Elems(t)[k] = Elems(Obj(h))[k]
             /\ Elems(t)[k] \in Elements
             /\ k > Len(Elems(Obj(h))) /\ ZeroTail(Obj(h)) => Elems(t)[k] = 0
    BY <2>1, ResizedElems
  <2>3. Loose!Change(h) /\ Loose!New(h) = Elems(t) /\ Loose!Old(h) = Elems(Obj(h))
    BY <1>0, <1>6, <2>1, <2>2, UpdateChanges DEF Resize
  <2>4. Loose!Resize(h, n)
    <3> HIDE DEF t
    <3> QED BY <2>1, <2>2, <2>3 DEF Loose!Resize
  <2>5. ASSUME TailInv
        PROVE  Documented!Resize(h, n)
    <3>1. ZeroTail(Obj(h))
      BY <2>1, <2>5 DEF TailInv, Obj
    <3>2. Documented!Change(h) /\ Documented!New(h) = Elems(t)
          /\ Documented!Old(h) = Elems(Obj(h))
      BY <2>3, SameMake
    <3>3. Len(Elems(Obj(h))) \in Nat
      BY <2>1, ElemsAre
    <3>4. \A k \in 1..n :
            IF k <= Len(Elems(Obj(h))) THEN Elems(t)[k] = Elems(Obj(h))[k]
                                       ELSE Elems(t)[k] \in {0}
      BY <2>2, <3>1, <3>3
    <3> HIDE DEF t
    <3> QED BY <2>1, <2>2, <3>2, <3>4 DEF Documented!Resize
  <2> QED BY <2>4, <2>5
<1>7. ASSUME NEW h \in Handles, NEW v \in Values, AppendValue(h, v)
      PROVE  Loose!AppendValue(h, v)
  <2> DEFINE t == Appended(Obj(h), v)
  <2>1. /\ Sound(Obj(h)) /\ v \in Elements /\ UNCHANGED file
        /\ call' = <<"append", h, v>>
    BY <1>0, <1>7, ObjSound DEF AppendValue
  <2>2. t.dt = Obj(h).dt /\ Elems(t) = Append(Elems(Obj(h)), CastTo(Obj(h).dt, v))
    BY <2>1, AppendedElems
  <2>3. /\ Loose!Change(h) /\ Loose!New(h) = Elems(t) /\ Loose!Old(h) = Elems(Obj(h))
        /\ Contents[ref[h]].dt = Obj(h).dt
    BY <1>0, <1>7, <2>2, UpdateChanges DEF AppendValue
  <2> HIDE DEF t
  <2> QED BY <2>1, <2>2, <2>3, AsIs DEF Loose!AppendValue
<1>8. ASSUME NEW h \in Handles, NEW v \in Values, Fill(h, v)
      PROVE  Loose!Fill(h, v)
  <2> DEFINE t == Filled(Obj(h), v)
  <2>1. /\ Sound(Obj(h)) /\ v \in Elements /\ UNCHANGED file
        /\ call' = <<"fill", h, v>>
    BY <1>0, <1>8, ObjSound DEF Fill
  <2>2. /\ t.dt = Obj(h).dt
        /\ Elems(t) = [k \in 1..Len(Elems(Obj(h))) |-> CastTo(Obj(h).dt, v)]
    BY <2>1, FilledElems
  <2>3. /\ Loose!Change(h) /\ Loose!New(h) = Elems(t) /\ Loose!Old(h) = Elems(Obj(h))
        /\ Contents[ref[h]].dt = Obj(h).dt
    BY <1>0, <1>8, <2>2, UpdateChanges DEF Fill
  <2> HIDE DEF t
  <2> QED BY <2>1, <2>2, <2>3, AsIs DEF Loose!Fill
<1>9. ASSUME NEW h \in Handles, NEW k \in Sizes, NEW v \in Values, SetItem(h, k, v)
      PROVE  Loose!SetItem(h, k, v)
  <2> DEFINE t == ItemSet(Obj(h), k, v)
             x == CastTo(Obj(h).dt, v)
  <2>1. /\ Sound(Obj(h)) /\ k + 1 \in 1..Obj(h).size /\ v \in Elements /\ UNCHANGED file
        /\ call' = <<"set_item", h, k, v>>
    BY <1>0, <1>9, ObjSound DEF SetItem, Sound, Objects
  <2>2. x \in Elements
    BY <1>0, CastToElement
  <2>3. t = [Obj(h) EXCEPT !.mem = Write(@, k + 1, x)]
    BY DEF ItemSet
  <2> HIDE DEF x
  <2>4. /\ t.dt = Obj(h).dt /\ k + 1 \in 1..Len(Elems(Obj(h)))
        /\ Elems(t) = [Elems(Obj(h)) EXCEPT ![k + 1] = x]
    BY <2>1, <2>2, <2>3, WriteElems
  <2>5. /\ Loose!Change(h) /\ Loose!New(h) = Elems(t) /\ Loose!Old(h) = Elems(Obj(h))
        /\ Contents[ref[h]].dt = Obj(h).dt
    BY <1>0, <1>9, <2>4, UpdateChanges DEF SetItem
  <2>6. k < Len(Elems(Obj(h)))
    BY <1>0, <2>1, <2>4, ElemsAre
  <2> HIDE DEF t
  <2> QED BY <2>1, <2>4, <2>5, <2>6, AsIs DEF Loose!SetItem, x
<1>10. ASSUME NEW h \in Handles, NEW f \in Files, Save(h, f) \/ Tofile(h, f)
       PROVE  Loose!Save(h, f) \/ Loose!Tofile(h, f)
  <2>1. /\ ref[h] # Void /\ UNCHANGED <<ref, heap>>
        /\ Contents[ref[h]].dt = Obj(h).dt /\ Loose!Old(h) = Elems(Obj(h))
    BY <1>10, <1>a DEF Save, Tofile, Loose!Old
  <2>2. Contents' = Contents
    BY <2>1 DEF Contents, Live
  <2>3. Loose!Kept({})
    BY <2>1, <2>2 DEF Loose!Kept
  <2> QED BY <1>10, <2>1, <2>3 DEF Save, Tofile, Loose!Save, Loose!Tofile, Loose!Written
<1>11. ASSUME NEW h \in Handles, NEW f \in Files, Load(h, f)
       PROVE  Loose!Load(h, f)
  <2>1. file[f].dt \in DTypes /\ file[f].elems \in Seq(Elements)
    BY <1>11 DEF Load, IInv, FileOK
  <2> QED BY <1>0, <1>11, <2>1, BindMakes, FromVectorElems DEF Load, Loose!Load
<1>12. ASSUME NEW h \in Handles, NEW f \in Files, NEW count \in Sizes \cup {-1},
              Fromfile(h, f, count)
       PROVE  Loose!Fromfile(h, f, count)
  <2> DEFINE inFile == Len(file[f].elems)
             nelem  == IF count < 0 THEN inFile ELSE count
             read   == [k \in 1..nelem |-> IF k <= inFile THEN file[f].elems[k] ELSE 0]
  <2>1. file[f].elems \in Seq(Elements) /\ file[f].dt \in DTypes
    BY <1>12 DEF Fromfile, IInv, FileOK
  <2>2. nelem \in Nat /\ inFile \in Nat
    BY <1>0, <2>1
  <2>3. read \in [1..nelem -> Elements]
    BY <2>1, <2>2 DEF Elements
  <2>4. read \in Seq(Elements)
    <3> HIDE DEF read, nelem
    <3> QED BY <2>2, <2>3, Buffer
  <2>5. /\ Bind(h, FromVector(file[f].dt, read)) /\ UNCHANGED file
        /\ call' = <<"Fromfile", h, f, count>> /\ file[f] # None
    BY <1>12 DEF Fromfile
  <2>6. /\ Loose!Make(h)
        /\ Loose!Result(h) = Loose!Vec(file[f].dt, read)
    <3> HIDE DEF read
    <3> QED BY <1>0, <2>1, <2>4, <2>5, BindMakes, FromVectorElems
  <2> QED BY <2>5, <2>6 DEF Loose!Fromfile
<1>13. CASE UNCHANGED vars
  BY <1>13 DEF vars, Contents, Live
<1>14. CASE Next
  <2>1. PICK h \in Handles :
     \/ \E dt \in DTypes, n \in Sizes, z \in BOOLEAN : Construct(h, dt, n, z)
     \/ \E dt \in DTypes, v \in Vectors : Vector(h, dt, v)
     \/ \E g \in Handles : Assign(h, g) \/ Clone(h, g)
     \/ \E g \in Handles, dt \in DTypes : Astype(h, g, dt)
     \/ \E n \in Sizes : Resize(h, n)
     \/ \E v \in Values : AppendValue(h, v) \/ Fill(h, v)
     \/ \E k \in Sizes, v \in Values : SetItem(h, k, v)
     \/ \E f \in Files : Save(h, f) \/ Tofile(h, f) \/ Load(h, f)
     \/ \E f \in Files, count \in Sizes \cup {-1} : Fromfile(h, f, count)
    BY <1>14 DEF Next
  <2>2. CASE \/ \E dt \in DTypes, n \in Sizes, z \in BOOLEAN : Construct(h, dt, n, z)
             \/ \E n \in Sizes : Resize(h, n)
    BY <1>1, <1>6, <2>2 DEF Grown
  <2>3. CASE \/ \E dt \in DTypes, v \in Vectors : Vector(h, dt, v)
             \/ \E g \in Handles : Assign(h, g) \/ Clone(h, g)
             \/ \E g \in Handles, dt \in DTypes : Astype(h, g, dt)
    BY <1>2, <1>3, <1>4, <1>5, <2>3 DEF Fixed
  <2>4. CASE \/ \E v \in Values : AppendValue(h, v) \/ Fill(h, v)
             \/ \E k \in Sizes, v \in Values : SetItem(h, k, v)
    BY <1>7, <1>8, <1>9, <2>4 DEF Fixed
  <2>5. CASE \/ \E f \in Files : Save(h, f) \/ Tofile(h, f) \/ Load(h, f)
             \/ \E f \in Files, count \in Sizes \cup {-1} : Fromfile(h, f, count)
    BY <1>10, <1>11, <1>12, <2>5 DEF Fixed
  <2> QED BY <2>1, <2>2, <2>3, <2>4, <2>5
<1> QED
  BY <1>13, <1>14

\* A Storage is a reference to a vector: assignment shares it, clone, astype and
\* files copy it, and resize, append, set_item and fill make of the one vector all
\* its handles see what they should, whatever the capacities behind it do.
THEOREM StorageIsVector == Spec => ImplementsVector
<1>1. Init => Loose!Init
  BY DEF Init, Loose!Init
<1>2. IInv /\ [Next]_vars => [Loose!Next]_(Loose!vars)
  <2> SUFFICES ASSUME IInv, [Next]_vars PROVE [Loose!Next]_(Loose!vars)
    OBVIOUS
  <2>1. Fixed => Loose!Next
    BY DEF Fixed, Loose!Next
  <2>2. \A b \in BOOLEAN : Grown(b) => Loose!Next
    BY DEF Grown, Loose!Next
  <2> QED BY <2>1, <2>2, StepMaps DEF Loose!vars
<1> QED
  BY <1>1, <1>2, Invariance, PTL DEF Spec, ImplementsVector, Loose!Spec

\* For a client that never shrinks a Storage and never asks for uninitialised
\* memory it is the documented vector, whose resize adds zeros.
THEOREM GrowOnlyIsZeroing ==
  ~Shrink /\ ~RawInit /\ Spec => ImplementsZeroingVector
<1> SUFFICES ASSUME ~Shrink, ~RawInit
             PROVE  Spec => ImplementsZeroingVector
  OBVIOUS
<1>1. Init => Documented!Init /\ TailInv
  BY StorageAssumption DEF Init, Documented!Init, TailInv, Live
<1>2. IInv /\ TailInv /\ [Next]_vars => TailInv'
  BY NextTail, StorageAssumption
<1>3. IInv /\ TailInv /\ [Next]_vars => [Documented!Next]_(Documented!vars)
  <2> SUFFICES ASSUME IInv, TailInv, [Next]_vars
               PROVE  [Documented!Next]_(Documented!vars)
    OBVIOUS
  <2>1. Grown(TailInv /\ ~RawInit) => Documented!Next
    BY DEF Grown, Documented!Next
  <2> QED BY <2>1, FixedSame, StepMaps DEF Documented!vars
<1> QED
  BY <1>1, <1>2, <1>3, Invariance, PTL DEF Spec, ImplementsZeroingVector,
     Documented!Spec
=============================================================================
