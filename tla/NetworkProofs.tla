---------------------------- MODULE NetworkProofs ----------------------------
(***************************************************************************)
(* What is proved of a network, for any files, arguments, orders and       *)
(* tensors: between the calls and during them the slots agree with the     *)
(* labels and with the tensors in them, the search that setOrder runs on   *)
(* those tensors keeps what SearchProofs proves of it, and the walk of an  *)
(* order that uses every tensor once loses none of them.                   *)
(***************************************************************************)
EXTENDS Network, SearchProofs

-----------------------------------------------------------------------------
(* The form of a network: the fields that the slots depend on have their   *)
(* types, the others are whatever they are.                                *)

Form(n) ==
  [names : Seq(STRING), labels : Seq(Seq(STRING)), tensors : Seq(UniTensors \cup {Void}),
   base : Nat, tokens : {n.tokens}, out : {n.out}, rowrank : {n.rowrank},
   line : {n.line}, null : {n.null}, path : {n.path}]

\* The invariant.
Sound(n) == n \in Form(n) /\ Agrees(n)

\* A network that has the slots of another and tokens that were checked.
SameSlots(n, m) ==
  /\ n \in Form(n)
  /\ n.names = m.names /\ n.labels = m.labels /\ n.tensors = m.tensors /\ n.base = m.base

LEMMA SlotsKept ==
  ASSUME NEW m, Sound(m), NEW n, SameSlots(n, m), n.tokens # <<>> => ~BadOrderLine(n.tokens)
  PROVE  Sound(n)
<1> QED BY DEF Sound, SameSlots, Agrees

LEMMA FormedAre ==
  ASSUME NEW m, m \in Form(m), NEW v
  PROVE  /\ SameSlots([m EXCEPT !.path = v], m) /\ [m EXCEPT !.path = v].tokens = m.tokens
         /\ SameSlots([m EXCEPT !.line = v], m) /\ [m EXCEPT !.line = v].tokens = m.tokens
         /\ SameSlots([m EXCEPT !.out = v], m) /\ [m EXCEPT !.out = v].tokens = m.tokens
         /\ SameSlots([m EXCEPT !.tokens = v], m) /\ [m EXCEPT !.tokens = v].tokens = v
<1> QED BY DEF SameSlots, Form

LEMMA FreshIsSound == Sound(Fresh)
<1>1. Fresh \in Form(Fresh)
  BY DEF Fresh, Form
<1>2. Agrees(Fresh)
  BY DEF Fresh, Agrees
<1> QED BY <1>1, <1>2 DEF Sound

LEMMA WithPathKeeps ==
  ASSUME NEW m, Sound(m)
  PROVE  /\ Sound(WithPath(m).n) /\ WithPath(m).n.tokens = m.tokens
         /\ WithPath(m).err = PathInForce(m).err
<1> DEFINE p == PathInForce(m)
<1>1. WithPath(m).n = [m EXCEPT !.path = p.path] /\ WithPath(m).err = p.err
  BY DEF WithPath
<1> HIDE DEF p
<1>2. /\ SameSlots([m EXCEPT !.path = p.path], m)
      /\ [m EXCEPT !.path = p.path].tokens = m.tokens
  BY FormedAre DEF Sound
<1>3. m.tokens # <<>> => ~BadOrderLine(m.tokens)
  BY DEF Sound, Agrees
<1> QED BY <1>1, <1>2, <1>3, SlotsKept DEF p

\* A definition is sound whatever its names and labels as long as it has no
\* slots, and gets as many as it has names if each has its labels.
LEMMA Unslotted ==
  ASSUME NEW n, n \in Form(n), n.base = 0, n.tensors = <<>>,
         n.tokens # <<>> => ~BadOrderLine(n.tokens)
  PROVE  Sound(n)
<1> QED BY DEF Sound, Agrees

LEMMA Slotted ==
  ASSUME NEW n, n \in Form(n), Len(n.labels) = Len(n.names),
         n.tokens # <<>> => ~BadOrderLine(n.tokens)
  PROVE  /\ Sound(WithSlots(n))
         /\ WithSlots(n).base = Len(n.names)
         /\ WithSlots(n).labels = n.labels /\ WithSlots(n).tokens = n.tokens
<1> DEFINE m == WithSlots(n)
           N == Len(n.names)
<1>1. n.names \in Seq(STRING) /\ n.labels \in Seq(Seq(STRING)) /\ N \in Nat /\ DOMAIN n.names = 1..N
  BY DEF Form
<1>2. /\ m.names = n.names /\ m.labels = n.labels /\ m.base = N
      /\ m.tensors = [i \in 1..N |-> Void] /\ m.tokens = n.tokens
      /\ m \in Form(m)
  <2>1. [i \in 1..N |-> Void] \in Seq(UniTensors \cup {Void})
    BY <1>1
  <2>2. m = [n EXCEPT !.base = N, !.tensors = [i \in 1..N |-> Void]]
    BY <1>1 DEF WithSlots
  <2> HIDE DEF m
  <2> QED BY <1>1, <2>1, <2>2 DEF Form
<1>3. Len(m.tensors) = N /\ \A i \in DOMAIN m.tensors : m.tensors[i] = Void
  BY <1>1, <1>2
<1> HIDE DEF m, N
<1>4. Agrees(m)
  BY <1>1, <1>2, <1>3 DEF Agrees, N
<1> QED BY <1>2, <1>4 DEF Sound, m, N

-----------------------------------------------------------------------------
(* Definitions.                                                            *)

\* What has been read of a file: no slots yet, and each name has its labels
\* unless the last line was refused.
Drafts ==
  [names : Seq(STRING), labels : Seq(Seq(STRING)), tensors : {<<>>}, base : {0},
   tokens : Seq(STRING), out : Seq(STRING), rowrank : Int, line : Seq(STRING),
   null : {FALSE}, path : {<<>>}]

Readings ==
  {s \in [n : Drafts, err : {"ok", "throws"}] :
     /\ s.n.tokens # <<>> => ~BadOrderLine(s.n.tokens)
     /\ s.err = "ok" => Len(s.n.labels) = Len(s.n.names)}

LEMMA DraftIs ==
  ASSUME NEW n \in Drafts
  PROVE  n \in Form(n) /\ n.base = 0 /\ n.tensors = <<>>
<1> DEFINE T == Seq(UniTensors \cup {Void})
<1>1. <<>> \in T
  OBVIOUS
<1> HIDE DEF T
<1>2. /\ n.tensors = <<>> /\ n.base = 0
      /\ n = [names |-> n.names, labels |-> n.labels, tensors |-> n.tensors, base |-> n.base,
              tokens |-> n.tokens, out |-> n.out, rowrank |-> n.rowrank, line |-> n.line,
              null |-> n.null, path |-> n.path]
      /\ n.names \in Seq(STRING) /\ n.labels \in Seq(Seq(STRING))
  BY DEF Drafts
<1>3. n \in [names : Seq(STRING), labels : Seq(Seq(STRING)), tensors : T, base : Nat,
             tokens : {n.tokens}, out : {n.out}, rowrank : {n.rowrank},
             line : {n.line}, null : {n.null}, path : {n.path}]
  BY <1>1, <1>2
<1> QED BY <1>2, <1>3 DEF Form, T

LEMMA ReadLineKeeps ==
  ASSUME NEW s \in Readings, NEW item \in Lines
  PROVE  ReadLine(s, item) \in Readings
<1>1. CASE s.err # "ok"
  BY <1>1 DEF ReadLine
<1>2. CASE s.err = "ok" /\ item.kind = "bad"
  BY <1>2 DEF ReadLine, Readings
<1>3. CASE s.err = "ok" /\ item.kind = "ORDER"
  <2>1. item.tokens \in Seq(STRING)
    BY <1>3 DEF Lines
  <2>2. CASE BadOrderLine(item.tokens)
    BY <1>3, <2>1, <2>2 DEF ReadLine, Readings, Drafts
  <2>3. CASE ~BadOrderLine(item.tokens)
    BY <1>3, <2>1, <2>3 DEF ReadLine, Readings, Drafts
  <2> QED BY <2>2, <2>3
<1>4. CASE s.err = "ok" /\ item.kind = "TOUT"
  <2>1. item.labels \in Seq(STRING) /\ (item.semicolon => item.rowrank \in Int)
    BY <1>4 DEF Lines
  <2>2. \A k \in Nat : k \div 2 \in Int
    OBVIOUS
  <2>3. (IF item.semicolon THEN item.rowrank ELSE Len(item.labels) \div 2) \in Int
    BY <2>1, <2>2
  <2> QED BY <1>4, <2>1, <2>3 DEF ReadLine, Readings, Drafts
<1>5. CASE s.err = "ok" /\ item.kind = "TN"
  <2> DEFINE names == Append(s.n.names, item.name)
             labels == Append(s.n.labels, item.labels)
             refused == item.name \in ToSet(s.n.names) \/ item.labels = <<>>
             r == ReadLine(s, item)
  <2>1. item.name \in STRING /\ item.labels \in Seq(STRING)
    BY <1>5 DEF Lines
  <2>2. /\ s.n.names \in Seq(STRING) /\ s.n.labels \in Seq(Seq(STRING))
        /\ Len(s.n.labels) = Len(s.n.names)
    BY <1>5 DEF Readings, Drafts
  <2>3. /\ names \in Seq(STRING) /\ Len(names) = Len(s.n.names) + 1
        /\ labels \in Seq(Seq(STRING)) /\ Len(labels) = Len(s.n.labels) + 1
    <3>1. /\ names \in Seq(STRING) /\ Len(names) = Len(s.n.names) + 1
      BY <2>1, <2>2, AppendIs, ZenonT(60)
    <3>2. /\ labels \in Seq(Seq(STRING)) /\ Len(labels) = Len(s.n.labels) + 1
      BY <2>1, <2>2, AppendIs, ZenonT(60)
    <3> QED BY <3>1, <3>2
  <2>4. r = [s EXCEPT !.n.names = Append(@, item.name),
                      !.n.labels = IF refused THEN @ ELSE Append(@, item.labels),
                      !.err = IF refused THEN "throws" ELSE @]
    BY <1>5, Zenon DEF ReadLine
  <2>5. r = [s EXCEPT !.n = [s.n EXCEPT !.names = names,
                                       !.labels = IF refused THEN s.n.labels ELSE labels],
                      !.err = IF refused THEN "throws" ELSE s.err]
    BY <2>4 DEF Readings, Drafts
  <2> HIDE DEF names, labels, refused, r
  <2>6. /\ r = [n |-> r.n, err |-> r.err] /\ r.err = IF refused THEN "throws" ELSE "ok"
        /\ r.n = [s.n EXCEPT !.names = names, !.labels = IF refused THEN s.n.labels ELSE labels]
    BY <1>5, <2>5 DEF Readings
  <2>7. /\ r.n \in Drafts /\ r.n.tokens = s.n.tokens
        /\ r.n.names = names /\ r.n.labels = IF refused THEN s.n.labels ELSE labels
    BY <2>2, <2>3, <2>6 DEF Readings, Drafts
  <2>8. r.err = "ok" => Len(r.n.labels) = Len(r.n.names)
    BY <2>2, <2>3, <2>6, <2>7
  <2>9. r \in Readings
    BY <2>6, <2>7, <2>8 DEF Readings
  <2> QED BY <2>9 DEF r
<1> QED BY <1>1, <1>2, <1>3, <1>4, <1>5 DEF Lines

\* What is read of a whole file.
LEMMA LinesRead ==
  ASSUME NEW lines \in Seq(Lines)
  PROVE  \E s \in Readings :
           Loaded(lines) =
             LET n == WithSlots(s.n)
             IN IF s.err # "ok" THEN s
                ELSE IF Len(s.n.names) < 2 THEN [s EXCEPT !.err = "throws"]
                ELSE IF n.tokens # <<>> /\ OrderNamesMismatch(n) THEN [n |-> n, err |-> "throws"]
                ELSE IF OutMismatch(n) THEN [n |-> n, err |-> "throws"]
                ELSE WithPath(n)
<1> DEFINE N == Len(lines)
           start == [n |-> Fresh, err |-> "ok"]
           step == [k \in 1..N |-> [s \in Readings |-> ReadLine(s, lines[k])]]
           read == CHOOSE read : read = [k \in 0..N |->
                     IF k = 0 THEN [n |-> Fresh, err |-> "ok"] ELSE ReadLine(read[k - 1], lines[k])]
<1>1. N \in Nat /\ \A k \in 1..N : lines[k] \in Lines
  OBVIOUS
<1>2. start \in Readings
  BY DEF Readings, Drafts, Fresh
<1>3. Loaded(lines) =
        LET s == read[N]
            n == WithSlots(s.n)
        IN IF s.err # "ok" THEN s
           ELSE IF Len(s.n.names) < 2 THEN [s EXCEPT !.err = "throws"]
           ELSE IF n.tokens # <<>> /\ OrderNamesMismatch(n) THEN [n |-> n, err |-> "throws"]
           ELSE IF OutMismatch(n) THEN [n |-> n, err |-> "throws"]
           ELSE WithPath(n)
  BY DEF Loaded
<1> HIDE DEF N, read
<1>4. step \in [1..N -> [Readings -> Readings]]
  BY <1>1, ReadLineKeeps
<1>5. PICK f \in [0..N -> Readings] : Unfolds(f, N, start, step)
  <2> HIDE DEF step, start
  <2> QED BY <1>1, <1>2, <1>4, Recursion
<1>6. f = [k \in 0..N |-> IF k = 0 THEN start ELSE ReadLine(f[k - 1], lines[k])]
  <2>1. f[0] = start /\ \A k \in 1..N : f[k] = step[k][f[k - 1]]
    BY <1>5 DEF Unfolds
  <2>2. \A k \in 1..N : k - 1 \in 0..N
    BY <1>1
  <2>3. \A k \in 1..N, s \in Readings : step[k][s] = ReadLine(s, lines[k])
    OBVIOUS
  <2>4. \A k \in 0..N : k = 0 \/ k \in 1..N
    BY <1>1
  <2> HIDE DEF step, start
  <2>5. \A k \in 0..N : f[k] = IF k = 0 THEN start ELSE ReadLine(f[k - 1], lines[k])
    BY <1>1, <2>1, <2>2, <2>3, <2>4
  <2> QED BY <2>5
<1>7. read = [k \in 0..N |-> IF k = 0 THEN start ELSE ReadLine(read[k - 1], lines[k])]
  BY <1>6 DEF read
<1>8. \A k \in Nat : k \in 0..N => read[k] \in Readings
  <2> DEFINE S == {k \in Nat : k \in 0..N => read[k] \in Readings}
  <2>1. 0 \in S
    BY <1>1, <1>2, <1>7
  <2>2. ASSUME NEW k \in Nat, k \in S
        PROVE  k + 1 \in S
    <3>1. SUFFICES ASSUME k + 1 \in 0..N PROVE read[k + 1] \in Readings
      OBVIOUS
    <3>2. k \in 0..N /\ k + 1 \in 1..N /\ k + 1 # 0 /\ (k + 1) - 1 = k
      BY <1>1, <3>1
    <3>3. read[k + 1] = ReadLine(read[k], lines[k + 1])
      BY <1>7, <3>1, <3>2
    <3>4. read[k] \in Readings
      BY <2>2, <3>2
    <3> QED BY <1>1, <3>2, <3>3, <3>4, ReadLineKeeps
  <2> HIDE DEF S
  <2>3. Nat \subseteq S
    BY <2>1, <2>2, NatInduct
  <2> QED BY <2>3 DEF S
<1>9. read[N] \in Readings
  BY <1>1, <1>8
<1> QED BY <1>3, <1>9

LEMMA LoadedKeeps ==
  ASSUME NEW lines \in Seq(Lines)
  PROVE  Sound(Loaded(lines).n) /\ Loaded(lines).n.tokens \in Seq(STRING)
<1>1. PICK s \in Readings :
        Loaded(lines) =
          LET n == WithSlots(s.n)
          IN IF s.err # "ok" THEN s
             ELSE IF Len(s.n.names) < 2 THEN [s EXCEPT !.err = "throws"]
             ELSE IF n.tokens # <<>> /\ OrderNamesMismatch(n) THEN [n |-> n, err |-> "throws"]
             ELSE IF OutMismatch(n) THEN [n |-> n, err |-> "throws"]
             ELSE WithPath(n)
  BY LinesRead
<1>2. /\ Loaded(lines).n \in {s.n, WithSlots(s.n), WithPath(WithSlots(s.n)).n}
      /\ s.err # "ok" => Loaded(lines).n = s.n
  BY <1>1 DEF Readings
<1>3. /\ s.n \in Form(s.n) /\ s.n.base = 0 /\ s.n.tensors = <<>>
      /\ s.n.tokens # <<>> => ~BadOrderLine(s.n.tokens)
      /\ s.err = "ok" => Len(s.n.labels) = Len(s.n.names)
      /\ s.n.tokens \in Seq(STRING)
  <2>1. s.n \in Drafts
    BY DEF Readings
  <2> QED BY <2>1, DraftIs DEF Readings, Drafts
<1>4. Sound(s.n)
  BY <1>3, Unslotted
<1>5. CASE s.err = "ok"
  <2>1. Sound(WithSlots(s.n)) /\ WithSlots(s.n).tokens \in Seq(STRING)
    BY <1>3, <1>5, Slotted
  <2>2. Sound(WithPath(WithSlots(s.n)).n) /\ WithPath(WithSlots(s.n)).n.tokens \in Seq(STRING)
    BY <2>1, WithPathKeeps
  <2> QED BY <1>2, <1>3, <1>4, <2>1, <2>2
<1> QED BY <1>2, <1>3, <1>4, <1>5

LEMMA ConstructedKeeps ==
  ASSUME NEW c \in [names : Seq(STRING), labels : Seq(Seq(STRING)), out : Seq(STRING),
                    outrk : Int, tokens : Seq(STRING)]
  PROVE  /\ Sound(Constructed(c.names, c.labels, c.out, c.outrk, c.tokens).n)
         /\ Constructed(c.names, c.labels, c.out, c.outrk, c.tokens).n.tokens \in Seq(STRING)
<1> DEFINE d == Constructed(c.names, c.labels, c.out, c.outrk, c.tokens)
           N == Len(c.names)
           labels == SubSeq(c.labels, 1, N)
           n0 == [Fresh EXCEPT !.names = c.names, !.labels = labels, !.out = c.out,
                               !.rowrank = Len(c.out) - c.outrk, !.line = c.tokens]
           n1 == [n0 EXCEPT !.tokens = c.tokens]
           n2 == WithSlots(n1)
           n3 == IF c.out = <<>> THEN [n2 EXCEPT !.out = ExpectedOut(n2)] ELSE n2
<1>1. /\ d.n \in {Fresh, n0, n1, n3, WithPath(n3).n}
      /\ Len(c.labels) < N => d.n = Fresh
      /\ c.tokens # <<>> /\ BadOrderLine(c.tokens) => d.n \in {Fresh, n0}
  <2> HIDE DEF n0, n1, n2, n3
  <2>1. d = IF Len(c.labels) < N THEN [n |-> Fresh, err |-> "undefined"]
            ELSE IF c.tokens # <<>> /\ BadOrderLine(c.tokens) THEN [n |-> n0, err |-> "throws"]
            ELSE IF c.tokens # <<>> /\ OrderNamesMismatch(n1) THEN [n |-> n1, err |-> "throws"]
            ELSE IF N < 2 THEN [n |-> n1, err |-> "throws"]
            ELSE IF OutMismatch(n3) THEN [n |-> n3, err |-> "throws"]
            ELSE WithPath(n3)
    BY DEF Constructed, n0, n1, n2, n3
  <2> HIDE DEF d, N
  <2> QED BY <2>1
<1> HIDE DEF d
<1>2. c.names \in Seq(STRING) /\ c.labels \in Seq(Seq(STRING)) /\ N \in Nat /\ Len(c.labels) \in Nat
  OBVIOUS
<1> DEFINE Good(n) == Sound(n) /\ n.tokens \in Seq(STRING)
<1>0. Good(Fresh)
  BY FreshIsSound DEF Fresh
<1>3. SUFFICES ASSUME N <= Len(c.labels) PROVE Good(d.n)
  BY <1>1, <1>2, <1>0 DEF d
<1>4. labels \in Seq(Seq(STRING)) /\ Len(labels) = N
  BY <1>2, <1>3
<1> HIDE DEF labels, N
<1>5. /\ n0 \in Form(n0) /\ n0.base = 0 /\ n0.tensors = <<>> /\ n0.tokens = <<>>
      /\ n0.names = c.names /\ n0.labels = labels
  BY <1>2, <1>4, FreshIsSound DEF Fresh, Form, Sound
<1> HIDE DEF n0
<1>6. SameSlots(n1, n0) /\ n1.tokens = c.tokens
  BY <1>5, FormedAre
<1> HIDE DEF n1
<1>7. Good(n0)
  BY <1>5, Unslotted
<1>8. CASE c.tokens # <<>> /\ BadOrderLine(c.tokens)
  BY <1>1, <1>7, <1>8, <1>0
<1>9. CASE c.tokens # <<>> => ~BadOrderLine(c.tokens)
  <2>1. Good(n1)
    BY <1>6, <1>7, <1>9, SlotsKept
  <2>2. Good(n2)
    <3>1. n1 \in Form(n1) /\ Len(n1.labels) = Len(n1.names) /\ (n1.tokens # <<>> => ~BadOrderLine(n1.tokens))
      BY <1>4, <1>5, <1>6, <1>9 DEF SameSlots, N
    <3> QED BY <2>1, <3>1, Slotted
  <2> HIDE DEF n2
  <2>3. Good(n3)
    <3>1. SameSlots([n2 EXCEPT !.out = ExpectedOut(n2)], n2)
          /\ [n2 EXCEPT !.out = ExpectedOut(n2)].tokens = n2.tokens
      BY <2>2, FormedAre DEF Sound
    <3>2. n2.tokens # <<>> => ~BadOrderLine(n2.tokens)
      BY <2>2 DEF Sound, Agrees
    <3>3. Sound([n2 EXCEPT !.out = ExpectedOut(n2)])
      BY <2>2, <3>1, <3>2, SlotsKept
    <3> QED BY <2>2, <3>1, <3>3
  <2> HIDE DEF n3
  <2>4. Good(WithPath(n3).n)
    BY <2>3, WithPathKeeps
  <2> QED BY <1>1, <1>7, <1>0, <2>1, <2>3, <2>4
<1> QED BY <1>8, <1>9

LEMMA PlannedKeeps ==
  ASSUME NEW p \in [tensors : Seq(UniTensors), out : Seq(STRING), rowrank : Int,
                    names : Seq(STRING), tokens : Seq(STRING)]
  PROVE  /\ Sound(Planned(p.tensors, p.out, p.rowrank, p.names, p.tokens).n)
         /\ Planned(p.tensors, p.out, p.rowrank, p.names, p.tokens).n.tokens \in Seq(STRING)
<1> DEFINE us == p.tensors
           N == Len(us)
           d == Planned(us, p.out, p.rowrank, p.names, p.tokens)
           n0 == [Fresh EXCEPT !.tokens = p.tokens, !.out = p.out, !.rowrank = p.rowrank]
           labels == [i \in DOMAIN us |-> us[i].own]
           m0 == [n0 EXCEPT !.names = p.names, !.labels = labels]
           m1 == WithSlots(m0)
           n1 == [m1 EXCEPT !.null = TRUE]
           n2 == [n1 EXCEPT !.tensors = us]
           refused == \/ N < 2 \/ N # Len(p.names) \/ Repeated(p.names)
                      \/ p.tokens # <<>> /\ BadOrderLine(p.tokens)
<1>1. d.n \in {Fresh, n1, n2} /\ (refused => d.n = Fresh)
  <2> HIDE DEF n0, labels, n1, n2, refused
  <2>1. d = IF refused THEN [n |-> Fresh, err |-> "throws"]
            ELSE IF p.tokens # <<>> /\ OrderNamesMismatch(n1) THEN [n |-> n1, err |-> "throws"]
            ELSE IF OutMismatch(n1) THEN [n |-> n1, err |-> "throws"]
            ELSE [n |-> n2, err |-> "ok"]
    BY DEF Planned, n0, labels, n1, n2, refused
  <2> HIDE DEF d
  <2> QED BY <2>1
<1> HIDE DEF d
<1> DEFINE Good(n) == Sound(n) /\ n.tokens \in Seq(STRING)
<1>0. Good(Fresh)
  BY FreshIsSound DEF Fresh
<1>2. SUFFICES ASSUME ~refused PROVE Good(d.n)
  BY <1>1, <1>0 DEF d
<1>3. /\ us \in Seq(UniTensors) /\ N \in Nat /\ DOMAIN us = 1..N
      /\ \A i \in 1..N : us[i] \in UniTensors
      /\ p.names \in Seq(STRING) /\ Len(p.names) = N
      /\ p.tokens # <<>> => ~BadOrderLine(p.tokens)
  BY <1>2
<1> HIDE DEF us, N, refused
<1>4. /\ labels \in Seq(Seq(STRING)) /\ Len(labels) = N
      /\ \A i \in 1..N : Len(labels[i]) = Len(us[i].dims)
  <2>1. \A u \in UniTensors : u.own \in Seq(STRING) /\ Len(u.own) = Len(u.dims)
    BY DEF UniTensors
  <2>2. labels \in [1..N -> Seq(STRING)] /\ \A i \in 1..N : labels[i] = us[i].own
    BY <1>3, <2>1
  <2> HIDE DEF labels
  <2> QED BY <1>3, <2>1, <2>2, ListFacts, ZenonT(60)
<1> HIDE DEF labels
<1>5. /\ m0 \in Form(m0) /\ m0.names = p.names /\ m0.labels = labels /\ m0.tokens = p.tokens
  <2>1. /\ n0 \in Form(n0) /\ n0.tokens = p.tokens
    BY FreshIsSound DEF Sound, Form, Fresh
  <2> HIDE DEF n0
  <2> QED BY <1>3, <1>4, <2>1 DEF Form
<1> HIDE DEF m0
<1>6. Good(m1) /\ m1.base = N /\ m1.labels = labels
  <2>1. Len(m0.labels) = Len(m0.names) /\ (m0.tokens # <<>> => ~BadOrderLine(m0.tokens))
    BY <1>3, <1>4, <1>5
  <2> QED BY <1>3, <1>5, <2>1, Slotted
<1> HIDE DEF m1
<1>7. Good(n1) /\ n1.base = N /\ n1.labels = labels
  <2>1. SameSlots(n1, m1) /\ n1.tokens = m1.tokens
    BY <1>6 DEF Sound, SameSlots, Form
  <2> HIDE DEF n1
  <2>2. m1.tokens # <<>> => ~BadOrderLine(m1.tokens)
    BY <1>6 DEF Sound, Agrees
  <2> QED BY <1>6, <2>1, <2>2, SlotsKept DEF SameSlots
<1> HIDE DEF n1
<1>8. Good(n2)
  <2>1. us \in Seq(UniTensors \cup {Void})
    BY <1>3
  <2>2. /\ n2 \in Form(n2) /\ n2.tensors = us /\ n2.base = N /\ n2.labels = labels
        /\ n2.names = n1.names /\ n2.tokens = n1.tokens
    BY <1>7, <2>1 DEF Sound, Form
  <2> HIDE DEF n2
  <2>3. Agrees(n2)
    BY <1>3, <1>4, <1>7, <2>2 DEF Sound, Agrees, N
  <2> QED BY <1>7, <2>2, <2>3 DEF Sound
<1> QED BY <1>1, <1>7, <1>8, <1>0

-----------------------------------------------------------------------------
(* The calls on a network that is there.                                   *)

LEMMA PutKeeps ==
  ASSUME NEW m, Sound(m), NEW i \in DOMAIN m.tensors, NEW u \in UniTensors \cup {Void},
         u # Void => Len(m.labels[i]) = Len(u.dims)
  PROVE  Sound([m EXCEPT !.tensors[i] = u])
<1> DEFINE n == [m EXCEPT !.tensors[i] = u]
           T == UniTensors \cup {Void}
<1>1. /\ m.tensors \in Seq(T) /\ Len(m.tensors) \in Nat /\ DOMAIN m.tensors = 1..Len(m.tensors)
  BY DEF Sound, Form
<1>2. [m.tensors EXCEPT ![i] = u] \in Seq(T) /\ Len([m.tensors EXCEPT ![i] = u]) = Len(m.tensors)
  <2> HIDE DEF T
  <2>1. u \in T
    BY DEF T
  <2> QED BY <1>1, <2>1
<1>3. n = [m EXCEPT !.tensors = [m.tensors EXCEPT ![i] = u]]
  BY DEF Sound, Form
<1> HIDE DEF n
<1>4. /\ n \in Form(n) /\ n.tensors = [m.tensors EXCEPT ![i] = u]
      /\ n.base = m.base /\ n.labels = m.labels /\ n.names = m.names /\ n.tokens = m.tokens
  BY <1>2, <1>3 DEF Sound, Form
<1>5. \A j \in DOMAIN n.tensors : n.tensors[j] # Void => Len(n.tensors[j].dims) = Len(n.labels[j])
  BY <1>1, <1>4 DEF Sound, Agrees
<1>6. Len(n.tensors) = Len(m.tensors)
  BY <1>2, <1>4
<1>7. Agrees(n)
  BY <1>4, <1>5, <1>6 DEF Sound, Agrees
<1> QED BY <1>4, <1>7 DEF Sound, n

LEMMA ClonedKeeps ==
  ASSUME NEW m, Sound(m)
  PROVE  Sound([m EXCEPT !.tensors = <<>>, !.line = <<>>, !.path = <<>>])
<1> DEFINE n == [m EXCEPT !.tensors = <<>>, !.line = <<>>, !.path = <<>>]
           T == Seq(UniTensors \cup {Void})
<1>1. <<>> \in T
  OBVIOUS
<1>2. m \in [names : Seq(STRING), labels : Seq(Seq(STRING)), tensors : T, base : Nat,
             tokens : {m.tokens}, out : {m.out}, rowrank : {m.rowrank},
             line : {m.line}, null : {m.null}, path : {m.path}]
  BY DEF Sound, Form
<1> HIDE DEF T
<1>3. /\ n \in [names : Seq(STRING), labels : Seq(Seq(STRING)), tensors : T, base : Nat,
                tokens : {n.tokens}, out : {n.out}, rowrank : {n.rowrank},
                line : {n.line}, null : {n.null}, path : {n.path}]
      /\ n.tensors = <<>> /\ n.base = m.base /\ n.labels = m.labels /\ n.names = m.names
      /\ n.tokens = m.tokens
  BY <1>1, <1>2
<1>4. n \in Form(n)
  BY <1>3 DEF Form, T
<1> HIDE DEF n
<1>5. Agrees(n)
  BY <1>3 DEF Sound, Agrees
<1> QED BY <1>4, <1>5 DEF Sound, n

LEMMA ReorderedKeeps ==
  ASSUME Sound(net), NEW tokens
  PROVE  Sound(Reordered(tokens).n)
<1> DEFINE n0 == [net EXCEPT !.line = tokens, !.tokens = <<>>]
           n1 == [n0 EXCEPT !.tokens = tokens]
<1>1. SameSlots(n0, net) /\ n0.tokens = <<>>
  BY DEF Sound, SameSlots, Form
<1>2. /\ tokens = <<>> \/ BadOrderLine(tokens) => Reordered(tokens).n = n0
      /\ tokens # <<>> /\ ~BadOrderLine(tokens) => Reordered(tokens) = WithPath(n1)
  BY DEF Reordered
<1> HIDE DEF n0
<1>3. Sound(n0)
  BY <1>1, SlotsKept
<1>4. SameSlots(n1, n0) /\ n1.tokens = tokens
  BY <1>3, FormedAre DEF Sound
<1> HIDE DEF n1
<1>5. CASE tokens # <<>> /\ ~BadOrderLine(tokens)
  <2>1. Sound(n1)
    BY <1>3, <1>4, <1>5, SlotsKept
  <2> QED BY <1>2, <1>5, <2>1, WithPathKeeps
<1> QED BY <1>2, <1>3, <1>5

\* Every call and every step leaves a sound network.
LEMMA NetworkKeeps ==
  ASSUME Sound(net), [Next]_vars
  PROVE  Sound(net')
<1>1. \A outcome, after : Ends(outcome, after) => net' = after
  BY DEF Ends, Becomes
<1>2. ASSUME NEW lines \in Files, FromString(lines) PROVE Sound(net')
  <2>1. net' = Loaded(lines).n
    BY <1>1, <1>2 DEF FromString
  <2> QED BY <2>1, FilesAssumption, LoadedKeeps
<1>3. ASSUME NEW c \in Constructions, Construct(c.names, c.labels, c.out, c.outrk, c.tokens)
      PROVE  Sound(net')
  <2>1. net' = Constructed(c.names, c.labels, c.out, c.outrk, c.tokens).n
    BY <1>1, <1>3 DEF Construct
  <2> QED BY <2>1, ConstructionsAssumption, ConstructedKeeps
<1>4. ASSUME NEW p \in Plans, Contract_plan(p.tensors, p.out, p.rowrank, p.names, p.tokens)
      PROVE  Sound(net')
  <2>1. net' \in {net, Planned(p.tensors, p.out, p.rowrank, p.names, p.tokens).n}
    BY <1>1, <1>4 DEF Contract_plan
  <2> QED BY <2>1, PlansAssumption, PlannedKeeps
<1>5. CASE Clear
  <2> DEFINE n == [Fresh EXCEPT !.line = net.line, !.path = net.path]
  <2>1. net' = n
    BY <1>1, <1>5 DEF Clear
  <2>2. SameSlots(n, Fresh) /\ n.tokens = <<>>
    BY FreshIsSound DEF Sound, SameSlots, Form, Fresh
  <2> HIDE DEF n
  <2> QED BY <2>1, <2>2, FreshIsSound, SlotsKept
<1>6. CASE ReplaceByClone
  BY <1>1, <1>6, ClonedKeeps DEF ReplaceByClone
<1>7. Void \in UniTensors \cup {Void} /\ Tensors \subseteq UniTensors \cup {Void}
  BY TensorsAssumption
<1>8. ASSUME NEW name \in SlotNames, RmUniTensor(name) PROVE Sound(net')
  <2> DEFINE i == Pos(net)[name]
  <2>1. net' = net \/ (i \in DOMAIN net.tensors /\ net' = [net EXCEPT !.tensors[i] = Void])
    BY <1>1, <1>8 DEF RmUniTensor
  <2> HIDE DEF i
  <2> QED BY <1>7, <2>1, PutKeeps
<1>9. ASSUME NEW name \in SlotNames, NEW u \in Tensors, PutUniTensor(name, u) PROVE Sound(net')
  <2> DEFINE i == Pos(net)[name]
  <2>1. \/ net' = net
        \/ /\ i \in DOMAIN net.tensors /\ Len(net.labels[i]) = Len(u.dims)
           /\ net' = [net EXCEPT !.tensors[i] = u]
    BY <1>1, <1>9 DEF PutUniTensor
  <2> HIDE DEF i
  <2> QED BY <1>7, <2>1, PutKeeps
<1>10. ASSUME NEW tokens \in Orders, SetOrder(tokens) PROVE Sound(net')
  BY <1>1, <1>10, ReorderedKeeps DEF SetOrder
<1>11. CASE SetOrderOptimal
  <2> DEFINE n == [net EXCEPT !.tokens = <<>>]
  <2>1. net' = n
    BY <1>1, <1>11 DEF SetOrderOptimal, Becomes
  <2>2. SameSlots(n, net) /\ n.tokens = <<>>
    BY FormedAre DEF Sound
  <2> HIDE DEF n
  <2> QED BY <2>1, <2>2, SlotsKept
<1>12. CASE SearchReturns
  <2>1. PICK text : net' = IF search.phase # "done" THEN net
                           ELSE IF BadOrderLine(text) THEN [net EXCEPT !.line = text]
                           ELSE [net EXCEPT !.line = text, !.tokens = text]
    BY <1>12, Zenon DEF SearchReturns, Becomes
  <2> DEFINE n1 == [net EXCEPT !.line = text]
             n2 == [n1 EXCEPT !.tokens = text]
  <2>2. net' = net \/ net' = n1 \/ (net' = n2 /\ ~BadOrderLine(text))
    BY <2>1
  <2>3. SameSlots(n1, net) /\ n1.tokens = net.tokens
    BY FormedAre DEF Sound
  <2> HIDE DEF n1
  <2>4. Sound(n1)
    BY <2>3, SlotsKept DEF Sound, Agrees
  <2>5. SameSlots(n2, n1) /\ n2.tokens = text
    BY <2>4, FormedAre DEF Sound
  <2> HIDE DEF n2
  <2>6. ~BadOrderLine(text) => Sound(n2)
    BY <2>4, <2>5, SlotsKept
  <2> QED BY <2>2, <2>4, <2>6
<1>13. LaunchBegin \/ SearchStep \/ WalkStep \/ LaunchReturns \/ UNCHANGED vars => net' = net
  BY Zenon DEF LaunchBegin, SearchStep, WalkStep, LaunchReturns, vars
<1> QED
  BY <1>2, <1>3, <1>4, <1>5, <1>6, <1>8, <1>9, <1>10, <1>11, <1>12, <1>13, Zenon
     DEF Next, Call, Step

\* PutUniTensor's checks and those of the definitions hold throughout, for any
\* files, arguments, orders and tensors, whatever calls threw before.
THEOREM SlotsCorrect == Spec => []SlotsAgree
<1>1. Init => Sound(net)
  BY FreshIsSound DEF Init
<1>2. Sound(net) /\ [Next]_vars => Sound(net)'
  BY NetworkKeeps
<1>3. Sound(net) => SlotsAgree
  BY DEF Sound, SlotsAgree
<1> QED BY <1>1, <1>2, <1>3, PTL DEF Spec

-----------------------------------------------------------------------------
(* The search that setOrder runs on the tensors of the network.            *)

\* The tokens of its texts: names and punctuation. (To the provers STRING is a
\* set of which no member is known.)
Tokens == STRING \cup {"(", ",", ")"}

LEMMA TokensPunctuated == Punctuated(Tokens)
BY Zenon DEF Tokens, Punctuated

\* The legs of a UniTensor: its labels with their dimensions.
LEMMA LegsOfTensor ==
  ASSUME NEW u \in UniTensors
  PROVE  Zip(u.own, u.dims) \in Seq(STRING \X Nat)
<1> DEFINE N == Len(u.own)
           legs == [k \in 1..N |-> <<u.own[k], u.dims[k]>>]
<1>1. /\ u.own \in Seq(STRING) /\ u.dims \in Seq(Nat) /\ N \in Nat /\ N = Len(u.dims)
  BY DEF UniTensors
<1>2. Zip(u.own, u.dims) = legs
  BY <1>1 DEF Zip
<1>3. \A k \in 1..N : u.own[k] \in STRING /\ u.dims[k] \in Nat
  BY <1>1, ListFacts
<1> HIDE DEF N
<1>4. legs \in [1..N -> STRING \X Nat]
  BY <1>3
<1> HIDE DEF legs
<1> QED BY <1>1, <1>2, <1>4, ListFacts

\* What setOrder hands to the search.
LEMMA Handed ==
  ASSUME Sound(net), ~NotReady(net),
         NEW tensors, tensors = [i \in DOMAIN net.tensors |->
                      [legs |-> Zip(net.tensors[i].own, net.tensors[i].dims),
                       cost |-> 0, id |-> {}, text |-> <<net.names[i]>>]]
  PROVE  tensors \in Seq(PseudoUniTensors(STRING, Tokens))
<1> DEFINE N == Len(net.tensors)
           P == PseudoUniTensors(STRING, Tokens)
<1>1. /\ net.tensors \in Seq(UniTensors \cup {Void}) /\ N \in Nat /\ DOMAIN net.tensors = 1..N
      /\ net.names \in Seq(STRING)
  BY DEF Sound, Form
<1>2. \A i \in 1..N : net.tensors[i] \in UniTensors
  <2>1. \A i \in 1..N : net.tensors[i] \in UniTensors \cup {Void} /\ net.tensors[i] # Void
    BY <1>1, SetOf, ListFacts DEF NotReady
  <2> QED BY <2>1
<1>3. \A i \in 1..N : net.names[i] \in STRING
  <2>1. Len(net.tensors) # 0 => Len(net.names) = Len(net.tensors)
    BY <1>1 DEF Sound, Agrees
  <2> QED BY <1>1, <2>1, ListFacts
<1>4. \A i \in 1..N : [legs |-> Zip(net.tensors[i].own, net.tensors[i].dims),
                       cost |-> 0, id |-> {}, text |-> <<net.names[i]>>] \in P
  <2>1. SUFFICES ASSUME NEW i \in 1..N, NEW legs, legs = Zip(net.tensors[i].own, net.tensors[i].dims),
                        NEW text, text = <<net.names[i]>>
                 PROVE  [legs |-> legs, cost |-> 0, id |-> {}, text |-> text] \in P
    OBVIOUS
  <2>2. legs \in Seq(STRING \X Nat)
    BY <1>2, <2>1, LegsOfTensor
  <2>3. text \in Seq(Tokens)
    <3>1. net.names[i] \in Tokens
      BY <1>3, Zenon DEF Tokens
    <3> QED BY <2>1, <3>1, Lists
  <2> QED BY <2>2, <2>3 DEF PseudoUniTensors
<1> HIDE DEF P, N
<1>5. tensors \in [1..N -> P]
  BY <1>1, <1>4
<1>6. tensors \in Seq(P)
  BY <1>1, <1>5, ListFacts
<1> QED BY <1>6 DEF P

LEMMA IdleIs == Idle \in SearchStates(STRING, Tokens) /\ Idle.phase = "idle"
BY DEF Idle, SearchStates

LEMMA SearchInNetworkKeeps ==
  ASSUME Sound(net), SearchLegsInv(STRING, Tokens), [Next]_vars
  PROVE  SearchLegsInv(STRING, Tokens)'
<1>1. CASE SetOrderOptimal
  <2> DEFINE tensors == [i \in DOMAIN net.tensors |->
                           [legs |-> Zip(net.tensors[i].own, net.tensors[i].dims),
                            cost |-> 0, id |-> {}, text |-> <<net.names[i]>>]]
  <2>1. CASE NotReady(net)
    <3>1. UNCHANGED search
      BY <1>1, <2>1 DEF SetOrderOptimal, Ends
    <3> QED BY <3>1 DEF SearchLegsInv, SearchInv, Running
  <2>2. CASE ~NotReady(net)
    <3>1. search' = Searching(tensors)
      BY <1>1, <2>2 DEF SetOrderOptimal
    <3>2. tensors \in Seq(PseudoUniTensors(STRING, Tokens))
      BY <2>2, Handed
    <3> HIDE DEF tensors
    <3>3. Sought(search', STRING, Tokens)
      BY <3>1, <3>2, SearchStarts
    <3>4. search'.phase \in {"pairs", "combine", "done"} => LegInv(search')
      BY <3>1, <3>2, LegsStart
    <3> QED BY <3>3, <3>4 DEF SearchLegsInv, SearchInv, Sought, Running
  <2> QED BY <2>1, <2>2
<1>2. CASE SearchStep
  BY <1>2, TokensPunctuated, LegsStepKeeps DEF SearchStep
<1>3. CASE SearchReturns
  <2>1. search' = Idle
    BY <1>3 DEF SearchReturns
  <2> QED BY <2>1, IdleIs DEF SearchLegsInv, SearchInv, Running
<1>4. CASE UNCHANGED search
  BY <1>4 DEF SearchLegsInv, SearchInv, Running
<1>5. SetOrderOptimal \/ SearchStep \/ SearchReturns \/ UNCHANGED search
  <2>1. \A outcome, after : Ends(outcome, after) => UNCHANGED search
    BY DEF Ends
  <2> QED BY <2>1, Zenon DEF Next, Call, Step, FromString, Construct, Contract_plan, Clear,
             ReplaceByClone, RmUniTensor, PutUniTensor, SetOrder, LaunchBegin, WalkStep,
             LaunchReturns, vars
<1> QED BY <1>1, <1>2, <1>3, <1>4, <1>5

\* The search in a network that is loaded, filled, emptied, copied and ordered
\* again: what SearchProofs proves of one search holds of every one.
THEOREM SearchInNetwork == Spec => []EachTensorOnce /\ []LegsOfMembers
<1> DEFINE Inv == Sound(net) /\ SearchLegsInv(STRING, Tokens)
<1>1. Init => Inv
  <2>1. Init => SearchLegsInv(STRING, Tokens)
    BY IdleIs DEF Init, SearchLegsInv, SearchInv, Running
  <2> QED BY <2>1, FreshIsSound DEF Init
<1>2. Inv /\ [Next]_vars => Inv'
  BY NetworkKeeps, SearchInNetworkKeeps
<1>3. Inv => EachTensorOnce
  BY OnceEach DEF SearchLegsInv
<1>4. Inv => LegsOfMembers
  BY LegsAre
<1> QED BY <1>1, <1>2, <1>3, <1>4, PTL DEF Spec

-----------------------------------------------------------------------------
(* The parser of an order.                                                 *)

Operators == {"(", ","}
Children == Nat \X Nat
ParserStates ==
  [ops : Seq(Operators), stk : Seq(Nat), tree : Seq(Children),
   err : {"ok", "undefined", "throws"}]

\* The places of the names are slots.
Places(n, pos) == \A name \in DOMAIN pos : pos[name] \in 1..n

LEMMA FrontIs ==
  ASSUME NEW X, NEW s \in Seq(X)
  PROVE  /\ Front(s) \in Seq(X)
         /\ s # <<>> => /\ Len(Front(s)) = Len(s) - 1 /\ Len(s) - 1 \in Nat
                        /\ \A i \in 1..(Len(s) - 1) : Front(s)[i] = s[i]
                        /\ s = Append(Front(s), s[Len(s)])
                        /\ s[Len(s)] \in X
<1>1. Front(s) \in Seq(X)
  BY DEF Front
<1>2. ASSUME s # <<>>
      PROVE  /\ Len(Front(s)) = Len(s) - 1 /\ Len(s) - 1 \in Nat
             /\ \A i \in 1..(Len(s) - 1) : Front(s)[i] = s[i]
             /\ s = Append(Front(s), s[Len(s)])
             /\ s[Len(s)] \in X
  <2> DEFINE N == Len(s) - 1
             t == SubSeq(s, 1, N)
  <2>1. N \in Nat /\ Len(s) = N + 1 /\ N + 1 \in 1..Len(s) /\ \A i \in 1..N : s[i] \in X
    BY <1>2
  <2>2. s[N + 1] \in X
    BY <2>1
  <2>3. Front(s) = t
    BY DEF Front
  <2>4. t \in Seq(X) /\ Len(t) = N /\ \A i \in 1..N : t[i] = s[i]
    <3> HIDE DEF N
    <3>1. 1 \in Int /\ N \in Int
      BY <2>1
    <3>2. t \in Seq(X) /\ Len(t) = (IF 1 <= N THEN N - 1 + 1 ELSE 0) /\ \A i \in 1..(N - 1 + 1) : t[i] = s[1 + i - 1]
      BY <2>1, <3>1, SubSeqProperties
    <3> HIDE DEF t
    <3> QED BY <2>1, <3>2
  <2> HIDE DEF N, t
  <2>5. s = Append(t, s[N + 1])
    <3>1. /\ Append(t, s[N + 1]) \in Seq(X) /\ Len(Append(t, s[N + 1])) = N + 1
          /\ \A i \in 1..N : Append(t, s[N + 1])[i] = t[i]
          /\ Append(t, s[N + 1])[N + 1] = s[N + 1]
      BY <2>2, <2>4, AppendIs
    <3>2. \A i \in 1..(N + 1) : i \in 1..N \/ i = N + 1
      BY <2>1
    <3>3. \A i \in 1..(N + 1) : Append(t, s[N + 1])[i] = s[i]
      BY <2>4, <3>1, <3>2
    <3> QED BY <2>1, <3>1, <3>3, SeqEqual
  <2> QED BY <2>1, <2>2, <2>3, <2>4, <2>5 DEF N
<1> QED BY <1>1, <1>2

LEMMA ReducedState ==
  ASSUME NEW n \in Nat, NEW s \in ParserStates
  PROVE  Reduced(n, s) \in ParserStates
<1>1. /\ s.ops \in Seq(Operators) /\ s.stk \in Seq(Nat) /\ s.tree \in Seq(Children)
      /\ s.err \in {"ok", "undefined", "throws"}
      /\ s = [ops |-> s.ops, stk |-> s.stk, tree |-> s.tree, err |-> s.err]
  BY DEF ParserStates
<1>2. CASE s.err # "ok"
  BY <1>2 DEF Reduced
<1>3. CASE s.err = "ok" /\ Len(s.stk) < 2
  BY <1>1, <1>3 DEF Reduced, ParserStates
<1>4. CASE s.err = "ok" /\ ~(Len(s.stk) < 2)
  <2> DEFINE k == Len(s.stk)
             ops == Front(s.ops)
             stk == Append(SubSeq(s.stk, 1, k - 2), n + Len(s.tree) + 1)
             tree == Append(s.tree, <<s.stk[k - 1], s.stk[k]>>)
  <2>1. k \in Nat /\ k >= 2 /\ Len(s.tree) \in Nat
    BY <1>1, <1>4
  <2>2. ops \in Seq(Operators)
    BY <1>1, FrontIs
  <2>3. stk \in Seq(Nat)
    BY <1>1, <2>1
  <2>4. tree \in Seq(Children)
    <3>1. <<s.stk[k - 1], s.stk[k]>> \in Children
      BY <1>1, <2>1 DEF Children
    <3> QED BY <1>1, <3>1, AppendIs
  <2>5. Reduced(n, s) = [ops |-> ops, stk |-> stk, tree |-> tree, err |-> "ok"]
    BY <1>4 DEF Reduced
  <2> HIDE DEF ops, stk, tree
  <2> QED BY <2>2, <2>3, <2>4, <2>5 DEF ParserStates
<1> QED BY <1>2, <1>3, <1>4

LEMMA SoleIs ==
  ASSUME NEW x
  PROVE  Sole({x}) = x
BY DEF Sole

LEMMA SoleReduced ==
  ASSUME NEW n, NEW s
  PROVE  Sole({Reduced(n, u) : u \in {s}}) = Reduced(n, s)
<1>1. {Reduced(n, u) : u \in {s}} = {Reduced(n, s)}
  OBVIOUS
<1> QED BY <1>1, SoleIs, Zenon

LEMMA SoleParsed ==
  ASSUME NEW n, NEW pos, NEW s, NEW tok
  PROVE  Sole({Parsed(n, pos, u, tok) : u \in {s}}) = Parsed(n, pos, s, tok)
<1>1. {Parsed(n, pos, u, tok) : u \in {s}} = {Parsed(n, pos, s, tok)}
  OBVIOUS
<1> QED BY <1>1, SoleIs, Zenon

\* The passes of the inner loop, one after the other.
LEMMA ReducedSteps ==
  ASSUME NEW n \in Nat, NEW s \in ParserStates, NEW k \in Nat
  PROVE  \E f \in [0..k -> ParserStates] :
           /\ f[0] = s /\ \A i \in 1..k : f[i] = Reduced(n, f[i - 1])
           /\ ReducedTimes(n, s, k) = f[k]
<1> DEFINE step == [i \in 1..k |-> [t \in ParserStates |-> Reduced(n, t)]]
           next(h) == Sole({Reduced(n, u) : u \in {h}})
           g == CHOOSE g : g = [i \in 0..k |-> IF i = 0 THEN s ELSE next(g[i - 1])]
<1>0. \A h : next(h) = Reduced(n, h)
  BY SoleReduced
<1>1. step \in [1..k -> [ParserStates -> ParserStates]]
  BY ReducedState
<1>2. PICK f \in [0..k -> ParserStates] : Unfolds(f, k, s, step)
  <2> HIDE DEF step
  <2> QED BY <1>1, Recursion
<1>3. f[0] = s /\ \A i \in 1..k : f[i] = step[i][f[i - 1]]
  BY <1>2 DEF Unfolds
<1>4. \A i \in 1..k : i - 1 \in 0..k /\ f[i - 1] \in ParserStates
  OBVIOUS
<1>5. \A i \in 1..k : f[i] = Reduced(n, f[i - 1])
  BY <1>3, <1>4
<1>6. f = [i \in 0..k |-> IF i = 0 THEN s ELSE Reduced(n, f[i - 1])]
  <2>1. \A i \in 0..k : f[i] = IF i = 0 THEN s ELSE Reduced(n, f[i - 1])
    BY <1>3, <1>5
  <2> QED BY <2>1
<1>8. ReducedTimes(n, s, k) = g[k]
  BY DEF ReducedTimes
<1> HIDE DEF next
<1>7. g = [i \in 0..k |-> IF i = 0 THEN s ELSE next(g[i - 1])]
  <2>1. f = [i \in 0..k |-> IF i = 0 THEN s ELSE next(f[i - 1])]
    BY <1>0, <1>6
  <2> QED BY <2>1 DEF g
<1> HIDE DEF g
<1>9. g \in [0..k -> ParserStates] /\ g[0] = s /\ \A i \in 1..k : g[i] = Reduced(n, g[i - 1])
  <2>1. g[0] = s /\ \A i \in 1..k : g[i] = Reduced(n, g[i - 1])
    BY <1>0, <1>7
  <2> DEFINE S == {i \in Nat : i <= k => g[i] \in ParserStates}
  <2>2. 0 \in S
    BY <2>1
  <2>3. ASSUME NEW i \in Nat, i \in S PROVE i + 1 \in S
    <3>1. SUFFICES ASSUME i + 1 <= k PROVE g[i + 1] \in ParserStates
      OBVIOUS
    <3>2. g[i] \in ParserStates
      BY <2>3, <3>1
    <3>3. i + 1 \in 1..k /\ (i + 1) - 1 = i
      BY <3>1
    <3>4. g[i + 1] = Reduced(n, g[i])
      BY <2>1, <3>3
    <3> QED BY <3>2, <3>4, ReducedState
  <2> HIDE DEF S
  <2>4. Nat \subseteq S
    BY <2>2, <2>3, NatInduct
  <2>5. \A i \in 0..k : g[i] \in ParserStates
    BY <2>4 DEF S
  <2> QED BY <1>7, <2>1, <2>5
<1> QED BY <1>8, <1>9

LEMMA MaxOrZero ==
  ASSUME NEW n \in Nat, NEW T, T \subseteq 1..n
  PROVE  LET m == Max({0} \cup T)
         IN m \in 0..n /\ (m = 0 \/ m \in T) /\ \A y \in T : m >= y
<1> DEFINE S == {0} \cup T
<1>1. \E x \in S : \A y \in S : x >= y
  <2>1. CASE T = {}
    BY <2>1
  <2>2. CASE T # {}
    <3>1. Max(T) \in T /\ \A y \in T : Max(T) >= y
      BY <2>2, MaxIs
    <3>2. Max(T) >= 0
      <4>1. \A x \in T : x >= 0
        OBVIOUS
      <4> QED BY <3>1, <4>1
    <3> QED BY <3>1, <3>2
  <2> QED BY <2>1, <2>2
<1>2. Max(S) \in S /\ \A y \in S : Max(S) >= y
  BY <1>1 DEF Max
<1> DEFINE m == Max(S)
<1>3. m \in S /\ \A y \in S : m >= y
  BY <1>2
<1> HIDE DEF m
<1>4. m \in 0..n /\ (m = 0 \/ m \in T) /\ \A y \in T : m >= y
  BY <1>3
<1> QED BY <1>4 DEF m

LEMMA OpenOpsIs ==
  ASSUME NEW ops \in Seq(Operators), NEW N, N = Len(ops)
  PROVE  /\ OpenOps(ops) \in 0..N
         /\ \A i \in 1..N : i > N - OpenOps(ops) => ops[i] = ","
         /\ OpenOps(ops) < N => ops[N - OpenOps(ops)] = "("
<1> DEFINE T == {i \in 1..N : ops[i] = "("}
           m == Max({0} \cup T)
<1>1. N \in Nat /\ DOMAIN ops = 1..N /\ \A i \in 1..N : ops[i] \in Operators
  OBVIOUS
<1>2. \A i \in 1..N : ops[i] = "(" \/ ops[i] = ","
  BY <1>1 DEF Operators
<1>3. m \in 0..N /\ (m = 0 \/ m \in T) /\ \A y \in T : m >= y
  <2>1. T \subseteq 1..N
    OBVIOUS
  <2> HIDE DEF T
  <2> QED BY <1>1, <2>1, MaxOrZero
<1>4. OpenOps(ops) = N - m
  BY <1>1 DEF OpenOps
<1>5. /\ m = 0 \/ ops[m] = "("
      /\ \A i \in 1..N : ops[i] = "(" => m >= i
  BY <1>3
<1>6. m \in 0..N
  BY <1>3
<1> HIDE DEF m
<1>7. N - m \in 0..N /\ N - (N - m) = m /\ \A i \in 1..N : i > m => ~(m >= i)
  BY <1>1, <1>6
<1>8. \A i \in 1..N : i > m => ops[i] = ","
  BY <1>2, <1>5, <1>7, Zenon
<1> DEFINE k == OpenOps(ops)
<1>9. k = N - m
  BY <1>4
<1> HIDE DEF k
<1>10. k \in 0..N /\ N - k = m
  BY <1>7, <1>9
<1>11. k < N => m # 0
  BY <1>1, <1>6, <1>9
<1> QED BY <1>5, <1>8, <1>10, <1>11 DEF k

LEMMA ParsedState ==
  ASSUME NEW n \in Nat, NEW pos, NEW s \in ParserStates, NEW tok, Places(n, pos)
  PROVE  Parsed(n, pos, s, tok) \in ParserStates
<1> DEFINE c == ReducedTimes(n, s, OpenOps(s.ops))
<1>1. /\ s.ops \in Seq(Operators) /\ s.stk \in Seq(Nat) /\ s.tree \in Seq(Children)
      /\ s.err \in {"ok", "undefined", "throws"}
  BY DEF ParserStates
<1>2. OpenOps(s.ops) \in Nat
  <2>1. OpenOps(s.ops) \in 0..Len(s.ops)
    BY <1>1, OpenOpsIs, Zenon
  <2>2. Len(s.ops) \in Nat
    BY <1>1
  <2> QED BY <2>1, <2>2
<1>3. c \in ParserStates
  <2>1. \A k \in Nat : ReducedTimes(n, s, k) \in ParserStates
    <3>1. SUFFICES ASSUME NEW k \in Nat PROVE ReducedTimes(n, s, k) \in ParserStates
      OBVIOUS
    <3>2. PICK f \in [0..k -> ParserStates] :
            /\ f[0] = s /\ \A i \in 1..k : f[i] = Reduced(n, f[i - 1])
            /\ ReducedTimes(n, s, k) = f[k]
      BY ReducedSteps, Zenon
    <3> QED BY <3>2
  <2> QED BY <1>2, <2>1
<1>4. Parsed(n, pos, s, tok) =
        IF s.err # "ok" THEN s
        ELSE CASE tok = "(" -> [s EXCEPT !.ops = Append(@, tok)]
               [] tok = "," -> IF c.err = "ok" THEN [c EXCEPT !.ops = Append(@, tok)] ELSE c
               [] tok = ")" -> IF c.err # "ok" THEN c
                               ELSE IF c.ops = <<>> THEN [c EXCEPT !.err = "undefined"]
                               ELSE [c EXCEPT !.ops = Front(@)]
               [] OTHER     -> IF tok \in DOMAIN pos THEN [s EXCEPT !.stk = Append(@, pos[tok])]
                               ELSE [s EXCEPT !.err = "throws"]
  BY DEF Parsed
<1> HIDE DEF c
<1>5. \A t \in ParserStates, x \in Operators : [t EXCEPT !.ops = Append(@, x)] \in ParserStates
  <2>1. \A t \in ParserStates, x \in Operators : Append(t.ops, x) \in Seq(Operators)
    BY AppendIs DEF ParserStates
  <2> QED BY <2>1 DEF ParserStates
<1>6. \A t \in ParserStates : [t EXCEPT !.err = "undefined"] \in ParserStates
  BY DEF ParserStates
<1>7. \A t \in ParserStates : [t EXCEPT !.ops = Front(@)] \in ParserStates
  <2>1. \A t \in ParserStates : Front(t.ops) \in Seq(Operators)
    BY FrontIs DEF ParserStates
  <2> QED BY <2>1 DEF ParserStates
<1>8. [s EXCEPT !.err = "throws"] \in ParserStates
  BY DEF ParserStates
<1>9. tok \in DOMAIN pos => [s EXCEPT !.stk = Append(@, pos[tok])] \in ParserStates
  <2>1. SUFFICES ASSUME tok \in DOMAIN pos PROVE [s EXCEPT !.stk = Append(@, pos[tok])] \in ParserStates
    OBVIOUS
  <2>2. pos[tok] \in Nat
    BY <2>1 DEF Places
  <2>3. Append(s.stk, pos[tok]) \in Seq(Nat)
    BY <1>1, <2>2, AppendIs
  <2> QED BY <2>3 DEF ParserStates
<1>10. CASE s.err # "ok"
  BY <1>4, <1>10
<1>11. CASE s.err = "ok" /\ tok = "("
  BY <1>4, <1>5, <1>11 DEF Operators
<1>12. CASE s.err = "ok" /\ tok = ","
  BY <1>3, <1>4, <1>5, <1>12 DEF Operators
<1>13. CASE s.err = "ok" /\ tok = ")"
  BY <1>3, <1>4, <1>6, <1>7, <1>13
<1>14. CASE s.err = "ok" /\ tok \notin {"(", ",", ")"}
  <2>1. Parsed(n, pos, s, tok) = IF tok \in DOMAIN pos THEN [s EXCEPT !.stk = Append(@, pos[tok])]
                               ELSE [s EXCEPT !.err = "throws"]
    BY <1>4, <1>14
  <2> QED BY <1>8, <1>9, <2>1
<1> QED BY <1>10, <1>11, <1>12, <1>13, <1>14

-----------------------------------------------------------------------------
(* How often something is in a list.                                       *)

LEMMA CountFirst ==
  ASSUME NEW s, NEW x
  PROVE  CountTo(x, s, 0) = 0
<1>1. {i \in 1..0 : s[i] = x} = {}
  OBVIOUS
<1> QED BY <1>1, FS_EmptySet DEF CountTo

LEMMA CountNext ==
  ASSUME NEW s, NEW x, NEW k \in Nat
  PROVE  /\ CountTo(x, s, k) \in 0..k
         /\ CountTo(x, s, k + 1) = CountTo(x, s, k) + (IF s[k + 1] = x THEN 1 ELSE 0)
<1> DEFINE A == {i \in 1..k : s[i] = x}
           B == {i \in 1..(k + 1) : s[i] = x}
<1>1. IsFiniteSet(1..k) /\ Cardinality(1..k) = k
  <2>1. k - 1 + 1 = k /\ 1 \in Int /\ k \in Int
    OBVIOUS
  <2>2. IsFiniteSet(1..k) /\ Cardinality(1..k) = IF 1 > k THEN 0 ELSE k - 1 + 1
    BY <2>1, FS_Interval
  <2> QED BY <2>1, <2>2
<1>2. A \subseteq 1..k
  OBVIOUS
<1>3. IsFiniteSet(A) /\ Cardinality(A) \in Nat /\ Cardinality(A) <= k
  <2> HIDE DEF A
  <2>1. IsFiniteSet(A) /\ Cardinality(A) <= Cardinality(1..k)
    BY <1>1, <1>2, FS_Subset
  <2>2. Cardinality(A) \in Nat
    BY <2>1, FS_CardinalityType
  <2> QED BY <1>1, <2>1, <2>2
<1>4. Cardinality(B) = Cardinality(A) + (IF s[k + 1] = x THEN 1 ELSE 0)
  <2>1. k + 1 \notin A /\ B = IF s[k + 1] = x THEN A \cup {k + 1} ELSE A
    OBVIOUS
  <2> HIDE DEF A, B
  <2>2. Cardinality(A \cup {k + 1}) = Cardinality(A) + 1
    BY <1>3, <2>1, FS_AddElement
  <2> QED BY <1>3, <2>1, <2>2
<1>5. CountTo(x, s, k) = Cardinality(A) /\ CountTo(x, s, k + 1) = Cardinality(B)
  BY DEF CountTo
<1> HIDE DEF A, B
<1> QED BY <1>3, <1>4, <1>5

\* Lists that agree up to k.
LEMMA CountSame ==
  ASSUME NEW s, NEW t, NEW x, NEW k \in Nat, \A i \in 1..k : s[i] = t[i]
  PROVE  CountTo(x, s, k) = CountTo(x, t, k)
<1>1. {i \in 1..k : s[i] = x} = {i \in 1..k : t[i] = x}
  OBVIOUS
<1> QED BY <1>1 DEF CountTo

LEMMA CountAppend ==
  ASSUME NEW X, NEW s \in Seq(X), NEW y \in X, NEW x
  PROVE  /\ Count(x, s) \in 0..Len(s)
         /\ Count(x, Append(s, y)) = Count(x, s) + (IF x = y THEN 1 ELSE 0)
<1> DEFINE t == Append(s, y)
           N == Len(s)
<1>1. /\ t \in Seq(X) /\ Len(t) = N + 1 /\ N \in Nat
      /\ \A i \in 1..N : t[i] = s[i]
      /\ t[N + 1] = y
  BY AppendIs
<1> HIDE DEF t, N
<1>2. CountTo(x, t, N) = CountTo(x, s, N)
  BY <1>1, CountSame
<1>3. /\ CountTo(x, s, N) \in 0..N
      /\ CountTo(x, t, N + 1) = CountTo(x, t, N) + (IF t[N + 1] = x THEN 1 ELSE 0)
  <2>1. CountTo(x, s, N) \in 0..N
    BY <1>1, CountNext
  <2>2. CountTo(x, t, N + 1) = CountTo(x, t, N) + (IF t[N + 1] = x THEN 1 ELSE 0)
    BY <1>1, CountNext
  <2> QED BY <2>1, <2>2
<1>4. Count(x, t) = CountTo(x, t, N + 1) /\ Count(x, s) = CountTo(x, s, N)
  BY <1>1 DEF Count, N
<1>5. t[N + 1] = x <=> x = y
  BY <1>1
<1>6. Count(x, t) = Count(x, s) + (IF x = y THEN 1 ELSE 0) /\ Count(x, s) \in 0..N
  BY <1>2, <1>3, <1>4, <1>5
<1> QED BY <1>6 DEF t, N

LEMMA CountNone ==
  ASSUME NEW x
  PROVE  Count(x, <<>>) = 0
<1>1. Len(<<>>) = 0
  OBVIOUS
<1> QED BY <1>1, CountFirst DEF Count

-----------------------------------------------------------------------------
(* Trees and the tensors below their nodes.                                *)

\* The children of a node come before it.
IsTree(n, tree) ==
  \A k \in 1..Len(tree) : tree[k][1] \in 1..(n + k - 1) /\ tree[k][2] \in 1..(n + k - 1)

\* L[x]: the tensors below node x.
LeafSets(n, tree, L) ==
  /\ L \in [1..(n + Len(tree)) -> (SUBSET (1..n)) \ {{}}]
  /\ \A x \in 1..n : L[x] = {x}
  /\ \A k \in 1..Len(tree) : L[n + k] = L[tree[k][1]] \cup L[tree[k][2]]

\* t is the tree with one more node, whose children are l and r.
Grows(n, tree, t, L, l, r) ==
  /\ t \in Seq(Children) /\ Len(t) = Len(tree) + 1 /\ IsTree(n, t)
  /\ \E M : /\ LeafSets(n, t, M)
            /\ \A x \in 1..(n + Len(tree)) : M[x] = L[x]
            /\ M[n + Len(tree) + 1] = L[l] \cup L[r]

LEMMA LeafSetsAppend ==
  ASSUME NEW n \in Nat, NEW tree \in Seq(Children), NEW L, NEW l \in 1..(n + Len(tree)),
         NEW r \in 1..(n + Len(tree)), NEW t, IsTree(n, tree), LeafSets(n, tree, L),
         t = Append(tree, <<l, r>>)
  PROVE  Grows(n, tree, t, L, l, r)
<1> DEFINE N == Len(tree)
           z == n + N + 1
           V == (SUBSET (1..n)) \ {{}}
           M == [x \in 1..(n + N + 1) |-> IF x = z THEN L[l] \cup L[r] ELSE L[x]]
<1>1. <<l, r>> \in Children /\ N \in Nat
  BY DEF Children
<1>2. /\ t \in Seq(Children) /\ Len(t) = N + 1
      /\ \A k \in 1..N : t[k] = tree[k]
      /\ t[N + 1] = <<l, r>>
  BY <1>1, AppendIs
<1> HIDE DEF N, z
<1>3. \A k \in 1..(N + 1) : k \in 1..N \/ k = N + 1
  BY <1>1
<1>4. IsTree(n, t)
  <2>1. ASSUME NEW k \in 1..N
        PROVE  t[k][1] \in 1..(n + k - 1) /\ t[k][2] \in 1..(n + k - 1)
    BY <1>2, <2>1 DEF IsTree, N
  <2>2. t[N + 1][1] \in 1..(n + (N + 1) - 1) /\ t[N + 1][2] \in 1..(n + (N + 1) - 1)
    BY <1>1, <1>2 DEF N
  <2> QED BY <1>2, <1>3, <2>1, <2>2 DEF IsTree
<1>5. /\ L \in [1..(n + N) -> V] /\ (\A x \in 1..n : L[x] = {x})
      /\ \A k \in 1..N : L[n + k] = L[tree[k][1]] \cup L[tree[k][2]]
  BY DEF LeafSets, N
<1>6. z = n + N + 1 /\ l \in 1..(n + N) /\ r \in 1..(n + N)
  BY DEF N, z
<1>7. L[l] \cup L[r] \in V
  <2>1. L[l] \in V /\ L[r] \in V
    BY <1>5, <1>6
  <2> QED BY <2>1
<1>8. \A x \in 1..(n + N + 1) : x \in 1..(n + N) \/ x = z
  BY <1>1, <1>6
<1>9. M \in [1..(n + N + 1) -> V]
  <2> HIDE DEF V
  <2> QED BY <1>5, <1>7, <1>8
<1>10. /\ \A x \in 1..(n + N) : M[x] = L[x]
       /\ M[z] = L[l] \cup L[r]
  BY <1>1, <1>6
<1> HIDE DEF M
<1>11. \A x \in 1..n : M[x] = {x}
  <2>1. \A x \in 1..n : x \in 1..(n + N)
    BY <1>1
  <2> QED BY <1>5, <1>10, <2>1
<1>12. \A k \in 1..(N + 1) : M[n + k] = M[t[k][1]] \cup M[t[k][2]]
  <2>1. ASSUME NEW k \in 1..N PROVE M[n + k] = M[tree[k][1]] \cup M[tree[k][2]]
    <3>1. tree[k][1] \in 1..(n + k - 1) /\ tree[k][2] \in 1..(n + k - 1)
      BY DEF IsTree, N
    <3>2. \A x : x \in 1..(n + k - 1) => x \in 1..(n + N)
      BY <1>1
    <3>3. n + k \in 1..(n + N)
      BY <1>1
    <3> QED BY <1>5, <1>10, <3>1, <3>2, <3>3, Zenon
  <2>2. M[n + (N + 1)] = M[l] \cup M[r]
    <3>1. n + (N + 1) = z
      BY <1>1, <1>6
    <3> QED BY <1>6, <1>10, <3>1
  <2>3. M[n + (N + 1)] = M[t[N + 1][1]] \cup M[t[N + 1][2]]
    BY <1>2, <2>2
  <2> QED BY <1>2, <1>3, <2>1, <2>3, Zenon
<1>13. n + (N + 1) = n + N + 1
  BY <1>1
<1>14. LeafSets(n, t, M)
  BY <1>2, <1>9, <1>11, <1>12, <1>13 DEF LeafSets, V
<1> QED BY <1>2, <1>4, <1>10, <1>14 DEF N, z, Grows

\* The tree of s and the nodes on its stack: every tensor in S is below one of
\* them, and so is the last node that was made.
Covers(n, s, S) ==
  /\ IsTree(n, s.tree) /\ ToSet(s.stk) \subseteq 1..(n + Len(s.tree))
  /\ s.tree # <<>> => n + Len(s.tree) \in ToSet(s.stk)
  /\ \E L : LeafSets(n, s.tree, L) /\ UNION {L[x] : x \in ToSet(s.stk)} = S

\* The parser has not failed and its nodes have S below them.
Holds(n, s, S) == s \in ParserStates /\ s.err = "ok" /\ Covers(n, s, S)

LEMMA ReducedCovers ==
  ASSUME NEW n \in Nat, NEW s, NEW S, Holds(n, s, S), Len(s.stk) >= 2
  PROVE  /\ Holds(n, Reduced(n, s), S) /\ Reduced(n, s).ops = Front(s.ops)
         /\ Len(Reduced(n, s).stk) = Len(s.stk) - 1
<1> DEFINE t == Reduced(n, s)
<1>0. s \in ParserStates /\ s.err = "ok" /\ Covers(n, s, S)
  BY DEF Holds
<1> DEFINE k == Len(s.stk)
           rest == SubSeq(s.stk, 1, k - 2)
           l == s.stk[k - 1]
           r == s.stk[k]
           z == n + Len(s.tree) + 1
<1>1. /\ s.stk \in Seq(Nat) /\ s.tree \in Seq(Children) /\ k \in Nat /\ Len(s.tree) \in Nat
  BY <1>0 DEF ParserStates
<1>2. t \in ParserStates
  BY <1>0, ReducedState
<1>3. t = [ops |-> Front(s.ops), stk |-> Append(rest, z), tree |-> Append(s.tree, <<l, r>>), err |-> "ok"]
  BY <1>0 DEF Reduced
<1> HIDE DEF t
<1>4. /\ rest \in Seq(Nat) /\ Len(rest) = k - 2 /\ \A i \in 1..(k - 2) : rest[i] = s.stk[i]
  BY <1>1, SMTT(30)
<1>5. /\ \A x : x \in ToSet(s.stk) <=> \E i \in 1..k : x = s.stk[i]
      /\ \A x : x \in ToSet(rest) <=> \E i \in 1..(k - 2) : x = s.stk[i]
  <2>1. \A x : x \in ToSet(s.stk) <=> \E i \in 1..k : x = s.stk[i]
    BY <1>1, SetOf
  <2>2. \A x : x \in ToSet(rest) <=> \E i \in 1..(k - 2) : x = rest[i]
    <3> HIDE DEF rest, k
    <3> QED BY <1>4, SetOf
  <2> QED BY <1>4, <2>1, <2>2
<1> HIDE DEF rest
<1>6. ToSet(s.stk) = ToSet(rest) \cup {l, r}
  <2>1. \A i \in 1..k : i \in 1..(k - 2) \/ i = k - 1 \/ i = k
    BY <1>1
  <2>2. k - 1 \in 1..k /\ k \in 1..k /\ \A i \in 1..(k - 2) : i \in 1..k
    BY <1>1
  <2> HIDE DEF k
  <2> QED BY <1>5, <2>1, <2>2
<1>7. z \in Nat /\ ToSet(Append(rest, z)) = ToSet(rest) \cup {z} /\ Len(Append(rest, z)) = k - 1
  <2>1. z \in Nat
    BY <1>1
  <2>2. Len(Append(rest, z)) = Len(rest) + 1
    BY <1>4, <2>1, AppendIs
  <2>3. ToSet(Append(rest, z)) = ToSet(rest) \cup {z}
    <3> HIDE DEF z
    <3> QED BY <1>4, <2>1, AppendDistinct
  <2>4. (k - 2) + 1 = k - 1
    BY <1>1
  <2> QED BY <1>4, <2>1, <2>2, <2>3, <2>4
<1> DEFINE N == n + Len(s.tree)
<1>8. l \in 1..N /\ r \in 1..N /\ ToSet(rest) \subseteq 1..N /\ N \in Nat /\ z = N + 1
  <2>1. ToSet(s.stk) \subseteq 1..N
    BY <1>0 DEF Covers
  <2>2. l \in 1..N /\ r \in 1..N /\ ToSet(rest) \subseteq 1..N
    BY <1>6, <2>1
  <2> QED BY <1>1, <2>2
<1>9. PICK L : LeafSets(n, s.tree, L) /\ UNION {L[x] : x \in ToSet(s.stk)} = S
  BY <1>0 DEF Covers
<1>10. IsTree(n, s.tree)
  BY <1>0 DEF Covers
<1> HIDE DEF k, l, r, z
<1>11. /\ Len(Append(s.tree, <<l, r>>)) = Len(s.tree) + 1
       /\ IsTree(n, Append(s.tree, <<l, r>>))
       /\ \E M : /\ LeafSets(n, Append(s.tree, <<l, r>>), M)
                 /\ \A x \in 1..N : M[x] = L[x]
                 /\ M[z] = L[l] \cup L[r]
  <2>1. l \in 1..(n + Len(s.tree)) /\ r \in 1..(n + Len(s.tree)) /\ z = n + Len(s.tree) + 1
    BY <1>8 DEF z
  <2>2. LeafSets(n, s.tree, L)
    BY <1>9
  <2> DEFINE t2 == Append(s.tree, <<l, r>>)
             m == n + Len(s.tree)
             tree == s.tree
  <2>4. /\ tree \in Seq(Children) /\ l \in 1..(n + Len(tree)) /\ r \in 1..(n + Len(tree))
        /\ z = n + Len(tree) + 1 /\ t2 = Append(tree, <<l, r>>)
        /\ IsTree(n, tree) /\ LeafSets(n, tree, L) /\ m = n + Len(tree)
    BY <1>1, <1>10, <2>1, <2>2
  <2> HIDE DEF t2, m, tree
  <2>3. /\ Len(t2) = Len(tree) + 1
        /\ IsTree(n, t2)
        /\ \E M : /\ LeafSets(n, t2, M)
                  /\ \A x \in 1..m : M[x] = L[x]
                  /\ M[z] = L[l] \cup L[r]
    <3>1. Grows(n, tree, t2, L, l, r)
      BY <2>4, LeafSetsAppend
    <3> QED BY <2>4, <3>1 DEF Grows
  <2> QED BY <2>3 DEF t2, m, tree
<1>12. PICK M : /\ LeafSets(n, Append(s.tree, <<l, r>>), M)
                /\ \A x \in 1..N : M[x] = L[x]
                /\ M[z] = L[l] \cup L[r]
  BY <1>11
<1>13. t.ops = Front(s.ops) /\ t.stk = Append(rest, z) /\ t.tree = Append(s.tree, <<l, r>>) /\ t.err = "ok"
  BY <1>3
<1> DEFINE R == ToSet(rest)
<1>14. ToSet(t.stk) = R \cup {z} /\ ToSet(s.stk) = R \cup {l, r}
  BY <1>6, <1>7, <1>13
<1> HIDE DEF R
<1>15. UNION {M[x] : x \in ToSet(t.stk)} = S
  <2>1. \A x \in R : M[x] = L[x]
    BY <1>8, <1>12 DEF R
  <2>2. S = UNION {L[x] : x \in R \cup {l, r}}
    BY <1>9, <1>14
  <2>3. UNION {L[x] : x \in R \cup {l, r}} = (UNION {L[x] : x \in R}) \cup L[l] \cup L[r]
    OBVIOUS
  <2>4. UNION {M[x] : x \in R \cup {z}} = (UNION {M[x] : x \in R}) \cup M[z]
    OBVIOUS
  <2>5. {M[x] : x \in R} = {L[x] : x \in R}
    BY <2>1
  <2> QED BY <1>12, <1>14, <2>2, <2>3, <2>4, <2>5
<1>16. Len(t.tree) = Len(s.tree) + 1 /\ n + Len(t.tree) = z /\ z \in 1..z /\ 1..N \subseteq 1..z
  <2>1. Len(t.tree) = Len(s.tree) + 1
    BY <1>11, <1>13
  <2> QED BY <1>1, <1>8, <2>1
<1>17. ToSet(t.stk) \subseteq 1..(n + Len(t.tree)) /\ n + Len(t.tree) \in ToSet(t.stk)
  <2>1. R \subseteq 1..N
    BY <1>8 DEF R
  <2> QED BY <1>14, <1>16, <2>1
<1>18. Covers(n, t, S)
  BY <1>11, <1>12, <1>13, <1>15, <1>17 DEF Covers
<1> QED BY <1>2, <1>7, <1>13, <1>18 DEF k, t, Holds

\* The first m of the operators of s.
Popped(s, t, m) ==
  /\ Len(t.ops) = m /\ \A j \in 1..m : t.ops[j] = s.ops[j]

LEMMA LoopCovers ==
  ASSUME NEW n \in Nat, NEW s, NEW S, NEW k \in Nat, Holds(n, s, S),
         k < Len(s.stk), k <= Len(s.ops)
  PROVE  /\ Holds(n, ReducedTimes(n, s, k), S)
         /\ Popped(s, ReducedTimes(n, s, k), Len(s.ops) - k)
         /\ Len(ReducedTimes(n, s, k).stk) = Len(s.stk) - k
<1> DEFINE N == Len(s.ops)
           H == Len(s.stk)
           Good(u, i) == Holds(n, u, S) /\ Popped(s, u, N - i) /\ Len(u.stk) = H - i
<1>0. s \in ParserStates
  BY DEF Holds
<1>1. N \in Nat /\ H \in Nat /\ k < H /\ k <= N
  BY <1>0 DEF ParserStates
<1>2. PICK f \in [0..k -> ParserStates] :
        /\ f[0] = s /\ \A i \in 1..k : f[i] = Reduced(n, f[i - 1])
        /\ ReducedTimes(n, s, k) = f[k]
  BY <1>0, ReducedSteps, Zenon
<1>3. Good(s, 0)
  <2>1. N - 0 = N /\ H - 0 = H
    BY <1>1
  <2> QED BY <2>1 DEF Popped
<1>4. ASSUME NEW i \in Nat, NEW u, i < k, Good(u, i)
      PROVE  Good(Reduced(n, u), i + 1)
  <2> DEFINE v == Reduced(n, u)
  <2>1. Holds(n, u, S) /\ Popped(s, u, N - i) /\ Len(u.stk) = H - i
    BY <1>4
  <2>2. Len(u.stk) >= 2
    BY <1>1, <1>4, <2>1
  <2>3. Holds(n, v, S) /\ v.ops = Front(u.ops) /\ Len(v.stk) = Len(u.stk) - 1
    BY <2>1, <2>2, ReducedCovers
  <2> HIDE DEF v
  <2>4. u.ops \in Seq(Operators) /\ Len(u.ops) = N - i /\ \A j \in 1..(N - i) : u.ops[j] = s.ops[j]
    BY <2>1 DEF Holds, ParserStates, Popped
  <2>5. u.ops # <<>>
    BY <1>1, <1>4, <2>4
  <2>6. Len(v.ops) = Len(u.ops) - 1 /\ \A j \in 1..(Len(u.ops) - 1) : v.ops[j] = u.ops[j]
    BY <2>3, <2>4, <2>5, FrontIs
  <2>7. Len(u.ops) - 1 = N - (i + 1) /\ Len(u.stk) - 1 = H - (i + 1) /\ 1..(N - (i + 1)) \subseteq 1..(N - i)
    BY <1>1, <2>1, <2>4
  <2>8. Popped(s, v, N - (i + 1))
    BY <2>4, <2>6, <2>7 DEF Popped
  <2>9. Good(v, i + 1)
    BY <2>3, <2>7, <2>8
  <2> QED BY <2>9 DEF v
<1> HIDE DEF N, H, Good
<1> DEFINE T == {i \in Nat : i <= k => Good(f[i], i)}
<1>5. 0 \in T
  BY <1>2, <1>3
<1>6. ASSUME NEW i \in Nat, i \in T PROVE i + 1 \in T
  <2>1. SUFFICES ASSUME i + 1 <= k PROVE Good(f[i + 1], i + 1)
    OBVIOUS
  <2>2. i < k /\ i + 1 \in 1..k /\ (i + 1) - 1 = i
    BY <2>1
  <2>3. Good(f[i], i)
    BY <1>6, <2>2
  <2>4. f[i + 1] = Reduced(n, f[i])
    BY <1>2, <2>2
  <2> QED BY <1>4, <2>2, <2>3, <2>4
<1> HIDE DEF T
<1>7. Nat \subseteq T
  BY <1>5, <1>6, NatInduct
<1>8. Good(f[k], k)
  BY <1>7 DEF T
<1> QED BY <1>2, <1>8 DEF Good, N, H

\* A list and its first p entries, when x is not among the others.
LEMMA CountUnchanged ==
  ASSUME NEW s, NEW t, NEW x, NEW p \in Nat, NEW m \in Nat, p <= m,
         \A i \in 1..p : t[i] = s[i], \A i \in 1..m : i > p => s[i] # x
  PROVE  CountTo(x, t, p) = CountTo(x, s, m)
<1>1. {i \in 1..p : t[i] = x} = {i \in 1..m : s[i] = x}
  OBVIOUS
<1> QED BY <1>1 DEF CountTo

\* The inner loop, when there is a node more than there are commas.
LEMMA InnerLoop ==
  ASSUME NEW n \in Nat, NEW s, NEW S, NEW c, Holds(n, s, S),
         Len(s.stk) + Count("(", s.ops) = Len(s.ops) + 1, c = ReducedTimes(n, s, OpenOps(s.ops))
  PROVE  /\ Holds(n, c, S)
         /\ Count("(", c.ops) = Count("(", s.ops)
         /\ Len(c.stk) + Count("(", c.ops) = Len(c.ops) + 1
         /\ Len(c.ops) # 0 => c.ops[Len(c.ops)] = "("
         /\ Count("(", s.ops) \in Nat
<1> DEFINE N == Len(s.ops)
           H == Len(s.stk)
           m == OpenOps(s.ops)
           p == N - m
           q == Count("(", s.ops)
<1>1. /\ s.ops \in Seq(Operators) /\ s.stk \in Seq(Nat) /\ N \in Nat /\ H \in Nat
  BY DEF Holds, ParserStates
<1>2. /\ m \in 0..N /\ \A i \in 1..N : i > p => s.ops[i] = ","
      /\ m < N => s.ops[p] = "("
  BY <1>1, OpenOpsIs
<1>3. H + q = N + 1
  OBVIOUS
<1>4. q = CountTo("(", s.ops, N)
  BY DEF Count
<1> HIDE DEF N, H, m, p, q
<1>5. p \in Nat /\ p <= N /\ p = N - m /\ m \in Nat
  <2>1. m \in 0..N /\ N \in Nat
    BY <1>1, <1>2
  <2>2. p = N - m
    BY DEF p
  <2> QED BY <2>1, <2>2
<1>6. CountTo("(", s.ops, p) = q
  <2>1. \A i \in 1..p : s.ops[i] = s.ops[i]
    OBVIOUS
  <2>2. \A i \in 1..N : i > p => s.ops[i] # "("
    BY <1>2
  <2> QED BY <1>1, <1>4, <1>5, <2>1, <2>2, CountUnchanged
<1>7. q \in 0..p
  BY <1>5, <1>6, CountNext
<1>8. m < H /\ m <= N
  BY <1>1, <1>3, <1>5, <1>7
<1>9. Holds(n, c, S) /\ Popped(s, c, N - m) /\ Len(c.stk) = H - m
  <2>1. c = ReducedTimes(n, s, m) /\ m < Len(s.stk) /\ m <= Len(s.ops)
    BY <1>8 DEF m, N, H
  <2>2. /\ Holds(n, ReducedTimes(n, s, m), S)
        /\ Popped(s, ReducedTimes(n, s, m), Len(s.ops) - m)
        /\ Len(ReducedTimes(n, s, m).stk) = Len(s.stk) - m
    BY <1>5, <2>1, LoopCovers
  <2> QED BY <2>1, <2>2 DEF N, H
<1>10. Len(c.ops) = p /\ \A j \in 1..p : c.ops[j] = s.ops[j]
  BY <1>5, <1>9 DEF Popped
<1>11. Count("(", c.ops) = q
  <2>1. CountTo("(", c.ops, p) = CountTo("(", s.ops, p)
    BY <1>5, <1>10, CountSame
  <2> QED BY <1>6, <1>10, <2>1 DEF Count
<1>12. Len(c.stk) + q = p + 1
  BY <1>1, <1>3, <1>5, <1>7, <1>9
<1>13. p # 0 => m < N /\ p \in 1..p
  BY <1>1, <1>5
<1>14. p # 0 => c.ops[p] = "("
  BY <1>2, <1>10, <1>13
<1>15. q \in Nat
  BY <1>5, <1>7
<1> QED BY <1>9, <1>10, <1>11, <1>12, <1>14, <1>15 DEF q

LEMMA PushCovers ==
  ASSUME NEW n \in Nat, NEW s \in ParserStates, NEW S, NEW x \in 1..n, NEW t, Covers(n, s, S),
         t.stk = Append(s.stk, x), t.tree = s.tree
  PROVE  Covers(n, t, S \cup {x}) /\ Len(t.stk) = Len(s.stk) + 1
<1> DEFINE R == ToSet(s.stk)
           N == n + Len(s.tree)
<1>1. s.stk \in Seq(Nat) /\ s.tree \in Seq(Children) /\ Len(s.tree) \in Nat /\ x \in Nat
  BY DEF ParserStates
<1>2. ToSet(t.stk) = R \cup {x}
  <2>1. ToSet(Append(s.stk, x)) = ToSet(s.stk) \cup {x}
    BY <1>1, AppendDistinct
  <2> QED BY <2>1
<1>3. Len(t.stk) = Len(s.stk) + 1
  BY <1>1, AppendIs
<1>4. /\ IsTree(n, s.tree) /\ R \subseteq 1..N
      /\ s.tree # <<>> => N \in R
  BY DEF Covers
<1>5. PICK L : LeafSets(n, s.tree, L) /\ UNION {L[y] : y \in R} = S
  BY DEF Covers
<1>6. L[x] = {x}
  BY <1>5 DEF LeafSets
<1>7. x \in 1..N
  BY <1>1
<1> HIDE DEF R
<1>8. UNION {L[y] : y \in R \cup {x}} = S \cup {x}
  <2>1. UNION {L[y] : y \in R \cup {x}} = (UNION {L[y] : y \in R}) \cup L[x]
    OBVIOUS
  <2> QED BY <1>5, <1>6, <2>1
<1>9. /\ IsTree(n, t.tree) /\ ToSet(t.stk) \subseteq 1..(n + Len(t.tree))
      /\ t.tree # <<>> => n + Len(t.tree) \in ToSet(t.stk)
  BY <1>2, <1>4, <1>7
<1>10. LeafSets(n, t.tree, L) /\ UNION {L[y] : y \in ToSet(t.stk)} = S \cup {x}
  BY <1>2, <1>5, <1>8
<1>11. \E M : LeafSets(n, t.tree, M) /\ UNION {M[y] : y \in ToSet(t.stk)} = S \cup {x}
  BY <1>10, Zenon
<1> HIDE DEF N
<1>12. Covers(n, t, S \cup {x})
  BY <1>9, <1>11, Zenon DEF Covers
<1> QED BY <1>3, <1>12

LEMMA CoversSame ==
  ASSUME NEW n, NEW s, NEW S, NEW t, Covers(n, s, S), t.stk = s.stk, t.tree = s.tree
  PROVE  Covers(n, t, S)
BY DEF Covers

\* 1 when a term ends at k, 0 when one is about to start.
Fed(tokens, k) == IF k = 0 THEN 0 ELSE IF tokens[k] \in {",", "("} THEN 0 ELSE 1

\* An order, as the parser meets it.
LEMMA OrderIs ==
  ASSUME NEW tokens, Len(tokens) \in Nat, IsOrder(tokens)
  PROVE  /\ Len(tokens) # 0 /\ Fed(tokens, Len(tokens)) = 1
         /\ CountTo("(", tokens, Len(tokens)) = CountTo(")", tokens, Len(tokens))
         /\ \A k \in Nat : k < Len(tokens) =>
              /\ Fed(tokens, k) = IF tokens[k + 1] \in {",", ")"} THEN 1 ELSE 0
              /\ Fed(tokens, k + 1) = IF tokens[k + 1] \in {",", "("} THEN 0 ELSE 1
              /\ CountTo(")", tokens, k + 1) <= CountTo("(", tokens, k + 1)
<1> DEFINE N == Len(tokens)
<1>1. N \in Nat /\ N > 0
  BY DEF IsOrder
<1>2. tokens[1] \notin {",", ")"} /\ tokens[N] \notin {",", "("}
  BY DEF IsOrder
<1>3. \A k \in 1..(N - 1) : tokens[k] \in {",", "("} <=> tokens[k + 1] \notin {",", ")"}
  BY DEF IsOrder
<1>4. \A k \in 1..N : CountTo(")", tokens, k) <= CountTo("(", tokens, k)
  BY DEF IsOrder
<1>5. CountTo(")", tokens, N) = CountTo("(", tokens, N)
  BY DEF IsOrder
<1> HIDE DEF N
<1>6. N # 0
  BY <1>1
<1>7. Fed(tokens, N) = 1
  BY <1>2, <1>6 DEF Fed
<1>8. ASSUME NEW k \in Nat, k < N
      PROVE  /\ Fed(tokens, k) = IF tokens[k + 1] \in {",", ")"} THEN 1 ELSE 0
             /\ Fed(tokens, k + 1) = IF tokens[k + 1] \in {",", "("} THEN 0 ELSE 1
             /\ CountTo(")", tokens, k + 1) <= CountTo("(", tokens, k + 1)
  <2>1. k + 1 \in 1..N /\ k + 1 # 0
    BY <1>1, <1>8
  <2>2. Fed(tokens, k + 1) = IF tokens[k + 1] \in {",", "("} THEN 0 ELSE 1
    BY <2>1 DEF Fed
  <2>3. Fed(tokens, k) = IF tokens[k + 1] \in {",", ")"} THEN 1 ELSE 0
    <3>1. CASE k = 0
      <4>1. tokens[k + 1] = tokens[1]
        BY <3>1
      <4>2. tokens[k + 1] \notin {",", ")"}
        BY <1>2, <4>1
      <4> QED BY <3>1, <4>2 DEF Fed
    <3>2. CASE k # 0
      <4>1. k \in 1..(N - 1)
        BY <1>1, <1>8, <3>2
      <4>2. tokens[k] \in {",", "("} <=> tokens[k + 1] \notin {",", ")"}
        BY <1>3, <4>1
      <4> QED BY <3>2, <4>2 DEF Fed
    <3> QED BY <3>1, <3>2
  <2> QED BY <1>4, <2>1, <2>2, <2>3
<1> QED BY <1>5, <1>6, <1>7, <1>8 DEF N

\* The slots of the names among the first k tokens.
SlotsRead(pos, tokens, k) == {pos[tokens[i]] : i \in {j \in 1..k : tokens[j] \notin Punctuation}}

LEMMA SlotsReadNext ==
  ASSUME NEW pos, NEW tokens, NEW k \in Nat
  PROVE  /\ tokens[k + 1] \in Punctuation => SlotsRead(pos, tokens, k + 1) = SlotsRead(pos, tokens, k)
         /\ tokens[k + 1] \notin Punctuation =>
              SlotsRead(pos, tokens, k + 1) = SlotsRead(pos, tokens, k) \cup {pos[tokens[k + 1]]}
<1> DEFINE A == {j \in 1..k : tokens[j] \notin Punctuation}
           B == {j \in 1..(k + 1) : tokens[j] \notin Punctuation}
<1>1. B = A \cup (IF tokens[k + 1] \in Punctuation THEN {} ELSE {k + 1})
  <2>1. 1..(k + 1) = 1..k \cup {k + 1}
    OBVIOUS
  <2> QED BY <2>1
<1> HIDE DEF A, B
<1>2. {pos[tokens[i]] : i \in B} =
        {pos[tokens[i]] : i \in A} \cup
          (IF tokens[k + 1] \in Punctuation THEN {} ELSE {pos[tokens[k + 1]]})
  BY <1>1
<1> QED BY <1>2 DEF SlotsRead, A, B

\* The parser after the first k tokens of an order: the brackets that are open
\* are on the stack of operators, a node more than there are commas is on the
\* other one when a term has ended, and the tensors named so far are below.
Reads(n, pos, tokens, k, s) ==
  /\ s \in ParserStates /\ s.err = "ok" /\ Covers(n, s, SlotsRead(pos, tokens, k))
  /\ Count("(", s.ops) = CountTo("(", tokens, k) - CountTo(")", tokens, k)
  /\ Len(s.stk) + Count("(", s.ops) = Len(s.ops) + Fed(tokens, k)

\* The counts after one more token.
LEMMA CountsNext ==
  ASSUME NEW tokens, NEW k \in Nat
  PROVE  /\ CountTo("(", tokens, k) \in Nat /\ CountTo(")", tokens, k) \in Nat
         /\ tokens[k + 1] = "(" =>
              /\ CountTo("(", tokens, k + 1) = CountTo("(", tokens, k) + 1
              /\ CountTo(")", tokens, k + 1) = CountTo(")", tokens, k)
         /\ tokens[k + 1] = ")" =>
              /\ CountTo("(", tokens, k + 1) = CountTo("(", tokens, k)
              /\ CountTo(")", tokens, k + 1) = CountTo(")", tokens, k) + 1
         /\ tokens[k + 1] \notin {"(", ")"} =>
              /\ CountTo("(", tokens, k + 1) = CountTo("(", tokens, k)
              /\ CountTo(")", tokens, k + 1) = CountTo(")", tokens, k)
<1>1. \A x : /\ CountTo(x, tokens, k) \in 0..k
             /\ CountTo(x, tokens, k + 1) = CountTo(x, tokens, k) + (IF tokens[k + 1] = x THEN 1 ELSE 0)
  BY CountNext
<1> QED BY <1>1

\* The provers do arithmetic beside a comma only when it has a name.
Comma == ","

LEMMA CommaIs == Comma \in Operators /\ Comma \in Punctuation /\ Comma \notin {"(", ")"}
BY Zenon DEF Comma, Operators, Punctuation

LEMMA OpsPushed ==
  ASSUME NEW s \in ParserStates, NEW x \in Operators, NEW t, t = [s EXCEPT !.ops = Append(@, x)]
  PROVE  /\ t \in ParserStates /\ t.err = s.err /\ t.stk = s.stk /\ t.tree = s.tree
         /\ t.ops = Append(s.ops, x) /\ Len(t.ops) = Len(s.ops) + 1
         /\ x = "(" => Count("(", t.ops) = Count("(", s.ops) + 1
         /\ x # "(" => Count("(", t.ops) = Count("(", s.ops)
         /\ Count("(", s.ops) \in Nat /\ Len(s.ops) \in Nat /\ Len(s.stk) \in Nat
<1>1. s.ops \in Seq(Operators) /\ Len(s.ops) \in Nat /\ Len(s.stk) \in Nat
  BY DEF ParserStates
<1>2. /\ Append(s.ops, x) \in Seq(Operators) /\ Len(Append(s.ops, x)) = Len(s.ops) + 1
  BY <1>1, AppendIs
<1>3. /\ t.err = s.err /\ t.stk = s.stk /\ t.tree = s.tree /\ t.ops = Append(s.ops, x)
      /\ t \in ParserStates
  BY <1>2 DEF ParserStates
<1>4. /\ Count("(", Append(s.ops, x)) = Count("(", s.ops) + (IF "(" = x THEN 1 ELSE 0)
      /\ Count("(", s.ops) \in 0..Len(s.ops)
  BY <1>1, CountAppend
<1>5. /\ x = "(" => Count("(", t.ops) = Count("(", s.ops) + 1
      /\ x # "(" => Count("(", t.ops) = Count("(", s.ops)
  <2>1. Count("(", t.ops) = Count("(", s.ops) + (IF "(" = x THEN 1 ELSE 0)
    BY <1>3, <1>4
  <2>2. Count("(", s.ops) \in Nat
    BY <1>1, <1>4
  <2> DEFINE a == Count("(", t.ops)
             b == Count("(", s.ops)
  <2>3. (x = "(" => a = b + 1) /\ (x # "(" => a = b + 0) /\ b \in Nat
    BY <2>1, <2>2
  <2> HIDE DEF a, b
  <2>4. (x = "(" => a = b + 1) /\ (x # "(" => a = b)
    BY <2>3
  <2> QED BY <2>4 DEF a, b
<1>6. Count("(", s.ops) \in Nat
  BY <1>1, <1>4
<1>7. Len(t.ops) = Len(s.ops) + 1
  BY <1>2, <1>3
<1> QED BY <1>1, <1>3, <1>5, <1>6, <1>7

LEMMA CommaPushed ==
  ASSUME NEW c \in ParserStates, NEW t, t = [c EXCEPT !.ops = Append(@, Comma)]
  PROVE  /\ t \in ParserStates /\ t.err = c.err /\ t.stk = c.stk /\ t.tree = c.tree
         /\ Len(t.ops) = Len(c.ops) + 1
         /\ Count("(", t.ops) = Count("(", c.ops)
         /\ Count("(", c.ops) \in Nat /\ Len(c.ops) \in Nat /\ Len(c.stk) \in Nat
<1>1. Comma \in Operators /\ Comma # "("
  BY CommaIs
<1>2. Count("(", t.ops) = Count("(", c.ops)
  BY <1>1, OpsPushed
<1>3. t \in ParserStates /\ t.err = c.err /\ t.stk = c.stk /\ t.tree = c.tree
  BY <1>1, OpsPushed
<1>4. Len(t.ops) = Len(c.ops) + 1
  BY <1>1, OpsPushed
<1>5. Count("(", c.ops) \in Nat /\ Len(c.ops) \in Nat /\ Len(c.stk) \in Nat
  BY <1>1, OpsPushed
<1> QED BY <1>2, <1>3, <1>4, <1>5

LEMMA ReadsOpening ==
  ASSUME NEW n \in Nat, NEW pos, NEW tokens, NEW k \in Nat, NEW s, Reads(n, pos, tokens, k, s),
         tokens[k + 1] = "(", Fed(tokens, k) = 0, Fed(tokens, k + 1) = 0
  PROVE  Reads(n, pos, tokens, k + 1, [s EXCEPT !.ops = Append(@, "(")])
<1> DEFINE t == [s EXCEPT !.ops = Append(@, "(")]
<1>1. /\ s \in ParserStates /\ s.err = "ok" /\ Covers(n, s, SlotsRead(pos, tokens, k))
      /\ Count("(", s.ops) = CountTo("(", tokens, k) - CountTo(")", tokens, k)
      /\ Len(s.stk) + Count("(", s.ops) = Len(s.ops) + Fed(tokens, k)
  BY DEF Reads
<1>2. "(" \in Operators
  BY DEF Operators
<1>3. /\ t \in ParserStates /\ t.err = s.err /\ t.stk = s.stk /\ t.tree = s.tree
      /\ Len(t.ops) = Len(s.ops) + 1
      /\ Count("(", t.ops) = Count("(", s.ops) + 1
      /\ Count("(", s.ops) \in Nat /\ Len(s.ops) \in Nat /\ Len(s.stk) \in Nat
  <2>1. t = [s EXCEPT !.ops = Append(@, "(")]
    OBVIOUS
  <2> HIDE DEF t
  <2> QED BY <1>1, <1>2, <2>1, OpsPushed
<1> HIDE DEF t
<1>4. /\ CountTo("(", tokens, k) \in Nat /\ CountTo(")", tokens, k) \in Nat
      /\ CountTo("(", tokens, k + 1) = CountTo("(", tokens, k) + 1
      /\ CountTo(")", tokens, k + 1) = CountTo(")", tokens, k)
  BY CountsNext
<1>5. "(" \in Punctuation
  BY DEF Punctuation
<1>6. SlotsRead(pos, tokens, k + 1) = SlotsRead(pos, tokens, k)
  <2>1. tokens[k + 1] \in Punctuation
    BY <1>5
  <2> QED BY <2>1, SlotsReadNext
<1>7. Covers(n, t, SlotsRead(pos, tokens, k + 1))
  BY <1>1, <1>3, <1>6, CoversSame
<1>8. Count("(", t.ops) = CountTo("(", tokens, k + 1) - CountTo(")", tokens, k + 1)
  BY <1>1, <1>3, <1>4
<1>9. Len(t.stk) + Count("(", t.ops) = Len(t.ops) + Fed(tokens, k + 1)
  BY <1>1, <1>3
<1>10. Reads(n, pos, tokens, k + 1, t)
  BY <1>1, <1>3, <1>7, <1>8, <1>9 DEF Reads
<1> QED BY <1>10 DEF t

LEMMA ReadsComma ==
  ASSUME NEW n \in Nat, NEW pos, NEW tokens, NEW k \in Nat, NEW s, NEW c,
         Reads(n, pos, tokens, k, s), tokens[k + 1] = Comma, Fed(tokens, k) = 1,
         Fed(tokens, k + 1) = 0, c = ReducedTimes(n, s, OpenOps(s.ops))
  PROVE  c.err = "ok" /\ Reads(n, pos, tokens, k + 1, [c EXCEPT !.ops = Append(@, Comma)])
<1> DEFINE t == [c EXCEPT !.ops = Append(@, Comma)]
           S == SlotsRead(pos, tokens, k)
<1>1. /\ Holds(n, s, S)
      /\ Count("(", s.ops) = CountTo("(", tokens, k) - CountTo(")", tokens, k)
      /\ Len(s.stk) + Count("(", s.ops) = Len(s.ops) + 1
  BY DEF Reads, Holds
<1> HIDE DEF S
<1>2. /\ c \in ParserStates /\ c.err = "ok" /\ Covers(n, c, S)
      /\ Count("(", c.ops) = Count("(", s.ops)
      /\ Len(c.stk) + Count("(", c.ops) = Len(c.ops) + 1
  BY <1>1, InnerLoop DEF Holds
<1>3. Comma \in Operators /\ Comma # "("
  BY CommaIs
<1>4. /\ t \in ParserStates /\ t.err = c.err /\ t.stk = c.stk /\ t.tree = c.tree
      /\ Len(t.ops) = Len(c.ops) + 1
      /\ Count("(", t.ops) = Count("(", c.ops)
      /\ Count("(", c.ops) \in Nat /\ Len(c.ops) \in Nat /\ Len(c.stk) \in Nat
  <2>1. t = [c EXCEPT !.ops = Append(@, Comma)]
    OBVIOUS
  <2> HIDE DEF t
  <2> QED BY <1>2, <2>1, CommaPushed
<1> HIDE DEF t
<1>5. /\ CountTo("(", tokens, k + 1) = CountTo("(", tokens, k)
      /\ CountTo(")", tokens, k + 1) = CountTo(")", tokens, k)
  BY CommaIs, CountsNext
<1>6. Comma \in Punctuation
  BY CommaIs
<1>7. SlotsRead(pos, tokens, k + 1) = S
  <2>1. tokens[k + 1] \in Punctuation
    BY <1>6
  <2> QED BY <2>1, SlotsReadNext DEF S
<1>8. Covers(n, t, SlotsRead(pos, tokens, k + 1))
  BY <1>2, <1>4, <1>7, CoversSame
<1>9. Count("(", t.ops) = CountTo("(", tokens, k + 1) - CountTo(")", tokens, k + 1)
  BY <1>1, <1>2, <1>4, <1>5
<1>10. Len(t.stk) + Count("(", t.ops) = Len(t.ops) + Fed(tokens, k + 1)
  BY <1>2, <1>4
<1>11. Reads(n, pos, tokens, k + 1, t)
  BY <1>2, <1>4, <1>8, <1>9, <1>10 DEF Reads
<1> QED BY <1>2, <1>11 DEF t

LEMMA ReadsClosing ==
  ASSUME NEW n \in Nat, NEW pos, NEW tokens, NEW k \in Nat, NEW s, NEW c,
         Reads(n, pos, tokens, k, s), tokens[k + 1] = ")", Fed(tokens, k) = 1,
         Fed(tokens, k + 1) = 1, CountTo(")", tokens, k + 1) <= CountTo("(", tokens, k + 1),
         c = ReducedTimes(n, s, OpenOps(s.ops))
  PROVE  /\ c.err = "ok" /\ c.ops # <<>>
         /\ Reads(n, pos, tokens, k + 1, [c EXCEPT !.ops = Front(@)])
<1> DEFINE t == [c EXCEPT !.ops = Front(@)]
           S == SlotsRead(pos, tokens, k)
           p == Len(c.ops)
           q == Count("(", c.ops)
<1>1. /\ Holds(n, s, S)
      /\ Count("(", s.ops) = CountTo("(", tokens, k) - CountTo(")", tokens, k)
      /\ Len(s.stk) + Count("(", s.ops) = Len(s.ops) + 1
  BY DEF Reads, Holds
<1> HIDE DEF S
<1>2. /\ c \in ParserStates /\ c.err = "ok" /\ Covers(n, c, S)
      /\ q = Count("(", s.ops) /\ Len(c.stk) + q = p + 1
      /\ p # 0 => c.ops[p] = "("
  BY <1>1, InnerLoop DEF Holds
<1>3. /\ CountTo("(", tokens, k) \in Nat /\ CountTo(")", tokens, k) \in Nat
      /\ CountTo("(", tokens, k + 1) = CountTo("(", tokens, k)
      /\ CountTo(")", tokens, k + 1) = CountTo(")", tokens, k) + 1
  BY CountsNext
<1>4. q >= 1 /\ q - 1 = CountTo("(", tokens, k + 1) - CountTo(")", tokens, k + 1)
  BY <1>1, <1>2, <1>3
<1>5. c.ops \in Seq(Operators) /\ p \in Nat /\ Len(c.stk) \in Nat
  BY <1>2 DEF ParserStates
<1>6. p # 0 /\ c.ops # <<>>
  <2>1. ASSUME c.ops = <<>> PROVE FALSE
    BY <1>4, <2>1, CountNone
  <2> QED BY <1>5, <2>1
<1> DEFINE u == Front(c.ops)
<1>7. u \in Seq(Operators) /\ Len(u) = p - 1 /\ c.ops = Append(u, c.ops[p])
  BY <1>5, <1>6, FrontIs
<1> HIDE DEF u
<1>8. "(" \in Operators
  BY DEF Operators
<1>9. c.ops = Append(u, "(")
  BY <1>2, <1>6, <1>7
<1>10. Count("(", Append(u, "(")) = Count("(", u) + 1 /\ Count("(", u) \in 0..Len(u)
  BY <1>7, <1>8, CountAppend
<1>11. Count("(", u) = q - 1 /\ q \in Nat
  <2>1. q = Count("(", u) + 1
    BY <1>9, <1>10
  <2> QED BY <1>5, <1>7, <1>10, <2>1
<1>12. /\ t \in ParserStates /\ t.err = "ok" /\ t.stk = c.stk /\ t.tree = c.tree /\ t.ops = u
  BY <1>2, <1>7 DEF ParserStates, u
<1> HIDE DEF t, p, q
<1>13. ")" \in Punctuation
  BY DEF Punctuation
<1>14. SlotsRead(pos, tokens, k + 1) = S
  <2>1. tokens[k + 1] \in Punctuation
    BY <1>13
  <2> QED BY <2>1, SlotsReadNext DEF S
<1>15. Covers(n, t, SlotsRead(pos, tokens, k + 1))
  BY <1>2, <1>12, <1>14, CoversSame
<1>16. Count("(", t.ops) = CountTo("(", tokens, k + 1) - CountTo(")", tokens, k + 1)
  BY <1>4, <1>11, <1>12
<1>17. Len(t.stk) + Count("(", t.ops) = Len(t.ops) + Fed(tokens, k + 1)
  BY <1>2, <1>5, <1>7, <1>11, <1>12
<1>18. Reads(n, pos, tokens, k + 1, t)
  BY <1>12, <1>15, <1>16, <1>17 DEF Reads
<1> QED BY <1>2, <1>6, <1>18 DEF t

LEMMA ReadsName ==
  ASSUME NEW n \in Nat, NEW pos, NEW tokens, NEW k \in Nat, NEW s, Reads(n, pos, tokens, k, s),
         tokens[k + 1] \notin Punctuation, pos[tokens[k + 1]] \in 1..n,
         Fed(tokens, k) = 0, Fed(tokens, k + 1) = 1
  PROVE  Reads(n, pos, tokens, k + 1, [s EXCEPT !.stk = Append(@, pos[tokens[k + 1]])])
<1> DEFINE x == pos[tokens[k + 1]]
           t == [s EXCEPT !.stk = Append(@, x)]
           S == SlotsRead(pos, tokens, k)
<1>1. /\ s \in ParserStates /\ s.err = "ok" /\ Covers(n, s, S)
      /\ Count("(", s.ops) = CountTo("(", tokens, k) - CountTo(")", tokens, k)
      /\ Len(s.stk) + Count("(", s.ops) = Len(s.ops) + 0
  BY DEF Reads
<1>2. x \in 1..n /\ x \in Nat
  OBVIOUS
<1> HIDE DEF S, x
<1>3. s.ops \in Seq(Operators) /\ s.stk \in Seq(Nat) /\ Len(s.ops) \in Nat /\ Len(s.stk) \in Nat
  BY <1>1 DEF ParserStates
<1>4. Append(s.stk, x) \in Seq(Nat)
  BY <1>2, <1>3, AppendIs
<1>5. /\ t \in ParserStates /\ t.err = "ok" /\ t.stk = Append(s.stk, x) /\ t.tree = s.tree
      /\ t.ops = s.ops
  BY <1>1, <1>4 DEF ParserStates
<1> HIDE DEF t
<1>6. Covers(n, t, S \cup {x}) /\ Len(t.stk) = Len(s.stk) + 1
  BY <1>1, <1>2, <1>5, PushCovers
<1>7. SlotsRead(pos, tokens, k + 1) = S \cup {x}
  BY SlotsReadNext DEF S, x
<1>8. /\ CountTo("(", tokens, k + 1) = CountTo("(", tokens, k)
      /\ CountTo(")", tokens, k + 1) = CountTo(")", tokens, k)
  BY CountsNext DEF Punctuation
<1>9. Count("(", s.ops) \in Nat
  <2>1. Count("(", s.ops) = CountTo("(", s.ops, Len(s.ops))
    BY DEF Count
  <2> QED BY <1>3, <2>1, CountNext
<1>10. Len(t.stk) + Count("(", t.ops) = Len(t.ops) + Fed(tokens, k + 1)
  BY <1>1, <1>3, <1>5, <1>6, <1>9
<1>11. Reads(n, pos, tokens, k + 1, t)
  BY <1>1, <1>5, <1>6, <1>7, <1>8, <1>10 DEF Reads
<1> QED BY <1>11 DEF t, x

LEMMA ParsedIs ==
  ASSUME NEW n, NEW pos, NEW s, NEW tok, NEW c, s.err = "ok",
         c = ReducedTimes(n, s, OpenOps(s.ops))
  PROVE  /\ tok = "(" => Parsed(n, pos, s, tok) = [s EXCEPT !.ops = Append(@, "(")]
         /\ tok = Comma /\ c.err = "ok" => Parsed(n, pos, s, tok) = [c EXCEPT !.ops = Append(@, Comma)]
         /\ tok = ")" /\ c.err = "ok" /\ c.ops # <<>> =>
              Parsed(n, pos, s, tok) = [c EXCEPT !.ops = Front(@)]
<1>1. Parsed(n, pos, s, tok) =
        CASE tok = "(" -> [s EXCEPT !.ops = Append(@, tok)]
          [] tok = "," -> IF c.err = "ok" THEN [c EXCEPT !.ops = Append(@, tok)] ELSE c
          [] tok = ")" -> IF c.err # "ok" THEN c
                          ELSE IF c.ops = <<>> THEN [c EXCEPT !.err = "undefined"]
                          ELSE [c EXCEPT !.ops = Front(@)]
          [] OTHER     -> IF tok \in DOMAIN pos THEN [s EXCEPT !.stk = Append(@, pos[tok])]
                          ELSE [s EXCEPT !.err = "throws"]
  BY DEF Parsed
<1>2. tok = "(" => Parsed(n, pos, s, tok) = [s EXCEPT !.ops = Append(@, "(")]
  BY <1>1
<1>3. tok = Comma /\ c.err = "ok" => Parsed(n, pos, s, tok) = [c EXCEPT !.ops = Append(@, Comma)]
  BY <1>1 DEF Comma
<1>4. tok = ")" /\ c.err = "ok" /\ c.ops # <<>> =>
        Parsed(n, pos, s, tok) = [c EXCEPT !.ops = Front(@)]
  BY <1>1
<1> QED BY <1>2, <1>3, <1>4

LEMMA NameParsed ==
  ASSUME NEW n, NEW pos, NEW s, NEW tok, s.err = "ok", tok \notin Punctuation, tok \in DOMAIN pos
  PROVE  Parsed(n, pos, s, tok) = [s EXCEPT !.stk = Append(@, pos[tok])]
<1>1. tok # "(" /\ tok # "," /\ tok # ")"
  BY DEF Punctuation
<1> QED BY <1>1 DEF Parsed

\* The names that can be in an order: none is a bracket or a comma.
Naming(n, pos) == Places(n, pos) /\ DOMAIN pos \cap Punctuation = {}

LEMMA ParsedReads ==
  ASSUME NEW n \in Nat, NEW pos, NEW tokens, NEW k \in Nat, NEW s, Naming(n, pos),
         Len(tokens) \in Nat, IsOrder(tokens), k < Len(tokens),
         tokens[k + 1] \in Punctuation \cup DOMAIN pos, Reads(n, pos, tokens, k, s)
  PROVE  Reads(n, pos, tokens, k + 1, Parsed(n, pos, s, tokens[k + 1]))
<1> DEFINE tok == tokens[k + 1]
           c == ReducedTimes(n, s, OpenOps(s.ops))
<1>1. /\ Fed(tokens, k) = IF tok \in {Comma, ")"} THEN 1 ELSE 0
      /\ Fed(tokens, k + 1) = IF tok \in {Comma, "("} THEN 0 ELSE 1
      /\ CountTo(")", tokens, k + 1) <= CountTo("(", tokens, k + 1)
  BY OrderIs, Zenon DEF Comma
<1>2. s.err = "ok"
  BY DEF Reads
<1>3. /\ tok = "(" => Parsed(n, pos, s, tok) = [s EXCEPT !.ops = Append(@, "(")]
      /\ tok = Comma /\ c.err = "ok" => Parsed(n, pos, s, tok) = [c EXCEPT !.ops = Append(@, Comma)]
      /\ tok = ")" /\ c.err = "ok" /\ c.ops # <<>> =>
           Parsed(n, pos, s, tok) = [c EXCEPT !.ops = Front(@)]
  <2>1. c = ReducedTimes(n, s, OpenOps(s.ops))
    OBVIOUS
  <2> HIDE DEF tok, c
  <2>2. tok = "(" => Parsed(n, pos, s, tok) = [s EXCEPT !.ops = Append(@, "(")]
    BY <1>2, <2>1, ParsedIs
  <2>3. tok = Comma /\ c.err = "ok" => Parsed(n, pos, s, tok) = [c EXCEPT !.ops = Append(@, Comma)]
    BY <1>2, <2>1, ParsedIs
  <2>4. tok = ")" /\ c.err = "ok" /\ c.ops # <<>> =>
          Parsed(n, pos, s, tok) = [c EXCEPT !.ops = Front(@)]
    BY <1>2, <2>1, ParsedIs
  <2> QED BY <2>2, <2>3, <2>4
<1>4. "(" \notin {Comma, ")"} /\ ")" \notin {Comma, "("}
  BY CommaIs
<1>5. tok \in {"(", Comma, ")"} \/ (tok \notin Punctuation /\ tok \in DOMAIN pos)
  BY Zenon DEF Naming, Punctuation, Comma
<1>6. CASE tok = "("
  <2>1. Fed(tokens, k) = 0 /\ Fed(tokens, k + 1) = 0
    BY <1>1, <1>4, <1>6
  <2>2. Reads(n, pos, tokens, k + 1, [s EXCEPT !.ops = Append(@, "(")])
    BY <1>6, <2>1, ReadsOpening
  <2> QED BY <1>3, <1>6, <2>2
<1>7. CASE tok = Comma
  <2>1. Fed(tokens, k) = 1 /\ Fed(tokens, k + 1) = 0
    BY <1>1, <1>7
  <2>2. c.err = "ok" /\ Reads(n, pos, tokens, k + 1, [c EXCEPT !.ops = Append(@, Comma)])
    BY <1>7, <2>1, ReadsComma
  <2> QED BY <1>3, <1>7, <2>2
<1>8. CASE tok = ")"
  <2>1. Fed(tokens, k) = 1 /\ Fed(tokens, k + 1) = 1
    BY <1>1, <1>4, <1>8
  <2>2. c.err = "ok" /\ c.ops # <<>> /\ Reads(n, pos, tokens, k + 1, [c EXCEPT !.ops = Front(@)])
    BY <1>1, <1>8, <2>1, ReadsClosing
  <2> QED BY <1>3, <1>8, <2>2
<1>9. CASE tok \notin Punctuation /\ tok \in DOMAIN pos
  <2>1. tok \notin {Comma, ")"} /\ tok \notin {Comma, "("}
    BY <1>9, Zenon DEF Punctuation, Comma
  <2>2. Fed(tokens, k) = 0 /\ Fed(tokens, k + 1) = 1
    BY <1>1, <2>1
  <2>3. pos[tok] \in 1..n
    BY <1>9 DEF Naming, Places
  <2>4. Reads(n, pos, tokens, k + 1, [s EXCEPT !.stk = Append(@, pos[tok])])
    BY <1>9, <2>2, <2>3, ReadsName
  <2>5. Parsed(n, pos, s, tok) = [s EXCEPT !.stk = Append(@, pos[tok])]
    <3> HIDE DEF tok
    <3> DEFINE r == [s EXCEPT !.stk = Append(@, pos[tok])]
    <3>1. r = [s EXCEPT !.stk = Append(@, pos[tok])]
      OBVIOUS
    <3> HIDE DEF r
    <3>2. Parsed(n, pos, s, tok) = r
      BY <1>2, <1>9, <3>1, NameParsed
    <3> QED BY <3>2 DEF r
  <2> QED BY <2>4, <2>5
<1> QED BY <1>5, <1>6, <1>7, <1>8, <1>9

\* The tokens, one after the other.
\* f: the states of the parser after each token.
Runs(n, pos, tokens, f) ==
  /\ f \in [0..Len(tokens) -> ParserStates] /\ f[0] = Start
  /\ \A i \in 1..Len(tokens) : f[i] = Parsed(n, pos, f[i - 1], tokens[i])
  /\ Read(n, pos, tokens) = f[Len(tokens)]

LEMMA ReadSteps ==
  ASSUME NEW n \in Nat, NEW pos, NEW tokens, Places(n, pos), Len(tokens) \in Nat
  PROVE  \E f : Runs(n, pos, tokens, f)
<1> DEFINE k == Len(tokens)
           step == [i \in 1..k |-> [t \in ParserStates |-> Parsed(n, pos, t, tokens[i])]]
           next(h, tok) == Sole({Parsed(n, pos, u, tok) : u \in {h}})
           g == CHOOSE g : g = [i \in 0..k |-> IF i = 0 THEN Start
                                               ELSE next(g[i - 1], tokens[i])]
<1>0. k \in Nat /\ \A h, tok : next(h, tok) = Parsed(n, pos, h, tok)
  BY SoleParsed
<1>1. step \in [1..k -> [ParserStates -> ParserStates]]
  BY ParsedState
<1>2. Read(n, pos, tokens) = g[k]
  BY DEF Read
<1> HIDE DEF next
<1>3. Start \in ParserStates
  BY DEF Start, ParserStates
<1> HIDE DEF k
<1>4. PICK f \in [0..k -> ParserStates] : Unfolds(f, k, Start, step)
  <2> HIDE DEF step
  <2> QED BY <1>0, <1>1, <1>3, Recursion
<1>5. f[0] = Start /\ \A i \in 1..k : f[i] = step[i][f[i - 1]]
  BY <1>4 DEF Unfolds
<1>6. \A i \in 1..k : i - 1 \in 0..k /\ f[i - 1] \in ParserStates
  BY <1>0
<1>7. \A i \in 1..k : f[i] = Parsed(n, pos, f[i - 1], tokens[i])
  BY <1>5, <1>6
<1>8. f = [i \in 0..k |-> IF i = 0 THEN Start ELSE next(f[i - 1], tokens[i])]
  <2>1. \A i \in 0..k : f[i] = IF i = 0 THEN Start ELSE next(f[i - 1], tokens[i])
    BY <1>0, <1>5, <1>7
  <2> QED BY <2>1
<1>9. g = [i \in 0..k |-> IF i = 0 THEN Start ELSE next(g[i - 1], tokens[i])]
  BY <1>8 DEF g
<1> HIDE DEF g
<1>10. g[0] = Start /\ \A i \in 1..k : g[i] = Parsed(n, pos, g[i - 1], tokens[i])
  BY <1>0, <1>9
<1> DEFINE S == {i \in Nat : i <= k => g[i] \in ParserStates}
<1>11. 0 \in S
  BY <1>3, <1>10
<1>12. ASSUME NEW i \in Nat, i \in S PROVE i + 1 \in S
  <2>1. SUFFICES ASSUME i + 1 <= k PROVE g[i + 1] \in ParserStates
    OBVIOUS
  <2>2. g[i] \in ParserStates
    BY <1>0, <1>12, <2>1
  <2>3. i + 1 \in 1..k /\ (i + 1) - 1 = i
    BY <1>0, <2>1
  <2>4. g[i + 1] = Parsed(n, pos, g[i], tokens[i + 1])
    BY <1>10, <2>3
  <2> QED BY <2>2, <2>4, ParsedState
<1> HIDE DEF S
<1>13. Nat \subseteq S
  BY <1>11, <1>12, NatInduct
<1>14. \A i \in 0..k : g[i] \in ParserStates
  BY <1>0, <1>13 DEF S
<1>15. g \in [0..k -> ParserStates]
  BY <1>9, <1>14
<1> QED BY <1>2, <1>10, <1>15 DEF k, Runs

LEMMA StartReads ==
  ASSUME NEW n \in Nat, NEW pos, NEW tokens
  PROVE  Reads(n, pos, tokens, 0, Start)
<1> DEFINE L == [x \in 1..n |-> {x}]
<1>1. /\ Start \in ParserStates /\ Start.err = "ok" /\ Start.ops = <<>> /\ Start.stk = <<>>
      /\ Start.tree = <<>>
  BY DEF Start, ParserStates
<1>2. Len(<<>>) = 0 /\ ToSet(<<>>) = {}
  BY DEF ToSet
<1>3. SlotsRead(pos, tokens, 0) = {}
  BY DEF SlotsRead
<1>4. LeafSets(n, <<>>, L)
  <2>1. n + 0 = n
    OBVIOUS
  <2> QED BY <1>2, <2>1 DEF LeafSets
<1>5. IsTree(n, <<>>)
  BY <1>2 DEF IsTree
<1>6. UNION {L[x] : x \in {}} = {}
  OBVIOUS
<1> HIDE DEF L
<1>7. Covers(n, Start, {})
  BY <1>1, <1>2, <1>4, <1>5, <1>6 DEF Covers
<1>8. Count("(", <<>>) = 0 /\ CountTo("(", tokens, 0) = 0 /\ CountTo(")", tokens, 0) = 0
  BY CountNone, CountFirst
<1>9. Fed(tokens, 0) = 0
  BY Zenon DEF Fed
<1>10. Count("(", Start.ops) = CountTo("(", tokens, 0) - CountTo(")", tokens, 0)
  BY <1>1, <1>8
<1>11. Len(Start.stk) + Count("(", Start.ops) = Len(Start.ops) + Fed(tokens, 0)
  BY <1>1, <1>2, <1>8, <1>9
<1>12. Covers(n, Start, SlotsRead(pos, tokens, 0))
  BY <1>3, <1>7
<1> QED BY <1>1, <1>10, <1>11, <1>12 DEF Reads

\* A tree whose root has every tensor below it.
FullTree(n, tree) ==
  /\ tree \in Seq(Children) /\ Len(tree) # 0 /\ IsTree(n, tree)
  /\ \E L : LeafSets(n, tree, L) /\ L[Root(n, tree)] = 1..n

LEMMA OneEntry ==
  ASSUME NEW X, NEW s \in Seq(X), Len(s) = 1
  PROVE  ToSet(s) = {s[1]}
<1>1. \A i \in 1..Len(s) : i = 1
  OBVIOUS
<1>2. 1 \in 1..Len(s)
  OBVIOUS
<1> QED BY <1>1, <1>2, SetOf

\* An order is read to its end, and leaves one node.
LEMMA OrderRead ==
  ASSUME NEW n, NEW pos, NEW tokens, NEW t,
         n \in Nat, n >= 2, Naming(n, pos), Len(tokens) \in Nat, IsOrder(tokens),
         \A i \in 1..Len(tokens) : tokens[i] \in Punctuation \cup DOMAIN pos,
         SlotsRead(pos, tokens, Len(tokens)) = 1..n,
         t = TreeByTokens(n, pos, tokens)
  PROVE  t \in ParserStates /\ t.err = "ok" /\ FullTree(n, t.tree)
<1> DEFINE N == Len(tokens)
<1>1. N \in Nat /\ N # 0 /\ Fed(tokens, N) = 1 /\ CountTo("(", tokens, N) = CountTo(")", tokens, N)
  BY OrderIs
<1>2. PICK f : Runs(n, pos, tokens, f)
  <2>1. Places(n, pos)
    BY DEF Naming
  <2> QED BY <2>1, ReadSteps
<1>0. /\ f[0] = Start
      /\ \A i \in 1..N : f[i] = Parsed(n, pos, f[i - 1], tokens[i])
      /\ Read(n, pos, tokens) = f[N]
  BY <1>2 DEF Runs
<1> DEFINE S == {i \in Nat : i <= N => Reads(n, pos, tokens, i, f[i])}
<1>3. 0 \in S
  BY <1>0, StartReads
<1>4. ASSUME NEW i \in Nat, i \in S PROVE i + 1 \in S
  <2>1. SUFFICES ASSUME i + 1 <= N PROVE Reads(n, pos, tokens, i + 1, f[i + 1])
    OBVIOUS
  <2>2. i < N /\ i + 1 \in 1..N /\ (i + 1) - 1 = i
    BY <1>1, <2>1
  <2>3. Reads(n, pos, tokens, i, f[i])
    BY <1>4, <2>2
  <2>4. f[i + 1] = Parsed(n, pos, f[i], tokens[i + 1])
    BY <1>0, <2>2
  <2>5. tokens[i + 1] \in Punctuation \cup DOMAIN pos
    BY <2>2
  <2> QED BY <2>2, <2>3, <2>4, <2>5, ParsedReads
<1> HIDE DEF S
<1>5. Nat \subseteq S
  BY <1>3, <1>4, NatInduct
<1> DEFINE s == Read(n, pos, tokens)
<1>6. Reads(n, pos, tokens, N, s)
  <2>1. Reads(n, pos, tokens, N, f[N])
    BY <1>1, <1>5 DEF S
  <2> QED BY <1>0, <2>1
<1>8. /\ Holds(n, s, 1..n) /\ s.err = "ok"
      /\ Count("(", s.ops) = CountTo("(", tokens, N) - CountTo(")", tokens, N)
      /\ Len(s.stk) + Count("(", s.ops) = Len(s.ops) + 1
  BY <1>1, <1>6 DEF Reads, Holds
<1>9. CountTo("(", tokens, N) \in Nat
  BY <1>1, CountsNext
<1> HIDE DEF N, s
<1> DEFINE m == Len(s.ops)
<1>10. m \in Nat /\ Len(s.stk) \in Nat
  BY <1>8 DEF Holds, ParserStates
<1>11. Len(s.stk) = m + 1 /\ m < Len(s.stk) /\ m <= m
  BY <1>1, <1>8, <1>9, <1>10
<1>12. t = ReducedTimes(n, s, m)
  <2>1. tokens # <<>>
    BY <1>1 DEF N
  <2>2. ~(n < 2)
    OBVIOUS
  <2> DEFINE rest(u) == ReducedTimes(n, u, IF u.err = "ok" THEN Len(u.ops) ELSE 0)
  <2>3. t = Sole({rest(u) : u \in {Read(n, pos, tokens)}})
    BY <2>1, <2>2 DEF TreeByTokens
  <2>4. rest(s) = ReducedTimes(n, s, m)
    BY <1>8
  <2> HIDE DEF rest
  <2>5. {rest(u) : u \in {s}} = {rest(s)}
    OBVIOUS
  <2> QED BY <2>3, <2>4, <2>5, SoleIs DEF s
<1>13. /\ t \in ParserStates /\ t.err = "ok" /\ Len(t.stk) = Len(s.stk) - m /\ Covers(n, t, 1..n)
  <2> HIDE DEF m
  <2>1. Holds(n, ReducedTimes(n, s, m), 1..n) /\ Len(ReducedTimes(n, s, m).stk) = Len(s.stk) - m
    <3>1. m <= Len(s.ops)
      BY <1>10 DEF m
    <3> QED BY <1>8, <1>10, <1>11, <3>1, LoopCovers
  <2> QED BY <1>12, <2>1 DEF Holds
<1>14. t.stk \in Seq(Nat) /\ t.tree \in Seq(Children) /\ Len(t.tree) \in Nat
  BY <1>13 DEF ParserStates
<1>15. ToSet(t.stk) = {t.stk[1]}
  <2>1. Len(t.stk) = 1
    BY <1>10, <1>11, <1>13
  <2> QED BY <1>14, <2>1, OneEntry
<1>16. PICK L : LeafSets(n, t.tree, L) /\ UNION {L[x] : x \in {t.stk[1]}} = 1..n
  BY <1>13, <1>15 DEF Covers
<1>17. L[t.stk[1]] = 1..n
  BY <1>16
<1>18. Len(t.tree) # 0
  <2>1. SUFFICES ASSUME Len(t.tree) = 0 PROVE FALSE
    OBVIOUS
  <2>2. t.stk[1] \in 1..n
    BY <1>13, <1>15, <2>1 DEF Covers
  <2>3. L[t.stk[1]] = {t.stk[1]}
    BY <1>16, <2>2 DEF LeafSets
  <2>4. 1 \in 1..n /\ 2 \in 1..n
    OBVIOUS
  <2> DEFINE x == t.stk[1]
  <2>5. 1..n = {x}
    BY <1>17, <2>3
  <2> HIDE DEF x
  <2> QED BY <2>4, <2>5
<1>19. Root(n, t.tree) = t.stk[1]
  <2>1. t.tree # <<>>
    BY <1>18
  <2>2. n + Len(t.tree) \in {t.stk[1]}
    BY <1>13, <1>15, <2>1 DEF Covers
  <2> QED BY <2>2 DEF Root
<1>20. IsTree(n, t.tree)
  BY <1>13 DEF Covers
<1>21. FullTree(n, t.tree)
  BY <1>14, <1>16, <1>17, <1>18, <1>19, <1>20 DEF FullTree
<1> QED BY <1>13, <1>21

-----------------------------------------------------------------------------
(* The names of an order.                                                  *)

LEMMA CountPositive ==
  ASSUME NEW X, NEW s \in Seq(X), NEW x
  PROVE  Count(x, s) # 0 <=> x \in ToSet(s)
<1> DEFINE A == {i \in 1..Len(s) : s[i] = x}
<1>1. A = {} <=> x \notin ToSet(s)
  <2>1. x \in ToSet(s) <=> \E i \in 1..Len(s) : x = s[i]
    BY SetOf
  <2> QED BY <2>1
<1>2. Count(x, s) = Cardinality(A)
  BY DEF Count, CountTo
<1>3. IsFiniteSet(A)
  <2>1. IsFiniteSet(1..Len(s))
    BY FS_Interval
  <2>2. A \subseteq 1..Len(s)
    OBVIOUS
  <2> HIDE DEF A
  <2> QED BY <2>1, <2>2, FS_Subset
<1> HIDE DEF A
<1>4. Cardinality(A) = 0 <=> A = {}
  BY <1>3, FS_EmptySet
<1> QED BY <1>1, <1>2, <1>4

LEMMA NotRepeated ==
  ASSUME NEW X, NEW s \in Seq(X), ~Repeated(s)
  PROVE  \A i, j \in 1..Len(s) : s[i] = s[j] => i = j
<1> DEFINE n == Len(s)
           f == [i \in 1..n |-> s[i]]
<1>1. n \in Nat /\ \A y : y \in ToSet(s) <=> \E i \in 1..n : y = s[i]
  BY SetOf
<1>2. Cardinality(ToSet(s)) = n
  BY DEF Repeated
<1> HIDE DEF n
<1>3. f \in [1..n -> ToSet(s)] /\ \A i \in 1..n : f[i] = s[i]
  BY <1>1
<1> HIDE DEF f
<1>4. f \in Surjection(1..n, ToSet(s))
  <2>1. \A y \in ToSet(s) : \E i \in 1..n : f[i] = y
    BY <1>1, <1>3
  <2> QED BY <1>3, <2>1 DEF Surjection
<1>5. IsFiniteSet(1..n) /\ Cardinality(1..n) = n
  <2>1. 1 \in Int /\ n \in Int /\ (IF 1 > n THEN 0 ELSE n - 1 + 1) = n
    BY <1>1
  <2> QED BY <2>1, FS_Interval
<1>6. f \in Injection(1..n, ToSet(s))
  BY <1>2, <1>4, <1>5, FS_SurjSameCardinalityImpliesInj
<1>7. \A i, j \in 1..n : f[i] = f[j] => i = j
  BY <1>3, <1>6 DEF Injection, IsInjective
<1> QED BY <1>3, <1>7 DEF n

LEMMA PosIs ==
  ASSUME NEW X, NEW names \in Seq(X)
  PROVE  /\ Places(Len(names), PosIn(names)) /\ DOMAIN PosIn(names) = ToSet(names)
         /\ \A i \in 1..Len(names) :
              (\A j \in 1..Len(names) : names[j] = names[i] => j = i) => PosIn(names)[names[i]] = i
<1> DEFINE n == Len(names)
           T(x) == {i \in 1..n : names[i] = x}
<1>1. n \in Nat /\ DOMAIN names = 1..n /\ \A x : x \in ToSet(names) <=> \E i \in 1..n : x = names[i]
  BY SetOf
<1>2. PosIn(names) = [x \in ToSet(names) |-> Max(T(x))]
  BY <1>1 DEF PosIn
<1> HIDE DEF n
<1>3. ASSUME NEW x \in ToSet(names)
      PROVE  Max(T(x)) \in T(x) /\ Max(T(x)) \in 1..n
  <2>1. T(x) \subseteq 1..n /\ T(x) # {}
    BY <1>1, <1>3
  <2> DEFINE U == T(x)
  <2> HIDE DEF T
  <2>2. Max(U) \in U
    BY <1>1, <2>1, MaxIs
  <2> QED BY <2>1, <2>2
<1>4. Places(n, PosIn(names)) /\ DOMAIN PosIn(names) = ToSet(names)
  <2> HIDE DEF T
  <2> QED BY <1>2, <1>3 DEF Places
<1>5. ASSUME NEW i \in 1..n, \A j \in 1..n : names[j] = names[i] => j = i
      PROVE  PosIn(names)[names[i]] = i
  <2>1. names[i] \in ToSet(names)
    BY <1>1
  <2>2. Max(T(names[i])) \in T(names[i])
    BY <1>3, <2>1
  <2>3. Max(T(names[i])) = i
    BY <1>5, <2>2
  <2> QED BY <1>2, <2>1, <2>3
<1> QED BY <1>4, <1>5 DEF n

\* The names of a network and the tokens of an order that has each of them once.
LEMMA OrderNames ==
  ASSUME NEW n, n.names \in Seq(STRING), Len(n.tokens) \in Nat,
         n.tokens \in Seq(ToSet(n.tokens)), ~OrderNamesMismatch(n), ~Repeated(n.names)
  PROVE  /\ Naming(Len(n.names), Pos(n))
         /\ \A i \in 1..Len(n.tokens) : n.tokens[i] \in Punctuation \cup DOMAIN Pos(n)
         /\ SlotsRead(Pos(n), n.tokens, Len(n.tokens)) = 1..Len(n.names)
<1> DEFINE names == n.names
           tokens == n.tokens
           m == Len(names)
           N == Len(tokens)
           X == ToSet(tokens)
           pos == PosIn(names)
<1>1. /\ names \in Seq(STRING) /\ tokens \in Seq(X) /\ m \in Nat /\ N \in Nat
      /\ Pos(n) = pos
  BY DEF Pos
<1>2. /\ ToSet(names) \cap Punctuation = {}
      /\ \A x \in (ToSet(tokens) \ Punctuation) \cup ToSet(names) : Count(x, tokens) = Count(x, names)
  BY DEF OrderNamesMismatch
<1> HIDE DEF names, tokens, m, N, X, pos
<1>3. Places(m, pos) /\ DOMAIN pos = ToSet(names)
  BY <1>1, PosIs DEF m, pos
<1>4. Naming(m, pos)
  BY <1>2, <1>3 DEF Naming
<1>5. \A x : /\ Count(x, tokens) # 0 <=> x \in ToSet(tokens)
             /\ Count(x, names) # 0 <=> x \in ToSet(names)
  <2>1. \A x : Count(x, tokens) # 0 <=> x \in ToSet(tokens)
    BY <1>1, CountPositive
  <2>2. \A x : Count(x, names) # 0 <=> x \in ToSet(names)
    BY <1>1, CountPositive
  <2> QED BY <2>1, <2>2
<1>6. \A x \in ToSet(tokens) : x \in Punctuation \cup ToSet(names)
  BY <1>2, <1>5
<1>7. ToSet(names) \subseteq ToSet(tokens)
  BY <1>2, <1>5
<1>8. /\ \A x : x \in ToSet(tokens) <=> \E i \in 1..N : x = tokens[i]
      /\ \A x : x \in ToSet(names) <=> \E i \in 1..m : x = names[i]
  BY <1>1, SetOf DEF N, m
<1>9. \A i \in 1..N : tokens[i] \in Punctuation \cup DOMAIN pos
  BY <1>3, <1>6, <1>8
<1>10. \A i \in 1..m : pos[names[i]] = i
  <2>1. \A i, j \in 1..m : names[i] = names[j] => i = j
    <3>1. ~Repeated(names)
      BY DEF names
    <3> QED BY <1>1, <3>1, NotRepeated DEF m
  <2> QED BY <1>1, <2>1, PosIs DEF m, pos
<1>11. SlotsRead(pos, tokens, N) = 1..m
  <2>1. SlotsRead(pos, tokens, N) \subseteq 1..m
    <3>1. ASSUME NEW i \in 1..N, tokens[i] \notin Punctuation PROVE pos[tokens[i]] \in 1..m
      BY <1>3, <1>9, <3>1 DEF Places
    <3> QED BY <3>1 DEF SlotsRead
  <2>2. ASSUME NEW j \in 1..m PROVE j \in SlotsRead(pos, tokens, N)
    <3>1. names[j] \in ToSet(tokens) /\ names[j] \notin Punctuation
      BY <1>2, <1>7, <1>8
    <3>2. PICK i \in 1..N : names[j] = tokens[i]
      BY <1>8, <3>1
    <3>3. pos[tokens[i]] = j /\ tokens[i] \notin Punctuation
      BY <1>10, <3>1, <3>2
    <3> QED BY <3>3 DEF SlotsRead
  <2> QED BY <2>1, <2>2
<1> QED BY <1>1, <1>4, <1>9, <1>11 DEF m, N, tokens, names

\* The default order.
LEMMA DefaultIsFull ==
  ASSUME NEW n \in Nat, n >= 2
  PROVE  FullTree(n, DefaultTree(n))
<1> DEFINE tree == DefaultTree(n)
           K == n - 1
           V == (SUBSET (1..n)) \ {{}}
           L == [x \in 1..(n + K) |-> IF x <= n THEN {x} ELSE 1..(x - n + 1)]
<1>1. K \in Nat /\ K # 0 /\ K = n - 1
  OBVIOUS
<1> HIDE DEF K
<1>2. tree = [k \in 1..K |-> <<IF k = 1 THEN 1 ELSE n + k - 1, k + 1>>]
  BY DEF DefaultTree, K
<1>3. \A k \in 1..K : tree[k] = <<IF k = 1 THEN 1 ELSE n + k - 1, k + 1>>
  BY <1>2
<1>4. tree \in Seq(Children) /\ Len(tree) = K
  <2>1. \A k \in 1..K : <<IF k = 1 THEN 1 ELSE n + k - 1, k + 1>> \in Children
    BY DEF Children
  <2>2. tree \in [1..K -> Children]
    BY <1>2, <2>1
  <2> HIDE DEF tree
  <2> QED BY <1>1, <2>2, ListFacts
<1> HIDE DEF tree
<1>5. \A k \in 1..K : tree[k][1] = (IF k = 1 THEN 1 ELSE n + k - 1) /\ tree[k][2] = k + 1
  BY <1>3
<1>6. IsTree(n, tree)
  BY <1>1, <1>4, <1>5 DEF IsTree
<1>7. L \in [1..(n + K) -> V]
  <2>1. ASSUME NEW x \in 1..(n + K) PROVE (IF x <= n THEN {x} ELSE 1..(x - n + 1)) \in V
    <3>1. CASE x <= n
      BY <3>1
    <3>2. CASE ~(x <= n)
      <4>1. 1 \in 1..(x - n + 1) /\ 1..(x - n + 1) \subseteq 1..n
        BY <1>1, <3>2
      <4> QED BY <3>2, <4>1
    <3> QED BY <3>1, <3>2
  <2> HIDE DEF V
  <2> QED BY <2>1
<1>8. \A x \in 1..n : L[x] = {x}
  BY <1>1
<1>9. \A x \in 1..(n + K) : x > n => L[x] = 1..(x - n + 1)
  BY <1>1
<1> HIDE DEF L
<1>10. ASSUME NEW k \in 1..K PROVE L[n + k] = L[tree[k][1]] \cup L[tree[k][2]]
  <2>1. L[n + k] = 1..(k + 1)
    <3>1. n + k \in 1..(n + K) /\ n + k > n /\ (n + k) - n + 1 = k + 1
      BY <1>1
    <3> QED BY <1>9, <3>1
  <2>2. L[k + 1] = {k + 1}
    BY <1>1, <1>8
  <2>3. L[tree[k][1]] = 1..k
    <3>1. CASE k = 1
      BY <1>5, <1>8, <3>1
    <3>2. CASE k # 1
      <4>1. n + k - 1 \in 1..(n + K) /\ n + k - 1 > n /\ (n + k - 1) - n + 1 = k
        BY <1>1, <3>2
      <4> QED BY <1>5, <1>9, <3>2, <4>1
    <3> QED BY <3>1, <3>2
  <2>4. 1..(k + 1) = (1..k) \cup {k + 1}
    OBVIOUS
  <2> QED BY <1>5, <2>1, <2>2, <2>3, <2>4
<1>11. L[Root(n, tree)] = 1..n
  <2>1. Root(n, tree) = n + K /\ n + K \in 1..(n + K) /\ n + K > n /\ (n + K) - n + 1 = n
    BY <1>1, <1>4 DEF Root
  <2> QED BY <1>9, <2>1
<1>12. LeafSets(n, tree, L)
  BY <1>4, <1>7, <1>8, <1>10 DEF LeafSets, V
<1>13. FullTree(n, tree)
  BY <1>1, <1>4, <1>6, <1>11, <1>12 DEF FullTree
<1> QED BY <1>13 DEF tree

\* The order in force of a network, when it uses every tensor once.
LEMMA TreeIsFull ==
  ASSUME NEW n, Sound(n), n.tokens \in Seq(Tokens), ~NotReady(n), OrderKind(n) = "whole"
  PROVE  /\ TreeInForce(n).err = "ok" /\ FullTree(n.base, TreeInForce(n).tree)
         /\ n.base \in Nat /\ n.base >= 2 /\ Len(n.tensors) = n.base
<1>1. /\ n.names \in Seq(STRING) /\ n.base \in Nat /\ n.tensors \in Seq(UniTensors \cup {Void})
  BY DEF Sound, Form
<1>2. Len(n.tensors) = n.base /\ n.base >= 2
  <2>1. Len(n.tensors) \in Nat /\ ~(Len(n.tensors) < 2) /\ Len(n.tensors) \in {0, n.base}
    BY <1>1 DEF NotReady, Sound, Agrees
  <2> QED BY <1>1, <2>1
<1>3. n.base = Len(n.names)
  <2>1. n.base # 0
    BY <1>1, <1>2
  <2> QED BY <2>1 DEF Sound, Agrees
<1>4. \/ n.tokens = <<>>
      \/ n.tokens # <<>> /\ IsOrder(n.tokens) /\ ~OrderNamesMismatch(n) /\ ~Repeated(n.names)
  BY DEF OrderKind
<1>5. CASE n.tokens = <<>>
  <2>1. TreeInForce(n) = [tree |-> DefaultTree(n.base), err |-> "ok"]
    BY <1>5 DEF TreeInForce
  <2> QED BY <1>1, <1>2, <2>1, DefaultIsFull
<1>6. CASE n.tokens # <<>> /\ IsOrder(n.tokens) /\ ~OrderNamesMismatch(n) /\ ~Repeated(n.names)
  <2>1. TreeInForce(n) = TreeByTokens(n.base, Pos(n), n.tokens)
    BY <1>6 DEF TreeInForce
  <2>2. Len(n.tokens) \in Nat /\ n.tokens \in Seq(ToSet(n.tokens))
    <3> DEFINE s == n.tokens
    <3>1. s \in Seq(Tokens)
      OBVIOUS
    <3> HIDE DEF s
    <3>2. Len(s) \in Nat /\ s \in [1..Len(s) -> Tokens]
      BY <3>1
    <3>3. s \in [1..Len(s) -> ToSet(s)]
      BY <3>1, <3>2, SetOf
    <3>4. s \in Seq(ToSet(s))
      BY <3>2, <3>3, ListFacts
    <3> QED BY <3>2, <3>4 DEF s
  <2>3. /\ Naming(n.base, Pos(n))
        /\ \A i \in 1..Len(n.tokens) : n.tokens[i] \in Punctuation \cup DOMAIN Pos(n)
        /\ SlotsRead(Pos(n), n.tokens, Len(n.tokens)) = 1..n.base
    BY <1>1, <1>3, <1>6, <2>2, OrderNames
  <2>4. /\ TreeByTokens(n.base, Pos(n), n.tokens).err = "ok"
        /\ FullTree(n.base, TreeByTokens(n.base, Pos(n), n.tokens).tree)
    BY <1>1, <1>2, <1>6, <2>2, <2>3, OrderRead
  <2> QED BY <1>1, <1>2, <2>1, <2>4
<1> QED BY <1>4, <1>5, <1>6

-----------------------------------------------------------------------------
(* The tokens of a network are names and punctuation.                      *)

Listed(n) == n.tokens \in Seq(Tokens)

LEMMA StringsAreTokens == Seq(STRING) \subseteq Seq(Tokens)
<1>1. STRING \subseteq Tokens
  BY Zenon DEF Tokens
<1> DEFINE T == Tokens
<1>2. STRING \subseteq T
  BY <1>1
<1> HIDE DEF T
<1>3. \A s \in Seq(STRING) : s \in Seq(T)
  <2>1. SUFFICES ASSUME NEW s \in Seq(STRING) PROVE s \in Seq(T)
    OBVIOUS
  <2>2. Len(s) \in Nat /\ s \in [1..Len(s) -> STRING]
    OBVIOUS
  <2>3. s \in [1..Len(s) -> T]
    BY <1>2, <2>2
  <2> QED BY <2>2, <2>3, ListFacts
<1> QED BY <1>3 DEF T

LEMMA SearchMoves ==
  ASSUME [Next]_vars
  PROVE  SetOrderOptimal \/ SearchStep \/ SearchReturns \/ UNCHANGED search
<1>1. \A outcome, after : Ends(outcome, after) => UNCHANGED search
  BY DEF Ends
<1> QED BY <1>1, Zenon DEF Next, Call, Step, FromString, Construct, Contract_plan, Clear,
           ReplaceByClone, RmUniTensor, PutUniTensor, SetOrder, LaunchBegin, WalkStep,
           LaunchReturns, vars

\* A search that is done has one result, and nothing is left of it after its pairs.
Settled(s) ==
  /\ s.phase = "done" => Len(s.results) = 1
  /\ s.phase \in {"combine", "done"} => s.rest = <<>> /\ s.todo = <<>>

LEMMA SettledKept ==
  ASSUME NEW L, NEW K, search \in SearchStates(L, K), Settled(search), [Next]_vars
  PROVE  Settled(search')
<1> DEFINE s == search
<1>1. CASE SetOrderOptimal
  <2>1. search' = search \/ search'.phase \in {"pairs", "throws"}
    BY <1>1 DEF SetOrderOptimal, Ends, Searching, Idle
  <2> QED BY <2>1 DEF Settled
<1>2. CASE SearchStep
  <2>1. CASE ContractPair
    <3>1. PICK n, r : search' = [s EXCEPT !.nodes = n, !.rest = r]
      BY <2>1, Zenon DEF ContractPair
    <3>2. s.phase = "pairs"
      BY <2>1 DEF ContractPair
    <3>3. search'.phase = "pairs"
      BY <3>1, <3>2 DEF SearchStates
    <3> QED BY <3>3 DEF Settled
  <2>2. CASE PairThrows
    BY <2>2 DEF PairThrows, Settled, Idle
  <2>3. CASE FinishComponent
    <3> DEFINE results == Append(s.results, s.nodes[Head(s.rest)])
               rest == IF s.todo = <<>> THEN <<>> ELSE Head(s.todo)
               todo == IF s.todo = <<>> THEN <<>> ELSE Tail(s.todo)
               phase == IF s.todo = <<>> THEN "combine" ELSE "pairs"
    <3>1. search' = [s EXCEPT !.results = results, !.rest = rest, !.todo = todo, !.phase = phase]
      BY <2>3 DEF FinishComponent
    <3>2. s.todo = <<>> => rest = <<>> /\ todo = <<>> /\ phase = "combine"
      OBVIOUS
    <3>3. s.todo # <<>> => phase = "pairs"
      OBVIOUS
    <3> HIDE DEF results, rest, todo, phase
    <3>4. search'.rest = rest /\ search'.todo = todo /\ search'.phase = phase
      BY <3>1 DEF SearchStates
    <3> QED BY <3>2, <3>3, <3>4 DEF Settled
  <2>4. CASE CombineComponents
    <3>1. PICK r : search' = [s EXCEPT !.results = r]
      BY <2>4, Zenon DEF CombineComponents
    <3>2. s.phase = "combine"
      BY <2>4 DEF CombineComponents
    <3>3. search'.phase = "combine" /\ search'.rest = s.rest /\ search'.todo = s.todo
      BY <3>1, <3>2 DEF SearchStates
    <3> QED BY <3>2, <3>3 DEF Settled
  <2>5. CASE FinishSearch
    <3>1. s.phase = "combine" /\ Len(s.results) = 1 /\ search' = [s EXCEPT !.phase = "done"]
      BY <2>5 DEF FinishSearch
    <3>2. search'.phase = "done" /\ search'.results = s.results
          /\ search'.rest = s.rest /\ search'.todo = s.todo
      BY <3>1 DEF SearchStates
    <3> QED BY <3>1, <3>2 DEF Settled
  <2> QED BY <1>2, <2>1, <2>2, <2>3, <2>4, <2>5 DEF SearchStep, SolveStep
<1>3. CASE SearchReturns
  BY <1>3 DEF SearchReturns, Idle, Settled
<1>4. CASE UNCHANGED search
  BY <1>4 DEF Settled
<1>5. SetOrderOptimal \/ SearchStep \/ SearchReturns \/ UNCHANGED search
  BY SearchMoves
<1> QED BY <1>1, <1>2, <1>3, <1>4, <1>5

LEMMA TokensKept ==
  ASSUME Sound(net), Listed(net), SearchLegsInv(STRING, Tokens), Settled(search), [Next]_vars
  PROVE  Listed(net')
<1>1. \A outcome, after : Ends(outcome, after) => net' = after
  BY DEF Ends, Becomes
<1>2. /\ \A v : [net EXCEPT !.path = v].tokens = net.tokens
      /\ \A v : [net EXCEPT !.line = v].tokens = net.tokens
      /\ \A v : [net EXCEPT !.tensors = v].tokens = net.tokens
      /\ \A v : [net EXCEPT !.tokens = v].tokens = v
  BY DEF Sound, Form
<1>3. <<>> \in Seq(Tokens)
  OBVIOUS
<1>4. \A t : t \in Seq(STRING) => t \in Seq(Tokens)
  BY StringsAreTokens
<1>5. ASSUME NEW lines \in Files, FromString(lines) PROVE Listed(net')
  <2>1. net' = Loaded(lines).n
    BY <1>1, <1>5 DEF FromString
  <2> QED BY <1>4, <2>1, FilesAssumption, LoadedKeeps DEF Listed
<1>6. ASSUME NEW c \in Constructions, Construct(c.names, c.labels, c.out, c.outrk, c.tokens)
      PROVE  Listed(net')
  <2>1. net' = Constructed(c.names, c.labels, c.out, c.outrk, c.tokens).n
    BY <1>1, <1>6 DEF Construct
  <2> QED BY <1>4, <2>1, ConstructionsAssumption, ConstructedKeeps DEF Listed
<1>7. ASSUME NEW p \in Plans, Contract_plan(p.tensors, p.out, p.rowrank, p.names, p.tokens)
      PROVE  Listed(net')
  <2>1. net' \in {net, Planned(p.tensors, p.out, p.rowrank, p.names, p.tokens).n}
    BY <1>1, <1>7 DEF Contract_plan
  <2>2. Planned(p.tensors, p.out, p.rowrank, p.names, p.tokens).n.tokens \in Seq(STRING)
    BY PlansAssumption, PlannedKeeps
  <2> QED BY <1>4, <2>1, <2>2 DEF Listed
<1>8. CASE Clear
  <2>1. net' = [Fresh EXCEPT !.line = net.line, !.path = net.path]
    BY <1>1, <1>8 DEF Clear
  <2>2. net'.tokens = <<>>
    BY <2>1 DEF Fresh
  <2> QED BY <1>3, <2>2 DEF Listed
<1>9. CASE ReplaceByClone
  <2>1. net' = [net EXCEPT !.tensors = <<>>, !.line = <<>>, !.path = <<>>]
    BY <1>1, <1>9 DEF ReplaceByClone
  <2>2. net'.tokens = net.tokens
    BY <2>1 DEF Sound, Form
  <2> QED BY <2>2 DEF Listed
<1>10. ASSUME NEW name \in SlotNames, RmUniTensor(name) PROVE Listed(net')
  <2> DEFINE i == Pos(net)[name]
  <2>1. net' = net \/ net' = [net EXCEPT !.tensors[i] = Void]
    BY <1>1, <1>10 DEF RmUniTensor
  <2> HIDE DEF i
  <2>2. net'.tokens = net.tokens
    BY <2>1 DEF Sound, Form
  <2> QED BY <2>2 DEF Listed
<1>11. ASSUME NEW name \in SlotNames, NEW u \in Tensors, PutUniTensor(name, u) PROVE Listed(net')
  <2> DEFINE i == Pos(net)[name]
  <2>1. net' = net \/ net' = [net EXCEPT !.tensors[i] = u]
    BY <1>1, <1>11 DEF PutUniTensor
  <2> HIDE DEF i
  <2>2. net'.tokens = net.tokens
    BY <2>1 DEF Sound, Form
  <2> QED BY <2>2 DEF Listed
<1>12. ASSUME NEW tokens \in Orders, SetOrder(tokens) PROVE Listed(net')
  <2>1. net' = Reordered(tokens).n
    BY <1>1, <1>12 DEF SetOrder
  <2> DEFINE n0 == [net EXCEPT !.line = tokens, !.tokens = <<>>]
             n1 == [n0 EXCEPT !.tokens = tokens]
  <2>2. Reordered(tokens).n = n0 \/ Reordered(tokens).n = WithPath(n1).n
    BY DEF Reordered
  <2>3. n0.tokens = <<>> /\ WithPath(n1).n.tokens = tokens
    BY DEF Sound, Form, WithPath
  <2>4. tokens \in Seq(Tokens)
    BY <1>4, OrdersAssumption
  <2> QED BY <1>3, <2>1, <2>2, <2>3, <2>4 DEF Listed
<1>13. CASE SetOrderOptimal
  <2>1. net' = [net EXCEPT !.tokens = <<>>]
    BY <1>1, <1>13 DEF SetOrderOptimal, Becomes
  <2> QED BY <1>2, <1>3, <2>1 DEF Listed
<1>14. CASE SearchReturns
  <2> DEFINE text == Head(search.results).text
  <2>1. \/ net' = net
        \/ net' = [net EXCEPT !.line = text]
        \/ search.phase = "done" /\ net' = [net EXCEPT !.line = text, !.tokens = text]
    <3>1. net' = IF search.phase # "done" THEN net
                 ELSE IF BadOrderLine(IF search.phase = "done" THEN text ELSE <<>>)
                      THEN [net EXCEPT !.line = IF search.phase = "done" THEN text ELSE <<>>]
                      ELSE [net EXCEPT !.line = IF search.phase = "done" THEN text ELSE <<>>,
                                       !.tokens = IF search.phase = "done" THEN text ELSE <<>>]
      BY <1>14, Zenon DEF SearchReturns, Becomes
    <3> HIDE DEF text
    <3> QED BY <3>1
  <2>2. search.phase = "done" => text \in Seq(Tokens)
    <3> SUFFICES ASSUME search.phase = "done" PROVE text \in Seq(Tokens)
      OBVIOUS
    <3>1. search.results \in Seq(PseudoUniTensors(STRING, Tokens))
      BY StateIs DEF SearchLegsInv, SearchInv
    <3>2. Len(search.results) = 1
      BY DEF Settled
    <3>3. Head(search.results) \in PseudoUniTensors(STRING, Tokens)
      <4> DEFINE P == PseudoUniTensors(STRING, Tokens)
      <4> HIDE DEF P
      <4>1. search.results \in Seq(P)
        BY <3>1 DEF P
      <4>2. search.results # <<>>
        BY <3>2
      <4>3. Head(search.results) \in P
        BY <4>1, <4>2
      <4> QED BY <4>3 DEF P
    <3> QED BY <3>3 DEF PseudoUniTensors
  <2> HIDE DEF text
  <2>3. [net EXCEPT !.line = text, !.tokens = text].tokens = text
    BY DEF Sound, Form
  <2> QED BY <1>2, <2>1, <2>2, <2>3 DEF Listed
<1>15. LaunchBegin \/ SearchStep \/ WalkStep \/ LaunchReturns \/ UNCHANGED vars => net' = net
  BY Zenon DEF LaunchBegin, SearchStep, WalkStep, LaunchReturns, vars
<1> QED
  BY <1>5, <1>6, <1>7, <1>8, <1>9, <1>10, <1>11, <1>12, <1>13, <1>14, <1>15, Zenon
     DEF Next, Call, Step

-----------------------------------------------------------------------------
(* The values of the nodes.                                                *)

\* f[k]: what Open has kept of the first k entries of s.
Opens(X, s, J, f) ==
  /\ f \in [0..Len(s) -> Seq(X)] /\ f[0] = <<>>
  /\ \A k \in 1..Len(s) : f[k] = IF k \in J THEN f[k - 1] ELSE Append(f[k - 1], s[k])
  /\ Open(s, J) = f[Len(s)]

LEMMA OpenSteps ==
  ASSUME NEW X, NEW s \in Seq(X), NEW J
  PROVE  \E f : Opens(X, s, J, f)
<1> DEFINE n == Len(s)
           V == Seq(X)
           Kept(k, v) == IF k \in J THEN v ELSE Append(v, s[k])
           step == [k \in 1..n |-> [v \in V |-> Kept(k, v)]]
           p == CHOOSE p : p = [k \in 0..n |->
                                  IF k = 0 THEN <<>>
                                  ELSE IF k \in J THEN p[k - 1]
                                  ELSE Append(p[k - 1], s[k])]
<1>1. n \in Nat /\ \A k \in 1..n : s[k] \in X
  OBVIOUS
<1>2. Open(s, J) = p[n]
  BY DEF Open
<1>3. \A k \in 1..n, v \in V : Kept(k, v) \in V
  BY <1>1
<1>4. step \in [1..n -> [V -> V]] /\ <<>> \in V
  <2>1. <<>> \in V
    OBVIOUS
  <2> HIDE DEF V, n, Kept
  <2> QED BY <1>3, <2>1
<1>5. PICK f \in [0..n -> V] : Unfolds(f, n, <<>>, step)
  <2> HIDE DEF V, n, step
  <2> QED BY <1>1, <1>4, Recursion
<1>6. f[0] = <<>> /\ \A k \in 1..n : f[k] = Kept(k, f[k - 1])
  <2>1. f[0] = <<>> /\ \A k \in 1..n : f[k] = step[k][f[k - 1]]
    BY <1>5 DEF Unfolds
  <2>2. \A k \in 1..n : k - 1 \in 0..n
    BY <1>1
  <2>3. \A k \in 1..n, x \in V : step[k][x] = Kept(k, x)
    OBVIOUS
  <2> HIDE DEF V, n, step, Kept
  <2> QED BY <1>1, <2>1, <2>2, <2>3
<1>7. f = [k \in 0..n |-> IF k = 0 THEN <<>>
                          ELSE IF k \in J THEN f[k - 1]
                          ELSE Append(f[k - 1], s[k])]
  <2>1. \A k \in 0..n : f[k] = IF k = 0 THEN <<>>
                               ELSE IF k \in J THEN f[k - 1]
                               ELSE Append(f[k - 1], s[k])
    <3>1. \A k \in 0..n : k = 0 \/ k \in 1..n
      BY <1>1
    <3> HIDE DEF n, V
    <3> QED BY <1>6, <3>1
  <2> HIDE DEF n, V, p, step, Kept
  <2> QED BY <2>1
<1>8. p = [k \in 0..n |-> IF k = 0 THEN <<>>
                          ELSE IF k \in J THEN p[k - 1]
                          ELSE Append(p[k - 1], s[k])]
  <2> HIDE DEF n
  <2> QED BY <1>7
<1> HIDE DEF p, step
<1>9. p[0] = <<>> /\ \A k \in 1..n : p[k] = IF k \in J THEN p[k - 1] ELSE Append(p[k - 1], s[k])
  <2>1. 0 \in 0..n /\ \A k \in 1..n : k \in 0..n /\ k # 0
    BY <1>1
  <2> HIDE DEF n, V, Kept
  <2>2. p[0] = <<>>
    BY <1>8, <2>1
  <2>3. ASSUME NEW k \in 1..n PROVE p[k] = IF k \in J THEN p[k - 1] ELSE Append(p[k - 1], s[k])
    BY <1>8, <2>1, Zenon
  <2> QED BY <2>2, <2>3
<1>10. \A k \in 0..n : p[k] \in V
  <2> DEFINE S == {k \in Nat : k <= n => p[k] \in V}
  <2> HIDE DEF V, n
  <2>1. 0 \in S
    BY <1>4, <1>9
  <2>2. ASSUME NEW k \in Nat, k \in S PROVE k + 1 \in S
    <3>1. SUFFICES ASSUME k + 1 <= n PROVE p[k + 1] \in V
      OBVIOUS
    <3>2. k + 1 \in 1..n /\ (k + 1) - 1 = k /\ p[k] \in V
      BY <1>1, <2>2, <3>1
    <3>3. p[k + 1] = Kept(k + 1, p[k])
      BY <1>9, <3>2
    <3> QED BY <1>3, <3>2, <3>3
  <2> HIDE DEF S
  <2>3. Nat \subseteq S
    BY <2>1, <2>2, NatInduct
  <2> QED BY <1>1, <2>3 DEF S
<1>11. p \in [0..n -> V]
  BY <1>8, <1>10
<1>12. Opens(X, s, J, p)
  BY <1>2, <1>9, <1>11 DEF Opens
<1> QED BY <1>12

\* A shorter list has no more entries that are open.
LEMMA OpenIs ==
  ASSUME NEW X, NEW Y, NEW s \in Seq(X), NEW t \in Seq(Y), NEW J, Len(s) <= Len(t)
  PROVE  /\ Open(s, J) \in Seq(X) /\ Open(t, J) \in Seq(Y)
         /\ Len(Open(s, J)) <= Len(Open(t, J))
<1> DEFINE m == Len(s)
           n == Len(t)
<1>1. m \in Nat /\ n \in Nat /\ m <= n
  OBVIOUS
<1>2. PICK f : Opens(X, s, J, f)
  BY OpenSteps
<1>3. PICK g : Opens(Y, t, J, g)
  BY OpenSteps
<1>4. /\ f \in [0..m -> Seq(X)] /\ f[0] = <<>> /\ Open(s, J) = f[m]
      /\ \A k \in 1..m : f[k] = IF k \in J THEN f[k - 1] ELSE Append(f[k - 1], s[k])
      /\ g \in [0..n -> Seq(Y)] /\ g[0] = <<>> /\ Open(t, J) = g[n]
      /\ \A k \in 1..n : g[k] = IF k \in J THEN g[k - 1] ELSE Append(g[k - 1], t[k])
  BY <1>2, <1>3 DEF Opens
<1>5. (\A k \in 1..m : s[k] \in X) /\ (\A k \in 1..n : t[k] \in Y)
  OBVIOUS
<1> HIDE DEF m, n
<1> DEFINE S == {k \in Nat : k <= m => Len(f[k]) = Len(g[k])}
           T == {k \in Nat : k <= n => Len(g[k]) >= IF k <= m THEN Len(f[k]) ELSE Len(f[m])}
<1>6. 0 \in S
  BY <1>4
<1>7. ASSUME NEW k \in Nat, k \in S PROVE k + 1 \in S
  <2>1. SUFFICES ASSUME k + 1 <= m PROVE Len(f[k + 1]) = Len(g[k + 1])
    OBVIOUS
  <2>2. k + 1 \in 1..m /\ k + 1 \in 1..n /\ (k + 1) - 1 = k /\ k \in 0..m /\ k \in 0..n
    BY <1>1, <2>1
  <2>3. f[k] \in Seq(X) /\ g[k] \in Seq(Y) /\ Len(f[k]) = Len(g[k])
    BY <1>4, <1>7, <2>2
  <2>4. Len(Append(f[k], s[k + 1])) = Len(f[k]) + 1 /\ Len(Append(g[k], t[k + 1])) = Len(g[k]) + 1
    BY <1>5, <2>2, <2>3, AppendIs
  <2>5. /\ f[k + 1] = IF k + 1 \in J THEN f[k] ELSE Append(f[k], s[k + 1])
        /\ g[k + 1] = IF k + 1 \in J THEN g[k] ELSE Append(g[k], t[k + 1])
    BY <1>4, <2>2
  <2> QED BY <2>3, <2>4, <2>5
<1>8. Nat \subseteq S
  <2> HIDE DEF S
  <2> QED BY <1>6, <1>7, NatInduct
<1>9. \A k \in 0..m : Len(f[k]) = Len(g[k])
  BY <1>1, <1>8
<1> HIDE DEF S
<1>10. 0 \in T
  BY <1>1, <1>4
<1>11. ASSUME NEW k \in Nat, k \in T PROVE k + 1 \in T
  <2>1. SUFFICES ASSUME k + 1 <= n PROVE k + 1 \in T
    OBVIOUS
  <2>2. CASE k + 1 <= m
    <3>1. Len(g[k + 1]) = Len(f[k + 1]) /\ Len(g[k + 1]) \in Nat
      BY <1>1, <1>4, <1>9, <2>1, <2>2
    <3> QED BY <2>2, <3>1
  <2>3. CASE ~(k + 1 <= m)
    <3>1. k + 1 \in 1..n /\ (k + 1) - 1 = k /\ k \in 0..n /\ m \in 0..m /\ (k <= m => k = m)
      BY <1>1, <2>1, <2>3
    <3>2. g[k] \in Seq(Y) /\ Len(g[k]) \in Nat /\ Len(g[k]) >= Len(f[m]) /\ Len(f[m]) \in Nat
      <4>1. k <= n
        BY <1>1, <2>1
      <4>2. g[k] \in Seq(Y) /\ f[m] \in Seq(X)
        BY <1>4, <3>1
      <4>3. Len(g[k]) >= Len(f[m])
        BY <1>11, <3>1, <4>1
      <4> QED BY <4>2, <4>3
    <3>3. Len(Append(g[k], t[k + 1])) = Len(g[k]) + 1
      BY <1>5, <3>1, <3>2, AppendIs
    <3>4. g[k + 1] = IF k + 1 \in J THEN g[k] ELSE Append(g[k], t[k + 1])
      BY <1>4, <3>1
    <3>5. Len(g[k + 1]) >= Len(f[m])
      BY <3>2, <3>3, <3>4
    <3> QED BY <2>3, <3>5
  <2> QED BY <2>2, <2>3
<1>12. Nat \subseteq T
  <2> HIDE DEF T
  <2> QED BY <1>10, <1>11, NatInduct
<1>13. Len(g[n]) >= Len(f[m])
  <2>1. Len(g[n]) >= IF n <= m THEN Len(f[n]) ELSE Len(f[m])
    BY <1>1, <1>12
  <2>2. n <= m => n = m
    BY <1>1
  <2> QED BY <2>1, <2>2
<1>14. f[m] \in Seq(X) /\ g[n] \in Seq(Y)
  BY <1>1, <1>4
<1>15. Len(f[m]) \in Nat /\ Len(g[n]) \in Nat
  BY <1>14
<1> QED BY <1>4, <1>13, <1>14, <1>15

\* A value has an axis for each of its labels.
Value(v) == v \in NodeValues /\ Len(v.labs) <= Len(v.axes)

Axes == [at : Nat \X Nat, dim : Nat]

LEMMA ContractedIsValue ==
  ASSUME NEW a, NEW b, Value(a), Value(b)
  PROVE  Value(Contracted(a, b)) /\ Contracted(a, b).parts = a.parts \cup b.parts
<1> DEFINE joins == Joins(a, b)
           P == {pq[1] : pq \in joins}
           Q == {pq[2] : pq \in joins}
           labs == Open(a.labs, P) \o Open(b.labs, Q)
           axes == Open(a.axes, P) \o Open(b.axes, Q)
           bonds == a.bonds \cup b.bonds \cup {{a.axes[pq[1]].at, b.axes[pq[2]].at} : pq \in joins}
           parts == a.parts \cup b.parts
<1>1. Contracted(a, b) = [parts |-> parts, bonds |-> bonds, labs |-> labs,
                          axes |-> IF axes = <<>> THEN <<UnitAxis>> ELSE axes]
  BY DEF Contracted
<1>2. /\ a.labs \in Seq(STRING) /\ b.labs \in Seq(STRING)
      /\ a.axes \in Seq(Axes) /\ b.axes \in Seq(Axes)
      /\ a.parts \subseteq Nat \X UniTensors /\ b.parts \subseteq Nat \X UniTensors
      /\ a.bonds \subseteq SUBSET (Nat \X Nat) /\ b.bonds \subseteq SUBSET (Nat \X Nat)
      /\ Len(a.labs) <= Len(a.axes) /\ Len(b.labs) <= Len(b.axes)
  BY DEF Value, NodeValues, Axes
<1> HIDE DEF P, Q
<1>3. /\ Open(a.labs, P) \in Seq(STRING) /\ Open(b.labs, Q) \in Seq(STRING)
      /\ Open(a.axes, P) \in Seq(Axes) /\ Open(b.axes, Q) \in Seq(Axes)
      /\ Len(Open(a.labs, P)) <= Len(Open(a.axes, P))
      /\ Len(Open(b.labs, Q)) <= Len(Open(b.axes, Q))
  <2>1. /\ Open(a.labs, P) \in Seq(STRING) /\ Open(a.axes, P) \in Seq(Axes)
        /\ Len(Open(a.labs, P)) <= Len(Open(a.axes, P))
    BY <1>2, OpenIs
  <2>2. /\ Open(b.labs, Q) \in Seq(STRING) /\ Open(b.axes, Q) \in Seq(Axes)
        /\ Len(Open(b.labs, Q)) <= Len(Open(b.axes, Q))
    BY <1>2, OpenIs
  <2> QED BY <2>1, <2>2
<1>4. labs \in Seq(STRING) /\ axes \in Seq(Axes) /\ Len(labs) <= Len(axes)
  <2>1. /\ labs \in Seq(STRING) /\ Len(labs) = Len(Open(a.labs, P)) + Len(Open(b.labs, Q))
    BY <1>3, ListFacts
  <2>2. /\ axes \in Seq(Axes) /\ Len(axes) = Len(Open(a.axes, P)) + Len(Open(b.axes, Q))
    BY <1>3, ListFacts
  <2> DEFINE k == Len(Open(a.labs, P))
             l == Len(Open(b.labs, Q))
             u == Len(Open(a.axes, P))
             v == Len(Open(b.axes, Q))
  <2>3. k \in Nat /\ l \in Nat /\ u \in Nat /\ v \in Nat /\ k <= u /\ l <= v
    BY <1>3
  <2>4. Len(labs) = k + l /\ Len(axes) = u + v
    BY <2>1, <2>2
  <2> HIDE DEF k, l, u, v
  <2>5. k + l <= u + v
    BY <2>3
  <2> QED BY <2>1, <2>2, <2>4, <2>5
<1>5. bonds \subseteq SUBSET (Nat \X Nat)
  <2>1. ASSUME NEW pq \in joins
        PROVE  {a.axes[pq[1]].at, b.axes[pq[2]].at} \subseteq Nat \X Nat
    <3>1. pq[1] \in DOMAIN a.labs /\ pq[2] \in DOMAIN b.labs
      BY <2>1 DEF Joins
    <3>2. pq[1] \in 1..Len(a.axes) /\ pq[2] \in 1..Len(b.axes)
      BY <1>2, <3>1
    <3>3. a.axes[pq[1]] \in Axes /\ b.axes[pq[2]] \in Axes
      BY <1>2, <3>2
    <3> QED BY <3>3 DEF Axes
  <2> HIDE DEF joins
  <2>2. {{a.axes[pq[1]].at, b.axes[pq[2]].at} : pq \in joins} \subseteq SUBSET (Nat \X Nat)
    BY <2>1
  <2>3. a.bonds \cup b.bonds \subseteq SUBSET (Nat \X Nat)
    BY <1>2
  <2> QED BY <2>2, <2>3
<1>6. parts \subseteq Nat \X UniTensors
  BY <1>2
<1> DEFINE all == IF axes = <<>> THEN <<UnitAxis>> ELSE axes
<1>7. all \in Seq(Axes) /\ Len(labs) <= Len(all)
  <2>1. UnitAxis \in Axes
    BY DEF UnitAxis, Axes
  <2>2. <<UnitAxis>> \in Seq(Axes) /\ Len(<<UnitAxis>>) = 1
    BY <2>1, Lists
  <2> HIDE DEF labs, axes
  <2>3. Len(labs) \in Nat /\ (axes = <<>> => Len(axes) = 0)
    BY <1>4
  <2> QED BY <1>4, <2>2, <2>3
<1> HIDE DEF labs, bonds, parts, all
<1>8. Contracted(a, b) = [parts |-> parts, bonds |-> bonds, labs |-> labs, axes |-> all]
  BY <1>1 DEF all
<1>9. Contracted(a, b) \in NodeValues
  BY <1>4, <1>5, <1>6, <1>7, <1>8 DEF NodeValues, Axes
<1> QED BY <1>7, <1>8, <1>9 DEF Value, parts

\* What Launch puts into the base nodes.
LEMMA RelabelledIsValue ==
  ASSUME Sound(net), ~NotReady(net), NEW i \in 1..Len(net.tensors)
  PROVE  Value(Relabelled(i)) /\ Relabelled(i).parts = {<<i, net.tensors[i]>>}
<1> DEFINE u == net.tensors[i]
           labs == net.labels[i]
           axes == [k \in DOMAIN labs |-> [at |-> <<i, k>>, dim |-> u.dims[k]]]
           N == Len(labs)
<1>1. /\ net.tensors \in Seq(UniTensors \cup {Void}) /\ Len(net.tensors) \in Nat
      /\ net.labels \in Seq(Seq(STRING)) /\ i \in Nat
  BY DEF Sound, Form
<1>2. u \in UniTensors /\ u # Void
  <2>1. u \in UniTensors \cup {Void} /\ u # Void
    BY <1>1, SetOf, ListFacts DEF NotReady
  <2> QED BY <2>1
<1>3. i \in 1..Len(net.labels)
  <2>1. Len(net.tensors) = net.base /\ net.base # 0
    BY <1>1 DEF NotReady, Sound, Agrees
  <2> QED BY <1>1, <2>1 DEF Sound, Agrees
<1>4. labs \in Seq(STRING) /\ Len(u.dims) = Len(labs) /\ u.dims \in Seq(Nat)
  <2>1. labs \in Seq(STRING)
    BY <1>1, <1>3, ListFacts
  <2>2. Len(u.dims) = Len(labs)
    BY <1>1, <1>2 DEF Sound, Agrees
  <2> QED BY <1>2, <2>1, <2>2 DEF UniTensors
<1>5. Relabelled(i) = [parts |-> {<<i, u>>}, bonds |-> {}, labs |-> labs, axes |-> axes]
  BY DEF Relabelled
<1> HIDE DEF u, labs
<1>6. axes \in Seq(Axes) /\ Len(axes) = N
  <2>1. N \in Nat /\ DOMAIN labs = 1..N /\ \A k \in 1..N : u.dims[k] \in Nat
    BY <1>4
  <2>2. \A k \in 1..N : [at |-> <<i, k>>, dim |-> u.dims[k]] \in Axes
    BY <1>1, <2>1 DEF Axes
  <2>3. axes \in [1..N -> Axes]
    BY <2>1, <2>2
  <2> HIDE DEF N, axes
  <2> QED BY <2>1, <2>3, ListFacts
<1> HIDE DEF axes
<1>7. {<<i, u>>} \subseteq Nat \X UniTensors
  BY <1>1, <1>2
<1>8. Relabelled(i) \in NodeValues
  BY <1>4, <1>5, <1>6, <1>7 DEF NodeValues, Axes
<1>9. N \in Nat
  BY <1>4
<1> QED BY <1>5, <1>6, <1>8, <1>9 DEF Value, u

-----------------------------------------------------------------------------
(* The walk.                                                               *)

LEMMA ChildrenAre ==
  ASSUME NEW n \in Nat, NEW tree \in Seq(Children), IsTree(n, tree),
         NEW x \in (n + 1)..Root(n, tree)
  PROVE  /\ Left(n, tree, x) = tree[x - n][1] /\ Right(n, tree, x) = tree[x - n][2]
         /\ Left(n, tree, x) \in 1..(x - 1) /\ Right(n, tree, x) \in 1..(x - 1)
         /\ x - n \in 1..Len(tree) /\ n + (x - n) = x
<1>1. Len(tree) \in Nat
  OBVIOUS
<1>2. x \in Int /\ x > n /\ x - n \in 1..Len(tree) /\ n + (x - n) = x
  BY <1>1 DEF Root
<1>3. tree[x - n][1] \in 1..(n + (x - n) - 1) /\ tree[x - n][2] \in 1..(n + (x - n) - 1)
  BY <1>2 DEF IsTree
<1> QED BY <1>2, <1>3 DEF Left, Right

\* f[x]: what the inner loop pushes on its way down from x.
Spines(n, tree, f) ==
  /\ f \in [0..Root(n, tree) -> Seq(1..Root(n, tree))] /\ f[0] = <<>>
  /\ \A x \in 1..n : f[x] = <<x>>
  /\ \A x \in (n + 1)..Root(n, tree) :
       f[x] = <<Right(n, tree, x), x>> \o f[Left(n, tree, x)]
  /\ \A x \in 0..Root(n, tree) : Spine(n, tree, x) = f[x]

\* A function that is defined from its values at smaller numbers.
LEMMA SpineExists ==
  ASSUME NEW n \in Nat, NEW tree \in Seq(Children), IsTree(n, tree)
  PROVE  \E f \in [0..Root(n, tree) -> Seq(1..Root(n, tree))] :
           f = [x \in 0..Root(n, tree) |->
                  IF x = 0 THEN <<>> ELSE IF x <= n THEN <<x>>
                  ELSE <<Right(n, tree, x), x>> \o f[Left(n, tree, x)]]
<1> DEFINE R == Root(n, tree)
           V == Seq(1..R)
           At(f, x) == IF x = 0 THEN <<>> ELSE IF x <= n THEN <<x>>
                       ELSE <<Right(n, tree, x), x>> \o f[Left(n, tree, x)]
           Up(k, f) == f \in [0..R -> V] /\ \A x \in 0..k : f[x] = At(f, x)
           S == {k \in Nat : k <= R => \E f : Up(k, f)}
<1>1. R \in Nat /\ n <= R
  <2>1. Len(tree) \in Nat
    OBVIOUS
  <2> QED BY <2>1 DEF Root
<1>2. \A x \in (n + 1)..R : /\ Left(n, tree, x) \in 1..(x - 1) /\ Right(n, tree, x) \in 1..(x - 1)
                            /\ Left(n, tree, x) \in 0..R /\ Right(n, tree, x) \in 1..R /\ x \in 1..R
  BY <1>1, ChildrenAre
<1> HIDE DEF R
<1>3. ASSUME NEW f \in [0..R -> V], NEW x \in 0..R PROVE At(f, x) \in V
  <2>1. CASE x = 0
    BY <2>1, Lists
  <2>2. CASE x # 0 /\ x <= n
    <3>1. x \in 1..R
      BY <1>1, <2>2
    <3> QED BY <2>2, <3>1, Lists
  <2>3. CASE x # 0 /\ ~(x <= n)
    <3>1. x \in (n + 1)..R
      BY <1>1, <2>3
    <3>2. <<Right(n, tree, x), x>> \in V
      BY <1>2, <3>1
    <3>3. f[Left(n, tree, x)] \in V
      BY <1>2, <3>1
    <3>4. <<Right(n, tree, x), x>> \o f[Left(n, tree, x)] \in V
      BY <3>2, <3>3, ListFacts
    <3> QED BY <2>3, <3>4
  <2> QED BY <2>1, <2>2, <2>3
<1>4. 0 \in S
  <2>1. <<>> \in V
    BY Lists
  <2> DEFINE f == [x \in 0..R |-> <<>>]
  <2> HIDE DEF V
  <2>2. Up(0, f)
    BY <1>1, <2>1
  <2> QED BY <2>2
<1>5. ASSUME NEW k \in Nat, k \in S PROVE k + 1 \in S
  <2>1. SUFFICES ASSUME k + 1 <= R PROVE \E f : Up(k + 1, f)
    OBVIOUS
  <2>2. k <= R /\ k + 1 \in 0..R
    BY <1>1, <2>1
  <2> HIDE DEF At, Up, V
  <2>3. PICK g : Up(k, g)
    BY <1>5, <2>2
  <2> DEFINE f == [g EXCEPT ![k + 1] = At(g, k + 1)]
  <2>4. g \in [0..R -> V] /\ \A x \in 0..k : g[x] = At(g, x)
    BY <2>3 DEF Up
  <2>5. At(g, k + 1) \in V
    BY <1>3, <2>2, <2>4
  <2>6. f \in [0..R -> V] /\ f[k + 1] = At(g, k + 1) /\ \A x \in 0..R : x # k + 1 => f[x] = g[x]
    BY <2>2, <2>4, <2>5
  <2> HIDE DEF f
  <2>7. ASSUME NEW x \in 0..(k + 1) PROVE f[x] = At(f, x)
    <3>1. x \in 0..R
      BY <1>1, <2>1
    <3>2. At(f, x) = At(g, x)
      <4>1. CASE x = 0
        BY <4>1 DEF At
      <4>2. CASE x # 0 /\ x <= n
        BY <4>2 DEF At
      <4>3. CASE x # 0 /\ ~(x <= n)
        <5>1. x \in (n + 1)..R
          BY <3>1, <4>3
        <5>2. Left(n, tree, x) \in 0..R /\ Left(n, tree, x) # k + 1
          BY <1>2, <5>1
        <5>3. f[Left(n, tree, x)] = g[Left(n, tree, x)]
          BY <2>6, <5>2
        <5> QED BY <4>3, <5>3 DEF At
      <4> QED BY <4>1, <4>2, <4>3
    <3>3. CASE x = k + 1
      BY <2>6, <3>2, <3>3
    <3>4. CASE x # k + 1
      <4>1. x \in 0..k
        BY <3>4
      <4> QED BY <2>4, <2>6, <3>1, <3>2, <3>4, <4>1
    <3> QED BY <3>3, <3>4
  <2>8. Up(k + 1, f)
    BY <2>6, <2>7 DEF Up
  <2> QED BY <2>8
<1>6. Nat \subseteq S
  <2> HIDE DEF S
  <2> QED BY <1>4, <1>5, NatInduct
<1>7. PICK f : Up(R, f)
  <2> HIDE DEF Up
  <2>1. R \in S
    BY <1>1, <1>6
  <2> QED BY <1>1, <2>1
<1>8. f \in [0..R -> V] /\ \A x \in 0..R : f[x] = At(f, x)
  BY <1>7
<1>9. f = [x \in 0..R |-> At(f, x)]
  <2> HIDE DEF At, V
  <2> QED BY <1>8
<1> QED BY <1>8, <1>9 DEF R

LEMMA SpinesAre ==
  ASSUME NEW n \in Nat, NEW tree \in Seq(Children), IsTree(n, tree)
  PROVE  \E f : Spines(n, tree, f)
<1> DEFINE R == Root(n, tree)
           f == CHOOSE f : f = [x \in 0..(n + Len(tree)) |->
                  IF x = 0 THEN <<>> ELSE IF x <= n THEN <<x>>
                  ELSE <<Right(n, tree, x), x>> \o f[Left(n, tree, x)]]
<1>1. R = n + Len(tree) /\ R \in Nat
  <2>1. Len(tree) \in Nat
    OBVIOUS
  <2> QED BY <2>1 DEF Root
<1>2. f = [x \in 0..R |-> IF x = 0 THEN <<>> ELSE IF x <= n THEN <<x>>
                         ELSE <<Right(n, tree, x), x>> \o f[Left(n, tree, x)]]
  <2>1. \E g : g = [x \in 0..R |-> IF x = 0 THEN <<>> ELSE IF x <= n THEN <<x>>
                         ELSE <<Right(n, tree, x), x>> \o g[Left(n, tree, x)]]
    BY SpineExists
  <2> HIDE DEF R
  <2> QED BY <1>1, <2>1
<1>3. \A x \in 0..R : Spine(n, tree, x) = f[x]
  BY DEF Spine
<1> HIDE DEF f
<1>4. \A x \in 0..R : f[x] = IF x = 0 THEN <<>> ELSE IF x <= n THEN <<x>>
                             ELSE <<Right(n, tree, x), x>> \o f[Left(n, tree, x)]
  <2> HIDE DEF R
  <2> QED BY <1>2
<1>5. \A x \in (n + 1)..R : Left(n, tree, x) \in 1..(x - 1) /\ Right(n, tree, x) \in 1..(x - 1)
  BY ChildrenAre
<1>6. n <= R
  BY <1>1 DEF Root
<1> HIDE DEF R
<1> DEFINE S == {x \in Nat : x <= R => \A y \in 0..x : f[y] \in Seq(1..R)}
<1>7. 0 \in S
  <2>0. 0 \in 0..R /\ \A y \in 0..0 : y = 0
    BY <1>1
  <2>1. f[0] = <<>>
    BY <1>4, <2>0, Zenon
  <2>2. <<>> \in Seq(1..R)
    OBVIOUS
  <2>3. 0 <= R
    BY <1>1
  <2> QED BY <2>0, <2>1, <2>2, <2>3
<1>8. ASSUME NEW k \in Nat, k \in S PROVE k + 1 \in S
  <2>1. SUFFICES ASSUME k + 1 <= R PROVE f[k + 1] \in Seq(1..R)
    BY <1>1, <1>8
  <2>2. k + 1 \in 0..R /\ k + 1 \in 1..R /\ k + 1 # 0 /\ \A y \in 0..k : f[y] \in Seq(1..R)
    BY <1>1, <1>8, <2>1
  <2>3. CASE k + 1 <= n
    <3>1. f[k + 1] = <<k + 1>>
      BY <1>4, <2>2, <2>3
    <3> QED BY <2>2, <3>1, Lists
  <2>4. CASE ~(k + 1 <= n)
    <3>1. k + 1 \in (n + 1)..R
      BY <1>1, <2>1, <2>4
    <3>2. Left(n, tree, k + 1) \in 0..k /\ Right(n, tree, k + 1) \in 1..R
      <4>1. Left(n, tree, k + 1) \in 1..((k + 1) - 1) /\ Right(n, tree, k + 1) \in 1..((k + 1) - 1)
        BY <1>5, <3>1
      <4> QED BY <1>1, <2>1, <4>1
    <3>3. f[k + 1] = <<Right(n, tree, k + 1), k + 1>> \o f[Left(n, tree, k + 1)]
      BY <1>4, <2>2, <2>4
    <3>4. <<Right(n, tree, k + 1), k + 1>> \in Seq(1..R)
      BY <2>2, <3>2
    <3>5. f[Left(n, tree, k + 1)] \in Seq(1..R)
      BY <2>2, <3>2
    <3> QED BY <3>3, <3>4, <3>5, ListFacts
  <2> QED BY <2>3, <2>4
<1>9. Nat \subseteq S
  <2> HIDE DEF S
  <2> QED BY <1>7, <1>8, NatInduct
<1>10. f \in [0..R -> Seq(1..R)]
  <2>1. \A y \in 0..R : f[y] \in Seq(1..R)
    BY <1>1, <1>9
  <2> QED BY <1>2, <2>1
<1>11. f[0] = <<>> /\ (\A x \in 1..n : f[x] = <<x>>)
       /\ \A x \in (n + 1)..R : f[x] = <<Right(n, tree, x), x>> \o f[Left(n, tree, x)]
  <2>1. /\ 0 \in 0..R
        /\ \A x \in 1..n : x \in 0..R /\ x # 0 /\ x <= n
        /\ \A x \in (n + 1)..R : x \in 0..R /\ x # 0 /\ ~(x <= n)
    BY <1>1, <1>6
  <2> QED BY <1>4, <2>1
<1>12. Spines(n, tree, f)
  BY <1>3, <1>10, <1>11 DEF Spines, R
<1> QED BY <1>12

\* Where the walk is: at its start, or with the root at the bottom of its stack,
\* alone or on top of its right child.
Bottom(n, tree, w) ==
  LET R == Root(n, tree) IN
  /\ w.stk \in Seq(1..R) /\ w.root \in 0..R
  /\ \/ w.stk = <<>> /\ w.root = R
     \/ Len(w.stk) >= 1 /\ w.stk[1] = R
     \/ Len(w.stk) >= 2 /\ w.stk[1] = Right(n, tree, R) /\ w.stk[2] = R

\* What a pass takes from the stack.
LEMMA TopOf ==
  ASSUME NEW X, NEW s \in Seq(X), s # <<>>
  PROVE  /\ Front(s) \in Seq(X) /\ Len(Front(s)) = Len(s) - 1 /\ Last(s) = s[Len(s)]
         /\ Len(s) \in Nat /\ Len(s) >= 1 /\ Last(s) \in X
         /\ \A i \in 1..(Len(s) - 1) : Front(s)[i] = s[i]
<1>1. Len(s) \in Nat /\ Len(s) >= 1
  OBVIOUS
<1>2. Last(s) = s[Len(s)]
  BY DEF Last
<1> QED BY <1>1, <1>2, FrontIs

\* A pass goes on, or has visited the root and ends the loop.
GoesOn(n, tree, t) ==
  /\ Bottom(n, tree, t) \/ (WalkEnded(t) /\ t.visit = Root(n, tree))
  /\ t.visit = 0 \/ t.visit \in (n + 1)..Root(n, tree)
  /\ t = [stk |-> t.stk, root |-> t.root, visit |-> t.visit]

LEMMA WalkedIs ==
  ASSUME NEW n \in Nat, NEW tree \in Seq(Children), Len(tree) # 0, IsTree(n, tree),
         NEW w, Bottom(n, tree, w)
  PROVE  GoesOn(n, tree, Walked(n, tree, w))
<1> DEFINE R == Root(n, tree)
           r == Right(n, tree, R)
           down == w.stk \o Spine(n, tree, w.root)
           x == Last(down)
           rest == Front(down)
           t == Walked(n, tree, w)
           Based(s) == Len(s) >= 1 /\ s[1] = R
           Under(s) == Len(s) >= 2 /\ s[1] = r /\ s[2] = R
<1>1. R \in Nat /\ R > n /\ R \in (n + 1)..R /\ R \in 0..R
  <2>1. Len(tree) \in Nat
    OBVIOUS
  <2> QED BY <2>1 DEF Root
<1>2. /\ w.stk \in Seq(1..R) /\ w.root \in 0..R
      /\ (w.stk = <<>> /\ w.root = R) \/ Based(w.stk) \/ Under(w.stk)
  BY DEF Bottom
<1>3. PICK f : Spines(n, tree, f)
  BY SpinesAre
<1>4. /\ f \in [0..R -> Seq(1..R)] /\ Spine(n, tree, w.root) = f[w.root]
      /\ f[R] = <<r, R>> \o f[Left(n, tree, R)]
  BY <1>1, <1>2, <1>3 DEF Spines
<1>5. ASSUME NEW y \in (n + 1)..R
      PROVE  Left(n, tree, y) \in 1..(y - 1) /\ Right(n, tree, y) \in 1..(y - 1)
  BY <1>5, ChildrenAre
<1>6. f[Left(n, tree, R)] \in Seq(1..R) /\ r \in 1..R
  <2>1. Left(n, tree, R) \in 0..R /\ r \in 1..R
    BY <1>1, <1>5
  <2> QED BY <1>4, <2>1
<1>7. t = IF x > n /\ rest # <<>> /\ Last(rest) = Right(n, tree, x)
          THEN [stk |-> Append(Front(rest), x), root |-> Right(n, tree, x), visit |-> 0]
          ELSE [stk |-> rest, root |-> 0, visit |-> IF x > n THEN x ELSE 0]
  BY DEF Walked
<1>8. \A u, v \in Seq(1..R) : /\ u \o v \in Seq(1..R) /\ Len(u) \in Nat /\ Len(v) \in Nat
                              /\ Len(u \o v) = Len(u) + Len(v)
                              /\ \A i \in 1..Len(u) : (u \o v)[i] = u[i]
  OBVIOUS
<1>9. down \in Seq(1..R) /\ (Based(down) \/ Under(down))
  <2> DEFINE v == Spine(n, tree, w.root)
             u == w.stk
  <2>1. v \in Seq(1..R) /\ u \in Seq(1..R) /\ down = u \o v
    BY <1>2, <1>4
  <2>2. CASE Based(u)
    <3> HIDE DEF down, u, v
    <3>1. 1 \in 1..Len(u) /\ Len(down) >= 1
      BY <1>8, <2>1, <2>2
    <3> QED BY <1>8, <2>1, <2>2, <3>1
  <2>3. CASE Under(u)
    <3> HIDE DEF down, u, v
    <3>1. 1 \in 1..Len(u) /\ 2 \in 1..Len(u) /\ Len(down) >= 2
      BY <1>8, <2>1, <2>3
    <3> QED BY <1>8, <2>1, <2>3, <3>1
  <2>4. CASE u = <<>> /\ w.root = R
    <3>1. down = v
      BY <2>1, <2>4
    <3>2. v = <<r, R>> \o f[Left(n, tree, R)]
      BY <1>4, <2>4
    <3>3. <<r, R>> \in Seq(1..R) /\ Len(<<r, R>>) = 2 /\ <<r, R>>[1] = r /\ <<r, R>>[2] = R
      BY <1>1, <1>6
    <3> DEFINE a == <<r, R>>
    <3> HIDE DEF a, v, u, down, r
    <3>4. a \in Seq(1..R) /\ Len(a) = 2 /\ a[1] = r /\ a[2] = R /\ v = a \o f[Left(n, tree, R)]
      BY <3>2, <3>3 DEF a
    <3>5. 1 \in 1..Len(a) /\ 2 \in 1..Len(a) /\ Len(v) >= 2
      <4> DEFINE b == f[Left(n, tree, R)]
      <4>1. b \in Seq(1..R) /\ v = a \o b
        BY <1>6, <3>4
      <4> HIDE DEF b
      <4>2. Len(v) = Len(a) + Len(b) /\ Len(b) \in Nat
        BY <1>8, <3>4, <4>1
      <4> QED BY <3>4, <4>2
    <3>6. v[1] = r /\ v[2] = R
      BY <1>6, <1>8, <3>4, <3>5
    <3> QED BY <2>1, <3>1, <3>5, <3>6
  <2> QED BY <1>2, <2>2, <2>3, <2>4
<1> SUFFICES GoesOn(n, tree, t)
  OBVIOUS
<1> HIDE DEF down, t
<1>10. /\ rest \in Seq(1..R) /\ Len(rest) = Len(down) - 1 /\ x = down[Len(down)] /\ x \in 1..R
       /\ Len(down) \in Nat /\ Len(down) >= 1 /\ \A i \in 1..(Len(down) - 1) : rest[i] = down[i]
  <2>1. down # <<>>
    BY <1>9
  <2> QED BY <1>9, <2>1, TopOf
<1> HIDE DEF x, rest
<1> DEFINE k == Len(down)
<1>11. k \in Nat /\ k >= 1 /\ Len(rest) = k - 1 /\ x = down[k]
  BY <1>10
<1>12. CASE x > n /\ rest # <<>> /\ Last(rest) = Right(n, tree, x)
  <2> DEFINE s == Append(Front(rest), x)
             front == Front(rest)
             q == Right(n, tree, x)
  <2>1. t = [stk |-> s, root |-> q, visit |-> 0]
    BY <1>7, <1>12
  <2>2. q \in 0..R /\ q # R
    <3>1. x \in (n + 1)..R
      BY <1>1, <1>10, <1>12
    <3>2. q \in 1..(x - 1)
      BY <1>5, <3>1
    <3> QED BY <1>1, <1>10, <3>2
  <2>3. /\ front \in Seq(1..R) /\ Len(front) = k - 2 /\ k >= 2 /\ q = rest[k - 1]
        /\ \A i \in 1..(k - 2) : front[i] = rest[i]
    <3>1. /\ front \in Seq(1..R) /\ Len(front) = Len(rest) - 1 /\ Last(rest) = rest[Len(rest)]
          /\ Len(rest) >= 1 /\ \A i \in 1..(Len(rest) - 1) : front[i] = rest[i]
      BY <1>10, <1>12, TopOf
    <3> HIDE DEF front
    <3>2. (k - 1) - 1 = k - 2
      BY <1>11
    <3>3. k >= 2
      BY <1>11, <3>1
    <3> QED BY <1>11, <1>12, <3>1, <3>2, <3>3
  <2> HIDE DEF front, q
  <2>4. /\ s \in Seq(1..R) /\ Len(s) = k - 1 /\ s[k - 1] = x
        /\ \A i \in 1..(k - 2) : s[i] = front[i]
    <3>1. s = Append(front, x)
      BY DEF front
    <3> HIDE DEF s
    <3>2. /\ s \in Seq(1..R) /\ Len(s) = Len(front) + 1 /\ s[Len(front) + 1] = x
          /\ \A i \in 1..Len(front) : s[i] = front[i]
      BY <1>10, <2>3, <3>1, AppendIs
    <3>3. (k - 2) + 1 = k - 1
      BY <1>11
    <3> QED BY <2>3, <3>2, <3>3
  <2> HIDE DEF s
  <2>5. \A i \in 1..(k - 2) : s[i] = down[i]
    <3>1. \A i \in 1..(k - 2) : i \in 1..(k - 1)
      BY <1>11
    <3> QED BY <1>10, <2>3, <2>4, <3>1
  <2>6. q = down[k - 1]
    <3>1. k - 1 \in 1..(k - 1)
      BY <1>11, <2>3
    <3> QED BY <1>10, <2>3, <3>1
  <2> HIDE DEF k
  <2>7. Based(s) \/ Under(s)
    <3>1. CASE down[1] = R
      <4>1. k - 1 # 1
        BY <2>2, <2>6, <3>1
      <4>2. 1 \in 1..(k - 2) /\ k - 1 >= 1
        BY <1>11, <2>3, <4>1
      <4> QED BY <2>4, <2>5, <3>1, <4>2
    <3>2. CASE down[1] = r /\ down[2] = R
      <4>1. CASE k = 2
        <5>1. k - 1 = 1
          BY <4>1
        <5> QED BY <1>11, <2>4, <3>2, <4>1, <5>1
      <4>2. CASE k # 2
        <5>1. k - 1 # 2
          BY <2>2, <2>6, <3>2
        <5>2. 1 \in 1..(k - 2) /\ 2 \in 1..(k - 2) /\ k - 1 >= 2
          BY <1>11, <2>3, <4>2, <5>1
        <5> QED BY <2>4, <2>5, <3>2, <5>2
      <4> QED BY <4>1, <4>2
    <3> QED BY <1>9, <3>1, <3>2
  <2>8. Bottom(n, tree, t)
    <3>1. t.stk = s /\ t.root = q
      BY <2>1
    <3> QED BY <2>2, <2>4, <2>7, <3>1 DEF Bottom
  <2> QED BY <2>1, <2>8 DEF GoesOn
<1>13. CASE ~(x > n /\ rest # <<>> /\ Last(rest) = Right(n, tree, x))
  <2>1. t = [stk |-> rest, root |-> 0, visit |-> IF x > n THEN x ELSE 0]
    BY <1>7, <1>13
  <2>2. t.visit = 0 \/ t.visit \in (n + 1)..R
    BY <1>1, <1>10, <2>1
  <2>3. CASE k = 1 /\ down[1] = R
    <3>1. x = R /\ Len(rest) = 0
      BY <1>11, <2>3
    <3>2. rest = <<>>
      BY <1>10, <3>1
    <3>3. t.stk = <<>> /\ t.root = 0 /\ t.visit = R
      BY <1>1, <2>1, <3>1, <3>2
    <3> QED BY <2>1, <2>2, <3>3 DEF WalkEnded, GoesOn
  <2>4. CASE k # 1 /\ down[1] = R
    <3>1. 1 \in 1..(k - 1) /\ k - 1 >= 1
      BY <1>11, <2>4
    <3>2. Based(rest)
      BY <1>10, <1>11, <2>4, <3>1
    <3>3. Bottom(n, tree, t)
      BY <1>1, <1>10, <2>1, <3>2 DEF Bottom
    <3> QED BY <2>1, <2>2, <3>3 DEF GoesOn
  <2>5. CASE k >= 2 /\ down[1] = r /\ down[2] = R
    <3>1. CASE k = 2
      <4>1. x = R /\ Len(rest) = 1
        BY <1>11, <2>5, <3>1
      <4>2. rest # <<>> /\ Last(rest) = rest[1]
        <5>1. rest # <<>>
          <6>1. Len(<<>>) = 0
            OBVIOUS
          <6>2. Len(rest) = 1
            BY <4>1
          <6>3. Len(rest) # Len(<<>>)
            BY <6>1, <6>2
          <6> QED BY <6>3, Zenon
        <5> QED BY <1>10, <4>1, <5>1, TopOf
      <4>3. rest[1] = r
        <5>1. 1 \in 1..(Len(down) - 1)
          BY <3>1
        <5> QED BY <1>10, <2>5, <5>1
      <4> QED BY <1>1, <1>13, <4>1, <4>2, <4>3
    <3>2. CASE k # 2
      <4>1. 1 \in 1..(k - 1) /\ 2 \in 1..(k - 1) /\ k - 1 >= 2
        BY <1>11, <2>5, <3>2
      <4>2. Under(rest)
        BY <1>10, <1>11, <2>5, <4>1
      <4>3. Bottom(n, tree, t)
        BY <1>1, <1>10, <2>1, <4>2 DEF Bottom
      <4> QED BY <2>1, <2>2, <4>3 DEF GoesOn
    <3> QED BY <3>1, <3>2
  <2> QED BY <1>9, <2>3, <2>4, <2>5
<1> QED BY <1>12, <1>13

-----------------------------------------------------------------------------
(* Nothing is lost in the walk of an order that uses every tensor once.    *)

PartsOf(S, tensors) == {<<i, tensors[i]>> : i \in S}

\* The values of the nodes hold each of the n tensors once.
HeldOnce(n, R, L, val, tensors) ==
  /\ val = [x \in 1..R |-> val[x]]
  /\ \A x \in 1..R : val[x] # Void => Value(val[x]) /\ val[x].parts = PartsOf(L[x], tensors)
  /\ \A x, y \in 1..R : val[x] # Void /\ val[y] # Void /\ x # y => L[x] \cap L[y] = {}
  /\ \A i \in 1..n : \E x \in 1..R : val[x] # Void /\ i \in L[x]

LEMMA LeavesOf ==
  ASSUME NEW n \in Nat, NEW tree \in Seq(Children), NEW L, IsTree(n, tree), LeafSets(n, tree, L)
  PROVE  /\ \A x \in 1..Root(n, tree) : L[x] \subseteq 1..n /\ L[x] # {}
         /\ \A x \in (n + 1)..Root(n, tree) :
              /\ L[x] = L[Left(n, tree, x)] \cup L[Right(n, tree, x)]
              /\ Left(n, tree, x) \in 1..Root(n, tree) /\ Right(n, tree, x) \in 1..Root(n, tree)
              /\ Left(n, tree, x) # x /\ Right(n, tree, x) # x /\ x \in 1..Root(n, tree)
<1> DEFINE V == (SUBSET (1..n)) \ {{}}
<1>1. L \in [1..Root(n, tree) -> V]
  BY DEF LeafSets, Root, V
<1>2. \A x \in 1..Root(n, tree) : L[x] \subseteq 1..n /\ L[x] # {}
  <2>1. \A x \in 1..Root(n, tree) : L[x] \in V
    BY <1>1
  <2> QED BY <2>1
<1>3. ASSUME NEW x \in (n + 1)..Root(n, tree)
      PROVE  /\ L[x] = L[Left(n, tree, x)] \cup L[Right(n, tree, x)]
             /\ Left(n, tree, x) \in 1..Root(n, tree) /\ Right(n, tree, x) \in 1..Root(n, tree)
             /\ Left(n, tree, x) # x /\ Right(n, tree, x) # x /\ x \in 1..Root(n, tree)
  <2>1. /\ Left(n, tree, x) = tree[x - n][1] /\ Right(n, tree, x) = tree[x - n][2]
        /\ Left(n, tree, x) \in 1..(x - 1) /\ Right(n, tree, x) \in 1..(x - 1)
        /\ x - n \in 1..Len(tree) /\ n + (x - n) = x
    BY <1>3, ChildrenAre
  <2>2. L[n + (x - n)] = L[tree[x - n][1]] \cup L[tree[x - n][2]]
    BY <2>1 DEF LeafSets
  <2>3. L[x] = L[Left(n, tree, x)] \cup L[Right(n, tree, x)]
    BY <2>1, <2>2
  <2>4. Root(n, tree) \in Nat
    <3>1. Len(tree) \in Nat
      OBVIOUS
    <3> QED BY <3>1 DEF Root
  <2>5. x \in 1..Root(n, tree)
    BY <2>4
  <2> QED BY <2>1, <2>3, <2>4, <2>5
<1> QED BY <1>2, <1>3

\* What a contraction leaves in the nodes.
Merging(n, tree, val, x) ==
  [val EXCEPT ![Left(n, tree, x)] = Void, ![Right(n, tree, x)] = Void,
              ![x] = Contracted(val[Left(n, tree, x)], val[Right(n, tree, x)])]

\* Contracting a node: its value holds what its children held, which are cleared.
LEMMA NodeVisited ==
  ASSUME NEW n \in Nat, NEW tree \in Seq(Children), NEW L, NEW val, NEW tensors,
         NEW x \in (n + 1)..Root(n, tree),
         IsTree(n, tree), LeafSets(n, tree, L), HeldOnce(n, Root(n, tree), L, val, tensors),
         val[Left(n, tree, x)] # Void, val[Right(n, tree, x)] # Void
  PROVE  /\ HeldOnce(n, Root(n, tree), L, Merging(n, tree, val, x), tensors)
         /\ Merging(n, tree, val, x)[x] # Void
<1> DEFINE l == Left(n, tree, x)
           r == Right(n, tree, x)
           after == Merging(n, tree, val, x)
<1> DEFINE R == Root(n, tree)
           c == Contracted(val[l], val[r])
<1>0. val[l] # Void /\ val[r] # Void
  OBVIOUS
<1>1. /\ L[x] = L[l] \cup L[r] /\ l \in 1..R /\ r \in 1..R /\ l # x /\ r # x /\ x \in 1..R
      /\ \A y \in 1..R : L[y] \subseteq 1..n /\ L[y] # {}
  BY LeavesOf
<1> HIDE DEF R, l, r, after
<1>2. /\ val = [y \in 1..R |-> val[y]]
      /\ \A y \in 1..R : val[y] # Void => Value(val[y]) /\ val[y].parts = PartsOf(L[y], tensors)
      /\ \A y, z \in 1..R : val[y] # Void /\ val[z] # Void /\ y # z => L[y] \cap L[z] = {}
      /\ \A i \in 1..n : \E y \in 1..R : val[y] # Void /\ i \in L[y]
  BY DEF HeldOnce, R
<1>3. Value(c) /\ c.parts = val[l].parts \cup val[r].parts
  BY <1>0, <1>1, <1>2, ContractedIsValue
<1>4. c # Void
  BY <1>3, VoidAssumption DEF Value
<1>5. c.parts = PartsOf(L[x], tensors)
  <2>1. val[l].parts = PartsOf(L[l], tensors) /\ val[r].parts = PartsOf(L[r], tensors)
    BY <1>0, <1>1, <1>2
  <2>2. PartsOf(L[x], tensors) = PartsOf(L[l], tensors) \cup PartsOf(L[r], tensors)
    BY <1>1 DEF PartsOf
  <2> QED BY <1>3, <2>1, <2>2
<1> HIDE DEF c
<1>6. after = [y \in 1..R |-> IF y = x THEN c ELSE IF y \in {l, r} THEN Void ELSE val[y]]
  <2>1. after = [val EXCEPT ![l] = Void, ![r] = Void, ![x] = c]
    BY DEF c, l, r, after, Merging
  <2> QED BY <1>1, <1>2, <2>1
<1>7. /\ after = [y \in 1..R |-> after[y]] /\ after[x] = c
      /\ \A y \in 1..R : y # x /\ y \in {l, r} => after[y] = Void
      /\ \A y \in 1..R : y # x /\ y \notin {l, r} => after[y] = val[y]
  BY <1>1, <1>6
<1>8. ASSUME NEW y \in 1..R, after[y] # Void
      PROVE  Value(after[y]) /\ after[y].parts = PartsOf(L[y], tensors)
  BY <1>2, <1>3, <1>5, <1>7, <1>8
<1>9. ASSUME NEW y \in 1..R, y # x, after[y] # Void PROVE L[y] \cap L[x] = {}
  <2>1. y \notin {l, r} /\ val[y] # Void
    BY <1>7, <1>9
  <2>2. L[y] \cap L[l] = {} /\ L[y] \cap L[r] = {}
    BY <1>0, <1>1, <1>2, <2>1
  <2> QED BY <1>1, <2>2
<1>10. ASSUME NEW y \in 1..R, NEW z \in 1..R, after[y] # Void, after[z] # Void, y # z
       PROVE  L[y] \cap L[z] = {}
  <2>1. CASE y = x \/ z = x
    BY <1>9, <1>10, <2>1
  <2>2. CASE y # x /\ z # x
    <3>1. val[y] # Void /\ val[z] # Void
      BY <1>7, <1>10, <2>2
    <3> QED BY <1>2, <1>10, <3>1
  <2> QED BY <2>1, <2>2
<1>11. ASSUME NEW i \in 1..n PROVE \E y \in 1..R : after[y] # Void /\ i \in L[y]
  <2>1. PICK y \in 1..R : val[y] # Void /\ i \in L[y]
    BY <1>2
  <2>2. CASE y \in {l, r}
    BY <1>1, <1>4, <1>7, <2>1, <2>2
  <2>3. CASE y \notin {l, r}
    BY <1>4, <1>7, <2>1, <2>3
  <2> QED BY <2>2, <2>3
<1>12. HeldOnce(n, R, L, after, tensors)
  BY <1>7, <1>8, <1>10, <1>11 DEF HeldOnce
<1> QED BY <1>4, <1>7, <1>12 DEF R, after

\* When the walk begins every tensor is in its base node.
LEMMA HeldAtStart ==
  ASSUME NEW tree \in Seq(Children), NEW L, NEW val,
         Sound(net), ~NotReady(net), Len(net.tensors) = net.base,
         IsTree(net.base, tree), LeafSets(net.base, tree, L),
         val = [x \in 1..Root(net.base, tree) |-> IF x <= net.base THEN Relabelled(x) ELSE Void]
  PROVE  HeldOnce(net.base, Root(net.base, tree), L, val, net.tensors)
<1> DEFINE n == net.base
           R == Root(n, tree)
<1>1. n \in Nat /\ R \in Nat /\ n <= R
  <2>1. Len(tree) \in Nat /\ n \in Nat
    BY DEF Sound, Form
  <2> QED BY <2>1 DEF Root
<1>2. \A x \in 1..n : L[x] = {x} /\ x \in 1..R
  BY <1>1 DEF LeafSets
<1>3. ASSUME NEW x \in 1..n
      PROVE  Value(Relabelled(x)) /\ Relabelled(x).parts = PartsOf(L[x], net.tensors)
  <2>1. Value(Relabelled(x)) /\ Relabelled(x).parts = {<<x, net.tensors[x]>>}
    BY RelabelledIsValue
  <2> QED BY <1>2, <2>1 DEF PartsOf
<1>4. \A x \in 1..n : val[x] = Relabelled(x) /\ val[x] # Void
  <2>1. \A x \in 1..n : Relabelled(x) # Void
    BY <1>3, VoidAssumption DEF Value
  <2>2. \A x \in 1..n : x \in 1..R /\ x <= n
    BY <1>1
  <2> QED BY <2>1, <2>2
<1>5. \A x \in 1..R : val[x] # Void => x \in 1..n
  BY <1>1
<1>6. val = [x \in 1..R |-> val[x]]
  OBVIOUS
<1> HIDE DEF n, R
<1>7. \A x \in 1..R : val[x] # Void => Value(val[x]) /\ val[x].parts = PartsOf(L[x], net.tensors)
  BY <1>3, <1>4, <1>5
<1>8. \A x, y \in 1..R : val[x] # Void /\ val[y] # Void /\ x # y => L[x] \cap L[y] = {}
  <2>1. SUFFICES ASSUME NEW x \in 1..R, NEW y \in 1..R, val[x] # Void, val[y] # Void, x # y
                 PROVE  L[x] \cap L[y] = {}
    OBVIOUS
  <2>2. x \in 1..n /\ y \in 1..n
    BY <1>5, <2>1
  <2>3. L[x] = {x} /\ L[y] = {y}
    BY <1>2, <2>2
  <2> QED BY <2>1, <2>3
<1>9. \A i \in 1..n : \E x \in 1..R : val[x] # Void /\ i \in L[x]
  BY <1>2, <1>4
<1> QED BY <1>6, <1>7, <1>8, <1>9 DEF HeldOnce, n, R

\* The walk c of the network m.
Walking(c, m) ==
  /\ c = [pc |-> "walk", tree |-> c.tree, w |-> c.w, val |-> c.val]
  /\ m.base \in Nat /\ Len(m.tensors) = m.base /\ m.tensors \in Seq(UniTensors \cup {Void})
  /\ c.tree \in Seq(Children) /\ Len(c.tree) # 0 /\ IsTree(m.base, c.tree)
  /\ \E L : /\ LeafSets(m.base, c.tree, L) /\ L[Root(m.base, c.tree)] = 1..m.base
            /\ HeldOnce(m.base, Root(m.base, c.tree), L, c.val, m.tensors)
  /\ \/ Bottom(m.base, c.tree, c.w)
     \/ WalkEnded(c.w) /\ c.val[Root(m.base, c.tree)] # Void

\* The invariant.
WalkInv ==
  /\ standing.order = OrderKind(net)
  /\ call.pc = "walk" /\ standing.order = "whole" => Walking(call, net)

LEMMA WalkBegins ==
  ASSUME Sound(net), Listed(net), standing.order = OrderKind(net), standing.order = "whole",
         LaunchBegin, call'.pc = "walk"
  PROVE  Walking(call', net)
<1> DEFINE t == TreeInForce(net)
           n == net.base
           R == Root(n, t.tree)
           val == [x \in 1..R |-> IF x <= n THEN Relabelled(x) ELSE Void]
           w == WalkStart(n, t.tree)
<1>1. ~NotReady(net) /\ call' = [pc |-> "walk", tree |-> t.tree, w |-> w, val |-> val]
  <2> DEFINE outcome == IF NotReady(net) THEN "throws"
                        ELSE IF net.null THEN "undefined"
                        ELSE IF \E i \in DOMAIN net.labels : Repeated(net.labels[i]) THEN "throws"
                        ELSE IF t.err = "ok" /\ t.tree = <<>> THEN "undefined"
                        ELSE t.err
  <2>1. call' = CASE outcome = "throws"    -> NoCall
                  [] outcome = "undefined" -> [pc |-> "undefined", in |-> "Launch"]
                  [] OTHER -> [pc |-> "walk", tree |-> t.tree, w |-> w, val |-> val]
    BY DEF LaunchBegin
  <2>2. NotReady(net) => outcome = "throws"
    OBVIOUS
  <2> HIDE DEF outcome, t, w, val
  <2> QED BY <2>1, <2>2 DEF NoCall
<1>2. /\ t.err = "ok" /\ FullTree(n, t.tree)
      /\ n \in Nat /\ n >= 2 /\ Len(net.tensors) = n
  BY <1>1, TreeIsFull DEF Listed
<1> HIDE DEF t, n
<1>3. t.tree \in Seq(Children) /\ Len(t.tree) # 0 /\ IsTree(n, t.tree)
  BY <1>2 DEF FullTree
<1>4. PICK L : LeafSets(n, t.tree, L) /\ L[R] = 1..n
  BY <1>2 DEF FullTree
<1>5. HeldOnce(n, R, L, val, net.tensors)
  BY <1>1, <1>2, <1>3, <1>4, HeldAtStart DEF n
<1>6. Bottom(n, t.tree, w)
  <2>1. R \in 0..R
    <3>1. Len(t.tree) \in Nat
      BY <1>3
    <3> QED BY <1>2, <3>1 DEF Root
  <2>2. w.stk = <<>> /\ w.root = R /\ <<>> \in Seq(1..R)
    BY DEF WalkStart
  <2> HIDE DEF R, w
  <2> QED BY <2>1, <2>2 DEF Bottom, R
<1>7. net.tensors \in Seq(UniTensors \cup {Void})
  BY DEF Sound, Form
<1> HIDE DEF val, w
<1>8. /\ call'.tree = t.tree /\ call'.w = w /\ call'.val = val
      /\ call' = [pc |-> "walk", tree |-> call'.tree, w |-> call'.w, val |-> call'.val]
  BY <1>1
<1> QED BY <1>2, <1>3, <1>4, <1>5, <1>6, <1>7, <1>8 DEF Walking, n

LEMMA WalkGoesOn ==
  ASSUME Walking(call, net), WalkStep, call'.pc = "walk"
  PROVE  Walking(call', net)
<1> DEFINE n == net.base
           tree == call.tree
           R == Root(n, tree)
           w == Walked(n, tree, call.w)
           x == w.visit
           l == Left(n, tree, x)
           r == Right(n, tree, x)
           after == IF x = 0 THEN call.val
                    ELSE [call.val EXCEPT ![l] = Void, ![r] = Void,
                                          ![x] = Contracted(call.val[l], call.val[r])]
<1>1. /\ call = [pc |-> "walk", tree |-> tree, w |-> call.w, val |-> call.val]
      /\ n \in Nat /\ Len(net.tensors) = n /\ net.tensors \in Seq(UniTensors \cup {Void})
      /\ tree \in Seq(Children) /\ Len(tree) # 0 /\ IsTree(n, tree)
      /\ Bottom(n, tree, call.w) \/ WalkEnded(call.w)
  BY DEF Walking
<1>2. PICK L : LeafSets(n, tree, L) /\ L[R] = 1..n /\ HeldOnce(n, R, L, call.val, net.tensors)
  BY DEF Walking
<1>3. ~WalkEnded(call.w) /\ UNCHANGED net
  BY DEF WalkStep
<1>4. /\ ~(x # 0 /\ CannotContract(call.val[l], call.val[r]))
      /\ call' = [call EXCEPT !.w = w, !.val = after]
  <2> HIDE DEF after, w, x, l, r
  <2>1. IF x # 0 /\ CannotContract(call.val[l], call.val[r])
        THEN call' = NoCall
        ELSE call' = [call EXCEPT !.w = w, !.val = after]
    BY Zenon DEF WalkStep, after, w, x, l, r
  <2>2. NoCall.pc # "walk"
    BY DEF NoCall
  <2> QED BY <2>1, <2>2
<1>5. GoesOn(n, tree, w)
  BY <1>1, <1>3, WalkedIs
<1> HIDE DEF n, tree, w
<1>6. /\ Bottom(n, tree, w) \/ (WalkEnded(w) /\ x = R)
      /\ x = 0 \/ x \in (n + 1)..R
  BY <1>5 DEF GoesOn
<1>7. HeldOnce(n, R, L, after, net.tensors) /\ (x # 0 => after[x] # Void)
  <2>1. CASE x = 0
    BY <1>2, <2>1
  <2>2. CASE x # 0
    <3>1. x \in (n + 1)..R
      BY <1>6, <2>2
    <3>2. call.val[l] # Void /\ call.val[r] # Void
      BY <1>4, <2>2 DEF CannotContract
    <3>3. after = Merging(n, tree, call.val, x)
      BY <2>2 DEF Merging
    <3> HIDE DEF after, x
    <3>4. HeldOnce(n, Root(n, tree), L, Merging(n, tree, call.val, x), net.tensors)
          /\ Merging(n, tree, call.val, x)[x] # Void
      BY <1>1, <1>2, <3>1, <3>2, NodeVisited
    <3> QED BY <3>3, <3>4
  <2> QED BY <2>1, <2>2
<1>8. R # 0
  <2>1. Len(tree) \in Nat
    BY <1>1
  <2> QED BY <1>1, <2>1 DEF Root
<1> HIDE DEF after, x, l, r
<1>9. /\ call' = [pc |-> "walk", tree |-> tree, w |-> w, val |-> after]
  <2> DEFINE v == call.val
             u == call.w
  <2>1. call = [pc |-> "walk", tree |-> tree, w |-> u, val |-> v]
    BY <1>1
  <2> HIDE DEF u, v
  <2> QED BY <1>4, <2>1
<1>10. call'.tree = tree /\ call'.w = w /\ call'.val = after
  BY <1>9
<1>11. Bottom(n, tree, w) \/ (WalkEnded(w) /\ after[R] # Void)
  BY <1>6, <1>7, <1>8
<1> QED BY <1>1, <1>2, <1>7, <1>9, <1>10, <1>11 DEF Walking, n

\* Every call and every step keeps the walk.
LEMMA WalkInvKept ==
  ASSUME Sound(net), Listed(net), WalkInv, [Next]_vars
  PROVE  WalkInv'
<1>1. CASE LaunchBegin
  <2>1. net' = net /\ standing' = standing
    BY <1>1 DEF LaunchBegin
  <2> QED BY <1>1, <2>1, WalkBegins DEF WalkInv
<1>2. CASE WalkStep
  <2>1. net' = net /\ standing' = standing /\ call.pc = "walk"
    BY <1>2 DEF WalkStep
  <2> QED BY <1>2, <2>1, WalkGoesOn DEF WalkInv
<1>3. CASE SearchStep \/ UNCHANGED vars
  <2>1. net' = net /\ standing' = standing /\ call' = call
    BY <1>3 DEF SearchStep, vars
  <2> QED BY <2>1 DEF WalkInv
<1>4. CASE LaunchReturns
  <2>1. net' = net /\ standing' = standing /\ call' = NoCall
    BY <1>4 DEF LaunchReturns
  <2> QED BY <2>1 DEF WalkInv, NoCall
<1>5. CASE SetOrderOptimal \/ SearchReturns \/ \E outcome, after : Ends(outcome, after)
  <2>1. standing'.order = OrderKind(net')
    <3>1. \A n : Becomes(n) => standing'.order = OrderKind(net')
      BY DEF Becomes
    <3> QED BY <1>5, <3>1, Zenon DEF SetOrderOptimal, SearchReturns, Ends
  <2>2. call'.pc # "walk"
    <3>1. NoCall.pc = "idle"
      BY DEF NoCall
    <3>2. \A outcome, after : Ends(outcome, after) => call'.pc \in {"idle", "undefined"}
      <4>1. \A outcome, after : Ends(outcome, after) =>
               call' = NoCall \/ call' = [pc |-> "undefined", in |-> "a call"]
        BY Zenon DEF Ends
      <4> SUFFICES ASSUME NEW outcome, NEW after, Ends(outcome, after)
                   PROVE  call'.pc \in {"idle", "undefined"}
        OBVIOUS
      <4>2. call' = NoCall \/ call' = [pc |-> "undefined", in |-> "a call"]
        BY <4>1, Zenon
      <4>3. CASE call' = NoCall
        BY <3>1, <4>3
      <4>4. CASE call' = [pc |-> "undefined", in |-> "a call"]
        <5>1. call'.pc = "undefined"
          BY <4>4, Zenon
        <5> QED BY <5>1
      <4> QED BY <4>2, <4>3, <4>4, Zenon
    <3>3. SetOrderOptimal => call'.pc = "search" \/ call'.pc \in {"idle", "undefined"}
      BY <3>2 DEF SetOrderOptimal
    <3>4. SearchReturns => call' = NoCall
      BY DEF SearchReturns
    <3>5. call'.pc \in {"idle", "undefined", "search"}
      BY <1>5, <3>1, <3>2, <3>3, <3>4
    <3> QED BY <3>5
  <2> QED BY <2>1, <2>2 DEF WalkInv
<1> QED BY <1>1, <1>2, <1>3, <1>4, <1>5, Zenon
     DEF Next, Call, Step, FromString, Construct, Contract_plan, Clear,
         ReplaceByClone, RmUniTensor, PutUniTensor, SetOrder

\* The invariant says that nothing is lost.
LEMMA WalkKeeps ==
  ASSUME WalkInv
  PROVE  NothingLostInWalk
<1> DEFINE n == net.base
           tree == call.tree
           R == Root(n, tree)
           val == call.val
           held == {x \in DOMAIN val : val[x] # Void}
<1>1. SUFFICES ASSUME Walking(call, net)
               PROVE  /\ \A x, y \in held : x # y => val[x].parts \cap val[y].parts = {}
                      /\ UNION {val[x].parts : x \in held} =
                           {<<i, net.tensors[i]>> : i \in DOMAIN net.tensors}
                      /\ WalkEnded(call.w) => held = {R}
  BY DEF WalkInv, NothingLostInWalk
<1>2. /\ n \in Nat /\ Len(net.tensors) = n /\ net.tensors \in Seq(UniTensors \cup {Void})
      /\ tree \in Seq(Children) /\ Len(tree) # 0 /\ IsTree(n, tree)
      /\ Bottom(n, tree, call.w) \/ (WalkEnded(call.w) /\ val[R] # Void)
  BY <1>1 DEF Walking
<1>3. PICK L : LeafSets(n, tree, L) /\ L[R] = 1..n /\ HeldOnce(n, R, L, val, net.tensors)
  BY <1>1 DEF Walking
<1>4. /\ val = [x \in 1..R |-> val[x]]
      /\ \A x \in 1..R : val[x] # Void => val[x].parts = PartsOf(L[x], net.tensors)
      /\ \A x, y \in 1..R : val[x] # Void /\ val[y] # Void /\ x # y => L[x] \cap L[y] = {}
      /\ \A i \in 1..n : \E x \in 1..R : val[x] # Void /\ i \in L[x]
  BY <1>3 DEF HeldOnce
<1>5. \A x \in 1..R : L[x] \subseteq 1..n /\ L[x] # {}
  BY <1>2, <1>3, LeavesOf
<1>6. DOMAIN net.tensors = 1..n
  BY <1>2
<1> HIDE DEF n, tree, val
<1>7. \A x : x \in held <=> x \in 1..R /\ val[x] # Void
  BY <1>4
<1>8. R \in 1..R
  <2>1. Len(tree) \in Nat
    BY <1>2
  <2> QED BY <1>2, <2>1 DEF Root
<1> HIDE DEF held, R
<1>9. \A x, y \in held : x # y => val[x].parts \cap val[y].parts = {}
  BY <1>4, <1>7 DEF PartsOf
<1>10. UNION {val[x].parts : x \in held} = {<<i, net.tensors[i]>> : i \in DOMAIN net.tensors}
  <2>1. UNION {val[x].parts : x \in held} \subseteq PartsOf(1..n, net.tensors)
    <3>1. SUFFICES ASSUME NEW x \in held PROVE val[x].parts \subseteq PartsOf(1..n, net.tensors)
      OBVIOUS
    <3>2. val[x].parts = PartsOf(L[x], net.tensors) /\ L[x] \subseteq 1..n
      BY <1>4, <1>5, <1>7, <3>1
    <3> QED BY <3>2 DEF PartsOf
  <2>2. ASSUME NEW i \in 1..n PROVE <<i, net.tensors[i]>> \in UNION {val[x].parts : x \in held}
    <3>1. PICK x \in 1..R : val[x] # Void /\ i \in L[x]
      BY <1>4
    <3>2. x \in held /\ <<i, net.tensors[i]>> \in val[x].parts
      BY <1>4, <1>7, <3>1 DEF PartsOf
    <3> QED BY <3>2
  <2>3. PartsOf(1..n, net.tensors) = {<<i, net.tensors[i]>> : i \in 1..n}
    BY DEF PartsOf
  <2> QED BY <1>6, <2>1, <2>2, <2>3
<1>11. ASSUME WalkEnded(call.w) PROVE held = {R}
  <2>1. ~Bottom(n, tree, call.w)
    <3> SUFFICES ASSUME Bottom(n, tree, call.w) PROVE FALSE
      OBVIOUS
    <3>1. call.w.stk = <<>> /\ call.w.root = 0
      BY <1>11 DEF WalkEnded
    <3>2. Len(call.w.stk) = 0
      BY <3>1
    <3> QED BY <1>8, <3>1, <3>2 DEF Bottom, R
  <2>2. R \in held
    BY <1>2, <1>7, <1>8, <2>1
  <2>3. ASSUME NEW x \in held PROVE x = R
    <3>1. x \in 1..R /\ val[x] # Void /\ val[R] # Void
      BY <1>7, <2>2
    <3>2. L[x] \cap L[R] = L[x] /\ L[x] # {}
      BY <1>3, <1>5, <3>1
    <3> QED BY <1>4, <1>8, <3>1, <3>2
  <2> QED BY <2>2, <2>3
<1> QED BY <1>9, <1>10, <1>11

\* Launch, for any network and any order that uses every tensor once: the values
\* of the nodes partition the tensors throughout the walk, and what is left at
\* its end is the value of the root.
THEOREM LaunchLosesNothing == Spec => []NothingLostInWalk
<1> DEFINE Inv == /\ Sound(net) /\ Listed(net) /\ SearchLegsInv(STRING, Tokens)
                  /\ Settled(search) /\ WalkInv
<1>1. Init => Inv
  <2> SUFFICES ASSUME Init PROVE Inv
    OBVIOUS
  <2>1. SearchLegsInv(STRING, Tokens) /\ Settled(search)
    BY IdleIs DEF Init, SearchLegsInv, SearchInv, Running, Settled
  <2>2. Listed(net)
    BY DEF Init, Listed, Fresh
  <2>3. WalkInv
    BY DEF Init, WalkInv, NoCall
  <2> QED BY <2>1, <2>2, <2>3, FreshIsSound DEF Init
<1>2. Inv /\ [Next]_vars => Inv'
  <2> SUFFICES ASSUME Inv, [Next]_vars PROVE Inv'
    OBVIOUS
  <2>1. Sound(net)'
    BY NetworkKeeps
  <2>2. Listed(net)'
    BY TokensKept
  <2>3. SearchLegsInv(STRING, Tokens)'
    BY SearchInNetworkKeeps
  <2>4. Settled(search)'
    BY SettledKept DEF SearchLegsInv, SearchInv
  <2>5. WalkInv'
    BY WalkInvKept
  <2> QED BY <2>1, <2>2, <2>3, <2>4, <2>5
<1>3. Inv => NothingLostInWalk
  BY WalkKeeps
<1> QED BY <1>1, <1>2, <1>3, PTL DEF Spec
=============================================================================
