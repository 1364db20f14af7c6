-------------------------- MODULE PduNetworkProofs --------------------------
(***************************************************************************)
(* Proofs about PduNetwork, for every matrix of PDUs with its schedules,   *)
(* containers and Tx functions, and every cycle of the bus.                *)
(*                                                                         *)
(* A container is filled by a fold over the list of its I-PDUs: Filling is *)
(* what holds of its results, and IsReady what holds of all PDUs after it. *)
(***************************************************************************)
EXTENDS PduNetwork, FiniteSetTheorems, TLAPS

\* Folds over the list of the I-PDUs, and over the entries of a container.
Mapping == INSTANCE SequenceInduction WITH Op <- MapIpdu
Sums == INSTANCE SequenceInduction WITH Op <- Add

-----------------------------------------------------------------------------
(***************************************************************************)
(* The list of the I-PDUs of a container.                                  *)
(***************************************************************************)

\* l has each element of a set once, in the order of their keys.
InOrderOf(l, key, n, T) ==
  /\ l \in [1 .. n -> T]
  /\ \A t \in T : \E i \in 1 .. n : l[i] = t
  /\ \A i, j \in 1 .. n : i < j => key[l[i]] < key[l[j]]

\* A finite set can be sorted.
LEMMA SortedExists ==
  ASSUME NEW S, IsFiniteSet(S), NEW key \in [S -> Nat],
         \A x, y \in S : key[x] = key[y] => x = y
  PROVE  \E l : InOrderOf(l, key, Cardinality(S), S)
<1> DEFINE N == Cardinality(S)
           P == {n \in 0 .. N : \A T \in SUBSET S :
                   IsFiniteSet(T) /\ Cardinality(T) = n => \E l : InOrderOf(l, key, n, T)}
<1>0. N \in Nat
  BY FS_CardinalityType
<1>1. 0 \in P
  <2> SUFFICES ASSUME NEW T \in SUBSET S, IsFiniteSet(T), Cardinality(T) = 0
               PROVE  \E l : InOrderOf(l, key, 0, T)
    BY <1>0
  <2>1. T = {}
    BY FS_EmptySet
  <2>2. InOrderOf([i \in 1 .. 0 |-> 0], key, 0, T)
    BY <2>1 DEF InOrderOf
  <2> QED
    BY <2>2
<1>2. ASSUME NEW n \in 0 .. N - 1, n \in P
      PROVE  n + 1 \in P
  <2>0. n \in Nat /\ n + 1 \in 0 .. N
    BY <1>0
  <2> SUFFICES ASSUME NEW T \in SUBSET S, IsFiniteSet(T), Cardinality(T) = n + 1
               PROVE  \E l : InOrderOf(l, key, n + 1, T)
    BY <2>0
  <2>1. T # {}
    BY <2>0, FS_EmptySet
  <2>2. PICK x \in T : \A y \in T : key[x] <= key[y]
    <3> DEFINE K == {key[t] : t \in T}
    <3>1. K \in SUBSET Nat /\ K # {}
      BY <2>1
    <3>2. PICK k \in K : \A m \in K : k <= m
      <4> HIDE DEF K
      <4> QED
        BY <3>1, Mapping!LeastOf
    <3> QED
      BY <3>2
  <2> DEFINE U == T \ {x}
  <2>3. IsFiniteSet(U) /\ Cardinality(U) = n
    <3>1. IsFiniteSet(T \ {x}) /\ Cardinality(T \ {x}) = Cardinality(T) - 1
      BY FS_RemoveElement
    <3>2. (n + 1) - 1 = n
      BY <2>0
    <3> QED
      BY <3>1, <3>2
  <2>4. PICK l : InOrderOf(l, key, n, U)
    BY <1>2, <2>3
  <2> DEFINE g == [i \in 1 .. n + 1 |-> IF i = 1 THEN x ELSE l[i - 1]]
  <2>5. \A i \in 2 .. n + 1 : i - 1 \in 1 .. n /\ g[i] = l[i - 1] /\ l[i - 1] \in U
    BY <2>0, <2>4 DEF InOrderOf
  <2>6. g[1] = x
    BY <2>0
  <2>7. g \in [1 .. n + 1 -> T]
    <3>1. \A i \in 1 .. n + 1 : i = 1 \/ i \in 2 .. n + 1
      BY <2>0
    <3>2. \A i \in 1 .. n + 1 : g[i] \in T
      BY <2>5, <2>6, <3>1
    <3> QED
      BY <3>2
  <2>8. \A t \in T : \E i \in 1 .. n + 1 : g[i] = t
    <3> SUFFICES ASSUME NEW t \in T, t # x PROVE \E i \in 1 .. n + 1 : g[i] = t
      BY <2>0, <2>6
    <3>1. PICK i \in 1 .. n : l[i] = t
      BY <2>4 DEF InOrderOf
    <3>2. i + 1 \in 2 .. n + 1 /\ (i + 1) - 1 = i /\ i + 1 \in 1 .. n + 1
      BY <2>0
    <3>3. g[i + 1] = l[(i + 1) - 1]
      BY <2>5, <3>2
    <3> QED
      BY <3>1, <3>2, <3>3
  <2>9. ASSUME NEW i \in 1 .. n + 1, NEW j \in 1 .. n + 1, i < j
        PROVE  key[g[i]] < key[g[j]]
    <3>1. j \in 2 .. n + 1
      BY <2>0, <2>9
    <3>2. CASE i = 1
      <4>1. g[j] \in T /\ g[j] # x
        BY <2>5, <3>1
      <4>2. key[x] <= key[g[j]] /\ key[x] # key[g[j]] /\ key[x] \in Nat /\ key[g[j]] \in Nat
        BY <2>2, <4>1
      <4> QED
        BY <2>6, <3>2, <4>2
    <3>3. CASE i # 1
      <4>1. i \in 2 .. n + 1
        BY <2>0, <3>3
      <4> QED
        BY <2>4, <2>5, <2>9, <3>1, <4>1 DEF InOrderOf
    <3> QED
      BY <3>2, <3>3
  <2>10. InOrderOf(g, key, n + 1, T)
    <3> HIDE DEF g
    <3> QED
      BY <2>7, <2>8, <2>9 DEF InOrderOf
  <2> QED
    BY <2>10
<1>3. 0 .. N \subseteq P
  <2> HIDE DEF P, N
  <2> QED
    BY <1>0, <1>1, <1>2, Mapping!UpTo
<1> QED
  BY <1>0, <1>3

LEMMA PduListIs ==
  ASSUME NEW c \in Containers
  PROVE  \E n \in Nat :
           /\ PduList[c] \in [1 .. n -> IPdusOf(c)]
           /\ \A i, j \in 1 .. n : PduList[c][i] = PduList[c][j] => i = j
           /\ \A p \in IPdusOf(c) : \E i \in 1 .. n : PduList[c][i] = p
<1> DEFINE S == IPdusOf(c)
           n == Cardinality(S)
           key == [p \in S |-> Table[p].priority]
           list == PduList[c]
<1>1. IsFiniteSet(S) /\ n \in Nat
  <2>1. S \in SUBSET Pdu
    BY DEF IPdusOf, IPdus
  <2> QED
    BY <2>1, TableAssumption, FS_Subset, FS_CardinalityType
<1>2. key \in [S -> Nat] /\ \A x, y \in S : key[x] = key[y] => x = y
  BY TableAssumption DEF IPdusOf, IPdus, IsLpdu
<1>3. PICK l : InOrderOf(l, key, n, S)
  <2> HIDE DEF S, key
  <2> QED
    BY <1>1, <1>2, SortedExists
<1>4. l \in [1 .. n -> S] /\ DOMAIN l = 1 .. n
  BY <1>3 DEF InOrderOf
<1>5. \A i, j \in 1 .. n : i < j => Table[l[i]].priority < Table[l[j]].priority
  BY <1>3, <1>4 DEF InOrderOf
<1>6. list = CHOOSE m \in [1 .. n -> S] :
                \A i, j \in DOMAIN m : i < j => Table[m[i]].priority < Table[m[j]].priority
  BY DEF PduList
<1>7. list \in [1 .. n -> S] /\
        \A i, j \in DOMAIN list : i < j => Table[list[i]].priority < Table[list[j]].priority
  <2> HIDE DEF list, S, n
  <2> QED
    BY <1>4, <1>5, <1>6
<1>8. \A i \in 1 .. n : Table[list[i]].priority \in Nat
  BY <1>7, TableAssumption DEF IPdusOf, IPdus
<1>9. ASSUME NEW i \in 1 .. n, NEW j \in 1 .. n, list[i] = list[j] PROVE i = j
  <2> HIDE DEF list, S
  <2>1. DOMAIN list = 1 .. n
    BY <1>7
  <2>2. ~(i < j) /\ ~(j < i)
    BY <1>7, <1>8, <1>9, <2>1
  <2> QED
    BY <1>1, <2>2
<1>10. \A p \in S : \E i \in 1 .. n : list[i] = p
  <2>1. list \in Injection(1 .. n, S)
    BY <1>7, <1>9 DEF Injection, IsInjective
  <2>2. Cardinality(1 .. n) = n
    BY <1>1, FS_Interval
  <2>3. list \in Surjection(1 .. n, S)
    BY <1>1, <2>1, <2>2, FS_Injection
  <2> QED
    BY <2>3 DEF Surjection
<1> QED
  BY <1>1, <1>7, <1>9, <1>10

(***************************************************************************)
(* Types.                                                                  *)
(***************************************************************************)
Bits == {0, 1}
Ids == {Table[q].id : q \in Pdu}
Packed == [val : Value, ext : Bits]
Entry == [id : Ids, payload : Packed]

\* The checksums of a PDU; the one of a container is not used.
Sum(p) == IF IsContainer(p) THEN {<<<<>>, 0>>} ELSE {Forced} \union (Value \X Bits)

Object(p) == [payload : Payload(p), checksum : Sum(p), needs_tx : BOOLEAN]

Objects == {o \in [Pdu -> UNION {Object(p) : p \in Pdu}] : \A p \in Pdu : o[p] \in Object(p)}

LEMMA PayloadIs ==
  ASSUME NEW p \in Pdu
  PROVE  Payload(p) = IF IsContainer(p) THEN [val : Seq(Entry), ext : Bits] ELSE Packed
BY DEF Payload, Entry, Packed, Bits, Ids

LEMMA ObjectsAre ==
  ASSUME NEW o, DOMAIN o = Pdu, o = [p \in Pdu |-> o[p]], \A p \in Pdu : o[p] \in Object(p)
  PROVE  o \in Objects
<1>1. \A p \in Pdu : o[p] \in UNION {Object(q) : q \in Pdu}
  OBVIOUS
<1>2. o \in [Pdu -> UNION {Object(q) : q \in Pdu}]
  BY <1>1
<1> QED
  BY <1>2 DEF Objects

LEMMA TableIs ==
  ASSUME NEW p \in Pdu
  PROVE  /\ {Table[p].id, Table[p].interval, Table[p].container, Table[p].priority,
             Table[p].len} \subseteq Nat
         /\ Table[p].id # 0 /\ Table[p].len # 0 /\ Table[p].phase \in Int
         /\ Table[p].header \in {"None", "Static", "Short", "Full"}
         /\ IsContainer(p) => IsLpdu(p)
         /\ \A q \in Pdu : Table[p].id = Table[q].id => p = q
BY TableAssumption DEF IsContainer, IsLpdu

LEMMA TakesIs ==
  ASSUME NEW c \in Pdu, NEW p \in Pdu
  PROVE  Takes(c, p) \in Nat
<1>1. HeaderLength[Table[c].header] \in Nat
  BY TableIs DEF HeaderLength
<1> QED
  BY <1>1, TableIs DEF Takes

\* Objects, field by field.
Obj(a, b, c) == [payload |-> a, checksum |-> b, needs_tx |-> c]

LEMMA ObjectIs ==
  ASSUME NEW p, NEW o \in Object(p)
  PROVE  o = Obj(o.payload, o.checksum, o.needs_tx)
BY DEF Object, Obj

LEMMA ObjectOf ==
  ASSUME NEW p, NEW a \in Payload(p), NEW b \in Sum(p), NEW c \in BOOLEAN
  PROVE  Obj(a, b, c) \in Object(p)
BY DEF Object, Obj

LEMMA ExceptOne ==
  ASSUME NEW p, NEW o \in Object(p), NEW x
  PROVE  /\ [o EXCEPT !.needs_tx = x] = Obj(o.payload, o.checksum, x)
         /\ [o EXCEPT !.checksum = x] = Obj(o.payload, x, o.needs_tx)
         /\ [o EXCEPT !.payload = x] = Obj(x, o.checksum, o.needs_tx)
<1>1. [o EXCEPT !.needs_tx = x] = Obj(o.payload, o.checksum, x)
  BY DEF Object, Obj
<1>2. [o EXCEPT !.checksum = x] = Obj(o.payload, x, o.needs_tx)
  BY DEF Object, Obj
<1>3. [o EXCEPT !.payload = x] = Obj(x, o.checksum, o.needs_tx)
  BY DEF Object, Obj
<1> QED
  BY <1>1, <1>2, <1>3

LEMMA ExceptBoth ==
  ASSUME NEW p, NEW o \in Object(p), NEW x, NEW y
  PROVE  [o EXCEPT !.needs_tx = x, !.checksum = y] = Obj(o.payload, y, x)
<1>1. [o EXCEPT !.needs_tx = x] = Obj(o.payload, o.checksum, x)
  BY ExceptOne
<1>2. [Obj(o.payload, o.checksum, x) EXCEPT !.checksum = y] = Obj(o.payload, y, x)
  BY DEF Obj
<1>3. [o EXCEPT !.needs_tx = x, !.checksum = y] = [[o EXCEPT !.needs_tx = x] EXCEPT !.checksum = y]
  OBVIOUS
<1> QED
  BY <1>1, <1>2, <1>3

LEMMA ExceptCalled ==
  ASSUME NEW p, NEW o \in Object(p), NEW x, NEW y
  PROVE  [o EXCEPT !.payload.ext = x, !.needs_tx = y]
           = Obj([o.payload EXCEPT !.ext = x], o.checksum, y)
<1> DEFINE a == [o.payload EXCEPT !.ext = x]
<1>1. [o EXCEPT !.payload.ext = x] = [o EXCEPT !.payload = a]
  OBVIOUS
<1>2. [o EXCEPT !.payload = a] = Obj(a, o.checksum, o.needs_tx)
  BY ExceptOne
<1>3. [Obj(a, o.checksum, o.needs_tx) EXCEPT !.needs_tx = y] = Obj(a, o.checksum, y)
  BY DEF Obj
<1>4. [o EXCEPT !.payload.ext = x, !.needs_tx = y] = [[o EXCEPT !.payload.ext = x] EXCEPT !.needs_tx = y]
  OBVIOUS
<1> QED
  BY <1>1, <1>2, <1>3, <1>4

LEMMA CallIs ==
  ASSUME NEW p \in Pdu, NEW o \in Object(p), NEW r \in [accepted : BOOLEAN, ext : Bits],
         NEW q
  PROVE  /\ CallTxFunc(o, q, r) \in Object(p)
         /\ CallTxFunc(o, q, r).payload.val = o.payload.val
         /\ CallTxFunc(o, q, r).checksum = o.checksum
         /\ ~o.needs_tx => CallTxFunc(o, q, r) = o
<1> DEFINE v == [o EXCEPT !.payload.ext = r.ext, !.needs_tx = r.accepted]
<1>1. o.payload \in Payload(p) /\ o.checksum \in Sum(p) /\ o.needs_tx \in BOOLEAN
  BY DEF Object
<1>2. v = Obj([o.payload EXCEPT !.ext = r.ext], o.checksum, r.accepted)
  BY ExceptCalled
<1>3. /\ [o.payload EXCEPT !.ext = r.ext] \in Payload(p)
      /\ [o.payload EXCEPT !.ext = r.ext].val = o.payload.val
  <2>1. CASE IsContainer(p)
    <3>1. o.payload \in [val : Seq(Entry), ext : Bits]
      BY <1>1, <2>1, PayloadIs
    <3>2. [o.payload EXCEPT !.ext = r.ext] \in [val : Seq(Entry), ext : Bits]
      BY <3>1
    <3> QED
      BY <2>1, <3>1, <3>2, PayloadIs
  <2>2. CASE ~IsContainer(p)
    <3>1. o.payload \in Packed
      BY <1>1, <2>2, PayloadIs
    <3>2. [o.payload EXCEPT !.ext = r.ext] \in Packed
      BY <3>1 DEF Packed
    <3> QED
      BY <2>2, <3>1, <3>2, PayloadIs DEF Packed
  <2> QED
    BY <2>1, <2>2
<1>4. v \in Object(p) /\ v.payload.val = o.payload.val /\ v.checksum = o.checksum
  <2> DEFINE d == [o.payload EXCEPT !.ext = r.ext]
  <2>1. v = Obj(d, o.checksum, r.accepted) /\ d \in Payload(p) /\ d.val = o.payload.val
    BY <1>2, <1>3
  <2> HIDE DEF d, v
  <2>2. v \in Object(p)
    BY <1>1, <2>1, ObjectOf
  <2> QED
    BY <2>1, <2>2 DEF Obj
<1>5. CallTxFunc(o, q, r) \in {o, v} /\ (~o.needs_tx => CallTxFunc(o, q, r) = o)
  BY DEF CallTxFunc
<1> QED
  BY <1>4, <1>5

LEMMA ScheduleIs ==
  ASSUME NEW p \in Pdu, NEW o \in Object(p), NEW t, NEW e
  PROVE  /\ Schedule(o, p, t, e) \in Object(p)
         /\ Schedule(o, p, t, e).payload = o.payload
         /\ ~IsContainer(p) => Schedule(o, p, t, e).checksum \in {o.checksum, Forced}
         /\ ~IsContainer(p) /\ ~IsDue(p, t, e) => Schedule(o, p, t, e) = o
<1>1. o.payload \in Payload(p) /\ o.checksum \in Sum(p) /\ o.needs_tx \in BOOLEAN
  BY DEF Object
<1>2. CASE IsContainer(p)
  <2>1. Schedule(o, p, t, e) = [o EXCEPT !.needs_tx = @ \/ IsDue(p, t, e)]
    BY <1>2 DEF Schedule
  <2>2. Schedule(o, p, t, e) = [payload |-> o.payload, checksum |-> o.checksum,
                                needs_tx |-> o.needs_tx \/ IsDue(p, t, e)]
    BY <2>1 DEF Object
  <2>3. (o.needs_tx \/ IsDue(p, t, e)) \in BOOLEAN
    OBVIOUS
  <2> QED
    BY <1>1, <1>2, <2>2, <2>3 DEF Object
<1>3. CASE ~IsContainer(p)
  <2>1. Schedule(o, p, t, e) \in {o, [o EXCEPT !.checksum = Forced]}
    BY <1>3 DEF Schedule
  <2>2. [o EXCEPT !.checksum = Forced] \in Object(p)
    BY <1>1, <1>3 DEF Object, Sum
  <2>3. ~IsDue(p, t, e) => Schedule(o, p, t, e) = o
    BY <1>3 DEF Schedule, IsDue
  <2> QED
    BY <1>3, <2>1, <2>2, <2>3 DEF Object
<1> QED
  BY <1>2, <1>3

LEMMA EncodeIs ==
  ASSUME NEW p \in Pdu, ~IsContainer(p), NEW o \in Object(p), NEW s, s[p] \in Value,
         NEW t, NEW e
  PROVE  /\ Encode(o, p, s, t, e) \in Object(p)
         /\ Encode(o, p, s, t, e).checksum = o.checksum
         /\ Encode(o, p, s, t, e).payload.ext \in {0, o.payload.ext}
         /\ ~IsDue(p, t, e) => Encode(o, p, s, t, e) = o
<1> DEFINE x == IF Table[p].covered THEN 0 ELSE o.payload.ext
           d == [val |-> s[p], ext |-> x]
           v == [o EXCEPT !.payload = d]
<1>1. o.payload \in Packed /\ o.checksum \in Sum(p) /\ o.needs_tx \in BOOLEAN
  BY PayloadIs DEF Object
<1>2. v = Obj(d, o.checksum, o.needs_tx)
  BY ExceptOne
<1>3. x \in Bits
  BY <1>1 DEF Packed, Bits
<1>4. v \in Object(p) /\ v.checksum = o.checksum /\ v.payload.ext = x
  <2>1. d \in Payload(p)
    BY <1>1, <1>3, PayloadIs DEF Packed
  <2>2. d.ext = x
    OBVIOUS
  <2> HIDE DEF v, d, x
  <2>3. v \in Object(p)
    BY <1>1, <1>2, <2>1, ObjectOf
  <2> QED
    BY <1>2, <2>2, <2>3 DEF Obj
<1>5. Encode(o, p, s, t, e) = IF ~IsDue(p, t, e) THEN o ELSE v
  BY DEF Encode
<1> HIDE DEF v
<1> QED
  BY <1>4, <1>5

LEMMA SumOf ==
  ASSUME NEW p \in Pdu, ~IsContainer(p), NEW o \in Object(p)
  PROVE  /\ Checksum(o.payload) = <<o.payload.val, o.payload.ext>>
         /\ Checksum(o.payload) \in Value \X Bits
         /\ Checksum(o.payload) \in Sum(p)
         /\ Checksum(o.payload) # Forced
<1>1. o.payload \in Packed
  BY PayloadIs DEF Object
<1> QED
  BY <1>1 DEF Checksum, Packed, Sum, Forced

LEMMA NeedsTxIs ==
  ASSUME NEW p \in Pdu, ~IsContainer(p), NEW o \in Object(p),
         NEW run \in [Pdu -> [accepted : BOOLEAN, ext : Bits]]
  PROVE  LET n == NeedsTx(o, p, run) IN
         /\ n \in Object(p)
         /\ n.payload.val = o.payload.val
         /\ n.checksum \in {o.checksum, Checksum(o.payload)}
         /\ Checksum(o.payload) = o.checksum => ~n.needs_tx /\ n.payload = o.payload
<1> DEFINE sum == Checksum(o.payload)
           u == [o EXCEPT !.needs_tx = FALSE]
           v == [o EXCEPT !.needs_tx = TRUE]
           w == [o EXCEPT !.needs_tx = TRUE, !.checksum = sum]
<1>1. o.payload \in Payload(p) /\ o.checksum \in Sum(p) /\ sum \in Sum(p)
  BY SumOf DEF Object
<1>2a. /\ u = Obj(o.payload, o.checksum, FALSE)
       /\ v = Obj(o.payload, o.checksum, TRUE)
       /\ w = Obj(o.payload, sum, TRUE)
  <2> HIDE DEF sum
  <2>1. u = Obj(o.payload, o.checksum, FALSE)
    BY ExceptOne
  <2>2. v = Obj(o.payload, o.checksum, TRUE)
    BY ExceptOne
  <2>3. w = Obj(o.payload, sum, TRUE)
    BY ExceptBoth
  <2> QED
    BY <2>1, <2>2, <2>3
<1>2. /\ u.payload = o.payload /\ u.checksum = o.checksum /\ ~u.needs_tx
      /\ v.payload = o.payload /\ v.checksum = o.checksum
      /\ w.payload = o.payload /\ w.checksum = sum
  <2> HIDE DEF u, v, w, sum
  <2> QED
    BY <1>2a DEF Obj
<1>3. u \in Object(p) /\ v \in Object(p) /\ w \in Object(p)
  <2> HIDE DEF u, v, w, sum
  <2> QED
    BY <1>1, <1>2a, ObjectOf
<1>4. run[p] \in [accepted : BOOLEAN, ext : Bits]
  OBVIOUS
<1>5. /\ CallTxFunc(w, p, run[p]) \in Object(p)
      /\ CallTxFunc(w, p, run[p]).payload.val = o.payload.val
      /\ CallTxFunc(w, p, run[p]).checksum = sum
  <2> HIDE DEF w
  <2> QED
    BY <1>2, <1>3, <1>4, CallIs
<1>6. NeedsTx(o, p, run) = IF sum = o.checksum THEN u
                           ELSE IF IsLpdu(p) THEN CallTxFunc(w, p, run[p]) ELSE v
  BY DEF NeedsTx
<1> HIDE DEF u, v, w, sum
<1>7. CASE sum = o.checksum
  <2>1. NeedsTx(o, p, run) = u
    BY <1>6, <1>7
  <2> QED
    BY <1>2, <1>3, <1>7, <2>1 DEF sum
<1>8. CASE sum # o.checksum /\ IsLpdu(p)
  <2>1. NeedsTx(o, p, run) = CallTxFunc(w, p, run[p])
    BY <1>6, <1>8
  <2> QED
    BY <1>5, <1>8, <2>1 DEF sum
<1>9. CASE sum # o.checksum /\ ~IsLpdu(p)
  <2>1. NeedsTx(o, p, run) = v
    BY <1>6, <1>9
  <2> QED
    BY <1>2, <1>3, <1>9, <2>1 DEF sum
<1> QED
  BY <1>7, <1>8, <1>9

(***************************************************************************)
(* Containers.                                                             *)
(***************************************************************************)
LEMMA SizesIsFold ==
  ASSUME NEW s
  PROVE  Sums!Fold(0, s) = FoldLeft(Add, 0, s)
BY DEF Sums!Fold, Sums!FoldLeft, FoldLeft, Sums!MapThenFoldSet, MapThenFoldSet, Sums!Max, Max

LEMMA SizeOfNone ==
  ASSUME NEW c
  PROVE  Size(c, <<>>) = 0
<1> DEFINE sizes == [i \in DOMAIN <<>> |-> Takes(c, CHOOSE p \in Pdu : Table[p].id = <<>>[i].id)]
<1>1. sizes = <<>>
  OBVIOUS
<1>2. Size(c, <<>>) = Sums!Fold(0, sizes)
  BY SizesIsFold DEF Size
<1> QED
  BY <1>1, <1>2, Sums!FoldOfNone

\* An entry takes what its I-PDU takes.
LEMMA SizeOfMore ==
  ASSUME NEW c \in Pdu, NEW E \in Seq(Entry), NEW p \in Pdu, NEW e \in Entry,
         e.id = Table[p].id
  PROVE  Size(c, Append(E, e)) = Size(c, E) + Takes(c, p)
<1> DEFINE of(x) == Takes(c, CHOOSE q \in Pdu : Table[q].id = x.id)
           F == Append(E, e)
           s == [i \in DOMAIN E |-> of(E[i])]
           t == [i \in DOMAIN F |-> of(F[i])]
<1>0. \A x \in Entry : of(x) \in Nat
  <2> SUFFICES ASSUME NEW x \in Entry PROVE of(x) \in Nat
    OBVIOUS
  <2>1. \E q \in Pdu : Table[q].id = x.id
    BY DEF Entry, Ids
  <2>2. (CHOOSE q \in Pdu : Table[q].id = x.id) \in Pdu
    BY <2>1
  <2> QED
    BY <2>2, TakesIs
<1>1. of(e) = Takes(c, p)
  <2>1. (CHOOSE q \in Pdu : Table[q].id = e.id) = p
    BY TableIs
  <2> QED
    BY <2>1
<1> HIDE DEF of
<1>2. s \in Seq(Nat) /\ <<of(e)>> \in Seq(Nat)
  BY <1>0
<1>3. t = s \o <<of(e)>>
  <2>1. F \in Seq(Entry) /\ Len(F) = Len(E) + 1
    OBVIOUS
  <2>2. \A i \in 1 .. Len(E) : F[i] = E[i]
    OBVIOUS
  <2>3. F[Len(E) + 1] = e
    OBVIOUS
  <2> HIDE DEF F
  <2>4. Len(s) = Len(E) /\ Len(t) = Len(E) + 1 /\ t \in Seq(Nat)
    BY <1>0, <2>1
  <2>5. \A i \in 1 .. Len(E) : t[i] = s[i]
    BY <2>1, <2>2
  <2>6. t[Len(E) + 1] = of(e)
    BY <2>1, <2>3
  <2> HIDE DEF s, t
  <2> QED
    BY <1>2, <2>4, <2>5, <2>6
<1>4. Size(c, E) = Sums!Fold(0, s) /\ Size(c, F) = Sums!Fold(0, t)
  BY SizesIsFold DEF Size, of
<1> DEFINE l == <<of(e)>>
<1> HIDE DEF s, t, F
<1>5. Sums!Fold(0, s \o l) = Sums!Fold(Sums!Fold(0, s), l)
  <2>1. s \in Seq(Nat) /\ l \in Seq(Nat)
    BY <1>2
  <2> HIDE DEF l
  <2> QED
    BY <2>1, Sums!FoldOfConcat
<1>6. Sums!Fold(Sums!Fold(0, s), <<of(e)>>) = Sums!Fold(0, s) + of(e)
  BY Sums!FoldOfOne DEF Add
<1> QED
  BY <1>1, <1>3, <1>4, <1>5, <1>6 DEF F

\* No Tx function rejects a PDU.
NoneRejected == \A p \in Pdu : \A r \in Table[p].runs : r.accepted

\* m: some I-PDUs of a container were mapped, o are the PDUs before.
Filling(m, o, c, run, seen) ==
  /\ m = [obj |-> m.obj, c |-> c, run |-> run, used |-> m.used, entries |-> m.entries]
  /\ m.obj \in Objects /\ m.entries \in Seq(Entry)
  /\ m.used = Size(c, m.entries) /\ m.used \in 0 .. Table[c].len
  /\ \A p \in Pdu : m.obj[p].payload.val = o[p].payload.val
  /\ \A p \in Pdu \ seen : m.obj[p] = o[p]
  /\ \A p \in Pdu : \A k \in DOMAIN m.entries : m.entries[k].id = Table[p].id =>
       /\ p \in seen
       /\ m.entries[k].payload.val = o[p].payload.val
       /\ m.obj[p].checksum = Checksum(o[p].payload)
  /\ NoneRejected => \A p \in Pdu :
       \/ m.obj[p].checksum \in {o[p].checksum, Forced}
       \/ \E k \in DOMAIN m.entries : m.entries[k].id = Table[p].id

LEMMA ObjectsExcept ==
  ASSUME NEW o \in Objects, NEW p \in Pdu, NEW x \in Object(p)
  PROVE  /\ [o EXCEPT ![p] = x] \in Objects
         /\ [o EXCEPT ![p] = x][p] = x
         /\ \A q \in Pdu : q # p => [o EXCEPT ![p] = x][q] = o[q]
<1> DEFINE n == [o EXCEPT ![p] = x]
<1>1. DOMAIN o = Pdu /\ \A q \in Pdu : o[q] \in Object(q)
  BY DEF Objects
<1>2. n = [q \in Pdu |-> n[q]] /\ \A q \in Pdu : n[q] = IF q = p THEN x ELSE o[q]
  BY <1>1 DEF Objects
<1> HIDE DEF n
<1>3. DOMAIN n = Pdu /\ \A q \in Pdu : n[q] \in Object(q)
  BY <1>1, <1>2
<1>4. n \in Objects
  BY <1>2, <1>3, ObjectsAre
<1> QED
  BY <1>2, <1>4 DEF n

LEMMA CalledIs ==
  ASSUME NEW p \in Pdu, ~IsContainer(p), NEW o \in Object(p), NEW run \in Runs
  PROVE  /\ Called(o, p, run) \in Object(p)
         /\ Called(o, p, run).payload.val = o.payload.val
         /\ Called(o, p, run).checksum = Checksum(o.payload)
         /\ NoneRejected /\ o.needs_tx => Called(o, p, run).needs_tx
<1> DEFINE sum == Checksum(o.payload)
           v == [o EXCEPT !.checksum = sum]
<1>1. run[p] \in [accepted : BOOLEAN, ext : Bits]
  BY DEF Runs, Bits
<1>2. v = Obj(o.payload, sum, o.needs_tx)
  <2> HIDE DEF sum
  <2> QED
    BY ExceptOne
<1>3. v \in Object(p) /\ v.payload = o.payload /\ v.checksum = sum /\ v.needs_tx = o.needs_tx
  <2>1. o.payload \in Payload(p) /\ o.needs_tx \in BOOLEAN /\ sum \in Sum(p)
    BY SumOf DEF Object
  <2> HIDE DEF v, sum
  <2> QED
    BY <1>2, <2>1, ObjectOf DEF Obj
<1>4. Called(o, p, run) = CallTxFunc(v, p, run[p])
  BY DEF Called
<1>5. ASSUME NoneRejected, o.needs_tx PROVE Called(o, p, run).needs_tx
  <2>1. CASE Table[p].runs = {}
    <3>1. CallTxFunc(v, p, run[p]) = v
      BY <2>1 DEF CallTxFunc
    <3> QED
      BY <1>3, <1>4, <1>5, <3>1
  <2>2. CASE Table[p].runs # {}
    <3>1. run[p] \in Table[p].runs
      BY <2>2 DEF Runs
    <3>2. run[p].accepted
      BY <1>5, <3>1 DEF NoneRejected
    <3>3. CallTxFunc(v, p, run[p]) = [v EXCEPT !.payload.ext = run[p].ext, !.needs_tx = run[p].accepted]
      BY <1>3, <1>5, <2>2 DEF CallTxFunc
    <3> HIDE DEF v
    <3>4. CallTxFunc(v, p, run[p]).needs_tx = run[p].accepted
      BY <1>3, <3>3, ExceptCalled DEF Obj
    <3> QED
      BY <1>4, <3>2, <3>4
  <2> QED
    BY <2>1, <2>2
<1> HIDE DEF v, sum
<1> QED
  BY <1>1, <1>3, <1>4, <1>5, CallIs DEF sum

\* What a PDU is after its container was filled, and the entries that it added.
LEMMA MapIpduIs ==
  ASSUME NEW c \in Containers, NEW o, NEW run \in Runs, NEW seen,
         NEW m, Filling(m, o, c, run, seen), NEW p \in IPdusOf(c), p \notin seen
  PROVE  Filling(MapIpdu(m, p), o, c, run, seen \union {p})
<1> DEFINE old == m.obj[p]
           called == Called(old, p, run)
           n == MapIpdu(m, p)
           sent == [called EXCEPT !.needs_tx = FALSE]
           entry == [id |-> Table[p].id, payload |-> called.payload]
<1>1. /\ p \in Pdu /\ c \in Pdu /\ ~IsContainer(p) /\ p # c
  BY TableIs DEF IPdusOf, IPdus, Containers
<1>2. /\ m = [obj |-> m.obj, c |-> c, run |-> run, used |-> m.used, entries |-> m.entries]
      /\ m.obj \in Objects /\ m.entries \in Seq(Entry) /\ m.c = c /\ m.run = run
      /\ m.used = Size(c, m.entries) /\ m.used \in 0 .. Table[c].len
      /\ old = o[p] /\ old \in Object(p)
  BY <1>1 DEF Filling, Objects
<1>3. /\ called \in Object(p) /\ called.payload.val = old.payload.val
      /\ called.checksum = Checksum(old.payload)
      /\ NoneRejected /\ old.needs_tx => called.needs_tx
  BY <1>1, <1>2, CalledIs
<1>4. \A k \in DOMAIN m.entries : m.entries[k].id # Table[p].id
  BY <1>1 DEF Filling
<1>5. CASE ~old.needs_tx
  <2>1. n = m
    BY <1>5 DEF MapIpdu
  <2> QED
    BY <2>1 DEF Filling
<1>6. ASSUME NEW x \in Object(p), n = [m EXCEPT !.obj[p] = x],
             x.payload.val = old.payload.val, NoneRejected => x.checksum \in {old.checksum, Forced}
      PROVE  Filling(n, o, c, run, seen \union {p})
  <2>1. n = [obj |-> [m.obj EXCEPT ![p] = x], c |-> c, run |-> run, used |-> m.used,
             entries |-> m.entries]
    BY <1>2, <1>6
  <2>2. /\ n.obj \in Objects /\ n.obj[p] = x /\ \A q \in Pdu : q # p => n.obj[q] = m.obj[q]
        /\ n.entries = m.entries /\ n.used = m.used
    BY <1>1, <1>2, <1>6, <2>1, ObjectsExcept
  <2>3. n = [obj |-> n.obj, c |-> c, run |-> run, used |-> n.used, entries |-> n.entries]
    BY <2>1
  <2> HIDE DEF n, old
  <2> QED
    BY <1>1, <1>2, <1>4, <1>6, <2>2, <2>3 DEF Filling
<1>7. CASE old.needs_tx /\ ~HasRoom(c, p, m.used)
  <2>1. n = [m EXCEPT !.obj[p] = Delay(old)]
    BY <1>2, <1>7 DEF MapIpdu
  <2>2. Delay(old) = Obj(old.payload, Forced, FALSE)
    BY <1>2, ExceptBoth DEF Delay
  <2>3. Forced \in Sum(p)
    BY <1>1 DEF Sum
  <2>4. Delay(old) \in Object(p) /\ Delay(old).payload = old.payload /\ Delay(old).checksum = Forced
    <3>1. old.payload \in Payload(p)
      BY <1>2 DEF Object
    <3> HIDE DEF old
    <3>2. Obj(old.payload, Forced, FALSE) \in Object(p)
      BY <2>3, <3>1, ObjectOf
    <3> QED
      BY <2>2, <3>2 DEF Obj
  <2> QED
    BY <1>6, <2>1, <2>4
<1>8. CASE old.needs_tx /\ HasRoom(c, p, m.used) /\ ~called.needs_tx
  <2>1. n = [m EXCEPT !.obj[p] = called]
    BY <1>2, <1>8 DEF MapIpdu
  <2> QED
    BY <1>3, <1>6, <1>8, <2>1
<1>9. CASE old.needs_tx /\ HasRoom(c, p, m.used) /\ called.needs_tx
  <2>1. n = [m EXCEPT !.obj[p] = sent, !.used = @ + Takes(c, p), !.entries = Append(@, entry)]
    BY <1>2, <1>9 DEF MapIpdu
  <2>2. n = [obj |-> [m.obj EXCEPT ![p] = sent], c |-> c, run |-> run,
             used |-> m.used + Takes(c, p), entries |-> Append(m.entries, entry)]
    <3>1. ASSUME NEW x, NEW y, NEW u
          PROVE  [[[m EXCEPT !.obj[p] = x] EXCEPT !.used = u] EXCEPT !.entries = y]
                   = [obj |-> [m.obj EXCEPT ![p] = x], c |-> c, run |-> run, used |-> u, entries |-> y]
      <4> DEFINE w == [m EXCEPT !.obj[p] = x]
                 z == [m.obj EXCEPT ![p] = x]
      <4>1. w = [obj |-> z, c |-> c, run |-> run, used |-> m.used, entries |-> m.entries]
        BY <1>2
      <4> HIDE DEF w, z
      <4>2. [w EXCEPT !.used = u] = [obj |-> z, c |-> c, run |-> run, used |-> u, entries |-> m.entries]
        BY <4>1
      <4> DEFINE b == [w EXCEPT !.used = u]
      <4> HIDE DEF b
      <4>2a. b = [obj |-> z, c |-> c, run |-> run, used |-> u, entries |-> m.entries]
        BY <4>2 DEF b
      <4>3. [b EXCEPT !.entries = y] = [obj |-> z, c |-> c, run |-> run, used |-> u, entries |-> y]
        BY <4>2a
      <4> QED
        BY <4>3 DEF b, w, z
    <3>2. n = [[[m EXCEPT !.obj[p] = sent] EXCEPT !.used = m.used + Takes(c, p)]
                 EXCEPT !.entries = Append(m.entries, entry)]
      <4> HIDE DEF sent, entry, n
      <4>1. m.used = m.used /\ m = [obj |-> m.obj, c |-> c, run |-> run, used |-> m.used, entries |-> m.entries]
        BY <1>2
      <4> QED
        BY <2>1, <4>1
    <3> HIDE DEF sent, entry, n
    <3> QED
      BY <3>1, <3>2
  <2>3. sent \in Object(p) /\ sent.payload = called.payload /\ sent.checksum = called.checksum
    <3>1. sent = Obj(called.payload, called.checksum, FALSE)
      BY <1>3, ExceptOne
    <3>2. called.payload \in Payload(p) /\ called.checksum \in Sum(p)
      BY <1>3 DEF Object
    <3> HIDE DEF called, sent
    <3>3. Obj(called.payload, called.checksum, FALSE) \in Object(p)
      BY <3>2, ObjectOf
    <3> QED
      BY <3>1, <3>3 DEF Obj
  <2>4. entry \in Entry /\ entry.id = Table[p].id /\ entry.payload.val = old.payload.val
    <3>1. called.payload \in Packed
      BY <1>1, <1>3, PayloadIs DEF Object
    <3> QED
      BY <1>1, <1>3, <3>1 DEF Entry, Ids
  <2>5. /\ m.used + Takes(c, p) = Size(c, Append(m.entries, entry))
        /\ m.used + Takes(c, p) \in 0 .. Table[c].len
    <3>1. Takes(c, p) \in Nat /\ Table[c].len \in Nat
      BY <1>1, TakesIs, TableIs
    <3>2. Takes(c, p) <= Table[c].len - m.used
      BY <1>9 DEF HasRoom
    <3>3. Size(c, Append(m.entries, entry)) = Size(c, m.entries) + Takes(c, p)
      BY <1>1, <1>2, <2>4, SizeOfMore
    <3> QED
      BY <1>2, <3>1, <3>2, <3>3
  <2> HIDE DEF sent, entry, called, old, n
  <2>6. /\ n.obj \in Objects /\ n.obj[p] = sent /\ \A q \in Pdu : q # p => n.obj[q] = m.obj[q]
        /\ n.entries = Append(m.entries, entry) /\ n.used = m.used + Takes(c, p)
    BY <1>1, <1>2, <2>2, <2>3, ObjectsExcept
  <2>7. n = [obj |-> n.obj, c |-> c, run |-> run, used |-> n.used, entries |-> n.entries]
    BY <2>2
  <2>8. /\ n.entries \in Seq(Entry) /\ DOMAIN n.entries = 1 .. Len(m.entries) + 1
        /\ \A k \in DOMAIN m.entries : k \in DOMAIN n.entries /\ n.entries[k] = m.entries[k]
        /\ n.entries[Len(m.entries) + 1] = entry /\ Len(m.entries) + 1 \in DOMAIN n.entries
        /\ \A k \in DOMAIN n.entries : k = Len(m.entries) + 1 \/ k \in DOMAIN m.entries
    BY <1>2, <2>4, <2>6
  <2>9. \A q \in Pdu : n.obj[q].payload.val = o[q].payload.val
    BY <1>2, <1>3, <2>3, <2>6 DEF Filling
  <2>10. \A q \in Pdu \ (seen \union {p}) : n.obj[q] = o[q]
    BY <2>6 DEF Filling
  <2>11. ASSUME NEW q \in Pdu, NEW k \in DOMAIN n.entries, n.entries[k].id = Table[q].id
         PROVE  /\ q \in seen \union {p} /\ n.entries[k].payload.val = o[q].payload.val
                /\ n.obj[q].checksum = Checksum(o[q].payload)
    <3>1. CASE k = Len(m.entries) + 1
      <4>1. Table[q].id = Table[p].id
        BY <2>4, <2>8, <2>11, <3>1
      <4>2. q = p
        BY <1>1, <4>1, TableIs
      <4> QED
        BY <1>2, <1>3, <2>3, <2>4, <2>6, <2>8, <3>1, <4>2
    <3>2. CASE k \in DOMAIN m.entries
      <4>1. m.entries[k].id = Table[q].id
        BY <2>8, <2>11, <3>2
      <4>2. q # p
        BY <1>4, <3>2, <4>1
      <4>3. /\ q \in seen /\ m.entries[k].payload.val = o[q].payload.val
            /\ m.obj[q].checksum = Checksum(o[q].payload)
        BY <3>2, <4>1 DEF Filling
      <4> QED
        BY <2>6, <2>8, <3>2, <4>2, <4>3
    <3> QED
      BY <2>8, <3>1, <3>2
  <2>12. ASSUME NoneRejected, NEW q \in Pdu
         PROVE  \/ n.obj[q].checksum \in {o[q].checksum, Forced}
                \/ \E k \in DOMAIN n.entries : n.entries[k].id = Table[q].id
    <3>1. CASE q = p
      BY <2>4, <2>8, <3>1
    <3>2. CASE q # p
      <4>1. \/ m.obj[q].checksum \in {o[q].checksum, Forced}
            \/ \E k \in DOMAIN m.entries : m.entries[k].id = Table[q].id
        BY <2>12 DEF Filling
      <4> QED
        BY <2>6, <2>8, <3>2, <4>1
    <3> QED
      BY <3>1, <3>2
  <2>13. n.used = Size(c, n.entries) /\ n.used \in 0 .. Table[c].len
    BY <2>5, <2>6
  <2>14. \A q \in Pdu : \A k \in DOMAIN n.entries : n.entries[k].id = Table[q].id =>
           /\ q \in seen \union {p} /\ n.entries[k].payload.val = o[q].payload.val
           /\ n.obj[q].checksum = Checksum(o[q].payload)
    BY <2>11
  <2>15. NoneRejected => \A q \in Pdu :
           \/ n.obj[q].checksum \in {o[q].checksum, Forced}
           \/ \E k \in DOMAIN n.entries : n.entries[k].id = Table[q].id
    BY <2>12
  <2>16. n.obj \in Objects /\ n.entries \in Seq(Entry)
    BY <2>6, <2>8
  <2>17. Filling(n, o, c, run, seen \union {p})
    BY <2>7, <2>9, <2>10, <2>13, <2>14, <2>15, <2>16 DEF Filling
  <2> QED
    BY <2>17 DEF n
<1> QED
  BY <1>2, <1>5, <1>7, <1>8, <1>9

LEMMA MappingIsFold ==
  ASSUME NEW b, NEW s
  PROVE  Mapping!Fold(b, s) = FoldLeft(MapIpdu, b, s)
BY DEF Mapping!Fold, Mapping!FoldLeft, FoldLeft, Mapping!MapThenFoldSet, MapThenFoldSet,
       Mapping!Max, Max

Cleared(o, c, run) == [obj |-> o, c |-> c, run |-> run, used |-> 0, entries |-> <<>>]

LEMMA ClearedIsFilling ==
  ASSUME NEW o \in Objects, NEW c \in Containers, NEW run
  PROVE  Filling(Cleared(o, c, run), o, c, run, {})
<1> DEFINE m == Cleared(o, c, run)
<1>1. /\ m = [obj |-> m.obj, c |-> c, run |-> run, used |-> m.used, entries |-> m.entries]
      /\ m.obj = o /\ m.used = 0 /\ m.entries = <<>>
  BY DEF Cleared
<1>2. c \in Pdu /\ Table[c].len \in Nat
  BY TableIs DEF Containers
<1>3. Size(c, <<>>) = 0 /\ 0 \in 0 .. Table[c].len /\ <<>> \in Seq(Entry)
  BY <1>2, SizeOfNone
<1> HIDE DEF m
<1>4. Filling(m, o, c, run, {})
  BY <1>1, <1>3 DEF Filling
<1> QED
  BY <1>4 DEF m

LEMMA FilledIs ==
  ASSUME NEW o \in Objects, NEW c \in Containers, NEW run \in Runs
  PROVE  Filling(FoldLeft(MapIpdu, Cleared(o, c, run), PduList[c]), o, c, run, IPdusOf(c))
<1>1. PICK n \in Nat :
        /\ PduList[c] \in [1 .. n -> IPdusOf(c)]
        /\ \A i, j \in 1 .. n : PduList[c][i] = PduList[c][j] => i = j
        /\ \A p \in IPdusOf(c) : \E i \in 1 .. n : PduList[c][i] = p
  BY PduListIs
<1> DEFINE list == PduList[c]
           b == Cleared(o, c, run)
           Seen(i) == {list[j] : j \in 1 .. i}
<1>2. DOMAIN list = 1 .. n /\ \A i \in 1 .. n : list[i] \in IPdusOf(c)
  BY <1>1
<1>3. PICK f : Mapping!Results(f, n, b, list) /\ Mapping!Fold(b, list) = f[n]
  <2> HIDE DEF list, b
  <2> QED
    BY <1>2, Mapping!FoldIsLastResult
<1> DEFINE I == {i \in 0 .. n : Filling(f[i], o, c, run, Seen(i))}
<1>4. 0 \in I
  <2>1. f[0] = b
    BY <1>3 DEF Mapping!Results
  <2>2. Seen(0) = {}
    OBVIOUS
  <2>3. Filling(b, o, c, run, {})
    BY ClearedIsFilling
  <2> HIDE DEF b, Seen
  <2> QED
    BY <2>1, <2>2, <2>3
<1>5. ASSUME NEW i \in 0 .. n - 1, i \in I PROVE i + 1 \in I
  <2>1. i + 1 \in 0 .. n /\ i + 1 \in 1 .. n /\ i + 1 # 0 /\ (i + 1) - 1 = i
    OBVIOUS
  <2>2. f[i + 1] = MapIpdu(f[i], list[i + 1])
    <3> HIDE DEF list, b, I
    <3> QED
      BY <1>3, <2>1 DEF Mapping!Results
  <2>3. list[i + 1] \in IPdusOf(c) /\ list[i + 1] \notin Seen(i)
    <3>1. \A j \in 1 .. i : list[j] # list[i + 1]
      BY <1>1, <2>1
    <3> QED
      BY <1>2, <2>1, <3>1
  <2>4. Seen(i + 1) = Seen(i) \union {list[i + 1]}
    <3>1. 1 .. i + 1 = (1 .. i) \union {i + 1}
      BY <2>1
    <3> QED
      BY <3>1
  <2>5. Filling(f[i], o, c, run, Seen(i))
    BY <1>5
  <2> HIDE DEF Seen, list
  <2>6. Filling(MapIpdu(f[i], list[i + 1]), o, c, run, Seen(i) \union {list[i + 1]})
    BY <2>3, <2>5, MapIpduIs
  <2> QED
    BY <2>1, <2>2, <2>4, <2>6
<1>6. n \in I
  <2>1. n \in 0 .. n
    OBVIOUS
  <2> HIDE DEF I
  <2> QED
    BY <1>4, <1>5, <2>1, Mapping!UpTo
<1>7. Seen(n) = IPdusOf(c)
  <2>1. \A p \in IPdusOf(c) : \E i \in 1 .. n : p = list[i]
    BY <1>1
  <2> HIDE DEF list
  <2>2. Seen(n) \subseteq IPdusOf(c)
    BY <1>2
  <2>3. IPdusOf(c) \subseteq Seen(n)
    BY <2>1
  <2> QED
    BY <2>2, <2>3
<1>8. FoldLeft(MapIpdu, b, list) = f[n]
  BY <1>3, MappingIsFold
<1> QED
  BY <1>6, <1>7, <1>8

LEMMA FillIs ==
  ASSUME NEW c \in Containers, NEW o \in Object(c), NEW run \in Runs, NEW E \in Seq(Entry)
  PROVE  /\ Fill(o, c, run, E) \in Object(c)
         /\ Fill(o, c, run, E).payload.val = E
         /\ E = <<>> => ~Fill(o, c, run, E).needs_tx
         /\ NoneRejected /\ E # <<>> => Fill(o, c, run, E).needs_tx
<1> DEFINE d == [val |-> E, ext |-> 0]
           x == E # <<>>
           v == [o EXCEPT !.needs_tx = x, !.payload = d]
<1>1. c \in Pdu /\ IsContainer(c) /\ run[c] \in [accepted : BOOLEAN, ext : Bits]
  BY DEF Containers, Runs, Bits
<1>2. o.checksum \in Sum(c) /\ d \in Payload(c) /\ d.val = E /\ x \in BOOLEAN
  BY <1>1, PayloadIs DEF Object, Bits
<1> HIDE DEF d, x
<1>3. v = Obj(d, o.checksum, x)
  <2>1. [o EXCEPT !.needs_tx = x] = Obj(o.payload, o.checksum, x)
    BY ExceptOne
  <2>2. [Obj(o.payload, o.checksum, x) EXCEPT !.payload = d] = Obj(d, o.checksum, x)
    BY DEF Obj
  <2>3. v = [[o EXCEPT !.needs_tx = x] EXCEPT !.payload = d]
    OBVIOUS
  <2> QED
    BY <2>1, <2>2, <2>3
<1>4. v \in Object(c) /\ v.payload = d /\ v.needs_tx = x
  <2> HIDE DEF v
  <2>1. Obj(d, o.checksum, x) \in Object(c)
    BY <1>1, <1>2, ObjectOf
  <2> QED
    BY <1>3, <2>1 DEF Obj
<1>5. Fill(o, c, run, E) = CallTxFunc(v, c, run[c])
  BY DEF Fill, d, x
<1>6. ASSUME NoneRejected, x PROVE CallTxFunc(v, c, run[c]).needs_tx
  <2>1. CASE Table[c].runs = {}
    <3>1. CallTxFunc(v, c, run[c]) = v
      BY <2>1 DEF CallTxFunc
    <3> QED
      BY <1>4, <1>6, <3>1
  <2>2. CASE Table[c].runs # {}
    <3>1. run[c] \in Table[c].runs
      BY <1>1, <2>2 DEF Runs
    <3>2. run[c].accepted
      BY <1>1, <1>6, <3>1 DEF NoneRejected
    <3>3. CallTxFunc(v, c, run[c]) = [v EXCEPT !.payload.ext = run[c].ext, !.needs_tx = run[c].accepted]
      BY <1>4, <1>6, <2>2 DEF CallTxFunc
    <3> HIDE DEF v
    <3>4. [v EXCEPT !.payload.ext = run[c].ext, !.needs_tx = run[c].accepted]
            = Obj([v.payload EXCEPT !.ext = run[c].ext], v.checksum, run[c].accepted)
      BY <1>4, ExceptCalled
    <3>5. CallTxFunc(v, c, run[c]).needs_tx = run[c].accepted
      BY <3>3, <3>4 DEF Obj
    <3> QED
      BY <3>2, <3>5
  <2> QED
    BY <2>1, <2>2
<1> HIDE DEF v
<1>7. /\ CallTxFunc(v, c, run[c]) \in Object(c)
      /\ CallTxFunc(v, c, run[c]).payload.val = E
      /\ ~x => CallTxFunc(v, c, run[c]) = v
  BY <1>1, <1>2, <1>4, CallIs
<1> QED
  BY <1>4, <1>5, <1>6, <1>7 DEF x

\* n: the PDUs o after a container was filled.
IsFilled(n, o, c) ==
  /\ n \in Objects
  /\ \A p \in Pdu \ {c} : n[p].payload.val = o[p].payload.val
  /\ \A p \in Pdu \ (IPdusOf(c) \union {c}) : n[p] = o[p]
  /\ n[c].payload.val \in Seq(Entry)
  /\ Size(c, n[c].payload.val) <= Table[c].len
  /\ n[c].needs_tx => n[c].payload.val # <<>>
  /\ NoneRejected /\ n[c].payload.val # <<>> => n[c].needs_tx
  /\ \A p \in Pdu : \A k \in DOMAIN n[c].payload.val :
       n[c].payload.val[k].id = Table[p].id =>
         /\ p \in IPdusOf(c)
         /\ n[c].payload.val[k].payload.val = o[p].payload.val
         /\ n[p].checksum = Checksum(o[p].payload)
  /\ NoneRejected => \A p \in Pdu \ {c} :
       \/ n[p].checksum \in {o[p].checksum, Forced}
       \/ \E k \in DOMAIN n[c].payload.val : n[c].payload.val[k].id = Table[p].id

LEMMA MapToIs ==
  ASSUME NEW o \in Objects, NEW c \in Containers, NEW run \in Runs
  PROVE  /\ ~o[c].needs_tx => MapTo(o, c, run) = o
         /\ o[c].needs_tx => IsFilled(MapTo(o, c, run), o, c)
<1>1. CASE ~o[c].needs_tx
  BY <1>1 DEF MapTo
<1>2. CASE o[c].needs_tx
  <2> DEFINE m == FoldLeft(MapIpdu, Cleared(o, c, run), PduList[c])
             x == Fill(m.obj[c], c, run, m.entries)
             n == MapTo(o, c, run)
  <2>1. n = [m.obj EXCEPT ![c] = Fill(m.obj[c], c, run, m.entries)]
    BY <1>2 DEF MapTo, Cleared
  <2>2. Filling(m, o, c, run, IPdusOf(c))
    BY FilledIs
  <2> HIDE DEF m, n
  <2>3. c \in Pdu /\ c \notin IPdusOf(c)
    <3>1. c \in Pdu /\ IsContainer(c)
      BY DEF Containers
    <3> QED
      BY <3>1, TableIs DEF IPdusOf, IPdus
  <2>4. m.obj \in Objects /\ m.entries \in Seq(Entry) /\ m.obj[c] \in Object(c)
    BY <2>2, <2>3 DEF Filling, Objects
  <2>5. /\ x \in Object(c) /\ x.payload.val = m.entries
        /\ m.entries = <<>> => ~x.needs_tx
        /\ NoneRejected /\ m.entries # <<>> => x.needs_tx
    BY <2>4, FillIs
  <2> HIDE DEF x
  <2>6. n \in Objects /\ n[c] = x /\ \A p \in Pdu : p # c => n[p] = m.obj[p]
    BY <2>1, <2>3, <2>4, <2>5, ObjectsExcept DEF x
  <2>7. n[c].payload.val = m.entries
    BY <2>5, <2>6
  <2>8. Size(c, n[c].payload.val) <= Table[c].len
    <3>1. Table[c].len \in Nat
      BY <2>3, TableIs
    <3> QED
      BY <2>2, <2>7, <3>1 DEF Filling
  <2>9. \A p \in Pdu \ {c} : n[p].payload.val = o[p].payload.val
    BY <2>2, <2>6 DEF Filling
  <2>10. \A p \in Pdu \ (IPdusOf(c) \union {c}) : n[p] = o[p]
    BY <2>2, <2>6 DEF Filling
  <2>11. \A p \in Pdu : \A k \in DOMAIN m.entries : m.entries[k].id = Table[p].id =>
           /\ p \in IPdusOf(c)
           /\ m.entries[k].payload.val = o[p].payload.val
           /\ n[p].checksum = Checksum(o[p].payload)
    BY <2>2, <2>3, <2>6 DEF Filling
  <2>12. NoneRejected => \A p \in Pdu \ {c} :
           \/ n[p].checksum \in {o[p].checksum, Forced}
           \/ \E k \in DOMAIN m.entries : m.entries[k].id = Table[p].id
    BY <2>2, <2>6 DEF Filling
  <2>13. /\ n[c].needs_tx => n[c].payload.val # <<>>
         /\ NoneRejected /\ n[c].payload.val # <<>> => n[c].needs_tx
    BY <2>5, <2>6
  <2>14. IsFilled(n, o, c)
    BY <2>4, <2>6, <2>7, <2>8, <2>9, <2>10, <2>11, <2>12, <2>13 DEF IsFilled
  <2> QED
    BY <1>2, <2>14 DEF n
<1> QED
  BY <1>1, <1>2

LEMMA RunIs ==
  ASSUME NEW run \in Runs, NEW p \in Pdu
  PROVE  /\ run[p] \in [accepted : BOOLEAN, ext : Bits]
         /\ run \in [Pdu -> [accepted : BOOLEAN, ext : Bits]]
         /\ Table[p].runs # {} => run[p] \in Table[p].runs
BY DEF Runs, Bits

\* An I-PDU is on the list of one container.
LEMMA ContainerOfIs ==
  ASSUME NEW p \in IPdus
  PROVE  /\ ContainerOf[p] \in Containers /\ p \in IPdusOf(ContainerOf[p])
         /\ \A c \in Containers : p \in IPdusOf(c) <=> c = ContainerOf[p]
<1>1. p \in Pdu /\ Table[p].container # 0
  BY DEF IPdus, IsLpdu
<1>2. \E c \in Pdu : Table[c].id = Table[p].container /\ Table[c].header # "None"
  BY <1>1, TableAssumption
<1>3. ContainerOf[p] = CHOOSE c \in Pdu : Table[c].id = Table[p].container
  BY DEF ContainerOf
<1>4. ContainerOf[p] \in Pdu /\ Table[ContainerOf[p]].id = Table[p].container
  BY <1>2, <1>3
<1>5. \A c, d \in Pdu : Table[c].id = Table[d].id => c = d
  BY TableAssumption
<1> QED
  BY <1>2, <1>4, <1>5 DEF Containers, IsContainer, IPdusOf

LEMMA KindsOf ==
  ASSUME NEW p \in Pdu
  PROVE  /\ p \in Containers <=> IsContainer(p)
         /\ p \in Signals <=> ~IsContainer(p)
         /\ p \in IPdus <=> ~IsLpdu(p)
         /\ IsContainer(p) => IsLpdu(p)
BY TableIs DEF Containers, Signals, IPdus

LEMMA ChangedIs ==
  ASSUME NEW o \in Objects, NEW s \in [Signals -> Value], NEW t, NEW e, NEW run \in Runs
  PROVE  Changed(o, s, t, e, run) \in Objects
<1> DEFINE n == Changed(o, s, t, e, run)
<1>1. ASSUME NEW p \in Pdu PROVE n[p] \in Object(p)
  <2> DEFINE u == Schedule(o[p], p, t, e)
             v == Encode(u, p, s, t, e)
  <2>1. o[p] \in Object(p)
    BY DEF Objects
  <2>2. u \in Object(p)
    BY <2>1, ScheduleIs
  <2>3. n[p] = IF IsContainer(p) THEN u ELSE NeedsTx(v, p, run)
    BY DEF Changed
  <2>4. ASSUME ~IsContainer(p) PROVE NeedsTx(v, p, run) \in Object(p)
    <3>1. s[p] \in Value
      BY <2>4, KindsOf
    <3> HIDE DEF u
    <3>2. v \in Object(p)
      BY <2>2, <2>4, <3>1, EncodeIs
    <3>3. run \in [Pdu -> [accepted : BOOLEAN, ext : Bits]]
      BY RunIs
    <3> HIDE DEF v
    <3> QED
      BY <2>4, <3>2, <3>3, NeedsTxIs
  <2> HIDE DEF n, u, v
  <2> QED
    BY <2>2, <2>3, <2>4
<1>2. DOMAIN n = Pdu /\ n = [p \in Pdu |-> n[p]]
  BY DEF Changed
<1> HIDE DEF n
<1>3. n \in Objects
  BY <1>1, <1>2, ObjectsAre
<1> QED
  BY <1>3 DEF n

\* r: the PDUs o after all containers were filled.
IsReady(r, o) ==
  /\ r \in Objects
  /\ \A p \in Signals : r[p].payload.val = o[p].payload.val
  /\ \A p \in Signals : IsLpdu(p) => r[p] = o[p]
  /\ \A p \in IPdus : ~o[ContainerOf[p]].needs_tx => r[p] = o[p]
  /\ \A c \in Containers : ~o[c].needs_tx => r[c] = o[c]
  /\ \A c \in Containers : o[c].needs_tx =>
       /\ Size(c, r[c].payload.val) <= Table[c].len
       /\ r[c].needs_tx => r[c].payload.val # <<>>
       /\ NoneRejected /\ r[c].payload.val # <<>> => r[c].needs_tx
       /\ \A p \in Pdu : \A k \in DOMAIN r[c].payload.val :
            r[c].payload.val[k].id = Table[p].id =>
              /\ p \in IPdusOf(c)
              /\ r[c].payload.val[k].payload.val = o[p].payload.val
              /\ r[p].checksum = Checksum(o[p].payload)
       /\ NoneRejected => \A p \in IPdusOf(c) :
            \/ r[p].checksum \in {o[p].checksum, Forced}
            \/ \E k \in DOMAIN r[c].payload.val : r[c].payload.val[k].id = Table[p].id

LEMMA MapContainersIs ==
  ASSUME NEW o \in Objects, NEW run \in Runs
  PROVE  IsReady(MapContainers(o, run), o)
<1> DEFINE r == MapContainers(o, run)
           n(c) == MapTo(o, c, run)
<1>1. \A c \in Containers : /\ r[c] = n(c)[c]
                            /\ \A p \in IPdusOf(c) : r[p] = n(c)[p]
  <2> SUFFICES ASSUME NEW c \in Containers
               PROVE  r[c] = n(c)[c] /\ \A p \in IPdusOf(c) : r[p] = n(c)[p]
    OBVIOUS
  <2>1. c \in Pdu /\ IsContainer(c)
    BY DEF Containers
  <2>2. r[c] = n(c)[c]
    BY <2>1 DEF MapContainers
  <2>3. ASSUME NEW p \in IPdusOf(c) PROVE r[p] = n(c)[p]
    <3>1. p \in IPdus /\ p \in Pdu /\ ~IsContainer(p)
      BY KindsOf DEF IPdusOf, IPdus
    <3>2. ContainerOf[p] = c
      BY <3>1, ContainerOfIs
    <3> QED
      BY <3>1, <3>2 DEF MapContainers
  <2> QED
    BY <2>2, <2>3
<1>2. \A p \in Signals : IsLpdu(p) => r[p] = o[p]
  BY KindsOf DEF MapContainers, Signals, IPdus
<1>3. DOMAIN r = Pdu /\ r = [p \in Pdu |-> r[p]]
  BY DEF MapContainers
<1>4. \A c \in Containers : /\ ~o[c].needs_tx => n(c) = o
                            /\ o[c].needs_tx => IsFilled(n(c), o, c)
  BY MapToIs
<1> HIDE DEF r, n
<1>5. \A p \in IPdus : /\ ContainerOf[p] \in Containers /\ p \in IPdusOf(ContainerOf[p])
                       /\ r[p] = n(ContainerOf[p])[p]
  BY <1>1, ContainerOfIs
<1>6. \A c \in Containers : n(c) \in Objects
  BY <1>4 DEF IsFilled
<1>7. ASSUME NEW p \in Pdu PROVE r[p] \in Object(p)
  <2>1. CASE p \in Containers
    BY <1>1, <1>6, <2>1 DEF Objects
  <2>2. CASE p \in IPdus
    BY <1>5, <1>6, <2>2 DEF Objects
  <2>3. CASE p \notin Containers /\ p \notin IPdus
    <3>1. p \in Signals /\ IsLpdu(p)
      BY <2>3, KindsOf
    <3> QED
      BY <1>2, <3>1 DEF Objects
  <2> QED
    BY <2>1, <2>2, <2>3
<1>8. r \in Objects
  BY <1>3, <1>7, ObjectsAre
<1>9. ASSUME NEW p \in IPdus PROVE p \in Pdu /\ p \notin Containers /\ p # ContainerOf[p]
  BY <1>5, KindsOf DEF IPdus
<1>10. ASSUME NEW p \in Signals PROVE r[p].payload.val = o[p].payload.val
  <2>1. CASE IsLpdu(p)
    BY <1>2, <2>1
  <2>2. CASE ~IsLpdu(p)
    <3>1. p \in IPdus /\ p \in Pdu
      BY <2>2, KindsOf DEF Signals
    <3>2. p \in Pdu \ {ContainerOf[p]}
      BY <1>9, <3>1
    <3> QED
      BY <1>4, <1>5, <3>1, <3>2 DEF IsFilled
  <2> QED
    BY <2>1, <2>2
<1>11. ASSUME NEW p \in IPdus, ~o[ContainerOf[p]].needs_tx PROVE r[p] = o[p]
  BY <1>4, <1>5, <1>11
<1>12. ASSUME NEW c \in Containers, ~o[c].needs_tx PROVE r[c] = o[c]
  BY <1>1, <1>4, <1>12
<1>13. ASSUME NEW c \in Containers, o[c].needs_tx
       PROVE  /\ Size(c, r[c].payload.val) <= Table[c].len
              /\ r[c].needs_tx => r[c].payload.val # <<>>
              /\ NoneRejected /\ r[c].payload.val # <<>> => r[c].needs_tx
              /\ \A p \in Pdu : \A k \in DOMAIN r[c].payload.val :
                   r[c].payload.val[k].id = Table[p].id =>
                     /\ p \in IPdusOf(c)
                     /\ r[c].payload.val[k].payload.val = o[p].payload.val
                     /\ r[p].checksum = Checksum(o[p].payload)
              /\ NoneRejected => \A p \in IPdusOf(c) :
                   \/ r[p].checksum \in {o[p].checksum, Forced}
                   \/ \E k \in DOMAIN r[c].payload.val : r[c].payload.val[k].id = Table[p].id
  <2>1. IsFilled(n(c), o, c) /\ r[c] = n(c)[c]
    BY <1>1, <1>4, <1>13
  <2>2. \A p \in IPdusOf(c) : p \in Pdu \ {c} /\ r[p] = n(c)[p]
    BY <1>1, <1>9 DEF IPdusOf, IPdus
  <2> QED
    BY <2>1, <2>2 DEF IsFilled
<1> HIDE DEF r
<1>14. IsReady(r, o)
  BY <1>2, <1>8, <1>10, <1>11, <1>12, <1>13 DEF IsReady
<1> QED
  BY <1>14 DEF r

LEMMA LpduTxIs ==
  ASSUME NEW o \in Objects
  PROVE  /\ LpduTx(o) \in Objects
         /\ \A p \in Pdu : /\ LpduTx(o)[p].payload = o[p].payload
                           /\ LpduTx(o)[p].checksum = o[p].checksum
<1> DEFINE n == LpduTx(o)
<1>1. ASSUME NEW p \in Pdu
      PROVE  n[p] \in Object(p) /\ n[p].payload = o[p].payload /\ n[p].checksum = o[p].checksum
  <2> DEFINE u == o[p]
             v == [u EXCEPT !.needs_tx = FALSE]
  <2>1. u \in Object(p)
    BY DEF Objects
  <2>2. v = Obj(u.payload, u.checksum, FALSE)
    BY <2>1, ExceptOne
  <2>3. n[p] = IF IsLpdu(p) THEN v ELSE u
    BY DEF LpduTx
  <2>4. u.payload \in Payload(p) /\ u.checksum \in Sum(p)
    BY <2>1 DEF Object
  <2> HIDE DEF n, u, v
  <2>5. Obj(u.payload, u.checksum, FALSE) \in Object(p)
    BY <2>4, ObjectOf
  <2>6. v \in Object(p) /\ v.payload = u.payload /\ v.checksum = u.checksum
    BY <2>2, <2>5 DEF Obj
  <2> QED
    BY <2>1, <2>3, <2>6 DEF u
<1>2. DOMAIN n = Pdu /\ n = [p \in Pdu |-> n[p]]
  BY DEF LpduTx
<1> HIDE DEF n
<1>3. n \in Objects
  BY <1>1, <1>2, ObjectsAre
<1> QED
  BY <1>1, <1>3 DEF n

\* A sequence that holds what is to be sent for a PDU.
Held(p, b) == b = <<>> \/ \E x \in Payload(p) : b = <<x>>

\* The types of all variables, and that containers hold what they have room for.
TypeInv ==
  /\ time \in 0 .. Horizon - 1
  /\ epoch \in 0 .. CycleTime - 1
  /\ origin \in {NotSynced} \union 0 .. CycleTime - 1
  /\ sig \in [Signals -> Value]
  /\ obj \in Objects
  /\ \A p \in Pdu : Held(p, bus[p]) /\ rx[p] \in Payload(p)
  /\ ContainerFits

LEMMA TypeInvIsTypeOK ==
  ASSUME TypeInv
  PROVE  TypeOK
<1>1. ASSUME NEW p \in Pdu
      PROVE  /\ obj[p].payload \in Payload(p) /\ obj[p].needs_tx \in BOOLEAN
             /\ rx[p] \in Payload(p) /\ ToSet(bus[p]) \subseteq Payload(p)
  <2>1. obj[p] \in Object(p) /\ rx[p] \in Payload(p) /\ Held(p, bus[p])
    BY DEF TypeInv, Objects
  <2>2. ToSet(bus[p]) \subseteq Payload(p)
    <3>1. CASE bus[p] = <<>>
      BY <3>1 DEF ToSet
    <3>2. CASE \E x \in Payload(p) : bus[p] = <<x>>
      BY <3>2 DEF ToSet
    <3> QED
      BY <2>1, <3>1, <3>2 DEF Held
  <2> QED
    BY <2>1, <2>2 DEF Object
<1> QED
  BY <1>1 DEF TypeInv, TypeOK

LEMMA InitType ==
  ASSUME Init
  PROVE  TypeInv
<1>1. ASSUME NEW p \in Pdu
      PROVE  obj[p] \in Object(p) /\ rx[p] \in Payload(p) /\ Held(p, bus[p])
  <2>1. ZeroPayload(p) \in Payload(p)
    <3>1. <<>> \in Seq(Entry) /\ 0 \in Bits /\ 0 \in Value
      BY NetworkAssumption DEF Bits
    <3>2. CASE IsContainer(p)
      <4>1. ZeroPayload(p) = [val |-> <<>>, ext |-> 0]
        BY <3>2 DEF ZeroPayload
      <4> QED
        BY <3>1, <3>2, <4>1, PayloadIs
    <3>3. CASE ~IsContainer(p)
      <4>1. ZeroPayload(p) = [val |-> 0, ext |-> 0]
        BY <3>3 DEF ZeroPayload
      <4> QED
        BY <3>1, <3>3, <4>1, PayloadIs DEF Packed
    <3> QED
      BY <3>2, <3>3
  <2>2. Checksum(ZeroPayload(p)) \in Sum(p)
    BY NetworkAssumption DEF ZeroPayload, Checksum, Sum, Bits
  <2>3. obj[p] = [payload |-> ZeroPayload(p), checksum |-> Checksum(ZeroPayload(p)),
                  needs_tx |-> FALSE]
    BY DEF Init
  <2>4. obj[p] \in Object(p)
    BY <2>1, <2>2, <2>3 DEF Object
  <2>5. rx[p] = ZeroPayload(p) /\ bus[p] = <<>>
    BY DEF Init
  <2> QED
    BY <2>1, <2>4, <2>5 DEF Held
<1>2. obj \in Objects
  <2>1. DOMAIN obj = Pdu /\ obj = [p \in Pdu |-> obj[p]]
    BY DEF Init
  <2> QED
    BY <1>1, <2>1, ObjectsAre
<1>3. ContainerFits
  <2> SUFFICES ASSUME NEW c \in Containers PROVE Size(c, obj[c].payload.val) <= Table[c].len
    BY DEF ContainerFits
  <2>1. c \in Pdu /\ IsContainer(c)
    BY DEF Containers
  <2>2. obj[c].payload.val = <<>>
    BY <2>1 DEF Init, ZeroPayload
  <2> QED
    BY <2>1, <2>2, SizeOfNone, TableIs
<1>4. /\ time \in 0 .. Horizon - 1 /\ epoch \in 0 .. CycleTime - 1
      /\ origin \in {NotSynced} \union 0 .. CycleTime - 1
      /\ sig \in [Signals -> Value]
  BY NetworkAssumption DEF Init, NotSynced
<1> QED
  BY <1>1, <1>2, <1>3, <1>4 DEF TypeInv

LEMMA RemainderIs ==
  ASSUME NEW a \in Int, NEW n \in Nat, n # 0
  PROVE  a % n \in 0 .. n - 1
OBVIOUS

LEMMA TimesAre ==
  ASSUME TypeInv
  PROVE  /\ EpochShift \in 0 .. CycleTime - 1
         /\ Later \in 0 .. Horizon - 1
         /\ time % CycleTime \in 0 .. CycleTime - 1
<1>1. /\ time \in Nat /\ time < Horizon /\ CycleTime \in Nat /\ CycleTime # 0
      /\ Horizon \in Nat /\ Period \in Nat /\ Period # 0 /\ Horizon - Period > CycleTime
      /\ epoch \in 0 .. CycleTime - 1
  BY NetworkAssumption DEF TypeInv
<1>2. Previous \in Int
  BY <1>1 DEF Previous
<1>3. EpochShift \in 0 .. CycleTime - 1
  BY <1>1, <1>2, RemainderIs DEF EpochShift
<1>4. Later \in 0 .. Horizon - 1
  BY <1>1 DEF Later
<1> QED
  BY <1>1, <1>3, <1>4, RemainderIs

\* What the receiver gets of the payloads on the bus.
LEMMA ReceiveType ==
  ASSUME TypeInv, NEW S \in SUBSET Pdu, \A p \in S : bus[p] # <<>>
  PROVE  \A p \in Pdu : Receive(rx, [q \in S |-> Head(bus[q])])[p] \in Payload(p)
<1> DEFINE frames == [q \in S |-> Head(bus[q])]
           n == Receive(rx, frames)
<1>1. DOMAIN frames = S /\ \A q \in S : frames[q] \in Payload(q)
  <2> SUFFICES ASSUME NEW q \in S PROVE Head(bus[q]) \in Payload(q)
    OBVIOUS
  <2> QED
    BY DEF TypeInv, Held
<1> SUFFICES ASSUME NEW p \in Pdu PROVE n[p] \in Payload(p)
  OBVIOUS
<1>2. rx[p] \in Payload(p)
  BY DEF TypeInv
<1>3. CASE IsLpdu(p)
  <2>1. n[p] = IF p \in DOMAIN frames THEN frames[p] ELSE rx[p]
    BY <1>3 DEF Receive
  <2> HIDE DEF n, frames
  <2> QED
    BY <1>1, <1>2, <2>1
<1>4. CASE ~IsLpdu(p)
  <2> DEFINE c == ContainerOf[p]
             found == IF c \in DOMAIN frames /\ Table[c].header # "Static"
                      THEN {e \in ToSet(frames[c].val) : e.id = Table[p].id} ELSE {}
  <2>1. n[p] = IF found = {} THEN rx[p] ELSE (CHOOSE e \in found : TRUE).payload
    BY <1>4 DEF Receive
  <2> HIDE DEF n, frames
  <2>2. ASSUME found # {} PROVE (CHOOSE e \in found : TRUE).payload \in Payload(p)
    <3>1. c \in Containers /\ c \in Pdu /\ IsContainer(c)
      BY <1>4, ContainerOfIs, KindsOf DEF Containers
    <3>2. c \in S /\ found \subseteq ToSet(frames[c].val)
      BY <1>1, <2>2
    <3>3. frames[c].val \in Seq(Entry)
      BY <1>1, <3>1, <3>2, PayloadIs
    <3>4. ToSet(frames[c].val) \subseteq Entry
      BY <3>3 DEF ToSet
    <3>5. \A e \in found : e.payload \in Packed
      BY <3>2, <3>4 DEF Entry
    <3>6. Payload(p) = Packed
      BY <1>4, KindsOf, PayloadIs
    <3> HIDE DEF found
    <3> QED
      BY <2>2, <3>5, <3>6
  <2> HIDE DEF found
  <2> QED
    BY <1>2, <2>1, <2>2
<1> QED
  BY <1>3, <1>4

\* The PDUs in a step: mapped from, and written from.
LEMMA StepIs ==
  ASSUME TypeInv, NEW run \in Runs, Step(run)
  PROVE  LET changed == Changed(obj, sig, time, EpochShift, run)
             ready == MapContainers(changed, run)
         IN  /\ changed \in Objects /\ IsReady(ready, changed)
             /\ obj' = LpduTx(ready)
             /\ bus' = [p \in Pdu |-> IF p \in Written(ready) THEN <<ready[p].payload>>
                                      ELSE IF p \in Sent THEN <<>> ELSE bus[p]]
<1>1. Changed(obj, sig, time, EpochShift, run) \in Objects
  BY ChangedIs DEF TypeInv
<1> QED
  BY <1>1, MapContainersIs DEF Step

LEMMA SetType ==
  ASSUME TypeInv, NEW p \in Signals, NEW v \in Value, Set(p, v)
  PROVE  TypeInv'
<1>1. sig' \in [Signals -> Value]
  BY DEF TypeInv, Set
<1>2. time' = time /\ epoch' = epoch /\ origin' = origin /\ obj' = obj /\ bus' = bus /\ rx' = rx
  BY DEF Set
<1> QED
  BY <1>1, <1>2 DEF TypeInv, ContainerFits

LEMMA StepType ==
  ASSUME TypeInv, NEW run \in Runs, Step(run)
  PROVE  TypeInv'
<1> DEFINE changed == Changed(obj, sig, time, EpochShift, run)
           ready == MapContainers(changed, run)
<1>1. /\ changed \in Objects /\ IsReady(ready, changed) /\ obj' = LpduTx(ready)
      /\ bus' = [p \in Pdu |-> IF p \in Written(ready) THEN <<ready[p].payload>>
                               ELSE IF p \in Sent THEN <<>> ELSE bus[p]]
  BY StepIs
<1>2. \A c \in Containers : changed[c].payload.val = obj[c].payload.val
  <2> SUFFICES ASSUME NEW c \in Containers PROVE changed[c].payload.val = obj[c].payload.val
    OBVIOUS
  <2>1. c \in Pdu /\ IsContainer(c)
    BY DEF Containers
  <2>2. changed[c] = Schedule(obj[c], c, time, EpochShift)
    BY <2>1 DEF Changed
  <2>3. obj[c] \in Object(c)
    BY <2>1 DEF TypeInv, Objects
  <2> QED
    BY <2>1, <2>2, <2>3, ScheduleIs
<1> HIDE DEF changed, ready
<1>3. ready \in Objects /\ obj' \in Objects
      /\ \A p \in Pdu : obj'[p].payload = ready[p].payload
  BY <1>1, LpduTxIs DEF IsReady
<1>4. ContainerFits'
  <2> SUFFICES ASSUME NEW c \in Containers PROVE Size(c, obj'[c].payload.val) <= Table[c].len
    BY DEF ContainerFits
  <2>1. c \in Pdu
    BY DEF Containers
  <2>2. CASE changed[c].needs_tx
    BY <1>1, <1>3, <2>1, <2>2 DEF IsReady
  <2>3. CASE ~changed[c].needs_tx
    <3>1. obj'[c].payload.val = obj[c].payload.val
      BY <1>1, <1>2, <1>3, <2>1, <2>3 DEF IsReady
    <3> QED
      BY <3>1 DEF TypeInv, ContainerFits
  <2> QED
    BY <2>2, <2>3
<1>5. \A p \in Pdu : Held(p, bus'[p])
  <2> SUFFICES ASSUME NEW p \in Pdu PROVE Held(p, bus'[p])
    OBVIOUS
  <2>1. ready[p].payload \in Payload(p)
    BY <1>3 DEF Objects, Object
  <2>2. Held(p, bus[p])
    BY DEF TypeInv
  <2>3. bus'[p] \in {<<>>, bus[p], <<ready[p].payload>>}
    BY <1>1
  <2> QED
    BY <2>1, <2>2, <2>3 DEF Held
<1>6. \A p \in Pdu : rx'[p] \in Payload(p)
  <2>1. Sent \in SUBSET Pdu /\ \A p \in Sent : bus[p] # <<>>
    BY DEF Sent
  <2>2. rx' = Receive(rx, [p \in Sent |-> Head(bus[p])])
    BY DEF Step
  <2> QED
    BY <2>1, <2>2, ReceiveType
<1>7. time' = Later /\ epoch' = EpochShift /\ sig' = sig
      /\ origin' \in IF origin = NotSynced THEN {NotSynced, time % CycleTime} ELSE {origin}
  BY DEF Step
<1>8. /\ time' \in 0 .. Horizon - 1 /\ epoch' \in 0 .. CycleTime - 1
      /\ origin' \in {NotSynced} \union 0 .. CycleTime - 1 /\ sig' \in [Signals -> Value]
  BY <1>7, TimesAre DEF TypeInv
<1> QED
  BY <1>3, <1>4, <1>5, <1>6, <1>8 DEF TypeInv

\* Types of all variables, for every matrix of PDUs; above all a container never
\* holds more I-PDUs, with their headers, than its payload has room for, whichever
\* are due, delayed or rejected (pdunet_visit_container_mapto()).
THEOREM TypeCorrect == Spec => []TypeOK
<1>1. TypeInv /\ [Next]_vars => TypeInv'
  <2> SUFFICES ASSUME TypeInv, [Next]_vars PROVE TypeInv'
    OBVIOUS
  <2>1. ASSUME NEW p \in Signals, NEW v \in Value, Set(p, v) PROVE TypeInv'
    BY <2>1, SetType
  <2>2. ASSUME NEW run \in Runs, Step(run) PROVE TypeInv'
    BY <2>2, StepType
  <2>3. CASE UNCHANGED vars
    BY <2>3 DEF vars, TypeInv, ContainerFits
  <2> QED
    BY <2>1, <2>2, <2>3 DEF Next
<1> QED
  BY <1>1, InitType, TypeInvIsTypeOK, PTL DEF Spec

(***************************************************************************)
(* PDUs with a schedule.                                                   *)
(***************************************************************************)

\* The Tx functions of L-PDUs with a schedule leave the payload as it is packed.
PlainWhenScheduled ==
  \A p \in Signals : IsLpdu(p) /\ Table[p].interval # 0 =>
    \A r \in Table[p].runs : r.ext = 0

Scheduled == {p \in Signals : IsLpdu(p) /\ Table[p].interval # 0}

\* The payload is the one that the checksum is of.
Settled(o) == o.payload.ext = 0 /\ o.checksum = Checksum(o.payload)

LEMMA CallOfPlain ==
  ASSUME NEW p \in Pdu, NEW o \in Object(p), NEW r \in [accepted : BOOLEAN, ext : Bits],
         NEW q, Settled(o), Table[q].runs # {} => r.ext = 0
  PROVE  Settled(CallTxFunc(o, q, r))
<1> DEFINE x == r.ext
           v == [o EXCEPT !.payload.ext = x, !.needs_tx = r.accepted]
           d == [o.payload EXCEPT !.ext = x]
<1>1. CASE ~o.needs_tx \/ Table[q].runs = {}
  BY <1>1 DEF CallTxFunc
<1>2. CASE o.needs_tx /\ Table[q].runs # {}
  <2>1. CallTxFunc(o, q, r) = v
    BY <1>2 DEF CallTxFunc
  <2>2. v = Obj(d, o.checksum, r.accepted)
    BY ExceptCalled
  <2>3. CallTxFunc(o, q, r).payload.val = o.payload.val
    BY CallIs
  <2>4. d.ext = 0
    <3>1. x = 0
      BY <1>2
    <3>2. CASE IsContainer(p)
      <4>1. o.payload \in [val : Seq(Entry), ext : Bits]
        BY <3>2, PayloadIs DEF Object
      <4> QED
        BY <3>1, <4>1
    <3>3. CASE ~IsContainer(p)
      <4>1. o.payload \in Packed
        BY <3>3, PayloadIs DEF Object
      <4> QED
        BY <3>1, <4>1 DEF Packed
    <3> QED
      BY <3>2, <3>3
  <2> HIDE DEF v, d, x
  <2>5. v.payload.ext = 0 /\ v.checksum = o.checksum /\ v.payload.val = o.payload.val
    BY <2>1, <2>2, <2>3, <2>4 DEF Obj
  <2> QED
    BY <2>1, <2>5 DEF Settled, Checksum
<1> QED
  BY <1>1, <1>2

\* A PDU with a schedule is settled after a step; it does not need to be sent if it
\* was settled before and is not due.
LEMMA ScheduledIs ==
  ASSUME PlainWhenScheduled, NEW p \in Scheduled, NEW o \in Objects, Settled(o[p]),
         NEW s \in [Signals -> Value], NEW t, NEW e, NEW run \in Runs
  PROVE  /\ Settled(Changed(o, s, t, e, run)[p])
         /\ ~IsDue(p, t, e) => ~Changed(o, s, t, e, run)[p].needs_tx
<1> DEFINE u == Schedule(o[p], p, t, e)
           v == Encode(u, p, s, t, e)
           n == NeedsTx(v, p, run)
           sum == Checksum(v.payload)
           w == [v EXCEPT !.needs_tx = TRUE, !.checksum = sum]
<1>1. p \in Pdu /\ ~IsContainer(p) /\ IsLpdu(p) /\ p \in Signals
  BY KindsOf DEF Scheduled, Signals
<1>2. Changed(o, s, t, e, run)[p] = n
  BY <1>1 DEF Changed
<1>3. o[p] \in Object(p)
  BY <1>1 DEF Objects
<1>4. u \in Object(p) /\ u.payload = o[p].payload /\ (~IsDue(p, t, e) => u = o[p])
  BY <1>1, <1>3, ScheduleIs
<1>5. s[p] \in Value
  BY <1>1
<1>6. /\ v \in Object(p) /\ v.payload.ext \in {0, u.payload.ext}
      /\ ~IsDue(p, t, e) => v = u
  <2> HIDE DEF u
  <2> QED
    BY <1>1, <1>4, <1>5, EncodeIs
<1>7. v.payload.ext = 0
  BY <1>4, <1>6 DEF Settled
<1> HIDE DEF u, v
<1>8. run \in [Pdu -> [accepted : BOOLEAN, ext : Bits]] /\ run[p] \in [accepted : BOOLEAN, ext : Bits]
  BY <1>1, RunIs
<1>9. /\ n.checksum \in {v.checksum, sum}
      /\ sum = v.checksum => ~n.needs_tx /\ n.payload = v.payload
  BY <1>1, <1>6, <1>8, NeedsTxIs
<1>10. CASE sum = v.checksum
  <2>1. ~n.needs_tx /\ n.payload = v.payload /\ n.checksum = sum
    BY <1>9, <1>10
  <2> HIDE DEF n
  <2> QED
    BY <1>2, <1>7, <2>1 DEF Settled, sum
<1>11. CASE sum # v.checksum
  <2>1. n = CallTxFunc(w, p, run[p])
    BY <1>1, <1>11 DEF NeedsTx
  <2>2. w = Obj(v.payload, sum, TRUE)
    <3> HIDE DEF sum
    <3> QED
      BY <1>6, ExceptBoth
  <2>3. w \in Object(p) /\ w.payload = v.payload /\ w.checksum = sum
    <3>1. v.payload \in Payload(p) /\ sum \in Sum(p) /\ TRUE \in BOOLEAN
      BY <1>1, <1>6, SumOf DEF Object
    <3> HIDE DEF sum, w
    <3>2. Obj(v.payload, sum, TRUE) \in Object(p)
      BY <3>1, ObjectOf
    <3> QED
      BY <2>2, <3>2 DEF Obj
  <2> HIDE DEF w, n
  <2>4. Settled(w)
    BY <1>7, <2>3 DEF Settled, sum
  <2>5. Table[p].runs # {} => run[p].ext = 0
    BY <1>1, RunIs DEF PlainWhenScheduled, Scheduled
  <2>6. Settled(n)
    BY <1>1, <1>8, <2>1, <2>3, <2>4, <2>5, CallOfPlain
  <2>7. IsDue(p, t, e)
    <3>1. SUFFICES ASSUME ~IsDue(p, t, e) PROVE FALSE
      OBVIOUS
    <3>2. v = o[p]
      BY <1>4, <1>6, <3>1
    <3> QED
      BY <1>11, <3>2 DEF Settled, sum
  <2> QED
    BY <1>2, <2>6, <2>7
<1> QED
  BY <1>10, <1>11

\* The checksums of PDUs with a schedule are those of their payloads.
SettledInv == \A p \in Scheduled : Settled(obj[p])

LEMMA InitSettled ==
  ASSUME Init
  PROVE  SettledInv
<1> SUFFICES ASSUME NEW p \in Scheduled PROVE Settled(obj[p])
  BY DEF SettledInv
<1>1. p \in Pdu
  BY DEF Scheduled, Signals
<1>2. obj[p] = [payload |-> ZeroPayload(p), checksum |-> Checksum(ZeroPayload(p)), needs_tx |-> FALSE]
  BY <1>1 DEF Init
<1>3. ZeroPayload(p).ext = 0
  BY DEF ZeroPayload
<1> QED
  BY <1>2, <1>3 DEF Settled

LEMMA StepSettled ==
  ASSUME PlainWhenScheduled, TypeInv, SettledInv, NEW run \in Runs, Step(run)
  PROVE  /\ SettledInv'
         /\ \A p \in Scheduled : bus'[p] # <<>> /\ (bus'[p] # bus[p] \/ p \in Sent)
              => IsDue(p, time, epoch')
<1> DEFINE changed == Changed(obj, sig, time, EpochShift, run)
           ready == MapContainers(changed, run)
<1>1. /\ changed \in Objects /\ IsReady(ready, changed) /\ obj' = LpduTx(ready)
      /\ bus' = [p \in Pdu |-> IF p \in Written(ready) THEN <<ready[p].payload>>
                               ELSE IF p \in Sent THEN <<>> ELSE bus[p]]
  BY StepIs
<1>2. ASSUME NEW p \in Scheduled
      PROVE  /\ Settled(changed[p])
             /\ ~IsDue(p, time, EpochShift) => ~changed[p].needs_tx
  <2>1. obj \in Objects /\ sig \in [Signals -> Value] /\ Settled(obj[p])
    BY DEF TypeInv, SettledInv
  <2> QED
    BY <2>1, ScheduledIs
<1> HIDE DEF changed, ready
<1>3. ASSUME NEW p \in Scheduled
      PROVE  /\ p \in Pdu /\ ready[p] = changed[p]
             /\ obj'[p].payload = changed[p].payload /\ obj'[p].checksum = changed[p].checksum
  <2>1. p \in Pdu /\ p \in Signals /\ IsLpdu(p)
    BY DEF Scheduled, Signals
  <2>2. ready[p] = changed[p] /\ ready \in Objects
    BY <1>1, <2>1 DEF IsReady
  <2> QED
    BY <1>1, <2>1, <2>2, LpduTxIs
<1>4. SettledInv'
  <2> SUFFICES ASSUME NEW p \in Scheduled PROVE Settled(obj'[p])
    BY DEF SettledInv
  <2> QED
    BY <1>2, <1>3 DEF Settled
<1>5. ASSUME NEW p \in Scheduled, bus'[p] # <<>>, bus'[p] # bus[p] \/ p \in Sent
      PROVE  IsDue(p, time, epoch')
  <2>1. p \in Written(ready)
    BY <1>1, <1>3, <1>5
  <2>2. changed[p].needs_tx
    BY <1>3, <2>1 DEF Written
  <2>3. epoch' = EpochShift
    BY DEF Step
  <2> QED
    BY <1>2, <2>2, <2>3
<1> QED
  BY <1>4, <1>5

\* A PDU with a schedule is written only in a step in which it is due, provided that
\* its Tx function leaves the payload as it was packed: one that writes to it makes
\* its checksum differ, and the PDU is sent again in the next step, due or not.
THEOREM OnSchedule ==
  ASSUME PlainWhenScheduled
  PROVE  Spec => SentWhenDue
<1> DEFINE Due == \A p \in Signals :
                    /\ time' # time
                    /\ IsLpdu(p) /\ bus'[p] # <<>> /\ (bus'[p] # bus[p] \/ p \in Sent)
                    => IsDue(p, time, epoch')
<1>1. Init => TypeInv /\ SettledInv
  BY InitType, InitSettled
<1>2. TypeInv /\ SettledInv /\ [Next]_vars => (TypeInv /\ SettledInv)' /\ [Due]_vars
  <2> SUFFICES ASSUME TypeInv, SettledInv, [Next]_vars
               PROVE  TypeInv' /\ SettledInv' /\ [Due]_vars
    OBVIOUS
  <2>1. ASSUME NEW p \in Signals, NEW v \in Value, Set(p, v)
        PROVE  TypeInv' /\ SettledInv' /\ [Due]_vars
    <3>1. obj' = obj /\ time' = time
      BY <2>1 DEF Set
    <3>2. Due
      BY <3>1
    <3> QED
      BY <2>1, <3>1, <3>2, SetType DEF SettledInv
  <2>2. ASSUME NEW run \in Runs, Step(run)
        PROVE  TypeInv' /\ SettledInv' /\ [Due]_vars
    <3>1. TypeInv' /\ SettledInv'
      BY <2>2, StepType, StepSettled
    <3>2. ASSUME NEW p \in Signals, IsLpdu(p), bus'[p] # <<>>, bus'[p] # bus[p] \/ p \in Sent
          PROVE  IsDue(p, time, epoch')
      <4>1. CASE Table[p].interval = 0
        BY <4>1 DEF IsDue
      <4>2. CASE Table[p].interval # 0
        <5>1. p \in Scheduled
          BY <3>2, <4>2 DEF Scheduled
        <5> QED
          BY <2>2, <3>2, <5>1, StepSettled
      <4> QED
        BY <4>1, <4>2
    <3>3. Due
      BY <3>2
    <3> QED
      BY <3>1, <3>3
  <2>3. CASE UNCHANGED vars
    BY <2>3 DEF vars, TypeInv, ContainerFits, SettledInv
  <2> QED
    BY <2>1, <2>2, <2>3 DEF Next
<1> QED
  BY <1>1, <1>2, PTL DEF Spec, SentWhenDue

(***************************************************************************)
(* What is on its way to the receiver.                                     *)
(***************************************************************************)

\* The L-PDU that carries a PDU.
CarrierOf(p) == IF IsLpdu(p) THEN p ELSE ContainerOf[p]

\* What the receiver has of a PDU after its carrier was received.
Taken(p, old, frame) ==
  IF IsLpdu(p) THEN frame
  ELSE LET found == IF Table[ContainerOf[p]].header # "Static"
                    THEN {e \in ToSet(frame.val) : e.id = Table[p].id} ELSE {}
       IN  IF found = {} THEN old ELSE (CHOOSE e \in found : TRUE).payload

LEMMA ReceiveIs ==
  ASSUME NEW r, NEW S \in SUBSET Pdu, NEW b, NEW p \in Pdu
  PROVE  Receive(r, [q \in S |-> Head(b[q])])[p]
           = IF CarrierOf(p) \in S THEN Taken(p, r[p], Head(b[CarrierOf(p)])) ELSE r[p]
<1> DEFINE frames == [q \in S |-> Head(b[q])]
<1>1. DOMAIN frames = S /\ \A q \in S : frames[q] = Head(b[q])
  OBVIOUS
<1>2. CASE IsLpdu(p)
  <2>1. Receive(r, frames)[p] = IF p \in DOMAIN frames THEN frames[p] ELSE r[p]
    BY <1>2 DEF Receive
  <2> HIDE DEF frames
  <2>2. CarrierOf(p) = p /\ \A x : Taken(p, r[p], x) = x
    BY <1>2 DEF CarrierOf, Taken
  <2>3. Receive(r, frames)[p] = IF CarrierOf(p) \in S THEN Taken(p, r[p], Head(b[CarrierOf(p)])) ELSE r[p]
    BY <1>1, <2>1, <2>2
  <2> QED
    BY <2>3 DEF frames
<1>3. CASE ~IsLpdu(p)
  <2> DEFINE c == ContainerOf[p]
             found == IF c \in DOMAIN frames /\ Table[c].header # "Static"
                      THEN {e \in ToSet(frames[c].val) : e.id = Table[p].id} ELSE {}
  <2>1. Receive(r, frames)[p] = IF found = {} THEN r[p] ELSE (CHOOSE e \in found : TRUE).payload
    BY <1>3 DEF Receive
  <2>2. CarrierOf(p) = c
    BY <1>3 DEF CarrierOf
  <2> HIDE DEF frames
  <2>3. CASE c \notin S
    <3>1. found = {}
      BY <1>1, <2>3
    <3>2. Receive(r, frames)[p] = r[p]
      BY <2>1, <3>1
    <3> QED
      BY <2>2, <2>3, <3>2 DEF frames
  <2>4. CASE c \in S
    <3>1. found = IF Table[c].header # "Static"
                  THEN {e \in ToSet(Head(b[c]).val) : e.id = Table[p].id} ELSE {}
      BY <1>1, <2>4
    <3> HIDE DEF found
    <3>2. Taken(p, r[p], Head(b[c])) = IF found = {} THEN r[p] ELSE (CHOOSE e \in found : TRUE).payload
      BY <1>3, <3>1 DEF Taken
    <3>3. Receive(r, frames)[p] = Taken(p, r[p], Head(b[c]))
      BY <2>1, <3>2
    <3> QED
      BY <2>2, <2>4, <3>3 DEF frames
  <2> QED
    BY <2>3, <2>4
<1> QED
  BY <1>2, <1>3

LEMMA CarrierIs ==
  ASSUME NEW p \in Pdu
  PROVE  CarrierOf(p) \in Pdu /\ IsLpdu(CarrierOf(p))
BY ContainerOfIs, KindsOf DEF CarrierOf, Containers

LEMMA AheadIs ==
  ASSUME NEW p \in Pdu
  PROVE  Ahead[p] = IF bus[CarrierOf(p)] # <<>>
                    THEN Taken(p, rx[p], Head(bus[CarrierOf(p)])) ELSE rx[p]
<1> DEFINE S == {q \in Pdu : bus[q] # <<>>}
<1>1. S \in SUBSET Pdu /\ (CarrierOf(p) \in S <=> bus[CarrierOf(p)] # <<>>)
  BY CarrierIs
<1>2. Ahead = Receive(rx, [q \in S |-> Head(bus[q])])
  BY DEF Ahead
<1> HIDE DEF S
<1> QED
  BY <1>1, <1>2, ReceiveIs

LEMMA AheadNext ==
  ASSUME NEW p \in Pdu
  PROVE  Ahead'[p] = IF bus'[CarrierOf(p)] # <<>>
                     THEN Taken(p, rx'[p], Head(bus'[CarrierOf(p)])) ELSE rx'[p]
<1> DEFINE S == {q \in Pdu : bus'[q] # <<>>}
           b == bus'
           r == rx'
<1>1. S \in SUBSET Pdu /\ (CarrierOf(p) \in S <=> b[CarrierOf(p)] # <<>>)
  BY CarrierIs
<1>2. Ahead' = Receive(r, [q \in S |-> Head(b[q])])
  BY DEF Ahead
<1> HIDE DEF S, b, r
<1>3. Ahead'[p] = IF b[CarrierOf(p)] # <<>>
                  THEN Taken(p, r[p], Head(b[CarrierOf(p)])) ELSE r[p]
  BY <1>1, <1>2, ReceiveIs
<1> QED
  BY <1>3 DEF b, r

\* What is ahead of the receiver changes when a carrier is written.
LEMMA AheadInStep ==
  ASSUME NEW run \in Runs, Step(run), NEW p \in Pdu, NEW ready,
         bus' = [q \in Pdu |-> IF q \in Written(ready) THEN <<ready[q].payload>>
                               ELSE IF q \in Sent THEN <<>> ELSE bus[q]]
  PROVE  /\ CarrierOf(p) \notin Written(ready) => Ahead'[p] = Ahead[p]
         /\ CarrierOf(p) \in Written(ready) =>
              /\ Ahead'[p] = Taken(p, rx'[p], ready[CarrierOf(p)].payload)
              /\ bus[CarrierOf(p)] = <<>> \/ CarrierOf(p) \in Sent => rx'[p] = Ahead[p]
<1> DEFINE c == CarrierOf(p)
<1>1. c \in Pdu
  BY CarrierIs
<1>2. rx'[p] = IF c \in Sent THEN Taken(p, rx[p], Head(bus[c])) ELSE rx[p]
  <2>1. Sent \in SUBSET Pdu
    BY DEF Sent
  <2>2. rx' = Receive(rx, [q \in Sent |-> Head(bus[q])])
    BY DEF Step
  <2>3. Receive(rx, [q \in Sent |-> Head(bus[q])])[p]
          = IF c \in Sent THEN Taken(p, rx[p], Head(bus[c])) ELSE rx[p]
    BY <2>1, ReceiveIs
  <2> QED
    BY <2>2, <2>3
<1>3. c \in Sent => bus[c] # <<>>
  BY DEF Sent
<1>4. bus'[c] = IF c \in Written(ready) THEN <<ready[c].payload>>
                ELSE IF c \in Sent THEN <<>> ELSE bus[c]
  BY <1>1
<1>5. /\ Ahead[p] = IF bus[c] # <<>> THEN Taken(p, rx[p], Head(bus[c])) ELSE rx[p]
      /\ Ahead'[p] = IF bus'[c] # <<>> THEN Taken(p, rx'[p], Head(bus'[c])) ELSE rx'[p]
  BY AheadIs, AheadNext
<1> HIDE DEF c
<1>6. CASE c \notin Written(ready)
  BY <1>2, <1>3, <1>4, <1>5, <1>6 DEF c
<1>7. CASE c \in Written(ready)
  <2>1. bus'[c] # <<>> /\ Head(bus'[c]) = ready[c].payload
    BY <1>4, <1>7
  <2>2. Ahead'[p] = Taken(p, rx'[p], ready[c].payload)
    BY <1>5, <2>1
  <2>3. bus[c] = <<>> \/ c \in Sent => rx'[p] = Ahead[p]
    BY <1>2, <1>3, <1>5
  <2> QED
    BY <1>7, <2>2, <2>3 DEF c
<1> QED
  BY <1>6, <1>7

(***************************************************************************)
(* Changes that are marked.                                                *)
(***************************************************************************)

\* The receiver has, or gets, what the checksum of a PDU is of.
Marked(p) == obj[p].checksum = Forced \/ Ahead[p].val = obj[p].checksum[1]

MarkedInv == \A p \in Signals : Marked(p)

\* L-PDUs are not marked as to be sent between the steps.
ClearInv == \A p \in Pdu : IsLpdu(p) => ~obj[p].needs_tx

LEMMA ClearNext ==
  ASSUME NEW o, obj' = LpduTx(o)
  PROVE  ClearInv'
<1> SUFFICES ASSUME NEW p \in Pdu, IsLpdu(p) PROVE ~obj'[p].needs_tx
  BY DEF ClearInv
<1>1. obj'[p] = [o[p] EXCEPT !.needs_tx = FALSE]
  BY DEF LpduTx
<1> QED
  BY <1>1

LEMMA InitMarked ==
  ASSUME Init
  PROVE  MarkedInv /\ ClearInv
<1>1. ClearInv
  BY DEF Init, ClearInv
<1>2. ASSUME NEW p \in Signals PROVE Marked(p)
  <2>1. p \in Pdu /\ ~IsContainer(p)
    BY KindsOf DEF Signals
  <2>2. obj[p].checksum = <<0, 0>> /\ rx[p].val = 0
    BY <2>1 DEF Init, ZeroPayload, Checksum
  <2>3. bus[CarrierOf(p)] = <<>>
    BY <2>1, CarrierIs DEF Init
  <2>4. Ahead[p] = rx[p]
    BY <2>1, <2>3, AheadIs
  <2> QED
    BY <2>2, <2>4 DEF Marked
<1> QED
  BY <1>1, <1>2 DEF MarkedInv

LEMMA MarkedIsNotForgotten ==
  ASSUME MarkedInv
  PROVE  NothingForgotten
<1> SUFFICES ASSUME NEW p \in Signals, obj[p].checksum = Checksum(obj[p].payload)
             PROVE  Ahead[p].val = obj[p].payload.val
  BY DEF NothingForgotten
<1>1. Checksum(obj[p].payload) # Forced /\ Checksum(obj[p].payload)[1] = obj[p].payload.val
  BY DEF Checksum, Forced
<1> QED
  BY <1>1 DEF MarkedInv, Marked

\* The checksum of a PDU before its container is filled.
LEMMA ChecksumIs ==
  ASSUME TypeInv, NEW p \in Signals, NEW run \in Runs
  PROVE  LET n == Changed(obj, sig, time, EpochShift, run)[p] IN
         /\ IsLpdu(p) => \/ n.checksum \in {obj[p].checksum, Forced}
                         \/ /\ n.checksum # Forced /\ n.checksum[1] = n.payload.val
                            /\ NoneRejected => n.needs_tx
         /\ IsLpdu(p) /\ n.needs_tx => n.checksum # Forced /\ n.checksum[1] = n.payload.val
         /\ ~IsLpdu(p) => n.checksum \in {obj[p].checksum, Forced}
<1> DEFINE t == time
           e == EpochShift
           u == Schedule(obj[p], p, t, e)
           v == Encode(u, p, sig, t, e)
           n == NeedsTx(v, p, run)
           sum == Checksum(v.payload)
           w == [v EXCEPT !.needs_tx = TRUE, !.checksum = sum]
           y == [v EXCEPT !.needs_tx = TRUE]
           z == [v EXCEPT !.needs_tx = FALSE]
<1>1. p \in Pdu /\ ~IsContainer(p)
  BY KindsOf DEF Signals
<1>2. Changed(obj, sig, time, EpochShift, run)[p] = n
  BY <1>1 DEF Changed
<1>3. obj[p] \in Object(p) /\ sig[p] \in Value
  BY <1>1 DEF TypeInv, Objects
<1> HIDE DEF e, t
<1>4. u \in Object(p) /\ u.checksum \in {obj[p].checksum, Forced}
  BY <1>1, <1>3, ScheduleIs
<1> HIDE DEF u
<1>5. v \in Object(p) /\ v.checksum = u.checksum
  BY <1>1, <1>3, <1>4, EncodeIs
<1> HIDE DEF v
<1>6. sum # Forced /\ sum[1] = v.payload.val /\ sum \in Sum(p)
  BY <1>1, <1>5, SumOf
<1>7. run[p] \in [accepted : BOOLEAN, ext : Bits] /\ (Table[p].runs # {} => run[p] \in Table[p].runs)
  BY <1>1, RunIs
<1>8. n = IF sum = v.checksum THEN z ELSE IF IsLpdu(p) THEN CallTxFunc(w, p, run[p]) ELSE y
  BY DEF NeedsTx
<1> HIDE DEF sum, n
<1>9. /\ w = Obj(v.payload, sum, TRUE) /\ y = Obj(v.payload, v.checksum, TRUE)
      /\ z = Obj(v.payload, v.checksum, FALSE)
  <2>1. w = Obj(v.payload, sum, TRUE)
    BY <1>5, ExceptBoth
  <2>2. y = Obj(v.payload, v.checksum, TRUE)
    BY <1>5, ExceptOne
  <2>3. z = Obj(v.payload, v.checksum, FALSE)
    BY <1>5, ExceptOne
  <2> QED
    BY <2>1, <2>2, <2>3
<1> HIDE DEF w, y, z
<1>10. /\ w.payload = v.payload /\ w.checksum = sum /\ w.needs_tx
       /\ y.checksum = v.checksum /\ z.checksum = v.checksum /\ ~z.needs_tx
  BY <1>9 DEF Obj
<1>11. CASE sum = v.checksum
  BY <1>2, <1>4, <1>5, <1>8, <1>10, <1>11
<1>12. CASE sum # v.checksum /\ ~IsLpdu(p)
  BY <1>2, <1>4, <1>5, <1>8, <1>10, <1>12
<1>13. CASE sum # v.checksum /\ IsLpdu(p)
  <2>1. n = CallTxFunc(w, p, run[p])
    BY <1>8, <1>13
  <2>2. w \in Object(p)
    <3>1. v.payload \in Payload(p)
      BY <1>5 DEF Object
    <3>2. Obj(v.payload, sum, TRUE) \in Object(p)
      BY <1>6, <3>1, ObjectOf
    <3> QED
      BY <1>9, <3>2
  <2>3. n.payload.val = v.payload.val /\ n.checksum = sum
    BY <1>1, <1>7, <1>10, <2>1, <2>2, CallIs
  <2>4. ASSUME NoneRejected PROVE n.needs_tx
    <3>1. CASE Table[p].runs = {}
      BY <1>10, <2>1, <3>1 DEF CallTxFunc
    <3>2. CASE Table[p].runs # {}
      <4>1. run[p].accepted
        BY <1>1, <1>7, <2>4, <3>2 DEF NoneRejected
      <4>2. n = [w EXCEPT !.payload.ext = run[p].ext, !.needs_tx = run[p].accepted]
        BY <1>10, <2>1, <3>2 DEF CallTxFunc
      <4>3. [w EXCEPT !.payload.ext = run[p].ext, !.needs_tx = run[p].accepted]
              = Obj([w.payload EXCEPT !.ext = run[p].ext], w.checksum, run[p].accepted)
        BY <2>2, ExceptCalled
      <4> QED
        BY <4>1, <4>2, <4>3 DEF Obj
    <3> QED
      BY <3>1, <3>2
  <2> QED
    BY <1>2, <1>6, <1>13, <2>3, <2>4
<1> QED
  BY <1>11, <1>12, <1>13

\* The payload of a container on the bus is sent before the container is filled again.
NoneOverwritten ==
  \A c \in Containers : IPdusOf(c) # {} /\ IsDue(c, time, EpochShift) /\ bus[c] # <<>> => c \in Sent

\* I-PDUs are found in their containers by their ids.
EntriesHaveIds == \A c \in Containers : IPdusOf(c) # {} => Table[c].header # "Static"

LEMMA StepMarked ==
  ASSUME NoneRejected, EntriesHaveIds, NoneOverwritten,
         TypeInv, ClearInv, MarkedInv, NEW run \in Runs, Step(run)
  PROVE  MarkedInv' /\ ClearInv'
<1> DEFINE changed == Changed(obj, sig, time, EpochShift, run)
           ready == MapContainers(changed, run)
<1>1. /\ changed \in Objects /\ IsReady(ready, changed) /\ obj' = LpduTx(ready)
      /\ bus' = [p \in Pdu |-> IF p \in Written(ready) THEN <<ready[p].payload>>
                               ELSE IF p \in Sent THEN <<>> ELSE bus[p]]
  BY StepIs
<1>2. ASSUME NEW p \in Signals
      PROVE  /\ IsLpdu(p) => \/ changed[p].checksum \in {obj[p].checksum, Forced}
                             \/ /\ changed[p].checksum # Forced
                                /\ changed[p].checksum[1] = changed[p].payload.val
                                /\ changed[p].needs_tx
             /\ IsLpdu(p) /\ changed[p].needs_tx =>
                  changed[p].checksum # Forced /\ changed[p].checksum[1] = changed[p].payload.val
             /\ ~IsLpdu(p) => changed[p].checksum \in {obj[p].checksum, Forced}
  BY ChecksumIs
<1>3. ASSUME NEW c \in Containers, changed[c].needs_tx PROVE IsDue(c, time, EpochShift)
  <2>1. c \in Pdu /\ IsContainer(c) /\ IsLpdu(c)
    BY KindsOf DEF Containers
  <2>2. changed[c] = Schedule(obj[c], c, time, EpochShift)
    BY <2>1 DEF Changed
  <2>3. obj[c] \in Object(c) /\ ~obj[c].needs_tx
    BY <2>1 DEF TypeInv, Objects, ClearInv
  <2>4. Schedule(obj[c], c, time, EpochShift) = [obj[c] EXCEPT !.needs_tx = @ \/ IsDue(c, time, EpochShift)]
    BY <2>1 DEF Schedule
  <2>5. changed[c].needs_tx = (obj[c].needs_tx \/ IsDue(c, time, EpochShift))
    BY <2>2, <2>3, <2>4 DEF Object
  <2> QED
    BY <1>3, <2>3, <2>5
<1> HIDE DEF changed, ready
<1>4. /\ ready \in Objects
      /\ \A p \in Pdu : obj'[p].payload = ready[p].payload /\ obj'[p].checksum = ready[p].checksum
  BY <1>1, LpduTxIs DEF IsReady
<1>5. ClearInv'
  BY <1>1, ClearNext
<1>6. ASSUME NEW p \in Signals PROVE Marked(p)'
  <2> DEFINE c == CarrierOf(p)
  <2>1. p \in Pdu /\ ~IsContainer(p) /\ Marked(p)
    BY KindsOf DEF Signals, MarkedInv
  <2>2. /\ c \notin Written(ready) => Ahead'[p] = Ahead[p]
        /\ c \in Written(ready) =>
             /\ Ahead'[p] = Taken(p, rx'[p], ready[c].payload)
             /\ bus[c] = <<>> \/ c \in Sent => rx'[p] = Ahead[p]
    BY <1>1, <2>1, AheadInStep
  <2>3. obj'[p].checksum = ready[p].checksum
    BY <1>4, <2>1
  <2>4. SUFFICES ASSUME ready[p].checksum # Forced PROVE Ahead'[p].val = ready[p].checksum[1]
    BY <2>3 DEF Marked
  <2>5. ASSUME ready[p].checksum = obj[p].checksum PROVE Ahead[p].val = ready[p].checksum[1]
    BY <2>1, <2>4, <2>5 DEF Marked
  <2>6. CASE IsLpdu(p)
    <3>1. c = p /\ \A x, y : Taken(p, x, y) = y
      BY <2>6 DEF CarrierOf, Taken
    <3>2. ready[p] = changed[p]
      BY <1>1, <2>6 DEF IsReady
    <3>3. CASE changed[p].needs_tx
      <4>1. p \in Written(ready)
        BY <2>1, <2>6, <3>2, <3>3 DEF Written
      <4> QED
        BY <1>2, <2>2, <2>6, <3>1, <3>2, <3>3, <4>1
    <3>4. CASE ~changed[p].needs_tx
      <4>1. p \notin Written(ready)
        BY <3>2, <3>4 DEF Written
      <4>2. changed[p].checksum \in {obj[p].checksum, Forced}
        BY <1>2, <2>6, <3>4
      <4> QED
        BY <2>2, <2>4, <2>5, <3>1, <3>2, <4>1, <4>2
    <3> QED
      BY <3>3, <3>4
  <2>7. CASE ~IsLpdu(p)
    <3>1. /\ c = ContainerOf[p] /\ c \in Containers /\ p \in IPdusOf(c) /\ p \in IPdus
          /\ c \in Pdu /\ IsLpdu(c)
      BY <2>1, <2>7, CarrierIs, ContainerOfIs, KindsOf DEF CarrierOf
    <3>2. changed[p].checksum \in {obj[p].checksum, Forced}
      BY <1>2, <2>7
    <3> HIDE DEF c
    <3>3. CASE ~changed[c].needs_tx
      <4>1. ready[p] = changed[p] /\ ready[c] = changed[c]
        BY <1>1, <3>1, <3>3 DEF IsReady
      <4>2. c \notin Written(ready)
        BY <3>3, <4>1 DEF Written
      <4> QED
        BY <2>2, <2>4, <2>5, <3>2, <4>1, <4>2
    <3>4. CASE changed[c].needs_tx
      <4> DEFINE val == ready[c].payload.val
      <4>1. /\ NoneRejected /\ val # <<>> => ready[c].needs_tx
            /\ \A k \in DOMAIN val : val[k].id = Table[p].id =>
                 /\ val[k].payload.val = changed[p].payload.val
                 /\ ready[p].checksum = Checksum(changed[p].payload)
            /\ NoneRejected => \/ ready[p].checksum \in {changed[p].checksum, Forced}
                               \/ \E k \in DOMAIN val : val[k].id = Table[p].id
        BY <1>1, <2>1, <3>1, <3>4 DEF IsReady
      <4>2. val \in Seq(Entry)
        <5>1. IsContainer(c) /\ ready[c] \in Object(c)
          BY <1>4, <3>1, KindsOf DEF Objects
        <5>2. ready[c].payload \in [val : Seq(Entry), ext : Bits]
          BY <3>1, <5>1, PayloadIs DEF Object
        <5> QED
          BY <5>2
      <4> DEFINE found == {e \in ToSet(val) : e.id = Table[p].id}
      <4>3. Taken(p, rx'[p], ready[c].payload) =
              IF found = {} THEN rx'[p] ELSE (CHOOSE e \in found : TRUE).payload
        <5>1. Table[ContainerOf[p]].header # "Static"
          BY <3>1 DEF EntriesHaveIds
        <5> QED
          BY <2>7, <5>1 DEF Taken
      <4>4. \A e \in found : \E k \in DOMAIN val : e = val[k] /\ val[k].id = Table[p].id
        BY DEF ToSet
      <4>5. \A k \in DOMAIN val : val[k].id = Table[p].id => val[k] \in found
        BY DEF ToSet
      <4> HIDE DEF val, found
      <4>6. CASE found # {}
        <5>1. PICK k \in DOMAIN val : val[k].id = Table[p].id
          BY <4>4, <4>6
        <5>2. val # <<>>
          BY <5>1
        <5>3. c \in Written(ready)
          BY <3>1, <4>1, <5>2 DEF Written
        <5>4. (CHOOSE e \in found : TRUE).payload.val = changed[p].payload.val
          BY <4>1, <4>4, <4>6
        <5>5. ready[p].checksum[1] = changed[p].payload.val
          BY <4>1, <5>1 DEF Checksum
        <5> QED
          BY <2>2, <4>3, <4>6, <5>3, <5>4, <5>5
      <4>7. CASE found = {}
        <5>1. ready[p].checksum = obj[p].checksum
          BY <2>4, <3>2, <4>1, <4>5, <4>7
        <5>2. bus[c] = <<>> \/ c \in Sent
          <6>1. IsDue(c, time, EpochShift)
            BY <1>3, <3>1, <3>4
          <6> QED
            BY <3>1, <6>1 DEF NoneOverwritten
        <5> QED
          BY <2>2, <2>5, <4>3, <4>7, <5>1, <5>2
      <4> QED
        BY <4>6, <4>7
    <3> QED
      BY <3>3, <3>4
  <2> QED
    BY <2>6, <2>7
<1> QED
  BY <1>5, <1>6 DEF MarkedInv

LEMMA SetMarked ==
  ASSUME MarkedInv, ClearInv, NEW p \in Signals, NEW v \in Value, Set(p, v)
  PROVE  MarkedInv' /\ ClearInv'
<1>1. obj' = obj /\ rx' = rx /\ bus' = bus
  BY DEF Set
<1> QED
  BY <1>1 DEF MarkedInv, ClearInv, Marked, Ahead

(***************************************************************************)
(* Arithmetic.                                                             *)
(***************************************************************************)
LEMMA ProductMonotone ==
  ASSUME NEW m \in Nat, NEW a \in Int, NEW b \in Int, a <= b
  PROVE  m * a <= m * b
OBVIOUS

\* A division with remainder is the only one.
LEMMA Remainders ==
  ASSUME NEW m \in Nat \ {0}, NEW q \in Int, NEW r \in 0 .. m - 1
  PROVE  (m * q + r) % m = r
<1> DEFINE a == m * q + r
           p == a \div m
           s == a % m
<1>1. a \in Int /\ m * q \in Int
  OBVIOUS
<1> HIDE DEF a
<1>2. a = m * p + s /\ s \in 0 .. m - 1 /\ p \in Int
  BY <1>1
<1> HIDE DEF p, s
<1>3. m * q + r = m * p + s
  BY <1>2 DEF a
<1>4. ~(q < p)
  <2>1. SUFFICES ASSUME q + 1 <= p PROVE FALSE
    BY <1>2
  <2>2. m * (q + 1) <= m * p /\ m * (q + 1) = m * q + m
    BY <1>2, <2>1, ProductMonotone
  <2> QED
    BY <1>1, <1>2, <1>3, <2>2
<1>5. ~(p < q)
  <2>1. SUFFICES ASSUME p + 1 <= q PROVE FALSE
    BY <1>2
  <2>2. m * (p + 1) <= m * q /\ m * (p + 1) = m * p + m
    BY <1>2, <2>1, ProductMonotone
  <2> QED
    BY <1>1, <1>2, <1>3, <2>2
<1>6. p = q
  BY <1>2, <1>4, <1>5
<1>7. s = r
  BY <1>1, <1>2, <1>3, <1>6
<1> QED
  BY <1>7 DEF s, a

LEMMA DividedIs ==
  ASSUME NEW m \in Nat \ {0}, NEW a \in Int
  PROVE  \E q \in Int : a = m * q + (a % m) /\ a % m \in 0 .. m - 1
<1>1. a = m * (a \div m) + (a % m) /\ a % m \in 0 .. m - 1 /\ a \div m \in Int
  OBVIOUS
<1> QED
  BY <1>1

LEMMA SmallRemainder ==
  ASSUME NEW m \in Nat \ {0}, NEW a \in 0 .. m - 1
  PROVE  a % m = a
<1>1. (m * 0 + a) % m = a
  BY Remainders
<1> QED
  BY <1>1

\* The next position in a cycle.
LEMMA NextRemainder ==
  ASSUME NEW m \in Nat \ {0}, NEW a \in Int
  PROVE  (a + 1) % m = IF a % m = m - 1 THEN 0 ELSE (a % m) + 1
<1> DEFINE r == a % m
<1>1. PICK q \in Int : a = m * q + r /\ r \in 0 .. m - 1
  BY DividedIs
<1> HIDE DEF r
<1>2. CASE r = m - 1
  <2>1. m * (q + 1) = m * q + m
    OBVIOUS
  <2>2. a + 1 = m * (q + 1) + 0
    BY <1>1, <1>2, <2>1
  <2>3. (m * (q + 1) + 0) % m = 0
    BY Remainders
  <2> QED
    BY <1>2, <2>2, <2>3 DEF r
<1>3. CASE r # m - 1
  <2>1. r + 1 \in 0 .. m - 1 /\ a + 1 = m * q + (r + 1)
    BY <1>1, <1>3
  <2>2. (m * q + (r + 1)) % m = r + 1
    BY <2>1, Remainders
  <2> QED
    BY <1>3, <2>1, <2>2 DEF r
<1> QED
  BY <1>2, <1>3

\* Multiples do not change the position.
LEMMA SameRemainder ==
  ASSUME NEW m \in Nat \ {0}, NEW a \in Int, NEW x \in Int, x % m = 0
  PROVE  (a + x) % m = a % m
<1> DEFINE r == a % m
<1>1. PICK q \in Int : a = m * q + r /\ r \in 0 .. m - 1
  BY DividedIs
<1> HIDE DEF r
<1>2. PICK h \in Int : x = m * h + (x % m)
  BY DividedIs
<1>3. m * (q + h) = m * q + m * h
  OBVIOUS
<1>4. a + x = m * (q + h) + r
  BY <1>1, <1>2, <1>3
<1>5. (m * (q + h) + r) % m = r
  BY <1>1, Remainders
<1> QED
  BY <1>4, <1>5 DEF r

LEMMA MultipleOfMultiple ==
  ASSUME NEW m \in Nat \ {0}, NEW k \in Nat \ {0}, NEW x \in Int, k % m = 0, x % k = 0
  PROVE  x % m = 0
<1>0. k \in Int
  OBVIOUS
<1>1. PICK q \in Int : k = m * q + (k % m)
  BY <1>0, DividedIs
<1>2. PICK h \in Int : x = k * h + (x % k)
  BY DividedIs
<1>3. k = m * q /\ x = k * h
  BY <1>1, <1>2
<1>4. (m * q) * h = m * (q * h) /\ q * h \in Int
  OBVIOUS
<1>5. x = m * (q * h) + 0
  BY <1>3, <1>4
<1>6. (m * (q * h) + 0) % m = 0
  BY <1>4, Remainders
<1> QED
  BY <1>5, <1>6

LEMMA MultipleIsNotSmaller ==
  ASSUME NEW m \in Nat \ {0}, NEW k \in Nat \ {0}, k % m = 0
  PROVE  m <= k
<1>1. SUFFICES ASSUME k < m PROVE FALSE
  OBVIOUS
<1>2. k % m = k
  BY <1>1, SmallRemainder
<1> QED
  BY <1>2

(***************************************************************************)
(* The schedule of containers and the slots in which they are sent.        *)
(***************************************************************************)

Carriers == {c \in Containers : IPdusOf(c) # {}}

\* A container that carries I-PDUs is filled at most once in a cycle of the bus;
\* its first filling is not in the step of its slot, if it has a phase.
SlotsSuffice ==
  \A c \in Carriers :
    \/ CycleTime = 1
    \/ /\ Table[c].interval # 0 /\ Table[c].interval % CycleTime = 0
       /\ PhaseOf(c) # SlotStep[c] \/ PhaseOf(c) = 0

\* The step of the cycle in which a container is filled.
FillStep(c) == (CycleTime - 1 + PhaseOf(c)) % CycleTime

\* The steps since the last step k of the cycle.
Since(k, x) == IF x > k THEN x - k - 1 ELSE x + CycleTime - k - 1

\* What is on the bus of a container is sent before the container is filled again.
HeldInTime(c) ==
  /\ time <= PhaseOf(c) => bus[c] = <<>>
  /\ bus[c] # <<>> =>
       \/ Since(FillStep(c), time % CycleTime) <= Since(FillStep(c), SlotStep[c])
       \/ SlotStep[c] = 0 /\ PhaseOf(c) = 0 /\ time <= CycleTime

TimingInv ==
  /\ origin = 0
  /\ epoch = IF time <= CycleTime THEN 0 ELSE CycleTime - 1
  /\ CycleTime # 1 => \A c \in Carriers : HeldInTime(c)

LEMMA TimeFacts ==
  ASSUME TypeInv
  PROVE  /\ time \in Nat /\ time < Horizon /\ CycleTime \in Nat \ {0}
         /\ Horizon \in Nat /\ Period \in Nat \ {0} /\ Horizon - Period > CycleTime
         /\ Period % CycleTime = 0
BY NetworkAssumption DEF TypeInv

LEMMA EpochIs ==
  ASSUME TypeInv, TimingInv
  PROVE  EpochShift = IF time < CycleTime THEN 0 ELSE CycleTime - 1
<1> DEFINE T == CycleTime
<1>1. time \in Nat /\ T \in Nat \ {0}
  BY TimeFacts
<1>2. EpochShift = IF time % T = 0 THEN Previous % T ELSE epoch
  BY <1>1 DEF EpochShift, AtCycleStep, NotSynced, TimingInv
<1>3. time < T => time % T = time
  BY <1>1, SmallRemainder
<1>4. CASE time = 0
  <2>1. Previous = 0 /\ 0 % T = 0
    BY <1>1, <1>4, SmallRemainder DEF Previous
  <2> QED
    BY <1>1, <1>2, <1>4, <2>1
<1>5. CASE time # 0 /\ time % T = 0
  <2>1. Previous = time - 1
    BY <1>5 DEF Previous
  <2>2. time - 1 \in Int /\ (time - 1) + 1 = time /\ (time - 1) % T \in 0 .. T - 1
    BY <1>1, RemainderIs
  <2>3. time % T = IF (time - 1) % T = T - 1 THEN 0 ELSE ((time - 1) % T) + 1
    <3>1. ((time - 1) + 1) % T = IF (time - 1) % T = T - 1 THEN 0 ELSE ((time - 1) % T) + 1
      BY <1>1, <2>2, NextRemainder
    <3> QED
      BY <2>2, <3>1
  <2>4. (time - 1) % T = T - 1
    BY <1>5, <2>2, <2>3
  <2>5. time >= T
    BY <1>1, <1>3, <1>5
  <2> QED
    BY <1>1, <1>2, <1>5, <2>1, <2>4, <2>5
<1>6. CASE time % T # 0
  <2>1. T % T = 0
    <3>1. (T * 1 + 0) % T = 0
      BY <1>1, Remainders
    <3> QED
      BY <1>1, <3>1
  <2>2. time # T
    BY <1>6, <2>1
  <2> QED
    BY <1>1, <1>2, <1>6, <2>2 DEF TimingInv
<1> QED
  BY <1>4, <1>5, <1>6

LEMMA PhaseIs ==
  ASSUME NEW p \in Pdu
  PROVE  /\ PhaseOf(p) \in Nat
         /\ Table[p].interval = 0 => PhaseOf(p) = 0
         /\ Table[p].interval # 0 => PhaseOf(p) < 2 * Table[p].interval
<1> DEFINE k == Table[p].interval
           f == Table[p].phase
<1>1. k \in Nat /\ f \in Int
  BY TableIs
<1>2. PhaseOf(p) = IF ~Table[p].phased \/ k = 0 THEN 0 ELSE IF f > 0 THEN k + (f % k) ELSE k - ((-f) % k)
  BY DEF PhaseOf
<1> HIDE DEF k, f
<1>3. ASSUME k # 0 PROVE f % k \in 0 .. k - 1 /\ (-f) % k \in 0 .. k - 1
  <2>1. f \in Int /\ -f \in Int /\ k \in Nat /\ k # 0
    BY <1>1, <1>3
  <2>2. f % k \in 0 .. k - 1
    BY <2>1, RemainderIs
  <2>3. (-f) % k \in 0 .. k - 1
    BY <2>1, RemainderIs
  <2> QED
    BY <2>2, <2>3
<1> QED
  BY <1>1, <1>2, <1>3 DEF k, f

\* What a carrier is when its bus has cycles of several steps.
LEMMA CarrierFacts ==
  ASSUME SlotsSuffice, CycleTime # 1, NEW c \in Carriers
  PROVE  /\ c \in Pdu /\ IsContainer(c) /\ IsLpdu(c)
         /\ CycleTime \in Nat /\ CycleTime >= 2
         /\ Table[c].interval \in Nat /\ Table[c].interval % CycleTime = 0
         /\ CycleTime <= Table[c].interval
         /\ PhaseOf(c) \in Nat /\ PhaseOf(c) < Horizon - Period
         /\ PhaseOf(c) # SlotStep[c] \/ PhaseOf(c) = 0
         /\ SlotStep[c] \in 0 .. CycleTime - 1
         /\ FillStep(c) \in 0 .. CycleTime - 1
         /\ PhaseOf(c) = 0 => FillStep(c) = CycleTime - 1
         /\ PhaseOf(c) # 0 /\ PhaseOf(c) < CycleTime => FillStep(c) = PhaseOf(c) - 1
<1> DEFINE T == CycleTime
           k == Table[c].interval
           f == PhaseOf(c)
<1>1. c \in Pdu /\ IsContainer(c) /\ IsLpdu(c) /\ c \in Containers
  BY KindsOf DEF Carriers, Containers
<1>2. T \in Nat /\ T >= 2
  BY NetworkAssumption
<1>3. /\ k \in Nat /\ k # 0 /\ k % T = 0
      /\ f # SlotStep[c] \/ f = 0
  BY <1>1, TableIs DEF SlotsSuffice
<1>4. T <= k
  BY <1>2, <1>3, MultipleIsNotSmaller
<1>5. f \in Nat /\ f < 2 * k
  BY <1>1, <1>3, PhaseIs
<1>6. Horizon - Period > T + 2 * k /\ Horizon \in Nat /\ Period \in Nat
  BY <1>1, <1>3, NetworkAssumption
<1>7. SlotStep[c] \in 0 .. T - 1
  BY <1>1, NetworkAssumption
<1>8. FillStep(c) = (T - 1 + f) % T
  BY DEF FillStep
<1> HIDE DEF T, k, f
<1>9. (T - 1 + f) % T \in 0 .. T - 1
  BY <1>2, <1>5, RemainderIs
<1>10. f = 0 => (T - 1 + f) % T = T - 1
  BY <1>2, SmallRemainder
<1>11. f # 0 /\ f < T => (T - 1 + f) % T = f - 1
  <2>1. SUFFICES ASSUME f # 0, f < T PROVE (T - 1 + f) % T = f - 1
    OBVIOUS
  <2>2. f - 1 \in 0 .. T - 1 /\ T - 1 + f = T * 1 + (f - 1)
    BY <1>2, <1>5, <2>1
  <2>3. (T * 1 + (f - 1)) % T = f - 1
    BY <1>2, <2>2, Remainders
  <2> QED
    BY <2>2, <2>3
<1>12. f < Horizon - Period
  BY <1>2, <1>3, <1>5, <1>6
<1> QED
  BY <1>1, <1>2, <1>3, <1>4, <1>5, <1>7, <1>8, <1>9, <1>10, <1>11, <1>12 DEF T, k, f

\* When a carrier is filled.
LEMMA DueIs ==
  ASSUME SlotsSuffice, CycleTime # 1, TypeInv, TimingInv, NEW c \in Carriers,
         IsDue(c, time, EpochShift)
  PROVE  /\ PhaseOf(c) <= time
         /\ time < CycleTime => time = PhaseOf(c)
         /\ time >= CycleTime => time % CycleTime = FillStep(c)
<1> DEFINE T == CycleTime
           k == Table[c].interval
           f == PhaseOf(c)
           base == EpochShift + f
<1>1. /\ T \in Nat /\ T >= 2 /\ k \in Nat /\ k % T = 0 /\ T <= k /\ f \in Nat
  BY CarrierFacts
<1>2. time \in Nat
  BY TimeFacts
<1>3. EpochShift = IF time < T THEN 0 ELSE T - 1
  BY EpochIs
<1>4. k # 0 /\ base <= time /\ (time - base) % k = 0
  <2>1. Table[c].interval # 0
    BY <1>1
  <2> QED
    BY <2>1 DEF IsDue, Fires
<1>5. f <= time
  BY <1>1, <1>2, <1>3, <1>4
<1>6. CASE time < T
  <2>1. base = f /\ time - f \in 0 .. k - 1
    BY <1>1, <1>2, <1>3, <1>5, <1>6
  <2>2. (time - f) % k = time - f
    BY <1>1, <1>4, <2>1, SmallRemainder
  <2>3. time - f = 0
    BY <1>4, <2>1, <2>2
  <2> QED
    BY <1>1, <1>2, <1>5, <1>6, <2>3
<1>7. CASE time >= T
  <2> DEFINE b == T - 1 + f
             x == time - b
  <2>1. base = b /\ b \in Nat /\ x \in Int /\ b + x = time
    BY <1>1, <1>2, <1>3, <1>7
  <2>2. x % k = 0
    BY <1>4, <2>1
  <2> HIDE DEF x, b
  <2>3. x % T = 0
    BY <1>1, <1>4, <2>1, <2>2, MultipleOfMultiple
  <2>4. (b + x) % T = b % T
    <3>1. T \in Nat \ {0} /\ b \in Int
      BY <1>1, <2>1
    <3> QED
      BY <2>1, <2>3, <3>1, SameRemainder
  <2>5. time % T = FillStep(c)
    BY <2>1, <2>4 DEF b, FillStep
  <2> QED
    BY <1>1, <1>2, <1>5, <1>7, <2>5
<1> QED
  BY <1>1, <1>2, <1>6, <1>7

\* A container is sent in the step of its slot.
LEMMA SentIs ==
  ASSUME TypeInv, TimingInv, NEW c \in Pdu
  PROVE  c \in Sent <=> bus[c] # <<>> /\ time % CycleTime = SlotStep[c]
<1>1. time - 0 = time
  BY TimeFacts
<1> QED
  BY <1>1 DEF Sent, AtCycleStep, TimingInv, NotSynced

LEMMA TimingIsNoneOverwritten ==
  ASSUME SlotsSuffice, TypeInv, TimingInv
  PROVE  NoneOverwritten
<1> SUFFICES ASSUME NEW c \in Carriers, IsDue(c, time, EpochShift), bus[c] # <<>> PROVE c \in Sent
  BY DEF NoneOverwritten, Carriers
<1>1. c \in Pdu
  BY DEF Carriers, Containers
<1>2. SUFFICES time % CycleTime = SlotStep[c]
  BY <1>1, SentIs
<1>3. CASE CycleTime = 1
  <2>1. SlotStep[c] = 0
    BY <1>1, <1>3, NetworkAssumption
  <2>2. time % CycleTime \in 0 .. CycleTime - 1
    BY TimesAre
  <2> QED
    BY <1>3, <2>1, <2>2
<1>4. CASE CycleTime # 1
  <2> DEFINE T == CycleTime
             r == FillStep(c)
             s == SlotStep[c]
  <2>1. /\ T \in Nat /\ T >= 2 /\ PhaseOf(c) \in Nat /\ r \in 0 .. T - 1 /\ s \in 0 .. T - 1
        /\ PhaseOf(c) = 0 => r = T - 1
    BY <1>4, CarrierFacts
  <2>2. /\ PhaseOf(c) <= time
        /\ time < T => time = PhaseOf(c)
        /\ time >= T => time % T = r
    BY <1>4, DueIs
  <2>3. /\ time <= PhaseOf(c) => bus[c] = <<>>
        /\ bus[c] # <<>> => \/ Since(r, time % T) <= Since(r, s)
                            \/ s = 0 /\ PhaseOf(c) = 0 /\ time <= T
    BY <1>4 DEF TimingInv, HeldInTime
  <2>4. time \in Nat
    BY TimeFacts
  <2>5. time >= T /\ time % T = r
    BY <2>1, <2>2, <2>3, <2>4
  <2>6. ~(s = 0 /\ PhaseOf(c) = 0 /\ time <= T)
    <3>1. SUFFICES ASSUME PhaseOf(c) = 0, time <= T PROVE FALSE
      OBVIOUS
    <3>2. time = T /\ r = T - 1
      BY <2>1, <2>4, <2>5, <3>1
    <3>3. (T * 1 + 0) % T = 0 /\ T * 1 + 0 = T
      BY <2>1, Remainders
    <3> QED
      BY <2>1, <2>5, <3>2, <3>3
  <2>7. Since(r, r) <= Since(r, s)
    BY <2>3, <2>5, <2>6
  <2> HIDE DEF r, s
  <2>8. r = s
    BY <2>1, <2>7 DEF Since
  <2> QED
    BY <2>5, <2>8 DEF s
<1> QED
  BY <1>3, <1>4

LEMMA InitTiming ==
  ASSUME InSync, Init
  PROVE  TimingInv
<1>1. origin = 0 /\ time = 0 /\ epoch = 0 /\ CycleTime \in Nat
  BY NetworkAssumption DEF Init
<1>2. ASSUME NEW c \in Carriers PROVE bus[c] = <<>>
  BY DEF Carriers, Containers, Init
<1> QED
  BY <1>1, <1>2 DEF TimingInv, HeldInTime

\* The position in the cycle of the next step.
LEMMA LaterIs ==
  ASSUME TypeInv
  PROVE  /\ Later \in Nat
         /\ Later % CycleTime = IF time % CycleTime = CycleTime - 1 THEN 0
                                ELSE (time % CycleTime) + 1
         /\ \/ Later = time + 1
            \/ Later = Horizon - Period /\ time >= CycleTime /\ Later <= time
<1>1. /\ time \in Nat /\ time < Horizon /\ CycleTime \in Nat \ {0} /\ Horizon \in Nat
      /\ Period \in Nat \ {0} /\ Horizon - Period > CycleTime /\ Period % CycleTime = 0
  BY TimeFacts
<1>2. (time + 1) % CycleTime = IF time % CycleTime = CycleTime - 1 THEN 0 ELSE (time % CycleTime) + 1
  <2>1. time \in Int
    BY <1>1
  <2> QED
    BY <1>1, <2>1, NextRemainder
<1>3. CASE time + 1 = Horizon
  <2>1. Later = Horizon - Period /\ Later \in Nat
    BY <1>1, <1>3 DEF Later
  <2>2. (Later + Period) % CycleTime = Later % CycleTime
    <3>1. Later \in Int /\ Period \in Int
      BY <1>1, <2>1
    <3> QED
      BY <1>1, <3>1, SameRemainder
  <2>3. Later + Period = time + 1
    BY <1>1, <1>3, <2>1
  <2> QED
    BY <1>1, <1>2, <1>3, <2>1, <2>2, <2>3
<1>4. CASE time + 1 # Horizon
  <2>1. Later = time + 1 /\ Later \in Nat
    BY <1>1, <1>4 DEF Later
  <2> QED
    BY <1>2, <2>1
<1> QED
  BY <1>3, <1>4

\* A carrier is filled: what it sends is on the bus in time.
LEMMA FilledInTime ==
  ASSUME SlotsSuffice, CycleTime # 1, TypeInv, TimingInv, NEW c \in Carriers,
         IsDue(c, time, EpochShift)
  PROVE  /\ Later > PhaseOf(c)
         /\ \/ Since(FillStep(c), Later % CycleTime) <= Since(FillStep(c), SlotStep[c])
            \/ SlotStep[c] = 0 /\ PhaseOf(c) = 0 /\ Later <= CycleTime
<1> DEFINE T == CycleTime
           r == FillStep(c)
           s == SlotStep[c]
           f == PhaseOf(c)
           u == time % T
           v == Later % T
<1>1. /\ T \in Nat /\ T >= 2 /\ f \in Nat /\ r \in 0 .. T - 1 /\ s \in 0 .. T - 1
      /\ f = 0 => r = T - 1
      /\ f # 0 /\ f < T => r = f - 1
      /\ f # s \/ f = 0
      /\ f < Horizon - Period
  BY CarrierFacts
<1>2. f <= time /\ (time < T => time = f) /\ (time >= T => u = r)
  BY DueIs
<1>3. /\ Later \in Nat /\ v = IF u = T - 1 THEN 0 ELSE u + 1
      /\ \/ Later = time + 1
         \/ Later = Horizon - Period /\ time >= T /\ Later <= time
  BY LaterIs
<1>4. time \in Nat /\ time < T => u = time
  BY <1>1, TimeFacts, SmallRemainder
<1>5. time \in Nat
  BY TimeFacts
<1> HIDE DEF T, r, s, f, u, v
<1>6. Later > f
  BY <1>1, <1>2, <1>3, <1>5
<1>7. CASE time >= T
  <2>1. Since(r, v) = 0
    BY <1>1, <1>2, <1>3, <1>7 DEF Since, T
  <2>2. Since(r, s) >= 0
    BY <1>1 DEF Since, T
  <2> QED
    BY <1>6, <2>1, <2>2 DEF T, r, s, f, v
<1>8. CASE time < T
  <2>1. time = f /\ u = time /\ Later = time + 1
    BY <1>1, <1>2, <1>3, <1>4, <1>5, <1>8
  <2>2. CASE f = 0
    <3>1. v = 1 /\ Later = 1 /\ r = T - 1
      BY <1>1, <1>3, <2>1, <2>2
    <3>2. Since(r, v) = 1 /\ Since(r, s) = s
      BY <1>1, <3>1 DEF Since, T
    <3>3. Since(r, v) <= Since(r, s) \/ (s = 0 /\ Later <= T)
      BY <1>1, <3>1, <3>2
    <3> QED
      BY <1>6, <2>2, <3>3 DEF T, r, s, f, v
  <2>3. CASE f # 0
    <3>1. r = f - 1 /\ v = IF f = T - 1 THEN 0 ELSE f + 1
      BY <1>1, <1>3, <1>8, <2>1, <2>3
    <3>2. Since(r, v) = 1
      BY <1>1, <1>8, <2>1, <2>3, <3>1 DEF Since, T
    <3>3. Since(r, s) >= 1
      BY <1>1, <1>8, <2>1, <2>3, <3>1 DEF Since, T
    <3> QED
      BY <1>6, <3>2, <3>3 DEF T, r, s, f, v
  <2> QED
    BY <2>2, <2>3
<1> QED
  BY <1>5, <1>7, <1>8, <1>1

\* What is on the bus of a carrier and not sent stays in time.
LEMMA StaysInTime ==
  ASSUME SlotsSuffice, CycleTime # 1, TypeInv, TimingInv, NEW c \in Carriers,
         bus[c] # <<>>, c \notin Sent
  PROVE  /\ Later > PhaseOf(c)
         /\ \/ Since(FillStep(c), Later % CycleTime) <= Since(FillStep(c), SlotStep[c])
            \/ SlotStep[c] = 0 /\ PhaseOf(c) = 0 /\ Later <= CycleTime
<1> DEFINE T == CycleTime
           r == FillStep(c)
           s == SlotStep[c]
           f == PhaseOf(c)
           u == time % T
           v == Later % T
<1>1. /\ c \in Pdu /\ T \in Nat /\ T >= 2 /\ f \in Nat /\ r \in 0 .. T - 1 /\ s \in 0 .. T - 1
      /\ f < Horizon - Period
  BY CarrierFacts
<1>2. /\ time <= f => bus[c] = <<>>
      /\ bus[c] # <<>> => \/ Since(r, u) <= Since(r, s)
                          \/ s = 0 /\ f = 0 /\ time <= T
  BY DEF TimingInv, HeldInTime
<1>3. u # s
  BY <1>1, SentIs
<1>4. /\ Later \in Nat /\ v = IF u = T - 1 THEN 0 ELSE u + 1
      /\ \/ Later = time + 1
         \/ Later = Horizon - Period /\ time >= T /\ Later <= time
  BY LaterIs
<1>5. time \in Nat /\ u \in 0 .. T - 1 /\ Horizon - Period > T
  BY TimeFacts, TimesAre
<1>6. T % T = 0
  <2>1. (T * 1 + 0) % T = 0 /\ T * 1 + 0 = T
    BY <1>1, Remainders
  <2> QED
    BY <2>1
<1> HIDE DEF r, s, f, v
<1>7. Later > f
  BY <1>1, <1>2, <1>4, <1>5
<1>8. CASE Since(r, u) <= Since(r, s)
  <2> HIDE DEF T, u
  <2>1. Since(r, v) <= Since(r, s)
    BY <1>1, <1>3, <1>4, <1>5, <1>8 DEF Since, T
  <2> QED
    BY <1>7, <2>1 DEF T, r, s, f, v
<1>9. CASE s = 0 /\ f = 0 /\ time <= T
  <2>1. time # T
    BY <1>3, <1>6, <1>9
  <2>2. Later = time + 1 /\ time + 1 <= T
    BY <1>1, <1>4, <1>5, <1>9, <2>1
  <2> QED
    BY <1>7, <1>9, <2>2 DEF T, r, s, f, v
<1> QED
  BY <1>2, <1>8, <1>9

\* A container is written in a step in which it is due.
LEMMA WrittenIsDue ==
  ASSUME TypeInv, ClearInv, NEW run \in Runs, Step(run), NEW c \in Carriers,
         bus'[c] # <<>>
  PROVE  IsDue(c, time, EpochShift) \/ (bus[c] # <<>> /\ c \notin Sent)
<1> DEFINE changed == Changed(obj, sig, time, EpochShift, run)
           ready == MapContainers(changed, run)
<1>1. /\ changed \in Objects /\ IsReady(ready, changed) /\ obj' = LpduTx(ready)
      /\ bus' = [p \in Pdu |-> IF p \in Written(ready) THEN <<ready[p].payload>>
                               ELSE IF p \in Sent THEN <<>> ELSE bus[p]]
  BY StepIs
<1>2. c \in Pdu /\ IsContainer(c) /\ IsLpdu(c) /\ c \in Containers
  BY KindsOf DEF Carriers, Containers
<1>3. changed[c] = Schedule(obj[c], c, time, EpochShift)
  BY <1>2 DEF Changed
<1>4. obj[c] \in Object(c) /\ ~obj[c].needs_tx
  BY <1>2 DEF TypeInv, Objects, ClearInv
<1>5. Schedule(obj[c], c, time, EpochShift)
        = [obj[c] EXCEPT !.needs_tx = @ \/ IsDue(c, time, EpochShift)]
  BY <1>2 DEF Schedule
<1>6. changed[c].needs_tx = (obj[c].needs_tx \/ IsDue(c, time, EpochShift))
  BY <1>3, <1>4, <1>5 DEF Object
<1> HIDE DEF changed, ready
<1>7. ~changed[c].needs_tx => c \notin Written(ready)
  BY <1>1, <1>2 DEF IsReady, Written
<1>8. CASE c \in Written(ready)
  BY <1>4, <1>6, <1>7, <1>8
<1>9. CASE c \notin Written(ready)
  <2>1. bus'[c] = IF c \in Sent THEN <<>> ELSE bus[c]
    BY <1>1, <1>2, <1>9
  <2> QED
    BY <2>1
<1> QED
  BY <1>8, <1>9

LEMMA StepTiming ==
  ASSUME SlotsSuffice, TypeInv, ClearInv, TimingInv, NEW run \in Runs, Step(run)
  PROVE  TimingInv'
<1>1. origin' = 0 /\ epoch' = EpochShift /\ time' = Later
  BY DEF Step, TimingInv, NotSynced
<1>2. epoch' = IF time' <= CycleTime THEN 0 ELSE CycleTime - 1
  <2>1. EpochShift = IF time < CycleTime THEN 0 ELSE CycleTime - 1
    BY EpochIs
  <2>2. /\ time \in Nat /\ CycleTime \in Nat /\ Horizon \in Nat /\ Period \in Nat
        /\ Horizon - Period > CycleTime
    BY TimeFacts
  <2>3. Later = time + 1 \/ (Later = Horizon - Period /\ time >= CycleTime)
    BY LaterIs
  <2> QED
    BY <1>1, <2>1, <2>2, <2>3
<1>3. ASSUME CycleTime # 1, NEW c \in Carriers PROVE HeldInTime(c)'
  <2>1. CASE bus'[c] = <<>>
    BY <2>1 DEF HeldInTime
  <2>2. CASE bus'[c] # <<>>
    <3>1. /\ Later > PhaseOf(c)
          /\ \/ Since(FillStep(c), Later % CycleTime) <= Since(FillStep(c), SlotStep[c])
             \/ SlotStep[c] = 0 /\ PhaseOf(c) = 0 /\ Later <= CycleTime
      <4>1. CASE IsDue(c, time, EpochShift)
        BY <1>3, <4>1, FilledInTime
      <4>2. CASE bus[c] # <<>> /\ c \notin Sent
        BY <1>3, <4>2, StaysInTime
      <4> QED
        BY <2>2, <4>1, <4>2, WrittenIsDue
    <3>2. Later \in Nat /\ PhaseOf(c) \in Nat
      BY <1>3, LaterIs, CarrierFacts
    <3>3. ~(Later <= PhaseOf(c))
      BY <3>1, <3>2
    <3> QED
      BY <1>1, <3>1, <3>3 DEF HeldInTime
  <2> QED
    BY <2>1, <2>2
<1> QED
  BY <1>1, <1>2, <1>3 DEF TimingInv

\* No change is forgotten, for every matrix of PDUs of which these hold: no Tx
\* function rejects a PDU, no container of I-PDUs is static, and a container is not
\* filled again before the bus sent it.  Each of them is needed.
THEOREM NothingLost ==
  ASSUME InSync, NoneRejected, EntriesHaveIds, SlotsSuffice
  PROVE  Spec => []NothingForgotten
<1> DEFINE Inv == TypeInv /\ ClearInv /\ MarkedInv /\ TimingInv
<1>1. Init => Inv
  BY InitType, InitMarked, InitTiming
<1>2. Inv /\ [Next]_vars => Inv'
  <2> SUFFICES ASSUME Inv, [Next]_vars PROVE Inv'
    OBVIOUS
  <2>1. ASSUME NEW p \in Signals, NEW v \in Value, Set(p, v) PROVE Inv'
    <3>1. TypeInv' /\ MarkedInv' /\ ClearInv'
      BY <2>1, SetType, SetMarked
    <3>2. time' = time /\ epoch' = epoch /\ origin' = origin /\ bus' = bus
      BY <2>1 DEF Set
    <3>3. TimingInv'
      BY <3>2 DEF TimingInv, HeldInTime
    <3> QED
      BY <3>1, <3>3
  <2>2. ASSUME NEW run \in Runs, Step(run) PROVE Inv'
    <3>1. NoneOverwritten
      BY TimingIsNoneOverwritten
    <3> QED
      BY <2>2, <3>1, StepType, StepMarked, StepTiming
  <2>3. CASE UNCHANGED vars
    BY <2>3 DEF vars, TypeInv, ContainerFits, ClearInv, MarkedInv, Marked, Ahead, TimingInv, HeldInTime
  <2> QED
    BY <2>1, <2>2, <2>3 DEF Next
<1>3. Inv => NothingForgotten
  BY MarkedIsNotForgotten
<1> QED
  BY <1>1, <1>2, <1>3, PTL DEF Spec
=============================================================================
