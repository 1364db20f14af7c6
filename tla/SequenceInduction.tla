-------------------------- MODULE SequenceInduction --------------------------
(***************************************************************************)
(* What FlattenSeq and FoldLeft of SequencesExt compute, by induction on   *)
(* the natural numbers.                                                    *)
(*                                                                         *)
(* Induction is a fact about sets of numbers: a formula is proved for      *)
(* every number by the set of those for which it holds.  That suits the    *)
(* provers better than the schemes of NaturalsInduction, whose parameter   *)
(* is an operator.  For the same reason the operator of a fold is a        *)
(* CONSTANT here: a proof about a fold with a certain operator cites the   *)
(* lemmas of an INSTANCE of this module.                                   *)
(***************************************************************************)
EXTENDS Integers, SequencesExt, SequenceTheorems, WellFoundedInduction, TLAPS

CONSTANT Op(_,_)

-----------------------------------------------------------------------------
(***************************************************************************)
(* Numbers.                                                                *)
(***************************************************************************)
LOCAL Below == {ss \in Nat \X Nat : ss[1] < ss[2]}

LEMMA BelowIsWellFounded == IsWellFoundedOn(Below, Nat)
BY NatLessThanWellFounded DEF OpToRel, Below

\* A set of natural numbers has a least one.
LEMMA LeastOf ==
  ASSUME NEW T \in SUBSET Nat, T # {}
  PROVE  \E x \in T : \A y \in T : x <= y
<1>1. PICK x \in T : \A y \in T : ~(<<y, x>> \in Below)
  BY BelowIsWellFounded, WFMin
<1>2. ASSUME NEW y \in T PROVE x <= y
  <2>1. x \in Nat /\ y \in Nat
    OBVIOUS
  <2>2. <<y, x>> \in Nat \X Nat
    BY <2>1
  <2>3. ~(y < x)
    BY <1>1, <2>2 DEF Below
  <2> QED
    BY <2>1, <2>3
<1> QED
  BY <1>2

\* A set with 0 and with the successors of its elements up to n has them all.
LEMMA UpTo ==
  ASSUME NEW n \in Nat, NEW S, 0 \in S,
         \A i \in 0 .. n - 1 : i \in S => i + 1 \in S
  PROVE  0 .. n \subseteq S
<1> DEFINE T == {i \in 0 .. n : i \notin S}
<1>1. SUFFICES ASSUME T # {} PROVE FALSE
  OBVIOUS
<1>2. PICK x \in T : \A y \in T : x <= y
  <2>1. T \in SUBSET Nat
    OBVIOUS
  <2> HIDE DEF T
  <2> QED
    BY <1>1, <2>1, LeastOf
<1>3. x # 0 /\ x \in 1 .. n
  BY <1>2
<1>4. x - 1 \in S
  BY <1>2, <1>3
<1> QED
  BY <1>2, <1>3, <1>4

\* A set with all numbers up to n that all greater ones are in.
LEMMA DownFrom ==
  ASSUME NEW n \in Nat, NEW S,
         \A i \in 0 .. n : (\A j \in i + 1 .. n : j \in S) => i \in S
  PROVE  0 .. n \subseteq S
<1> DEFINE T == {k \in 0 .. n : n - k \notin S}
<1>1. SUFFICES ASSUME T # {} PROVE FALSE
  <2> SUFFICES ASSUME NEW i \in 0 .. n, i \notin S PROVE n - i \in T
    OBVIOUS
  <2>1. n - i \in 0 .. n /\ n - (n - i) = i
    OBVIOUS
  <2> QED
    BY <2>1
<1>2. PICK x \in T : \A y \in T : x <= y
  <2>1. T \in SUBSET Nat
    OBVIOUS
  <2> HIDE DEF T
  <2> QED
    BY <1>1, <2>1, LeastOf
<1>3. ASSUME NEW j \in (n - x) + 1 .. n PROVE j \in S
  <2>1. n - j \in 0 .. n /\ n - j < x /\ n - (n - j) = j
    BY <1>2
  <2>2. n - j \notin T
    <3>1. x \in Nat /\ n - j \in Nat
      BY <1>2, <2>1
    <3> HIDE DEF T
    <3> QED
      BY <1>2, <2>1, <3>1
  <2> QED
    BY <2>1, <2>2
<1> QED
  BY <1>2, <1>3

(***************************************************************************)
(* FlattenSeq of SequencesExt.                                             *)
(***************************************************************************)

\* f[i] has the first i sequences.
Flattened(f, n, ss) ==
  f = [i \in 1 .. n |-> IF i = 1 THEN ss[i] ELSE f[i - 1] \o ss[i]]

LEMMA FlattenedExists ==
  ASSUME NEW n \in Nat, NEW ss
  PROVE  \E f : Flattened(f, n, ss)
<1> DEFINE S == {k \in 0 .. n : \E f : Flattened(f, k, ss)}
<1>1. 0 \in S
  <2>1. Flattened([i \in 1 .. 0 |-> ss[i]], 0, ss)
    BY DEF Flattened
  <2>2. \E f : Flattened(f, 0, ss)
    BY <2>1
  <2> QED
    BY <2>2
<1>2. ASSUME NEW k \in 0 .. n - 1, k \in S PROVE k + 1 \in S
  <2>1. PICK f : Flattened(f, k, ss)
    BY <1>2
  <2> DEFINE g == [i \in 1 .. k + 1 |->
                     IF i = 1 THEN ss[i]
                     ELSE IF i = k + 1 THEN f[k] \o ss[i] ELSE f[i]]
  <2>2. ASSUME NEW i \in 1 .. k + 1
        PROVE  g[i] = IF i = 1 THEN ss[i] ELSE g[i - 1] \o ss[i]
    <3>1. CASE i = 1
      BY <3>1
    <3>2. CASE i # 1 /\ i # k + 1
      <4>1. i \in 1 .. k /\ i - 1 \in 1 .. k /\ i - 1 # k + 1 /\ 1 \in 1 .. k
        BY <3>2
      <4>2. f[1] = ss[1] /\ f[i] = f[i - 1] \o ss[i]
        BY <3>2, <4>1, <2>1 DEF Flattened
      <4>3. g[i] = f[i]
        BY <3>2
      <4>4. g[i - 1] = f[i - 1]
        BY <4>1, <4>2
      <4> QED
        BY <3>2, <4>2, <4>3, <4>4
    <3>3. CASE i # 1 /\ i = k + 1
      <4>1. k \in 1 .. k /\ k # k + 1 /\ 1 \in 1 .. k /\ k \in 1 .. k + 1
        BY <3>3
      <4>2. f[1] = ss[1]
        BY <4>1, <2>1 DEF Flattened
      <4>3. g[k] = f[k]
        BY <4>1, <4>2
      <4>4. g[i] = f[k] \o ss[i]
        BY <3>3
      <4>5. i - 1 = k
        BY <3>3
      <4> QED
        BY <3>3, <4>3, <4>4, <4>5
    <3> QED
      BY <3>1, <3>2, <3>3
  <2>3. Flattened(g, k + 1, ss)
    <3> HIDE DEF g
    <3>1. g = [i \in 1 .. k + 1 |-> IF i = 1 THEN ss[i] ELSE g[i - 1] \o ss[i]]
      BY <2>2 DEF g
    <3> QED
      BY <3>1 DEF Flattened
  <2>4. \E h : Flattened(h, k + 1, ss)
    BY <2>3
  <2>5. k + 1 \in 0 .. n
    OBVIOUS
  <2> QED
    BY <2>4, <2>5
<1>3. n \in S
  <2> HIDE DEF S
  <2> QED
    BY <1>1, <1>2, UpTo
<1> QED
  BY <1>3

LEMMA FlattenSeqIsLast ==
  ASSUME NEW n \in Nat, n # 0, NEW ss, Len(ss) = n
  PROVE  \E f : Flattened(f, n, ss) /\ FlattenSeq(ss) = f[n]
<1> DEFINE f == CHOOSE f : Flattened(f, n, ss)
<1>1. Flattened(f, n, ss)
  BY FlattenedExists
<1>2. FlattenSeq(ss) = f[n]
  BY DEF FlattenSeq, Flattened
<1> QED
  BY <1>1, <1>2

\* What any two sequences of a set keep when they are put together, all of them
\* keep.
LEMMA FlattenSeqStaysIn ==
  ASSUME NEW W, <<>> \in W, \A s, t \in W : s \o t \in W, NEW ss \in Seq(W)
  PROVE  FlattenSeq(ss) \in W
<1>1. CASE ss = <<>>
  BY <1>1 DEF FlattenSeq
<1>2. CASE ss # <<>>
  <2>1. PICK n \in Nat \ {0} : n = Len(ss)
    BY <1>2
  <2>2. \A i \in 1 .. n : ss[i] \in W
    BY <2>1
  <2>3. PICK f : Flattened(f, n, ss) /\ FlattenSeq(ss) = f[n]
    BY <2>1, FlattenSeqIsLast
  <2> DEFINE T == {i \in 0 .. n : i # 0 => f[i] \in W}
  <2>4. 0 \in T
    OBVIOUS
  <2>5. ASSUME NEW i \in 0 .. n - 1, i \in T PROVE i + 1 \in T
    <3>1. i + 1 \in 1 .. n /\ ss[i + 1] \in W
      BY <2>2
    <3>2. f[i + 1] = IF i + 1 = 1 THEN ss[i + 1] ELSE f[(i + 1) - 1] \o ss[i + 1]
      BY <2>3, <3>1 DEF Flattened
    <3>3. f[i + 1] = IF i = 0 THEN ss[i + 1] ELSE f[i] \o ss[i + 1]
      BY <3>2
    <3>4. f[i + 1] \in W
      <4>1. CASE i = 0
        BY <3>1, <3>3, <4>1
      <4>2. CASE i # 0
        <5>1. f[i] \in W
          BY <2>5, <4>2
        <5>2. f[i] \o ss[i + 1] \in W
          BY <3>1, <5>1
        <5> QED
          BY <3>3, <4>2, <5>2
      <4> QED
        BY <4>1, <4>2
    <3>5. i + 1 \in 0 .. n
      BY <3>1
    <3> QED
      BY <3>4, <3>5
  <2>6. n \in T
    <3>1. n \in Nat /\ n \in 0 .. n
      OBVIOUS
    <3> HIDE DEF T
    <3> QED
      BY <2>4, <2>5, <3>1, UpTo
  <2> QED
    BY <2>3, <2>6
<1> QED
  BY <1>1, <1>2

\* Sequences of elements of a set are made to one of elements of that set.
LEMMA FlattenSeqType ==
  ASSUME NEW S, NEW ss \in Seq(Seq(S))
  PROVE  FlattenSeq(ss) \in Seq(S)
<1>1. <<>> \in Seq(S) /\ \A s, t \in Seq(S) : s \o t \in Seq(S)
  OBVIOUS
<1> QED
  BY <1>1, FlattenSeqStaysIn

\* g[i] has the first i sequences, for each i: how a concatenation is made.
Parts(g, n, ss) ==
  /\ g[0] = <<>>
  /\ \A i \in 1 .. n : g[i] = g[i - 1] \o ss[i]

LEMMA PartsExist ==
  ASSUME NEW S, NEW n \in Nat, NEW ss \in Seq(Seq(S)), Len(ss) = n
  PROVE  \E g \in [0 .. n -> Seq(S)] : Parts(g, n, ss) /\ g[n] = FlattenSeq(ss)
<1>0. DOMAIN ss = 1 .. n /\ \A i \in 1 .. n : ss[i] \in Seq(S)
  OBVIOUS
<1>1. CASE n = 0
  <2> DEFINE g == [i \in 0 .. n |-> <<>>]
  <2>1. FlattenSeq(ss) = <<>>
    BY <1>1 DEF FlattenSeq
  <2>2. g \in [0 .. n -> Seq(S)] /\ g[0] = <<>> /\ g[n] = <<>>
    BY <1>1
  <2> HIDE DEF g
  <2>3. Parts(g, n, ss)
    BY <1>1, <2>2 DEF Parts
  <2> QED
    BY <2>1, <2>2, <2>3
<1>2. CASE n # 0
  <2>1. PICK f : Flattened(f, n, ss) /\ FlattenSeq(ss) = f[n]
    BY <1>2, FlattenSeqIsLast
  <2> DEFINE g == [i \in 0 .. n |-> IF i = 0 THEN <<>> ELSE f[i]]
             T == {i \in 0 .. n : g[i] \in Seq(S) /\ (i # 0 => g[i] = g[i - 1] \o ss[i])}
  <2>2. 0 \in T
    OBVIOUS
  <2>3. ASSUME NEW i \in 0 .. n - 1, i \in T PROVE i + 1 \in T
    <3>1. i + 1 \in 1 .. n /\ i + 1 \in 0 .. n /\ ss[i + 1] \in Seq(S) /\ (i + 1) - 1 = i
          /\ (i + 1 = 1 <=> i = 0)
      BY <1>0
    <3>2. f[i + 1] = IF i + 1 = 1 THEN ss[i + 1] ELSE f[(i + 1) - 1] \o ss[i + 1]
      BY <2>1, <3>1 DEF Flattened
    <3>3. <<>> \o ss[i + 1] = ss[i + 1]
      BY <3>1
    <3>4. g[i + 1] = f[i + 1] /\ g[i] = IF i = 0 THEN <<>> ELSE f[i]
      BY <3>1
    <3>5. g[i + 1] = g[i] \o ss[i + 1]
      BY <3>1, <3>2, <3>3, <3>4
    <3>6. g[i] \in Seq(S)
      BY <2>3
    <3> HIDE DEF g
    <3>7. g[i + 1] \in Seq(S)
      BY <3>1, <3>5, <3>6
    <3> QED
      BY <3>1, <3>5, <3>7
  <2>4. 0 .. n \subseteq T
    <3> HIDE DEF T
    <3> QED
      BY <2>2, <2>3, UpTo
  <2>5. g[0] = <<>> /\ g[n] = f[n]
    BY <1>2
  <2>6. g = [i \in 0 .. n |-> g[i]]
    OBVIOUS
  <2>7. \A i \in 0 .. n : g[i] \in Seq(S)
    BY <2>4
  <2>8. ASSUME NEW i \in 1 .. n PROVE g[i] = g[i - 1] \o ss[i]
    <3>1. i \in 0 .. n /\ i # 0
      OBVIOUS
    <3>2. i \in T
      <4> HIDE DEF T
      <4> QED
        BY <2>4, <3>1
    <3> HIDE DEF g
    <3> QED
      BY <3>1, <3>2
  <2> HIDE DEF g, T
  <2>9. g \in [0 .. n -> Seq(S)]
    BY <2>6, <2>7
  <2>10. Parts(g, n, ss)
    BY <2>5, <2>8 DEF Parts
  <2> QED
    BY <2>1, <2>5, <2>9, <2>10
<1> QED
  BY <1>1, <1>2

LEMMA PartsAre ==
  ASSUME NEW S, NEW n \in Nat, NEW ss \in Seq(Seq(S)), Len(ss) = n, NEW h, Parts(h, n, ss)
  PROVE  h[n] = FlattenSeq(ss)
<1>1. PICK g \in [0 .. n -> Seq(S)] : Parts(g, n, ss) /\ g[n] = FlattenSeq(ss)
  BY PartsExist
<1> DEFINE T == {i \in 0 .. n : h[i] = g[i]}
<1>2. 0 \in T
  BY <1>1 DEF Parts
<1>3. ASSUME NEW i \in 0 .. n - 1, i \in T PROVE i + 1 \in T
  <2>1. i + 1 \in 1 .. n /\ (i + 1) - 1 = i /\ i + 1 \in 0 .. n
    OBVIOUS
  <2>2. h[i + 1] = h[i] \o ss[i + 1] /\ g[i + 1] = g[i] \o ss[i + 1]
    BY <1>1, <2>1 DEF Parts
  <2> QED
    BY <1>3, <2>1, <2>2
<1>4. n \in T
  <2>1. n \in 0 .. n
    OBVIOUS
  <2> HIDE DEF T
  <2> QED
    BY <1>2, <1>3, <2>1, UpTo
<1> QED
  BY <1>1, <1>4

LEMMA FlattenSeqOfNone == FlattenSeq(<<>>) = <<>>
BY DEF FlattenSeq

LEMMA FlattenSeqOfOne ==
  ASSUME NEW S, NEW s \in Seq(S)
  PROVE  FlattenSeq(<<s>>) = s
<1> DEFINE ss == <<s>>
           h == [i \in 0 .. 1 |-> IF i = 0 THEN <<>> ELSE s]
<1>1. ss \in Seq(Seq(S)) /\ Len(ss) = 1 /\ ss[1] = s /\ <<>> \o s = s
  OBVIOUS
<1>2. h[0] = <<>> /\ h[1] = s
  OBVIOUS
<1> HIDE DEF h, ss
<1>3. Parts(h, 1, ss)
  <2>1. \A i \in 1 .. 1 : i = 1 /\ i - 1 = 0
    OBVIOUS
  <2> QED
    BY <1>1, <1>2, <2>1 DEF Parts
<1>4. h[1] = FlattenSeq(ss)
  BY <1>1, <1>3, PartsAre
<1> QED
  BY <1>2, <1>4 DEF ss

LEMMA ConcatAssociates ==
  \A S : \A a, b, c \in Seq(S) : a \o (b \o c) = (a \o b) \o c
BY ConcatAssociative

\* A sequence that has the elements of one, and then those of another.
LEMMA ConcatIs ==
  ASSUME NEW S, NEW x \in Seq(S), NEW y \in Seq(S), NEW z \in Seq(S),
         Len(z) = Len(x) + Len(y),
         \A j \in 1 .. Len(x) : z[j] = x[j],
         \A j \in 1 .. Len(y) : z[Len(x) + j] = y[j]
  PROVE  z = x \o y
<1>1. Len(x) \in Nat /\ Len(y) \in Nat /\ x \o y \in Seq(S) /\ Len(x \o y) = Len(x) + Len(y)
  OBVIOUS
<1>2. ASSUME NEW j \in 1 .. Len(z) PROVE z[j] = (x \o y)[j]
  <2>1. CASE j <= Len(x)
    BY <2>1
  <2>2. CASE ~(j <= Len(x))
    <3>1. j - Len(x) \in 1 .. Len(y) /\ Len(x) + (j - Len(x)) = j
      BY <1>1, <2>2
    <3>2. z[j] = y[j - Len(x)]
      BY <3>1
    <3> QED
      BY <1>1, <2>2, <3>1, <3>2
  <2> QED
    BY <2>1, <2>2
<1> QED
  BY <1>1, <1>2, SeqEqual

\* What is left of a sequence.
LEMMA UpToAndRest ==
  ASSUME NEW S, NEW x \in Seq(S), NEW i \in 0 .. Len(x)
  PROVE  x = SubSeq(x, 1, i) \o SubSeq(x, i + 1, Len(x))
<1> DEFINE a == SubSeq(x, 1, i)
           b == SubSeq(x, i + 1, Len(x))
<1>1. /\ a \in Seq(S) /\ Len(a) = i /\ \A j \in 1 .. i : x[j] = a[j]
      /\ b \in Seq(S) /\ Len(b) = Len(x) - i /\ \A j \in 1 .. Len(x) - i : x[i + j] = b[j]
  OBVIOUS
<1> HIDE DEF a, b
<1>2. Len(x) = Len(a) + Len(b)
  BY <1>1
<1>4. \A j \in 1 .. Len(b) : x[Len(a) + j] = b[j]
  BY <1>1
<1>3. x = a \o b
  BY <1>1, <1>2, <1>4, ConcatIs
<1> QED
  BY <1>3 DEF a, b

LEMMA ConcatHas ==
  ASSUME NEW S, NEW x \in Seq(S), NEW y \in Seq(S)
  PROVE  /\ x \o y \in Seq(S) /\ Len(x \o y) = Len(x) + Len(y)
         /\ \A j \in 1 .. Len(x) : (x \o y)[j] = x[j]
         /\ \A j \in 1 .. Len(y) : (x \o y)[Len(x) + j] = y[j]
OBVIOUS

LEMMA FirstPart ==
  ASSUME NEW S, NEW x \in Seq(S), NEW y \in Seq(S)
  PROVE  SubSeq(x \o y, 1, Len(x)) = x
<1> DEFINE a == SubSeq(x \o y, 1, Len(x))
<1>1. a \in Seq(S) /\ Len(a) = Len(x) /\ \A j \in 1 .. Len(x) : a[j] = x[j]
  OBVIOUS
<1> HIDE DEF a
<1>2. a = x
  BY <1>1, SeqEqual
<1> QED
  BY <1>2 DEF a

\* What is put together in two parts.
LEMMA FlattenSeqOfConcat ==
  ASSUME NEW S, NEW ss \in Seq(Seq(S)), NEW tt \in Seq(Seq(S))
  PROVE  FlattenSeq(ss \o tt) = FlattenSeq(ss) \o FlattenSeq(tt)
<1>0. PICK k \in Nat, l \in Nat : k = Len(ss) /\ l = Len(tt)
  OBVIOUS
<1>1. /\ ss \o tt \in Seq(Seq(S)) /\ Len(ss \o tt) = k + l
      /\ \A i \in 1 .. k : (ss \o tt)[i] = ss[i] /\ ss[i] \in Seq(S)
      /\ \A i \in 1 .. l : (ss \o tt)[k + i] = tt[i] /\ tt[i] \in Seq(S)
  BY <1>0
<1>2. PICK g \in [0 .. k -> Seq(S)] : Parts(g, k, ss) /\ g[k] = FlattenSeq(ss)
  BY <1>0, PartsExist
<1>3. PICK h \in [0 .. l -> Seq(S)] : Parts(h, l, tt) /\ h[l] = FlattenSeq(tt)
  BY <1>0, PartsExist
<1> DEFINE e == [i \in 0 .. k + l |-> IF i <= k THEN g[i] ELSE g[k] \o h[i - k]]
           uu == ss \o tt
<1>4. e[0] = <<>>
  BY <1>2 DEF Parts
<1>5. ASSUME NEW i \in 1 .. k + l PROVE e[i] = e[i - 1] \o uu[i]
  <2>1. CASE i <= k
    <3>1. i \in 1 .. k /\ i - 1 <= k /\ i - 1 \in 0 .. k + l /\ i \in 0 .. k + l
      BY <2>1
    <3>2. e[i] = g[i] /\ e[i - 1] = g[i - 1]
      BY <2>1, <3>1
    <3> HIDE DEF e
    <3> QED
      BY <1>1, <1>2, <3>1, <3>2 DEF Parts
  <2>2. CASE ~(i <= k)
    <3>1. i - k \in 1 .. l /\ i \in 0 .. k + l /\ i - 1 \in 0 .. k + l /\ k + (i - k) = i
          /\ (i - 1) - k = (i - k) - 1 /\ (i - k) - 1 \in 0 .. l /\ i - k \in 0 .. l /\ k \in 0 .. k
      BY <2>2
    <3>2. e[i] = g[k] \o h[i - k]
      BY <2>2, <3>1
    <3>3. h[i - k] = h[(i - k) - 1] \o tt[i - k]
      BY <1>3, <3>1 DEF Parts
    <3>4. uu[i] = tt[i - k] /\ tt[i - k] \in Seq(S)
      BY <1>1, <3>1
    <3>5. e[i - 1] = g[k] \o h[(i - k) - 1]
      <4>1. CASE i - 1 <= k
        <5>1. i - 1 = k /\ (i - k) - 1 = 0
          BY <2>2, <4>1
        <5>2. e[i - 1] = g[k] /\ h[0] = <<>> /\ g[k] \in Seq(S)
          BY <1>3, <3>1, <5>1 DEF Parts
        <5>3. h[(i - k) - 1] = h[0]
          BY <5>1
        <5>4. g[k] \o <<>> = g[k]
          BY <5>2
        <5> HIDE DEF e
        <5> QED
          BY <5>2, <5>3, <5>4
      <4>2. CASE ~(i - 1 <= k)
        BY <3>1, <4>2
      <4> QED
        BY <4>1, <4>2
    <3>6. g[k] \in Seq(S) /\ h[(i - k) - 1] \in Seq(S)
      BY <3>1
    <3> HIDE DEF e, uu
    <3>7. g[k] \o (h[(i - k) - 1] \o tt[i - k]) = (g[k] \o h[(i - k) - 1]) \o tt[i - k]
      <4>1. g[k] \in Seq(S) /\ h[(i - k) - 1] \in Seq(S) /\ tt[i - k] \in Seq(S)
        BY <3>4, <3>6
      <4>2. \A a, b, c \in Seq(S) : a \o (b \o c) = (a \o b) \o c
        BY ConcatAssociates, SMTT(60)
      <4> QED
        BY <4>1, <4>2, Zenon
    <3> QED
      BY <3>2, <3>3, <3>4, <3>5, <3>7
  <2> QED
    BY <2>1, <2>2
<1>6. e[k + l] = g[k] \o h[l]
  <2>1. CASE l = 0
    <3>1. e[k + l] = g[k] /\ h[l] = <<>> /\ g[k] \in Seq(S)
      BY <1>3, <2>1 DEF Parts
    <3> HIDE DEF e
    <3> QED
      BY <3>1
  <2>2. CASE l # 0
    BY <2>2
  <2> QED
    BY <2>1, <2>2
<1> HIDE DEF e
<1>7. Parts(e, k + l, uu)
  BY <1>4, <1>5 DEF Parts
<1> HIDE DEF uu
<1>8. e[k + l] = FlattenSeq(uu)
  <2> DEFINE n == k + l
  <2>1. n \in Nat /\ uu \in Seq(Seq(S)) /\ Len(uu) = n /\ Parts(e, n, uu)
    BY <1>1, <1>7 DEF uu
  <2> HIDE DEF n
  <2>2. e[n] = FlattenSeq(uu)
    BY <2>1, PartsAre
  <2> QED
    BY <2>2 DEF n
<1> QED
  BY <1>2, <1>3, <1>6, <1>8 DEF uu

\* Two sequences of sequences that are put together, one beside the other, from
\* their ends.
LEMMA FlattenSeqPairs ==
  ASSUME NEW S, NEW T, NEW n \in Nat,
         NEW ss \in Seq(Seq(S)), Len(ss) = n, NEW tt \in Seq(Seq(T)), Len(tt) = n,
         NEW R, <<<<>>, <<>>>> \in R,
         \A i \in 1 .. n : \A a, b : <<a, b>> \in R => <<ss[i] \o a, tt[i] \o b>> \in R
  PROVE  <<FlattenSeq(ss), FlattenSeq(tt)>> \in R
<1> DEFINE A(i) == FlattenSeq(SubSeq(ss, i, n))
           B(i) == FlattenSeq(SubSeq(tt, i, n))
           I == {k \in 0 .. n : <<A((n + 1) - k), B((n + 1) - k)>> \in R}
<1>1. 0 \in I
  <2>1. (n + 1) - 0 = n + 1
    OBVIOUS
  <2>2. SubSeq(ss, n + 1, n) = <<>> /\ SubSeq(tt, n + 1, n) = <<>>
    OBVIOUS
  <2>3. A((n + 1) - 0) = <<>> /\ B((n + 1) - 0) = <<>>
    BY <2>1, <2>2, FlattenSeqOfNone
  <2> HIDE DEF A, B
  <2> QED
    BY <2>3
<1>2. ASSUME NEW k \in 0 .. n - 1, k \in I PROVE k + 1 \in I
  <2> DEFINE i == n - k
  <2>1. i \in 1 .. n /\ (n + 1) - k = i + 1 /\ (n + 1) - (k + 1) = i /\ k + 1 \in 0 .. n
    OBVIOUS
  <2> HIDE DEF i
  <2>2. A(i) = ss[i] \o A(i + 1)
    <3>1. ss[i] \in Seq(S) /\ <<ss[i]>> \in Seq(Seq(S)) /\ SubSeq(ss, i + 1, n) \in Seq(Seq(S))
      BY <2>1
    <3>2. SubSeq(ss, i, n) = <<ss[i]>> \o SubSeq(ss, i + 1, n)
      BY <2>1
    <3>3. A(i) = FlattenSeq(<<ss[i]>>) \o A(i + 1)
      BY <3>1, <3>2, FlattenSeqOfConcat
    <3> HIDE DEF A
    <3> QED
      BY <3>1, <3>3, FlattenSeqOfOne
  <2>3. B(i) = tt[i] \o B(i + 1)
    <3>1. tt[i] \in Seq(T) /\ <<tt[i]>> \in Seq(Seq(T)) /\ SubSeq(tt, i + 1, n) \in Seq(Seq(T))
      BY <2>1
    <3>2. SubSeq(tt, i, n) = <<tt[i]>> \o SubSeq(tt, i + 1, n)
      BY <2>1
    <3>3. B(i) = FlattenSeq(<<tt[i]>>) \o B(i + 1)
      BY <3>1, <3>2, FlattenSeqOfConcat
    <3> HIDE DEF B
    <3> QED
      BY <3>1, <3>3, FlattenSeqOfOne
  <2> HIDE DEF A, B
  <2>4. <<A(i + 1), B(i + 1)>> \in R
    BY <1>2, <2>1
  <2>5. <<ss[i] \o A(i + 1), tt[i] \o B(i + 1)>> \in R
    BY <2>1, <2>4, Zenon
  <2> QED
    BY <2>1, <2>2, <2>3, <2>5
<1>3. n \in I
  <2>1. n \in 0 .. n
    OBVIOUS
  <2> HIDE DEF I
  <2> QED
    BY <1>1, <1>2, <2>1, UpTo
<1>4. (n + 1) - n = 1 /\ SubSeq(ss, 1, n) = ss /\ SubSeq(tt, 1, n) = tt
  OBVIOUS
<1> QED
  BY <1>3, <1>4

\* h enumerates a set of indexes upwards.
Enumerates(h, k, I) ==
  /\ h \in [1 .. k -> I]
  /\ \A a \in 1 .. k, b \in 1 .. k : a < b => h[a] < h[b]
  /\ \A i \in I : \E a \in 1 .. k : h[a] = i

\* A sequence of nothing, and of single elements where the index is in I.
Singles(s, n, I) == [i \in 1 .. n |-> IF i \in I THEN <<s[i]>> ELSE <<>>]

\* One more index is enumerated.
LEMMA EnumerateNext ==
  ASSUME NEW m \in Nat, NEW I \in SUBSET (1 .. m), NEW k \in Nat, NEW h, Enumerates(h, k, I)
  PROVE  Enumerates([a \in 1 .. k + 1 |-> IF a = k + 1 THEN m + 1 ELSE h[a]],
                    k + 1, I \union {m + 1})
<1> DEFINE g == [a \in 1 .. k + 1 |-> IF a = k + 1 THEN m + 1 ELSE h[a]]
<1>0. ASSUME NEW a \in 1 .. k PROVE h[a] \in I /\ h[a] < m + 1
  <2>1. h[a] \in I
    BY DEF Enumerates
  <2>2. h[a] \in 1 .. m
    BY <2>1
  <2> QED
    BY <2>1, <2>2
<1>1. \A a \in 1 .. k : a \in 1 .. k + 1 /\ a # k + 1 /\ g[a] = h[a] /\ h[a] \in I /\ h[a] < m + 1
  BY <1>0
<1>2. k + 1 \in 1 .. k + 1 /\ g[k + 1] = m + 1
  OBVIOUS
<1>3. \A a \in 1 .. k + 1 : a = k + 1 \/ a \in 1 .. k
  OBVIOUS
<1>4. g \in [1 .. k + 1 -> I \union {m + 1}]
  BY <1>1, <1>3
<1> HIDE DEF g
<1>5. ASSUME NEW a \in 1 .. k + 1, NEW b \in 1 .. k + 1, a < b PROVE g[a] < g[b]
  <2>1. a \in 1 .. k
    BY <1>5
  <2>2. CASE b = k + 1
    BY <1>1, <1>2, <2>1, <2>2
  <2>3. CASE b \in 1 .. k
    BY <1>1, <1>5, <2>1, <2>3 DEF Enumerates
  <2> QED
    BY <1>3, <2>2, <2>3
<1>6. ASSUME NEW i \in I \union {m + 1} PROVE \E a \in 1 .. k + 1 : g[a] = i
  <2>1. CASE i = m + 1
    BY <1>2, <2>1
  <2>2. CASE i \in I
    <3>1. PICK a \in 1 .. k : h[a] = i
      BY <2>2 DEF Enumerates
    <3> QED
      BY <1>1, <3>1
  <2> QED
    BY <2>1, <2>2
<1>7. Enumerates(g, k + 1, I \union {m + 1})
  BY <1>4, <1>5, <1>6 DEF Enumerates
<1> QED
  BY <1>7 DEF g

\* The elements at the indexes of a set, in their order, are what is left of a
\* sequence: which indexes they are does not depend on the elements.
LEMMA SelectionIs ==
  ASSUME NEW n \in Nat, NEW I \in SUBSET (1 .. n)
  PROVE  \E k \in Nat : \E h :
           /\ Enumerates(h, k, I)
           /\ \A s : FlattenSeq(Singles(s, n, I)) = [a \in 1 .. k |-> s[h[a]]]
<1> DEFINE Upto(f, i) == IF i = 0 THEN <<>> ELSE f[i]
           Known(m, k, h) == /\ Enumerates(h, k, I \cap (1 .. m))
                             /\ \A s, f : Flattened(f, n, Singles(s, n, I))
                                            => Upto(f, m) = [a \in 1 .. k |-> s[h[a]]]
           S == {m \in 0 .. n : \E k \in Nat : \E h : Known(m, k, h)}
<1>1. 0 \in S
  <2> DEFINE h0 == [a \in 1 .. 0 |-> 0]
  <2>1. Enumerates(h0, 0, I \cap (1 .. 0))
    BY DEF Enumerates
  <2>2. \A s : [a \in 1 .. 0 |-> s[h0[a]]] = <<>>
    OBVIOUS
  <2>3. Known(0, 0, h0)
    BY <2>1, <2>2
  <2> HIDE DEF Known
  <2>4. 0 \in Nat /\ 0 \in 0 .. n /\ \E h : Known(0, 0, h)
    BY <2>3
  <2> QED
    BY <2>4
<1>2. ASSUME NEW m \in 0 .. n - 1, m \in S PROVE m + 1 \in S
  <2>0a. PICK k \in Nat : \E h : Known(m, k, h)
    BY <1>2
  <2>0. PICK h : Known(m, k, h)
    BY <2>0a
  <2>1. m \in Nat /\ m + 1 \in 1 .. n /\ m + 1 \in 0 .. n
    OBVIOUS
  <2>2. ASSUME NEW s, NEW f, Flattened(f, n, Singles(s, n, I))
        PROVE  /\ Upto(f, m + 1) = Upto(f, m) \o (IF m + 1 \in I THEN <<s[m + 1]>> ELSE <<>>)
               /\ Upto(f, m) = [a \in 1 .. k |-> s[h[a]]]
    <3>1. f[m + 1] = IF m + 1 = 1 THEN Singles(s, n, I)[m + 1]
                     ELSE f[(m + 1) - 1] \o Singles(s, n, I)[m + 1]
      BY <2>1, <2>2 DEF Flattened
    <3>2. Singles(s, n, I)[m + 1] = IF m + 1 \in I THEN <<s[m + 1]>> ELSE <<>>
      BY <2>1 DEF Singles
    <3>3. (m + 1) - 1 = m /\ (m + 1 = 1 <=> m = 0) /\ m + 1 # 0
      BY <2>1
    <3> DEFINE one == IF m + 1 \in I THEN <<s[m + 1]>> ELSE <<>>
    <3>4. f[m + 1] = IF m = 0 THEN one ELSE f[m] \o one
      BY <3>1, <3>2, <3>3
    <3>5. one \in Seq({s[m + 1]})
      <4>1. <<s[m + 1]>> \in Seq({s[m + 1]}) /\ <<>> \in Seq({s[m + 1]})
        OBVIOUS
      <4> QED
        BY <4>1
    <3> HIDE DEF one
    <3>6. <<>> \o one = one
      BY <3>5
    <3>7. Upto(f, m + 1) = Upto(f, m) \o one
      BY <3>3, <3>4, <3>6
    <3> QED
      BY <2>0, <2>2, <3>7 DEF one
  <2>3. CASE m + 1 \notin I
    <3>1. I \cap (1 .. m + 1) = I \cap (1 .. m)
      BY <2>1, <2>3
    <3>2. ASSUME NEW s, NEW f, Flattened(f, n, Singles(s, n, I))
          PROVE  Upto(f, m + 1) = [a \in 1 .. k |-> s[h[a]]]
      <4> DEFINE q == [a \in 1 .. k |-> s[h[a]]]
      <4>1. q \in Seq({s[h[a]] : a \in 1 .. k})
        OBVIOUS
      <4>0. Upto(f, m) = q
        BY <2>2, <3>2
      <4> HIDE DEF q, Upto
      <4>2. Upto(f, m + 1) = q \o <<>>
        BY <2>2, <2>3, <3>2, <4>0
      <4>3. Upto(f, m + 1) = q
        BY <4>1, <4>2
      <4> QED
        BY <4>3 DEF q
    <3>3. Known(m + 1, k, h)
      BY <2>0, <3>1, <3>2
    <3> HIDE DEF Known
    <3> QED
      BY <2>1, <3>3
  <2>4. CASE m + 1 \in I
    <3> DEFINE h1 == [a \in 1 .. k + 1 |-> IF a = k + 1 THEN m + 1 ELSE h[a]]
    <3>1. I \cap (1 .. m + 1) = (I \cap (1 .. m)) \union {m + 1}
      BY <2>1, <2>4
    <3>2. Enumerates(h1, k + 1, I \cap (1 .. m + 1))
      <4>1. I \cap (1 .. m) \in SUBSET (1 .. m) /\ Enumerates(h, k, I \cap (1 .. m))
        BY <2>0
      <4> QED
        BY <2>1, <3>1, <4>1, EnumerateNext
    <3>3. ASSUME NEW s, NEW f, Flattened(f, n, Singles(s, n, I))
          PROVE  Upto(f, m + 1) = [a \in 1 .. k + 1 |-> s[h1[a]]]
      <4> DEFINE q == [a \in 1 .. k |-> s[h[a]]]
                 q1 == [a \in 1 .. k + 1 |-> s[h1[a]]]
                 x == s[m + 1]
      <4>1. q \in Seq({s[h[a]] : a \in 1 .. k} \union {x}) /\ Len(q) = k
        OBVIOUS
      <4>2. Upto(f, m + 1) = q \o <<x>>
        BY <2>2, <2>4, <3>3
      <4>3. \A a \in 1 .. k + 1 : q1[a] = IF a = k + 1 THEN x ELSE q[a]
        OBVIOUS
      <4>4. q1 = [a \in 1 .. k + 1 |-> q1[a]]
        OBVIOUS
      <4> HIDE DEF q, q1, Upto
      <4>5. q \o <<x>> = [a \in 1 .. k + 1 |-> IF a = k + 1 THEN x ELSE q[a]]
        BY <4>1
      <4>6. q \o <<x>> = q1
        BY <4>3, <4>4, <4>5
      <4> QED
        BY <4>2, <4>6 DEF q1
    <3>4. Known(m + 1, k + 1, h1)
      BY <3>2, <3>3
    <3>5. k + 1 \in Nat
      OBVIOUS
    <3> HIDE DEF Known, h1
    <3> QED
      BY <2>1, <3>4, <3>5
  <2> QED
    BY <2>3, <2>4
<1>3. n \in S
  <2> HIDE DEF S
  <2> QED
    BY <1>1, <1>2, UpTo
<1>4a. PICK k \in Nat : \E h : Known(n, k, h)
  BY <1>3
<1>4. PICK h : Known(n, k, h)
  BY <1>4a
<1>5. I \cap (1 .. n) = I
  OBVIOUS
<1>6. ASSUME NEW s PROVE FlattenSeq(Singles(s, n, I)) = [a \in 1 .. k |-> s[h[a]]]
  <2>1. Len(Singles(s, n, I)) = n
    BY DEF Singles
  <2>2. CASE n = 0
    <3>1. PICK f : Flattened(f, n, Singles(s, n, I))
      BY FlattenedExists
    <3>2. <<>> = [a \in 1 .. k |-> s[h[a]]]
      BY <1>4, <2>2, <3>1
    <3>3. FlattenSeq(Singles(s, n, I)) = <<>>
      BY <2>1, <2>2 DEF FlattenSeq, Singles
    <3> QED
      BY <3>2, <3>3
  <2>3. CASE n # 0
    <3>1. PICK f : Flattened(f, n, Singles(s, n, I)) /\ FlattenSeq(Singles(s, n, I)) = f[n]
      BY <2>1, <2>3, FlattenSeqIsLast
    <3> QED
      BY <1>4, <2>3, <3>1
  <2> QED
    BY <2>2, <2>3
<1>7. Enumerates(h, k, I)
  BY <1>4, <1>5
<1> QED
  BY <1>6, <1>7

-----------------------------------------------------------------------------
(***************************************************************************)
(* FoldLeft of SequencesExt: the results of an operator that is applied to *)
(* the elements of a sequence, one after the other.                        *)
(***************************************************************************)

\* f[i] is the result after i elements.
Results(f, n, base, seq) ==
  f = [i \in 0 .. n |-> IF i = 0 THEN base ELSE Op(f[i - 1], seq[i])]

\* What the definition of FoldLeft has instead: a result for each set of indexes.
ResultsOfSets(f, n, base, seq) ==
  f = [s \in SUBSET (1 .. n) |->
         IF s = {} THEN base ELSE Op(f[s \ {Max(s)}], seq[Max(s)])]

LEMMA MaxOfSet ==
  ASSUME NEW n \in Nat, NEW s \in SUBSET (1 .. n), n \in s
  PROVE  Max(s) = n
<1>1. \A x \in s : x \in Int /\ n >= x
  OBVIOUS
<1>2. \A y : (y \in s /\ \A x \in s : y >= x) => y = n
  BY <1>1
<1> QED
  BY <1>1, <1>2 DEF Max

\* The results for the sets of n + 1 indexes are made from those of n.
LEMMA ResultsOfSetsExist ==
  ASSUME NEW n \in Nat, NEW base, NEW seq
  PROVE  \E f : ResultsOfSets(f, n, base, seq)
<1> DEFINE S == {k \in 0 .. n : \E f : ResultsOfSets(f, k, base, seq)}
<1>1. 0 \in S
  <2>1. \A s \in SUBSET (1 .. 0) : s = {}
    OBVIOUS
  <2>2. ResultsOfSets([s \in SUBSET (1 .. 0) |-> base], 0, base, seq)
    BY <2>1 DEF ResultsOfSets
  <2>3. \E f : ResultsOfSets(f, 0, base, seq)
    BY <2>2
  <2> QED
    BY <2>3
<1>2. ASSUME NEW k \in 0 .. n - 1, k \in S PROVE k + 1 \in S
  <2>1. PICK f : ResultsOfSets(f, k, base, seq)
    BY <1>2
  <2> DEFINE g == [s \in SUBSET (1 .. k + 1) |->
                     IF k + 1 \in s THEN Op(f[s \ {k + 1}], seq[k + 1]) ELSE f[s]]
  <2>2. ASSUME NEW s \in SUBSET (1 .. k + 1)
        PROVE  g[s] = IF s = {} THEN base ELSE Op(g[s \ {Max(s)}], seq[Max(s)])
    <3>1. CASE k + 1 \in s
      <4>1. Max(s) = k + 1
        BY <3>1, MaxOfSet
      <4>2. s \ {k + 1} \in SUBSET (1 .. k)
        OBVIOUS
      <4>3. g[s \ {k + 1}] = f[s \ {k + 1}]
        BY <4>2
      <4> QED
        BY <3>1, <4>1, <4>3
    <3>2. CASE k + 1 \notin s
      <4>1. s \in SUBSET (1 .. k)
        BY <3>2
      <4>2. f[s] = IF s = {} THEN base ELSE Op(f[s \ {Max(s)}], seq[Max(s)])
        BY <4>1, <2>1 DEF ResultsOfSets
      <4>3. k + 1 \notin s \ {Max(s)} /\ s \ {Max(s)} \in SUBSET (1 .. k + 1)
        BY <3>2
      <4>4. g[s \ {Max(s)}] = f[s \ {Max(s)}] /\ g[s] = f[s]
        BY <3>2, <4>3
      <4> QED
        BY <4>2, <4>4
    <3> QED
      BY <3>1, <3>2
  <2>3. ResultsOfSets(g, k + 1, base, seq)
    BY <2>2 DEF ResultsOfSets
  <2>4. \E h : ResultsOfSets(h, k + 1, base, seq)
    BY <2>3
  <2>5. k + 1 \in 0 .. n
    OBVIOUS
  <2> QED
    BY <2>4, <2>5
<1>3. n \in S
  <2> HIDE DEF S
  <2> QED
    BY <1>1, <1>2, UpTo
<1> QED
  BY <1>3

LEMMA FoldOfSets ==
  ASSUME NEW base, NEW seq, NEW n \in Nat, DOMAIN seq = 1 .. n
  PROVE  \E f : ResultsOfSets(f, n, base, seq) /\ FoldLeft(Op, base, seq) = f[1 .. n]
<1> DEFINE f == CHOOSE f : ResultsOfSets(f, n, base, seq)
<1>1. ResultsOfSets(f, n, base, seq)
  BY ResultsOfSetsExist
<1>2. FoldLeft(Op, base, seq) = f[1 .. n]
  BY DEF FoldLeft, MapThenFoldSet, ResultsOfSets
<1> QED
  BY <1>1, <1>2

Fold(base, seq) == FoldLeft(Op, base, seq)

\* A fold is the last of its results.
LEMMA FoldIsLastResult ==
  ASSUME NEW base, NEW seq, NEW n \in Nat, DOMAIN seq = 1 .. n
  PROVE  \E f : Results(f, n, base, seq) /\ Fold(base, seq) = f[n]
<1>1. PICK f : ResultsOfSets(f, n, base, seq) /\ FoldLeft(Op, base, seq) = f[1 .. n]
  BY FoldOfSets
<1> DEFINE g == [i \in 0 .. n |-> f[1 .. i]]
<1>2. ASSUME NEW i \in 0 .. n
      PROVE  g[i] = IF i = 0 THEN base ELSE Op(g[i - 1], seq[i])
  <2>1. 1 .. i \in SUBSET (1 .. n)
    OBVIOUS
  <2>2. f[1 .. i] = IF 1 .. i = {} THEN base
                    ELSE Op(f[(1 .. i) \ {Max(1 .. i)}], seq[Max(1 .. i)])
    BY <1>1, <2>1 DEF ResultsOfSets
  <2>3. CASE i = 0
    BY <2>2, <2>3
  <2>4. CASE i # 0
    <3>1. i \in Nat /\ i >= 1
      BY <2>4
    <3>2. i \in 1 .. i /\ 1 .. i # {} /\ i - 1 \in 0 .. n
      BY <3>1
    <3>3. Max(1 .. i) = i
      BY <3>1, <3>2, MaxOfSet
    <3>4. (1 .. i) \ {i} = 1 .. i - 1
      OBVIOUS
    <3>5. g[i] = f[1 .. i] /\ g[i - 1] = f[1 .. i - 1]
      BY <3>2
    <3> HIDE DEF g
    <3> QED
      BY <2>2, <2>4, <3>2, <3>3, <3>4, <3>5
  <2> QED
    BY <2>3, <2>4
<1>3. Results(g, n, base, seq)
  BY <1>2 DEF Results
<1>4. Fold(base, seq) = g[n]
  BY <1>1 DEF Fold
<1> QED
  BY <1>3, <1>4

\* A set that has the base, and that the operator does not leave, has the fold.
LEMMA FoldStaysIn ==
  ASSUME NEW S, NEW T, NEW base \in S, NEW seq \in Seq(T),
         \A r \in S, x \in T : Op(r, x) \in S
  PROVE  Fold(base, seq) \in S
<1>0. PICK n \in Nat : n = Len(seq)
  OBVIOUS
<1>1. DOMAIN seq = 1 .. n /\ \A i \in 1 .. n : seq[i] \in T
  BY <1>0
<1>2. PICK f : Results(f, n, base, seq) /\ Fold(base, seq) = f[n]
  BY <1>1, FoldIsLastResult
<1> DEFINE I == {i \in 0 .. n : f[i] \in S}
<1>3. 0 \in I
  BY <1>2 DEF Results
<1>4. ASSUME NEW i \in 0 .. n - 1, i \in I PROVE i + 1 \in I
  <2>1. i + 1 \in 0 .. n /\ i + 1 # 0 /\ (i + 1) - 1 = i /\ seq[i + 1] \in T
    BY <1>1
  <2>2. f[i + 1] = Op(f[i], seq[i + 1])
    BY <1>2, <2>1 DEF Results
  <2>3. f[i + 1] \in S
    BY <1>4, <2>1, <2>2
  <2> QED
    BY <2>1, <2>3
<1>5. n \in I
  <2>1. n \in 0 .. n
    OBVIOUS
  <2> HIDE DEF I
  <2> QED
    BY <1>3, <1>4, <2>1, UpTo
<1> QED
  BY <1>2, <1>5

\* What a fold is after each element, from what it is before.
LEMMA FoldPasses ==
  ASSUME NEW R, NEW n \in Nat, NEW base, NEW seq, DOMAIN seq = 1 .. n, <<0, base>> \in R,
         \A i \in 0 .. n - 1 : \A r : <<i, r>> \in R => <<i + 1, Op(r, seq[i + 1])>> \in R
  PROVE  <<n, Fold(base, seq)>> \in R
<1>1. PICK f : Results(f, n, base, seq) /\ Fold(base, seq) = f[n]
  BY FoldIsLastResult
<1> DEFINE I == {i \in 0 .. n : <<i, f[i]>> \in R}
<1>2. 0 \in I
  BY <1>1 DEF Results
<1>3. ASSUME NEW i \in 0 .. n - 1, i \in I PROVE i + 1 \in I
  <2>1. i + 1 \in 0 .. n /\ i + 1 # 0 /\ (i + 1) - 1 = i
    OBVIOUS
  <2>2. f[i + 1] = Op(f[i], seq[i + 1])
    BY <1>1, <2>1 DEF Results
  <2>3. <<i, f[i]>> \in R
    BY <1>3
  <2>4. <<i + 1, f[i + 1]>> \in R
    BY <2>2, <2>3
  <2> QED
    BY <2>1, <2>4
<1>4. n \in I
  <2>1. n \in 0 .. n
    OBVIOUS
  <2> HIDE DEF I
  <2> QED
    BY <1>2, <1>3, <2>1, UpTo
<1> QED
  BY <1>1, <1>4

\* Two folds of a sequence are related like their bases, if the operator keeps
\* what is related so.
LEMMA FoldKeeps ==
  ASSUME NEW R, NEW T, NEW a, NEW b, <<a, b>> \in R, NEW seq \in Seq(T),
         \A r, q : \A x \in T : <<r, q>> \in R => <<Op(r, x), Op(q, x)>> \in R
  PROVE  <<Fold(a, seq), Fold(b, seq)>> \in R
<1>0. PICK n \in Nat : n = Len(seq)
  OBVIOUS
<1>1. DOMAIN seq = 1 .. n /\ \A i \in 1 .. n : seq[i] \in T
  BY <1>0
<1>2. PICK f : Results(f, n, a, seq) /\ Fold(a, seq) = f[n]
  BY <1>1, FoldIsLastResult
<1>3. PICK g : Results(g, n, b, seq) /\ Fold(b, seq) = g[n]
  BY <1>1, FoldIsLastResult
<1> DEFINE I == {i \in 0 .. n : <<f[i], g[i]>> \in R}
<1>4. 0 \in I
  BY <1>2, <1>3 DEF Results
<1>5. ASSUME NEW i \in 0 .. n - 1, i \in I PROVE i + 1 \in I
  <2>1. i + 1 \in 0 .. n /\ i + 1 # 0 /\ (i + 1) - 1 = i /\ seq[i + 1] \in T
    BY <1>1
  <2>2. f[i + 1] = Op(f[i], seq[i + 1]) /\ g[i + 1] = Op(g[i], seq[i + 1])
    BY <1>2, <1>3, <2>1 DEF Results
  <2>3. <<f[i + 1], g[i + 1]>> \in R
    BY <1>5, <2>1, <2>2
  <2> QED
    BY <2>1, <2>3
<1>6. n \in I
  <2>1. n \in 0 .. n
    OBVIOUS
  <2> HIDE DEF I
  <2> QED
    BY <1>4, <1>5, <2>1, UpTo
<1> QED
  BY <1>2, <1>3, <1>6

\* The results are unique, one for each prefix: results of results.
LEMMA ResultsAreUnique ==
  ASSUME NEW n \in Nat, NEW base, NEW seq, NEW f, NEW g,
         Results(f, n, base, seq), Results(g, n, base, seq)
  PROVE  f[n] = g[n]
<1> DEFINE I == {i \in 0 .. n : f[i] = g[i]}
<1>1. 0 \in I
  BY DEF Results
<1>2. ASSUME NEW i \in 0 .. n - 1, i \in I PROVE i + 1 \in I
  <2>1. i + 1 \in 0 .. n /\ i + 1 # 0 /\ (i + 1) - 1 = i
    OBVIOUS
  <2>2. f[i + 1] = Op(f[i], seq[i + 1]) /\ g[i + 1] = Op(g[i], seq[i + 1])
    BY <2>1 DEF Results
  <2> QED
    BY <1>2, <2>1, <2>2
<1>3. n \in I
  <2>1. n \in 0 .. n
    OBVIOUS
  <2> HIDE DEF I
  <2> QED
    BY <1>1, <1>2, <2>1, UpTo
<1> QED
  BY <1>3

\* A sequence is folded in two parts.
LEMMA FoldOfConcat ==
  ASSUME NEW T, NEW base, NEW s \in Seq(T), NEW t \in Seq(T)
  PROVE  Fold(base, s \o t) = Fold(Fold(base, s), t)
<1>0. PICK k \in Nat, l \in Nat : k = Len(s) /\ l = Len(t)
  OBVIOUS
<1>1. /\ DOMAIN s = 1 .. k /\ DOMAIN t = 1 .. l /\ DOMAIN (s \o t) = 1 .. k + l
      /\ \A i \in 1 .. k : (s \o t)[i] = s[i]
      /\ \A i \in 1 .. l : (s \o t)[k + i] = t[i]
  BY <1>0
<1>2. PICK f : Results(f, k + l, base, s \o t) /\ Fold(base, s \o t) = f[k + l]
  <2> DEFINE u == s \o t
             n == k + l
  <2>1. n \in Nat /\ DOMAIN u = 1 .. n
    BY <1>1
  <2> HIDE DEF u, n
  <2>2. \E f : Results(f, n, base, u) /\ Fold(base, u) = f[n]
    BY <2>1, FoldIsLastResult
  <2> QED
    BY <2>2 DEF u, n
<1>3. PICK g : Results(g, k, base, s) /\ Fold(base, s) = g[k]
  BY <1>1, FoldIsLastResult
<1>4. PICK h : Results(h, l, g[k], t) /\ Fold(g[k], t) = h[l]
  BY <1>1, FoldIsLastResult
<1>5. f[k] = g[k]
  <2> DEFINE e == [i \in 0 .. k |-> f[i]]
  <2>1. ASSUME NEW i \in 0 .. k
        PROVE  e[i] = IF i = 0 THEN base ELSE Op(e[i - 1], s[i])
    <3>1. i \in 0 .. k + l /\ (i # 0 => i - 1 \in 0 .. k /\ i \in 1 .. k)
      OBVIOUS
    <3> QED
      BY <1>1, <1>2, <3>1 DEF Results
  <2>2. Results(e, k, base, s)
    BY <2>1 DEF Results
  <2>3. e[k] = g[k]
    BY <1>3, <2>2, ResultsAreUnique
  <2> QED
    BY <2>3
<1>6. f[k + l] = h[l]
  <2> DEFINE e == [i \in 0 .. l |-> f[k + i]]
  <2>1. ASSUME NEW i \in 0 .. l
        PROVE  e[i] = IF i = 0 THEN g[k] ELSE Op(e[i - 1], t[i])
    <3>1. CASE i = 0
      BY <1>5, <3>1
    <3>2. CASE i # 0
      <4>1. i - 1 \in 0 .. l /\ i \in 1 .. l /\ k + i \in 0 .. k + l /\ k + i # 0
            /\ (k + i) - 1 = k + (i - 1)
        BY <3>2
      <4>2. f[k + i] = Op(f[k + (i - 1)], (s \o t)[k + i])
        BY <1>2, <4>1 DEF Results
      <4> QED
        BY <1>1, <3>2, <4>1, <4>2
    <3> QED
      BY <3>1, <3>2
  <2>2. Results(e, l, g[k], t)
    BY <2>1 DEF Results
  <2>3. e[l] = h[l]
    BY <1>4, <2>2, ResultsAreUnique
  <2>4. l \in 0 .. l
    OBVIOUS
  <2> QED
    BY <2>3, <2>4
<1> QED
  BY <1>2, <1>3, <1>4, <1>6

LEMMA FoldOfNone ==
  ASSUME NEW base
  PROVE  Fold(base, <<>>) = base
<1> DEFINE n == 0
           s == <<>>
<1>1. n \in Nat /\ DOMAIN s = 1 .. n
  OBVIOUS
<1> HIDE DEF n, s
<1>2. PICK f : Results(f, n, base, s) /\ Fold(base, s) = f[n]
  BY <1>1, FoldIsLastResult
<1>3. f[0] = base
  BY <1>1, <1>2 DEF Results
<1> QED
  BY <1>2, <1>3 DEF n, s

LEMMA FoldOfOne ==
  ASSUME NEW base, NEW x
  PROVE  Fold(base, <<x>>) = Op(base, x)
<1> DEFINE n == 1
           s == <<x>>
<1>1. n \in Nat /\ DOMAIN s = 1 .. n /\ s[1] = x
  OBVIOUS
<1> HIDE DEF s, n
<1>2. PICK f : Results(f, n, base, s) /\ Fold(base, s) = f[n]
  BY <1>1, FoldIsLastResult
<1>3. f[0] = base /\ f[1] = Op(f[0], s[1])
  BY <1>2 DEF Results, n
<1> QED
  BY <1>1, <1>2, <1>3 DEF s, n
=============================================================================
