------------------------- MODULE SignalNetworkProofs -------------------------
(***************************************************************************)
(* Proofs about SignalNetwork, for every width of a raw value and every    *)
(* description of PDUs and signals, with the Lua functions of both.        *)
(*                                                                         *)
(* Up to `What a payload holds' the lemmas are about SignalMatrix: that    *)
(* the pieces of a signal cover its bits once, that packing writes these   *)
(* bits and no others, that unpacking reads them, and what scaling loses.  *)
(* IInv is the inductive invariant.                                        *)
(***************************************************************************)
EXTENDS SignalNetwork, TLAPS

\* Unpacking is a fold over the pieces of a signal, packing one over signals.
Adding == INSTANCE SequenceInduction WITH Op <- Combine
Packing == INSTANCE SequenceInduction WITH Op <- PackSignal

(***************************************************************************)
(* Powers of two.                                                          *)
(***************************************************************************)

\* f has the first n + 1 powers.
Powers(f, n) == f = [i \in 0 .. n |-> IF i = 0 THEN 1 ELSE 2 * f[i - 1]]

\* Two is what its recursive definition says: a function with these values
\* exists, and any two agree.
LEMMA PowersExist ==
  ASSUME NEW n \in Nat
  PROVE  \E f : Powers(f, n)
<1> DEFINE K == {k \in 0 .. n : \E f : Powers(f, k)}
<1>1. 0 \in K
  <2>1. Powers([i \in 0 .. 0 |-> 1], 0)
    BY DEF Powers
  <2> QED
    BY <2>1
<1>2. ASSUME NEW k \in 0 .. n - 1, k \in K PROVE k + 1 \in K
  <2>1. PICK f : Powers(f, k)
    BY <1>2
  <2> DEFINE g == [i \in 0 .. k + 1 |-> IF i = k + 1 THEN 2 * f[k] ELSE f[i]]
  <2>2. ASSUME NEW i \in 0 .. k + 1
        PROVE  g[i] = IF i = 0 THEN 1 ELSE 2 * g[i - 1]
    <3>1. CASE i = 0
      <4>1. 0 \in 0 .. k /\ i # k + 1
        BY <3>1
      <4>2. f[0] = 1
        BY <2>1, <4>1 DEF Powers
      <4> QED
        BY <3>1, <4>1, <4>2
    <3>2. CASE i \in 1 .. k
      <4>1. i \in 0 .. k /\ i # 0 /\ i - 1 \in 0 .. k + 1 /\ i # k + 1 /\ i - 1 # k + 1
        BY <3>2
      <4>2. f[i] = 2 * f[i - 1]
        BY <2>1, <4>1 DEF Powers
      <4>3. g[i] = f[i] /\ g[i - 1] = f[i - 1]
        BY <4>1
      <4> HIDE DEF g
      <4> QED
        BY <4>1, <4>2, <4>3
    <3>3. CASE i = k + 1
      <4>1. k \in 0 .. k + 1 /\ k # k + 1 /\ i - 1 = k /\ i # 0
        BY <3>3
      <4>2. g[k] = f[k] /\ g[i] = 2 * f[k]
        BY <3>3, <4>1
      <4> HIDE DEF g
      <4> QED
        BY <4>1, <4>2
    <3> QED
      BY <3>1, <3>2, <3>3
  <2>3. Powers(g, k + 1)
    <3> HIDE DEF g
    <3>1. g = [i \in 0 .. k + 1 |-> IF i = 0 THEN 1 ELSE 2 * g[i - 1]]
      BY <2>2 DEF g
    <3> QED
      BY <3>1 DEF Powers
  <2> QED
    BY <2>3
<1>3. n \in K
  <2>1. n \in 0 .. n
    OBVIOUS
  <2> HIDE DEF K
  <2> QED
    BY <1>1, <1>2, <2>1, Adding!UpTo
<1> QED
  BY <1>3

LEMMA PowersAgree ==
  ASSUME NEW n \in Nat, NEW m \in 0 .. n, NEW f, NEW g, Powers(f, n), Powers(g, m)
  PROVE  f[m] = g[m]
<1> DEFINE I == {i \in 0 .. m : f[i] = g[i]}
<1>1. 0 \in I
  BY DEF Powers
<1>2. ASSUME NEW i \in 0 .. m - 1, i \in I PROVE i + 1 \in I
  <2>1. i + 1 \in 0 .. m /\ i + 1 \in 0 .. n /\ i + 1 # 0 /\ (i + 1) - 1 = i
    OBVIOUS
  <2>2. f[i + 1] = 2 * f[i] /\ g[i + 1] = 2 * g[i]
    BY <2>1 DEF Powers
  <2> QED
    BY <1>2, <2>1, <2>2
<1>3. m \in I
  <2>1. m \in 0 .. m
    OBVIOUS
  <2> HIDE DEF I
  <2> QED
    BY <1>1, <1>2, <2>1, Adding!UpTo
<1> QED
  BY <1>3

LEMMA TwoIs ==
  /\ Two[0] = 1
  /\ \A n \in Nat : Two[n + 1] = 2 * Two[n]
<1> DEFINE p == [n \in Nat |-> (CHOOSE f : Powers(f, n))[n]]
<1>1. ASSUME NEW n \in Nat PROVE p[n] = IF n = 0 THEN 1 ELSE 2 * p[n - 1]
  <2>1. PICK f : f = CHOOSE h : Powers(h, n)
    OBVIOUS
  <2>2. Powers(f, n) /\ p[n] = f[n]
    BY <2>1, PowersExist
  <2>3. CASE n = 0
    BY <2>2, <2>3 DEF Powers
  <2>4. CASE n # 0
    <3>1. n - 1 \in Nat /\ n - 1 \in 0 .. n /\ n \in 0 .. n
      BY <2>4
    <3>2. PICK g : g = CHOOSE h : Powers(h, n - 1)
      OBVIOUS
    <3>3. Powers(g, n - 1) /\ p[n - 1] = g[n - 1]
      BY <3>1, <3>2, PowersExist
    <3>4. f[n - 1] = g[n - 1]
      BY <2>2, <3>1, <3>3, PowersAgree
    <3>5. f[n] = 2 * f[n - 1]
      BY <2>2, <2>4, <3>1 DEF Powers
    <3> HIDE DEF p
    <3> QED
      BY <2>2, <2>4, <3>3, <3>4, <3>5
  <2> QED
    BY <2>3, <2>4
<1>2. p = [n \in Nat |-> IF n = 0 THEN 1 ELSE 2 * p[n - 1]]
  <2> HIDE DEF p
  <2>1. p = [n \in Nat |-> p[n]]
    BY DEF p
  <2> QED
    BY <1>1, <2>1
<1>3. Two = [n \in Nat |-> IF n = 0 THEN 1 ELSE 2 * Two[n - 1]]
  <2> HIDE DEF p
  <2>1. \E q : q = [n \in Nat |-> IF n = 0 THEN 1 ELSE 2 * q[n - 1]]
    BY <1>2
  <2> QED
    BY <2>1 DEF Two
<1>4. \A n \in Nat : Two[n] = IF n = 0 THEN 1 ELSE 2 * Two[n - 1]
  BY <1>3
<1>5. ASSUME NEW n \in Nat PROVE Two[n + 1] = 2 * Two[n]
  <2>1. n + 1 \in Nat /\ n + 1 # 0 /\ (n + 1) - 1 = n
    OBVIOUS
  <2> QED
    BY <1>4, <2>1
<1> QED
  BY <1>4, <1>5

LEMMA TwoType == \A n \in Nat : Two[n] \in Nat /\ Two[n] >= 1
<1> SUFFICES ASSUME NEW m \in Nat PROVE Two[m] \in Nat /\ Two[m] >= 1
  OBVIOUS
<1> DEFINE I == {i \in 0 .. m : Two[i] \in Nat /\ Two[i] >= 1}
<1>1. 0 \in I
  BY TwoIs
<1>2. ASSUME NEW i \in 0 .. m - 1, i \in I PROVE i + 1 \in I
  <2>1. i \in Nat /\ i + 1 \in 0 .. m
    OBVIOUS
  <2>2. Two[i + 1] = 2 * Two[i]
    BY <2>1, TwoIs
  <2> QED
    BY <1>2, <2>1, <2>2
<1>3. m \in I
  <2>1. m \in 0 .. m
    OBVIOUS
  <2> HIDE DEF I
  <2> QED
    BY <1>1, <1>2, <2>1, Adding!UpTo
<1> QED
  BY <1>3

\* 2^(m + n) is 2^m times 2^n.
LEMMA TwoOfSum ==
  ASSUME NEW m \in Nat, NEW n \in Nat
  PROVE  Two[m + n] = Two[m] * Two[n]
<1> DEFINE I == {i \in 0 .. n : Two[m + i] = Two[m] * Two[i]}
<1>1. 0 \in I
  BY TwoIs, TwoType
<1>2. ASSUME NEW i \in 0 .. n - 1, i \in I PROVE i + 1 \in I
  <2>1. i \in Nat /\ i + 1 \in 0 .. n /\ m + i \in Nat /\ m + (i + 1) = (m + i) + 1
    OBVIOUS
  <2>2. Two[i + 1] = 2 * Two[i] /\ Two[(m + i) + 1] = 2 * Two[m + i]
    BY <2>1, TwoIs
  <2>3. PICK a \in Nat, b \in Nat : a = Two[m] /\ b = Two[i]
    BY <2>1, TwoType
  <2>4. Two[m + (i + 1)] = 2 * (a * b) /\ Two[i + 1] = 2 * b
    BY <1>2, <2>1, <2>2, <2>3
  <2>5. 2 * (a * b) = a * (2 * b)
    OBVIOUS
  <2>6. Two[m + (i + 1)] = Two[m] * Two[i + 1]
    BY <2>3, <2>4, <2>5
  <2> QED
    BY <2>1, <2>6
<1>3. n \in I
  <2>1. n \in 0 .. n
    OBVIOUS
  <2> HIDE DEF I
  <2> QED
    BY <1>1, <1>2, <2>1, Adding!UpTo
<1> QED
  BY <1>3

LEMMA SmallPowers ==
  /\ Two[1] = 2 /\ Two[2] = 4 /\ Two[3] = 8 /\ Two[4] = 16
  /\ Two[5] = 32 /\ Two[6] = 64 /\ Two[7] = 128 /\ Two[8] = 256
<1>1. Two[0 + 1] = 2
  BY TwoIs
<1>2. Two[1 + 1] = 4
  BY <1>1, TwoIs
<1>3. Two[2 + 1] = 8
  BY <1>2, TwoIs
<1>4. Two[3 + 1] = 16
  BY <1>3, TwoIs
<1>5. Two[4 + 1] = 32
  BY <1>4, TwoIs
<1>6. Two[5 + 1] = 64
  BY <1>5, TwoIs
<1>7. Two[6 + 1] = 128
  BY <1>6, TwoIs
<1>8. Two[7 + 1] = 256
  BY <1>7, TwoIs
<1> QED
  BY <1>1, <1>2, <1>3, <1>4, <1>5, <1>6, <1>7, <1>8

-----------------------------------------------------------------------------
(***************************************************************************)
(* Bits of numbers.                                                        *)
(***************************************************************************)

\* Quotient and remainder by a divisor that is not 0.
LEMMA Division ==
  ASSUME NEW x \in Nat, NEW d \in Nat, d >= 1
  PROVE  /\ x \div d \in Nat /\ x % d \in Nat /\ x % d < d
         /\ x = d * (x \div d) + (x % d)
OBVIOUS

LEMMA DivisionIs ==
  ASSUME NEW d \in Nat, NEW q \in Nat, NEW r \in Nat, r < d
  PROVE  (d * q + r) \div d = q /\ (d * q + r) % d = r
OBVIOUS

LEMMA DivisionTwice ==
  ASSUME NEW x \in Nat, NEW d \in Nat, NEW e \in Nat, d >= 1, e >= 1
  PROVE  x \div (d * e) = (x \div d) \div e
OBVIOUS

LEMMA BitType ==
  ASSUME NEW x \in Nat, NEW k \in Nat
  PROVE  BitOf(x, k) \in {0, 1} /\ x \div Two[k] \in Nat
<1>1. Two[k] \in Nat /\ Two[k] >= 1
  BY TwoType
<1>2. x \div Two[k] \in Nat
  BY <1>1, Division
<1> QED
  BY <1>2 DEF BitOf

LEMMA BitOfZero ==
  ASSUME NEW k \in Nat
  PROVE  BitOf(0, k) = 0
<1>1. Two[k] \in Nat /\ Two[k] >= 1
  BY TwoType
<1>2. 0 \div Two[k] = 0
  BY <1>1
<1> QED
  BY <1>2 DEF BitOf

\* a below bit p and b from there.
LEMMA Joined ==
  ASSUME NEW a \in Nat, NEW b \in Nat, NEW p \in Nat, a < Two[p]
  PROVE  /\ a + b * Two[p] \in Nat
         /\ (a + b * Two[p]) \div Two[p] = b
         /\ (a + b * Two[p]) % Two[p] = a
<1>1. PICK d \in Nat : d = Two[p] /\ d >= 1
  BY TwoType
<1>2. a + b * d = d * b + a
  OBVIOUS
<1>3. d * b + a \in Nat
  OBVIOUS
<1> QED
  BY <1>1, <1>2, <1>3, DivisionIs

\* The bits from bit p on, and those below bit p.
LEMMA BitsAbove ==
  ASSUME NEW x \in Nat, NEW p \in Nat, NEW j \in Nat
  PROVE  BitOf(x \div Two[p], j) = BitOf(x, p + j)
<1>1. Two[p] \in Nat /\ Two[p] >= 1 /\ Two[j] \in Nat /\ Two[j] >= 1
  BY TwoType
<1>2. Two[p + j] = Two[p] * Two[j]
  BY TwoOfSum
<1>3. x \div (Two[p] * Two[j]) = (x \div Two[p]) \div Two[j]
  BY <1>1, DivisionTwice
<1> QED
  BY <1>2, <1>3 DEF BitOf

LEMMA BitsBelow ==
  ASSUME NEW x \in Nat, NEW p \in Nat, NEW j \in Nat, j < p
  PROVE  BitOf(x % Two[p], j) = BitOf(x, j)
<1>1. PICK d \in Nat, e \in Nat, c \in Nat :
        d = Two[p] /\ e = Two[j] /\ c = Two[p - j - 1] /\ d >= 1 /\ e >= 1
  <2>1. p - j - 1 \in Nat
    OBVIOUS
  <2> QED
    BY <2>1, TwoType
<1>2. d = e * (2 * c)
  <2>1. p - j - 1 \in Nat /\ (p - j - 1) + 1 \in Nat /\ j + ((p - j - 1) + 1) = p
    OBVIOUS
  <2>2. Two[(p - j - 1) + 1] = 2 * c
    BY <1>1, <2>1, TwoIs
  <2>3. Two[j + ((p - j - 1) + 1)] = e * (2 * c)
    BY <1>1, <2>1, <2>2, TwoOfSum
  <2> QED
    BY <1>1, <2>1, <2>3
<1>3. PICK q \in Nat, r \in Nat : x = d * q + r /\ r = x % d
  BY <1>1, Division
<1>4. PICK u \in Nat, v \in Nat : r = e * u + v /\ v < e /\ u = r \div e
  BY <1>1, Division
<1>5. x = e * (2 * (c * q) + u) + v
  <2>1. d * q = e * (2 * (c * q))
    BY <1>2
  <2>2. PICK w \in Nat : w = 2 * (c * q)
    OBVIOUS
  <2>3. e * (w + u) = e * w + e * u
    OBVIOUS
  <2>4. x = e * w + (e * u + v)
    BY <1>3, <1>4, <2>1, <2>2
  <2>5. x = e * (w + u) + v
    BY <2>3, <2>4
  <2> QED
    BY <2>2, <2>5
<1>6. PICK w \in Nat : w = c * q
  OBVIOUS
<1>7. x \div e = 2 * w + u
  <2>1. 2 * w + u \in Nat
    OBVIOUS
  <2> QED
    BY <1>4, <1>5, <1>6, <2>1, DivisionIs
<1>8. (2 * w + u) % 2 = u % 2
  OBVIOUS
<1> QED
  BY <1>1, <1>3, <1>4, <1>7, <1>8 DEF BitOf

\* The bits of such a number.
LEMMA JoinedBits ==
  ASSUME NEW a \in Nat, NEW b \in Nat, NEW p \in Nat, a < Two[p], NEW j \in Nat
  PROVE  /\ j < p => BitOf(a + b * Two[p], j) = BitOf(a, j)
         /\ j >= p => BitOf(a + b * Two[p], j) = BitOf(b, j - p)
<1> DEFINE x == a + b * Two[p]
<1>1. x \in Nat /\ x \div Two[p] = b /\ x % Two[p] = a
  BY Joined
<1> HIDE DEF x
<1>2. CASE j < p
  BY <1>1, <1>2, BitsBelow DEF x
<1>3. CASE j >= p
  <2>1. j - p \in Nat /\ p + (j - p) = j
    BY <1>3
  <2>2. BitOf(x \div Two[p], j - p) = BitOf(x, p + (j - p))
    BY <1>1, <2>1, BitsAbove
  <2> QED
    BY <1>1, <1>3, <2>1, <2>2 DEF x
<1> QED
  BY <1>2, <1>3

\* A number below 2^n has no bit from n on.
LEMMA NoBitsAbove ==
  ASSUME NEW n \in Nat, NEW a \in Nat, a < Two[n], NEW j \in Nat, j >= n
  PROVE  BitOf(a, j) = 0
<1>1. PICK d \in Nat, e \in Nat : d = Two[n] /\ e = Two[j] /\ e >= d
  <2>1. PICK c \in Nat : c = Two[j - n] /\ c >= 1
    BY TwoType
  <2>2. n + (j - n) = j /\ j - n \in Nat
    OBVIOUS
  <2>3. Two[j] = Two[n] * c
    BY <2>1, <2>2, TwoOfSum
  <2>4. PICK d \in Nat, e \in Nat : d = Two[n] /\ e = Two[j]
    BY TwoType
  <2>5. e = d * c
    BY <2>3, <2>4
  <2>6. e >= d
    BY <2>1, <2>5
  <2> QED
    BY <2>4, <2>6
<1>2. a < e
  BY <1>1
<1>3. a \div e = 0
  BY <1>2
<1> QED
  BY <1>1, <1>3 DEF BitOf

\* Two numbers below 2^n with the same bits are the same.
LEMMA SameBits ==
  ASSUME NEW n \in Nat, NEW a \in Nat, NEW b \in Nat, a < Two[n], b < Two[n],
         \A k \in 0 .. n - 1 : BitOf(a, k) = BitOf(b, k)
  PROVE  a = b
<1> DEFINE I == {i \in 0 .. n : a % Two[i] = b % Two[i]}
<1>1. 0 \in I
  BY TwoIs
<1>2. ASSUME NEW i \in 0 .. n - 1, i \in I PROVE i + 1 \in I
  <2>1. PICK d \in Nat : d = Two[i] /\ d >= 1 /\ Two[i + 1] = 2 * d
    BY TwoIs, TwoType
  <2>2. ASSUME NEW x \in Nat
        PROVE  x % Two[i + 1] = d * ((x \div d) % 2) + (x % d)
    <3>0. x \div d \in Nat /\ x % d \in Nat /\ x % d < d /\ x = d * (x \div d) + (x % d)
      BY <2>1, Division
    <3>1. PICK q \in Nat, r \in Nat : q = x \div d /\ r = x % d /\ r < d /\ x = d * q + r
      BY <3>0
    <3>2. PICK h \in Nat, l \in {0, 1} : q = 2 * h + l /\ l = q % 2
      OBVIOUS
    <3>3. x = (2 * d) * h + (d * l + r)
      BY <3>1, <3>2
    <3>4. d * l + r \in Nat /\ d * l + r < 2 * d /\ 2 * d \in Nat
      BY <3>1, <3>2
    <3>5. x % (2 * d) = d * l + r
      <4> DEFINE z == d * l + r
                 y == 2 * d
      <4>1. z \in Nat /\ z < y /\ y \in Nat /\ x = y * h + z
        BY <3>3, <3>4
      <4> HIDE DEF z, y
      <4>2. x % y = z
        BY <4>1, DivisionIs
      <4> QED
        BY <4>2 DEF z, y
    <3> QED
      BY <2>1, <3>1, <3>2, <3>5
  <2>3. (a \div d) % 2 = (b \div d) % 2
    BY <2>1 DEF BitOf
  <2>4. a % d = b % d
    BY <1>2, <2>1
  <2>5. a % Two[i + 1] = b % Two[i + 1]
    BY <2>2, <2>3, <2>4
  <2>6. i + 1 \in 0 .. n
    OBVIOUS
  <2> QED
    BY <2>5, <2>6
<1>3. n \in I
  <2>1. n \in 0 .. n
    OBVIOUS
  <2> HIDE DEF I
  <2> QED
    BY <1>1, <1>2, <2>1, Adding!UpTo
<1>4. PICK d \in Nat : d = Two[n] /\ d >= 1
  BY TwoType
<1>5. a % d = a /\ b % d = b
  BY <1>4
<1> QED
  BY <1>3, <1>4, <1>5

-----------------------------------------------------------------------------
(***************************************************************************)
(* The pieces of a signal.                                                 *)
(***************************************************************************)

LEMMA MinOfTwo ==
  ASSUME NEW a \in Nat, NEW b \in Nat
  PROVE  Min({a, b}) = IF a <= b THEN a ELSE b
<1>1. {a, b} \in SUBSET Nat /\ {a, b} # {}
  OBVIOUS
<1>2. Min({a, b}) \in {a, b} /\ \A x \in {a, b} : Min({a, b}) <= x
  BY <1>1, Adding!LeastOf DEF Min
<1> QED
  BY <1>2

HasBits(s) == s.start \in Nat /\ s.length \in Nat /\ s.length >= 1

Piece == [byte : Nat, at : 0 .. 7, n : 1 .. 8, from : Nat]

\* The bits of a signal from the first to the last, byte by byte.
Splits(ps, m, s) ==
  /\ m \in Nat /\ m >= 1 /\ DOMAIN ps = 1 .. m
  /\ \A j \in 1 .. m :
       /\ ps[j] \in Piece
       /\ ps[j].byte = (s.start \div 8) + j - 1
       /\ ps[j].at + ps[j].n <= 8
       /\ 8 * ps[j].byte + ps[j].at = s.start + ps[j].from
       /\ ps[j].from + ps[j].n <= s.length
       /\ j = 1 => ps[j].from = 0
       /\ j < m => ps[j + 1].from = ps[j].from + ps[j].n
       /\ j = m => ps[j].from + ps[j].n = s.length

\* The pieces that start with their byte, for a signal of which `head' bits are
\* before them.
WholePieces(s, head) ==
  [i \in 1 .. ((s.length - head) + 7) \div 8 |->
     [byte |-> (s.start + head) \div 8 + i - 1, at |-> 0,
      n |-> Min({8, (s.length - head) - 8 * (i - 1)}), from |-> head + 8 * (i - 1)]]

\* The pieces after the first are whole bytes, but for the last.
LEMMA WholePiecesAre ==
  ASSUME NEW s, HasBits(s), NEW head \in Nat, head <= s.length,
         head = s.length \/ (s.start + head) % 8 = 0
  PROVE  \E m \in Nat :
           /\ WholePieces(s, head) \in Seq(Piece) /\ Len(WholePieces(s, head)) = m
           /\ m = 0 <=> head = s.length
           /\ \A i \in 1 .. m :
                /\ WholePieces(s, head)[i].byte = ((s.start + head) \div 8) + i - 1
                /\ WholePieces(s, head)[i].at = 0
                /\ 8 * WholePieces(s, head)[i].byte = s.start + WholePieces(s, head)[i].from
                /\ WholePieces(s, head)[i].from = head + 8 * (i - 1)
                /\ i < m => WholePieces(s, head)[i].n = 8
                /\ i = m => head + 8 * (i - 1) + WholePieces(s, head)[i].n = s.length
<1>0. PICK st \in Nat, l \in Nat : st = s.start /\ l = s.length /\ l >= 1
  BY DEF HasBits
<1> DEFINE r == l - head
           m == (r + 7) \div 8
           first == (st + head) \div 8
           w == WholePieces(s, head)
<1>1. r \in Nat /\ m \in Nat /\ first \in Nat
  BY <1>0
<1>2. m = 0 <=> r = 0
  BY <1>1
<1>3. m # 0 => 8 * first = st + head
  <2>1. m # 0 => (st + head) % 8 = 0
    BY <1>0, <1>2
  <2> QED
    BY <2>1
<1>4. 8 * m >= r /\ (m # 0 => 8 * (m - 1) < r)
  BY <1>1
<1>5. DOMAIN w = 1 .. m
  BY <1>0 DEF WholePieces
<1> HIDE DEF r, m, first, w
<1>6. ASSUME NEW i \in 1 .. m
      PROVE  /\ w[i] \in Piece
             /\ w[i].byte = first + i - 1 /\ w[i].at = 0 /\ w[i].from = head + 8 * (i - 1)
             /\ 8 * w[i].byte = st + w[i].from
             /\ i < m => w[i].n = 8
             /\ i = m => head + 8 * (i - 1) + w[i].n = l
  <2>1. i - 1 \in Nat /\ r - 8 * (i - 1) \in Nat /\ r - 8 * (i - 1) >= 1
    BY <1>1, <1>4
  <2> DEFINE k == r - 8 * (i - 1)
  <2>2. Min({8, k}) = IF 8 <= k THEN 8 ELSE k
    BY <2>1, MinOfTwo
  <2>3. w[i] = [byte |-> first + i - 1, at |-> 0, n |-> Min({8, k}), from |-> head + 8 * (i - 1)]
    BY <1>0 DEF w, WholePieces, first, r, m
  <2>4. k \in Nat /\ k >= 1 /\ k = r - 8 * (i - 1)
    BY <2>1
  <2> HIDE DEF k
  <2>5. PICK n \in 1 .. 8 : n = Min({8, k}) /\ n = IF 8 <= k THEN 8 ELSE k
    BY <2>2, <2>4
  <2>6. first + i - 1 \in Nat /\ head + 8 * (i - 1) \in Nat
    BY <1>1, <2>1
  <2>7. w[i] \in Piece
    BY <2>3, <2>5, <2>6 DEF Piece
  <2>8. 8 * (first + i - 1) = st + (head + 8 * (i - 1))
    BY <1>1, <1>3
  <2>9. i < m => n = 8
    <3>1. SUFFICES ASSUME i < m PROVE k >= 8
      BY <2>5
    <3>2. 8 * i <= 8 * (m - 1) /\ 8 * (m - 1) < r
      BY <1>1, <1>4, <3>1
    <3> QED
      BY <1>1, <2>4, <3>2
  <2>10. i = m => head + 8 * (i - 1) + n = l
    <3>1. SUFFICES ASSUME i = m PROVE n = k
      BY <1>1, <2>4 DEF r
    <3>2. k <= 8
      BY <1>1, <1>4, <2>4, <3>1
    <3> QED
      BY <2>4, <2>5, <3>2
  <2> QED
    BY <2>3, <2>5, <2>7, <2>8, <2>9, <2>10
<1>7. w \in Seq(Piece) /\ Len(w) = m
  <2>1. w = [i \in 1 .. m |-> w[i]]
    BY <1>5 DEF w, WholePieces
  <2>2. w \in [1 .. m -> Piece]
    BY <1>6, <2>1
  <2> QED
    BY <1>1, <2>2
<1>8. m = 0 <=> head = l
  BY <1>1, <1>2 DEF r
<1> QED
  BY <1>0, <1>1, <1>6, <1>7, <1>8 DEF w, first

\* The pieces of a signal split its bits.
LEMMA PiecesSplit ==
  ASSUME NEW s, HasBits(s)
  PROVE  \E m : Splits(Pieces(s), m, s)
<1>0. PICK st \in Nat, l \in Nat : st = s.start /\ l = s.length /\ l >= 1
  BY DEF HasBits
<1>1. PICK f \in Nat, o \in 0 .. 7 : st = 8 * f + o /\ o = st % 8 /\ f = st \div 8
  <2>1. st % 8 \in 0 .. 7 /\ st \div 8 \in Nat /\ st = 8 * (st \div 8) + (st % 8)
    OBVIOUS
  <2> QED
    BY <2>1
<1>2. CASE o = 0
  <2> DEFINE w == WholePieces(s, 0)
  <2>1. Pieces(s) = <<>> \o w
    BY <1>0, <1>1, <1>2 DEF Pieces, WholePieces
  <2>2. 0 \in Nat /\ 0 <= l /\ (st + 0) % 8 = 0 /\ (st + 0) \div 8 = f
    BY <1>1, <1>2
  <2>3. PICK m \in Nat :
           /\ w \in Seq(Piece) /\ Len(w) = m
           /\ m = 0 <=> 0 = l
           /\ \A i \in 1 .. m :
                /\ w[i].byte = f + i - 1
                /\ w[i].at = 0
                /\ 8 * w[i].byte = st + w[i].from
                /\ w[i].from = 0 + 8 * (i - 1)
                /\ i < m => w[i].n = 8
                /\ i = m => 0 + 8 * (i - 1) + w[i].n = l
    <3> HIDE DEF w
    <3>1. \E m \in Nat :
           /\ w \in Seq(Piece) /\ Len(w) = m
           /\ m = 0 <=> 0 = s.length
           /\ \A i \in 1 .. m :
                /\ w[i].byte = ((s.start + 0) \div 8) + i - 1
                /\ w[i].at = 0
                /\ 8 * w[i].byte = s.start + w[i].from
                /\ w[i].from = 0 + 8 * (i - 1)
                /\ i < m => w[i].n = 8
                /\ i = m => 0 + 8 * (i - 1) + w[i].n = s.length
      <4>1. 0 <= s.length /\ (s.start + 0) % 8 = 0
        BY <1>0, <2>2
      <4> QED
        BY <4>1, WholePiecesAre DEF w
    <3> QED
      BY <1>0, <2>2, <3>1
  <2> HIDE DEF w
  <2>4. Pieces(s) = w
    BY <2>1, <2>3
  <2>5. m >= 1 /\ DOMAIN w = 1 .. m
    BY <1>0, <2>3
  <2>6. ASSUME NEW j \in 1 .. m
        PROVE  /\ w[j] \in Piece
               /\ w[j].byte = f + j - 1
               /\ w[j].at + w[j].n <= 8
               /\ 8 * w[j].byte + w[j].at = st + w[j].from
               /\ w[j].from + w[j].n <= l
               /\ j = 1 => w[j].from = 0
               /\ j < m => w[j + 1].from = w[j].from + w[j].n
               /\ j = m => w[j].from + w[j].n = l
    <3>1. w[j] \in Piece
      BY <2>3, <2>5
    <3>2. PICK n \in 1 .. 8, b \in Nat, u \in Nat :
             n = w[j].n /\ b = w[j].byte /\ u = w[j].from /\ w[j].at = 0
      BY <2>3, <3>1 DEF Piece
    <3>3. b = f + j - 1 /\ 8 * b = st + u /\ u = 8 * (j - 1)
      BY <2>3, <3>2
    <3>4. j < m => n = 8 /\ w[j + 1].from = 8 * j
      <4>1. j < m => j + 1 \in 1 .. m /\ (j + 1) - 1 = j
        OBVIOUS
      <4> QED
        BY <2>3, <3>2, <4>1
    <3>5. j = m => u + n = l
      BY <2>3, <3>2
    <3>6. PICK last \in 1 .. 8 : 8 * (m - 1) + last = l
      <4>1. m \in 1 .. m
        BY <2>5
      <4>2. w[m] \in Piece
        BY <2>3, <2>5, <4>1
      <4>3. w[m].n \in 1 .. 8
        BY <4>2 DEF Piece
      <4>4. 0 + 8 * (m - 1) + w[m].n = l
        BY <2>3, <4>1
      <4>5. 8 * (m - 1) + w[m].n = l
        BY <4>3, <4>4
      <4> QED
        BY <4>3, <4>5
    <3>7. u + n <= l
      BY <3>3, <3>4, <3>5, <3>6
    <3> QED
      BY <3>1, <3>2, <3>3, <3>4, <3>5, <3>7
  <2>7. Splits(w, m, s)
    BY <1>0, <1>1, <2>3, <2>5, <2>6 DEF Splits
  <2> QED
    BY <2>4, <2>7
<1>3. CASE o # 0
  <2>1. PICK a \in Nat : a = 8 - o /\ a >= 1
    BY <1>1
  <2>2. PICK head \in 1 .. 7 : head = Min({a, l}) /\ head = IF a <= l THEN a ELSE l
    BY <1>0, <1>1, <1>3, <2>1, MinOfTwo
  <2>3. head <= l /\ o + head <= 8 /\ head # 0
    BY <2>1, <2>2
  <2> DEFINE w == WholePieces(s, head)
             e == [byte |-> f, at |-> o, n |-> head, from |-> 0]
  <2>4. Pieces(s) = <<e>> \o w
    <3>1. (IF s.start % 8 = 0 THEN 0 ELSE Min({8 - (s.start % 8), s.length})) = head
      BY <1>0, <1>1, <1>3, <2>1, <2>2
    <3> QED
      BY <1>0, <1>1, <2>3, <3>1 DEF Pieces, WholePieces
  <2>5. head = l \/ ((st + head) % 8 = 0 /\ (st + head) \div 8 = f + 1)
    BY <1>1, <2>1, <2>2
  <2> HIDE DEF w
  <2>6. PICK m \in Nat :
           /\ w \in Seq(Piece) /\ Len(w) = m
           /\ m = 0 <=> head = l
           /\ \A i \in 1 .. m :
                /\ w[i].byte = f + i
                /\ w[i].at = 0
                /\ 8 * w[i].byte = st + w[i].from
                /\ w[i].from = head + 8 * (i - 1)
                /\ i < m => w[i].n = 8
                /\ i = m => head + 8 * (i - 1) + w[i].n = l
    <3>1. \E m \in Nat :
           /\ w \in Seq(Piece) /\ Len(w) = m
           /\ m = 0 <=> head = s.length
           /\ \A i \in 1 .. m :
                /\ w[i].byte = ((s.start + head) \div 8) + i - 1
                /\ w[i].at = 0
                /\ 8 * w[i].byte = s.start + w[i].from
                /\ w[i].from = head + 8 * (i - 1)
                /\ i < m => w[i].n = 8
                /\ i = m => head + 8 * (i - 1) + w[i].n = s.length
      <4>1. head \in Nat /\ head <= s.length /\ (head = s.length \/ (s.start + head) % 8 = 0)
        BY <1>0, <2>3, <2>5
      <4> QED
        BY <4>1, WholePiecesAre DEF w
    <3>2. PICK m \in Nat :
           /\ w \in Seq(Piece) /\ Len(w) = m
           /\ m = 0 <=> head = l
           /\ \A i \in 1 .. m :
                /\ w[i].byte = ((st + head) \div 8) + i - 1
                /\ w[i].at = 0
                /\ 8 * w[i].byte = st + w[i].from
                /\ w[i].from = head + 8 * (i - 1)
                /\ i < m => w[i].n = 8
                /\ i = m => head + 8 * (i - 1) + w[i].n = l
      BY <1>0, <3>1
    <3>3. ASSUME NEW i \in 1 .. m PROVE w[i].byte = f + i
      <4>0. i \in Nat /\ head # l
        BY <3>2
      <4>1. (st + head) \div 8 = f + 1
        BY <2>5, <4>0
      <4>2. w[i].byte = ((st + head) \div 8) + i - 1
        BY <3>2
      <4>3. w[i].byte = (f + 1) + i - 1
        BY <4>1, <4>2
      <4> QED
        BY <4>0, <4>3
    <3> QED
      BY <3>2, <3>3
  <2>7. e \in Piece
    BY <2>2 DEF Piece
  <2> DEFINE ps == <<e>> \o w
  <2>8. /\ DOMAIN ps = 1 .. m + 1 /\ ps[1] = e
        /\ \A i \in 1 .. m : ps[i + 1] = w[i] /\ w[i] \in Piece
    BY <2>6, <2>7
  <2>9. e.byte = f /\ e.at = o /\ e.n = head /\ e.from = 0
    OBVIOUS
  <2> HIDE DEF ps, e
  <2>12. ASSUME NEW j \in 1 .. m + 1
        PROVE  /\ ps[j] \in Piece
               /\ ps[j].byte = f + j - 1
               /\ ps[j].at + ps[j].n <= 8
               /\ 8 * ps[j].byte + ps[j].at = st + ps[j].from
               /\ ps[j].from + ps[j].n <= l
               /\ j = 1 => ps[j].from = 0
               /\ j < m + 1 => ps[j + 1].from = ps[j].from + ps[j].n
               /\ j = m + 1 => ps[j].from + ps[j].n = l
    <3>1. CASE j = 1
      <4>1. j < m + 1 => ps[j + 1].from = head
        <5>1. SUFFICES ASSUME j < m + 1 PROVE ps[1 + 1].from = head
          BY <3>1
        <5>2. 1 \in 1 .. m
          BY <3>1, <5>1
        <5>3. w[1].from = head + 8 * (1 - 1) /\ ps[1 + 1] = w[1]
          BY <2>6, <2>8, <5>2
        <5> QED
          BY <5>3
      <4>2. j = m + 1 => head = l
        BY <2>6, <3>1
      <4>3. ps[j] = e /\ 8 * f + o = st + 0 /\ f = f + j - 1 /\ head <= l
        BY <1>1, <2>3, <2>8, <3>1
      <4> QED
        BY <2>3, <2>7, <2>9, <3>1, <4>1, <4>2, <4>3
    <3>2. CASE j # 1
      <4>1. PICK i \in 1 .. m : j = i + 1
        <5>1. j - 1 \in 1 .. m /\ (j - 1) + 1 = j
          BY <3>2
        <5> QED
          BY <5>1
      <4>2. ps[j] = w[i] /\ w[i] \in Piece
        BY <2>8, <4>1
      <4>3. PICK n \in 1 .. 8, b \in Nat, u \in Nat :
               n = w[i].n /\ b = w[i].byte /\ u = w[i].from /\ w[i].at = 0
        BY <2>6, <4>2 DEF Piece
      <4>4. b = f + i /\ 8 * b = st + u /\ u = head + 8 * (i - 1)
        BY <2>6, <4>3
      <4>5. i < m => n = 8 /\ ps[j + 1].from = head + 8 * i
        <5>1. i < m => i + 1 \in 1 .. m /\ (i + 1) - 1 = i /\ j + 1 = (i + 1) + 1
          BY <4>1
        <5>2. i < m => ps[(i + 1) + 1] = w[i + 1] /\ w[i + 1].from = head + 8 * ((i + 1) - 1)
          BY <2>6, <2>8, <5>1
        <5>3. i < m => n = 8
          BY <2>6, <4>3
        <5> QED
          BY <5>1, <5>2, <5>3
      <4>6. i = m => u + n = l
        BY <2>6, <4>3
      <4>7. PICK last \in 1 .. 8 : head + 8 * (m - 1) + last = l
        <5>1. m \in 1 .. m
          OBVIOUS
        <5>2. w[m] \in Piece
          BY <2>8, <5>1
        <5> QED
          BY <2>6, <5>1, <5>2 DEF Piece
      <4>8. u + n <= l
        BY <4>4, <4>5, <4>6, <4>7
      <4>9. j < m + 1 => ps[j + 1].from = u + n
        BY <4>1, <4>4, <4>5
      <4> QED
        BY <3>2, <4>1, <4>2, <4>3, <4>4, <4>6, <4>8, <4>9
    <3> QED
      BY <3>1, <3>2
  <2>13. Splits(ps, m + 1, s)
    BY <1>0, <1>1, <2>8, <2>12 DEF Splits
  <2> QED
    BY <2>4, <2>13 DEF ps, e
<1> QED
  BY <1>2, <1>3

-----------------------------------------------------------------------------
(***************************************************************************)
(* The bits of a byte.                                                     *)
(***************************************************************************)

\* Bounds of sums and quotients.
LEMMA JoinedBelow ==
  ASSUME NEW a \in Nat, NEW b \in Nat, NEW d \in Nat, NEW n \in Nat, a < d, b < n
  PROVE  a + b * d < n * d
<1>1. PICK k \in Nat : n = b + 1 + k
  <2>1. n - b - 1 \in Nat
    OBVIOUS
  <2> QED
    BY <2>1
<1>2. n * d = b * d + d + k * d
  BY <1>1
<1>3. b * d \in Nat /\ k * d \in Nat
  OBVIOUS
<1> QED
  BY <1>2, <1>3

LEMMA QuotientBelow ==
  ASSUME NEW x \in Nat, NEW d \in Nat, NEW n \in Nat, x < n * d, d >= 1
  PROVE  x \div d < n
<1>1. PICK q \in Nat, r \in Nat : x = d * q + r /\ q = x \div d
  <2>1. x \div d \in Nat /\ x % d \in Nat /\ x = d * (x \div d) + (x % d)
    BY Division
  <2> QED
    BY <2>1
<1>2. ASSUME q >= n PROVE FALSE
  <2>1. PICK k \in Nat : q = n + k
    <3>1. q - n \in Nat
      BY <1>2
    <3> QED
      BY <3>1
  <2>2. d * q = n * d + k * d
    BY <2>1
  <2>3. k * d \in Nat /\ n * d \in Nat
    OBVIOUS
  <2> QED
    BY <1>1, <2>2, <2>3
<1> QED
  BY <1>1, <1>2

Byte == 0 .. 255

LEMMA ByteBelow ==
  ASSUME NEW byte
  PROVE  byte \in Byte <=> byte \in Nat /\ byte < Two[8]
BY SmallPowers DEF Byte

\* WriteBits() sets the bits of its piece and leaves the others of the byte.
LEMMA WrittenBits ==
  ASSUME NEW byte \in Byte, NEW piece \in Piece, piece.at + piece.n <= 8, NEW value \in Nat
  PROVE  /\ WriteBits(byte, piece, value) \in Byte
         /\ \A j \in 0 .. 7 :
              BitOf(WriteBits(byte, piece, value), j) =
                IF j >= piece.at /\ j < piece.at + piece.n THEN BitOf(value, j - piece.at)
                ELSE BitOf(byte, j)
<1>1. PICK p \in Nat, n \in Nat : p = piece.at /\ n = piece.n /\ p + n <= 8
  BY DEF Piece
<1>2. PICK d \in Nat, e \in Nat, h \in Nat :
        /\ d = Two[p] /\ e = Two[n] /\ h = Two[p + n] /\ h = e * d
        /\ d >= 1 /\ e >= 1 /\ h >= 1
  <2>1. Two[p] \in Nat /\ Two[n] \in Nat /\ Two[p + n] \in Nat
        /\ Two[p] >= 1 /\ Two[n] >= 1 /\ Two[p + n] >= 1
    BY TwoType
  <2>2. Two[p + n] = Two[p] * Two[n]
    BY TwoOfSum
  <2>3. Two[p] * Two[n] = Two[n] * Two[p]
    BY <2>1
  <2> QED
    BY <2>1, <2>2, <2>3
<1>3. byte \in Nat /\ byte < Two[8]
  BY ByteBelow
<1>4. PICK a \in Nat : a = byte % d /\ a < d
  <2>1. byte % d \in Nat /\ byte % d < d
    BY <1>2, <1>3, Division
  <2> QED
    BY <2>1
<1>5. PICK v \in Nat : v = value % e /\ v < e
  <2>1. value % e \in Nat /\ value % e < e
    BY <1>2, Division
  <2> QED
    BY <2>1
<1>6. PICK c \in Nat : c = byte \div h
  <2>1. byte \div h \in Nat
    BY <1>2, <1>3, Division
  <2> QED
    BY <2>1
<1>7. PICK y \in Nat : y = a + v * d /\ y < h
  <2>1. a + v * d \in Nat
    OBVIOUS
  <2>2. a + v * d < e * d
    BY <1>4, <1>5, JoinedBelow
  <2> QED
    BY <1>2, <2>1, <2>2
<1>8. WriteBits(byte, piece, value) = y + c * h
  BY <1>1, <1>2, <1>4, <1>5, <1>6, <1>7 DEF WriteBits
<1>9. y + c * h \in Nat /\ y + c * h < Two[8]
  <2>1. PICK g \in Nat : g = Two[8 - (p + n)]
    BY <1>1, TwoType
  <2>2. Two[8] = g * h
    <3>1. 8 - (p + n) \in Nat /\ p + n \in Nat /\ (8 - (p + n)) + (p + n) = 8
      BY <1>1
    <3> QED
      BY <1>2, <2>1, <3>1, TwoOfSum
  <2>3. c < g
    BY <1>2, <1>3, <1>6, <2>2, QuotientBelow
  <2>4. y + c * h < g * h
    BY <1>7, <2>3, JoinedBelow
  <2>5. y + c * h \in Nat
    OBVIOUS
  <2> QED
    BY <2>2, <2>4, <2>5
<1>10. ASSUME NEW j \in 0 .. 7
       PROVE  BitOf(y + c * h, j) = IF j >= p /\ j < p + n THEN BitOf(value, j - p)
                                    ELSE BitOf(byte, j)
  <2>0. /\ j \in Nat /\ p + n \in Nat /\ y < Two[p + n] /\ a < Two[p]
        /\ y + c * h = y + c * Two[p + n] /\ y = a + v * Two[p]
    BY <1>2, <1>4, <1>7
  <2>1. CASE j >= p + n
    <3>1. BitOf(y + c * Two[p + n], j) = BitOf(c, j - (p + n))
      BY ONLY <2>0, <2>1, JoinedBits, y \in Nat, c \in Nat
    <3>2. j - (p + n) \in Nat /\ (p + n) + (j - (p + n)) = j /\ p + n \in Nat
      BY <2>1
    <3>3. BitOf(byte \div Two[p + n], j - (p + n)) = BitOf(byte, (p + n) + (j - (p + n)))
      BY <1>3, <3>2, BitsAbove
    <3> QED
      BY <1>2, <1>6, <2>1, <3>1, <3>2, <3>3
  <2>2. CASE j < p + n
    <3>1. BitOf(y + c * Two[p + n], j) = BitOf(y, j)
      BY ONLY <2>0, <2>2, JoinedBits, y \in Nat, c \in Nat
    <3>2. CASE j < p
      <4>1. BitOf(a + v * Two[p], j) = BitOf(a, j)
        BY ONLY <2>0, <3>2, JoinedBits, a \in Nat, v \in Nat, p \in Nat
      <4>2. BitOf(byte % Two[p], j) = BitOf(byte, j)
        BY <1>3, <3>2, BitsBelow
      <4> QED
        BY <1>2, <1>4, <1>7, <3>1, <3>2, <4>1, <4>2
    <3>3. CASE j >= p
      <4>1. BitOf(a + v * Two[p], j) = BitOf(v, j - p)
        BY <1>2, <1>4, <3>3, JoinedBits
      <4>2. j - p \in Nat /\ j - p < n
        BY <2>2, <3>3
      <4>3. BitOf(value % Two[n], j - p) = BitOf(value, j - p)
        BY <4>2, BitsBelow
      <4> QED
        BY <1>2, <1>5, <1>7, <2>2, <3>1, <3>3, <4>1, <4>3
    <3> QED
      BY <3>2, <3>3
  <2> QED
    BY <2>1, <2>2
<1>11. y + c * h \in Byte
  BY <1>9, ByteBelow
<1> QED
  BY <1>1, <1>8, <1>10, <1>11

\* ReadBits() has the bits of its piece and no others.
LEMMA ReadIs ==
  ASSUME NEW byte \in Byte, NEW piece \in Piece
  PROVE  /\ ReadBits(byte, piece) \in Nat
         /\ ReadBits(byte, piece) < Two[piece.n]
         /\ \A j \in 0 .. piece.n - 1 :
              BitOf(ReadBits(byte, piece), j) = BitOf(byte, piece.at + j)
<1>1. PICK p \in Nat, n \in Nat : p = piece.at /\ n = piece.n
  BY DEF Piece
<1>2. Two[p] \in Nat /\ Two[p] >= 1 /\ Two[n] \in Nat /\ Two[n] >= 1
  BY TwoType
<1>3. byte \in Nat
  BY DEF Byte
<1>4. PICK x \in Nat : x = byte \div Two[p]
  <2>1. byte \div Two[p] \in Nat
    BY <1>2, <1>3, Division
  <2> QED
    BY <2>1
<1>5. ReadBits(byte, piece) = x % Two[n]
  BY <1>1, <1>4 DEF ReadBits
<1>6. x % Two[n] \in Nat /\ x % Two[n] < Two[n]
  BY <1>2, Division
<1>7. ASSUME NEW j \in 0 .. n - 1 PROVE BitOf(x % Two[n], j) = BitOf(byte, p + j)
  <2>1. j \in Nat /\ j < n
    OBVIOUS
  <2>2. BitOf(x % Two[n], j) = BitOf(x, j)
    BY <2>1, BitsBelow
  <2>3. BitOf(byte \div Two[p], j) = BitOf(byte, p + j)
    BY <1>3, <2>1, BitsAbove
  <2> QED
    BY <1>4, <2>2, <2>3
<1> QED
  BY <1>1, <1>5, <1>6, <1>7

-----------------------------------------------------------------------------
(***************************************************************************)
(* Packing and unpacking.                                                  *)
(***************************************************************************)

\* A piece that is not the last ends with its byte, and the next one starts with
\* one: no two pieces are in the same byte.
LEMMA SplitsMeet ==
  ASSUME NEW ps, NEW m, NEW s, HasBits(s), Splits(ps, m, s)
  PROVE  \A j \in 1 .. m : (j > 1 => ps[j].at = 0) /\ (j < m => ps[j].at + ps[j].n = 8)
<1>0. m \in Nat /\ m >= 1 /\ DOMAIN ps = 1 .. m
  BY DEF Splits
<1>1. PICK st \in Nat, l \in Nat : st = s.start /\ l = s.length
  BY DEF HasBits
<1>2. ASSUME NEW j \in 1 .. m, j < m
      PROVE  ps[j].at + ps[j].n = 8 /\ ps[j + 1].at = 0
  <2>1. j + 1 \in 1 .. m
    BY <1>0, <1>2
  <2>2. ps[j] \in Piece /\ ps[j + 1] \in Piece
    BY <2>1 DEF Splits
  <2>3. PICK b \in Nat, p \in 0 .. 7, n \in 1 .. 8, u \in Nat :
           b = ps[j].byte /\ p = ps[j].at /\ n = ps[j].n /\ u = ps[j].from
    BY <2>2 DEF Piece
  <2>4. PICK c \in Nat, q \in 0 .. 7, v \in Nat :
           c = ps[j + 1].byte /\ q = ps[j + 1].at /\ v = ps[j + 1].from
    BY <2>2 DEF Piece
  <2>5. p + n <= 8 /\ 8 * b + p = st + u /\ v = u + n
    BY <1>1, <1>2, <2>3, <2>4 DEF Splits
  <2>6. 8 * c + q = st + v
    BY <1>1, <2>1, <2>4 DEF Splits
  <2>7. c = b + 1
    <3>1. PICK f \in Nat : f = s.start \div 8
      BY <1>1
    <3>2. b = f + j - 1
      BY <2>3, <3>1 DEF Splits
    <3>3. c = f + (j + 1) - 1
      BY <2>1, <2>4, <3>1 DEF Splits
    <3> QED
      BY <3>2, <3>3
  <2> QED
    BY <2>3, <2>4, <2>5, <2>6, <2>7
<1>3. ASSUME NEW j \in 1 .. m, j > 1 PROVE ps[j].at = 0
  <2>1. j - 1 \in 1 .. m /\ j - 1 < m /\ (j - 1) + 1 = j
    BY <1>0, <1>3
  <2> QED
    BY <1>2, <2>1
<1> QED
  BY <1>2, <1>3

Fits(s, len) == len \in Nat /\ s.start + s.length <= 8 * len

\* The bits of a signal are those of the raw value, and all others are what they
\* were.
PackedInto(new, old, s, len, raw) ==
  \A b \in 1 .. len : \A j \in 0 .. 7 :
    BitOf(new[b], j) =
      IF 8 * (b - 1) + j \in SignalBits(s) THEN BitOf(raw, 8 * (b - 1) + j - s.start)
      ELSE BitOf(old[b], j)

\* Packing writes the bits of the signal and no others.
LEMMA PackIs ==
  ASSUME NEW s, HasBits(s), NEW len, Fits(s, len), NEW payload \in [1 .. len -> Byte],
         NEW raw \in Nat
  PROVE  /\ Pack(payload, s, raw) \in [1 .. len -> Byte]
         /\ PackedInto(Pack(payload, s, raw), payload, s, len, raw)
<1>0. PICK st \in Nat, l \in Nat : st = s.start /\ l = s.length /\ l >= 1
  BY DEF HasBits
<1>1. PICK m : Splits(Pieces(s), m, s)
  BY PiecesSplit
<1> DEFINE ps == Pieces(s)
<1>2. m \in Nat /\ m >= 1 /\ DOMAIN ps = 1 .. m
  BY <1>1 DEF Splits
<1>3. PICK f \in Nat : f = s.start \div 8
  BY <1>0
<1>4. SignalBits(s) = st .. st + l - 1
  BY <1>0 DEF SignalBits
<1> DEFINE here(b) == {i \in DOMAIN ps : ps[i].byte = b - 1}
<1>5. ASSUME NEW b \in 1 .. len
      PROVE  /\ Pack(payload, s, raw)[b] =
                  IF here(b) = {} THEN payload[b]
                  ELSE WriteBits(payload[b], ps[CHOOSE i \in here(b) : TRUE],
                                 raw \div Two[ps[CHOOSE i \in here(b) : TRUE].from])
  BY DEF Pack
<1> HIDE DEF ps
<1>6. ASSUME NEW b \in 1 .. len
      PROVE  /\ Pack(payload, s, raw)[b] \in Byte
             /\ \A j \in 0 .. 7 :
                  BitOf(Pack(payload, s, raw)[b], j) =
                    IF 8 * (b - 1) + j \in SignalBits(s)
                    THEN BitOf(raw, 8 * (b - 1) + j - st) ELSE BitOf(payload[b], j)
  <2>0. b \in Nat /\ b >= 1 /\ payload[b] \in Byte
    BY DEF Fits
  <2>1. CASE here(b) = {}
    <3>1. Pack(payload, s, raw)[b] = payload[b]
      BY <1>5, <2>1
    <3>2. ASSUME NEW j \in 0 .. 7 PROVE 8 * (b - 1) + j \notin st .. st + l - 1
      <4>1. SUFFICES ASSUME 8 * (b - 1) + j \in st .. st + l - 1 PROVE FALSE
        OBVIOUS
      <4>2. ps[m] \in Piece /\ m \in 1 .. m
        BY <1>1, <1>2 DEF Splits, ps
      <4>3. PICK c \in Nat, p \in 0 .. 7, n \in 1 .. 8, u \in Nat :
               c = ps[m].byte /\ p = ps[m].at /\ n = ps[m].n /\ u = ps[m].from
        BY <4>2 DEF Piece
      <4>4. c = f + m - 1 /\ p + n <= 8 /\ 8 * c + p = st + u /\ u + n = l
        BY <1>0, <1>1, <1>3, <4>2, <4>3 DEF Splits, ps
      <4>5. b - 1 <= f + m - 1
        <5>1. m \in Nat
          BY <1>2
        <5>2. 8 * (b - 1) <= 8 * (f + m - 1) + 7
          <6>1. 8 * (b - 1) + j <= st + l - 1
            BY <1>0, <2>0, <4>1
          <6>2. st + l <= 8 * c + 8
            <7>1. p + n <= 8
              BY <4>4
            <7>2. 8 * c + p = st + u
              BY <4>4
            <7>3. u + n = l
              BY <4>4
            <7> QED
              BY <7>1, <7>2, <7>3
          <6>3. c = f + m - 1 /\ b \in Nat
            BY <4>4, <2>0
          <6>4. st \in Nat /\ l \in Nat
            BY <1>0
          <6>5. 8 * (b - 1) <= 8 * c + 7
            BY <6>1, <6>2, <6>3, <6>4
          <6> QED
            BY <6>3, <6>5
        <5> QED
          BY <2>0, <5>1, <5>2
      <4>6. 8 * f <= st /\ st < 8 * f + 8
        BY <1>0, <1>3
      <4>7. b - 1 >= f
        <5>1. 8 * (b - 1) + j >= st
          BY <1>0, <2>0, <4>1
        <5>2. 8 * (b - 1) + j >= 8 * f
          BY <1>0, <2>0, <4>6, <5>1
        <5> QED
          BY <2>0, <5>2
      <4>8. b - f \in 1 .. m
        BY <1>2, <2>0, <4>5, <4>7
      <4>9. ps[b - f].byte = f + (b - f) - 1
        BY <1>1, <1>3, <4>8 DEF Splits, ps
      <4>10. ps[b - f].byte = b - 1
        BY <2>0, <4>9
      <4> QED
        BY <1>2, <2>1, <4>8, <4>10
    <3> QED
      BY <1>4, <2>0, <3>1, <3>2
  <2>2. CASE here(b) # {}
    <3>1. PICK i : i = CHOOSE x \in here(b) : TRUE
      OBVIOUS
    <3>2. i \in here(b)
      BY <2>2, <3>1
    <3>3. i \in 1 .. m /\ ps[i].byte = b - 1 /\ ps[i] \in Piece /\ i \in Nat
      BY <1>1, <1>2, <3>2 DEF Splits, ps
    <3>4. PICK p \in 0 .. 7, n \in 1 .. 8, u \in Nat :
             p = ps[i].at /\ n = ps[i].n /\ u = ps[i].from
      BY <3>3 DEF Piece
    <3>5. p + n <= 8 /\ 8 * (b - 1) + p = st + u /\ u + n <= l
      BY <1>0, <1>1, <3>3, <3>4 DEF Splits, ps
    <3>6. i = 1 => u = 0
      BY <1>1, <3>3, <3>4 DEF Splits, ps
    <3>7. i = m => u + n = l
      BY <1>0, <1>1, <3>3, <3>4 DEF Splits, ps
    <3>8. (i > 1 => p = 0) /\ (i < m => p + n = 8)
      BY <1>1, <3>3, <3>4, SplitsMeet DEF ps
    <3>9. PICK v \in Nat : v = raw \div Two[u]
      BY BitType
    <3>10. Pack(payload, s, raw)[b] = WriteBits(payload[b], ps[i], v)
      BY <1>5, <2>2, <3>1, <3>4, <3>9
    <3>20. p \in Nat /\ n \in Nat /\ u \in Nat /\ st \in Nat /\ l \in Nat /\ m \in Nat
      <4>1. p \in Nat /\ n \in Nat /\ u \in Nat
        OBVIOUS
      <4>2. st \in Nat /\ l \in Nat
        OBVIOUS
      <4>3. m \in Nat
        BY <1>2
      <4> QED
        BY <4>1, <4>2, <4>3
    <3>11. /\ WriteBits(payload[b], ps[i], v) \in Byte
           /\ \A j \in 0 .. 7 :
                BitOf(WriteBits(payload[b], ps[i], v), j) =
                  IF j >= p /\ j < p + n THEN BitOf(v, j - p) ELSE BitOf(payload[b], j)
      <4>1. payload[b] \in Byte /\ ps[i] \in Piece /\ ps[i].at + ps[i].n <= 8 /\ v \in Nat
        BY <2>0, <3>3, <3>4, <3>5
      <4>2. /\ WriteBits(payload[b], ps[i], v) \in Byte
            /\ \A j \in 0 .. 7 :
                 BitOf(WriteBits(payload[b], ps[i], v), j) =
                   IF j >= ps[i].at /\ j < ps[i].at + ps[i].n THEN BitOf(v, j - ps[i].at)
                   ELSE BitOf(payload[b], j)
        BY <4>1, WrittenBits
      <4> QED
        BY <3>4, <4>2
    <3>12. ASSUME NEW j \in 0 .. 7
           PROVE  /\ j >= p /\ j < p + n <=> 8 * (b - 1) + j \in st .. st + l - 1
                  /\ j >= p => BitOf(v, j - p) = BitOf(raw, 8 * (b - 1) + j - st)
      <4>1. j >= p /\ j < p + n => 8 * (b - 1) + j \in st .. st + l - 1
        BY <2>0, <3>5, <3>20
      <4>2. j < p => 8 * (b - 1) + j < st
        <5>1. j < p => i = 1
          BY <1>2, <3>3, <3>4, <3>8
        <5> QED
          BY <2>0, <3>5, <3>6, <3>20, <5>1
      <4>3. j >= p + n => 8 * (b - 1) + j >= st + l
        <5>1. j >= p + n => i = m
          BY <1>2, <3>3, <3>4, <3>8
        <5> QED
          BY <2>0, <3>5, <3>7, <3>20, <5>1
      <4>4. ASSUME j >= p PROVE BitOf(v, j - p) = BitOf(raw, 8 * (b - 1) + j - st)
        <5>1. j - p \in Nat /\ u + (j - p) = 8 * (b - 1) + j - st
          BY <2>0, <3>5, <3>20, <4>4
        <5>2. BitOf(raw \div Two[u], j - p) = BitOf(raw, u + (j - p))
          BY <5>1, BitsAbove
        <5> QED
          BY <3>9, <5>1, <5>2
      <4>5. 8 * (b - 1) + j \in Int
        BY <2>0
      <4> QED
        BY <3>20, <4>1, <4>2, <4>3, <4>4, <4>5
    <3> QED
      BY <1>4, <3>10, <3>11, <3>12
  <2> QED
    BY <2>1, <2>2
<1>7. Pack(payload, s, raw) \in [1 .. len -> Byte]
  <2>1. Pack(payload, s, raw) = [b \in 1 .. len |-> Pack(payload, s, raw)[b]]
    BY DEF Pack
  <2> QED
    BY <1>6, <2>1
<1>8. PackedInto(Pack(payload, s, raw), payload, s, len, raw)
  <2> HIDE DEF ps
  <2> QED
    BY <1>0, <1>6 DEF PackedInto
<1> QED
  BY <1>7, <1>8

LEMMA AddingIsFold ==
  ASSUME NEW b, NEW s
  PROVE  Adding!Fold(b, s) = FoldLeft(Combine, b, s)
BY DEF Adding!Fold, Adding!FoldLeft, FoldLeft, Adding!MapThenFoldSet, MapThenFoldSet,
       Adding!Max, Max

\* What is unpacked has the bits of the signal and no others.
LEMMA UnpackIs ==
  ASSUME NEW s, HasBits(s), NEW len, Fits(s, len), NEW payload \in [1 .. len -> Byte]
  PROVE  /\ Unpack(payload, s) \in Nat /\ Unpack(payload, s) < Two[s.length]
         /\ Holds(payload, s, Unpack(payload, s))
<1>0. PICK st \in Nat, l \in Nat : st = s.start /\ l = s.length /\ l >= 1
  BY DEF HasBits
<1>1. PICK m : Splits(Pieces(s), m, s)
  BY PiecesSplit
<1> DEFINE ps == Pieces(s)
           parts == [i \in DOMAIN ps |-> Chunk(payload, ps[i])]
<1>2. m \in Nat /\ m >= 1 /\ DOMAIN ps = 1 .. m /\ DOMAIN parts = 1 .. m
  BY <1>1 DEF Splits
<1>3. Unpack(payload, s) = Adding!Fold(0, parts)
  BY AddingIsFold DEF Unpack
<1> HIDE DEF ps
<1>4. PICK r : Adding!Results(r, m, 0, parts) /\ Adding!Fold(0, parts) = r[m]
  <2> HIDE DEF parts
  <2> QED
    BY <1>2, Adding!FoldIsLastResult
<1> DEFINE end(i) == IF i = 0 THEN 0 ELSE ps[i].from + ps[i].n
           bit(k) == BitOf(payload[((st + k) \div 8) + 1], (st + k) % 8)
           Done(i) == /\ r[i] \in Nat /\ r[i] < Two[end(i)]
                      /\ \A k \in Nat : k < end(i) => BitOf(r[i], k) = bit(k)
           I == {i \in 0 .. m : Done(i)}
<1>5. 0 \in I
  <2>1. r[0] = 0
    BY <1>2, <1>4 DEF Adding!Results
  <2> QED
    <3>1. m \in Nat /\ 0 \in 0 .. m
      BY <1>2
    <3>2. end(0) = 0 /\ 0 < Two[0]
      BY TwoIs
    <3> HIDE DEF end, bit
    <3> QED
      BY <2>1, <3>1, <3>2
<1>6. ASSUME NEW i \in 0 .. m - 1, i \in I PROVE i + 1 \in I
  <2>1. i + 1 \in 1 .. m /\ i + 1 \in 0 .. m /\ (i + 1) - 1 = i /\ i + 1 # 0 /\ i \in Nat
    BY <1>2
  <2>2. ps[i + 1] \in Piece
    BY <1>1, <2>1 DEF Splits, ps
  <2>3. PICK c \in Nat, p \in 0 .. 7, n \in 1 .. 8, u \in Nat :
           c = ps[i + 1].byte /\ p = ps[i + 1].at /\ n = ps[i + 1].n /\ u = ps[i + 1].from
    BY <2>2 DEF Piece
  <2>4. p + n <= 8 /\ 8 * c + p = st + u /\ u + n <= l
    BY <1>0, <1>1, <2>1, <2>3 DEF Splits, ps
  <2>5. end(i) = u
    <3>1. CASE i = 0
      <4>1. i + 1 = 1
        BY <3>1
      <4>2. ps[i + 1].from = 0
        BY <1>1, <2>1, <4>1 DEF Splits, ps
      <4> QED
        BY <2>3, <3>1, <4>2
    <3>2. CASE i # 0
      <4>1. i \in 1 .. m /\ i < m
        BY <1>2, <2>1, <3>2
      <4>2. ps[i + 1].from = ps[i].from + ps[i].n
        BY <1>1, <4>1 DEF Splits, ps
      <4> QED
        BY <2>3, <3>2, <4>2
    <3> QED
      BY <3>1, <3>2
  <2>6. end(i + 1) = u + n
    BY <2>1, <2>3
  <2>7. c + 1 \in 1 .. len
    <3>1. st + l <= 8 * len /\ len \in Nat
      BY <1>0 DEF Fits
    <3> QED
      <4>0. st \in Nat /\ l \in Nat /\ u + n <= l /\ 8 * c + p = st + u
        BY <1>0, <2>4
      <4>1. 8 * c + p + n <= 8 * len
        BY <3>1, <4>0
      <4> QED
        BY <3>1, <4>1
  <2>8. payload[c + 1] \in Byte
    BY <2>7
  <2>9. PICK x \in Nat : x = ReadBits(payload[c + 1], ps[i + 1]) /\ x < Two[n]
    BY <2>2, <2>3, <2>8, ReadIs
  <2>10. \A j \in 0 .. n - 1 : BitOf(x, j) = BitOf(payload[c + 1], p + j)
    BY <2>2, <2>3, <2>8, <2>9, ReadIs
  <2>11. r[i + 1] = r[i] + x * Two[u]
    <3>1. r[i + 1] = Combine(r[i], parts[i + 1])
      BY <1>4, <2>1 DEF Adding!Results
    <3>2. parts[i + 1] = x * Two[u]
      BY <1>2, <2>1, <2>3, <2>9 DEF Chunk
    <3> QED
      BY <3>1, <3>2 DEF Combine
  <2>12. PICK y \in Nat : y = r[i] /\ y < Two[u] /\ \A k \in Nat : k < u => BitOf(y, k) = bit(k)
    BY <1>6, <2>5
  <2>13. r[i + 1] \in Nat /\ r[i + 1] < Two[end(i + 1)]
    <3>1. Two[u] \in Nat /\ Two[n] \in Nat
      BY TwoType
    <3>2. y + x * Two[u] < Two[n] * Two[u]
      BY <2>9, <2>12, <3>1, JoinedBelow
    <3>3. Two[n + u] = Two[n] * Two[u] /\ n + u = u + n
      <4>1. n \in Nat
        OBVIOUS
      <4> QED
        BY <4>1, TwoOfSum
    <3>4. y + x * Two[u] \in Nat
      BY <3>1
    <3> QED
      BY <2>6, <2>11, <2>12, <3>2, <3>3, <3>4
  <2>14. ASSUME NEW k \in Nat, k < u + n PROVE BitOf(r[i + 1], k) = bit(k)
    <3>1. CASE k < u
      <4>1. BitOf(y + x * Two[u], k) = BitOf(y, k)
        BY <2>12, <3>1, JoinedBits
      <4> QED
        BY <2>11, <2>12, <3>1, <4>1
    <3>2. CASE k >= u
      <4>1. BitOf(y + x * Two[u], k) = BitOf(x, k - u)
        BY <2>12, <3>2, JoinedBits
      <4>2. PICK j \in 0 .. n - 1 : j = k - u
        BY <2>14, <3>2
      <4>3. st + k = 8 * c + (p + j) /\ p + j \in 0 .. 7
        BY <2>4, <4>2
      <4>4. (st + k) \div 8 = c /\ (st + k) % 8 = p + j
        BY <4>3
      <4> QED
        BY <2>10, <2>11, <2>12, <4>1, <4>2, <4>4
    <3> QED
      BY <3>1, <3>2
  <2> HIDE DEF end, bit
  <2> QED
    BY <2>1, <2>6, <2>13, <2>14
<1>7. m \in I
  <2>1. m \in 0 .. m
    BY <1>2
  <2> HIDE DEF I
  <2> QED
    BY <1>2, <1>5, <1>6, <2>1, Adding!UpTo
<1>8. end(m) = l
  <2>1. m \in 1 .. m /\ m # 0
    BY <1>2
  <2> QED
    BY <1>0, <1>1, <2>1 DEF Splits, ps
<1> HIDE DEF end
<1>9. r[m] \in Nat /\ r[m] < Two[l] /\ \A k \in Nat : k < l => BitOf(r[m], k) = bit(k)
  BY <1>7, <1>8
<1>10. Holds(payload, s, r[m])
  <2>1. ASSUME NEW k \in 0 .. l - 1
        PROVE  BitOf(payload[((st + k) \div 8) + 1], (st + k) % 8) = BitOf(r[m], k)
    BY <1>9
  <2> QED
    BY <1>0, <2>1 DEF Holds
<1> QED
  BY <1>0, <1>3, <1>4, <1>9, <1>10

-----------------------------------------------------------------------------
(***************************************************************************)
(* Scaling.                                                                *)
(***************************************************************************)

Raw == 0 .. Two[RawBits] - 1

LEMMA RawSize == Two[RawBits] \in Nat /\ Two[RawBits] >= 1 /\ 0 \in Raw
<1>1. RawBits \in Nat
  BY RawAssumption
<1>2. Two[RawBits] \in Nat /\ Two[RawBits] >= 1
  BY <1>1, TwoType
<1> QED
  BY <1>2 DEF Raw

\* A conversion gives a raw value, and the value itself if it is one.
LEMMA CastIs ==
  ASSUME NEW q \in Int
  PROVE  Cast(q) \subseteq Raw /\ (q \in Raw => Cast(q) = {q})
<1>1. PICK w \in Nat : w = Two[RawBits] /\ w >= 1
  BY RawSize
<1>2. q % w \in 0 .. w - 1
  BY <1>1
<1> QED
  BY <1>1, <1>2 DEF Cast, Raw

Scalable(s) ==
  s.factor \in Nat /\ s.factor >= 1 /\ s.offset \in Int /\ s.min \in Int /\ s.max \in Int

\* The quotient of a value that is not less than the offset.
LEMMA QuotientsAre ==
  ASSUME NEW s, Scalable(s), NEW x \in Int, x >= s.offset, NEW r \in Quotients(s, x)
  PROVE  \E q \in Nat, c \in Nat :
           /\ c < s.factor /\ x - s.offset = s.factor * q + c
           /\ q = (x - s.offset) \div s.factor
           /\ \/ r = q
              \/ ~s.exact /\ c = 0 /\ q >= 1 /\ r = q - 1
<1>1. PICK d \in Nat, o \in Int : d = s.factor /\ o = s.offset /\ d >= 1
  BY DEF Scalable
<1>2. PICK y \in Nat : y = x - o
  BY <1>1
<1>3. y \div d \in Nat /\ y % d \in Nat /\ y % d < d /\ y = d * (y \div d) + (y % d)
  BY <1>1, Division
<1>4. PICK q \in Nat, c \in Nat : q = y \div d /\ c = y % d /\ c < d /\ y = d * q + c
  BY <1>3
<1>5. Quotients(s, x) = IF s.exact \/ q <= 0 \/ c # 0 THEN {q} ELSE {q, q - 1}
  <2> DEFINE Q == IF y >= 0 THEN y \div d ELSE -((-y) \div d)
  <2>1. Quotients(s, x) = IF s.exact \/ Q <= 0 \/ y % d # 0 THEN {Q} ELSE {Q, Q - 1}
    BY <1>1, <1>2 DEF Quotients
  <2>2. Q = q
    BY <1>2, <1>4
  <2> HIDE DEF Q
  <2> QED
    BY <1>4, <2>1, <2>2
<1>6. r = q \/ (~s.exact /\ c = 0 /\ q >= 1 /\ r = q - 1)
  BY <1>5
<1> QED
  BY <1>1, <1>2, <1>4, <1>6

LEMMA QuotientsType ==
  ASSUME NEW s, Scalable(s), NEW x \in Int
  PROVE  Quotients(s, x) \subseteq Int
<1>1. PICK d \in Nat, o \in Int : d = s.factor /\ o = s.offset /\ d >= 1
  BY DEF Scalable
<1>2. PICK y \in Int : y = x - o
  OBVIOUS
<1> DEFINE q == IF y >= 0 THEN y \div d ELSE -((-y) \div d)
<1>3. q \in Int
  <2>1. CASE y >= 0
    <3>1. y \in Nat
      BY <2>1
    <3>2. y \div d \in Nat
      BY <1>1, <3>1, Division
    <3> QED
      BY <2>1, <3>2
  <2>2. CASE ~(y >= 0)
    <3>1. -y \in Nat
      BY <2>2
    <3>2. (-y) \div d \in Nat
      BY <1>1, <3>1, Division
    <3> QED
      BY <2>2, <3>2
  <2> QED
    BY <2>1, <2>2
<1>4. Quotients(s, x) \subseteq {q, q - 1}
  BY <1>1, <1>2 DEF Quotients
<1> HIDE DEF q
<1> QED
  BY <1>3, <1>4

LEMMA RawsType ==
  ASSUME NEW s, Scalable(s), NEW x \in Int
  PROVE  RawsOf(s, x) \subseteq Raw
BY QuotientsType, CastIs DEF RawsOf

\* The raw values of a value that is not less than the offset and has a
\* quotient that fits.
LEMMA RawsAre ==
  ASSUME NEW s, Scalable(s), NEW x \in Int, x >= s.offset,
         (x - s.offset) \div s.factor < Two[RawBits], NEW r \in RawsOf(s, x)
  PROVE  \E q \in Nat, c \in Nat :
           /\ c < s.factor /\ x - s.offset = s.factor * q + c
           /\ q = (x - s.offset) \div s.factor
           /\ \/ r = q
              \/ ~s.exact /\ c = 0 /\ q >= 1 /\ r = q - 1
<1>1. PICK u \in Quotients(s, x) : r \in Cast(u)
  BY DEF RawsOf
<1>2. PICK q \in Nat, c \in Nat :
           /\ c < s.factor /\ x - s.offset = s.factor * q + c
           /\ q = (x - s.offset) \div s.factor
           /\ \/ u = q
              \/ ~s.exact /\ c = 0 /\ q >= 1 /\ u = q - 1
  BY QuotientsAre
<1>3. u \in Raw
  <2>1. PICK w \in Nat : w = Two[RawBits] /\ q < w
    BY <1>2, RawSize
  <2> QED
    BY <1>2, <2>1 DEF Raw
<1>4. r = u
  <2>1. u \in Int
    BY <1>2
  <2>2. Cast(u) = {u}
    BY <1>3, <2>1, CastIs
  <2> QED
    BY <1>1, <2>2
<1> QED
  BY <1>2, <1>4

\* What a raw value of x is decoded to.
LEMMA DecodedIs ==
  ASSUME NEW s, Scalable(s), NEW x \in Int, NEW q \in Nat, NEW c \in Nat, NEW r,
         c < s.factor, x - s.offset = s.factor * q + c,
         \/ r = q
         \/ ~s.exact /\ c = 0 /\ q >= 1 /\ r = q - 1
  PROVE  /\ Decoded(s, r) \in Int
         /\ \/ Decoded(s, r) = x - c
            \/ ~s.exact /\ Decoded(s, r) = x - s.factor
<1>1. PICK d \in Nat, o \in Int : d = s.factor /\ o = s.offset /\ d >= 1
  BY DEF Scalable
<1>2. x = d * q + c + o
  BY <1>1
<1>3. CASE r = q
  <2>1. Decoded(s, r) = q * d + o
    BY <1>1, <1>3 DEF Decoded
  <2>2. q * d = d * q /\ q * d \in Nat
    OBVIOUS
  <2> QED
    BY <1>1, <1>2, <2>1, <2>2
<1>4. CASE ~s.exact /\ c = 0 /\ q >= 1 /\ r = q - 1
  <2>1. Decoded(s, r) = (q - 1) * d + o
    BY <1>1, <1>4 DEF Decoded
  <2>2. (q - 1) * d = d * q - d /\ (q - 1) * d \in Int
    OBVIOUS
  <2> QED
    BY <1>1, <1>2, <1>4, <2>1, <2>2
<1> QED
  BY <1>3, <1>4

Inside(s, raw) ==
  /\ Decoded(s, raw) <= s.max
  /\ \/ s.min - Decoded(s, raw) < s.factor
     \/ ~s.exact /\ s.min - Decoded(s, raw) = s.factor

\* A value in the limits is sent as one in the limits.
LEMMA RawsInside ==
  ASSUME NEW s, Scalable(s), Castable(s), NEW x \in Int, InLimits(s, x), NEW r \in RawsOf(s, x)
  PROVE  Inside(s, r)
<1>1. PICK d \in Nat, o \in Int, lo \in Int, hi \in Int :
         d = s.factor /\ o = s.offset /\ lo = s.min /\ hi = s.max /\ d >= 1
  BY DEF Scalable
<1>2. PICK w \in Nat : w = Two[RawBits]
  BY RawSize
<1>3. lo >= o /\ hi - o < d * w /\ lo <= x /\ x <= hi
  BY <1>1, <1>2 DEF Castable, InLimits
<1>4. (x - o) \div d < w
  <2>1. PICK y \in Nat : y = x - o
    BY <1>3
  <2>2. d * w = w * d /\ d * w \in Nat
    OBVIOUS
  <2>3. y < w * d
    BY <1>3, <2>1, <2>2
  <2> QED
    BY <1>1, <2>1, <2>3, QuotientBelow
<1>5. x >= s.offset /\ (x - s.offset) \div s.factor < Two[RawBits]
  BY <1>1, <1>2, <1>3, <1>4
<1>6. PICK q \in Nat, c \in Nat :
           /\ c < s.factor /\ x - s.offset = s.factor * q + c
           /\ q = (x - s.offset) \div s.factor
           /\ \/ r = q
              \/ ~s.exact /\ c = 0 /\ q >= 1 /\ r = q - 1
  BY <1>5, RawsAre
<1>7. /\ Decoded(s, r) \in Int
      /\ \/ Decoded(s, r) = x - c
         \/ ~s.exact /\ Decoded(s, r) = x - s.factor
  BY <1>6, DecodedIs
<1>8. PICK v \in Int : v = Decoded(s, r)
  BY <1>7
<1>9. v <= hi /\ (lo - v < d \/ (~s.exact /\ lo - v = d))
  <2>1. CASE v = x - c
    <3>1. v <= x /\ x - v < d
      BY <1>1, <1>6, <2>1
    <3> QED
      BY <1>3, <3>1
  <2>2. CASE ~s.exact /\ v = x - d
    BY <1>1, <1>3, <2>2
  <2> QED
    BY <1>1, <1>7, <1>8, <2>1, <2>2
<1> QED
  BY <1>1, <1>8, <1>9 DEF Inside

HasRuns(s) ==
  \A run \in s.encode \union s.decode :
    \/ run.sets = "none"
    \/ run.sets = "phys" /\ run.to \in Int
    \/ run.sets = "raw" /\ run.to \in Raw

\* What is encoded is a raw value, and one of a value in the limits, unless the
\* raw value stays what it was or a Lua function sets it.
LEMMA EncodeIs ==
  ASSUME NEW s, Scalable(s), HasRuns(s), NEW x \in Int, NEW raw \in Raw,
         NEW e \in Encode(s, x, raw)
  PROVE  /\ e.raw \in Raw /\ e.phys \in Int
         /\ s.invalid \/ ~InLimits(s, x) => e.raw = raw
         /\ ~s.invalid /\ InLimits(s, x) /\ s.encode = {} =>
              e.phys = x /\ e.raw \in RawsOf(s, x)
         /\ \/ e.raw = raw
            \/ ~NoOverride(s)
            \/ \E y \in Int : InLimits(s, y) /\ e.raw \in RawsOf(s, y)
<1>1. CASE s.invalid \/ ~InLimits(s, x)
  <2>1. e = [phys |-> x, raw |-> raw]
    BY <1>1 DEF Encode
  <2> QED
    BY <1>1, <2>1
<1>2. CASE ~s.invalid /\ InLimits(s, x) /\ s.encode = {}
  <2>1. e \in Scaled(s, x)
    BY <1>2 DEF Encode
  <2>2. e.phys = x /\ e.raw \in RawsOf(s, x)
    BY <2>1 DEF Scaled
  <2>3. e.raw \in Raw
    BY <2>2, RawsType
  <2> QED
    BY <1>2, <2>2, <2>3
<1>3. CASE ~s.invalid /\ InLimits(s, x) /\ s.encode # {}
  <2>1. Encode(s, x, raw) = UNION {EncodeFunc(s, x, v, run) : v \in RawsOf(s, x), run \in s.encode}
    BY <1>3 DEF Encode
  <2>2. PICK v \in RawsOf(s, x), run \in s.encode : e \in EncodeFunc(s, x, v, run)
    BY <2>1
  <2>3. v \in Raw
    BY RawsType
  <2>4. CASE run.sets = "phys" /\ run.to # x /\ InLimits(s, run.to)
    <3>1. e \in Scaled(s, run.to)
      BY <2>2, <2>4 DEF EncodeFunc
    <3>2. e.phys = run.to /\ e.raw \in RawsOf(s, run.to)
      BY <3>1 DEF Scaled
    <3>3. run.to \in Int
      BY <2>4 DEF HasRuns
    <3>4. e.raw \in Raw
      BY <3>2, <3>3, RawsType
    <3> QED
      BY <1>3, <2>4, <3>2, <3>3, <3>4
  <2>5. CASE run.sets = "phys" /\ run.to # x /\ ~InLimits(s, run.to)
    <3>1. e = [phys |-> x, raw |-> v]
      BY <2>2, <2>5 DEF EncodeFunc
    <3> QED
      BY <1>3, <2>3, <3>1
  <2>6. CASE ~(run.sets = "phys" /\ run.to # x)
    <3>1. e = [phys |-> x, raw |-> IF run.sets = "raw" THEN run.to ELSE v]
      BY <2>2, <2>6 DEF EncodeFunc
    <3>2. CASE run.sets = "raw"
      <4>1. run.to \in Raw
        BY <3>2 DEF HasRuns
      <4>2. ~NoOverride(s)
        BY <3>2 DEF NoOverride
      <4> QED
        BY <1>3, <3>1, <3>2, <4>1, <4>2
    <3>3. CASE run.sets # "raw"
      BY <1>3, <2>3, <3>1, <3>3
    <3> QED
      BY <3>2, <3>3
  <2> QED
    BY <2>4, <2>5, <2>6
<1> QED
  BY <1>1, <1>2, <1>3

\* A physical value is taken if it is in the limits.
LEMMA DecodeIs ==
  ASSUME NEW s, HasRuns(s), NEW x, NEW raw \in Raw, NEW d \in Decode(s, x, raw)
  PROVE  /\ d.raw \in Raw
         /\ s.decode = {} => d.raw = raw
         /\ (x # 0 => InLimits(s, x)) => (d.phys # 0 => InLimits(s, d.phys))
         /\ s.decode = {} /\ ~s.invalid /\ InLimits(s, Decoded(s, raw)) =>
              d.phys = Decoded(s, raw)
<1>1. CASE s.invalid
  <2>1. d = [phys |-> x, raw |-> raw]
    BY <1>1 DEF Decode
  <2> QED
    BY <1>1, <2>1
<1>2. CASE ~s.invalid
  <2>1. PICK val : val = Accept(s, Decoded(s, raw), x)
    OBVIOUS
  <2>2. /\ InLimits(s, Decoded(s, raw)) => val = Decoded(s, raw)
        /\ ~InLimits(s, Decoded(s, raw)) => val = x
    BY <2>1 DEF Accept
  <2>3. CASE s.decode = {}
    <3>1. d = [phys |-> val, raw |-> raw]
      BY <1>2, <2>1, <2>3 DEF Decode
    <3> QED
      BY <2>2, <3>1
  <2>4. CASE s.decode # {}
    <3>1. PICK run \in s.decode : d = DecodeFunc(s, val, raw, run)
      BY <1>2, <2>1, <2>4 DEF Decode
    <3>2. CASE run.sets = "raw" /\ run.to # raw
      <4>1. d = [phys |-> Accept(s, Decoded(s, run.to), val), raw |-> run.to]
        BY <3>1, <3>2 DEF DecodeFunc
      <4>2. run.to \in Raw
        BY <3>2 DEF HasRuns
      <4>3. d.phys = val \/ InLimits(s, d.phys)
        BY <4>1 DEF Accept
      <4> QED
        BY <2>2, <2>4, <4>1, <4>2, <4>3
    <3>3. CASE ~(run.sets = "raw" /\ run.to # raw)
      <4>1. d = [phys |-> IF run.sets = "phys" THEN Accept(s, run.to, val) ELSE val, raw |-> raw]
        BY <3>1, <3>3 DEF DecodeFunc
      <4>2. d.phys = val \/ InLimits(s, d.phys)
        BY <4>1 DEF Accept
      <4> QED
        BY <2>2, <2>4, <4>1, <4>2
    <3> QED
      BY <3>2, <3>3
  <2> QED
    BY <2>3, <2>4
<1> QED
  BY <1>1, <1>2

-----------------------------------------------------------------------------
(***************************************************************************)
(* What a payload holds.                                                   *)
(***************************************************************************)

\* Where a bit of a signal is.
LEMMA PlaceOf ==
  ASSUME NEW s, HasBits(s), NEW len, Fits(s, len), NEW k \in 0 .. s.length - 1
  PROVE  /\ s.start + k \in SignalBits(s)
         /\ ((s.start + k) \div 8) + 1 \in 1 .. len /\ (s.start + k) % 8 \in 0 .. 7
         /\ 8 * ((((s.start + k) \div 8) + 1) - 1) + ((s.start + k) % 8) = s.start + k
         /\ (s.start + k) - s.start = k
<1>1. PICK st \in Nat, l \in Nat : st = s.start /\ l = s.length /\ l >= 1
  BY DEF HasBits
<1>2. PICK n \in Nat : n = len /\ st + l <= 8 * n
  BY <1>1 DEF Fits
<1>3. k \in 0 .. l - 1
  BY <1>1
<1>4. PICK x \in Nat : x = st + k /\ x < 8 * n /\ x < st + l
  BY <1>2, <1>3
<1>5. x \div 8 \in 0 .. n - 1 /\ x % 8 \in 0 .. 7 /\ x = 8 * (x \div 8) + (x % 8)
  BY <1>4
<1>6. (x \div 8) + 1 \in 1 .. n /\ ((x \div 8) + 1) - 1 = x \div 8
  BY <1>5
<1>7. x \in SignalBits(s)
  BY <1>1, <1>3, <1>4 DEF SignalBits
<1> QED
  BY <1>1, <1>2, <1>3, <1>4, <1>5, <1>6, <1>7

\* What is packed is held.
LEMMA PackHolds ==
  ASSUME NEW s, HasBits(s), NEW len, Fits(s, len), NEW payload \in [1 .. len -> Byte],
         NEW raw \in Nat
  PROVE  Holds(Pack(payload, s, raw), s, raw)
<1> SUFFICES ASSUME NEW k \in 0 .. s.length - 1
             PROVE  BitOf(Pack(payload, s, raw)[((s.start + k) \div 8) + 1], (s.start + k) % 8)
                    = BitOf(raw, k)
  BY DEF Holds
<1> DEFINE b == ((s.start + k) \div 8) + 1
           j == (s.start + k) % 8
<1>1. /\ s.start + k \in SignalBits(s) /\ b \in 1 .. len /\ j \in 0 .. 7
      /\ 8 * (b - 1) + j = s.start + k /\ (s.start + k) - s.start = k
  BY PlaceOf
<1> HIDE DEF b, j
<1>2. BitOf(Pack(payload, s, raw)[b], j) =
        IF 8 * (b - 1) + j \in SignalBits(s)
        THEN BitOf(raw, 8 * (b - 1) + j - s.start) ELSE BitOf(payload[b], j)
  <2>1. PackedInto(Pack(payload, s, raw), payload, s, len, raw)
    BY PackIs
  <2> QED
    BY <1>1, <2>1 DEF PackedInto
<1>3. 8 * (b - 1) + j - s.start = k
  <2>1. PICK st \in Nat, l \in Nat : st = s.start /\ l = s.length
    BY DEF HasBits
  <2>2. b \in Nat /\ j \in Nat /\ k \in Int
    BY <1>1, <2>1 DEF Fits
  <2>3. 8 * (b - 1) + j = st + k
    BY <1>1, <2>1
  <2>4. 8 * (b - 1) + j - st = k
    BY <2>2, <2>3
  <2> QED
    BY <2>1, <2>4
<1>4. BitOf(Pack(payload, s, raw)[b], j) = BitOf(raw, k)
  BY <1>1, <1>2, <1>3
<1> QED
  BY <1>4 DEF b, j

\* Packing a signal keeps what is held of a signal with other bits.
LEMMA PackKeeps ==
  ASSUME NEW s, HasBits(s), NEW t, HasBits(t), SignalBits(s) \cap SignalBits(t) = {},
         NEW len, Fits(s, len), Fits(t, len), NEW payload \in [1 .. len -> Byte],
         NEW raw \in Nat, NEW other, Holds(payload, t, other)
  PROVE  Holds(Pack(payload, s, raw), t, other)
<1> SUFFICES ASSUME NEW k \in 0 .. t.length - 1
             PROVE  BitOf(Pack(payload, s, raw)[((t.start + k) \div 8) + 1], (t.start + k) % 8)
                    = BitOf(other, k)
  BY DEF Holds
<1> DEFINE b == ((t.start + k) \div 8) + 1
           j == (t.start + k) % 8
<1>1. /\ t.start + k \in SignalBits(t) /\ b \in 1 .. len /\ j \in 0 .. 7
      /\ 8 * (b - 1) + j = t.start + k
  BY PlaceOf
<1>2. BitOf(payload[b], j) = BitOf(other, k)
  BY DEF Holds
<1> HIDE DEF b, j
<1>3. BitOf(Pack(payload, s, raw)[b], j) =
        IF 8 * (b - 1) + j \in SignalBits(s)
        THEN BitOf(raw, 8 * (b - 1) + j - s.start) ELSE BitOf(payload[b], j)
  <2>1. PackedInto(Pack(payload, s, raw), payload, s, len, raw)
    BY PackIs
  <2> QED
    BY <1>1, <2>1 DEF PackedInto
<1> QED
  BY <1>1, <1>2, <1>3 DEF b, j

\* A payload with the same bytes where the signal is.
LEMMA HoldsLike ==
  ASSUME NEW s, HasBits(s), NEW len, Fits(s, len), NEW payload, NEW like, NEW raw,
         Holds(payload, s, raw),
         \A x \in SignalBits(s) : like[(x \div 8) + 1] = payload[(x \div 8) + 1]
  PROVE  Holds(like, s, raw)
<1> SUFFICES ASSUME NEW k \in 0 .. s.length - 1
             PROVE  BitOf(like[((s.start + k) \div 8) + 1], (s.start + k) % 8) = BitOf(raw, k)
  BY DEF Holds
<1>1. s.start + k \in SignalBits(s)
  BY PlaceOf
<1>2. like[((s.start + k) \div 8) + 1] = payload[((s.start + k) \div 8) + 1]
  BY <1>1
<1>3. BitOf(payload[((s.start + k) \div 8) + 1], (s.start + k) % 8) = BitOf(raw, k)
  BY DEF Holds
<1> QED
  BY <1>2, <1>3

\* The Lua function of a PDU leaves a payload, and the signals of which it writes
\* no byte.
LEMMA ScriptType ==
  ASSUME NEW len, NEW payload \in [1 .. len -> Byte], NEW writes,
         \A b \in DOMAIN writes : writes[b] \in Byte
  PROVE  Script(payload, writes) \in [1 .. len -> Byte]
BY DEF Script

LEMMA ScriptKeeps ==
  ASSUME NEW s, HasBits(s), NEW len, Fits(s, len), NEW payload \in [1 .. len -> Byte],
         NEW writes, \A k \in SignalBits(s) : (k \div 8) + 1 \notin DOMAIN writes,
         NEW raw, Holds(payload, s, raw)
  PROVE  Holds(Script(payload, writes), s, raw)
<1>1. ASSUME NEW x \in SignalBits(s)
      PROVE  Script(payload, writes)[(x \div 8) + 1] = payload[(x \div 8) + 1]
  <2>1. (x \div 8) + 1 \in 1 .. len
    <3>1. PICK st \in Nat, l \in Nat : st = s.start /\ l = s.length
      BY DEF HasBits
    <3>2. PICK n \in Nat : n = len /\ st + l <= 8 * n
      BY <3>1 DEF Fits
    <3>3. x \in st .. st + l - 1
      BY <3>1 DEF SignalBits
    <3>4. x \in Nat /\ x < 8 * n
      BY <3>2, <3>3
    <3>5. (x \div 8) + 1 \in 1 .. n
      BY <3>4
    <3> QED
      BY <3>2, <3>5
  <2> QED
    BY <2>1 DEF Script
<1> QED
  BY <1>1, HoldsLike

-----------------------------------------------------------------------------
(***************************************************************************)
(* The descriptions of a network.                                          *)
(***************************************************************************)

\* The assumption on the descriptions, for a signal and for a PDU.
LEMMA SignalFacts ==
  ASSUME layout \in Layouts, NEW i \in Sig
  PROVE  /\ HasBits(S(i)) /\ Scalable(S(i)) /\ HasRuns(S(i))
         /\ S(i).pdu \in Pdu /\ Fits(S(i), layout.pdus[S(i).pdu].len)
         /\ S(i).length <= RawBits
         /\ S(i).invalid \in BOOLEAN /\ S(i).exact \in BOOLEAN
<1>1. IsSignal(S(i), layout.pdus)
  BY LayoutAssumption DEF Sig, S
<1>2. S(i).pdu \in Pdu
  BY <1>1 DEF IsSignal, Pdu
<1>3. layout.pdus[S(i).pdu].len \in Nat
  BY <1>2, LayoutAssumption DEF Pdu
<1>4. HasRuns(S(i))
  BY <1>1 DEF IsSignal, HasRuns, Raw
<1>5. RawBits \in Nat
  BY RawAssumption
<1>6. HasBits(S(i)) /\ S(i).length <= RawBits
  BY <1>1, <1>5 DEF IsSignal, HasBits
<1>7. Scalable(S(i))
  BY <1>1 DEF IsSignal, Scalable
<1>8. Fits(S(i), layout.pdus[S(i).pdu].len)
  BY <1>1, <1>3 DEF IsSignal, Fits
<1>9. S(i).invalid \in BOOLEAN /\ S(i).exact \in BOOLEAN
  BY <1>1 DEF IsSignal
<1> QED
  BY <1>2, <1>4, <1>6, <1>7, <1>8, <1>9

LEMMA SignalsApart ==
  ASSUME layout \in Layouts, NEW i \in Sig, NEW j \in Sig, i # j, S(i).pdu = S(j).pdu
  PROVE  SignalBits(S(i)) \cap SignalBits(S(j)) = {}
BY LayoutAssumption DEF Sig, S

LEMMA CountOfSignals ==
  ASSUME layout \in Layouts
  PROVE  \E n \in Nat : Sig = 1 .. n
BY LayoutAssumption DEF Sig

LEMMA PduFacts ==
  ASSUME layout \in Layouts, NEW p \in Pdu
  PROVE  /\ layout.pdus[p].len \in Nat
         /\ \A writes \in layout.pdus[p].encode \union layout.pdus[p].decode :
              \A b \in DOMAIN writes : writes[b] \in Byte
BY LayoutAssumption DEF Pdu, Byte

LEMMA BytesAre ==
  ASSUME NEW p
  PROVE  Bytes(p) = [1 .. layout.pdus[p].len -> Byte]
BY DEF Bytes, Byte

-----------------------------------------------------------------------------
(***************************************************************************)
(* The payloads after the signals of the PDUs that are due are packed.     *)
(***************************************************************************)

LEMMA PackingIsFold ==
  ASSUME NEW b, NEW s
  PROVE  Packing!Fold(b, s) = FoldLeft(PackSignal, b, s)
BY DEF Packing!Fold, Packing!FoldLeft, FoldLeft, Packing!MapThenFoldSet, MapThenFoldSet,
       Packing!Max, Max

GoodPayloads(f) == f = [p \in Pdu |-> f[p]] /\ \A p \in Pdu : f[p] \in Bytes(p)

\* After all signals of the PDUs that are due are packed, each of them is held:
\* none has overwritten another.
LEMMA PackedIs ==
  ASSUME layout \in Layouts, NEW payloads, GoodPayloads(payloads), NEW due,
         NEW raw \in [Sig -> Raw]
  PROVE  /\ GoodPayloads(Packed(payloads, due, raw))
         /\ \A i \in Sig : S(i).pdu \in due =>
              Holds(Packed(payloads, due, raw)[S(i).pdu], S(i), raw[i])
<1>1. PICK n \in Nat : Sig = 1 .. n
  BY CountOfSignals
<1> DEFINE items == [i \in Sig |-> [signal |-> S(i), raw |-> raw[i], skip |-> S(i).pdu \notin due]]
<1>2. Packed(payloads, due, raw) = Packing!Fold(payloads, items)
  BY PackingIsFold DEF Packed
<1>3. DOMAIN items = 1 .. n
  BY <1>1
<1>4. ASSUME NEW i \in Sig
      PROVE  items[i].signal = S(i) /\ items[i].raw = raw[i]
             /\ (items[i].skip <=> S(i).pdu \notin due)
  OBVIOUS
<1> HIDE DEF items
<1>5. PICK r : Packing!Results(r, n, payloads, items)
               /\ Packing!Fold(payloads, items) = r[n]
  BY <1>3, Packing!FoldIsLastResult
<1> DEFINE Done(k) == /\ GoodPayloads(r[k])
                      /\ \A i \in Sig : i <= k /\ S(i).pdu \in due =>
                           Holds(r[k][S(i).pdu], S(i), raw[i])
           I == {k \in 0 .. n : Done(k)}
<1>6. 0 \in I
  <2>1. r[0] = payloads
    BY <1>5 DEF Packing!Results
  <2>2. \A i \in Sig : ~(i <= 0)
    BY <1>1
  <2> QED
    BY <2>1, <2>2
<1>7. ASSUME NEW k \in 0 .. n - 1, k \in I PROVE k + 1 \in I
  <2>1. k + 1 \in 0 .. n /\ k + 1 # 0 /\ (k + 1) - 1 = k /\ k + 1 \in Sig
    BY <1>1
  <2>2. r[k + 1] = PackSignal(r[k], items[k + 1])
    BY <1>5, <2>1 DEF Packing!Results
  <2> DEFINE j == k + 1
             p == S(j).pdu
  <2>3. j \in Sig
    BY <2>1
  <2>4. ASSUME NEW i \in Sig, i <= j PROVE i = j \/ i <= k
    <3>1. i \in Nat
      BY <1>1
    <3> QED
      BY <2>4, <3>1
  <2>5. GoodPayloads(r[k]) /\ \A i \in Sig : i <= k /\ S(i).pdu \in due =>
                           Holds(r[k][S(i).pdu], S(i), raw[i])
    BY <1>7
  <2> HIDE DEF j
  <2>6. CASE p \notin due
    <3>1. r[j] = r[k]
      BY <1>4, <2>2, <2>3, <2>6 DEF PackSignal, j
    <3>2. Done(j)
      BY <2>4, <2>5, <2>6, <3>1
    <3> QED
      BY <2>1, <3>2 DEF j
  <2>7. CASE p \in due
    <3> DEFINE s == S(j)
               len == layout.pdus[p].len
               new == Pack(r[k][p], s, raw[j])
    <3>1. r[j] = [r[k] EXCEPT ![p] = new]
      BY <1>4, <2>2, <2>3, <2>7 DEF PackSignal, j
    <3>2. HasBits(s) /\ p \in Pdu /\ Fits(s, len)
      BY <2>3, SignalFacts
    <3>3. raw[j] \in Nat
      BY <2>3 DEF Raw
    <3>4. r[k][p] \in [1 .. len -> Byte]
      BY <2>5, <3>2, BytesAre DEF GoodPayloads
    <3> HIDE DEF s, len
    <3>5. new \in [1 .. len -> Byte] /\ Holds(new, s, raw[j])
      BY <3>2, <3>3, <3>4, PackIs, PackHolds
    <3>6. ASSUME NEW i \in Sig, i # j, S(i).pdu = p, Holds(r[k][p], S(i), raw[i])
          PROVE  Holds(new, S(i), raw[i])
      <4>1. HasBits(S(i)) /\ Fits(S(i), len)
        BY <3>6, SignalFacts DEF len
      <4>2. SignalBits(s) \cap SignalBits(S(i)) = {}
        BY <2>3, <3>6, SignalsApart DEF s
      <4> QED
        BY <3>2, <3>3, <3>4, <3>6, <4>1, <4>2, PackKeeps
    <3> HIDE DEF new, p
    <3>7. r[j] = [q \in Pdu |-> IF q = p THEN new ELSE r[k][q]]
      <4>1. r[k] = [q \in Pdu |-> r[k][q]]
        BY <2>5 DEF GoodPayloads
      <4> QED
        BY <3>1, <4>1
    <3>8. \A q \in Pdu : r[j][q] = IF q = p THEN new ELSE r[k][q]
      BY <3>7
    <3>9. GoodPayloads(r[j])
      <4>1. \A q \in Pdu : r[j][q] \in Bytes(q)
        BY <2>5, <3>5, <3>8, BytesAre DEF GoodPayloads, len
      <4>2. r[j] = [q \in Pdu |-> r[j][q]]
        BY <3>7
      <4> QED
        BY <4>1, <4>2 DEF GoodPayloads
    <3>10. ASSUME NEW i \in Sig, i <= j, S(i).pdu \in due
           PROVE  Holds(r[j][S(i).pdu], S(i), raw[i])
      <4>0. S(i).pdu \in Pdu
        BY SignalFacts
      <4>1. CASE i = j
        <5>1. r[j][S(i).pdu] = new /\ S(i) = s
          BY <3>2, <3>8, <4>1 DEF p, s
        <5> QED
          BY <3>5, <4>1, <5>1
      <4>2. CASE i # j
        <5>1. Holds(r[k][S(i).pdu], S(i), raw[i])
          BY <2>4, <2>5, <3>10, <4>2
        <5>2. CASE S(i).pdu = p
          BY <3>6, <3>8, <4>0, <4>2, <5>1, <5>2
        <5>3. CASE S(i).pdu # p
          BY <3>8, <4>0, <5>1, <5>3
        <5> QED
          BY <5>2, <5>3
      <4> QED
        BY <4>1, <4>2
    <3>11. Done(j)
      BY <3>9, <3>10
    <3> HIDE DEF Done
    <3> QED
      BY <2>1, <3>11 DEF j
  <2> QED
    BY <2>6, <2>7
<1>8. n \in I
  <2>1. n \in 0 .. n
    OBVIOUS
  <2> HIDE DEF I
  <2> QED
    BY <1>6, <1>7, <2>1, Adding!UpTo
<1>9. \A i \in Sig : i <= n
  BY <1>1
<1> QED
  BY <1>2, <1>5, <1>8, <1>9

-----------------------------------------------------------------------------
(***************************************************************************)
(* The invariants.                                                         *)
(***************************************************************************)

TypeInv ==
  /\ layout \in Layouts
  /\ tx.raw \in [Sig -> Raw] /\ rx.raw \in [Sig -> Raw]
  /\ GoodPayloads(tx.payload) /\ GoodPayloads(rx.payload)
  /\ \A p \in Pdu : wire[p] # <<>> => wire[p] = <<tx.payload[p]>>
  /\ heard \subseteq Pdu

\* The payload that was written last is the one that the checksum is of, and its
\* signals are those that were encoded last.
SenderInv ==
  /\ tx.checksum = tx.payload
  /\ \A i \in Sig : LET s == S(i) IN
       /\ Untouched(s, layout.pdus[s.pdu].encode) => Holds(tx.payload[s.pdu], s, tx.raw[i])
       /\ s.encode = {} /\ ~s.invalid /\ taken[i] # <<>> =>
            taken[i][1] \in Int /\ tx.raw[i] \in RawsOf(s, taken[i][1])
       /\ NoOverride(s) /\ Castable(s) /\ tx.raw[i] # 0 => Inside(s, tx.raw[i])

\* A byte that no Lua function of the receiver's PDU writes.
Received(p, b) == \A writes \in layout.pdus[p].decode : b \notin DOMAIN writes

\* When nothing is on its way the receiver has the sender's payload, and it has
\* decoded what it has.
ReceiverInv ==
  /\ \A p \in heard : wire[p] = <<>> =>
       \A b \in 1 .. layout.pdus[p].len : Received(p, b) => rx.payload[p][b] = tx.payload[p][b]
  /\ \A i \in Sig : LET s == S(i) IN
       /\ s.decode = {} => Holds(rx.payload[s.pdu], s, rx.raw[i]) /\ rx.raw[i] < Two[s.length]
       /\ rx.phys[i] # 0 => InLimits(s, rx.phys[i])
       /\ s.pdu \in heard /\ s.decode = {} /\ ~s.invalid /\ InLimits(s, Decoded(s, rx.raw[i])) =>
            rx.phys[i] = Decoded(s, rx.raw[i])

IInv == TypeInv /\ SenderInv /\ ReceiverInv

\* The first payloads, of which all bits are 0.
LEMMA ZeroIs ==
  ASSUME layout \in Layouts, NEW p \in Pdu
  PROVE  /\ ZeroPayload(layout.pdus[p]) \in Bytes(p)
         /\ \A b \in 1 .. layout.pdus[p].len : ZeroPayload(layout.pdus[p])[b] = 0
<1>1. 0 \in Byte
  BY DEF Byte
<1> QED
  BY <1>1, BytesAre DEF ZeroPayload

LEMMA ZeroHolds ==
  ASSUME layout \in Layouts, NEW i \in Sig
  PROVE  Holds(ZeroPayload(layout.pdus[S(i).pdu]), S(i), 0)
<1>1. /\ HasBits(S(i)) /\ S(i).pdu \in Pdu /\ Fits(S(i), layout.pdus[S(i).pdu].len)
  BY SignalFacts
<1> DEFINE s == S(i)
           z == ZeroPayload(layout.pdus[S(i).pdu])
           len == layout.pdus[S(i).pdu].len
<1>2. \A b \in 1 .. len : z[b] = 0
  BY <1>1, ZeroIs
<1> HIDE DEF z, len, s
<1>3. SUFFICES ASSUME NEW k \in 0 .. s.length - 1
               PROVE  BitOf(z[((s.start + k) \div 8) + 1], (s.start + k) % 8) = BitOf(0, k)
  BY DEF Holds, z, s
<1>4. ((s.start + k) \div 8) + 1 \in 1 .. len /\ (s.start + k) % 8 \in 0 .. 7
  BY <1>1, PlaceOf DEF s, len
<1>5. k \in Nat
  BY <1>1 DEF HasBits, s
<1>6. BitOf(0, (s.start + k) % 8) = 0 /\ BitOf(0, k) = 0
  BY <1>4, <1>5, BitOfZero
<1> QED
  BY <1>2, <1>4, <1>6

\* The invariant holds after pdunet_matrix_transform().
LEMMA InitInv == Init => IInv
<1> SUFFICES ASSUME Init PROVE IInv
  OBVIOUS
<1>1. layout \in Layouts
  BY DEF Init
<1>2. /\ tx.raw = [i \in Sig |-> 0] /\ rx.raw = [i \in Sig |-> 0]
      /\ tx.payload = [p \in Pdu |-> ZeroPayload(layout.pdus[p])]
      /\ tx.checksum = [p \in Pdu |-> ZeroPayload(layout.pdus[p])]
      /\ rx.payload = [p \in Pdu |-> ZeroPayload(layout.pdus[p])]
      /\ rx.phys = [i \in Sig |-> 0]
      /\ wire = [p \in Pdu |-> <<>>] /\ heard = {} /\ taken = [i \in Sig |-> <<>>]
  BY DEF Init
<1>3. GoodPayloads([p \in Pdu |-> ZeroPayload(layout.pdus[p])])
  BY <1>1, ZeroIs DEF GoodPayloads
<1>4. TypeInv
  BY <1>1, <1>2, <1>3, RawSize DEF TypeInv
<1>5. \A i \in Sig : S(i).pdu \in Pdu /\ Holds(ZeroPayload(layout.pdus[S(i).pdu]), S(i), 0)
  BY <1>1, SignalFacts, ZeroHolds
<1>6. SenderInv
  BY <1>2, <1>5 DEF SenderInv
<1>7. \A i \in Sig : 0 < Two[S(i).length]
  <2>1. \A i \in Sig : S(i).length \in Nat
    BY <1>1, SignalFacts DEF HasBits
  <2> QED
    BY <2>1, TwoType
<1>8. ReceiverInv
  BY <1>2, <1>5, <1>7 DEF ReceiverInv
<1> QED
  BY <1>4, <1>6, <1>8 DEF IInv

LEMMA OutcomeOf ==
  ASSUME NEW outcomes, NEW f \in OutcomesOf(outcomes), NEW i \in DOMAIN outcomes
  PROVE  f[i] \in outcomes[i]
BY DEF OutcomesOf

\* What the Lua function of a PDU writes are bytes.
LEMMA ScriptsAre ==
  ASSUME NEW func, NEW pdus, NEW f \in Scripts(func, pdus), NEW p \in pdus
  PROVE  f[p] = <<>> \/ f[p] \in func[p]
<1>1. f[p] \in IF func[p] = {} THEN {<<>>} ELSE func[p]
  BY OutcomeOf DEF Scripts
<1> QED
  BY <1>1

-----------------------------------------------------------------------------
(***************************************************************************)
(* Steps.                                                                  *)
(***************************************************************************)

\* pdunet_tx() keeps the invariant.
LEMMA TxKeeps ==
  ASSUME IInv, NEW due \in SUBSET Pdu, NEW periodic, NEW phys \in OutcomesOf(layout.set),
         Tx(due, periodic, phys)
  PROVE  IInv'
<1>1. layout \in Layouts /\ TypeInv /\ SenderInv /\ ReceiverInv
  BY DEF IInv, TypeInv
<1> DEFINE codes == [i \in Sig |-> IF S(i).pdu \in due THEN Encode(S(i), phys[i], tx.raw[i])
                                   ELSE {[phys |-> phys[i], raw |-> tx.raw[i]]}]
           funcs == [p \in due |-> EncodeOf(p)]
<1>2. PICK enc \in OutcomesOf(codes), writes \in Scripts(funcs, due) :
        \E raw \in {[i \in Sig |-> enc[i].raw]} :
        \E payload \in {[p \in Pdu |->
                           IF p \in due THEN Script(Packed(tx.payload, due, raw)[p], writes[p])
                           ELSE tx.payload[p]]} :
          /\ tx' = [raw |-> raw, payload |-> payload, checksum |-> payload]
          /\ wire' = [p \in Pdu |->
                        IF payload[p] # tx.checksum[p] \/ p \in periodic THEN <<payload[p]>>
                        ELSE wire[p]]
          /\ taken' = [i \in Sig |->
                         IF S(i).pdu \in due /\ InLimits(S(i), phys[i]) THEN <<enc[i].phys>>
                         ELSE taken[i]]
          /\ UNCHANGED <<layout, rx, heard>>
  BY DEF Tx
<1> DEFINE raw == [i \in Sig |-> enc[i].raw]
           packed == Packed(tx.payload, due, raw)
           payload == [p \in Pdu |-> IF p \in due THEN Script(packed[p], writes[p])
                                     ELSE tx.payload[p]]
<1>2a. \E u \in {raw} : \E v \in {[p \in Pdu |->
                                    IF p \in due THEN Script(Packed(tx.payload, due, u)[p], writes[p])
                                    ELSE tx.payload[p]]} :
         /\ tx' = [raw |-> u, payload |-> v, checksum |-> v]
         /\ wire' = [p \in Pdu |->
                       IF v[p] # tx.checksum[p] \/ p \in periodic THEN <<v[p]>> ELSE wire[p]]
         /\ taken' = [i \in Sig |->
                        IF S(i).pdu \in due /\ InLimits(S(i), phys[i]) THEN <<enc[i].phys>>
                        ELSE taken[i]]
         /\ layout' = layout /\ rx' = rx /\ heard' = heard
  BY <1>2
<1> HIDE DEF codes, funcs
<1>2b. /\ tx' = [raw |-> raw, payload |-> payload, checksum |-> payload]
       /\ wire' = [p \in Pdu |->
                     IF payload[p] # tx.checksum[p] \/ p \in periodic THEN <<payload[p]>>
                     ELSE wire[p]]
       /\ taken' = [i \in Sig |->
                      IF S(i).pdu \in due /\ InLimits(S(i), phys[i]) THEN <<enc[i].phys>>
                      ELSE taken[i]]
       /\ layout' = layout /\ rx' = rx /\ heard' = heard
  BY <1>2a, ZenonT(40)
<1>3. /\ tx'.raw = raw /\ tx'.payload = payload /\ tx'.checksum = payload
      /\ wire' = [p \in Pdu |->
                    IF payload[p] # tx.checksum[p] \/ p \in periodic THEN <<payload[p]>>
                    ELSE wire[p]]
      /\ taken' = [i \in Sig |->
                     IF S(i).pdu \in due /\ InLimits(S(i), phys[i]) THEN <<enc[i].phys>>
                     ELSE taken[i]]
      /\ layout' = layout /\ rx' = rx /\ heard' = heard
  <2> HIDE DEF raw, payload
  <2> QED
    BY <1>2b
<1> USE DEF codes, funcs
<1>4. Sig' = Sig /\ Pdu' = Pdu /\ \A i : S(i)' = S(i)
  BY <1>3 DEF Sig, Pdu, S
<1>5. ASSUME NEW i \in Sig
      PROVE  /\ phys[i] \in Int /\ tx.raw[i] \in Raw
             /\ enc[i] \in codes[i]
  <2>1. DOMAIN layout.set = Sig /\ layout.set[i] \subseteq Int
    BY <1>1, LayoutAssumption DEF Sig
  <2>2. phys[i] \in layout.set[i]
    BY <2>1, OutcomeOf
  <2>3. tx.raw[i] \in Raw
    BY <1>1 DEF TypeInv
  <2>4. i \in DOMAIN codes
    OBVIOUS
  <2> HIDE DEF codes
  <2>5. enc[i] \in codes[i]
    BY <2>4, OutcomeOf
  <2> QED
    BY <2>1, <2>2, <2>3, <2>5
<1>6. ASSUME NEW i \in Sig
      PROVE  /\ enc[i].raw \in Raw /\ enc[i].phys \in Int
             /\ S(i).pdu \notin due => enc[i].raw = tx.raw[i]
             /\ S(i).invalid \/ ~InLimits(S(i), phys[i]) => enc[i].raw = tx.raw[i]
             /\ S(i).pdu \in due /\ ~S(i).invalid /\ InLimits(S(i), phys[i]) /\ S(i).encode = {} =>
                  enc[i].raw \in RawsOf(S(i), enc[i].phys)
             /\ \/ enc[i].raw = tx.raw[i]
                \/ ~NoOverride(S(i))
                \/ \E y \in Int : InLimits(S(i), y) /\ enc[i].raw \in RawsOf(S(i), y)
  <2>1. phys[i] \in Int /\ tx.raw[i] \in Raw /\ enc[i] \in codes[i]
    BY <1>5
  <2>2. CASE S(i).pdu \notin due
    <3>1. enc[i] = [phys |-> phys[i], raw |-> tx.raw[i]]
      BY <2>1, <2>2
    <3> HIDE DEF codes
    <3> QED
      BY <2>1, <2>2, <3>1
  <2>3. CASE S(i).pdu \in due
    <3>1. enc[i] \in Encode(S(i), phys[i], tx.raw[i])
      BY <2>1, <2>3
    <3>2. Scalable(S(i)) /\ HasRuns(S(i))
      BY <1>1, SignalFacts
    <3> HIDE DEF codes
    <3> DEFINE s == S(i)
               e == enc[i]
               r == tx.raw[i]
               x == phys[i]
    <3>3. x \in Int /\ r \in Raw /\ e \in Encode(s, x, r) /\ Scalable(s) /\ HasRuns(s)
      BY <2>1, <3>1, <3>2
    <3> HIDE DEF s, e, r, x
    <3>4. /\ e.raw \in Raw /\ e.phys \in Int
          /\ s.invalid \/ ~InLimits(s, x) => e.raw = r
          /\ ~s.invalid /\ InLimits(s, x) /\ s.encode = {} =>
               e.phys = x /\ e.raw \in RawsOf(s, x)
          /\ \/ e.raw = r
             \/ ~NoOverride(s)
             \/ \E y \in Int : InLimits(s, y) /\ e.raw \in RawsOf(s, y)
      BY <3>3, EncodeIs
    <3> QED
      BY <2>3, <3>4, <3>3 DEF s, e, r, x
  <2> QED
    BY <2>2, <2>3
<1> HIDE DEF codes
<1>7. raw \in [Sig -> Raw] /\ \A i \in Sig : raw[i] = enc[i].raw
  BY <1>6
<1> HIDE DEF raw
<1>8. GoodPayloads(packed) /\ \A i \in Sig : S(i).pdu \in due => Holds(packed[S(i).pdu], S(i), raw[i])
  BY <1>1, <1>7, PackedIs DEF TypeInv
<1> HIDE DEF packed
<1>9. ASSUME NEW p \in due
      PROVE  /\ p \in Pdu /\ packed[p] \in [1 .. layout.pdus[p].len -> Byte]
             /\ writes[p] = <<>> \/ writes[p] \in layout.pdus[p].encode
             /\ \A b \in DOMAIN writes[p] : writes[p][b] \in Byte
             /\ payload[p] = Script(packed[p], writes[p])
  <2>1. p \in Pdu
    OBVIOUS
  <2>2. packed[p] \in [1 .. layout.pdus[p].len -> Byte]
    BY <1>8, <2>1, BytesAre DEF GoodPayloads
  <2>3. writes[p] = <<>> \/ writes[p] \in funcs[p]
    <3> HIDE DEF funcs
    <3> QED
      BY ScriptsAre
  <2>4. funcs[p] \subseteq layout.pdus[p].encode
    BY DEF EncodeOf
  <2> HIDE DEF funcs
  <2>5. \A b \in DOMAIN writes[p] : writes[p][b] \in Byte
    <3>1. CASE writes[p] = <<>>
      BY <3>1
    <3>2. CASE writes[p] \in layout.pdus[p].encode
      BY <1>1, <2>1, <3>2, PduFacts
    <3> QED
      BY <2>3, <2>4, <3>1, <3>2
  <2> QED
    BY <2>1, <2>2, <2>3, <2>4, <2>5
<1>10. \A p \in Pdu : p \notin due => payload[p] = tx.payload[p]
  OBVIOUS
<1>11. GoodPayloads(payload)
  <2>1. ASSUME NEW p \in Pdu PROVE payload[p] \in Bytes(p)
    <3>1. CASE p \in due
      BY <1>9, <3>1, ScriptType, BytesAre
    <3>2. CASE p \notin due
      BY <1>1, <3>2 DEF TypeInv, GoodPayloads
    <3> QED
      BY <3>1, <3>2
  <2>2. payload = [p \in Pdu |-> payload[p]]
    OBVIOUS
  <2> HIDE DEF payload
  <2> QED
    BY <2>1, <2>2 DEF GoodPayloads
<1> HIDE DEF payload, funcs
<1>12. ASSUME NEW p \in Pdu
       PROVE  /\ wire'[p] # <<>> => wire'[p] = <<payload[p]>>
              /\ wire'[p] = <<>> => wire[p] = <<>> /\ payload[p] = tx.payload[p]
  <2>1. tx.checksum[p] = tx.payload[p]
    BY <1>1 DEF SenderInv
  <2>2. wire[p] # <<>> => wire[p] = <<tx.payload[p]>>
    BY <1>1 DEF TypeInv
  <2>3. CASE payload[p] # tx.checksum[p] \/ p \in periodic
    BY <1>3, <2>3
  <2>4. CASE ~(payload[p] # tx.checksum[p] \/ p \in periodic)
    <3>1. wire'[p] = wire[p] /\ payload[p] = tx.payload[p]
      BY <1>3, <2>1, <2>4
    <3> QED
      BY <2>2, <3>1
  <2> QED
    BY <2>3, <2>4
<1>14. TypeInv'
  <2>1. layout' \in Layouts
    BY <1>1, <1>3
  <2>2. tx'.raw \in [Sig -> Raw] /\ rx'.raw \in [Sig -> Raw]
    BY <1>1, <1>3, <1>7 DEF TypeInv
  <2>3. GoodPayloads(tx.payload)' /\ GoodPayloads(rx.payload)'
    <3>1. \A p : Bytes(p)' = Bytes(p)
      BY <1>3 DEF Bytes
    <3>2. GoodPayloads(tx.payload)'
      BY <1>1, <1>3, <1>4, <1>11, <3>1 DEF TypeInv, GoodPayloads
    <3>3. GoodPayloads(rx.payload)'
      BY <1>1, <1>3, <1>4, <1>11, <3>1 DEF TypeInv, GoodPayloads
    <3> QED
      BY <3>2, <3>3
  <2>4. \A p \in Pdu : wire'[p] # <<>> => wire'[p] = <<tx'.payload[p]>>
    BY <1>3, <1>12
  <2>5. heard' \subseteq Pdu
    BY <1>1, <1>3 DEF TypeInv
  <2> QED
    BY <1>4, <2>1, <2>2, <2>3, <2>4, <2>5 DEF TypeInv
<1>15. SenderInv'
  <2>1. ASSUME NEW i \in Sig, Untouched(S(i), layout.pdus[S(i).pdu].encode)
        PROVE  Holds(payload[S(i).pdu], S(i), raw[i])
    <3>1. HasBits(S(i)) /\ S(i).pdu \in Pdu /\ Fits(S(i), layout.pdus[S(i).pdu].len)
      BY <1>1, SignalFacts
    <3>2. CASE S(i).pdu \notin due
      <4>1. Holds(tx.payload[S(i).pdu], S(i), tx.raw[i])
        BY <1>1, <2>1 DEF SenderInv
      <4>2. raw[i] = tx.raw[i]
        BY <1>6, <1>7, <3>2
      <4> QED
        BY <1>10, <3>1, <3>2, <4>1, <4>2
    <3>3. CASE S(i).pdu \in due
      <4> DEFINE p == S(i).pdu
      <4>1. /\ packed[p] \in [1 .. layout.pdus[p].len -> Byte]
            /\ writes[p] = <<>> \/ writes[p] \in layout.pdus[p].encode
            /\ payload[p] = Script(packed[p], writes[p])
        BY <1>9, <3>3
      <4>2. Holds(packed[p], S(i), raw[i])
        BY <1>8, <3>3
      <4>3. \A k \in SignalBits(S(i)) : (k \div 8) + 1 \notin DOMAIN writes[p]
        <5>1. CASE writes[p] = <<>>
          BY <5>1
        <5>2. CASE writes[p] \in layout.pdus[p].encode
          BY <2>1, <5>2 DEF Untouched
        <5> QED
          BY <4>1, <5>1, <5>2
      <4> HIDE DEF p
      <4>4. Holds(Script(packed[p], writes[p]), S(i), raw[i])
        BY <3>1, <4>1, <4>2, <4>3, ScriptKeeps DEF p
      <4> QED
        BY <4>1, <4>4 DEF p
    <3> QED
      BY <3>2, <3>3
  <2>2. ASSUME NEW i \in Sig, S(i).encode = {}, ~S(i).invalid, taken'[i] # <<>>
        PROVE  taken'[i][1] \in Int /\ raw[i] \in RawsOf(S(i), taken'[i][1])
    <3>1. CASE S(i).pdu \in due /\ InLimits(S(i), phys[i])
      <4>1. taken'[i] = <<enc[i].phys>>
        BY <1>3, <3>1
      <4> QED
        BY <1>6, <1>7, <2>2, <3>1, <4>1
    <3>2. CASE ~(S(i).pdu \in due /\ InLimits(S(i), phys[i]))
      <4>1. taken'[i] = taken[i]
        BY <1>3, <3>2
      <4>2. raw[i] = tx.raw[i]
        BY <1>6, <1>7, <3>2
      <4>3. taken[i][1] \in Int /\ tx.raw[i] \in RawsOf(S(i), taken[i][1])
        BY <1>1, <2>2, <4>1 DEF SenderInv
      <4> QED
        BY <4>1, <4>2, <4>3
    <3> QED
      BY <3>1, <3>2
  <2>3. ASSUME NEW i \in Sig, NoOverride(S(i)), Castable(S(i)), raw[i] # 0
        PROVE  Inside(S(i), raw[i])
    <3>1. CASE raw[i] = tx.raw[i]
      BY <1>1, <2>3, <3>1 DEF SenderInv
    <3>2. CASE raw[i] # tx.raw[i]
      <4>1. PICK y \in Int : InLimits(S(i), y) /\ enc[i].raw \in RawsOf(S(i), y)
        BY <1>6, <1>7, <2>3, <3>2
      <4>2. Scalable(S(i))
        BY <1>1, SignalFacts
      <4> QED
        BY <1>7, <2>3, <4>1, <4>2, RawsInside
    <3> QED
      BY <3>1, <3>2
  <2>4. \A i \in Sig : S(i)' = S(i)
    BY <1>4
  <2> QED
    BY <1>3, <1>4, <2>1, <2>2, <2>3, <2>4 DEF SenderInv
<1>16. ReceiverInv'
  <2>1. ASSUME NEW p \in heard, wire'[p] = <<>>, NEW b \in 1 .. layout.pdus[p].len, Received(p, b)
        PROVE  rx.payload[p][b] = payload[p][b]
    <3>1. p \in Pdu
      BY <1>1 DEF TypeInv
    <3>2. wire[p] = <<>> /\ payload[p] = tx.payload[p]
      BY <1>12, <2>1, <3>1
    <3> QED
      BY <1>1, <2>1, <3>2 DEF ReceiverInv
  <2>2. \A p, b : Received(p, b)' <=> Received(p, b)
    BY <1>3 DEF Received
  <2>3. \A p \in heard : wire'[p] = <<>> =>
          \A b \in 1 .. layout'.pdus[p].len :
            Received(p, b)' => rx'.payload[p][b] = tx'.payload[p][b]
    BY <1>3, <2>1, <2>2
  <2>4. \A i \in Sig : LET s == S(i) IN
          /\ s.decode = {} => Holds(rx'.payload[s.pdu], s, rx'.raw[i]) /\ rx'.raw[i] < Two[s.length]
          /\ rx'.phys[i] # 0 => InLimits(s, rx'.phys[i])
          /\ s.pdu \in heard /\ s.decode = {} /\ ~s.invalid /\ InLimits(s, Decoded(s, rx'.raw[i])) =>
               rx'.phys[i] = Decoded(s, rx'.raw[i])
    <3>1. rx' = rx
      BY <1>3
    <3> QED
      BY <1>1, <3>1 DEF ReceiverInv
  <2>5. \A i \in Sig' : S(i)' = S(i) /\ i \in Sig
    BY <1>4
  <2>6. heard' = heard
    BY <1>3
  <2> QED
    BY <2>3, <2>4, <2>5, <2>6 DEF ReceiverInv
<1> QED
  BY <1>14, <1>15, <1>16 DEF IInv

\* A signal is not wider than a raw value.
LEMMA LengthFits ==
  ASSUME layout \in Layouts, NEW i \in Sig
  PROVE  /\ Two[S(i).length] \in Nat /\ Two[S(i).length] <= Two[RawBits]
         /\ \A v \in Nat : v < Two[S(i).length] => v \in Raw
<1>1. PICK n \in Nat, m \in Nat : n = S(i).length /\ n + m = RawBits
  <2>1. S(i).length \in Nat /\ S(i).length <= RawBits /\ RawBits \in Nat
    BY SignalFacts, RawAssumption DEF HasBits
  <2> DEFINE n == S(i).length
  <2>2. n \in Nat /\ RawBits - n \in Nat /\ n + (RawBits - n) = RawBits
    <3> HIDE DEF n
    <3>1. n \in Nat /\ n <= RawBits /\ RawBits \in Nat
      BY <2>1 DEF n
    <3> QED
      BY <3>1
  <2> QED
    BY <2>2
<1>2. Two[RawBits] = Two[n] * Two[m]
  BY <1>1, TwoOfSum
<1>3. PICK a \in Nat, b \in Nat : a = Two[n] /\ b = Two[m] /\ b >= 1
  BY TwoType
<1>4. Two[RawBits] = a * b
  BY <1>2, <1>3
<1>5. a <= a * b /\ a * b \in Nat
  BY <1>3
<1>6. \A v \in Nat : v < a => v \in 0 .. a * b - 1
  BY <1>5
<1> QED
  BY <1>1, <1>3, <1>4, <1>5, <1>6 DEF Raw

\* pdunet_rx() keeps the invariant.
LEMMA RxKeeps ==
  ASSUME IInv, NEW got \in SUBSET {p \in Pdu : wire[p] # <<>>}, Rx(got)
  PROVE  IInv'
<1>1. layout \in Layouts /\ TypeInv /\ SenderInv /\ ReceiverInv
  BY DEF IInv, TypeInv
<1> DEFINE funcs == [p \in got |-> layout.pdus[p].decode]
<1>2. PICK writes \in Scripts(funcs, got) :
        \E payload \in {[p \in Pdu |-> IF p \in got THEN Script(Head(wire[p]), writes[p])
                                       ELSE rx.payload[p]]} :
        \E dec \in OutcomesOf([i \in Sig |->
                              IF S(i).pdu \in got
                              THEN Decode(S(i), rx.phys[i], Unpack(payload[S(i).pdu], S(i)))
                              ELSE {[phys |-> rx.phys[i], raw |-> rx.raw[i]]}]) :
          /\ rx' = [phys |-> [i \in Sig |-> dec[i].phys], raw |-> [i \in Sig |-> dec[i].raw],
                    payload |-> payload]
          /\ wire' = [p \in Pdu |-> IF p \in got THEN <<>> ELSE wire[p]]
          /\ heard' = heard \union got
          /\ UNCHANGED <<layout, tx, taken>>
  BY DEF Rx
<1> DEFINE payload == [p \in Pdu |-> IF p \in got THEN Script(Head(wire[p]), writes[p])
                                     ELSE rx.payload[p]]
           codes == [i \in Sig |->
                       IF S(i).pdu \in got
                       THEN Decode(S(i), rx.phys[i], Unpack(payload[S(i).pdu], S(i)))
                       ELSE {[phys |-> rx.phys[i], raw |-> rx.raw[i]]}]
<1>3. PICK dec \in OutcomesOf(codes) :
        /\ rx' = [phys |-> [i \in Sig |-> dec[i].phys], raw |-> [i \in Sig |-> dec[i].raw],
                  payload |-> payload]
        /\ wire' = [p \in Pdu |-> IF p \in got THEN <<>> ELSE wire[p]]
        /\ heard' = heard \union got
        /\ UNCHANGED <<layout, tx, taken>>
  BY <1>2
<1>4. /\ rx'.payload = payload
      /\ rx'.raw = [i \in Sig |-> dec[i].raw]
      /\ \A i \in Sig : rx'.raw[i] = dec[i].raw /\ rx'.phys[i] = dec[i].phys
      /\ wire' = [p \in Pdu |-> IF p \in got THEN <<>> ELSE wire[p]]
      /\ heard' = heard \union got
      /\ layout' = layout /\ tx' = tx /\ taken' = taken
  BY <1>3
<1>5. Sig' = Sig /\ Pdu' = Pdu /\ \A i : S(i)' = S(i)
  BY <1>4 DEF Sig, Pdu, S
<1>6. ASSUME NEW p \in got
      PROVE  /\ p \in Pdu /\ tx.payload[p] \in [1 .. layout.pdus[p].len -> Byte]
             /\ writes[p] = <<>> \/ writes[p] \in layout.pdus[p].decode
             /\ \A b \in DOMAIN writes[p] : writes[p][b] \in Byte
             /\ payload[p] = Script(tx.payload[p], writes[p])
  <2>1. p \in Pdu /\ wire[p] # <<>>
    OBVIOUS
  <2>2. wire[p] = <<tx.payload[p]>> /\ tx.payload[p] \in Bytes(p)
    BY <1>1, <2>1 DEF TypeInv, GoodPayloads
  <2>3. writes[p] = <<>> \/ writes[p] \in funcs[p]
    <3> HIDE DEF funcs
    <3> QED
      BY ScriptsAre
  <2>4. funcs[p] = layout.pdus[p].decode
    OBVIOUS
  <2>5. payload[p] = Script(Head(wire[p]), writes[p])
    BY <2>1
  <2>6. Head(wire[p]) = tx.payload[p]
    BY <2>2
  <2> HIDE DEF funcs, payload
  <2>7. \A b \in DOMAIN writes[p] : writes[p][b] \in Byte
    <3>1. CASE writes[p] = <<>>
      BY <3>1
    <3>2. CASE writes[p] \in layout.pdus[p].decode
      BY <1>1, <2>1, <3>2, PduFacts
    <3> QED
      BY <2>3, <2>4, <3>1, <3>2
  <2> QED
    BY <2>1, <2>2, <2>3, <2>4, <2>5, <2>6, <2>7, BytesAre
<1>7. \A p \in Pdu : p \notin got => payload[p] = rx.payload[p]
  OBVIOUS
<1>8. GoodPayloads(payload)
  <2>1. ASSUME NEW p \in Pdu PROVE payload[p] \in Bytes(p)
    <3>1. CASE p \in got
      <4> HIDE DEF payload
      <4> QED
        BY <1>6, <3>1, ScriptType, BytesAre
    <3>2. CASE p \notin got
      BY <1>1, <1>7, <3>2 DEF TypeInv, GoodPayloads
    <3> QED
      BY <3>1, <3>2
  <2>2. payload = [p \in Pdu |-> payload[p]]
    OBVIOUS
  <2> HIDE DEF payload
  <2> QED
    BY <2>1, <2>2 DEF GoodPayloads
<1>9. ASSUME NEW i \in Sig
      PROVE  IF S(i).pdu \in got
             THEN dec[i] \in Decode(S(i), rx.phys[i], Unpack(payload[S(i).pdu], S(i)))
             ELSE dec[i].phys = rx.phys[i] /\ dec[i].raw = rx.raw[i]
  <2>1. dec[i] \in codes[i]
    <3>1. i \in DOMAIN codes
      OBVIOUS
    <3> HIDE DEF codes
    <3> QED
      BY <3>1, OutcomeOf
  <2> HIDE DEF payload
  <2>2. CASE S(i).pdu \in got
    BY <2>1, <2>2
  <2>3. CASE S(i).pdu \notin got
    <3>1. dec[i] = [phys |-> rx.phys[i], raw |-> rx.raw[i]]
      BY <2>1, <2>3
    <3> HIDE DEF codes
    <3> QED
      BY <2>3, <3>1
  <2> QED
    BY <2>2, <2>3
<1> HIDE DEF payload, codes, funcs
<1>10. ASSUME NEW i \in Sig, S(i).pdu \in got
       PROVE  LET v == Unpack(payload[S(i).pdu], S(i)) IN
              /\ v \in Raw /\ v < Two[S(i).length] /\ Holds(payload[S(i).pdu], S(i), v)
              /\ dec[i] \in Decode(S(i), rx.phys[i], v)
              /\ HasRuns(S(i))
  <2> DEFINE s == S(i)
             p == s.pdu
             len == layout.pdus[p].len
             v == Unpack(payload[p], s)
  <2>1. HasBits(s) /\ HasRuns(s) /\ p \in Pdu /\ Fits(s, len)
    BY <1>1, SignalFacts
  <2>2. payload[p] \in [1 .. len -> Byte]
    BY <1>8, <2>1, BytesAre DEF GoodPayloads
  <2>3. v \in Nat /\ v < Two[s.length] /\ Holds(payload[p], s, v)
    <3> HIDE DEF s, p, len
    <3> QED
      BY <2>1, <2>2, UnpackIs
  <2>4. v \in Raw
    <3> HIDE DEF v
    <3> QED
      BY <1>1, <2>3, LengthFits
  <2> QED
    BY <1>9, <1>10, <2>1, <2>3, <2>4
<1>11. ASSUME NEW i \in Sig
       PROVE  /\ dec[i].raw \in Raw
              /\ S(i).decode = {} =>
                   Holds(payload[S(i).pdu], S(i), dec[i].raw) /\ dec[i].raw < Two[S(i).length]
              /\ dec[i].phys # 0 => InLimits(S(i), dec[i].phys)
              /\ S(i).pdu \in heard \union got /\ S(i).decode = {} /\ ~S(i).invalid
                   /\ InLimits(S(i), Decoded(S(i), dec[i].raw)) =>
                     dec[i].phys = Decoded(S(i), dec[i].raw)
  <2>1. rx.phys[i] # 0 => InLimits(S(i), rx.phys[i])
    BY <1>1 DEF ReceiverInv
  <2>2. CASE S(i).pdu \in got
    <3> DEFINE s == S(i)
               v == Unpack(payload[S(i).pdu], S(i))
               d == dec[i]
               x == rx.phys[i]
    <3>1. /\ v \in Raw /\ v < Two[s.length] /\ Holds(payload[s.pdu], s, v)
          /\ d \in Decode(s, x, v)
          /\ HasRuns(s)
      BY <1>10, <2>2
    <3>2. x # 0 => InLimits(s, x)
      BY <2>1
    <3> HIDE DEF s, v, d, x
    <3>3. /\ d.raw \in Raw
          /\ s.decode = {} => d.raw = v
          /\ d.phys # 0 => InLimits(s, d.phys)
          /\ s.decode = {} /\ ~s.invalid /\ InLimits(s, Decoded(s, v)) => d.phys = Decoded(s, v)
      BY <3>1, <3>2, DecodeIs
    <3>4. s.decode = {} => Holds(payload[s.pdu], s, d.raw) /\ d.raw < Two[s.length]
      BY <3>1, <3>3
    <3>5. s.decode = {} /\ ~s.invalid /\ InLimits(s, Decoded(s, d.raw)) =>
            d.phys = Decoded(s, d.raw)
      BY <3>3
    <3> QED
      BY <3>3, <3>4, <3>5 DEF s, d
  <2>3. CASE S(i).pdu \notin got
    <3>1. dec[i].phys = rx.phys[i] /\ dec[i].raw = rx.raw[i]
      BY <1>9, <2>3
    <3>2. S(i).pdu \in Pdu
      BY <1>1, SignalFacts
    <3>3. payload[S(i).pdu] = rx.payload[S(i).pdu]
      BY <1>7, <2>3, <3>2
    <3>4. rx.raw[i] \in Raw
      BY <1>1 DEF TypeInv
    <3> QED
      BY <1>1, <2>3, <3>1, <3>3, <3>4 DEF ReceiverInv
  <2> QED
    BY <2>2, <2>3
<1>12. TypeInv'
  <2>1. layout' \in Layouts
    BY <1>1, <1>4
  <2>2. tx'.raw \in [Sig -> Raw] /\ rx'.raw \in [Sig -> Raw]
    BY <1>1, <1>4, <1>11 DEF TypeInv
  <2>3. GoodPayloads(tx.payload)' /\ GoodPayloads(rx.payload)'
    <3>1. \A p : Bytes(p)' = Bytes(p)
      BY <1>4 DEF Bytes
    <3>2. GoodPayloads(tx.payload)'
      BY <1>1, <1>4, <1>5, <1>8, <3>1 DEF TypeInv, GoodPayloads
    <3>3. GoodPayloads(rx.payload)'
      BY <1>1, <1>4, <1>5, <1>8, <3>1 DEF TypeInv, GoodPayloads
    <3> QED
      BY <3>2, <3>3
  <2>4. \A p \in Pdu : wire'[p] # <<>> => wire'[p] = <<tx'.payload[p]>>
    BY <1>1, <1>4 DEF TypeInv
  <2>5. heard' \subseteq Pdu
    BY <1>1, <1>4 DEF TypeInv
  <2> QED
    BY <1>5, <2>1, <2>2, <2>3, <2>4, <2>5 DEF TypeInv
<1>13. SenderInv'
  <2>1. \A i : S(i)' = S(i)
    BY <1>5
  <2> QED
    BY <1>1, <1>4, <1>5, <2>1 DEF SenderInv
<1>14. ReceiverInv'
  <2>1. ASSUME NEW p \in heard', wire'[p] = <<>>, NEW b \in 1 .. layout.pdus[p].len, Received(p, b)
        PROVE  payload[p][b] = tx.payload[p][b]
    <3>1. CASE p \in got
      <4>1. b \notin DOMAIN writes[p]
        <5>1. CASE writes[p] = <<>>
          BY <5>1
        <5>2. CASE writes[p] \in layout.pdus[p].decode
          BY <2>1, <5>2 DEF Received
        <5> QED
          BY <1>6, <3>1, <5>1, <5>2
      <4>2. b \in DOMAIN tx.payload[p]
        BY <1>6, <3>1
      <4> QED
        BY <1>6, <3>1, <4>1, <4>2 DEF Script
    <3>2. CASE p \notin got
      <4>1. p \in heard /\ p \in Pdu
        BY <1>1, <1>4, <3>2 DEF TypeInv
      <4>2. wire[p] = <<>> /\ payload[p] = rx.payload[p]
        BY <1>4, <1>7, <2>1, <3>2, <4>1
      <4> QED
        BY <1>1, <2>1, <4>1, <4>2 DEF ReceiverInv
    <3> QED
      BY <3>1, <3>2
  <2>2. \A p, b : Received(p, b)' <=> Received(p, b)
    BY <1>4 DEF Received
  <2>3. \A p \in heard' : wire'[p] = <<>> =>
          \A b \in 1 .. layout'.pdus[p].len :
            Received(p, b)' => rx'.payload[p][b] = tx'.payload[p][b]
    BY <1>4, <2>1, <2>2
  <2>4. \A i \in Sig : LET s == S(i) IN
          /\ s.decode = {} => Holds(rx'.payload[s.pdu], s, rx'.raw[i]) /\ rx'.raw[i] < Two[s.length]
          /\ rx'.phys[i] # 0 => InLimits(s, rx'.phys[i])
          /\ s.pdu \in heard' /\ s.decode = {} /\ ~s.invalid /\ InLimits(s, Decoded(s, rx'.raw[i])) =>
               rx'.phys[i] = Decoded(s, rx'.raw[i])
    BY <1>4, <1>11
  <2>5. \A i \in Sig' : S(i)' = S(i) /\ i \in Sig
    BY <1>5
  <2> QED
    BY <2>3, <2>4, <2>5 DEF ReceiverInv
<1> QED
  BY <1>12, <1>13, <1>14 DEF IInv

LEMMA Stutter == IInv /\ UNCHANGED vars => IInv'
<1> SUFFICES ASSUME IInv, UNCHANGED vars PROVE IInv'
  OBVIOUS
<1>1. layout' = layout /\ tx' = tx /\ wire' = wire /\ rx' = rx /\ taken' = taken /\ heard' = heard
  BY DEF vars
<1>2. Sig' = Sig /\ Pdu' = Pdu /\ \A i : S(i)' = S(i)
  BY <1>1 DEF Sig, Pdu, S
<1>3. TypeInv'
  <2>1. TypeInv
    BY DEF IInv
  <2>2. \A p : Bytes(p)' = Bytes(p)
    BY <1>1 DEF Bytes
  <2>3. GoodPayloads(tx.payload)'
    BY <1>1, <1>2, <2>1, <2>2 DEF TypeInv, GoodPayloads
  <2>4. GoodPayloads(rx.payload)'
    BY <1>1, <1>2, <2>1, <2>2 DEF TypeInv, GoodPayloads
  <2>5. \A p \in Pdu' : wire'[p] # <<>> => wire'[p] = <<tx'.payload[p]>>
    BY <1>1, <1>2, <2>1 DEF TypeInv
  <2>6. /\ layout' \in Layouts /\ heard' \subseteq Pdu'
        /\ tx'.raw \in [Sig' -> Raw] /\ rx'.raw \in [Sig' -> Raw]
    BY <1>1, <1>2, <2>1 DEF TypeInv
  <2> QED
    BY <2>3, <2>4, <2>5, <2>6 DEF TypeInv
<1>4. SenderInv'
  BY <1>1, <1>2 DEF IInv, SenderInv
<1>5. ReceiverInv'
  <2>1. \A p, b : Received(p, b)' <=> Received(p, b)
    BY <1>1 DEF Received
  <2> QED
    BY <1>1, <1>2, <2>1 DEF IInv, ReceiverInv
<1> QED
  BY <1>3, <1>4, <1>5 DEF IInv

-----------------------------------------------------------------------------
(***************************************************************************)
(* Theorems.                                                               *)
(***************************************************************************)

\* The invariant holds in every state.
THEOREM Invariant == Spec => []IInv
<1>1. IInv /\ [Next]_vars => IInv'
  BY TxKeeps, RxKeeps, Stutter DEF Next
<1> QED
  BY <1>1, InitInv, PTL DEF Spec

\* Raw values and bytes have their width, in every state and with whatever the Lua
\* functions of signals and PDUs set.
THEOREM TypeCorrect == Spec => []TypeOK
<1>1. IInv => TypeOK
  <2> SUFFICES ASSUME IInv PROVE TypeOK
    OBVIOUS
  <2>1. TypeInv /\ SenderInv
    BY DEF IInv
  <2>2. \A i \in Sig : {tx.raw[i], rx.raw[i]} \subseteq 0 .. Two[RawBits] - 1
    BY <2>1 DEF TypeInv, Raw
  <2>3. ASSUME NEW p \in Pdu
        PROVE  {tx.payload[p], tx.checksum[p], rx.payload[p]} \union ToSet(wire[p]) \subseteq Bytes(p)
    <3>1. tx.payload[p] \in Bytes(p) /\ rx.payload[p] \in Bytes(p) /\ tx.checksum[p] = tx.payload[p]
      BY <2>1 DEF TypeInv, SenderInv, GoodPayloads
    <3>2. wire[p] = <<>> \/ wire[p] = <<tx.payload[p]>>
      BY <2>1 DEF TypeInv
    <3>3. ToSet(<<>>) = {} /\ ToSet(<<tx.payload[p]>>) = {tx.payload[p]}
      BY DEF ToSet
    <3> QED
      BY <3>1, <3>2, <3>3
  <2> QED
    BY <2>1, <2>2, <2>3 DEF TypeInv, TypeOK
<1> QED
  BY <1>1, Invariant, PTL

\* Every bit of a payload belongs to the raw value of its signal, on both sides and
\* at any time: packing a signal (pdunet_pdu_pack_range()) never damages another,
\* in this PDU or in one that is not due, for every layout of the signals.
THEOREM BitsKept == Spec => []BitsOfSignals
<1>1. IInv => BitsOfSignals
  BY DEF IInv, SenderInv, ReceiverInv, BitsOfSignals
<1> QED
  BY <1>1, Invariant, PTL

\* Only values in the limits are sent, but for what truncation takes off, and only
\* such values are received.
THEOREM LimitsKept == Spec => []OnlyInLimits
<1>1. IInv => OnlyInLimits
  BY DEF IInv, SenderInv, ReceiverInv, OnlyInLimits, Inside
<1> QED
  BY <1>1, Invariant, PTL

\* When nothing is left on the wire, the receiver has the raw value of a signal that
\* no Lua function writes and that has no more bits than the signal.
LEMMA ReceiverHasRaw ==
  ASSUME IInv, NEW i \in Sig, S(i).pdu \in heard, wire[S(i).pdu] = <<>>,
         S(i).decode = {},
         Untouched(S(i), layout.pdus[S(i).pdu].encode \union layout.pdus[S(i).pdu].decode),
         tx.raw[i] < Two[S(i).length]
  PROVE  rx.raw[i] = tx.raw[i]
<1> DEFINE s == S(i)
           p == S(i).pdu
           len == layout.pdus[S(i).pdu].len
           a == tx.raw[i]
           b == rx.raw[i]
           n == S(i).length
           sent == tx.payload[S(i).pdu]
           got == rx.payload[S(i).pdu]
<1>1. layout \in Layouts /\ TypeInv /\ SenderInv /\ ReceiverInv
  BY DEF IInv, TypeInv
<1>2. HasBits(s) /\ Fits(s, len) /\ n \in Nat /\ s.length = n
  BY <1>1, SignalFacts DEF HasBits
<1>3. Two[RawBits] \in Nat
  BY RawSize
<1>4. a \in Raw /\ b \in Raw
  BY <1>1 DEF TypeInv
<1>5. a \in Nat /\ b \in Nat
  BY <1>3, <1>4 DEF Raw
<1>6. Untouched(s, layout.pdus[p].encode)
  BY DEF Untouched
<1>7. Holds(sent, s, a)
  BY <1>1, <1>6 DEF SenderInv
<1>8. Holds(got, s, b) /\ b < Two[n]
  BY <1>1 DEF ReceiverInv
<1>9. ASSUME NEW x \in SignalBits(s)
      PROVE  got[(x \div 8) + 1] = sent[(x \div 8) + 1]
  <2>1. Received(p, (x \div 8) + 1)
    BY <1>9 DEF Untouched, Received
  <2>2. (x \div 8) + 1 \in 1 .. len
    <3>1. x \in Nat /\ x < 8 * len /\ len \in Nat
      <4> HIDE DEF len, s
      <4> QED
        BY <1>2 DEF SignalBits, HasBits, Fits
    <3> HIDE DEF len
    <3> QED
      BY <3>1
  <2> QED
    BY <1>1, <2>1, <2>2 DEF ReceiverInv
<1>10. a < Two[n]
  OBVIOUS
<1> HIDE DEF s, p, len, a, b, n, sent, got
<1>11. Holds(got, s, a)
  BY <1>2, <1>7, <1>9, HoldsLike
<1>12. \A k \in 0 .. n - 1 : BitOf(a, k) = BitOf(b, k)
  BY <1>2, <1>8, <1>11 DEF Holds
<1> QED
  BY <1>2, <1>5, <1>8, <1>10, <1>12, SameBits DEF a, b

\* A transferable value reaches the receiver, less than one factor off (one factor,
\* if the quotient is rounded), whatever was encoded, packed and sent since.
THEOREM Arrival == Spec => []PhysReachesReceiver
<1>1. IInv => PhysReachesReceiver
  <2> SUFFICES ASSUME IInv, NEW i \in Sig, S(i).pdu \in heard, wire[S(i).pdu] = <<>>,
                      taken[i] # <<>>, Transferable(S(i), taken[i][1])
               PROVE  \/ 0 <= taken[i][1] - rx.phys[i] /\ taken[i][1] - rx.phys[i] < S(i).factor
                      \/ ~S(i).exact /\ taken[i][1] - rx.phys[i] = S(i).factor
    BY DEF PhysReachesReceiver
  <2> DEFINE s == S(i)
             x == taken[i][1]
             r == tx.raw[i]
             f == S(i).factor
             o == S(i).offset
             n == S(i).length
  <2>1. layout \in Layouts /\ TypeInv /\ SenderInv /\ ReceiverInv
    BY DEF IInv, TypeInv
  <2>2. Scalable(s) /\ HasBits(s) /\ s.exact \in BOOLEAN
    BY <2>1, SignalFacts
  <2>3. f \in Nat /\ f >= 1 /\ o \in Int
    BY <2>2 DEF Scalable
  <2>4. /\ s.encode = {} /\ s.decode = {} /\ ~s.invalid
        /\ Untouched(s, layout.pdus[s.pdu].encode \union layout.pdus[s.pdu].decode)
        /\ x >= o /\ (x - o) \div f < Two[n]
        /\ \A g \in {Grid(s, x), Grid(s, x) - (IF s.exact THEN 0 ELSE f)} : InLimits(s, g)
    BY DEF Transferable
  <2>5. x \in Int /\ r \in RawsOf(s, x)
    BY <2>1, <2>4 DEF SenderInv
  <2>6. Two[n] \in Nat /\ Two[n] <= Two[RawBits] /\ Two[RawBits] \in Nat
    BY <2>1, LengthFits, RawSize
  <2>7. PICK m \in Nat, z \in Nat : m = Two[n] /\ z = Two[RawBits]
    BY <2>6
  <2>8. (x - o) \div f < Two[RawBits]
    <3>1. (x - o) \div f \in Int /\ (x - o) \div f < m /\ m <= z
      <4> HIDE DEF x, o, f
      <4>1. (x - o) \div f \in Int
        BY <2>3, <2>5
      <4> QED
        BY <2>4, <2>6, <2>7, <4>1
    <3> HIDE DEF x, o, f
    <3> QED
      BY <2>7, <3>1
  <2> HIDE DEF x, r
  <2>9. PICK q \in Nat, c \in Nat :
          /\ c < s.factor /\ x - s.offset = s.factor * q + c
          /\ q = (x - s.offset) \div s.factor
          /\ \/ r = q
             \/ ~s.exact /\ c = 0 /\ q >= 1 /\ r = q - 1
    <3>1. x >= s.offset /\ (x - s.offset) \div s.factor < Two[RawBits]
      BY <2>4, <2>8
    <3> HIDE DEF s
    <3> QED
      BY <2>2, <2>5, <3>1, RawsAre
  <2>10. Decoded(s, r) \in Int
         /\ \/ Decoded(s, r) = x - c
            \/ ~s.exact /\ Decoded(s, r) = x - s.factor
    <3> HIDE DEF s
    <3> QED
      BY <2>2, <2>5, <2>9, DecodedIs
  <2>11. r < Two[n]
    <3>1. q < m
      BY <2>4, <2>7, <2>9
    <3>2. r = q \/ (q >= 1 /\ r = q - 1)
      BY <2>9
    <3> QED
      BY <2>7, <3>1, <3>2
  <2>12. rx.raw[i] = r
    BY <2>4, <2>11, ReceiverHasRaw DEF r
  <2>13. Grid(s, x) = x - c
    <3>1. Grid(s, x) = o + f * q
      BY <2>9 DEF Grid
    <3>2. x - o = f * q + c
      BY <2>9
    <3>3. PICK w \in Int : w = f * q
      BY <2>3
    <3>4. x - o = w + c /\ Grid(s, x) = o + w
      BY <3>1, <3>2, <3>3
    <3> HIDE DEF s, o, f
    <3> QED
      BY <2>3, <2>5, <3>4
  <2>14. InLimits(s, Decoded(s, r))
    <3>1. CASE Decoded(s, r) = x - c
      BY <2>4, <2>13, <3>1
    <3>2. CASE Decoded(s, r) # x - c
      <4>1. ~s.exact /\ c = 0 /\ r = q - 1 /\ Decoded(s, r) = x - f
        <5>1. ~s.exact /\ Decoded(s, r) = x - f
          BY <2>10, <3>2
        <5>2. r # q
          <6>1. ASSUME r = q PROVE FALSE
            <7>1. Decoded(s, r) = q * f + o
              BY <6>1 DEF Decoded
            <7>2. Decoded(s, r) = Grid(s, x)
              <8>1. Grid(s, x) = o + f * q
                BY <2>9 DEF Grid
              <8> HIDE DEF f, o, s
              <8>2. q * f = f * q /\ f * q \in Int
                BY <2>3
              <8> QED
                BY <2>3, <7>1, <8>1, <8>2
            <7> QED
              BY <2>13, <3>2, <7>2
          <6> QED
            BY <6>1
        <5> QED
          BY <2>9, <5>1, <5>2
      <4>2. Grid(s, x) - f = x - f
        <5>1. Grid(s, x) = x - 0
          BY <2>13, <4>1
        <5> HIDE DEF s, f
        <5> QED
          BY <2>5, <5>1
      <4> QED
        BY <2>4, <4>1, <4>2
    <3> QED
      BY <3>1, <3>2
  <2>15. rx.phys[i] = Decoded(s, r)
    BY <2>1, <2>4, <2>12, <2>14 DEF ReceiverInv
  <2>16. CASE Decoded(s, r) = x - c
    <3>1. x - (x - c) = c /\ 0 <= c /\ c < f
      <4>1. c < f
        BY <2>9
      <4> HIDE DEF s, f
      <4> QED
        BY <2>5, <2>9, <4>1
    <3> QED
      BY <2>15, <2>16, <3>1 DEF x
  <2>17. CASE ~s.exact /\ Decoded(s, r) = x - s.factor
    <3>1. x - (x - f) = f
      <4> HIDE DEF s, f
      <4> QED
        BY <2>3, <2>5
    <3> QED
      BY <2>15, <2>17, <3>1 DEF x
  <2> QED
    BY <2>10, <2>16, <2>17
<1> QED
  BY <1>1, Invariant, PTL
=============================================================================
