---------------------------- MODULE PrintfProofs ----------------------------
(***************************************************************************)
(* Formatted output for formats of any length, numbers of any width in     *)
(* bits and widths and flags of any kind: print() reads its arguments      *)
(* where the caller has put them exactly if the format is regular; of a    *)
(* regular format it prints what the C standard says, an int never leaves  *)
(* print_buf, and myAtoi reads back what was printed.                      *)
(***************************************************************************)
EXTENDS Printf, FiniteSetTheorems, SequenceTheorems, TLAPS

-----------------------------------------------------------------------------
(* The first position at which something goes wrong.                       *)

\* A set of positions in a format has a least one: the positions before it are a
\* finite set, and inclusion of those is well-founded.
LEMMA FirstOf ==
  ASSUME NEW T, T \subseteq Nat, T # {}
  PROVE  \E m \in T : \A k \in T : m <= k
<1> DEFINE Before == {1 .. k : k \in T}
           R == StrictSubsetOrdering(Nat)
<1>1. \A k \in T : 1 .. k \in FiniteSubsetsOf(Nat)
  <2> TAKE k \in T
  <2>1. IsFiniteSet(1 .. k) /\ 1 .. k \subseteq Nat
    BY FS_Interval
  <2> QED
    BY <2>1 DEF FiniteSubsetsOf
<1>2. PICK m \in T : \A k \in T : ~(<<1 .. k, 1 .. m>> \in R)
  <2>1. Before \subseteq FiniteSubsetsOf(Nat) /\ Before # {}
    <3> HIDE DEF R
    <3> QED
      BY <1>1
  <2>2. \E x \in Before : \A y \in Before : ~(<<y, x>> \in R)
    <3>1. IsWellFoundedOn(R, FiniteSubsetsOf(Nat))
      BY FS_StrictSubsetOrderingWellFounded
    <3> HIDE DEF R, Before
    <3> QED
      BY <2>1, <3>1, WFMin
  <2> QED
    BY <2>2
<1>3. ASSUME NEW k \in T, k < m
      PROVE  FALSE
  <2>1. 1 .. k \subseteq 1 .. m /\ 1 .. k # 1 .. m
    <3>1. k \in Nat /\ m \in Nat /\ m \in 1 .. m /\ m \notin 1 .. k
      BY <1>3
    <3> QED
      BY <1>3, <3>1
  <2>2. 1 .. k \in SUBSET Nat /\ 1 .. m \in SUBSET Nat
    OBVIOUS
  <2>3. <<1 .. k, 1 .. m>> \in R
    BY <2>1, <2>2 DEF StrictSubsetOrdering
  <2> QED
    BY <1>2, <2>3
<1> QED
  BY <1>3

-----------------------------------------------------------------------------
(* Recursion on smaller numbers.                                           *)

\* g is defined by recursion: its value at n comes from that at h[n], by F.
Recurs(g, h, F, v0) == g = [n \in Nat |-> IF n = 0 THEN v0 ELSE F[<<n, g[h[n]]>>]]

\* A beginning of such a function.
Begins(g, h, F, v0, n) ==
  /\ DOMAIN g = 0 .. n
  /\ \A k \in 0 .. n : g[k] = IF k = 0 THEN v0 ELSE F[<<k, g[h[k]]>>]

LEMMA BeginningsAgree ==
  ASSUME NEW h \in [Nat -> Nat], \A n \in Nat \ {0} : h[n] < n, NEW F, NEW v0,
         NEW a, NEW m \in Nat, Begins(a, h, F, v0, m),
         NEW b, NEW n \in Nat, Begins(b, h, F, v0, n),
         NEW k \in Nat, k <= m, k <= n
  PROVE  a[k] = b[k]
<1> DEFINE D == {j \in Nat : j <= m /\ j <= n /\ a[j] # b[j]}
<1>1. ASSUME D # {}
      PROVE  FALSE
  <2>1. PICK j \in D : \A i \in D : j <= i
    <3>1. D \subseteq Nat
      OBVIOUS
    <3> HIDE DEF D
    <3> QED
      BY <1>1, <3>1, FirstOf
  <2>2. j \in Nat /\ j \in 0 .. m /\ j \in 0 .. n
    OBVIOUS
  <2>3. j = 0 \/ (h[j] \in Nat /\ h[j] < j /\ a[h[j]] = b[h[j]])
    <3>1. j = 0 \/ (h[j] \in Nat /\ h[j] < j)
      BY <2>2
    <3>2. j = 0 \/ (h[j] <= m /\ h[j] <= n /\ ~(j <= h[j]))
      BY <2>2, <3>1
    <3> QED
      BY <2>1, <3>1, <3>2
  <2>4. /\ a[j] = IF j = 0 THEN v0 ELSE F[<<j, a[h[j]]>>]
        /\ b[j] = IF j = 0 THEN v0 ELSE F[<<j, b[h[j]]>>]
    BY <2>2 DEF Begins
  <2>5. a[j] = b[j]
    BY <2>3, <2>4
  <2> QED
    BY <2>5
<1> QED
  BY <1>1

LEMMA BeginningsExist ==
  ASSUME NEW h \in [Nat -> Nat], \A n \in Nat \ {0} : h[n] < n, NEW F, NEW v0,
         NEW n \in Nat
  PROVE  \E g : Begins(g, h, F, v0, n)
<1> DEFINE D == {m \in Nat : ~ \E g : Begins(g, h, F, v0, m)}
<1>1. ASSUME D # {}
      PROVE  FALSE
  <2>1. PICK m \in D : \A i \in D : m <= i
    <3>1. D \subseteq Nat
      OBVIOUS
    <3> HIDE DEF D
    <3> QED
      BY <1>1, <3>1, FirstOf
  <2>2. CASE m = 0
    <3> DEFINE g == [k \in 0 .. 0 |-> v0]
    <3>1. Begins(g, h, F, v0, 0)
      BY DEF Begins
    <3> QED
      BY <2>2, <3>1
  <2>3. CASE m # 0
    <3>1. m - 1 \in Nat /\ ~(m <= m - 1)
      BY <2>3
    <3>2. PICK a : Begins(a, h, F, v0, m - 1)
      BY <2>1, <3>1
    <3> DEFINE g == [k \in 0 .. m |-> IF k = m THEN F[<<m, a[h[m]]>>] ELSE a[k]]
    <3>3. ASSUME NEW k \in 0 .. m
          PROVE  g[k] = IF k = 0 THEN v0 ELSE F[<<k, g[h[k]]>>]
      <4>1. k = 0 \/ (h[k] \in 0 .. m /\ h[k] < m /\ h[k] # m)
        BY <2>1
      <4>2. k = 0 \/ g[h[k]] = a[h[k]]
        BY <4>1
      <4>3. CASE k = m
        BY <2>3, <4>2, <4>3
      <4>4. CASE k # m
        <5>1. k \in 0 .. m - 1 /\ g[k] = a[k]
          BY <4>4
        <5> QED
          BY <3>2, <4>2, <5>1 DEF Begins
      <4> QED
        BY <4>3, <4>4
    <3>4. DOMAIN g = 0 .. m
      OBVIOUS
    <3>5. Begins(g, h, F, v0, m)
      <4> HIDE DEF g
      <4> QED
        BY <3>3, <3>4 DEF Begins
    <3> QED
      BY <3>5
  <2> QED
    BY <2>2, <2>3
<1> QED
  BY <1>1

\* Recursion on smaller numbers defines a function.
LEMMA RecursionOnNat ==
  ASSUME NEW h \in [Nat -> Nat], \A n \in Nat \ {0} : h[n] < n, NEW F, NEW v0
  PROVE  \E g : Recurs(g, h, F, v0)
<1> DEFINE C(n) == CHOOSE g : Begins(g, h, F, v0, n)
           g == [n \in Nat |-> C(n)[n]]
<1>1. \A n \in Nat : Begins(C(n), h, F, v0, n)
  BY BeginningsExist
<1> HIDE DEF C
<1>2. ASSUME NEW n \in Nat
      PROVE  g[n] = IF n = 0 THEN v0 ELSE F[<<n, g[h[n]]>>]
  <2>1. C(n)[n] = IF n = 0 THEN v0 ELSE F[<<n, C(n)[h[n]]>>]
    BY <1>1 DEF Begins
  <2>2. ASSUME n # 0
        PROVE  C(n)[h[n]] = g[h[n]]
    <3>1. h[n] \in Nat /\ h[n] <= n
      BY <2>2
    <3>2. C(n)[h[n]] = C(h[n])[h[n]]
      BY <1>1, <3>1, BeginningsAgree
    <3> QED
      BY <3>1, <3>2
  <2> QED
    BY <2>1, <2>2
<1>3. g = [n \in Nat |-> g[n]]
  OBVIOUS
<1>4. Recurs(g, h, F, v0)
  <2> HIDE DEF g
  <2> QED
    BY <1>2, <1>3 DEF Recurs
<1> QED
  BY <1>4

\* Its values are where F stays.
LEMMA RecursionStays ==
  ASSUME NEW h \in [Nat -> Nat], \A n \in Nat \ {0} : h[n] < n, NEW F, NEW v0,
         NEW g, Recurs(g, h, F, v0), NEW V, v0 \in V,
         \A n \in Nat, v \in V : F[<<n, v>>] \in V
  PROVE  g \in [Nat -> V]
<1> DEFINE D == {n \in Nat : g[n] \notin V}
<1>0. g = [n \in Nat |-> g[n]] /\ \A n \in Nat : g[n] = IF n = 0 THEN v0 ELSE F[<<n, g[h[n]]>>]
  BY DEF Recurs
<1>1. ASSUME D # {}
      PROVE  FALSE
  <2>1. PICK m \in D : \A i \in D : m <= i
    <3>1. D \subseteq Nat
      OBVIOUS
    <3> HIDE DEF D
    <3> QED
      BY <1>1, <3>1, FirstOf
  <2>2. m # 0 => h[m] \in Nat /\ ~(m <= h[m])
    OBVIOUS
  <2>3. m # 0 => g[h[m]] \in V
    BY <2>1, <2>2
  <2> QED
    BY <1>0, <2>3
<1> QED
  BY <1>0, <1>1

-----------------------------------------------------------------------------
(* Division.                                                               *)

LEMMA Monotone ==
  ASSUME NEW a \in Nat, NEW b \in Nat, NEW c \in Nat, a <= b
  PROVE  a * c <= b * c
<1>1. PICK d \in Nat : b = a + d
  <2> WITNESS b - a \in Nat
  <2> QED
    OBVIOUS
<1>2. b * c = a * c + d * c /\ d * c \in Nat /\ a * c \in Nat
  BY <1>1
<1> QED
  BY <1>2

LEMMA DivMod ==
  ASSUME NEW n \in Nat, NEW d \in Nat \ {0}
  PROVE  /\ n \div d \in Nat /\ n % d \in 0 .. d - 1
         /\ n = d * (n \div d) + (n % d)
OBVIOUS

LEMMA DivUnique ==
  ASSUME NEW n \in Nat, NEW d \in Nat \ {0}, NEW q \in Nat, NEW r \in Nat, r < d, n = d * q + r
  PROVE  n \div d = q /\ n % d = r
<1> DEFINE p == n \div d
           s == n % d
<1>1. p \in Nat /\ s \in Nat /\ s < d /\ n = d * p + s
  BY DivMod
<1> HIDE DEF p, s
<1>2. ~(p < q)
  <2> SUFFICES ASSUME p + 1 <= q PROVE FALSE
    BY <1>1
  <2>1. (p + 1) * d <= q * d
    BY <1>1, Monotone
  <2>2. (p + 1) * d = d * p + d /\ q * d = d * q
    BY <1>1
  <2>3. d * p \in Nat /\ d * q \in Nat
    BY <1>1
  <2> QED
    BY <1>1, <2>1, <2>2, <2>3
<1>3. ~(q < p)
  <2> SUFFICES ASSUME q + 1 <= p PROVE FALSE
    BY <1>1
  <2>1. (q + 1) * d <= p * d
    BY <1>1, Monotone
  <2>2. (q + 1) * d = d * q + d /\ p * d = d * p
    BY <1>1
  <2>3. d * p \in Nat /\ d * q \in Nat
    BY <1>1
  <2> QED
    BY <1>1, <2>1, <2>2, <2>3
<1>4. p = q
  BY <1>1, <1>2, <1>3
<1>5. s = r
  <2>1. d * p \in Nat
    BY <1>1
  <2> QED
    BY <1>1, <1>4, <2>1
<1> QED
  BY <1>4, <1>5 DEF p, s

\* Division in two steps.
LEMMA DivDiv ==
  ASSUME NEW n \in Nat, NEW a \in Nat \ {0}, NEW b \in Nat \ {0}
  PROVE  (n \div a) \div b = n \div (a * b)
<1> DEFINE p == n \div a
           q == p \div b
           r == n % a
           s == p % b
<1>1. p \in Nat /\ r \in 0 .. a - 1 /\ n = a * p + r
  BY DivMod
<1> HIDE DEF p, r
<1>2. q \in Nat /\ s \in 0 .. b - 1 /\ p = b * q + s
  BY <1>1, DivMod
<1> HIDE DEF q, s
<1>3. n = (a * b) * q + (a * s + r)
  <2>1. a * (b * q + s) = (a * b) * q + a * s
    BY <1>1, <1>2
  <2>2. (a * b) * q \in Nat /\ a * s \in Nat
    BY <1>1, <1>2
  <2> QED
    BY <1>1, <1>2, <2>1, <2>2
<1>4. a * s + r \in Nat /\ a * s + r < a * b /\ a * b \in Nat \ {0}
  <2>1. (s + 1) * a <= b * a /\ (s + 1) * a = a * s + a /\ b * a = a * b
    BY <1>2, Monotone
  <2>2. a * s \in Nat /\ a * b \in Nat /\ 1 * a <= b * a
    BY <1>2, Monotone
  <2> QED
    BY <1>1, <2>1, <2>2
<1>5. n \div (a * b) = q
  BY <1>2, <1>3, <1>4, DivUnique
<1> QED
  BY <1>5 DEF p, q

-----------------------------------------------------------------------------
(* Powers and digits.                                                      *)

LEMMA Powers ==
  ASSUME NEW b \in Nat \ {0}
  PROVE  /\ Power(b) \in [Nat -> Nat \ {0}] /\ Power(b)[0] = 1
         /\ \A k \in Nat : Power(b)[k + 1] = b * Power(b)[k]
<1> DEFINE Eq(p) == p = [k \in Nat |-> IF k = 0 THEN 1 ELSE b * p[k - 1]]
           h == [k \in Nat |-> IF k = 0 THEN 0 ELSE k - 1]
           F == [x \in Nat \X (Nat \ {0}) |-> b * x[2]]
<1>1. h \in [Nat -> Nat] /\ (\A k \in Nat \ {0} : h[k] < k /\ h[k] = k - 1)
  OBVIOUS
<1>2. ASSUME NEW k \in Nat, NEW v \in Nat \ {0}
      PROVE  F[<<k, v>>] = b * v /\ b * v \in Nat \ {0}
  OBVIOUS
<1> HIDE DEF h, F
<1>3. PICK g : Recurs(g, h, F, 1)
  BY <1>1, RecursionOnNat
<1>4. g \in [Nat -> Nat \ {0}]
  <2>1. 1 \in Nat \ {0} /\ (\A k \in Nat, v \in Nat \ {0} : F[<<k, v>>] \in Nat \ {0})
    BY <1>2
  <2> QED
    BY <1>1, <1>3, <2>1, RecursionStays
<1>5. Eq(g)
  <2>1. \A k \in Nat : g[k] = IF k = 0 THEN 1 ELSE F[<<k, g[h[k]]>>]
    BY <1>3 DEF Recurs
  <2>2. \A k \in Nat : g[k] = IF k = 0 THEN 1 ELSE b * g[k - 1]
    BY <1>1, <1>2, <1>4, <2>1
  <2> QED
    BY <1>4, <2>2
<1>6. Eq(Power(b))
  <2>1. Power(b) = CHOOSE p : Eq(p)
    BY DEF Power
  <2> HIDE DEF Eq
  <2> QED
    BY <1>5, <2>1
<1> DEFINE P == Power(b)
<1> HIDE DEF P
<1>7. P = [k \in Nat |-> P[k]] /\ \A k \in Nat : P[k] = IF k = 0 THEN 1 ELSE b * P[k - 1]
  BY <1>6 DEF P
<1>8. \A k \in Nat : P[k] \in Nat \ {0}
  <2> DEFINE D == {k \in Nat : P[k] \notin Nat \ {0}}
  <2>1. ASSUME D # {}
        PROVE  FALSE
    <3>1. PICK m \in D : \A i \in D : m <= i
      <4>1. D \subseteq Nat
        OBVIOUS
      <4> HIDE DEF D
      <4> QED
        BY <2>1, <4>1, FirstOf
    <3>2. m # 0 => m - 1 \in Nat /\ ~(m <= m - 1)
      OBVIOUS
    <3>3. m # 0 => P[m - 1] \in Nat \ {0}
      BY <3>1, <3>2
    <3>4. \A x \in Nat \ {0} : b * x \in Nat \ {0}
      OBVIOUS
    <3>5. P[m] = IF m = 0 THEN 1 ELSE b * P[m - 1]
      BY <1>7
    <3>6. P[m] \in Nat \ {0}
      <4> HIDE DEF D
      <4> QED
        BY <3>3, <3>4, <3>5
    <3> QED
      BY <3>6
  <2> QED
    BY <2>1
<1>9. \A k \in Nat : P[k + 1] = b * P[k]
  <2> TAKE k \in Nat
  <2>1. k + 1 \in Nat /\ k + 1 # 0 /\ (k + 1) - 1 = k
    OBVIOUS
  <2> QED
    BY <1>7, <2>1
<1> QED
  BY <1>7, <1>8, <1>9 DEF P

\* Powers grow.
LEMMA PowersGrow ==
  ASSUME NEW b \in Nat, b > 1, NEW j \in Nat, NEW k \in Nat, j < k
  PROVE  Power(b)[j] < Power(b)[k]
<1> DEFINE P == Power(b)
           D == {m \in Nat : m > j /\ ~(P[j] < P[m])}
<1>1. /\ \A m \in Nat : P[m] \in Nat \ {0} /\ P[m + 1] = b * P[m] 
  BY Powers
<1>2. \A m \in Nat : P[m] < P[m + 1]
  <2> TAKE m \in Nat
  <2>0. P[m] \in Nat /\ 2 <= b
    BY <1>1
  <2> HIDE DEF P
  <2>1. 2 * P[m] <= b * P[m]
    BY <2>0, Monotone
  <2> QED
    BY <1>1, <2>1
<1> HIDE DEF P
<1>3. ASSUME D # {}
      PROVE  FALSE
  <2>1. PICK m \in D : \A i \in D : m <= i
    <3>1. D \subseteq Nat
      OBVIOUS
    <3> HIDE DEF D
    <3> QED
      BY <1>3, <3>1, FirstOf
  <2>2. m - 1 \in Nat /\ ~(m <= m - 1) /\ (m - 1) + 1 = m /\ m - 1 >= j
    OBVIOUS
  <2>3. m - 1 = j \/ P[j] < P[m - 1]
    BY <2>1, <2>2
  <2>4. P[m - 1] < P[m] /\ P[m - 1] \in Nat /\ P[m] \in Nat /\ P[j] \in Nat
    BY <1>1, <1>2, <2>2
  <2> QED
    BY <2>3, <2>4
<1> QED
  BY <1>3 DEF P

\* What texts of numbers are made of.
Glyphs == {Digit[k] : k \in 1 .. 16} \cup {"-", " "}

LEMMA AppendStays ==
  ASSUME NEW S, NEW s \in Seq(S), NEW c \in S
  PROVE  Append(s, c) \in Seq(S)
OBVIOUS

\* The digits of u, for u = 0 none.
DigitsOf(base) ==
  LET d[u \in Nat] == IF u = 0 THEN <<>> ELSE Append(d[u \div base], Digit[(u % base) + 1])
  IN  d

LEMMA DigitsAre ==
  ASSUME NEW v, NEW base
  PROVE  Digits(v, base) = IF v = 0 THEN <<"0">> ELSE DigitsOf(base)[v]
BY DEF Digits, DigitsOf

LEMMA Smaller ==
  ASSUME NEW base \in {10, 16}, NEW u \in Nat \ {0}
  PROVE  /\ u \div base \in Nat /\ u \div base < u /\ u % base \in 0 .. base - 1
         /\ u = base * (u \div base) + (u % base)
OBVIOUS

LEMMA DigitsFacts ==
  ASSUME NEW base \in {10, 16}
  PROVE  /\ DigitsOf(base) \in [Nat -> Seq(Glyphs)] /\ DigitsOf(base)[0] = <<>>
         /\ \A u \in Nat \ {0} :
              DigitsOf(base)[u] = Append(DigitsOf(base)[u \div base], Digit[(u % base) + 1])
<1> DEFINE Eq(d) == d = [u \in Nat |-> IF u = 0 THEN <<>>
                                      ELSE Append(d[u \div base], Digit[(u % base) + 1])]
           h == [u \in Nat |-> u \div base]
           F == [x \in Nat \X Seq(Glyphs) |-> Append(x[2], Digit[(x[1] % base) + 1])]
<1>0. \A u \in Nat : Digit[(u % base) + 1] \in Glyphs
  <2> TAKE u \in Nat
  <2>1. (u % base) + 1 \in 1 .. 16
    <3>1. CASE base = 10
      BY <3>1
    <3>2. CASE base = 16
      BY <3>2
    <3> QED
      BY <3>1, <3>2
  <2> QED
    BY <2>1 DEF Glyphs
<1>1. h \in [Nat -> Nat] /\ (\A u \in Nat \ {0} : h[u] < u /\ h[u] = u \div base)
  OBVIOUS
<1>2. ASSUME NEW u \in Nat, NEW v \in Seq(Glyphs)
      PROVE  /\ F[<<u, v>>] = Append(v, Digit[(u % base) + 1])
             /\ Append(v, Digit[(u % base) + 1]) \in Seq(Glyphs)
  <2>1. <<u, v>> \in Nat \X Seq(Glyphs) /\ <<u, v>>[1] = u /\ <<u, v>>[2] = v
    OBVIOUS
  <2>2. F[<<u, v>>] = Append(<<u, v>>[2], Digit[(<<u, v>>[1] % base) + 1])
    BY <2>1
  <2>3. \A c \in Glyphs : Append(v, c) \in Seq(Glyphs)
    BY AppendStays
  <2> HIDE DEF F
  <2> QED
    BY <1>0, <2>1, <2>2, <2>3
<1> HIDE DEF h, F
<1>3. PICK g : Recurs(g, h, F, <<>>)
  BY <1>1, RecursionOnNat
<1>4. g \in [Nat -> Seq(Glyphs)]
  <2>1. <<>> \in Seq(Glyphs)
    OBVIOUS
  <2>2. \A u \in Nat, v \in Seq(Glyphs) : F[<<u, v>>] \in Seq(Glyphs)
    BY <1>2, Zenon
  <2> QED
    BY <1>1, <1>3, <2>1, <2>2, RecursionStays
<1>5. Eq(g)
  <2>1. \A u \in Nat : g[u] = IF u = 0 THEN <<>> ELSE F[<<u, g[h[u]]>>]
    BY <1>3 DEF Recurs
  <2>2. \A u \in Nat \ {0} : g[h[u]] = g[u \div base] /\ g[h[u]] \in Seq(Glyphs)
    BY <1>1, <1>4
  <2>3. \A u \in Nat : g[u] = IF u = 0 THEN <<>>
                             ELSE Append(g[u \div base], Digit[(u % base) + 1])
    BY <1>2, <2>1, <2>2
  <2> QED
    BY <1>4, <2>3
<1>6. Eq(DigitsOf(base))
  <2>1. DigitsOf(base) = CHOOSE d : Eq(d)
    BY DEF DigitsOf
  <2> HIDE DEF Eq
  <2> QED
    BY <1>5, <2>1
<1> DEFINE d == DigitsOf(base)
<1> HIDE DEF d
<1>7. /\ d = [u \in Nat |-> d[u]]
      /\ \A u \in Nat : d[u] = IF u = 0 THEN <<>>
                               ELSE Append(d[u \div base], Digit[(u % base) + 1])
  BY <1>6 DEF d
<1>8. \A u \in Nat : d[u] \in Seq(Glyphs)
  <2> DEFINE D == {u \in Nat : d[u] \notin Seq(Glyphs)}
  <2>1. ASSUME D # {}
        PROVE  FALSE
    <3>1. PICK m \in D : \A i \in D : m <= i
      <4>1. D \subseteq Nat
        OBVIOUS
      <4> HIDE DEF D
      <4> QED
        BY <2>1, <4>1, FirstOf
    <3>2. m # 0 => m \div base \in Nat /\ ~(m <= m \div base)
      OBVIOUS
    <3>3. m # 0 => d[m \div base] \in Seq(Glyphs)
      BY <3>1, <3>2
    <3>4. d[m] = <<>> \/ (m # 0 /\ d[m] = Append(d[m \div base], Digit[(m % base) + 1]))
      BY <1>7
    <3>5. \A t \in Seq(Glyphs), c \in Glyphs : Append(t, c) \in Seq(Glyphs)
      BY AppendStays
    <3>6. <<>> \in Seq(Glyphs)
      OBVIOUS
    <3> QED
      BY <1>0, <3>3, <3>4, <3>5, <3>6, Zenon
  <2> QED
    BY <2>1
<1> QED
  BY <1>7, <1>8 DEF d

\* As many digits as the number needs, each what it has to be.
Spells(s, n, base) ==
  /\ s \in Seq(Glyphs) /\ Len(s) > 0
  /\ Power(base)[Len(s) - 1] <= n /\ n < Power(base)[Len(s)]
  /\ \A k \in 1 .. Len(s) : s[k] = Digit[((n \div Power(base)[Len(s) - k]) % base) + 1]

LEMMA DigitsSpell ==
  ASSUME NEW base \in {10, 16}, NEW n \in Nat \ {0}
  PROVE  Spells(DigitsOf(base)[n], n, base)
<1> DEFINE d == DigitsOf(base)
           P == Power(base)
           D == {m \in Nat \ {0} : ~Spells(d[m], m, base)}
<1>0. /\ \A k \in Nat : P[k] \in Nat \ {0} /\ P[k + 1] = base * P[k]
      /\ P[0] = 1
  <2>1. base \in Nat \ {0}
    OBVIOUS
  <2>2. /\ P \in [Nat -> Nat \ {0}] /\ P[0] = 1
        /\ \A k \in Nat : P[k + 1] = base * P[k]
    BY <2>1, Powers
  <2> HIDE DEF P
  <2> QED
    BY <2>2
<1>1. /\ \A u \in Nat : d[u] \in Seq(Glyphs)
      /\ d[0] = <<>>
      /\ \A u \in Nat \ {0} : d[u] = Append(d[u \div base], Digit[(u % base) + 1])
  BY DigitsFacts
<1> HIDE DEF d, P
<1>2. ASSUME D # {}
      PROVE  FALSE
  <2>1. PICK m \in D : \A i \in D : m <= i
    <3>1. D \subseteq Nat
      OBVIOUS
    <3> HIDE DEF D
    <3> QED
      BY <1>2, <3>1, FirstOf
  <2>2. PICK q \in Nat : /\ q = m \div base /\ q < m /\ m % base \in 0 .. base - 1
                         /\ m = base * q + (m % base)
    BY Smaller
  <2>3. d[q] \in Seq(Glyphs) /\ d[m] = Append(d[q], Digit[(m % base) + 1]) /\ d[m] \in Seq(Glyphs)
    BY <1>1, <2>2
  <2>4. PICK L \in Nat : L = Len(d[q])
    BY <2>3
  <2>5. /\ Len(d[m]) = L + 1 /\ d[m][L + 1] = Digit[(m % base) + 1]
        /\ \A k \in 1 .. L : d[m][k] = d[q][k]
    BY <2>3, <2>4
  <2>6. /\ q # 0 => Spells(d[q], q, base)
        /\ q = 0 => L = 0
    <3>1. q \notin D
      BY <2>1, <2>2
    <3> QED
      BY <1>1, <2>4, <3>1
  <2>7. P[L] <= m /\ m < P[L + 1]
    <3>1. CASE q = 0
      BY <1>0, <2>2, <2>6, <3>1
    <3>2. CASE q # 0
      <4>1. L > 0 /\ P[L - 1] <= q /\ q < P[L]
        BY <2>4, <2>6, <3>2 DEF Spells, P
      <4>2. P[L] = base * P[L - 1] /\ P[L + 1] = base * P[L] /\ P[L] \in Nat /\ P[L - 1] \in Nat
        <5>1. L - 1 \in Nat /\ (L - 1) + 1 = L
          BY <4>1
        <5> QED
          BY <1>0, <5>1
      <4> QED
        BY <2>2, <4>1, <4>2
    <3> QED
      BY <3>1, <3>2
  <2>8. ASSUME NEW k \in 1 .. L + 1
        PROVE  d[m][k] = Digit[((m \div P[(L + 1) - k]) % base) + 1]
    <3>1. CASE k = L + 1
      <4>1. (L + 1) - k = 0 /\ m \div P[0] = m
        BY <1>0, <3>1
      <4> QED
        BY <2>5, <3>1, <4>1
    <3>2. CASE k # L + 1
      <4>1. k \in 1 .. L /\ q # 0
        BY <2>6, <3>2
      <4>2. PICK j \in Nat : j = L - k
        BY <4>1
      <4>3. d[m][k] = Digit[((q \div P[j]) % base) + 1]
        BY <2>4, <2>5, <2>6, <4>1, <4>2 DEF Spells, P
      <4>4. q \div P[j] = m \div P[j + 1]
        <5>1. P[j] \in Nat \ {0} /\ P[j + 1] = base * P[j] /\ base \in Nat \ {0}
          BY <1>0
        <5>2. (m \div base) \div P[j] = m \div (base * P[j])
          BY <5>1, DivDiv
        <5> QED
          BY <2>2, <5>1, <5>2
      <4>5. j + 1 = (L + 1) - k
        BY <4>1, <4>2
      <4> QED
        BY <4>3, <4>4, <4>5
    <3> QED
      BY <3>1, <3>2
  <2>9. Spells(d[m], m, base)
    <3>1. (L + 1) - 1 = L
      OBVIOUS
    <3> QED
      BY <2>3, <2>5, <2>7, <2>8, <3>1 DEF Spells, P
  <2> QED
    BY <2>9
<1> QED
  BY <1>2 DEF d

\* The length tells between which powers a number is.
LEMMA SpellsLength ==
  ASSUME NEW base \in {10, 16}, NEW n \in Nat, NEW s, Spells(s, n, base), NEW k \in Nat
  PROVE  n < Power(base)[k] <=> Len(s) <= k
<1>0. Len(s) \in Nat /\ Len(s) > 0
  BY DEF Spells
<1>1. \A j \in Nat : Power(base)[j] \in Nat
  BY Powers
<1>2. CASE Len(s) <= k
  <2>1. Len(s) = k \/ Power(base)[Len(s)] < Power(base)[k]
    BY <1>0, <1>2, PowersGrow
  <2> QED
    BY <1>0, <1>1, <1>2, <2>1 DEF Spells
<1>3. CASE ~(Len(s) <= k)
  <2>1. Len(s) - 1 \in Nat /\ k <= Len(s) - 1
    BY <1>0, <1>3
  <2>2. k = Len(s) - 1 \/ Power(base)[k] < Power(base)[Len(s) - 1]
    BY <2>1, PowersGrow
  <2> QED
    BY <1>1, <1>3, <2>1, <2>2 DEF Spells
<1> QED
  BY <1>2, <1>3

-----------------------------------------------------------------------------
(* The places of the arguments.                                            *)

Extra(c) == IF c.long THEN 1 ELSE 0

\* The first place from p on for c, with b arguments in front of the format.
Even(p, b, c) == IF c.long /\ (p + b) % 2 = 1 THEN p + 1 ELSE p

\* The place of argument k, from the place of the one before it.
Next(at, f, b, k) ==
  Even(IF k = 1 THEN 1 ELSE at[k - 1] + (IF f[k - 1].long THEN 2 ELSE 1), b, f[k])

IsFormat(f) == f \in Seq([kind : {"d", "u", "x", "s"}, long : BOOLEAN, width : Nat,
                          left : BOOLEAN, zero : BOOLEAN, arg : Longs])

\* The equation of Places has a solution on the first n arguments, for otherwise
\* there were a least n for which it has none.
LEMMA PlacesBegin ==
  ASSUME NEW f, IsFormat(f), NEW b \in {0, 1}, NEW n \in 0 .. Len(f)
  PROVE  \E at \in [1 .. n -> Nat] : \A k \in 1 .. n : at[k] = Next(at, f, b, k)
<1> DEFINE Solved(m) == \E at \in [1 .. m -> Nat] : \A k \in 1 .. m : at[k] = Next(at, f, b, k)
           D == {m \in 0 .. Len(f) : ~Solved(m)}
<1>0. Len(f) \in Nat
  BY DEF IsFormat
<1>1. Solved(0)
  <2> DEFINE none == [k \in 1 .. 0 |-> 0]
  <2>1. none \in [1 .. 0 -> Nat] /\ \A k \in 1 .. 0 : none[k] = Next(none, f, b, k)
    OBVIOUS
  <2> HIDE DEF none
  <2> QED
    BY <2>1
<1>2. ASSUME D # {}
      PROVE  FALSE
  <2>1. D \subseteq Nat
    BY <1>0
  <2>2. PICK m \in D : \A j \in D : m <= j
    <3> HIDE DEF D
    <3> QED
      BY <1>2, <2>1, FirstOf
  <2>3. m # 0
    BY <1>1
  <2>4. m - 1 \in 0 .. Len(f) /\ m \in 1 .. Len(f) /\ Solved(m - 1)
    <3>1. m - 1 \in 0 .. Len(f) /\ ~(m <= m - 1) /\ m \in 1 .. Len(f)
      BY <1>0, <2>3
    <3>2. m - 1 \notin D
      BY <2>2, <3>1
    <3> QED
      BY <3>1, <3>2
  <2>5. PICK at \in [1 .. m - 1 -> Nat] : \A k \in 1 .. m - 1 : at[k] = Next(at, f, b, k)
    BY <2>4
  <2>6. Next(at, f, b, m) \in Nat
    <3>1. m = 1 \/ m - 1 \in 1 .. m - 1
      BY <2>4
    <3> QED
      BY <2>5, <3>1 DEF Next, Even
  <2> DEFINE longer == [k \in 1 .. m |-> IF k = m THEN Next(at, f, b, m) ELSE at[k]]
  <2>7. ASSUME NEW k \in 1 .. m
        PROVE  longer[k] \in Nat /\ longer[k] = Next(longer, f, b, k)
    <3>1. k = 1 \/ (k - 1 \in 1 .. m /\ k - 1 # m)
      BY <2>4
    <3>2. k # m => k \in 1 .. m - 1
      BY <2>4
    <3>3. k # 1 => longer[k - 1] = at[k - 1]
      BY <3>1
    <3>4. Next(longer, f, b, k) = Next(at, f, b, k)
      BY <3>3 DEF Next
    <3> QED
      BY <2>5, <2>6, <3>2, <3>4
  <2>8. Solved(m)
    <3>1. longer \in [1 .. m -> Nat]
      BY <2>7
    <3> HIDE DEF longer
    <3> QED
      BY <2>7, <3>1
  <2> QED
    BY <2>8
<1>3. n \notin D
  BY <1>2
<1> QED
  BY <1>3

\* So the places are what their equation says.
LEMMA PlacesAre ==
  ASSUME NEW f, IsFormat(f), NEW b \in {0, 1}
  PROVE  /\ Places(f, b) \in [1 .. Len(f) -> Nat]
         /\ \A k \in 1 .. Len(f) : Places(f, b)[k] = Next(Places(f, b), f, b, k)
<1> DEFINE Placed(at) == at = [k \in DOMAIN f |-> Next(at, f, b, k)]
<1>0. DOMAIN f = 1 .. Len(f) /\ Len(f) \in 0 .. Len(f)
  BY DEF IsFormat
<1>1. PICK at \in [1 .. Len(f) -> Nat] : \A k \in 1 .. Len(f) : at[k] = Next(at, f, b, k)
  BY <1>0, PlacesBegin
<1>2. Placed(at)
  <2>1. at = [k \in 1 .. Len(f) |-> at[k]]
    OBVIOUS
  <2> QED
    BY <1>0, <1>1, <2>1
<1>3. Places(f, b) = CHOOSE a : Placed(a)
  BY DEF Places, Next, Even
<1>4. Placed(Places(f, b))
  <2> HIDE DEF Placed
  <2> QED
    BY <1>2, <1>3
<1>5. \A k \in 1 .. Len(f) : Places(f, b)[k] = Next(Places(f, b), f, b, k)
  BY <1>0, <1>4
<1>6. \A k \in 1 .. Len(f) : Places(f, b)[k] \in Nat
  <2> DEFINE D == {k \in 1 .. Len(f) : Places(f, b)[k] \notin Nat}
  <2>1. ASSUME D # {}
        PROVE  FALSE
    <3>1. D \subseteq Nat
      OBVIOUS
    <3>2. PICK k \in D : \A j \in D : k <= j
      <4> HIDE DEF D
      <4> QED
        BY <2>1, <3>1, FirstOf
    <3>3. k = 1 \/ (k - 1 \in 1 .. Len(f) /\ ~(k <= k - 1))
      OBVIOUS
    <3>4. k = 1 \/ Places(f, b)[k - 1] \in Nat
      BY <3>2, <3>3
    <3>5. Next(Places(f, b), f, b, k) \in Nat
      BY <3>4 DEF Next, Even
    <3> QED
      BY <1>5, <3>5
  <2> QED
    BY <2>1
<1> QED
  BY <1>0, <1>4, <1>5, <1>6

-----------------------------------------------------------------------------
(* Where print() reads.                                                    *)

\* Each argument is read behind the one before, a long one word further on.
Reads(f, r) ==
  \A k \in 1 .. Len(r) : r[k] = (IF k = 1 THEN 1 ELSE r[k - 1] + 1) + Extra(f[k])

ReadInv ==
  /\ IsFormat(format) /\ before \in {0, 1}
  /\ \A k \in 1 .. Len(format) : /\ format[k].kind = "s" => ~format[k].long
                                 /\ ~format[k].long => format[k].arg \in Words
  /\ read \in Seq(Nat) /\ Len(read) <= Len(format)
  /\ Reads(format, read)
  /\ varg = IF Len(read) = 0 THEN 1 ELSE read[Len(read)] + 1

LEMMA ReadInvInit == PrintInit => ReadInv
<1> SUFFICES ASSUME PrintInit
             PROVE  ReadInv
  OBVIOUS
<1>1. format \in Formats /\ before \in {0, 1} /\ read = <<>> /\ varg = 1
  BY DEF PrintInit
<1>2. IsFormat(format)
  BY <1>1, PrintfAssumption DEF PrintfAssumption, IsFormat
<1>3. Len(format) \in Nat /\ DOMAIN format = 1 .. Len(format)
  BY <1>2 DEF IsFormat
<1>4. \A k \in 1 .. Len(format) : /\ format[k].kind = "s" => ~format[k].long
                                  /\ ~format[k].long => format[k].arg \in Words
  BY <1>1, <1>3, PrintfAssumption DEF PrintfAssumption
<1> QED
  BY <1>1, <1>2, <1>3, <1>4 DEF ReadInv, Reads

\* A conversion reads at varg or, a long, at the word behind it.
LEMMA ConversionReads ==
  ASSUME ReadInv, print
  PROVE  \E p \in Nat : /\ p = varg + Extra(Conversion)
                        /\ read' = Append(read, p) /\ varg' = p + 1
                        /\ Len(read) < Len(format) /\ format' = format /\ before' = before
<1>0. Len(read) \in Nat /\ Len(read) < Len(format) /\ Len(format) \in Nat
  BY DEF ReadInv, print, IsFormat
<1>1. varg \in Nat
  <2>1. Len(read) = 0 \/ Len(read) \in 1 .. Len(read)
    BY <1>0
  <2> QED
    BY <2>1 DEF ReadInv
<1>2. Conversion.kind = "s" => ~Conversion.long
  <2>1. Len(read) + 1 \in 1 .. Len(format)
    BY <1>0
  <2> QED
    BY <2>1 DEF ReadInv, Conversion
<1>3. CASE PrintString
  BY <1>0, <1>1, <1>2, <1>3 DEF PrintString, Extra, print
<1>4. CASE PrintInt
  BY <1>0, <1>1, <1>4 DEF PrintInt, Extra, print
<1>5. CASE PrintLong
  BY <1>0, <1>1, <1>5 DEF PrintLong, LongAt, AfterLong, Extra, print
<1> QED
  BY <1>3, <1>4, <1>5 DEF print

LEMMA ReadInvKept == ReadInv /\ [print]_vars => ReadInv'
<1> SUFFICES ASSUME ReadInv, [print]_vars
             PROVE  ReadInv'
  OBVIOUS
<1>1. CASE UNCHANGED vars
  BY <1>1 DEF vars, ReadInv, Reads, Extra
<1>2. CASE print
  <2>1. PICK p \in Nat : /\ p = varg + Extra(Conversion)
                        /\ read' = Append(read, p) /\ varg' = p + 1
                        /\ Len(read) < Len(format) /\ format' = format /\ before' = before
    BY <1>2, ConversionReads
  <2> DEFINE n == Len(read)
  <2>2. /\ n \in Nat /\ Len(read') = n + 1 /\ read' \in Seq(Nat) /\ read'[n + 1] = p
        /\ \A k \in 1 .. n : read'[k] = read[k]
    BY <2>1 DEF ReadInv
  <2>3. n + 1 <= Len(format)
    BY <2>1, <2>2 DEF ReadInv, IsFormat
  <2>4. Reads(format, read')
    <3> SUFFICES ASSUME NEW k \in 1 .. n + 1
                 PROVE  read'[k] = (IF k = 1 THEN 1 ELSE read'[k - 1] + 1) + Extra(format[k])
      BY <2>2 DEF Reads
    <3>1. CASE k = n + 1
      <4>1. k # 1 => read'[k - 1] = read[n]
        BY <2>2, <3>1
      <4>2. p = (IF k = 1 THEN 1 ELSE read[n] + 1) + Extra(format[k])
        BY <2>1, <2>2, <3>1 DEF ReadInv, Conversion
      <4> QED
        BY <2>2, <3>1, <4>1, <4>2
    <3>2. CASE k # n + 1
      <4>1. k \in 1 .. n /\ (k # 1 => k - 1 \in 1 .. n)
        BY <2>2, <3>2
      <4> QED
        BY <2>2, <4>1 DEF ReadInv, Reads
    <3> QED
      BY <3>1, <3>2
  <2> QED
    BY <2>1, <2>2, <2>3, <2>4 DEF ReadInv, Reads
<1> QED
  BY <1>1, <1>2

-----------------------------------------------------------------------------
(* Regular formats.                                                        *)

\* With n words and then longs, both the caller and print() count so.
Counted(k, n) == IF k <= n THEN k ELSE 2 * k - n

\* The first n arguments are words and the others longs, and they are there.
Counts(f, b, r, n) ==
  /\ n \in 0 .. Len(f) /\ (n = Len(f) \/ (n + b) % 2 = 0)
  /\ \A k \in 1 .. Len(f) : (f[k].long <=> k > n) /\ Places(f, b)[k] = Counted(k, n)
  /\ \A k \in 1 .. Len(r) : r[k] = Counted(k, n)

LEMMA RegularCounts ==
  ASSUME NEW f, IsFormat(f), NEW b \in {0, 1}, Regular(f, b),
         NEW r, Len(r) \in Nat, Len(r) <= Len(f), Reads(f, r)
  PROVE  \E n : Counts(f, b, r, n)
<1> DEFINE p == Places(f, b)
<1>0. Len(f) \in Nat /\ DOMAIN f = 1 .. Len(f)
  BY DEF IsFormat
<1>1. PICK n \in 0 .. Len(f) : /\ \A k \in 1 .. Len(f) : f[k].long <=> k > n
                               /\ n = Len(f) \/ (n + b) % 2 = 0
  BY <1>0 DEF Regular
<1>2. \A k \in 1 .. Len(f) : p[k] = Next(p, f, b, k)
  BY PlacesAre
<1> HIDE DEF p
<1> DEFINE D == {k \in 1 .. Len(f) :
                  ~(p[k] = Counted(k, n) /\ (k <= Len(r) => r[k] = Counted(k, n)))}
<1>3. ASSUME D # {}
      PROVE  FALSE
  <2>1. D \subseteq Nat
    OBVIOUS
  <2>2. PICK k \in D : \A j \in D : k <= j
    <3> HIDE DEF D
    <3> QED
      BY <1>3, <2>1, FirstOf
  <2>3. k \in 1 .. Len(f) /\ k \in Nat /\ n \in Nat /\ (k > n => (n + b) % 2 = 0)
    <3>1. k \in 1 .. Len(f)
      OBVIOUS
    <3> HIDE DEF D
    <3>2. n = Len(f) \/ (n + b) % 2 = 0
      BY <1>1
    <3>3. k \in Nat /\ n \in Nat /\ k <= Len(f)
      BY <1>0, <3>1
    <3>4. k > n => n # Len(f)
      BY <3>3
    <3> QED
      BY <3>1, <3>2, <3>3, <3>4
  <2>4. CASE k = 1
    <3>1. p[k] = Even(1, b, f[k]) /\ (k <= Len(r) => r[k] = 1 + Extra(f[k]))
      <4>1. k <= Len(r) => k \in 1 .. Len(r)
        BY <2>3
      <4>2. p[k] = Next(p, f, b, k)
        BY <1>2, <2>3
      <4>3. Next(p, f, b, k) = Even(1, b, f[k])
        BY <2>4 DEF Next
      <4>4. k <= Len(r) => r[k] = 1 + Extra(f[k])
        BY <2>4, <4>1 DEF Reads
      <4> QED
        BY <4>2, <4>3, <4>4
    <3>2. f[k].long <=> n = 0
      BY <1>1, <2>3, <2>4
    <3>3. p[k] = Counted(k, n) /\ (k <= Len(r) => r[k] = Counted(k, n))
      BY <2>3, <2>4, <3>1, <3>2 DEF Even, Extra, Counted
    <3> QED
      BY <3>3
  <2>5. CASE k # 1
    <3>1. k - 1 \in 1 .. Len(f) /\ ~(k <= k - 1)
      BY <1>0, <2>3, <2>5
    <3>2. p[k - 1] = Counted(k - 1, n) /\ (k <= Len(r) => r[k - 1] = Counted(k - 1, n))
      <4>1. k <= Len(r) => k - 1 <= Len(r)
        BY <2>3
      <4>2. k - 1 \notin D
        BY <2>2, <3>1
      <4> QED
        BY <3>1, <4>1, <4>2
    <3>3. /\ p[k] = Even(p[k - 1] + (IF f[k - 1].long THEN 2 ELSE 1), b, f[k])
          /\ k <= Len(r) => r[k] = r[k - 1] + 1 + Extra(f[k])
      <4>1. k <= Len(r) => k \in 1 .. Len(r)
        BY <2>3
      <4> QED
        BY <1>2, <2>3, <2>5, <4>1 DEF Next, Reads
    <3>4. (f[k].long <=> k > n) /\ (f[k - 1].long <=> k - 1 > n)
      BY <1>1, <2>3, <3>1
    <3>5. ASSUME k <= n
          PROVE  p[k] = Counted(k, n) /\ (k <= Len(r) => r[k] = Counted(k, n))
      BY <2>3, <3>2, <3>3, <3>4, <3>5 DEF Even, Extra, Counted
    <3>6. ASSUME k = n + 1
          PROVE  p[k] = Counted(k, n) /\ (k <= Len(r) => r[k] = Counted(k, n))
      <4>1. p[k - 1] = n /\ (k <= Len(r) => r[k - 1] = n) /\ Counted(k, n) = n + 2
        BY <2>3, <3>2, <3>6 DEF Counted
      <4>2. (n + 1 + b) % 2 = 1
        BY <2>3, <3>6
      <4>3. p[k] = n + 2
        BY <3>3, <3>4, <3>6, <4>1, <4>2 DEF Even
      <4> QED
        BY <3>3, <3>4, <3>6, <4>1, <4>3 DEF Extra
    <3>7. ASSUME k > n + 1
          PROVE  p[k] = Counted(k, n) /\ (k <= Len(r) => r[k] = Counted(k, n))
      <4>1. p[k - 1] = 2 * k - 2 - n /\ (k <= Len(r) => r[k - 1] = 2 * k - 2 - n) 
            /\ (2 * k - 2 - n + b) % 2 = 0
        BY <2>3, <3>2, <3>7 DEF Counted
      <4> QED
        BY <2>3, <3>3, <3>4, <3>7, <4>1 DEF Even, Extra, Counted
    <3>8. p[k] = Counted(k, n) /\ (k <= Len(r) => r[k] = Counted(k, n))
      <4> HIDE DEF D
      <4> QED
        BY <2>3, <3>5, <3>6, <3>7
    <3> QED
      BY <3>8
  <2> QED
    BY <2>4, <2>5
<1>4. \A k \in 1 .. Len(f) :
        p[k] = Counted(k, n) /\ (k <= Len(r) => r[k] = Counted(k, n))
  BY <1>3
<1>5. \A k \in 1 .. Len(r) : k \in 1 .. Len(f) /\ k <= Len(r)
  BY <1>0
<1> HIDE DEF D
<1> QED
  BY <1>0, <1>1, <1>4, <1>5 DEF p, Counts

LEMMA MembersOf ==
  ASSUME NEW C, NEW s \in Seq(C)
  PROVE  Len(s) \in Nat /\ DOMAIN s = 1 .. Len(s) /\ \A k \in 1 .. Len(s) : s[k] \in C
OBVIOUS

LEMMA ReadRegular ==
  ASSUME NEW f, IsFormat(f), NEW b \in {0, 1}, NEW r, Len(r) = Len(f), Reads(f, r),
         \A k \in 1 .. Len(f) : r[k] = Places(f, b)[k]
  PROVE  Regular(f, b)
<1> DEFINE p == Places(f, b)
<1>0. Len(f) \in Nat /\ DOMAIN f = 1 .. Len(f) /\ \A k \in 1 .. Len(f) : f[k].long \in BOOLEAN
  <2>1. PICK C : /\ C = [kind : {"d", "u", "x", "s"}, long : BOOLEAN, width : Nat,
                         left : BOOLEAN, zero : BOOLEAN, arg : Longs]
                 /\ f \in Seq(C)
    BY DEF IsFormat
  <2>2. Len(f) \in Nat /\ DOMAIN f = 1 .. Len(f) /\ \A k \in 1 .. Len(f) : f[k] \in C
    BY <2>1, MembersOf
  <2>3. \A c \in C : c.long \in BOOLEAN
    BY <2>1
  <2> QED
    BY <2>2, <2>3
<1>1. /\ \A k \in 1 .. Len(f) : p[k] \in Nat /\ p[k] = Next(p, f, b, k)
      /\ \A k \in 1 .. Len(f) : p[k] = (IF k = 1 THEN 1 ELSE p[k - 1] + 1) + Extra(f[k])
  <2>1. \A k \in 1 .. Len(f) : k = 1 \/ k - 1 \in 1 .. Len(f)
    BY <1>0
  <2> QED
    BY <2>1, PlacesAre DEF Reads
<1> HIDE DEF p
\* Behind a long there is a long.
<1>2. ASSUME NEW k \in 2 .. Len(f), f[k - 1].long
      PROVE  f[k].long
  <2>1. k - 1 \in 1 .. Len(f) /\ k \in 1 .. Len(f) /\ k # 1
    BY <1>0
  <2>2. p[k] = Even(p[k - 1] + 2, b, f[k]) /\ p[k] = p[k - 1] + 1 + Extra(f[k]) /\ p[k - 1] \in Nat
    BY <1>1, <1>2, <2>1 DEF Next
  <2> QED
    BY <2>2 DEF Even, Extra
<1> DEFINE T == {k \in 1 .. Len(f) : f[k].long}
<1>3. CASE T = {}
  <2>1. Len(f) \in 0 .. Len(f) /\ \A k \in 1 .. Len(f) : f[k].long <=> k > Len(f)
    BY <1>0, <1>3
  <2> QED
    BY <1>0, <2>1 DEF Regular
<1>4. CASE T # {}
  <2>1. T \subseteq Nat
    OBVIOUS
  <2>2. PICK m \in T : \A j \in T : m <= j
    <3> HIDE DEF T
    <3> QED
      BY <1>4, <2>1, FirstOf
  <2>3. m \in 1 .. Len(f) /\ f[m].long /\ \A k \in 1 .. Len(f) : k < m => ~f[k].long
    BY <1>0, <2>2
  \* All behind the first long are longs.
  <2>4. \A k \in 1 .. Len(f) : k >= m => f[k].long
    <3> DEFINE D == {k \in 1 .. Len(f) : k >= m /\ ~f[k].long}
    <3>1. ASSUME D # {}
          PROVE  FALSE
      <4>1. D \subseteq Nat
        OBVIOUS
      <4>2. PICK k \in D : \A j \in D : k <= j
        <5> HIDE DEF D
        <5> QED
          BY <3>1, <4>1, FirstOf
      <4>3. k # m /\ k \in 2 .. Len(f) /\ k - 1 \in 1 .. Len(f) /\ k - 1 >= m /\ ~(k <= k - 1)
        BY <1>0, <2>3
      <4>4. f[k - 1].long
        BY <4>2, <4>3
      <4> QED
        BY <1>2, <4>3, <4>4
    <3> QED
      BY <3>1
  \* The words before it are in their order.
  <2>5. \A k \in 1 .. Len(f) : k < m => p[k] = k
    <3> DEFINE D == {k \in 1 .. Len(f) : k < m /\ p[k] # k}
    <3>1. ASSUME D # {}
          PROVE  FALSE
      <4>1. D \subseteq Nat
        OBVIOUS
      <4>2. PICK k \in D : \A j \in D : k <= j
        <5> HIDE DEF D
        <5> QED
          BY <3>1, <4>1, FirstOf
      <4>3. k = 1 \/ (k - 1 \in 1 .. Len(f) /\ k - 1 < m /\ ~(k <= k - 1))
        BY <1>0, <2>3
      <4>4. k = 1 \/ p[k - 1] = k - 1
        BY <4>2, <4>3
      <4>5. ~f[k].long
        BY <2>3
      <4>6. p[k] = k
        BY <1>1, <4>4, <4>5 DEF Extra
      <4> QED
        BY <4>6
    <3> QED
      BY <3>1
  <2>6. (m - 1 + b) % 2 = 0
    <3>1. CASE m = 1
      <4>1. p[1] = Even(1, b, f[1]) /\ p[1] = 2
        BY <1>1, <2>3, <3>1 DEF Next, Extra
      <4> QED
        BY <2>3, <3>1, <4>1 DEF Even
    <3>2. CASE m # 1
      <4>1. m - 1 \in 1 .. Len(f) /\ m - 1 < m
        BY <1>0, <2>3, <3>2
      <4>2. p[m - 1] = m - 1 /\ ~f[m - 1].long
        BY <2>3, <2>5, <4>1
      <4>3. p[m] = Even(m, b, f[m]) /\ p[m] = m + 1
        BY <1>1, <2>3, <3>2, <4>1, <4>2 DEF Next, Extra
      <4> QED
        BY <2>3, <4>1, <4>3 DEF Even
    <3> QED
      BY <3>1, <3>2
  <2>7. m - 1 \in 0 .. Len(f) /\ \A k \in 1 .. Len(f) : f[k].long <=> k > m - 1
    <3>1. \A k \in 1 .. Len(f) : k >= m <=> k > m - 1
      BY <2>3
    <3> QED
      BY <1>0, <2>3, <2>4, <3>1
  <2> QED
    BY <1>0, <2>6, <2>7 DEF Regular
<1> QED
  BY <1>3, <1>4

\* print() reads every argument where the caller has put it exactly if the longs
\* come last and behind an even number of words, those in front of the format
\* included (varg + 1 and varg += 2 in bwio.c), for formats of any length, in
\* bwprintf and in the functions that have an argument before the format.
THEOREM ArgumentsFound == PrintSpec => []ArgumentsRead
<1>1. ReadInv => ArgumentsRead
  <2> SUFFICES ASSUME ReadInv, Len(read) = Len(format)
               PROVE  (\A k \in DOMAIN format : read[k] = Places(format, before)[k]) <=> Regular(format, before)
    BY DEF ArgumentsRead
  <2>1. /\ IsFormat(format) /\ before \in {0, 1} /\ Reads(format, read)
        /\ DOMAIN format = 1 .. Len(format)
    BY DEF ReadInv, IsFormat
  <2> QED
    <3>1. ASSUME Regular(format, before)
          PROVE  \A k \in DOMAIN format : read[k] = Places(format, before)[k]
      <4>1. Len(read) \in Nat /\ Len(read) <= Len(format)
        BY DEF ReadInv
      <4> QED
        BY <2>1, <3>1, <4>1, RegularCounts DEF Counts
    <3> QED
      BY <2>1, <3>1, ReadRegular
<1> QED
  BY <1>1, ReadInvInit, ReadInvKept, PTL DEF PrintSpec

-----------------------------------------------------------------------------
(* The values that are read.                                               *)

Modulus == Power(2)[Bits]

LEMMA ModulusFacts == Modulus \in Nat \ {0} /\ Words = 0 .. Modulus - 1
<1>1. Power(2) \in [Nat -> Nat \ {0}]
  BY Powers
<1>2. Bits \in Nat
  BY PrintfAssumption DEF PrintfAssumption
<1> QED
  BY <1>1, <1>2 DEF Modulus, Words

\* Arguments are counted apart.
LEMMA CountedApart ==
  ASSUME NEW n \in Nat, NEW i \in Nat \ {0}, NEW k \in Nat \ {0}
  PROVE  /\ Counted(i, n) \in Nat \ {0} /\ Counted(k, n) <= 2 * k
         /\ Counted(i, n) = Counted(k, n) => i = k
         /\ k > n => Counted(i, n) # Counted(k, n) + 1
BY DEF Counted

\* What the caller has put there for argument k of a regular format.
LEMMA StackHas ==
  ASSUME NEW f, IsFormat(f), NEW b \in {0, 1}, NEW r, NEW n, Counts(f, b, r, n),
         NEW j, NEW k \in 1 .. Len(f)
  PROVE  /\ Stack(f, b, j)[Counted(k, n)] = f[k].arg % Modulus
         /\ f[k].long => Stack(f, b, j)[Counted(k, n) + 1] = f[k].arg \div Modulus
<1> DEFINE p == Counted(k, n)
           At(q) == \E i \in DOMAIN f : Places(f, b)[i] = q
           Before(q) == \E i \in DOMAIN f : f[i].long /\ Places(f, b)[i] + 1 = q
<1>0. /\ Len(f) \in Nat /\ DOMAIN f = 1 .. Len(f) /\ n \in Nat
      /\ \A i \in 1 .. Len(f) : i \in Nat \ {0} /\ (f[i].long <=> i > n)
                                /\ Places(f, b)[i] = Counted(i, n)
  BY DEF IsFormat, Counts
<1>1. p \in 1 .. 3 * Len(f) + 2 /\ p + 1 \in 1 .. 3 * Len(f) + 2
  <2>1. p \in Nat \ {0} /\ p <= 2 * k
    BY <1>0, CountedApart
  <2> HIDE DEF p
  <2> QED
    BY <1>0, <2>1
<1> DEFINE Has(q) ==
             IF At(q) THEN f[CHOOSE i \in DOMAIN f : Places(f, b)[i] = q].arg % Modulus
             ELSE IF Before(q)
                  THEN f[CHOOSE i \in DOMAIN f : Places(f, b)[i] + 1 = q].arg \div Modulus
             ELSE j
<1>6. Stack(f, b, j)[p] = Has(p) /\ Stack(f, b, j)[p + 1] = Has(p + 1)
  <2>1. Stack(f, b, j) = [q \in 1 .. 3 * Len(f) + 2 |-> Has(q)]
    BY DEF Stack, Modulus
  <2> HIDE DEF Has
  <2> QED
    BY <1>1, <2>1
<1>2. \A i \in DOMAIN f : Places(f, b)[i] = p => i = k
  BY <1>0, CountedApart
<1>3. At(p) /\ (CHOOSE i \in DOMAIN f : Places(f, b)[i] = p) = k
  <2>1. k \in DOMAIN f /\ Places(f, b)[k] = p
    BY <1>0
  <2> HIDE DEF p
  <2> QED
    BY <1>2, <2>1
<1>4. Stack(f, b, j)[p] = f[k].arg % Modulus
  <2> HIDE DEF p
  <2> QED
    BY <1>3, <1>6
<1>5. ASSUME f[k].long
      PROVE  Stack(f, b, j)[p + 1] = f[k].arg \div Modulus
  <2>1. k > n
    BY <1>0, <1>5
  <2>2. \A i \in DOMAIN f : Places(f, b)[i] # p + 1
    <3> TAKE i \in DOMAIN f
    <3>1. Places(f, b)[i] = Counted(i, n) /\ i \in Nat \ {0} /\ k \in Nat \ {0}
      BY <1>0
    <3> QED
      BY <1>0, <2>1, <3>1, CountedApart
  <2>3. /\ \E i \in DOMAIN f : f[i].long /\ Places(f, b)[i] + 1 = p + 1
        /\ (CHOOSE i \in DOMAIN f : Places(f, b)[i] + 1 = p + 1) = k
    <3>1. k \in DOMAIN f /\ Places(f, b)[k] + 1 = p + 1
      BY <1>0
    <3>2. \A i \in DOMAIN f : Places(f, b)[i] + 1 = p + 1 => i = k
      <4> SUFFICES ASSUME NEW i \in DOMAIN f, Places(f, b)[i] + 1 = p + 1
                   PROVE  i = k
        OBVIOUS
      <4>1. Places(f, b)[i] \in Nat /\ p \in Nat
        <5>1. Places(f, b)[i] = Counted(i, n) /\ i \in Nat \ {0} /\ k \in Nat \ {0}
          BY <1>0
        <5> QED
          BY <1>0, <5>1, CountedApart
      <4>2. Places(f, b)[i] = p
        <5> HIDE DEF p
        <5> QED
          BY <4>1
      <4> QED
        BY <1>2, <4>2
    <3> HIDE DEF p
    <3> QED
      BY <1>5, <3>1, <3>2
  <2> HIDE DEF p
  <2>4. Stack(f, b, j)[p + 1] = f[CHOOSE i \in DOMAIN f : Places(f, b)[i] + 1 = p + 1].arg \div Modulus
    BY <1>6, <2>2, <2>3
  <2> QED
    BY <2>3, <2>4
<1> QED
  BY <1>4, <1>5

\* The value that print() read for its conversion k.
Value(f, r, s, k) ==
  IF f[k].long THEN s[r[k]] + Modulus * s[r[k] + 1] ELSE s[r[k]]

\* In a regular format it is the argument.
LEMMA ValueRead ==
  ASSUME ReadInv, Regular(format, before), NEW j, stack = Stack(format, before, j),
         NEW k \in 1 .. Len(read)
  PROVE  Value(format, read, stack, k) = format[k].arg
<1>1. PICK n : Counts(format, before, read, n)
  <2>1. Len(read) \in Nat /\ Len(read) <= Len(format)
    BY DEF ReadInv
  <2> QED
    BY <2>1, RegularCounts DEF ReadInv
<1>2. k \in 1 .. Len(format) /\ read[k] = Counted(k, n)
  BY <1>1 DEF ReadInv, Counts, IsFormat
<1>3. /\ stack[read[k]] = format[k].arg % Modulus
      /\ format[k].long => stack[read[k] + 1] = format[k].arg \div Modulus
  BY <1>1, <1>2, StackHas DEF ReadInv
<1>4. format[k].arg \in Nat
  <2>1. PICK C : /\ C = [kind : {"d", "u", "x", "s"}, long : BOOLEAN, width : Nat,
                         left : BOOLEAN, zero : BOOLEAN, arg : Longs]
                 /\ format \in Seq(C)
    BY DEF ReadInv, IsFormat
  <2>2. format[k] \in C
    BY <1>2, <2>1, MembersOf
  <2> QED
    BY <2>1, <2>2 DEF Longs
<1>5. ASSUME ~format[k].long
      PROVE  format[k].arg \in Words
  BY <1>2, <1>5 DEF ReadInv
<1>6. CASE ~format[k].long
  <2>1. format[k].arg % Modulus = format[k].arg
    <3>1. PICK a \in Words : a = format[k].arg
      BY <1>5, <1>6
    <3>2. a \in Nat /\ a < Modulus /\ a = Modulus * 0 + a
      BY <3>1, ModulusFacts
    <3>3. a % Modulus = a
      BY <3>2, ModulusFacts, DivUnique
    <3> QED
      BY <3>1, <3>3
  <2> QED
    BY <1>3, <1>6, <2>1 DEF Value
<1>7. CASE format[k].long
  <2>1. PICK a \in Nat : a = format[k].arg
    BY <1>4
  <2>2. a = Modulus * (a \div Modulus) + (a % Modulus) /\ a \div Modulus \in Nat
        /\ a % Modulus \in Nat
    <3>1. PICK m \in Nat \ {0} : m = Modulus
      BY ModulusFacts
    <3>2. a \div m \in Nat /\ a % m \in 0 .. m - 1
      BY DivMod
    <3>3. a = m * (a \div m) + (a % m)
      BY DivMod
    <3> QED
      BY <3>1, <3>2, <3>3
  <2>3. Value(format, read, stack, k) = (a % Modulus) + Modulus * (a \div Modulus)
    BY <1>3, <1>7, <2>1 DEF Value
  <2>4. Modulus * (a \div Modulus) \in Nat
    BY <2>2, ModulusFacts
  <2> QED
    BY <2>1, <2>2, <2>3, <2>4
<1> QED
  BY <1>6, <1>7

-----------------------------------------------------------------------------
(* What has been put out.                                                  *)

\* Conversion c of the value v, or what is left of it in too short an array.
Shown(t, c, v) ==
  IF c.kind = "s"
  THEN t = prints(IF v = 0 THEN NullText ELSE <<"t">>, c.width, c)
  ELSE t = printi(v, c) \/ (c.long /\ Lowest(v, c) < 0)

TextInv ==
  /\ ReadInv
  /\ \E j \in Junk : stack = Stack(format, before, j)
  /\ text \in Seq({text[k] : k \in 1 .. Len(text)}) /\ Len(text) = Len(read)
  /\ \A k \in 1 .. Len(read) : Shown(text[k], format[k], Value(format, read, stack, k))
  /\ Len(read) > 0 /\ format[Len(read)].kind # "s" =>
       low = Lowest(Value(format, read, stack, Len(read)), format[Len(read)])

\* What has been put out is that of conversions of the format.
LEMMA PlacesInside ==
  ASSUME TextInv
  PROVE  /\ ReadInv /\ Len(read) \in Nat /\ Len(format) \in Nat /\ Len(read) <= Len(format)
         /\ DOMAIN text = 1 .. Len(read)
<1>1. ReadInv /\ Len(text) = Len(read) /\ text \in Seq({text[k] : k \in 1 .. Len(text)})
  BY DEF TextInv
<1>2. DOMAIN text = 1 .. Len(text)
  BY <1>1
<1>3. IsFormat(format) /\ read \in Seq(Nat) /\ Len(read) <= Len(format)
  BY <1>1 DEF ReadInv
<1>4. Len(format) \in Nat
  BY <1>3 DEF IsFormat
<1>5. Len(read) \in Nat
  BY <1>3
<1> QED
  BY <1>1, <1>2, <1>3, <1>4, <1>5

LEMMA TextInvInit == PrintInit => TextInv
<1> SUFFICES ASSUME PrintInit
             PROVE  TextInv
  OBVIOUS
<1>1. read = <<>> /\ text = <<>> /\ \E j \in Junk : stack = Stack(format, before, j)
  BY DEF PrintInit
<1>2. ReadInv
  BY ReadInvInit
<1> QED
  BY <1>1, <1>2 DEF TextInv

LEMMA AppendTo ==
  ASSUME NEW S, NEW s \in Seq(S), NEW x
  PROVE  /\ Len(s) \in Nat /\ Len(Append(s, x)) = Len(s) + 1
         /\ Append(s, x)[Len(s) + 1] = x
         /\ \A k \in 1 .. Len(s) : Append(s, x)[k] = s[k]
         /\ Append(s, x) \in Seq({Append(s, x)[k] : k \in 1 .. Len(Append(s, x))})
<1>1. s \in Seq(S \cup {x}) /\ x \in S \cup {x}
  OBVIOUS
<1>2. Append(s, x) \in Seq(S \cup {x})
  BY <1>1, AppendStays
<1>3. /\ Len(s) \in Nat /\ Len(Append(s, x)) = Len(s) + 1
      /\ Append(s, x)[Len(s) + 1] = x
      /\ \A k \in 1 .. Len(s) : Append(s, x)[k] = s[k]
  BY <1>1
<1>4. PICK t : t = Append(s, x)
  OBVIOUS
<1>5. t \in Seq({t[k] : k \in 1 .. Len(t)})
  BY <1>2, <1>4
<1> QED
  BY <1>3, <1>4, <1>5

LEMMA TextInvKept == TextInv /\ [print]_vars => TextInv'
<1> SUFFICES ASSUME TextInv, [print]_vars
             PROVE  TextInv'
  OBVIOUS
<1>0. ReadInv /\ ReadInv'
  BY ReadInvKept DEF TextInv
<1>1. CASE UNCHANGED vars
  BY <1>0, <1>1 DEF vars, TextInv
<1>2. CASE print
  <2>1. PICK p \in Nat : /\ p = varg + Extra(Conversion)
                        /\ read' = Append(read, p) /\ varg' = p + 1
                        /\ Len(read) < Len(format) /\ format' = format /\ before' = before
    BY <1>0, <1>2, ConversionReads
  <2>2. stack' = stack
    BY <1>2 DEF print
  <2> DEFINE n == Len(read) + 1
             v == Value(format', read', stack', n)
  <2>3. /\ Len(read) \in Nat /\ Len(read') = n /\ read'[n] = p
        /\ \A k \in 1 .. n : k = n \/ (k \in 1 .. Len(read) /\ read'[k] = read[k])
    BY <1>0, <2>1 DEF ReadInv
  <2>4. PICK t : text' = Append(text, t) /\ Shown(t, format[n], v)
                 /\ (format[n].kind # "s" => low' = Lowest(v, format[n]))
    <3>0. format[n] = Conversion
      BY DEF Conversion
    <3>1. v = IF Conversion.long THEN stack[p] + Modulus * stack[p + 1] ELSE stack[p]
      BY <2>1, <2>2, <2>3, <3>0 DEF Value
    <3>2. p = IF Conversion.long THEN LongAt ELSE varg
      <4>1. varg \in Nat
        <5>1. Len(read) = 0 \/ Len(read) \in 1 .. Len(read)
          BY <2>3
        <5> QED
          BY <1>0, <5>1 DEF ReadInv
      <4> QED
        BY <2>1, <4>1 DEF Extra, LongAt
    <3> HIDE DEF v, n
    <3>3. CASE PrintString
      <4>1. ~Conversion.long
        <5>1. n \in 1 .. Len(format)
          BY <1>0, <2>1, <2>3 DEF n, ReadInv, IsFormat
        <5> QED
          BY <1>0, <3>0, <3>3, <5>1 DEF ReadInv, PrintString
      <4> QED
        BY <3>0, <3>1, <3>2, <3>3, <4>1 DEF PrintString, Shown
    <3>4. CASE PrintInt
      BY <3>0, <3>1, <3>2, <3>4 DEF PrintInt, Shown
    <3>5. CASE PrintLong
      <4>1. v = stack[LongAt] + Power(2)[Bits] * stack[LongAt + 1] /\ Conversion.long
        BY <3>1, <3>2, <3>5 DEF PrintLong, Modulus
      <4> QED
        BY <3>0, <3>5, <4>1 DEF PrintLong, Shown
    <3> QED
      BY <1>2, <3>3, <3>4, <3>5 DEF print
  <2>5. /\ Len(text') = n /\ text'[n] = t /\ text' \in Seq({text'[k] : k \in 1 .. Len(text')})
        /\ \A k \in 1 .. Len(read) : text'[k] = text[k]
    BY <2>4, AppendTo DEF TextInv
  <2>6. ASSUME NEW k \in 1 .. n
        PROVE  Shown(text'[k], format'[k], Value(format', read', stack', k))
    <3>1. CASE k = n
      BY <2>1, <2>4, <2>5, <3>1
    <3>2. CASE k # n
      <4>1. k \in 1 .. Len(read) /\ read'[k] = read[k]
        BY <2>3, <3>2
      <4>2. Value(format', read', stack', k) = Value(format, read, stack, k)
        BY <2>1, <2>2, <4>1 DEF Value
      <4> QED
        BY <2>1, <2>5, <4>1, <4>2 DEF TextInv
    <3> QED
      BY <3>1, <3>2
  <2>7. \E j \in Junk : stack' = Stack(format', before', j)
    BY <2>1, <2>2 DEF TextInv
  <2>8. format'[n].kind # "s" => low' = Lowest(v, format'[n])
    BY <2>1, <2>4
  <2> HIDE DEF n
  <2> QED
    BY <1>0, <2>3, <2>5, <2>6, <2>7, <2>8 DEF TextInv
<1> QED
  BY <1>1, <1>2

-----------------------------------------------------------------------------
(* Numbers and their digits.                                               *)

LEMMA PowerFacts ==
  ASSUME NEW b \in {2, 10, 16}, NEW k \in Nat
  PROVE  Power(b)[k] \in Nat \ {0} /\ Power(b)[k + 1] = b * Power(b)[k] /\ Power(b)[0] = 1
<1>1. b \in Nat \ {0}
  OBVIOUS
<1>2. /\ Power(b) \in [Nat -> Nat \ {0}] /\ Power(b)[0] = 1
      /\ \A j \in Nat : Power(b)[j + 1] = b * Power(b)[j]
  BY <1>1, Powers
<1> QED
  BY <1>2

\* A conversion of a number, which is no larger than its kind allows.
IsNumber(c) ==
  /\ c.kind \in {"d", "u", "x"} /\ c.long \in BOOLEAN /\ c.width \in Nat
  /\ c.left \in BOOLEAN /\ c.zero \in BOOLEAN
  /\ c.arg \in Nat /\ c.arg < Power(2)[Width(c)]

LEMMA NumberFits ==
  ASSUME ReadInv, NEW k \in 1 .. Len(format), format[k].kind # "s"
  PROVE  IsNumber(format[k])
<1>1. PICK C : /\ C = [kind : {"d", "u", "x", "s"}, long : BOOLEAN, width : Nat,
                       left : BOOLEAN, zero : BOOLEAN, arg : Longs]
               /\ format \in Seq(C)
  BY DEF ReadInv, IsFormat
<1>2. format[k] \in C
  BY <1>1, MembersOf
<1>3. PICK c \in C : c = format[k]
  BY <1>2
<1>4. /\ c.kind \in {"d", "u", "x", "s"} /\ c.long \in BOOLEAN /\ c.width \in Nat
      /\ c.left \in BOOLEAN /\ c.zero \in BOOLEAN /\ c.arg \in Longs
  BY <1>1
<1>5. Power(2)[2 * Bits] \in Nat \ {0} /\ Bits \in Nat /\ Power(2)[Bits] \in Nat \ {0}
  <2>1. Bits \in Nat /\ 2 * Bits \in Nat
    BY PrintfAssumption DEF PrintfAssumption
  <2> QED
    BY <2>1, PowerFacts
<1>6. ~c.long => c.arg \in Words
  BY <1>3 DEF ReadInv
<1>7. c.arg \in Nat /\ c.arg < Power(2)[Width(c)]
  BY <1>4, <1>5, <1>6 DEF Words, Longs, Width
<1> QED
  BY <1>3, <1>4, <1>7 DEF IsNumber

\* What is meant, without its sign.
Magnitude(c) == IF Meant(c) < 0 THEN -Meant(c) ELSE Meant(c)

LEMMA MagnitudeWritten ==
  ASSUME NEW c, IsNumber(c)
  PROVE  /\ Meant(c) \in Int /\ (IsNegative(c.arg, c) <=> Meant(c) < 0)
         /\ Magnitude(c) \in Nat /\ Magnitude(c) < Power(2)[Width(c)]
         /\ c.arg # 0 => Magnitude(c) # 0
         /\ c.arg = 0 => Magnitude(c) = 0
         /\ Written(c.arg, c) =
              (IF Meant(c) < 0 /\ ~SignFirst(c, TRUE) THEN <<"-">> ELSE <<>>)
                \o Digits(Magnitude(c), Base(c))
<1> DEFINE m == Power(2)[Width(c)]
           h == Power(2)[Width(c) - 1]
<1>1. m \in Nat \ {0} /\ h \in Nat \ {0}
  <2>1. Width(c) \in Nat /\ Width(c) - 1 \in Nat
    BY PrintfAssumption DEF PrintfAssumption, Width, IsNumber
  <2> QED
    BY <2>1, PowerFacts
<1>2. Signed(c.arg, Width(c)) = IF c.arg >= h THEN c.arg - m ELSE c.arg
  BY DEF Signed
<1>3. c.arg \in Nat /\ c.arg < m
  BY DEF IsNumber
<1> HIDE DEF m, h
<1>4. /\ Meant(c) \in Int /\ (IsNegative(c.arg, c) <=> Meant(c) < 0)
      /\ Meant(c) = IF c.kind = "d" /\ c.arg >= h THEN c.arg - m ELSE c.arg
  BY <1>1, <1>2, <1>3 DEF Meant, IsNegative
<1>5. /\ Magnitude(c) \in Nat /\ Magnitude(c) < m
      /\ c.arg # 0 => Magnitude(c) # 0
      /\ c.arg = 0 => Magnitude(c) = 0
  BY <1>1, <1>3, <1>4 DEF Magnitude
<1>6. (IF IsNegative(c.arg, c) THEN (-Signed(c.arg, Width(c))) % m ELSE c.arg) = Magnitude(c)
  <2>1. CASE Meant(c) < 0
    <3>1. -Signed(c.arg, Width(c)) = Magnitude(c)
      BY <1>1, <1>2, <1>3, <1>4, <2>1 DEF Magnitude
    <3>2. Magnitude(c) % m = Magnitude(c)
      <4>1. PICK a \in Nat : a = Magnitude(c)
        BY <1>5
      <4>2. a < m /\ a = m * 0 + a
        BY <1>1, <1>5, <4>1
      <4>3. a % m = a
        BY <1>1, <4>2, DivUnique
      <4> QED
        BY <4>1, <4>3
    <3> QED
      BY <1>4, <2>1, <3>1, <3>2
  <2>2. CASE ~(Meant(c) < 0)
    BY <1>1, <1>3, <1>4, <2>2 DEF Magnitude
  <2> QED
    BY <2>1, <2>2
<1>7. Written(c.arg, c) =
        (IF Meant(c) < 0 /\ ~SignFirst(c, TRUE) THEN <<"-">> ELSE <<>>)
          \o Digits(Magnitude(c), Base(c))
  <2>1. Written(c.arg, c) =
          (IF IsNegative(c.arg, c) /\ ~SignFirst(c, IsNegative(c.arg, c)) THEN <<"-">> ELSE <<>>)
            \o Digits(IF IsNegative(c.arg, c) THEN (-Signed(c.arg, Width(c))) % m ELSE c.arg,
                      Base(c))
    BY DEF Written, m
  <2>2. IsNegative(c.arg, c) /\ ~SignFirst(c, IsNegative(c.arg, c))
          <=> Meant(c) < 0 /\ ~SignFirst(c, TRUE)
    BY <1>4 DEF SignFirst
  <2> QED
    BY <1>6, <2>1, <2>2
<1> QED
  BY <1>4, <1>5, <1>7 DEF m

LEMMA DigitsLength ==
  ASSUME NEW base \in {10, 16}, NEW u \in Nat
  PROVE  /\ Digits(u, base) \in Seq(Glyphs) /\ Len(Digits(u, base)) \in Nat \ {0}
         /\ \A k \in Nat \ {0} : u < Power(base)[k] <=> Len(Digits(u, base)) <= k
<1>1. CASE u = 0
  <2>1. Digits(u, base) = <<"0">>
    BY <1>1, DigitsAre
  <2>2. "0" \in Glyphs
    <3>1. Digit[1] = "0" /\ 1 \in 1 .. 16
      BY DEF Digit
    <3> QED
      BY <3>1 DEF Glyphs
  <2>3. ASSUME NEW k \in Nat \ {0}
        PROVE  u < Power(base)[k] <=> Len(Digits(u, base)) <= k
    <3>1. k \in Nat
      OBVIOUS
    <3>2. Power(base)[k] \in Nat \ {0}
      BY <3>1, PowerFacts
    <3> DEFINE p == Power(base)[k]
    <3>3. 0 < p
      <4> HIDE DEF p
      <4>1. p \in Nat \ {0}
        BY <3>2 DEF p
      <4> QED
        BY <4>1
    <3>4. Len(Digits(u, base)) = 1
      BY <2>1
    <3>5. 1 <= k
      OBVIOUS
    <3> QED
      BY <1>1, <3>3, <3>4, <3>5
  <2>4. Digits(u, base) \in Seq(Glyphs) /\ Len(Digits(u, base)) \in Nat \ {0}
    BY <2>1, <2>2
  <2> QED
    BY <2>3, <2>4
<1>2. CASE u # 0
  <2>1. Digits(u, base) = DigitsOf(base)[u]
    BY <1>2, DigitsAre
  <2>2. Spells(Digits(u, base), u, base)
    BY <1>2, <2>1, DigitsSpell
  <2>3. Digits(u, base) \in Seq(Glyphs) /\ Len(Digits(u, base)) \in Nat \ {0}
    BY <2>2 DEF Spells
  <2> QED
    BY <2>2, <2>3, SpellsLength
<1> QED
  BY <1>1, <1>2

\* A hexadecimal number is no longer than a decimal one.
LEMMA HexShorter ==
  ASSUME NEW k \in Nat
  PROVE  Power(10)[k] <= Power(16)[k]
<1> DEFINE T == Power(10)
           X == Power(16)
           D == {j \in Nat : ~(T[j] <= X[j])}
<1>1. /\ T[0] = 1 /\ X[0] = 1
      /\ \A j \in Nat : /\ T[j] \in Nat \ {0} /\ T[j + 1] = 10 * T[j]
                       /\ X[j] \in Nat \ {0} /\ X[j + 1] = 16 * X[j]
  BY PowerFacts
<1> HIDE DEF T, X
<1>2. ASSUME D # {}
      PROVE  FALSE
  <2>1. PICK j \in D : \A i \in D : j <= i
    <3>1. D \subseteq Nat
      OBVIOUS
    <3> HIDE DEF D
    <3> QED
      BY <1>2, <3>1, FirstOf
  <2>2. j # 0
    BY <1>1
  <2>3. j - 1 \in Nat /\ ~(j <= j - 1) /\ (j - 1) + 1 = j
    BY <2>2
  <2>4. T[j - 1] <= X[j - 1]
    BY <2>1, <2>3
  <2>5. T[j] = 10 * T[j - 1] /\ X[j] = 16 * X[j - 1] /\ T[j - 1] \in Nat /\ X[j - 1] \in Nat
    BY <1>1, <2>3
  <2> QED
    BY <2>4, <2>5
<1> QED
  BY <1>2 DEF T, X

LEMMA LowestRight ==
  ASSUME NEW c, IsNumber(c)
  PROVE  /\ ~c.long \/ Small(c) => Lowest(c.arg, c) >= 0
         /\ c.kind # "x" /\ Meant(c) >= Power(10)[BufLen - 1] => Lowest(c.arg, c) < 0
<1> DEFINE d == Digits(Magnitude(c), Base(c))
           w == Written(c.arg, c)
<1>1. /\ Meant(c) \in Int /\ Magnitude(c) \in Nat /\ Magnitude(c) < Power(2)[Width(c)]
      /\ c.arg = 0 <=> Magnitude(c) = 0
      /\ w = (IF Meant(c) < 0 /\ ~SignFirst(c, TRUE) THEN <<"-">> ELSE <<>>) \o d
  BY MagnitudeWritten
<1>2. Base(c) \in {10, 16} /\ (c.kind # "x" => Base(c) = 10)
  BY DEF Base
<1>3. /\ d \in Seq(Glyphs) /\ Len(d) \in Nat \ {0}
      /\ \A k \in Nat \ {0} : Magnitude(c) < Power(Base(c))[k] <=> Len(d) <= k
  BY <1>1, <1>2, DigitsLength
<1> HIDE DEF d, w
<1>4. Len(w) = Len(d) \/ (Len(w) = Len(d) + 1 /\ Meant(c) < 0)
  <2>1. Len(<<"-">> \o d) = Len(d) + 1 /\ Len(<<>> \o d) = Len(d)
    BY <1>3
  <2> QED
    BY <1>1, <2>1
<1>5. BufLen - 2 \in Nat \ {0} /\ BufLen - 1 \in Nat \ {0} /\ BufLen \in Nat
  BY PrintfAssumption DEF PrintfAssumption
<1>6. Lowest(c.arg, c) = IF c.arg = 0 THEN 0 ELSE BufLen - 1 - Len(w)
  BY DEF Lowest, w
<1>7. \A k \in Nat : Power(10)[k] \in Nat \ {0}
  BY PowerFacts
<1>8. ASSUME ~c.long \/ Small(c)
      PROVE  Lowest(c.arg, c) >= 0
  <2>1. Magnitude(c) < Power(10)[BufLen - 2]
    <3>1. CASE ~c.long
      <4>1. Power(2)[Width(c)] <= Power(10)[BufLen - 2] /\ Power(2)[Width(c)] \in Nat
        <5>1. Power(2)[Bits] \in Nat /\ Power(10)[BufLen - 2] \in Nat
          BY <1>5, <1>7, ModulusFacts DEF Modulus
        <5> QED
          BY <3>1, <5>1, PrintfAssumption DEF PrintfAssumption, Width
      <4> QED
        BY <1>1, <1>5, <1>7, <4>1
    <3>2. CASE Small(c)
      BY <3>2 DEF Small, Magnitude
    <3> QED
      BY <1>8, <3>1, <3>2
  <2>2. Magnitude(c) < Power(Base(c))[BufLen - 2]
    <3>1. CASE Base(c) = 10
      BY <2>1, <3>1
    <3>2. CASE Base(c) = 16
      <4>1. Power(10)[BufLen - 2] <= Power(16)[BufLen - 2] /\ Power(10)[BufLen - 2] \in Nat
        BY <1>5, <1>7, HexShorter
      <4>2. Power(16)[BufLen - 2] \in Nat
        BY <1>5, PowerFacts
      <4> QED
        BY <1>1, <2>1, <3>2, <4>1, <4>2
    <3> QED
      BY <1>2, <3>1, <3>2
  <2>3. Len(d) <= BufLen - 2
    BY <1>3, <1>5, <2>2
  <2> QED
    BY <1>3, <1>4, <1>5, <1>6, <2>3
<1>9. ASSUME c.kind # "x", Meant(c) >= Power(10)[BufLen - 1]
      PROVE  Lowest(c.arg, c) < 0
  <2>1. Magnitude(c) = Meant(c) /\ ~(Meant(c) < 0)
    BY <1>1, <1>5, <1>7, <1>9 DEF Magnitude
  <2>2. Magnitude(c) # 0 /\ ~(Magnitude(c) < Power(10)[BufLen - 1])
    BY <1>1, <1>5, <1>7, <1>9, <2>1
  <2>3. ~(Len(d) <= BufLen - 1)
    BY <1>2, <1>3, <1>5, <1>9, <2>2
  <2> QED
    BY <1>1, <1>3, <1>4, <1>5, <1>6, <2>1, <2>2, <2>3
<1> QED
  BY <1>8, <1>9

\* An int never leaves the array, for any width of an int and an array that is
\* long enough for one; a long leaves it from BufLen digits on (bwio.c, printli).
THEOREM NumbersStayInside == PrintSpec => []StaysInside
<1>1. TextInv => StaysInside
  <2> DEFINE k == Len(read)
             c == format[k]
  <2> SUFFICES ASSUME TextInv, Regular(format, before), k > 0, c.kind # "s"
               PROVE  /\ ~c.long \/ Small(c) => low >= 0
                      /\ c.kind # "x" /\ Meant(c) >= Power(10)[BufLen - 1] => low < 0
    BY DEF StaysInside
  <2>1. ReadInv /\ k \in 1 .. Len(read) /\ k \in 1 .. Len(format)
    BY PlacesInside
  <2>2. Value(format, read, stack, k) = c.arg
    BY <2>1, ValueRead DEF TextInv
  <2>3. low = Lowest(c.arg, c)
    BY <2>2 DEF TextInv
  <2> QED
    BY <2>1, <2>3, NumberFits, LowestRight
<1> QED
  BY <1>1, TextInvInit, TextInvKept, PTL DEF PrintSpec

-----------------------------------------------------------------------------
(* Numerals.                                                               *)

\* A number has the most digits in base 2.
LEMMA BinaryLonger ==
  ASSUME NEW base \in {10, 16}, NEW k \in Nat
  PROVE  Power(2)[k] <= Power(base)[k]
<1> DEFINE T == Power(2)
           X == Power(base)
           D == {j \in Nat : ~(T[j] <= X[j])}
<1>1. /\ T[0] = 1 /\ X[0] = 1
      /\ \A j \in Nat : /\ T[j] \in Nat \ {0} /\ T[j + 1] = 2 * T[j]
                       /\ X[j] \in Nat \ {0} /\ X[j + 1] = base * X[j]
  BY PowerFacts
<1> HIDE DEF T, X
<1>2. ASSUME D # {}
      PROVE  FALSE
  <2>1. PICK j \in D : \A i \in D : j <= i
    <3>1. D \subseteq Nat
      OBVIOUS
    <3> HIDE DEF D
    <3> QED
      BY <1>2, <3>1, FirstOf
  <2>2. j # 0
    BY <1>1
  <2>3. j - 1 \in Nat /\ ~(j <= j - 1) /\ (j - 1) + 1 = j
    BY <2>2
  <2>4. T[j - 1] <= X[j - 1]
    BY <2>1, <2>3
  <2>5. T[j] = 2 * T[j - 1] /\ X[j] = base * X[j - 1] /\ T[j - 1] \in Nat /\ X[j - 1] \in Nat
    BY <1>1, <2>3
  <2>6. ~(T[j] <= X[j])
    OBVIOUS
  <2>7. CASE base = 10
    BY <2>4, <2>5, <2>6, <2>7
  <2>8. CASE base = 16
    BY <2>4, <2>5, <2>6, <2>8
  <2> QED
    BY <2>7, <2>8
<1> QED
  BY <1>2 DEF T, X

\* The digit at each place.
LEMMA DigitAt ==
  ASSUME NEW base \in {10, 16}, NEW n \in Nat, NEW k \in 1 .. Len(Digits(n, base))
  PROVE  Digits(n, base)[k]
           = Digit[((n \div Power(base)[Len(Digits(n, base)) - k]) % base) + 1]
<1> DEFINE P == Power(base)
           d == Digits(n, base)
           Glyph(i, len) == Digit[((n \div P[len - i]) % base) + 1]
<1>1. P[0] = 1
  <2>1. \A i \in Nat : P[0] = 1 /\ P[i] \in Nat \ {0}
    BY PowerFacts
  <2> QED
    BY <2>1
<1>2. CASE n = 0
  <2>1. d = <<"0">>
    BY <1>2, DigitsAre
  <2>2. (0 \div 1) % base = 0
    OBVIOUS
  <2>3. Digit[1] = "0"
    BY DEF Digit
  <2>4. Len(d) = 1 /\ d[1] = "0" /\ Len(d) - 1 = 0
    BY <2>1
  <2>5. Glyph(1, 1) = "0"
    <3>1. Glyph(1, 1) = Digit[((n \div P[0]) % base) + 1]
      OBVIOUS
    <3> HIDE DEF P, Glyph
    <3> QED
      BY <1>1, <1>2, <2>2, <2>3, <3>1
  <2>6. k = 1
    BY <2>4
  <2>7. d[k] = Glyph(k, Len(d))
    <3> HIDE DEF d, Glyph
    <3> QED
      BY <2>4, <2>5, <2>6
  <2> QED
    BY <2>7
<1>3. CASE n # 0
  <2>1. d = DigitsOf(base)[n]
    BY <1>3, DigitsAre
  <2>2. Spells(d, n, base)
    BY <1>3, <2>1, DigitsSpell
  <2> QED
    BY <2>2 DEF Spells
<1> QED
  BY <1>2, <1>3

\* The digits that the loops leave are those of the shortest numeral.
LEMMA DigitsNumeral ==
  ASSUME NEW base \in {10, 16}, NEW n \in Nat, n < Power(2)[2 * Bits]
  PROVE  Numeral(n, base) = Digits(n, base)
<1> DEFINE P == Power(base)
           d == Digits(n, base)
           Fits(k) == P[k] > n /\ (k = 1 \/ P[k - 1] <= n)
           Glyph(k, len) == Digit[((n \div P[len - k]) % base) + 1]
<1>1. /\ d \in Seq(Glyphs) /\ Len(d) \in Nat \ {0}
      /\ \A k \in Nat \ {0} : n < P[k] <=> Len(d) <= k
  BY DigitsLength
<1>2. \A k \in Nat : P[k] \in Nat \ {0} /\ P[0] = 1 /\ P[k + 1] = base * P[k]
  BY PowerFacts
<1>3. Numeral(n, base) =
        [k \in 1 .. (CHOOSE j \in 1 .. 2 * Bits + 1 : Fits(j))
           |-> Glyph(k, CHOOSE j \in 1 .. 2 * Bits + 1 : Fits(j))]
  BY DEF Numeral
<1>4. \A k \in 1 .. Len(d) : d[k] = Glyph(k, Len(d))
  BY DigitAt
<1> HIDE DEF d, P, Glyph
<1>5. Bits \in Nat
  BY PrintfAssumption DEF PrintfAssumption
<1>6. Len(d) \in 1 .. 2 * Bits + 1 /\ Fits(Len(d))
  <2>1. n < P[2 * Bits + 1]
    <3>1. 2 * Bits \in Nat
      BY <1>5
    <3>2. Power(2)[2 * Bits] <= P[2 * Bits] /\ Power(2)[2 * Bits] \in Nat
      BY <3>1, BinaryLonger, PowerFacts DEF P
    <3>3. PICK p \in Nat \ {0} : p = P[2 * Bits]
      BY <1>2, <3>1
    <3>4. P[2 * Bits + 1] = base * p
      BY <1>2, <3>1, <3>3
    <3>5. p < base * p
      <4>1. CASE base = 10
        BY <4>1
      <4>2. CASE base = 16
        BY <4>2
      <4> QED
        BY <4>1, <4>2
    <3>6. base * p \in Nat
      OBVIOUS
    <3> QED
      BY <3>2, <3>3, <3>4, <3>5, <3>6
  <2>2. Len(d) <= 2 * Bits + 1 /\ n < P[Len(d)]
    <3>1. 2 * Bits + 1 \in Nat \ {0}
      BY <1>5
    <3> QED
      BY <1>1, <2>1, <3>1
  <2>3. Len(d) = 1 \/ P[Len(d) - 1] <= n
    <3>1. SUFFICES ASSUME Len(d) # 1
                   PROVE  P[Len(d) - 1] <= n
      OBVIOUS
    <3>2. Len(d) - 1 \in Nat \ {0} /\ ~(Len(d) <= Len(d) - 1)
      BY <1>1, <3>1
    <3>3. ~(n < P[Len(d) - 1])
      BY <1>1, <3>2
    <3>4. P[Len(d) - 1] \in Nat
      BY <1>2, <3>2
    <3> QED
      BY <3>3, <3>4
  <2>4. P[Len(d)] > n
    BY <1>1, <1>2, <2>2
  <2> QED
    BY <1>1, <1>5, <2>2, <2>3, <2>4
<1>7. ASSUME NEW k \in 1 .. 2 * Bits + 1, Fits(k)
      PROVE  k = Len(d)
  <2>1. k \in Nat \ {0} /\ n < P[k]
    BY <1>2, <1>5, <1>7
  <2>2. Len(d) <= k
    BY <1>1, <2>1
  <2>3. ASSUME k # 1
        PROVE  ~(Len(d) <= k - 1)
    <3>1. k - 1 \in Nat \ {0} /\ P[k - 1] <= n
      BY <1>7, <2>1, <2>3
    <3>2. ~(n < P[k - 1])
      BY <1>2, <3>1
    <3> QED
      BY <1>1, <3>1, <3>2
  <2> QED
    BY <1>1, <2>1, <2>2, <2>3
<1>8. (CHOOSE k \in 1 .. 2 * Bits + 1 : Fits(k)) = Len(d)
  <2> HIDE DEF Fits
  <2> QED
    BY <1>6, <1>7
<1>9. d = [k \in 1 .. Len(d) |-> d[k]]
  BY <1>1
<1>10. Numeral(n, base) = [k \in 1 .. Len(d) |-> Glyph(k, Len(d))]
  BY <1>3, <1>8
<1>11. [k \in 1 .. Len(d) |-> Glyph(k, Len(d))] = [k \in 1 .. Len(d) |-> d[k]]
  BY <1>4
<1> QED
  BY <1>9, <1>10, <1>11 DEF d

-----------------------------------------------------------------------------
(* The layout of a conversion.                                             *)

LEMMA RepeatFacts ==
  ASSUME NEW S, NEW x \in S, NEW n \in Int
  PROVE  /\ Repeat(x, n) \in Seq(S) /\ (n <= 0 => Repeat(x, n) = <<>>)
         /\ \A i \in 1 .. Len(Repeat(x, n)) : Repeat(x, n)[i] = x
<1>1. CASE n <= 0
  <2>1. Repeat(x, n) = [k \in 1 .. n |-> x] /\ 1 .. n = {}
    BY <1>1 DEF Repeat
  <2>2. Repeat(x, n) = <<>>
    BY <2>1
  <2>3. Len(<<>>) = 0 /\ <<>> \in Seq(S)
    OBVIOUS
  <2> QED
    BY <2>2, <2>3
<1>2. CASE ~(n <= 0)
  <2>1. n \in Nat
    BY <1>2
  <2>2. Repeat(x, n) \in [1 .. n -> S] /\ \A i \in 1 .. n : Repeat(x, n)[i] = x
    BY DEF Repeat
  <2>3. Repeat(x, n) \in Seq(S)
    BY <2>1, <2>2, SeqDef
  <2>4. Len(Repeat(x, n)) = n
    BY <2>1, <2>2, <2>3, LenProperties
  <2> QED
    BY <1>2, <2>2, <2>3, <2>4
<1> QED
  BY <1>1, <1>2

\* The provers do not read the text of a space, nor that of a parenthesis.
Space == " "
Letters == {"(", "n", "u", "l", ")"}

LEMMA SixLetters ==
  ASSUME NEW p, NEW q, NEW r, NEW s, NEW t, NEW u
  PROVE  <<p, q, r, s, t, u>> \in Seq({p, q, r, s, t, u})
OBVIOUS

LEMMA NullTextLetters == NullText \in Seq(Letters)
<1>1. NullText = <<"(", "n", "u", "l", "l", ")">>
  BY Zenon DEF NullText
<1>2. Letters = {"(", "n", "u", "l", "l", ")"}
  BY Zenon DEF Letters
<1> QED
  BY <1>1, <1>2, SixLetters, Zenon

\* prints, with a name for the space.
Fill(s, width, c) == Repeat(IF width > 0 /\ c.zero THEN "0" ELSE Space, width - Len(s))

LEMMA PrintsFills ==
  ASSUME NEW s, NEW width, NEW c
  PROVE  prints(s, width, c) = IF c.left THEN s \o Fill(s, width, c) ELSE Fill(s, width, c) \o s
BY Zenon DEF prints, Fill, Space

\* The layout that the C standard asks for.
Laid(sign, body, c) ==
  LET fill == c.width - Len(sign \o body)
  IN  IF c.left THEN sign \o body \o Repeat(Space, fill)
      ELSE IF c.zero THEN sign \o Repeat("0", fill) \o body
      ELSE Repeat(Space, fill) \o sign \o body

\* The width and the flags of a conversion, of which only one is set.
HasLayout(c) ==
  /\ c.width \in Nat /\ c.left \in BOOLEAN /\ c.zero \in BOOLEAN
  /\ ~(c.left /\ c.zero)

\* There is no sign, or nothing is put between it and the digits.
Unsigned(sign, c) == Len(sign) = 0 \/ c.width = 0 \/ ~c.zero

\* prints lays out what has no sign before its zeros.
LEMMA PrintsLays ==
  ASSUME NEW c, HasLayout(c), NEW S, Space \in S, "0" \in S, NEW sign \in Seq(S), NEW body \in Seq(S),
         Unsigned(sign, c)
  PROVE  prints(sign \o body, c.width, c) = Laid(sign, body, c)
<1> DEFINE s == sign \o body
           n == c.width - Len(s)
           ch == IF c.width > 0 /\ c.zero THEN "0" ELSE Space
<1>0. /\ c.width \in Nat /\ c.left \in BOOLEAN /\ c.zero \in BOOLEAN /\ ~(c.left /\ c.zero)
      /\ Len(sign) = 0 \/ c.width = 0 \/ ~c.zero
  BY DEF HasLayout, Unsigned
<1>1. s \in Seq(S) /\ Len(s) \in Nat /\ n \in Int
  <2>1. s \in Seq(S)
    BY ConcatProperties
  <2>2. Len(s) \in Nat
    BY <2>1, LenProperties
  <2> HIDE DEF s
  <2> QED
    BY <1>0, <2>1, <2>2
<1>2. prints(s, c.width, c) = IF c.left THEN s \o Repeat(ch, n) ELSE Repeat(ch, n) \o s
  BY PrintsFills DEF Fill
<1>3. Laid(sign, body, c) = IF c.left THEN s \o Repeat(Space, n)
                            ELSE IF c.zero THEN (sign \o Repeat("0", n)) \o body
                            ELSE (Repeat(Space, n) \o sign) \o body
  BY DEF Laid
<1>4. \A x \in S : Repeat(x, n) \in Seq(S) /\ (n <= 0 => Repeat(x, n) = <<>>)
  <2> HIDE DEF n
  <2> QED
    BY <1>1, RepeatFacts
<1> HIDE DEF n, ch
<1>5. CASE c.left
  <2>1. ch = Space
    BY <1>0, <1>5 DEF ch
  <2> QED
    BY <1>2, <1>3, <1>5, <2>1
<1>6. CASE ~c.left /\ ~c.zero
  <2>1. ch = Space
    BY <1>6 DEF ch
  <2>2. (Repeat(Space, n) \o sign) \o body = Repeat(Space, n) \o s
    <3>1. Repeat(Space, n) \in Seq(S)
      BY <1>4
    <3> QED
      BY <3>1, ConcatAssociative
  <2> QED
    BY <1>2, <1>3, <1>6, <2>1, <2>2
<1>7. CASE ~c.left /\ c.zero /\ c.width > 0
  <2>1. ch = "0"
    BY <1>0, <1>7 DEF ch
  <2>4. sign = <<>>
    <3>1. Len(sign) = 0
      BY <1>0, <1>7
    <3> QED
      BY <3>1, EmptySeq
  <2>2. Repeat("0", n) \in Seq(S)
    BY <1>4
  <2>3. <<>> \o Repeat("0", n) = Repeat("0", n) /\ s = body
    BY <2>2, <2>4, ConcatEmptySeq
  <2> QED
    BY <1>2, <1>3, <1>7, <2>1, <2>3, <2>4
<1>8. CASE ~c.left /\ c.zero /\ c.width = 0
  <2>1. n <= 0
    BY <1>0, <1>1, <1>8 DEF n
  <2>2. ch = Space
    BY <1>0, <1>8 DEF ch
  <2>3. Repeat("0", n) = <<>> /\ Repeat(Space, n) = <<>>
    BY <1>4, <2>1
  <2>4. sign \o <<>> = sign /\ <<>> \o s = s
    BY <1>1, ConcatEmptySeq
  <2> QED
    BY <1>2, <1>3, <1>8, <2>2, <2>3, <2>4
<1> QED
  BY <1>0, <1>5, <1>6, <1>7, <1>8

\* printi puts the sign before the zeros.
LEMMA PrintiLays ==
  ASSUME NEW c, HasLayout(c), SignFirst(c, TRUE), NEW S, Space \in S, "0" \in S, "-" \in S,
         NEW body \in Seq(S), Len(body) > 0
  PROVE  <<"-">> \o prints(body, c.width - 1, c) = Laid(<<"-">>, body, c)
<1> DEFINE n == c.width - 1 - Len(body)
           ch == IF c.width - 1 > 0 /\ c.zero THEN "0" ELSE Space
<1>0. c.width \in Nat /\ c.width > 0 /\ c.zero /\ ~c.left
  BY DEF HasLayout, SignFirst
<1>1. <<"-">> \in Seq(S) /\ Len(<<"-">>) = 1 /\ Len(body) \in Nat
  <2>1. Len(body) \in Nat
    BY LenProperties
  <2> QED
    BY <2>1
<1>2. Len(<<"-">> \o body) = 1 + Len(body)
  BY <1>1, ConcatProperties
<1>3. c.width - Len(<<"-">> \o body) = n /\ n \in Int
  BY <1>0, <1>1, <1>2
<1>4. prints(body, c.width - 1, c) = Repeat(ch, n) \o body
  BY <1>0, PrintsFills DEF Fill
<1>5. Laid(<<"-">>, body, c) = (<<"-">> \o Repeat("0", n)) \o body
  BY <1>0, <1>3 DEF Laid
<1>6. Repeat(ch, n) = Repeat("0", n) /\ Repeat("0", n) \in Seq(S)
  <2>1. \A x \in S : Repeat(x, n) \in Seq(S) /\ (n <= 0 => Repeat(x, n) = <<>>)
    <3> HIDE DEF n
    <3> QED
      BY <1>3, RepeatFacts
  <2>2. CASE c.width - 1 > 0
    <3>1. ch = "0"
      BY <1>0, <2>2
    <3> QED
      BY <2>1, <3>1
  <2>3. CASE ~(c.width - 1 > 0)
    <3>1. n <= 0
      BY <1>0, <1>1, <2>3
    <3>2. ch = Space
      BY <1>0, <2>3
    <3> QED
      BY <2>1, <3>1, <3>2
  <2> QED
    BY <2>2, <2>3
<1>7. <<"-">> \o (Repeat("0", n) \o body) = (<<"-">> \o Repeat("0", n)) \o body
  BY <1>1, <1>6, ConcatAssociative
<1> QED
  BY <1>4, <1>5, <1>6, <1>7

LEMMA GlyphsHave == "0" \in Glyphs /\ Space \in Glyphs /\ "-" \in Glyphs
<1>1. Digit[1] = "0" /\ 1 \in 1 .. 16
  BY DEF Digit
<1> QED
  BY <1>1, Zenon DEF Glyphs, Space

LEMMA WrittenGlyphs ==
  ASSUME NEW c, IsNumber(c)
  PROVE  Written(c.arg, c) \in Seq(Glyphs)
<1> DEFINE d == Digits(Magnitude(c), Base(c))
           sign == IF Meant(c) < 0 /\ ~SignFirst(c, TRUE) THEN <<"-">> ELSE <<>>
<1>1. Magnitude(c) \in Nat /\ Written(c.arg, c) = sign \o d
  BY MagnitudeWritten
<1>2. Base(c) \in {10, 16}
  BY DEF Base
<1>3. d \in Seq(Glyphs)
  BY <1>1, <1>2, DigitsLength
<1>4. sign \in Seq(Glyphs)
  <2>1. <<"-">> \in Seq(Glyphs) /\ <<>> \in Seq(Glyphs)
    BY GlyphsHave
  <2> QED
    BY <2>1, Zenon
<1> HIDE DEF d, sign
<1> QED
  BY <1>1, <1>3, <1>4, ConcatProperties

\* The number that is asked for, with its sign.
LEMMA NumberLaid ==
  ASSUME NEW c, IsNumber(c)
  PROVE  Standard(c) = Laid(IF Meant(c) < 0 THEN <<"-">> ELSE <<>>,
                            Digits(Magnitude(c), Base(c)), c)
<1> DEFINE d == Digits(Magnitude(c), Base(c))
           neg == Meant(c) < 0
           sign == IF neg THEN <<"-">> ELSE <<>>
<1>1. /\ Meant(c) \in Int /\ (IsNegative(c.arg, c) <=> neg)
      /\ Magnitude(c) \in Nat /\ Magnitude(c) < Power(2)[Width(c)]
      /\ Written(c.arg, c) = (IF neg /\ ~SignFirst(c, TRUE) THEN <<"-">> ELSE <<>>) \o d
  BY MagnitudeWritten
<1>2. Base(c) \in {10, 16}
  BY DEF Base
<1>3. d \in Seq(Glyphs) /\ Len(d) \in Nat \ {0}
  BY <1>1, <1>2, DigitsLength
<1>4. Numeral(Magnitude(c), Base(c)) = d
  <2>1. Magnitude(c) < Power(2)[2 * Bits]
    <3>1. Bits \in Nat /\ 2 * Bits \in Nat /\ (Bits < 2 * Bits)
      BY PrintfAssumption DEF PrintfAssumption
    <3>2. Power(2)[Bits] < Power(2)[2 * Bits] /\ Power(2)[Bits] \in Nat /\ Power(2)[2 * Bits] \in Nat
      BY <3>1, PowersGrow, PowerFacts
    <3>3. Width(c) = Bits \/ Width(c) = 2 * Bits
      BY DEF Width
    <3> QED
      BY <1>1, <3>2, <3>3
  <2> QED
    BY <1>1, <1>2, <2>1, DigitsNumeral
<1>5. Standard(c) = Laid(sign, d, c)
  <2>1. c.kind # "s"
    BY DEF IsNumber
  <2>2. Standard(c) = Laid(sign, Numeral(Magnitude(c), Base(c)), c)
    BY <2>1, Zenon DEF Standard, Laid, Magnitude, Space
  <2> QED
    BY <1>4, <2>2
<1> QED
  BY <1>5

\* What a number is printed as.
LEMMA NumberStandard ==
  ASSUME NEW c, IsNumber(c), ~(c.left /\ c.zero)
  PROVE  printi(c.arg, c) = Standard(c)
<1> DEFINE d == Digits(Magnitude(c), Base(c))
           neg == Meant(c) < 0
           sign == IF neg THEN <<"-">> ELSE <<>>
<1>1. /\ Meant(c) \in Int /\ (IsNegative(c.arg, c) <=> neg)
      /\ Magnitude(c) \in Nat /\ Magnitude(c) < Power(2)[Width(c)]
      /\ Written(c.arg, c) = (IF neg /\ ~SignFirst(c, TRUE) THEN <<"-">> ELSE <<>>) \o d
  BY MagnitudeWritten
<1>2. Base(c) \in {10, 16}
  BY DEF Base
<1>3. d \in Seq(Glyphs) /\ Len(d) \in Nat \ {0}
  BY <1>1, <1>2, DigitsLength
<1>5. Standard(c) = Laid(sign, d, c)
  BY NumberLaid
<1>6. c.width \in Nat /\ HasLayout(c)
  BY DEF IsNumber, HasLayout
<1> HIDE DEF d
<1>7. CASE neg /\ SignFirst(c, TRUE)
  <2>1. c.width > 0 /\ c.zero
    BY <1>7 DEF SignFirst
  <2>2. Written(c.arg, c) = d
    <3>1. <<>> \o d = d
      BY <1>3, ConcatEmptySeq
    <3> QED
      BY <1>1, <1>7, <3>1
  <2>3. printi(c.arg, c) = <<"-">> \o prints(d, c.width - 1, c)
    BY <1>1, <1>7, <2>2 DEF printi, SignFirst
  <2>4. Len(d) > 0
    BY <1>3
  <2>5. <<"-">> \o prints(d, c.width - 1, c) = Laid(<<"-">>, d, c)
    BY <1>3, <1>6, <1>7, <2>4, GlyphsHave, PrintiLays
  <2> QED
    BY <1>5, <1>7, <2>3, <2>5
<1>8. CASE ~(neg /\ SignFirst(c, TRUE))
  <2>1. Written(c.arg, c) = sign \o d
    BY <1>1, <1>8
  <2>2. printi(c.arg, c) = prints(sign \o d, c.width, c)
    BY <1>1, <1>8, <2>1 DEF printi, SignFirst
  <2>3. Len(sign) = 0 \/ c.width = 0 \/ ~c.zero
    <3>1. neg => c.width = 0 \/ ~c.zero
      BY <1>6, <1>8 DEF SignFirst
    <3>2. ~neg => Len(sign) = 0
      OBVIOUS
    <3> QED
      BY <3>1, <3>2
  <2>4. sign \in Seq(Glyphs)
    <3>1. <<"-">> \in Seq(Glyphs) /\ <<>> \in Seq(Glyphs)
      BY GlyphsHave
    <3> QED
      BY <3>1, Zenon
  <2>5. Unsigned(sign, c)
    BY <2>3 DEF Unsigned
  <2> HIDE DEF sign
  <2>6. prints(sign \o d, c.width, c) = Laid(sign, d, c)
    BY <1>3, <1>6, <2>4, <2>5, GlyphsHave, PrintsLays
  <2> QED
    BY <1>5, <2>2, <2>6
<1> QED
  BY <1>7, <1>8

\* What a string is printed as.
LEMMA StringStandard ==
  ASSUME NEW c, HasLayout(c), c.kind = "s"
  PROVE  prints(IF c.arg = 0 THEN NullText ELSE <<"t">>, c.width, c) = Standard(c)
<1> DEFINE S == Letters \cup {"t", Space, "0"}
           body == IF c.arg = 0 THEN NullText ELSE <<"t">>
<1>1. body \in Seq(S)
  <2>1. NullText \in Seq(S)
    BY NullTextLetters, SeqMonotonic
  <2>2. <<"t">> \in Seq(S)
    OBVIOUS
  <2> QED
    BY <2>1, <2>2
<1>2. Standard(c) = Laid(<<>>, body, c)
  BY Zenon DEF Standard, Laid, Space
<1> HIDE DEF body
<1>3. <<>> \o body = body /\ <<>> \in Seq(S)
  BY <1>1, ConcatEmptySeq
<1>4. Space \in S /\ "0" \in S
  OBVIOUS
<1> HIDE DEF S
<1>5. prints(<<>> \o body, c.width, c) = Laid(<<>>, body, c)
  <2>1. Unsigned(<<>>, c)
    BY DEF Unsigned
  <2> QED
    BY <1>1, <1>3, <1>4, <2>1, PrintsLays
<1> QED
  BY <1>2, <1>3, <1>5 DEF body

\* Every regular format is printed as the C standard says, whatever the numbers,
\* the widths and the flags (prints, printi, printli of bwio.c).
THEOREM PrintedAsStandard == PrintSpec => []TextRight
<1>1. TextInv => TextRight
  <2> SUFFICES ASSUME TextInv, Regular(format, before), NEW k \in DOMAIN text,
                      ~(format[k].left /\ format[k].zero),
                      format[k].long => Small(format[k])
               PROVE  text[k] = Standard(format[k])
    BY DEF TextRight
  <2> DEFINE c == format[k]
  <2>1. ReadInv /\ k \in 1 .. Len(read) /\ k \in 1 .. Len(format)
    BY PlacesInside
  <2>2. Value(format, read, stack, k) = c.arg
    BY <2>1, ValueRead DEF TextInv
  <2>3. Shown(text[k], c, c.arg)
    BY <2>1, <2>2 DEF TextInv
  <2>4. CASE c.kind = "s"
    <3>1. HasLayout(c)
      <4>1. PICK C : /\ C = [kind : {"d", "u", "x", "s"}, long : BOOLEAN, width : Nat,
                             left : BOOLEAN, zero : BOOLEAN, arg : Longs]
                     /\ format \in Seq(C)
        BY <2>1 DEF ReadInv, IsFormat
      <4>2. c \in C
        BY <2>1, <4>1, MembersOf
      <4>3. c.width \in Nat /\ c.left \in BOOLEAN /\ c.zero \in BOOLEAN
        BY <4>1, <4>2
      <4> QED
        BY <4>3 DEF HasLayout
    <3>2. text[k] = prints(IF c.arg = 0 THEN NullText ELSE <<"t">>, c.width, c)
      BY <2>3, <2>4 DEF Shown
    <3> HIDE DEF c
    <3>3. text[k] = Standard(c)
      BY <2>4, <3>1, <3>2, StringStandard
    <3> QED
      BY <3>3 DEF c
  <2>5. CASE c.kind # "s"
    <3>1. IsNumber(c)
      BY <2>1, <2>5, NumberFits
    <3>2. ~c.long \/ Small(c)
      OBVIOUS
    <3>3. Lowest(c.arg, c) >= 0
      BY <3>1, <3>2, LowestRight
    <3>4. Lowest(c.arg, c) \in Int
      <4>1. Written(c.arg, c) \in Seq(Glyphs)
        BY <3>1, WrittenGlyphs
      <4>2. Len(Written(c.arg, c)) \in Nat
        BY <4>1, LenProperties
      <4> QED
        BY <4>2, PrintfAssumption DEF Lowest, PrintfAssumption
    <3>5. ~(Lowest(c.arg, c) < 0)
      BY <3>3, <3>4
    <3>6. text[k] = printi(c.arg, c)
      BY <2>3, <2>5, <3>5 DEF Shown
    <3> QED
      BY <3>1, <3>6, NumberStandard
  <2> QED
    BY <2>4, <2>5
<1> QED
  BY <1>1, TextInvInit, TextInvKept, PTL DEF PrintSpec

-----------------------------------------------------------------------------
(* Reading a numeral back.                                                 *)

Tens == {Digit[n] : n \in 1 .. 10}

ValueOf(ch) == (CHOOSE k \in 1 .. 10 : Digit[k] = ch) - 1

LEMMA DigitsDiffer ==
  ASSUME NEW i \in 1 .. 10, NEW k \in 1 .. 10, Digit[i] = Digit[k]
  PROVE  i = k
BY DEF Digit

LEMMA ValueOfDigit ==
  ASSUME NEW j \in 0 .. 9
  PROVE  ValueOf(Digit[j + 1]) = j
<1>1. j + 1 \in 1 .. 10 /\ (\A k \in 1 .. 10 : Digit[k] = Digit[j + 1] => k = j + 1)
  BY DigitsDiffer
<1>2. PICK i \in 1 .. 10 : i = j + 1
  BY <1>1
<1>3. (CHOOSE k \in 1 .. 10 : Digit[k] = Digit[i]) = i
  <2>1. \A k \in 1 .. 10 : Digit[k] = Digit[i] => k = i
    BY DigitsDiffer
  <2> QED
    BY <2>1, Zenon
<1>4. ValueOf(Digit[i]) = i - 1
  BY <1>3 DEF ValueOf
<1> QED
  BY <1>2, <1>4

LEMMA TensFacts ==
  "0" \in Tens /\ "-" \notin Tens /\ Digit[1] = "0" /\ Tens \subseteq Glyphs
<1>1. Digit[1] = "0" /\ 1 \in 1 .. 10
  BY DEF Digit
<1>2. ASSUME NEW n \in 1 .. 10
      PROVE  "-" # Digit[n]
  BY DEF Digit
<1>3. Tens \subseteq Glyphs
  <2>1. \A n \in 1 .. 16 : Digit[n] \in Glyphs
    BY Zenon DEF Glyphs
  <2> QED
    BY <2>1 DEF Tens
<1> QED
  BY <1>1, <1>2, <1>3 DEF Tens

\* The function res of myAtoi.
Folds(r, z) ==
  r = [k \in 0 .. Len(z) |->
         IF k = 0 THEN 0 ELSE (r[k - 1] * 10 + ValueOf(z[k])) % Power(2)[Bits]]

ReadUp(z) == CHOOSE r : Folds(r, z)
Signs(s) == Len(s) > 0 /\ s[1] = "-"
Unsigns(s) == IF Signs(s) THEN Tail(s) ELSE s

LEMMA AtoiIs ==
  ASSUME NEW s
  PROVE  myAtoi(s) =
           IF \E k \in DOMAIN Unsigns(s) : \A n \in 1 .. 10 : Unsigns(s)[k] # Digit[n]
           THEN 0
           ELSE IF Signs(s) THEN Negate(ReadUp(Unsigns(s))[Len(Unsigns(s))])
                ELSE ReadUp(Unsigns(s))[Len(Unsigns(s))]
BY Zenon DEF myAtoi, ReadUp, Folds, ValueOf, Unsigns, Signs

\* A remainder that is none.
LEMMA Remains ==
  ASSUME NEW a \in Nat, NEW m \in Nat \ {0}, a < m
  PROVE  a % m = a /\ (a - m) % m = a
<1>1. a % m = a
  <2>1. a = m * 0 + a /\ 0 \in Nat
    OBVIOUS
  <2> QED
    BY <2>1, DivUnique
<1>2. (a - m) % m = a
  <2> DEFINE q == (a - m) \div m
             r == (a - m) % m
  <2>1. q \in Int /\ r \in 0 .. m - 1 /\ a - m = m * q + r
    OBVIOUS
  <2> HIDE DEF q, r
  <2>2. m * (q + 1) = a - r
    <3>1. m * (q + 1) = m * q + m
      BY <2>1
    <3> QED
      BY <2>1, <3>1
  <2>3. ASSUME q + 1 > 0
        PROVE  FALSE
    <3>1. PICK e \in Nat : q + 1 = e + 1
      <4>1. q \in Nat /\ q + 1 = q + 1
        BY <2>1, <2>3
      <4> QED
        BY <4>1
    <3>2. m * (e + 1) = m * e + m /\ m * e \in Nat
      OBVIOUS
    <3> QED
      BY <2>1, <2>2, <3>1, <3>2
  <2>4. ASSUME q + 1 < 0
        PROVE  FALSE
    <3>1. PICK e \in Nat : q + 1 = -(e + 1)
      <4>1. -(q + 2) \in Nat /\ q + 1 = -((-(q + 2)) + 1)
        BY <2>1, <2>4
      <4> QED
        BY <4>1
    <3>2. m * (-(e + 1)) = -(m * e) - m /\ m * e \in Nat
      OBVIOUS
    <3> QED
      BY <2>1, <2>2, <3>1, <3>2
  <2>5. q + 1 = 0
    BY <2>1, <2>3, <2>4
  <2>6. m * 0 = 0
    OBVIOUS
  <2>7. r = a
    BY <2>1, <2>2, <2>5, <2>6
  <2> QED
    BY <2>7 DEF r
<1> QED
  BY <1>1, <1>2

\* Zeros and the digits of u are read as u.
LEMMA ReadsUp ==
  ASSUME NEW u \in Nat, u < Modulus, NEW m \in Nat, NEW z \in Seq(Glyphs),
         Len(z) = m + Len(Digits(u, 10)),
         \A i \in 1 .. m : z[i] = "0",
         \A j \in 1 .. Len(Digits(u, 10)) : z[m + j] = Digits(u, 10)[j]
  PROVE  ReadUp(z)[Len(z)] = u
<1> DEFINE P == Power(10)
           L == Len(Digits(u, 10))
           N == m + L
           C(i) == IF i <= m THEN 0 ELSE u \div P[N - i]
           Step(r, i) == IF i = 0 THEN 0 ELSE (r[i - 1] * 10 + ValueOf(z[i])) % Modulus
           g == [i \in 0 .. N |-> C(i)]
<1>1. /\ L \in Nat \ {0} /\ u < P[L]
      /\ \A j \in 1 .. L : z[m + j] = Digit[((u \div P[L - j]) % 10) + 1]
  <2>1. L \in Nat \ {0} /\ \A k \in Nat \ {0} : u < P[k] <=> L <= k
    BY DigitsLength
  <2>2. \A j \in 1 .. L : Digits(u, 10)[j] = Digit[((u \div P[L - j]) % 10) + 1]
    BY DigitAt
  <2> HIDE DEF L, P
  <2>3. u < P[L]
    BY <2>1
  <2>4. \A j \in 1 .. L : z[m + j] = Digits(u, 10)[j]
    BY DEF L
  <2> QED
    BY <2>1, <2>2, <2>3, <2>4
<1>2. \A k \in Nat : P[k] \in Nat \ {0} /\ P[k + 1] = 10 * P[k] /\ P[0] = 1
  BY PowerFacts
<1>3. Len(z) = N
  OBVIOUS
<1> HIDE DEF L, P
<1>4. N \in Nat
  BY <1>1
<1>5. \A k \in Nat : u \div P[k] \in Nat /\ u \div P[k] <= u
  <2> TAKE k \in Nat
  <2>1. PICK p \in Nat \ {0} : p = P[k]
    BY <1>2
  <2>2. u \div p \in Nat /\ u % p \in 0 .. p - 1 /\ u = p * (u \div p) + (u % p)
    BY DivMod
  <2>3. PICK q \in Nat : q = u \div p
    BY <2>2
  <2>4. q <= p * q
    <3>1. PICK e \in Nat : p = e + 1
      <4>1. p - 1 \in Nat /\ p = (p - 1) + 1
        OBVIOUS
      <4> QED
        BY <4>1
    <3>2. (e + 1) * q = e * q + q /\ e * q \in Nat
      OBVIOUS
    <3> QED
      BY <3>1, <3>2
  <2>5. p * q \in Nat
    OBVIOUS
  <2> QED
    BY <2>1, <2>2, <2>3, <2>4, <2>5
<1>6. ASSUME NEW i \in 1 .. N
      PROVE  (C(i - 1) * 10 + ValueOf(z[i])) % Modulus = C(i)
  <2>1. CASE i <= m
    <3>1. z[i] = Digit[0 + 1]
      <4>1. i \in 1 .. m
        BY <2>1
      <4> QED
        BY <4>1, TensFacts
    <3>2. ValueOf(z[i]) = 0
      BY <3>1, ValueOfDigit
    <3>3. C(i - 1) = 0 /\ C(i) = 0
      BY <2>1
    <3>4. 0 * 10 + 0 = 0 /\ 0 % Modulus = 0
      BY ModulusFacts, Remains
    <3> HIDE DEF C
    <3> QED
      BY <3>2, <3>3, <3>4
  <2>2. CASE ~(i <= m)
    <3>1. PICK e \in Nat : e = N - i /\ e < L
      <4>1. N - i \in Nat /\ N - i < L
        BY <1>1, <2>2
      <4> QED
        BY <4>1
    <3>2. PICK a \in Nat : a = u \div P[e] /\ a <= u
      BY <1>5
    <3>3. C(i) = a
      BY <2>2, <3>1, <3>2
    <3>4. z[i] = Digit[(a % 10) + 1]
      <4>1. i - m \in 1 .. L /\ m + (i - m) = i /\ L - (i - m) = e
        BY <1>1, <2>2, <3>1
      <4> QED
        BY <1>1, <3>2, <4>1
    <3>5. ValueOf(z[i]) = a % 10
      <4>1. a % 10 \in 0 .. 9
        OBVIOUS
      <4> QED
        BY <3>4, <4>1, ValueOfDigit
    <3>6. C(i - 1) = a \div 10
      <4>1. a \div 10 = u \div P[e + 1]
        <5>1. P[e] \in Nat \ {0} /\ P[e + 1] = 10 * P[e]
          BY <1>2
        <5>2. (u \div P[e]) \div 10 = u \div (P[e] * 10)
          BY <5>1, DivDiv
        <5>3. P[e] * 10 = 10 * P[e]
          BY <5>1
        <5> QED
          BY <3>2, <5>1, <5>2, <5>3
      <4>2. CASE i - 1 <= m
        <5>1. e + 1 = L
          BY <1>1, <2>2, <3>1, <4>2
        <5>2. u \div P[L] = 0
          <6>1. PICK p \in Nat \ {0} : p = P[L]
            BY <1>1, <1>2
          <6>2. u = p * 0 + u /\ u < p /\ 0 \in Nat
            BY <1>1, <6>1
          <6>3. u \div p = 0
            BY <6>2, DivUnique
          <6> QED
            BY <6>1, <6>3
        <5>3. C(i - 1) = 0
          BY <4>2
        <5> HIDE DEF C
        <5> QED
          BY <4>1, <5>1, <5>2, <5>3
      <4>3. CASE ~(i - 1 <= m)
        <5>1. N - (i - 1) = e + 1
          BY <1>4, <3>1
        <5>2. C(i - 1) = u \div P[N - (i - 1)]
          BY <4>3
        <5> HIDE DEF C, N
        <5> QED
          BY <4>1, <5>1, <5>2
      <4> QED
        BY <4>2, <4>3
    <3>7. (a \div 10) * 10 + (a % 10) = a
      OBVIOUS
    <3>8. a % Modulus = a
      <4>1. a < Modulus
        BY <3>2, ModulusFacts
      <4> QED
        BY <4>1, ModulusFacts, Remains
    <3> HIDE DEF C
    <3> QED
      BY <3>3, <3>5, <3>6, <3>7, <3>8
  <2> QED
    BY <2>1, <2>2
<1>7. C(0) = 0 /\ C(N) = u
  <2>1. C(0) = 0
    OBVIOUS
  <2>2. ~(N <= m) /\ N - N = 0
    BY <1>1
  <2>3. u \div 1 = u
    OBVIOUS
  <2>4. C(N) = u \div P[N - N]
    BY <2>2
  <2> HIDE DEF C, N
  <2> QED
    BY <1>2, <2>1, <2>2, <2>3, <2>4
<1> HIDE DEF C
<1>8. Folds(g, z)
  <2>1. ASSUME NEW i \in 0 .. N
        PROVE  C(i) = Step(g, i)
    <3>1. CASE i = 0
      BY <1>7, <3>1
    <3>2. CASE i # 0
      <4>1. i \in 1 .. N /\ i - 1 \in 0 .. N
        BY <1>4, <3>2
      <4>2. g[i - 1] = C(i - 1)
        BY <4>1
      <4> HIDE DEF g
      <4> QED
        BY <1>6, <3>2, <4>1, <4>2
    <3> QED
      BY <3>1, <3>2
  <2>2. g = [i \in 0 .. N |-> Step(g, i)]
    <3> HIDE DEF Step
    <3> QED
      BY <2>1
  <2> HIDE DEF g
  <2> QED
    BY <1>3, <2>2 DEF Folds, Modulus
<1>9. Folds(ReadUp(z), z)
  <2> HIDE DEF g
  <2> QED
    BY <1>8 DEF ReadUp
<1> DEFINE r == ReadUp(z)
<1> HIDE DEF r
<1>10. \A i \in 0 .. N : r[i] = Step(r, i)
  <2>1. r = [i \in 0 .. N |-> Step(r, i)]
    BY <1>3, <1>9 DEF Folds, Modulus, r
  <2> HIDE DEF Step
  <2> QED
    BY <2>1
<1>11. \A i \in 0 .. N : r[i] = C(i)
  <2> DEFINE D == {i \in Nat : i \in 0 .. N /\ r[i] # C(i)}
  <2>1. ASSUME D # {}
        PROVE  FALSE
    <3>1. PICK i \in D : \A k \in D : i <= k
      <4>1. D \subseteq Nat
        OBVIOUS
      <4> HIDE DEF D
      <4> QED
        BY <2>1, <4>1, FirstOf
    <3>2. i # 0
      BY <1>7, <1>10
    <3>3. i - 1 \in Nat /\ i - 1 \in 0 .. N /\ ~(i <= i - 1) /\ i \in 1 .. N
      BY <1>4, <3>2
    <3>4. r[i - 1] = C(i - 1)
      BY <3>1, <3>3
    <3>5. r[i] = (r[i - 1] * 10 + ValueOf(z[i])) % Modulus
      BY <1>10, <3>2, <3>3
    <3>6. r[i] = C(i)
      BY <1>6, <3>3, <3>4, <3>5
    <3> QED
      BY <3>6
  <2> QED
    BY <1>4, <2>1
<1> QED
  BY <1>3, <1>4, <1>7, <1>11 DEF r

\* The decimal digits of a number are decimal digits.
LEMMA DecimalDigits ==
  ASSUME NEW u \in Nat, NEW k \in 1 .. Len(Digits(u, 10))
  PROVE  Digits(u, 10)[k] \in Tens
<1>1. PICK L \in Nat : L = Len(Digits(u, 10))
  BY DigitsLength
<1>2. Power(10)[L - k] \in Nat \ {0}
  <2>1. L - k \in Nat
    BY <1>1
  <2> QED
    BY <2>1, PowerFacts
<1>3. PICK a \in Nat : a = u \div Power(10)[L - k]
  <2>1. PICK p \in Nat \ {0} : p = Power(10)[L - k]
    BY <1>2
  <2>2. u \div p \in Nat
    BY DivMod
  <2> QED
    BY <2>1, <2>2
<1>4. Digits(u, 10)[k] = Digit[(a % 10) + 1]
  <2>1. Digits(u, 10)[k] = Digit[((u \div Power(10)[L - k]) % 10) + 1]
    BY <1>1, DigitAt
  <2> QED
    BY <1>3, <2>1
<1>5. (a % 10) + 1 \in 1 .. 10
  OBVIOUS
<1> QED
  BY <1>4, <1>5 DEF Tens

\* What stands before the digits.
SignOf(c) == IF Meant(c) < 0 THEN <<"-">> ELSE <<>>

\* An int with zeros or nothing between its sign and its digits.
LEMMA ZerosBetween ==
  ASSUME NEW c, IsNumber(c), c.width = 0 \/ (c.zero /\ ~c.left)
  PROVE  \E m \in Int : printi(c.arg, c)
                          = SignOf(c) \o (Repeat("0", m) \o Digits(Magnitude(c), Base(c)))
<1> DEFINE d == Digits(Magnitude(c), Base(c))
           neg == Meant(c) < 0
           sign == SignOf(c)
<1>1. /\ IsNegative(c.arg, c) <=> neg
      /\ Magnitude(c) \in Nat
      /\ Written(c.arg, c) = (IF neg /\ ~SignFirst(c, TRUE) THEN <<"-">> ELSE <<>>) \o d
  BY MagnitudeWritten
<1>2. Base(c) \in {10, 16}
  BY DEF Base
<1>3. d \in Seq(Glyphs) /\ Len(d) \in Nat \ {0}
  BY <1>1, <1>2, DigitsLength
<1>4. sign \in Seq(Glyphs)
  <2>1. <<"-">> \in Seq(Glyphs) /\ <<>> \in Seq(Glyphs)
    BY GlyphsHave
  <2> QED
    BY <2>1, Zenon DEF SignOf
<1>5. \A m \in Int : Repeat("0", m) \in Seq(Glyphs) /\ (m <= 0 => Repeat("0", m) = <<>>)
  BY GlyphsHave, RepeatFacts
<1>6. CASE c.width = 0
  <2>1. ~SignFirst(c, TRUE) /\ ~SignFirst(c, IsNegative(c.arg, c))
    BY <1>6 DEF SignFirst
  <2>2. Written(c.arg, c) = sign \o d
    BY <1>1, <2>1 DEF SignOf
  <2>3. printi(c.arg, c) = prints(sign \o d, 0, c)
    BY <1>6, <2>1, <2>2 DEF printi
  <2> HIDE DEF d, sign
  <2>4. PICK s \in Seq(Glyphs) : s = sign \o d
    BY <1>3, <1>4, ConcatProperties
  <2>5. Fill(s, 0, c) = <<>>
    <3>1. Len(s) \in Nat
      BY LenProperties
    <3>2. 0 - Len(s) \in Int /\ 0 - Len(s) <= 0
      BY <3>1
    <3>3. Fill(s, 0, c) = Repeat(Space, 0 - Len(s))
      <4>1. ~(0 > 0)
        OBVIOUS
      <4> QED
        BY <4>1 DEF Fill
    <3> QED
      BY <3>2, <3>3, GlyphsHave, RepeatFacts
  <2>6. prints(s, 0, c) = s
    <3>1. s \o <<>> = s /\ <<>> \o s = s
      BY ConcatEmptySeq
    <3> QED
      BY <2>5, <3>1, PrintsFills
  <2>7. Repeat("0", 0) \o d = d
    <3>1. Repeat("0", 0) = <<>>
      BY <1>5
    <3> QED
      BY <1>3, <3>1, ConcatEmptySeq
  <2>8. printi(c.arg, c) = sign \o (Repeat("0", 0) \o d)
    BY <2>3, <2>4, <2>6, <2>7
  <2>9. 0 \in Int
    OBVIOUS
  <2> QED
    BY <2>8, <2>9, Zenon DEF d, sign
<1>7. CASE c.width # 0
  <2>1. c.zero /\ ~c.left
    BY <1>7
  <2>2. printi(c.arg, c) = Laid(sign, d, c)
    <3>1. ~(c.left /\ c.zero)
      BY <2>1
    <3> QED
      BY <3>1, NumberStandard, NumberLaid DEF SignOf
  <2> DEFINE m == c.width - Len(sign \o d)
  <2>3. Laid(sign, d, c) = (sign \o Repeat("0", m)) \o d
    BY <2>1 DEF Laid
  <2>4. m \in Int
    <3> HIDE DEF d, sign
    <3>1. sign \o d \in Seq(Glyphs)
      BY <1>3, <1>4, ConcatProperties
    <3>2. Len(sign \o d) \in Nat
      BY <3>1, LenProperties
    <3>3. c.width \in Nat
      BY DEF IsNumber
    <3> QED
      BY <3>2, <3>3
  <2> HIDE DEF d, sign, m
  <2>5. Repeat("0", m) \in Seq(Glyphs)
    BY <1>5, <2>4
  <2>6. (sign \o Repeat("0", m)) \o d = sign \o (Repeat("0", m) \o d)
    BY <1>3, <1>4, <2>5, ConcatAssociative
  <2> QED
    BY <2>2, <2>3, <2>4, <2>6 DEF d, sign
<1> QED
  BY <1>6, <1>7

\* A numeral with a sign, then zeros: its value as a word.
LEMMA ReadBackFrom ==
  ASSUME NEW u \in Nat, u < Modulus, NEW m \in Int
  PROVE  /\ myAtoi(<<"-">> \o (Repeat("0", m) \o Digits(u, 10))) = Negate(u)
         /\ myAtoi(<<>> \o (Repeat("0", m) \o Digits(u, 10))) = u
<1> DEFINE d == Digits(u, 10)
           o == Repeat("0", m)
           z == o \o d
           M == Len(o)
<1>1. d \in Seq(Glyphs) /\ Len(d) \in Nat \ {0}
  BY DigitsLength
<1>2. o \in Seq(Glyphs) /\ M \in Nat /\ \A i \in 1 .. M : o[i] = "0"
  <2>1. o \in Seq(Glyphs) /\ \A i \in 1 .. Len(o) : o[i] = "0"
    BY GlyphsHave, RepeatFacts
  <2> QED
    BY <2>1, LenProperties
<1>3. \A k \in 1 .. Len(d) : d[k] \in Tens
  BY DecimalDigits
<1> HIDE DEF d, o, M
<1>4. /\ z \in Seq(Glyphs) /\ Len(z) = M + Len(d)
      /\ \A i \in 1 .. M : z[i] = "0"
      /\ \A j \in 1 .. Len(d) : z[M + j] = d[j]
  <2>1. z \in Seq(Glyphs) /\ Len(z) = M + Len(d)
    BY <1>1, <1>2, ConcatProperties DEF M
  <2>2. ASSUME NEW i \in 1 .. M
        PROVE  z[i] = "0"
    <3>1. z[i] = o[i]
      BY <1>1, <1>2 DEF M
    <3> QED
      BY <1>2, <3>1
  <2>3. ASSUME NEW j \in 1 .. Len(d)
        PROVE  z[M + j] = d[j]
    BY <1>1, <1>2 DEF M
  <2> HIDE DEF z
  <2> QED
    BY <2>1, <2>2, <2>3
<1> HIDE DEF z
<1>5. \A k \in 1 .. Len(z) : z[k] \in Tens
  <2> TAKE k \in 1 .. Len(z)
  <2>1. CASE k <= M
    <3>1. z[k] = "0"
      BY <1>2, <1>4, <2>1
    <3> QED
      BY <3>1, TensFacts
  <2>2. CASE ~(k <= M)
    <3>1. k - M \in 1 .. Len(d) /\ M + (k - M) = k
      BY <1>1, <1>2, <1>4, <2>2
    <3> QED
      BY <1>3, <1>4, <3>1
  <2> QED
    BY <2>1, <2>2
<1>6. ReadUp(z)[Len(z)] = u
  BY <1>2, <1>4, ReadsUp DEF d
<1>7. ~ \E k \in DOMAIN z : \A n \in 1 .. 10 : z[k] # Digit[n]
  <2>1. DOMAIN z = 1 .. Len(z)
    BY <1>4, LenProperties
  <2> QED
    BY <1>5, <2>1, Zenon DEF Tens
<1>8. Len(z) \in Nat \ {0}
  BY <1>1, <1>2, <1>4
<1>9. myAtoi(<<"-">> \o z) = Negate(u)
  <2> DEFINE s == <<"-">> \o z
  <2>1. Len(s) > 0 /\ s[1] = "-" /\ Tail(s) = z
    BY <1>4, <1>8
  <2> HIDE DEF s
  <2>2. Signs(s) /\ Unsigns(s) = z
    BY <2>1 DEF Signs, Unsigns
  <2>3. myAtoi(s) = Negate(u)
    BY <1>6, <1>7, <2>2, AtoiIs, Zenon
  <2> QED
    BY <2>3 DEF s
<1>10. myAtoi(<<>> \o z) = u
  <2>1. <<>> \o z = z
    BY <1>4, ConcatEmptySeq
  <2>2. ~Signs(z)
    <3>1. z[1] \in Tens
      BY <1>5, <1>8
    <3> QED
      BY <3>1, TensFacts DEF Signs
  <2>3. Unsigns(z) = z
    BY <2>2 DEF Unsigns
  <2>4. myAtoi(z) = u
    BY <1>6, <1>7, <2>2, <2>3, AtoiIs, Zenon
  <2> QED
    BY <2>1, <2>4
<1> QED
  BY <1>9, <1>10 DEF z, o, d

\* The word of a signed number.
LEMMA WordBack ==
  ASSUME NEW c, IsNumber(c), ~c.long, c.kind = "d"
  PROVE  /\ Magnitude(c) < Modulus /\ Base(c) = 10
         /\ Meant(c) < 0 => Negate(Magnitude(c)) = c.arg
         /\ ~(Meant(c) < 0) => Magnitude(c) = c.arg
<1>1. Width(c) = Bits /\ Base(c) = 10
  BY DEF Width, Base
<1>2. c.arg \in Nat /\ c.arg < Modulus /\ Modulus \in Nat \ {0}
  BY <1>1, ModulusFacts DEF IsNumber, Modulus
<1>3. Magnitude(c) \in Nat /\ Magnitude(c) < Modulus
  BY <1>1, MagnitudeWritten DEF Modulus
<1>4. Meant(c) = c.arg \/ Meant(c) = c.arg - Modulus
  BY <1>1 DEF Meant, Signed, Modulus
<1>5. ASSUME Meant(c) < 0
      PROVE  Negate(Magnitude(c)) = c.arg
  <2>1. Magnitude(c) = -(c.arg - Modulus)
    BY <1>2, <1>4, <1>5 DEF Magnitude
  <2>2. -Magnitude(c) = c.arg - Modulus
    BY <1>2, <2>1
  <2>3. (c.arg - Modulus) % Modulus = c.arg
    BY <1>2, Remains
  <2> QED
    BY <2>2, <2>3 DEF Negate, Modulus
<1>6. ASSUME ~(Meant(c) < 0)
      PROVE  Magnitude(c) = c.arg
  BY <1>2, <1>4, <1>6 DEF Magnitude
<1> QED
  BY <1>1, <1>3, <1>5, <1>6

\* Every int that is printed without spaces is read back as it was, the lowest
\* one too (printi of bwio.c, then myAtoi of commandExecutor.c).
THEOREM PrintedIsReadBack == PrintSpec => []ReadBack
<1>1. TextInv => ReadBack
  <2> SUFFICES ASSUME TextInv, NEW k \in DOMAIN text, Regular(format, before), ~format[k].long,
                      format[k].kind = "d",
                      format[k].width = 0 \/ (format[k].zero /\ ~format[k].left)
               PROVE  myAtoi(text[k]) = format[k].arg
    BY DEF ReadBack
  <2> DEFINE c == format[k]
             d == Digits(Magnitude(c), 10)
  <2>1. ReadInv /\ k \in 1 .. Len(read) /\ k \in 1 .. Len(format)
    BY PlacesInside
  <2>2. Value(format, read, stack, k) = c.arg
    BY <2>1, ValueRead DEF TextInv
  <2>3. text[k] = printi(c.arg, c)
    BY <2>1, <2>2 DEF TextInv, Shown
  <2>4. IsNumber(c)
    BY <2>1, NumberFits
  <2>5. /\ Magnitude(c) < Modulus /\ Base(c) = 10 /\ Magnitude(c) \in Nat
        /\ Meant(c) < 0 => Negate(Magnitude(c)) = c.arg
        /\ ~(Meant(c) < 0) => Magnitude(c) = c.arg
    BY <2>4, WordBack, MagnitudeWritten
  <2>6. PICK m \in Int : text[k] = SignOf(c) \o (Repeat("0", m) \o d)
    BY <2>3, <2>4, <2>5, ZerosBetween
  <2>7. /\ myAtoi(<<"-">> \o (Repeat("0", m) \o d)) = Negate(Magnitude(c))
        /\ myAtoi(<<>> \o (Repeat("0", m) \o d)) = Magnitude(c)
    BY <2>5, ReadBackFrom
  <2> HIDE DEF c, d
  <2>8. CASE Meant(c) < 0
    <3>1. SignOf(c) = <<"-">>
      BY <2>8 DEF SignOf
    <3> QED
      BY <2>5, <2>6, <2>7, <2>8, <3>1 DEF c
  <2>9. CASE ~(Meant(c) < 0)
    <3>1. SignOf(c) = <<>>
      BY <2>9 DEF SignOf
    <3> QED
      BY <2>5, <2>6, <2>7, <2>9, <3>1 DEF c
  <2> QED
    BY <2>8, <2>9
<1> QED
  BY <1>1, TextInvInit, TextInvKept, PTL DEF PrintSpec
=============================================================================
