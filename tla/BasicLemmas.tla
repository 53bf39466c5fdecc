---------------------------- MODULE BasicLemmas ----------------------------
(***************************************************************************)
(* Facts that the proofs of several parts need: multiplication, division   *)
(* and remainders (frames and circular buffers), least and greatest        *)
(* elements, and lists.                                                    *)
(***************************************************************************)
EXTENDS ListParts, SequenceTheorems, WellFoundedInduction, TLAPS


\* Products of naturals are monotonic.
LEMMA MulMono ==
  ASSUME NEW a \in Nat, NEW b \in Nat, NEW c \in Nat, a <= b
  PROVE  a * c <= b * c /\ a * c \in Nat
  OBVIOUS

\* Integer division: b \div v vectors of v samples fit in b, and fill it when
\* v divides b.
LEMMA DivBounds ==
  ASSUME NEW b \in Nat, NEW v \in Nat \ {0}
  PROVE  /\ b \div v \in Nat
         /\ b \div v <= b
         /\ (b \div v) * v <= b
         /\ b % v = 0 => (b \div v) * v = b
         /\ v <= b => b \div v >= 1
<1>1. /\ b \div v \in Int /\ b % v \in 0..(v - 1)
      /\ b = v * (b \div v) + (b % v)
  OBVIOUS
<1> DEFINE q == b \div v
           r == b % v
<1> HIDE DEF q, r
<1>2. q \in Int /\ r \in 0..(v - 1) /\ b = v * q + r
  BY <1>1 DEF q, r
<1>3. q >= 0
  <2>1. SUFFICES ASSUME q <= -1 PROVE FALSE
    BY <1>2
  <2>2. v * q <= v * (-1)
    BY <2>1, <1>2
  <2> QED
    BY <2>2, <1>2
<1>4. v * q = q * v /\ q * v <= b /\ (r = 0 => q * v = b)
  BY <1>2
<1>5. q <= b
  <2>1. q * 1 <= q * v
    BY <1>2, <1>3
  <2> QED
    BY <2>1, <1>2, <1>4
<1>6. v <= b => q >= 1
  BY <1>2, <1>3
<1> QED
  BY <1>2, <1>3, <1>4, <1>5, <1>6 DEF q, r

\* How many packets of p bytes a bytes take.
LEMMA CeilingBounds ==
  ASSUME NEW a \in Nat, NEW p \in Nat \ {0}
  PROVE  LET n == (a + p - 1) \div p
         IN  n \in Nat /\ a <= n * p /\ (a > 0 => n > 0 /\ (n - 1) * p < a) /\ (a = 0 => n = 0)
<1> DEFINE b == a + p - 1
           n == b \div p
<1>1. b \in Nat
  OBVIOUS
<1>2. n \in Int /\ b % p \in 0..(p - 1) /\ b = p * n + (b % p)
  <2> HIDE DEF b
  <2> QED
    BY <1>1
<1>3. n \in Nat /\ n * p <= b
  <2> HIDE DEF b
  <2> QED
    BY <1>1, DivBounds
<1> HIDE DEF n
<1>4. n * p = p * n /\ (n - 1) * p = n * p - p /\ n * p \in Nat
  BY <1>3
<1>5. a <= n * p /\ (n - 1) * p < a
  BY <1>2, <1>3, <1>4
<1>6. n >= 1 => p <= n * p
  BY <1>3, MulMono
<1>7. a > 0 => n > 0
  BY <1>3, <1>5
<1>8. a = 0 => n = 0
  BY <1>3, <1>6
<1> QED
  BY <1>3, <1>5, <1>7, <1>8 DEF n

\* Remainders below twice the modulus.
LEMMA ModSmall ==
  ASSUME NEW n \in Nat \ {0}, NEW a \in 0..(2 * n - 1)
  PROVE  a % n = IF a < n THEN a ELSE a - n
<1>1. /\ a \div n \in Int /\ a % n \in 0..(n - 1)
      /\ a = n * (a \div n) + (a % n)
  OBVIOUS
<1> DEFINE q == a \div n
           r == a % n
<1> HIDE DEF q, r
<1>2. q \in Int /\ r \in 0..(n - 1) /\ a = n * q + r
  BY <1>1 DEF q, r
<1>3. q < 2
  <2>1. SUFFICES ASSUME q >= 2 PROVE FALSE
    BY <1>2
  <2>2. n * q >= n * 2
    BY <2>1, <1>2
  <2> QED
    BY <2>2, <1>2
<1>4. q > -1
  <2>1. SUFFICES ASSUME q <= -1 PROVE FALSE
    BY <1>2
  <2>2. n * q <= n * (-1)
    BY <2>1, <1>2
  <2> QED
    BY <2>2, <1>2
<1>5. q = 0 \/ q = 1
  BY <1>2, <1>3, <1>4
<1>6. r = IF a < n THEN a ELSE a - n
  BY <1>2, <1>5
<1> QED
  BY <1>6 DEF r

\* A set of naturals has a least element, which Min is.
LEMMA LeastNatural ==
  ASSUME NEW S \in SUBSET Nat, S # {}
  PROVE  \E x \in S : \A y \in S : x <= y
<1> DEFINE R == {r \in Nat \X Nat : r[1] < r[2]}
<1>1. IsWellFoundedOn(R, Nat)
  BY NatLessThanWellFounded DEF OpToRel
<1>2. PICK x \in S : \A y \in S : ~ (<<y, x>> \in R)
  <2> HIDE DEF R
  <2> QED BY <1>1, WFMin, Zenon
<1>3. ASSUME NEW y \in S PROVE x <= y
  <2>1. x \in Nat /\ y \in Nat /\ ~(y < x)
    BY <1>2
  <2> QED
    BY <2>1
<1> QED
  BY <1>3

\* The sums of the first n numbers, for each n.
LEMMA PartialSums ==
  ASSUME NEW N \in Nat, NEW a, \A n \in 1..N : a[n] \in Nat
  PROVE  \E f \in [0..N -> Nat] : f[0] = 0 /\ \A n \in 1..N : f[n] = f[n - 1] + a[n]
<1> DEFINE Sums(f, m) == f[0] = 0 /\ \A n \in 1..m : f[n] = f[n - 1] + a[n]
           Bad == {m \in 0..N : ~ \E f \in [0..m -> Nat] : Sums(f, m)}
<1>1. SUFFICES ASSUME Bad # {} PROVE FALSE
  <2>1. Bad = {} => N \notin Bad
    OBVIOUS
  <2> HIDE DEF Sums
  <2>2. N \notin Bad => \E f \in [0..N -> Nat] : Sums(f, N)
    OBVIOUS
  <2>3. Bad = {}
    BY <1>1
  <2> HIDE DEF Bad
  <2>4. \E f \in [0..N -> Nat] : Sums(f, N)
    BY <2>1, <2>2, <2>3
  <2> QED
    BY <2>4 DEF Sums
<1>2. PICK m \in Bad : \A k \in Bad : m <= k
  <2> HIDE DEF Sums
  <2>1. Bad \subseteq Nat
    OBVIOUS
  <2> HIDE DEF Bad
  <2> QED
    BY <1>1, <2>1, LeastNatural
<1>3. m \in 1..N
  <2>1. [n \in 0..0 |-> 0] \in [0..0 -> Nat] /\ Sums([n \in 0..0 |-> 0], 0)
    OBVIOUS
  <2>2. m \in 0..N /\ m # 0
    <3> HIDE DEF Sums
    <3> QED
      BY <2>1
  <2> QED
    BY <2>2
<1>4. PICK f \in [0..(m - 1) -> Nat] : Sums(f, m - 1)
  <2> HIDE DEF Sums
  <2>1. m - 1 \in 0..N /\ ~(m <= m - 1)
    BY <1>3
  <2>2. m - 1 \notin Bad
    <3> HIDE DEF Bad
    <3> QED
      BY <1>2, <2>1
  <2> QED
    BY <2>1, <2>2
<1> DEFINE g == [n \in 0..m |-> IF n = m THEN f[m - 1] + a[m] ELSE f[n]]
<1>5. f[m - 1] \in Nat /\ a[m] \in Nat
  BY <1>3
<1>6. g \in [0..m -> Nat]
  <2>1. \A n \in 0..m : n # m => f[n] \in Nat
    BY <1>3
  <2> QED
    BY <1>5, <2>1
<1>7. Sums(g, m)
  <2>1. g[0] = 0 /\ g[m - 1] = f[m - 1] /\ g[m] = f[m - 1] + a[m]
    BY <1>3, <1>4
  <2>2. ASSUME NEW n \in 1..(m - 1) PROVE g[n] = g[n - 1] + a[n]
    <3>1. g[n] = f[n] /\ g[n - 1] = f[n - 1]
      BY <1>3
    <3> HIDE DEF g
    <3> QED
      BY <3>1, <1>4
  <2>3. \A n \in 1..m : n = m \/ n \in 1..(m - 1)
    BY <1>3
  <2> HIDE DEF g
  <2> QED
    BY <2>1, <2>2, <2>3
<1> HIDE DEF Sums, g
<1> QED
  BY <1>2, <1>6, <1>7

LEMMA LeastElement ==
  ASSUME NEW T, T \subseteq Nat, T # {}
  PROVE  /\ Min(T) \in T
         /\ \A y \in T : Min(T) <= y
<1>1. \E x \in T : \A y \in T : x <= y
  BY LeastNatural
<1> QED
  BY <1>1 DEF Min

\* A set of naturals with a bound has a greatest element, which Max is.
LEMMA GreatestElement ==
  ASSUME NEW b \in Nat, NEW T, T \subseteq 0..b, T # {}
  PROVE  /\ Max(T) \in T
         /\ \A y \in T : y <= Max(T)
<1> DEFINE U == {b - x : x \in T}
<1>1. PICK u \in U : \A v \in U : u <= v
  <2>0. ASSUME NEW x \in T PROVE b - x \in Nat
    <3>1. x \in 0..b
      OBVIOUS
    <3> QED
      BY <3>1
  <2>1. U \subseteq Nat /\ U # {}
    BY <2>0
  <2> HIDE DEF U
  <2> QED
    BY <2>1, LeastNatural
<1>2. PICK x \in T : u = b - x
  OBVIOUS
<1>3. ASSUME NEW y \in T PROVE y <= x
  <2>1. b - y \in U
    OBVIOUS
  <2>2. b - x <= b - y
    BY <1>1, <1>2, <2>1
  <2>3. y \in Int /\ x \in Int
    OBVIOUS
  <2> QED
    BY <2>2, <2>3
<1>4. \E z \in T : \A y \in T : y <= z
  BY <1>3
<1> QED
  BY <1>4 DEF Max

-----------------------------------------------------------------------------
(* Lists without duplicates, and the order in them.                        *)

Elements(s) == {s[i] : i \in DOMAIN s}

Distinct(s) == \A i, j \in DOMAIN s : s[i] = s[j] => i = j

Before(s, a, b) == \E i, j \in DOMAIN s : i < j /\ s[i] = a /\ s[j] = b

LEMMA RemoveAtProperties ==
  ASSUME NEW S, NEW s \in Seq(S), NEW k \in 1..Len(s)
  PROVE  /\ RemoveAt(s, k) \in Seq(S)
         /\ Len(RemoveAt(s, k)) = Len(s) - 1
         /\ \A i \in 1..(Len(s) - 1) : RemoveAt(s, k)[i] = IF i < k THEN s[i] ELSE s[i + 1]
<1> DEFINE p == SubSeq(s, 1, k - 1)
           q == SubSeq(s, k + 1, Len(s))
<1>1. /\ p \in Seq(S) /\ Len(p) = k - 1
      /\ \A i \in 1..(k - 1) : p[i] = s[i]
  <2>1. \A i \in 1..(k - 1) : s[i] \in S
    BY ElementOfSeq
  <2>2. /\ p \in Seq(S)
        /\ Len(p) = IF 1 <= k - 1 THEN (k - 1) - 1 + 1 ELSE 0
        /\ \A i \in 1..((k - 1) - 1 + 1) : p[i] = s[1 + i - 1]
    BY <2>1, SubSeqProperties
  <2> QED
    BY <2>2
<1>2. /\ q \in Seq(S) /\ Len(q) = Len(s) - k
      /\ \A i \in 1..(Len(s) - k) : q[i] = s[k + i]
  <2>1. \A i \in (k + 1)..Len(s) : s[i] \in S
    BY ElementOfSeq
  <2>2. /\ q \in Seq(S)
        /\ Len(q) = IF k + 1 <= Len(s) THEN Len(s) - (k + 1) + 1 ELSE 0
        /\ \A i \in 1..(Len(s) - (k + 1) + 1) : q[i] = s[k + 1 + i - 1]
    BY <2>1, SubSeqProperties
  <2> QED
    BY <2>2
<1> HIDE DEF p, q
<1>3. /\ p \o q \in Seq(S)
      /\ Len(p \o q) = Len(p) + Len(q)
      /\ \A i \in 1..(Len(p) + Len(q)) : (p \o q)[i] = IF i <= Len(p) THEN p[i] ELSE q[i - Len(p)]
  BY <1>1, <1>2, ConcatProperties
<1>4. RemoveAt(s, k) = p \o q
  BY DEF RemoveAt, p, q
<1>5. Len(p) + Len(q) = Len(s) - 1
  BY <1>1, <1>2
<1>6. ASSUME NEW i \in 1..(Len(s) - 1)
      PROVE  (p \o q)[i] = IF i < k THEN s[i] ELSE s[i + 1]
  <2>1. (p \o q)[i] = IF i <= k - 1 THEN p[i] ELSE q[i - (k - 1)]
    BY <1>1, <1>3, <1>5
  <2>2. CASE i < k
    BY <1>1, <2>1, <2>2
  <2>3. CASE ~(i < k)
    <3>1. i - (k - 1) \in 1..(Len(s) - k) /\ k + (i - (k - 1)) = i + 1
      BY <2>3
    <3> QED
      BY <1>2, <2>1, <2>3, <3>1
  <2> QED
    BY <2>2, <2>3
<1> QED
  BY <1>3, <1>4, <1>5, <1>6

LEMMA InsertAtProperties ==
  ASSUME NEW S, NEW s \in Seq(S), NEW k \in 1..Len(s), NEW e \in S
  PROVE  /\ InsertAt(s, k, e) \in Seq(S)
         /\ Len(InsertAt(s, k, e)) = Len(s) + 1
         /\ \A i \in 1..(Len(s) + 1) :
              InsertAt(s, k, e)[i] = IF i < k THEN s[i] ELSE IF i = k THEN e ELSE s[i - 1]
<1> DEFINE p == SubSeq(s, 1, k - 1)
           q == SubSeq(s, k, Len(s))
           r == p \o <<e>>
<1>1. /\ p \in Seq(S) /\ Len(p) = k - 1
      /\ \A i \in 1..(k - 1) : p[i] = s[i]
  <2>1. \A i \in 1..(k - 1) : s[i] \in S
    BY ElementOfSeq
  <2>2. /\ p \in Seq(S)
        /\ Len(p) = IF 1 <= k - 1 THEN (k - 1) - 1 + 1 ELSE 0
        /\ \A i \in 1..((k - 1) - 1 + 1) : p[i] = s[1 + i - 1]
    BY <2>1, SubSeqProperties
  <2> QED
    BY <2>2
<1>2. /\ q \in Seq(S) /\ Len(q) = Len(s) - k + 1
      /\ \A i \in 1..(Len(s) - k + 1) : q[i] = s[k + i - 1]
  <2>1. \A i \in k..Len(s) : s[i] \in S
    BY ElementOfSeq
  <2>2. /\ q \in Seq(S)
        /\ Len(q) = IF k <= Len(s) THEN Len(s) - k + 1 ELSE 0
        /\ \A i \in 1..(Len(s) - k + 1) : q[i] = s[k + i - 1]
    BY <2>1, SubSeqProperties
  <2> QED
    BY <2>2
<1>3. <<e>> \in Seq(S) /\ Len(<<e>>) = 1 /\ <<e>>[1] = e
  OBVIOUS
<1> HIDE DEF p, q
<1>4. /\ r \in Seq(S)
      /\ Len(r) = Len(p) + Len(<<e>>)
      /\ \A i \in 1..(Len(p) + Len(<<e>>)) : r[i] = IF i <= Len(p) THEN p[i] ELSE <<e>>[i - Len(p)]
  BY <1>1, <1>3, ConcatProperties
<1>5. /\ Len(r) = k
      /\ \A i \in 1..k : r[i] = IF i < k THEN s[i] ELSE e
  BY <1>1, <1>3, <1>4
<1> HIDE DEF r
<1>6. r \in Seq(S) /\ q \in Seq(S)
  BY <1>2, <1>4
<1>7. /\ r \o q \in Seq(S)
      /\ Len(r \o q) = Len(r) + Len(q)
      /\ \A i \in 1..(Len(r) + Len(q)) : (r \o q)[i] = IF i <= Len(r) THEN r[i] ELSE q[i - Len(r)]
  BY <1>6, ConcatProperties
<1>8. InsertAt(s, k, e) = r \o q
  BY DEF InsertAt, p, q, r
<1>9. Len(r) + Len(q) = Len(s) + 1
  BY <1>2, <1>5
<1>10. ASSUME NEW i \in 1..(Len(s) + 1)
       PROVE  (r \o q)[i] = IF i < k THEN s[i] ELSE IF i = k THEN e ELSE s[i - 1]
  <2>1. (r \o q)[i] = IF i <= k THEN r[i] ELSE q[i - k]
    BY <1>5, <1>7, <1>9
  <2>2. CASE i <= k
    BY <1>5, <2>1, <2>2
  <2>3. CASE ~(i <= k)
    <3>1. i - k \in 1..(Len(s) - k + 1) /\ k + (i - k) - 1 = i - 1
      BY <2>3
    <3> QED
      BY <1>2, <2>1, <2>3, <3>1
  <2> QED
    BY <2>2, <2>3
<1> QED
  BY <1>7, <1>8, <1>9, <1>10

LEMMA AppendedProperties ==
  ASSUME NEW S, NEW s \in Seq(S), NEW c \in S, Distinct(s), c \notin Elements(s)
  PROVE  /\ Append(s, c) \in Seq(S)
         /\ Distinct(Append(s, c))
         /\ Elements(Append(s, c)) = Elements(s) \cup {c}
         /\ \A a, b : Before(Append(s, c), a, b) <=> Before(s, a, b) \/ (b = c /\ a \in Elements(s))
<1> DEFINE w == Append(s, c)
           n == Len(s)
<1>1. DOMAIN s = 1..n /\ n \in Nat
  BY LenProperties
<1>2. /\ w \in Seq(S) /\ Len(w) = n + 1
      /\ \A i \in 1..n : w[i] = s[i]
      /\ w[n + 1] = c
  BY AppendProperties
<1> HIDE DEF w
<1>3. DOMAIN w = 1..(n + 1)
  BY <1>2, LenProperties
<1>4. \A i \in 1..n : s[i] # c
  BY <1>1 DEF Elements
<1>5. Distinct(w)
  BY <1>1, <1>2, <1>3, <1>4 DEF Distinct
<1>6. Elements(w) = Elements(s) \cup {c}
  <2>1. 1..(n + 1) = 1..n \cup {n + 1}
    BY <1>1
  <2> QED
    BY <1>1, <1>2, <1>3, <2>1 DEF Elements
<1>7. ASSUME NEW a, NEW b, Before(w, a, b)
      PROVE  Before(s, a, b) \/ (b = c /\ a \in Elements(s))
  <2>1. PICK i \in 1..(n + 1), j \in 1..(n + 1) : i < j /\ w[i] = a /\ w[j] = b
    BY <1>3, <1>7 DEF Before
  <2>2. i \in 1..n /\ s[i] = a
    BY <1>1, <1>2, <2>1
  <2>3. CASE j = n + 1
    BY <1>1, <1>2, <2>1, <2>2, <2>3 DEF Elements
  <2>4. CASE j # n + 1
    <3>1. j \in 1..n /\ s[j] = b
      BY <1>1, <1>2, <2>1, <2>4
    <3> QED
      BY <1>1, <2>1, <2>2, <3>1 DEF Before
  <2> QED
    BY <2>3, <2>4
<1>8. ASSUME NEW a, NEW b, Before(s, a, b) \/ (b = c /\ a \in Elements(s))
      PROVE  Before(w, a, b)
  <2>1. CASE Before(s, a, b)
    BY <1>1, <1>2, <1>3, <2>1 DEF Before
  <2>2. CASE b = c /\ a \in Elements(s)
    <3>1. PICK i \in 1..n : s[i] = a
      BY <1>1, <2>2 DEF Elements
    <3>2. i \in 1..(n + 1) /\ n + 1 \in 1..(n + 1) /\ i < n + 1 /\ w[i] = a /\ w[n + 1] = b
      BY <1>1, <1>2, <2>2, <3>1
    <3> QED
      BY <1>3, <3>2 DEF Before
  <2> QED
    BY <1>8, <2>1, <2>2
<1> QED
  BY <1>2, <1>5, <1>6, <1>7, <1>8 DEF w
-----------------------------------------------------------------------------
(* Lists from their head: what is put in front, and taken from there.      *)

LEMMA PushedProperties ==
  ASSUME NEW S, NEW s \in Seq(S), NEW e \in S
  PROVE  /\ <<e>> \o s \in Seq(S) /\ <<e>> \o s # <<>>
         /\ 1 \in DOMAIN (<<e>> \o s) /\ (<<e>> \o s)[1] = e
         /\ \A k \in DOMAIN (<<e>> \o s) :
              k # 1 => k - 1 \in DOMAIN s /\ (<<e>> \o s)[k] = s[k - 1]
         /\ \A k \in DOMAIN s :
              k + 1 \in DOMAIN (<<e>> \o s) /\ k + 1 # 1 /\ (<<e>> \o s)[k + 1] = s[k]
<1> DEFINE t == <<e>> \o s
<1>1. <<e>> \in Seq(S) /\ Len(<<e>>) = 1 /\ <<e>>[1] = e
  OBVIOUS
<1>2. /\ t \in Seq(S) /\ Len(t) = 1 + Len(s)
      /\ \A k \in 1..(1 + Len(s)) : t[k] = IF k <= 1 THEN <<e>>[k] ELSE s[k - 1]
  BY <1>1, ConcatProperties
<1> HIDE DEF t
<1>3. Len(s) \in Nat /\ DOMAIN s = 1..Len(s) /\ DOMAIN t = 1..(1 + Len(s))
  BY <1>2, LenProperties
<1>4. t # <<>> /\ 1 \in DOMAIN t /\ t[1] = e
  BY <1>1, <1>2, <1>3
<1>5. \A k \in DOMAIN t : k # 1 => k - 1 \in DOMAIN s /\ t[k] = s[k - 1]
  BY <1>2, <1>3
<1>6. ASSUME NEW k \in DOMAIN s
      PROVE  k + 1 \in DOMAIN t /\ k + 1 # 1 /\ t[k + 1] = s[k]
  <2>1. k + 1 \in 1..(1 + Len(s)) /\ ~(k + 1 <= 1) /\ (k + 1) - 1 = k
    BY <1>3
  <2> QED
    BY <1>2, <1>3, <2>1
<1> QED
  BY <1>2, <1>4, <1>5, <1>6 DEF t

LEMMA PoppedProperties ==
  ASSUME NEW S, NEW s \in Seq(S), s # <<>>
  PROVE  /\ 1 \in DOMAIN s /\ Head(s) = s[1] /\ s[1] \in S
         /\ Tail(s) \in Seq(S)
         /\ \A k \in DOMAIN Tail(s) : k + 1 \in DOMAIN s /\ k + 1 # 1 /\ Tail(s)[k] = s[k + 1]
         /\ \A k \in DOMAIN s : k # 1 => k - 1 \in DOMAIN Tail(s) /\ Tail(s)[k - 1] = s[k]
<1> DEFINE t == Tail(s)
<1>1. /\ t \in Seq(S) /\ Len(t) = Len(s) - 1
      /\ \A k \in 1..Len(t) : t[k] = s[k + 1]
  BY HeadTailProperties
<1> HIDE DEF t
<1>2. /\ Head(s) = s[1] /\ Len(s) \in Nat /\ Len(s) > 0
      /\ DOMAIN s = 1..Len(s) /\ DOMAIN t = 1..Len(t)
  BY <1>1, EmptySeq, LenProperties
<1>3. 1 \in DOMAIN s /\ s[1] \in S
  BY <1>2, ElementOfSeq
<1>4. \A k \in DOMAIN t : k + 1 \in DOMAIN s /\ k + 1 # 1 /\ t[k] = s[k + 1]
  BY <1>1, <1>2
<1>5. ASSUME NEW k \in DOMAIN s, k # 1
      PROVE  k - 1 \in DOMAIN t /\ t[k - 1] = s[k]
  <2>1. k - 1 \in 1..Len(t) /\ (k - 1) + 1 = k
    BY <1>1, <1>2, <1>5
  <2> QED
    BY <1>1, <1>2, <2>1
<1> QED
  BY <1>1, <1>2, <1>3, <1>4, <1>5 DEF t

LEMMA ChangedProperties ==
  ASSUME NEW S, NEW s \in Seq(S), NEW i \in DOMAIN s, NEW e \in S
  PROVE  LET t == [s EXCEPT ![i] = e] IN
         /\ t \in Seq(S) /\ DOMAIN t = DOMAIN s /\ t[i] = e
         /\ \A k \in DOMAIN s : k # i => t[k] = s[k]
<1>1. DOMAIN s = 1..Len(s)
  BY LenProperties
<1> QED
  BY <1>1, ExceptSeq

-----------------------------------------------------------------------------
(* What is left of a list.                                                 *)

\* What stays of the first n entries of a list, by the equation that defines it:
\* there is such a function (of a shortest list without one the last entry could be
\* left out), so the one that is chosen satisfies it.
LEMMA OmitIsDefined ==
  ASSUME NEW list, Len(list) \in Nat, NEW gone
  PROVE  \E kept :
           /\ Omit(list, gone) = kept[Len(list)]
           /\ kept[0] = <<>>
           /\ \A n \in 1..Len(list) :
                kept[n] = IF n \in gone THEN kept[n - 1] ELSE Append(kept[n - 1], list[n])
<1> DEFINE Step(f, n) == IF n = 0 THEN <<>>
                         ELSE IF n \in gone THEN f[n - 1] ELSE Append(f[n - 1], list[n])
           Solves(f, m) == f = [n \in 0..m |-> Step(f, n)]
           Bad == {m \in 0..Len(list) : ~ \E f : Solves(f, m)}
<1>1. Bad = {}
  <2>1. SUFFICES ASSUME Bad # {} PROVE FALSE
    OBVIOUS
  <2>2. PICK m \in Bad : \A k \in Bad : m <= k
    <3> HIDE DEF Solves
    <3>1. Bad \subseteq Nat
      OBVIOUS
    <3> HIDE DEF Bad
    <3> QED
      BY <2>1, <3>1, LeastNatural
  <2>3. m # 0
    <3>1. Solves([n \in 0..0 |-> <<>>], 0)
      OBVIOUS
    <3> HIDE DEF Solves
    <3> QED
      BY <3>1
  <2>4. PICK f : Solves(f, m - 1)
    <3> HIDE DEF Solves
    <3>1. m - 1 \in 0..Len(list) /\ m - 1 \notin Bad
      BY <2>2, <2>3
    <3> QED
      BY <3>1
  <2> DEFINE g == [n \in 0..m |-> IF n = m THEN Step(f, m) ELSE f[n]]
  <2>5. Solves(g, m)
    <3>1. \A n \in 0..(m - 1) : f[n] = Step(f, n)
      BY <2>4
    <3>2. \A n \in 0..m : g[n] = Step(g, n)
      <4>1. ASSUME NEW n \in 0..m, n = m PROVE g[n] = Step(g, n)
        <5>1. g[m] = Step(f, m)
          OBVIOUS
        <5>2. m - 1 \in 0..m /\ m - 1 # m /\ g[m - 1] = f[m - 1]
          BY <2>3
        <5> HIDE DEF g
        <5> QED
          BY <4>1, <5>1, <5>2, <2>3
      <4>2. ASSUME NEW n \in 0..m, n # m PROVE g[n] = Step(g, n)
        <5>1. g[n] = f[n] /\ f[n] = Step(f, n)
          BY <3>1, <4>2
        <5>2. n # 0 => g[n - 1] = f[n - 1]
          BY <4>2
        <5> HIDE DEF g
        <5> QED
          BY <5>1, <5>2
      <4> QED
        BY <4>1, <4>2
    <3>3. g = [n \in 0..m |-> g[n]]
      OBVIOUS
    <3> HIDE DEF g
    <3>4. [n \in 0..m |-> g[n]] = [n \in 0..m |-> Step(g, n)]
      BY <3>2
    <3> QED
      BY <3>3, <3>4
  <2> HIDE DEF Solves
  <2> QED
    BY <2>2, <2>5
<1> DEFINE kept == CHOOSE f : Solves(f, Len(list))
<1>2. Solves(kept, Len(list))
  <2> HIDE DEF Solves
  <2>1. \E f : Solves(f, Len(list))
    BY <1>1
  <2> QED
    BY <2>1
<1>3. Omit(list, gone) = kept[Len(list)]
  BY DEF Omit
<1> HIDE DEF kept
<1>4. \A n \in 0..Len(list) : kept[n] = Step(kept, n)
  BY <1>2
<1> QED
  BY <1>3, <1>4

\* new holds the elements of list whose places are not among gone, in their order:
\* ix tells where each was.
Picks(ix, new, list, gone) ==
  /\ ix \in [1..Len(new) -> 1..Len(list)]
  /\ \A j, k \in 1..Len(new) : j < k => ix[j] < ix[k]
  /\ \A j \in 1..Len(new) : new[j] = list[ix[j]] /\ ix[j] \notin gone
  /\ \A i \in 1..Len(list) : i \notin gone => \E j \in 1..Len(new) : ix[j] = i

\* What is left is the rest, in its order: ix says where each was.
LEMMA OmitProperties ==
  ASSUME NEW S, NEW list \in Seq(S), NEW gone
  PROVE  /\ Omit(list, gone) \in Seq(S)
         /\ \E ix : Picks(ix, Omit(list, gone), list, gone)
<1> DEFINE n == Len(list)
<1>1. n \in Nat /\ DOMAIN list = 1..n
  BY LenProperties
<1>2. PICK kept :
           /\ Omit(list, gone) = kept[n]
           /\ kept[0] = <<>>
           /\ \A i \in 1..n :
                kept[i] = IF i \in gone THEN kept[i - 1] ELSE Append(kept[i - 1], list[i])
  BY <1>1, OmitIsDefined
<1> DEFINE Stays(m, ix) ==
             /\ ix \in [1..Len(kept[m]) -> 1..m]
             /\ \A j, k \in 1..Len(kept[m]) : j < k => ix[j] < ix[k]
             /\ \A j \in 1..Len(kept[m]) : kept[m][j] = list[ix[j]] /\ ix[j] \notin gone
             /\ \A i \in 1..m : i \notin gone => \E j \in 1..Len(kept[m]) : ix[j] = i
           Good(m) == kept[m] \in Seq(S) /\ \E ix : Stays(m, ix)
           Bad == {m \in 0..n : ~Good(m)}
<1> HIDE DEF n
<1>3. Good(0)
  <2>1. kept[0] \in Seq(S) /\ Len(kept[0]) = 0
    BY <1>2, EmptySeq
  <2>2. Stays(0, [j \in 1..0 |-> 0])
    BY <2>1
  <2> HIDE DEF Stays
  <2> QED
    BY <2>1, <2>2
<1>4. ASSUME NEW m \in 1..n, Good(m - 1) PROVE Good(m)
  <2>0. kept[m - 1] \in Seq(S) /\ m \in Nat \ {0} /\ m - 1 \in Nat /\ 1..m = 1..(m - 1) \cup {m}
    BY <1>1, <1>4
  <2>1. PICK ix : Stays(m - 1, ix)
    BY <1>4
  <2> DEFINE l == Len(kept[m - 1])
  <2>2. l \in Nat
    BY <2>0, LenProperties
  <2>3. list[m] \in S
    BY <1>1, ElementOfSeq DEF n
  <2>4. CASE m \in gone
    <3>1. kept[m] = kept[m - 1]
      BY <1>2, <2>4
    <3>2. Stays(m, ix)
      BY <2>0, <2>1, <2>2, <2>4, <3>1
    <3> QED
      BY <2>0, <3>1, <3>2
  <2>5. CASE m \notin gone
    <3>1. kept[m] = Append(kept[m - 1], list[m])
      BY <1>2, <2>5
    <3>2. /\ kept[m] \in Seq(S) /\ Len(kept[m]) = l + 1
          /\ \A j \in 1..l : kept[m][j] = kept[m - 1][j]
          /\ kept[m][l + 1] = list[m]
      BY <2>0, <2>3, <3>1, AppendProperties
    <3> DEFINE new == [j \in 1..(l + 1) |-> IF j = l + 1 THEN m ELSE ix[j]]
    <3> HIDE DEF l
    <3>3. /\ \A j \in 1..l : j \in 1..(l + 1) /\ j # l + 1 /\ new[j] = ix[j] /\ ix[j] \in 1..(m - 1)
          /\ l + 1 \in 1..(l + 1) /\ new[l + 1] = m
          /\ 1..(l + 1) = 1..l \cup {l + 1}
      <4>1. l \in Nat /\ ix \in [1..l -> 1..(m - 1)]
        BY <2>1, <2>2 DEF l
      <4>2. /\ \A j \in 1..l : j \in 1..(l + 1) /\ j # l + 1
            /\ l + 1 \in 1..(l + 1)
            /\ 1..(l + 1) = 1..l \cup {l + 1}
        BY <4>1
      <4> QED
        BY <4>1, <4>2
    <3>4. new \in [1..(l + 1) -> 1..m]
      BY <2>0, <3>3
    <3> HIDE DEF new
    <3>5. \A j, k \in 1..(l + 1) : j < k => new[j] < new[k]
      BY <2>0, <2>1, <2>2, <3>3 DEF l
    <3>6. \A j \in 1..(l + 1) : kept[m][j] = list[new[j]] /\ new[j] \notin gone
      <4>1. \A j \in 1..l : kept[m][j] = list[ix[j]] /\ ix[j] \notin gone
        BY <2>1, <3>2 DEF l
      <4>2. \A j \in 1..l : kept[m][j] = list[new[j]] /\ new[j] \notin gone
        BY <3>3, <4>1
      <4>3. kept[m][l + 1] = list[new[l + 1]] /\ new[l + 1] \notin gone
        BY <2>5, <3>2, <3>3
      <4> QED
        BY <3>3, <4>2, <4>3
    <3>7. \A i \in 1..m : i \notin gone => \E j \in 1..(l + 1) : new[j] = i
      BY <2>0, <2>1, <3>3 DEF l
    <3>8. Stays(m, new)
      BY <3>2, <3>4, <3>5, <3>6, <3>7
    <3> HIDE DEF Stays
    <3> QED
      BY <3>2, <3>8
  <2> QED
    BY <2>4, <2>5
<1>5. Bad = {}
  <2> HIDE DEF Good
  <2>1. SUFFICES ASSUME Bad # {} PROVE FALSE
    OBVIOUS
  <2>2. Bad \subseteq Nat
    BY <1>1
  <2>3. PICK m \in Bad : \A k \in Bad : m <= k
    <3> HIDE DEF Bad
    <3> QED
      BY <2>1, <2>2, LeastNatural
  <2>4. m # 0 /\ m \in 1..n /\ m - 1 \in 0..n
    BY <1>1, <1>3, <2>3
  <2>5. Good(m - 1)
    BY <2>3, <2>4
  <2> QED
    BY <1>4, <2>3, <2>4, <2>5
<1>6. Good(n)
  <2> HIDE DEF Good
  <2> QED
    BY <1>1, <1>5
<1> QED
  BY <1>2, <1>6 DEF n, Picks

\* t is what is left of s without the positions gone, in some order.
Part(t, s, gone) ==
  /\ Elements(t) = {s[i] : i \in DOMAIN s \ gone}
  /\ \A i, j \in DOMAIN t : \E k, l \in DOMAIN s \ gone : t[i] = s[k] /\ t[j] = s[l] /\ (k = l => i = j)

LEMMA IndexedIsPart ==
  ASSUME NEW S, NEW s \in Seq(S), NEW t \in Seq(S), NEW gone,
         NEW ix \in [1..Len(t) -> 1..Len(s)],
         \A j, k \in 1..Len(t) : j < k => ix[j] < ix[k],
         \A j \in 1..Len(t) : t[j] = s[ix[j]] /\ ix[j] \notin gone,
         \A i \in 1..Len(s) : i \notin gone => \E j \in 1..Len(t) : ix[j] = i
  PROVE  Part(t, s, gone)
<1>1. DOMAIN s = 1..Len(s) /\ DOMAIN t = 1..Len(t) /\ Len(s) \in Nat /\ Len(t) \in Nat
  BY LenProperties
<1>2. \A j \in DOMAIN t : ix[j] \in DOMAIN s \ gone /\ t[j] = s[ix[j]]
  BY <1>1
<1>3. \A j, k \in DOMAIN t : ix[j] = ix[k] => j = k
  BY <1>1
<1>4. Elements(t) = {s[i] : i \in DOMAIN s \ gone}
  <2>1. ASSUME NEW j \in DOMAIN t PROVE t[j] \in {s[i] : i \in DOMAIN s \ gone}
    BY <1>2
  <2>2. ASSUME NEW i \in DOMAIN s \ gone PROVE s[i] \in {t[j] : j \in DOMAIN t}
    <3>1. PICK j \in DOMAIN t : ix[j] = i
      BY <1>1
    <3> QED
      BY <1>2, <3>1
  <2>3. Elements(t) \subseteq {s[i] : i \in DOMAIN s \ gone}
    BY <2>1 DEF Elements
  <2>4. {s[i] : i \in DOMAIN s \ gone} \subseteq Elements(t)
    BY <2>2 DEF Elements
  <2> QED
    BY <2>3, <2>4
<1>5. ASSUME NEW i \in DOMAIN t, NEW j \in DOMAIN t
      PROVE  \E k, l \in DOMAIN s \ gone : t[i] = s[k] /\ t[j] = s[l] /\ (k = l => i = j)
  BY <1>2, <1>3
<1> QED
  BY <1>4, <1>5 DEF Part

LEMMA OmitIsPart ==
  ASSUME NEW S, NEW s \in Seq(S), NEW gone
  PROVE  Omit(s, gone) \in Seq(S) /\ Part(Omit(s, gone), s, gone)
<1> DEFINE t == Omit(s, gone)
<1>1. t \in Seq(S)
  BY OmitProperties
<1>2. PICK ix : Picks(ix, t, s, gone)
  BY OmitProperties
<1> HIDE DEF t
<1>3. Part(t, s, gone)
  BY <1>1, <1>2, IndexedIsPart DEF Picks
<1> QED
  BY <1>1, <1>3 DEF t

LEMMA RemoveAtIsPart ==
  ASSUME NEW S, NEW s \in Seq(S), NEW k \in DOMAIN s
  PROVE  RemoveAt(s, k) \in Seq(S) /\ Part(RemoveAt(s, k), s, {k})
<1> DEFINE t == RemoveAt(s, k)
           n == Len(s)
           ix == [j \in 1..(n - 1) |-> IF j < k THEN j ELSE j + 1]
<1>1. DOMAIN s = 1..n /\ n \in Nat /\ k \in 1..n
  BY LenProperties
<1>2. /\ t \in Seq(S) /\ Len(t) = n - 1
      /\ \A i \in 1..(n - 1) : t[i] = IF i < k THEN s[i] ELSE s[i + 1]
  BY <1>1, RemoveAtProperties
<1> HIDE DEF t
<1>3. /\ ix \in [1..(n - 1) -> 1..n]
      /\ \A j \in 1..(n - 1) : ix[j] # k /\ t[j] = s[ix[j]]
      /\ \A i, j \in 1..(n - 1) : i < j => ix[i] < ix[j]
  BY <1>1, <1>2
<1>4. ASSUME NEW i \in 1..n, i # k PROVE \E j \in 1..(n - 1) : ix[j] = i
  <2> DEFINE j == IF i < k THEN i ELSE i - 1
  <2>1. j \in 1..(n - 1) /\ ix[j] = i
    BY <1>1, <1>4
  <2> QED
    BY <2>1
<1> HIDE DEF ix
<1>5. Part(t, s, {k})
  <2>1. ix \in [1..Len(t) -> 1..Len(s)] /\ \A i, j \in 1..Len(t) : i < j => ix[i] < ix[j]
    BY <1>2, <1>3
  <2>2. \A j \in 1..Len(t) : t[j] = s[ix[j]] /\ ix[j] \notin {k}
    BY <1>2, <1>3
  <2>3. \A i \in 1..Len(s) : i \notin {k} => \E j \in 1..Len(t) : ix[j] = i
    BY <1>2, <1>4
  <2> HIDE DEF n
  <2> QED
    BY <1>2, <2>1, <2>2, <2>3, IndexedIsPart
<1> QED
  BY <1>2, <1>5 DEF t

LEMMA TailIsPart ==
  ASSUME NEW S, NEW s \in Seq(S), s # <<>>
  PROVE  Tail(s) \in Seq(S) /\ Part(Tail(s), s, {1})
<1> DEFINE t == Tail(s)
<1>1. /\ t \in Seq(S) /\ DOMAIN t \subseteq Int
      /\ \A k \in DOMAIN t : k + 1 \in DOMAIN s \ {1} /\ t[k] = s[k + 1]
      /\ \A k \in DOMAIN s : k # 1 => k - 1 \in DOMAIN t /\ t[k - 1] = s[k]
  <2>1. t \in Seq(S)
    BY PoppedProperties
  <2>2. DOMAIN t \subseteq Int
    <3> HIDE DEF t
    <3> QED
      BY <2>1, LenProperties
  <2> QED
    BY <2>1, <2>2, PoppedProperties
<1> HIDE DEF t
<1>2. Elements(t) = {s[i] : i \in DOMAIN s \ {1}}
  BY <1>1 DEF Elements
<1>3. ASSUME NEW i \in DOMAIN t, NEW j \in DOMAIN t
      PROVE  \E k, l \in DOMAIN s \ {1} : t[i] = s[k] /\ t[j] = s[l] /\ (k = l => i = j)
  <2>1. i + 1 = j + 1 => i = j
    BY <1>1
  <2> QED
    BY <1>1, <2>1
<1> QED
  BY <1>1, <1>2, <1>3 DEF t, Part

\* One element less of a list without duplicates.
LEMMA DistinctPart ==
  ASSUME NEW S, NEW s \in Seq(S), NEW t \in Seq(S), NEW k \in DOMAIN s, Distinct(s), Part(t, s, {k})
  PROVE  Distinct(t) /\ Elements(t) = Elements(s) \ {s[k]}
<1>1. Distinct(t)
  BY DEF Distinct, Part
<1>2. Elements(t) = {s[i] : i \in DOMAIN s \ {k}}
  BY DEF Part
<1>3. \A i \in DOMAIN s \ {k} : s[i] # s[k]
  BY DEF Distinct
<1>4. {s[i] : i \in DOMAIN s \ {k}} = {s[i] : i \in DOMAIN s} \ {s[k]}
  BY <1>3
<1> QED
  BY <1>1, <1>2, <1>4 DEF Elements

LEMMA RemoveFirstProperties ==
  ASSUME NEW S, NEW s \in Seq(S), NEW e \in Elements(s)
  PROVE  \E k \in DOMAIN s : s[k] = e /\ RemoveFirst(s, e) = RemoveAt(s, k)
<1> DEFINE I == {i \in 1..Len(s) : s[i] = e}
<1>1. DOMAIN s = 1..Len(s) /\ I \subseteq Nat /\ I # {}
  BY LenProperties DEF Elements
<1>2. Min(I) \in I
  BY <1>1, LeastElement
<1>3. RemoveFirst(s, e) = RemoveAt(s, Min(I))
  BY <1>1 DEF RemoveFirst, SelectInSeq
<1> QED
  BY <1>1, <1>2, <1>3

LEMMA PushedDistinct ==
  ASSUME NEW S, NEW s \in Seq(S), NEW e \in S, Distinct(s), e \notin Elements(s)
  PROVE  Distinct(<<e>> \o s) /\ Elements(<<e>> \o s) = Elements(s) \cup {e}
<1> DEFINE t == <<e>> \o s
<1>1. /\ 1 \in DOMAIN t /\ t[1] = e
      /\ \A k \in DOMAIN t : k # 1 => k - 1 \in DOMAIN s /\ t[k] = s[k - 1]
      /\ \A k \in DOMAIN s : k + 1 \in DOMAIN t /\ k + 1 # 1 /\ t[k + 1] = s[k]
      /\ DOMAIN t \subseteq Int
  <2>1. t \in Seq(S)
    BY PushedProperties
  <2>2. DOMAIN t \subseteq Int
    <3> HIDE DEF t
    <3> QED
      BY <2>1, LenProperties
  <2> QED
    BY <2>2, PushedProperties
<1> HIDE DEF t
<1>2. \A k \in DOMAIN s : s[k] # e
  BY DEF Elements
<1>3. Distinct(t)
  <2> SUFFICES ASSUME NEW i \in DOMAIN t, NEW j \in DOMAIN t, t[i] = t[j] PROVE i = j
    BY DEF Distinct
  <2>1. CASE i # 1 /\ j # 1
    <3>1. i - 1 = j - 1
      BY <1>1, <2>1 DEF Distinct
    <3> QED
      BY <1>1, <3>1
  <2> QED
    BY <1>1, <1>2, <2>1
<1>4. Elements(t) = Elements(s) \cup {e}
  BY <1>1 DEF Elements
<1> QED
  BY <1>3, <1>4 DEF t

-----------------------------------------------------------------------------
(* Lists of lists, one after the other.                                    *)

\* What the first n lists give, by the equation that defines it.
LEMMA FlattenIsDefined ==
  ASSUME NEW seqs, Len(seqs) \in Nat \ {0}
  PROVE  \E flat :
           /\ FlattenSeq(seqs) = flat[Len(seqs)]
           /\ flat[1] = seqs[1]
           /\ \A n \in 2..Len(seqs) : flat[n] = flat[n - 1] \o seqs[n]
<1> DEFINE Step(f, n) == IF n = 1 THEN seqs[n] ELSE f[n - 1] \o seqs[n]
           Solves(f, m) == f = [n \in 1..m |-> Step(f, n)]
           Bad == {m \in 1..Len(seqs) : ~ \E f : Solves(f, m)}
<1>1. Bad = {}
  <2>1. SUFFICES ASSUME Bad # {} PROVE FALSE
    OBVIOUS
  <2>2. PICK m \in Bad : \A k \in Bad : m <= k
    <3> HIDE DEF Solves
    <3>1. Bad \subseteq Nat
      OBVIOUS
    <3> HIDE DEF Bad
    <3> QED
      BY <2>1, <3>1, LeastNatural
  <2>3. m # 1
    <3>1. Solves([n \in 1..1 |-> seqs[n]], 1)
      OBVIOUS
    <3> HIDE DEF Solves
    <3> QED
      BY <3>1
  <2>4. PICK f : Solves(f, m - 1)
    <3> HIDE DEF Solves
    <3>1. m - 1 \in 1..Len(seqs) /\ m - 1 \notin Bad
      BY <2>2, <2>3
    <3> QED
      BY <3>1
  <2> DEFINE g == [n \in 1..m |-> IF n = m THEN Step(f, m) ELSE f[n]]
  <2>5. Solves(g, m)
    <3>1. \A n \in 1..(m - 1) : f[n] = Step(f, n)
      BY <2>4
    <3>2. \A n \in 1..m : g[n] = Step(g, n)
      <4>1. ASSUME NEW n \in 1..m, n = m PROVE g[n] = Step(g, n)
        <5>1. g[m] = Step(f, m)
          OBVIOUS
        <5>2. m - 1 \in 1..m /\ m - 1 # m /\ g[m - 1] = f[m - 1]
          BY <2>3
        <5> HIDE DEF g
        <5> QED
          BY <4>1, <5>1, <5>2, <2>3
      <4>2. ASSUME NEW n \in 1..m, n # m PROVE g[n] = Step(g, n)
        <5>1. g[n] = f[n] /\ f[n] = Step(f, n)
          BY <3>1, <4>2
        <5>2. n # 1 => g[n - 1] = f[n - 1]
          BY <4>2
        <5> HIDE DEF g
        <5> QED
          BY <5>1, <5>2
      <4> QED
        BY <4>1, <4>2
    <3>3. g = [n \in 1..m |-> g[n]]
      OBVIOUS
    <3> HIDE DEF g
    <3>4. [n \in 1..m |-> g[n]] = [n \in 1..m |-> Step(g, n)]
      BY <3>2
    <3> QED
      BY <3>3, <3>4
  <2> HIDE DEF Solves
  <2> QED
    BY <2>2, <2>5
<1> DEFINE flat == CHOOSE f : Solves(f, Len(seqs))
<1>2. Solves(flat, Len(seqs))
  <2> HIDE DEF Solves
  <2>1. Len(seqs) \in 1..Len(seqs) /\ Len(seqs) \notin Bad
    BY <1>1
  <2>2. \E f : Solves(f, Len(seqs))
    BY <2>1
  <2> QED
    BY <2>2
<1>3. FlattenSeq(seqs) = flat[Len(seqs)]
  BY DEF FlattenSeq
<1> HIDE DEF flat
<1>4. \A n \in 1..Len(seqs) : flat[n] = Step(flat, n)
  BY <1>2
<1>5. flat[1] = seqs[1]
  <2>1. 1 \in 1..Len(seqs)
    OBVIOUS
  <2> QED
    BY <1>4, <2>1
<1>6. ASSUME NEW n \in 2..Len(seqs) PROVE flat[n] = flat[n - 1] \o seqs[n]
  <2>1. n \in 1..Len(seqs) /\ n # 1
    OBVIOUS
  <2> QED
    BY <1>4, <2>1
<1> QED
  BY <1>3, <1>5, <1>6

\* A list more is put behind the others.
LEMMA FlattenProperties ==
  ASSUME NEW S, NEW seqs \in Seq(Seq(S))
  PROVE  /\ FlattenSeq(seqs) \in Seq(S)
         /\ seqs = <<>> => FlattenSeq(seqs) = <<>>
         /\ \A t \in Seq(S) : FlattenSeq(Append(seqs, t)) = FlattenSeq(seqs) \o t
<1> DEFINE n == Len(seqs)
<1>1. n \in Nat /\ DOMAIN seqs = 1..n /\ \A i \in 1..n : seqs[i] \in Seq(S)
  BY LenProperties, ElementOfSeq
<1>2. n = 0 => FlattenSeq(seqs) = <<>> /\ seqs = <<>>
  <2>1. n = 0 => seqs = <<>>
    BY EmptySeq
  <2> QED
    BY <2>1 DEF FlattenSeq
<1>3. seqs = <<>> => n = 0
  BY EmptySeq
<1>4. <<>> \in Seq(S)
  BY EmptySeq
<1> HIDE DEF n
<1>5. FlattenSeq(seqs) \in Seq(S)
  <2>1. CASE n = 0
    BY <1>2, <1>4, <2>1
  <2>2. CASE n # 0
    <3>1. PICK flat :
           /\ FlattenSeq(seqs) = flat[n]
           /\ flat[1] = seqs[1]
           /\ \A k \in 2..n : flat[k] = flat[k - 1] \o seqs[k]
      BY <1>1, <2>2, FlattenIsDefined DEF n
    <3> DEFINE Bad == {k \in 1..n : flat[k] \notin Seq(S)}
    <3>2. Bad = {}
      <4>1. SUFFICES ASSUME Bad # {} PROVE FALSE
        OBVIOUS
      <4>2. PICK k \in Bad : \A j \in Bad : k <= j
        <5>1. Bad \subseteq Nat
          BY <1>1
        <5> HIDE DEF Bad
        <5> QED
          BY <4>1, <5>1, LeastNatural
      <4>3. k \in 2..n /\ k - 1 \in 1..n
        BY <1>1, <3>1, <4>2
      <4>4. flat[k - 1] \in Seq(S) /\ seqs[k] \in Seq(S)
        BY <1>1, <4>2, <4>3
      <4>5. flat[k] \in Seq(S)
        BY <3>1, <4>3, <4>4, ConcatProperties
      <4> QED
        BY <4>2, <4>5
    <3>3. n \in 1..n
      BY <1>1, <2>2
    <3> QED
      BY <3>1, <3>2, <3>3
  <2> QED
    BY <2>1, <2>2
<1>6. ASSUME NEW t \in Seq(S)
      PROVE  FlattenSeq(Append(seqs, t)) = FlattenSeq(seqs) \o t
  <2> DEFINE more == Append(seqs, t)
  <2>1. Len(more) = n + 1 /\ (\A i \in 1..n : more[i] = seqs[i]) /\ more[n + 1] = t
    BY AppendProperties DEF n
  <2> HIDE DEF more
  <2>2. PICK flat :
           /\ FlattenSeq(more) = flat[n + 1]
           /\ flat[1] = more[1]
           /\ \A k \in 2..(n + 1) : flat[k] = flat[k - 1] \o more[k]
    <3>1. Len(more) \in Nat \ {0}
      BY <1>1, <2>1
    <3>2. \E flat :
           /\ FlattenSeq(more) = flat[Len(more)]
           /\ flat[1] = more[1]
           /\ \A k \in 2..Len(more) : flat[k] = flat[k - 1] \o more[k]
      BY <3>1, FlattenIsDefined
    <3> QED
      BY <2>1, <3>2
  <2>3. CASE n = 0
    <3>1. FlattenSeq(more) = t
      BY <2>1, <2>2, <2>3
    <3> QED
      BY <1>2, <2>3, <3>1, ConcatEmptySeq DEF more
  <2>4. CASE n # 0
    <3>1. PICK less :
           /\ FlattenSeq(seqs) = less[n]
           /\ less[1] = seqs[1]
           /\ \A k \in 2..n : less[k] = less[k - 1] \o seqs[k]
      BY <1>1, <2>4, FlattenIsDefined DEF n
    <3> DEFINE Bad == {k \in 1..n : flat[k] # less[k]}
    <3>2. Bad = {}
      <4>1. SUFFICES ASSUME Bad # {} PROVE FALSE
        OBVIOUS
      <4>2. PICK k \in Bad : \A j \in Bad : k <= j
        <5>1. Bad \subseteq Nat
          BY <1>1
        <5> HIDE DEF Bad
        <5> QED
          BY <4>1, <5>1, LeastNatural
      <4>3. k \in 1..n /\ k # 1
        <5>1. 1 \in 1..n
          BY <1>1, <2>4
        <5> QED
          BY <2>1, <2>2, <3>1, <4>2, <5>1
      <4>4. k \in 2..n /\ k \in 2..(n + 1) /\ k - 1 \in 1..n /\ ~(k <= k - 1)
        BY <1>1, <4>3
      <4>5. flat[k - 1] = less[k - 1]
        BY <4>2, <4>4
      <4>6. flat[k] = less[k]
        BY <2>1, <2>2, <3>1, <4>3, <4>4, <4>5
      <4> QED
        BY <4>2, <4>6
    <3>3. n \in 1..n /\ n + 1 \in 2..(n + 1) /\ (n + 1) - 1 = n
      BY <1>1, <2>4
    <3>4. flat[n] = less[n]
      BY <3>2, <3>3
    <3>5. FlattenSeq(more) = flat[n] \o t
      BY <2>1, <2>2, <3>3
    <3> QED
      BY <3>1, <3>4, <3>5 DEF more
  <2> QED
    BY <2>3, <2>4
<1> QED
  BY <1>2, <1>3, <1>5, <1>6

-----------------------------------------------------------------------------
(* Induction over lists, and lists made from others element by element.    *)

\* Induction over lists, from which what holds is a set: with a set for an operator
\* the lemma can be used.
LEMMA ByAppending ==
  ASSUME NEW S, NEW Good, <<>> \in Good,
         \A t \in Seq(S) : \A a \in S : t \in Good => Append(t, a) \in Good
  PROVE  \A t \in Seq(S) : t \in Good
<1> DEFINE Bad == {n \in Nat : \E t \in Seq(S) : Len(t) = n /\ t \notin Good}
<1>1. Bad = {}
  <2>1. SUFFICES ASSUME Bad # {} PROVE FALSE
    OBVIOUS
  <2>2. PICK n \in Bad : \A j \in Bad : n <= j
    <3>1. Bad \subseteq Nat
      OBVIOUS
    <3> HIDE DEF Bad
    <3> QED
      BY <2>1, <3>1, LeastNatural
  <2>3. PICK t \in Seq(S) : Len(t) = n /\ t \notin Good
    BY <2>2
  <2>4. t # <<>>
    BY <2>3
  <2>5. PICK r \in Seq(S), a \in S : t = Append(r, a)
    BY <2>4, SequenceEmptyOrAppend
  <2>6. Len(r) \in Nat /\ n = Len(r) + 1
    <3>1. Len(r) \in Nat
      BY LenProperties
    <3> QED
      BY <2>3, <2>5, <3>1, AppendProperties
  <2>7. Len(r) \notin Bad
    <3> HIDE DEF Bad
    <3> QED
      BY <2>2, <2>6
  <2>8. r \in Good
    BY <2>6, <2>7
  <2> QED
    BY <2>3, <2>5, <2>8
<1>2. ASSUME NEW t \in Seq(S) PROVE t \in Good
  <2>1. Len(t) \in Nat /\ Len(t) \notin Bad
    <3> HIDE DEF Bad
    <3> QED
      BY <1>1, LenProperties
  <2> QED
    BY <2>1
<1> QED
  BY <1>2

\* A function of each element of a list.
LEMMA MapMore ==
  ASSUME NEW S, NEW t \in Seq(S), NEW a \in S, NEW f
  PROVE  [i \in DOMAIN Append(t, a) |-> f[Append(t, a)[i]]] = Append([i \in DOMAIN t |-> f[t[i]]], f[a])
<1> DEFINE v == Append(t, a)
           k == [i \in DOMAIN t |-> f[t[i]]]
           n == Len(t)
<1>1. Len(v) = n + 1 /\ (\A i \in 1..n : v[i] = t[i]) /\ v[n + 1] = a /\ v \in Seq(S)
  BY AppendProperties
<1>2. n \in Nat /\ DOMAIN t = 1..n
  BY LenProperties
<1>3. DOMAIN v = 1..(n + 1)
  BY <1>1, LenProperties
<1> HIDE DEF v
<1>4. [i \in DOMAIN v |-> f[v[i]]] = [i \in 1..(n + 1) |-> IF i = n + 1 THEN f[a] ELSE f[t[i]]]
  BY <1>1, <1>2, <1>3
<1>5. Len(k) = n /\ k = [i \in 1..n |-> f[t[i]]]
  BY <1>2
<1>6. Append(k, f[a]) = [i \in 1..(n + 1) |-> IF i = n + 1 THEN f[a] ELSE f[t[i]]]
  <2> HIDE DEF n
  <2> QED
    BY <1>2, <1>5
<1> QED
  BY <1>4, <1>6 DEF v

LEMMA MapIsSeq ==
  ASSUME NEW S, NEW T, NEW t \in Seq(S), NEW f \in [S -> T]
  PROVE  /\ [i \in DOMAIN t |-> f[t[i]]] \in Seq(T)
         /\ Len([i \in DOMAIN t |-> f[t[i]]]) = Len(t)
         /\ t = <<>> => [i \in DOMAIN t |-> f[t[i]]] = <<>>
<1>1. Len(t) \in Nat /\ DOMAIN t = 1..Len(t) /\ \A i \in 1..Len(t) : t[i] \in S
  BY LenProperties, ElementOfSeq
<1>2. \A i \in 1..Len(t) : f[t[i]] \in T
  BY <1>1
<1> QED
  BY <1>1, <1>2
=============================================================================
