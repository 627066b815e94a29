---------------------------- MODULE Getopt_proofs ----------------------------
(***************************************************************************)
(* permute_args exchanges two blocks of words and keeps the order within   *)
(* each, whatever their lengths: the proof that the cycles its loop goes   *)
(* through, as many as the greatest common divisor of the two lengths,     *)
(* meet every position once.                                               *)
(***************************************************************************)
EXTENDS Getopt, TLAPS, FiniteSetTheorems, WellFoundedInduction

-----------------------------------------------------------------------------
(* Numbers *)

\* A set of natural numbers that is not empty has a least element.
LEMMA Least ==
  ASSUME NEW T, T \subseteq Nat, T # {}
  PROVE  \E n \in T : \A m \in T : n <= m
<1>1. \E n \in T : \A m \in T : ~(<<m, n>> \in OpToRel(<, Nat))
  BY NatLessThanWellFounded, WFMin
<1>2. PICK n \in T : \A m \in T : ~(<<m, n>> \in OpToRel(<, Nat))
  BY <1>1
<1>3. SUFFICES ASSUME NEW m \in T PROVE n <= m
  BY <1>2
<1>4. ~(m < n)
  BY <1>2, <1>3 DEF OpToRel
<1> QED BY <1>4

LEMMA DivMod ==
  ASSUME NEW a \in Int, NEW b \in Nat \ {0}
  PROVE  /\ a \div b \in Int /\ a % b \in 0 .. b - 1
         /\ a = b * (a \div b) + (a % b)
OBVIOUS

LEMMA Negative ==
  ASSUME NEW b \in Nat \ {0}, NEW q \in Int, q < 0
  PROVE  b * q <= -b
OBVIOUS

LEMMA Quotient ==
  ASSUME NEW a \in Nat, NEW b \in Nat \ {0}
  PROVE  a \div b \in Nat
<1>1. PICK q \in Int : q = a \div b
  BY DivMod
<1>2. PICK r \in 0 .. b - 1 : r = a % b
  BY DivMod
<1>3. a = b * q + r
  BY DivMod, <1>1, <1>2
<1>4. q >= 0
  BY <1>3, Negative
<1> QED BY <1>1, <1>4

LEMMA DivModUnique ==
  ASSUME NEW b \in Nat \ {0}, NEW q \in Int, NEW r \in 0 .. b - 1
  PROVE  (b * q + r) % b = r /\ (b * q + r) \div b = q
OBVIOUS

LEMMA Small ==
  ASSUME NEW g \in Nat \ {0}, NEW t \in Int, g * t < g, -g < g * t
  PROVE  t = 0
OBVIOUS

-----------------------------------------------------------------------------
(* gcd *)

\* The common divisors, and the greatest of them: what gcd computes.
Common(a, b) == {g \in 1 .. b : a % g = 0 /\ b % g = 0}
Greatest(p)  == CHOOSE g \in Common(p[1], p[2]) : \A d \in Common(p[1], p[2]) : d <= g

Pairs == Nat \X (Nat \ {0})

LEMMA Divides ==
  ASSUME NEW a \in Int, NEW g \in Nat \ {0}, a % g = 0
  PROVE  \E q \in Int : a = g * q
<1>1. a \div g \in Int /\ a = g * (a \div g) + (a % g)
  BY DivMod
<1>2. a = g * (a \div g)
  BY <1>1
<1> QED BY <1>1, <1>2

LEMMA Divided ==
  ASSUME NEW g \in Nat \ {0}, NEW q \in Int
  PROVE  (g * q) % g = 0
OBVIOUS

LEMMA CommonStep ==
  ASSUME NEW a \in Nat, NEW b \in Nat \ {0}, a % b # 0
  PROVE  Common(a, b) = Common(b, a % b)
<1> DEFINE q == a \div b
           r == a % b
<1>1. q \in Int /\ r \in 0 .. b - 1 /\ a = b * q + r
  BY DivMod
<1>2. r \in 1 .. b - 1
  BY <1>1
<1> HIDE DEF q, r
<1>3. ASSUME NEW g \in 1 .. b, a % g = 0, b % g = 0
      PROVE  g \in 1 .. r /\ r % g = 0
  <2>1. PICK s \in Int : a = g * s
    BY <1>3, Divides, g \in Nat \ {0}
  <2>2. PICK t \in Int : b = g * t
    BY <1>3, Divides, g \in Nat \ {0}
  <2>3. r = g * (s - t * q)
    BY <1>1, <2>1, <2>2
  <2>4. r % g = 0
    <3>1. s - t * q \in Int
      BY <1>1
    <3>2. g \in Nat \ {0}
      BY <1>3
    <3>3. (g * (s - t * q)) % g = 0
      BY <3>1, <3>2, Divided, Zenon
    <3> QED BY <3>3, <2>3
  <2>5. g <= r
    BY <2>3, <1>2, <1>1
  <2> QED BY <2>4, <2>5, <1>2
<1>4. ASSUME NEW g \in 1 .. r, b % g = 0, r % g = 0
      PROVE  g \in 1 .. b /\ a % g = 0
  <2>1. PICK s \in Int : r = g * s
    BY <1>4, <1>1, Divides, g \in Nat \ {0}
  <2>2. PICK t \in Int : b = g * t
    BY <1>4, <1>1, Divides, g \in Nat \ {0}
  <2>3. a = g * (t * q + s)
    BY <1>1, <2>1, <2>2
  <2>4. a % g = 0
    <3>1. t * q + s \in Int
      BY <1>1
    <3>2. g \in Nat \ {0}
      BY <1>1, <1>4
    <3>3. (g * (t * q + s)) % g = 0
      BY <3>1, <3>2, Divided, Zenon
    <3> QED BY <3>3, <2>3
  <2> QED BY <2>4, <1>1
<1>5. a % b = r
  BY DEF r
<1>6. \A g : g \in Common(a, b) <=> g \in Common(b, r)
  BY <1>3, <1>4, <1>1 DEF Common
<1> QED BY <1>5, <1>6

LEMMA CommonEnd ==
  ASSUME NEW a \in Nat, NEW b \in Nat \ {0}, a % b = 0
  PROVE  Greatest(<<a, b>>) = b
<1>1. b \in Common(a, b) /\ \A d \in Common(a, b) : d <= b /\ d \in Nat
  BY DEF Common
<1>2. \A g \in Common(a, b) : (\A d \in Common(a, b) : d <= g) => g = b
  BY <1>1
<1> QED BY <1>1, <1>2 DEF Greatest

\* The recursion of gcd has a solution.
LEMMA gcdEquation ==
  gcd = [p \in Nat \X (Nat \ {0}) |->
           IF p[1] % p[2] = 0 THEN p[2] ELSE gcd[<<p[2], p[1] % p[2]>>]]
<1> DEFINE f == [p \in Pairs |-> Greatest(p)]
<1>1. ASSUME NEW p \in Pairs
      PROVE  f[p] = IF p[1] % p[2] = 0 THEN p[2] ELSE f[<<p[2], p[1] % p[2]>>]
  <2>1. p = <<p[1], p[2]>> /\ p[1] \in Nat /\ p[2] \in Nat \ {0}
    BY DEF Pairs
  <2>2. CASE p[1] % p[2] = 0
    BY <2>1, <2>2, CommonEnd
  <2>3. CASE p[1] % p[2] # 0
    <3>1. <<p[2], p[1] % p[2]>> \in Pairs
      <4>1. p[1] % p[2] \in 0 .. p[2] - 1
        BY <2>1, DivMod
      <4> QED BY <4>1, <2>1, <2>3 DEF Pairs
    <3>2. Common(p[1], p[2]) = Common(p[2], p[1] % p[2])
      BY <2>1, <2>3, CommonStep
    <3>3. Greatest(p) = Greatest(<<p[2], p[1] % p[2]>>)
      BY <3>2 DEF Greatest
    <3> QED BY <3>1, <3>3, <2>3
  <2> QED BY <2>2, <2>3
<1>2. f = [p \in Nat \X (Nat \ {0}) |->
             IF p[1] % p[2] = 0 THEN p[2] ELSE f[<<p[2], p[1] % p[2]>>]]
  BY <1>1, Zenon DEF Pairs
<1> HIDE DEF f
<1> QED BY <1>2 DEF gcd

LEMMA gcdStep ==
  ASSUME NEW a \in Nat, NEW b \in Nat \ {0}
  PROVE  gcd[<<a, b>>] = IF a % b = 0 THEN b ELSE gcd[<<b, a % b>>]
<1> DEFINE e(p) == IF p[1] % p[2] = 0 THEN p[2] ELSE gcd[<<p[2], p[1] % p[2]>>]
<1>1. gcd = [p \in Pairs |-> e(p)]
  BY gcdEquation DEF Pairs
<1>2. <<a, b>> \in Pairs
  BY DEF Pairs
<1> HIDE DEF e, Pairs
<1>3. gcd[<<a, b>>] = e(<<a, b>>)
  BY <1>1, <1>2
<1> QED BY <1>3 DEF e

\* What is needed of the greatest common divisor: it divides both numbers, and
\* is a combination of them.
Divisor(g, a, b) ==
  /\ g \in Nat \ {0}
  /\ \E p \in Nat, q \in Nat : a = g * p /\ b = g * q
  /\ \E x \in Int, y \in Int : g = a * x + b * y

LEMMA DivisorStep ==
  ASSUME NEW a \in Nat, NEW b \in Nat \ {0}, NEW r \in Nat, NEW k \in Nat,
         a = b * k + r, NEW g, Divisor(g, b, r)
  PROVE  Divisor(g, a, b)
<1>1. g \in Nat \ {0}
  BY DEF Divisor
<1>2. PICK p \in Nat, q \in Nat : b = g * p /\ r = g * q
  BY DEF Divisor
<1>3. PICK x \in Int, y \in Int : g = b * x + r * y
  BY DEF Divisor
<1>4. a = g * (p * k + q) /\ p * k + q \in Nat
  BY <1>1, <1>2
<1>5. g = a * y + b * (x - k * y) /\ x - k * y \in Int
  BY <1>3, <1>1
<1>6. \E m \in Nat, n \in Nat : a = g * m /\ b = g * n
  BY <1>2, <1>4
<1>7. \E m \in Int, n \in Int : g = a * m + b * n
  BY <1>3, <1>5
<1> QED BY <1>1, <1>6, <1>7 DEF Divisor

LEMMA gcdDivisor ==
  ASSUME NEW a \in Nat, NEW b \in Nat \ {0}
  PROVE  Divisor(gcd[<<a, b>>], a, b)
<1> DEFINE Bad == {n \in Nat \ {0} : \E m \in Nat : ~Divisor(gcd[<<m, n>>], m, n)}
<1>1. SUFFICES ASSUME Bad # {} PROVE FALSE
  OBVIOUS
<1>2. PICK n \in Bad : \A m \in Bad : n <= m
  BY <1>1, Least
<1>3. PICK m \in Nat : ~Divisor(gcd[<<m, n>>], m, n)
  BY <1>2
<1>4. n \in Nat \ {0}
  BY <1>2
<1>a. \A k \in Nat \ {0} : k < n => \A j \in Nat : Divisor(gcd[<<j, k>>], j, k)
  BY <1>2, <1>4
<1> HIDE DEF Bad
<1>5. m \div n \in Int /\ m % n \in 0 .. n - 1 /\ m = n * (m \div n) + (m % n)
  BY <1>4, DivMod, m \in Int
<1>6. m \div n \in Nat
  BY <1>4, Quotient
<1>7. CASE m % n = 0
  <2>1. gcd[<<m, n>>] = n
    BY <1>7, <1>3, <1>4, gcdStep
  <2>2. m = n * (m \div n) /\ n = n * 1
    BY <1>5, <1>7, <1>4
  <2>3. n = m * 0 + n * 1
    BY <1>4, <1>3
  <2>4. \E p \in Nat, q \in Nat : m = n * p /\ n = n * q
    BY <2>2, <1>6
  <2>5. \E x \in Int, y \in Int : n = m * x + n * y
    BY <2>3
  <2>6. Divisor(n, m, n)
    BY <2>4, <2>5, <1>4 DEF Divisor
  <2> QED BY <2>1, <2>6, <1>3
<1>8. CASE m % n # 0
  <2>1. gcd[<<m, n>>] = gcd[<<n, m % n>>]
    BY <1>8, <1>3, <1>4, gcdStep
  <2>2. m % n \in Nat \ {0} /\ m % n < n
    BY <1>5, <1>8, <1>4
  <2>4. Divisor(gcd[<<n, m % n>>], n, m % n)
    BY <1>a, <2>2, <1>4
  <2>5. Divisor(gcd[<<m, n>>], m, n)
    BY <2>1, <2>4, <2>2, <1>3, <1>4, <1>5, <1>6, DivisorStep
  <2> QED BY <2>5, <1>3
<1> QED BY <1>7, <1>8

-----------------------------------------------------------------------------
(* The positions the swaps meet *)

\* Of two blocks of a and b words that make n, in cycles of len: the place, from
\* the first word on, that the m-th swap starts at.
Met(a, b, len, m) == (a + (m \div len) + (m % len) * b) % (a + b)

\* Where a word stands that stood at o, when the blocks have changed places.
Moved(a, b, o) == IF o >= a THEN o - a ELSE o + b

LEMMA MovedMod ==
  ASSUME NEW a \in Nat \ {0}, NEW b \in Nat \ {0}, NEW x \in Nat
  PROVE  Moved(a, b, x % (a + b)) = (x + b) % (a + b)
<1> DEFINE n == a + b
           q == x \div n
           r == x % n
<1>n. n = a + b /\ n \in Nat \ {0}
  OBVIOUS
<1>1. n \in Nat \ {0} /\ q \in Int /\ r \in 0 .. n - 1 /\ x = n * q + r
  BY <1>n, DivMod, x \in Int
<1> HIDE DEF n, q, r
<1>2. CASE r >= a
  <2>1. r - a \in 0 .. n - 1 /\ q + 1 \in Int /\ x + b = n * (q + 1) + (r - a)
    BY <1>1, <1>2, <1>n
  <2>2. (n * (q + 1) + (r - a)) % n = r - a
    BY <2>1, <1>1, DivModUnique, Zenon
  <2>3. (x + b) % n = r - a
    BY <2>1, <2>2
  <2> QED BY <2>3, <1>2, <1>n DEF Moved, r
<1>3. CASE r < a
  <2>1. r + b \in 0 .. n - 1 /\ x + b = n * q + (r + b)
    BY <1>1, <1>3, <1>n
  <2>2. (n * q + (r + b)) % n = r + b
    BY <2>1, <1>1, DivModUnique, Zenon
  <2>3. (x + b) % n = r + b
    BY <2>1, <2>2
  <2>4. ~(r >= a)
    BY <1>3, <1>1
  <2> QED BY <2>3, <2>4, <1>n DEF Moved, r
<1> QED BY <1>1, <1>2, <1>3

LEMMA ModEqual ==
  ASSUME NEW n \in Nat \ {0}, NEW x \in Int, NEW y \in Int, x % n = y % n
  PROVE  \E k \in Int : x - y = n * k
<1>1. x \div n \in Int /\ x % n \in Int /\ x = n * (x \div n) + (x % n)
  BY DivMod
<1>2. y \div n \in Int /\ y = n * (y \div n) + (y % n)
  BY DivMod
<1>3. x - y = n * ((x \div n) - (y \div n))
  BY <1>1, <1>2
<1>4. (x \div n) - (y \div n) \in Int
  BY <1>1, <1>2
<1> QED BY <1>3, <1>4

LEMMA ModAdd ==
  ASSUME NEW n \in Nat \ {0}, NEW x \in Int, NEW k \in Int
  PROVE  (x + n * k) % n = x % n
<1>1. x \div n \in Int /\ x % n \in 0 .. n - 1 /\ x = n * (x \div n) + (x % n)
  BY DivMod
<1>2. x + n * k = n * ((x \div n) + k) + (x % n) /\ (x \div n) + k \in Int
  BY <1>1
<1>3. (n * ((x \div n) + k) + (x % n)) % n = x % n
  BY <1>1, <1>2, DivModUnique, Zenon
<1> QED BY <1>2, <1>3

\* The places met in one cycle: each is where the word at the one before goes,
\* and the cycle closes.
Cycles(a, b, g, len) ==
  /\ g \in Nat \ {0} /\ len \in Nat \ {0}
  /\ g * len = a + b
  /\ g <= b

LEMMA CyclesOf ==
  ASSUME NEW a \in Nat \ {0}, NEW b \in Nat \ {0}, NEW g, Divisor(g, a, b)
  PROVE  Cycles(a, b, g, (a + b) \div g)
<1>1. g \in Nat \ {0}
  BY DEF Divisor
<1>2. PICK p \in Nat, q \in Nat : a = g * p /\ b = g * q
  BY DEF Divisor
<1>3. p # 0 /\ q # 0
  BY <1>1, <1>2
<1>4. a + b = g * (p + q) + 0 /\ p + q \in Int /\ 0 \in 0 .. g - 1
  BY <1>1, <1>2
<1>5. (g * (p + q) + 0) \div g = p + q
  BY <1>1, <1>4, DivModUnique, Zenon
<1>6. (a + b) \div g = p + q
  BY <1>4, <1>5
<1>7. g <= g * q
  BY <1>1, <1>3
<1>8. g * (p + q) = a + b /\ g <= b /\ p + q \in Nat \ {0}
  BY <1>4, <1>2, <1>7, <1>3, <1>1
<1> QED BY <1>1, <1>6, <1>8 DEF Cycles

\* Number m as a cycle and a place in it.
LEMMA Place ==
  ASSUME NEW a \in Nat \ {0}, NEW b \in Nat \ {0}, NEW g, NEW len,
         Cycles(a, b, g, len), NEW m \in 0 .. a + b - 1
  PROVE  /\ m \div len \in 0 .. g - 1 /\ m % len \in 0 .. len - 1
         /\ m = len * (m \div len) + (m % len)
<1>1. g \in Nat \ {0} /\ len \in Nat \ {0} /\ g * len = a + b
  BY DEF Cycles
<1>2. PICK i \in Nat : i = m \div len
  BY <1>1, Quotient, m \in Nat
<1>3. PICK j \in 0 .. len - 1 : j = m % len
  BY <1>1, DivMod, m \in Int
<1>4. m = len * i + j
  BY <1>1, <1>2, <1>3, DivMod, m \in Int
<1>5. ASSUME i >= g PROVE FALSE
  <2>1. len * i >= len * g
    BY <1>5, <1>1
  <2> QED BY <2>1, <1>4, <1>1
<1>6. i <= g - 1
  BY <1>5, <1>1
<1> QED BY <1>2, <1>3, <1>4, <1>6

\* No place is met twice.
LEMMA MetOnce ==
  ASSUME NEW a \in Nat \ {0}, NEW b \in Nat \ {0}, NEW g, NEW len,
         Divisor(g, a, b), Cycles(a, b, g, len),
         NEW m \in 0 .. a + b - 1, NEW n \in 0 .. a + b - 1,
         Met(a, b, len, m) = Met(a, b, len, n)
  PROVE  m = n
<1> DEFINE N == a + b
<1>1. g \in Nat \ {0} /\ len \in Nat \ {0} /\ g * len = N
  BY DEF Cycles
<1>2. PICK i \in 0 .. g - 1, j \in 0 .. len - 1 :
        i = m \div len /\ j = m % len /\ m = len * i + j
  BY Place
<1>3. PICK h \in 0 .. g - 1, k \in 0 .. len - 1 :
        h = n \div len /\ k = n % len /\ n = len * h + k
  BY Place
<1>4. (a + i + j * b) % N = (a + h + k * b) % N
  BY <1>2, <1>3 DEF Met
<1>5. N \in Nat \ {0} /\ a + i + j * b \in Int /\ a + h + k * b \in Int
  OBVIOUS
<1>6. PICK t \in Int : (a + i + j * b) - (a + h + k * b) = N * t
  BY <1>4, <1>5, ModEqual
<1>7. PICK p \in Nat, q \in Nat : a = g * p /\ b = g * q
  BY DEF Divisor
<1>8. i = h
  <2>1. i - h = g * (len * t - (j - k) * q)
    BY <1>6, <1>7, <1>1
  <2>2. PICK s \in Int : s = len * t - (j - k) * q
    BY <1>1
  <2>3. g * s < g /\ -g < g * s
    BY <2>1, <2>2, <1>1
  <2>4. s = 0
    BY <2>3, <1>1, Small
  <2> QED BY <2>1, <2>2, <2>4, <1>1
<1>9. j = k
  <2>1. PICK x \in Int, y \in Int : g = a * x + b * y
    BY DEF Divisor
  <2>2. PICK d \in Int : d = j - k
    BY <1>1
  <2>3. d * b = N * t
    BY <1>6, <1>8, <2>2
  <2>4. d * g = N * (d * x + t * (y - x))
    BY <2>1, <2>3, <1>1
  <2>5. PICK s \in Int : s = d * x + t * (y - x)
    BY <2>1
  <2>6. g * d = g * (len * s)
    BY <2>4, <2>5, <1>1
  <2>7. d = len * s
    BY <2>6, <1>1
  <2>8. s = 0
    BY <2>7, <2>2, <1>1, Small
  <2> QED BY <2>7, <2>8, <2>2, <1>1
<1> QED BY <1>2, <1>3, <1>8, <1>9

LEMMA NextPlace ==
  ASSUME NEW len \in Nat \ {0}, NEW m \in Nat
  PROVE  /\ (m % len) + 1 < len => /\ (m + 1) \div len = m \div len
                                   /\ (m + 1) % len = (m % len) + 1
         /\ (m % len) + 1 = len => /\ (m + 1) \div len = (m \div len) + 1
                                   /\ (m + 1) % len = 0
<1>1. PICK i \in Int : i = m \div len
  BY DivMod, m \in Int
<1>2. PICK j \in 0 .. len - 1 : j = m % len
  BY DivMod, m \in Int
<1>3. m = len * i + j
  BY <1>1, <1>2, DivMod, m \in Int
<1>4. ASSUME j + 1 < len
      PROVE  (m + 1) \div len = i /\ (m + 1) % len = j + 1
  <2>1. j + 1 \in 0 .. len - 1 /\ m + 1 = len * i + (j + 1)
    BY <1>3, <1>4
  <2>2. (len * i + (j + 1)) % len = j + 1 /\ (len * i + (j + 1)) \div len = i
    BY <2>1, DivModUnique, Zenon
  <2> QED BY <2>1, <2>2
<1>5. ASSUME j + 1 = len
      PROVE  (m + 1) \div len = i + 1 /\ (m + 1) % len = 0
  <2>1. 0 \in 0 .. len - 1 /\ i + 1 \in Int /\ m + 1 = len * (i + 1) + 0
    BY <1>3, <1>5
  <2>2. (len * (i + 1) + 0) % len = 0 /\ (len * (i + 1) + 0) \div len = i + 1
    BY <2>1, DivModUnique, Zenon
  <2> QED BY <2>1, <2>2
<1> QED BY <1>1, <1>2, <1>4, <1>5

LEMMA MetRange ==
  ASSUME NEW a \in Nat \ {0}, NEW b \in Nat \ {0}, NEW g, NEW len,
         Cycles(a, b, g, len), NEW m \in 0 .. a + b - 1
  PROVE  Met(a, b, len, m) \in 0 .. a + b - 1
<1>1. PICK i \in 0 .. g - 1, j \in 0 .. len - 1 : i = m \div len /\ j = m % len
  BY Place
<1>2. g \in Nat /\ len \in Nat
  BY DEF Cycles
<1>3. a + i + j * b \in Int /\ a + b \in Nat \ {0}
  BY <1>2
<1>4. (a + i + j * b) % (a + b) \in 0 .. (a + b) - 1
  BY <1>3, DivMod, Zenon
<1> QED BY <1>1, <1>4 DEF Met

\* The first place of a cycle.
LEMMA MetFirst ==
  ASSUME NEW a \in Nat \ {0}, NEW b \in Nat \ {0}, NEW g, NEW len,
         Cycles(a, b, g, len), NEW m \in 0 .. a + b - 1, m % len = 0
  PROVE  Met(a, b, len, m) = a + (m \div len)
<1>1. PICK i \in 0 .. g - 1 : i = m \div len
  BY Place
<1>2. g \in Nat /\ g <= b
  BY DEF Cycles
<1>3. a + b \in Nat \ {0} /\ a + i \in 0 .. (a + b) - 1 /\ 0 \in Int
  BY <1>2
<1>4. ((a + b) * 0 + (a + i)) % (a + b) = a + i
  BY <1>3, DivModUnique, Zenon
<1>5. a + i + 0 * b = (a + b) * 0 + (a + i)
  BY <1>2
<1>6. Met(a, b, len, m) = (a + i + 0 * b) % (a + b)
  BY <1>1 DEF Met
<1> QED BY <1>1, <1>4, <1>5, <1>6

\* From one place to the next of its cycle, or back to the first.
LEMMA MetNext ==
  ASSUME NEW a \in Nat \ {0}, NEW b \in Nat \ {0}, NEW g, NEW len,
         Divisor(g, a, b), Cycles(a, b, g, len), NEW m \in 0 .. a + b - 1
  PROVE  /\ (m % len) + 1 < len =>
              Moved(a, b, Met(a, b, len, m)) = Met(a, b, len, m + 1)
         /\ (m % len) + 1 = len =>
              Moved(a, b, Met(a, b, len, m)) = a + (m \div len)
<1>1. PICK i \in 0 .. g - 1, j \in 0 .. len - 1 : i = m \div len /\ j = m % len
  BY Place
<1>2. g \in Nat \ {0} /\ len \in Nat \ {0} /\ g * len = a + b /\ g <= b
  BY DEF Cycles
<1>3. a + i + j * b \in Nat
  BY <1>2
<1>4. Moved(a, b, (a + i + j * b) % (a + b)) = ((a + i + j * b) + b) % (a + b)
  BY <1>3, MovedMod, Zenon
<1>5. Met(a, b, len, m) = (a + i + j * b) % (a + b)
  BY <1>1 DEF Met
<1>6. ASSUME j + 1 < len
      PROVE  Moved(a, b, Met(a, b, len, m)) = Met(a, b, len, m + 1)
  <2>1. (m + 1) \div len = i /\ (m + 1) % len = j + 1
    BY <1>6, <1>1, <1>2, NextPlace, m \in Nat
  <2>2. Met(a, b, len, m + 1) = (a + i + (j + 1) * b) % (a + b)
    BY <2>1 DEF Met
  <2>3. (a + i + j * b) + b = a + i + (j + 1) * b
    BY <1>2
  <2> QED BY <2>2, <2>3, <1>4, <1>5
<1>7. ASSUME j + 1 = len
      PROVE  Moved(a, b, Met(a, b, len, m)) = a + i
  <2>1. PICK q \in Nat : b = g * q
    BY DEF Divisor
  <2>2. (a + i + j * b) + b = (a + i) + (a + b) * q
    <3>1. len * b = (g * len) * q
      BY <2>1, <1>2
    <3>2. (a + i + j * b) + b = (a + i) + (j + 1) * b
      BY <1>2
    <3>3. (a + i + j * b) + b = (a + i) + len * b
      BY <3>2, <1>7
    <3> QED BY <3>1, <3>3, <1>2
  <2>3. /\ a + b \in Nat \ {0} /\ a + i \in Int /\ a + i \in 0 .. (a + b) - 1
        /\ q \in Int /\ 0 \in Int
    BY <1>2
  <2>4. ((a + i) + (a + b) * q) % (a + b) = (a + i) % (a + b)
    BY <2>3, ModAdd, Zenon
  <2>5. ((a + b) * 0 + (a + i)) % (a + b) = a + i
    BY <2>3, DivModUnique, Zenon
  <2>6. (a + b) * 0 + (a + i) = a + i
    BY <2>3
  <2> QED BY <2>2, <2>4, <2>5, <2>6, <1>4, <1>5
<1> QED BY <1>1, <1>6, <1>7

\* Every place is met.
LEMMA MetAll ==
  ASSUME NEW a \in Nat \ {0}, NEW b \in Nat \ {0}, NEW g, NEW len,
         Divisor(g, a, b), Cycles(a, b, g, len), NEW o \in 0 .. a + b - 1
  PROVE  \E m \in 0 .. a + b - 1 : Met(a, b, len, m) = o
<1> DEFINE S == 0 .. a + b - 1
           f == [m \in S |-> Met(a, b, len, m)]
<1>1. f \in [S -> S]
  BY MetRange
<1>2. \A m \in S, n \in S : f[m] = f[n] => m = n
  BY MetOnce
<1>3. f \in Injection(S, S)
  BY <1>1, <1>2 DEF Injection, IsInjective
<1>4. IsFiniteSet(S)
  BY FS_Interval, 0 \in Int, a + b - 1 \in Int
<1>5. f \in Surjection(S, S)
  BY <1>3, <1>4, FS_Injection
<1>6. \E m \in S : f[m] = o
  BY <1>5 DEF Surjection
<1> QED BY <1>6

-----------------------------------------------------------------------------
(* The same places as positions in the vector *)

\* Where the m-th swap starts, and where the cycle it belongs to starts.
Spot(from, mid, end, m) ==
  from + Met(mid - from, end - mid, cyclelen(from, mid, end), m)
First(from, mid, end, m) == mid + (m \div cyclelen(from, mid, end))

Blocks(from, mid, end) ==
  from \in Nat /\ mid \in Nat /\ end \in Nat /\ from < mid /\ mid < end

LEMMA BlocksCycles ==
  ASSUME NEW from, NEW mid, NEW end, Blocks(from, mid, end)
  PROVE  /\ mid - from \in Nat \ {0} /\ end - mid \in Nat \ {0}
         /\ (mid - from) + (end - mid) = end - from
         /\ Divisor(gcd[<<mid - from, end - mid>>], mid - from, end - mid)
         /\ Cycles(mid - from, end - mid, gcd[<<mid - from, end - mid>>],
                   cyclelen(from, mid, end))
<1>1. /\ mid - from \in Nat \ {0} /\ end - mid \in Nat \ {0}
      /\ (mid - from) + (end - mid) = end - from
  BY DEF Blocks
<1>2. Divisor(gcd[<<mid - from, end - mid>>], mid - from, end - mid)
  <2>1. mid - from \in Nat
    BY <1>1
  <2> QED BY <2>1, <1>1, gcdDivisor, Zenon
<1>3. Cycles(mid - from, end - mid, gcd[<<mid - from, end - mid>>],
             ((mid - from) + (end - mid)) \div gcd[<<mid - from, end - mid>>])
  BY <1>1, <1>2, CyclesOf, Zenon
<1> QED BY <1>1, <1>2, <1>3 DEF cyclelen

LEMMA AcrossMoved ==
  ASSUME NEW from, NEW mid, NEW end, Blocks(from, mid, end), NEW o \in Int
  PROVE  Across(from, mid, end, from + o) = from + Moved(mid - from, end - mid, o)
BY DEF Across, Moved, Blocks

LEMMA AcrossOnce ==
  ASSUME NEW from, NEW mid, NEW end, Blocks(from, mid, end),
         NEW o \in from .. end - 1, NEW q \in from .. end - 1,
         Across(from, mid, end, o) = Across(from, mid, end, q)
  PROVE  o = q
BY DEF Across, Blocks

LEMMA Spots ==
  ASSUME NEW from, NEW mid, NEW end, Blocks(from, mid, end),
         NEW m \in 0 .. (end - from) - 1
  PROVE  /\ Spot(from, mid, end, m) \in from .. end - 1
         /\ First(from, mid, end, m) \in mid .. end - 1
         /\ m % cyclelen(from, mid, end) = 0 =>
              Spot(from, mid, end, m) = First(from, mid, end, m)
<1> DEFINE a == mid - from
           b == end - mid
           g == gcd[<<mid - from, end - mid>>]
           len == cyclelen(from, mid, end)
<1>1. /\ a \in Nat \ {0} /\ b \in Nat \ {0} /\ a + b = end - from
      /\ Divisor(g, a, b) /\ Cycles(a, b, g, len)
  BY BlocksCycles
<1>2. m \in 0 .. a + b - 1 /\ from \in Nat /\ mid = from + a /\ end = mid + b
  BY <1>1 DEF Blocks
<1> HIDE DEF a, b, g, len
<1>3. Met(a, b, len, m) \in 0 .. a + b - 1
  BY <1>1, <1>2, MetRange
<1>4. PICK i \in 0 .. g - 1 : i = m \div len
  BY <1>1, <1>2, Place
<1>5. g \in Nat /\ g <= b
  BY <1>1 DEF Cycles
<1>6. m % len = 0 => Met(a, b, len, m) = a + i
  BY <1>1, <1>2, <1>4, MetFirst
<1>7. Spot(from, mid, end, m) = from + Met(a, b, len, m)
  BY DEF Spot, a, b, len
<1>8. First(from, mid, end, m) = mid + i
  BY <1>4 DEF First, len
<1>9. from + Met(a, b, len, m) \in from .. end - 1
  BY <1>1, <1>2, <1>3
<1>10. mid + i \in mid .. end - 1
  BY <1>1, <1>2, <1>5
<1>11. m % len = 0 => from + Met(a, b, len, m) = mid + i
  BY <1>1, <1>2, <1>6, <1>5
<1> QED BY <1>7, <1>8, <1>9, <1>10, <1>11 DEF len

LEMMA SpotOnce ==
  ASSUME NEW from, NEW mid, NEW end, Blocks(from, mid, end),
         NEW m \in 0 .. (end - from) - 1, NEW n \in 0 .. (end - from) - 1,
         Spot(from, mid, end, m) = Spot(from, mid, end, n)
  PROVE  m = n
<1> DEFINE a == mid - from
           b == end - mid
           g == gcd[<<mid - from, end - mid>>]
           len == cyclelen(from, mid, end)
<1>1. /\ a \in Nat \ {0} /\ b \in Nat \ {0} /\ a + b = end - from
      /\ Divisor(g, a, b) /\ Cycles(a, b, g, len)
  BY BlocksCycles
<1>2. m \in 0 .. a + b - 1 /\ n \in 0 .. a + b - 1 /\ from \in Nat
  BY <1>1 DEF Blocks
<1>3. from + Met(a, b, len, m) = from + Met(a, b, len, n)
  BY DEF Spot
<1> HIDE DEF a, b, g, len
<1>4. Met(a, b, len, m) \in Int /\ Met(a, b, len, n) \in Int
  BY <1>1, <1>2, MetRange
<1>5. Met(a, b, len, m) = Met(a, b, len, n)
  <2>1. PICK x \in Int : x = Met(a, b, len, m)
    BY <1>4
  <2>2. PICK y \in Int : y = Met(a, b, len, n)
    BY <1>4
  <2>3. from + x = from + y
    BY <1>3, <2>1, <2>2
  <2>4. x = y
    BY <2>3, <1>2
  <2> QED BY <2>1, <2>2, <2>4
<1>6. Divisor(g, a, b) /\ Cycles(a, b, g, len) /\ a \in Nat \ {0} /\ b \in Nat \ {0}
  BY <1>1
<1>7. m \in 0 .. a + b - 1 /\ n \in 0 .. a + b - 1
  BY <1>2
<1> QED BY <1>6, <1>7, <1>5, MetOnce, ZenonT(30)

LEMMA SpotAll ==
  ASSUME NEW from, NEW mid, NEW end, Blocks(from, mid, end),
         NEW o \in from .. end - 1
  PROVE  \E m \in 0 .. (end - from) - 1 : Spot(from, mid, end, m) = o
<1> DEFINE a == mid - from
           b == end - mid
           g == gcd[<<mid - from, end - mid>>]
           len == cyclelen(from, mid, end)
<1>1. /\ a \in Nat \ {0} /\ b \in Nat \ {0} /\ a + b = end - from
      /\ Divisor(g, a, b) /\ Cycles(a, b, g, len)
  BY BlocksCycles
<1>2. o - from \in 0 .. a + b - 1 /\ from + (o - from) = o
  BY <1>1 DEF Blocks
<1>4. \A m : Spot(from, mid, end, m) = from + Met(a, b, len, m)
  BY DEF Spot
<1> HIDE DEF a, b, g, len
<1>3. \E m \in 0 .. a + b - 1 : Met(a, b, len, m) = o - from
  BY <1>1, <1>2, MetAll
<1> QED BY <1>1, <1>2, <1>3, <1>4

LEMMA SpotNext ==
  ASSUME NEW from, NEW mid, NEW end, Blocks(from, mid, end),
         NEW m \in 0 .. (end - from) - 1
  PROVE  LET len  == cyclelen(from, mid, end)
             next == Across(from, mid, end, Spot(from, mid, end, m))
         IN  /\ (m % len) + 1 < len => /\ next = Spot(from, mid, end, m + 1)
                                       /\ m + 1 \in 0 .. (end - from) - 1
             /\ (m % len) + 1 = len => next = First(from, mid, end, m)
<1> DEFINE a == mid - from
           b == end - mid
           g == gcd[<<mid - from, end - mid>>]
           len == cyclelen(from, mid, end)
<1>1. /\ a \in Nat \ {0} /\ b \in Nat \ {0} /\ a + b = end - from
      /\ Divisor(g, a, b) /\ Cycles(a, b, g, len)
  BY BlocksCycles
<1>2. m \in 0 .. a + b - 1 /\ from \in Nat /\ mid = from + a
  BY <1>1 DEF Blocks
<1>3. \A x : Spot(from, mid, end, x) = from + Met(a, b, len, x)
  BY DEF Spot
<1>4. First(from, mid, end, m) = mid + (m \div len)
  BY DEF First
<1>5. \A o \in Int : Across(from, mid, end, from + o) = from + Moved(a, b, o)
  BY AcrossMoved
<1> HIDE DEF a, b, g, len
<1>6. Met(a, b, len, m) \in Int
  BY <1>1, <1>2, MetRange
<1>7. Across(from, mid, end, Spot(from, mid, end, m)) = from + Moved(a, b, Met(a, b, len, m))
  BY <1>3, <1>5, <1>6, Zenon
<1>8. /\ (m % len) + 1 < len => Moved(a, b, Met(a, b, len, m)) = Met(a, b, len, m + 1)
      /\ (m % len) + 1 = len => Moved(a, b, Met(a, b, len, m)) = a + (m \div len)
  BY <1>1, <1>2, MetNext
<1>9. m \div len \in Int
  BY <1>1, <1>2, Place
<1>10. (m % len) + 1 = len => from + (a + (m \div len)) = mid + (m \div len)
  BY <1>2, <1>1, <1>9
<1>11. (m % len) + 1 < len => m + 1 \in 0 .. (end - from) - 1
  <2>1. PICK i \in 0 .. g - 1, j \in 0 .. len - 1 :
          i = m \div len /\ j = m % len /\ m = len * i + j
    BY <1>1, <1>2, Place
  <2>2. g \in Nat \ {0} /\ len \in Nat \ {0} /\ g * len = a + b
    BY <1>1 DEF Cycles
  <2>3. ASSUME j + 1 < len PROVE m + 1 < a + b
    <3>1. len * i <= len * (g - 1)
      BY <2>2
    <3>2. len * (g - 1) = (a + b) - len
      BY <2>2
    <3> QED BY <3>1, <3>2, <2>1, <2>2, <2>3, <1>1
  <2> QED BY <2>1, <2>3, <1>1, <1>2
<1> QED BY <1>3, <1>4, <1>7, <1>8, <1>10, <1>11, Zenon DEF len

-----------------------------------------------------------------------------
(* Iteration *)

\* F takes a state of S to the next, in each of N rounds; f is what comes out.
Rounds(F, N, S) == \A n \in 0 .. N - 1, s \in S : F[<<n, s>>] \in S
Runs(f, F, N, S, s0) ==
  /\ f \in [0 .. N -> S] /\ f[0] = s0
  /\ \A k \in 1 .. N : f[k] = F[<<k - 1, f[k - 1]>>]

\* One round after the other: a recursion over 0 .. N has a solution.
LEMMA Iterate ==
  ASSUME NEW S, NEW s0 \in S, NEW N \in Nat, NEW F, Rounds(F, N, S)
  PROVE  \E f : Runs(f, F, N, S, s0)
<1>r. \A n \in 0 .. N - 1, s \in S : F[<<n, s>>] \in S
  BY DEF Rounds
<1> DEFINE Good(n, f) == /\ f \in [0 .. n -> S] /\ f[0] = s0
                         /\ \A k \in 1 .. n : f[k] = F[<<k - 1, f[k - 1]>>]
           Bad == {n \in 0 .. N : ~ \E f : Good(n, f)}
<1>1. ASSUME Bad # {} PROVE FALSE
  <2>a. Bad \subseteq Nat
    OBVIOUS
  <2>b. \E n \in Bad : \A m \in Bad : n <= m
    <3> HIDE DEF Bad
    <3> QED BY <1>1, <2>a, Least
  <2>1. PICK n \in Bad : \A m \in Bad : n <= m
    BY <2>b
  <2>2. n \in 0 .. N /\ ~ \E f : Good(n, f)
    BY <2>1
  <2>3. \A m \in 0 .. N : m < n => \E f : Good(m, f)
    BY <2>1
  <2> HIDE DEF Bad
  <2>4. n # 0
    <3>1. SUFFICES ASSUME n = 0 PROVE FALSE
      OBVIOUS
    <3>2. Good(0, [k \in 0 .. 0 |-> s0])
      OBVIOUS
    <3> QED BY <3>1, <3>2, <2>2
  <2>5. n - 1 \in 0 .. N /\ n - 1 < n /\ n - 1 \in 0 .. N - 1
    BY <2>2, <2>4
  <2>6. PICK f : Good(n - 1, f)
    BY <2>3, <2>5
  <2> DEFINE x == F[<<n - 1, f[n - 1]>>]
             h == [k \in 0 .. n |-> IF k < n THEN f[k] ELSE x]
  <2>7. f[n - 1] \in S
    BY <2>5, <2>6
  <2>8. x \in S
    BY <2>5, <2>7, <1>r
  <2>h. \A k \in 0 .. n : h[k] = IF k < n THEN f[k] ELSE x
    OBVIOUS
  <2>9. h \in [0 .. n -> S]
    BY <2>6, <2>8, <2>2
  <2>10. h[0] = s0
    BY <2>4, <2>6, <2>2
  <2>x. x = F[<<n - 1, f[n - 1]>>]
    OBVIOUS
  <2> HIDE DEF h, x
  <2>11. ASSUME NEW k \in 1 .. n
         PROVE  h[k] = F[<<k - 1, h[k - 1]>>]
    <3>1. k \in 0 .. n /\ k - 1 \in 0 .. n /\ k - 1 < n
      BY <2>2
    <3>2. h[k - 1] = f[k - 1]
      BY <3>1, <2>h
    <3>3. CASE k < n
      <4>1. h[k] = f[k] /\ k \in 1 .. n - 1
        BY <3>1, <3>3, <2>h, <2>2
      <4>2. f[k] = F[<<k - 1, f[k - 1]>>]
        BY <4>1, <2>6
      <4> QED BY <4>1, <4>2, <3>2
    <3>4. CASE ~(k < n)
      <4>1. k = n
        BY <3>4, <2>2
      <4>2. h[k] = x
        BY <3>1, <3>4, <2>h
      <4> QED BY <4>1, <4>2, <3>2, <2>x
    <3> QED BY <3>3, <3>4
  <2>12. Good(n, h)
    BY <2>9, <2>10, <2>11
  <2> QED BY <2>12, <2>2
<1>2. N \in 0 .. N
  OBVIOUS
<1>3. PICK f : Good(N, f)
  BY <1>1, <1>2
<1> QED BY <1>3 DEF Runs

-----------------------------------------------------------------------------
(* The swaps *)

\* What holds after n swaps of a vector that was v: every word met before has gone
\* where it goes, but for the one that waits at the start of the cycle.
Swapping(from, mid, end, D, X, v, n, s) ==
  LET len == cyclelen(from, mid, end) IN
  /\ s \in [pos : from .. end - 1, v : [D -> X]]
  /\ n < end - from /\ n % len # 0 => s.pos = Spot(from, mid, end, n)
  /\ \A m \in 0 .. n - 1 :
       s.v[Across(from, mid, end, Spot(from, mid, end, m))] = v[Spot(from, mid, end, m)]
  /\ n < end - from =>
       s.v[First(from, mid, end, n)] = v[Spot(from, mid, end, n)]
  /\ \A m \in n + 1 .. (end - from) - 1 :
       s.v[Spot(from, mid, end, m)] = v[Spot(from, mid, end, m)]
  /\ \A d \in D : d \notin from .. end - 1 => s.v[d] = v[d]

\* The swap itself: from the place that is met to the next, over the first.
LEMMA SwappedIs ==
  ASSUME NEW from, NEW mid, NEW end, Blocks(from, mid, end),
         NEW n \in 0 .. (end - from) - 1, NEW D, NEW X,
         NEW s \in [pos : from .. end - 1, v : [D -> X]],
         n % cyclelen(from, mid, end) # 0 => s.pos = Spot(from, mid, end, n)
  PROVE  LET c == First(from, mid, end, n)
             p == Across(from, mid, end, Spot(from, mid, end, n))
             t == Swapped(from, mid, end, n, s)
         IN  t.pos = p /\ t.v = [[s.v EXCEPT ![p] = s.v[c]] EXCEPT ![c] = s.v[p]]
<1> DEFINE len == cyclelen(from, mid, end)
           c == First(from, mid, end, n)
           at == Spot(from, mid, end, n)
<1>1. n % len = 0 => at = c
  BY Spots
<1>2. CASE n % len = 0
  <2> DEFINE r == [s EXCEPT !.pos = c]
  <2>1. r.pos = c /\ r.v = s.v
    OBVIOUS
  <2>2. Swapped(from, mid, end, n, s) = Swap(from, mid, end, c, r)
    BY <1>2 DEF Swapped, First
  <2> HIDE DEF r
  <2> QED BY <2>1, <2>2, <1>1, <1>2 DEF Swap
<1>3. CASE n % len # 0
  <2>1. Swapped(from, mid, end, n, s) = Swap(from, mid, end, c, s)
    BY <1>3 DEF Swapped, First
  <2> QED BY <2>1, <1>3 DEF Swap
<1> QED BY <1>2, <1>3

LEMMA FirstSpot ==
  ASSUME NEW from, NEW mid, NEW end, Blocks(from, mid, end),
         NEW n \in 0 .. (end - from) - 1
  PROVE  \E k \in 0 .. n :
           /\ Spot(from, mid, end, k) = First(from, mid, end, n)
           /\ k % cyclelen(from, mid, end) = 0
           /\ n % cyclelen(from, mid, end) # 0 => k < n
<1> DEFINE a == mid - from
           b == end - mid
           g == gcd[<<mid - from, end - mid>>]
           len == cyclelen(from, mid, end)
<1>1. /\ a \in Nat \ {0} /\ b \in Nat \ {0} /\ a + b = end - from
      /\ Cycles(a, b, g, len)
  BY BlocksCycles
<1> HIDE DEF a, b, g, len
<1>2. g \in Nat \ {0} /\ len \in Nat \ {0}
  BY <1>1 DEF Cycles
<1>3. PICK i \in 0 .. g - 1, j \in 0 .. len - 1 :
        i = n \div len /\ j = n % len /\ n = len * i + j
  BY <1>1, Place, n \in 0 .. a + b - 1
<1>4. PICK k \in Int : k = len * i
  BY <1>2, <1>3
<1>5. k \in 0 .. n /\ k = n - j /\ k = len * i + 0 /\ 0 \in 0 .. len - 1 /\ i \in Int
  BY <1>2, <1>3, <1>4
<1>6. (len * i + 0) % len = 0 /\ (len * i + 0) \div len = i
  BY <1>2, <1>5, DivModUnique, Zenon
<1>7. k % len = 0 /\ k \div len = i
  BY <1>5, <1>6
<1>8. k \in 0 .. (end - from) - 1
  BY <1>5, <1>1
<1>9. Spot(from, mid, end, k) = First(from, mid, end, k)
  BY <1>7, <1>8, Spots DEF len
<1>10. First(from, mid, end, k) = First(from, mid, end, n)
  BY <1>3, <1>7 DEF First, len
<1>11. n % len # 0 => k < n
  <2>1. j \in Nat
    BY <1>2
  <2>2. j # 0 => k < n
    BY <2>1, <1>5
  <2> QED BY <2>2, <1>3
<1> QED BY <1>5, <1>7, <1>9, <1>10, <1>11 DEF len

\* How the count goes on in a cycle, and over its end.
LEMMA Count ==
  ASSUME NEW from, NEW mid, NEW end, Blocks(from, mid, end),
         NEW n \in 0 .. (end - from) - 1
  PROVE  LET len == cyclelen(from, mid, end) IN
         /\ len \in Nat \ {0} /\ n % len \in 0 .. len - 1
         /\ (n % len) + 1 < len =>
              (n + 1) % len # 0 /\ First(from, mid, end, n + 1) = First(from, mid, end, n)
         /\ (n % len) + 1 = len => (n + 1) % len = 0
<1> DEFINE len == cyclelen(from, mid, end)
<1>1. len \in Nat \ {0}
  BY BlocksCycles DEF Cycles
<1>2. First(from, mid, end, n + 1) = mid + ((n + 1) \div len)
      /\ First(from, mid, end, n) = mid + (n \div len)
  BY DEF First
<1> HIDE DEF len
<1>3. n % len \in 0 .. len - 1
  BY <1>1, DivMod, n \in Int
<1>4. /\ (n % len) + 1 < len => /\ (n + 1) \div len = n \div len
                                /\ (n + 1) % len = (n % len) + 1
      /\ (n % len) + 1 = len => (n + 1) % len = 0
  BY <1>1, NextPlace, n \in Nat
<1>5. (n % len) + 1 # 0
  BY <1>3, <1>1
<1> QED BY <1>1, <1>2, <1>3, <1>4, <1>5 DEF len

\* The last place of a cycle is met after the others.
LEMMA Later ==
  ASSUME NEW from, NEW mid, NEW end, Blocks(from, mid, end),
         NEW m \in 0 .. (end - from) - 1, NEW n \in 0 .. (end - from) - 1,
         First(from, mid, end, m) = First(from, mid, end, n),
         (m % cyclelen(from, mid, end)) + 1 = cyclelen(from, mid, end),
         (n % cyclelen(from, mid, end)) + 1 < cyclelen(from, mid, end)
  PROVE  n < m
<1> DEFINE len == cyclelen(from, mid, end)
<1>1. len \in Nat \ {0}
  BY BlocksCycles DEF Cycles
<1>2. mid + (m \div len) = mid + (n \div len) /\ mid \in Nat
  BY DEF First, Blocks
<1>l. (m % len) + 1 = len /\ (n % len) + 1 < len
  OBVIOUS
<1> HIDE DEF len
<1>3. PICK i \in Int, j \in Int : i = m \div len /\ j = m % len /\ m = len * i + j
  <2>1. /\ m \div len \in Int /\ m % len \in 0 .. len - 1
        /\ m = len * (m \div len) + (m % len)
    BY <1>1, DivMod, m \in Int
  <2>2. m % len \in Int
    BY <2>1, <1>1
  <2> QED BY <2>1, <2>2, Zenon
<1>4. PICK h \in Int, k \in Int : h = n \div len /\ k = n % len /\ n = len * h + k
  <2>1. /\ n \div len \in Int /\ n % len \in 0 .. len - 1
        /\ n = len * (n \div len) + (n % len)
    BY <1>1, DivMod, n \in Int
  <2>2. n % len \in Int
    BY <2>1, <1>1
  <2> QED BY <2>1, <2>2, Zenon
<1>5. mid + i = mid + h
  BY <1>2, <1>3, <1>4
<1>6. i = h /\ k < j
  BY <1>5, <1>2, <1>l, <1>3, <1>4
<1> QED BY <1>3, <1>4, <1>6, <1>1

LEMMA SwapStep ==
  ASSUME NEW from, NEW mid, NEW end, Blocks(from, mid, end),
         NEW D, NEW X, from .. end - 1 \subseteq D, NEW v \in [D -> X],
         NEW n \in 0 .. (end - from) - 1, NEW s,
         Swapping(from, mid, end, D, X, v, n, s)
  PROVE  Swapping(from, mid, end, D, X, v, n + 1, Swapped(from, mid, end, n, s))
<1> DEFINE len == cyclelen(from, mid, end)
           N == end - from
           P(m) == Spot(from, mid, end, m)
           Q(m) == Across(from, mid, end, P(m))
           C(m) == First(from, mid, end, m)
           t == Swapped(from, mid, end, n, s)
           c == C(n)
           p == Q(n)
<1>0. N \in Nat /\ from \in Nat /\ n \in 0 .. N - 1
      /\ mid .. end - 1 \subseteq from .. end - 1
  BY DEF Blocks
<1>1. /\ s \in [pos : from .. end - 1, v : [D -> X]]
      /\ n % len # 0 => s.pos = P(n)
      /\ \A m \in 0 .. n - 1 : s.v[Q(m)] = v[P(m)]
      /\ s.v[c] = v[P(n)]
      /\ \A m \in n + 1 .. N - 1 : s.v[P(m)] = v[P(m)]
      /\ \A d \in D : d \notin from .. end - 1 => s.v[d] = v[d]
  <2>1. n < N
    BY <1>0
  <2> QED BY <2>1, Zenon DEF Swapping
<1>2. t.pos = p /\ t.v = [[s.v EXCEPT ![p] = s.v[c]] EXCEPT ![c] = s.v[p]]
  BY <1>1, SwappedIs
<1>t. t = [pos |-> t.pos, v |-> t.v]
  BY DEF Swapped, Swap
<1>3. \A m \in 0 .. N - 1 : P(m) \in from .. end - 1
  BY Spots
<1>4. \A m \in 0 .. N - 1, k \in 0 .. N - 1 : P(m) = P(k) => m = k
  BY SpotOnce
<1>5. \A m \in 0 .. N - 1 : Q(m) \in from .. end - 1
  BY <1>3 DEF Across, Blocks
<1>6. \A m \in 0 .. N - 1, k \in 0 .. N - 1 : Q(m) = Q(k) => m = k
  BY <1>3, <1>4, AcrossOnce
<1>7. c \in from .. end - 1
  <2>1. c \in mid .. end - 1
    BY Spots
  <2> QED BY <2>1, <1>0
<1>8. PICK k \in 0 .. n : P(k) = c /\ k % len = 0
  BY FirstSpot
<1>9. /\ len \in Nat \ {0} /\ n % len \in 0 .. len - 1
      /\ (n % len) + 1 < len => (n + 1) % len # 0 /\ C(n + 1) = C(n)
      /\ (n % len) + 1 = len => (n + 1) % len = 0
  BY Count
<1>10. /\ (n % len) + 1 < len => p = P(n + 1) /\ n + 1 \in 0 .. N - 1
       /\ (n % len) + 1 = len => p = c
  BY SpotNext
<1>12. (n + 1) % len = 0 /\ n + 1 < N => P(n + 1) = C(n + 1)
  <2>1. n + 1 < N => n + 1 \in 0 .. N - 1
    BY <1>0
  <2> QED BY <2>1, Spots
\* c is where the last word of this cycle goes, and that one is met later.
<1>13. ASSUME NEW m \in 0 .. n - 1, (n % len) + 1 < len, Q(m) = c
       PROVE  FALSE
  <2>1. m \in 0 .. N - 1 /\ m < n
    BY <1>0
  <2>2. /\ len \in Nat \ {0} /\ m % len \in 0 .. len - 1
        /\ (m % len) + 1 < len => (m + 1) % len # 0
    BY <2>1, Count
  <2>3. /\ (m % len) + 1 < len => Q(m) = P(m + 1) /\ m + 1 \in 0 .. N - 1
        /\ (m % len) + 1 = len => Q(m) = C(m)
    BY <2>1, SpotNext
  <2>4. CASE (m % len) + 1 < len
    <3>1. P(m + 1) = P(k) /\ m + 1 \in 0 .. N - 1 /\ k \in 0 .. N - 1
      BY <2>3, <2>4, <1>13, <1>8, <1>0
    <3>2. m + 1 = k
      BY <3>1, <1>4
    <3> QED BY <3>2, <2>2, <2>4, <1>8
  <2>5. CASE (m % len) + 1 = len
    <3>1. C(m) = C(n)
      BY <2>3, <2>5, <1>13
    <3>2. n < m
      BY <3>1, <2>1, <2>5, <1>13, <1>0, Later
    <3> QED BY <3>2, <2>1, <1>0
  <2>6. (m % len) + 1 < len \/ (m % len) + 1 = len
    BY <2>2
  <2> QED BY <2>4, <2>5, <2>6
<1>14. (n % len) + 1 < len \/ (n % len) + 1 = len
  BY <1>9
<1>15. P(n) \in from .. end - 1 /\ p \in from .. end - 1
  BY <1>0, <1>3, <1>5
<1>G. SUFFICES
        /\ t \in [pos : from .. end - 1, v : [D -> X]]
        /\ n + 1 < N /\ (n + 1) % len # 0 => t.pos = P(n + 1)
        /\ \A m \in 0 .. n : t.v[Q(m)] = v[P(m)]
        /\ n + 1 < N => t.v[C(n + 1)] = v[P(n + 1)]
        /\ \A m \in n + 2 .. N - 1 : t.v[P(m)] = v[P(m)]
        /\ \A d \in D : d \notin from .. end - 1 => t.v[d] = v[d]
  <2>1. (n + 1) - 1 = n /\ (n + 1) + 1 = n + 2
    BY <1>0
  <2> QED BY <2>1, Zenon DEF Swapping
<1> HIDE DEF len, P, Q, C, t, c, p, N
<1>16. s.v \in [D -> X] /\ from .. end - 1 \subseteq D
  BY <1>1
<1>17. p \in D /\ c \in D
  BY <1>15, <1>7
<1>18. \A d \in D : t.v[d] = IF d = c THEN s.v[p] ELSE IF d = p THEN s.v[c] ELSE s.v[d]
  BY <1>2, <1>16, <1>17
<1>19. t \in [pos : from .. end - 1, v : [D -> X]]
  <2>1. t.v \in [D -> X]
    BY <1>2, <1>16, <1>17
  <2>2. t.pos \in from .. end - 1
    BY <1>2, <1>15
  <2> QED BY <2>1, <2>2, <1>t
<1>20. \A d \in D : d \notin from .. end - 1 => t.v[d] = v[d]
  BY <1>18, <1>1, <1>7, <1>15
<1>21. \A m \in 0 .. N - 1 : P(m) \in D /\ Q(m) \in D
  BY <1>3, <1>5, <1>16
<1>22. p = Q(n) /\ c = C(n)
  BY DEF p, c
<1>23. CASE (n % len) + 1 < len
  <2>1. p = P(n + 1) /\ n + 1 \in 0 .. N - 1 /\ C(n + 1) = c /\ k \in 0 .. N - 1
    BY <1>23, <1>9, <1>10, <1>8, <1>0, <1>22
  <2>2. p # c
    BY <2>1, <1>8, <1>4, <1>0
  <2>3. ASSUME NEW m \in 0 .. n PROVE t.v[Q(m)] = v[P(m)]
    <3>1. m \in 0 .. N - 1
      BY <1>0
    <3>2. CASE m = n
      BY <3>2, <1>18, <1>17, <1>22, <2>2, <1>1
    <3>3. CASE m # n
      <4>1. m \in 0 .. n - 1
        BY <3>3, <1>0
      <4>2. Q(m) # p
        BY <3>1, <3>3, <1>6, <1>0, <1>22
      <4>3. Q(m) # c
        BY <4>1, <1>13, <1>23
      <4> QED BY <4>1, <4>2, <4>3, <1>18, <1>21, <3>1, <1>1
    <3> QED BY <3>2, <3>3
  <2>4. t.v[c] = v[P(n + 1)]
    <3>1. n + 1 \in n + 1 .. N - 1
      BY <2>1, <1>0
    <3>2. s.v[P(n + 1)] = v[P(n + 1)]
      BY <3>1, <1>1
    <3> QED BY <3>2, <1>18, <1>17, <2>1
  <2>5. ASSUME NEW m \in n + 2 .. N - 1 PROVE t.v[P(m)] = v[P(m)]
    <3>1. m \in 0 .. N - 1 /\ m \in n + 1 .. N - 1 /\ m # n + 1 /\ m # k
      BY <1>0, <1>8
    <3>2. P(m) # p /\ P(m) # c
      BY <3>1, <2>1, <1>4, <1>8
    <3> QED BY <3>1, <3>2, <1>18, <1>21, <1>1
  <2>6. t.pos = P(n + 1)
    BY <2>1, <1>2
  <2> QED BY <1>19, <1>20, <2>1, <2>3, <2>4, <2>5, <2>6, Zenon
<1>24. CASE (n % len) + 1 = len
  <2>1. p = c /\ (n + 1) % len = 0
    BY <1>24, <1>9, <1>10
  <2>2. \A d \in D : t.v[d] = s.v[d]
    BY <2>1, <1>18
  <2>3. ASSUME NEW m \in 0 .. n PROVE t.v[Q(m)] = v[P(m)]
    <3>1. m \in 0 .. N - 1
      BY <1>0
    <3>2. CASE m = n
      BY <3>2, <2>1, <2>2, <1>17, <1>22, <1>1
    <3>3. CASE m # n
      <4>1. m \in 0 .. n - 1
        BY <3>3, <1>0
      <4> QED BY <4>1, <2>2, <1>21, <3>1, <1>1
    <3> QED BY <3>2, <3>3
  <2>4. ASSUME NEW m \in n + 1 .. N - 1 PROVE t.v[P(m)] = v[P(m)]
    <3>1. m \in 0 .. N - 1
      BY <1>0
    <3> QED BY <3>1, <2>2, <1>21, <1>1
  <2>5. n + 1 < N => t.v[C(n + 1)] = v[P(n + 1)]
    <3>1. n + 1 < N => n + 1 \in n + 1 .. N - 1
      BY <1>0
    <3> QED BY <3>1, <2>1, <2>4, <1>12
  <2>6. \A m \in n + 2 .. N - 1 : m \in n + 1 .. N - 1
    BY <1>0
  <2> QED BY <1>19, <1>20, <2>1, <2>3, <2>4, <2>5, <2>6, Zenon
<1> QED BY <1>14, <1>23, <1>24

LEMMA SwappedType ==
  ASSUME NEW from, NEW mid, NEW end, Blocks(from, mid, end),
         NEW D, NEW X, from .. end - 1 \subseteq D,
         NEW n \in 0 .. (end - from) - 1,
         NEW s \in [pos : from .. end - 1, v : [D -> X]]
  PROVE  Swapped(from, mid, end, n, s) \in [pos : from .. end - 1, v : [D -> X]]
<1> DEFINE c == First(from, mid, end, n)
           r == IF n % cyclelen(from, mid, end) = 0 THEN [s EXCEPT !.pos = c] ELSE s
           p == Across(from, mid, end, r.pos)
<1>1. c \in mid .. end - 1
  BY Spots
<1>2. c \in from .. end - 1
  BY <1>1 DEF Blocks
<1> HIDE DEF c
<1>3. r.pos \in from .. end - 1 /\ r.v \in [D -> X]
  BY <1>2
<1>r. Swapped(from, mid, end, n, s) = Swap(from, mid, end, c, r)
  BY DEF Swapped, First, c
<1> HIDE DEF r
<1>4. p \in from .. end - 1
  BY <1>3 DEF Across, Blocks
<1>5. Swap(from, mid, end, c, r) =
        [pos |-> p, v |-> [[r.v EXCEPT ![p] = r.v[c]] EXCEPT ![c] = r.v[p]]]
  BY DEF Swap
<1> HIDE DEF p
<1>6. p \in D /\ c \in D
  BY <1>2, <1>4
<1>7. [[r.v EXCEPT ![p] = r.v[c]] EXCEPT ![c] = r.v[p]] \in [D -> X]
  BY <1>3, <1>6
<1> QED BY <1>4, <1>5, <1>7, <1>r

\* The loop of permute_args as a function of the number of swaps.
LEMMA Swaps ==
  ASSUME NEW from, NEW mid, NEW end, Blocks(from, mid, end),
         NEW D, NEW X, from .. end - 1 \subseteq D, NEW v \in [D -> X]
  PROVE  \E f : /\ f[0] = [pos |-> mid, v |-> v]
                /\ \A n \in 1 .. end - from :
                     f[n] = Swapped(from, mid, end, n - 1, f[n - 1])
                /\ permute_args(from, mid, end, v) = f[end - from].v
<1> DEFINE N == end - from
           S == [pos : from .. end - 1, v : [D -> X]]
           s0 == [pos |-> mid, v |-> v]
           F == [x \in (0 .. N - 1) \X S |-> Swapped(from, mid, end, x[1], x[2])]
           e(f) == [n \in 0 .. N |-> IF n = 0 THEN s0
                                     ELSE Swapped(from, mid, end, n - 1, f[n - 1])]
<1>1. N \in Nat /\ s0 \in S
  BY DEF Blocks
<1>2. \A n \in 0 .. N - 1, s \in S : <<n, s>> \in (0 .. N - 1) \X S
  OBVIOUS
<1>3. \A n \in 0 .. N - 1, s \in S : F[<<n, s>>] = Swapped(from, mid, end, n, s)
  BY <1>2
<1>4. \A n \in 0 .. N - 1, s \in S : Swapped(from, mid, end, n, s) \in S
  BY SwappedType
<1>5. permute_args(from, mid, end, v) = (CHOOSE f : f = e(f))[N].v
  <2>1. gcd[<<mid - from, end - mid>>] * cyclelen(from, mid, end) = N
    BY BlocksCycles DEF Cycles
  <2> QED BY <2>1, Zenon DEF permute_args
<1>N. N = end - from
  OBVIOUS
<1>s. s0 = [pos |-> mid, v |-> v]
  OBVIOUS
<1> HIDE DEF N, S, s0, F
<1>6. \A n \in 0 .. N - 1, s \in S : F[<<n, s>>] \in S
  BY <1>3, <1>4
<1>a. Rounds(F, N, S)
  BY <1>6 DEF Rounds
<1>b. PICK f : Runs(f, F, N, S, s0)
  BY <1>1, <1>a, Iterate, Zenon
<1>7. /\ f \in [0 .. N -> S] /\ f[0] = s0
      /\ \A n \in 1 .. N : f[n] = F[<<n - 1, f[n - 1]>>]
  BY <1>b DEF Runs
<1>8. f = e(f)
  <2>1. ASSUME NEW n \in 0 .. N
        PROVE  f[n] = IF n = 0 THEN s0 ELSE Swapped(from, mid, end, n - 1, f[n - 1])
    <3>1. n # 0 => f[n] = F[<<n - 1, f[n - 1]>>]
      BY <1>7
    <3>2. CASE n = 0
      BY <1>7, <3>2
    <3>3. CASE n # 0
      <4>1. n - 1 \in 0 .. N - 1 /\ n - 1 \in 0 .. N
        BY <3>3, <1>1
      <4>2. f[n - 1] \in S
        BY <4>1, <1>7
      <4> QED BY <3>1, <3>3, <4>1, <4>2, <1>3
    <3> QED BY <3>2, <3>3
  <2> QED BY <2>1, <1>7
<1> DEFINE h == CHOOSE f2 : f2 = e(f2)
<1>9. h = e(h)
  BY <1>8
<1>10. permute_args(from, mid, end, v) = h[N].v
  BY <1>5
<1> HIDE DEF h
<1>11. \A n \in 0 .. N : h[n] = IF n = 0 THEN s0
                                ELSE Swapped(from, mid, end, n - 1, h[n - 1])
  BY <1>9
<1>12. h[0] = s0
  BY <1>11, <1>1
<1>13. \A n \in 1 .. N : h[n] = Swapped(from, mid, end, n - 1, h[n - 1])
  <2>1. \A n \in 1 .. N : n \in 0 .. N /\ n # 0
    BY <1>1
  <2> QED BY <2>1, <1>11
<1> QED BY <1>10, <1>12, <1>13, <1>N, <1>s

\* What permute_args is for: the blocks from .. mid - 1 and mid .. end - 1 have
\* changed places, each in its order, and nothing else has moved.
Exchanged(from, mid, end, v) ==
  [d \in DOMAIN v |-> IF d \notin from .. end - 1 THEN v[d]
                      ELSE IF d < from + (end - mid) THEN v[d + (mid - from)]
                      ELSE v[d - (end - mid)]]

\* The swaps of permute_args (argv_getopt.inl), cycle by cycle, exchange any two
\* adjacent blocks of words.
THEOREM PermuteArgs ==
  ASSUME NEW from, NEW mid, NEW end, Blocks(from, mid, end),
         NEW D, NEW X, from .. end - 1 \subseteq D, NEW v \in [D -> X]
  PROVE  permute_args(from, mid, end, v) = Exchanged(from, mid, end, v)
<1> DEFINE N == end - from
<1>1. N \in Nat \ {0} /\ from \in Nat /\ mid \in Nat /\ end \in Nat
      /\ from < mid /\ mid < end
  BY DEF Blocks
<1>2. PICK f : /\ f[0] = [pos |-> mid, v |-> v]
               /\ \A n \in 1 .. N : f[n] = Swapped(from, mid, end, n - 1, f[n - 1])
               /\ permute_args(from, mid, end, v) = f[N].v
  BY Swaps
<1> DEFINE Inv(n) == Swapping(from, mid, end, D, X, v, n, f[n])
           Bad == {n \in 0 .. N : ~Inv(n)}
<1>3. Inv(0)
  <2>1. f[0].v = v /\ f[0].pos = mid /\ f[0] \in [pos : from .. end - 1, v : [D -> X]]
    BY <1>1, <1>2
  <2>2. 0 \in 0 .. N - 1 /\ 0 .. 0 - 1 = {} /\ 0 + 1 .. N - 1 \subseteq 0 .. N - 1
    BY <1>1
  <2>3. \A m \in 0 .. N - 1 : Spot(from, mid, end, m) \in from .. end - 1
    BY Spots
  <2>4. 0 % cyclelen(from, mid, end) = 0
    <3>1. cyclelen(from, mid, end) \in Nat \ {0}
      BY BlocksCycles DEF Cycles
    <3> QED BY <3>1
  <2>5. First(from, mid, end, 0) = Spot(from, mid, end, 0)
    BY <2>2, <2>4, Spots
  <2> QED BY <2>1, <2>2, <2>4, <2>5, Zenon DEF Swapping
<1>4. Bad = {}
  <2>1. SUFFICES ASSUME Bad # {} PROVE FALSE
    OBVIOUS
  <2>a. Bad \subseteq Nat
    BY <1>1
  <2>b. \E n \in Bad : \A m \in Bad : n <= m
    <3> HIDE DEF Bad
    <3> QED BY <2>1, <2>a, Least
  <2>2. PICK n \in Bad : \A m \in Bad : n <= m
    BY <2>b
  <2>3. n \in 0 .. N /\ ~Inv(n)
    BY <2>2
  <2>4. \A m \in 0 .. N : m < n => Inv(m)
    BY <2>2
  <2> HIDE DEF Bad
  <2>5. n # 0
    BY <2>3, <1>3
  <2>6. n - 1 \in 0 .. N /\ n - 1 < n /\ n - 1 \in 0 .. N - 1 /\ n \in 1 .. N
        /\ (n - 1) + 1 = n
    BY <2>3, <2>5, <1>1
  <2>7. Inv(n - 1)
    BY <2>4, <2>6
  <2>8. f[n] = Swapped(from, mid, end, n - 1, f[n - 1])
    BY <2>6, <1>2
  <2> HIDE DEF Inv
  <2>9. Inv(n)
    <3>1. Swapping(from, mid, end, D, X, v, n - 1, f[n - 1])
      BY <2>7 DEF Inv
    <3>2. Swapping(from, mid, end, D, X, v, (n - 1) + 1,
                   Swapped(from, mid, end, n - 1, f[n - 1]))
      BY <3>1, <2>6, SwapStep
    <3> QED BY <3>2, <2>6, <2>8 DEF Inv
  <2> QED BY <2>9, <2>3
<1>5. Inv(N)
  BY <1>4, <1>1
<1> DEFINE w == f[N].v
<1>6. /\ w \in [D -> X]
      /\ \A m \in 0 .. N - 1 : w[Across(from, mid, end, Spot(from, mid, end, m))]
                               = v[Spot(from, mid, end, m)]
      /\ \A d \in D : d \notin from .. end - 1 => w[d] = v[d]
  BY <1>5 DEF Swapping
<1> HIDE DEF w, Inv, Bad
<1>7. ASSUME NEW o \in from .. end - 1
      PROVE  w[Across(from, mid, end, o)] = v[o]
  <2>1. PICK m \in 0 .. N - 1 : Spot(from, mid, end, m) = o
    BY SpotAll
  <2> QED BY <2>1, <1>6
<1>8. ASSUME NEW d \in D
      PROVE  w[d] = Exchanged(from, mid, end, v)[d]
  <2>e. Exchanged(from, mid, end, v)[d] =
          IF d \notin from .. end - 1 THEN v[d]
          ELSE IF d < from + (end - mid) THEN v[d + (mid - from)]
          ELSE v[d - (end - mid)]
    BY DEF Exchanged
  <2>1. CASE d \notin from .. end - 1
    BY <2>1, <2>e, <1>6
  <2>2. CASE d \in from .. end - 1 /\ d < from + (end - mid)
    <3>1. d + (mid - from) \in from .. end - 1 /\ d + (mid - from) >= mid
          /\ (d + (mid - from)) - (mid - from) = d
      BY <2>2, <1>1
    <3>2. Across(from, mid, end, d + (mid - from)) = d
      BY <3>1 DEF Across
    <3> QED BY <3>1, <3>2, <1>7, <2>2, <2>e
  <2>3. CASE d \in from .. end - 1 /\ ~(d < from + (end - mid))
    <3>1. d - (end - mid) \in from .. end - 1 /\ ~(d - (end - mid) >= mid)
          /\ (d - (end - mid)) + (end - mid) = d
      BY <2>3, <1>1
    <3>2. Across(from, mid, end, d - (end - mid)) = d
      BY <3>1 DEF Across
    <3> QED BY <3>1, <3>2, <1>7, <2>3, <2>e
  <2> QED BY <2>1, <2>2, <2>3
<1>9. DOMAIN Exchanged(from, mid, end, v) = D
  BY DEF Exchanged
<1>10. w = Exchanged(from, mid, end, v)
  <2>1. Exchanged(from, mid, end, v) = [d \in D |-> Exchanged(from, mid, end, v)[d]]
    BY <1>9 DEF Exchanged
  <2> QED BY <2>1, <1>6, <1>8
<1> QED BY <1>2, <1>10 DEF w
=============================================================================
