------------------------ MODULE SubversionHds_proofs ------------------------
(***************************************************************************)
(* The parsers of the handshake and its URL, for every packet and every    *)
(* handshake:                                                              *)
(*                                                                         *)
(*   - the parsers stay in the packet (ParsersStayInPacket);               *)
(*   - a cut handshake is not routed by another URL (NeverMisrouted);      *)
(*   - the owner is found in the URL (OwnerFound);                         *)
(*   - a whole handshake is understood (HandshakeUnderstood).              *)
(*                                                                         *)
(* The last three compare the state of the parser with the place in the    *)
(* encoding where it is; the lemmas whose names end in Step say what the   *)
(* parser does with each part.                                             *)
(*                                                                         *)
(* What a handshake and a URL look like comes first: numerals and what     *)
(* strtol makes of them, texts written one behind the other, and at which  *)
(* position each part of the handshake and of its URL begins.  Recursive   *)
(* functions over numbers and over texts are shown to be what they should  *)
(* by the least argument for which they are not.                           *)
(***************************************************************************)
EXTENDS SubversionHds, SequenceTheorems, WellFoundedInduction, TLAPS

-----------------------------------------------------------------------------
(* Numbers *)

Less == {s \in Nat \X Nat : s[1] < s[2]}

\* A set of natural numbers that is not empty has a least element.
LEMMA Least ==
  ASSUME NEW S \in SUBSET Nat, S # {}
  PROVE  \E n \in S : \A m \in S : n <= m
<1>1. Less = OpToRel(<, Nat)
  BY DEF Less, OpToRel
<1>2. PICK n \in S : \A m \in S : <<m, n>> \notin Less
  BY <1>1, NatLessThanWellFounded, WFMin
<1>3. ASSUME NEW m \in S PROVE n <= m
  <2>1. m \in Nat /\ n \in Nat
    OBVIOUS
  <2>2. m < n => <<m, n>> \in Less
    BY <2>1 DEF Less
  <2> QED BY <1>2, <2>1, <2>2
<1> QED BY <1>3

LEMMA ValueRange ==
  ASSUME NEW d, Contains(Digits, d)
  PROVE  Value(d) \in 0..9 /\ d = Digits[Value(d) + 1]
<1>1. \E i \in 1..10 : Digits[i] = d
  BY DEF Contains, Digits
<1> DEFINE i == CHOOSE j \in 1..10 : Digits[j] = d
<1>2. i \in 1..10 /\ Digits[i] = d
  BY <1>1
<1>3. Value(d) = i - 1
  BY DEF Value
<1> HIDE DEF i
<1>4. Value(d) \in 0..9 /\ Value(d) + 1 = i
  BY <1>2, <1>3
<1> QED BY <1>2, <1>4

LEMMA ValueOfDigit ==
  ASSUME NEW n \in 0..9
  PROVE  /\ Contains(Digits, Digits[n + 1]) /\ Value(Digits[n + 1]) = n
         /\ Digits[n + 1] \in Characters \ (Marks \cup {":"})
<1>1. \A i, j \in 1..10 : Digits[i] = Digits[j] => i = j
  BY DEF Digits
<1>2. Contains(Digits, Digits[n + 1])
  BY DEF Contains, Digits
<1>3. Value(Digits[n + 1]) \in 0..9 /\ Digits[n + 1] = Digits[Value(Digits[n + 1]) + 1]
  BY <1>2, ValueRange
<1>4. Digits[n + 1] \in Characters \ (Marks \cup {":"})
  <2>1. Digits[n + 1] \in ToSet(Digits)
    BY DEF ToSet, Digits
  <2>2. Digits[n + 1] \in {"0", "1", "2", "3", "4", "5", "6", "7", "8", "9"}
    BY DEF Digits
  <2>3. Digits[n + 1] \notin Marks \cup {":"}
    BY <2>2 DEF Marks, Blanks, Zero
  <2> QED BY <2>1, <2>3, HdsAssumption
<1> QED BY <1>1, <1>2, <1>3, <1>4

\* v is the function Numbers defines by recursion.
Counts(v, t) ==
  /\ v \in [0..Len(t) -> Nat] /\ v[0] = 0
  /\ \A i \in 1..Len(t) : v[i] = 10 * v[i - 1] + Value(t[i])

LEMMA CountsExists ==
  ASSUME NEW t \in Texts, \A i \in 1..Len(t) : Contains(Digits, t[i])
  PROVE  \E v : Counts(v, t)
<1> DEFINE G(k, v) == /\ v \in [0..k -> Nat] /\ v[0] = 0
                      /\ \A i \in 1..k : v[i] = 10 * v[i - 1] + Value(t[i])
<1> DEFINE Bad == {k \in 0..Len(t) : ~\E v : G(k, v)}
<1>1. Len(t) \in Nat
  BY DEF Texts
<1>2. \A i \in 1..Len(t) : Value(t[i]) \in Nat
  BY ValueRange
<1>3. ASSUME Bad # {} PROVE FALSE
  <2>0. Bad \in SUBSET Nat
    BY <1>1
  <2> HIDE DEF Bad
  <2>1. PICK k \in Bad : \A m \in Bad : k <= m
    BY <1>3, <2>0, Least
  <2>2. k \in 0..Len(t)
    BY DEF Bad
  <2>3. CASE k = 0
    <3>1. G(0, [i \in 0..0 |-> 0])
      OBVIOUS
    <3> QED BY <2>1, <2>3, <3>1 DEF Bad
  <2>4. CASE k # 0
    <3>1. k - 1 \in 0..Len(t) /\ ~(k <= k - 1)
      BY <1>1, <2>2, <2>4
    <3>2. PICK v : G(k - 1, v)
      BY <2>1, <3>1 DEF Bad
    <3> DEFINE w == [i \in 0..k |-> IF i < k THEN v[i] ELSE 10 * v[k - 1] + Value(t[k])]
    <3>3. Value(t[k]) \in Nat /\ v[k - 1] \in Nat /\ k \in Nat
      BY <1>1, <1>2, <2>2, <2>4, <3>2
    <3>4. w \in [0..k -> Nat]
      BY <3>2, <3>3
    <3>5. \A i \in 1..k : w[i] = 10 * w[i - 1] + Value(t[i])
      BY <3>2, <3>3
    <3>6. w[0] = 0
      BY <2>4, <3>2, <3>3
    <3>7. G(k, w)
      BY <3>4, <3>5, <3>6
    <3> QED BY <2>1, <3>7 DEF Bad
  <2> QED BY <2>3, <2>4
<1>4. Len(t) \notin Bad
  BY <1>3
<1>5. \E v : G(Len(t), v)
  BY <1>1, <1>4
<1> QED BY <1>5 DEF Counts

LEMMA NumbersCount ==
  ASSUME NEW t \in Texts, \A i \in 1..Len(t) : Contains(Digits, t[i])
  PROVE  Counts(Numbers(t), t)
<1> DEFINE R(v) == v = [i \in 0..Len(t) |-> IF i = 0 THEN 0
                                            ELSE 10 * v[i - 1] + Value(t[i])]
<1>1. Len(t) \in Nat
  BY DEF Texts
<1>2. PICK u : Counts(u, t)
  BY CountsExists
<1>3. R(u)
  BY <1>1, <1>2 DEF Counts
<1>4. Numbers(t) = CHOOSE v : R(v)
  BY DEF Numbers
<1>5. R(Numbers(t))
  BY <1>3, <1>4
<1> DEFINE v == Numbers(t)
<1> HIDE DEF v
<1> DEFINE Bad == {k \in 0..Len(t) : v[k] # u[k]}
<1>6. ASSUME Bad # {} PROVE FALSE
  <2>0. Bad \in SUBSET Nat
    BY <1>1
  <2> HIDE DEF Bad
  <2>1. PICK k \in Bad : \A m \in Bad : k <= m
    BY <1>6, <2>0, Least
  <2>2. k \in 0..Len(t) /\ v[k] # u[k] /\ (k > 0 => v[k - 1] = u[k - 1])
    BY <1>1, <2>1 DEF Bad
  <2> QED BY <1>1, <1>2, <1>5, <2>2 DEF Counts, v
<1>7. \A k \in 0..Len(t) : v[k] = u[k]
  BY <1>6
<1>8. v = u
  BY <1>1, <1>2, <1>5, <1>7 DEF Counts, v
<1> QED BY <1>2, <1>8 DEF v

LEMMA LeadingDigits ==
  ASSUME NEW s \in Texts
  PROVE  /\ Leading(s) \in Texts
         /\ \A i \in 1..Len(Leading(s)) : Contains(Digits, Leading(s)[i])
         /\ (\A i \in 1..Len(s) : Contains(Digits, s[i])) => Leading(s) = s
<1> DEFINE P(n) == /\ \A i \in 1..n : Contains(Digits, s[i])
                   /\ n < Len(s) => ~Contains(Digits, s[n + 1])
<1>1. Len(s) \in Nat
  BY DEF Texts
<1>2. \E n \in 0..Len(s) : P(n)
  <2> DEFINE S == {n \in 0..Len(s) : n < Len(s) => ~Contains(Digits, s[n + 1])}
  <2>1. S \in SUBSET Nat /\ Len(s) \in S
    BY <1>1
  <2>2. PICK n \in S : \A m \in S : n <= m
    BY <2>1, Least
  <2>3. ASSUME NEW i \in 1..n PROVE Contains(Digits, s[i])
    <3>1. i - 1 \in 0..Len(s) /\ ~(n <= i - 1) /\ (i - 1) + 1 = i
      BY <1>1
    <3> QED BY <2>2, <3>1
  <2> QED BY <2>3
<1> DEFINE n == CHOOSE k \in 0..Len(s) : P(k)
<1>3. n \in 0..Len(s) /\ P(n)
  BY <1>2
<1>4. Leading(s) = SubSeq(s, 1, n)
  BY DEF Leading
<1> HIDE DEF n
<1>5. \A i \in 1..n : s[i] \in Characters
  BY <1>1, <1>3 DEF Texts
<1>6. /\ Leading(s) \in Texts /\ Len(Leading(s)) = n
      /\ \A i \in 1..n : Leading(s)[i] = s[i]
  BY <1>1, <1>3, <1>4, <1>5, SubSeqProperties DEF Texts
<1>7. ASSUME \A i \in 1..Len(s) : Contains(Digits, s[i]) PROVE Leading(s) = s
  <2>1. n = Len(s)
    BY <1>1, <1>3, <1>7
  <2> QED BY <1>6, <2>1, SeqEqual DEF Texts
<1> QED BY <1>3, <1>6, <1>7

LEMMA UnsignedNat ==
  ASSUME NEW s \in Texts
  PROVE  Unsigned(s) \in Nat
<1>1. Counts(Numbers(Leading(s)), Leading(s)) /\ Len(Leading(s)) \in Nat
  BY LeadingDigits, NumbersCount DEF Texts
<1> QED BY <1>1 DEF Unsigned, Counts

LEMMA TrimmedText ==
  ASSUME NEW s \in Texts
  PROVE  /\ Trimmed(s) \in Texts
         /\ Len(s) > 0 /\ s[1] \notin Spaces => Trimmed(s) = s
<1> DEFINE P(n) == /\ \A i \in 1..n : s[i] \in Spaces
                   /\ n < Len(s) => s[n + 1] \notin Spaces
<1>1. Len(s) \in Nat
  BY DEF Texts
<1>2. \E n \in 0..Len(s) : P(n)
  <2> DEFINE S == {n \in 0..Len(s) : n < Len(s) => s[n + 1] \notin Spaces}
  <2>1. S \in SUBSET Nat /\ Len(s) \in S
    BY <1>1
  <2>2. PICK n \in S : \A m \in S : n <= m
    BY <2>1, Least
  <2>3. ASSUME NEW i \in 1..n PROVE s[i] \in Spaces
    <3>1. i - 1 \in 0..Len(s) /\ ~(n <= i - 1) /\ (i - 1) + 1 = i
      BY <1>1
    <3> QED BY <2>2, <3>1
  <2> QED BY <2>3
<1> DEFINE n == CHOOSE k \in 0..Len(s) : P(k)
<1>3. n \in 0..Len(s) /\ P(n)
  BY <1>2
<1>4. Trimmed(s) = SubSeq(s, 1 + n, Len(s))
  BY DEF Trimmed
<1> HIDE DEF n
<1>5. Trimmed(s) \in Texts
  <2>1. \A i \in (1 + n)..Len(s) : s[i] \in Characters
    BY <1>1, <1>3 DEF Texts
  <2> QED BY <1>1, <1>3, <1>4, <2>1, SubSeqProperties DEF Texts
<1>6. ASSUME Len(s) > 0, s[1] \notin Spaces PROVE Trimmed(s) = s
  <2>1. n = 0
    BY <1>1, <1>3, <1>6
  <2>2. /\ Trimmed(s) = SubSeq(s, 1, Len(s)) /\ Len(SubSeq(s, 1, Len(s))) = Len(s)
        /\ \A i \in 1..Len(s) : SubSeq(s, 1, Len(s))[i] = s[i]
    BY <1>1, <1>4, <2>1, SubSeqProperties DEF Texts
  <2> QED BY <1>5, <2>2, SeqEqual DEF Texts
<1> QED BY <1>5, <1>6

LEMMA StrtolInt ==
  ASSUME NEW s \in Texts
  PROVE  strtol(s) \in Int
<1>1. PICK t \in Texts : t = Trimmed(s)
  BY TrimmedText
<1>2. t # <<>> => Tail(t) \in Texts
  BY HeadTailProperties DEF Texts
<1>3. Unsigned(t) \in Nat /\ (t # <<>> => Unsigned(Tail(t)) \in Nat)
  BY <1>2, UnsignedNat
<1> QED BY <1>1, <1>3 DEF strtol

LEMMA PowersAre ==
  /\ Powers[1] = 1 /\ Powers[2] = 10 /\ Powers[3] = 100 /\ Powers[4] = 1000
  /\ Powers[5] = 10000
BY DEF Powers

LEMMA WidthRange ==
  ASSUME NEW n \in Nat, n < TooLarge
  PROVE  /\ Width(n) \in 1..5 /\ n < 10 * Powers[Width(n)]
         /\ Width(n) > 1 => Powers[Width(n)] <= n
<1>1. \E w \in 1..5 : n < 10 * Powers[w] /\ (w > 1 => Powers[w] <= n)
  <2>1. CASE n < 10
    <3>1. 1 \in 1..5 /\ n < 10 * Powers[1] /\ (1 > 1 => Powers[1] <= n)
      BY <2>1, PowersAre
    <3> QED BY <3>1
  <2>2. CASE n >= 10 /\ n < 100
    <3>1. 2 \in 1..5 /\ n < 10 * Powers[2] /\ (2 > 1 => Powers[2] <= n)
      BY <2>2, PowersAre
    <3> QED BY <3>1
  <2>3. CASE n >= 100 /\ n < 1000
    <3>1. 3 \in 1..5 /\ n < 10 * Powers[3] /\ (3 > 1 => Powers[3] <= n)
      BY <2>3, PowersAre
    <3> QED BY <3>1
  <2>4. CASE n >= 1000 /\ n < 10000
    <3>1. 4 \in 1..5 /\ n < 10 * Powers[4] /\ (4 > 1 => Powers[4] <= n)
      BY <2>4, PowersAre
    <3> QED BY <3>1
  <2>5. CASE n >= 10000
    <3>1. 5 \in 1..5 /\ n < 10 * Powers[5] /\ (5 > 1 => Powers[5] <= n)
      BY <2>5, PowersAre DEF TooLarge
    <3> QED BY <3>1
  <2> QED BY <2>1, <2>2, <2>3, <2>4, <2>5
<1> QED BY <1>1 DEF Width

\* The digit of n at the place worth m.
Place(n, m) == (n \div m) % 10

LEMMA DecimalDigits ==
  ASSUME NEW n \in Nat, n < TooLarge
  PROVE  /\ Decimal(n) \in Texts /\ Len(Decimal(n)) = Width(n)
         /\ \A i \in 1..Width(n) :
              /\ Contains(Digits, Decimal(n)[i])
              /\ Decimal(n)[i] \notin Marks \cup {":"}
              /\ Value(Decimal(n)[i]) = Place(n, Powers[Width(n) + 1 - i])
<1>1. Width(n) \in 1..5
  BY WidthRange
<1>2. ASSUME NEW j \in 1..5 PROVE Place(n, Powers[j]) \in 0..9
  <2>1. Powers[j] \in {1, 10, 100, 1000, 10000}
    BY PowersAre
  <2> QED BY <2>1 DEF Place
<1>3. \A i \in 1..Width(n) : Width(n) + 1 - i \in 1..5
  BY <1>1
<1>4. \A i \in 1..Width(n) : Decimal(n)[i] = Digits[Place(n, Powers[Width(n) + 1 - i]) + 1]
  BY DEF Decimal, Place
<1>5. ASSUME NEW i \in 1..Width(n)
      PROVE  /\ Contains(Digits, Decimal(n)[i]) /\ Decimal(n)[i] \in Characters
             /\ Decimal(n)[i] \notin Marks \cup {":"}
             /\ Value(Decimal(n)[i]) = Place(n, Powers[Width(n) + 1 - i])
  BY <1>2, <1>3, <1>4, ValueOfDigit
<1>6. DOMAIN Decimal(n) = 1..Width(n) /\ Decimal(n) = [i \in 1..Width(n) |-> Decimal(n)[i]]
  BY DEF Decimal
<1>7. Decimal(n) \in Texts
  <2>1. Decimal(n) \in [1..Width(n) -> Characters]
    BY <1>5, <1>6
  <2>2. Width(n) \in Nat
    BY <1>1
  <2> QED BY <2>1, <2>2, SeqDef, Zenon DEF Texts
<1>8. Len(Decimal(n)) = Width(n)
  BY <1>1, <1>6, <1>7, LenProperties DEF Texts
<1> QED BY <1>5, <1>7, <1>8

LEMMA StrtolDecimal ==
  ASSUME NEW n \in Nat, n < TooLarge
  PROVE  strtol(Decimal(n)) = n
<1> DEFINE w == Width(n)
           v == Numbers(Decimal(n))
           d == [j \in 1..5 |-> Place(n, Powers[j])]
<1>1. /\ Decimal(n) \in Texts /\ Len(Decimal(n)) = w /\ w \in 1..5
      /\ Leading(Decimal(n)) = Decimal(n)
      /\ Counts(v, Decimal(n))
  BY DecimalDigits, WidthRange, LeadingDigits, NumbersCount
<1>2. strtol(Decimal(n)) = v[w]
  <2>1. Unsigned(Decimal(n)) = v[w]
    BY <1>1 DEF Unsigned
  <2>2. Contains(Digits, Decimal(n)[1])
    BY <1>1, DecimalDigits
  <2>3. Decimal(n)[1] \in {"0", "1", "2", "3", "4", "5", "6", "7", "8", "9"}
    BY <2>2 DEF Contains, Digits
  <2>4. Trimmed(Decimal(n)) = Decimal(n) /\ Decimal(n)[1] \notin {"-", "+"}
    BY <1>1, <2>3, TrimmedText DEF Spaces
  <2> QED BY <2>1, <2>4 DEF strtol
<1>3. v[0] = 0 /\ \A i \in 1..w : v[i] = 10 * v[i - 1] + d[w + 1 - i]
  <2>1. \A i \in 1..w : w + 1 - i \in 1..5
    BY <1>1
  <2>2. ASSUME NEW i \in 1..w PROVE Value(Decimal(n)[i]) = d[w + 1 - i]
    BY <2>1, DecimalDigits
  <2> QED BY <1>1, <2>2 DEF Counts
<1>4. n < 10 * Powers[w]
  BY WidthRange
<1>5. d[1] = n % 10 /\ d[2] = (n \div 10) % 10 /\ d[3] = (n \div 100) % 10
      /\ d[4] = (n \div 1000) % 10 /\ d[5] = (n \div 10000) % 10
  BY PowersAre DEF Place
<1> HIDE DEF w, v, d
<1> QED
  <2>1. CASE w = 1
    <3>1. v[1] = 10 * v[0] + d[1]
      BY <1>3, <2>1
    <3> QED BY <1>2, <1>3, <1>4, <1>5, <2>1, <3>1, PowersAre
  <2>2. CASE w = 2
    <3>1. v[1] = 10 * v[0] + d[2] /\ v[2] = 10 * v[1] + d[1]
      BY <1>3, <2>2
    <3> QED BY <1>2, <1>3, <1>4, <1>5, <2>2, <3>1, PowersAre
  <2>3. CASE w = 3
    <3>1. v[1] = 10 * v[0] + d[3] /\ v[2] = 10 * v[1] + d[2] /\ v[3] = 10 * v[2] + d[1]
      BY <1>3, <2>3
    <3> QED BY <1>2, <1>3, <1>4, <1>5, <2>3, <3>1, PowersAre
  <2>4. CASE w = 4
    <3>1. /\ v[1] = 10 * v[0] + d[4] /\ v[2] = 10 * v[1] + d[3] /\ v[3] = 10 * v[2] + d[2]
          /\ v[4] = 10 * v[3] + d[1]
      BY <1>3, <2>4
    <3> QED BY <1>2, <1>3, <1>4, <1>5, <2>4, <3>1, PowersAre
  <2>5. CASE w = 5
    <3>1. /\ v[1] = 10 * v[0] + d[5] /\ v[2] = 10 * v[1] + d[4] /\ v[3] = 10 * v[2] + d[3]
          /\ v[4] = 10 * v[3] + d[2] /\ v[5] = 10 * v[4] + d[1]
      BY <1>3, <2>5
    <3>2. /\ n = 10 * (n \div 10) + d[1]
          /\ n \div 10 = 10 * (n \div 100) + d[2]
          /\ n \div 100 = 10 * (n \div 1000) + d[3]
          /\ n \div 1000 = 10 * (n \div 10000) + d[4]
      BY <1>5
    <3>3. n \div 10000 = d[5]
      BY <1>4, <1>5, <2>5, PowersAre
    <3> QED BY <1>2, <1>3, <2>5, <3>1, <3>2, <3>3
  <2> QED BY <1>1, <2>1, <2>2, <2>3, <2>4, <2>5

-----------------------------------------------------------------------------
(* Texts *)

LEMMA Concat ==
  ASSUME NEW a \in Texts, NEW b \in Texts
  PROVE  /\ a \o b \in Texts /\ Len(a \o b) = Len(a) + Len(b)
         /\ Len(a) \in Nat /\ Len(b) \in Nat
         /\ \A i \in 1..Len(a) : (a \o b)[i] = a[i]
         /\ \A i \in (Len(a) + 1)..(Len(a) + Len(b)) : (a \o b)[i] = b[i - Len(a)]
<1>1. Len(a) \in Nat /\ Len(b) \in Nat
  BY DEF Texts
<1>2. /\ a \o b \in Texts /\ Len(a \o b) = Len(a) + Len(b)
      /\ \A i \in 1..Len(a) + Len(b) : (a \o b)[i] =
           IF i <= Len(a) THEN a[i] ELSE b[i - Len(a)]
  BY ConcatProperties DEF Texts
<1> QED BY <1>1, <1>2

\* The first n characters of a text.
LEMMA Cut ==
  ASSUME NEW s \in Texts, NEW n \in 0..Len(s)
  PROVE  /\ SubSeq(s, 1, n) \in Texts /\ Len(SubSeq(s, 1, n)) = n
         /\ \A i \in 1..n : SubSeq(s, 1, n)[i] = s[i]
<1>1. \A i \in 1..n : s[i] \in Characters
  BY DEF Texts
<1> QED BY <1>1, SubSeqProperties DEF Texts

LEMMA Marked == {"(", ")", " ", Zero, ":", "/", "@", "stale"} \subseteq Characters
BY HdsAssumption DEF Marks, Blanks

LEMMA NoText == <<>> \in Texts /\ Len(<<>>) = 0
BY DEF Texts

LEMMA OneCharacter ==
  ASSUME NEW x \in Characters
  PROVE  <<x>> \in Texts /\ Len(<<x>>) = 1 /\ <<x>>[1] = x
BY DEF Texts

LEMMA ConcatOne ==
  ASSUME NEW b \in Texts, NEW x \in Characters
  PROVE  /\ b \o <<x>> \in Texts /\ Len(b \o <<x>>) = Len(b) + 1 /\ Len(b) \in Nat
         /\ \A i \in 1..Len(b) : (b \o <<x>>)[i] = b[i]
         /\ (b \o <<x>>)[Len(b) + 1] = x
<1> DEFINE y == <<x>>
<1>1. y \in Texts /\ Len(y) = 1 /\ y[1] = x
  BY OneCharacter
<1> HIDE DEF y
<1>2. /\ b \o y \in Texts /\ Len(b \o y) = Len(b) + Len(y) /\ Len(b) \in Nat
      /\ \A i \in 1..Len(b) : (b \o y)[i] = b[i]
      /\ \A i \in (Len(b) + 1)..(Len(b) + Len(y)) : (b \o y)[i] = y[i - Len(b)]
  BY <1>1, Concat
<1>3. Len(b) + 1 \in (Len(b) + 1)..(Len(b) + Len(y)) /\ Len(b) + 1 - Len(b) = 1
  BY <1>1, <1>2
<1>4. (b \o y)[Len(b) + 1] = x
  BY <1>1, <1>2, <1>3
<1> QED BY <1>1, <1>2, <1>4 DEF y

\* Text b stands in w behind its first n characters.
Occurs(b, w, n) == \A i \in (n + 1)..(n + Len(b)) : w[i] = b[i - n]

LEMMA Joined ==
  ASSUME NEW a \in Texts, NEW b \in Texts
  PROVE  /\ a \o b \in Texts /\ Len(a \o b) = Len(a) + Len(b)
         /\ Len(a) \in Nat /\ Len(b) \in Nat
BY Concat

LEMMA OccursWhole ==
  ASSUME NEW a \in Texts
  PROVE  Occurs(a, a, 0)
<1>1. Len(a) \in Nat
  BY DEF Texts
<1> QED BY <1>1 DEF Occurs

LEMMA OccursParts ==
  ASSUME NEW a \in Texts, NEW b \in Texts, NEW w, NEW n \in Nat, Occurs(a \o b, w, n)
  PROVE  Occurs(a, w, n) /\ Occurs(b, w, n + Len(a))
<1> DEFINE ab == a \o b
<1>1. /\ Len(ab) = Len(a) + Len(b) /\ Len(a) \in Nat /\ Len(b) \in Nat
      /\ \A i \in 1..Len(a) : ab[i] = a[i]
      /\ \A i \in (Len(a) + 1)..(Len(a) + Len(b)) : ab[i] = b[i - Len(a)]
  BY Concat
<1>2. \A i \in (n + 1)..(n + Len(ab)) : w[i] = ab[i - n]
  BY DEF Occurs
<1> HIDE DEF ab
<1>3. ASSUME NEW i \in (n + 1)..(n + Len(a)) PROVE w[i] = a[i - n]
  <2>1. i \in (n + 1)..(n + Len(ab)) /\ i - n \in 1..Len(a)
    BY <1>1
  <2> QED BY <1>1, <1>2, <2>1
<1>4. ASSUME NEW i \in (n + Len(a) + 1)..(n + Len(a) + Len(b)) PROVE w[i] = b[i - (n + Len(a))]
  <2>1. /\ i \in (n + 1)..(n + Len(ab)) /\ i - n \in (Len(a) + 1)..(Len(a) + Len(b))
        /\ i - (n + Len(a)) = (i - n) - Len(a)
    BY <1>1
  <2> QED BY <1>1, <1>2, <2>1
<1> QED BY <1>3, <1>4 DEF Occurs

LEMMA OccursOne ==
  ASSUME NEW x \in Characters, NEW w, NEW n \in Nat, Occurs(<<x>>, w, n)
  PROVE  w[n + 1] = x
<1> DEFINE y == <<x>>
<1>1. y \in Texts /\ Len(y) = 1 /\ y[1] = x
  BY OneCharacter
<1>2. \A i \in (n + 1)..(n + Len(y)) : w[i] = y[i - n]
  BY DEF Occurs
<1> HIDE DEF y
<1>3. n + 1 \in (n + 1)..(n + Len(y)) /\ (n + 1) - n = 1
  BY <1>1
<1> QED BY <1>1, <1>2, <1>3

\* Reading on in a text.
LEMMA Grows ==
  ASSUME NEW S, NEW s \in Seq(S), NEW k \in 0..(Len(s) - 1)
  PROVE  Append(SubSeq(s, 1, k), s[k + 1]) = SubSeq(s, 1, k + 1)
<1> DEFINE a == SubSeq(s, 1, k)
           b == SubSeq(s, 1, k + 1)
<1>1. Len(s) \in Nat /\ \A i \in 1..Len(s) : s[i] \in S
  OBVIOUS
<1>2. a \in Seq(S) /\ Len(a) = k /\ \A i \in 1..k : a[i] = s[i]
  BY <1>1, SubSeqProperties
<1>3. b \in Seq(S) /\ Len(b) = k + 1 /\ \A i \in 1..(k + 1) : b[i] = s[i]
  BY <1>1, SubSeqProperties
<1>4. s[k + 1] \in S
  BY <1>1
<1> HIDE DEF a, b
<1> DEFINE d == Append(a, s[k + 1])
<1>5. d \in Seq(S) /\ Len(d) = k + 1 /\ \A i \in 1..k : d[i] = a[i]
  BY <1>2, <1>4, AppendProperties
<1>6. d[k + 1] = s[k + 1]
  BY <1>2, <1>4, AppendProperties
<1> HIDE DEF d
<1>7. \A i \in 1..Len(d) : d[i] = b[i]
  BY <1>1, <1>2, <1>3, <1>5, <1>6
<1>8. d = b
  BY <1>3, <1>5, <1>7, SeqEqual
<1> QED BY <1>8 DEF a, b, d

LEMMA Ends ==
  ASSUME NEW S, NEW s \in Seq(S)
  PROVE  SubSeq(s, 1, 0) = <<>> /\ SubSeq(s, 1, Len(s)) = s
<1>1. Len(s) \in Nat /\ \A i \in 1..Len(s) : s[i] \in S
  OBVIOUS
<1>2. /\ SubSeq(s, 1, Len(s)) \in Seq(S) /\ Len(SubSeq(s, 1, Len(s))) = Len(s)
      /\ \A i \in 1..Len(s) : SubSeq(s, 1, Len(s))[i] = s[i]
  BY <1>1, SubSeqProperties
<1>3. SubSeq(s, 1, Len(s)) = s
  BY <1>2, SeqEqual
<1>4. SubSeq(s, 1, 0) = <<>>
  BY <1>1, EmptySeq, SubSeqProperties
<1> QED BY <1>3, <1>4

\* fl[k] are the first k texts of s, one behind the other.
Flattens(fl, s) ==
  /\ fl \in [0..Len(s) -> Texts] /\ fl[0] = <<>>
  /\ \A k \in 1..Len(s) : fl[k] = fl[k - 1] \o s[k]

LEMMA FlattensExists ==
  ASSUME NEW s \in Seq(Texts)
  PROVE  \E fl : Flattens(fl, s)
<1> DEFINE G(k, v) == /\ v \in [0..k -> Texts] /\ v[0] = <<>>
                      /\ \A i \in 1..k : v[i] = v[i - 1] \o s[i]
<1> DEFINE Bad == {k \in 0..Len(s) : ~\E v : G(k, v)}
<1> HIDE DEF G
<1>1. Len(s) \in Nat /\ \A i \in 1..Len(s) : s[i] \in Texts
  OBVIOUS
<1>2. ASSUME Bad # {} PROVE FALSE
  <2>1. Bad \in SUBSET Nat
    BY <1>1
  <2> HIDE DEF Bad
  <2>2. PICK k \in Bad : \A m \in Bad : k <= m
    BY <1>2, <2>1, Least
  <2>3. k \in 0..Len(s)
    BY DEF Bad
  <2>4. CASE k = 0
    <3> DEFINE w == [i \in 0..0 |-> <<>>]
    <3>1. w \in [0..0 -> Texts] /\ w[0] = <<>>
      BY NoText
    <3>2. G(0, w)
      BY <3>1 DEF G
    <3> QED BY <2>2, <2>4, <3>2 DEF Bad
  <2>5. CASE k # 0
    <3>1. k - 1 \in 0..Len(s) /\ ~(k <= k - 1) /\ k \in 1..Len(s)
      BY <1>1, <2>3, <2>5
    <3>2. PICK v : G(k - 1, v)
      BY <2>2, <3>1 DEF Bad
    <3> DEFINE w == [i \in 0..k |-> IF i < k THEN v[i] ELSE v[k - 1] \o s[k]]
    <3>3. v[k - 1] \o s[k] \in Texts
      BY <1>1, <3>1, <3>2, Concat DEF G
    <3>4. w \in [0..k -> Texts] /\ w[0] = <<>>
      BY <3>1, <3>2, <3>3 DEF G
    <3>5. \A i \in 1..k : w[i] = w[i - 1] \o s[i]
      BY <3>1, <3>2 DEF G
    <3>6. G(k, w)
      BY <3>4, <3>5 DEF G
    <3> QED BY <2>2, <3>6 DEF Bad
  <2> QED BY <2>4, <2>5
<1>3. Len(s) \notin Bad
  BY <1>2
<1>4. \E v : G(Len(s), v)
  BY <1>1, <1>3
<1> QED BY <1>4 DEF Flattens, G

LEMMA FlattenSeqFlattens ==
  ASSUME NEW s \in Seq(Texts), NEW fl, Flattens(fl, s)
  PROVE  FlattenSeq(s) = fl[Len(s)]
<1>1. Len(s) \in Nat
  OBVIOUS
<1>2. CASE Len(s) = 0
  <2>1. s = <<>> /\ FlattenSeq(s) = s
    BY <1>2 DEF FlattenSeq
  <2> QED BY <1>2, <2>1 DEF Flattens
<1>3. CASE Len(s) # 0
  <2> DEFINE R(g) == g = [i \in 1..Len(s) |-> IF i = 1 THEN s[i] ELSE g[i - 1] \o s[i]]
             g == CHOOSE v : R(v)
             u == [i \in 1..Len(s) |-> fl[i]]
  <2>1. FlattenSeq(s) = g[Len(s)]
    BY <1>3 DEF FlattenSeq
  <2>2. fl[1] = s[1]
    <3>1. fl[1] = fl[0] \o s[1] /\ fl[0] = <<>> /\ s[1] \in Texts
      BY <1>1, <1>3 DEF Flattens
    <3> QED BY <3>1, ConcatEmptySeq DEF Texts
  <2>3. R(u)
    BY <1>1, <2>2 DEF Flattens
  <2>4. R(g)
    BY <2>3
  <2> HIDE DEF g
  <2> DEFINE Bad == {k \in 1..Len(s) : g[k] # fl[k]}
  <2>5. ASSUME Bad # {} PROVE FALSE
    <3>1. Bad \in SUBSET Nat
      BY <1>1
    <3> HIDE DEF Bad
    <3>2. PICK k \in Bad : \A m \in Bad : k <= m
      BY <2>5, <3>1, Least
    <3>3. k \in 1..Len(s) /\ g[k] # fl[k] /\ (k > 1 => g[k - 1] = fl[k - 1])
      BY <1>1, <3>2 DEF Bad
    <3> QED BY <1>1, <2>2, <2>4, <3>3 DEF Flattens
  <2>6. g[Len(s)] = fl[Len(s)]
    BY <1>1, <1>3, <2>5
  <2> QED BY <2>1, <2>6
<1> QED BY <1>2, <1>3

\* The first k texts are where they are in all of them.
LEMMA FlattensBegins ==
  ASSUME NEW s \in Seq(Texts), NEW fl, Flattens(fl, s), NEW k \in 0..Len(s)
  PROVE  /\ fl[k] \in Texts /\ Len(fl[k]) \in Nat
         /\ Len(fl[k]) <= Len(fl[Len(s)]) /\ Occurs(fl[k], fl[Len(s)], 0)
<1> DEFINE N == Len(s)
           G(m) == Len(fl[m]) <= Len(fl[N]) /\ Occurs(fl[m], fl[N], 0)
           Bad == {m \in 0..N : ~G(N - m)}
<1>1. N \in Nat /\ \A m \in 0..N : fl[m] \in Texts /\ Len(fl[m]) \in Nat
  <2>1. \A m \in 0..N : fl[m] \in Texts
    BY DEF Flattens
  <2> QED BY <2>1 DEF Texts
<1> HIDE DEF G
<1>2. ASSUME Bad # {} PROVE FALSE
  <2>1. Bad \in SUBSET Nat
    BY <1>1
  <2> HIDE DEF Bad
  <2>2. PICK m \in Bad : \A j \in Bad : m <= j
    BY <1>2, <2>1, Least
  <2>3. m \in 0..N /\ ~G(N - m)
    BY DEF Bad
  <2>4. m # 0
    BY <1>1, <2>3, OccursWhole DEF G
  <2>5. PICK j \in 1..N : /\ m - 1 \in 0..N /\ ~(m <= m - 1) /\ N - (m - 1) = j
                          /\ j - 1 \in 0..N /\ j \in 0..N /\ N - m = j - 1
    <3>1. /\ N - m + 1 \in 1..N /\ m - 1 \in 0..N /\ ~(m <= m - 1)
          /\ N - (m - 1) = N - m + 1 /\ N - m + 1 - 1 \in 0..N /\ N - m + 1 \in 0..N
          /\ N - m = N - m + 1 - 1
      BY <1>1, <2>3, <2>4
    <3> QED BY <3>1
  <2>6. Len(fl[j]) <= Len(fl[N]) /\ Occurs(fl[j], fl[N], 0)
    BY <2>2, <2>5 DEF Bad, G
  <2>7. fl[j] = fl[j - 1] \o s[j] /\ s[j] \in Texts /\ fl[j - 1] \in Texts
    <3>1. fl[j - 1] \in Texts
      BY <1>1, <2>5
    <3> QED BY <3>1 DEF Flattens
  <2>8. PICK a \in Texts, b \in Texts : a = fl[j - 1] /\ b = s[j]
    BY <2>7
  <2>9. PICK x, y : x = fl[j] /\ y = fl[N]
    OBVIOUS
  <2>10. Len(x) <= Len(y) /\ x = a \o b /\ Occurs(a \o b, y, 0)
    BY <2>6, <2>7, <2>8, <2>9
  <2>11. Len(x) = Len(a) + Len(b) /\ Len(a) \in Nat /\ Len(b) \in Nat
    BY <2>10, Joined
  <2>12. Occurs(a, y, 0)
    BY <2>10, OccursParts
  <2>13. Len(y) \in Nat
    BY <1>1, <2>9
  <2>14. Len(a) <= Len(y)
    BY <2>10, <2>11, <2>13
  <2>15. G(j - 1)
    BY <2>8, <2>9, <2>12, <2>14 DEF G
  <2> QED BY <2>3, <2>5, <2>15
<1>3. N - k \in 0..N /\ N - (N - k) = k
  BY <1>1
<1>4. N - k \notin Bad
  BY <1>2
<1>5. G(k)
  BY <1>3, <1>4
<1> QED BY <1>1, <1>5 DEF G

\* Where the k-th text is in all of them.
LEMMA FlattensInside ==
  ASSUME NEW s \in Seq(Texts), NEW fl, Flattens(fl, s), NEW k \in 1..Len(s)
  PROVE  /\ Len(fl[k]) = Len(fl[k - 1]) + Len(s[k]) /\ Len(fl[k - 1]) \in Nat
         /\ Len(fl[k]) <= Len(fl[Len(s)])
         /\ Occurs(s[k], fl[Len(s)], Len(fl[k - 1]))
<1>1. Len(s) \in Nat /\ k - 1 \in 0..Len(s) /\ k \in 0..Len(s)
  OBVIOUS
<1>2. fl[k] = fl[k - 1] \o s[k] /\ fl[k - 1] \in Texts /\ s[k] \in Texts
  BY <1>1 DEF Flattens
<1>3. Occurs(fl[k], fl[Len(s)], 0) /\ Len(fl[k]) <= Len(fl[Len(s)])
  BY <1>1, FlattensBegins
<1>4. Len(fl[k]) = Len(fl[k - 1]) + Len(s[k]) /\ Len(fl[k - 1]) \in Nat
  BY <1>2, Joined
<1>5. Occurs(s[k], fl[Len(s)], 0 + Len(fl[k - 1]))
  BY <1>2, <1>3, OccursParts
<1>6. 0 + Len(fl[k - 1]) = Len(fl[k - 1])
  BY <1>4
<1>7. Occurs(s[k], fl[Len(s)], Len(fl[k - 1]))
  BY <1>5, <1>6, Zenon
<1> QED BY <1>3, <1>4, <1>7

-----------------------------------------------------------------------------
(* Where the parts of a handshake are in its encoding *)

Caps(h) == [i \in DOMAIN h.caps |-> h.caps[i] \o <<" ">>]

\* The capabilities as they are encoded, and the first k of them.
List(h) == FlattenSeq(Caps(h))
Upto(h) == CHOOSE fl : Flattens(fl, Caps(h))

\* Where the first k capabilities end, and how long one is.
End(h, k) == Len(Upto(h)[k])
Long(h, k) == Len(h.caps[k])

LEMMA HandshakeTypes ==
  ASSUME NEW h \in Handshakes
  PROVE  /\ h.version \in 0..9 /\ h.caps \in Seq(Seq(Characters \ Marks) \ {<<>>})
         /\ h.url \in Urls /\ h.ra \in Texts /\ h.client \in Seq(Characters \ {Zero})
         /\ Len(Url(h.url)) < TooLarge /\ Len(h.ra) < TooLarge
         /\ Len(h.client) < TooLarge
BY HdsAssumption

LEMMA CapTypes ==
  ASSUME NEW h \in Handshakes, NEW k \in 1..Len(h.caps)
  PROVE  /\ h.caps[k] \in Texts /\ Len(h.caps[k]) \in Nat /\ h.caps[k] # <<>>
         /\ \A j \in 1..Len(h.caps[k]) : h.caps[k][j] \in Characters \ Marks
<1>1. h.caps[k] \in Seq(Characters \ Marks) /\ h.caps[k] # <<>>
  BY HandshakeTypes
<1> QED BY <1>1, SeqMonotonic DEF Texts

LEMMA CapsTypes ==
  ASSUME NEW h \in Handshakes
  PROVE  /\ Len(h.caps) \in Nat /\ Caps(h) \in Seq(Texts) /\ Len(Caps(h)) = Len(h.caps)
         /\ \A k \in 1..Len(h.caps) : Caps(h)[k] = h.caps[k] \o <<" ">>
<1> DEFINE n == Len(h.caps)
           g(k) == h.caps[k] \o <<" ">>
<1>1. n \in Nat /\ DOMAIN h.caps = 1..n
  BY HandshakeTypes
<1>2. <<" ">> \in Texts
  BY Marked, OneCharacter
<1>3. \A k \in 1..n : g(k) \in Texts
  BY <1>2, CapTypes, Joined
<1>4. Caps(h) = [k \in 1..n |-> g(k)]
  BY <1>1 DEF Caps
<1> HIDE DEF g
<1>5. Caps(h) \in Seq(Texts)
  BY <1>1, <1>3, <1>4, IsASeq
<1>6. DOMAIN Caps(h) = 1..n
  BY <1>4
<1>7. Len(Caps(h)) = n
  BY <1>1, <1>5, <1>6, LenProperties
<1>8. \A k \in 1..n : Caps(h)[k] = g(k)
  BY <1>4
<1> QED BY <1>1, <1>5, <1>7, <1>8 DEF g

LEMMA UptoFlattens ==
  ASSUME NEW h \in Handshakes
  PROVE  /\ Flattens(Upto(h), Caps(h)) /\ List(h) = Upto(h)[Len(h.caps)]
         /\ Upto(h)[0] = <<>> /\ List(h) \in Texts /\ Len(List(h)) \in Nat
<1>1. Len(h.caps) \in Nat /\ Caps(h) \in Seq(Texts) /\ Len(Caps(h)) = Len(h.caps)
  BY CapsTypes
<1>2. Flattens(Upto(h), Caps(h))
  BY <1>1, FlattensExists DEF Upto
<1>3. FlattenSeq(Caps(h)) = Upto(h)[Len(Caps(h))]
  BY <1>1, <1>2, FlattenSeqFlattens
<1>4. List(h) = Upto(h)[Len(h.caps)] /\ List(h) \in Texts /\ Upto(h)[0] = <<>>
  BY <1>1, <1>2, <1>3 DEF List, Flattens
<1> QED BY <1>2, <1>4 DEF Texts

\* Capability k + 1 follows the first k, and a blank follows it.
LEMMA CapsLayout ==
  ASSUME NEW h \in Handshakes, NEW k \in 0..(Len(h.caps) - 1)
  PROVE  /\ End(h, k) \in Nat /\ End(h, k + 1) <= Len(List(h))
         /\ Occurs(h.caps[k + 1], List(h), End(h, k))
         /\ Long(h, k + 1) \in Nat /\ End(h, k + 1) = End(h, k) + Long(h, k + 1) + 1
         /\ List(h)[End(h, k) + Long(h, k + 1) + 1] = " "
<1> DEFINE n == Len(h.caps)
           y == <<" ">>
<1>1. n \in Nat /\ Caps(h) \in Seq(Texts) /\ Len(Caps(h)) = n
      /\ Flattens(Upto(h), Caps(h)) /\ List(h) = Upto(h)[n]
  BY CapsTypes, UptoFlattens
<1>2. PICK m \in 1..n : m = k + 1 /\ k = m - 1
  BY <1>1
<1>3. PICK b \in Texts : b = h.caps[m]
  BY CapTypes
<1>4. Caps(h)[m] = b \o y
  BY <1>1, <1>3, CapsTypes
<1>5. y \in Texts /\ Len(y) = 1 /\ " " \in Characters
  BY Marked, OneCharacter
<1>6. Len(b \o y) = Len(b) + 1 /\ Len(b) \in Nat /\ b \o y \in Texts
  BY <1>5, Joined
<1>7. /\ Len(Upto(h)[m]) = Len(Upto(h)[m - 1]) + Len(Caps(h)[m])
      /\ Len(Upto(h)[m - 1]) \in Nat /\ Len(Upto(h)[m]) <= Len(Upto(h)[n])
      /\ Occurs(Caps(h)[m], Upto(h)[n], Len(Upto(h)[m - 1]))
  BY <1>1, FlattensInside
<1> HIDE DEF y, n
<1>8. /\ End(h, m) = End(h, k) + Len(b \o y) /\ End(h, k) \in Nat
      /\ End(h, m) <= Len(List(h)) /\ Occurs(b \o y, List(h), End(h, k))
  BY <1>1, <1>2, <1>4, <1>7, Zenon DEF End
<1>9. PICK e \in Nat : e = End(h, k)
  BY <1>8
<1>10. Occurs(b, List(h), e) /\ Occurs(y, List(h), e + Len(b))
  BY <1>5, <1>8, <1>9, OccursParts
<1>11. List(h)[e + Len(b) + 1] = " "
  <2>1. PICK f \in Nat : f = e + Len(b)
    BY <1>6
  <2>2. List(h)[f + 1] = " "
    BY <1>5, <1>10, <2>1, OccursOne DEF y
  <2> QED BY <2>1, <2>2
<1>12. End(h, m) = e + Len(b) + 1
  BY <1>6, <1>8, <1>9
<1>13. End(h, k) \in Nat /\ End(h, k + 1) <= Len(List(h)) /\ Occurs(h.caps[k + 1], List(h), End(h, k))
  BY <1>2, <1>3, <1>8, <1>9, <1>10
<1>14. Long(h, k + 1) = Len(b)
  BY <1>2, <1>3 DEF Long
<1> QED BY <1>2, <1>6, <1>9, <1>11, <1>12, <1>13, <1>14

LEMMA TwoCharacters ==
  ASSUME NEW x \in Characters, NEW y \in Characters
  PROVE  <<x, y>> \in Texts /\ Len(<<x, y>>) = 2 /\ <<x, y>>[1] = x /\ <<x, y>>[2] = y
BY DEF Texts

LEMMA OccursTwo ==
  ASSUME NEW x \in Characters, NEW y \in Characters, NEW w, NEW n \in Nat,
         Occurs(<<x, y>>, w, n)
  PROVE  w[n + 1] = x /\ w[n + 2] = y
<1> DEFINE z == <<x, y>>
<1>1. z \in Texts /\ Len(z) = 2 /\ z[1] = x /\ z[2] = y
  BY TwoCharacters
<1>2. \A i \in (n + 1)..(n + Len(z)) : w[i] = z[i - n]
  BY DEF Occurs
<1> HIDE DEF z
<1>3. /\ n + 1 \in (n + 1)..(n + Len(z)) /\ (n + 1) - n = 1
      /\ n + 2 \in (n + 1)..(n + Len(z)) /\ (n + 2) - n = 2
  BY <1>1
<1> QED BY <1>1, <1>2, <1>3

LEMMA ParenTexts ==
  Left \in Texts /\ Len(Left) = 2 /\ Right \in Texts /\ Len(Right) = 2
BY Marked, TwoCharacters DEF Left, Right

LEMMA OccursLeft ==
  ASSUME NEW w, NEW n \in Nat, Occurs(Left, w, n)
  PROVE  w[n + 1] = "(" /\ w[n + 2] = " "
<1>1. PICK x \in Characters, y \in Characters : x = "(" /\ y = " "
  BY Marked
<1>2. Occurs(<<x, y>>, w, n)
  BY <1>1 DEF Left
<1>3. w[n + 1] = x /\ w[n + 2] = y
  BY <1>2, OccursTwo
<1> QED BY <1>1, <1>3

LEMMA OccursRight ==
  ASSUME NEW w, NEW n \in Nat, Occurs(Right, w, n)
  PROVE  w[n + 1] = ")" /\ w[n + 2] = " "
<1>1. PICK x \in Characters, y \in Characters : x = ")" /\ y = " "
  BY Marked
<1>2. Occurs(<<x, y>>, w, n)
  BY <1>1 DEF Right
<1>3. w[n + 1] = x /\ w[n + 2] = y
  BY <1>2, OccursTwo
<1> QED BY <1>1, <1>3

\* What is before the capabilities.
Heading(h) == (Left \o <<Digits[h.version + 1], " ">>) \o Left

LEMMA HeadingText ==
  ASSUME NEW h \in Handshakes
  PROVE  /\ Heading(h) \in Texts /\ Len(Heading(h)) = 6
         /\ \A w : Occurs(Heading(h), w, 0) =>
              /\ w[1] = "(" /\ w[2] = " " /\ w[3] = Digits[h.version + 1] /\ w[4] = " "
              /\ w[5] = "(" /\ w[6] = " "
<1>1. PICK d \in Characters, b \in Characters : d = Digits[h.version + 1] /\ b = " "
  BY HandshakeTypes, ValueOfDigit, Marked
<1> DEFINE y == <<d, b>>
<1>2. y \in Texts /\ Len(y) = 2
  BY TwoCharacters
<1>3. Heading(h) = (Left \o y) \o Left
  BY <1>1 DEF Heading
<1> HIDE DEF y
<1>4. Left \o y \in Texts /\ Len(Left \o y) = 4
  <2>1. Left \o y \in Texts /\ Len(Left \o y) = Len(Left) + Len(y)
    BY <1>2, ParenTexts, Joined, Zenon
  <2> QED BY <1>2, <2>1, ParenTexts
<1>5. (Left \o y) \o Left \in Texts /\ Len((Left \o y) \o Left) = 6
  <2>1. /\ (Left \o y) \o Left \in Texts
        /\ Len((Left \o y) \o Left) = Len(Left \o y) + Len(Left)
    BY <1>4, ParenTexts, Joined, Zenon
  <2> QED BY <1>4, <2>1, ParenTexts
<1>6. ASSUME NEW w, Occurs(Heading(h), w, 0)
      PROVE  /\ w[1] = "(" /\ w[2] = " " /\ w[3] = d /\ w[4] = " " /\ w[5] = "(" /\ w[6] = " "
  <2>1. Occurs(Left \o y, w, 0) /\ Occurs(Left, w, 0 + Len(Left \o y))
    BY <1>2, <1>3, <1>4, <1>6, ParenTexts, OccursParts
  <2>2. Occurs(Left, w, 0) /\ Occurs(y, w, 0 + Len(Left))
    BY <1>2, <2>1, ParenTexts, OccursParts
  <2>3. PICK i \in Nat, j \in Nat, k \in Nat : i = 0 /\ j = 2 /\ k = 4
    OBVIOUS
  <2>4. Occurs(Left, w, i) /\ Occurs(y, w, j) /\ Occurs(Left, w, k)
    <3>1. 0 + Len(Left \o y) = k /\ 0 + Len(Left) = j
      BY <1>4, <2>3, ParenTexts
    <3> QED BY <2>1, <2>2, <2>3, <3>1, Zenon
  <2>5. w[i + 1] = "(" /\ w[i + 2] = " "
    BY <2>4, OccursLeft
  <2>6. w[k + 1] = "(" /\ w[k + 2] = " "
    BY <2>4, OccursLeft
  <2>7. w[j + 1] = d /\ w[j + 2] = b
    <3>1. Occurs(<<d, b>>, w, j)
      BY <2>4 DEF y
    <3> QED BY <3>1, OccursTwo
  <2>8. i + 1 = 1 /\ i + 2 = 2 /\ j + 1 = 3 /\ j + 2 = 4 /\ k + 1 = 5 /\ k + 2 = 6
    BY <2>3
  <2> QED BY <1>1, <2>5, <2>6, <2>7, <2>8, Zenon
<1> QED BY <1>1, <1>3, <1>5, <1>6

LEMMA OpeningText ==
  ASSUME NEW h \in Handshakes
  PROVE  /\ Opening(h) = (Heading(h) \o List(h)) \o Right
         /\ Heading(h) \o List(h) \in Texts /\ Len(Heading(h) \o List(h)) = 6 + Len(List(h))
         /\ Opening(h) \in Texts /\ Len(Opening(h)) = 8 + Len(List(h))
<1>1. Opening(h) = (Heading(h) \o List(h)) \o Right
  BY DEF Opening, Heading, List, Caps
<1>2. /\ Heading(h) \o List(h) \in Texts /\ Len(Heading(h) \o List(h)) = 6 + Len(List(h))
      /\ Len(List(h)) \in Nat
  BY HeadingText, UptoFlattens, Joined
<1> DEFINE f == Heading(h) \o List(h)
<1>3. f \in Texts /\ Len(f) = 6 + Len(List(h)) /\ Opening(h) = f \o Right
  BY <1>1, <1>2
<1> HIDE DEF f
<1>4. f \o Right \in Texts /\ Len(f \o Right) = Len(f) + 2
  BY <1>3, ParenTexts, Joined
<1>5. Opening(h) \in Texts /\ Len(Opening(h)) = 8 + Len(List(h))
  BY <1>2, <1>3, <1>4
<1> QED BY <1>1, <1>2, <1>5

\* The length of a text as an item has it.
Length(s) == Decimal(Len(s))

LEMMA LengthText ==
  ASSUME NEW s \in Texts, Len(s) < TooLarge
  PROVE  /\ Length(s) \in Texts /\ Len(Length(s)) \in Nat \ {0} /\ strtol(Length(s)) = Len(s)
         /\ \A i \in 1..Len(Length(s)) : Length(s)[i] \notin Marks \cup {":"}
<1>1. PICK n \in Nat : n = Len(s) /\ n < TooLarge
  BY DEF Texts
<1> QED BY <1>1, DecimalDigits, WidthRange, StrtolDecimal DEF Length

LEMMA ItemText ==
  ASSUME NEW s \in Texts, Len(s) < TooLarge
  PROVE  /\ Item(s) \in Texts /\ Len(Item(s)) = Len(Length(s)) + 1 + Len(s)
<1> DEFINE y == <<":">>
           d == Length(s)
<1>1. y \in Texts /\ Len(y) = 1 /\ d \in Texts /\ Item(s) = (d \o y) \o s
  BY LengthText, Marked, OneCharacter DEF Item, Length
<1> HIDE DEF y, d
<1>2. d \o y \in Texts /\ Len(d \o y) = Len(d) + 1 /\ Len(d) \in Nat
  BY <1>1, Joined
<1>3. (d \o y) \o s \in Texts /\ Len((d \o y) \o s) = Len(d \o y) + Len(s)
  BY <1>1, <1>2, Joined
<1> QED BY <1>1, <1>2, <1>3 DEF d

LEMMA ItemLayout ==
  ASSUME NEW s \in Texts, Len(s) < TooLarge, NEW w, NEW n \in Nat, Occurs(Item(s), w, n)
  PROVE  /\ Occurs(Length(s), w, n)
         /\ w[n + Len(Length(s)) + 1] = ":"
         /\ Occurs(s, w, n + Len(Length(s)) + 1)
<1> DEFINE y == <<":">>
           d == Length(s)
<1>1. /\ y \in Texts /\ Len(y) = 1 /\ d \in Texts /\ Item(s) = (d \o y) \o s
      /\ ":" \in Characters
  BY LengthText, Marked, OneCharacter DEF Item, Length
<1> HIDE DEF y, d
<1>2. d \o y \in Texts /\ Len(d \o y) = Len(d) + 1 /\ Len(d) \in Nat
  BY <1>1, Joined
<1>3. Occurs((d \o y) \o s, w, n)
  BY <1>1
<1>4. Occurs(d \o y, w, n) /\ Occurs(s, w, n + Len(d \o y))
  BY <1>1, <1>2, <1>3, OccursParts
<1>5. Occurs(d, w, n) /\ Occurs(y, w, n + Len(d))
  BY <1>1, <1>4, OccursParts
<1>6. PICK f \in Nat : f = n + Len(d)
  BY <1>2
<1>7. w[f + 1] = ":"
  BY <1>1, <1>5, <1>6, OccursOne DEF y
<1>8. Occurs(s, w, n + Len(d) + 1)
  <2>1. n + Len(d \o y) = n + Len(d) + 1
    BY <1>2
  <2> QED BY <1>4, <2>1, Zenon
<1> QED BY <1>5, <1>6, <1>7, <1>8 DEF d

LEMMA OptText ==
  ASSUME NEW a \in Texts, NEW s \in Texts, NEW b \in Texts
  PROVE  Opt(a, s, b) \in Texts
<1>1. a \o s \in Texts
  BY Joined
<1>2. (a \o s) \o b \in Texts
  BY <1>1, Joined
<1> QED BY <1>2, NoText DEF Opt

LEMMA PartsOfUrl ==
  ASSUME NEW u \in Urls
  PROVE  /\ u.scheme \in Texts /\ u.account \in Texts /\ u.host \in Texts /\ u.port \in Texts
         /\ u.owner \in Texts /\ u.repository \in Texts /\ u.rest \in Texts
         /\ \A i \in 1..Len(u.scheme) : u.scheme[i] \notin {"/", ":"}
         /\ \A i \in 1..Len(u.account) : u.account[i] # "/"
         /\ \A i \in 1..Len(u.host) : u.host[i] # "/"
         /\ \A i \in 1..Len(u.port) : u.port[i] # "/"
         /\ \A i \in 1..Len(u.owner) : u.owner[i] # "/"
         /\ \A i \in 1..Len(u.repository) : u.repository[i] # "/"
<1>1. ASSUME NEW s \in Seq(Characters \ {"/"})
      PROVE  s \in Texts /\ \A i \in 1..Len(s) : s[i] # "/"
  BY <1>1, SeqMonotonic DEF Texts
<1>2. ASSUME NEW s \in Seq(Characters \ {"/", ":"})
      PROVE  s \in Texts /\ \A i \in 1..Len(s) : s[i] \notin {"/", ":"}
  BY <1>2, SeqMonotonic DEF Texts
<1>3. /\ u.scheme \in Seq(Characters \ {"/", ":"}) /\ u.rest \in Texts
      /\ u.account \in Seq(Characters \ {"/"}) /\ u.host \in Seq(Characters \ {"/"})
      /\ u.port \in Seq(Characters \ {"/"}) /\ u.owner \in Seq(Characters \ {"/"})
      /\ u.repository \in Seq(Characters \ {"/"})
  BY DEF Urls
<1> QED BY <1>1, <1>2, <1>3

Slashes == <<":", "/", "/">>

LEMMA SlashesText ==
  /\ Slashes \in Texts /\ Len(Slashes) = 3
  /\ Slashes[1] = ":" /\ Slashes[2] = "/" /\ Slashes[3] = "/"
<1>1. PICK x \in Characters, y \in Characters : x = ":" /\ y = "/"
  BY Marked
<1> DEFINE z == <<x, y, y>>
<1>2. Slashes = z
  BY <1>1 DEF Slashes
<1>3. z \in Texts /\ Len(z) = 3 /\ z[1] = x /\ z[2] = y /\ z[3] = y
  BY DEF Texts
<1> HIDE DEF z
<1> QED BY <1>1, <1>2, <1>3

LEMMA AuthorityText ==
  ASSUME NEW u \in Urls
  PROVE  Authority(u) \in Texts /\ \A i \in 1..Len(Authority(u)) : Authority(u)[i] # "/"
<1> DEFINE S == Seq(Characters \ {"/"})
<1>1. u.account \in S /\ u.host \in S /\ u.port \in S
  BY DEF Urls
<1>2. \A s, t \in S : s \o t \in S
  BY ConcatProperties
<1>3. <<>> \in S /\ <<"@">> \in S /\ <<":">> \in S
  <2>1. "@" \in Characters \ {"/"} /\ ":" \in Characters \ {"/"}
    BY Marked
  <2> QED BY <2>1
<1>4. \A s \in S : s \in Texts /\ \A i \in 1..Len(s) : s[i] # "/"
  BY SeqMonotonic DEF Texts
<1> HIDE DEF S
<1>5. Opt(<<>>, u.account, <<"@">>) \in S /\ Opt(<<":">>, u.port, <<>>) \in S
  BY <1>1, <1>2, <1>3 DEF Opt
<1>6. Opt(<<>>, u.account, <<"@">>) \o u.host \in S
  BY <1>1, <1>2, <1>5
<1>7. Authority(u) \in S
  BY <1>2, <1>5, <1>6 DEF Authority
<1> QED BY <1>4, <1>7

\* Where the parts of a URL begin in it.
HostAt(u) == Len(u.scheme) + 3
OwnerAt(u) == HostAt(u) + Len(Authority(u)) + 1
RepositoryAt(u) == OwnerAt(u) + Len(u.owner) + 1
RestAt(u) == RepositoryAt(u) + Len(u.repository) + 1

\* The URL as far as each part.
ToHost(u) == u.scheme \o Slashes
ToOwner(u) == (ToHost(u) \o Authority(u)) \o <<"/">>
ToRepository(u) == (ToOwner(u) \o u.owner) \o <<"/">>
ToRest(u) == ToRepository(u) \o u.repository

LEMMA JoinedOne ==
  ASSUME NEW a \in Texts, NEW b \in Texts, NEW x \in Characters
  PROVE  /\ (a \o b) \o <<x>> \in Texts /\ a \o b \in Texts
         /\ Len((a \o b) \o <<x>>) = Len(a) + Len(b) + 1
         /\ Len(a) \in Nat /\ Len(b) \in Nat
<1>1. a \o b \in Texts /\ Len(a \o b) = Len(a) + Len(b) /\ Len(a) \in Nat /\ Len(b) \in Nat
  BY Joined
<1>2. PICK d \in Texts : d = a \o b
  BY <1>1
<1>3. d \o <<x>> \in Texts /\ Len(d \o <<x>>) = Len(d) + 1
  BY ConcatOne
<1> QED BY <1>1, <1>2, <1>3

LEMMA OccursPartsOne ==
  ASSUME NEW a \in Texts, NEW b \in Texts, NEW x \in Characters, NEW w, NEW n \in Nat,
         Occurs((a \o b) \o <<x>>, w, n)
  PROVE  /\ Occurs(a, w, n) /\ Occurs(b, w, n + Len(a))
         /\ w[n + Len(a) + Len(b) + 1] = x
<1> DEFINE y == <<x>>
<1>1. a \o b \in Texts /\ Len(a \o b) = Len(a) + Len(b) /\ Len(a) \in Nat /\ Len(b) \in Nat
  BY Joined
<1>2. y \in Texts
  BY OneCharacter
<1>3. Occurs(a \o b, w, n) /\ Occurs(y, w, n + Len(a \o b))
  BY <1>1, <1>2, OccursParts
<1>4. Occurs(a, w, n) /\ Occurs(b, w, n + Len(a))
  BY <1>3, OccursParts
<1>5. PICK f \in Nat : f = n + Len(a \o b) /\ f = n + Len(a) + Len(b)
  BY <1>1
<1>6. w[f + 1] = x
  BY <1>3, <1>5, OccursOne
<1> QED BY <1>4, <1>5, <1>6

LEMMA UrlText ==
  ASSUME NEW u \in Urls
  PROVE  /\ Url(u) \in Texts /\ Url(u) = ToRest(u) \o Opt(<<"/">>, u.rest, <<>>)
         /\ ToHost(u) \in Texts /\ ToOwner(u) \in Texts /\ ToRepository(u) \in Texts
         /\ ToRest(u) \in Texts
         /\ Len(ToHost(u)) = HostAt(u) /\ Len(ToOwner(u)) = OwnerAt(u)
         /\ Len(ToRepository(u)) = RepositoryAt(u) /\ Len(ToRest(u)) = RestAt(u) - 1
         /\ HostAt(u) \in Nat /\ OwnerAt(u) \in Nat /\ RepositoryAt(u) \in Nat
         /\ RestAt(u) \in Nat
<1>1. /\ u.scheme \in Texts /\ Authority(u) \in Texts /\ u.owner \in Texts
      /\ u.repository \in Texts /\ u.rest \in Texts
  BY PartsOfUrl, AuthorityText
<1>2. "/" \in Characters /\ <<"/">> \in Texts
  BY Marked, OneCharacter
<1>3. ToHost(u) \in Texts /\ Len(ToHost(u)) = HostAt(u) /\ HostAt(u) \in Nat
  <2>1. ToHost(u) \in Texts /\ Len(ToHost(u)) = Len(u.scheme) + Len(Slashes) /\ Len(u.scheme) \in Nat
    BY <1>1, SlashesText, Joined, Zenon DEF ToHost
  <2> QED BY <2>1, SlashesText DEF HostAt
<1>4. ToOwner(u) \in Texts /\ Len(ToOwner(u)) = OwnerAt(u) /\ OwnerAt(u) \in Nat
  <2>1. /\ ToOwner(u) \in Texts /\ Len(ToOwner(u)) = Len(ToHost(u)) + Len(Authority(u)) + 1
        /\ Len(Authority(u)) \in Nat
    BY <1>1, <1>2, <1>3, JoinedOne, Zenon DEF ToOwner
  <2> QED BY <1>3, <2>1 DEF OwnerAt
<1>5. /\ ToRepository(u) \in Texts /\ Len(ToRepository(u)) = RepositoryAt(u)
      /\ RepositoryAt(u) \in Nat
  <2>1. /\ ToRepository(u) \in Texts /\ Len(ToRepository(u)) = Len(ToOwner(u)) + Len(u.owner) + 1
        /\ Len(u.owner) \in Nat
    BY <1>1, <1>2, <1>4, JoinedOne, Zenon DEF ToRepository
  <2> QED BY <1>4, <2>1 DEF RepositoryAt
<1>6. ToRest(u) \in Texts /\ Len(ToRest(u)) = RestAt(u) - 1 /\ RestAt(u) \in Nat
  <2>1. /\ ToRest(u) \in Texts /\ Len(ToRest(u)) = Len(ToRepository(u)) + Len(u.repository)
        /\ Len(u.repository) \in Nat
    BY <1>1, <1>5, Joined, Zenon DEF ToRest
  <2> QED BY <1>5, <2>1 DEF RestAt
<1>7. Url(u) = ToRest(u) \o Opt(<<"/">>, u.rest, <<>>)
  BY DEF Url, ToRest, ToRepository, ToOwner, ToHost, Slashes
<1>8. Url(u) \in Texts
  <2>1. Opt(<<"/">>, u.rest, <<>>) \in Texts
    BY <1>1, <1>2, NoText, OptText, Zenon
  <2> QED BY <1>6, <1>7, <2>1, Joined, Zenon
<1> QED BY <1>3, <1>4, <1>5, <1>6, <1>7, <1>8

LEMMA ClosingText ==
  ASSUME NEW h \in Handshakes
  PROVE  /\ Optional(h.ra) \in Texts /\ Optional(h.client) \in Texts
         /\ Optional(h.ra) \o Left \in Texts
         /\ (Optional(h.ra) \o Left) \o Optional(h.client) \in Texts
         /\ ((Optional(h.ra) \o Left) \o Optional(h.client)) \o Right \in Texts
         /\ Closing(h) = (((Optional(h.ra) \o Left) \o Optional(h.client)) \o Right) \o Right
         /\ Closing(h) \in Texts
<1>1. ASSUME NEW s \in Texts, Len(s) < TooLarge PROVE Optional(s) \in Texts
  BY <1>1, NoText, ItemText, Marked, OneCharacter, Joined, Zenon DEF Optional
<1>2. /\ h.ra \in Texts /\ Len(h.ra) < TooLarge
      /\ h.client \in Texts /\ Len(h.client) < TooLarge
  BY HandshakeTypes, SeqMonotonic DEF Texts
<1>3. Optional(h.ra) \in Texts /\ Optional(h.client) \in Texts
  BY <1>1, <1>2
<1> QED BY <1>3, ParenTexts, Joined, Zenon DEF Closing

\* The whole of it.
LEMMA EncodedText ==
  ASSUME NEW h \in Handshakes
  PROVE  /\ Item(Url(h.url)) \in Texts
         /\ Opening(h) \o Item(Url(h.url)) \in Texts
         /\ (Opening(h) \o Item(Url(h.url))) \o <<" ">> \in Texts
         /\ Encoded(h) = ((Opening(h) \o Item(Url(h.url))) \o <<" ">>) \o Closing(h)
         /\ Encoded(h) \in Texts
<1>1. Url(h.url) \in Texts /\ Len(Url(h.url)) < TooLarge
  BY HandshakeTypes, UrlText
<1>2. Item(Url(h.url)) \in Texts
  BY <1>1, ItemText
<1>3. <<" ">> \in Texts /\ Opening(h) \in Texts /\ Closing(h) \in Texts
  BY Marked, OneCharacter, OpeningText, ClosingText
<1> QED BY <1>2, <1>3, Joined, Zenon DEF Encoded

-----------------------------------------------------------------------------
(* Where the parts of a handshake are in its encoding: the positions *)

\* The length of a text, as a number of its own.
Size(s) == Len(s)

LEMMA SizeNat == ASSUME NEW s \in Texts PROVE Size(s) \in Nat
BY DEF Size, Texts

LEMMA OccursAt ==
  ASSUME NEW b, NEW w, NEW n, Occurs(b, w, n), NEW i \in (n + 1)..(n + Size(b))
  PROVE  w[i] = b[i - n]
BY DEF Occurs, Size

\* Behind which character the list of capabilities ends, and the length of the URL,
\* the URL, what follows it, the ra-client and what follows that begin.
ListEnd(h) == 6 + Size(List(h))
First(h) == ListEnd(h) + 2
UrlAt(h) == First(h) + Size(Length(Url(h.url))) + 1
ClosingAt(h) == UrlAt(h) + Size(Url(h.url)) + 1
RaAt(h) == ClosingAt(h) + Size(Length(h.ra)) + 1
TailAt(h) == ClosingAt(h) + Size(Optional(h.ra))
ClientEnd(h) == TailAt(h) + 2 + Size(Optional(h.client))

LEMMA Positions ==
  ASSUME NEW h \in Handshakes
  PROVE  /\ Size(List(h)) \in Nat /\ Size(Url(h.url)) \in Nat /\ Size(Length(Url(h.url))) \in Nat
         /\ Size(h.ra) \in Nat /\ Size(Length(h.ra)) \in Nat
         /\ Size(Optional(h.ra)) \in Nat /\ Size(Optional(h.client)) \in Nat
         /\ ListEnd(h) \in Nat /\ First(h) \in Nat /\ UrlAt(h) \in Nat /\ ClosingAt(h) \in Nat
         /\ RaAt(h) \in Nat /\ TailAt(h) \in Nat /\ ClientEnd(h) \in Nat
<1>1. /\ List(h) \in Texts /\ Url(h.url) \in Texts /\ Length(Url(h.url)) \in Texts
      /\ h.ra \in Texts /\ Length(h.ra) \in Texts
      /\ Optional(h.ra) \in Texts /\ Optional(h.client) \in Texts
  BY HandshakeTypes, UptoFlattens, UrlText, LengthText, ClosingText
<1>2. /\ Size(List(h)) \in Nat /\ Size(Url(h.url)) \in Nat /\ Size(Length(Url(h.url))) \in Nat
      /\ Size(h.ra) \in Nat /\ Size(Length(h.ra)) \in Nat
      /\ Size(Optional(h.ra)) \in Nat /\ Size(Optional(h.client)) \in Nat
  BY <1>1, SizeNat, Zenon
<1>3. ListEnd(h) \in Nat /\ First(h) \in Nat
  BY <1>2 DEF ListEnd, First
<1>4. UrlAt(h) \in Nat
  BY <1>2, <1>3 DEF UrlAt
<1>5. ClosingAt(h) \in Nat
  BY <1>2, <1>4 DEF ClosingAt
<1>6. TailAt(h) \in Nat /\ RaAt(h) \in Nat
  BY <1>2, <1>5 DEF TailAt, RaAt
<1>7. ClientEnd(h) \in Nat
  BY <1>2, <1>6 DEF ClientEnd
<1> QED BY <1>2, <1>3, <1>4, <1>5, <1>6, <1>7

LEMMA EncodedLayout ==
  ASSUME NEW h \in Handshakes
  PROVE  /\ Occurs(Opening(h), Encoded(h), 0)
         /\ Occurs(Item(Url(h.url)), Encoded(h), First(h))
         /\ Encoded(h)[ClosingAt(h)] = " "
         /\ Occurs(Closing(h), Encoded(h), ClosingAt(h))
         /\ Size(Encoded(h)) = ClosingAt(h) + Size(Closing(h))
<1>1. PICK o \in Texts, i \in Texts, e \in Texts, g \in Texts :
        o = Opening(h) /\ i = Item(Url(h.url)) /\ e = Encoded(h) /\ g = Closing(h)
  BY OpeningText, EncodedText, ClosingText
<1>2. PICK x \in Characters : x = " "
  BY Marked
<1>3. (o \o i) \o <<x>> \in Texts /\ e = ((o \o i) \o <<x>>) \o g
  BY <1>1, <1>2, EncodedText
<1>4. Occurs(((o \o i) \o <<x>>) \o g, e, 0)
  BY <1>3, OccursWhole
<1>5. Occurs((o \o i) \o <<x>>, e, 0) /\ Occurs(g, e, 0 + Len((o \o i) \o <<x>>))
  BY <1>3, <1>4, OccursParts
<1>6. Occurs(o, e, 0) /\ Occurs(i, e, 0 + Len(o)) /\ e[0 + Len(o) + Len(i) + 1] = x
  <2>1. PICK z \in Nat : z = 0
    OBVIOUS
  <2>2. Occurs((o \o i) \o <<x>>, e, z)
    BY <1>5, <2>1
  <2>3. Occurs(o, e, z) /\ Occurs(i, e, z + Len(o)) /\ e[z + Len(o) + Len(i) + 1] = x
    BY <2>2, OccursPartsOne
  <2> QED BY <2>1, <2>3
<1>7. Len((o \o i) \o <<x>>) = Len(o) + Len(i) + 1
  BY <1>2, JoinedOne
<1>8. Len(e) = Len((o \o i) \o <<x>>) + Len(g)
  BY <1>3, Joined
<1>9. Len(o) = First(h)
  <2>1. Len(o) = 8 + Size(List(h)) /\ Size(List(h)) \in Nat
    BY <1>1, OpeningText, Positions DEF Size
  <2> QED BY <2>1 DEF First, ListEnd
<1>10. Len(i) = Size(Length(Url(h.url))) + 1 + Size(Url(h.url))
  BY <1>1, HandshakeTypes, UrlText, ItemText DEF Size
<1>11. /\ First(h) \in Nat /\ Size(Url(h.url)) \in Nat /\ Size(Length(Url(h.url))) \in Nat
       /\ ClosingAt(h) = First(h) + Size(Length(Url(h.url))) + 1 + Size(Url(h.url)) + 1
  BY Positions DEF ClosingAt, UrlAt
<1>12. /\ 0 + Len(o) = First(h) /\ 0 + Len(o) + Len(i) + 1 = ClosingAt(h)
       /\ 0 + Len((o \o i) \o <<x>>) = ClosingAt(h)
  BY <1>7, <1>9, <1>10, <1>11
<1>13. Size(e) = ClosingAt(h) + Size(g)
  <2>1. Len((o \o i) \o <<x>>) = ClosingAt(h)
    BY <1>7, <1>9, <1>10, <1>11
  <2> QED BY <1>8, <2>1 DEF Size
<1> QED BY <1>1, <1>2, <1>5, <1>6, <1>12, <1>13, Zenon

LEMMA OpeningLayout ==
  ASSUME NEW h \in Handshakes, NEW e, e = Encoded(h)
  PROVE  /\ e[1] = "(" /\ e[2] = " " /\ e[3] = Digits[h.version + 1] /\ e[4] = " "
         /\ e[5] = "(" /\ e[6] = " "
         /\ Occurs(List(h), e, 6)
         /\ e[ListEnd(h) + 1] = ")" /\ e[ListEnd(h) + 2] = " "
<1>1. PICK f \in Texts, l \in Texts : f = Heading(h) /\ l = List(h)
  BY HeadingText, UptoFlattens
<1>2. Opening(h) = (f \o l) \o Right /\ f \o l \in Texts /\ Right \in Texts
  BY <1>1, OpeningText, ParenTexts
<1>3. Occurs((f \o l) \o Right, e, 0)
  BY <1>2, EncodedLayout
<1>4. Occurs(f \o l, e, 0) /\ Occurs(Right, e, 0 + Len(f \o l))
  BY <1>2, <1>3, OccursParts
<1>5. Occurs(f, e, 0) /\ Occurs(l, e, 0 + Len(f))
  BY <1>4, OccursParts
<1>6. 0 + Len(f) = 6
  <2>1. Len(f) = 6
    BY <1>1, HeadingText, Zenon
  <2> QED BY <2>1
<1>7. 0 + Len(f \o l) = ListEnd(h) /\ ListEnd(h) \in Nat
  <2>1. Len(f \o l) = 6 + Size(List(h)) /\ Size(List(h)) \in Nat
    BY <1>1, OpeningText, Positions DEF Size
  <2> QED BY <2>1 DEF ListEnd
<1>8. Occurs(l, e, 6) /\ Occurs(Right, e, ListEnd(h))
  BY <1>4, <1>5, <1>6, <1>7, Zenon
<1>9. e[ListEnd(h) + 1] = ")" /\ e[ListEnd(h) + 2] = " "
  BY <1>7, <1>8, OccursRight
<1>10. /\ e[1] = "(" /\ e[2] = " " /\ e[3] = Digits[h.version + 1] /\ e[4] = " "
       /\ e[5] = "(" /\ e[6] = " "
  BY <1>1, <1>5, HeadingText
<1> QED BY <1>1, <1>8, <1>9, <1>10

\* No capability opens or closes anything.
LEMMA ListPlain ==
  ASSUME NEW h \in Handshakes
  PROVE  \A i \in 1..Size(List(h)) : List(h)[i] \notin {"(", ")", Zero, "LF"}
<1> DEFINE S == Seq(Characters \ {"(", ")", Zero, "LF"})
           n == Len(h.caps)
           fl == Upto(h)
           Bad == {k \in 0..n : fl[k] \notin S}
<1>1. /\ n \in Nat /\ Flattens(fl, Caps(h)) /\ Len(Caps(h)) = n
      /\ List(h) = fl[n] /\ fl[0] = <<>>
  BY CapsTypes, UptoFlattens
<1>2. \A s, t \in S : s \o t \in S
  BY ConcatProperties
<1>3. <<>> \in S /\ <<" ">> \in S
  <2>1. PICK x \in Characters \ {"(", ")", Zero, "LF"} : x = " "
    BY Marked DEF Zero
  <2>2. <<x>> \in S /\ <<>> \in S
    OBVIOUS
  <2> HIDE DEF S
  <2> QED BY <2>1, <2>2, Zenon
<1>4. \A k \in 1..n : h.caps[k] \in S
  <2>1. ASSUME NEW k \in 1..n PROVE h.caps[k] \in Seq(Characters \ Marks)
    BY HandshakeTypes
  <2>2. Characters \ Marks \subseteq Characters \ {"(", ")", Zero, "LF"}
    BY DEF Marks, Blanks
  <2> QED BY <2>1, <2>2, SeqMonotonic
<1> HIDE DEF S, fl, n
<1>5. \A k \in 1..n : fl[k] = fl[k - 1] \o (h.caps[k] \o <<" ">>)
  BY <1>1, CapsTypes DEF Flattens, n
<1>6. ASSUME Bad # {} PROVE FALSE
  <2>1. Bad \in SUBSET Nat
    BY <1>1
  <2>2. PICK k \in Bad : \A m \in Bad : k <= m
    <3> HIDE DEF Bad
    <3> QED BY <1>6, <2>1, Least
  <2>3. k \in 1..n
    <3>1. k \in 0..n /\ fl[k] \notin S
      BY <2>2
    <3>2. k # 0
      BY <1>1, <1>3, <3>1
    <3> QED BY <1>1, <3>1, <3>2
  <2>4. k - 1 \in 0..n /\ k - 1 \notin Bad
    BY <1>1, <2>1, <2>2, <2>3
  <2>5. fl[k - 1] \in S
    BY <2>4
  <2>6. fl[k] \in S
    BY <1>2, <1>3, <1>4, <1>5, <2>3, <2>5
  <2> QED BY <2>2, <2>6
<1>7. fl[n] \in S
  BY <1>1, <1>6
<1> QED BY <1>1, <1>7 DEF S, Size

\* The item of the URL in the handshake.
LEMMA UrlLayout ==
  ASSUME NEW h \in Handshakes, NEW e, e = Encoded(h)
  PROVE  /\ \A i \in (First(h) + 1)..(UrlAt(h) - 1) :
               /\ e[i] = Length(Url(h.url))[i - First(h)]
               /\ e[i] \notin Marks \cup {":"}
         /\ e[UrlAt(h)] = ":"
         /\ Occurs(Url(h.url), e, UrlAt(h))
<1>1. PICK s \in Texts : s = Url(h.url) /\ Len(s) < TooLarge
  BY HandshakeTypes, UrlText
<1>2. PICK f \in Nat : f = First(h)
  BY Positions
<1>3. Occurs(Item(s), e, f)
  BY <1>1, <1>2, EncodedLayout
<1>4. /\ Occurs(Length(s), e, f) /\ e[f + Len(Length(s)) + 1] = ":"
      /\ Occurs(s, e, f + Len(Length(s)) + 1)
  BY <1>1, <1>3, ItemLayout
<1>5. UrlAt(h) = f + Len(Length(s)) + 1
  BY <1>1, <1>2 DEF UrlAt, Size
<1>6. PICK m \in Nat : m = Len(Length(s))
  BY <1>1, LengthText
<1>7. ASSUME NEW i \in (f + 1)..(UrlAt(h) - 1)
      PROVE  e[i] = Length(s)[i - f] /\ e[i] \notin Marks \cup {":"}
  <2>1. i \in (f + 1)..(f + m) /\ i - f \in 1..m
    BY <1>5, <1>6
  <2>2. e[i] = Length(s)[i - f]
    BY <1>4, <1>6, <2>1 DEF Occurs
  <2>3. Length(s)[i - f] \notin Marks \cup {":"}
    BY <1>1, <1>6, <2>1, LengthText
  <2> QED BY <2>2, <2>3
<1> QED BY <1>1, <1>2, <1>4, <1>5, <1>7

\* The positions up to the URL as numbers.
LEMMA Beginning ==
  ASSUME NEW h \in Handshakes
  PROVE  \E f, g \in Nat : /\ f = First(h) /\ g = UrlAt(h) /\ f >= 8 /\ ListEnd(h) = f - 2
                           /\ g >= f + 2 /\ g = f + Size(Length(Url(h.url))) + 1
<1>1. Size(Length(Url(h.url))) \in Nat \ {0}
  BY HandshakeTypes, UrlText, LengthText DEF Size
<1>2. Size(List(h)) \in Nat /\ First(h) \in Nat /\ UrlAt(h) \in Nat
  BY Positions
<1>3. /\ First(h) >= 8 /\ ListEnd(h) = First(h) - 2 /\ UrlAt(h) >= First(h) + 2
      /\ UrlAt(h) = First(h) + Size(Length(Url(h.url))) + 1
  BY <1>1, <1>2 DEF First, ListEnd, UrlAt
<1> QED BY <1>2, <1>3

\* A text without zeros.
Zeroless == Seq(Characters \ {Zero})

LEMMA OptionalZeroless ==
  ASSUME NEW s \in Zeroless, Len(s) < TooLarge
  PROVE  Optional(s) \in Zeroless
<1>1. \A a, b \in Zeroless : a \o b \in Zeroless
  BY ConcatProperties DEF Zeroless
<1>2. <<":">> \in Zeroless /\ <<" ">> \in Zeroless /\ <<>> \in Zeroless
  <2>1. PICK x \in Characters \ {Zero}, y \in Characters \ {Zero} : x = ":" /\ y = " "
    BY Marked DEF Zero
  <2>2. <<x>> \in Zeroless /\ <<y>> \in Zeroless /\ <<>> \in Zeroless
    BY DEF Zeroless
  <2> QED BY <2>1, <2>2, Zenon
<1>3. Length(s) \in Zeroless
  <2>1. s \in Texts
    BY SeqMonotonic DEF Zeroless, Texts
  <2>2. PICK d \in Texts, n \in Nat : d = Length(s) /\ n = Len(d)
    BY <2>1, LengthText
  <2>3. \A i \in 1..n : d[i] \in Characters \ {Zero}
    <3>1. \A i \in 1..n : d[i] \in Characters
      BY <2>2 DEF Texts
    <3>2. \A i \in 1..n : d[i] \notin Marks
      BY <2>1, <2>2, LengthText
    <3> QED BY <3>1, <3>2 DEF Marks, Blanks
  <2>4. DOMAIN d = 1..n /\ d = [i \in 1..n |-> d[i]]
    BY <2>2 DEF Texts
  <2>5. d \in [1..n -> Characters \ {Zero}]
    BY <2>3, <2>4
  <2>6. n \in Nat
    OBVIOUS
  <2>7. d \in Zeroless
    BY <2>5, <2>6, SeqDef, Zenon DEF Zeroless
  <2> QED BY <2>2, <2>7
<1>4. Item(s) \in Zeroless
  BY <1>1, <1>2, <1>3, Zenon DEF Item, Length
<1> QED BY <1>1, <1>2, <1>4, Zenon DEF Optional

\* The ra-client, if there is one.
LEMMA RaLayout ==
  ASSUME NEW h \in Handshakes, NEW e, e = Encoded(h)
  PROVE  /\ h.ra = <<>> => TailAt(h) = ClosingAt(h)
         /\ h.ra # <<>> =>
              /\ \A i \in (ClosingAt(h) + 1)..(RaAt(h) - 1) :
                    e[i] = Length(h.ra)[i - ClosingAt(h)] /\ e[i] \notin Marks \cup {":"}
              /\ e[RaAt(h)] = ":" /\ Occurs(h.ra, e, RaAt(h))
              /\ TailAt(h) = RaAt(h) + Size(h.ra) + 1
<1>1. PICK s \in Texts : s = h.ra /\ Len(s) < TooLarge
  BY HandshakeTypes
<1>2. PICK f \in Nat : f = ClosingAt(h)
  BY Positions
<1>3. Occurs(Optional(s), e, f)
  <2>1. PICK t \in Texts : t = ((Left \o Optional(h.client)) \o Right) \o Right
    BY ClosingText, ParenTexts, Joined, Zenon
  <2>2. PICK o \in Texts, v \in Texts, l \in Texts, r \in Texts :
          o = Optional(s) /\ v = Optional(h.client) /\ l = Left /\ r = Right
    BY <1>1, ClosingText, ParenTexts
  <2>3. o \o l \in Texts /\ (o \o l) \o v \in Texts /\ ((o \o l) \o v) \o r \in Texts
    BY <2>2, Joined
  <2>4. Occurs((((o \o l) \o v) \o r) \o r, e, f)
    BY <1>1, <1>2, <2>2, EncodedLayout, ClosingText, Zenon
  <2>5. Occurs(((o \o l) \o v) \o r, e, f)
    BY <2>3, <2>4, OccursParts
  <2>6. Occurs((o \o l) \o v, e, f)
    BY <2>3, <2>5, OccursParts
  <2>7. Occurs(o \o l, e, f)
    BY <2>3, <2>6, OccursParts
  <2>8. Occurs(o, e, f)
    BY <2>7, OccursParts
  <2> QED BY <2>2, <2>8
<1>4. CASE s = <<>>
  <2>1. Size(Optional(h.ra)) = 0
    BY <1>1, <1>4, NoText DEF Size, Optional
  <2> QED BY <1>1, <1>2, <1>4, <2>1 DEF TailAt
<1>5. CASE s # <<>>
  <2>1. PICK x \in Characters : x = " "
    BY Marked
  <2>2. Item(s) \in Texts /\ <<x>> \in Texts /\ Len(<<x>>) = 1 /\ Optional(s) = Item(s) \o <<x>>
    BY <1>1, <1>5, <2>1, ItemText, OneCharacter DEF Optional
  <2>3. Occurs(Item(s), e, f)
    BY <1>2, <1>3, <2>2, OccursParts
  <2>4. /\ Occurs(Length(s), e, f) /\ e[f + Len(Length(s)) + 1] = ":"
        /\ Occurs(s, e, f + Len(Length(s)) + 1)
    BY <1>1, <2>3, ItemLayout
  <2>5. RaAt(h) = f + Len(Length(s)) + 1
    BY <1>1, <1>2 DEF RaAt, Size
  <2>6. PICK m \in Nat, l \in Nat : m = Len(Length(s)) /\ l = Len(s)
    BY <1>1, LengthText DEF Texts
  <2>7. ASSUME NEW i \in (f + 1)..(RaAt(h) - 1)
        PROVE  e[i] = Length(s)[i - f] /\ e[i] \notin Marks \cup {":"}
    <3>1. i \in (f + 1)..(f + m) /\ i - f \in 1..m
      BY <2>5, <2>6
    <3>2. e[i] = Length(s)[i - f]
      BY <2>4, <2>6, <3>1 DEF Occurs
    <3>3. Length(s)[i - f] \notin Marks \cup {":"}
      BY <1>1, <2>6, <3>1, LengthText
    <3> QED BY <3>2, <3>3
  <2>8. TailAt(h) = RaAt(h) + Size(h.ra) + 1
    <3>1. Len(Item(s)) = m + 1 + l
      BY <1>1, <2>6, ItemText, Zenon
    <3>2. Len(Item(s) \o <<x>>) = Len(Item(s)) + 1
      BY <2>2, Joined, Zenon
    <3>3. Size(Optional(h.ra)) = m + 1 + l + 1
      BY <1>1, <2>2, <3>1, <3>2, Zenon DEF Size
    <3>4. f + (m + 1 + l + 1) = (f + m + 1) + l + 1
      BY <2>6
    <3> QED BY <1>1, <1>2, <2>5, <2>6, <3>3, <3>4, Zenon DEF TailAt, Size
  <2> QED BY <1>1, <1>2, <1>5, <2>4, <2>5, <2>7, <2>8, Zenon
<1> QED BY <1>4, <1>5

\* Behind it: the client in its parentheses.
LEMMA TailLayout ==
  ASSUME NEW h \in Handshakes, NEW e, e = Encoded(h)
  PROVE  /\ e[TailAt(h) + 1] = "(" /\ e[TailAt(h) + 2] = " "
         /\ Size(e) = ClientEnd(h) + 4
         /\ \A i \in (TailAt(h) + 3)..ClientEnd(h) : e[i] # Zero
         /\ e[ClientEnd(h) + 1] = ")" /\ e[ClientEnd(h) + 2] = " "
         /\ e[ClientEnd(h) + 3] = ")" /\ e[ClientEnd(h) + 4] = " "
         /\ h.client = <<>> => ClientEnd(h) = TailAt(h) + 2
         /\ h.client # <<>> =>
              TailAt(h) + 3 <= ClientEnd(h) /\ e[TailAt(h) + 3] \notin Marks \cup {":"}
<1>1. PICK o \in Texts, v \in Texts, l \in Texts, r \in Texts :
        o = Optional(h.ra) /\ v = Optional(h.client) /\ l = Left /\ r = Right
  BY ClosingText, ParenTexts
<1>2. PICK f, n, m, g \in Nat : /\ f = ClosingAt(h) /\ n = Size(o) /\ m = Size(v)
                                /\ g = TailAt(h) /\ g = f + n
  BY <1>1, Positions DEF TailAt
<1>3. o \o l \in Texts /\ (o \o l) \o v \in Texts /\ ((o \o l) \o v) \o r \in Texts
  BY <1>1, Joined
<1>4. Closing(h) = (((o \o l) \o v) \o r) \o r
  BY <1>1, ClosingText
<1>5. /\ Len(o \o l) = n + 2 /\ Len((o \o l) \o v) = n + 2 + m
      /\ Len(((o \o l) \o v) \o r) = n + 4 + m
      /\ Size(Closing(h)) = n + 6 + m
  <2>1. /\ Len(o \o l) = Len(o) + Len(l) /\ Len((o \o l) \o v) = Len(o \o l) + Len(v)
        /\ Len(((o \o l) \o v) \o r) = Len((o \o l) \o v) + Len(r)
        /\ Len(Closing(h)) = Len(((o \o l) \o v) \o r) + Len(r)
    <3>1. Len(o \o l) = Len(o) + Len(l)
      BY Joined
    <3>2. Len((o \o l) \o v) = Len(o \o l) + Len(v)
      BY <1>3, Joined
    <3>3. Len(((o \o l) \o v) \o r) = Len((o \o l) \o v) + Len(r)
      BY <1>3, Joined
    <3>4. Len((((o \o l) \o v) \o r) \o r) = Len(((o \o l) \o v) \o r) + Len(r)
      BY <1>3, Joined
    <3> QED BY <1>4, <3>1, <3>2, <3>3, <3>4, Zenon
  <2>2. Len(l) = 2 /\ Len(r) = 2
    BY <1>1, ParenTexts, Zenon
  <2>3. Len(o) = n /\ Len(v) = m
    BY <1>2 DEF Size
  <2>4. Len(o \o l) = n + 2
    BY <2>1, <2>2, <2>3, Zenon
  <2>5. Len((o \o l) \o v) = n + 2 + m
    BY <2>1, <2>3, <2>4, Zenon
  <2>6. Len(((o \o l) \o v) \o r) = n + 4 + m
    <3>1. n + 2 + m + 2 = n + 4 + m
      BY <1>2
    <3> QED BY <2>1, <2>2, <2>5, <3>1, Zenon
  <2>7. Len(Closing(h)) = n + 6 + m
    <3>1. n + 4 + m + 2 = n + 6 + m
      BY <1>2
    <3> QED BY <2>1, <2>2, <2>6, <3>1, Zenon
  <2> QED BY <2>4, <2>5, <2>6, <2>7, Zenon DEF Size
<1>6. Occurs((((o \o l) \o v) \o r) \o r, e, f)
  BY <1>2, <1>4, EncodedLayout, Zenon
<1>7. Occurs(((o \o l) \o v) \o r, e, f) /\ Occurs(r, e, f + Len(((o \o l) \o v) \o r))
  BY <1>3, <1>6, OccursParts
<1>8. Occurs((o \o l) \o v, e, f) /\ Occurs(r, e, f + Len((o \o l) \o v))
  BY <1>3, <1>7, OccursParts
<1>9. Occurs(o \o l, e, f) /\ Occurs(v, e, f + Len(o \o l))
  BY <1>3, <1>8, OccursParts
<1>10. Occurs(l, e, f + Len(o))
  BY <1>9, OccursParts
<1>11. PICK i, j, k \in Nat : i = g + 2 /\ j = g + 2 + m /\ k = g + 4 + m
  BY <1>2
<1>12. j = ClientEnd(h) /\ k = ClientEnd(h) + 2 /\ Size(e) = ClientEnd(h) + 4
  <2>1. j = ClientEnd(h)
    BY <1>1, <1>2, <1>11, Zenon DEF ClientEnd
  <2>2. k = j + 2
    BY <1>2, <1>11
  <2>3. Size(e) = f + (n + 6 + m)
    BY <1>2, <1>5, EncodedLayout, Zenon
  <2>4. f + (n + 6 + m) = j + 4
    BY <1>2, <1>11
  <2> QED BY <2>1, <2>2, <2>3, <2>4, Zenon
<1>13. Occurs(l, e, g) /\ Occurs(v, e, i) /\ Occurs(r, e, j) /\ Occurs(r, e, k)
  <2>1. /\ f + n = g /\ f + (n + 2) = i /\ f + (n + 2 + m) = j /\ f + (n + 4 + m) = k
    BY <1>2, <1>11
  <2>2. Len(o) = n
    BY <1>2 DEF Size
  <2> QED BY <1>5, <1>7, <1>8, <1>9, <1>10, <2>1, <2>2, Zenon
<1>14. e[g + 1] = "(" /\ e[g + 2] = " "
  BY <1>1, <1>13, OccursLeft
<1>15. e[j + 1] = ")" /\ e[j + 2] = " " /\ e[k + 1] = ")" /\ e[k + 2] = " "
  BY <1>1, <1>13, OccursRight
<1>16. \A x \in (g + 3)..j : e[x] # Zero
  <2>1. h.client \in Zeroless /\ Len(h.client) < TooLarge
    BY HandshakeTypes DEF Zeroless
  <2>2. v \in Zeroless
    BY <1>1, <2>1, OptionalZeroless
  <2>3. \A x \in 1..Len(v) : v[x] # Zero
    BY <2>2 DEF Zeroless
  <2>4. ASSUME NEW x \in (g + 3)..j PROVE e[x] # Zero
    <3>1. x \in (i + 1)..(i + Size(v)) /\ x - i \in 1..m
      BY <1>2, <1>11
    <3>2. e[x] = v[x - i]
      BY <1>13, <3>1, OccursAt
    <3>3. x - i \in 1..Len(v)
      BY <1>2, <3>1 DEF Size
    <3> QED BY <2>3, <3>2, <3>3
  <2> QED BY <2>4
<1>17. h.client = <<>> => j = g + 2
  <2>1. h.client = <<>> => m = 0
    BY <1>1, <1>2, NoText DEF Optional, Size
  <2> QED BY <1>2, <1>11, <2>1
<1>18. h.client # <<>> => g + 3 <= j /\ e[g + 3] \notin Marks \cup {":"}
  <2> SUFFICES ASSUME h.client # <<>> PROVE g + 3 <= j /\ e[g + 3] \notin Marks \cup {":"}
    OBVIOUS
  <2>1. PICK s \in Texts : s = h.client /\ Len(s) < TooLarge /\ s # <<>>
    BY HandshakeTypes, SeqMonotonic DEF Texts
  <2>2. PICK x \in Characters : x = " "
    BY Marked
  <2>3. Item(s) \in Texts /\ <<x>> \in Texts /\ v = Item(s) \o <<x>>
    BY <1>1, <2>1, <2>2, ItemText, OneCharacter DEF Optional
  <2>4. Occurs(Item(s), e, i)
    BY <1>13, <2>3, OccursParts
  <2>5. Occurs(Length(s), e, i)
    BY <2>1, <2>4, ItemLayout
  <2>6. PICK d \in Texts, z \in Nat : d = Length(s) /\ z = Len(d) /\ z # 0
    BY <2>1, LengthText
  <2>7. i + 1 \in (i + 1)..(i + z) /\ i + 1 - i = 1 /\ 1 \in 1..z
    BY <1>11, <2>6
  <2>8. e[i + 1] = d[1]
    BY <2>5, <2>6, <2>7 DEF Occurs
  <2>9. d[1] \notin Marks \cup {":"}
    BY <2>1, <2>6, <2>7, LengthText
  <2>10. m # 0
    <3>1. Len(v) = Len(Item(s)) + Len(<<x>>)
      BY <2>3, Joined, Zenon
    <3>2. Len(Item(s)) \in Nat /\ Len(<<x>>) = 1
      BY <2>3, OneCharacter DEF Texts
    <3>3. Len(v) # 0
      BY <3>1, <3>2
    <3> QED BY <1>2, <3>3, Zenon DEF Size
  <2>11. i + 1 = g + 3 /\ g + 3 <= j
    BY <1>11, <2>10
  <2> QED BY <2>8, <2>9, <2>11, Zenon
<1>19. e[ClientEnd(h) + 3] = ")" /\ e[ClientEnd(h) + 4] = " "
  <2>1. k + 1 = ClientEnd(h) + 3 /\ k + 2 = ClientEnd(h) + 4
    BY <1>12, Positions
  <2> QED BY <1>15, <2>1, Zenon
<1> QED BY <1>2, <1>12, <1>14, <1>15, <1>16, <1>17, <1>18, <1>19, Zenon

\* The order of the parts of a handshake.
LEMMA Ordered ==
  ASSUME NEW h \in Handshakes
  PROVE  /\ UrlAt(h) \in Nat /\ ClosingAt(h) \in Nat /\ RaAt(h) \in Nat
         /\ TailAt(h) \in Nat /\ ClientEnd(h) \in Nat
         /\ First(h) < UrlAt(h) /\ UrlAt(h) < ClosingAt(h) /\ ClosingAt(h) <= TailAt(h)
         /\ ClosingAt(h) = UrlAt(h) + Size(Url(h.url)) + 1
         /\ h.ra # <<>> => ClosingAt(h) + 1 < RaAt(h) /\ RaAt(h) < TailAt(h)
         /\ TailAt(h) + 2 <= ClientEnd(h) /\ Size(Encoded(h)) = ClientEnd(h) + 4
<1>1. /\ First(h) \in Nat /\ UrlAt(h) \in Nat /\ ClosingAt(h) \in Nat /\ RaAt(h) \in Nat
      /\ TailAt(h) \in Nat /\ ClientEnd(h) \in Nat
      /\ Size(Length(Url(h.url))) \in Nat /\ Size(Url(h.url)) \in Nat /\ Size(h.ra) \in Nat
      /\ Size(Optional(h.ra)) \in Nat /\ Size(Optional(h.client)) \in Nat
  BY Positions
<1>2. First(h) < UrlAt(h)
  BY <1>1 DEF UrlAt
<1>3. UrlAt(h) < ClosingAt(h)
  BY <1>1 DEF ClosingAt
<1>4. ClosingAt(h) <= TailAt(h)
  BY <1>1 DEF TailAt
<1>5. h.ra # <<>> => ClosingAt(h) + 1 < RaAt(h) /\ RaAt(h) < TailAt(h)
  <2> SUFFICES ASSUME h.ra # <<>> PROVE ClosingAt(h) + 1 < RaAt(h) /\ RaAt(h) < TailAt(h)
    OBVIOUS
  <2>1. TailAt(h) = RaAt(h) + Size(h.ra) + 1
    BY RaLayout
  <2>2. Size(Length(h.ra)) \in Nat \ {0}
    BY HandshakeTypes, LengthText DEF Size
  <2>3. ClosingAt(h) + 1 < RaAt(h)
    BY <1>1, <2>2 DEF RaAt
  <2> QED BY <1>1, <2>1, <2>3
<1>6. TailAt(h) + 2 <= ClientEnd(h)
  BY <1>1 DEF ClientEnd
<1>7. Size(Encoded(h)) = ClientEnd(h) + 4
  BY TailLayout
<1> QED BY <1>1, <1>2, <1>3, <1>4, <1>5, <1>6, <1>7 DEF ClosingAt

\* Where one capability ends, another begins, or the list is over.
LEMMA CapsEnds ==
  ASSUME NEW h \in Handshakes
  PROVE  /\ Len(h.caps) \in Nat /\ Size(List(h)) \in Nat
         /\ End(h, 0) = 0 /\ End(h, Len(h.caps)) = Size(List(h))
         /\ h.caps = <<>> <=> Len(h.caps) = 0
<1>1. Len(h.caps) \in Nat /\ (h.caps = <<>> <=> Len(h.caps) = 0)
  BY HandshakeTypes, EmptySeq
<1>2. Upto(h)[0] = <<>> /\ List(h) = Upto(h)[Len(h.caps)]
  BY UptoFlattens
<1>3. End(h, 0) = 0
  BY <1>2, NoText DEF End
<1>4. End(h, Len(h.caps)) = Size(List(h))
  BY <1>2, Zenon DEF End, Size
<1> QED BY <1>1, <1>3, <1>4, Positions

\* No URL is empty.
LEMMA UrlThere ==
  ASSUME NEW u \in Urls
  PROVE  Url(u) # <<>>
<1>1. PICK a \in Texts, b \in Texts : /\ a = ToRest(u) /\ b = Opt(<<"/">>, u.rest, <<>>)
                                      /\ Url(u) = a \o b /\ Len(a) = RestAt(u) - 1
  BY UrlText, OneCharacter, Marked, NoText, PartsOfUrl, OptText
<1>2. PICK n, m \in Nat : n = Len(a) /\ m = Len(b)
  BY DEF Texts
<1>3. n > 0
  <2>1. PICK s, o, r \in Nat : s = OwnerAt(u) /\ o = Len(u.owner) /\ r = Len(u.repository)
    <3>1. u.owner \in Texts /\ u.repository \in Texts
      BY PartsOfUrl
    <3>2. Len(u.owner) \in Nat /\ Len(u.repository) \in Nat
      BY <3>1 DEF Texts
    <3>3. OwnerAt(u) \in Nat
      BY UrlText
    <3> QED BY <3>2, <3>3
  <2>2. RestAt(u) = s + o + 1 + r + 1
    BY <2>1 DEF RestAt, RepositoryAt
  <2> QED BY <1>1, <1>2, <2>1, <2>2
<1>4. Len(a \o b) = Len(a) + Len(b)
  BY Joined, Zenon
<1>5. Len(a \o b) # 0
  BY <1>2, <1>3, <1>4
<1> QED BY <1>1, <1>5, NoText, Zenon

-----------------------------------------------------------------------------
(* Where the parts of a URL are *)

\* A part of the URL, and the slash behind it.
LEMMA PartAndSlash ==
  ASSUME NEW a \in Texts, NEW s \in Texts, NEW w, NEW n \in Nat, n = Len(a),
         NEW z \in Nat, z = 0, NEW x \in Characters, Occurs((a \o s) \o <<x>>, w, z)
  PROVE  Occurs(a, w, z) /\ Occurs(s, w, n) /\ w[n + Size(s) + 1] = x
<1>1. Occurs(a, w, z) /\ Occurs(s, w, z + Len(a)) /\ w[z + Len(a) + Len(s) + 1] = x
  BY OccursPartsOne
<1>2. z + Len(a) = n /\ z + Len(a) + Len(s) + 1 = n + Size(s) + 1
  BY DEF Size
<1> QED BY <1>1, <1>2, Zenon

\* Text w has the parts of the URL u where they belong.
Laid(u, w) ==
  /\ \A i \in 1..(Size(u.scheme) + 1) : w[i] # "/"
  /\ w[Size(u.scheme) + 2] = "/" /\ w[Size(u.scheme) + 3] = "/"
  /\ \A i \in (HostAt(u) + 1)..(OwnerAt(u) - 1) : w[i] # "/"
  /\ w[OwnerAt(u)] = "/"
  /\ \A i \in (OwnerAt(u) + 1)..(RepositoryAt(u) - 1) :
        w[i] = u.owner[i - OwnerAt(u)] /\ w[i] # "/"
  /\ w[RepositoryAt(u)] = "/"
  /\ \A i \in (RepositoryAt(u) + 1)..(RestAt(u) - 1) :
        w[i] = u.repository[i - RepositoryAt(u)] /\ w[i] # "/"
  /\ u.rest = <<>> => Size(w) = RestAt(u) - 1
  /\ u.rest # <<>> =>
       /\ w[RestAt(u)] = "/" /\ Size(w) = RestAt(u) + Size(u.rest)
       /\ \A i \in (RestAt(u) + 1)..(RestAt(u) + Size(u.rest)) :
            w[i] = u.rest[i - RestAt(u)]

LEMMA UriLayout ==
  ASSUME NEW u \in Urls, NEW w, w = Url(u)
  PROVE  Laid(u, w)
<1>1. /\ u.scheme \in Texts /\ Authority(u) \in Texts /\ u.owner \in Texts
      /\ u.repository \in Texts /\ u.rest \in Texts
  BY PartsOfUrl, AuthorityText
<1>2. PICK s, a, o, r \in Nat : /\ s = Size(u.scheme) /\ a = Size(Authority(u))
                                /\ o = Size(u.owner) /\ r = Size(u.repository)
  BY <1>1, SizeNat
<1>3. PICK i0, i1, i2, i3 \in Nat :
        /\ i0 = HostAt(u) /\ i1 = OwnerAt(u) /\ i2 = RepositoryAt(u) /\ i3 = RestAt(u)
        /\ i0 = s + 3 /\ i1 = i0 + a + 1 /\ i2 = i1 + o + 1 /\ i3 = i2 + r + 1
  BY <1>2, UrlText DEF HostAt, OwnerAt, RepositoryAt, RestAt, Size
<1>4. PICK h \in Texts, b \in Texts, d \in Texts, e \in Texts :
        /\ h = ToHost(u) /\ b = ToOwner(u) /\ d = ToRepository(u) /\ e = ToRest(u)
        /\ Len(h) = i0 /\ Len(b) = i1 /\ Len(d) = i2 /\ Len(e) = i3 - 1
  BY <1>3, UrlText
<1>5. PICK q \in Texts : q = Opt(<<"/">>, u.rest, <<>>)
  BY <1>1, Marked, OneCharacter, NoText, OptText, Zenon
<1>6. w = e \o q /\ w \in Texts /\ Len(w) = Len(e) + Len(q)
  <2>1. w = e \o q
    BY <1>4, <1>5, UrlText, Zenon
  <2>2. e \in Texts /\ q \in Texts
    OBVIOUS
  <2> QED BY <2>1, <2>2, Joined, Zenon
<1>7. Occurs(e, w, 0) /\ Occurs(q, w, 0 + Len(e))
  BY <1>4, <1>5, <1>6, OccursWhole, OccursParts
<1>8. Occurs(d, w, 0) /\ Occurs(u.repository, w, 0 + Len(d))
  BY <1>1, <1>4, <1>7, OccursParts DEF ToRest
<1>9. Occurs(u.repository, w, i2)
  <2>1. 0 + Len(d) = i2
    BY <1>4
  <2> QED BY <1>8, <2>1, Zenon
<1>10. /\ Occurs(b, w, 0) /\ w[i1 + o + 1] = "/"
       /\ Occurs(u.owner, w, i1)
  <2>1. PICK x \in Characters, z \in Nat : x = "/" /\ z = 0
    BY Marked
  <2>2. Occurs((b \o u.owner) \o <<x>>, w, z)
    <3>1. d = (b \o u.owner) \o <<x>>
      BY <1>4, <2>1 DEF ToRepository
    <3> QED BY <1>8, <2>1, <3>1, Zenon
  <2>3. /\ Occurs(b, w, z) /\ w[i1 + Size(u.owner) + 1] = x
        /\ Occurs(u.owner, w, i1)
    <3>1. PICK t \in Texts : t = u.owner /\ i1 = Len(b)
      BY <1>1, <1>4
    <3>2. Occurs((b \o t) \o <<x>>, w, z)
      BY <2>2, <3>1
    <3>3. /\ Occurs(b, w, z) /\ w[i1 + Size(t) + 1] = x
          /\ Occurs(t, w, i1)
      BY <2>1, <3>1, <3>2, PartAndSlash
    <3> QED BY <3>1, <3>3, Zenon
  <2> QED BY <1>2, <2>1, <2>3, Zenon
<1>11. /\ Occurs(h, w, 0) /\ w[i0 + a + 1] = "/"
       /\ Occurs(Authority(u), w, i0)
  <2>1. PICK x \in Characters, z \in Nat : x = "/" /\ z = 0
    BY Marked
  <2>2. Occurs((h \o Authority(u)) \o <<x>>, w, z)
    <3>1. b = (h \o Authority(u)) \o <<x>>
      BY <1>4, <2>1 DEF ToOwner
    <3> QED BY <1>10, <2>1, <3>1, Zenon
  <2>3. /\ Occurs(h, w, z) /\ w[i0 + Size(Authority(u)) + 1] = x
        /\ Occurs(Authority(u), w, i0)
    <3>1. PICK t \in Texts : t = Authority(u) /\ i0 = Len(h)
      BY <1>1, <1>4
    <3>2. Occurs((h \o t) \o <<x>>, w, z)
      BY <2>2, <3>1
    <3>3. /\ Occurs(h, w, z) /\ w[i0 + Size(t) + 1] = x
          /\ Occurs(t, w, i0)
      BY <2>1, <3>1, <3>2, PartAndSlash
    <3> QED BY <3>1, <3>3, Zenon
  <2> QED BY <1>2, <2>1, <2>3, Zenon
<1>12. Occurs(u.scheme, w, 0) /\ Occurs(Slashes, w, 0 + Len(u.scheme))
  BY <1>1, <1>4, <1>11, SlashesText, OccursParts DEF ToHost
<1>13. w[s + 1] = ":" /\ w[s + 2] = "/" /\ w[s + 3] = "/"
  <2>1. 0 + Len(u.scheme) = s
    BY <1>2 DEF Size
  <2>2. Occurs(Slashes, w, s)
    BY <1>12, <2>1, Zenon
  <2>3. /\ s + 1 \in (s + 1)..(s + 3) /\ s + 2 \in (s + 1)..(s + 3) /\ s + 3 \in (s + 1)..(s + 3)
        /\ s + 1 - s = 1 /\ s + 2 - s = 2 /\ s + 3 - s = 3
    BY <1>2
  <2>4. Size(Slashes) = 3
    BY SlashesText DEF Size
  <2>5. \A i \in (s + 1)..(s + 3) : w[i] = Slashes[i - s]
    BY <2>2, <2>4, OccursAt
  <2> QED BY <2>3, <2>5, SlashesText
<1>14. \A i \in 1..(s + 1) : w[i] # "/"
  <2>1. ASSUME NEW i \in 1..s PROVE w[i] # "/"
    <3>1. PICK z \in Nat : z = 0
      OBVIOUS
    <3>2. i \in (z + 1)..(z + Size(u.scheme)) /\ i - z = i
      BY <1>2, <3>1
    <3>3. w[i] = u.scheme[i]
      BY <1>12, <3>1, <3>2, OccursAt
    <3>4. i \in 1..Len(u.scheme)
      BY <1>2 DEF Size
    <3> QED BY <3>3, <3>4, PartsOfUrl
  <2> QED BY <1>2, <1>13, <2>1
<1>15. \A i \in (i0 + 1)..(i1 - 1) : w[i] # "/"
  <2>1. ASSUME NEW i \in (i0 + 1)..(i1 - 1) PROVE w[i] # "/"
    <3>1. i \in (i0 + 1)..(i0 + Size(Authority(u))) /\ i - i0 \in 1..a
      BY <1>2, <1>3
    <3>2. i - i0 \in 1..Len(Authority(u))
      BY <1>2, <3>1 DEF Size
    <3>3. w[i] = Authority(u)[i - i0]
      BY <1>11, <3>1, OccursAt
    <3> QED BY <3>2, <3>3, AuthorityText
  <2> QED BY <2>1
<1>16. \A i \in (i1 + 1)..(i2 - 1) : w[i] = u.owner[i - i1] /\ w[i] # "/"
  <2>1. ASSUME NEW i \in (i1 + 1)..(i2 - 1) PROVE w[i] = u.owner[i - i1] /\ w[i] # "/"
    <3>1. i \in (i1 + 1)..(i1 + Size(u.owner)) /\ i - i1 \in 1..o
      BY <1>2, <1>3
    <3>2. i - i1 \in 1..Len(u.owner)
      BY <1>2, <3>1 DEF Size
    <3>3. w[i] = u.owner[i - i1]
      BY <1>10, <3>1, OccursAt
    <3> QED BY <3>2, <3>3, PartsOfUrl
  <2> QED BY <2>1
<1>17. \A i \in (i2 + 1)..(i3 - 1) : w[i] = u.repository[i - i2] /\ w[i] # "/"
  <2>1. ASSUME NEW i \in (i2 + 1)..(i3 - 1) PROVE w[i] = u.repository[i - i2] /\ w[i] # "/"
    <3>1. i \in (i2 + 1)..(i2 + Size(u.repository)) /\ i - i2 \in 1..r
      BY <1>2, <1>3
    <3>2. i - i2 \in 1..Len(u.repository)
      BY <1>2, <3>1 DEF Size
    <3>3. w[i] = u.repository[i - i2]
      BY <1>9, <3>1, OccursAt
    <3> QED BY <3>2, <3>3, PartsOfUrl
  <2> QED BY <2>1
<1>18. CASE u.rest = <<>>
  <2>1. q = <<>> /\ Len(q) = 0
    BY <1>5, <1>18, NoText DEF Opt
  <2>2. Size(w) = i3 - 1
    BY <1>3, <1>4, <1>6, <2>1 DEF Size
  <2> QED BY <1>2, <1>3, <1>10, <1>11, <1>13, <1>14, <1>15, <1>16, <1>17, <1>18, <2>2, Zenon DEF Laid
<1>19. CASE u.rest # <<>>
  <2>1. PICK x \in Characters : x = "/"
    BY Marked
  <2>2. q = <<x>> \o u.rest
    BY <1>1, <1>5, <1>19, <2>1, ConcatEmptySeq, Joined DEF Opt, Texts
  <2>3. <<x>> \in Texts /\ Len(<<x>>) = 1
    BY OneCharacter
  <2>4. PICK m \in Nat : m = Len(e) /\ m + 1 = i3 /\ 0 + Len(e) = m /\ m = i3 - 1
    BY <1>3, <1>4
  <2>5. Occurs(<<x>> \o u.rest, w, m)
    BY <1>7, <2>2, <2>4, Zenon
  <2>6. Occurs(<<x>>, w, m) /\ Occurs(u.rest, w, m + Len(<<x>>))
    BY <1>1, <2>3, <2>5, OccursParts
  <2>7. w[m + 1] = x
    BY <2>6, OccursOne
  <2>8. Occurs(u.rest, w, i3)
    <3>1. m + Len(<<x>>) = i3
      BY <2>3, <2>4, Zenon
    <3> QED BY <2>6, <3>1, Zenon
  <2>9. \A i \in (i3 + 1)..(i3 + Size(u.rest)) : w[i] = u.rest[i - i3]
    BY <2>8, OccursAt
  <2>10. Size(w) = i3 + Size(u.rest)
    <3>1. Len(q) = Len(<<x>>) + Len(u.rest) /\ Len(u.rest) \in Nat
      BY <1>1, <2>2, <2>3, Joined
    <3>2. Len(w) = m + (1 + Len(u.rest))
      BY <1>6, <2>3, <2>4, <3>1, Zenon
    <3> QED BY <2>4, <3>1, <3>2 DEF Size
  <2>11. w[i3] = "/"
    BY <2>1, <2>4, <2>7, Zenon
  <2> QED BY <1>2, <1>3, <1>10, <1>11, <1>13, <1>14, <1>15, <1>16, <1>17, <1>19, <2>9,
             <2>10, <2>11, Zenon DEF Laid
<1> QED BY <1>18, <1>19

-----------------------------------------------------------------------------
(* The parsers stay in the packet *)

\* What ParseSubversionHds finds, with some version.
Found(v) == [protocol : {v}, mCapabilities : Seq(Texts), subversionURL : Texts,
             userAgent : Texts]

\* What has been stored fits into what has been read.
Bounds ==
  /\ buffer \in Texts /\ p \in 1..(Len(buffer) + 1)
  /\ tmp \in Texts
  /\ hds \in Found(hds.protocol)
  /\ Len(tmp) + Len(hds.subversionURL) + Len(hds.userAgent) <= p - 1
  /\ depth \in (1 - p)..(p - 1) /\ status \in Statuses
  /\ ret \in {Running, Thrown, 0, 2}

\* The URL is looked at when it is there.
Walked ==
  /\ cret \in {Running, 0, 2}
  /\ c \in 1..(Len(hds.subversionURL) + 1) /\ level \in 0..5
  /\ ret # 0 => c = 1 /\ level = 0 /\ subversionURL = NoUrl /\ cret = Running

\* What has been read of a packet is what has been sent.
PacketOf(h) ==
  /\ Len(buffer) \in 1..Len(Encoded(h))
  /\ \A i \in 1..Len(buffer) : buffer[i] = Encoded(h)[i]

Packet ==
  \/ sent.kind = "handshake" /\ sent.of \in Handshakes /\ PacketOf(sent.of)
  \/ sent.kind = "malformed"

LEMMA PacketInit == Init => Packet /\ buffer \in Texts
<1> SUFFICES ASSUME Init PROVE Packet /\ buffer \in Texts
  OBVIOUS
<1>1. CASE \E h \in Handshakes :
             /\ sent = [kind |-> "handshake", of |-> h]
             /\ \E n \in 1..Len(Encoded(h)) : buffer = SubSeq(Encoded(h), 1, n)
  <2>1. PICK h \in Handshakes :
          /\ sent = [kind |-> "handshake", of |-> h]
          /\ \E n \in 1..Len(Encoded(h)) : buffer = SubSeq(Encoded(h), 1, n)
    BY <1>1
  <2>2. PICK e \in Texts : e = Encoded(h)
    BY EncodedText
  <2> PICK n \in 1..Len(e) : buffer = SubSeq(e, 1, n)
    BY <2>1, <2>2
  <2>3. n \in 0..Len(e)
    BY <2>2 DEF Texts
  <2>4. /\ SubSeq(e, 1, n) \in Texts /\ Len(SubSeq(e, 1, n)) = n
        /\ \A i \in 1..n : SubSeq(e, 1, n)[i] = e[i]
    BY <2>3, Cut
  <2> QED BY <2>1, <2>2, <2>4 DEF Packet, PacketOf
<1>2. CASE \E b \in Malformed : sent = [kind |-> "malformed", of |-> b] /\ buffer = b
  BY <1>2, HdsAssumption DEF Packet
<1> QED BY <1>1, <1>2 DEF Init

LEMMA BoundsInit == Init => Bounds /\ Walked
<1> SUFFICES ASSUME Init PROVE Bounds /\ Walked
  OBVIOUS
<1>1. buffer \in Texts /\ Len(buffer) \in Nat
  BY PacketInit DEF Texts
<1>2. <<>> \in Texts /\ <<>> \in Seq(Texts) /\ Len(<<>>) = 0
  BY NoText
<1>3. /\ p = 1 /\ status = "kParseReset" /\ depth = 0 /\ tmp = <<>> /\ ret = Running
      /\ hds = [protocol |-> 0, mCapabilities |-> <<>>, subversionURL |-> <<>>,
                userAgent |-> <<>>]
      /\ c = 1 /\ level = 0 /\ subversionURL = NoUrl /\ cret = Running
  BY DEF Init
<1>4. hds.subversionURL = <<>> /\ hds.userAgent = <<>>
  BY <1>3
<1>5. Bounds
  BY <1>1, <1>2, <1>3, <1>4 DEF Bounds, Found, Statuses
<1>6. Walked
  BY <1>2, <1>3, <1>4 DEF Walked
<1> QED BY <1>5, <1>6

\* The lengths as numbers.
LEMMA Sizes ==
  ASSUME Bounds
  PROVE  \E n, a, b, q \in Nat :
           /\ n = Len(buffer) /\ a = Len(hds.subversionURL)
           /\ b = Len(hds.userAgent) /\ q = Len(tmp)
           /\ p \in 1..(n + 1) /\ depth \in (1 - p)..(p - 1) /\ q + a + b <= p - 1
<1>1. /\ Len(buffer) \in Nat /\ Len(hds.subversionURL) \in Nat
      /\ Len(hds.userAgent) \in Nat /\ Len(tmp) \in Nat
  <2>1. /\ buffer \in Texts /\ tmp \in Texts /\ hds.subversionURL \in Texts
        /\ hds.userAgent \in Texts
    BY DEF Bounds, Found
  <2> QED BY <2>1 DEF Texts
<1>2. /\ p \in 1..(Len(buffer) + 1) /\ depth \in (1 - p)..(p - 1)
      /\ Len(tmp) + Len(hds.subversionURL) + Len(hds.userAgent) <= p - 1
  BY DEF Bounds
<1> QED BY <1>1, <1>2, Zenon

LEMMA CopiedText ==
  ASSUME buffer \in Texts, p \in Nat, NEW l \in Nat
  PROVE  Copied(l) \in Texts /\ Len(Copied(l)) = l
<1> DEFINE g(i) == IF p + i <= Len(buffer) THEN buffer[p + i] ELSE "stale"
<1>1. \A i \in 1..l : g(i) \in Characters
  <2>1. "stale" \in Characters
    BY Marked
  <2>2. \A j \in 1..Len(buffer) : buffer[j] \in Characters
    BY DEF Texts
  <2>3. \A i \in 1..l : p + i <= Len(buffer) => p + i \in 1..Len(buffer)
    BY DEF Texts
  <2> QED BY <2>1, <2>2, <2>3
<1>2. Copied(l) = [i \in 1..l |-> g(i)]
  BY DEF Copied
<1> HIDE DEF g
<1>3. Copied(l) \in Texts
  BY <1>1, <1>2, IsASeq DEF Texts
<1>4. DOMAIN Copied(l) = 1..l
  BY <1>2
<1> QED BY <1>3, <1>4, LenProperties DEF Texts

LEMMA AppendedText ==
  ASSUME NEW t \in Texts, NEW x \in Characters
  PROVE  Append(t, x) \in Texts /\ Len(Append(t, x)) = Len(t) + 1 /\ Len(t) \in Nat
BY AppendProperties DEF Texts

\* What a length that is none below zero is measured by.
LEMMA Measured ==
  ASSUME p \in Nat, NEW l \in Nat
  PROVE  TooLong(l) <=> p + l + 1 >= Len(buffer) + 1
<1>1. ~(Address + p + l + 1 < 0)
  BY HdsAssumption
<1> QED BY <1>1 DEF TooLong

\* What Parse_string does, whichever text it continues.
LEMMA StringStep ==
  ASSUME Bounds, Parsing, NEW t \in Texts, Len(t) <= Len(tmp),
         NEW f \in {"subversionURL", "userAgent"}, NEW at \in Statuses,
         Parse_string(t, f, at), UNCHANGED buffer
  PROVE  Bounds'
<1>0. PICK n, a, b, q \in Nat :
        /\ n = Len(buffer) /\ a = Len(hds.subversionURL)
        /\ b = Len(hds.userAgent) /\ q = Len(tmp)
        /\ p \in 1..(n + 1) /\ depth \in (1 - p)..(p - 1) /\ q + a + b <= p - 1
  BY Sizes
<1>1. PICK k \in Nat : /\ n = Len(buffer) /\ k = Len(t) /\ a = Len(hds.subversionURL)
                       /\ b = Len(hds.userAgent) /\ q = Len(tmp)
  BY <1>0 DEF Texts
<1>2. p \in 1..n /\ k <= q /\ q + a + b <= p - 1
  <2>1. p <= n /\ k <= q
    BY <1>1 DEF Parsing
  <2>2. p \in 1..(n + 1) /\ q + a + b <= p - 1 /\ depth \in (1 - p)..(p - 1)
    BY <1>0
  <2> QED BY <2>1, <2>2
<1>3. buffer[p] \in Characters
  BY <1>1, <1>2 DEF Bounds, Texts
<1>4. CASE buffer[p] # ":"
  <2>1. /\ tmp' = Append(t, buffer[p]) /\ p' = p + 1 /\ status' = at
        /\ UNCHANGED <<hds, ret, depth, buffer>>
    BY <1>4 DEF Parse_string
  <2>2. tmp' \in Texts /\ Len(tmp') = k + 1
    BY <1>1, <1>3, <2>1, AppendedText
  <2>3. Len(tmp') + Len(hds'.subversionURL) + Len(hds'.userAgent) <= p' - 1
    <3>1. Len(hds'.subversionURL) = a /\ Len(hds'.userAgent) = b
      BY <1>1, <2>1
    <3>2. (k + 1) + a + b <= (p + 1) - 1
      BY <1>2
    <3> QED BY <2>1, <2>2, <3>1, <3>2, Zenon
  <2>4. p' \in 1..(Len(buffer') + 1) /\ depth' \in (1 - p')..(p' - 1)
    BY <1>1, <1>2, <2>1 DEF Bounds
  <2> QED BY <2>1, <2>2, <2>3, <2>4 DEF Bounds
<1>5. CASE ret' \in {Thrown, 2} /\ UNCHANGED <<p, tmp, status, hds, depth>>
  BY <1>5 DEF Bounds
<1>6. CASE buffer[p] = ":" /\ ~TooLong(strtol(t)) /\ strtol(t) >= 0
  <2>1. PICK l \in Nat : l = strtol(t)
    BY <1>6, StrtolInt
  <2>2. /\ hds' = [hds EXCEPT ![f] = Copied(l)] /\ p' = p + l + 2 /\ tmp' = <<>>
        /\ status' \in Statuses /\ UNCHANGED <<ret, depth, buffer>>
    <3>1. buffer[p] = ":" /\ ~TooLong(l) /\ l >= 0 /\ ~(l < 0)
      BY <1>6, <2>1
    <3> QED BY <2>1, <3>1 DEF Parse_string, Statuses
  <2>3. p + l + 1 < n + 1
    BY <1>1, <1>2, <1>6, <2>1, Measured
  <2>4. Copied(l) \in Texts /\ Len(Copied(l)) = l
    BY <1>2, CopiedText DEF Bounds
  <2>5. /\ hds' \in Found(hds'.protocol)
        /\ \/ hds'.subversionURL = Copied(l) /\ hds'.userAgent = hds.userAgent
           \/ hds'.subversionURL = hds.subversionURL /\ hds'.userAgent = Copied(l)
    BY <2>2, <2>4 DEF Bounds, Found
  <2>6. tmp' \in Texts /\ Len(tmp') = 0
    BY <2>2, NoText
  <2>7. Len(tmp') + Len(hds'.subversionURL) + Len(hds'.userAgent) <= p' - 1
    <3>1. \/ Len(hds'.subversionURL) = l /\ Len(hds'.userAgent) = b
          \/ Len(hds'.subversionURL) = a /\ Len(hds'.userAgent) = l
      BY <1>1, <2>4, <2>5
    <3>2. 0 + l + b <= (p + l + 2) - 1 /\ 0 + a + l <= (p + l + 2) - 1
      BY <1>2
    <3> QED BY <2>2, <2>6, <3>1, <3>2, Zenon
  <2>8. p' \in 1..(Len(buffer') + 1) /\ depth' \in (1 - p')..(p' - 1)
    BY <1>1, <1>2, <2>2, <2>3 DEF Bounds
  <2> QED BY <2>2, <2>5, <2>6, <2>7, <2>8 DEF Bounds
<1> QED BY <1>4, <1>5, <1>6 DEF Parse_string

LEMMA BoundsKept ==
  ASSUME Bounds, UNCHANGED <<buffer, p, tmp, status, hds, depth>>, ret' \in {Running, Thrown, 0, 2}
  PROVE  Bounds'
BY DEF Bounds

\* A step that reads one character and stores nothing longer.
LEMMA OneRead ==
  ASSUME Bounds, Parsing, UNCHANGED <<buffer, ret>>, p' = p + 1,
         status' \in Statuses, depth' \in {depth - 1, depth, depth + 1},
         hds' \in Found(hds'.protocol), hds'.subversionURL = hds.subversionURL,
         hds'.userAgent = hds.userAgent, tmp' \in Texts,
         tmp' \in {tmp, <<>>, Append(tmp, buffer[p])}
  PROVE  Bounds'
<1>0. PICK n, a, b, q \in Nat :
        /\ n = Len(buffer) /\ a = Len(hds.subversionURL)
        /\ b = Len(hds.userAgent) /\ q = Len(tmp)
        /\ p \in 1..(n + 1) /\ depth \in (1 - p)..(p - 1) /\ q + a + b <= p - 1
  BY Sizes
<1>1. /\ n = Len(buffer) /\ a = Len(hds.subversionURL)
      /\ b = Len(hds.userAgent) /\ q = Len(tmp)
  BY <1>0
<1>2. p \in 1..n /\ q + a + b <= p - 1 /\ depth \in (1 - p)..(p - 1)
  <2>1. p <= n
    BY <1>1 DEF Parsing
  <2>2. p \in 1..(n + 1) /\ q + a + b <= p - 1 /\ depth \in (1 - p)..(p - 1)
    BY <1>0
  <2> QED BY <2>1, <2>2
<1>3. buffer[p] \in Characters
  BY <1>1, <1>2 DEF Bounds, Texts
<1>4. Len(tmp') \in {q, 0, q + 1}
  <2>1. tmp \in Texts /\ Len(<<>>) = 0
    BY NoText DEF Bounds
  <2>2. Len(Append(tmp, buffer[p])) = q + 1
    BY <1>1, <1>3, <2>1, AppendedText
  <2> QED BY <1>1, <2>1, <2>2
<1>5. Len(tmp') + Len(hds'.subversionURL) + Len(hds'.userAgent) <= p' - 1
  <2>1. PICK k \in {q, 0, q + 1} : k = Len(tmp')
    BY <1>4
  <2>2. k + a + b <= (p + 1) - 1
    BY <1>2
  <2>3. Len(hds'.subversionURL) = a /\ Len(hds'.userAgent) = b
    BY <1>1
  <2> QED BY <2>1, <2>2, <2>3, Zenon
<1>6. p' \in 1..(Len(buffer') + 1) /\ depth' \in (1 - p')..(p' - 1)
  <2>1. p + 1 \in 1..(n + 1)
    BY <1>2
  <2>2. depth' \in (1 - p')..(p' - 1)
    BY <1>2
  <2> QED BY <1>1, <2>1, <2>2
<1>7. buffer' \in Texts /\ ret' \in {Running, Thrown, 0, 2}
  BY DEF Bounds
<1> QED BY <1>5, <1>6, <1>7 DEF Bounds

LEMMA ParserBounds ==
  ASSUME Bounds, ParseSubversionHds
  PROVE  Bounds'
<1> DEFINE Same == UNCHANGED buffer
<1>1. UNCHANGED <<sent, buffer, canon>>
  BY DEF ParseSubversionHds
<1>2. tmp \in Texts /\ hds \in Found(hds.protocol) /\ status \in Statuses /\ <<>> \in Texts
  BY NoText DEF Bounds
<1>3. Parsing => buffer[p] \in Characters
  BY DEF Parsing, Bounds, Texts
<1>4. CASE Parse_paren
  BY <1>1, <1>2, <1>4, OneRead DEF Parse_paren
<1>5. CASE Parse_blank
  <2>1. CASE status = "kProtocolParsed" /\ tmp # <<>>
    <3>1. /\ Parsing /\ p' = p + 1 /\ tmp' = <<>> /\ UNCHANGED <<status, depth, ret>>
          /\ hds' = [hds EXCEPT !.mCapabilities = Append(@, tmp)]
      BY <1>5, <2>1 DEF Parse_blank
    <3>2. Append(hds.mCapabilities, tmp) \in Seq(Texts)
      BY <1>2, AppendProperties DEF Found
    <3>3. /\ hds' \in Found(hds'.protocol) /\ hds'.subversionURL = hds.subversionURL
          /\ hds'.userAgent = hds.userAgent
      BY <1>2, <3>1, <3>2 DEF Found
    <3> QED BY <1>1, <1>2, <3>1, <3>3, OneRead
  <2>2. CASE ~(status = "kProtocolParsed" /\ tmp # <<>>)
    <3>1. Parsing /\ p' = p + 1 /\ UNCHANGED <<status, depth, ret, hds, tmp>>
      BY <1>5, <2>2 DEF Parse_blank
    <3> QED BY <1>1, <1>2, <3>1, OneRead
  <2> QED BY <2>1, <2>2
<1>6. CASE Parse_zero
  BY <1>1, <1>6, BoundsKept DEF Parse_zero
<1>7. CASE Parse_protocol
  <2>1. /\ Parsing /\ p' = p + 1 /\ UNCHANGED <<depth, tmp, ret>>
        /\ status' \in Statuses
        /\ \/ hds' = [hds EXCEPT !.protocol = Value(buffer[p])]
           \/ hds' = hds
    BY <1>2, <1>7 DEF Parse_protocol, Statuses
  <2>2. /\ hds' \in Found(hds'.protocol) /\ hds'.subversionURL = hds.subversionURL
        /\ hds'.userAgent = hds.userAgent
    BY <1>2, <2>1 DEF Found
  <2> QED BY <1>1, <1>2, <2>1, <2>2, OneRead
<1>8. CASE Parse_capability
  <2>1. /\ Parsing /\ p' = p + 1 /\ tmp' = Append(tmp, buffer[p])
        /\ UNCHANGED <<status, depth, hds, ret>>
    BY <1>8 DEF Parse_capability
  <2>2. tmp' \in Texts
    BY <1>2, <1>3, <2>1, AppendedText
  <2> QED BY <1>1, <1>2, <2>1, <2>2, OneRead
<1>9. CASE Parse_url
  <2>1. Len(<<>>) <= Len(tmp) /\ Len(tmp) <= Len(tmp)
    BY <1>2, NoText DEF Texts
  <2>2. "kCapabilitiesParsed" \in Statuses
    BY DEF Statuses
  <2> QED BY <1>1, <1>2, <1>9, <2>1, <2>2, StringStep DEF Parse_url
<1>10. CASE Parse_agent
  <2>1. Len(tmp) <= Len(tmp)
    BY <1>2 DEF Texts
  <2>2. (IF depth # 1 THEN "kSubversionRUAParsed" ELSE status) \in Statuses
    BY <1>2 DEF Statuses
  <2> QED BY <1>1, <1>2, <1>10, <2>1, <2>2, StringStep DEF Parse_agent
<1>11. CASE Parse_rest
  <2>1. Parsing /\ p' = p + 1 /\ UNCHANGED <<status, depth, tmp, hds, ret>>
    BY <1>11 DEF Parse_rest
  <2> QED BY <1>1, <1>2, <2>1, OneRead
<1>12. CASE Parse_end
  BY <1>1, <1>12, BoundsKept DEF Parse_end
<1> QED BY <1>4, <1>5, <1>6, <1>7, <1>8, <1>9, <1>10, <1>11, <1>12 DEF ParseSubversionHds

LEMMA BoundsStep ==
  ASSUME Bounds, Walked, [Next]_vars
  PROVE  Bounds' /\ Walked'
<1>1. CASE ParseSubversionHds
  <2>1. ret = Running
    BY <1>1 DEF ParseSubversionHds, Parsing, Parse_paren, Parse_blank, Parse_zero,
         Parse_protocol, Parse_capability, Parse_url, Parse_agent, Parse_rest, Parse_end
  <2>2. c = 1 /\ level = 0 /\ subversionURL = NoUrl /\ cret = Running
        /\ UNCHANGED <<c, level, subversionURL, cret>>
    BY <1>1, <2>1 DEF Walked, Running, ParseSubversionHds, canon
  <2>3. Bounds'
    BY <1>1, ParserBounds
  <2>4. Len(hds'.subversionURL) \in Nat
    BY <2>3 DEF Bounds, Found, Texts
  <2> QED BY <2>2, <2>3, <2>4 DEF Walked
<1>2. CASE SubversionUriCanonicalize
  <2>1. UNCHANGED <<sent, buffer, p, status, depth, tmp, hds, ret>> /\ ret = 0
    BY <1>2 DEF SubversionUriCanonicalize, parser, Walking, Uri_slash, Uri_bad, Uri_char, Uri_end
  <2>2. Bounds'
    BY <2>1 DEF Bounds
  <2>3. PICK n \in Nat : n = Len(hds.subversionURL)
    BY Sizes
  <2>4. c \in 1..(n + 1) /\ level \in 0..5
    BY <2>3 DEF Walked
  <2>5. c' \in 1..(n + 1) /\ level' \in 0..5 /\ cret' \in {Running, 0, 2}
    BY <1>2, <2>3, <2>4 DEF SubversionUriCanonicalize, Walking, Uri_slash, Uri_bad,
         Uri_char, Uri_end, Running
  <2> QED BY <2>1, <2>2, <2>3, <2>5 DEF Walked
<1>3. CASE UNCHANGED vars
  BY <1>3 DEF vars, parser, canon, Bounds, Walked
<1> QED BY <1>1, <1>2, <1>3 DEF Next

LEMMA BoundsInvariant == Spec => [](Bounds /\ Walked)
BY BoundsInit, BoundsStep, PTL DEF Spec

\* Whatever the packet, whole, cut or malformed, also one that claims a length below zero, at
\* which ParseSubversionHds throws: the parser reads no byte behind it, stores nothing longer
\* than it, and both parsers stay in their texts.
THEOREM ParsersStayInPacket == Spec => []TypeOK
<1>1. ASSUME Bounds, Walked PROVE TypeOK
  <2>1. PICK n, a, b, q \in Nat :
          /\ n = Len(buffer) /\ a = Len(hds.subversionURL)
          /\ b = Len(hds.userAgent) /\ q = Len(tmp)
          /\ p \in 1..(n + 1) /\ depth \in (1 - p)..(p - 1) /\ q + a + b <= p - 1
    BY <1>1, Sizes
  <2>2. p \in 1..(n + 1) /\ depth \in (1 - p)..(p - 1) /\ q + a + b <= p - 1
    BY <2>1
  <2>3. depth \in (-n)..n /\ q + a + b <= n
    BY <2>2
  <2> QED BY <1>1, <2>1, <2>3, Zenon DEF Bounds, Walked, TypeOK
<1> QED BY <1>1, BoundsInvariant, PTL

-----------------------------------------------------------------------------
(* The URL that a handshake is routed by *)

LEMMA ReadsOne ==
  ASSUME Bounds, Parsing, ParseSubversionHds
  PROVE  /\ buffer[p] \in Blanks => Parse_blank
         /\ buffer[p] = " " => Parse_blank
         /\ buffer[p] \in {"(", ")"} => Parse_paren
         /\ buffer[p] \notin Marks =>
              Parse_protocol \/ Parse_capability \/ Parse_url \/ Parse_agent \/ Parse_rest
         /\ Parse_blank \/ Parse_paren \/ Parse_zero \/ Parse_protocol \/ Parse_capability
              \/ Parse_url \/ Parse_agent \/ Parse_rest
<1>1. ~Parse_end
  <2>1. PICK n \in Nat : n = Len(buffer) /\ p \in 1..(n + 1)
    BY Sizes
  <2>2. p <= n
    BY <2>1 DEF Parsing
  <2> QED BY <2>1, <2>2 DEF Parse_end
<1>2. \/ Parse_blank \/ Parse_paren \/ Parse_zero \/ Parse_protocol \/ Parse_capability
      \/ Parse_url \/ Parse_agent \/ Parse_rest
  BY <1>1 DEF ParseSubversionHds
<1>3. /\ Parse_blank => buffer[p] \in Blanks
      /\ Parse_paren => buffer[p] \in {"(", ")"}
      /\ Parse_zero => buffer[p] = Zero
      /\ Parse_protocol \/ Parse_capability \/ Parse_url \/ Parse_agent \/ Parse_rest
           => buffer[p] \notin Marks
  BY DEF Parse_blank, Parse_paren, Parse_zero, Parse_protocol, Parse_capability, Parse_url,
         Parse_agent, Parse_rest
<1> QED BY <1>2, <1>3 DEF Marks, Blanks, Zero

\* Status and depth in front of character q, as long as the URL is not read.
StatusAt(h, q) == IF q <= 3 THEN "kParseReset"
                  ELSE IF q <= First(h) + 1 THEN "kProtocolParsed" ELSE "kCapabilitiesParsed"

DepthAt(h, q) == IF q = 1 THEN 0 ELSE IF q \in 6..(ListEnd(h) + 1) THEN 2 ELSE 1

\* The parser has the beginning of the handshake behind it, and maybe some digits of
\* the length of the URL.
UrlAhead(h) ==
  /\ hds.subversionURL = <<>> /\ p \in 1..UrlAt(h)
  /\ status = StatusAt(h, p) /\ depth = DepthAt(h, p)
  /\ p > First(h) + 1 => tmp = SubSeq(Length(Url(h.url)), 1, p - First(h) - 1)

UrlBehind(h) ==
  /\ hds.subversionURL = Url(h.url)
  /\ status \in {"kSubversionUrlParsed", "kSubversionRUAParsed"}

Routed(h) ==
  /\ ret = Running => UrlAhead(h) \/ UrlBehind(h)
  /\ ret = 0 => hds.subversionURL = Url(h.url)

LEMMA AheadOn ==
  ASSUME NEW h \in Handshakes, UrlAhead(h), p' = p + 1,
         p <= First(h), hds'.subversionURL = hds.subversionURL,
         status' = StatusAt(h, p + 1), depth' = DepthAt(h, p + 1)
  PROVE  UrlAhead(h)'
<1>1. PICK f, g \in Nat : /\ f = First(h) /\ g = UrlAt(h) /\ f >= 8 /\ ListEnd(h) = f - 2
                          /\ g >= f + 2 /\ g = f + Size(Length(Url(h.url))) + 1
  BY Beginning
<1>2. p \in 1..g /\ p <= f
  BY <1>1 DEF UrlAhead
<1>3. p + 1 \in 1..g /\ ~(p + 1 > f + 1)
  BY <1>1, <1>2
<1> QED BY <1>1, <1>3 DEF UrlAhead

LEMMA Refused ==
  ASSUME NEW h, ret' \in {Thrown, 2}
  PROVE  Routed(h)'
BY DEF Routed, Running, Thrown

LEMMA BehindOn ==
  ASSUME NEW h, Bounds, UrlBehind(h), ParseSubversionHds
  PROVE  Routed(h)'
<1>1. ASSUME hds'.subversionURL = hds.subversionURL, ret' = ret \/ ret' \in {Thrown, 0, 2},
             status' \in {"kSubversionUrlParsed", "kSubversionRUAParsed"}
      PROVE  Routed(h)'
  BY <1>1 DEF UrlBehind, Routed, Running, Thrown
<1>2. status # "kParseReset" /\ status # "kProtocolParsed" /\ status # "kCapabilitiesParsed"
  BY DEF UrlBehind
<1>3. CASE Parse_paren \/ Parse_zero \/ Parse_rest \/ Parse_end \/ Parse_protocol
           \/ Parse_capability
  BY <1>1, <1>2, <1>3 DEF UrlBehind, Parse_paren, Parse_zero, Parse_rest, Parse_end,
     Parse_protocol, Parse_capability
<1>4. CASE Parse_blank
  BY <1>1, <1>2, <1>4 DEF UrlBehind, Parse_blank
<1>5. CASE Parse_url
  BY <1>2, <1>5 DEF Parse_url
<1>6. CASE Parse_agent
  <2>1. hds'.subversionURL = hds.subversionURL
    <3>1. \/ hds' = hds
          \/ hds' = [hds EXCEPT !["userAgent"] = Copied(strtol(tmp))]
      BY <1>6 DEF Parse_agent, Parse_string
    <3>2. hds \in Found(hds.protocol)
      BY DEF Bounds
    <3> QED BY <3>1, <3>2 DEF Found
  <2>2. /\ ret' = ret \/ ret' \in {Thrown, 2}
        /\ status' \in {"kSubversionUrlParsed", "kSubversionRUAParsed"}
    BY <1>6 DEF UrlBehind, Parse_agent, Parse_string
  <2> QED BY <1>1, <2>1, <2>2
<1> QED BY <1>3, <1>4, <1>5, <1>6 DEF ParseSubversionHds

\* Before the length of the URL: version and capabilities.
LEMMA BeginningReads ==
  ASSUME NEW h \in Handshakes, Bounds, UrlAhead(h), Parsing,
         buffer[p] = Encoded(h)[p], p <= First(h), ParseSubversionHds
  PROVE  /\ p \in {2, 4, 6, First(h)} => Parse_blank
         /\ p \in {1, 5} => Parse_paren /\ buffer[p] = "("
         /\ p = First(h) - 1 => Parse_paren /\ buffer[p] = ")"
         /\ p = 3 => Parse_protocol /\ depth = 1 /\ buffer[p] = Digits[h.version + 1]
         /\ p \in 7..(First(h) - 2) =>
              /\ status = "kProtocolParsed" /\ depth = 2
              /\ buffer[p] = List(h)[p - 6]
              /\ buffer[p] = " " => Parse_blank
              /\ buffer[p] # " " => Parse_capability
<1>1. PICK f, g \in Nat : /\ f = First(h) /\ g = UrlAt(h) /\ f >= 8 /\ ListEnd(h) = f - 2
                          /\ g >= f + 2 /\ g = f + Size(Length(Url(h.url))) + 1
  BY Beginning
<1>2. p \in 1..f /\ status = StatusAt(h, p) /\ depth = DepthAt(h, p)
  BY <1>1 DEF UrlAhead
<1> DEFINE e == Encoded(h)
<1>3. /\ e[1] = "(" /\ e[2] = " " /\ e[3] = Digits[h.version + 1] /\ e[4] = " "
      /\ e[5] = "(" /\ e[6] = " " /\ Occurs(List(h), e, 6)
      /\ e[ListEnd(h) + 1] = ")" /\ e[ListEnd(h) + 2] = " "
  BY OpeningLayout
<1>4. buffer[p] = e[p]
  OBVIOUS
<1> HIDE DEF e
<1>5. f = ListEnd(h) + 2 /\ f - 1 = ListEnd(h) + 1
  BY <1>1
<1>6. e[f] = " " /\ e[f - 1] = ")"
  BY <1>3, <1>5, Zenon
<1>7. p \in {2, 4, 6, f} => Parse_blank
  BY <1>3, <1>4, <1>6, ReadsOne
<1>8. /\ p \in {1, 5} => Parse_paren /\ buffer[p] = "("
      /\ p = f - 1 => Parse_paren /\ buffer[p] = ")"
  BY <1>3, <1>4, <1>6, ReadsOne
<1>9. ASSUME p = 3
      PROVE  Parse_protocol /\ depth = 1 /\ buffer[p] = Digits[h.version + 1]
  <2>1. buffer[p] = Digits[h.version + 1] /\ buffer[p] \notin Marks
    BY <1>3, <1>4, <1>9, HandshakeTypes, ValueOfDigit
  <2>2. status = "kParseReset" /\ depth = 1
    BY <1>1, <1>2, <1>9 DEF StatusAt, DepthAt
  <2> QED BY <2>1, <2>2, ReadsOne DEF Parse_capability, Parse_url, Parse_agent, Parse_rest
<1>10. ASSUME p \in 7..(f - 2)
       PROVE  /\ status = "kProtocolParsed" /\ depth = 2 /\ buffer[p] = List(h)[p - 6]
              /\ buffer[p] = " " => Parse_blank
              /\ buffer[p] # " " => Parse_capability
  <2>1. buffer[p] = List(h)[p - 6] /\ buffer[p] \notin {"(", ")", Zero, "LF"}
    <3>1. PICK m \in Nat : m = Size(List(h)) /\ f - 2 = 6 + m
      BY <1>1, Positions DEF ListEnd
    <3>2. PICK j \in Nat : j = 6
      OBVIOUS
    <3>3. p \in (j + 1)..(j + m) /\ p - j \in 1..m
      BY <1>10, <3>1, <3>2
    <3>4. Occurs(List(h), e, j) /\ p \in (j + 1)..(j + Size(List(h)))
      BY <1>3, <3>1, <3>2, <3>3, Zenon
    <3>5. e[p] = List(h)[p - j]
      BY <3>4, OccursAt
    <3>6. List(h)[p - j] \notin {"(", ")", Zero, "LF"}
      BY <3>1, <3>3, ListPlain
    <3> QED BY <1>4, <3>2, <3>5, <3>6, Zenon
  <2>2. status = "kProtocolParsed" /\ depth = 2
    BY <1>1, <1>2, <1>10 DEF StatusAt, DepthAt
  <2>3. ~Parse_paren /\ ~Parse_zero /\ ~Parse_protocol /\ ~Parse_url /\ ~Parse_agent
        /\ ~Parse_rest
    BY <2>1, <2>2 DEF Parse_paren, Parse_zero, Parse_protocol, Parse_url, Parse_agent, Parse_rest
  <2>4. Parse_capability => buffer[p] # " "
    BY DEF Parse_capability, Marks, Blanks
  <2>5. Parse_blank => buffer[p] = " "
    BY <2>1 DEF Parse_blank, Blanks
  <2> QED BY <2>1, <2>2, <2>3, <2>4, <2>5, ReadsOne
<1> QED BY <1>1, <1>7, <1>8, <1>9, <1>10, Zenon

LEMMA BeginningStep ==
  ASSUME NEW h \in Handshakes, Bounds, UrlAhead(h), ret = Running, Parsing,
         buffer[p] = Encoded(h)[p], p <= First(h), ParseSubversionHds
  PROVE  UrlAhead(h)' /\ ret' = Running /\ p' = p + 1
<1>1. PICK f, g \in Nat : /\ f = First(h) /\ g = UrlAt(h) /\ f >= 8 /\ ListEnd(h) = f - 2
                          /\ g >= f + 2 /\ g = f + Size(Length(Url(h.url))) + 1
  BY Beginning
<1>2. p \in 1..f /\ status = StatusAt(h, p) /\ depth = DepthAt(h, p)
  BY <1>1 DEF UrlAhead
<1>3. /\ p \in {2, 4, 6, f} => Parse_blank
      /\ p \in {1, 5} => Parse_paren /\ buffer[p] = "("
      /\ p = f - 1 => Parse_paren /\ buffer[p] = ")"
      /\ p = 3 => Parse_protocol /\ depth = 1
      /\ p \in 7..(f - 2) => Parse_blank \/ Parse_capability
  BY <1>1, BeginningReads
<1>4. CASE p \in {2, 4, 6, f}
  <2>1. /\ p' = p + 1 /\ ret' = Running /\ UNCHANGED <<status, depth>>
        /\ hds' = hds \/ hds' = [hds EXCEPT !.mCapabilities = Append(@, tmp)]
    BY <1>3, <1>4 DEF Parse_blank
  <2>2. hds'.subversionURL = hds.subversionURL
    BY <2>1 DEF Bounds, Found
  <2>3. StatusAt(h, p + 1) = StatusAt(h, p) /\ DepthAt(h, p + 1) = DepthAt(h, p)
    BY <1>1, <1>2, <1>4 DEF StatusAt, DepthAt
  <2> QED BY <1>1, <1>2, <2>1, <2>2, <2>3, AheadOn
<1>5. CASE p \in {1, 5, f - 1}
  <2>1. /\ p \in {1, 5} => buffer[p] = "("
        /\ p = f - 1 => buffer[p] = ")"
        /\ Parse_paren
    BY <1>3, <1>5
  <2>2. /\ p' = p + 1 /\ ret' = Running /\ UNCHANGED <<status, hds>>
        /\ depth' = depth + (IF buffer[p] = "(" THEN 1 ELSE -1)
    BY <2>1 DEF Parse_paren
  <2>3. StatusAt(h, p + 1) = StatusAt(h, p)
    BY <1>1, <1>2, <1>5 DEF StatusAt
  <2>4. depth' = DepthAt(h, p + 1)
    <3>1. CASE p \in {1, 5}
      <4>1. DepthAt(h, p + 1) = DepthAt(h, p) + 1 /\ depth' = depth + 1
        BY <1>1, <2>1, <2>2, <3>1 DEF DepthAt
      <4> QED BY <1>2, <4>1
    <3>2. CASE p = f - 1
      <4>1. depth' = depth - 1
        BY <2>1, <2>2, <3>2 DEF Bounds
      <4>2. DepthAt(h, p) = 2 /\ DepthAt(h, p + 1) = 1
        BY <1>1, <3>2 DEF DepthAt
      <4> QED BY <1>2, <4>1, <4>2
    <3> QED BY <1>5, <3>1, <3>2
  <2> QED BY <1>1, <1>2, <2>2, <2>3, <2>4, AheadOn
<1>6. CASE p = 3
  <2>1. Parse_protocol /\ depth = 1
    BY <1>3, <1>6
  <2>2. /\ p' = p + 1 /\ ret' = Running /\ depth' = 1 /\ status' = "kProtocolParsed"
        /\ hds' = [hds EXCEPT !.protocol = Value(buffer[p])]
    BY <2>1 DEF Parse_protocol
  <2>3. hds'.subversionURL = hds.subversionURL
    BY <2>2 DEF Bounds, Found
  <2>4. StatusAt(h, p + 1) = "kProtocolParsed" /\ DepthAt(h, p + 1) = 1
    BY <1>1, <1>6 DEF StatusAt, DepthAt
  <2> QED BY <1>1, <1>2, <2>2, <2>3, <2>4, AheadOn
<1>7. CASE p \in 7..(f - 2)
  <2>1. /\ p' = p + 1 /\ ret' = Running /\ UNCHANGED <<status, depth>>
        /\ hds' = hds \/ hds' = [hds EXCEPT !.mCapabilities = Append(@, tmp)]
    BY <1>3, <1>7 DEF Parse_blank, Parse_capability
  <2>2. hds'.subversionURL = hds.subversionURL
    BY <2>1 DEF Bounds, Found
  <2>3. StatusAt(h, p + 1) = StatusAt(h, p) /\ DepthAt(h, p + 1) = DepthAt(h, p)
    BY <1>1, <1>7 DEF StatusAt, DepthAt
  <2> QED BY <1>1, <1>2, <2>1, <2>2, <2>3, AheadOn
<1> QED BY <1>1, <1>2, <1>4, <1>5, <1>6, <1>7

\* The string that is copied is the one that stands there.
LEMMA CopiedIs ==
  ASSUME NEW h \in Handshakes, Bounds, PacketOf(h), p \in Nat, NEW s \in Texts,
         Occurs(s, Encoded(h), p), ~TooLong(Len(s))
  PROVE  Copied(Len(s)) = s
<1>1. PICK l \in Nat, n \in Nat : l = Len(s) /\ n = Len(buffer)
  BY DEF Bounds, Texts
<1>2. p + l + 1 < n + 1
  BY <1>1, Measured
<1>3. Copied(l) \in Texts /\ Len(Copied(l)) = l
  BY CopiedText DEF Bounds
<1>4. ASSUME NEW i \in 1..l PROVE Copied(l)[i] = s[i]
  <2>1. p + i <= n /\ p + i \in 1..n /\ p + i \in (p + 1)..(p + l) /\ p + i - p = i
    BY <1>1, <1>2
  <2>2. Copied(l)[i] = buffer[p + i]
    BY <1>1, <2>1 DEF Copied
  <2>3. buffer[p + i] = Encoded(h)[p + i]
    BY <1>1, <2>1 DEF PacketOf
  <2>4. Encoded(h)[p + i] = s[p + i - p]
    BY <1>1, <2>1 DEF Occurs
  <2> QED BY <2>1, <2>2, <2>3, <2>4
<1> QED BY <1>1, <1>3, <1>4, SeqEqual DEF Texts

\* The length of the URL, and the URL.
LEMMA UrlStep ==
  ASSUME NEW h \in Handshakes, Bounds, PacketOf(h), UrlAhead(h), ret = Running, Parsing,
         buffer[p] = Encoded(h)[p], p > First(h), ParseSubversionHds
  PROVE  \/ ret' = 2 /\ p = UrlAt(h) /\ TooLong(Size(Url(h.url)))
         \/ UrlAhead(h)' /\ p' = p + 1 /\ UNCHANGED <<hds, ret>>
         \/ /\ p = UrlAt(h) /\ p' = p + Size(Url(h.url)) + 2
            /\ UrlBehind(h)' /\ status' = "kSubversionUrlParsed" /\ tmp' = <<>>
            /\ hds' = [hds EXCEPT !.subversionURL = Url(h.url)]
            /\ depth = 1 /\ UNCHANGED <<ret, depth>>
<1>1. PICK f, g \in Nat : /\ f = First(h) /\ g = UrlAt(h) /\ f >= 8 /\ ListEnd(h) = f - 2
                          /\ g >= f + 2 /\ g = f + Size(Length(Url(h.url))) + 1
  BY Beginning
<1>2. p \in (f + 1)..g /\ status = StatusAt(h, p) /\ depth = DepthAt(h, p)
  BY <1>1 DEF UrlAhead
<1>3. PICK d \in Texts : /\ d = Length(Url(h.url)) /\ Size(d) = g - f - 1
                         /\ strtol(d) = Len(Url(h.url))
  <2>1. Length(Url(h.url)) \in Texts /\ strtol(Length(Url(h.url))) = Len(Url(h.url))
    BY HandshakeTypes, UrlText, LengthText
  <2>2. Size(Length(Url(h.url))) = g - f - 1
    BY <1>1, Positions
  <2> QED BY <2>1, <2>2
<1> DEFINE t == SubSeq(d, 1, p - f - 1)
<1>4. p - f - 1 \in 0..Len(d)
  BY <1>2, <1>3 DEF Size
<1>5. t \in Texts /\ (p = f + 1 => t = <<>>) /\ (p # f + 1 => t = tmp)
  <2>1. t \in Texts
    BY <1>4, Cut
  <2>2. SubSeq(d, 1, 0) = <<>>
    BY Ends DEF Texts
  <2>3. p = f + 1 => p - f - 1 = 0
    BY <1>1
  <2>4. p # f + 1 => p > f + 1
    BY <1>1, <1>2
  <2>5. p > f + 1 => tmp = t
    BY <1>1, <1>3 DEF UrlAhead
  <2> QED BY <2>1, <2>2, <2>3, <2>4, <2>5
<1> HIDE DEF t
<1>6. buffer[p] \notin Marks
  <2>1. CASE p = g
    BY <1>1, <2>1, UrlLayout DEF Marks, Blanks, Zero
  <2>2. CASE p # g
    <3>1. p \in (f + 1)..(g - 1)
      BY <1>1, <1>2, <2>2
    <3> QED BY <1>1, <3>1, UrlLayout
  <2> QED BY <2>1, <2>2
<1>7. /\ status = (IF p = f + 1 THEN "kProtocolParsed" ELSE "kCapabilitiesParsed")
      /\ depth = 1
  BY <1>1, <1>2 DEF StatusAt, DepthAt
<1>8. Parse_string(t, "subversionURL", "kCapabilitiesParsed")
  <2>1. Parse_url
    <3>1. status \in {"kProtocolParsed", "kCapabilitiesParsed"} /\ depth # 2
      BY <1>7
    <3>2. ~Parse_protocol /\ ~Parse_capability /\ ~Parse_agent /\ ~Parse_rest
      BY <3>1 DEF Parse_protocol, Parse_capability, Parse_agent, Parse_rest
    <3> QED BY <1>6, <3>2, ReadsOne
  <2> QED BY <1>5, <1>7, <2>1 DEF Parse_url
<1>9. CASE p # g
  <2>1. p \in (f + 1)..(g - 1)
    BY <1>1, <1>2, <1>9
  <2>2. buffer[p] = d[p - f] /\ buffer[p] # ":"
    <3>1. p \in (First(h) + 1)..(UrlAt(h) - 1)
      BY <1>1, <2>1, Zenon
    <3>2. /\ Encoded(h)[p] = Length(Url(h.url))[p - First(h)]
          /\ Encoded(h)[p] \notin Marks \cup {":"}
      BY <3>1, UrlLayout
    <3>3. buffer[p] = d[p - f]
      BY <1>1, <1>3, <3>2, Zenon
    <3> QED BY <3>2, <3>3
  <2>3. /\ tmp' = Append(t, d[p - f]) /\ p' = p + 1 /\ status' = "kCapabilitiesParsed"
        /\ UNCHANGED <<hds, ret, depth>>
    BY <1>8, <2>2 DEF Parse_string
  <2>4. PICK k \in 0..(Len(d) - 1) : k = p - f - 1 /\ k + 1 = p - f /\ k + 1 = (p + 1) - f - 1
    <3>1. PICK m \in Nat : m = Len(d) /\ m = g - f - 1
      BY <1>3 DEF Size, Texts
    <3>2. p - f - 1 \in 0..(m - 1) /\ p - f - 1 + 1 = p - f /\ p - f = (p + 1) - f - 1
      BY <1>1, <2>1, <3>1
    <3> QED BY <3>1, <3>2
  <2>5. Append(SubSeq(d, 1, k), d[k + 1]) = SubSeq(d, 1, k + 1)
    BY <2>4, Grows DEF Texts
  <2>6. tmp' = SubSeq(d, 1, p' - f - 1)
    BY <2>3, <2>4, <2>5, Zenon DEF t
  <2>7. p + 1 \in 1..g /\ StatusAt(h, p + 1) = "kCapabilitiesParsed" /\ DepthAt(h, p + 1) = 1
    BY <1>1, <2>1 DEF StatusAt, DepthAt
  <2>8. UrlAhead(h)'
    BY <1>1, <1>3, <1>7, <2>3, <2>6, <2>7 DEF UrlAhead
  <2> QED BY <2>3, <2>8
<1>10. CASE p = g
  <2>1. buffer[p] = ":" /\ Occurs(Url(h.url), Encoded(h), p)
    BY <1>1, <1>10, UrlLayout
  <2>2. t = d
    <3>1. p - f - 1 = Len(d)
      BY <1>3, <1>10 DEF Size
    <3> QED BY <3>1, Ends DEF t, Texts
  <2>3. PICK s \in Texts : s = Url(h.url)
    BY HandshakeTypes, UrlText
  <2>4. CASE TooLong(Len(s))
    BY <1>1, <1>3, <1>8, <1>10, <2>1, <2>2, <2>3, <2>4 DEF Parse_string, Size
  <2>5. CASE ~TooLong(Len(s))
    <3>1. /\ hds' = [hds EXCEPT !["subversionURL"] = Copied(Len(s))]
          /\ p' = p + Len(s) + 2 /\ tmp' = <<>>
          /\ UNCHANGED <<ret, depth>> /\ status' = "kSubversionUrlParsed"
      <4>1. Len(s) >= 0 /\ ~(Len(s) < 0)
        BY DEF Texts
      <4> QED BY <1>3, <1>8, <2>1, <2>2, <2>3, <2>5, <4>1 DEF Parse_string
    <3>2. Copied(Len(s)) = s
      BY <1>1, <1>10, <2>1, <2>3, <2>5, CopiedIs
    <3>3. hds'.subversionURL = s /\ hds' = [hds EXCEPT !.subversionURL = s]
      BY <3>1, <3>2 DEF Bounds, Found
    <3>4. UrlBehind(h)'
      BY <2>3, <3>1, <3>3 DEF UrlBehind
    <3> QED BY <1>1, <1>7, <1>10, <2>3, <3>1, <3>3, <3>4 DEF Size
  <2> QED BY <2>4, <2>5
<1> QED BY <1>9, <1>10

\* Every packet of a handshake is routed by its URL or not at all.
Routing == sent.kind = "handshake" => sent.of \in Handshakes /\ PacketOf(sent.of) /\ Routed(sent.of)

LEMMA RoutingInit == Init => Routing
<1> SUFFICES ASSUME Init, sent.kind = "handshake"
             PROVE  sent.of \in Handshakes /\ PacketOf(sent.of) /\ Routed(sent.of)
  BY DEF Routing
<1>1. sent.of \in Handshakes /\ PacketOf(sent.of)
  BY PacketInit DEF Packet
<1>2. p = 1 /\ status = "kParseReset" /\ depth = 0 /\ ret = Running
      /\ hds.subversionURL = <<>>
  BY DEF Init
<1>3. PICK f, g \in Nat : /\ f = First(sent.of) /\ g = UrlAt(sent.of) /\ f >= 8 /\ g >= f + 2
  BY <1>1, Beginning
<1>4. 1 \in 1..g /\ ~(1 > f + 1)
  BY <1>3
<1>5. UrlAhead(sent.of)
  BY <1>2, <1>3, <1>4 DEF UrlAhead, StatusAt, DepthAt
<1> QED BY <1>1, <1>2, <1>5 DEF Routed, Running

LEMMA RoutingStep ==
  ASSUME Bounds, Routing, [Next]_vars
  PROVE  Routing'
<1> SUFFICES ASSUME sent'.kind = "handshake"
             PROVE  (sent.of \in Handshakes /\ PacketOf(sent.of) /\ Routed(sent.of))'
  BY DEF Routing
<1>1. UNCHANGED <<sent, buffer>>
  BY DEF Next, vars, ParseSubversionHds, SubversionUriCanonicalize
<1>2. PICK h \in Handshakes : h = sent.of /\ PacketOf(h) /\ Routed(h)
  BY <1>1 DEF Routing
<1>3. sent'.of = h /\ PacketOf(h)'
  BY <1>1, <1>2 DEF PacketOf
<1> SUFFICES Routed(h)'
  BY <1>3
<1>4. CASE ParseSubversionHds
  <2>1. ret = Running
    BY <1>4 DEF ParseSubversionHds, Parsing, Parse_paren, Parse_blank, Parse_zero,
         Parse_protocol, Parse_capability, Parse_url, Parse_agent, Parse_rest, Parse_end
  <2>2. CASE UrlBehind(h)
    BY <1>4, <2>2, BehindOn
  <2>3. CASE UrlAhead(h) /\ Parsing
    <3>1. PICK n \in Nat : n = Len(buffer) /\ p \in 1..(n + 1)
      BY Sizes
    <3>2. p \in 1..n
      BY <2>3, <3>1 DEF Parsing
    <3>3. buffer[p] = Encoded(h)[p]
      BY <1>2, <3>1, <3>2 DEF PacketOf
    <3>4. p <= First(h) \/ p > First(h)
      BY <1>2, <3>2, Positions
    <3>5. CASE p <= First(h)
      BY <1>2, <1>4, <2>1, <2>3, <3>3, <3>5, BeginningStep DEF Routed, Running
    <3>6. CASE p > First(h)
      <4>1. ret' = 2 \/ (UrlAhead(h)' /\ ret' = ret) \/ (UrlBehind(h)' /\ ret' = ret)
        BY <1>2, <1>4, <2>1, <2>3, <3>3, <3>6, UrlStep
      <4> QED BY <2>1, <4>1 DEF Routed, Running
    <3> QED BY <3>4, <3>5, <3>6
  <2>4. CASE UrlAhead(h) /\ ~Parsing
    <3>1. Parse_end
      BY <1>4, <2>4 DEF ParseSubversionHds, Parsing, Parse_paren, Parse_blank, Parse_zero,
         Parse_protocol, Parse_capability, Parse_url, Parse_agent, Parse_rest
    <3>2. ret' = 2
      BY <2>4, <3>1 DEF Parse_end, UrlAhead
    <3> QED BY <3>2, Refused
  <2> QED BY <1>2, <2>1, <2>2, <2>3, <2>4 DEF Routed
<1>5. CASE UNCHANGED <<parser>>
  BY <1>2, <1>5 DEF parser, Routed, UrlAhead, UrlBehind
<1>6. ParseSubversionHds \/ UNCHANGED <<parser>>
  BY DEF Next, vars, SubversionUriCanonicalize
<1> QED BY <1>4, <1>5, <1>6

LEMMA RoutingInvariant == Spec => []Routing
BY RoutingInit, RoutingStep, BoundsInvariant, PTL DEF Spec

\* A handshake that TCP has cut anywhere, behind any character, is refused or routed by
\* the whole URL of the client.
THEOREM NeverMisrouted == Spec => []CutNeverMisrouted
<1>1. ASSUME Routing PROVE CutNeverMisrouted
  BY <1>1 DEF Routing, Routed, CutNeverMisrouted
<1> QED BY <1>1, RoutingInvariant, PTL

-----------------------------------------------------------------------------
(* The owner in the URL *)
\* What SubversionUriCanonicalize finds.
Parts == [scheme : Texts, account : Texts, host : Texts, port : Int, owner : Texts,
          repository : Texts, path : Texts]

\* How many separators are in front of character q.
LevelAt(u, q) == IF q <= Size(u.scheme) + 2 THEN 0 ELSE IF q <= HostAt(u) THEN 1
                 ELSE IF q <= OwnerAt(u) THEN 2 ELSE IF q <= RepositoryAt(u) THEN 3
                 ELSE IF q <= RestAt(u) THEN 4 ELSE 5

\* As much of s, which stands behind n characters, as is in front of character q.
Seen(s, n, q) == IF q <= n THEN <<>> ELSE IF q <= n + Size(s) THEN SubSeq(s, 1, q - n - 1) ELSE s

LEMMA SeenOn ==
  ASSUME NEW s \in Texts, NEW n \in Nat, NEW q \in Nat
  PROVE  /\ Seen(s, n, q) \in Texts
         /\ q \notin (n + 1)..(n + Size(s)) => Seen(s, n, q + 1) = Seen(s, n, q)
         /\ q \in (n + 1)..(n + Size(s)) => Seen(s, n, q + 1) = Append(Seen(s, n, q), s[q - n])
         /\ q > n + Size(s) => Seen(s, n, q) = s
<1>1. PICK l \in Nat : l = Len(s) /\ l = Size(s)
  BY DEF Size, Texts
<1>2. SubSeq(s, 1, 0) = <<>> /\ SubSeq(s, 1, l) = s
  BY <1>1, Ends DEF Texts
<1>3. l = 0 => s = <<>>
  BY <1>1, EmptySeq DEF Texts
<1>4. Seen(s, n, q) \in Texts
  <2>1. CASE q \in (n + 1)..(n + l)
    <3>1. q - n - 1 \in 0..Len(s)
      BY <1>1, <2>1
    <3>2. SubSeq(s, 1, q - n - 1) \in Texts
      BY <3>1, Cut
    <3> QED BY <1>1, <2>1, <3>2, NoText DEF Seen
  <2>2. CASE q \notin (n + 1)..(n + l)
    BY <1>1, <2>2, NoText DEF Seen
  <2> QED BY <2>1, <2>2
<1>5. CASE q < n
  BY <1>1, <1>4, <1>5 DEF Seen
<1>6. CASE q = n
  <2>1. Seen(s, n, q) = <<>>
    BY <1>6 DEF Seen
  <2>2. Seen(s, n, q + 1) = <<>>
    <3>1. q + 1 - n - 1 = 0 /\ ~(q + 1 <= n) /\ (q + 1 <= n + l <=> l # 0)
      BY <1>1, <1>6
    <3> QED BY <1>1, <1>2, <1>3, <3>1 DEF Seen
  <2> QED BY <1>1, <1>3, <1>4, <1>6, <2>1, <2>2
<1>7. CASE q \in (n + 1)..(n + l)
  <2>1. PICK k \in 0..(Len(s) - 1) : k = q - n - 1 /\ k + 1 = q - n /\ k + 1 = q + 1 - n - 1
    <3>1. q - n - 1 \in 0..(l - 1) /\ q - n - 1 + 1 = q - n /\ q - n = q + 1 - n - 1
      BY <1>7
    <3> QED BY <1>1, <3>1
  <2>2. Append(SubSeq(s, 1, k), s[k + 1]) = SubSeq(s, 1, k + 1)
    BY <2>1, Grows DEF Texts
  <2>3. Seen(s, n, q) = SubSeq(s, 1, k)
    BY <1>1, <1>7, <2>1 DEF Seen
  <2>4. Seen(s, n, q + 1) = SubSeq(s, 1, k + 1)
    <3>1. CASE q = n + l
      <4>1. ~(q + 1 <= n) /\ ~(q + 1 <= n + l) /\ k + 1 = l
        BY <2>1, <3>1
      <4>2. Seen(s, n, q + 1) = s
        BY <1>1, <4>1 DEF Seen
      <4> QED BY <1>2, <4>1, <4>2
    <3>2. CASE q # n + l
      <4>1. ~(q + 1 <= n) /\ q + 1 <= n + Size(s)
        BY <1>1, <1>7, <3>2
      <4> QED BY <2>1, <4>1 DEF Seen
    <3> QED BY <3>1, <3>2
  <2>5. q \in (n + 1)..(n + Size(s)) /\ ~(q > n + Size(s))
    BY <1>1, <1>7
  <2> QED BY <1>4, <2>1, <2>2, <2>3, <2>4, <2>5
<1>8. CASE q > n + l
  <2>1. Seen(s, n, q) = s /\ Seen(s, n, q + 1) = s
    BY <1>1, <1>8 DEF Seen
  <2> QED BY <1>1, <1>4, <1>8, <2>1
<1> QED BY <1>1, <1>5, <1>6, <1>7, <1>8

\* How far SubversionUriCanonicalize has come.
Walk(u) ==
  /\ subversionURL \in Parts /\ level = LevelAt(u, c)
  /\ subversionURL.owner = Seen(u.owner, OwnerAt(u), c)
  /\ subversionURL.repository = Seen(u.repository, RepositoryAt(u), c)
  /\ subversionURL.path = <<"/">> \o Seen(u.rest, RestAt(u), c)

Taken(u) ==
  /\ subversionURL.owner = u.owner /\ subversionURL.repository = u.repository
  /\ subversionURL.path = <<"/">> \o u.rest

Exact(u) == (cret = Running /\ Walk(u)) \/ (cret = 0 /\ Taken(u))

\* The slashes that separate the parts.
Separators(u) == {Size(u.scheme) + 2, HostAt(u), OwnerAt(u), RepositoryAt(u), RestAt(u)}

LEMMA Places ==
  ASSUME NEW u \in Urls
  PROVE  \E s, a, i, j, k, o, r, m \in Nat :
           /\ s = Size(u.scheme) /\ a = HostAt(u) /\ i = OwnerAt(u) /\ j = RepositoryAt(u)
           /\ k = RestAt(u) /\ o = Size(u.owner) /\ r = Size(u.repository)
           /\ m = Size(u.rest)
           /\ a = s + 3 /\ i > a /\ j = i + o + 1 /\ k = j + r + 1
<1>1. /\ Size(u.scheme) \in Nat /\ Size(Authority(u)) \in Nat /\ Size(u.owner) \in Nat
      /\ Size(u.repository) \in Nat /\ Size(u.rest) \in Nat
  BY PartsOfUrl, AuthorityText, SizeNat
<1>2. /\ HostAt(u) \in Nat /\ OwnerAt(u) \in Nat /\ RepositoryAt(u) \in Nat /\ RestAt(u) \in Nat
  BY UrlText
<1>3. /\ HostAt(u) = Size(u.scheme) + 3 /\ OwnerAt(u) = HostAt(u) + Size(Authority(u)) + 1
      /\ RepositoryAt(u) = OwnerAt(u) + Size(u.owner) + 1
      /\ RestAt(u) = RepositoryAt(u) + Size(u.repository) + 1
  BY DEF HostAt, OwnerAt, RepositoryAt, RestAt, Size
<1>4. OwnerAt(u) > HostAt(u)
  BY <1>1, <1>2, <1>3
<1> QED BY <1>1, <1>2, <1>3, <1>4

LEMMA Levels ==
  ASSUME NEW u \in Urls, NEW q \in Nat
  PROVE  /\ LevelAt(u, q) \in 0..5
         /\ q \in Separators(u) => LevelAt(u, q) # 5 /\ LevelAt(u, q + 1) = LevelAt(u, q) + 1
         /\ q \notin Separators(u) => LevelAt(u, q) # 1 /\ LevelAt(u, q + 1) = LevelAt(u, q)
         /\ q \in (OwnerAt(u) + 1)..(OwnerAt(u) + Size(u.owner))
              <=> LevelAt(u, q) = 3 /\ q \notin Separators(u)
         /\ q \in (RepositoryAt(u) + 1)..(RepositoryAt(u) + Size(u.repository))
              <=> LevelAt(u, q) = 4 /\ q \notin Separators(u)
         /\ q > RestAt(u) <=> LevelAt(u, q) = 5
<1>1. PICK s, a, i, j, k, o, r, m \in Nat :
           /\ s = Size(u.scheme) /\ a = HostAt(u) /\ i = OwnerAt(u) /\ j = RepositoryAt(u)
           /\ k = RestAt(u) /\ o = Size(u.owner) /\ r = Size(u.repository)
           /\ m = Size(u.rest)
           /\ a = s + 3 /\ i > a /\ j = i + o + 1 /\ k = j + r + 1
  BY Places
<1> DEFINE L(x) == IF x <= s + 2 THEN 0 ELSE IF x <= a THEN 1 ELSE IF x <= i THEN 2
                   ELSE IF x <= j THEN 3 ELSE IF x <= k THEN 4 ELSE 5
           S == {s + 2, a, i, j, k}
<1>2. LevelAt(u, q) = L(q) /\ LevelAt(u, q + 1) = L(q + 1) /\ Separators(u) = S
  BY <1>1 DEF LevelAt, Separators
<1>3. s \in Nat /\ a = s + 3 /\ i > a /\ j = i + o + 1 /\ k = j + r + 1
  BY <1>1
<1>4. /\ L(q) \in 0..5
      /\ q \in S => L(q) # 5 /\ L(q + 1) = L(q) + 1
      /\ q \notin S => L(q) # 1 /\ L(q + 1) = L(q)
      /\ q > k <=> L(q) = 5
  BY <1>3
<1>5. /\ q \in (i + 1)..(i + o) <=> L(q) = 3 /\ q \notin S
      /\ q \in (j + 1)..(j + r) <=> L(q) = 4 /\ q \notin S
  BY <1>3
<1> HIDE DEF L, S
<1> QED BY <1>1, <1>2, <1>4, <1>5, Zenon

\* Which characters are slashes, and of which part the others are.
LEMMA SlashOrPart ==
  ASSUME NEW u \in Urls, NEW q \in 1..Size(Url(u))
  PROVE  /\ q \in Separators(u) => Url(u)[q] = "/"
         /\ q \notin Separators(u) /\ ~(q > RestAt(u)) => Url(u)[q] # "/"
         /\ q \in (OwnerAt(u) + 1)..(OwnerAt(u) + Size(u.owner))
              => Url(u)[q] = u.owner[q - OwnerAt(u)]
         /\ q \in (RepositoryAt(u) + 1)..(RepositoryAt(u) + Size(u.repository))
              => Url(u)[q] = u.repository[q - RepositoryAt(u)]
         /\ q > RestAt(u) => q \in (RestAt(u) + 1)..(RestAt(u) + Size(u.rest))
                               /\ Url(u)[q] = u.rest[q - RestAt(u)]
<1>1. PICK s, a, i, j, k, o, r, m \in Nat :
           /\ s = Size(u.scheme) /\ a = HostAt(u) /\ i = OwnerAt(u) /\ j = RepositoryAt(u)
           /\ k = RestAt(u) /\ o = Size(u.owner) /\ r = Size(u.repository)
           /\ m = Size(u.rest)
           /\ a = s + 3 /\ i > a /\ j = i + o + 1 /\ k = j + r + 1
  BY Places
<1>2. s \in Nat /\ a = s + 3 /\ i > a /\ j = i + o + 1 /\ k = j + r + 1
  BY <1>1
<1>3. PICK w : w = Url(u)
  OBVIOUS
<1>4. /\ \A x \in 1..(s + 1) : w[x] # "/"
      /\ w[s + 2] = "/" /\ w[a] = "/" /\ w[i] = "/" /\ w[j] = "/"
      /\ \A x \in (a + 1)..(i - 1) : w[x] # "/"
      /\ \A x \in (i + 1)..(j - 1) : w[x] = u.owner[x - i] /\ w[x] # "/"
      /\ \A x \in (j + 1)..(k - 1) : w[x] = u.repository[x - j] /\ w[x] # "/"
      /\ u.rest = <<>> => Size(w) = k - 1
      /\ u.rest # <<>> =>
              /\ w[k] = "/" /\ Size(w) = k + m
              /\ \A x \in (k + 1)..(k + m) : w[x] = u.rest[x - k]
  <2>1. s + 1 = Size(u.scheme) + 1 /\ s + 2 = Size(u.scheme) + 2 /\ a = Size(u.scheme) + 3
    BY <1>1, Zenon
  <2>0. Laid(u, w)
    BY <1>3, UriLayout
  <2>2. /\ \A x \in 1..(s + 1) : w[x] # "/"
        /\ w[s + 2] = "/" /\ w[a] = "/" /\ w[i] = "/" /\ w[j] = "/"
    BY <1>1, <2>1, <2>0, Zenon DEF Laid
  <2>3. \A x \in (a + 1)..(i - 1) : w[x] # "/"
    BY <1>1, <2>0, Zenon DEF Laid
  <2>4. /\ \A x \in (i + 1)..(j - 1) : w[x] = u.owner[x - i] /\ w[x] # "/"
        /\ \A x \in (j + 1)..(k - 1) : w[x] = u.repository[x - j] /\ w[x] # "/"
    BY <1>1, <2>0, Zenon DEF Laid
  <2>5. /\ u.rest = <<>> => Size(w) = k - 1
        /\ u.rest # <<>> => w[k] = "/" /\ Size(w) = k + m
    BY <1>1, <2>0, Zenon DEF Laid
  <2>6. u.rest # <<>> => \A x \in (k + 1)..(k + m) : w[x] = u.rest[x - k]
    BY <1>1, <2>0, Zenon DEF Laid
  <2> QED BY <2>2, <2>3, <2>4, <2>5, <2>6, Zenon
<1>5. q \in Nat /\ q >= 1 /\ (u.rest = <<>> => q < k) /\ (u.rest # <<>> => q <= k + m)
  <2>1. PICK n \in Nat : n = Size(w) /\ q \in 1..n
    BY <1>3, UrlText, SizeNat
  <2>2. (u.rest = <<>> => n = k - 1) /\ (u.rest # <<>> => n = k + m)
    BY <1>4, <2>1, Zenon
  <2> QED BY <2>1, <2>2
<1>6. q \in {s + 2, a, i, j, k} => w[q] = "/"
  BY <1>2, <1>4, <1>5
<1>7. q \notin {s + 2, a, i, j, k} /\ ~(q > k) => w[q] # "/"
  <2>1. q \notin {s + 2, a, i, j, k} /\ ~(q > k) =>
          \/ q \in 1..(s + 1) \/ q \in (a + 1)..(i - 1) \/ q \in (i + 1)..(j - 1)
          \/ q \in (j + 1)..(k - 1)
    BY <1>2, <1>5
  <2> QED BY <1>4, <2>1
<1>8. /\ q \in (i + 1)..(i + o) => w[q] = u.owner[q - i]
      /\ q \in (j + 1)..(j + r) => w[q] = u.repository[q - j]
  <2>1. i + o = j - 1 /\ j + r = k - 1
    BY <1>2
  <2> QED BY <1>4, <2>1
<1>9. q > k => q \in (k + 1)..(k + m) /\ w[q] = u.rest[q - k]
  <2>1. q > k => u.rest # <<>> /\ q \in (k + 1)..(k + m)
    BY <1>5
  <2> QED BY <1>4, <2>1
<1> QED BY <1>1, <1>3, <1>6, <1>7, <1>8, <1>9, Zenon DEF Separators

LEMMA AppendBehind ==
  ASSUME NEW a \in Texts, NEW t \in Texts, NEW x \in Characters
  PROVE  Append(a \o t, x) = a \o Append(t, x)
<1>1. a \o t \in Texts
  BY Joined
<1>2. Append(a \o t, x) = (a \o t) \o <<x>> /\ Append(t, x) = t \o <<x>>
  BY <1>1, AppendIsConcat DEF Texts
<1> QED BY <1>2, OneCharacter, ConcatAssociative DEF Texts

\* A step within the URL.
LEMMA WalkStep ==
  ASSUME NEW u \in Urls, Walk(u), hds.subversionURL = Url(u), c \in 1..Size(Url(u)),
         cret = Running, UNCHANGED hds, Uri_slash \/ Uri_bad \/ Uri_char
  PROVE  Exact(u)'
<1>1. At = Url(u)[c] /\ At \in Characters
  BY UrlText DEF At, Size, Texts
<1>2. /\ subversionURL \in Parts /\ level = LevelAt(u, c)
      /\ subversionURL.owner = Seen(u.owner, OwnerAt(u), c)
      /\ subversionURL.repository = Seen(u.repository, RepositoryAt(u), c)
      /\ subversionURL.path = <<"/">> \o Seen(u.rest, RestAt(u), c)
  BY DEF Walk
<1>3. c \in Nat
  BY UrlText, SizeNat
<1>4. /\ u.owner \in Texts /\ u.repository \in Texts /\ u.rest \in Texts /\ OwnerAt(u) \in Nat
      /\ RepositoryAt(u) \in Nat /\ RestAt(u) \in Nat /\ Size(u.rest) \in Nat
  BY PartsOfUrl, UrlText, SizeNat
<1> DEFINE Own == c \in (OwnerAt(u) + 1)..(OwnerAt(u) + Size(u.owner))
           Rep == c \in (RepositoryAt(u) + 1)..(RepositoryAt(u) + Size(u.repository))
           Rest == c \in (RestAt(u) + 1)..(RestAt(u) + Size(u.rest))
           Sep == c \in Separators(u)
           o(q) == Seen(u.owner, OwnerAt(u), q)
           r(q) == Seen(u.repository, RepositoryAt(u), q)
           m(q) == Seen(u.rest, RestAt(u), q)
<1>5. /\ Sep => level # 5 /\ LevelAt(u, c + 1) = level + 1
      /\ ~Sep => level # 1 /\ LevelAt(u, c + 1) = level
      /\ Own <=> level = 3 /\ ~Sep
      /\ Rep <=> level = 4 /\ ~Sep
      /\ c > RestAt(u) <=> level = 5
      /\ level \in 0..5
  BY <1>2, <1>3, Levels
<1>6. /\ Sep => At = "/"
      /\ ~Sep /\ level # 5 => At # "/"
      /\ Own => At = u.owner[c - OwnerAt(u)]
      /\ Rep => At = u.repository[c - RepositoryAt(u)]
      /\ c > RestAt(u) => Rest /\ At = u.rest[c - RestAt(u)]
  BY <1>1, <1>5, SlashOrPart
<1>7. Rest => level = 5
  BY <1>3, <1>4, <1>5
<1>8. /\ ~Own => o(c + 1) = o(c)
      /\ Own => o(c + 1) = Append(o(c), At)
      /\ ~Rep => r(c + 1) = r(c)
      /\ Rep => r(c + 1) = Append(r(c), At)
  <2>1. /\ ~Own => o(c + 1) = o(c)
        /\ Own => o(c + 1) = Append(o(c), u.owner[c - OwnerAt(u)])
    BY <1>3, <1>4, SeenOn
  <2>2. /\ ~Rep => r(c + 1) = r(c)
        /\ Rep => r(c + 1) = Append(r(c), u.repository[c - RepositoryAt(u)])
    BY <1>3, <1>4, SeenOn
  <2> HIDE DEF Own, Rep, o, r
  <2> QED BY <1>6, <2>1, <2>2
<1>9. /\ ~Rest => m(c + 1) = m(c)
      /\ Rest => m(c + 1) = Append(m(c), At)
      /\ m(c) \in Texts
  <2>1. /\ ~Rest => m(c + 1) = m(c)
        /\ Rest => m(c + 1) = Append(m(c), u.rest[c - RestAt(u)])
        /\ m(c) \in Texts
    BY <1>3, <1>4, SeenOn
  <2> HIDE DEF Rest, m
  <2> QED BY <1>5, <1>6, <1>7, <2>1
<1>10. <<"/">> \o Append(m(c), At) = Append(<<"/">> \o m(c), At)
  <2>1. <<"/">> \in Texts
    BY Marked, OneCharacter
  <2> QED BY <1>1, <1>9, <2>1, AppendBehind
<1> HIDE DEF Own, Rep, Rest, Sep, o, r, m
<1>11. ASSUME c' = c + 1, UNCHANGED cret, subversionURL' \in Parts,
              level' = LevelAt(u, c + 1), subversionURL'.owner = o(c + 1),
              subversionURL'.repository = r(c + 1), subversionURL'.path = <<"/">> \o m(c + 1)
       PROVE  Exact(u)'
  BY <1>11 DEF Exact, Walk, o, r, m
<1>12. CASE Uri_slash
  <2>1. /\ At = "/" /\ level # 5 /\ level' = level + 1 /\ c' = c + 1
        /\ UNCHANGED <<subversionURL, cret>>
    BY <1>5, <1>12 DEF Uri_slash
  <2>2. Sep /\ ~Own /\ ~Rep /\ ~Rest
    BY <1>5, <1>6, <1>7, <2>1
  <2>3. /\ subversionURL'.owner = o(c + 1) /\ subversionURL'.repository = r(c + 1)
        /\ subversionURL'.path = <<"/">> \o m(c + 1)
    BY <1>2, <1>8, <1>9, <2>1, <2>2 DEF o, r, m
  <2> QED BY <1>2, <1>5, <1>11, <2>1, <2>2, <2>3
<1>13. CASE Uri_bad
  BY <1>5, <1>6, <1>13 DEF Uri_bad
<1>14. CASE Uri_char
  <2>1. ~Sep /\ c' = c + 1 /\ UNCHANGED <<level, cret>>
    BY <1>5, <1>6, <1>14 DEF Uri_char
  <2>2. subversionURL' =
          CASE level = 0 /\ At = ":" -> subversionURL
            [] level = 0 /\ At # ":" -> [subversionURL EXCEPT !.scheme = Append(@, At)]
            [] level = 2 -> Uri_host(subversionURL)
            [] level = 3 -> [subversionURL EXCEPT !.owner = Append(@, At)]
            [] level = 4 -> [subversionURL EXCEPT !.repository = Append(@, At)]
            [] OTHER     -> [subversionURL EXCEPT !.path = Append(@, At)]
    BY <1>14 DEF Uri_char
  <2>3. \A t \in Texts : Append(t, At) \in Texts
    BY <1>1, AppendedText
  <2>4. level' = LevelAt(u, c + 1)
    BY <1>5, <2>1
  <2>5. CASE level \in {0, 2}
    <3>1. ~Own /\ ~Rep /\ ~Rest
      BY <1>5, <1>7, <2>5
    <3>2. /\ subversionURL' \in Parts /\ subversionURL'.owner = subversionURL.owner
          /\ subversionURL'.repository = subversionURL.repository
          /\ subversionURL'.path = subversionURL.path
      <4>1. CASE level = 0
        <5>1. \/ subversionURL' = subversionURL
              \/ subversionURL' = [subversionURL EXCEPT !.scheme = Append(@, At)]
          BY <2>2, <4>1
        <5> QED BY <1>2, <2>3, <5>1 DEF Parts
      <4>2. CASE level = 2
        <5>1. subversionURL' = Uri_host(subversionURL)
          BY <2>2, <4>2
        <5>2. \/ subversionURL' = [subversionURL EXCEPT !.account = subversionURL.host,
                                                       !.host = subversionURL.account]
              \/ subversionURL' = [subversionURL EXCEPT !.host = <<>>]
              \/ subversionURL' = [subversionURL EXCEPT !.host = Append(@, At)]
          BY <5>1 DEF Uri_host
        <5> QED BY <1>2, <2>3, <5>2, NoText DEF Parts
      <4> QED BY <2>5, <4>1, <4>2
    <3>3. /\ subversionURL'.owner = o(c + 1) /\ subversionURL'.repository = r(c + 1)
          /\ subversionURL'.path = <<"/">> \o m(c + 1)
      BY <1>2, <1>8, <1>9, <3>1, <3>2 DEF o, r, m
    <3> QED BY <1>11, <2>1, <2>4, <3>2, <3>3
  <2>6. CASE level = 3
    <3>1. Own /\ ~Rep /\ ~Rest
      BY <1>5, <1>7, <2>1, <2>6
    <3>2. subversionURL' = [subversionURL EXCEPT !.owner = Append(@, At)]
      BY <2>2, <2>6
    <3>3. /\ subversionURL' \in Parts /\ subversionURL'.owner = Append(subversionURL.owner, At)
          /\ subversionURL'.repository = subversionURL.repository
          /\ subversionURL'.path = subversionURL.path
      BY <1>2, <2>3, <3>2 DEF Parts
    <3>4. /\ subversionURL'.owner = o(c + 1) /\ subversionURL'.repository = r(c + 1)
          /\ subversionURL'.path = <<"/">> \o m(c + 1)
      BY <1>2, <1>8, <1>9, <3>1, <3>3 DEF o, r, m
    <3> QED BY <1>11, <2>1, <2>4, <3>3, <3>4
  <2>7. CASE level = 4
    <3>1. ~Own /\ Rep /\ ~Rest
      BY <1>5, <1>7, <2>1, <2>7
    <3>2. subversionURL' = [subversionURL EXCEPT !.repository = Append(@, At)]
      BY <2>2, <2>7
    <3>3. /\ subversionURL' \in Parts /\ subversionURL'.owner = subversionURL.owner
          /\ subversionURL'.repository = Append(subversionURL.repository, At)
          /\ subversionURL'.path = subversionURL.path
      BY <1>2, <2>3, <3>2 DEF Parts
    <3>4. /\ subversionURL'.owner = o(c + 1) /\ subversionURL'.repository = r(c + 1)
          /\ subversionURL'.path = <<"/">> \o m(c + 1)
      BY <1>2, <1>8, <1>9, <3>1, <3>3 DEF o, r, m
    <3> QED BY <1>11, <2>1, <2>4, <3>3, <3>4
  <2>8. CASE level = 5
    <3>1. ~Own /\ ~Rep /\ Rest
      BY <1>5, <1>6, <2>8
    <3>2. subversionURL' = [subversionURL EXCEPT !.path = Append(@, At)]
      BY <2>2, <2>8
    <3>3. /\ subversionURL' \in Parts /\ subversionURL'.owner = subversionURL.owner
          /\ subversionURL'.repository = subversionURL.repository
          /\ subversionURL'.path = Append(subversionURL.path, At)
      BY <1>2, <2>3, <3>2 DEF Parts
    <3>4. /\ subversionURL'.owner = o(c + 1) /\ subversionURL'.repository = r(c + 1)
          /\ subversionURL'.path = <<"/">> \o m(c + 1)
      BY <1>2, <1>8, <1>9, <1>10, <3>1, <3>3 DEF o, r, m
    <3> QED BY <1>11, <2>1, <2>4, <3>3, <3>4
  <2>9. level # 1
    BY <1>5, <2>1
  <2> QED BY <1>5, <2>5, <2>6, <2>7, <2>8, <2>9
<1> QED BY <1>12, <1>13, <1>14

\* At the end of the URL all parts are taken.
LEMMA WalkEnd ==
  ASSUME NEW u \in Urls, Walk(u), c = Size(Url(u)) + 1, Uri_end
  PROVE  Exact(u)'
<1>1. PICK w \in Texts : w = Url(u)
  BY UrlText
<1>2. PICK s, a, i, j, k, o, r, m \in Nat :
           /\ s = Size(u.scheme) /\ a = HostAt(u) /\ i = OwnerAt(u) /\ j = RepositoryAt(u)
           /\ k = RestAt(u) /\ o = Size(u.owner) /\ r = Size(u.repository)
           /\ m = Size(u.rest)
           /\ a = s + 3 /\ i > a /\ j = i + o + 1 /\ k = j + r + 1
  BY Places
<1>3. /\ u.owner \in Texts /\ u.repository \in Texts /\ u.rest \in Texts
  BY PartsOfUrl
<1>4. PICK n \in Nat : n = Size(w)
  BY <1>1, SizeNat
<1>5. (u.rest = <<>> => n = k - 1) /\ (u.rest # <<>> => n = k + m)
  BY <1>1, <1>2, <1>4, UriLayout, Zenon DEF Laid
<1>6. c \in Nat /\ c = n + 1
  BY <1>1, <1>4
<1>7. c > i + o /\ c > j + r /\ (u.rest # <<>> => c > k + m)
  <2>1. j = i + o + 1 /\ k = j + r + 1
    BY <1>2, Zenon
  <2>2. n = k - 1 \/ n = k + m
    BY <1>5
  <2> QED BY <1>5, <1>6, <2>1, <2>2
<1>8. Seen(u.owner, i, c) = u.owner
  <2>1. c > i + Size(u.owner)
    BY <1>2, <1>7, Zenon
  <2> QED BY <1>3, <1>6, <2>1, SeenOn
<1>9. Seen(u.repository, j, c) = u.repository
  <2>1. c > j + Size(u.repository)
    BY <1>2, <1>7, Zenon
  <2> QED BY <1>3, <1>6, <2>1, SeenOn
<1>10. Seen(u.rest, k, c) = u.rest
  <2>1. CASE u.rest # <<>>
    <3>1. c > k + Size(u.rest)
      BY <1>2, <1>7, <2>1, Zenon
    <3> QED BY <1>3, <1>6, <3>1, SeenOn
  <2>2. CASE u.rest = <<>>
    <3>1. c <= k
      BY <1>5, <1>6, <2>2
    <3> QED BY <2>2, <3>1 DEF Seen
  <2> QED BY <2>1, <2>2
<1>11. /\ subversionURL \in Parts
       /\ subversionURL.owner = u.owner /\ subversionURL.repository = u.repository
       /\ subversionURL.path = <<"/">> \o u.rest
  BY <1>2, <1>8, <1>9, <1>10, Zenon DEF Walk
<1>12. /\ subversionURL'.owner = subversionURL.owner
       /\ subversionURL'.repository = subversionURL.repository
       /\ subversionURL'.path = subversionURL.path /\ cret' = 0
  <2> DEFINE port == IF subversionURL.scheme = <<"s", "v", "n", "+", "s", "s", "h">>
                     THEN 21 ELSE 3690
  <2>1. cret' = 0 /\ subversionURL' = [subversionURL EXCEPT !.port = port]
    BY DEF Uri_end
  <2> HIDE DEF port
  <2> QED BY <1>11, <2>1 DEF Parts
<1> QED BY <1>11, <1>12, Zenon DEF Exact, Taken

Exactness == sent.kind = "handshake" => Exact(sent.of.url)

LEMMA ExactnessInit == Init => Exactness
<1> SUFFICES ASSUME Init, sent.kind = "handshake" PROVE Exact(sent.of.url)
  BY DEF Exactness
<1>1. PICK u \in Urls : u = sent.of.url
  BY PacketInit, HandshakeTypes DEF Packet
<1>2. c = 1 /\ level = 0 /\ subversionURL = NoUrl /\ cret = Running
  BY DEF Init
<1>3. PICK s, a, i, j, k, o, r, m \in Nat :
           /\ s = Size(u.scheme) /\ a = HostAt(u) /\ i = OwnerAt(u) /\ j = RepositoryAt(u)
           /\ k = RestAt(u) /\ o = Size(u.owner) /\ r = Size(u.repository)
           /\ m = Size(u.rest)
           /\ a = s + 3 /\ i > a /\ j = i + o + 1 /\ k = j + r + 1
  BY Places
<1>4. 1 <= s + 2 /\ 1 <= i /\ 1 <= j /\ 1 <= k
  BY <1>3
<1>5. LevelAt(u, c) = 0
  BY <1>2, <1>3, <1>4 DEF LevelAt
<1>6. /\ Seen(u.owner, OwnerAt(u), c) = <<>> /\ Seen(u.repository, RepositoryAt(u), c) = <<>>
      /\ Seen(u.rest, RestAt(u), c) = <<>>
  BY <1>2, <1>3, <1>4 DEF Seen
<1>7. PICK y \in Texts : y = <<"/">>
  BY Marked, OneCharacter
<1>8. y \o <<>> = y
  BY ConcatEmptySeq DEF Texts
<1>9. /\ NoUrl \in Parts /\ NoUrl.owner = <<>> /\ NoUrl.repository = <<>> /\ NoUrl.path = y
  BY <1>7, NoText DEF NoUrl, Parts
<1>10. Walk(u)
  BY <1>2, <1>5, <1>6, <1>7, <1>8, <1>9, Zenon DEF Walk
<1> QED BY <1>1, <1>2, <1>10 DEF Exact

LEMMA ExactnessStep ==
  ASSUME Bounds, Walked, Routing, Exactness, [Next]_vars
  PROVE  Exactness'
<1> SUFFICES ASSUME sent'.kind = "handshake" PROVE Exact(sent.of.url)'
  BY DEF Exactness
<1>1. sent' = sent
  BY DEF Next, vars, ParseSubversionHds, SubversionUriCanonicalize
<1>2. PICK u \in Urls : u = sent.of.url /\ u = sent'.of.url /\ Exact(u)
  BY <1>1, HandshakeTypes DEF Routing, Exactness
<1> SUFFICES Exact(u)'
  BY <1>2
<1>3. CASE SubversionUriCanonicalize
  <2>1. ret = 0 /\ cret = Running /\ UNCHANGED hds
    BY <1>3 DEF SubversionUriCanonicalize, parser, Walking, Uri_slash, Uri_bad, Uri_char, Uri_end
  <2>2. hds.subversionURL = Url(u)
    BY <1>1, <1>2, <2>1 DEF Routing, Routed
  <2>3. Walk(u)
    BY <1>2, <2>1 DEF Exact, Running
  <2>4. PICK n \in Nat : n = Size(Url(u)) /\ n = Len(hds.subversionURL)
    BY <2>2, UrlText, SizeNat DEF Size
  <2>5. c \in 1..(n + 1)
    BY <2>4 DEF Walked
  <2>6. CASE Uri_slash \/ Uri_bad \/ Uri_char
    <3>1. c <= n
      BY <2>4, <2>6 DEF Uri_slash, Uri_bad, Uri_char, Walking
    <3>2. c \in 1..Size(Url(u))
      BY <2>4, <2>5, <3>1
    <3> QED BY <2>1, <2>2, <2>3, <2>6, <3>2, WalkStep
  <2>7. CASE Uri_end
    <3>1. c > n
      BY <2>4, <2>7 DEF Uri_end
    <3>2. c = Size(Url(u)) + 1
      BY <2>4, <2>5, <3>1
    <3> QED BY <2>3, <2>7, <3>2, WalkEnd
  <2> QED BY <1>3, <2>6, <2>7 DEF SubversionUriCanonicalize
<1>4. CASE UNCHANGED canon
  BY <1>2, <1>4 DEF canon, Exact, Walk, Taken
<1>5. SubversionUriCanonicalize \/ UNCHANGED canon
  BY DEF Next, vars, ParseSubversionHds
<1> QED BY <1>3, <1>4, <1>5

LEMMA ExactnessInvariant == Spec => []Exactness
BY ExactnessInit, ExactnessStep, BoundsInvariant, RoutingInvariant, PTL DEF Spec

\* Whatever account, port and further slashes the URL has: the owner is the first element
\* of its path, repository and path are the rest, and no URL of a handshake is refused.
THEOREM OwnerFound == Spec => []OwnerExact
<1>1. ASSUME Exactness PROVE OwnerExact
  BY <1>1 DEF Exactness, Exact, Taken, OwnerExact, Running
<1> QED BY <1>1, ExactnessInvariant, PTL

-----------------------------------------------------------------------------
(* A whole handshake is understood *)

\* What is known of a handshake when its capabilities have been read: the URL if it has
\* been read, and the ra-client.
Told(h, u, a) ==
  [protocol |-> h.version, mCapabilities |-> h.caps, subversionURL |-> u, userAgent |-> a]

\* The capabilities so far, and the characters of the next one.
Listed(h) ==
  \/ p <= 6 /\ hds.mCapabilities = <<>> /\ tmp = <<>>
  \/ \E k \in 0..(Len(h.caps) - 1) : \E j \in 0..Long(h, k + 1) :
       /\ p = 7 + End(h, k) + j
       /\ hds.mCapabilities = SubSeq(h.caps, 1, k) /\ tmp = SubSeq(h.caps[k + 1], 1, j)
  \/ p > ListEnd(h) /\ hds.mCapabilities = h.caps /\ (p <= First(h) + 1 => tmp = <<>>)

Heard(h) ==
  /\ UrlAhead(h) /\ Listed(h) /\ hds.userAgent = <<>>
  /\ p > 3 => hds.protocol = h.version

\* In front of the ra-client or in its length.
RaAhead(h) ==
  /\ hds = Told(h, Url(h.url), <<>>) /\ h.ra # <<>>
  /\ p \in (ClosingAt(h) + 1)..RaAt(h) /\ status = "kSubversionUrlParsed" /\ depth = 1
  /\ tmp = SubSeq(Length(h.ra), 1, p - ClosingAt(h) - 1)

\* There is no ra-client: in front of the client, or behind its place if it is missing.
ClientAhead(h) ==
  /\ hds = Told(h, Url(h.url), <<>>) /\ h.ra = <<>>
  /\ p > TailAt(h) /\ status = "kSubversionUrlParsed"
  /\ h.client # <<>> =>
       p <= TailAt(h) + 3 /\ depth = IF p = TailAt(h) + 1 THEN 1 ELSE 2

\* Behind the ra-client, or in the client.
TailAhead(h) ==
  /\ hds = Told(h, Url(h.url), h.ra)
  /\ p > TailAt(h) /\ status = "kSubversionRUAParsed"

Understood(h) ==
  /\ ret \in {Running, 0}
  /\ ret = Running => Heard(h) \/ RaAhead(h) \/ ClientAhead(h) \/ TailAhead(h)
  /\ ret = 0 => hds = Told(h, Url(h.url), h.ra)

LEMMA InPacket ==
  ASSUME NEW h \in Handshakes, buffer = Encoded(h), Bounds
  PROVE  p \in 1..(ClientEnd(h) + 5) /\ (Parsing => p <= ClientEnd(h) + 4)
<1>1. Len(buffer) = ClientEnd(h) + 4 /\ ClientEnd(h) \in Nat
  BY Ordered DEF Size
<1> QED BY <1>1 DEF Bounds, Parsing

LEMMA TailStep ==
  ASSUME NEW h \in Handshakes, buffer = Encoded(h), Bounds, TailAhead(h), ret = Running,
         Parsing, ParseSubversionHds
  PROVE  TailAhead(h)' /\ ret' = Running
<1>1. PICK g, l \in Nat : g = TailAt(h) /\ l = ClientEnd(h) /\ g + 2 <= l
  BY Ordered
<1>2. p \in (g + 1)..(l + 4)
  BY <1>1, InPacket DEF TailAhead
<1>3. buffer[p] # Zero
  <2>1. p \in {g + 1, g + 2, l + 1, l + 2, l + 3, l + 4} \/ p \in (g + 3)..l
    BY <1>1, <1>2
  <2>2. CASE p \in {g + 1, g + 2, l + 1, l + 2, l + 3, l + 4}
    BY <1>1, <2>2, TailLayout DEF Zero
  <2>3. CASE p \in (g + 3)..l
    BY <1>1, <2>3, TailLayout
  <2> QED BY <2>1, <2>2, <2>3
<1>4. Parse_paren \/ Parse_blank \/ Parse_rest
  <2>1. ~Parse_zero /\ ~Parse_protocol /\ ~Parse_capability /\ ~Parse_url /\ ~Parse_agent
    BY <1>3 DEF TailAhead, Parse_zero, Parse_protocol, Parse_capability, Parse_url, Parse_agent
  <2> QED BY <2>1, ReadsOne
<1>5. p' = p + 1 /\ UNCHANGED <<status, hds, ret>>
  BY <1>4 DEF TailAhead, Parse_paren, Parse_blank, Parse_rest
<1>6. p' > TailAt(h)
  BY <1>1, <1>2, <1>5
<1> QED BY <1>5, <1>6 DEF TailAhead

LEMMA ClientStep ==
  ASSUME NEW h \in Handshakes, buffer = Encoded(h), Bounds, ClientAhead(h), ret = Running,
         Parsing, ParseSubversionHds
  PROVE  (ClientAhead(h)' \/ TailAhead(h)') /\ ret' = Running
<1>1. PICK g, l \in Nat : g = TailAt(h) /\ l = ClientEnd(h) /\ g + 2 <= l
  BY Ordered
<1>2. p \in (g + 1)..(l + 4)
  BY <1>1, InPacket DEF ClientAhead
<1>3. buffer[g + 1] = "(" /\ buffer[g + 2] = " "
  BY <1>1, TailLayout
<1>4. CASE h.client = <<>> \/ p # g + 3
  <2>1. buffer[p] \in {"(", ")", " "} /\ (p = g + 1 => buffer[p] = "(")
        /\ (p = g + 2 => buffer[p] = " ")
    <3>1. CASE p = g + 1 \/ p = g + 2
      BY <1>3, <3>1
    <3>2. CASE p # g + 1 /\ p # g + 2
      <4>1. h.client = <<>>
        BY <1>1, <1>2, <1>4, <3>2 DEF ClientAhead
      <4>2. l = g + 2
        BY <1>1, <4>1, TailLayout
      <4>3. p \in {l + 1, l + 2, l + 3, l + 4}
        BY <1>1, <1>2, <3>2, <4>2
      <4> QED BY <1>1, <3>2, <4>3, TailLayout
    <3> QED BY <3>1, <3>2
  <2>2. Parse_paren \/ Parse_blank
    BY <2>1, ReadsOne
  <2>3. p' = p + 1 /\ UNCHANGED <<status, hds, ret>>
    BY <2>2 DEF ClientAhead, Parse_paren, Parse_blank
  <2>4. h.client # <<>> => p' <= g + 3 /\ depth' = 2
    <3> SUFFICES ASSUME h.client # <<>> PROVE p' <= g + 3 /\ depth' = 2
      OBVIOUS
    <3>1. p \in {g + 1, g + 2} /\ depth = IF p = g + 1 THEN 1 ELSE 2
      BY <1>1, <1>2, <1>4 DEF ClientAhead
    <3>2. CASE p = g + 1
      <4>1. buffer[p] = "(" /\ Parse_paren
        BY <1>3, <3>2, ReadsOne
      <4> QED BY <1>1, <2>3, <3>1, <3>2, <4>1 DEF Parse_paren
    <3>3. CASE p = g + 2
      <4>1. depth = 2
        BY <1>1, <3>1, <3>3
      <4>2. buffer[p] = " " /\ Parse_blank
        BY <1>3, <3>3, ReadsOne
      <4>3. depth' = depth
        BY <4>2 DEF Parse_blank
      <4>4. p' <= g + 3
        BY <1>1, <2>3, <3>3
      <4> QED BY <4>1, <4>3, <4>4
    <3> QED BY <3>1, <3>2, <3>3
  <2>5. p' > g /\ p' # g + 1
    BY <1>1, <1>2, <2>3
  <2> QED BY <1>1, <2>3, <2>4, <2>5 DEF ClientAhead
<1>5. CASE h.client # <<>> /\ p = g + 3
  <2>1. buffer[p] \notin Marks /\ buffer[p] # ":"
    BY <1>1, <1>5, TailLayout
  <2>2. depth # 1
    BY <1>1, <1>5 DEF ClientAhead
  <2>3. Parse_agent
    <3>1. ~Parse_protocol /\ ~Parse_capability /\ ~Parse_url /\ ~Parse_rest
      BY DEF ClientAhead, Parse_protocol, Parse_capability, Parse_url, Parse_rest
    <3> QED BY <2>1, <3>1, ReadsOne
  <2>4. /\ p' = p + 1 /\ status' = "kSubversionRUAParsed" /\ UNCHANGED <<hds, ret>>
    BY <2>1, <2>2, <2>3 DEF Parse_agent, Parse_string
  <2>5. p' > g
    BY <1>1, <1>2, <2>4
  <2> QED BY <1>1, <2>4, <2>5 DEF ClientAhead, TailAhead
<1> QED BY <1>4, <1>5

LEMMA RaStep ==
  ASSUME NEW h \in Handshakes, PacketOf(h), buffer = Encoded(h), Bounds, RaAhead(h),
         ret = Running, Parsing, ParseSubversionHds
  PROVE  (RaAhead(h)' \/ TailAhead(h)') /\ ret' = Running
<1>1. PICK f, g, w, l \in Nat : /\ f = ClosingAt(h) /\ g = RaAt(h) /\ w = TailAt(h)
                                /\ l = ClientEnd(h) /\ f + 1 < g /\ g < w /\ w + 2 <= l
  BY Ordered DEF RaAhead
<1>2. PICK s \in Texts : s = h.ra /\ s # <<>> /\ Len(s) < TooLarge
  BY HandshakeTypes DEF RaAhead
<1>3. PICK d \in Texts : d = Length(s) /\ strtol(d) = Len(s) /\ Size(d) = g - f - 1
  <2>1. Length(s) \in Texts /\ strtol(Length(s)) = Len(s)
    BY <1>2, LengthText
  <2>2. Size(Length(s)) = g - f - 1
    <3>1. RaAt(h) = ClosingAt(h) + Size(Length(s)) + 1 /\ Size(Length(s)) \in Nat
      BY <1>2, Positions, Zenon DEF RaAt
    <3> QED BY <1>1, <3>1
  <2> QED BY <2>1, <2>2
<1>4. /\ p \in (f + 1)..g /\ tmp = SubSeq(d, 1, p - f - 1)
      /\ hds = Told(h, Url(h.url), <<>>) /\ status = "kSubversionUrlParsed" /\ depth = 1
  BY <1>1, <1>2, <1>3 DEF RaAhead
<1>5. p \in (f + 1)..g /\ f \in Nat /\ g \in Nat
  BY <1>4
<1>6. /\ p < g => buffer[p] = d[p - f] /\ buffer[p] \notin Marks \cup {":"}
      /\ p = g => buffer[p] = ":"
  <2>1. ASSUME p < g PROVE buffer[p] = d[p - f] /\ buffer[p] \notin Marks \cup {":"}
    <3>1. p \in (f + 1)..(g - 1)
      BY <1>1, <1>4, <2>1
    <3>2. p \in (ClosingAt(h) + 1)..(RaAt(h) - 1)
      BY <1>1, <3>1, Zenon
    <3>3. /\ Encoded(h)[p] = Length(h.ra)[p - ClosingAt(h)]
          /\ Encoded(h)[p] \notin Marks \cup {":"}
      BY <1>2, <3>2, RaLayout
    <3> QED BY <1>1, <1>2, <1>3, <3>3, Zenon
  <2>2. p = g => buffer[p] = ":"
    BY <1>1, <1>2, RaLayout
  <2> QED BY <2>1, <2>2
<1>7. Parse_string(tmp, "userAgent", status)
  <2>1. buffer[p] \notin Marks
    <3>1. p < g \/ p = g
      BY <1>1, <1>5
    <3>2. ":" \notin Marks
      BY DEF Marks, Blanks, Zero
    <3> QED BY <1>6, <3>1, <3>2
  <2>2. ~Parse_protocol /\ ~Parse_capability /\ ~Parse_url /\ ~Parse_rest
    BY <1>4 DEF Parse_protocol, Parse_capability, Parse_url, Parse_rest
  <2>3. Parse_agent
    BY <2>1, <2>2, ReadsOne
  <2> QED BY <1>4, <2>3 DEF Parse_agent
<1>8. CASE p < g
  <2>1. /\ tmp' = Append(tmp, d[p - f]) /\ p' = p + 1 /\ UNCHANGED <<hds, ret, depth, status>>
    BY <1>6, <1>7, <1>8 DEF Parse_string
  <2>2. PICK k \in 0..(Len(d) - 1) : k = p - f - 1 /\ k + 1 = p - f /\ k + 1 = (p + 1) - f - 1
    <3>1. PICK m \in Nat : m = Len(d) /\ m = g - f - 1
      BY <1>3 DEF Size, Texts
    <3>2. p - f - 1 \in 0..(m - 1) /\ p - f - 1 + 1 = p - f /\ p - f = (p + 1) - f - 1
      <4>1. m = g - f - 1
        BY <3>1
      <4> QED BY <1>8, <1>5, <4>1
    <3> QED BY <3>1, <3>2
  <2>3. Append(SubSeq(d, 1, k), d[k + 1]) = SubSeq(d, 1, k + 1)
    BY <2>2, Grows DEF Texts
  <2>4. tmp' = SubSeq(d, 1, p' - f - 1)
    BY <1>4, <2>1, <2>2, <2>3, Zenon
  <2>5. p + 1 \in (f + 1)..g
    BY <1>1, <1>4, <1>8
  <2>6. RaAhead(h)'
    BY <1>1, <1>2, <1>3, <1>4, <2>1, <2>4, <2>5 DEF RaAhead
  <2> QED BY <2>1, <2>6
<1>9. CASE p = g
  <2>1. tmp = d
    <3>1. p - f - 1 = Len(d)
      BY <1>3, <1>9 DEF Size
    <3> QED BY <1>4, <3>1, Ends DEF Texts
  <2>2. Occurs(s, Encoded(h), p) /\ w = p + Len(s) + 1
    BY <1>1, <1>2, <1>9, RaLayout DEF Size
  <2>3. ~TooLong(Len(s))
    <3>1. PICK m \in Nat : m = Len(s) /\ w = p + m + 1
      BY <1>2, <2>2 DEF Texts
    <3>2. Len(buffer) = l + 4
      BY <1>1, Ordered DEF Size
    <3>3. ~(w >= (l + 4) + 1)
      BY <1>1
    <3>4. ~TooLong(m)
      BY <1>5, <3>1, <3>2, <3>3, Measured
    <3> QED BY <3>1, <3>4, Zenon
  <2>4. /\ hds' = [hds EXCEPT !["userAgent"] = Copied(Len(s))]
        /\ p' = p + Len(s) + 2 /\ ret' = ret /\ status' = "kSubversionRUAParsed"
    <3>1. Len(s) >= 0 /\ ~(Len(s) < 0)
      BY DEF Texts
    <3> QED BY <1>3, <1>6, <1>7, <1>9, <2>1, <2>3, <3>1 DEF Parse_string
  <2>5. Copied(Len(s)) = s
    BY <1>1, <1>9, <2>2, <2>3, CopiedIs
  <2>6. hds' = Told(h, Url(h.url), h.ra)
    BY <1>2, <1>4, <2>4, <2>5 DEF Told
  <2>7. p' > w
    <3>1. PICK m \in Nat : m = Len(s) /\ w = p + m + 1 /\ p' = p + m + 2
      BY <1>2, <2>2, <2>4 DEF Texts
    <3>2. w = p + m + 1 /\ p' = p + m + 2
      BY <3>1
    <3> QED BY <1>5, <3>2
  <2> QED BY <1>1, <2>4, <2>6, <2>7 DEF TailAhead
<1> QED BY <1>1, <1>4, <1>8, <1>9

LEMMA ListedNext ==
  ASSUME NEW h \in Handshakes, NEW k \in 0..Len(h.caps), p' = 7 + End(h, k),
         hds'.mCapabilities = SubSeq(h.caps, 1, k), tmp' = <<>>
  PROVE  Listed(h)'
<1>1. PICK n \in Nat, z \in Nat : n = Len(h.caps) /\ z = Size(List(h)) /\ z = End(h, n)
  BY CapsEnds
<1>2. CASE k = n
  <2>1. p' = 7 + z /\ ListEnd(h) = 6 + z
    BY <1>1, <1>2, Zenon DEF ListEnd
  <2>2. p' > ListEnd(h)
    BY <1>1, <2>1
  <2>3. hds'.mCapabilities = h.caps
    BY <1>1, <1>2, HandshakeTypes, Ends
  <2> QED BY <2>2, <2>3 DEF Listed
<1>3. CASE k # n
  <2>1. k \in 0..(n - 1)
    BY <1>1, <1>3
  <2>2. PICK m \in Nat, e \in Nat : m = Long(h, k + 1) /\ e = End(h, k)
    BY <1>1, <2>1, CapsLayout
  <2>3. k + 1 \in 1..Len(h.caps)
    BY <1>1, <2>1
  <2>4. SubSeq(h.caps[k + 1], 1, 0) = <<>>
    BY <2>3, CapTypes, Ends DEF Texts
  <2>5. 0 \in 0..m /\ p' = 7 + e + 0
    BY <2>2
  <2>6. 0 \in 0..Long(h, k + 1) /\ p' = 7 + End(h, k) + 0
    BY <2>2, <2>5, Zenon
  <2> QED BY <1>1, <2>1, <2>4, <2>6, Zenon DEF Listed
<1> QED BY <1>2, <1>3

\* In which part of the list of capabilities the parser is.
LEMMA ListedCases ==
  ASSUME NEW h \in Handshakes, Listed(h), p \in Nat
  PROVE  /\ p <= 6 => hds.mCapabilities = <<>> /\ tmp = <<>>
         /\ p \in 7..ListEnd(h) =>
              \E k \in 0..(Len(h.caps) - 1) : \E j \in 0..Long(h, k + 1) :
                /\ p = 7 + End(h, k) + j
                /\ hds.mCapabilities = SubSeq(h.caps, 1, k)
                /\ tmp = SubSeq(h.caps[k + 1], 1, j)
         /\ p > ListEnd(h) =>
              hds.mCapabilities = h.caps /\ (p <= First(h) + 1 => tmp = <<>>)
<1>1. PICK z \in Nat : z = Size(List(h)) /\ ListEnd(h) = 6 + z
  BY CapsEnds DEF ListEnd
<1>2. ASSUME NEW k \in 0..(Len(h.caps) - 1), NEW j \in 0..Long(h, k + 1), p = 7 + End(h, k) + j
      PROVE  p \in 7..ListEnd(h)
  <2>1. PICK e, m, y \in Nat : /\ e = End(h, k) /\ m = Long(h, k + 1) /\ y = End(h, k + 1)
                               /\ y = e + m + 1
    <3>1. /\ End(h, k) \in Nat /\ Long(h, k + 1) \in Nat
          /\ End(h, k + 1) = End(h, k) + Long(h, k + 1) + 1
      BY CapsLayout
    <3>2. End(h, k + 1) \in Nat
      BY <3>1
    <3> QED BY <3>1, <3>2
  <2>2. y <= z
    BY <1>1, <2>1, CapsLayout DEF Size
  <2>3. p = 7 + e + j /\ j \in 0..m
    BY <1>2, <2>1
  <2>4. y = e + m + 1
    BY <2>1
  <2>5. p \in 7..(6 + z)
    BY <2>2, <2>3, <2>4
  <2> QED BY <1>1, <2>5, Zenon
<1>3. p <= 6 => p \notin 7..ListEnd(h) /\ ~(p > ListEnd(h))
  BY <1>1
<1>4. p \in 7..ListEnd(h) => ~(p <= 6) /\ ~(p > ListEnd(h))
  BY <1>1
<1>5. p > ListEnd(h) => ~(p <= 6) /\ p \notin 7..ListEnd(h)
  BY <1>1
<1> QED BY <1>2, <1>3, <1>4, <1>5, Zenon DEF Listed

\* A character of a capability, or the blank behind one.
LEMMA CapsStep ==
  ASSUME NEW h \in Handshakes, Bounds, Heard(h), ret = Running, Parsing,
         buffer[p] = Encoded(h)[p], p \in 7..ListEnd(h), ParseSubversionHds, p' = p + 1
  PROVE  Listed(h)' /\ \E k \in Seq(Texts) : hds' = [hds EXCEPT !.mCapabilities = k]
<1>1. PICK k \in 0..(Len(h.caps) - 1) : \E j \in 0..Long(h, k + 1) :
        /\ p = 7 + End(h, k) + j
        /\ hds.mCapabilities = SubSeq(h.caps, 1, k)
        /\ tmp = SubSeq(h.caps[k + 1], 1, j)
  <2>1. Listed(h)
    BY DEF Heard
  <2>2. p \in Nat
    BY Positions
  <2> QED BY <2>1, <2>2, ListedCases, Zenon
<1>2. PICK j \in 0..Long(h, k + 1) :
        /\ p = 7 + End(h, k) + j
        /\ hds.mCapabilities = SubSeq(h.caps, 1, k)
        /\ tmp = SubSeq(h.caps[k + 1], 1, j)
  BY <1>1
<1>3. PICK n \in Nat, i \in Nat : n = Len(h.caps) /\ i = k + 1 /\ i \in 1..n
  BY CapsEnds
<1>4. PICK b : b = h.caps[i] /\ b \in Texts /\ Len(b) \in Nat /\ b # <<>>
               /\ \A x \in 1..Len(b) : b[x] \in Characters \ Marks
  BY <1>3, CapTypes
<1>5. PICK e, m, y \in Nat : /\ e = End(h, k) /\ m = Len(b) /\ y = End(h, i)
                             /\ y = e + m + 1
  <2>1. /\ End(h, k) \in Nat /\ Long(h, k + 1) \in Nat
        /\ End(h, k + 1) = End(h, k) + Long(h, k + 1) + 1
    BY CapsLayout
  <2>2. End(h, k + 1) \in Nat
    BY <2>1
  <2>3. Long(h, k + 1) = Len(b)
    BY <1>3, <1>4 DEF Long
  <2> QED BY <1>3, <2>1, <2>2, <2>3
<1>6. Occurs(b, List(h), e) /\ List(h)[e + m + 1] = " "
  <2>1. Occurs(h.caps[k + 1], List(h), End(h, k)) /\ List(h)[End(h, k) + Long(h, k + 1) + 1] = " "
    BY CapsLayout
  <2>2. Long(h, k + 1) = m
    BY <1>3, <1>4, <1>5 DEF Long
  <2> QED BY <1>3, <1>4, <1>5, <2>1, <2>2, Zenon
<1>7. j \in 0..m /\ p = 7 + e + j /\ tmp = SubSeq(b, 1, j)
  <2>1. Long(h, k + 1) = m
    BY <1>3, <1>4, <1>5 DEF Long
  <2> QED BY <1>2, <1>3, <1>4, <1>5, <2>1, Zenon
<1>8. /\ buffer[p] = List(h)[p - 6]
      /\ buffer[p] = " " => Parse_blank
      /\ buffer[p] # " " => Parse_capability
      /\ status = "kProtocolParsed"
  <2>1. p <= First(h) /\ p \in 7..(First(h) - 2)
    <3>1. PICK f \in Nat : f = ListEnd(h) /\ First(h) = f + 2
      BY Positions DEF First
    <3>2. p <= f + 2 /\ f + 2 - 2 = f
      BY <3>1
    <3>3. p \in 7..f
      BY <3>1, Zenon
    <3>4. p <= First(h)
      BY <3>1, <3>2, Zenon
    <3>5. First(h) - 2 = f
      BY <3>1
    <3> QED BY <3>3, <3>4, <3>5, Zenon
  <2> QED BY <2>1, BeginningReads DEF Heard
<1>9. p - 6 = e + j + 1
  BY <1>7
<1>10. CASE j = m
  <2>1. buffer[p] = " "
    BY <1>6, <1>8, <1>9, <1>10
  <2>2. tmp = b /\ tmp # <<>>
    BY <1>4, <1>5, <1>7, <1>10, Ends DEF Texts
  <2>3. hds' = [hds EXCEPT !.mCapabilities = Append(hds.mCapabilities, b)] /\ tmp' = <<>>
    BY <1>8, <2>1, <2>2 DEF Parse_blank
  <2>4. hds.mCapabilities \in Seq(Texts)
    BY DEF Bounds, Found
  <2>5. Append(hds.mCapabilities, b) \in Seq(Texts)
    BY <1>4, <2>4
  <2>6. Append(hds.mCapabilities, b) = SubSeq(h.caps, 1, k + 1)
    BY <1>2, <1>3, <1>4, HandshakeTypes, Grows
  <2>7. hds'.mCapabilities = SubSeq(h.caps, 1, i)
    BY <1>3, <2>3, <2>6 DEF Bounds, Found
  <2>8. p' = 7 + y
    <3>1. p = 7 + e + m /\ y = e + m + 1
      BY <1>5, <1>7, <1>10
    <3> QED BY <3>1
  <2>9. i \in 0..Len(h.caps) /\ p' = 7 + End(h, i)
    BY <1>3, <1>5, <2>8
  <2>10. Listed(h)'
    BY <2>3, <2>7, <2>9, ListedNext
  <2> QED BY <2>3, <2>5, <2>10
<1>11. CASE j # m
  <2>1. j \in 0..(m - 1) /\ j + 1 \in 1..m /\ e + j + 1 \in (e + 1)..(e + m)
        /\ e + j + 1 - e = j + 1
    <3>1. j \in 0..m /\ j # m
      BY <1>7, <1>11
    <3> QED BY <3>1
  <2>2. buffer[p] = b[j + 1]
    <3>1. PICK x \in Nat : x = e + j + 1
      BY <2>1
    <3>2. x \in (e + 1)..(e + Size(b))
      BY <1>5, <2>1, <3>1, Zenon DEF Size
    <3>3. PICK w : w = List(h) /\ Occurs(b, w, e)
      BY <1>6, Zenon
    <3>4. w[x] = b[x - e]
      BY <3>2, <3>3 DEF Occurs, Size
    <3>5. x - e = j + 1 /\ x = p - 6
      BY <1>9, <2>1, <3>1
    <3> QED BY <1>8, <3>3, <3>4, <3>5, Zenon
  <2>3. buffer[p] # " "
    BY <1>4, <1>5, <2>1, <2>2 DEF Marks, Blanks
  <2>4. tmp' = Append(tmp, b[j + 1]) /\ hds' = hds
    BY <1>8, <2>2, <2>3 DEF Parse_capability
  <2>5. tmp' = SubSeq(b, 1, j + 1)
    BY <1>4, <1>5, <1>7, <2>1, <2>4, Grows DEF Texts
  <2>6. p' = 7 + e + (j + 1)
    BY <1>7
  <2>7. Long(h, k + 1) = m
    BY <1>3, <1>4, <1>5 DEF Long
  <2>8. j + 1 \in 0..m
    BY <2>1
  <2>9. /\ j + 1 \in 0..Long(h, k + 1) /\ p' = 7 + End(h, k) + (j + 1)
        /\ tmp' = SubSeq(h.caps[k + 1], 1, j + 1)
        /\ hds'.mCapabilities = SubSeq(h.caps, 1, k)
    BY <1>2, <1>3, <1>4, <1>5, <2>4, <2>5, <2>6, <2>7, <2>8, Zenon
  <2>10. Listed(h)'
    BY <2>9, Zenon DEF Listed
  <2>11. hds.mCapabilities \in Seq(Texts) /\ hds = [hds EXCEPT !.mCapabilities = @]
    BY DEF Bounds, Found
  <2> QED BY <2>4, <2>10, <2>11
<1> QED BY <1>10, <1>11

\* In front of the URL's length.
LEMMA HeardStep ==
  ASSUME NEW h \in Handshakes, buffer = Encoded(h), Bounds, Heard(h), ret = Running,
         Parsing, p <= First(h), ParseSubversionHds
  PROVE  Heard(h)' /\ ret' = Running
<1>1. PICK f \in Nat : f = First(h) /\ f >= 8 /\ ListEnd(h) = f - 2
  BY Beginning
<1>2. p \in 1..f /\ hds \in Found(hds.protocol) /\ tmp \in Texts /\ p \in Nat
  BY <1>1 DEF Bounds
<1>3. UrlAhead(h)' /\ ret' = Running /\ p' = p + 1
  BY BeginningStep DEF Heard
<1>4. /\ p \in {2, 4, 6, f} => Parse_blank
      /\ p \in {1, 5, f - 1} => Parse_paren
      /\ p = 3 => Parse_protocol /\ depth = 1 /\ buffer[p] = Digits[h.version + 1]
  BY <1>1, BeginningReads DEF Heard
<1>5. ASSUME Listed(h)', hds'.userAgent = hds.userAgent,
             \/ p > 3 /\ hds'.protocol = hds.protocol
             \/ p = 3 /\ hds'.protocol = h.version
             \/ p < 3
      PROVE  Heard(h)'
  <2>1. p > 3 => hds.protocol = h.version
    BY DEF Heard
  <2>2. p' > 3 => p >= 3
    BY <1>2, <1>3
  <2>3. p' > 3 => hds'.protocol = h.version
    BY <1>2, <1>5, <2>1, <2>2
  <2>4. hds'.userAgent = <<>>
    BY <1>5 DEF Heard
  <2> QED BY <1>3, <1>5, <2>3, <2>4 DEF Heard
<1>6. CASE p <= 6
  <2>1. hds.mCapabilities = <<>> /\ tmp = <<>>
    BY <1>2, <1>6, ListedCases DEF Heard
  <2>2. /\ tmp' = <<>> /\ hds'.mCapabilities = <<>> /\ hds'.userAgent = hds.userAgent
        /\ IF p = 3 THEN hds'.protocol = h.version ELSE hds' = hds
    <3>1. CASE p = 3
      <4>1. Parse_protocol /\ depth = 1 /\ buffer[p] = Digits[h.version + 1]
        BY <1>4, <3>1
      <4>2. Value(buffer[p]) = h.version
        BY <4>1, HandshakeTypes, ValueOfDigit
      <4>3. hds' = [hds EXCEPT !.protocol = h.version] /\ tmp' = tmp
        BY <4>1, <4>2 DEF Parse_protocol
      <4> QED BY <1>2, <2>1, <3>1, <4>3 DEF Found
    <3>2. CASE p # 3
      <4>1. Parse_blank \/ Parse_paren
        BY <1>2, <1>4, <1>6, <3>2
      <4>2. hds' = hds /\ tmp' = tmp
        BY <2>1, <4>1 DEF Parse_blank, Parse_paren
      <4> QED BY <2>1, <3>2, <4>2
    <3> QED BY <3>1, <3>2
  <2>3. Listed(h)'
    <3>1. CASE p # 6
      <4>1. p' <= 6
        BY <1>2, <1>3, <1>6, <3>1
      <4> QED BY <2>2, <4>1 DEF Listed
    <3>2. CASE p = 6
      <4>1. PICK z \in Nat : z = 0 /\ z \in 0..Len(h.caps) /\ End(h, z) = z
        BY CapsEnds
      <4>2. p' = 7 + End(h, z)
        BY <1>3, <3>2, <4>1
      <4>3. SubSeq(h.caps, 1, z) = <<>>
        BY <4>1, HandshakeTypes, Ends
      <4> QED BY <2>2, <4>1, <4>2, <4>3, ListedNext
    <3> QED BY <3>1, <3>2
  <2>4. p = 3 \/ p < 3 \/ p > 3
    BY <1>2
  <2> QED BY <1>3, <1>5, <2>2, <2>3, <2>4
<1>7. CASE p \in 7..(f - 2)
  <2>1. p \in 7..ListEnd(h) /\ p > 3
    BY <1>1, <1>7
  <2>2. Listed(h)'
    BY <1>3, <2>1, CapsStep
  <2>3. PICK k \in Seq(Texts) : hds' = [hds EXCEPT !.mCapabilities = k]
    BY <1>3, <2>1, CapsStep
  <2>4. hds'.userAgent = hds.userAgent /\ hds'.protocol = hds.protocol
    BY <1>2, <2>3 DEF Found
  <2> QED BY <1>3, <1>5, <2>1, <2>2, <2>4
<1>8. CASE p \in {f - 1, f}
  <2>1. p > ListEnd(h) /\ p <= First(h) + 1 /\ p > 3 /\ p' > ListEnd(h)
    BY <1>1, <1>3, <1>8
  <2>2. hds.mCapabilities = h.caps /\ tmp = <<>>
    BY <1>2, <2>1, ListedCases DEF Heard
  <2>3. hds' = hds /\ tmp' = tmp
    BY <1>4, <1>8, <2>2 DEF Parse_blank, Parse_paren
  <2>4. Listed(h)'
    BY <2>1, <2>2, <2>3 DEF Listed
  <2> QED BY <1>3, <1>5, <2>1, <2>3, <2>4
<1>9. p <= 6 \/ p \in 7..(f - 2) \/ p \in {f - 1, f}
  BY <1>1, <1>2
<1> QED BY <1>3, <1>6, <1>7, <1>8, <1>9

\* In the URL's length, and the URL.
LEMMA HeardUrl ==
  ASSUME NEW h \in Handshakes, PacketOf(h), buffer = Encoded(h), Bounds, Heard(h),
         ret = Running, Parsing, p > First(h), ParseSubversionHds
  PROVE  (Heard(h)' \/ RaAhead(h)' \/ ClientAhead(h)') /\ ret' = Running
<1>1. PICK f, u, a, g, w, l \in Nat :
        /\ f = First(h) /\ u = UrlAt(h) /\ a = ClosingAt(h) /\ g = RaAt(h) /\ w = TailAt(h)
        /\ l = ClientEnd(h) /\ f < u /\ u < a /\ a <= w /\ w + 2 <= l
        /\ (h.ra # <<>> => a + 1 < g) /\ ListEnd(h) = f - 2
  BY Ordered, Beginning
<1>2. UrlAhead(h) /\ p > f /\ p \in Nat /\ p > 3 /\ p > ListEnd(h)
  <2>1. f >= 8
    BY <1>1, Beginning
  <2> QED BY <1>1, <2>1 DEF Heard, Bounds
<1>3. hds.mCapabilities = h.caps /\ hds.protocol = h.version /\ hds.userAgent = <<>>
      /\ hds.subversionURL = <<>> /\ hds \in Found(hds.protocol)
  BY <1>2, ListedCases DEF Heard, UrlAhead, Bounds
<1>4. \/ ret' = 2 /\ p = UrlAt(h) /\ TooLong(Size(Url(h.url)))
      \/ UrlAhead(h)' /\ p' = p + 1 /\ UNCHANGED <<hds, ret>>
      \/ /\ p = UrlAt(h) /\ p' = p + Size(Url(h.url)) + 2
         /\ UrlBehind(h)' /\ status' = "kSubversionUrlParsed" /\ tmp' = <<>>
         /\ hds' = [hds EXCEPT !.subversionURL = Url(h.url)]
         /\ depth = 1 /\ UNCHANGED <<ret, depth>>
  BY <1>2, UrlStep
<1>5. PICK m \in Nat : m = Size(Url(h.url)) /\ a = u + m + 1
  BY <1>1, Ordered, Positions
<1>6. p = UrlAt(h) => ~TooLong(Size(Url(h.url)))
  <2>1. Len(buffer) = l + 4
    BY <1>1, Ordered DEF Size
  <2>2. ~(u + m + 1 >= (l + 4) + 1)
    <3>1. a <= w /\ w + 2 <= l /\ a = u + m + 1
      BY <1>1, <1>5
    <3> QED BY <3>1
  <2>3. p = u => ~TooLong(m)
    BY <2>1, <2>2, Measured
  <2> QED BY <1>1, <1>5, <2>3, Zenon
<1>7. CASE UrlAhead(h)' /\ p' = p + 1 /\ UNCHANGED <<hds, ret>>
  <2>1. p' > ListEnd(h) /\ ~(p' <= First(h) + 1)
    BY <1>1, <1>2, <1>7
  <2>2. Listed(h)'
    BY <1>3, <1>7, <2>1 DEF Listed
  <2> QED BY <1>3, <1>7, <2>2 DEF Heard
<1>8. CASE /\ p = UrlAt(h) /\ p' = p + Size(Url(h.url)) + 2
           /\ status' = "kSubversionUrlParsed" /\ tmp' = <<>>
           /\ hds' = [hds EXCEPT !.subversionURL = Url(h.url)]
           /\ depth = 1 /\ UNCHANGED <<ret, depth>>
  <2>1. p' = a + 1
    <3>1. p' = u + m + 2
      BY <1>1, <1>5, <1>8
    <3> QED BY <1>5, <3>1
  <2>2. hds' = Told(h, Url(h.url), <<>>)
    BY <1>3, <1>8 DEF Told, Found
  <2>3. CASE h.ra = <<>>
    <3>1. w = a
      BY <1>1, <2>3, RaLayout
    <3>2. p' > w /\ p' <= w + 3 /\ p' = w + 1
      BY <2>1, <3>1
    <3> QED BY <1>1, <1>8, <2>2, <2>3, <3>2 DEF ClientAhead
  <2>4. CASE h.ra # <<>>
    <3>1. p' \in (a + 1)..g /\ p' - a - 1 = 0
      BY <1>1, <2>1, <2>4
    <3>2. SubSeq(Length(h.ra), 1, 0) = <<>>
      BY HandshakeTypes, LengthText, Ends DEF Texts
    <3>3. tmp' = SubSeq(Length(h.ra), 1, p' - a - 1)
      BY <1>8, <3>1, <3>2, Zenon
    <3> QED BY <1>1, <1>8, <2>2, <2>4, <3>1, <3>3 DEF RaAhead
  <2> QED BY <1>8, <2>3, <2>4
<1> QED BY <1>4, <1>6, <1>7, <1>8 DEF Running

\* The end of the packet.
LEMMA EndStep ==
  ASSUME NEW h \in Handshakes, buffer = Encoded(h), Bounds, ret = Running, ~Parsing,
         Heard(h) \/ RaAhead(h) \/ ClientAhead(h) \/ TailAhead(h), ParseSubversionHds
  PROVE  ret' = 0 /\ hds' = Told(h, Url(h.url), h.ra)
<1>1. PICK f, u, a, g, w, l \in Nat :
        /\ f = First(h) /\ u = UrlAt(h) /\ a = ClosingAt(h) /\ g = RaAt(h) /\ w = TailAt(h)
        /\ l = ClientEnd(h) /\ f < u /\ u < a /\ a <= w /\ w + 2 <= l
        /\ (h.ra # <<>> => g < w)
  BY Ordered, Positions
<1>2. p > l + 4 /\ p \in Nat
  <2>1. Len(buffer) = l + 4
    BY <1>1, Ordered DEF Size
  <2> QED BY <1>1, <2>1 DEF Parsing, Bounds
<1>3. ~Heard(h)
  BY <1>1, <1>2 DEF Heard, UrlAhead
<1>4. ~RaAhead(h)
  BY <1>1, <1>2 DEF RaAhead
<1>5. hds = Told(h, Url(h.url), h.ra)
  BY <1>3, <1>4 DEF ClientAhead, TailAhead
<1>6. hds.subversionURL # <<>>
  <2>1. Url(h.url) # <<>>
    BY HandshakeTypes, UrlThere
  <2> QED BY <1>5, <2>1 DEF Told
<1>7. Parse_end
  BY DEF ParseSubversionHds, Parsing, Parse_paren, Parse_blank, Parse_zero,
     Parse_protocol, Parse_capability, Parse_url, Parse_agent, Parse_rest
<1> QED BY <1>5, <1>6, <1>7 DEF Parse_end

Understanding == Whole => sent.of \in Handshakes /\ Understood(sent.of)

LEMMA UnderstandingInit == Init => Understanding
<1> SUFFICES ASSUME Init, Whole PROVE sent.of \in Handshakes /\ Understood(sent.of)
  BY DEF Understanding
<1>1. PICK h \in Handshakes : h = sent.of /\ Routed(h)
  BY RoutingInit DEF Routing, Whole
<1>2. /\ p = 1 /\ tmp = <<>> /\ ret = Running /\ hds.mCapabilities = <<>>
      /\ hds.userAgent = <<>> /\ hds.subversionURL = <<>>
  BY DEF Init
<1>3. UrlAhead(h)
  <2>1. Url(h.url) # <<>>
    BY HandshakeTypes, UrlThere
  <2> QED BY <1>1, <1>2, <2>1 DEF Routed, UrlBehind
<1>4. Heard(h)
  BY <1>2, <1>3 DEF Heard, Listed
<1> QED BY <1>1, <1>2, <1>4 DEF Understood, Running

LEMMA UnderstandingStep ==
  ASSUME Bounds, Routing, Understanding, [Next]_vars
  PROVE  Understanding'
<1> SUFFICES ASSUME Whole' PROVE (sent.of \in Handshakes /\ Understood(sent.of))'
  BY DEF Understanding
<1>1. UNCHANGED <<sent, buffer>>
  BY DEF Next, vars, ParseSubversionHds, SubversionUriCanonicalize
<1>2. Whole
  BY <1>1 DEF Whole
<1>3. PICK h \in Handshakes :
        h = sent.of /\ PacketOf(h) /\ Understood(h) /\ buffer = Encoded(h)
  BY <1>2 DEF Understanding, Routing, Whole
<1>4. sent'.of = h
  BY <1>1, <1>3
<1> SUFFICES Understood(h)'
  BY <1>4
<1>5. CASE ParseSubversionHds
  <2>1. ret = Running
    BY <1>5 DEF ParseSubversionHds, Parsing, Parse_paren, Parse_blank, Parse_zero,
         Parse_protocol, Parse_capability, Parse_url, Parse_agent, Parse_rest, Parse_end
  <2>2. Heard(h) \/ RaAhead(h) \/ ClientAhead(h) \/ TailAhead(h)
    BY <1>3, <2>1 DEF Understood
  <2>3. CASE ~Parsing
    <3>1. ret' = 0 /\ hds' = Told(h, Url(h.url), h.ra)
      BY <1>3, <1>5, <2>1, <2>2, <2>3, EndStep
    <3> QED BY <3>1 DEF Understood, Running
  <2>4. CASE Parsing
    <3>1. (Heard(h)' \/ RaAhead(h)' \/ ClientAhead(h)' \/ TailAhead(h)') /\ ret' = Running
      <4>1. CASE Heard(h) /\ p <= First(h)
        BY <1>3, <1>5, <2>1, <2>4, <4>1, HeardStep
      <4>2. CASE Heard(h) /\ p > First(h)
        BY <1>3, <1>5, <2>1, <2>4, <4>2, HeardUrl
      <4>3. CASE RaAhead(h)
        BY <1>3, <1>5, <2>1, <2>4, <4>3, RaStep
      <4>4. CASE ClientAhead(h)
        BY <1>3, <1>5, <2>1, <2>4, <4>4, ClientStep
      <4>5. CASE TailAhead(h)
        BY <1>3, <1>5, <2>1, <2>4, <4>5, TailStep
      <4>6. p <= First(h) \/ p > First(h)
        BY Positions DEF Bounds
      <4> QED BY <2>2, <4>1, <4>2, <4>3, <4>4, <4>5, <4>6
    <3> QED BY <3>1 DEF Understood, Running
  <2> QED BY <2>3, <2>4
<1>6. CASE UNCHANGED parser
  BY <1>3, <1>6 DEF parser, Understood, Heard, UrlAhead, Listed, RaAhead, ClientAhead, TailAhead
<1>7. ParseSubversionHds \/ UNCHANGED parser
  BY DEF Next, vars, SubversionUriCanonicalize
<1> QED BY <1>5, <1>6, <1>7

LEMMA UnderstandingInvariant == Spec => []Understanding
BY UnderstandingInit, UnderstandingStep, BoundsInvariant, RoutingInvariant, PTL DEF Spec

\* A whole handshake is understood, whatever characters its strings are made of and
\* whichever optional items it leaves out: ParseSubversionHds finds version, capabilities,
\* URL and ra-client, and refuses none.
THEOREM HandshakeUnderstood == Spec => []WholeUnderstood
<1>1. ASSUME Bounds, Understanding PROVE WholeUnderstood
  <2> SUFFICES ASSUME Whole, ret # Running
      PROVE /\ ret = 0
            /\ hds.protocol = sent.of.version /\ hds.mCapabilities = sent.of.caps
            /\ hds.subversionURL = Url(sent.of.url) /\ hds.userAgent = sent.of.ra
    BY DEF WholeUnderstood
  <2>1. ret = 0
    BY <1>1 DEF Understanding, Understood
  <2>2. hds = Told(sent.of, Url(sent.of.url), sent.of.ra)
    BY <1>1, <2>1 DEF Understanding, Understood
  <2> QED BY <2>1, <2>2 DEF Told
<1> QED BY <1>1, BoundsInvariant, UnderstandingInvariant, PTL

=============================================================================
