------------------------ MODULE RouterSeletor_proofs ------------------------
(***************************************************************************)
(* Proofs about RouterSeletor, for every router.toml and every owner.      *)
(***************************************************************************)
EXTENDS RouterSeletor, SequenceTheorems, WellFoundedInduction, TLAPS

\* The characters of ASCII.
Character == 0..127

\* The conversion to uint16_t stays in range, and changes nothing that fits.
LEMMA Uint16Range ==
  ASSUME NEW n \in Int
  PROVE  uint16(n) \in UInt16
BY DEF uint16, UInt16, kWidth

LEMMA Uint16Fits ==
  ASSUME NEW n \in UInt16
  PROVE  uint16(n) = n
BY DEF uint16, UInt16, kWidth

\* Two 7 bit characters fit into 16 bits, and the numbers the code makes of them
\* are ordered as the names are.
LEMMA PairFits ==
  ASSUME NEW a \in Character, NEW b \in Character
  PROVE  uint16(a * kRadix + b) = a * kRadix + b
<1>1. a * kRadix + b \in Int
  BY DEF kRadix, Character
<1>2. 0 <= a * kRadix + b /\ a * kRadix + b < kWidth
  BY DEF kRadix, kWidth, Character
<1> DEFINE n == a * kRadix + b
<1>3. n \in UInt16
  BY <1>1, <1>2 DEF UInt16
<1> HIDE DEF n
<1> QED
  BY <1>3, Uint16Fits DEF n

LEMMA PairOrder ==
  ASSUME NEW a \in Character, NEW b \in Character,
         NEW c \in Character, NEW d \in Character
  PROVE  a * kRadix + b <= c * kRadix + d <=> a < c \/ (a = c /\ b <= d)
BY DEF kRadix, Character

\* A key that is present has one of its values, a missing one the default.
LEMMA GivenType ==
  ASSUME NEW S, NEW key \in SUBSET S, NEW default \in S
  PROVE  Given(key, default) \in S
<1>1. CASE key = {}
  BY <1>1 DEF Given
<1>2. CASE key # {}
  <2>1. PICK v : v \in key
    BY <1>2
  <2>2. (CHOOSE w \in key : TRUE) \in key
    BY <2>1
  <2> QED
    BY <1>2, <2>2 DEF Given
<1> QED
  BY <1>1, <1>2

\* The largest element of a set of numbers that has one.
LEMMA GreatestIs ==
  ASSUME NEW S \in SUBSET Int, NEW m \in S, \A j \in S : j <= m
  PROVE  Greatest(S) = m
<1>1. Greatest(S) \in S /\ \A j \in S : j <= Greatest(S)
  BY DEF Greatest
<1>2. m <= Greatest(S) /\ Greatest(S) <= m
  BY <1>1
<1>3. m \in Int /\ Greatest(S) \in Int
  BY <1>1
<1> QED
  BY <1>2, <1>3

LEMMA LeastIs ==
  ASSUME NEW S \in SUBSET Int, NEW m \in S, \A j \in S : m <= j
  PROVE  Least(S) = m
<1>1. Least(S) \in S /\ \A j \in S : Least(S) <= j
  BY DEF Least
<1>2. m <= Least(S) /\ Least(S) <= m
  BY <1>1
<1>3. m \in Int /\ Least(S) \in Int
  BY <1>1
<1> QED
  BY <1>2, <1>3

\* A set of one number.
LEMMA GreatestOfOne ==
  ASSUME NEW m \in Int
  PROVE  Greatest({m}) = m
BY GreatestIs

-----------------------------------------------------------------------------
(* RangeToIndex reads a range as the ReadMe writes it *)

\* A range without a tilde.
LEMMA EndsOfName ==
  ASSUME NEW range \in Seq(Byte), Len(range) <= 2,
         \A i \in DOMAIN range : range[i] # Tilde
  PROVE  Ends(range) = [k \in 0..3 |-> IF k < 2 THEN Padded(range, Dash)[k + 1]
                                        ELSE Padded(range, Zed)[k - 1]]
<1>a. Len(range) \in Nat
  OBVIOUS
<1>b. Read(range) = Len(range)
  BY <1>a DEF Read
<1>1. Read(range) = Len(range) /\ Len(range) \in 0..2
  BY <1>a, <1>b
<1>2. \A i \in 1..Len(range) : range[i] # Tilde
  OBVIOUS
<1>3. \A i \in 1..Len(range) : Place(range, i) = i - 1
  <2> TAKE i \in 1..Len(range)
  <2>1. {t \in 1..(i - 1) : range[t] = Tilde} = {}
    BY <1>2, <1>1
  <2> QED
    BY <2>1 DEF Place
<1>4. \A k \in 0..3 :
        Stored(range, k) = IF k + 1 <= Len(range) THEN {k + 1} ELSE {}
  BY <1>1, <1>2, <1>3 DEF Stored
<1>5. \A k \in 0..3 : Looped(range, k) = IF k + 1 <= Len(range) THEN range[k + 1]
                                          ELSE IF k < 2 THEN Dash ELSE Zed
  <2> TAKE k \in 0..3
  <2>1. CASE k + 1 <= Len(range)
    <3>1. Stored(range, k) = {k + 1}
      BY <1>4, <2>1
    <3>2. Greatest({k + 1}) = k + 1
      BY GreatestOfOne
    <3> QED
      BY <2>1, <3>1, <3>2 DEF Looped
  <2>2. CASE ~(k + 1 <= Len(range))
    BY <1>4, <2>2 DEF Looped
  <2> QED
    BY <2>1, <2>2
<1>6. \A k \in 0..3 : Ends(range)[k] = IF k < 2 THEN Padded(range, Dash)[k + 1]
                                        ELSE Padded(range, Zed)[k - 1]
  <2> TAKE k \in 0..3
  <2>1. CASE k < 2
    BY <2>1, <1>1, <1>5 DEF Ends, Padded
  <2>2. CASE k >= 2
    BY <2>2, <1>1, <1>2, <1>5 DEF Ends, Padded
  <2> QED
    BY <2>1, <2>2
<1> QED
  BY <1>6 DEF Ends

\* A range with its tilde at t.
LEMMA EndsOfSplit ==
  ASSUME NEW range \in Seq(Byte), NEW t \in DOMAIN range,
         t <= 3, Len(range) <= t + 2
  PROVE  (\A i \in DOMAIN range : range[i] = Tilde <=> i = t) =>
           Ends(range) =
             [k \in 0..3 |->
                IF k < 2 THEN Padded(SubSeq(range, 1, t - 1), Dash)[k + 1]
                ELSE Padded(SubSeq(range, t + 1, Len(range)), Zed)[k - 1]]
<1>a. Len(range) \in Nat /\ t \in 1..Len(range)
  OBVIOUS
<1>b. Len(range) < 5 \/ Len(range) = 5
  <2>1. \A n, m \in Int : m <= 3 /\ n <= m + 2 => n < 5 \/ n = 5
    OBVIOUS
  <2>2. t \in Int /\ Len(range) \in Int
    BY <1>a
  <2> QED
    BY <2>1, <2>2
<1>c. Read(range) = Len(range)
  BY <1>b DEF Read
<1>1. Read(range) = Len(range) /\ Len(range) \in 1..5 /\ t \in 1..3 /\ t <= Len(range)
  BY <1>a, <1>c
<1> HAVE \A i \in DOMAIN range : range[i] = Tilde <=> i = t
<1>2. \A i \in 1..Len(range) : range[i] = Tilde <=> i = t
  OBVIOUS
<1>3. \A i \in 1..Len(range) :
        i # t => Place(range, i) = IF i < t THEN i - 1 ELSE i - t + 1
  <2> SUFFICES ASSUME NEW i \in 1..Len(range), i # t
               PROVE  Place(range, i) = IF i < t THEN i - 1 ELSE i - t + 1
    OBVIOUS
  <2>1. CASE i < t
    <3>1. {s \in 1..(i - 1) : range[s] = Tilde} = {}
      BY <1>1, <1>2, <2>1
    <3> QED
      BY <2>1, <3>1 DEF Place
  <2>2. CASE i > t
    <3>1. {s \in 1..(i - 1) : range[s] = Tilde} = {t}
      BY <1>1, <1>2, <2>2
    <3>2. Greatest({t}) = t
      BY <1>1, GreatestOfOne
    <3>3. Place(range, i) = i - Greatest({t}) + 1
      BY <3>1 DEF Place
    <3> QED
      BY <2>2, <3>2, <3>3, <1>1
  <2> QED
    BY <2>1, <2>2, <1>1
<1>4. \A k \in 0..3 :
        LET j == IF k < 2 THEN k + 1 ELSE k + t - 1
        IN Stored(range, k) =
             IF j <= Len(range) /\ (k < 2 => j < t) THEN {j} ELSE {}
  <2> TAKE k \in 0..3
  <2> DEFINE j == IF k < 2 THEN k + 1 ELSE k + t - 1
  <2>1. \A i \in 1..Len(range) :
          i # t /\ Place(range, i) = k <=> i = j /\ (k < 2 => j < t)
    BY <1>1, <1>3
  <2> QED
    BY <1>1, <1>2, <2>1 DEF Stored
<1>5. \A k \in 0..3 :
        LET j == IF k < 2 THEN k + 1 ELSE k + t - 1
        IN Looped(range, k) =
             IF j <= Len(range) /\ (k < 2 => j < t) THEN range[j]
             ELSE IF k < 2 THEN Dash ELSE Zed
  <2> TAKE k \in 0..3
  <2> DEFINE j == IF k < 2 THEN k + 1 ELSE k + t - 1
  <2>1. CASE j <= Len(range) /\ (k < 2 => j < t)
    <3>1. Stored(range, k) = {j}
      BY <1>4, <2>1
    <3>2. j \in Int
      BY <1>1
    <3>3. Greatest({j}) = j
      BY <3>2, GreatestOfOne
    <3> QED
      BY <2>1, <3>1, <3>3 DEF Looped
  <2>2. CASE ~(j <= Len(range) /\ (k < 2 => j < t))
    <3>1. Stored(range, k) = {}
      BY <1>4, <2>2
    <3> QED
      BY <2>2, <3>1 DEF Looped
  <2> QED
    BY <2>1, <2>2
<1>6. \A k \in 0..3 : Ends(range)[k] = Looped(range, k)
  BY <1>1, <1>2 DEF Ends
<1>7. \A k \in 0..1 :
        Padded(SubSeq(range, 1, t - 1), Dash)[k + 1] = Looped(range, k)
  BY <1>1, <1>5 DEF Padded
<1>8. \A k \in 2..3 :
        Padded(SubSeq(range, t + 1, Len(range)), Zed)[k - 1] = Looped(range, k)
  <2> TAKE k \in 2..3
  <2> DEFINE s == SubSeq(range, t + 1, Len(range))
  <2>1. Len(s) = Len(range) - t
    BY <1>1
  <2>2. \A m \in 1..Len(s) : s[m] = range[t + m]
    BY <1>1, <2>1, SMTT(20)
  <2>3. \A q : Padded(q, Zed)[k - 1] = IF k - 1 <= Len(q) THEN q[k - 1] ELSE Zed
    BY DEF Padded
  <2>4. Looped(range, k) = IF k + t - 1 <= Len(range) THEN range[k + t - 1] ELSE Zed
    BY <1>1, <1>5
  <2> HIDE DEF s
  <2>5. k - 1 <= Len(s) => s[k - 1] = range[k + t - 1]
    <3>1. t + (k - 1) = k + t - 1
      BY <1>1
    <3>2. k - 1 <= Len(s) => k - 1 \in 1..Len(s)
      BY <1>1, <2>1
    <3> QED
      BY <2>2, <3>1, <3>2
  <2>6. k - 1 <= Len(s) <=> k + t - 1 <= Len(range)
    BY <1>1, <2>1
  <2>7. Padded(s, Zed)[k - 1] = Looped(range, k)
    <3>1. CASE k - 1 <= Len(s)
      BY <3>1, <2>3, <2>4, <2>5, <2>6, Zenon
    <3>2. CASE ~(k - 1 <= Len(s))
      BY <3>2, <2>3, <2>4, <2>6, Zenon
    <3> QED
      BY <3>1, <3>2
  <2> QED
    BY <2>7 DEF s
<1>9. \A k \in 0..3 : k < 2 => k \in 0..1
  OBVIOUS
<1>10. \A k \in 0..3 : ~(k < 2) => k \in 2..3
  OBVIOUS
<1> QED
  BY <1>6, <1>7, <1>8, <1>9, <1>10 DEF Ends

-----------------------------------------------------------------------------
(* Types *)

\* Every set of natural numbers but the empty one has a least element.
LEMMA LeastIn ==
  ASSUME NEW S \in SUBSET Nat, S # {}
  PROVE  Least(S) \in S
<1>1. PICK m \in S : \A y \in S : <<y, m>> \notin OpToRel(<, Nat)
  BY NatLessThanWellFounded, WFMin
<1>2. \A y \in S : ~(y < m)
  BY <1>1 DEF OpToRel
<1>3. \A y \in S : m <= y
  BY <1>2
<1> QED
  BY <1>3 DEF Least

\* Every set of places in a range but the empty one has a greatest element.
LEMMA GreatestIn ==
  ASSUME NEW S \in SUBSET (1..5), S # {}
  PROVE  Greatest(S) \in S
<1>1. \E m \in S : \A j \in S : j <= m
  <2>1. CASE 5 \in S
    BY <2>1
  <2>2. CASE 5 \notin S /\ 4 \in S
    BY <2>2
  <2>3. CASE 5 \notin S /\ 4 \notin S /\ 3 \in S
    BY <2>3
  <2>4. CASE 5 \notin S /\ 4 \notin S /\ 3 \notin S
    <3>1. CASE 2 \in S
      BY <2>4, <3>1
    <3>2. CASE 2 \notin S
      <4>1. \A j \in S : j = 1
        BY <2>4, <3>2
      <4>2. 1 \in S
        BY <4>1
      <4> QED
        BY <4>1, <4>2
    <3> QED
      BY <3>1, <3>2
  <2> QED
    BY <2>1, <2>2, <2>3, <2>4
<1> QED
  BY <1>1 DEF Greatest

\* The ends of a range are characters of the range, or a dash or a z.
LEMMA EndsType ==
  ASSUME NEW B, Dash \in B, Zed \in B, NEW range \in Seq(B), NEW k \in 0..3
  PROVE  Ends(range)[k] \in B
<1>a. Len(range) \in Nat
  OBVIOUS
<1>1. Read(range) \in 0..5 /\ Read(range) <= Len(range)
  <2>1. CASE Len(range) < 5
    <3>1. Read(range) = Len(range)
      BY <2>1 DEF Read
    <3> QED
      BY <1>a, <2>1, <3>1
  <2>2. CASE ~(Len(range) < 5)
    <3>1. Read(range) = 5
      BY <2>2 DEF Read
    <3> QED
      BY <1>a, <2>2, <3>1
  <2> QED
    BY <2>1, <2>2
<1>2. Looped(range, k) \in B
  <2>1. CASE Stored(range, k) # {}
    <3>1. Stored(range, k) \in SUBSET (1..5)
      BY <1>1 DEF Stored
    <3>2. Greatest(Stored(range, k)) \in Stored(range, k)
      BY <3>1, <2>1, GreatestIn
    <3>3. Greatest(Stored(range, k)) \in 1..Len(range)
      BY <3>2, <1>1 DEF Stored
    <3> QED
      BY <2>1, <3>3 DEF Looped
  <2>2. CASE Stored(range, k) = {}
    BY <2>2 DEF Looped
  <2> QED
    BY <2>1, <2>2
<1>3. Read(range) \in 1..2 /\ k \in 2..(Read(range) + 1) => range[k - 1] \in B
  BY <1>1
<1> QED
  BY <1>2, <1>3 DEF Ends

\* What InitializeManager makes of an entry.
Element == [begin : UInt16, end : UInt16, address : Addresses, port : UInt16,
            enabled : BOOLEAN]

LEMMA HostElementType ==
  ASSUME NEW t \in ContentType
  PROVE  HostElement(t) \in Element
<1>a. t.range \in SUBSET Seq(Byte) /\ t.address \in SUBSET Addresses
  BY DEF ContentType
<1>b. <<>> \in Seq(Byte)
  OBVIOUS
<1>c. "" \in Addresses
  BY RouterAssumption, Zenon
<1>1. Given(t.range, <<>>) \in Seq(Byte)
  BY <1>a, <1>b, GivenType, Zenon
<1>2. Given(t.address, "") \in Addresses
  BY <1>a, <1>c, GivenType, Zenon
<1>3. Given(t.port, kPort) \in Int
  BY GivenType DEF ContentType, kPort
<1>4. Given(t.enable, TRUE) \in BOOLEAN
  BY GivenType DEF ContentType
<1> DEFINE in == Ends(Given(t.range, <<>>))
<1>5. in[0] \in Byte /\ in[1] \in Byte /\ in[2] \in Byte /\ in[3] \in Byte
  <2>1. Dash \in Byte /\ Zed \in Byte
    BY DEF Dash, Zed, Byte
  <2> QED
    BY <1>1, <2>1, EndsType
<1> HIDE DEF in
<1>6. in[0] * kRadix + in[1] \in Int /\ in[2] * kRadix + in[3] \in Int
  <2>1. \A x, y \in Byte : x * kRadix + y \in Int
    BY DEF Byte, kRadix
  <2> QED
    BY <1>5, <2>1
<1>7. uint16(in[0] * kRadix + in[1]) \in UInt16 /\ uint16(in[2] * kRadix + in[3]) \in UInt16
  BY <1>6, Uint16Range
<1>8. uint16(Given(t.port, kPort)) \in UInt16
  BY <1>3, Uint16Range
<1> DEFINE a == Given(t.address, "")
           p == uint16(Given(t.port, kPort))
           e == Given(t.enable, TRUE)
           b == uint16(in[0] * kRadix + in[1])
           z == uint16(in[2] * kRadix + in[3])
           r == RangeToIndex(Given(t.range, <<>>))
<1>9. r.begin = b /\ r.end = z
  BY DEF RangeToIndex, in
<1>10. HostElement(t) =
         [begin |-> r.begin, end |-> r.end, address |-> a, port |-> p, enabled |-> e]
  BY DEF HostElement
<1>11. b \in UInt16 /\ z \in UInt16
  BY <1>7
<1>12. a \in Addresses
  BY <1>2, Zenon
<1>14. p \in UInt16
  BY <1>8, Zenon
<1>13. e \in BOOLEAN
  BY <1>4
<1> HIDE DEF a, p, e, b, z, r
<1> QED
  BY <1>9, <1>10, <1>11, <1>12, <1>13, <1>14 DEF Element

LEMMA HostElementFields ==
  ASSUME NEW t
  PROVE  LET e == HostElement(t)
             r == RangeToIndex(Given(t.range, <<>>))
         IN /\ e.begin = r.begin /\ e.end = r.end
            /\ e.address = Given(t.address, "")
            /\ e.port = uint16(Given(t.port, kPort))
            /\ e.enabled = Given(t.enable, TRUE)
<1> DEFINE r == RangeToIndex(Given(t.range, <<>>))
           a == Given(t.address, "")
           p == uint16(Given(t.port, kPort))
           e == Given(t.enable, TRUE)
<1>1. HostElement(t) =
        [begin |-> r.begin, end |-> r.end, address |-> a, port |-> p, enabled |-> e]
  BY DEF HostElement
<1> HIDE DEF r, a, p, e
<1>2. /\ HostElement(t).begin = r.begin /\ HostElement(t).end = r.end
      /\ HostElement(t).address = a /\ HostElement(t).port = p
      /\ HostElement(t).enabled = e
  BY <1>1
<1> QED
  BY <1>2 DEF r, a, p, e

-----------------------------------------------------------------------------
(* The inductive invariant *)

\* A table in use is what InitializeManager made of the file, and an answer is
\* what GetAddress made of that table.
Loaded ==
  /\ defaultElement_ = Given(file.address, kAddress)
  /\ defaultPort_ = uint16(Given(file.port, kPort))
  /\ hostElement_ = [i \in Usable(file) |-> HostElement(file.content[i])]

Answered ==
  /\ phase = "ready" /\ owner \in Owners /\ Len(owner) >= 2
  /\ elem = Chosen(OwnerIndex(owner))

RouterInv ==
  /\ TypeOK
  /\ phase = "ready" => Loaded
  /\ found => Answered
  /\ DOMAIN hostElement_ \subseteq Nat

LEMMA ChosenType ==
  ASSUME TypeOK, DOMAIN hostElement_ \subseteq Nat, NEW n
  PROVE  Chosen(n) \in StorageElement
<1>1. CASE Matches(n) = {}
  BY <1>1 DEF Chosen, TypeOK, StorageElement
<1>2. CASE Matches(n) # {}
  <2>1. Least(Matches(n)) \in Matches(n)
    BY <1>2, LeastIn DEF Matches
  <2>2. Least(Matches(n)) \in DOMAIN hostElement_
    BY <2>1 DEF Matches
  <2> QED
    BY <1>2, <2>2 DEF Chosen, TypeOK, StorageElement
<1> QED
  BY <1>1, <1>2

\* The table InitializeManager builds is well typed.
LEMMA LoadedType ==
  ASSUME file \in Files
  PROVE  /\ Given(file.address, kAddress) \in Addresses
         /\ uint16(Given(file.port, kPort)) \in UInt16
         /\ \A i \in Usable(file) : HostElement(file.content[i]) \in Element
         /\ Usable(file) \subseteq Nat
<1>1. file \in FileType
  BY RouterAssumption
<1>a. file.address \in SUBSET Addresses
  BY <1>1 DEF FileType
<1>b. kAddress \in Addresses
  BY RouterAssumption, Zenon
<1>2. Given(file.address, kAddress) \in Addresses
  BY <1>a, <1>b, GivenType, Zenon
<1>3. Given(file.port, kPort) \in Int
  BY <1>1, GivenType DEF FileType, kPort
<1>4. \A i \in DOMAIN file.content : file.content[i] \in ContentType /\ i \in Nat
  BY <1>1 DEF FileType
<1> QED
  BY <1>2, <1>3, <1>4, Uint16Range, HostElementType DEF Usable

LEMMA NoElementType ==
  /\ "" \in Addresses /\ 0 \in UInt16
  /\ [address |-> "", port |-> 0] \in StorageElement
<1>1. "" \in Addresses
  BY RouterAssumption, Zenon
<1>2. 0 \in UInt16
  BY DEF UInt16, kWidth
<1> QED
  BY <1>1, <1>2 DEF StorageElement

LEMMA RouterInit == Init => RouterInv
<1> SUFFICES ASSUME Init PROVE RouterInv
  OBVIOUS
<1>1. elem \in StorageElement
  BY NoElementType DEF Init
<1>2. DOMAIN hostElement_ = {}
  <2>1. hostElement_ = <<>>
    BY DEF Init
  <2> QED
    BY <2>1
<1>3. defaultElement_ \in Addresses /\ defaultPort_ \in UInt16
  BY NoElementType DEF Init
<1>4. TypeOK
  BY <1>1, <1>2, <1>3 DEF Init, TypeOK
<1> QED
  BY <1>2, <1>4 DEF Init, RouterInv

LEMMA RouterStep == RouterInv /\ [Next]_vars => RouterInv'
<1> SUFFICES ASSUME RouterInv, [Next]_vars PROVE RouterInv'
  OBVIOUS
<1>1. CASE InitializeManager
  <2>1. /\ file' = file /\ owner' = owner /\ elem' = elem /\ found' = found
        /\ ~found /\ phase = "start"
    BY <1>1 DEF InitializeManager, RouterInv, Answered
  <2>2. CASE ~file.parses
    <3>1. phase' = "refused" /\ UNCHANGED <<hostElement_, defaultElement_, defaultPort_>>
      BY <1>1, <2>2 DEF InitializeManager
    <3> QED
      BY <2>1, <3>1 DEF RouterInv, TypeOK
  <2>3. CASE file.parses
    <3>1. Loaded' /\ phase' \in {"ready", "refused"}
      BY <1>1, <2>1, <2>3 DEF InitializeManager, Loaded
    <3>2. hostElement_' = [i \in Usable(file) |-> HostElement(file.content[i])]
      BY <1>1, <2>3 DEF InitializeManager
    <3>3. defaultElement_' = Given(file.address, kAddress)
          /\ defaultPort_' = uint16(Given(file.port, kPort))
      BY <1>1, <2>3 DEF InitializeManager
    <3>4. file \in Files
      BY DEF RouterInv, TypeOK
    <3>5. DOMAIN hostElement_' \subseteq Nat
          /\ \A i \in DOMAIN hostElement_' : hostElement_'[i] \in Element
      BY <3>2, <3>4, LoadedType
    <3>6. defaultElement_' \in Addresses /\ defaultPort_' \in UInt16
      BY <3>3, <3>4, LoadedType
    <3>7. TypeOK'
      BY <2>1, <3>1, <3>5, <3>6 DEF RouterInv, TypeOK, Element
    <3> QED
      BY <2>1, <3>1, <3>5, <3>7 DEF RouterInv
  <2> QED
    BY <2>2, <2>3
<1>2. ASSUME NEW o \in Owners, GetAddress(o) PROVE RouterInv'
  <2>1. UNCHANGED <<file, phase, hostElement_, defaultElement_, defaultPort_>>
        /\ owner' = o /\ phase = "ready"
    BY <1>2 DEF GetAddress
  <2>2. Chosen(OwnerIndex(o))' = Chosen(OwnerIndex(o))
    BY <2>1 DEF Chosen, Matches
  <2>3. Chosen(OwnerIndex(o)) \in StorageElement
    BY ChosenType DEF RouterInv
  <2>4. [address |-> "", port |-> 0] \in StorageElement
    BY NoElementType
  <2>5. elem' \in StorageElement /\ found' \in BOOLEAN
    BY <1>2, <2>3, <2>4 DEF GetAddress
  <2>6. found' => Len(o) >= 2 /\ elem' = Chosen(OwnerIndex(o))
    <3>1. o \in Seq(Byte)
      BY RouterAssumption, Zenon
    <3>2. Len(o) \in Nat
      BY <3>1
    <3> QED
      BY <1>2, <3>2 DEF GetAddress
  <2>7. TypeOK'
    BY <2>1, <2>5 DEF RouterInv, TypeOK
  <2>8. found' => Answered'
    BY <2>1, <2>6 DEF Answered, Chosen, Matches, OwnerIndex
  <2>9. phase' = "ready" => Loaded'
    BY <2>1 DEF RouterInv, Loaded, Usable
  <2> QED
    BY <2>1, <2>7, <2>8, <2>9 DEF RouterInv
<1>3. CASE UNCHANGED vars
  BY <1>3 DEF vars, RouterInv, TypeOK, Loaded, Answered, Chosen, Matches, Usable
<1> QED
  BY <1>1, <1>2, <1>3 DEF Next

\* The table and the answers are what InitializeManager and GetAddress make of
\* router.toml.
THEOREM RouterInvariant == Spec => []RouterInv
<1> QED
  BY RouterInit, RouterStep, PTL DEF Spec

\* Every variable of the router keeps the type of its C++ variable; in particular
\* every port and every end of a range is a uint16_t.
THEOREM RouterTypeCorrect == Spec => []TypeOK
<1>1. RouterInv => TypeOK
  BY DEF RouterInv
<1> QED
  BY <1>1, RouterInvariant, PTL

-----------------------------------------------------------------------------
(* Routing *)

\* The ends RangeToIndex finds in a well formed range are the two names.
LEMMA EndsOfRange ==
  ASSUME NEW range \in Seq(Byte), WellFormed(range)
  PROVE  Ends(range) =
           [k \in 0..3 |-> IF k < 2 THEN Padded(Lower(range), Dash)[k + 1]
                           ELSE Padded(Upper(range), Zed)[k - 1]]
<1>1. CASE Len(range) <= 2 /\ \A i \in DOMAIN range : range[i] # Tilde
  <2>1. Lower(range) = range /\ Upper(range) = range
    BY <1>1 DEF Lower, Upper
  <2> QED
    BY <1>1, <2>1, EndsOfName
<1>2. ASSUME NEW t \in DOMAIN range, t <= 3, Len(range) <= t + 2,
             \A i \in DOMAIN range : range[i] = Tilde <=> i = t
      PROVE  Ends(range) =
               [k \in 0..3 |-> IF k < 2 THEN Padded(Lower(range), Dash)[k + 1]
                               ELSE Padded(Upper(range), Zed)[k - 1]]
  <2>1. (CHOOSE s \in DOMAIN range : range[s] = Tilde) = t
    BY <1>2
  <2>2. \E s \in DOMAIN range : range[s] = Tilde
    BY <1>2
  <2>3. /\ Lower(range) = SubSeq(range, 1, t - 1)
        /\ Upper(range) = SubSeq(range, t + 1, Len(range))
    BY <2>1, <2>2 DEF Lower, Upper
  <2> QED
    BY <1>2, <2>3, EndsOfSplit
<1> QED
  BY <1>1, <1>2 DEF WellFormed

\* The number of an owner and the numbers of an interval, character by character.
LEMMA PairCovers ==
  ASSUME NEW a \in Character, NEW b \in Character, NEW c \in Character, NEW d \in Character,
         NEW x \in Character, NEW y \in Character
  PROVE  LET n == uint16(uint16(AsInt(x)) * kRadix + AsInt(y)) IN
         /\ uint16(a * kRadix + b) <= n <=> a < x \/ (a = x /\ b <= y)
         /\ n <= uint16(c * kRadix + d) <=> x < c \/ (x = c /\ y <= d)
<1>1. AsInt(x) = x /\ AsInt(y) = y
  BY DEF AsInt, Character
<1>2. uint16(x) = x
  <2>1. x \in UInt16
    BY DEF UInt16, kWidth, Character
  <2> QED
    BY <2>1, Uint16Fits
<1>3. /\ uint16(a * kRadix + b) = a * kRadix + b
      /\ uint16(c * kRadix + d) = c * kRadix + d
      /\ uint16(x * kRadix + y) = x * kRadix + y
  BY PairFits
<1>4. a * kRadix + b <= x * kRadix + y <=> a < x \/ (a = x /\ b <= y)
  BY PairOrder
<1>5. x * kRadix + y <= c * kRadix + d <=> x < c \/ (x = c /\ y <= d)
  BY PairOrder
<1> QED
  BY <1>1, <1>2, <1>3, <1>4, <1>5

\* The characters of ASCII texts.
LEMMA AsciiType ==
  ASSUME NEW s \in Seq(Byte), Ascii(s)
  PROVE  s \in Seq(Character)
<1>1. \A c \in Byte : c < 128 => c \in Character
  BY DEF Byte, Character
<1>2. \A i \in 1..Len(s) : s[i] \in Byte /\ s[i] < 128
  BY DEF Ascii
<1>3. \A i \in 1..Len(s) : s[i] \in Character
  BY <1>1, <1>2
<1>4. s = [i \in 1..Len(s) |-> s[i]] /\ Len(s) \in Nat
  OBVIOUS
<1>5. s \in [1..Len(s) -> Character]
  BY <1>3, <1>4
<1>6. \E n \in Nat : s \in [1..n -> Character]
  BY <1>4, <1>5
<1> QED
  BY <1>6, SeqDef

\* An interval of numbers holds the number of an ASCII owner exactly if the range
\* holds its name.
LEMMA CoversIsInRange ==
  ASSUME NEW range \in Seq(Byte), WellFormed(range),
         NEW o \in Seq(Byte), Len(o) >= 2, Ascii(o)
  PROVE  /\ RangeToIndex(range).begin <= OwnerIndex(o)
         /\ OwnerIndex(o) <= RangeToIndex(range).end
         <=> InRange(range, o)
<1> DEFINE in == Ends(range)
           l == Padded(Lower(range), Dash)
           u == Padded(Upper(range), Zed)
<1>1. in[0] = l[1] /\ in[1] = l[2] /\ in[2] = u[1] /\ in[3] = u[2]
  BY EndsOfRange
<1>2. in[0] \in Character /\ in[1] \in Character /\ in[2] \in Character /\ in[3] \in Character
  <2>1. range \in Seq(Character)
    BY AsciiType DEF WellFormed
  <2>2. Dash \in Character /\ Zed \in Character
    BY DEF Dash, Zed, Character
  <2>3. \A k \in 0..3 : Ends(range)[k] \in Character
    BY <2>1, <2>2, EndsType
  <2> QED
    BY <2>3
<1>3. o[1] \in Character /\ o[2] \in Character
  <2>1. o \in Seq(Character)
    BY AsciiType
  <2>2. Len(o) \in Nat
    OBVIOUS
  <2>3. 1 \in 1..Len(o) /\ 2 \in 1..Len(o)
    BY <2>2
  <2> QED
    BY <2>1, <2>3, ElementOfSeq
<1> HIDE DEF in, l, u
<1>4. /\ RangeToIndex(range).begin = uint16(in[0] * kRadix + in[1])
      /\ RangeToIndex(range).end = uint16(in[2] * kRadix + in[3])
  BY DEF RangeToIndex, in
<1>5. /\ RangeToIndex(range).begin <= OwnerIndex(o)
         <=> in[0] < o[1] \/ (in[0] = o[1] /\ in[1] <= o[2])
      /\ OwnerIndex(o) <= RangeToIndex(range).end
         <=> o[1] < in[2] \/ (o[1] = in[2] /\ o[2] <= in[3])
  <2>1. OwnerIndex(o) = uint16(uint16(AsInt(o[1])) * kRadix + AsInt(o[2]))
    BY DEF OwnerIndex
  <2> DEFINE a == in[0]
             b == in[1]
             c == in[2]
             d == in[3]
             x == o[1]
             y == o[2]
             n == uint16(uint16(AsInt(x)) * kRadix + AsInt(y))
  <2>2. /\ a \in Character /\ b \in Character /\ c \in Character
        /\ d \in Character /\ x \in Character /\ y \in Character
    BY <1>2, <1>3
  <2> HIDE DEF a, b, c, d, x, y
  <2>3. /\ uint16(a * kRadix + b) <= n <=> a < x \/ (a = x /\ b <= y)
        /\ n <= uint16(c * kRadix + d) <=> x < c \/ (x = c /\ y <= d)
    BY <2>2, PairCovers
  <2> QED
    BY <1>4, <2>1, <2>3 DEF a, b, c, d, x, y
<1> QED
  BY <1>1, <1>5 DEF InRange, Precedes, l, u

\* An owner is sent to the first enabled entry of router.toml whose range holds
\* its name, in alphabetical order, or to the default machine: RangeToIndex,
\* InitializeManager and GetAddress together do what the ReadMe says of a table.
THEOREM RoutesByName == Spec => []RoutedByName
<1>1. RouterInv => RoutedByName
  <2> SUFFICES ASSUME RouterInv, found, Ascii(owner),
                      \A i \in Usable(file) : WellFormed(Given(file.content[i].range, <<>>))
               PROVE  RoutedByName
    BY DEF RoutedByName
  <2> DEFINE n == OwnerIndex(owner)
  <2>1. Answered /\ Loaded /\ file \in Files
    BY DEF RouterInv, Answered, TypeOK
  <2>2. owner \in Seq(Byte) /\ Len(owner) >= 2 /\ elem = Chosen(n)
    BY <2>1, RouterAssumption DEF Answered
  <2>3. DOMAIN hostElement_ = Usable(file) /\ Usable(file) \subseteq Nat
    BY <2>1, LoadedType DEF Loaded
  <2>4. \A i \in Usable(file) :
          /\ hostElement_[i] = HostElement(file.content[i])
          /\ file.content[i] \in ContentType
    <3>1. file \in FileType
      BY <2>1, RouterAssumption
    <3> QED
      BY <2>1, <3>1 DEF Loaded, Usable, FileType
  <2>5. \A i \in Usable(file) :
          n >= hostElement_[i].begin /\ n <= hostElement_[i].end
          <=> InRange(Given(file.content[i].range, <<>>), owner)
    <3> SUFFICES ASSUME NEW i \in Usable(file)
                 PROVE  n >= hostElement_[i].begin /\ n <= hostElement_[i].end
                        <=> InRange(Given(file.content[i].range, <<>>), owner)
      OBVIOUS
    <3> DEFINE range == Given(file.content[i].range, <<>>)
    <3>1. range \in Seq(Byte)
      <4>1. file.content[i].range \in SUBSET Seq(Byte)
        BY <2>4 DEF ContentType
      <4>2. <<>> \in Seq(Byte)
        OBVIOUS
      <4> QED
        BY <4>1, <4>2, GivenType, Zenon
    <3>2. WellFormed(range)
      OBVIOUS
    <3>3. /\ hostElement_[i].begin = RangeToIndex(range).begin
          /\ hostElement_[i].end = RangeToIndex(range).end
      BY <2>4, HostElementFields
    <3>4. hostElement_[i] \in Element
      BY <2>4, HostElementType
    <3>5. hostElement_[i].begin \in Nat /\ hostElement_[i].end \in Nat
      BY <3>4 DEF Element, UInt16
    <3>6. n \in Int
      <4>1. \A c \in Byte : AsInt(c) \in Int
        BY DEF AsInt, Byte
      <4>2. owner[1] \in Byte /\ owner[2] \in Byte
        BY <2>2
      <4>3. AsInt(owner[1]) \in Int /\ AsInt(owner[2]) \in Int
        BY <4>1, <4>2
      <4>4. uint16(AsInt(owner[1])) \in Nat
        BY <4>3, Uint16Range DEF UInt16
      <4>5. uint16(AsInt(owner[1])) * kRadix + AsInt(owner[2]) \in Int
        BY <4>3, <4>4 DEF kRadix
      <4> QED
        BY <4>5, Uint16Range DEF OwnerIndex, UInt16
    <3>7. /\ RangeToIndex(range).begin <= n /\ n <= RangeToIndex(range).end
          <=> InRange(range, owner)
      BY <2>2, <3>1, <3>2, CoversIsInRange
    <3> QED
      BY <3>3, <3>5, <3>6, <3>7
  <2>6. \A i \in Usable(file) :
          hostElement_[i].enabled = Given(file.content[i].enable, TRUE)
    BY <2>4, HostElementFields
  <2>7. Matches(n) = Claims(owner)
    BY <2>3, <2>5, <2>6 DEF Matches, Claims
  <2>8. CASE Claims(owner) = {}
    BY <2>1, <2>2, <2>7, <2>8 DEF RoutedByName, Chosen, Loaded, uint16
  <2>9. CASE Claims(owner) # {}
    <3> DEFINE m == Least(Claims(owner))
    <3>1. m \in Usable(file)
      <4>1. Claims(owner) \in SUBSET Nat
        BY <2>3 DEF Claims
      <4>2. m \in Claims(owner)
        BY <2>9, <4>1, LeastIn
      <4> QED
        BY <4>2 DEF Claims
    <3>2. elem = [address |-> hostElement_[m].address, port |-> hostElement_[m].port]
      BY <2>2, <2>7, <2>9 DEF Chosen
    <3>3. /\ hostElement_[m].address = Given(file.content[m].address, "")
          /\ hostElement_[m].port = Given(file.content[m].port, kPort) % kWidth
      BY <2>4, <3>1, HostElementFields DEF uint16
    <3> QED
      BY <2>9, <3>2, <3>3 DEF RoutedByName
  <2> QED
    BY <2>8, <2>9
<1> QED
  BY <1>1, RouterInvariant, PTL
=============================================================================
