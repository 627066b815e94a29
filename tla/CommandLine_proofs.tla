------------------------- MODULE CommandLine_proofs -------------------------
(***************************************************************************)
(* What svnsrv makes of a command line, for every command line:            *)
(*                                                                         *)
(*   - it understands what the words say (OptionsUnderstood);              *)
(*   - the words end up in order (OperandsBehind);                         *)
(*   - it serves with the profile they select (ServesTheSelected).         *)
(*                                                                         *)
(* At every moment of the scan the words before optind are known to the    *)
(* reference reading, and the vector is those of them that are options,    *)
(* with the operands among them in one block somewhere (Laid, Spread):     *)
(* CInv says this of each place where the scan can stand.  permute_args is *)
(* in Getopt_proofs.  The lemmas whose names end in Step are the actions.  *)
(***************************************************************************)
EXTENDS CommandLine, TLAPS, FiniteSetTheorems, SequenceTheorems

GP == INSTANCE Getopt_proofs WITH ShortOpts <- {"?", "D", "c", "d", "h", "v", "q", "s"},
                                  WithArg <- {"c", "s"}, LongOpts <- longopts,
                                  behind <- IF world.windows THEN PastEnd ELSE {}

-----------------------------------------------------------------------------
(* The reference reading *)

Arg == [from : Nat, skip : Nat]

Knowledge ==
  [daemon : BOOLEAN, version : BOOLEAN, quiet : BOOLEAN, cfile : Arg, signame : Arg,
   usage : BOOLEAN, wants : {"", "c", "s"}, ended : BOOLEAN,
   taken : Seq(Nat), operands : Seq(Nat)]

LEMMA UnreadType == Unread \in Knowledge
BY DEF Unread, Knowledge, Arg, G!NoArg

LEMMA FlagsType ==
  ASSUME NEW o \in Knowledge, NEW S
  PROVE  Flags(o, S) \in Knowledge
BY DEF Flags, Knowledge

LEMMA ArgumentType ==
  ASSUME NEW o \in Knowledge, NEW c, NEW arg \in Arg
  PROVE  Argument(o, c, arg) \in Knowledge
BY DEF Argument, Knowledge

LEMMA LetterTaken ==
  ASSUME NEW n \in DOMAIN LetterOf, LetterOf[n] \in Wanting
  PROVE  LetterOf[n] \in {"", "c", "s"}
BY DEF Wanting

LEMMA WantsType ==
  ASSUME NEW o \in Knowledge, NEW c \in Wanting
  PROVE  [o EXCEPT !.wants = c] \in Knowledge
BY DEF Wanting, Knowledge

LEMMA UsageType ==
  ASSUME NEW o \in Knowledge
  PROVE  [o EXCEPT !.usage = TRUE] \in Knowledge
BY DEF Knowledge

LEMMA TakenType ==
  ASSUME NEW o \in Knowledge, NEW i \in Nat
  PROVE  /\ [o EXCEPT !.taken = Append(@, i)] \in Knowledge
         /\ [o EXCEPT !.operands = Append(@, i)] \in Knowledge
         /\ [o EXCEPT !.ended = TRUE] \in Knowledge
<1>1. o.taken \in Seq(Nat) /\ o.operands \in Seq(Nat)
  BY DEF Knowledge
<1>2. Append(o.taken, i) \in Seq(Nat) /\ Append(o.operands, i) \in Seq(Nat)
  BY <1>1
<1>3. \A q \in Seq(Nat) : /\ [o EXCEPT !.taken = q] \in Knowledge
                          /\ [o EXCEPT !.operands = q] \in Knowledge
  BY DEF Knowledge
<1>4. [o EXCEPT !.ended = TRUE] \in Knowledge
  BY DEF Knowledge
<1> QED BY <1>2, <1>3, <1>4

\* The first letter of a cluster that wants an argument.
FirstWanting(letters, k) ==
  /\ k \in DOMAIN letters /\ letters[k] \in Wanting
  /\ \A j \in DOMAIN letters : letters[j] \in Wanting => k <= j

LEMMA FirstIs ==
  ASSUME NEW letters \in Seq(STRING), NEW k, FirstWanting(letters, k)
  PROVE  LET W == {n \in DOMAIN letters : letters[n] \in Wanting}
         IN  k = CHOOSE n \in W : \A j \in W : n <= j
<1> DEFINE W == {n \in DOMAIN letters : letters[n] \in Wanting}
<1>1. W \subseteq Nat
  OBVIOUS
<1>2. k \in W /\ \A j \in W : k <= j
  BY DEF FirstWanting
<1>3. \A n \in W : (\A j \in W : n <= j) => n = k
  BY <1>1, <1>2
<1> HIDE DEF W
<1>4. k = CHOOSE n \in W : \A j \in W : n <= j
  BY <1>2, <1>3
<1> QED BY <1>4 DEF W

LEMMA FirstThere ==
  ASSUME NEW letters \in Seq(STRING),
         {n \in DOMAIN letters : letters[n] \in Wanting} # {}
  PROVE  \E k : FirstWanting(letters, k)
<1> DEFINE W == {n \in DOMAIN letters : letters[n] \in Wanting}
<1>1. W \subseteq Nat /\ W # {}
  OBVIOUS
<1>w. \A n : n \in W <=> n \in DOMAIN letters /\ letters[n] \in Wanting
  OBVIOUS
<1> HIDE DEF W
<1>2. PICK k \in W : \A j \in W : k <= j
  BY <1>1, GP!Least
<1> QED BY <1>2, <1>w DEF FirstWanting

Upto(letters, n) == {letters[j] : j \in 1 .. n}

\* A cluster, by its first letter that wants an argument.
LEMMA LettersRead ==
  ASSUME NEW o, NEW i, NEW letters \in Seq(STRING)
  PROVE  /\ (\A j \in DOMAIN letters : letters[j] \notin Wanting) =>
              ReadLetters(o, i, letters) = Flags(o, Upto(letters, Len(letters)))
         /\ \A k : FirstWanting(letters, k) =>
              ReadLetters(o, i, letters) =
                IF k < Len(letters)
                THEN Argument(Flags(o, Upto(letters, k - 1)), letters[k], [from |-> i, skip |-> k])
                ELSE [Flags(o, Upto(letters, k - 1)) EXCEPT !.wants = letters[k]]
<1> DEFINE W == {n \in DOMAIN letters : letters[n] \in Wanting}
<1>1. ASSUME \A j \in DOMAIN letters : letters[j] \notin Wanting
      PROVE  ReadLetters(o, i, letters) = Flags(o, Upto(letters, Len(letters)))
  <2>1. W = {}
    BY <1>1
  <2> QED BY <2>1, Zenon DEF ReadLetters, Upto
<1>2. ASSUME NEW k, FirstWanting(letters, k)
      PROVE  ReadLetters(o, i, letters) =
               IF k < Len(letters)
               THEN Argument(Flags(o, Upto(letters, k - 1)), letters[k], [from |-> i, skip |-> k])
               ELSE [Flags(o, Upto(letters, k - 1)) EXCEPT !.wants = letters[k]]
  <2>1. W # {}
    BY <1>2 DEF FirstWanting
  <2> DEFINE C == CHOOSE n \in W : \A j \in W : n <= j
  <2>2. k = C
    BY <1>2, FirstIs
  <2>3. ReadLetters(o, i, letters) =
          IF W = {} THEN Flags(o, Upto(letters, Len(letters)))
          ELSE IF C < Len(letters)
          THEN Argument(Flags(o, Upto(letters, C - 1)), letters[C], [from |-> i, skip |-> C])
          ELSE [Flags(o, Upto(letters, C - 1)) EXCEPT !.wants = letters[C]]
    BY Zenon DEF ReadLetters, Upto
  <2> HIDE DEF W, C
  <2> QED BY <2>1, <2>2, <2>3
<1> QED BY <1>1, <1>2, Zenon

LEMMA WordIs ==
  ASSUME NEW w \in Words
  PROVE  /\ w.kind \in {"short", "long", "end", "operand"}
         /\ w.kind = "short" => w.letters \in Seq(STRING) /\ w.letters # <<>>
         /\ w.kind = "long" => w.name \in DOMAIN Begins /\ w.tail \in BOOLEAN
<1>1. CASE w \in [kind : {"short"}, letters : Seq(STRING) \ {<<>>}]
  BY <1>1
<1>2. CASE w \in [kind : {"long"}, name : DOMAIN Begins, tail : BOOLEAN]
  BY <1>2
<1>3. CASE w \in [kind : {"end", "operand"}]
  BY <1>3
<1> QED BY <1>1, <1>2, <1>3 DEF Words

LEMMA LettersType ==
  ASSUME NEW o \in Knowledge, NEW i \in Nat, NEW letters \in Seq(STRING)
  PROVE  ReadLetters(o, i, letters) \in Knowledge
<1>1. CASE \A j \in DOMAIN letters : letters[j] \notin Wanting
  BY <1>1, LettersRead, FlagsType
<1>2. CASE \E j \in DOMAIN letters : letters[j] \in Wanting
  <2>1. {n \in DOMAIN letters : letters[n] \in Wanting} # {}
    BY <1>2
  <2>2. PICK k : FirstWanting(letters, k)
    BY <2>1, FirstThere
  <2>3. k \in Nat /\ letters[k] \in Wanting
    BY <2>2 DEF FirstWanting
  <2>4. [from |-> i, skip |-> k] \in Arg
    BY <2>3 DEF Arg
  <2>5. Flags(o, Upto(letters, k - 1)) \in Knowledge
    BY FlagsType
  <2>6. Argument(Flags(o, Upto(letters, k - 1)), letters[k], [from |-> i, skip |-> k]) \in Knowledge
    BY <2>4, <2>5, ArgumentType
  <2>7. [Flags(o, Upto(letters, k - 1)) EXCEPT !.wants = letters[k]] \in Knowledge
    BY <2>3, <2>5, WantsType
  <2>8. ReadLetters(o, i, letters) =
          IF k < Len(letters)
          THEN Argument(Flags(o, Upto(letters, k - 1)), letters[k], [from |-> i, skip |-> k])
          ELSE [Flags(o, Upto(letters, k - 1)) EXCEPT !.wants = letters[k]]
    BY <2>2, LettersRead
  <2> QED BY <2>6, <2>7, <2>8, Zenon
<1> QED BY <1>1, <1>2

LEMMA NameType ==
  ASSUME NEW o \in Knowledge, NEW i \in Nat, NEW name, NEW tail
  PROVE  ReadName(o, i, name, tail) \in Knowledge
<1> DEFINE c == LetterOf[CHOOSE n \in DOMAIN LetterOf : Begins[name] = {n}]
           U == [o EXCEPT !.usage = TRUE]
           V == [o EXCEPT !.wants = c]
           A == Argument(o, c, [from |-> i, skip |-> 1])
           F == Flags(o, {c})
<1>1. [from |-> i, skip |-> 1] \in Arg
  BY DEF Arg
<1>2. U \in Knowledge
  BY UsageType
<1>3. c \in Wanting => V \in Knowledge
  BY WantsType
<1>4. A \in Knowledge /\ F \in Knowledge
  BY <1>1, ArgumentType, FlagsType
<1>5. \/ ReadName(o, i, name, tail) \in {U, A, F}
      \/ c \in Wanting /\ ReadName(o, i, name, tail) = V
  BY Zenon DEF ReadName
<1> QED BY <1>2, <1>3, <1>4, <1>5, Zenon

LEMMA WordType ==
  ASSUME NEW words \in Seq(Words), NEW o \in Knowledge, NEW i \in 1 .. Len(words)
  PROVE  ReadWord(words, o, i) \in Knowledge
<1> DEFINE w == words[i]
           t == [o EXCEPT !.taken = Append(@, i)]
<1>1. w \in Words /\ i \in Nat
  OBVIOUS
<1>2. t \in Knowledge /\ [o EXCEPT !.operands = Append(@, i)] \in Knowledge
  BY <1>1, TakenType
<1>3. [t EXCEPT !.ended = TRUE] \in Knowledge
  BY <1>1, <1>2, TakenType
<1>4. [from |-> i, skip |-> 0] \in Arg
  BY <1>1 DEF Arg
<1>5. Argument(t, o.wants, [from |-> i, skip |-> 0]) \in Knowledge
  BY <1>2, <1>4, ArgumentType
<1>6. w.kind = "short" => ReadLetters(t, i, w.letters) \in Knowledge
  BY <1>1, <1>2, WordIs, LettersType
<1>7. ReadName(t, i, w.name, w.tail) \in Knowledge
  BY <1>1, <1>2, NameType
<1>8. w.kind \in {"short", "long", "end", "operand"}
  BY <1>1, WordIs
<1>9. \/ ReadWord(words, o, i) \in {o, Argument(t, o.wants, [from |-> i, skip |-> 0]),
                                   [o EXCEPT !.operands = Append(@, i)],
                                   [t EXCEPT !.ended = TRUE],
                                   ReadName(t, i, w.name, w.tail)}
      \/ w.kind = "short" /\ ReadWord(words, o, i) = ReadLetters(t, i, w.letters)
  BY <1>8 DEF ReadWord
<1> QED BY <1>2, <1>3, <1>5, <1>6, <1>7, <1>9, Zenon

\* The reading goes through the words one by one.
LEMMA ReadingIs ==
  ASSUME NEW words \in Seq(Words)
  PROVE  /\ Reading(words)[0] = Unread
         /\ \A n \in 1 .. Len(words) :
              Reading(words)[n] = ReadWord(words, Reading(words)[n - 1], n)
<1> DEFINE N == Len(words)
           F == [x \in (0 .. N - 1) \X Knowledge |-> ReadWord(words, x[2], x[1] + 1)]
           e(f) == [n \in 0 .. N |-> IF n = 0 THEN Unread
                                     ELSE ReadWord(words, f[n - 1], n)]
<1>1. N \in Nat
  OBVIOUS
<1>2. \A n \in 0 .. N - 1, s \in Knowledge : <<n, s>> \in (0 .. N - 1) \X Knowledge
  OBVIOUS
<1>3. \A n \in 0 .. N - 1, s \in Knowledge : F[<<n, s>>] = ReadWord(words, s, n + 1)
  BY <1>2
<1>4. \A n \in 0 .. N - 1, s \in Knowledge : ReadWord(words, s, n + 1) \in Knowledge
  <2>1. \A n \in 0 .. N - 1 : n + 1 \in 1 .. Len(words)
    OBVIOUS
  <2> QED BY <2>1, WordType
<1>5. Reading(words) = CHOOSE f : f = e(f)
  BY Zenon DEF Reading
<1>N. N = Len(words)
  OBVIOUS
<1> HIDE DEF N, F
<1>a. GP!Rounds(F, N, Knowledge)
  BY <1>3, <1>4 DEF GP!Rounds
<1>b. PICK f : GP!Runs(f, F, N, Knowledge, Unread)
  BY <1>1, <1>a, UnreadType, GP!Iterate, Zenon
<1>7. /\ f \in [0 .. N -> Knowledge] /\ f[0] = Unread
      /\ \A n \in 1 .. N : f[n] = F[<<n - 1, f[n - 1]>>]
  BY <1>b DEF GP!Runs
<1>8. f = e(f)
  <2>1. ASSUME NEW n \in 0 .. N
        PROVE  f[n] = IF n = 0 THEN Unread ELSE ReadWord(words, f[n - 1], n)
    <3>2. CASE n = 0
      BY <1>7, <3>2
    <3>3. CASE n # 0
      <4>1. n - 1 \in 0 .. N - 1 /\ n - 1 \in 0 .. N /\ n \in 1 .. N /\ (n - 1) + 1 = n
        BY <3>3, <1>1
      <4>2. f[n - 1] \in Knowledge
        BY <4>1, <1>7
      <4>3. f[n] = F[<<n - 1, f[n - 1]>>]
        BY <4>1, <1>7
      <4>4. F[<<n - 1, f[n - 1]>>] = ReadWord(words, f[n - 1], (n - 1) + 1)
        BY <4>1, <4>2, <1>3
      <4> QED BY <4>3, <4>4, <4>1, <3>3
    <3> QED BY <3>2, <3>3
  <2> QED BY <2>1, <1>7
<1> DEFINE h == CHOOSE f2 : f2 = e(f2)
<1>9. h = e(h)
  BY <1>8
<1>10. Reading(words) = h
  BY <1>5
<1> HIDE DEF h
<1>11. \A n \in 0 .. N : h[n] = IF n = 0 THEN Unread ELSE ReadWord(words, h[n - 1], n)
  BY <1>9
<1>12. h[0] = Unread
  BY <1>11, <1>1
<1>13. \A n \in 1 .. N : h[n] = ReadWord(words, h[n - 1], n)
  <2>1. \A n \in 1 .. N : n \in 0 .. N /\ n # 0
    BY <1>1
  <2> QED BY <2>1, <1>11
<1> QED BY <1>10, <1>12, <1>13, <1>N

LEMMA ReadingType ==
  ASSUME NEW words \in Seq(Words)
  PROVE  \A n \in 0 .. Len(words) : Reading(words)[n] \in Knowledge
<1> DEFINE N == Len(words)
           R(n) == Reading(words)[n]
           Bad == {n \in 0 .. N : R(n) \notin Knowledge}
<1>1. N \in Nat
  OBVIOUS
<1>2. /\ R(0) \in Knowledge
      /\ \A n \in 1 .. N : R(n) = ReadWord(words, R(n - 1), n)
  BY ReadingIs, UnreadType
<1>3. \A n \in 1 .. N : R(n - 1) \in Knowledge => R(n) \in Knowledge
  BY <1>2, WordType
<1> HIDE DEF R, N
<1>4. ASSUME Bad # {} PROVE FALSE
  <2>1. Bad \subseteq Nat
    BY <1>1
  <2>2. \E n \in Bad : \A m \in Bad : n <= m
    <3> HIDE DEF Bad
    <3> QED BY <1>4, <2>1, GP!Least
  <2>3. PICK n \in Bad : \A m \in Bad : n <= m
    BY <2>2
  <2>4. n \in 1 .. N /\ n - 1 \in 0 .. N
    BY <1>1, <1>2
  <2>5. R(n - 1) \in Knowledge
    BY <2>3, <2>4
  <2> QED BY <2>3, <2>4, <2>5, <1>3
<1> QED BY <1>4 DEF N, R

\* Once the usage text is due, no further word counts.
LEMMA UsageStays ==
  ASSUME NEW words \in Seq(Words), NEW m \in 0 .. Len(words), Reading(words)[m].usage
  PROVE  \A n \in m .. Len(words) : Reading(words)[n] = Reading(words)[m]
<1> DEFINE N == Len(words)
           R(n) == Reading(words)[n]
           Bad == {n \in m .. N : R(n) # R(m)}
<1>1. N \in Nat /\ m \in 0 .. N
  OBVIOUS
<1>2. \A n \in 1 .. N : R(n) = ReadWord(words, R(n - 1), n)
  BY ReadingIs
<1>3. \A n \in 1 .. N : R(n - 1) = R(m) => R(n) = R(m)
  BY <1>2 DEF ReadWord
<1> HIDE DEF R, N
<1>4. ASSUME Bad # {} PROVE FALSE
  <2>1. Bad \subseteq Nat
    BY <1>1
  <2>2. \E n \in Bad : \A k \in Bad : n <= k
    <3> HIDE DEF Bad
    <3> QED BY <1>4, <2>1, GP!Least
  <2>3. PICK n \in Bad : \A k \in Bad : n <= k
    BY <2>2
  <2>4. n \in 1 .. N /\ n - 1 \in m .. N
    BY <1>1
  <2>5. R(n - 1) = R(m)
    BY <2>3, <2>4
  <2> QED BY <2>3, <2>4, <2>5, <1>3
<1> QED BY <1>4 DEF N, R

\* The places m + 1 .. n.
From(m, n) == [j \in 1 .. n - m |-> m + j]

LEMMA FromNext ==
  ASSUME NEW m \in Nat, NEW n \in Nat, m < n, NEW q \in Seq(Nat)
  PROVE  /\ From(m, n - 1) \in Seq(Nat) /\ From(m, n) \in Seq(Nat)
         /\ Len(From(m, n)) = n - m
         /\ \A j \in 1 .. n - m : From(m, n)[j] = m + j
         /\ Append(q \o From(m, n - 1), n) = q \o From(m, n)
<1>1. /\ From(m, n - 1) \in Seq(Nat) /\ From(m, n) \in Seq(Nat)
      /\ Len(From(m, n)) = n - m /\ Len(From(m, n - 1)) = (n - 1) - m
      /\ \A j \in 1 .. n - m : From(m, n)[j] = m + j
      /\ \A j \in 1 .. (n - 1) - m : From(m, n - 1)[j] = m + j
  BY DEF From
<1> DEFINE a == From(m, n - 1)
           b == From(m, n)
           x == Append(q \o a, n)
           y == q \o b
           c == q \o a
<1>2. /\ c \in Seq(Nat) /\ Len(c) = Len(q) + Len(a)
      /\ \A i \in 1 .. Len(q) + Len(a) :
           c[i] = IF i <= Len(q) THEN q[i] ELSE a[i - Len(q)]
  BY <1>1, ConcatProperties
<1>x. /\ x \in Seq(Nat) /\ Len(x) = Len(c) + 1 /\ x[Len(c) + 1] = n
      /\ \A i \in 1 .. Len(c) : x[i] = c[i]
  BY <1>2, AppendProperties
<1>y. /\ y \in Seq(Nat) /\ Len(y) = Len(q) + Len(b)
      /\ \A i \in 1 .. Len(q) + Len(b) :
           y[i] = IF i <= Len(q) THEN q[i] ELSE b[i - Len(q)]
  BY <1>1, ConcatProperties
<1>l. /\ Len(a) = (n - 1) - m /\ Len(b) = n - m /\ Len(q) \in Nat
      /\ \A j \in 1 .. n - m : b[j] = m + j
      /\ \A j \in 1 .. (n - 1) - m : a[j] = m + j
  BY <1>1
<1> HIDE DEF a, b, c, x, y
<1>3. Len(x) = Len(y)
  BY <1>2, <1>x, <1>y, <1>l
<1>4. ASSUME NEW i \in 1 .. Len(x) PROVE x[i] = y[i]
  <2>1. i \in Nat /\ i >= 1 /\ i <= Len(q) + (n - m) /\ Len(x) = Len(q) + (n - m)
        /\ Len(c) = Len(q) + ((n - 1) - m)
    BY <1>2, <1>x, <1>l
  <2>2. CASE i <= Len(q)
    <3>1. y[i] = q[i]
      BY <2>1, <2>2, <1>y, <1>l
    <3>2. c[i] = q[i]
      <4>1. Len(a) \in Nat
        BY <1>l
      <4>2. i \in 1 .. Len(q) + Len(a)
        BY <4>1, <2>1, <2>2, <1>l
      <4> QED BY <4>2, <2>2, <1>2
    <3>3. x[i] = c[i]
      BY <2>1, <2>2, <1>x, <1>l
    <3> QED BY <3>1, <3>2, <3>3
  <2>3. CASE i > Len(q) /\ i <= Len(c)
    <3>1. y[i] = b[i - Len(q)] /\ i - Len(q) \in 1 .. n - m
      BY <2>1, <2>3, <1>y, <1>l
    <3>2. c[i] = a[i - Len(q)] /\ i - Len(q) \in 1 .. (n - 1) - m
      BY <2>1, <2>3, <1>2, <1>l
    <3>3. x[i] = c[i]
      BY <2>1, <2>3, <1>x, <1>l
    <3> QED BY <3>1, <3>2, <3>3, <1>l
  <2>4. CASE i > Len(q) /\ i > Len(c)
    <3>1. y[i] = b[i - Len(q)] /\ i - Len(q) \in 1 .. n - m
      BY <2>1, <2>4, <1>y, <1>l
    <3>2. i = Len(c) + 1 /\ i - Len(q) = n - m
      BY <2>1, <2>4, <1>l
    <3>3. b[i - Len(q)] = m + (i - Len(q))
      BY <3>1, <1>l
    <3>4. m + (i - Len(q)) = n
      BY <3>2, <2>1, <1>l
    <3>5. x[i] = n
      BY <3>2, <1>x
    <3> QED BY <3>1, <3>3, <3>4, <3>5
  <2> QED BY <2>1, <2>2, <2>3, <2>4, <1>l, <1>2
<1>5. x = y
  BY <1>x, <1>y, <1>3, <1>4, SeqEqual
<1> QED BY <1>1, <1>5 DEF a, b, c, x, y

\* Nothing is wrong so far, and no argument is missing.
Good(o) == ~o.usage /\ o.wants = ""
DashDashed(o) == o.ended /\ Good(o)

\* Behind "--" there are operands only.
LEMMA EndedStays ==
  ASSUME NEW words \in Seq(Words), NEW m \in 0 .. Len(words), DashDashed(Reading(words)[m])
  PROVE  \A n \in m .. Len(words) :
           Reading(words)[n] = [Reading(words)[m] EXCEPT !.operands = @ \o From(m, n)]
<1> DEFINE N == Len(words)
           R(n) == Reading(words)[n]
           E(n) == [R(m) EXCEPT !.operands = @ \o From(m, n)]
           Bad == {n \in m .. N : R(n) # E(n)}
<1>1. N \in Nat /\ m \in 0 .. N
  OBVIOUS
<1>2. /\ \A n \in 1 .. N : R(n) = ReadWord(words, R(n - 1), n)
      /\ R(m) \in Knowledge
  BY ReadingIs, ReadingType
<1>k. R(m).operands \in Seq(Nat)
  BY <1>2 DEF Knowledge
<1>3. R(m) = E(m)
  <2>1. From(m, m) = <<>>
    BY <1>1 DEF From
  <2>2. R(m).operands \o From(m, m) = R(m).operands
    BY <1>k, <2>1, ConcatEmptySeq
  <2> QED BY <1>2, <2>2 DEF Knowledge
<1>4. ASSUME NEW n \in m + 1 .. N, R(n - 1) = E(n - 1)
      PROVE  R(n) = E(n)
  <2>1. DashDashed(E(n - 1))
    BY <1>2 DEF Knowledge, DashDashed, Good
  <2>w. R(n) = ReadWord(words, E(n - 1), n)
    BY <1>1, <1>2, <1>4
  <2>2. R(n) = [E(n - 1) EXCEPT !.operands = Append(@, n)]
    <3> HIDE DEF E, R
    <3> QED BY <2>w, <2>1 DEF ReadWord, DashDashed, Good
  <2>3. Append(R(m).operands \o From(m, n - 1), n) = R(m).operands \o From(m, n)
    <3>1. m \in Nat /\ n \in Nat /\ m < n
      BY <1>1
    <3> HIDE DEF R
    <3> QED BY <3>1, <1>k, FromNext
  <2> QED BY <1>2, <2>2, <2>3 DEF Knowledge
<1> HIDE DEF R, N, E
<1>5. ASSUME Bad # {} PROVE FALSE
  <2>1. Bad \subseteq Nat
    BY <1>1
  <2>2. \E n \in Bad : \A k \in Bad : n <= k
    <3> HIDE DEF Bad
    <3> QED BY <1>5, <2>1, GP!Least
  <2>3. PICK n \in Bad : \A k \in Bad : n <= k
    BY <2>2
  <2>4. n \in m + 1 .. N /\ n - 1 \in m .. N
    BY <1>1, <1>3
  <2>5. R(n - 1) = E(n - 1)
    BY <2>3, <2>4
  <2> QED BY <2>3, <2>4, <2>5, <1>4
<1> QED BY <1>5 DEF N, R, E

-----------------------------------------------------------------------------
(* The table of long options *)

Table == 1 .. 7

LEMMA TableIs ==
  /\ DOMAIN longopts = Table /\ DOMAIN LetterOf = Names
  /\ \A i \in Table : /\ longopts[i].name \in Names
                      /\ longopts[i].val = LetterOf[longopts[i].name]
                      /\ longopts[i].has_arg <=> LetterOf[longopts[i].name] \in Wanting
  /\ \A i, j \in Table : longopts[i].name = longopts[j].name => i = j
  /\ \A n \in Names : \E i \in Table : longopts[i].name = n
<1>0. DOMAIN longopts = Table
  BY DEF longopts, Table
<1>1. Names = {"daemon", "config", "debug", "help", "version", "quiet", "signal"}
  <2>1. \A i \in Table : longopts[i].name \in {"daemon", "config", "debug", "help", "version", "quiet", "signal"}
    BY DEF longopts, Table
  <2>2. /\ longopts[1].name = "daemon" /\ longopts[2].name = "config"
        /\ longopts[3].name = "debug" /\ longopts[4].name = "help"
        /\ longopts[5].name = "version" /\ longopts[6].name = "quiet"
        /\ longopts[7].name = "signal"
    BY DEF longopts
  <2>3. {1, 2, 3, 4, 5, 6, 7} = Table
    BY DEF Table
  <2> QED BY <1>0, <2>1, <2>2, <2>3 DEF Names
<1>2. DOMAIN LetterOf = {"daemon", "config", "debug", "help", "version", "quiet", "signal"}
  BY DEF LetterOf
<1>3. ASSUME NEW i \in Table
      PROVE  /\ longopts[i].name \in Names
             /\ longopts[i].val = LetterOf[longopts[i].name]
             /\ longopts[i].has_arg <=> LetterOf[longopts[i].name] \in Wanting
  <2>1. i \in {1, 2, 3, 4, 5, 6, 7}
    BY DEF Table
  <2>2. longopts[i].name \in Names
    BY <1>0 DEF Names
  <2>3. longopts[i].val = LetterOf[longopts[i].name]
    BY <2>1 DEF longopts, LetterOf
  <2>4. longopts[i].has_arg <=> LetterOf[longopts[i].name] \in Wanting
    BY <2>1 DEF longopts, LetterOf, Wanting
  <2> QED BY <2>2, <2>3, <2>4
<1>4. \A i, j \in Table : longopts[i].name = longopts[j].name => i = j
  BY DEF longopts, Table
<1>5. \A n \in Names : \E i \in Table : longopts[i].name = n
  BY <1>0 DEF Names
<1> QED BY <1>0, <1>1, <1>2, <1>3, <1>4, <1>5

LEMMA ExactIs ==
  ASSUME NEW name \in DOMAIN Begins, NEW i \in G!Exact(name)
  PROVE  Begins[name] = {name} /\ longopts[i].name = name /\ i \in Table
BY TableIs, BeginsAssumption DEF G!Exact

\* The option found has the one name that begins so.
LEMMA MatchOne ==
  ASSUME NEW name \in DOMAIN Begins, NEW n \in DOMAIN LetterOf, Begins[name] = {n}
  PROVE  /\ G!Match(name) # 0
         /\ longopts[G!Match(name)].val = LetterOf[n]
         /\ longopts[G!Match(name)].has_arg <=> LetterOf[n] \in Wanting
<1> DEFINE E == G!Exact(name)
           P == G!Possible(name)
<1>1. PICK i \in Table : longopts[i].name = n
  BY TableIs
<1>2. P = {i}
  BY <1>1, TableIs DEF G!Possible
<1>3. \A j \in E : j = i
  <2>1. SUFFICES ASSUME NEW j \in E PROVE j = i
    OBVIOUS
  <2>2. Begins[name] = {name} /\ longopts[j].name = name /\ j \in Table
    BY <2>1, ExactIs
  <2> QED BY <2>2, <1>1, TableIs
<1>6. G!Match(name) =
        IF \E j \in E : \A k, l \in {h \in P : h < j} : k = l THEN CHOOSE j \in E : TRUE
        ELSE IF P # {} /\ (\A k, l \in P : k = l) THEN CHOOSE j \in P : TRUE ELSE 0
  BY Zenon DEF G!Match
<1> HIDE DEF E, P
<1>7. G!Match(name) = i
  <2>1. CASE E # {}
    <3>1. E = {i}
      BY <2>1, <1>3
    <3> QED BY <1>2, <1>6, <3>1
  <2>2. CASE E = {}
    BY <1>2, <1>6, <2>2
  <2> QED BY <2>1, <2>2
<1> QED BY <1>1, <1>7, TableIs DEF Table

\* None is found where no name, or more than one, begins so.
LEMMA MatchNone ==
  ASSUME NEW name \in DOMAIN Begins, \A n \in DOMAIN LetterOf : Begins[name] # {n}
  PROVE  G!Match(name) = 0
<1> DEFINE E == G!Exact(name)
           P == G!Possible(name)
<1>1. E = {}
  <2>1. SUFFICES ASSUME NEW j \in E PROVE FALSE
    OBVIOUS
  <2>2. Begins[name] = {name} /\ longopts[j].name = name /\ j \in Table
    BY <2>1, ExactIs
  <2> QED BY <2>2, TableIs
<1>2. ASSUME P # {}, \A k, l \in P : k = l PROVE FALSE
  <2>3. PICK i \in P : P = {i}
    BY <1>2
  <2>4. i \in Table /\ longopts[i].name \in Begins[name] /\ longopts[i].name \in Names
    BY <2>3, TableIs DEF G!Possible
  <2>5. ASSUME NEW x \in Begins[name] PROVE x = longopts[i].name
    <3>1. x \in Names
      BY BeginsAssumption
    <3>2. PICK j \in Table : longopts[j].name = x
      BY <3>1, TableIs
    <3>3. j \in P
      BY <3>2, TableIs DEF G!Possible
    <3> QED BY <3>2, <3>3, <2>3
  <2>6. Begins[name] = {longopts[i].name}
    BY <2>4, <2>5
  <2> QED BY <2>4, <2>6, TableIs
<1>3. G!Match(name) =
        IF \E j \in E : \A k, l \in {h \in P : h < j} : k = l THEN CHOOSE j \in E : TRUE
        ELSE IF P # {} /\ (\A k, l \in P : k = l) THEN CHOOSE j \in P : TRUE ELSE 0
  BY Zenon DEF G!Match
<1> HIDE DEF E, P
<1> QED BY <1>1, <1>2, <1>3

-----------------------------------------------------------------------------
(* Where the words lie while getopt moves them *)

\* Of the words before opt those taken, A, and the operands, O, lie in order, the
\* operands as one block in front of A[b]; the words from opt on have not moved.
Laid(N, nv, opt, b, A, O) ==
  /\ nv \in [1 .. N -> Nat] /\ A \in Seq(Nat) /\ O \in Seq(Nat)
  /\ opt \in 1 .. N + 1 /\ Len(A) + Len(O) = opt - 1 /\ b \in 1 .. Len(A) + 1
  /\ \A i \in 1 .. b - 1 : nv[i] = A[i]
  /\ \A i \in 1 .. Len(O) : nv[b - 1 + i] = O[i]
  /\ \A i \in b .. Len(A) : nv[i + Len(O)] = A[i]
  /\ \A i \in opt .. N : nv[i] = i

\* What nonopt_start and nonopt_end say of the block.
Spread(N, nv, opt, ns, ne, A, O) ==
  \E b \in 1 .. Len(A) + 1 :
    /\ Laid(N, nv, opt, b, A, O)
    /\ \/ ne = 0 /\ b = Len(A) + 1 /\ O = <<>> /\ ns = 0
       \/ ne = 0 /\ b = Len(A) + 1 /\ O # <<>> /\ ns = b
       \/ O # <<>> /\ ns = b /\ ne = b + Len(O)

LEMMA permute_argsIs ==
  ASSUME NEW f, NEW m, NEW e, NEW v
  PROVE  G!permute_args(f, m, e, v) = GP!permute_args(f, m, e, v)
BY DEF G!permute_args, GP!permute_args, G!Swapped, GP!Swapped, G!gcd, GP!gcd,
       G!cyclelen, GP!cyclelen, G!Swap, GP!Swap, G!Across, GP!Across

LEMMA NonEmpty ==
  ASSUME NEW O \in Seq(Nat)
  PROVE  (O # <<>>) <=> Len(O) >= 1
BY EmptySeq

\* The operands are moved behind the words taken.
LEMMA Exchange ==
  ASSUME NEW N \in Nat, NEW nv, NEW opt, NEW ns, NEW ne, NEW A, NEW O,
         Spread(N, nv, opt, ns, ne, A, O), ne # 0, ne < opt
  PROVE  /\ Laid(N, G!permute_args(ns, ne, opt, nv), opt, Len(A) + 1, A, O)
         /\ opt - (ne - ns) = Len(A) + 1 /\ O # <<>>
<1>1. PICK b : /\ Laid(N, nv, opt, b, A, O)
               /\ \/ ne = 0
                  \/ O # <<>> /\ ns = b /\ ne = b + Len(O)
  BY DEF Spread
<1> DEFINE t == Len(A)
           u == Len(O)
           w == GP!Exchanged(b, b + u, opt, nv)
<1>2. /\ nv \in [1 .. N -> Nat] /\ A \in Seq(Nat) /\ O \in Seq(Nat)
      /\ opt \in 1 .. N + 1 /\ t + u = opt - 1 /\ b \in 1 .. t + 1
      /\ t \in Nat /\ u \in Nat
  BY <1>1, SMTT(40) DEF Laid
<1>3. O # <<>> /\ u >= 1 /\ ns = b /\ ne = b + u
  BY <1>1, <1>2, NonEmpty
<1>4. /\ \A i \in 1 .. b - 1 : nv[i] = A[i]
      /\ \A i \in 1 .. u : nv[b - 1 + i] = O[i]
      /\ \A i \in b .. t : nv[i + u] = A[i]
      /\ \A i \in opt .. N : nv[i] = i
  BY <1>1 DEF Laid
<1>a. /\ b \in Nat /\ opt \in Nat /\ b < b + u /\ b + u < opt /\ b + u \in Nat
      /\ opt = t + u + 1
  <2> HIDE DEF t, u
  <2> QED BY <1>2, <1>3
<1>5. GP!Blocks(b, b + u, opt) /\ b .. opt - 1 \subseteq 1 .. N
  <2>1. GP!Blocks(b, b + u, opt)
    BY <1>a, Zenon DEF GP!Blocks
  <2>2. b .. opt - 1 \subseteq 1 .. N
    <3> HIDE DEF t, u
    <3> QED BY <1>2, <1>a
  <2> QED BY <2>1, <2>2
<1>6. G!permute_args(b, b + u, opt, nv) = w
  <2>1. GP!permute_args(b, b + u, opt, nv) = w
    <3>1. nv \in [1 .. N -> Nat]
      BY <1>2
    <3> HIDE DEF t, u
    <3>2. GP!permute_args(b, b + u, opt, nv) = GP!Exchanged(b, b + u, opt, nv)
      BY <3>1, <1>5, GP!PermuteArgs, ZenonT(40)
    <3> QED BY <3>2 DEF w
  <2> QED BY <2>1, permute_argsIs
<1>7. \A d \in 1 .. N : w[d] = IF d \notin b .. opt - 1 THEN nv[d]
                                 ELSE IF d < b + (opt - (b + u)) THEN nv[d + ((b + u) - b)]
                                 ELSE nv[d - (opt - (b + u))]
  BY <1>2 DEF GP!Exchanged
<1>8. DOMAIN w = 1 .. N
  BY <1>2 DEF GP!Exchanged
<1>w. w = [d \in 1 .. N |-> w[d]]
  BY <1>2 DEF GP!Exchanged
<1>o. opt - (ne - ns) = t + 1
  <2> HIDE DEF t, u
  <2> QED BY <1>3, <1>a, <1>2
<1> HIDE DEF w, t, u
<1>9. ASSUME NEW d \in 1 .. N
      PROVE  /\ d < b => w[d] = nv[d]
             /\ d >= b /\ d <= t => w[d] = nv[d + u]
             /\ d > t /\ d < opt => w[d] = nv[d - t + b - 1]
             /\ d >= opt => w[d] = nv[d]
  <2>1. /\ b + (opt - (b + u)) = t + 1 /\ d + ((b + u) - b) = d + u
        /\ d - (opt - (b + u)) = d - t + b - 1
    BY <1>a, <1>2
  <2>2. w[d] = IF d \notin b .. opt - 1 THEN nv[d]
               ELSE IF d < t + 1 THEN nv[d + u] ELSE nv[d - t + b - 1]
    BY <1>7, <2>1
  <2> QED BY <2>2, <1>a, <1>2
<1>10. w \in [1 .. N -> Nat]
  <2>1. ASSUME NEW d \in 1 .. N PROVE w[d] \in Nat
    <3>1. /\ d >= b /\ d <= t => d + u \in 1 .. N
          /\ d > t /\ d < opt => d - t + b - 1 \in 1 .. N
      BY <1>a, <1>2
    <3> QED BY <1>9, <3>1, <1>2, <1>a
  <2> QED BY <2>1, <1>w
<1>11. \A i \in 1 .. t : w[i] = A[i]
  <2>1. ASSUME NEW i \in 1 .. t PROVE w[i] = A[i]
    <3>1. i \in 1 .. N
      BY <1>2, <1>a
    <3>2. CASE i < b
      BY <3>1, <3>2, <1>2, <1>4, <1>9
    <3>3. CASE i >= b
      BY <3>1, <3>3, <1>2, <1>4, <1>9
    <3> QED BY <3>1, <3>2, <3>3, <1>2
  <2> QED BY <2>1
<1>12. \A i \in 1 .. u : w[t + i] = O[i]
  <2>1. ASSUME NEW i \in 1 .. u PROVE w[t + i] = O[i]
    <3>1. t + i \in 1 .. N /\ t + i > t /\ t + i < opt /\ (t + i) - t + b - 1 = b - 1 + i
      BY <1>2, <1>a
    <3> QED BY <3>1, <1>9, <1>4
  <2> QED BY <2>1
<1>13. \A i \in opt .. N : w[i] = i
  BY <1>2, <1>4, <1>9, <1>a
<1>14. Laid(N, w, opt, t + 1, A, O)
  <2>1. /\ (t + 1) - 1 = t /\ t + 1 \in 1 .. t + 1
        /\ \A i \in t + 1 .. t : FALSE
        /\ \A i \in 1 .. u : (t + 1) - 1 + i = t + i
    BY <1>2
  <2> QED BY <2>1, <1>2, <1>10, <1>11, <1>12, <1>13 DEF Laid, t, u
<1> QED BY <1>3, <1>6, <1>14, <1>o DEF t, u

\* The word at opt is an operand.
LEMMA AddOperand ==
  ASSUME NEW N \in Nat, NEW nv, NEW opt, NEW A, NEW O,
         Laid(N, nv, opt, Len(A) + 1, A, O), opt <= N
  PROVE  Laid(N, nv, opt + 1, Len(A) + 1, A, Append(O, opt))
<1> DEFINE t == Len(A)
           u == Len(O)
           O2 == Append(O, opt)
<1>1. /\ nv \in [1 .. N -> Nat] /\ A \in Seq(Nat) /\ O \in Seq(Nat)
      /\ opt \in 1 .. N + 1 /\ t + u = opt - 1 /\ t \in Nat /\ u \in Nat
      /\ \A i \in 1 .. (t + 1) - 1 : nv[i] = A[i]
      /\ \A i \in 1 .. u : nv[(t + 1) - 1 + i] = O[i]
      /\ \A i \in opt .. N : nv[i] = i
  BY DEF Laid
<1>2. /\ O2 \in Seq(Nat) /\ Len(O2) = u + 1 /\ O2[u + 1] = opt
      /\ \A i \in 1 .. u : O2[i] = O[i]
  BY <1>1, AppendProperties
<1> HIDE DEF t, u, O2
<1>3. \A i \in 1 .. Len(O2) : nv[(t + 1) - 1 + i] = O2[i]
  <2>1. ASSUME NEW i \in 1 .. u + 1 PROVE nv[(t + 1) - 1 + i] = O2[i]
    <3>1. CASE i = u + 1
      <4>1. (t + 1) - 1 + i = opt /\ opt \in opt .. N
        BY <3>1, <1>1
      <4> QED BY <4>1, <3>1, <1>1, <1>2
    <3>2. CASE i \in 1 .. u
      BY <3>2, <1>1, <1>2
    <3> QED BY <3>1, <3>2, <1>1
  <2> QED BY <2>1, <1>2
<1>4. /\ opt + 1 \in 1 .. N + 1 /\ t + (u + 1) = (opt + 1) - 1 /\ t + 1 \in 1 .. t + 1
      /\ \A i \in t + 1 .. t : FALSE
      /\ opt + 1 .. N \subseteq opt .. N
  BY <1>1
<1>5. \A i \in opt + 1 .. N : nv[i] = i
  BY <1>1, <1>4
<1> QED BY <1>1, <1>2, <1>3, <1>4, <1>5 DEF Laid, t, O2

\* The word at opt is taken; the operands passed before are a closed block.
LEMMA AddTaken ==
  ASSUME NEW N \in Nat, NEW nv, NEW opt, NEW ns, NEW ne, NEW A, NEW O,
         Spread(N, nv, opt, ns, ne, A, O), opt <= N, O # <<>> => ne # 0
  PROVE  /\ Spread(N, nv, opt + 1, ns, ne, Append(A, opt), O)
         /\ ne # 0 => ne < opt + 1
<1>1. PICK b : /\ Laid(N, nv, opt, b, A, O)
               /\ \/ ne = 0 /\ b = Len(A) + 1 /\ O = <<>> /\ ns = 0
                  \/ O # <<>> /\ ns = b /\ ne = b + Len(O)
  BY DEF Spread
<1> DEFINE t == Len(A)
           u == Len(O)
           A2 == Append(A, opt)
<1>2. /\ nv \in [1 .. N -> Nat] /\ A \in Seq(Nat) /\ O \in Seq(Nat)
      /\ opt \in 1 .. N + 1 /\ t + u = opt - 1 /\ b \in 1 .. t + 1
      /\ t \in Nat /\ u \in Nat
      /\ \A i \in 1 .. b - 1 : nv[i] = A[i]
      /\ \A i \in 1 .. u : nv[b - 1 + i] = O[i]
      /\ \A i \in b .. t : nv[i + u] = A[i]
      /\ \A i \in opt .. N : nv[i] = i
  BY <1>1, SMTT(40) DEF Laid
<1>3. /\ A2 \in Seq(Nat) /\ Len(A2) = t + 1 /\ A2[t + 1] = opt
      /\ \A i \in 1 .. t : A2[i] = A[i]
  BY <1>2, AppendProperties
<1>4. O = <<>> => u = 0
  BY EmptySeq
<1>5. /\ opt + 1 \in 1 .. N + 1 /\ (t + 1) + u = (opt + 1) - 1
      /\ opt + 1 .. N \subseteq opt .. N /\ b \in 1 .. (t + 1) + 1
  <2> HIDE DEF t, u
  <2> QED BY <1>2
<1>6. \A i \in opt + 1 .. N : nv[i] = i
  BY <1>2, <1>5
<1>o. nv[opt] = opt
  BY <1>2
<1>7. CASE O = <<>>
  <2>1. b = t + 1 /\ u = 0 /\ ne = 0 /\ ns = 0
    BY <1>1, <1>4, <1>7
  <2> HIDE DEF t, u, A2
  <2>2. \A i \in 1 .. ((t + 1) + 1) - 1 : nv[i] = A2[i]
    <3>1. ASSUME NEW i \in 1 .. t + 1 PROVE nv[i] = A2[i]
      <4>1. CASE i = t + 1
        BY <4>1, <2>1, <1>2, <1>3, <1>o
      <4>2. CASE i \in 1 .. t
        BY <4>2, <2>1, <1>2, <1>3
      <4> QED BY <4>1, <4>2, <1>2
    <3> QED BY <3>1, <1>2
  <2>3. /\ (t + 1) + 1 \in 1 .. (t + 1) + 1
        /\ \A i \in (t + 1) + 1 .. t + 1 : FALSE
        /\ \A i \in 1 .. u : FALSE
    BY <1>2, <2>1
  <2>4. Laid(N, nv, opt + 1, Len(A2) + 1, A2, O)
    BY <1>2, <1>3, <1>5, <1>6, <2>2, <2>3 DEF Laid, t, u
  <2> QED BY <2>1, <2>4, <1>7 DEF Spread, A2
<1>8. CASE O # <<>>
  <2>1. ns = b /\ ne = b + u
    BY <1>1, <1>8
  <2> HIDE DEF t, u, A2
  <2>2. \A i \in 1 .. b - 1 : nv[i] = A2[i]
    <3>1. ASSUME NEW i \in 1 .. b - 1 PROVE nv[i] = A2[i]
      <4>1. i \in 1 .. t
        BY <1>2
      <4> QED BY <4>1, <1>2, <1>3
    <3> QED BY <3>1
  <2>3. \A i \in b .. t + 1 : nv[i + u] = A2[i]
    <3>1. ASSUME NEW i \in b .. t + 1 PROVE nv[i + u] = A2[i]
      <4>1. CASE i = t + 1
        <5>1. i + u = opt
          BY <4>1, <1>2
        <5> QED BY <5>1, <4>1, <1>3, <1>o
      <4>2. CASE i \in b .. t
        <5>1. i \in 1 .. t
          BY <4>2, <1>2
        <5> QED BY <5>1, <4>2, <1>2, <1>3
      <4> QED BY <4>1, <4>2, <1>2
    <3> QED BY <3>1
  <2>4. Laid(N, nv, opt + 1, b, A2, O)
    BY <1>2, <1>3, <1>5, <1>6, <2>2, <2>3 DEF Laid, u
  <2>5. ne < opt + 1
    BY <2>1, <1>2
  <2> QED BY <2>1, <2>4, <2>5, <1>8 DEF Spread, A2, u
<1> QED BY <1>7, <1>8

\* A word that is no operand ends the block before it.
LEMMA EndBlock ==
  ASSUME NEW N \in Nat, NEW nv, NEW opt, NEW ns, NEW ne, NEW A, NEW O,
         Spread(N, nv, opt, ns, ne, A, O)
  PROVE  LET e == IF ns # 0 /\ ne = 0 THEN opt ELSE ne
         IN  Spread(N, nv, opt, ns, e, A, O) /\ (O # <<>> <=> e # 0) /\ (e # 0 => ns # 0)
<1> DEFINE e == IF ns # 0 /\ ne = 0 THEN opt ELSE ne
<1>1. PICK b : /\ Laid(N, nv, opt, b, A, O)
               /\ \/ ne = 0 /\ b = Len(A) + 1 /\ O = <<>> /\ ns = 0
                  \/ ne = 0 /\ b = Len(A) + 1 /\ O # <<>> /\ ns = b
                  \/ O # <<>> /\ ns = b /\ ne = b + Len(O)
  BY DEF Spread
<1>2. Len(A) \in Nat /\ Len(O) \in Nat /\ opt = Len(A) + Len(O) + 1 /\ b \in 1 .. Len(A) + 1
  BY <1>1 DEF Laid
<1>3. CASE ne = 0 /\ b = Len(A) + 1 /\ O = <<>> /\ ns = 0
  BY <1>1, <1>3 DEF Spread
<1>4. CASE ne = 0 /\ b = Len(A) + 1 /\ O # <<>> /\ ns = b
  <2>1. e = opt /\ e = b + Len(O) /\ e # 0 /\ ns # 0
    BY <1>2, <1>4
  <2> QED BY <1>1, <1>4, <2>1 DEF Spread
<1>5. CASE O # <<>> /\ ns = b /\ ne = b + Len(O)
  <2>1. e = ne /\ e # 0 /\ ns # 0
    BY <1>2, <1>5
  <2> QED BY <1>1, <1>5, <2>1 DEF Spread
<1> QED BY <1>1, <1>3, <1>4, <1>5

\* Every word has its place: the words taken, the operands, and those left.
LEMMA AllLaid ==
  ASSUME NEW N \in Nat, NEW nv, NEW m \in 0 .. N, NEW A, NEW O,
         Laid(N, nv, m + 1, Len(A) + 1, A, O)
  PROVE  nv = A \o (O \o From(m, N))
<1> DEFINE t == Len(A)
           u == Len(O)
           f == From(m, N)
           g == O \o f
           h == A \o g
<1>1. /\ nv \in [1 .. N -> Nat] /\ A \in Seq(Nat) /\ O \in Seq(Nat)
      /\ t + u = (m + 1) - 1 /\ t \in Nat /\ u \in Nat
      /\ \A i \in 1 .. (t + 1) - 1 : nv[i] = A[i]
      /\ \A i \in 1 .. u : nv[(t + 1) - 1 + i] = O[i]
      /\ \A i \in m + 1 .. N : nv[i] = i
  BY DEF Laid
<1>2. f \in Seq(Nat) /\ Len(f) = N - m /\ \A j \in 1 .. N - m : f[j] = m + j
  BY DEF From
<1>3. /\ g \in Seq(Nat) /\ Len(g) = u + Len(f)
      /\ \A i \in 1 .. u + Len(f) : g[i] = IF i <= u THEN O[i] ELSE f[i - u]
  <2>1. O \in Seq(Nat) /\ f \in Seq(Nat) /\ u = Len(O)
    BY <1>1, <1>2
  <2> HIDE DEF f, u
  <2> QED BY <2>1, ConcatProperties
<1>4. /\ h \in Seq(Nat) /\ Len(h) = t + Len(g)
      /\ \A i \in 1 .. t + Len(g) : h[i] = IF i <= t THEN A[i] ELSE g[i - t]
  BY <1>1, <1>3, ConcatProperties, SMTT(40)
<1>n. nv \in Seq(Nat) /\ Len(nv) = N
  BY <1>1
<1> HIDE DEF t, u, f, g, h
<1>5. Len(h) = N /\ m = t + u
  BY <1>1, <1>2, <1>3, <1>4
<1>6. ASSUME NEW i \in 1 .. N PROVE nv[i] = h[i]
  <2>0. i \in 1 .. t + Len(g) /\ Len(g) = u + Len(f) /\ u + Len(f) = N - t
    BY <1>1, <1>2, <1>3, <1>4, <1>5
  <2>1. CASE i <= t
    <3>1. i \in 1 .. (t + 1) - 1
      BY <2>1, <1>1
    <3>2. nv[i] = A[i]
      BY <3>1, <1>1
    <3>3. h[i] = A[i]
      BY <2>0, <2>1, <1>4
    <3> QED BY <3>2, <3>3
  <2>2. CASE i > t /\ i <= m
    <3>1. i - t \in 1 .. u /\ (t + 1) - 1 + (i - t) = i /\ i - t \in 1 .. u + Len(f)
      BY <2>0, <2>2, <1>1, <1>5
    <3>2. nv[(t + 1) - 1 + (i - t)] = O[i - t]
      BY <3>1, <1>1
    <3>3. g[i - t] = O[i - t]
      BY <3>1, <1>3, <1>1
    <3>4. h[i] = g[i - t]
      BY <2>0, <2>2, <1>4, <1>1
    <3> QED BY <3>1, <3>2, <3>3, <3>4
  <2>3. CASE i > m
    <3>1. i - t \in 1 .. u + Len(f) /\ ~(i - t <= u) /\ (i - t) - u \in 1 .. N - m
          /\ m + ((i - t) - u) = i /\ i > t /\ i \in m + 1 .. N
      BY <2>0, <2>3, <1>1, <1>5
    <3>2. g[i - t] = f[(i - t) - u]
      BY <3>1, <1>3
    <3>3. f[(i - t) - u] = i
      BY <3>1, <1>2
    <3>4. h[i] = g[i - t]
      BY <2>0, <3>1, <1>4, <1>1
    <3> QED BY <3>1, <3>2, <3>3, <3>4, <1>1
  <2> QED BY <2>1, <2>2, <2>3, <1>1
<1>7. nv = h
  BY <1>n, <1>4, <1>5, <1>6, SeqEqual
<1> QED BY <1>7 DEF h, g, f

LEMMA LenLaid ==
  ASSUME NEW N \in Nat, NEW nv, NEW opt, NEW b, NEW A, NEW O, Laid(N, nv, opt, b, A, O)
  PROVE  Len(nv) = N
<1>1. nv \in [1 .. N -> Nat]
  BY DEF Laid
<1> QED BY <1>1

-----------------------------------------------------------------------------
(* How far getopt has come, by what is known of the words before optind *)

Plain(o) == ~o.usage /\ o.wants = "" /\ ~o.ended
Noted(o) == [daemon |-> o.daemon, version |-> o.version, quiet |-> o.quiet,
             cfile |-> o.cfile, signame |-> o.signame]

\* What main makes of settings s when option c comes with an argument.
Choose(s, c, arg) ==
  CASE c = "D" -> [s EXCEPT !.daemon = TRUE]
    [] c = "c" -> [s EXCEPT !.cfile = arg]
    [] c = "v" -> [s EXCEPT !.version = TRUE]
    [] c = "q" -> [s EXCEPT !.quiet = TRUE]
    [] c = "s" -> [s EXCEPT !.signame = arg]
    [] OTHER   -> s

Switches == {"D", "v", "q", "d"}

\* The words before opt have been read, none is being scanned.
Between(words, nv, opt, ns, ne, s) ==
  LET o == Reading(words)[opt - 1] IN
  /\ opt \in 1 .. Len(words) + 1 /\ Plain(o) /\ s = Noted(o)
  /\ Spread(Len(words), nv, opt, ns, ne, o.taken, o.operands)
  /\ ne # 0 => ne < opt

\* The word at opt is an option, and a block of operands ends before it.
AtOption(words, nv, opt, ns, ne) ==
  LET o == Reading(words)[opt - 1] IN
  /\ opt \in 1 .. Len(words) /\ Plain(o)
  /\ Spread(Len(words), nv, opt, ns, ne, o.taken, o.operands)
  /\ o.operands # <<>> => ne # 0

\* k letters of the cluster at opt have been read, and none of them wanted an
\* argument or was wrong.
InCluster(words, nv, opt, ns, ne, k, s) ==
  /\ AtOption(words, nv, opt, ns, ne) /\ words[opt].kind = "short"
  /\ k \in 0 .. Len(words[opt].letters) - 1
  /\ Upto(words[opt].letters, k) \subseteq Switches
  /\ s = Noted(Flags(Reading(words)[opt - 1], Upto(words[opt].letters, k)))

AtName(words, nv, opt, ns, ne, s) ==
  /\ AtOption(words, nv, opt, ns, ne) /\ words[opt].kind = "long"
  /\ s = Noted(Reading(words)[opt - 1])

\* The scan is over, and nothing was wrong.
Scanned(words, nv, opt, s) ==
  LET o == Reading(words)[Len(words)] IN
  /\ Good(o) /\ s = Noted(o)
  /\ opt = Len(o.taken) + 1 /\ nv = o.taken \o o.operands

\* The usage text is due.
Wrong(words) == LET o == Reading(words)[Len(words)] IN o.usage \/ o.wants # ""

LEMMA Fields ==
  ASSUME NEW o \in Knowledge
  PROVE  /\ o.taken \in Seq(Nat) /\ o.operands \in Seq(Nat)
         /\ o.usage \in BOOLEAN /\ o.ended \in BOOLEAN
         /\ o.daemon \in BOOLEAN /\ o.version \in BOOLEAN /\ o.quiet \in BOOLEAN
BY DEF Knowledge

LEMMA TakenFields ==
  ASSUME NEW o \in Knowledge, NEW i \in Nat, Plain(o)
  PROVE  LET t == [o EXCEPT !.taken = Append(@, i)]
         IN  /\ t \in Knowledge /\ Plain(t) /\ Noted(t) = Noted(o)
             /\ t.taken = Append(o.taken, i) /\ t.operands = o.operands
<1>1. [o EXCEPT !.taken = Append(@, i)] \in Knowledge
  BY TakenType
<1> QED BY <1>1 DEF Knowledge, Plain, Noted

LEMMA OperandFields ==
  ASSUME NEW o \in Knowledge, NEW i \in Nat, Plain(o)
  PROVE  LET t == [o EXCEPT !.operands = Append(@, i)]
         IN  /\ t \in Knowledge /\ Plain(t) /\ Noted(t) = Noted(o)
             /\ t.taken = o.taken /\ t.operands = Append(o.operands, i)
<1>1. [o EXCEPT !.operands = Append(@, i)] \in Knowledge
  BY TakenType
<1> QED BY <1>1 DEF Knowledge, Plain, Noted

FlagsSet(o, S, t) ==
  /\ t \in Knowledge /\ t.taken = o.taken /\ t.operands = o.operands
  /\ t.wants = "" /\ ~t.ended
  /\ t.usage <=> ~(S \subseteq Switches)
  /\ t.daemon <=> (o.daemon \/ "D" \in S)
  /\ t.version <=> (o.version \/ "v" \in S)
  /\ t.quiet <=> (o.quiet \/ "q" \in S)
  /\ t.cfile = o.cfile /\ t.signame = o.signame

LEMMA FlagsFields ==
  ASSUME NEW o \in Knowledge, NEW S, Plain(o)
  PROVE  FlagsSet(o, S, Flags(o, S))
<1> DEFINE t == Flags(o, S)
<1>1. t \in Knowledge
  BY FlagsType
<1>2. t.taken = o.taken /\ t.operands = o.operands
  BY DEF Knowledge, Flags
<1>3. t.wants = "" /\ ~t.ended
  BY DEF Knowledge, Plain, Flags
<1>4. t.usage <=> ~(S \subseteq Switches)
  BY DEF Knowledge, Plain, Flags, Switches
<1>5. t.daemon <=> (o.daemon \/ "D" \in S)
  BY DEF Knowledge, Flags
<1>6. t.version <=> (o.version \/ "v" \in S)
  BY DEF Knowledge, Flags
<1>7. t.quiet <=> (o.quiet \/ "q" \in S)
  BY DEF Knowledge, Flags
<1>8. t.cfile = o.cfile /\ t.signame = o.signame
  BY DEF Knowledge, Flags
<1> HIDE DEF t
<1>9. FlagsSet(o, S, t)
  BY <1>1, <1>2, <1>3, <1>4, <1>5, <1>6, <1>7, <1>8 DEF FlagsSet
<1> QED BY <1>9 DEF t

LEMMA ArgumentFields ==
  ASSUME NEW o \in Knowledge, NEW c \in Wanting, NEW arg \in Arg, ~o.usage, ~o.ended
  PROVE  LET t == Argument(o, c, arg)
         IN  /\ t \in Knowledge /\ t.taken = o.taken /\ t.operands = o.operands
             /\ Plain(t) /\ Noted(t) = Choose(Noted(o), c, arg)
<1>1. Argument(o, c, arg) \in Knowledge
  BY ArgumentType
<1>2. CASE c = "c"
  BY <1>1, <1>2 DEF Knowledge, Plain, Argument, Noted, Choose
<1>3. CASE c = "s"
  BY <1>1, <1>3 DEF Knowledge, Plain, Argument, Noted, Choose
<1> QED BY <1>2, <1>3 DEF Wanting

LEMMA WantsFields ==
  ASSUME NEW o \in Knowledge, NEW c \in Wanting, ~o.usage, ~o.ended
  PROVE  LET t == [o EXCEPT !.wants = c]
         IN  /\ t \in Knowledge /\ t.taken = o.taken /\ t.operands = o.operands
             /\ ~t.usage /\ ~t.ended /\ t.wants = c /\ c # "" /\ Noted(t) = Noted(o)
<1>1. [o EXCEPT !.wants = c] \in Knowledge
  BY WantsType
<1>2. c # ""
  BY DEF Wanting
<1> QED BY <1>1, <1>2 DEF Knowledge, Noted

LEMMA NotedNone ==
  ASSUME NEW o \in Knowledge, Plain(o)
  PROVE  Noted(Flags(o, {})) = Noted(o)
<1> DEFINE t == Flags(o, {})
<1>1. FlagsSet(o, {}, t)
  BY FlagsFields
<1> HIDE DEF t
<1>2. /\ t.daemon = o.daemon /\ t.version = o.version /\ t.quiet = o.quiet
      /\ t.cfile = o.cfile /\ t.signame = o.signame
  BY <1>1 DEF FlagsSet, Knowledge
<1>3. Noted(t) = Noted(o)
  BY <1>2, Zenon DEF Noted
<1> QED BY <1>3 DEF t

LEMMA NotedOne ==
  ASSUME NEW o \in Knowledge, NEW S, NEW c \in Switches, NEW arg, Plain(o)
  PROVE  Noted(Flags(o, S \cup {c})) = Choose(Noted(Flags(o, S)), c, arg)
<1> DEFINE p == Flags(o, S)
           q == Flags(o, S \cup {c})
<1>1. FlagsSet(o, S, p) /\ FlagsSet(o, S \cup {c}, q)
  BY FlagsFields
<1> HIDE DEF p, q
<1>2. /\ q.daemon <=> p.daemon \/ c = "D"
      /\ q.version <=> p.version \/ c = "v"
      /\ q.quiet <=> p.quiet \/ c = "q"
      /\ q.cfile = p.cfile /\ q.signame = p.signame
      /\ q.daemon \in BOOLEAN /\ q.version \in BOOLEAN /\ q.quiet \in BOOLEAN
      /\ p.daemon \in BOOLEAN /\ p.version \in BOOLEAN /\ p.quiet \in BOOLEAN
  BY <1>1 DEF FlagsSet, Knowledge
<1>e. q.cfile = p.cfile /\ q.signame = p.signame
  BY <1>2
<1>3. CASE c = "D"
  <2>1. q.daemon = TRUE
    BY <1>2, <1>3
  <2>2. q.version = p.version
    BY <1>2, <1>3
  <2>3. q.quiet = p.quiet
    BY <1>2, <1>3
  <2>4. Choose(Noted(p), c, arg) = [Noted(p) EXCEPT !.daemon = TRUE]
    BY <1>3 DEF Choose
  <2>5. Noted(q) = Choose(Noted(p), c, arg)
    BY <2>1, <2>2, <2>3, <2>4, <1>e, ZenonT(40) DEF Noted
  <2> QED BY <2>5 DEF p, q
<1>4. CASE c = "v"
  <2>1. q.daemon = p.daemon
    BY <1>2, <1>4
  <2>2. q.version = TRUE
    BY <1>2, <1>4
  <2>3. q.quiet = p.quiet
    BY <1>2, <1>4
  <2>4. Choose(Noted(p), c, arg) = [Noted(p) EXCEPT !.version = TRUE]
    BY <1>4 DEF Choose
  <2>5. Noted(q) = Choose(Noted(p), c, arg)
    BY <2>1, <2>2, <2>3, <2>4, <1>e, ZenonT(40) DEF Noted
  <2> QED BY <2>5 DEF p, q
<1>5. CASE c = "q"
  <2>1. q.daemon = p.daemon
    BY <1>2, <1>5
  <2>2. q.version = p.version
    BY <1>2, <1>5
  <2>3. q.quiet = TRUE
    BY <1>2, <1>5
  <2>4. Choose(Noted(p), c, arg) = [Noted(p) EXCEPT !.quiet = TRUE]
    BY <1>5 DEF Choose
  <2>5. Noted(q) = Choose(Noted(p), c, arg)
    BY <2>1, <2>2, <2>3, <2>4, <1>e, ZenonT(40) DEF Noted
  <2> QED BY <2>5 DEF p, q
<1>6. CASE c = "d"
  <2>1. q.daemon = p.daemon
    BY <1>2, <1>6
  <2>2. q.version = p.version
    BY <1>2, <1>6
  <2>3. q.quiet = p.quiet
    BY <1>2, <1>6
  <2>4. Choose(Noted(p), c, arg) = Noted(p)
    BY <1>6 DEF Choose
  <2>5. Noted(q) = Choose(Noted(p), c, arg)
    BY <2>1, <2>2, <2>3, <2>4, <1>e DEF Noted
  <2> QED BY <2>5 DEF p, q
<1> QED BY <1>3, <1>4, <1>5, <1>6 DEF Switches, p, q

-----------------------------------------------------------------------------
(* What one word adds *)

LEMMA PlainWord ==
  ASSUME NEW words \in Seq(Words), NEW n \in 1 .. Len(words), Plain(Reading(words)[n - 1])
  PROVE  LET o == Reading(words)[n - 1]
             t == [o EXCEPT !.taken = Append(@, n)]
             w == words[n]
         IN  /\ o \in Knowledge /\ Reading(words)[n] \in Knowledge /\ w \in Words
             /\ w.kind = "operand" => Reading(words)[n] = [o EXCEPT !.operands = Append(@, n)]
             /\ w.kind = "end" => Reading(words)[n] = [t EXCEPT !.ended = TRUE]
             /\ w.kind = "short" => Reading(words)[n] = ReadLetters(t, n, w.letters)
             /\ w.kind = "long" => Reading(words)[n] = ReadName(t, n, w.name, w.tail)
<1> DEFINE o == Reading(words)[n - 1]
           t == [o EXCEPT !.taken = Append(@, n)]
           w == words[n]
           r == Reading(words)[n]
<1>1. n - 1 \in 0 .. Len(words) /\ n \in 0 .. Len(words) /\ w \in Words
  OBVIOUS
<1>2. o \in Knowledge /\ r \in Knowledge
  BY <1>1, ReadingType
<1>3. r = ReadWord(words, o, n)
  BY ReadingIs
<1>4. w.kind = "operand" => r = [o EXCEPT !.operands = Append(@, n)]
  <2> HIDE DEF r, o
  <2> QED BY <1>3 DEF ReadWord, Plain, o
<1>5. w.kind = "end" => r = [t EXCEPT !.ended = TRUE]
  <2> HIDE DEF r, o
  <2> QED BY <1>3 DEF ReadWord, Plain, o
<1>6. w.kind = "short" => r = ReadLetters(t, n, w.letters)
  <2> HIDE DEF r, o
  <2> QED BY <1>3 DEF ReadWord, Plain, o
<1>7. w.kind = "long" => r = ReadName(t, n, w.name, w.tail)
  <2> HIDE DEF r, o
  <2> QED BY <1>3 DEF ReadWord, Plain, o
<1> QED BY <1>1, <1>2, <1>4, <1>5, <1>6, <1>7

\* The usage text is due as soon as a word is wrong, and when an argument is missing.
LEMMA WrongOnce ==
  ASSUME NEW words \in Seq(Words), NEW n \in 0 .. Len(words), Reading(words)[n].usage
  PROVE  Wrong(words)
<1>1. Reading(words)[Len(words)] = Reading(words)[n]
  BY UsageStays
<1> QED BY <1>1 DEF Wrong

\* The word at opt is taken and nothing is wrong: getopt goes on behind it.
LEMMA WordTaken ==
  ASSUME NEW words \in Seq(Words), NEW nv, NEW opt, NEW ns, NEW ne,
         AtOption(words, nv, opt, ns, ne), Plain(Reading(words)[opt]),
         Reading(words)[opt].taken = Append(Reading(words)[opt - 1].taken, opt),
         Reading(words)[opt].operands = Reading(words)[opt - 1].operands
  PROVE  Between(words, nv, opt + 1, ns, ne, Noted(Reading(words)[opt]))
<1> DEFINE o == Reading(words)[opt - 1]
           r == Reading(words)[opt]
           N == Len(words)
<1>1. /\ opt \in 1 .. N /\ N \in Nat
      /\ Spread(N, nv, opt, ns, ne, o.taken, o.operands)
      /\ o.operands # <<>> => ne # 0
  BY DEF AtOption
<1>2. opt <= N /\ opt + 1 \in 1 .. N + 1 /\ (opt + 1) - 1 = opt
  BY <1>1
<1>r. r.taken = Append(o.taken, opt) /\ r.operands = o.operands
  OBVIOUS
<1> HIDE DEF o, r, N
<1>3. /\ Spread(N, nv, opt + 1, ns, ne, Append(o.taken, opt), o.operands)
      /\ ne # 0 => ne < opt + 1
  BY <1>1, <1>2, AddTaken
<1>4. Spread(N, nv, opt + 1, ns, ne, r.taken, r.operands)
  BY <1>3, <1>r
<1> QED BY <1>2, <1>3, <1>4 DEF Between, o, r, N

\* The same when the next word is its argument.
LEMMA ArgumentTaken ==
  ASSUME NEW words \in Seq(Words), NEW nv, NEW opt, NEW ns, NEW ne, NEW c \in Wanting, NEW s,
         AtOption(words, nv, opt, ns, ne), opt + 1 <= Len(words),
         ~Reading(words)[opt].usage, ~Reading(words)[opt].ended,
         Reading(words)[opt].wants = c, Noted(Reading(words)[opt]) = s,
         Reading(words)[opt].taken = Append(Reading(words)[opt - 1].taken, opt),
         Reading(words)[opt].operands = Reading(words)[opt - 1].operands
  PROVE  Between(words, nv, opt + 2, ns, ne, Choose(s, c, [from |-> opt + 1, skip |-> 0]))
<1> DEFINE o == Reading(words)[opt - 1]
           r == Reading(words)[opt]
           q == Reading(words)[opt + 1]
           N == Len(words)
           t == [r EXCEPT !.taken = Append(@, opt + 1)]
           arg == [from |-> opt + 1, skip |-> 0]
<1>1. /\ opt \in 1 .. N /\ N \in Nat /\ opt + 1 <= N
      /\ Spread(N, nv, opt, ns, ne, o.taken, o.operands)
      /\ o.operands # <<>> => ne # 0
  BY DEF AtOption
<1>2. /\ opt <= N /\ opt + 1 \in 1 .. N /\ (opt + 1) - 1 = opt /\ opt + 2 \in 1 .. N + 1
      /\ (opt + 1) + 1 = opt + 2 /\ (opt + 2) - 1 = opt + 1 /\ opt + 1 \in Nat
      /\ opt \in 0 .. N
  BY <1>1
<1>r. /\ r.taken = Append(o.taken, opt) /\ r.operands = o.operands
      /\ ~r.usage /\ ~r.ended /\ r.wants = c /\ Noted(r) = s
  OBVIOUS
<1>3. r \in Knowledge
  BY <1>2, ReadingType
<1>4. q = ReadWord(words, r, opt + 1)
  BY <1>2, ReadingIs
<1>c. c # ""
  BY DEF Wanting
<1>5. q = Argument(t, c, arg)
  <2> HIDE DEF q, r
  <2> QED BY <1>4, <1>r, <1>c DEF ReadWord
<1> HIDE DEF o, r, N, q
<1>6. t \in Knowledge
  BY <1>2, <1>3, TakenType
<1>7. /\ t.taken = Append(r.taken, opt + 1) /\ t.operands = r.operands
      /\ ~t.usage /\ ~t.ended /\ Noted(t) = Noted(r)
  BY <1>3, <1>r DEF Knowledge, Noted
<1>a. arg \in Arg
  BY <1>2 DEF Arg
<1> HIDE DEF t, arg
<1>8. /\ q.taken = t.taken /\ q.operands = t.operands
      /\ Plain(q) /\ Noted(q) = Choose(Noted(t), c, arg)
  BY <1>5, <1>6, <1>7, <1>a, ArgumentFields
<1>9. /\ Spread(N, nv, opt + 1, ns, ne, r.taken, r.operands)
      /\ r.operands # <<>> => ne # 0
  <2>1. Spread(N, nv, opt + 1, ns, ne, Append(o.taken, opt), o.operands)
    BY <1>1, <1>2, AddTaken
  <2> QED BY <2>1, <1>r, <1>1
<1>10. /\ Spread(N, nv, (opt + 1) + 1, ns, ne, Append(r.taken, opt + 1), r.operands)
       /\ ne # 0 => ne < (opt + 1) + 1
  <2>1. opt + 1 <= N
    BY <1>1
  <2> QED BY <1>1, <1>9, <2>1, AddTaken
<1>11. Spread(N, nv, opt + 2, ns, ne, q.taken, q.operands) /\ (ne # 0 => ne < opt + 2)
  BY <1>2, <1>7, <1>8, <1>10
<1>12. Noted(q) = Choose(s, c, arg)
  BY <1>7, <1>8, <1>r
<1> QED BY <1>2, <1>8, <1>11, <1>12 DEF Between, q, N, arg

-----------------------------------------------------------------------------
(* What one call of getopt_long finds at a word *)

LEMMA BetweenIs ==
  ASSUME NEW words \in Seq(Words), NEW nv, NEW opt, NEW ns, NEW ne, NEW s,
         Between(words, nv, opt, ns, ne, s)
  PROVE  /\ opt \in 1 .. Len(words) + 1 /\ Len(words) \in Nat /\ Len(nv) = Len(words)
         /\ Reading(words)[opt - 1] \in Knowledge
         /\ \A i \in opt .. Len(words) : nv[i] = i
<1>1. /\ opt \in 1 .. Len(words) + 1 /\ Len(words) \in Nat
      /\ Spread(Len(words), nv, opt, ns, ne, Reading(words)[opt - 1].taken,
                Reading(words)[opt - 1].operands)
  BY DEF Between
<1>2. opt - 1 \in 0 .. Len(words)
  BY <1>1
<1>3. Reading(words)[opt - 1] \in Knowledge
  BY <1>2, ReadingType
<1>4. PICK b : Laid(Len(words), nv, opt, b, Reading(words)[opt - 1].taken,
                    Reading(words)[opt - 1].operands)
  BY <1>1 DEF Spread
<1>5. Len(nv) = Len(words)
  BY <1>1, <1>4, LenLaid
<1>6. \A i \in opt .. Len(words) : nv[i] = i
  BY <1>4 DEF Laid
<1> QED BY <1>1, <1>3, <1>5, <1>6

LEMMA AtOptionIs ==
  ASSUME NEW words \in Seq(Words), NEW nv, NEW opt, NEW ns, NEW ne,
         AtOption(words, nv, opt, ns, ne)
  PROVE  /\ opt \in 1 .. Len(words) /\ Len(words) \in Nat /\ Len(nv) = Len(words)
         /\ Reading(words)[opt - 1] \in Knowledge /\ Plain(Reading(words)[opt - 1])
         /\ \A i \in opt .. Len(words) : nv[i] = i
<1>1. /\ opt \in 1 .. Len(words) /\ Len(words) \in Nat
      /\ Spread(Len(words), nv, opt, ns, ne, Reading(words)[opt - 1].taken,
                Reading(words)[opt - 1].operands)
      /\ Plain(Reading(words)[opt - 1])
  BY DEF AtOption
<1>2. opt - 1 \in 0 .. Len(words)
  BY <1>1
<1>3. Reading(words)[opt - 1] \in Knowledge
  BY <1>2, ReadingType
<1>4. PICK b : Laid(Len(words), nv, opt, b, Reading(words)[opt - 1].taken,
                    Reading(words)[opt - 1].operands)
  BY <1>1 DEF Spread
<1>5. Len(nv) = Len(words)
  BY <1>1, <1>4, LenLaid
<1>6. \A i \in opt .. Len(words) : nv[i] = i
  BY <1>4 DEF Laid
<1> QED BY <1>1, <1>3, <1>5, <1>6

\* An operand is skipped; a block passed before is brought to it.
LEMMA SkipOperandFinds ==
  ASSUME NEW words \in Seq(Words), NEW nv, NEW opt, NEW ns, NEW ne, NEW s,
         Between(words, nv, opt, ns, ne, s), opt <= Len(words), words[opt].kind = "operand"
  PROVE  /\ ns = 0 => Between(words, nv, opt + 1, opt, ne, s)
         /\ ns # 0 /\ ne # 0 =>
              Between(words, G!permute_args(ns, ne, opt, nv), opt + 1, opt - (ne - ns), 0, s)
         /\ ns # 0 /\ ne = 0 => Between(words, nv, opt + 1, ns, ne, s)
<1> DEFINE N == Len(words)
           o == Reading(words)[opt - 1]
           r == Reading(words)[opt]
<1>1. /\ opt \in 1 .. N /\ N \in Nat /\ opt + 1 \in 1 .. N + 1 /\ (opt + 1) - 1 = opt
      /\ opt \in Nat /\ opt <= N
  BY BetweenIs
<1>2. /\ Plain(o) /\ s = Noted(o) /\ (ne # 0 => ne < opt)
      /\ Spread(N, nv, opt, ns, ne, o.taken, o.operands)
  BY DEF Between
<1>3. o \in Knowledge /\ r = [o EXCEPT !.operands = Append(@, opt)]
  BY <1>1, <1>2, PlainWord
<1>B. ASSUME NEW nv2, NEW ns2, NEW ne2,
             Spread(N, nv2, opt + 1, ns2, ne2, r.taken, r.operands), ne2 = 0,
             Plain(r), Noted(r) = s
      PROVE  Between(words, nv2, opt + 1, ns2, ne2, s)
  BY <1>1, <1>B DEF Between
<1> HIDE DEF o, r, N
<1>4. /\ Plain(r) /\ Noted(r) = s
      /\ r.taken = o.taken /\ r.operands = Append(o.operands, opt)
  BY <1>1, <1>2, <1>3, OperandFields
<1>5. PICK b : /\ Laid(N, nv, opt, b, o.taken, o.operands)
               /\ \/ ne = 0 /\ b = Len(o.taken) + 1 /\ o.operands = <<>> /\ ns = 0
                  \/ ne = 0 /\ b = Len(o.taken) + 1 /\ o.operands # <<>> /\ ns = b
                  \/ o.operands # <<>> /\ ns = b /\ ne = b + Len(o.operands)
  BY <1>2 DEF Spread
<1>6. /\ Len(o.taken) \in Nat /\ Len(o.operands) \in Nat /\ b \in Nat /\ b >= 1
      /\ o.taken \in Seq(Nat) /\ o.operands \in Seq(Nat)
      /\ Len(o.taken) + Len(o.operands) = opt - 1
  <2>1. /\ o.taken \in Seq(Nat) /\ o.operands \in Seq(Nat) /\ b \in 1 .. Len(o.taken) + 1
        /\ Len(o.taken) + Len(o.operands) = opt - 1
    BY <1>5 DEF Laid
  <2>2. Len(o.taken) \in Nat /\ Len(o.operands) \in Nat
    BY <2>1, LenProperties
  <2>3. b \in Nat /\ b >= 1
    BY <2>1, <2>2
  <2> QED BY <2>1, <2>2, <2>3
<1>7. Append(o.operands, opt) # <<>>
  BY <1>1, <1>6, AppendProperties, SMTT(40)
<1>8. CASE ns = 0
  <2>1. ne = 0 /\ b = Len(o.taken) + 1 /\ o.operands = <<>>
    BY <1>5, <1>6, <1>8
  <2>2. opt = Len(o.taken) + 1
    <3>1. Len(o.operands) = 0
      BY <2>1, EmptySeq
    <3> QED BY <1>1, <1>6, <3>1
  <2>3. Laid(N, nv, opt + 1, Len(o.taken) + 1, o.taken, Append(o.operands, opt))
    BY <1>1, <1>5, <2>1, AddOperand
  <2>4. Spread(N, nv, opt + 1, opt, ne, r.taken, r.operands)
    BY <1>4, <1>7, <2>1, <2>2, <2>3 DEF Spread
  <2> QED BY <1>4, <1>B, <1>8, <2>1, <2>4
<1>9. CASE ns # 0 /\ ne = 0
  <2>1. b = Len(o.taken) + 1 /\ ns = b
    BY <1>5, <1>6, <1>9
  <2>3. Laid(N, nv, opt + 1, Len(o.taken) + 1, o.taken, Append(o.operands, opt))
    BY <1>1, <1>5, <2>1, AddOperand
  <2>4. Spread(N, nv, opt + 1, ns, ne, r.taken, r.operands)
    BY <1>4, <1>7, <1>9, <2>1, <2>3 DEF Spread
  <2> QED BY <1>4, <1>B, <1>9, <2>4
<1>10. CASE ns # 0 /\ ne # 0
  <2> DEFINE w == G!permute_args(ns, ne, opt, nv)
  <2>1. /\ Laid(N, w, opt, Len(o.taken) + 1, o.taken, o.operands)
        /\ opt - (ne - ns) = Len(o.taken) + 1
    BY <1>1, <1>2, <1>10, Exchange
  <2> HIDE DEF w
  <2>3. Laid(N, w, opt + 1, Len(o.taken) + 1, o.taken, Append(o.operands, opt))
    BY <1>1, <2>1, AddOperand
  <2>4. Spread(N, w, opt + 1, opt - (ne - ns), 0, r.taken, r.operands)
    BY <1>4, <1>7, <2>1, <2>3 DEF Spread
  <2>5. Between(words, w, opt + 1, opt - (ne - ns), 0, s)
    BY <1>4, <1>B, <2>4
  <2> QED BY <1>10, <2>5 DEF w
<1> QED BY <1>8, <1>9, <1>10

\* An option begins: a block of operands ends before it.
LEMMA StartWordFinds ==
  ASSUME NEW words \in Seq(Words), NEW nv, NEW opt, NEW ns, NEW ne, NEW s,
         Between(words, nv, opt, ns, ne, s), opt <= Len(words)
  PROVE  LET e == IF ns # 0 /\ ne = 0 THEN opt ELSE ne
         IN  /\ words[opt].kind = "short" => InCluster(words, nv, opt, ns, e, 0, s)
             /\ words[opt].kind = "long" => AtName(words, nv, opt, ns, e, s)
<1> DEFINE e == IF ns # 0 /\ ne = 0 THEN opt ELSE ne
           o == Reading(words)[opt - 1]
           N == Len(words)
           w == words[opt]
<1>1. opt \in 1 .. N /\ N \in Nat /\ o \in Knowledge /\ w \in Words
  BY BetweenIs
<1>2. Plain(o) /\ s = Noted(o) /\ Spread(N, nv, opt, ns, ne, o.taken, o.operands)
  BY DEF Between
<1>3. Spread(N, nv, opt, ns, e, o.taken, o.operands) /\ (o.operands # <<>> => e # 0)
  <2> HIDE DEF o, N
  <2> QED BY <1>1, <1>2, EndBlock
<1>4. AtOption(words, nv, opt, ns, e)
  BY <1>1, <1>2, <1>3 DEF AtOption
<1>5. ASSUME w.kind = "short" PROVE InCluster(words, nv, opt, ns, e, 0, s)
  <2>1. w.letters \in Seq(STRING) /\ w.letters # <<>>
    BY <1>1, <1>5, WordIs
  <2>2. Len(w.letters) \in Nat \ {0}
    BY <2>1, EmptySeq
  <2>3. Upto(w.letters, 0) = {}
    BY DEF Upto
  <2>4. Noted(Flags(o, Upto(w.letters, 0))) = s
    BY <1>1, <1>2, <2>3, NotedNone
  <2>5. 0 \in 0 .. Len(w.letters) - 1
    BY <2>2
  <2> QED BY <1>4, <1>5, <2>3, <2>4, <2>5 DEF InCluster
<1>6. ASSUME w.kind = "long" PROVE AtName(words, nv, opt, ns, e, s)
  BY <1>2, <1>4, <1>6 DEF AtName
<1> QED BY <1>5, <1>6

LEMMA LaidLens ==
  ASSUME NEW N \in Nat, NEW nv, NEW opt, NEW b, NEW A, NEW O, Laid(N, nv, opt, b, A, O)
  PROVE  /\ Len(A) \in Nat /\ Len(O) \in Nat /\ b \in Nat /\ b >= 1
         /\ opt = Len(A) + Len(O) + 1
         /\ O = <<>> => opt = Len(A) + 1
<1>1. /\ A \in Seq(Nat) /\ O \in Seq(Nat) /\ b \in 1 .. Len(A) + 1
      /\ Len(A) + Len(O) = opt - 1 /\ opt \in 1 .. N + 1
  BY DEF Laid
<1>2. Len(A) \in Nat /\ Len(O) \in Nat
  BY <1>1, LenProperties
<1>3. O = <<>> => Len(O) = 0
  BY EmptySeq
<1> QED BY <1>1, <1>2, <1>3

LEMMA FromNone ==
  ASSUME NEW N \in Nat, NEW q \in Seq(Nat)
  PROVE  q \o From(N, N) = q
<1>1. From(N, N) = <<>>
  BY DEF From
<1> QED BY <1>1, ConcatEmptySeq

\* Behind the last word: the last block of operands is brought to the end.
LEMMA EndOfWordsFinds ==
  ASSUME NEW words \in Seq(Words), NEW nv, NEW opt, NEW ns, NEW ne, NEW s,
         Between(words, nv, opt, ns, ne, s), opt > Len(words)
  PROVE  /\ opt = Len(words) + 1
         /\ ne # 0 => Scanned(words, G!permute_args(ns, ne, opt, nv), opt - (ne - ns), s)
         /\ ne = 0 => Scanned(words, nv, IF ns # 0 THEN ns ELSE opt, s)
<1> DEFINE N == Len(words)
           o == Reading(words)[opt - 1]
           r == Reading(words)[N]
<1>1. opt = N + 1 /\ N \in Nat /\ o \in Knowledge /\ N \in 0 .. N
  BY BetweenIs
<1>2. /\ Plain(o) /\ s = Noted(o) /\ (ne # 0 => ne < opt)
      /\ Spread(N, nv, opt, ns, ne, o.taken, o.operands)
  BY DEF Between
<1>3. r = o
  BY <1>1
<1>S. ASSUME NEW nv2, NEW opt2, Good(r), s = Noted(r),
             opt2 = Len(r.taken) + 1, nv2 = r.taken \o r.operands
      PROVE  Scanned(words, nv2, opt2, s)
  BY <1>S DEF Scanned
<1> HIDE DEF N, o, r
<1>4. Good(r) /\ s = Noted(r) /\ r.taken \in Seq(Nat) /\ r.operands \in Seq(Nat)
  BY <1>1, <1>2, <1>3, Fields DEF Plain, Good
<1>5. CASE ne # 0
  <2> DEFINE w == G!permute_args(ns, ne, opt, nv)
  <2>1. /\ Laid(N, w, opt, Len(o.taken) + 1, o.taken, o.operands)
        /\ opt - (ne - ns) = Len(o.taken) + 1
    BY <1>1, <1>2, <1>5, Exchange
  <2> HIDE DEF w
  <2>2. w = r.taken \o (r.operands \o From(N, N))
    BY <1>1, <1>3, <2>1, AllLaid
  <2>3. w = r.taken \o r.operands
    BY <1>1, <1>4, <2>2, FromNone
  <2>4. Scanned(words, w, opt - (ne - ns), s)
    BY <1>3, <1>4, <1>S, <2>1, <2>3
  <2> QED BY <1>1, <1>5, <2>4 DEF w, N
<1>6. CASE ne = 0
  <2>1. PICK b : /\ Laid(N, nv, opt, b, o.taken, o.operands)
                 /\ \/ ne = 0 /\ b = Len(o.taken) + 1 /\ o.operands = <<>> /\ ns = 0
                    \/ ne = 0 /\ b = Len(o.taken) + 1 /\ o.operands # <<>> /\ ns = b
                    \/ o.operands # <<>> /\ ns = b /\ ne = b + Len(o.operands)
    BY <1>2 DEF Spread
  <2>2. /\ Len(o.taken) \in Nat /\ Len(o.operands) \in Nat /\ b \in Nat /\ b >= 1
        /\ o.operands = <<>> => opt = Len(o.taken) + 1
    BY <1>1, <2>1, LaidLens
  <2>3. b = Len(o.taken) + 1 /\ (ns = 0 => o.operands = <<>>) /\ (ns # 0 => ns = b)
    BY <1>6, <2>1, <2>2
  <2>4. nv = r.taken \o (r.operands \o From(N, N))
    BY <1>1, <1>3, <2>1, <2>3, AllLaid
  <2>5. nv = r.taken \o r.operands
    BY <1>1, <1>4, <2>4, FromNone
  <2>6. ns = 0 => opt = Len(o.taken) + 1
    BY <2>2, <2>3
  <2>7. (IF ns # 0 THEN ns ELSE opt) = Len(r.taken) + 1
    BY <1>3, <2>3, <2>6
  <2>8. Scanned(words, nv, IF ns # 0 THEN ns ELSE opt, s)
    BY <1>4, <1>S, <2>5, <2>7
  <2> QED BY <1>1, <1>6, <2>8 DEF N
<1> QED BY <1>5, <1>6

\* "--" is taken, and what is behind it are operands.
LEMMA DashDashFinds ==
  ASSUME NEW words \in Seq(Words), NEW nv, NEW opt, NEW ns, NEW ne, NEW s,
         Between(words, nv, opt, ns, ne, s), opt <= Len(words), words[opt].kind = "end"
  PROVE  LET e == IF ns # 0 /\ ne = 0 THEN opt ELSE ne
         IN  /\ e # 0 => Scanned(words, G!permute_args(ns, e, opt + 1, nv),
                                 (opt + 1) - (e - ns), s)
             /\ e = 0 => Scanned(words, nv, opt + 1, s)
<1> DEFINE e == IF ns # 0 /\ ne = 0 THEN opt ELSE ne
           N == Len(words)
           o == Reading(words)[opt - 1]
           t == [o EXCEPT !.taken = Append(@, opt)]
           d == Reading(words)[opt]
           r == Reading(words)[N]
<1>1. opt \in 1 .. N /\ N \in Nat /\ opt \in 0 .. N /\ opt <= N /\ opt \in Nat /\ N \in opt .. N
  BY BetweenIs
<1>2. /\ Plain(o) /\ s = Noted(o)
      /\ Spread(N, nv, opt, ns, ne, o.taken, o.operands)
  BY DEF Between
<1>3. o \in Knowledge /\ d = [t EXCEPT !.ended = TRUE]
  BY <1>1, <1>2, PlainWord
<1>4. t \in Knowledge /\ Plain(t) /\ Noted(t) = s
      /\ t.taken = Append(o.taken, opt) /\ t.operands = o.operands
  <2> HIDE DEF o
  <2> QED BY <1>1, <1>2, <1>3, TakenFields
<1>5. d \in Knowledge /\ DashDashed(d) /\ Noted(d) = s
      /\ d.taken = Append(o.taken, opt) /\ d.operands = o.operands
  <2>1. d \in Knowledge
    BY <1>1, ReadingType
  <2> HIDE DEF d, t, o
  <2> QED BY <1>3, <1>4, <2>1 DEF Knowledge, DashDashed, Good, Plain, Noted
<1>6. r = [d EXCEPT !.operands = @ \o From(opt, N)]
  <2>1. \A n \in opt .. Len(words) :
          Reading(words)[n] = [Reading(words)[opt] EXCEPT !.operands = @ \o From(opt, n)]
    BY <1>1, <1>5, EndedStays
  <2> QED BY <1>1, <2>1
<1>S. ASSUME NEW nv2, NEW opt2, Good(r), s = Noted(r),
             opt2 = Len(r.taken) + 1, nv2 = r.taken \o r.operands
      PROVE  Scanned(words, nv2, opt2, s)
  BY <1>S DEF Scanned
<1> HIDE DEF N, o, t, d, r
<1>7. /\ Good(r) /\ s = Noted(r)
      /\ r.taken = d.taken /\ r.operands = d.operands \o From(opt, N)
  BY <1>5, <1>6 DEF Knowledge, DashDashed, Good, Noted
<1>8. Spread(N, nv, opt, ns, e, o.taken, o.operands) /\ (o.operands # <<>> <=> e # 0)
  BY <1>1, <1>2, EndBlock
<1>e. e = IF ns # 0 /\ ne = 0 THEN opt ELSE ne
  OBVIOUS
<1> HIDE DEF e
<1>9. /\ Spread(N, nv, opt + 1, ns, e, d.taken, d.operands)
      /\ e # 0 => e < opt + 1
  <2>1. o.operands # <<>> => e # 0
    BY <1>8
  <2>2. /\ Spread(N, nv, opt + 1, ns, e, Append(o.taken, opt), o.operands)
        /\ e # 0 => e < opt + 1
    BY <1>1, <1>8, <2>1, AddTaken
  <2> QED BY <1>5, <2>2
<1>10. ASSUME e # 0
       PROVE  Scanned(words, G!permute_args(ns, e, opt + 1, nv), (opt + 1) - (e - ns), s)
  <2> DEFINE w == G!permute_args(ns, e, opt + 1, nv)
  <2>1. /\ Laid(N, w, opt + 1, Len(d.taken) + 1, d.taken, d.operands)
        /\ (opt + 1) - (e - ns) = Len(d.taken) + 1
    BY <1>1, <1>9, <1>10, Exchange
  <2> HIDE DEF w
  <2>2. w = d.taken \o (d.operands \o From(opt, N))
    BY <1>1, <2>1, AllLaid
  <2>3. w = r.taken \o r.operands
    BY <1>7, <2>2
  <2>4. Scanned(words, w, (opt + 1) - (e - ns), s)
    <3>1. Good(r) /\ s = Noted(r) /\ (opt + 1) - (e - ns) = Len(r.taken) + 1
      BY <1>7, <2>1
    <3>2. PICK x : x = (opt + 1) - (e - ns)
      OBVIOUS
    <3>3. x = Len(r.taken) + 1
      BY <3>1, <3>2
    <3>4. Scanned(words, w, x, s)
      BY <3>1, <3>3, <1>S, <2>3
    <3> QED BY <3>2, <3>4
  <2> QED BY <2>4 DEF w
<1>11. ASSUME e = 0 PROVE Scanned(words, nv, opt + 1, s)
  <2>0. o.operands = <<>>
    BY <1>8, <1>11
  <2>1. PICK b : /\ Laid(N, nv, opt + 1, b, d.taken, d.operands)
                 /\ \/ b = Len(d.taken) + 1
                    \/ d.operands # <<>>
    BY <1>9, <1>11 DEF Spread
  <2>2. b = Len(d.taken) + 1
    BY <1>5, <2>0, <2>1
  <2>3. nv = d.taken \o (d.operands \o From(opt, N))
    BY <1>1, <2>1, <2>2, AllLaid
  <2>4. nv = r.taken \o r.operands
    BY <1>7, <2>3
  <2>5. opt + 1 = Len(r.taken) + 1
    <3>1. d.taken \in Seq(Nat) /\ Len(d.taken) + Len(d.operands) = (opt + 1) - 1
      BY <2>1 DEF Laid
    <3>2. Len(d.operands) = 0
      BY <1>5, <2>0, EmptySeq
    <3>3. Len(d.taken) \in Nat
      BY <3>1, LenProperties
    <3> QED BY <1>1, <1>7, <3>1, <3>2, <3>3
  <2> QED BY <1>7, <1>S, <2>4, <2>5
<1> QED BY <1>10, <1>11 DEF e

LEMMA NotedFlags ==
  ASSUME NEW o \in Knowledge, NEW t \in Knowledge, NEW S, Plain(o), Plain(t), Noted(t) = Noted(o)
  PROVE  Noted(Flags(t, S)) = Noted(Flags(o, S))
<1> DEFINE p == Flags(o, S)
           q == Flags(t, S)
<1>1. FlagsSet(o, S, p) /\ FlagsSet(t, S, q)
  BY FlagsFields
<1>2. /\ t.daemon = o.daemon /\ t.version = o.version /\ t.quiet = o.quiet
      /\ t.cfile = o.cfile /\ t.signame = o.signame
  BY DEF Noted
<1> HIDE DEF p, q
<1>3. q.daemon = p.daemon
  BY <1>1, <1>2 DEF FlagsSet, Knowledge
<1>4. q.version = p.version
  BY <1>1, <1>2 DEF FlagsSet, Knowledge
<1>5. q.quiet = p.quiet
  BY <1>1, <1>2 DEF FlagsSet, Knowledge
<1>6. q.cfile = p.cfile /\ q.signame = p.signame
  BY <1>1, <1>2 DEF FlagsSet
<1>7. Noted(q) = Noted(p)
  BY <1>3, <1>4, <1>5, <1>6, Zenon DEF Noted
<1> QED BY <1>7 DEF p, q

ClusterNoted(words, opt, k) ==
  Noted(Flags([Reading(words)[opt - 1] EXCEPT !.taken = Append(@, opt)],
              Upto(words[opt].letters, k)))

\* What InCluster says of the letters, and what they add to what is known.
LEMMA ClusterIs ==
  ASSUME NEW words \in Seq(Words), NEW nv, NEW opt, NEW ns, NEW ne, NEW k, NEW s,
         InCluster(words, nv, opt, ns, ne, k, s)
  PROVE  LET o == Reading(words)[opt - 1]
             t == [o EXCEPT !.taken = Append(@, opt)]
             x == words[opt].letters
         IN  /\ opt \in 1 .. Len(words) /\ Len(words) \in Nat /\ AtOption(words, nv, opt, ns, ne)
             /\ x \in Seq(STRING) /\ k \in Nat /\ k + 1 \in 1 .. Len(x) /\ Len(x) \in Nat
             /\ \A j \in 1 .. k : x[j] \in Switches
             /\ o \in Knowledge /\ Plain(o) /\ t \in Knowledge /\ Plain(t)
             /\ t.taken = Append(o.taken, opt) /\ t.operands = o.operands
             /\ Reading(words)[opt] = ReadLetters(t, opt, x)
             /\ Reading(words)[opt] \in Knowledge
<1> DEFINE o == Reading(words)[opt - 1]
           t == [o EXCEPT !.taken = Append(@, opt)]
           x == words[opt].letters
<1>1. /\ AtOption(words, nv, opt, ns, ne) /\ words[opt].kind = "short"
      /\ k \in 0 .. Len(x) - 1 /\ Upto(x, k) \subseteq Switches
      /\ s = Noted(Flags(o, Upto(x, k)))
  BY DEF InCluster
<1>2. opt \in 1 .. Len(words) /\ Len(words) \in Nat /\ o \in Knowledge /\ Plain(o) /\ opt \in Nat
  BY <1>1, AtOptionIs
<1>3. /\ words[opt] \in Words /\ Reading(words)[opt] = ReadLetters(t, opt, x)
      /\ Reading(words)[opt] \in Knowledge
  BY <1>1, <1>2, PlainWord
<1>4. x \in Seq(STRING) /\ x # <<>>
  BY <1>1, <1>3, WordIs
<1>5. Len(x) \in Nat /\ k \in Nat /\ k + 1 \in 1 .. Len(x)
  <2>1. Len(x) \in Nat
    BY <1>4, LenProperties
  <2> HIDE DEF x
  <2> QED BY <1>1, <2>1
<1>6. \A j \in 1 .. k : x[j] \in Switches
  BY <1>1 DEF Upto
<1>7. /\ t \in Knowledge /\ Plain(t) /\ Noted(t) = Noted(o)
      /\ t.taken = Append(o.taken, opt) /\ t.operands = o.operands
  <2> HIDE DEF o
  <2> QED BY <1>2, TakenFields
<1> QED BY <1>1, <1>2, <1>3, <1>4, <1>5, <1>6, <1>7

LEMMA ClusterNotes ==
  ASSUME NEW words \in Seq(Words), NEW nv, NEW opt, NEW ns, NEW ne, NEW k, NEW s,
         InCluster(words, nv, opt, ns, ne, k, s)
  PROVE  s = ClusterNoted(words, opt, k)
<1> DEFINE o == Reading(words)[opt - 1]
           t == [o EXCEPT !.taken = Append(@, opt)]
           x == words[opt].letters
<1>1. s = Noted(Flags(o, Upto(x, k)))
  BY DEF InCluster
<1>2. opt \in Nat /\ o \in Knowledge /\ Plain(o)
  <2>1. AtOption(words, nv, opt, ns, ne)
    BY DEF InCluster
  <2> QED BY <2>1, AtOptionIs
<1>3. t \in Knowledge /\ Plain(t) /\ Noted(t) = Noted(o)
  <2> HIDE DEF o
  <2> QED BY <1>2, TakenFields
<1>4. s = Noted(Flags(t, Upto(x, k)))
  <2> HIDE DEF o, t, x
  <2> QED BY <1>1, <1>2, <1>3, NotedFlags
<1> QED BY <1>4, Zenon DEF ClusterNoted

LEMMA UptoNext ==
  ASSUME NEW x \in Seq(STRING), NEW k \in Nat
  PROVE  Upto(x, k + 1) = Upto(x, k) \cup {x[k + 1]}
<1>1. \A j : j \in 1 .. k + 1 <=> j \in 1 .. k \/ j = k + 1
  OBVIOUS
<1> QED BY <1>1 DEF Upto

LEMMA Apart == Switches \cap Wanting = {}
BY DEF Switches, Wanting

\* A letter that wants no argument.
LEMMA SwitchFinds ==
  ASSUME NEW words \in Seq(Words), NEW nv, NEW opt, NEW ns, NEW ne, NEW k, NEW s, NEW arg,
         InCluster(words, nv, opt, ns, ne, k, s), words[opt].letters[k + 1] \in Switches
  PROVE  LET x == words[opt].letters
             s2 == Choose(s, x[k + 1], arg)
         IN  /\ k + 1 = Len(x) => Between(words, nv, opt + 1, ns, ne, s2)
             /\ k + 1 # Len(x) => InCluster(words, nv, opt, ns, ne, k + 1, s2)
<1> DEFINE o == Reading(words)[opt - 1]
           t == [o EXCEPT !.taken = Append(@, opt)]
           r == Reading(words)[opt]
           x == words[opt].letters
<1>1. /\ opt \in 1 .. Len(words) /\ AtOption(words, nv, opt, ns, ne)
      /\ x \in Seq(STRING) /\ k \in Nat /\ k + 1 \in 1 .. Len(x) /\ Len(x) \in Nat
      /\ \A j \in 1 .. k : x[j] \in Switches
      /\ o \in Knowledge /\ Plain(o) /\ t \in Knowledge /\ Plain(t)
      /\ t.taken = Append(o.taken, opt) /\ t.operands = o.operands
      /\ s = Noted(Flags(t, Upto(x, k)))
      /\ r = ReadLetters(t, opt, x)
  <2>1. /\ opt \in 1 .. Len(words) /\ AtOption(words, nv, opt, ns, ne)
        /\ x \in Seq(STRING) /\ k \in Nat /\ k + 1 \in 1 .. Len(x) /\ Len(x) \in Nat
        /\ \A j \in 1 .. k : x[j] \in Switches
    BY ClusterIs
  <2>2. o \in Knowledge /\ Plain(o) /\ t \in Knowledge /\ Plain(t)
    BY ClusterIs
  <2>3. t.taken = Append(o.taken, opt) /\ t.operands = o.operands
    BY ClusterIs
  <2>4. s = ClusterNoted(words, opt, k)
    BY ClusterNotes
  <2>5. r = ReadLetters(t, opt, x)
    BY ClusterIs
  <2>6. s = Noted(Flags(t, Upto(x, k)))
    BY <2>4, Zenon DEF ClusterNoted
  <2> QED BY <2>1, <2>2, <2>3, <2>5, <2>6, Zenon
<1> DEFINE s2 == Choose(s, x[k + 1], arg)
           F == Flags(t, Upto(x, k + 1))
<1>2. x[k + 1] \in Switches /\ words[opt].kind = "short"
  BY DEF InCluster
<1>t. Noted(t) = Noted(o)
  <2> HIDE DEF o
  <2> QED BY <1>1, TakenFields
<1>W. ASSUME Plain(r), r.taken = Append(o.taken, opt), r.operands = o.operands
      PROVE  Between(words, nv, opt + 1, ns, ne, Noted(r))
  BY <1>1, <1>W, WordTaken
<1>C. ASSUME k + 1 \in 0 .. Len(x) - 1, Upto(x, k + 1) \subseteq Switches,
             s2 = Noted(Flags(o, Upto(x, k + 1)))
      PROVE  InCluster(words, nv, opt, ns, ne, k + 1, s2)
  BY <1>1, <1>2, <1>C DEF InCluster
<1> HIDE DEF o, t, r, x
<1>3. s2 = Noted(F)
  <2>1. Upto(x, k + 1) = Upto(x, k) \cup {x[k + 1]}
    BY <1>1, UptoNext
  <2>2. Noted(Flags(t, Upto(x, k) \cup {x[k + 1]})) =
          Choose(Noted(Flags(t, Upto(x, k))), x[k + 1], arg)
    BY <1>1, <1>2, NotedOne, ZenonT(40)
  <2> QED BY <1>1, <2>1, <2>2, Zenon
<1>4. \A j \in 1 .. k + 1 : x[j] \in Switches
  BY <1>1, <1>2
<1>5. Upto(x, k + 1) \subseteq Switches
  BY <1>4 DEF Upto
<1>6. FlagsSet(t, Upto(x, k + 1), F)
  BY <1>1, FlagsFields
<1> HIDE DEF s2, F
<1>7. ASSUME k + 1 = Len(x) PROVE Between(words, nv, opt + 1, ns, ne, s2)
  <2>1. \A j \in DOMAIN x : x[j] \notin Wanting
    <3>1. \A j \in DOMAIN x : j \in 1 .. k + 1
      BY <1>1, <1>7
    <3> QED BY <3>1, <1>4, Apart
  <2>2. r = F
    BY <1>1, <1>7, <2>1, LettersRead DEF F
  <2>3. Plain(r) /\ r.taken = Append(o.taken, opt) /\ r.operands = o.operands
    BY <1>1, <1>5, <1>6, <2>2 DEF FlagsSet, Plain
  <2> QED BY <1>3, <1>W, <2>2, <2>3
<1>8. ASSUME k + 1 # Len(x) PROVE InCluster(words, nv, opt, ns, ne, k + 1, s2)
  <2>1. k + 1 \in 0 .. Len(x) - 1
    BY <1>1, <1>8
  <2>2. s2 = Noted(Flags(o, Upto(x, k + 1)))
    BY <1>1, <1>3, <1>t, NotedFlags DEF F
  <2> QED BY <1>5, <1>C, <2>1, <2>2
<1> QED BY <1>7, <1>8 DEF x, s2

\* A letter that is none of the table.
LEMMA WrongLetterFinds ==
  ASSUME NEW words \in Seq(Words), NEW nv, NEW opt, NEW ns, NEW ne, NEW k, NEW s,
         InCluster(words, nv, opt, ns, ne, k, s),
         words[opt].letters[k + 1] \notin Switches \cup Wanting
  PROVE  Wrong(words)
<1> DEFINE o == Reading(words)[opt - 1]
           t == [o EXCEPT !.taken = Append(@, opt)]
           r == Reading(words)[opt]
           x == words[opt].letters
<1>1. /\ opt \in 1 .. Len(words) /\ Len(words) \in Nat
      /\ x \in Seq(STRING) /\ k \in Nat /\ k + 1 \in 1 .. Len(x) /\ Len(x) \in Nat
      /\ \A j \in 1 .. k : x[j] \in Switches
      /\ t \in Knowledge /\ Plain(t)
      /\ r = ReadLetters(t, opt, x) /\ r \in Knowledge
  BY ClusterIs
<1>2. x[k + 1] \notin Switches /\ x[k + 1] \notin Wanting /\ opt \in 0 .. Len(words)
  BY <1>1
<1>U. r.usage => Wrong(words)
  BY <1>2, WrongOnce
<1> HIDE DEF t, r, x
<1>3. ASSUME NEW n \in Nat, k + 1 <= n PROVE Flags(t, Upto(x, n)).usage
  <2>1. x[k + 1] \in Upto(x, n)
    BY <1>1, <1>3 DEF Upto
  <2>2. FlagsSet(t, Upto(x, n), Flags(t, Upto(x, n)))
    BY <1>1, FlagsFields
  <2> QED BY <1>2, <2>1, <2>2 DEF FlagsSet
<1>4. r.usage
  <2>1. CASE \A j \in DOMAIN x : x[j] \notin Wanting
    <3>1. r = Flags(t, Upto(x, Len(x)))
      BY <1>1, <2>1, LettersRead
    <3> QED BY <1>1, <1>3, <3>1
  <2>2. CASE \E j \in DOMAIN x : x[j] \in Wanting
    <3>1. {n \in DOMAIN x : x[n] \in Wanting} # {}
      BY <2>2
    <3>2. PICK m : FirstWanting(x, m)
      BY <1>1, <3>1, FirstThere
    <3> DEFINE F == Flags(t, Upto(x, m - 1))
    <3>3. m \in 1 .. Len(x) /\ x[m] \in Wanting /\ m \in Nat
      BY <1>1, <3>2 DEF FirstWanting
    <3>4. m > k + 1
      <4>1. m # k + 1 /\ m \notin 1 .. k
        BY <1>1, <1>2, <3>3, Apart
      <4> QED BY <1>1, <3>3, <4>1
    <3>5. F.usage /\ F \in Knowledge
      <4>1. m - 1 \in Nat /\ k + 1 <= m - 1
        BY <1>1, <3>3, <3>4
      <4> QED BY <1>1, <1>3, <4>1, FlagsType
    <3>6. r = IF m < Len(x) THEN Argument(F, x[m], [from |-> opt, skip |-> m])
              ELSE [F EXCEPT !.wants = x[m]]
      BY <1>1, <3>2, LettersRead
    <3> HIDE DEF F
    <3>7. \A c, arg : Argument(F, c, arg).usage
      BY <3>5 DEF Argument, Knowledge
    <3>8. \A c : [F EXCEPT !.wants = c].usage
      BY <3>5 DEF Knowledge
    <3> QED BY <3>6, <3>7, <3>8
  <2> QED BY <2>1, <2>2
<1> QED BY <1>4, <1>U

\* A letter that wants an argument: the rest of the word, the next word, or none.
LEMMA WantingLetterFinds ==
  ASSUME NEW words \in Seq(Words), NEW nv, NEW opt, NEW ns, NEW ne, NEW k, NEW s,
         InCluster(words, nv, opt, ns, ne, k, s), words[opt].letters[k + 1] \in Wanting
  PROVE  LET x == words[opt].letters IN
         /\ k + 1 < Len(x) =>
              Between(words, nv, opt + 1, ns, ne,
                      Choose(s, x[k + 1], [from |-> opt, skip |-> k + 1]))
         /\ k + 1 = Len(x) /\ opt + 1 <= Len(words) =>
              Between(words, nv, opt + 2, ns, ne,
                      Choose(s, x[k + 1], [from |-> opt + 1, skip |-> 0]))
         /\ k + 1 = Len(x) /\ opt = Len(words) => Wrong(words)
<1> DEFINE o == Reading(words)[opt - 1]
           t == [o EXCEPT !.taken = Append(@, opt)]
           r == Reading(words)[opt]
           x == words[opt].letters
<1>1. /\ opt \in 1 .. Len(words) /\ Len(words) \in Nat /\ AtOption(words, nv, opt, ns, ne)
      /\ x \in Seq(STRING) /\ k \in Nat /\ k + 1 \in 1 .. Len(x) /\ Len(x) \in Nat
      /\ \A j \in 1 .. k : x[j] \in Switches
  BY ClusterIs
<1>2. o \in Knowledge /\ Plain(o) /\ t \in Knowledge /\ Plain(t)
  BY ClusterIs
<1>3. t.taken = Append(o.taken, opt) /\ t.operands = o.operands
  BY ClusterIs
<1>4. s = Noted(Flags(t, Upto(x, k)))
  <2>1. s = ClusterNoted(words, opt, k)
    BY ClusterNotes
  <2> QED BY <2>1, Zenon DEF ClusterNoted
<1>5. r = ReadLetters(t, opt, x)
  BY ClusterIs
<1>x. x[k + 1] \in Wanting
  OBVIOUS
<1>W. ASSUME Plain(r), r.taken = Append(o.taken, opt), r.operands = o.operands
      PROVE  Between(words, nv, opt + 1, ns, ne, Noted(r))
  BY <1>1, <1>W, WordTaken
<1>A. ASSUME NEW c \in Wanting, opt + 1 <= Len(words), ~r.usage, ~r.ended, r.wants = c,
             Noted(r) = s, r.taken = Append(o.taken, opt), r.operands = o.operands
      PROVE  Between(words, nv, opt + 2, ns, ne, Choose(s, c, [from |-> opt + 1, skip |-> 0]))
  BY <1>1, <1>A, ArgumentTaken
<1>M. opt = Len(words) /\ r.wants # "" => Wrong(words)
  BY DEF Wrong
<1> DEFINE F == Flags(t, Upto(x, k))
           c == x[k + 1]
           arg == [from |-> opt, skip |-> k + 1]
<1> HIDE DEF o, t, r, x
<1>6. FirstWanting(x, k + 1)
  <2>1. ASSUME NEW j \in DOMAIN x, x[j] \in Wanting PROVE k + 1 <= j
    <3>1. j \notin 1 .. k /\ j \in 1 .. Len(x)
      BY <1>1, <2>1, Apart
    <3> QED BY <1>1, <3>1
  <2>2. k + 1 \in DOMAIN x
    BY <1>1
  <2> QED BY <1>x, <2>1, <2>2 DEF FirstWanting
<1>7. (k + 1) - 1 = k
  BY <1>1
<1>8. r = IF k + 1 < Len(x) THEN Argument(F, c, arg) ELSE [F EXCEPT !.wants = c]
  <2>1. r = IF k + 1 < Len(x)
            THEN Argument(Flags(t, Upto(x, (k + 1) - 1)), x[k + 1], [from |-> opt, skip |-> k + 1])
            ELSE [Flags(t, Upto(x, (k + 1) - 1)) EXCEPT !.wants = x[k + 1]]
    BY <1>1, <1>5, <1>6, LettersRead
  <2> QED BY <1>7, <2>1
<1>9. FlagsSet(t, Upto(x, k), F)
  BY <1>2, FlagsFields
<1>10. Upto(x, k) \subseteq Switches
  BY <1>1 DEF Upto
<1>11. /\ F \in Knowledge /\ ~F.usage /\ ~F.ended /\ F.taken = t.taken /\ F.operands = t.operands
       /\ s = Noted(F)
  BY <1>4, <1>9, <1>10 DEF FlagsSet
<1>12. arg \in Arg /\ c \in Wanting
  BY <1>1, <1>x DEF Arg
<1> HIDE DEF F, c, arg
<1>13. ASSUME k + 1 < Len(x) PROVE Between(words, nv, opt + 1, ns, ne, Choose(s, c, arg))
  <2>1. r = Argument(F, c, arg)
    BY <1>8, <1>13
  <2>2. r.taken = F.taken /\ r.operands = F.operands /\ Plain(r) /\ Noted(r) = Choose(s, c, arg)
    BY <1>11, <1>12, <2>1, ArgumentFields
  <2> QED BY <1>3, <1>11, <1>W, <2>2
<1>14. ASSUME k + 1 = Len(x)
       PROVE  /\ ~r.usage /\ ~r.ended /\ r.wants = c /\ c # "" /\ Noted(r) = s
              /\ r.taken = Append(o.taken, opt) /\ r.operands = o.operands
  <2>1. r = [F EXCEPT !.wants = c]
    BY <1>1, <1>8, <1>14
  <2> QED BY <1>3, <1>11, <1>12, <2>1, WantsFields
<1>15. ASSUME k + 1 = Len(x), opt + 1 <= Len(words)
       PROVE  Between(words, nv, opt + 2, ns, ne, Choose(s, c, [from |-> opt + 1, skip |-> 0]))
  BY <1>12, <1>14, <1>15, <1>A
<1>16. ASSUME k + 1 = Len(x), opt = Len(words) PROVE Wrong(words)
  BY <1>14, <1>16, <1>M
<1> QED BY <1>13, <1>15, <1>16 DEF c, arg, x

\* n is the one name of the table that begins so.
Means(name, n) == /\ n \in DOMAIN LetterOf /\ Begins[name] = {n}
                  /\ n = CHOOSE m \in DOMAIN LetterOf : Begins[name] = {m}

\* A name that stands for none of the options, or for more than one, is wrong; the
\* others are one of the table.
LEMMA NameIs ==
  ASSUME NEW name \in DOMAIN Begins, G!Match(name) # 0
  PROVE  \E n :
           /\ Means(name, n)
           /\ longopts[G!Match(name)].val = LetterOf[n]
           /\ longopts[G!Match(name)].has_arg <=> LetterOf[n] \in Wanting
<1>1. PICK n \in DOMAIN LetterOf : Begins[name] = {n}
  BY MatchNone
<1>2. \A m \in DOMAIN LetterOf : Begins[name] = {m} => m = n
  BY <1>1
<1>3. n = CHOOSE m \in DOMAIN LetterOf : Begins[name] = {m}
  BY <1>1, <1>2
<1>4. /\ longopts[G!Match(name)].val = LetterOf[n]
      /\ longopts[G!Match(name)].has_arg <=> LetterOf[n] \in Wanting
  BY <1>1, MatchOne
<1> QED BY <1>1, <1>3, <1>4 DEF Means

LEMMA LettersOfTable ==
  ASSUME NEW n \in DOMAIN LetterOf
  PROVE  LetterOf[n] \in Switches \cup Wanting \cup {"h"}
<1>1. n \in {"daemon", "config", "debug", "help", "version", "quiet", "signal"}
  BY DEF LetterOf
<1> QED BY <1>1 DEF LetterOf, Switches, Wanting

OptionRead(o, i, c, tail) ==
  IF c \notin Wanting
  THEN IF tail THEN [o EXCEPT !.usage = TRUE] ELSE Flags(o, {c})
  ELSE IF tail THEN Argument(o, c, [from |-> i, skip |-> 1])
  ELSE [o EXCEPT !.wants = c]

LEMMA NameRead ==
  ASSUME NEW o, NEW i, NEW name \in DOMAIN Begins, NEW tail \in BOOLEAN, NEW n, Means(name, n)
  PROVE  ReadName(o, i, name, tail) = OptionRead(o, i, LetterOf[n], tail)
<1> DEFINE m == CHOOSE m \in DOMAIN LetterOf : Begins[name] = {m}
<1>1. ReadName(o, i, name, tail) =
        IF \A k \in DOMAIN LetterOf : Begins[name] # {k} THEN [o EXCEPT !.usage = TRUE]
        ELSE IF LetterOf[m] \notin Wanting
        THEN IF tail THEN [o EXCEPT !.usage = TRUE] ELSE Flags(o, {LetterOf[m]})
        ELSE IF tail THEN Argument(o, LetterOf[m], [from |-> i, skip |-> 1])
        ELSE [o EXCEPT !.wants = LetterOf[m]]
  BY Zenon DEF ReadName
<1>2. m = n /\ ~ \A k \in DOMAIN LetterOf : Begins[name] # {k}
  BY DEF Means
<1> HIDE DEF m
<1> QED BY <1>1, <1>2 DEF OptionRead

\* What comes of a long option.
NameFound(words, nv, opt, ns, ne, s, arg) ==
  LET w == words[opt]
      m == G!Match(w.name)
      c == longopts[m].val
  IN  /\ m = 0 => Wrong(words)
      /\ m # 0 /\ ~longopts[m].has_arg /\ w.tail => Wrong(words)
      /\ m # 0 /\ ~longopts[m].has_arg /\ ~w.tail =>
           \/ c = "h" /\ Wrong(words)
           \/ c \in Switches /\ Between(words, nv, opt + 1, ns, ne, Choose(s, c, arg))
      /\ m # 0 /\ longopts[m].has_arg => c \in Wanting
      /\ m # 0 /\ longopts[m].has_arg /\ w.tail =>
           Between(words, nv, opt + 1, ns, ne, Choose(s, c, [from |-> opt, skip |-> 1]))
      /\ m # 0 /\ longopts[m].has_arg /\ ~w.tail /\ opt + 1 <= Len(words) =>
           Between(words, nv, opt + 2, ns, ne,
                   Choose(s, c, [from |-> opt + 1, skip |-> 0]))
      /\ m # 0 /\ longopts[m].has_arg /\ ~w.tail /\ opt = Len(words) => Wrong(words)

LEMMA NameFinds ==
  ASSUME NEW words \in Seq(Words), NEW nv, NEW opt, NEW ns, NEW ne, NEW s, NEW arg,
         AtName(words, nv, opt, ns, ne, s)
  PROVE  NameFound(words, nv, opt, ns, ne, s, arg)
<1> DEFINE w == words[opt]
           m == G!Match(w.name)
           c == longopts[m].val
           o == Reading(words)[opt - 1]
           t == [o EXCEPT !.taken = Append(@, opt)]
           r == Reading(words)[opt]
<1>1. AtOption(words, nv, opt, ns, ne) /\ w.kind = "long" /\ s = Noted(o)
  BY DEF AtName
<1>2. opt \in 1 .. Len(words) /\ Len(words) \in Nat /\ o \in Knowledge /\ Plain(o)
  BY <1>1, AtOptionIs
<1>3. /\ w \in Words /\ r = ReadName(t, opt, w.name, w.tail) /\ r \in Knowledge
  BY <1>1, <1>2, PlainWord
<1>4. w.name \in DOMAIN Begins /\ w.tail \in BOOLEAN
  BY <1>1, <1>3, WordIs
<1>W. ASSUME Plain(r), r.taken = Append(o.taken, opt), r.operands = o.operands
      PROVE  Between(words, nv, opt + 1, ns, ne, Noted(r))
  BY <1>1, <1>W, WordTaken
<1>A. ASSUME NEW d \in Wanting, opt + 1 <= Len(words), ~r.usage, ~r.ended, r.wants = d,
             Noted(r) = s, r.taken = Append(o.taken, opt), r.operands = o.operands
      PROVE  Between(words, nv, opt + 2, ns, ne, Choose(s, d, [from |-> opt + 1, skip |-> 0]))
  BY <1>1, <1>A, ArgumentTaken
<1>M. opt = Len(words) /\ r.wants # "" => Wrong(words)
  BY DEF Wrong
<1>U. r.usage => Wrong(words)
  <2>1. opt \in 0 .. Len(words)
    BY <1>2
  <2> QED BY <2>1, WrongOnce
<1>5. t \in Knowledge /\ Plain(t) /\ Noted(t) = s
      /\ t.taken = Append(o.taken, opt) /\ t.operands = o.operands
  <2>1. opt \in Nat
    BY <1>2
  <2> HIDE DEF o
  <2> QED BY <1>1, <1>2, <2>1, TakenFields
<1>none. ASSUME \A n \in DOMAIN LetterOf : Begins[w.name] # {n}
         PROVE  r = [t EXCEPT !.usage = TRUE]
  BY <1>3, <1>none DEF ReadName
<1>g. m # 0 =>
        \E n :
           /\ Means(w.name, n) /\ c = LetterOf[n]
           /\ longopts[m].has_arg <=> LetterOf[n] \in Wanting
  BY <1>4, NameIs
<1>h. longopts[m].has_arg \/ ~longopts[m].has_arg
  OBVIOUS
<1>6. ASSUME m = 0 PROVE Wrong(words)
  <2>1. \A n \in DOMAIN LetterOf : Begins[w.name] # {n}
    BY <1>4, <1>6, MatchOne
  <2>2. r = [t EXCEPT !.usage = TRUE]
    BY <1>none, <2>1
  <2>3. r.usage
    <3> HIDE DEF t, r
    <3> QED BY <1>5, <2>2 DEF Knowledge
  <2> QED BY <1>U, <2>3
<1>7. ASSUME m # 0
      PROVE  /\ longopts[m].has_arg <=> c \in Wanting
             /\ c \in Switches \cup Wanting \cup {"h"}
             /\ r = IF c \notin Wanting
                    THEN IF w.tail THEN [t EXCEPT !.usage = TRUE] ELSE Flags(t, {c})
                    ELSE IF w.tail THEN Argument(t, c, [from |-> opt, skip |-> 1])
                    ELSE [t EXCEPT !.wants = c]
  <2>1. PICK n :
           /\ Means(w.name, n) /\ c = LetterOf[n]
           /\ longopts[m].has_arg <=> LetterOf[n] \in Wanting
    BY <1>7, <1>g
  <2>2. c \in Switches \cup Wanting \cup {"h"}
    BY <2>1, LettersOfTable DEF Means
  <2>3. ReadName(t, opt, w.name, w.tail) = OptionRead(t, opt, LetterOf[n], w.tail)
    BY <1>4, <2>1, NameRead
  <2> HIDE DEF c, m, t, r
  <2> QED BY <1>3, <2>1, <2>2, <2>3 DEF OptionRead
<1> DEFINE has == longopts[m].has_arg
           arg1 == [from |-> opt, skip |-> 1]
<1>a. arg1 \in Arg
  BY <1>2 DEF Arg
<1>w. w.tail \in BOOLEAN
  BY <1>4
<1> HIDE DEF c, m, o, t, r, has, arg1
<1>8. ASSUME m # 0, c \notin Wanting, w.tail PROVE Wrong(words)
  <2>1. r = [t EXCEPT !.usage = TRUE]
    BY <1>7, <1>8
  <2>2. r.usage
    BY <1>5, <2>1 DEF Knowledge
  <2> QED BY <1>U, <2>2
<1>9. ASSUME m # 0, c \notin Wanting, ~w.tail
      PROVE  \/ c = "h" /\ Wrong(words)
             \/ c \in Switches /\ Between(words, nv, opt + 1, ns, ne, Choose(s, c, arg))
  <2>1. r = Flags(t, {c})
    BY <1>7, <1>9
  <2>2. FlagsSet(t, {c}, r)
    BY <1>5, <2>1, FlagsFields
  <2>3. CASE c = "h"
    <3>1. ~({c} \subseteq Switches)
      BY <2>3 DEF Switches
    <3>2. r.usage
      BY <2>2, <3>1 DEF FlagsSet
    <3> QED BY <1>U, <2>3, <3>2
  <2>4. CASE c \in Switches
    <3>1. Plain(r) /\ r.taken = t.taken /\ r.operands = t.operands
      BY <2>2, <2>4 DEF FlagsSet, Plain
    <3>2. Between(words, nv, opt + 1, ns, ne, Noted(r))
      BY <1>5, <1>W, <3>1
    <3>3. Noted(Flags(t, {} \cup {c})) = Choose(Noted(Flags(t, {})), c, arg)
      BY <1>5, <2>4, NotedOne
    <3>4. {} \cup {c} = {c}
      OBVIOUS
    <3>5. Noted(Flags(t, {})) = Noted(t)
      BY <1>5, NotedNone
    <3>6. Noted(r) = Choose(s, c, arg)
      BY <1>5, <2>1, <3>3, <3>4, <3>5
    <3> QED BY <2>4, <3>2, <3>6
  <2> QED BY <1>7, <1>9, <2>3, <2>4
<1>10. ASSUME m # 0, c \in Wanting, w.tail
       PROVE  Between(words, nv, opt + 1, ns, ne, Choose(s, c, arg1))
  <2>1. r = Argument(t, c, arg1)
    BY <1>7, <1>10 DEF arg1
  <2>2. ~t.usage /\ ~t.ended
    BY <1>5 DEF Plain
  <2>3. /\ r.taken = t.taken /\ r.operands = t.operands
        /\ Plain(r) /\ Noted(r) = Choose(s, c, arg1)
    BY <1>5, <1>10, <1>a, <2>1, <2>2, ArgumentFields
  <2> QED BY <1>5, <1>W, <2>3
<1>11. ASSUME m # 0, c \in Wanting, ~w.tail
       PROVE  /\ ~r.usage /\ ~r.ended /\ r.wants = c /\ c # "" /\ Noted(r) = s
              /\ r.taken = Append(o.taken, opt) /\ r.operands = o.operands
  <2>1. r = [t EXCEPT !.wants = c]
    BY <1>7, <1>11
  <2>2. ~t.usage /\ ~t.ended
    BY <1>5 DEF Plain
  <2> QED BY <1>5, <1>11, <2>1, <2>2, WantsFields
<1>12. ASSUME m # 0, c \in Wanting, ~w.tail, opt + 1 <= Len(words)
       PROVE  Between(words, nv, opt + 2, ns, ne, Choose(s, c, [from |-> opt + 1, skip |-> 0]))
  BY <1>11, <1>12, <1>A
<1>13. ASSUME m # 0, c \in Wanting, ~w.tail, opt = Len(words) PROVE Wrong(words)
  BY <1>11, <1>13, <1>M
<1>14. m # 0 => (has <=> c \in Wanting)
  BY <1>7 DEF has
<1>15. /\ m = 0 => Wrong(words)
       /\ m # 0 /\ ~has /\ w.tail => Wrong(words)
       /\ m # 0 /\ ~has /\ ~w.tail =>
            \/ c = "h" /\ Wrong(words)
            \/ c \in Switches /\ Between(words, nv, opt + 1, ns, ne, Choose(s, c, arg))
       /\ m # 0 /\ has => c \in Wanting
       /\ m # 0 /\ has /\ w.tail => Between(words, nv, opt + 1, ns, ne, Choose(s, c, arg1))
       /\ m # 0 /\ has /\ ~w.tail /\ opt + 1 <= Len(words) =>
            Between(words, nv, opt + 2, ns, ne, Choose(s, c, [from |-> opt + 1, skip |-> 0]))
       /\ m # 0 /\ has /\ ~w.tail /\ opt = Len(words) => Wrong(words)
  BY <1>6, <1>8, <1>9, <1>10, <1>12, <1>13, <1>14, Zenon
<1> QED BY <1>15, Zenon DEF has, arg1, c, m, NameFound

-----------------------------------------------------------------------------
(* The inductive invariant *)

\* Settings as main will have noted them once the option just returned is taken.
Noting == Choose(opts, ch, optarg)

\* The scan goes on, and the words before optind have been understood.
ScanGoesOn ==
  /\ pc = "options"
  /\ \/ /\ ch \in {""} \cup Switches \cup Wanting /\ place = <<>>
        /\ Between(argv, nargv, optind, nonopt_start, nonopt_end, Noting)
     \/ /\ ch \in {""} \cup Switches /\ place # <<>> /\ place = <<optind, place[2]>>
        /\ InCluster(argv, nargv, optind, nonopt_start, nonopt_end, place[2], Noting)
     \/ /\ ch = "" /\ place = <<optind, 0>>
        /\ AtName(argv, nargv, optind, nonopt_start, nonopt_end, Noting)

\* A word was wrong, an argument was missing, or help was asked for.
ScanRefused ==
  /\ ch \in {"?", "h"} /\ Wrong(argv)
  /\ pc = "options" \/ (pc = "ended" /\ outcome = Exit(0))

ScanEnded == ch = "end" /\ Scanned(argv, nargv, optind, opts)

CInv == /\ argv \in Seq(Words)
        /\ ~ReadBehind => ScanGoesOn \/ ScanRefused \/ ScanEnded

LEMMA ChosenIs ==
  ASSUME NEW c
  PROVE  Chosen(c) = Choose(opts, c, optarg)
BY DEF Chosen, Choose

LEMMA ChooseNone ==
  ASSUME NEW s, NEW arg, NEW c \in {"", "d", "end"}
  PROVE  Choose(s, c, arg) = s
BY DEF Choose

LEMMA InitCInv == Init => CInv
<1> SUFFICES ASSUME Init PROVE CInv
  OBVIOUS
<1>1. PICK start \in Starts : G!Init(start[1]) /\ world = start[2]
  BY DEF Init
<1>2. argv \in Seq(Words) /\ nargv = [i \in 1 .. Len(argv) |-> i] /\ optind = 1
      /\ place = <<>> /\ nonopt_start = 0 /\ nonopt_end = 0 /\ ch = ""
  <2>1. start[1] \in Seq(Words)
    BY StartsAssumption
  <2> QED BY <1>1, <2>1 DEF G!Init
<1>n. Len(argv) \in Nat
  <2>1. argv \in Seq(Words)
    BY <1>2
  <2> QED BY <2>1, LenProperties
<1>3. pc = "options" /\ opts = Noted(Unread)
  BY DEF Init, Noted, Unread
<1>4. Plain(Unread) /\ Unread.taken = <<>> /\ Unread.operands = <<>>
  BY DEF Plain, Unread
<1>5. Reading(argv)[0] = Unread
  BY <1>2, ReadingIs
<1>6. Laid(Len(argv), nargv, 1, 1, <<>>, <<>>)
  <2>1. Len(argv) \in Nat
    BY <1>n
  <2>m. nargv = [i \in 1 .. Len(argv) |-> i]
    BY <1>2
  <2>2. nargv \in [1 .. Len(argv) -> Nat] /\ \A i \in 1 .. Len(argv) : nargv[i] = i
    BY <2>m
  <2>3. Len(<<>>) = 0 /\ <<>> \in Seq(Nat)
    BY EmptySeq
  <2>4. /\ 1 \in 1 .. Len(argv) + 1 /\ 0 + 0 = 1 - 1 /\ 1 \in 1 .. 0 + 1
        /\ 1 .. 1 - 1 = {} /\ 1 .. 0 = {}
    BY <2>1
  <2> QED BY <2>2, <2>3, <2>4 DEF Laid
<1>7. Spread(Len(argv), nargv, 1, 0, 0, <<>>, <<>>)
  <2>1. Len(<<>>) = 0 /\ 1 = 0 + 1
    BY EmptySeq
  <2> QED BY <1>6, <2>1 DEF Spread
<1>8. Between(argv, nargv, optind, nonopt_start, nonopt_end, opts)
  <2>o. optind = 1
    BY <1>2
  <2>1. optind \in 1 .. Len(argv) + 1 /\ optind - 1 = 0
    BY <1>n, <2>o
  <2> QED BY <1>2, <1>3, <1>4, <1>5, <1>7, <2>1 DEF Between
<1>9. Noting = opts
  BY <1>2, ChooseNone DEF Noting
<1> QED BY <1>2, <1>3, <1>8, <1>9 DEF CInv, ScanGoesOn

\* What a step of the scan takes for granted: the call is running.
LEMMA EndOfWordsStep ==
  ASSUME argv \in Seq(Words), ScanGoesOn, G!EndOfWords, opts' = opts, pc' = pc
  PROVE  ScanEnded'
<1>1. /\ ch = "" /\ place = <<>> /\ optind > Len(nargv) /\ argv' = argv
  BY DEF G!EndOfWords, G!InCall, G!Scanning, G!nargc, G!Finish
<1>2. Between(argv, nargv, optind, nonopt_start, nonopt_end, opts)
  BY <1>1, ChooseNone DEF ScanGoesOn, Noting
<1>3. Len(nargv) = Len(argv) /\ Len(argv) \in Nat /\ optind \in Nat
  BY <1>2, BetweenIs
<1>4. optind > Len(argv)
  BY <1>1, <1>3
<1>5. /\ optind = Len(argv) + 1
      /\ nonopt_end # 0 =>
           Scanned(argv, G!permute_args(nonopt_start, nonopt_end, optind, nargv),
                   optind - (nonopt_end - nonopt_start), opts)
      /\ nonopt_end = 0 => Scanned(argv, nargv, IF nonopt_start # 0 THEN nonopt_start ELSE optind, opts)
  BY <1>2, <1>4, EndOfWordsFinds
<1>6. ~(optind > Len(nargv) + 1)
  BY <1>3, <1>5
<1>7. G!Finish(optind)
  BY <1>6 DEF G!EndOfWords, G!nargc
<1>8. ch' = "end" /\ Scanned(argv, nargv', optind', opts)
  BY <1>5, <1>7 DEF G!Finish
<1> QED BY <1>1, <1>8 DEF ScanEnded

LEMMA SkipOperandStep ==
  ASSUME argv \in Seq(Words), ScanGoesOn, G!SkipOperand, opts' = opts, pc' = pc
  PROVE  ScanGoesOn'
<1>1. /\ ch = "" /\ place = <<>> /\ optind <= Len(nargv) /\ argv' = argv
      /\ ch' = "" /\ place' = <<>>
      /\ argv[nargv[optind]].kind = "operand"
  BY DEF G!SkipOperand, G!InCall, G!Scanning, G!nargc, G!Word
<1>2. Between(argv, nargv, optind, nonopt_start, nonopt_end, opts)
  BY <1>1, ChooseNone DEF ScanGoesOn, Noting
<1>3. /\ Len(nargv) = Len(argv) /\ Len(argv) \in Nat /\ optind \in Nat
      /\ \A i \in optind .. Len(argv) : nargv[i] = i
  BY <1>2, BetweenIs
<1>4. optind <= Len(argv) /\ argv[optind].kind = "operand"
  <2>1. optind <= Len(argv)
    BY <1>1, <1>3
  <2>2. optind \in optind .. Len(argv)
    BY <1>3, <2>1
  <2>3. nargv[optind] = optind
    BY <1>3, <2>2
  <2> QED BY <1>1, <2>1, <2>3
<1>5. /\ nonopt_start = 0 =>
           Between(argv, nargv, optind + 1, optind, nonopt_end, opts)
      /\ nonopt_start # 0 /\ nonopt_end # 0 =>
           Between(argv, G!permute_args(nonopt_start, nonopt_end, optind, nargv), optind + 1,
                   optind - (nonopt_end - nonopt_start), 0, opts)
      /\ nonopt_start # 0 /\ nonopt_end = 0 =>
           Between(argv, nargv, optind + 1, nonopt_start, nonopt_end, opts)
  BY <1>2, <1>4, SkipOperandFinds
<1>6. Between(argv, nargv', optind', nonopt_start', nonopt_end', opts)
  BY <1>5 DEF G!SkipOperand
<1>7. Noting' = opts'
  BY <1>1, ChooseNone DEF Noting
<1> QED BY <1>1, <1>6, <1>7 DEF ScanGoesOn

LEMMA StartWordStep ==
  ASSUME argv \in Seq(Words), ScanGoesOn, G!StartWord, opts' = opts, pc' = pc
  PROVE  ScanGoesOn'
<1>1. /\ ch = "" /\ place = <<>> /\ optind <= Len(nargv) /\ argv' = argv
      /\ ch' = "" /\ place' = <<nargv[optind], 0>> /\ nargv' = nargv /\ optind' = optind
      /\ nonopt_start' = nonopt_start
      /\ argv[nargv[optind]].kind \in {"short", "long"}
      /\ nonopt_end' = IF nonopt_start # 0 /\ nonopt_end = 0 THEN optind ELSE nonopt_end
  BY DEF G!StartWord, G!InCall, G!Scanning, G!nargc, G!Word, G!BlockEnd
<1>2. Between(argv, nargv, optind, nonopt_start, nonopt_end, opts)
  BY <1>1, ChooseNone DEF ScanGoesOn, Noting
<1>3. /\ Len(nargv) = Len(argv) /\ Len(argv) \in Nat /\ optind \in Nat
      /\ \A i \in optind .. Len(argv) : nargv[i] = i
  BY <1>2, BetweenIs
<1>4. optind <= Len(argv) /\ argv[optind].kind \in {"short", "long"} /\ nargv[optind] = optind
  <2>1. optind <= Len(argv)
    BY <1>1, <1>3
  <2>2. optind \in optind .. Len(argv)
    BY <1>3, <2>1
  <2>3. nargv[optind] = optind
    BY <1>3, <2>2
  <2> QED BY <1>1, <2>1, <2>3
<1>5. /\ argv[optind].kind = "short" =>
           InCluster(argv, nargv, optind, nonopt_start, nonopt_end', 0, opts)
      /\ argv[optind].kind = "long" =>
           AtName(argv, nargv, optind, nonopt_start, nonopt_end', opts)
  BY <1>1, <1>2, <1>4, StartWordFinds
<1>6. place' = <<optind', 0>> /\ place' # <<>> /\ place'[2] = 0
  BY <1>1, <1>4
<1>7. Noting' = opts'
  BY <1>1, ChooseNone DEF Noting
<1> QED BY <1>1, <1>4, <1>5, <1>6, <1>7 DEF ScanGoesOn

LEMMA DashDashStep ==
  ASSUME argv \in Seq(Words), ScanGoesOn, G!DashDash, opts' = opts, pc' = pc
  PROVE  ScanEnded'
<1> DEFINE e == IF nonopt_start # 0 /\ nonopt_end = 0 THEN optind ELSE nonopt_end
<1>1. /\ ch = "" /\ place = <<>> /\ optind <= Len(nargv) /\ argv' = argv /\ ch' = "end"
      /\ argv[nargv[optind]].kind = "end"
      /\ IF e # 0 THEN /\ nargv' = G!permute_args(nonopt_start, e, optind + 1, nargv)
                       /\ optind' = (optind + 1) - (e - nonopt_start)
         ELSE nargv' = nargv /\ optind' = optind + 1
  BY DEF G!DashDash, G!InCall, G!Scanning, G!nargc, G!Word, G!BlockEnd
<1>2. Between(argv, nargv, optind, nonopt_start, nonopt_end, opts)
  BY <1>1, ChooseNone DEF ScanGoesOn, Noting
<1>3. /\ Len(nargv) = Len(argv) /\ Len(argv) \in Nat /\ optind \in Nat
      /\ \A i \in optind .. Len(argv) : nargv[i] = i
  BY <1>2, BetweenIs
<1>4. optind <= Len(argv) /\ argv[optind].kind = "end"
  <2>1. optind <= Len(argv)
    BY <1>1, <1>3
  <2>2. optind \in optind .. Len(argv)
    BY <1>3, <2>1
  <2>3. nargv[optind] = optind
    BY <1>3, <2>2
  <2> QED BY <1>1, <2>1, <2>3
<1>5. /\ e # 0 => Scanned(argv, G!permute_args(nonopt_start, e, optind + 1, nargv),
                          (optind + 1) - (e - nonopt_start), opts)
      /\ e = 0 => Scanned(argv, nargv, optind + 1, opts)
  BY <1>2, <1>4, DashDashFinds
<1> HIDE DEF e
<1>6. Scanned(argv, nargv', optind', opts)
  BY <1>1, <1>5
<1> QED BY <1>1, <1>6 DEF ScanEnded

LEMMA ShortOptionStep ==
  ASSUME argv \in Seq(Words), ScanGoesOn, G!ShortOption, opts' = opts, pc' = pc
  PROVE  ScanGoesOn' \/ ScanRefused'
<1> DEFINE k == place[2] + 1
           x == argv[optind].letters
           c == x[k]
<1>1. /\ ch = "" /\ place # <<>> /\ argv[place[1]].kind = "short" /\ argv' = argv
      /\ nargv' = nargv /\ nonopt_start' = nonopt_start /\ nonopt_end' = nonopt_end
  BY DEF G!ShortOption, G!InCall, G!Scanning, G!Returns
<1>p. pc' = "options"
  BY DEF ScanGoesOn
<1>2. /\ place = <<optind, place[2]>>
      /\ InCluster(argv, nargv, optind, nonopt_start, nonopt_end, place[2], opts)
  <2>1. \/ /\ place = <<optind, place[2]>>
           /\ InCluster(argv, nargv, optind, nonopt_start, nonopt_end, place[2], Noting)
        \/ /\ place = <<optind, 0>>
           /\ AtName(argv, nargv, optind, nonopt_start, nonopt_end, Noting)
    BY <1>1 DEF ScanGoesOn
  <2>2. ASSUME place = <<optind, 0>>,
               AtName(argv, nargv, optind, nonopt_start, nonopt_end, Noting)
        PROVE  FALSE
    <3>1. place[1] = optind
      BY <2>2
    <3>2. argv[optind].kind = "long"
      BY <2>2 DEF AtName
    <3> QED BY <1>1, <3>1, <3>2
  <2>3. Noting = opts
    BY <1>1, ChooseNone DEF Noting
  <2> QED BY <2>1, <2>2, <2>3
<1>3. place[1] = optind
  <2>1. PICK j : place = <<optind, j>>
    BY <1>2
  <2> QED BY <2>1
<1>4. \/ /\ c \notin {"c", "s"}
         /\ ch' = IF c \in {"?", "D", "c", "d", "h", "v", "q", "s"} THEN c ELSE "?"
         /\ IF k = Len(x) THEN optind' = optind + 1 /\ place' = <<>>
            ELSE place' = <<optind, k>> /\ optind' = optind
      \/ /\ c \in {"c", "s"} /\ k < Len(x) /\ place' = <<>>
         /\ ch' = c /\ optarg' = [from |-> optind, skip |-> k] /\ optind' = optind + 1
      \/ /\ c \in {"c", "s"} /\ k = Len(x) /\ optind < Len(nargv) /\ place' = <<>>
         /\ ch' = c /\ optarg' = [from |-> nargv[optind + 1], skip |-> 0] /\ optind' = optind + 2
      \/ /\ c \in {"c", "s"} /\ k = Len(x) /\ optind >= Len(nargv) /\ ch' = "?"
  BY <1>3 DEF G!ShortOption, G!Letters, G!After, G!Returns, G!Part, G!nargc
<1>5. /\ optind \in 1 .. Len(argv) /\ Len(nargv) = Len(argv) /\ Len(argv) \in Nat
      /\ \A i \in optind .. Len(argv) : nargv[i] = i
  <2>1. AtOption(argv, nargv, optind, nonopt_start, nonopt_end)
    BY <1>2 DEF InCluster
  <2> QED BY <2>1, AtOptionIs
<1>6. c \in Switches =>
        /\ k = Len(x) => Between(argv, nargv, optind + 1, nonopt_start, nonopt_end,
                                 Choose(opts, c, optarg'))
        /\ k # Len(x) => InCluster(argv, nargv, optind, nonopt_start, nonopt_end, k,
                                   Choose(opts, c, optarg'))
  BY <1>2, SwitchFinds
<1>7. c \notin Switches \cup Wanting => Wrong(argv)
  BY <1>2, WrongLetterFinds
<1>8. c \in Wanting =>
        /\ k < Len(x) =>
             Between(argv, nargv, optind + 1, nonopt_start, nonopt_end,
                     Choose(opts, c, [from |-> optind, skip |-> k]))
        /\ k = Len(x) /\ optind + 1 <= Len(argv) =>
             Between(argv, nargv, optind + 2, nonopt_start, nonopt_end,
                     Choose(opts, c, [from |-> optind + 1, skip |-> 0]))
        /\ k = Len(x) /\ optind = Len(argv) => Wrong(argv)
  BY <1>2, WantingLetterFinds
<1> HIDE DEF k, x, c
<1>N. Noting' = Choose(opts, ch', optarg')
  BY DEF Noting
<1>B. ASSUME ch' \in Switches \cup Wanting, place' = <<>>,
             Between(argv, nargv, optind', nonopt_start, nonopt_end, Noting')
      PROVE  ScanGoesOn'
  BY <1>1, <1>p, <1>B DEF ScanGoesOn
<1>R. ASSUME ch' \in {"?", "h"}, Wrong(argv) PROVE ScanRefused'
  BY <1>1, <1>p, <1>R DEF ScanRefused
<1>9. CASE c \notin Wanting /\ c \in Switches
  <2>1. ch' = c
    BY <1>4, <1>9 DEF Switches, Wanting
  <2>2. CASE k = Len(x)
    BY <1>4, <1>6, <1>9, <1>B, <1>N, <2>1, <2>2 DEF Wanting
  <2>3. CASE k # Len(x)
    <3>1. place' = <<optind, k>> /\ optind' = optind
      BY <1>4, <1>9, <2>3 DEF Wanting
    <3>2. place'[2] = k /\ place' # <<>> /\ place' = <<optind', place'[2]>>
      BY <3>1
    <3>3. InCluster(argv, nargv, optind', nonopt_start, nonopt_end, place'[2], Noting')
      BY <1>6, <1>9, <1>N, <2>1, <2>3, <3>1, <3>2
    <3> QED BY <1>1, <1>p, <1>9, <2>1, <3>2, <3>3 DEF ScanGoesOn
  <2> QED BY <2>2, <2>3
<1>10. CASE c \notin Wanting /\ c \notin Switches
  <2>1. ch' \in {"?", "h"}
    BY <1>4, <1>10 DEF Wanting, Switches
  <2> QED BY <1>7, <1>10, <1>R, <2>1
<1>11. CASE c \in Wanting
  <2>1. \/ /\ k < Len(x) /\ place' = <<>>
           /\ ch' = c /\ optarg' = [from |-> optind, skip |-> k] /\ optind' = optind + 1
        \/ /\ k = Len(x) /\ optind < Len(nargv) /\ place' = <<>>
           /\ ch' = c /\ optarg' = [from |-> nargv[optind + 1], skip |-> 0] /\ optind' = optind + 2
        \/ /\ k = Len(x) /\ optind >= Len(nargv) /\ ch' = "?"
    BY <1>4, <1>11 DEF Wanting
  <2>2. CASE k < Len(x) /\ place' = <<>>
             /\ ch' = c /\ optarg' = [from |-> optind, skip |-> k] /\ optind' = optind + 1
    BY <1>8, <1>11, <1>B, <1>N, <2>2
  <2>3. CASE k = Len(x) /\ optind < Len(nargv) /\ place' = <<>>
             /\ ch' = c /\ optarg' = [from |-> nargv[optind + 1], skip |-> 0] /\ optind' = optind + 2
    <3>1. optind + 1 <= Len(argv) /\ nargv[optind + 1] = optind + 1
      BY <1>5, <2>3
    <3> QED BY <1>8, <1>11, <1>B, <1>N, <2>3, <3>1
  <2>4. CASE k = Len(x) /\ optind >= Len(nargv) /\ ch' = "?"
    <3>1. optind = Len(argv)
      BY <1>5, <2>4
    <3> QED BY <1>8, <1>11, <1>R, <2>4, <3>1
  <2> QED BY <2>1, <2>2, <2>3, <2>4
<1> QED BY <1>9, <1>10, <1>11

LEMMA LongOptionStep ==
  ASSUME argv \in Seq(Words), ScanGoesOn, G!parse_long_options, opts' = opts, pc' = pc,
         ~ReadBehind
  PROVE  ScanGoesOn' \/ ScanRefused'
<1> DEFINE w == argv[optind]
           m == G!Match(w.name)
           c == longopts[m].val
           has == longopts[m].has_arg
<1>1. /\ ch = "" /\ place # <<>> /\ argv[place[1]].kind = "long" /\ argv' = argv
      /\ nargv' = nargv /\ nonopt_start' = nonopt_start /\ nonopt_end' = nonopt_end
      /\ place' = <<>>
  BY DEF G!parse_long_options, G!InCall, G!Scanning, G!Returns
<1>p. pc' = "options"
  BY DEF ScanGoesOn
<1>2. /\ place = <<optind, 0>>
      /\ AtName(argv, nargv, optind, nonopt_start, nonopt_end, opts)
  <2>1. \/ /\ place = <<optind, place[2]>>
           /\ InCluster(argv, nargv, optind, nonopt_start, nonopt_end, place[2], Noting)
        \/ /\ place = <<optind, 0>>
           /\ AtName(argv, nargv, optind, nonopt_start, nonopt_end, Noting)
    BY <1>1 DEF ScanGoesOn
  <2>2. ASSUME place = <<optind, place[2]>>,
               InCluster(argv, nargv, optind, nonopt_start, nonopt_end, place[2], Noting)
        PROVE  FALSE
    <3>1. PICK j : place = <<optind, j>>
      BY <2>2
    <3>2. place[1] = optind
      BY <3>1
    <3>3. argv[optind].kind = "short"
      BY <2>2 DEF InCluster
    <3> QED BY <1>1, <3>2, <3>3
  <2>3. Noting = opts
    BY <1>1, ChooseNone DEF Noting
  <2> QED BY <2>1, <2>2, <2>3
<1>3. place[1] = optind
  BY <1>2
<1>4. \/ m = 0 /\ ch' = "?"
      \/ /\ m # 0 /\ ~has /\ optind' = optind + 1
         /\ ch' = IF w.tail THEN "?" ELSE c
      \/ /\ m # 0 /\ has /\ w.tail /\ optind' = optind + 1
         /\ ch' = c /\ optarg' = [from |-> optind, skip |-> 1]
      \/ /\ m # 0 /\ has /\ ~w.tail /\ optind + 1 <= Len(nargv) /\ optind' = optind + 1 + 1
         /\ ch' = c /\ optarg' = [from |-> nargv[optind + 1], skip |-> 0]
      \/ /\ m # 0 /\ has /\ ~w.tail /\ optind + 1 > Len(nargv)
         /\ ch' = "?" \/ world.windows
  BY <1>3 DEF G!parse_long_options, G!Returns, G!Part, G!nargc
<1>5. /\ optind \in 1 .. Len(argv) /\ Len(nargv) = Len(argv) /\ Len(argv) \in Nat
      /\ \A i \in optind .. Len(argv) : nargv[i] = i
  <2>1. AtOption(argv, nargv, optind, nonopt_start, nonopt_end)
    BY <1>2 DEF AtName
  <2> QED BY <2>1, AtOptionIs
<1>6. w.kind = "long"
  BY <1>2 DEF AtName
<1>7. /\ m = 0 => Wrong(argv)
      /\ m # 0 /\ ~has /\ w.tail => Wrong(argv)
      /\ m # 0 /\ ~has /\ ~w.tail =>
           \/ c = "h" /\ Wrong(argv)
           \/ c \in Switches /\ Between(argv, nargv, optind + 1, nonopt_start, nonopt_end,
                                        Choose(opts, c, optarg'))
      /\ m # 0 /\ has => c \in Wanting
      /\ m # 0 /\ has /\ w.tail =>
           Between(argv, nargv, optind + 1, nonopt_start, nonopt_end,
                   Choose(opts, c, [from |-> optind, skip |-> 1]))
      /\ m # 0 /\ has /\ ~w.tail /\ optind + 1 <= Len(argv) =>
           Between(argv, nargv, optind + 2, nonopt_start, nonopt_end,
                   Choose(opts, c, [from |-> optind + 1, skip |-> 0]))
      /\ m # 0 /\ has /\ ~w.tail /\ optind = Len(argv) => Wrong(argv)
  <2>1. NameFound(argv, nargv, optind, nonopt_start, nonopt_end, opts, optarg')
    BY <1>2, NameFinds
  <2> QED BY <2>1, Zenon DEF NameFound
<1>8. ~w.tail /\ optind = Len(argv) => ~world.windows
  <2>1. optind = Len(argv) => argv # <<>>
    BY <1>5, EmptySeq
  <2> QED BY <1>6, <2>1 DEF ReadBehind
<1> HIDE DEF w, m, c, has
<1>N. Noting' = Choose(opts, ch', optarg')
  BY DEF Noting
<1>B. ASSUME ch' \in Switches \cup Wanting,
             Between(argv, nargv, optind', nonopt_start, nonopt_end, Noting')
      PROVE  ScanGoesOn'
  BY <1>1, <1>p, <1>B DEF ScanGoesOn
<1>R. ASSUME ch' \in {"?", "h"}, Wrong(argv) PROVE ScanRefused'
  BY <1>1, <1>p, <1>R DEF ScanRefused
<1>9. CASE m = 0 /\ ch' = "?"
  BY <1>7, <1>9, <1>R
<1>10. CASE m # 0 /\ ~has /\ optind' = optind + 1 /\ ch' = IF w.tail THEN "?" ELSE c
  <2>1. CASE w.tail
    BY <1>7, <1>10, <1>R, <2>1
  <2>2. CASE ~w.tail
    BY <1>7, <1>10, <1>R, <1>B, <1>N, <2>2
  <2> QED BY <2>1, <2>2
<1>11. CASE m # 0 /\ has /\ w.tail /\ optind' = optind + 1
            /\ ch' = c /\ optarg' = [from |-> optind, skip |-> 1]
  BY <1>7, <1>11, <1>B, <1>N
<1>12. CASE m # 0 /\ has /\ ~w.tail /\ optind + 1 <= Len(nargv) /\ optind' = optind + 1 + 1
            /\ ch' = c /\ optarg' = [from |-> nargv[optind + 1], skip |-> 0]
  <2>1. optind + 1 <= Len(argv) /\ nargv[optind + 1] = optind + 1 /\ optind' = optind + 2
    BY <1>5, <1>12
  <2> QED BY <1>7, <1>12, <1>B, <1>N, <2>1
<1>13. CASE m # 0 /\ has /\ ~w.tail /\ optind + 1 > Len(nargv) /\ (ch' = "?" \/ world.windows)
  <2>1. optind = Len(argv)
    BY <1>5, <1>13
  <2> QED BY <1>7, <1>8, <1>13, <1>R, <2>1
<1> QED BY <1>4, <1>9, <1>10, <1>11, <1>12, <1>13

\* One call of getopt_long goes on, refuses the words, or ends.
LEMMA getopt_longStep ==
  ASSUME CInv, ~ReadBehind, getopt_long
  PROVE  argv' = argv /\ (ScanGoesOn' \/ ScanRefused' \/ ScanEnded')
<1>1. argv \in Seq(Words) /\ (ScanGoesOn \/ ScanRefused \/ ScanEnded)
  BY DEF CInv
<1>2. G!Next /\ opts' = opts /\ pc' = pc
  BY DEF getopt_long, mainVars
<1>3. ch = "" /\ argv' = argv
  BY <1>2 DEF G!Next, G!EndOfWords, G!SkipOperand, G!StartWord, G!DashDash,
              G!parse_long_options, G!ShortOption, G!InCall, G!Returns, G!Finish
<1>4. ScanGoesOn
  BY <1>1, <1>3 DEF ScanRefused, ScanEnded
<1>5. CASE G!EndOfWords
  BY <1>1, <1>2, <1>3, <1>4, <1>5, EndOfWordsStep
<1>6. CASE G!SkipOperand
  BY <1>1, <1>2, <1>3, <1>4, <1>6, SkipOperandStep
<1>7. CASE G!StartWord
  BY <1>1, <1>2, <1>3, <1>4, <1>7, StartWordStep
<1>8. CASE G!DashDash
  BY <1>1, <1>2, <1>3, <1>4, <1>8, DashDashStep
<1>9. CASE G!parse_long_options
  BY <1>1, <1>2, <1>3, <1>4, <1>9, LongOptionStep
<1>10. CASE G!ShortOption
  BY <1>1, <1>2, <1>3, <1>4, <1>10, ShortOptionStep
<1> QED BY <1>2, <1>5, <1>6, <1>7, <1>8, <1>9, <1>10 DEF G!Next

\* main notes the option, goes on behind the options, or ends.
LEMMA TakeOptionStep ==
  ASSUME CInv, ~ReadBehind, TakeOption
  PROVE  argv' = argv /\ (ScanGoesOn' \/ ScanRefused' \/ ScanEnded')
<1>1. argv \in Seq(Words) /\ (ScanGoesOn \/ ScanRefused \/ ScanEnded)
  BY DEF CInv
<1>2. ch # ""
  BY DEF TakeOption
<1>3. CASE ScanRefused
  <2>1. ch \in {"?", "h"} /\ Wrong(argv)
    BY <1>3 DEF ScanRefused
  <2>2. /\ argv' = argv /\ ch' = ch /\ pc' = "ended" /\ outcome' = Exit(0)
    BY <2>1 DEF TakeOption, Ends, getoptVars
  <2> QED BY <2>1, <2>2 DEF ScanRefused, Exit
<1>4. CASE ScanEnded
  <2>1. ch = "end" /\ Scanned(argv, nargv, optind, opts)
    BY <1>4 DEF ScanEnded
  <2>2. argv' = argv /\ nargv' = nargv /\ optind' = optind /\ ch' = ch /\ opts' = opts
    BY <2>1 DEF TakeOption, getoptVars
  <2> QED BY <2>1, <2>2 DEF ScanEnded
<1>5. CASE ScanGoesOn
  <2>1. ch \in Switches \cup Wanting
    BY <1>2, <1>5 DEF ScanGoesOn
  <2>2. ch \notin {"?", "h", "end", "undefined"}
    BY <2>1 DEF Switches, Wanting
  <2>3. /\ argv' = argv /\ nargv' = nargv /\ optind' = optind /\ place' = place
        /\ nonopt_start' = nonopt_start /\ nonopt_end' = nonopt_end
        /\ pc' = pc /\ ch' = "" /\ opts' = Chosen(ch)
    BY <2>2 DEF TakeOption
  <2>4. Noting' = Noting
    <3>1. Noting' = opts'
      BY <2>3, ChooseNone DEF Noting
    <3>2. Chosen(ch) = Noting
      BY ChosenIs DEF Noting
    <3> QED BY <2>3, <3>1, <3>2
  <2>5. CASE place = <<>> /\ Between(argv, nargv, optind, nonopt_start, nonopt_end, Noting)
    BY <1>5, <2>3, <2>4, <2>5 DEF ScanGoesOn
  <2>6. CASE /\ place # <<>> /\ place = <<optind, place[2]>>
             /\ InCluster(argv, nargv, optind, nonopt_start, nonopt_end, place[2], Noting)
    BY <1>5, <2>3, <2>4, <2>6 DEF ScanGoesOn
  <2> QED BY <1>2, <1>5, <2>3, <2>5, <2>6 DEF ScanGoesOn
<1> QED BY <1>1, <1>3, <1>4, <1>5

\* Behind the options nothing of the command line changes any more.
LEMMA LaterStep ==
  ASSUME CInv, ~ReadBehind, Next, ~getopt_long, ~TakeOption
  PROVE  argv' = argv /\ (ScanGoesOn' \/ ScanRefused' \/ ScanEnded')
<1>1. argv \in Seq(Words) /\ (ScanGoesOn \/ ScanRefused \/ ScanEnded)
  BY DEF CInv
<1>2. pc # "options" /\ argv' = argv /\ nargv' = nargv /\ optind' = optind /\ ch' = ch
      /\ opts' = opts /\ (pc = "ended" => pc' = pc /\ outcome' = outcome)
  <2>1. CASE Search
    BY <2>1 DEF Search, At, getoptVars
  <2>2. CASE parse_file
    BY <2>2 DEF parse_file, At, getoptVars
  <2>3. CASE parse
    BY <2>3 DEF parse, At, getoptVars, mainVars
  <2>4. CASE Parsed
    BY <2>4 DEF Parsed, At, getoptVars
  <2>5. CASE ReadSettings
    BY <2>5 DEF ReadSettings, At, getoptVars
  <2>6. CASE InitializeRouterSeletor
    BY <2>6 DEF InitializeRouterSeletor, At, getoptVars
  <2>7. CASE ProcessSignalArgs
    BY <2>7 DEF ProcessSignalArgs, At, getoptVars
  <2>8. CASE RunAsDaemon
    BY <2>8 DEF RunAsDaemon, At, getoptVars
  <2>9. CASE RunInForeground
    BY <2>9 DEF RunInForeground, At, getoptVars
  <2>10. CASE SubversionServerInitialize
    BY <2>10 DEF SubversionServerInitialize, At, getoptVars
  <2>11. CASE Ended
    BY <2>11 DEF Ended, At, vars, getoptVars, mainVars
  <2> QED BY <2>1, <2>2, <2>3, <2>4, <2>5, <2>6, <2>7, <2>8, <2>9, <2>10, <2>11 DEF Next
<1>3. CASE ScanRefused
  BY <1>2, <1>3 DEF ScanRefused, Exit
<1>4. CASE ScanEnded
  BY <1>2, <1>4 DEF ScanEnded
<1>5. ~ScanGoesOn
  BY <1>2 DEF ScanGoesOn
<1> QED BY <1>1, <1>2, <1>3, <1>4, <1>5

LEMMA WorldStays ==
  ASSUME [Next]_vars
  PROVE  world' = world /\ argv' = argv
<1>1. CASE getopt_long
  BY <1>1 DEF getopt_long, mainVars, G!Next, G!EndOfWords, G!SkipOperand, G!StartWord,
              G!DashDash, G!parse_long_options, G!ShortOption, G!Returns, G!Finish
<1>2. CASE TakeOption
  <2>1. world' = world
    BY <1>2 DEF TakeOption
  <2>2. argv' = argv
    BY <1>2 DEF TakeOption, getoptVars
  <2> QED BY <2>1, <2>2
<1>3. CASE UNCHANGED vars
  BY <1>3 DEF vars, getoptVars, mainVars
<1>4. CASE Next /\ ~getopt_long /\ ~TakeOption
  <2>1. CASE Search
    BY <2>1 DEF Search, getoptVars
  <2>2. CASE parse_file
    BY <2>2 DEF parse_file, getoptVars
  <2>3. CASE parse
    BY <2>3 DEF parse, getoptVars, mainVars
  <2>4. CASE Parsed
    BY <2>4 DEF Parsed, getoptVars
  <2>5. CASE ReadSettings
    BY <2>5 DEF ReadSettings, getoptVars
  <2>6. CASE InitializeRouterSeletor
    BY <2>6 DEF InitializeRouterSeletor, getoptVars
  <2>7. CASE ProcessSignalArgs
    BY <2>7 DEF ProcessSignalArgs, getoptVars
  <2>8. CASE RunAsDaemon
    BY <2>8 DEF RunAsDaemon, getoptVars
  <2>9. CASE RunInForeground
    BY <2>9 DEF RunInForeground, getoptVars
  <2>10. CASE SubversionServerInitialize
    BY <2>10 DEF SubversionServerInitialize, getoptVars
  <2>11. CASE Ended
    BY <2>11 DEF Ended, vars, getoptVars, mainVars
  <2> QED BY <1>4, <2>1, <2>2, <2>3, <2>4, <2>5, <2>6, <2>7, <2>8, <2>9, <2>10, <2>11 DEF Next
<1> QED BY <1>1, <1>2, <1>3, <1>4

LEMMA NextCInv == CInv /\ [Next]_vars => CInv'
<1> SUFFICES ASSUME CInv, [Next]_vars PROVE CInv'
  OBVIOUS
<1>1. argv' = argv /\ world' = world /\ argv \in Seq(Words)
  BY WorldStays DEF CInv
<1>2. ReadBehind' <=> ReadBehind
  BY <1>1 DEF ReadBehind
<1>3. ASSUME ~ReadBehind PROVE ScanGoesOn' \/ ScanRefused' \/ ScanEnded'
  <2>1. CASE getopt_long
    BY <1>3, <2>1, getopt_longStep
  <2>2. CASE TakeOption
    BY <1>3, <2>2, TakeOptionStep
  <2>3. CASE Next /\ ~getopt_long /\ ~TakeOption
    BY <1>3, <2>3, LaterStep
  <2>4. CASE UNCHANGED vars
    <3>1. ScanGoesOn \/ ScanRefused \/ ScanEnded
      BY <1>3 DEF CInv
    <3>2. /\ nargv' = nargv /\ optind' = optind /\ place' = place /\ optarg' = optarg
          /\ nonopt_start' = nonopt_start /\ nonopt_end' = nonopt_end /\ ch' = ch
          /\ pc' = pc /\ opts' = opts /\ outcome' = outcome
      BY <2>4 DEF vars, getoptVars, mainVars
    <3>3. Noting' = Noting
      BY <3>2 DEF Noting
    <3>4. CASE ScanGoesOn
      BY <1>1, <3>2, <3>3, <3>4 DEF ScanGoesOn
    <3>5. CASE ScanRefused
      BY <1>1, <3>2, <3>5 DEF ScanRefused, Exit
    <3>6. CASE ScanEnded
      BY <1>1, <3>2, <3>6 DEF ScanEnded
    <3> QED BY <3>1, <3>4, <3>5, <3>6
  <2> QED BY <2>1, <2>2, <2>3, <2>4
<1> QED BY <1>1, <1>2, <1>3 DEF CInv

LEMMA CInvAlways == Spec => []CInv
BY InitCInv, NextCInv, PTL DEF Spec

\* main ends at the usage text when a word is wrong and else has noted exactly what
\* the words say, whatever words they are (argv_getopt.inl, main.cc).
THEOREM OptionsUnderstood == Spec => []OptionsAsWritten
<1>1. CInv => OptionsAsWritten
  <2> SUFFICES ASSUME CInv, pc # "options", ~ReadBehind
               PROVE  /\ Usage => outcome = Exit(0)
                      /\ ~Usage =>
                           opts = [daemon |-> Line.daemon, version |-> Line.version,
                                   quiet |-> Line.quiet, cfile |-> Line.cfile,
                                   signame |-> Line.signame]
    BY Zenon DEF OptionsAsWritten
  <2>1. CASE ScanRefused
    <3>1. Usage /\ outcome = Exit(0)
      BY <2>1 DEF ScanRefused, Wrong, Usage, Line
    <3> QED BY <3>1
  <2>2. CASE ScanEnded
    <3>1. Good(Line) /\ opts = Noted(Line)
      BY <2>2 DEF ScanEnded, Scanned, Line
    <3>2. ~Usage
      BY <3>1 DEF Good, Usage
    <3> QED BY <3>1, <3>2 DEF Noted
  <2>3. ~ScanGoesOn
    BY DEF ScanGoesOn
  <2> QED BY <2>1, <2>2, <2>3 DEF CInv
<1> QED BY <1>1, CInvAlways, PTL

\* The scan ends with the options in front, the operands behind them, each in the
\* order they were given, and optind at the first operand (permute_args).
THEOREM OperandsBehind == Spec => []OperandsBehindOptions
<1>1. CInv => OperandsBehindOptions
  <2> SUFFICES ASSUME CInv, ch = "end", ~ReadBehind
               PROVE  optind = Len(Line.taken) + 1 /\ nargv = Line.taken \o Line.operands
    BY Zenon DEF OperandsBehindOptions
  <2>1. ScanEnded
    BY DEF CInv, ScanGoesOn, ScanRefused, Switches, Wanting
  <2> QED BY <2>1 DEF ScanEnded, Scanned, Line
<1> QED BY <1>1, CInvAlways, PTL

-----------------------------------------------------------------------------
(* From the options to serving *)

\* The profile that the options noted and the places that have one select.
Wanted ==
  IF opts.cfile # G!NoArg THEN "custom"
  ELSE IF "exe" \in DOMAIN world.files THEN "exe"
  ELSE IF "cwd" \in DOMAIN world.files THEN "cwd" ELSE "home"

Opened == profile \in DOMAIN world.files /\ text = TextOf(world.files[profile])

\* What a process serves that has read these settings.
Served == [end |-> "serving", port |-> Settings.port.lo, address |-> Settings.address,
           threads |-> Settings.poolSize.lo]

\* What main has done when it has come to a place.
Behind(at) ==
  /\ at \notin {"options", "ended"} => ~opts.version
  /\ at \notin {"options", "search", "ended"} => profile = Wanted
  /\ at \notin {"options", "search", "open", "ended"} => Opened
  /\ at \in {"settings", "router", "dispatch", "serve"} => state = "done"
  /\ at \in {"router", "dispatch", "serve"} => ~WrongType /\ settings = Settings
  /\ at = "serve" => opts.signame = G!NoArg

\* What is served is what main had when it came to serve.
MInv ==
  /\ Behind(pc)
  /\ pc # "ended" => outcome = Running
  /\ outcome.end = "serving" => Behind("serve") /\ outcome = Served

\* The settings are what the tree makes them, on this system.
LEMMA SettingsStay ==
  ASSUME root' = root, world' = world
  PROVE  /\ Settings' = Settings /\ (WrongType' <=> WrongType)
         /\ Served' = Served
<1>1. ASSUME NEW k PROVE Given(k)' <=> Given(k)
  BY DEF Given, T!contains_qualified, T!Kind
<1>2. Settings' = Settings
  <2>1. ASSUME NEW k, NEW d PROVE Integer(k, d)' = Integer(k, d)
    BY <1>1 DEF Integer
  <2>2. ASSUME NEW k, NEW d PROVE Strings(k, d)' = Strings(k, d)
    BY <1>1 DEF Strings
  <2>3. Boolean(Key("Daemon", "CrashRestart"), ~world.windows)' =
          Boolean(Key("Daemon", "CrashRestart"), ~world.windows)
    BY <1>1 DEF Boolean
  <2> QED BY <2>1, <2>2, <2>3 DEF Settings
<1>3. WrongType' <=> WrongType
  BY <1>1 DEF WrongType
<1> QED BY <1>2, <1>3 DEF Served

\* As long as main reads and notes no more.
LEMMA BehindStays ==
  ASSUME NEW at, Behind(at), root' = root, world' = world, opts' = opts,
         profile' = profile, text' = text, state' = state, settings' = settings
  PROVE  Behind(at)'
<1>1. Settings' = Settings /\ (WrongType' <=> WrongType)
  BY SettingsStay
<1>2. Wanted' = Wanted /\ (Opened' <=> Opened)
  BY DEF Wanted, Opened
<1> QED BY <1>1, <1>2 DEF Behind

\* The parser reads the text and leaves it.
LEMMA TextStays ==
  ASSUME T!Next
  PROVE  text' = text
<1>1. CASE T!SkipLine
  BY <1>1 DEF T!SkipLine
<1>2. CASE T!KeyLine
  BY <1>2 DEF T!KeyLine, T!Throw
<1>3. CASE T!parse_table
  BY <1>3 DEF T!parse_table, T!Throw
<1>4. CASE T!parse_single_table
  BY <1>4 DEF T!parse_single_table, T!Throw
<1>5. CASE T!parse_single_table_end
  BY <1>5 DEF T!parse_single_table_end, T!Throw
<1>6. CASE T!parse_table_array
  BY <1>6 DEF T!parse_table_array, T!Throw
<1>7. CASE T!parse_table_array_end
  BY <1>7 DEF T!parse_table_array_end, T!Throw
<1> QED BY <1>1, <1>2, <1>3, <1>4, <1>5, <1>6, <1>7 DEF T!Next

\* The search finds the profile that is wanted.
LEMMA SearchFinds ==
  ASSUME MInv, Search, world' = world
  PROVE  MInv'
<1>1. /\ pc = "search" /\ outcome = Running /\ ~opts.version
      /\ opts' = opts /\ UNCHANGED tomlVars /\ settings' = settings
  BY DEF MInv, Behind, Search, At
<1>2. CASE pc' = "open" /\ outcome' = outcome /\ profile' = Wanted
  <2>1. Wanted' = Wanted
    BY <1>1 DEF Wanted
  <2> QED BY <1>1, <1>2, <2>1 DEF MInv, Behind, Running
<1>3. CASE pc' = "ended" /\ outcome'.end # "serving"
  BY <1>3 DEF MInv, Behind
<1>4. \/ pc' = "open" /\ outcome' = outcome /\ profile' = Wanted
      \/ pc' = "ended" /\ outcome'.end # "serving"
  <2> DEFINE hits == {i \in DOMAIN SearchOrder : Found(SearchOrder[i])}
  <2>1. CASE opts.cfile # G!NoArg
    BY <2>1 DEF Search, Ends, Exit, GoTo, Wanted
  <2>2. CASE opts.cfile = G!NoArg /\ (~GetProcessImageFileFolder \/ hits = {})
    <3>1. G!NoArg # G!WildArg
      BY DEF G!NoArg, G!WildArg
    <3> QED BY <2>2, <3>1 DEF Search, Ends, Exit
  <2>3. CASE opts.cfile = G!NoArg /\ GetProcessImageFileFolder /\ hits # {}
    <3>1. G!NoArg # G!WildArg
      BY DEF G!NoArg, G!WildArg
    <3>2. /\ pc' = "open" /\ outcome' = outcome
          /\ profile' = SearchOrder[CHOOSE i \in hits : \A j \in hits : i <= j]
      BY <2>3, <3>1 DEF Search, GoTo
    <3>3. DOMAIN SearchOrder = 1 .. 3 /\ SearchOrder[1] = "exe"
          /\ SearchOrder[2] = "cwd" /\ SearchOrder[3] = "home"
      BY DEF SearchOrder
    <3>4. hits \in SUBSET (1 .. 3)
          /\ (1 \in hits <=> "exe" \in DOMAIN world.files)
          /\ (2 \in hits <=> "cwd" \in DOMAIN world.files)
      BY <3>3 DEF Found, PathFileIsExists
    <3> HIDE DEF hits
    <3>5. PICK n \in hits : \A j \in hits : n <= j
      <4>1. 1 \in hits \/ 2 \in hits \/ 3 \in hits
        <5>1. PICK m : m \in hits
          BY <2>3
        <5>2. m \in 1 .. 3
          BY <3>4, <5>1
        <5>3. m = 1 \/ m = 2 \/ m = 3
          BY <5>2
        <5> QED BY <5>1, <5>3
      <4> QED BY <3>4, <4>1
    <3>6. (CHOOSE i \in hits : \A j \in hits : i <= j) = n
      <4>1. \A m \in hits : (\A j \in hits : m <= j) => m = n
        BY <3>4, <3>5
      <4> QED BY <3>5, <4>1
    <3>7. SearchOrder[n] = IF 1 \in hits THEN "exe" ELSE IF 2 \in hits THEN "cwd" ELSE "home"
      BY <3>3, <3>4, <3>5
    <3>8. SearchOrder[n] = Wanted
      BY <2>3, <3>4, <3>7 DEF Wanted
    <3> QED BY <3>2, <3>6, <3>8
  <2> QED BY <2>1, <2>2, <2>3
<1> QED BY <1>2, <1>3, <1>4

LEMMA NextMInv == MInv /\ [Next]_vars => MInv'
<1> SUFFICES ASSUME MInv, [Next]_vars PROVE MInv'
  OBVIOUS
<1>w. world' = world
  BY WorldStays
\* Main goes on, and what it had before it still has.
<1>g. ASSUME NEW to, pc' = to, to # "ended", outcome' = outcome, pc # "ended", Behind(to)'
      PROVE  MInv'
  BY <1>g DEF MInv, Running
<1>e. ASSUME pc' = "ended", outcome'.end # "serving"
      PROVE  MInv'
  BY <1>e DEF MInv, Behind
<1>1. CASE getopt_long
  <2>1. pc = "options" /\ pc' = pc /\ outcome' = outcome
    BY <1>1 DEF getopt_long, At, mainVars
  <2> QED BY <2>1 DEF MInv, Behind, Running
<1>2. CASE TakeOption
  <2>1. pc = "options"
    BY <1>2 DEF TakeOption, At
  <2>2. \/ pc' = "ended" /\ outcome'.end # "serving"
        \/ pc' = "search" /\ outcome' = outcome /\ ~opts.version /\ opts' = opts
        \/ pc' = "options" /\ outcome' = outcome
    <3>1. CASE ch \in {"?", "h"}
      <4>1. pc' = "ended" /\ outcome' = Exit(0)
        BY <1>2, <3>1 DEF TakeOption, Ends
      <4> QED BY <4>1 DEF Exit
    <3>2. CASE ch = "end"
      BY <1>2, <3>2 DEF TakeOption, Ends, Exit, GoTo
    <3>3. CASE ch = "undefined"
      BY <1>2, <3>3 DEF TakeOption, Ends
    <3>4. CASE ch \notin {"?", "h", "end", "undefined"}
      BY <1>2, <2>1, <3>4 DEF TakeOption
    <3> QED BY <3>1, <3>2, <3>3, <3>4
  <2> QED BY <2>1, <2>2, <1>e DEF MInv, Behind, Running
<1>3. CASE Search
  BY <1>3, <1>w, SearchFinds
<1>4. CASE parse_file
  <2>1. /\ pc = "open" /\ opts' = opts /\ profile' = profile
        /\ ~opts.version /\ profile = Wanted /\ outcome = Running
    BY <1>4 DEF parse_file, At, MInv, Behind
  <2>2. CASE PathFileIsExists(profile)
    <3>1. /\ pc' = "parse" /\ outcome' = outcome /\ text' = TextOf(world.files[profile])
          /\ profile \in DOMAIN world.files
      BY <1>4, <2>2 DEF parse_file, GoTo, PathFileIsExists
    <3>2. Wanted' = Wanted /\ Opened'
      BY <1>w, <2>1, <3>1 DEF Wanted, Opened
    <3> QED BY <2>1, <3>1, <3>2 DEF MInv, Behind, Running
  <2>3. CASE ~PathFileIsExists(profile)
    BY <1>4, <2>3, <1>e DEF parse_file, Ends, Exit
  <2> QED BY <2>2, <2>3
<1>5. CASE parse
  <2>1. /\ pc = "parse" /\ pc' = pc /\ opts' = opts /\ profile' = profile
        /\ outcome' = outcome /\ outcome = Running /\ text' = text
    BY <1>5, TextStays DEF parse, At, MInv, mainVars
  <2>2. Wanted' = Wanted /\ (Opened' <=> Opened)
    BY <1>w, <2>1 DEF Wanted, Opened
  <2> QED BY <2>1, <2>2 DEF MInv, Behind, Running
<1>s. ASSUME UNCHANGED <<tomlVars, opts, profile, settings>>
      PROVE  /\ \A at : Behind(at) => Behind(at)'
             /\ Served' = Served
  <2>1. /\ root' = root /\ opts' = opts /\ profile' = profile /\ text' = text
        /\ state' = state /\ settings' = settings
    BY <1>s DEF tomlVars
  <2> QED BY <1>w, <2>1, BehindStays, SettingsStay
<1>6. CASE Parsed
  <2>1. /\ pc = "parse" /\ UNCHANGED <<tomlVars, opts, profile, settings>>
        /\ \/ state = "done" /\ pc' = "settings" /\ outcome' = outcome
           \/ pc' = "ended" /\ outcome'.end # "serving"
    BY <1>6 DEF Parsed, At, GoTo, Ends, Exit
  <2>2. state = "done" => Behind("settings")
    BY <2>1 DEF MInv, Behind
  <2> QED BY <2>1, <2>2, <1>s, <1>e, <1>g
<1>7. CASE ReadSettings
  <2>1. /\ pc = "settings" /\ root' = root /\ opts' = opts /\ profile' = profile
        /\ text' = text /\ state' = state
        /\ \/ ~WrongType /\ settings' = Settings /\ pc' = "router" /\ outcome' = outcome
           \/ pc' = "ended" /\ outcome'.end # "serving"
    BY <1>7 DEF ReadSettings, At, GoTo, Ends, tomlVars
  <2>2. Settings' = Settings /\ (WrongType' <=> WrongType)
    BY <1>w, <2>1, SettingsStay
  <2>3. Wanted' = Wanted /\ (Opened' <=> Opened)
    BY <1>w, <2>1 DEF Wanted, Opened
  <2>4. Behind("settings")
    BY <2>1 DEF MInv
  <2>5. CASE ~WrongType /\ settings' = Settings /\ pc' = "router" /\ outcome' = outcome
    <3>1. Behind("router")'
      BY <2>1, <2>2, <2>3, <2>4, <2>5 DEF Behind
    <3> QED BY <2>1, <2>5, <3>1, <1>g
  <2> QED BY <2>1, <2>5, <1>e
<1>8. CASE InitializeRouterSeletor
  <2>1. /\ pc = "router" /\ UNCHANGED <<tomlVars, opts, profile, settings>>
        /\ \/ pc' = "dispatch" /\ outcome' = outcome
           \/ pc' = "ended" /\ outcome'.end # "serving"
    BY <1>8 DEF InitializeRouterSeletor, At, GoTo, Ends, Exit
  <2>2. Behind("dispatch")
    BY <2>1 DEF MInv, Behind
  <2> QED BY <2>1, <2>2, <1>s, <1>e, <1>g
<1>9. CASE ProcessSignalArgs
  BY <1>9, <1>e DEF ProcessSignalArgs, Ends, Exit
<1>10. CASE RunAsDaemon \/ RunInForeground
  <2>1. /\ pc = "dispatch" /\ UNCHANGED <<tomlVars, opts, profile, settings>>
        /\ opts.signame = G!NoArg
        /\ \/ pc' = "serve" /\ outcome' = outcome
           \/ pc' = "ended" /\ outcome'.end # "serving"
    BY <1>10 DEF RunAsDaemon, RunInForeground, At, GoTo, Ends, Exit
  <2>2. Behind("serve")
    BY <2>1 DEF MInv, Behind
  <2> QED BY <2>1, <2>2, <1>s, <1>e, <1>g
<1>11. CASE SubversionServerInitialize
  <2>1. /\ pc = "serve" /\ UNCHANGED <<tomlVars, opts, profile, settings>>
        /\ Behind("serve") /\ settings = Settings /\ pc' = "ended"
    BY <1>11 DEF SubversionServerInitialize, At, MInv, Behind, Ends
  <2>2. \/ outcome' = [end |-> "serving", port |-> settings.port.lo,
                       address |-> settings.address, threads |-> settings.poolSize.lo]
        \/ outcome' = [end |-> "terminate"]
    BY <1>11 DEF SubversionServerInitialize, Ends
  <2>3. outcome' = Served \/ outcome'.end # "serving"
    BY <2>1, <2>2 DEF Served
  <2>4. CASE outcome' = Served
    <3>1. Behind("serve")' /\ Served' = Served
      BY <2>1, <1>s
    <3>2. Behind("ended")'
      BY DEF Behind
    <3> QED BY <2>1, <2>4, <3>1, <3>2 DEF MInv
  <2> QED BY <2>1, <2>3, <2>4, <1>e
<1>12. CASE Ended \/ UNCHANGED vars
  <2>1. /\ UNCHANGED <<tomlVars, opts, profile, settings>>
        /\ pc' = pc /\ outcome' = outcome
    BY <1>12 DEF Ended, vars, mainVars
  <2>2. /\ \A at : Behind(at) => Behind(at)'
        /\ Served' = Served
    BY <2>1, <1>s
  <2>3. Behind(pc)'
    <3>1. \A at : at = pc => (Behind(at) => Behind(at)')
      BY <2>2
    <3> QED BY <2>1, <2>2 DEF MInv, Behind
  <2> QED BY <2>1, <2>2, <2>3 DEF MInv, Running
<1> QED BY <1>1, <1>2, <1>3, <1>4, <1>5, <1>6, <1>7, <1>8, <1>9, <1>10, <1>11, <1>12
        DEF Next

LEMMA InitMInv == Init => MInv
<1> SUFFICES ASSUME Init PROVE MInv
  OBVIOUS
<1>1. pc = "options" /\ outcome = Running
  BY DEF Init
<1> QED BY <1>1 DEF MInv, Behind, Running

\* svnsrv serves only with the settings of the profile that the words and the files
\* there are select, and only when the words ask for it (main, ParseServiceProfile).
THEOREM ServesTheSelected == Spec => []ServesSelectedProfile
<1>1. CInv /\ OptionsAsWritten /\ MInv => ServesSelectedProfile
  <2> SUFFICES ASSUME OptionsAsWritten, MInv, outcome.end = "serving", ~ReadBehind
               PROVE  /\ ~Usage /\ ~Line.version /\ Line.signame = G!NoArg
                      /\ Selected \in DOMAIN world.files
                      /\ text = TextOf(world.files[Selected]) /\ state = "done"
                      /\ ~WrongType /\ outcome = Served
    BY Zenon DEF ServesSelectedProfile, Served
  <2>1. pc = "ended" /\ Behind("serve") /\ outcome = Served
    BY DEF MInv, Running
  <2>2. ~Usage
    BY <2>1 DEF OptionsAsWritten, Exit
  <2>3. opts = [daemon |-> Line.daemon, version |-> Line.version, quiet |-> Line.quiet,
                cfile |-> Line.cfile, signame |-> Line.signame]
    BY <2>1, <2>2 DEF OptionsAsWritten
  <2>4. ~Line.version /\ Line.signame = G!NoArg /\ opts.cfile = Line.cfile
    BY <2>1, <2>3 DEF Behind
  <2>5. Wanted = Selected
    BY <2>4 DEF Wanted, Selected
  <2> QED BY <2>1, <2>2, <2>4, <2>5 DEF Behind, Opened
<1>2. Spec => []MInv
  BY InitMInv, NextMInv, PTL DEF Spec
<1> QED BY <1>1, <1>2, CInvAlways, OptionsUnderstood, PTL
=============================================================================
