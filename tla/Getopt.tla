------------------------------- MODULE Getopt -------------------------------
(***************************************************************************)
(* getopt_long as svnsrv calls it: the scan of the command line, with long *)
(* options, clusters of letters, and operands moved behind the options.    *)
(*                                                                         *)
(* This is the implementation that is compiled in where the system has     *)
(* none (argv_getopt.inl).  The GNU one does the same for what is modelled *)
(* here, except that it looks at argc before it takes an argument; then    *)
(* behind is {}.  POSIXLY_CORRECT is not set.                              *)
(*                                                                         *)
(* A word of the command line is one of                                    *)
(*    [kind |-> "short", letters |-> <<"D", "c">>]           -Dc           *)
(*    [kind |-> "long", name |-> "conf", tail |-> BOOLEAN]   --conf[=...]  *)
(*    [kind |-> "end"]                                       --            *)
(*    [kind |-> "operand"]                                   anything else *)
(* and is known by its place in the vector main was given: nargv holds     *)
(* places, and an argument is a word or the part of a word behind some of  *)
(* its letters.  No letter of a cluster is a dash.                         *)
(***************************************************************************)
EXTENDS Integers, Sequences

CONSTANTS
  ShortOpts,   \* the letters of the option string
  WithArg,     \* those followed by a colon in it
  LongOpts,    \* the table: a sequence of [name, has_arg, val]
  Begins       \* Begins[s]: the names of the table that begin with s

VARIABLES
  argv,          \* the words, never changed
  nargv,         \* the vector being permuted, as places in argv
  optind,        \* next word to look at
  place,         \* <<>>, or the word being scanned and the letters done
  nonopt_start, nonopt_end,   \* block of operands skipped, 0 for -1
  optarg,        \* argument of the option returned
  behind,        \* what may lie behind the copy of argv: "null", "wild"
  ch             \* what the call has returned, "" while it runs

vars == <<argv, nargv, optind, place, nonopt_start, nonopt_end, optarg, ch>>

NoArg      == [from |-> 0, skip |-> 0]
WildArg    == [from |-> 0, skip |-> 1]
Part(w, k) == [from |-> w, skip |-> k]

nargc == Len(nargv)
Word(i) == argv[nargv[i]]
Letters(w) == argv[w].letters

\* In the middle of a word.
Scanning == place # <<>>

-----------------------------------------------------------------------------
(* Moving operands behind options *)

gcd[p \in Nat \X (Nat \ {0})] ==
  IF p[1] % p[2] = 0 THEN p[2] ELSE gcd[<<p[2], p[1] % p[2]>>]

\* Fault: the cycles of the rotation are taken to be one.
permute_args_OneCycle(from, mid, end, v) ==
  [i \in DOMAIN v |->
     IF i >= from /\ i < end /\ gcd[<<mid - from, end - mid>>] = 1
     THEN v[from + ((i - from + mid - from) % (end - from))] ELSE v[i]]

\* The other position that one is exchanged with, in a rotation of from .. end - 1
\* that takes the first word to end - (mid - from).
Across(from, mid, end, pos) == IF pos >= mid THEN pos - (mid - from) ELSE pos + (end - mid)

\* One swap of the cycle that starts at c.
Swap(from, mid, end, c, s) ==
  LET p == Across(from, mid, end, s.pos)
  IN  [pos |-> p, v |-> [s.v EXCEPT ![p] = s.v[c], ![c] = s.v[p]]]

cyclelen(from, mid, end) == (end - from) \div gcd[<<mid - from, end - mid>>]

\* The n-th swap: cyclelen of them are a cycle, and each cycle starts one further.
Swapped(from, mid, end, n, s) ==
  LET len == cyclelen(from, mid, end)
      c   == mid + n \div len
  IN  Swap(from, mid, end, c, IF n % len = 0 THEN [s EXCEPT !.pos = c] ELSE s)

\* The blocks from .. mid - 1 and mid .. end - 1 of v change places, one cycle
\* of the rotation after the other.
permute_args(from, mid, end, v) ==
  LET swaps[n \in 0 .. end - from] ==
        IF n = 0 THEN [pos |-> mid, v |-> v]
        ELSE Swapped(from, mid, end, n - 1, swaps[n - 1])
  IN  swaps[gcd[<<mid - from, end - mid>>] * cyclelen(from, mid, end)].v

\* The scan is over: the last block of operands is moved, optind is its start.
Finish(end) ==
  /\ IF nonopt_end # 0
     THEN /\ nargv' = permute_args(nonopt_start, nonopt_end, end, nargv)
          /\ optind' = end - (nonopt_end - nonopt_start)
     ELSE /\ UNCHANGED nargv
          /\ optind' = IF nonopt_start # 0 THEN nonopt_start ELSE end
  /\ nonopt_start' = 0 /\ nonopt_end' = 0
  /\ place' = <<>>
  /\ ch' = "end"
  /\ UNCHANGED <<argv, optarg>>

-----------------------------------------------------------------------------
(* One call; main makes it with ch = "" and optarg reset *)

InCall == ch = ""

\* Every word has been looked at.  Behind an argument read past the end the
\* permutation itself goes past the end.
EndOfWords ==
  /\ InCall /\ ~Scanning /\ optind > nargc
  /\ IF optind > nargc + 1 /\ nonopt_end # 0
     THEN /\ ch' = "undefined"
          /\ UNCHANGED <<argv, nargv, optind, place, nonopt_start, nonopt_end,
                         optarg>>
     ELSE Finish(optind)

SkipOperand ==
  /\ InCall /\ ~Scanning /\ optind <= nargc
  /\ Word(optind).kind = "operand"
  /\ IF nonopt_start = 0
     THEN nonopt_start' = optind /\ UNCHANGED <<nargv, nonopt_end>>
     ELSE IF nonopt_end # 0
     THEN /\ nargv' = permute_args(nonopt_start, nonopt_end, optind, nargv)
          /\ nonopt_start' = optind - (nonopt_end - nonopt_start)
          /\ nonopt_end' = 0
     ELSE UNCHANGED <<nargv, nonopt_start, nonopt_end>>
  /\ optind' = optind + 1
  /\ UNCHANGED <<argv, place, optarg, ch>>

\* Where a block of operands ends, if the word at optind ends one.
BlockEnd == IF nonopt_start # 0 /\ nonopt_end = 0 THEN optind ELSE nonopt_end

StartWord ==
  /\ InCall /\ ~Scanning /\ optind <= nargc
  /\ Word(optind).kind \in {"short", "long"}
  /\ place' = <<nargv[optind], 0>>
  /\ nonopt_end' = BlockEnd
  /\ UNCHANGED <<argv, nargv, optind, nonopt_start, optarg, ch>>

DashDash ==
  /\ InCall /\ ~Scanning /\ optind <= nargc
  /\ Word(optind).kind = "end"
  /\ LET end == optind + 1 IN
     IF BlockEnd # 0
     THEN /\ nargv' = permute_args(nonopt_start, BlockEnd, end, nargv)
          /\ optind' = end - (BlockEnd - nonopt_start)
     ELSE UNCHANGED nargv /\ optind' = end
  /\ nonopt_start' = 0 /\ nonopt_end' = 0
  /\ ch' = "end"
  /\ UNCHANGED <<argv, place, optarg>>

-----------------------------------------------------------------------------
(* Long options *)

Exact(given)    == {i \in DOMAIN LongOpts : LongOpts[i].name = given}
Possible(given) == {i \in DOMAIN LongOpts : LongOpts[i].name \in Begins[given]}

\* Fault: the first name of the table that begins so is taken.
Match_First(given) ==
  IF Possible(given) = {} THEN 0
  ELSE CHOOSE i \in Possible(given) : \A j \in Possible(given) : i <= j

\* The option meant: the table is walked until an exact match or a second
\* partial one.  0 for an unknown and for an ambiguous name.
Match(given) ==
  LET P == Possible(given)
      AtMostOne(S) == \A i, j \in S : i = j
  IN  IF \E i \in Exact(given) : AtMostOne({j \in P : j < i})
      THEN CHOOSE i \in Exact(given) : TRUE
      ELSE IF P # {} /\ AtMostOne(P) THEN CHOOSE i \in P : TRUE ELSE 0

\* The word has been used up and the call returns c.
Returns(c, arg, next) ==
  /\ ch' = c /\ optarg' = arg /\ optind' = next
  /\ place' = <<>>
  /\ UNCHANGED <<argv, nargv, nonopt_start, nonopt_end>>

parse_long_options ==
  /\ InCall /\ Scanning /\ argv[place[1]].kind = "long"
  /\ LET w == place[1]
         m == Match(argv[w].name)
         needs == LongOpts[m].has_arg
         next == optind + 1
     IN
     \/ /\ m = 0
        /\ Returns("?", NoArg, next)
     \/ /\ m # 0 /\ ~needs
        /\ Returns(IF argv[w].tail THEN "?" ELSE LongOpts[m].val, NoArg, next)
     \/ /\ m # 0 /\ needs /\ argv[w].tail
        /\ Returns(LongOpts[m].val, Part(w, 1), next)
     \/ /\ m # 0 /\ needs /\ ~argv[w].tail /\ next <= nargc
        /\ Returns(LongOpts[m].val, Part(nargv[next], 0), next + 1)
     \* nargv[optind++] with optind = nargc: the copy has no null at its end.
     \/ /\ m # 0 /\ needs /\ ~argv[w].tail /\ next > nargc
        /\ \/ behind = {} /\ Returns("?", NoArg, next)
           \/ "null" \in behind /\ Returns("?", NoArg, next)
           \/ "wild" \in behind /\ Returns(LongOpts[m].val, WildArg, next + 1)

-----------------------------------------------------------------------------
(* Letters *)

\* Go on behind letter k of the word, or to the next word.
After(w, k) ==
  IF k = Len(Letters(w)) THEN optind' = optind + 1 /\ place' = <<>>
  ELSE place' = <<w, k>> /\ UNCHANGED optind

ShortOption ==
  /\ InCall /\ Scanning /\ argv[place[1]].kind = "short"
  /\ LET w == place[1]
         k == place[2] + 1
         c == Letters(w)[k]
     IN
     \/ /\ c \notin WithArg
        /\ ch' = IF c \in ShortOpts THEN c ELSE "?"
        /\ After(w, k)
        /\ UNCHANGED <<argv, nargv, nonopt_start, nonopt_end, optarg>>
     \/ /\ c \in WithArg /\ k < Len(Letters(w))
        /\ Returns(c, Part(w, k), optind + 1)
     \/ /\ c \in WithArg /\ k = Len(Letters(w)) /\ optind < nargc
        /\ Returns(c, Part(nargv[optind + 1], 0), optind + 2)
     \/ /\ c \in WithArg /\ k = Len(Letters(w)) /\ optind >= nargc
        /\ Returns("?", NoArg, optind + 1)

-----------------------------------------------------------------------------
Init(words) ==
  /\ argv = words
  /\ nargv = [i \in 1..Len(words) |-> i]
  /\ optind = 1
  /\ place = <<>>
  /\ nonopt_start = 0 /\ nonopt_end = 0
  /\ optarg = NoArg
  /\ ch = ""

Next == \/ EndOfWords \/ SkipOperand \/ StartWord \/ DashDash
        \/ parse_long_options \/ ShortOption
=============================================================================
