---------------------------- MODULE CommandLine ----------------------------
(***************************************************************************)
(* What a command line says: a reference reading to measure getopt and     *)
(* main with.  It goes through the words as they were given, from left to  *)
(* right, and moves none; it uses none of Getopt's operators.  At the end, *)
(* which profile svnsrv has to serve with after such a line.               *)
(***************************************************************************)
EXTENDS Startup

\* The letter of each long option, and the letters that want an argument.
LetterOf == [daemon |-> "D", config |-> "c", debug |-> "d", help |-> "h",
             version |-> "v", quiet |-> "q", signal |-> "s"]
Wanting  == {"c", "s"}

\* What is known when some of the words have been read: the settings, whether
\* the usage text is due, the letter whose argument is the next word, whether
\* "--" was seen, and the words that are options or arguments of options, and
\* those that are operands.
Unread == [daemon |-> FALSE, version |-> FALSE, quiet |-> FALSE,
           cfile |-> G!NoArg, signame |-> G!NoArg,
           usage |-> FALSE, wants |-> "", ended |-> FALSE,
           taken |-> <<>>, operands |-> <<>>]

Flags(o, S) == [o EXCEPT !.daemon = @ \/ "D" \in S, !.version = @ \/ "v" \in S,
                         !.quiet = @ \/ "q" \in S,
                         !.usage = @ \/ ~(S \subseteq {"D", "v", "q", "d"})]

Argument(o, c, arg) == IF c = "c" THEN [o EXCEPT !.cfile = arg, !.wants = ""]
                       ELSE [o EXCEPT !.signame = arg, !.wants = ""]

\* A cluster of letters: up to the first that wants an argument, which is the
\* rest of the word or, if nothing is left, the next word.
ReadLetters(o, i, letters) ==
  LET W == {k \in DOMAIN letters : letters[k] \in Wanting}
      k == CHOOSE k \in W : \A j \in W : k <= j
      Upto(n) == {letters[j] : j \in 1..n}
  IN  IF W = {} THEN Flags(o, Upto(Len(letters)))
      ELSE IF k < Len(letters)
      THEN Argument(Flags(o, Upto(k - 1)), letters[k], [from |-> i, skip |-> k])
      ELSE [Flags(o, Upto(k - 1)) EXCEPT !.wants = letters[k]]

\* A long option: the one name of the table that begins so.
ReadName(o, i, name, tail) ==
  LET c == LetterOf[CHOOSE n \in DOMAIN LetterOf : Begins[name] = {n}] IN
  IF \A n \in DOMAIN LetterOf : Begins[name] # {n} THEN [o EXCEPT !.usage = TRUE]
  ELSE IF c \notin Wanting
  THEN IF tail THEN [o EXCEPT !.usage = TRUE] ELSE Flags(o, {c})
  ELSE IF tail THEN Argument(o, c, [from |-> i, skip |-> 1])
  ELSE [o EXCEPT !.wants = c]

ReadWord(words, o, i) ==
  LET w == words[i]
      t == [o EXCEPT !.taken = Append(@, i)]
  IN  IF o.usage THEN o
      ELSE IF o.wants # "" THEN Argument(t, o.wants, [from |-> i, skip |-> 0])
      ELSE IF o.ended \/ w.kind = "operand" THEN [o EXCEPT !.operands = Append(@, i)]
      ELSE CASE w.kind = "end"   -> [t EXCEPT !.ended = TRUE]
             [] w.kind = "short" -> ReadLetters(t, i, w.letters)
             [] w.kind = "long"  -> ReadName(t, i, w.name, w.tail)

\* What is known when so many words have been read.
Reading(words) ==
  LET read[n \in 0 .. Len(words)] ==
        IF n = 0 THEN Unread ELSE ReadWord(words, read[n - 1], n)
  IN  read

Line  == Reading(argv)[Len(argv)]
Usage == Line.usage \/ Line.wants # ""

\* The last word is a long option whose argument is missing, on Windows: what
\* is read then, lies behind the copy of the vector.
ReadBehind ==
  /\ world.windows /\ argv # <<>>
  /\ argv[Len(argv)].kind = "long" /\ ~argv[Len(argv)].tail

\* What svnsrv understands is what the words say from left to right, though
\* getopt moves words while it reads: argv_getopt.inl, getopt_internal and
\* parse_long_options.
OptionsAsWritten ==
  pc # "options" /\ ~ReadBehind =>
    /\ Usage => outcome = Exit(0)
    /\ ~Usage =>
         opts = [daemon |-> Line.daemon, version |-> Line.version,
                 quiet |-> Line.quiet, cfile |-> Line.cfile,
                 signame |-> Line.signame]

\* When the scan is over every word is still there, the options with their
\* arguments stand first and the operands behind them, both in the order they
\* were given, and optind is the first operand: permute_args, whatever blocks
\* were moved past each other.
OperandsBehindOptions ==
  ch = "end" /\ ~ReadBehind =>
    /\ optind = Len(Line.taken) + 1
    /\ nargv = Line.taken \o Line.operands

\* The profile the words and the places that have one select.
Selected ==
  IF Line.cfile # G!NoArg THEN "custom"
  ELSE IF "exe" \in DOMAIN world.files THEN "exe"
  ELSE IF "cwd" \in DOMAIN world.files THEN "cwd" ELSE "home"

\* svnsrv serves only where the words ask for it, and only with the settings in
\* the tree of the selected profile, read to its end, in which no key has a wrong
\* type: whatever main, ParseServiceProfile and the server come across on the
\* way, nothing else gets to run().
ServesSelectedProfile ==
  outcome.end = "serving" /\ ~ReadBehind =>
    /\ ~Usage /\ ~Line.version /\ Line.signame = G!NoArg
    /\ Selected \in DOMAIN world.files
    /\ text = TextOf(world.files[Selected]) /\ state = "done"
    /\ ~WrongType
    /\ outcome = [end |-> "serving", port |-> Settings.port.lo,
                  address |-> Settings.address, threads |-> Settings.poolSize.lo]
=============================================================================
