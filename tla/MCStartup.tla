----------------------------- MODULE MCStartup -----------------------------
(***************************************************************************)
(* An instance of Startup for TLC: command lines, kinds of lines of a      *)
(* profile, and worlds; and a reference reading of a profile to measure    *)
(* the model with, which uses none of the model's own operators: it goes   *)
(* over what each line is meant to say.                                    *)
(***************************************************************************)
EXTENDS CommandLine

Short(letters)   == [kind |-> "short", letters |-> letters]
Long(name, tail) == [kind |-> "long", name |-> name, tail |-> tail]
Operand          == [kind |-> "operand"]
DoubleDash       == [kind |-> "end"]

AllWords == {Short(<<"D">>), Short(<<"D", "c">>), Short(<<"c", "X">>),
             Short(<<"q", "v">>), Short(<<"z">>), Short(<<"s">>),
             Operand, DoubleDash, Long("conf", FALSE), Long("d", FALSE),
             Long("debug", FALSE), Long("signal", TRUE), Long("signal", FALSE),
             Long("daemon", TRUE)}

CommandLines ==
  SeqOf(AllWords, 2)
  \cup SeqOf({Short(<<"D">>), Short(<<"c">>), Long("conf", FALSE), Operand,
              DoubleDash}, 4)
  \cup [1..6 -> {Short(<<"q">>), Operand}]

MCBegins == [daemon |-> {"daemon"}, config |-> {"config"}, debug |-> {"debug"},
             signal |-> {"signal"}, conf |-> {"config"}, d |-> {"daemon", "debug"}]

-----------------------------------------------------------------------------
(* The lines, with what they say *)

Nothing         == [is |-> "nothing"]
Broken          == [is |-> "broken"]
Loose           == [is |-> "loose"]     \* no claim
Open            == [is |-> "open"]      \* broken, unless a later line closes it
Pair(k, v)      == [is |-> "key", key |-> k, value |-> v]
Header(path)    == [is |-> "table", path |-> path]
ArrayHead(path) == [is |-> "array", path |-> path]

Element1 == <<"@", "1">>
Element2 == <<"@", "2">>
Scalar(type, content) == <<>> :> <<type, content>>
N == <<"Network">>
P == <<"Port">>
PortIs(type, content) == Pair(P, Scalar(type, content))
AddressIs(content)    == Pair(<<"Address">>, Scalar("string", content))

Profile == <<
  [text |-> <<"[", "Network", "]">>,                        says |-> Header(<<N>>)],
  [text |-> <<"Port", " ", "=", " ", "8080", " ", "#">>,    says |-> PortIs("int", <<"8080">>)],
  [text |-> <<"[", "Network", ".", " ", "b", "]", " ">>,    says |-> Header(<<N, <<"b">>>>)],
  [text |-> <<"[", "[", "Network", "]", "]">>,              says |-> ArrayHead(<<N>>)],
  [text |-> <<"Network", "=", "{", "Port", "=", "8080", "}">>,
   says |-> Pair(N, (<<>> :> <<"table">>) @@ (<<P>> :> <<"int", <<"8080">>>>))],
  [text |-> <<"Address", " ", "=", "'", "::1", "'">>,       says |-> AddressIs(<<"::1">>)],
  [text |-> <<"[", "Service", "]", " ", "#">>,              says |-> Header(<<<<"Service">>>>)],
  [text |-> <<"PoolSize", "=", "+", "4">>,
   says |-> Pair(<<"PoolSize">>, Scalar("int", <<"+", "4">>))],
  [text |-> <<"[", "Network">>,                             says |-> Loose],
  \* from here on only in short profiles
  [text |-> <<" ">>,                                        says |-> Nothing],
  [text |-> <<"#", "[">>,                                   says |-> Nothing],
  [text |-> <<"\"", "Port", "\"", "=", "3", "_", "690">>,   says |-> PortIs("int", <<"3", "690">>)],
  [text |-> <<"Port", "=", "70000">>,                       says |-> PortIs("int", <<"70000">>)],
  [text |-> <<"PoolSize", "=", "-", "1">>,
   says |-> Pair(<<"PoolSize">>, Scalar("int", <<"-", "1">>))],
  [text |-> <<"Port", "=", "8080", "e", "1">>,              says |-> PortIs("float", <<"8080", "e", "1">>)],
  [text |-> <<"Port", "=", "1", ".", "1", "e", "-", "1">>,
   says |-> PortIs("float", <<"1", ".", "1", "e", "-", "1">>)],
  [text |-> <<"Port", "=", "\"", "a", "\\", "n", "\"">>,    says |-> PortIs("string", <<"a", "LF">>)],
  [text |-> <<"Port", "=", "date">>,                        says |-> Pair(P, <<>> :> <<"date">>)],
  [text |-> <<"Port", "=", "[", "1", ",", "#", "\n", "8080", " ", "]">>,
   says |-> Pair(P, (<<>> :> <<"array">>) @@ (<<Element1>> :> <<"int", <<"1">>>>)
                    @@ (<<Element2>> :> <<"int", <<"8080">>>>))],
  [text |-> <<"Port", "=", "[", "[", "]", ",", "[", "'", "a", "'", "]", "]">>,
   says |-> Pair(P, (<<>> :> <<"array">>) @@ (<<Element1>> :> <<"array">>)
                    @@ (<<Element2>> :> <<"array">>)
                    @@ (<<Element2, Element1>> :> <<"string", <<"a">>>>))],
  [text |-> <<"Network", "=", "[", "{", "Port", "=", "1", ",", "a", "=", "1", "}", "]">>,
   says |-> Pair(N, (<<>> :> <<"tables">>) @@ (<<Element1>> :> <<"table">>)
                    @@ (<<Element1, P>> :> <<"int", <<"1">>>>)
                    @@ (<<Element1, <<"a">>>> :> <<"int", <<"1">>>>))],
  [text |-> <<"Address", "=", "\"", "\"", "\"", "\n", "::1", "\\", "\n", " ", "\"", "\"", "\"">>,
   says |-> AddressIs(<<"::1">>)],
  [text |-> <<"Address", "=", "'", "'", "'", "\n", "a", "\n", "\\", "'", "'", "'">>,
   says |-> AddressIs(<<"a", "LF", "\\">>)],
  [text |-> <<"Tunnel", "=", "true", "#">>,
   says |-> Pair(<<"Tunnel">>, Scalar("bool", <<"true">>))],
  [text |-> <<"[", "[", "a", ".", "Network", "]", "]", " ", "#">>,
   says |-> ArrayHead(<<<<"a">>, N>>)],
  [text |-> <<"Port", " ", "8080">>,                        says |-> Broken],
  [text |-> <<"Port", "=">>,                                says |-> Broken],
  [text |-> <<"Port", "=", "8080", " ", "a">>,              says |-> Broken],
  [text |-> <<"Port", "=", "1", "_", "_", "1">>,            says |-> Broken],
  [text |-> <<"Port", "=", "1", ".", "1", "e", "a">>,       says |-> Broken],
  [text |-> <<"Port", "=", "1", ".", "a">>,                 says |-> Broken],
  [text |-> <<"Port", "=", "huge">>,                        says |-> Broken],
  [text |-> <<"Port", "=", "true", "a">>,                   says |-> Broken],
  [text |-> <<"Port", "=", "[", "1", ",", "'", "a", "'", "]">>, says |-> Broken],
  [text |-> <<"Port", "=", "[", "[", "]", ",", "1", "]">>,  says |-> Broken],
  [text |-> <<"Port", "=", "[", "[", "]", "a", "]">>,       says |-> Broken],
  [text |-> <<"Port", "=", "[", "1", ",">>,                 says |-> Broken],
  [text |-> <<"Port", "=", "{", "a", "=", "1">>,            says |-> Broken],
  [text |-> <<"Port", "=", "{", "a", "=", "1", ",", "a", "=", "1", "}">>, says |-> Broken],
  [text |-> <<"Address", "=", "\"", "a">>,                  says |-> Broken],
  [text |-> <<"Address", "=", "\"", "\\", "a", "\"">>,      says |-> Broken],
  [text |-> <<"Address", "=", "'", "'", "'", "a">>,         says |-> Open],
  [text |-> <<"a", " ", "Port", " ", "=", "1">>,            says |-> Broken],
  [text |-> <<"[", "]">>,                                   says |-> Broken],
  [text |-> <<"[", "[", "a", "]", "]", "a">>,               says |-> Broken],
  [text |-> <<"[", "[", "a">>,                              says |-> Broken],
  [text |-> <<"[", "a", "]", "a">>,                         says |-> Broken],
  [text |-> <<"[", "a", "#", "]">>,                         says |-> Broken],
  [text |-> <<"[", "[", "a", "#", "]", "]">>,               says |-> Broken],
  [text |-> <<"a", "=", "1">>,                              says |-> Pair(<<"a">>, Scalar("int", <<"1">>))],
  [text |-> <<"Network", "=", "1">>,                        says |-> Pair(N, Scalar("int", <<"1">>))],
  [text |-> <<"[", "[", "a", "]", "a">>,                    says |-> Loose],
  [text |-> <<"Port", "=", "[", "1", ".", "1", ",", "1", ",", "]">>, says |-> Loose],
  [text |-> <<"PoolSize", "=", "4294967300">>,
   says |-> Pair(<<"PoolSize">>, Scalar("int", <<"4294967300">>))],
  [text |-> <<"Port", "=", "-", "1">>,                      says |-> PortIs("int", <<"-", "1">>)],
  [text |-> <<"Port", "=", "1", "e", "400">>,               says |-> Broken],
  [text |-> <<"Port", "=", "[", "1", " ", "8080", "]">>,    says |-> Broken],
  [text |-> <<"[", "[", "a", "]", "Port">>,                 says |-> Broken],
  [text |-> <<"[", "Network", "]", "CR">>,                  says |-> Broken],
  [text |-> <<"Port", "=", "8080", "CR">>,                  says |-> Broken] >>

MCLines   == [i \in DOMAIN Profile |-> Profile[i].text]
MCDigits  == {"1", "3", "4", "400", "690", "8080", "70000", "4294967300", "huge"}
MCTooLong == {"huge"}
MCOutOfRange == {<<"1", "e", "400">>}
MCWide    == UNION {ToSet(MCLines[i]) : i \in DOMAIN MCLines}
               \ {" ", "\n", "CR", "[", "]", "{", "}", "=", ".", ",", "#", "'", "\"", "\\",
                  "-", "+", "_", "a", "b", "e", "n", "1", "3", "4"}
MCWorth   == (<<"1">> :> [hi |-> 0, lo |-> 1]) @@ (<<"4">> :> [hi |-> 0, lo |-> 4])
             @@ (<<"8080">> :> [hi |-> 0, lo |-> 8080])
             @@ (<<"3", "690">> :> [hi |-> 0, lo |-> 3690])
             @@ (<<"70000">> :> [hi |-> 1, lo |-> 4464])
             @@ (<<"4294967300">> :> [hi |-> 65536, lo |-> 4])

-----------------------------------------------------------------------------
(* The worlds *)

World(win, self, files, router, words) ==
  [windows |-> win, self |-> self, files |-> files, router |-> router, words |-> words,
   addresses |-> {<<"127.0.0.1">>, <<"::1">>}]

Spelt(word) == [i \in 1..6 |-> word]

Short3 == SeqOf(DOMAIN Profile, 2) \cup SeqOf(1..9, 3) \cup [1..4 -> {1, 2, 3, 4}]
          \cup [1..3 -> {1, 3, 4, 5, 19, 21}]

\* Every command line against the same profiles, every profile with the same
\* command line, and every set of places with profiles of their own.
MCStarts ==
  (CommandLines \X {World(win, TRUE, [custom |-> <<1, 2>>, home |-> <<>>], "good", Spelt(s)) :
                      win \in BOOLEAN, s \in {"stop", "restart", "a"}})
  \cup ({<<>>, <<Short(<<"D">>)>>} \X {World(FALSE, TRUE, [exe |-> d], "good", Spelt("a")) : d \in Short3})
  \cup ({<<>>, <<Short(<<"c", "X">>)>>}
        \X {World(win, self, [p \in S |-> IF p = "cwd" THEN <<1, 2>> ELSE
                                    IF p = "home" THEN <<8>> ELSE
                                    IF p = "exe" THEN <<7, 8>> ELSE <<1, 6>>], r, Spelt("a")) :
              win \in BOOLEAN, self \in BOOLEAN, S \in SUBSET Places, r \in {"good", "refused", "crash"}})

-----------------------------------------------------------------------------
(* Reference reading of a profile: over what its lines say *)

\* made: the tables a header has named.
Blank == [is |-> "yes", tree |-> <<>> :> <<"table">>, cur |-> <<>>, made |-> {}]

Below(tree, path) == {q \in DOMAIN tree : Len(q) = Len(path) + 1 /\ IsPrefix(path, q)}
Nth(tree, path, extra) ==
  Append(path, <<"@", ToString(Cardinality(Below(tree, path)) + extra)>>)

\* Down the keys of a header, making the tables that are missing; into the last
\* element of an array of tables.
RECURSIVE Descend(_, _, _)
Descend(tree, at, keys) ==
  IF keys = <<>> THEN [ok |-> TRUE, tree |-> tree, at |-> at]
  ELSE LET p == Append(at, Head(keys)) IN
       IF p \notin DOMAIN tree THEN Descend(tree @@ (p :> <<"table">>), p, Tail(keys))
       ELSE IF tree[p] = <<"table">> THEN Descend(tree, p, Tail(keys))
       ELSE IF tree[p] = <<"tables">> THEN Descend(tree, Nth(tree, p, 0), Tail(keys))
       ELSE [ok |-> FALSE, tree |-> tree, at |-> p]

Bad(m) == [m EXCEPT !.is = "bad"]

\* A table may be named once.  No claim is made of one that is named again and
\* holds only tables and arrays.
ReadHeader(m, path) ==
  LET d == Descend(m.tree, <<>>, path)
      again == d.at \in DOMAIN m.tree
      held  == {m.tree[q][1] : q \in Below(m.tree, d.at)}
  IN  IF ~d.ok THEN Bad(m)
      ELSE IF again /\ (held = {} \/ ~(held \subseteq {"table", "tables", "array"}))
      THEN Bad(m)
      ELSE IF again /\ (d.at \in m.made \/ "array" \in held)
      THEN [m EXCEPT !.is = "loose"]
      ELSE [m EXCEPT !.tree = d.tree, !.cur = d.at, !.made = @ \cup {d.at}]

ReadArrayHead(m, path) ==
  LET d == Descend(m.tree, <<>>, Front(path))
      p == Append(d.at, Last(path))
      e == Nth(d.tree, p, 1)
  IN  IF ~d.ok THEN Bad(m)
      ELSE IF p \in DOMAIN d.tree /\ d.tree[p] # <<"tables">> THEN Bad(m)
      ELSE [m EXCEPT !.tree = (p :> <<"tables">>) @@ (e :> <<"table">>) @@ d.tree,
                     !.cur = e, !.made = @ \cup {e}]

ReadPair(m, k, value) ==
  IF Append(m.cur, k) \in DOMAIN m.tree THEN Bad(m)
  ELSE [m EXCEPT !.tree = @ @@ [q \in {Append(m.cur, k) \o r : r \in DOMAIN value} |->
                                  value[SubSeq(q, Len(m.cur) + 2, Len(q))]]]

ReadLine(m, i) ==
  LET s == Profile[i].says IN
  IF m.is \in {"bad", "open"} THEN m
  ELSE IF s.is = "broken" THEN Bad(m)
  ELSE IF s.is = "open" THEN [m EXCEPT !.is = "open"]
  ELSE IF m.is = "loose" THEN m
  ELSE CASE s.is = "nothing" -> m
         [] s.is = "loose"   -> [m EXCEPT !.is = "loose"]
         [] s.is = "key"     -> ReadPair(m, s.key, s.value)
         [] s.is = "table"   -> ReadHeader(m, s.path)
         [] s.is = "array"   -> ReadArrayHead(m, s.path)

Said(file) == FoldLeft(ReadLine, Blank, file)

Parsing == pc = "parse" /\ state \in {"done", "refused"}

\* A profile whose every line is well formed, that sets no key twice and names
\* no table twice is accepted, and the tree holds exactly what its lines say,
\* each under the table it stands in: cpptoml.h, parser::parse.
ValidUnderstood ==
  Parsing /\ Said(world.files[profile]).is = "yes" =>
    state = "done" /\ root = Said(world.files[profile]).tree


-----------------------------------------------------------------------------
(* End to end *)

Value(tree, tbl, name) == tree[<< <<tbl>>, <<name>> >>]
Has(tree, tbl, name)   == << <<tbl>>, <<name>> >> \in DOMAIN tree /\ tree[<< <<tbl>> >>] = <<"table">>

\* The type each setting has to have, by the defaults ParseServiceProfile gives.
Typed(tree) ==
  /\ Has(tree, "Network", "Port")     => Value(tree, "Network", "Port")[1] = "int"
  /\ Has(tree, "Network", "Address")  => Value(tree, "Network", "Address")[1] = "string"
  /\ Has(tree, "Network", "Tunnel")   => Value(tree, "Network", "Tunnel")[1] = "bool"
  /\ Has(tree, "Service", "PoolSize") => Value(tree, "Service", "PoolSize")[1] = "int"

\* What a number of the profile comes to: TOMLParse.cc makes it an int, svnsrv.h
\* 32 bits without a sign, and an endpoint has 16 bits for its port.
ServedPort    == (<<"8080">> :> 8080) @@ (<<"3", "690">> :> 3690)
                 @@ (<<"70000">> :> 70000 - 65536) @@ (<<"-", "1">> :> 65535)
ServedThreads == (<<"+", "4">> :> 4) @@ (<<"4294967300">> :> 4)

\* svnsrv serves what the selected profile says, and what it does not say has its
\* default; it never serves with a profile that is broken or that gives a key a
\* wrong type.  Nothing is changed but for what does not fit: a port is served
\* modulo 2^16 and a number of threads modulo 2^32, one below zero included.
ServesAsWritten ==
  outcome.end = "serving" /\ Said(world.files[Selected]).is \in {"yes", "bad"} =>
    LET tree == Said(world.files[Selected]).tree IN
    /\ Said(world.files[Selected]).is = "yes"
    /\ Typed(tree)
    /\ outcome.port = IF Has(tree, "Network", "Port")
                      THEN ServedPort[Value(tree, "Network", "Port")[2]] ELSE 3690
    /\ outcome.address = IF Has(tree, "Network", "Address")
                         THEN Value(tree, "Network", "Address")[2] ELSE <<"127.0.0.1">>
    /\ outcome.threads = IF Has(tree, "Service", "PoolSize")
                         THEN ServedThreads[Value(tree, "Service", "PoolSize")[2]] ELSE 64

=============================================================================
