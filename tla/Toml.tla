-------------------------------- MODULE Toml --------------------------------
(***************************************************************************)
(* cpptoml as svnsrv uses it to read svnsrv.toml and router.toml: class    *)
(* parser, which fills a tree of tables line by line, and the look-up of a *)
(* dotted key in that tree.                                                *)
(*                                                                         *)
(* A file is a sequence of tokens: punctuation is a token each, as are a   *)
(* blank, the end of a line "\n", a word, a run of digits and a date.      *)
(* The iterator it is a position in the file, and a line ends (it == end)  *)
(* at the next "\n" or at the end of the file.                             *)
(*                                                                         *)
(* The tree is a function from paths to labels.  A path is a sequence of   *)
(* keys, a key a sequence of tokens; <<"@", n>> leads to the nth element   *)
(* of an array.  A label is <<"table">>, <<"tables">> (an array of tables),*)
(* <<"array">> or a scalar with its type and content.  A parsed value is a *)
(* tree of its own, with its label at the empty path.                      *)
(***************************************************************************)
EXTENDS Integers, Sequences, FiniteSets, SequencesExt, TLC

CONSTANTS
  Digits,    \* tokens that are runs of digits
  TooLong,   \* those that are too large for std::stoll
  OutOfRange, \* numbers, as sequences of tokens, that are no double to std::stod
  Wide       \* tokens of more than one character

VARIABLES
  text,      \* the file
  it,        \* position in it
  root,      \* the tree
  curr_table, \* path of the table that keys go into
  inserted,  \* parse_single_table: this header has made a table
  state      \* "line", "table", "array", "done" or "refused"

vars == <<text, it, root, curr_table, inserted, state>>

At(p)    == IF p > Len(text) THEN "\n" ELSE text[p]
AtEnd(p) == At(p) = "\n"

\* The first position from p on that holds one of S or is the end of the line.
FirstOf(p, S) ==
  CHOOSE q \in p .. Len(text) + 1 :
    /\ At(q) \in S \cup {"\n"}
    /\ \A r \in p .. q - 1 : At(r) \notin S \cup {"\n"}

NextLine(p) == FirstOf(p, {}) + 1

consume_whitespace(p) == IF At(p) = " " THEN p + 1 ELSE p

\* What a parsing function returns: where it stopped, and its value.  Position
\* 0 stands for the parse_exception it has thrown.
Parsed(p, value) == [at |-> p, v |-> value]
Refused          == Parsed(0, <<>>)

Leaf(label) == (<<>> :> label)
Under(path, tree) ==
  [q \in {path \o r : r \in DOMAIN tree} |->
     tree[SubSeq(q, Len(path) + 1, Len(q))]]
\* as<T>(): an integer also serves as a double.
as(type, tree) == tree[<<>>][1] = type \/ (type = "float" /\ tree[<<>>][1] = "int")
Element(n) == <<"@", ToString(n)>>

\* A tree, and what was parsed behind it; an array's nth element, and the rest.
Joined(tree, rest) == IF rest.at = 0 THEN Refused ELSE Parsed(rest.at, tree @@ rest.v)
With(n, tree, rest) == Joined(Under(<<Element(n)>>, tree), rest)

-----------------------------------------------------------------------------
(* Strings and keys *)

Escapes == [b |-> "BS", t |-> "TAB", n |-> "LF", f |-> "FF", r |-> "CR"]
           @@ ("\"" :> "\"") @@ ("\\" :> "\\")

Literal[p \in Nat, delim \in STRING, val \in Seq(STRING)] ==
  IF AtEnd(p) THEN Refused
  ELSE IF delim = "\"" /\ At(p) = "\\"
  THEN IF At(p + 1) \in DOMAIN Escapes
       THEN Literal[p + 2, delim, Append(val, Escapes[At(p + 1)])] ELSE Refused
  ELSE IF At(p) = delim THEN Parsed(consume_whitespace(p + 1), val)
  ELSE Literal[p + 1, delim, Append(val, At(p))]

string_literal(p, delim) == Literal[p + 1, delim, <<>>]

\* A string over several lines.  consuming: a backslash ended the line before;
\* later: this is not the line the string began on.
MultiLine[p \in Nat, delim \in STRING, val \in Seq(STRING), consuming, later \in BOOLEAN] ==
  IF p > Len(text) THEN Refused
  ELSE IF AtEnd(p)
  THEN MultiLine[p + 1, delim,
                 IF later /\ ~consuming THEN Append(val, "LF") ELSE val,
                 consuming, TRUE]
  ELSE IF consuming /\ At(p) = " " THEN MultiLine[p + 1, delim, val, TRUE, later]
  ELSE IF delim = "\"" /\ At(p) = "\\"
  THEN IF AtEnd(p + 1) THEN MultiLine[p + 1, delim, val, TRUE, later]
       ELSE IF At(p + 1) \in DOMAIN Escapes
       THEN MultiLine[p + 2, delim, Append(val, Escapes[At(p + 1)]), FALSE, later]
       ELSE Refused
  ELSE IF \A i \in 0..2 : At(p + i) = delim THEN Parsed(p + 3, val)
  ELSE MultiLine[p + 1, delim, Append(val, At(p)), FALSE, later]

parse_string(p) ==
  LET d == At(p)
      r == IF At(p + 1) = d /\ At(p + 2) = d
           THEN MultiLine[p + 3, d, <<>>, FALSE, FALSE]
           ELSE string_literal(p, d)
  IN  IF r.at = 0 THEN Refused ELSE Parsed(r.at, Leaf(<<"string", r.v>>))

parse_bare_key(p, end) ==
  LET last == IF At(end - 1) = " " THEN end - 2 ELSE end - 1
      key  == SubSeq(text, p, last)
  IN  IF p = end \/ (\E i \in DOMAIN key : key[i] \in {"#", " ", "[", "]"})
      THEN Refused ELSE Parsed(end, key)

\* Fault: the key ends at the first blank.
parse_key_ToBlank(p, stops) ==
  LET q == consume_whitespace(p) IN
  IF At(q) = "\"" THEN string_literal(q, "\"")
  ELSE parse_bare_key(q, FirstOf(q, stops \cup {" "}))

parse_key(p, stops) ==
  LET q == consume_whitespace(p) IN
  IF At(q) = "\"" THEN string_literal(q, "\"")
  ELSE parse_bare_key(q, FirstOf(q, stops))

-----------------------------------------------------------------------------
(* Scalars *)

Sign(p) == IF At(p) \in {"-", "+"} THEN p + 1 ELSE p

\* Runs of digits joined by single underscores; 0 if there is none.
eat_numbers[p \in Nat] ==
  IF At(p) \notin Digits THEN 0
  ELSE IF At(p + 1) = "_" THEN eat_numbers[p + 2] ELSE p + 1

parse_int(p, end) ==
  LET v == SelectSeq(SubSeq(text, p, end - 1), LAMBDA c : c # "_")
  IN  IF \E i \in DOMAIN v : v[i] \in TooLong THEN Refused
      ELSE Parsed(end, Leaf(<<"int", v>>))

parse_float(p, end) ==
  LET v == SelectSeq(SubSeq(text, p, end - 1), LAMBDA c : c # "_")
  IN  IF v \in OutOfRange THEN Refused ELSE Parsed(end, Leaf(<<"float", v>>))

parse_number(p) ==
  LET q == eat_numbers[Sign(p)]
      is_exp == At(q) = "e"
      r == eat_numbers[IF is_exp THEN Sign(q + 1) ELSE q + 1]
      s == eat_numbers[Sign(r + 1)]
  IN  IF q = 0 THEN Refused
      ELSE IF At(q) \notin {".", "e"} THEN parse_int(p, q)
      ELSE IF r = 0 THEN Refused
      ELSE IF is_exp \/ At(r) # "e" THEN parse_float(p, r)
      ELSE IF s = 0 THEN Refused ELSE parse_float(p, s)

\* Up to the next blank or comment, and nothing else.
parse_bool(p) ==
  LET end == FirstOf(p, {" ", "#"})
      v   == SubSeq(text, p, end - 1)
  IN  IF v \in {<<"true">>, <<"false">>} THEN Parsed(end, Leaf(<<"bool", v>>))
      ELSE Refused

\* A date is a token the pattern of is_date matches: all its parts are there.
parse_date(p) == Parsed(p + 1, Leaf(<<"date">>))

\* What the first token of a value says about it.  A number is a float if its
\* first run of digits, which an underscore ends, is followed by a point.
determine_value_type(p) ==
  LET c == At(p) IN
  CASE c \in {"\"", "'"}        -> "string"
    [] c = "date"               -> "date"
    [] c \in Digits \cup {"-", "+"} ->
         IF (IF At(Sign(p)) \in Digits THEN At(Sign(p) + 1) ELSE At(Sign(p))) = "."
         THEN "float" ELSE "int"
    [] c \in {"true", "false"}  -> "bool"
    [] c = "["                  -> "array"
    [] c = "{"                  -> "inline"
    [] OTHER                    -> "none"

-----------------------------------------------------------------------------
(* Arrays and inline tables *)

\* Over the ends of lines that hold nothing more but a comment; 0 at the end
\* of the file.
skip_whitespace_and_comments[p \in Nat] ==
  LET q == consume_whitespace(p)
      end == FirstOf(q, {})
  IN  IF ~AtEnd(q) /\ At(q) # "#" THEN q
      ELSE IF end >= Len(text) THEN 0
      ELSE skip_whitespace_and_comments[end + 1]

\* In what follows, value is the parser of a value, parse_value: an array and
\* an inline table hold values.

\* The elements of one type.  The character that follows the last one is taken
\* for the bracket, whatever it is; what is left of its token is refused later.
parse_value_array(value, start, type) ==
  LET elements[p \in Nat, n \in Nat] ==
        LET r == value[p]
            q == skip_whitespace_and_comments[r.at]
            s == skip_whitespace_and_comments[q + 1]
        IN  IF At(p) = "]" THEN Parsed(p + 1, Leaf(<<"array">>))
            ELSE IF r.at = 0 THEN Refused
            ELSE IF ~as(type, r.v) \/ q = 0 THEN Refused
            ELSE IF At(q) \in Wide THEN Refused
            ELSE IF At(q) # "," THEN With(n, r.v, Parsed(q + 1, Leaf(<<"array">>)))
            ELSE IF s = 0 THEN Refused ELSE With(n, r.v, elements[s, n + 1])
  IN  elements[start, 1]

\* Arrays of arrays, and of inline tables: of what delim opens.
parse_object_array(value, start, delim, kind) ==
  LET elements[p \in Nat, n \in Nat] ==
        LET r == value[p]
            q == skip_whitespace_and_comments[r.at]
            s == skip_whitespace_and_comments[q + 1]
        IN  IF At(p) = "]" THEN Parsed(p + 1, Leaf(<<kind>>))
            ELSE IF At(p) # delim THEN Refused
            ELSE IF r.at = 0 THEN Refused
            ELSE IF q = 0 THEN Refused
            ELSE IF At(q) = "]" THEN With(n, r.v, Parsed(q + 1, Leaf(<<kind>>)))
            ELSE IF At(q) # "," \/ s = 0 THEN Refused
            ELSE With(n, r.v, elements[s, n + 1])
  IN  elements[start, 1]

parse_array(value, p) ==
  LET q == skip_whitespace_and_comments[p + 1]
      type == determine_value_type(q)
  IN  IF q = 0 THEN Refused
      ELSE IF At(q) = "]" THEN Parsed(q + 1, Leaf(<<"array">>))
      ELSE CASE type \in {"string", "int", "float", "date"} ->
                  parse_value_array(value, q, type)
             [] type = "array"  -> parse_object_array(value, q, "[", "array")
             [] type = "inline" -> parse_object_array(value, q, "{", "tables")
             [] OTHER           -> Refused

\* Key = value at p, for a table that has the keys in present.
parse_key_value(value, p, present) ==
  LET key == parse_key(p, {"="})
      r   == value[consume_whitespace(key.at + 1)]
  IN  IF key.at = 0 THEN Refused
      ELSE IF key.v \in present \/ At(key.at) # "=" THEN Refused
      ELSE IF r.at = 0 THEN Refused
      ELSE Parsed(consume_whitespace(r.at), Under(<<key.v>>, r.v))

parse_inline_table(value, start) ==
  LET entries[p \in Nat, present \in SUBSET Seq(STRING)] ==
        LET r == parse_key_value(value, consume_whitespace(p + 1), present)
            rest == entries[r.at, present \cup {q[1] : q \in DOMAIN r.v}]
        IN  IF AtEnd(p + 1) \/ r.at = 0 THEN Refused
            ELSE IF At(r.at) = "," THEN Joined(r.v, rest)
            ELSE IF At(r.at) = "}"
            THEN Joined(r.v, Parsed(consume_whitespace(r.at + 1), Leaf(<<"table">>)))
            ELSE Refused
  IN  entries[start, {}]

parse_value[p \in Nat] ==
  LET type == determine_value_type(p) IN
  CASE type = "string"            -> parse_string(p)
    [] type = "date"              -> parse_date(p)
    [] type \in {"int", "float"}  -> parse_number(p)
    [] type = "bool"              -> parse_bool(p)
    [] type = "array"             -> parse_array(parse_value, p)
    [] type = "inline"            -> parse_inline_table(parse_value, p)
    [] type = "none"              -> Refused

-----------------------------------------------------------------------------
(* The tree *)

Children(path) ==
  {q \in DOMAIN root : Len(q) = Len(path) + 1 /\ SubSeq(q, 1, Len(path)) = path}
Keys(path)  == {q[Len(q)] : q \in Children(path)}
Kind(path)  == root[path][1]
IsValue(path) == Kind(path) \notin {"table", "tables", "array"}

\* Fault: one behind the last element.
Back_PastEnd(path) == Append(path, Element(Cardinality(Children(path)) + 1))

\* The last element of an array of tables.
Back(path) == Append(path, Element(Cardinality(Children(path))))

\* The look-up of a qualified key: through tables only.
contains_qualified(key) ==
  /\ key \in DOMAIN root
  /\ \A n \in 1 .. Len(key) - 1 : Kind(SubSeq(key, 1, n)) = "table"

-----------------------------------------------------------------------------
(* Lines *)

eol_or_comment(p) == At(p) \in {"\n", "#"}

\* On to the next line, or to the end of the file.
GoTo(p) ==
  /\ it' = p
  /\ state' = IF p > Len(text) THEN "done" ELSE "line"

Throw == state' = "refused" /\ UNCHANGED <<text, it, root, curr_table, inserted>>

SkipLine ==
  LET p == consume_whitespace(it) IN
  /\ state = "line" /\ At(p) \in {"\n", "#"}
  /\ GoTo(NextLine(p))
  /\ UNCHANGED <<text, root, curr_table, inserted>>

KeyLine ==
  LET p == consume_whitespace(it)
      r == parse_key_value(parse_value, p, Keys(curr_table))
  IN
  /\ state = "line" /\ At(p) \notin {"\n", "#", "["}
  /\ IF r.at = 0 THEN Throw
     ELSE IF ~eol_or_comment(r.at) THEN Throw
     ELSE /\ root' = Under(curr_table, r.v) @@ root
          /\ GoTo(NextLine(r.at))
          /\ UNCHANGED <<text, curr_table, inserted>>

parse_table ==
  LET p == consume_whitespace(it) + 1
      array == At(p) = "["
      q == IF array THEN p + 1 ELSE p
  IN
  /\ state = "line" /\ At(p - 1) = "["
  /\ IF At(q) \in {"\n", "]"} THEN Throw
     ELSE /\ curr_table' = <<>> /\ inserted' = FALSE
          /\ it' = q
          /\ state' = IF array THEN "array" ELSE "table"
          /\ UNCHANGED <<text, root>>

\* Behind a part of a name: over blanks and one point.
AfterPart(p) ==
  LET q == consume_whitespace(p)
  IN  consume_whitespace(IF At(q) = "." THEN q + 1 ELSE q)

InName == ~AtEnd(it) /\ At(it) # "]"

\* One part of the name in [a.b]: an existing table, the last of an array, or
\* a new table.
parse_single_table ==
  LET key  == parse_key(it, {".", "]"})
      path == Append(curr_table, key.v)
  IN
  /\ state = "table" /\ InName
  /\ IF key.at = 0 \/ key.v = <<>> THEN Throw
     ELSE IF path \notin DOMAIN root
     THEN /\ inserted' = TRUE
          /\ root' = Under(path, Leaf(<<"table">>)) @@ root
          /\ curr_table' = path
          /\ it' = AfterPart(key.at)
          /\ UNCHANGED <<text, state>>
     ELSE IF Kind(path) \in {"table", "tables"}
     THEN /\ curr_table' = IF Kind(path) = "table" THEN path ELSE Back(path)
          /\ it' = AfterPart(key.at)
          /\ UNCHANGED <<text, root, inserted, state>>
     ELSE Throw


\* A name that made nothing new defines a table for the second time, unless
\* it holds tables and arrays only: then it may have been made by [a.b].
Redefinition ==
  /\ ~inserted
  /\ Children(curr_table) = {} \/ \E q \in Children(curr_table) : IsValue(q)

\* The end of a header.  If the bracket is missing, ++it goes past the end of
\* the line: what follows there in the buffer, the rest of an earlier line, is
\* a comment sign or is refused.
parse_single_table_end ==
  LET p == consume_whitespace(it + 1) IN
  /\ state = "table" /\ ~InName
  /\ \/ Redefinition /\ Throw
     \/ /\ ~Redefinition /\ ~AtEnd(it) /\ ~eol_or_comment(p)
        /\ Throw
     \/ /\ ~Redefinition /\ ~AtEnd(it) /\ eol_or_comment(p)
        /\ GoTo(NextLine(p))
        /\ UNCHANGED <<text, root, curr_table, inserted>>
     \/ /\ ~Redefinition /\ AtEnd(it)
        /\ \/ Throw
           \/ GoTo(NextLine(it)) /\ UNCHANGED <<text, root, curr_table, inserted>>

\* The array of tables at path, with one more element.
NewElement(path) ==
  (path :> <<"tables">>)
  @@ (Append(path, Element(Cardinality(Children(path)) + 1)) :> <<"table">>)
  @@ root

\* One part of the name in [[a.b]]; the last one adds an element.
parse_table_array ==
  LET key  == parse_key(it, {".", "]"})
      next == AfterPart(key.at)
      path == Append(curr_table, key.v)
      new  == path \notin DOMAIN root
  IN
  /\ state = "array" /\ InName
  /\ IF key.at = 0 \/ key.v = <<>> THEN Throw
     ELSE IF At(next) = "]"
     THEN IF new \/ Kind(path) = "tables"
          THEN /\ root' = NewElement(path)
               /\ curr_table' = Append(path, Element(Cardinality(Children(path)) + 1))
               /\ it' = next
               /\ UNCHANGED <<text, inserted, state>>
          ELSE Throw
     ELSE IF new
     THEN /\ root' = Under(path, Leaf(<<"table">>)) @@ root
          /\ curr_table' = path /\ it' = next
          /\ UNCHANGED <<text, inserted, state>>
     ELSE IF Kind(path) \in {"table", "tables"}
     THEN /\ curr_table' = IF Kind(path) = "table" THEN path ELSE Back(path)
          /\ it' = next
          /\ UNCHANGED <<text, root, inserted, state>>
     ELSE Throw

\* "]]": which character the second of them is, nobody looks at.
parse_table_array_end ==
  LET p == consume_whitespace(it + 2) IN
  /\ state = "array" /\ ~InName
  /\ IF AtEnd(it) \/ AtEnd(it + 1) \/ At(it + 1) \in Wide \/ ~eol_or_comment(p)
     THEN Throw
     ELSE GoTo(NextLine(p)) /\ UNCHANGED <<text, root, curr_table, inserted>>

-----------------------------------------------------------------------------
Init(file) ==
  /\ text = file
  /\ it = 1
  /\ root = Leaf(<<"table">>)
  /\ curr_table = <<>>
  /\ inserted = FALSE
  /\ state = IF file = <<>> THEN "done" ELSE "line"

Next == \/ SkipLine \/ KeyLine
        \/ parse_table
        \/ parse_single_table \/ parse_single_table_end
        \/ parse_table_array \/ parse_table_array_end
=============================================================================
