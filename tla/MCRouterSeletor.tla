-------------------------- MODULE MCRouterSeletor --------------------------
(* Instances of RouterSeletor for TLC. *)
EXTENDS RouterSeletor

\* A, B, a and z, and a byte that is not ASCII.
Letters == {65, 66, 97, 122}
High    == 200

\* Ranges of every shape: nothing, a name, two names, an open end.
Ranges ==
  {<<>>, <<65>>, <<66, 97>>, <<65, Tilde, 66>>, <<65, 97, Tilde, 66, 65>>,
   <<66, Tilde, 66, 97>>, <<Tilde, 65, 65>>, <<97, 65, Tilde>>, <<High, Tilde, 122>>,
   <<65, 97, 66, 66>>}

Machines == {"", "192.168.1.12", "m0", "m1", "m2", "m3"}

\* Ordinary entries, and one of each kind that is treated specially.
Entries ==
  {[range |-> {r}, address |-> {"m1"}, port |-> {3691}, enable |-> {}] :
     r \in Ranges}
  \cup
  {[range |-> {r}, address |-> {"m2"}, port |-> {}, enable |-> {e}] :
     r \in {<<65>>, <<65, Tilde, 97>>}, e \in BOOLEAN}
  \cup
  {[range |-> {}, address |-> {"m3"}, port |-> {}, enable |-> {}],
   [range |-> {<<65>>}, address |-> {}, port |-> {}, enable |-> {}],
   [range |-> {<<66>>}, address |-> {"m3"}, port |-> {65537}, enable |-> {TRUE}]}

Contents == {<<>>} \cup UNION {[1..n -> Entries] : n \in 1..2}

Tables ==
  {[parses |-> TRUE, address |-> {"m0"}, port |-> {}, content |-> c] : c \in Contents}
  \cup
  {[parses |-> p, address |-> a, port |-> {70000}, content |-> c] :
     p \in BOOLEAN, a \in {{}, {""}}, c \in {<<>>} \cup {<<e>> : e \in Entries}}

Names ==
  {<<>>, <<65>>, <<65, 97, 66>>} \cup
  {<<a, b>> : a \in Letters \cup {High}, b \in {Dash, 65, 97, 122, High}}
=============================================================================
