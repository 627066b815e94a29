-------------------------- MODULE MCSubversionHds --------------------------
(* An instance of SubversionHds for TLC. *)
EXTENDS SubversionHds

\* URLs with and without account, port and path; the path has a slash of its own,
\* a colon and a parenthesis.
SomeUrls ==
  {[scheme |-> s, account |-> a, host |-> <<"h">>, port |-> n,
    owner |-> <<"o", "p">>, repository |-> <<"r">>, rest |-> r] :
     s \in {<<"s">>, <<"s", "v", "n", "+", "s", "s", "h">>},
     a \in {<<>>, <<"a">>}, n \in {<<>>, <<"7">>},
     r \in {<<>>, <<"x", "/", ":", ")">>}}

\* Capabilities, an agent whose name has parentheses and digits, a client.
Clients ==
  {[version |-> 2, caps |-> k, url |-> u, ra |-> a, client |-> l] :
     k \in {<<>>, <<<<"e">>, <<"s", "1">>>>}, u \in SomeUrls,
     a \in {<<>>, <<"S", " ", "(", "2", ":", "x">>}, l \in {<<>>, <<"k", ")">>}}

Chars ==
  Marks \cup ToSet(Digits)
    \cup {"TAB", "-", ":", "/", "@", "stale", "s", "v", "n", "+", "h", "o", "p", "r", "a", "e", "x", "S", "k"}

\* The packet of the test kHeaderE1, an empty URL, a byte 0, a URL that is none;
\* then lengths below zero, of the URL and of the ra-client: one that is thrown at,
\* one behind a space, one that leads below address 0; a sign that does no harm,
\* and a handshake with newlines for blanks.
Packets ==
  {<<"(", "(", " ", ")", " ">>,
   <<"(", " ", "2", " ", "(", " ", ")", " ", "0", ":", " ", ")">>,
   <<"a", "(", "2", Zero>>,
   <<"(", "2", "(", ")", "4", ":", "s", ":", "/", "h", ")", ")", ")">>,
   <<"(", " ", "2", " ", "(", " ", ")", " ", "-", "5", ":", "s", ")">>,
   <<"(", "2", "(", ")", "1", ":", "s", " ", "TAB", "-", "1", ":", "k", ")">>,
   <<"(", "2", "(", ")", "-", "9", "9", ":", "s", ")">>,
   <<"(", "2", "(", ")", "+", "1", ":", "s", " ", "-", "0", ":", "k", ")">>,
   <<"(", "LF", "2", "(", "e", "LF", ")", "1", ":", "s", "LF", ")">>}
=============================================================================
