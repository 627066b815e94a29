--------------------------- MODULE SubversionHds ---------------------------
(***************************************************************************)
(* SubversionHds.cc: what svnsrv learns from the first packet of a client. *)
(* ParseSubversionHds runs over the bytes of the handshake                 *)
(*                                                                         *)
(*   ( version ( cap ... ) n:url [n:ra-client] ( [n:client] ) )            *)
(*                                                                         *)
(* and SubversionUriCanonicalize over the characters of its URL; one step  *)
(* of the model is one iteration of their loops.  A packet is a handshake  *)
(* the protocol allows, whole or cut where TCP cut it, or one of the       *)
(* packets in Malformed, among them such with a sign in front of a length. *)
(* Characters are one-character strings but for those that have a name.    *)
(***************************************************************************)
EXTENDS Integers, SequencesExt

CONSTANTS
  Characters,  \* the characters of packets
  Handshakes,  \* what clients want to say: version, caps, url, ra and client
  Malformed,   \* packets no client sends
  Address      \* how far from address 0 the packet lies

Zero == "NUL"   \* the byte 0

Blanks == {" ", "LF"}

\* What strtol skips and the parser does not.
Spaces == {"TAB", "VT", "FF", "CR"}

\* What the code takes for more than the text it stands in.
Marks == {"(", ")", Zero} \cup Blanks

Texts == Seq(Characters)

\* The parts of a URL, of which only the rest may have slashes.
Urls ==
  LET Part == Seq(Characters \ {"/"}) IN
  [scheme : Seq(Characters \ {"/", ":"}), account : Part, host : Part, port : Part,
   owner : Part, repository : Part, rest : Texts]

\* Bound: no string is as long; a packet is what the buffer of 32768 bytes holds.
TooLarge == 100000

VARIABLES
  sent,     \* what the client wanted to say, or a packet of Malformed
  buffer,   \* the packet
  p, status, depth, tmp, hds,   \* ParseSubversionHds
  ret,      \* its result
  c, level, subversionURL,      \* SubversionUriCanonicalize: position, depth
  cret      \* its result

parser == <<p, status, depth, tmp, hds, ret>>
canon  == <<c, level, subversionURL, cret>>
vars   == <<sent, buffer, parser, canon>>

Running == -1   \* a function that has not returned
Thrown  == -2   \* a function that an exception has left, and the process with it

-----------------------------------------------------------------------------
(* Texts *)

Digits == <<"0", "1", "2", "3", "4", "5", "6", "7", "8", "9">>

Value(d) == (CHOOSE i \in 1..10 : Digits[i] = d) - 1

\* The digits a text begins with.
Leading(s) ==
  SubSeq(s, 1, CHOOSE n \in 0..Len(s) :
                 /\ \A i \in 1..n : Contains(Digits, s[i])
                 /\ n < Len(s) => ~Contains(Digits, s[n + 1]))

\* The numbers that the first digits of a text are.
Numbers(t) ==
  LET n[i \in 0..Len(t)] == IF i = 0 THEN 0 ELSE 10 * n[i - 1] + Value(t[i]) IN n

Unsigned(s) == Numbers(Leading(s))[Len(Leading(s))]

\* The text behind the spaces a text begins with.
Trimmed(s) ==
  SubSeq(s, 1 + (CHOOSE n \in 0..Len(s) :
                   /\ \A i \in 1..n : s[i] \in Spaces
                   /\ n < Len(s) => s[n + 1] \notin Spaces), Len(s))

strtol(s) ==
  CASE Trimmed(s) # <<>> /\ Trimmed(s)[1] = "-" -> -Unsigned(Tail(Trimmed(s)))
    [] Trimmed(s) # <<>> /\ Trimmed(s)[1] = "+" -> Unsigned(Tail(Trimmed(s)))
    [] OTHER -> Unsigned(Trimmed(s))

\* A number below TooLarge in decimal.
Powers == <<1, 10, 100, 1000, 10000>>

Width(n) == CHOOSE w \in 1..5 : n < 10 * Powers[w] /\ (w > 1 => Powers[w] <= n)

Decimal(n) ==
  [i \in 1..Width(n) |-> Digits[((n \div Powers[Width(n) + 1 - i]) % 10) + 1]]

\* An item of type string.
Item(s) == Decimal(Len(s)) \o <<":">> \o s

\* An optional text, with what goes before and behind it if it is there.
Opt(a, s, b) == IF s = <<>> THEN <<>> ELSE a \o s \o b

\* The URL of the parts u.
Authority(u) == Opt(<<>>, u.account, <<"@">>) \o u.host \o Opt(<<":">>, u.port, <<>>)

Url(u) ==
  u.scheme \o <<":", "/", "/">> \o Authority(u) \o <<"/">> \o u.owner
    \o <<"/">> \o u.repository \o Opt(<<"/">>, u.rest, <<>>)

\* The handshake, with everything it may leave out: version and capabilities, the
\* URL, ra-client and client.
Left  == <<"(", " ">>
Right == <<")", " ">>

Opening(h) ==
  Left \o <<Digits[h.version + 1], " ">> \o Left
    \o FlattenSeq([i \in DOMAIN h.caps |-> h.caps[i] \o <<" ">>]) \o Right

Optional(s) == IF s = <<>> THEN <<>> ELSE Item(s) \o <<" ">>

Closing(h) == Optional(h.ra) \o Left \o Optional(h.client) \o Right \o Right

Encoded(h) == Opening(h) \o Item(Url(h.url)) \o <<" ">> \o Closing(h)

ASSUME HdsAssumption ==
  /\ Marks \cup ToSet(Digits) \cup {":", "/", "@", "stale"} \subseteq Characters
  /\ Malformed \subseteq Texts
  /\ Handshakes \subseteq
       [version : 0..9, caps : Seq(Seq(Characters \ Marks) \ {<<>>}), url : Urls,
        ra : Texts, client : Seq(Characters \ {Zero})]
  /\ Address \in Nat
  /\ \A h \in Handshakes : \A s \in {Url(h.url), h.ra, h.client} : Len(s) < TooLarge

-----------------------------------------------------------------------------
NoUrl == [scheme |-> <<>>, account |-> <<>>, host |-> <<>>, port |-> 0,
          owner |-> <<>>, repository |-> <<>>, path |-> <<"/">>]

Init ==
  /\ \/ \E h \in Handshakes :
          /\ sent = [kind |-> "handshake", of |-> h]
          /\ \E n \in 1..Len(Encoded(h)) : buffer = SubSeq(Encoded(h), 1, n)
     \/ \E b \in Malformed : sent = [kind |-> "malformed", of |-> b] /\ buffer = b
  /\ p = 1 /\ status = "kParseReset" /\ depth = 0 /\ tmp = <<>> /\ ret = Running
  /\ hds = [protocol |-> 0, mCapabilities |-> <<>>, subversionURL |-> <<>>,
            userAgent |-> <<>>]
  /\ c = 1 /\ level = 0 /\ subversionURL = NoUrl /\ cret = Running

-----------------------------------------------------------------------------
(* ParseSubversionHds *)

Parsing == ret = Running /\ p <= Len(buffer)

Parse_paren ==
  /\ Parsing /\ buffer[p] \in {"(", ")"}
  /\ depth' = depth + (IF buffer[p] = "(" THEN 1 ELSE -1)
  /\ p' = p + 1
  /\ UNCHANGED <<status, tmp, hds, ret>>

\* Fault: tmp is not cleared behind a capability.
Parse_blank_KeepsTmp ==
  /\ Parsing /\ buffer[p] \in Blanks
  /\ p' = p + 1
  /\ hds' = IF status = "kProtocolParsed" /\ tmp # <<>>
            THEN [hds EXCEPT !.mCapabilities = Append(@, tmp)] ELSE hds
  /\ UNCHANGED <<status, depth, tmp, ret>>

\* A blank or a newline ends a capability.
Parse_blank ==
  /\ Parsing /\ buffer[p] \in Blanks
  /\ p' = p + 1
  /\ IF status = "kProtocolParsed" /\ tmp # <<>>
     THEN /\ hds' = [hds EXCEPT !.mCapabilities = Append(@, tmp)]
          /\ tmp' = <<>>
     ELSE UNCHANGED <<hds, tmp>>
  /\ UNCHANGED <<status, depth, ret>>

Parse_zero ==
  /\ Parsing /\ buffer[p] = Zero
  /\ ret' = 2
  /\ UNCHANGED <<p, status, depth, tmp, hds>>

Parse_protocol ==
  /\ Parsing /\ buffer[p] \notin Marks /\ status = "kParseReset"
  /\ p' = p + 1
  /\ IF depth = 1
     THEN /\ hds' = [hds EXCEPT !.protocol = Value(buffer[p])]
          /\ status' = "kProtocolParsed"
     ELSE UNCHANGED <<hds, status>>
  /\ UNCHANGED <<depth, tmp, ret>>

Parse_capability ==
  /\ Parsing /\ buffer[p] \notin Marks /\ status = "kProtocolParsed" /\ depth = 2
  /\ p' = p + 1
  /\ tmp' = Append(tmp, buffer[p])
  /\ UNCHANGED <<status, depth, hds, ret>>

\* Fault: only the beginning of the string is compared with the end of the packet.
TooLong_Unmeasured(l) == p + 1 > Len(buffer)

\* p + l + 1 >= end: the string and one character behind it are not all there, or
\* a length below zero leads around the end of the addresses.
TooLong(l) == p + l + 1 >= Len(buffer) + 1 \/ Address + p + l + 1 < 0

\* The l bytes behind p; behind the packet clt_buffer_ holds what was there before.
Copied(l) ==
  [i \in 1..l |-> IF p + i <= Len(buffer) THEN buffer[p + i] ELSE "stale"]

\* The next character of a length t; at the colon the string of that length is
\* stored in field f and the character behind it is skipped.  For a length below
\* zero assign throws std::length_error, and nothing catches it.
Parse_string(t, f, at) ==
  /\ \/ /\ buffer[p] # ":"
        /\ tmp' = Append(t, buffer[p]) /\ p' = p + 1 /\ status' = at
        /\ UNCHANGED <<hds, ret>>
     \/ /\ buffer[p] = ":" /\ TooLong(strtol(t))
        /\ ret' = 2
        /\ UNCHANGED <<p, tmp, status, hds>>
     \/ /\ buffer[p] = ":" /\ ~TooLong(strtol(t)) /\ strtol(t) < 0
        /\ ret' = Thrown
        /\ UNCHANGED <<p, tmp, status, hds>>
     \/ /\ buffer[p] = ":" /\ ~TooLong(strtol(t)) /\ strtol(t) >= 0
        /\ hds' = [hds EXCEPT ![f] = Copied(strtol(t))]
        /\ p' = p + strtol(t) + 2 /\ tmp' = <<>>
        /\ status' = IF f = "userAgent" THEN "kSubversionRUAParsed"
                     ELSE "kSubversionUrlParsed"
        /\ UNCHANGED ret
  /\ UNCHANGED depth

\* The first character behind the capabilities begins the length of the URL.
Parse_url ==
  /\ Parsing /\ buffer[p] \notin Marks
  /\ \/ /\ status = "kProtocolParsed" /\ depth # 2
        /\ Parse_string(<<>>, "subversionURL", "kCapabilitiesParsed")
     \/ /\ status = "kCapabilitiesParsed"
        /\ Parse_string(tmp, "subversionURL", "kCapabilitiesParsed")

\* Behind the URL: the ra-client, or the client in its parentheses.
Parse_agent ==
  /\ Parsing /\ buffer[p] \notin Marks /\ status = "kSubversionUrlParsed"
  /\ Parse_string(tmp, "userAgent",
                  IF depth # 1 THEN "kSubversionRUAParsed" ELSE status)

\* Fault: the characters behind the ra-client are not stepped over.
Parse_rest_Stays ==
  /\ Parsing /\ buffer[p] \notin Marks /\ status = "kSubversionRUAParsed"
  /\ UNCHANGED parser

Parse_rest ==
  /\ Parsing /\ buffer[p] \notin Marks /\ status = "kSubversionRUAParsed"
  /\ p' = p + 1
  /\ UNCHANGED <<status, depth, tmp, hds, ret>>

Parse_end ==
  /\ ret = Running /\ p > Len(buffer)
  /\ ret' = IF hds.subversionURL = <<>> THEN 2 ELSE 0
  /\ UNCHANGED <<p, status, depth, tmp, hds>>

ParseSubversionHds ==
  /\ \/ Parse_paren \/ Parse_blank \/ Parse_zero \/ Parse_protocol
     \/ Parse_capability \/ Parse_url \/ Parse_agent \/ Parse_rest \/ Parse_end
  /\ UNCHANGED <<sent, buffer, canon>>

-----------------------------------------------------------------------------
(* SubversionUriCanonicalize *)

Walking == ret = 0 /\ cret = Running /\ c <= Len(hds.subversionURL)

At == hds.subversionURL[c]

\* Fault: every slash separates, also those of the path.
Uri_slash_Unbounded ==
  /\ Walking /\ At = "/"
  /\ level' = level + 1 /\ c' = c + 1
  /\ UNCHANGED <<subversionURL, cret>>

Uri_slash ==
  /\ Walking /\ At = "/" /\ level < 5
  /\ level' = level + 1 /\ c' = c + 1
  /\ UNCHANGED <<subversionURL, cret>>

\* Something between the slashes of "://".
Uri_bad ==
  /\ Walking /\ At # "/" /\ level = 1
  /\ cret' = 2
  /\ UNCHANGED <<c, level, subversionURL>>

\* The host: an '@' makes it the account, a ':' empties it.
Uri_host(u) ==
  CASE At = "@" -> [u EXCEPT !.account = u.host, !.host = u.account]
    [] At = ":" -> [u EXCEPT !.host = <<>>]
    [] OTHER    -> [u EXCEPT !.host = Append(@, At)]

Uri_char ==
  /\ Walking /\ level # 1 /\ (At = "/" => level = 5)
  /\ c' = c + 1
  /\ subversionURL' =
       CASE level = 0 /\ At = ":" -> subversionURL
         [] level = 0 /\ At # ":" -> [subversionURL EXCEPT !.scheme = Append(@, At)]
         [] level = 2 -> Uri_host(subversionURL)
         [] level = 3 -> [subversionURL EXCEPT !.owner = Append(@, At)]
         [] level = 4 -> [subversionURL EXCEPT !.repository = Append(@, At)]
         [] OTHER     -> [subversionURL EXCEPT !.path = Append(@, At)]
  /\ UNCHANGED <<level, cret>>

\* str_port is never anything but empty.
Uri_end ==
  /\ ret = 0 /\ cret = Running /\ c > Len(hds.subversionURL)
  /\ cret' = 0
  /\ subversionURL' =
       [subversionURL EXCEPT !.port =
          IF subversionURL.scheme = <<"s", "v", "n", "+", "s", "s", "h">>
          THEN 21 ELSE 3690]
  /\ UNCHANGED <<c, level>>

SubversionUriCanonicalize ==
  /\ Uri_slash \/ Uri_bad \/ Uri_char \/ Uri_end
  /\ UNCHANGED <<sent, buffer, parser>>

Next == ParseSubversionHds \/ SubversionUriCanonicalize

Spec == Init /\ [][Next]_vars

\* The functions run to their end.
FairSpec == Spec /\ WF_vars(Next)

-----------------------------------------------------------------------------
(* Properties *)

Statuses == {"kParseReset", "kProtocolParsed", "kCapabilitiesParsed",
             "kSubversionUrlParsed", "kSubversionRUAParsed"}

\* Positions, depths and results are in range: no byte behind the packet is read,
\* and no string longer than the packet is stored, whatever length it claims, be
\* it below zero.
TypeOK ==
  /\ p \in 1..(Len(buffer) + 1)
  /\ status \in Statuses /\ depth \in (-Len(buffer))..Len(buffer)
  /\ ret \in {Running, Thrown, 0, 2} /\ cret \in {Running, 0, 2}
  /\ c \in 1..(Len(hds.subversionURL) + 1) /\ level \in 0..5
  /\ Len(tmp) + Len(hds.subversionURL) + Len(hds.userAgent) <= Len(buffer)

Whole == sent.kind = "handshake" /\ buffer = Encoded(sent.of)

\* A whole handshake is understood: ParseSubversionHds finds the version, every
\* capability, the URL and the ra-client, whatever characters they contain and
\* whether or not the optional items are there.
WholeUnderstood ==
  Whole /\ ret # Running =>
    /\ ret = 0
    /\ hds.protocol = sent.of.version /\ hds.mCapabilities = sent.of.caps
    /\ hds.subversionURL = Url(sent.of.url) /\ hds.userAgent = sent.of.ra

\* A handshake that TCP has cut anywhere is refused, or its URL is the one the
\* client sent: a packet is never routed by part of a URL or by another string.
CutNeverMisrouted ==
  sent.kind = "handshake" /\ ret = 0 => hds.subversionURL = Url(sent.of.url)

\* The owner, which selects the storage machine, is the first element of the path
\* of the URL, and repository and path are the rest, whatever account, port or
\* further slashes the URL has.
OwnerExact ==
  LET u == sent.of.url IN
  sent.kind = "handshake" /\ cret # Running =>
    /\ cret = 0
    /\ subversionURL.owner = u.owner /\ subversionURL.repository = u.repository
    /\ subversionURL.path = <<"/">> \o u.rest

\* Both functions return for every handshake, wherever TCP has cut it.  They end
\* for every other packet as well; but one that claims a length below zero ends the
\* process: the test against the end of the packet lets it pass, and what assign
\* throws leaves ParseSubversionHds and the handler.
BothReturn ==
  <>(\/ ret = 2 \/ (ret = 0 /\ cret # Running)
     \/ ret = Thrown /\ sent.kind = "malformed")
=============================================================================
