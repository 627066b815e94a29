--------------------------- MODULE RouterSeletor ---------------------------
(***************************************************************************)
(* The routing table of RouterSeletor.cc: router.toml is read once when    *)
(* svnsrv starts, and every session then asks it for the storage machine   *)
(* of the owner in its URL.                                                *)
(*                                                                         *)
(* Two leading characters of an owner become a 16 bit number, a range of   *)
(* two-character names an interval of such numbers.  Bytes are numbers, a  *)
(* key that may be missing from router.toml is a set of at most one value. *)
(* The vector hostElement_ is indexed by the place of its elements in the  *)
(* file, so that the order of its indices is the order of the vector.      *)
(***************************************************************************)
EXTENDS Integers, Sequences

CONSTANTS
  Files,       \* the contents router.toml may have
  Owners,      \* the owners that are asked for
  Addresses,   \* the texts an address may be
  SignedChar   \* is char signed on this platform?

Byte  == 1..255
Tilde == 126
Dash  == 45
Zed   == 122

\* The literals of the code.
kWidth   == 65536            \* the numbers of a uint16_t
kRadix   == 512              \* 0x200
kPort    == 3690
kAddress == "192.168.1.12"

\* parses is FALSE of a file that has no name, cannot be opened or is no TOML.
ContentType ==
  [range : SUBSET Seq(Byte), address : SUBSET Addresses, port : SUBSET Int,
   enable : SUBSET BOOLEAN]

FileType ==
  [parses : BOOLEAN, address : SUBSET Addresses, port : SUBSET Int,
   content : Seq(ContentType)]

ASSUME RouterAssumption ==
  /\ Files \subseteq FileType
  /\ Owners \subseteq Seq(Byte)
  /\ {"", kAddress} \subseteq Addresses
  /\ SignedChar \in BOOLEAN

VARIABLES
  file,             \* the content of router.toml
  phase,            \* has InitializeManager been called, and what was its answer
  hostElement_, defaultElement_, defaultPort_,
  owner,            \* the owner of the last GetAddress
  found, elem       \* what GetAddress returned and stored

vars == <<file, phase, hostElement_, defaultElement_, defaultPort_, owner,
          found, elem>>

-----------------------------------------------------------------------------
\* The value of a key, or the default the code gives it.
Given(key, default) == IF key = {} THEN default ELSE CHOOSE v \in key : TRUE

Least(S) == CHOOSE i \in S : \A j \in S : i <= j

Greatest(S) == CHOOSE i \in S : \A j \in S : j <= i

\* Fault: the conversion to 16 bits is forgotten.
uint16_Wide(n) == n

uint16(n) == n % kWidth

\* The loop of RangeToIndex reads five characters of range at most.
Read(range) == IF Len(range) < 5 THEN Len(range) ELSE 5

\* Where it stores character i: p starts at in[0], and behind a tilde at in[2].
Place(range, i) ==
  LET tildes == {t \in 1..(i - 1) : range[t] = Tilde}
  IN IF tildes = {} THEN i - 1 ELSE i - Greatest(tildes) + 1

\* The characters it stores in in[k]; the last one stays.
Stored(range, k) ==
  {i \in 1..Read(range) : range[i] # Tilde /\ Place(range, i) = k}

\* in[k] when the loop has ended; in starts as "--zz".
Looped(range, k) ==
  IF Stored(range, k) # {} THEN range[Greatest(Stored(range, k))]
  ELSE IF k < 2 THEN Dash ELSE Zed

\* Fault: a range without a tilde keeps the upper end of the loop.
Ends_NoSingle(range) == [k \in 0..3 |-> Looped(range, k)]

\* A name without a tilde is its own upper end.
Ends(range) ==
  LET single == /\ Read(range) \in 1..2
                /\ \A i \in 1..Read(range) : range[i] # Tilde
  IN [k \in 0..3 |-> IF single /\ k \in 2..(Read(range) + 1) THEN range[k - 1]
                     ELSE Looped(range, k)]

RangeToIndex(range) ==
  LET in == Ends(range)
  IN [begin |-> uint16(in[0] * kRadix + in[1]), end |-> uint16(in[2] * kRadix + in[3])]

\* A character of a std::string as an int.
AsInt(c) == IF SignedChar /\ c > 127 THEN c - 256 ELSE c

OwnerIndex(o) == uint16(uint16(AsInt(o[1])) * kRadix + AsInt(o[2]))

\* The entries of the file that are not skipped.
Usable(f) ==
  {i \in DOMAIN f.content : f.content[i].range # {} /\ f.content[i].address # {}}

HostElement(t) ==
  LET r == RangeToIndex(Given(t.range, <<>>))
  IN [begin |-> r.begin, end |-> r.end,
      address |-> Given(t.address, ""),
      port |-> uint16(Given(t.port, kPort)),
      enabled |-> Given(t.enable, TRUE)]

-----------------------------------------------------------------------------
Init ==
  /\ file \in Files
  /\ phase = "start"
  /\ hostElement_ = <<>> /\ defaultElement_ = "" /\ defaultPort_ = 0
  /\ owner = <<>> /\ found = FALSE /\ elem = [address |-> "", port |-> 0]

InitializeManager ==
  /\ phase = "start"
  /\ \/ /\ ~file.parses
        /\ phase' = "refused"
        /\ UNCHANGED <<hostElement_, defaultElement_, defaultPort_>>
     \/ /\ file.parses
        /\ defaultElement_' = Given(file.address, kAddress)
        /\ defaultPort_' = uint16(Given(file.port, kPort))
        /\ hostElement_' = [i \in Usable(file) |-> HostElement(file.content[i])]
        /\ phase' = IF file.content = <<>>
                       \/ (defaultElement_' = "" /\ Usable(file) = {})
                    THEN "refused" ELSE "ready"
  /\ UNCHANGED <<file, owner, found, elem>>

\* The elements that would do for the number of an owner.
Matches(index) ==
  {i \in DOMAIN hostElement_ :
     /\ index >= hostElement_[i].begin /\ index <= hostElement_[i].end
     /\ hostElement_[i].enabled}

\* Fault: an element that is not enabled sends the owner to the default.
Chosen_DisabledEnds(index) ==
  LET hits == {i \in DOMAIN hostElement_ :
                 index >= hostElement_[i].begin /\ index <= hostElement_[i].end}
  IN IF hits = {} \/ ~hostElement_[Least(hits)].enabled
     THEN [address |-> defaultElement_, port |-> defaultPort_]
     ELSE [address |-> hostElement_[Least(hits)].address,
           port |-> hostElement_[Least(hits)].port]

\* The first of them, or the default machine.
Chosen(index) ==
  IF Matches(index) = {}
  THEN [address |-> defaultElement_, port |-> defaultPort_]
  ELSE [address |-> hostElement_[Least(Matches(index))].address,
        port |-> hostElement_[Least(Matches(index))].port]

\* A session asks for the machine of owner o.
GetAddress(o) ==
  /\ phase = "ready"
  /\ owner' = o
  /\ IF Len(o) < 2
     THEN found' = FALSE /\ elem' = [address |-> "", port |-> 0]
     ELSE found' = TRUE /\ elem' = Chosen(OwnerIndex(o))
  /\ UNCHANGED <<file, phase, hostElement_, defaultElement_, defaultPort_>>

Next == InitializeManager \/ \E o \in Owners : GetAddress(o)

Spec == Init /\ [][Next]_vars

-----------------------------------------------------------------------------
(* Properties *)

UInt16 == {n \in Nat : n < kWidth}

StorageElement == [address : Addresses, port : UInt16]

\* Every variable has the type of its C++ variable; ports and the ends of ranges
\* are uint16_t.
TypeOK ==
  /\ file \in Files
  /\ phase \in {"start", "ready", "refused"}
  /\ \A i \in DOMAIN hostElement_ :
       hostElement_[i] \in [begin : UInt16, end : UInt16, address : Addresses,
                            port : UInt16, enabled : BOOLEAN]
  /\ defaultElement_ \in Addresses /\ defaultPort_ \in UInt16
  /\ owner \in Owners \cup {<<>>}
  /\ found \in BOOLEAN /\ elem \in StorageElement

Ascii(s) == \A i \in DOMAIN s : s[i] < 128

\* A range as the ReadMe writes it: a name, or two names around a tilde, each of
\* at most two characters.
WellFormed(range) ==
  /\ Ascii(range)
  /\ \/ Len(range) <= 2 /\ \A i \in DOMAIN range : range[i] # Tilde
     \/ \E t \in DOMAIN range :
          /\ t <= 3 /\ Len(range) <= t + 2
          /\ \A i \in DOMAIN range : range[i] = Tilde <=> i = t

\* The two ends of such a range, as texts.
Lower(range) ==
  IF \E t \in DOMAIN range : range[t] = Tilde
  THEN SubSeq(range, 1, (CHOOSE t \in DOMAIN range : range[t] = Tilde) - 1)
  ELSE range

Upper(range) ==
  IF \E t \in DOMAIN range : range[t] = Tilde
  THEN SubSeq(range, (CHOOSE t \in DOMAIN range : range[t] = Tilde) + 1, Len(range))
  ELSE range

\* A missing character of a name s is replaced by c.
Padded(s, c) == [k \in 1..2 |-> IF k <= Len(s) THEN s[k] ELSE c]

\* The order of names, on their first two characters.
Precedes(a, b) == a[1] < b[1] \/ (a[1] = b[1] /\ a[2] <= b[2])

InRange(range, o) ==
  Precedes(Padded(Lower(range), Dash), o) /\ Precedes(o, Padded(Upper(range), Zed))

\* The entries of the file that claim owner o.
Claims(o) ==
  {i \in Usable(file) :
     /\ InRange(Given(file.content[i].range, <<>>), o)
     /\ Given(file.content[i].enable, TRUE)}

\* An owner is sent to the first entry of router.toml that is enabled and whose
\* range, read as names in alphabetical order, holds its first two characters;
\* to the default machine if there is none.  The 16 bit numbers never show, as
\* long as names and ranges are ASCII.
RoutedByName ==
  LET entry == file.content[Least(Claims(owner))] IN
  (/\ found /\ Ascii(owner)
   /\ \A i \in Usable(file) : WellFormed(Given(file.content[i].range, <<>>)))
  => elem = IF Claims(owner) = {}
            THEN [address |-> Given(file.address, kAddress),
                  port |-> Given(file.port, kPort) % kWidth]
            ELSE [address |-> Given(entry.address, ""),
                  port |-> Given(entry.port, kPort) % kWidth]

\* What the ReadMe says of an empty Host.Content: the default machine is used.
EmptyContentUsesDefault ==
  (/\ file.parses /\ file.content = <<>>
   /\ Given(file.address, kAddress) # "") => phase # "refused"
=============================================================================
