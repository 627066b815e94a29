------------------------------- MODULE Relay -------------------------------
(***************************************************************************)
(* What a session promises its two peers, whatever buffers, completions    *)
(* and cancellations it is made of: a connection of the client to the      *)
(* storage machine that carries two streams of bytes.                      *)
(*                                                                         *)
(* The peers see this much: the client is greeted, and then either refused *)
(* with one failure, of which the storage machine hears nothing, or given  *)
(* the storage machine's stream from behind a prefix, its greeting; the    *)
(* storage machine is given the client's stream from its first unit.       *)
(* A connection that is open at both ends is never given up.               *)
(*                                                                         *)
(* SubversionSession implements this specification when a write takes all  *)
(* it is given; see RefinesRelay there.                                    *)
(***************************************************************************)
EXTENDS Integers, Sequences

CONSTANTS
  kGreeting,   \* the unit that stands for the greeting
  Eids         \* the numbers of the failures a client may be told

VARIABLES
  phase,        \* "answering", "relaying", "refusing" or "over"
  skipped,      \* length of the prefix the client is not given
  clientEnd,    \* "open", "half" (sends no more) or "gone"
  backendEnd,
  clientSent,   \* units each peer has sent
  backendSent,
  toClient,     \* the streams the peers are given
  toBackend

peers == <<clientEnd, backendEnd, clientSent, backendSent>>
vars  == <<phase, skipped, peers, toClient, toBackend>>

Init ==
  /\ phase = "answering"
  /\ skipped = 0
  /\ clientEnd = "open" /\ backendEnd = "open"
  /\ clientSent = 0 /\ backendSent = 0
  /\ toClient = <<>> /\ toBackend = <<>>

-----------------------------------------------------------------------------
(* The peers *)

Shuts(from, to) == <<from, to>> \in {"open", "half"} \X {"half", "gone"} /\ from # to

ClientActs ==
  /\ phase # "over"
  /\ \/ clientEnd = "open" /\ clientSent' > clientSent /\ UNCHANGED clientEnd
     \/ Shuts(clientEnd, clientEnd') /\ UNCHANGED clientSent
  /\ UNCHANGED <<phase, skipped, backendEnd, backendSent, toClient, toBackend>>

BackendActs ==
  /\ phase # "over"
  /\ \/ backendEnd = "open" /\ backendSent' > backendSent /\ UNCHANGED backendEnd
     \/ Shuts(backendEnd, backendEnd') /\ UNCHANGED backendSent
  /\ UNCHANGED <<phase, skipped, clientEnd, clientSent, toClient, toBackend>>

-----------------------------------------------------------------------------
(* The session *)

Greet ==
  /\ phase = "answering" /\ toClient = <<>>
  /\ toClient' = <<kGreeting>>
  /\ UNCHANGED <<phase, skipped, peers, toBackend>>

\* Some of what the storage machine has sent will not be passed on.
Skip ==
  /\ phase = "answering" /\ skipped = 0 /\ toBackend = <<>>
  /\ skipped' \in 1..backendSent
  /\ UNCHANGED <<phase, peers, toClient, toBackend>>

\* The storage machine is given more of the client's stream.
GiveBackend ==
  /\ phase = "answering" => skipped > 0
  /\ phase \in {"answering", "relaying"}
  /\ backendEnd # "gone"
  /\ \E n \in Len(toBackend) + 1 .. clientSent : toBackend' = [i \in 1..n |-> i]
  /\ UNCHANGED <<phase, skipped, peers, toClient>>

\* The client is given more of the storage machine's stream.
GiveClient ==
  /\ phase = "relaying"
  /\ clientEnd # "gone" /\ toClient # <<>>
  /\ \E n \in 1 .. backendSent - (skipped + Len(toClient) - 1) :
       toClient' = toClient \o [i \in 1..n |-> skipped + Len(toClient) - 1 + i]
  /\ UNCHANGED <<phase, skipped, peers, toBackend>>

Connect ==
  /\ phase = "answering" /\ skipped > 0
  /\ phase' = "relaying"
  /\ UNCHANGED <<skipped, peers, toClient, toBackend>>

\* A client is refused only if the storage machine was told nothing.
Refuse ==
  /\ phase = "answering" /\ toBackend = <<>>
  /\ phase' = "refusing"
  /\ UNCHANGED <<skipped, peers, toClient, toBackend>>

TellFailure ==
  /\ phase = "refusing" /\ Len(toClient) = 1
  /\ \E eid \in Eids : toClient' = Append(toClient, -eid)
  /\ UNCHANGED <<phase, skipped, peers, toBackend>>

\* A session ends once the failure is told, or because one of the peers has
\* stopped sending.
End ==
  /\ phase # "over"
  /\ CASE phase = "refusing"  -> Len(toClient) = 2 \/ clientEnd = "gone"
       [] phase = "answering" -> clientEnd # "open"
       [] phase = "relaying"  -> clientEnd # "open" \/ backendEnd # "open"
  /\ phase' = "over"
  /\ UNCHANGED <<skipped, peers, toClient, toBackend>>

Next == \/ ClientActs \/ BackendActs
        \/ Greet \/ Skip \/ GiveBackend \/ GiveClient \/ Connect
        \/ Refuse \/ TellFailure \/ End

Spec == Init /\ [][Next]_vars
=============================================================================
