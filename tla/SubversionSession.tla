------------------------- MODULE SubversionSession -------------------------
(***************************************************************************)
(* One proxied connection of svnsrv: class SubversionSession.              *)
(*                                                                         *)
(* The session greets the client, reads the client's handshake, picks a    *)
(* storage machine, connects to it, swallows the machine's own greeting,   *)
(* replays the handshake and from then on copies bytes in both directions. *)
(* Every step is the completion handler of an asynchronous socket          *)
(* operation; a handler starts the next operation before it returns.       *)
(*                                                                         *)
(* An operation is known by the handler it completes with, and moves       *)
(*                                                                         *)
(*    "none" -> "started" -> "ok" | "error" | "aborted" -> "none"          *)
(*              (initiate)   (kernel, or cancel)           (handler runs)  *)
(*                                                                         *)
(* so a completion that is already queued when cancel() is called keeps    *)
(* its result, as it does in Boost.Asio.  The relay handlers run in one    *)
(* strand and are single steps.  echo_upstream_handshake is not in the     *)
(* strand and starts two operations: it is two steps, and the first of     *)
(* the two operations may complete and be handled in between.              *)
(*                                                                         *)
(* Bytes are numbered units.  The client's stream is 1, 2, 3, ...; so is   *)
(* the stream of the storage machine, whose first GreetLen units are its   *)
(* greeting.  What svnsrv itself says to the client is kGreeting or the    *)
(* negated number of an error.                                             *)
(***************************************************************************)
EXTENDS Integers, Sequences

CONSTANTS
  MaxClient,           \* bound: units the client sends
  MaxBackend,          \* bound: units the storage machine sends
  kDefaultBufferSize,  \* units a read may return
  HdsNeed,             \* units of the handshake ParseSubversionHds needs
  GreetLen,            \* units of the storage machine's greeting
  Requests,            \* the kinds of handshake a client may send
  Segmented,           \* may a handshake or a greeting arrive in pieces?
  ShortWrites          \* may async_write_some take less than it is given?

\* What can become of a handshake in read_downstream_handshake.
RequestKinds == {"good", "malformed", "bad_url", "no_route", "bad_address"}

ASSUME SessionAssumption ==
  /\ MaxClient \in Nat
  /\ MaxBackend \in Nat
  /\ HdsNeed \in Nat \ {0}
  /\ GreetLen \in Nat \ {0}
  /\ kDefaultBufferSize \in Nat
  /\ HdsNeed <= kDefaultBufferSize
  /\ GreetLen <= kDefaultBufferSize
  /\ Requests \subseteq RequestKinds
  /\ Segmented \in BOOLEAN
  /\ ShortWrites \in BOOLEAN

VARIABLES
  op,             \* the state of the operation of each handler
  arming,         \* echo_upstream_handshake is between its two async reads
  buffer_,        \* what the last operation put in buffer_
  clt_buffer_,    \* what the last operation put in clt_buffer_
  handshakeSize,  \* bytes of the handshake held in clt_buffer_
  shut,           \* socket_.shutdown was called
  dropped,        \* units of the storage machine read and not relayed
  request,        \* the kind of handshake this client sends
  connected,      \* backend_ is connected to the storage machine
  clientEnd,      \* what the client has done with its end
  backendEnd,     \* what the storage machine has done with its end
  clientSent,     \* units the client has sent
  clientRead,     \* ... and those svnsrv has read
  backendSent,    \* units the storage machine has sent
  backendRead,    \* ... and those svnsrv has read
  toClient,       \* the stream the client is given
  toBackend       \* the stream the storage machine is given

session == <<op, arming, buffer_, clt_buffer_, handshakeSize, shut, dropped>>
network == <<request, connected, clientEnd, backendEnd, clientSent, clientRead,
             backendSent, backendRead, toClient, toBackend>>
vars    == <<session, network>>

-----------------------------------------------------------------------------
(* Operations *)

Handshakes == {"echo_downstream_handshake", "read_downstream_handshake",
               "async_connect_upstream", "read_upstream_handshake",
               "echo_upstream_handshake", "sendError"}
Upwards    == {"downstream_read", "upstream_write"}
Downwards  == {"upstream_read", "downstream_write"}
Handlers   == Handshakes \cup Upwards \cup Downwards

ClientReads   == {"read_downstream_handshake", "downstream_read"}
BackendReads  == {"read_upstream_handshake", "upstream_read"}
ClientWrites  == {"echo_downstream_handshake", "sendError", "downstream_write"}
BackendWrites == {"echo_upstream_handshake", "upstream_write"}

OnSocket  == ClientReads \cup ClientWrites
OnBackend == BackendReads \cup BackendWrites \cup {"async_connect_upstream"}

Failures == {"error", "aborted"}
Results  == {"ok"} \cup Failures
Statuses == {"none", "started"} \cup Results
Ends     == {"open", "half", "gone"}

\* An operation is outstanding until its handler has run.
Busy(h) == op[h] # "none"

\* The session lives in its handlers: each holds a shared_ptr to it.  With
\* none left it is destroyed and both sockets are closed.
Released == ~arming /\ \A h \in Handlers : ~Busy(h)

kGreeting == 0

\* The number in the failure svnsrv answers a handshake with, 0 for none.  A
\* handshake at which the parser throws ends the process and has no kind here.
Eid(n) ==
  IF n < HdsNeed THEN 210004
  ELSE [good |-> 0, malformed |-> 210004, bad_url |-> 210004,
        no_route |-> 200042, bad_address |-> 200042][request]

Min2(a, b) == IF a < b THEN a ELSE b

\* The units from + 1 .. from + n of a stream.
Units(from, n) == [i \in 1..n |-> from + i]

-----------------------------------------------------------------------------
(* Steps of a handler *)

\* Handler h takes its completion, cancels the operations outstanding on the
\* sockets in cancelled, and starts the operations in next.
Ran(h, next, cancelled) ==
  op' = [g \in Handlers |->
           IF g \in next THEN "started"
           ELSE IF g = h THEN "none"
           ELSE IF g \in cancelled /\ op[g] = "started" THEN "aborted"
           ELSE op[g]]

Succeeded(h) == op[h] = "ok"
Failed(h)    == op[h] \in Failures

\* A handler that only starts the next operation, or on an error cancels.
Continues(h, next, cancelled) ==
  /\ \/ Succeeded(h) /\ Ran(h, next, {})
     \/ Failed(h)    /\ Ran(h, {}, cancelled)
  /\ UNCHANGED <<arming, buffer_, clt_buffer_, handshakeSize, shut, dropped,
                 network>>

\* Handler h fails the session: the failure is put in buffer_ and written.
sendError(h, eid, cancelled) ==
  /\ Ran(h, {"sendError"}, cancelled)
  /\ buffer_' = <<-eid>>
  /\ UNCHANGED <<arming, clt_buffer_, shut, dropped, network>>

-----------------------------------------------------------------------------
(* Handlers of the handshake *)

echo_downstream_handshake ==
  Continues("echo_downstream_handshake", {"read_downstream_handshake"}, OnSocket)

read_downstream_handshake ==
  LET h == "read_downstream_handshake"
      n == Len(clt_buffer_) IN
  \/ /\ Succeeded(h) /\ Eid(n) # 0
     /\ handshakeSize' = n
     /\ sendError(h, Eid(n), {})
  \/ /\ Succeeded(h) /\ Eid(n) = 0
     /\ handshakeSize' = n
     /\ Ran(h, {"async_connect_upstream"}, {})
     /\ UNCHANGED <<arming, buffer_, clt_buffer_, shut, dropped, network>>
  \/ /\ Failed(h)
     /\ Ran(h, {}, OnSocket)
     /\ UNCHANGED <<arming, buffer_, clt_buffer_, handshakeSize, shut, dropped,
                    network>>

\* Fault: a failed connect is logged and not reported to the client.
async_connect_upstream_Silent ==
  Continues("async_connect_upstream", {"read_upstream_handshake"}, {})

async_connect_upstream ==
  LET h == "async_connect_upstream" IN
  /\ \/ /\ Succeeded(h)
        /\ Ran(h, {"read_upstream_handshake"}, {})
        /\ UNCHANGED <<arming, buffer_, clt_buffer_, shut, dropped, network>>
     \/ Failed(h) /\ sendError(h, 200042, {})
  /\ UNCHANGED handshakeSize

\* What was read, the storage machine's greeting, is left in buffer_ and never
\* sent on: the client has been greeted by svnsrv.
read_upstream_handshake ==
  LET h == "read_upstream_handshake" IN
  /\ \/ /\ Succeeded(h)
        /\ Ran(h, {"echo_upstream_handshake"}, {})
        /\ dropped' = dropped + Len(buffer_)
        /\ UNCHANGED <<arming, buffer_, clt_buffer_, shut, network>>
     \/ Failed(h) /\ sendError(h, 200042, {})
  /\ UNCHANGED handshakeSize

\* The read from the storage machine is started, the one from the client is
\* the next statement: see arm_downstream_read.
echo_upstream_handshake ==
  LET h == "echo_upstream_handshake" IN
  /\ \/ /\ Succeeded(h)
        /\ Ran(h, {"upstream_read"}, {})
        /\ arming' = TRUE
        /\ UNCHANGED <<buffer_, clt_buffer_, shut, dropped, network>>
     \/ Failed(h) /\ sendError(h, 200042, OnBackend)
  /\ UNCHANGED handshakeSize

arm_downstream_read ==
  /\ arming
  /\ arming' = FALSE
  /\ op' = [op EXCEPT !["downstream_read"] = "started"]
  /\ UNCHANGED <<buffer_, clt_buffer_, handshakeSize, shut, dropped, network>>

\* The callback of sendError's write.
sendError_written ==
  LET h == "sendError" IN
  /\ \/ Succeeded(h) /\ shut' = TRUE
     \/ Failed(h)    /\ UNCHANGED shut
  /\ Ran(h, {}, {})
  /\ UNCHANGED <<arming, buffer_, clt_buffer_, handshakeSize, dropped, network>>

-----------------------------------------------------------------------------
(* Handlers of the relay *)

\* Fault: the next read is started together with the write.
upstream_read_Eager ==
  Continues("upstream_read", {"downstream_write", "upstream_read"}, OnSocket)

\* Fault: a failed read is tried again.
upstream_read_Retries ==
  LET h == "upstream_read" IN
  \/ Continues(h, {"downstream_write"}, OnSocket)
  \/ /\ Failed(h) /\ Ran(h, {h}, {})
     /\ UNCHANGED <<arming, buffer_, clt_buffer_, handshakeSize, shut, dropped,
                    network>>

upstream_read == Continues("upstream_read", {"downstream_write"}, OnSocket)

downstream_write == Continues("downstream_write", {"upstream_read"}, {})

\* Fault: both sockets are cancelled.
downstream_read_CancelsBoth ==
  Continues("downstream_read", {"upstream_write"}, OnBackend \cup OnSocket)

\* Fault: the error is not looked at.
downstream_read_IgnoresError ==
  LET h == "downstream_read" IN
  /\ Succeeded(h) \/ Failed(h)
  /\ Ran(h, {"upstream_write"}, {})
  /\ UNCHANGED <<arming, buffer_, clt_buffer_, handshakeSize, shut, dropped,
                 network>>

\* Fault: a read that does not fill the buffer is taken for the last one.
downstream_read_EndsOnShortRead ==
  LET h == "downstream_read" IN
  IF Succeeded(h) /\ Len(clt_buffer_) < kDefaultBufferSize
  THEN /\ Ran(h, {}, OnBackend)
       /\ UNCHANGED <<arming, buffer_, clt_buffer_, handshakeSize, shut, dropped,
                      network>>
  ELSE Continues(h, {"upstream_write"}, OnBackend)

downstream_read == Continues("downstream_read", {"upstream_write"}, OnBackend)

\* Fault: the read from the client is not started again.
upstream_write_ReadsOnce == Continues("upstream_write", {}, {})

upstream_write == Continues("upstream_write", {"downstream_read"}, {})

-----------------------------------------------------------------------------
(* The kernel completes operations *)

Completes(h, result) == /\ op[h] = "started"
                        /\ op' = [op EXCEPT ![h] = result]

\* recv() returns what has arrived, up to the size of the buffer; the end of
\* the stream, or a reset, is an error.
ClientReadCompletes(h) ==
  LET n == Min2(clientSent - clientRead, kDefaultBufferSize) IN
  /\ \/ /\ n > 0
        /\ Completes(h, "ok")
        /\ clt_buffer_' = Units(clientRead, n)
        /\ clientRead' = clientRead + n
     \/ /\ (n = 0 /\ clientEnd = "half") \/ clientEnd = "gone"
        /\ Completes(h, "error")
        /\ UNCHANGED <<clt_buffer_, clientRead>>
  /\ UNCHANGED <<arming, buffer_, handshakeSize, shut, dropped, request,
                 connected, clientEnd, backendEnd, clientSent, backendSent,
                 backendRead, toClient, toBackend>>

BackendReadCompletes(h) ==
  LET n == Min2(backendSent - backendRead, kDefaultBufferSize) IN
  /\ \/ /\ n > 0
        /\ Completes(h, "ok")
        /\ buffer_' = Units(backendRead, n)
        /\ backendRead' = backendRead + n
     \/ /\ (n = 0 /\ backendEnd = "half") \/ backendEnd = "gone"
        /\ Completes(h, "error")
        /\ UNCHANGED <<buffer_, backendRead>>
  /\ UNCHANGED <<arming, clt_buffer_, handshakeSize, shut, dropped, request,
                 connected, clientEnd, backendEnd, clientSent, clientRead,
                 backendSent, toClient, toBackend>>

ConnectCompletes ==
  /\ \/ Completes("async_connect_upstream", "ok") /\ connected' = TRUE
     \/ Completes("async_connect_upstream", "error") /\ UNCHANGED connected
  /\ UNCHANGED <<arming, buffer_, clt_buffer_, handshakeSize, shut, dropped,
                 request, clientEnd, backendEnd, clientSent, clientRead,
                 backendSent, backendRead, toClient, toBackend>>

ClientPayload(h) ==
  IF h = "echo_downstream_handshake" THEN <<kGreeting>> ELSE buffer_

\* Fault: the handshake is replayed without its size's last byte.
BackendPayload_Short(h) ==
  IF h = "echo_upstream_handshake"
  THEN SubSeq(clt_buffer_, 1, handshakeSize - 1) ELSE clt_buffer_

BackendPayload(h) ==
  IF h = "echo_upstream_handshake"
  THEN SubSeq(clt_buffer_, 1, handshakeSize) ELSE clt_buffer_

\* async_write takes all of its buffer, async_write_some what the kernel will.
\* (The greeting and a failure also go by async_write_some; each is one unit.)
Taken(h, n) ==
  IF h = "echo_upstream_handshake" /\ ShortWrites THEN 1..n ELSE {n}

\* A write to a peer that is gone fails, or is taken and lost.
ClientWriteCompletes(h) ==
  /\ \/ /\ Completes(h, "ok")
        /\ toClient' = IF clientEnd = "gone" THEN toClient
                       ELSE toClient \o ClientPayload(h)
     \/ /\ clientEnd = "gone"
        /\ Completes(h, "error")
        /\ UNCHANGED toClient
  /\ UNCHANGED <<arming, buffer_, clt_buffer_, handshakeSize, shut, dropped,
                 request, connected, clientEnd, backendEnd, clientSent,
                 clientRead, backendSent, backendRead, toBackend>>

BackendWriteCompletes(h) ==
  LET data == BackendPayload(h) IN
  /\ \/ /\ Completes(h, "ok")
        /\ \E k \in Taken(h, Len(data)) :
             toBackend' = IF backendEnd = "gone" THEN toBackend
                          ELSE toBackend \o SubSeq(data, 1, k)
     \/ /\ backendEnd = "gone"
        /\ Completes(h, "error")
        /\ UNCHANGED toBackend
  /\ UNCHANGED <<arming, buffer_, clt_buffer_, handshakeSize, shut, dropped,
                 request, connected, clientEnd, backendEnd, clientSent,
                 clientRead, backendSent, backendRead, toClient>>

-----------------------------------------------------------------------------
(* The client and the storage machine *)

ClientSends ==
  /\ ~Released /\ clientEnd = "open"
  /\ \E n \in clientSent + 1 .. MaxClient :
       /\ clientSent = 0 /\ ~Segmented => n >= HdsNeed
       /\ clientSent' = n
  /\ UNCHANGED <<session, request, connected, clientEnd, backendEnd, clientRead,
                 backendSent, backendRead, toClient, toBackend>>

\* "half": it sends no more but still reads; "gone": it is closed.
ClientCloses ==
  /\ ~Released
  /\ \/ clientEnd = "open"  /\ clientEnd' = "half"
     \/ clientEnd # "gone"  /\ clientEnd' = "gone"
  /\ UNCHANGED <<session, request, connected, backendEnd, clientSent, clientRead,
                 backendSent, backendRead, toClient, toBackend>>

\* It greets at once, and says no more until it has the client's handshake.
BackendSends ==
  /\ ~Released /\ connected /\ backendEnd = "open"
  /\ \E n \in backendSent + 1 .. MaxBackend :
       /\ backendSent = 0 /\ ~Segmented => n >= GreetLen
       /\ n <= GreetLen \/ Len(toBackend) >= HdsNeed
       /\ backendSent' = n
  /\ UNCHANGED <<session, request, connected, clientEnd, backendEnd, clientSent,
                 clientRead, backendRead, toClient, toBackend>>

BackendCloses ==
  /\ ~Released /\ connected
  /\ \/ backendEnd = "open" /\ backendEnd' = "half"
     \/ backendEnd # "gone" /\ backendEnd' = "gone"
  /\ UNCHANGED <<session, request, connected, clientEnd, clientSent, clientRead,
                 backendSent, backendRead, toClient, toBackend>>

-----------------------------------------------------------------------------
(* The session as SubversionServer hands it over: start() has been called *)

Init ==
  /\ op = [h \in Handlers |->
             IF h = "echo_downstream_handshake" THEN "started" ELSE "none"]
  /\ arming = FALSE
  /\ buffer_ = <<>> /\ clt_buffer_ = <<>>
  /\ handshakeSize = 0
  /\ shut = FALSE
  /\ dropped = 0
  /\ request \in Requests
  /\ connected = FALSE
  /\ clientEnd = "open" /\ backendEnd = "open"
  /\ clientSent = 0 /\ clientRead = 0
  /\ backendSent = 0 /\ backendRead = 0
  /\ toClient = <<>> /\ toBackend = <<>>

Handle ==
  \/ echo_downstream_handshake
  \/ read_downstream_handshake
  \/ async_connect_upstream
  \/ read_upstream_handshake
  \/ echo_upstream_handshake
  \/ arm_downstream_read
  \/ sendError_written
  \/ upstream_read
  \/ downstream_write
  \/ downstream_read
  \/ upstream_write

Kernel ==
  \/ ConnectCompletes
  \/ \E h \in ClientReads   : ClientReadCompletes(h)
  \/ \E h \in BackendReads  : BackendReadCompletes(h)
  \/ \E h \in ClientWrites  : ClientWriteCompletes(h)
  \/ \E h \in BackendWrites : BackendWriteCompletes(h)

Peers == ClientSends \/ ClientCloses \/ BackendSends \/ BackendCloses

\* The destroyed session does nothing more.
Gone == Released /\ UNCHANGED vars

Next == Handle \/ Kernel \/ Peers \/ Gone

Spec == Init /\ [][Next]_vars

\* The threads of the io_service run every queued handler, and the kernel
\* completes every read, connect and write to a closed peer that it can.
Fairness ==
  /\ WF_vars(echo_downstream_handshake)
  /\ WF_vars(read_downstream_handshake)
  /\ WF_vars(async_connect_upstream)
  /\ WF_vars(read_upstream_handshake)
  /\ WF_vars(echo_upstream_handshake)
  /\ WF_vars(arm_downstream_read)
  /\ WF_vars(sendError_written)
  /\ WF_vars(upstream_read)
  /\ WF_vars(downstream_write)
  /\ WF_vars(downstream_read)
  /\ WF_vars(upstream_write)
  /\ WF_vars(ConnectCompletes)
  /\ \A h \in ClientReads   : WF_vars(ClientReadCompletes(h))
  /\ \A h \in BackendReads  : WF_vars(BackendReadCompletes(h))
  /\ \A h \in ClientWrites :
       WF_vars(clientEnd = "gone" /\ ClientWriteCompletes(h))
  /\ \A h \in BackendWrites :
       WF_vars(backendEnd = "gone" /\ BackendWriteCompletes(h))

FairSpec == Spec /\ Fairness

\* A peer that is there reads what it is given, so that no write waits for ever
\* for room in a socket's send buffer.
PeersRead ==
  /\ \A h \in ClientWrites  : WF_vars(ClientWriteCompletes(h))
  /\ \A h \in BackendWrites : WF_vars(BackendWriteCompletes(h))

\* The client sends its handshake and the storage machine speaks.
PeersSpeak == WF_vars(ClientSends) /\ WF_vars(BackendSends)

-----------------------------------------------------------------------------
(* Properties *)

\* Every variable has the type of the member or of the stream it stands for.
TypeOK ==
  /\ op \in [Handlers -> Statuses]
  /\ arming \in BOOLEAN /\ shut \in BOOLEAN /\ connected \in BOOLEAN
  /\ buffer_ \in Seq(Int) /\ clt_buffer_ \in Seq(Int)
  /\ handshakeSize \in Nat /\ dropped \in Nat
  /\ request \in Requests
  /\ clientEnd \in Ends /\ backendEnd \in Ends
  /\ clientSent \in Nat /\ clientRead \in Nat /\ clientRead <= clientSent
  /\ backendSent \in Nat /\ backendRead \in Nat /\ backendRead <= backendSent
  /\ toClient \in Seq(Int) /\ toBackend \in Seq(Int)

\* The operations that fill buffer_ or write it out, and those that need what
\* is in clt_buffer_: the handshake must survive there until it is replayed.
BufferUsers == {"read_upstream_handshake", "upstream_read",
                "downstream_write", "sendError"}
CltBufferUsers == {"read_downstream_handshake", "async_connect_upstream",
                   "read_upstream_handshake", "echo_upstream_handshake",
                   "downstream_read", "upstream_write"}

AtMostOneBusy(S) == \A g, h \in S : Busy(g) /\ Busy(h) => g = h

\* No two outstanding operations share a buffer, although nothing in the code
\* locks one: buffer_ and clt_buffer_ are handed from each handler to the
\* operation it starts, also while echo_upstream_handshake is half done.
BuffersExclusive == AtMostOneBusy(BufferUsers) /\ AtMostOneBusy(CltBufferUsers)

\* cancel() in one direction of the relay never hits a write of the other one:
\* no write completes with operation_aborted, so no relayed data is cut off.
WritesNeverCancelled ==
  \A h \in ClientWrites \cup BackendWrites : op[h] # "aborted"

\* The storage machine is given the client's own stream from its first byte:
\* the replayed handshake, then what follows it, in order, without a gap.
ToBackendFaithful == \A i \in DOMAIN toBackend : toBackend[i] = i

\* clt_buffer_ holds units read from the client and not yet written.
HoldsUpwards ==
  \/ \E h \in ClientReads : op[h] = "ok"
  \/ \E h \in {"async_connect_upstream", "read_upstream_handshake"} : Busy(h)
  \/ \E h \in BackendWrites : op[h] \in {"started", "aborted", "error"}

\* buffer_ holds units read from the storage machine and not yet written.
HoldsDownwards ==
  \/ op["upstream_read"] = "ok"
  \/ op["downstream_write"] \in {"started", "aborted", "error"}

\* As long as the session has not failed, every unit read from the client is in
\* clt_buffer_ or has been passed on: no handler drops a read that succeeded,
\* whatever error or cancel the other direction runs into.
NothingLostUpwards ==
  backendEnd # "gone" /\ (\E h \in Handlers \ {"sendError"} : Busy(h))
  => clientRead = Len(toBackend) + (IF HoldsUpwards THEN Len(clt_buffer_) ELSE 0)

\* ... and the same towards the client, once it is relayed to.
NothingLostDownwards ==
  clientEnd # "gone" /\ (\E h \in Downwards : Busy(h))
  => backendRead - dropped = Len(toClient) - 1
       + (IF HoldsDownwards THEN Len(buffer_) ELSE 0)

\* Once both peers have closed, no handler keeps the session alive for ever.
TeardownWhenBothGone ==
  (clientEnd = "gone" /\ backendEnd = "gone") ~> Released

\* A peer that has closed sooner or later stops the direction that reads from
\* it for good, whatever completions are queued when cancel() is called, as
\* long as the other one reads.  (The other direction may wait for its own
\* peer: svnsrv has no timeout.)
DeadPeerFreesItsHalf ==
  PeersRead =>
    /\ (clientEnd = "gone")  ~> [](\A h \in Upwards : ~Busy(h))
    /\ (backendEnd = "gone") ~> [](\A h \in Downwards : ~Busy(h))

\* A client that sends a handshake is answered: with a failure, or by a storage
\* machine that has been given the handshake, unless one of the two hangs up.
HandshakeAnswered ==
  PeersRead /\ PeersSpeak =>
    <>(\/ \E i \in DOMAIN toClient : toClient[i] < 0
       \/ toBackend # <<>>
       \/ clientEnd # "open"
       \/ backendEnd # "open")

\* Once relaying, what the client sends reaches the storage machine, and what
\* the storage machine sends reaches the client, as long as both are there.
RelayDelivers ==
  PeersRead =>
    /\ \A n \in 1..MaxClient :
         (clientSent >= n /\ toBackend # <<>>) ~>
           (Len(toBackend) >= n \/ clientEnd = "gone" \/ backendEnd # "open")
    /\ \A n \in 1..MaxBackend :
         (backendSent >= n /\ toBackend # <<>>) ~>
           (Len(toClient) - 1 >= n - dropped
              \/ backendEnd = "gone" \/ clientEnd # "open")

\* How far a session has come, as its peers may see it.
Phase ==
  IF Released THEN "over"
  ELSE IF Busy("sendError") THEN "refusing"
  ELSE IF arming \/ (\E h \in Upwards \cup Downwards : Busy(h)) THEN "relaying"
  ELSE "answering"

Promise == INSTANCE Relay WITH phase <- Phase, skipped <- dropped,
                               Eids <- {200042, 210004}

\* The session is a connection of two reliable streams as Relay describes it: a
\* client is refused only if the storage machine has been told nothing, nothing
\* but a prefix of the machine's stream is swallowed, and no session ends as
\* long as both peers are open, whatever completions and cancels cross.
RefinesRelay == Promise!Spec
=============================================================================
