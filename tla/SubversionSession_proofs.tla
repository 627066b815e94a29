---------------------- MODULE SubversionSession_proofs ----------------------
(***************************************************************************)
(* Proofs about SubversionSession, for every size of the buffers, every    *)
(* number of bytes and every set of handshakes.                            *)
(*                                                                         *)
(* Everything rests on OneAtATime: a session is one chain of operations    *)
(* during the handshake and two chains afterwards, one per direction, and  *)
(* a handler hands its chain to the single operation it starts.            *)
(*                                                                         *)
(* The second half, from Explained onwards, is the refinement of Relay.    *)
(***************************************************************************)
EXTENDS SubversionSession, SequenceTheorems, TLAPS

Up   == Handshakes \cup Upwards
Down == Handshakes \cup Downwards

\* At most one operation of each chain is outstanding ...
Chains == AtMostOneBusy(Up) /\ AtMostOneBusy(Down)

\* ... and none of the upward one while echo_upstream_handshake has yet to
\* start it.
OneAtATime ==
  /\ Chains
  /\ arming => \A h \in Up : ~Busy(h)

\* The operations between the parsing of the handshake and its replay.
Replaying == {"async_connect_upstream", "read_upstream_handshake",
              "echo_upstream_handshake"}

\* Until it is replayed, the handshake is what clt_buffer_ holds.
HandshakeKept ==
  (\E h \in Replaying : Busy(h)) => handshakeSize = Len(clt_buffer_)

\* The session has neither failed nor ended.
Active == arming \/ \E h \in Handlers \ {"sendError"} : Busy(h)

\* The units in clt_buffer_ continue the stream given to the storage machine.
HeldContinues ==
  backendEnd # "gone" =>
    /\ HoldsUpwards =>
         /\ clt_buffer_ = Units(Len(toBackend), Len(clt_buffer_))
         /\ clientRead = Len(toBackend) + Len(clt_buffer_)
    /\ ~HoldsUpwards /\ Active => clientRead = Len(toBackend)

Shape == TypeOK /\ OneAtATime /\ HandshakeKept

Writes == ClientWrites \cup BackendWrites

\* A write fails only when its peer is gone.
WritesUncut ==
  /\ WritesNeverCancelled
  /\ op["upstream_write"] = "error" => backendEnd = "gone"

UpInv == HeldContinues /\ ToBackendFaithful

-----------------------------------------------------------------------------
(* How the steps of the session move its chains *)

\* Running a handler leaves exactly the operations it starts, and those of
\* other handlers, outstanding.
LEMMA RanBusy ==
  ASSUME TypeOK, NEW h \in Handlers, NEW next \in SUBSET Handlers, NEW c,
         Ran(h, next, c)
  PROVE  /\ op' \in [Handlers -> Statuses]
         /\ \A g \in Handlers : Busy(g)' <=> g \in next \/ (g # h /\ Busy(g))
<1>1. op' \in [Handlers -> Statuses]
  BY DEF Ran, TypeOK, Statuses, Results, Failures
<1>2. ASSUME NEW g \in Handlers
      PROVE  Busy(g)' <=> g \in next \/ (g # h /\ Busy(g))
  BY DEF Ran, Busy, TypeOK
<1> QED BY <1>1, <1>2

\* A handler that starts at most one operation, of its own chain or chains,
\* keeps each chain at one operation.
LEMMA KeepsChains ==
  ASSUME TypeOK, OneAtATime,
         NEW h \in Handlers, Busy(h), NEW next \in SUBSET Handlers, NEW c,
         Ran(h, next, c),
         \A f, g \in next : f = g,
         \A g \in next : (g \in Up => h \in Up) /\ (g \in Down => h \in Down)
  PROVE  Chains'
<1>1. \A g \in Handlers : Busy(g)' <=> g \in next \/ (g # h /\ Busy(g))
  BY RanBusy
<1>2. Up \subseteq Handlers /\ Down \subseteq Handlers
  BY DEF Up, Down, Handlers
<1>3. \A g \in Up : h \in Up /\ Busy(g) => g = h
  BY DEF OneAtATime, Chains, AtMostOneBusy
<1>4. \A g \in Down : h \in Down /\ Busy(g) => g = h
  BY DEF OneAtATime, Chains, AtMostOneBusy
<1>5. AtMostOneBusy(Up)'
  <2> SUFFICES ASSUME NEW f \in Up, NEW g \in Up, Busy(f)', Busy(g)'
               PROVE  f = g
    BY DEF AtMostOneBusy, Up
  <2>1. CASE h \in Up      BY <2>1, <1>1, <1>2, <1>3
  <2>2. CASE h \notin Up   BY <2>2, <1>1, <1>2 DEF OneAtATime, Chains, AtMostOneBusy
  <2> QED BY <2>1, <2>2
<1>6. AtMostOneBusy(Down)'
  <2> SUFFICES ASSUME NEW f \in Down, NEW g \in Down, Busy(f)', Busy(g)'
               PROVE  f = g
    BY DEF AtMostOneBusy, Down
  <2>1. CASE h \in Down    BY <2>1, <1>1, <1>2, <1>4
  <2>2. CASE h \notin Down BY <2>2, <1>1, <1>2 DEF OneAtATime, Chains, AtMostOneBusy
  <2> QED BY <2>1, <2>2
<1> QED BY <1>5, <1>6 DEF Chains

\* ... and does not start the upward one while that is being armed.
LEMMA HandsOver ==
  ASSUME TypeOK, OneAtATime,
         NEW h \in Handlers, Busy(h), NEW next \in SUBSET Handlers, NEW c,
         Ran(h, next, c), arming' = arming,
         \A f, g \in next : f = g,
         \A g \in next : (g \in Up => h \in Up) /\ (g \in Down => h \in Down)
  PROVE  OneAtATime'
<1>1. \A g \in Handlers : Busy(g)' <=> g \in next \/ (g # h /\ Busy(g))
  BY RanBusy
<1>2. Up \subseteq Handlers
  BY DEF Up, Handlers
<1>3. ASSUME arming', NEW g \in Up PROVE ~Busy(g)'
  BY <1>1, <1>2, <1>3 DEF OneAtATime
<1>4. Chains'
  BY KeepsChains
<1> QED BY <1>3, <1>4 DEF OneAtATime, Up

\* A completion, or a step of a peer, leaves the same operations outstanding.
LEMMA SameBusy ==
  ASSUME TypeOK, OneAtATime, HandshakeKept,
         \A g \in Handlers : Busy(g)' <=> Busy(g),
         arming' = arming
  PROVE  OneAtATime'
  BY DEF OneAtATime, Chains, AtMostOneBusy, Up, Down, Handlers

LEMMA CompletesBusy ==
  ASSUME TypeOK, NEW h \in Handlers, NEW r \in Results, Completes(h, r)
  PROVE  /\ op' \in [Handlers -> Statuses]
         /\ \A g \in Handlers : Busy(g)' <=> Busy(g)
  BY DEF Completes, Busy, TypeOK, Statuses, Results, Failures

LEMMA UnitsType ==
  ASSUME NEW m \in Nat, NEW n \in Nat
  PROVE  Units(m, n) \in Seq(Int) /\ Len(Units(m, n)) = n
  BY DEF Units

-----------------------------------------------------------------------------
(* The shape of a session *)

LEMMA ShapeInit == Init => Shape
<1> SUFFICES ASSUME Init PROVE Shape
  OBVIOUS
<1>1. TypeOK
  <2>1. op \in [Handlers -> Statuses]
    BY DEF Init, Statuses
  <2>2. <<>> \in Seq(Int) /\ 0 <= 0 /\ "open" \in Ends
    BY DEF Ends
  <2> QED BY <2>1, <2>2, Zenon DEF Init, TypeOK
<1>2. OneAtATime
  BY DEF Init, OneAtATime, Chains, AtMostOneBusy, Busy, Up, Down, Handlers,
         Handshakes, Upwards, Downwards
<1>3. HandshakeKept
  BY DEF Init, HandshakeKept, Replaying, Busy, Handlers, Handshakes
<1> QED BY <1>1, <1>2, <1>3 DEF Shape

\* The handlers that only continue or cancel.
LEMMA ContinuesShape ==
  ASSUME Shape, NEW h \in Handlers, NEW next \in SUBSET Handlers, NEW c,
         Continues(h, next, c),
         \A f, g \in next : f = g,
         \A g \in next : (g \in Up => h \in Up) /\ (g \in Down => h \in Down),
         next \cap Replaying = {}
  PROVE  Shape'
<1>1. PICK n \in SUBSET Handlers, d \in {{}, c} : Ran(h, n, d) /\ n \subseteq next
  BY DEF Continues
<1>2. Busy(h)
  BY DEF Continues, Succeeded, Failed, Failures, Busy
<1>3. UNCHANGED <<arming, buffer_, clt_buffer_, handshakeSize, shut, dropped,
                  network>>
  BY DEF Continues
<1>4. TypeOK'
  BY <1>1, <1>3, RanBusy DEF Shape, TypeOK, network
<1>5. OneAtATime'
  BY <1>1, <1>2, <1>3, HandsOver DEF Shape
<1>6. HandshakeKept'
  BY <1>1, <1>3, RanBusy
     DEF Shape, HandshakeKept, Replaying, Handlers, Handshakes
<1> QED BY <1>4, <1>5, <1>6 DEF Shape

\* The handlers that fail the session.
LEMMA sendErrorShape ==
  ASSUME Shape, NEW h \in Handshakes, Busy(h), NEW eid \in Int, NEW c,
         sendError(h, eid, c), handshakeSize' \in Nat
  PROVE  Shape'
<1>1. /\ Ran(h, {"sendError"}, c)
      /\ buffer_' = <<-eid>>
      /\ UNCHANGED <<arming, clt_buffer_, shut, dropped, network>>
  BY DEF sendError
<1>2. h \in Handlers /\ {"sendError"} \in SUBSET Handlers
  BY DEF Handlers, Handshakes
<1>a. /\ op' \in [Handlers -> Statuses]
      /\ \A g \in Handlers : Busy(g)' <=> g = "sendError" \/ (g # h /\ Busy(g))
  BY <1>1, <1>2, RanBusy DEF Shape
<1>b. buffer_' \in Seq(Int)
  BY <1>1
<1>3. TypeOK'
  BY <1>1, <1>a, <1>b DEF Shape, TypeOK, network
<1>4. OneAtATime'
  BY <1>1, <1>2, HandsOver DEF Shape, Up, Down
<1>5. HandshakeKept'
  <2>1. \A g \in Up : Busy(g) => g = h
    BY DEF Shape, OneAtATime, Chains, AtMostOneBusy, Up
  <2>2. \A g \in Replaying : g \in Up /\ g \in Handlers /\ g # "sendError"
    BY DEF Replaying, Up, Handlers, Handshakes
  <2>3. \A g \in Replaying : ~Busy(g)'
    BY <1>a, <2>1, <2>2
  <2> QED BY <2>3 DEF HandshakeKept, Replaying
<1> QED BY <1>3, <1>4, <1>5 DEF Shape

\* A completion that changes neither clt_buffer_ nor the session's own members.
LEMMA CompletesShape ==
  ASSUME Shape, NEW h \in Handlers, NEW r \in Results, Completes(h, r),
         UNCHANGED <<arming, clt_buffer_, handshakeSize>>
  PROVE  op' \in [Handlers -> Statuses] /\ OneAtATime' /\ HandshakeKept'
<1>1. \A g \in Handlers : Busy(g)' <=> Busy(g)
  BY CompletesBusy DEF Shape
<1>2. OneAtATime'
  BY <1>1, SameBusy DEF Shape
<1>3. HandshakeKept'
  BY <1>1 DEF Shape, HandshakeKept, Replaying, Handlers, Handshakes
<1> QED BY <1>2, <1>3, CompletesBusy DEF Shape

LEMMA EidType == ASSUME NEW n \in Nat, request \in Requests PROVE Eid(n) \in Int
  BY SessionAssumption DEF Eid, RequestKinds

LEMMA HandleShape == Shape /\ Handle => Shape'
<1> SUFFICES ASSUME Shape, Handle PROVE Shape'
  OBVIOUS
<1> USE DEF Handlers, Handshakes, Upwards, Downwards, Up, Down, Replaying
<1>1. CASE echo_downstream_handshake
  BY <1>1, ContinuesShape DEF echo_downstream_handshake
<1>2. CASE read_downstream_handshake
  <2> DEFINE h == "read_downstream_handshake"
             n == Len(clt_buffer_)
  <2>1. n \in Nat
    BY DEF Shape, TypeOK
  <2>2. CASE Succeeded(h) /\ Eid(n) # 0
    <3>1. Eid(n) \in Int
      BY <2>1, EidType DEF Shape, TypeOK
    <3>2. Busy(h) /\ handshakeSize' \in Nat /\ sendError(h, Eid(n), {})
      BY <1>2, <2>1, <2>2
         DEF read_downstream_handshake, Succeeded, Failed, Failures, Busy
    <3> QED BY <3>1, <3>2, sendErrorShape
  <2>3. CASE Succeeded(h) /\ Eid(n) = 0
    <3>1. /\ handshakeSize' = n
          /\ Ran(h, {"async_connect_upstream"}, {})
          /\ UNCHANGED <<arming, buffer_, clt_buffer_, shut, dropped, network>>
      BY <1>2, <2>3 DEF read_downstream_handshake, Succeeded, Failed, Failures
    <3>2. TypeOK'
      BY <2>1, <3>1, RanBusy DEF Shape, TypeOK, network
    <3>3. OneAtATime'
      BY <2>3, <3>1, HandsOver DEF Shape, Succeeded, Busy
    <3>4. HandshakeKept'
      BY <3>1 DEF HandshakeKept
    <3> QED BY <3>2, <3>3, <3>4 DEF Shape
  <2>4. CASE Failed(h)
    <3>1. Continues(h, {}, OnSocket)
      BY <1>2, <2>4
         DEF read_downstream_handshake, Continues, Succeeded, Failed, Failures
    <3> QED BY <3>1, ContinuesShape
  <2> QED BY <1>2, <2>2, <2>3, <2>4 DEF read_downstream_handshake
<1>3. CASE async_connect_upstream
  <2> DEFINE h == "async_connect_upstream"
  <2>1. CASE Succeeded(h)
    <3>1. /\ Ran(h, {"read_upstream_handshake"}, {})
          /\ UNCHANGED <<arming, buffer_, clt_buffer_, handshakeSize, shut,
                         dropped, network>>
      BY <1>3, <2>1 DEF async_connect_upstream, Succeeded, Failed, Failures
    <3>2. Busy(h)
      BY <2>1 DEF Succeeded, Busy
    <3>3. TypeOK'
      BY <3>1, RanBusy DEF Shape, TypeOK, network
    <3>4. OneAtATime'
      BY <3>1, <3>2, HandsOver DEF Shape
    <3>5. HandshakeKept'
      BY <3>1, <3>2 DEF Shape, HandshakeKept
    <3> QED BY <3>3, <3>4, <3>5 DEF Shape
  <2>2. CASE Failed(h)
    <3>1. Busy(h) /\ handshakeSize' \in Nat /\ sendError(h, 200042, {})
      BY <1>3, <2>2 DEF async_connect_upstream, Succeeded, Failed, Failures,
                        Busy, Shape, TypeOK
    <3> QED BY <3>1, sendErrorShape
  <2> QED BY <1>3, <2>1, <2>2 DEF async_connect_upstream
<1>4. CASE read_upstream_handshake
  <2> DEFINE h == "read_upstream_handshake"
  <2>1. CASE Succeeded(h)
    <3>1. /\ Ran(h, {"echo_upstream_handshake"}, {})
          /\ dropped' = dropped + Len(buffer_)
          /\ UNCHANGED <<arming, buffer_, clt_buffer_, handshakeSize, shut,
                         network>>
      BY <1>4, <2>1 DEF read_upstream_handshake, Succeeded, Failed, Failures
    <3>2. Busy(h)
      BY <2>1 DEF Succeeded, Busy
    <3>3. TypeOK'
      <4>1. op' \in [Handlers -> Statuses]
        BY <3>1, RanBusy DEF Shape
      <4>2. dropped' \in Nat
        BY <3>1 DEF Shape, TypeOK
      <4> QED BY <3>1, <4>1, <4>2 DEF Shape, TypeOK, network
    <3>4. OneAtATime'
      BY <3>1, <3>2, HandsOver DEF Shape
    <3>5. HandshakeKept'
      BY <3>1, <3>2 DEF Shape, HandshakeKept
    <3> QED BY <3>3, <3>4, <3>5 DEF Shape
  <2>2. CASE Failed(h)
    <3>1. Busy(h) /\ handshakeSize' \in Nat /\ sendError(h, 200042, {})
      BY <1>4, <2>2 DEF read_upstream_handshake, Succeeded, Failed, Failures,
                        Busy, Shape, TypeOK
    <3> QED BY <3>1, sendErrorShape
  <2> QED BY <1>4, <2>1, <2>2 DEF read_upstream_handshake
<1>5. CASE echo_upstream_handshake
  <2> DEFINE h == "echo_upstream_handshake"
  <2>1. CASE Succeeded(h)
    <3>1. /\ Ran(h, {"upstream_read"}, {})
          /\ arming' = TRUE
          /\ UNCHANGED <<buffer_, clt_buffer_, handshakeSize, shut, dropped,
                         network>>
      BY <1>5, <2>1 DEF echo_upstream_handshake, Succeeded, Failed, Failures
    <3>2. Busy(h)
      BY <2>1 DEF Succeeded, Busy
    <3>3. TypeOK'
      <4>1. op' \in [Handlers -> Statuses]
        BY <3>1, RanBusy DEF Shape
      <4> QED BY <3>1, <4>1 DEF Shape, TypeOK, network
    <3>4. Chains'
      BY <3>1, <3>2, KeepsChains DEF Shape
    <3>5. \A g \in Up : ~Busy(g)'
      BY <3>1, <3>2, RanBusy DEF Shape, OneAtATime, Chains, AtMostOneBusy
    <3>6. HandshakeKept'
      BY <3>5 DEF HandshakeKept
    <3> QED BY <3>3, <3>4, <3>5, <3>6 DEF Shape, OneAtATime
  <2>2. CASE Failed(h)
    <3>1. Busy(h) /\ handshakeSize' \in Nat /\ sendError(h, 200042, OnBackend)
      BY <1>5, <2>2 DEF echo_upstream_handshake, Succeeded, Failed, Failures,
                        Busy, Shape, TypeOK
    <3> QED BY <3>1, sendErrorShape
  <2> QED BY <1>5, <2>1, <2>2 DEF echo_upstream_handshake
<1>6. CASE arm_downstream_read
  <2>1. /\ arming /\ arming' = FALSE
        /\ op' = [op EXCEPT !["downstream_read"] = "started"]
        /\ UNCHANGED <<buffer_, clt_buffer_, handshakeSize, shut, dropped,
                       network>>
    BY <1>6 DEF arm_downstream_read
  <2>2. TypeOK'
    BY <2>1 DEF Shape, TypeOK, Statuses, network
  <2>3. \A g \in Handlers : Busy(g)' <=> g = "downstream_read" \/ Busy(g)
    BY <2>1 DEF Shape, TypeOK, Busy
  <2>4. OneAtATime'
    BY <2>1, <2>3 DEF Shape, OneAtATime, Chains, AtMostOneBusy
  <2>5. HandshakeKept'
    BY <2>1, <2>3 DEF Shape, HandshakeKept
  <2> QED BY <2>2, <2>4, <2>5 DEF Shape
<1>7. CASE sendError_written
  <2> DEFINE h == "sendError"
  <2>1. /\ Busy(h) /\ Ran(h, {}, {})
        /\ shut' \in BOOLEAN
        /\ UNCHANGED <<arming, buffer_, clt_buffer_, handshakeSize, dropped,
                       network>>
    BY <1>7 DEF sendError_written, Succeeded, Failed, Failures, Busy, Shape,
                TypeOK
  <2>2. TypeOK'
    BY <2>1, RanBusy DEF Shape, TypeOK, network
  <2>3. OneAtATime'
    BY <2>1, HandsOver DEF Shape
  <2>4. HandshakeKept'
    BY <2>1, RanBusy DEF Shape, HandshakeKept
  <2> QED BY <2>2, <2>3, <2>4 DEF Shape
<1>8. CASE upstream_read
  BY <1>8, ContinuesShape DEF upstream_read
<1>9. CASE downstream_write
  BY <1>9, ContinuesShape DEF downstream_write
<1>10. CASE downstream_read
  BY <1>10, ContinuesShape DEF downstream_read
<1>11. CASE upstream_write
  BY <1>11, ContinuesShape DEF upstream_write
<1> QED
  BY <1>1, <1>2, <1>3, <1>4, <1>5, <1>6, <1>7, <1>8, <1>9, <1>10, <1>11
     DEF Handle

\* What a write hands to the storage machine is a sequence: the handshake is
\* still there, in full, when it is replayed.
LEMMA BackendPayloadKept ==
  ASSUME Shape, NEW h \in BackendWrites, Busy(h)
  PROVE  BackendPayload(h) = clt_buffer_
<1>1. clt_buffer_ \in Seq(Int)
  BY DEF Shape, TypeOK
<1>2. CASE h = "echo_upstream_handshake"
  <2>1. handshakeSize = Len(clt_buffer_)
    BY <1>2 DEF Shape, HandshakeKept, Replaying
  <2>2. SubSeq(clt_buffer_, 1, Len(clt_buffer_)) = clt_buffer_
    BY <1>1
  <2> QED BY <1>2, <2>1, <2>2 DEF BackendPayload
<1>3. CASE h # "echo_upstream_handshake"
  BY <1>3 DEF BackendPayload
<1> QED BY <1>2, <1>3

LEMMA KernelShape == Shape /\ Kernel => Shape'
<1> SUFFICES ASSUME Shape, Kernel PROVE Shape'
  OBVIOUS
<1> USE DEF Handlers, Handshakes, Upwards, Downwards
<1>0. "ok" \in Results /\ "error" \in Results
  BY DEF Results, Failures
<1>1. CASE ConnectCompletes
  <2> DEFINE h == "async_connect_upstream"
  <2>1. /\ \E r \in Results : Completes(h, r)
        /\ connected' \in BOOLEAN
        /\ UNCHANGED <<arming, buffer_, clt_buffer_, handshakeSize, shut,
                       dropped, request, clientEnd, backendEnd, clientSent,
                       clientRead, backendSent, backendRead, toClient,
                       toBackend>>
    BY <1>0, <1>1 DEF ConnectCompletes, Shape, TypeOK
  <2>2. op' \in [Handlers -> Statuses] /\ OneAtATime' /\ HandshakeKept'
    BY <2>1, CompletesShape
  <2> QED BY <2>1, <2>2 DEF Shape, TypeOK
<1>2. ASSUME NEW h \in ClientReads, ClientReadCompletes(h) PROVE Shape'
  <2> DEFINE n == Min2(clientSent - clientRead, kDefaultBufferSize)
  <2>1. h \in Handlers /\ h \in Up /\ h \notin Replaying
    BY DEF ClientReads, Up, Replaying
  <2>2. PICK r \in Results : Completes(h, r)
    BY <1>0, <1>2 DEF ClientReadCompletes
  <2>3. n \in Nat /\ n <= clientSent - clientRead
    BY SessionAssumption DEF Shape, TypeOK, Min2
  <2>4. /\ clt_buffer_' \in Seq(Int)
        /\ clientRead' \in Nat /\ clientRead' <= clientSent
    <3>1. \/ clt_buffer_' = Units(clientRead, n) /\ clientRead' = clientRead + n
          \/ UNCHANGED <<clt_buffer_, clientRead>>
      BY <1>2 DEF ClientReadCompletes
    <3>2. /\ clt_buffer_ \in Seq(Int) /\ clientRead \in Nat /\ clientSent \in Nat
          /\ clientRead <= clientSent
      BY DEF Shape, TypeOK
    <3>3. Units(clientRead, n) \in Seq(Int)
      BY <2>3, <3>2, UnitsType
    <3> HIDE DEF n
    <3> QED BY <2>3, <3>1, <3>2, <3>3
  <2>5. UNCHANGED <<arming, buffer_, handshakeSize, shut, dropped, request,
                    connected, clientEnd, backendEnd, clientSent, backendSent,
                    backendRead, toClient, toBackend>>
    BY <1>2 DEF ClientReadCompletes
  <2>6. /\ op' \in [Handlers -> Statuses]
        /\ \A g \in Handlers : Busy(g)' <=> Busy(g)
    BY <2>1, <2>2, CompletesBusy DEF Shape
  <2>7. TypeOK'
    BY <2>4, <2>5, <2>6 DEF Shape, TypeOK
  <2>8. OneAtATime'
    BY <2>5, <2>6, SameBusy DEF Shape
  <2>9. HandshakeKept'
    <3>1. Busy(h)
      BY <2>2 DEF Completes, Busy
    <3>2. \A g \in Replaying : g \in Up /\ g \in Handlers
      BY DEF Replaying, Up
    <3>3. \A g \in Replaying : ~Busy(g)
      BY <2>1, <3>1, <3>2 DEF Shape, OneAtATime, Chains, AtMostOneBusy
    <3> QED BY <2>6, <3>2, <3>3 DEF HandshakeKept, Replaying
  <2> QED BY <2>7, <2>8, <2>9 DEF Shape
<1>3. ASSUME NEW h \in BackendReads, BackendReadCompletes(h) PROVE Shape'
  <2> DEFINE n == Min2(backendSent - backendRead, kDefaultBufferSize)
  <2>1. h \in Handlers
    BY DEF BackendReads
  <2>2. PICK r \in Results : Completes(h, r)
    BY <1>0, <1>3 DEF BackendReadCompletes
  <2>3. n \in Nat /\ n <= backendSent - backendRead
    BY SessionAssumption DEF Shape, TypeOK, Min2
  <2>4. /\ buffer_' \in Seq(Int)
        /\ backendRead' \in Nat /\ backendRead' <= backendSent
    <3>1. \/ buffer_' = Units(backendRead, n) /\ backendRead' = backendRead + n
          \/ UNCHANGED <<buffer_, backendRead>>
      BY <1>3 DEF BackendReadCompletes
    <3>2. /\ buffer_ \in Seq(Int) /\ backendRead \in Nat /\ backendSent \in Nat
          /\ backendRead <= backendSent
      BY DEF Shape, TypeOK
    <3>3. Units(backendRead, n) \in Seq(Int)
      BY <2>3, <3>2, UnitsType
    <3> HIDE DEF n
    <3> QED BY <2>3, <3>1, <3>2, <3>3
  <2>5. UNCHANGED <<arming, clt_buffer_, handshakeSize, shut, dropped, request,
                    connected, clientEnd, backendEnd, clientSent, clientRead,
                    backendSent, toClient, toBackend>>
    BY <1>3 DEF BackendReadCompletes
  <2>6. op' \in [Handlers -> Statuses] /\ OneAtATime' /\ HandshakeKept'
    BY <2>1, <2>2, <2>5, CompletesShape
  <2> QED BY <2>4, <2>5, <2>6 DEF Shape, TypeOK
<1>4. ASSUME NEW h \in ClientWrites, ClientWriteCompletes(h) PROVE Shape'
  <2>1. h \in Handlers
    BY DEF ClientWrites
  <2>2. PICK r \in Results : Completes(h, r)
    BY <1>0, <1>4 DEF ClientWriteCompletes
  <2>3. ClientPayload(h) \in Seq(Int)
    BY DEF ClientPayload, kGreeting, Shape, TypeOK
  <2>4. toClient' \in Seq(Int)
    <3>1. toClient' = toClient \/ toClient' = toClient \o ClientPayload(h)
      BY <1>4 DEF ClientWriteCompletes
    <3>2. toClient \in Seq(Int)
      BY DEF Shape, TypeOK
    <3> QED BY <2>3, <3>1, <3>2, ConcatProperties
  <2>5. UNCHANGED <<arming, buffer_, clt_buffer_, handshakeSize, shut, dropped,
                    request, connected, clientEnd, backendEnd, clientSent,
                    clientRead, backendSent, backendRead, toBackend>>
    BY <1>4 DEF ClientWriteCompletes
  <2>6. op' \in [Handlers -> Statuses] /\ OneAtATime' /\ HandshakeKept'
    BY <2>1, <2>2, <2>5, CompletesShape
  <2> QED BY <2>4, <2>5, <2>6 DEF Shape, TypeOK
<1>5. ASSUME NEW h \in BackendWrites, BackendWriteCompletes(h) PROVE Shape'
  <2>1. h \in Handlers
    BY DEF BackendWrites
  <2>2. PICK r \in Results : Completes(h, r)
    BY <1>0, <1>5 DEF BackendWriteCompletes
  <2>3. BackendPayload(h) = clt_buffer_
    BY <2>2, BackendPayloadKept DEF Completes, Busy
  <2>4. \A k \in Taken(h, Len(clt_buffer_)) :
          SubSeq(clt_buffer_, 1, k) \in Seq(Int)
    BY DEF Taken, Shape, TypeOK
  <2>5. toBackend' \in Seq(Int)
    <3>1. \/ toBackend' = toBackend
          \/ \E k \in Taken(h, Len(clt_buffer_)) :
               toBackend' = toBackend \o SubSeq(clt_buffer_, 1, k)
      BY <1>5, <2>3 DEF BackendWriteCompletes
    <3>2. toBackend \in Seq(Int)
      BY DEF Shape, TypeOK
    <3> QED BY <2>4, <3>1, <3>2, ConcatProperties
  <2>6. UNCHANGED <<arming, buffer_, clt_buffer_, handshakeSize, shut, dropped,
                    request, connected, clientEnd, backendEnd, clientSent,
                    clientRead, backendSent, backendRead, toClient>>
    BY <1>5 DEF BackendWriteCompletes
  <2>7. op' \in [Handlers -> Statuses] /\ OneAtATime' /\ HandshakeKept'
    BY <2>1, <2>2, <2>6, CompletesShape
  <2> QED BY <2>5, <2>6, <2>7 DEF Shape, TypeOK
<1> QED BY <1>1, <1>2, <1>3, <1>4, <1>5 DEF Kernel

LEMMA PeersShape == Shape /\ (Peers \/ UNCHANGED vars) => Shape'
<1> SUFFICES ASSUME Shape, Peers \/ UNCHANGED vars PROVE Shape'
  OBVIOUS
<1>1. UNCHANGED session
  BY DEF Peers, ClientSends, ClientCloses, BackendSends, BackendCloses, vars
<1>2. TypeOK'
  <2>1. CASE ClientSends
    BY <1>1, <2>1, SessionAssumption DEF ClientSends, Shape, TypeOK, session
  <2>2. CASE ClientCloses
    BY <1>1, <2>2 DEF ClientCloses, Shape, TypeOK, session, Ends
  <2>3. CASE BackendSends
    BY <1>1, <2>3, SessionAssumption DEF BackendSends, Shape, TypeOK, session
  <2>4. CASE BackendCloses
    BY <1>1, <2>4 DEF BackendCloses, Shape, TypeOK, session, Ends
  <2>5. CASE UNCHANGED vars
    BY <1>1, <2>5 DEF Shape, TypeOK, session, network, vars
  <2> QED BY <2>1, <2>2, <2>3, <2>4, <2>5 DEF Peers
<1>3. OneAtATime' /\ HandshakeKept'
  BY <1>1 DEF Shape, OneAtATime, Chains, AtMostOneBusy, HandshakeKept, Busy, session
<1> QED BY <1>2, <1>3 DEF Shape

\* In every reachable state of every session the variables have their types,
\* each chain has at most one operation outstanding, and the handshake waits
\* unharmed in clt_buffer_ for its replay.
THEOREM ShapeInvariant == Spec => []Shape
<1>1. Shape /\ [Next]_vars => Shape'
  BY HandleShape, KernelShape, PeersShape DEF Next, Gone
<1> QED BY ShapeInit, <1>1, PTL DEF Spec

\* The type invariant of the session.
THEOREM TypeCorrect == Spec => []TypeOK
  BY ShapeInvariant, PTL DEF Shape

\* No two outstanding operations share buffer_ or clt_buffer_, with no lock in
\* the code and one of the handlers outside the strand.
THEOREM BuffersNeverShared == Spec => []BuffersExclusive
<1>1. Shape => BuffersExclusive
  BY DEF Shape, OneAtATime, Chains, AtMostOneBusy, BuffersExclusive,
         BufferUsers, CltBufferUsers, Up, Down, Handshakes, Upwards, Downwards
<1> QED BY <1>1, ShapeInvariant, PTL

-----------------------------------------------------------------------------
(* cancel() never hits a write *)

\* Cancelling the operations of one chain from a handler of that chain cancels
\* no write: the handler's own operation was the only one outstanding there.
LEMMA CancelsNoWrite ==
  ASSUME Shape, WritesNeverCancelled,
         NEW h \in Handlers, Busy(h), NEW next \in SUBSET Handlers,
         NEW c \in {{}, OnSocket, OnBackend}, Ran(h, next, c),
         c = OnSocket => h \in Down, c = OnBackend => h \in Up
  PROVE  WritesNeverCancelled'
<1> USE DEF Handlers, Handshakes, Upwards, Downwards, ClientWrites,
            BackendWrites, Up, Down
<1> SUFFICES ASSUME NEW w \in Writes PROVE op'[w] # "aborted"
  BY DEF WritesNeverCancelled, Writes
<1>1. w \in Handlers /\ op[w] # "aborted"
  BY DEF WritesNeverCancelled, Writes
<1>2. CASE w \notin c
  BY <1>1, <1>2 DEF Ran
<1>3. CASE c = OnSocket /\ w \in c
  <2>1. w \in Down
    BY <1>3 DEF Writes, OnSocket, ClientReads
  <2>2. w # h => ~Busy(w)
    BY <1>3, <2>1 DEF Shape, OneAtATime, Chains, AtMostOneBusy
  <2> QED BY <1>1, <2>2 DEF Ran, Busy
<1>4. CASE c = OnBackend /\ w \in c
  <2>1. w \in Up
    BY <1>4 DEF Writes, OnBackend, BackendReads
  <2>2. w # h => ~Busy(w)
    BY <1>4, <2>1 DEF Shape, OneAtATime, Chains, AtMostOneBusy
  <2> QED BY <1>1, <2>2 DEF Ran, Busy
<1> QED BY <1>2, <1>3, <1>4

\* Every handler is a run of one, on an operation that is outstanding.
LEMMA HandleRuns ==
  ASSUME Handle
  PROVE  \/ arm_downstream_read
         \/ \E h \in Handlers : \E next \in SUBSET Handlers :
              \E c \in {{}, OnSocket, OnBackend} :
                /\ Busy(h) /\ Ran(h, next, c)
                /\ c = OnSocket => h \in Down
                /\ c = OnBackend => h \in Up
<1> USE DEF Handlers, Handshakes, Upwards, Downwards, Up, Down
<1> DEFINE Goal == \E h \in Handlers : \E next \in SUBSET Handlers :
                     \E c \in {{}, OnSocket, OnBackend} :
                       /\ Busy(h) /\ Ran(h, next, c)
                       /\ c = OnSocket => h \in Down
                       /\ c = OnBackend => h \in Up
<1>6. OnSocket # OnBackend /\ {} # OnSocket /\ {} # OnBackend
  <2>1. "upstream_read" \notin OnSocket /\ "upstream_read" \in OnBackend
    BY DEF OnSocket, OnBackend, ClientReads, BackendReads, ClientWrites
  <2>2. "downstream_read" \in OnSocket
    BY DEF OnSocket, ClientReads
  <2> QED BY <2>1, <2>2
<1>0. ASSUME NEW h \in Handlers, NEW next \in SUBSET Handlers,
             NEW c \in {{}, OnSocket, OnBackend},
             c = OnSocket => h \in Down, c = OnBackend => h \in Up,
             Continues(h, next, c)
      PROVE  Goal
  <2>1. Busy(h) /\ (Ran(h, next, {}) \/ Ran(h, {}, c))
    BY <1>0 DEF Continues, Succeeded, Failed, Failures, Busy
  <2> QED BY <1>0, <1>6, <2>1
<1>1. CASE echo_downstream_handshake
  BY <1>0, <1>1 DEF echo_downstream_handshake
<1>2. CASE read_downstream_handshake
  <2> DEFINE h == "read_downstream_handshake"
  <2>1. Busy(h) /\ \E next \in SUBSET Handlers : \E c \in {{}, OnSocket} :
                     Ran(h, next, c)
    BY <1>2 DEF read_downstream_handshake, sendError, Succeeded, Failed,
                Failures, Busy
  <2> QED BY <2>1
<1>3. CASE async_connect_upstream
  <2> DEFINE h == "async_connect_upstream"
  <2>1. Busy(h) /\ \E next \in SUBSET Handlers : Ran(h, next, {})
    BY <1>3 DEF async_connect_upstream, sendError, Succeeded, Failed, Failures,
                Busy
  <2> QED BY <2>1
<1>4. CASE read_upstream_handshake
  <2> DEFINE h == "read_upstream_handshake"
  <2>1. Busy(h) /\ \E next \in SUBSET Handlers : Ran(h, next, {})
    BY <1>4 DEF read_upstream_handshake, sendError, Succeeded, Failed, Failures,
                Busy
  <2> QED BY <2>1
<1>5. CASE echo_upstream_handshake
  <2> DEFINE h == "echo_upstream_handshake"
  <2>1. Busy(h) /\ \E next \in SUBSET Handlers : \E c \in {{}, OnBackend} :
                     Ran(h, next, c)
    BY <1>5 DEF echo_upstream_handshake, sendError, Succeeded, Failed, Failures,
                Busy
  <2> QED BY <2>1
<1>7. CASE sendError_written
  <2> DEFINE h == "sendError"
  <2>1. Busy(h) /\ Ran(h, {}, {})
    BY <1>7 DEF sendError_written, Succeeded, Failed, Failures, Busy
  <2> QED BY <2>1
<1>8. CASE upstream_read
  BY <1>0, <1>6, <1>8 DEF upstream_read
<1>9. CASE downstream_write
  BY <1>0, <1>6, <1>9 DEF downstream_write
<1>10. CASE downstream_read
  BY <1>0, <1>6, <1>10 DEF downstream_read
<1>11. CASE upstream_write
  BY <1>0, <1>6, <1>11 DEF upstream_write
<1> QED BY <1>1, <1>2, <1>3, <1>4, <1>5, <1>7, <1>8, <1>9, <1>10, <1>11
        DEF Handle

\* No handler touches the network, or clt_buffer_.
LEMMA HandlersLeaveNetwork == Handle => UNCHANGED clt_buffer_ /\ UNCHANGED network
<1> SUFFICES ASSUME Handle PROVE UNCHANGED clt_buffer_ /\ UNCHANGED network
  OBVIOUS
<1>1. CASE echo_downstream_handshake \/ upstream_read \/ downstream_write
             \/ downstream_read \/ upstream_write
  BY <1>1 DEF echo_downstream_handshake, upstream_read, downstream_write,
              downstream_read, upstream_write, Continues
<1>2. CASE read_downstream_handshake
  BY <1>2 DEF read_downstream_handshake, sendError
<1>3. CASE async_connect_upstream
  BY <1>3 DEF async_connect_upstream, sendError
<1>4. CASE read_upstream_handshake
  BY <1>4 DEF read_upstream_handshake, sendError
<1>5. CASE echo_upstream_handshake
  BY <1>5 DEF echo_upstream_handshake, sendError
<1>6. CASE arm_downstream_read \/ sendError_written
  BY <1>6 DEF arm_downstream_read, sendError_written
<1> QED BY <1>1, <1>2, <1>3, <1>4, <1>5, <1>6 DEF Handle

\* The kernel completes one operation, and fails a write only to a closed peer.
LEMMA KernelCompletes ==
  ASSUME Kernel
  PROVE  \E h \in Handlers, r \in {"ok", "error"} :
           /\ Completes(h, r)
           /\ h = "upstream_write" /\ r = "error" => backendEnd = "gone"
           /\ UNCHANGED backendEnd
<1> USE DEF Handlers, Handshakes, Upwards, Downwards
<1>1. CASE ConnectCompletes
  BY <1>1 DEF ConnectCompletes
<1>2. ASSUME NEW h \in ClientReads, ClientReadCompletes(h)
      PROVE  /\ h \in Handlers /\ h # "upstream_write" /\ UNCHANGED backendEnd
             /\ Completes(h, "ok") \/ Completes(h, "error")
  BY <1>2 DEF ClientReadCompletes, ClientReads
<1>3. ASSUME NEW h \in BackendReads, BackendReadCompletes(h)
      PROVE  /\ h \in Handlers /\ h # "upstream_write" /\ UNCHANGED backendEnd
             /\ Completes(h, "ok") \/ Completes(h, "error")
  BY <1>3 DEF BackendReadCompletes, BackendReads
<1>4. ASSUME NEW h \in ClientWrites, ClientWriteCompletes(h)
      PROVE  /\ h \in Handlers /\ h # "upstream_write" /\ UNCHANGED backendEnd
             /\ Completes(h, "ok") \/ Completes(h, "error")
  BY <1>4 DEF ClientWriteCompletes, ClientWrites
<1>5. ASSUME NEW h \in BackendWrites, BackendWriteCompletes(h)
      PROVE  /\ h \in Handlers /\ UNCHANGED backendEnd
             /\ \/ Completes(h, "ok")
                \/ Completes(h, "error") /\ backendEnd = "gone"
  BY <1>5 DEF BackendWriteCompletes, BackendWrites
<1> QED BY <1>1, <1>2, <1>3, <1>4, <1>5 DEF Kernel

LEMMA WritesUncutNext ==
  ASSUME Shape, WritesUncut, [Next]_vars
  PROVE  WritesUncut'
<1> USE DEF Handlers, Handshakes, Upwards, Downwards
<1>1. CASE arm_downstream_read
  BY <1>1 DEF arm_downstream_read, WritesUncut, WritesNeverCancelled,
              ClientWrites, BackendWrites, Shape, TypeOK, network
<1>2. ASSUME NEW h \in Handlers, NEW next \in SUBSET Handlers,
             NEW c \in {{}, OnSocket, OnBackend},
             Busy(h), Ran(h, next, c),
             c = OnSocket => h \in Down, c = OnBackend => h \in Up,
             Handle
      PROVE  WritesUncut'
  <2>1. WritesNeverCancelled'
    BY <1>2, CancelsNoWrite DEF WritesUncut
  <2>2. UNCHANGED network
    BY <1>2, HandlersLeaveNetwork
  <2>3. op'["upstream_write"] = "error" => op["upstream_write"] = "error"
    BY <1>2 DEF Ran
  <2> QED BY <2>1, <2>2, <2>3 DEF WritesUncut, network
<1>3. CASE Handle
  BY <1>1, <1>2, <1>3, HandleRuns
<1>4. CASE Kernel
  <2>1. PICK h \in Handlers, r \in {"ok", "error"} :
          /\ Completes(h, r)
          /\ h = "upstream_write" /\ r = "error" => backendEnd = "gone"
          /\ UNCHANGED backendEnd
    BY <1>4, KernelCompletes
  <2>2. \A w \in Writes : op'[w] # "aborted"
    BY <2>1 DEF Completes, WritesUncut, WritesNeverCancelled, Writes,
                ClientWrites, BackendWrites, Shape, TypeOK
  <2>3. op'["upstream_write"] = "error" => backendEnd' = "gone"
    BY <2>1 DEF Completes, WritesUncut, Shape, TypeOK
  <2> QED BY <2>2, <2>3 DEF WritesUncut, WritesNeverCancelled, Writes
<1>5. CASE Peers \/ UNCHANGED vars
  <2>1. op' = op /\ (backendEnd = "gone" => backendEnd' = "gone")
    BY <1>5 DEF Peers, ClientSends, ClientCloses, BackendSends, BackendCloses,
                vars, session, network
  <2> QED BY <2>1 DEF WritesUncut, WritesNeverCancelled
<1> QED BY <1>3, <1>4, <1>5 DEF Next, Gone

LEMMA WritesUncutInit == Init => WritesUncut
  BY DEF Init, WritesUncut, WritesNeverCancelled, ClientWrites, BackendWrites,
         Handlers, Handshakes, Upwards, Downwards

\* The errors of one direction cancel reads of the other one, never a write: no
\* relayed data is cut off in the middle.
THEOREM NoWriteCancelled == Spec => []WritesNeverCancelled
<1>1. Shape /\ WritesUncut /\ [Next]_vars => WritesUncut'
  BY WritesUncutNext
<1>2. WritesUncut => WritesNeverCancelled
  BY DEF WritesUncut
<1> QED BY <1>1, <1>2, WritesUncutInit, ShapeInvariant, PTL DEF Spec

-----------------------------------------------------------------------------
(* The storage machine is given the client's own stream *)

\* A step that moves no data keeps UpInv if it holds no more than before, and
\* lets go of what is held only by failing the session.
LEMMA MovesNothing ==
  ASSUME UpInv, UNCHANGED <<clt_buffer_, clientRead, toBackend>>,
         backendEnd' # "gone" =>
           /\ backendEnd # "gone"
           /\ HoldsUpwards' => HoldsUpwards
           /\ ~HoldsUpwards' /\ Active' => ~HoldsUpwards /\ Active
  PROVE  UpInv'
  BY DEF UpInv, HeldContinues, ToBackendFaithful

LEMMA HandleUp == ASSUME Shape, WritesUncut, UpInv, Handle PROVE UpInv'
<1> USE DEF Handlers, Handshakes, Upwards, Downwards
<1> DEFINE H == HoldsUpwards
<1>0. UNCHANGED <<clt_buffer_, clientRead, toBackend, backendEnd>>
  BY HandlersLeaveNetwork DEF network
<1>1. SUFFICES backendEnd # "gone" =>
                 /\ H' => H
                 /\ ~H' /\ Active' => ~H /\ Active
  BY <1>0, MovesNothing
<1>2. op \in [Handlers -> Statuses]
  BY DEF Shape, TypeOK
<1>3. ASSUME NEW h \in Up, Busy(h), NEW g \in Up, g # h
      PROVE  op[g] = "none"
  BY <1>3 DEF Shape, OneAtATime, Chains, AtMostOneBusy, Busy
<1>4. ASSUME NEW h \in Handshakes, Busy(h), NEW g \in Handlers, g # h
      PROVE  op[g] = "none"
  BY <1>4 DEF Shape, OneAtATime, Chains, AtMostOneBusy, Busy, Up, Down
<1>5. ASSUME NEW h \in Handshakes, Busy(h) PROVE ~arming
  BY <1>5 DEF Shape, OneAtATime, Up
<1>6. ASSUME NEW h \in Handshakes, Busy(h), NEW next \in SUBSET Handlers, NEW c,
             Ran(h, next, c)
      PROVE  \A g \in Handlers : op'[g] = IF g \in next THEN "started" ELSE "none"
  BY <1>4, <1>6 DEF Ran
<1>7. H <=> \/ op["read_downstream_handshake"] = "ok"
            \/ op["downstream_read"] = "ok"
            \/ op["async_connect_upstream"] # "none"
            \/ op["read_upstream_handshake"] # "none"
            \/ op["echo_upstream_handshake"] \in {"started", "aborted", "error"}
            \/ op["upstream_write"] \in {"started", "aborted", "error"}
  BY DEF HoldsUpwards, Busy, ClientReads, BackendWrites
<1>8. H' <=> \/ op'["read_downstream_handshake"] = "ok"
             \/ op'["downstream_read"] = "ok"
             \/ op'["async_connect_upstream"] # "none"
             \/ op'["read_upstream_handshake"] # "none"
             \/ op'["echo_upstream_handshake"] \in {"started", "aborted", "error"}
             \/ op'["upstream_write"] \in {"started", "aborted", "error"}
  BY DEF HoldsUpwards, Busy, ClientReads, BackendWrites
<1> HIDE DEF H
<1>9. ASSUME NEW h \in Handlers \ {"sendError"}, Busy(h) PROVE Active
  BY <1>9 DEF Active
\* The session fails, or ends: nothing is held and nothing will be.
<1>10. ASSUME NEW h \in Handshakes, Busy(h), NEW c,
              Ran(h, {"sendError"}, c) \/ Ran(h, {}, c), UNCHANGED arming
       PROVE  ~H' /\ ~Active'
  <2>1. \A g \in Handlers : op'[g] = "none" \/ g = "sendError"
    BY <1>6, <1>10
  <2>2. op'["sendError"] \in {"none", "started"}
    BY <1>6, <1>10
  <2> QED BY <1>5, <1>8, <1>10, <2>1, <2>2 DEF Active, Busy
<1>11. CASE echo_downstream_handshake
  <2> DEFINE h == "echo_downstream_handshake"
  <2>1. Busy(h) /\ UNCHANGED arming
    BY <1>11 DEF echo_downstream_handshake, Continues, Succeeded, Failed,
                 Failures, Busy
  <2>2. CASE Ran(h, {"read_downstream_handshake"}, {})
    <3>1. ~H' BY <1>6, <1>8, <2>1, <2>2
    <3>2. ~H  BY <1>4, <1>7, <2>1
    <3> QED BY <1>9, <2>1, <3>1, <3>2
  <2>3. CASE Ran(h, {}, OnSocket)
    BY <1>10, <2>1, <2>3
  <2> QED BY <1>11, <2>2, <2>3 DEF echo_downstream_handshake, Continues
<1>12. CASE read_downstream_handshake
  <2> DEFINE h == "read_downstream_handshake"
  <2>1. Busy(h) /\ UNCHANGED arming
    BY <1>12 DEF read_downstream_handshake, sendError, Succeeded, Failed,
                 Failures, Busy
  <2>2. CASE Succeeded(h) /\ Ran(h, {"async_connect_upstream"}, {})
    <3>1. H' BY <1>6, <1>8, <2>1, <2>2
    <3>2. H  BY <1>7, <2>2 DEF Succeeded
    <3> QED BY <3>1, <3>2
  <2>3. CASE Ran(h, {"sendError"}, {}) \/ Ran(h, {}, OnSocket)
    BY <1>10, <2>1, <2>3
  <2> QED BY <1>12, <2>2, <2>3 DEF read_downstream_handshake, sendError
<1>13. CASE async_connect_upstream
  <2> DEFINE h == "async_connect_upstream"
  <2>1. Busy(h) /\ UNCHANGED arming
    BY <1>13 DEF async_connect_upstream, sendError, Succeeded, Failed,
                 Failures, Busy
  <2>2. CASE Ran(h, {"read_upstream_handshake"}, {})
    <3>1. H' BY <1>6, <1>8, <2>1, <2>2
    <3>2. H  BY <1>7, <2>1 DEF Busy
    <3> QED BY <3>1, <3>2
  <2>3. CASE Ran(h, {"sendError"}, {})
    BY <1>10, <2>1, <2>3
  <2> QED BY <1>13, <2>2, <2>3 DEF async_connect_upstream, sendError
<1>14. CASE read_upstream_handshake
  <2> DEFINE h == "read_upstream_handshake"
  <2>1. Busy(h) /\ UNCHANGED arming
    BY <1>14 DEF read_upstream_handshake, sendError, Succeeded, Failed,
                 Failures, Busy
  <2>2. CASE Ran(h, {"echo_upstream_handshake"}, {})
    <3>1. H' BY <1>6, <1>8, <2>1, <2>2
    <3>2. H  BY <1>7, <2>1 DEF Busy
    <3> QED BY <3>1, <3>2
  <2>3. CASE Ran(h, {"sendError"}, {})
    BY <1>10, <2>1, <2>3
  <2> QED BY <1>14, <2>2, <2>3 DEF read_upstream_handshake, sendError
<1>15. CASE echo_upstream_handshake
  <2> DEFINE h == "echo_upstream_handshake"
  <2>1. Busy(h)
    BY <1>15 DEF echo_upstream_handshake, Succeeded, Failed, Failures, Busy
  <2>2. CASE Succeeded(h) /\ Ran(h, {"upstream_read"}, {})
    <3>1. ~H' BY <1>6, <1>8, <2>1, <2>2
    <3>2. ~H  BY <1>4, <1>7, <2>1, <2>2 DEF Succeeded
    <3> QED BY <1>9, <2>1, <3>1, <3>2
  <2>3. CASE Ran(h, {"sendError"}, OnBackend) /\ UNCHANGED arming
    BY <1>10, <2>1, <2>3
  <2> QED BY <1>15, <2>2, <2>3 DEF echo_upstream_handshake, sendError
<1>16. CASE arm_downstream_read
  <2>1. /\ Active
        /\ op' = [op EXCEPT !["downstream_read"] = "started"]
        /\ op["downstream_read"] = "none"
    BY <1>16 DEF arm_downstream_read, Active, Shape, OneAtATime, Up, Busy
  <2> QED BY <1>2, <1>7, <1>8, <2>1
<1>17. CASE sendError_written
  <2> DEFINE h == "sendError"
  <2>1. Busy(h) /\ UNCHANGED arming /\ Ran(h, {}, {})
    BY <1>17 DEF sendError_written, Succeeded, Failed, Failures, Busy
  <2> QED BY <1>10, <2>1
<1>18. CASE upstream_read \/ downstream_write
  <2>1. PICK h \in Downwards, next \in SUBSET Downwards, c \in {{}, OnSocket} :
          Busy(h) /\ Ran(h, next, c)
    BY <1>18 DEF upstream_read, downstream_write, Continues, Succeeded, Failed,
                 Failures, Busy
  <2>2. Active
    BY <1>9, <2>1
  <2>3. \A g \in Up : \/ op'[g] = op[g]
                      \/ g \in OnSocket /\ op[g] = "started" /\ op'[g] = "aborted"
    BY <2>1 DEF Ran, Up
  <2>4. H' <=> H
    BY <1>7, <1>8, <2>3 DEF Up, OnSocket, ClientReads, ClientWrites
  <2> QED BY <2>2, <2>4
<1>19. CASE downstream_read
  <2> DEFINE h == "downstream_read"
  <2>1. Busy(h) /\ Active
    BY <1>9, <1>19 DEF downstream_read, Continues, Succeeded, Failed, Failures,
                       Busy
  <2>2. CASE Succeeded(h) /\ Ran(h, {"upstream_write"}, {})
    <3>1. H' BY <1>8, <2>2 DEF Ran
    <3>2. H  BY <1>7, <2>2 DEF Succeeded
    <3> QED BY <3>1, <3>2
  <2>3. CASE Failed(h) /\ Ran(h, {}, OnBackend)
    <3>1. ~H
      BY <1>3, <1>7, <2>1, <2>3 DEF Failed, Failures, Up
    <3>2. \A g \in Up : op'[g] = "none"
      BY <1>3, <2>1, <2>3 DEF Ran, Up
    <3>3. ~H' BY <1>8, <3>2 DEF Up
    <3> QED BY <2>1, <3>1, <3>3
  <2> QED BY <1>19, <2>2, <2>3 DEF downstream_read, Continues
<1>20. CASE upstream_write
  <2> DEFINE h == "upstream_write"
  <2>1. Busy(h) /\ Active
    BY <1>9, <1>20 DEF upstream_write, Continues, Succeeded, Failed, Failures,
                       Busy
  <2>2. CASE Succeeded(h) /\ Ran(h, {"downstream_read"}, {})
    <3>1. ~H  BY <1>3, <1>7, <2>1, <2>2 DEF Succeeded, Up
    <3>2. \A g \in Up : op'[g] = IF g = "downstream_read" THEN "started" ELSE "none"
      BY <1>3, <2>1, <2>2 DEF Ran, Up
    <3>3. ~H' BY <1>8, <3>2 DEF Up
    <3> QED BY <2>1, <3>1, <3>3
  <2>3. CASE Failed(h)
    <3>1. backendEnd = "gone"
      BY <2>3 DEF Failed, Failures, WritesUncut, WritesNeverCancelled,
                  BackendWrites
    <3> QED BY <3>1
  <2> QED BY <1>20, <2>2, <2>3 DEF upstream_write, Continues
<1> QED BY <1>11, <1>12, <1>13, <1>14, <1>15, <1>16, <1>17, <1>18, <1>19, <1>20
        DEF Handle

LEMMA KernelUp ==
  ASSUME ~ShortWrites, Shape, UpInv, Kernel
  PROVE  UpInv'
<1> USE DEF Handlers, Handshakes, Upwards, Downwards
<1> DEFINE H == HoldsUpwards
<1>1. op \in [Handlers -> Statuses]
  BY DEF Shape, TypeOK
<1>2. ASSUME NEW h \in Up, Busy(h), NEW g \in Up, g # h
      PROVE  op[g] = "none"
  BY <1>2 DEF Shape, OneAtATime, Chains, AtMostOneBusy, Busy
<1>3. H <=> \/ op["read_downstream_handshake"] = "ok"
            \/ op["downstream_read"] = "ok"
            \/ op["async_connect_upstream"] # "none"
            \/ op["read_upstream_handshake"] # "none"
            \/ op["echo_upstream_handshake"] \in {"started", "aborted", "error"}
            \/ op["upstream_write"] \in {"started", "aborted", "error"}
  BY DEF HoldsUpwards, Busy, ClientReads, BackendWrites
<1>4. H' <=> \/ op'["read_downstream_handshake"] = "ok"
             \/ op'["downstream_read"] = "ok"
             \/ op'["async_connect_upstream"] # "none"
             \/ op'["read_upstream_handshake"] # "none"
             \/ op'["echo_upstream_handshake"] \in {"started", "aborted", "error"}
             \/ op'["upstream_write"] \in {"started", "aborted", "error"}
  BY DEF HoldsUpwards, Busy, ClientReads, BackendWrites
<1> HIDE DEF H
<1>5. ASSUME NEW h \in Handlers, NEW r \in Results, Completes(h, r),
             arming' = arming
      PROVE  Active' <=> Active
  BY <1>5, CompletesBusy DEF Active, Shape
<1>6. /\ clt_buffer_ \in Seq(Int) /\ toBackend \in Seq(Int)
      /\ clientRead \in Nat /\ clientSent \in Nat /\ clientRead <= clientSent
  BY DEF Shape, TypeOK
<1>7. "ok" \in Results /\ "error" \in Results
  BY DEF Results, Failures
\* Operations that move nothing upwards.
<1>8. ASSUME NEW h \in OnBackend \cup ClientWrites, h \notin BackendWrites,
             NEW r \in {"ok", "error"}, Completes(h, r),
             UNCHANGED <<arming, clt_buffer_, clientRead, toBackend, backendEnd>>
      PROVE  UpInv'
  <2>1. h \in Handlers /\ r \in Results
    BY <1>7, <1>8 DEF OnBackend, BackendReads, ClientWrites
  <2>2. H' <=> H
    BY <1>1, <1>3, <1>4, <1>8
       DEF Completes, OnBackend, BackendReads, BackendWrites, ClientWrites
  <2> QED BY <1>5, <1>8, <2>1, <2>2, MovesNothing DEF H
<1>9. CASE ConnectCompletes
  BY <1>8, <1>9 DEF ConnectCompletes, OnBackend, BackendWrites
<1>10. ASSUME NEW h \in BackendReads, BackendReadCompletes(h) PROVE UpInv'
  BY <1>8, <1>10 DEF BackendReadCompletes, OnBackend, BackendReads, BackendWrites
<1>11. ASSUME NEW h \in ClientWrites, ClientWriteCompletes(h) PROVE UpInv'
  BY <1>8, <1>11 DEF ClientWriteCompletes, ClientWrites, BackendWrites
<1>12. ASSUME NEW h \in ClientReads, ClientReadCompletes(h) PROVE UpInv'
  <2> DEFINE n == Min2(clientSent - clientRead, kDefaultBufferSize)
  <2>1. UNCHANGED <<arming, backendEnd, toBackend>> /\ op[h] = "started"
    BY <1>12 DEF ClientReadCompletes, Completes
  <2>2. h \in Up /\ h \in Handlers /\ Busy(h)
    BY <2>1 DEF ClientReads, Up, Busy
  <2>3. ~H /\ Active
    BY <1>2, <1>3, <2>1, <2>2 DEF Up, Active, ClientReads
  <2>4. CASE Completes(h, "error") /\ UNCHANGED <<clt_buffer_, clientRead>>
    <3>1. ~H'
      BY <1>1, <1>2, <1>4, <2>2, <2>4 DEF Completes, Up, ClientReads
    <3> QED BY <2>1, <2>3, <2>4, <3>1, MovesNothing DEF H
  <2>5. CASE /\ Completes(h, "ok")
             /\ clt_buffer_' = Units(clientRead, n)
             /\ clientRead' = clientRead + n
    <3>1. n \in Nat
      BY <1>6, SessionAssumption DEF Min2
    <3>2. H'
      BY <1>1, <1>4, <2>2, <2>5 DEF Completes, ClientReads
    <3>3. Len(clt_buffer_') = n
      BY <1>6, <2>5, <3>1, UnitsType
    <3>4. backendEnd # "gone" => clientRead = Len(toBackend)
      BY <2>3 DEF UpInv, HeldContinues, H
    <3>5. HeldContinues'
      BY <2>1, <2>5, <3>2, <3>3, <3>4 DEF HeldContinues, H
    <3> QED BY <2>1, <3>5 DEF UpInv, ToBackendFaithful
  <2> QED BY <1>12, <2>4, <2>5 DEF ClientReadCompletes
<1>13. ASSUME NEW h \in BackendWrites, BackendWriteCompletes(h) PROVE UpInv'
  <2>1. /\ UNCHANGED <<arming, backendEnd, clt_buffer_, clientRead>>
        /\ op[h] = "started"
    BY <1>13 DEF BackendWriteCompletes, Completes
  <2>2. h \in Up /\ h \in Handlers /\ Busy(h)
    BY <2>1 DEF BackendWrites, Up, Busy
  <2>3. CASE backendEnd = "gone"
    <3>1. UNCHANGED toBackend
      BY <1>13, <2>3 DEF BackendWriteCompletes
    <3> QED BY <2>1, <2>3, <3>1, MovesNothing
  <2>4. CASE backendEnd # "gone"
    <3>1. BackendPayload(h) = clt_buffer_
      BY <2>2, BackendPayloadKept
    <3>2. /\ Completes(h, "ok")
          /\ toBackend' = toBackend \o SubSeq(clt_buffer_, 1, Len(clt_buffer_))
      BY <1>13, <2>4, <3>1 DEF BackendWriteCompletes, Taken
    <3>3. toBackend' = toBackend \o clt_buffer_
      BY <1>6, <3>2
    <3>4. H
      BY <1>3, <2>1 DEF BackendWrites
    <3>5. /\ clt_buffer_ = Units(Len(toBackend), Len(clt_buffer_))
          /\ clientRead = Len(toBackend) + Len(clt_buffer_)
      BY <2>4, <3>4 DEF UpInv, HeldContinues, H
    <3>6. Len(toBackend') = Len(toBackend) + Len(clt_buffer_)
      BY <1>6, <3>3, ConcatProperties
    <3>7. ~H'
      BY <1>1, <1>2, <1>4, <2>2, <3>2 DEF Completes, Up, BackendWrites
    <3>8. HeldContinues'
      BY <2>1, <3>5, <3>6, <3>7 DEF HeldContinues, H
    <3>9. ToBackendFaithful'
      <4> SUFFICES ASSUME NEW i \in DOMAIN toBackend' PROVE toBackend'[i] = i
        BY DEF ToBackendFaithful
      <4>1. i \in 1 .. Len(toBackend) + Len(clt_buffer_)
        BY <1>6, <3>3, <3>6, ConcatProperties
      <4>2. toBackend'[i] = IF i <= Len(toBackend) THEN toBackend[i]
                            ELSE clt_buffer_[i - Len(toBackend)]
        BY <1>6, <3>3, <4>1, ConcatProperties
      <4>3. CASE i <= Len(toBackend)
        BY <1>6, <4>1, <4>2, <4>3 DEF UpInv, ToBackendFaithful
      <4>4. CASE i > Len(toBackend)
        <5>1. i - Len(toBackend) \in 1 .. Len(clt_buffer_)
          BY <1>6, <4>1, <4>4
        <5>2. \A j \in 1 .. Len(clt_buffer_) : clt_buffer_[j] = Len(toBackend) + j
          BY <3>5 DEF Units
        <5>3. clt_buffer_[i - Len(toBackend)] = i
          BY <1>6, <4>1, <5>1, <5>2
        <5> QED BY <1>6, <4>1, <4>2, <4>4, <5>3
      <4> QED BY <1>6, <4>1, <4>3, <4>4
    <3> QED BY <3>8, <3>9 DEF UpInv
  <2> QED BY <2>3, <2>4
<1> QED BY <1>9, <1>10, <1>11, <1>12, <1>13 DEF Kernel

LEMMA PeersUp == ASSUME UpInv, Peers \/ UNCHANGED vars PROVE UpInv'
<1>1. /\ UNCHANGED <<op, arming, clt_buffer_, clientRead, toBackend>>
      /\ backendEnd' # "gone" => backendEnd # "gone"
  BY DEF Peers, ClientSends, ClientCloses, BackendSends, BackendCloses, vars,
         session, network
<1>2. (HoldsUpwards' <=> HoldsUpwards) /\ (Active' <=> Active)
  BY <1>1 DEF HoldsUpwards, Active, Busy
<1> QED BY <1>1, <1>2, MovesNothing

LEMMA UpInit == Init => UpInv
<1> SUFFICES ASSUME Init PROVE UpInv
  OBVIOUS
<1>1. ~HoldsUpwards
  BY DEF Init, HoldsUpwards, Busy, ClientReads, BackendWrites, Handlers,
         Handshakes, Upwards
<1>2. clientRead = Len(toBackend) /\ DOMAIN toBackend = {}
  BY DEF Init
<1> QED BY <1>1, <1>2 DEF UpInv, HeldContinues, ToBackendFaithful

\* If async_write_some takes the whole handshake, the invariant of the upward
\* chain holds for ever.
THEOREM UpInvariant == ASSUME ~ShortWrites PROVE Spec => []UpInv
<1>1. Shape /\ WritesUncut /\ UpInv /\ [Next]_vars => UpInv'
  BY HandleUp, KernelUp, PeersUp DEF Next, Gone
<1>2. Shape /\ WritesUncut /\ [Next]_vars => WritesUncut'
  BY WritesUncutNext
<1> QED BY <1>1, <1>2, UpInit, WritesUncutInit, ShapeInvariant, PTL DEF Spec

\* The storage machine is given the client's stream from its first byte, in
\* order and without a gap, whatever is sent, closed or cancelled when.
THEOREM BackendStreamFaithful ==
  ASSUME ~ShortWrites PROVE Spec => []ToBackendFaithful
  BY UpInvariant, PTL DEF UpInv

\* Nothing read from the client is lost while the session lives.
THEOREM NothingLostOnTheWayUp ==
  ASSUME ~ShortWrites PROVE Spec => []NothingLostUpwards
<1>1. Shape /\ UpInv => NothingLostUpwards
  <2> SUFFICES ASSUME Shape, UpInv, backendEnd # "gone",
                      NEW h \in Handlers \ {"sendError"}, Busy(h)
               PROVE  clientRead = Len(toBackend)
                        + (IF HoldsUpwards THEN Len(clt_buffer_) ELSE 0)
    BY DEF NothingLostUpwards
  <2>1. Active
    BY DEF Active
  <2>2. Len(toBackend) \in Nat
    BY DEF Shape, TypeOK
  <2> QED BY <2>1, <2>2 DEF UpInv, HeldContinues
<1> QED BY <1>1, UpInvariant, ShapeInvariant, PTL

-----------------------------------------------------------------------------
(* The way down *)

\* The operations of the handshake once the client has been greeted.
Greeted == {"read_downstream_handshake", "async_connect_upstream",
            "read_upstream_handshake", "echo_upstream_handshake"}

\* What the operation h of the handshake finds of the storage machine's stream.
Swallowed(h) ==
  IF h = "echo_upstream_handshake" THEN backendRead = dropped
  ELSE /\ dropped = 0
       /\ backendRead = IF h = "read_upstream_handshake" /\ op[h] = "ok"
                        THEN Len(buffer_) ELSE 0

Count == backendRead - dropped = Len(toClient) - 1
           + (IF HoldsDownwards THEN Len(buffer_) ELSE 0)

\* The greeting is all the client has been given before the relay; then every
\* unit behind those that were dropped is in buffer_ or with the client.
DownInv ==
  clientEnd # "gone" =>
    /\ Busy("echo_downstream_handshake") =>
         /\ backendRead = 0 /\ dropped = 0
         /\ Len(toClient) = IF op["echo_downstream_handshake"] = "ok" THEN 1 ELSE 0
    /\ \A h \in Greeted : Busy(h) => Len(toClient) = 1 /\ Swallowed(h)
    /\ \A h \in Downwards : Busy(h) => Count

\* What is left of DownInv when only the operation h of the downward chain is
\* outstanding.
LEMMA DownAlone ==
  ASSUME NEW h \in Down, \A g \in Down \ {h} : op[g] = "none",
         clientEnd # "gone" =>
           /\ h = "echo_downstream_handshake" /\ Busy(h) =>
                /\ backendRead = 0 /\ dropped = 0
                /\ Len(toClient) = IF op[h] = "ok" THEN 1 ELSE 0
           /\ h \in Greeted /\ Busy(h) => Len(toClient) = 1 /\ Swallowed(h)
           /\ h \in Downwards /\ Busy(h) => Count
  PROVE  DownInv
BY DEF DownInv, Down, Handshakes, Downwards, Greeted, Busy

\* A step that moves nothing downwards and completes no operation that does.
LEMMA MovesNothingDown ==
  ASSUME DownInv, UNCHANGED <<buffer_, dropped, backendRead, toClient>>,
         clientEnd' # "gone" => clientEnd # "gone",
         \A g \in Down : Busy(g)' <=> Busy(g),
         \A g \in {"echo_downstream_handshake", "read_upstream_handshake"} :
           op'[g] = "ok" <=> op[g] = "ok",
         HoldsDownwards' <=> HoldsDownwards
  PROVE  DownInv'
<1> USE DEF Down, Handshakes, Downwards
<1>1. \A h \in Greeted : Swallowed(h)' <=> Swallowed(h)
  BY DEF Swallowed, Greeted
<1>2. Count' <=> Count
  BY DEF Count
<1> QED BY <1>1, <1>2 DEF DownInv, Greeted

\* A step of the upward chain starts nothing of the downward one, and cancels
\* at most its read.
LEMMA UpLeavesDown ==
  ASSUME DownInv, UNCHANGED <<buffer_, dropped, backendRead, toClient, clientEnd>>,
         \A g \in Down : \/ op'[g] = op[g]
                         \/ g = "upstream_read" /\ op[g] = "started" /\ op'[g] = "aborted"
  PROVE  DownInv'
<1> USE DEF Down, Handshakes, Downwards
<1>1. /\ \A g \in Down : Busy(g)' <=> Busy(g)
      /\ \A g \in Down \ {"upstream_read"} : op'[g] = op[g]
      /\ op'["upstream_read"] = "ok" <=> op["upstream_read"] = "ok"
  BY DEF Busy
<1>2. HoldsDownwards' <=> HoldsDownwards
  BY <1>1 DEF HoldsDownwards
<1> QED BY <1>1, <1>2, MovesNothingDown

LEMMA DownInit == Init => DownInv
<1> SUFFICES ASSUME Init PROVE DownInv
  OBVIOUS
<1> USE DEF Handlers, Handshakes, Upwards, Downwards
<1>1. /\ \A g \in Down \ {"echo_downstream_handshake"} : op[g] = "none"
      /\ op["echo_downstream_handshake"] = "started"
      /\ backendRead = 0 /\ dropped = 0 /\ Len(toClient) = 0
  BY DEF Init, Down
<1> QED BY <1>1, DownAlone DEF Down, Greeted

LEMMA HandleDown == ASSUME Shape, DownInv, Handle PROVE DownInv'
<1> USE DEF Handlers, Handshakes, Upwards, Downwards
<1>1. op \in [Handlers -> Statuses] /\ UNCHANGED network
  BY HandlersLeaveNetwork DEF Shape, TypeOK
<1>2. ASSUME NEW h \in Down, Busy(h), NEW g \in Down, g # h
      PROVE  op[g] = "none"
  BY <1>2 DEF Shape, OneAtATime, Chains, AtMostOneBusy, Busy
<1>3. UNCHANGED <<backendRead, toClient, clientEnd>>
  BY <1>1 DEF network
<1>4. /\ backendRead \in Nat /\ dropped \in Nat
      /\ Len(toClient) \in Nat /\ Len(buffer_) \in Nat
  BY DEF Shape, TypeOK
\* A handler of the downward chain that starts g, or nothing.
<1>5. ASSUME NEW h \in Down, Busy(h), NEW g \in Down, NEW next \in {{}, {g}}, NEW c,
             Ran(h, next, c)
      PROVE  /\ \A f \in Down \ {g} : op'[f] = "none"
             /\ op'[g] = IF next = {} THEN "none" ELSE "started"
  <2>1. \A f \in Down : f # h => op[f] = "none"
    BY <1>2, <1>5
  <2> QED BY <1>5, <2>1 DEF Ran, Down
<1>6. ASSUME NEW h \in Down, Busy(h), NEW c, Ran(h, {}, c) PROVE DownInv'
  <2>1. \A f \in Down : op'[f] = "none"
    BY <1>5, <1>6
  <2> QED BY <2>1 DEF DownInv, Down, Greeted, Busy
<1>7. ASSUME NEW h \in Down, Busy(h), NEW c, Ran(h, {"sendError"}, c) PROVE DownInv'
  <2>1. \A f \in Down \ {"sendError"} : op'[f] = "none"
    BY <1>5, <1>7 DEF Down
  <2> QED BY <2>1 DEF DownInv, Down, Greeted, Busy
<1>8. CASE echo_downstream_handshake
  <2> DEFINE h == "echo_downstream_handshake"
  <2>1. h \in Down /\ Busy(h)
    BY <1>8 DEF echo_downstream_handshake, Continues, Succeeded, Failed,
                Failures, Busy, Down
  <2>2. CASE Failed(h) /\ Ran(h, {}, OnSocket)
    BY <1>6, <2>1, <2>2
  <2>3. CASE /\ Succeeded(h)
             /\ Ran(h, {"read_downstream_handshake"}, {})
             /\ UNCHANGED <<buffer_, dropped>>
    <3> DEFINE g == "read_downstream_handshake"
    <3>1. g \in Down /\ (\A f \in Down \ {g} : op'[f] = "none") /\ op'[g] = "started"
      BY <1>5, <2>1, <2>3 DEF Down
    <3>2. clientEnd # "gone" => Len(toClient) = 1 /\ dropped = 0 /\ backendRead = 0
      BY <2>1, <2>3 DEF DownInv, Succeeded
    <3>3. clientEnd' # "gone" => Len(toClient') = 1 /\ Swallowed(g)'
      BY <1>3, <2>3, <3>1, <3>2 DEF Swallowed
    <3> QED BY <3>1, <3>3 DEF DownInv, Down, Greeted, Busy
  <2> QED BY <1>8, <2>2, <2>3 DEF echo_downstream_handshake, Continues
<1>9. CASE read_downstream_handshake
  <2> DEFINE h == "read_downstream_handshake"
  <2>1. h \in Down /\ Busy(h)
    BY <1>9 DEF read_downstream_handshake, Succeeded, Failed, Failures, Busy, Down
  <2>2. CASE Ran(h, {}, OnSocket) \/ Ran(h, {"sendError"}, {})
    BY <1>6, <1>7, <2>1, <2>2
  <2>3. CASE /\ Succeeded(h)
             /\ Ran(h, {"async_connect_upstream"}, {})
             /\ UNCHANGED <<buffer_, dropped>>
    <3> DEFINE g == "async_connect_upstream"
    <3>1. g \in Down /\ (\A f \in Down \ {g} : op'[f] = "none") /\ op'[g] = "started"
      BY <1>5, <2>1, <2>3 DEF Down
    <3>2. clientEnd # "gone" => Len(toClient) = 1 /\ dropped = 0 /\ backendRead = 0
      BY <2>1 DEF DownInv, Swallowed, Greeted
    <3>3. clientEnd' # "gone" => Len(toClient') = 1 /\ Swallowed(g)'
      BY <1>3, <2>3, <3>1, <3>2 DEF Swallowed
    <3> QED BY <3>1, <3>3 DEF DownInv, Down, Greeted, Busy
  <2> QED BY <1>9, <2>2, <2>3 DEF read_downstream_handshake, sendError
<1>10. CASE async_connect_upstream
  <2> DEFINE h == "async_connect_upstream"
  <2>1. h \in Down /\ Busy(h)
    BY <1>10 DEF async_connect_upstream, Succeeded, Failed, Failures, Busy, Down
  <2>2. CASE Ran(h, {"sendError"}, {})
    BY <1>7, <2>1, <2>2
  <2>3. CASE /\ Succeeded(h)
             /\ Ran(h, {"read_upstream_handshake"}, {})
             /\ UNCHANGED <<buffer_, dropped>>
    <3> DEFINE g == "read_upstream_handshake"
    <3>1. g \in Down /\ (\A f \in Down \ {g} : op'[f] = "none") /\ op'[g] = "started"
      BY <1>5, <2>1, <2>3 DEF Down
    <3>2. clientEnd # "gone" => Len(toClient) = 1 /\ dropped = 0 /\ backendRead = 0
      BY <2>1 DEF DownInv, Swallowed, Greeted
    <3>3. clientEnd' # "gone" => Len(toClient') = 1 /\ Swallowed(g)'
      BY <1>3, <2>3, <3>1, <3>2 DEF Swallowed
    <3> QED BY <3>1, <3>3 DEF DownInv, Down, Greeted, Busy
  <2> QED BY <1>10, <2>2, <2>3 DEF async_connect_upstream, sendError
<1>11. CASE read_upstream_handshake
  <2> DEFINE h == "read_upstream_handshake"
  <2>1. h \in Down /\ Busy(h)
    BY <1>11 DEF read_upstream_handshake, Succeeded, Failed, Failures, Busy, Down
  <2>2. CASE Ran(h, {"sendError"}, {})
    BY <1>7, <2>1, <2>2
  <2>3. CASE /\ Succeeded(h)
             /\ Ran(h, {"echo_upstream_handshake"}, {})
             /\ dropped' = dropped + Len(buffer_)
    <3> DEFINE g == "echo_upstream_handshake"
    <3>1. g \in Down /\ (\A f \in Down \ {g} : op'[f] = "none") /\ op'[g] = "started"
      BY <1>5, <2>1, <2>3 DEF Down
    <3>2. clientEnd # "gone" =>
            Len(toClient) = 1 /\ dropped = 0 /\ backendRead = Len(buffer_)
      BY <2>1, <2>3 DEF DownInv, Swallowed, Greeted, Succeeded
    <3>3. clientEnd' # "gone" => Len(toClient') = 1 /\ Swallowed(g)'
      BY <1>3, <1>4, <2>3, <3>1, <3>2 DEF Swallowed
    <3> QED BY <3>1, <3>3 DEF DownInv, Down, Greeted, Busy
  <2> QED BY <1>11, <2>2, <2>3 DEF read_upstream_handshake, sendError
<1>12. CASE echo_upstream_handshake
  <2> DEFINE h == "echo_upstream_handshake"
  <2>1. h \in Down /\ Busy(h)
    BY <1>12 DEF echo_upstream_handshake, Succeeded, Failed, Failures, Busy, Down
  <2>2. CASE Ran(h, {"sendError"}, OnBackend)
    BY <1>7, <2>1, <2>2
  <2>3. CASE /\ Succeeded(h)
             /\ Ran(h, {"upstream_read"}, {})
             /\ UNCHANGED <<buffer_, dropped>>
    <3> DEFINE g == "upstream_read"
    <3>1. g \in Down /\ (\A f \in Down \ {g} : op'[f] = "none") /\ op'[g] = "started"
      BY <1>5, <2>1, <2>3 DEF Down
    <3>2. clientEnd # "gone" => Len(toClient) = 1 /\ backendRead = dropped
      BY <2>1, <2>3 DEF DownInv, Swallowed, Greeted
    <3>3. ~HoldsDownwards'
      BY <3>1 DEF HoldsDownwards, Down
    <3>4. clientEnd # "gone" => backendRead - dropped = Len(toClient) - 1
      <4>1. \A a, b, l \in Nat : a = b /\ l = 1 => a - b = l - 1
        OBVIOUS
      <4> QED BY <1>4, <3>2, <4>1
    <3>5. clientEnd' # "gone" => Count'
      BY <1>3, <1>4, <2>3, <3>3, <3>4 DEF Count
    <3> QED BY <3>1, <3>5 DEF DownInv, Down, Greeted, Busy
  <2> QED BY <1>12, <2>2, <2>3 DEF echo_upstream_handshake, sendError
<1>13. CASE arm_downstream_read
  <2>1. UNCHANGED <<buffer_, dropped>> /\ \A g \in Down : op'[g] = op[g]
    BY <1>1, <1>13 DEF arm_downstream_read, Down
  <2> QED BY <1>1, <1>3, <2>1, UpLeavesDown
<1>14. CASE sendError_written
  BY <1>6, <1>14 DEF sendError_written, Succeeded, Failed, Failures, Busy, Down
<1>15. CASE upstream_read
  <2> DEFINE h == "upstream_read"
  <2>1. h \in Down /\ Busy(h)
    BY <1>15 DEF upstream_read, Continues, Succeeded, Failed, Failures, Busy, Down
  <2>2. CASE Ran(h, {}, OnSocket)
    BY <1>6, <2>1, <2>2
  <2>3. CASE /\ Succeeded(h)
             /\ Ran(h, {"downstream_write"}, {})
             /\ UNCHANGED <<buffer_, dropped>>
    <3> DEFINE g == "downstream_write"
    <3>1. g \in Down /\ (\A f \in Down \ {g} : op'[f] = "none") /\ op'[g] = "started"
      BY <1>5, <2>1, <2>3 DEF Down
    <3>2. HoldsDownwards /\ HoldsDownwards'
      BY <2>3, <3>1 DEF HoldsDownwards, Succeeded
    <3>3. clientEnd # "gone" => Count
      BY <2>1 DEF DownInv
    <3>4. clientEnd' # "gone" => Count'
      BY <1>3, <2>3, <3>2, <3>3 DEF Count
    <3> QED BY <3>1, <3>4 DEF DownInv, Down, Greeted, Busy
  <2> QED BY <1>15, <2>2, <2>3 DEF upstream_read, Continues
<1>16. CASE downstream_write
  <2> DEFINE h == "downstream_write"
  <2>1. h \in Down /\ Busy(h)
    BY <1>16 DEF downstream_write, Continues, Succeeded, Failed, Failures,
                 Busy, Down
  <2>2. CASE Ran(h, {}, {})
    BY <1>6, <2>1, <2>2
  <2>3. CASE /\ Succeeded(h)
             /\ Ran(h, {"upstream_read"}, {})
             /\ UNCHANGED <<buffer_, dropped>>
    <3> DEFINE g == "upstream_read"
    <3>1. g \in Down /\ (\A f \in Down \ {g} : op'[f] = "none") /\ op'[g] = "started"
      BY <1>5, <2>1, <2>3 DEF Down
    <3>2. op["upstream_read"] = "none"
      BY <1>2, <2>1 DEF Down
    <3>3. ~HoldsDownwards /\ ~HoldsDownwards'
      BY <2>3, <3>1, <3>2 DEF HoldsDownwards, Succeeded, Down
    <3>4. clientEnd # "gone" => Count
      BY <2>1 DEF DownInv
    <3>5. clientEnd' # "gone" => Count'
      BY <1>3, <2>3, <3>3, <3>4 DEF Count
    <3> QED BY <3>1, <3>5 DEF DownInv, Down, Greeted, Busy
  <2> QED BY <1>16, <2>2, <2>3 DEF downstream_write, Continues
<1>17. CASE downstream_read \/ upstream_write
  <2>1. PICK h \in Upwards, next \in SUBSET Upwards, c \in {{}, OnBackend} :
          Busy(h) /\ Ran(h, next, c)
    BY <1>17 DEF downstream_read, upstream_write, Continues, Succeeded, Failed,
                 Failures, Busy
  <2>2. \A g \in Handshakes : op[g] = "none"
    BY <2>1 DEF Shape, OneAtATime, Chains, AtMostOneBusy, Busy, Up
  <2>3. \A g \in Down : \/ op'[g] = op[g]
                        \/ g = "upstream_read" /\ op[g] = "started" /\ op'[g] = "aborted"
    BY <1>1, <2>1, <2>2 DEF Ran, Down, OnBackend, BackendReads, BackendWrites
  <2>4. UNCHANGED <<buffer_, dropped>>
    BY <1>17 DEF downstream_read, upstream_write, Continues
  <2> QED BY <1>1, <1>3, <2>3, <2>4, UpLeavesDown
<1> QED BY <1>8, <1>9, <1>10, <1>11, <1>12, <1>13, <1>14, <1>15, <1>16, <1>17 DEF Handle

LEMMA KernelDown == ASSUME Shape, DownInv, Kernel PROVE DownInv'
<1> USE DEF Handlers, Handshakes, Upwards, Downwards
<1>1. op \in [Handlers -> Statuses]
  BY DEF Shape, TypeOK
<1>2. ASSUME NEW h \in Down, Busy(h), NEW g \in Down, g # h
      PROVE  op[g] = "none"
  BY <1>2 DEF Shape, OneAtATime, Chains, AtMostOneBusy, Busy
<1>3. /\ backendRead \in Nat /\ backendSent \in Nat /\ backendRead <= backendSent
      /\ dropped \in Nat /\ buffer_ \in Seq(Int) /\ toClient \in Seq(Int)
      /\ Len(buffer_) \in Nat /\ Len(toClient) \in Nat
  BY DEF Shape, TypeOK
<1>4. ASSUME NEW h \in Handlers, NEW r \in {"ok", "error"}, Completes(h, r)
      PROVE  /\ \A g \in Down : Busy(g)' <=> Busy(g)
             /\ op[h] = "started" /\ op'[h] = r
             /\ \A g \in Handlers \ {h} : op'[g] = op[g]
  BY <1>1, <1>4 DEF Completes, Busy, Down
\* Completions that move nothing downwards.
<1>5. ASSUME NEW h \in Handlers, NEW r \in {"ok", "error"}, Completes(h, r),
             r = "ok" => h \notin BackendReads \cup ClientWrites,
             UNCHANGED <<buffer_, dropped, backendRead, toClient, clientEnd>>
      PROVE  DownInv'
  <2>1. HoldsDownwards' <=> HoldsDownwards
    BY <1>4, <1>5 DEF HoldsDownwards, BackendReads, ClientWrites
  <2>2. \A g \in {"echo_downstream_handshake", "read_upstream_handshake"} :
          op'[g] = "ok" <=> op[g] = "ok"
    BY <1>4, <1>5 DEF BackendReads, ClientWrites
  <2> QED BY <1>4, <1>5, <2>1, <2>2, MovesNothingDown
<1>6. CASE ConnectCompletes
  BY <1>5, <1>6 DEF ConnectCompletes, BackendReads, ClientWrites
<1>7. ASSUME NEW h \in ClientReads, ClientReadCompletes(h) PROVE DownInv'
  BY <1>5, <1>7 DEF ClientReadCompletes, ClientReads, BackendReads, ClientWrites
<1>8. ASSUME NEW h \in BackendWrites, BackendWriteCompletes(h) PROVE DownInv'
  BY <1>5, <1>8 DEF BackendWriteCompletes, BackendWrites, BackendReads, ClientWrites
<1>9. ASSUME NEW h \in BackendReads, BackendReadCompletes(h) PROVE DownInv'
  <2> DEFINE n == Min2(backendSent - backendRead, kDefaultBufferSize)
  <2>1. UNCHANGED <<dropped, toClient, clientEnd>> /\ h \in Handlers /\ h \in Down
    BY <1>9 DEF BackendReadCompletes, BackendReads, Down
  <2>2. CASE Completes(h, "error") /\ UNCHANGED <<buffer_, backendRead>>
    BY <1>5, <2>1, <2>2
  <2>3. CASE /\ Completes(h, "ok")
             /\ buffer_' = Units(backendRead, n)
             /\ backendRead' = backendRead + n
    <3>1. n \in Nat
      BY <1>3, SessionAssumption DEF Min2
    <3>2. Len(buffer_') = n
      BY <1>3, <2>3, <3>1, UnitsType
    <3>3. op[h] = "started" /\ op'[h] = "ok" /\ \A g \in Handlers \ {h} : op'[g] = op[g]
      BY <1>4, <2>1, <2>3
    <3>4. \A g \in Down \ {h} : op[g] = "none" /\ op'[g] = "none"
      BY <1>2, <2>1, <3>3 DEF Busy, Down
    <3> HIDE DEF n
    <3>5. CASE h = "read_upstream_handshake"
      <4>1. clientEnd # "gone" =>
            Len(toClient) = 1 /\ dropped = 0 /\ backendRead = 0
        BY <3>3, <3>5 DEF DownInv, Swallowed, Greeted, Busy
      <4>2. clientEnd' # "gone" => Len(toClient') = 1 /\ dropped' = 0 /\ backendRead' = n
        BY <2>1, <2>3, <3>1, <4>1
      <4>3. clientEnd' # "gone" => Len(toClient') = 1 /\ Swallowed(h)'
        BY <3>2, <3>3, <3>5, <4>2 DEF Swallowed
      <4> QED BY <3>4, <3>5, <4>3 DEF DownInv, Down, Greeted, Busy
    <3>6. CASE h = "upstream_read"
      <4>1. ~HoldsDownwards /\ HoldsDownwards'
        BY <3>3, <3>4, <3>6 DEF HoldsDownwards, Down
      <4>2. clientEnd # "gone" => backendRead - dropped = Len(toClient) - 1 + 0
        BY <3>3, <3>6, <4>1 DEF DownInv, Count, Busy
      <4>3. clientEnd' # "gone" => backendRead + n - dropped = Len(toClient) - 1 + n
        BY <1>3, <2>1, <3>1, <4>2
      <4>4. clientEnd' # "gone" => Count'
        <5>1. /\ toClient' = toClient /\ dropped' = dropped
              /\ backendRead' = backendRead + n /\ Len(buffer_') = n
          BY <2>1, <2>3, <3>2
        <5>2. clientEnd' # "gone" =>
                backendRead' - dropped' = Len(toClient') - 1 + Len(buffer_')
          BY <1>3, <3>1, <4>3, <5>1
        <5> QED BY <4>1, <5>2 DEF Count
      <4> QED BY <3>4, <3>6, <4>4 DEF DownInv, Down, Greeted, Busy
    <3> QED BY <3>5, <3>6 DEF BackendReads
  <2> QED BY <1>9, <2>2, <2>3 DEF BackendReadCompletes
<1>10. ASSUME NEW h \in ClientWrites, ClientWriteCompletes(h) PROVE DownInv'
  <2>1. /\ UNCHANGED <<buffer_, dropped, backendRead, clientEnd>>
        /\ h \in Handlers /\ h \in Down
    BY <1>10 DEF ClientWriteCompletes, ClientWrites, Down
  <2>2. CASE clientEnd = "gone"
    BY <2>1, <2>2 DEF DownInv
  <2>3. CASE clientEnd # "gone"
    <3>1. Completes(h, "ok") /\ toClient' = toClient \o ClientPayload(h)
      BY <1>10, <2>3 DEF ClientWriteCompletes
    <3>2. op[h] = "started" /\ op'[h] = "ok" /\ \A g \in Handlers \ {h} : op'[g] = op[g]
      BY <1>4, <2>1, <3>1
    <3>3. \A g \in Down \ {h} : op[g] = "none" /\ op'[g] = "none"
      BY <1>2, <2>1, <3>2 DEF Busy, Down
    <3>4. CASE h = "echo_downstream_handshake"
      <4>1. toClient' = toClient \o <<kGreeting>> /\ <<kGreeting>> \in Seq(Int)
        BY <3>1, <3>4 DEF ClientPayload, kGreeting
      <4>2. Len(toClient') = Len(toClient) + 1
        BY <1>3, <4>1, ConcatProperties
      <4>3. backendRead = 0 /\ dropped = 0 /\ Len(toClient) = 0
        BY <2>3, <3>2, <3>4 DEF DownInv, Busy
      <4>4. backendRead' = 0 /\ dropped' = 0 /\ Len(toClient') = 1
        BY <2>1, <4>2, <4>3
      <4> QED BY <3>2, <3>3, <3>4, <4>4 DEF DownInv, Down, Greeted, Busy
    <3>5. CASE h = "sendError"
      BY <3>3, <3>5 DEF DownInv, Down, Greeted, Busy
    <3>6. CASE h = "downstream_write"
      <4>1. toClient' = toClient \o buffer_
        BY <3>1, <3>6 DEF ClientPayload
      <4>2. Len(toClient') = Len(toClient) + Len(buffer_)
        BY <1>3, <4>1, ConcatProperties
      <4>3. HoldsDownwards /\ ~HoldsDownwards'
        BY <3>2, <3>3, <3>6 DEF HoldsDownwards, Down
      <4>4. backendRead - dropped = Len(toClient) - 1 + Len(buffer_)
        BY <2>3, <3>2, <3>6, <4>3 DEF DownInv, Count, Busy
      <4>5. backendRead - dropped = Len(toClient') - 1
        BY <1>3, <4>2, <4>4
      <4>6. Count'
        BY <1>3, <2>1, <4>2, <4>3, <4>5 DEF Count
      <4> QED BY <3>3, <3>6, <4>6 DEF DownInv, Down, Greeted, Busy
    <3> QED BY <3>4, <3>5, <3>6 DEF ClientWrites
  <2> QED BY <2>2, <2>3
<1> QED BY <1>6, <1>7, <1>8, <1>9, <1>10 DEF Kernel

LEMMA PeersDown == ASSUME DownInv, Peers \/ UNCHANGED vars PROVE DownInv'
<1>1. /\ UNCHANGED <<op, buffer_, dropped, backendRead, toClient>>
      /\ clientEnd' # "gone" => clientEnd # "gone"
  BY DEF Peers, ClientSends, ClientCloses, BackendSends, BackendCloses, vars,
         session, network
<1>2. (HoldsDownwards' <=> HoldsDownwards) /\ \A g \in Down : Busy(g)' <=> Busy(g)
  BY <1>1 DEF HoldsDownwards, Busy
<1> QED BY <1>1, <1>2, MovesNothingDown

\* The invariant of the downward chain holds for ever, whatever async_write_some
\* takes: what is relayed to the client is written with async_write.
THEOREM DownInvariant == Spec => []DownInv
<1>1. Shape /\ DownInv /\ [Next]_vars => DownInv'
  BY HandleDown, KernelDown, PeersDown DEF Next, Gone
<1> QED BY <1>1, DownInit, ShapeInvariant, PTL DEF Spec

\* Nothing read from the storage machine once the session relays is lost on its
\* way to the client.
THEOREM NothingLostOnTheWayDown == Spec => []NothingLostDownwards
<1>1. DownInv => NothingLostDownwards
  BY DEF DownInv, NothingLostDownwards, Count
<1> QED BY <1>1, DownInvariant, PTL

-----------------------------------------------------------------------------
(* SubversionSession implements Relay, as long as a write takes all it is  *)
(* given.  The streams follow from the invariants of the two chains.  What *)
(* is left is why a session ends, refuses its client or begins to relay:   *)
(* Explained traces every operation that has failed to a peer that has     *)
(* closed, and Answering says what the handshake has done so far.          *)

\* An operation fails because its peer has closed, or because the other
\* direction has failed; connecting alone fails at will.
Explained ==
  /\ \A h \in Handshakes : op[h] # "aborted"
  /\ \A h \in ClientReads : op[h] = "error" => clientEnd # "open"
  /\ \A h \in BackendReads : op[h] = "error" => backendEnd # "open"
  /\ \A h \in ClientWrites : op[h] = "error" => clientEnd = "gone"
  /\ \A h \in BackendWrites : op[h] = "error" => backendEnd = "gone"
  /\ (\E h \in Handlers : op[h] = "aborted") =>
       clientEnd # "open" \/ backendEnd # "open"

\* The operations before the storage machine's greeting is swallowed.
Opening == {"echo_downstream_handshake", "read_downstream_handshake",
            "async_connect_upstream", "read_upstream_handshake"}

\* The storage machine is told nothing before its greeting is swallowed, and
\* nothing if the replay fails.
Answering ==
  /\ \A h \in Opening : Busy(h) => dropped = 0 /\ toBackend = <<>>
  /\ Busy("echo_upstream_handshake") => dropped > 0
  /\ op["echo_upstream_handshake"] \in {"started", "error"} => toBackend = <<>>
  /\ op["read_upstream_handshake"] = "ok" => Len(buffer_) \in 1..backendSent

\* One failure is told, behind the greeting.
Refusing ==
  Busy("sendError") =>
    /\ buffer_ \in {<<-200042>>, <<-210004>>}
    /\ clientEnd # "gone" =>
         Len(toClient) = IF op["sendError"] = "ok" THEN 2 ELSE 1

\* What is held for the client are the last units read, and the greeting comes
\* before them.
Relaying ==
  /\ HoldsDownwards =>
       buffer_ = Units(backendRead - Len(buffer_), Len(buffer_))
  /\ clientEnd # "gone" /\ op["echo_downstream_handshake"] \in {"none", "ok"} =>
       toClient # <<>>

-----------------------------------------------------------------------------
(* The operations of the handshake *)

\* An operation of the handshake is the only one that is outstanding ...
LEMMA OnlyOperation ==
  ASSUME Shape, NEW h \in Handshakes, Busy(h)
  PROVE  ~arming /\ \A g \in Handlers \ {h} : op[g] = "none"
<1>1. h \in Up /\ h \in Down
  BY DEF Up, Down
<1>2. ~arming
  BY <1>1 DEF Shape, OneAtATime
<1>3. \A g \in Up \cup Down : g # h => ~Busy(g)
  BY <1>1 DEF Shape, OneAtATime, Chains, AtMostOneBusy
<1>4. Handlers = Up \cup Down
  BY DEF Handlers, Up, Down
<1> QED BY <1>2, <1>3, <1>4 DEF Busy

\* ... and its handler leaves what it starts.
LEMMA HandsOn ==
  ASSUME Shape, NEW h \in Handshakes, Busy(h), NEW next, NEW c, Ran(h, next, c)
  PROVE  op' = [g \in Handlers |-> IF g \in next THEN "started" ELSE "none"]
<1>1. \A g \in Handlers \ {h} : op[g] = "none"
  BY OnlyOperation
<1> QED BY <1>1 DEF Ran

\* A handler of the relay finds and leaves none of the handshake.
LEMMA RelayAlone ==
  ASSUME Shape, NEW h \in Upwards \cup Downwards, Busy(h)
  PROVE  \A g \in Handshakes : op[g] = "none"
<1>1. \A g \in Handshakes : h # g
  BY DEF Handshakes, Upwards, Downwards
<1>2. h \in Handlers
  BY DEF Handlers
<1>3. ASSUME NEW g \in Handshakes, Busy(g) PROVE FALSE
  BY <1>1, <1>2, <1>3, OnlyOperation DEF Busy
<1> QED BY <1>3 DEF Busy

\* The same of arm_downstream_read, before which no read from the client is
\* outstanding.
LEMMA ArmingAlone ==
  ASSUME Shape, arming
  PROVE  /\ \A g \in Handshakes : op[g] = "none"
         /\ op["downstream_read"] = "none"
<1>1. "downstream_read" \in Up /\ Handshakes \subseteq Up
  BY DEF Up, Upwards
<1> QED BY <1>1 DEF Shape, OneAtATime, Busy

-----------------------------------------------------------------------------
(* Why an operation fails *)

\* An operation is cancelled by the handler of one that has failed, which is not
\* the connect.
LEMMA CancelledByFailure ==
  ASSUME Shape, Handle, NEW g \in Handlers, op'[g] = "aborted", op[g] # "aborted"
  PROVE  \E h \in Handlers \ {"async_connect_upstream"} : Failed(h)
<1>1. ASSUME NEW h, NEW next, Ran(h, next, {}) PROVE FALSE
  BY <1>1 DEF Ran
<1>2. CASE echo_downstream_handshake
  BY <1>1, <1>2 DEF echo_downstream_handshake, Continues, Handlers, Handshakes
<1>3. CASE read_downstream_handshake
  BY <1>1, <1>3
     DEF read_downstream_handshake, sendError, Handlers, Handshakes
<1>4. CASE async_connect_upstream
  BY <1>1, <1>4 DEF async_connect_upstream, sendError
<1>5. CASE read_upstream_handshake
  BY <1>1, <1>5 DEF read_upstream_handshake, sendError
<1>6. CASE echo_upstream_handshake
  BY <1>1, <1>6 DEF echo_upstream_handshake, sendError, Handlers, Handshakes
<1>7. CASE arm_downstream_read
  BY <1>7 DEF arm_downstream_read, Shape, TypeOK
<1>8. CASE sendError_written
  BY <1>1, <1>8 DEF sendError_written
<1>9. CASE upstream_read
  BY <1>1, <1>9 DEF upstream_read, Continues, Handlers, Downwards
<1>10. CASE downstream_write
  BY <1>1, <1>10 DEF downstream_write, Continues
<1>11. CASE downstream_read
  BY <1>1, <1>11 DEF downstream_read, Continues, Handlers, Upwards
<1>12. CASE upstream_write
  BY <1>1, <1>12 DEF upstream_write, Continues
<1> QED BY <1>2, <1>3, <1>4, <1>5, <1>6, <1>7, <1>8, <1>9, <1>10, <1>11, <1>12
        DEF Handle

\* What has failed has a peer that has closed.
LEMMA FailedExplained ==
  ASSUME Shape, WritesUncut, Explained,
         NEW h \in Handlers \ {"async_connect_upstream"}, Failed(h)
  PROVE  clientEnd # "open" \/ backendEnd # "open"
<1>1. CASE op[h] = "aborted"
  BY <1>1 DEF Explained
<1>2. CASE op[h] = "error"
  <2>1. h \in ClientReads \cup BackendReads \cup ClientWrites \cup BackendWrites
    BY DEF Handlers, Handshakes, Upwards, Downwards, ClientReads, BackendReads,
           ClientWrites, BackendWrites
  <2> QED BY <1>2, <2>1 DEF Explained
<1> QED BY <1>1, <1>2 DEF Failed, Failures

LEMMA HandleExplained ==
  ASSUME Shape, WritesUncut, Explained, Handle
  PROVE  Explained'
<1>1. UNCHANGED <<clientEnd, backendEnd>>
  BY HandlersLeaveNetwork DEF network
<1>2. ASSUME NEW g \in Handlers
      PROVE  /\ op'[g] = "error" => op[g] = "error"
             /\ op'[g] = "aborted" /\ op[g] # "aborted" =>
                  \E h \in Handlers \ {g} : Busy(g) /\ Busy(h)
  <2>1. CASE arm_downstream_read
    BY <2>1 DEF arm_downstream_read, Shape, TypeOK
  <2>2. ASSUME NEW h \in Handlers, NEW next, NEW c, Busy(h), Ran(h, next, c)
        PROVE  /\ op'[g] = "error" => op[g] = "error"
               /\ op'[g] = "aborted" /\ op[g] # "aborted" => g # h /\ Busy(g)
    BY <2>2 DEF Ran, Busy
  <2> QED BY <2>1, <2>2, HandleRuns
<1>3. ASSUME NEW g \in Handshakes, op'[g] = "aborted" PROVE FALSE
  <2>1. g \in Handlers /\ op[g] # "aborted"
    BY DEF Explained, Handlers
  <2>2. PICK h \in Handlers \ {g} : Busy(g) /\ Busy(h)
    BY <1>2, <1>3, <2>1
  <2> QED BY <2>2, OnlyOperation DEF Busy
<1>4. ASSUME NEW g \in Handlers, op'[g] = "aborted"
      PROVE  clientEnd # "open" \/ backendEnd # "open"
  <2>1. CASE op[g] = "aborted"
    BY <2>1 DEF Explained
  <2>2. CASE op[g] # "aborted"
    BY <1>4, <2>2, CancelledByFailure, FailedExplained
  <2> QED BY <2>1, <2>2
<1>5. ClientReads \cup BackendReads \cup ClientWrites \cup BackendWrites \subseteq Handlers
  BY DEF Handlers, Handshakes, Upwards, Downwards, ClientReads, BackendReads,
         ClientWrites, BackendWrites
<1> QED BY <1>1, <1>2, <1>3, <1>4, <1>5 DEF Explained

LEMMA KernelExplained ==
  ASSUME Shape, Explained, Kernel
  PROVE  Explained'
<1> USE DEF Handlers, Handshakes, Upwards, Downwards
<1>1. \E h \in Handlers, r \in {"ok", "error"} :
        /\ Completes(h, r)
        /\ r = "error" =>
             /\ h \in ClientReads => clientEnd # "open"
             /\ h \in BackendReads => backendEnd # "open"
             /\ h \in ClientWrites => clientEnd = "gone"
             /\ h \in BackendWrites => backendEnd = "gone"
        /\ UNCHANGED <<clientEnd, backendEnd>>
  <2> USE DEF ClientReads, BackendReads, ClientWrites, BackendWrites
  <2>1. CASE ConnectCompletes
    BY <2>1 DEF ConnectCompletes
  <2>2. ASSUME NEW h \in ClientReads, ClientReadCompletes(h)
        PROVE  /\ \/ Completes(h, "ok")
                  \/ Completes(h, "error") /\ clientEnd # "open"
               /\ UNCHANGED <<clientEnd, backendEnd>>
    BY <2>2 DEF ClientReadCompletes
  <2>3. ASSUME NEW h \in BackendReads, BackendReadCompletes(h)
        PROVE  /\ \/ Completes(h, "ok")
                  \/ Completes(h, "error") /\ backendEnd # "open"
               /\ UNCHANGED <<clientEnd, backendEnd>>
    BY <2>3 DEF BackendReadCompletes
  <2>4. ASSUME NEW h \in ClientWrites, ClientWriteCompletes(h)
        PROVE  /\ \/ Completes(h, "ok")
                  \/ Completes(h, "error") /\ clientEnd = "gone"
               /\ UNCHANGED <<clientEnd, backendEnd>>
    BY <2>4 DEF ClientWriteCompletes
  <2>5. ASSUME NEW h \in BackendWrites, BackendWriteCompletes(h)
        PROVE  /\ \/ Completes(h, "ok")
                  \/ Completes(h, "error") /\ backendEnd = "gone"
               /\ UNCHANGED <<clientEnd, backendEnd>>
    BY <2>5 DEF BackendWriteCompletes
  <2> QED BY <2>1, <2>2, <2>3, <2>4, <2>5 DEF Kernel
<1>2. PICK h \in Handlers, r \in {"ok", "error"} :
        /\ Completes(h, r)
        /\ r = "error" =>
             /\ h \in ClientReads => clientEnd # "open"
             /\ h \in BackendReads => backendEnd # "open"
             /\ h \in ClientWrites => clientEnd = "gone"
             /\ h \in BackendWrites => backendEnd = "gone"
        /\ UNCHANGED <<clientEnd, backendEnd>>
  BY <1>1
<1>3. \A g \in Handlers : op'[g] = IF g = h THEN r ELSE op[g]
  BY <1>2 DEF Completes, Shape, TypeOK
<1>4. ClientReads \cup BackendReads \cup ClientWrites \cup BackendWrites \subseteq Handlers
  BY DEF ClientReads, BackendReads, ClientWrites, BackendWrites
<1>5. \A g \in Handlers : op'[g] = "aborted" => op[g] = "aborted"
  BY <1>3
<1>6. \A g \in Handlers : op'[g] = "error" => op[g] = "error" \/ (g = h /\ r = "error")
  BY <1>3
<1> QED BY <1>2, <1>4, <1>5, <1>6 DEF Explained

LEMMA PeersExplained ==
  ASSUME Explained, Peers \/ UNCHANGED vars
  PROVE  Explained'
<1>1. /\ op' = op
      /\ clientEnd # "open" => clientEnd' # "open"
      /\ backendEnd # "open" => backendEnd' # "open"
      /\ clientEnd = "gone" => clientEnd' = "gone"
      /\ backendEnd = "gone" => backendEnd' = "gone"
  BY DEF Peers, ClientSends, ClientCloses, BackendSends, BackendCloses, vars,
         session, network
<1> QED BY <1>1 DEF Explained

LEMMA ExplainedInit == Init => Explained
  BY DEF Init, Explained, Handlers, Handshakes, Upwards, Downwards, ClientReads,
         BackendReads, ClientWrites, BackendWrites

\* No operation ever fails but the connect and those whose peer has closed, or
\* that were cancelled because another one has failed for that reason.
THEOREM FailuresExplained == Spec => []Explained
<1>1. Shape /\ WritesUncut /\ Explained /\ [Next]_vars => Explained'
  BY HandleExplained, KernelExplained, PeersExplained DEF Next, Gone
<1>2. Shape /\ WritesUncut /\ [Next]_vars => WritesUncut'
  BY WritesUncutNext
<1> QED BY <1>1, <1>2, ExplainedInit, WritesUncutInit, ShapeInvariant, PTL DEF Spec

-----------------------------------------------------------------------------
(* What the handshake has done so far *)

Progress == Answering /\ Refusing /\ Relaying

\* After a handler that leaves only the operation g of the handshake, or none.
LEMMA ProgressAfter ==
  ASSUME NEW g \in Handshakes, NEW next \in {{}, {g}},
         op' = [f \in Handlers |-> IF f \in next THEN "started" ELSE "none"],
         next = {g} =>
           /\ g \in Opening => dropped' = 0 /\ toBackend' = <<>>
           /\ g = "echo_upstream_handshake" => dropped' > 0 /\ toBackend' = <<>>
           /\ g = "sendError" =>
                /\ buffer_' \in {<<-200042>>, <<-210004>>}
                /\ clientEnd' # "gone" => Len(toClient') = 1,
         next = {g} => g # "echo_downstream_handshake",
         clientEnd' # "gone" => toClient' # <<>>
  PROVE  Progress'
<1>1. \A f \in Handlers : /\ op'[f] \in {"none", "started"}
                          /\ Busy(f)' <=> f \in next
  BY DEF Busy
<1>2. Answering'
  BY <1>1 DEF Answering, Opening, Busy, Handlers, Handshakes
<1>3. Refusing'
  BY <1>1 DEF Refusing, Busy, Handlers, Handshakes
<1>4. ~HoldsDownwards'
  BY DEF HoldsDownwards, Handlers, Handshakes, Downwards
<1> QED BY <1>2, <1>3, <1>4 DEF Progress, Relaying

\* The client that is there has been greeted when the handler of another
\* operation than the greeting runs, or that one with success.
LEMMA GreetedBefore ==
  ASSUME Shape, WritesUncut, Explained, Relaying,
         NEW h \in Handlers, Busy(h), op[h] # "started", clientEnd # "gone"
  PROVE  toClient # <<>>
<1> DEFINE e == "echo_downstream_handshake"
<1>1. e \in Handshakes /\ e \in Handlers /\ e \in ClientWrites
  BY DEF Handshakes, Handlers, ClientWrites
<1>2. op[e] \notin Failures
  BY <1>1 DEF Explained, Failures
<1>3. h # e => op[e] = "none"
  BY <1>1, OnlyOperation DEF Busy
<1>4. op[e] \in Statuses
  BY <1>1 DEF Shape, TypeOK
<1>5. op[e] \in {"none", "ok"}
  BY <1>2, <1>3, <1>4 DEF Statuses, Results, Busy
<1> QED BY <1>5 DEF Relaying

LEMMA HandleProgress ==
  ASSUME Shape, WritesUncut, WritesUncut', DownInv, Explained, Progress, Handle
  PROVE  Progress'
<1> USE DEF Succeeded, Failed, Failures, Busy
<1>1. UNCHANGED network
  BY HandlersLeaveNetwork
<1>2. UNCHANGED <<clientEnd, backendEnd, backendSent, backendRead, toClient, toBackend>>
  BY <1>1 DEF network
<1>3. Answering /\ Refusing /\ Relaying
  BY DEF Progress
<1>4. dropped \in Nat /\ buffer_ \in Seq(Int) /\ toBackend \in Seq(Int)
  BY DEF Shape, TypeOK
<1>5. ASSUME NEW h \in Handshakes, op[h] \in Results
      PROVE  /\ h \in Handlers /\ Busy(h)
             /\ clientEnd' # "gone" => toClient' # <<>>
  BY <1>2, <1>3, <1>5, GreetedBefore DEF Handlers, Results
\* The session ends, or fails before the relay begins.
<1>6. ASSUME NEW h \in Handshakes, op[h] \in Results, NEW c, Ran(h, {}, c)
      PROVE  Progress'
  <2>1. op' = [f \in Handlers |-> IF f \in {} THEN "started" ELSE "none"]
    BY <1>5, <1>6, HandsOn
  <2> QED BY <1>5, <1>6, <2>1, ProgressAfter
<1>7. ASSUME NEW h \in Greeted, op[h] \in Results, NEW c, NEW eid \in {200042, 210004},
             sendError(h, eid, c)
      PROVE  Progress'
  <2>1. h \in Handshakes /\ "sendError" \in Handshakes /\ h \in Handlers
    BY DEF Greeted, Handshakes, Handlers
  <2>2. op' = [f \in Handlers |-> IF f \in {"sendError"} THEN "started" ELSE "none"]
    BY <1>5, <1>7, <2>1, HandsOn DEF sendError
  <2>3. buffer_' \in {<<-200042>>, <<-210004>>}
    BY <1>7 DEF sendError
  <2>4. Busy(h)
    BY <1>5, <1>7, <2>1
  <2>5. clientEnd' # "gone" => Len(toClient') = 1
    BY <1>2, <2>4 DEF DownInv
  <2>6. "sendError" \notin Opening
    BY DEF Opening
  <2> QED BY <1>5, <1>7, <2>1, <2>2, <2>3, <2>5, <2>6, ProgressAfter
<1>8. ASSUME NEW h \in Opening, op[h] = "ok",
             NEW g \in Opening \ {"echo_downstream_handshake"},
             Ran(h, {g}, {}), UNCHANGED dropped
      PROVE  Progress'
  <2>1. h \in Handshakes /\ g \in Handshakes /\ h \in Handlers
    BY DEF Opening, Handshakes, Handlers
  <2>2. op' = [f \in Handlers |-> IF f \in {g} THEN "started" ELSE "none"]
    BY <1>5, <1>8, <2>1, HandsOn
  <2>3. dropped' = 0 /\ toBackend' = <<>>
    BY <1>2, <1>3, <1>8 DEF Answering
  <2>4. g # "echo_upstream_handshake" /\ g # "sendError"
    BY DEF Opening
  <2> QED BY <1>5, <1>8, <2>1, <2>2, <2>3, <2>4, ProgressAfter DEF Results
<1>9. CASE echo_downstream_handshake
  BY <1>6, <1>8, <1>9
     DEF echo_downstream_handshake, Continues, Handshakes, Results, Opening
<1>10. CASE read_downstream_handshake
  <2> DEFINE h == "read_downstream_handshake"
  <2>1. Eid(Len(clt_buffer_)) \in {0, 200042, 210004}
    BY SessionAssumption DEF Eid, RequestKinds, Shape, TypeOK
  <2>2. CASE /\ Succeeded(h) /\ Eid(Len(clt_buffer_)) # 0
             /\ sendError(h, Eid(Len(clt_buffer_)), {})
    BY <1>7, <2>1, <2>2 DEF Greeted, Results
  <2>3. CASE Succeeded(h) /\ Ran(h, {"async_connect_upstream"}, {}) /\ UNCHANGED dropped
    BY <1>8, <2>3 DEF Opening
  <2>4. CASE Failed(h) /\ Ran(h, {}, OnSocket)
    BY <1>6, <2>4 DEF Handshakes, Results
  <2> QED BY <1>10, <2>2, <2>3, <2>4 DEF read_downstream_handshake
<1>11. CASE async_connect_upstream
  BY <1>7, <1>8, <1>11 DEF async_connect_upstream, Greeted, Results, Opening
<1>12. CASE read_upstream_handshake
  <2> DEFINE h == "read_upstream_handshake"
  <2>1. CASE Failed(h) /\ sendError(h, 200042, {})
    BY <1>7, <2>1 DEF Greeted, Results
  <2>2. CASE /\ Succeeded(h) /\ Ran(h, {"echo_upstream_handshake"}, {})
             /\ dropped' = dropped + Len(buffer_)
    <3> DEFINE g == "echo_upstream_handshake"
    <3>1. h \in Handshakes /\ g \in Handshakes /\ h \in Handlers /\ h \in Opening
      BY DEF Opening, Handshakes, Handlers
    <3>2. op' = [f \in Handlers |-> IF f \in {g} THEN "started" ELSE "none"]
      BY <1>5, <2>2, <3>1, HandsOn DEF Results
    <3>3. dropped = 0 /\ toBackend = <<>> /\ Len(buffer_) \in 1..backendSent
      BY <1>3, <2>2, <3>1 DEF Answering
    <3>4. dropped' > 0 /\ toBackend' = <<>>
      BY <1>2, <1>4, <2>2, <3>3 DEF Shape, TypeOK
    <3>5. g \notin Opening
      BY DEF Opening
    <3> QED BY <1>5, <2>2, <3>1, <3>2, <3>4, <3>5, ProgressAfter DEF Results
  <2> QED BY <1>12, <2>1, <2>2 DEF read_upstream_handshake
<1>13. CASE sendError_written
  BY <1>6, <1>13 DEF sendError_written, Handshakes, Results
\* From here on no operation of the handshake is outstanding.
<1>14. ASSUME \A g \in Handshakes : op'[g] = "none",
              HoldsDownwards' => HoldsDownwards, UNCHANGED buffer_,
              clientEnd' # "gone" => toClient' # <<>>
       PROVE  Progress'
  <2>1. Answering' /\ Refusing'
    BY <1>14 DEF Answering, Refusing, Opening, Handshakes
  <2>2. Relaying'
    BY <1>2, <1>3, <1>14 DEF Relaying
  <2> QED BY <2>1, <2>2 DEF Progress
<1>15. CASE echo_upstream_handshake
  <2> DEFINE h == "echo_upstream_handshake"
  <2>1. CASE Failed(h) /\ sendError(h, 200042, OnBackend)
    BY <1>7, <2>1 DEF Greeted, Results
  <2>2. CASE Succeeded(h) /\ Ran(h, {"upstream_read"}, {}) /\ UNCHANGED buffer_
    <3>1. h \in Handshakes /\ op[h] \in Results /\ Busy(h)
      BY <2>2 DEF Handshakes, Results
    <3>2. op' = [f \in Handlers |-> IF f \in {"upstream_read"} THEN "started" ELSE "none"]
      BY <2>2, <3>1, HandsOn
    <3>3. \A g \in Handshakes : op'[g] = "none"
      BY <3>2 DEF Handlers, Handshakes
    <3>4. ~HoldsDownwards'
      BY <3>2 DEF HoldsDownwards, Handlers, Downwards
    <3> QED BY <1>5, <1>14, <2>2, <3>1, <3>3, <3>4
  <2> QED BY <1>15, <2>1, <2>2 DEF echo_upstream_handshake
<1>16. CASE arm_downstream_read
  <2>1. arming /\ op' = [op EXCEPT !["downstream_read"] = "started"] /\ UNCHANGED buffer_
    BY <1>16 DEF arm_downstream_read
  <2>2. \A g \in Handshakes : op[g] = "none"
    BY <2>1, ArmingAlone
  <2>3. /\ "downstream_read" \notin Handshakes \cup Downwards
        /\ "echo_downstream_handshake" \in Handshakes
        /\ {"upstream_read", "downstream_write"} \subseteq Downwards
    BY DEF Handshakes, Downwards
  <2>4. \A g \in Handshakes \cup Downwards : op'[g] = op[g]
    BY <2>1, <2>3 DEF Shape, TypeOK, Handlers
  <2>5. HoldsDownwards' => HoldsDownwards
    BY <2>3, <2>4 DEF HoldsDownwards
  <2>6. clientEnd' # "gone" => toClient' # <<>>
    BY <1>2, <1>3, <2>2, <2>3 DEF Relaying
  <2> QED BY <1>14, <2>1, <2>2, <2>4, <2>5, <2>6
\* A handler of the relay, of the operation h.
<1>17. ASSUME NEW h \in Upwards \cup Downwards, op[h] \in Results,
              NEW next \in SUBSET (Upwards \cup Downwards), NEW c, Ran(h, next, c),
              UNCHANGED buffer_,
              "downstream_write" \in next => op["upstream_read"] = "ok"
       PROVE  Progress'
  <2>1. h \in Handlers /\ Busy(h)
    BY <1>17 DEF Handlers, Results
  <2>2. \A g \in Handshakes : op[g] = "none"
    BY <2>1, RelayAlone
  <2>3. \A g \in Handshakes : g \in Handlers /\ g \notin next
    BY DEF Handshakes, Handlers, Upwards, Downwards
  <2>4. \A g \in Handshakes : op'[g] = "none"
    BY <1>17, <2>2, <2>3 DEF Ran
  <2>5. op'["downstream_write"] # "aborted"
    BY DEF WritesUncut, WritesNeverCancelled, ClientWrites
  <2>6. /\ op'["upstream_read"] = "ok" => op["upstream_read"] = "ok"
        /\ op'["downstream_write"] = "started" =>
             "downstream_write" \in next \/ op["downstream_write"] = "started"
        /\ op'["downstream_write"] = "error" => op["downstream_write"] = "error"
    BY <1>17 DEF Ran, Handlers, Downwards
  <2>7. HoldsDownwards' => HoldsDownwards
    BY <1>17, <2>5, <2>6 DEF HoldsDownwards
  <2>8. clientEnd' # "gone" => toClient' # <<>>
    BY <1>2, <1>3, <1>17, <2>1, GreetedBefore DEF Results
  <2> QED BY <1>14, <1>17, <2>4, <2>7, <2>8
<1>18. CASE upstream_read
  BY <1>17, <1>18 DEF upstream_read, Continues, Upwards, Downwards, Results
<1>19. CASE downstream_write
  BY <1>17, <1>19 DEF downstream_write, Continues, Upwards, Downwards, Results
<1>20. CASE downstream_read
  BY <1>17, <1>20 DEF downstream_read, Continues, Upwards, Downwards, Results
<1>21. CASE upstream_write
  BY <1>17, <1>21 DEF upstream_write, Continues, Upwards, Downwards, Results
<1> QED BY <1>9, <1>10, <1>11, <1>12, <1>13, <1>15, <1>16, <1>18, <1>19, <1>20,
           <1>21 DEF Handle

\* A step that moves nothing, and after which an operation of the handshake has
\* at most failed.
LEMMA KeepsProgress ==
  ASSUME Shape, Progress,
         UNCHANGED <<buffer_, dropped, backendRead, toClient, toBackend>>,
         \A g \in Handshakes :
           \/ op'[g] = op[g]
           \/ op[g] = "started" /\ op'[g] = "error"
           \/ /\ g \notin {"echo_downstream_handshake", "read_upstream_handshake", "sendError",
                           "echo_upstream_handshake"}
              /\ op[g] = "started" /\ op'[g] = "ok",
         HoldsDownwards' => HoldsDownwards,
         clientEnd' # "gone" => clientEnd # "gone",
         backendSent' \in Nat, backendSent' >= backendSent
  PROVE  Progress'
<1> USE DEF Handshakes, Opening
<1>1. /\ \A g \in Handshakes : Busy(g)' <=> Busy(g)
      /\ op'["echo_upstream_handshake"] \in {"started", "error"} =>
           op["echo_upstream_handshake"] \in {"started", "error"}
      /\ op'["read_upstream_handshake"] = "ok" => op["read_upstream_handshake"] = "ok"
      /\ op'["sendError"] = "ok" <=> op["sendError"] = "ok"
      /\ op'["echo_downstream_handshake"] \in {"none", "ok"} =>
           op["echo_downstream_handshake"] \in {"none", "ok"}
  BY DEF Busy
<1>2. backendSent \in Nat
  BY DEF Shape, TypeOK
<1>3. Answering'
  BY <1>1, <1>2 DEF Progress, Answering
<1>4. Refusing'
  BY <1>1 DEF Progress, Refusing
<1>5. Relaying'
  BY <1>1 DEF Progress, Relaying
<1> QED BY <1>3, <1>4, <1>5 DEF Progress

LEMMA KernelProgress ==
  ASSUME Shape, DownInv, Progress, Kernel
  PROVE  Progress'
<1> USE DEF Handlers, Handshakes, Upwards, Downwards
<1>1. Answering /\ Refusing /\ Relaying
  BY DEF Progress
<1>2. /\ backendRead \in Nat /\ backendSent \in Nat /\ backendRead <= backendSent
      /\ dropped \in Nat /\ buffer_ \in Seq(Int) /\ toClient \in Seq(Int)
      /\ Len(buffer_) \in Nat /\ Len(toClient) \in Nat /\ backendSent >= backendSent
  BY DEF Shape, TypeOK
<1>3. ASSUME NEW h \in Handlers, NEW r \in {"ok", "error"}, Completes(h, r)
      PROVE  /\ op[h] = "started" /\ op'[h] = r /\ Busy(h)
             /\ \A g \in Handlers \ {h} : op'[g] = op[g]
  BY <1>3 DEF Completes, Shape, TypeOK, Busy
\* Completions that move nothing.
<1>4. ASSUME NEW h \in Handlers, NEW r \in {"ok", "error"}, Completes(h, r),
             r = "ok" => h \in ClientReads \cup {"async_connect_upstream"},
             UNCHANGED <<buffer_, dropped, backendRead, toClient, toBackend, clientEnd,
                         backendSent>>
      PROVE  Progress'
  <2>1. \A g \in Handshakes :
          \/ op'[g] = op[g]
          \/ op[g] = "started" /\ op'[g] = "error"
          \/ /\ g \notin {"echo_downstream_handshake", "read_upstream_handshake", "sendError",
                          "echo_upstream_handshake"}
             /\ op[g] = "started" /\ op'[g] = "ok"
    BY <1>3, <1>4 DEF ClientReads
  <2>2. HoldsDownwards' => HoldsDownwards
    BY <1>3, <1>4 DEF HoldsDownwards, ClientReads
  <2> QED BY <1>2, <1>4, <2>1, <2>2, KeepsProgress
<1>5. CASE ConnectCompletes
  BY <1>4, <1>5 DEF ConnectCompletes
<1>6. ASSUME NEW h \in ClientReads, ClientReadCompletes(h) PROVE Progress'
  BY <1>4, <1>6 DEF ClientReadCompletes, ClientReads
<1>7. ASSUME NEW h \in BackendReads, BackendReadCompletes(h) PROVE Progress'
  <2> DEFINE n == Min2(backendSent - backendRead, kDefaultBufferSize)
  <2>1. /\ UNCHANGED <<dropped, toClient, toBackend, clientEnd, backendSent>>
        /\ h \in Handlers
    BY <1>7 DEF BackendReadCompletes, BackendReads
  <2>2. CASE Completes(h, "error") /\ UNCHANGED <<buffer_, backendRead>>
    BY <1>4, <2>1, <2>2
  <2>3. CASE /\ n > 0
             /\ Completes(h, "ok")
             /\ buffer_' = Units(backendRead, n)
             /\ backendRead' = backendRead + n
    <3>1. n \in Nat /\ n <= backendSent - backendRead
      BY <1>2, SessionAssumption DEF Min2
    <3>2. Len(buffer_') = n
      BY <1>2, <2>3, <3>1, UnitsType
    <3>3. op[h] = "started" /\ op'[h] = "ok" /\ Busy(h)
          /\ \A g \in Handlers \ {h} : op'[g] = op[g]
      BY <1>3, <2>1, <2>3
    <3>4. CASE h = "read_upstream_handshake"
      <4>1. \A g \in Handlers \ {h} : op'[g] = "none"
        BY <3>3, <3>4, OnlyOperation
      <4>2. Len(buffer_') \in 1..backendSent'
        BY <1>2, <2>1, <2>3, <3>1, <3>2
      <4>3. h \in Opening /\ dropped' = 0 /\ toBackend' = <<>>
        BY <1>1, <2>1, <3>3, <3>4 DEF Answering, Opening
      <4>4. Answering'
        BY <3>4, <4>1, <4>2, <4>3 DEF Answering, Busy
      <4>5. Refusing'
        BY <3>4, <4>1 DEF Refusing, Busy
      <4>6. clientEnd' # "gone" => toClient' # <<>>
        BY <1>1, <2>1, <3>3, <3>4, OnlyOperation DEF Relaying
      <4>7. ~HoldsDownwards'
        BY <3>4, <4>1 DEF HoldsDownwards
      <4> QED BY <4>4, <4>5, <4>6, <4>7 DEF Progress, Relaying
    <3>5. CASE h = "upstream_read"
      <4>1. \A g \in Handshakes : op[g] = "none"
        BY <3>3, <3>5, RelayAlone
      <4>2. \A g \in Handshakes : op'[g] = "none"
        BY <3>3, <3>5, <4>1
      <4>3. Answering' /\ Refusing'
        BY <4>2 DEF Answering, Refusing, Busy, Opening
      <4>4. backendRead' - Len(buffer_') = backendRead
        BY <1>2, <2>3, <3>1, <3>2
      <4>5. buffer_' = Units(backendRead' - Len(buffer_'), Len(buffer_'))
        BY <2>3, <3>2, <4>4
      <4>6. clientEnd' # "gone" => toClient' # <<>>
        BY <1>1, <2>1, <4>1 DEF Relaying
      <4>7. Relaying'
        BY <4>5, <4>6 DEF Relaying, Units
      <4> QED BY <4>3, <4>7 DEF Progress
    <3> QED BY <3>4, <3>5 DEF BackendReads
  <2> QED BY <1>7, <2>2, <2>3 DEF BackendReadCompletes
<1>8. ASSUME NEW h \in ClientWrites, ClientWriteCompletes(h) PROVE Progress'
  <2>1. /\ UNCHANGED <<buffer_, dropped, backendRead, toBackend, clientEnd, backendSent>>
        /\ h \in Handlers
    BY <1>8 DEF ClientWriteCompletes, ClientWrites
  <2>2. CASE Completes(h, "error") /\ UNCHANGED toClient
    BY <1>4, <2>1, <2>2
  <2>3. CASE /\ Completes(h, "ok")
             /\ toClient' = IF clientEnd = "gone" THEN toClient
                            ELSE toClient \o ClientPayload(h)
    <3>1. op[h] = "started" /\ op'[h] = "ok" /\ Busy(h)
          /\ \A g \in Handlers \ {h} : op'[g] = op[g]
      BY <1>3, <2>1, <2>3
    <3>2. \A g \in Handlers : Busy(g)' <=> Busy(g)
      BY <3>1 DEF Busy
    <3>3. Answering'
      BY <1>1, <2>1, <3>1, <3>2 DEF Answering, Opening, ClientWrites
    <3>4. CASE h = "sendError"
      <4>1. \A g \in Handlers \ {h} : op'[g] = "none" /\ op[g] = "none"
        BY <3>1, <3>4, OnlyOperation
      <4>2. buffer_ \in {<<-200042>>, <<-210004>>} /\ Len(buffer_) = 1
        BY <1>1, <3>1, <3>4 DEF Refusing
      <4>3. clientEnd # "gone" => Len(toClient') = 2
        <5>1. clientEnd # "gone" => toClient' = toClient \o buffer_ /\ Len(toClient) = 1
          BY <1>1, <2>3, <3>1, <3>4 DEF Refusing, ClientPayload
        <5>2. Len(toClient \o buffer_) = Len(toClient) + Len(buffer_)
          BY <1>2, ConcatProperties
        <5>3. clientEnd # "gone" => Len(toClient') = Len(toClient) + 1
          BY <4>2, <5>1, <5>2
        <5> QED BY <1>2, <5>1, <5>3
      <4>4. Refusing'
        BY <2>1, <3>1, <3>4, <4>2, <4>3 DEF Refusing
      <4>5. ~HoldsDownwards'
        BY <3>4, <4>1 DEF HoldsDownwards
      <4>6. clientEnd' # "gone" => toClient' # <<>>
        BY <2>1, <4>3
      <4> QED BY <3>3, <4>4, <4>5, <4>6 DEF Progress, Relaying
    <3>5. CASE h = "echo_downstream_handshake"
      <4>1. \A g \in Handlers \ {h} : op'[g] = "none"
        BY <3>1, <3>5, OnlyOperation
      <4>2. Refusing'
        BY <3>5, <4>1 DEF Refusing, Busy
      <4>3. ~HoldsDownwards'
        BY <3>5, <4>1 DEF HoldsDownwards
      <4>4. clientEnd' # "gone" => toClient' # <<>>
        <5>1. clientEnd # "gone" => toClient' = toClient \o <<kGreeting>>
          BY <2>3, <3>5 DEF ClientPayload
        <5>2. <<kGreeting>> \in Seq(Int)
          BY DEF kGreeting
        <5>3. clientEnd # "gone" => Len(toClient') = Len(toClient) + 1
          BY <1>2, <5>1, <5>2, ConcatProperties
        <5> QED BY <1>2, <2>1, <5>3
      <4> QED BY <3>3, <4>2, <4>3, <4>4 DEF Progress, Relaying
    <3>6. CASE h = "downstream_write"
      <4>1. \A g \in Handshakes : op[g] = "none" /\ op'[g] = "none"
        BY <3>1, <3>6, RelayAlone
      <4>2. Refusing'
        BY <4>1 DEF Refusing, Busy
      <4>3. HoldsDownwards' => HoldsDownwards
        BY <3>1, <3>6 DEF HoldsDownwards
      <4>4. clientEnd # "gone" => toClient # <<>>
        BY <1>1, <4>1 DEF Relaying
      <4>5. clientEnd # "gone" => Len(toClient') = Len(toClient) + Len(buffer_)
        BY <1>2, <2>3, <3>6, ConcatProperties DEF ClientPayload
      <4>6. clientEnd' # "gone" => toClient' # <<>>
        BY <1>2, <2>1, <4>4, <4>5
      <4>7. Relaying'
        BY <1>1, <2>1, <4>3, <4>6 DEF Relaying
      <4> QED BY <3>3, <4>2, <4>7 DEF Progress
    <3> QED BY <3>4, <3>5, <3>6 DEF ClientWrites
  <2> QED BY <1>8, <2>2, <2>3 DEF ClientWriteCompletes
<1>9. ASSUME NEW h \in BackendWrites, BackendWriteCompletes(h) PROVE Progress'
  <2>1. /\ UNCHANGED <<buffer_, dropped, backendRead, toClient, clientEnd, backendSent>>
        /\ h \in Handlers
    BY <1>9 DEF BackendWriteCompletes, BackendWrites
  <2>2. CASE Completes(h, "error") /\ UNCHANGED toBackend
    BY <1>4, <2>1, <2>2
  <2>3. CASE Completes(h, "ok")
    <3>1. op[h] = "started" /\ op'[h] = "ok" /\ Busy(h)
          /\ \A g \in Handlers \ {h} : op'[g] = op[g]
      BY <1>3, <2>1, <2>3
    <3>2. \A g \in Handshakes \ {h} : op[g] = "none" /\ op'[g] = "none"
      BY <3>1, OnlyOperation, RelayAlone DEF BackendWrites
    <3>3. Answering'
      BY <1>1, <2>1, <3>1, <3>2 DEF Answering, Opening, BackendWrites, Busy
    <3>4. Refusing'
      BY <3>2 DEF Refusing, Busy, BackendWrites
    <3>5. HoldsDownwards' => HoldsDownwards
      BY <3>1 DEF HoldsDownwards, BackendWrites
    <3>6. op["echo_downstream_handshake"] = "none"
      BY <3>2 DEF BackendWrites
    <3> QED BY <1>1, <2>1, <3>3, <3>4, <3>5, <3>6 DEF Progress, Relaying
  <2> QED BY <1>9, <2>2, <2>3 DEF BackendWriteCompletes
<1> QED BY <1>5, <1>6, <1>7, <1>8, <1>9 DEF Kernel

LEMMA PeersProgress ==
  ASSUME Shape, Progress, Peers \/ UNCHANGED vars
  PROVE  Progress'
<1>1. /\ UNCHANGED <<op, buffer_, dropped, backendRead, toClient, toBackend>>
      /\ clientEnd' # "gone" => clientEnd # "gone"
      /\ backendSent' \in Nat /\ backendSent' >= backendSent
  BY DEF Peers, ClientSends, ClientCloses, BackendSends, BackendCloses, vars,
         session, network, Shape, TypeOK
<1>2. HoldsDownwards' => HoldsDownwards
  BY <1>1 DEF HoldsDownwards
<1> QED BY <1>1, <1>2, KeepsProgress

LEMMA ProgressInit == Init => Progress
<1> SUFFICES ASSUME Init PROVE Progress
  OBVIOUS
<1>1. /\ \A g \in Handlers : op[g] = IF g = "echo_downstream_handshake"
                                     THEN "started" ELSE "none"
      /\ dropped = 0 /\ toBackend = <<>>
  BY DEF Init
<1> QED BY <1>1 DEF Progress, Answering, Refusing, Relaying, HoldsDownwards, Busy,
                    Opening, Handlers, Handshakes, Downwards

\* What the handshake has done so far is known at every moment.
THEOREM ProgressKnown == Spec => []Progress
<1>1. Shape /\ WritesUncut /\ [Next]_vars => WritesUncut'
  BY WritesUncutNext
<1>2. Shape /\ WritesUncut /\ WritesUncut' /\ DownInv /\ Explained /\ Progress
        /\ [Next]_vars => Progress'
  BY HandleProgress, KernelProgress, PeersProgress DEF Next, Gone
<1> QED BY <1>1, <1>2, ProgressInit, WritesUncutInit, DownInvariant, FailuresExplained,
           ShapeInvariant, PTL DEF Spec

-----------------------------------------------------------------------------
(* Every step of the session is a step of the relay, or none *)

Relays == Promise!Next \/ UNCHANGED Promise!vars

LEMMA PhaseIs ==
  ASSUME Shape
  PROVE  /\ \A h \in Handshakes \ {"sendError"} : Busy(h) => Phase = "answering"
         /\ Busy("sendError") => Phase = "refusing"
         /\ arming \/ (\E h \in Upwards \cup Downwards : Busy(h)) => Phase = "relaying"
         /\ Phase = "over" <=> Released
<1>1. ASSUME NEW h \in Handshakes, Busy(h)
      PROVE  /\ ~Released /\ ~arming
             /\ h # "sendError" => ~Busy("sendError")
             /\ \A g \in Upwards \cup Downwards : ~Busy(g)
  <2>1. ~arming /\ \A g \in Handlers \ {h} : ~Busy(g)
    BY <1>1, OnlyOperation DEF Busy
  <2> QED BY <1>1, <2>1 DEF Released, Handlers, Handshakes, Upwards, Downwards
<1>2. "sendError" \in Handshakes
  BY DEF Handshakes
<1>3. ASSUME arming \/ \E h \in Upwards \cup Downwards : Busy(h)
      PROVE  ~Released /\ ~Busy("sendError")
  BY <1>1, <1>2, <1>3 DEF Released, Handlers
<1> QED BY <1>1, <1>2, <1>3 DEF Phase

LEMMA PhaseKept ==
  ASSUME \A g \in Handlers : Busy(g)' <=> Busy(g), arming' = arming
  PROVE  Phase' = Phase
<1>1. Released' <=> Released
  BY DEF Released
<1>2. "sendError" \in Handlers /\ Upwards \subseteq Handlers /\ Downwards \subseteq Handlers
  BY DEF Handlers, Handshakes
<1> QED BY <1>1, <1>2 DEF Phase

LEMMA PhaseAfter ==
  ASSUME NEW next \in SUBSET Handlers,
         op' = [g \in Handlers |-> IF g \in next THEN "started" ELSE "none"]
  PROVE  /\ next = {} /\ ~arming' => Phase' = "over"
         /\ next = {"sendError"} => Phase' = "refusing"
         /\ \A g \in Handshakes \ {"sendError"} :
              next = {g} /\ ~arming' => Phase' = "answering"
         /\ next = {"upstream_read"} => Phase' = "relaying"
<1>1. \A g \in Handlers : Busy(g)' <=> g \in next
  BY DEF Busy
<1>2. Released' <=> ~arming' /\ next = {}
  BY <1>1 DEF Released
<1> QED BY <1>1, <1>2 DEF Phase, Handlers, Handshakes, Upwards, Downwards

LEMMA HandleRefines ==
  ASSUME Shape, WritesUncut, Explained, Progress, Handle
  PROVE  Relays
<1> USE DEF Succeeded, Failed
<1>1. UNCHANGED network
  BY HandlersLeaveNetwork
<1>2. UNCHANGED <<Promise!peers, toClient, toBackend>>
  BY <1>1 DEF network, Promise!peers
<1>3. Answering /\ Refusing
  BY DEF Progress
<1>4. ASSUME NEW h \in Handshakes, op[h] \in Results
      PROVE  /\ h \in Handlers /\ Busy(h) /\ ~arming
             /\ h # "sendError" => Phase = "answering"
             /\ h = "sendError" => Phase = "refusing"
  BY <1>4, OnlyOperation, PhaseIs DEF Handlers, Results, Failures, Busy
<1>5. ASSUME UNCHANGED <<Phase, dropped>> PROVE Relays
  BY <1>2, <1>5 DEF Relays, Promise!vars
\* A handler of the handshake that hands over to the next one.
<1>6. ASSUME NEW h \in Handshakes \ {"sendError"}, op[h] \in Results,
             NEW g \in Handshakes \ {"sendError"}, Ran(h, {g}, {}), UNCHANGED arming
      PROVE  Phase = "answering" /\ Phase' = "answering"
  <2>1. op' = [f \in Handlers |-> IF f \in {g} THEN "started" ELSE "none"]
    BY <1>4, <1>6, HandsOn
  <2>2. {g} \in SUBSET Handlers
    BY DEF Handlers
  <2> QED BY <1>4, <1>6, <2>1, <2>2, PhaseAfter
\* ... or gives the session up.
<1>7. ASSUME NEW h \in Handshakes, op[h] \in Results, NEW c, Ran(h, {}, c),
             UNCHANGED <<arming, dropped>>,
             h # "sendError" => clientEnd # "open",
             h = "sendError" => Len(toClient) = 2 \/ clientEnd = "gone"
      PROVE  Relays
  <2>1. op' = [f \in Handlers |-> IF f \in {} THEN "started" ELSE "none"]
    BY <1>4, <1>7, HandsOn
  <2>2. Phase' = "over"
    BY <1>4, <1>7, <2>1, PhaseAfter
  <2>3. /\ Phase # "over"
        /\ Phase = "refusing" => Len(toClient) = 2 \/ clientEnd = "gone"
        /\ Phase = "answering" => clientEnd # "open"
        /\ Phase \in {"refusing", "answering"}
    BY <1>4, <1>7
  <2>4. Promise!End
    BY <1>2, <1>7, <2>2, <2>3 DEF Promise!End
  <2> QED BY <2>4 DEF Relays, Promise!Next
\* ... or refuses the client.
<1>8. ASSUME NEW h \in Handshakes \ {"sendError"}, op[h] \in Results, NEW c, NEW eid,
             sendError(h, eid, c), toBackend = <<>>
      PROVE  Relays
  <2>1. op' = [f \in Handlers |-> IF f \in {"sendError"} THEN "started" ELSE "none"]
    BY <1>4, <1>8, HandsOn DEF sendError
  <2>2. {"sendError"} \in SUBSET Handlers
    BY DEF Handlers, Handshakes
  <2>3. Phase = "answering" /\ Phase' = "refusing"
    BY <1>4, <1>8, <2>1, <2>2, PhaseAfter
  <2>4. UNCHANGED dropped
    BY <1>8 DEF sendError
  <2>5. Promise!Refuse
    BY <1>2, <1>8, <2>3, <2>4 DEF Promise!Refuse
  <2> QED BY <2>5 DEF Relays, Promise!Next
<1>9. ASSUME NEW h \in Handshakes, op[h] \in Failures PROVE op[h] = "error"
  BY <1>9 DEF Explained, Failures
<1>10. CASE echo_downstream_handshake
  <2> DEFINE h == "echo_downstream_handshake"
  <2>1. h \in Handshakes \ {"sendError"} /\ h \in ClientWrites
    BY DEF Handshakes, ClientWrites
  <2>2. CASE Failed(h) /\ Ran(h, {}, OnSocket) /\ UNCHANGED <<arming, dropped>>
    <3>1. clientEnd # "open"
      BY <1>9, <2>1, <2>2 DEF Explained
    <3> QED BY <1>7, <2>1, <2>2, <3>1 DEF Results
  <2>3. CASE Succeeded(h) /\ Ran(h, {"read_downstream_handshake"}, {})
             /\ UNCHANGED <<arming, dropped>>
    <3>1. Phase' = Phase
      BY <1>6, <2>1, <2>3 DEF Results, Handshakes
    <3> QED BY <1>5, <2>3, <3>1
  <2> QED BY <1>10, <2>2, <2>3 DEF echo_downstream_handshake, Continues
<1>11. CASE read_downstream_handshake
  <2> DEFINE h == "read_downstream_handshake"
  <2>1. h \in Handshakes \ {"sendError"} /\ h \in ClientReads /\ h \in Opening
    BY DEF Handshakes, ClientReads, Opening
  <2>2. ASSUME NEW eid, Succeeded(h), sendError(h, eid, {}) PROVE Relays
    BY <1>3, <1>4, <1>8, <2>1, <2>2 DEF Answering, Results
  <2>3. CASE Failed(h) /\ Ran(h, {}, OnSocket) /\ UNCHANGED <<arming, dropped>>
    <3>1. clientEnd # "open"
      BY <1>9, <2>1, <2>3 DEF Explained
    <3> QED BY <1>7, <2>1, <2>3, <3>1 DEF Results
  <2>4. CASE Succeeded(h) /\ Ran(h, {"async_connect_upstream"}, {})
             /\ UNCHANGED <<arming, dropped>>
    <3>1. Phase' = Phase
      BY <1>6, <2>1, <2>4 DEF Results, Handshakes
    <3> QED BY <1>5, <2>4, <3>1
  <2> QED BY <1>11, <2>2, <2>3, <2>4 DEF read_downstream_handshake
<1>12. CASE async_connect_upstream
  <2> DEFINE h == "async_connect_upstream"
  <2>1. h \in Handshakes \ {"sendError"} /\ h \in Opening
    BY DEF Handshakes, Opening
  <2>2. CASE Failed(h) /\ sendError(h, 200042, {})
    BY <1>3, <1>4, <1>8, <2>1, <2>2 DEF Answering, Results
  <2>3. CASE Succeeded(h) /\ Ran(h, {"read_upstream_handshake"}, {})
             /\ UNCHANGED <<arming, dropped>>
    <3>1. Phase' = Phase
      BY <1>6, <2>1, <2>3 DEF Results, Handshakes
    <3> QED BY <1>5, <2>3, <3>1
  <2> QED BY <1>12, <2>2, <2>3 DEF async_connect_upstream
<1>13. CASE read_upstream_handshake
  <2> DEFINE h == "read_upstream_handshake"
  <2>1. h \in Handshakes \ {"sendError"} /\ h \in Opening
    BY DEF Handshakes, Opening
  <2>2. CASE Failed(h) /\ sendError(h, 200042, {})
    BY <1>3, <1>4, <1>8, <2>1, <2>2 DEF Answering, Results
  <2>3. CASE /\ Succeeded(h) /\ Ran(h, {"echo_upstream_handshake"}, {})
             /\ dropped' = dropped + Len(buffer_) /\ UNCHANGED arming
    <3>1. Phase = "answering" /\ Phase' = "answering"
      BY <1>6, <2>1, <2>3 DEF Results, Handshakes
    <3>2. Busy(h)
      BY <1>4, <2>1, <2>3 DEF Results
    <3>3. dropped = 0 /\ toBackend = <<>> /\ Len(buffer_) \in 1..backendSent
      BY <1>3, <2>1, <2>3, <3>2 DEF Answering
    <3>4. dropped' \in 1..backendSent
      BY <2>3, <3>3
    <3>5. Promise!Skip
      BY <1>2, <3>1, <3>3, <3>4 DEF Promise!Skip
    <3> QED BY <3>5 DEF Relays, Promise!Next
  <2> QED BY <1>13, <2>2, <2>3 DEF read_upstream_handshake
<1>14. CASE echo_upstream_handshake
  <2> DEFINE h == "echo_upstream_handshake"
  <2>1. h \in Handshakes \ {"sendError"}
    BY DEF Handshakes
  <2>2. CASE Failed(h) /\ sendError(h, 200042, OnBackend)
    <3>1. op[h] = "error"
      BY <1>9, <2>1, <2>2
    <3> QED BY <1>3, <1>8, <2>1, <2>2, <3>1 DEF Answering, Results
  <2>3. CASE Succeeded(h) /\ Ran(h, {"upstream_read"}, {}) /\ UNCHANGED dropped
    <3>1. op' = [f \in Handlers |-> IF f \in {"upstream_read"} THEN "started" ELSE "none"]
      BY <1>4, <2>1, <2>3, HandsOn DEF Results
    <3>2. {"upstream_read"} \in SUBSET Handlers
      BY DEF Handlers, Downwards
    <3>3. Phase = "answering" /\ Phase' = "relaying" /\ Busy(h)
      BY <1>4, <2>1, <2>3, <3>1, <3>2, PhaseAfter DEF Results
    <3>4. Promise!Connect
      BY <1>2, <1>3, <2>3, <3>3 DEF Promise!Connect, Answering
    <3> QED BY <3>4 DEF Relays, Promise!Next
  <2> QED BY <1>14, <2>2, <2>3 DEF echo_upstream_handshake
<1>15. CASE sendError_written
  <2> DEFINE h == "sendError"
  <2>1. h \in Handshakes /\ h \in ClientWrites
    BY DEF Handshakes, ClientWrites
  <2>2. op[h] \in Results /\ Ran(h, {}, {}) /\ UNCHANGED <<arming, dropped>>
    BY <1>15 DEF sendError_written, Results
  <2>3. CASE op[h] = "ok"
    BY <1>3, <1>4, <1>7, <2>1, <2>2, <2>3 DEF Refusing
  <2>4. CASE op[h] \in Failures
    BY <1>7, <1>9, <2>1, <2>2, <2>4 DEF Explained
  <2> QED BY <2>2, <2>3, <2>4 DEF Results
\* From here on the session relays.
<1>16. ASSUME \A g \in Handshakes : op'[g] = "none"
       PROVE  Phase' \in {"relaying", "over"}
  <2>1. ASSUME NEW g \in Handlers, Busy(g)' PROVE g \in Upwards \cup Downwards
    BY <1>16, <2>1 DEF Busy, Handlers
  <2>2. ~Busy("sendError")'
    BY <1>16 DEF Busy, Handshakes
  <2> QED BY <2>1, <2>2 DEF Phase, Released
<1>17. CASE arm_downstream_read
  <2>1. arming /\ op' = [op EXCEPT !["downstream_read"] = "started"] /\ UNCHANGED dropped
    BY <1>17 DEF arm_downstream_read
  <2>2. "downstream_read" \in Handlers \ Handshakes /\ Handshakes \subseteq Handlers
    BY DEF Handlers, Handshakes, Upwards
  <2>3. \A g \in Handshakes : op'[g] = "none"
    BY <2>1, <2>2, ArmingAlone DEF Shape, TypeOK
  <2>4. ~Released'
    BY <2>1, <2>2 DEF Released, Busy, Shape, TypeOK
  <2>5. Phase = "relaying" /\ Phase' = "relaying"
    BY <1>16, <2>1, <2>3, <2>4, PhaseIs DEF Phase
  <2> QED BY <1>5, <2>1, <2>5
<1>18. ASSUME NEW h \in Upwards \cup Downwards, op[h] \in Results,
              NEW next \in SUBSET (Upwards \cup Downwards), NEW c, Ran(h, next, c),
              next = {} => Failed(h), UNCHANGED dropped
       PROVE  Relays
  <2>1. h \in Handlers /\ Busy(h) /\ h # "async_connect_upstream"
    BY <1>18 DEF Handlers, Handshakes, Upwards, Downwards, Results, Failures, Busy
  <2>2. Phase = "relaying"
    BY <2>1, PhaseIs
  <2>3. \A g \in Handshakes : op[g] = "none" /\ g \in Handlers /\ g \notin next
    BY <2>1, RelayAlone DEF Handshakes, Handlers, Upwards, Downwards
  <2>4. \A g \in Handshakes : op'[g] = "none"
    BY <1>18, <2>3 DEF Ran
  <2>5. CASE Phase' = "relaying"
    BY <1>5, <1>18, <2>2, <2>5
  <2>6. CASE Phase' = "over"
    <3>1. Released'
      BY <2>6 DEF Phase
    <3>2. \A g \in next : Busy(g)' /\ g \in Handlers
      BY <1>18 DEF Ran, Busy, Handlers
    <3>3. Failed(h)
      BY <1>18, <3>1, <3>2 DEF Released
    <3>4. clientEnd # "open" \/ backendEnd # "open"
      BY <2>1, <3>3, FailedExplained
    <3>5. Promise!End
      BY <1>2, <1>18, <2>2, <2>6, <3>4 DEF Promise!End
    <3> QED BY <3>5 DEF Relays, Promise!Next
  <2> QED BY <1>16, <2>4, <2>5, <2>6
<1>19. ASSUME NEW h \in Upwards \cup Downwards, NEW g \in Upwards \cup Downwards, NEW c,
              Continues(h, {g}, c)
       PROVE  Relays
  <2>1. CASE Succeeded(h) /\ Ran(h, {g}, {})
    BY <1>18, <1>19, <2>1 DEF Continues, Results
  <2>2. CASE Failed(h) /\ Ran(h, {}, c)
    BY <1>18, <1>19, <2>2 DEF Continues, Results
  <2> QED BY <1>19, <2>1, <2>2 DEF Continues
<1>20. CASE upstream_read \/ downstream_write \/ downstream_read \/ upstream_write
  BY <1>19, <1>20 DEF upstream_read, downstream_write, downstream_read, upstream_write,
                      Upwards, Downwards
<1> QED BY <1>10, <1>11, <1>12, <1>13, <1>14, <1>15, <1>17, <1>20 DEF Handle

LEMMA KernelPhase ==
  ASSUME Shape, Kernel
  PROVE  Phase' = Phase
<1>1. \E h \in Handlers, r \in {"ok", "error"} : Completes(h, r)
  BY KernelCompletes
<1>2. \A g \in Handlers : Busy(g)' <=> Busy(g)
  BY <1>1, CompletesBusy DEF Shape, Results, Failures
<1>3. arming' = arming
  BY DEF Kernel, ConnectCompletes, ClientReadCompletes, BackendReadCompletes,
         ClientWriteCompletes, BackendWriteCompletes
<1> QED BY <1>2, <1>3, PhaseKept

LEMMA KernelRefines ==
  ASSUME ~ShortWrites, Shape, Shape', UpInv, UpInv', DownInv, Progress, Kernel
  PROVE  Relays
<1>1. Phase' = Phase
  BY KernelPhase
<1>2. /\ backendRead \in Nat /\ backendSent \in Nat /\ backendRead <= backendSent
      /\ clientRead \in Nat /\ clientSent \in Nat /\ clientRead <= clientSent
      /\ dropped \in Nat /\ buffer_ \in Seq(Int) /\ toClient \in Seq(Int)
      /\ clt_buffer_ \in Seq(Int) /\ toBackend \in Seq(Int) /\ toBackend' \in Seq(Int)
  BY DEF Shape, TypeOK
<1>3. Answering /\ Refusing /\ Relaying
  BY DEF Progress
<1>4. ASSUME UNCHANGED <<dropped, clientEnd, backendEnd, clientSent, backendSent,
                         toClient, toBackend>>
      PROVE  Relays
  BY <1>1, <1>4 DEF Relays, Promise!vars, Promise!peers
<1>5. CASE ConnectCompletes
  BY <1>4, <1>5 DEF ConnectCompletes
<1>6. ASSUME NEW h \in ClientReads, ClientReadCompletes(h) PROVE Relays
  BY <1>4, <1>6 DEF ClientReadCompletes
<1>7. ASSUME NEW h \in BackendReads, BackendReadCompletes(h) PROVE Relays
  BY <1>4, <1>7 DEF BackendReadCompletes
<1>8. ASSUME NEW h \in ClientWrites, ClientWriteCompletes(h) PROVE Relays
  <2>1. /\ UNCHANGED <<dropped, Promise!peers, toBackend>>
        /\ UNCHANGED <<clientEnd, backendEnd, clientSent, backendSent>>
    BY <1>8 DEF ClientWriteCompletes, Promise!peers
  <2>2. CASE UNCHANGED toClient
    BY <1>4, <2>1, <2>2
  <2>3. CASE /\ clientEnd # "gone" /\ Completes(h, "ok")
             /\ toClient' = toClient \o ClientPayload(h)
    <3>1. op[h] = "started" /\ Busy(h)
      BY <2>3 DEF Completes, Busy
    <3>2. CASE h = "echo_downstream_handshake"
      <4>1. toClient = <<>>
        BY <1>2, <2>3, <3>1, <3>2 DEF DownInv
      <4>2. toClient' = <<kGreeting>>
        BY <2>3, <3>2, <4>1 DEF ClientPayload
      <4>3. Phase = "answering"
        BY <3>1, <3>2, PhaseIs DEF Handshakes
      <4>4. Promise!Greet
        BY <1>1, <2>1, <4>1, <4>2, <4>3 DEF Promise!Greet
      <4> QED BY <4>4 DEF Relays, Promise!Next
    <3>3. CASE h = "sendError"
      <4>1. Phase = "refusing" /\ Len(toClient) = 1
        BY <1>3, <2>3, <3>1, <3>3, PhaseIs DEF Refusing
      <4>2. PICK eid \in {200042, 210004} : buffer_ = <<-eid>>
        BY <1>3, <3>1, <3>3 DEF Refusing
      <4>3. toClient' = Append(toClient, -eid)
        BY <1>2, <2>3, <3>3, <4>2, AppendIsConcat DEF ClientPayload
      <4>4. Promise!TellFailure
        BY <1>1, <2>1, <4>1, <4>3 DEF Promise!TellFailure
      <4> QED BY <4>4 DEF Relays, Promise!Next
    <3>4. CASE h = "downstream_write"
      <4>1. Phase = "relaying" /\ h \in Downwards /\ HoldsDownwards
        BY <3>1, <3>4, PhaseIs DEF Downwards, HoldsDownwards
      <4>2. toClient' = toClient \o buffer_
        BY <2>3, <3>4 DEF ClientPayload
      <4>3. toClient # <<>>
        <5>1. "echo_downstream_handshake" \in Handshakes
          BY DEF Handshakes
        <5>2. op["echo_downstream_handshake"] = "none"
          BY <3>1, <4>1, <5>1, RelayAlone
        <5> QED BY <1>3, <2>3, <5>2 DEF Relaying
      <4> DEFINE n == Len(buffer_)
                 m == Len(toClient)
      <4>4. n \in Nat /\ m \in Nat
        BY <1>2
      <4>5. buffer_ = Units(backendRead - n, n)
        BY <1>3, <4>1 DEF Relaying
      <4>6. backendRead - dropped = m - 1 + n
        BY <2>3, <3>1, <4>1 DEF DownInv, Count
      <4> HIDE DEF n, m
      <4>7. backendRead - n = dropped + m - 1
        BY <1>2, <4>4, <4>6
      <4>8. buffer_ = [i \in 1..n |-> dropped + m - 1 + i]
        BY <4>5, <4>7 DEF Units
      <4>9. n <= backendSent - (dropped + m - 1)
        BY <1>2, <4>4, <4>7
      <4>10. CASE n = 0
        <5>1. buffer_ = <<>>
          BY <1>2, <4>10 DEF n
        <5>2. toClient' = toClient
          BY <1>2, <4>2, <5>1
        <5> QED BY <1>4, <2>1, <5>2
      <4>11. CASE n # 0
        <5>1. n \in 1 .. backendSent - (dropped + m - 1)
          BY <1>2, <4>4, <4>9, <4>11
        <5>2. toClient' = toClient \o [i \in 1..n |-> dropped + m - 1 + i]
          BY <4>2, <4>8
        <5>3. Promise!GiveClient
          BY <1>1, <2>1, <2>3, <4>1, <4>3, <5>1, <5>2 DEF Promise!GiveClient, m
        <5> QED BY <5>3 DEF Relays, Promise!Next
      <4> QED BY <4>10, <4>11
    <3> QED BY <3>2, <3>3, <3>4 DEF ClientWrites
  <2> QED BY <1>8, <2>2, <2>3 DEF ClientWriteCompletes
<1>9. ASSUME NEW h \in BackendWrites, BackendWriteCompletes(h) PROVE Relays
  <2>1. /\ UNCHANGED <<dropped, Promise!peers, toClient>>
        /\ UNCHANGED <<clientEnd, backendEnd, clientSent, backendSent>>
        /\ op[h] = "started" /\ Busy(h) /\ h \in Up
    BY <1>9 DEF BackendWriteCompletes, Completes, Promise!peers, Busy, BackendWrites, Up,
                Handshakes, Upwards
  <2>2. CASE toBackend' = toBackend
    BY <1>4, <2>1, <2>2
  <2>3. CASE toBackend' # toBackend
    <3>1. backendEnd # "gone" /\ BackendPayload(h) = clt_buffer_
      BY <1>9, <2>1, <2>3, BackendPayloadKept DEF BackendWriteCompletes
    <3>2. toBackend' = toBackend \o clt_buffer_
      <4>1. \E k \in Taken(h, Len(clt_buffer_)) :
              toBackend' = toBackend \o SubSeq(clt_buffer_, 1, k)
        BY <1>9, <2>3, <3>1 DEF BackendWriteCompletes
      <4>2. Taken(h, Len(clt_buffer_)) = {Len(clt_buffer_)}
        BY DEF Taken
      <4>3. SubSeq(clt_buffer_, 1, Len(clt_buffer_)) = clt_buffer_
        BY <1>2
      <4> QED BY <4>1, <4>2, <4>3
    <3>3. HoldsUpwards
      BY <1>9, <2>1 DEF HoldsUpwards, BackendWrites
    <3>4. clientRead = Len(toBackend) + Len(clt_buffer_)
      BY <3>1, <3>3 DEF UpInv, HeldContinues
    <3>5. Len(toBackend') = Len(toBackend) + Len(clt_buffer_)
      BY <1>2, <3>2, ConcatProperties
    <3>6. Len(clt_buffer_) # 0
      BY <1>2, <2>3, <3>2
    <3>7. Len(toBackend') \in Len(toBackend) + 1 .. clientSent
      <4>1. Len(toBackend) \in Nat /\ Len(clt_buffer_) \in Nat
        BY <1>2
      <4> QED BY <1>2, <3>4, <3>5, <3>6, <4>1
    <3>8. toBackend' = [i \in 1..Len(toBackend') |-> i]
      <4>1. /\ DOMAIN toBackend' = 1..Len(toBackend')
            /\ toBackend' = [i \in DOMAIN toBackend' |-> toBackend'[i]]
        BY <1>2
      <4>2. \A i \in DOMAIN toBackend' : toBackend'[i] = i
        BY DEF UpInv, ToBackendFaithful
      <4> QED BY <4>1, <4>2
    <3>9. Phase \in {"answering", "relaying"} /\ (Phase = "answering" => dropped > 0)
      <4>1. CASE h = "echo_upstream_handshake"
        BY <1>3, <2>1, <4>1, PhaseIs DEF Answering, Handshakes
      <4>2. CASE h = "upstream_write"
        BY <2>1, <4>2, PhaseIs DEF Upwards
      <4> QED BY <4>1, <4>2 DEF BackendWrites
    <3>10. Promise!GiveBackend
      BY <1>1, <2>1, <3>1, <3>7, <3>8, <3>9 DEF Promise!GiveBackend
    <3> QED BY <3>10 DEF Relays, Promise!Next
  <2> QED BY <2>2, <2>3
<1> QED BY <1>5, <1>6, <1>7, <1>8, <1>9 DEF Kernel

LEMMA PeersRefine == ASSUME Shape, Peers PROVE Relays
<1>1. UNCHANGED <<op, arming, dropped, toClient, toBackend>> /\ ~Released
  BY DEF Peers, ClientSends, ClientCloses, BackendSends, BackendCloses, session
<1>2. Phase' = Phase /\ Phase # "over"
  <2>1. \A g \in Handlers : Busy(g)' <=> Busy(g)
    BY <1>1 DEF Busy
  <2> QED BY <1>1, <2>1, PhaseKept, PhaseIs
<1>3. clientSent \in Nat /\ backendSent \in Nat
  BY DEF Shape, TypeOK
<1>4. CASE ClientSends \/ ClientCloses
  <2>1. Promise!ClientActs
    BY <1>1, <1>2, <1>3, <1>4, SessionAssumption
       DEF ClientSends, ClientCloses, Promise!ClientActs, Promise!Shuts, Shape, TypeOK, Ends
  <2> QED BY <2>1 DEF Relays, Promise!Next
<1>5. CASE BackendSends \/ BackendCloses
  <2>1. Promise!BackendActs
    BY <1>1, <1>2, <1>3, <1>5, SessionAssumption
       DEF BackendSends, BackendCloses, Promise!BackendActs, Promise!Shuts, Shape, TypeOK, Ends
  <2> QED BY <2>1 DEF Relays, Promise!Next
<1> QED BY <1>4, <1>5 DEF Peers

LEMMA InitRefines == Init => Promise!Init
<1> SUFFICES ASSUME Init PROVE Promise!Init
  OBVIOUS
<1>1. /\ \A g \in Handlers : Busy(g) <=> g = "echo_downstream_handshake"
      /\ ~arming
  BY DEF Init, Busy
<1>2. Phase = "answering"
  BY <1>1 DEF Phase, Released, Handlers, Handshakes, Upwards, Downwards
<1> QED BY <1>2 DEF Init, Promise!Init

\* The session implements the relay: whatever its completions, errors and cancels
\* do to each other, its peers see two reliable streams, of which nothing but a
\* prefix of one is swallowed, a refusal only of a request that the storage
\* machine has not seen, and an end only when one of them has closed.
THEOREM SessionRefinesRelay == ASSUME ~ShortWrites PROVE Spec => RefinesRelay
<1>1. ASSUME Shape, Shape', WritesUncut, UpInv, UpInv', DownInv, Explained, Progress,
             [Next]_vars
      PROVE  [Promise!Next]_Promise!vars
  <2>1. CASE Handle
    BY <1>1, <2>1, HandleRefines DEF Relays
  <2>2. CASE Kernel
    BY <1>1, <2>2, KernelRefines DEF Relays
  <2>3. CASE Peers
    BY <1>1, <2>3, PeersRefine DEF Relays
  <2>4. CASE UNCHANGED vars
    BY <2>4 DEF vars, session, network, Phase, Released, Busy, Promise!vars, Promise!peers
  <2> QED BY <1>1, <2>1, <2>2, <2>3, <2>4 DEF Next, Gone
<1>2. Shape /\ WritesUncut /\ [Next]_vars => WritesUncut'
  BY WritesUncutNext
<1> QED BY <1>1, <1>2, InitRefines, WritesUncutInit, ShapeInvariant, UpInvariant,
           DownInvariant, FailuresExplained, ProgressKnown, PTL DEF Spec, RefinesRelay, Promise!Spec

=============================================================================
