-------------------------- MODULE SubversionServer --------------------------
(***************************************************************************)
(* The server: one acceptor, any number of sessions, and a pool of threads *)
(* that all run io_service::run.  A handler that is ready waits in the     *)
(* queue of the io_service until a thread takes it.                        *)
(*                                                                         *)
(* A session is seen from outside: its stage and its one outstanding       *)
(* operation (the two directions of the relay count as one); what it reads *)
(* and writes is the business of SubversionSession.  It is an object that  *)
(* lives as long as new_connection_ or an operation refers to it, and its  *)
(* address may be used again.  Sessions share the process's descriptors: a *)
(* client's socket takes one, the socket to the storage machine another.   *)
(***************************************************************************)
EXTENDS Integers, Sequences, FiniteSets, SequencesExt

CONSTANTS
  Clients, NoClient,
  Threads,       \* the pool
  Addresses,     \* where session objects may lie
  Descriptors,   \* how many sockets the process may have
  Exceptions     \* whether clients bring handlers to throw

ASSUME NoClientAssumption == NoClient \notin Clients

ASSUME DescriptorsAssumption == Descriptors \in Nat \ {0}

\* Every session with a client holds a descriptor; besides there are the one
\* prepared for the next client and the one that takes its place.
ASSUME AddressesAssumption == Cardinality(Addresses) >= Descriptors + 2

VARIABLES
  client,     \* "away", "waiting", "here" or "gone"
  backlog,    \* connections the kernel holds for the acceptor
  queue,      \* handlers that are ready
  running,    \* what each thread runs
  accepting,  \* async_accept is outstanding
  new_connection,
  live,       \* addresses that hold a session
  stage, op, peer, backend,   \* of each session
  up          \* the process runs

vars == <<client, backlog, queue, running, accepting, new_connection,
          live, stage, op, peer, backend, up>>

Idle == <<"idle">>
AcceptJobs == {<<"handle_accept", "success">>, <<"handle_accept", "error">>}
Jobs == AcceptJobs \cup {<<"session", s>> : s \in Addresses}
Stages == {"new", "greeting", "reading", "connecting", "relaying", "refusing"}

InUse == Cardinality({s \in live : peer[s] # NoClient})
         + Cardinality({s \in live : backend[s]})
AtLimit == InUse >= Descriptors

-----------------------------------------------------------------------------
(* Clients and the kernel *)

Connect(c) ==
  /\ up /\ client[c] = "away"
  /\ client' = [client EXCEPT ![c] = "waiting"]
  /\ backlog' = Append(backlog, c)
  /\ UNCHANGED <<queue, running, accepting, new_connection, live, stage, op, peer,
                 backend, up>>

\* A client may go before it is accepted; its connection is accepted all the same.
HangUp(c) ==
  /\ up /\ client[c] \in {"waiting", "here"}
  /\ client' = [client EXCEPT ![c] = "gone"]
  /\ UNCHANGED <<backlog, queue, running, accepting, new_connection, live, stage,
                 op, peer, backend, up>>

\* accept(2): at the limit it fails, whether or not somebody waits.
AcceptCompletes ==
  /\ up /\ accepting
  /\ accepting' = FALSE
  /\ \/ /\ AtLimit
        /\ queue' = Append(queue, <<"handle_accept", "error">>)
        /\ UNCHANGED <<client, backlog, peer>>
     \/ /\ ~AtLimit /\ backlog # <<>>
        /\ LET c == Head(backlog) IN
           /\ peer' = [peer EXCEPT ![new_connection] = c]
           /\ client' = [client EXCEPT ![c] = IF @ = "waiting" THEN "here" ELSE @]
        /\ backlog' = Tail(backlog)
        /\ queue' = Append(queue, <<"handle_accept", "success">>)
  /\ UNCHANGED <<running, new_connection, live, stage, op, backend, up>>

\* The peer has answered, or is gone.
OpCompletes(s) ==
  /\ up /\ op[s] = "outstanding"
  /\ op' = [op EXCEPT ![s] = "queued"]
  /\ queue' = Append(queue, <<"session", s>>)
  /\ UNCHANGED <<client, backlog, running, accepting, new_connection, live, stage,
                 peer, backend, up>>

\* A thread of the pool in io_service::run takes the first handler.
Dispatch(t) ==
  /\ up /\ running[t] = Idle /\ queue # <<>>
  /\ running' = [running EXCEPT ![t] = Head(queue)]
  /\ queue' = Tail(queue)
  /\ UNCHANGED <<client, backlog, accepting, new_connection, live, stage, op, peer,
                 backend, up>>

-----------------------------------------------------------------------------
(* handle_accept *)

\* An exception that leaves a handler leaves io_service::run and the thread.
Throws ==
  /\ up' = FALSE
  /\ UNCHANGED <<client, backlog, queue, running, accepting, new_connection, live,
                 stage, op, peer, backend>>

\* new_connection_->start() writes the greeting.  set_option throws on a
\* connection that was reset.
start(t) ==
  LET s == new_connection IN
  /\ up /\ running[t] = <<"handle_accept", "success">>
  /\ \/ Exceptions /\ client[peer[s]] = "gone" /\ Throws
     \/ /\ stage' = [stage EXCEPT ![s] = "greeting"]
        /\ op' = [op EXCEPT ![s] = "outstanding"]
        /\ running' = [running EXCEPT ![t] = <<"start_accept">>]
        /\ UNCHANGED <<client, backlog, queue, accepting, new_connection, live, peer,
                       backend, up>>

\* Fault: a failed accept ends the loop.
after_error_Returns(t) ==
  /\ up /\ running[t] = <<"handle_accept", "error">>
  /\ running' = [running EXCEPT ![t] = Idle]
  /\ UNCHANGED <<client, backlog, queue, accepting, new_connection, live, stage, op,
                 peer, backend, up>>

\* if (!e): nothing is started, the next accept is.
after_error(t) ==
  /\ up /\ running[t] = <<"handle_accept", "error">>
  /\ running' = [running EXCEPT ![t] = <<"start_accept">>]
  /\ UNCHANGED <<client, backlog, queue, accepting, new_connection, live, stage, op,
                 peer, backend, up>>

\* Fault: the next client is accepted into the session of the last one.
start_accept_NoReset(t) ==
  /\ up /\ running[t] = <<"start_accept">>
  /\ accepting' = TRUE
  /\ running' = [running EXCEPT ![t] = Idle]
  /\ UNCHANGED <<client, backlog, queue, new_connection, live, stage, op, peer,
                 backend, up>>

\* The sockets of s are closed with it; the objects in more are new.
Destroy(s, more) ==
  /\ live' = (live \ {s}) \cup more
  /\ stage' = [stage EXCEPT ![s] = "new"]
  /\ peer' = [peer EXCEPT ![s] = NoClient]
  /\ backend' = [backend EXCEPT ![s] = FALSE]

Keep(more) == live' = live \cup more /\ UNCHANGED <<stage, peer, backend>>

\* Fault: the session is destroyed with the acceptor's reference to it.
LastReference_Any(s) == TRUE

\* Fault: the session of a failed accept is kept.
LastReference_Never(s) == FALSE

\* Nothing but new_connection_ refers to s.
LastReference(s) == op[s] = "none"

\* The allocator finds room for a session; which, makes no difference.
Fresh == CHOOSE s \in Addresses : s \notin live

\* new_connection_.reset(new SubversionSession(...)), then async_accept.
start_accept(t) ==
  /\ up /\ running[t] = <<"start_accept">>
  /\ IF LastReference(new_connection)
     THEN Destroy(new_connection, {Fresh}) ELSE Keep({Fresh})
  /\ new_connection' = Fresh
  /\ accepting' = TRUE
  /\ running' = [running EXCEPT ![t] = Idle]
  /\ UNCHANGED <<client, backlog, queue, op, up>>

-----------------------------------------------------------------------------
(* The handlers of a session *)

Here(s) == client[peer[s]] = "here"

\* Go to stage st with a new operation; the second socket is open if b.
Continues(s, st, b) ==
  /\ stage' = [stage EXCEPT ![s] = st]
  /\ op' = [op EXCEPT ![s] = "outstanding"]
  /\ backend' = [backend EXCEPT ![s] = b]
  /\ UNCHANGED <<client, live, peer>>

\* No operation is started: the object goes, unless new_connection_ still has it.
EndsSession(s) ==
  /\ op' = [op EXCEPT ![s] = "none"]
  /\ IF new_connection = s THEN Keep({}) ELSE Destroy(s, {})
  /\ client' = [client EXCEPT ![peer[s]] = "away"]

\* Fault: a storage machine that gets no socket is tried again.
connect_Again(s) ==
  Continues(s, IF AtLimit THEN "reading" ELSE "connecting", ~AtLimit)

\* async_connect opens the second socket; without a descriptor it fails.
connect(s) == Continues(s, "connecting", ~AtLimit)

\* The handler of the operation of s.  A handshake that is no good, a storage
\* machine that is not there and the end of the relay are possible at any time.
\* A client that has gone may have sent its handshake before; the relay finds out.
RunSession(t, s) ==
  /\ up /\ running[t] = <<"session", s>>
  /\ \/ ~Here(s) /\ EndsSession(s)
     \/ stage[s] = "greeting" /\ Continues(s, "reading", FALSE)
     \/ stage[s] = "reading" /\ connect(s)
     \/ stage[s] \in {"reading", "connecting"} /\ Continues(s, "refusing", backend[s])
     \/ stage[s] = "connecting" /\ backend[s] /\ Continues(s, "relaying", TRUE)
     \/ Here(s) /\ stage[s] = "relaying" /\ Continues(s, "relaying", TRUE)
     \/ Here(s) /\ stage[s] \in {"relaying", "refusing"} /\ EndsSession(s)
  /\ running' = [running EXCEPT ![t] = Idle]
  /\ UNCHANGED <<backlog, queue, accepting, new_connection, up>>

\* The handshake claims a length below zero: assign, in ParseSubversionHds, throws.
read_throws(t, s) ==
  /\ up /\ running[t] = <<"session", s>> /\ stage[s] = "reading"
  /\ Exceptions /\ Throws

-----------------------------------------------------------------------------
Init ==
  /\ client = [c \in Clients |-> "away"]
  /\ backlog = <<>> /\ queue = <<>>
  /\ running = [t \in Threads |-> Idle]
  /\ accepting = TRUE
  /\ new_connection = (CHOOSE s \in Addresses : TRUE) /\ live = {new_connection}
  /\ stage = [s \in Addresses |-> "new"]
  /\ op = [s \in Addresses |-> "none"]
  /\ peer = [s \in Addresses |-> NoClient]
  /\ backend = [s \in Addresses |-> FALSE]
  /\ up = TRUE

ThreadStep(t) ==
  \/ Dispatch(t) \/ start(t) \/ after_error(t) \/ start_accept(t)
  \/ \E s \in Addresses : RunSession(t, s) \/ read_throws(t, s)

Next ==
  \/ \E c \in Clients : Connect(c) \/ HangUp(c)
  \/ AcceptCompletes
  \/ \E s \in Addresses : OpCompletes(s)
  \/ \E t \in Threads : ThreadStep(t)

Spec == Init /\ [][Next]_vars

Relayed(c) == \E s \in live : peer[s] = c /\ stage[s] = "relaying"

\* Threads are scheduled, peers answer or go, and a client that is connected to
\* its storage machine goes when it has what it wants.
FairSpec ==
  /\ Spec
  /\ WF_vars(AcceptCompletes)
  /\ \A t \in Threads : WF_vars(ThreadStep(t))
  /\ \A s \in Addresses : WF_vars(OpCompletes(s))
  /\ \A c \in Clients : WF_vars(Relayed(c) /\ HangUp(c))

-----------------------------------------------------------------------------
(* Properties *)

\* The sorts of the state; new_connection_ always refers to a session that lives.
TypeOK ==
  /\ client \in [Clients -> {"away", "waiting", "here", "gone"}]
  /\ live \subseteq Addresses /\ new_connection \in live
  /\ stage \in [Addresses -> Stages] /\ backend \in [Addresses -> BOOLEAN]
  /\ op \in [Addresses -> {"none", "outstanding", "queued"}]
  /\ peer \in [Addresses -> Clients \cup {NoClient}]
  /\ accepting \in BOOLEAN /\ up \in BOOLEAN
  /\ backlog \in Seq(Clients) /\ queue \in Seq(Jobs)
  /\ running \in [Threads -> Jobs \cup {<<"start_accept">>, Idle}]

\* A session that has an operation outstanding, queued or being handled has not
\* been destroyed: shared_from_this() in every bind keeps it when handle_accept
\* drops new_connection_, in whatever order the threads of the pool run.
SessionOutlivesItsHandlers ==
  \A s \in Addresses :
    \/ op[s] # "none"
    \/ <<"session", s>> \in ToSet(queue) \cup {running[t] : t \in Threads}
    => s \in live

\* While an accept is outstanding the session it fills is fresh: nothing runs on
\* it and it has no client, so that no client gets another one's session.
AcceptsIntoFreshSession ==
  accepting => /\ op[new_connection] = "none"
               /\ peer[new_connection] = NoClient
               /\ stage[new_connection] = "new"

\* No client is served by two sessions, and every live session but the prepared
\* one is kept by an operation: no object and no descriptor is leaked, and there
\* are never more sockets than the process may have.
NothingLeaked ==
  /\ InUse <= Descriptors
  /\ \A s \in live : s = new_connection \/ op[s] # "none"
  /\ \A r, s \in live : r # s /\ peer[r] = peer[s] => peer[r] = NoClient

\* A client that waits is accepted, though others fill the process to its limit
\* of descriptors and accept fails again and again, unless the process is gone.
WaitingAccepted ==
  \A c \in Clients : client[c] = "waiting" ~> client[c] # "waiting" \/ ~up

\* A session ends, and gives its descriptors back, also when there is none left
\* for its storage machine.
SessionsEnd ==
  \A s \in Addresses : stage[s] # "new" /\ s \in live ~> s \notin live \/ ~up
=============================================================================
