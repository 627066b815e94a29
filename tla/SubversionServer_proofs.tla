---------------------- MODULE SubversionServer_proofs ----------------------
(***************************************************************************)
(* Proofs about the server, for any clients, pool of threads and limit of  *)
(* descriptors.                                                            *)
(*                                                                         *)
(* What keeps sessions apart is that there is one accept at a time and one *)
(* handler of a session at a time, wherever it is: outstanding, in the     *)
(* queue, or with a thread.  IInv says so (Chains), and what the accept    *)
(* and the handlers may rely on at each of these places.                   *)
(***************************************************************************)
EXTENDS SubversionServer, FiniteSetTheorems, TLAPS

(* The inductive invariant *)

\* The steps of handle_accept, from the completion to the next accept.
AcceptSteps == AcceptJobs \cup {<<"start_accept">>}
SuccessJob  == {<<"handle_accept", "success">>}
Handler(s)  == {<<"session", s>>}

\* No job in J is queued or run.
NoneOf(J) ==
  /\ \A i \in 1..Len(queue) : queue[i] \notin J
  /\ \A t \in Threads : running[t] \notin J

\* At most one is.
OneOf(J) ==
  /\ \A i, k \in 1..Len(queue) : queue[i] \in J /\ queue[k] \in J => i = k
  /\ \A t, u \in Threads : running[t] \in J /\ running[u] \in J => t = u
  /\ \A i \in 1..Len(queue), t \in Threads : ~(queue[i] \in J /\ running[t] \in J)

AcceptChain  == OneOf(AcceptSteps) /\ (accepting => NoneOf(AcceptSteps))
HandlerChain == \A s \in Addresses :
                  OneOf(Handler(s)) /\ (op[s] # "queued" => NoneOf(Handler(s)))
Chains == AcceptChain /\ HandlerChain

\* Until start() nothing is started on the session that new_connection_ refers to.
Prepared == ~NoneOf(AcceptJobs) => op[new_connection] = "none"

\* An address that holds no session has nothing of the last one.
Clean == \A s \in Addresses : s \notin live =>
           op[s] = "none" /\ stage[s] = "new" /\ peer[s] = NoClient /\ ~backend[s]

\* A session that works has a client, one that relays a storage machine, and one
\* that new_connection_ does not refer to has work.
Served == \A s \in Addresses : op[s] # "none" => peer[s] # NoClient
Relays == \A s \in Addresses : stage[s] = "relaying" => backend[s]
Kept   == \A s \in live : s = new_connection \/ op[s] # "none"

\* Client c is not in a session, but for one that has ended and that
\* new_connection_ still refers to.
Outside(c) == \A s \in live : peer[s] = c => s = new_connection /\ ~accepting /\ op[s] = "none"

\* A client that has been accepted is nowhere else yet.
Accepted == ~NoneOf(SuccessJob) =>
              /\ peer[new_connection] # NoClient
              /\ client[peer[new_connection]] # "away"
              /\ \A i \in 1..Len(backlog) : backlog[i] # peer[new_connection]

\* A client waits once, or is in one session, or is away.
Apart ==
  /\ \A i, k \in 1..Len(backlog) : backlog[i] = backlog[k] => i = k
  /\ \A i \in 1..Len(backlog) : client[backlog[i]] # "away" /\ Outside(backlog[i])
  /\ \A c \in Clients : client[c] = "away" => Outside(c)
  /\ \A r, s \in live : r # s /\ peer[r] = peer[s] => peer[r] = NoClient

Bounded == IsFiniteSet(live) /\ InUse <= Descriptors

IInv == TypeOK /\ Chains /\ Prepared /\ Clean /\ Served /\ Relays /\ Kept
        /\ Accepted /\ Apart /\ Bounded /\ AcceptsIntoFreshSession

-----------------------------------------------------------------------------
(* Jobs and how they move *)

\* The steps of handle_accept, the handlers of different sessions and an idle
\* thread are told apart.
LEMMA JobsDiffer ==
  /\ Idle \notin AcceptSteps /\ Idle \notin Jobs
  /\ <<"start_accept">> \notin Jobs
  /\ \A s : Handler(s) \cap (AcceptSteps \cup {Idle}) = {}
  /\ \A r, s : <<"session", r>> \in Handler(s) => r = s
  /\ \A s \in Addresses : <<"session", s>> \in Jobs
  /\ AcceptJobs \subseteq Jobs
BY DEF Idle, AcceptSteps, AcceptJobs, Jobs, Handler

\* A job that becomes ready.
LEMMA Appended ==
  ASSUME TypeOK, NEW j \in Jobs, queue' = Append(queue, j), running' = running, NEW J
  PROVE  /\ j \notin J /\ OneOf(J) => OneOf(J)'
         /\ j \notin J /\ NoneOf(J) => NoneOf(J)'
         /\ NoneOf(J) => OneOf(J)'
  <1>1. /\ queue \in Seq(Jobs) /\ Len(queue') = Len(queue) + 1 /\ Len(queue) \in Nat
        /\ queue'[Len(queue) + 1] = j
        /\ \A i \in 1..Len(queue) : queue'[i] = queue[i]
    BY DEF TypeOK
  <1> QED BY <1>1 DEF OneOf, NoneOf

\* A thread takes the first job.
LEMMA Taken ==
  ASSUME TypeOK, NEW t \in Threads, running[t] = Idle, queue # <<>>,
         running' = [running EXCEPT ![t] = Head(queue)], queue' = Tail(queue),
         NEW J, Idle \notin J
  PROVE  /\ OneOf(J) => OneOf(J)'
         /\ NoneOf(J) => NoneOf(J)'
  <1>1. /\ queue \in Seq(Jobs) /\ Len(queue) \in Nat \ {0} /\ Len(queue') = Len(queue) - 1
        /\ Head(queue) = queue[1]
        /\ \A i \in 1..Len(queue') : queue'[i] = queue[i + 1]
    BY DEF TypeOK
  <1>2. /\ running'[t] = queue[1]
        /\ \A u \in Threads \ {t} : running'[u] = running[u]
    BY <1>1 DEF TypeOK
  <1>3. \A i \in 1..Len(queue') : i + 1 \in 1..Len(queue) /\ i + 1 # 1
    BY <1>1
  <1>4. 1 \in 1..Len(queue)
    BY <1>1
  <1>5. NoneOf(J) => NoneOf(J)'
    BY <1>1, <1>2, <1>3, <1>4 DEF NoneOf
  <1>6. ASSUME OneOf(J) PROVE OneOf(J)'
    <2>1. \A i, k \in 1..Len(queue') : queue'[i] \in J /\ queue'[k] \in J => i = k
      BY <1>1, <1>3, <1>6 DEF OneOf
    <2>2. \A u, v \in Threads : running'[u] \in J /\ running'[v] \in J => u = v
      BY <1>2, <1>4, <1>6 DEF OneOf
    <2>3. \A i \in 1..Len(queue'), u \in Threads : ~(queue'[i] \in J /\ running'[u] \in J)
      BY <1>1, <1>2, <1>3, <1>4, <1>6 DEF OneOf
    <2> QED BY <2>1, <2>2, <2>3 DEF OneOf
  <1> QED BY <1>5, <1>6

\* A thread goes on with j, or is idle again.
LEMMA GoesOn ==
  ASSUME TypeOK, NEW t \in Threads, NEW j, running' = [running EXCEPT ![t] = j],
         queue' = queue, NEW J
  PROVE  /\ OneOf(J) /\ (j \in J => running[t] \in J) => OneOf(J)'
         /\ NoneOf(J) /\ j \notin J => NoneOf(J)'
         /\ OneOf(J) /\ running[t] \in J /\ j \notin J => NoneOf(J)'
  <1>1. /\ running'[t] = j
        /\ \A u \in Threads \ {t} : running'[u] = running[u]
    BY DEF TypeOK
  <1> QED BY <1>1 DEF OneOf, NoneOf

-----------------------------------------------------------------------------
(* Counting sockets *)

\* A set with at most one new element has at most one element more.
LEMMA AtMost ==
  ASSUME NEW S, IsFiniteSet(S), NEW T, NEW x
  PROVE  /\ Cardinality(S) \in Nat
         /\ T \subseteq S => IsFiniteSet(T) /\ Cardinality(T) \in Nat
                              /\ Cardinality(T) <= Cardinality(S)
         /\ T \subseteq S \cup {x} => IsFiniteSet(T) /\ Cardinality(T) \in Nat
                                      /\ Cardinality(T) <= Cardinality(S) + 1
  <1>1. Cardinality(S) \in Nat
    BY FS_CardinalityType
  <1>2. /\ IsFiniteSet(S \cup {x})
        /\ Cardinality(S \cup {x}) = Cardinality(S) \/ Cardinality(S \cup {x}) = Cardinality(S) + 1
    BY FS_AddElement
  <1>3. Cardinality(S \cup {x}) <= Cardinality(S) + 1
    BY <1>1, <1>2
  <1>4. T \subseteq S => IsFiniteSet(T) /\ Cardinality(T) <= Cardinality(S)
    BY FS_Subset
  <1>5. T \subseteq S \cup {x} => IsFiniteSet(T) /\ Cardinality(T) <= Cardinality(S \cup {x})
    BY <1>2, FS_Subset
  <1>6. IsFiniteSet(T) => Cardinality(T) \in Nat
    BY FS_CardinalityType
  <1>7. Cardinality(S \cup {x}) \in Nat
    BY <1>2, FS_CardinalityType
  <1> QED BY <1>1, <1>3, <1>4, <1>5, <1>6, <1>7

Callers  == {s \in live : peer[s] # NoClient}
Backends == {s \in live : backend[s]}

\* The sockets in use are those of the clients and those of the storage machines.
LEMMA InUseType ==
  ASSUME IsFiniteSet(live)
  PROVE  /\ IsFiniteSet(Callers) /\ IsFiniteSet(Backends)
         /\ Cardinality(Callers) \in Nat /\ Cardinality(Backends) \in Nat
         /\ InUse = Cardinality(Callers) + Cardinality(Backends) /\ InUse \in Nat
  <1>1. Callers \subseteq live /\ Backends \subseteq live
    BY DEF Callers, Backends
  <1>2. /\ IsFiniteSet(Callers) /\ IsFiniteSet(Backends)
        /\ Cardinality(Callers) \in Nat /\ Cardinality(Backends) \in Nat
    BY <1>1, AtMost
  <1> QED BY <1>2 DEF InUse, Callers, Backends

\* A step that opens no socket, and one that opens one below the limit.
LEMMA StaysBounded ==
  ASSUME Bounded, IsFiniteSet(live'), NEW x,
         \/ Callers' \subseteq Callers /\ Backends' \subseteq Backends
         \/ ~AtLimit /\ Callers' \subseteq Callers \cup {x} /\ Backends' \subseteq Backends
         \/ ~AtLimit /\ Callers' \subseteq Callers /\ Backends' \subseteq Backends \cup {x}
  PROVE  Bounded'
  <1>1. /\ IsFiniteSet(Callers) /\ IsFiniteSet(Backends)
        /\ Cardinality(Callers) \in Nat /\ Cardinality(Backends) \in Nat
        /\ InUse = Cardinality(Callers) + Cardinality(Backends)
    BY InUseType DEF Bounded
  <1>2. /\ Cardinality(Callers') \in Nat /\ Cardinality(Backends') \in Nat
        /\ InUse' = Cardinality(Callers') + Cardinality(Backends')
    <2>1. Callers' \subseteq live' /\ Backends' \subseteq live'
      BY DEF Callers, Backends
    <2>2. Cardinality(Callers') \in Nat /\ Cardinality(Backends') \in Nat
      BY <2>1, AtMost
    <2> QED BY <2>2 DEF InUse, Callers, Backends
  <1>3. /\ Callers' \subseteq Callers => Cardinality(Callers') <= Cardinality(Callers)
        /\ Callers' \subseteq Callers \cup {x} => Cardinality(Callers') <= Cardinality(Callers) + 1
    BY <1>1, AtMost
  <1>4. /\ Backends' \subseteq Backends => Cardinality(Backends') <= Cardinality(Backends)
        /\ Backends' \subseteq Backends \cup {x} => Cardinality(Backends') <= Cardinality(Backends) + 1
    BY <1>1, AtMost
  <1>5. Descriptors \in Nat /\ InUse <= Descriptors /\ (~AtLimit => InUse < Descriptors)
    BY <1>1, DescriptorsAssumption DEF Bounded, AtLimit
  <1>6. InUse' <= Descriptors
    BY <1>1, <1>2, <1>3, <1>4, <1>5
  <1> QED BY <1>6 DEF Bounded

\* The allocator finds an address.
LEMMA RoomLeft ==
  ASSUME TypeOK, Served, Kept, Bounded
  PROVE  Fresh \in Addresses /\ Fresh \notin live
  <1>1. live \subseteq Callers \cup {new_connection}
    BY DEF Callers, TypeOK, Served, Kept
  <1>2. /\ IsFiniteSet(Callers) /\ Cardinality(Callers) \in Nat
        /\ Cardinality(Backends) \in Nat
        /\ InUse = Cardinality(Callers) + Cardinality(Backends)
    BY InUseType DEF Bounded
  <1>3. Cardinality(live) \in Nat /\ Cardinality(live) <= Cardinality(Callers) + 1
    BY <1>1, <1>2, AtMost
  <1>4. Cardinality(live) < Descriptors + 2
    BY <1>2, <1>3, DescriptorsAssumption DEF Bounded
  <1>5. ~(Addresses \subseteq live)
    <2>1. SUFFICES ASSUME Addresses = live PROVE FALSE
      BY DEF TypeOK
    <2> QED BY <2>1, <1>3, <1>4, AddressesAssumption, DescriptorsAssumption
  <1> QED BY <1>5 DEF Fresh

-----------------------------------------------------------------------------
(* Every action keeps the invariant *)

\* The acceptor as the constructor leaves it.
LEMMA InitStep == Init => IInv
  <1> SUFFICES ASSUME Init PROVE IInv
    OBVIOUS
  <1>1. new_connection \in Addresses
    <2>1. Addresses # {}
      <3>1. SUFFICES ASSUME Addresses = {} PROVE FALSE
        OBVIOUS
      <3> QED BY <3>1, FS_EmptySet, AddressesAssumption, DescriptorsAssumption
    <2> QED BY <2>1 DEF Init
  <1>2. TypeOK
    BY <1>1 DEF Init, TypeOK, Stages
  <1>3. Chains
    BY JobsDiffer DEF Init, Chains, AcceptChain, HandlerChain, OneOf, NoneOf
  <1>4. Prepared /\ Accepted
    BY DEF Init, Prepared, Accepted, NoneOf, AcceptJobs, SuccessJob, Idle
  <1>5. Clean /\ Served /\ Relays /\ Kept /\ AcceptsIntoFreshSession
    BY <1>1 DEF Init, Clean, Served, Relays, Kept, AcceptsIntoFreshSession
  <1>6. Apart
    BY <1>1, NoClientAssumption DEF Init, Apart, Outside
  <1>7. Bounded
    <2>1. IsFiniteSet(live)
      BY FS_Singleton DEF Init
    <2>2. Callers = {} /\ Backends = {}
      BY <1>1 DEF Init, Callers, Backends
    <2>3. InUse = 0
      BY <2>1, <2>2, InUseType, FS_EmptySet
    <2> QED BY <2>1, <2>3, DescriptorsAssumption DEF Bounded
  <1> QED BY <1>2, <1>3, <1>4, <1>5, <1>6, <1>7 DEF IInv

\* A client that connects was in no session.
LEMMA ConnectStep ==
  ASSUME IInv, NEW c \in Clients, Connect(c)
  PROVE  IInv'
  <1> USE DEF IInv
  <1>1. UNCHANGED <<queue, running, accepting, new_connection, live, stage, op, peer, backend, up>>
    BY DEF Connect
  <1>2. TypeOK'
    BY DEF Connect, TypeOK
  <1>3. Chains' /\ Prepared'
    BY <1>1 DEF Chains, AcceptChain, HandlerChain, OneOf, NoneOf, Prepared
  <1>4. Clean' /\ Served' /\ Relays' /\ Kept' /\ AcceptsIntoFreshSession'
    BY <1>1 DEF Clean, Served, Relays, Kept, AcceptsIntoFreshSession
  <1>5. Bounded'
    BY <1>1 DEF Bounded, InUse
  <1>6. /\ Len(backlog') = Len(backlog) + 1 /\ Len(backlog) \in Nat
        /\ backlog'[Len(backlog) + 1] = c
        /\ \A i \in 1..Len(backlog) : backlog'[i] = backlog[i] /\ backlog[i] \in Clients
    BY DEF Connect, TypeOK
  <1>7. client[c] = "away" /\ client'[c] = "waiting"
        /\ \A d \in Clients \ {c} : client'[d] = client[d]
    BY DEF Connect, TypeOK
  <1>8. Outside(c) /\ \A i \in 1..Len(backlog) : backlog[i] # c
    BY <1>7 DEF Apart
  <1>9. \A d \in Clients : Outside(d)' = Outside(d)
    BY <1>1 DEF Outside
  <1>10. Apart'
    BY <1>1, <1>6, <1>7, <1>8, <1>9 DEF Apart
  <1>11. Accepted'
    <2>1. NoneOf(SuccessJob)' = NoneOf(SuccessJob)
      BY <1>1 DEF NoneOf
    <2>2. peer[new_connection] \in Clients \cup {NoClient}
      BY DEF TypeOK
    <2> QED BY <1>1, <1>6, <1>7, <2>1, <2>2 DEF Accepted
  <1> QED BY <1>2, <1>3, <1>4, <1>5, <1>10, <1>11

\* A client that goes changes nothing but itself.
LEMMA HangUpStep ==
  ASSUME IInv, NEW c \in Clients, HangUp(c)
  PROVE  IInv'
  <1> USE DEF IInv
  <1>1. UNCHANGED <<backlog, queue, running, accepting, new_connection, live, stage, op, peer,
                    backend, up>>
    BY DEF HangUp
  <1>2. TypeOK'
    BY DEF HangUp, TypeOK
  <1>3. Chains' /\ Prepared'
    BY <1>1 DEF Chains, AcceptChain, HandlerChain, OneOf, NoneOf, Prepared
  <1>4. Clean' /\ Served' /\ Relays' /\ Kept' /\ AcceptsIntoFreshSession'
    BY <1>1 DEF Clean, Served, Relays, Kept, AcceptsIntoFreshSession
  <1>5. Bounded'
    BY <1>1 DEF Bounded, InUse
  <1>6. client'[c] = "gone" /\ \A d \in Clients \ {c} : client'[d] = client[d]
    BY DEF HangUp, TypeOK
  <1>7. \A d \in Clients : Outside(d)' = Outside(d)
    BY <1>1 DEF Outside
  <1>8. \A i \in 1..Len(backlog) : backlog[i] \in Clients
    BY DEF TypeOK
  <1>9. Apart'
    BY <1>1, <1>6, <1>7, <1>8 DEF Apart
  <1>10. Accepted'
    <2>1. NoneOf(SuccessJob)' = NoneOf(SuccessJob)
      BY <1>1 DEF NoneOf
    <2>2. peer[new_connection] \in Clients \cup {NoClient}
      BY DEF TypeOK
    <2> QED BY <1>1, <1>6, <2>1, <2>2 DEF Accepted
  <1> QED BY <1>2, <1>3, <1>4, <1>5, <1>9, <1>10
\* What holds of some jobs holds of fewer.
LEMMA Fewer ==
  ASSUME NEW J, NEW K, K \subseteq J
  PROVE  /\ OneOf(J) => OneOf(K)
         /\ NoneOf(J) => NoneOf(K)
BY DEF OneOf, NoneOf

\* The first in the backlog gets the fresh session, or nobody does.
LEMMA AcceptCompletesStep ==
  ASSUME IInv, AcceptCompletes
  PROVE  IInv'
  <1> USE DEF IInv
  <1>1. /\ accepting /\ accepting' = FALSE
        /\ UNCHANGED <<running, new_connection, live, stage, op, backend, up>>
    BY DEF AcceptCompletes
  <1>2. /\ op[new_connection] = "none" /\ peer[new_connection] = NoClient
        /\ NoneOf(AcceptSteps) /\ new_connection \in live /\ new_connection \in Addresses
    BY <1>1 DEF AcceptsIntoFreshSession, Chains, AcceptChain, TypeOK
  <1>3. PICK j \in AcceptJobs : queue' = Append(queue, j)
    BY DEF AcceptCompletes, AcceptJobs
  <1>4. j \in Jobs /\ j \in AcceptSteps /\ \A s \in Addresses : j \notin Handler(s)
    BY <1>3, JobsDiffer DEF AcceptSteps
  <1>5. queue' \in Seq(Jobs)
    BY <1>3, <1>4 DEF TypeOK
  <1>6. Chains'
    <2>1. OneOf(AcceptSteps)'
      BY <1>1, <1>2, <1>3, <1>4, Appended
    <2>2. \A s \in Addresses : /\ OneOf(Handler(s)) => OneOf(Handler(s))'
                               /\ NoneOf(Handler(s)) => NoneOf(Handler(s))'
      BY <1>1, <1>3, <1>4, Appended
    <2>3. HandlerChain'
      BY <1>1, <2>2 DEF Chains, HandlerChain
    <2> QED BY <1>1, <2>1, <2>3 DEF Chains, AcceptChain
  <1>7. Prepared' /\ Kept' /\ Relays' /\ AcceptsIntoFreshSession'
    BY <1>1, <1>2 DEF Prepared, Kept, Relays, AcceptsIntoFreshSession
  <1>8. CASE UNCHANGED <<client, backlog, peer>> /\ queue' = Append(queue, <<"handle_accept", "error">>)
    <2>1. TypeOK'
      BY <1>1, <1>8, <1>5 DEF TypeOK
    <2>2. Clean' /\ Served'
      BY <1>1, <1>8 DEF Clean, Served
    <2>3. Bounded'
      BY <1>1, <1>8 DEF Bounded, InUse
    <2>4. NoneOf(SuccessJob)'
      <3>1. NoneOf(SuccessJob)
        BY <1>2, Fewer DEF SuccessJob, AcceptSteps, AcceptJobs
      <3>2. <<"handle_accept", "error">> \in Jobs /\ <<"handle_accept", "error">> \notin SuccessJob
        BY JobsDiffer DEF AcceptJobs, SuccessJob
      <3> QED BY <1>1, <1>8, <3>1, <3>2, Appended
    <2>5. Accepted'
      BY <2>4 DEF Accepted, SuccessJob
    <2>6. Apart'
      BY <1>1, <1>2, <1>8 DEF Apart, Outside
    <2> QED BY <1>6, <1>7, <2>1, <2>2, <2>3, <2>5, <2>6
  <1>9. CASE ~AtLimit /\ backlog # <<>> /\ backlog' = Tail(backlog)
             /\ peer' = [peer EXCEPT ![new_connection] = Head(backlog)]
             /\ client' = [client EXCEPT ![Head(backlog)] = IF @ = "waiting" THEN "here" ELSE @]
    <2> DEFINE c == Head(backlog)
    <2>1. /\ Len(backlog) \in Nat \ {0} /\ Len(backlog') = Len(backlog) - 1 /\ c = backlog[1]
          /\ \A i \in 1..Len(backlog) : backlog[i] \in Clients
          /\ \A i \in 1..Len(backlog') : backlog'[i] = backlog[i + 1]
          /\ backlog' \in Seq(Clients)
      BY <1>9 DEF TypeOK
    <2>2. c \in Clients /\ client[c] # "away" /\ Outside(c) /\ c # NoClient
      BY <2>1, NoClientAssumption DEF Apart
    <2>3. /\ peer'[new_connection] = c
          /\ \A s \in Addresses \ {new_connection} : peer'[s] = peer[s]
      BY <1>2, <1>9 DEF TypeOK
    <2>4. /\ client'[c] # "away"
          /\ \A d \in Clients \ {c} : client'[d] = client[d]
      BY <1>9, <2>2 DEF TypeOK
    <2>5. TypeOK'
      <3>1. peer' \in [Addresses -> Clients \cup {NoClient}]
        BY <1>9, <2>2 DEF TypeOK
      <3>2. client' \in [Clients -> {"away", "waiting", "here", "gone"}]
        BY <1>9, <2>2 DEF TypeOK
      <3> QED BY <1>1, <1>5, <2>1, <3>1, <3>2 DEF TypeOK
    <2>6. Clean' /\ Served'
      BY <1>1, <1>2, <2>2, <2>3 DEF Clean, Served
    <2>7. Bounded'
      <3>1. /\ Callers' \subseteq Callers \cup {new_connection}
            /\ Backends' \subseteq Backends /\ IsFiniteSet(live')
        BY <1>1, <2>3 DEF Callers, Backends, Bounded, TypeOK
      <3> QED BY <1>9, <3>1, StaysBounded
    <2>8. \A i \in 1..Len(backlog') : i + 1 \in 1..Len(backlog) /\ backlog'[i] # c
      BY <2>1 DEF Apart
    <2>9. Accepted'
      BY <1>1, <2>2, <2>3, <2>4, <2>8 DEF Accepted
    <2>10. \A d \in Clients : Outside(d) /\ d # c => Outside(d)'
      BY <1>1, <2>3 DEF Outside, TypeOK
    <2>11. \A i, k \in 1..Len(backlog') : backlog'[i] = backlog'[k] => i = k
      BY <2>1, <2>8 DEF Apart
    <2>12. \A i \in 1..Len(backlog') : client'[backlog'[i]] # "away" /\ Outside(backlog[i])'
      <3>1. TAKE i \in 1..Len(backlog')
      <3>2. backlog'[i] = backlog[i + 1] /\ i + 1 \in 1..Len(backlog) /\ backlog'[i] # c
        BY <2>1, <2>8
      <3>3. client[backlog[i + 1]] # "away" /\ Outside(backlog[i + 1]) /\ backlog[i + 1] \in Clients
        BY <2>1, <3>2 DEF Apart
      <3>4. client'[backlog'[i]] # "away"
        BY <2>4, <3>2, <3>3
      <3>5. \A s \in live' : peer'[s] # backlog'[i]
        BY <1>1, <2>3, <3>2, <3>3 DEF Outside, TypeOK
      <3> QED BY <3>4, <3>5 DEF Outside
    <2>13. \A d \in Clients : client'[d] = "away" => Outside(d)'
      BY <2>4, <2>10 DEF Apart
    <2>14. \A r, s \in live' : r # s /\ peer'[r] = peer'[s] => peer'[r] = NoClient
      BY <1>1, <2>2, <2>3 DEF Apart, Outside, TypeOK
    <2>15. Apart'
      BY <2>11, <2>12, <2>13, <2>14 DEF Apart
    <2> QED BY <1>6, <1>7, <2>5, <2>6, <2>7, <2>9, <2>15
  <1> QED BY <1>8, <1>9 DEF AcceptCompletes

\* An operation that completes becomes the one handler of its session.
LEMMA OpCompletesStep ==
  ASSUME IInv, NEW s \in Addresses, OpCompletes(s)
  PROVE  IInv'
  <1> USE DEF IInv
  <1>1. /\ op[s] = "outstanding" /\ op' = [op EXCEPT ![s] = "queued"]
        /\ queue' = Append(queue, <<"session", s>>)
        /\ UNCHANGED <<client, backlog, running, accepting, new_connection, live, stage, peer,
                       backend, up>>
    BY DEF OpCompletes
  <1>2. /\ op'[s] = "queued" /\ \A r \in Addresses \ {s} : op'[r] = op[r]
        /\ op' \in [Addresses -> {"none", "outstanding", "queued"}]
    BY <1>1 DEF TypeOK
  <1>3. /\ <<"session", s>> \in Jobs /\ <<"session", s>> \notin AcceptSteps
        /\ \A r \in Addresses \ {s} : <<"session", s>> \notin Handler(r)
    BY JobsDiffer DEF Handler
  <1>4. TypeOK'
    BY <1>1, <1>2, <1>3 DEF TypeOK
  <1>5. Chains'
    <2>1. /\ OneOf(AcceptSteps)' /\ (NoneOf(AcceptSteps) => NoneOf(AcceptSteps)')
      BY <1>1, <1>3, Appended DEF Chains, AcceptChain
    <2>2. OneOf(Handler(s))'
      BY <1>1, <1>3, Appended DEF Chains, HandlerChain
    <2>3. \A r \in Addresses \ {s} : /\ OneOf(Handler(r)) => OneOf(Handler(r))'
                                     /\ NoneOf(Handler(r)) => NoneOf(Handler(r))'
      BY <1>1, <1>3, Appended
    <2>4. HandlerChain'
      BY <1>2, <2>2, <2>3 DEF Chains, HandlerChain
    <2> QED BY <1>1, <2>1, <2>4 DEF Chains, AcceptChain
  <1>6. NoneOf(AcceptJobs) => NoneOf(AcceptJobs)'
    BY <1>1, <1>3, Appended DEF AcceptSteps
  <1>7. NoneOf(SuccessJob) => NoneOf(SuccessJob)'
    BY <1>1, <1>3, Appended DEF AcceptSteps, AcceptJobs, SuccessJob
  <1>8. Prepared' /\ Accepted'
    BY <1>1, <1>2, <1>6, <1>7 DEF Prepared, Accepted, SuccessJob, TypeOK
  <1>9. Clean' /\ Served' /\ Relays' /\ Kept' /\ AcceptsIntoFreshSession'
    BY <1>1, <1>2 DEF Clean, Served, Relays, Kept, AcceptsIntoFreshSession, TypeOK
  <1>10. Bounded'
    BY <1>1 DEF Bounded, InUse
  <1>11. \A d \in Clients : Outside(d) => Outside(d)'
    BY <1>1, <1>2 DEF Outside, TypeOK
  <1>12. Apart'
    BY <1>1, <1>11 DEF Apart, TypeOK
  <1> QED BY <1>4, <1>5, <1>8, <1>9, <1>10, <1>12

\* A handler goes from the queue to a thread.
LEMMA DispatchStep ==
  ASSUME IInv, NEW t \in Threads, Dispatch(t)
  PROVE  IInv'
  <1> USE DEF IInv
  <1>1. /\ running[t] = Idle /\ queue # <<>>
        /\ running' = [running EXCEPT ![t] = Head(queue)] /\ queue' = Tail(queue)
        /\ UNCHANGED <<client, backlog, accepting, new_connection, live, stage, op, peer,
                       backend, up>>
    BY DEF Dispatch
  <1>2. TypeOK'
    <2>1. Head(queue) \in Jobs /\ queue' \in Seq(Jobs)
      BY <1>1 DEF TypeOK
    <2> QED BY <1>1, <2>1 DEF TypeOK
  <1>3. ASSUME NEW J, Idle \notin J
        PROVE  (OneOf(J) => OneOf(J)') /\ (NoneOf(J) => NoneOf(J)')
    BY <1>1, <1>3, Taken
  <1>4. Chains'
    <2>1. OneOf(AcceptSteps)' /\ (NoneOf(AcceptSteps) => NoneOf(AcceptSteps)')
      BY <1>3, JobsDiffer DEF Chains, AcceptChain
    <2>2. \A s \in Addresses : /\ OneOf(Handler(s)) => OneOf(Handler(s))'
                               /\ NoneOf(Handler(s)) => NoneOf(Handler(s))'
      BY <1>3, JobsDiffer
    <2>3. HandlerChain'
      BY <1>1, <2>2 DEF Chains, HandlerChain
    <2> QED BY <1>1, <2>1, <2>3 DEF Chains, AcceptChain
  <1>5. /\ NoneOf(AcceptJobs) => NoneOf(AcceptJobs)'
        /\ NoneOf(SuccessJob) => NoneOf(SuccessJob)'
    BY <1>3, JobsDiffer DEF AcceptJobs, SuccessJob
  <1>6. Prepared' /\ Accepted'
    BY <1>1, <1>5 DEF Prepared, Accepted, SuccessJob
  <1>7. Clean' /\ Served' /\ Relays' /\ Kept' /\ AcceptsIntoFreshSession'
    BY <1>1 DEF Clean, Served, Relays, Kept, AcceptsIntoFreshSession
  <1>8. Bounded' /\ Apart'
    BY <1>1 DEF Bounded, InUse, Apart, Outside
  <1> QED BY <1>2, <1>4, <1>6, <1>7, <1>8

\* What a thread that goes from one step of handle_accept to the next, or
\* leaves it, does to the chains.
LEMMA AcceptStepRuns ==
  ASSUME IInv, NEW t \in Threads, running[t] \in AcceptSteps,
         NEW j, j \in {<<"start_accept">>, Idle},
         running' = [running EXCEPT ![t] = j], queue' = queue
  PROVE  /\ ~accepting
         /\ OneOf(AcceptSteps)' /\ NoneOf(AcceptJobs)' /\ NoneOf(SuccessJob)'
         /\ j = Idle => NoneOf(AcceptSteps)'
         /\ \A s \in Addresses : OneOf(Handler(s))' /\ (NoneOf(Handler(s)) => NoneOf(Handler(s))')
         /\ running' \in [Threads -> Jobs \cup {<<"start_accept">>, Idle}]
  <1> USE DEF IInv
  <1>1. /\ j \notin AcceptJobs /\ (j = Idle => j \notin AcceptSteps)
        /\ j \in AcceptSteps \/ j = Idle
        /\ \A s \in Addresses : j \notin Handler(s)
    BY JobsDiffer DEF AcceptSteps
  <1>2. ~accepting /\ OneOf(AcceptSteps)
    BY DEF Chains, AcceptChain, NoneOf
  <1>3. OneOf(AcceptSteps)' /\ (j = Idle => NoneOf(AcceptSteps)')
    BY <1>1, <1>2, GoesOn
  <1>4. NoneOf(AcceptJobs)'
    <2>1. OneOf(AcceptJobs)
      BY <1>2, Fewer DEF AcceptSteps
    <2>2. CASE running[t] \in AcceptJobs
      BY <1>1, <2>1, <2>2, GoesOn
    <2>3. CASE running[t] = <<"start_accept">>
      <3>1. running[t] \notin AcceptJobs
        BY <2>3, JobsDiffer
      <3>2. NoneOf(AcceptJobs)
        BY <1>2, <3>1 DEF OneOf, NoneOf, AcceptSteps
      <3> QED BY <1>1, <3>2, GoesOn
    <2> QED BY <2>2, <2>3 DEF AcceptSteps
  <1>5. NoneOf(SuccessJob)'
    BY <1>4 DEF NoneOf, SuccessJob, AcceptJobs
  <1>6. \A s \in Addresses : OneOf(Handler(s))' /\ (NoneOf(Handler(s)) => NoneOf(Handler(s))')
    BY <1>1, GoesOn DEF Chains, HandlerChain
  <1> QED BY <1>2, <1>3, <1>4, <1>5, <1>6 DEF TypeOK

\* An exception ends the process and changes nothing else.
LEMMA ThrowsStep ==
  ASSUME IInv, Throws
  PROVE  IInv'
  <1> USE DEF IInv
  <1>1. /\ up' = FALSE
        /\ UNCHANGED <<client, backlog, queue, running, accepting, new_connection, live, stage,
                       op, peer, backend>>
    BY DEF Throws
  <1>2. TypeOK'
    BY <1>1 DEF TypeOK
  <1>3. Chains' /\ Prepared' /\ Accepted' /\ AcceptsIntoFreshSession'
    BY <1>1 DEF Chains, AcceptChain, HandlerChain, OneOf, NoneOf, Prepared, Accepted,
                AcceptsIntoFreshSession
  <1>4. Clean' /\ Served' /\ Relays' /\ Kept'
    BY <1>1 DEF Clean, Served, Relays, Kept
  <1>5. Bounded' /\ Apart'
    BY <1>1 DEF Bounded, InUse, Apart, Outside
  <1> QED BY <1>2, <1>3, <1>4, <1>5

\* The accepted session starts its first operation, or the process ends.
LEMMA startStep ==
  ASSUME IInv, NEW t \in Threads, start(t)
  PROVE  IInv'
  <1> USE DEF IInv
  <1>1. CASE Throws
    BY <1>1, ThrowsStep
  <1>2. CASE /\ stage' = [stage EXCEPT ![new_connection] = "greeting"]
             /\ op' = [op EXCEPT ![new_connection] = "outstanding"]
             /\ running' = [running EXCEPT ![t] = <<"start_accept">>]
             /\ UNCHANGED <<client, backlog, queue, accepting, new_connection, live, peer,
                            backend, up>>
    <2>1. /\ running[t] = <<"handle_accept", "success">>
          /\ new_connection \in live /\ new_connection \in Addresses
      BY DEF start, TypeOK
    <2>2. ~NoneOf(AcceptJobs) /\ ~NoneOf(SuccessJob) /\ running[t] \in AcceptSteps
      BY <2>1 DEF NoneOf, AcceptJobs, SuccessJob, AcceptSteps
    <2>3. /\ op[new_connection] = "none" /\ peer[new_connection] # NoClient
          /\ client[peer[new_connection]] # "away"
          /\ \A i \in 1..Len(backlog) : backlog[i] # peer[new_connection]
      BY <2>2 DEF Prepared, Accepted, SuccessJob
    <2>4. /\ ~accepting /\ OneOf(AcceptSteps)' /\ NoneOf(AcceptJobs)' /\ NoneOf(SuccessJob)'
          /\ \A s \in Addresses : OneOf(Handler(s))' /\ (NoneOf(Handler(s)) => NoneOf(Handler(s))')
          /\ running' \in [Threads -> Jobs \cup {<<"start_accept">>, Idle}]
      BY <1>2, <2>2, AcceptStepRuns
    <2>5. /\ op'[new_connection] = "outstanding" /\ stage'[new_connection] = "greeting"
          /\ \A s \in Addresses \ {new_connection} : op'[s] = op[s] /\ stage'[s] = stage[s]
      BY <1>2, <2>1 DEF TypeOK
    <2>6. TypeOK'
      BY <1>2, <2>1, <2>4 DEF TypeOK, Stages
    <2>7. Chains' /\ Prepared' /\ Accepted' /\ AcceptsIntoFreshSession'
      BY <1>2, <2>3, <2>4, <2>5 DEF Chains, AcceptChain, HandlerChain, Prepared, Accepted,
                                    SuccessJob, AcceptsIntoFreshSession
    <2>8. Clean' /\ Served' /\ Relays' /\ Kept'
      BY <1>2, <2>1, <2>3, <2>5 DEF Clean, Served, Relays, Kept, TypeOK
    <2>9. Bounded'
      BY <1>2 DEF Bounded, InUse
    <2>10. \A d \in Clients : Outside(d) /\ d # peer[new_connection] => Outside(d)'
      BY <1>2, <2>5 DEF Outside, TypeOK
    <2>11. Apart'
      BY <1>2, <2>3, <2>10 DEF Apart, TypeOK
    <2> QED BY <2>6, <2>7, <2>8, <2>9, <2>11
  <1> QED BY <1>1, <1>2 DEF start

\* A failed accept goes straight on to the next.
LEMMA after_errorStep ==
  ASSUME IInv, NEW t \in Threads, after_error(t)
  PROVE  IInv'
  <1> USE DEF IInv
  <1>1. /\ running[t] \in AcceptSteps /\ running' = [running EXCEPT ![t] = <<"start_accept">>]
        /\ UNCHANGED <<client, backlog, queue, accepting, new_connection, live, stage, op, peer,
                       backend, up>>
    BY DEF after_error, AcceptSteps, AcceptJobs
  <1>2. /\ ~accepting /\ OneOf(AcceptSteps)' /\ NoneOf(AcceptJobs)' /\ NoneOf(SuccessJob)'
        /\ \A s \in Addresses : OneOf(Handler(s))' /\ (NoneOf(Handler(s)) => NoneOf(Handler(s))')
        /\ running' \in [Threads -> Jobs \cup {<<"start_accept">>, Idle}]
    BY <1>1, AcceptStepRuns
  <1>3. TypeOK'
    BY <1>1, <1>2 DEF TypeOK
  <1>4. Chains' /\ Prepared' /\ Accepted' /\ AcceptsIntoFreshSession'
    BY <1>1, <1>2 DEF Chains, AcceptChain, HandlerChain, Prepared, Accepted, SuccessJob,
                      AcceptsIntoFreshSession
  <1>5. Clean' /\ Served' /\ Relays' /\ Kept'
    BY <1>1 DEF Clean, Served, Relays, Kept
  <1>6. Bounded' /\ Apart'
    BY <1>1 DEF Bounded, InUse, Apart, Outside
  <1> QED BY <1>3, <1>4, <1>5, <1>6

\* The old session is destroyed if nothing else refers to it; the new one is fresh.
LEMMA start_acceptStep ==
  ASSUME IInv, NEW t \in Threads, start_accept(t)
  PROVE  IInv'
  <1> USE DEF IInv
  <1> DEFINE n == new_connection
  <1>1. /\ running[t] \in AcceptSteps /\ running' = [running EXCEPT ![t] = Idle]
        /\ new_connection' = Fresh /\ accepting' = TRUE
        /\ UNCHANGED <<client, backlog, queue, op, up>>
    BY DEF start_accept, AcceptSteps
  <1>2. /\ ~accepting /\ OneOf(AcceptSteps)' /\ NoneOf(AcceptSteps)'
        /\ NoneOf(AcceptJobs)' /\ NoneOf(SuccessJob)'
        /\ \A s \in Addresses : OneOf(Handler(s))' /\ (NoneOf(Handler(s)) => NoneOf(Handler(s))')
        /\ running' \in [Threads -> Jobs \cup {<<"start_accept">>, Idle}]
    BY <1>1, AcceptStepRuns
  <1>3. Fresh \in Addresses /\ Fresh \notin live /\ n \in live /\ n \in Addresses
    BY RoomLeft DEF TypeOK
  <1>4. /\ op[Fresh] = "none" /\ stage[Fresh] = "new" /\ peer[Fresh] = NoClient /\ ~backend[Fresh]
    BY <1>3 DEF Clean
  <1>5. \/ /\ op[n] = "none" /\ live' = (live \ {n}) \cup {Fresh}
           /\ stage' = [stage EXCEPT ![n] = "new"]
           /\ peer' = [peer EXCEPT ![n] = NoClient]
           /\ backend' = [backend EXCEPT ![n] = FALSE]
        \/ op[n] # "none" /\ live' = live \cup {Fresh} /\ UNCHANGED <<stage, peer, backend>>
    BY DEF start_accept, LastReference, Destroy, Keep
  <1>6. /\ \A s \in Addresses \ {n} : /\ stage'[s] = stage[s] /\ peer'[s] = peer[s]
                                      /\ backend'[s] = backend[s]
        /\ n \in live' => op[n] # "none" /\ stage'[n] = stage[n] /\ peer'[n] = peer[n]
                          /\ backend'[n] = backend[n]
        /\ n \notin live' => op[n] = "none" /\ stage'[n] = "new" /\ peer'[n] = NoClient
                             /\ ~backend'[n]
    BY <1>3, <1>5 DEF TypeOK
  <1>7. /\ Fresh \in live' /\ live' \subseteq live \cup {Fresh} /\ live \ {n} \subseteq live'
        /\ live' \subseteq Addresses
    BY <1>3, <1>5 DEF TypeOK
  <1>8. TypeOK'
    <2>1. /\ stage' \in [Addresses -> Stages] /\ backend' \in [Addresses -> BOOLEAN]
          /\ peer' \in [Addresses -> Clients \cup {NoClient}]
      BY <1>5 DEF TypeOK, Stages
    <2> QED BY <1>1, <1>2, <1>7, <2>1 DEF TypeOK
  <1>9. Chains' /\ Prepared' /\ Accepted'
    BY <1>1, <1>2 DEF Chains, AcceptChain, HandlerChain, Prepared, Accepted, SuccessJob
  <1>10. AcceptsIntoFreshSession'
    BY <1>1, <1>3, <1>4, <1>6 DEF AcceptsIntoFreshSession
  <1>11. Clean' /\ Served' /\ Relays' /\ Kept'
    <2>1. Clean'
      BY <1>1, <1>4, <1>6, <1>7 DEF Clean
    <2>2. Served'
      BY <1>1, <1>6 DEF Served
    <2>3. Relays'
      BY <1>3, <1>6 DEF Relays
    <2>4. Kept'
      BY <1>1, <1>6, <1>7 DEF Kept
    <2> QED BY <2>1, <2>2, <2>3, <2>4
  <1>12. Bounded'
    <2>1. IsFiniteSet(live')
      <3>1. IsFiniteSet(live) /\ live' \subseteq live \cup {Fresh}
        BY <1>7 DEF Bounded
      <3> QED BY <3>1, AtMost
    <2>2. Callers' \subseteq Callers /\ Backends' \subseteq Backends
      BY <1>3, <1>4, <1>6, <1>7 DEF Callers, Backends
    <2> QED BY <2>1, <2>2, StaysBounded
  <1>13. \A d \in Clients : Outside(d) => Outside(d)'
    BY <1>1, <1>3, <1>4, <1>6, <1>7, NoClientAssumption DEF Outside
  <1>14. Apart'
    <2>1. \A i \in 1..Len(backlog) : backlog[i] \in Clients
      BY DEF TypeOK
    <2>2. \A i \in 1..Len(backlog) : client[backlog[i]] # "away" /\ Outside(backlog[i])'
      BY <1>1, <1>13, <2>1 DEF Apart
    <2>3. \A d \in Clients : client[d] = "away" => Outside(d)'
      BY <1>13 DEF Apart
    <2>4. \A r, s \in live' : r # s /\ peer'[r] = peer'[s] => peer'[r] = NoClient
      BY <1>3, <1>4, <1>6, <1>7 DEF Apart
    <2> QED BY <1>1, <2>2, <2>3, <2>4 DEF Apart
  <1> QED BY <1>8, <1>9, <1>10, <1>11, <1>12, <1>14

-----------------------------------------------------------------------------
(* The handlers of a session *)

\* A thread that runs the handler of s leaves no other behind.
LEMMA HandlerRuns ==
  ASSUME IInv, NEW t \in Threads, NEW s \in Addresses, running[t] = <<"session", s>>,
         running' = [running EXCEPT ![t] = Idle], queue' = queue
  PROVE  /\ op[s] = "queued" /\ s \in live /\ peer[s] \in Clients
         /\ OneOf(AcceptSteps)' /\ (NoneOf(AcceptSteps) => NoneOf(AcceptSteps)')
         /\ (NoneOf(AcceptJobs) => NoneOf(AcceptJobs)') /\ (NoneOf(SuccessJob) => NoneOf(SuccessJob)')
         /\ \A r \in Addresses : OneOf(Handler(r))' /\ (NoneOf(Handler(r)) => NoneOf(Handler(r))')
         /\ NoneOf(Handler(s))'
         /\ running' \in [Threads -> Jobs \cup {<<"start_accept">>, Idle}]
         /\ new_connection = s => NoneOf(AcceptJobs) /\ ~accepting
  <1> USE DEF IInv
  <1>1. running[t] \in Handler(s)
    BY DEF Handler
  <1>2. op[s] = "queued"
    BY <1>1 DEF Chains, HandlerChain, NoneOf
  <1>3. s \in live /\ peer[s] \in Clients
    BY <1>2 DEF Clean, Served, TypeOK
  <1>4. /\ Idle \notin AcceptSteps /\ Idle \notin AcceptJobs /\ Idle \notin SuccessJob
        /\ \A r \in Addresses : Idle \notin Handler(r)
    BY JobsDiffer DEF SuccessJob, AcceptJobs, AcceptSteps
  <1>5. ASSUME NEW J, Idle \notin J
        PROVE  (OneOf(J) => OneOf(J)') /\ (NoneOf(J) => NoneOf(J)')
    BY <1>5, GoesOn
  <1>6. NoneOf(Handler(s))'
    BY <1>1, <1>4, GoesOn DEF Chains, HandlerChain
  <1>7. \A r \in Addresses : OneOf(Handler(r))' /\ (NoneOf(Handler(r)) => NoneOf(Handler(r))')
    BY <1>4, <1>5 DEF Chains, HandlerChain
  <1>8. /\ OneOf(AcceptSteps)' /\ (NoneOf(AcceptSteps) => NoneOf(AcceptSteps)')
        /\ (NoneOf(AcceptJobs) => NoneOf(AcceptJobs)') /\ (NoneOf(SuccessJob) => NoneOf(SuccessJob)')
    BY <1>4, <1>5 DEF Chains, AcceptChain
  <1>9. new_connection = s => NoneOf(AcceptJobs) /\ ~accepting
    BY <1>2 DEF Prepared, AcceptsIntoFreshSession
  <1>10. running' \in [Threads -> Jobs \cup {<<"start_accept">>, Idle}]
    BY DEF TypeOK
  <1> QED BY <1>2, <1>3, <1>6, <1>7, <1>8, <1>9, <1>10

\* A handler that starts the next operation.
LEMMA ContinuesStep ==
  ASSUME IInv, NEW t \in Threads, NEW s \in Addresses, running[t] = <<"session", s>>,
         NEW st \in Stages, NEW b \in BOOLEAN, Continues(s, st, b),
         st = "relaying" => b, b => backend[s] \/ ~AtLimit,
         running' = [running EXCEPT ![t] = Idle],
         UNCHANGED <<backlog, queue, accepting, new_connection, up>>
  PROVE  IInv'
  <1> USE DEF IInv
  <1>1. /\ op[s] = "queued" /\ s \in live /\ peer[s] \in Clients
        /\ OneOf(AcceptSteps)' /\ (NoneOf(AcceptSteps) => NoneOf(AcceptSteps)')
        /\ (NoneOf(AcceptJobs) => NoneOf(AcceptJobs)') /\ (NoneOf(SuccessJob) => NoneOf(SuccessJob)')
        /\ \A r \in Addresses : OneOf(Handler(r))' /\ (NoneOf(Handler(r)) => NoneOf(Handler(r))')
        /\ NoneOf(Handler(s))'
        /\ running' \in [Threads -> Jobs \cup {<<"start_accept">>, Idle}]
        /\ new_connection = s => NoneOf(AcceptJobs) /\ ~accepting
    BY HandlerRuns
  <1>2. /\ op'[s] = "outstanding" /\ stage'[s] = st /\ backend'[s] = b
        /\ \A r \in Addresses \ {s} : /\ op'[r] = op[r] /\ stage'[r] = stage[r]
                                      /\ backend'[r] = backend[r]
        /\ UNCHANGED <<client, live, peer>>
    BY DEF Continues, TypeOK
  <1>3. TypeOK'
    BY <1>1, <1>2 DEF Continues, TypeOK
  <1>4. Chains'
    BY <1>1, <1>2 DEF Chains, AcceptChain, HandlerChain
  <1>5. Prepared' /\ Accepted' /\ AcceptsIntoFreshSession'
    BY <1>1, <1>2 DEF Prepared, Accepted, SuccessJob, AcceptsIntoFreshSession, TypeOK
  <1>6. Clean' /\ Served' /\ Relays' /\ Kept'
    BY <1>1, <1>2, NoClientAssumption DEF Clean, Served, Relays, Kept, TypeOK
  <1>7. Bounded'
    <2>1. /\ Callers' \subseteq Callers /\ IsFiniteSet(live')
          /\ Backends' \subseteq Backends \/ (~AtLimit /\ Backends' \subseteq Backends \cup {s})
      BY <1>2 DEF Callers, Backends, Bounded, TypeOK
    <2> QED BY <2>1, StaysBounded
  <1>8. \A d \in Clients : Outside(d) => Outside(d)'
    BY <1>1, <1>2 DEF Outside, TypeOK
  <1>9. Apart'
    <2>1. \A i \in 1..Len(backlog) : backlog[i] \in Clients
      BY DEF TypeOK
    <2>2. \A i \in 1..Len(backlog) : client[backlog[i]] # "away" /\ Outside(backlog[i])'
      BY <1>8, <2>1 DEF Apart
    <2>3. \A d \in Clients : client[d] = "away" => Outside(d)'
      BY <1>8 DEF Apart
    <2> QED BY <1>2, <2>2, <2>3 DEF Apart
  <1> QED BY <1>3, <1>4, <1>5, <1>6, <1>7, <1>9

\* A handler that starts none: the session goes, or waits for start_accept to drop it.
LEMMA EndsSessionStep ==
  ASSUME IInv, NEW t \in Threads, NEW s \in Addresses, running[t] = <<"session", s>>,
         EndsSession(s), running' = [running EXCEPT ![t] = Idle],
         UNCHANGED <<backlog, queue, accepting, new_connection, up>>
  PROVE  IInv'
  <1> USE DEF IInv
  <1>1. /\ op[s] = "queued" /\ s \in live /\ peer[s] \in Clients
        /\ OneOf(AcceptSteps)' /\ (NoneOf(AcceptSteps) => NoneOf(AcceptSteps)')
        /\ (NoneOf(AcceptJobs) => NoneOf(AcceptJobs)') /\ (NoneOf(SuccessJob) => NoneOf(SuccessJob)')
        /\ \A r \in Addresses : OneOf(Handler(r))' /\ (NoneOf(Handler(r)) => NoneOf(Handler(r))')
        /\ NoneOf(Handler(s))'
        /\ running' \in [Threads -> Jobs \cup {<<"start_accept">>, Idle}]
        /\ new_connection = s => NoneOf(AcceptJobs) /\ ~accepting
    BY HandlerRuns
  <1>2. /\ op'[s] = "none" /\ \A r \in Addresses \ {s} : op'[r] = op[r]
        /\ client'[peer[s]] = "away" /\ \A d \in Clients \ {peer[s]} : client'[d] = client[d]
    BY <1>1 DEF EndsSession, TypeOK
  <1>3. \/ new_connection = s /\ UNCHANGED <<live, stage, peer, backend>>
        \/ /\ new_connection # s /\ live' = live \ {s}
           /\ stage' = [stage EXCEPT ![s] = "new"] /\ peer' = [peer EXCEPT ![s] = NoClient]
           /\ backend' = [backend EXCEPT ![s] = FALSE]
    BY DEF EndsSession, Keep, Destroy
  <1>4. /\ \A r \in Addresses \ {s} : /\ stage'[r] = stage[r] /\ peer'[r] = peer[r]
                                      /\ backend'[r] = backend[r] /\ (r \in live <=> r \in live')
        /\ s \in live' => new_connection = s /\ stage'[s] = stage[s] /\ peer'[s] = peer[s]
                          /\ backend'[s] = backend[s]
        /\ s \notin live' => new_connection # s /\ stage'[s] = "new" /\ peer'[s] = NoClient
                             /\ ~backend'[s]
        /\ live' \subseteq live
    BY <1>1, <1>3 DEF TypeOK
  <1>5. TypeOK'
    <2>1. client' \in [Clients -> {"away", "waiting", "here", "gone"}]
          /\ op' \in [Addresses -> {"none", "outstanding", "queued"}]
      BY <1>1 DEF EndsSession, TypeOK
    <2> QED BY <1>1, <1>3, <2>1 DEF TypeOK, Stages
  <1>6. Chains'
    BY <1>1, <1>2 DEF Chains, AcceptChain, HandlerChain
  <1>7. Prepared' /\ AcceptsIntoFreshSession'
    BY <1>1, <1>2, <1>4 DEF Prepared, AcceptsIntoFreshSession, TypeOK
  <1>8. Clean' /\ Served' /\ Relays' /\ Kept'
    BY <1>1, <1>2, <1>4 DEF Clean, Served, Relays, Kept, TypeOK
  <1>9. Bounded'
    <2>1. IsFiniteSet(live')
      BY <1>4, FS_Subset DEF Bounded
    <2>2. Callers' \subseteq Callers /\ Backends' \subseteq Backends
      BY <1>4 DEF Callers, Backends, TypeOK
    <2> QED BY <2>1, <2>2, StaysBounded
  <1>10. \A r \in live : r # s => peer[r] # peer[s]
    BY <1>1, NoClientAssumption DEF Apart
  <1>11. Accepted'
    <2>1. CASE new_connection = s
      <3>1. NoneOf(SuccessJob)
        BY <1>1, <2>1, Fewer DEF SuccessJob, AcceptJobs
      <3> QED BY <1>1, <3>1 DEF Accepted, SuccessJob
    <2>2. CASE new_connection # s
      BY <1>1, <1>2, <1>4, <1>10, <2>2 DEF Accepted, SuccessJob, TypeOK
    <2> QED BY <2>1, <2>2
  <1>12. \A d \in Clients : Outside(d) => Outside(d)'
    BY <1>1, <1>2, <1>4, NoClientAssumption DEF Outside, TypeOK
  <1>13. Outside(peer[s]) = FALSE
    BY <1>1 DEF Outside
  <1>14. \A r \in live' : peer'[r] = peer[s] => r = new_connection /\ ~accepting /\ op'[r] = "none"
    BY <1>1, <1>2, <1>4, <1>10, NoClientAssumption DEF TypeOK
  <1>15. Apart'
    <2>1. \A i \in 1..Len(backlog) : backlog[i] \in Clients /\ backlog[i] # peer[s]
      BY <1>13 DEF Apart, TypeOK
    <2>2. \A i \in 1..Len(backlog) : client'[backlog[i]] # "away" /\ Outside(backlog[i])'
      BY <1>2, <1>12, <2>1 DEF Apart
    <2>3. \A d \in Clients : client'[d] = "away" => Outside(d)'
      <3>1. ASSUME NEW d \in Clients, client'[d] = "away" PROVE Outside(d)'
        <4>1. CASE d = peer[s]
          BY <1>14, <4>1 DEF Outside
        <4>2. CASE d # peer[s]
          BY <1>2, <1>12, <3>1, <4>2 DEF Apart
        <4> QED BY <4>1, <4>2
      <3> QED BY <3>1
    <2>4. \A q, r \in live' : q # r /\ peer'[q] = peer'[r] => peer'[q] = NoClient
      BY <1>4, <1>10 DEF Apart, TypeOK
    <2> QED BY <2>2, <2>3, <2>4 DEF Apart
  <1> QED BY <1>5, <1>6, <1>7, <1>8, <1>9, <1>11, <1>15

\* Every handler does one or the other.
LEMMA RunSessionStep ==
  ASSUME IInv, NEW t \in Threads, NEW s \in Addresses, RunSession(t, s)
  PROVE  IInv'
  <1>1. /\ running[t] = <<"session", s>> /\ running' = [running EXCEPT ![t] = Idle]
        /\ UNCHANGED <<backlog, queue, accepting, new_connection, up>>
    BY DEF RunSession
  <1>2. /\ {"reading", "connecting", "refusing", "relaying"} \subseteq Stages
        /\ backend[s] \in BOOLEAN /\ (~AtLimit) \in BOOLEAN
        /\ stage[s] = "relaying" => backend[s]
    BY DEF Stages, IInv, TypeOK, Relays, AtLimit
  <1>3. CASE EndsSession(s)
    BY <1>1, <1>3, EndsSessionStep
  <1>4. CASE Continues(s, "reading", FALSE)
    BY <1>1, <1>2, <1>4, ContinuesStep
  <1>5. CASE connect(s)
    BY <1>1, <1>2, <1>5, ContinuesStep DEF connect
  <1>6. CASE Continues(s, "refusing", backend[s])
    BY <1>1, <1>2, <1>6, ContinuesStep
  <1>7. CASE backend[s] /\ Continues(s, "relaying", TRUE)
    BY <1>1, <1>2, <1>7, ContinuesStep
  <1> QED BY <1>2, <1>3, <1>4, <1>5, <1>6, <1>7 DEF RunSession

-----------------------------------------------------------------------------
(* The theorems *)

\* IInv is inductive.
LEMMA NextStep == IInv /\ [Next]_vars => IInv'
  <1> SUFFICES ASSUME IInv, [Next]_vars PROVE IInv'
    OBVIOUS
  <1>1. ASSUME NEW c \in Clients, Connect(c) \/ HangUp(c) PROVE IInv'
    BY <1>1, ConnectStep, HangUpStep
  <1>2. CASE AcceptCompletes
    BY <1>2, AcceptCompletesStep
  <1>3. ASSUME NEW s \in Addresses, OpCompletes(s) PROVE IInv'
    BY <1>3, OpCompletesStep
  <1>4. ASSUME NEW t \in Threads, ThreadStep(t) PROVE IInv'
    BY <1>4, DispatchStep, startStep, after_errorStep, start_acceptStep, RunSessionStep,
       ThrowsStep DEF ThreadStep, read_throws
  <1>5. CASE UNCHANGED vars
    <2>1. UNCHANGED <<client, backlog, queue, running, accepting, new_connection, live, stage, op,
                      peer, backend, up>>
      BY <1>5 DEF vars
    <2>2. TypeOK'
      BY <2>1 DEF IInv, TypeOK
    <2>3. Chains' /\ Prepared' /\ Accepted' /\ AcceptsIntoFreshSession'
      BY <2>1 DEF IInv, Chains, AcceptChain, HandlerChain, OneOf, NoneOf, Prepared, Accepted,
                  AcceptsIntoFreshSession
    <2>4. Clean' /\ Served' /\ Relays' /\ Kept'
      BY <2>1 DEF IInv, Clean, Served, Relays, Kept
    <2>5. Bounded' /\ Apart'
      BY <2>1 DEF IInv, Bounded, InUse, Apart, Outside
    <2> QED BY <2>2, <2>3, <2>4, <2>5 DEF IInv
  <1> QED BY <1>1, <1>2, <1>3, <1>4, <1>5 DEF Next

\* IInv holds in every behaviour.
LEMMA Inductive == Spec => []IInv
BY InitStep, NextStep, PTL DEF Spec

\* The variables of the server keep their sorts, and new_connection_ refers to a
\* session that lives, for any number of clients, threads and descriptors.
THEOREM ServerTypeCorrect == Spec => []TypeOK
  <1>1. IInv => TypeOK
    BY DEF IInv
  <1> QED BY <1>1, Inductive, PTL

\* No session is destroyed while an operation or a handler of it is pending,
\* however the threads of the pool interleave: start_accept's reset of
\* new_connection_ never takes an object from under a handler.
THEOREM NoHandlerOutlivesItsSession == Spec => []SessionOutlivesItsHandlers
  <1>1. IInv => SessionOutlivesItsHandlers
    <2> SUFFICES ASSUME IInv, NEW s \in Addresses,
                        \/ op[s] # "none"
                        \/ <<"session", s>> \in ToSet(queue) \cup {running[t] : t \in Threads}
                 PROVE  s \in live
      BY DEF SessionOutlivesItsHandlers
    <2>1. op[s] # "none"
      <3>1. ASSUME op[s] = "none" PROVE NoneOf(Handler(s))
        BY <3>1 DEF IInv, Chains, HandlerChain
      <3>2. DOMAIN queue = 1..Len(queue)
        BY DEF IInv, TypeOK
      <3> QED BY <3>1, <3>2 DEF NoneOf, Handler, ToSet
    <2> QED BY <2>1 DEF IInv, Clean
  <1> QED BY <1>1, Inductive, PTL

\* Every accept fills a session on which nothing runs and that has no client:
\* start_accept replaces new_connection_ before async_accept.
THEOREM FreshSessionForEveryAccept == Spec => []AcceptsIntoFreshSession
  <1>1. IInv => AcceptsIntoFreshSession
    BY DEF IInv
  <1> QED BY <1>1, Inductive, PTL

\* No object is leaked, no client is served twice, and the process never has
\* more sockets than descriptors, whatever fails at the limit.
THEOREM NoLeak == Spec => []NothingLeaked
  <1>1. IInv => NothingLeaked
    BY DEF IInv, Bounded, Kept, Apart, NothingLeaked
  <1> QED BY <1>1, Inductive, PTL
=============================================================================
