--------------------------- MODULE EventLoop_proofs ---------------------------
(***************************************************************************)
(* For every number of descriptors, clients and workers: the state of      *)
(* EventLoop stays well typed, no event is handled on an empty timer slot, *)
(* every accepted descriptor has a timer, and the Reactor's busy wait      *)
(* waits for a request that is queued or in work, in both actor models and *)
(* whatever the timing.  Without requests that process_write refuses, the  *)
(* user table and the user count are exact.  In the Proactor, while no     *)
(* timeout elapses on a connection in work, one thread at a time has a     *)
(* connection and a response goes to the client that asked.                *)
(***************************************************************************)
EXTENDS EventLoop, FiniteSetTheorems, TLAPS

\* A descriptor registered with epoll, or named in the batch being handled,
\* has a timer; the main thread spins on a descriptor with a timer and without
\* a further event; a worker that is not idle holds a descriptor.
RegisteredTimed == \A f \in Fd : epoll[f] # "none" => timer[f] # "null"
EventTimed      == \A f \in Fd : events[f] # "none" => timer[f] # "null"
SpinTimed       == mpc = "spin" => /\ cur \in Fd /\ timer[cur] # "null"
                                   /\ events[cur] = "none"
WorkerHolds     == \A w \in Worker : wpc[w] # "idle" => wfd[w] \in Fd

IInv == /\ TypeOK /\ NoNullTimer /\ EveryDescriptorTimed
        /\ RegisteredTimed /\ EventTimed /\ SpinTimed /\ WorkerHolds

Assumptions == /\ Fd \subseteq Nat /\ IsFiniteSet(Fd) /\ NoFd \notin Fd
               /\ Listen \notin Fd /\ Pipe \notin Fd /\ Listen # Pipe
               /\ NoClient \notin Client
               /\ MAX_FD \in Nat \ {0} /\ MaxRequests \in Nat \ {0}
               /\ MaxSend \in Nat /\ RespPieces \in Nat \ {0}

\* The assumptions on the constants, under one name.
LEMMA AssumptionsHold == Assumptions
BY FdAssumption, ClientAssumption, BoundAssumption DEF Assumptions

\* Updating one field of a connection object with a value of its type.
LEMMA ConnField ==
  ASSUME NEW r \in Conn
  PROVE  /\ \A b \in 0..1 : /\ [r EXCEPT !.improv = b] \in Conn
                          /\ [r EXCEPT !.timer_flag = b] \in Conn
                          /\ [r EXCEPT !.m_state = b] \in Conn
         /\ \A c \in Client \cup {NoClient} : /\ [r EXCEPT !.buf = c] \in Conn
                                             /\ [r EXCEPT !.resp = c] \in Conn
                                             /\ [r EXCEPT !.m_address = c] \in Conn
         /\ \A n \in 0..RespPieces : [r EXCEPT !.bytes_to_send = n] \in Conn
         /\ \A f \in Fd \cup {NoFd} : [r EXCEPT !.m_sockfd = f] \in Conn
BY DEF Conn

\* Small numbers are flags, and 0 and RespPieces are possible remainders.
LEMMA Ranges == /\ 0 \in 0..1 /\ 1 \in 0..1
                /\ 0 \in 0..RespPieces /\ RespPieces \in 0..RespPieces
                /\ NoClient \in Client \cup {NoClient} /\ NoFd \in Fd \cup {NoFd}
BY AssumptionsHold DEF Assumptions

\* init() leaves a connection object, whatever it held.
LEMMA FreshType ==
  ASSUME NEW r \in Conn PROVE fresh(r) \in Conn
BY ConnField, Ranges DEF fresh

\* Every outcome of write() is typed.
LEMMA WriteType ==
  ASSUME NEW f \in Fd, conn[f] \in Conn, NEW res \in WriteResults(f)
  PROVE  res.rec \in Conn /\ res.arm \in {"in", "out", "keep"}
<1>1. fresh(conn[f]) \in Conn
  BY FreshType
<1>2. \A n \in 0..RespPieces : [conn[f] EXCEPT !.bytes_to_send = n] \in Conn
  BY ConnField
<1>3. conn[f].bytes_to_send \in 0..RespPieces
  BY DEF Conn
<1>4. 1..(conn[f].bytes_to_send - 1) \subseteq 0..RespPieces
  BY <1>3, AssumptionsHold DEF Assumptions
<1>5. CASE conn[f].bytes_to_send = 0
  <2>1. WriteResults(f) = {[ok |-> TRUE, rec |-> fresh(conn[f]), arm |-> "in"]}
    BY <1>5, Zenon DEF WriteResults
  <2>2. res = [ok |-> TRUE, rec |-> fresh(conn[f]), arm |-> "in"]
    BY <2>1
  <2> QED
    BY <1>1, <2>2
<1>6. CASE conn[f].bytes_to_send # 0
  <2> DEFINE Failed == [ok |-> FALSE, rec |-> conn[f], arm |-> "keep"]
             Part(n) == [ok |-> TRUE, rec |-> [conn[f] EXCEPT !.bytes_to_send = n],
                         arm |-> "out"]
             Done(l) == [ok |-> l, rec |-> IF l THEN fresh(conn[f])
                                  ELSE [conn[f] EXCEPT !.bytes_to_send = 0], arm |-> "in"]
  <2>1. \/ res = Failed
        \/ \E n \in 1..(conn[f].bytes_to_send - 1) : res = Part(n)
        \/ \E l \in BOOLEAN : res = Done(l)
    <3>1. WriteResults(f) \subseteq {Failed} \cup {Part(n) : n \in 1..(conn[f].bytes_to_send - 1)}
                                   \cup {Done(l) : l \in BOOLEAN}
      BY <1>6, Zenon DEF WriteResults
    <3> QED
      BY <3>1
  <2>2. CASE res = Failed
    BY <2>2
  <2>3. CASE \E n \in 1..(conn[f].bytes_to_send - 1) : res = Part(n)
    BY <2>3, <1>2, <1>4
  <2>4. CASE \E l \in BOOLEAN : res = Done(l)
    BY <2>4, <1>1, <1>2, Ranges
  <2> QED
    BY <2>1, <2>2, <2>3, <2>4
<1> QED
  BY <1>5, <1>6

\* Re-arming a descriptor never registers one that was not registered.
LEMMA ModfdType ==
  ASSUME epoll \in [Fd -> {"none", "off", "in", "out"}], NEW fd, NEW ev \in {"in", "out"}
  PROVE  /\ modfd(fd, ev) \in [Fd -> {"none", "off", "in", "out"}]
         /\ \A f \in Fd : modfd(fd, ev)[f] # "none" => epoll[f] # "none"
BY DEF modfd

\* The timer callback leaves a typed state in which the closed descriptors have
\* no socket and no registration, and no other slot is touched.
LEMMA CbFuncType ==
  ASSUME TypeOK, NEW S \in SUBSET Fd, cb_func(S)
  PROVE  /\ sock' \in [Fd -> Client \cup {NoClient}]
         /\ epoll' \in [Fd -> {"none", "off", "in", "out"}]
         /\ timer' \in [Fd -> {"null", "fresh", "due"}]
         /\ m_user_count' \in Int
         /\ \A f \in S : sock'[f] = NoClient /\ epoll'[f] = "none"
         /\ \A f \in Fd \ S : sock'[f] = sock[f] /\ epoll'[f] = epoll[f] /\ timer'[f] = timer[f]
<1>1. IsFiniteSet(S)
  BY FS_Subset, AssumptionsHold DEF Assumptions
<1>2. Cardinality(S) \in Nat
  BY <1>1, FS_CardinalityType
<1> QED
  BY <1>2 DEF TypeOK, cb_func

\* The server starts without connections, events or timers.
LEMMA InitInv == Init => IInv
<1> SUFFICES ASSUME Init PROVE IInv
  OBVIOUS
<1>1. \A f \in Fd : conn[f] \in Conn
  <2> DEFINE unused == [m_sockfd |-> NoFd, m_address |-> NoClient, improv |-> 0,
                        timer_flag |-> 0, m_state |-> 0, buf |-> NoClient,
                        resp |-> NoClient, bytes_to_send |-> 0]
  <2>1. unused \in Conn
    BY Ranges DEF Conn
  <2>2. conn = [f \in Fd |-> unused]
    BY DEF Init
  <2> QED
    BY <2>1, <2>2
<1>2. conn \in [Fd -> Conn]
  BY <1>1 DEF Init
<1>3. TypeOK
  <2>1. 0 \in 0..MaxSend /\ 0 <= MaxRequests
    BY AssumptionsHold DEF Assumptions
  <2>2. m_workqueue \in Seq(Fd) /\ Len(m_workqueue) <= MaxRequests
    BY <2>1 DEF Init
  <2>3. /\ inbox \in [Client -> BOOLEAN] /\ gone \in [Client -> BOOLEAN]
        /\ edge \in BOOLEAN /\ timeout \in BOOLEAN /\ stop_server \in BOOLEAN
    BY DEF Init
  <2>4. events \in [Source -> Kinds] /\ wpc \in [Worker -> WorkerPc]
    BY DEF Init, Kinds, WorkerPc
  <2> QED
    BY <1>2, <2>1, <2>2, <2>3, <2>4 DEF Init, TypeOK
<1>4. NoNullTimer /\ EveryDescriptorTimed /\ RegisteredTimed /\ EventTimed
  BY DEF Init, NoNullTimer, EveryDescriptorTimed, RegisteredTimed, EventTimed, Source
<1>5. SpinTimed /\ WorkerHolds
  BY DEF Init, SpinTimed, WorkerHolds
<1> QED
  BY <1>3, <1>4, <1>5 DEF IInv

\* Clients, the clock and signals do not touch sockets, registrations or events.
\* A new client waits in the accept queue.
LEMMA ConnectInv ==
  ASSUME IInv, NEW c \in Client, Connect(c) PROVE IInv'
<1> USE DEF IInv, vars, kernelVars, clientVars, mainVars, workerVars
<1>1. TypeOK'
  BY AssumptionsHold DEF Assumptions, TypeOK, Connect
<1>2. (NoNullTimer /\ EveryDescriptorTimed /\ RegisteredTimed /\ EventTimed)'
  BY AssumptionsHold DEF Assumptions, TypeOK, NoNullTimer, EveryDescriptorTimed,
     RegisteredTimed, EventTimed, Connect
<1>3. (SpinTimed /\ WorkerHolds)'
  BY AssumptionsHold DEF Assumptions, TypeOK, SpinTimed, WorkerHolds, Connect
<1> QED
  BY <1>1, <1>2, <1>3

\* Data that arrives touches no descriptor.
LEMMA SendInv ==
  ASSUME IInv, NEW c \in Client, Send(c) PROVE IInv'
<1> USE DEF IInv, vars, kernelVars, clientVars, mainVars, workerVars
<1>1. TypeOK'
  BY AssumptionsHold DEF Assumptions, TypeOK, Send
<1>2. (NoNullTimer /\ EveryDescriptorTimed /\ RegisteredTimed /\ EventTimed)'
  BY AssumptionsHold DEF Assumptions, TypeOK, NoNullTimer, EveryDescriptorTimed,
     RegisteredTimed, EventTimed, Send
<1>3. (SpinTimed /\ WorkerHolds)'
  BY AssumptionsHold DEF Assumptions, TypeOK, SpinTimed, WorkerHolds, Send
<1> QED
  BY <1>1, <1>2, <1>3

\* Nor does a client that hangs up: the server has not seen it yet.
LEMMA HangupInv ==
  ASSUME IInv, NEW c \in Client, Hangup(c) PROVE IInv'
<1> USE DEF IInv, vars, kernelVars, clientVars, mainVars, workerVars
<1>1. TypeOK'
  BY AssumptionsHold DEF Assumptions, TypeOK, Hangup
<1>2. (NoNullTimer /\ EveryDescriptorTimed /\ RegisteredTimed /\ EventTimed)'
  BY AssumptionsHold DEF Assumptions, TypeOK, NoNullTimer, EveryDescriptorTimed,
     RegisteredTimed, EventTimed, Hangup
<1>3. (SpinTimed /\ WorkerHolds)'
  BY AssumptionsHold DEF Assumptions, TypeOK, SpinTimed, WorkerHolds, Hangup
<1> QED
  BY <1>1, <1>2, <1>3

\* A timeout turns a "fresh" slot into a "due" one and empties none.
LEMMA TimePassesInv ==
  ASSUME IInv, NEW f \in Fd, TimePasses(f) PROVE IInv'
<1> USE DEF IInv, vars, kernelVars, clientVars, mainVars, workerVars
<1>1. TypeOK'
  BY AssumptionsHold DEF Assumptions, TypeOK, TimePasses
<1>2. (NoNullTimer /\ EveryDescriptorTimed /\ RegisteredTimed /\ EventTimed)'
  BY AssumptionsHold DEF Assumptions, TypeOK, NoNullTimer, EveryDescriptorTimed,
     RegisteredTimed, EventTimed, TimePasses
<1>3. (SpinTimed /\ WorkerHolds)'
  BY AssumptionsHold DEF Assumptions, TypeOK, SpinTimed, WorkerHolds, TimePasses
<1> QED
  BY <1>1, <1>2, <1>3

\* A signal is a byte in the pipe.
LEMMA SignalInv ==
  ASSUME IInv, NEW s \in Signals, sig_handler(s) PROVE IInv'
<1> USE DEF IInv, vars, kernelVars, clientVars, mainVars, workerVars
<1>1. TypeOK'
  BY AssumptionsHold DEF Assumptions, TypeOK, sig_handler
<1>2. (NoNullTimer /\ EveryDescriptorTimed /\ RegisteredTimed /\ EventTimed)'
  BY AssumptionsHold DEF Assumptions, TypeOK, NoNullTimer, EveryDescriptorTimed,
     RegisteredTimed, EventTimed, sig_handler
<1>3. (SpinTimed /\ WorkerHolds)'
  BY AssumptionsHold DEF Assumptions, TypeOK, SpinTimed, WorkerHolds, sig_handler
<1> QED
  BY <1>1, <1>2, <1>3

\* epoll_wait reports a descriptor only if it is registered.
LEMMA EpollWaitInv ==
  ASSUME IInv, epoll_wait PROVE IInv'
<1> USE DEF IInv, vars, kernelVars, clientVars, mainVars, workerVars
<1>1. TypeOK'
  BY AssumptionsHold DEF Assumptions, TypeOK, epoll_wait, Ready, EventOf, Source, Kinds
<1>2. (NoNullTimer /\ EveryDescriptorTimed /\ RegisteredTimed /\ EventTimed)'
  BY AssumptionsHold DEF Assumptions, TypeOK, NoNullTimer, EveryDescriptorTimed,
     RegisteredTimed, EventTimed, epoll_wait, Ready, EventOf, Source, Kinds
<1>3. (SpinTimed /\ WorkerHolds)'
  BY AssumptionsHold
     DEF Assumptions, TypeOK, SpinTimed, WorkerHolds, epoll_wait, Ready, EventOf, Source, Kinds
<1> QED
  BY <1>1, <1>2, <1>3

\* Reading the signal pipe touches no connection.
LEMMA DealSignalInv ==
  ASSUME IInv, dealwithsignal PROVE IInv'
<1> USE DEF IInv, vars, kernelVars, clientVars, mainVars, workerVars
<1>1. TypeOK'
  BY AssumptionsHold DEF Assumptions, TypeOK, dealwithsignal, Taken, Source, Kinds
<1>2. (NoNullTimer /\ EveryDescriptorTimed /\ RegisteredTimed /\ EventTimed)'
  BY AssumptionsHold DEF Assumptions, TypeOK, NoNullTimer, EveryDescriptorTimed,
     RegisteredTimed, EventTimed, dealwithsignal, Taken, Source, Kinds
<1>3. (SpinTimed /\ WorkerHolds)'
  BY AssumptionsHold
     DEF Assumptions, TypeOK, SpinTimed, WorkerHolds, dealwithsignal, Taken, Source, Kinds
<1> QED
  BY <1>1, <1>2, <1>3

\* A worker takes a descriptor off the queue.
LEMMA TakeInv ==
  ASSUME IInv, NEW w \in Worker, TakeRequest(w) PROVE IInv'
<1> USE DEF IInv, vars, kernelVars, clientVars, mainVars, workerVars
<1>1. TypeOK'
  BY AssumptionsHold DEF Assumptions, TypeOK, WorkerPc, TakeRequest, Goto
<1>2. (NoNullTimer /\ EveryDescriptorTimed /\ RegisteredTimed /\ EventTimed)'
  BY AssumptionsHold DEF Assumptions, TypeOK, NoNullTimer, EveryDescriptorTimed,
     RegisteredTimed, EventTimed, TakeRequest, Goto
<1>3. (SpinTimed /\ WorkerHolds)'
  BY AssumptionsHold DEF Assumptions, TypeOK, SpinTimed, WorkerHolds, TakeRequest, Goto
<1> QED
  BY <1>1, <1>2, <1>3

\* removing a due or hung-up descriptor: del_timer on a slot that is not empty
LEMMA DelTimerInv ==
  ASSUME TypeOK, NEW f \in Fd, timer[f] # "null", del_timer(f)
  PROVE  mpc' = "dispatch" /\ cb_func({f})
BY DEF del_timer

\* One accepted client: refused at the limit, set up with a timer, or handed a number
\* whose old timer is still in the slot.
LEMMA AcceptOneInv ==
  ASSUME IInv, NEW more \in {"dispatch", "accept"}, AcceptOne(more),
         UNCHANGED <<edge, clientVars, cur, timeout, stop_server, m_workqueue, workerVars>>,
         events' \in [Source -> Kinds], \A f \in Fd : events'[f] = events[f]
  PROVE  IInv'
<1> USE DEF IInv, clientVars, workerVars
<1>1. PICK c \in backlog, f \in Fd :
        /\ LowestFree(f) /\ backlog' = backlog \ {c}
        /\ \/ mpc' = "dispatch" /\ UNCHANGED <<sock, epoll, conn, timer, m_user_count>>
           \/ create_user(f, c) /\ mpc' = more
           \/ /\ timer[f] # "null" /\ mpc' = more
              /\ sock' = [sock EXCEPT ![f] = c]
              /\ UNCHANGED <<epoll, conn, timer, m_user_count>>
  BY DEF AcceptOne
<1>2. c \in Client /\ conn[f] \in Conn
  BY DEF TypeOK
<1>3. fresh([conn[f] EXCEPT !.m_sockfd = f, !.m_address = c]) \in Conn
  BY <1>2, ConnField, FreshType
<1>4. TypeOK'
  <2>1. backlog' \subseteq Client /\ mpc' \in {"dispatch", "accept"}
    BY <1>1 DEF TypeOK
  <2>2. /\ sock' \in [Fd -> Client \cup {NoClient}]
        /\ epoll' \in [Fd -> {"none", "off", "in", "out"}]
        /\ timer' \in [Fd -> {"null", "fresh", "due"}] /\ m_user_count' \in Int
    <3>1. \/ UNCHANGED <<sock, epoll, timer, m_user_count>>
          \/ /\ sock' = [sock EXCEPT ![f] = c]
             /\ UNCHANGED <<epoll, timer, m_user_count>>
          \/ /\ sock' = [sock EXCEPT ![f] = c] /\ epoll' = [epoll EXCEPT ![f] = "in"]
             /\ timer' = [timer EXCEPT ![f] = "fresh"] /\ m_user_count' = m_user_count + 1
      BY <1>1, Zenon DEF create_user
    <3>2. /\ sock \in [Fd -> Client \cup {NoClient}]
          /\ epoll \in [Fd -> {"none", "off", "in", "out"}]
          /\ timer \in [Fd -> {"null", "fresh", "due"}] /\ m_user_count \in Int
      BY DEF TypeOK
    <3>3. sock' = sock \/ sock' = [sock EXCEPT ![f] = c]
      BY <3>1
    <3>4. epoll' = epoll \/ epoll' = [epoll EXCEPT ![f] = "in"]
      BY <3>1
    <3>5. timer' = timer \/ timer' = [timer EXCEPT ![f] = "fresh"]
      BY <3>1
    <3>6. m_user_count' \in {m_user_count, m_user_count + 1}
      BY <3>1
    <3> QED
      BY <1>2, <3>2, <3>3, <3>4, <3>5, <3>6
  <2>3. conn' \in [Fd -> Conn]
    BY <1>1, <1>3 DEF TypeOK, create_user
  <2> QED
    BY <2>1, <2>2, <2>3 DEF TypeOK
<1>5. (NoNullTimer /\ EveryDescriptorTimed /\ RegisteredTimed /\ EventTimed)'
  BY <1>1, <1>2 DEF TypeOK, create_user, NoNullTimer, EveryDescriptorTimed,
                    RegisteredTimed, EventTimed
<1>6. (SpinTimed /\ WorkerHolds)'
  BY <1>1 DEF SpinTimed, WorkerHolds
<1> QED
  BY <1>4, <1>5, <1>6

\* dealclinetdata, with the first round or a later one of the accept loop.
LEMMA DealClientInv ==
  ASSUME IInv, dealclinetdata PROVE IInv'
<1> DEFINE same == UNCHANGED <<edge, clientVars, cur, timeout, stop_server, m_workqueue,
                               workerVars>>
<1>1. /\ events' \in [Source -> Kinds] /\ \A f \in Fd : events'[f] = events[f]
      /\ same
  <2>1. Listen \notin Fd /\ Listen \in Source /\ Fd \subseteq Source /\ "none" \in Kinds
    BY AssumptionsHold DEF Assumptions, Source, Kinds
  <2>2. events \in [Source -> Kinds]
    BY DEF IInv, TypeOK
  <2>3. Taken(Listen) \/ UNCHANGED events
    BY DEF dealclinetdata
  <2>4. same
    BY DEF dealclinetdata
  <2> QED
    BY <2>1, <2>2, <2>3, <2>4 DEF Taken
<1>2. (\E more \in {"dispatch", "accept"} : AcceptOne(more)) \/ AcceptFails
  BY DEF dealclinetdata
<1>3. CASE \E more \in {"dispatch", "accept"} : AcceptOne(more)
  BY <1>1, <1>3, AcceptOneInv
<1>4. CASE AcceptFails
  <2> USE DEF IInv, AcceptFails, clientVars, workerVars
  <2>1. TypeOK'
    BY <1>1, <1>4 DEF TypeOK
  <2>2. (NoNullTimer /\ EveryDescriptorTimed /\ RegisteredTimed /\ EventTimed)'
    BY <1>1, <1>4 DEF TypeOK, NoNullTimer, EveryDescriptorTimed, RegisteredTimed, EventTimed
  <2>3. (SpinTimed /\ WorkerHolds)'
    BY <1>1, <1>4 DEF SpinTimed, WorkerHolds
  <2> QED
    BY <2>1, <2>2, <2>3
<1> QED
  BY <1>2, <1>3, <1>4

\* closing descriptors, whoever asks for it: no event of the batch is left on them
LEMMA CloseInv ==
  ASSUME IInv, NEW S \in SUBSET Fd, cb_func(S), mpc' \in {"dispatch", "wait", "stopped"},
         conn' \in [Fd -> Conn], cur' \in Fd \cup {NoFd}, timeout' \in BOOLEAN,
         events' \in [Source -> Kinds], \A f \in S : events'[f] = "none",
         \A f \in Fd : events'[f] # "none" => events[f] # "none",
         UNCHANGED <<backlog, edge, clientVars, stop_server, m_workqueue, workerVars>>
  PROVE  IInv'
<1> USE DEF IInv, clientVars, workerVars
<1>1. TypeOK /\ EveryDescriptorTimed /\ RegisteredTimed /\ EventTimed /\ WorkerHolds
  OBVIOUS
<1>2. /\ sock' \in [Fd -> Client \cup {NoClient}]
      /\ epoll' \in [Fd -> {"none", "off", "in", "out"}]
      /\ timer' \in [Fd -> {"null", "fresh", "due"}] /\ m_user_count' \in Int
      /\ \A f \in S : sock'[f] = NoClient /\ epoll'[f] = "none"
      /\ \A f \in Fd \ S : /\ sock'[f] = sock[f] /\ epoll'[f] = epoll[f]
                           /\ timer'[f] = timer[f]
  BY <1>1, CbFuncType
<1>3. TypeOK'
  BY <1>1, <1>2 DEF TypeOK
<1>4. (NoNullTimer /\ EveryDescriptorTimed /\ RegisteredTimed /\ EventTimed)'
  BY <1>1, <1>2 DEF NoNullTimer, EveryDescriptorTimed, RegisteredTimed, EventTimed
<1>5. (SpinTimed /\ WorkerHolds)'
  BY <1>1 DEF SpinTimed, WorkerHolds
<1> QED
  BY <1>3, <1>4, <1>5

\* The hang-up branch of eventLoop: the event says that the slot is not empty.
LEMMA HangupEventInv ==
  ASSUME IInv, NEW f \in Fd, HandleHangup(f) PROVE IInv'
<1>1. TypeOK /\ timer[f] # "null"
  BY DEF IInv, EventTimed, HandleHangup
<1>2. mpc' = "dispatch" /\ cb_func({f})
  BY <1>1, DelTimerInv DEF HandleHangup
<1>3. /\ events' \in [Source -> Kinds] /\ \A g \in {f} : events'[g] = "none"
      /\ \A g \in Fd : events'[g] # "none" => events[g] # "none"
  BY <1>1 DEF HandleHangup, Taken, TypeOK, Source, Kinds
<1> QED
  BY <1>1, <1>2, <1>3, CloseInv, Zenon DEF HandleHangup, TypeOK

\* steps that change connection objects, queue and timers but close nothing
LEMMA ServeInv ==
  ASSUME IInv, conn' \in [Fd -> Conn], inbox' \in [Client -> BOOLEAN],
         epoll' \in [Fd -> {"none", "off", "in", "out"}],
         \A f \in Fd : epoll'[f] # "none" => epoll[f] # "none",
         timer' \in [Fd -> {"null", "fresh", "due"}],
         \A f \in Fd : timer[f] # "null" => timer'[f] # "null",
         mpc' \in {"wait", "dispatch", "accept", "spin", "stopped"}, SpinTimed',
         cur' \in Fd \cup {NoFd}, events' \in [Source -> Kinds],
         \A f \in Fd : events'[f] # "none" => events[f] # "none",
         m_workqueue' \in Seq(Fd) /\ Len(m_workqueue') <= MaxRequests,
         UNCHANGED <<sock, backlog, edge, dialed, sent, gone, sigs, timeout, stop_server,
                     m_user_count, workerVars>>
  PROVE  IInv'
<1> USE DEF IInv, workerVars
<1>1. TypeOK'
  BY DEF TypeOK
<1>2. (NoNullTimer /\ EveryDescriptorTimed /\ RegisteredTimed /\ EventTimed)'
  BY DEF TypeOK, NoNullTimer, EveryDescriptorTimed, RegisteredTimed, EventTimed
<1>3. (SpinTimed /\ WorkerHolds)'
  BY DEF WorkerHolds
<1> QED
  BY <1>1, <1>2, <1>3

\* append keeps the queue a queue of descriptors within its limit
LEMMA AppendType ==
  ASSUME TypeOK, NEW f \in Fd, append(f)
  PROVE  m_workqueue' \in Seq(Fd) /\ Len(m_workqueue') <= MaxRequests
BY AssumptionsHold DEF Assumptions, TypeOK, append, QueueFull

\* adjust_timer never empties a slot
LEMMA AdjustType ==
  ASSUME TypeOK, NEW f \in Fd, adjust_timer(f)
  PROVE  /\ timer' \in [Fd -> {"null", "fresh", "due"}]
         /\ \A g \in Fd : timer[g] # "null" => timer'[g] # "null"
BY DEF TypeOK, adjust_timer

\* a handled event leaves the batch typed and no descriptor newly in it
LEMMA TakenType ==
  ASSUME TypeOK, NEW e \in Source, Taken(e)
  PROVE  /\ events' \in [Source -> Kinds] /\ events'[e] = "none"
         /\ \A f \in Fd : events'[f] # "none" => events[f] # "none"
BY DEF TypeOK, Taken, Source, Kinds

\* read_once keeps the connection objects typed.
LEMMA ReceiveType ==
  ASSUME TypeOK, NEW f \in Fd, CanRead(f),
         inbox' = [inbox EXCEPT ![sock[f]] = FALSE]
  PROVE  /\ inbox' \in [Client -> BOOLEAN]
         /\ Filled(f) \in Conn
<1>1. sock[f] \in Client /\ conn[f] \in Conn
  BY DEF TypeOK, CanRead
<1>2. conn[f].buf \in Client \cup {NoClient}
  BY <1>1 DEF Conn
<1>3. (IF inbox[sock[f]] THEN sock[f] ELSE conn[f].buf) \in Client \cup {NoClient}
  BY <1>1, <1>2
<1>4. inbox' \in [Client -> BOOLEAN]
  BY <1>1 DEF TypeOK
<1>5. Filled(f) \in Conn
  BY <1>1, <1>3, ConnField DEF Filled
<1> QED
  BY <1>4, <1>5

\* dealwithread of the Proactor: read, then queue or delete the timer.
LEMMA ProactorReadInv ==
  ASSUME IInv, NEW f \in Fd, ProactorRead(f) PROVE IInv'
<1>1. TypeOK /\ timer[f] # "null" /\ conn[f] \in Conn /\ f \in Source /\ mpc = "dispatch"
  BY DEF IInv, EventTimed, ProactorRead, TypeOK, Source
<1>2. /\ events' \in [Source -> Kinds] /\ events'[f] = "none"
      /\ \A g \in Fd : events'[g] # "none" => events[g] # "none"
  BY <1>1, TakenType DEF ProactorRead
<1>3. CASE /\ CanRead(f) /\ Receive(f) /\ append(f) /\ adjust_timer(f)
           /\ UNCHANGED <<sock, epoll, m_user_count, mpc>>
  <2>1. conn' \in [Fd -> Conn] /\ inbox' \in [Client -> BOOLEAN]
    <3>1. conn' = [conn EXCEPT ![f] = Filled(f)]
      BY <1>3 DEF Receive
    <3>2. inbox' = [inbox EXCEPT ![sock[f]] = FALSE]
      BY <1>3 DEF Receive
    <3>3. /\ inbox' \in [Client -> BOOLEAN]
          /\ Filled(f) \in Conn
      BY <1>1, <1>3, <3>2, ReceiveType
    <3> QED
      BY <3>1, <3>3 DEF IInv, TypeOK
  <2>2. m_workqueue' \in Seq(Fd) /\ Len(m_workqueue') <= MaxRequests
    BY <1>1, <1>3, AppendType
  <2>3. /\ timer' \in [Fd -> {"null", "fresh", "due"}]
        /\ \A g \in Fd : timer[g] # "null" => timer'[g] # "null"
    BY <1>1, <1>3, AdjustType
  <2>4. mpc' = "dispatch" /\ SpinTimed'
    BY <1>1, <1>3 DEF SpinTimed
  <2>5. epoll' = epoll /\ epoll \in [Fd -> {"none", "off", "in", "out"}]
        /\ cur' = cur /\ cur \in Fd \cup {NoFd}
    BY <1>1, <1>3 DEF TypeOK, ProactorRead
  <2>6. UNCHANGED <<sock, backlog, edge, dialed, sent, gone, sigs, timeout, stop_server,
                    m_user_count, workerVars>>
    BY <1>3 DEF ProactorRead
  <2> QED
    BY <1>2, <2>1, <2>2, <2>3, <2>4, <2>5, <2>6, ServeInv
<1>4. CASE del_timer(f) /\ UNCHANGED <<conn, inbox, m_workqueue>>
  <2>1. mpc' = "dispatch" /\ cb_func({f})
    BY <1>1, <1>4, DelTimerInv
  <2>2. /\ conn' \in [Fd -> Conn] /\ cur' \in Fd \cup {NoFd} /\ timeout' \in BOOLEAN
        /\ UNCHANGED <<backlog, edge, clientVars, stop_server, m_workqueue, workerVars>>
    BY <1>1, <1>4 DEF ProactorRead, TypeOK, clientVars
  <2> QED
    BY <1>2, <2>1, <2>2, CloseInv
<1> QED
  BY <1>3, <1>4, Zenon DEF ProactorRead

\* what the descriptor is re-armed for after write(): registered ones only
LEMMA RearmedType ==
  ASSUME TypeOK, NEW f, NEW arm \in {"in", "out", "keep"}
  PROVE  /\ Rearmed(f, arm) \in [Fd -> {"none", "off", "in", "out"}]
         /\ \A g \in Fd : Rearmed(f, arm)[g] # "none" => epoll[g] # "none"
<1>1. epoll \in [Fd -> {"none", "off", "in", "out"}]
  BY DEF TypeOK
<1> QED
  BY <1>1, ModfdType DEF Rearmed

\* dealwithwrite of the Proactor: write, then postpone or delete the timer.
LEMMA ProactorWriteInv ==
  ASSUME IInv, NEW f \in Fd, ProactorWrite(f) PROVE IInv'
<1>1. TypeOK /\ timer[f] # "null" /\ conn[f] \in Conn /\ f \in Source /\ mpc = "dispatch"
  BY DEF IInv, EventTimed, ProactorWrite, TypeOK, Source
<1>2. /\ events' \in [Source -> Kinds] /\ events'[f] = "none"
      /\ \A g \in Fd : events'[g] # "none" => events[g] # "none"
  BY <1>1, TakenType DEF ProactorWrite
<1>3. PICK res \in WriteResults(f) :
        \/ /\ conn' = [conn EXCEPT ![f] = res.rec] /\ epoll' = Rearmed(f, res.arm)
           /\ adjust_timer(f) /\ UNCHANGED <<sock, m_user_count, mpc>>
        \/ conn' = [conn EXCEPT ![f] = res.rec] /\ del_timer(f)
  BY DEF ProactorWrite
<1>4. conn' \in [Fd -> Conn] /\ res.arm \in {"in", "out", "keep"}
  <2>1. res.rec \in Conn /\ res.arm \in {"in", "out", "keep"}
    BY <1>1, WriteType
  <2> QED
    BY <1>1, <1>3, <2>1 DEF TypeOK
<1>5. /\ cur' = cur /\ cur \in Fd \cup {NoFd} /\ timeout' \in BOOLEAN
      /\ UNCHANGED <<backlog, edge, clientVars, timeout, stop_server, m_workqueue, workerVars>>
  BY <1>1 DEF ProactorWrite, TypeOK
<1>6. CASE /\ epoll' = Rearmed(f, res.arm) /\ adjust_timer(f)
           /\ UNCHANGED <<sock, m_user_count, mpc>>
  <2>1. /\ epoll' \in [Fd -> {"none", "off", "in", "out"}]
        /\ \A g \in Fd : epoll'[g] # "none" => epoll[g] # "none"
    BY <1>1, <1>4, <1>6, RearmedType
  <2>2. /\ timer' \in [Fd -> {"null", "fresh", "due"}]
        /\ \A g \in Fd : timer[g] # "null" => timer'[g] # "null"
    BY <1>1, <1>6, AdjustType
  <2>3. mpc' = "dispatch" /\ SpinTimed'
    BY <1>1, <1>6 DEF SpinTimed
  <2>4. /\ inbox' \in [Client -> BOOLEAN]
        /\ m_workqueue' \in Seq(Fd) /\ Len(m_workqueue') <= MaxRequests
        /\ UNCHANGED <<sock, backlog, edge, dialed, sent, gone, sigs, timeout, stop_server,
                       m_user_count, workerVars>>
    BY <1>1, <1>5, <1>6 DEF TypeOK, clientVars
  <2> QED
    BY <1>2, <1>4, <1>5, <2>1, <2>2, <2>3, <2>4, ServeInv
<1>7. CASE del_timer(f)
  <2>1. mpc' = "dispatch" /\ cb_func({f})
    BY <1>1, <1>7, DelTimerInv
  <2> QED
    BY <1>2, <1>4, <1>5, <2>1, CloseInv
<1> QED
  BY <1>3, <1>6, <1>7

\* The Reactor starts to spin on a descriptor whose event it took off the batch.
LEMMA ReactorDispatchInv ==
  ASSUME IInv, NEW f \in Fd, ReactorDispatch(f) PROVE IInv'
<1>1. TypeOK /\ timer[f] # "null" /\ conn[f] \in Conn /\ f \in Source
  BY DEF IInv, EventTimed, ReactorDispatch, TypeOK, Source
<1>2. /\ events' \in [Source -> Kinds] /\ events'[f] = "none"
      /\ \A g \in Fd : events'[g] # "none" => events[g] # "none"
  BY <1>1, TakenType DEF ReactorDispatch
<1>3. conn' \in [Fd -> Conn]
  <2> DEFINE state == IF events[f] = "in" THEN 0 ELSE 1
             told == [conn[f] EXCEPT !.m_state = state]
  <2>1. told \in Conn
    BY <1>1, ConnField, Ranges
  <2>2. conn' = conn \/ conn' = [conn EXCEPT ![f] = told]
    BY Zenon DEF ReactorDispatch
  <2> QED
    BY <1>1, <2>1, <2>2 DEF TypeOK
<1>4. m_workqueue' \in Seq(Fd) /\ Len(m_workqueue') <= MaxRequests
  BY <1>1, AppendType DEF ReactorDispatch
<1>5. /\ timer' \in [Fd -> {"null", "fresh", "due"}]
      /\ \A g \in Fd : timer[g] # "null" => timer'[g] # "null"
  BY <1>1, AdjustType DEF ReactorDispatch
<1>6. mpc' = "spin" /\ cur' = f
  BY DEF ReactorDispatch
<1>7. SpinTimed'
  BY <1>1, <1>2, <1>5, <1>6 DEF SpinTimed
<1>8. /\ epoll' \in [Fd -> {"none", "off", "in", "out"}] /\ epoll' = epoll
      /\ inbox' \in [Client -> BOOLEAN]
      /\ UNCHANGED <<sock, backlog, edge, dialed, sent, gone, sigs, timeout, stop_server,
                     m_user_count, workerVars>>
  BY <1>1 DEF ReactorDispatch, kernelVars, clientVars, TypeOK
<1> QED
  BY <1>2, <1>3, <1>4, <1>5, <1>6, <1>7, <1>8, ServeInv

\* It leaves the spin on the same descriptor, whose timer is still there.
LEMMA SpinExitInv ==
  ASSUME IInv, SpinExit PROVE IInv'
<1>1. /\ TypeOK /\ cur \in Fd /\ timer[cur] # "null" /\ events[cur] = "none"
      /\ conn[cur] \in Conn
  BY DEF IInv, SpinTimed, SpinExit, TypeOK
<1>2. conn' \in [Fd -> Conn]
  <2> DEFINE down == [conn[cur] EXCEPT !.improv = 0]
             clear == [[conn[cur] EXCEPT !.timer_flag = 0] EXCEPT !.improv = 0]
  <2>1. down \in Conn /\ clear \in Conn
    BY <1>1, ConnField, Ranges
  <2>2. conn' = [conn EXCEPT ![cur] = clear] \/ conn' = [conn EXCEPT ![cur] = down]
    BY DEF SpinExit
  <2> QED
    BY <1>1, <2>1, <2>2 DEF TypeOK
<1>3. /\ events' = events /\ events \in [Source -> Kinds] /\ timeout' \in BOOLEAN
      /\ cur' \in Fd \cup {NoFd}
      /\ UNCHANGED <<backlog, edge, clientVars, timeout, stop_server, m_workqueue, workerVars>>
  BY <1>1 DEF SpinExit, TypeOK
<1>4. CASE del_timer(cur)
  <2>1. mpc' = "dispatch" /\ cb_func({cur})
    BY <1>1, <1>4, DelTimerInv
  <2> QED
    BY <1>1, <1>2, <1>3, <2>1, CloseInv
<1>5. CASE mpc' = "dispatch" /\ UNCHANGED <<sock, epoll, timer, m_user_count>>
  <2>1. /\ epoll' \in [Fd -> {"none", "off", "in", "out"}] /\ epoll' = epoll
        /\ timer' \in [Fd -> {"null", "fresh", "due"}] /\ timer' = timer
        /\ inbox' \in [Client -> BOOLEAN] /\ SpinTimed'
        /\ m_workqueue' \in Seq(Fd) /\ Len(m_workqueue') <= MaxRequests
        /\ UNCHANGED <<sock, backlog, edge, dialed, sent, gone, sigs, timeout, stop_server,
                       m_user_count, workerVars>>
    BY <1>1, <1>3, <1>5 DEF clientVars, TypeOK, SpinTimed
  <2> QED
    BY <1>2, <1>3, <1>5, <2>1, ServeInv
<1> QED
  BY <1>4, <1>5 DEF SpinExit

\* timer_handler runs with an empty batch: it can empty any slot.
LEMMA EndOfBatchInv ==
  ASSUME IInv, EndOfBatch PROVE IInv'
<1>1. /\ TypeOK /\ \A f \in Fd : events[f] = "none"
      /\ events' = events /\ events \in [Source -> Kinds] /\ conn' = conn
      /\ conn \in [Fd -> Conn] /\ timeout' \in BOOLEAN /\ cur' \in Fd \cup {NoFd}
      /\ mpc' \in {"wait", "stopped"}
      /\ UNCHANGED <<backlog, edge, clientVars, stop_server, m_workqueue, workerVars>>
  BY DEF IInv, EndOfBatch, NoEvent, Source, TypeOK
<1>2. CASE \E S \in SUBSET Fd : cb_func(S)
  BY <1>1, <1>2, CloseInv
<1>3. CASE UNCHANGED <<sock, epoll, timer, m_user_count>>
  <2>1. TypeOK'
    BY <1>1, <1>3 DEF TypeOK, clientVars, workerVars
  <2>2. (NoNullTimer /\ EveryDescriptorTimed /\ RegisteredTimed /\ EventTimed)'
    BY <1>1, <1>3 DEF IInv, NoNullTimer, EveryDescriptorTimed, RegisteredTimed, EventTimed
  <2>3. (SpinTimed /\ WorkerHolds)'
    BY <1>1, <1>3 DEF IInv, SpinTimed, WorkerHolds, workerVars
  <2> QED
    BY <2>1, <2>2, <2>3 DEF IInv
<1>4. (\E S \in SUBSET Fd : cb_func(S)) \/ UNCHANGED <<sock, epoll, timer, m_user_count>>
  BY DEF EndOfBatch
<1> QED
  BY <1>2, <1>3, <1>4

-----------------------------------------------------------------------------
\* A worker's step neither gives a number to a new connection nor registers one,
\* and leaves timers, events and the main thread's position alone.
LEMMA WorkerInv ==
  ASSUME IInv, conn' \in [Fd -> Conn], inbox' \in [Client -> BOOLEAN],
         sock' \in [Fd -> Client \cup {NoClient}],
         \A f \in Fd : sock'[f] # NoClient => sock[f] # NoClient,
         epoll' \in [Fd -> {"none", "off", "in", "out"}],
         \A f \in Fd : epoll'[f] # "none" => epoll[f] # "none",
         m_user_count' \in Int, wtmp' \in [Worker -> Int],
         wreq' \in [Worker -> Client \cup {NoClient}],
         wpc' \in [Worker -> WorkerPc],
         wfd' \in [Worker -> Fd \cup {NoFd}], WorkerHolds',
         UNCHANGED <<backlog, edge, dialed, sent, gone, sigs, mainVars, timer, m_workqueue>>
  PROVE  IInv'
<1> USE DEF IInv, mainVars
<1>1. TypeOK'
  BY DEF TypeOK
<1>2. (NoNullTimer /\ EveryDescriptorTimed /\ RegisteredTimed /\ EventTimed)'
  BY DEF TypeOK, NoNullTimer, EveryDescriptorTimed, RegisteredTimed, EventTimed
<1>3. SpinTimed'
  BY DEF SpinTimed
<1> QED
  BY <1>1, <1>2, <1>3

\* A worker keeps a descriptor in hand until it is idle again.
LEMMA GotoType ==
  ASSUME TypeOK, WorkerHolds, NEW w \in Worker, wpc[w] # "idle",
         NEW l \in WorkerPc, Goto(w, l)
  PROVE  /\ wpc' \in [Worker -> WorkerPc]
         /\ wfd' \in [Worker -> Fd \cup {NoFd}] /\ WorkerHolds'
BY DEF TypeOK, WorkerHolds, Goto

\* run, Reactor: read_once.
LEMMA WorkerReadInv ==
  ASSUME IInv, NEW w \in Worker, WorkerRead(w) PROVE IInv'
<1> DEFINE f == wfd[w]
<1>1. TypeOK /\ WorkerHolds /\ wpc[w] # "idle" /\ f \in Fd /\ conn[f] \in Conn
  BY DEF IInv, WorkerHolds, TypeOK, WorkerRead
<1>2. \E l \in WorkerPc : Goto(w, l)
  BY <1>1 DEF WorkerRead, WorkerPc
<1>3. /\ wpc' \in [Worker -> WorkerPc]
      /\ wfd' \in [Worker -> Fd \cup {NoFd}] /\ WorkerHolds'
  BY <1>1, <1>2, GotoType
<1>4. conn' \in [Fd -> Conn] /\ inbox' \in [Client -> BOOLEAN]
  <2>1. CASE /\ CanRead(f) /\ inbox' = [inbox EXCEPT ![sock[f]] = FALSE]
             /\ conn' = [conn EXCEPT ![f] = [Filled(f) EXCEPT !.improv = 1]]
    <3>1. inbox' \in [Client -> BOOLEAN] /\ Filled(f) \in Conn
      BY <1>1, <2>1, ReceiveType
    <3>2. [Filled(f) EXCEPT !.improv = 1] \in Conn
      BY <3>1, ConnField, Ranges
    <3> QED
      BY <1>1, <2>1, <3>1, <3>2 DEF TypeOK
  <2>2. CASE conn' = [conn EXCEPT ![f].improv = 1] /\ UNCHANGED inbox
    <3>1. [conn[f] EXCEPT !.improv = 1] \in Conn
      BY <1>1, ConnField, Ranges
    <3> QED
      BY <1>1, <2>2, <3>1 DEF TypeOK
  <2> QED
    BY <2>1, <2>2, Zenon DEF WorkerRead
<1>5. /\ epoll' \in [Fd -> {"none", "off", "in", "out"}]
      /\ \A g \in Fd : epoll'[g] # "none" => epoll[g] # "none"
      /\ sock' \in [Fd -> Client \cup {NoClient}]
      /\ \A g \in Fd : sock'[g] # NoClient => sock[g] # NoClient
  BY <1>1 DEF WorkerRead, TypeOK, kernelVars
<1>6. m_user_count' \in Int /\ wtmp' \in [Worker -> Int]
      /\ wreq' \in [Worker -> Client \cup {NoClient}]
  BY <1>1 DEF WorkerRead, TypeOK
<1>7. UNCHANGED <<backlog, edge, dialed, sent, gone, sigs, mainVars, timer, m_workqueue>>
  BY DEF WorkerRead, kernelVars, clientVars
<1> QED
  BY <1>3, <1>4, <1>5, <1>6, <1>7, WorkerInv

\* run, Reactor: timer_flag = 1.
LEMMA RaiseTimerFlagInv ==
  ASSUME IInv, NEW w \in Worker, RaiseTimerFlag(w) PROVE IInv'
<1> DEFINE f == wfd[w]
<1>1. TypeOK /\ WorkerHolds /\ wpc[w] # "idle" /\ f \in Fd /\ conn[f] \in Conn
  BY DEF IInv, WorkerHolds, TypeOK, RaiseTimerFlag
<1>2. \E l \in WorkerPc : Goto(w, l)
  BY <1>1 DEF RaiseTimerFlag, WorkerPc
<1>3. /\ wpc' \in [Worker -> WorkerPc]
      /\ wfd' \in [Worker -> Fd \cup {NoFd}] /\ WorkerHolds'
  BY <1>1, <1>2, GotoType
<1>4. conn' \in [Fd -> Conn] /\ inbox' \in [Client -> BOOLEAN]
  <2>1. [conn[f] EXCEPT !.timer_flag = 1] \in Conn
    BY <1>1, ConnField, Ranges
  <2> QED
    BY <1>1, <2>1 DEF RaiseTimerFlag, TypeOK, clientVars
<1>5. /\ epoll' \in [Fd -> {"none", "off", "in", "out"}]
      /\ \A g \in Fd : epoll'[g] # "none" => epoll[g] # "none"
      /\ sock' \in [Fd -> Client \cup {NoClient}]
      /\ \A g \in Fd : sock'[g] # NoClient => sock[g] # NoClient
  BY <1>1 DEF RaiseTimerFlag, TypeOK, kernelVars
<1>6. m_user_count' \in Int /\ wtmp' \in [Worker -> Int]
      /\ wreq' \in [Worker -> Client \cup {NoClient}]
  BY <1>1 DEF RaiseTimerFlag, TypeOK
<1>7. UNCHANGED <<backlog, edge, dialed, sent, gone, sigs, mainVars, timer, m_workqueue>>
  BY DEF RaiseTimerFlag, kernelVars, clientVars
<1> QED
  BY <1>3, <1>4, <1>5, <1>6, <1>7, WorkerInv

\* close_conn: m_sockfd = -1.
LEMMA ForgetDescriptorInv ==
  ASSUME IInv, NEW w \in Worker, ForgetDescriptor(w) PROVE IInv'
<1> DEFINE f == wfd[w]
<1>1. TypeOK /\ WorkerHolds /\ wpc[w] # "idle" /\ f \in Fd /\ conn[f] \in Conn
  BY DEF IInv, WorkerHolds, TypeOK, ForgetDescriptor
<1>2. \E l \in WorkerPc : Goto(w, l)
  BY <1>1 DEF ForgetDescriptor, WorkerPc
<1>3. /\ wpc' \in [Worker -> WorkerPc]
      /\ wfd' \in [Worker -> Fd \cup {NoFd}] /\ WorkerHolds'
  BY <1>1, <1>2, GotoType
<1>4. conn' \in [Fd -> Conn] /\ inbox' \in [Client -> BOOLEAN]
  <2>1. [conn[f] EXCEPT !.m_sockfd = NoFd] \in Conn
    BY <1>1, ConnField, Ranges
  <2> QED
    BY <1>1, <2>1 DEF ForgetDescriptor, TypeOK, clientVars
<1>5. /\ epoll' \in [Fd -> {"none", "off", "in", "out"}]
      /\ \A g \in Fd : epoll'[g] # "none" => epoll[g] # "none"
      /\ sock' \in [Fd -> Client \cup {NoClient}]
      /\ \A g \in Fd : sock'[g] # NoClient => sock[g] # NoClient
  BY <1>1 DEF ForgetDescriptor, TypeOK, kernelVars
<1>6. m_user_count' \in Int /\ wtmp' \in [Worker -> Int]
      /\ wreq' \in [Worker -> Client \cup {NoClient}]
  BY <1>1 DEF ForgetDescriptor, TypeOK
<1>7. UNCHANGED <<backlog, edge, dialed, sent, gone, sigs, mainVars, timer, m_workqueue>>
  BY DEF ForgetDescriptor, kernelVars, clientVars
<1> QED
  BY <1>3, <1>4, <1>5, <1>6, <1>7, WorkerInv

\* close_conn: m_user_count--.
LEMMA CountDownInv ==
  ASSUME IInv, NEW w \in Worker, CountDown(w) PROVE IInv'
<1> DEFINE f == wfd[w]
<1>1. TypeOK /\ WorkerHolds /\ wpc[w] # "idle" /\ f \in Fd /\ conn[f] \in Conn
  BY DEF IInv, WorkerHolds, TypeOK, CountDown
<1>2. \E l \in WorkerPc : Goto(w, l)
  BY <1>1 DEF CountDown, WorkerPc
<1>3. /\ wpc' \in [Worker -> WorkerPc]
      /\ wfd' \in [Worker -> Fd \cup {NoFd}] /\ WorkerHolds'
  BY <1>1, <1>2, GotoType
<1>4. conn' \in [Fd -> Conn] /\ inbox' \in [Client -> BOOLEAN]
  BY <1>1 DEF CountDown, TypeOK, clientVars
<1>5. /\ epoll' \in [Fd -> {"none", "off", "in", "out"}]
      /\ \A g \in Fd : epoll'[g] # "none" => epoll[g] # "none"
      /\ sock' \in [Fd -> Client \cup {NoClient}]
      /\ \A g \in Fd : sock'[g] # NoClient => sock[g] # NoClient
  BY <1>1 DEF CountDown, TypeOK, kernelVars
<1>6. m_user_count' \in Int /\ wtmp' \in [Worker -> Int]
      /\ wreq' \in [Worker -> Client \cup {NoClient}]
  BY <1>1 DEF CountDown, TypeOK
<1>7. UNCHANGED <<backlog, edge, dialed, sent, gone, sigs, mainVars, timer, m_workqueue>>
  BY DEF CountDown, kernelVars, clientVars
<1> QED
  BY <1>3, <1>4, <1>5, <1>6, <1>7, WorkerInv

\* close_conn: removefd unregisters and closes, and leaves the timer.
LEMMA CloseDescriptorInv ==
  ASSUME IInv, NEW w \in Worker, CloseDescriptor(w) PROVE IInv'
<1> DEFINE f == wfd[w]
<1>1. TypeOK /\ WorkerHolds /\ wpc[w] # "idle" /\ f \in Fd /\ conn[f] \in Conn
  BY DEF IInv, WorkerHolds, TypeOK, CloseDescriptor
<1>2. \E l \in WorkerPc : Goto(w, l)
  BY <1>1 DEF CloseDescriptor, WorkerPc
<1>3. /\ wpc' \in [Worker -> WorkerPc]
      /\ wfd' \in [Worker -> Fd \cup {NoFd}] /\ WorkerHolds'
  BY <1>1, <1>2, GotoType
<1>4. conn' \in [Fd -> Conn] /\ inbox' \in [Client -> BOOLEAN]
  BY <1>1 DEF CloseDescriptor, TypeOK, clientVars
<1>5. /\ epoll' \in [Fd -> {"none", "off", "in", "out"}]
      /\ \A g \in Fd : epoll'[g] # "none" => epoll[g] # "none"
      /\ sock' \in [Fd -> Client \cup {NoClient}]
      /\ \A g \in Fd : sock'[g] # NoClient => sock[g] # NoClient
  BY <1>1 DEF CloseDescriptor, TypeOK
<1>6. m_user_count' \in Int /\ wtmp' \in [Worker -> Int]
      /\ wreq' \in [Worker -> Client \cup {NoClient}]
  BY <1>1 DEF CloseDescriptor, TypeOK
<1>7. UNCHANGED <<backlog, edge, dialed, sent, gone, sigs, mainVars, timer, m_workqueue>>
  BY DEF CloseDescriptor, kernelVars, clientVars
<1> QED
  BY <1>3, <1>4, <1>5, <1>6, <1>7, WorkerInv

\* process: the modfd at its end.
LEMMA RearmInv ==
  ASSUME IInv, NEW w \in Worker, Rearm(w) PROVE IInv'
<1> DEFINE f == wfd[w]
<1>1. TypeOK /\ WorkerHolds /\ wpc[w] # "idle" /\ f \in Fd /\ conn[f] \in Conn
  BY DEF IInv, WorkerHolds, TypeOK, Rearm
<1>2. \E l \in WorkerPc : Goto(w, l)
  BY <1>1 DEF Rearm, WorkerPc
<1>3. /\ wpc' \in [Worker -> WorkerPc]
      /\ wfd' \in [Worker -> Fd \cup {NoFd}] /\ WorkerHolds'
  BY <1>1, <1>2, GotoType
<1>4. conn' \in [Fd -> Conn] /\ inbox' \in [Client -> BOOLEAN]
  BY <1>1 DEF Rearm, TypeOK, clientVars
<1>5. /\ epoll' \in [Fd -> {"none", "off", "in", "out"}]
      /\ \A g \in Fd : epoll'[g] # "none" => epoll[g] # "none"
      /\ sock' \in [Fd -> Client \cup {NoClient}]
      /\ \A g \in Fd : sock'[g] # NoClient => sock[g] # NoClient
  <2>1. epoll \in [Fd -> {"none", "off", "in", "out"}]
    BY <1>1 DEF TypeOK
  <2>2. \E ev \in {"in", "out"} : epoll' = modfd(conn[f].m_sockfd, ev)
    BY DEF Rearm
  <2> QED
    BY <1>1, <2>1, <2>2, ModfdType DEF Rearm, TypeOK
<1>6. m_user_count' \in Int /\ wtmp' \in [Worker -> Int]
      /\ wreq' \in [Worker -> Client \cup {NoClient}]
  BY <1>1 DEF Rearm, TypeOK
<1>7. UNCHANGED <<backlog, edge, dialed, sent, gone, sigs, mainVars, timer, m_workqueue>>
  BY DEF Rearm, kernelVars, clientVars
<1> QED
  BY <1>3, <1>4, <1>5, <1>6, <1>7, WorkerInv

\* process: process_read notes whom it will answer.
LEMMA ProcessReadInv ==
  ASSUME IInv, NEW w \in Worker, process_read(w) PROVE IInv'
<1> DEFINE f == wfd[w]
<1>1. TypeOK /\ WorkerHolds /\ wpc[w] # "idle" /\ f \in Fd /\ conn[f] \in Conn
  BY DEF IInv, WorkerHolds, TypeOK, process_read
<1>2. \E l \in WorkerPc : Goto(w, l)
  BY <1>1 DEF process_read, WorkerPc
<1>3. /\ wpc' \in [Worker -> WorkerPc]
      /\ wfd' \in [Worker -> Fd \cup {NoFd}] /\ WorkerHolds'
  BY <1>1, <1>2, GotoType
<1>4. conn' \in [Fd -> Conn] /\ inbox' \in [Client -> BOOLEAN]
  BY <1>1 DEF process_read, TypeOK, clientVars
<1>5. /\ epoll' \in [Fd -> {"none", "off", "in", "out"}]
      /\ \A g \in Fd : epoll'[g] # "none" => epoll[g] # "none"
      /\ sock' \in [Fd -> Client \cup {NoClient}]
      /\ \A g \in Fd : sock'[g] # NoClient => sock[g] # NoClient
  BY <1>1 DEF process_read, TypeOK, kernelVars
<1>6. m_user_count' \in Int /\ wtmp' \in [Worker -> Int]
      /\ wreq' \in [Worker -> Client \cup {NoClient}]
  <2>1. conn[f].buf \in Client \cup {NoClient}
    BY <1>1 DEF Conn
  <2>2. wreq' = wreq \/ wreq' = [wreq EXCEPT ![w] = conn[f].buf]
    BY DEF process_read
  <2> QED
    BY <1>1, <2>1, <2>2 DEF process_read, TypeOK
<1>7. UNCHANGED <<backlog, edge, dialed, sent, gone, sigs, mainVars, timer, m_workqueue>>
  BY DEF process_read, kernelVars, clientVars
<1> QED
  BY <1>3, <1>4, <1>5, <1>6, <1>7, WorkerInv

\* process: process_write makes the response.
LEMMA ProcessWriteInv ==
  ASSUME IInv, NEW w \in Worker, process_write(w) PROVE IInv'
<1> DEFINE f == wfd[w]
<1>1. TypeOK /\ WorkerHolds /\ wpc[w] # "idle" /\ f \in Fd /\ conn[f] \in Conn
  BY DEF IInv, WorkerHolds, TypeOK, process_write
<1>2. \E l \in WorkerPc : Goto(w, l)
  BY <1>1 DEF process_write, WorkerPc
<1>3. /\ wpc' \in [Worker -> WorkerPc]
      /\ wfd' \in [Worker -> Fd \cup {NoFd}] /\ WorkerHolds'
  BY <1>1, <1>2, GotoType
<1>4. conn' \in [Fd -> Conn] /\ inbox' \in [Client -> BOOLEAN]
  <2>1. wreq[w] \in Client \cup {NoClient}
    BY <1>1 DEF TypeOK
  <2>2. [[conn[f] EXCEPT !.bytes_to_send = RespPieces] EXCEPT !.resp = wreq[w]] \in Conn
    BY <1>1, <2>1, ConnField, Ranges
  <2>3. conn' = [conn EXCEPT ![f] = [[conn[f] EXCEPT !.bytes_to_send = RespPieces]
                                              EXCEPT !.resp = wreq[w]]]
    BY DEF process_write
  <2> QED
    BY <1>1, <2>2, <2>3 DEF process_write, TypeOK, clientVars
<1>5. /\ epoll' \in [Fd -> {"none", "off", "in", "out"}]
      /\ \A g \in Fd : epoll'[g] # "none" => epoll[g] # "none"
      /\ sock' \in [Fd -> Client \cup {NoClient}]
      /\ \A g \in Fd : sock'[g] # NoClient => sock[g] # NoClient
  BY <1>1 DEF process_write, TypeOK, kernelVars
<1>6. m_user_count' \in Int /\ wtmp' \in [Worker -> Int]
      /\ wreq' \in [Worker -> Client \cup {NoClient}]
  BY <1>1 DEF process_write, TypeOK
<1>7. UNCHANGED <<backlog, edge, dialed, sent, gone, sigs, mainVars, timer, m_workqueue>>
  BY DEF process_write, kernelVars, clientVars
<1> QED
  BY <1>3, <1>4, <1>5, <1>6, <1>7, WorkerInv

\* run, Reactor: write.
LEMMA WorkerWriteInv ==
  ASSUME IInv, NEW w \in Worker, WorkerWrite(w) PROVE IInv'
<1> DEFINE f == wfd[w]
<1>1. TypeOK /\ WorkerHolds /\ wpc[w] # "idle" /\ f \in Fd /\ conn[f] \in Conn
  BY DEF IInv, WorkerHolds, TypeOK, WorkerWrite
<1>2. \E l \in WorkerPc : Goto(w, l)
  BY <1>1 DEF WorkerWrite, WorkerPc
<1>3. /\ wpc' \in [Worker -> WorkerPc]
      /\ wfd' \in [Worker -> Fd \cup {NoFd}] /\ WorkerHolds'
  BY <1>1, <1>2, GotoType
<1>4. conn' \in [Fd -> Conn] /\ inbox' \in [Client -> BOOLEAN]
  <2>1. PICK res \in WriteResults(f) :
          conn' = [conn EXCEPT ![f] = [res.rec EXCEPT !.improv = 1]]
    BY DEF WorkerWrite
  <2>2. [res.rec EXCEPT !.improv = 1] \in Conn
    BY <1>1, WriteType, ConnField, Ranges
  <2> QED
    BY <1>1, <2>1, <2>2 DEF WorkerWrite, TypeOK, clientVars
<1>5. /\ epoll' \in [Fd -> {"none", "off", "in", "out"}]
      /\ \A g \in Fd : epoll'[g] # "none" => epoll[g] # "none"
      /\ sock' \in [Fd -> Client \cup {NoClient}]
      /\ \A g \in Fd : sock'[g] # NoClient => sock[g] # NoClient
  <2>1. PICK res \in WriteResults(f) : epoll' = Rearmed(f, res.arm)
    BY DEF WorkerWrite
  <2>2. res.arm \in {"in", "out", "keep"}
    BY <1>1, WriteType
  <2> QED
    BY <1>1, <2>1, <2>2, RearmedType DEF WorkerWrite, TypeOK
<1>6. m_user_count' \in Int /\ wtmp' \in [Worker -> Int]
      /\ wreq' \in [Worker -> Client \cup {NoClient}]
  BY <1>1 DEF WorkerWrite, TypeOK
<1>7. UNCHANGED <<backlog, edge, dialed, sent, gone, sigs, mainVars, timer, m_workqueue>>
  BY DEF WorkerWrite, kernelVars, clientVars
<1> QED
  BY <1>3, <1>4, <1>5, <1>6, <1>7, WorkerInv

-----------------------------------------------------------------------------
\* A step that changes nothing.
LEMMA StutterInv == ASSUME IInv, UNCHANGED vars PROVE IInv'
<1> USE DEF IInv, vars, kernelVars, clientVars, mainVars, workerVars
<1>1. TypeOK'
  BY DEF TypeOK
<1>2. (NoNullTimer /\ EveryDescriptorTimed /\ RegisteredTimed /\ EventTimed)'
  BY DEF NoNullTimer, EveryDescriptorTimed, RegisteredTimed, EventTimed
<1>3. (SpinTimed /\ WorkerHolds)'
  BY DEF SpinTimed, WorkerHolds
<1> QED
  BY <1>1, <1>2, <1>3

\* Every step keeps the invariant.
LEMMA NextInv == IInv /\ [Next]_vars => IInv'
<1> SUFFICES ASSUME IInv, [Next]_vars PROVE IInv'
  OBVIOUS
<1>1. CASE \E c \in Client : Connect(c) \/ Send(c) \/ Hangup(c)
  BY <1>1, ConnectInv, SendInv, HangupInv
<1>2. CASE \E f \in Fd : TimePasses(f)
  BY <1>2, TimePassesInv
<1>3. CASE \E s \in Signals : sig_handler(s)
  BY <1>3, SignalInv
<1>4. CASE Main
  <2>1. CASE epoll_wait
    BY <2>1, EpollWaitInv
  <2>2. CASE dealclinetdata
    BY <2>2, DealClientInv
  <2>3. CASE dealwithsignal
    BY <2>3, DealSignalInv
  <2>4. CASE SpinExit
    BY <2>4, SpinExitInv
  <2>5. CASE EndOfBatch
    BY <2>5, EndOfBatchInv
  <2>6. CASE \E f \in Fd : HandleHangup(f)
    BY <2>6, HangupEventInv
  <2>7. CASE \E f \in Fd : ProactorRead(f)
    BY <2>7, ProactorReadInv
  <2>8. CASE \E f \in Fd : ProactorWrite(f)
    BY <2>8, ProactorWriteInv
  <2>9. CASE \E f \in Fd : ReactorDispatch(f)
    BY <2>9, ReactorDispatchInv
  <2> QED
    BY <1>4, <2>1, <2>2, <2>3, <2>4, <2>5, <2>6, <2>7, <2>8, <2>9 DEF Main
<1>5. CASE \E w \in Worker : WorkerStep(w)
  <2> SUFFICES ASSUME NEW w \in Worker, WorkerStep(w) PROVE IInv'
    BY <1>5
  <2>1. CASE TakeRequest(w)
    BY <2>1, TakeInv
  <2>2. CASE WorkerRead(w)
    BY <2>2, WorkerReadInv
  <2>3. CASE WorkerWrite(w)
    BY <2>3, WorkerWriteInv
  <2>4. CASE RaiseTimerFlag(w)
    BY <2>4, RaiseTimerFlagInv
  <2>5. CASE process_read(w)
    BY <2>5, ProcessReadInv
  <2>10. CASE process_write(w)
    BY <2>10, ProcessWriteInv
  <2>6. CASE CloseDescriptor(w)
    BY <2>6, CloseDescriptorInv
  <2>7. CASE ForgetDescriptor(w)
    BY <2>7, ForgetDescriptorInv
  <2>8. CASE CountDown(w)
    BY <2>8, CountDownInv
  <2>9. CASE Rearm(w)
    BY <2>9, RearmInv
  <2> QED
    BY <2>1, <2>2, <2>3, <2>4, <2>5, <2>6, <2>7, <2>8, <2>9, <2>10 DEF WorkerStep
<1>6. CASE Rest
  BY <1>6, StutterInv DEF Rest
<1>7. CASE UNCHANGED vars
  BY <1>7, StutterInv
<1> QED
  BY <1>1, <1>2, <1>3, <1>4, <1>5, <1>6, <1>7 DEF Next

\* IInv is an inductive invariant.
THEOREM Inductive == Spec => []IInv
BY InitInv, NextInv, PTL DEF Spec

\* The state is well typed: in particular the request queue never holds more
\* than m_max_requests (threadpool.h:65-92) and every queued request is a
\* descriptor.
THEOREM TypeCorrect == Spec => []TypeOK
<1>1. IInv => TypeOK
  BY DEF IInv
<1> QED
  BY <1>1, Inductive, PTL

\* del_timer (webserver.cpp:228-237) is never called on an empty slot: not for a
\* hang-up, a failed read or write or a raised timer_flag, in either actor model
\* and even if timeouts and workers close descriptors at the worst moment.
THEOREM NoNullDereference == Spec => []NoNullTimer
<1>1. IInv => NoNullTimer
  BY DEF IInv
<1> QED
  BY <1>1, Inductive, PTL

\* Every open descriptor has a timer, so something will close it: also when
\* accept returns a number whose previous timer is still in the slot
\* (webserver.cpp:196-200).
THEOREM AcceptedIsTimed == Spec => []EveryDescriptorTimed
<1>1. IInv => EveryDescriptorTimed
  BY DEF IInv
<1> QED
  BY <1>1, Inductive, PTL

-----------------------------------------------------------------------------
(* The busy wait of the Reactor                                            *)

\* Which object the flags of the handshake belong to, and where the one request
\* is that the main thread waits for: in the queue, or with one worker.
Doing(w)    == wpc[w] \in {"read", "write"}
NoneDoing   == m_workqueue = <<>> /\ \A w \in Worker : ~Doing(w)
InQueue(f)  == m_workqueue = <<f>> /\ \A w \in Worker : ~Doing(w)
InWork(f)   == /\ m_workqueue = <<>>
               /\ \E w \in Worker : /\ Doing(w) /\ wfd[w] = f
                                    /\ \A v \in Worker \ {w} : ~Doing(v)
ImprovSpins == \A f \in Fd : conn[f].improv = 1 => mpc = "spin" /\ cur = f
Proactor    == ActorModel # 1 => /\ mpc # "spin"
                                 /\ \A w \in Worker : wpc[w] \notin {"read", "write", "flag"}
Waiting     == mpc = "spin" /\ conn[cur].improv # 1
Handshake   == ActorModel = 1 => /\ Waiting => InQueue(cur) \/ InWork(cur)
                                 /\ ~Waiting => NoneDoing

SpinInv == ImprovSpins /\ Proactor /\ Handshake

\* Steps of clients, clock and signals, and the reading of the signal pipe.
LEMMA SpinSame ==
  ASSUME SpinInv, UNCHANGED <<mpc, cur, conn, m_workqueue, wpc, wfd>>
  PROVE  SpinInv'
BY DEF SpinInv, ImprovSpins, Proactor, Handshake, Waiting, NoneDoing, InQueue, InWork, Doing

\* Steps of the main thread outside the busy wait raise no improv.
LEMMA SpinMain ==
  ASSUME SpinInv, mpc # "spin", mpc' # "spin",
         \A f \in Fd : conn'[f].improv = 1 => conn[f].improv = 1,
         ActorModel = 1 => m_workqueue' = m_workqueue, UNCHANGED <<wpc, wfd>>
  PROVE  SpinInv'
<1> USE DEF SpinInv
<1>1. ImprovSpins'
  BY DEF ImprovSpins
<1>2. Proactor'
  BY DEF Proactor
<1>3. Handshake'
  BY DEF Handshake, Waiting, NoneDoing, Doing
<1> QED
  BY <1>1, <1>2, <1>3

\* Steps of a worker past the point where improv is raised.
LEMMA SpinWorker ==
  ASSUME SpinInv, NEW w \in Worker, ~Doing(w), wpc'[w] \notin {"read", "write", "flag"},
         \A v \in Worker \ {w} : wpc'[v] = wpc[v] /\ wfd'[v] = wfd[v],
         \A f \in Fd : conn'[f].improv = conn[f].improv,
         mpc = "spin" => cur \in Fd,
         UNCHANGED <<mpc, cur, m_workqueue>>
  PROVE  SpinInv'
<1> USE DEF SpinInv
<1>1. ImprovSpins'
  BY DEF ImprovSpins
<1>2. Proactor'
  BY DEF Proactor
<1>3. Waiting' <=> Waiting
  BY DEF Waiting
<1>4. \A v \in Worker : Doing(v)' <=> Doing(v)
  BY DEF Doing
<1>5. Handshake'
  <2>1. NoneDoing' <=> NoneDoing
    BY <1>4 DEF NoneDoing
  <2>2. InQueue(cur)' <=> InQueue(cur)
    BY <1>4 DEF InQueue
  <2>3. InWork(cur) => InWork(cur)'
    BY <1>4 DEF InWork
  <2> QED
    BY <1>3, <2>1, <2>2, <2>3 DEF Handshake
<1> QED
  BY <1>1, <1>2, <1>5

\* write() leaves the object, resets it, or counts down what is left to send; it
\* re-arms for reading when nothing is left and for writing when something is.
LEMMA WriteCases ==
  ASSUME NEW f \in Fd, NEW res \in WriteResults(f)
  PROVE  \/ ~res.ok /\ res.rec = conn[f] /\ res.arm = "keep"
         \/ res.rec = fresh(conn[f]) /\ res.arm = "in"
         \/ res.rec = [conn[f] EXCEPT !.bytes_to_send = 0] /\ res.arm = "in"
         \/ /\ res.arm = "out" /\ conn[f].bytes_to_send # 0
            /\ \E n \in 1..(conn[f].bytes_to_send - 1) :
                 res.rec = [conn[f] EXCEPT !.bytes_to_send = n]
<1>1. CASE conn[f].bytes_to_send = 0
  <2>1. WriteResults(f) = {[ok |-> TRUE, rec |-> fresh(conn[f]), arm |-> "in"]}
    BY <1>1, Zenon DEF WriteResults
  <2> QED
    BY <2>1
<1>2. CASE conn[f].bytes_to_send # 0
  <2> DEFINE Failed == [ok |-> FALSE, rec |-> conn[f], arm |-> "keep"]
             Part(n) == [ok |-> TRUE, rec |-> [conn[f] EXCEPT !.bytes_to_send = n],
                         arm |-> "out"]
             Done(l) == [ok |-> l, rec |-> IF l THEN fresh(conn[f])
                                  ELSE [conn[f] EXCEPT !.bytes_to_send = 0], arm |-> "in"]
  <2>1. \/ res = Failed
        \/ \E n \in 1..(conn[f].bytes_to_send - 1) : res = Part(n)
        \/ \E l \in BOOLEAN : res = Done(l)
    <3>1. WriteResults(f) \subseteq {Failed} \cup {Part(n) : n \in 1..(conn[f].bytes_to_send - 1)}
                                   \cup {Done(l) : l \in BOOLEAN}
      BY <1>2, Zenon DEF WriteResults
    <3> QED
      BY <3>1
  <2> QED
    BY <1>2, <2>1
<1> QED
  BY <1>1, <1>2

\* Whatever write() does, object and client stay and improv is not raised.
LEMMA WriteFrame ==
  ASSUME NEW f \in Fd, conn[f] \in Conn, NEW res \in WriteResults(f)
  PROVE  /\ res.rec \in Conn
         /\ res.rec.m_sockfd = conn[f].m_sockfd /\ res.rec.m_address = conn[f].m_address
         /\ res.rec.improv = 1 => conn[f].improv = 1
         /\ res.rec.buf \in {NoClient, conn[f].buf}
         /\ res.arm = "in" => res.rec.bytes_to_send = 0
         /\ res.rec.bytes_to_send # 0 => /\ conn[f].bytes_to_send # 0
                                         /\ res.rec.resp = conn[f].resp
<1>1. res.rec \in Conn
  BY WriteType
<1>2. CASE res.rec = conn[f] /\ res.arm = "keep"
  BY <1>1, <1>2
<1>3. CASE res.rec = fresh(conn[f])
  BY <1>1, <1>3 DEF fresh, Conn
<1>4. CASE res.rec = [conn[f] EXCEPT !.bytes_to_send = 0]
  BY <1>1, <1>4 DEF Conn
<1>5. CASE /\ res.arm = "out" /\ conn[f].bytes_to_send # 0
           /\ \E n \in 1..(conn[f].bytes_to_send - 1) :
                res.rec = [conn[f] EXCEPT !.bytes_to_send = n]
  BY <1>1, <1>5 DEF Conn
<1> QED
  BY <1>2, <1>3, <1>4, <1>5, WriteCases

\* An accepted client gets an object of its own, reset.
LEMMA AcceptCases ==
  ASSUME IInv, dealclinetdata
  PROVE  \/ UNCHANGED <<sock, epoll, conn, timer, m_user_count>>
         \/ \E c \in Client, f \in Fd :
              /\ LowestFree(f) /\ timer[f] = "null" /\ create_user(f, c)
         \/ \E c \in Client, f \in Fd :
              /\ LowestFree(f) /\ timer[f] # "null" /\ sock' = [sock EXCEPT ![f] = c]
              /\ UNCHANGED <<epoll, conn, timer, m_user_count>>
<1>1. backlog \subseteq Client
  BY DEF IInv, TypeOK
<1> QED
  BY <1>1 DEF dealclinetdata, AcceptOne, AcceptFails

\* The object of client c at number f after init().
Created(f, c) == fresh([conn[f] EXCEPT !.m_sockfd = f, !.m_address = c])

LEMMA CreatedRecord ==
  ASSUME NEW f \in Fd, NEW c \in Client, conn[f] \in Conn
  PROVE  /\ Created(f, c) \in Conn /\ Created(f, c).m_sockfd = f
         /\ Created(f, c).m_address = c /\ Created(f, c).improv = 0
         /\ Created(f, c).buf = NoClient /\ Created(f, c).bytes_to_send = 0
<1> DEFINE named == [[conn[f] EXCEPT !.m_sockfd = f] EXCEPT !.m_address = c]
<1>1. named \in Conn /\ named.m_sockfd = f /\ named.m_address = c
  BY DEF Conn
<1>2. Created(f, c) = fresh(named)
  BY DEF Created
<1>3. \A q \in Conn : /\ fresh(q) \in Conn
                      /\ fresh(q).m_sockfd = q.m_sockfd /\ fresh(q).m_address = q.m_address
                      /\ fresh(q).improv = 0 /\ fresh(q).buf = NoClient
                      /\ fresh(q).bytes_to_send = 0
  BY FreshType DEF fresh, Conn
<1> HIDE DEF named
<1> QED
  BY <1>1, <1>2, <1>3

\* An accepted client gets an object without improv.
LEMMA SpinAccept ==
  ASSUME IInv, SpinInv, dealclinetdata PROVE SpinInv'
<1>1. /\ mpc # "spin" /\ mpc' \in {"dispatch", "accept"}
      /\ UNCHANGED <<m_workqueue, wpc, wfd>>
  BY DEF dealclinetdata, AcceptOne, AcceptFails, workerVars
<1>2. \/ UNCHANGED conn
      \/ \E c \in Client, f \in Fd : conn' = [conn EXCEPT ![f] = Created(f, c)]
  BY AcceptCases DEF create_user, Created
<1>3. conn \in [Fd -> Conn]
  BY DEF IInv, TypeOK
<1>4. \A f \in Fd, c \in Client : Created(f, c).improv = 0
  BY <1>3, CreatedRecord
<1>5. \A f \in Fd : conn'[f].improv = 1 => conn[f].improv = 1
  BY <1>2, <1>3, <1>4
<1> QED
  BY <1>1, <1>5, SpinMain

\* The Proactor's I/O raises no improv either.
LEMMA SpinProactor ==
  ASSUME IInv, SpinInv, NEW f \in Fd, ProactorRead(f) \/ ProactorWrite(f) PROVE SpinInv'
<1>1. /\ ActorModel # 1 /\ mpc = "dispatch" /\ conn \in [Fd -> Conn] /\ timer[f] # "null"
      /\ UNCHANGED <<wpc, wfd>>
  BY DEF IInv, TypeOK, EventTimed, ProactorRead, ProactorWrite, workerVars
<1>2. mpc' # "spin"
  BY <1>1 DEF ProactorRead, ProactorWrite, del_timer
<1>3. \/ UNCHANGED conn
      \/ conn' = [conn EXCEPT ![f] = Filled(f)]
      \/ \E res \in WriteResults(f) : conn' = [conn EXCEPT ![f] = res.rec]
  BY DEF ProactorRead, ProactorWrite, Receive
<1>4. Filled(f).improv = conn[f].improv
  BY <1>1 DEF Filled, Conn
<1>5. \A res \in WriteResults(f) : res.rec.improv = 1 => conn[f].improv = 1
  BY <1>1, WriteFrame
<1>6. \A g \in Fd : conn'[g].improv = 1 => conn[g].improv = 1
  BY <1>1, <1>3, <1>4, <1>5
<1> QED
  BY <1>1, <1>2, <1>6, SpinMain

\* The Reactor hands over one request, which the queue has room for, and waits.
LEMMA SpinDispatch ==
  ASSUME IInv, SpinInv, NEW f \in Fd, ReactorDispatch(f) PROVE SpinInv'
<1> USE DEF SpinInv
<1>1. /\ ActorModel = 1 /\ mpc = "dispatch" /\ NoneDoing /\ conn \in [Fd -> Conn]
      /\ mpc' = "spin" /\ cur' = f /\ UNCHANGED <<wpc, wfd>>
  BY DEF IInv, TypeOK, Handshake, Waiting, ReactorDispatch, workerVars
<1>2. \A g \in Fd : conn'[g].improv = conn[g].improv /\ conn[g].improv # 1
  BY <1>1 DEF ImprovSpins, ReactorDispatch, Conn
<1>3. m_workqueue' = <<f>>
  <2>1. m_workqueue = <<>> /\ ~QueueFull
    BY <1>1, AssumptionsHold DEF Assumptions, NoneDoing, QueueFull
  <2> QED
    BY <2>1 DEF ReactorDispatch, append
<1>4. ImprovSpins' /\ Proactor'
  BY <1>1, <1>2 DEF ImprovSpins, Proactor
<1>5. Handshake'
  BY <1>1, <1>2, <1>3 DEF Handshake, Waiting, NoneDoing, InQueue, Doing
<1> QED
  BY <1>4, <1>5

\* It stops waiting when improv is raised, and lowers it.
LEMMA SpinLeave ==
  ASSUME IInv, SpinInv, SpinExit PROVE SpinInv'
<1> USE DEF SpinInv
<1>1. /\ mpc = "spin" /\ conn[cur].improv = 1 /\ cur \in Fd /\ timer[cur] # "null"
      /\ conn \in [Fd -> Conn] /\ UNCHANGED <<m_workqueue, wpc, wfd>>
  BY DEF IInv, TypeOK, SpinTimed, SpinExit, workerVars
<1>2. mpc' = "dispatch"
  BY <1>1 DEF SpinExit, del_timer
<1>3. conn'[cur].improv = 0 /\ \A f \in Fd \ {cur} : conn'[f] = conn[f]
  BY <1>1 DEF SpinExit, Conn
<1>4. ImprovSpins' /\ Proactor'
  BY <1>1, <1>2, <1>3 DEF ImprovSpins, Proactor
<1>5. Handshake'
  BY <1>1, <1>2 DEF Handshake, Waiting, NoneDoing, Doing
<1> QED
  BY <1>4, <1>5

\* A worker takes the request the main thread waits for, and only that one.
LEMMA SpinTake ==
  ASSUME IInv, SpinInv, NEW w \in Worker, TakeRequest(w) PROVE SpinInv'
<1> USE DEF SpinInv
<1>1. /\ wpc \in [Worker -> WorkerPc] /\ wfd \in [Worker -> Fd \cup {NoFd}]
      /\ m_workqueue # <<>> /\ wpc[w] = "idle" /\ m_workqueue' = Tail(m_workqueue)
      /\ wfd' = [wfd EXCEPT ![w] = Head(m_workqueue)] /\ UNCHANGED <<mpc, cur, conn>>
  BY DEF IInv, TypeOK, TakeRequest, mainVars
<1>2. ImprovSpins'
  BY <1>1 DEF ImprovSpins
<1>3. CASE ActorModel # 1
  <2>1. wpc' = [wpc EXCEPT ![w] = "process"]
    BY <1>3 DEF TakeRequest
  <2> QED
    BY <1>1, <1>2, <1>3, <2>1 DEF Proactor, Handshake
<1>4. CASE ActorModel = 1
  <2>1. Waiting /\ InQueue(cur)
    BY <1>1, <1>4 DEF Handshake, NoneDoing, InWork
  <2>2. m_workqueue' = <<>> /\ wfd'[w] = cur
    BY <1>1, <2>1 DEF InQueue
  <2>3. wpc'[w] \in {"read", "write"} /\ \A v \in Worker \ {w} : wpc'[v] = wpc[v]
    BY <1>1, <1>4 DEF TakeRequest
  <2>4. InWork(cur)'
    BY <1>1, <2>1, <2>2, <2>3 DEF InWork, InQueue, Doing
  <2> QED
    BY <1>1, <1>2, <1>4, <2>1, <2>4 DEF Proactor, Handshake, Waiting
<1> QED
  BY <1>3, <1>4

\* The worker that does the I/O is the one the main thread waits for: raising
\* improv ends the wait.
LEMMA SpinServe ==
  ASSUME IInv, SpinInv, NEW w \in Worker, Doing(w), wpc'[w] \notin {"read", "write"},
         \A v \in Worker \ {w} : wpc'[v] = wpc[v], conn'[wfd[w]].improv = 1,
         \A f \in Fd \ {wfd[w]} : conn'[f] = conn[f], UNCHANGED <<mpc, cur, m_workqueue>>
  PROVE  SpinInv'
<1> USE DEF SpinInv
<1>1. ActorModel = 1 /\ Waiting /\ InWork(cur)
  BY DEF Proactor, Handshake, NoneDoing, InQueue, Doing
<1>2. wfd[w] = cur /\ m_workqueue = <<>> /\ \A v \in Worker \ {w} : ~Doing(v)
  BY <1>1 DEF InWork
<1>3. mpc = "spin" /\ cur \in Fd
  BY <1>1 DEF Waiting, IInv, SpinTimed
<1>4. ImprovSpins'
  BY <1>2, <1>3 DEF ImprovSpins
<1>5. NoneDoing' /\ ~Waiting'
  BY <1>2, <1>3 DEF NoneDoing, Waiting, Doing
<1> QED
  BY <1>1, <1>4, <1>5 DEF Proactor, Handshake

\* The server starts with nothing dispatched.
LEMMA SpinInit == Init => SpinInv
BY DEF Init, SpinInv, ImprovSpins, Proactor, Handshake, Waiting, NoneDoing, Doing

\* What the steps of a worker do to the connection objects.
LEMMA ReadConn ==
  ASSUME IInv, NEW w \in Worker, WorkerRead(w)
  PROVE  /\ conn'[wfd[w]].improv = 1 /\ \A g \in Fd \ {wfd[w]} : conn'[g] = conn[g]
         /\ conn'[wfd[w]].m_sockfd = conn[wfd[w]].m_sockfd
         /\ conn'[wfd[w]].m_address = conn[wfd[w]].m_address
<1> DEFINE f == wfd[w]
<1>1. f \in Fd /\ conn \in [Fd -> Conn] /\ conn[f] \in Conn
  BY DEF IInv, TypeOK, WorkerHolds, WorkerRead
<1>2. CASE CanRead(f) /\ conn' = [conn EXCEPT ![f] = [Filled(f) EXCEPT !.improv = 1]]
  <2> DEFINE b == IF inbox[sock[f]] THEN sock[f] ELSE conn[f].buf
  <2>1. conn' = [conn EXCEPT ![f] = [[conn[f] EXCEPT !.buf = b] EXCEPT !.improv = 1]]
    BY <1>2 DEF Filled
  <2> HIDE DEF b
  <2> QED
    BY <1>1, <2>1 DEF Conn
<1>3. CASE conn' = [conn EXCEPT ![f].improv = 1]
  BY <1>1, <1>3 DEF Conn
<1> QED
  BY <1>2, <1>3 DEF WorkerRead

LEMMA SpinExitConn ==
  ASSUME IInv, SpinExit, NEW f \in Fd
  PROVE  /\ conn'[f].m_sockfd = conn[f].m_sockfd /\ conn'[f].m_address = conn[f].m_address
         /\ conn'[f].buf = conn[f].buf /\ conn'[f].resp = conn[f].resp
         /\ conn'[f].bytes_to_send = conn[f].bytes_to_send
<1> DEFINE down == [conn[cur] EXCEPT !.improv = 0]
           clear == [[conn[cur] EXCEPT !.timer_flag = 0] EXCEPT !.improv = 0]
<1>1. conn \in [Fd -> Conn] /\ conn[f] \in Conn /\ cur \in Fd /\ conn[cur] \in Conn
  BY DEF IInv, TypeOK, SpinTimed, SpinExit
<1>2. \A r \in {down, clear} :
        /\ r.m_sockfd = conn[cur].m_sockfd /\ r.m_address = conn[cur].m_address
        /\ r.buf = conn[cur].buf /\ r.resp = conn[cur].resp
        /\ r.bytes_to_send = conn[cur].bytes_to_send
  BY <1>1 DEF Conn
<1>3. conn' = [conn EXCEPT ![cur] = clear] \/ conn' = [conn EXCEPT ![cur] = down]
  BY DEF SpinExit
<1> HIDE DEF down, clear
<1> QED
  BY <1>1, <1>2, <1>3

LEMMA FlagConn ==
  ASSUME IInv, NEW w \in Worker, RaiseTimerFlag(w), NEW f \in Fd
  PROVE  /\ conn'[f].improv = conn[f].improv /\ conn'[f].m_address = conn[f].m_address
         /\ conn'[f].m_sockfd = conn[f].m_sockfd /\ conn'[f].buf = conn[f].buf
         /\ conn'[f].bytes_to_send = conn[f].bytes_to_send /\ conn'[f].resp = conn[f].resp
<1>1. conn \in [Fd -> Conn] /\ conn[f] \in Conn /\ wfd[w] \in Fd
  BY DEF IInv, TypeOK, WorkerHolds, RaiseTimerFlag
<1> QED
  BY <1>1 DEF RaiseTimerFlag, Conn

LEMMA RespondConn ==
  ASSUME IInv, NEW w \in Worker, process_write(w), NEW f \in Fd
  PROVE  /\ f # wfd[w] => conn'[f] = conn[f]
         /\ f = wfd[w] => conn'[f].bytes_to_send = RespPieces /\ conn'[f].resp = wreq[w]
         /\ conn'[f].improv = conn[f].improv /\ conn'[f].m_address = conn[f].m_address
         /\ conn'[f].m_sockfd = conn[f].m_sockfd /\ conn'[f].buf = conn[f].buf
<1> DEFINE n == RespPieces
           c == wreq[w]
<1>1. conn \in [Fd -> Conn] /\ conn[f] \in Conn /\ wfd[w] \in Fd
  BY DEF IInv, TypeOK, WorkerHolds, process_write
<1>2. conn' = [conn EXCEPT ![wfd[w]] = [[conn[wfd[w]] EXCEPT !.bytes_to_send = n]
                                         EXCEPT !.resp = c]]
  BY DEF process_write
<1> HIDE DEF n, c
<1>3. /\ f # wfd[w] => conn'[f] = conn[f]
      /\ f = wfd[w] => conn'[f].bytes_to_send = n /\ conn'[f].resp = c
      /\ conn'[f].improv = conn[f].improv /\ conn'[f].m_address = conn[f].m_address
      /\ conn'[f].m_sockfd = conn[f].m_sockfd /\ conn'[f].buf = conn[f].buf
  BY <1>1, <1>2 DEF Conn
<1> QED
  BY <1>3 DEF n, c

LEMMA ForgetConn ==
  ASSUME IInv, NEW w \in Worker, ForgetDescriptor(w), NEW f \in Fd
  PROVE  /\ f # wfd[w] => conn'[f] = conn[f]
         /\ f = wfd[w] => conn'[f].m_sockfd = NoFd
         /\ conn'[f].improv = conn[f].improv /\ conn'[f].m_address = conn[f].m_address
         /\ conn'[f].buf = conn[f].buf /\ conn'[f].resp = conn[f].resp
         /\ conn'[f].bytes_to_send = conn[f].bytes_to_send
<1>1. conn \in [Fd -> Conn] /\ conn[f] \in Conn /\ wfd[w] \in Fd
  BY DEF IInv, TypeOK, WorkerHolds, ForgetDescriptor
<1> QED
  BY <1>1 DEF ForgetDescriptor, Conn

\* A worker past its I/O, or one that reads or writes, keeps the handshake.
LEMMA SpinWorkerStep ==
  ASSUME IInv, SpinInv, NEW w \in Worker, WorkerStep(w) PROVE SpinInv'
<1>1. /\ conn \in [Fd -> Conn] /\ wpc \in [Worker -> WorkerPc]
      /\ wfd \in [Worker -> Fd \cup {NoFd}] /\ (mpc = "spin" => cur \in Fd)
      /\ (wpc[w] # "idle" => wfd[w] \in Fd)
  BY DEF IInv, TypeOK, SpinTimed, WorkerHolds
<1>2. ASSUME NEW l, Goto(w, l)
      PROVE  wpc'[w] = l /\ \A v \in Worker \ {w} : wpc'[v] = wpc[v] /\ wfd'[v] = wfd[v]
  BY <1>1, <1>2 DEF Goto
<1>3. CASE TakeRequest(w)
  BY <1>3, SpinTake
<1>4. CASE WorkerRead(w)
  <2> DEFINE f == wfd[w]
  <2>1. Doing(w) /\ f \in Fd /\ UNCHANGED <<mpc, cur, m_workqueue>>
    BY <1>1, <1>4 DEF Doing, WorkerRead, mainVars
  <2>2. wpc'[w] \in {"process", "flag"} /\ \A v \in Worker \ {w} : wpc'[v] = wpc[v]
    BY <1>2, <1>4 DEF WorkerRead
  <2>3. conn'[f].improv = 1 /\ \A g \in Fd \ {f} : conn'[g] = conn[g]
    BY <1>4, ReadConn
  <2> QED
    BY <2>1, <2>2, <2>3, SpinServe
<1>5. CASE WorkerWrite(w)
  <2> DEFINE f == wfd[w]
  <2>1. Doing(w) /\ f \in Fd /\ UNCHANGED <<mpc, cur, m_workqueue>>
    BY <1>1, <1>5 DEF Doing, WorkerWrite, mainVars
  <2>2. wpc'[w] \in {"idle", "flag"} /\ \A v \in Worker \ {w} : wpc'[v] = wpc[v]
    BY <1>2, <1>5 DEF WorkerWrite
  <2>3. conn'[f].improv = 1 /\ \A g \in Fd \ {f} : conn'[g] = conn[g]
    <3>1. PICK res \in WriteResults(f) :
            conn' = [conn EXCEPT ![f] = [res.rec EXCEPT !.improv = 1]]
      BY <1>5 DEF WorkerWrite
    <3>2. res.rec \in Conn
      BY <1>1, <2>1, WriteType
    <3> QED
      BY <1>1, <2>1, <3>1, <3>2 DEF Conn
  <2> QED
    BY <2>1, <2>2, <2>3, SpinServe
<1>6. CASE \/ RaiseTimerFlag(w) \/ process_read(w) \/ process_write(w) \/ CloseDescriptor(w)
           \/ ForgetDescriptor(w) \/ CountDown(w) \/ Rearm(w)
  <2>1. ~Doing(w) /\ wfd[w] \in Fd /\ UNCHANGED <<mpc, cur, m_workqueue>>
    BY <1>1, <1>6 DEF Doing, mainVars, RaiseTimerFlag, process_read, process_write,
       CloseDescriptor, ForgetDescriptor, CountDown, Rearm
  <2>2. \E l \in WorkerPc \ {"read", "write", "flag"} : Goto(w, l)
    BY <1>6 DEF WorkerPc, RaiseTimerFlag, process_read, process_write,
       CloseDescriptor, ForgetDescriptor, CountDown, Rearm
  <2>3. \A f \in Fd : conn'[f].improv = conn[f].improv
    <3>1. UNCHANGED conn \/ RaiseTimerFlag(w) \/ process_write(w) \/ ForgetDescriptor(w)
      BY <1>6 DEF process_read, CloseDescriptor, CountDown, Rearm
    <3> QED
      BY <3>1, FlagConn, RespondConn, ForgetConn
  <2> QED
    BY <1>1, <1>2, <2>1, <2>2, <2>3, SpinWorker
<1> QED
  BY <1>3, <1>4, <1>5, <1>6 DEF WorkerStep

\* Every step keeps the handshake.
LEMMA SpinNext == IInv /\ SpinInv /\ [Next]_vars => SpinInv'
<1> SUFFICES ASSUME IInv, SpinInv, [Next]_vars PROVE SpinInv'
  OBVIOUS
<1>1. CASE UNCHANGED <<mpc, cur, conn, m_workqueue, wpc, wfd>>
  BY <1>1, SpinSame
<1>2. CASE epoll_wait
  <2>1. mpc # "spin" /\ mpc' # "spin" /\ UNCHANGED <<conn, m_workqueue, wpc, wfd>>
    BY <1>2 DEF epoll_wait, workerVars
  <2> QED
    BY <2>1, SpinMain
<1>3. CASE dealclinetdata
  BY <1>3, SpinAccept
<1>4. CASE EndOfBatch \/ \E f \in Fd : HandleHangup(f)
  <2>1. mpc # "spin" /\ mpc' # "spin" /\ UNCHANGED <<conn, m_workqueue, wpc, wfd>>
    BY <1>4 DEF EndOfBatch, HandleHangup, del_timer, workerVars
  <2> QED
    BY <2>1, SpinMain
<1>5. CASE SpinExit
  BY <1>5, SpinLeave
<1>6. CASE \E f \in Fd : ProactorRead(f) \/ ProactorWrite(f)
  BY <1>6, SpinProactor
<1>7. CASE \E f \in Fd : ReactorDispatch(f)
  BY <1>7, SpinDispatch
<1>8. CASE \E w \in Worker : WorkerStep(w)
  BY <1>8, SpinWorkerStep
<1>9. CASE dealwithsignal \/ Rest \/ UNCHANGED vars
  <2>1. UNCHANGED <<mpc, cur, conn, m_workqueue, wpc, wfd>>
    BY <1>9 DEF dealwithsignal, Rest, vars, mainVars, workerVars
  <2> QED
    BY <2>1, SpinSame
<1>10. CASE \/ \E c \in Client : Connect(c) \/ Send(c) \/ Hangup(c)
            \/ \E f \in Fd : TimePasses(f)
            \/ \E s \in Signals : sig_handler(s)
  <2>1. UNCHANGED <<mpc, cur, conn, m_workqueue, wpc, wfd>>
    BY <1>10 DEF Connect, Send, Hangup, TimePasses, sig_handler, mainVars, workerVars
  <2> QED
    BY <2>1, SpinSame
<1> QED
  BY <1>2, <1>3, <1>4, <1>5, <1>6, <1>7, <1>8, <1>9, <1>10 DEF Next, Main

\* The handshake is an invariant.
THEOREM HandshakeInductive == Spec => []SpinInv
BY Inductive, SpinInit, SpinNext, PTL DEF Spec

\* The busy wait of the Reactor (webserver.cpp:290-304) is never on a request
\* that append has dropped or that nobody holds: in both actor models, with any
\* number of workers and any queue limit.
THEOREM SpinIsServed == Spec => []SpinServed
<1>1. IInv /\ SpinInv => SpinServed
  <2> SUFFICES ASSUME IInv, SpinInv, Waiting PROVE Busy(cur)
    BY DEF SpinServed, Waiting
  <2>1. InQueue(cur) \/ InWork(cur)
    BY DEF SpinInv, Proactor, Handshake, Waiting
  <2>2. CASE InQueue(cur)
    <3>1. Len(m_workqueue) = 1 /\ m_workqueue[1] = cur
      BY <2>2 DEF InQueue
    <3> QED
      BY <3>1 DEF Busy
  <2>3. CASE InWork(cur)
    BY <2>3 DEF InWork, Busy
  <2> QED
    BY <2>1, <2>2, <2>3
<1> QED
  BY <1>1, Inductive, HandshakeInductive, PTL

-----------------------------------------------------------------------------
(* Without refused requests no worker closes a descriptor                  *)

\* Then timers, sockets, registrations and table entries belong together, and the
\* count is exact.
Open        == {f \in Fd : sock[f] # NoClient}
NoneCloses  == \A w \in Worker : wpc[w] \notin {"close", "forget", "count"}
TimerOpen   == \A f \in Fd : timer[f] # "null" => sock[f] # NoClient
OpenInv     == /\ NoneCloses /\ TimerOpen /\ TableDescribesSocket
               /\ m_user_count = Cardinality(Open)

\* The open descriptors are finitely many.
LEMMA OpenFinite == IsFiniteSet(Open)
<1>1. Open \subseteq Fd /\ IsFiniteSet(Fd)
  BY AssumptionsHold DEF Assumptions, Open
<1> QED
  BY <1>1, FS_Subset

\* Steps that open and close nothing.
LEMMA OpenFrame ==
  ASSUME OpenInv, UNCHANGED <<sock, m_user_count>>,
         \A f \in Fd : timer'[f] # "null" => timer[f] # "null",
         \A f \in Fd : epoll'[f] = "none" => epoll[f] = "none",
         \A f \in Fd : conn'[f].m_address = conn[f].m_address,
         NoneCloses'
  PROVE  OpenInv'
<1> USE DEF OpenInv
<1>1. TimerOpen' /\ TableDescribesSocket'
  BY DEF TimerOpen, TableDescribesSocket
<1>2. (m_user_count = Cardinality(Open))'
  BY DEF Open
<1> QED
  BY <1>1, <1>2

\* cb_func on descriptors with a timer: each was open and counted.
LEMMA OpenClose ==
  ASSUME IInv, OpenInv, NEW S \in SUBSET Fd, \A f \in S : timer[f] # "null", cb_func(S),
         \A f \in Fd : conn'[f].m_address = conn[f].m_address, UNCHANGED wpc
  PROVE  OpenInv'
<1> USE DEF OpenInv
<1>1. TypeOK
  BY DEF IInv
<1>2. NoneCloses'
  BY DEF NoneCloses
<1>3. TimerOpen' /\ TableDescribesSocket'
  BY <1>1 DEF TypeOK, cb_func, TimerOpen, TableDescribesSocket
<1>4. Open' = Open \ S /\ S \subseteq Open
  BY <1>1 DEF TypeOK, cb_func, Open, TimerOpen
<1>5. Cardinality(Open \ S) = Cardinality(Open) - Cardinality(S)
  <2>1. Open \cap S = S
    BY <1>4
  <2> HIDE DEF Open
  <2> QED
    BY <2>1, OpenFinite, FS_Difference
<1>6. (m_user_count = Cardinality(Open))'
  BY <1>4, <1>5 DEF cb_func
<1> QED
  BY <1>2, <1>3, <1>6

\* A created connection is registered, described, timed and counted.
LEMMA OpenCreate ==
  ASSUME IInv, OpenInv, NEW f \in Fd, NEW c \in Client, LowestFree(f), create_user(f, c),
         UNCHANGED wpc
  PROVE  OpenInv'
<1> USE DEF OpenInv
<1>1. /\ sock \in [Fd -> Client \cup {NoClient}] /\ conn \in [Fd -> Conn]
      /\ epoll \in [Fd -> {"none", "off", "in", "out"}]
      /\ timer \in [Fd -> {"null", "fresh", "due"}] /\ sock[f] = NoClient /\ c # NoClient
  BY AssumptionsHold DEF Assumptions, IInv, TypeOK, LowestFree
<1>2. NoneCloses'
  BY DEF NoneCloses
<1>3. conn' = [conn EXCEPT ![f] = Created(f, c)] /\ Created(f, c).m_address = c
  BY <1>1, CreatedRecord DEF create_user, Created
<1>4. TimerOpen' /\ TableDescribesSocket'
  BY <1>1, <1>3 DEF create_user, TimerOpen, TableDescribesSocket
<1>5. Open' = Open \cup {f} /\ f \notin Open
  BY <1>1 DEF create_user, Open
<1>6. Cardinality(Open \cup {f}) = Cardinality(Open) + 1
  <2> HIDE DEF Open
  <2> QED
    BY <1>5, OpenFinite, FS_AddElement
<1>7. (m_user_count = Cardinality(Open))'
  BY <1>5, <1>6 DEF create_user
<1> QED
  BY <1>2, <1>4, <1>7

\* Re-arming neither registers nor unregisters.
LEMMA RearmKeeps ==
  ASSUME epoll \in [Fd -> {"none", "off", "in", "out"}]
  PROVE  /\ \A fd, ev : ev \in {"in", "out"} =>
              \A f \in Fd : modfd(fd, ev)[f] = "none" <=> epoll[f] = "none"
         /\ \A g, arm : arm \in {"in", "out", "keep"} =>
              \A f \in Fd : Rearmed(g, arm)[f] = "none" <=> epoll[f] = "none"
<1>1. ASSUME NEW fd, NEW ev \in {"in", "out"}, NEW f \in Fd
      PROVE  modfd(fd, ev)[f] = "none" <=> epoll[f] = "none"
  BY <1>1 DEF modfd
<1> QED
  BY <1>1 DEF Rearmed

\* adjust_timer fills no slot.
LEMMA AdjustKeeps ==
  ASSUME TypeOK, NEW f \in Fd, adjust_timer(f)
  PROVE  \A g \in Fd : timer'[g] # "null" => timer[g] # "null"
BY DEF TypeOK, adjust_timer

\* The main thread's I/O for the Proactor.
LEMMA OpenProactor ==
  ASSUME IInv, OpenInv, NEW f \in Fd, ProactorRead(f) \/ ProactorWrite(f) PROVE OpenInv'
<1>1. /\ TypeOK /\ timer[f] # "null" /\ conn \in [Fd -> Conn] /\ UNCHANGED wpc
      /\ epoll \in [Fd -> {"none", "off", "in", "out"}]
  BY DEF IInv, TypeOK, EventTimed, ProactorRead, ProactorWrite, workerVars
<1>2. \A g \in Fd : conn'[g].m_address = conn[g].m_address
  <2>1. \/ UNCHANGED conn
        \/ conn' = [conn EXCEPT ![f] = Filled(f)]
        \/ \E res \in WriteResults(f) : conn' = [conn EXCEPT ![f] = res.rec]
    BY DEF ProactorRead, ProactorWrite, Receive
  <2>2. Filled(f).m_address = conn[f].m_address
    BY <1>1 DEF Filled, Conn
  <2>3. \A res \in WriteResults(f) : res.rec.m_address = conn[f].m_address
    BY <1>1, WriteFrame
  <2> QED
    BY <1>1, <2>1, <2>2, <2>3
<1>3. CASE cb_func({f})
  BY <1>1, <1>2, <1>3, OpenClose
<1>4. CASE UNCHANGED <<sock, epoll, m_user_count>> /\ adjust_timer(f)
  BY <1>1, <1>2, <1>4, AdjustKeeps, OpenFrame DEF OpenInv, NoneCloses
<1>5. CASE /\ \E res \in WriteResults(f) : epoll' = Rearmed(f, res.arm)
           /\ UNCHANGED <<sock, m_user_count>> /\ adjust_timer(f)
  <2>1. \A g \in Fd : epoll'[g] = "none" => epoll[g] = "none"
    BY <1>1, <1>5, WriteType, RearmKeeps
  <2> QED
    BY <1>1, <1>2, <1>5, <2>1, AdjustKeeps, OpenFrame DEF OpenInv, NoneCloses
<1> QED
  BY <1>1, <1>3, <1>4, <1>5, DelTimerInv DEF ProactorRead, ProactorWrite

\* Steps of a worker.
LEMMA OpenWorker ==
  ASSUME HttpCodes \cap Refused = {}, IInv, OpenInv, NEW w \in Worker, WorkerStep(w)
  PROVE  OpenInv'
<1>1. /\ TypeOK /\ conn \in [Fd -> Conn] /\ wpc \in [Worker -> WorkerPc]
      /\ epoll \in [Fd -> {"none", "off", "in", "out"}] /\ NoneCloses
      /\ (wpc[w] # "idle" => wfd[w] \in Fd)
  BY DEF IInv, TypeOK, OpenInv, WorkerHolds
<1>2. /\ UNCHANGED <<sock, timer, m_user_count>>
      /\ \E l \in WorkerPc \ {"close", "forget", "count"} : wpc' = [wpc EXCEPT ![w] = l]
  <2>1. ~CloseDescriptor(w) /\ ~ForgetDescriptor(w) /\ ~CountDown(w)
    BY <1>1 DEF NoneCloses, CloseDescriptor, ForgetDescriptor, CountDown
  <2>2. CASE process_read(w)
    <3>1. \/ Goto(w, "arm_in") \/ Goto(w, "respond")
          \/ \E ret \in {"NO_REQUEST"} \cup HttpCodes : ret \in Refused
      BY <2>2 DEF process_read
    <3>2. "NO_REQUEST" \notin Refused
      BY DEF Refused
    <3> QED
      BY <2>2, <3>1, <3>2 DEF process_read, Goto, WorkerPc, kernelVars
  <2>3. CASE TakeRequest(w)
    BY <2>3 DEF TakeRequest, WorkerPc, kernelVars
  <2>4. CASE WorkerRead(w) \/ WorkerWrite(w) \/ RaiseTimerFlag(w) \/ process_write(w) \/ Rearm(w)
    BY <2>4 DEF WorkerRead, WorkerWrite, RaiseTimerFlag, process_write, Rearm, Goto, WorkerPc,
                kernelVars
  <2> QED
    BY <2>1, <2>2, <2>3, <2>4 DEF WorkerStep
<1>3. NoneCloses'
  BY <1>1, <1>2 DEF NoneCloses
<1>4. \A f \in Fd : conn'[f].m_address = conn[f].m_address
  <2>1. CASE WorkerRead(w)
    BY <2>1, ReadConn
  <2>2. CASE WorkerWrite(w)
    <3>1. PICK res \in WriteResults(wfd[w]) :
            conn' = [conn EXCEPT ![wfd[w]] = [res.rec EXCEPT !.improv = 1]]
      BY <2>2 DEF WorkerWrite
    <3>2. wfd[w] \in Fd /\ conn[wfd[w]] \in Conn
      BY <1>1, <2>2 DEF WorkerWrite
    <3>3. res.rec \in Conn /\ res.rec.m_address = conn[wfd[w]].m_address
      BY <3>2, WriteFrame
    <3>4. [res.rec EXCEPT !.improv = 1].m_address = res.rec.m_address
      BY <3>3 DEF Conn
    <3> QED
      BY <1>1, <3>1, <3>2, <3>3, <3>4
  <2>3. CASE RaiseTimerFlag(w) \/ process_write(w) \/ ForgetDescriptor(w)
    BY <2>3, FlagConn, RespondConn, ForgetConn
  <2>4. CASE TakeRequest(w) \/ process_read(w) \/ CloseDescriptor(w) \/ CountDown(w) \/ Rearm(w)
    BY <2>4 DEF TakeRequest, process_read, CloseDescriptor, CountDown, Rearm
  <2> QED
    BY <2>1, <2>2, <2>3, <2>4 DEF WorkerStep
<1>5. \A f \in Fd : epoll'[f] = "none" => epoll[f] = "none"
  <2>1. CASE WorkerWrite(w)
    <3>1. PICK res \in WriteResults(wfd[w]) : epoll' = Rearmed(wfd[w], res.arm)
      BY <2>1 DEF WorkerWrite
    <3>2. res.arm \in {"in", "out", "keep"}
      BY <1>1, <2>1, <3>1, WriteType DEF WorkerWrite
    <3> QED
      BY <1>1, <3>1, <3>2, RearmKeeps
  <2>2. CASE Rearm(w)
    <3>1. \E fd, ev : ev \in {"in", "out"} /\ epoll' = modfd(fd, ev)
      BY <2>2 DEF Rearm
    <3> QED
      BY <1>1, <3>1, RearmKeeps
  <2>3. CASE \/ TakeRequest(w) \/ WorkerRead(w) \/ RaiseTimerFlag(w) \/ process_read(w)
             \/ process_write(w) \/ ForgetDescriptor(w) \/ CountDown(w)
    BY <2>3 DEF TakeRequest, WorkerRead, RaiseTimerFlag, process_read, process_write,
                ForgetDescriptor, CountDown, kernelVars
  <2>4. ~CloseDescriptor(w)
    BY <1>1 DEF NoneCloses, CloseDescriptor
  <2> QED
    BY <2>1, <2>2, <2>3, <2>4 DEF WorkerStep
<1> QED
  BY <1>2, <1>3, <1>4, <1>5, OpenFrame

\* Every step keeps descriptors, timers, table and count together.
LEMMA OpenNext ==
  ASSUME HttpCodes \cap Refused = {}, IInv, OpenInv, [Next]_vars PROVE OpenInv'
<1>1. /\ TypeOK /\ conn \in [Fd -> Conn] /\ sock \in [Fd -> Client \cup {NoClient}]
      /\ epoll \in [Fd -> {"none", "off", "in", "out"}] /\ NoneCloses /\ TimerOpen
      /\ timer \in [Fd -> {"null", "fresh", "due"}]
  BY DEF IInv, TypeOK, OpenInv
<1>2. CASE /\ UNCHANGED <<sock, epoll, m_user_count, conn, wpc>>
           /\ \A f \in Fd : timer'[f] # "null" => timer[f] # "null"
  BY <1>1, <1>2, OpenFrame DEF NoneCloses
<1>3. CASE epoll_wait
  <2>1. UNCHANGED <<sock, m_user_count, conn, timer, wpc>>
    BY <1>3 DEF epoll_wait, workerVars
  <2>2. \A f \in Fd : epoll'[f] = "none" => epoll[f] = "none"
    BY <1>1, <1>3 DEF epoll_wait
  <2> QED
    BY <1>1, <2>1, <2>2, OpenFrame DEF NoneCloses
<1>4. CASE dealclinetdata
  <2>1. UNCHANGED wpc
    BY <1>4 DEF dealclinetdata, workerVars
  <2>2. CASE UNCHANGED <<sock, epoll, conn, timer, m_user_count>>
    BY <1>2, <2>1, <2>2
  <2>3. CASE \E c \in Client, f \in Fd : LowestFree(f) /\ create_user(f, c)
    BY <2>1, <2>3, OpenCreate
  <2> QED
    BY <1>1, <1>4, <2>2, <2>3, AcceptCases DEF LowestFree, TimerOpen
<1>5. CASE EndOfBatch
  <2>1. UNCHANGED <<conn, wpc>>
    BY <1>5 DEF EndOfBatch, workerVars
  <2>2. CASE \E S \in SUBSET {f \in Fd : timer[f] = "due"} : cb_func(S)
    <3>1. PICK S \in SUBSET Fd : cb_func(S) /\ \A f \in S : timer[f] = "due"
      BY <2>2
    <3> QED
      BY <2>1, <3>1, OpenClose
  <2>3. CASE UNCHANGED <<sock, epoll, timer, m_user_count>>
    BY <1>2, <2>1, <2>3
  <2> QED
    BY <1>5, <2>2, <2>3 DEF EndOfBatch
<1>6. CASE \E f \in Fd : HandleHangup(f)
  <2>1. PICK f \in Fd : HandleHangup(f)
    BY <1>6
  <2>2. timer[f] # "null" /\ UNCHANGED <<conn, wpc>> /\ del_timer(f)
    BY <2>1 DEF IInv, EventTimed, HandleHangup, workerVars
  <2>3. cb_func({f})
    BY <1>1, <2>2, DelTimerInv
  <2> QED
    BY <2>2, <2>3, OpenClose
<1>7. CASE SpinExit
  <2>1. /\ cur \in Fd /\ timer[cur] # "null" /\ UNCHANGED wpc
        /\ \A f \in Fd : conn'[f].m_address = conn[f].m_address
    BY <1>7, SpinExitConn DEF IInv, SpinTimed, SpinExit, workerVars
  <2>2. CASE del_timer(cur)
    <3>1. cb_func({cur})
      BY <1>1, <2>1, <2>2, DelTimerInv
    <3> QED
      BY <2>1, <3>1, OpenClose
  <2>3. CASE UNCHANGED <<sock, epoll, timer, m_user_count>>
    BY <1>1, <2>1, <2>3, OpenFrame DEF NoneCloses
  <2> QED
    BY <1>7, <2>2, <2>3 DEF SpinExit
<1>8. CASE \E f \in Fd : ProactorRead(f) \/ ProactorWrite(f)
  BY <1>8, OpenProactor
<1>9. CASE \E f \in Fd : ReactorDispatch(f)
  <2>1. PICK f \in Fd : ReactorDispatch(f)
    BY <1>9
  <2>2. UNCHANGED <<sock, epoll, m_user_count, wpc>> /\ adjust_timer(f)
    BY <2>1 DEF ReactorDispatch, kernelVars, workerVars
  <2>3. \A g \in Fd : conn'[g].m_address = conn[g].m_address
    BY <1>1, <2>1 DEF ReactorDispatch, Conn
  <2> QED
    BY <1>1, <2>2, <2>3, AdjustKeeps, OpenFrame DEF NoneCloses
<1>10. CASE \E w \in Worker : WorkerStep(w)
  BY <1>10, OpenWorker
<1>11. CASE dealwithsignal \/ Rest \/ UNCHANGED vars
  <2>1. UNCHANGED <<sock, epoll, m_user_count, conn, wpc, timer>>
    BY <1>11 DEF dealwithsignal, Rest, vars, kernelVars, workerVars
  <2> QED
    BY <1>2, <2>1
<1>12. CASE \/ \E c \in Client : Connect(c) \/ Send(c) \/ Hangup(c)
            \/ \E f \in Fd : TimePasses(f)
            \/ \E s \in Signals : sig_handler(s)
  <2>1. /\ UNCHANGED <<sock, epoll, m_user_count, conn, wpc>>
        /\ \A f \in Fd : timer'[f] # "null" => timer[f] # "null"
    BY <1>1, <1>12 DEF Connect, Send, Hangup, TimePasses, sig_handler, kernelVars, workerVars
  <2> QED
    BY <1>2, <2>1
<1> QED
  BY <1>3, <1>4, <1>5, <1>6, <1>7, <1>8, <1>9, <1>10, <1>11, <1>12 DEF Next, Main

\* No socket is open at the start.
LEMMA OpenInit == Init => OpenInv
<1> SUFFICES ASSUME Init PROVE OpenInv
  OBVIOUS
<1>1. NoneCloses /\ TimerOpen /\ TableDescribesSocket
  BY DEF Init, NoneCloses, TimerOpen, TableDescribesSocket
<1>2. Open = {} /\ m_user_count = 0
  BY DEF Init, Open
<1> QED
  BY <1>1, <1>2, FS_EmptySet DEF OpenInv

THEOREM OpenInductive ==
  ASSUME HttpCodes \cap Refused = {} PROVE Spec => []OpenInv
<1>1. IInv /\ OpenInv /\ [Next]_vars => OpenInv'
  BY OpenNext
<1> QED
  BY <1>1, Inductive, OpenInit, PTL DEF Spec

\* When every request is answered, the table entry at a number is that of the
\* socket open at it, and the socket is registered (webserver.cpp:196-200): for
\* both actor models, whatever times out and however fast numbers are reused.
THEOREM TableIsTrue ==
  ASSUME HttpCodes \cap Refused = {} PROVE Spec => []TableDescribesSocket
<1>1. OpenInv => TableDescribesSocket
  BY DEF OpenInv
<1> QED
  BY <1>1, OpenInductive, PTL

\* And m_user_count is the number of open connections (http_conn.cpp:108,
\* utils.cpp:142): each is counted down by exactly one of the callbacks.
THEOREM CountIsTrue ==
  ASSUME HttpCodes \cap Refused = {} PROVE Spec => []UserCountExact
<1>1. OpenInv => UserCountExact
  BY DEF OpenInv, UserCountExact, Open
<1> QED
  BY <1>1, OpenInductive, PTL

-----------------------------------------------------------------------------
(* One thread at a time has a connection                                   *)

\* EPOLLONESHOT is a lease: a descriptor in work is not armed, not reported and
\* not due; one that is reported is disarmed; an object only knows its own number.
Queued(f)  == \E i \in 1..Len(m_workqueue) : m_workqueue[i] = f
Held(f)    == \E w \in Worker : wfd[w] = f
Armed(f)   == epoll[f] \in {"in", "out"}
QueuedOnce == \A i, j \in 1..Len(m_workqueue) : m_workqueue[i] = m_workqueue[j] => i = j
HeldOnce   == \A v, w \in Worker : wfd[v] = wfd[w] /\ wfd[v] \in Fd => v = w
NotBoth    == \A f \in Fd : ~(Queued(f) /\ Held(f))
BusyQuiet  == \A f \in Fd : Queued(f) \/ Held(f)
                              => ~Armed(f) /\ events[f] = "none" /\ timer[f] = "fresh"
EventOff   == \A f \in Fd : events[f] # "none" => epoll[f] = "off"
OwnNumber  == \A f \in Fd : conn[f].m_sockfd \in {f, NoFd}

LeaseInv == QueuedOnce /\ HeldOnce /\ NotBoth /\ BusyQuiet /\ EventOff /\ OwnNumber

\* In work is: queued or held.
LEMMA BusyIs == \A f : Busy(f) <=> Queued(f) \/ Held(f)
BY DEF Busy, Queued, Held

\* Steps that hand nothing over need only look after the quiet of what is in work.
LEMMA LeaseFrame ==
  ASSUME LeaseInv, UNCHANGED <<m_workqueue, wfd>>,
         \A f \in Fd : conn'[f].m_sockfd \in {conn[f].m_sockfd, f},
         \A f \in Fd : Queued(f) \/ Held(f)
                         => ~Armed(f)' /\ events'[f] = "none" /\ timer'[f] = "fresh",
         \A f \in Fd : events'[f] # "none" => epoll'[f] = "off"
  PROVE  LeaseInv'
<1> USE DEF LeaseInv
<1>1. QueuedOnce' /\ HeldOnce' /\ NotBoth'
  BY DEF QueuedOnce, HeldOnce, NotBoth, Queued, Held
<1>2. BusyQuiet'
  BY DEF BusyQuiet, Queued, Held
<1>3. EventOff' /\ OwnNumber'
  BY DEF EventOff, OwnNumber
<1> QED
  BY <1>1, <1>2, <1>3

\* Closing descriptors nobody has in work.
LEMMA LeaseClose ==
  ASSUME TypeOK, LeaseInv, NEW S \in SUBSET Fd, \A f \in S : ~Queued(f) /\ ~Held(f),
         cb_func(S), \A f \in S : events'[f] = "none",
         \A f \in Fd : events'[f] \in {"none", events[f]},
         \A f \in Fd : conn'[f].m_sockfd = conn[f].m_sockfd, UNCHANGED <<m_workqueue, wfd>>
  PROVE  LeaseInv'
<1>1. /\ \A f \in S : epoll'[f] = "none"
      /\ \A f \in Fd \ S : epoll'[f] = epoll[f] /\ timer'[f] = timer[f]
  BY CbFuncType
<1>2. \A f \in Fd : Queued(f) \/ Held(f)
                      => ~Armed(f)' /\ events'[f] = "none" /\ timer'[f] = "fresh"
  BY <1>1 DEF LeaseInv, BusyQuiet, Armed
<1>3. \A f \in Fd : events'[f] # "none" => epoll'[f] = "off"
  BY <1>1 DEF LeaseInv, EventOff
<1> QED
  BY <1>2, <1>3, LeaseFrame

\* epoll_wait disarms what it reports.
LEMMA LeaseEpollWait ==
  ASSUME IInv, LeaseInv, epoll_wait PROVE LeaseInv'
<1>1. /\ epoll \in [Fd -> {"none", "off", "in", "out"}] /\ Fd \subseteq Source
      /\ Listen \notin Fd /\ Pipe \notin Fd
  BY AssumptionsHold DEF Assumptions, IInv, TypeOK, Source
<1>2. /\ \A f \in Fd : events'[f] = EventOf(f)
      /\ \A f \in Fd : epoll'[f] = IF EventOf(f) # "none" THEN "off" ELSE epoll[f]
      /\ UNCHANGED <<conn, timer, m_workqueue, wfd>>
  BY <1>1 DEF epoll_wait, Ready, workerVars
<1>3. \A f \in Fd : ~Armed(f) => EventOf(f) = "none"
  BY DEF Armed, EventOf
<1>4. \A f \in Fd : Queued(f) \/ Held(f)
                      => ~Armed(f)' /\ events'[f] = "none" /\ timer'[f] = "fresh"
  BY <1>2, <1>3 DEF LeaseInv, BusyQuiet, Armed
<1>5. \A f \in Fd : events'[f] # "none" => epoll'[f] = "off"
  BY <1>2
<1> QED
  BY <1>2, <1>4, <1>5, LeaseFrame

\* An accepted client's number is in nobody's hands: its slot was empty.
LEMMA LeaseAccept ==
  ASSUME IInv, LeaseInv, dealclinetdata PROVE LeaseInv'
<1>1. /\ UNCHANGED <<m_workqueue, wfd>>
      /\ \A f \in Fd : events'[f] = events[f]
  <2>1. Listen \notin Fd /\ events \in [Source -> Kinds] /\ Fd \subseteq Source
    BY AssumptionsHold DEF Assumptions, IInv, TypeOK, Source
  <2> QED
    BY <2>1 DEF dealclinetdata, Taken, workerVars
<1>2. CASE UNCHANGED <<epoll, conn, timer>>
  BY <1>1, <1>2, LeaseFrame DEF LeaseInv, BusyQuiet, EventOff, Armed
<1>3. CASE \E c \in Client, f \in Fd : timer[f] = "null" /\ create_user(f, c)
  <2>1. PICK c \in Client, f \in Fd : timer[f] = "null" /\ create_user(f, c)
    BY <1>3
  <2>2. /\ conn \in [Fd -> Conn] /\ epoll \in [Fd -> {"none", "off", "in", "out"}]
        /\ timer \in [Fd -> {"null", "fresh", "due"}]
    BY DEF IInv, TypeOK
  <2>3. events[f] = "none" /\ ~Queued(f) /\ ~Held(f)
    BY <2>1 DEF IInv, EventTimed, LeaseInv, BusyQuiet
  <2>4. \A g \in Fd : conn'[g].m_sockfd \in {conn[g].m_sockfd, g}
    <3>1. conn' = [conn EXCEPT ![f] = Created(f, c)]
      BY <2>1 DEF create_user, Created
    <3>2. Created(f, c).m_sockfd = f
      BY <2>2, CreatedRecord
    <3> QED
      BY <2>2, <3>1, <3>2
  <2>5. \A g \in Fd \ {f} : epoll'[g] = epoll[g] /\ timer'[g] = timer[g]
    BY <2>1, <2>2 DEF create_user
  <2>6. \A g \in Fd : Queued(g) \/ Held(g)
                        => ~Armed(g)' /\ events'[g] = "none" /\ timer'[g] = "fresh"
    BY <1>1, <2>3, <2>5 DEF LeaseInv, BusyQuiet, Armed
  <2>7. \A g \in Fd : events'[g] # "none" => epoll'[g] = "off"
    BY <1>1, <2>3, <2>5 DEF LeaseInv, EventOff
  <2> QED
    BY <1>1, <2>4, <2>6, <2>7, LeaseFrame
<1> QED
  BY <1>2, <1>3, AcceptCases

\* An event on f says that f is in nobody's hands, and handling it takes it off.
LEMMA EventFree ==
  ASSUME IInv, LeaseInv, NEW f \in Fd, events[f] # "none", Taken(f)
  PROVE  /\ ~Queued(f) /\ ~Held(f) /\ epoll[f] = "off" /\ timer[f] # "null"
         /\ events'[f] = "none" /\ \A g \in Fd \ {f} : events'[g] = events[g]
<1>1. events \in [Source -> Kinds] /\ Fd \subseteq Source
  BY DEF IInv, TypeOK, Source
<1> QED
  BY <1>1 DEF Taken, IInv, EventTimed, LeaseInv, BusyQuiet, EventOff

\* The hang-up branch.
LEMMA LeaseHangup ==
  ASSUME IInv, LeaseInv, NEW f \in Fd, HandleHangup(f) PROVE LeaseInv'
<1>1. events[f] # "none" /\ Taken(f) /\ UNCHANGED <<conn, m_workqueue, wfd>> /\ TypeOK
  BY DEF HandleHangup, workerVars, IInv
<1>2. /\ ~Queued(f) /\ ~Held(f) /\ timer[f] # "null"
      /\ events'[f] = "none" /\ \A g \in Fd \ {f} : events'[g] = events[g]
  BY <1>1, EventFree
<1>3. cb_func({f})
  BY <1>1, <1>2, DelTimerInv DEF HandleHangup
<1> QED
  BY <1>1, <1>2, <1>3, LeaseClose

\* timer_handler closes what is due, and nothing in work is.
LEMMA LeaseEndOfBatch ==
  ASSUME IInv, LeaseInv, EndOfBatch PROVE LeaseInv'
<1>1. /\ TypeOK /\ UNCHANGED <<conn, events, m_workqueue, wfd>>
      /\ \A f \in Fd : events[f] = "none"
  BY DEF IInv, EndOfBatch, NoEvent, Source, workerVars
<1>2. CASE UNCHANGED <<sock, epoll, timer, m_user_count>>
  BY <1>1, <1>2, LeaseFrame DEF LeaseInv, BusyQuiet, EventOff, Armed
<1>3. ASSUME NEW S \in SUBSET Fd, \A f \in S : timer[f] = "due", cb_func(S)
      PROVE  LeaseInv'
  <2>1. \A f \in S : ~Queued(f) /\ ~Held(f)
    BY <1>3 DEF LeaseInv, BusyQuiet
  <2> QED
    BY <1>1, <1>3, <2>1, LeaseClose
<1>4. \/ UNCHANGED <<sock, epoll, timer, m_user_count>>
      \/ \E S \in SUBSET Fd : cb_func(S) /\ \A f \in S : timer[f] = "due"
  BY DEF EndOfBatch
<1> QED
  BY <1>2, <1>3, <1>4

\* Time passes only for what is not in work: the assumption Timely.
LEMMA LeaseTime ==
  ASSUME Timely, LeaseInv, NEW f \in Fd, TimePasses(f) PROVE LeaseInv'
<1>1. /\ ~Queued(f) /\ ~Held(f) /\ timer' = [timer EXCEPT ![f] = "due"]
      /\ UNCHANGED <<epoll, events, conn, m_workqueue, wfd>>
  BY BusyIs DEF TimePasses, kernelVars, mainVars, workerVars
<1>2. \A g \in Fd : Queued(g) \/ Held(g)
                      => ~Armed(g)' /\ events'[g] = "none" /\ timer'[g] = "fresh"
  BY <1>1 DEF LeaseInv, BusyQuiet, Armed
<1> QED
  BY <1>1, <1>2, LeaseFrame DEF LeaseInv, EventOff

\* What append does to the queue.
LEMMA AppendQueued ==
  ASSUME TypeOK, NEW f \in Fd, append(f)
  PROVE  \/ m_workqueue' = m_workqueue
         \/ /\ \A g : Queued(g)' <=> Queued(g) \/ g = f
            /\ QueuedOnce /\ ~Queued(f) => QueuedOnce'
<1>1. m_workqueue \in Seq(Fd)
  BY DEF TypeOK
<1>2. CASE m_workqueue' = Append(m_workqueue, f)
  <2> DEFINE q == m_workqueue
             n == Len(m_workqueue)
  <2>1. /\ n \in Nat /\ Len(m_workqueue') = n + 1 /\ m_workqueue'[n + 1] = f
        /\ \A i \in 1..n : m_workqueue'[i] = q[i]
    BY <1>1, <1>2
  <2>2. \A g : Queued(g)' <=> Queued(g) \/ g = f
    BY <2>1 DEF Queued
  <2>3. QueuedOnce /\ ~Queued(f) => QueuedOnce'
    BY <2>1 DEF Queued, QueuedOnce
  <2> QED
    BY <2>2, <2>3
<1> QED
  BY <1>2 DEF append

\* The Proactor queues a descriptor whose event it has taken, and makes its timer fresh.
LEMMA LeaseRead ==
  ASSUME IInv, LeaseInv, NEW f \in Fd, ProactorRead(f) PROVE LeaseInv'
<1>1. events[f] # "none" /\ Taken(f) /\ UNCHANGED wfd /\ TypeOK /\ conn \in [Fd -> Conn]
  BY DEF ProactorRead, workerVars, IInv, TypeOK
<1>2. /\ ~Queued(f) /\ ~Held(f) /\ epoll[f] = "off" /\ timer[f] # "null"
      /\ events'[f] = "none" /\ \A g \in Fd \ {f} : events'[g] = events[g]
  BY <1>1, EventFree
<1>3. CASE del_timer(f) /\ UNCHANGED <<conn, inbox, m_workqueue>>
  BY <1>1, <1>2, <1>3, DelTimerInv, LeaseClose
<1>4. CASE /\ CanRead(f) /\ Receive(f) /\ append(f) /\ adjust_timer(f)
           /\ UNCHANGED <<sock, epoll, m_user_count, mpc>>
  <2>1. \A g \in Fd : conn'[g].m_sockfd = conn[g].m_sockfd
    BY <1>1, <1>4 DEF Receive, Filled, Conn
  <2>2. timer'[f] = "fresh" /\ \A g \in Fd \ {f} : timer'[g] = timer[g]
    BY <1>1, <1>2, <1>4 DEF adjust_timer, TypeOK
  <2>3. \A g \in Fd : g = f \/ Queued(g) \/ Held(g)
                        => ~Armed(g)' /\ events'[g] = "none" /\ timer'[g] = "fresh"
    BY <1>2, <1>4, <2>2 DEF LeaseInv, BusyQuiet, Armed
  <2>4. \A g \in Fd : events'[g] # "none" => epoll'[g] = "off"
    BY <1>2, <1>4 DEF LeaseInv, EventOff
  <2>5. CASE m_workqueue' = m_workqueue
    BY <1>1, <2>1, <2>3, <2>4, <2>5, LeaseFrame
  <2>6. CASE (\A g : Queued(g)' <=> Queued(g) \/ g = f) /\ QueuedOnce'
    <3>1. \A g : Held(g)' <=> Held(g)
      BY <1>1 DEF Held
    <3>2. HeldOnce' /\ NotBoth' /\ OwnNumber'
      BY <1>1, <1>2, <2>1, <2>6, <3>1 DEF LeaseInv, HeldOnce, NotBoth, OwnNumber
    <3>3. BusyQuiet' /\ EventOff'
      BY <2>3, <2>4, <2>6, <3>1 DEF BusyQuiet, EventOff
    <3> QED
      BY <2>6, <3>2, <3>3 DEF LeaseInv
  <2> QED
    BY <1>1, <1>2, <1>4, <2>5, <2>6, AppendQueued DEF LeaseInv
<1> QED
  BY <1>3, <1>4, Zenon DEF ProactorRead

\* Re-arming after write() concerns the descriptor written to and no other.
LEMMA RearmOwn ==
  ASSUME TypeOK, OwnNumber, NEW f \in Fd, NEW ev
  PROVE  \A g \in Fd \ {f} : modfd(conn[f].m_sockfd, ev)[g] = epoll[g]
BY AssumptionsHold DEF Assumptions, TypeOK, OwnNumber, modfd

LEMMA LeaseWrite ==
  ASSUME IInv, LeaseInv, NEW f \in Fd, ProactorWrite(f) PROVE LeaseInv'
<1>1. /\ events[f] # "none" /\ Taken(f) /\ UNCHANGED <<m_workqueue, wfd>> /\ TypeOK
      /\ conn \in [Fd -> Conn]
  BY DEF ProactorWrite, workerVars, IInv, TypeOK
<1>2. /\ ~Queued(f) /\ ~Held(f) /\ timer[f] # "null"
      /\ events'[f] = "none" /\ \A g \in Fd \ {f} : events'[g] = events[g]
  BY <1>1, EventFree
<1>3. PICK res \in WriteResults(f) :
        /\ conn' = [conn EXCEPT ![f] = res.rec]
        /\ \/ epoll' = Rearmed(f, res.arm) /\ adjust_timer(f)
           \/ del_timer(f)
  BY DEF ProactorWrite
<1>4. \A g \in Fd : conn'[g].m_sockfd = conn[g].m_sockfd
  BY <1>1, <1>3, WriteFrame
<1>5. CASE del_timer(f)
  BY <1>1, <1>2, <1>4, <1>5, DelTimerInv, LeaseClose
<1>6. CASE epoll' = Rearmed(f, res.arm) /\ adjust_timer(f)
  <2>1. \A g \in Fd \ {f} : timer'[g] = timer[g] /\ epoll'[g] = epoll[g]
    <3>1. OwnNumber /\ \A g \in Fd \ {f} : timer'[g] = timer[g]
      BY <1>1, <1>6 DEF adjust_timer, TypeOK, LeaseInv
    <3>2. \/ epoll' = epoll
          \/ epoll' = modfd(conn[f].m_sockfd, res.arm)
      BY <1>6 DEF Rearmed
    <3>3. \A g \in Fd \ {f} : epoll'[g] = epoll[g]
      BY <1>1, <3>1, <3>2, RearmOwn
    <3> QED
      BY <3>1, <3>3
  <2>2. \A g \in Fd : Queued(g) \/ Held(g)
                        => ~Armed(g)' /\ events'[g] = "none" /\ timer'[g] = "fresh"
    BY <1>2, <2>1 DEF LeaseInv, BusyQuiet, Armed
  <2>3. \A g \in Fd : events'[g] # "none" => epoll'[g] = "off"
    BY <1>2, <2>1 DEF LeaseInv, EventOff
  <2> QED
    BY <1>1, <1>4, <2>2, <2>3, LeaseFrame
<1> QED
  BY <1>3, <1>5, <1>6

\* A worker takes over what was queued.
LEMMA LeaseTake ==
  ASSUME IInv, LeaseInv, NEW w \in Worker, TakeRequest(w) PROVE LeaseInv'
<1>0. PICK f : f = Head(m_workqueue)
  OBVIOUS
<1>1. /\ m_workqueue \in Seq(Fd) /\ m_workqueue # <<>> /\ wfd \in [Worker -> Fd \cup {NoFd}]
      /\ m_workqueue' = Tail(m_workqueue) /\ wfd' = [wfd EXCEPT ![w] = f]
      /\ UNCHANGED <<epoll, events, conn, timer>>
  BY <1>0 DEF IInv, TypeOK, TakeRequest, kernelVars, mainVars
<1>2. /\ Len(m_workqueue') = Len(m_workqueue) - 1 /\ Len(m_workqueue) \in Nat \ {0}
      /\ \A i \in 1..Len(m_workqueue') : m_workqueue'[i] = m_workqueue[i + 1]
      /\ f = m_workqueue[1] /\ f \in Fd
  BY <1>0, <1>1
<1>3. \A g : Queued(g)' => Queued(g)
  BY <1>2 DEF Queued
<1>4. Queued(f)
  BY <1>2 DEF Queued
<1>5. QueuedOnce' /\ ~Queued(f)'
  BY <1>2 DEF LeaseInv, QueuedOnce, Queued
<1>6. \A g \in Fd : Held(g)' => Held(g) \/ g = f
  BY <1>1 DEF Held
<1>7. HeldOnce' /\ NotBoth'
  <2>1. ~Held(f)
    BY <1>2, <1>4 DEF LeaseInv, NotBoth
  <2>2. HeldOnce'
    BY <1>1, <1>2, <2>1 DEF LeaseInv, HeldOnce, Held
  <2>3. NotBoth'
    BY <1>3, <1>5, <1>6 DEF LeaseInv, NotBoth
  <2> QED
    BY <2>2, <2>3
<1>8. BusyQuiet'
  BY <1>1, <1>2, <1>3, <1>4, <1>6 DEF LeaseInv, BusyQuiet, Armed
<1> QED
  BY <1>1, <1>5, <1>7, <1>8 DEF LeaseInv, EventOff, OwnNumber

\* process() and close_conn concern the descriptor in hand, which is disarmed
\* until the modfd at the end, and nobody's after it.
LEMMA LeaseWorker ==
  ASSUME ActorModel # 1, IInv, SpinInv, LeaseInv, NEW w \in Worker, WorkerStep(w)
  PROVE  LeaseInv'
<1>1. /\ TypeOK /\ conn \in [Fd -> Conn] /\ epoll \in [Fd -> {"none", "off", "in", "out"}]
      /\ wfd \in [Worker -> Fd \cup {NoFd}] /\ (wpc[w] # "idle" => wfd[w] \in Fd)
      /\ wpc[w] \notin {"read", "write", "flag"}
  BY DEF IInv, TypeOK, WorkerHolds, SpinInv, Proactor
<1>2. CASE TakeRequest(w)
  BY <1>2, LeaseTake
<1>3. CASE process_read(w) \/ process_write(w) \/ ForgetDescriptor(w) \/ CountDown(w)
  <2>1. UNCHANGED <<epoll, events, timer, m_workqueue, wfd>>
    BY <1>3 DEF process_read, process_write, ForgetDescriptor, CountDown, Goto,
                kernelVars, mainVars
  <2>2. \A f \in Fd : conn'[f].m_sockfd \in {f, NoFd}
    <3>1. \A f \in Fd : conn'[f].m_sockfd \in {conn[f].m_sockfd, NoFd}
      BY <1>3, RespondConn, ForgetConn DEF process_read, CountDown
    <3> QED
      BY <3>1 DEF LeaseInv, OwnNumber
  <2> QED
    BY <2>1, <2>2 DEF LeaseInv, QueuedOnce, HeldOnce, NotBoth, BusyQuiet, EventOff,
                      OwnNumber, Queued, Held, Armed
<1>4. CASE CloseDescriptor(w)
  <2>1. /\ UNCHANGED <<events, timer, m_workqueue, wfd, conn>> /\ wfd[w] \in Fd
        /\ \/ epoll' = [epoll EXCEPT ![wfd[w]] = "none"]
           \/ UNCHANGED epoll
    BY <1>1, <1>4, AssumptionsHold DEF Assumptions, CloseDescriptor, Goto, mainVars, LeaseInv,
                                       OwnNumber
  <2>2. events[wfd[w]] = "none"
    BY <2>1 DEF LeaseInv, BusyQuiet, Held
  <2>3. \A f \in Fd : events'[f] # "none" => epoll'[f] = "off"
    BY <1>1, <2>1, <2>2 DEF LeaseInv, EventOff
  <2>4. \A f \in Fd : Armed(f)' => Armed(f)
    BY <1>1, <2>1 DEF Armed
  <2> QED
    BY <2>1, <2>3, <2>4, LeaseFrame DEF LeaseInv, BusyQuiet
<1>5. CASE Rearm(w)
  <2> DEFINE f == wfd[w]
  <2>1. /\ UNCHANGED <<events, timer, m_workqueue, conn>> /\ f \in Fd
        /\ wfd' = [wfd EXCEPT ![w] = NoFd]
        /\ \A g \in Fd \ {f} : epoll'[g] = epoll[g]
    BY <1>1, <1>5, RearmOwn DEF Rearm, Goto, mainVars, LeaseInv
  <2>2. NoFd \notin Fd
    BY AssumptionsHold DEF Assumptions
  <2>3. \A g \in Fd : Held(g)' => Held(g) /\ g # f
    BY <1>1, <2>1, <2>2 DEF Held, LeaseInv, HeldOnce
  <2>4. \A g : Queued(g)' <=> Queued(g)
    BY <2>1 DEF Queued
  <2>5. Held(f)
    BY DEF Held
  <2> HIDE DEF f
  <2>6. events[f] = "none" /\ ~Queued(f)
    BY <2>1, <2>5 DEF LeaseInv, BusyQuiet, NotBoth
  <2>7. QueuedOnce' /\ NotBoth' /\ OwnNumber'
    BY <2>1, <2>3, <2>4 DEF LeaseInv, QueuedOnce, NotBoth, OwnNumber
  <2>8. HeldOnce'
    BY <1>1, <2>1, <2>2 DEF LeaseInv, HeldOnce
  <2>9. BusyQuiet'
    BY <2>1, <2>3, <2>4, <2>6 DEF LeaseInv, BusyQuiet, Armed
  <2>10. EventOff'
    BY <2>1, <2>6 DEF LeaseInv, EventOff
  <2> QED
    BY <2>7, <2>8, <2>9, <2>10 DEF LeaseInv
<1>6. ~WorkerRead(w) /\ ~WorkerWrite(w) /\ ~RaiseTimerFlag(w)
  BY <1>1 DEF WorkerRead, WorkerWrite, RaiseTimerFlag
<1> QED
  BY <1>2, <1>3, <1>4, <1>5, <1>6 DEF WorkerStep

\* In the Proactor, while no timeout elapses on what is in work, every step keeps
\* the lease.
LEMMA LeaseNext ==
  ASSUME ActorModel # 1, Timely, IInv, SpinInv, LeaseInv, [Next]_vars PROVE LeaseInv'
<1>1. CASE UNCHANGED <<epoll, events, conn, timer, m_workqueue, wfd>>
  BY <1>1 DEF LeaseInv, QueuedOnce, HeldOnce, NotBoth, BusyQuiet, EventOff, OwnNumber,
              Queued, Held, Armed
<1>2. CASE dealwithsignal
  <2>1. \A f \in Fd : events'[f] = events[f]
    BY <1>2, AssumptionsHold DEF Assumptions, IInv, TypeOK, dealwithsignal, Taken, Source
  <2>2. UNCHANGED <<epoll, conn, timer, m_workqueue, wfd>>
    BY <1>2 DEF dealwithsignal, kernelVars, workerVars
  <2> QED
    BY <2>1, <2>2, LeaseFrame DEF LeaseInv, BusyQuiet, EventOff, Armed
<1>3. CASE \/ \E c \in Client : Connect(c) \/ Send(c) \/ Hangup(c)
           \/ \E s \in Signals : sig_handler(s)
           \/ Rest \/ UNCHANGED vars
  <2>1. UNCHANGED <<epoll, events, conn, timer, m_workqueue, wfd>>
    BY <1>3 DEF Connect, Send, Hangup, sig_handler, Rest, vars, kernelVars, mainVars,
                workerVars
  <2> QED
    BY <1>1, <2>1
<1>4. CASE \E f \in Fd : TimePasses(f)
  BY <1>4, LeaseTime
<1>5. CASE Main
  <2>1. ~SpinExit /\ \A f \in Fd : ~ReactorDispatch(f)
    BY DEF SpinInv, Proactor, SpinExit, ReactorDispatch
  <2> QED
    BY <1>2, <1>5, <2>1, LeaseEpollWait, LeaseAccept, LeaseEndOfBatch, LeaseHangup, LeaseRead,
       LeaseWrite DEF Main
<1>6. CASE \E w \in Worker : WorkerStep(w)
  BY <1>6, LeaseWorker
<1> QED
  BY <1>3, <1>4, <1>5, <1>6 DEF Next

\* Nothing is in work at the start.
LEMMA LeaseInit == Init => LeaseInv
<1> SUFFICES ASSUME Init PROVE LeaseInv
  OBVIOUS
<1>1. NoFd \notin Fd
  BY AssumptionsHold DEF Assumptions
<1>2. \A f : ~Queued(f)
  BY DEF Init, Queued
<1>3. \A f \in Fd : ~Held(f)
  BY <1>1 DEF Init, Held
<1>4. QueuedOnce /\ HeldOnce /\ NotBoth
  BY <1>1, <1>2 DEF Init, QueuedOnce, HeldOnce, NotBoth
<1>5. BusyQuiet /\ EventOff /\ OwnNumber
  BY <1>2, <1>3 DEF Init, BusyQuiet, EventOff, OwnNumber, Source
<1> QED
  BY <1>4, <1>5 DEF LeaseInv

THEOREM LeaseInductive ==
  ASSUME ActorModel # 1, Timely PROVE Spec => []LeaseInv
<1>1. IInv /\ SpinInv /\ LeaseInv /\ [Next]_vars => LeaseInv'
  BY LeaseNext
<1> QED
  BY <1>1, Inductive, HandshakeInductive, LeaseInit, PTL DEF Spec

\* In the Proactor a connection is queued or held by a worker at most once, for
\* every number of workers and any queue limit (EPOLLONESHOT, http_conn.cpp:59-95),
\* also when a worker closes the descriptor and its number is handed out again; as
\* long as no timeout elapses on a connection in work.
THEOREM OneThreadAtATime ==
  ASSUME ActorModel # 1, Timely PROVE Spec => []OneThreadPerConn
<1>1. LeaseInv => OneThreadPerConn
  <2> SUFFICES ASSUME LeaseInv, NEW f \in Fd
               PROVE  Cardinality({i \in 1..Len(m_workqueue) : m_workqueue[i] = f})
                        + Cardinality({w \in Worker : wfd[w] = f}) <= 1
    BY DEF OneThreadPerConn
  <2> DEFINE Q == {i \in 1..Len(m_workqueue) : m_workqueue[i] = f}
             W == {w \in Worker : wfd[w] = f}
  <2>1. \A i \in Q : Q = {i}
    BY DEF LeaseInv, QueuedOnce
  <2>2. \A w \in W : W = {w}
    BY DEF LeaseInv, HeldOnce
  <2>3. Q = {} \/ W = {}
    BY DEF LeaseInv, NotBoth, Queued, Held
  <2> HIDE DEF Q, W
  <2>4. Cardinality(Q) \in {0, 1} /\ (Q = {} => Cardinality(Q) = 0)
    BY <2>1, FS_EmptySet, FS_Singleton
  <2>5. Cardinality(W) \in {0, 1} /\ (W = {} => Cardinality(W) = 0)
    BY <2>2, FS_EmptySet, FS_Singleton
  <2>6. Cardinality(Q) + Cardinality(W) <= 1
    BY <2>3, <2>4, <2>5
  <2> QED
    BY <2>6 DEF Q, W
<1> QED
  BY <1>1, LeaseInductive, PTL

-----------------------------------------------------------------------------
(* A response goes to the client that asked                                *)

\* What belongs together at number f: while it is registered the object is that of
\* the open socket and its read buffer holds that client's bytes or none; nothing
\* is left to send while it can be read from, waits for a worker, is parsed, or has
\* been closed with its timer still running; and the worker that is about to
\* respond has read the request of the socket's client.
Reading(f)    == epoll[f] = "in" \/ events[f] = "in" \/ Queued(f)
Registered(f) == epoll[f] # "none" => /\ sock[f] # NoClient /\ conn[f].m_sockfd = f
                                      /\ conn[f].buf \in {NoClient, sock[f]}
Addressed(f)  == sock[f] # NoClient /\ conn[f].bytes_to_send > 0 => conn[f].resp = sock[f]
Drained(f)    == Reading(f) \/ (epoll[f] = "none" /\ timer[f] # "null")
                   => conn[f].bytes_to_send = 0
InHand(f)     == \A w \in Worker : wfd[w] = f =>
                   /\ wpc[w] \in {"process", "respond", "close", "arm_in"}
                        => epoll[f] # "none" /\ conn[f].bytes_to_send = 0
                   /\ wpc[w] \in {"forget", "count"} => epoll[f] = "none"
                   /\ wpc[w] = "respond" => wreq[w] = sock[f]
Sound(f)      == /\ Registered(f) /\ Addressed(f) /\ Drained(f) /\ InHand(f)
                 /\ Queued(f) => epoll[f] # "none"
AnswerInv     == \A f \in Fd : Sound(f)

\* What concerns another number leaves f alone.
LEMMA SoundFrame ==
  ASSUME NEW f \in Fd, Sound(f), epoll'[f] = epoll[f], sock'[f] = sock[f], conn'[f] = conn[f],
         timer'[f] # "null" => timer[f] # "null", events'[f] \in {"none", events[f]},
         Queued(f)' => Queued(f),
         \A w \in Worker : wfd'[w] = f => wfd[w] = f /\ wpc'[w] = wpc[w] /\ wreq'[w] = wreq[w]
  PROVE  Sound(f)'
<1>1. Registered(f)' /\ Addressed(f)'
  BY DEF Sound, Registered, Addressed
<1>2. Drained(f)'
  BY DEF Sound, Drained, Reading
<1>3. InHand(f)'
  BY DEF Sound, InHand
<1>4. Queued(f)' => epoll'[f] # "none"
  BY DEF Sound
<1> QED
  BY <1>1, <1>2, <1>3, <1>4 DEF Sound

\* Closing descriptors that nobody has in work.
LEMMA AnswerClose ==
  ASSUME TypeOK, AnswerInv, NEW S \in SUBSET Fd, \A f \in S : ~Queued(f) /\ ~Held(f), cb_func(S),
         \A f \in Fd : events'[f] \in {"none", events[f]}, \A f \in S : events'[f] = "none",
         \A f \in Fd \ S : conn'[f] = conn[f], UNCHANGED <<m_workqueue, workerVars>>
  PROVE  AnswerInv'
<1>1. /\ \A f \in S : sock'[f] = NoClient /\ epoll'[f] = "none" /\ timer'[f] = "null"
      /\ \A f \in Fd \ S : sock'[f] = sock[f] /\ epoll'[f] = epoll[f] /\ timer'[f] = timer[f]
  BY CbFuncType DEF cb_func
<1>2. \A f : Queued(f)' <=> Queued(f)
  BY DEF Queued
<1>3. \A f : Held(f)' <=> Held(f)
  BY DEF Held, workerVars
<1>4. ASSUME NEW f \in S PROVE Sound(f)'
  BY <1>1, <1>2, <1>3 DEF Sound, Registered, Addressed, Drained, Reading, InHand, Held
<1>5. ASSUME NEW f \in Fd \ S PROVE Sound(f)'
  BY <1>1, <1>2, SoundFrame DEF AnswerInv, workerVars
<1> QED
  BY <1>4, <1>5 DEF AnswerInv

\* epoll_wait reports a readable descriptor only if it was armed for reading.
LEMMA AnswerEpollWait ==
  ASSUME IInv, LeaseInv, AnswerInv, epoll_wait PROVE AnswerInv'
<1>1. /\ epoll \in [Fd -> {"none", "off", "in", "out"}] /\ Fd \subseteq Source
      /\ Listen \notin Fd /\ Pipe \notin Fd
  BY AssumptionsHold DEF Assumptions, IInv, TypeOK, Source
<1>2. /\ \A f \in Fd : events'[f] = EventOf(f)
      /\ \A f \in Fd : epoll'[f] = IF EventOf(f) # "none" THEN "off" ELSE epoll[f]
      /\ UNCHANGED <<sock, conn, timer, m_workqueue, workerVars>>
  BY <1>1 DEF epoll_wait, Ready
<1>3. \A f \in Fd : /\ EventOf(f) = "in" => epoll[f] = "in"
                    /\ EventOf(f) # "none" => epoll[f] # "none"
  BY DEF EventOf
<1>4. \A f : Queued(f)' <=> Queued(f)
  BY <1>2 DEF Queued
<1>5. ASSUME NEW f \in Fd PROVE Sound(f)'
  <2>1. Sound(f) /\ (epoll'[f] = "none" <=> epoll[f] = "none") /\ (epoll'[f] = "in" => epoll[f] = "in")
    BY <1>2, <1>3 DEF AnswerInv
  <2>2. Registered(f)' /\ Addressed(f)'
    BY <1>2, <2>1 DEF Sound, Registered, Addressed
  <2>3. Drained(f)'
    BY <1>2, <1>3, <1>4, <2>1 DEF Sound, Drained, Reading
  <2>4. InHand(f)'
    BY <1>2, <2>1 DEF Sound, InHand, workerVars
  <2> QED
    BY <1>4, <2>1, <2>2, <2>3, <2>4 DEF Sound
<1> QED
  BY <1>5 DEF AnswerInv

\* A new client's object is empty; a number whose old timer still runs has nothing
\* left to send.
LEMMA AnswerAccept ==
  ASSUME IInv, LeaseInv, AnswerInv, dealclinetdata PROVE AnswerInv'
<1>1. /\ UNCHANGED <<m_workqueue, workerVars>> /\ \A f : Queued(f)' <=> Queued(f)
      /\ \A f \in Fd : events'[f] = events[f]
  <2>1. Listen \notin Fd /\ events \in [Source -> Kinds] /\ Fd \subseteq Source
    BY AssumptionsHold DEF Assumptions, IInv, TypeOK, Source
  <2>2. UNCHANGED <<m_workqueue, workerVars>>
    BY DEF dealclinetdata
  <2>3. \A f : Queued(f)' <=> Queued(f)
    BY <2>2 DEF Queued
  <2> QED
    BY <2>1, <2>2, <2>3 DEF dealclinetdata, Taken
<1>2. /\ conn \in [Fd -> Conn] /\ epoll \in [Fd -> {"none", "off", "in", "out"}]
      /\ timer \in [Fd -> {"null", "fresh", "due"}] /\ sock \in [Fd -> Client \cup {NoClient}]
  BY DEF IInv, TypeOK
<1>3. CASE UNCHANGED <<sock, epoll, conn, timer>>
  BY <1>1, <1>3, SoundFrame DEF AnswerInv, workerVars
<1>4. ASSUME NEW c \in Client, NEW f \in Fd, LowestFree(f), timer[f] = "null", create_user(f, c)
      PROVE  AnswerInv'
  <2>1. events[f] = "none" /\ ~Queued(f) /\ ~Held(f)
    BY <1>4 DEF IInv, EventTimed, LeaseInv, BusyQuiet
  <2>2. /\ conn' = [conn EXCEPT ![f] = Created(f, c)] /\ Created(f, c).m_sockfd = f
        /\ Created(f, c).buf = NoClient /\ Created(f, c).bytes_to_send = 0
    BY <1>2, <1>4, CreatedRecord DEF create_user, Created
  <2>3. \A g \in Fd \ {f} : /\ conn'[g] = conn[g] /\ epoll'[g] = epoll[g]
                            /\ timer'[g] = timer[g] /\ sock'[g] = sock[g]
    BY <1>2, <1>4, <2>2 DEF create_user
  <2>4. \A g \in Fd \ {f} : Sound(g)'
    BY <1>1, <2>3, SoundFrame DEF AnswerInv, workerVars
  <2>5. sock'[f] = c /\ c # NoClient /\ epoll'[f] = "in" /\ conn'[f] = Created(f, c)
    BY <1>2, <1>4, <2>2, AssumptionsHold DEF Assumptions, create_user
  <2>6. Sound(f)'
    BY <1>1, <2>1, <2>2, <2>5
       DEF Sound, Registered, Addressed, Drained, Reading, InHand, Held, workerVars
  <2> QED
    BY <2>4, <2>6 DEF AnswerInv
<1>5. ASSUME NEW c \in Client, NEW f \in Fd, LowestFree(f), timer[f] # "null",
             sock' = [sock EXCEPT ![f] = c], UNCHANGED <<epoll, conn, timer, m_user_count>>
      PROVE  AnswerInv'
  <2>1. \A g \in Fd \ {f} : Sound(g)'
    BY <1>1, <1>2, <1>5, SoundFrame DEF AnswerInv, workerVars
  <2>2. sock[f] = NoClient /\ sock'[f] = c /\ c # NoClient /\ Sound(f)
    BY <1>2, <1>5, AssumptionsHold DEF Assumptions, LowestFree, AnswerInv
  <2>3. epoll[f] = "none" /\ conn[f].bytes_to_send = 0
    BY <1>5, <2>2 DEF Sound, Registered, Drained
  <2>4. \A w \in Worker : wfd[w] = f => wpc[w] # "respond"
    BY <2>2, <2>3 DEF Sound, InHand
  <2>5. Sound(f)'
    BY <1>1, <1>5, <2>2, <2>3, <2>4
       DEF Sound, Registered, Addressed, Drained, Reading, InHand, workerVars
  <2> QED
    BY <2>1, <2>5 DEF AnswerInv
<1> QED
  BY <1>3, <1>4, <1>5, AcceptCases

\* The hang-up branch and the timer callbacks.
LEMMA AnswerHangup ==
  ASSUME IInv, LeaseInv, AnswerInv, NEW f \in Fd, HandleHangup(f) PROVE AnswerInv'
<1>1. /\ events[f] # "none" /\ Taken(f) /\ UNCHANGED <<conn, m_workqueue, workerVars>>
      /\ TypeOK
  BY DEF HandleHangup, IInv
<1>2. /\ ~Queued(f) /\ ~Held(f) /\ timer[f] # "null"
      /\ events'[f] = "none" /\ \A g \in Fd \ {f} : events'[g] = events[g]
  BY <1>1, EventFree
<1>3. cb_func({f})
  BY <1>1, <1>2, DelTimerInv DEF HandleHangup
<1> QED
  BY <1>1, <1>2, <1>3, AnswerClose

LEMMA AnswerEndOfBatch ==
  ASSUME IInv, LeaseInv, AnswerInv, EndOfBatch PROVE AnswerInv'
<1>1. /\ TypeOK /\ UNCHANGED <<conn, events, m_workqueue, workerVars>>
      /\ \A f \in Fd : events[f] = "none"
  BY DEF IInv, EndOfBatch, NoEvent, Source
<1>2. CASE UNCHANGED <<sock, epoll, timer, m_user_count>>
  <2>1. \A f : Queued(f)' <=> Queued(f)
    BY <1>1 DEF Queued
  <2> QED
    BY <1>1, <1>2, <2>1, SoundFrame DEF AnswerInv, workerVars
<1>3. ASSUME NEW S \in SUBSET Fd, \A f \in S : timer[f] = "due", cb_func(S)
      PROVE  AnswerInv'
  <2>1. \A f \in S : ~Queued(f) /\ ~Held(f)
    BY <1>3 DEF LeaseInv, BusyQuiet
  <2> QED
    BY <1>1, <1>3, <2>1, AnswerClose
<1>4. \/ UNCHANGED <<sock, epoll, timer, m_user_count>>
      \/ \E S \in SUBSET Fd : cb_func(S) /\ \A f \in S : timer[f] = "due"
  BY DEF EndOfBatch
<1> QED
  BY <1>2, <1>3, <1>4

\* read_once puts the bytes of the socket's client into the buffer.
LEMMA AnswerRead ==
  ASSUME IInv, LeaseInv, AnswerInv, NEW f \in Fd, ProactorRead(f) PROVE AnswerInv'
<1>1. /\ events[f] = "in" /\ Taken(f) /\ UNCHANGED workerVars /\ TypeOK /\ Sound(f)
      /\ conn \in [Fd -> Conn] /\ timer \in [Fd -> {"null", "fresh", "due"}]
  BY DEF ProactorRead, IInv, TypeOK, AnswerInv
<1>2. /\ ~Queued(f) /\ ~Held(f) /\ epoll[f] = "off" /\ timer[f] # "null"
      /\ events'[f] = "none" /\ \A g \in Fd \ {f} : events'[g] = events[g]
  BY <1>1, EventFree
<1>3. CASE del_timer(f) /\ UNCHANGED <<conn, inbox, m_workqueue>>
  BY <1>1, <1>2, <1>3, DelTimerInv, AnswerClose
<1>4. CASE /\ CanRead(f) /\ Receive(f) /\ append(f) /\ adjust_timer(f)
           /\ UNCHANGED <<sock, epoll, m_user_count, mpc>>
  <2>1. /\ conn' = [conn EXCEPT ![f] = Filled(f)]
        /\ Filled(f).m_sockfd = conn[f].m_sockfd /\ Filled(f).resp = conn[f].resp
        /\ Filled(f).bytes_to_send = conn[f].bytes_to_send
        /\ Filled(f).buf \in {conn[f].buf, sock[f]}
    <3> DEFINE b == IF inbox[sock[f]] THEN sock[f] ELSE conn[f].buf
    <3>1. Filled(f) = [conn[f] EXCEPT !.buf = b] /\ b \in {conn[f].buf, sock[f]}
      BY DEF Filled
    <3> HIDE DEF b
    <3> QED
      BY <1>1, <1>4, <3>1 DEF Receive, Conn
  <2>2. \A g \in Fd : Queued(g)' => Queued(g) \/ g = f
    BY <1>1, <1>4, AppendQueued DEF Queued
  <2>3. \A g \in Fd \ {f} : conn'[g] = conn[g] /\ timer'[g] = timer[g]
    BY <1>1, <1>4, <2>1 DEF adjust_timer
  <2>4. \A g \in Fd \ {f} : Sound(g)'
    BY <1>1, <1>2, <1>4, <2>2, <2>3, SoundFrame DEF AnswerInv, workerVars
  <2>5. conn'[f] = Filled(f) /\ sock'[f] = sock[f] /\ epoll'[f] = "off"
    BY <1>1, <1>2, <1>4, <2>1
  <2>6. conn[f].bytes_to_send = 0 /\ conn[f].buf \in {NoClient, sock[f]}
        /\ conn[f].m_sockfd = f /\ sock[f] # NoClient
    BY <1>1, <1>2 DEF Sound, Drained, Reading, Registered
  <2>7. Registered(f)' /\ Addressed(f)'
    BY <2>1, <2>5, <2>6 DEF Registered, Addressed
  <2>8. Drained(f)' /\ InHand(f)'
    BY <1>1, <1>2, <2>1, <2>5, <2>6 DEF Drained, InHand, Held, workerVars
  <2>9. Sound(f)'
    BY <2>5, <2>7, <2>8 DEF Sound
  <2> QED
    BY <2>4, <2>9 DEF AnswerInv
<1> QED
  BY <1>3, <1>4, Zenon DEF ProactorRead

\* write() sends on, re-arms for reading only when nothing is left, or closes.
LEMMA AnswerWrite ==
  ASSUME IInv, LeaseInv, AnswerInv, NEW f \in Fd, ProactorWrite(f) PROVE AnswerInv'
<1>1. /\ events[f] = "out" /\ Taken(f) /\ UNCHANGED <<m_workqueue, workerVars>> /\ TypeOK
      /\ Sound(f) /\ conn \in [Fd -> Conn] /\ timer \in [Fd -> {"null", "fresh", "due"}]
      /\ epoll \in [Fd -> {"none", "off", "in", "out"}]
  BY DEF ProactorWrite, IInv, TypeOK, AnswerInv
<1>2. /\ ~Queued(f) /\ ~Held(f) /\ timer[f] # "null" /\ epoll[f] = "off"
      /\ events'[f] = "none" /\ \A g \in Fd \ {f} : events'[g] = events[g]
  BY <1>1, EventFree
<1>3. PICK res \in WriteResults(f) :
        /\ conn' = [conn EXCEPT ![f] = res.rec]
        /\ \/ epoll' = Rearmed(f, res.arm) /\ adjust_timer(f) /\ UNCHANGED sock
           \/ del_timer(f)
  BY DEF ProactorWrite
<1>4. /\ conn'[f] = res.rec /\ \A g \in Fd \ {f} : conn'[g] = conn[g]
      /\ res.rec.m_sockfd = conn[f].m_sockfd /\ res.rec.buf \in {NoClient, conn[f].buf}
      /\ res.arm \in {"in", "out", "keep"}
      /\ res.arm = "in" => res.rec.bytes_to_send = 0
      /\ res.rec.bytes_to_send # 0 => /\ conn[f].bytes_to_send # 0
                                      /\ res.rec.resp = conn[f].resp
  BY <1>1, <1>3, WriteFrame, WriteType
<1>5. CASE del_timer(f)
  BY <1>1, <1>2, <1>4, <1>5, DelTimerInv, AnswerClose
<1>6. CASE epoll' = Rearmed(f, res.arm) /\ adjust_timer(f) /\ UNCHANGED sock
  <2>1. /\ conn[f].m_sockfd = f /\ sock[f] # NoClient
        /\ conn[f].buf \in {NoClient, sock[f]}
        /\ conn[f].bytes_to_send > 0 => conn[f].resp = sock[f]
    BY <1>1, <1>2 DEF Sound, Registered, Addressed
  <2>2. /\ epoll'[f] = IF res.arm = "keep" THEN "off" ELSE res.arm
        /\ \A g \in Fd \ {f} : epoll'[g] = epoll[g]
    BY <1>1, <1>2, <1>4, <1>6, <2>1 DEF Rearmed, modfd
  <2>3. \A g \in Fd \ {f} : timer'[g] = timer[g]
    BY <1>1, <1>6 DEF adjust_timer
  <2>4. \A g : Queued(g)' <=> Queued(g)
    BY <1>1 DEF Queued
  <2>5. \A g \in Fd \ {f} : Sound(g)'
    BY <1>1, <1>2, <1>4, <1>6, <2>2, <2>3, <2>4, SoundFrame DEF AnswerInv, workerVars
  <2>6. Registered(f)'
    BY <1>4, <1>6, <2>1 DEF Registered
  <2>7. Addressed(f)'
    <3>1. conn[f].bytes_to_send \in Nat /\ res.rec.bytes_to_send \in Nat
      BY <1>1, <1>3, WriteType, AssumptionsHold DEF Conn, Assumptions
    <3> QED
      BY <1>4, <1>6, <2>1, <3>1 DEF Addressed
  <2>8. Drained(f)'
    BY <1>2, <1>4, <2>2, <2>4 DEF Drained, Reading
  <2>9. InHand(f)' /\ (Queued(f)' => epoll'[f] # "none")
    BY <1>1, <1>2, <2>4 DEF InHand, Held, workerVars
  <2>10. Sound(f)'
    BY <2>6, <2>7, <2>8, <2>9 DEF Sound
  <2> QED
    BY <2>5, <2>10 DEF AnswerInv
<1> QED
  BY <1>3, <1>5, <1>6

\* A step of worker w leaves every number but the one in its hands alone.
LEMMA AnswerOthers ==
  ASSUME IInv, AnswerInv, NEW w \in Worker, NEW f \in Fd, wfd[w] = f,
         UNCHANGED <<timer, events, m_workqueue>>,
         \A v \in Worker \ {w} : wfd'[v] = wfd[v] /\ wpc'[v] = wpc[v] /\ wreq'[v] = wreq[v],
         wfd'[w] \in {f, NoFd},
         \A g \in Fd \ {f} : epoll'[g] = epoll[g] /\ sock'[g] = sock[g] /\ conn'[g] = conn[g],
         Sound(f)'
  PROVE  AnswerInv'
<1>1. ASSUME NEW g \in Fd \ {f} PROVE Sound(g)'
  <2>1. Queued(g)' => Queued(g)
    BY DEF Queued
  <2>2. \A v \in Worker : wfd'[v] = g => wfd[v] = g /\ wpc'[v] = wpc[v] /\ wreq'[v] = wreq[v]
    BY AssumptionsHold DEF Assumptions
  <2> QED
    BY <2>1, <2>2, SoundFrame DEF AnswerInv
<1> QED
  BY <1>1 DEF AnswerInv

\* A worker takes over a descriptor that was queued, with nothing left to send.
LEMMA AnswerTake ==
  ASSUME ActorModel # 1, IInv, LeaseInv, AnswerInv, NEW w \in Worker, TakeRequest(w)
  PROVE  AnswerInv'
<1>0. PICK f : f = Head(m_workqueue)
  OBVIOUS
<1>1. /\ m_workqueue \in Seq(Fd) /\ m_workqueue # <<>> /\ wfd \in [Worker -> Fd \cup {NoFd}]
      /\ wpc \in [Worker -> WorkerPc]
      /\ m_workqueue' = Tail(m_workqueue) /\ wfd' = [wfd EXCEPT ![w] = f]
      /\ wpc' = [wpc EXCEPT ![w] = "process"]
      /\ UNCHANGED <<sock, epoll, events, conn, timer, wreq>>
  BY <1>0 DEF IInv, TypeOK, TakeRequest, kernelVars, mainVars
<1>2. /\ Len(m_workqueue') = Len(m_workqueue) - 1 /\ Len(m_workqueue) \in Nat \ {0}
      /\ \A i \in 1..Len(m_workqueue') : m_workqueue'[i] = m_workqueue[i + 1]
      /\ f = m_workqueue[1] /\ f \in Fd
  BY <1>0, <1>1
<1>3. Queued(f) /\ \A g : Queued(g)' => Queued(g)
  BY <1>2 DEF Queued
<1>4. ASSUME NEW g \in Fd \ {f} PROVE Sound(g)'
  <2>1. \A v \in Worker : wfd'[v] = g => wfd[v] = g /\ wpc'[v] = wpc[v] /\ wreq'[v] = wreq[v]
    BY <1>1
  <2> QED
    BY <1>1, <1>3, <2>1, SoundFrame DEF AnswerInv
<1>5. Sound(f)'
  <2>1. ~Held(f) /\ Sound(f)
    BY <1>2, <1>3 DEF LeaseInv, NotBoth, AnswerInv
  <2>2. epoll[f] # "none" /\ conn[f].bytes_to_send = 0
    BY <1>3, <2>1 DEF Sound, Drained, Reading
  <2>3. \A v \in Worker : wfd'[v] = f => wpc'[v] = "process"
    BY <1>1, <2>1 DEF Held
  <2>4. InHand(f)'
    BY <1>1, <2>2, <2>3 DEF InHand
  <2>5. Registered(f)' /\ Addressed(f)' /\ Drained(f)'
    BY <1>1, <2>1, <2>2 DEF Sound, Registered, Addressed, Drained, Reading
  <2> QED
    BY <1>1, <2>2, <2>4, <2>5 DEF Sound
<1> QED
  BY <1>4, <1>5 DEF AnswerInv

\* The steps of process(), close_conn and the re-arming modfd on the descriptor in hand.
LEMMA AnswerWorker ==
  ASSUME ActorModel # 1, IInv, SpinInv, LeaseInv, AnswerInv, NEW w \in Worker, WorkerStep(w)
  PROVE  AnswerInv'
<1>0. PICK f : f = wfd[w]
  OBVIOUS
<1>1. /\ TypeOK /\ conn \in [Fd -> Conn] /\ epoll \in [Fd -> {"none", "off", "in", "out"}]
      /\ wfd \in [Worker -> Fd \cup {NoFd}] /\ (wpc[w] # "idle" => f \in Fd)
      /\ wpc \in [Worker -> WorkerPc] /\ wreq \in [Worker -> Client \cup {NoClient}]
      /\ sock \in [Fd -> Client \cup {NoClient}]
      /\ wpc[w] \notin {"read", "write", "flag"}
  BY <1>0 DEF IInv, TypeOK, WorkerHolds, SpinInv, Proactor
<1>2. CASE TakeRequest(w)
  BY <1>2, AnswerTake
<1>3. ~WorkerRead(w) /\ ~WorkerWrite(w) /\ ~RaiseTimerFlag(w)
  BY <1>1 DEF WorkerRead, WorkerWrite, RaiseTimerFlag
<1>4. ASSUME f \in Fd
      PROVE  /\ Sound(f) /\ ~Queued(f) /\ events[f] = "none" /\ timer[f] = "fresh" /\ ~Armed(f)
             /\ conn[f].m_sockfd \in {f, NoFd} /\ f # NoFd
             /\ \A v \in Worker : wfd[v] = f => v = w
  <2>1. Held(f)
    BY <1>0 DEF Held
  <2> QED
    BY <1>0, <1>4, <2>1, AssumptionsHold
       DEF Assumptions, AnswerInv, LeaseInv, NotBoth, BusyQuiet, OwnNumber, HeldOnce
<1>5. CASE process_read(w)
  <2>1. /\ f \in Fd /\ wpc[w] = "process"
        /\ UNCHANGED <<sock, epoll, events, timer, conn, m_workqueue, wfd>>
        /\ \A v \in Worker \ {w} : wpc'[v] = wpc[v] /\ wreq'[v] = wreq[v]
        /\ wpc'[w] \in {"arm_in", "respond", "close"}
        /\ wpc'[w] = "respond" => wreq'[w] = conn[f].buf /\ conn[f].buf # NoClient
    <3>1. f \in Fd /\ wpc[w] = "process"
          /\ UNCHANGED <<sock, epoll, events, timer, conn, m_workqueue, wfd>>
      BY <1>1, <1>5 DEF process_read, kernelVars, mainVars, Goto
    <3>2. \/ wpc' = [wpc EXCEPT ![w] = "arm_in"] /\ UNCHANGED wreq
          \/ wpc' = [wpc EXCEPT ![w] = "close"] /\ UNCHANGED wreq
          \/ /\ wpc' = [wpc EXCEPT ![w] = "respond"]
             /\ wreq' = [wreq EXCEPT ![w] = conn[f].buf] /\ conn[f].buf # NoClient
      BY <1>0, <1>5 DEF process_read, Goto, Answered, Refused
    <3> QED
      BY <1>1, <3>1, <3>2
  <2>2. /\ Sound(f) /\ epoll[f] # "none" /\ conn[f].bytes_to_send = 0
        /\ conn[f].buf \in {NoClient, sock[f]}
    BY <1>0, <1>4, <2>1 DEF Sound, InHand, Registered
  <2>3. InHand(f)'
    BY <1>4, <2>1, <2>2 DEF InHand
  <2>4. Sound(f)'
    BY <2>1, <2>2, <2>3 DEF Sound, Registered, Addressed, Drained, Reading, Queued
  <2> QED
    BY <1>0, <2>1, <2>4, AnswerOthers
<1>6. CASE process_write(w)
  <2>1. /\ f \in Fd /\ wpc[w] = "respond"
        /\ UNCHANGED <<sock, epoll, events, timer, m_workqueue, wfd>>
        /\ \A v \in Worker \ {w} : wpc'[v] = wpc[v] /\ wreq'[v] = wreq[v]
        /\ wpc'[w] = "arm_out"
    BY <1>1, <1>6 DEF process_write, kernelVars, mainVars, Goto
  <2>2. /\ Sound(f) /\ epoll[f] # "none" /\ wreq[w] = sock[f]
    BY <1>0, <1>4, <2>1 DEF Sound, InHand
  <2>3. /\ conn'[f].resp = sock[f] /\ conn'[f].m_sockfd = conn[f].m_sockfd
        /\ conn'[f].buf = conn[f].buf /\ \A g \in Fd \ {f} : conn'[g] = conn[g]
    BY <1>0, <1>6, <2>1, <2>2, RespondConn
  <2>4. Registered(f)' /\ Addressed(f)'
    BY <2>1, <2>2, <2>3 DEF Sound, Registered, Addressed
  <2>5. Drained(f)' /\ ~Queued(f)'
    BY <1>4, <2>1, <2>2 DEF Drained, Reading, Queued, Armed
  <2>6. InHand(f)'
    BY <1>4, <2>1 DEF InHand
  <2>7. Sound(f)'
    BY <2>4, <2>5, <2>6 DEF Sound
  <2> QED
    BY <1>0, <2>1, <2>3, <2>7, AnswerOthers
<1>7. CASE CloseDescriptor(w)
  <2>1. /\ f \in Fd /\ wpc[w] = "close"
        /\ UNCHANGED <<events, timer, conn, m_workqueue, wfd, wreq>>
        /\ \A v \in Worker \ {w} : wpc'[v] = wpc[v]
    BY <1>1, <1>7 DEF CloseDescriptor, mainVars, Goto
  <2>2. Sound(f) /\ conn[f].m_sockfd = f /\ conn[f].bytes_to_send = 0
    BY <1>0, <1>4, <2>1 DEF Sound, InHand, Registered
  <2>3. /\ epoll' = [epoll EXCEPT ![f] = "none"] /\ sock' = [sock EXCEPT ![f] = NoClient]
        /\ wpc'[w] = "forget"
    BY <1>0, <1>1, <1>7, <2>1, <2>2 DEF CloseDescriptor, Goto
  <2>4. InHand(f)'
    BY <1>1, <1>4, <2>1, <2>3 DEF InHand
  <2>5. Sound(f)'
    BY <1>1, <1>4, <2>1, <2>2, <2>3, <2>4
       DEF Sound, Registered, Addressed, Drained, Reading, Queued
  <2> QED
    BY <1>0, <1>1, <2>1, <2>3, <2>5, AnswerOthers
<1>8. CASE ForgetDescriptor(w) \/ CountDown(w)
  <2>1. /\ f \in Fd /\ wpc[w] \in {"forget", "count"}
        /\ UNCHANGED <<sock, epoll, events, timer, m_workqueue, wfd, wreq>>
        /\ \A v \in Worker \ {w} : wpc'[v] = wpc[v]
        /\ wpc'[w] \in {"count", "arm_out"}
    BY <1>1, <1>8 DEF ForgetDescriptor, CountDown, kernelVars, mainVars, Goto
  <2>2. /\ \A g \in Fd \ {f} : conn'[g] = conn[g]
        /\ conn'[f].resp = conn[f].resp /\ conn'[f].bytes_to_send = conn[f].bytes_to_send
    BY <1>0, <1>8, <2>1, ForgetConn DEF CountDown
  <2>3. Sound(f) /\ epoll[f] = "none"
    BY <1>0, <1>4, <2>1 DEF Sound, InHand
  <2>4. InHand(f)'
    BY <1>4, <2>1, <2>3 DEF InHand
  <2>5. Sound(f)'
    BY <1>4, <2>1, <2>2, <2>3, <2>4 DEF Sound, Registered, Addressed, Drained, Reading, Queued
  <2> QED
    BY <1>0, <2>1, <2>2, <2>5, AnswerOthers
<1>9. CASE Rearm(w)
  <2>1. /\ f \in Fd /\ wpc[w] \in {"arm_in", "arm_out"}
        /\ UNCHANGED <<sock, events, timer, m_workqueue, conn, wreq>>
        /\ \A v \in Worker \ {w} : wpc'[v] = wpc[v] /\ wfd'[v] = wfd[v]
        /\ wfd'[w] = NoFd
        /\ \A g \in Fd \ {f} : epoll'[g] = epoll[g]
    BY <1>0, <1>1, <1>9, RearmOwn DEF Rearm, Goto, mainVars, LeaseInv
  <2>2. /\ epoll[f] = "none" => epoll'[f] = "none"
        /\ wpc[w] = "arm_out" => epoll'[f] \in {epoll[f], "out"}
    BY <1>0, <1>1, <1>4, <1>9, <2>1 DEF Rearm, modfd
  <2>3. Registered(f)' /\ Addressed(f)'
    BY <1>4, <2>1, <2>2 DEF Sound, Registered, Addressed
  <2>4. Drained(f)' /\ ~Queued(f)'
    <3>1. ~Queued(f)'
      BY <1>4, <2>1 DEF Queued
    <3>2. CASE wpc[w] = "arm_in"
      BY <1>0, <1>4, <2>1, <3>1, <3>2 DEF Sound, InHand, Drained
    <3>3. CASE wpc[w] = "arm_out"
      BY <1>1, <1>4, <2>1, <2>2, <3>1, <3>3 DEF Sound, Drained, Reading, Armed
    <3> QED
      BY <2>1, <3>1, <3>2, <3>3
  <2>5. InHand(f)'
    BY <1>4, <2>1 DEF InHand
  <2>6. Sound(f)'
    BY <2>3, <2>4, <2>5 DEF Sound
  <2> QED
    BY <1>0, <2>1, <2>6, AnswerOthers
<1> QED
  BY <1>2, <1>3, <1>5, <1>6, <1>7, <1>8, <1>9 DEF WorkerStep

\* Every step of the Proactor keeps the requester and the response together.
LEMMA AnswerNext ==
  ASSUME ActorModel # 1, Timely, IInv, SpinInv, LeaseInv, AnswerInv, [Next]_vars
  PROVE  AnswerInv'
<1>1. ASSUME UNCHANGED <<sock, epoll, conn, m_workqueue, workerVars>>,
             \A f \in Fd : timer'[f] # "null" => timer[f] # "null",
             \A f \in Fd : events'[f] = events[f]
      PROVE  AnswerInv'
  <2>1. \A f : Queued(f)' <=> Queued(f)
    BY <1>1 DEF Queued
  <2> QED
    BY <1>1, <2>1, SoundFrame DEF AnswerInv, workerVars
<1>2. CASE dealwithsignal
  <2>1. \A f \in Fd : events'[f] = events[f]
    BY <1>2, AssumptionsHold DEF Assumptions, IInv, TypeOK, dealwithsignal, Taken, Source
  <2> QED
    BY <1>1, <1>2, <2>1 DEF dealwithsignal, kernelVars
<1>3. CASE \/ \E c \in Client : Connect(c) \/ Send(c) \/ Hangup(c)
           \/ \E s \in Signals : sig_handler(s)
           \/ Rest \/ UNCHANGED vars
  <2>1. UNCHANGED <<sock, epoll, conn, timer, events, m_workqueue, workerVars>>
    BY <1>3 DEF Connect, Send, Hangup, sig_handler, Rest, vars, kernelVars, mainVars
  <2> QED
    BY <1>1, <2>1
<1>4. CASE \E f \in Fd : TimePasses(f)
  <2>1. /\ UNCHANGED <<sock, epoll, conn, events, m_workqueue, workerVars>>
        /\ \A f \in Fd : timer'[f] # "null" => timer[f] # "null"
    BY <1>4 DEF TimePasses, kernelVars, mainVars, IInv, TypeOK
  <2> QED
    BY <1>1, <2>1
<1>5. CASE Main
  <2>1. ~SpinExit /\ \A f \in Fd : ~ReactorDispatch(f)
    BY DEF SpinInv, Proactor, SpinExit, ReactorDispatch
  <2> QED
    BY <1>2, <1>5, <2>1, AnswerEpollWait, AnswerAccept, AnswerEndOfBatch, AnswerHangup,
       AnswerRead, AnswerWrite DEF Main
<1>6. CASE \E w \in Worker : WorkerStep(w)
  BY <1>6, AnswerWorker
<1> QED
  BY <1>3, <1>4, <1>5, <1>6 DEF Next

\* At the start nothing is open and nothing is in hand.
LEMMA AnswerInit == Init => AnswerInv
<1> SUFFICES ASSUME Init, NEW f \in Fd PROVE Sound(f)
  BY DEF AnswerInv
<1>1. NoFd \notin Fd
  BY AssumptionsHold DEF Assumptions
<1>2. ~Queued(f)
  BY DEF Init, Queued
<1>3. InHand(f)
  BY <1>1 DEF Init, InHand
<1>4. Registered(f) /\ Addressed(f) /\ Drained(f)
  BY <1>2 DEF Init, Registered, Addressed, Drained, Reading
<1> QED
  BY <1>2, <1>3, <1>4 DEF Sound

THEOREM AnswerInductive ==
  ASSUME ActorModel # 1, Timely PROVE Spec => []AnswerInv
<1>1. IInv /\ SpinInv /\ LeaseInv /\ AnswerInv /\ [Next]_vars => AnswerInv'
  BY AnswerNext
<1> QED
  BY <1>1, Inductive, HandshakeInductive, LeaseInductive, AnswerInit, PTL DEF Spec

\* In the Proactor a response in progress goes to the client whose request it
\* answers, whichever requests are refused and closed by a worker in between and
\* however the numbers are handed out again (http_conn.cpp:342-386, 688-702), as
\* long as no timeout elapses on a connection in work.
THEOREM ResponseReachesRequester ==
  ASSUME ActorModel # 1, Timely PROVE Spec => []ResponseToRequester
<1>1. AnswerInv => ResponseToRequester
  BY DEF AnswerInv, Sound, Addressed, ResponseToRequester
<1> QED
  BY <1>1, AnswerInductive, PTL
=============================================================================
