------------------------------ MODULE EventLoop ------------------------------
(***************************************************************************)
(* The server's core: the epoll loop of the main thread (webserver.cpp),   *)
(* the worker threads (threadpool.h, run), the connection objects          *)
(* users[fd] (http_conn) and the timer slots users_data[fd].timer that     *)
(* tie them together, over a kernel that reuses descriptor numbers.        *)
(*                                                                         *)
(* Abstractions.  A client is one TCP connection: it connects at most      *)
(* once.  Request bytes are the client they came from; parsing is the      *)
(* nondeterministic HTTP_CODE it ends in; a response is the client it      *)
(* answers and a number of pieces left to send.  The queue lock and        *)
(* semaphore are modelled in RequestQueue, so append and the removal of a  *)
(* request are one step here.  A timer is "fresh" until its timeout has    *)
(* elapsed and "due" afterwards; the heap and alarm() are modelled in      *)
(* HeapTimers.  A cancelled timer that stays in the heap with its callback *)
(* cleared has no effect on connections and is not represented.            *)
(*                                                                         *)
(* An operator whose name ends in _mut is a variant of the one after it    *)
(* with a plausible mistake; nothing uses it, it shows that a property     *)
(* notices the mistake.                                                    *)
(***************************************************************************)
EXTENDS Integers, Sequences, FiniteSets

CONSTANTS
  Fd,             \* descriptor numbers the kernel can hand to connections
  Client,         \* connections clients may open, each at most once
  Worker,         \* threads of the pool (m_thread_number)
  NoFd,           \* the value -1 of m_sockfd
  NoClient,       \* no socket, no request, no response
  Listen, Pipe,   \* the other two event sources: m_listenfd and m_pipefd[0]
  ActorModel,     \* m_actor_model: 1 is Reactor, anything else Proactor
  ListenET,       \* m_LISTENTrigmode = 1
  MAX_FD,         \* connection limit of dealclinetdata
  MaxRequests,    \* m_max_requests of the thread pool
  HttpCodes,      \* results process_read can end in, in this instance
  Signals,        \* signals the process may receive, in this instance
  MaxSend,        \* bound: requests a client sends
  RespPieces,     \* bound: writev calls a response may need
  Timely          \* assumption: no timeout elapses while a request is in work

\* results for which process_write makes a response; for the others, and for an
\* empty file (written NO_RESOURCE here), it fails and process() closes
Answered == {"FILE_REQUEST", "BAD_REQUEST", "FORBIDDEN_REQUEST", "INTERNAL_ERROR"}
Refused  == {"NO_RESOURCE"}

ASSUME FdAssumption     == Fd \subseteq Nat /\ IsFiniteSet(Fd) /\ NoFd \notin Fd
                           /\ Listen \notin Fd /\ Pipe \notin Fd /\ Listen # Pipe
ASSUME ClientAssumption == NoClient \notin Client
ASSUME CodeAssumption   == HttpCodes \subseteq {"NO_REQUEST"} \cup Answered \cup Refused
ASSUME BoundAssumption  == /\ MAX_FD \in Nat \ {0} /\ MaxRequests \in Nat \ {0}
                           /\ MaxSend \in Nat /\ RespPieces \in Nat \ {0}
                           /\ ListenET \in BOOLEAN /\ Timely \in BOOLEAN
ASSUME SignalAssumption == Signals \subseteq {"SIGALRM", "SIGTERM"}

VARIABLES
  sock,           \* kernel: the client whose socket is open at a number
  epoll,          \* kernel: registration, "off" once ONESHOT has fired
  backlog, edge,  \* kernel: clients waiting in accept, unreported ET edge
  dialed, inbox, sent, gone,  \* clients: connected, unread data, count, closed
  sigs,           \* bytes in the signal pipe
  mpc, cur,       \* main thread: position and the descriptor it spins on
  events,         \* main thread: batch returned by epoll_wait
  timeout, stop_server,
  conn,           \* users[fd]
  timer,          \* users_data[fd].timer
  m_user_count,
  m_workqueue,
  wpc, wfd,       \* worker: position, request in hand,
  wtmp, wreq      \* loaded m_user_count, whose request it answers

kernelVars == <<sock, epoll, backlog, edge>>
clientVars == <<dialed, inbox, sent, gone, sigs>>
mainVars   == <<mpc, cur, events, timeout, stop_server>>
workerVars == <<wpc, wfd, wtmp, wreq>>
vars == <<kernelVars, clientVars, mainVars, conn, timer, m_user_count, m_workqueue,
          workerVars>>

Source == Fd \cup {Listen, Pipe}
Kinds  == {"none", "in", "out", "hup"}

WorkerPc == {"idle", "read", "write", "flag", "process", "respond", "close", "forget",
             "count", "arm_in", "arm_out"}

Conn == [m_sockfd : Fd \cup {NoFd}, m_address : Client \cup {NoClient},
         improv : 0..1, timer_flag : 0..1, m_state : 0..1,
         buf : Client \cup {NoClient}, resp : Client \cup {NoClient},
         bytes_to_send : 0..RespPieces]

fresh_mut(r) == [r EXCEPT !.m_state = 0, !.timer_flag = 0, !.improv = 0, !.buf = NoClient]

\* http_conn::init(): reset the per-request fields
fresh(r) == [r EXCEPT !.bytes_to_send = 0, !.m_state = 0, !.timer_flag = 0,
                      !.improv = 0, !.buf = NoClient, !.resp = NoClient]

Connected(c) == c \in backlog \/ \E f \in Fd : sock[f] = c
Busy(f) == \/ \E i \in 1..Len(m_workqueue) : m_workqueue[i] = f
           \/ \E w \in Worker : wfd[w] = f

Init ==
  /\ sock = [f \in Fd |-> NoClient] /\ epoll = [f \in Fd |-> "none"]
  /\ backlog = {} /\ edge = FALSE /\ dialed = {} /\ sigs = {}
  /\ inbox = [c \in Client |-> FALSE] /\ gone = [c \in Client |-> FALSE]
  /\ sent = [c \in Client |-> 0]
  /\ mpc = "wait" /\ cur = NoFd /\ events = [e \in Source |-> "none"]
  /\ timeout = FALSE /\ stop_server = FALSE
  /\ conn = [f \in Fd |-> [m_sockfd |-> NoFd, m_address |-> NoClient, improv |-> 0,
                           timer_flag |-> 0, m_state |-> 0, buf |-> NoClient,
                           resp |-> NoClient, bytes_to_send |-> 0]]
  /\ timer = [f \in Fd |-> "null"]
  /\ m_user_count = 0 /\ m_workqueue = <<>>
  /\ wpc = [w \in Worker |-> "idle"] /\ wfd = [w \in Worker |-> NoFd]
  /\ wtmp = [w \in Worker |-> 0] /\ wreq = [w \in Worker |-> NoClient]

-----------------------------------------------------------------------------
(* Clients, time and signals                                               *)

Connect(c) ==
  /\ c \notin dialed
  /\ dialed' = dialed \cup {c} /\ backlog' = backlog \cup {c} /\ edge' = TRUE
  /\ UNCHANGED <<sock, epoll, inbox, sent, gone, sigs, mainVars, conn, timer,
                 m_user_count, m_workqueue, workerVars>>

Send(c) ==
  /\ Connected(c) /\ ~gone[c] /\ ~inbox[c] /\ sent[c] < MaxSend
  /\ inbox' = [inbox EXCEPT ![c] = TRUE] /\ sent' = [sent EXCEPT ![c] = @ + 1]
  /\ UNCHANGED <<kernelVars, dialed, gone, sigs, mainVars, conn, timer,
                 m_user_count, m_workqueue, workerVars>>

Hangup(c) ==
  /\ Connected(c) /\ ~gone[c]
  /\ gone' = [gone EXCEPT ![c] = TRUE]
  /\ UNCHANGED <<kernelVars, dialed, inbox, sent, sigs, mainVars, conn, timer,
                 m_user_count, m_workqueue, workerVars>>

\* 3 * TIMESLOT seconds have gone by since the timer was added or adjusted
TimePasses(f) ==
  /\ timer[f] = "fresh" /\ (Timely => ~Busy(f))
  /\ timer' = [timer EXCEPT ![f] = "due"]
  /\ UNCHANGED <<kernelVars, clientVars, mainVars, conn, m_user_count,
                 m_workqueue, workerVars>>

\* sig_handler: the signal number is written to the pipe
sig_handler(s) ==
  /\ s \in Signals \ sigs
  /\ sigs' = sigs \cup {s}
  /\ UNCHANGED <<kernelVars, dialed, inbox, sent, gone, mainVars, conn, timer,
                 m_user_count, m_workqueue, workerVars>>

-----------------------------------------------------------------------------
(* Building blocks of the handlers                                         *)

\* the table after epoll_ctl(EPOLL_CTL_MOD, fd); it fails on a descriptor
\* that is -1 or not registered
modfd(fd, ev) ==
  IF fd \in Fd /\ epoll[fd] # "none" THEN [epoll EXCEPT ![fd] = ev] ELSE epoll

\* what epoll_wait reports on a descriptor
EventOf(f) ==
  IF epoll[f] \notin {"in", "out"}           THEN "none"
  ELSE IF gone[sock[f]]                      THEN "hup"
  ELSE IF epoll[f] = "in" /\ ~inbox[sock[f]] THEN "none"
  ELSE epoll[f]

Ready_mut == [e \in Source |->
  CASE e = Listen -> IF edge THEN "in" ELSE "none"
    [] e = Pipe   -> IF sigs # {} THEN "in" ELSE "none"
    [] OTHER      -> EventOf(e)]

\* what epoll_wait reports: the listening socket level- or edge-triggered
Ready == [e \in Source |->
  CASE e = Listen -> IF (IF ListenET THEN edge ELSE backlog # {}) THEN "in" ELSE "none"
    [] e = Pipe   -> IF sigs # {} THEN "in" ELSE "none"
    [] OTHER      -> EventOf(e)]

NoEvent == \A e \in Source : events[e] = "none"
Taken(e) == events' = [events EXCEPT ![e] = "none"]

cb_func_mut(S) ==         \* forgets user_data->timer = NULL
  /\ epoll' = [f \in Fd |-> IF f \in S THEN "none" ELSE epoll[f]]
  /\ sock'  = [f \in Fd |-> IF f \in S THEN NoClient ELSE sock[f]]
  /\ m_user_count' = m_user_count - Cardinality(S) /\ UNCHANGED timer

cb_func_count_mut(S) ==   \* forgets m_user_count--
  /\ epoll' = [f \in Fd |-> IF f \in S THEN "none" ELSE epoll[f]]
  /\ sock'  = [f \in Fd |-> IF f \in S THEN NoClient ELSE sock[f]]
  /\ timer' = [f \in Fd |-> IF f \in S THEN "null" ELSE timer[f]]
  /\ UNCHANGED m_user_count

cb_func_close_mut(S) ==   \* forgets close(sockfd)
  /\ epoll' = [f \in Fd |-> IF f \in S THEN "none" ELSE epoll[f]]
  /\ timer' = [f \in Fd |-> IF f \in S THEN "null" ELSE timer[f]]
  /\ m_user_count' = m_user_count - Cardinality(S) /\ UNCHANGED sock

\* the timer callback cb_func on every descriptor of S: unregister, close,
\* forget the timer, count down
cb_func(S) ==
  /\ epoll' = [f \in Fd |-> IF f \in S THEN "none" ELSE epoll[f]]
  /\ sock'  = [f \in Fd |-> IF f \in S THEN NoClient ELSE sock[f]]
  /\ timer' = [f \in Fd |-> IF f \in S THEN "null" ELSE timer[f]]
  /\ m_user_count' = m_user_count - Cardinality(S)

\* WebServer::del_timer dereferences the timer it is given
del_timer(f) ==
  \/ timer[f] # "null" /\ cb_func({f}) /\ mpc' = "dispatch"
  \/ /\ timer[f] = "null" /\ mpc' = "crash"
     /\ UNCHANGED <<epoll, sock, timer, m_user_count>>

\* Utils::adjust_timer, skipped when there is no timer
adjust_timer(f) ==
  timer' = IF timer[f] = "null" THEN timer ELSE [timer EXCEPT ![f] = "fresh"]

\* threadpool::append and append_p drop the request when the queue is full
QueueFull_early_mut == Len(m_workqueue) + 1 >= MaxRequests
QueueFull == Len(m_workqueue) >= MaxRequests
append(f) == m_workqueue' = IF QueueFull THEN m_workqueue ELSE Append(m_workqueue, f)

\* read_once can succeed: the object still has its descriptor and the socket is
\* open.  It may fail all the same: a reset, or a full read buffer.
CanRead(f) == conn[f].m_sockfd = f /\ sock[f] # NoClient

\* a successful read_once takes what waits at the socket into the read buffer
Filled(f) == [conn[f] EXCEPT !.buf = IF inbox[sock[f]] THEN sock[f] ELSE @]
Receive(f) ==
  /\ inbox' = [inbox EXCEPT ![sock[f]] = FALSE]
  /\ conn' = [conn EXCEPT ![f] = Filled(f)]

\* http_conn::write: the value returned, the object afterwards and what the
\* descriptor is re-armed for.  EPOLLOUT means there is room, so an EAGAIN comes
\* after at least one piece.
WriteResults(f) ==
  LET r == conn[f] IN
  IF r.bytes_to_send = 0
  THEN {[ok |-> TRUE, rec |-> fresh(r), arm |-> "in"]}
  ELSE {[ok |-> FALSE, rec |-> r, arm |-> "keep"]}
       \cup {[ok |-> TRUE, rec |-> [r EXCEPT !.bytes_to_send = n], arm |-> "out"] :
               n \in IF sock[f] # NoClient /\ r.m_sockfd = f
                     THEN 1..(r.bytes_to_send - 1) ELSE {}}
       \cup {[ok |-> linger, rec |-> IF linger THEN fresh(r) ELSE [r EXCEPT !.bytes_to_send = 0],
              arm |-> "in"] :
               linger \in IF sock[f] # NoClient /\ r.m_sockfd = f THEN BOOLEAN ELSE {}}

Rearmed(f, arm) == IF arm = "keep" THEN epoll ELSE modfd(conn[f].m_sockfd, arm)

-----------------------------------------------------------------------------
(* Main thread: eventLoop                                                  *)

epoll_wait_mut ==         \* registered without EPOLLONESHOT
  /\ mpc = "wait" /\ \E e \in Source : Ready[e] # "none"
  /\ events' = Ready /\ mpc' = "dispatch" /\ edge' = FALSE
  /\ UNCHANGED <<sock, epoll, backlog, clientVars, cur, timeout, stop_server, conn,
                 timer, m_user_count, m_workqueue, workerVars>>

epoll_wait ==
  /\ mpc = "wait" /\ \E e \in Source : Ready[e] # "none"
  /\ events' = Ready /\ mpc' = "dispatch"
  /\ epoll' = [f \in Fd |-> IF Ready[f] # "none" THEN "off" ELSE epoll[f]]
  /\ edge' = FALSE
  /\ UNCHANGED <<sock, backlog, clientVars, cur, timeout, stop_server, conn, timer,
                 m_user_count, m_workqueue, workerVars>>

\* accept() gives the lowest free number
LowestFree(f) == sock[f] = NoClient /\ \A g \in Fd : sock[g] = NoClient => f <= g

create_user_mut(f, c) ==  \* forgets add_timer
  /\ sock' = [sock EXCEPT ![f] = c] /\ epoll' = [epoll EXCEPT ![f] = "in"]
  /\ conn' = [conn EXCEPT ![f] = fresh([@ EXCEPT !.m_sockfd = f, !.m_address = c])]
  /\ m_user_count' = m_user_count + 1 /\ UNCHANGED timer

\* http_conn::init registers the descriptor and counts it; add_timer fills the slot
create_user(f, c) ==
  /\ sock' = [sock EXCEPT ![f] = c] /\ epoll' = [epoll EXCEPT ![f] = "in"]
  /\ conn' = [conn EXCEPT ![f] = fresh([@ EXCEPT !.m_sockfd = f, !.m_address = c])]
  /\ timer' = [timer EXCEPT ![f] = "fresh"]
  /\ m_user_count' = m_user_count + 1

\* one round of dealclinetdata that accepts client c at number f; "more" says
\* whether the ET loop goes on
AcceptOne(more) ==
  \E c \in backlog, f \in Fd :
    /\ LowestFree(f) /\ backlog' = backlog \ {c}
    /\ \/ /\ m_user_count >= MAX_FD                   \* show_error closes it
          /\ mpc' = "dispatch" /\ UNCHANGED <<sock, epoll, conn, timer, m_user_count>>
       \/ /\ m_user_count < MAX_FD /\ timer[f] = "null"
          /\ create_user(f, c) /\ mpc' = more
       \/ /\ m_user_count < MAX_FD /\ timer[f] # "null" \* slot taken: not set up
          /\ sock' = [sock EXCEPT ![f] = c] /\ mpc' = more
          /\ UNCHANGED <<epoll, conn, timer, m_user_count>>

\* accept() returns -1: nothing queued, or no free number
AcceptFails ==
  /\ backlog = {} \/ \A f \in Fd : sock[f] # NoClient
  /\ mpc' = "dispatch"
  /\ UNCHANGED <<sock, epoll, backlog, conn, timer, m_user_count>>

dealclinetdata ==
  \/ /\ mpc = "dispatch" /\ events[Listen] # "none" /\ Taken(Listen)
     /\ AcceptOne(IF ListenET THEN "accept" ELSE "dispatch") \/ AcceptFails
     /\ UNCHANGED <<edge, clientVars, cur, timeout, stop_server, m_workqueue, workerVars>>
  \/ /\ mpc = "accept" /\ UNCHANGED events            \* next round of the ET loop
     /\ AcceptOne("accept") \/ AcceptFails
     /\ UNCHANGED <<edge, clientVars, cur, timeout, stop_server, m_workqueue, workerVars>>

HandleHangup(f) ==
  /\ mpc = "dispatch" /\ events[f] = "hup" /\ Taken(f)
  /\ del_timer(f)
  /\ UNCHANGED <<backlog, edge, clientVars, cur, timeout, stop_server, conn,
                 m_workqueue, workerVars>>

dealwithsignal ==
  /\ mpc = "dispatch" /\ events[Pipe] # "none" /\ Taken(Pipe)
  /\ timeout' = (timeout \/ "SIGALRM" \in sigs)
  /\ stop_server' = (stop_server \/ "SIGTERM" \in sigs)
  /\ sigs' = {}
  /\ UNCHANGED <<kernelVars, dialed, inbox, sent, gone, mpc, cur, conn, timer,
                 m_user_count, m_workqueue, workerVars>>

\* Proactor: the main thread does the I/O itself
ProactorRead(f) ==
  /\ mpc = "dispatch" /\ events[f] = "in" /\ ActorModel # 1 /\ Taken(f)
  /\ \/ /\ CanRead(f)
        /\ Receive(f) /\ append(f) /\ adjust_timer(f)
        /\ UNCHANGED <<sock, epoll, m_user_count, mpc>>
     \/ del_timer(f) /\ UNCHANGED <<conn, inbox, m_workqueue>>
  /\ UNCHANGED <<backlog, edge, dialed, sent, gone, sigs, cur, timeout, stop_server,
                 workerVars>>

ProactorWrite(f) ==
  /\ mpc = "dispatch" /\ events[f] = "out" /\ ActorModel # 1 /\ Taken(f)
  /\ \E res \in WriteResults(f) :
       \/ /\ res.ok
          /\ conn' = [conn EXCEPT ![f] = res.rec] /\ epoll' = Rearmed(f, res.arm)
          /\ adjust_timer(f) /\ UNCHANGED <<sock, m_user_count, mpc>>
       \/ /\ ~res.ok
          /\ conn' = [conn EXCEPT ![f] = res.rec] /\ del_timer(f)
  /\ UNCHANGED <<backlog, edge, clientVars, cur, timeout, stop_server, m_workqueue,
                 workerVars>>

\* Reactor: hand the descriptor to a worker (m_state says which I/O) and spin
ReactorDispatch(f) ==
  /\ mpc = "dispatch" /\ events[f] \in {"in", "out"} /\ ActorModel = 1 /\ Taken(f)
  /\ adjust_timer(f) /\ append(f)
  /\ conn' = IF QueueFull THEN conn
             ELSE [conn EXCEPT ![f].m_state = IF events[f] = "in" THEN 0 ELSE 1]
  /\ mpc' = "spin" /\ cur' = f
  /\ UNCHANGED <<kernelVars, clientVars, timeout, stop_server, m_user_count, workerVars>>

\* ... until improv is raised; then delete the timer if timer_flag says so
SpinExit ==
  /\ mpc = "spin" /\ conn[cur].improv = 1 /\ cur' = NoFd
  /\ \/ /\ conn[cur].timer_flag = 1 /\ del_timer(cur)
        /\ conn' = [conn EXCEPT ![cur] = [@ EXCEPT !.timer_flag = 0, !.improv = 0]]
     \/ /\ conn[cur].timer_flag = 0 /\ mpc' = "dispatch"
        /\ conn' = [conn EXCEPT ![cur].improv = 0]
        /\ UNCHANGED <<sock, epoll, timer, m_user_count>>
  /\ UNCHANGED <<backlog, edge, clientVars, events, timeout, stop_server, m_workqueue,
                 workerVars>>

\* after the batch: timer_handler runs due callbacks if SIGALRM was read, then
\* the loop condition is tested.  Which of the due timers one tick reaches is
\* HeapTimers' business.
EndOfBatch ==
  /\ mpc = "dispatch" /\ NoEvent
  /\ \/ timeout /\ \E S \in SUBSET {f \in Fd : timer[f] = "due"} : cb_func(S)
     \/ ~timeout /\ UNCHANGED <<sock, epoll, timer, m_user_count>>
  /\ timeout' = FALSE
  /\ mpc' = IF stop_server THEN "stopped" ELSE "wait"
  /\ UNCHANGED <<backlog, edge, clientVars, cur, events, stop_server, conn,
                 m_workqueue, workerVars>>

Main ==
  \/ epoll_wait \/ dealclinetdata \/ dealwithsignal \/ SpinExit \/ EndOfBatch
  \/ \E f \in Fd : \/ HandleHangup(f) \/ ProactorRead(f) \/ ProactorWrite(f)
                   \/ ReactorDispatch(f)

-----------------------------------------------------------------------------
(* Worker threads: threadpool::run                                         *)

Goto(w, l) == /\ wpc' = [wpc EXCEPT ![w] = l]
              /\ wfd' = IF l = "idle" THEN [wfd EXCEPT ![w] = NoFd] ELSE wfd

TakeRequest(w) ==
  /\ wpc[w] = "idle" /\ m_workqueue # <<>>
  /\ LET f == Head(m_workqueue) IN
       /\ wfd' = [wfd EXCEPT ![w] = f]
       /\ wpc' = [wpc EXCEPT ![w] = IF ActorModel # 1 THEN "process"
                                    ELSE IF conn[f].m_state = 0 THEN "read" ELSE "write"]
  /\ m_workqueue' = Tail(m_workqueue)
  /\ UNCHANGED <<kernelVars, clientVars, mainVars, conn, timer, m_user_count, wtmp, wreq>>

WorkerRead_mut(w) ==      \* raises improv only after a successful read
  /\ wpc[w] = "read"
  /\ LET f == wfd[w] IN
       \/ /\ CanRead(f)
          /\ inbox' = [inbox EXCEPT ![sock[f]] = FALSE]
          /\ conn' = [conn EXCEPT ![f] = [Filled(f) EXCEPT !.improv = 1]]
          /\ Goto(w, "process")
       \/ Goto(w, "flag") /\ UNCHANGED <<conn, inbox>>
  /\ UNCHANGED <<kernelVars, dialed, sent, gone, sigs, mainVars, timer, m_user_count,
                 m_workqueue, wtmp, wreq>>

\* Reactor, m_state 0: a success raises improv before process() runs, a
\* failure raises improv first and timer_flag in a later step
WorkerRead(w) ==
  /\ wpc[w] = "read"
  /\ LET f == wfd[w] IN
       \/ /\ CanRead(f)
          /\ inbox' = [inbox EXCEPT ![sock[f]] = FALSE]
          /\ conn' = [conn EXCEPT ![f] = [Filled(f) EXCEPT !.improv = 1]]
          /\ Goto(w, "process")
       \/ /\ conn' = [conn EXCEPT ![f].improv = 1]
          /\ Goto(w, "flag") /\ UNCHANGED inbox
  /\ UNCHANGED <<kernelVars, dialed, sent, gone, sigs, mainVars, timer, m_user_count,
                 m_workqueue, wtmp, wreq>>

\* Reactor, m_state 1
WorkerWrite(w) ==
  /\ wpc[w] = "write"
  /\ LET f == wfd[w] IN
       \E res \in WriteResults(f) :
         /\ conn' = [conn EXCEPT ![f] = [res.rec EXCEPT !.improv = 1]]
         /\ epoll' = Rearmed(f, res.arm)
         /\ Goto(w, IF res.ok THEN "idle" ELSE "flag")
  /\ UNCHANGED <<sock, backlog, edge, clientVars, mainVars, timer, m_user_count,
                 m_workqueue, wtmp, wreq>>

RaiseTimerFlag(w) ==
  /\ wpc[w] = "flag"
  /\ conn' = [conn EXCEPT ![wfd[w]].timer_flag = 1]
  /\ Goto(w, "idle")
  /\ UNCHANGED <<kernelVars, clientVars, mainVars, timer, m_user_count, m_workqueue, wtmp, wreq>>

\* process(): process_read consumes what is in the buffer and remembers what to
\* answer; another thread may run before process_write
process_read(w) ==
  /\ wpc[w] = "process"
  /\ LET f == wfd[w] IN
       \E ret \in IF conn[f].buf = NoClient THEN {"NO_REQUEST"} ELSE HttpCodes :
         \/ ret = "NO_REQUEST" /\ Goto(w, "arm_in") /\ UNCHANGED wreq
         \/ /\ ret \in Answered /\ Goto(w, "respond")
            /\ wreq' = [wreq EXCEPT ![w] = conn[f].buf]
         \/ ret \in Refused /\ Goto(w, "close") /\ UNCHANGED wreq
  /\ UNCHANGED <<kernelVars, clientVars, mainVars, conn, timer, m_user_count,
                 m_workqueue, wtmp>>

process_write(w) ==
  /\ wpc[w] = "respond" /\ Goto(w, "arm_out")
  /\ conn' = [conn EXCEPT ![wfd[w]] =
                 [@ EXCEPT !.bytes_to_send = RespPieces, !.resp = wreq[w]]]
  /\ wreq' = [wreq EXCEPT ![w] = NoClient]
  /\ UNCHANGED <<kernelVars, clientVars, mainVars, timer, m_user_count, m_workqueue, wtmp>>

\* close_conn(): removefd ...
CloseDescriptor(w) ==
  /\ wpc[w] = "close"
  /\ LET g == conn[wfd[w]].m_sockfd IN
       \/ /\ g \in Fd /\ Goto(w, "forget")
          /\ epoll' = [epoll EXCEPT ![g] = "none"] /\ sock' = [sock EXCEPT ![g] = NoClient]
       \/ g \notin Fd /\ Goto(w, "arm_out") /\ UNCHANGED <<epoll, sock>>
  /\ UNCHANGED <<backlog, edge, clientVars, mainVars, conn, timer, m_user_count,
                 m_workqueue, wtmp, wreq>>

\* ... m_sockfd = -1, and m_user_count-- as the load and the store it compiles
\* to; another thread's store may also land after this one's
ForgetDescriptor(w) ==
  /\ wpc[w] = "forget"
  /\ conn' = [conn EXCEPT ![wfd[w]].m_sockfd = NoFd]
  /\ wtmp' = [wtmp EXCEPT ![w] = m_user_count] /\ Goto(w, "count")
  /\ UNCHANGED <<kernelVars, clientVars, mainVars, timer, m_user_count, m_workqueue, wreq>>

CountDown(w) ==
  /\ wpc[w] = "count"
  /\ \/ m_user_count' = wtmp[w] - 1
     \/ m_user_count # wtmp[w] /\ UNCHANGED m_user_count
  /\ wtmp' = [wtmp EXCEPT ![w] = 0] /\ Goto(w, "arm_out")
  /\ UNCHANGED <<kernelVars, clientVars, mainVars, conn, timer, m_workqueue, wreq>>

\* the modfd that ends process()
Rearm(w) ==
  /\ wpc[w] \in {"arm_in", "arm_out"}
  /\ epoll' = modfd(conn[wfd[w]].m_sockfd, IF wpc[w] = "arm_in" THEN "in" ELSE "out")
  /\ Goto(w, "idle")
  /\ UNCHANGED <<sock, backlog, edge, clientVars, mainVars, conn, timer, m_user_count,
                 m_workqueue, wtmp, wreq>>

WorkerStep(w) ==
  \/ TakeRequest(w) \/ WorkerRead(w) \/ WorkerWrite(w) \/ RaiseTimerFlag(w)
  \/ process_read(w) \/ process_write(w) \/ CloseDescriptor(w) \/ ForgetDescriptor(w) \/ CountDown(w) \/ Rearm(w)

-----------------------------------------------------------------------------
\* The loop may end, epoll_wait blocks for good once every client is done, and
\* the busy wait polls improv
Rest ==
  /\ \/ mpc = "stopped"
     \/ mpc = "wait" /\ \A e \in Source : Ready[e] = "none"
     \/ mpc = "spin" /\ conn[cur].improv = 0
  /\ UNCHANGED vars

Next ==
  \/ \E c \in Client : Connect(c) \/ Send(c) \/ Hangup(c)
  \/ \E f \in Fd : TimePasses(f)
  \/ \E s \in Signals : sig_handler(s)
  \/ Main \/ \E w \in Worker : WorkerStep(w)
  \/ Rest

Spec == Init /\ [][Next]_vars

\* The main thread and the workers keep running; time passes; the alarm that
\* is armed while timers are set goes off, and no due timer is passed over by
\* every tick, which the heap grants unless timers of several other connections are
\* postponed again and again (HeapTimers).  Clients owe nothing.
AlarmRings == (\E f \in Fd : timer[f] # "null") /\ sig_handler("SIGALRM")
Closes(f)  == EndOfBatch /\ timer[f] = "due" /\ timer'[f] = "null"

Fairness ==
  /\ WF_vars(Main) /\ \A w \in Worker : WF_vars(WorkerStep(w))
  /\ \A f \in Fd : WF_vars(TimePasses(f)) /\ SF_vars(Closes(f))
  /\ WF_vars(AlarmRings)

FairSpec == Spec /\ Fairness

-----------------------------------------------------------------------------
(* Properties                                                              *)

TypeOK ==
  /\ sock \in [Fd -> Client \cup {NoClient}]
  /\ epoll \in [Fd -> {"none", "off", "in", "out"}]
  /\ backlog \subseteq Client /\ edge \in BOOLEAN /\ dialed \subseteq Client
  /\ inbox \in [Client -> BOOLEAN] /\ gone \in [Client -> BOOLEAN]
  /\ sent \in [Client -> 0..MaxSend] /\ sigs \subseteq Signals
  /\ mpc \in {"wait", "dispatch", "accept", "spin", "stopped", "crash"}
  /\ cur \in Fd \cup {NoFd} /\ events \in [Source -> Kinds]
  /\ timeout \in BOOLEAN /\ stop_server \in BOOLEAN
  /\ conn \in [Fd -> Conn] /\ timer \in [Fd -> {"null", "fresh", "due"}]
  /\ m_user_count \in Int
  /\ m_workqueue \in Seq(Fd) /\ Len(m_workqueue) <= MaxRequests
  /\ wpc \in [Worker -> WorkerPc]
  /\ wfd \in [Worker -> Fd \cup {NoFd}] /\ wtmp \in [Worker -> Int]
  /\ wreq \in [Worker -> Client \cup {NoClient}]

\* No event is ever handled on a descriptor whose timer slot is empty, so
\* del_timer never dereferences a null timer (webserver.cpp:234), whatever the
\* workers do to the descriptors in the meantime.
NoNullTimer == mpc # "crash"

\* A descriptor accepted from the listening socket always has a timer in its
\* slot, even when a worker closed the number behind the main thread's back
\* and accept handed it out again: no socket is open with nothing to close it.
EveryDescriptorTimed == \A f \in Fd : sock[f] # NoClient => timer[f] # "null"

\* The table entry at a number describes the socket open at that number, and
\* the socket is registered with epoll (webserver.cpp:196-200).
TableDescribesSocket ==
  \A f \in Fd : sock[f] # NoClient => conn[f].m_address = sock[f] /\ epoll[f] # "none"

\* m_user_count is the number of open connections, except while a worker is
\* inside close_conn (http_conn.cpp:100-110, utils.cpp:136-144).
UserCountExact ==
  (\A w \in Worker : wpc[w] \notin {"forget", "count"})
    => m_user_count = Cardinality({f \in Fd : sock[f] # NoClient})

\* EPOLLONESHOT hands a connection to one thread at a time: never is it queued
\* or held twice.
OneThreadPerConn ==
  \A f \in Fd : Cardinality({i \in 1..Len(m_workqueue) : m_workqueue[i] = f})
               + Cardinality({w \in Worker : wfd[w] = f}) <= 1

\* What is about to be written to a socket answers the client at its other end.
ResponseToRequester ==
  \A f \in Fd : sock[f] # NoClient /\ conn[f].bytes_to_send > 0
               => conn[f].resp = sock[f]

\* The main thread spins only on a request some worker will finish or has
\* finished: append cannot have dropped it (webserver.cpp:290-304).
SpinServed == mpc = "spin" => conn[cur].improv = 1 \/ Busy(cur)

\* The Reactor's busy wait ends.
SpinEnds == mpc = "spin" ~> mpc # "spin"

\* A connection its client has given up is closed by the server in the end,
\* through its hang-up event or, when the event is lost, through its timer.
HungUpIsClosed ==
  \A c \in Client : (gone[c] /\ Connected(c)) ~> (~Connected(c) \/ mpc = "stopped")

\* Nobody stays in the accept queue for good.
BacklogServed ==
  \A c \in Client : c \in backlog ~> (c \notin backlog \/ mpc = "stopped")

\* A request that reached the server is read, or its connection is closed.
RequestTaken ==
  \A c \in Client : (inbox[c] /\ Connected(c))
                     ~> (~inbox[c] \/ ~Connected(c) \/ mpc = "stopped")
=============================================================================
