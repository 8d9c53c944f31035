--------------------------------- MODULE Server ---------------------------------
(***************************************************************************)
(* The life of the process: main() builds the parts one after the other,   *)
(* runs the event loop and takes the parts down, while the detached        *)
(* workers, which hold a connection of SqlPool in process(), go on.  A     *)
(* part exists from the step that builds it to the step that destroys it.  *)
(* Using one outside that time is undefined: the behaviour ends there, and *)
(* `misused` names the part.                                               *)
(***************************************************************************)
EXTENDS SqlPool

CONSTANTS
  Fd,           \* connections
  NoFd,
  MaxSignals    \* bound: signals that reach the process

ASSUME ServerAssumption == IsFiniteSet(Fd) /\ NoFd \notin Fd /\ MaxSignals \in Nat

VARIABLES
  stage,        \* the step of main that comes next
  logging,      \* "off", "sync" or "async": the options of config.cpp
  timed,        \* connections with a timer in users_data[fd].timer
  bound,        \* connections whose record some timer in the heap points at
  m_workqueue,  \* connections whose request is queued
  serving,      \* per worker: the connection it has in hand
  stop_server,  \* SIGTERM is in the pipe
  signals,      \* signals so far
  misused,      \* parts used before they were built or after they were destroyed
  left,         \* history: what was there when the loop ended: "work", "timer"
  stray         \* history: a signal came outside the loop

workVars    == <<timed, bound, m_workqueue, serving>>
signalVars  == <<stop_server, signals, stray>>
serverVars  == <<vars, stage, logging, workVars, signalVars, misused, left>>

\* main(): start-up in its order, eventLoop, the members of WebServer in the order
\* its destructor and theirs run, and the static objects, the last built first: the
\* singletons, then m_lock and the map it guards, which were there before main
Place == [WebServer |-> 1, log_write |-> 2, sql_pool |-> 3, thread_pool |-> 4,
          utils_func |-> 5, addsig |-> 6, u_pipefd |-> 7, eventLoop |-> 8,
          users |-> 9, users_data |-> 10, m_pool |-> 11, m_minheap |-> 12,
          return |-> 13, connPool |-> 14, Log |-> 15, m_lock |-> 16,
          exit |-> 17, hung |-> 18, killed |-> 0]
Past(s) == Place[stage] > Place[s]
Goes(s) == stage = s /\ stage' \in DOMAIN Place /\ Place[stage'] = Place[s] + 1

\* The steps that build and destroy a part.  u_pipefd points into the WebServer, a
\* local variable of main.
Life == [users    |-> <<"WebServer", "users">>,    users_data |-> <<"WebServer", "users_data">>,
         Log      |-> <<"log_write", "Log">>,      connPool   |-> <<"sql_pool", "connPool">>,
         m_pool   |-> <<"thread_pool", "m_pool">>, u_pipefd   |-> <<"u_pipefd", "return">>,
         m_lock   |-> <<"WebServer", "m_lock">>]
Exists(part) == Past(Life[part][1]) /\ ~Past(Life[part][2])

Ended == stage \in {"exit", "killed"} \/ misused # {} \/ \E t \in Thread : pc[t] = "undefined"
Busy  == {t \in Thread : serving[t] # NoFd}

\* WebServer() and init(): the options are read, nothing has been built
ServerInit ==
  /\ Init /\ stage = "WebServer" /\ logging \in {"off", "sync", "async"}
  /\ timed = {} /\ bound = {} /\ m_workqueue = {} /\ serving = [t \in Thread |-> NoFd]
  /\ stop_server = FALSE /\ signals = 0 /\ stray = FALSE
  /\ misused = {} /\ left = {}

-----------------------------------------------------------------------------
(* The main thread                                                         *)

\* the steps that build or destroy a part and do nothing else
Build ==
  /\ \E s \in {"WebServer", "log_write", "sql_pool", "thread_pool", "utils_func", "addsig",
               "u_pipefd"} : Goes(s)
  /\ UNCHANGED <<vars, logging, workVars, signalVars, misused, left>>

Destroy ==
  /\ \E s \in {"users", "users_data", "m_pool", "return", "m_lock"} : Goes(s)
  /\ UNCHANGED <<vars, logging, workVars, signalVars, misused, left>>

\* the loop ends after the batch in which SIGTERM was read, whatever else goes on
Stop ==
  /\ Goes("eventLoop") /\ stop_server
  /\ left' = (IF timed = {} THEN {} ELSE {"timer"})
             \cup (IF m_workqueue = {} /\ Busy = {} THEN {} ELSE {"work"})
  /\ UNCHANGED <<vars, logging, workVars, signalVars, misused>>

\* ~Utils and ~min_heap: a timer that was not cancelled resets its record
DeleteTimers ==
  /\ IF bound = {} \/ Exists("users_data") THEN Goes("m_minheap") /\ UNCHANGED misused
     ELSE stage = "m_minheap" /\ misused' = {"users_data"} /\ UNCHANGED stage
  /\ bound' = {}
  /\ UNCHANGED <<vars, logging, timed, m_workqueue, serving, signalVars, left>>

DestroyConnPool ==
  /\ Goes("connPool") /\ DestroyPool
  /\ UNCHANGED <<logging, workVars, signalVars, misused, left>>

\* ~Log.  The writer thread is in pop(), asleep on the condition variable that is
\* destroyed, which may block for ever, or awake with the queue destroyed under it.
CloseLog ==
  /\ \/ Goes("Log") /\ UNCHANGED misused
     \/ /\ stage = "Log" /\ logging = "async"
        /\ \/ stage' = "hung" /\ UNCHANGED misused
           \/ misused' = {"Log"} /\ UNCHANGED stage
  /\ UNCHANGED <<vars, logging, workVars, signalVars, left>>

Main == Build \/ Stop \/ Destroy \/ DeleteTimers \/ DestroyConnPool \/ CloseLog

\* The loop accepts a client, appends its request, or closes a connection and
\* cancels its timer, or the timer expires.
Accept(f) ==
  /\ stage = "eventLoop" /\ f \notin timed
  /\ timed' = timed \cup {f} /\ bound' = bound \cup {f}
  /\ UNCHANGED <<vars, stage, logging, m_workqueue, serving, signalVars, misused, left>>

Append_p(f) ==
  /\ stage = "eventLoop" /\ f \in timed /\ f \notin m_workqueue
  /\ \A t \in Thread : serving[t] # f
  /\ m_workqueue' = m_workqueue \cup {f}
  /\ UNCHANGED <<vars, stage, logging, timed, bound, serving, signalVars, misused, left>>

Close_mut(f) ==      \* del_timer forgets user_data = NULL
  /\ stage = "eventLoop" /\ f \in timed /\ timed' = timed \ {f}
  /\ UNCHANGED <<vars, stage, logging, bound, m_workqueue, serving, signalVars, misused, left>>

Close(f) ==
  /\ stage = "eventLoop" /\ f \in timed /\ timed' = timed \ {f} /\ bound' = bound \ {f}
  /\ UNCHANGED <<vars, stage, logging, m_workqueue, serving, signalVars, misused, left>>

-----------------------------------------------------------------------------
(* The workers                                                             *)

\* The parts t uses when it goes on.  Between two requests, even when none comes, it
\* enters or sits in the semaphore of the pool, and then in its lock and list; with a
\* request it reads m_connPool there, and then uses what connectionRAII and
\* process() do.  Whoever closes the connection in process() leaves its timer.
Uses(t) ==
  IF serving[t] = NoFd THEN {"m_pool"}
  ELSE {"connPool"} \cup CASE pc[t] = "idle" -> {"m_pool"}
                          [] pc[t] = "use" /\ logging # "off" -> {"users", "m_lock", "Log"}
                          [] pc[t] = "use" /\ logging = "off" -> {"users", "m_lock"}
                          [] OTHER -> {}

Safe(t) == \A part \in Uses(t) : Exists(part)

\* run() takes a request
TakeRequest(t) ==
  /\ serving[t] = NoFd /\ Safe(t)
  /\ \E f \in m_workqueue : /\ m_workqueue' = m_workqueue \ {f}
                            /\ serving' = [serving EXCEPT ![t] = f]
  /\ UNCHANGED <<vars, stage, logging, timed, bound, signalVars, misused, left>>

\* connectionRAII and process(); the end of the scope gives the connection back
Work(t) ==
  /\ serving[t] # NoFd /\ Safe(t) /\ Step(t)
  /\ serving' = [serving EXCEPT ![t] = IF pc'[t] = "idle" THEN NoFd ELSE @]
  /\ UNCHANGED <<stage, logging, timed, bound, m_workqueue, signalVars, misused, left>>

Misuse(t) ==
  /\ Past("thread_pool") /\ ~Safe(t) /\ misused' = {part \in Uses(t) : ~Exists(part)}
  /\ UNCHANGED <<vars, stage, logging, workVars, signalVars, left>>

-----------------------------------------------------------------------------
(* Signals                                                                 *)

\* SIGTERM kills the process before addsig.  After it the handler, for SIGTERM or
\* SIGALRM, writes to the pipe of u_pipefd, in whatever thread it runs.
Killed ==
  /\ ~Past("addsig") /\ stage' = "killed" /\ UNCHANGED <<stop_server, misused>>

sig_handler ==
  /\ Past("addsig") /\ stop_server' \in {stop_server, TRUE}
  /\ misused' = {part \in {"u_pipefd"} : ~Exists(part)}
  /\ UNCHANGED stage

Signal ==
  /\ signals < MaxSignals /\ signals' = signals + 1
  /\ Killed \/ sig_handler
  /\ stray' = (stray \/ stage # "eventLoop")
  /\ UNCHANGED <<vars, logging, workVars, left>>

-----------------------------------------------------------------------------
ServerNext ==
  \/ /\ ~Ended
     /\ \/ Main \/ Signal
        \/ \E f \in Fd : Accept(f) \/ Append_p(f) \/ Close(f)
        \/ \E t \in Thread : TakeRequest(t) \/ Work(t) \/ Misuse(t)
  \/ (Ended \/ stage = "hung") /\ UNCHANGED serverVars

ServerSpec == ServerInit /\ [][ServerNext]_serverVars

-----------------------------------------------------------------------------
\* What is used outside its life, and why: what process() works on (the
\* connections, the SQL pool, m_lock) by a worker whose request the loop left behind; the log by such a worker, or by the
\* writer thread it does not wait for; the records of clients by a timer the loop left
\* in the heap; the thread pool by its own workers, which wait in it, after an idle stop
\* as well; the pipe by a signal outside the loop.  Nothing else is, and in particular
\* no part but the pipe before it is built (main.cpp:19-40, webserver.cpp:21-30,
\* threadpool.h:109, minheap_timer.h:24-33).
MisuseHasCause ==
  /\ misused \cap {"users", "connPool", "m_lock"} # {} => "work" \in left
  /\ "Log" \in misused => "work" \in left \/ (logging = "async" /\ stage = "Log")
  /\ "users_data" \in misused => "timer" \in left
  /\ "m_pool" \in misused => Past("m_pool")
  /\ "u_pipefd" \in misused => stray
===============================================================================
