------------------------------- MODULE SqlPool -------------------------------
(***************************************************************************)
(* connection_pool and connectionRAII (CGImysql/sql_connection_pool.cpp):  *)
(* a list of idle connections under a lock, a semaphore that counts them   *)
(* and worker threads that hold one connection during process().           *)
(*                                                                         *)
(* A critical section is one step.  The steps outside the lock are steps   *)
(* of their own: the size test that opens GetConnection, the wait on the   *)
(* semaphore and the post that ends ReleaseConnection.                     *)
(* The model ends where the process does: when main returns and the static *)
(* pool is destroyed, and when a thread takes from an empty list.          *)
(***************************************************************************)
EXTENDS Integers, Sequences, FiniteSets

CONSTANTS
  Thread,      \* threads that call GetConnection: the workers
  Conn,        \* MYSQL objects
  NULL,
  MaxSlips     \* bound: interrupted waits

ASSUME PoolAssumption ==
  IsFiniteSet(Thread) /\ IsFiniteSet(Conn) /\ NULL \notin Conn /\ MaxSlips \in Nat

VARIABLES
  connList,    \* idle connections
  reserve,     \* value of the semaphore
  m_MaxConn, m_FreeConn, m_CurConn,
  closed,      \* connections mysql_close was called on
  destroyed,   \* DestroyPool has run
  slips,       \* history: waits that ended without taking the semaphore
  pc, con      \* per thread: position, and the connection in hand

counts == <<m_FreeConn, m_CurConn>>
pool   == <<m_MaxConn, closed, destroyed>>
vars   == <<connList, reserve, counts, pool, slips, pc, con>>

Goto(t, l) == pc' = [pc EXCEPT ![t] = l]
Holders == {t \in Thread : con[t] # NULL}
At(l)   == {t \in Thread : pc[t] = l}

\* connection_pool::init
Init ==
  /\ m_MaxConn \in 1..Cardinality(Conn)
  /\ connList \in [1..m_MaxConn -> Conn]
  /\ \A i, j \in 1..m_MaxConn : connList[i] = connList[j] => i = j
  /\ reserve = m_MaxConn /\ m_FreeConn = m_MaxConn /\ m_CurConn = 0
  /\ closed = {} /\ destroyed = FALSE /\ slips = 0
  /\ pc = [t \in Thread |-> "idle"] /\ con = [t \in Thread |-> NULL]

-----------------------------------------------------------------------------
(* GetConnection                                                           *)

\* size() is read without the lock; an empty list means NULL
CheckSize(t) ==
  /\ pc[t] = "idle"
  /\ Goto(t, IF connList = <<>> THEN "use" ELSE "wait")
  /\ UNCHANGED <<connList, reserve, counts, pool, slips, con>>

Wait(t) ==
  /\ pc[t] = "wait" /\ reserve > 0
  /\ reserve' = reserve - 1 /\ Goto(t, "take")
  /\ UNCHANGED <<connList, counts, pool, slips, con>>

\* a blocked sem_wait fails with EINTR (the handlers are installed without
\* SA_RESTART), and the result of wait() is not looked at
WaitInterrupted(t) ==
  /\ pc[t] = "wait" /\ reserve = 0 /\ slips < MaxSlips
  /\ slips' = slips + 1 /\ Goto(t, "take")
  /\ UNCHANGED <<connList, reserve, counts, pool, con>>

Take_mut(t) ==   \* copies the front without removing it
  /\ pc[t] = "take" /\ connList # <<>>
  /\ con' = [con EXCEPT ![t] = Head(connList)]
  /\ m_FreeConn' = m_FreeConn - 1 /\ m_CurConn' = m_CurConn + 1 /\ Goto(t, "use")
  /\ UNCHANGED <<connList, reserve, pool, slips>>

\* front() and pop_front(); on an empty list they are undefined: pop_front frees
\* the list's own header node and the process aborts
Take(t) ==
  /\ pc[t] = "take"
  /\ \/ /\ connList # <<>> /\ Goto(t, "use")
        /\ con' = [con EXCEPT ![t] = Head(connList)] /\ connList' = Tail(connList)
        /\ m_FreeConn' = m_FreeConn - 1 /\ m_CurConn' = m_CurConn + 1
     \/ connList = <<>> /\ Goto(t, "undefined") /\ UNCHANGED <<connList, counts, con>>
  /\ UNCHANGED <<reserve, pool, slips>>

-----------------------------------------------------------------------------
(* ~connectionRAII: ReleaseConnection                                      *)

Release(t) ==
  /\ pc[t] = "use"
  /\ \/ con[t] = NULL /\ Goto(t, "idle") /\ UNCHANGED <<connList, counts, con>>
     \/ /\ con[t] # NULL /\ Goto(t, "post")
        /\ connList' = Append(connList, con[t]) /\ con' = [con EXCEPT ![t] = NULL]
        /\ m_FreeConn' = m_FreeConn + 1 /\ m_CurConn' = m_CurConn - 1
  /\ UNCHANGED <<reserve, pool, slips>>

Post_mut(t) ==   \* forgets the post
  /\ pc[t] = "post" /\ Goto(t, "idle")
  /\ UNCHANGED <<reserve, connList, counts, pool, slips, con>>

Post(t) ==
  /\ pc[t] = "post" /\ reserve' = reserve + 1 /\ Goto(t, "idle")
  /\ UNCHANGED <<connList, counts, pool, slips, con>>

-----------------------------------------------------------------------------
DestroyPool_mut ==   \* closes the connections and leaves them in the list
  /\ destroyed' = TRUE /\ closed' = {connList[i] : i \in 1..Len(connList)}
  /\ UNCHANGED <<connList, m_MaxConn, counts, reserve, slips, pc, con>>

\* DestroyPool, from the destructor of the static pool, whatever the workers do
DestroyPool ==
  /\ destroyed' = TRUE
  /\ \/ /\ connList # <<>> /\ closed' = {connList[i] : i \in 1..Len(connList)}
        /\ connList' = <<>> /\ m_FreeConn' = 0 /\ m_CurConn' = 0
     \/ connList = <<>> /\ UNCHANGED <<closed, connList, counts>>
  /\ UNCHANGED <<m_MaxConn, reserve, slips, pc, con>>

Step(t) == \/ CheckSize(t) \/ Wait(t) \/ WaitInterrupted(t) \/ Take(t)
           \/ Release(t) \/ Post(t)

Over == destroyed \/ \E t \in Thread : pc[t] = "undefined"

Next == \/ ~Over /\ \E t \in Thread : Step(t)
        \/ ~Over /\ DestroyPool
        \/ Over /\ UNCHANGED vars

Spec == Init /\ [][Next]_vars

-----------------------------------------------------------------------------
TypeOK ==
  /\ connList \in Seq(Conn) /\ reserve \in Nat /\ slips \in Nat
  /\ m_MaxConn \in Nat /\ m_FreeConn \in Int /\ m_CurConn \in Int
  /\ closed \subseteq Conn /\ destroyed \in BOOLEAN
  /\ pc \in [Thread -> {"idle", "wait", "take", "use", "post", "undefined"}]
  /\ con \in [Thread -> Conn \cup {NULL}]

\* No connection is in two hands, or in a hand and in the list, or closed in
\* either: two threads never talk on the same MYSQL object, whatever the
\* interrupts do, and DestroyPool closes none in use
\* (sql_connection_pool.cpp:72-80, 90-96, 106-120).
Exclusive ==
  /\ \A s, t \in Thread : con[s] # NULL /\ con[s] = con[t] => s = t
  /\ \A i \in 1..Len(connList) :
       /\ connList[i] \notin closed
       /\ \A t \in Thread : con[t] # connList[i]
       /\ \A j \in 1..Len(connList) : connList[i] = connList[j] => i = j
  /\ \A t \in Thread : con[t] \notin closed

\* While the process runs no connection is lost, and the semaphore accounts for
\* those in the list: they are counted by reserve, claimed by a thread past its
\* wait or about to be posted.  Every interrupted wait takes one out for which
\* the semaphore is not counted down, and the difference stays
\* (sql_connection_pool.cpp:56, 70, 77, 93, 98).
Accounted ==
  ~Over =>
    /\ Len(connList) + slips = reserve + Cardinality(At("take")) + Cardinality(At("post"))
    /\ m_FreeConn = Len(connList) /\ m_CurConn = Cardinality(Holders)
    /\ Len(connList) + Cardinality(Holders) = m_MaxConn

\* As long as no wait was interrupted, a thread that comes through the semaphore
\* finds a connection in the list (sql_connection_pool.cpp:70-75).
FrontExists == slips = 0 => \A t \in Thread : pc[t] # "undefined"

\* With a connection for every thread nobody is given NULL, blocks or can be
\* interrupted in sem_wait (the defaults, config.cpp: sql_num = thread_num = 8).
Plenty ==
  ~destroyed /\ Cardinality(Thread) <= m_MaxConn =>
    \A t \in Thread : /\ pc[t] = "wait" => reserve > 0
                      /\ pc[t] = "use" => con[t] # NULL
                      /\ pc[t] # "undefined"
=============================================================================
