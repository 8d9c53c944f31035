----------------------------- MODULE RequestQueue -----------------------------
(***************************************************************************)
(* The request queue of threadpool (threadpool/threadpool.h): the main     *)
(* thread appends requests, the workers of run() take them.  The list is   *)
(* only touched under m_queuelocker, so a critical section is one step;    *)
(* the wait and the post on m_queuestat happen outside of it.              *)
(***************************************************************************)
EXTENDS Threads, Integers, Sequences

CONSTANTS
  Main,              \* the thread that appends
  Request,           \* connection objects
  NoRequest,
  m_max_requests,
  MaxSlips           \* bound: interrupted waits

ASSUME QueueAssumption ==
  /\ Main \notin Worker /\ NoRequest \notin Request
  /\ m_max_requests \in Nat \ {0} /\ MaxSlips \in Nat

VARIABLES
  m_workqueue,
  m_queuestat,       \* value of the semaphore
  posting,           \* main is between the critical section of append and the post
  accepted,          \* what append returned last
  pc, request,       \* per worker: position and local variable of run()
  slips              \* history: waits that ended without taking the semaphore

queueVars == <<m_workqueue, m_queuestat, posting, accepted, pc, request, slips>>

Goto(w, l) == pc' = [pc EXCEPT ![w] = l]
At(l)      == {w \in Worker : pc[w] = l}

QueueInit ==
  /\ m_workqueue = <<>> /\ m_queuestat = 0 /\ posting = FALSE /\ accepted = TRUE
  /\ pc = [w \in Worker |-> "wait"] /\ request = [w \in Worker |-> NoRequest] /\ slips = 0

-----------------------------------------------------------------------------

append_post_mut(r) ==    \* posts for a request it refused
  /\ ~posting /\ posting' = TRUE
  /\ \/ Len(m_workqueue) >= m_max_requests /\ accepted' = FALSE /\ UNCHANGED m_workqueue
     \/ Len(m_workqueue) < m_max_requests /\ accepted' = TRUE
        /\ m_workqueue' = Append(m_workqueue, r)
  /\ UNCHANGED <<m_queuestat, pc, request, slips>>

\* append and append_p, under the lock
append(r) ==
  /\ ~posting
  /\ \/ Len(m_workqueue) >= m_max_requests /\ accepted' = FALSE
        /\ UNCHANGED <<m_workqueue, posting>>
     \/ Len(m_workqueue) < m_max_requests /\ accepted' = TRUE
        /\ m_workqueue' = Append(m_workqueue, r) /\ posting' = TRUE
  /\ UNCHANGED <<m_queuestat, pc, request, slips>>

Post_mut ==              \* forgets the post
  /\ posting /\ posting' = FALSE
  /\ UNCHANGED <<m_queuestat, m_workqueue, accepted, pc, request, slips>>

\* ... and after it
Post ==
  /\ posting /\ posting' = FALSE /\ m_queuestat' = m_queuestat + 1
  /\ UNCHANGED <<m_workqueue, accepted, pc, request, slips>>

Wait(w) ==
  /\ pc[w] = "wait" /\ m_queuestat > 0
  /\ m_queuestat' = m_queuestat - 1 /\ Goto(w, "take")
  /\ UNCHANGED <<m_workqueue, posting, accepted, request, slips>>

\* sem_wait fails with EINTR, and run() does not look at its result
WaitInterrupted(w) ==
  /\ pc[w] = "wait" /\ m_queuestat = 0 /\ slips < MaxSlips
  /\ slips' = slips + 1 /\ Goto(w, "take")
  /\ UNCHANGED <<m_workqueue, m_queuestat, posting, accepted, request>>

\* the critical section of run(): an empty list sends the worker back to wait
TakeNone(w) ==
  /\ pc[w] = "take" /\ m_workqueue = <<>> /\ Goto(w, "wait")
  /\ UNCHANGED <<m_workqueue, m_queuestat, posting, accepted, request, slips>>

Take_mut(w) ==           \* the newest first
  /\ pc[w] = "take" /\ m_workqueue # <<>> /\ Goto(w, "work")
  /\ request' = [request EXCEPT ![w] = m_workqueue[Len(m_workqueue)]]
  /\ m_workqueue' = SubSeq(m_workqueue, 1, Len(m_workqueue) - 1)
  /\ UNCHANGED <<m_queuestat, posting, accepted, slips>>

Take_dup_mut(w) ==       \* leaves the request in the list
  /\ pc[w] = "take" /\ m_workqueue # <<>> /\ Goto(w, "work")
  /\ request' = [request EXCEPT ![w] = Head(m_workqueue)]
  /\ UNCHANGED <<m_workqueue, m_queuestat, posting, accepted, slips>>

Take(w) ==
  /\ pc[w] = "take" /\ m_workqueue # <<>> /\ Goto(w, "work")
  /\ request' = [request EXCEPT ![w] = Head(m_workqueue)]
  /\ m_workqueue' = Tail(m_workqueue)
  /\ UNCHANGED <<m_queuestat, posting, accepted, slips>>

\* the request was processed
Done(w) ==
  /\ pc[w] = "work" /\ Goto(w, "wait")
  /\ UNCHANGED <<m_workqueue, m_queuestat, posting, accepted, request, slips>>

\* the process ends and is started again
QueueRestart ==
  /\ m_workqueue' = <<>> /\ m_queuestat' = 0 /\ posting' = FALSE
  /\ pc' = [w \in Worker |-> "wait"] /\ UNCHANGED <<accepted, request, slips>>

QueueNext ==
  \/ \E r \in Request : append(r)
  \/ Post \/ QueueRestart
  \/ \E w \in Worker : Wait(w) \/ WaitInterrupted(w) \/ TakeNone(w) \/ Take(w) \/ Done(w)

QueueSpec == QueueInit /\ [][QueueNext]_queueVars

-----------------------------------------------------------------------------
QueueTypeOK ==
  /\ m_workqueue \in Seq(Request) /\ Len(m_workqueue) <= m_max_requests
  /\ m_queuestat \in Nat /\ posting \in BOOLEAN /\ accepted \in BOOLEAN /\ slips \in Nat
  /\ pc \in [Worker -> {"wait", "take", "work"}]
  /\ request \in [Worker -> Request \cup {NoRequest}]

\* Tokens: counted by the semaphore, taken by a worker on its way to the list, or
\* owed by main.  There is one for each request in the list, so none is forgotten;
\* interrupted waits take requests without a token, and what is left over, at most
\* one for each, only sends workers to an empty list (threadpool.h:77, 90, 109-115).
Tokens   == m_queuestat + Cardinality(At("take")) + (IF posting THEN 1 ELSE 0)
Balanced == Len(m_workqueue) <= Tokens /\ Tokens <= Len(m_workqueue) + slips

\* Requests are handled in the order they were accepted, each one once, and at
\* most m_max_requests wait: the queue behaves as the queue of Fifo.
F == INSTANCE Fifo WITH
  Thread <- Worker \cup {Main}, Item <- Request, NoItem <- NoRequest,
  m_max_size <- m_max_requests, queue <- m_workqueue,
  ok  <- [t \in Worker \cup {Main} |-> IF t = Main THEN accepted ELSE TRUE],
  got <- [t \in Worker \cup {Main} |-> IF t = Main THEN NoRequest ELSE request[t]]
FifoSpec == F!Spec
===============================================================================
