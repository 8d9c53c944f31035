-------------------------------- MODULE Workers --------------------------------
(***************************************************************************)
(* The worker threads between the request queue and the table of users:    *)
(* main reads a form from a connection and appends the connection, a       *)
(* worker takes it, runs do_request on the form and goes back to the       *)
(* queue.  EPOLLONESHOT keeps main from appending a connection again       *)
(* before it was answered (EventLoop).                                     *)
(***************************************************************************)
EXTENDS RequestQueue, UserTable, Functions

CONSTANT MaxForms    \* bound: forms the clients send

ASSUME FormsAssumption == MaxForms \in Nat

VARIABLES
  asked,             \* the form of each connection in the queue or with a worker
  forms              \* forms sent so far

vars == <<queueVars, tableVars, asked, forms>>

waiting == DOMAIN asked

Init ==
  QueueInit /\ TableInit /\ asked = <<>> /\ forms = 0

\* dealwithread: a whole request was read.  When the queue is full, the result of
\* append is not looked at and the connection is left unarmed.  Connections are
\* interchangeable: any of those nobody waits on will do.
Submit(f) ==
  /\ Request \ waiting # {} /\ forms < MaxForms /\ forms' = forms + 1
  /\ LET r == CHOOSE r \in Request \ waiting : TRUE IN
       /\ append(r)
       /\ asked' = IF accepted'
                   THEN [x \in waiting \cup {r} |-> IF x = r THEN f ELSE asked[x]] ELSE asked
  /\ UNCHANGED tableVars

QueueOnly == (Post \/ \E w \in Worker : Wait(w) \/ WaitInterrupted(w) \/ TakeNone(w))
             /\ UNCHANGED <<tableVars, asked, forms>>

Serve(w) ==
  /\ Take(w) /\ Begin(w, asked[Head(m_workqueue)]) /\ UNCHANGED <<asked, forms>>

Work(w) == pc[w] = "work" /\ TableStep(w) /\ UNCHANGED <<queueVars, asked, forms>>

Answer(w) ==
  /\ Done(w) /\ Reply(w) /\ asked' = Restrict(asked, waiting \ {request[w]})
  /\ UNCHANGED forms

Restart ==
  /\ QueueRestart /\ TableRestart /\ asked' = <<>> /\ UNCHANGED forms

Next == \/ \E f \in Forms : Submit(f)
        \/ QueueOnly
        \/ \E w \in Worker : Serve(w) \/ Work(w) \/ Answer(w)
        \/ Restart

Spec == Init /\ [][Next]_vars

\* Threads run, and a thread that waits for m_lock gets it in the end.
FairSpec ==
  /\ Spec /\ WF_vars(QueueOnly)
  /\ \A w \in Worker : WF_vars(Serve(w)) /\ SF_vars(Work(w)) /\ WF_vars(Answer(w))

-----------------------------------------------------------------------------
\* Who waits for an answer is in the queue or with exactly one worker, and a worker
\* is in do_request exactly when it has such a connection (threadpool.h:105-156).
EachServedOnce ==
  /\ \A r \in waiting :
       Cardinality({i \in DOMAIN m_workqueue : m_workqueue[i] = r})
         + Cardinality({w \in At("work") : request[w] = r}) = 1
  /\ \A w \in Worker : pc[w] = "work" <=> at[w] # "idle"

\* Every connection the queue accepted is answered once the clients are quiet, or
\* the process ends: none is left behind by the semaphore, and the lock is always
\* released (threadpool.h:77, 108-156, http_conn.cpp:435-438).
Answered == forms = MaxForms ~> waiting = {}
===============================================================================
