----------------------------- MODULE TimerService -----------------------------
(***************************************************************************)
(* What the event loop relies on: each connection descriptor has at most   *)
(* one timer, a timer is closed only when it is due, and while any timer   *)
(* is kept a SIGALRM is armed, in the pipe or being handled.  HeapTimers   *)
(* is the implementation with the heap, and EventLoop's variable timer is  *)
(* the variable timer of this module.                                      *)
(*                                                                         *)
(* "kept" says that the heap is not empty: it can hold cancelled timers.   *)
(***************************************************************************)
EXTENDS Integers

CONSTANT Fd

VARIABLES
  timer,      \* "null", "fresh" or "due"
  kept,       \* the heap holds a timer
  armed,      \* alarm() is running
  pipe,       \* SIGALRM is in the signal pipe
  timeout,    \* SIGALRM was read and timer_handler is still to be called
  m_noalarm

vars == <<timer, kept, armed, pipe, timeout, m_noalarm>>

Init == /\ timer = [f \in Fd |-> "null"] /\ kept = FALSE
        /\ armed = FALSE /\ pipe = FALSE /\ timeout = FALSE /\ m_noalarm = TRUE

Add(f) ==
  /\ timer[f] = "null" /\ timer' = [timer EXCEPT ![f] = "fresh"] /\ kept' = TRUE
  /\ armed' = (armed \/ m_noalarm) /\ m_noalarm' = FALSE
  /\ UNCHANGED <<pipe, timeout>>

Adjust(f) ==
  /\ timer[f] # "null" /\ timer' = [timer EXCEPT ![f] = "fresh"]
  /\ UNCHANGED <<kept, armed, pipe, timeout, m_noalarm>>

Delete(f) ==
  /\ timer[f] # "null" /\ timer' = [timer EXCEPT ![f] = "null"]
  /\ UNCHANGED <<kept, armed, pipe, timeout, m_noalarm>>

\* some timeouts elapse, and the alarm may go off
Elapse(S) ==
  /\ \A f \in S : timer[f] = "fresh"
  /\ timer' = [f \in Fd |-> IF f \in S THEN "due" ELSE timer[f]]
  /\ \/ armed /\ armed' = FALSE /\ pipe' = TRUE
     \/ UNCHANGED <<armed, pipe>>
  /\ UNCHANGED <<kept, timeout, m_noalarm>>

ReadSignal ==
  /\ pipe /\ pipe' = FALSE /\ timeout' = TRUE /\ m_noalarm' = TRUE
  /\ UNCHANGED <<timer, kept, armed>>

\* timer_handler closes some of the due timers and arms the alarm again unless
\* the heap is empty
Handle(S) ==
  /\ timeout /\ timeout' = FALSE
  /\ \A f \in S : timer[f] = "due"
  /\ timer' = [f \in Fd |-> IF f \in S THEN "null" ELSE timer[f]]
  /\ kept' \in BOOLEAN /\ (kept' => kept)
  /\ \A f \in Fd : timer'[f] # "null" => kept'
  /\ armed' = (kept' \/ armed) /\ m_noalarm' = (m_noalarm /\ ~kept')
  /\ UNCHANGED pipe

Next == \/ \E f \in Fd : Add(f) \/ Adjust(f) \/ Delete(f)
        \/ \E S \in SUBSET Fd : Elapse(S) \/ Handle(S)
        \/ ReadSignal

Spec == Init /\ [][Next]_vars

\* A due timer is closed, postponed or deleted in the end.  The service does not
\* promise this: HeapTimers may pass over a timer while others are postponed again
\* and again.
DueHandled == \A f \in Fd : (timer[f] = "due") ~> (timer[f] # "due")

-----------------------------------------------------------------------------
TypeOK == /\ timer \in [Fd -> {"null", "fresh", "due"}]
          /\ kept \in BOOLEAN /\ armed \in BOOLEAN /\ pipe \in BOOLEAN
          /\ timeout \in BOOLEAN /\ m_noalarm \in BOOLEAN

\* While a timer is kept somebody will call timer_handler: the alarm runs, its
\* signal is in the pipe, or it has been read (utils.cpp:67-84, 107-120,
\* webserver.cpp:259-265).  Otherwise idle connections would never be closed.
AlarmPending == kept => armed \/ pipe \/ timeout

\* Every slot in use has its timer in the heap.
SlotsKept == \A f \in Fd : timer[f] # "null" => kept
=============================================================================
