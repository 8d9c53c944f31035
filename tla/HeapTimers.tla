------------------------------ MODULE HeapTimers ------------------------------
(***************************************************************************)
(* The timers of the server: min_heap, the wrappers of Utils around it and *)
(* alarm().  Times are relative: left[t] is t->expire - time(NULL).  The   *)
(* main thread is the only one that touches this state; it adds, adjusts   *)
(* and deletes timers in any order between two reads of the signal pipe.   *)
(***************************************************************************)
EXTENDS MinHeap, FiniteSets, FiniteSetsExt

CONSTANTS
  Timer,      \* bound: timer objects alive at a time, cancelled ones included
  Fd,         \* connection descriptors
  NoTimer, NoFd,
  TIMESLOT,   \* a timer runs 3 * TIMESLOT seconds
  MaxLate,    \* bound: how late a timer can be told to be
  Prompt      \* assumption: handling a signal takes no time

ASSUME TimerConstants ==
  /\ NoTimer \notin Timer /\ NoFd \notin Fd /\ TIMESLOT \in Nat \ {0}
  /\ MaxLate \in Nat /\ Prompt \in BOOLEAN

VARIABLES
  heap,       \* array[0..cur_size-1]
  left,       \* expire, relative to now
  adjusted,
  user_data,  \* the descriptor a timer belongs to; NoFd also stands for cb_func = NULL
  slot,       \* users_data[fd].timer
  alarm,      \* seconds until SIGALRM, 0 when no alarm is set
  m_noalarm, pipe, timeout

vars == <<heap, left, adjusted, user_data, slot, alarm, m_noalarm, pipe, timeout>>
timerVars == <<heap, left, adjusted, user_data, slot>>

Delay == 3 * TIMESLOT
Live  == {t \in ToSet(heap) : user_data[t] # NoFd}

Init ==
  /\ heap = <<>> /\ left = [t \in Timer |-> 0] /\ adjusted = [t \in Timer |-> FALSE]
  /\ user_data = [t \in Timer |-> NoFd] /\ slot = [f \in Fd |-> NoTimer]
  /\ alarm = 0 /\ m_noalarm = TRUE /\ pipe = FALSE /\ timeout = FALSE

-----------------------------------------------------------------------------
\* Utils::add_timer
AddTimer_mut(f, t) ==    \* sets the alarm anew for every timer
  /\ slot[f] = NoTimer /\ t \notin ToSet(heap)
  /\ alarm' = Delay
  /\ m_noalarm' = FALSE
  /\ left' = [left EXCEPT ![t] = Delay] /\ adjusted' = [adjusted EXCEPT ![t] = FALSE]
  /\ user_data' = [user_data EXCEPT ![t] = f] /\ slot' = [slot EXCEPT ![f] = t]
  /\ heap' = add_timer(heap, t, left')
  /\ UNCHANGED <<pipe, timeout>>

AddTimer(f, t) ==
  /\ slot[f] = NoTimer /\ t \notin ToSet(heap)
  /\ alarm' = IF m_noalarm THEN Delay ELSE alarm
  /\ m_noalarm' = FALSE
  /\ left' = [left EXCEPT ![t] = Delay] /\ adjusted' = [adjusted EXCEPT ![t] = FALSE]
  /\ user_data' = [user_data EXCEPT ![t] = f] /\ slot' = [slot EXCEPT ![f] = t]
  /\ heap' = add_timer(heap, t, left')
  /\ UNCHANGED <<pipe, timeout>>

\* Utils::adjust_timer: the timer keeps its place in the heap
AdjustTimer(f) ==
  /\ slot[f] # NoTimer
  /\ left' = [left EXCEPT ![slot[f]] = Delay]
  /\ adjusted' = [adjusted EXCEPT ![slot[f]] = TRUE]
  /\ UNCHANGED <<heap, user_data, slot, alarm, m_noalarm, pipe, timeout>>

\* WebServer::del_timer: cb_func, then min_heap::del_timer; the timer stays in the heap
DelTimer_mut(f) ==       \* min_heap::del_timer forgets user_data = NULL
  /\ slot[f] # NoTimer
  /\ slot' = [slot EXCEPT ![f] = NoTimer]
  /\ adjusted' = [adjusted EXCEPT ![slot[f]] = FALSE]
  /\ UNCHANGED <<heap, left, user_data, alarm, m_noalarm, pipe, timeout>>
DelTimer(f) ==
  /\ slot[f] # NoTimer
  /\ slot' = [slot EXCEPT ![f] = NoTimer]
  /\ user_data' = [user_data EXCEPT ![slot[f]] = NoFd]
  /\ adjusted' = [adjusted EXCEPT ![slot[f]] = FALSE]
  /\ UNCHANGED <<heap, left, alarm, m_noalarm, pipe, timeout>>

\* one second
Passed(t) == IF left[t] > -MaxLate THEN left[t] - 1 ELSE left[t]
Second ==
  /\ Prompt => ~pipe /\ ~timeout
  /\ left' = [t \in Timer |-> IF t \in ToSet(heap) THEN Passed(t) ELSE left[t]]
  /\ alarm' = IF alarm = 0 THEN 0 ELSE alarm - 1
  /\ pipe' = (pipe \/ alarm = 1)
  /\ UNCHANGED <<heap, adjusted, user_data, slot, m_noalarm, timeout>>

\* SIGALRM in dealwithsignal
ReadSignal ==
  /\ pipe /\ pipe' = FALSE /\ timeout' = TRUE /\ m_noalarm' = TRUE
  /\ UNCHANGED <<timerVars, alarm>>

-----------------------------------------------------------------------------
\* Timers are due one second before they expire: alarm() counts whole seconds.
Due(t) == left[t] <= 1

\* min_heap::tick: pop the root while it is due.  A root that is not due ends
\* the loop, after real_adjust if it was postponed: tmp still points at it.
Drained ==
  LET rest[h \in Seq(Timer)] == IF h # <<>> /\ Due(h[1]) THEN rest[pop(h, left)] ELSE h
  IN rest[heap]

Ticked(h) ==
  IF h # <<>> /\ adjusted[h[1]]
  THEN [array |-> real_adjust(h, left), moved |-> {h[1]}]
  ELSE [array |-> h, moved |-> {}]

\* timer_handler: tick, then the alarm for the timer now at the root
timer_handler_mut ==     \* alarm(0), no alarm, when the root expires now
  /\ timeout /\ timeout' = FALSE
  /\ LET ticked == Ticked(Drained)
         closed == ToSet(heap) \ ToSet(ticked.array) IN
       /\ heap' = ticked.array
       /\ adjusted' = [t \in Timer |-> adjusted[t] /\ t \notin ticked.moved /\ t \notin closed]
       /\ slot' = [f \in Fd |-> IF \E t \in closed : user_data[t] = f THEN NoTimer ELSE slot[f]]
       /\ user_data' = [t \in Timer |-> IF t \in closed THEN NoFd ELSE user_data[t]]
       /\ left' = [t \in Timer |-> IF t \in closed THEN 0 ELSE left[t]]
  /\ IF heap' = <<>> THEN UNCHANGED <<alarm, m_noalarm>>
     ELSE alarm' = Max({left[heap'[1]], 0}) /\ m_noalarm' = FALSE
  /\ UNCHANGED pipe

timer_handler ==
  /\ timeout /\ timeout' = FALSE
  /\ LET ticked == Ticked(Drained)
         closed == ToSet(heap) \ ToSet(ticked.array) IN
       /\ heap' = ticked.array
       /\ adjusted' = [t \in Timer |-> adjusted[t] /\ t \notin ticked.moved /\ t \notin closed]
       /\ slot' = [f \in Fd |-> IF \E t \in closed : user_data[t] = f THEN NoTimer ELSE slot[f]]
       /\ user_data' = [t \in Timer |-> IF t \in closed THEN NoFd ELSE user_data[t]]
       /\ left' = [t \in Timer |-> IF t \in closed THEN 0 ELSE left[t]]
  /\ IF heap' = <<>> THEN UNCHANGED <<alarm, m_noalarm>>
     ELSE alarm' = Max({left[heap'[1]] + 1, 1}) /\ m_noalarm' = FALSE
  /\ UNCHANGED pipe

Next ==
  \/ \E f \in Fd : (\E t \in Timer : AddTimer(f, t)) \/ AdjustTimer(f) \/ DelTimer(f)
  \/ Second \/ ReadSignal \/ timer_handler

Spec == Init /\ [][Next]_vars

\* Time passes, and the main thread reads the pipe and ends its batches.
FairSpec == Spec /\ WF_vars(Second) /\ WF_vars(ReadSignal) /\ WF_vars(timer_handler)

-----------------------------------------------------------------------------
\* A slot points at a timer in the heap that belongs to it, never at one that was
\* destroyed, and every timer with a callback is in its descriptor's slot
\* (~minheap_timer, minheap_timer.h:24-33).
SlotsMatchTimers ==
  /\ \A f \in Fd : slot[f] # NoTimer => slot[f] \in Live /\ user_data[slot[f]] = f
  /\ \A t \in Live : slot[user_data[t]] = t

\* tick takes the root for the earliest timer (minheap_timer.cpp:153-170).  While the
\* heap is in order it is: the alarm rings at most a second after any timer expires,
\* tick leaves none that is due, and nothing but a postponement, which leaves a timer
\* at its old place, puts the heap out of order.
InTimeWhenOrdered ==
  /\ [](IsHeap(heap, left) /\ ~pipe /\ ~timeout =>
          \A t \in Live : alarm <= 1 \/ alarm <= left[t] + 1)
  /\ [][IsHeap(heap, left) =>
          /\ timer_handler => \A t \in Live' : ~Due(t)'
          /\ IsHeap(heap', left') \/ \E f \in Fd : AdjustTimer(f)]_vars

\* The heap, its wrappers and the alarm keep the promise of TimerService.
Service == INSTANCE TimerService WITH
  timer <- [f \in Fd |-> IF slot[f] = NoTimer THEN "null"
                         ELSE IF Due(slot[f]) THEN "due" ELSE "fresh"],
  kept  <- heap # <<>>,
  armed <- alarm > 0
ServiceSpec == Service!Spec

\* A due timer is handled in the end, if from some time on no timer is postponed.
\* tick handles what it meets at the root, and a postponed timer keeps its place.
DueHandled          == Service!DueHandled
DueHandledOnceQuiet == <>[][~\E f \in Fd : AdjustTimer(f)]_vars => DueHandled
=============================================================================
