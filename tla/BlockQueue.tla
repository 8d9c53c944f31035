------------------------------ MODULE BlockQueue ------------------------------
(***************************************************************************)
(* block_queue (log/block_queue.h): a ring of m_max_size cells under a     *)
(* mutex with one condition variable.  A critical section is one step; the *)
(* wait on the condition variable divides a pop in several.  Any thread    *)
(* calls any operation.                                                    *)
(***************************************************************************)
EXTENDS Integers, Sequences

CONSTANTS
  Thread, Item,
  NoItem,       \* what a cell and a caller's variable hold at first
  m_max_size

ASSUME SizeAssumption == m_max_size \in Nat \ {0}   \* else the constructor exits

VARIABLES
  m_array, m_size, m_front, m_back,
  pc,           \* per thread: outside, in cond.wait, or on its way back from it
  ok, got       \* per thread: value returned and item stored by its last call

ring == <<m_array, m_size, m_front, m_back>>
vars == <<ring, pc, ok, got>>

Cell    == 0..(m_max_size - 1)
Next1(i) == (i + 1) % m_max_size

Init ==
  /\ m_array = [i \in Cell |-> NoItem] /\ m_size = 0 /\ m_front = -1 /\ m_back = -1
  /\ pc = [t \in Thread |-> "out"]
  /\ ok = [t \in Thread |-> TRUE] /\ got = [t \in Thread |-> NoItem]

Goto(t, l)    == pc' = [pc EXCEPT ![t] = l]
Returns(t, b) == ok' = [ok EXCEPT ![t] = b]

-----------------------------------------------------------------------------
\* cond.broadcast
Woken == [wait |-> "woken", timedwait |-> "timedwoken"]
broadcast_mut == UNCHANGED pc
broadcast ==
  pc' = [t \in Thread |-> IF pc[t] \in DOMAIN Woken THEN Woken[pc[t]] ELSE pc[t]]

push_mut(t, x) ==   \* fills the cell m_back points at, then moves on
  /\ pc[t] = "out" /\ broadcast
  /\ \/ /\ m_size < m_max_size /\ Returns(t, TRUE)
        /\ m_array' = [m_array EXCEPT ![IF m_back = -1 THEN 0 ELSE m_back] = x]
        /\ m_back' = Next1(m_back) /\ m_size' = m_size + 1
     \/ m_size >= m_max_size /\ Returns(t, FALSE) /\ UNCHANGED <<m_array, m_size, m_back>>
  /\ UNCHANGED <<m_front, got>>

push(t, x) ==
  /\ pc[t] = "out" /\ broadcast
  /\ \/ /\ m_size < m_max_size /\ Returns(t, TRUE)
        /\ m_back' = Next1(m_back)
        /\ m_array' = [m_array EXCEPT ![Next1(m_back)] = x] /\ m_size' = m_size + 1
     \/ m_size >= m_max_size /\ Returns(t, FALSE) /\ UNCHANGED <<m_array, m_size, m_back>>
  /\ UNCHANGED <<m_front, got>>

-----------------------------------------------------------------------------
\* the end of both pops
Remove(t) ==
  /\ m_size > 0
  /\ m_front' = Next1(m_front) /\ got' = [got EXCEPT ![t] = m_array[Next1(m_front)]]
  /\ m_size' = m_size - 1 /\ Returns(t, TRUE) /\ Goto(t, "out")
  /\ UNCHANGED <<m_array, m_back>>

Sleep(t, l) == m_size <= 0 /\ Goto(t, l) /\ UNCHANGED <<ring, ok, got>>
Fail(t)     == Returns(t, FALSE) /\ Goto(t, "out") /\ UNCHANGED <<ring, got>>

\* pop(item): the test is repeated after every wakeup; the wait itself does not fail
pop(t) == pc[t] \in {"out", "woken"} /\ (Remove(t) \/ Sleep(t, "wait"))

\* pop(item, ms_timeout): the test is made once more after the wakeup, and not
\* at all after the time limit
TimedPop(t) == pc[t] = "out" /\ (Remove(t) \/ Sleep(t, "timedwait"))

TimedPopWoken(t) == pc[t] = "timedwoken" /\ (Remove(t) \/ (m_size <= 0 /\ Fail(t)))
TimedPopLate(t)  == pc[t] = "timedout" /\ Fail(t)

\* the time limit passes, and POSIX allows a wait to return for no reason
Expire(t)   == pc[t] = "timedwait" /\ Goto(t, "timedout") /\ UNCHANGED <<ring, ok, got>>
Spurious(t) == /\ pc[t] \in DOMAIN Woken /\ Goto(t, Woken[pc[t]])
               /\ UNCHANGED <<ring, ok, got>>

-----------------------------------------------------------------------------
\* back(value); an empty queue gives FALSE
back(t) ==
  /\ pc[t] = "out"
  /\ \/ /\ m_size # 0 /\ Returns(t, TRUE) /\ got' = [got EXCEPT ![t] = m_array[m_back]]
        /\ UNCHANGED <<ring, pc>>
     \/ m_size = 0 /\ Fail(t)

full(t) == pc[t] = "out" /\ Returns(t, m_size >= m_max_size) /\ UNCHANGED <<ring, pc, got>>

clear(t) ==
  /\ pc[t] = "out" /\ m_size' = 0 /\ m_front' = -1 /\ m_back' = -1
  /\ UNCHANGED <<m_array, pc, ok, got>>

Step(t) == \/ \E x \in Item : push(t, x)
           \/ pop(t) \/ TimedPop(t) \/ TimedPopWoken(t) \/ TimedPopLate(t)
           \/ Expire(t) \/ Spurious(t) \/ back(t) \/ full(t) \/ clear(t)

Next == \E t \in Thread : Step(t)

Spec == Init /\ [][Next]_vars

-----------------------------------------------------------------------------
TypeOK ==
  /\ m_array \in [Cell -> Item \cup {NoItem}]
  /\ m_size \in 0..m_max_size /\ m_front \in -1..(m_max_size - 1)
  /\ m_back \in -1..(m_max_size - 1)
  /\ pc \in [Thread -> {"out", "wait", "woken", "timedwait", "timedwoken", "timedout"}]
  /\ ok \in [Thread -> BOOLEAN] /\ got \in [Thread -> Item \cup {NoItem}]

\* The three indices agree at every wrap, and after a clear: m_back is m_size
\* cells after m_front (block_queue.h:38-39, 139, 163, 194).
RingAgrees == m_back = IF m_back = -1 THEN m_front ELSE (m_front + m_size) % m_max_size

\* No thread stays in its wait while there is something to pop: every push wakes
\* all, and a thread goes to wait only when the queue is empty (block_queue.h:144,
\* 153-161, 177-186).
NoLostWakeup == m_size > 0 => \A t \in Thread : pc[t] \notin DOMAIN Woken

\* The ring behaves as a bounded FIFO queue.
F == INSTANCE Fifo WITH
  queue <- [i \in 1..m_size |-> m_array[(m_front + i) % m_max_size]]
FifoSpec == F!Spec
===============================================================================
