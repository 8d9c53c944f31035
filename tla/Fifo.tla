--------------------------------- MODULE Fifo ---------------------------------
(***************************************************************************)
(* What block_queue promises the threads that share it: a FIFO queue of at *)
(* most m_max_size items.  A push into a full queue fails and changes      *)
(* nothing; a pop that succeeds takes the oldest item; only a pop with a   *)
(* time limit may fail.                                                    *)
(***************************************************************************)
EXTENDS Integers, Sequences

CONSTANTS
  Thread, Item,
  NoItem,       \* what a caller's variable holds at first
  m_max_size

VARIABLES
  queue,
  ok,     \* per thread: the value its last call returned
  got     \* per thread: the item its last pop, or back, stored

vars == <<queue, ok, got>>

Init == queue = <<>> /\ ok = [t \in Thread |-> TRUE] /\ got = [t \in Thread |-> NoItem]

Returns(t, b) == ok' = [ok EXCEPT ![t] = b]

push(t, x) ==
  \/ /\ Len(queue) < m_max_size /\ Returns(t, TRUE)
     /\ queue' = Append(queue, x) /\ UNCHANGED got
  \/ Len(queue) >= m_max_size /\ Returns(t, FALSE) /\ UNCHANGED <<queue, got>>

pop_mut(t) ==   \* the newest first
  /\ queue # <<>> /\ Returns(t, TRUE)
  /\ got' = [got EXCEPT ![t] = queue[Len(queue)]]
  /\ queue' = SubSeq(queue, 1, Len(queue) - 1)

pop(t) ==
  /\ queue # <<>> /\ Returns(t, TRUE)
  /\ got' = [got EXCEPT ![t] = Head(queue)] /\ queue' = Tail(queue)

GiveUp(t) == Returns(t, FALSE) /\ UNCHANGED <<queue, got>>

back(t) ==
  /\ queue # <<>> /\ Returns(t, TRUE)
  /\ got' = [got EXCEPT ![t] = queue[Len(queue)]] /\ UNCHANGED queue

full(t) == Returns(t, Len(queue) >= m_max_size) /\ UNCHANGED <<queue, got>>

clear == queue' = <<>> /\ UNCHANGED <<ok, got>>

Next == \/ \E t \in Thread : \/ \E x \in Item : push(t, x)
                             \/ pop(t) \/ GiveUp(t) \/ back(t) \/ full(t)
        \/ clear

Spec == Init /\ [][Next]_vars
===============================================================================
