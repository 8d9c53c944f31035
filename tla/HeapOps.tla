------------------------------ MODULE HeapOps ------------------------------
(***************************************************************************)
(* A min_heap on its own: built from any array of timers and driven        *)
(* through its operations the way tick() and add_timer use them.  Here the *)
(* keys stand still but for the timer at the root, so it stays in order.   *)
(***************************************************************************)
EXTENDS MinHeap, FiniteSets, FiniteSetsExt

CONSTANTS
  Member,   \* timers that can be in the heap
  MaxKey    \* bound: keys are 0..MaxKey

ASSUME OpsAssumption == IsFiniteSet(Member) /\ MaxKey \in Nat

VARIABLES array, expire, capacity
opsVars == <<array, expire, capacity>>

Arrays == {a \in UNION {[1..n -> Member] : n \in 0..Cardinality(Member)} :
             \A i, j \in DOMAIN a : a[i] = a[j] => i = j}

OpsInit == /\ expire \in [Member -> 0..MaxKey]
           /\ \E a \in Arrays : array = build(a, expire)
           /\ capacity = Max({Len(array), 1})

Add == \E t \in Member \ ToSet(array) :
         /\ array' = add_timer(array, t, expire) /\ capacity' = resized(capacity, array)
         /\ UNCHANGED expire

Pop == array # <<>> /\ array' = pop(array, expire) /\ UNCHANGED <<expire, capacity>>

\* the timer at the root has been postponed, and tick moves it
Postpone == /\ array # <<>>
            /\ \E k \in expire[array[1]]..MaxKey : expire' = [expire EXCEPT ![array[1]] = k]
            /\ array' = real_adjust(array, expire') /\ UNCHANGED capacity

OpsNext == Add \/ Pop \/ Postpone
OpsSpec == OpsInit /\ [][OpsNext]_opsVars

-----------------------------------------------------------------------------
\* The operations leave a min-heap when they are given one, and lose or duplicate
\* no timer: pop removes the root, which is a minimum, add_timer adds its argument,
\* real_adjust keeps all, and none of them writes beyond the array
\* (minheap_timer.cpp:55-218).
ExactStep ==
  /\ IsHeap(array', expire') /\ Len(array') <= capacity'
  /\ Len(array') = Cardinality(ToSet(array'))
  /\ \/ ToSet(array') = ToSet(array)
     \/ ToSet(array) \subseteq ToSet(array') /\ Len(array') = Len(array) + 1
     \/ /\ ToSet(array') = ToSet(array) \ {array[1]} /\ Len(array') = Len(array) - 1
        /\ \A i \in DOMAIN array : expire[array[1]] <= expire[array[i]]
Exact == [][ExactStep]_opsVars
=============================================================================
