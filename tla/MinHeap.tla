------------------------------- MODULE MinHeap -------------------------------
(***************************************************************************)
(* The array operations of class min_heap (timer/minheap_timer.cpp).  A    *)
(* heap is a sequence of timers; position i here is index i-1 there, so    *)
(* the children of i are 2i and 2i+1.  key[t] is t->expire.  The code      *)
(* moves a hole and stores the timer once; here the timer moves with it.   *)
(***************************************************************************)
EXTENDS Integers, Sequences, SequencesExt

Swap(h, i, j) == [h EXCEPT ![i] = h[j], ![j] = h[i]]

\* position the down-sifting compares with: the smaller child, the left one if equal
SmallerChild(h, i, key) ==
  IF 2 * i < Len(h) /\ key[h[2 * i + 1]] < key[h[2 * i]] THEN 2 * i + 1 ELSE 2 * i

\* an array of timers and the position of the one that moves in it
Moving(key) == {s \in Seq(DOMAIN key) \X Nat : s[2] \in DOMAIN s[1]}

\* perocolate_down(hole)
perocolate_down(heap, hole, key) ==
  LET down[s \in Moving(key)] ==
        LET h == s[1]  i == s[2]  child == SmallerChild(h, i, key) IN
        IF 2 * i <= Len(h) /\ key[h[child]] < key[h[i]]
        THEN down[<<Swap(h, i, child), child>>] ELSE h
  IN down[<<heap, hole>>]

\* the loop add_timer and real_adjust share: the last timer moves towards the
\* root while its parent expires later
sift_up(heap, key) ==
  LET up[s \in Moving(key)] ==
        LET h == s[1]  i == s[2] IN
        IF i = 1 \/ key[h[i \div 2]] <= key[h[i]] THEN h
        ELSE up[<<Swap(h, i, i \div 2), i \div 2>>]
  IN up[<<heap, Len(heap)>>]

add_timer(heap, t, key) == sift_up(Append(heap, t), key)

\* array[0] = array[--cur_size], then down from the root
pop_mut(heap, key) ==
  IF Len(heap) <= 1 THEN <<>> ELSE <<Last(heap)>> \o SubSeq(heap, 2, Len(heap) - 1)
pop(heap, key) ==
  IF Len(heap) <= 1 THEN <<>>
  ELSE perocolate_down(<<Last(heap)>> \o SubSeq(heap, 2, Len(heap) - 1), 1, key)

\* resize(): the array is copied to one twice as long when it is full
resized(capacity, heap) == IF Len(heap) >= capacity THEN 2 * capacity ELSE capacity

\* the root goes to the end and up again; nothing moves in a heap of one
real_adjust(heap, key) ==
  IF Len(heap) <= 1 THEN heap ELSE sift_up(Append(pop(heap, key), heap[1]), key)

\* the constructor over an array: down from the last parent to the root.  The
\* code starts at index (size-1)/2, one more than needed when size is odd.
build(array, key) ==
  LET heapify[s \in Moving(key)] ==
        LET h == perocolate_down(s[1], s[2], key)
        IN IF s[2] = 1 THEN h ELSE heapify[<<h, s[2] - 1>>]
  IN IF array = <<>> THEN <<>> ELSE heapify[<<array, (Len(array) - 1) \div 2 + 1>>]

IsHeap(h, key) == \A i \in 2..Len(h) : key[h[i \div 2]] <= key[h[i]]
=============================================================================
