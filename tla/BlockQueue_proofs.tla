-------------------------- MODULE BlockQueue_proofs --------------------------
(***************************************************************************)
(* For any number of threads and any size of the ring: types, the          *)
(* agreement of the indices, no lost wakeup, and the FIFO promise.         *)
(***************************************************************************)
EXTENDS BlockQueue, SequenceTheorems, TLAPS

\* The ring is as after a clear exactly when no index has moved.
Fresh == (m_back = -1) <=> (m_front = -1 /\ m_size = 0)

IndInv == TypeOK /\ RingAgrees /\ NoLostWakeup /\ Fresh

-----------------------------------------------------------------------------
\* One wrap of a ring index (block_queue.h:139, 163, 194).
LEMMA Wrap == ASSUME NEW m \in Nat \ {0}, NEW i \in -1..m-1, NEW n \in 0..m, i + n >= 0
              PROVE  (i + n) % m = IF i + n < m THEN i + n ELSE i + n - m
BY SMTT(60)

\* The cells of the items, and of the one after the last, in plain arithmetic.
LEMMA Slots == ASSUME NEW f \in -1..(m_max_size - 1), NEW i \in 1..m_max_size
               PROVE  /\ (f + i) % m_max_size \in Cell
                      /\ (f + i) % m_max_size = IF f + i < m_max_size THEN f + i
                                                ELSE f + i - m_max_size
<1>0. f + i >= 0 /\ i \in 0..m_max_size  BY SizeAssumption
<1>1. (f + i) % m_max_size = IF f + i < m_max_size THEN f + i ELSE f + i - m_max_size
  BY <1>0, Wrap, SizeAssumption
<1>. QED  BY <1>1, SizeAssumption DEF Cell

\* The index after i, in plain arithmetic.
LEMMA Nexts == ASSUME NEW i \in -1..(m_max_size - 1)
               PROVE  /\ Next1(i) \in Cell
                      /\ Next1(i) = IF i + 1 = m_max_size THEN 0 ELSE i + 1
<1>1. 1 \in 1..m_max_size  BY SizeAssumption
<1>2. /\ (i + 1) % m_max_size \in Cell
      /\ (i + 1) % m_max_size = IF i + 1 < m_max_size THEN i + 1 ELSE i + 1 - m_max_size
  BY <1>1, Slots
<1>. QED  BY <1>2, SizeAssumption DEF Next1

\* The arithmetic of RingAgrees, for indices in their range.
LEMMA Agree ==
  ASSUME NEW f \in -1..(m_max_size - 1), NEW n \in 0..m_max_size, NEW b, f + n >= 0
  PROVE  b = (f + n) % m_max_size <=>
         b = IF f + n < m_max_size THEN f + n ELSE f + n - m_max_size
BY Wrap, SizeAssumption

\* The indices agree in plain arithmetic.
LEMMA Backs == ASSUME IndInv, m_back # -1
               PROVE  m_back = IF m_front + m_size < m_max_size THEN m_front + m_size
                               ELSE m_front + m_size - m_max_size
<1>1. /\ m_front \in -1..(m_max_size - 1) /\ m_size \in 0..m_max_size
      /\ m_front + m_size >= 0
  BY SizeAssumption DEF IndInv, TypeOK, Fresh
<1>. QED  BY <1>1, Agree DEF IndInv, RingAgrees

\* The invariant holds at first.
LEMMA InitInv == Init => IndInv
BY SizeAssumption
   DEF Init, IndInv, TypeOK, RingAgrees, NoLostWakeup, Fresh, Cell, Woken

\* push: one more item behind m_back, and everybody awake.
LEMMA PushInv == ASSUME IndInv, NEW t \in Thread, NEW x \in Item, push(t, x)
                 PROVE  IndInv'
<1>. USE DEF IndInv
<1>1. \A u \in Thread : pc'[u] \notin DOMAIN Woken
  BY DEF push, broadcast, Woken, TypeOK
<1>2. pc' \in [Thread -> {"out", "wait", "woken", "timedwait", "timedwoken", "timedout"}]
  BY DEF push, broadcast, Woken, TypeOK
<1>3. CASE m_size >= m_max_size
  <2>1. UNCHANGED <<ring, got>> /\ ok' = [ok EXCEPT ![t] = FALSE]
    BY <1>3, SizeAssumption DEF push, Returns, ring, TypeOK
  <2>. QED  BY <1>1, <1>2, <2>1 DEF TypeOK, RingAgrees, NoLostWakeup, Fresh, ring, Cell
<1>4. CASE m_size < m_max_size
  <2>1. /\ m_back' = Next1(m_back) /\ m_array' = [m_array EXCEPT ![Next1(m_back)] = x]
        /\ m_size' = m_size + 1 /\ UNCHANGED <<m_front, got>>
        /\ ok' = [ok EXCEPT ![t] = TRUE]
    BY <1>4, SizeAssumption DEF push, Returns, TypeOK
  <2>2. m_back' \in Cell /\ m_back' = IF m_back + 1 = m_max_size THEN 0 ELSE m_back + 1
    BY <2>1, Nexts DEF TypeOK
  <2>3. TypeOK'  BY <1>2, <1>4, <2>1, <2>2, SizeAssumption DEF TypeOK, Cell
  <2>4. m_back' = IF m_front' + m_size' < m_max_size THEN m_front' + m_size'
                  ELSE m_front' + m_size' - m_max_size
    <3>1. CASE m_back = -1
      BY <3>1, <1>4, <2>1, <2>2, SizeAssumption DEF Fresh, TypeOK
    <3>2. CASE m_back # -1
      BY <3>2, <1>4, <2>1, <2>2, Backs, SizeAssumption DEF TypeOK, Cell
    <3>. QED  BY <3>1, <3>2
  <2>5. RingAgrees'
    <3>1. /\ m_front' \in -1..(m_max_size - 1) /\ m_size' \in 0..m_max_size
          /\ m_front' + m_size' >= 0 /\ m_back' # -1
      BY <2>1, <2>2, <2>3 DEF TypeOK, Cell
    <3>. QED  BY <2>2, <2>4, <3>1, Agree DEF RingAgrees
  <2>6. Fresh'  BY <2>1, <2>2 DEF Fresh, TypeOK, Cell
  <2>. QED  BY <1>1, <2>3, <2>5, <2>6 DEF NoLostWakeup
<1>. QED  BY <1>3, <1>4, SizeAssumption DEF TypeOK

\* The successful end of a pop: one item less before m_front.
LEMMA RemoveInv == ASSUME IndInv, NEW t \in Thread, Remove(t)
                   PROVE  IndInv'
<1>. USE DEF IndInv
<1>1. m_front' \in Cell /\ m_front' = IF m_front + 1 = m_max_size THEN 0 ELSE m_front + 1
  BY Nexts DEF TypeOK, Remove
<1>2. m_back # -1  BY DEF Remove, Fresh, TypeOK
<1>3. m_array[Next1(m_front)] \in Item \cup {NoItem}
  BY <1>1, SizeAssumption DEF Remove, TypeOK
<1>4. TypeOK'
  BY <1>1, <1>3, SizeAssumption DEF Remove, Returns, Goto, TypeOK, Cell
<1>5. m_back' = IF m_front' + m_size' < m_max_size THEN m_front' + m_size'
                ELSE m_front' + m_size' - m_max_size
  BY <1>1, <1>2, Backs, SizeAssumption DEF Remove, TypeOK, Cell
<1>6. RingAgrees'
  <2>1. /\ m_front' \in -1..(m_max_size - 1) /\ m_size' \in 0..m_max_size
        /\ m_front' + m_size' >= 0 /\ m_back' \in Cell
    BY <1>1, <1>2, <1>4, SizeAssumption DEF TypeOK, Cell, Remove
  <2>2. m_back' = (m_front' + m_size') % m_max_size  BY <1>5, <2>1, Agree
  <2>. QED  BY <1>2, <2>1, <2>2 DEF RingAgrees, Remove
<1>7. NoLostWakeup'
  BY SizeAssumption DEF Remove, NoLostWakeup, Goto, Woken, TypeOK
<1>8. Fresh'  BY <1>1, <1>2 DEF Fresh, Cell, Remove
<1>. QED  BY <1>4, <1>6, <1>7, <1>8

\* A step that leaves the ring alone, where going to wait takes an empty queue.
LEMMA QuietInv ==
  ASSUME IndInv, NEW t \in Thread, UNCHANGED ring,
         ok' \in [Thread -> BOOLEAN], got' \in [Thread -> Item \cup {NoItem}],
         NEW l \in {"out", "wait", "woken", "timedwait", "timedwoken", "timedout"},
         Goto(t, l) \/ UNCHANGED pc,
         Goto(t, l) => (l \in DOMAIN Woken => m_size <= 0)
  PROVE  IndInv'
<1>. USE DEF IndInv
<1>1. TypeOK'  BY DEF TypeOK, ring, Goto, Cell
<1>2. NoLostWakeup'  BY SizeAssumption DEF NoLostWakeup, ring, Goto, Woken, TypeOK
<1>. QED  BY <1>1, <1>2 DEF RingAgrees, Fresh, ring

\* clear: as at first, whoever waits goes on waiting.
LEMMA ClearInv == ASSUME IndInv, NEW t \in Thread, clear(t)
                  PROVE  IndInv'
BY SizeAssumption
   DEF IndInv, clear, TypeOK, RingAgrees, NoLostWakeup, Fresh, Woken, Cell

\* Every step keeps the invariant.
LEMMA StepInv == IndInv /\ [Next]_vars => IndInv'
<1>. SUFFICES ASSUME IndInv, [Next]_vars PROVE IndInv'
  OBVIOUS
<1>. USE DEF IndInv
<1>0. CASE UNCHANGED vars
  BY <1>0 DEF vars, ring, TypeOK, RingAgrees, NoLostWakeup, Fresh, Cell
<1>1. CASE Next
  <2>. PICK t \in Thread : Step(t)  BY <1>1 DEF Next
  <2>1. CASE \E x \in Item : push(t, x)  BY <2>1, PushInv
  <2>2. CASE Remove(t)  BY <2>2, RemoveInv
  <2>3. ASSUME NEW l \in DOMAIN Woken, Sleep(t, l) PROVE IndInv'
    BY <2>3, QuietInv, SizeAssumption DEF Sleep, Woken, TypeOK
  <2>4. CASE Fail(t)
    <3>1. ok' \in [Thread -> BOOLEAN]  BY <2>4 DEF Fail, Returns, TypeOK
    <3>. QED  BY <2>4, <3>1, QuietInv DEF Fail, Woken, TypeOK
  <2>5. CASE Expire(t)  BY <2>5, QuietInv DEF Expire, Woken, TypeOK
  <2>6. CASE Spurious(t)  BY <2>6, QuietInv DEF Spurious, Woken, TypeOK
  <2>7. CASE back(t)
    <3>1. CASE m_size = 0  BY <2>4, <2>7, <3>1 DEF back
    <3>2. CASE m_size # 0
      <4>1. m_back \in Cell  BY <3>2, SizeAssumption DEF Fresh, TypeOK, Cell
      <4>2. /\ UNCHANGED <<ring, pc>> /\ ok' \in [Thread -> BOOLEAN]
            /\ got' \in [Thread -> Item \cup {NoItem}]
        BY <2>7, <3>2, <4>1 DEF back, Returns, TypeOK
      <4>. QED  BY <4>2, QuietInv DEF TypeOK, NoLostWakeup, RingAgrees, Fresh, ring, Cell
    <3>. QED  BY <3>1, <3>2
  <2>8. CASE full(t)
    <3>1. /\ UNCHANGED <<ring, pc>> /\ ok' \in [Thread -> BOOLEAN] /\ UNCHANGED got
      BY <2>8, SizeAssumption DEF full, Returns, TypeOK
    <3>. QED  BY <3>1 DEF TypeOK, NoLostWakeup, RingAgrees, Fresh, ring, Cell
  <2>9. CASE clear(t)  BY <2>9, ClearInv
  <2>. QED
    BY <2>1, <2>2, <2>3, <2>4, <2>5, <2>6, <2>7, <2>8, <2>9
       DEF Step, pop, TimedPop, TimedPopWoken, TimedPopLate, Woken
<1>. QED  BY <1>0, <1>1

-----------------------------------------------------------------------------
\* The n items after cell f of the array a: the queue of the refinement.
Held(a, f, n) == [i \in 1..n |-> a[(f + i) % m_max_size]]

Cells == Item \cup {NoItem}

\* They are a sequence of n items.
LEMMA HeldSeq ==
  ASSUME NEW a \in [Cell -> Cells], NEW f \in -1..(m_max_size - 1), NEW n \in 0..m_max_size
  PROVE  /\ Held(a, f, n) \in Seq(Cells) /\ Len(Held(a, f, n)) = n
         /\ \A i \in 1..n : Held(a, f, n)[i] = a[(f + i) % m_max_size]
<1>1. n \in Nat  BY SizeAssumption
<1>2. ASSUME NEW i \in 1..n PROVE a[(f + i) % m_max_size] \in Cells
  <2>1. i \in 1..m_max_size  BY SizeAssumption
  <2>. QED  BY <2>1, Slots
<1>. QED  BY <1>1, <1>2 DEF Held

\* The queue now and after a step is such a sequence.
LEMMA QueueSeq ==
  IndInv => /\ Held(m_array, m_front, m_size) \in Seq(Cells)
            /\ Len(Held(m_array, m_front, m_size)) = m_size
            /\ \A i \in 1..m_size :
                 Held(m_array, m_front, m_size)[i] = m_array[(m_front + i) % m_max_size]
BY HeldSeq DEF IndInv, TypeOK, Cells

\* Init gives the empty queue.
LEMMA InitMaps == Init => F!Init
<1>. SUFFICES ASSUME Init PROVE Held(m_array, m_front, m_size) = <<>>
  BY DEF Init, F!Init, Held
<1>1. m_size = 0  BY DEF Init
<1>. QED  BY <1>1 DEF Held

\* The cell that push fills holds none of the items of the queue.
LEMMA FreeCell == ASSUME IndInv, m_size < m_max_size, NEW i \in 1..m_size
                  PROVE  (m_front + i) % m_max_size # Next1(m_back)
<1>. USE DEF IndInv
<1>1. i \in 1..m_max_size /\ m_size \in 1..m_max_size  BY SizeAssumption DEF TypeOK
<1>2. (m_front + i) % m_max_size = IF m_front + i < m_max_size THEN m_front + i
                                   ELSE m_front + i - m_max_size
  BY <1>1, Slots DEF TypeOK
<1>3. m_back # -1  BY <1>1 DEF Fresh
<1>4. Next1(m_back) = IF m_back + 1 = m_max_size THEN 0 ELSE m_back + 1
  BY Nexts DEF TypeOK
<1>. QED  BY <1>1, <1>2, <1>3, <1>4, Backs, SizeAssumption DEF TypeOK

\* A push maps to a push.
LEMMA PushMaps == ASSUME IndInv, NEW t \in Thread, NEW x \in Item, push(t, x)
                  PROVE  F!push(t, x)
<1>. DEFINE q == Held(m_array, m_front, m_size)
<1>1. IndInv'  BY PushInv
<1>2. m_size \in 0..m_max_size /\ m_front \in -1..(m_max_size - 1)  BY DEF IndInv, TypeOK
<1>3. Len(q) = m_size /\ q \in Seq(Cells)  BY QueueSeq
<1>4. CASE m_size >= m_max_size
  <2>1. UNCHANGED <<ring, got>> /\ ok' = [ok EXCEPT ![t] = FALSE]
    BY <1>2, <1>4, SizeAssumption DEF push, Returns, ring
  <2>2. q' = q  BY <2>1 DEF ring
  <2>. QED  BY <1>3, <1>4, <2>1, <2>2 DEF F!push, F!Returns, Held
<1>5. CASE m_size < m_max_size
  <2>1. /\ m_back' = Next1(m_back) /\ m_array' = [m_array EXCEPT ![Next1(m_back)] = x]
        /\ m_size' = m_size + 1 /\ m_front' = m_front /\ got' = got
        /\ ok' = [ok EXCEPT ![t] = TRUE]
    BY <1>2, <1>5, SizeAssumption DEF push, Returns
  <2>2. /\ q' \in Seq(Cells) /\ Len(q') = m_size + 1
        /\ \A i \in 1..(m_size + 1) : q'[i] = m_array'[(m_front + i) % m_max_size]
    <3>1. m_array' \in [Cell -> Cells] /\ m_size + 1 \in 0..m_max_size
      BY <1>1, <2>1 DEF IndInv, TypeOK, Cells
    <3>2. q' = Held(m_array', m_front, m_size + 1)  BY <2>1
    <3>. QED  BY <1>2, <3>1, <3>2, HeldSeq
  <2>3. ASSUME NEW i \in 1..m_size PROVE q'[i] = q[i]
    <3>1. (m_front + i) % m_max_size # Next1(m_back)  BY <1>5, FreeCell
    <3>2. (m_front + i) % m_max_size \in Cell
      <4>1. i \in 1..m_max_size  BY <1>2, SizeAssumption
      <4>. QED  BY <1>2, <4>1, Slots
    <3>3. m_array'[(m_front + i) % m_max_size] = m_array[(m_front + i) % m_max_size]
      BY <2>1, <3>1, <3>2 DEF IndInv, TypeOK
    <3>4. i \in 1..(m_size + 1)  BY <1>2, SizeAssumption
    <3>5. q'[i] = m_array'[(m_front + i) % m_max_size]  BY <2>2, <3>4
    <3>6. q[i] = m_array[(m_front + i) % m_max_size]  BY QueueSeq
    <3>. QED  BY <3>3, <3>5, <3>6
  <2>4. q'[m_size + 1] = x
    <3>1. m_back' \in Cell  BY <1>2, <2>1, Nexts DEF IndInv, TypeOK
    <3>2. m_back' = (m_front + (m_size + 1)) % m_max_size
      BY <1>1, <2>1, <3>1, SizeAssumption DEF IndInv, RingAgrees, Cell
    <3>3. m_array'[m_back'] = x  BY <2>1, <3>1 DEF IndInv, TypeOK
    <3>4. m_size + 1 \in 1..(m_size + 1)  BY <1>2, SizeAssumption
    <3>. QED  BY <2>2, <3>2, <3>3, <3>4
  <2>5. /\ Append(q, x) \in Seq(Cells) /\ Len(Append(q, x)) = m_size + 1
        /\ \A i \in 1..m_size : Append(q, x)[i] = q[i]
        /\ Append(q, x)[m_size + 1] = x
    BY <1>3, AppendProperties DEF Cells
  <2>6. \A i \in 1..(m_size + 1) : q'[i] = Append(q, x)[i]
    BY <1>2, <2>3, <2>4, <2>5, SizeAssumption
  <2>7. q' = Append(q, x)
    <3>. HIDE DEF q
    <3>. QED  BY <2>2, <2>5, <2>6, SeqEqual
  <2>. QED  BY <1>3, <1>5, <2>1, <2>7 DEF F!push, F!Returns, Held
<1>. QED  BY <1>2, <1>4, <1>5, SizeAssumption

\* The successful end of either pop maps to a pop.
LEMMA RemoveMaps == ASSUME IndInv, NEW t \in Thread, Remove(t)
                    PROVE  F!pop(t)
<1>. DEFINE q == Held(m_array, m_front, m_size)
<1>1. IndInv'  BY RemoveInv
<1>2. m_size \in 1..m_max_size /\ m_front \in -1..(m_max_size - 1)
  BY SizeAssumption DEF IndInv, TypeOK, Remove
<1>3. Len(q) = m_size /\ q \in Seq(Cells)  BY QueueSeq
<1>4. /\ m_front' = Next1(m_front) /\ m_size' = m_size - 1 /\ m_array' = m_array
      /\ got' = [got EXCEPT ![t] = m_array[Next1(m_front)]]
      /\ ok' = [ok EXCEPT ![t] = TRUE]
  BY DEF Remove, Returns
<1>5. q # <<>>  BY <1>2, <1>3
<1>6. Head(q) = m_array[Next1(m_front)]
  <2>1. 1 \in 1..m_size  BY <1>2, SizeAssumption
  <2>2. q[1] = m_array[Next1(m_front)]  BY <2>1, QueueSeq DEF Next1
  <2>. QED  BY <1>3, <1>5, <2>2
<1>7. /\ q' \in Seq(Cells) /\ Len(q') = m_size - 1
      /\ \A i \in 1..(m_size - 1) : q'[i] = m_array[(m_front' + i) % m_max_size]
  <2>1. /\ m_array \in [Cell -> Cells] /\ m_size - 1 \in 0..m_max_size
        /\ m_front' \in -1..(m_max_size - 1)
    BY <1>1, <1>4 DEF IndInv, TypeOK, Cells
  <2>2. q' = Held(m_array, m_front', m_size - 1)  BY <1>4
  <2>. QED  BY <2>1, <2>2, HeldSeq
<1>8. ASSUME NEW i \in 1..(m_size - 1)
      PROVE  (m_front' + i) % m_max_size = (m_front + (i + 1)) % m_max_size
  <2>1. /\ m_front' \in -1..(m_max_size - 1)
        /\ m_front' = IF m_front + 1 = m_max_size THEN 0 ELSE m_front + 1
    BY <1>2, <1>4, Nexts, SizeAssumption DEF Cell
  <2>2. i \in 1..m_max_size /\ i + 1 \in 1..m_max_size  BY <1>2, SizeAssumption
  <2>3. (m_front' + i) % m_max_size = IF m_front' + i < m_max_size THEN m_front' + i
                                      ELSE m_front' + i - m_max_size
    BY <2>1, <2>2, Slots
  <2>4. (m_front + (i + 1)) % m_max_size =
          IF m_front + (i + 1) < m_max_size THEN m_front + (i + 1)
          ELSE m_front + (i + 1) - m_max_size
    BY <1>2, <2>2, Slots
  <2>. QED  BY <1>2, <2>1, <2>2, <2>3, <2>4, SizeAssumption
<1>9. /\ Tail(q) \in Seq(Cells) /\ Len(Tail(q)) = m_size - 1
      /\ \A i \in 1..(m_size - 1) : Tail(q)[i] = q[i + 1]
  <2>. HIDE DEF q
  <2>. QED  BY <1>3, <1>5, HeadTailProperties
<1>10. \A i \in 1..(m_size - 1) : q'[i] = Tail(q)[i]
  <2>. SUFFICES ASSUME NEW i \in 1..(m_size - 1) PROVE q'[i] = Tail(q)[i]
    OBVIOUS
  <2>1. i + 1 \in 1..m_size  BY <1>2, SizeAssumption
  <2>2. q[i + 1] = m_array[(m_front + (i + 1)) % m_max_size]  BY <2>1, QueueSeq
  <2>. QED  BY <1>7, <1>8, <1>9, <2>2
<1>11. q' = Tail(q)
  <2>. HIDE DEF q
  <2>. QED  BY <1>7, <1>9, <1>10, SeqEqual
<1>. QED  BY <1>4, <1>5, <1>6, <1>11 DEF F!pop, F!Returns, Held

\* Every step maps to a step of Fifo or to a stutter.
LEMMA StepMaps == IndInv /\ [Next]_vars => [F!Next]_(F!vars)
<1>. SUFFICES ASSUME IndInv, [Next]_vars PROVE [F!Next]_(F!vars)
  OBVIOUS
<1>. DEFINE q == Held(m_array, m_front, m_size)
<1>1. CASE UNCHANGED <<ring, ok, got>>
  <2>1. q' = q  BY <1>1 DEF ring
  <2>. QED  BY <1>1, <2>1 DEF F!vars, Held
<1>2. CASE Next
  <2>. PICK t \in Thread : Step(t)  BY <1>2 DEF Next
  <2>1. CASE \E x \in Item : push(t, x)  BY <2>1, PushMaps DEF F!Next
  <2>2. CASE Remove(t)  BY <2>2, RemoveMaps DEF F!Next
  <2>3. CASE Fail(t)
    <3>1. UNCHANGED <<ring, got>> /\ ok' = [ok EXCEPT ![t] = FALSE]
      BY <2>3 DEF Fail, Returns
    <3>2. q' = q  BY <3>1 DEF ring
    <3>. QED  BY <3>1, <3>2 DEF F!Next, F!GiveUp, F!Returns, Held
  <2>4. CASE back(t)
    <3>1. CASE m_size = 0  BY <2>3, <2>4, <3>1 DEF back
    <3>2. CASE m_size # 0
      <4>1. /\ UNCHANGED ring /\ ok' = [ok EXCEPT ![t] = TRUE]
            /\ got' = [got EXCEPT ![t] = m_array[m_back]]
        BY <2>4, <3>2 DEF back, Returns
      <4>2. q' = q  BY <4>1 DEF ring
      <4>3. m_size \in 1..m_size /\ m_back # -1
        BY <3>2, SizeAssumption DEF IndInv, TypeOK, Fresh
      <4>4. Len(q) = m_size /\ q[m_size] = m_array[m_back]
        BY <4>3, QueueSeq DEF IndInv, RingAgrees
      <4>5. q # <<>>  BY <3>2, <4>4
      <4>. QED  BY <4>1, <4>2, <4>4, <4>5 DEF F!Next, F!back, F!Returns, Held
    <3>. QED  BY <3>1, <3>2
  <2>5. CASE full(t)
    <3>1. UNCHANGED <<ring, got>> /\ ok' = [ok EXCEPT ![t] = m_size >= m_max_size]
      BY <2>5 DEF full, Returns
    <3>2. q' = q /\ Len(q) = m_size  BY <3>1, QueueSeq DEF ring
    <3>. QED  BY <3>1, <3>2 DEF F!Next, F!full, F!Returns, Held
  <2>6. CASE clear(t)
    <3>1. m_size' = 0 /\ UNCHANGED <<ok, got>>  BY <2>6 DEF clear
    <3>2. q' = <<>>  BY <3>1 DEF Held
    <3>. QED  BY <3>1, <3>2 DEF F!Next, F!clear, Held
  <2>7. CASE UNCHANGED <<ring, ok, got>>  BY <1>1, <2>7
  <2>. QED
    BY <2>1, <2>2, <2>3, <2>4, <2>5, <2>6, <2>7
       DEF Step, pop, TimedPop, TimedPopWoken, TimedPopLate, Sleep, Expire, Spurious
<1>. QED  BY <1>1, <1>2 DEF vars, ring

\* The invariant always holds.
THEOREM IndInvAlways == Spec => []IndInv
BY InitInv, StepInv, PTL DEF Spec

\* TypeOK: no index leaves the ring (block_queue.h:139, 163, 194).
THEOREM TypeAlwaysOK == Spec => []TypeOK
BY IndInvAlways, PTL DEF IndInv

\* RingAgrees: the three indices agree at every wrap and after a clear.
THEOREM RingAlwaysAgrees == Spec => []RingAgrees
BY IndInvAlways, PTL DEF IndInv

\* NoLostWakeup: nobody waits while there is something to pop
\* (block_queue.h:144, 153-161).
THEOREM NoWakeupLost == Spec => []NoLostWakeup
BY IndInvAlways, PTL DEF IndInv

\* FifoSpec: the ring with its mutex and condition variable is a bounded FIFO
\* queue, for any number of threads and any size (block_queue.h:127-199).
THEOREM ImplementsFifo == Spec => FifoSpec
BY InitMaps, StepMaps, IndInvAlways, PTL DEF Spec, FifoSpec, F!Spec
===============================================================================
