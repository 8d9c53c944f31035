----------------------------- MODULE Server_proofs -----------------------------
(***************************************************************************)
(* First SqlPool, for any number of threads, connections and interrupted   *)
(* waits; then its composition with the life of the process, which is a    *)
(* behaviour of the pool, and whose start and stop are clean.              *)
(***************************************************************************)
EXTENDS Server, FiniteSetTheorems, TLAPS

-----------------------------------------------------------------------------
(* The pool                                                                *)

\* A thread has a connection in hand only in process(), between Take and Release.
HeldInUse == \A t \in Thread : con[t] # NULL => pc[t] = "use"

\* The inductive invariant for Exclusive.
ExclInv == TypeOK /\ HeldInUse /\ Exclusive

\* Head, Tail and Append keep a list of connections a list of connections.
LEMMA ListOps ==
  ASSUME NEW s \in Seq(Conn)
  PROVE  /\ s # <<>> => /\ Head(s) = s[1] /\ Head(s) \in Conn /\ Tail(s) \in Seq(Conn)
                        /\ Len(Tail(s)) = Len(s) - 1 /\ Len(s) \in Nat \ {0}
                        /\ \A i \in 1..Len(Tail(s)) : Tail(s)[i] = s[i + 1]
         /\ \A c \in Conn : /\ Append(s, c) \in Seq(Conn)
                            /\ Len(Append(s, c)) = Len(s) + 1
                            /\ Append(s, c)[Len(s) + 1] = c
                            /\ \A i \in 1..Len(s) : Append(s, c)[i] = s[i]
  OBVIOUS

\* init fills the list with each connection once.
LEMMA InitExcl == Init => ExclInv
<1> SUFFICES ASSUME Init PROVE ExclInv
  OBVIOUS
<1> USE PoolAssumption DEF Init
<1>1. m_MaxConn \in Nat
  BY FS_CardinalityType
<1>2. connList \in Seq(Conn) /\ Len(connList) = m_MaxConn
  BY <1>1
<1>3. TypeOK
  <2>1. con \in [Thread -> Conn \cup {NULL}]
    OBVIOUS
  <2>2. pc \in [Thread -> {"idle", "wait", "take", "use", "post", "undefined"}]
    OBVIOUS
  <2>3. reserve \in Nat /\ slips \in Nat /\ m_FreeConn \in Int /\ m_CurConn \in Int
    BY <1>1
  <2> QED BY <1>1, <1>2, <2>1, <2>2, <2>3 DEF TypeOK
<1>5. HeldInUse
  BY DEF HeldInUse
<1>6. Exclusive
  BY <1>2 DEF Exclusive
<1> QED BY <1>3, <1>5, <1>6 DEF ExclInv

\* Reading the size and both outcomes of the wait move no connection.
LEMMA MovesNothing ==
  ASSUME ExclInv, NEW t \in Thread, CheckSize(t) \/ Wait(t) \/ WaitInterrupted(t) \/ Post(t)
  PROVE  ExclInv'
<1> USE DEF ExclInv
<1>1. connList' = connList /\ con' = con /\ counts' = counts /\ pool' = pool
  BY DEF CheckSize, Wait, WaitInterrupted, Post
<1>2. reserve' \in Nat /\ slips' \in Nat
  BY DEF CheckSize, Wait, WaitInterrupted, Post, TypeOK
<1>3. pc[t] # "use" /\ \E l \in {"use", "wait", "take", "idle"} : Goto(t, l)
  BY DEF CheckSize, Wait, WaitInterrupted, Post
<1>4. TypeOK'
  BY <1>1, <1>2, <1>3 DEF TypeOK, Goto, counts, pool
<1>5. HeldInUse'
  BY <1>1, <1>3 DEF TypeOK, HeldInUse, Goto
<1>6. Exclusive'
  BY <1>1 DEF Exclusive, pool
<1> QED BY <1>4, <1>5, <1>6

\* Take moves the front of the list into one thread's hand.
LEMMA TakeExcl == ASSUME ExclInv, NEW t \in Thread, Take(t) PROVE ExclInv'
<1> USE DEF ExclInv
<1>1. CASE connList = <<>>
  <2>1. /\ connList' = connList /\ con' = con /\ counts' = counts /\ pool' = pool
        /\ reserve' = reserve /\ slips' = slips /\ Goto(t, "undefined") /\ con[t] = NULL
    BY <1>1 DEF Take, HeldInUse
  <2>2. TypeOK' /\ HeldInUse'
    BY <2>1 DEF TypeOK, HeldInUse, Goto, counts, pool
  <2>3. Exclusive'
    BY <2>1 DEF Exclusive, pool
  <2> QED BY <2>2, <2>3
<1>2. CASE connList # <<>>
  <2> DEFINE L == connList
  <2>0. /\ connList' = Tail(L) /\ con' = [con EXCEPT ![t] = Head(L)] /\ Goto(t, "use")
        /\ m_FreeConn' = m_FreeConn - 1 /\ m_CurConn' = m_CurConn + 1
        /\ pool' = pool /\ reserve' = reserve /\ slips' = slips
    BY <1>2 DEF Take
  <2>1. /\ connList' = Tail(L) /\ con' = [con EXCEPT ![t] = L[1]] /\ L[1] \in Conn
        /\ closed' = closed /\ Tail(L) \in Seq(Conn) /\ Len(Tail(L)) = Len(L) - 1
        /\ Len(L) \in Nat \ {0} /\ \A i \in 1..Len(Tail(L)) : Tail(L)[i] = L[i + 1]
    BY <1>2, <2>0, ListOps DEF TypeOK, pool
  <2>2. TypeOK'
    BY <2>0, <2>1 DEF TypeOK, Goto, pool
  <2>3. HeldInUse'
    BY <2>0 DEF TypeOK, HeldInUse, Goto
  <2>4. \A s \in Thread : con'[s] = IF s = t THEN L[1] ELSE con[s]
    BY <2>1 DEF TypeOK
  <2>5. \A i \in 1..Len(connList') : i + 1 \in 1..Len(L) /\ connList'[i] = L[i + 1]
    BY <2>1
  <2>6. 1 \in 1..Len(L)
    BY <2>1
  <2>7. \A s, u \in Thread : con'[s] # NULL /\ con'[s] = con'[u] => s = u
    BY <2>4, <2>6 DEF Exclusive
  <2>8. ASSUME NEW i \in 1..Len(connList')
        PROVE  /\ connList'[i] \notin closed'
               /\ \A s \in Thread : con'[s] # connList'[i]
               /\ \A j \in 1..Len(connList') : connList'[i] = connList'[j] => i = j
    <3>1. connList'[i] \notin closed'
      BY <2>1, <2>5 DEF Exclusive
    <3>2. connList'[i] # L[1]
      <4>1. i + 1 \in 1..Len(L) /\ i + 1 # 1
        BY <2>5
      <4> QED BY <4>1, <2>5, <2>6 DEF Exclusive
    <3>3. \A s \in Thread : con'[s] # connList'[i]
      BY <3>2, <2>4, <2>5 DEF Exclusive
    <3>4. ASSUME NEW j \in 1..Len(connList'), connList'[i] = connList'[j] PROVE i = j
      <4>1. i + 1 = j + 1
        BY <2>5, <3>4 DEF Exclusive
      <4> QED BY <4>1
    <3> QED BY <3>1, <3>3, <3>4
  <2>9. \A s \in Thread : con'[s] \notin closed'
    BY <2>1, <2>4, <2>6 DEF Exclusive
  <2>10. Exclusive'
    BY <2>7, <2>8, <2>9 DEF Exclusive
  <2> QED BY <2>2, <2>3, <2>10
<1> QED BY <1>1, <1>2

\* Release moves it back, to the end of the list.
LEMMA ReleaseExcl == ASSUME ExclInv, NEW t \in Thread, Release(t) PROVE ExclInv'
<1> USE DEF ExclInv
<1>1. CASE con[t] = NULL
  <2>1. /\ connList' = connList /\ con' = con /\ counts' = counts /\ pool' = pool
        /\ reserve' = reserve /\ slips' = slips /\ Goto(t, "idle")
    BY <1>1 DEF Release
  <2>2. TypeOK' /\ HeldInUse'
    BY <1>1, <2>1 DEF TypeOK, HeldInUse, Goto, counts, pool
  <2>3. Exclusive'
    BY <2>1 DEF Exclusive, pool
  <2> QED BY <2>2, <2>3
<1>2. CASE con[t] # NULL
  <2> DEFINE L == connList
             n == Len(connList) + 1
  <2>0. /\ connList' = Append(L, con[t]) /\ con' = [con EXCEPT ![t] = NULL]
        /\ m_FreeConn' = m_FreeConn + 1 /\ m_CurConn' = m_CurConn - 1
        /\ pool' = pool /\ reserve' = reserve /\ slips' = slips /\ Goto(t, "post")
    BY <1>2 DEF Release
  <2>1. con[t] \in Conn
    BY <1>2 DEF TypeOK
  <2>2. /\ connList' = Append(L, con[t]) /\ con' = [con EXCEPT ![t] = NULL]
        /\ closed' = closed /\ connList' \in Seq(Conn) /\ Len(connList') = n
        /\ Len(L) \in Nat /\ connList'[n] = con[t]
        /\ \A i \in 1..Len(L) : connList'[i] = L[i]
    <3>1. L \in Seq(Conn) /\ Len(L) \in Nat /\ closed' = closed
      BY <2>0 DEF TypeOK, pool
    <3> HIDE DEF L
    <3> QED BY <2>0, <3>1, <2>1, ListOps DEF L
  <2>3. TypeOK'
    BY <2>0, <2>2 DEF TypeOK, Goto, pool
  <2>4. \A s \in Thread : con'[s] = IF s = t THEN NULL ELSE con[s]
    BY <2>2 DEF TypeOK
  <2>5. HeldInUse'
    BY <2>0, <2>4 DEF TypeOK, HeldInUse, Goto
  <2>6. \A i \in 1..Len(connList') : i \in 1..Len(L) \/ i = n
    BY <2>2
  <2>7. \A s, u \in Thread : con'[s] # NULL /\ con'[s] = con'[u] => s = u
    BY <2>4 DEF Exclusive
  <2>8. NULL \notin closed
    BY PoolAssumption DEF TypeOK
  <2>9. ASSUME NEW i \in 1..Len(connList')
        PROVE  /\ connList'[i] \notin closed'
               /\ \A s \in Thread : con'[s] # connList'[i]
               /\ \A j \in 1..Len(connList') : connList'[i] = connList'[j] => i = j
    <3>1. connList'[i] \in Conn
      BY <2>2
    <3>2. CASE i = n
      <4>1. \A s \in Thread : con'[s] # connList'[i]
        BY <3>1, <3>2, <2>2, <2>4, PoolAssumption DEF Exclusive
      <4>2. \A j \in 1..Len(L) : connList'[j] # connList'[i]
        BY <3>2, <2>2 DEF Exclusive
      <4> QED BY <3>2, <4>1, <4>2, <2>2, <2>6 DEF Exclusive
    <3>3. CASE i \in 1..Len(L)
      <4>1. \A s \in Thread : con'[s] # connList'[i]
        BY <3>1, <3>3, <2>2, <2>4, PoolAssumption DEF Exclusive
      <4>2. connList'[n] # connList'[i]
        BY <3>3, <2>2 DEF Exclusive
      <4> QED BY <3>3, <4>1, <4>2, <2>2, <2>6 DEF Exclusive
    <3> QED BY <3>2, <3>3, <2>6
  <2>10. \A s \in Thread : con'[s] \notin closed'
    BY <2>2, <2>4, <2>8 DEF Exclusive
  <2>11. Exclusive'
    BY <2>7, <2>9, <2>10 DEF Exclusive
  <2> QED BY <2>3, <2>5, <2>11
<1> QED BY <1>1, <1>2

\* DestroyPool closes what is in the list and empties it.
LEMMA DestroyExcl == ASSUME ExclInv, DestroyPool PROVE ExclInv'
<1> USE DEF ExclInv
<1>1. CASE connList = <<>>
  <2>1. /\ connList' = connList /\ con' = con /\ counts' = counts /\ closed' = closed
        /\ m_MaxConn' = m_MaxConn /\ destroyed' = TRUE
        /\ reserve' = reserve /\ slips' = slips /\ pc' = pc
    BY <1>1 DEF DestroyPool
  <2> QED BY <2>1 DEF TypeOK, HeldInUse, Exclusive, counts
<1>2. CASE connList # <<>>
  <2>1. /\ connList' = <<>> /\ con' = con /\ m_FreeConn' = 0 /\ m_CurConn' = 0
        /\ closed' = {connList[i] : i \in 1..Len(connList)}
        /\ m_MaxConn' = m_MaxConn /\ destroyed' = TRUE
        /\ reserve' = reserve /\ slips' = slips /\ pc' = pc
    BY <1>2 DEF DestroyPool
  <2>2. TypeOK' /\ HeldInUse'
    BY <2>1 DEF TypeOK, HeldInUse
  <2>3. \A s \in Thread : con'[s] \notin closed'
    BY <2>1 DEF Exclusive
  <2>4. Exclusive'
    BY <2>1, <2>3 DEF Exclusive
  <2> QED BY <2>2, <2>4
<1> QED BY <1>1, <1>2

\* Every step keeps ExclInv.
LEMMA NextExcl == ExclInv /\ [Next]_vars => ExclInv'
<1> SUFFICES ASSUME ExclInv, [Next]_vars PROVE ExclInv'
  OBVIOUS
<1>1. ASSUME NEW t \in Thread, Step(t) PROVE ExclInv'
  BY <1>1, MovesNothing, TakeExcl, ReleaseExcl DEF Step
<1>2. CASE UNCHANGED vars
  BY <1>2 DEF vars, counts, pool, ExclInv, TypeOK, HeldInUse, Exclusive
<1> QED BY <1>1, <1>2, DestroyExcl DEF Next

\* The pool's variables keep their types: reserve never goes below zero.
THEOREM TypeAlwaysOK == Spec => []TypeOK
<1>1. ExclInv => TypeOK
  BY DEF ExclInv
<1> QED BY <1>1, InitExcl, NextExcl, PTL DEF Spec

\* No connection is ever in two hands, or in a hand and in the list, or closed
\* in either: for any number of threads and connections, with interrupts and
\* with the pool destroyed at any moment.
THEOREM ExclusiveAlways == Spec => []Exclusive
<1>1. ExclInv => Exclusive
  BY DEF ExclInv
<1> QED BY <1>1, InitExcl, NextExcl, PTL DEF Spec

-----------------------------------------------------------------------------
(* Counting                                                                *)

\* With a connection for every thread nobody is given NULL or interrupted.
NoneMissing ==
  ~destroyed /\ Cardinality(Thread) <= m_MaxConn
    => slips = 0 /\ \A t \in Thread : pc[t] = "use" => con[t] # NULL

\* The inductive invariant for the counters.
CountInv == ExclInv /\ Accounted /\ FrontExists /\ NoneMissing

\* When t moves to l, it leaves the set of threads at any other label.
LEMMA AtMoves ==
  ASSUME TypeOK, NEW t \in Thread, NEW l, Goto(t, l)
  PROVE  \A k : At(k)' = IF k = l THEN At(k) \cup {t} ELSE At(k) \ {t}
  BY DEF TypeOK, Goto, At

\* The sets that are counted are finite.
LEMMA CountsFinite ==
  /\ Cardinality(Thread) \in Nat
  /\ IsFiniteSet(Holders) /\ Cardinality(Holders) \in Nat
  /\ \A k : IsFiniteSet(At(k)) /\ Cardinality(At(k)) \in Nat
<1>1. Holders \in SUBSET Thread /\ \A k : At(k) \in SUBSET Thread
  BY DEF Holders, At
<1>2. \A S \in SUBSET Thread : IsFiniteSet(S) /\ Cardinality(S) \in Nat
  BY PoolAssumption, FS_Subset, FS_CardinalityType
<1>3. Cardinality(Thread) \in Nat
  BY PoolAssumption, FS_CardinalityType
<1> QED BY <1>1, <1>2, <1>3

\* Three disjoint sets of threads that leave out one count less than all threads.
LEMMA OneLeft ==
  ASSUME NEW A \in SUBSET Thread, NEW B \in SUBSET Thread, NEW C \in SUBSET Thread,
         A \cap B = {}, A \cap C = {}, B \cap C = {},
         NEW t \in Thread, t \notin A, t \notin B, t \notin C
  PROVE  Cardinality(A) + Cardinality(B) + Cardinality(C) < Cardinality(Thread)
<1>1. \A S \in SUBSET Thread : IsFiniteSet(S) /\ Cardinality(S) \in Nat
  BY PoolAssumption, FS_Subset, FS_CardinalityType
<1>2. Cardinality(A \cup B) = Cardinality(A) + Cardinality(B)
  <2>1. Cardinality(A \cap B) = 0
    BY FS_EmptySet
  <2>2. IsFiniteSet(A) /\ IsFiniteSet(B)
    BY <1>1
  <2>3. Cardinality(A \cup B) = Cardinality(A) + Cardinality(B) - Cardinality(A \cap B)
    BY <2>2, FS_Union
  <2> QED BY <1>1, <2>1, <2>3
<1>3. Cardinality((A \cup B) \cup C) = Cardinality(A \cup B) + Cardinality(C)
  <2>1. (A \cup B) \cap C = {}
    OBVIOUS
  <2>2. Cardinality((A \cup B) \cap C) = 0
    BY <2>1, FS_EmptySet
  <2>3. IsFiniteSet(A \cup B) /\ Cardinality(A \cup B) \in Nat /\ IsFiniteSet(C)
    BY <1>1
  <2>4. Cardinality((A \cup B) \cup C)
          = Cardinality(A \cup B) + Cardinality(C) - Cardinality((A \cup B) \cap C)
    BY <2>3, FS_Union
  <2> QED BY <1>1, <2>2, <2>3, <2>4
<1>4. (A \cup B) \cup C \in SUBSET (Thread \ {t})
  OBVIOUS
<1>5. Cardinality(Thread \ {t}) = Cardinality(Thread) - 1
  BY PoolAssumption, FS_RemoveElement
<1>6. IsFiniteSet(Thread \ {t})
  BY <1>1
<1>7. Cardinality((A \cup B) \cup C) <= Cardinality(Thread \ {t})
  BY <1>4, <1>6, FS_Subset
<1> QED BY <1>1, <1>2, <1>3, <1>5, <1>7

\* With a connection for every thread, a thread that holds none and is neither
\* past the wait nor about to post leaves the semaphore positive.
LEMMA EnoughLeft ==
  ASSUME ExclInv, Accounted, ~Over, slips = 0, Cardinality(Thread) <= m_MaxConn,
         NEW t \in Thread, con[t] = NULL, pc[t] # "take", pc[t] # "post"
  PROVE  reserve > 0
<1>1. Holders \cap At("take") = {} /\ Holders \cap At("post") = {}
      /\ At("take") \cap At("post") = {}
  BY DEF Holders, At, ExclInv, HeldInUse
<1>2. t \notin Holders /\ t \notin At("take") /\ t \notin At("post")
  BY DEF Holders, At
<1>3. Holders \in SUBSET Thread /\ At("take") \in SUBSET Thread
      /\ At("post") \in SUBSET Thread
  BY DEF Holders, At
<1>4. Cardinality(Holders) + Cardinality(At("take")) + Cardinality(At("post"))
        < Cardinality(Thread)
  BY <1>1, <1>2, <1>3, OneLeft
<1>5. /\ Len(connList) = reserve + Cardinality(At("take")) + Cardinality(At("post"))
      /\ Len(connList) + Cardinality(Holders) = m_MaxConn
  BY DEF Accounted, ExclInv, TypeOK
<1>6. reserve \in Nat /\ Len(connList) \in Nat /\ m_MaxConn \in Nat
  BY DEF ExclInv, TypeOK
<1> QED BY <1>4, <1>5, <1>6, CountsFinite

\* init counts every connection once.
LEMMA InitCount == Init => CountInv
<1> SUFFICES ASSUME Init PROVE CountInv
  OBVIOUS
<1> USE DEF Init
<1>1. ExclInv
  BY InitExcl
<1>2. At("take") = {} /\ At("post") = {} /\ Holders = {}
  BY DEF At, Holders
<1>3. Cardinality({}) = 0
  BY FS_EmptySet
<1>4. Len(connList) = m_MaxConn /\ m_MaxConn \in Nat
  <2>1. m_MaxConn \in Nat
    BY <1>1 DEF ExclInv, TypeOK
  <2> QED BY <2>1
<1>5. Accounted
  <2>1. Cardinality(At("take")) = 0 /\ Cardinality(At("post")) = 0 /\ Cardinality(Holders) = 0
    BY <1>2, <1>3
  <2> QED BY <1>4, <2>1 DEF Accounted
<1> QED BY <1>1, <1>5 DEF CountInv, FrontExists, NoneMissing

\* The size test: with a connection for every thread the list is not empty.
LEMMA CheckSizeCount ==
  ASSUME CountInv, ~Over, ExclInv', NEW t \in Thread, CheckSize(t) PROVE CountInv'
<1> USE DEF CountInv, CheckSize, counts, pool
<1>1. con[t] = NULL
  BY DEF ExclInv, TypeOK, HeldInUse
<1>2. At("take")' = At("take") /\ At("post")' = At("post") /\ Holders' = Holders
  BY DEF ExclInv, TypeOK, Goto, At, Holders
<1>3. Accounted'
  BY <1>2 DEF Accounted, Over
<1>4. FrontExists'
  BY DEF FrontExists, Goto, ExclInv, TypeOK
<1>5. NoneMissing'
  <2> SUFFICES ASSUME Cardinality(Thread) <= m_MaxConn
               PROVE  slips = 0 /\ \A s \in Thread : pc'[s] = "use" => con'[s] # NULL
    BY DEF NoneMissing
  <2>1. slips = 0 /\ reserve > 0 /\ reserve \in Nat
    BY <1>1, EnoughLeft DEF Over, NoneMissing, ExclInv, TypeOK
  <2>2. connList # <<>>
    <3>1. Len(connList) > 0
      BY <2>1, CountsFinite DEF Accounted, ExclInv, TypeOK
    <3> QED BY <3>1
  <2>3. pc' = [pc EXCEPT ![t] = "wait"] /\ con' = con
    BY <2>2 DEF Goto
  <2> QED BY <2>1, <2>3 DEF NoneMissing, Over, ExclInv, TypeOK
<1> QED BY <1>3, <1>4, <1>5

\* A wait moves one from the semaphore to the threads at take.
LEMMA WaitCount ==
  ASSUME CountInv, ~Over, ExclInv', NEW t \in Thread, Wait(t) PROVE CountInv'
<1> USE DEF CountInv, Wait, counts, pool
<1>1. At("take")' = At("take") \cup {t} /\ At("post")' = At("post") \ {t}
  BY AtMoves DEF ExclInv
<1>2. t \notin At("take") /\ t \notin At("post") /\ Holders' = Holders
  BY DEF At, Holders
<1>3. At("post")' = At("post")
  BY <1>1, <1>2
<1>4. Cardinality(At("take")') = Cardinality(At("take")) + 1
  BY <1>1, <1>2, CountsFinite, FS_AddElement
<1>5. Accounted'
  BY <1>2, <1>3, <1>4, CountsFinite DEF Accounted, ExclInv, TypeOK
<1>6. FrontExists' /\ NoneMissing'
  BY DEF FrontExists, NoneMissing, Goto, ExclInv, TypeOK
<1> QED BY <1>5, <1>6

\* An interrupted wait adds one to the threads at take and one to slips.  With
\* a connection for every thread it does not happen.
LEMMA InterruptedCount ==
  ASSUME CountInv, ~Over, ExclInv', NEW t \in Thread, WaitInterrupted(t) PROVE CountInv'
<1> USE DEF CountInv, WaitInterrupted, counts, pool
<1>1. At("take")' = At("take") \cup {t} /\ At("post")' = At("post") \ {t}
  BY AtMoves DEF ExclInv
<1>2. t \notin At("take") /\ t \notin At("post") /\ Holders' = Holders
  BY DEF At, Holders
<1>3. At("post")' = At("post")
  BY <1>1, <1>2
<1>4. Cardinality(At("take")') = Cardinality(At("take")) + 1
  BY <1>1, <1>2, CountsFinite, FS_AddElement
<1>5. Accounted'
  BY <1>2, <1>3, <1>4, CountsFinite DEF Accounted, ExclInv, TypeOK
<1>6. FrontExists'
  BY DEF FrontExists, ExclInv, TypeOK
<1>7. NoneMissing'
  <2> SUFFICES ASSUME ~destroyed, Cardinality(Thread) <= m_MaxConn PROVE FALSE
    BY DEF NoneMissing
  <2>1. con[t] = NULL /\ pc[t] = "wait" /\ reserve = 0 /\ slips = 0
    BY DEF ExclInv, HeldInUse, NoneMissing
  <2> QED BY <2>1, EnoughLeft
<1> QED BY <1>5, <1>6, <1>7

\* Unless a wait was interrupted, Take finds a connection; it moves it from the
\* list to the thread.
LEMMA TakeCount ==
  ASSUME CountInv, ~Over, ExclInv', NEW t \in Thread, Take(t) PROVE CountInv'
<1> USE DEF CountInv
<1>1. t \in At("take") /\ t \notin At("post")
  BY DEF At, Take
<1>2. Cardinality(At("take")) > 0
  <2>1. Cardinality(At("take") \ {t}) = Cardinality(At("take")) - 1
    BY <1>1, CountsFinite, FS_RemoveElement
  <2>2. IsFiniteSet(At("take") \ {t})
    BY CountsFinite, FS_RemoveElement
  <2> QED BY <2>1, <2>2, FS_CardinalityType, CountsFinite
<1>3. slips = 0 => connList # <<>>
  <2> SUFFICES ASSUME slips = 0 PROVE connList # <<>>
    OBVIOUS
  <2>1. Len(connList) > 0
    BY <1>2, CountsFinite DEF Accounted, ExclInv, TypeOK
  <2> QED BY <2>1 DEF ExclInv, TypeOK
<1>4. CASE connList = <<>>
  <2>1. slips # 0 /\ slips' = slips /\ Goto(t, "undefined") /\ con' = con
    BY <1>3, <1>4 DEF Take
  <2>2. Over'
    BY <2>1 DEF Over, Goto, ExclInv, TypeOK
  <2>3. FrontExists' /\ Accounted'
    BY <2>1, <2>2 DEF FrontExists, Accounted
  <2>4. NoneMissing'
    <3>1. destroyed' = destroyed /\ m_MaxConn' = m_MaxConn
      BY DEF Take, pool
    <3> QED BY <2>1, <3>1 DEF NoneMissing
  <2> QED BY <2>3, <2>4
<1>5. CASE connList # <<>>
  <2>1. /\ con' = [con EXCEPT ![t] = Head(connList)] /\ connList' = Tail(connList)
        /\ m_FreeConn' = m_FreeConn - 1 /\ m_CurConn' = m_CurConn + 1
        /\ Goto(t, "use") /\ reserve' = reserve /\ slips' = slips
        /\ m_MaxConn' = m_MaxConn
    BY <1>5 DEF Take, pool
  <2>2. /\ Head(connList) \in Conn /\ Len(connList') = Len(connList) - 1
        /\ Len(connList) \in Nat
    BY <1>5, <2>1, ListOps DEF ExclInv, TypeOK
  <2>3. At("take")' = At("take") \ {t} /\ At("post")' = At("post")
    <3>1. At("take")' = At("take") \ {t} /\ At("post")' = At("post") \ {t}
      BY <2>1, AtMoves DEF ExclInv
    <3> QED BY <3>1, <1>1
  <2>4. Cardinality(At("take")') = Cardinality(At("take")) - 1
    BY <1>1, <2>3, CountsFinite, FS_RemoveElement
  <2>5. Head(connList) # NULL
    BY <2>2, PoolAssumption
  <2>6. Holders' = Holders \cup {t} /\ t \notin Holders
    <3>1. pc[t] = "take"
      BY <1>1 DEF At
    <3> QED BY <2>1, <2>5, <3>1 DEF Holders, ExclInv, HeldInUse, TypeOK
  <2>7. Cardinality(Holders') = Cardinality(Holders) + 1
    BY <2>6, CountsFinite, FS_AddElement
  <2>8. Accounted'
    <3> DEFINE nt == Cardinality(At("take"))
               np == Cardinality(At("post"))
               nh == Cardinality(Holders)
    <3>1. nt \in Nat /\ np \in Nat /\ nh \in Nat
      BY CountsFinite
    <3>2. nt' = nt - 1 /\ np' = np /\ nh' = nh + 1
      BY <2>3, <2>4, <2>7
    <3>3. /\ reserve \in Nat /\ slips \in Nat /\ m_MaxConn \in Nat
          /\ m_FreeConn \in Int /\ m_CurConn \in Int
      BY DEF ExclInv, TypeOK
    <3>4. /\ Len(connList) + slips = reserve + nt + np /\ m_FreeConn = Len(connList)
          /\ m_CurConn = nh /\ Len(connList) + nh = m_MaxConn
      BY DEF Accounted
    <3>5. /\ Len(connList') = Len(connList) - 1 /\ Len(connList) \in Nat
          /\ m_FreeConn' = m_FreeConn - 1 /\ m_CurConn' = m_CurConn + 1
          /\ reserve' = reserve /\ slips' = slips /\ m_MaxConn' = m_MaxConn
      BY <2>1, <2>2
    <3> HIDE DEF nt, np, nh
    <3>6. /\ Len(connList') + slips' = reserve' + nt' + np' /\ m_FreeConn' = Len(connList')
          /\ m_CurConn' = nh' /\ Len(connList') + nh' = m_MaxConn'
      BY <3>1, <3>2, <3>3, <3>4, <3>5
    <3> QED BY <3>6 DEF Accounted, nt, np, nh
  <2>9. FrontExists' /\ NoneMissing'
    <3>1. destroyed' = destroyed
      BY DEF Take, pool
    <3> QED BY <2>1, <2>5, <3>1 DEF FrontExists, NoneMissing, Goto, ExclInv, TypeOK
  <2> QED BY <2>8, <2>9
<1> QED BY <1>4, <1>5

\* Release moves a connection from the thread to the list; the semaphore follows.
LEMMA ReleaseCount ==
  ASSUME CountInv, ~Over, ExclInv', NEW t \in Thread, Release(t) PROVE CountInv'
<1> USE DEF CountInv
<1>1. t \notin At("take") /\ t \notin At("post")
  BY DEF At, Release
<1>2. FrontExists' /\ NoneMissing'
  BY DEF FrontExists, NoneMissing, Release, Goto, pool, ExclInv, TypeOK
<1>3. CASE con[t] = NULL
  <2>1. At("take")' = At("take") \ {t} /\ At("post")' = At("post") \ {t}
    BY <1>3, AtMoves DEF ExclInv, Release
  <2>2. At("take")' = At("take") /\ At("post")' = At("post") /\ Holders' = Holders
    BY <1>1, <1>3, <2>1 DEF Holders, Release
  <2>3. Accounted'
    BY <1>3, <2>2 DEF Accounted, Release, counts, pool
  <2> QED BY <1>2, <2>3
<1>4. CASE con[t] # NULL
  <2>1. /\ con' = [con EXCEPT ![t] = NULL] /\ connList' = Append(connList, con[t])
        /\ m_FreeConn' = m_FreeConn + 1 /\ m_CurConn' = m_CurConn - 1
        /\ Goto(t, "post") /\ reserve' = reserve /\ slips' = slips
        /\ m_MaxConn' = m_MaxConn
    BY <1>4 DEF Release, pool
  <2>2. con[t] \in Conn
    BY <1>4 DEF ExclInv, TypeOK
  <2>3. Len(connList') = Len(connList) + 1 /\ Len(connList) \in Nat
    BY <2>1, <2>2, ListOps DEF ExclInv, TypeOK
  <2>4. At("take")' = At("take") /\ At("post")' = At("post") \cup {t}
    <3>1. At("take")' = At("take") \ {t} /\ At("post")' = At("post") \cup {t}
      BY <2>1, AtMoves DEF ExclInv
    <3> QED BY <3>1, <1>1
  <2>5. Cardinality(At("post")') = Cardinality(At("post")) + 1
    BY <1>1, <2>4, CountsFinite, FS_AddElement
  <2>6. Holders' = Holders \ {t} /\ t \in Holders
    BY <1>4, <2>1 DEF Holders, ExclInv, TypeOK
  <2>7. Cardinality(Holders') = Cardinality(Holders) - 1
    BY <2>6, CountsFinite, FS_RemoveElement
  <2>8. Accounted'
    <3> DEFINE nt == Cardinality(At("take"))
               np == Cardinality(At("post"))
               nh == Cardinality(Holders)
    <3>1. nt \in Nat /\ np \in Nat /\ nh \in Nat
      BY CountsFinite
    <3>2. nt' = nt /\ np' = np + 1 /\ nh' = nh - 1
      BY <2>4, <2>5, <2>7
    <3>3. /\ reserve \in Nat /\ slips \in Nat /\ m_MaxConn \in Nat
          /\ m_FreeConn \in Int /\ m_CurConn \in Int
      BY DEF ExclInv, TypeOK
    <3>4. /\ Len(connList) + slips = reserve + nt + np /\ m_FreeConn = Len(connList)
          /\ m_CurConn = nh /\ Len(connList) + nh = m_MaxConn
      BY DEF Accounted
    <3> HIDE DEF nt, np, nh
    <3>5. /\ Len(connList') + slips' = reserve' + nt' + np' /\ m_FreeConn' = Len(connList')
          /\ m_CurConn' = nh' /\ Len(connList') + nh' = m_MaxConn'
      BY <2>1, <2>3, <3>1, <3>2, <3>3, <3>4
    <3> QED BY <3>5 DEF Accounted, nt, np, nh
  <2> QED BY <1>2, <2>8
<1> QED BY <1>3, <1>4

\* Post gives back to the semaphore what the thread at post stood for.
LEMMA PostCount ==
  ASSUME CountInv, ~Over, ExclInv', NEW t \in Thread, Post(t) PROVE CountInv'
<1> USE DEF CountInv, Post, counts, pool
<1>1. At("take")' = At("take") \ {t} /\ At("post")' = At("post") \ {t}
  BY AtMoves DEF ExclInv
<1>2. t \notin At("take") /\ t \in At("post") /\ Holders' = Holders
  BY DEF At, Holders
<1>3. At("take")' = At("take")
  BY <1>1, <1>2
<1>4. Cardinality(At("post")') = Cardinality(At("post")) - 1
  BY <1>1, <1>2, CountsFinite, FS_RemoveElement
<1>5. Accounted'
  BY <1>2, <1>3, <1>4, CountsFinite DEF Accounted, ExclInv, TypeOK
<1>6. FrontExists' /\ NoneMissing'
  BY DEF FrontExists, NoneMissing, Goto, ExclInv, TypeOK
<1> QED BY <1>5, <1>6

\* Every step keeps CountInv.
LEMMA NextCount == CountInv /\ [Next]_vars => CountInv'
<1> SUFFICES ASSUME CountInv, [Next]_vars PROVE CountInv'
  OBVIOUS
<1>1. ExclInv'
  BY NextExcl DEF CountInv
<1>2. ASSUME ~Over, NEW t \in Thread, Step(t) PROVE CountInv'
  BY <1>1, <1>2, CheckSizeCount, WaitCount, InterruptedCount, TakeCount, ReleaseCount,
     PostCount DEF Step
<1>3. ASSUME DestroyPool PROVE CountInv'
  <2>1. Over' /\ destroyed' /\ slips' = slips /\ pc' = pc
    BY <1>3 DEF DestroyPool, Over
  <2> QED BY <1>1, <2>1 DEF CountInv, Accounted, FrontExists, NoneMissing
<1>4. ASSUME UNCHANGED vars PROVE CountInv'
  <2>1. At("take")' = At("take") /\ At("post")' = At("post") /\ Holders' = Holders
        /\ Over' = Over
    BY <1>4 DEF vars, At, Holders, Over, pool
  <2> QED BY <1>1, <1>4, <2>1
          DEF vars, counts, pool, CountInv, Accounted, FrontExists, NoneMissing
<1> QED BY <1>2, <1>3, <1>4 DEF Next

\* List, semaphore and counters agree as long as the process runs, for any
\* number of threads and connections; every interrupted wait shifts the
\* semaphore by one.
THEOREM AccountedAlways == Spec => []Accounted
<1>1. CountInv => Accounted
  BY DEF CountInv
<1> QED BY <1>1, InitCount, NextCount, PTL DEF Spec

\* Unless a wait was interrupted, whoever passes the semaphore finds a
\* connection in the list.
THEOREM FrontAlwaysExists == Spec => []FrontExists
<1>1. CountInv => FrontExists
  BY DEF CountInv
<1> QED BY <1>1, InitCount, NextCount, PTL DEF Spec

\* With as many connections as threads, which is the default, nobody is
\* interrupted, is given NULL or blocks.
THEOREM PlentyAlways == Spec => []Plenty
<1>1. CountInv => Plenty
  <2> SUFFICES ASSUME CountInv, ~destroyed, Cardinality(Thread) <= m_MaxConn,
                      NEW t \in Thread
               PROVE  /\ pc[t] = "wait" => reserve > 0
                      /\ pc[t] = "use" => con[t] # NULL
                      /\ pc[t] # "undefined"
    BY DEF Plenty
  <2> USE DEF CountInv
  <2>1. slips = 0 /\ pc[t] # "undefined"
    BY DEF NoneMissing, FrontExists
  <2>2. ~Over
    BY <2>1 DEF FrontExists, Over
  <2>3. pc[t] = "wait" => reserve > 0
    BY <2>1, <2>2, EnoughLeft DEF ExclInv, HeldInUse
  <2> QED BY <2>1, <2>3 DEF NoneMissing
<1> QED BY <1>1, InitCount, NextCount, PTL DEF Spec

-----------------------------------------------------------------------------
(* The process                                                             *)

NoWork == m_workqueue = {} /\ \A t \in Thread : serving[t] = NoFd

ServerTypeOK ==
  /\ stage \in DOMAIN Place /\ m_workqueue \subseteq Fd /\ serving \in [Thread -> Fd \cup {NoFd}]
  /\ left \subseteq {"work", "timer"} /\ stray \in BOOLEAN

\* Nothing runs before the loop; the static pool lives until its step; a timer that
\* points at a record is in the record's slot; nothing comes back after the loop.
ServerInv ==
  /\ ServerTypeOK
  /\ ~Past("u_pipefd") => NoWork /\ timed = {}
  /\ destroyed => Past("connPool")
  /\ bound \subseteq timed
  /\ Past("eventLoop") /\ "work" \notin left => NoWork
  /\ Past("eventLoop") /\ "timer" \notin left => timed = {}
  /\ MisuseHasCause

\* The places as numbers.
LEMMA Places ==
  /\ \A s \in DOMAIN Place : Place[s] \in 0..18
  /\ Place["WebServer"] = 1 /\ Place["log_write"] = 2 /\ Place["sql_pool"] = 3
  /\ Place["thread_pool"] = 4 /\ Place["utils_func"] = 5 /\ Place["addsig"] = 6
  /\ Place["u_pipefd"] = 7 /\ Place["eventLoop"] = 8 /\ Place["users"] = 9
  /\ Place["users_data"] = 10 /\ Place["m_pool"] = 11 /\ Place["m_minheap"] = 12
  /\ Place["return"] = 13 /\ Place["connPool"] = 14 /\ Place["Log"] = 15
  /\ Place["m_lock"] = 16 /\ Place["exit"] = 17 /\ Place["hung"] = 18 /\ Place["killed"] = 0
  /\ "hung" \in DOMAIN Place /\ "killed" \in DOMAIN Place
BY DEF Place

\* While the loop runs every part a worker or a handler uses exists.
LEMMA LoopHasAll ==
  ASSUME ServerTypeOK, ~Past("eventLoop"), Past("u_pipefd"),
         NEW p \in {"users", "connPool", "m_lock", "m_pool", "Log", "u_pipefd", "users_data"}
  PROVE  Exists(p)
BY Places DEF ServerTypeOK, Past, Exists, Life

\* A worker finds its own pool gone after the step that deletes it, and any other part
\* after a loop that left work.
LEMMA UnsafeAfterLoop ==
  ASSUME ServerInv, NEW t \in Thread, Past("thread_pool"), NEW p \in Uses(t), ~Exists(p)
  PROVE  IF p = "m_pool" THEN Past("m_pool") ELSE "work" \in left /\ p \in {"users", "connPool", "m_lock", "Log"}
<1>1. CASE p = "m_pool"
  BY <1>1 DEF Exists, Life
<1>2. CASE p # "m_pool"
  <2>1. p \in {"users", "connPool", "m_lock", "Log"} /\ serving[t] # NoFd
    BY <1>2 DEF Uses
  <2>2. ~NoWork
    BY <2>1 DEF NoWork
  <2>3. Past("u_pipefd")
    BY <2>2 DEF ServerInv
  <2>4. Past("eventLoop")
    BY <2>1, <2>3, LoopHasAll DEF ServerInv
  <2>. QED  BY <1>2, <2>1, <2>2, <2>4 DEF ServerInv
<1>. QED  BY <1>1, <1>2

LEMMA InitServer == ServerInit => ServerInv
<1>. SUFFICES ASSUME ServerInit PROVE ServerInv
  OBVIOUS
<1>1. stage \in DOMAIN Place /\ Place[stage] = 1
  BY Places DEF ServerInit, Place
<1>2. ServerTypeOK /\ NoWork /\ timed = {} /\ misused = {} /\ bound = {} /\ destroyed = FALSE
  BY <1>1 DEF ServerInit, ServerTypeOK, NoWork, Init
<1>. QED  BY <1>1, <1>2, Places DEF ServerInv, Past, MisuseHasCause

\* Steps of main that build or destroy one part.
LEMMA PartInv == ASSUME ServerInv, misused = {}, Build \/ Destroy PROVE ServerInv'
<1>1. /\ UNCHANGED <<destroyed, timed, bound, m_workqueue, serving, stray, misused, left, logging>>
      /\ stage' \in DOMAIN Place /\ Place[stage'] = Place[stage] + 1
      /\ stage # "eventLoop"
  BY DEF Build, Destroy, Goes, vars, pool, workVars, signalVars
<1>2. Place[stage] # 8
  BY <1>1 DEF ServerInv, ServerTypeOK, Place
<1>3. ServerTypeOK' /\ (NoWork' <=> NoWork)
  BY <1>1 DEF ServerInv, ServerTypeOK, NoWork
<1>4. (Past("connPool") => Past("connPool")') /\ (Past("eventLoop")' <=> Past("eventLoop"))
      /\ (~Past("u_pipefd")' => ~Past("u_pipefd"))
  BY <1>1, <1>2, Places DEF ServerInv, ServerTypeOK, Past
<1>. QED  BY <1>1, <1>3, <1>4 DEF ServerInv, MisuseHasCause

\* The end of the loop notes whether anything was going on.
LEMMA StopInv == ASSUME ServerInv, misused = {}, Stop PROVE ServerInv'
<1>1. /\ UNCHANGED <<destroyed, timed, bound, m_workqueue, serving, stray, misused, logging>>
      /\ stage = "eventLoop" /\ stage' \in DOMAIN Place /\ Place[stage'] = 9
      /\ "timer" \notin left' => timed = {}
      /\ "work" \notin left' => m_workqueue = {} /\ Busy = {}
      /\ left' \subseteq {"work", "timer"}
  BY Places DEF Stop, Goes, vars, pool, workVars, signalVars
<1>2. Past("u_pipefd")' /\ Past("eventLoop")' /\ ~Past("eventLoop") /\ ~Past("connPool")
  BY <1>1, Places DEF Past
<1>3. NoWork' <=> NoWork  BY <1>1 DEF NoWork
<1>4. "work" \notin left' => NoWork  BY <1>1 DEF NoWork, Busy
<1>5. ServerTypeOK'  BY <1>1 DEF ServerInv, ServerTypeOK
<1>. QED  BY <1>1, <1>2, <1>3, <1>4, <1>5 DEF ServerInv, MisuseHasCause

\* The end of the heap: a timer that still points at a record was there at the stop.
LEMMA TimersInv == ASSUME ServerInv, misused = {}, DeleteTimers PROVE ServerInv'
<1>1. /\ UNCHANGED <<destroyed, timed, m_workqueue, serving, stray, left, logging>>
      /\ bound' = {} /\ stage = "m_minheap" /\ stage' \in DOMAIN Place
      /\ \/ Place[stage'] = 13 /\ misused' = misused
         \/ Place[stage'] = 12 /\ bound # {} /\ misused' = {"users_data"}
  BY Places DEF DeleteTimers, Goes, vars, pool, workVars, signalVars, ServerInv, ServerTypeOK
<1>2. Past("eventLoop") /\ ~Past("connPool") /\ Past("eventLoop")' /\ Past("u_pipefd")'
  BY <1>1, Places DEF Past
<1>3. bound # {} => "timer" \in left  BY <1>2 DEF ServerInv, NoWork
<1>4. ServerTypeOK' /\ (NoWork' <=> NoWork)  BY <1>1 DEF ServerInv, ServerTypeOK, NoWork
<1>. QED  BY <1>1, <1>2, <1>3, <1>4 DEF ServerInv, MisuseHasCause

\* The static objects.
LEMMA StaticsInv == ASSUME ServerInv, misused = {}, DestroyConnPool \/ CloseLog PROVE ServerInv'
<1>1. /\ UNCHANGED <<timed, bound, m_workqueue, serving, stray, left, logging>>
      /\ Place[stage] >= 14 /\ stage' \in DOMAIN Place /\ Place[stage'] >= 15
      /\ misused' = misused \/ (logging = "async" /\ stage' = "Log" /\ misused' = {"Log"})
  BY Places DEF DestroyConnPool, CloseLog, Goes, workVars, signalVars, ServerInv, ServerTypeOK
<1>2. Past("eventLoop") /\ Past("eventLoop")' /\ Past("u_pipefd")' /\ Past("connPool")'
  BY <1>1, Places DEF Past, ServerInv, ServerTypeOK
<1>3. ServerTypeOK' /\ (NoWork' <=> NoWork)  BY <1>1 DEF ServerInv, ServerTypeOK, NoWork
<1>. QED  BY <1>1, <1>2, <1>3 DEF ServerInv, MisuseHasCause

\* The loop and the workers.
LEMMA LoopInv ==
  ASSUME ServerInv, misused = {}, NEW f \in Fd, Accept(f) \/ Append_p(f) \/ Close(f) PROVE ServerInv'
<1>1. /\ UNCHANGED <<destroyed, stage, serving, stray, misused, left, logging>>
      /\ stage = "eventLoop"
  BY DEF Accept, Append_p, Close, vars, pool, signalVars
<1>2. Past("u_pipefd") /\ ~Past("eventLoop")
  BY <1>1, Places DEF Past
<1>3. (bound \subseteq timed)'
  BY DEF ServerInv, Accept, Append_p, Close
<1>4. UNCHANGED <<Past("u_pipefd"), Past("eventLoop"), Past("connPool")>>
  BY <1>1 DEF Past
<1>5. ServerTypeOK'
  <2>1. m_workqueue' \subseteq Fd
    BY DEF ServerInv, ServerTypeOK, Accept, Append_p, Close
  <2>. QED  BY <1>1, <2>1 DEF ServerInv, ServerTypeOK
<1>. QED  BY <1>1, <1>2, <1>3, <1>4, <1>5 DEF ServerInv, MisuseHasCause

LEMMA WorkerInv ==
  ASSUME ServerInv, misused = {}, NEW t \in Thread, TakeRequest(t) \/ Work(t) PROVE ServerInv'
<1>1. /\ UNCHANGED <<destroyed, stage, timed, bound, stray, misused, left, logging>>
      /\ ~NoWork
      /\ m_workqueue' \subseteq m_workqueue
      /\ \E f \in Fd \cup {NoFd} : serving' = [serving EXCEPT ![t] = f]
  <2>1. CASE TakeRequest(t)
    BY <2>1 DEF TakeRequest, NoWork, ServerInv, ServerTypeOK, vars, pool, signalVars
  <2>2. CASE Work(t)
    <3>1. destroyed' = destroyed
      BY <2>2 DEF Work, Step, CheckSize, Wait, WaitInterrupted, Take, Release, Post, pool
    <3>. QED  BY <2>2, <3>1 DEF Work, NoWork, ServerInv, ServerTypeOK, signalVars
  <2>. QED  BY <2>1, <2>2
<1>4. UNCHANGED <<Past("u_pipefd"), Past("eventLoop"), Past("connPool")>>
  BY <1>1 DEF Past
<1>5. ServerTypeOK'  BY <1>1 DEF ServerInv, ServerTypeOK
<1>. QED  BY <1>1, <1>4, <1>5 DEF ServerInv, MisuseHasCause

LEMMA MisuseInv == ASSUME ServerInv, misused = {}, NEW t \in Thread, Misuse(t) PROVE ServerInv'
<1>1. UNCHANGED <<destroyed, stage, timed, bound, m_workqueue, serving, stray, left, logging>>
  BY DEF Misuse, vars, pool, workVars, signalVars
<1>2. \A p \in misused' : IF p = "m_pool" THEN Past("m_pool")
                          ELSE "work" \in left /\ p \in {"users", "connPool", "m_lock", "Log"}
  BY UnsafeAfterLoop DEF Misuse
<1>3. UNCHANGED <<Past("u_pipefd"), Past("eventLoop"), Past("connPool"), Past("m_pool")>>
      /\ (NoWork' <=> NoWork)
  BY <1>1 DEF Past, NoWork
<1>. QED  BY <1>1, <1>2, <1>3 DEF ServerInv, ServerTypeOK, MisuseHasCause

\* A signal in the loop does no harm, and those outside it are noted.
LEMMA SignalInv == ASSUME ServerInv, ~Ended, Signal PROVE ServerInv'
<1>1. /\ UNCHANGED <<destroyed, timed, bound, m_workqueue, serving, left, logging>>
      /\ stray' \in BOOLEAN /\ (stray => stray') /\ (stage # "eventLoop" => stray')
  BY DEF Signal, vars, pool, workVars, ServerInv, ServerTypeOK
<1>2. NoWork' <=> NoWork  BY <1>1 DEF NoWork
<1>3. CASE Killed
  <2>1. stage' = "killed" /\ misused' = misused /\ ~Past("addsig")
    BY <1>3 DEF Killed
  <2>2. ~Past("u_pipefd") /\ ~Past("connPool") /\ ~Past("eventLoop")
        /\ ~Past("u_pipefd")' /\ ~Past("eventLoop")'
    BY <2>1, Places DEF Past, ServerInv, ServerTypeOK
  <2>3. ServerTypeOK'  BY <1>1, <2>1, Places DEF ServerInv, ServerTypeOK
  <2>. QED  BY <1>1, <1>2, <2>1, <2>2, <2>3 DEF ServerInv, MisuseHasCause, Ended
<1>4. CASE sig_handler
  <2>1. stage' = stage /\ misused' = {p \in {"u_pipefd"} : ~Exists(p)}
    BY <1>4 DEF sig_handler
  <2>2. UNCHANGED <<Past("u_pipefd"), Past("eventLoop"), Past("connPool")>>
    BY <2>1 DEF Past
  <2>3. ServerTypeOK'  BY <1>1, <2>1 DEF ServerInv, ServerTypeOK
  <2>4. stage = "eventLoop" => misused' = {}
    <3>. SUFFICES ASSUME stage = "eventLoop" PROVE Exists("u_pipefd")
      BY <2>1
    <3>1. ~Past("eventLoop") /\ Past("u_pipefd")  BY Places DEF Past
    <3>. QED  BY <3>1, LoopHasAll DEF ServerInv
  <2>5. MisuseHasCause'  BY <1>1, <2>1, <2>4 DEF MisuseHasCause
  <2>. QED  BY <1>1, <1>2, <2>2, <2>3, <2>5 DEF ServerInv
<1>. QED  BY <1>3, <1>4 DEF Signal

\* Every step keeps the invariant.
LEMMA StepServer == ServerInv /\ [ServerNext]_serverVars => ServerInv'
<1>. SUFFICES ASSUME ServerInv, [ServerNext]_serverVars PROVE ServerInv'
  OBVIOUS
<1>1. CASE UNCHANGED serverVars
  BY <1>1 DEF serverVars, vars, pool, workVars, signalVars, ServerInv, ServerTypeOK, NoWork,
              Past, MisuseHasCause
<1>2. CASE ~Ended /\ Main
  BY <1>2, PartInv, StopInv, TimersInv, StaticsInv DEF Main, Ended
<1>. QED
  BY <1>1, <1>2, SignalInv, LoopInv, WorkerInv, MisuseInv DEF ServerNext, Ended

-----------------------------------------------------------------------------
\* A step of the process is a step of the pool or leaves the pool alone: the pool is
\* used by workers only while it exists, and main destroys it once.
LEMMA StepPool == ServerInv /\ [ServerNext]_serverVars => [Next]_vars
<1>. SUFFICES ASSUME ServerInv, [ServerNext]_serverVars, vars' # vars PROVE Next
  OBVIOUS
<1>1. ~Ended /\ ServerNext
  BY DEF ServerNext, serverVars
<1>2. \/ DestroyConnPool
      \/ \E t \in Thread : Work(t)
  BY <1>1 DEF ServerNext, Main, Build, Stop, Destroy, DeleteTimers, CloseLog, Signal, Accept,
              Append_p, Close, TakeRequest, Misuse, serverVars
<1>3. CASE DestroyConnPool
  <2>1. ~Past("connPool")  BY <1>3, Places DEF DestroyConnPool, Goes, Past
  <2>. QED  BY <1>1, <1>3, <2>1 DEF ServerInv, Ended, Over, Next, DestroyConnPool
<1>4. ASSUME NEW t \in Thread, Work(t) PROVE Next
  <2>1. "connPool" \in Uses(t)  BY <1>4 DEF Work, Uses
  <2>2. ~Past("connPool")  BY <1>4, <2>1 DEF Work, Safe, Exists, Life
  <2>. QED  BY <1>1, <1>4, <2>2 DEF ServerInv, Ended, Over, Next, Work
<1>. QED  BY <1>2, <1>3, <1>4

\* The invariant always holds.
THEOREM ServerInvAlways == ServerSpec => []ServerInv
BY InitServer, StepServer, PTL DEF ServerSpec

\* In the life of the process the SQL pool behaves as SqlPool says, so all that is
\* proved of the pool alone holds here (sql_connection_pool.cpp:26-142).
THEOREM ServerImplementsPool == ServerSpec => Spec
<1>1. ServerInit => Init  BY DEF ServerInit
<1>. QED  BY <1>1, StepPool, ServerInvAlways, PTL DEF ServerSpec, Spec

\* MisuseHasCause: a part is used outside its life only by a worker or a timer the loop
\* left behind, a writer thread, a signal outside the loop, or, the thread pool once it
\* is deleted, by its own workers (main.cpp:19-40, webserver.cpp:21-30).
THEOREM MisuseAlwaysHasCause == ServerSpec => []MisuseHasCause
<1>1. ServerInv => MisuseHasCause  BY DEF ServerInv
<1>. QED  BY <1>1, ServerInvAlways, PTL
=============================================================================
