-------------------------- MODULE HeapTimers_proofs --------------------------
(***************************************************************************)
(* Proofs about MinHeap, HeapOps and HeapTimers.  The loops of min_heap    *)
(* and of tick() are recursive functions: LoopExists shows that such a     *)
(* function exists, LoopKeeps that what every round keeps holds of the     *)
(* result. From them follow the contents and the order of the array after  *)
(* each operation and after any sequence of them, the agreement of slots   *)
(* and heap, that the heap with its alarm implements TimerService, and     *)
(* that timers are handled in time as long as the heap is in order.        *)
(***************************************************************************)
EXTENDS HeapTimers, HeapOps, FiniteSetTheorems, WellFoundedInduction, SequenceTheorems, TLAPS

\* The least of a set of natural numbers.
LEMMA Least ==
  ASSUME NEW S \in SUBSET Nat, S # {}
  PROVE  \E m \in S : \A k \in S : m <= k
<1> DEFINE R == {ss \in Nat \X Nat : ss[1] < ss[2]}
<1>1. R = OpToRel(<, Nat)
  BY DEF OpToRel
<1>2. IsWellFoundedOn(R, Nat)
  BY <1>1, NatLessThanWellFounded
<1>3. \E x \in S : \A y \in S : ~ (<<y, x>> \in R)
  <2> HIDE DEF R
  <2> QED BY <1>2, WFMin
<1>4. PICK x \in S : \A y \in S : ~ (<<y, x>> \in R)
  BY <1>3
<1>5. ASSUME NEW k \in S PROVE x <= k
  <2>1. x \in Nat /\ k \in Nat
    OBVIOUS
  <2>2. <<k, x>> \notin R
    BY <1>4
  <2>3. ~(k < x)
    BY <2>1, <2>2
  <2> QED BY <2>1, <2>3
<1> QED BY <1>5

\* g is the loop over states S that ends in done and otherwise goes on with nx.
Rounds(S, done, nx, out, g) == \A s \in S : g[s] = IF s \in done THEN out[s] ELSE g[nx[s]]

\* A loop over states S that ends in done and otherwise goes on with nx is a
\* function: its value is that of the one final state every set with s and
\* closed under nx has.
LEMMA LoopExists ==
  ASSUME NEW S, NEW V, NEW done \in SUBSET S, NEW nx \in [S -> S], NEW out \in [S -> V]
  PROVE  \E g \in [S -> V] : Rounds(S, done, nx, out, g)
<1> DEFINE Closed(P) == \A x \in P \ done : nx[x] \in P
           Ends(s) == {d \in done : \A P \in SUBSET S : s \in P /\ Closed(P) => d \in P}
           E == [s \in S |-> Ends(s)]
           F == [e \in SUBSET done |-> out[CHOOSE d \in S : e # {} => d \in e]]
           G == [s \in S |-> F[E[s]]]
<1>1. ASSUME NEW s \in done PROVE G[s] = out[s]
  <2>1. Closed({s})
    OBVIOUS
  <2>2. Ends(s) = {s}
    BY <2>1
  <2>3. E[s] = {s}
    BY <2>2
  <2>4. (CHOOSE d \in S : {s} # {} => d \in {s}) = s
    OBVIOUS
  <2>5. F[{s}] = out[s]
    BY <2>4
  <2> HIDE DEF E, F
  <2> QED BY <2>3, <2>5
<1>2. ASSUME NEW s \in S, s \notin done PROVE G[s] = G[nx[s]]
  <2>1. nx[s] \in S
    OBVIOUS
  <2>2. ASSUME NEW d \in Ends(nx[s]) PROVE d \in Ends(s)
    <3>1. ASSUME NEW P \in SUBSET S, s \in P, Closed(P) PROVE d \in P
      <4>1. nx[s] \in P
        BY <1>2, <3>1
      <4> QED BY <4>1, <3>1
    <3> QED BY <3>1
  <2>3. ASSUME NEW d \in Ends(s) PROVE d \in Ends(nx[s])
    <3>1. ASSUME NEW P \in SUBSET S, nx[s] \in P, Closed(P) PROVE d \in P
      <4>1. Closed(P \cup {s})
        BY <3>1
      <4>2. P \cup {s} \in SUBSET S
        OBVIOUS
      <4>3. d \in P \cup {s}
        BY <4>1, <4>2
      <4> QED BY <4>3, <1>2
    <3> QED BY <3>1
  <2>4. Ends(s) = Ends(nx[s])
    <3> HIDE DEF Ends
    <3> QED BY <2>2, <2>3
  <2>5. E[s] = E[nx[s]]
    <3> HIDE DEF Ends
    <3> QED BY <2>4, <2>1
  <2> HIDE DEF E, F
  <2> QED BY <2>5, <2>1
<1>3. \A s \in S : G[s] = IF s \in done THEN out[s] ELSE G[nx[s]]
  <2> HIDE DEF G
  <2> QED BY <1>1, <1>2
<1>4. G \in [S -> V]
  <2>1. ASSUME NEW s \in S PROVE F[E[s]] \in V
    <3> PICK e : e = E[s]
      OBVIOUS
    <3>1. e \in SUBSET done
      OBVIOUS
    <3>2. \E d \in S : e # {} => d \in e
      BY <3>1
    <3>3. PICK d \in S : d = CHOOSE x \in S : e # {} => x \in e
      BY <3>2
    <3>4. F[e] = out[d]
      BY <3>1, <3>3
    <3> HIDE DEF F, E
    <3> QED BY <3>4
  <2> HIDE DEF F, E
  <2> QED BY <2>1
<1> HIDE DEF G
<1> QED BY <1>3, <1>4 DEF Rounds

\* g is a loop with final states done, and m counts its rounds down.
Loop(S, done, nx, out, m, g) ==
  /\ done \in SUBSET S /\ nx \in [S -> S] /\ m \in [S -> Nat]
  /\ \A s \in S \ done : m[nx[s]] < m[s]
  /\ Rounds(S, done, nx, out, g)
\* P is a property of states every round keeps.
Kept(S, done, nx, P) == P \in SUBSET S /\ \A s \in P \ done : nx[s] \in P

\* The result of a loop is that of a final state; what holds of the first state
\* and is kept by every round holds of it.
LEMMA LoopKeeps ==
  ASSUME NEW S, NEW done, NEW nx, NEW out, NEW m, NEW g, Loop(S, done, nx, out, m, g),
         NEW P, Kept(S, done, nx, P), NEW s0 \in P
  PROVE  \E d \in P \cap done : g[s0] = out[d]
<1> USE DEF Loop, Rounds, Kept
<1> DEFINE Wrong == {s \in P : \A d \in P \cap done : g[s] # out[d]}
           M == {m[s] : s \in Wrong}
<1>1. SUFFICES Wrong = {}
  OBVIOUS
<1>2. SUFFICES ASSUME Wrong # {} PROVE FALSE
  OBVIOUS
<1>3. M \in SUBSET Nat /\ M # {}
  BY <1>2
<1>4. PICK k \in M : \A l \in M : k <= l
  <2> HIDE DEF M
  <2> QED BY <1>3, Least
<1>5. PICK s \in Wrong : m[s] = k
  BY <1>4
<1>6. s \notin done
  BY <1>5
<1>7. nx[s] \in P /\ m[nx[s]] < m[s] /\ g[nx[s]] = g[s]
  BY <1>6
<1>8. nx[s] \in Wrong
  BY <1>7
<1>9. m[nx[s]] \in M
  BY <1>8
<1>10. m[s] \in Nat /\ m[nx[s]] \in Nat
  BY <1>7
<1>11. k <= m[nx[s]]
  <2> HIDE DEF M
  <2> QED BY <1>9, <1>4
<1> QED BY <1>5, <1>7, <1>10, <1>11
-----------------------------------------------------------------------------
\* Swap exchanges two elements and leaves the rest.
LEMMA SwapCells ==
  ASSUME NEW D, NEW h \in Seq(D), NEW i \in 1..Len(h), NEW j \in 1..Len(h)
  PROVE  /\ Swap(h, i, j) \in Seq(D)
         /\ Len(Swap(h, i, j)) = Len(h)
         /\ Swap(h, i, j)[i] = h[j]
         /\ Swap(h, i, j)[j] = h[i]
         /\ \A k \in 1..Len(h) : k # i /\ k # j => Swap(h, i, j)[k] = h[k]
         /\ ToSet(Swap(h, i, j)) = ToSet(h)
<1> PICK t : t = Swap(h, i, j)
  OBVIOUS
<1> DOMAIN h = 1..Len(h) /\ Len(h) \in Nat
  OBVIOUS
<1> PICK u : u = [h EXCEPT ![i] = h[j]]
  OBVIOUS
<1>0. DOMAIN u = 1..Len(h) /\ \A k \in 1..Len(h) : u[k] = IF k = i THEN h[j] ELSE h[k]
  OBVIOUS
<1>a. t = [u EXCEPT ![j] = h[i]]
  BY DEF Swap
<1>1. t = [k \in 1..Len(h) |-> t[k]]
  BY <1>a, <1>0
<1>3. \A k \in 1..Len(h) : t[k] = IF k = j THEN h[i] ELSE IF k = i THEN h[j] ELSE h[k]
  BY <1>a, <1>0
<1>2. t \in Seq(D) /\ Len(t) = Len(h)
  <2>1. \A k \in 1..Len(h) : t[k] \in D
    BY <1>3
  <2> QED BY <1>1, <2>1
<1>4. ToSet(t) = ToSet(h)
  <2>1. DOMAIN t = 1..Len(h) /\ DOMAIN h = 1..Len(h)
    BY <1>2
  <2>2. ASSUME NEW x \in ToSet(t) PROVE x \in ToSet(h)
    BY <2>1, <1>3 DEF ToSet
  <2>3. ASSUME NEW x \in ToSet(h) PROVE x \in ToSet(t)
    <3>1. PICK k \in 1..Len(h) : x = h[k]
      BY <2>1 DEF ToSet
    <3>2. \E l \in 1..Len(h) : t[l] = x
      BY <3>1, <1>3
    <3> QED BY <3>2, <2>1 DEF ToSet
  <2> QED BY <2>2, <2>3
<1> QED BY <1>2, <1>3, <1>4

DownGoesOn(s, key) ==
  /\ 2 * s[2] <= Len(s[1])
  /\ key[s[1][SmallerChild(s[1], s[2], key)]] < key[s[1][s[2]]]
DownNext(s, key) ==
  <<Swap(s[1], s[2], SmallerChild(s[1], s[2], key)), SmallerChild(s[1], s[2], key)>>

UpGoesOn(s, key) == s[2] # 1 /\ ~(key[s[1][s[2] \div 2]] <= key[s[1][s[2]]])
UpNext(s, key)   == <<Swap(s[1], s[2], s[2] \div 2), s[2] \div 2>>

\* The smaller child is a child.
LEMMA ChildBelow ==
  ASSUME NEW h, NEW i, NEW key, Len(h) \in Nat, i \in 1..Len(h), 2 * i <= Len(h)
  PROVE  SmallerChild(h, i, key) \in {2 * i, 2 * i + 1} /\ SmallerChild(h, i, key) \in 1..Len(h)
         /\ SmallerChild(h, i, key) > i
  BY DEF SmallerChild

\* A round of either loop stays within the array.
LEMMA StepsStay ==
  ASSUME NEW D, NEW key \in [D -> Int], NEW s \in Moving(key)
  PROVE  /\ s[1] \in Seq(D) /\ s[2] \in 1..Len(s[1]) /\ s = <<s[1], s[2]>>
         /\ DownGoesOn(s, key) => /\ DownNext(s, key) \in Moving(key)
                                  /\ Len(DownNext(s, key)[1]) = Len(s[1])
                                  /\ DownNext(s, key)[2] > s[2]
         /\ UpGoesOn(s, key)   => /\ UpNext(s, key) \in Moving(key)
                                  /\ UpNext(s, key)[2] < s[2]
<1>1. s[1] \in Seq(D) /\ s[2] \in 1..Len(s[1]) /\ s = <<s[1], s[2]>> /\ DOMAIN key = D
  BY DEF Moving
<1>2. ASSUME DownGoesOn(s, key)
      PROVE  DownNext(s, key) \in Moving(key) /\ Len(DownNext(s, key)[1]) = Len(s[1])
             /\ DownNext(s, key)[2] > s[2]
  <2> PICK c : c = SmallerChild(s[1], s[2], key)
    OBVIOUS
  <2>1. c \in 1..Len(s[1]) /\ c > s[2]
    BY <1>1, <1>2, ChildBelow DEF DownGoesOn
  <2> PICK t : t = Swap(s[1], s[2], c)
    OBVIOUS
  <2>2. t \in Seq(D) /\ Len(t) = Len(s[1])
    BY <1>1, <2>1, SwapCells
  <2>3. DownNext(s, key) = <<t, c>>
    BY DEF DownNext
  <2> QED BY <1>1, <2>1, <2>2, <2>3 DEF Moving
<1>3. ASSUME UpGoesOn(s, key)
      PROVE  UpNext(s, key) \in Moving(key) /\ UpNext(s, key)[2] < s[2]
  <2> PICK c : c = s[2] \div 2
    OBVIOUS
  <2>1. c \in 1..Len(s[1]) /\ c < s[2]
    BY <1>1, <1>3 DEF UpGoesOn
  <2> PICK t : t = Swap(s[1], s[2], c)
    OBVIOUS
  <2>2. t \in Seq(D) /\ Len(t) = Len(s[1])
    BY <1>1, <2>1, SwapCells
  <2>3. UpNext(s, key) = <<t, c>>
    BY DEF UpNext
  <2> QED BY <1>1, <2>1, <2>2, <2>3 DEF Moving
<1> QED BY <1>1, <1>2, <1>3

\* The array perocolate_down returns is one at which its loop stops, and has what
\* holds of the first array and survives each round.
LEMMA DownKeeps ==
  ASSUME NEW D, NEW key \in [D -> Int], NEW a \in Seq(D), NEW hole \in 1..Len(a),
         NEW P \in SUBSET Moving(key), <<a, hole>> \in P,
         \A s \in P : DownGoesOn(s, key) => DownNext(s, key) \in P
  PROVE  \E s \in P : ~ DownGoesOn(s, key) /\ perocolate_down(a, hole, key) = s[1]
<1> DEFINE S == Moving(key)
           done == {s \in S : ~ DownGoesOn(s, key)}
           nx == [s \in S |-> IF DownGoesOn(s, key) THEN DownNext(s, key) ELSE s]
           out == [s \in S |-> s[1]]
           m == [s \in S |-> Len(s[1]) - s[2]]
           Body(g, s) == IF 2 * s[2] <= Len(s[1]) /\ key[s[1][SmallerChild(s[1], s[2], key)]] < key[s[1][s[2]]]
                         THEN g[<<Swap(s[1], s[2], SmallerChild(s[1], s[2], key)), SmallerChild(s[1], s[2], key)>>]
                         ELSE s[1]
<1>1. nx \in [S -> S] /\ m \in [S -> Nat] /\ \A s \in S \ done : m[nx[s]] < m[s]
  <2>1. \A s \in S : DownGoesOn(s, key) => DownNext(s, key) \in S
    BY StepsStay
  <2>2. nx \in [S -> S]
    <3> HIDE DEF S
    <3> QED BY <2>1
  <2>3. \A s \in S : Len(s[1]) \in Nat /\ s[2] \in 1..Len(s[1])
    BY StepsStay
  <2>4. m \in [S -> Nat]
    <3>1. \A s \in S : Len(s[1]) - s[2] \in Nat
      <4> HIDE DEF S
      <4> QED BY <2>3
    <3> HIDE DEF S
    <3> QED BY <3>1
  <2>5. ASSUME NEW s \in S \ done PROVE m[nx[s]] < m[s]
    <3>1. DownGoesOn(s, key) /\ nx[s] = DownNext(s, key)
      OBVIOUS
    <3> PICK t : t = DownNext(s, key)
      OBVIOUS
    <3>2. t \in S /\ Len(t[1]) = Len(s[1]) /\ t[2] > s[2]
      BY <3>1, StepsStay
    <3>3. m[t] = Len(t[1]) - t[2] /\ m[s] = Len(s[1]) - s[2]
      <4> HIDE DEF S
      <4> QED BY <3>2
    <3> HIDE DEF m, nx, S, done
    <3>4. Len(s[1]) \in Nat /\ s[2] \in Nat /\ t[2] \in Nat
      BY <2>3, <3>2 DEF S, done
    <3> QED BY <3>1, <3>2, <3>3, <3>4
  <2> QED BY <2>2, <2>4, <2>5
<1>v. PICK V : V = Seq(D)
  OBVIOUS
<1>2. \E g \in [S -> V] : Rounds(S, done, nx, out, g)
  <2>1. done \in SUBSET S
    OBVIOUS
  <2>2. out \in [S -> V]
    <3>1. \A s \in S : s[1] \in V
      BY <1>v, StepsStay
    <3> HIDE DEF S
    <3> QED BY <3>1
  <2>3. nx \in [S -> S]
    BY <1>1
  <2> HIDE DEF nx, out, S, done, Body, m
  <2> QED BY <2>1, <2>2, <2>3, LoopExists, Zenon
<1>3. \A g : \A s \in S : Body(g, s) = IF s \in done THEN out[s] ELSE g[nx[s]]
  <2> HIDE DEF S
  <2> QED BY DEF DownGoesOn, DownNext
<1>4. \E g : g = [s \in S |-> Body(g, s)]
  <2>1. PICK g \in [S -> V] : Rounds(S, done, nx, out, g)
    BY <1>2
  <2>2. \A s \in S : g[s] = Body(g, s)
    <3> HIDE DEF Body, S, done, out, nx, m
    <3> QED BY <2>1, <1>3 DEF Rounds
  <2>3. g = [s \in S |-> Body(g, s)]
    <3> HIDE DEF Body, S, done, out, nx, m
    <3> QED BY <2>1, <2>2
  <2> HIDE DEF Body, S, done, out, nx, m
  <2> QED BY <2>3
<1>5. PICK down : /\ down = CHOOSE g : g = [s \in S |-> Body(g, s)]
                  /\ perocolate_down(a, hole, key) = down[<<a, hole>>]
  BY Zenon DEF perocolate_down
<1>6. down = [s \in S |-> Body(down, s)]
  <2> HIDE DEF Body, S
  <2> QED BY <1>4, <1>5
<1>7. Rounds(S, done, nx, out, down)
  <2>1. \A s \in S : down[s] = Body(down, s)
    <3> HIDE DEF Body, S
    <3> QED BY <1>6
  <2> HIDE DEF Body, S, done, out, nx
  <2> QED BY <2>1, <1>3 DEF Rounds
<1>8. \A s \in P \ done : nx[s] \in P
  OBVIOUS
<1>9. \E d \in P \cap done : down[<<a, hole>>] = out[d]
  <2>1. done \in SUBSET S
    OBVIOUS
  <2>2. P \in SUBSET S
    OBVIOUS
  <2>3. Loop(S, done, nx, out, m, down)
    <3> HIDE DEF S, done, out, nx, m, Body
    <3> QED BY <1>1, <1>7, <2>1 DEF Loop
  <2>4. Kept(S, done, nx, P)
    <3> HIDE DEF S, done, out, nx, m, Body
    <3> QED BY <1>8, <2>2 DEF Kept
  <2> HIDE DEF S, done, out, nx, m, Body
  <2> QED BY <2>3, <2>4, LoopKeeps
<1>10. PICK d \in P \cap done : down[<<a, hole>>] = out[d]
  BY <1>9
<1>11. d \in P /\ ~ DownGoesOn(d, key) /\ out[d] = d[1]
  BY <1>10
<1> QED BY <1>5, <1>10, <1>11

\* The same for the loop that moves a timer towards the root.
LEMMA UpKeeps ==
  ASSUME NEW D, NEW key \in [D -> Int], NEW a \in Seq(D), Len(a) > 0,
         NEW P \in SUBSET Moving(key), <<a, Len(a)>> \in P,
         \A s \in P : UpGoesOn(s, key) => UpNext(s, key) \in P
  PROVE  \E s \in P : ~ UpGoesOn(s, key) /\ sift_up(a, key) = s[1]
<1> DEFINE S == Moving(key)
           done == {s \in S : ~ UpGoesOn(s, key)}
           nx == [s \in S |-> IF UpGoesOn(s, key) THEN UpNext(s, key) ELSE s]
           out == [s \in S |-> s[1]]
           m == [s \in S |-> s[2]]
           Body(g, s) == IF s[2] = 1 \/ key[s[1][s[2] \div 2]] <= key[s[1][s[2]]] THEN s[1]
                         ELSE g[<<Swap(s[1], s[2], s[2] \div 2), s[2] \div 2>>]
<1>1. nx \in [S -> S] /\ m \in [S -> Nat] /\ \A s \in S \ done : m[nx[s]] < m[s]
  <2>1. \A s \in S : UpGoesOn(s, key) => UpNext(s, key) \in S /\ UpNext(s, key)[2] < s[2]
    BY StepsStay
  <2>2. nx \in [S -> S]
    <3> HIDE DEF S
    <3> QED BY <2>1
  <2>3. \A s \in S : s[2] \in Nat
    <3>1. \A s \in S : Len(s[1]) \in Nat /\ s[2] \in 1..Len(s[1])
      BY StepsStay
    <3> HIDE DEF S
    <3> QED BY <3>1
  <2> HIDE DEF S
  <2>4. m \in [S -> Nat]
    BY <2>3
  <2>5. ASSUME NEW s \in S \ done PROVE m[nx[s]] < m[s]
    <3>1. UpGoesOn(s, key) /\ nx[s] = UpNext(s, key)
      OBVIOUS
    <3> PICK t : t = UpNext(s, key)
      OBVIOUS
    <3>2. t \in S /\ t[2] < s[2]
      BY <3>1, <2>1
    <3>3. m[t] = t[2] /\ m[s] = s[2]
      BY <3>2
    <3> HIDE DEF m, nx, done
    <3> QED BY <3>1, <3>2, <3>3
  <2> QED BY <2>2, <2>4, <2>5
<1>v. PICK V : V = Seq(D)
  OBVIOUS
<1>2. \E g \in [S -> V] : Rounds(S, done, nx, out, g)
  <2>1. done \in SUBSET S
    OBVIOUS
  <2>2. out \in [S -> V]
    <3>1. \A s \in S : s[1] \in V
      BY <1>v, StepsStay
    <3> HIDE DEF S
    <3> QED BY <3>1
  <2>3. nx \in [S -> S]
    BY <1>1
  <2> HIDE DEF nx, out, S, done, Body, m
  <2> QED BY <2>1, <2>2, <2>3, LoopExists, Zenon
<1>3. \A g : \A s \in S : Body(g, s) = IF s \in done THEN out[s] ELSE g[nx[s]]
  <2> HIDE DEF S
  <2> QED BY DEF UpGoesOn, UpNext
<1>4. \E g : g = [s \in S |-> Body(g, s)]
  <2>1. PICK g \in [S -> V] : Rounds(S, done, nx, out, g)
    BY <1>2
  <2> HIDE DEF Body, S, done, out, nx, m
  <2>2. \A s \in S : g[s] = Body(g, s)
    BY <2>1, <1>3 DEF Rounds
  <2>3. g = [s \in S |-> Body(g, s)]
    BY <2>1, <2>2
  <2> QED BY <2>3
<1>5. PICK up : /\ up = CHOOSE g : g = [s \in S |-> Body(g, s)]
                /\ sift_up(a, key) = up[<<a, Len(a)>>]
  BY Zenon DEF sift_up
<1>6. up = [s \in S |-> Body(up, s)]
  <2> HIDE DEF Body, S
  <2> QED BY <1>4, <1>5
<1>7. Rounds(S, done, nx, out, up)
  <2>1. \A s \in S : up[s] = Body(up, s)
    <3> HIDE DEF Body, S
    <3> QED BY <1>6
  <2> HIDE DEF Body, S, done, out, nx, m
  <2> QED BY <2>1, <1>3 DEF Rounds
<1>8. Kept(S, done, nx, P)
  <2>1. P \in SUBSET S /\ \A s \in P \ done : nx[s] \in P
    OBVIOUS
  <2> HIDE DEF S, done, nx
  <2> QED BY <2>1 DEF Kept
<1>9. Loop(S, done, nx, out, m, up)
  <2>1. done \in SUBSET S
    OBVIOUS
  <2> HIDE DEF S, done, out, nx, m, Body
  <2> QED BY <1>1, <1>7, <2>1 DEF Loop
<1>10. PICK d \in P \cap done : up[<<a, Len(a)>>] = out[d]
  <2> HIDE DEF S, done, out, nx, m, Body
  <2> QED BY <1>8, <1>9, LoopKeeps
<1>11. d \in P /\ ~ UpGoesOn(d, key) /\ out[d] = d[1]
  BY <1>10
<1> QED BY <1>5, <1>10, <1>11

-----------------------------------------------------------------------------
\* Both loops permute the array.
LEMMA DownPermutes ==
  ASSUME NEW D, NEW key \in [D -> Int], NEW a \in Seq(D), NEW hole \in 1..Len(a)
  PROVE  /\ perocolate_down(a, hole, key) \in Seq(D)
         /\ Len(perocolate_down(a, hole, key)) = Len(a)
         /\ ToSet(perocolate_down(a, hole, key)) = ToSet(a)
<1> DEFINE P == {s \in Moving(key) : Len(s[1]) = Len(a) /\ ToSet(s[1]) = ToSet(a)}
<1>1. <<a, hole>> \in P
  BY DEF Moving
<1>2. ASSUME NEW s \in P, DownGoesOn(s, key) PROVE DownNext(s, key) \in P
  <2>1. s[1] \in Seq(D) /\ s[2] \in 1..Len(s[1]) /\ DownNext(s, key) \in Moving(key)
        /\ Len(DownNext(s, key)[1]) = Len(s[1])
    BY <1>2, StepsStay
  <2>2. SmallerChild(s[1], s[2], key) \in 1..Len(s[1])
    BY <1>2, <2>1, ChildBelow DEF DownGoesOn
  <2>3. ToSet(DownNext(s, key)[1]) = ToSet(s[1])
    <3>c. PICK c : c = SmallerChild(s[1], s[2], key)
      OBVIOUS
    <3>h. PICK h : h = s[1]
      OBVIOUS
    <3>i. PICK i : i = s[2]
      OBVIOUS
    <3>1. DownNext(s, key)[1] = Swap(h, i, c)
      BY <3>c, <3>h, <3>i DEF DownNext
    <3>2. h \in Seq(D) /\ i \in 1..Len(h) /\ c \in 1..Len(h)
      BY <2>1, <2>2, <3>c, <3>h, <3>i
    <3> HIDE DEF P
    <3>3. ToSet(Swap(h, i, c)) = ToSet(h)
      BY <3>2, SwapCells
    <3> QED BY <3>1, <3>3, <3>h
  <2> QED BY <2>1, <2>3
<1>3. PICK s \in P : perocolate_down(a, hole, key) = s[1]
  <2>1. P \in SUBSET Moving(key)
    OBVIOUS
  <2> HIDE DEF P
  <2> QED BY <1>1, <1>2, <2>1, DownKeeps
<1>4. s[1] \in Seq(D)
  BY StepsStay
<1> QED BY <1>3, <1>4

LEMMA UpPermutes ==
  ASSUME NEW D, NEW key \in [D -> Int], NEW a \in Seq(D), Len(a) > 0
  PROVE  /\ sift_up(a, key) \in Seq(D)
         /\ Len(sift_up(a, key)) = Len(a)
         /\ ToSet(sift_up(a, key)) = ToSet(a)
<1> DEFINE P == {s \in Moving(key) : Len(s[1]) = Len(a) /\ ToSet(s[1]) = ToSet(a)}
<1>1. <<a, Len(a)>> \in P
  BY DEF Moving
<1>2. ASSUME NEW s \in P, UpGoesOn(s, key) PROVE UpNext(s, key) \in P
  <2>1. s[1] \in Seq(D) /\ s[2] \in 1..Len(s[1]) /\ UpNext(s, key) \in Moving(key)
    BY <1>2, StepsStay
  <2>2. s[2] \div 2 \in 1..Len(s[1])
    BY <1>2, <2>1 DEF UpGoesOn
  <2>3. ToSet(UpNext(s, key)[1]) = ToSet(s[1]) /\ Len(UpNext(s, key)[1]) = Len(s[1])
    BY <2>1, <2>2, SwapCells DEF UpNext
  <2> QED BY <2>1, <2>3
<1>3. PICK s \in P : sift_up(a, key) = s[1]
  <2>1. P \in SUBSET Moving(key)
    OBVIOUS
  <2> HIDE DEF P
  <2> QED BY <1>1, <1>2, <2>1, UpKeeps
<1>4. s[1] \in Seq(D)
  BY StepsStay
<1> QED BY <1>3, <1>4

\* add_timer adds its argument and keeps the rest.
LEMMA AddContents ==
  ASSUME NEW D, NEW key \in [D -> Int], NEW a \in Seq(D), NEW t \in D
  PROVE  /\ add_timer(a, t, key) \in Seq(D)
         /\ Len(add_timer(a, t, key)) = Len(a) + 1
         /\ ToSet(add_timer(a, t, key)) = ToSet(a) \cup {t}
<1> PICK b : b = Append(a, t)
  OBVIOUS
<1>1. b \in Seq(D) /\ Len(b) = Len(a) + 1
      /\ \A i \in 1..Len(b) : b[i] = IF i = Len(b) THEN t ELSE a[i]
  OBVIOUS
<1>2. ToSet(b) = ToSet(a) \cup {t}
  <2>1. DOMAIN a = 1..Len(a) /\ DOMAIN b = 1..Len(b) /\ Len(a) \in Nat
    BY <1>1
  <2>2. ToSet(b) \subseteq ToSet(a) \cup {t}
    BY <1>1, <2>1 DEF ToSet
  <2>3. \A i \in 1..Len(a) : b[i] = a[i] /\ i \in 1..Len(b)
    BY <1>1, <2>1
  <2>4. b[Len(b)] = t /\ Len(b) \in 1..Len(b)
    BY <1>1, <2>1
  <2>5. ToSet(a) \cup {t} \subseteq ToSet(b)
    BY <2>1, <2>3, <2>4 DEF ToSet
  <2> QED BY <2>2, <2>5
<1>3. add_timer(a, t, key) = sift_up(b, key)
  BY DEF add_timer
<1>4. Len(b) > 0
  BY <1>1
<1> PICK r : r = sift_up(b, key)
  OBVIOUS
<1>5. r \in Seq(D) /\ Len(r) = Len(b) /\ ToSet(r) = ToSet(b)
  BY <1>1, <1>4, UpPermutes
<1> QED BY <1>1, <1>2, <1>3, <1>5

\* The array pop gives to perocolate_down: the last timer in front, without the root.
Rest(a) == <<Last(a)>> \o SubSeq(a, 2, Len(a) - 1)

LEMMA Rearranged ==
  ASSUME NEW D, NEW a \in Seq(D), Len(a) > 1
  PROVE  /\ Rest(a) \in Seq(D) /\ Len(Rest(a)) = Len(a) - 1
         /\ Rest(a)[1] = a[Len(a)] /\ \A i \in 2..Len(Rest(a)) : Rest(a)[i] = a[i]
<1>0. Len(a) \in Nat
  OBVIOUS
<1>d. DOMAIN a = 1..Len(a)
  OBVIOUS
<1>l. PICK l : l = <<Last(a)>>
  OBVIOUS
<1>r. PICK r : r = SubSeq(a, 2, Len(a) - 1)
  OBVIOUS
<1>b. PICK b : b = Rest(a)
  OBVIOUS
<1>2. l \in Seq(D) /\ Len(l) = 1 /\ l[1] = a[Len(a)]
  BY <1>0, <1>l DEF Last
<1>3. r \in Seq(D) /\ Len(r) = Len(a) - 2 /\ \A i \in 1..Len(r) : r[i] = a[i + 1]
  BY <1>0, <1>d, <1>r
<1>4. /\ b \in Seq(D) /\ Len(b) = Len(l) + Len(r)
      /\ \A i \in 1..Len(l) + Len(r) : b[i] = IF i <= Len(l) THEN l[i] ELSE r[i - Len(l)]
  <2>1. l \in Seq(D) /\ r \in Seq(D)
    BY <1>2, <1>3
  <2>2. /\ l \o r \in Seq(D) /\ Len(l \o r) = Len(l) + Len(r)
        /\ \A i \in 1..Len(l) + Len(r) : (l \o r)[i] = IF i <= Len(l) THEN l[i] ELSE r[i - Len(l)]
    BY <2>1, ConcatProperties
  <2> QED BY <2>2, <1>l, <1>r, <1>b DEF Rest
<1>5. Len(b) = Len(a) - 1
  BY <1>0, <1>2, <1>3, <1>4
<1>6. b[1] = a[Len(a)]
  BY <1>0, <1>2, <1>3, <1>4
<1>7. ASSUME NEW i \in 2..Len(b) PROVE b[i] = a[i]
  <2>1. i - 1 \in 1..Len(r) /\ i \in 1 .. Len(l) + Len(r) /\ ~(i <= Len(l))
    BY <1>0, <1>2, <1>3, <1>5
  <2>2. b[i] = r[i - 1]
    BY <1>2, <1>4, <2>1
  <2>3. r[i - 1] = a[(i - 1) + 1] /\ (i - 1) + 1 = i
    BY <1>3, <2>1
  <2> QED BY <2>2, <2>3
<1> QED BY <1>b, <1>4, <1>5, <1>6, <1>7

\* pop takes the root out, one element, and keeps the rest.
LEMMA PopContents ==
  ASSUME NEW D, NEW key \in [D -> Int], NEW a \in Seq(D), Len(a) > 0
  PROVE  /\ pop(a, key) \in Seq(D)
         /\ Len(pop(a, key)) = Len(a) - 1
         /\ ToSet(pop(a, key)) \subseteq ToSet(a)
         /\ ToSet(a) \subseteq ToSet(pop(a, key)) \cup {a[1]}
<1>0. Len(a) \in Nat /\ Len(a) > 0
  OBVIOUS
<1>d. DOMAIN a = 1..Len(a)
  OBVIOUS
<1>1. CASE Len(a) <= 1
  <2>1. pop(a, key) = <<>> /\ Len(a) = 1
    BY <1>0, <1>d, <1>1 DEF pop
  <2> QED BY <1>0, <2>1 DEF ToSet
<1>2. CASE Len(a) > 1
  <2>b. PICK b : b = Rest(a)
    OBVIOUS
  <2>1. pop(a, key) = perocolate_down(b, 1, key)
    BY <1>0, <1>2, <2>b DEF pop, Rest
  <2>4. b \in Seq(D) /\ Len(b) = Len(a) - 1
    BY <1>2, <2>b, Rearranged
  <2>5. b[1] = a[Len(a)] /\ \A i \in 2..Len(b) : b[i] = a[i]
    BY <1>2, <2>b, Rearranged
  <2>6. DOMAIN b = 1..Len(b)
    BY <2>4
  <2>7. ToSet(b) \subseteq ToSet(a)
    <3>1. ASSUME NEW i \in 1..Len(b) PROVE b[i] \in ToSet(a)
      <4>1. CASE i = 1
        BY <4>1, <2>5, <1>0, <1>d DEF ToSet
      <4>2. CASE i # 1
        <5>1. i \in 2..Len(b) /\ i \in 1..Len(a)
          BY <4>2, <2>4, <1>0
        <5> QED BY <2>5, <5>1, <1>d DEF ToSet
      <4> QED BY <4>1, <4>2
    <3> QED BY <3>1, <2>6 DEF ToSet
  <2>8. ToSet(a) \subseteq ToSet(b) \cup {a[1]}
    <3>1. ASSUME NEW i \in 1..Len(a) PROVE a[i] \in ToSet(b) \cup {a[1]}
      <4>1. CASE i = 1
        BY <4>1
      <4>2. CASE i = Len(a)
        <5>1. 1 \in DOMAIN b
          BY <1>0, <1>2, <2>4
        <5> QED BY <4>2, <2>5, <5>1 DEF ToSet
      <4>3. CASE i # 1 /\ i # Len(a)
        <5>1. i \in Nat /\ i >= 2 /\ i <= Len(a) - 1
          BY <4>3, <1>0
        <5>2. i \in 2..Len(b) /\ i \in DOMAIN b
          BY <5>1, <1>0, <2>4, <2>6
        <5> QED BY <2>5, <5>2 DEF ToSet
      <4> QED BY <4>1, <4>2, <4>3
    <3> QED BY <3>1, <1>0, <1>d DEF ToSet
  <2>9. 1 \in 1..Len(b)
    BY <1>0, <1>2, <2>4
  <2>d. PICK d : d = perocolate_down(b, 1, key)
    OBVIOUS
  <2>10. d \in Seq(D) /\ Len(d) = Len(b) /\ ToSet(d) = ToSet(b)
    BY <2>d, <2>4, <2>9, DownPermutes
  <2> QED BY <2>d, <2>1, <2>4, <2>7, <2>8, <2>10
<1>3. Len(a) <= 1 \/ Len(a) > 1
  BY <1>0
<1> QED BY <1>1, <1>2, <1>3

\* real_adjust keeps all.
LEMMA AdjustContents ==
  ASSUME NEW D, NEW key \in [D -> Int], NEW a \in Seq(D), Len(a) > 0
  PROVE  /\ real_adjust(a, key) \in Seq(D)
         /\ Len(real_adjust(a, key)) = Len(a)
         /\ ToSet(real_adjust(a, key)) = ToSet(a)
<1>0. Len(a) \in Nat /\ Len(a) > 0 /\ a[1] \in D /\ a[1] \in ToSet(a)
  BY DEF ToSet
<1>1. CASE Len(a) <= 1
  BY <1>1 DEF real_adjust
<1>2. CASE Len(a) > 1
  <2>p. PICK p : p = pop(a, key)
    OBVIOUS
  <2>1. p \in Seq(D) /\ Len(p) = Len(a) - 1 /\ ToSet(p) \cup {a[1]} = ToSet(a)
    BY <1>0, <2>p, PopContents
  <2>2. real_adjust(a, key) = add_timer(p, a[1], key)
    BY <1>0, <1>2, <2>p DEF real_adjust, add_timer
  <2>t. PICK t : t = a[1]
    OBVIOUS
  <2>q. PICK r : r = add_timer(p, t, key)
    OBVIOUS
  <2>3. p \in Seq(D) /\ t \in D
    BY <1>0, <2>1, <2>t
  <2>4. r \in Seq(D) /\ Len(r) = Len(p) + 1 /\ ToSet(r) = ToSet(p) \cup {t}
    <3>1. /\ add_timer(p, t, key) \in Seq(D)
          /\ Len(add_timer(p, t, key)) = Len(p) + 1
          /\ ToSet(add_timer(p, t, key)) = ToSet(p) \cup {t}
      BY <2>3, AddContents, SMTT(30)
    <3> QED BY <2>q, <3>1
  <2> QED BY <1>0, <2>t, <2>q, <2>1, <2>2, <2>4
<1>3. Len(a) <= 1 \/ Len(a) > 1
  BY <1>0
<1> QED BY <1>1, <1>2, <1>3

-----------------------------------------------------------------------------
\* Both loops keep an array in which no timer is twice so.
Distinct(h) == \A i, j \in 1..Len(h) : h[i] = h[j] => i = j

LEMMA SwapDistinct ==
  ASSUME NEW D, NEW h \in Seq(D), NEW i \in 1..Len(h), NEW j \in 1..Len(h), Distinct(h)
  PROVE  Distinct(Swap(h, i, j))
<1>t. PICK t : t = Swap(h, i, j)
  OBVIOUS
<1>1. /\ Len(t) = Len(h) /\ t[i] = h[j] /\ t[j] = h[i]
      /\ \A k \in 1..Len(h) : k # i /\ k # j => t[k] = h[k]
  BY <1>t, SwapCells
<1>2. ASSUME NEW k \in 1..Len(t), NEW l \in 1..Len(t), t[k] = t[l] PROVE k = l
  BY <1>1, <1>2 DEF Distinct
<1> QED BY <1>2, <1>t DEF Distinct

LEMMA DownDistinct ==
  ASSUME NEW D, NEW key \in [D -> Int], NEW a \in Seq(D), NEW hole \in 1..Len(a), Distinct(a)
  PROVE  Distinct(perocolate_down(a, hole, key))
<1> DEFINE P == {s \in Moving(key) : Distinct(s[1])}
<1>1. <<a, hole>> \in P
  BY DEF Moving
<1>2. ASSUME NEW s \in P, DownGoesOn(s, key) PROVE DownNext(s, key) \in P
  <2>1. s[1] \in Seq(D) /\ s[2] \in 1..Len(s[1]) /\ DownNext(s, key) \in Moving(key)
    BY <1>2, StepsStay
  <2>2. SmallerChild(s[1], s[2], key) \in 1..Len(s[1])
    BY <1>2, <2>1, ChildBelow DEF DownGoesOn
  <2>c. PICK c : c = SmallerChild(s[1], s[2], key)
    OBVIOUS
  <2>3. DownNext(s, key)[1] = Swap(s[1], s[2], c)
    BY <2>c DEF DownNext
  <2>4. Distinct(s[1])
    OBVIOUS
  <2>5. Distinct(Swap(s[1], s[2], c))
    BY <2>1, <2>2, <2>c, <2>4, SwapDistinct
  <2> QED BY <2>1, <2>3, <2>5
<1>3. PICK s \in P : perocolate_down(a, hole, key) = s[1]
  <2>1. P \in SUBSET Moving(key)
    OBVIOUS
  <2> HIDE DEF P
  <2> QED BY <1>1, <1>2, <2>1, DownKeeps
<1> QED BY <1>3

LEMMA UpDistinct ==
  ASSUME NEW D, NEW key \in [D -> Int], NEW a \in Seq(D), Len(a) > 0, Distinct(a)
  PROVE  Distinct(sift_up(a, key))
<1> DEFINE P == {s \in Moving(key) : Distinct(s[1])}
<1>1. <<a, Len(a)>> \in P
  BY DEF Moving
<1>2. ASSUME NEW s \in P, UpGoesOn(s, key) PROVE UpNext(s, key) \in P
  <2>1. s[1] \in Seq(D) /\ s[2] \in 1..Len(s[1]) /\ UpNext(s, key) \in Moving(key)
    BY <1>2, StepsStay
  <2>c. PICK c : c = s[2] \div 2
    OBVIOUS
  <2>2. c \in 1..Len(s[1])
    BY <1>2, <2>1, <2>c DEF UpGoesOn
  <2>3. UpNext(s, key)[1] = Swap(s[1], s[2], c)
    BY <2>c DEF UpNext
  <2>4. Distinct(s[1])
    OBVIOUS
  <2>5. Distinct(Swap(s[1], s[2], c))
    BY <2>1, <2>2, <2>4, SwapDistinct
  <2> QED BY <2>1, <2>3, <2>5
<1>3. PICK s \in P : sift_up(a, key) = s[1]
  <2>1. P \in SUBSET Moving(key)
    OBVIOUS
  <2> HIDE DEF P
  <2> QED BY <1>1, <1>2, <2>1, UpKeeps
<1> QED BY <1>3

LEMMA AddDistinct ==
  ASSUME NEW D, NEW key \in [D -> Int], NEW a \in Seq(D), NEW t \in D,
         Distinct(a), t \notin ToSet(a)
  PROVE  Distinct(add_timer(a, t, key))
<1>b. PICK b : b = Append(a, t)
  OBVIOUS
<1>1. b \in Seq(D) /\ Len(b) = Len(a) + 1 /\ Len(a) \in Nat
      /\ \A i \in 1..Len(b) : b[i] = IF i = Len(b) THEN t ELSE a[i]
  BY <1>b
<1>2. \A i \in 1..Len(a) : a[i] # t
  <2>1. DOMAIN a = 1..Len(a)
    OBVIOUS
  <2> QED BY <2>1 DEF ToSet
<1>3. ASSUME NEW i \in 1..Len(b), NEW j \in 1..Len(b), b[i] = b[j] PROVE i = j
  <2>1. i # Len(b) => i \in 1..Len(a)
    BY <1>1
  <2>2. j # Len(b) => j \in 1..Len(a)
    BY <1>1
  <2> QED BY <1>1, <1>2, <1>3, <2>1, <2>2 DEF Distinct
<1>4. Distinct(b) /\ Len(b) > 0
  BY <1>1, <1>3 DEF Distinct
<1>5. Distinct(sift_up(b, key))
  BY <1>1, <1>4, UpDistinct
<1> QED BY <1>5, <1>b DEF add_timer

\* pop takes the root out for good.
LEMMA PopDistinct ==
  ASSUME NEW D, NEW key \in [D -> Int], NEW a \in Seq(D), Len(a) > 0, Distinct(a)
  PROVE  Distinct(pop(a, key)) /\ a[1] \notin ToSet(pop(a, key))
<1>0. Len(a) \in Nat
  OBVIOUS
<1>1. CASE Len(a) <= 1
  <2>1. pop(a, key) = <<>>
    BY <1>1 DEF pop
  <2> QED BY <2>1 DEF Distinct, ToSet
<1>2. CASE Len(a) > 1
  <2>b. PICK b : b = Rest(a)
    OBVIOUS
  <2>1. pop(a, key) = perocolate_down(b, 1, key)
    BY <1>0, <1>2, <2>b DEF pop, Rest
  <2>2. /\ b \in Seq(D) /\ Len(b) = Len(a) - 1
        /\ b[1] = a[Len(a)] /\ \A i \in 2..Len(b) : b[i] = a[i]
    BY <1>2, <2>b, Rearranged
  <2>3. 1 \in 1..Len(b)
    BY <1>0, <1>2, <2>2
  <2>4. \A i \in 1..Len(b) : \E j \in 2..Len(a) : b[i] = a[j] /\ (i = 1 => j = Len(a)) /\ (i # 1 => j = i)
    <3>1. ASSUME NEW i \in 1..Len(b)
          PROVE  \E j \in 2..Len(a) : b[i] = a[j] /\ (i = 1 => j = Len(a)) /\ (i # 1 => j = i)
      <4>1. CASE i = 1
        BY <4>1, <1>0, <1>2, <2>2
      <4>2. CASE i # 1
        <5>1. i \in 2..Len(b) /\ i \in 2..Len(a)
          BY <4>2, <1>0, <2>2
        <5> QED BY <4>2, <5>1, <2>2
      <4> QED BY <4>1, <4>2
    <3> QED BY <3>1
  <2>5. ASSUME NEW i \in 1..Len(b), NEW j \in 1..Len(b), b[i] = b[j] PROVE i = j
    <3>1. PICK k \in 2..Len(a) : b[i] = a[k] /\ (i = 1 => k = Len(a)) /\ (i # 1 => k = i)
      BY <2>4
    <3>2. PICK l \in 2..Len(a) : b[j] = a[l] /\ (j = 1 => l = Len(a)) /\ (j # 1 => l = j)
      BY <2>4
    <3>3. k = l
      <4>1. k \in 1..Len(a) /\ l \in 1..Len(a)
        BY <1>0
      <4> QED BY <4>1, <3>1, <3>2, <2>5 DEF Distinct
    <3>4. i # Len(a) /\ j # Len(a)
      BY <1>0, <2>2
    <3> QED BY <3>1, <3>2, <3>3, <3>4
  <2>6. Distinct(b)
    BY <2>5 DEF Distinct
  <2>7. \A i \in 1..Len(b) : b[i] # a[1]
    <3>1. ASSUME NEW i \in 1..Len(b), b[i] = a[1] PROVE FALSE
      <4>1. PICK k \in 2..Len(a) : b[i] = a[k]
        BY <2>4
      <4>2. k \in 1..Len(a) /\ 1 \in 1..Len(a) /\ k # 1
        BY <1>0, <1>2
      <4> QED BY <3>1, <4>1, <4>2 DEF Distinct
    <3> QED BY <3>1
  <2>8. a[1] \notin ToSet(b)
    <3>1. DOMAIN b = 1..Len(b)
      BY <2>2
    <3> QED BY <3>1, <2>7 DEF ToSet
  <2>d. PICK d : d = perocolate_down(b, 1, key)
    OBVIOUS
  <2>9. Distinct(d) /\ ToSet(d) = ToSet(b)
    BY <2>d, <2>2, <2>3, <2>6, DownDistinct, DownPermutes
  <2> QED BY <2>1, <2>d, <2>8, <2>9
<1>3. Len(a) <= 1 \/ Len(a) > 1
  BY <1>0
<1> QED BY <1>1, <1>2, <1>3

LEMMA AdjustDistinct ==
  ASSUME NEW D, NEW key \in [D -> Int], NEW a \in Seq(D), Len(a) > 0, Distinct(a)
  PROVE  Distinct(real_adjust(a, key))
<1>0. Len(a) \in Nat /\ a[1] \in D
  OBVIOUS
<1>1. CASE Len(a) <= 1
  BY <1>1 DEF real_adjust
<1>2. CASE Len(a) > 1
  <2>p. PICK p : p = pop(a, key)
    OBVIOUS
  <2>t. PICK t : t = a[1]
    OBVIOUS
  <2>1. p \in Seq(D) /\ Distinct(p) /\ t \notin ToSet(p) /\ t \in D
    BY <1>0, <2>p, <2>t, PopContents, PopDistinct
  <2>2. Distinct(add_timer(p, t, key))
    BY <2>1, AddDistinct
  <2>3. real_adjust(a, key) = add_timer(p, t, key)
    BY <1>0, <1>2, <2>p, <2>t DEF real_adjust, add_timer
  <2> QED BY <2>2, <2>3
<1>3. Len(a) <= 1 \/ Len(a) > 1
  BY <1>0
<1> QED BY <1>1, <1>2, <1>3

-----------------------------------------------------------------------------
\* The order of the heap, but for what hangs from position p.
OrderedBut(h, key, p) == \A i \in 2..Len(h) : i \div 2 # p => key[h[i \div 2]] <= key[h[i]]

\* In a heap the root expires first.
LEMMA RootFirst ==
  ASSUME NEW D, NEW key \in [D -> Int], NEW h \in Seq(D), IsHeap(h, key), NEW i \in 1..Len(h)
  PROVE  key[h[1]] <= key[h[i]]
<1> DEFINE W == {j \in 1..Len(h) : ~(key[h[1]] <= key[h[j]])}
<1>0. \A j \in 1..Len(h) : key[h[j]] \in Int
  OBVIOUS
<1>1. SUFFICES ASSUME W # {} PROVE FALSE
  OBVIOUS
<1>2. W \in SUBSET Nat
  OBVIOUS
<1>3. PICK m \in W : \A k \in W : m <= k
  <2> HIDE DEF W
  <2> QED BY <1>1, <1>2, Least
<1>4. m \in 1..Len(h) /\ ~(key[h[1]] <= key[h[m]])
  OBVIOUS
<1>5. m # 1
  <2>1. m = 1 => key[h[1]] <= key[h[m]]
    BY <1>0, <1>4
  <2> QED BY <1>4, <2>1
<1>6. m \in 2..Len(h) /\ m \div 2 \in 1..Len(h) /\ m \div 2 < m
  BY <1>4, <1>5
<1>7. key[h[m \div 2]] <= key[h[m]]
  BY <1>6 DEF IsHeap
<1>8. m \div 2 \notin W
  <2>1. m \div 2 \in W => m <= m \div 2
    BY <1>3
  <2> HIDE DEF W
  <2> QED BY <2>1, <1>6
<1>9. key[h[1]] <= key[h[m \div 2]]
  BY <1>8, <1>6
<1>10. 1 \in 1..Len(h)
  BY <1>6
<1> QED BY <1>0, <1>4, <1>6, <1>7, <1>9, <1>10

LEMMA Halves == ASSUME NEW n \in Nat, NEW i \in 2..n
                PROVE  i \in 1..n /\ i \div 2 \in 1..n /\ i \div 2 < i
  OBVIOUS

LEMMA ChildrenOf == ASSUME NEW n \in Nat, NEW p \in 1..n, NEW i \in 2..n, i \div 2 = p
                    PROVE  i \in {2 * p, 2 * p + 1} /\ 2 * p <= n
  OBVIOUS

\* The loop towards the root restores the order when only the last timer may
\* expire before its parent.
LEMMA UpOrders ==
  ASSUME NEW D, NEW key \in [D -> Int], NEW a \in Seq(D), Len(a) > 0,
         \A i \in 2..Len(a) : i # Len(a) => key[a[i \div 2]] <= key[a[i]]
  PROVE  IsHeap(sift_up(a, key), key)
<1> DEFINE Good(h, p) ==
             /\ \A i \in 2..Len(h) : i # p => key[h[i \div 2]] <= key[h[i]]
             /\ p # 1 => \A i \in 2..Len(h) : i \div 2 = p => key[h[p \div 2]] <= key[h[i]]
           P == {s \in Moving(key) : Good(s[1], s[2])}
<1>1. <<a, Len(a)>> \in P
  <2>1. <<a, Len(a)>> \in Moving(key)
    BY DEF Moving
  <2>2. \A i \in 2..Len(a) : i \div 2 # Len(a)
    OBVIOUS
  <2> QED BY <2>1, <2>2
<1>2. ASSUME NEW s \in P, UpGoesOn(s, key) PROVE UpNext(s, key) \in P
  <2>h. PICK h : h = s[1]
    OBVIOUS
  <2>p. PICK p : p = s[2]
    OBVIOUS
  <2>c. PICK c : c = p \div 2
    OBVIOUS
  <2>t. PICK t : t = Swap(h, p, c)
    OBVIOUS
  <2>1. s \in Moving(key) /\ Good(h, p)
    BY <2>h, <2>p
  <2>2. h \in Seq(D) /\ p \in 1..Len(h) /\ UpNext(s, key) \in Moving(key) /\ Len(h) \in Nat
    BY <1>2, <2>1, <2>h, <2>p, StepsStay
  <2>3. p # 1 /\ ~(key[h[c]] <= key[h[p]])
    BY <1>2, <2>h, <2>p, <2>c DEF UpGoesOn
  <2>4. c \in 1..Len(h) /\ c < p /\ p \in 2..Len(h)
    BY <2>2, <2>3, <2>c
  <2>5. UpNext(s, key) = <<t, c>>
    BY <2>h, <2>p, <2>c, <2>t DEF UpNext
  <2>6. /\ t \in Seq(D) /\ Len(t) = Len(h) /\ t[p] = h[c] /\ t[c] = h[p]
        /\ \A k \in 1..Len(h) : k # p /\ k # c => t[k] = h[k]
    <3>1. h \in Seq(D) /\ p \in 1..Len(h) /\ c \in 1..Len(h)
      BY <2>2, <2>4
    <3> HIDE DEF Good, P
    <3>2. /\ Swap(h, p, c) \in Seq(D) /\ Len(Swap(h, p, c)) = Len(h)
          /\ Swap(h, p, c)[p] = h[c] /\ Swap(h, p, c)[c] = h[p]
          /\ \A k \in 1..Len(h) : k # p /\ k # c => Swap(h, p, c)[k] = h[k]
      BY <3>1, SwapCells
    <3> QED BY <3>2, <2>t
  <2>7. \A k \in 1..Len(h) : key[h[k]] \in Int
    BY <2>2
  <2>8. ASSUME NEW i \in 2..Len(t), i # c PROVE key[t[i \div 2]] <= key[t[i]]
    <3>0. i \in 2..Len(h) /\ i \in 1..Len(h) /\ i \div 2 \in 1..Len(h)
      <4>1. i \in 2..Len(h)
        BY <2>6
      <4> QED BY <2>2, <4>1, Halves
    <3>1. CASE i = p
      BY <3>1, <2>3, <2>4, <2>6, <2>7, <2>c, <2>2
    <3>2. CASE i # p /\ i \div 2 = p
      <4>1. t[i] = h[i] /\ t[i \div 2] = h[c]
        BY <3>0, <3>2, <2>6, <2>8
      <4>2. key[h[c]] <= key[h[i]]
        BY <3>0, <3>2, <2>1, <2>3, <2>c
      <4> QED BY <4>1, <4>2
    <3>3. CASE i # p /\ i \div 2 = c
      <4>1. t[i] = h[i] /\ t[i \div 2] = h[p]
        BY <3>0, <3>3, <2>6, <2>8
      <4>2. key[h[c]] <= key[h[i]]
        BY <3>0, <3>3, <2>1
      <4>3. key[h[c]] \in Int /\ key[h[p]] \in Int /\ key[h[i]] \in Int
        BY <2>7, <2>4, <2>2, <3>0
      <4> QED BY <4>1, <4>2, <4>3, <2>3
    <3>4. CASE i # p /\ i \div 2 # p /\ i \div 2 # c
      <4>1. t[i] = h[i] /\ t[i \div 2] = h[i \div 2]
        BY <3>0, <3>4, <2>6, <2>8
      <4>2. key[h[i \div 2]] <= key[h[i]]
        BY <3>0, <3>4, <2>1
      <4> QED BY <4>1, <4>2
    <3> QED BY <3>1, <3>2, <3>3, <3>4
  <2>9. ASSUME c # 1, NEW i \in 2..Len(t), i \div 2 = c PROVE key[t[c \div 2]] <= key[t[i]]
    <3>0. i \in 2..Len(h) /\ i \in 1..Len(h) /\ c \div 2 \in 1..Len(h) /\ i # c
          /\ c \div 2 # c /\ c \div 2 # p /\ c \in 2..Len(h)
      <4>1. i \in 2..Len(h) /\ c \in 2..Len(h)
        BY <2>2, <2>4, <2>6, <2>9
      <4>2. i \in 1..Len(h) /\ i \div 2 < i /\ c \div 2 \in 1..Len(h) /\ c \div 2 < c
        BY <2>2, <4>1, Halves
      <4> QED BY <2>2, <2>4, <2>9, <4>1, <4>2
    <3>1. t[c \div 2] = h[c \div 2]
      BY <3>0, <2>6
    <3>2. key[h[c \div 2]] <= key[h[c]]
      BY <3>0, <2>1, <2>4
    <3>3. CASE i = p
      BY <3>1, <3>2, <3>3, <2>6
    <3>4. CASE i # p
      <4>1. t[i] = h[i] /\ key[h[c]] <= key[h[i]]
        BY <3>0, <3>4, <2>9, <2>6, <2>1
      <4>2. key[h[c]] \in Int /\ key[h[c \div 2]] \in Int /\ key[h[i]] \in Int
        BY <2>7, <2>4, <2>2, <3>0
      <4> QED BY <3>1, <3>2, <4>1, <4>2
    <3> QED BY <3>3, <3>4
  <2>10. Good(t, c)
    <3> HIDE DEF P
    <3> QED BY <2>8, <2>9
  <2> HIDE DEF Good
  <2> QED BY <2>2, <2>5, <2>10
<1>3. PICK s \in P : ~ UpGoesOn(s, key) /\ sift_up(a, key) = s[1]
  <2>1. P \in SUBSET Moving(key)
    OBVIOUS
  <2> HIDE DEF P
  <2> QED BY <1>1, <1>2, <2>1, UpKeeps
<1>4. PICK h : h = s[1]
  OBVIOUS
<1>5. PICK p : p = s[2]
  OBVIOUS
<1>6. p = 1 \/ key[h[p \div 2]] <= key[h[p]]
  BY <1>3, <1>4, <1>5 DEF UpGoesOn
<1>7. \A i \in 2..Len(h) : i # p => key[h[i \div 2]] <= key[h[i]]
  BY <1>4, <1>5
<1>8. \A i \in 2..Len(h) : key[h[i \div 2]] <= key[h[i]]
  BY <1>6, <1>7
<1> QED BY <1>3, <1>4, <1>8 DEF IsHeap

\* The array is in order below position p and at it, but for what hangs from q.
OrderedFrom(h, key, p, q) ==
  \A i \in 2..Len(h) : i \div 2 >= p /\ i \div 2 # q => key[h[i \div 2]] <= key[h[i]]

\* The loop away from the root restores the order below lo when only the children of lo
\* may expire before it.
LEMMA DownOrdersFrom ==
  ASSUME NEW D, NEW key \in [D -> Int], NEW a \in Seq(D), NEW lo \in 1..Len(a),
         OrderedFrom(a, key, lo, lo)
  PROVE  OrderedFrom(perocolate_down(a, lo, key), key, lo, 0)
<1> DEFINE Good(h, p) ==
             /\ OrderedFrom(h, key, lo, p) /\ p >= lo
             /\ p # lo => /\ p \div 2 >= lo
                          /\ \A i \in 2..Len(h) : i \div 2 = p => key[h[p \div 2]] <= key[h[i]]
           P == {s \in Moving(key) : Good(s[1], s[2])}
<1>1. <<a, lo>> \in P
  BY DEF Moving
<1>2. ASSUME NEW s \in P, DownGoesOn(s, key) PROVE DownNext(s, key) \in P
  <2>h. PICK h : h = s[1]
    OBVIOUS
  <2>p. PICK p : p = s[2]
    OBVIOUS
  <2>c. PICK c : c = SmallerChild(h, p, key)
    OBVIOUS
  <2>t. PICK t : t = Swap(h, p, c)
    OBVIOUS
  <2>1. s \in Moving(key) /\ Good(h, p)
    BY <2>h, <2>p
  <2>2. h \in Seq(D) /\ p \in 1..Len(h) /\ DownNext(s, key) \in Moving(key) /\ Len(h) \in Nat
    BY <1>2, <2>1, <2>h, <2>p, StepsStay
  <2>3. 2 * p <= Len(h) /\ key[h[c]] < key[h[p]]
    BY <1>2, <2>h, <2>p, <2>c DEF DownGoesOn
  <2>4. c \in {2 * p, 2 * p + 1} /\ c \in 1..Len(h) /\ c > p
    BY <2>2, <2>3, <2>c, ChildBelow
  <2>5. DownNext(s, key) = <<t, c>>
    BY <2>h, <2>p, <2>c, <2>t DEF DownNext
  <2>6. /\ t \in Seq(D) /\ Len(t) = Len(h) /\ t[p] = h[c] /\ t[c] = h[p]
        /\ \A k \in 1..Len(h) : k # p /\ k # c => t[k] = h[k]
    <3>1. h \in Seq(D) /\ p \in 1..Len(h) /\ c \in 1..Len(h)
      BY <2>2, <2>4
    <3> HIDE DEF Good, P
    <3>2. /\ Swap(h, p, c) \in Seq(D) /\ Len(Swap(h, p, c)) = Len(h)
          /\ Swap(h, p, c)[p] = h[c] /\ Swap(h, p, c)[c] = h[p]
          /\ \A k \in 1..Len(h) : k # p /\ k # c => Swap(h, p, c)[k] = h[k]
      BY <3>1, SwapCells
    <3> QED BY <3>2, <2>t
  <2>7. \A k \in 1..Len(h) : key[h[k]] \in Int
    BY <2>2
  <2>8. \A i \in 2..Len(h) : i \div 2 = p => key[h[c]] <= key[h[i]]
    <3>1. ASSUME NEW i \in 2..Len(h), i \div 2 = p PROVE key[h[c]] <= key[h[i]]
      <4>1. i \in {2 * p, 2 * p + 1}
        BY <2>2, <3>1, ChildrenOf
      <4>2. key[h[c]] \in Int /\ key[h[i]] \in Int /\ key[h[2 * p]] \in Int
        BY <2>2, <2>3, <2>4, <2>7
      <4>3. CASE i = 2 * p
        BY <4>2, <4>3, <2>c DEF SmallerChild
      <4>4. CASE i = 2 * p + 1
        <5>1. 2 * p < Len(h)
          BY <4>4, <2>2
        <5>2. key[h[i]] \in Int /\ i = 2 * p + 1
          BY <4>2, <4>4
        <5> QED BY <4>2, <5>1, <5>2, <2>c DEF SmallerChild
      <4> QED BY <4>1, <4>3, <4>4
    <3> QED BY <3>1
  <2>9. c \div 2 = p /\ c \in 2..Len(h)
    <3>n. PICK n : n = Len(h)
      OBVIOUS
    <3> HIDE DEF Good, P
    <3>1. n \in Nat /\ p \in 1..n /\ c \in 1..n /\ c > p /\ (c = 2 * p \/ c = 2 * p + 1)
      BY <2>2, <2>4, <3>n
    <3>2. c \div 2 = p
      <4>1. (2 * p) \div 2 = p /\ (2 * p + 1) \div 2 = p
        BY <3>1
      <4> QED BY <3>1, <4>1
    <3>3. c \in 2..n
      BY <3>1
    <3> QED BY <3>2, <3>3, <3>n
  <2>13. p >= lo /\ lo \in Nat
    BY <2>1
  <2>10. ASSUME NEW i \in 2..Len(t), i \div 2 >= lo, i \div 2 # c
         PROVE  key[t[i \div 2]] <= key[t[i]]
    <3>0. i \in 2..Len(h) /\ i \in 1..Len(h) /\ i \div 2 \in 1..Len(h)
      BY <2>2, <2>6, <2>10
    <3>1. CASE i = c
      <4>1. t[i \div 2] = h[c] /\ t[i] = h[p]
        BY <3>1, <2>6, <2>9
      <4>2. key[h[c]] \in Int /\ key[h[p]] \in Int
        BY <2>7, <2>4, <2>2
      <4> QED BY <4>1, <4>2, <2>3
    <3>2. CASE i # c /\ i \div 2 = p
      <4>1. i # p
        BY <3>2, <2>2
      <4>2. t[i] = h[i] /\ t[i \div 2] = h[c]
        BY <3>0, <3>2, <4>1, <2>6
      <4> QED BY <4>2, <3>0, <3>2, <2>8
    <3>3. CASE i # c /\ i \div 2 # p
      <4>1. key[h[i \div 2]] <= key[h[i]]
        BY <2>10, <3>0, <3>3, <2>1 DEF OrderedFrom
      <4>2. t[i \div 2] = h[i \div 2]
        BY <3>0, <3>3, <2>10, <2>6
      <4>3. CASE i = p
        <5>1. p # lo /\ c \in 2..Len(h)
          BY <2>10, <2>13, <4>3, <3>0, <2>9
        <5>2. key[h[p \div 2]] <= key[h[c]]
          BY <5>1, <2>1, <2>9
        <5> QED BY <4>2, <4>3, <5>2, <2>6
      <4>4. CASE i # p
        <5>1. t[i] = h[i]
          BY <3>0, <3>3, <4>4, <2>6
        <5> QED BY <4>1, <4>2, <5>1
      <4> QED BY <4>3, <4>4
    <3> QED BY <3>1, <3>2, <3>3
  <2>11. ASSUME NEW i \in 2..Len(t), i \div 2 = c PROVE key[t[c \div 2]] <= key[t[i]]
    <3>0. i \in 2..Len(h) /\ i \in 1..Len(h) /\ i # c /\ i # p /\ c # p
      <4>n. PICK n : n = Len(h)
        OBVIOUS
      <4> HIDE DEF Good, P
      <4>1. n \in Nat /\ p \in 1..n /\ c \in 1..n /\ c > p /\ i \in 2..n /\ i \div 2 = c
        BY <2>2, <2>4, <2>6, <2>11, <4>n
      <4>2. i \div 2 < i /\ i \in 1..n
        BY <4>1, Halves
      <4>3. i > c
        BY <4>1, <4>2
      <4>4. i # c /\ i # p /\ c # p
        BY <4>1, <4>3
      <4> QED BY <4>1, <4>2, <4>4, <4>n
    <3>1. t[i] = h[i] /\ t[c \div 2] = h[c]
      BY <3>0, <2>6, <2>9
    <3>2. key[h[i \div 2]] <= key[h[i]]
      <4>1. i \div 2 # p
        BY <2>11, <3>0
      <4>2. i \div 2 >= lo
        BY <2>2, <2>4, <2>11, <2>13
      <4> QED BY <4>1, <4>2, <3>0, <2>1 DEF OrderedFrom
    <3> QED BY <3>1, <3>2, <2>11
  <2>12. Good(t, c)
    <3>1. c >= lo /\ c \div 2 >= lo
      BY <2>2, <2>4, <2>9, <2>13
    <3> HIDE DEF P
    <3> QED BY <2>10, <2>11, <3>1 DEF OrderedFrom
  <2> HIDE DEF Good
  <2> QED BY <2>2, <2>5, <2>12
<1>3. PICK s \in P : ~ DownGoesOn(s, key) /\ perocolate_down(a, lo, key) = s[1]
  <2>1. P \in SUBSET Moving(key)
    OBVIOUS
  <2> HIDE DEF P
  <2> QED BY <1>1, <1>2, <2>1, DownKeeps
<1>4. PICK h : h = s[1]
  OBVIOUS
<1>5. PICK p : p = s[2]
  OBVIOUS
<1>c. PICK c : c = SmallerChild(h, p, key)
  OBVIOUS
<1>6. h \in Seq(D) /\ p \in 1..Len(h) /\ Len(h) \in Nat
  BY <1>4, <1>5, StepsStay
<1>7. ~(2 * p <= Len(h) /\ key[h[c]] < key[h[p]])
  BY <1>3, <1>4, <1>5, <1>c DEF DownGoesOn
<1>8. OrderedFrom(h, key, lo, p)
  BY <1>4, <1>5
<1>9. ASSUME NEW i \in 2..Len(h), i \div 2 >= lo PROVE key[h[i \div 2]] <= key[h[i]]
  <2>1. CASE i \div 2 # p
    BY <2>1, <1>8, <1>9 DEF OrderedFrom
  <2>2. CASE i \div 2 = p
    <3>1. i \in {2 * p, 2 * p + 1} /\ 2 * p <= Len(h)
      BY <2>2, <1>6, ChildrenOf
    <3>2. c \in 1..Len(h) /\ 2 * p \in 1..Len(h)
      <4>1. Len(h) \in Nat /\ p \in 1..Len(h) /\ 2 * p <= Len(h)
        BY <1>6, <3>1
      <4> HIDE DEF Good, P
      <4>2. SmallerChild(h, p, key) \in 1..Len(h)
        BY <4>1, ChildBelow
      <4> QED BY <4>1, <4>2, <1>c
    <3>3. key[h[c]] \in Int /\ key[h[p]] \in Int /\ key[h[i]] \in Int /\ key[h[2 * p]] \in Int
      BY <1>6, <3>2
    <3>4. key[h[p]] <= key[h[c]]
      BY <1>7, <3>1, <3>3
    <3>5. key[h[c]] <= key[h[i]]
      <4>3. CASE i = 2 * p
        BY <3>3, <4>3, <1>c DEF SmallerChild
      <4>4. CASE i = 2 * p + 1
        <5>1. 2 * p < Len(h)
          BY <4>4, <1>6
        <5>2. key[h[i]] \in Int /\ i = 2 * p + 1
          BY <3>3, <4>4
        <5> QED BY <3>3, <5>1, <5>2, <1>c DEF SmallerChild
      <4> QED BY <3>1, <4>3, <4>4
    <3> QED BY <2>2, <3>3, <3>4, <3>5
  <2> QED BY <2>1, <2>2
<1> QED BY <1>3, <1>4, <1>9 DEF OrderedFrom


\* From the root, that is all of the heap.
LEMMA DownOrders ==
  ASSUME NEW D, NEW key \in [D -> Int], NEW a \in Seq(D), Len(a) > 0, OrderedBut(a, key, 1)
  PROVE  IsHeap(perocolate_down(a, 1, key), key)
<1>1. 1 \in 1..Len(a) /\ OrderedFrom(a, key, 1, 1)
  BY DEF OrderedBut, OrderedFrom
<1>b. PICK b : b = perocolate_down(a, 1, key)
  OBVIOUS
<1>2. OrderedFrom(b, key, 1, 0)
  BY <1>1, <1>b, DownOrdersFrom
<1>3. \A i \in 2..Len(b) : i \div 2 >= 1 /\ i \div 2 # 0
  <2>1. b \in Seq(D)
    BY <1>1, <1>b, DownPermutes
  <2>2. Len(b) \in Nat
    BY <2>1
  <2> QED BY <2>2, Halves
<1> QED BY <1>2, <1>3, <1>b DEF OrderedFrom, IsHeap

-----------------------------------------------------------------------------
\* add_timer leaves a heap a heap, with the timer it is given added.
THEOREM AddKeepsHeap ==
  ASSUME NEW D, NEW key \in [D -> Int], NEW a \in Seq(D), NEW t \in D, IsHeap(a, key)
  PROVE  /\ IsHeap(add_timer(a, t, key), key)
         /\ Len(add_timer(a, t, key)) = Len(a) + 1
         /\ ToSet(add_timer(a, t, key)) = ToSet(a) \cup {t}
<1>b. PICK b : b = Append(a, t)
  OBVIOUS
<1>1. b \in Seq(D) /\ Len(b) = Len(a) + 1 /\ \A i \in 1..Len(a) : b[i] = a[i]
  BY <1>b
<1>2. \A i \in 2..Len(b) : i # Len(b) => key[b[i \div 2]] <= key[b[i]]
  <2>1. ASSUME NEW i \in 2..Len(b), i # Len(b) PROVE key[b[i \div 2]] <= key[b[i]]
    <3>0. Len(a) \in Nat
      OBVIOUS
    <3>1. i \in 2..Len(a)
      BY <1>1, <2>1, <3>0
    <3>2. i \in 1..Len(a) /\ i \div 2 \in 1..Len(a)
      BY <3>0, <3>1, Halves
    <3>3. key[a[i \div 2]] <= key[a[i]]
      BY <3>1 DEF IsHeap
    <3> QED BY <1>1, <3>2, <3>3
  <2> QED BY <2>1
<1>3. Len(b) > 0
  <2>1. Len(a) \in Nat
    OBVIOUS
  <2> QED BY <1>1, <2>1
<1>4. IsHeap(sift_up(b, key), key)
  BY <1>1, <1>2, <1>3, UpOrders
<1>5. IsHeap(add_timer(a, t, key), key)
  BY <1>b, <1>4 DEF add_timer
<1> QED BY <1>5, AddContents

\* pop takes the root out and leaves a heap, even when the root itself has been
\* postponed past its children.
THEOREM PopKeepsHeap ==
  ASSUME NEW D, NEW key \in [D -> Int], NEW a \in Seq(D), Len(a) > 0, OrderedBut(a, key, 1)
  PROVE  /\ IsHeap(pop(a, key), key)
         /\ Len(pop(a, key)) = Len(a) - 1
         /\ ToSet(a) = ToSet(pop(a, key)) \cup {a[1]}
<1>0. Len(a) \in Nat /\ Len(a) > 0
  OBVIOUS
<1>1. ASSUME Len(a) <= 1 PROVE IsHeap(pop(a, key), key)
  <2>1. pop(a, key) = <<>>
    BY <1>0, <1>1 DEF pop
  <2> QED BY <2>1 DEF IsHeap
<1>2. ASSUME Len(a) > 1 PROVE IsHeap(pop(a, key), key)
  <2>b. PICK b : b = Rest(a)
    OBVIOUS
  <2>1. pop(a, key) = perocolate_down(b, 1, key)
    BY <1>0, <1>2, <2>b DEF pop, Rest
  <2>2. b \in Seq(D) /\ Len(b) = Len(a) - 1
    BY <1>2, <2>b, Rearranged
  <2>3. \A i \in 2..Len(b) : b[i] = a[i]
    BY <1>2, <2>b, Rearranged
  <2>4. OrderedBut(b, key, 1)
    <3>1. ASSUME NEW i \in 2..Len(b), i \div 2 # 1 PROVE key[b[i \div 2]] <= key[b[i]]
      <4>1. i \in 2..Len(a)
        BY <2>2, <1>0
      <4>2. Len(b) \in Nat
        BY <2>2, <1>0
      <4>3. i \div 2 \in 1..Len(b)
        BY <4>2, Halves
      <4>4. i \div 2 \in 2..Len(b)
        BY <4>3, <3>1
      <4>5. key[a[i \div 2]] <= key[a[i]]
        BY <4>1, <3>1 DEF OrderedBut
      <4> QED BY <4>4, <4>5, <2>3
    <3> QED BY <3>1 DEF OrderedBut
  <2>5. Len(b) > 0
    BY <1>0, <1>2, <2>2
  <2>6. IsHeap(perocolate_down(b, 1, key), key)
    BY <2>2, <2>4, <2>5, DownOrders
  <2> QED BY <2>1, <2>6
<1>3. Len(a) <= 1 \/ Len(a) > 1
  BY <1>0
<1>4. IsHeap(pop(a, key), key)
  BY <1>1, <1>2, <1>3
<1>5. a[1] \in ToSet(a)
  BY <1>0 DEF ToSet
<1>6. /\ Len(pop(a, key)) = Len(a) - 1 /\ ToSet(pop(a, key)) \subseteq ToSet(a)
      /\ ToSet(a) \subseteq ToSet(pop(a, key)) \cup {a[1]}
  BY PopContents
<1> QED BY <1>4, <1>5, <1>6

\* real_adjust puts a postponed root where it belongs: the array is a heap again,
\* of the same timers.
THEOREM AdjustRestoresHeap ==
  ASSUME NEW D, NEW key \in [D -> Int], NEW a \in Seq(D), Len(a) > 0, OrderedBut(a, key, 1)
  PROVE  /\ IsHeap(real_adjust(a, key), key)
         /\ Len(real_adjust(a, key)) = Len(a)
         /\ ToSet(real_adjust(a, key)) = ToSet(a)
<1>0. Len(a) \in Nat /\ Len(a) > 0 /\ a[1] \in D
  OBVIOUS
<1>1. ASSUME Len(a) <= 1 PROVE IsHeap(real_adjust(a, key), key)
  <2>1. real_adjust(a, key) = a
    BY <1>1 DEF real_adjust
  <2>2. IsHeap(a, key)
    BY <1>0, <1>1 DEF IsHeap
  <2> QED BY <2>1, <2>2
<1>2. ASSUME Len(a) > 1 PROVE IsHeap(real_adjust(a, key), key)
  <2>p. PICK p : p = pop(a, key)
    OBVIOUS
  <2>t. PICK t \in D : t = a[1]
    BY <1>0
  <2>1. p \in Seq(D)
    BY <1>0, <2>p, PopContents
  <2>2. IsHeap(p, key)
    BY <1>0, <2>p, PopKeepsHeap
  <2>3. real_adjust(a, key) = add_timer(p, t, key)
    BY <1>0, <1>2, <2>p, <2>t DEF real_adjust, add_timer
  <2>4. IsHeap(add_timer(p, t, key), key)
    BY <2>1, <2>2, AddKeepsHeap
  <2> QED BY <2>3, <2>4
<1>3. Len(a) <= 1 \/ Len(a) > 1
  BY <1>0
<1>4. IsHeap(real_adjust(a, key), key)
  BY <1>1, <1>2, <1>3
<1> QED BY <1>0, <1>4, AdjustContents

-----------------------------------------------------------------------------
LEMMA GreaterOf == ASSUME NEW i \in Int, NEW m, m = Max({i, 1}) PROVE m = i \/ m = 1
<1>1. \E x \in {i, 1} : \A y \in {i, 1} : x >= y
  <2>1. CASE i >= 1
    BY <2>1
  <2>2. CASE ~(i >= 1)
    BY <2>2
  <2> QED BY <2>1, <2>2
<1>2. PICK x : x = CHOOSE z \in {i, 1} : \A y \in {i, 1} : z >= y
  OBVIOUS
<1>3. x \in {i, 1}
  BY <1>1, <1>2
<1>4. m = x
  BY <1>2 DEF Max
<1> QED BY <1>3, <1>4

\* Members of the heap are at its positions, and the root is one of them.
LEMMA AtPosition ==
  ASSUME NEW D, NEW h \in Seq(D)
  PROVE  /\ \A t \in ToSet(h) : \E i \in 1..Len(h) : t = h[i]
         /\ \A i \in 1..Len(h) : h[i] \in ToSet(h)
<1>1. DOMAIN h = 1..Len(h)
  OBVIOUS
<1> QED BY <1>1 DEF ToSet

\* The root of a heap in order is not later than any other timer.
LEMMA RootEarliest ==
  ASSUME NEW D, NEW key \in [D -> Int], NEW h \in Seq(D), IsHeap(h, key), NEW t \in ToSet(h)
  PROVE  Len(h) > 0 /\ h[1] \in ToSet(h) /\ key[h[1]] <= key[t]
<1>1. PICK i \in 1..Len(h) : t = h[i]
  BY AtPosition
<1>2. Len(h) \in Nat
  OBVIOUS
<1>3. 1 \in 1..Len(h) /\ Len(h) > 0
  BY <1>1, <1>2
<1>4. key[h[1]] <= key[h[i]]
  BY RootFirst
<1> QED BY <1>1, <1>3, <1>4, AtPosition

\* A loop towards the root leaves the old root there, or puts the new timer there.
LEMMA UpRoot ==
  ASSUME NEW D, NEW key \in [D -> Int], NEW a \in Seq(D), Len(a) > 0
  PROVE  sift_up(a, key)[1] \in {a[1], a[Len(a)]}
<1> DEFINE P == {s \in Moving(key) : /\ Len(s[1]) = Len(a) /\ s[1][s[2]] = a[Len(a)]
                                     /\ s[1][1] = a[1] \/ s[2] = 1}
<1>0. Len(a) \in Nat /\ Len(a) > 0
  OBVIOUS
<1>1. <<a, Len(a)>> \in P
  BY DEF Moving
<1>2. ASSUME NEW s \in P, UpGoesOn(s, key) PROVE UpNext(s, key) \in P
  <2>1. s[1] \in Seq(D) /\ s[2] \in 1..Len(s[1]) /\ UpNext(s, key) \in Moving(key)
    BY <1>2, StepsStay
  <2>c. PICK c : c = s[2] \div 2
    OBVIOUS
  <2>h. PICK h : h = s[1]
    OBVIOUS
  <2>i. PICK i : i = s[2]
    OBVIOUS
  <2>a. h \in Seq(D) /\ i \in 1..Len(h)
    BY <2>1, <2>h, <2>i
  <2>2. c \in 1..Len(h) /\ c # i /\ i # 1
    BY <1>2, <2>a, <2>c, <2>h, <2>i DEF UpGoesOn
  <2>w. PICK w : w = Swap(h, i, c)
    OBVIOUS
  <2>3. UpNext(s, key)[1] = w /\ UpNext(s, key)[2] = c
    BY <2>c, <2>h, <2>i, <2>w DEF UpNext
  <2>4. Len(w) = Len(h) /\ w[c] = h[i] /\ \A k \in 1..Len(h) : k # i /\ k # c => w[k] = h[k]
    <3>1. /\ Len(Swap(h, i, c)) = Len(h) /\ Swap(h, i, c)[c] = h[i]
          /\ \A k \in 1..Len(h) : k # i /\ k # c => Swap(h, i, c)[k] = h[k]
      <4> HIDE DEF P
      <4> QED BY <2>a, <2>2, SwapCells
    <3> HIDE DEF P
    <3> QED BY <3>1, <2>w, Zenon
  <2>5. Len(h) = Len(a) /\ h[i] = a[Len(a)] /\ h[1] = a[1]
    BY <2>2, <2>h, <2>i
  <2>6. c # 1 => w[1] = h[1]
    BY <1>0, <2>2, <2>4, <2>5
  <2> HIDE DEF P
  <2>7. UpNext(s, key) \in P <=> /\ UpNext(s, key) \in Moving(key)
           /\ Len(UpNext(s, key)[1]) = Len(a) /\ UpNext(s, key)[1][UpNext(s, key)[2]] = a[Len(a)]
           /\ (UpNext(s, key)[1][1] = a[1] \/ UpNext(s, key)[2] = 1)
    BY DEF P
  <2> QED BY <2>1, <2>3, <2>4, <2>5, <2>6, <2>7
<1>3. PICK s \in P : sift_up(a, key) = s[1]
  <2>1. P \in SUBSET Moving(key)
    OBVIOUS
  <2> HIDE DEF P
  <2> QED BY <1>1, <1>2, <2>1, UpKeeps
<1>4. s[1][s[2]] = a[Len(a)] /\ (s[1][1] = a[1] \/ s[2] = 1)
  OBVIOUS
<1> QED BY <1>3, <1>4

\* A timer added to a heap is its root, or the root stays.
LEMMA AddRoot ==
  ASSUME NEW D, NEW key \in [D -> Int], NEW a \in Seq(D), NEW t \in D
  PROVE  add_timer(a, t, key)[1] = t \/ (Len(a) > 0 /\ add_timer(a, t, key)[1] = a[1])
<1>b. PICK b : b = Append(a, t)
  OBVIOUS
<1>1. /\ b \in Seq(D) /\ Len(b) = Len(a) + 1 /\ Len(b) > 0 /\ b[Len(b)] = t
      /\ b[1] = t \/ (Len(a) > 0 /\ b[1] = a[1])
  <2>1. Len(a) \in Nat
    OBVIOUS
  <2>2. b \in Seq(D) /\ Len(b) = Len(a) + 1
        /\ \A i \in 1..Len(b) : b[i] = IF i = Len(b) THEN t ELSE a[i]
    BY <1>b
  <2>3. Len(b) \in 1..Len(b) /\ 1 \in 1..Len(b)
    BY <2>1, <2>2
  <2> QED BY <2>1, <2>2, <2>3
<1>2. sift_up(b, key)[1] \in {b[1], b[Len(b)]}
  BY <1>1, UpRoot
<1>3. add_timer(a, t, key) = sift_up(b, key)
  BY <1>b DEF add_timer
<1> QED BY <1>1, <1>2, <1>3

\* Timers with the same times in another map are in the same order.
LEMMA SameOrder ==
  ASSUME NEW D, NEW h \in Seq(D), NEW key, NEW key2, IsHeap(h, key),
         \A t \in ToSet(h) : key2[t] = key[t]
  PROVE  IsHeap(h, key2)
<1>1. ASSUME NEW i \in 2..Len(h) PROVE key2[h[i \div 2]] <= key2[h[i]]
  <2>1. Len(h) \in Nat
    OBVIOUS
  <2>2. i \in 1..Len(h) /\ i \div 2 \in 1..Len(h)
    BY <2>1, Halves
  <2>3. h[i] \in ToSet(h) /\ h[i \div 2] \in ToSet(h)
    BY <2>2, AtPosition
  <2>4. key[h[i \div 2]] <= key[h[i]]
    BY DEF IsHeap
  <2> QED BY <2>3, <2>4
<1> QED BY <1>1 DEF IsHeap

LEMMA HeapOrdered == ASSUME NEW h, NEW key, IsHeap(h, key) PROVE OrderedBut(h, key, 1)
  BY DEF IsHeap, OrderedBut

TypeOK ==
  /\ heap \in Seq(Timer) /\ left \in [Timer -> Int] /\ adjusted \in [Timer -> BOOLEAN]
  /\ user_data \in [Timer -> Fd \cup {NoFd}] /\ slot \in [Fd -> Timer \cup {NoTimer}]
  /\ alarm \in Nat /\ m_noalarm \in BOOLEAN /\ pipe \in BOOLEAN /\ timeout \in BOOLEAN

\* The loop of tick takes out due timers only, and stops at one that is not.  It
\* leaves a heap in order in order.
LEMMA DrainedContents ==
  ASSUME heap \in Seq(Timer), left \in [Timer -> Int]
  PROVE  /\ Drained \in Seq(Timer)
         /\ ToSet(Drained) \subseteq ToSet(heap)
         /\ \A t \in ToSet(heap) : t \in ToSet(Drained) \/ Due(t)
         /\ Len(Drained) > 0 => ~ Due(Drained[1])
         /\ Distinct(heap) => Distinct(Drained)
         /\ IsHeap(heap, left) => IsHeap(Drained, left)
<1> DEFINE S == Seq(Timer)
           more(h) == h # <<>> /\ Due(h[1])
           done == {h \in S : ~ more(h)}
           nx == [h \in S |-> IF more(h) THEN pop(h, left) ELSE h]
           out == [h \in S |-> h]
           m == [h \in S |-> Len(h)]
           Body(g, h) == IF h # <<>> /\ Due(h[1]) THEN g[pop(h, left)] ELSE h
           P == {h \in S : /\ ToSet(h) \subseteq ToSet(heap)
                           /\ \A t \in ToSet(heap) : t \in ToSet(h) \/ Due(t)
                           /\ Distinct(heap) => Distinct(h)
                           /\ IsHeap(heap, left) => IsHeap(h, left)}
<1>a. ASSUME NEW h \in S, more(h)
      PROVE  /\ pop(h, left) \in S /\ Len(pop(h, left)) < Len(h)
             /\ ToSet(pop(h, left)) \subseteq ToSet(h)
             /\ ToSet(h) \subseteq ToSet(pop(h, left)) \cup {h[1]}
             /\ Distinct(h) => Distinct(pop(h, left))
             /\ IsHeap(h, left) => IsHeap(pop(h, left), left)
  <2>1. Len(h) > 0 /\ Len(h) \in Nat
    BY <1>a
  <2>2. /\ pop(h, left) \in S /\ Len(pop(h, left)) = Len(h) - 1
        /\ ToSet(pop(h, left)) \subseteq ToSet(h)
        /\ ToSet(h) \subseteq ToSet(pop(h, left)) \cup {h[1]}
    BY <2>1, PopContents
  <2>3. Distinct(h) => Distinct(pop(h, left))
    BY <2>1, PopDistinct
  <2>4. IsHeap(h, left) => IsHeap(pop(h, left), left)
    BY <2>1, HeapOrdered, PopKeepsHeap
  <2> HIDE DEF S, more
  <2> QED BY <2>1, <2>2, <2>3, <2>4
<1>1. nx \in [S -> S] /\ m \in [S -> Nat] /\ \A h \in S \ done : m[nx[h]] < m[h]
  <2>1. nx \in [S -> S]
    <3> HIDE DEF S, more
    <3> QED BY <1>a
  <2>2. m \in [S -> Nat]
    OBVIOUS
  <2>3. ASSUME NEW h \in S \ done PROVE m[nx[h]] < m[h]
    <3>1. more(h) /\ nx[h] = pop(h, left)
      <4> HIDE DEF S, more
      <4> QED OBVIOUS
    <3> PICK t : t = pop(h, left)
      OBVIOUS
    <3>2. t \in S /\ Len(t) < Len(h)
      BY <3>1, <1>a
    <3>3. m[t] = Len(t) /\ m[h] = Len(h)
      <4> HIDE DEF S, more
      <4> QED BY <3>2
    <3> HIDE DEF m, nx, done, S, more
    <3> QED BY <3>1, <3>2, <3>3
  <2> QED BY <2>1, <2>2, <2>3
<1>v. PICK V : V = Seq(Timer)
  OBVIOUS
<1>2. \E g \in [S -> V] : Rounds(S, done, nx, out, g)
  <2>1. done \in SUBSET S
    OBVIOUS
  <2>2. out \in [S -> V]
    BY <1>v
  <2>3. nx \in [S -> S]
    BY <1>1
  <2> HIDE DEF nx, out, S, done, Body, m, more
  <2> QED BY <2>1, <2>2, <2>3, LoopExists, Zenon
<1>3. \A g : \A h \in S : Body(g, h) = IF h \in done THEN out[h] ELSE g[nx[h]]
  <2> HIDE DEF S
  <2> QED OBVIOUS
<1>4. \E g : g = [h \in S |-> Body(g, h)]
  <2>1. PICK g \in [S -> V] : Rounds(S, done, nx, out, g)
    BY <1>2
  <2> HIDE DEF Body, S, done, out, nx, m, more
  <2>2. \A h \in S : g[h] = Body(g, h)
    BY <2>1, <1>3 DEF Rounds
  <2>3. g = [h \in S |-> Body(g, h)]
    BY <2>1, <2>2
  <2> QED BY <2>3
<1>5. PICK rest : /\ rest = CHOOSE g : g = [h \in S |-> Body(g, h)]
                  /\ Drained = rest[heap]
  BY Zenon DEF Drained
<1>6. rest = [h \in S |-> Body(rest, h)]
  <2> HIDE DEF Body, S
  <2> QED BY <1>4, <1>5
<1>7. Rounds(S, done, nx, out, rest)
  <2>1. \A h \in S : rest[h] = Body(rest, h)
    <3> HIDE DEF Body, S
    <3> QED BY <1>6
  <2> HIDE DEF Body, S, done, out, nx, m
  <2> QED BY <2>1, <1>3 DEF Rounds
<1>8. Kept(S, done, nx, P)
  <2>1. ASSUME NEW h \in P \ done PROVE nx[h] \in P
    <3>1. h \in S /\ more(h) /\ nx[h] = pop(h, left) /\ Due(h[1])
      <4> HIDE DEF S
      <4> QED OBVIOUS
    <3>2. PICK q : q = pop(h, left)
      OBVIOUS
    <3>3. /\ q \in S /\ ToSet(q) \subseteq ToSet(h) /\ ToSet(h) \subseteq ToSet(q) \cup {h[1]}
          /\ Distinct(h) => Distinct(q)
          /\ IsHeap(h, left) => IsHeap(q, left)
      BY <3>1, <3>2, <1>a
    <3> HIDE DEF S, done, nx, more
    <3> QED BY <3>1, <3>2, <3>3
  <2>2. P \in SUBSET S
    OBVIOUS
  <2> HIDE DEF S, done, nx, P
  <2> QED BY <2>1, <2>2 DEF Kept
<1>9. Loop(S, done, nx, out, m, rest)
  <2>1. done \in SUBSET S
    OBVIOUS
  <2> HIDE DEF S, done, out, nx, m, Body
  <2> QED BY <1>1, <1>7, <2>1 DEF Loop
<1>10. PICK d \in P \cap done : rest[heap] = out[d]
  <2>1. heap \in P
    OBVIOUS
  <2> HIDE DEF S, done, out, nx, m, Body, P
  <2> QED BY <1>8, <1>9, <2>1, LoopKeeps
<1>11. d \in P /\ d \in S /\ ~ more(d) /\ out[d] = d
  BY <1>10
<1>12. Len(d) > 0 => ~ Due(d[1])
  BY <1>11
<1>13. Drained = d
  BY <1>5, <1>10, <1>11
<1> QED BY <1>11, <1>12, <1>13

\* Nor does the root it moves get lost, and no due timer stays in a heap in order.
LEMMA TickedContents ==
  ASSUME TypeOK
  PROVE  /\ Ticked(Drained).array \in Seq(Timer)
         /\ ToSet(Ticked(Drained).array) \subseteq ToSet(heap)
         /\ \A t \in ToSet(heap) : t \in ToSet(Ticked(Drained).array) \/ Due(t)
         /\ Distinct(heap) => Distinct(Ticked(Drained).array)
         /\ IsHeap(heap, left) => /\ IsHeap(Ticked(Drained).array, left)
                                  /\ \A t \in ToSet(Ticked(Drained).array) : ~ Due(t)
<1>h. PICK h : h = Drained
  OBVIOUS
<1>1. /\ h \in Seq(Timer) /\ ToSet(h) \subseteq ToSet(heap)
      /\ \A t \in ToSet(heap) : t \in ToSet(h) \/ Due(t)
      /\ Len(h) > 0 => ~ Due(h[1])
      /\ Distinct(heap) => Distinct(h)
      /\ IsHeap(heap, left) => IsHeap(h, left)
  BY <1>h, DrainedContents DEF TypeOK
<1>d. ASSUME IsHeap(heap, left), NEW t \in ToSet(h) PROVE ~ Due(t)
  <2>1. left \in [Timer -> Int]
    BY DEF TypeOK
  <2>2. Len(h) > 0 /\ h[1] \in ToSet(h) /\ left[h[1]] <= left[t]
    BY <1>1, <1>d, <2>1, RootEarliest
  <2>3. left[h[1]] \in Int /\ left[t] \in Int
    BY <1>1, <2>1, <2>2, AtPosition
  <2> QED BY <1>1, <2>2, <2>3 DEF Due
<1>2. CASE h # <<>> /\ adjusted[h[1]]
  <2>1. Ticked(h).array = real_adjust(h, left)
    BY <1>2 DEF Ticked
  <2>2. Len(h) > 0
    BY <1>1, <1>2
  <2>3. real_adjust(h, left) \in Seq(Timer) /\ ToSet(real_adjust(h, left)) = ToSet(h)
    BY <1>1, <2>2, AdjustContents DEF TypeOK
  <2>4. Distinct(h) => Distinct(real_adjust(h, left))
    BY <1>1, <2>2, AdjustDistinct DEF TypeOK
  <2>5. IsHeap(h, left) => IsHeap(real_adjust(h, left), left)
    BY <1>1, <2>2, HeapOrdered, AdjustRestoresHeap DEF TypeOK
  <2> QED BY <1>h, <1>1, <1>d, <2>1, <2>3, <2>4, <2>5
<1>3. CASE ~(h # <<>> /\ adjusted[h[1]])
  <2>1. Ticked(h).array = h
    BY <1>3 DEF Ticked
  <2> QED BY <1>h, <1>1, <1>d, <2>1
<1> QED BY <1>2, <1>3

LEMMA InHeap == ASSUME NEW h \in Seq(Timer) PROVE ToSet(h) \subseteq Timer
  BY DEF ToSet

LEMMA AtLeastOne == ASSUME NEW i \in Int, NEW m, m = Max({i, 1}) PROVE m \in Nat /\ m >= 1 /\ m >= i
<1>1. \E x \in {i, 1} : \A y \in {i, 1} : x >= y
  <2>1. CASE i >= 1
    BY <2>1
  <2>2. CASE ~(i >= 1)
    BY <2>2
  <2> QED BY <2>1, <2>2
<1>2. PICK x : x = CHOOSE z \in {i, 1} : \A y \in {i, 1} : z >= y
  OBVIOUS
<1>3. x \in {i, 1} /\ \A y \in {i, 1} : x >= y
  BY <1>1, <1>2
<1>4. m = x
  BY <1>2 DEF Max
<1> QED BY <1>3, <1>4

\* What timer_handler does to the timers: those it takes out are due, and each
\* empties the slot of its descriptor.
LEMMA HandlerEffect ==
  ASSUME TypeOK, timer_handler
  PROVE  \E closed \in SUBSET ToSet(heap) :
           /\ \A t \in closed : Due(t)
           /\ heap' \in Seq(Timer) /\ ToSet(heap') = ToSet(heap) \ closed
           /\ Distinct(heap) => Distinct(heap')
           /\ IsHeap(heap, left) => IsHeap(heap', left) /\ \A t \in ToSet(heap') : ~ Due(t)
           /\ slot' = [f \in Fd |-> IF \E t \in closed : user_data[t] = f THEN NoTimer ELSE slot[f]]
           /\ user_data' = [t \in Timer |-> IF t \in closed THEN NoFd ELSE user_data[t]]
           /\ left' = [t \in Timer |-> IF t \in closed THEN 0 ELSE left[t]]
<1>t. PICK h : h = Ticked(Drained).array
  OBVIOUS
<1>c. PICK closed : closed = ToSet(heap) \ ToSet(h)
  OBVIOUS
<1>1. /\ h \in Seq(Timer) /\ ToSet(h) \subseteq ToSet(heap)
      /\ \A t \in ToSet(heap) : t \in ToSet(h) \/ Due(t)
      /\ Distinct(heap) => Distinct(h)
      /\ IsHeap(heap, left) => IsHeap(h, left) /\ \A t \in ToSet(h) : ~ Due(t)
  BY <1>t, TickedContents
<1>2. /\ heap' = h
      /\ slot' = [f \in Fd |-> IF \E t \in closed : user_data[t] = f THEN NoTimer ELSE slot[f]]
      /\ user_data' = [t \in Timer |-> IF t \in closed THEN NoFd ELSE user_data[t]]
      /\ left' = [t \in Timer |-> IF t \in closed THEN 0 ELSE left[t]]
  BY <1>t, <1>c DEF timer_handler
<1>3. closed \in SUBSET ToSet(heap) /\ (\A t \in closed : Due(t)) /\ ToSet(h) = ToSet(heap) \ closed
  BY <1>1, <1>c
<1> QED BY <1>1, <1>2, <1>3

-----------------------------------------------------------------------------
IInv == TypeOK /\ SlotsMatchTimers /\ Distinct(heap)

LEMMA InitInv == Init => IInv
<1> SUFFICES ASSUME Init PROVE IInv
  OBVIOUS
<1>1. heap = <<>> /\ ToSet(heap) = {}
  BY DEF Init, ToSet
<1>2. TypeOK
  <2>1. heap \in Seq(Timer)
    BY <1>1
  <2>2. /\ left \in [Timer -> Int] /\ adjusted \in [Timer -> BOOLEAN]
        /\ user_data \in [Timer -> Fd \cup {NoFd}] /\ slot \in [Fd -> Timer \cup {NoTimer}]
    BY DEF Init
  <2>3. alarm \in Nat /\ m_noalarm \in BOOLEAN /\ pipe \in BOOLEAN /\ timeout \in BOOLEAN
    BY DEF Init
  <2> QED BY <2>1, <2>2, <2>3 DEF TypeOK
<1>3. SlotsMatchTimers
  BY <1>1 DEF Init, SlotsMatchTimers, Live
<1>4. Distinct(heap)
  BY <1>1 DEF Distinct
<1> QED BY <1>2, <1>3, <1>4 DEF IInv

\* Every step keeps the types: what the heap's operations return is again an array
\* of timers.
LEMMA TypeStep == ASSUME TypeOK, [Next]_vars PROVE TypeOK'
<1> USE TimerConstants
<1>1. ASSUME NEW f \in Fd, NEW t \in Timer, AddTimer(f, t) PROVE TypeOK'
  <2>1. left' \in [Timer -> Int] /\ heap' = add_timer(heap, t, left')
    BY <1>1 DEF AddTimer, TypeOK, Delay
  <2>k. PICK key \in [Timer -> Int] : key = left'
    BY <2>1
  <2>2. heap' \in Seq(Timer)
    BY <2>1, <2>k, AddContents DEF TypeOK
  <2>3. alarm' \in Nat
    BY <1>1 DEF AddTimer, TypeOK, Delay
  <2>4. /\ adjusted' \in [Timer -> BOOLEAN] /\ user_data' \in [Timer -> Fd \cup {NoFd}]
        /\ slot' \in [Fd -> Timer \cup {NoTimer}]
    BY <1>1 DEF AddTimer, TypeOK
  <2>5. m_noalarm' \in BOOLEAN /\ pipe' \in BOOLEAN /\ timeout' \in BOOLEAN
    BY <1>1 DEF AddTimer, TypeOK
  <2> QED BY <2>1, <2>2, <2>3, <2>4, <2>5 DEF TypeOK
<1>2. ASSUME NEW f \in Fd, AdjustTimer(f) PROVE TypeOK'
  BY <1>2 DEF AdjustTimer, TypeOK, Delay
<1>3. ASSUME NEW f \in Fd, DelTimer(f) PROVE TypeOK'
  BY <1>3 DEF DelTimer, TypeOK
<1>4. ASSUME Second PROVE TypeOK'
  <2>1. left' \in [Timer -> Int]
    BY <1>4 DEF Second, TypeOK, Passed
  <2>2. alarm' \in Nat
    BY <1>4 DEF Second, TypeOK
  <2>3. pipe' \in BOOLEAN
    BY <1>4, Zenon DEF Second
  <2>4. UNCHANGED <<heap, adjusted, user_data, slot, m_noalarm, timeout>>
    BY <1>4 DEF Second
  <2> QED BY <2>1, <2>2, <2>3, <2>4 DEF TypeOK
<1>5. ASSUME ReadSignal PROVE TypeOK'
  BY <1>5 DEF ReadSignal, TypeOK, timerVars
<1>6. ASSUME timer_handler PROVE TypeOK'
  <2>1. PICK closed \in SUBSET ToSet(heap) :
           /\ heap' \in Seq(Timer)
           /\ slot' = [f \in Fd |-> IF \E t \in closed : user_data[t] = f THEN NoTimer ELSE slot[f]]
           /\ user_data' = [t \in Timer |-> IF t \in closed THEN NoFd ELSE user_data[t]]
           /\ left' = [t \in Timer |-> IF t \in closed THEN 0 ELSE left[t]]
    BY <1>6, HandlerEffect
  <2>2. left' \in [Timer -> Int] /\ slot' \in [Fd -> Timer \cup {NoTimer}]
        /\ user_data' \in [Timer -> Fd \cup {NoFd}]
    BY <2>1 DEF TypeOK
  <2>3. adjusted' \in [Timer -> BOOLEAN]
    <3>1. PICK moved, closed1 : adjusted' = [t \in Timer |-> adjusted[t] /\ t \notin moved /\ t \notin closed1]
      BY <1>6 DEF timer_handler
    <3> QED BY <3>1, Zenon
  <2>4. CASE heap' = <<>>
    <3>1. UNCHANGED <<alarm, m_noalarm, pipe>> /\ timeout' = FALSE
      BY <1>6, <2>4 DEF timer_handler
    <3> QED BY <2>1, <2>2, <2>3, <3>1 DEF TypeOK
  <2>5. CASE heap' # <<>>
    <3>1. alarm' = Max({left[heap'[1]] + 1, 1}) /\ m_noalarm' = FALSE /\ UNCHANGED pipe /\ timeout' = FALSE
      BY <1>6, <2>5 DEF timer_handler
    <3>2. heap'[1] \in Timer
      BY <2>1, <2>5
    <3>3. left[heap'[1]] + 1 \in Int
      BY <3>2 DEF TypeOK
    <3>4. alarm' \in Nat
      <4>1. PICK i \in Int : i = left[heap'[1]] + 1
        BY <3>3
      <4>2. PICK n : n = alarm'
        OBVIOUS
      <4>3. n = Max({i, 1})
        BY <3>1, <4>1, <4>2
      <4> QED BY <4>2, <4>3, AtLeastOne
    <3> QED BY <2>1, <2>2, <2>3, <3>1, <3>4 DEF TypeOK
  <2> QED BY <2>4, <2>5
<1>7. ASSUME UNCHANGED vars PROVE TypeOK'
  BY <1>7 DEF vars, TypeOK
<1> QED BY <1>1, <1>2, <1>3, <1>4, <1>5, <1>6, <1>7 DEF Next

\* Slots and heap agree after every step.
LEMMA SlotStep == ASSUME IInv, [Next]_vars PROVE SlotsMatchTimers'
<1> USE TimerConstants
<1>0. TypeOK /\ TypeOK'
  BY TypeStep DEF IInv
<1>h. ToSet(heap) \subseteq Timer /\ ToSet(heap') \subseteq Timer
  BY <1>0, InHeap DEF TypeOK
<1>s. /\ \A f \in Fd : slot[f] # NoTimer =>
           slot[f] \in ToSet(heap) /\ user_data[slot[f]] # NoFd /\ user_data[slot[f]] = f
      /\ \A t \in ToSet(heap) : user_data[t] # NoFd => slot[user_data[t]] = t
  BY DEF IInv, SlotsMatchTimers, Live
<1>e. ASSUME /\ \A f \in Fd : slot'[f] # NoTimer =>
                  slot'[f] \in ToSet(heap') /\ user_data'[slot'[f]] # NoFd /\ user_data'[slot'[f]] = f
             /\ \A t \in ToSet(heap') : user_data'[t] # NoFd => slot'[user_data'[t]] = t
      PROVE  SlotsMatchTimers'
  BY <1>e DEF SlotsMatchTimers, Live
<1>1. ASSUME NEW f \in Fd, NEW t \in Timer, AddTimer(f, t) PROVE SlotsMatchTimers'
  <2>1. left' \in [Timer -> Int] /\ heap' = add_timer(heap, t, left')
    BY <1>1, <1>0 DEF AddTimer, TypeOK
  <2>k. PICK key \in [Timer -> Int] : key = left'
    BY <2>1
  <2>2. ToSet(heap') = ToSet(heap) \cup {t}
    <3>1. heap \in Seq(Timer)
      BY <1>0 DEF TypeOK
    <3>2. ToSet(add_timer(heap, t, key)) = ToSet(heap) \cup {t}
      BY <3>1, AddContents
    <3> QED BY <2>1, <2>k, <3>2
  <2>3. /\ slot[f] = NoTimer /\ t \notin ToSet(heap)
        /\ user_data' = [user_data EXCEPT ![t] = f] /\ slot' = [slot EXCEPT ![f] = t]
    BY <1>1 DEF AddTimer
  <2>4. \A g \in Fd : slot'[g] = IF g = f THEN t ELSE slot[g]
    BY <2>3, <1>0 DEF TypeOK
  <2>5. \A u \in Timer : user_data'[u] = IF u = t THEN f ELSE user_data[u]
    BY <2>3, <1>0 DEF TypeOK
  <2>6. \A u \in Timer : user_data[u] # NoFd => user_data[u] \in Fd
    BY <1>0 DEF TypeOK
  <2> QED BY <1>e, <1>h, <1>s, <2>2, <2>3, <2>4, <2>5, <2>6
<1>2. ASSUME NEW f \in Fd, AdjustTimer(f) PROVE SlotsMatchTimers'
  <2>1. UNCHANGED <<heap, user_data, slot>>
    BY <1>2 DEF AdjustTimer
  <2> QED BY <1>e, <1>s, <2>1
<1>3. ASSUME NEW f \in Fd, DelTimer(f) PROVE SlotsMatchTimers'
  <2>t. PICK t : t = slot[f]
    OBVIOUS
  <2>1. /\ t # NoTimer /\ heap' = heap
        /\ user_data' = [user_data EXCEPT ![t] = NoFd] /\ slot' = [slot EXCEPT ![f] = NoTimer]
    BY <1>3, <2>t DEF DelTimer
  <2>2. t \in Timer
    BY <1>0, <2>t, <2>1 DEF TypeOK
  <2>4. \A g \in Fd : slot'[g] = IF g = f THEN NoTimer ELSE slot[g]
    BY <2>1, <1>0 DEF TypeOK
  <2>5. \A u \in Timer : user_data'[u] = IF u = t THEN NoFd ELSE user_data[u]
    BY <2>1, <1>0 DEF TypeOK
  <2>6. \A u \in Timer : user_data[u] # NoFd => user_data[u] \in Fd
    BY <1>0 DEF TypeOK
  <2> QED BY <1>e, <1>h, <1>s, <2>t, <2>1, <2>2, <2>4, <2>5, <2>6
<1>4. ASSUME Second PROVE SlotsMatchTimers'
  <2>1. UNCHANGED <<heap, user_data, slot>>
    BY <1>4 DEF Second
  <2> QED BY <1>e, <1>s, <2>1
<1>5. ASSUME ReadSignal PROVE SlotsMatchTimers'
  <2>1. UNCHANGED <<heap, user_data, slot>>
    BY <1>5 DEF ReadSignal, timerVars
  <2> QED BY <1>e, <1>s, <2>1
<1>6. ASSUME timer_handler PROVE SlotsMatchTimers'
  <2>1. PICK closed \in SUBSET ToSet(heap) :
           /\ ToSet(heap') = ToSet(heap) \ closed
           /\ slot' = [f \in Fd |-> IF \E t \in closed : user_data[t] = f THEN NoTimer ELSE slot[f]]
           /\ user_data' = [t \in Timer |-> IF t \in closed THEN NoFd ELSE user_data[t]]
    BY <1>6, <1>0, HandlerEffect
  <2>2. \A f \in Fd : slot'[f] = IF \E t \in closed : user_data[t] = f THEN NoTimer ELSE slot[f]
    BY <2>1
  <2>3. \A t \in Timer : user_data'[t] = IF t \in closed THEN NoFd ELSE user_data[t]
    BY <2>1
  <2>4. ASSUME NEW f \in Fd, slot'[f] # NoTimer
        PROVE  slot'[f] \in ToSet(heap') /\ user_data'[slot'[f]] # NoFd /\ user_data'[slot'[f]] = f
    <3>1. slot'[f] = slot[f] /\ slot[f] # NoTimer /\ ~ \E t \in closed : user_data[t] = f
      BY <2>2, <2>4
    <3>2. slot[f] \in ToSet(heap) /\ user_data[slot[f]] = f /\ f # NoFd
      BY <3>1, <1>s
    <3>3. slot[f] \notin closed
      BY <3>1, <3>2
    <3> QED BY <3>1, <3>2, <3>3, <2>1, <2>3, <1>h
  <2>5. ASSUME NEW t \in ToSet(heap'), user_data'[t] # NoFd PROVE slot'[user_data'[t]] = t
    <3>1. t \in ToSet(heap) /\ t \notin closed /\ t \in Timer
      BY <2>1, <1>h
    <3>2. user_data'[t] = user_data[t] /\ user_data[t] # NoFd /\ slot[user_data[t]] = t
      BY <3>1, <2>3, <2>5, <1>s
    <3>3. user_data[t] \in Fd
      BY <3>1, <3>2, <1>0 DEF TypeOK
    <3>4. ASSUME NEW c \in closed, user_data[c] = user_data[t] PROVE FALSE
      BY <3>1, <3>2, <3>4, <1>s
    <3> QED BY <3>2, <3>3, <3>4, <2>2
  <2> QED BY <1>e, <2>4, <2>5
<1>7. ASSUME UNCHANGED vars PROVE SlotsMatchTimers'
  <2>1. UNCHANGED <<heap, user_data, slot>>
    BY <1>7 DEF vars
  <2> QED BY <1>e, <1>s, <2>1
<1> QED BY <1>1, <1>2, <1>3, <1>4, <1>5, <1>6, <1>7 DEF Next

\* No operation puts a timer into the heap twice.
LEMMA DistinctStep == ASSUME IInv, [Next]_vars PROVE Distinct(heap')
<1>0. TypeOK /\ Distinct(heap)
  BY DEF IInv
<1>1. ASSUME NEW f \in Fd, NEW t \in Timer, AddTimer(f, t) PROVE Distinct(heap')
  <2>1. left' \in [Timer -> Int] /\ heap' = add_timer(heap, t, left') /\ t \notin ToSet(heap)
    BY <1>1, <1>0, TimerConstants DEF AddTimer, TypeOK, Delay
  <2>k. PICK key \in [Timer -> Int] : key = left'
    BY <2>1
  <2>2. heap \in Seq(Timer)
    BY <1>0 DEF TypeOK
  <2>3. Distinct(add_timer(heap, t, key))
    BY <1>0, <2>1, <2>2, AddDistinct
  <2> QED BY <2>1, <2>k, <2>3
<1>2. ASSUME timer_handler PROVE Distinct(heap')
  BY <1>0, <1>2, HandlerEffect
<1>3. ASSUME UNCHANGED heap PROVE Distinct(heap')
  BY <1>0, <1>3
<1>4. ASSUME NEW f \in Fd, AdjustTimer(f) \/ DelTimer(f) PROVE UNCHANGED heap
  BY <1>4 DEF AdjustTimer, DelTimer
<1>5. ASSUME Second \/ ReadSignal \/ UNCHANGED vars PROVE UNCHANGED heap
  BY <1>5 DEF Second, ReadSignal, timerVars, vars
<1> QED BY <1>1, <1>2, <1>3, <1>4, <1>5 DEF Next

LEMMA NextInv == IInv /\ [Next]_vars => IInv'
<1> SUFFICES ASSUME IInv, [Next]_vars PROVE IInv'
  OBVIOUS
<1>1. TypeOK' /\ SlotsMatchTimers'
  BY TypeStep, SlotStep DEF IInv
<1>2. Distinct(heap)'
  BY DistinctStep DEF Distinct
<1> QED BY <1>1, <1>2 DEF IInv

LEMMA Inductive == Spec => []IInv
  BY InitInv, NextInv, PTL DEF Spec

\* A slot points at a timer in the heap that belongs to it, and a timer with a
\* callback is in its descriptor's slot, whatever the heap has been through.
THEOREM SlotsAgree == Spec => []SlotsMatchTimers
<1>1. IInv => SlotsMatchTimers
  BY DEF IInv
<1> QED BY <1>1, Inductive, PTL

\* No timer is in the heap twice, so that tick deletes it once.
THEOREM EachTimerOnce == Spec => []Distinct(heap)
<1>1. IInv => Distinct(heap)
  BY DEF IInv
<1> QED BY <1>1, Inductive, PTL

-----------------------------------------------------------------------------
\* The timer of a descriptor as the service sees it.
T == [f \in Fd |-> IF slot[f] = NoTimer THEN "null"
                   ELSE IF Due(slot[f]) THEN "due" ELSE "fresh"]

LEMMA Seen ==
  \A f \in Fd : T[f] = IF slot[f] = NoTimer THEN "null"
                       ELSE IF left[slot[f]] <= 1 THEN "due" ELSE "fresh"
  BY DEF T, Due

LEMMA SeenNext ==
  \A f \in Fd : T'[f] = IF slot'[f] = NoTimer THEN "null"
                        ELSE IF left'[slot'[f]] <= 1 THEN "due" ELSE "fresh"
  BY DEF T, Due

\* What SlotsMatchTimers says of two descriptors: they have different timers.
LEMMA OwnTimer ==
  ASSUME IInv, NEW f \in Fd, slot[f] # NoTimer
  PROVE  /\ slot[f] \in Timer /\ slot[f] \in ToSet(heap) /\ user_data[slot[f]] = f
         /\ \A g \in Fd : slot[g] = slot[f] => g = f
  BY TimerConstants DEF IInv, TypeOK, SlotsMatchTimers, Live

LEMMA FreshDelay == Delay \in Int /\ Delay > 1
  BY TimerConstants DEF Delay

LEMMA InitService == Init => Service!Init
<1> SUFFICES ASSUME Init PROVE Service!Init
  OBVIOUS
<1>1. T = [f \in Fd |-> "null"]
  BY DEF T, Init
<1>2. heap = <<>> /\ alarm = 0 /\ ~pipe /\ ~timeout /\ m_noalarm
  BY DEF Init
<1>3. (heap # <<>>) = FALSE /\ (alarm > 0) = FALSE /\ pipe = FALSE /\ timeout = FALSE /\ m_noalarm = TRUE
  BY <1>2 DEF Init
<1> QED BY <1>1, <1>3, Zenon DEF Service!Init, T

LEMMA AddService ==
  ASSUME IInv, NEW f \in Fd, NEW t \in Timer, AddTimer(f, t), IInv'
  PROVE  Service!Add(f)
<1>1. /\ slot[f] = NoTimer /\ left' = [left EXCEPT ![t] = Delay]
      /\ slot' = [slot EXCEPT ![f] = t] /\ t \notin ToSet(heap)
  BY DEF AddTimer
<1>2. T[f] = "null"
  BY <1>1, Seen
<1>3. T' = [T EXCEPT ![f] = "fresh"]
  <2>1. ASSUME NEW g \in Fd PROVE T'[g] = IF g = f THEN "fresh" ELSE T[g]
    <3>1. CASE g = f
      <4>1. slot'[g] = t /\ left'[t] = Delay /\ t # NoTimer
        BY <1>1, <3>1, TimerConstants DEF IInv, TypeOK
      <4> QED BY <3>1, <4>1, SeenNext, FreshDelay
    <3>2. CASE g # f
      <4>1. slot'[g] = slot[g]
        BY <1>1, <3>2 DEF IInv, TypeOK
      <4>2. slot[g] # NoTimer => left'[slot[g]] = left[slot[g]]
        <5>1. slot[g] # NoTimer => slot[g] \in ToSet(heap) /\ slot[g] \in Timer
          BY OwnTimer
        <5> QED BY <1>1, <5>1 DEF IInv, TypeOK
      <4> QED BY <3>2, <4>1, <4>2, Seen, SeenNext
    <3> QED BY <3>1, <3>2
  <2> QED BY <2>1 DEF T
<1>4. heap' # <<>>
  <2>1. left' \in [Timer -> Int] /\ heap' = add_timer(heap, t, left') /\ heap \in Seq(Timer)
    BY <1>1, FreshDelay DEF AddTimer, IInv, TypeOK
  <2>k. PICK key \in [Timer -> Int] : key = left'
    BY <2>1
  <2>2. Len(add_timer(heap, t, key)) = Len(heap) + 1
    BY <2>1, AddContents
  <2>3. Len(heap') # 0
    BY <2>1, <2>2, <2>k
  <2> QED BY <2>3
<1>5. (alarm' > 0) <=> (alarm > 0 \/ m_noalarm)
  BY FreshDelay DEF AddTimer, IInv, TypeOK
<1>6. m_noalarm' = FALSE /\ UNCHANGED <<pipe, timeout>>
  BY DEF AddTimer
<1>7. (alarm' > 0) = (alarm > 0 \/ m_noalarm)
  BY <1>5
<1>8. (heap' # <<>>) = TRUE
  BY <1>4
<1> QED BY <1>2, <1>3, <1>6, <1>7, <1>8, Zenon DEF Service!Add, T

LEMMA AdjustService ==
  ASSUME IInv, NEW f \in Fd, AdjustTimer(f), IInv'
  PROVE  Service!Adjust(f)
<1>1. slot[f] # NoTimer /\ left' = [left EXCEPT ![slot[f]] = Delay]
      /\ UNCHANGED <<heap, slot, alarm, m_noalarm, pipe, timeout>>
  BY DEF AdjustTimer
<1>2. T[f] # "null"
  BY <1>1, Seen
<1>3. T' = [T EXCEPT ![f] = "fresh"]
  <2>1. ASSUME NEW g \in Fd PROVE T'[g] = IF g = f THEN "fresh" ELSE T[g]
    <3>1. CASE g = f
      <4>1. left'[slot[f]] = Delay
        BY <1>1, OwnTimer DEF IInv, TypeOK
      <4> QED BY <3>1, <4>1, <1>1, SeenNext, FreshDelay
    <3>2. CASE g # f
      <4>1. slot[g] # NoTimer => left'[slot[g]] = left[slot[g]]
        <5>1. slot[g] # NoTimer => slot[g] # slot[f] /\ slot[g] \in Timer
          BY <3>2, <1>1, OwnTimer
        <5> QED BY <1>1, <5>1 DEF IInv, TypeOK
      <4> QED BY <3>2, <4>1, <1>1, Seen, SeenNext
    <3> QED BY <3>1, <3>2
  <2> QED BY <2>1 DEF T
<1> QED BY <1>1, <1>2, <1>3, Zenon DEF Service!Adjust, T

LEMMA DeleteService ==
  ASSUME IInv, NEW f \in Fd, DelTimer(f), IInv'
  PROVE  Service!Delete(f)
<1>1. slot[f] # NoTimer /\ slot' = [slot EXCEPT ![f] = NoTimer]
      /\ UNCHANGED <<heap, left, alarm, m_noalarm, pipe, timeout>>
  BY DEF DelTimer
<1>2. T[f] # "null"
  BY <1>1, Seen
<1>3. T' = [T EXCEPT ![f] = "null"]
  <2>1. \A g \in Fd : slot'[g] = IF g = f THEN NoTimer ELSE slot[g]
    BY <1>1 DEF IInv, TypeOK
  <2>2. \A g \in Fd : T'[g] = IF g = f THEN "null" ELSE T[g]
    BY <1>1, <2>1, Seen, SeenNext
  <2> QED BY <2>2 DEF T
<1> QED BY <1>1, <1>2, <1>3, Zenon DEF Service!Delete, T

\* In a second, the timers two seconds from their end become due.
LEMMA ElapseService ==
  ASSUME IInv, Second, IInv'
  PROVE  \E S \in SUBSET Fd : Service!Elapse(S)
<1>1. /\ left' = [t \in Timer |-> IF t \in ToSet(heap) THEN Passed(t) ELSE left[t]]
      /\ alarm' = IF alarm = 0 THEN 0 ELSE alarm - 1
      /\ pipe' = (pipe \/ alarm = 1)
      /\ UNCHANGED <<heap, slot, m_noalarm, timeout>>
  BY DEF Second
<1>s. PICK S \in SUBSET Fd : S = {f \in Fd : T[f] = "fresh" /\ T'[f] = "due"}
  OBVIOUS
<1>2. \A f \in S : T[f] = "fresh"
  BY <1>s
<1>3. T' = [f \in Fd |-> IF f \in S THEN "due" ELSE T[f]]
  <2>1. ASSUME NEW f \in Fd PROVE T'[f] = IF f \in S THEN "due" ELSE T[f]
    <3>1. CASE slot[f] = NoTimer
      BY <3>1, <1>1, <1>s, Seen, SeenNext
    <3>2. CASE slot[f] # NoTimer
      <4>1. slot[f] \in Timer /\ left[slot[f]] \in Int
        BY <3>2, OwnTimer DEF IInv, TypeOK
      <4>2. left'[slot[f]] \in Int /\ left'[slot[f]] <= left[slot[f]]
        BY <1>1, <4>1 DEF Passed
      <4>3. left[slot[f]] <= 1 => left'[slot[f]] <= 1
        BY <4>1, <4>2
      <4> QED BY <3>2, <4>3, <1>1, <1>s, Seen, SeenNext
    <3> QED BY <3>1, <3>2
  <2> QED BY <2>1 DEF T
<1>4. \/ alarm > 0 /\ (alarm' > 0) = FALSE /\ pipe' = TRUE
      \/ (alarm' > 0) = (alarm > 0) /\ pipe' = pipe
  <2>0. alarm \in Nat /\ pipe \in BOOLEAN
    BY DEF IInv, TypeOK
  <2>1. CASE alarm = 1
    <3>1. alarm > 0 /\ ~(alarm' > 0)
      BY <2>1, <1>1
    <3>2. pipe'
      BY <2>1, <1>1, Zenon
    <3>3. (alarm' > 0) = FALSE
      BY <3>1
    <3>4. pipe' = TRUE
      BY <2>1, <1>1, Zenon
    <3> QED BY <3>1, <3>3, <3>4
  <2>2. CASE alarm # 1
    <3>1. pipe' = pipe
      BY <2>0, <2>2, <1>1, Zenon
    <3>2. (alarm' > 0) <=> (alarm > 0)
      BY <2>0, <2>2, <1>1
    <3>3. (alarm' > 0) = (alarm > 0)
      BY <3>2
    <3> QED BY <3>1, <3>3
  <2> QED BY <2>1, <2>2
<1>5. (alarm > 0)' = (alarm' > 0)
  OBVIOUS
<1>6. Service!Elapse(S)
  BY <1>1, <1>2, <1>3, <1>4, <1>5, Zenon DEF Service!Elapse, T
<1> QED BY <1>6

LEMMA ReadService == ASSUME IInv, ReadSignal, IInv' PROVE Service!ReadSignal
<1>1. pipe /\ pipe' = FALSE /\ timeout' = TRUE /\ m_noalarm' = TRUE
      /\ UNCHANGED <<heap, left, slot, alarm>>
  BY DEF ReadSignal, timerVars
<1>2. T' = T
  BY <1>1 DEF T, Due
<1> QED BY <1>1, <1>2, Zenon DEF Service!ReadSignal, T

\* The descriptors whose timers tick took out were due; who still has a timer has
\* it in the heap, for which the alarm is set again.
LEMMA HandleService ==
  ASSUME IInv, timer_handler, IInv'
  PROVE  \E S \in SUBSET Fd : Service!Handle(S)
<1>1. PICK closed \in SUBSET ToSet(heap) :
           /\ \A t \in closed : Due(t)
           /\ heap' \in Seq(Timer) /\ ToSet(heap') = ToSet(heap) \ closed
           /\ slot' = [f \in Fd |-> IF \E t \in closed : user_data[t] = f THEN NoTimer ELSE slot[f]]
           /\ left' = [t \in Timer |-> IF t \in closed THEN 0 ELSE left[t]]
  BY HandlerEffect DEF IInv
<1>s. PICK S \in SUBSET Fd : S = {f \in Fd : slot[f] \in closed}
  OBVIOUS
<1>2. timeout /\ timeout' = FALSE /\ UNCHANGED pipe
  BY DEF timer_handler
<1>3. \A f \in Fd : slot'[f] = IF slot[f] \in closed THEN NoTimer ELSE slot[f]
  <2>1. ASSUME NEW f \in Fd PROVE (\E t \in closed : user_data[t] = f) <=> slot[f] \in closed
    <3>1. ASSUME NEW t \in closed, user_data[t] = f PROVE slot[f] = t
      <4>1. t \in ToSet(heap) /\ user_data[t] # NoFd
        BY <3>1, TimerConstants
      <4> QED BY <3>1, <4>1 DEF IInv, SlotsMatchTimers, Live
    <3>2. slot[f] \in closed => user_data[slot[f]] = f
      <4>1. slot[f] \in closed => slot[f] # NoTimer
        BY InHeap, TimerConstants DEF IInv, TypeOK
      <4> QED BY <4>1, OwnTimer
    <3> QED BY <3>1, <3>2
  <2> QED BY <1>1, <2>1
<1>4. \A f \in S : T[f] = "due"
  <2>1. ASSUME NEW f \in S PROVE slot[f] # NoTimer /\ left[slot[f]] <= 1
    <3>1. slot[f] \in closed /\ slot[f] \in Timer
      BY <1>s, InHeap DEF IInv, TypeOK
    <3> QED BY <3>1, <1>1, TimerConstants DEF Due
  <2> QED BY <2>1, Seen
<1>5. T' = [f \in Fd |-> IF f \in S THEN "null" ELSE T[f]]
  <2>1. ASSUME NEW f \in Fd PROVE T'[f] = IF f \in S THEN "null" ELSE T[f]
    <3>1. CASE f \in S
      BY <3>1, <1>s, <1>3, SeenNext
    <3>2. CASE f \notin S
      <4>1. slot'[f] = slot[f] /\ slot[f] \notin closed
        BY <3>2, <1>s, <1>3
      <4>2. slot[f] # NoTimer => left'[slot[f]] = left[slot[f]]
        BY <4>1, <1>1, OwnTimer
      <4> QED BY <3>2, <4>1, <4>2, Seen, SeenNext
    <3> QED BY <3>1, <3>2
  <2> QED BY <2>1 DEF T
<1>6. heap' # <<>> => heap # <<>>
  <2>1. heap = <<>> => ToSet(heap) = {}
    BY DEF ToSet
  <2>2. ToSet(heap') = {} => heap' = <<>>
    <3>1. heap' # <<>> => heap'[1] \in ToSet(heap')
      <4>1. heap' # <<>> => 1 \in DOMAIN heap'
        BY <1>1
      <4> QED BY <4>1 DEF ToSet
    <3> QED BY <3>1
  <2> QED BY <2>1, <2>2, <1>1
<1>7. \A f \in Fd : T'[f] # "null" => heap' # <<>>
  <2>1. ASSUME NEW f \in Fd, T'[f] # "null" PROVE heap' # <<>>
    <3>1. slot'[f] # NoTimer
      BY <2>1, SeenNext
    <3>2. slot'[f] \in ToSet(heap')
      BY <3>1 DEF IInv, SlotsMatchTimers, Live
    <3> QED BY <3>2 DEF ToSet
  <2> QED BY <2>1
<1>8. /\ (alarm' > 0) <=> (heap' # <<>> \/ alarm > 0)
      /\ m_noalarm' <=> (m_noalarm /\ ~(heap' # <<>>))
  <2>1. CASE heap' = <<>>
    BY <2>1 DEF timer_handler
  <2>2. CASE heap' # <<>>
    <3>1. alarm' = Max({left[heap'[1]] + 1, 1}) /\ m_noalarm' = FALSE
      BY <2>2 DEF timer_handler
    <3>2. heap'[1] \in Timer
      BY <1>1, <2>2
    <3>3. left[heap'[1]] + 1 \in Int
      BY <3>2 DEF IInv, TypeOK
    <3>4. alarm' > 0
      <4>1. PICK i \in Int : i = left[heap'[1]] + 1
        BY <3>3
      <4>2. PICK n : n = alarm'
        OBVIOUS
      <4>3. n = Max({i, 1})
        BY <3>1, <4>1, <4>2
      <4> QED BY <4>2, <4>3, AtLeastOne
    <3> QED BY <2>2, <3>1, <3>4
  <2> QED BY <2>1, <2>2
<1>9. m_noalarm' \in BOOLEAN /\ m_noalarm \in BOOLEAN
  BY DEF IInv, TypeOK
<1>10. /\ (alarm' > 0) = (heap' # <<>> \/ alarm > 0)
       /\ m_noalarm' = (m_noalarm /\ ~(heap' # <<>>))
       /\ (heap' # <<>>) \in BOOLEAN
  <2>1. (alarm' > 0) = (heap' # <<>> \/ alarm > 0)
    BY <1>8
  <2>2. m_noalarm' = (m_noalarm /\ ~(heap' # <<>>))
    BY <1>8, <1>9
  <2> QED BY <2>1, <2>2
<1>11. Service!Handle(S)
  BY <1>2, <1>4, <1>5, <1>6, <1>7, <1>10, Zenon DEF Service!Handle, T
<1> QED BY <1>11

\* What happens between steps is invisible to the service.
LEMMA StutterService == ASSUME UNCHANGED vars PROVE UNCHANGED Service!vars
<1>1. UNCHANGED <<heap, left, slot, alarm, pipe, timeout, m_noalarm>>
  BY DEF vars
<1> QED BY <1>1 DEF Service!vars, Due

\* The heap with its lazy cancellations and postponements, its wrappers and the
\* alarm implement TimerService: a step of theirs is one of the service or none.
THEOREM ImplementsService == Spec => ServiceSpec
<1>1. IInv /\ IInv' /\ [Next]_vars => [Service!Next]_(Service!vars)
  <2> SUFFICES ASSUME IInv, IInv', [Next]_vars PROVE [Service!Next]_(Service!vars)
    OBVIOUS
  <2>1. ASSUME NEW f \in Fd, NEW t \in Timer, AddTimer(f, t) PROVE Service!Next
    BY <2>1, AddService DEF Service!Next
  <2>2. ASSUME NEW f \in Fd, AdjustTimer(f) PROVE Service!Next
    BY <2>2, AdjustService DEF Service!Next
  <2>3. ASSUME NEW f \in Fd, DelTimer(f) PROVE Service!Next
    BY <2>3, DeleteService DEF Service!Next
  <2>4. ASSUME Second PROVE Service!Next
    BY <2>4, ElapseService DEF Service!Next
  <2>5. ASSUME ReadSignal PROVE Service!Next
    BY <2>5, ReadService DEF Service!Next
  <2>6. ASSUME timer_handler PROVE Service!Next
    BY <2>6, HandleService DEF Service!Next
  <2>7. ASSUME UNCHANGED vars PROVE UNCHANGED Service!vars
    BY <2>7, StutterService
  <2> QED BY <2>1, <2>2, <2>3, <2>4, <2>5, <2>6, <2>7 DEF Next
<1> QED BY <1>1, InitService, Inductive, PTL DEF Spec, ServiceSpec, Service!Spec

\* What is proved of the service holds of the heap.
ServiceProofs == INSTANCE TimerService_proofs WITH
  timer <- [f \in Fd |-> IF slot[f] = NoTimer THEN "null"
                         ELSE IF Due(slot[f]) THEN "due" ELSE "fresh"],
  kept  <- heap # <<>>,
  armed <- alarm > 0

\* While the heap holds a timer, SIGALRM is set, in the pipe or read, so that
\* timer_handler will be called: no idle connection is forgotten.
THEOREM AlarmOnItsWay == Spec => [](heap # <<>> => alarm > 0 \/ pipe \/ timeout)
<1>1. ServiceProofs!Spec => []ServiceProofs!AlarmPending
  BY ServiceProofs!AlarmAlwaysPending
<1>2. Service!Init => ServiceProofs!Init
  BY Zenon DEF Service!Init, ServiceProofs!Init
<1>3. [Service!Next]_(Service!vars) => [ServiceProofs!Next]_(ServiceProofs!vars)
  BY Zenon DEF Service!Next, Service!vars, Service!Add, Service!Adjust, Service!Delete,
     Service!Elapse, Service!ReadSignal, Service!Handle,
     ServiceProofs!Next, ServiceProofs!vars, ServiceProofs!Add, ServiceProofs!Adjust,
     ServiceProofs!Delete, ServiceProofs!Elapse, ServiceProofs!ReadSignal, ServiceProofs!Handle
<1>4. ServiceProofs!AlarmPending => (heap # <<>> => alarm > 0 \/ pipe \/ timeout)
  BY DEF ServiceProofs!AlarmPending
<1> QED BY <1>1, <1>2, <1>3, <1>4, ImplementsService, PTL
        DEF ServiceSpec, Service!Spec, ServiceProofs!Spec

-----------------------------------------------------------------------------
\* No timer has longer to run than a fresh one, nor the alarm.
Bounded == (\A t \in Timer : left[t] <= Delay) /\ alarm <= Delay + 1

\* The alarm rings at most a second after the root expires.
RootInTime ==
  Len(heap) > 0 /\ ~pipe /\ ~timeout => alarm <= 1 \/ alarm <= left[heap[1]] + 1

\* m_noalarm is TRUE for a heap with timers only until tick, which sets the alarm.
NoAlarmHandled == m_noalarm /\ Len(heap) > 0 => timeout

TimeInv == Bounded /\ RootInTime /\ NoAlarmHandled

LEMMA DelayIsInt == Delay \in Int /\ Delay > 0
  BY TimerConstants DEF Delay

LEMMA InitTime == Init => TimeInv
<1> SUFFICES ASSUME Init PROVE TimeInv
  OBVIOUS
<1>1. heap = <<>> /\ alarm = 0 /\ \A t \in Timer : left[t] = 0
  BY DEF Init
<1>2. Len(heap) = 0
  BY <1>1
<1> QED BY <1>1, <1>2, DelayIsInt DEF TimeInv, Bounded, RootInTime, NoAlarmHandled

LEMMA AddInTime ==
  ASSUME TypeOK, TimeInv, NEW f \in Fd, NEW t \in Timer, AddTimer(f, t)
  PROVE  TimeInv'
<1>0. /\ heap \in Seq(Timer) /\ left \in [Timer -> Int] /\ alarm \in Nat
      /\ (\A u \in Timer : left[u] <= Delay) /\ alarm <= Delay + 1
  BY DEF TypeOK, TimeInv, Bounded
<1>1. /\ t \notin ToSet(heap) /\ alarm' = (IF m_noalarm THEN Delay ELSE alarm)
      /\ left' = [left EXCEPT ![t] = Delay] /\ heap' = add_timer(heap, t, left')
      /\ UNCHANGED <<pipe, timeout>>
  BY DEF AddTimer
<1>2. left' \in [Timer -> Int] /\ \A u \in Timer : left'[u] = IF u = t THEN Delay ELSE left[u]
  BY <1>0, <1>1, DelayIsInt
<1>3. Bounded'
  BY <1>0, <1>1, <1>2, DelayIsInt DEF Bounded
<1>4. heap'[1] = t \/ (Len(heap) > 0 /\ heap'[1] = heap[1])
  <2>1. PICK key \in [Timer -> Int] : key = left'
    BY <1>2
  <2>2. add_timer(heap, t, key)[1] = t \/ (Len(heap) > 0 /\ add_timer(heap, t, key)[1] = heap[1])
    BY <1>0, AddRoot
  <2> QED BY <1>1, <2>1, <2>2, Zenon
<1>5. RootInTime'
  <2>1. SUFFICES ASSUME ~pipe, ~timeout PROVE alarm' <= 1 \/ alarm' <= left'[heap'[1]] + 1
    BY <1>1 DEF RootInTime
  <2>2. alarm' \in Nat /\ alarm' <= Delay + 1
    BY <1>0, <1>1, DelayIsInt
  <2>3. CASE heap'[1] = t
    BY <1>2, <2>2, <2>3
  <2>4. CASE Len(heap) > 0 /\ heap'[1] = heap[1]
    <3>1. heap[1] \in Timer /\ heap[1] \in ToSet(heap)
      BY <1>0, <2>4, AtPosition
    <3>2. left'[heap'[1]] = left[heap[1]] /\ left[heap[1]] \in Int
      BY <1>0, <1>1, <1>2, <2>4, <3>1
    <3>3. alarm <= 1 \/ alarm <= left[heap[1]] + 1
      BY <2>1, <2>4 DEF TimeInv, RootInTime
    <3>4. ~m_noalarm
      BY <2>1, <2>4 DEF TimeInv, NoAlarmHandled
    <3> QED BY <1>1, <3>2, <3>3, <3>4
  <2> QED BY <1>4, <2>3, <2>4
<1>6. NoAlarmHandled'
  BY DEF AddTimer, NoAlarmHandled
<1> QED BY <1>3, <1>5, <1>6 DEF TimeInv

\* Time passes for the alarm and the root alike, until the alarm rings.
LEMMA SecondInTime == ASSUME TypeOK, TimeInv, Second PROVE TimeInv'
<1>0. /\ heap \in Seq(Timer) /\ left \in [Timer -> Int] /\ alarm \in Nat
      /\ (\A u \in Timer : left[u] <= Delay) /\ alarm <= Delay + 1
      /\ MaxLate \in Nat
  BY TimerConstants DEF TypeOK, TimeInv, Bounded
<1>1. /\ left' = [t \in Timer |-> IF t \in ToSet(heap) THEN Passed(t) ELSE left[t]]
      /\ alarm' = (IF alarm = 0 THEN 0 ELSE alarm - 1)
      /\ pipe' = (pipe \/ alarm = 1)
      /\ UNCHANGED <<heap, m_noalarm, timeout>>
  BY DEF Second
<1>2. \A u \in Timer : left'[u] \in {left[u], left[u] - 1}
  BY <1>1 DEF Passed
<1>3. Bounded'
  BY <1>0, <1>1, <1>2, DelayIsInt DEF Bounded
<1>4. RootInTime'
  <2>1. SUFFICES ASSUME Len(heap) > 0, ~pipe', ~timeout PROVE alarm' <= 1 \/ alarm' <= left'[heap[1]] + 1
    BY <1>1 DEF RootInTime
  <2>2. ~pipe /\ alarm # 1
    BY <1>1, <2>1, Zenon
  <2>3. heap[1] \in Timer
    BY <1>0, <2>1
  <2>4. alarm <= 1 \/ alarm <= left[heap[1]] + 1
    BY <2>1, <2>2 DEF TimeInv, RootInTime
  <2>5. left'[heap[1]] \in {left[heap[1]], left[heap[1]] - 1} /\ left[heap[1]] \in Int
    BY <1>0, <1>2, <2>3
  <2> QED BY <1>0, <1>1, <2>2, <2>4, <2>5
<1>5. NoAlarmHandled'
  BY <1>1 DEF TimeInv, NoAlarmHandled
<1> QED BY <1>3, <1>4, <1>5 DEF TimeInv

\* A timer that is postponed gets more time, never less.
LEMMA AdjustInTime == ASSUME TypeOK, TimeInv, NEW f \in Fd, AdjustTimer(f) PROVE TimeInv'
<1>0. /\ heap \in Seq(Timer) /\ left \in [Timer -> Int] /\ alarm \in Nat
      /\ (\A u \in Timer : left[u] <= Delay) /\ alarm <= Delay + 1
  BY DEF TypeOK, TimeInv, Bounded
<1>1. left' = [left EXCEPT ![slot[f]] = Delay]
      /\ UNCHANGED <<heap, alarm, pipe, timeout, m_noalarm>>
  BY DEF AdjustTimer
<1>2. \A u \in Timer : left'[u] \in Int /\ left[u] <= left'[u] /\ left'[u] <= Delay
  BY <1>0, <1>1, DelayIsInt
<1>3. Bounded'
  BY <1>0, <1>1, <1>2 DEF Bounded
<1>4. RootInTime'
  <2>1. SUFFICES ASSUME Len(heap) > 0, ~pipe, ~timeout PROVE alarm <= 1 \/ alarm <= left'[heap[1]] + 1
    BY <1>1 DEF RootInTime
  <2>2. heap[1] \in Timer
    BY <1>0, <2>1
  <2>3. alarm <= 1 \/ alarm <= left[heap[1]] + 1
    BY <2>1 DEF TimeInv, RootInTime
  <2> QED BY <1>0, <1>2, <2>2, <2>3
<1>5. NoAlarmHandled'
  BY <1>1 DEF TimeInv, NoAlarmHandled
<1> QED BY <1>3, <1>4, <1>5 DEF TimeInv

\* The new alarm is set for the root.
LEMMA HandlerInTime == ASSUME TypeOK, TimeInv, timer_handler PROVE TimeInv'
<1>0. /\ heap \in Seq(Timer) /\ left \in [Timer -> Int] /\ alarm \in Nat
      /\ (\A u \in Timer : left[u] <= Delay) /\ alarm <= Delay + 1
  BY DEF TypeOK, TimeInv, Bounded
<1>1. PICK closed \in SUBSET ToSet(heap) :
        /\ heap' \in Seq(Timer) /\ ToSet(heap') = ToSet(heap) \ closed
        /\ left' = [t \in Timer |-> IF t \in closed THEN 0 ELSE left[t]]
  BY HandlerEffect
<1>2. \A u \in Timer : left'[u] \in Int /\ left'[u] <= Delay
  BY <1>0, <1>1, DelayIsInt
<1>3. CASE heap' = <<>>
  <2>1. UNCHANGED <<alarm, m_noalarm>> /\ Len(heap') = 0
    BY <1>3 DEF timer_handler
  <2> QED BY <1>0, <1>2, <2>1 DEF TimeInv, Bounded, RootInTime, NoAlarmHandled
<1>4. CASE heap' # <<>>
  <2>1. alarm' = Max({left[heap'[1]] + 1, 1}) /\ m_noalarm' = FALSE
    BY <1>4 DEF timer_handler
  <2>2. Len(heap') > 0 /\ heap'[1] \in ToSet(heap') /\ heap'[1] \in Timer
    <3>1. Len(heap') > 0
      BY <1>1, <1>4
    <3>2. 1 \in 1..Len(heap')
      BY <1>1, <3>1
    <3> QED BY <1>1, <3>1, <3>2, AtPosition
  <2>3. left'[heap'[1]] = left[heap'[1]]
    BY <1>1, <2>2
  <2>4. PICK i \in Int : i = left[heap'[1]] + 1
    BY <1>0, <2>2
  <2>5. alarm' = i \/ alarm' = 1
    BY <2>1, <2>4, GreaterOf
  <2>6. left[heap'[1]] <= Delay /\ left[heap'[1]] \in Int
    BY <1>0, <2>2
  <2>7. Bounded'
    BY <1>2, <2>4, <2>5, <2>6, DelayIsInt DEF Bounded
  <2>8. RootInTime'
    BY <2>3, <2>4, <2>5 DEF RootInTime
  <2>9. NoAlarmHandled'
    BY <2>1 DEF NoAlarmHandled
  <2> QED BY <2>7, <2>8, <2>9 DEF TimeInv
<1> QED BY <1>3, <1>4

LEMMA TimeNext == TypeOK /\ TimeInv /\ [Next]_vars => TimeInv'
<1> SUFFICES ASSUME TypeOK, TimeInv, [Next]_vars PROVE TimeInv'
  OBVIOUS
<1>1. ASSUME NEW f \in Fd, DelTimer(f) PROVE TimeInv'
  BY <1>1 DEF DelTimer, TimeInv, Bounded, RootInTime, NoAlarmHandled
<1>2. CASE ReadSignal
  BY <1>2 DEF ReadSignal, timerVars, TimeInv, Bounded, RootInTime, NoAlarmHandled
<1>3. CASE UNCHANGED vars
  BY <1>3 DEF vars, TimeInv, Bounded, RootInTime, NoAlarmHandled
<1> QED BY <1>1, <1>2, <1>3, AddInTime, SecondInTime, AdjustInTime, HandlerInTime DEF Next

\* In a heap in order, the alarm that is in time for the root is for every timer.
LEMMA OrderedAlarm ==
  ASSUME TypeOK, TimeInv, IsHeap(heap, left), ~pipe, ~timeout, NEW t \in Live
  PROVE  alarm <= 1 \/ alarm <= left[t] + 1
<1>1. t \in ToSet(heap) /\ heap \in Seq(Timer) /\ left \in [Timer -> Int] /\ alarm \in Nat
  BY DEF Live, TypeOK
<1>2. Len(heap) > 0 /\ heap[1] \in ToSet(heap) /\ left[heap[1]] <= left[t]
  BY <1>1, RootEarliest
<1>3. left[heap[1]] \in Int /\ left[t] \in Int
  BY <1>1, <1>2, AtPosition
<1>4. alarm <= 1 \/ alarm <= left[heap[1]] + 1
  BY <1>2 DEF TimeInv, RootInTime
<1> QED BY <1>1, <1>2, <1>3, <1>4

\* What tick leaves of a heap in order is in order and not due, and only adjust_timer
\* takes a timer out of its order.
LEMMA OrderKept ==
  ASSUME TypeOK, TimeInv, IsHeap(heap, left), [Next]_vars
  PROVE  /\ timer_handler => \A t \in Live' : ~Due(t)'
         /\ IsHeap(heap', left') \/ \E f \in Fd : AdjustTimer(f)
<1>0. /\ heap \in Seq(Timer) /\ left \in [Timer -> Int] /\ \A u \in Timer : left[u] <= Delay
      /\ ToSet(heap) \subseteq Timer
  BY InHeap DEF TypeOK, TimeInv, Bounded
<1>1. ASSUME timer_handler
      PROVE  IsHeap(heap', left') /\ \A t \in Live' : ~Due(t)'
  <2>1. PICK closed \in SUBSET ToSet(heap) :
          /\ heap' \in Seq(Timer) /\ ToSet(heap') = ToSet(heap) \ closed
          /\ IsHeap(heap', left) /\ \A t \in ToSet(heap') : ~ Due(t)
          /\ left' = [t \in Timer |-> IF t \in closed THEN 0 ELSE left[t]]
    BY <1>1, HandlerEffect
  <2>2. \A t \in ToSet(heap') : left'[t] = left[t]
    BY <1>0, <2>1
  <2>3. PICK h, key : h = heap' /\ key = left'
    OBVIOUS
  <2>4. IsHeap(h, key)
    BY <2>1, <2>2, <2>3, SameOrder
  <2>5. \A t \in Live' : ~Due(t)'
    BY <2>1, <2>2 DEF Live, Due
  <2> QED BY <2>3, <2>4, <2>5
<1>2. ASSUME NEW f \in Fd, NEW t \in Timer, AddTimer(f, t) PROVE IsHeap(heap', left')
  <2>1. /\ t \notin ToSet(heap) /\ left' = [left EXCEPT ![t] = Delay]
        /\ heap' = add_timer(heap, t, left')
    BY <1>2 DEF AddTimer
  <2>2. left' \in [Timer -> Int] /\ \A u \in ToSet(heap) : left'[u] = left[u]
    BY <1>0, <2>1, DelayIsInt
  <2>3. PICK key \in [Timer -> Int] : key = left'
    BY <2>2
  <2>4. IsHeap(heap, key)
    BY <1>0, <2>2, <2>3, SameOrder
  <2>5. IsHeap(add_timer(heap, t, key), key)
    BY <1>0, <2>4, AddKeepsHeap
  <2> QED BY <2>1, <2>3, <2>5
<1>3. ASSUME Second PROVE IsHeap(heap', left')
  <2>1. /\ left' = [t \in Timer |-> IF t \in ToSet(heap) THEN Passed(t) ELSE left[t]] /\ heap' = heap
    BY <1>3 DEF Second
  <2>2. \A s, t \in ToSet(heap) : left[s] <= left[t] => left'[s] <= left'[t]
    BY <1>0, <2>1, TimerConstants DEF Passed
  <2>3. ASSUME NEW i \in 2..Len(heap) PROVE left'[heap[i \div 2]] <= left'[heap[i]]
    <3>0. Len(heap) \in Nat
      BY <1>0
    <3>1. i \in 1..Len(heap) /\ i \div 2 \in 1..Len(heap)
      BY <3>0, Halves
    <3>2. heap[i] \in ToSet(heap) /\ heap[i \div 2] \in ToSet(heap)
      BY <1>0, <3>1, AtPosition
    <3>3. left[heap[i \div 2]] <= left[heap[i]]
      BY DEF IsHeap
    <3> QED BY <2>2, <3>2, <3>3
  <2> QED BY <2>1, <2>3 DEF IsHeap
<1>4. ASSUME UNCHANGED <<heap, left>> PROVE IsHeap(heap', left')
  BY <1>4
<1>5. ASSUME NEW f \in Fd, DelTimer(f) PROVE UNCHANGED <<heap, left>>
  BY <1>5 DEF DelTimer
<1>6. ASSUME ReadSignal \/ UNCHANGED vars PROVE UNCHANGED <<heap, left>>
  BY <1>6 DEF ReadSignal, timerVars, vars
<1> QED BY <1>1, <1>2, <1>3, <1>4, <1>5, <1>6 DEF Next

\* As long as nobody has postponed a timer that is still at its old place, the alarm
\* comes in time for every timer, tick leaves none that is due (minheap_timer.cpp:153-170),
\* and nothing but adjust_timer changes that.
THEOREM OrderedMeansInTime == Spec => InTimeWhenOrdered
<1>1. TypeOK /\ TimeInv =>
        (IsHeap(heap, left) /\ ~pipe /\ ~timeout => \A t \in Live : alarm <= 1 \/ alarm <= left[t] + 1)
  BY OrderedAlarm
<1>2. TypeOK /\ TimeInv /\ [Next]_vars =>
        [IsHeap(heap, left) =>
           /\ timer_handler => \A t \in Live' : ~Due(t)'
           /\ IsHeap(heap', left') \/ \E f \in Fd : AdjustTimer(f)]_vars
  BY OrderKept
<1>3. IInv => TypeOK
  BY DEF IInv
<1> QED BY <1>1, <1>2, <1>3, InitTime, TimeNext, Inductive, PTL DEF Spec, InTimeWhenOrdered

-----------------------------------------------------------------------------
\* The constructor's loop: down from the last parent to the root.
BuildNext(s, key) == <<perocolate_down(s[1], s[2], key), s[2] - 1>>

LEMMA BuildStays ==
  ASSUME NEW D, NEW key \in [D -> Int], NEW s \in Moving(key)
  PROVE  /\ perocolate_down(s[1], s[2], key) \in Seq(D) /\ s[2] \in Nat
         /\ s[2] # 1 => /\ BuildNext(s, key) \in Moving(key)
                        /\ BuildNext(s, key)[2] < s[2] /\ BuildNext(s, key)[2] \in Nat
<1>a. PICK a : a = s[1]
  OBVIOUS
<1>p. PICK p : p = s[2]
  OBVIOUS
<1>1. a \in Seq(D) /\ p \in 1..Len(a) /\ Len(a) \in Nat /\ DOMAIN key = D
  BY <1>a, <1>p, StepsStay
<1>b. PICK b : b = perocolate_down(a, p, key)
  OBVIOUS
<1>2. b \in Seq(D) /\ Len(b) = Len(a)
  BY <1>1, <1>b, DownPermutes
<1>3. ASSUME p # 1 PROVE <<b, p - 1>> \in Moving(key) /\ p - 1 < p /\ p - 1 \in Nat
  <2>1. p - 1 \in 1..Len(b) /\ p - 1 \in Nat /\ p - 1 < p
    BY <1>1, <1>2, <1>3
  <2> QED BY <1>1, <1>2, <2>1 DEF Moving
<1>4. BuildNext(s, key) = <<b, p - 1>>
  BY <1>a, <1>b, <1>p DEF BuildNext
<1>5. p \in Nat
  BY <1>1
<1> QED BY <1>2, <1>3, <1>4, <1>5, <1>a, <1>b, <1>p

\* The array build returns is what the last round makes of one that has what holds of
\* the first array and survives each round.
LEMMA BuildKeeps ==
  ASSUME NEW D, NEW key \in [D -> Int], NEW a \in Seq(D), a # <<>>,
         NEW P \in SUBSET Moving(key), <<a, (Len(a) - 1) \div 2 + 1>> \in P,
         \A s \in P : s[2] # 1 => BuildNext(s, key) \in P
  PROVE  \E s \in P : s[2] = 1 /\ build(a, key) = perocolate_down(s[1], 1, key)
<1> DEFINE S == Moving(key)
           done == {s \in S : s[2] = 1}
           nx == [s \in S |-> IF s[2] = 1 THEN s ELSE BuildNext(s, key)]
           out == [s \in S |-> perocolate_down(s[1], s[2], key)]
           m == [s \in S |-> s[2]]
           Body(g, s) == IF s[2] = 1 THEN perocolate_down(s[1], s[2], key)
                         ELSE g[<<perocolate_down(s[1], s[2], key), s[2] - 1>>]
<1>c. PICK c : c = <<a, (Len(a) - 1) \div 2 + 1>>
  OBVIOUS
<1>1. nx \in [S -> S] /\ m \in [S -> Nat] /\ \A s \in S \ done : m[nx[s]] < m[s]
  <2>1. \A s \in S : s[2] # 1 => BuildNext(s, key) \in S
    BY BuildStays
  <2>2. nx \in [S -> S]
    <3> HIDE DEF S
    <3> QED BY <2>1
  <2>3. m \in [S -> Nat]
    <3>1. \A s \in S : s[2] \in Nat
      BY BuildStays
    <3> HIDE DEF S
    <3> QED BY <3>1
  <2>4. ASSUME NEW s \in S \ done PROVE m[nx[s]] < m[s]
    <3>1. s[2] # 1 /\ s \in S
      OBVIOUS
    <3>2. BuildNext(s, key) \in S /\ BuildNext(s, key)[2] < s[2]
      BY <3>1, BuildStays
    <3>t. PICK t : t = BuildNext(s, key)
      OBVIOUS
    <3> HIDE DEF S, done
    <3>3. nx[s] = t /\ m[t] = t[2] /\ m[s] = s[2]
      BY <3>1, <3>2, <3>t
    <3> HIDE DEF nx, m
    <3> QED BY <3>2, <3>3, <3>t
  <2> QED BY <2>2, <2>3, <2>4
<1>v. PICK V : V = Seq(D)
  OBVIOUS
<1>2. \E g \in [S -> V] : Rounds(S, done, nx, out, g)
  <2>1. done \in SUBSET S
    OBVIOUS
  <2>2. out \in [S -> V]
    <3>1. \A s \in S : perocolate_down(s[1], s[2], key) \in V
      BY <1>v, BuildStays
    <3> HIDE DEF S
    <3> QED BY <3>1
  <2>3. nx \in [S -> S]
    BY <1>1
  <2> HIDE DEF nx, out, S, done, Body, m
  <2> QED BY <2>1, <2>2, <2>3, LoopExists, Zenon
<1>3. \A g : \A s \in S : Body(g, s) = IF s \in done THEN out[s] ELSE g[nx[s]]
  <2> HIDE DEF S
  <2> QED BY DEF BuildNext
<1>4. \E g : g = [s \in S |-> Body(g, s)]
  <2>1. PICK g \in [S -> V] : Rounds(S, done, nx, out, g)
    BY <1>2
  <2>2. \A s \in S : g[s] = Body(g, s)
    <3> HIDE DEF Body, S, done, out, nx, m
    <3> QED BY <2>1, <1>3 DEF Rounds
  <2>3. g = [s \in S |-> Body(g, s)]
    <3> HIDE DEF Body, S, done, out, nx, m
    <3> QED BY <2>1, <2>2
  <2> HIDE DEF Body, S, done, out, nx, m
  <2> QED BY <2>3
<1>5. PICK heapify : /\ heapify = CHOOSE g : g = [s \in S |-> Body(g, s)]
                     /\ build(a, key) = heapify[c]
  BY <1>c, Zenon DEF build
<1>6. heapify = [s \in S |-> Body(heapify, s)]
  <2> HIDE DEF Body, S
  <2> QED BY <1>4, <1>5
<1>7. Rounds(S, done, nx, out, heapify)
  <2>1. \A s \in S : heapify[s] = Body(heapify, s)
    <3> HIDE DEF Body, S
    <3> QED BY <1>6
  <2> HIDE DEF Body, S, done, out, nx
  <2> QED BY <2>1, <1>3 DEF Rounds
<1>8. \A s \in P \ done : nx[s] \in P
  OBVIOUS
<1>9. \E d \in P \cap done : heapify[c] = out[d]
  <2>1. done \in SUBSET S
    OBVIOUS
  <2>2. P \in SUBSET S
    OBVIOUS
  <2>3. Loop(S, done, nx, out, m, heapify)
    <3> HIDE DEF S, done, out, nx, m, Body
    <3> QED BY <1>1, <1>7, <2>1 DEF Loop
  <2>4. Kept(S, done, nx, P)
    <3> HIDE DEF S, done, out, nx, m, Body
    <3> QED BY <1>8, <2>2 DEF Kept
  <2> HIDE DEF S, done, out, nx, m, Body
  <2> QED BY <1>c, <2>3, <2>4, LoopKeeps
<1>10. PICK d \in P \cap done : heapify[c] = out[d]
  BY <1>9
<1>11. d \in P /\ d[2] = 1 /\ out[d] = perocolate_down(d[1], 1, key)
  BY <1>10
<1> QED BY <1>5, <1>10, <1>11

\* The constructor makes a heap of any array of timers, of the same timers.
THEOREM BuildMakesHeap ==
  ASSUME NEW D, NEW key \in [D -> Int], NEW a \in Seq(D)
  PROVE  /\ build(a, key) \in Seq(D) /\ IsHeap(build(a, key), key)
         /\ Len(build(a, key)) = Len(a) /\ ToSet(build(a, key)) = ToSet(a)
         /\ Distinct(a) => Distinct(build(a, key))
<1>n. PICK n : n = Len(a)
  OBVIOUS
<1>b. PICK b : b = build(a, key)
  OBVIOUS
<1>0. n \in Nat
  BY <1>n
<1>1. CASE a = <<>>
  <2>1. b = <<>>
    BY <1>1, <1>b DEF build
  <2>2. b \in Seq(D) /\ Len(b) = 0
    BY <2>1
  <2>3. IsHeap(b, key)
    BY <2>2 DEF IsHeap
  <2>4. Len(b) = Len(a) /\ ToSet(b) = ToSet(a) /\ (Distinct(a) => Distinct(b))
    BY <1>1, <2>1, Zenon
  <2> QED BY <1>b, <2>2, <2>3, <2>4, Zenon
<1>2. CASE a # <<>>
  <2> DEFINE Same(h) == Len(h) = n /\ ToSet(h) = ToSet(a) /\ (Distinct(a) => Distinct(h))
             P == {s \in Moving(key) : Same(s[1]) /\ OrderedFrom(s[1], key, s[2], s[2])}
  <2>0. n > 0
    BY <1>0, <1>2, <1>n
  <2>1. <<a, (n - 1) \div 2 + 1>> \in P
    <3>m. PICK m : m = (n - 1) \div 2 + 1
      OBVIOUS
    <3>1. m \in 1..n /\ \A i \in 2..n : ~(i \div 2 >= m /\ i \div 2 # m)
      BY <1>0, <2>0, <3>m
    <3>2. OrderedFrom(a, key, m, m)
      BY <1>n, <3>1 DEF OrderedFrom
    <3>3. <<a, m>> \in Moving(key)
      BY <1>n, <3>1 DEF Moving
    <3>4. Same(a)
      BY <1>n
    <3> QED BY <3>2, <3>3, <3>4, <3>m
  <2>2. ASSUME NEW s \in P
        PROVE  /\ perocolate_down(s[1], s[2], key) \in Seq(D)
               /\ Same(perocolate_down(s[1], s[2], key))
               /\ OrderedFrom(perocolate_down(s[1], s[2], key), key, s[2], 0)
               /\ s[2] \in 1..n
    <3>h. PICK h : h = s[1]
      OBVIOUS
    <3>p. PICK p : p = s[2]
      OBVIOUS
    <3>c. PICK c : c = perocolate_down(h, p, key)
      OBVIOUS
    <3>1. s \in Moving(key) /\ Same(h) /\ OrderedFrom(h, key, p, p)
      BY <3>h, <3>p
    <3>2. h \in Seq(D) /\ p \in 1..Len(h)
      BY <3>1, <3>h, <3>p, StepsStay
    <3>3. c \in Seq(D) /\ Len(c) = Len(h) /\ ToSet(c) = ToSet(h)
      BY <3>2, <3>c, DownPermutes
    <3>4. Distinct(h) => Distinct(c)
      BY <3>2, <3>c, DownDistinct
    <3>5. OrderedFrom(c, key, p, 0)
      <4> HIDE DEF P, Same
      <4> QED BY <3>1, <3>2, <3>c, DownOrdersFrom
    <3> HIDE DEF P
    <3> QED BY <3>1, <3>2, <3>3, <3>4, <3>5, <3>h, <3>p, <3>c
  <2>3. ASSUME NEW s \in P, s[2] # 1 PROVE BuildNext(s, key) \in P
    <3>p. PICK p : p = s[2]
      OBVIOUS
    <3>c. PICK c : c = perocolate_down(s[1], s[2], key)
      OBVIOUS
    <3>1. c \in Seq(D) /\ Same(c) /\ OrderedFrom(c, key, p, 0) /\ p \in 1..n
      BY <2>2, <3>c, <3>p
    <3>2. BuildNext(s, key) = <<c, p - 1>> /\ BuildNext(s, key) \in Moving(key)
      <4>1. s \in Moving(key)
        OBVIOUS
      <4> HIDE DEF P, Same
      <4> QED BY <2>3, <3>c, <3>p, <4>1, BuildStays DEF BuildNext
    <3>3. OrderedFrom(c, key, p - 1, p - 1)
      <4>1. ASSUME NEW i \in 2..Len(c), i \div 2 >= p - 1, i \div 2 # p - 1
            PROVE  key[c[i \div 2]] <= key[c[i]]
        <5>1. i \div 2 >= p /\ i \div 2 # 0
          <6>1. i \in Int /\ i >= 2 /\ p \in Int /\ p >= 1 /\ n \in Nat
            BY <1>0, <3>1
          <6>2. i \div 2 \in Int /\ i \div 2 >= 1
            BY <6>1
          <6> QED BY <4>1, <6>1, <6>2
        <5> QED BY <3>1, <5>1 DEF OrderedFrom
      <4> QED BY <4>1 DEF OrderedFrom
    <3> HIDE DEF Same
    <3> QED BY <3>1, <3>2, <3>3
  <2>4. PICK s \in P : s[2] = 1 /\ b = perocolate_down(s[1], 1, key)
    <3>1. P \in SUBSET Moving(key)
      OBVIOUS
    <3> HIDE DEF P
    <3> QED BY <1>2, <1>b, <1>n, <2>1, <2>3, <3>1, BuildKeeps
  <2>5. b \in Seq(D) /\ Same(b) /\ OrderedFrom(b, key, 1, 0)
    <3> HIDE DEF P, Same
    <3> QED BY <2>2, <2>4
  <2>6. IsHeap(b, key)
    <3>1. Len(b) \in Nat
      BY <2>5
    <3>2. \A i \in 2..Len(b) : i \div 2 >= 1 /\ i \div 2 # 0
      BY <3>1, Halves
    <3> QED BY <2>5, <3>2 DEF OrderedFrom, IsHeap
  <2> QED BY <1>b, <1>n, <2>5, <2>6
<1> QED BY <1>1, <1>2


\* A sequence in which nothing is twice is as long as its elements are many.
LEMMA AsLongAs ==
  ASSUME NEW D, NEW a \in Seq(D), Distinct(a) PROVE Len(a) = Cardinality(ToSet(a))
<1>0. Len(a) \in Nat /\ DOMAIN a = 1..Len(a)
  OBVIOUS
<1>1. a \in [1..Len(a) -> ToSet(a)]
  BY <1>0 DEF ToSet
<1>2. a \in Bijection(1..Len(a), ToSet(a))
  BY <1>0, <1>1 DEF Bijection, Injection, Surjection, IsInjective, Distinct, ToSet
<1> QED BY <1>0, <1>2, FS_CountingElements DEF ExistsBijection

\* The heap by itself is always in order, without duplicates and within its array.
OpsInv ==
  /\ array \in Seq(Member) /\ expire \in [Member -> 0..MaxKey] /\ capacity \in Nat
  /\ IsHeap(array, expire) /\ Distinct(array) /\ Len(array) <= capacity /\ capacity >= 1

LEMMA Keys == expire \in [Member -> 0..MaxKey] => expire \in [Member -> Int]
  BY OpsAssumption

LEMMA OpsStart == OpsInit => OpsInv
<1> SUFFICES ASSUME OpsInit PROVE OpsInv
  OBVIOUS
<1>1. expire \in [Member -> 0..MaxKey] /\ expire \in [Member -> Int]
  BY Keys DEF OpsInit
<1>2. PICK a \in Arrays : array = build(a, expire)
  BY DEF OpsInit
<1>3. a \in Seq(Member) /\ Distinct(a)
  <2>1. PICK n \in Nat : a \in [1..n -> Member]
    BY <1>2, OpsAssumption, FS_CardinalityType DEF Arrays
  <2>2. a \in Seq(Member) /\ Len(a) = n /\ DOMAIN a = 1..n
    BY <2>1
  <2> QED BY <1>2, <2>2 DEF Arrays, Distinct
<1>4. array \in Seq(Member) /\ IsHeap(array, expire) /\ Distinct(array)
  BY <1>1, <1>2, <1>3, BuildMakesHeap
<1>5. capacity \in Nat /\ capacity >= 1 /\ capacity >= Len(array)
  <2>1. PICK i : i = Len(array)
    OBVIOUS
  <2>2. i \in Int /\ capacity = Max({i, 1})
    BY <1>4, <2>1 DEF OpsInit
  <2> QED BY <2>1, <2>2, AtLeastOne
<1>6. Len(array) <= capacity
  BY <1>4, <1>5
<1> QED BY <1>1, <1>4, <1>5, <1>6 DEF OpsInv

LEMMA AddExact == ASSUME OpsInv, Add PROVE OpsInv' /\ ExactStep
<1>0. expire \in [Member -> Int] /\ array \in Seq(Member) /\ IsHeap(array, expire)
      /\ Distinct(array) /\ capacity \in Nat /\ Len(array) <= capacity /\ capacity >= 1
  BY Keys DEF OpsInv
<1>1. PICK t \in Member \ ToSet(array) :
        array' = add_timer(array, t, expire) /\ capacity' = resized(capacity, array) /\ expire' = expire
  BY DEF Add
<1>k. PICK key, a : key = expire /\ a = array
  OBVIOUS
<1>2. array' \in Seq(Member) /\ Len(array') = Len(array) + 1 /\ ToSet(array') = ToSet(array) \cup {t}
  <2>1. key \in [Member -> Int] /\ a \in Seq(Member) /\ t \in Member
    BY <1>0, <1>k
  <2>2. /\ add_timer(a, t, key) \in Seq(Member)
        /\ Len(add_timer(a, t, key)) = Len(a) + 1
        /\ ToSet(add_timer(a, t, key)) = ToSet(a) \cup {t}
    BY <2>1, AddContents
  <2> QED BY <1>1, <1>k, <2>2, Zenon
<1>3. IsHeap(array', expire')
  BY <1>0, <1>1, AddKeepsHeap
<1>4. Distinct(array')
  BY <1>0, <1>1, AddDistinct
<1>5. capacity' \in Nat /\ Len(array') <= capacity' /\ capacity' >= 1
  <2>1. PICK n : n = Len(array)
    OBVIOUS
  <2>2. n \in Nat /\ capacity' = IF n >= capacity THEN 2 * capacity ELSE capacity
    BY <1>0, <1>1, <2>1 DEF resized
  <2>3. Len(array') = n + 1 /\ n <= capacity
    BY <1>0, <1>2, <2>1
  <2> QED BY <1>0, <2>2, <2>3
<1>6. Len(array') = Cardinality(ToSet(array'))
  BY <1>2, <1>4, AsLongAs
<1>7. OpsInv'
  BY <1>1, <1>2, <1>3, <1>4, <1>5 DEF OpsInv
<1> QED BY <1>2, <1>3, <1>5, <1>6, <1>7 DEF ExactStep

LEMMA PopExact == ASSUME OpsInv, Pop PROVE OpsInv' /\ ExactStep
<1>0. expire \in [Member -> Int] /\ array \in Seq(Member) /\ IsHeap(array, expire)
      /\ Distinct(array) /\ capacity \in Nat /\ Len(array) <= capacity /\ capacity >= 1
  BY Keys DEF OpsInv
<1>1. array # <<>> /\ array' = pop(array, expire) /\ expire' = expire /\ capacity' = capacity
  BY DEF Pop
<1>2. Len(array) \in Nat /\ Len(array) > 0 /\ DOMAIN array = 1..Len(array)
  BY <1>0, <1>1
<1>3. OrderedBut(array, expire, 1)
  BY <1>0, HeapOrdered
<1>4. array' \in Seq(Member) /\ Len(array') = Len(array) - 1
  BY <1>0, <1>1, <1>2, PopContents
<1>5. IsHeap(array', expire') /\ ToSet(array) = ToSet(array') \cup {array[1]}
  BY <1>0, <1>1, <1>2, <1>3, PopKeepsHeap
<1>6. Distinct(array') /\ array[1] \notin ToSet(array')
  BY <1>0, <1>1, <1>2, PopDistinct
<1>7. ToSet(array') = ToSet(array) \ {array[1]}
  BY <1>5, <1>6
<1>8. Len(array') <= capacity'
  BY <1>0, <1>1, <1>2, <1>4
<1>9. Len(array') = Cardinality(ToSet(array'))
  BY <1>4, <1>6, AsLongAs
<1>10. \A i \in DOMAIN array : expire[array[1]] <= expire[array[i]]
  BY <1>0, <1>2, RootFirst
<1>11. OpsInv'
  BY <1>0, <1>1, <1>4, <1>5, <1>6, <1>8 DEF OpsInv
<1> QED BY <1>4, <1>5, <1>7, <1>8, <1>9, <1>10, <1>11 DEF ExactStep

LEMMA PostponeExact == ASSUME OpsInv, Postpone PROVE OpsInv' /\ ExactStep
<1>0. expire \in [Member -> Int] /\ array \in Seq(Member) /\ IsHeap(array, expire)
      /\ Distinct(array) /\ capacity \in Nat /\ Len(array) <= capacity /\ capacity >= 1
  BY Keys DEF OpsInv
<1>1. PICK k \in expire[array[1]]..MaxKey : expire' = [expire EXCEPT ![array[1]] = k]
  BY DEF Postpone
<1>2. array # <<>> /\ array' = real_adjust(array, expire') /\ capacity' = capacity
  BY DEF Postpone
<1>3. Len(array) \in Nat /\ Len(array) > 0 /\ DOMAIN array = 1..Len(array)
  BY <1>0, <1>2
<1>r. PICK r : r = array[1]
  OBVIOUS
<1>4. r \in Member
  BY <1>0, <1>3, <1>r
<1>5. k \in 0..MaxKey
  <2>1. expire[r] \in 0..MaxKey /\ k \in expire[r]..MaxKey
    BY <1>1, <1>4, <1>r DEF OpsInv
  <2> QED BY <2>1, OpsAssumption
<1>6. expire' \in [Member -> 0..MaxKey]
  BY <1>1, <1>5 DEF OpsInv
<1>7. expire' \in [Member -> Int]
  BY <1>6, OpsAssumption
<1>8. OrderedBut(array, expire', 1)
  <2>1. ASSUME NEW i \in 2..Len(array), i \div 2 # 1 PROVE expire'[array[i \div 2]] <= expire'[array[i]]
    <3>1. i \in 1..Len(array) /\ i # 1 /\ i \div 2 \in 1..Len(array)
      BY <1>3, Halves
    <3>2. array[i] # r /\ array[i \div 2] # r
      BY <1>0, <1>3, <1>r, <2>1, <3>1 DEF Distinct
    <3>3. array[i] \in Member /\ array[i \div 2] \in Member
      BY <1>0, <3>1
    <3>4. expire[array[i \div 2]] <= expire[array[i]]
      BY <1>0 DEF IsHeap
    <3> QED BY <1>0, <1>1, <1>r, <3>2, <3>3, <3>4
  <2> QED BY <2>1 DEF OrderedBut
<1>k. PICK key : key = expire'
  OBVIOUS
<1>9. IsHeap(array', expire') /\ ToSet(array') = ToSet(array)
  BY <1>0, <1>2, <1>3, <1>7, <1>8, <1>k, AdjustRestoresHeap
<1>10. array' \in Seq(Member) /\ Len(array') = Len(array)
  BY <1>0, <1>2, <1>3, <1>7, <1>k, AdjustContents
<1>11. Distinct(array')
  BY <1>0, <1>2, <1>3, <1>7, <1>k, AdjustDistinct
<1>12. Len(array') = Cardinality(ToSet(array'))
  BY <1>10, <1>11, AsLongAs
<1>13. Len(array') <= capacity' /\ capacity' \in Nat /\ capacity' >= 1
  BY <1>0, <1>2, <1>10
<1>14. OpsInv'
  BY <1>6, <1>9, <1>10, <1>11, <1>13 DEF OpsInv
<1> QED BY <1>9, <1>12, <1>13, <1>14 DEF ExactStep

\* Built from any array of timers and driven by any operations, a min_heap stays in
\* order, loses and duplicates no timer, removes a minimum, and never writes beyond its
\* array (minheap_timer.cpp:55-218).
THEOREM HeapExact == OpsSpec => Exact
<1>1. OpsInv /\ [OpsNext]_opsVars => OpsInv'
  <2>1. ASSUME OpsInv, UNCHANGED opsVars PROVE OpsInv'
    BY <2>1 DEF OpsInv, opsVars
  <2> QED BY <2>1, AddExact, PopExact, PostponeExact DEF OpsNext
<1>2. OpsInv /\ [OpsNext]_opsVars => [ExactStep]_opsVars
  BY AddExact, PopExact, PostponeExact DEF OpsNext
<1> QED BY <1>1, <1>2, OpsStart, PTL DEF OpsSpec, Exact
=============================================================================
