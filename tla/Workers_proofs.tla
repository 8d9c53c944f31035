---------------------------- MODULE Workers_proofs ----------------------------
(***************************************************************************)
(* For any number of workers, any limit of the queue and any number of     *)
(* interrupted waits: types, the balance of the semaphore and the list,    *)
(* and the FIFO promise of the queue.  For any number of names, failing    *)
(* INSERTs and restarts: what the map and the database keep of a           *)
(* registration whose lookup did not race.  Of the composition: what the   *)
(* queue and the table promise alone, they promise together, and every     *)
(* connection is served by one worker.                                     *)
(***************************************************************************)
EXTENDS Workers, FiniteSetTheorems, SequenceTheorems, TLAPS

-----------------------------------------------------------------------------
(* The queue of requests                                                   *)

QueueInv == QueueTypeOK /\ Balanced

\* Head, Tail and Append keep a list of requests a list of requests.
LEMMA ListOps ==
  ASSUME NEW s \in Seq(Request)
  PROVE  /\ Len(s) \in Nat
         /\ s # <<>> => /\ Head(s) \in Request /\ Tail(s) \in Seq(Request)
                        /\ Len(Tail(s)) = Len(s) - 1 /\ Len(s) > 0
         /\ s = <<>> => Len(s) = 0
         /\ \A r \in Request : /\ Append(s, r) \in Seq(Request)
                               /\ Len(Append(s, r)) = Len(s) + 1
  OBVIOUS

\* The number of workers on their way to the list is a number.
LEMMA AtFinite == IsFiniteSet(At("take")) /\ Cardinality(At("take")) \in Nat
<1>1. At("take") \subseteq Worker  BY DEF At
<1>2. IsFiniteSet(At("take"))  BY <1>1, FS_Subset, WorkersAssumption
<1>. QED  BY <1>2, FS_CardinalityType

\* A worker that sets out for the list adds one to them.
LEMMA Leaves ==
  ASSUME QueueTypeOK, NEW w \in Worker, pc[w] # "take", Goto(w, "take")
  PROVE  Cardinality(At("take"))' = Cardinality(At("take")) + 1
<1>1. At("take")' = At("take") \cup {w}  BY DEF QueueTypeOK, Goto, At
<1>2. w \notin At("take")  BY DEF At
<1>3. Cardinality(At("take") \cup {w}) = Cardinality(At("take")) + 1
  BY <1>2, AtFinite, FS_AddElement
<1>. QED  BY <1>1, <1>3

\* A worker that leaves the list takes one away.
LEMMA Arrives ==
  ASSUME QueueTypeOK, NEW w \in Worker, pc[w] = "take", NEW l, l # "take", Goto(w, l)
  PROVE  Cardinality(At("take"))' = Cardinality(At("take")) - 1
<1>1. At("take")' = At("take") \ {w}  BY DEF QueueTypeOK, Goto, At
<1>2. w \in At("take")  BY DEF At
<1>3. Cardinality(At("take") \ {w}) = Cardinality(At("take")) - 1
  BY <1>2, AtFinite, FS_RemoveElement
<1>. QED  BY <1>1, <1>3

\* Any other move of a worker leaves them alone.
LEMMA Stays ==
  ASSUME QueueTypeOK, NEW w \in Worker, pc[w] # "take", NEW l, l # "take", Goto(w, l)
  PROVE  Cardinality(At("take"))' = Cardinality(At("take"))
<1>1. At("take")' = At("take")  BY DEF QueueTypeOK, Goto, At
<1>. QED  BY <1>1

\* The numbers Balanced speaks of.
LEMMA Numbers ==
  QueueTypeOK => /\ Cardinality(At("take")) \in Nat /\ m_queuestat \in Nat /\ slips \in Nat
                 /\ Len(m_workqueue) \in Nat /\ posting \in BOOLEAN
BY AtFinite, ListOps DEF QueueTypeOK

\* The queue is empty at first, and all workers wait.
LEMMA InitQueue == QueueInit => QueueInv
<1>. SUFFICES ASSUME QueueInit PROVE QueueInv
  OBVIOUS
<1>. USE QueueAssumption DEF QueueInit
<1>1. QueueTypeOK
  <2>1. m_workqueue \in Seq(Request) /\ Len(m_workqueue) = 0 /\ 0 <= m_max_requests
    BY ListOps
  <2>2. /\ pc \in [Worker -> {"wait", "take", "work"}]
        /\ request \in [Worker -> Request \cup {NoRequest}]
    OBVIOUS
  <2>. QED  BY <2>1, <2>2 DEF QueueTypeOK
<1>2. At("take") = {}  BY DEF At
<1>3. Cardinality(At("take")) = 0  BY <1>2, FS_EmptySet
<1>. QED  BY <1>1, <1>3 DEF QueueInv, Balanced, Tokens

\* append adds one to the list and one to the tokens.
LEMMA AppendQueue == ASSUME QueueInv, NEW r \in Request, append(r) PROVE QueueInv'
<1>. USE DEF QueueInv
<1>1. /\ m_queuestat' = m_queuestat /\ pc' = pc /\ request' = request /\ slips' = slips
      /\ At("take")' = At("take")
  BY DEF append, At
<1>2. CASE Len(m_workqueue) >= m_max_requests
  <2>1. m_workqueue' = m_workqueue /\ posting' = posting /\ accepted' = FALSE
    BY <1>2, ListOps, QueueAssumption DEF append, QueueTypeOK
  <2>. QED  BY <1>1, <2>1 DEF QueueTypeOK, Balanced, Tokens
<1>3. CASE Len(m_workqueue) < m_max_requests
  <2>1. /\ m_workqueue' = Append(m_workqueue, r) /\ accepted' = TRUE
        /\ posting = FALSE /\ posting' = TRUE
    BY <1>3, ListOps, QueueAssumption DEF append, QueueTypeOK
  <2>2. m_workqueue' \in Seq(Request) /\ Len(m_workqueue') = Len(m_workqueue) + 1
    BY <2>1, ListOps DEF QueueTypeOK
  <2>3. QueueTypeOK'
    BY <1>1, <1>3, <2>1, <2>2, ListOps, QueueAssumption DEF QueueTypeOK
  <2>. QED
    BY <1>1, <2>1, <2>2, <2>3, Numbers DEF Balanced, Tokens
<1>. QED  BY <1>2, <1>3, ListOps, QueueAssumption DEF QueueTypeOK

\* post, and both ends of the wait, move one token, or make one more.
LEMMA TokenQueue ==
  ASSUME QueueInv, Post \/ \E w \in Worker : Wait(w) \/ WaitInterrupted(w)
  PROVE  QueueInv'
<1>. USE DEF QueueInv
<1>1. m_workqueue' = m_workqueue /\ accepted' = accepted /\ request' = request
  BY DEF Post, Wait, WaitInterrupted
<1>2. CASE Post
  <2>1. At("take")' = At("take")  BY <1>2 DEF Post, At
  <2>2. QueueTypeOK'
    <3>1. m_queuestat' = m_queuestat + 1 /\ posting' \in BOOLEAN  BY <1>2 DEF Post
    <3>2. m_queuestat' \in Nat  BY <3>1 DEF QueueTypeOK
    <3>3. pc' = pc /\ slips' = slips  BY <1>2 DEF Post
    <3>. QED  BY <1>1, <3>1, <3>2, <3>3 DEF QueueTypeOK
  <2>. QED  BY <1>1, <1>2, <2>1, <2>2, Numbers DEF Post, Balanced, Tokens
<1>3. ASSUME NEW w \in Worker, Wait(w) PROVE QueueInv'
  <2>1. Cardinality(At("take"))' = Cardinality(At("take")) + 1
    BY <1>3, Leaves DEF Wait
  <2>2. QueueTypeOK'  BY <1>1, <1>3 DEF Wait, QueueTypeOK, Goto
  <2>. QED  BY <1>1, <1>3, <2>1, <2>2, Numbers DEF Wait, Balanced, Tokens
<1>4. ASSUME NEW w \in Worker, WaitInterrupted(w) PROVE QueueInv'
  <2>1. Cardinality(At("take"))' = Cardinality(At("take")) + 1
    BY <1>4, Leaves DEF WaitInterrupted
  <2>2. QueueTypeOK'  BY <1>1, <1>4 DEF WaitInterrupted, QueueTypeOK, Goto
  <2>. QED  BY <1>1, <1>4, <2>1, <2>2, Numbers DEF WaitInterrupted, Balanced, Tokens
<1>. QED  BY <1>2, <1>3, <1>4

\* A worker at the list gives up its token, for a request if there is one.
LEMMA TakeQueue ==
  ASSUME QueueInv, NEW w \in Worker, TakeNone(w) \/ Take(w)
  PROVE  QueueInv'
<1>. USE DEF QueueInv
<1>1. /\ m_queuestat' = m_queuestat /\ posting' = posting /\ slips' = slips
      /\ accepted' = accepted /\ pc[w] = "take"
      /\ Goto(w, "wait") \/ Goto(w, "work")
  BY DEF TakeNone, Take
<1>2. Cardinality(At("take"))' = Cardinality(At("take")) - 1
  BY <1>1, Arrives
<1>3. Cardinality(At("take"))' \in Nat
  <2>1. At("take")' \subseteq Worker  BY DEF At
  <2>. QED  BY <2>1, FS_Subset, FS_CardinalityType, WorkersAssumption
<1>4. CASE TakeNone(w)
  <2>1. QueueTypeOK'  BY <1>4 DEF TakeNone, QueueTypeOK, Goto
  <2>2. m_workqueue' = <<>> /\ Len(m_workqueue) = 0 /\ Len(m_workqueue') = 0
    BY <1>4 DEF TakeNone
  <2>. QED  BY <1>1, <1>2, <1>3, <2>1, <2>2, Numbers DEF Balanced, Tokens
<1>5. CASE Take(w)
  <2>1. /\ m_workqueue' \in Seq(Request) /\ Len(m_workqueue') = Len(m_workqueue) - 1
        /\ Head(m_workqueue) \in Request
    BY <1>5, ListOps DEF Take, QueueTypeOK
  <2>2. QueueTypeOK'
    BY <1>1, <1>5, <2>1, ListOps, QueueAssumption DEF Take, QueueTypeOK, Goto
  <2>. QED  BY <1>1, <1>2, <2>1, <2>2, Numbers DEF Balanced, Tokens
<1>. QED  BY <1>4, <1>5

\* A worker that is done, and a restart.
LEMMA DoneQueue ==
  ASSUME QueueInv, QueueRestart \/ \E w \in Worker : Done(w)
  PROVE  QueueInv'
<1>. USE DEF QueueInv
<1>1. ASSUME NEW w \in Worker, Done(w) PROVE QueueInv'
  <2>1. Cardinality(At("take"))' = Cardinality(At("take"))
    BY <1>1, Stays DEF Done
  <2>2. QueueTypeOK'  BY <1>1 DEF Done, QueueTypeOK, Goto
  <2>. QED  BY <1>1, <2>1, <2>2 DEF Done, Balanced, Tokens
<1>2. CASE QueueRestart
  <2>1. QueueTypeOK'
    <3>1. /\ m_workqueue' \in Seq(Request) /\ Len(m_workqueue') = 0
          /\ 0 <= m_max_requests
      BY <1>2, QueueAssumption, ListOps DEF QueueRestart
    <3>2. pc' \in [Worker -> {"wait", "take", "work"}] /\ posting' \in BOOLEAN
      BY <1>2 DEF QueueRestart
    <3>3. m_queuestat' = 0 /\ slips' = slips /\ accepted' = accepted /\ request' = request
      BY <1>2 DEF QueueRestart
    <3>. QED  BY <3>1, <3>2, <3>3 DEF QueueTypeOK
  <2>2. At("take")' = {}  BY <1>2 DEF QueueRestart, At
  <2>3. Cardinality(At("take"))' = 0  BY <2>2, FS_EmptySet
  <2>4. Len(m_workqueue') = 0 /\ slips' = slips /\ m_queuestat' = 0 /\ posting' = FALSE
    BY <1>2 DEF QueueRestart
  <2>. QED  BY <2>1, <2>3, <2>4, Numbers DEF Balanced, Tokens
<1>. QED  BY <1>1, <1>2

\* Every step keeps the invariant.
LEMMA StepQueue == QueueInv /\ [QueueNext]_queueVars => QueueInv'
<1>. SUFFICES ASSUME QueueInv, [QueueNext]_queueVars PROVE QueueInv'
  OBVIOUS
<1>1. CASE UNCHANGED queueVars
  BY <1>1 DEF queueVars, QueueInv, QueueTypeOK, Balanced, Tokens, At
<1>2. CASE QueueNext
  BY <1>2, AppendQueue, TokenQueue, TakeQueue, DoneQueue DEF QueueNext
<1>. QED  BY <1>1, <1>2

-----------------------------------------------------------------------------
\* The queue starts as Fifo does.
LEMMA InitMaps == QueueInit => F!Init
BY QueueAssumption DEF QueueInit, F!Init

\* Each step is a push, a pop, a clear or nothing for Fifo.
LEMMA StepMaps == QueueInv /\ [QueueNext]_queueVars => [F!Next]_(F!vars)
<1>. SUFFICES ASSUME QueueInv, [QueueNext]_queueVars PROVE [F!Next]_(F!vars)
  OBVIOUS
<1>1. CASE m_workqueue' = m_workqueue /\ accepted' = accepted /\ request' = request
  BY <1>1 DEF F!vars
<1>2. ASSUME NEW r \in Request, append(r) PROVE F!Next
  <2>1. F!push(Main, r)
    BY <1>2, QueueAssumption, ListOps DEF append, F!push, F!Returns, QueueInv, QueueTypeOK
  <2>. QED  BY <2>1 DEF F!Next
<1>3. ASSUME NEW w \in Worker, Take(w) PROVE F!Next
  <2>1. F!pop(w)
    BY <1>3, QueueAssumption DEF Take, F!pop, F!Returns, QueueInv, QueueTypeOK
  <2>. QED  BY <2>1 DEF F!Next
<1>4. CASE QueueRestart
  <2>1. F!clear  BY <1>4 DEF QueueRestart, F!clear
  <2>. QED  BY <2>1 DEF F!Next
<1>. QED
  BY <1>1, <1>2, <1>3, <1>4
     DEF QueueNext, queueVars, Post, Wait, WaitInterrupted, TakeNone, Done

\* The invariant always holds.
THEOREM QueueInvAlways == QueueSpec => []QueueInv
BY InitQueue, StepQueue, PTL DEF QueueSpec

\* QueueTypeOK: at most m_max_requests wait (threadpool.h:68, 83).
THEOREM QueueTypeAlways == QueueSpec => []QueueTypeOK
BY QueueInvAlways, PTL DEF QueueInv

\* Balanced: whatever waits are interrupted, every accepted request is covered by
\* a token, a worker on its way to it or a post that follows, and the tokens in
\* excess are at most the interrupted waits (threadpool.h:76-90, 107-118).
THEOREM AlwaysBalanced == QueueSpec => []Balanced
BY QueueInvAlways, PTL DEF QueueInv

\* FifoSpec: requests are taken once each, in the order they were accepted, for
\* any number of workers (threadpool.h:65-92, 105-118).
THEOREM QueueImplementsFifo == QueueSpec => FifoSpec
BY InitMaps, StepMaps, QueueInvAlways, PTL DEF QueueSpec, FifoSpec, F!Spec

-----------------------------------------------------------------------------
(* The table of users                                                      *)

Entitled(w) == at[w] \in {"query", "insert"}

\* A name that did not race has one worker between its lookup and its insertion.
Sole == \A v, w \in Worker : Entitled(v) /\ Entitled(w) /\ name(v) = name(w)
                             /\ name(w) \notin raced => v = w

\* What the lookup said is still true when the lock is taken ...
Fresh == \A w \in Worker : at[w] = "query" /\ name(w) \notin raced =>
           users[name(w)] = NoPassword /\ rows[name(w)] = <<>> /\ name(w) \notin unsaved

\* ... and when the row was written.
Entering == \A w \in Worker : at[w] = "insert" =>
  /\ ~res[w] => \E i \in DOMAIN rows[name(w)] : rows[name(w)][i] = password(w)
  /\ name(w) \notin raced =>
       /\ users[name(w)] = NoPassword
       /\ name(w) \in unsaved <=> res[w]
       /\ rows[name(w)] = IF res[w] THEN <<>> ELSE <<password(w)>>

\* A name whose INSERT failed is in the map, and not in the database.
NotSaved == \A n \in unsaved \ raced :
  (\A w \in Inserters : name(w) # n) => users[n] # NoPassword /\ rows[n] = <<>>

Kept(n, p) == /\ \E i \in DOMAIN rows[n] : rows[n][i] = p
              /\ n \notin raced => users[n] = p

\* A client that is about to be told.
Registered == \A w \in Worker : at[w] = "registered" => Kept(name(w), password(w))

TableInv == TableTypeOK /\ Sole /\ Fresh /\ Entering /\ NotSaved /\ MapMatchesRows
            /\ Registered /\ ConfirmedKept

\* Append on the rows of a name.
LEMMA Rows ==
  ASSUME NEW s \in Seq(Password), NEW p \in Password
  PROVE  /\ Append(s, p) \in Seq(Password)
         /\ \A i \in DOMAIN s : i \in DOMAIN Append(s, p) /\ Append(s, p)[i] = s[i]
         /\ \E i \in DOMAIN Append(s, p) : Append(s, p)[i] = p
         /\ s = <<>> => Append(s, p) = <<p>>
<1>. DEFINE a == Append(s, p)
<1>1. /\ a \in Seq(Password) /\ Len(a) = Len(s) + 1 /\ a[Len(s) + 1] = p
      /\ \A i \in 1..Len(s) : a[i] = s[i]
  BY AppendProperties
<1>2. DOMAIN s = 1..Len(s) /\ DOMAIN a = 1..(Len(s) + 1) /\ Len(s) \in Nat
  BY <1>1, LenProperties
<1>3. s = <<>> => a = <<p>>
  OBVIOUS
<1>. HIDE DEF a
<1>4. Len(s) + 1 \in DOMAIN a  BY <1>2
<1>5. \A i \in DOMAIN s : i \in DOMAIN a /\ a[i] = s[i]  BY <1>1, <1>2
<1>6. \E i \in DOMAIN a : a[i] = p  BY <1>1, <1>4
<1>. QED  BY <1>1, <1>3, <1>5, <1>6 DEF a

\* A form's name and password are among those of the constants.
LEMMA FormTypes ==
  TableTypeOK => \A w \in Worker : form[w] \in Forms /\ name(w) \in Name /\ password(w) \in Password
BY TableAssumption DEF TableTypeOK, Form, name, password

\* The filler of an unused local is a form.
LEMMA NoFormType == NoForm \in Forms
BY TableAssumption DEF NoForm

\* A name that did not race has at most one row.
LEMMA OneRow ==
  ASSUME TableInv, NEW n \in Name \ raced
  PROVE  rows[n] = <<>> \/ \E p \in Password : rows[n] = <<p>>
<1>. USE DEF TableInv
<1>1. CASE \E w \in Inserters : name(w) = n
  BY <1>1, FormTypes DEF Entering, Inserters
<1>2. CASE \A w \in Inserters : name(w) # n
  <2>1. CASE n \in unsaved  BY <1>2, <2>1 DEF NotSaved
  <2>2. CASE n \notin unsaved
    BY <1>2, <2>2 DEF MapMatchesRows, TableTypeOK
  <2>. QED  BY <2>1, <2>2
<1>. QED  BY <1>1, <1>2

\* The start: nobody works, map and database are empty.
LEMMA InitTable == TableInit => TableInv
<1>. SUFFICES ASSUME TableInit PROVE TableInv
  OBVIOUS
<1>. USE TableAssumption, NoFormType DEF TableInit
<1>1. TableTypeOK
  <2>1. /\ users \in [Name -> Password \cup {NoPassword}] /\ rows \in [Name -> Seq(Password)]
        /\ form \in [Worker -> Forms] /\ res \in [Worker -> BOOLEAN]
    OBVIOUS
  <2>2. at \in [Worker -> {"idle", "find", "query", "insert", "login", "compare",
                           "refused", "registered", "welcome"}]
    OBVIOUS
  <2>. QED  BY <2>1, <2>2 DEF TableTypeOK
<1>2. \A w \in Worker : at[w] = "idle"
  OBVIOUS
<1>3. Sole /\ Fresh /\ Entering /\ Registered  BY <1>2 DEF Sole, Entitled, Fresh, Entering, Registered
<1>4. NotSaved /\ MapMatchesRows /\ ConfirmedKept  BY DEF NotSaved, MapMatchesRows, ConfirmedKept
<1>. QED  BY <1>1, <1>3, <1>4 DEF TableInv

\* A move that touches neither the map, the database nor the lock, and brings no
\* worker to its lock: entering do_request, both lookups of a login, the reply.
LEMMA QuietTable ==
  ASSUME TableInv, NEW w \in Worker, NEW l, Moves(w, l),
         l \in {"find", "login", "compare", "refused", "welcome", "idle"},
         at[w] \notin {"query", "insert"},
         UNCHANGED <<users, rows, m_lock, res, unsaved>>,
         NEW f \in Forms, form' = [form EXCEPT ![w] = f],
         raced \subseteq raced', raced' \subseteq Name,
         confirmed' \subseteq Name \X Password,
         \A c \in confirmed' : c \in confirmed \/ Kept(c[1], c[2])
  PROVE  TableInv'
<1>. USE DEF TableInv
<1>1. TableTypeOK'
  <2>1. at' \in [Worker -> {"idle", "find", "query", "insert", "login", "compare",
                            "refused", "registered", "welcome"}]
    BY DEF TableTypeOK, Moves
  <2>2. \A v \in Worker : at'[v] = "insert" <=> m_lock' = v
    BY DEF TableTypeOK, Moves
  <2>3. form' \in [Worker -> Forms]  BY DEF TableTypeOK
  <2>. QED  BY <2>1, <2>2, <2>3 DEF TableTypeOK
<1>2. \A v \in Worker : v # w => at'[v] = at[v] /\ form'[v] = form[v]
  BY DEF TableTypeOK, Moves
<1>3. at'[w] = l  BY DEF TableTypeOK, Moves
<1>4. Inserters' = Inserters /\ w \notin Inserters /\ Inserters \subseteq Worker
  BY <1>2, <1>3 DEF Inserters
<1>5. Sole'  BY <1>2, <1>3 DEF Sole, Entitled, name
<1>6. Fresh'  BY <1>2, <1>3 DEF Fresh, name
<1>7. Entering'  BY <1>2, <1>3 DEF Entering, name, password
<1>8. NotSaved' /\ MapMatchesRows'
  <2>1. \A v \in Inserters : name(v)' = name(v)  BY <1>2, <1>4 DEF name
  <2>. QED  BY <1>4, <2>1 DEF NotSaved, MapMatchesRows
<1>9. \A n, p : Kept(n, p) => Kept(n, p)'  BY DEF Kept
<1>10. Registered'
  BY <1>2, <1>3, <1>9 DEF Registered, Kept, name, password
<1>11. ConfirmedKept'  BY <1>9 DEF ConfirmedKept, Kept
<1>. QED  BY <1>1, <1>5, <1>6, <1>7, <1>8, <1>10, <1>11

\* The lookup of a registration.
LEMMA FindTable == ASSUME TableInv, NEW w \in Worker, RegisterFind(w) PROVE TableInv'
<1>. USE DEF TableInv
<1>. DEFINE n == name(w)
<1>1. /\ UNCHANGED <<users, rows, m_lock, form, res, confirmed, unsaved>> /\ at[w] = "find"
      /\ raced' = IF Racing(w) THEN raced \cup {n} ELSE raced
  BY DEF RegisterFind
<1>2. n \in Name /\ form[w] \in Forms  BY FormTypes
<1>3. raced \subseteq raced' /\ raced' \subseteq Name  BY <1>1, <1>2 DEF TableTypeOK
<1>4. CASE Moves(w, "refused")
  <2>1. form' = [form EXCEPT ![w] = form[w]]  BY <1>1 DEF TableTypeOK
  <2>2. confirmed' \subseteq Name \X Password  BY <1>1 DEF TableTypeOK
  <2>. QED  BY <1>1, <1>2, <1>3, <1>4, <2>1, <2>2, QuietTable
<1>5. ASSUME Moves(w, "query"), FALSE \in Found(w) PROVE TableInv'
  <2>1. /\ \A v \in Worker : at'[v] = IF v = w THEN "query" ELSE at[v]
        /\ \A v \in Worker : name(v)' = name(v) /\ password(v)' = password(v)
        /\ \A v \in Worker : Entitled(v)' <=> v = w \/ Entitled(v)
    BY <1>1, <1>5 DEF TableTypeOK, Moves, name, password, Entitled
  <2>2. TableTypeOK'
    <3>1. at' \in [Worker -> {"idle", "find", "query", "insert", "login", "compare",
                              "refused", "registered", "welcome"}]
      BY <1>5 DEF TableTypeOK, Moves
    <3>2. \A v \in Worker : at'[v] = "insert" <=> m_lock' = v
      BY <1>1, <2>1 DEF TableTypeOK
    <3>. QED  BY <1>1, <1>3, <3>1, <3>2 DEF TableTypeOK
  <2>3. Inserters' = Inserters /\ w \notin Inserters  BY <1>1, <2>1 DEF Inserters
  <2>4. n \notin raced' => /\ \A v \in Worker \ {w} : ~(Entitled(v) /\ name(v) = n)
                           /\ Inserters = {}
    BY <1>1, <2>3 DEF Racing, Entitled, Inserters
  <2>5. Sole'
    BY <1>3, <2>1, <2>4 DEF Sole
  <2>6. Fresh'
    <3>1. n \notin raced' => users[n] = NoPassword
      BY <1>5, <2>4 DEF Found
    <3>2. n \notin raced' => n \notin unsaved /\ rows[n] = <<>>
      BY <1>2, <1>3, <2>4, <3>1 DEF NotSaved, MapMatchesRows
    <3>. QED  BY <1>1, <1>3, <2>1, <3>1, <3>2 DEF Fresh
  <2>7. Entering' /\ Registered'
    BY <1>1, <1>3, <2>1 DEF Entering, Registered, Kept
  <2>8. NotSaved' /\ MapMatchesRows' /\ ConfirmedKept'
    BY <1>1, <1>3, <2>1, <2>3 DEF NotSaved, MapMatchesRows, ConfirmedKept, Inserters
  <2>. QED  BY <2>2, <2>5, <2>6, <2>7, <2>8
<1>6. PICK found \in Found(w) : Moves(w, IF found THEN "refused" ELSE "query")
  BY DEF RegisterFind
<1>7. found \in BOOLEAN  BY DEF Found
<1>8. CASE found = TRUE   BY <1>4, <1>6, <1>8
<1>9. CASE found = FALSE  BY <1>5, <1>6, <1>9
<1>. QED  BY <1>7, <1>8, <1>9

\* The INSERT, whether it succeeds or fails.
LEMMA QueryTable == ASSUME TableInv, NEW w \in Worker, Query(w) PROVE TableInv'
<1>. USE DEF TableInv
<1>. DEFINE n == name(w)
            p == password(w)
<1>1. /\ UNCHANGED <<users, form, confirmed, raced>> /\ at[w] = "query" /\ Moves(w, "insert")
      /\ m_lock = NoWorker /\ m_lock' = w
  BY DEF Query
<1>2. n \in Name /\ p \in Password /\ rows[n] \in Seq(Password)
  BY FormTypes DEF TableTypeOK
<1>3. \/ /\ res' = [res EXCEPT ![w] = FALSE] /\ unsaved' = unsaved
         /\ rows' = [rows EXCEPT ![n] = Append(rows[n], p)]
      \/ res' = [res EXCEPT ![w] = TRUE] /\ unsaved' = unsaved \cup {n} /\ rows' = rows
  BY DEF Query
<1>4. /\ \A v \in Worker : at'[v] = IF v = w THEN "insert" ELSE at[v]
      /\ \A v \in Worker : name(v)' = name(v) /\ password(v)' = password(v)
      /\ \A v \in Worker : Entitled(v)' <=> Entitled(v)
  BY <1>1 DEF TableTypeOK, Moves, name, password, Entitled
<1>5. /\ rows' \in [Name -> Seq(Password)] /\ res' \in [Worker -> BOOLEAN]
      /\ unsaved' \subseteq Name
  <2>1. Append(rows[n], p) \in Seq(Password)  BY <1>2, Rows
  <2>2. rows' \in [Name -> Seq(Password)]  BY <1>3, <2>1 DEF TableTypeOK
  <2>3. res' \in [Worker -> BOOLEAN]  BY <1>3 DEF TableTypeOK
  <2>4. unsaved' \subseteq Name  BY <1>2, <1>3 DEF TableTypeOK
  <2>. QED  BY <2>2, <2>3, <2>4
<1>6. TableTypeOK'
  <2>1. at' \in [Worker -> {"idle", "find", "query", "insert", "login", "compare",
                            "refused", "registered", "welcome"}]
    BY <1>1 DEF TableTypeOK, Moves
  <2>2. \A v \in Worker : at'[v] = "insert" <=> m_lock' = v
    BY <1>1, <1>4, TableAssumption DEF TableTypeOK
  <2>. QED  BY <1>1, <1>5, <2>1, <2>2 DEF TableTypeOK
<1>7. Inserters = {} /\ Inserters' = {w}
  <2>1. \A v \in Worker : at[v] # "insert"  BY <1>1, TableAssumption DEF TableTypeOK
  <2>. QED  BY <1>4, <2>1 DEF Inserters
<1>8. Sole'  BY <1>1, <1>4 DEF Sole
<1>9. \A m \in Name \ {n} : rows'[m] = rows[m] /\ (m \in unsaved' <=> m \in unsaved)
  BY <1>3 DEF TableTypeOK
<1>10. \A m \in Name : \A i \in DOMAIN rows[m] : i \in DOMAIN rows'[m] /\ rows'[m][i] = rows[m][i]
  <2>1. CASE rows' = rows  BY <2>1
  <2>2. CASE rows' = [rows EXCEPT ![n] = Append(rows[n], p)]
    <3>1. rows'[n] = Append(rows[n], p)  BY <1>2, <2>2 DEF TableTypeOK
    <3>. QED  BY <1>2, <1>9, <3>1, Rows
  <2>. QED  BY <1>3, <2>1, <2>2
<1>11. Fresh'
  <2>1. ASSUME NEW v \in Worker, at'[v] = "query", name(v)' \notin raced' PROVE name(v) # n
    BY <1>1, <1>4, <2>1 DEF Sole, Entitled
  <2>2. \A v \in Worker : name(v) \in Name  BY FormTypes
  <2>. QED  BY <1>1, <1>4, <1>9, <2>1, <2>2 DEF Fresh
<1>12. Entering'
  <2>1. n \notin raced => users[n] = NoPassword /\ rows[n] = <<>> /\ n \notin unsaved
    BY <1>1 DEF Fresh
  <2>2. CASE res' = [res EXCEPT ![w] = FALSE] /\ unsaved' = unsaved
             /\ rows' = [rows EXCEPT ![n] = Append(rows[n], p)]
    <3>1. ~res'[w] /\ rows'[n] = Append(rows[n], p)  BY <1>2, <2>2 DEF TableTypeOK
    <3>2. \E i \in DOMAIN rows'[n] : rows'[n][i] = p  BY <1>2, <3>1, Rows
    <3>3. n \notin raced => rows'[n] = <<p>>  BY <1>2, <2>1, <3>1, Rows
    <3>4. \A v \in Worker : at'[v] = "insert" => v = w  BY <1>7 DEF Inserters
    <3>. QED  BY <1>1, <1>4, <2>1, <2>2, <3>1, <3>2, <3>3, <3>4 DEF Entering
  <2>3. CASE res' = [res EXCEPT ![w] = TRUE] /\ unsaved' = unsaved \cup {n} /\ rows' = rows
    <3>1. res'[w]  BY <2>3 DEF TableTypeOK
    <3>2. \A v \in Worker : at'[v] = "insert" => v = w  BY <1>7 DEF Inserters
    <3>. QED  BY <1>1, <1>4, <2>1, <2>3, <3>1, <3>2 DEF Entering
  <2>. QED  BY <1>3, <2>2, <2>3
<1>13. NotSaved' /\ MapMatchesRows'
  <2>1. n = name(w)' /\ w \in Inserters'  BY <1>4, <1>7
  <2>. QED  BY <1>1, <1>5, <1>7, <1>9, <2>1 DEF NotSaved, MapMatchesRows, TableTypeOK
<1>14. \A m \in Name : \A q : Kept(m, q) => Kept(m, q)'  BY <1>1, <1>10 DEF Kept
<1>15. Registered'
  BY <1>4, <1>14, FormTypes DEF Registered, Kept
<1>16. ConfirmedKept'
  <2>1. \A c \in confirmed : c[1] \in Name /\ Kept(c[1], c[2])
    BY DEF ConfirmedKept, Kept, TableTypeOK
  <2>. QED  BY <1>1, <1>14, <2>1 DEF ConfirmedKept, Kept
<1>. QED  BY <1>6, <1>8, <1>11, <1>12, <1>13, <1>15, <1>16

\* The end of the registration: the name enters the map.
LEMMA InsertTable == ASSUME TableInv, NEW w \in Worker, Insert(w) PROVE TableInv'
<1>. USE DEF TableInv
<1>. DEFINE n == name(w)
            p == password(w)
<1>1. /\ UNCHANGED <<rows, form, confirmed, raced, unsaved>> /\ at[w] = "insert"
      /\ m_lock' = NoWorker /\ res' = [res EXCEPT ![w] = FALSE]
      /\ users' = IF users[n] = NoPassword THEN [users EXCEPT ![n] = p] ELSE users
      /\ Moves(w, IF res[w] THEN "refused" ELSE "registered")
  BY DEF Insert, history
<1>2. n \in Name /\ p \in Password /\ p # NoPassword
  BY FormTypes, TableAssumption
<1>3. /\ \A v \in Worker : v # w => at'[v] = at[v] /\ res'[v] = res[v]
      /\ at'[w] = IF res[w] THEN "refused" ELSE "registered"
      /\ \A v \in Worker : name(v)' = name(v) /\ password(v)' = password(v)
      /\ ~Entitled(w)' /\ \A v \in Worker : Entitled(v)' => Entitled(v)
  BY <1>1 DEF TableTypeOK, Moves, name, password, Entitled
<1>4. \A v \in Worker : at[v] = "insert" => v = w
  BY <1>1 DEF TableTypeOK
<1>5. TableTypeOK'
  <2>1. at' \in [Worker -> {"idle", "find", "query", "insert", "login", "compare",
                            "refused", "registered", "welcome"}]
    BY <1>1 DEF TableTypeOK, Moves
  <2>2. \A v \in Worker : at'[v] # "insert"  BY <1>3, <1>4
  <2>3. users' \in [Name -> Password \cup {NoPassword}]  BY <1>1, <1>2 DEF TableTypeOK
  <2>4. res' \in [Worker -> BOOLEAN]  BY <1>1 DEF TableTypeOK
  <2>. QED  BY <1>1, <2>1, <2>2, <2>3, <2>4, TableAssumption DEF TableTypeOK
<1>6. Inserters' = {} /\ Inserters = {w}
  BY <1>1, <1>3, <1>4 DEF Inserters
<1>7. \A m \in Name : m # n \/ users[m] # NoPassword => users'[m] = users[m]
  BY <1>1, <1>2 DEF TableTypeOK
<1>8. users[n] = NoPassword => users'[n] = p
  BY <1>1, <1>2 DEF TableTypeOK
<1>9. Sole'  BY <1>1, <1>3 DEF Sole
<1>10. Fresh'
  <2>1. ASSUME NEW v \in Worker, at'[v] = "query", name(v) \notin raced
        PROVE  at[v] = "query" /\ name(v) # n /\ name(v) \in Name
    <3>1. at[v] = "query" /\ v # w  BY <1>1, <1>3, <2>1
    <3>. QED  BY <1>1, <2>1, <3>1, FormTypes DEF Sole, Entitled
  <2>. QED  BY <1>1, <1>3, <1>7, <2>1 DEF Fresh
<1>11. Entering'  BY <1>6 DEF Entering, Inserters
<1>12. NotSaved' /\ MapMatchesRows'
  <2>1. n \notin raced => /\ users[n] = NoPassword /\ users'[n] = p
                          /\ n \in unsaved <=> res[w]
                          /\ rows[n] = IF res[w] THEN <<>> ELSE <<p>>
    BY <1>1, <1>8 DEF Entering
  <2>2. NotSaved'
    <3>1. ASSUME NEW m \in unsaved \ raced PROVE users'[m] # NoPassword /\ rows[m] = <<>>
      <4>1. m \in Name  BY DEF TableTypeOK
      <4>2. CASE m = n  BY <1>2, <2>1, <3>1, <4>2
      <4>3. CASE m # n
        <5>1. \A v \in Inserters : name(v) # m  BY <1>6, <4>3
        <5>. QED  BY <1>7, <3>1, <4>1, <4>3, <5>1 DEF NotSaved
      <4>. QED  BY <4>2, <4>3
    <3>. QED  BY <1>1, <3>1 DEF NotSaved
  <2>3. MapMatchesRows'
    <3>1. ASSUME NEW m \in Name \ (raced \cup unsaved)
          PROVE  rows[m] = IF users'[m] = NoPassword THEN <<>> ELSE <<users'[m]>>
      <4>1. CASE m = n  BY <1>2, <2>1, <3>1, <4>1
      <4>2. CASE m # n
        <5>1. \A v \in Inserters : name(v) # m  BY <1>6, <4>2
        <5>. QED  BY <1>7, <3>1, <4>2, <5>1 DEF MapMatchesRows
      <4>. QED  BY <4>1, <4>2
    <3>. QED  BY <1>1, <3>1 DEF MapMatchesRows
  <2>. QED  BY <2>2, <2>3
<1>13. \A m \in Name, q \in Password : Kept(m, q) => Kept(m, q)'
  BY <1>1, <1>7, TableAssumption DEF Kept
<1>14. Registered'
  <2>1. ASSUME NEW v \in Worker, at'[v] = "registered", v # w PROVE Kept(name(v), password(v))'
    BY <1>3, <1>13, <2>1, FormTypes DEF Registered
  <2>2. ASSUME at'[w] = "registered" PROVE Kept(n, p)'
    <3>1. ~res[w]  BY <1>3, <2>2
    <3>2. \E i \in DOMAIN rows[n] : rows[n][i] = p  BY <1>1, <3>1 DEF Entering
    <3>3. n \notin raced => users'[n] = p  BY <1>1, <1>8 DEF Entering
    <3>. QED  BY <1>1, <1>3, <3>2, <3>3 DEF Kept
  <2>. QED  BY <1>3, <2>1, <2>2 DEF Registered, Kept
<1>15. ConfirmedKept'
  <2>1. \A c \in confirmed : c[1] \in Name /\ c[2] \in Password /\ Kept(c[1], c[2])
    BY DEF ConfirmedKept, Kept, TableTypeOK
  <2>. QED  BY <1>1, <1>13, <2>1 DEF ConfirmedKept, Kept
<1>. QED  BY <1>5, <1>9, <1>10, <1>11, <1>12, <1>14, <1>15

\* The process is started again and reads the database.
LEMMA RestartTable == ASSUME TableInv, TableRestart PROVE TableInv'
<1>. USE DEF TableInv
<1>1. /\ UNCHANGED <<rows, confirmed, raced>> /\ m_lock' = NoWorker /\ unsaved' = {}
      /\ at' = [w \in Worker |-> "idle"] /\ form' = [w \in Worker |-> NoForm]
      /\ res' = [w \in Worker |-> FALSE]
      /\ users' \in [Name -> Password \cup {NoPassword}] /\ initmysql_result(users')
  BY DEF TableRestart
<1>2. \A w \in Worker : at'[w] = "idle"  BY <1>1
<1>3. TableTypeOK'
  <2>1. at' \in [Worker -> {"idle", "find", "query", "insert", "login", "compare",
                            "refused", "registered", "welcome"}]
    BY <1>1
  <2>2. form' \in [Worker -> Forms] /\ res' \in [Worker -> BOOLEAN]
    BY <1>1, NoFormType
  <2>3. unsaved' \subseteq Name  BY <1>1
  <2>. QED  BY <1>1, <1>2, <2>1, <2>2, <2>3, TableAssumption DEF TableTypeOK
<1>4. Sole' /\ Fresh' /\ Entering' /\ Registered'
  BY <1>2 DEF Sole, Fresh, Entering, Registered, Entitled
<1>5. NotSaved'  BY <1>1 DEF NotSaved
<1>6. \A n \in Name \ raced : rows[n] = <<>> \/ \E p \in Password : rows[n] = <<p>>
  BY OneRow
<1>7. \A n \in Name \ raced :
        rows[n] = IF users'[n] = NoPassword THEN <<>> ELSE <<users'[n]>>
  <2>. SUFFICES ASSUME NEW n \in Name \ raced
                PROVE  rows[n] = IF users'[n] = NoPassword THEN <<>> ELSE <<users'[n]>>
    OBVIOUS
  <2>1. CASE rows[n] = <<>>  BY <1>1, <2>1 DEF initmysql_result
  <2>2. ASSUME NEW p \in Password, rows[n] = <<p>> PROVE users'[n] = p
    <3>1. DOMAIN rows[n] = {1} /\ rows[n][1] = p /\ rows[n] # <<>>  BY <2>2
    <3>. QED  BY <1>1, <3>1 DEF initmysql_result
  <2>. QED  BY <1>6, <2>1, <2>2, TableAssumption
<1>8. MapMatchesRows'  BY <1>1, <1>7 DEF MapMatchesRows
<1>9. ConfirmedKept'
  <2>. SUFFICES ASSUME NEW c \in confirmed PROVE Kept(c[1], c[2])'
    BY <1>1 DEF ConfirmedKept, Kept
  <2>1. c[1] \in Name /\ c[2] \in Password /\ Kept(c[1], c[2])
    BY DEF ConfirmedKept, Kept, TableTypeOK
  <2>2. ASSUME c[1] \notin raced PROVE users'[c[1]] = c[2]
    <3>1. PICK i \in DOMAIN rows[c[1]] : rows[c[1]][i] = c[2]  BY <2>1 DEF Kept
    <3>2. rows[c[1]] # <<>>  BY <3>1
    <3>3. rows[c[1]] = <<users'[c[1]]>>  BY <1>7, <2>1, <2>2, <3>2
    <3>. QED  BY <3>1, <3>3
  <2>. QED  BY <1>1, <2>1, <2>2 DEF Kept
<1>. QED  BY <1>3, <1>4, <1>5, <1>8, <1>9

\* Every step keeps the invariant.
LEMMA StepTable == TableInv /\ [TableNext]_tableVars => TableInv'
<1>. SUFFICES ASSUME TableInv, [TableNext]_tableVars PROVE TableInv'
  OBVIOUS
<1>0. CASE UNCHANGED tableVars
  BY <1>0 DEF tableVars, TableInv, TableTypeOK, Sole, Fresh, Entering, NotSaved, MapMatchesRows,
              Registered, ConfirmedKept, Kept, Entitled, Inserters, name, password
<1>. USE DEF history
<1>1. ASSUME NEW w \in Worker, NEW f \in Forms, Begin(w, f) PROVE TableInv'
  <2>1. \E l \in {"find", "login"} : Moves(w, l)  BY <1>1 DEF Begin
  <2>. QED
    BY <1>1, <2>1, QuietTable DEF Begin, TableInv, TableTypeOK
<1>2. ASSUME NEW w \in Worker, LoginFind(w) \/ LoginCompare(w) PROVE TableInv'
  <2>1. \E l \in {"compare", "refused", "welcome"} : Moves(w, l)
    BY <1>2 DEF LoginFind, LoginCompare
  <2>2. form' = [form EXCEPT ![w] = form[w]] /\ form[w] \in Forms
    BY <1>2 DEF LoginFind, LoginCompare, TableInv, TableTypeOK
  <2>. QED
    BY <1>2, <2>1, <2>2, QuietTable DEF LoginFind, LoginCompare, TableInv, TableTypeOK
<1>3. ASSUME NEW w \in Worker, Reply(w) PROVE TableInv'
  <2>1. name(w) \in Name /\ password(w) \in Password  BY FormTypes DEF TableInv
  <2>2. confirmed' \subseteq Name \X Password
    BY <1>3, <2>1 DEF Reply, TableInv, TableTypeOK
  <2>3. \A c \in confirmed' : c \in confirmed \/ Kept(c[1], c[2])
    BY <1>3, <2>1 DEF Reply, TableInv, Registered
  <2>. QED
    BY <1>3, <2>2, <2>3, NoFormType, QuietTable DEF Reply, TableInv, TableTypeOK
<1>. QED
  BY <1>0, <1>1, <1>2, <1>3, FindTable, QueryTable, InsertTable, RestartTable
     DEF TableNext, TableStep

\* The invariant always holds.
THEOREM TableInvAlways == TableSpec => []TableInv
BY InitTable, StepTable, PTL DEF TableSpec

\* TableTypeOK: one worker at a time holds m_lock and changes the map
\* (http_conn.cpp:435-438).
THEOREM TableTypeAlways == TableSpec => []TableTypeOK
BY TableInvAlways, PTL DEF TableInv

\* OneRowPerName: a name is twice in the database only if a lookup without the
\* lock ran into another registration (http_conn.cpp:433-438).
THEOREM OneRowAlways == TableSpec => []OneRowPerName
<1>1. TableInv => OneRowPerName
  <2>. SUFFICES ASSUME TableInv, NEW n \in Name, n \notin raced PROVE Len(rows[n]) <= 1
    BY DEF OneRowPerName
  <2>1. rows[n] = <<>> \/ \E p \in Password : rows[n] = <<p>>  BY OneRow
  <2>2. CASE rows[n] = <<>>  BY <2>2
  <2>3. ASSUME NEW p \in Password, rows[n] = <<p>> PROVE Len(rows[n]) <= 1
    <3>1. Len(<<p>>) = 1  OBVIOUS
    <3>. QED  BY <2>3, <3>1
  <2>. QED  BY <2>1, <2>2, <2>3
<1>. QED  BY <1>1, TableInvAlways, PTL

\* MapMatchesRows: the map is what a restart would read, but for names that raced
\* and failed INSERTs (http_conn.cpp:17-48, 436-437).
THEOREM MapAlwaysMatches == TableSpec => []MapMatchesRows
BY TableInvAlways, PTL DEF TableInv

\* ConfirmedKept: a registration the client was told of lasts, through restarts,
\* for any number of workers (http_conn.cpp:433-441).
THEOREM ConfirmedAlwaysKept == TableSpec => []ConfirmedKept
BY TableInvAlways, PTL DEF TableInv

-----------------------------------------------------------------------------
(* The composition                                                         *)

Works(w) == pc[w] = "work"

\* A worker is in do_request exactly when it has a connection.
Busy == \A w \in Worker : Works(w) <=> at[w] # "idle"

\* The form of a connection is there to be read.
Asked == waiting \subseteq Request /\ \A r \in waiting : asked[r] \in Forms

\* A connection is once in the queue, or with one worker, and then it is waited on ...
Once ==
  /\ \A i, j \in DOMAIN m_workqueue : m_workqueue[i] = m_workqueue[j] => i = j
  /\ \A v, w \in Worker : Works(v) /\ Works(w) /\ request[v] = request[w] => v = w
  /\ \A w \in Worker : Works(w) => /\ request[w] \in waiting
                                   /\ \A i \in DOMAIN m_workqueue : m_workqueue[i] # request[w]
  /\ \A i \in DOMAIN m_workqueue : m_workqueue[i] \in waiting

\* ... and nobody waits for an answer that will not come.
Somewhere ==
  \A r \in waiting : \/ \E i \in DOMAIN m_workqueue : m_workqueue[i] = r
                     \/ \E w \in Worker : Works(w) /\ request[w] = r

Link == Busy /\ Asked /\ Once /\ Somewhere

WorkersInv == QueueInv /\ TableInv /\ Link

\* A sequence with an element more at the end, and with the first taken off.
LEMMA Ends ==
  ASSUME NEW s \in Seq(Request)
  PROVE  /\ \A r \in Request :
              /\ \A i \in DOMAIN Append(s, r) :
                   \/ i \in DOMAIN s /\ Append(s, r)[i] = s[i]
                   \/ i = Len(s) + 1 /\ Append(s, r)[i] = r
              /\ \A i \in DOMAIN s : i \in DOMAIN Append(s, r) /\ Append(s, r)[i] = s[i]
              /\ \E i \in DOMAIN Append(s, r) : Append(s, r)[i] = r
         /\ s # <<>> =>
              /\ 1 \in DOMAIN s /\ Head(s) = s[1]
              /\ \A i \in DOMAIN Tail(s) :
                   i \in Nat /\ i # 0 /\ i + 1 \in DOMAIN s /\ Tail(s)[i] = s[i + 1]
              /\ \A i \in DOMAIN s : i = 1 \/ \E j \in DOMAIN Tail(s) : s[i] = Tail(s)[j]
<1>1. DOMAIN s = 1..Len(s) /\ Len(s) \in Nat  BY LenProperties
<1>2. ASSUME NEW r \in Request
      PROVE  /\ \A i \in DOMAIN Append(s, r) :
                   \/ i \in DOMAIN s /\ Append(s, r)[i] = s[i]
                   \/ i = Len(s) + 1 /\ Append(s, r)[i] = r
             /\ \A i \in DOMAIN s : i \in DOMAIN Append(s, r) /\ Append(s, r)[i] = s[i]
             /\ \E i \in DOMAIN Append(s, r) : Append(s, r)[i] = r
  <2>. DEFINE a == Append(s, r)
  <2>1. /\ a \in Seq(Request) /\ Len(a) = Len(s) + 1 /\ a[Len(s) + 1] = r
        /\ \A i \in 1..Len(s) : a[i] = s[i]
    BY AppendProperties
  <2>2. DOMAIN a = 1..(Len(s) + 1)  BY <2>1, LenProperties
  <2>. HIDE DEF a
  <2>3. Len(s) + 1 \in DOMAIN a  BY <1>1, <2>2
  <2>4. \A i \in DOMAIN a : \/ i \in DOMAIN s /\ a[i] = s[i]
                            \/ i = Len(s) + 1 /\ a[i] = r
    BY <1>1, <2>1, <2>2
  <2>5. \A i \in DOMAIN s : i \in DOMAIN a /\ a[i] = s[i]  BY <1>1, <2>1, <2>2
  <2>6. \E i \in DOMAIN a : a[i] = r  BY <2>1, <2>3
  <2>. QED  BY <2>4, <2>5, <2>6 DEF a
<1>3. ASSUME s # <<>>
      PROVE  /\ 1 \in DOMAIN s /\ Head(s) = s[1]
             /\ \A i \in DOMAIN Tail(s) :
                   i \in Nat /\ i # 0 /\ i + 1 \in DOMAIN s /\ Tail(s)[i] = s[i + 1]
             /\ \A i \in DOMAIN s : i = 1 \/ \E j \in DOMAIN Tail(s) : s[i] = Tail(s)[j]
  <2>. DEFINE t == Tail(s)
  <2>1. /\ t \in Seq(Request) /\ Len(t) = Len(s) - 1
        /\ \A i \in 1..Len(t) : t[i] = s[i + 1]
    BY <1>3, HeadTailProperties
  <2>2. Len(s) > 0 /\ Head(s) = s[1]  BY <1>1, <1>3, EmptySeq
  <2>3. DOMAIN t = 1..(Len(s) - 1)  BY <2>1, LenProperties
  <2>. HIDE DEF t
  <2>4. \A i \in DOMAIN t : i \in Nat /\ i # 0 /\ i + 1 \in DOMAIN s /\ t[i] = s[i + 1]
    BY <1>1, <2>1, <2>2, <2>3
  <2>5. ASSUME NEW i \in DOMAIN s, i # 1 PROVE \E j \in DOMAIN t : s[i] = t[j]
    <3>1. i - 1 \in DOMAIN t /\ (i - 1) + 1 = i  BY <1>1, <2>2, <2>3, <2>5
    <3>2. t[i - 1] = s[i]  BY <2>4, <3>1
    <3>. QED  BY <3>1, <3>2
  <2>6. 1 \in DOMAIN s  BY <1>1, <2>2
  <2>. QED  BY <2>2, <2>4, <2>5, <2>6 DEF t
<1>. QED  BY <1>2, <1>3

\* Nobody waits at first.
LEMMA InitLink == Init => Link
BY DEF Init, QueueInit, TableInit, Link, Busy, Asked, Once, Somewhere, Works, waiting

\* What main read is appended, or dropped.
LEMMA SubmitLink ==
  ASSUME WorkersInv, NEW f \in Forms, Submit(f)
  PROVE  Link' /\ QueueNext /\ UNCHANGED tableVars
<1>. USE DEF WorkersInv, Link
<1>. DEFINE r == CHOOSE r \in Request \ waiting : TRUE
<1>1. r \in Request /\ r \notin waiting  BY DEF Submit
<1>2. /\ append(r) /\ UNCHANGED tableVars
      /\ asked' = IF accepted' THEN [x \in waiting \cup {r} |-> IF x = r THEN f ELSE asked[x]]
                  ELSE asked
  BY DEF Submit
<1>. HIDE DEF r
<1>3. pc' = pc /\ request' = request /\ at' = at  BY <1>2 DEF append, tableVars
<1>4. Busy'  BY <1>3 DEF Busy, Works
<1>5. CASE ~accepted'
  <2>1. m_workqueue' = m_workqueue /\ asked' = asked  BY <1>2, <1>5 DEF append
  <2>. QED  BY <1>2, <1>1, <1>3, <1>4, <2>1 DEF Asked, Once, Somewhere, Works, waiting, QueueNext
<1>6. CASE accepted'
  <2>1. m_workqueue' = Append(m_workqueue, r)  BY <1>2, <1>6 DEF append
  <2>2. waiting' = waiting \cup {r}  BY <1>2, <1>6 DEF waiting
  <2>3. \A x \in waiting : asked'[x] = asked[x]  BY <1>1, <1>2, <1>6
  <2>4. asked'[r] = f  BY <1>2, <1>6
  <2>5. Asked'  BY <1>1, <2>2, <2>3, <2>4 DEF Asked
  <2>6. /\ \A i \in DOMAIN m_workqueue' :
             \/ i \in DOMAIN m_workqueue /\ m_workqueue'[i] = m_workqueue[i]
             \/ i = Len(m_workqueue) + 1 /\ m_workqueue'[i] = r
        /\ \A i \in DOMAIN m_workqueue :
             i \in DOMAIN m_workqueue' /\ m_workqueue'[i] = m_workqueue[i]
        /\ \E i \in DOMAIN m_workqueue' : m_workqueue'[i] = r
    BY <1>1, <2>1, Ends DEF QueueInv, QueueTypeOK
  <2>7. Once'  BY <1>1, <1>3, <2>2, <2>6 DEF Once, Works
  <2>8. Somewhere'  BY <1>3, <2>2, <2>6 DEF Somewhere, Works
  <2>. QED  BY <1>1, <1>2, <1>4, <2>5, <2>7, <2>8 DEF QueueNext
<1>. QED  BY <1>5, <1>6

\* A worker takes the oldest connection and its form.
LEMMA ServeLink ==
  ASSUME WorkersInv, NEW w \in Worker, Serve(w)
  PROVE  Link' /\ QueueNext /\ TableNext
<1>. USE DEF WorkersInv, Link
<1>1. /\ Take(w) /\ Begin(w, asked[Head(m_workqueue)]) /\ UNCHANGED asked
      /\ pc[w] = "take" /\ m_workqueue # <<>> /\ m_workqueue \in Seq(Request)
  BY DEF Serve, Take, QueueInv, QueueTypeOK
<1>2. /\ 1 \in DOMAIN m_workqueue /\ Head(m_workqueue) = m_workqueue[1]
      /\ \A i \in DOMAIN m_workqueue' :
           i \in Nat /\ i # 0 /\ i + 1 \in DOMAIN m_workqueue /\ m_workqueue'[i] = m_workqueue[i + 1]
      /\ \A i \in DOMAIN m_workqueue :
           i = 1 \/ \E j \in DOMAIN m_workqueue' : m_workqueue[i] = m_workqueue'[j]
  BY <1>1, Ends DEF Take
<1>3. waiting' = waiting  BY <1>1 DEF waiting
<1>4. /\ Works(w)' /\ ~Works(w) /\ request'[w] = m_workqueue[1]
      /\ \A v \in Worker : v # w => (Works(v)' <=> Works(v)) /\ request'[v] = request[v]
  BY <1>1, <1>2 DEF Take, Goto, Works, QueueInv, QueueTypeOK
<1>5. asked[Head(m_workqueue)] \in Forms  BY <1>2 DEF Once, Asked
<1>6. Busy'
  BY <1>1, <1>4 DEF Busy, Begin, Moves, TableInv, TableTypeOK
<1>7. Asked'  BY <1>1, <1>3 DEF Asked
<1>8. Once'
  <2>1. \A i, j \in DOMAIN m_workqueue' : m_workqueue'[i] = m_workqueue'[j] => i = j
    BY <1>2 DEF Once
  <2>2. \A i \in DOMAIN m_workqueue' :
          m_workqueue'[i] \in waiting /\ m_workqueue'[i] # m_workqueue[1]
    <3>1. ASSUME NEW i \in DOMAIN m_workqueue'
          PROVE  m_workqueue'[i] \in waiting /\ m_workqueue'[i] # m_workqueue[1]
      <4>1. i + 1 # 1  BY <1>2, <3>1
      <4>. QED  BY <1>2, <3>1, <4>1 DEF Once
    <3>. QED  BY <3>1
  <2>3. \A v \in Worker : Works(v) =>
          /\ request[v] # m_workqueue[1] /\ v # w /\ request[v] \in waiting
          /\ \A i \in DOMAIN m_workqueue' : m_workqueue'[i] # request[v]
    BY <1>2, <1>4 DEF Once
  <2>4. m_workqueue[1] \in waiting  BY <1>2 DEF Once
  <2>5. \A u, v \in Worker : Works(u)' /\ Works(v)' /\ request'[u] = request'[v] => u = v
    BY <1>4, <2>3 DEF Once
  <2>6. \A v \in Worker : Works(v)' =>
          /\ request'[v] \in waiting'
          /\ \A i \in DOMAIN m_workqueue' : m_workqueue'[i] # request'[v]
    <3>1. ASSUME NEW v \in Worker, Works(v)'
          PROVE  /\ request'[v] \in waiting
                 /\ \A i \in DOMAIN m_workqueue' : m_workqueue'[i] # request'[v]
      <4>1. CASE v = w  BY <1>4, <2>2, <2>4, <4>1
      <4>2. CASE v # w  BY <1>4, <2>3, <3>1, <4>2
      <4>. QED  BY <4>1, <4>2
    <3>. QED  BY <1>3, <3>1
  <2>. QED  BY <1>3, <2>1, <2>2, <2>5, <2>6 DEF Once
<1>9. Somewhere'
  <2>1. ASSUME NEW r \in waiting
        PROVE  \/ \E i \in DOMAIN m_workqueue' : m_workqueue'[i] = r
               \/ \E v \in Worker : Works(v)' /\ request'[v] = r
    <3>1. CASE \E i \in DOMAIN m_workqueue : m_workqueue[i] = r
      BY <1>2, <1>4, <3>1
    <3>2. CASE \E v \in Worker : Works(v) /\ request[v] = r
      BY <1>4, <3>2
    <3>. QED  BY <3>1, <3>2 DEF Somewhere
  <2>. QED  BY <1>3, <2>1 DEF Somewhere
<1>. QED  BY <1>1, <1>5, <1>6, <1>7, <1>8, <1>9 DEF QueueNext, TableNext

\* The worker answers, and goes back to the queue.
LEMMA AnswerLink ==
  ASSUME WorkersInv, NEW w \in Worker, Answer(w)
  PROVE  Link' /\ QueueNext /\ TableNext
<1>. USE DEF WorkersInv, Link
<1>1. /\ Done(w) /\ Reply(w) /\ asked' = Restrict(asked, waiting \ {request[w]})
      /\ Works(w) /\ m_workqueue' = m_workqueue /\ request' = request
  BY DEF Answer, Done, Works
<1>2. waiting' = waiting \ {request[w]}  BY <1>1 DEF waiting, Restrict
<1>3. \A r \in waiting' : asked'[r] = asked[r]  BY <1>1, <1>2 DEF Restrict
<1>4. ~Works(w)' /\ \A v \in Worker : v # w => (Works(v)' <=> Works(v))
  BY <1>1 DEF Done, Goto, Works, QueueInv, QueueTypeOK
<1>5. Busy'  BY <1>1, <1>4 DEF Busy, Reply, Moves, TableInv, TableTypeOK
<1>6. Asked'  BY <1>2, <1>3 DEF Asked
<1>7. Once'  BY <1>1, <1>2, <1>4 DEF Once
<1>8. Somewhere'  BY <1>1, <1>2, <1>4 DEF Somewhere
<1>. QED  BY <1>1, <1>5, <1>6, <1>7, <1>8 DEF QueueNext, TableNext

\* The other steps leave the connections where they are.
LEMMA OtherLink ==
  ASSUME WorkersInv, \/ QueueOnly \/ Restart \/ UNCHANGED vars
                     \/ \E w \in Worker : Work(w)
  PROVE  Link' /\ [QueueNext]_queueVars /\ [TableNext]_tableVars
<1>. USE DEF WorkersInv, Link
<1>1. CASE QueueOnly
  <2>1. /\ m_workqueue' = m_workqueue /\ request' = request /\ asked' = asked /\ at' = at
        /\ UNCHANGED tableVars /\ QueueNext
        /\ \/ pc' = pc
           \/ \E w \in Worker, l \in {"wait", "take"} : Goto(w, l) /\ ~Works(w)
    BY <1>1 DEF QueueOnly, Post, Wait, WaitInterrupted, TakeNone, QueueNext, tableVars, Works
  <2>2. \A v \in Worker : Works(v)' <=> Works(v)
    BY <2>1 DEF Goto, Works, QueueInv, QueueTypeOK
  <2>. QED  BY <2>1, <2>2 DEF Busy, Asked, Once, Somewhere, waiting
<1>2. ASSUME NEW w \in Worker, Work(w)
      PROVE  Link' /\ [QueueNext]_queueVars /\ [TableNext]_tableVars
  <2>1. /\ Works(w) /\ UNCHANGED <<queueVars, asked>> /\ TableStep(w)
        /\ m_workqueue' = m_workqueue /\ request' = request /\ pc' = pc
    BY <1>2 DEF Work, Works, queueVars
  <2>2. \E l \in {"query", "insert", "compare", "refused", "registered", "welcome"} : Moves(w, l)
    BY <2>1 DEF TableStep, RegisterFind, Query, Insert, LoginFind, LoginCompare
  <2>3. Busy'  BY <2>1, <2>2 DEF Busy, Moves, Works, TableInv, TableTypeOK
  <2>. QED  BY <2>1, <2>3 DEF Asked, Once, Somewhere, waiting, Works, TableNext
<1>3. CASE Restart
  <2>1. /\ QueueNext /\ TableNext /\ m_workqueue' = <<>> /\ waiting' = {} /\ asked' = <<>>
        /\ pc' = [w \in Worker |-> "wait"] /\ at' = [w \in Worker |-> "idle"]
    BY <1>3 DEF Restart, QueueRestart, TableRestart, QueueNext, TableNext, waiting
  <2>. QED  BY <2>1 DEF Busy, Asked, Once, Somewhere, Works
<1>4. CASE UNCHANGED vars
  BY <1>4 DEF vars, queueVars, tableVars, Busy, Asked, Once, Somewhere, Works, waiting
<1>. QED  BY <1>1, <1>2, <1>3, <1>4

\* A step of the whole is a step of the queue and a step of the table.
LEMMA StepLink ==
  WorkersInv /\ [Next]_vars => Link' /\ [QueueNext]_queueVars /\ [TableNext]_tableVars
BY SubmitLink, ServeLink, AnswerLink, OtherLink DEF Next

\* The invariant of the composition, with those of its parts.
THEOREM WorkersInvAlways == Spec => []WorkersInv
<1>1. Init => WorkersInv
  BY InitQueue, InitTable, InitLink DEF Init, WorkersInv
<1>2. WorkersInv /\ [Next]_vars => WorkersInv'
  BY StepLink, StepQueue, StepTable DEF WorkersInv
<1>. QED  BY <1>1, <1>2, PTL DEF Spec

\* The pool behaves as its queue alone ...
THEOREM WorkersImplementQueue == Spec => QueueSpec
BY WorkersInvAlways, StepLink, PTL DEF Spec, Init, QueueSpec

\* ... and do_request, run by the workers, as the table alone.
THEOREM WorkersImplementTable == Spec => TableSpec
BY WorkersInvAlways, StepLink, PTL DEF Spec, Init, TableSpec

\* EachServedOnce: who waits for an answer is in the queue or with exactly one
\* worker, for any number of both (threadpool.h:105-156).
THEOREM ServedOnceAlways == Spec => []EachServedOnce
<1>1. WorkersInv => EachServedOnce
  <2>. SUFFICES ASSUME WorkersInv PROVE EachServedOnce
    OBVIOUS
  <2>. USE DEF WorkersInv, Link
  <2>1. ASSUME NEW r \in waiting
        PROVE  Cardinality({i \in DOMAIN m_workqueue : m_workqueue[i] = r})
                 + Cardinality({w \in At("work") : request[w] = r}) = 1
    <3>. DEFINE I == {i \in DOMAIN m_workqueue : m_workqueue[i] = r}
                W == {w \in At("work") : request[w] = r}
    <3>1. CASE \E i \in DOMAIN m_workqueue : m_workqueue[i] = r
      <4>1. PICK i \in DOMAIN m_workqueue : m_workqueue[i] = r  BY <3>1
      <4>2. I = {i} /\ W = {}  BY <4>1 DEF Once, Works, At
      <4>. HIDE DEF I, W
      <4>3. Cardinality(I) = 1 /\ Cardinality(W) = 0  BY <4>2, FS_Singleton, FS_EmptySet
      <4>. QED  BY <4>3 DEF I, W
    <3>2. CASE \E w \in Worker : Works(w) /\ request[w] = r
      <4>1. PICK w \in Worker : Works(w) /\ request[w] = r  BY <3>2
      <4>2. I = {} /\ W = {w}  BY <4>1 DEF Once, Works, At
      <4>. HIDE DEF I, W
      <4>3. Cardinality(I) = 0 /\ Cardinality(W) = 1  BY <4>2, FS_Singleton, FS_EmptySet
      <4>. QED  BY <4>3 DEF I, W
    <3>. QED  BY <3>1, <3>2 DEF Somewhere
  <2>2. \A w \in Worker : pc[w] = "work" <=> at[w] # "idle"  BY DEF Busy, Works
  <2>. QED  BY <2>1, <2>2 DEF EachServedOnce
<1>. QED  BY <1>1, WorkersInvAlways, PTL
=============================================================================
