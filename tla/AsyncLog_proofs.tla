--------------------------- MODULE AsyncLog_proofs ---------------------------
(***************************************************************************)
(* For any number of threads that log, any size of the queue, any number   *)
(* of lines and days, and either mode of the log: the open file is that of *)
(* the count, a direct line is on disk when its call returns, a line is    *)
(* lost only in a race for the last place of the queue, and no other line  *)
(* is lost, doubled or overtaken but by a direct one.                      *)
(***************************************************************************)
EXTENDS AsyncLog, SequenceTheorems, FiniteSetTheorems, TLAPS

LineOf == [by : Producer, no : Nat]
Entry  == [line : LineOf, way : {"direct", "queued"}]
Place  == {"out", "localtime", "copy", "count", "check", "push", "direct", "flush"}

TypeOK ==
  /\ m_is_async \in BOOLEAN /\ m_count \in Nat
  /\ queue \in Seq(LineOf) /\ ok \in [Producer \cup {Writer} -> BOOLEAN]
  /\ got \in [Producer \cup {Writer} -> LineOf \cup {NoLine}]
  /\ pc \in [Producer \cup {Writer} -> Place \cup {"pop", "write"}]
  /\ pc[Writer] \in {"pop", "write"} /\ \A p \in Producer : pc[p] \in Place
  /\ pc[Writer] = "write" => got[Writer] \in LineOf
  /\ no \in [Producer -> 0..MaxLines]
  /\ \A p \in Producer : pc[p] # "out" => no[p] \in 1..MaxLines
  /\ written \in Seq(Entry) /\ flushed \in 0..Len(written)
  /\ lost \subseteq LineOf /\ raced \subseteq Producer

\* Who is past full() and was not overtaken since finds room in the queue.
RoomLeft == \A p \in Producer \ raced : pc[p] = "push" => Len(queue) < max_queue_size

\* The lines that wait, oldest first: the one in the writer's hands, and the queue.
Waiting == IF pc[Writer] = "write" THEN <<got[Writer]>> \o queue ELSE queue

\* Every line handed over is in a file, waits, or is lost, and the numbers agree.
Conserved ==
  /\ IsFiniteSet(HandedOver) /\ IsFiniteSet(lost) /\ lost \subseteq HandedOver
  /\ Len(written) + Len(Waiting) + Cardinality(lost) = Cardinality(HandedOver)
  /\ {written[i].line : i \in 1..Len(written)} \cup {Waiting[j] : j \in 1..Len(Waiting)}
       = HandedOver \ lost

\* Line k of a thread stands before its line l.
Older(k, l) == k.by = l.by => k.no <= l.no

\* What waits is in order; only what was written directly is ahead of an older line.
Ordered ==
  /\ \A i, j \in 1..Len(Waiting) : i < j => Older(Waiting[i], Waiting[j])
  /\ \A i \in 1..Len(written), j \in 1..Len(Waiting) :
       Older(written[i].line, Waiting[j]) \/ written[i].way = "direct"
  /\ \A i, j \in 1..Len(written) :
       i < j => \/ Older(written[i].line, written[j].line)
                \/ written[i].way = "direct" /\ written[j].way = "queued"
-----------------------------------------------------------------------------
(* Types                                                                   *)

\* Append, Head and Tail keep a sequence a sequence.
LEMMA SeqOps ==
  ASSUME NEW S, NEW s \in Seq(S)
  PROVE  /\ Len(s) \in Nat /\ DOMAIN s = 1..Len(s) /\ \A i \in 1..Len(s) : s[i] \in S
         /\ \A x \in S : /\ Append(s, x) \in Seq(S) /\ Len(Append(s, x)) = Len(s) + 1
                         /\ Append(s, x)[Len(s) + 1] = x
                         /\ \A i \in 1..Len(s) : Append(s, x)[i] = s[i]
         /\ s # <<>> => /\ Head(s) \in S /\ Head(s) = s[1] /\ Tail(s) \in Seq(S)
                        /\ Len(s) \in Nat \ {0} /\ Len(Tail(s)) = Len(s) - 1
                        /\ \A i \in 1..Len(Tail(s)) : Tail(s)[i] = s[i + 1]
OBVIOUS

\* A step of thread t to place l.
LEMMA GotoType ==
  ASSUME TypeOK, NEW t \in Producer \cup {Writer}, NEW l, Goto(t, l),
         IF t = Writer THEN l \in {"pop", "write"} ELSE l \in Place
  PROVE  /\ pc' \in [Producer \cup {Writer} -> Place \cup {"pop", "write"}]
         /\ pc'[Writer] \in {"pop", "write"} /\ \A p \in Producer : pc'[p] \in Place
         /\ pc'[t] = l /\ \A s \in (Producer \cup {Writer}) \ {t} : pc'[s] = pc[s]
BY ThreadAssumption DEF TypeOK, Goto, Place

LEMMA TypeInit == Init => TypeOK
BY SplitAssumption, BoundAssumption, ThreadAssumption DEF Init, TypeOK, Q!Init, Place

\* The line a thread is at, and the one in the writer's hands.
LEMMA LineType ==
  ASSUME TypeOK
  PROVE  /\ \A p \in Producer : Line(p) \in LineOf /\ Line(p).by = p /\ Line(p).no = no[p]
         /\ pc[Writer] = "write" => got[Writer] \in LineOf
BY BoundAssumption DEF TypeOK, Line, LineOf

\* The steps of a thread up to its line's number in the file.
LEMMA TypeBegin ==
  ASSUME TypeOK, NEW p \in Producer, ReadClock(p) \/ LocalTime(p) \/ CopyTime(p) \/ Count(p)
  PROVE  TypeOK'
<1>1. p # Writer /\ m_split_lines \in Nat \ {0} /\ MaxLines \in Nat
  BY ThreadAssumption, SplitAssumption, BoundAssumption
<1>2. /\ UNCHANGED <<m_is_async, queueVars, written, lost, raced>>
      /\ m_count' \in {m_count, m_count + 1, 0} /\ flushed' \in {flushed, Len(written)}
  BY DEF ReadClock, LocalTime, CopyTime, Count, NewDay, NewPart, fileVars
<1>3. PICK l \in Place \ {"out"} : Goto(p, l)
  BY DEF ReadClock, LocalTime, CopyTime, Count, Place
<1>4. /\ pc' \in [Producer \cup {Writer} -> Place \cup {"pop", "write"}]
      /\ pc'[Writer] \in {"pop", "write"} /\ \A q \in Producer : pc'[q] \in Place
      /\ \A s \in (Producer \cup {Writer}) \ {p} : pc'[s] = pc[s]
  BY <1>1, <1>3, GotoType
<1>5. /\ no' \in [Producer -> 0..MaxLines] /\ no'[p] \in 1..MaxLines
      /\ \A q \in Producer \ {p} : no'[q] = no[q]
  <2>1. no \in [Producer -> 0..MaxLines] /\ (pc[p] # "out" => no[p] \in 1..MaxLines)
    BY DEF TypeOK
  <2>2. CASE ReadClock(p)
    BY <1>1, <2>1, <2>2 DEF ReadClock
  <2>3. CASE LocalTime(p) \/ CopyTime(p) \/ Count(p)
    BY <2>1, <2>3 DEF LocalTime, CopyTime, Count
  <2> QED
    BY <2>2, <2>3
<1>6. m_count' \in Nat /\ flushed' \in 0..Len(written)
  BY <1>2, SeqOps DEF TypeOK
<1> QED
  BY <1>1, <1>2, <1>4, <1>5, <1>6 DEF TypeOK, queueVars

\* The rest of the call.
LEMMA TypeHandOver ==
  ASSUME TypeOK, NEW p \in Producer, Check(p) \/ Push(p) \/ Direct(p) \/ flush(p)
  PROVE  TypeOK'
<1>1. p # Writer /\ Line(p) \in LineOf
  BY ThreadAssumption, LineType
<1>2. pc[p] # "out" /\ UNCHANGED <<m_is_async, m_count, got, no>>
  BY DEF Check, Push, Direct, flush, Q!push, Q!full, fileVars, queueVars
<1>3. PICK l \in Place : Goto(p, l)
  BY DEF Check, Push, Direct, flush, Place
<1>4. /\ pc' \in [Producer \cup {Writer} -> Place \cup {"pop", "write"}]
      /\ pc'[Writer] \in {"pop", "write"} /\ \A q \in Producer : pc'[q] \in Place
      /\ \A s \in (Producer \cup {Writer}) \ {p} : pc'[s] = pc[s]
  BY <1>1, <1>3, GotoType
<1>5. /\ queue' = queue \/ queue' = Append(queue, Line(p))
      /\ ok' \in {ok, [ok EXCEPT ![p] = TRUE], [ok EXCEPT ![p] = FALSE]}
  <2>1. CASE Check(p)
    <3>1. /\ queue' = queue
          /\ ok' \in {ok, [ok EXCEPT ![p] = (Len(queue) >= max_queue_size)]}
      BY <2>1 DEF Check, Q!full, Q!Returns, queueVars
    <3>2. CASE Len(queue) >= max_queue_size
      <4>1. (Len(queue) >= max_queue_size) = TRUE
        BY <3>2
      <4> QED
        BY <3>1, <4>1
    <3>3. CASE ~(Len(queue) >= max_queue_size)
      <4>1. (Len(queue) >= max_queue_size) = FALSE
        BY <3>3
      <4> QED
        BY <3>1, <4>1
    <3> QED
      BY <3>2, <3>3
  <2>2. CASE Push(p)
    BY <2>2 DEF Push, Q!push, Q!Returns
  <2>3. CASE Direct(p) \/ flush(p)
    BY <2>3 DEF Direct, flush, queueVars
  <2> QED
    BY <2>1, <2>2, <2>3
<1>6. /\ written' = written \/ written' = Append(written, [line |-> Line(p), way |-> "direct"])
      /\ flushed' = flushed \/ (flushed' = Len(written) /\ written' = written)
  BY DEF Check, Push, Direct, flush, fputs
<1>7. lost' \subseteq lost \cup {Line(p)} /\ raced' \subseteq raced \cup Producer
  BY DEF Check, Push, Direct, flush
<1>8. queue' \in Seq(LineOf) /\ ok' \in [Producer \cup {Writer} -> BOOLEAN]
  <2>1. queue \in Seq(LineOf) /\ ok \in [Producer \cup {Writer} -> BOOLEAN]
    BY DEF TypeOK
  <2>2. Append(queue, Line(p)) \in Seq(LineOf)
    BY <1>1, <2>1, SeqOps
  <2> QED
    BY <1>5, <2>1, <2>2
<1>9. written' \in Seq(Entry) /\ flushed' \in 0..Len(written')
  <2>1. [line |-> Line(p), way |-> "direct"] \in Entry
    BY <1>1 DEF Entry
  <2>2. written \in Seq(Entry) /\ Len(written) \in Nat /\ flushed \in 0..Len(written)
    BY SeqOps DEF TypeOK
  <2> DEFINE w == Append(written, [line |-> Line(p), way |-> "direct"])
  <2>3. w \in Seq(Entry) /\ Len(w) = Len(written) + 1
    BY <2>1, <2>2, SeqOps
  <2> HIDE DEF w
  <2>4. written' \in {written, w} /\ flushed' \in {flushed, Len(written)}
    BY <1>6 DEF w
  <2> QED
    BY <1>6, <2>2, <2>3, <2>4
<1> QED
  BY <1>1, <1>2, <1>4, <1>7, <1>8, <1>9 DEF TypeOK

\* The writer thread.
LEMMA TypeWriter ==
  ASSUME TypeOK, async_write_log PROVE TypeOK'
<1>1. Writer \notin Producer
  BY ThreadAssumption
<1>2. CASE Pop
  <2>1. /\ queue # <<>> /\ queue' = Tail(queue) /\ ok' = [ok EXCEPT ![Writer] = TRUE]
        /\ got' = [got EXCEPT ![Writer] = Head(queue)]
        /\ UNCHANGED <<m_is_async, m_count, no, written, flushed, lost, raced>>
        /\ Goto(Writer, "write")
    BY <1>2 DEF Pop, Q!pop, Q!Returns, fileVars
  <2>2. Head(queue) \in LineOf /\ queue' \in Seq(LineOf)
    BY <2>1, SeqOps DEF TypeOK
  <2>3. /\ pc' \in [Producer \cup {Writer} -> Place \cup {"pop", "write"}]
        /\ pc'[Writer] \in {"pop", "write"} /\ \A q \in Producer : pc'[q] \in Place
        /\ \A s \in (Producer \cup {Writer}) \ {Writer} : pc'[s] = pc[s]
    BY <2>1, GotoType
  <2> QED
    BY <1>1, <2>1, <2>2, <2>3 DEF TypeOK
<1>3. CASE Write
  <2>1. /\ written' = Append(written, [line |-> got[Writer], way |-> "queued"])
        /\ pc[Writer] = "write" /\ Goto(Writer, "pop")
        /\ UNCHANGED <<m_is_async, m_count, queue, ok, got, no, flushed, lost, raced>>
    BY <1>3 DEF Write, fputs, fileVars, queueVars
  <2>2. [line |-> got[Writer], way |-> "queued"] \in Entry
    BY <2>1 DEF TypeOK, Entry
  <2>3. written' \in Seq(Entry) /\ flushed' \in 0..Len(written')
    BY <2>1, <2>2, SeqOps DEF TypeOK
  <2>4. /\ pc' \in [Producer \cup {Writer} -> Place \cup {"pop", "write"}]
        /\ pc'[Writer] = "pop" /\ \A q \in Producer : pc'[q] \in Place
        /\ \A s \in (Producer \cup {Writer}) \ {Writer} : pc'[s] = pc[s]
    BY <2>1, GotoType
  <2> QED
    BY <1>1, <2>1, <2>3, <2>4 DEF TypeOK
<1> QED
  BY <1>2, <1>3 DEF async_write_log

LEMMA TypeNext == TypeOK /\ [Next]_vars => TypeOK'
<1> SUFFICES ASSUME TypeOK, [Next]_vars PROVE TypeOK'
  OBVIOUS
<1>1. CASE Midnight \/ UNCHANGED vars
  BY <1>1 DEF Midnight, vars, fileVars, queueVars, TypeOK
<1>2. CASE async_write_log
  BY <1>2, TypeWriter
<1>3. CASE \E p \in Producer : Log(p)
  BY <1>3, TypeBegin, TypeHandOver DEF Log
<1> QED
  BY <1>1, <1>2, <1>3 DEF Next

\* The log's state is well typed, and what has left the buffer was written.
THEOREM TypeAlways == Spec => []TypeOK
BY TypeInit, TypeNext, PTL DEF Spec

-----------------------------------------------------------------------------
(* The open file                                                           *)

\* Quotient and remainder.
LEMMA DivMod ==
  ASSUME NEW m \in Nat \ {0}, NEW a \in Nat
  PROVE  a \div m \in Nat /\ a % m \in 0..(m - 1) /\ a = m * (a \div m) + (a % m)
BY SMTT(30)

LEMMA DivUnique ==
  ASSUME NEW m \in Nat \ {0}, NEW q \in Nat, NEW r \in 0..(m - 1), NEW k \in Nat,
         NEW s \in 0..(m - 1), m * q + r = m * k + s
  PROVE  q = k
<1>1. CASE q < k
  <2>1. m * q + m <= m * k
    BY <1>1, SMTT(30)
  <2> QED
    BY <2>1
<1>2. CASE k < q
  <2>1. m * k + m <= m * q
    BY <1>2, SMTT(30)
  <2> QED
    BY <2>1
<1> QED
  BY <1>1, <1>2

\* A line that completes no part stays in the part of the line before.
LEMMA SamePart ==
  ASSUME NEW m \in Nat \ {0}, NEW a \in Nat, (a + 1) % m # 0
  PROVE  (a + 1) \div m = a \div m
<1>1. PICK b \in Nat : b = a + 1
  OBVIOUS
<1>2. PICK q, r : q = b \div m /\ r = b % m
  OBVIOUS
<1>3. q \in Nat /\ r \in 1..(m - 1) /\ b = m * q + r
  <2>1. b \div m \in Nat /\ b % m \in 0..(m - 1) /\ b = m * (b \div m) + (b % m)
    BY DivMod
  <2> QED
    BY <1>1, <1>2, <2>1
<1>4. a = m * q + (r - 1) /\ r - 1 \in 0..(m - 1)
  <2>1. m * q \in Nat
    BY <1>3
  <2> QED
    BY <1>1, <1>3, <2>1
<1>5. a \div m = q
  <2>1. PICK k, s : k = a \div m /\ s = a % m
    OBVIOUS
  <2>2. k \in Nat /\ s \in 0..(m - 1) /\ a = m * k + s
    BY DivMod, <2>1
  <2> QED
    BY <1>3, <1>4, <2>1, <2>2, DivUnique
<1> QED
  BY <1>1, <1>2, <1>5

LEMMA ZeroPart == ASSUME NEW m \in Nat \ {0} PROVE 0 \div m = 0
BY SMTT(30)

LEMMA FileNext == TypeOK /\ FileMatchesCount /\ [Next]_vars => FileMatchesCount'
<1> SUFFICES ASSUME TypeOK, FileMatchesCount, [Next]_vars PROVE FileMatchesCount'
  OBVIOUS
<1>1. m_split_lines \in Nat \ {0} /\ m_count \in Nat
  BY SplitAssumption DEF TypeOK
<1>2. CASE UNCHANGED fileVars
  BY <1>2 DEF fileVars, FileMatchesCount
<1>3. ASSUME NEW p \in Producer, Count(p) PROVE FileMatchesCount'
  <2>1. CASE NewDay(day[p])
    BY <1>1, <2>1, ZeroPart DEF NewDay, FileMatchesCount
  <2>2. CASE day[p] = m_today /\ NewPart(day[p])
    BY <2>2 DEF NewPart, FileMatchesCount
  <2>3. CASE (m_count + 1) % m_split_lines # 0 /\ m_count' = m_count + 1
             /\ UNCHANGED <<m_today, m_fp>>
    BY <1>1, <2>3, SamePart DEF FileMatchesCount
  <2> QED
    BY <1>3, <2>1, <2>2, <2>3 DEF Count
<1>4. UNCHANGED fileVars \/ \E p \in Producer : Count(p)
  BY DEF Next, Midnight, async_write_log, Pop, Write, Log, ReadClock, LocalTime, CopyTime,
         Check, Push, Direct, flush, vars
<1> QED
  BY <1>2, <1>3, <1>4

\* However stale the days arrive and whoever counts, the open file is the one of
\* m_today and of the lines counted since its start (log.cpp:111-137).
THEOREM OpenFileIsCounted == Spec => []FileMatchesCount
<1>1. Init => FileMatchesCount
  BY SplitAssumption, ZeroPart DEF Init, FileMatchesCount
<1> QED
  BY <1>1, FileNext, TypeAlways, PTL DEF Spec

-----------------------------------------------------------------------------
(* Direct lines                                                            *)

\* What a step adds to the files, and when.
LEMMA WrittenCases ==
  ASSUME TypeOK, [Next]_vars
  PROVE  \/ /\ UNCHANGED <<written, flushed>>
            /\ \A p \in Producer : pc[p] = "flush" => pc'[p] = "flush" /\ no'[p] = no[p]
         \/ UNCHANGED written /\ flushed' = Len(written)
         \/ /\ pc[Writer] = "write" /\ Write /\ UNCHANGED <<flushed, no>>
            /\ written' = Append(written, [line |-> got[Writer], way |-> "queued"])
            /\ \A p \in Producer : pc'[p] = pc[p]
         \/ \E p \in Producer :
              /\ pc[p] = "direct" /\ Direct(p) /\ UNCHANGED <<flushed, no>>
              /\ written' = Append(written, [line |-> Line(p), way |-> "direct"])
              /\ pc'[p] = "flush" /\ \A q \in Producer \ {p} : pc'[q] = pc[q]
<1>1. /\ pc \in [Producer \cup {Writer} -> Place \cup {"pop", "write"}]
      /\ no \in [Producer -> 0..MaxLines] /\ Writer \notin Producer
  BY ThreadAssumption DEF TypeOK
<1>2. CASE Midnight \/ UNCHANGED vars
  BY <1>2 DEF Midnight, vars
<1>3. CASE Pop
  BY <1>1, <1>3 DEF Pop, Goto
<1>4. CASE Write
  BY <1>1, <1>4 DEF Write, Goto, fputs
<1>5. ASSUME NEW p \in Producer, Log(p)
      PROVE  \/ /\ UNCHANGED <<written, flushed>>
                /\ \A q \in Producer : pc[q] = "flush" => pc'[q] = "flush" /\ no'[q] = no[q]
             \/ UNCHANGED written /\ flushed' = Len(written)
             \/ /\ pc[p] = "direct" /\ Direct(p) /\ UNCHANGED <<flushed, no>>
                /\ written' = Append(written, [line |-> Line(p), way |-> "direct"])
                /\ pc'[p] = "flush" /\ \A q \in Producer \ {p} : pc'[q] = pc[q]
  <2>1. CASE ReadClock(p) \/ LocalTime(p) \/ CopyTime(p)
    BY <1>1, <2>1 DEF ReadClock, LocalTime, CopyTime, Goto
  <2>2. CASE Count(p)
    BY <1>1, <2>2 DEF Count, Goto
  <2>3. CASE Check(p) \/ Push(p)
    BY <1>1, <2>3 DEF Check, Push, Goto
  <2>4. CASE Direct(p) \/ flush(p)
    BY <1>1, <2>4 DEF Direct, flush, fputs, Goto
  <2> QED
    BY <1>5, <2>1, <2>2, <2>3, <2>4 DEF Log
<1> QED
  BY <1>2, <1>3, <1>4, <1>5 DEF Next, async_write_log

\* The entries of the files.
LEMMA WrittenType ==
  ASSUME TypeOK
  PROVE  /\ written \in Seq(Entry) /\ flushed \in 0..Len(written) /\ Len(written) \in Nat
         /\ DOMAIN written = 1..Len(written)
         /\ \A i \in 1..Len(written) : written[i].line \in LineOf
                                       /\ written[i].line.by \in Producer
<1>1. written \in Seq(Entry) /\ flushed \in 0..Len(written)
  BY DEF TypeOK
<1>2. \A i \in 1..Len(written) : written[i] \in Entry
  BY <1>1, SeqOps
<1>3. \A e \in Entry : e.line \in LineOf /\ e.line.by \in Producer
  BY DEF Entry, LineOf
<1> QED
  BY <1>1, <1>2, <1>3, SeqOps

LEMMA DirectNext == TypeOK /\ DirectOnDisk /\ [Next]_vars => DirectOnDisk'
<1> SUFFICES ASSUME TypeOK, DirectOnDisk, [Next]_vars PROVE DirectOnDisk'
  OBVIOUS
<1>1. /\ written \in Seq(Entry) /\ flushed \in 0..Len(written) /\ Len(written) \in Nat
      /\ DOMAIN written = 1..Len(written)
  BY WrittenType
<1>2. CASE /\ UNCHANGED <<written, flushed>>
           /\ \A p \in Producer : pc[p] = "flush" => pc'[p] = "flush" /\ no'[p] = no[p]
  <2>1. \A i \in DOMAIN written : written[i].line.by \in Producer
    BY <1>1, WrittenType
  <2> QED
    BY <1>2, <2>1 DEF DirectOnDisk, Line
<1>3. CASE UNCHANGED written /\ flushed' = Len(written)
  BY <1>1, <1>3 DEF DirectOnDisk
<1>4. ASSUME NEW e, written' = Append(written, e), UNCHANGED <<flushed, no>>, e \in Entry,
             \/ e.way = "queued" /\ \A p \in Producer : pc'[p] = pc[p]
             \/ \E p \in Producer : /\ e = [line |-> Line(p), way |-> "direct"]
                                    /\ pc[p] = "direct" /\ pc'[p] = "flush"
                                    /\ \A q \in Producer \ {p} : pc'[q] = pc[q]
      PROVE  DirectOnDisk'
  <2>1. /\ DOMAIN written' = 1..(Len(written) + 1) /\ written'[Len(written) + 1] = e
        /\ \A i \in 1..Len(written) : written'[i] = written[i]
    <3>1. Append(written, e) \in Seq(Entry)
      BY <1>1, <1>4, SeqOps
    <3> QED
      BY <1>1, <1>4, <3>1, SeqOps
  <2>2. \A i \in 1..Len(written) : written[i].line.by \in Producer
    BY <1>1, WrittenType
  <2>3. ASSUME NEW i \in 1..Len(written), i > flushed, written[i].way = "direct"
        PROVE  Line(written[i].line.by)' = written[i].line /\ pc'[written[i].line.by] = "flush"
    <3>1. Line(written[i].line.by) = written[i].line /\ pc[written[i].line.by] = "flush"
      BY <1>1, <2>3 DEF DirectOnDisk
    <3> QED
      BY <1>4, <2>2, <3>1 DEF Line
  <2>4. e.way = "direct" => Line(e.line.by)' = e.line /\ pc'[e.line.by] = "flush"
    BY <1>4 DEF Line
  <2> QED
    BY <1>1, <1>4, <2>1, <2>3, <2>4 DEF DirectOnDisk
<1>5. CASE /\ pc[Writer] = "write" /\ UNCHANGED <<flushed, no>>
           /\ written' = Append(written, [line |-> got[Writer], way |-> "queued"])
           /\ \A p \in Producer : pc'[p] = pc[p]
  <2> DEFINE e == [line |-> got[Writer], way |-> "queued"]
  <2>1. e \in Entry /\ e.way = "queued"
    BY <1>5, LineType DEF Entry
  <2> HIDE DEF e
  <2>2. written' = Append(written, e)
    BY <1>5 DEF e
  <2> QED
    BY <1>4, <1>5, <2>1, <2>2
<1>6. ASSUME NEW p \in Producer, pc[p] = "direct", UNCHANGED <<flushed, no>>,
             written' = Append(written, [line |-> Line(p), way |-> "direct"]),
             pc'[p] = "flush", \A q \in Producer \ {p} : pc'[q] = pc[q]
      PROVE  DirectOnDisk'
  <2> DEFINE e == [line |-> Line(p), way |-> "direct"]
  <2>1. e \in Entry
    BY LineType DEF Entry
  <2> QED
    BY <1>4, <1>6, <2>1
<1> QED
  BY <1>2, <1>3, <1>5, <1>6, WrittenCases

\* A line written directly has left the stdio buffer when its LOG call is over,
\* whatever other threads write, and whichever of them changes the file.
THEOREM DirectIsOnDisk == Spec => []DirectOnDisk
<1>1. Init => DirectOnDisk
  BY DEF Init, DirectOnDisk
<1> QED
  BY <1>1, DirectNext, TypeAlways, PTL DEF Spec

-----------------------------------------------------------------------------
(* Lost lines                                                              *)

LEMMA RoomNext == TypeOK /\ RoomLeft /\ [Next]_vars => RoomLeft'
<1> SUFFICES ASSUME TypeOK, RoomLeft, [Next]_vars PROVE RoomLeft'
  OBVIOUS
<1>1. /\ pc \in [Producer \cup {Writer} -> Place \cup {"pop", "write"}]
      /\ queue \in Seq(LineOf) /\ Len(queue) \in Nat /\ max_queue_size \in Nat
      /\ Writer \notin Producer /\ ok \in [Producer \cup {Writer} -> BOOLEAN]
  BY ThreadAssumption, QueueAssumption, SeqOps DEF TypeOK
<1>2. CASE UNCHANGED <<queue, raced>> /\ \A p \in Producer : pc'[p] = "push" => pc[p] = "push"
  BY <1>2 DEF RoomLeft
<1>3. CASE Pop
  <2>1. queue' = Tail(queue) /\ queue # <<>> /\ UNCHANGED raced
        /\ \A p \in Producer : pc'[p] = pc[p]
    BY <1>1, <1>3 DEF Pop, Q!pop, Goto
  <2>2. Len(queue') \in Nat /\ Len(queue') < Len(queue)
    BY <1>1, <2>1, SeqOps
  <2> QED
    BY <1>1, <2>1, <2>2 DEF RoomLeft
<1>4. ASSUME NEW p \in Producer, Check(p) PROVE RoomLeft'
  <2>1. /\ raced' = raced \ {p} /\ UNCHANGED queue
        /\ \A q \in Producer \ {p} : pc'[q] = pc[q]
    BY <1>1, <1>4 DEF Check, Q!full, Goto, queueVars
  <2>2. pc'[p] = "push" => Len(queue) < max_queue_size
    <3>1. CASE m_is_async /\ Q!full(p) /\ Goto(p, IF ok'[p] THEN "direct" ELSE "push")
      <4>1. ok'[p] = (Len(queue) >= max_queue_size)
        BY <1>1, <3>1 DEF Q!full, Q!Returns
      <4>2. ok'[p] => pc'[p] = "direct"
        BY <1>1, <3>1 DEF Goto
      <4>3. CASE ok'[p]
        BY <4>2, <4>3
      <4>4. CASE ~ok'[p]
        <5>1. ~(Len(queue) >= max_queue_size)
          BY <4>1, <4>4, Zenon
        <5> QED
          BY <1>1, <5>1
      <4> QED
        BY <4>3, <4>4
    <3>2. CASE Goto(p, "direct")
      BY <1>1, <3>2 DEF Goto
    <3> QED
      BY <1>4, <3>1, <3>2 DEF Check
  <2> QED
    BY <2>1, <2>2 DEF RoomLeft
<1>5. ASSUME NEW p \in Producer, Push(p) PROVE RoomLeft'
  BY <1>1, <1>5 DEF Push, Goto, RoomLeft
<1>6. ASSUME NEW p \in Producer, Log(p), ~Check(p), ~Push(p) PROVE RoomLeft'
  <2>1. /\ UNCHANGED <<queue, raced>>
        /\ \E l \in Place \ {"push"} : Goto(p, l)
    BY <1>6 DEF Log, ReadClock, LocalTime, CopyTime, Count, Direct, flush, queueVars, Place
  <2> QED
    BY <1>1, <1>2, <2>1 DEF Goto
<1>7. CASE Midnight \/ UNCHANGED vars \/ Write
  BY <1>1, <1>2, <1>7 DEF Midnight, vars, Write, queueVars, Goto
<1> QED
  BY <1>3, <1>4, <1>5, <1>6, <1>7 DEF Next, async_write_log

\* A push fails only for a thread that was overtaken after it called full().
LEMMA LossStep ==
  ASSUME TypeOK, RoomLeft, [Next]_vars, lost' # lost
  PROVE  \E p \in raced : lost' = lost \cup {Line(p)} /\ pc[p] = "push"
<1>1. PICK p \in Producer : Push(p)
  BY DEF Next, Midnight, async_write_log, Pop, Write, Log, ReadClock, LocalTime, CopyTime,
         Count, Check, Direct, flush, vars
<1>2. ok \in [Producer \cup {Writer} -> BOOLEAN] /\ Len(queue) \in Nat /\ max_queue_size \in Nat
  BY QueueAssumption, SeqOps DEF TypeOK
<1>3. ~ok'[p] /\ lost' = lost \cup {Line(p)} /\ pc[p] = "push"
  BY <1>1 DEF Push
<1>4. ~(Len(queue) < max_queue_size)
  BY <1>1, <1>2, <1>3 DEF Push, Q!push, Q!Returns
<1> QED
  BY <1>3, <1>4 DEF RoomLeft

THEOREM RoomAlways == Spec => []RoomLeft
<1>1. Init => RoomLeft
  BY ThreadAssumption DEF Init, RoomLeft
<1> QED
  BY <1>1, RoomNext, TypeAlways, PTL DEF Spec

\* A line is lost only when another thread filled the queue between the full()
\* and the push of its own thread (log.cpp:157-159), for any size of the queue.
THEOREM LossOnlyInRace == Spec => LossNeedsRace
<1>1. TypeOK /\ RoomLeft /\ [Next]_vars
        => [lost' # lost => \E p \in raced : lost' = lost \cup {Line(p)} /\ pc[p] = "push"]_vars
  BY LossStep
<1> QED
  BY <1>1, RoomAlways, TypeAlways, PTL DEF Spec, LossNeedsRace

-----------------------------------------------------------------------------
(* No line is lost unsaid, and none twice                                  *)

\* The lines that wait are those of the queue, after the one in the writer's hands.
WaitingIs ==
  /\ Waiting \in Seq(LineOf) /\ Len(Waiting) \in Nat
  /\ \A j \in 1..Len(Waiting) : Waiting[j] \in LineOf
  /\ pc[Writer] # "write" => Waiting = queue
  /\ pc[Writer] = "write" =>
       /\ Len(Waiting) = Len(queue) + 1 /\ Waiting[1] = got[Writer]
       /\ \A j \in 1..Len(queue) : Waiting[j + 1] = queue[j]

LEMMA WaitingType == TypeOK => WaitingIs
<1> SUFFICES ASSUME TypeOK PROVE WaitingIs
  OBVIOUS
<1>1. queue \in Seq(LineOf) /\ Len(queue) \in Nat
  BY SeqOps DEF TypeOK
<1>2. CASE pc[Writer] = "write"
  <2> DEFINE s == <<got[Writer]>>
  <2>1. s \in Seq(LineOf) /\ Len(s) = 1 /\ s[1] = got[Writer]
    BY <1>2, LineType
  <2> HIDE DEF s
  <2>2. s \o queue \in Seq(LineOf) /\ Len(s \o queue) = Len(queue) + 1
        /\ \A i \in 1..(Len(queue) + 1) : (s \o queue)[i] = IF i <= 1 THEN s[i] ELSE queue[i - 1]
    <3>1. /\ s \o queue \in Seq(LineOf) /\ Len(s \o queue) = Len(s) + Len(queue)
          /\ \A i \in 1..Len(s) + Len(queue) :
               (s \o queue)[i] = IF i <= Len(s) THEN s[i] ELSE queue[i - Len(s)]
      BY <1>1, <2>1, ConcatProperties
    <3> QED
      BY <1>1, <2>1, <3>1
  <2>3. Waiting = s \o queue
    BY <1>2 DEF Waiting, s
  <2>4. \A j \in 1..Len(queue) : Waiting[j + 1] = queue[j]
    BY <1>1, <2>2, <2>3
  <2>5. Waiting[1] = got[Writer]
    BY <1>1, <2>1, <2>2, <2>3
  <2>6. Waiting \in Seq(LineOf) /\ Len(Waiting) = Len(queue) + 1
    BY <2>2, <2>3
  <2> QED
    BY <1>1, <1>2, <2>4, <2>5, <2>6, SeqOps DEF WaitingIs
<1>3. CASE pc[Writer] # "write"
  BY <1>1, <1>3, SeqOps DEF Waiting, WaitingIs
<1> QED
  BY <1>2, <1>3

\* A thread at its push or at its direct write has handed over the lines before.
LEMMA AtHandOver ==
  ASSUME TypeOK, NEW p \in Producer, pc[p] \in {"push", "direct"}
  PROVE  /\ Line(p) \notin HandedOver
         /\ \A l \in HandedOver : l.by = p => l.no < no[p]
         /\ pc' = [pc EXCEPT ![p] = "flush"] /\ UNCHANGED no
              => HandedOver' = HandedOver \cup {Line(p)}
<1>1. /\ no[p] \in 1..MaxLines /\ no \in [Producer -> 0..MaxLines] /\ MaxLines \in Nat
      /\ pc \in [Producer \cup {Writer} -> Place \cup {"pop", "write"}]
  BY BoundAssumption DEF TypeOK
<1>2. Line(p) \in [by : Producer, no : 1..MaxLines] /\ Line(p).by = p /\ Line(p).no = no[p]
  BY <1>1 DEF Line
<1>3. \A l \in HandedOver : l.by = p => l.no < no[p]
  BY DEF HandedOver
<1>4. Line(p) \notin HandedOver
  BY <1>1, <1>2, <1>3
<1>5. ASSUME pc' = [pc EXCEPT ![p] = "flush"], UNCHANGED no
      PROVE  HandedOver' = HandedOver \cup {Line(p)}
  <2>1. ASSUME NEW l \in [by : Producer, no : 1..MaxLines]
        PROVE  l \in HandedOver' <=> l \in HandedOver \/ l = Line(p)
    <3>1. /\ l \in HandedOver <=> (l.no < no[l.by]
                                     \/ (l.no = no[l.by] /\ pc[l.by] \in {"flush", "out"}))
          /\ l \in HandedOver' <=> (l.no < no[l.by]
                                     \/ (l.no = no[l.by] /\ pc'[l.by] \in {"flush", "out"}))
      BY <1>5 DEF HandedOver
    <3>2. l = Line(p) <=> l.by = p /\ l.no = no[p]
      BY <1>2 DEF Line
    <3>3. CASE l.by = p
      BY <1>1, <1>5, <3>1, <3>2, <3>3
    <3>4. CASE l.by # p
      BY <1>1, <1>5, <3>1, <3>2, <3>4
    <3> QED
      BY <3>3, <3>4
  <2>2. HandedOver \subseteq [by : Producer, no : 1..MaxLines]
        /\ HandedOver' \subseteq [by : Producer, no : 1..MaxLines]
    BY DEF HandedOver
  <2> QED
    BY <1>2, <2>1, <2>2
<1> QED
  BY <1>3, <1>4, <1>5

\* The other steps of a thread hand nothing over.
LEMMA SameHandedOver ==
  ASSUME TypeOK,
         \/ UNCHANGED no /\ \A p \in Producer : pc'[p] \in {"flush", "out"}
                                                 <=> pc[p] \in {"flush", "out"}
         \/ \E p \in Producer : ReadClock(p)
  PROVE  HandedOver' = HandedOver
<1>1. /\ no \in [Producer -> 0..MaxLines] /\ MaxLines \in Nat
      /\ pc \in [Producer \cup {Writer} -> Place \cup {"pop", "write"}]
  BY BoundAssumption DEF TypeOK
<1>2. CASE UNCHANGED no /\ \A p \in Producer : pc'[p] \in {"flush", "out"}
                                                <=> pc[p] \in {"flush", "out"}
  BY <1>2 DEF HandedOver
<1>3. ASSUME NEW p \in Producer, ReadClock(p) PROVE HandedOver' = HandedOver
  <2>1. /\ no' = [no EXCEPT ![p] = no[p] + 1] /\ pc' = [pc EXCEPT ![p] = "localtime"]
        /\ pc[p] = "out"
    BY <1>3 DEF ReadClock, Goto
  <2>2. ASSUME NEW l \in [by : Producer, no : 1..MaxLines]
        PROVE  (l.no < no'[l.by] \/ (l.no = no'[l.by] /\ pc'[l.by] \in {"flush", "out"}))
                 <=> (l.no < no[l.by] \/ (l.no = no[l.by] /\ pc[l.by] \in {"flush", "out"}))
    <3>1. l.by \in Producer /\ l.no \in Nat
      OBVIOUS
    <3>2. CASE l.by = p
      BY <1>1, <2>1, <3>1, <3>2
    <3>3. CASE l.by # p
      BY <1>1, <2>1, <3>1, <3>3
    <3> QED
      BY <3>2, <3>3
  <2> QED
    BY <2>2 DEF HandedOver
<1> QED
  BY <1>2, <1>3

\* What a step does to the lines: nothing; the writer puts the oldest that waits into
\* a file; or thread p hands its line over, which is written, waits, or is lost.
Keep == UNCHANGED <<written, lost>> /\ Waiting' = Waiting /\ HandedOver' = HandedOver

Drain ==
  /\ HandedOver' = HandedOver /\ UNCHANGED lost /\ Len(Waiting) > 0
  /\ written' = Append(written, [line |-> Waiting[1], way |-> "queued"])
  /\ Len(Waiting') = Len(Waiting) - 1
  /\ \A j \in 1..Len(Waiting') : Waiting'[j] = Waiting[j + 1]

HandOver(p) ==
  /\ HandedOver' = HandedOver \cup {Line(p)}
  /\ \/ /\ UNCHANGED lost /\ Waiting' = Waiting
        /\ written' = Append(written, [line |-> Line(p), way |-> "direct"])
     \/ /\ UNCHANGED <<written, lost>>
        /\ Len(Waiting') = Len(Waiting) + 1 /\ Waiting'[Len(Waiting) + 1] = Line(p)
        /\ \A j \in 1..Len(Waiting) : Waiting'[j] = Waiting[j]
     \/ UNCHANGED written /\ Waiting' = Waiting /\ lost' = lost \cup {Line(p)}

LEMMA LogSteps ==
  ASSUME TypeOK, [Next]_vars
  PROVE  Keep \/ Drain \/ \E p \in Producer : pc[p] \in {"push", "direct"} /\ HandOver(p)
<1>1. /\ pc \in [Producer \cup {Writer} -> Place \cup {"pop", "write"}]
      /\ got \in [Producer \cup {Writer} -> LineOf \cup {NoLine}]
      /\ ok \in [Producer \cup {Writer} -> BOOLEAN]
      /\ queue \in Seq(LineOf) /\ Len(queue) \in Nat /\ Writer \notin Producer
  BY ThreadAssumption, SeqOps DEF TypeOK
<1>2. /\ Waiting' \in Seq(LineOf) /\ Len(Waiting') \in Nat
      /\ pc'[Writer] # "write" => Waiting' = queue'
      /\ pc'[Writer] = "write" =>
              /\ Len(Waiting') = Len(queue') + 1 /\ Waiting'[1] = got'[Writer]
              /\ \A j \in 1..Len(queue') : Waiting'[j + 1] = queue'[j]
  <2>1. TypeOK'
    BY TypeNext
  <2>2. WaitingIs'
    BY <2>1, WaitingType, PTL
  <2> QED
    BY <2>2 DEF WaitingIs
<1>3. UNCHANGED <<queue, got>> /\ pc'[Writer] = pc[Writer] => Waiting' = Waiting
  BY DEF Waiting
<1>4. CASE Midnight \/ UNCHANGED vars
  <2>1. UNCHANGED <<pc, no, queue, got, written, lost>>
    BY <1>4 DEF Midnight, vars, queueVars
  <2> QED
    BY <1>3, <2>1, SameHandedOver DEF Keep
<1>5. CASE Pop
  <2>1. /\ queue # <<>> /\ queue' = Tail(queue) /\ got' = [got EXCEPT ![Writer] = Head(queue)]
        /\ pc' = [pc EXCEPT ![Writer] = "write"] /\ pc[Writer] = "pop"
        /\ UNCHANGED <<no, written, lost>>
    BY <1>5 DEF Pop, Q!pop, Goto
  <2>2. HandedOver' = HandedOver
    BY <1>1, <2>1, SameHandedOver
  <2>3. /\ pc'[Writer] = "write" /\ got'[Writer] = queue[1] /\ Waiting = queue
        /\ Len(queue') = Len(queue) - 1 /\ \A i \in 1..Len(queue') : queue'[i] = queue[i + 1]
    BY <1>1, <2>1, SeqOps, WaitingType DEF WaitingIs
  <2>4. Len(Waiting') = Len(queue) /\ \A i \in 1..Len(queue) : Waiting'[i] = queue[i]
    <3>1. Len(Waiting') = Len(queue) /\ Waiting'[1] = queue[1]
      BY <1>1, <1>2, <2>3
    <3>2. ASSUME NEW i \in 1..Len(queue), i # 1 PROVE Waiting'[i] = queue[i]
      <4>1. i - 1 \in 1..Len(queue') /\ (i - 1) + 1 = i
        BY <1>1, <2>3, <3>2
      <4>2. Waiting'[(i - 1) + 1] = queue'[i - 1] /\ queue'[i - 1] = queue[(i - 1) + 1]
        BY <1>2, <2>3, <4>1
      <4> QED
        BY <4>1, <4>2
    <3> QED
      BY <3>1, <3>2
  <2>5. Waiting' = Waiting
    BY <1>1, <1>2, <2>1, <2>3, <2>4, SeqEqual
  <2> QED
    BY <2>1, <2>2, <2>5 DEF Keep
<1>6. CASE Write
  <2>1. /\ written' = Append(written, [line |-> got[Writer], way |-> "queued"])
        /\ pc[Writer] = "write" /\ pc' = [pc EXCEPT ![Writer] = "pop"]
        /\ UNCHANGED <<no, queue, got, lost>>
    BY <1>6 DEF Write, fputs, queueVars, Goto
  <2>2. HandedOver' = HandedOver
    BY <1>1, <2>1, SameHandedOver
  <2>3. /\ Waiting' = queue /\ Waiting[1] = got[Writer] /\ Len(Waiting) = Len(queue) + 1
        /\ \A j \in 1..Len(queue) : Waiting[j + 1] = queue[j]
    BY <1>1, <1>2, <2>1, WaitingType DEF WaitingIs
  <2> QED
    BY <1>1, <2>1, <2>2, <2>3 DEF Drain
<1>7. ASSUME NEW p \in Producer, ReadClock(p) \/ LocalTime(p) \/ CopyTime(p) \/ Count(p)
                                   \/ Check(p) \/ flush(p)
      PROVE  Keep
  <2>1. UNCHANGED <<queue, got, written, lost>> /\ pc'[Writer] = pc[Writer]
    BY <1>1, <1>7 DEF ReadClock, LocalTime, CopyTime, Count, Check, flush, Q!full, queueVars, Goto
  <2>2. HandedOver' = HandedOver
    <3>1. CASE ReadClock(p)
      BY <3>1, SameHandedOver
    <3>2. CASE LocalTime(p) \/ CopyTime(p) \/ Count(p) \/ Check(p) \/ flush(p)
      <4>1. UNCHANGED no /\ \A q \in Producer : pc'[q] \in {"flush", "out"}
                                                  <=> pc[q] \in {"flush", "out"}
        BY <1>1, <3>2 DEF LocalTime, CopyTime, Count, Check, flush, Goto
      <4> QED
        BY <4>1, SameHandedOver
    <3> QED
      BY <1>7, <3>1, <3>2
  <2> QED
    BY <1>3, <2>1, <2>2 DEF Keep
<1>8. ASSUME NEW p \in Producer, Push(p) \/ Direct(p)
      PROVE  pc[p] \in {"push", "direct"} /\ HandOver(p)
  <2>1. /\ pc[p] \in {"push", "direct"} /\ pc' = [pc EXCEPT ![p] = "flush"]
        /\ UNCHANGED <<no, got>>
    BY <1>8 DEF Push, Direct, Q!push, Goto, queueVars
  <2>2. HandedOver' = HandedOver \cup {Line(p)} /\ pc'[Writer] = pc[Writer]
    BY <1>1, <2>1, AtHandOver
  <2>3. CASE Direct(p)
    BY <1>3, <2>1, <2>2, <2>3 DEF Direct, HandOver, fputs, queueVars
  <2>4. CASE Push(p) /\ queue' = queue /\ ~ok'[p]
    BY <1>3, <2>1, <2>2, <2>4 DEF Push, HandOver
  <2>5. CASE Push(p) /\ queue' = Append(queue, Line(p)) /\ ok'[p]
    <3>1. UNCHANGED <<written, lost>>
      BY <2>5 DEF Push
    <3>2. /\ Len(queue') = Len(queue) + 1 /\ queue'[Len(queue) + 1] = Line(p)
          /\ \A i \in 1..Len(queue) : queue'[i] = queue[i]
      BY <1>1, <2>5, SeqOps, LineType
    <3>3. CASE pc[Writer] = "write"
      <4>1. /\ Len(Waiting) = Len(queue) + 1 /\ Len(Waiting') = Len(queue) + 2
            /\ Waiting'[1] = Waiting[1]
            /\ \A j \in 1..Len(queue) : Waiting[j + 1] = queue[j]
            /\ \A j \in 1..(Len(queue) + 1) : Waiting'[j + 1] = queue'[j]
        BY <1>1, <1>2, <2>1, <2>2, <3>2, <3>3, WaitingType DEF WaitingIs
      <4>2. Waiting'[Len(Waiting) + 1] = Line(p)
        BY <1>1, <3>2, <4>1
      <4>3. ASSUME NEW j \in 1..Len(Waiting), j # 1 PROVE Waiting'[j] = Waiting[j]
        <5>1. j - 1 \in 1..Len(queue) /\ (j - 1) + 1 = j /\ j - 1 \in 1..(Len(queue) + 1)
          BY <1>1, <4>1, <4>3
        <5>2. Waiting[(j - 1) + 1] = queue[j - 1] /\ Waiting'[(j - 1) + 1] = queue'[j - 1]
          BY <4>1, <5>1
        <5> QED
          BY <3>2, <5>1, <5>2
      <4>4. Len(Waiting') = Len(Waiting) + 1
        BY <1>1, <4>1
      <4> QED
        BY <2>1, <2>2, <3>1, <4>1, <4>2, <4>3, <4>4 DEF HandOver
    <3>4. CASE pc[Writer] # "write"
      <4>1. Waiting = queue /\ Waiting' = queue'
        BY <1>2, <2>2, <3>4, WaitingType DEF WaitingIs
      <4> QED
        BY <2>1, <2>2, <3>1, <3>2, <4>1 DEF HandOver
    <3> QED
      BY <3>3, <3>4
  <2>6. Push(p) => \/ queue' = queue /\ ~ok'[p]
                   \/ queue' = Append(queue, Line(p)) /\ ok'[p]
    BY <1>1 DEF Push, Q!push, Q!Returns
  <2> QED
    BY <1>8, <2>1, <2>3, <2>4, <2>5, <2>6
<1> QED
  BY <1>4, <1>5, <1>6, <1>7, <1>8 DEF Next, async_write_log, Log

\* The step in terms of places: where each line stands afterwards.
LEMMA AppendWritten ==
  ASSUME TypeOK, NEW e \in Entry, written' = Append(written, e)
  PROVE  /\ Len(written') = Len(written) + 1 /\ written'[Len(written) + 1] = e
         /\ \A i \in 1..Len(written) : written'[i] = written[i]
BY WrittenType, SeqOps

LEMMA ConservedNext == TypeOK /\ Conserved /\ [Next]_vars => Conserved'
<1> SUFFICES ASSUME TypeOK, Conserved, [Next]_vars PROVE Conserved'
  OBVIOUS
<1> DEFINE A == {written[i].line : i \in 1..Len(written)}
           B == {Waiting[j] : j \in 1..Len(Waiting)}
<1>1. /\ Len(written) \in Nat /\ Len(Waiting) \in Nat
      /\ \A j \in 1..Len(Waiting) : Waiting[j] \in LineOf
  BY WrittenType, WaitingType DEF WaitingIs
<1>2. CASE Keep
  BY <1>2 DEF Keep, Conserved
<1>3. CASE Drain
  <2>1. PICK e : e = [line |-> Waiting[1], way |-> "queued"]
    OBVIOUS
  <2>2. e \in Entry /\ e.line = Waiting[1]
    BY <1>1, <1>3, <2>1 DEF Drain, Entry
  <2>3. /\ Len(written') = Len(written) + 1 /\ written'[Len(written) + 1] = e
        /\ \A i \in 1..Len(written) : written'[i] = written[i]
    BY <1>3, <2>1, <2>2, AppendWritten DEF Drain
  <2>4. A' = A \cup {Waiting[1]}
    BY <1>1, <2>2, <2>3
  <2>5. B = {Waiting[1]} \cup B'
    <3>1. \A j \in 1..Len(Waiting) : j = 1 \/ (j - 1 \in 1..Len(Waiting') /\ (j - 1) + 1 = j)
      BY <1>1, <1>3 DEF Drain
    <3>2. \A j \in 1..Len(Waiting') : j + 1 \in 1..Len(Waiting) /\ 1 \in 1..Len(Waiting)
      BY <1>1, <1>3 DEF Drain
    <3>3. 1 \in 1..Len(Waiting)
      BY <1>1, <1>3 DEF Drain
    <3>4. \A j \in 1..Len(Waiting') : Waiting'[j] = Waiting[j + 1]
      BY <1>3 DEF Drain
    <3>5. ASSUME NEW j \in 1..Len(Waiting), j # 1 PROVE Waiting[j] \in B'
      <4>1. Waiting[j] = Waiting'[j - 1] /\ j - 1 \in 1..Len(Waiting')
        BY <3>1, <3>4, <3>5
      <4> QED
        BY <4>1
    <3>6. B \subseteq {Waiting[1]} \cup B'
      BY <3>5
    <3>7. B' \subseteq B /\ Waiting[1] \in B
      BY <3>2, <3>3, <3>4
    <3> QED
      BY <3>6, <3>7
  <2>6. Len(written') + Len(Waiting') = Len(written) + Len(Waiting)
    BY <1>1, <1>3, <2>3 DEF Drain
  <2>7. A' \cup B' = A \cup B
    BY <2>4, <2>5
  <2> QED
    BY <1>3, <2>6, <2>7 DEF Drain, Conserved
<1>4. ASSUME NEW p \in Producer, pc[p] \in {"push", "direct"}, HandOver(p) PROVE Conserved'
  <2>1. /\ Line(p) \notin HandedOver /\ HandedOver' = HandedOver \cup {Line(p)}
        /\ Line(p) \in LineOf
    BY <1>4, AtHandOver, LineType DEF HandOver
  <2>2. /\ IsFiniteSet(HandedOver) /\ IsFiniteSet(HandedOver')
        /\ Cardinality(HandedOver') = Cardinality(HandedOver) + 1
        /\ Cardinality(HandedOver) \in Nat
    BY <2>1, FS_AddElement, FS_CardinalityType DEF Conserved
  <2>3. /\ IsFiniteSet(lost) /\ Cardinality(lost) \in Nat /\ Line(p) \notin lost
        /\ IsFiniteSet(lost \cup {Line(p)})
        /\ Cardinality(lost \cup {Line(p)}) = Cardinality(lost) + 1
    BY <2>1, FS_AddElement, FS_CardinalityType DEF Conserved
  <2>4. A \cup B = HandedOver \ lost /\ lost \subseteq HandedOver
        /\ Len(written) + Len(Waiting) + Cardinality(lost) = Cardinality(HandedOver)
    BY DEF Conserved
  <2>5. CASE /\ UNCHANGED lost /\ Waiting' = Waiting
             /\ written' = Append(written, [line |-> Line(p), way |-> "direct"])
    <3>1. PICK e : e = [line |-> Line(p), way |-> "direct"]
      OBVIOUS
    <3>2. e \in Entry /\ e.line = Line(p)
      BY <2>1, <3>1 DEF Entry
    <3>3. /\ Len(written') = Len(written) + 1 /\ written'[Len(written) + 1] = e
          /\ \A i \in 1..Len(written) : written'[i] = written[i]
      BY <2>5, <3>1, <3>2, AppendWritten
    <3>4. A' = A \cup {Line(p)} /\ B' = B
      BY <1>1, <2>5, <3>2, <3>3
    <3>5. A' \cup B' = HandedOver' \ lost'
      BY <2>1, <2>3, <2>4, <2>5, <3>4
    <3>6. Len(written') + Len(Waiting') + Cardinality(lost') = Cardinality(HandedOver')
      BY <1>1, <2>2, <2>3, <2>4, <2>5, <3>3
    <3> QED
      BY <2>1, <2>2, <2>3, <2>4, <2>5, <3>5, <3>6 DEF Conserved
  <2>6. CASE /\ UNCHANGED <<written, lost>>
             /\ Len(Waiting') = Len(Waiting) + 1 /\ Waiting'[Len(Waiting) + 1] = Line(p)
             /\ \A j \in 1..Len(Waiting) : Waiting'[j] = Waiting[j]
    <3>1. A' = A /\ B' = B \cup {Line(p)}
      BY <1>1, <2>6
    <3>2. A' \cup B' = HandedOver' \ lost'
      BY <2>1, <2>3, <2>4, <2>6, <3>1
    <3>3. Len(written') + Len(Waiting') + Cardinality(lost') = Cardinality(HandedOver')
      BY <1>1, <2>2, <2>3, <2>4, <2>6
    <3> QED
      BY <2>1, <2>2, <2>3, <2>4, <2>6, <3>2, <3>3 DEF Conserved
  <2>7. CASE UNCHANGED written /\ Waiting' = Waiting /\ lost' = lost \cup {Line(p)}
    <3>1. A' = A /\ B' = B
      BY <2>7
    <3>2. A' \cup B' = HandedOver' \ lost'
      BY <2>1, <2>4, <2>7, <3>1
    <3>3. Len(written') + Len(Waiting') + Cardinality(lost') = Cardinality(HandedOver')
      BY <1>1, <2>2, <2>3, <2>4, <2>7
    <3> QED
      BY <2>1, <2>2, <2>3, <2>4, <2>7, <3>2, <3>3 DEF Conserved
  <2> QED
    BY <1>4, <2>5, <2>6, <2>7 DEF HandOver
<1> QED
  BY <1>2, <1>3, <1>4, LogSteps

LEMMA ConservedInit == Init => Conserved
<1> SUFFICES ASSUME Init PROVE Conserved
  OBVIOUS
<1>1. HandedOver = {} /\ lost = {} /\ written = <<>>
  BY BoundAssumption DEF Init, HandedOver
<1>2. Waiting = <<>>
  BY ThreadAssumption DEF Init, Q!Init, Waiting
<1> QED
  BY <1>1, <1>2, FS_EmptySet DEF Conserved

THEOREM ConservedAlways == Spec => []Conserved
BY ConservedInit, ConservedNext, TypeAlways, PTL DEF Spec

-----------------------------------------------------------------------------
(* The order of a thread's lines                                           *)

LEMMA OrderedNext == TypeOK /\ Conserved /\ Ordered /\ [Next]_vars => Ordered'
<1> SUFFICES ASSUME TypeOK, Conserved, Ordered, [Next]_vars PROVE Ordered'
  OBVIOUS
<1> DEFINE a == Len(written)
           b == Len(Waiting)
<1>1. /\ a \in Nat /\ b \in Nat
      /\ \A i \in 1..a : written[i].line \in HandedOver
      /\ \A j \in 1..b : Waiting[j] \in HandedOver /\ Waiting[j] \in LineOf
  BY WrittenType, WaitingType DEF WaitingIs, Conserved
<1>2. /\ \A i, j \in 1..b : i < j => Older(Waiting[i], Waiting[j])
      /\ \A i \in 1..a, j \in 1..b :
           Older(written[i].line, Waiting[j]) \/ written[i].way = "direct"
      /\ \A i, j \in 1..a :
           i < j => \/ Older(written[i].line, written[j].line)
                    \/ written[i].way = "direct" /\ written[j].way = "queued"
  BY DEF Ordered
<1>3. CASE Keep
  BY <1>3 DEF Keep, Ordered
<1>4. CASE Drain
  <2>1. PICK e : e = [line |-> Waiting[1], way |-> "queued"]
    OBVIOUS
  <2>2. e \in Entry /\ e.line = Waiting[1] /\ e.way = "queued" /\ b > 0
    BY <1>1, <1>4, <2>1 DEF Drain, Entry
  <2>3. /\ Len(written') = a + 1 /\ written'[a + 1] = e
        /\ \A i \in 1..a : written'[i] = written[i]
    BY <1>4, <2>1, <2>2, AppendWritten DEF Drain
  <2>4. /\ Len(Waiting') = b - 1
        /\ \A j \in 1..(b - 1) : Waiting'[j] = Waiting[j + 1] /\ j + 1 \in 1..b /\ 1 < j + 1
    BY <1>1, <1>4, <2>2 DEF Drain
  <2> HIDE DEF a, b
  <2>5. \A i, j \in 1..Len(Waiting') : i < j => Older(Waiting'[i], Waiting'[j])
    BY <1>1, <1>2, <2>2, <2>4
  <2>6. \A i \in 1..Len(written'), j \in 1..Len(Waiting') :
          Older(written'[i].line, Waiting'[j]) \/ written'[i].way = "direct"
    <3> SUFFICES ASSUME NEW i \in 1..(a + 1), NEW j \in 1..(b - 1)
                 PROVE  Older(written'[i].line, Waiting'[j]) \/ written'[i].way = "direct"
      BY <2>3, <2>4
    <3>1. CASE i \in 1..a
      BY <1>2, <2>3, <2>4, <3>1
    <3>2. CASE i = a + 1
      BY <1>1, <1>2, <2>2, <2>3, <2>4, <3>2
    <3> QED
      BY <1>1, <3>1, <3>2
  <2>7. \A i, j \in 1..Len(written') :
          i < j => \/ Older(written'[i].line, written'[j].line)
                   \/ written'[i].way = "direct" /\ written'[j].way = "queued"
    <3> SUFFICES ASSUME NEW i \in 1..a, NEW j \in 1..(a + 1), i < j
                 PROVE  \/ Older(written'[i].line, written'[j].line)
                        \/ written'[i].way = "direct" /\ written'[j].way = "queued"
      BY <1>1, <2>3
    <3>1. CASE j \in 1..a
      BY <1>2, <2>3, <3>1
    <3>2. CASE j = a + 1
      BY <1>1, <1>2, <2>2, <2>3, <3>2
    <3> QED
      BY <1>1, <3>1, <3>2
  <2> QED
    BY <2>5, <2>6, <2>7 DEF Ordered
<1>5. ASSUME NEW p \in Producer, pc[p] \in {"push", "direct"}, HandOver(p) PROVE Ordered'
  <2>1. \A l \in HandedOver : Older(l, Line(p))
    <3>1. \A l \in HandedOver : l.by = p => l.no < no[p]
      BY <1>5, AtHandOver
    <3>2. Line(p).by = p /\ Line(p).no = no[p] /\ no[p] \in Nat
      BY LineType, BoundAssumption DEF TypeOK
    <3>3. \A l \in HandedOver : l.no \in Nat
      BY DEF HandedOver
    <3> QED
      BY <3>1, <3>2, <3>3 DEF Older
  <2>2. CASE /\ UNCHANGED lost /\ Waiting' = Waiting
             /\ written' = Append(written, [line |-> Line(p), way |-> "direct"])
    <3>1. PICK e : e = [line |-> Line(p), way |-> "direct"]
      OBVIOUS
    <3>2. e \in Entry /\ e.line = Line(p) /\ e.way = "direct"
      BY <3>1, LineType DEF Entry
    <3>3. /\ Len(written') = a + 1 /\ written'[a + 1] = e
          /\ \A i \in 1..a : written'[i] = written[i]
      BY <2>2, <3>1, <3>2, AppendWritten
    <3> HIDE DEF a, b
    <3>4. \A i \in 1..(a + 1) : i \in 1..a \/ i = a + 1
      BY <1>1
    <3>5. \A i \in 1..(a + 1), j \in 1..b :
            Older(written'[i].line, Waiting'[j]) \/ written'[i].way = "direct"
      BY <1>2, <2>2, <3>2, <3>3, <3>4
    <3>6. \A i, j \in 1..(a + 1) :
            i < j => \/ Older(written'[i].line, written'[j].line)
                     \/ written'[i].way = "direct" /\ written'[j].way = "queued"
      <4> SUFFICES ASSUME NEW i \in 1..a, NEW j \in 1..(a + 1), i < j
                   PROVE  \/ Older(written'[i].line, written'[j].line)
                          \/ written'[i].way = "direct" /\ written'[j].way = "queued"
        BY <1>1
      <4>1. CASE j \in 1..a
        BY <1>2, <3>3, <4>1
      <4>2. CASE j = a + 1
        BY <1>1, <2>1, <3>2, <3>3, <4>2
      <4> QED
        BY <3>4, <4>1, <4>2
    <3> QED
      BY <1>2, <2>2, <3>3, <3>5, <3>6 DEF Ordered, b
  <2>3. CASE /\ UNCHANGED <<written, lost>>
             /\ Len(Waiting') = b + 1 /\ Waiting'[b + 1] = Line(p)
             /\ \A j \in 1..b : Waiting'[j] = Waiting[j]
    <3> HIDE DEF b
    <3>1. \A j \in 1..(b + 1) : j \in 1..b \/ j = b + 1
      BY <1>1
    <3>2. \A i \in 1..a, j \in 1..(b + 1) :
            Older(written'[i].line, Waiting'[j]) \/ written'[i].way = "direct"
      BY <1>1, <1>2, <2>1, <2>3, <3>1
    <3>3. \A i, j \in 1..(b + 1) : i < j => Older(Waiting'[i], Waiting'[j])
      <4> SUFFICES ASSUME NEW i \in 1..b, NEW j \in 1..(b + 1), i < j
                   PROVE  Older(Waiting'[i], Waiting'[j])
        BY <1>1
      <4>1. CASE j \in 1..b
        BY <1>2, <2>3, <4>1
      <4>2. CASE j = b + 1
        BY <1>1, <2>1, <2>3, <4>2
      <4> QED
        BY <3>1, <4>1, <4>2
    <3> QED
      BY <1>2, <2>3, <3>2, <3>3 DEF Ordered
  <2>4. CASE UNCHANGED written /\ Waiting' = Waiting
    BY <2>4 DEF Ordered
  <2> QED
    BY <1>5, <2>2, <2>3, <2>4 DEF HandOver
<1> QED
  BY <1>3, <1>4, <1>5, LogSteps

LEMMA OrderedInit == Init => Ordered
<1> SUFFICES ASSUME Init PROVE Ordered
  OBVIOUS
<1>1. written = <<>> /\ Waiting = <<>>
  BY ThreadAssumption DEF Init, Q!Init, Waiting
<1> QED
  BY <1>1, EmptySeq DEF Ordered

THEOREM OrderedAlways == Spec => []Ordered
BY OrderedInit, OrderedNext, ConservedAlways, TypeAlways, PTL DEF Spec

-----------------------------------------------------------------------------
(* The invariants of the runs                                              *)

LEMMA QueuedType ==
  ASSUME NEW q \in Seq(LineOf)
  PROVE  /\ Queued(q) \in Seq(Entry) /\ Len(Queued(q)) = Len(q)
         /\ \A i \in 1..Len(q) : Queued(q)[i].line = q[i] /\ Queued(q)[i].way = "queued"
<1>1. Len(q) \in Nat /\ \A i \in 1..Len(q) : q[i] \in LineOf
  BY SeqOps
<1>2. \A i \in 1..Len(q) : [line |-> q[i], way |-> "queued"] \in Entry
  BY <1>1 DEF Entry
<1>3. Queued(q) \in [1..Len(q) -> Entry]
  BY <1>2 DEF Queued
<1>4. Queued(q) \in Seq(Entry)
  BY <1>1, <1>3, SeqDef
<1>5. Len(Queued(q)) = Len(q)
  BY <1>1, <1>3, <1>4, LenProperties
<1> QED
  BY <1>4, <1>5 DEF Queued

LEMMA Concat ==
  ASSUME NEW s \in Seq(Entry), NEW t \in Seq(Entry), NEW u, u = s \o t
  PROVE  /\ u \in Seq(Entry) /\ Len(u) = Len(s) + Len(t)
         /\ \A i \in 1..Len(s) + Len(t) :
              u[i] = IF i <= Len(s) THEN s[i] ELSE t[i - Len(s)]
<1>1. /\ s \o t \in Seq(Entry) /\ Len(s \o t) = Len(s) + Len(t)
      /\ \A i \in 1..Len(s) + Len(t) :
           (s \o t)[i] = IF i <= Len(s) THEN s[i] ELSE t[i - Len(s)]
  BY ConcatProperties
<1> QED
  BY <1>1

\* Pipe is what was written, then what waits.
LEMMA PipeIs ==
  ASSUME TypeOK
  PROVE  /\ Pipe \in Seq(Entry) /\ Len(Pipe) = Len(written) + Len(Waiting)
         /\ \A i \in 1..Len(written) : Pipe[i] = written[i]
         /\ \A j \in 1..Len(Waiting) : /\ Pipe[Len(written) + j].line = Waiting[j]
                                       /\ Pipe[Len(written) + j].way = "queued"
<1> DEFINE h == IF pc[Writer] = "write" THEN <<got[Writer]>> ELSE <<>>
<1>1. /\ written \in Seq(Entry) /\ Len(written) \in Nat
      /\ queue \in Seq(LineOf) /\ Len(queue) \in Nat
  BY WrittenType, SeqOps DEF TypeOK
<1>2. /\ h \in Seq(LineOf) /\ Len(h) = (IF pc[Writer] = "write" THEN 1 ELSE 0)
      /\ pc[Writer] = "write" => h[1] = got[Writer]
  BY LineType
<1>3. Pipe = (written \o Queued(h)) \o Queued(queue)
  BY DEF Pipe
<1> HIDE DEF h
<1>4. PICK x, y : x = Queued(h) /\ y = Queued(queue)
  OBVIOUS
<1>5. x \in Seq(Entry) /\ y \in Seq(Entry) /\ Len(x) = Len(h) /\ Len(y) = Len(queue)
  BY <1>1, <1>2, <1>4, QueuedType
<1>6. /\ \A i \in 1..Len(h) : x[i].line = h[i] /\ x[i].way = "queued"
      /\ \A i \in 1..Len(queue) : y[i].line = queue[i] /\ y[i].way = "queued"
  BY <1>1, <1>2, <1>4, QueuedType
<1>7. PICK z : z = written \o x
  OBVIOUS
<1>8. /\ z \in Seq(Entry) /\ Len(z) = Len(written) + Len(x)
      /\ \A i \in 1..Len(written) + Len(x) :
           z[i] = IF i <= Len(written) THEN written[i] ELSE x[i - Len(written)]
  BY <1>1, <1>5, <1>7, Concat
<1>9. /\ Pipe \in Seq(Entry) /\ Len(Pipe) = Len(z) + Len(y)
      /\ \A i \in 1..Len(z) + Len(y) : Pipe[i] = IF i <= Len(z) THEN z[i] ELSE y[i - Len(z)]
  <2>1. PICK u : u = z \o y
    OBVIOUS
  <2>2. Pipe = u
    BY <1>3, <1>4, <1>7, <2>1
  <2>3. /\ u \in Seq(Entry) /\ Len(u) = Len(z) + Len(y)
        /\ \A i \in 1..Len(z) + Len(y) : u[i] = IF i <= Len(z) THEN z[i] ELSE y[i - Len(z)]
    BY <1>5, <1>8, <2>1, Concat
  <2> QED
    BY <2>2, <2>3
<1>10. Len(h) \in Nat /\ Len(Waiting) = Len(h) + Len(queue)
  BY <1>1, <1>2, WaitingType DEF WaitingIs
<1>11. \A i \in 1..Len(written) : Pipe[i] = written[i]
  BY <1>1, <1>5, <1>8, <1>9, <1>10
<1>12. ASSUME NEW j \in 1..Len(Waiting)
       PROVE  Pipe[Len(written) + j].line = Waiting[j] /\ Pipe[Len(written) + j].way = "queued"
  <2>1. CASE j \in 1..Len(h)
    <3>1. pc[Writer] = "write" /\ j = 1 /\ Waiting[j] = h[j]
      BY <1>1, <1>2, <2>1, WaitingType DEF WaitingIs
    <3>2. Pipe[Len(written) + j] = z[Len(written) + j] /\ z[Len(written) + j] = x[j]
      BY <1>1, <1>5, <1>8, <1>9, <1>10, <2>1
    <3> QED
      BY <1>6, <2>1, <3>1, <3>2
  <2>2. CASE j \notin 1..Len(h)
    <3>1. PICK k \in 1..Len(queue) : j = Len(h) + k
      <4>1. j - Len(h) \in 1..Len(queue) /\ j = Len(h) + (j - Len(h))
        BY <1>1, <1>10, <2>2
      <4> QED
        BY <4>1
    <3>2. Waiting[j] = queue[k]
      BY <1>1, <1>2, <3>1, WaitingType DEF WaitingIs
    <3>3. Pipe[Len(written) + j] = y[k]
      BY <1>1, <1>5, <1>8, <1>9, <1>10, <3>1
    <3> QED
      BY <1>6, <3>2, <3>3
  <2> QED
    BY <2>1, <2>2
<1>13. Len(Pipe) = Len(written) + Len(Waiting)
  BY <1>1, <1>5, <1>8, <1>9, <1>10
<1> QED
  BY <1>9, <1>11, <1>12, <1>13

\* Every line handed over is in exactly one place, once: in a file, in the writer's
\* hands, in the queue, or lost (log.cpp:157-166, log.h:41-46).
THEOREM LinesAlwaysConserved == Spec => []LinesConserved
<1>1. TypeOK /\ Conserved => LinesConserved
  <2> SUFFICES ASSUME TypeOK, Conserved PROVE LinesConserved
    OBVIOUS
  <2> DEFINE In(l) == {i \in DOMAIN Pipe : Pipe[i].line = l}
             a == Len(written)
             b == Len(Waiting)
  <2>1. a \in Nat /\ b \in Nat /\ Len(Pipe) = a + b /\ DOMAIN Pipe = 1..(a + b)
    BY WrittenType, WaitingType, PipeIs, LenProperties DEF WaitingIs
  <2>2. /\ \A i \in 1..a : Pipe[i].line = written[i].line
        /\ \A j \in 1..b : Pipe[a + j].line = Waiting[j] /\ a + j \in 1..(a + b)
    BY <2>1, PipeIs
  <2>3. \A i \in 1..(a + b) : i \in 1..a \/ (i - a \in 1..b /\ a + (i - a) = i)
    BY <2>1
  <2>4. {written[i].line : i \in 1..a} \cup {Waiting[j] : j \in 1..b} = HandedOver \ lost
    BY DEF Conserved
  <2>5. ASSUME NEW l \in HandedOver PROVE IF l \in lost THEN In(l) = {} ELSE In(l) # {}
    <3>1. CASE l \in lost
      <4>1. ASSUME NEW i \in 1..(a + b) PROVE Pipe[i].line # l
        <5>1. CASE i \in 1..a
          BY <2>2, <2>4, <3>1, <5>1
        <5>2. CASE i - a \in 1..b /\ a + (i - a) = i
          <6>1. Pipe[i].line = Waiting[i - a]
            BY <2>2, <5>2
          <6> QED
            BY <2>4, <3>1, <5>2, <6>1
        <5> QED
          BY <2>3, <5>1, <5>2
      <4> QED
        BY <2>1, <3>1, <4>1
    <3>2. CASE l \notin lost
      <4>1. (\E i \in 1..a : written[i].line = l) \/ (\E j \in 1..b : Waiting[j] = l)
        BY <2>4, <3>2
      <4>2. CASE \E i \in 1..a : written[i].line = l
        <5>1. PICK i \in 1..a : written[i].line = l
          BY <4>2
        <5>2. i \in 1..(a + b) /\ Pipe[i].line = l
          BY <2>1, <2>2, <5>1
        <5> QED
          BY <2>1, <3>2, <5>2
      <4>3. CASE \E j \in 1..b : Waiting[j] = l
        <5>1. PICK j \in 1..b : Waiting[j] = l
          BY <4>3
        <5>2. a + j \in 1..(a + b) /\ Pipe[a + j].line = l
          BY <2>2, <5>1
        <5> QED
          BY <2>1, <3>2, <5>2
      <4> QED
        BY <4>1, <4>2, <4>3
    <3> QED
      BY <3>1, <3>2
  <2>6. Len(Pipe) + Cardinality(lost) = Cardinality(HandedOver)
    BY <2>1 DEF Conserved
  <2> HIDE DEF a, b
  <2> QED
    BY <2>5, <2>6 DEF LinesConserved
<1> QED
  BY <1>1, ConservedAlways, TypeAlways, PTL

\* The files keep the order of each thread's lines, but for a line written directly,
\* which may pass older ones that wait (log.cpp:157-166).
THEOREM OrderAlwaysKept == Spec => []OrderKept
<1>1. TypeOK /\ Ordered => OrderKept
  <2> SUFFICES ASSUME TypeOK, Ordered, NEW i \in DOMAIN Pipe, NEW j \in DOMAIN Pipe, i < j,
                      Pipe[i].line.by = Pipe[j].line.by, Pipe[i].line.no > Pipe[j].line.no
               PROVE  Pipe[i].way = "direct" /\ Pipe[j].way = "queued"
    BY DEF OrderKept
  <2> DEFINE a == Len(written)
             b == Len(Waiting)
  <2>1. a \in Nat /\ b \in Nat /\ DOMAIN Pipe = 1..(a + b)
    BY WrittenType, WaitingType, PipeIs, LenProperties DEF WaitingIs
  <2>2. /\ \A k \in 1..a : Pipe[k] = written[k]
        /\ \A k \in 1..b : Pipe[a + k].line = Waiting[k] /\ Pipe[a + k].way = "queued"
    BY <2>1, PipeIs
  <2>3. \A k \in 1..(a + b) : k \in 1..a \/ (k - a \in 1..b /\ a + (k - a) = k)
    BY <2>1
  <2>4. /\ \A k, l \in 1..b : k < l => Older(Waiting[k], Waiting[l])
        /\ \A k \in 1..a, l \in 1..b :
             Older(written[k].line, Waiting[l]) \/ written[k].way = "direct"
        /\ \A k, l \in 1..a :
             k < l => \/ Older(written[k].line, written[l].line)
                      \/ written[k].way = "direct" /\ written[l].way = "queued"
    BY DEF Ordered
  <2>5. ~Older(Pipe[i].line, Pipe[j].line)
    <3>1. Pipe[i] \in Entry /\ Pipe[j] \in Entry
      BY <2>1, PipeIs, SeqOps
    <3>2. Pipe[i].line.no \in Nat /\ Pipe[j].line.no \in Nat
      BY <3>1 DEF Entry, LineOf
    <3> QED
      BY <3>2 DEF Older
  <2> HIDE DEF a, b
  <2>6. CASE i \in 1..a /\ j \in 1..a
    BY <2>2, <2>4, <2>5, <2>6
  <2>7. CASE i \in 1..a /\ j \notin 1..a
    <3>1. j - a \in 1..b /\ a + (j - a) = j
      BY <2>1, <2>3, <2>7
    <3>2. Pipe[j].line = Waiting[j - a] /\ Pipe[j].way = "queued"
      BY <2>2, <3>1
    <3> QED
      BY <2>2, <2>4, <2>5, <2>7, <3>1, <3>2
  <2>8. CASE i \notin 1..a
    <3>1. /\ i - a \in 1..b /\ a + (i - a) = i /\ j - a \in 1..b /\ a + (j - a) = j
          /\ i - a < j - a
      BY <2>1, <2>3, <2>8
    <3>2. Pipe[i].line = Waiting[i - a] /\ Pipe[j].line = Waiting[j - a]
      BY <2>2, <3>1
    <3> QED
      BY <2>4, <2>5, <3>1, <3>2
  <2> QED
    BY <2>6, <2>7, <2>8
<1> QED
  BY <1>1, OrderedAlways, TypeAlways, PTL

-----------------------------------------------------------------------------
(* The use of the queue                                                    *)

\* The log uses block_queue only through the calls that Fifo allows: whatever the
\* ring promises as a Fifo, it keeps here.
THEOREM QueueUsedAsFifo == Spec => Q!Spec
<1>1. Init => Q!Init
  BY DEF Init
<1>2. TypeOK /\ [Next]_vars => [Q!Next]_(Q!vars)
  <2> SUFFICES ASSUME TypeOK, [Next]_vars PROVE Q!Next \/ UNCHANGED queueVars
    BY DEF Q!vars, queueVars
  <2>1. ASSUME NEW p \in Producer, Push(p) PROVE Q!Next
    BY <2>1, LineType DEF Push, Q!Next, LineOf
  <2>2. ASSUME NEW p \in Producer, Check(p) PROVE Q!Next \/ UNCHANGED queueVars
    BY <2>2 DEF Check, Q!Next
  <2>3. CASE Pop
    BY <2>3 DEF Pop, Q!Next
  <2>4. ASSUME NEW p \in Producer, Log(p), ~Push(p), ~Check(p) PROVE UNCHANGED queueVars
    BY <2>4 DEF Log, ReadClock, LocalTime, CopyTime, Count, Direct, flush
  <2>5. CASE Midnight \/ Write \/ UNCHANGED vars
    BY <2>5 DEF Midnight, Write, vars
  <2> QED
    BY <2>1, <2>2, <2>3, <2>4, <2>5 DEF Next, async_write_log
<1> QED
  BY <1>1, <1>2, TypeAlways, PTL DEF Spec, Q!Spec
=============================================================================
