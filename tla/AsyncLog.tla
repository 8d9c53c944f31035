------------------------------- MODULE AsyncLog -------------------------------
(***************************************************************************)
(* Log (log/log.cpp, log/log.h): threads that log (LOG_INFO and its kind   *)
(* call write_log and then flush), the writer thread of the asynchronous   *)
(* mode, and the change of file at midnight or after m_split_lines lines.  *)
(* block_queue is used by its promise, module Fifo.  A line is known by    *)
(* its thread and its number; the text of a line is left out.              *)
(***************************************************************************)
EXTENDS Integers, Sequences, FiniteSets

CONSTANTS
  Producer,
  Writer,            \* the thread created by init
  NoLine,
  m_split_lines, max_queue_size,
  MaxLines,          \* bound: lines per producer
  MaxDay             \* bound: the clock stops on that day

ASSUME SplitAssumption == m_split_lines \in Nat \ {0}
ASSUME QueueAssumption == max_queue_size \in Nat
ASSUME BoundAssumption == MaxLines \in Nat
ASSUME ThreadAssumption == Writer \notin Producer

VARIABLES
  today,             \* the clock
  tm,                \* localtime's static result, shared by all threads
  m_is_async, m_today, m_count, m_fp,
  queue, ok, got,    \* block_queue, with what its calls returned to each thread
  pc, day, no,       \* per thread: place, the day it read, lines begun
  written,           \* every fputs so far, in order, and who did it
  flushed,           \* how many of them have left the stdio buffer
  lost,              \* lines dropped by a push into a full queue
  raced              \* producers overtaken by a push since they called full()

Q == INSTANCE Fifo WITH Thread <- Producer \cup {Writer}, NoItem <- NoLine,
       Item <- [by : Producer, no : Nat], m_max_size <- max_queue_size

queueVars == <<queue, ok, got>>
fileVars  == <<m_today, m_count, m_fp>>
vars == <<today, tm, m_is_async, fileVars, queueVars, pc, day, no, written, flushed,
          lost, raced>>

Line(p) == [by |-> p, no |-> no[p]]
Goto(t, l) == pc' = [pc EXCEPT ![t] = l]

Init ==
  /\ today = 1 /\ tm = 1 /\ m_is_async \in BOOLEAN
  /\ m_today = 1 /\ m_count = 0 /\ m_fp = [day |-> 1, part |-> 0]
  /\ Q!Init
  /\ pc = [t \in Producer \cup {Writer} |-> IF t = Writer THEN "pop" ELSE "out"]
  /\ day = [p \in Producer |-> 1] /\ no = [p \in Producer |-> 0]
  /\ written = <<>> /\ flushed = 0 /\ lost = {} /\ raced = {}

Midnight ==
  /\ today < MaxDay /\ today' = today + 1
  /\ UNCHANGED <<tm, m_is_async, fileVars, queueVars, pc, day, no, written, flushed,
                 lost, raced>>

-----------------------------------------------------------------------------
\* The day of a line: gettimeofday, then localtime, then the copy of *sys_tm.
\* The last two race with the localtime of other threads.
ReadClock(p) ==
  /\ pc[p] = "out" /\ no[p] < MaxLines /\ Goto(p, "localtime")
  /\ no' = [no EXCEPT ![p] = @ + 1] /\ day' = [day EXCEPT ![p] = today]
  /\ UNCHANGED <<today, tm, m_is_async, fileVars, queueVars, written, flushed, lost, raced>>

LocalTime(p) ==
  /\ pc[p] = "localtime" /\ Goto(p, "copy") /\ tm' = day[p]
  /\ UNCHANGED <<today, m_is_async, fileVars, queueVars, day, no, written, flushed,
                 lost, raced>>

CopyTime(p) ==
  /\ pc[p] = "copy" /\ Goto(p, "count") /\ day' = [day EXCEPT ![p] = tm]
  /\ UNCHANGED <<today, tm, m_is_async, fileVars, queueVars, no, written, flushed,
                 lost, raced>>

\* Count the line and change the file if it is due.  A change flushes and closes
\* the old file.
NewDay_mut(d)  == m_today' = d /\ m_fp' = [day |-> d, part |-> 0] /\ m_count' = m_count + 1
NewDay(d)  == m_today' = d /\ m_fp' = [day |-> d, part |-> 0] /\ m_count' = 0
NewPart(d) == /\ m_count' = m_count + 1 /\ UNCHANGED m_today
              /\ m_fp' = [day |-> d, part |-> (m_count + 1) \div m_split_lines]

Count(p) ==
  /\ pc[p] = "count" /\ Goto(p, "check")
  /\ \/ day[p] # m_today /\ NewDay(day[p]) /\ flushed' = Len(written)
     \/ /\ day[p] = m_today /\ (m_count + 1) % m_split_lines = 0
        /\ NewPart(day[p]) /\ flushed' = Len(written)
     \/ /\ day[p] = m_today /\ (m_count + 1) % m_split_lines # 0
        /\ m_count' = m_count + 1 /\ UNCHANGED <<m_today, m_fp, flushed>>
  /\ UNCHANGED <<today, tm, m_is_async, queueVars, day, no, written, lost, raced>>

-----------------------------------------------------------------------------
\* m_is_async && !m_log_queue->full()
Check_mut(p) ==   \* > instead of >=
  /\ pc[p] = "check" /\ raced' = raced \ {p}
  /\ \/ m_is_async /\ Len(queue) <= max_queue_size /\ Goto(p, "push")
     \/ ~(m_is_async /\ Len(queue) <= max_queue_size) /\ Goto(p, "direct")
  /\ UNCHANGED <<today, tm, m_is_async, fileVars, queueVars, day, no, written, flushed, lost>>

Check(p) ==
  /\ pc[p] = "check" /\ raced' = raced \ {p}
  /\ \/ m_is_async /\ Q!full(p) /\ Goto(p, IF ok'[p] THEN "direct" ELSE "push")
     \/ ~m_is_async /\ Goto(p, "direct") /\ UNCHANGED queueVars
  /\ UNCHANGED <<today, tm, m_is_async, fileVars, day, no, written, flushed, lost>>

\* the result of push is not tested
Push(p) ==
  /\ pc[p] = "push" /\ Q!push(p, Line(p)) /\ Goto(p, "flush")
  /\ lost' = IF ok'[p] THEN lost ELSE lost \cup {Line(p)}
  /\ raced' = raced \cup {q \in Producer \ {p} : pc[q] = "push"}
  /\ UNCHANGED <<today, tm, m_is_async, fileVars, day, no, written, flushed>>

fputs(line, way) == written' = Append(written, [line |-> line, way |-> way])

Direct(p) ==
  /\ pc[p] = "direct" /\ fputs(Line(p), "direct") /\ Goto(p, "flush")
  /\ UNCHANGED <<today, tm, m_is_async, fileVars, queueVars, day, no, flushed, lost, raced>>

flush_mut(p) ==   \* nothing is flushed
  /\ pc[p] = "flush" /\ Goto(p, "out")
  /\ UNCHANGED <<today, tm, m_is_async, fileVars, queueVars, day, no, written, flushed,
                 lost, raced>>

flush(p) ==
  /\ pc[p] = "flush" /\ Goto(p, "out") /\ flushed' = Len(written)
  /\ UNCHANGED <<today, tm, m_is_async, fileVars, queueVars, day, no, written, lost, raced>>

-----------------------------------------------------------------------------
\* async_write_log
Pop_mut ==   \* a read of the head that leaves it in the queue
  /\ m_is_async /\ pc[Writer] = "pop" /\ queue # <<>> /\ Goto(Writer, "write")
  /\ got' = [got EXCEPT ![Writer] = Head(queue)]
  /\ UNCHANGED <<today, tm, m_is_async, fileVars, queue, ok, day, no, written, flushed,
                 lost, raced>>

Pop_end_mut ==   \* pop returns false on an empty queue, and the loop ends
  \/ /\ m_is_async /\ pc[Writer] = "pop" /\ queue = <<>> /\ Goto(Writer, "ended")
     /\ UNCHANGED <<today, tm, m_is_async, fileVars, queueVars, day, no, written, flushed,
                    lost, raced>>
  \/ /\ m_is_async /\ pc[Writer] = "pop" /\ Q!pop(Writer) /\ Goto(Writer, "write")
     /\ UNCHANGED <<today, tm, m_is_async, fileVars, day, no, written, flushed, lost, raced>>

Pop ==
  /\ m_is_async /\ pc[Writer] = "pop" /\ Q!pop(Writer) /\ Goto(Writer, "write")
  /\ UNCHANGED <<today, tm, m_is_async, fileVars, day, no, written, flushed, lost, raced>>

Write ==
  /\ pc[Writer] = "write" /\ fputs(got[Writer], "queued") /\ Goto(Writer, "pop")
  /\ UNCHANGED <<today, tm, m_is_async, fileVars, queueVars, day, no, flushed, lost, raced>>

Log(p) == \/ ReadClock(p) \/ LocalTime(p) \/ CopyTime(p) \/ Count(p)
          \/ Check(p) \/ Push(p) \/ Direct(p) \/ flush(p)

async_write_log == Pop \/ Write

Next == Midnight \/ async_write_log \/ \E p \in Producer : Log(p)

Spec == Init /\ [][Next]_vars

\* Every thread that can run is scheduled again; a call once begun goes on.
FairSpec == /\ Spec /\ WF_vars(async_write_log)
            /\ \A p \in Producer : WF_vars(pc[p] # "out" /\ Log(p))

-----------------------------------------------------------------------------
\* What has gone through, is in or waits before the writer's hands, oldest first.
Queued(q) == [i \in 1..Len(q) |-> [line |-> q[i], way |-> "queued"]]
Pipe == written \o Queued(IF pc[Writer] = "write" THEN <<got[Writer]>> ELSE <<>>) \o Queued(queue)

HandedOver == {l \in [by : Producer, no : 1..MaxLines] :
                 l.no < no[l.by] \/ (l.no = no[l.by] /\ pc[l.by] \in {"flush", "out"})}

\* Every line handed over is in exactly one place, once: in a file, in the
\* writer's hands, in the queue, or lost (log.cpp:157-166, log.h:41-46).
LinesConserved ==
  LET In(l) == {i \in DOMAIN Pipe : Pipe[i].line = l}
  IN  /\ Len(Pipe) + Cardinality(lost) = Cardinality(HandedOver)
      /\ \A l \in HandedOver : IF l \in lost THEN In(l) = {} ELSE In(l) # {}

\* The files keep the order of each thread's lines, but for a line written
\* directly, which may pass older ones that wait (log.cpp:157-166).
OrderKept ==
  \A i, j \in DOMAIN Pipe :
    i < j /\ Pipe[i].line.by = Pipe[j].line.by /\ Pipe[i].line.no > Pipe[j].line.no
      => Pipe[i].way = "direct" /\ Pipe[j].way = "queued"

\* A line is lost only when another thread filled the queue between the full()
\* and the push of its own thread (log.cpp:157-159).
LossNeedsRace ==
  [][lost' # lost => \E p \in raced : lost' = lost \cup {Line(p)} /\ pc[p] = "push"]_vars

\* The open file is the one of m_today and of the lines counted since its start,
\* whatever order stale days arrive in (log.cpp:111-137).
FileMatchesCount == m_fp = [day |-> m_today, part |-> m_count \div m_split_lines]

\* A line written directly has left the stdio buffer when its LOG call is over,
\* other threads' changes of file included ("执行写日志并刷回硬盘", log.md:15).
DirectOnDisk ==
  \A i \in DOMAIN written :
    i > flushed /\ written[i].way = "direct"
      => Line(written[i].line.by) = written[i].line /\ pc[written[i].line.by] = "flush"

\* Every line begun ends in a file or is lost.
Settles == \A l \in [by : Producer, no : 1..MaxLines] :
  no[l.by] >= l.no ~> (l \in lost \/ \E i \in DOMAIN written : written[i].line = l)
===============================================================================
