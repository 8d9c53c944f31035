-------------------------- MODULE HttpConn_proofs --------------------------
(***************************************************************************)
(* One connection object for any requests, any cuts of them and of the     *)
(* responses, any sizes and any number of clients: it is never deaf, loses *)
(* a mapping only with a response that was cut short, understands whole    *)
(* requests exactly, waits only when it has to, and sends what it answers  *)
(* in order.                                                               *)
(*                                                                         *)
(* The loop of process_read is a recursive function.  That there is one,   *)
(* and that it keeps what every turn keeps, is proved from the number of   *)
(* units still to be looked through, which every turn but the last makes   *)
(* smaller (LoopExists, LoopKeeps, ReadKeeps).                             *)
(***************************************************************************)
EXTENDS HttpConn, SequenceTheorems, WellFoundedInduction, TLAPS

-----------------------------------------------------------------------------
(* Events                                                                  *)

\* An edge-triggered descriptor that waits for input still has the edge of the data
\* nobody has read.
EarInv ==
  /\ epoll \in [ev : {"none", "in", "out", "off"}, et : BOOLEAN]
  /\ pc = "epoll" => epoll.ev \in {"in", "out"}
  /\ pc = "epoll" /\ epoll.ev = "in" /\ epoll.et /\ inbox # <<>> => edge

\* modfd looks at the descriptor once more, so data that came before it counts.
LEMMA ArmedHears ==
  ASSUME NEW ev \in {"in", "out"}, modfd(ev), inbox' = inbox
  PROVE  EarInv'
<1>1. epoll' = [ev |-> ev, et |-> m_TRIGMode = 1] /\ edge' = (inbox # <<>> \/ gone)
  BY DEF modfd
<1>2. epoll' \in [ev : {"none", "in", "out", "off"}, et : BOOLEAN] /\ epoll'.ev = ev
  BY <1>1
<1>3. inbox' # <<>> => edge'
  BY <1>1
<1> QED BY <1>2, <1>3 DEF EarInv

\* A descriptor a thread has, or none, need not hear.
LEMMA AwayHears ==
  ASSUME EarInv, pc' # "epoll",
         epoll' = epoll \/ epoll' = NotArmed \/ epoll' = [epoll EXCEPT !.ev = "off"]
  PROVE  EarInv'
<1>1. epoll' \in [ev : {"none", "in", "out", "off"}, et : BOOLEAN]
  <2>1. epoll \in [ev : {"none", "in", "out", "off"}, et : BOOLEAN]
    BY DEF EarInv
  <2>2. NotArmed \in [ev : {"none", "in", "out", "off"}, et : BOOLEAN]
    BY DEF NotArmed
  <2>3. [epoll EXCEPT !.ev = "off"] \in [ev : {"none", "in", "out", "off"}, et : BOOLEAN]
    BY <2>1
  <2>4. CASE epoll' = epoll
    BY <2>1, <2>4
  <2>5. CASE epoll' = NotArmed
    BY <2>2, <2>5
  <2>6. CASE epoll' = [epoll EXCEPT !.ev = "off"]
    BY <2>3, <2>6
  <2> QED BY <2>4, <2>5, <2>6
<1> QED BY <1>1 DEF EarInv

LEMMA ClosedHears == ASSUME EarInv, NEW why, Close(why) PROVE EarInv'
  BY AwayHears DEF Close

LEMMA AcceptHears == ASSUME Accept PROVE EarInv'
<1>1. PICK q \in Requests, n \in {0, 1} : inbox' = SubSeq(q, 1, n) /\ edge' = (n > 0)
  BY DEF Accept
<1>2. epoll' = [ev |-> "in", et |-> m_TRIGMode = 1] /\ pc' = "epoll"
  BY DEF Accept
<1>3. epoll' \in [ev : {"none", "in", "out", "off"}, et : BOOLEAN] /\ epoll'.ev = "in"
  BY <1>2
<1>4. inbox' # <<>> => edge'
  <2>1. CASE n = 0
    <3>1. SubSeq(q, 1, 0) = <<>>
      BY ConnAssumption
    <3> QED BY <1>1, <2>1, <3>1
  <2>2. CASE n = 1
    <3>1. (n > 0) = TRUE
      BY <2>2
    <3>2. edge' = TRUE
      BY <1>1, <3>1
    <3> QED BY <3>2
  <2> QED BY <2>1, <2>2
<1> QED BY <1>3, <1>4 DEF EarInv

LEMMA ProcessHears == ASSUME EarInv, process PROVE EarInv'
<1>1. CASE NeedsMore /\ inbox' = inbox
  BY <1>1, ArmedHears DEF NeedsMore
<1>2. ASSUME NEW ret, Answers(ret) PROVE EarInv'
  <2>1. CASE modfd("out") /\ UNCHANGED inbox
    BY <2>1, ArmedHears
  <2>2. CASE pc' = "closed" /\ epoll' = NotArmed
    BY <2>2, AwayHears
  <2> QED BY <1>2, <2>1, <2>2 DEF Answers
<1> QED BY <1>1, <1>2 DEF process

LEMMA EarInit == Init => EarInv
  BY DEF Init, EarInv, NotArmed

LEMMA EarNext == EarInv /\ [Next]_vars => EarInv'
<1> SUFFICES ASSUME EarInv, [Next]_vars PROVE EarInv'
  OBVIOUS
<1>1. CASE Send
  BY <1>1 DEF Send, EarInv
<1>2. CASE Drain \/ Again
  BY <1>2 DEF Drain, Again, EarInv
<1>3. CASE Hangup
  BY <1>3 DEF Hangup, EarInv
<1>4. CASE Accept
  BY <1>4, AcceptHears
<1>5. CASE Hup \/ Timeout \/ RecvFails \/ WritevFails
  BY <1>5, ClosedHears DEF Hup, Timeout, RecvFails, WritevFails
<1>6. CASE Report \/ Recv \/ RecvAgain
  BY <1>6, AwayHears DEF Report, Recv, RecvAgain, kernel
<1>7. CASE process
  BY <1>7, ProcessHears
<1>8. CASE Writev
  <2>1. \/ UNCHANGED <<pc, epoll>> /\ pc = "write"
        \/ modfd("in") /\ UNCHANGED inbox
        \/ pc' = "closed" /\ epoll' = NotArmed
    BY <1>8 DEF Writev
  <2> QED BY <2>1, ArmedHears, AwayHears
<1>9. CASE WritevAgain
  BY <1>9, ArmedHears DEF WritevAgain
<1>10. CASE UNCHANGED vars
  BY <1>10 DEF vars, EarInv
<1>11. CASE Rest
  BY <1>10, <1>11 DEF Rest
<1> QED BY <1>1, <1>2, <1>3, <1>4, <1>5, <1>6, <1>7, <1>8, <1>9, <1>10, <1>11
        DEF Next, Server

\* A connection nobody works on is armed, and data that waits on it is reported, in
\* either mode, whatever mode it was registered in and whenever the data came.  Here and
\* below the timer closes a connection only while nobody works on it (Timeout).
THEOREM NeverIsDeaf == Spec => []NeverDeaf
<1>1. EarInv => NeverDeaf
  BY DEF EarInv, NeverDeaf, Ready, Readable
<1> QED BY <1>1, EarInit, EarNext, PTL DEF Spec

-----------------------------------------------------------------------------
(* The writer                                                              *)

Vec == [base : Int, len : Nat]
Writer ==
  [m_write_idx : Nat, bytes_to_send : Nat, bytes_have_send : Nat, m_iv : [1..2 -> Vec],
   m_iv_count : 0..2, m_file_address : {"null", "map", "failed"}]

\* What writev may take in all.
InVecs(r) == r.m_iv[1].len + (IF r.m_iv_count = 2 THEN r.m_iv[2].len ELSE 0)

LEMMA VecOK == ASSUME NEW b \in Int, NEW l \in Nat
               PROVE  Iovec(b, l) \in Vec /\ Iovec(b, l).base = b /\ Iovec(b, l).len = l
  BY DEF Iovec, Vec

LEMMA PairOK == ASSUME NEW v \in Vec, NEW w \in Vec
                PROVE  <<v, w>> \in [1..2 -> Vec] /\ <<v, w>>[1] = v /\ <<v, w>>[2] = w
  OBVIOUS

\* The fields a response is set up in.
SetUp(w, idx, total, count, iv) ==
  [w EXCEPT !.m_write_idx = idx, !.bytes_to_send = total, !.m_iv_count = count, !.m_iv = iv]

IsSetUp(r, w, idx, total, count, iv) ==
  /\ r \in Writer /\ r.m_write_idx = idx /\ r.bytes_to_send = total
  /\ r.bytes_have_send = w.bytes_have_send /\ r.m_iv_count = count /\ r.m_iv = iv
  /\ r.m_file_address = w.m_file_address

LEMMA Filled ==
  ASSUME NEW w \in Writer, NEW idx \in Nat, NEW total \in Nat, NEW count \in 0..2,
         NEW iv \in [1..2 -> Vec]
  PROVE  IsSetUp(SetUp(w, idx, total, count, iv), w, idx, total, count, iv)
<1>1. PICK N, I : N = Nat /\ I = [1..2 -> Vec]
  OBVIOUS
<1>2. /\ w \in [m_write_idx : N, bytes_to_send : N, bytes_have_send : N, m_iv : I,
                 m_iv_count : 0..2, m_file_address : {"null", "map", "failed"}]
      /\ idx \in N /\ total \in N /\ iv \in I
  BY <1>1 DEF Writer
<1>r. PICK r : r = SetUp(w, idx, total, count, iv)
  OBVIOUS
<1>3. /\ r \in [m_write_idx : N, bytes_to_send : N, bytes_have_send : N, m_iv : I,
                 m_iv_count : 0..2, m_file_address : {"null", "map", "failed"}]
      /\ r.m_write_idx = idx /\ r.bytes_to_send = total
      /\ r.bytes_have_send = w.bytes_have_send /\ r.m_iv_count = count /\ r.m_iv = iv
      /\ r.m_file_address = w.m_file_address
  BY <1>2, <1>r DEF SetUp
<1>4. r \in Writer
  BY <1>1, <1>3 DEF Writer
<1> QED BY <1>r, <1>3, <1>4 DEF IsSetUp

LEMMA PageWritten ==
  ASSUME NEW w \in Writer, NEW ret \in ErrorPage, NEW x, x = process_write(w, ret)
  PROVE  /\ x.ok /\ x.rec \in Writer
         /\ x.rec.m_write_idx = PageLen /\ x.rec.bytes_to_send = PageLen
         /\ x.rec.bytes_have_send = w.bytes_have_send /\ x.rec.m_iv_count = 1
         /\ x.rec.m_iv[1].base = 0 /\ x.rec.m_iv[1].len = PageLen
         /\ x.rec.m_file_address = w.m_file_address
<1>v. PICK v : v = Iovec(0, PageLen)
  OBVIOUS
<1>1. v \in Vec /\ v.base = 0 /\ v.len = PageLen
  BY <1>v, VecOK, ResponseAssumption
<1>i. PICK iv : iv = [w.m_iv EXCEPT ![1] = v]
  OBVIOUS
<1>4. iv \in [1..2 -> Vec] /\ iv[1] = v
  <2>1. w.m_iv \in [1..2 -> Vec]
    BY DEF Writer
  <2> QED BY <1>1, <1>i, <2>1
<1>r. PICK r : r = SetUp(w, PageLen, PageLen, 1, iv)
  OBVIOUS
<1>2. x = [ok |-> TRUE, rec |-> r]
  BY <1>v, <1>i, <1>r DEF process_write, ErrorPage, SetUp
<1>3. /\ r \in Writer /\ r.m_write_idx = PageLen /\ r.bytes_to_send = PageLen
      /\ r.bytes_have_send = w.bytes_have_send /\ r.m_iv_count = 1 /\ r.m_iv = iv
      /\ r.m_file_address = w.m_file_address
  <2>1. PageLen \in Nat /\ 1 \in 0..2
    BY ResponseAssumption
  <2>2. iv \in [1..2 -> Vec]
    BY <1>4
  <2>3. IsSetUp(r, w, PageLen, PageLen, 1, iv)
    BY <2>2, <1>r, <2>1, Filled
  <2> QED BY <2>3 DEF IsSetUp
<1> QED BY <1>1, <1>2, <1>3, <1>4

LEMMA FileWritten ==
  ASSUME NEW w \in Writer, NEW x, x = process_write(w, "FILE_REQUEST")
  PROVE  /\ x.ok /\ x.rec \in Writer
         /\ x.rec.m_write_idx = HeaderLen /\ x.rec.bytes_to_send = HeaderLen + FileLen
         /\ x.rec.bytes_have_send = w.bytes_have_send /\ x.rec.m_iv_count = 2
         /\ x.rec.m_iv[1].base = 0 /\ x.rec.m_iv[1].len = HeaderLen
         /\ x.rec.m_iv[2].base = 0 /\ x.rec.m_iv[2].len = FileLen
         /\ x.rec.m_file_address = w.m_file_address
<1>v. PICK v : v = Iovec(0, HeaderLen)
  OBVIOUS
<1>f. PICK f : f = Iovec(0, FileLen)
  OBVIOUS
<1>1. v \in Vec /\ v.base = 0 /\ v.len = HeaderLen /\ f \in Vec /\ f.base = 0 /\ f.len = FileLen
  BY <1>v, <1>f, VecOK, ResponseAssumption
<1>i. PICK iv : iv = <<v, f>>
  OBVIOUS
<1>4. iv \in [1..2 -> Vec] /\ iv[1] = v /\ iv[2] = f
  BY <1>1, <1>i, PairOK
<1>r. PICK r : r = SetUp(w, HeaderLen, HeaderLen + FileLen, 2, iv)
  OBVIOUS
<1>2. x = [ok |-> TRUE, rec |-> r]
  BY <1>v, <1>f, <1>i, <1>r DEF process_write, ErrorPage, SetUp
<1>3. /\ r \in Writer /\ r.m_write_idx = HeaderLen /\ r.bytes_to_send = HeaderLen + FileLen
      /\ r.bytes_have_send = w.bytes_have_send /\ r.m_iv_count = 2 /\ r.m_iv = iv
      /\ r.m_file_address = w.m_file_address
  <2>1. HeaderLen \in Nat /\ HeaderLen + FileLen \in Nat /\ 2 \in 0..2
    BY ResponseAssumption
  <2>2. iv \in [1..2 -> Vec]
    BY <1>4
  <2>3. IsSetUp(r, w, HeaderLen, HeaderLen + FileLen, 2, iv)
    BY <2>2, <1>r, <2>1, Filled
  <2> QED BY <2>3 DEF IsSetUp
<1> QED BY <1>1, <1>2, <1>3, <1>4

LEMMA NothingWritten ==
  ASSUME NEW w \in Writer, NEW ret \in {"EMPTY_FILE", "NO_RESOURCE"},
         NEW x, x = process_write(w, ret)
  PROVE  /\ ~x.ok /\ x.rec \in Writer
         /\ x.rec.bytes_to_send = w.bytes_to_send /\ x.rec.bytes_have_send = w.bytes_have_send
         /\ x.rec.m_file_address = w.m_file_address
<1>1. CASE ret = "EMPTY_FILE"
  <2>r. PICK r : r = [w EXCEPT !.m_write_idx = PageLen]
    OBVIOUS
  <2>1. x = [ok |-> FALSE, rec |-> r]
    BY <1>1, <2>r DEF process_write, ErrorPage
  <2>2. /\ r \in Writer /\ r.bytes_to_send = w.bytes_to_send
        /\ r.bytes_have_send = w.bytes_have_send /\ r.m_file_address = w.m_file_address
    BY <2>r, ResponseAssumption DEF Writer
  <2> QED BY <2>1, <2>2
<1>2. CASE ret = "NO_RESOURCE"
  <2>1. x = [ok |-> FALSE, rec |-> w]
    BY <1>2 DEF process_write, ErrorPage
  <2> QED BY <2>1
<1> QED BY <1>1, <1>2

\* After a writev of n bytes, no more than what the vectors held.
LEMMA AdvancedOK ==
  ASSUME NEW w \in Writer, NEW n \in Nat, InVecs(w) <= w.bytes_to_send, n <= InVecs(w),
         NEW r, r = Advanced(w, n)
  PROVE  /\ r \in Writer
         /\ r.bytes_have_send = w.bytes_have_send + n /\ r.bytes_to_send = w.bytes_to_send - n
         /\ r.m_write_idx = w.m_write_idx /\ r.m_iv_count = w.m_iv_count
         /\ r.m_file_address = w.m_file_address
         /\ InVecs(r) <= r.bytes_to_send
         /\ r.bytes_have_send >= w.m_iv[1].len =>
              r.m_iv[1].len = 0 /\ r.m_iv[2].base = r.bytes_have_send - r.m_write_idx
              /\ r.m_iv[2].len = r.bytes_to_send
         /\ r.bytes_have_send < w.m_iv[1].len =>
              r.m_iv[1].base = r.bytes_have_send
              /\ r.m_iv[1].len = w.m_iv[1].len - r.bytes_have_send
              /\ r.m_iv[2] = w.m_iv[2]
<1>0. /\ w.bytes_have_send \in Nat /\ w.bytes_to_send \in Nat /\ w.m_iv \in [1..2 -> Vec]
      /\ w.m_iv_count \in 0..2 /\ w.m_write_idx \in Nat
  BY DEF Writer
<1>f. PICK first : first = w.m_iv[1]
  OBVIOUS
<1>g. PICK second : second = w.m_iv[2]
  OBVIOUS
<1>1. first \in Vec /\ second \in Vec
  BY <1>0, <1>f, <1>g
<1>2. first.len \in Nat /\ second.len \in Nat /\ first.base \in Int /\ second.base \in Int
  BY <1>1 DEF Vec
<1>i. InVecs(w) = first.len + (IF w.m_iv_count = 2 THEN second.len ELSE 0)
  BY <1>f, <1>g DEF InVecs
<1>h. PICK have : have = w.bytes_have_send + n
  OBVIOUS
<1>l. PICK left : left = w.bytes_to_send - n
  OBVIOUS
<1>3. have \in Nat /\ left \in Nat /\ have >= n
  BY <1>0, <1>h, <1>l, <1>2, <1>i
<1>s. PICK moved : moved = [w EXCEPT !.bytes_have_send = have, !.bytes_to_send = left]
  OBVIOUS
<1>4. /\ moved \in Writer /\ moved.bytes_have_send = have /\ moved.bytes_to_send = left
      /\ moved.m_write_idx = w.m_write_idx /\ moved.m_iv_count = w.m_iv_count
      /\ moved.m_file_address = w.m_file_address /\ moved.m_iv = w.m_iv
  BY <1>3, <1>s DEF Writer
<1>5. CASE have >= first.len
  <2>v. PICK u : u = Iovec(first.base, 0)
    OBVIOUS
  <2>w. PICK v : v = Iovec(have - w.m_write_idx, left)
    OBVIOUS
  <2>1. u \in Vec /\ u.len = 0 /\ v \in Vec /\ v.base = have - w.m_write_idx /\ v.len = left
    BY <1>0, <1>2, <1>3, <2>v, <2>w, VecOK
  <2>i. PICK iv : iv = <<u, v>>
    OBVIOUS
  <2>2. iv \in [1..2 -> Vec] /\ iv[1] = u /\ iv[2] = v
    BY <2>1, <2>i, PairOK
  <2>3. r = [moved EXCEPT !.m_iv = iv]
    BY <1>5, <1>f, <1>h, <1>l, <1>s, <1>4, <2>v, <2>w, <2>i DEF Advanced
  <2>4. /\ r \in Writer /\ r.bytes_have_send = have /\ r.bytes_to_send = left
        /\ r.m_write_idx = w.m_write_idx /\ r.m_iv_count = w.m_iv_count
        /\ r.m_file_address = w.m_file_address /\ r.m_iv = iv
    BY <1>4, <2>2, <2>3 DEF Writer
  <2>5. InVecs(r) <= left
    BY <1>3, <2>1, <2>2, <2>4 DEF InVecs
  <2> QED BY <1>h, <1>l, <1>f, <1>5, <1>3, <1>2, <2>1, <2>2, <2>4, <2>5
<1>6. CASE ~(have >= first.len)
  <2>v. PICK u : u = Iovec(have, first.len - have)
    OBVIOUS
  <2>1. u \in Vec /\ u.base = have /\ u.len = first.len - have
    BY <1>2, <1>3, <1>6, <2>v, VecOK
  <2>3. r = [moved EXCEPT !.m_iv[1] = u]
    BY <1>6, <1>f, <1>h, <1>l, <1>s, <1>4, <2>v DEF Advanced
  <2>4. /\ r \in Writer /\ r.bytes_have_send = have /\ r.bytes_to_send = left
        /\ r.m_write_idx = w.m_write_idx /\ r.m_iv_count = w.m_iv_count
        /\ r.m_file_address = w.m_file_address /\ r.m_iv[1] = u /\ r.m_iv[2] = second
    BY <1>g, <1>0, <1>4, <2>1, <2>3 DEF Writer
  <2>5. InVecs(r) = (first.len - have) + (IF w.m_iv_count = 2 THEN second.len ELSE 0)
    BY <2>1, <2>4 DEF InVecs
  <2>6. InVecs(r) <= left
    BY <1>0, <1>2, <1>3, <1>i, <1>l, <2>5
  <2> QED BY <1>h, <1>l, <1>f, <1>g, <1>6, <1>3, <1>2, <2>1, <2>4, <2>6
<1>7. (have >= first.len) \/ ~(have >= first.len)
  OBVIOUS
<1> QED BY <1>5, <1>6, <1>7

-----------------------------------------------------------------------------
(* The mapping                                                             *)

\* Who has the object: somebody who reads, or somebody who writes.
Waits  == pc \in {"read_once", "process"} \/ (pc = "epoll" /\ epoll.ev = "in")
Writes == pc = "write" \/ (pc = "epoll" /\ epoll.ev = "out")

Idle(r)   == r.bytes_to_send = 0 /\ r.bytes_have_send = 0
Loaded(r) == /\ r.bytes_to_send > 0 /\ InVecs(r) <= r.bytes_to_send
             /\ r.m_iv_count = 2 => r.m_file_address = "map"

\* a mapping that stays, as nothing of it is being sent any more
Held(r, over) == IF r.m_file_address = "map" /\ (over \/ r.bytes_to_send = 0) THEN 1 ELSE 0

MapInv ==
  /\ wr \in Writer /\ leaked \in Nat /\ aborts \in Nat
  /\ Closed \/ Waits \/ Writes
  /\ Waits => Idle(wr)
  /\ Writes => Loaded(wr)
  /\ leaked + Held(wr, Closed) <= aborts

LEMMA HeldBounds ==
  ASSUME NEW r, NEW over
  PROVE  /\ Held(r, over) \in 0..1
         /\ r.m_file_address # "map" => Held(r, over) = 0
         /\ r.bytes_to_send = 0 => Held(r, over) = Held(r, TRUE)
         /\ r.bytes_to_send # 0 => Held(r, FALSE) = 0
  BY DEF Held

LEMMA ResetOK ==
  ASSUME NEW r \in Writer, NEW w, w = init_write(r)
  PROVE  w \in Writer /\ Idle(w) /\ w.m_file_address = r.m_file_address
  BY DEF init_write, Writer, Idle

LEMMA UnmapOK ==
  ASSUME NEW r \in Writer, NEW w, w = unmap(r)
  PROVE  /\ w \in Writer /\ w.m_file_address = "null"
         /\ w.bytes_to_send = r.bytes_to_send /\ w.bytes_have_send = r.bytes_have_send
         /\ w.m_write_idx = r.m_write_idx /\ w.m_iv_count = r.m_iv_count /\ w.m_iv = r.m_iv
  BY DEF unmap, Writer

Results == ErrorPage \cup {"FILE_REQUEST", "EMPTY_FILE", "NO_RESOURCE"}

LEMMA MappedOK ==
  ASSUME NEW r \in Writer, NEW ret \in Results, NEW w, w = Mapped(r, ret)
  PROVE  /\ w \in Writer
         /\ w.bytes_to_send = r.bytes_to_send /\ w.bytes_have_send = r.bytes_have_send
         /\ ret = "FILE_REQUEST" => w.m_file_address = "map"
         /\ ret = "EMPTY_FILE" => w.m_file_address = "failed"
         /\ ret \notin {"FILE_REQUEST", "EMPTY_FILE"} => w.m_file_address = r.m_file_address
<1>1. CASE ret = "FILE_REQUEST"
  <2>1. w = [r EXCEPT !.m_file_address = "map"]
    BY <1>1 DEF Mapped
  <2> QED BY <1>1, <2>1 DEF Writer
<1>2. CASE ret = "EMPTY_FILE"
  <2>1. w = [r EXCEPT !.m_file_address = "failed"]
    BY <1>2 DEF Mapped
  <2> QED BY <1>2, <2>1 DEF Writer
<1>3. CASE ret \notin {"FILE_REQUEST", "EMPTY_FILE"}
  <2>1. w = [r EXCEPT !.m_file_address = r.m_file_address]
    BY <1>3 DEF Mapped
  <2>2. w = r
    BY <2>1 DEF Writer
  <2> QED BY <1>3, <2>2
<1> QED BY <1>1, <1>2, <1>3

\* What process makes of an idle writer.
LEMMA AnswerOK ==
  ASSUME NEW r \in Writer, Idle(r), NEW ret \in Results,
         NEW x, x = process_write(Mapped(r, ret), ret)
  PROVE  /\ x.rec \in Writer /\ x.rec.bytes_have_send = 0
         /\ x.ok => ret \in ErrorPage \cup {"FILE_REQUEST"} /\ Loaded(x.rec)
         /\ ~x.ok => ret \in {"EMPTY_FILE", "NO_RESOURCE"} /\ x.rec.bytes_to_send = 0
         /\ ret \in ErrorPage =>
              /\ x.rec.m_write_idx = PageLen /\ x.rec.bytes_to_send = PageLen
              /\ x.rec.m_iv_count = 1
              /\ x.rec.m_iv[1].base = 0 /\ x.rec.m_iv[1].len = PageLen
         /\ ret = "FILE_REQUEST" =>
              /\ x.rec.m_write_idx = HeaderLen /\ x.rec.bytes_to_send = HeaderLen + FileLen
              /\ x.rec.m_iv_count = 2
              /\ x.rec.m_iv[1].base = 0 /\ x.rec.m_iv[1].len = HeaderLen
              /\ x.rec.m_iv[2].base = 0 /\ x.rec.m_iv[2].len = FileLen
         /\ ~x.ok /\ ret = "NO_RESOURCE" => x.rec.m_file_address = r.m_file_address
         /\ ~x.ok /\ ret = "EMPTY_FILE" => x.rec.m_file_address = "failed"
<1>w. PICK w : w = Mapped(r, ret)
  OBVIOUS
<1>1. /\ w \in Writer /\ w.bytes_to_send = 0 /\ w.bytes_have_send = 0
      /\ ret = "FILE_REQUEST" => w.m_file_address = "map"
      /\ ret = "EMPTY_FILE" => w.m_file_address = "failed"
      /\ ret = "NO_RESOURCE" => w.m_file_address = r.m_file_address
  BY <1>w, MappedOK DEF Idle
<1>2. x = process_write(w, ret)
  BY <1>w
<1>3. CASE ret \in ErrorPage
  <2>1. /\ x.ok /\ x.rec \in Writer
        /\ x.rec.m_write_idx = PageLen /\ x.rec.bytes_to_send = PageLen
        /\ x.rec.bytes_have_send = 0 /\ x.rec.m_iv_count = 1
        /\ x.rec.m_iv[1].base = 0 /\ x.rec.m_iv[1].len = PageLen
    BY <1>1, <1>2, <1>3, PageWritten
  <2>2. Loaded(x.rec)
    BY <2>1, ResponseAssumption DEF Loaded, InVecs
  <2> QED BY <1>3, <2>1, <2>2 DEF ErrorPage
<1>4. CASE ret = "FILE_REQUEST"
  <2>1. /\ x.ok /\ x.rec \in Writer
        /\ x.rec.m_write_idx = HeaderLen /\ x.rec.bytes_to_send = HeaderLen + FileLen
        /\ x.rec.bytes_have_send = 0 /\ x.rec.m_iv_count = 2
        /\ x.rec.m_iv[1].base = 0 /\ x.rec.m_iv[1].len = HeaderLen
        /\ x.rec.m_iv[2].base = 0 /\ x.rec.m_iv[2].len = FileLen
        /\ x.rec.m_file_address = "map"
    BY <1>1, <1>2, <1>4, FileWritten
  <2>2. Loaded(x.rec)
    BY <2>1, ResponseAssumption DEF Loaded, InVecs
  <2> QED BY <1>4, <2>1, <2>2 DEF ErrorPage
<1>5. CASE ret \in {"EMPTY_FILE", "NO_RESOURCE"}
  <2>1. /\ ~x.ok /\ x.rec \in Writer /\ x.rec.bytes_to_send = 0 /\ x.rec.bytes_have_send = 0
        /\ x.rec.m_file_address = w.m_file_address
    BY <1>1, <1>2, <1>5, NothingWritten
  <2> QED BY <1>1, <1>5, <2>1 DEF ErrorPage
<1> QED BY <1>3, <1>4, <1>5 DEF Results

-----------------------------------------------------------------------------
LEMMA MapInit == Init => MapInv
<1> SUFFICES ASSUME Init PROVE MapInv
  OBVIOUS
<1>v. PICK v : v = Iovec(0, 0)
  OBVIOUS
<1>1. <<v, v>> \in [1..2 -> Vec]
  BY <1>v, VecOK, PairOK
<1>2. wr = [m_write_idx |-> 0, bytes_to_send |-> 0, bytes_have_send |-> 0, m_iv |-> <<v, v>>,
            m_iv_count |-> 0, m_file_address |-> "null"]
  BY <1>v DEF Init
<1>i. PICK I : I = [1..2 -> Vec]
  OBVIOUS
<1>p. PICK iv : iv = <<v, v>>
  OBVIOUS
<1>4. iv \in I /\ wr = [m_write_idx |-> 0, bytes_to_send |-> 0, bytes_have_send |-> 0,
                        m_iv |-> iv, m_iv_count |-> 0, m_file_address |-> "null"]
  BY <1>1, <1>2, <1>i, <1>p
<1>5. wr \in [m_write_idx : Nat, bytes_to_send : Nat, bytes_have_send : Nat, m_iv : I,
              m_iv_count : 0..2, m_file_address : {"null", "map", "failed"}]
      /\ wr.m_file_address = "null"
  BY <1>4
<1>6. wr \in Writer
  BY <1>5, <1>i DEF Writer
<1>7. Held(wr, Closed) = 0
  BY <1>5, HeldBounds
<1> QED BY <1>6, <1>7 DEF Init, MapInv, Closed, Waits, Writes

LEMMA StaysMapped ==
  ASSUME MapInv, UNCHANGED <<wr, leaked, aborts, pc, epoll>>
  PROVE  MapInv'
  BY DEF MapInv, Closed, Waits, Writes

\* A close counts a response it cuts short, whose mapping may stay.
LEMMA ClosedMapped ==
  ASSUME MapInv, Aborted, UNCHANGED leaked, pc' = "closed", wr' = wr \/ wr' = unmap(wr)
  PROVE  MapInv'
<1>1. wr \in Writer /\ leaked \in Nat /\ aborts \in Nat /\ leaked + Held(wr, Closed) <= aborts
  BY DEF MapInv
<1>2. wr.bytes_to_send \in Nat
  BY <1>1 DEF Writer
<1>3. aborts' \in Nat /\ aborts' >= aborts /\ (wr.bytes_to_send # 0 => aborts' = aborts + 1)
  BY <1>1, <1>2 DEF Aborted
<1>4. wr' \in Writer
  BY <1>1, UnmapOK
<1>c. PICK c : c = Held(wr, Closed)
  OBVIOUS
<1>h. PICK h : h = Held(wr', TRUE)
  OBVIOUS
<1>5. c \in 0..1 /\ h \in 0..1
  BY <1>c, <1>h, HeldBounds
<1>6. leaked + h <= aborts'
  <2>1. CASE wr' = unmap(wr)
    <3>1. h = 0
      BY <1>1, <1>h, <2>1, UnmapOK, HeldBounds
    <3> QED BY <1>1, <1>3, <1>5, <1>c, <3>1
  <2>2. CASE wr' = wr /\ wr.bytes_to_send = 0
    <3>1. h = c
      BY <1>c, <1>h, <2>2, HeldBounds
    <3> QED BY <1>1, <1>3, <1>5, <1>c, <3>1
  <2>3. CASE wr' = wr /\ wr.bytes_to_send # 0
    BY <1>1, <1>3, <1>5, <1>c, <2>3
  <2> QED BY <2>1, <2>2, <2>3
<1>7. leaked' + Held(wr', Closed') <= aborts'
  <2>1. Closed' = TRUE
    BY DEF Closed
  <2> QED BY <1>6, <1>h, <2>1
<1> QED BY <1>1, <1>3, <1>4, <1>7 DEF MapInv, Closed, Waits, Writes

LEMMA AcceptMapped == ASSUME MapInv, Accept PROVE MapInv'
<1>1. /\ wr \in Writer /\ leaked \in Nat /\ aborts \in Nat /\ leaked + Held(wr, Closed) <= aborts
      /\ Closed
  BY DEF MapInv, Accept
<1>2. /\ wr' = init_write(wr) /\ pc' = "epoll" /\ epoll'.ev = "in"
      /\ leaked' = leaked /\ aborts' = aborts
  BY DEF Accept, init
<1>3. wr' \in Writer /\ Idle(wr') /\ wr'.m_file_address = wr.m_file_address
  BY <1>1, <1>2, ResetOK
<1>4. Held(wr', Closed') = Held(wr, Closed)
  <2>1. Closed = TRUE /\ wr'.bytes_to_send = 0
    BY <1>1, <1>3 DEF Idle
  <2> QED BY <1>3, <2>1 DEF Held
<1> QED BY <1>1, <1>2, <1>3, <1>4 DEF MapInv, Closed, Waits, Writes

\* The object is handed on among those who wait, or among those who write.
LEMMA HandedMapped ==
  ASSUME MapInv, ~Closed, pc' # "closed", UNCHANGED <<wr, leaked, aborts>>,
         (Waits /\ Waits' /\ ~Writes') \/ (Writes /\ Writes' /\ ~Waits')
  PROVE  MapInv'
<1>1. Held(wr', Closed') = Held(wr, Closed)
  <2>1. Closed = FALSE /\ Closed' = FALSE
    BY DEF Closed
  <2> QED BY <2>1 DEF Held
<1> QED BY <1>1 DEF MapInv

LEMMA ReportMapped == ASSUME MapInv, Report PROVE MapInv'
<1>1. CASE epoll.ev = "in"
  <2>1. pc = "epoll" /\ pc' = "read_once" /\ UNCHANGED <<wr, leaked, aborts>>
    BY <1>1 DEF Report, conn, history
  <2> QED BY <1>1, <2>1, HandedMapped DEF Waits, Writes, Closed
<1>2. CASE epoll.ev = "out"
  <2>1. pc = "epoll" /\ pc' = "write" /\ UNCHANGED <<wr, leaked, aborts>>
    BY <1>2 DEF Report, conn, history
  <2> QED BY <1>2, <2>1, HandedMapped DEF Waits, Writes, Closed
<1>3. epoll.ev = "in" \/ epoll.ev = "out"
  BY DEF Report, Ready
<1> QED BY <1>1, <1>2, <1>3

LEMMA AnswersMapped ==
  ASSUME MapInv, pc = "process", UNCHANGED aborts, NEW ret \in Results, Answers(ret)
  PROVE  MapInv'
<1>0. /\ wr \in Writer /\ leaked \in Nat /\ aborts \in Nat /\ leaked + Held(wr, Closed) <= aborts
      /\ Idle(wr)
  BY DEF MapInv, Waits
<1>x. PICK x : x = process_write(Mapped(wr, ret), ret)
  OBVIOUS
<1>1. /\ x.rec \in Writer
      /\ x.ok => Loaded(x.rec)
      /\ ~x.ok => x.rec.bytes_to_send = 0
      /\ ~x.ok => ret \in {"EMPTY_FILE", "NO_RESOURCE"}
      /\ ~x.ok /\ ret = "NO_RESOURCE" => x.rec.m_file_address = wr.m_file_address
      /\ ~x.ok /\ ret = "EMPTY_FILE" => x.rec.m_file_address = "failed"
  BY <1>0, <1>x, AnswerOK
<1>2. /\ wr' = x.rec
      /\ leaked' = IF Loses(wr, ret) THEN leaked + 1 ELSE leaked
      /\ (x.ok /\ modfd("out") /\ pc' = "epoll") \/ (~x.ok /\ pc' = "closed")
  BY <1>x DEF Answers
<1>c. PICK c : c = Held(wr, Closed)
  OBVIOUS
<1>3. c \in 0..1 /\ leaked + c <= aborts /\ (wr.m_file_address = "map" => c = 1)
  BY <1>0, <1>c, HeldBounds DEF Held, Idle
<1>4. leaked' \in Nat /\ leaked' <= aborts
  BY <1>0, <1>2, <1>3 DEF Loses
<1>5. CASE x.ok /\ modfd("out") /\ pc' = "epoll"
  <2>1. epoll'.ev = "out"
    BY <1>5 DEF modfd
  <2>2. Closed' = FALSE /\ Loaded(wr')
    BY <1>1, <1>2, <1>5 DEF Closed
  <2>h. PICK h : h = Held(wr', Closed')
    OBVIOUS
  <2>5. wr'.bytes_to_send # 0
    BY <1>1, <1>2, <2>2 DEF Loaded, Writer
  <2>3. h = 0
    BY <2>2, <2>5, <2>h DEF Held
  <2>6. leaked' + h <= aborts
    BY <1>4, <2>3
  <2>4. leaked' + Held(wr', Closed') <= aborts'
    BY <2>6, <2>h
  <2> QED BY <1>0, <1>1, <1>2, <1>4, <1>5, <2>1, <2>2, <2>4 DEF MapInv, Closed, Waits, Writes
<1>6. CASE ~x.ok /\ pc' = "closed"
  <2>h. PICK h : h = Held(wr', Closed')
    OBVIOUS
  <2>1. leaked' + h <= aborts
    <3>1. CASE ret = "EMPTY_FILE"
      <4>1. h = 0
        BY <1>1, <1>2, <1>6, <2>h, <3>1, HeldBounds
      <4> QED BY <1>4, <4>1
    <3>2. CASE ret = "NO_RESOURCE"
      <4>1. wr'.m_file_address = wr.m_file_address /\ wr'.bytes_to_send = wr.bytes_to_send
        BY <1>0, <1>1, <1>2, <1>6, <3>2 DEF Idle
      <4>2. h = c
        BY <1>0, <1>c, <2>h, <4>1 DEF Held, Idle
      <4>3. leaked' = leaked
        BY <1>2, <3>2 DEF Loses
      <4> QED BY <1>3, <4>2, <4>3
    <3> QED BY <1>1, <1>6, <3>1, <3>2
  <2>2. leaked' + Held(wr', Closed') <= aborts'
    BY <2>1, <2>h
  <2> QED BY <1>0, <1>1, <1>2, <1>4, <1>6, <2>2 DEF MapInv, Closed, Waits, Writes
<1> QED BY <1>2, <1>5, <1>6

LEMMA ProcessMapped == ASSUME MapInv, process PROVE MapInv'
<1>1. pc = "process" /\ UNCHANGED aborts
  BY DEF process
<1>2. CASE NeedsMore /\ UNCHANGED <<wr, leaked>>
  <2>1. pc' = "epoll" /\ epoll'.ev = "in"
    BY <1>2 DEF NeedsMore, modfd
  <2> QED BY <1>1, <1>2, <2>1, HandedMapped DEF Waits, Writes, Closed
<1>3. CASE Answers("BAD_REQUEST")
  BY <1>1, <1>3, AnswersMapped DEF Results, ErrorPage
<1>4. ASSUME NEW ret \in FileResults, Answers(ret) PROVE MapInv'
  BY <1>1, <1>4, AnswersMapped, ConnAssumption DEF Results
<1> QED BY <1>2, <1>3, <1>4 DEF process

\* How much writev may take.
LEMMA BytesLen ==
  ASSUME NEW where, NEW from \in Int, NEW l \in Nat
  PROVE  /\ Bytes(where, from, l) \in Seq({where} \X Int) /\ Len(Bytes(where, from, l)) = l
         /\ \A k \in 1..l : Bytes(where, from, l)[k] = <<where, from + k - 1>>
  BY DEF Bytes

Cells == {"buf", "file"} \X Int

\* What writev takes, byte by byte.
LEMMA GatheredCells ==
  ASSUME NEW w \in Writer
  PROVE  /\ Gathered(w) \in Seq(Cells) /\ Len(Gathered(w)) = InVecs(w) /\ InVecs(w) \in Nat
         /\ \A k \in 1..InVecs(w) :
              Gathered(w)[k] =
                IF k <= w.m_iv[1].len THEN <<"buf", w.m_iv[1].base + k - 1>>
                                      ELSE <<"file", w.m_iv[2].base + k - w.m_iv[1].len - 1>>
<1>0. w.m_iv \in [1..2 -> Vec] /\ w.m_iv_count \in 0..2
  BY DEF Writer
<1>f. PICK f : f = w.m_iv[1]
  OBVIOUS
<1>g. PICK g : g = w.m_iv[2]
  OBVIOUS
<1>1. f.len \in Nat /\ f.base \in Int /\ g.len \in Nat /\ g.base \in Int
  BY <1>0, <1>f, <1>g DEF Vec
<1>C. PICK C : C = Cells
  OBVIOUS
<1>a. PICK a : a = Bytes("buf", f.base, f.len)
  OBVIOUS
<1>2. a \in Seq(C) /\ Len(a) = f.len /\ \A k \in 1..f.len : a[k] = <<"buf", f.base + k - 1>>
  BY <1>1, <1>C, <1>a, BytesLen DEF Bytes, Cells
<1>b. PICK b : b = (IF w.m_iv_count = 2 THEN Bytes("file", g.base, g.len) ELSE <<>>)
  OBVIOUS
<1>l. PICK l : l = (IF w.m_iv_count = 2 THEN g.len ELSE 0)
  OBVIOUS
<1>3. l \in Nat /\ b \in Seq(C) /\ Len(b) = l /\ \A k \in 1..l : b[k] = <<"file", g.base + k - 1>>
  <2>1. CASE w.m_iv_count = 2
    <3>1. b = Bytes("file", g.base, g.len) /\ l = g.len
      BY <1>b, <1>l, <2>1
    <3> QED BY <1>1, <1>C, <3>1, BytesLen DEF Bytes, Cells
  <2>2. CASE w.m_iv_count # 2
    <3>1. b = <<>> /\ l = 0
      BY <1>b, <1>l, <2>2
    <3> QED BY <3>1
  <2> QED BY <2>1, <2>2
<1>4. Gathered(w) = a \o b /\ InVecs(w) = f.len + l
  BY <1>f, <1>g, <1>a, <1>b, <1>l DEF Gathered, InVecs
<1>5. /\ a \o b \in Seq(C) /\ Len(a \o b) = f.len + l
      /\ \A k \in 1..(f.len + l) : (a \o b)[k] = IF k <= f.len THEN a[k] ELSE b[k - f.len]
  <2>1. a \in Seq(C) /\ b \in Seq(C) /\ Len(a) = f.len /\ Len(b) = l
    BY <1>2, <1>3
  <2>2. /\ a \o b \in Seq(C) /\ Len(a \o b) = Len(a) + Len(b)
        /\ \A k \in 1..(Len(a) + Len(b)) :
             (a \o b)[k] = IF k <= Len(a) THEN a[k] ELSE b[k - Len(a)]
    BY <2>1, ConcatProperties
  <2> QED BY <2>1, <2>2, Zenon
<1>6. ASSUME NEW k \in 1..(f.len + l)
      PROVE  (a \o b)[k] = IF k <= f.len THEN <<"buf", f.base + k - 1>>
                                         ELSE <<"file", g.base + k - f.len - 1>>
  <2>1. CASE k <= f.len
    BY <1>1, <1>2, <1>5, <2>1
  <2>2. CASE ~(k <= f.len)
    <3>1. k - f.len \in 1..l
      BY <1>1, <1>3, <2>2
    <3>2. b[k - f.len] = <<"file", g.base + (k - f.len) - 1>>
      BY <1>3, <3>1
    <3>3. g.base + (k - f.len) - 1 = g.base + k - f.len - 1
      BY <1>1
    <3> QED BY <1>5, <2>2, <3>2, <3>3
  <2> QED BY <2>1, <2>2
<1> QED BY <1>C, <1>f, <1>g, <1>1, <1>3, <1>4, <1>5, <1>6

LEMMA AtMostOne ==
  ASSUME NEW l \in Nat, NEW n \in Min({1, l})..l
  PROVE  n \in Nat /\ n <= l
<1>1. \E m \in {1, l} : \A k \in {1, l} : m <= k
  OBVIOUS
<1>2. Min({1, l}) \in {1, l}
  BY <1>1 DEF Min
<1> QED BY <1>2

\* What one writev does: n bytes of what it was given.
After(got, w, n) == got \o SubSeq(Gathered(w), 1, n)
Counted(r, short) ==
  IF r.bytes_have_send < r.m_write_idx /\ short < 2 THEN short + 1 ELSE short
Takes(n, r) == /\ n \in Nat /\ n <= InVecs(wr) /\ r = Advanced(wr, n)
               /\ out' = After(out, wr, n) /\ cuts' = Counted(r, cuts)

LEMMA WritevTakes ==
  ASSUME wr \in Writer, Writev
  PROVE  \E n, r :
           /\ Takes(n, r) /\ pc = "write" /\ UNCHANGED <<result, leaked, aborts>>
           /\ \/ r.bytes_to_send > 0 /\ wr' = r /\ UNCHANGED <<pc, epoll>>
              \/ /\ r.bytes_to_send <= 0 /\ wr' = init_write(unmap(r))
                 /\ pc' = "epoll" /\ epoll'.ev = "in"
              \/ r.bytes_to_send <= 0 /\ wr' = unmap(r) /\ pc' = "closed"
<1>b. PICK bytes : bytes = Gathered(wr)
  OBVIOUS
<1>l. PICK l : l = InVecs(wr)
  OBVIOUS
<1>1. Len(bytes) = l /\ l \in Nat
  BY <1>b, <1>l, GatheredCells
<1>2. PICK n, r :
        /\ n \in Min({1, Len(bytes)})..Len(bytes)
        /\ r = Advanced(wr, n) /\ out' = out \o SubSeq(bytes, 1, n)
        /\ cuts' = IF r.bytes_have_send < r.m_write_idx /\ cuts < 2 THEN cuts + 1 ELSE cuts
        /\ \/ r.bytes_to_send > 0 /\ wr' = r /\ UNCHANGED <<pc, epoll>>
           \/ r.bytes_to_send <= 0 /\ init(unmap(r)) /\ modfd("in") /\ pc' = "epoll"
           \/ r.bytes_to_send <= 0 /\ wr' = unmap(r) /\ pc' = "closed"
  BY <1>b DEF Writev
<1>3. n \in Nat /\ n <= l
  <2>1. n \in Min({1, l})..l
    BY <1>1, <1>2
  <2> QED BY <1>1, <2>1, AtMostOne
<1>4. Takes(n, r)
  BY <1>b, <1>l, <1>2, <1>3 DEF Takes, After, Counted
<1>5. \/ r.bytes_to_send > 0 /\ wr' = r /\ UNCHANGED <<pc, epoll>>
      \/ /\ r.bytes_to_send <= 0 /\ wr' = init_write(unmap(r))
         /\ pc' = "epoll" /\ epoll'.ev = "in"
      \/ r.bytes_to_send <= 0 /\ wr' = unmap(r) /\ pc' = "closed"
  BY <1>2 DEF init, modfd
<1>6. pc = "write" /\ UNCHANGED <<result, leaked, aborts>>
  BY DEF Writev
<1> QED BY <1>4, <1>5, <1>6

LEMMA WritevMapped == ASSUME MapInv, Writev PROVE MapInv'
<1>0. /\ wr \in Writer /\ leaked \in Nat /\ aborts \in Nat /\ leaked + Held(wr, Closed) <= aborts
      /\ pc = "write" /\ Loaded(wr)
  BY DEF MapInv, Writes, Writev
<1>1. PICK n, r : /\ Takes(n, r) /\ UNCHANGED <<leaked, aborts>>
                  /\ \/ r.bytes_to_send > 0 /\ wr' = r /\ UNCHANGED <<pc, epoll>>
                     \/ /\ r.bytes_to_send <= 0 /\ wr' = init_write(unmap(r))
                        /\ pc' = "epoll" /\ epoll'.ev = "in"
                     \/ r.bytes_to_send <= 0 /\ wr' = unmap(r) /\ pc' = "closed"
  BY <1>0, WritevTakes
<1>2. InVecs(wr) <= wr.bytes_to_send
  BY <1>0 DEF Loaded
<1>3. /\ r \in Writer /\ InVecs(r) <= r.bytes_to_send /\ r.m_iv_count = wr.m_iv_count
      /\ r.m_file_address = wr.m_file_address
  BY <1>0, <1>1, <1>2, AdvancedOK DEF Takes
<1>4. leaked <= aborts
  <2>1. PICK c : c = Held(wr, Closed)
    OBVIOUS
  <2>2. c \in 0..1 /\ leaked + c <= aborts
    BY <1>0, <2>1, HeldBounds
  <2> QED BY <1>0, <2>2
<1>h. PICK h : h = Held(wr', Closed')
  OBVIOUS
<1>u. PICK u : u = unmap(r)
  OBVIOUS
<1>5. u \in Writer /\ u.m_file_address = "null"
  BY <1>3, <1>u, UnmapOK
<1>6. CASE r.bytes_to_send > 0 /\ wr' = r /\ UNCHANGED <<pc, epoll>>
  <2>1. Loaded(wr') /\ wr'.bytes_to_send # 0 /\ Closed' = FALSE
    BY <1>0, <1>3, <1>6 DEF Loaded, Closed, Writer
  <2>2. h = 0
    BY <1>h, <2>1 DEF Held
  <2>3. leaked' + Held(wr', Closed') <= aborts'
    BY <1>0, <1>1, <1>4, <1>h, <2>2
  <2> QED BY <1>0, <1>1, <1>3, <1>6, <2>1, <2>3 DEF MapInv, Closed, Waits, Writes
<1>7. CASE wr' = init_write(u) /\ pc' = "epoll" /\ epoll'.ev = "in"
  <2>1. wr' \in Writer /\ Idle(wr') /\ wr'.m_file_address = "null"
    BY <1>5, <1>7, ResetOK
  <2>2. h = 0
    BY <1>h, <2>1 DEF Held
  <2>3. leaked' + Held(wr', Closed') <= aborts'
    BY <1>0, <1>1, <1>4, <1>h, <2>2
  <2> QED BY <1>0, <1>1, <1>7, <2>1, <2>3 DEF MapInv, Closed, Waits, Writes
<1>8. CASE wr' = u /\ pc' = "closed"
  <2>2. h = 0
    BY <1>h, <1>5, <1>8 DEF Held
  <2>3. leaked' + Held(wr', Closed') <= aborts'
    BY <1>0, <1>1, <1>4, <1>h, <2>2
  <2> QED BY <1>0, <1>1, <1>5, <1>8, <2>3 DEF MapInv, Closed, Waits, Writes
<1> QED BY <1>1, <1>u, <1>6, <1>7, <1>8

LEMMA MapNext == MapInv /\ [Next]_vars => MapInv'
<1> SUFFICES ASSUME MapInv, [Next]_vars PROVE MapInv'
  OBVIOUS
<1>1. CASE Send \/ Drain \/ Hangup \/ Again
  BY <1>1, StaysMapped DEF Send, Drain, Hangup, Again, conn, history
<1>2. CASE Accept
  BY <1>2, AcceptMapped
<1>3. CASE Hup \/ Timeout \/ RecvFails \/ WritevFails
  BY <1>3, ClosedMapped DEF Hup, Timeout, RecvFails, WritevFails, Close, conn
<1>4. CASE Report
  BY <1>4, ReportMapped
<1>5. CASE Recv \/ RecvAgain
  <2>1. /\ pc = "read_once" /\ pc' \in {"read_once", "process"}
        /\ UNCHANGED <<wr, leaked, aborts>>
    BY <1>5 DEF Recv, RecvAgain, conn, history
  <2> QED BY <2>1, HandedMapped DEF Waits, Writes, Closed
<1>6. CASE process
  BY <1>6, ProcessMapped
<1>7. CASE Writev
  BY <1>7, WritevMapped
<1>8. CASE WritevAgain
  <2>1. pc = "write" /\ pc' = "epoll" /\ epoll'.ev = "out" /\ UNCHANGED <<wr, leaked, aborts>>
    BY <1>8 DEF WritevAgain, modfd, conn, history
  <2> QED BY <2>1, HandedMapped DEF Waits, Writes, Closed
<1>9. CASE UNCHANGED vars
  BY <1>9, StaysMapped DEF vars
<1>10. CASE Rest
  BY <1>9, <1>10 DEF Rest
<1> QED BY <1>1, <1>2, <1>3, <1>4, <1>5, <1>6, <1>7, <1>8, <1>9, <1>10 DEF Next, Server

\* The file stays mapped while a part of it may have to be sent, and mappings are left
\* behind only by responses that were cut short, one by each.
THEOREM MappingsAreKept == Spec => []MappedExactly
<1>1. MapInv => MappedExactly
  <2> SUFFICES ASSUME MapInv PROVE MappedExactly
    OBVIOUS
  <2>1. leaked <= aborts
    <3>1. PICK c : c = Held(wr, Closed)
      OBVIOUS
    <3>2. leaked \in Nat /\ aborts \in Nat /\ c \in 0..1 /\ leaked + c <= aborts
      BY <3>1, HeldBounds DEF MapInv
    <3> QED BY <3>2
  <2>2. ASSUME ~Closed, wr.bytes_to_send > 0, wr.m_iv_count = 2 PROVE wr.m_file_address = "map"
    <3>1. ~Waits
      BY <2>2 DEF MapInv, Idle
    <3> QED BY <2>2, <3>1 DEF MapInv, Loaded
  <2> QED BY <2>1, <2>2 DEF MappedExactly
<1> QED BY <1>1, MapInit, MapNext, PTL DEF Spec

-----------------------------------------------------------------------------
(* The order                                                               *)

Sendable == ErrorPage \cup {"FILE_REQUEST"}
Total(ret)   == IF ret \in ErrorPage THEN PageLen ELSE HeaderLen + FileLen
InBuffer(ret) == IF ret \in ErrorPage THEN PageLen ELSE HeaderLen

\* The k-th byte of a response.
Cell(ret, k) == IF k <= InBuffer(ret) THEN <<"buf", k - 1>> ELSE <<"file", k - InBuffer(ret) - 1>>

LEMMA Sizes ==
  ASSUME NEW ret \in Sendable
  PROVE  /\ Total(ret) \in Nat /\ InBuffer(ret) \in Nat /\ InBuffer(ret) > 0
         /\ InBuffer(ret) <= Total(ret)
         /\ ret \in ErrorPage => InBuffer(ret) = Total(ret) /\ InBuffer(ret) = PageLen
         /\ ret = "FILE_REQUEST" =>
              Total(ret) = InBuffer(ret) + FileLen /\ InBuffer(ret) = HeaderLen
  BY ResponseAssumption DEF Sendable, ErrorPage, Total, InBuffer

LEMMA ResponseCells ==
  ASSUME NEW ret \in Sendable
  PROVE  /\ Response(ret) \in Seq(Cells) /\ Len(Response(ret)) = Total(ret)
         /\ \A k \in 1..Total(ret) : Response(ret)[k] = Cell(ret, k)
<1>C. PICK C : C = Cells
  OBVIOUS
<1>1. CASE ret \in ErrorPage
  <2>a. PICK a : a = Bytes("buf", 0, PageLen)
    OBVIOUS
  <2>1. a \in Seq(C) /\ Len(a) = PageLen /\ \A k \in 1..PageLen : a[k] = <<"buf", 0 + k - 1>>
    BY <1>C, <2>a, BytesLen, ResponseAssumption DEF Bytes, Cells
  <2>2. Response(ret) = a
    BY <1>1, <2>a DEF Response, ErrorPage
  <2>3. Total(ret) = PageLen /\ InBuffer(ret) = PageLen
    BY <1>1 DEF Total, InBuffer
  <2>4. ASSUME NEW k \in 1..PageLen PROVE a[k] = <<"buf", k - 1>> /\ k <= InBuffer(ret)
    BY <2>1, <2>3, ResponseAssumption
  <2> QED BY <1>C, <2>1, <2>2, <2>3, <2>4 DEF Cell
<1>2. CASE ret = "FILE_REQUEST"
  <2>a. PICK a : a = Bytes("buf", 0, HeaderLen)
    OBVIOUS
  <2>1. a \in Seq(C) /\ Len(a) = HeaderLen /\ \A k \in 1..HeaderLen : a[k] = <<"buf", 0 + k - 1>>
    BY <1>C, <2>a, BytesLen, ResponseAssumption DEF Bytes, Cells
  <2>b. PICK b : b = Bytes("file", 0, FileLen)
    OBVIOUS
  <2>2. b \in Seq(C) /\ Len(b) = FileLen /\ \A k \in 1..FileLen : b[k] = <<"file", 0 + k - 1>>
    BY <1>C, <2>b, BytesLen, ResponseAssumption DEF Bytes, Cells
  <2>3. Response(ret) = a \o b
    BY <1>2, <2>a, <2>b DEF Response, ErrorPage
  <2>4. Total(ret) = HeaderLen + FileLen /\ InBuffer(ret) = HeaderLen
    BY <1>2 DEF Total, InBuffer, ErrorPage
  <2>5. /\ a \o b \in Seq(C) /\ Len(a \o b) = Len(a) + Len(b)
        /\ \A k \in 1..(Len(a) + Len(b)) :
             (a \o b)[k] = IF k <= Len(a) THEN a[k] ELSE b[k - Len(a)]
    BY <2>1, <2>2, ConcatProperties
  <2>6. /\ Len(a \o b) = HeaderLen + FileLen
        /\ \A k \in 1..(HeaderLen + FileLen) :
             (a \o b)[k] = IF k <= HeaderLen THEN a[k] ELSE b[k - HeaderLen]
    BY <2>1, <2>2, <2>5, Zenon
  <2>7. ASSUME NEW k \in 1..(HeaderLen + FileLen) PROVE (a \o b)[k] = Cell(ret, k)
    <3>1. CASE k <= HeaderLen
      <4>1. k \in 1..HeaderLen /\ 0 + k - 1 = k - 1
        BY <3>1, ResponseAssumption
      <4>2. a[k] = <<"buf", k - 1>>
        BY <2>1, <4>1
      <4> QED BY <2>4, <2>6, <3>1, <4>2 DEF Cell
    <3>2. CASE ~(k <= HeaderLen)
      <4>1. k - HeaderLen \in 1..FileLen /\ 0 + (k - HeaderLen) - 1 = k - HeaderLen - 1
        BY <3>2, ResponseAssumption
      <4>2. b[k - HeaderLen] = <<"file", k - HeaderLen - 1>>
        BY <2>2, <4>1
      <4> QED BY <2>4, <2>6, <3>2, <4>2 DEF Cell
    <3> QED BY <3>1, <3>2
  <2> QED BY <1>C, <2>3, <2>4, <2>5, <2>6, <2>7
<1> QED BY <1>1, <1>2 DEF Sendable

\* How far the vectors have come, as long as no two writes ended inside the header.
Pointing(w, ret, short) ==
  /\ w.bytes_have_send < InBuffer(ret) =>
       /\ w.m_iv[1].base = w.bytes_have_send
       /\ w.m_iv[1].len = InBuffer(ret) - w.bytes_have_send
       /\ short = 0 => w.bytes_have_send = 0
       /\ ret = "FILE_REQUEST" => w.m_iv[2].base = 0 /\ w.m_iv[2].len = FileLen
  /\ w.bytes_have_send >= InBuffer(ret) =>
       /\ w.m_iv[1].len = 0
       /\ w.m_iv[2].base = w.bytes_have_send - InBuffer(ret)
       /\ w.m_iv[2].len = w.bytes_to_send

\* A response that is being sent, of which the client has got what was sent.
Sending(w, ret, got, short) ==
  /\ ret \in Sendable
  /\ w.bytes_have_send + w.bytes_to_send = Total(ret) /\ Len(got) = w.bytes_have_send
  /\ w.m_write_idx = InBuffer(ret)
  /\ w.m_iv_count = IF ret \in ErrorPage THEN 1 ELSE 2
  /\ short < 2 => /\ Pointing(w, ret, short)
                  /\ \A k \in 1..w.bytes_have_send : got[k] = Cell(ret, k)

OrderInv ==
  /\ out \in Seq(Cells) /\ cuts \in 0..2 /\ result \in Results \cup {"none"}
  /\ result = "none" => out = <<>> /\ cuts = 0
  /\ wr.bytes_to_send > 0 => Sending(wr, result, out, cuts)
  /\ wr.bytes_to_send = 0 /\ cuts < 2 => out = Response(result)

\* The bytes a writev takes are the next ones of the response.
LEMMA NextCells ==
  ASSUME NEW w \in Writer, NEW ret \in Sendable, NEW short, Pointing(w, ret, short),
         w.bytes_to_send > 0, w.bytes_have_send + w.bytes_to_send = Total(ret),
         w.m_iv_count = IF ret \in ErrorPage THEN 1 ELSE 2
  PROVE  \A k \in 1..InVecs(w) : Gathered(w)[k] = Cell(ret, w.bytes_have_send + k)
<1>h. PICK h : h = w.bytes_have_send
  OBVIOUS
<1>i. PICK i : i = InBuffer(ret)
  OBVIOUS
<1>f. PICK f : f = w.m_iv[1]
  OBVIOUS
<1>g. PICK g : g = w.m_iv[2]
  OBVIOUS
<1>l. PICK l : l = InVecs(w)
  OBVIOUS
<1>0. h \in Nat /\ i \in Nat /\ i > 0
  BY <1>h, <1>i, Sizes DEF Writer
<1>1. /\ l \in Nat
      /\ \A k \in 1..l : Gathered(w)[k] = IF k <= f.len THEN <<"buf", f.base + k - 1>>
                                                       ELSE <<"file", g.base + k - f.len - 1>>
  BY <1>f, <1>g, <1>l, GatheredCells
<1>2. CASE h < i
  <2>1. f.base = h /\ f.len = i - h /\ (ret = "FILE_REQUEST" => g.base = 0)
    BY <1>2, <1>h, <1>i, <1>f, <1>g DEF Pointing
  <2>2. ret \in ErrorPage => l = i - h
    <3>1. ASSUME ret \in ErrorPage PROVE l = i - h
      <4>1. l = f.len + 0
        BY <1>f, <1>l, <3>1 DEF InVecs
      <4> QED BY <1>0, <2>1, <4>1
    <3> QED BY <3>1
  <2>3. ASSUME NEW k \in 1..l PROVE Gathered(w)[k] = Cell(ret, h + k)
    <3>1. CASE k <= i - h
      <4>1. h + k <= i
        BY <1>0, <1>1, <3>1
      <4>2. Gathered(w)[k] = <<"buf", h + k - 1>>
        BY <1>1, <2>1, <3>1
      <4>j. PICK j : j = h + k
        OBVIOUS
      <4>3. j <= InBuffer(ret) /\ Gathered(w)[k] = <<"buf", j - 1>>
        BY <1>0, <1>1, <1>i, <4>1, <4>2, <4>j
      <4>4. Cell(ret, j) = <<"buf", j - 1>>
        BY <4>3 DEF Cell
      <4> QED BY <4>3, <4>4, <4>j
    <3>2. CASE ~(k <= i - h)
      <4>1. ret = "FILE_REQUEST"
        BY <1>0, <1>1, <2>2, <3>2 DEF Sendable
      <4>2. Gathered(w)[k] = <<"file", 0 + k - (i - h) - 1>>
        BY <1>1, <2>1, <3>2, <4>1
      <4>3. ~(h + k <= i) /\ 0 + k - (i - h) - 1 = (h + k) - i - 1
        BY <1>0, <1>1, <3>2
      <4> QED BY <1>i, <4>2, <4>3 DEF Cell
    <3> QED BY <3>1, <3>2
  <2> QED BY <1>h, <1>l, <2>3
<1>3. CASE ~(h < i)
  <2>1. f.len = 0 /\ g.base = h - i
    <3>1. h >= i
      BY <1>0, <1>3
    <3> QED BY <3>1, <1>h, <1>i, <1>f, <1>g DEF Pointing
  <2>3. ASSUME NEW k \in 1..l PROVE Gathered(w)[k] = Cell(ret, h + k)
    <3>1. ~(k <= 0)
      BY <1>1
    <3>2. Gathered(w)[k] = <<"file", (h - i) + k - 0 - 1>>
      BY <1>1, <2>1, <3>1
    <3>3. ~(h + k <= i) /\ (h - i) + k - 0 - 1 = (h + k) - i - 1
      BY <1>0, <1>1, <1>3
    <3> QED BY <1>i, <3>2, <3>3 DEF Cell
  <2> QED BY <1>h, <1>l, <2>3
<1> QED BY <1>2, <1>3

LEMMA TakenCells ==
  ASSUME NEW got \in Seq(Cells), NEW g \in Seq(Cells), NEW n \in Nat, n <= Len(g),
         NEW s, s = got \o SubSeq(g, 1, n)
  PROVE  /\ s \in Seq(Cells) /\ Len(s) = Len(got) + n
         /\ \A k \in 1..Len(got) : s[k] = got[k]
         /\ \A k \in 1..n : s[Len(got) + k] = g[k]
<1>C. PICK C : C = Cells
  OBVIOUS
<1>b. PICK b : b = SubSeq(g, 1, n)
  OBVIOUS
<1>1. got \in Seq(C) /\ g \in Seq(C) /\ Len(got) \in Nat
  BY <1>C
<1>2. b \in Seq(C) /\ Len(b) = n /\ \A k \in 1..n : b[k] = g[k]
  BY <1>1, <1>b
<1>3. /\ s \in Seq(C) /\ Len(s) = Len(got) + Len(b)
      /\ \A k \in 1..(Len(got) + Len(b)) :
           s[k] = IF k <= Len(got) THEN got[k] ELSE b[k - Len(got)]
  BY <1>1, <1>2, <1>b, ConcatProperties
<1>l. PICK l : l = Len(got)
  OBVIOUS
<1>4. l \in Nat /\ \A k \in 1..(l + n) : s[k] = IF k <= l THEN got[k] ELSE b[k - l]
  BY <1>1, <1>2, <1>3, <1>l
<1>5. ASSUME NEW k \in 1..l PROVE s[k] = got[k]
  <2>1. k \in 1..(l + n) /\ k <= l
    BY <1>4
  <2> QED BY <1>4, <2>1
<1>6. ASSUME NEW k \in 1..n PROVE s[l + k] = g[k]
  <2>j. PICK j : j = l + k
    OBVIOUS
  <2>1. j \in 1..(l + n) /\ ~(j <= l) /\ j - l = k
    BY <1>4, <2>j
  <2>2. s[j] = b[k]
    BY <1>4, <2>1
  <2> QED BY <1>2, <2>2, <2>j
<1> QED BY <1>C, <1>2, <1>3, <1>5, <1>6, <1>l

\* A writev goes on where the one before stopped.
LEMMA SendingGoesOn ==
  ASSUME NEW w \in Writer, NEW ret, NEW got \in Seq(Cells), NEW short \in 0..2,
         Loaded(w), Sending(w, ret, got, short),
         NEW n \in Nat, n <= InVecs(w), NEW r, r = Advanced(w, n),
         NEW s, s = After(got, w, n), NEW more, more = Counted(r, short)
  PROVE  s \in Seq(Cells) /\ more \in 0..2 /\ Sending(r, ret, s, more)
<1>h. PICK h : h = w.bytes_have_send
  OBVIOUS
<1>t. PICK t : t = w.bytes_to_send
  OBVIOUS
<1>i. PICK i : i = InBuffer(ret)
  OBVIOUS
<1>j. PICK j : j = r.bytes_have_send
  OBVIOUS
<1>0. h \in Nat /\ t \in Nat /\ t > 0 /\ ret \in Sendable /\ i \in Nat /\ i > 0
  BY <1>h, <1>t, <1>i, Sizes DEF Writer, Loaded, Sending
<1>1. /\ r \in Writer /\ j = h + n /\ r.bytes_to_send = t - n
      /\ r.m_write_idx = w.m_write_idx /\ r.m_iv_count = w.m_iv_count
      /\ j >= w.m_iv[1].len => r.m_iv[1].len = 0 /\ r.m_iv[2].base = j - r.m_write_idx
                               /\ r.m_iv[2].len = r.bytes_to_send
      /\ j < w.m_iv[1].len => r.m_iv[1].base = j /\ r.m_iv[1].len = w.m_iv[1].len - j
                              /\ r.m_iv[2] = w.m_iv[2]
  BY <1>h, <1>t, <1>j, AdvancedOK DEF Loaded
<1>2. /\ h + t = Total(ret) /\ Len(got) = h /\ w.m_write_idx = i
      /\ w.m_iv_count = IF ret \in ErrorPage THEN 1 ELSE 2
  BY <1>h, <1>t, <1>i DEF Sending
<1>3. /\ s \in Seq(Cells) /\ Len(s) = h + n
      /\ \A k \in 1..h : s[k] = got[k]
      /\ \A k \in 1..n : s[h + k] = Gathered(w)[k]
  <2>g. PICK g : g = Gathered(w)
    OBVIOUS
  <2>1. g \in Seq(Cells) /\ n <= Len(g) /\ s = got \o SubSeq(g, 1, n)
    BY <2>g, GatheredCells DEF After
  <2>2. /\ s \in Seq(Cells) /\ Len(s) = Len(got) + n
        /\ \A k \in 1..Len(got) : s[k] = got[k]
        /\ \A k \in 1..n : s[Len(got) + k] = g[k]
    BY <2>1, TakenCells
  <2> QED BY <1>2, <2>g, <2>2, Zenon
<1>4. more \in 0..2 /\ (more < 2 => short < 2 /\ (j < i => short = 0 /\ more = 1))
  <2>1. j \in Nat /\ r.m_write_idx = i
    BY <1>0, <1>1, <1>2
  <2>2. CASE j < i /\ short < 2
    <3>1. more = short + 1
      BY <2>1, <2>2, <1>j DEF Counted
    <3> QED BY <2>2, <3>1
  <2>3. CASE ~(j < i /\ short < 2)
    <3>1. more = short
      BY <2>1, <2>3, <1>j DEF Counted
    <3> QED BY <2>3, <3>1
  <2> QED BY <2>2, <2>3
<1>5. j + r.bytes_to_send = Total(ret) /\ Len(s) = j
  BY <1>0, <1>1, <1>2, <1>3
<1>6. ASSUME more < 2 PROVE Pointing(r, ret, more) /\ \A k \in 1..j : s[k] = Cell(ret, k)
  <2>1. /\ Pointing(w, ret, short) /\ \A k \in 1..h : got[k] = Cell(ret, k)
        /\ short < 2 /\ (j < i => short = 0 /\ more = 1)
    BY <1>4, <1>6, <1>h DEF Sending
  <2>2. \A k \in 1..InVecs(w) : Gathered(w)[k] = Cell(ret, h + k)
    BY <1>0, <1>2, <2>1, <1>h, <1>t, NextCells
  <2>3. ASSUME NEW k \in 1..j PROVE s[k] = Cell(ret, k)
    <3>1. CASE k <= h
      BY <1>0, <1>3, <2>1, <3>1
    <3>2. CASE ~(k <= h)
      <4>m. PICK m : m = k - h
        OBVIOUS
      <4>l. PICK l : l = InVecs(w)
        OBVIOUS
      <4>1. m \in 1..n /\ h + m = k /\ l \in Nat /\ m \in 1..l
        BY <1>0, <1>1, <3>2, <4>m, <4>l, GatheredCells
      <4>2. s[h + m] = Gathered(w)[m]
        BY <1>3, <4>1
      <4>3. Gathered(w)[m] = Cell(ret, h + m)
        BY <2>2, <4>1, <4>l
      <4> QED BY <4>1, <4>2, <4>3
    <3> QED BY <3>1, <3>2
  <2>4. CASE j < i
    <3>1. /\ h < i /\ short = 0
      BY <1>0, <1>1, <2>1, <2>4
    <3>2. /\ h = 0 /\ w.m_iv[1].len = i - h
          /\ ret = "FILE_REQUEST" => w.m_iv[2].base = 0 /\ w.m_iv[2].len = FileLen
      BY <2>1, <3>1, <1>h, <1>i DEF Pointing
    <3>3. j < w.m_iv[1].len /\ w.m_iv[1].len = i
      BY <1>0, <2>4, <3>2
    <3>4. r.m_iv[1].base = j /\ r.m_iv[1].len = i - j /\ r.m_iv[2] = w.m_iv[2] /\ ~(j >= i)
      BY <1>0, <1>1, <2>4, <3>3
    <3>5. more # 0
      BY <2>1, <2>4
    <3>6. Pointing(r, ret, more)
      BY <3>2, <3>4, <3>5, <1>i, <1>j DEF Pointing
    <3> QED BY <2>3, <3>6
  <2>5. CASE ~(j < i)
    <3>1. j >= w.m_iv[1].len
      <4>1. CASE h < i
        <5>1. w.m_iv[1].len = i - h
          BY <2>1, <4>1, <1>h, <1>i DEF Pointing
        <5> QED BY <1>0, <1>1, <2>5, <5>1
      <4>2. CASE ~(h < i)
        <5>1. h >= i
          BY <1>0, <4>2
        <5>2. w.m_iv[1].len = 0
          BY <2>1, <5>1, <1>h, <1>i DEF Pointing
        <5> QED BY <1>0, <1>1, <5>2
      <4> QED BY <4>1, <4>2
    <3>2. r.m_iv[1].len = 0 /\ r.m_iv[2].base = j - i /\ r.m_iv[2].len = r.bytes_to_send
      BY <1>1, <1>2, <3>1
    <3>3. Pointing(r, ret, more)
      BY <2>5, <3>2, <1>i, <1>j DEF Pointing
    <3> QED BY <2>3, <3>3
  <2> QED BY <2>4, <2>5
<1>7. r.m_write_idx = InBuffer(ret) /\ r.m_iv_count = IF ret \in ErrorPage THEN 1 ELSE 2
  BY <1>1, <1>2, <1>i
<1>8. Sending(r, ret, s, more)
  BY <1>0, <1>5, <1>6, <1>7, <1>j DEF Sending
<1> QED BY <1>3, <1>4, <1>8

\* All sent is the whole response.
LEMMA SentAll ==
  ASSUME NEW w, NEW ret, NEW got \in Seq(Cells), NEW short,
         Sending(w, ret, got, short), w.bytes_have_send \in Nat, w.bytes_to_send = 0, short < 2
  PROVE  got = Response(ret)
<1>a. PICK a : a = Response(ret)
  OBVIOUS
<1>t. PICK t : t = Total(ret)
  OBVIOUS
<1>C. PICK C : C = Cells
  OBVIOUS
<1>1. ret \in Sendable /\ w.bytes_have_send = t /\ t \in Nat
  BY <1>t, Sizes DEF Sending
<1>2. Len(got) = t /\ \A k \in 1..t : got[k] = Cell(ret, k)
  BY <1>1 DEF Sending
<1>3. a \in Seq(C) /\ Len(a) = t /\ \A k \in 1..t : a[k] = Cell(ret, k)
  BY <1>1, <1>a, <1>t, <1>C, ResponseCells
<1>4. got \in Seq(C)
  BY <1>C
<1>5. \A k \in 1..t : got[k] = a[k]
  BY <1>2, <1>3
<1>6. got = a
  BY <1>2, <1>3, <1>4, <1>5, <1>1
<1> QED BY <1>6, <1>a

\* Only the address of the mapping changes.
LEMMA SendingUnmapped ==
  ASSUME NEW w \in Writer, NEW u, u = unmap(w), NEW ret, NEW got, NEW short
  PROVE  Sending(u, ret, got, short) <=> Sending(w, ret, got, short)
<1>1. /\ u.bytes_to_send = w.bytes_to_send /\ u.bytes_have_send = w.bytes_have_send
      /\ u.m_write_idx = w.m_write_idx /\ u.m_iv_count = w.m_iv_count /\ u.m_iv = w.m_iv
  BY UnmapOK
<1> QED BY <1>1 DEF Sending, Pointing

LEMMA NothingToSend == Response("none") = <<>> /\ Response("EMPTY_FILE") = <<>>
                       /\ Response("NO_RESOURCE") = <<>>
  BY DEF Response, ErrorPage

LEMMA OrderInit == Init => OrderInv
<1> SUFFICES ASSUME Init PROVE OrderInv
  OBVIOUS
<1>1. wr.bytes_to_send = 0 /\ out = <<>> /\ result = "none" /\ cuts = 0
  BY DEF Init
<1>2. ~(wr.bytes_to_send > 0)
  BY <1>1
<1> QED BY <1>1, <1>2, NothingToSend DEF OrderInv

LEMMA StaysInOrder ==
  ASSUME OrderInv, UNCHANGED <<wr, result, out, cuts>>
  PROVE  OrderInv'
  BY DEF OrderInv

LEMMA UnmappedInOrder ==
  ASSUME OrderInv, wr \in Writer, wr' = unmap(wr), UNCHANGED <<result, out, cuts>>
  PROVE  OrderInv'
<1>u. PICK u : u = unmap(wr)
  OBVIOUS
<1>1. u.bytes_to_send = wr.bytes_to_send
  BY <1>u, UnmapOK
<1>2. Sending(u, result, out, cuts) <=> Sending(wr, result, out, cuts)
  BY <1>u, SendingUnmapped
<1> QED BY <1>u, <1>1, <1>2 DEF OrderInv

LEMMA AcceptInOrder == ASSUME OrderInv, wr \in Writer, Accept PROVE OrderInv'
<1>1. wr' = init_write(wr) /\ out' = <<>> /\ result' = "none" /\ cuts' = 0
  BY DEF Accept, init
<1>2. wr'.bytes_to_send = 0
  BY <1>1, ResetOK DEF Idle
<1>3. ~(wr'.bytes_to_send > 0)
  BY <1>2
<1> QED BY <1>1, <1>3, NothingToSend DEF OrderInv

\* A client that has all of the response finds nobody writing.
LEMMA AnsweredIsSent ==
  ASSUME OrderInv, wr \in Writer, Answered
  PROVE  ~(wr.bytes_to_send > 0)
<1>t. PICK t : t = wr.bytes_to_send
  OBVIOUS
<1>h. PICK h : h = wr.bytes_have_send
  OBVIOUS
<1>1. t \in Nat /\ h \in Nat
  BY <1>t, <1>h DEF Writer
<1>2. SUFFICES ASSUME t > 0 PROVE FALSE
  BY <1>t
<1>3. Sending(wr, result, out, cuts)
  BY <1>t, <1>2 DEF OrderInv
<1>4. result \in Sendable /\ h + t = Total(result) /\ Len(out) = h
  BY <1>h, <1>t, <1>3 DEF Sending
<1>5. Len(out) = Total(result)
  BY <1>4, ResponseCells DEF Answered
<1> QED BY <1>1, <1>2, <1>4, <1>5

\* Only a client that has got all of the response sends the next request.
LEMMA AgainInOrder == ASSUME OrderInv, wr \in Writer, Again PROVE OrderInv'
<1>1. wr' = wr /\ out' = <<>> /\ result' = "none" /\ cuts' = 0 /\ Answered
  BY DEF Again, conn
<1>2. ~(wr.bytes_to_send > 0)
  BY <1>1, AnsweredIsSent
<1> QED BY <1>1, <1>2, NothingToSend DEF OrderInv

LEMMA AnswersInOrder ==
  ASSUME OrderInv, wr \in Writer, Idle(wr), result = "none",
         NEW ret \in Results, Answers(ret), UNCHANGED <<out, cuts>>
  PROVE  OrderInv'
<1>x. PICK x : x = process_write(Mapped(wr, ret), ret)
  OBVIOUS
<1>w. PICK w : w = x.rec
  OBVIOUS
<1>1. wr' = w /\ result' = ret /\ out' = <<>> /\ cuts' = 0
  BY <1>x, <1>w DEF Answers, OrderInv
<1>2. /\ w \in Writer /\ w.bytes_have_send = 0
      /\ x.ok => ret \in Sendable
      /\ ~x.ok => ret \in {"EMPTY_FILE", "NO_RESOURCE"} /\ w.bytes_to_send = 0
      /\ ret \in ErrorPage =>
           /\ w.m_write_idx = PageLen /\ w.bytes_to_send = PageLen /\ w.m_iv_count = 1
           /\ w.m_iv[1].base = 0 /\ w.m_iv[1].len = PageLen
      /\ ret = "FILE_REQUEST" =>
           /\ w.m_write_idx = HeaderLen /\ w.bytes_to_send = HeaderLen + FileLen
           /\ w.m_iv_count = 2 /\ w.m_iv[1].base = 0 /\ w.m_iv[1].len = HeaderLen
           /\ w.m_iv[2].base = 0 /\ w.m_iv[2].len = FileLen
  BY <1>x, <1>w, AnswerOK DEF Sendable
<1>3. CASE x.ok
  <2>1. ret \in Sendable
    BY <1>2, <1>3
  <2>2. Sending(w, ret, <<>>, 0) /\ w.bytes_to_send # 0
    <3>1. CASE ret \in ErrorPage
      <4>1. InBuffer(ret) = PageLen /\ Total(ret) = PageLen /\ ret # "FILE_REQUEST"
        BY <3>1, <2>1, Sizes DEF ErrorPage
      <4>2. Pointing(w, ret, 0)
        BY <1>2, <3>1, <4>1, ResponseAssumption DEF Pointing
      <4> QED BY <1>2, <2>1, <3>1, <4>1, <4>2, ResponseAssumption DEF Sending
    <3>2. CASE ret = "FILE_REQUEST"
      <4>1. InBuffer(ret) = HeaderLen /\ Total(ret) = HeaderLen + FileLen /\ ret \notin ErrorPage
        BY <3>2, <2>1, Sizes DEF ErrorPage
      <4>2. Pointing(w, ret, 0)
        BY <1>2, <3>2, <4>1, ResponseAssumption DEF Pointing
      <4> QED BY <1>2, <2>1, <3>2, <4>1, <4>2, ResponseAssumption DEF Sending
    <3> QED BY <2>1, <3>1, <3>2 DEF Sendable
  <2> QED BY <1>1, <2>2 DEF OrderInv
<1>4. CASE ~x.ok
  <2>1. w.bytes_to_send = 0 /\ ~(w.bytes_to_send > 0) /\ Response(ret) = <<>>
    BY <1>2, <1>4, NothingToSend
  <2>2. ret # "none"
    BY <1>2, <1>4
  <2> QED BY <1>1, <2>1, <2>2 DEF OrderInv
<1> QED BY <1>3, <1>4

LEMMA ProcessInOrder ==
  ASSUME OrderInv, MapInv, AnsweredOnce, process
  PROVE  OrderInv'
<1>1. /\ wr \in Writer /\ Idle(wr) /\ result = "none" /\ UNCHANGED <<out, cuts>>
  BY DEF MapInv, Waits, AnsweredOnce, process, client
<1>2. CASE UNCHANGED <<wr, result>>
  BY <1>1, <1>2, StaysInOrder
<1>3. CASE Answers("BAD_REQUEST")
  BY <1>1, <1>3, AnswersInOrder DEF Results, ErrorPage
<1>4. ASSUME NEW ret \in FileResults, Answers(ret) PROVE OrderInv'
  BY <1>1, <1>4, AnswersInOrder, ConnAssumption DEF Results
<1> QED BY <1>2, <1>3, <1>4 DEF process

LEMMA WritevInOrder == ASSUME OrderInv, MapInv, Writev PROVE OrderInv'
<1>0. wr \in Writer /\ Loaded(wr)
  BY DEF MapInv, Writes, Writev
<1>1. PICK n, r : /\ Takes(n, r) /\ UNCHANGED result
                  /\ \/ r.bytes_to_send > 0 /\ wr' = r
                     \/ r.bytes_to_send <= 0 /\ wr' = init_write(unmap(r))
                     \/ r.bytes_to_send <= 0 /\ wr' = unmap(r)
  BY <1>0, WritevTakes
<1>2. /\ out \in Seq(Cells) /\ cuts \in 0..2 /\ result \in Results \cup {"none"}
      /\ Sending(wr, result, out, cuts)
  BY <1>0 DEF OrderInv, Loaded
<1>3. /\ n \in Nat /\ n <= InVecs(wr) /\ r = Advanced(wr, n)
      /\ out' = After(out, wr, n) /\ cuts' = Counted(r, cuts)
  BY <1>1 DEF Takes
<1>4. out' \in Seq(Cells) /\ cuts' \in 0..2 /\ Sending(r, result, out', cuts')
  BY <1>0, <1>2, <1>3, SendingGoesOn
<1>5. r \in Writer
  BY <1>0, <1>3, AdvancedOK DEF Loaded
<1>6. result' \in Results /\ result' # "none"
  BY <1>1, <1>4 DEF Sending, Sendable, ErrorPage, Results
<1>7. CASE r.bytes_to_send > 0 /\ wr' = r
  <2>1. wr'.bytes_to_send # 0
    BY <1>7
  <2> QED BY <1>1, <1>4, <1>6, <1>7, <2>1 DEF OrderInv
<1>8. CASE r.bytes_to_send <= 0 /\ (wr' = init_write(unmap(r)) \/ wr' = unmap(r))
  <2>1. r.bytes_to_send = 0 /\ r.bytes_have_send \in Nat
    BY <1>5, <1>8 DEF Writer
  <2>2. wr'.bytes_to_send = 0
    <3>1. unmap(r) \in Writer /\ unmap(r).bytes_to_send = 0
      BY <1>5, <2>1, UnmapOK
    <3>2. init_write(unmap(r)).bytes_to_send = 0
      BY <3>1, ResetOK DEF Idle
    <3> QED BY <1>8, <3>1, <3>2
  <2>3. cuts' < 2 => out' = Response(result)
    BY <1>4, <2>1, SentAll
  <2>4. ~(wr'.bytes_to_send > 0)
    BY <2>2
  <2> QED BY <1>1, <1>4, <1>6, <2>3, <2>4 DEF OrderInv
<1> QED BY <1>1, <1>7, <1>8

LEMMA OrderNext ==
  ASSUME OrderInv, MapInv, AnsweredOnce, [Next]_vars
  PROVE  OrderInv'
<1>w. wr \in Writer
  BY DEF MapInv
<1>1. CASE Send \/ Drain \/ Hangup
  BY <1>1, StaysInOrder DEF Send, Drain, Hangup, conn, history, client
<1>2. CASE Again
  BY <1>w, <1>2, AgainInOrder
<1>3. CASE Accept
  BY <1>w, <1>3, AcceptInOrder
<1>4. CASE Hup \/ Timeout \/ RecvFails
  BY <1>4, StaysInOrder DEF Hup, Timeout, RecvFails, Close, conn, client
<1>5. CASE WritevFails
  BY <1>w, <1>5, UnmappedInOrder DEF WritevFails, Close, client
<1>6. CASE Report \/ Recv \/ RecvAgain \/ WritevAgain
  BY <1>6, StaysInOrder DEF Report, Recv, RecvAgain, WritevAgain, conn, history, client
<1>7. CASE process
  BY <1>7, ProcessInOrder
<1>8. CASE Writev
  BY <1>8, WritevInOrder
<1>9. CASE UNCHANGED vars
  BY <1>9, StaysInOrder DEF vars
<1>10. CASE Rest
  BY <1>9, <1>10 DEF Rest
<1> QED BY <1>1, <1>2, <1>3, <1>4, <1>5, <1>6, <1>7, <1>8, <1>9, <1>10 DEF Next, Server

-----------------------------------------------------------------------------
(* The loop of process_read *)

\* The least of a set of natural numbers.
LEMMA Least ==
  ASSUME NEW S \in SUBSET Nat, S # {}
  PROVE  \E m \in S : \A k \in S : m <= k
<1> DEFINE R == {ss \in Nat \X Nat : ss[1] < ss[2]}
<1>1. R = OpToRel(<, Nat)
  BY DEF OpToRel
<1>2. IsWellFoundedOn(R, Nat)
  BY <1>1, NatLessThanWellFounded
<1>3. \E x \in S : \A y \in S : ~ (<<y, x>> \in R)
  <2> HIDE DEF R
  <2> QED BY <1>2, WFMin
<1>4. PICK x \in S : \A y \in S : ~ (<<y, x>> \in R)
  BY <1>3
<1>5. ASSUME NEW k \in S PROVE x <= k
  <2>1. x \in Nat /\ k \in Nat
    OBVIOUS
  <2>2. <<k, x>> \notin R
    BY <1>4
  <2>3. ~(k < x)
    BY <2>1, <2>2
  <2> QED BY <2>1, <2>3
<1> QED BY <1>5

\* g gives the final state, in done, of a loop that goes on with nx.
Rounds(S, done, nx, g) == \A s \in S : g[s] = IF s \in done THEN s ELSE g[nx[s]]

\* There is such a function: its value is the one final state that every set with
\* the first state and closed under nx has.
LEMMA LoopExists ==
  ASSUME NEW S, NEW done \in SUBSET S, NEW nx \in [S -> S]
  PROVE  \E g : g = [s \in S |-> g[s]] /\ Rounds(S, done, nx, g)
<1> DEFINE Steady(P) == \A x \in P \ done : nx[x] \in P
           Ends(s) == {d \in done : \A P \in SUBSET S : s \in P /\ Steady(P) => d \in P}
           E == [s \in S |-> Ends(s)]
           F == [e \in SUBSET done |-> CHOOSE d \in S : e # {} => d \in e]
           G == [s \in S |-> F[E[s]]]
<1>1. ASSUME NEW s \in done PROVE G[s] = s
  <2>1. Steady({s})
    OBVIOUS
  <2>2. Ends(s) = {s}
    BY <2>1
  <2>3. E[s] = {s}
    BY <2>2
  <2>4. (CHOOSE d \in S : {s} # {} => d \in {s}) = s
    OBVIOUS
  <2>5. F[{s}] = s
    BY <2>4
  <2> HIDE DEF E, F
  <2> QED BY <2>3, <2>5
<1>2. ASSUME NEW s \in S, s \notin done PROVE G[s] = G[nx[s]]
  <2>1. nx[s] \in S
    OBVIOUS
  <2>2. ASSUME NEW d \in Ends(nx[s]) PROVE d \in Ends(s)
    <3>1. ASSUME NEW P \in SUBSET S, s \in P, Steady(P) PROVE d \in P
      <4>1. nx[s] \in P
        BY <1>2, <3>1
      <4> QED BY <4>1, <3>1
    <3> QED BY <3>1
  <2>3. ASSUME NEW d \in Ends(s) PROVE d \in Ends(nx[s])
    <3>1. ASSUME NEW P \in SUBSET S, nx[s] \in P, Steady(P) PROVE d \in P
      <4>1. Steady(P \cup {s})
        BY <3>1
      <4>2. P \cup {s} \in SUBSET S
        OBVIOUS
      <4>3. d \in P \cup {s}
        BY <4>1, <4>2
      <4> QED BY <4>3, <1>2
    <3> QED BY <3>1
  <2>4. Ends(s) = Ends(nx[s])
    <3> HIDE DEF Ends
    <3> QED BY <2>2, <2>3
  <2>5. E[s] = E[nx[s]]
    <3> HIDE DEF Ends
    <3> QED BY <2>4, <2>1
  <2> HIDE DEF E, F
  <2> QED BY <2>5, <2>1
<1>3. \A s \in S : G[s] = IF s \in done THEN s ELSE G[nx[s]]
  <2> HIDE DEF G
  <2> QED BY <1>1, <1>2
<1>4. G = [s \in S |-> G[s]]
  <2> HIDE DEF F, E
  <2> QED OBVIOUS
<1> HIDE DEF G
<1> QED BY <1>3, <1>4 DEF Rounds

\* What holds of the first state and is kept by every round holds of the final one, if
\* m counts the rounds down.
LEMMA LoopKeeps ==
  ASSUME NEW S, NEW done, NEW nx, NEW g, Rounds(S, done, nx, g),
         NEW m \in [S -> Nat], \A s \in S \ done : m[nx[s]] < m[s],
         NEW P \in SUBSET S, \A s \in P \ done : nx[s] \in P, NEW s0 \in P
  PROVE  g[s0] \in P \cap done
<1> USE DEF Rounds
<1> DEFINE Wrong == {s \in P : g[s] \notin P \cap done}
           M == {m[s] : s \in Wrong}
<1>1. SUFFICES ASSUME Wrong # {} PROVE FALSE
  OBVIOUS
<1>3. M \in SUBSET Nat /\ M # {}
  BY <1>1
<1>4. PICK k \in M : \A l \in M : k <= l
  <2> HIDE DEF M
  <2> QED BY <1>3, Least
<1>5. PICK s \in Wrong : m[s] = k
  BY <1>4
<1>6. s \notin done
  BY <1>5
<1>7. nx[s] \in P /\ m[nx[s]] < m[s] /\ g[nx[s]] = g[s]
  BY <1>6
<1>8. nx[s] \in Wrong
  BY <1>7
<1>9. m[nx[s]] \in M
  BY <1>8
<1>10. m[s] \in Nat /\ m[nx[s]] \in Nat
  BY <1>7
<1>11. k <= m[nx[s]]
  <2> HIDE DEF M
  <2> QED BY <1>9, <1>4
<1> QED BY <1>5, <1>7, <1>10, <1>11

-----------------------------------------------------------------------------
(* The parser *)

\* No line ends among the units of b behind the first i, up to the j-th.
Free(b, i, j) == \A n \in Nat : i < n /\ n <= j => b[n] \notin LineEnd

\* Where parse_line stops, and where it finds the end of a line.
Stops(b, c, i) ==
  /\ i \in c..Len(b) /\ Free(b, c, i)
  /\ i = Len(b) \/ b[i + 1] \in LineEnd
  /\ ~(i + 2 <= Len(b) /\ b[i + 1] = "CR" /\ b[i + 2] = "LF")
  /\ ~(i > 1 /\ i < Len(b) /\ b[i + 1] = "LF" /\ b[i] = "CR")
Splits(b, c, i) ==
  /\ i \in Nat /\ i + 2 <= Len(b) /\ b[i + 1] = "CR" /\ b[i + 2] = "LF"
  /\ (i >= c /\ Free(b, c, i)) \/ (i + 1 = c /\ c > 1)

LEMMA Fields ==
  ASSUME NEW r \in Indexed
  PROVE  /\ r \in Parser
         /\ r.m_check_state \in CheckState /\ r.m_linger \in BOOLEAN /\ r.m_content_length \in Nat
         /\ r.m_start_line \in Nat /\ r.m_checked_idx \in Nat /\ r.m_read_buf \in Seq(Unit)
         /\ Len(r.m_read_buf) \in Nat
         /\ r.m_start_line <= r.m_checked_idx /\ r.m_checked_idx <= Len(r.m_read_buf)
<1>1. r \in Parser /\ r.m_start_line <= r.m_checked_idx /\ r.m_checked_idx <= Len(r.m_read_buf)
  BY DEF Indexed
<1>s. PICK B : B = Seq(Unit)
  OBVIOUS
<1>2. /\ r.m_check_state \in CheckState /\ r.m_linger \in BOOLEAN /\ r.m_content_length \in Nat
      /\ r.m_start_line \in Nat /\ r.m_checked_idx \in Nat /\ r.m_read_buf \in B
  BY <1>1, <1>s DEF Parser
<1>b. PICK b : b = r.m_read_buf
  OBVIOUS
<1>3. b \in Seq(Unit)
  BY <1>2, <1>b, <1>s
<1>4. Len(b) \in Nat
  BY <1>3
<1> QED BY <1>1, <1>2, <1>3, <1>4, <1>b

\* parse_line stops, or splits off a line.
LEMMA LineParsed ==
  ASSUME NEW r \in Indexed, NEW x, x = parse_line(r)
  PROVE  \/ \E i, how : /\ how \in {"LINE_OPEN", "LINE_BAD"} /\ x = Stopped(r, how, i)
                        /\ Stops(r.m_read_buf, r.m_checked_idx, i)
         \/ \E i : x = Ended(r, i) /\ Splits(r.m_read_buf, r.m_checked_idx, i)
<1>b. PICK b : b = r.m_read_buf
  OBVIOUS
<1>c. PICK c : c = r.m_checked_idx
  OBVIOUS
<1>k. PICK k : k = Len(b)
  OBVIOUS
<1>0. b \in Seq(Unit) /\ c \in Nat /\ k \in Nat /\ c <= k
  BY Fields, <1>b, <1>c, <1>k
<1>e. PICK ends : ends = {i \in c..(k - 1) : b[i + 1] \in LineEnd}
  OBVIOUS
<1>f. PICK first : first = Min(ends)
  OBVIOUS
<1>1. x = IF ends = {} THEN Stopped(r, "LINE_OPEN", k)
          ELSE CASE b[first + 1] = "CR" /\ first + 1 = k -> Stopped(r, "LINE_OPEN", first)
                 [] b[first + 1] = "CR" /\ first + 1 < k /\ b[first + 1 + 1] = "LF" -> Ended(r, first)
                 [] b[first + 1] = "LF" /\ first > 1 /\ b[first - 1 + 1] = "CR" -> Ended(r, first - 1)
                 [] OTHER -> Stopped(r, "LINE_BAD", first)
  BY <1>b, <1>c, <1>k, <1>e, <1>f DEF parse_line
<1>2. CASE ends = {}
  <2>1. x = Stopped(r, "LINE_OPEN", k)
    BY <1>1, <1>2
  <2>2. Free(b, c, k)
    <3>1. ASSUME NEW n \in Nat, c < n, n <= k PROVE b[n] \notin LineEnd
      <4>1. n - 1 \in c..(k - 1) /\ n - 1 + 1 = n
        BY <1>0, <3>1
      <4> QED BY <1>2, <1>e, <4>1
    <3> QED BY <3>1 DEF Free
  <2>3. Stops(b, c, k)
    BY <1>0, <1>k, <2>2 DEF Stops
  <2> QED BY <1>b, <1>c, <2>1, <2>3
<1>3. CASE ends # {}
  <2>1. first \in ends /\ \A n \in ends : first <= n
    <3>1. ends \in SUBSET Nat
      BY <1>0, <1>e
    <3>2. \E m \in ends : \A n \in ends : m <= n
      BY <1>3, <3>1, Least
    <3> QED BY <1>f, <3>2 DEF Min
  <2>2. first \in Nat /\ c <= first /\ first + 1 <= k /\ b[first + 1] \in LineEnd
    BY <1>0, <1>e, <2>1
  <2>3. Free(b, c, first)
    <3>1. ASSUME NEW n \in Nat, c < n, n <= first, b[n] \in LineEnd PROVE FALSE
      <4>1. n - 1 \in c..(k - 1) /\ n - 1 + 1 = n /\ ~(first <= n - 1)
        BY <1>0, <2>2, <3>1
      <4> QED BY <1>e, <2>1, <3>1, <4>1
    <3> QED BY <3>1 DEF Free
  <2>4. CASE b[first + 1] = "CR" /\ first + 1 = k
    <3>1. x = Stopped(r, "LINE_OPEN", first)
      BY <1>1, <1>3, <2>2, <2>4 DEF LineEnd
    <3>2. Stops(b, c, first)
      BY <1>0, <1>k, <2>2, <2>3, <2>4 DEF Stops
    <3> QED BY <1>b, <1>c, <3>1, <3>2
  <2>5. CASE b[first + 1] = "CR" /\ first + 1 < k /\ b[first + 2] = "LF"
    <3>1. x = Ended(r, first)
      BY <1>1, <1>3, <2>2, <2>5 DEF LineEnd
    <3>2. Splits(b, c, first)
      BY <1>0, <1>k, <2>2, <2>3, <2>5 DEF Splits
    <3> QED BY <1>b, <1>c, <3>1, <3>2
  <2>6. CASE b[first + 1] = "LF" /\ first > 1 /\ b[first] = "CR"
    <3>1. x = Ended(r, first - 1)
      BY <1>1, <1>3, <2>2, <2>6 DEF LineEnd
    <3>2. first = c
      BY <1>0, <2>2, <2>3, <2>6 DEF Free, LineEnd
    <3>3. Splits(b, c, first - 1)
      BY <1>0, <1>k, <2>2, <2>6, <3>2 DEF Splits
    <3> QED BY <1>b, <1>c, <3>1, <3>3
  <2>7. CASE /\ ~(b[first + 1] = "CR" /\ first + 1 = k)
             /\ ~(b[first + 1] = "CR" /\ first + 1 < k /\ b[first + 2] = "LF")
             /\ ~(b[first + 1] = "LF" /\ first > 1 /\ b[first] = "CR")
    <3>1. x = Stopped(r, "LINE_BAD", first)
      BY <1>1, <1>3, <2>2, <2>7 DEF LineEnd
    <3>2. Stops(b, c, first)
      BY <1>0, <1>k, <2>2, <2>3, <2>7 DEF Stops
    <3> QED BY <1>b, <1>c, <3>1, <3>2
  <2> QED BY <2>4, <2>5, <2>6, <2>7
<1> QED BY <1>2, <1>3

\* v is u but for its indices.
SameText(v, u) ==
  /\ v.m_check_state = u.m_check_state /\ v.m_linger = u.m_linger
  /\ v.m_content_length = u.m_content_length /\ v.m_string = u.m_string

LEMMA StoppedOK ==
  ASSUME NEW r \in Indexed, NEW i \in Nat, r.m_checked_idx <= i, i <= Len(r.m_read_buf),
         NEW v, v = [r EXCEPT !.m_checked_idx = i]
  PROVE  /\ v \in Indexed /\ SameText(v, r) /\ v.m_checked_idx = i
         /\ v.m_start_line = r.m_start_line /\ v.m_read_buf = r.m_read_buf
<1>B. PICK B : B = Seq(Unit)
  OBVIOUS
<1>1. r \in Parser /\ r.m_start_line <= i /\ r.m_start_line \in Nat
  BY Fields
<1>2. r \in [m_check_state : CheckState, m_linger : BOOLEAN, m_content_length : Nat,
             m_start_line : Nat, m_checked_idx : Nat, m_read_buf : B, cgi : 0..1, m_string : B]
  BY <1>1, <1>B DEF Parser
<1>3. /\ v \in [m_check_state : CheckState, m_linger : BOOLEAN, m_content_length : Nat,
                m_start_line : Nat, m_checked_idx : Nat, m_read_buf : B, cgi : 0..1, m_string : B]
      /\ v.m_checked_idx = i /\ v.m_start_line = r.m_start_line
      /\ v.m_read_buf = r.m_read_buf /\ SameText(v, r)
  BY <1>2 DEF SameText
<1>4. v \in Parser
  BY <1>3, <1>B DEF Parser
<1>5. v.m_start_line <= v.m_checked_idx /\ v.m_checked_idx <= Len(v.m_read_buf)
  BY <1>1, <1>3
<1> QED BY <1>3, <1>4, <1>5 DEF Indexed

\* The next line starts where the last one ended; process_read moves m_start_line there.
LEMMA EndedOK ==
  ASSUME NEW r \in Indexed, NEW i \in Nat, i + 2 <= Len(r.m_read_buf), NEW e, e = Ended(r, i),
         NEW v, v = [e.rec EXCEPT !.m_start_line = e.rec.m_checked_idx]
  PROVE  /\ e.status = "LINE_OK" /\ e.rec.m_start_line = r.m_start_line
         /\ e.rec.m_checked_idx = i + 2
         /\ v \in Indexed /\ SameText(v, r)
         /\ v.m_checked_idx = i + 2 /\ v.m_start_line = i + 2
         /\ v.m_read_buf = e.rec.m_read_buf /\ Len(v.m_read_buf) = Len(r.m_read_buf)
         /\ \A j \in 1..Len(r.m_read_buf) :
              v.m_read_buf[j] = IF j = i + 1 \/ j = i + 2 THEN "NUL" ELSE r.m_read_buf[j]
<1>B. PICK B : B = Seq(Unit)
  OBVIOUS
<1>1. r \in Parser
  BY Fields
<1>2. r \in [m_check_state : CheckState, m_linger : BOOLEAN, m_content_length : Nat,
             m_start_line : Nat, m_checked_idx : Nat, m_read_buf : B, cgi : 0..1, m_string : B]
  BY <1>1, <1>B DEF Parser
<1>b. PICK b : b = r.m_read_buf
  OBVIOUS
<1>d. PICK d : d = [b EXCEPT ![i + 1] = "NUL", ![i + 2] = "NUL"]
  OBVIOUS
<1>3. b \in Seq(Unit) /\ Len(b) \in Nat /\ i + 2 <= Len(b)
  BY Fields, <1>b
<1>4. d \in Seq(Unit) /\ Len(d) = Len(b)
      /\ \A j \in 1..Len(b) : d[j] = IF j = i + 1 \/ j = i + 2 THEN "NUL" ELSE b[j]
  <2>x. PICK x : x = [b EXCEPT ![i + 1] = "NUL"]
    OBVIOUS
  <2>l. PICK l : l = Len(b)
    OBVIOUS
  <2>k. i + 1 \in 1..l /\ i + 2 \in 1..l
    BY <1>3, <2>l
  <2>s. "NUL" \in Unit
    BY DEF Unit
  <2>0. i + 1 \in 1..Len(b) /\ i + 2 \in 1..Len(b) /\ "NUL" \in Unit
    BY <2>l, <2>k, <2>s, Zenon
  <2>1. x \in Seq(Unit) /\ Len(x) = Len(b)
        /\ \A j \in 1..Len(b) : x[j] = IF j = i + 1 THEN "NUL" ELSE b[j]
    BY <1>3, <2>0, <2>x, ExceptSeq
  <2>2. d = [x EXCEPT ![i + 2] = "NUL"]
    BY <1>d, <2>x
  <2>3. d \in Seq(Unit) /\ Len(d) = Len(x)
        /\ \A j \in 1..Len(x) : d[j] = IF j = i + 2 THEN "NUL" ELSE x[j]
    BY <2>0, <2>1, <2>2, ExceptSeq
  <2> QED BY <2>1, <2>3
<1>5. d \in B
  BY <1>4, <1>B
<1>r. PICK z : z = [r EXCEPT !.m_read_buf = d, !.m_checked_idx = i + 2]
  OBVIOUS
<1>6. e = [status |-> "LINE_OK", rec |-> z]
  BY <1>b, <1>d, <1>r DEF Ended
<1>7. e.rec = z /\ e.status = "LINE_OK"
  BY <1>6
<1>y. PICK y : y = [r EXCEPT !.m_read_buf = d]
  OBVIOUS
<1>z. z = [y EXCEPT !.m_checked_idx = i + 2]
  BY <1>r, <1>y
<1>t. /\ y.m_start_line = r.m_start_line /\ y.m_read_buf = d
      /\ y \in [m_check_state : CheckState, m_linger : BOOLEAN, m_content_length : Nat,
                m_start_line : Nat, m_checked_idx : Nat, m_read_buf : B, cgi : 0..1, m_string : B]
      /\ SameText(y, r)
  BY <1>2, <1>5, <1>y DEF SameText
<1>8. /\ z.m_checked_idx = i + 2 /\ z.m_start_line = r.m_start_line /\ z.m_read_buf = d
      /\ z \in [m_check_state : CheckState, m_linger : BOOLEAN, m_content_length : Nat,
                m_start_line : Nat, m_checked_idx : Nat, m_read_buf : B, cgi : 0..1, m_string : B]
      /\ SameText(z, r)
  BY <1>z, <1>t DEF SameText
<1>9. v = [z EXCEPT !.m_start_line = i + 2]
  BY <1>7, <1>8
<1>10. /\ v.m_checked_idx = i + 2 /\ v.m_start_line = i + 2 /\ v.m_read_buf = d
       /\ v \in [m_check_state : CheckState, m_linger : BOOLEAN, m_content_length : Nat,
                 m_start_line : Nat, m_checked_idx : Nat, m_read_buf : B, cgi : 0..1, m_string : B]
       /\ SameText(v, r)
  BY <1>8, <1>9 DEF SameText
<1>11. v \in Parser
  BY <1>10, <1>B DEF Parser
<1>12. v \in Indexed
  BY <1>3, <1>4, <1>10, <1>11 DEF Indexed
<1> QED BY <1>3, <1>4, <1>7, <1>8, <1>10, <1>12, <1>b

\* What parse_request_line makes of the fields r.
FirstLine(x, r, text) ==
  /\ x.rec \in Indexed /\ x.rec.m_start_line = r.m_start_line
  /\ x.rec.m_checked_idx = r.m_checked_idx /\ x.rec.m_read_buf = r.m_read_buf
  /\ x.rec.m_linger = r.m_linger /\ x.rec.m_content_length = r.m_content_length
  /\ \/ /\ text \in {<<"GET">>, <<"POST">>} /\ x.ret = "NO_REQUEST"
        /\ x.rec.m_check_state = "HEADER"
     \/ /\ text \notin {<<"GET">>, <<"POST">>} /\ x.ret = "BAD_REQUEST" /\ x.rec = r

\* What the parsers make of a line, or of the body.
LEMMA RequestLine ==
  ASSUME NEW r \in Indexed, NEW text, NEW x, x = parse_request_line(r, text)
  PROVE  FirstLine(x, r, text)
<1> USE DEF FirstLine
<1>B. PICK B : B = Seq(Unit)
  OBVIOUS
<1>1. r \in Parser /\ r.m_start_line <= r.m_checked_idx /\ r.m_checked_idx <= Len(r.m_read_buf)
  BY Fields
<1>2. r \in [m_check_state : CheckState, m_linger : BOOLEAN, m_content_length : Nat,
             m_start_line : Nat, m_checked_idx : Nat, m_read_buf : B, cgi : 0..1, m_string : B]
  BY <1>1, <1>B DEF Parser
<1>3. <<"GET">> # <<"POST">>
  OBVIOUS
<1>4. ASSUME NEW v, v = [r EXCEPT !.m_check_state = "HEADER"]
                    \/ v = [r EXCEPT !.m_check_state = "HEADER", !.cgi = 1]
      PROVE  /\ v \in Indexed /\ v.m_start_line = r.m_start_line
             /\ v.m_checked_idx = r.m_checked_idx /\ v.m_read_buf = r.m_read_buf
             /\ v.m_linger = r.m_linger /\ v.m_content_length = r.m_content_length
             /\ v.m_check_state = "HEADER"
  <2>1. /\ v \in [m_check_state : CheckState, m_linger : BOOLEAN, m_content_length : Nat,
                  m_start_line : Nat, m_checked_idx : Nat, m_read_buf : B, cgi : 0..1, m_string : B]
        /\ v.m_start_line = r.m_start_line
        /\ v.m_checked_idx = r.m_checked_idx /\ v.m_read_buf = r.m_read_buf
        /\ v.m_linger = r.m_linger /\ v.m_content_length = r.m_content_length
        /\ v.m_check_state = "HEADER"
    <3>1. CASE v = [r EXCEPT !.m_check_state = "HEADER"]
      BY <1>2, <3>1 DEF CheckState
    <3>2. CASE v = [r EXCEPT !.m_check_state = "HEADER", !.cgi = 1]
      <4>u. PICK u : u = [r EXCEPT !.m_check_state = "HEADER"]
        OBVIOUS
      <4>1. v = [u EXCEPT !.cgi = 1]
        BY <3>2, <4>u
      <4>2. /\ u \in [m_check_state : CheckState, m_linger : BOOLEAN, m_content_length : Nat,
                      m_start_line : Nat, m_checked_idx : Nat, m_read_buf : B, cgi : 0..1, m_string : B]
            /\ u.m_start_line = r.m_start_line
            /\ u.m_checked_idx = r.m_checked_idx /\ u.m_read_buf = r.m_read_buf
            /\ u.m_linger = r.m_linger /\ u.m_content_length = r.m_content_length
            /\ u.m_check_state = "HEADER"
        BY <1>2, <4>u DEF CheckState
      <4> QED BY <4>1, <4>2
    <3> QED BY <1>4, <3>1, <3>2
  <2>2. v \in Parser
    BY <2>1, <1>B DEF Parser
  <2> QED BY <1>1, <2>1, <2>2 DEF Indexed
<1>5. CASE text \in {<<"GET">>, <<"POST">>}
  <2>v. PICK v : /\ v = [r EXCEPT !.m_check_state = "HEADER"]
                    \/ v = [r EXCEPT !.m_check_state = "HEADER", !.cgi = 1]
                 /\ x = Goes(v, "NO_REQUEST")
    BY <1>3, <1>5 DEF parse_request_line
  <2>1. x.rec = v /\ x.ret = "NO_REQUEST"
    BY <2>v DEF Goes
  <2> QED BY <1>4, <1>5, <2>v, <2>1
<1>6. CASE text \notin {<<"GET">>, <<"POST">>}
  <2>1. x = Goes(r, "BAD_REQUEST")
    BY <1>6 DEF parse_request_line
  <2> QED BY <1>6, <2>1 DEF Goes
<1> QED BY <1>5, <1>6

\* What parse_headers makes of them.
HeaderLine(x, r, text) ==
  /\ x.rec \in Indexed /\ x.rec.m_start_line = r.m_start_line
  /\ x.rec.m_checked_idx = r.m_checked_idx /\ x.rec.m_read_buf = r.m_read_buf
  /\ x.rec.m_linger = (r.m_linger \/ text = <<"keep-alive">>)
  /\ x.rec.m_content_length =
       IF text = <<"length">> THEN ContentLength ELSE r.m_content_length
  /\ x.ret \in {"NO_REQUEST", "GET_REQUEST"}
  /\ x.ret = "GET_REQUEST" <=> text = <<>> /\ r.m_content_length = 0
  /\ x.rec.m_check_state =
       IF text = <<>> /\ r.m_content_length # 0 THEN "CONTENT" ELSE r.m_check_state

LEMMA Headers ==
  ASSUME NEW r \in Indexed, NEW text, NEW x, x = parse_headers(r, text)
  PROVE  HeaderLine(x, r, text)
<1> USE DEF HeaderLine
<1>B. PICK B : B = Seq(Unit)
  OBVIOUS
<1>1. r \in Parser /\ r.m_start_line <= r.m_checked_idx /\ r.m_checked_idx <= Len(r.m_read_buf)
      /\ r.m_linger \in BOOLEAN
  BY Fields
<1>2. r \in [m_check_state : CheckState, m_linger : BOOLEAN, m_content_length : Nat,
             m_start_line : Nat, m_checked_idx : Nat, m_read_buf : B, cgi : 0..1, m_string : B]
  BY <1>1, <1>B DEF Parser
<1>3. <<"keep-alive">> # <<"length">> /\ <<>> # <<"length">> /\ <<>> # <<"keep-alive">>
  OBVIOUS
<1>4. ASSUME NEW v, v = r \/ v = [r EXCEPT !.m_check_state = "CONTENT"]
                    \/ v = [r EXCEPT !.m_linger = TRUE]
                    \/ v = [r EXCEPT !.m_content_length = ContentLength]
      PROVE  /\ v \in Indexed /\ v.m_start_line = r.m_start_line
             /\ v.m_checked_idx = r.m_checked_idx /\ v.m_read_buf = r.m_read_buf
  <2>1. /\ v \in [m_check_state : CheckState, m_linger : BOOLEAN, m_content_length : Nat,
                  m_start_line : Nat, m_checked_idx : Nat, m_read_buf : B, cgi : 0..1, m_string : B]
        /\ v.m_start_line = r.m_start_line
        /\ v.m_checked_idx = r.m_checked_idx /\ v.m_read_buf = r.m_read_buf
    <3>1. CASE v = r
      BY <1>2, <3>1
    <3>2. CASE v = [r EXCEPT !.m_check_state = "CONTENT"]
      BY <1>2, <3>2 DEF CheckState
    <3>3. CASE v = [r EXCEPT !.m_linger = TRUE]
      BY <1>2, <3>3
    <3>4. CASE v = [r EXCEPT !.m_content_length = ContentLength]
      BY <1>2, <3>4, LengthAssumption
    <3> QED BY <1>4, <3>1, <3>2, <3>3, <3>4
  <2>2. v \in Parser
    BY <2>1, <1>B DEF Parser
  <2> QED BY <1>1, <2>1, <2>2 DEF Indexed
<1>5. CASE text = <<>> /\ r.m_content_length # 0
  <2>v. PICK v : v = [r EXCEPT !.m_check_state = "CONTENT"]
    OBVIOUS
  <2>1. x = Goes(v, "NO_REQUEST")
    BY <1>3, <1>5, <2>v DEF parse_headers
  <2>2. /\ v.m_linger = r.m_linger /\ v.m_content_length = r.m_content_length
        /\ v.m_check_state = "CONTENT" /\ x.rec = v /\ x.ret = "NO_REQUEST"
    BY <1>2, <2>v, <2>1 DEF Goes
  <2>3. v \in Indexed /\ v.m_start_line = r.m_start_line
        /\ v.m_checked_idx = r.m_checked_idx /\ v.m_read_buf = r.m_read_buf
    BY <1>4, <2>v
  <2>4. (r.m_linger \/ text = <<"keep-alive">>) = r.m_linger
    BY <1>1, <1>3, <1>5
  <2> QED BY <1>3, <1>5, <2>2, <2>3, <2>4
<1>6. CASE text = <<"keep-alive">>
  <2>v. PICK v : v = [r EXCEPT !.m_linger = TRUE]
    OBVIOUS
  <2>1. x = Goes(v, "NO_REQUEST")
    BY <1>3, <1>6, <2>v DEF parse_headers
  <2>2. /\ v.m_linger = TRUE /\ v.m_content_length = r.m_content_length
        /\ v.m_check_state = r.m_check_state /\ x.rec = v /\ x.ret = "NO_REQUEST"
    BY <1>2, <2>v, <2>1 DEF Goes
  <2>3. v \in Indexed /\ v.m_start_line = r.m_start_line
        /\ v.m_checked_idx = r.m_checked_idx /\ v.m_read_buf = r.m_read_buf
    BY <1>4, <2>v
  <2>4. (r.m_linger \/ text = <<"keep-alive">>) = TRUE
    BY <1>6
  <2> QED BY <1>3, <1>6, <2>2, <2>3, <2>4
<1>7. CASE text = <<"length">>
  <2>v. PICK v : v = [r EXCEPT !.m_content_length = ContentLength]
    OBVIOUS
  <2>1. x = Goes(v, "NO_REQUEST")
    BY <1>3, <1>7, <2>v DEF parse_headers
  <2>2. /\ v.m_linger = r.m_linger /\ v.m_content_length = ContentLength
        /\ v.m_check_state = r.m_check_state /\ x.rec = v /\ x.ret = "NO_REQUEST"
    BY <1>2, <2>v, <2>1 DEF Goes
  <2>3. v \in Indexed /\ v.m_start_line = r.m_start_line
        /\ v.m_checked_idx = r.m_checked_idx /\ v.m_read_buf = r.m_read_buf
    BY <1>4, <2>v
  <2>4. (r.m_linger \/ text = <<"keep-alive">>) = r.m_linger
    BY <1>1, <1>3, <1>7
  <2> QED BY <1>3, <1>7, <2>2, <2>3, <2>4
<1>8. CASE /\ ~(text = <<>> /\ r.m_content_length # 0)
           /\ text # <<"keep-alive">> /\ text # <<"length">>
  <2>1. x = Goes(r, IF text = <<>> THEN "GET_REQUEST" ELSE "NO_REQUEST")
    BY <1>3, <1>8 DEF parse_headers
  <2>2. x.rec = r /\ x.ret = IF text = <<>> THEN "GET_REQUEST" ELSE "NO_REQUEST"
    BY <2>1 DEF Goes
  <2>4. (r.m_linger \/ text = <<"keep-alive">>) = r.m_linger
    BY <1>1, <1>8
  <2> QED BY <1>3, <1>8, <2>2, <2>4
<1> QED BY <1>5, <1>6, <1>7, <1>8

\* What parse_content makes of a body that starts at u.m_start_line.
BodyRead(x, u, r) ==
  /\ x.rec \in Indexed /\ x.rec.m_start_line = r.m_start_line
  /\ x.rec.m_checked_idx = r.m_checked_idx /\ x.rec.m_read_buf = r.m_read_buf
  /\ x.rec.m_check_state = r.m_check_state /\ x.rec.m_linger = r.m_linger
  /\ x.rec.m_content_length = r.m_content_length
  /\ x.ret \in {"NO_REQUEST", "GET_REQUEST"}
  /\ x.ret = "GET_REQUEST" <=> Len(r.m_read_buf) >= r.m_content_length + r.m_checked_idx
  /\ x.ret = "GET_REQUEST" =>
       x.rec.m_string = SubSeq(r.m_read_buf, u.m_start_line + 1,
                               u.m_start_line + r.m_content_length)

LEMMA Content ==
  ASSUME NEW u \in Indexed, NEW r \in Indexed, NEW x, x = parse_content(r, u.m_start_line),
         Len(r.m_read_buf) = Len(u.m_read_buf),
         u.m_start_line <= r.m_checked_idx
  PROVE  BodyRead(x, u, r)
<1> USE DEF BodyRead
<1>B. PICK B : B = Seq(Unit)
  OBVIOUS
<1>b. PICK b : b = r.m_read_buf
  OBVIOUS
<1>l. PICK l : l = r.m_content_length
  OBVIOUS
<1>s. PICK s : s = u.m_start_line
  OBVIOUS
<1>c. PICK c : c = r.m_checked_idx
  OBVIOUS
<1>1. r \in Parser /\ r.m_start_line <= c /\ c <= Len(b) /\ b \in Seq(Unit)
      /\ Len(b) \in Nat /\ s \in Nat /\ s <= c /\ c \in Nat /\ l \in Nat
  BY Fields, <1>b, <1>c, <1>s, <1>l
<1>2. r \in [m_check_state : CheckState, m_linger : BOOLEAN, m_content_length : Nat,
             m_start_line : Nat, m_checked_idx : Nat, m_read_buf : B, cgi : 0..1, m_string : B]
  BY <1>1, <1>B DEF Parser
<1>3. CASE Len(b) >= l + c
  <2>t. PICK t : t = SubSeq(b, s + 1, s + l)
    OBVIOUS
  <2>v. PICK v : v = [r EXCEPT !.m_string = t]
    OBVIOUS
  <2>1. x = Goes(v, "GET_REQUEST")
    BY <1>3, <1>b, <1>c, <1>l, <1>s, <2>t, <2>v, Zenon DEF parse_content
  <2>2. t \in Seq(Unit)
    <3>1. \A j \in (s + 1)..(s + l) : j \in 1..Len(b)
      BY <1>1, <1>3
    <3>2. \A j \in (s + 1)..(s + l) : b[j] \in Unit
      BY <1>1, <3>1
    <3>3. s + 1 \in Int /\ s + l \in Int
      BY <1>1
    <3> QED BY <2>t, <1>1, <1>3, <3>1, <3>2, <3>3
  <2>3. t \in B
    BY <2>2, <1>B
  <2>4. /\ v \in [m_check_state : CheckState, m_linger : BOOLEAN, m_content_length : Nat,
                  m_start_line : Nat, m_checked_idx : Nat, m_read_buf : B, cgi : 0..1, m_string : B]
        /\ v.m_start_line = r.m_start_line
        /\ v.m_checked_idx = r.m_checked_idx /\ v.m_read_buf = r.m_read_buf
        /\ v.m_check_state = r.m_check_state /\ v.m_linger = r.m_linger
        /\ v.m_content_length = r.m_content_length /\ v.m_string = t
    BY <1>2, <2>3, <2>v
  <2>5. v \in Parser
    BY <2>4, <1>B DEF Parser
  <2>6. v \in Indexed
    BY <1>1, <1>b, <1>c, <2>4, <2>5 DEF Indexed
  <2>7. x.rec = v /\ x.ret = "GET_REQUEST"
    BY <2>1 DEF Goes
  <2> QED BY <1>3, <1>b, <1>c, <1>l, <1>s, <2>t, <2>4, <2>6, <2>7
<1>4. CASE ~(Len(b) >= l + c)
  <2>1. x = Goes(r, "NO_REQUEST")
    BY <1>4, <1>b, <1>c, <1>l, <1>s, Zenon DEF parse_content
  <2>2. x.rec = r /\ x.ret = "NO_REQUEST"
    BY <2>1 DEF Goes
  <2> QED BY <1>4, <1>b, <1>c, <1>l, <2>2
<1> QED BY <1>3, <1>4

-----------------------------------------------------------------------------
Rets == {"NO_REQUEST", "GET_REQUEST", "BAD_REQUEST"}

LEMMA LoopFields ==
  ASSUME NEW z \in Loop
  PROVE  /\ z.rec \in Indexed /\ z.ret \in Rets /\ z.over \in BOOLEAN
         /\ z.line_status \in {"LINE_OK", "LINE_OPEN"}
<1>I. PICK I : I = Indexed
  OBVIOUS
<1> QED BY <1>I DEF Loop, Rets

\* The turn on a body that is not looked through for lines.
AtBody(z) == z.rec.m_check_state = "CONTENT" /\ z.line_status = "LINE_OK"

\* A turn on the fields r that looks for the body.
BodyTurn(y, r) ==
  /\ y \in Loop /\ y.line_status = "LINE_OPEN"
  /\ y.rec.m_start_line = r.m_checked_idx /\ y.rec.m_checked_idx = r.m_checked_idx
  /\ y.rec.m_read_buf = r.m_read_buf /\ y.rec.m_check_state = "CONTENT"
  /\ y.rec.m_linger = r.m_linger /\ y.rec.m_content_length = r.m_content_length
  /\ IF Len(r.m_read_buf) >= r.m_content_length + r.m_checked_idx
     THEN /\ y.ret = "GET_REQUEST" /\ y.over
          /\ y.rec.m_string = SubSeq(r.m_read_buf, r.m_start_line + 1,
                                     r.m_start_line + r.m_content_length)
     ELSE y.ret = "NO_REQUEST" /\ ~y.over

LEMMA TurnBody ==
  ASSUME NEW z \in Loop, AtBody(z), NEW y, y = Turn(z), NEW r, r = z.rec
  PROVE  BodyTurn(y, r)
<1> USE DEF BodyTurn
<1>0. r \in Indexed /\ r.m_check_state = "CONTENT" /\ z.line_status = "LINE_OK"
  BY LoopFields DEF AtBody
<1>v. PICK v : v = [r EXCEPT !.m_start_line = r.m_checked_idx]
  OBVIOUS
<1>B. PICK B : B = Seq(Unit)
  OBVIOUS
<1>1. /\ v \in Indexed /\ v.m_start_line = r.m_checked_idx
      /\ v.m_checked_idx = r.m_checked_idx /\ v.m_read_buf = r.m_read_buf
      /\ v.m_check_state = "CONTENT" /\ v.m_linger = r.m_linger
      /\ v.m_content_length = r.m_content_length
  <2>1. r \in Parser /\ r.m_checked_idx \in Nat /\ r.m_checked_idx <= Len(r.m_read_buf)
    BY <1>0, Fields
  <2>2. r \in [m_check_state : CheckState, m_linger : BOOLEAN, m_content_length : Nat,
               m_start_line : Nat, m_checked_idx : Nat, m_read_buf : B, cgi : 0..1, m_string : B]
    BY <2>1, <1>B DEF Parser
  <2>3. /\ v \in [m_check_state : CheckState, m_linger : BOOLEAN, m_content_length : Nat,
                  m_start_line : Nat, m_checked_idx : Nat, m_read_buf : B, cgi : 0..1, m_string : B]
        /\ v.m_start_line = r.m_checked_idx
        /\ v.m_checked_idx = r.m_checked_idx /\ v.m_read_buf = r.m_read_buf
        /\ v.m_check_state = "CONTENT" /\ v.m_linger = r.m_linger
        /\ v.m_content_length = r.m_content_length
    BY <1>0, <1>v, <2>1, <2>2
  <2>4. v \in Parser
    BY <2>3, <1>B DEF Parser
  <2> QED BY <2>1, <2>3, <2>4 DEF Indexed
<1>x. PICK x : x = parse_content(v, r.m_start_line)
  OBVIOUS
<1>2. BodyRead(x, r, v)
  <2>1. r.m_start_line <= v.m_checked_idx
    BY <1>0, <1>1, Fields
  <2>2. v \in Indexed /\ Len(v.m_read_buf) = Len(r.m_read_buf)
    BY <1>1
  <2> QED BY <1>0, <1>x, <2>1, <2>2, Content, Zenon
<1>3. y = [rec |-> x.rec, ret |-> x.ret, over |-> x.ret # "NO_REQUEST", line_status |-> "LINE_OPEN"]
  BY <1>0, <1>1, <1>v, <1>x DEF Turn
<1>4. /\ y.rec = x.rec /\ y.ret = x.ret /\ y.over = (x.ret # "NO_REQUEST")
      /\ y.line_status = "LINE_OPEN"
  BY <1>3
<1>5. y \in Loop
  <2>I. PICK I : I = Indexed
    OBVIOUS
  <2>r. PICK w : w = x.rec
    OBVIOUS
  <2>t. PICK t : t = x.ret
    OBVIOUS
  <2>1. w \in I /\ t \in {"NO_REQUEST", "GET_REQUEST", "BAD_REQUEST"}
    BY <1>2, <2>I, <2>r, <2>t DEF BodyRead
  <2>2. y = [rec |-> w, ret |-> t, over |-> t # "NO_REQUEST", line_status |-> "LINE_OPEN"]
    BY <1>3, <2>r, <2>t
  <2> QED BY <2>I, <2>1, <2>2 DEF Loop
<1> QED BY <1>1, <1>2, <1>4, <1>5 DEF BodyRead

\* A turn that stops at i.
StopTurn(y, z, r, i) ==
  /\ y \in Loop /\ y.over /\ y.ret = z.ret /\ y.line_status = z.line_status
  /\ SameText(y.rec, r) /\ y.rec.m_checked_idx = i
  /\ y.rec.m_start_line = r.m_start_line /\ y.rec.m_read_buf = r.m_read_buf

\* The turn that finds no whole line stops the loop.
LEMMA TurnStops ==
  ASSUME NEW z \in Loop, ~AtBody(z), NEW y, y = Turn(z), NEW r, r = z.rec, NEW i, NEW how,
         how \in {"LINE_OPEN", "LINE_BAD"}, parse_line(r) = Stopped(r, how, i),
         Stops(r.m_read_buf, r.m_checked_idx, i)
  PROVE  StopTurn(y, z, r, i)
<1> USE DEF StopTurn
<1>I. PICK I : I = Indexed
  OBVIOUS
<1>v. PICK v : v = [r EXCEPT !.m_checked_idx = i]
  OBVIOUS
<1>0. r \in Indexed
  BY LoopFields
<1>1. i \in Nat /\ r.m_checked_idx <= i /\ i <= Len(r.m_read_buf)
  BY <1>0, Fields DEF Stops
<1>2. /\ v \in Indexed /\ SameText(v, r) /\ v.m_checked_idx = i
      /\ v.m_start_line = r.m_start_line /\ v.m_read_buf = r.m_read_buf
  BY <1>0, <1>1, <1>v, StoppedOK
<1>3. parse_line(r) = [status |-> how, rec |-> v]
  BY <1>v DEF Stopped
<1>4. y = [z EXCEPT !.rec = v, !.over = TRUE]
  <2>p. PICK p : p = parse_line(r)
    OBVIOUS
  <2>1. p.status # "LINE_OK" /\ p.rec = v
    BY <1>3, <2>p
  <2>2. ~(z.rec.m_check_state = "CONTENT" /\ z.line_status = "LINE_OK")
    BY DEF AtBody
  <2> QED BY <2>1, <2>2, <2>p, Zenon DEF Turn
<1>5. z \in [rec : I, ret : {"NO_REQUEST", "GET_REQUEST", "BAD_REQUEST"}, over : BOOLEAN,
             line_status : {"LINE_OK", "LINE_OPEN"}]
  BY <1>I DEF Loop
<1>6. v \in I
  BY <1>2, <1>I
<1>x. PICK x : x = [z EXCEPT !.rec = v]
  OBVIOUS
<1>7. /\ x \in [rec : I, ret : {"NO_REQUEST", "GET_REQUEST", "BAD_REQUEST"}, over : BOOLEAN,
               line_status : {"LINE_OK", "LINE_OPEN"}]
      /\ x.rec = v /\ x.ret = z.ret /\ x.line_status = z.line_status
  BY <1>5, <1>6, <1>x
<1>8. y = [x EXCEPT !.over = TRUE]
  BY <1>4, <1>x
<1>9. /\ y \in [rec : I, ret : {"NO_REQUEST", "GET_REQUEST", "BAD_REQUEST"}, over : BOOLEAN,
               line_status : {"LINE_OK", "LINE_OPEN"}]
      /\ y.rec = v /\ y.ret = z.ret /\ y.line_status = z.line_status /\ y.over = TRUE
  BY <1>7, <1>8
<1>10. y \in Loop
  BY <1>9, <1>I DEF Loop
<1> QED BY <1>2, <1>9, <1>10

\* A turn that takes the line text, whose end is at i.
LineTurn(y, r, i, text) ==
  /\ y \in Loop /\ y.over = (y.ret # "NO_REQUEST")
  /\ y.line_status = IF r.m_check_state = "CONTENT" THEN "LINE_OPEN" ELSE "LINE_OK"
  /\ y.rec.m_start_line = i + 2 /\ y.rec.m_checked_idx = i + 2
  /\ y.rec.m_read_buf = Ended(r, i).rec.m_read_buf
  /\ Len(y.rec.m_read_buf) = Len(r.m_read_buf)
  /\ \A j \in 1..Len(r.m_read_buf) :
       y.rec.m_read_buf[j] = IF j = i + 1 \/ j = i + 2 THEN "NUL" ELSE r.m_read_buf[j]
  /\ r.m_check_state = "REQUESTLINE" =>
       /\ y.rec.m_linger = r.m_linger /\ y.rec.m_content_length = r.m_content_length
       /\ \/ /\ text \in {<<"GET">>, <<"POST">>} /\ y.ret = "NO_REQUEST"
             /\ y.rec.m_check_state = "HEADER"
          \/ /\ text \notin {<<"GET">>, <<"POST">>} /\ y.ret = "BAD_REQUEST"
             /\ y.rec.m_check_state = "REQUESTLINE"
  /\ r.m_check_state = "HEADER" =>
       /\ y.rec.m_linger = (r.m_linger \/ text = <<"keep-alive">>)
       /\ y.rec.m_content_length =
            IF text = <<"length">> THEN ContentLength ELSE r.m_content_length
       /\ y.ret \in {"NO_REQUEST", "GET_REQUEST"}
       /\ y.ret = "GET_REQUEST" <=> text = <<>> /\ r.m_content_length = 0
       /\ y.rec.m_check_state =
            IF text = <<>> /\ r.m_content_length # 0 THEN "CONTENT" ELSE "HEADER"

\* The turn that splits off a line, which ends behind its first i units, and parses it.
LEMMA TurnSplits ==
  ASSUME NEW z \in Loop, ~AtBody(z), NEW y, y = Turn(z), NEW r, r = z.rec,
         NEW i \in Nat, i + 2 <= Len(r.m_read_buf), r.m_checked_idx <= i + 2,
         parse_line(r) = Ended(r, i),
         NEW text, text = SubSeq(Ended(r, i).rec.m_read_buf, r.m_start_line + 1, i)
  PROVE  LineTurn(y, r, i, text)
<1> USE DEF LineTurn
<1>I. PICK I : I = Indexed
  OBVIOUS
<1>e. PICK e : e = Ended(r, i)
  OBVIOUS
<1>v. PICK v : v = [e.rec EXCEPT !.m_start_line = e.rec.m_checked_idx]
  OBVIOUS
<1>0. r \in Indexed /\ r.m_check_state \in CheckState
  BY LoopFields, Fields
<1>1. /\ e.status = "LINE_OK" /\ e.rec.m_start_line = r.m_start_line
      /\ e.rec.m_checked_idx = i + 2
      /\ v \in Indexed /\ SameText(v, r)
      /\ v.m_checked_idx = i + 2 /\ v.m_start_line = i + 2
      /\ v.m_read_buf = e.rec.m_read_buf /\ Len(v.m_read_buf) = Len(r.m_read_buf)
      /\ \A j \in 1..Len(r.m_read_buf) :
           v.m_read_buf[j] = IF j = i + 1 \/ j = i + 2 THEN "NUL" ELSE r.m_read_buf[j]
  BY <1>0, <1>e, <1>v, EndedOK
<1>2. text = SubSeq(e.rec.m_read_buf, r.m_start_line + 1, e.rec.m_checked_idx - 2)
  <2>1. e.rec.m_checked_idx - 2 = i
    BY <1>1
  <2> QED BY <1>e, <2>1, Zenon
<1>3. /\ v.m_check_state = r.m_check_state /\ v.m_linger = r.m_linger
      /\ v.m_content_length = r.m_content_length
  BY <1>1 DEF SameText
<1>x. PICK x : x = CASE v.m_check_state = "REQUESTLINE" -> parse_request_line(v, text)
                     [] v.m_check_state = "HEADER"      -> parse_headers(v, text)
                     [] v.m_check_state = "CONTENT"     -> parse_content(v, r.m_start_line)
  OBVIOUS
<1>4. y = [rec |-> x.rec, ret |-> x.ret, over |-> x.ret # "NO_REQUEST",
           line_status |-> IF v.m_check_state = "CONTENT" THEN "LINE_OPEN" ELSE "LINE_OK"]
  BY <1>1, <1>2, <1>e, <1>v, <1>x DEF Turn, AtBody
<1>5. /\ y.rec = x.rec /\ y.ret = x.ret /\ y.over = (x.ret # "NO_REQUEST")
      /\ y.line_status = IF r.m_check_state = "CONTENT" THEN "LINE_OPEN" ELSE "LINE_OK"
  BY <1>3, <1>4
<1>6. ASSUME x.rec \in Indexed, x.ret \in {"NO_REQUEST", "GET_REQUEST", "BAD_REQUEST"}
      PROVE  y \in Loop
  <2>r. PICK w : w = x.rec
    OBVIOUS
  <2>t. PICK t : t = x.ret
    OBVIOUS
  <2>s. PICK s : s = IF v.m_check_state = "CONTENT" THEN "LINE_OPEN" ELSE "LINE_OK"
    OBVIOUS
  <2>1. w \in I /\ t \in {"NO_REQUEST", "GET_REQUEST", "BAD_REQUEST"}
        /\ s \in {"LINE_OK", "LINE_OPEN"}
    BY <1>6, <1>I, <2>r, <2>t, <2>s
  <2>2. y = [rec |-> w, ret |-> t, over |-> t # "NO_REQUEST", line_status |-> s]
    BY <1>4, <2>r, <2>t, <2>s
  <2> QED BY <1>I, <2>1, <2>2 DEF Loop
<1>7. CASE r.m_check_state = "REQUESTLINE"
  <2>1. x = parse_request_line(v, text)
    BY <1>3, <1>7, <1>x
  <2>2. FirstLine(x, v, text)
    <3>1. v \in Indexed
      BY <1>1
    <3> QED BY <2>1, <3>1, RequestLine, Zenon
  <2>3. y \in Loop
    BY <1>6, <2>2 DEF FirstLine
  <2> QED BY <1>1, <1>3, <1>5, <1>7, <1>e, <2>2, <2>3 DEF FirstLine
<1>8. CASE r.m_check_state = "HEADER"
  <2>1. x = parse_headers(v, text)
    BY <1>3, <1>8, <1>x
  <2>2. HeaderLine(x, v, text)
    <3>1. v \in Indexed
      BY <1>1
    <3> QED BY <2>1, <3>1, Headers, Zenon
  <2>3. y \in Loop
    BY <1>6, <2>2 DEF HeaderLine
  <2>4. y.rec.m_linger = (r.m_linger \/ text = <<"keep-alive">>)
    <3>1. x.rec.m_linger = (v.m_linger \/ text = <<"keep-alive">>)
      BY <2>2 DEF HeaderLine
    <3> QED BY <1>3, <1>5, <3>1, Zenon
  <2> QED BY <1>1, <1>3, <1>5, <1>8, <1>e, <2>2, <2>3, <2>4 DEF HeaderLine
<1>9. CASE r.m_check_state = "CONTENT"
  <2>1. x = parse_content(v, r.m_start_line)
    BY <1>3, <1>9, <1>x
  <2>2. BodyRead(x, r, v)
    <3>1. r.m_start_line <= r.m_checked_idx /\ r.m_start_line \in Nat /\ r.m_checked_idx \in Nat
      BY <1>0, Fields
    <3>2. r.m_start_line <= i + 2
      <4>s. PICK s : s = r.m_start_line
        OBVIOUS
      <4>c. PICK c : c = r.m_checked_idx
        OBVIOUS
      <4> QED BY <3>1, <4>s, <4>c
    <3>3. /\ v \in Indexed /\ r.m_start_line <= v.m_checked_idx
          /\ Len(v.m_read_buf) = Len(r.m_read_buf)
      BY <1>1, <3>2
    <3> QED BY <1>0, <2>1, <3>3, Content, Zenon
  <2>3. y \in Loop
    BY <1>6, <2>2 DEF BodyRead
  <2> QED BY <1>1, <1>3, <1>5, <1>9, <1>e, <2>2, <2>3 DEF BodyRead
<1> QED BY <1>0, <1>7, <1>8, <1>9 DEF CheckState

\* What parse_line can do in a turn that is not on a body.
Stopping(z, i) == \E how \in {"LINE_OPEN", "LINE_BAD"} :
  parse_line(z.rec) = Stopped(z.rec, how, i) /\ Stops(z.rec.m_read_buf, z.rec.m_checked_idx, i)
Splitting(z, i) ==
  parse_line(z.rec) = Ended(z.rec, i) /\ Splits(z.rec.m_read_buf, z.rec.m_checked_idx, i)

LEMMA TurnLines ==
  ASSUME NEW z \in Loop
  PROVE  \E i : i \in Nat /\ (Stopping(z, i) \/ Splitting(z, i))
<1>r. PICK r : r = z.rec
  OBVIOUS
<1>x. PICK x : x = parse_line(r)
  OBVIOUS
<1>1. r \in Indexed
  BY <1>r, LoopFields
<1>2. \/ \E i, how : /\ how \in {"LINE_OPEN", "LINE_BAD"} /\ x = Stopped(r, how, i)
                     /\ Stops(r.m_read_buf, r.m_checked_idx, i)
      \/ \E i : x = Ended(r, i) /\ Splits(r.m_read_buf, r.m_checked_idx, i)
  BY <1>1, <1>x, LineParsed
<1>3. ASSUME NEW i, NEW how \in {"LINE_OPEN", "LINE_BAD"}, x = Stopped(r, how, i),
             Stops(r.m_read_buf, r.m_checked_idx, i)
      PROVE  i \in Nat /\ Stopping(z, i)
  <2>1. i \in Nat
    BY <1>1, <1>3, Fields DEF Stops
  <2>2. Stopping(z, i)
    BY <1>3, <1>r, <1>x DEF Stopping
  <2> QED BY <2>1, <2>2
<1>4. ASSUME NEW i, x = Ended(r, i), Splits(r.m_read_buf, r.m_checked_idx, i)
      PROVE  i \in Nat /\ Splitting(z, i)
  <2>1. i \in Nat
    BY <1>4 DEF Splits
  <2>2. Splitting(z, i)
    BY <1>4, <1>r, <1>x DEF Splitting
  <2> QED BY <2>1, <2>2
<1> QED BY <1>2, <1>3, <1>4

\* Every turn of the loop stops it, takes a line off what is left, or asks for more of
\* the body, after which lines are looked for again: the loop ends.
Measure(z) ==
  IF z.over THEN 0
  ELSE 1 + 2 * (Len(z.rec.m_read_buf) - z.rec.m_checked_idx) + (IF AtBody(z) THEN 1 ELSE 0)

LEMMA TurnStays ==
  ASSUME NEW z \in Loop
  PROVE  Measure(z) \in Nat /\ (~z.over => Turn(z) \in Loop /\ Measure(Turn(z)) < Measure(z))
<1>r. PICK r : r = z.rec
  OBVIOUS
<1>y. PICK y : y = Turn(z)
  OBVIOUS
<1>k. PICK k : k = Len(r.m_read_buf)
  OBVIOUS
<1>c. PICK c : c = r.m_checked_idx
  OBVIOUS
<1>0. r \in Indexed /\ z.over \in BOOLEAN
  BY LoopFields, <1>r
<1>1. k \in Nat /\ c \in Nat /\ c <= k
  BY <1>0, <1>k, <1>c, Fields
<1>2. Measure(z) = IF z.over THEN 0 ELSE 1 + 2 * (k - c) + (IF AtBody(z) THEN 1 ELSE 0)
  BY <1>r, <1>k, <1>c DEF Measure
<1>3. Measure(z) \in Nat
  BY <1>1, <1>2
<1>4. SUFFICES ASSUME ~z.over PROVE y \in Loop /\ Measure(y) < Measure(z)
  BY <1>3, <1>y
<1>5. Measure(z) = 1 + 2 * (k - c) + (IF AtBody(z) THEN 1 ELSE 0)
  BY <1>2, <1>4
<1>6. CASE AtBody(z)
  <2>0. BodyTurn(y, r)
    BY <1>6, <1>r, <1>y, TurnBody, Zenon
  <2>1. /\ y \in Loop /\ y.line_status = "LINE_OPEN"
        /\ y.rec.m_checked_idx = c /\ y.rec.m_read_buf = r.m_read_buf
    BY <1>c, <2>0 DEF BodyTurn
  <2>2. ~AtBody(y)
    BY <2>1 DEF AtBody
  <2>3. Measure(y) = IF y.over THEN 0 ELSE 1 + 2 * (k - c)
    <3>1. Measure(y) = IF y.over THEN 0 ELSE 1 + 2 * (k - c) + 0
      BY <1>k, <2>1, <2>2 DEF Measure
    <3> QED BY <1>1, <3>1
  <2>4. Measure(z) = 1 + 2 * (k - c) + 1
    BY <1>5, <1>6
  <2> QED BY <1>1, <2>1, <2>3, <2>4
<1>7. ASSUME ~AtBody(z), NEW i, Stopping(z, i) PROVE y \in Loop /\ Measure(y) < Measure(z)
  <2>h. PICK how \in {"LINE_OPEN", "LINE_BAD"} :
          parse_line(r) = Stopped(r, how, i) /\ Stops(r.m_read_buf, r.m_checked_idx, i)
    BY <1>7, <1>r DEF Stopping
  <2>0. StopTurn(y, z, r, i)
    BY <1>7, <1>r, <1>y, <2>h, TurnStops, Zenon
  <2>1. y \in Loop /\ y.over
    BY <2>0 DEF StopTurn
  <2>2. Measure(y) = 0
    BY <2>1 DEF Measure
  <2> QED BY <1>1, <1>5, <2>1, <2>2
<1>8. ASSUME ~AtBody(z), NEW i, Splitting(z, i) PROVE y \in Loop /\ Measure(y) < Measure(z)
  <2>0. /\ parse_line(r) = Ended(r, i)
        /\ Splits(r.m_read_buf, r.m_checked_idx, i)
    BY <1>8, <1>r DEF Splitting
  <2>1. i \in Nat /\ i + 2 <= k /\ c < i + 2
    BY <1>1, <1>c, <1>k, <2>0 DEF Splits
  <2>2. y \in Loop /\ y.rec.m_checked_idx = i + 2 /\ Len(y.rec.m_read_buf) = k
    <3>1. i \in Nat /\ i + 2 <= Len(r.m_read_buf) /\ r.m_checked_idx <= i + 2
      BY <1>c, <1>k, <1>1, <2>1
    <3>2. PICK text : LineTurn(y, r, i, text)
      BY <1>8, <1>r, <1>y, <2>0, <3>1, TurnSplits, Zenon
    <3> QED BY <1>k, <3>2 DEF LineTurn
  <2>3. Measure(y) = IF y.over THEN 0
                     ELSE 1 + 2 * (k - (i + 2)) + (IF AtBody(y) THEN 1 ELSE 0)
    BY <2>2 DEF Measure
  <2>4. Measure(z) = 1 + 2 * (k - c)
    <3>1. Measure(z) = 1 + 2 * (k - c) + 0
      BY <1>5, <1>8
    <3> QED BY <1>1, <3>1
  <2> QED BY <1>1, <2>1, <2>2, <2>3, <2>4
<1> QED BY <1>6, <1>7, <1>8, TurnLines

Begin(r) == [rec |-> r, ret |-> "NO_REQUEST", over |-> FALSE, line_status |-> "LINE_OK"]

LEMMA BeginOK ==
  ASSUME NEW r \in Indexed, NEW z, z = Begin(r)
  PROVE  /\ z \in Loop /\ z.rec = r /\ z.ret = "NO_REQUEST" /\ ~z.over
         /\ z.line_status = "LINE_OK"
<1>I. PICK I : I = Indexed
  OBVIOUS
<1> QED BY <1>I DEF Begin, Loop

\* What holds before the loop of process_read and is kept by every turn holds at its end.
LEMMA ReadKeeps ==
  ASSUME NEW r \in Indexed, NEW P \in SUBSET Loop, Begin(r) \in P,
         \A z \in P : ~z.over => Turn(z) \in P
  PROVE  \E z \in P : z.over /\ process_read(r) = Goes(z.rec, z.ret)
<1>S. PICK S : S = Loop
  OBVIOUS
<1> DEFINE done == {s \in S : s.over}
           nx == [s \in S |-> IF s.over THEN s ELSE Turn(s)]
           m == [s \in S |-> Measure(s)]
           Round(g, s) == IF s.over THEN s ELSE g[Turn(s)]
<1>1. nx \in [S -> S]
  <2>1. \A s \in S : ~s.over => Turn(s) \in S
    BY <1>S, TurnStays
  <2> QED BY <2>1
<1>2. m \in [S -> Nat]
  <2>1. \A s \in S : Measure(s) \in Nat
    BY <1>S, TurnStays
  <2> QED BY <2>1
<1>3. \A s \in S \ done : m[nx[s]] < m[s]
  <2>1. ASSUME NEW s \in S \ done PROVE m[nx[s]] < m[s]
    <3>t. PICK t : t = Turn(s)
      OBVIOUS
    <3>1. ~s.over /\ nx[s] = t
      BY <3>t
    <3>2. t \in S /\ Measure(t) < Measure(s)
      BY <1>S, <3>1, <3>t, TurnStays
    <3>3. m[t] = Measure(t) /\ m[s] = Measure(s)
      BY <3>2
    <3> HIDE DEF m, nx, done
    <3> QED BY <3>1, <3>2, <3>3
  <2> HIDE DEF m, nx, done
  <2> QED BY <2>1
<1>4. \E g : g = [s \in S |-> g[s]] /\ Rounds(S, done, nx, g)
  <2>1. done \in SUBSET S
    OBVIOUS
  <2> HIDE DEF done, nx
  <2> QED BY <1>1, <2>1, LoopExists, Zenon
<1>5. \A g : \A s \in S : Round(g, s) = IF s \in done THEN s ELSE g[nx[s]]
  OBVIOUS
<1>6. \E g : g = [s \in S |-> Round(g, s)]
  <2>1. PICK g : g = [s \in S |-> g[s]] /\ Rounds(S, done, nx, g)
    BY <1>4
  <2> HIDE DEF Round, done, nx
  <2>2. \A s \in S : g[s] = Round(g, s)
    BY <2>1, <1>5 DEF Rounds
  <2>3. g = [s \in S |-> Round(g, s)]
    BY <2>1, <2>2
  <2> QED BY <2>3
<1>7. PICK loop : /\ loop = CHOOSE g : g = [s \in S |-> Round(g, s)]
                  /\ process_read(r) = Goes(loop[Begin(r)].rec, loop[Begin(r)].ret)
  BY <1>S, Zenon DEF process_read, Begin
<1>8. loop = [s \in S |-> Round(loop, s)]
  <2> HIDE DEF Round
  <2> QED BY <1>6, <1>7
<1>9. Rounds(S, done, nx, loop)
  <2>1. \A s \in S : loop[s] = Round(loop, s)
    <3> HIDE DEF Round
    <3> QED BY <1>8
  <2> HIDE DEF Round, done, nx
  <2> QED BY <2>1, <1>5 DEF Rounds
<1>10. \A z \in P \ done : nx[z] \in P
  BY <1>S
<1>11. loop[Begin(r)] \in P \cap done
  <2>1. P \in SUBSET S
    BY <1>S
  <2> HIDE DEF done, nx, m, Round
  <2> QED BY <1>2, <1>3, <1>9, <1>10, <2>1, LoopKeeps
<1> QED BY <1>7, <1>11

-----------------------------------------------------------------------------
(* What process_read makes of a request *)

\* What the buffer holds is a beginning of the request; '\0' stands only where a line
\* end was passed.
Agrees(b, c, q) ==
  /\ Len(b) <= Len(q)
  /\ \A i \in 1..Len(b) : /\ q[i] \notin LineEnd \/ i > c => b[i] = q[i]
                          /\ b[i] = q[i] \/ b[i] = "NUL"

\* A line, and not the body, starts at s, and none ends up to c.
InLines(s, c, q) ==
  /\ Free(q, s, c)
  /\ s = 0 \/ q[s] = "LF"
  /\ ~Blank(q, s)

\* u is among the first n units.
Seen(q, u, n) == \E i \in 1..Len(q) : i <= n /\ q[i] = u

LEMMA Whole ==
  ASSUME NEW q \in Seq(Unit), IsRequest(q)
  PROVE  /\ \A i \in 1..Len(q) : q[i] \notin LineEnd \cup Body =>
              (i = 1 \/ q[i - 1] = "LF") /\ (i = Len(q) \/ q[i + 1] \in LineEnd)
         /\ \A i \in 1..Len(q) : q[i] \in Body => \E h \in 1..Len(q) : Blank(q, h) /\ h < i
         /\ \A h \in 1..Len(q) : Blank(q, h) =>
              /\ \A i \in 1..Len(q) : i > h => q[i] \in Body
              /\ Len(q) = h + IF Has(q, "length") THEN ContentLength ELSE 0
         /\ WellFormed(q) => \E h \in 1..Len(q) : Blank(q, h)
<1>1. DOMAIN q = 1..Len(q)
  OBVIOUS
<1>2. /\ \A i \in DOMAIN q : q[i] \notin LineEnd \cup Body =>
           (i = 1 \/ q[i - 1] = "LF") /\ (i = Len(q) \/ q[i + 1] \in LineEnd)
      /\ \A i \in DOMAIN q : q[i] \in Body => \E h \in DOMAIN q : Blank(q, h) /\ h < i
      /\ \A h \in DOMAIN q : Blank(q, h) =>
           /\ \A i \in DOMAIN q : i > h => q[i] \in Body
           /\ Len(q) = h + IF Has(q, "length") THEN ContentLength ELSE 0
      /\ WellFormed(q) => \E h \in DOMAIN q : Blank(q, h)
  BY DEF IsRequest
<1> QED BY <1>1, <1>2, Zenon

\* Behind the empty line there is nothing but the body.
LEMMA AfterBlank ==
  ASSUME NEW q \in Seq(Unit), IsRequest(q), NEW h, Blank(q, h)
  PROVE  /\ h \in Nat /\ h >= 3 /\ h <= Len(q) /\ q[h] = "LF" /\ q[h - 1] = "CR" /\ q[h - 2] = "LF"
         /\ \A i \in 1..Len(q) : i > h => q[i] \in Body
         /\ Len(q) = h + IF Has(q, "length") THEN ContentLength ELSE 0
         /\ BodyOf(q) = SubSeq(q, h + 1, Len(q)) /\ Len(BodyOf(q)) = Len(q) - h
<1>k. PICK k : k = Len(q)
  OBVIOUS
<1>1. h \in Nat /\ h >= 3 /\ h <= k /\ q[h] = "LF" /\ q[h - 1] = "CR" /\ q[h - 2] = "LF" /\ k \in Nat
  BY <1>k DEF Blank
<1>2. h \in 1..k
  BY <1>1
<1>3. /\ \A i \in 1..k : i > h => q[i] \in Body
      /\ k = h + IF Has(q, "length") THEN ContentLength ELSE 0
  BY <1>2, <1>k, Whole, Zenon
<1>e. PICK ends : ends = {g \in DOMAIN q : Blank(q, g)}
  OBVIOUS
<1>d. DOMAIN q = 1..k
  BY <1>k
<1>4. h \in ends
  BY <1>2, <1>d, <1>e
<1>5. \A g \in ends : g = h
  <2>1. ASSUME NEW g \in ends PROVE g = h
    <3>1. g \in 1..k /\ Blank(q, g)
      BY <1>d, <1>e, <2>1
    <3>2. g \in Nat /\ q[g] = "LF"
      BY <3>1 DEF Blank
    <3>3. \A i \in 1..k : i > g => q[i] \in Body
      BY <3>1, <1>k, Whole, Zenon
    <3>4. "LF" \notin Body
      BY DEF Body
    <3>5. ~(g > h) /\ ~(h > g)
      BY <1>1, <1>2, <1>3, <3>1, <3>2, <3>3, <3>4
    <3> QED BY <1>1, <3>2, <3>5
  <2> QED BY <2>1
<1>6. ends = {h}
  BY <1>4, <1>5
<1>7. Min(ends) = h
  BY <1>1, <1>6 DEF Min
<1>8. BodyOf(q) = SubSeq(q, h + 1, k)
  BY <1>e, <1>k, <1>4, <1>7 DEF BodyOf
<1>9. Len(SubSeq(q, h + 1, k)) = k - h
  BY <1>1, <1>k
<1> QED BY <1>1, <1>3, <1>8, <1>9, <1>k

\* A line of a request is empty or one unit, which is none of a body.
LEMMA LineShape ==
  ASSUME NEW q \in Seq(Unit), IsRequest(q), NEW b \in Seq(Unit), NEW s \in Nat, NEW c \in Nat,
         s <= c, c <= Len(b), Agrees(b, c, q), InLines(s, c, q), NEW i, Splits(b, c, i)
  PROVE  /\ i \in Nat /\ s <= i /\ i + 2 <= Len(b) /\ i + 2 <= Len(q)
         /\ q[i + 1] = "CR" /\ q[i + 2] = "LF"
         /\ i = s \/ (i = s + 1 /\ q[s + 1] \notin LineEnd \cup Body /\ b[s + 1] = q[s + 1])
<1>k. PICK k : k = Len(b)
  OBVIOUS
<1>l. PICK l : l = Len(q)
  OBVIOUS
<1>1. k \in Nat /\ l \in Nat /\ k <= l /\ c <= k
  BY <1>k, <1>l DEF Agrees
<1>2. i \in Nat /\ i + 2 <= k /\ b[i + 1] = "CR" /\ b[i + 2] = "LF"
  BY <1>k DEF Splits
<1>3. \A j \in 1..k : /\ q[j] \notin LineEnd \/ j > c => b[j] = q[j]
                      /\ b[j] = q[j] \/ b[j] = "NUL"
  BY <1>k DEF Agrees
<1>4. q[i + 1] = "CR" /\ q[i + 2] = "LF"
  <2>1. i + 1 \in 1..k /\ i + 2 \in 1..k
    BY <1>1, <1>2
  <2> QED BY <1>2, <1>3, <2>1
<1>5. \A n \in Nat : s < n /\ n <= c => q[n] \notin LineEnd
  BY DEF InLines, Free
<1>6. i >= c /\ \A n \in Nat : c < n /\ n <= i => b[n] \notin LineEnd
  <2>1. CASE i >= c /\ Free(b, c, i)
    BY <2>1 DEF Free
  <2>2. CASE i + 1 = c /\ c > 1
    <3>1. q[c] \in LineEnd
      BY <1>4, <2>2 DEF LineEnd
    <3>2. s = c
      BY <1>5, <2>2, <3>1
    <3>3. q[s] = "LF"
      BY <2>2, <3>2 DEF InLines
    <3> QED BY <1>4, <2>2, <3>2, <3>3
  <2> QED BY <2>1, <2>2 DEF Splits
<1>7. \A n \in Nat : s < n /\ n <= i => q[n] \notin LineEnd
  <2>1. ASSUME NEW n \in Nat, s < n, n <= i PROVE q[n] \notin LineEnd
    <3>1. CASE n <= c
      BY <1>5, <2>1, <3>1
    <3>2. CASE n > c
      <4>1. n \in 1..k
        BY <1>1, <1>2, <2>1, <3>2
      <4>2. b[n] = q[n]
        BY <1>3, <3>2, <4>1
      <4>3. b[n] \notin LineEnd
        BY <1>6, <2>1, <3>2
      <4> QED BY <4>2, <4>3
    <3> QED BY <2>1, <3>1, <3>2
  <2> QED BY <2>1
<1>8. CASE i = s
  BY <1>1, <1>2, <1>4, <1>8, <1>k, <1>l
<1>9. CASE i # s
  <2>1. i >= s + 1 /\ s + 1 \in 1..l /\ s + 1 \in 1..k /\ s + 1 \in Nat /\ s + 1 < l
    BY <1>1, <1>2, <1>6, <1>9
  <2>2. q[s + 1] \notin LineEnd
    BY <1>7, <2>1
  <2>3. q[s + 1] \notin Body
    <3>1. SUFFICES ASSUME q[s + 1] \in Body PROVE FALSE
      OBVIOUS
    <3>2. PICK h \in 1..l : Blank(q, h) /\ h < s + 1
      BY <2>1, <3>1, <1>l, Whole
    <3>3. h # s
      BY <3>2 DEF InLines
    <3>4. s \in 1..l /\ s > h /\ q[s] = "LF"
      BY <1>1, <2>1, <3>2, <3>3 DEF InLines
    <3>5. q[s] \in Body
      BY <3>2, <3>4, <1>l, AfterBlank
    <3> QED BY <3>4, <3>5 DEF Body
  <2>4. q[s + 1] \notin LineEnd \cup Body
    BY <2>2, <2>3
  <2>5. q[s + 2] \in LineEnd
    <3>1. s + 1 = l \/ q[(s + 1) + 1] \in LineEnd
      BY <2>1, <2>4, <1>l, Whole
    <3>2. s + 1 # l /\ (s + 1) + 1 = s + 2
      BY <2>1, <1>1
    <3> QED BY <3>1, <3>2
  <2>6. i = s + 1
    <3>1. s + 2 \in Nat /\ s < s + 2
      OBVIOUS
    <3>2. ~(s + 2 <= i)
      BY <1>7, <2>5, <3>1
    <3> QED BY <1>2, <2>1, <3>2
  <2>7. b[s + 1] = q[s + 1]
    BY <1>3, <2>1, <2>2
  <2> QED BY <1>1, <1>2, <1>4, <2>1, <2>4, <2>6, <2>7, <1>k, <1>l
<1> QED BY <1>8, <1>9

\* After a line, the next one or the body starts.
LEMMA NextLine ==
  ASSUME NEW q \in Seq(Unit), IsRequest(q), NEW b \in Seq(Unit), NEW s \in Nat, NEW c \in Nat,
         s <= c, c <= Len(b), Agrees(b, c, q), InLines(s, c, q), NEW i, Splits(b, c, i),
         NEW d \in Seq(Unit), Len(d) = Len(b),
         \A j \in 1..Len(b) : d[j] = IF j = i + 1 \/ j = i + 2 THEN "NUL" ELSE b[j]
  PROVE  /\ Agrees(d, i + 2, q)
         /\ Blank(q, i + 2) <=> i = s /\ s > 0
         /\ ~Blank(q, i + 2) => InLines(i + 2, i + 2, q)
         /\ \A u : u \notin LineEnd =>
              (Seen(q, u, i + 2) <=> Seen(q, u, s) \/ (i = s + 1 /\ q[s + 1] = u))
<1>k. PICK k : k = Len(b)
  OBVIOUS
<1>l. PICK l : l = Len(q)
  OBVIOUS
<1>1. /\ i \in Nat /\ s <= i /\ i + 2 <= k /\ i + 2 <= l
      /\ q[i + 1] = "CR" /\ q[i + 2] = "LF"
      /\ i = s \/ (i = s + 1 /\ q[s + 1] \notin LineEnd \cup Body /\ b[s + 1] = q[s + 1])
  BY <1>k, <1>l, LineShape
<1>2. k \in Nat /\ l \in Nat /\ k <= l /\ c <= k
  BY <1>k, <1>l DEF Agrees
<1>3. \A j \in 1..k : /\ q[j] \notin LineEnd \/ j > c => b[j] = q[j]
                      /\ b[j] = q[j] \/ b[j] = "NUL"
  BY <1>k DEF Agrees
<1>4. \A j \in 1..k : d[j] = IF j = i + 1 \/ j = i + 2 THEN "NUL" ELSE b[j]
  BY <1>k
<1>5. Agrees(d, i + 2, q)
  <2>1. ASSUME NEW j \in 1..k
        PROVE  /\ q[j] \notin LineEnd \/ j > i + 2 => d[j] = q[j]
               /\ d[j] = q[j] \/ d[j] = "NUL"
    <3>1. CASE j = i + 1 \/ j = i + 2
      <4>1. q[j] \in LineEnd /\ ~(j > i + 2) /\ d[j] = "NUL"
        BY <1>1, <1>4, <3>1 DEF LineEnd
      <4> QED BY <4>1
    <3>2. CASE ~(j = i + 1 \/ j = i + 2)
      <4>1. d[j] = b[j]
        BY <1>4, <3>2
      <4>2. j > i + 2 => j > c
        <5>1. c <= i + 1
          BY DEF Splits
        <5> QED BY <1>1, <5>1
      <4> QED BY <1>3, <4>1, <4>2
    <3> QED BY <3>1, <3>2
  <2>2. Len(d) = k
    BY <1>k
  <2> QED BY <2>1, <2>2, <1>2, <1>l DEF Agrees
<1>6. Blank(q, i + 2) <=> i = s /\ s > 0
  <2>0. (i + 2) - 2 = i /\ (i + 2) - 1 = i + 1
    BY <1>1
  <2>1. Blank(q, i + 2) <=> i + 2 >= 3 /\ q[i] = "LF"
    <3>1. i + 2 \in 3..l <=> i + 2 >= 3
      BY <1>1, <1>2
    <3> QED BY <1>1, <1>l, <2>0, <3>1 DEF Blank
  <2>2. CASE i = s
    <3>1. s > 0 => q[s] = "LF"
      BY DEF InLines
    <3>2. i + 2 >= 3 <=> s > 0
      BY <2>2
    <3> QED BY <2>1, <2>2, <3>1, <3>2
  <2>3. CASE i = s + 1 /\ q[s + 1] \notin LineEnd \cup Body
    BY <2>1, <2>3 DEF LineEnd
  <2> QED BY <1>1, <2>2, <2>3
<1>7. ASSUME ~Blank(q, i + 2) PROVE InLines(i + 2, i + 2, q)
  <2>1. Free(q, i + 2, i + 2)
    BY <1>1 DEF Free
  <2> QED BY <1>1, <1>7, <2>1 DEF InLines
<1>8. ASSUME NEW u, u \notin LineEnd
      PROVE  Seen(q, u, i + 2) <=> Seen(q, u, s) \/ (i = s + 1 /\ q[s + 1] = u)
  <2>1. ASSUME NEW j \in 1..l, j <= i + 2, q[j] = u
        PROVE  j <= s \/ (i = s + 1 /\ q[s + 1] = u)
    <3>1. j # i + 1 /\ j # i + 2
      BY <1>1, <1>8, <2>1 DEF LineEnd
    <3>2. j <= i
      BY <1>1, <2>1, <3>1
    <3>3. j <= s \/ (i = s + 1 /\ j = s + 1)
      BY <1>1, <3>2
    <3> QED BY <2>1, <3>3
  <2>2. ASSUME NEW j \in 1..l, j <= s PROVE j <= i + 2
    BY <1>1, <2>2
  <2>3. ASSUME i = s + 1 PROVE s + 1 \in 1..l /\ s + 1 <= i + 2
    BY <1>1, <1>2, <2>3
  <2> QED BY <1>l, <2>1, <2>2, <2>3 DEF Seen
<1> QED BY <1>5, <1>6, <1>7, <1>8

\* As long as no line is whole, a well-formed request has not arrived.
LEMMA LineStop ==
  ASSUME NEW q \in Seq(Unit), IsRequest(q), NEW b \in Seq(Unit), NEW s \in Nat, NEW c \in Nat,
         s <= c, c <= Len(b), Agrees(b, c, q), InLines(s, c, q), NEW i, Stops(b, c, i)
  PROVE  /\ Agrees(b, i, q) /\ InLines(s, i, q)
         /\ ~(WellFormed(q) /\ Len(b) = Len(q))
<1>k. PICK k : k = Len(b)
  OBVIOUS
<1>l. PICK l : l = Len(q)
  OBVIOUS
<1>1. k \in Nat /\ l \in Nat /\ k <= l /\ c <= k
  BY <1>k, <1>l DEF Agrees
<1>2. /\ i \in Nat /\ c <= i /\ i <= k
      /\ i = k \/ b[i + 1] \in LineEnd
      /\ ~(i + 2 <= k /\ b[i + 1] = "CR" /\ b[i + 2] = "LF")
  BY <1>1, <1>k DEF Stops
<1>3. \A j \in 1..k : /\ q[j] \notin LineEnd \/ j > c => b[j] = q[j]
                      /\ b[j] = q[j] \/ b[j] = "NUL"
  BY <1>k DEF Agrees
<1>4. Agrees(b, i, q)
  <2>1. \A j \in 1..k : j > i => j > c
    BY <1>1, <1>2
  <2> QED BY <1>1, <1>3, <2>1, <1>k, <1>l DEF Agrees
<1>5. \A n \in Nat : s < n /\ n <= i => q[n] \notin LineEnd
  <2>1. ASSUME NEW n \in Nat, s < n, n <= i PROVE q[n] \notin LineEnd
    <3>1. CASE n <= c
      BY <2>1, <3>1 DEF InLines, Free
    <3>2. CASE n > c
      <4>1. n \in 1..k
        BY <1>1, <1>2, <2>1, <3>2
      <4>2. b[n] = q[n]
        BY <1>3, <3>2, <4>1
      <4>3. b[n] \notin LineEnd
        BY <2>1, <3>2 DEF Stops, Free
      <4> QED BY <4>2, <4>3
    <3> QED BY <2>1, <3>1, <3>2
  <2> QED BY <2>1
<1>6. InLines(s, i, q)
  BY <1>5 DEF InLines, Free
<1>7. ASSUME WellFormed(q), k = l PROVE FALSE
  <2>1. PICK h \in 1..l : Blank(q, h)
    BY <1>7, <1>l, Whole
  <2>2. h \in Nat /\ q[h] = "LF" /\ h <= l
    BY <2>1, AfterBlank
  <2>3. h > i
    <3>1. SUFFICES ASSUME h <= i PROVE FALSE
      BY <1>2, <2>2
    <3>2. h <= s
      BY <1>5, <2>2, <3>1 DEF LineEnd
    <3>3. h # s
      BY <2>1 DEF InLines
    <3>4. s \in 1..l /\ s > h /\ q[s] = "LF"
      BY <1>1, <2>2, <3>2, <3>3 DEF InLines
    <3>5. q[s] \in Body
      BY <2>1, <3>4, <1>l, AfterBlank
    <3> QED BY <3>4, <3>5 DEF Body
  <2>4. i < k /\ i + 1 \in 1..k /\ i + 1 > c
    BY <1>1, <1>2, <1>7, <2>2, <2>3
  <2>5. b[i + 1] = q[i + 1] /\ q[i + 1] \in LineEnd
    BY <1>2, <1>3, <2>4
  <2>6. q[1] \in {"GET", "POST"} /\ \A j \in 1..l : q[j] = "LF" <=> j > 1 /\ q[j - 1] = "CR"
    <3>1. DOMAIN q = 1..l
      BY <1>l
    <3> QED BY <1>7, <3>1 DEF WellFormed
  <2>7. CASE q[i + 1] = "CR"
    <3>1. i + 1 # h
      BY <2>2, <2>7
    <3>2. i + 2 \in 1..l /\ i + 2 \in 1..k /\ i + 2 > 1 /\ (i + 2) - 1 = i + 1 /\ i + 2 > c
      BY <1>1, <1>2, <1>7, <2>2, <2>3, <3>1
    <3>3. q[i + 2] = "LF"
      BY <2>6, <2>7, <3>2
    <3>4. b[i + 2] = "LF"
      BY <1>3, <3>2, <3>3
    <3> QED BY <1>2, <2>5, <2>7, <3>2, <3>4
  <2>8. CASE q[i + 1] = "LF"
    <3>1. i + 1 \in 1..l /\ (i + 1) - 1 = i
      BY <1>2, <1>7, <2>4
    <3>2. i + 1 > 1 /\ q[i] = "CR"
      BY <2>6, <2>8, <3>1
    <3>3. i <= s
      BY <1>2, <1>5, <3>2 DEF LineEnd
    <3>4. i = s /\ s > 0
      BY <1>2, <3>2, <3>3
    <3>5. q[s] = "LF"
      BY <3>4 DEF InLines
    <3> QED BY <3>2, <3>4, <3>5
  <2> QED BY <2>5, <2>7, <2>8 DEF LineEnd
<1> QED BY <1>4, <1>6, <1>7, <1>k, <1>l

\* The body of q starts behind its first h units.  One that was seen in part (cut) is
\* not found any more.
InBody(r, q, h, cut) ==
  /\ Blank(q, h) /\ Len(q) = h + ContentLength
  /\ h <= r.m_checked_idx
  /\ r.m_linger = Has(q, "keep-alive") /\ r.m_content_length = ContentLength
  /\ r.m_checked_idx = h => r.m_start_line = h
  /\ r.m_checked_idx > h => cut

\* The parser has read a beginning of q.
Reading(r, q, cut) ==
  /\ r \in Indexed /\ Agrees(r.m_read_buf, r.m_checked_idx, q)
  /\ r.m_check_state = "REQUESTLINE" =>
       /\ InLines(r.m_start_line, r.m_checked_idx, q)
       /\ r.m_start_line = 0 /\ r.m_linger = FALSE /\ r.m_content_length = 0
  /\ r.m_check_state = "HEADER" =>
       /\ InLines(r.m_start_line, r.m_checked_idx, q)
       /\ r.m_start_line > 0
       /\ r.m_linger = Seen(q, "keep-alive", r.m_start_line)
       /\ r.m_content_length = IF Seen(q, "length", r.m_start_line) THEN ContentLength ELSE 0
  /\ r.m_check_state = "CONTENT" => \E h : InBody(r, q, h, cut)

\* The parser has a request, from a buffer of k units.
Taken(r, ret, q, k) ==
  /\ ret = "GET_REQUEST" =>
       /\ k = Len(q) /\ r.m_linger = Has(q, "keep-alive")
       /\ BodyOf(q) # <<>> => r.m_string = BodyOf(q)
  /\ ret = "BAD_REQUEST" => r.m_linger = FALSE /\ ~WellFormed(q)

\* The loop of process_read on a buffer of k units.
Good(z, q, k, cut) ==
  /\ Len(z.rec.m_read_buf) = k
  /\ ~z.over => /\ z.ret = "NO_REQUEST"
                /\ z.line_status = "LINE_OPEN" =>
                     /\ z.rec.m_check_state = "CONTENT"
                     /\ k < z.rec.m_content_length + z.rec.m_checked_idx
  /\ z.ret = "NO_REQUEST" => Reading(z.rec, q, cut)
  /\ z.over /\ z.ret = "NO_REQUEST" /\ WellFormed(q) /\ k = Len(q) => cut
  /\ z.ret # "NO_REQUEST" => Taken(z.rec, z.ret, q, k)

\* A part of the body of q is among the first k units, but not all of it.
PartOfBody(q, k) == k - (Len(q) - Len(BodyOf(q))) \in 1..(Len(BodyOf(q)) - 1)

LEMMA TurnInBody ==
  ASSUME NEW q \in Seq(Unit), IsRequest(q), NEW k, NEW cut \in BOOLEAN, PartOfBody(q, k) => cut,
         NEW z \in Loop, ~z.over, Good(z, q, k, cut), z.rec.m_check_state = "CONTENT"
  PROVE  Good(Turn(z), q, k, cut)
<1>r. PICK r : r = z.rec
  OBVIOUS
<1>y. PICK y : y = Turn(z)
  OBVIOUS
<1>b. PICK b : b = r.m_read_buf
  OBVIOUS
<1>c. PICK c : c = r.m_checked_idx
  OBVIOUS
<1>s. PICK s : s = r.m_start_line
  OBVIOUS
<1>n. PICK n : n = Len(q)
  OBVIOUS
<1>0. /\ r \in Indexed /\ b \in Seq(Unit) /\ c \in Nat /\ s \in Nat /\ s <= c /\ c <= Len(b)
      /\ Len(b) \in Nat
  BY LoopFields, Fields, <1>r, <1>b, <1>c, <1>s
<1>1. k = Len(b) /\ Reading(r, q, cut) /\ n \in Nat
      /\ (z.line_status = "LINE_OPEN" => k < r.m_content_length + c)
  BY <1>r, <1>b, <1>c, <1>n DEF Good
<1>2. Agrees(b, c, q)
  BY <1>1, <1>b, <1>c DEF Reading
<1>3. PICK h : InBody(r, q, h, cut)
  BY <1>1, <1>r DEF Reading
<1>4. /\ Blank(q, h) /\ n = h + ContentLength /\ h <= c
      /\ r.m_linger = Has(q, "keep-alive") /\ r.m_content_length = ContentLength
      /\ c = h => s = h
      /\ c > h => cut
  BY <1>3, <1>c, <1>s, <1>n DEF InBody
<1>5. /\ h \in Nat /\ h >= 3 /\ h <= n /\ q[h] = "LF"
      /\ \A i \in 1..n : i > h => q[i] \in Body
      /\ BodyOf(q) = SubSeq(q, h + 1, n) /\ Len(BodyOf(q)) = n - h
  BY <1>4, <1>n, AfterBlank
<1>6. k <= n /\ \A j \in 1..k : /\ q[j] \notin LineEnd \/ j > c => b[j] = q[j]
                                /\ b[j] = q[j] \/ b[j] = "NUL"
  BY <1>1, <1>2, <1>n DEF Agrees
<1>7. ContentLength \in Nat /\ ContentLength > 0
  BY LengthAssumption
<1>8. CASE AtBody(z)
  <2>1. /\ y \in Loop /\ y.line_status = "LINE_OPEN"
        /\ y.rec.m_start_line = c /\ y.rec.m_checked_idx = c
        /\ y.rec.m_read_buf = b /\ y.rec.m_check_state = "CONTENT"
        /\ y.rec.m_linger = r.m_linger /\ y.rec.m_content_length = r.m_content_length
        /\ IF Len(b) >= r.m_content_length + c
           THEN /\ y.ret = "GET_REQUEST" /\ y.over
                /\ y.rec.m_string = SubSeq(b, s + 1, s + r.m_content_length)
           ELSE y.ret = "NO_REQUEST" /\ ~y.over
    <3>1. BodyTurn(y, r)
      BY <1>8, <1>r, <1>y, TurnBody, Zenon
    <3> QED BY <1>b, <1>c, <1>s, <3>1 DEF BodyTurn
  <2>2. CASE k >= ContentLength + c
    <3>1. c = h /\ k = n /\ s = h
      BY <1>0, <1>1, <1>4, <1>5, <1>6, <1>7, <2>2
    <3>2. y.ret = "GET_REQUEST" /\ y.over
          /\ y.rec.m_string = SubSeq(b, s + 1, s + ContentLength)
      BY <1>1, <1>4, <2>1, <2>2
    <3>3. SubSeq(b, s + 1, s + ContentLength) = SubSeq(b, h + 1, n)
      BY <1>4, <3>1
    <3>4. SubSeq(b, h + 1, n) = SubSeq(q, h + 1, n)
      <4>1. \A j \in (h + 1)..n : b[j] = q[j]
        BY <1>5, <1>6, <3>1
      <4>2. h + 1 \in Int /\ n \in Int /\ 1 <= h + 1 /\ n <= Len(b) /\ n <= Len(q)
        BY <1>1, <1>5, <1>n, <3>1
      <4> QED BY <1>0, <1>1, <4>1, <4>2
    <3>5. y.rec.m_string = BodyOf(q)
      BY <1>5, <3>2, <3>3, <3>4
    <3>6. Taken(y.rec, y.ret, q, k)
      BY <1>4, <1>n, <2>1, <3>1, <3>2, <3>5 DEF Taken
    <3> QED BY <1>1, <1>y, <2>1, <3>2, <3>6 DEF Good
  <2>3. CASE ~(k >= ContentLength + c)
    <3>1. y.ret = "NO_REQUEST" /\ ~y.over
      BY <1>1, <1>4, <2>1, <2>3
    <3>2. k < y.rec.m_content_length + y.rec.m_checked_idx
      BY <1>0, <1>1, <1>4, <1>7, <2>1, <2>3
    <3>3. InBody(y.rec, q, h, cut)
      BY <1>4, <1>n, <2>1 DEF InBody
    <3>4. y.rec \in Indexed
      BY <2>1, LoopFields
    <3>5. Reading(y.rec, q, cut)
      BY <1>2, <2>1, <3>3, <3>4 DEF Reading
    <3> QED BY <1>1, <1>y, <2>1, <3>1, <3>2, <3>5 DEF Good
  <2> QED BY <2>2, <2>3
<1>9. CASE ~AtBody(z)
  <2>1. k < ContentLength + c
    <3>1. z.line_status = "LINE_OPEN"
      BY <1>9, LoopFields DEF AtBody
    <3> QED BY <1>1, <1>4, <3>1
  <2>2. \A j \in Nat : h < j /\ j <= n => q[j] \notin LineEnd
    <3>1. ASSUME NEW j \in Nat, h < j, j <= n PROVE q[j] \notin LineEnd
      <4>1. j \in 1..n /\ j > h
        BY <1>5, <3>1
      <4>2. q[j] \in Body
        BY <1>5, <4>1
      <4> QED BY <4>2 DEF Body, LineEnd
    <3> QED BY <3>1
  <2>3. ASSUME NEW i, Splits(b, c, i) PROVE FALSE
    <3>1. i \in Nat /\ i + 2 <= k /\ b[i + 1] = "CR" /\ b[i + 2] = "LF" /\ (i >= c \/ i + 1 = c)
      BY <1>1, <2>3 DEF Splits
    <3>2. i + 1 \in 1..k /\ i + 1 >= h /\ i + 1 <= n
      BY <1>0, <1>1, <1>4, <1>5, <1>6, <3>1
    <3>3. q[i + 1] = "CR"
      BY <1>6, <3>1, <3>2
    <3>4. i + 1 # h
      BY <1>5, <3>3
    <3>5. i + 1 > h
      BY <1>5, <3>1, <3>2, <3>4
    <3> QED BY <2>2, <3>1, <3>2, <3>3, <3>5 DEF LineEnd
  <2>4. PICK i : i \in Nat /\ Stopping(z, i)
    BY <1>b, <1>c, <1>r, <2>3, TurnLines DEF Splitting
  <2>5. /\ y \in Loop /\ y.over /\ y.ret = z.ret /\ y.line_status = z.line_status
        /\ SameText(y.rec, r) /\ y.rec.m_checked_idx = i
        /\ y.rec.m_start_line = s /\ y.rec.m_read_buf = b
    <3>h. PICK how \in {"LINE_OPEN", "LINE_BAD"} :
            parse_line(r) = Stopped(r, how, i) /\ Stops(r.m_read_buf, r.m_checked_idx, i)
      BY <2>4, <1>r DEF Stopping
    <3>1. StopTurn(y, z, r, i)
      BY <1>9, <1>r, <1>y, <3>h, TurnStops, Zenon
    <3> QED BY <1>b, <1>s, <3>1 DEF StopTurn
  <2>6. Stops(b, c, i)
    BY <1>b, <1>c, <1>r, <2>4 DEF Stopping
  <2>7. c <= i /\ i <= k /\ i \in Nat
    BY <1>0, <1>1, <2>6 DEF Stops
  <2>8. i = k
    <3>1. SUFFICES ASSUME i < k PROVE FALSE
      BY <1>0, <1>1, <2>7
    <3>2. b[i + 1] \in LineEnd
      BY <1>0, <1>1, <2>6, <3>1 DEF Stops
    <3>3. i + 1 \in 1..k /\ h < i + 1 /\ i + 1 <= n /\ i + 1 > c /\ i + 1 \in Nat
      BY <1>0, <1>1, <1>4, <1>5, <1>6, <2>7, <3>1
    <3>4. b[i + 1] = q[i + 1]
      BY <1>6, <3>3
    <3> QED BY <2>2, <3>2, <3>3, <3>4
  <2>9. k > h => cut
    <3>1. CASE c > h
      BY <1>4, <3>1
    <3>2. CASE c = h
      <4>1. ASSUME k > h PROVE PartOfBody(q, k)
        <5>1. k - (n - (n - h)) \in 1..((n - h) - 1)
          <6>1. k \in Nat /\ h \in Nat /\ n = h + ContentLength /\ k < ContentLength + h
            BY <1>0, <1>1, <1>4, <1>5, <2>1, <3>2
          <6> QED BY <1>7, <4>1, <6>1
        <5> QED BY <1>5, <1>n, <5>1 DEF PartOfBody
      <4> QED BY <4>1
    <3> QED BY <1>0, <1>4, <1>5, <3>1, <3>2
  <2>10. InBody(y.rec, q, h, cut)
    <3>1. k = h => s = h
      BY <1>0, <1>1, <1>4, <1>5
    <3>2. h <= k
      BY <1>0, <1>1, <1>4, <1>5
    <3>3. y.rec.m_linger = r.m_linger /\ y.rec.m_content_length = r.m_content_length
      BY <2>5 DEF SameText
    <3>4. y.rec.m_checked_idx = k
      BY <2>5, <2>8
    <3> QED BY <1>4, <1>n, <2>5, <2>9, <3>1, <3>2, <3>3, <3>4 DEF InBody
  <2>11. Agrees(b, i, q)
    <3>1. \A j \in 1..k : ~(j > i)
      BY <1>0, <1>1, <2>8
    <3> QED BY <1>1, <1>6, <1>n, <3>1 DEF Agrees
  <2>12. y.rec \in Indexed /\ y.rec.m_check_state = "CONTENT"
    BY <2>5, <1>r, LoopFields DEF SameText
  <2>13. Reading(y.rec, q, cut)
    BY <2>5, <2>10, <2>11, <2>12 DEF Reading
  <2>14. k = n => cut
    <3>1. k = n => k > h
      BY <1>4, <1>5, <1>7
    <3> QED BY <2>9, <3>1
  <2>15. y.ret = "NO_REQUEST"
    BY <2>5 DEF Good
  <2> QED BY <1>1, <1>n, <1>y, <2>5, <2>13, <2>14, <2>15 DEF Good
<1> QED BY <1>8, <1>9

\* A connection header or a length is none of the body.
LEMMA HeadersSeen ==
  ASSUME NEW q \in Seq(Unit), IsRequest(q), NEW h, Blank(q, h), NEW s, h = s + 2, s \in Nat,
         NEW u \in {"keep-alive", "length"}
  PROVE  Has(q, u) = Seen(q, u, s)
<1>n. PICK n : n = Len(q)
  OBVIOUS
<1>1. /\ h \in Nat /\ h >= 3 /\ h <= n /\ q[h] = "LF" /\ q[h - 1] = "CR"
      /\ \A i \in 1..n : i > h => q[i] \in Body
  BY <1>n, AfterBlank
<1>2. q[s + 2] = "LF" /\ q[s + 1] = "CR"
  <2>1. h - 1 = s + 1
    OBVIOUS
  <2> QED BY <1>1, <2>1
<1>3. ASSUME NEW i \in 1..n, q[i] = u PROVE i <= s
  <2>1. ~(i > h)
    BY <1>1, <1>3 DEF Body
  <2>2. i # s + 2 /\ i # s + 1
    BY <1>2, <1>3
  <2> QED BY <1>1, <2>1, <2>2
<1>4. DOMAIN q = 1..n
  BY <1>n
<1>5. Has(q, u) <=> Seen(q, u, s)
  BY <1>3, <1>4, <1>n DEF Has, Seen
<1>6. Has(q, u) \in BOOLEAN
  BY DEF Has
<1>7. Seen(q, u, s) \in BOOLEAN
  BY DEF Seen
<1>h. PICK hs : hs = Has(q, u)
  OBVIOUS
<1>e. PICK sn : sn = Seen(q, u, s)
  OBVIOUS
<1> QED BY <1>5, <1>6, <1>7, <1>h, <1>e

\* The turn on the line r.m_start_line..i of the request line or a header.
LEMMA TurnOnLine ==
  ASSUME NEW q \in Seq(Unit), IsRequest(q), NEW k, NEW cut \in BOOLEAN,
         NEW z \in Loop, ~z.over, Good(z, q, k, cut), z.rec.m_check_state # "CONTENT",
         NEW i, Splitting(z, i)
  PROVE  Good(Turn(z), q, k, cut)
<1>r. PICK r : r = z.rec
  OBVIOUS
<1>y. PICK y : y = Turn(z)
  OBVIOUS
<1>b. PICK b : b = r.m_read_buf
  OBVIOUS
<1>c. PICK c : c = r.m_checked_idx
  OBVIOUS
<1>s. PICK s : s = r.m_start_line
  OBVIOUS
<1>n. PICK n : n = Len(q)
  OBVIOUS
<1>0. /\ r \in Indexed /\ b \in Seq(Unit) /\ c \in Nat /\ s \in Nat /\ s <= c /\ c <= Len(b)
      /\ Len(b) \in Nat /\ r.m_check_state \in {"REQUESTLINE", "HEADER"} /\ r.m_linger \in BOOLEAN
  BY LoopFields, Fields, <1>r, <1>b, <1>c, <1>s DEF CheckState
<1>1. k = Len(b) /\ Reading(r, q, cut) /\ n \in Nat
  BY <1>r, <1>b, <1>n DEF Good
<1>2. Agrees(b, c, q) /\ InLines(s, c, q)
  BY <1>0, <1>1, <1>b, <1>c, <1>s DEF Reading
<1>3. Splits(b, c, i) /\ parse_line(r) = Ended(r, i)
  BY <1>r, <1>b, <1>c DEF Splitting
<1>4. /\ i \in Nat /\ s <= i /\ i + 2 <= k /\ i + 2 <= n
      /\ q[i + 1] = "CR" /\ q[i + 2] = "LF"
      /\ i = s \/ (i = s + 1 /\ q[s + 1] \notin LineEnd \cup Body /\ b[s + 1] = q[s + 1])
  BY <1>0, <1>1, <1>2, <1>3, <1>n, LineShape
<1>d. PICK d : d = Ended(r, i).rec.m_read_buf
  OBVIOUS
<1>t. PICK text : text = SubSeq(d, s + 1, i)
  OBVIOUS
<1>5. /\ y \in Loop /\ y.over = (y.ret # "NO_REQUEST") /\ y.line_status = "LINE_OK"
      /\ y.rec.m_start_line = i + 2 /\ y.rec.m_checked_idx = i + 2
      /\ y.rec.m_read_buf = d /\ Len(d) = k
      /\ \A j \in 1..k : d[j] = IF j = i + 1 \/ j = i + 2 THEN "NUL" ELSE b[j]
      /\ r.m_check_state = "REQUESTLINE" =>
           /\ y.rec.m_linger = r.m_linger /\ y.rec.m_content_length = r.m_content_length
           /\ \/ /\ text \in {<<"GET">>, <<"POST">>} /\ y.ret = "NO_REQUEST"
                 /\ y.rec.m_check_state = "HEADER"
              \/ /\ text \notin {<<"GET">>, <<"POST">>} /\ y.ret = "BAD_REQUEST"
                 /\ y.rec.m_check_state = "REQUESTLINE"
      /\ r.m_check_state = "HEADER" =>
           /\ y.rec.m_linger = (r.m_linger \/ text = <<"keep-alive">>)
           /\ y.rec.m_content_length =
                IF text = <<"length">> THEN ContentLength ELSE r.m_content_length
           /\ y.ret \in {"NO_REQUEST", "GET_REQUEST"}
           /\ y.ret = "GET_REQUEST" <=> text = <<>> /\ r.m_content_length = 0
           /\ y.rec.m_check_state =
                IF text = <<>> /\ r.m_content_length # 0 THEN "CONTENT" ELSE "HEADER"
  <2>1. ~AtBody(z) /\ r.m_check_state # "CONTENT"
    BY <1>r DEF AtBody
  <2>2. i \in Nat /\ i + 2 <= Len(r.m_read_buf) /\ r.m_checked_idx <= i + 2
    <3>1. c <= i + 2
      BY <1>0, <1>3, <1>4 DEF Splits
    <3> QED BY <1>1, <1>4, <1>b, <1>c, <3>1
  <2>3. text = SubSeq(Ended(r, i).rec.m_read_buf, r.m_start_line + 1, i)
    BY <1>d, <1>s, <1>t, Zenon
  <2>4. LineTurn(y, r, i, text)
    BY <1>3, <1>r, <1>y, <2>1, <2>2, <2>3, TurnSplits, Zenon
  <2> QED BY <1>1, <1>b, <1>d, <2>1, <2>4 DEF LineTurn
<1>6. y.rec \in Indexed /\ d \in Seq(Unit)
  BY <1>5, LoopFields, Fields
<1>7. /\ Agrees(d, i + 2, q)
      /\ Blank(q, i + 2) <=> i = s /\ s > 0
      /\ ~Blank(q, i + 2) => InLines(i + 2, i + 2, q)
      /\ \A u : u \notin LineEnd =>
           (Seen(q, u, i + 2) <=> Seen(q, u, s) \/ (i = s + 1 /\ q[s + 1] = u))
  BY <1>0, <1>1, <1>2, <1>3, <1>5, <1>6, NextLine
<1>8. IF i = s THEN text = <<>> ELSE text = <<q[s + 1]>>
  <2>1. CASE i = s
    <3>1. text = SubSeq(d, s + 1, s)
      BY <1>t, <2>1
    <3>2. SubSeq(d, s + 1, s) = <<>>
      BY <1>0, <1>6
    <3> QED BY <2>1, <3>1, <3>2
  <2>2. CASE i # s
    <3>1. i = s + 1 /\ b[s + 1] = q[s + 1]
      BY <1>4, <2>2
    <3>2. s + 1 \in 1..k
      BY <1>0, <1>1, <1>4, <3>1
    <3>3. d[s + 1] = q[s + 1]
      <4>1. s + 1 # i + 1 /\ s + 1 # i + 2
        BY <1>0, <3>1
      <4> QED BY <1>5, <3>1, <3>2, <4>1
    <3>w. PICK w : w = SubSeq(d, s + 1, s + 1)
      OBVIOUS
    <3>4. w \in Seq(Unit) /\ Len(w) = 1 /\ w[1] = d[s + 1]
      <4>1. s + 1 \in Nat /\ 1 <= s + 1 /\ s + 1 <= Len(d)
        BY <1>0, <1>1, <1>5, <3>2
      <4> QED BY <1>6, <3>w, <4>1
    <3>5. w = <<w[1]>>
      BY <3>4
    <3>6. text = w
      BY <1>t, <3>1, <3>w
    <3> QED BY <2>2, <3>3, <3>4, <3>5, <3>6, Zenon
  <2> QED BY <2>1, <2>2
<1>9. "keep-alive" \notin LineEnd /\ "length" \notin LineEnd
  BY DEF LineEnd
<1>10. CASE r.m_check_state = "REQUESTLINE"
  <2>1. s = 0 /\ r.m_linger = FALSE /\ r.m_content_length = 0
    BY <1>1, <1>10, <1>s DEF Reading
  <2>2. ASSUME NEW u PROVE ~Seen(q, u, s)
    BY <2>1 DEF Seen
  <2>3. CASE text \in {<<"GET">>, <<"POST">>}
    <3>1. y.ret = "NO_REQUEST" /\ y.rec.m_check_state = "HEADER"
          /\ y.rec.m_linger = FALSE /\ y.rec.m_content_length = 0
      BY <1>5, <1>10, <2>1, <2>3
    <3>0. \A u : <<u>> # <<>> /\ \A w : <<u>> = <<w>> <=> u = w
      OBVIOUS
    <3>2. i # s /\ q[s + 1] \in {"GET", "POST"}
      <4>1. text = <<"GET">> \/ text = <<"POST">>
        BY <2>3
      <4>2. i # s
        BY <1>8, <3>0, <4>1, Zenon
      <4>3. q[s + 1] = "GET" \/ q[s + 1] = "POST"
        BY <1>8, <3>0, <4>1, <4>2, Zenon
      <4> QED BY <4>2, <4>3
    <3>3. InLines(i + 2, i + 2, q)
      BY <1>7, <3>2
    <3>4. ~Seen(q, "keep-alive", i + 2) /\ ~Seen(q, "length", i + 2)
      BY <1>7, <1>9, <2>2, <3>2
    <3>5. i + 2 > 0
      BY <1>4
    <3>6. y.rec.m_linger = Seen(q, "keep-alive", i + 2)
      <4>1. Seen(q, "keep-alive", i + 2) = FALSE
        BY <3>4 DEF Seen
      <4> QED BY <3>1, <4>1
    <3>7. y.rec.m_content_length = IF Seen(q, "length", i + 2) THEN ContentLength ELSE 0
      BY <3>1, <3>4, Zenon
    <3>8. Reading(y.rec, q, cut)
      BY <1>5, <1>6, <1>7, <3>1, <3>3, <3>5, <3>6, <3>7 DEF Reading
    <3> QED BY <1>5, <1>y, <3>1, <3>8 DEF Good
  <2>4. CASE text \notin {<<"GET">>, <<"POST">>}
    <3>1. y.ret = "BAD_REQUEST" /\ y.rec.m_linger = FALSE /\ y.over
      BY <1>5, <1>10, <2>1, <2>4
    <3>2. q[1] \notin {"GET", "POST"}
      <4>1. CASE i = s
        BY <1>4, <2>1, <4>1
      <4>2. CASE i # s
        <5>1. text = <<q[1]>>
          BY <1>8, <2>1, <4>2
        <5> QED BY <2>4, <5>1
      <4> QED BY <4>1, <4>2
    <3>3. Taken(y.rec, y.ret, q, k)
      BY <3>1, <3>2 DEF Taken, WellFormed
    <3> QED BY <1>5, <1>y, <3>1, <3>3 DEF Good
  <2> QED BY <2>3, <2>4
<1>11. CASE r.m_check_state = "HEADER"
  <2>1. /\ s > 0 /\ r.m_linger = Seen(q, "keep-alive", s)
        /\ r.m_content_length = IF Seen(q, "length", s) THEN ContentLength ELSE 0
    BY <1>1, <1>11, <1>s DEF Reading
  <2>2. CASE i = s
    <3>0. <<>> # <<"keep-alive">> /\ <<>> # <<"length">>
      OBVIOUS
    <3>1. text = <<>> /\ Blank(q, i + 2)
      BY <1>7, <1>8, <2>1, <2>2
    <3>2. /\ y.rec.m_linger = r.m_linger /\ y.rec.m_content_length = r.m_content_length
          /\ y.ret \in {"NO_REQUEST", "GET_REQUEST"}
          /\ y.ret = "GET_REQUEST" <=> r.m_content_length = 0
          /\ y.rec.m_check_state = IF r.m_content_length # 0 THEN "CONTENT" ELSE "HEADER"
      <4>1. (r.m_linger \/ text = <<"keep-alive">>) = r.m_linger
        BY <1>0, <3>0, <3>1
      <4> QED BY <1>5, <1>11, <3>0, <3>1, <4>1
    <3>3. Has(q, "keep-alive") = Seen(q, "keep-alive", s) /\ Has(q, "length") = Seen(q, "length", s)
      BY <1>0, <2>2, <3>1, HeadersSeen
    <3>4. /\ n = (i + 2) + IF Has(q, "length") THEN ContentLength ELSE 0
          /\ BodyOf(q) = SubSeq(q, (i + 2) + 1, n) /\ Len(BodyOf(q)) = n - (i + 2)
      BY <1>n, <3>1, AfterBlank
    <3>5. CASE Seen(q, "length", s)
      <4>1. r.m_content_length = ContentLength /\ ContentLength # 0
        BY <2>1, <3>5, LengthAssumption
      <4>2. y.ret = "NO_REQUEST" /\ y.rec.m_check_state = "CONTENT" /\ ~y.over
        BY <1>5, <3>2, <4>1
      <4>3. n = (i + 2) + ContentLength
        BY <3>3, <3>4, <3>5
      <4>4. y.rec.m_linger = Has(q, "keep-alive")
        BY <2>1, <3>2, <3>3
      <4>5. ~(i + 2 > i + 2) /\ i + 2 <= i + 2
        BY <1>4
      <4>6. InBody(y.rec, q, i + 2, cut)
        BY <1>5, <1>n, <3>1, <3>2, <4>1, <4>3, <4>4, <4>5 DEF InBody
      <4>7. Reading(y.rec, q, cut)
        BY <1>5, <1>6, <1>7, <4>2, <4>6 DEF Reading
      <4> QED BY <1>5, <1>y, <4>2, <4>7 DEF Good
    <3>6. CASE ~Seen(q, "length", s)
      <4>1. r.m_content_length = 0
        BY <2>1, <3>6
      <4>2. y.ret = "GET_REQUEST" /\ y.over
        BY <1>5, <3>2, <4>1
      <4>3. n = i + 2
        BY <1>4, <3>3, <3>4, <3>6
      <4>4. k = n
        <5>1. k <= n
          BY <1>1, <1>2, <1>n DEF Agrees
        <5> QED BY <1>0, <1>1, <1>4, <4>3, <5>1
      <4>5. y.rec.m_linger = Has(q, "keep-alive")
        BY <2>1, <3>2, <3>3
      <4>6. BodyOf(q) = <<>>
        BY <1>1, <3>4, <4>3
      <4>7. Taken(y.rec, y.ret, q, k)
        BY <1>n, <4>2, <4>4, <4>5, <4>6 DEF Taken
      <4> QED BY <1>5, <1>y, <4>2, <4>7 DEF Good
    <3> QED BY <3>5, <3>6
  <2>3. CASE i # s
    <3>0. \A u : <<u>> # <<>> /\ \A w : <<u>> = <<w>> <=> u = w
      OBVIOUS
    <3>u. PICK u : u = q[s + 1]
      OBVIOUS
    <3>1. text = <<u>> /\ i = s + 1 /\ ~Blank(q, i + 2)
      BY <1>4, <1>7, <1>8, <2>3, <3>u
    <3>2. text # <<>> /\ (text = <<"keep-alive">> <=> u = "keep-alive")
          /\ (text = <<"length">> <=> u = "length")
      BY <3>0, <3>1
    <3>3. y.ret = "NO_REQUEST" /\ y.rec.m_check_state = "HEADER" /\ ~y.over
      BY <1>5, <1>11, <3>2
    <3>4. y.rec.m_linger = Seen(q, "keep-alive", i + 2)
      <4>1. y.rec.m_linger = (Seen(q, "keep-alive", s) \/ text = <<"keep-alive">>)
        BY <1>5, <1>11, <2>1
      <4>2. Seen(q, "keep-alive", i + 2) <=> Seen(q, "keep-alive", s) \/ u = "keep-alive"
        BY <1>7, <1>9, <3>1, <3>u
      <4>3. Seen(q, "keep-alive", i + 2) \in BOOLEAN
        BY DEF Seen
      <4>4. (Seen(q, "keep-alive", s) \/ text = <<"keep-alive">>) = Seen(q, "keep-alive", i + 2)
        BY <3>2, <4>2, <4>3, Zenon
      <4> QED BY <4>1, <4>4
    <3>5. y.rec.m_content_length = IF Seen(q, "length", i + 2) THEN ContentLength ELSE 0
      <4>1. y.rec.m_content_length =
              IF u = "length" THEN ContentLength ELSE IF Seen(q, "length", s) THEN ContentLength ELSE 0
        BY <1>5, <1>11, <2>1, <3>2
      <4>2. Seen(q, "length", i + 2) <=> Seen(q, "length", s) \/ u = "length"
        BY <1>7, <1>9, <3>1, <3>u
      <4> QED BY <4>1, <4>2, Zenon
    <3>6. InLines(i + 2, i + 2, q) /\ i + 2 > 0
      BY <1>4, <1>7, <3>1
    <3>7. Reading(y.rec, q, cut)
      BY <1>5, <1>6, <1>7, <3>3, <3>4, <3>5, <3>6 DEF Reading
    <3> QED BY <1>5, <1>y, <3>3, <3>7 DEF Good
  <2> QED BY <2>2, <2>3
<1> QED BY <1>0, <1>10, <1>11

\* The turn that finds no whole line in the request line or a header.
LEMMA TurnWaits ==
  ASSUME NEW q \in Seq(Unit), IsRequest(q), NEW k, NEW cut \in BOOLEAN,
         NEW z \in Loop, ~z.over, Good(z, q, k, cut), z.rec.m_check_state # "CONTENT",
         NEW i, Stopping(z, i)
  PROVE  Good(Turn(z), q, k, cut)
<1>r. PICK r : r = z.rec
  OBVIOUS
<1>y. PICK y : y = Turn(z)
  OBVIOUS
<1>b. PICK b : b = r.m_read_buf
  OBVIOUS
<1>c. PICK c : c = r.m_checked_idx
  OBVIOUS
<1>s. PICK s : s = r.m_start_line
  OBVIOUS
<1>0. /\ r \in Indexed /\ b \in Seq(Unit) /\ c \in Nat /\ s \in Nat /\ s <= c /\ c <= Len(b)
      /\ r.m_check_state \in {"REQUESTLINE", "HEADER"}
  BY LoopFields, Fields, <1>r, <1>b, <1>c, <1>s DEF CheckState
<1>1. k = Len(b) /\ Reading(r, q, cut) /\ z.ret = "NO_REQUEST"
  BY <1>r, <1>b DEF Good
<1>2. Agrees(b, c, q) /\ InLines(s, c, q)
  BY <1>0, <1>1, <1>b, <1>c, <1>s DEF Reading
<1>3. Stops(b, c, i)
  BY <1>r, <1>b, <1>c DEF Stopping
<1>4. Agrees(b, i, q) /\ InLines(s, i, q) /\ ~(WellFormed(q) /\ k = Len(q))
  BY <1>0, <1>1, <1>2, <1>3, LineStop
<1>5. /\ y \in Loop /\ y.over /\ y.ret = z.ret
      /\ SameText(y.rec, r) /\ y.rec.m_checked_idx = i
      /\ y.rec.m_start_line = s /\ y.rec.m_read_buf = b
  <2>h. PICK how \in {"LINE_OPEN", "LINE_BAD"} :
          parse_line(r) = Stopped(r, how, i) /\ Stops(r.m_read_buf, r.m_checked_idx, i)
    BY <1>r DEF Stopping
  <2>1. ~AtBody(z)
    BY DEF AtBody
  <2>2. StopTurn(y, z, r, i)
    BY <1>r, <1>y, <2>h, <2>1, TurnStops, Zenon
  <2> QED BY <1>b, <1>s, <2>2 DEF StopTurn
<1>6. y.rec \in Indexed
  BY <1>5, LoopFields
<1>7. Reading(y.rec, q, cut)
  <2>1. /\ y.rec.m_check_state = r.m_check_state /\ y.rec.m_linger = r.m_linger
        /\ y.rec.m_content_length = r.m_content_length
    BY <1>5 DEF SameText
  <2> QED BY <1>0, <1>1, <1>4, <1>5, <1>6, <1>s, <2>1 DEF Reading
<1> QED BY <1>1, <1>4, <1>5, <1>7, <1>y DEF Good

\* process_read takes a whole request, and understands it, or has read a beginning of it;
\* it asks for more of one that is whole only if it is no request, or has a body that was
\* seen in part.
ReadAs(v, ret, q, k, cut) ==
  /\ v \in Indexed /\ ret \in Rets /\ Len(v.m_read_buf) = k
  /\ ret = "NO_REQUEST" => Reading(v, q, cut)
  /\ ret = "NO_REQUEST" /\ WellFormed(q) /\ k = Len(q) => cut
  /\ ret # "NO_REQUEST" => Taken(v, ret, q, k)
LEMMA ReadOK ==
  ASSUME NEW q \in Seq(Unit), IsRequest(q), NEW r, NEW cut \in BOOLEAN, Reading(r, q, cut),
         NEW k, k = Len(r.m_read_buf), PartOfBody(q, k) => cut
  PROVE  \E v, ret : process_read(r) = Goes(v, ret) /\ ReadAs(v, ret, q, k, cut)
<1>L. PICK L : L = Loop
  OBVIOUS
<1>P. PICK P : P = {z \in L : Good(z, q, k, cut)}
  OBVIOUS
<1>0. r \in Indexed
  BY DEF Reading
<1>1. Begin(r) \in P
  <2>z. PICK z : z = Begin(r)
    OBVIOUS
  <2>1. z \in Loop /\ z.rec = r /\ z.ret = "NO_REQUEST" /\ ~z.over /\ z.line_status = "LINE_OK"
    BY <1>0, <2>z, BeginOK
  <2>2. Good(z, q, k, cut)
    BY <2>1 DEF Good
  <2> QED BY <1>L, <1>P, <2>1, <2>2, <2>z
<1>2. ASSUME NEW z \in P, ~z.over PROVE Turn(z) \in P
  <2>1. z \in Loop /\ Good(z, q, k, cut)
    BY <1>L, <1>P
  <2>2. Turn(z) \in Loop
    BY <1>2, <2>1, TurnStays
  <2>3. Good(Turn(z), q, k, cut)
    <3>1. CASE z.rec.m_check_state = "CONTENT"
      BY <1>2, <2>1, <3>1, TurnInBody
    <3>2. CASE z.rec.m_check_state # "CONTENT"
      BY <1>2, <2>1, <3>2, TurnLines, TurnOnLine, TurnWaits
    <3> QED BY <3>1, <3>2
  <2> QED BY <1>L, <1>P, <2>2, <2>3
<1>3. PICK z \in P : z.over /\ process_read(r) = Goes(z.rec, z.ret)
  <2>1. P \in SUBSET Loop
    BY <1>L, <1>P
  <2> QED BY <1>0, <1>1, <1>2, <2>1, ReadKeeps
<1>4. z \in Loop /\ Good(z, q, k, cut)
  BY <1>L, <1>P, <1>3
<1>5. z.rec \in Indexed /\ z.ret \in Rets
  BY <1>4, LoopFields
<1>6. ReadAs(z.rec, z.ret, q, k, cut)
  BY <1>3, <1>4, <1>5 DEF Good, ReadAs
<1> QED BY <1>3, <1>6

-----------------------------------------------------------------------------
(* Requests and their bytes *)

\* Behind the first k units of q come a, which waits in the kernel, and b, not sent yet.
Ahead(k, a, b, q) ==
  /\ Len(q) = k + Len(a) + Len(b)
  /\ \A i \in 1..Len(a) : a[i] = q[k + i]
  /\ \A i \in 1..Len(b) : b[i] = q[k + Len(a) + i]

\* What is sent stays ahead.
SendsOn(k, c, d, q) == c \in Seq(Unit) /\ d \in Seq(Unit) /\ c # <<>> /\ Ahead(k, c, d, q)
LEMMA SentAhead ==
  ASSUME NEW k \in Nat, NEW a \in Seq(Unit), NEW b \in Seq(Unit), NEW q \in Seq(Unit),
         Ahead(k, a, b, q), NEW n \in 1..Len(b),
         NEW c, c = a \o SubSeq(b, 1, n), NEW d, d = SubSeq(b, n + 1, Len(b))
  PROVE  SendsOn(k, c, d, q)
<1>u. PICK U : U = Unit
  OBVIOUS
<1>l. PICK l : l = Len(a)
  OBVIOUS
<1>m. PICK m : m = Len(b)
  OBVIOUS
<1>h. PICK h : h = SubSeq(b, 1, n)
  OBVIOUS
<1>0. a \in Seq(U) /\ b \in Seq(U) /\ l \in Nat /\ m \in Nat /\ n \in Nat /\ 1 <= n /\ n <= m
  BY <1>u, <1>l, <1>m
<1>1. h \in Seq(U) /\ Len(h) = n /\ \A i \in 1..n : h[i] = b[i]
  BY <1>0, <1>h, <1>m
<1>2. d \in Seq(U) /\ Len(d) = m - n /\ \A i \in 1..(m - n) : d[i] = b[n + i]
  BY <1>0, <1>m
<1>3. c \in Seq(U) /\ Len(c) = l + n /\ \A i \in 1..(l + n) : c[i] = IF i <= l THEN a[i] ELSE h[i - l]
  BY <1>0, <1>1, <1>h, <1>l
<1>4. /\ Len(q) = k + l + m /\ \A i \in 1..l : a[i] = q[k + i]
      /\ \A i \in 1..m : b[i] = q[k + l + i]
  BY <1>l, <1>m DEF Ahead
<1>5. Len(q) = k + (l + n) + (m - n)
  BY <1>0, <1>4
<1>6. \A i \in 1..(l + n) : c[i] = q[k + i]
  <2>1. ASSUME NEW i \in 1..(l + n) PROVE c[i] = q[k + i]
    <3>1. CASE i <= l
      <4>1. i \in 1..l
        BY <1>0, <3>1
      <4> QED BY <1>3, <1>4, <3>1, <4>1
    <3>2. CASE i > l
      <4>e. PICK e : e = i - l
        OBVIOUS
      <4>1. e \in 1..n /\ e \in 1..m /\ ~(i <= l) /\ k + l + e = k + i
        BY <1>0, <3>2, <4>e
      <4>2. c[i] = b[e]
        BY <1>1, <1>3, <4>1, <4>e
      <4>3. b[e] = q[k + l + e]
        BY <1>4, <4>1
      <4> QED BY <4>1, <4>2, <4>3
    <3>3. i <= l \/ i > l
      <4>1. l \in Nat /\ n \in Nat
        BY <1>0
      <4> QED BY <4>1
    <3> QED BY <3>1, <3>2, <3>3
  <2> QED BY <2>1
<1>7. \A i \in 1..(m - n) : d[i] = q[k + (l + n) + i]
  <2>1. ASSUME NEW i \in 1..(m - n) PROVE d[i] = q[k + (l + n) + i]
    <3>1. n + i \in 1..m /\ k + l + (n + i) = k + (l + n) + i
      BY <1>0
    <3>2. d[i] = b[n + i]
      BY <1>2
    <3>3. b[n + i] = q[k + l + (n + i)]
      BY <1>4, <3>1
    <3> QED BY <3>1, <3>2, <3>3
  <2> QED BY <2>1
<1>8. c # <<>>
  <2>1. Len(c) # 0
    BY <1>0, <1>3
  <2> QED BY <2>1
<1> QED BY <1>2, <1>3, <1>5, <1>6, <1>7, <1>8, <1>u DEF Ahead, SendsOn

\* An object that was reset is at the beginning of any request.
LEMMA FreshReading ==
  ASSUME NEW r \in Indexed, NEW v, v = init_read(r)
  PROVE  /\ v \in Indexed /\ v.m_read_buf = <<>> /\ v = init_read(v)
         /\ \A q \in Seq(Unit), cut \in BOOLEAN : Reading(v, q, cut)
<1>B. PICK B : B = Seq(Unit)
  OBVIOUS
<1>1. r \in Parser
  BY Fields
<1>2. r \in [m_check_state : CheckState, m_linger : BOOLEAN, m_content_length : Nat,
             m_start_line : Nat, m_checked_idx : Nat, m_read_buf : B, cgi : 0..1, m_string : B]
  BY <1>1, <1>B DEF Parser
<1>3. v = [r EXCEPT !.m_check_state = "REQUESTLINE", !.m_linger = FALSE, !.m_content_length = 0,
                    !.m_start_line = 0, !.m_checked_idx = 0, !.m_read_buf = <<>>, !.cgi = 0]
  BY DEF init_read
<1>4. v = [m_check_state |-> "REQUESTLINE", m_linger |-> FALSE, m_content_length |-> 0,
           m_start_line |-> 0, m_checked_idx |-> 0, m_read_buf |-> <<>>, cgi |-> 0,
           m_string |-> r.m_string]
  BY <1>2, <1>3
<1>5. <<>> \in B
  BY <1>B
<1>6. v \in [m_check_state : CheckState, m_linger : BOOLEAN, m_content_length : Nat,
             m_start_line : Nat, m_checked_idx : Nat, m_read_buf : B, cgi : 0..1, m_string : B]
  BY <1>2, <1>4, <1>5 DEF CheckState
<1>7. v \in Parser
  BY <1>6, <1>B DEF Parser
<1>8. /\ v.m_check_state = "REQUESTLINE" /\ v.m_linger = FALSE /\ v.m_content_length = 0
      /\ v.m_start_line = 0 /\ v.m_checked_idx = 0 /\ v.m_read_buf = <<>> /\ v.cgi = 0
  BY <1>4
<1>9. v \in Indexed
  BY <1>7, <1>8 DEF Indexed
<1>10. v = init_read(v)
  BY <1>4 DEF init_read
<1>11. ASSUME NEW q \in Seq(Unit), NEW cut \in BOOLEAN PROVE Reading(v, q, cut)
  <2>1. Agrees(<<>>, 0, q)
    BY DEF Agrees
  <2>2. InLines(0, 0, q)
    BY DEF InLines, Free, Blank
  <2> QED BY <1>8, <1>9, <2>1, <2>2 DEF Reading
<1> QED BY <1>8, <1>9, <1>10, <1>11

\* recv appends the next units of the request.
Receives(v, d, b, q, cut) ==
  v \in Indexed /\ Reading(v, q, cut) /\ d \in Seq(Unit) /\ Ahead(Len(v.m_read_buf), d, b, q)
LEMMA ReceivedReading ==
  ASSUME NEW q \in Seq(Unit), NEW r, NEW cut, Reading(r, q, cut),
         NEW a \in Seq(Unit), NEW b \in Seq(Unit), Ahead(Len(r.m_read_buf), a, b, q),
         NEW n \in Nat, n <= Len(a),
         NEW v, v = [r EXCEPT !.m_read_buf = @ \o SubSeq(a, 1, n)],
         NEW d, d = SubSeq(a, n + 1, Len(a))
  PROVE  Receives(v, d, b, q, cut)
<1>B. PICK B : B = Seq(Unit)
  OBVIOUS
<1>u. PICK U : U = Unit
  OBVIOUS
<1>b. PICK t : t = r.m_read_buf
  OBVIOUS
<1>c. PICK c : c = r.m_checked_idx
  OBVIOUS
<1>s. PICK s : s = r.m_start_line
  OBVIOUS
<1>k. PICK k : k = Len(t)
  OBVIOUS
<1>l. PICK l : l = Len(a)
  OBVIOUS
<1>m. PICK m : m = Len(b)
  OBVIOUS
<1>w. PICK w : w = t \o SubSeq(a, 1, n)
  OBVIOUS
<1>0. r \in Indexed
  BY DEF Reading
<1>1. r \in Parser /\ t \in Seq(U) /\ c \in Nat /\ s \in Nat /\ s <= c /\ c <= k /\ k \in Nat
  BY <1>0, <1>b, <1>c, <1>k, <1>s, <1>u, Fields
<1>2. l \in Nat /\ m \in Nat /\ a \in Seq(U) /\ n <= l
  BY <1>l, <1>m, <1>u
<1>h. PICK h : h = SubSeq(a, 1, n)
  OBVIOUS
<1>3. h \in Seq(U) /\ Len(h) = n /\ \A i \in 1..n : h[i] = a[i]
  BY <1>2, <1>h, <1>l
<1>4. w \in Seq(U) /\ Len(w) = k + n
      /\ \A i \in 1..(k + n) : w[i] = IF i <= k THEN t[i] ELSE h[i - k]
  BY <1>1, <1>3, <1>h, <1>k, <1>w
<1>5. d \in Seq(U) /\ Len(d) = l - n /\ \A i \in 1..(l - n) : d[i] = a[n + i]
  BY <1>2, <1>l
<1>6. /\ Len(q) = k + l + m /\ \A i \in 1..l : a[i] = q[k + i]
      /\ \A i \in 1..m : b[i] = q[k + l + i]
  BY <1>b, <1>k, <1>l, <1>m DEF Ahead
<1>7. v = [r EXCEPT !.m_read_buf = w]
  BY <1>b, <1>w
<1>8. r \in [m_check_state : CheckState, m_linger : BOOLEAN, m_content_length : Nat,
             m_start_line : Nat, m_checked_idx : Nat, m_read_buf : B, cgi : 0..1, m_string : B]
  BY <1>1, <1>B DEF Parser
<1>9. w \in B
  BY <1>4, <1>B, <1>u
<1>10. /\ v \in [m_check_state : CheckState, m_linger : BOOLEAN, m_content_length : Nat,
                 m_start_line : Nat, m_checked_idx : Nat, m_read_buf : B, cgi : 0..1, m_string : B]
       /\ v.m_read_buf = w /\ v.m_checked_idx = r.m_checked_idx /\ v.m_start_line = r.m_start_line
       /\ v.m_check_state = r.m_check_state /\ v.m_linger = r.m_linger
       /\ v.m_content_length = r.m_content_length
  BY <1>7, <1>8, <1>9
<1>11. v \in Parser
  BY <1>10, <1>B DEF Parser
<1>12. v \in Indexed
  <2>1. s <= c /\ c <= Len(w)
    BY <1>1, <1>4
  <2> QED BY <1>10, <1>11, <1>c, <1>s, <2>1 DEF Indexed
<1>13. Agrees(w, c, q)
  <2>1. \A i \in 1..k : /\ q[i] \notin LineEnd \/ i > c => t[i] = q[i]
                        /\ t[i] = q[i] \/ t[i] = "NUL"
    BY <1>b, <1>c, <1>k DEF Reading, Agrees
  <2>2. ASSUME NEW i \in 1..(k + n)
        PROVE  /\ q[i] \notin LineEnd \/ i > c => w[i] = q[i]
               /\ w[i] = q[i] \/ w[i] = "NUL"
    <3>1. CASE i <= k
      <4>1. i \in 1..k
        BY <1>1, <3>1
      <4>2. w[i] = t[i]
        BY <1>4, <3>1
      <4> QED BY <2>1, <4>1, <4>2
    <3>2. CASE i > k
      <4>1. i - k \in 1..n /\ i - k \in 1..l /\ k + (i - k) = i /\ ~(i <= k)
        BY <1>1, <1>2, <3>2
      <4>2. w[i] = a[i - k]
        BY <1>3, <1>4, <4>1
      <4>3. a[i - k] = q[k + (i - k)]
        BY <1>6, <4>1
      <4> QED BY <4>1, <4>2, <4>3
    <3> QED BY <1>1, <3>1, <3>2
  <2>3. Len(w) <= Len(q)
    BY <1>1, <1>2, <1>4, <1>6
  <2> QED BY <1>4, <2>2, <2>3 DEF Agrees
<1>14. Reading(v, q, cut)
  <2>1. \A h2 : InBody(r, q, h2, cut) <=> InBody(v, q, h2, cut)
    BY <1>10 DEF InBody
  <2> QED BY <1>10, <1>12, <1>13, <1>c, <2>1 DEF Reading
<1>15. Ahead(k + n, d, b, q)
  <2>1. Len(q) = (k + n) + (l - n) + m
    BY <1>1, <1>2, <1>6
  <2>2. ASSUME NEW i \in 1..(l - n) PROVE d[i] = q[(k + n) + i]
    <3>1. n + i \in 1..l /\ k + (n + i) = (k + n) + i
      BY <1>1, <1>2
    <3>2. d[i] = a[n + i]
      BY <1>5
    <3>3. a[n + i] = q[k + (n + i)]
      BY <1>6, <3>1
    <3> QED BY <3>1, <3>2, <3>3
  <2>3. k + l = (k + n) + (l - n)
    BY <1>1, <1>2
  <2>4. \A i \in 1..m : b[i] = q[((k + n) + (l - n)) + i]
    BY <1>6, <2>3
  <2> QED BY <1>5, <1>m, <2>1, <2>2, <2>4 DEF Ahead
<1>16. Len(v.m_read_buf) = k + n
  BY <1>4, <1>10
<1> QED BY <1>5, <1>12, <1>14, <1>15, <1>16, <1>u DEF Receives

-----------------------------------------------------------------------------
(* What was read, along the steps of the connection *)

\* What is made of a request, if it is well formed.
Understood ==
  result # "none" /\ WellFormed(request) =>
    /\ todo = <<>>
    /\ wr.bytes_to_send > 0 =>
         /\ rd.m_linger = Has(request, "keep-alive")
         /\ BodyOf(request) # <<>> => rd.m_string = BodyOf(request)

\* Whoever waits for input has a beginning of the request, of which the rest is still to
\* come; once it is answered nothing is left of it, or the connection will be closed.
ReadInv ==
  /\ rd \in Indexed /\ inbox \in Seq(Unit) /\ todo \in Seq(Unit) /\ bodyCut \in BOOLEAN
  /\ ~Closed => request \in Requests
  /\ Waits /\ result = "none" =>
       Reading(rd, request, bodyCut) /\ Ahead(Len(rd.m_read_buf), inbox, todo, request)
  /\ Waits /\ result # "none" =>
       pc = "epoll" /\ inbox = <<>> /\ todo = <<>> /\ rd = init_read(rd)
  /\ Writes => result # "none" /\ (rd.m_linger => inbox = <<>> /\ todo = <<>>)
  /\ Understood
  /\ pc = "epoll" /\ epoll.ev = "in" /\ edge /\ ~gone => inbox # <<>>
  /\ pc = "epoll" /\ epoll.ev = "in" /\ inbox = <<>> /\ todo = <<>> /\ result = "none" =>
       bodyCut \/ ~WellFormed(request)

LEMMA RequestOK ==
  ASSUME WholeRequests, NEW q \in Requests
  PROVE  q \in Seq(Unit) /\ q # <<>> /\ IsRequest(q)
  BY ConnAssumption DEF WholeRequests

LEMMA ReadInit == Init => ReadInv
<1> SUFFICES ASSUME Init PROVE ReadInv
  OBVIOUS
<1>1. /\ pc = "closed" /\ inbox = <<>> /\ todo = <<>> /\ bodyCut = FALSE /\ result = "none"
  BY DEF Init
<1>2. rd \in Indexed
  <2>B. PICK B : B = Seq(Unit)
    OBVIOUS
  <2>1. <<>> \in B
    BY <2>B
  <2>2. rd = [m_check_state |-> "REQUESTLINE", m_linger |-> FALSE, m_content_length |-> 0,
              m_start_line |-> 0, m_checked_idx |-> 0, m_read_buf |-> <<>>, cgi |-> 0,
              m_string |-> <<>>]
    BY DEF Init
  <2>3. rd \in [m_check_state : CheckState, m_linger : BOOLEAN, m_content_length : Nat,
                m_start_line : Nat, m_checked_idx : Nat, m_read_buf : B, cgi : 0..1, m_string : B]
    BY <2>1, <2>2 DEF CheckState
  <2>4. rd \in Parser
    BY <2>3, <2>B DEF Parser
  <2>5. rd.m_start_line = 0 /\ rd.m_checked_idx = 0 /\ rd.m_read_buf = <<>>
    BY <2>2
  <2> QED BY <2>4, <2>5 DEF Indexed
<1>3. inbox \in Seq(Unit) /\ todo \in Seq(Unit)
  BY <1>1
<1> QED BY <1>1, <1>2, <1>3 DEF ReadInv, Understood, Waits, Writes, Closed

\* Nothing changes but who has the object.
LEMMA MovedRead ==
  ASSUME ReadInv, ~Closed, UNCHANGED <<rd, wr, request, result, todo, inbox, bodyCut>>,
         Waits' => Waits /\ result = "none", Writes' => Writes, pc' = "epoll" => epoll'.ev = "out"
  PROVE  ReadInv'
  BY DEF ReadInv, Understood, Closed

LEMMA ClosedRead ==
  ASSUME ReadInv, NEW why, Close(why), UNCHANGED rd,
         wr' = wr \/ (wr \in Writer /\ wr' = unmap(wr))
  PROVE  ReadInv'
<1>1. /\ pc' = "closed" /\ inbox' = <<>> /\ UNCHANGED <<todo, request, result, bodyCut>>
  BY DEF Close, client
<1>2. wr'.bytes_to_send = wr.bytes_to_send
  BY UnmapOK
<1>3. Understood'
  BY <1>1, <1>2 DEF ReadInv, Understood
<1>4. ~Waits' /\ ~Writes' /\ Closed'
  BY <1>1 DEF Waits, Writes, Closed
<1>5. inbox' \in Seq(Unit)
  BY <1>1
<1> QED BY <1>1, <1>3, <1>4, <1>5 DEF ReadInv

\* As long as it waits, nobody answered it.
LEMMA ReportRead == ASSUME ReadInv, Report PROVE ReadInv'
<1>1. /\ pc = "epoll" /\ Ready /\ ~gone
      /\ pc' = (IF epoll.ev = "in" THEN "read_once" ELSE "write")
      /\ UNCHANGED <<rd, wr, request, result, todo, inbox, bodyCut>>
  BY DEF Report, conn, client, history
<1>2. CASE epoll.ev = "in"
  <2>1. inbox # <<>>
    BY <1>1, <1>2 DEF Ready, Readable, ReadInv
  <2>2. Waits
    BY <1>1, <1>2 DEF Waits
  <2>3. result = "none"
    BY <2>1, <2>2 DEF ReadInv
  <2> QED BY <1>1, <1>2, <2>2, <2>3, MovedRead DEF Writes, Closed
<1>3. CASE epoll.ev = "out"
  <2>1. Writes /\ pc' = "write"
    BY <1>1, <1>3 DEF Writes
  <2> QED BY <1>1, <2>1, MovedRead DEF Waits, Closed
<1> QED BY <1>1, <1>2, <1>3 DEF Ready

LEMMA HandedRead == ASSUME ReadInv, RecvAgain \/ WritevAgain PROVE ReadInv'
<1>1. UNCHANGED <<rd, wr, request, result, todo, inbox, bodyCut>>
  BY DEF RecvAgain, WritevAgain, kernel, conn, client, history
<1>2. CASE RecvAgain
  <2>1. pc = "read_once" /\ pc' = "process"
    BY <1>2 DEF RecvAgain
  <2>2. result = "none" /\ Waits
    BY <2>1 DEF ReadInv, Waits
  <2> QED BY <1>1, <2>1, <2>2, MovedRead DEF Writes, Closed
<1>3. CASE WritevAgain
  <2>1. pc = "write" /\ pc' = "epoll" /\ epoll'.ev = "out"
    BY <1>3 DEF WritevAgain, modfd
  <2> QED BY <1>1, <2>1, MovedRead DEF Waits, Writes, Closed
<1> QED BY <1>2, <1>3

LEMMA StillRead ==
  ASSUME ReadInv, UNCHANGED <<rd, wr, pc, epoll, request, result, todo, inbox, bodyCut, edge>>,
         gone' = gone \/ gone'
  PROVE  ReadInv'
  BY DEF ReadInv, Understood, Waits, Writes, Closed

\* The hang-up counts as an edge, but then gone is set.
LEMMA HangupRead == ASSUME ReadInv, Hangup PROVE ReadInv'
<1>1. /\ UNCHANGED <<rd, wr, pc, epoll, request, result, todo, inbox, bodyCut>>
      /\ gone' = TRUE
  BY DEF Hangup, conn, history
<1> QED BY <1>1 DEF ReadInv, Understood, Waits, Writes, Closed

LEMMA SendRead == ASSUME WholeRequests, ReadInv, MapInv, Send PROVE ReadInv'
<1>1. /\ UNCHANGED <<rd, wr, pc, epoll, request, result, bodyCut>>
      /\ todo # <<>> /\ ~Closed
  BY DEF Send, conn, history
<1>2. PICK n \in 1..Len(todo) : /\ inbox' = inbox \o SubSeq(todo, 1, n)
                                /\ todo' = SubSeq(todo, n + 1, Len(todo))
  BY DEF Send
<1>3. /\ rd \in Indexed /\ inbox \in Seq(Unit) /\ todo \in Seq(Unit) /\ bodyCut \in BOOLEAN
      /\ request \in Requests
  BY <1>1 DEF ReadInv
<1>q. PICK q : q = request
  OBVIOUS
<1>k. PICK k : k = Len(rd.m_read_buf)
  OBVIOUS
<1>4. q \in Seq(Unit)
  BY <1>3, <1>q, RequestOK
<1>5. k \in Nat
  BY <1>3, <1>k, Fields
<1>6. Waits => result = "none"
  BY <1>1 DEF ReadInv
<1>7. Writes => ~rd.m_linger
  BY <1>1 DEF ReadInv
<1>8. ~(result # "none" /\ WellFormed(request))
  BY <1>1 DEF ReadInv, Understood
<1>9. CASE Waits
  <2>1. Reading(rd, q, bodyCut) /\ Ahead(k, inbox, todo, q)
    BY <1>6, <1>9, <1>q, <1>k DEF ReadInv
  <2>a. PICK a : a = inbox
    OBVIOUS
  <2>b. PICK b : b = todo
    OBVIOUS
  <2>c. PICK c : c = inbox'
    OBVIOUS
  <2>d. PICK d : d = todo'
    OBVIOUS
  <2>2. c \in Seq(Unit) /\ d \in Seq(Unit) /\ c # <<>> /\ Ahead(k, c, d, q)
    <3>1. /\ a \in Seq(Unit) /\ b \in Seq(Unit) /\ Ahead(k, a, b, q) /\ n \in 1..Len(b)
          /\ c = a \o SubSeq(b, 1, n) /\ d = SubSeq(b, n + 1, Len(b))
      BY <1>2, <1>3, <2>1, <2>a, <2>b, <2>c, <2>d, Zenon
    <3>2. SendsOn(k, c, d, q)
      BY <1>4, <1>5, <3>1, SentAhead, Zenon
    <3> QED BY <3>2 DEF SendsOn
  <2>3. ~Writes' /\ Closed' = FALSE
    BY <1>1, <1>9 DEF Writes, Waits, Closed
  <2> QED BY <1>1, <1>3, <1>6, <1>8, <1>9, <1>k, <1>q, <2>1, <2>2, <2>3, <2>c, <2>d
          DEF ReadInv, Understood, Waits
<1>10. CASE Writes
  <2>1. inbox' \in Seq(Unit) /\ todo' \in Seq(Unit)
    <3>a. PICK a : a = inbox
      OBVIOUS
    <3>b. PICK b : b = todo
      OBVIOUS
    <3>u. PICK U : U = Unit
      OBVIOUS
    <3>1. a \in Seq(U) /\ b \in Seq(U) /\ Len(b) \in Nat /\ n \in 1..Len(b)
      BY <1>3, <3>a, <3>b, <3>u
    <3>2. SubSeq(b, 1, n) \in Seq(U)
      BY <3>1
    <3>3. SubSeq(b, n + 1, Len(b)) \in Seq(U)
      BY <3>1
    <3>4. a \o SubSeq(b, 1, n) \in Seq(U)
      BY <3>1, <3>2
    <3> QED BY <1>2, <3>3, <3>4, <3>a, <3>b, <3>u
  <2>2. ~Waits' /\ Closed' = FALSE /\ ~(pc' = "epoll" /\ epoll'.ev = "in") /\ result # "none"
    BY <1>1, <1>10 DEF ReadInv, Writes, Waits, Closed
  <2> QED BY <1>1, <1>3, <1>7, <1>8, <1>10, <2>1, <2>2 DEF ReadInv, Understood, Writes
<1> QED BY <1>1, <1>9, <1>10 DEF MapInv

\* The whole request is ahead of an object that was reset.
AllOf(n, a, b, q) == a \in Seq(Unit) /\ b \in Seq(Unit) /\ Ahead(0, a, b, q) /\ Len(a) = n
LEMMA AllAhead ==
  ASSUME NEW q \in Seq(Unit), NEW n \in 0..Len(q),
         NEW a, a = SubSeq(q, 1, n), NEW b, b = SubSeq(q, n + 1, Len(q))
  PROVE  AllOf(n, a, b, q)
<1>u. PICK U : U = Unit
  OBVIOUS
<1>l. PICK l : l = Len(q)
  OBVIOUS
<1>0. q \in Seq(U) /\ l \in Nat /\ n \in Nat /\ n <= l
  BY <1>u, <1>l
<1>1. a \in Seq(U) /\ Len(a) = n /\ \A i \in 1..n : a[i] = q[i]
  BY <1>0, <1>l
<1>2. b \in Seq(U) /\ Len(b) = l - n /\ \A i \in 1..(l - n) : b[i] = q[n + i]
  BY <1>0, <1>l
<1>3. l = 0 + n + (l - n) /\ (\A i \in 1..n : 0 + i = i) /\ 0 + n = n
  BY <1>0
<1>4. \A i \in 1..n : a[i] = q[0 + i]
  BY <1>1, <1>3
<1>5. \A i \in 1..(l - n) : b[i] = q[(0 + n) + i]
  BY <1>2, <1>3
<1>6. Len(q) = 0 + Len(a) + Len(b)
  BY <1>1, <1>2, <1>3, <1>l
<1>7. Ahead(0, a, b, q)
  BY <1>1, <1>2, <1>4, <1>5, <1>6 DEF Ahead
<1> QED BY <1>1, <1>2, <1>7, <1>u DEF AllOf

LEMMA AgainRead ==
  ASSUME WholeRequests, ReadInv, MapInv, OrderInv, Again
  PROVE  ReadInv'
<1>1. /\ UNCHANGED <<rd, wr, pc, epoll, edge, inbox, gone>>
      /\ ~Closed /\ todo = <<>> /\ Answered /\ result # "none"
      /\ result' = "none" /\ bodyCut' = FALSE
  BY DEF Again, Answered, conn
<1>2. PICK q \in Requests : request' = q /\ todo' = q
  BY DEF Again
<1>3. q \in Seq(Unit) /\ q # <<>>
  BY RequestOK
<1>4. ~(wr.bytes_to_send > 0)
  BY <1>1, AnsweredIsSent DEF MapInv
<1>5. Waits /\ ~Writes
  BY <1>1, <1>4 DEF MapInv, Loaded
<1>6. pc = "epoll" /\ inbox = <<>> /\ rd = init_read(rd) /\ rd \in Indexed
  BY <1>1, <1>5 DEF ReadInv
<1>7. rd.m_read_buf = <<>> /\ Reading(rd, q, FALSE)
  BY <1>3, <1>6, FreshReading
<1>8. Ahead(0, <<>>, q, q)
  <2>a. PICK a : a = SubSeq(q, 1, 0)
    OBVIOUS
  <2>b. PICK b : b = SubSeq(q, 0 + 1, Len(q))
    OBVIOUS
  <2>1. 0 \in 0..Len(q)
    BY <1>3
  <2>c. AllOf(0, a, b, q)
    BY <1>3, <2>1, <2>a, <2>b, AllAhead, Zenon
  <2>2. a \in Seq(Unit) /\ Ahead(0, a, b, q) /\ Len(a) = 0
    BY <2>c DEF AllOf
  <2>3. a = <<>>
    BY <2>2
  <2>4. b = q
    BY <1>3, <2>b
  <2> QED BY <2>2, <2>3, <2>4
<1>9. Len(rd.m_read_buf) = 0
  BY <1>7
<1>10. ~Writes' /\ Closed' = FALSE
  BY <1>1, <1>5 DEF Writes, Closed
<1>11. ~(edge /\ ~gone /\ epoll.ev = "in")
  BY <1>6 DEF ReadInv
<1> QED BY <1>1, <1>2, <1>3, <1>6, <1>7, <1>8, <1>9, <1>10, <1>11 DEF ReadInv, Understood

LEMMA AcceptRead == ASSUME WholeRequests, ReadInv, Accept PROVE ReadInv'
<1>1. /\ rd' = init_read(rd) /\ pc' = "epoll" /\ epoll'.ev = "in"
      /\ result' = "none" /\ bodyCut' = FALSE /\ rd \in Indexed
  BY DEF Accept, init, ReadInv
<1>2. PICK q \in Requests, n \in {0, 1} :
        /\ request' = q /\ todo' = SubSeq(q, n + 1, Len(q)) /\ inbox' = SubSeq(q, 1, n)
        /\ edge' = (n > 0)
  BY DEF Accept
<1>3. q \in Seq(Unit) /\ q # <<>>
  BY RequestOK
<1>4. rd' \in Indexed /\ rd'.m_read_buf = <<>> /\ Reading(rd', q, FALSE)
  BY <1>1, <1>3, FreshReading
<1>a. PICK a : a = inbox'
  OBVIOUS
<1>b. PICK b : b = todo'
  OBVIOUS
<1>5. n \in 0..Len(q) /\ Len(q) # 0 /\ Len(q) \in Nat
  BY <1>3
<1>6. a \in Seq(Unit) /\ b \in Seq(Unit) /\ Ahead(0, a, b, q) /\ Len(a) = n
  <2>1. a = SubSeq(q, 1, n) /\ b = SubSeq(q, n + 1, Len(q))
    BY <1>2, <1>a, <1>b, Zenon
  <2>2. AllOf(n, a, b, q)
    BY <1>3, <1>5, <2>1, AllAhead, Zenon
  <2> QED BY <2>2 DEF AllOf
<1>7. Len(rd'.m_read_buf) = 0
  BY <1>4
<1>8. edge' => a # <<>>
  <2>1. n > 0 => Len(a) # 0
    BY <1>6
  <2>2. Len(a) # 0 => a # <<>>
    OBVIOUS
  <2>3. edge' => n > 0
    BY <1>2
  <2> QED BY <2>1, <2>2, <2>3
<1>9. ~(a = <<>> /\ b = <<>>)
  <2>1. Len(q) = 0 + Len(a) + Len(b)
    BY <1>6 DEF Ahead
  <2>2. SUFFICES ASSUME a = <<>>, b = <<>> PROVE FALSE
    OBVIOUS
  <2>3. Len(a) = 0 /\ Len(b) = 0
    BY <2>2
  <2> QED BY <1>5, <2>1, <2>3
<1>10. Waits' /\ ~Writes' /\ Closed' = FALSE
  BY <1>1 DEF Waits, Writes, Closed
<1> QED BY <1>1, <1>2, <1>4, <1>6, <1>7, <1>8, <1>9, <1>10, <1>a, <1>b DEF ReadInv, Understood

LEMMA RecvRead == ASSUME WholeRequests, ReadInv, Recv PROVE ReadInv'
<1>1. /\ pc = "read_once" /\ pc' \in {"read_once", "process"}
      /\ UNCHANGED <<wr, request, result, todo, bodyCut>>
  BY DEF Recv, client, history
<1>2. result = "none" /\ Waits /\ request \in Requests /\ todo \in Seq(Unit) /\ inbox \in Seq(Unit)
      /\ bodyCut \in BOOLEAN /\ rd \in Indexed
  BY <1>1 DEF ReadInv, Waits, Closed
<1>q. PICK q : q = request
  OBVIOUS
<1>a. PICK a : a = inbox
  OBVIOUS
<1>b. PICK b : b = todo
  OBVIOUS
<1>3. q \in Seq(Unit) /\ Reading(rd, q, bodyCut) /\ Ahead(Len(rd.m_read_buf), a, b, q)
  BY <1>2, <1>a, <1>b, <1>q, RequestOK DEF ReadInv
<1>n. PICK n : n = Min({Space, Len(inbox)})
  OBVIOUS
<1>4. /\ rd' = [rd EXCEPT !.m_read_buf = @ \o SubSeq(a, 1, n)]
      /\ inbox' = SubSeq(a, n + 1, Len(a))
  BY <1>a, <1>n DEF Recv
<1>5. n \in Nat /\ n <= Len(a)
  <2>s. PICK s : s = Space
    OBVIOUS
  <2>l. PICK l : l = Len(a)
    OBVIOUS
  <2>1. Len(rd.m_read_buf) \in Nat
    BY <1>2, Fields
  <2>2. s \in Int /\ s > 0
    BY <2>1, <2>s, ConnAssumption DEF Recv, Space
  <2>3. l \in Nat
    BY <1>2, <1>a, <2>l
  <2>4. n = Min({s, l})
    BY <1>a, <1>n, <2>l, <2>s
  <2>5. n \in {s, l} /\ \A y \in {s, l} : n <= y
    <3>1. \E x \in {s, l} : \A y \in {s, l} : x <= y
      BY <2>2, <2>3
    <3> QED BY <2>4, <3>1 DEF Min
  <2> QED BY <2>2, <2>3, <2>5, <2>l
<1>v. PICK v : v = rd'
  OBVIOUS
<1>d. PICK d : d = inbox'
  OBVIOUS
<1>6. /\ v \in Indexed /\ Reading(v, q, bodyCut) /\ d \in Seq(Unit)
      /\ Ahead(Len(v.m_read_buf), d, b, q)
  <2>1. a \in Seq(Unit) /\ b \in Seq(Unit)
    BY <1>2, <1>a, <1>b
  <2>2. v = [rd EXCEPT !.m_read_buf = @ \o SubSeq(a, 1, n)] /\ d = SubSeq(a, n + 1, Len(a))
    BY <1>4, <1>d, <1>v, Zenon
  <2>3. Receives(v, d, b, q, bodyCut)
    BY <1>3, <1>5, <2>1, <2>2, ReceivedReading, Zenon
  <2> QED BY <2>3 DEF Receives
<1>7. Waits' /\ ~Writes' /\ Closed' = FALSE /\ pc' # "epoll"
  BY <1>1 DEF Waits, Writes, Closed
<1> QED BY <1>1, <1>2, <1>6, <1>7, <1>b, <1>d, <1>q, <1>v DEF ReadInv, Understood

\* What was seen of a body stays seen.
LEMMA CutStays ==
  ASSUME NEW r, NEW q, NEW cut, NEW more, cut => more, Reading(r, q, cut)
  PROVE  Reading(r, q, more)
<1>1. \A h : InBody(r, q, h, cut) => InBody(r, q, h, more)
  BY DEF InBody
<1> QED BY <1>1 DEF Reading

\* Nothing is ahead when all was received, and otherwise something is.
LEMMA AllReceived ==
  ASSUME NEW k \in Nat, NEW a \in Seq(Unit), NEW b \in Seq(Unit), NEW q, Ahead(k, a, b, q)
  PROVE  a = <<>> /\ b = <<>> <=> k = Len(q)
<1>1. Len(q) = k + Len(a) + Len(b) /\ Len(a) \in Nat /\ Len(b) \in Nat
  BY DEF Ahead
<1>2. (Len(a) = 0) = (a = <<>>) /\ (Len(b) = 0) = (b = <<>>)
  OBVIOUS
<1>3. (Len(a) = 0 /\ Len(b) = 0) = (k = Len(q))
  BY <1>1
<1> QED BY <1>2, <1>3

\* The answer to a request that was understood, or to something else.
LEMMA AnswersRead ==
  ASSUME ReadInv, pc = "process", NEW ret \in Results, Answers(ret),
         UNCHANGED <<todo, request, gone>>, bodyCut' \in BOOLEAN, rd' \in Indexed,
         rd'.m_linger \/ WellFormed(request) => inbox = <<>> /\ todo = <<>>,
         WellFormed(request) =>
           /\ rd'.m_linger = Has(request, "keep-alive")
           /\ BodyOf(request) # <<>> => rd'.m_string = BodyOf(request)
  PROVE  ReadInv'
<1>1. result' # "none"
  BY DEF Answers, Results, ErrorPage
<1>2. Understood'
  BY DEF Understood
<1>3. request' \in Requests /\ todo' \in Seq(Unit) /\ inbox \in Seq(Unit)
  BY DEF ReadInv, Closed
<1>4. CASE modfd("out") /\ pc' = "epoll" /\ UNCHANGED inbox
  <2>1. Writes' /\ ~Waits' /\ epoll'.ev # "in"
    BY <1>4 DEF Writes, Waits, modfd
  <2> QED BY <1>1, <1>2, <1>3, <1>4, <2>1 DEF ReadInv
<1>5. CASE pc' = "closed" /\ inbox' = <<>>
  <2>1. ~Writes' /\ ~Waits' /\ Closed'
    BY <1>5 DEF Writes, Waits, Closed
  <2>2. inbox' \in Seq(Unit)
    BY <1>5
  <2> QED BY <1>2, <1>3, <1>5, <2>1, <2>2 DEF ReadInv
<1> QED BY <1>4, <1>5 DEF Answers

LEMMA ProcessRead == ASSUME WholeRequests, ReadInv, process PROVE ReadInv'
<1>q. PICK q : q = request
  OBVIOUS
<1>k. PICK k : k = Len(rd.m_read_buf)
  OBVIOUS
<1>c. PICK cut : cut = bodyCut'
  OBVIOUS
<1>a. PICK a : a = inbox
  OBVIOUS
<1>b. PICK b : b = todo
  OBVIOUS
<1>1. pc = "process" /\ UNCHANGED <<todo, request, gone>>
  BY DEF process, client
<1>2. /\ result = "none" /\ q \in Requests /\ bodyCut \in BOOLEAN /\ rd \in Indexed
      /\ a \in Seq(Unit) /\ b \in Seq(Unit) /\ Reading(rd, q, bodyCut) /\ Ahead(k, a, b, q)
  BY <1>1, <1>q, <1>k, <1>a, <1>b DEF ReadInv, Waits, Closed
<1>3. cut = (bodyCut \/ PartOfBody(q, k))
  BY <1>c, <1>k, <1>q DEF process, PartOfBody
<1>4. q \in Seq(Unit) /\ IsRequest(q)
  BY <1>2, RequestOK
<1>5. k \in Nat
  BY <1>2, <1>k, Fields
<1>6. cut \in BOOLEAN /\ Reading(rd, q, cut) /\ (PartOfBody(q, k) => cut)
  <2>1. cut \in BOOLEAN /\ (bodyCut => cut) /\ (PartOfBody(q, k) => cut)
    BY <1>2, <1>3
  <2> QED BY <1>2, <2>1, CutStays
<1>7. PICK v, ret : process_read(rd) = Goes(v, ret) /\ ReadAs(v, ret, q, k, cut)
  BY <1>4, <1>6, <1>k, ReadOK
<1>8. Goes(v, ret).rec = v /\ Goes(v, ret).ret = ret
  BY DEF Goes
<1>9. /\ rd' = v
      /\ \/ ret = "NO_REQUEST" /\ NeedsMore /\ UNCHANGED <<wr, inbox, result>>
         \/ ret = "BAD_REQUEST" /\ Answers("BAD_REQUEST")
         \/ ret = "GET_REQUEST" /\ \E made \in FileResults : Answers(made)
  <2>1. \E read \in {Goes(v, ret)} :
          /\ rd' = read.rec
          /\ \/ read.ret = "NO_REQUEST" /\ NeedsMore /\ UNCHANGED <<wr, inbox, result>>
             \/ read.ret = "BAD_REQUEST" /\ Answers("BAD_REQUEST")
             \/ read.ret = "GET_REQUEST" /\ \E made \in FileResults : Answers(made)
    BY <1>7 DEF process
  <2> QED BY <1>8, <2>1
<1>10. v \in Indexed /\ Len(v.m_read_buf) = k
  BY <1>7 DEF ReadAs
<1>r. a = <<>> /\ b = <<>> <=> k = Len(q)
  <2>1. Ahead(k, a, b, q) /\ a \in Seq(Unit) /\ b \in Seq(Unit) /\ k \in Nat
    BY <1>2, <1>5, Zenon
  <2> QED BY <2>1, AllReceived, Zenon
<1>11. CASE ret = "NO_REQUEST" /\ NeedsMore /\ UNCHANGED <<wr, inbox, result>>
  <2>1. Reading(v, q, cut) /\ (WellFormed(q) /\ k = Len(q) => cut)
    BY <1>7, <1>11 DEF ReadAs
  <2>2. pc' = "epoll" /\ epoll'.ev = "in" /\ edge' = (inbox # <<>> \/ gone)
    BY <1>11 DEF NeedsMore, modfd
  <2>3. a = <<>> /\ b = <<>> => cut \/ ~WellFormed(q)
    BY <1>r, <2>1, Zenon
  <2>4. Waits' /\ ~Writes' /\ Closed' = FALSE
    BY <2>2 DEF Waits, Writes, Closed
  <2> QED BY <1>1, <1>2, <1>6, <1>9, <1>10, <1>11, <1>a, <1>b, <1>c, <1>q, <2>1, <2>2, <2>3, <2>4
          DEF ReadInv, Understood
<1>12. ASSUME ret # "NO_REQUEST"
       PROVE  /\ rd'.m_linger \/ WellFormed(request) => inbox = <<>> /\ todo = <<>>
              /\ WellFormed(request) =>
                   /\ rd'.m_linger = Has(request, "keep-alive")
                   /\ BodyOf(request) # <<>> => rd'.m_string = BodyOf(request)
  <2>1. Taken(v, ret, q, k) /\ ret \in Rets
    BY <1>7, <1>12 DEF ReadAs
  <2>2. CASE ret = "GET_REQUEST"
    <3>1. a = <<>> /\ b = <<>>
      <4>1. k = Len(q)
        BY <2>1, <2>2 DEF Taken
      <4> QED BY <1>r, <4>1, Zenon
    <3> QED BY <1>9, <1>a, <1>b, <1>q, <2>1, <2>2, <3>1 DEF Taken
  <2>3. CASE ret = "BAD_REQUEST"
    BY <1>9, <1>q, <2>1, <2>3 DEF Taken
  <2> QED BY <1>12, <2>1, <2>2, <2>3 DEF Rets
<1>13. CASE ret # "NO_REQUEST" /\ \E made \in Results : Answers(made)
  BY <1>1, <1>6, <1>9, <1>10, <1>12, <1>13, <1>c, AnswersRead
<1>14. /\ ret = "BAD_REQUEST" /\ Answers("BAD_REQUEST") => \E made \in Results : Answers(made)
       /\ (\E made \in FileResults : Answers(made)) => \E made \in Results : Answers(made)
  BY ConnAssumption DEF Results, ErrorPage
<1> QED BY <1>9, <1>11, <1>13, <1>14

\* The last writev of a response resets the object, or closes the connection.
LEMMA WritevRead == ASSUME ReadInv, MapInv, OrderInv, Writev PROVE ReadInv'
<1>0. /\ pc = "write" /\ ~gone /\ wr \in Writer /\ Loaded(wr)
      /\ UNCHANGED <<todo, request, gone, result, bodyCut>>
  BY DEF MapInv, Writes, Writev
<1>1. /\ rd \in Indexed /\ inbox \in Seq(Unit) /\ todo \in Seq(Unit) /\ bodyCut \in BOOLEAN
      /\ request \in Requests /\ result # "none"
      /\ rd.m_linger => inbox = <<>> /\ todo = <<>>
      /\ Understood
  BY <1>0 DEF ReadInv, Writes, Closed
<1>2. wr.bytes_to_send > 0
  BY <1>0 DEF Loaded
<1>3. PICK r :
        \/ r.bytes_to_send > 0 /\ wr' = r /\ UNCHANGED <<rd, pc, epoll, edge, inbox>>
        \/ /\ r.bytes_to_send <= 0 /\ rd.m_linger /\ rd' = init_read(rd)
           /\ modfd("in") /\ pc' = "epoll" /\ UNCHANGED inbox
        \/ r.bytes_to_send <= 0 /\ UNCHANGED rd /\ pc' = "closed" /\ inbox' = <<>>
  BY DEF Writev, init
<1>4. CASE r.bytes_to_send > 0 /\ wr' = r /\ UNCHANGED <<rd, pc, epoll, edge, inbox>>
  <2>1. Understood'
    BY <1>0, <1>1, <1>2, <1>4 DEF Understood
  <2>2. Writes' /\ ~Waits' /\ pc' # "epoll"
    BY <1>0, <1>4 DEF Writes, Waits
  <2> QED BY <1>0, <1>1, <1>4, <2>1, <2>2 DEF ReadInv
<1>5. CASE /\ rd.m_linger /\ rd' = init_read(rd) /\ modfd("in") /\ pc' = "epoll"
           /\ UNCHANGED inbox /\ wr'.bytes_to_send = 0
  <2>1. rd' \in Indexed /\ rd' = init_read(rd')
    BY <1>1, <1>5, FreshReading
  <2>2. inbox = <<>> /\ todo = <<>> /\ epoll'.ev = "in" /\ edge' = FALSE
    BY <1>0, <1>1, <1>5 DEF modfd
  <2>3. ~Writes' /\ Waits'
    BY <1>5, <2>2 DEF Writes, Waits
  <2>4. Understood'
    BY <1>0, <1>5, <2>2 DEF Understood
  <2> QED BY <1>0, <1>1, <1>5, <2>1, <2>2, <2>3, <2>4 DEF ReadInv
<1>6. CASE UNCHANGED rd /\ pc' = "closed" /\ inbox' = <<>> /\ ~(wr'.bytes_to_send > 0)
  <2>1. Understood'
    BY <1>0, <1>1, <1>6 DEF Understood
  <2>2. ~Writes' /\ ~Waits' /\ Closed'
    BY <1>6 DEF Writes, Waits, Closed
  <2>3. inbox' \in Seq(Unit)
    BY <1>6
  <2> QED BY <1>0, <1>1, <1>6, <2>1, <2>2, <2>3 DEF ReadInv
<1>7. pc' = "epoll" /\ modfd("in") => wr'.bytes_to_send = 0
  <2>1. SUFFICES ASSUME pc' = "epoll", modfd("in") PROVE wr'.bytes_to_send = 0
    OBVIOUS
  <2>2. Waits'
    BY <2>1 DEF Waits, modfd
  <2>3. Idle(wr)'
    BY <2>2, WritevMapped DEF MapInv
  <2> QED BY <2>3 DEF Idle
<1>8. pc' = "closed" => ~(wr'.bytes_to_send > 0)
  <2>1. SUFFICES ASSUME pc' = "closed" PROVE ~(wr'.bytes_to_send > 0)
    OBVIOUS
  <2>2. PICK n, w : Takes(n, w) /\ w.bytes_to_send <= 0 /\ wr' = unmap(w)
    BY <1>0, <2>1, WritevTakes
  <2>3. w \in Writer
    BY <1>0, <2>2, AdvancedOK DEF Takes, Loaded
  <2>4. wr'.bytes_to_send = w.bytes_to_send /\ w.bytes_to_send \in Int
    BY <2>2, <2>3, UnmapOK DEF Writer
  <2> QED BY <2>2, <2>4
<1> QED BY <1>3, <1>4, <1>5, <1>6, <1>7, <1>8

LEMMA ReadNext ==
  ASSUME WholeRequests, ReadInv, MapInv, OrderInv, [Next]_vars
  PROVE  ReadInv'
<1>1. CASE Send
  BY <1>1, SendRead
<1>2. CASE Drain
  BY <1>2, StillRead DEF Drain, conn, client, history
<1>3. CASE Hangup
  BY <1>3, HangupRead
<1>4. CASE Again
  BY <1>4, AgainRead
<1>5. CASE Accept
  BY <1>5, AcceptRead
<1>6. CASE Hup
  BY <1>6, ClosedRead DEF Hup, conn
<1>7. CASE Timeout
  BY <1>7, ClosedRead DEF Timeout, conn
<1>8. CASE RecvFails
  BY <1>8, ClosedRead DEF RecvFails, conn
<1>9. CASE WritevFails
  BY <1>9, ClosedRead DEF WritevFails, MapInv
<1>10. CASE Report
  BY <1>10, ReportRead
<1>11. CASE Recv
  BY <1>11, RecvRead
<1>12. CASE RecvAgain \/ WritevAgain
  BY <1>12, HandedRead
<1>13. CASE process
  BY <1>13, ProcessRead
<1>14. CASE Writev
  BY <1>14, WritevRead
<1>15. CASE UNCHANGED vars
  BY <1>15, StillRead DEF vars
<1>16. CASE Rest
  BY <1>15, <1>16 DEF Rest
<1> QED BY <1>1, <1>2, <1>3, <1>4, <1>5, <1>6, <1>7, <1>8, <1>9, <1>10, <1>11, <1>12, <1>13,
           <1>14, <1>15, <1>16 DEF Next, Server

LEMMA ReadOnce == ReadInv => AnsweredOnce
  BY DEF ReadInv, AnsweredOnce, Waits

\* The three invariants of the connection hold together: what is mapped, what was sent,
\* and what was read.
ConnInv == MapInv /\ OrderInv /\ ReadInv

LEMMA ConnInvariant == ASSUME WholeRequests PROVE Spec => []ConnInv
<1>1. Init => ConnInv
  BY MapInit, OrderInit, ReadInit DEF ConnInv
<1>2. ConnInv /\ [Next]_vars => ConnInv'
  BY ReadOnce, MapNext, OrderNext, ReadNext DEF ConnInv
<1> QED BY <1>1, <1>2, PTL DEF Spec

\* However the bytes of requests are cut, and whatever the object was used for before, a
\* thread that parses never has a rest of an answered request before it, process_read
\* gives up a well-formed request to do_request only after its last byte was received,
\* and then with the body and the Connection header the client sent.
THEOREM RequestsUnderstood == ASSUME WholeRequests PROVE Spec => []UnderstoodExactly
<1>1. ConnInv => UnderstoodExactly
  BY ReadOnce DEF ConnInv, ReadInv, Understood, UnderstoodExactly
<1> QED BY <1>1, ConnInvariant, PTL

\* A connection waits for input with a whole request received only if process_read saw a
\* part of the body before the rest came, or the request is none it knows: there is no
\* other way for the server to miss the end of a request.
THEOREM WaitsOnlyWhenNeeded == ASSUME WholeRequests PROVE Spec => []WaitsOnlyForMore
<1>1. ConnInv => WaitsOnlyForMore
  BY DEF ConnInv, ReadInv, WaitsOnlyForMore, NeverWaitsForWhole
<1> QED BY <1>1, ConnInvariant, PTL

\* What the client has got is a beginning of the response to its request, and all of it
\* once nothing is left to send, unless two writes end inside the header.
THEOREM ResponseSentInOrder == ASSUME WholeRequests PROVE Spec => []SentInOrder
<1>1. ConnInv => SentInOrder
  <2> SUFFICES ASSUME OrderInv, MapInv, cuts < 2
               PROVE  /\ IsPrefix(out, Response(result))
                      /\ wr.bytes_to_send = 0 => out = Response(result)
    BY DEF SentInOrder, ConnInv
  <2>C. PICK C : C = Cells
    OBVIOUS
  <2>0. out \in Seq(C) /\ wr.bytes_to_send \in Nat /\ wr.bytes_have_send \in Nat
    BY <2>C DEF OrderInv, MapInv, Writer
  <2>1. CASE wr.bytes_to_send = 0
    <3>1. out = Response(result)
      BY <2>1 DEF OrderInv
    <3>2. Len(out) <= Len(out)
      BY <2>0
    <3> QED BY <3>1, <3>2 DEF IsPrefix
  <2>2. CASE wr.bytes_to_send # 0
    <3>h. PICK h : h = Len(out)
      OBVIOUS
    <3>t. PICK t : t = Total(result)
      OBVIOUS
    <3>a. PICK a : a = Response(result)
      OBVIOUS
    <3>1. Sending(wr, result, out, cuts)
      BY <2>0, <2>2 DEF OrderInv
    <3>2. result \in Sendable /\ h \in Nat /\ t \in Nat /\ h <= t
          /\ \A k \in 1..h : out[k] = Cell(result, k)
      BY <2>0, <3>1, <3>h, <3>t, Sizes DEF Sending
    <3>3. a \in Seq(C) /\ Len(a) = t /\ \A k \in 1..t : a[k] = Cell(result, k)
      BY <2>C, <3>2, <3>t, <3>a, ResponseCells
    <3>4. \A k \in 1..h : out[k] = a[k]
      BY <3>2, <3>3
    <3>5. SubSeq(out, 1, h) = SubSeq(a, 1, h)
      BY <2>0, <3>2, <3>3, <3>4, <3>h
    <3> QED BY <2>2, <3>2, <3>3, <3>5, <3>a, <3>h DEF IsPrefix
  <2> QED BY <2>1, <2>2
<1> QED BY <1>1, ConnInvariant, PTL
=============================================================================
