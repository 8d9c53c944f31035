------------------------------ MODULE HttpConn ------------------------------
(***************************************************************************)
(* One connection object, users[fd], and the clients it serves in turn:    *)
(* how the bytes of a request and of its response come through recv,       *)
(* process_read, process_write and writev, and how the descriptor is armed *)
(* in between.  EPOLLONESHOT keeps the object with one thread at a time    *)
(* (EventLoop), so one position pc stands for whichever thread has it.     *)
(*                                                                         *)
(* A client sends a request in any pieces, waits for the whole response    *)
(* before the next request, reads when it likes, and may hang up.          *)
(***************************************************************************)
EXTENDS HttpRead, HttpWrite, FiniteSetsExt

CONSTANTS
  READ_BUFFER_SIZE,
  Requests,      \* requests clients send, as sequences of units
  FileResults,   \* what do_request may find
  MaxConns,      \* bound: connections served by the object
  MaxRequests    \* bound: requests sent in all

ASSUME ConnAssumption ==
  /\ READ_BUFFER_SIZE \in Nat \ {0} /\ MaxConns \in Nat /\ MaxRequests \in Nat
  /\ \A q \in Requests : q \in Seq(Unit) /\ q # <<>>
  /\ FileResults \subseteq ErrorPage \cup {"FILE_REQUEST", "EMPTY_FILE", "NO_RESOURCE"}

VARIABLES
  m_CONNTrigmode,     \* the server's setting, 1 is edge-triggered
  m_TRIGMode, rd, wr, \* users[fd]: its mode, fields of the parser, of the response
  pc,                 \* who has it: epoll, or a thread in read_once, process, write
  epoll, edge,        \* kernel: what is armed and how, an unreported ET edge
  inbox, room,        \* kernel: unread data, space to send
  todo, request, gone, out,  \* client: unsent rest, request, hung up, bytes it got
  result,             \* what process made of the request
  ended,              \* why the connection was closed
  bodyCut,            \* process_read saw a part of the body, but not all
  cuts,               \* writes of this response that ended inside the header
  leaked, aborts,     \* mappings nobody points at, responses cut short
  conns, sent         \* connections and requests so far

vars == <<m_CONNTrigmode, m_TRIGMode, rd, wr, pc, epoll, edge, inbox, room, todo, request, gone, out,
          result, ended, bodyCut, cuts, leaked, aborts, conns, sent>>
conn    == <<m_TRIGMode, rd, wr>>
kernel  == <<epoll, edge, inbox, room>>
client  == <<todo, request, gone, out>>
history == <<result, bodyCut, cuts, leaked, aborts>>
fixed   == <<m_CONNTrigmode, conns, sent>>

Closed == pc = "closed"
NotArmed == [ev |-> "none", et |-> FALSE]

Init ==
  /\ m_CONNTrigmode \in 0..1
  /\ m_TRIGMode \in 0..1       \* not initialised by the constructor
  /\ rd = [m_check_state |-> "REQUESTLINE", m_linger |-> FALSE, m_content_length |-> 0,
           m_start_line |-> 0, m_checked_idx |-> 0, m_read_buf |-> <<>>, cgi |-> 0,
           m_string |-> <<>>]
  /\ wr = [m_write_idx |-> 0, bytes_to_send |-> 0, bytes_have_send |-> 0,
           m_iv |-> <<Iovec(0, 0), Iovec(0, 0)>>, m_iv_count |-> 0,
           m_file_address |-> "null"]
  /\ pc = "closed" /\ epoll = NotArmed /\ edge = FALSE
  /\ inbox = <<>> /\ room = TRUE /\ todo = <<>> /\ request = <<>> /\ gone = FALSE
  /\ out = <<>> /\ result = "none" /\ ended = "never" /\ bodyCut = FALSE
  /\ cuts = 0 /\ leaked = 0 /\ aborts = 0 /\ conns = 0 /\ sent = 0

-----------------------------------------------------------------------------
(* The client                                                              *)

Send ==
  /\ ~Closed /\ ~gone /\ todo # <<>>
  /\ \E n \in 1..Len(todo) :
       /\ inbox' = inbox \o SubSeq(todo, 1, n)
       /\ todo' = SubSeq(todo, n + 1, Len(todo))
  /\ edge' = TRUE
  /\ UNCHANGED <<conn, pc, epoll, room, request, gone, out, ended, history, fixed>>

Drain ==
  /\ ~Closed /\ ~gone /\ ~room /\ room' = TRUE
  /\ UNCHANGED <<conn, pc, epoll, edge, inbox, client, ended, history, fixed>>

Hangup ==
  /\ ~Closed /\ ~gone /\ gone' = TRUE /\ edge' = TRUE
  /\ UNCHANGED <<conn, pc, epoll, inbox, room, todo, request, out, ended, history, fixed>>

Answered == result # "none" /\ out = Response(result)

\* the next request on a connection that was kept
Again ==
  /\ ~Closed /\ ~gone /\ todo = <<>> /\ Answered /\ sent < MaxRequests
  /\ \E q \in Requests : request' = q /\ todo' = q
  /\ out' = <<>> /\ result' = "none" /\ bodyCut' = FALSE /\ cuts' = 0 /\ sent' = sent + 1
  /\ UNCHANGED <<conn, pc, epoll, edge, inbox, room, gone, ended, leaked, aborts,
                 m_CONNTrigmode, conns>>

-----------------------------------------------------------------------------
(* The server                                                              *)

init(w) == rd' = init_read(rd) /\ wr' = init_write(w)

\* arms the descriptor in the connection's mode and looks at it once more, so
\* that what waits already counts as new
modfd(ev) ==
  /\ epoll' = [ev |-> ev, et |-> m_TRIGMode = 1]
  /\ edge' = (inbox # <<>> \/ gone)

\* http_conn::init: the descriptor is registered before m_TRIGMode is set, in
\* the mode of whoever used the object before
Accept ==
  /\ Closed /\ conns < MaxConns /\ sent < MaxRequests
  /\ epoll' = [ev |-> "in", et |-> m_TRIGMode = 1]
  /\ m_TRIGMode' = m_CONNTrigmode /\ init(wr)
  /\ pc' = "epoll" /\ conns' = conns + 1 /\ sent' = sent + 1
  /\ \E q \in Requests, n \in {0, 1} :     \* data may be there already
       /\ request' = q /\ todo' = SubSeq(q, n + 1, Len(q)) /\ inbox' = SubSeq(q, 1, n)
       /\ edge' = (n > 0)
  /\ room' = TRUE /\ gone' = FALSE /\ out' = <<>> /\ ended' = "never"
  /\ result' = "none" /\ bodyCut' = FALSE /\ cuts' = 0
  /\ UNCHANGED <<m_CONNTrigmode, leaked, aborts>>

\* the descriptor is removed and closed; a mapping stays where it is
Close(why) ==
  /\ pc' = "closed" /\ ended' = why
  /\ epoll' = NotArmed /\ edge' = FALSE /\ inbox' = <<>>
  /\ UNCHANGED <<room, client, result, bodyCut, cuts, leaked, fixed>>

Aborted == aborts' = IF wr.bytes_to_send > 0 THEN aborts + 1 ELSE aborts

Readable == IF epoll.et THEN edge ELSE (inbox # <<>> \/ gone)
Ready == \/ epoll.ev = "in" /\ Readable
         \/ epoll.ev = "out" /\ (room \/ gone)

\* eventLoop: a hang-up deletes the timer and closes
Hup ==
  /\ pc = "epoll" /\ Ready /\ gone
  /\ Close("hangup") /\ Aborted /\ UNCHANGED conn

Report ==
  /\ pc = "epoll" /\ Ready /\ ~gone
  /\ pc' = (IF epoll.ev = "in" THEN "read_once" ELSE "write")
  /\ epoll' = [epoll EXCEPT !.ev = "off"] /\ edge' = FALSE
  /\ UNCHANGED <<conn, inbox, room, client, ended, history, fixed>>

\* the timer runs out while nobody works on the connection: an assumption, the Timely of
\* EventLoop, as the code does not keep the timer from a connection in work
Timeout ==
  /\ pc = "epoll" /\ Close("timer") /\ Aborted /\ UNCHANGED conn

Space == READ_BUFFER_SIZE - Len(rd.m_read_buf)

\* one recv with space in the buffer; the level-triggered read does just one
Recv ==
  /\ pc = "read_once" /\ Space > 0 /\ inbox # <<>>
  /\ LET n == Min({Space, Len(inbox)}) IN
       /\ rd' = [rd EXCEPT !.m_read_buf = @ \o SubSeq(inbox, 1, n)]
       /\ inbox' = SubSeq(inbox, n + 1, Len(inbox))
  /\ pc' = (IF m_TRIGMode = 0 THEN "process" ELSE "read_once")
  /\ UNCHANGED <<m_TRIGMode, wr, epoll, edge, room, client, ended, history, fixed>>

RecvAgain_mut ==         \* an edge-triggered read without the test for EAGAIN
  /\ pc = "read_once" /\ m_TRIGMode = 1 /\ inbox = <<>> /\ ~gone
  /\ Close("read") /\ Aborted /\ UNCHANGED conn

\* the edge-triggered read ends with EAGAIN.  What recv says with no space and
\* no data is not specified, so both this and RecvFails may follow.
RecvAgain ==
  /\ pc = "read_once" /\ m_TRIGMode = 1 /\ inbox = <<>> /\ ~gone
  /\ pc' = "process"
  /\ UNCHANGED <<conn, kernel, client, ended, history, fixed>>

\* read_once fails: no space, or recv returned 0 or an error
RecvFails ==
  /\ pc = "read_once" /\ (Space = 0 \/ (gone /\ inbox = <<>>))
  /\ Close(IF gone THEN "hangup" ELSE "full") /\ Aborted /\ UNCHANGED conn

\* the mapping do_request makes takes the place of one that was not released
Mapped(r, ret) ==
  [r EXCEPT !.m_file_address = CASE ret = "FILE_REQUEST" -> "map"
                                 [] ret = "EMPTY_FILE"   -> "failed"
                                 [] OTHER                -> @]
Loses(r, ret) == r.m_file_address = "map" /\ ret \in {"FILE_REQUEST", "EMPTY_FILE"}

\* the line feed at h ends an empty line, and with it the headers; the rest is the body
Blank(q, h) == h \in 3..Len(q) /\ q[h - 2] = "LF" /\ q[h - 1] = "CR" /\ q[h] = "LF"
BodyOf(q) ==
  LET ends == {h \in DOMAIN q : Blank(q, h)}
  IN IF ends = {} THEN <<>> ELSE SubSeq(q, Min(ends) + 1, Len(q))

NeedsMore_mut ==         \* does not arm the descriptor
  pc' = "epoll" /\ UNCHANGED <<epoll, edge>>

\* process, NO_REQUEST: wait for more input
NeedsMore == pc' = "epoll" /\ modfd("in")

\* process, with a request: write the response and wait for room, or close
Answers(ret) ==
  LET written == process_write(Mapped(wr, ret), ret) IN
  /\ wr' = written.rec /\ result' = ret
  /\ leaked' = IF Loses(wr, ret) THEN leaked + 1 ELSE leaked
  /\ \/ written.ok /\ modfd("out") /\ pc' = "epoll" /\ UNCHANGED <<inbox, ended>>
     \/ /\ ~written.ok /\ pc' = "closed" /\ ended' = "refused"
        /\ epoll' = NotArmed /\ edge' = FALSE /\ inbox' = <<>>

\* http_conn::process
process ==
  /\ pc = "process"
  /\ \E read \in {process_read(rd)},
        seen \in {Len(rd.m_read_buf) - (Len(request) - Len(BodyOf(request)))} :
       /\ rd' = read.rec
       /\ bodyCut' = (bodyCut \/ seen \in 1..(Len(BodyOf(request)) - 1))
       /\ \/ read.ret = "NO_REQUEST" /\ NeedsMore
             /\ UNCHANGED <<wr, inbox, result, leaked, ended>>
          \/ read.ret = "BAD_REQUEST" /\ Answers("BAD_REQUEST")
          \/ read.ret = "GET_REQUEST" /\ \E ret \in FileResults : Answers(ret)
  /\ UNCHANGED <<m_TRIGMode, room, client, cuts, aborts, fixed>>

unmap_mut(r) == r        \* does nothing

\* munmap, also of the address mmap returns when it fails
unmap(r) == [r EXCEPT !.m_file_address = "null"]

\* one successful writev in the loop of write().  All sent: keep the connection
\* and start over, or return false, upon which it is closed.
Writev ==
  /\ pc = "write" /\ room /\ ~gone
  /\ LET bytes == Gathered(wr) IN \E n \in Min({1, Len(bytes)})..Len(bytes) :
       LET r == Advanced(wr, n) IN
       /\ out' = out \o SubSeq(bytes, 1, n)
       /\ room' \in (IF n = Len(bytes) THEN BOOLEAN ELSE {FALSE})
       /\ cuts' = IF r.bytes_have_send < r.m_write_idx /\ cuts < 2 THEN cuts + 1 ELSE cuts
       /\ \/ /\ r.bytes_to_send > 0
             /\ wr' = r /\ UNCHANGED <<rd, pc, epoll, edge, inbox, ended>>
          \/ /\ r.bytes_to_send <= 0 /\ rd.m_linger
             /\ init(unmap(r)) /\ modfd("in")
             /\ pc' = "epoll" /\ UNCHANGED <<inbox, ended>>
          \/ /\ r.bytes_to_send <= 0 /\ ~rd.m_linger
             /\ wr' = unmap(r) /\ UNCHANGED rd /\ pc' = "closed" /\ ended' = "answered"
             /\ epoll' = NotArmed /\ edge' = FALSE /\ inbox' = <<>>
  /\ UNCHANGED <<m_TRIGMode, todo, request, gone, result, bodyCut, leaked, aborts, fixed>>

\* ... EAGAIN ...
WritevAgain ==
  /\ pc = "write" /\ ~room /\ ~gone
  /\ pc' = "epoll" /\ modfd("out")
  /\ UNCHANGED <<conn, inbox, room, client, ended, history, fixed>>

\* ... and any other error
WritevFails ==
  /\ pc = "write" /\ gone
  /\ wr' = unmap(wr) /\ UNCHANGED <<m_TRIGMode, rd>> /\ Close("hangup") /\ Aborted

Server == \/ Accept \/ Hup \/ Report \/ Recv \/ RecvAgain \/ RecvFails
          \/ process \/ Writev \/ WritevAgain \/ WritevFails

\* no further client comes
Rest == Closed /\ (conns = MaxConns \/ sent = MaxRequests) /\ UNCHANGED vars

Next == Send \/ Drain \/ Hangup \/ Again \/ Server \/ Timeout \/ Rest

Spec == Init /\ [][Next]_vars

\* The threads run, and a client that stays sends its request and reads.  The
\* last conjunct is WF_vars(process): process can run whenever pc says so.
FairSpec ==
  /\ Spec /\ WF_vars(Send) /\ WF_vars(Drain)
  /\ WF_vars(Hup) /\ WF_vars(Report) /\ WF_vars(Recv) /\ WF_vars(RecvAgain) /\ WF_vars(RecvFails)
  /\ WF_vars(Writev) /\ WF_vars(WritevAgain) /\ WF_vars(WritevFails)
  /\ []<>(pc # "process")

-----------------------------------------------------------------------------
(* Properties                                                              *)

\* request line and headers that the parser knows, all lines ended with CR LF
WellFormed(q) ==
  /\ q[1] \in {"GET", "POST"}
  /\ \A i \in DOMAIN q : q[i] = "LF" <=> i > 1 /\ q[i - 1] = "CR"
Has(q, u) == \E i \in DOMAIN q : q[i] = u

\* A request as clients send them: whole lines, and after the empty line that ends
\* the headers as many bytes as the headers announce.  Its lines need not make sense.
IsRequest(q) ==
  /\ \A i \in DOMAIN q : q[i] \notin LineEnd \cup Body =>
       (i = 1 \/ q[i - 1] = "LF") /\ (i = Len(q) \/ q[i + 1] \in LineEnd)
  /\ \A i \in DOMAIN q : q[i] \in Body => \E h \in DOMAIN q : Blank(q, h) /\ h < i
  /\ \A h \in DOMAIN q : Blank(q, h) =>
       /\ \A i \in DOMAIN q : i > h => q[i] \in Body
       /\ Len(q) = h + IF Has(q, "length") THEN ContentLength ELSE 0
  /\ WellFormed(q) => \E h \in DOMAIN q : Blank(q, h)
WholeRequests == \A q \in Requests : IsRequest(q)

Fits(q) == Len(q) < READ_BUFFER_SIZE + (IF m_CONNTrigmode = 0 THEN 1 ELSE 0)

\* Nothing a thread reads is left over from a request already answered.
AnsweredOnce == pc = "process" => result = "none"

\* However its bytes are cut, and whatever the object was used for before, a
\* request is answered once and only after all of it was read, and then its body
\* and its wish to keep the connection are what the client sent.
UnderstoodExactly ==
  /\ AnsweredOnce
  /\ result # "none" /\ WellFormed(request) =>
       /\ todo = <<>>
       /\ wr.bytes_to_send > 0 =>
            /\ rd.m_linger = Has(request, "keep-alive")
            /\ BodyOf(request) # <<>> => rd.m_string = BodyOf(request)

\* The server does not wait for more when it has read the whole request.
NeverWaitsForWhole ==
  pc = "epoll" /\ epoll.ev = "in" /\ todo = <<>> /\ inbox = <<>> /\ result = "none"
    => ~WellFormed(request)

\* ... which holds unless process_read has seen a part of the body, and not all.
WaitsOnlyForMore == bodyCut \/ NeverWaitsForWhole

\* What the client has got is a beginning of the response, and all of it once
\* nothing is left to send, as long as no two writes end inside the header.
SentInOrder ==
  cuts < 2 =>
    /\ IsPrefix(out, Response(result))
    /\ wr.bytes_to_send = 0 => out = Response(result)

\* A connection nobody works on is armed, and data that waits on it is reported:
\* that it was registered in the mode of an earlier connection, or that data
\* came between EAGAIN and modfd, loses no event.
NeverDeaf ==
  pc = "epoll" => /\ epoll.ev \in {"in", "out"}
                  /\ epoll.ev = "in" /\ inbox # <<>> => Ready

\* The file is mapped as long as a part of it may have to be sent, and a mapping
\* is left behind only by a response that was cut short (http_conn.cpp:512-580).
MappedExactly ==
  /\ ~Closed /\ wr.bytes_to_send > 0 /\ wr.m_iv_count = 2 => wr.m_file_address = "map"
  /\ leaked <= aborts

\* A request that is well formed and fits is answered in full, unless its body
\* or the header of its response is cut in the ways above, the client goes, its
\* time is up, or there is nothing to send.
Responds ==
  ~Closed /\ WellFormed(request) /\ Fits(request) /\ result = "none"
    ~> \/ result # "none" /\ out = Response(result)
       \/ bodyCut \/ cuts = 2 \/ gone \/ ended = "timer"
=============================================================================
