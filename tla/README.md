# TLA+ model of TinyServer

TinyServer is a small HTTP/1.1 server in C++: one main thread runs an epoll
loop, a pool of worker threads parses requests and builds responses, a binary
heap of timers closes idle connections, MySQL connections come from a pool, and
a log is written through a bounded queue. This directory holds TLA+ modules of
its logic, the TLC configurations that check them on small instances, and
TLAPS proofs of theorems about them for all values of the constants.
Paths below are relative to `src/`.

## 1. Inventory

| component | source | state | operations |
|---|---|---|---|
| event loop | `webserver.cpp` | `events`, `users[]`, `users_data[]`, `timeout`, `stop_server`, `m_user_count` | `eventLoop`, `dealclinetdata`, `create_user`, `del_timer`, `dealwithsignal`, `dealwithread`, `dealwithwrite` |
| connection | `http/http_conn.cpp` | `m_sockfd`, `m_address`, buffers and indices, `m_check_state`, `improv`, `timer_flag`, `m_state`, `m_iv`, `bytes_to_send` | `init`, `close_conn`, `read_once`, `process_read`, `do_request`, `process_write`, `write` |
| user table | `http/http_conn.cpp` | `users`, `m_lock`, the table `user` of the database | lookups and inserts in `do_request`, `initmysql_result` |
| thread pool | `threadpool/threadpool.h` | `m_workqueue`, `m_queuelocker`, `m_queuestat` | `append`, `append_p`, `run` |
| timers | `timer/minheap_timer.cpp` | `array`, `cur_size`; per timer `expire`, `adjusted`, `cb_func`, `user_data` | `add_timer`, `adjust_timer`, `del_timer`, `real_adjust`, `pop`, `tick` |
| utils | `utils/utils.cpp` | `m_noalarm`, `alarm()`, the pipe `u_pipefd` | `init`, `add_timer`, `adjust_timer`, `timer_handler`, `cb_func`, `sig_handler` |
| SQL pool | `CGImysql/sql_connection_pool.cpp` | `connList`, `reserve`, `m_CurConn`, `m_FreeConn` | `init`, `GetConnection`, `ReleaseConnection`, `DestroyPool`, `connectionRAII` |
| block queue | `log/block_queue.h` | `m_array`, `m_front`, `m_back`, `m_size` | `push`, `pop`, `pop(timeout)`, `back`, `full`, `clear`; `front`, `empty`, `size`, `max_size` |
| log | `log/log.cpp` | `m_count`, `m_today`, `m_fp`, `m_buf`, the queue | `init`, `write_log`, `async_write_log`, `flush` |
| locks | `lock/locker.h` | mutex, semaphore, condition variable | wrappers of pthread calls |
| start and stop | `main.cpp`, `config.cpp`, `webserver.cpp` | configuration | `main`, `parse_arg`, `init`, `trig_mode`, `eventListen`, destructors |

### How the parts interact

* The main thread accepts a client at descriptor number `fd`, initialises
  `users[fd]`, registers `fd` with epoll (one-shot) and puts a timer in
  `users_data[fd].timer`. From then on three parties may close `fd`: the main
  thread (hang-up, failed read or write), the timer callback (main thread, after
  SIGALRM came through the pipe) and the worker (`close_conn` in `process`).
* Proactor: the main thread reads and writes, a worker runs `process`. Reactor:
  the worker reads and writes too, while the main thread spins on `improv` and
  then looks at `timer_flag`.
* One-shot registration keeps a connection with one party until somebody
  re-arms it with `modfd`. Only events are held back by it: the timer is not.
* The request queue carries pointers to `users[fd]`, the kernel reuses `fd`, and
  neither queue nor timer is purged when `fd` is closed.
* Every timer lives in the heap; `users_data[fd].timer` points at the one in
  use. Cancelling clears the callback and leaves the timer in the heap,
  postponing raises `expire` in place. `m_noalarm` decides whether `add_timer`
  sets the alarm; later alarms are set by `timer_handler`.
* Each worker holds a SQL connection while it runs `process`. Signals may be
  delivered to any thread, and the handlers are installed without `SA_RESTART`.
* Any thread writes log lines; with a positive queue length a further thread
  takes them out of the block queue and writes the file.

### What is hard, and what makes each part correct

* **Event loop, connection, thread pool.** The main thread, the workers and the
  kernel's reuse of numbers interleave. Correct means: no event is handled
  without a timer to delete; no open socket is left without something that will
  close it; the table entry describes the socket; a response goes to the client
  that asked; one thread at a time works on a connection; the counter that
  limits connections is exact; the busy wait ends; clients are accepted, read
  and, once gone, closed.
* **Timers.** The heap is deliberately out of order and late. Correct means:
  slots and heap agree, an alarm is always on its way while a timer is kept, no
  connection is closed before it is due, `tick` leaves none that is due, and none
  stays for ever. The last two hold only with the conditions of section 2.2.
* **SQL pool.** A list, a semaphore and two counters change in separate steps,
  and waits can be interrupted. Correct means: nobody shares a connection, the
  semaphore counts the list, and whoever passes it finds a connection.
* **Block queue and log.** Lost wakeups, ring indices, the check of `full()`
  outside the critical section of `push`, order of lines, rotation, the end of
  the process with lines queued.
* **Parser and writer.** Requests split over reads at any byte, bodies included;
  buffer limits; partial `writev` calls; trigger modes; one object used for one
  connection after the other. Correct means: a request is understood as it was
  sent, the server waits only when something is missing, the bytes sent are the
  response, no connection is left unarmed, no mapping is left behind.
* **Request queue.** The semaphore is posted outside the lock and its wait can be
  interrupted. Correct means: no request is forgotten in the list or handed out
  twice.
* **User table.** The map is searched without the lock, an INSERT may fail, a restart
  reads the database again. Correct means: map and database agree, and who was told
  that a registration succeeded can log in.
* **Start and stop.** Workers and the writer thread are detached, signal handlers run
  from some point of the start-up on, and `main` destroys the parts while the
  threads go on. Correct would mean that no part is used outside its lifetime, which
  does not hold: the workers wait in the thread pool when it is deleted. What can be
  asked is that nothing else is misused than what each such order explains.

## 2. Modules and runs

| module | models | about it |
|---|---|---|
| `EventLoop` | event loop, connection life cycle, workers, timer slots, kernel descriptors | proofs in `EventLoop_proofs` |
| `MinHeap` | the array operations of `min_heap` | operators; proofs in `HeapTimers_proofs` |
| `HeapOps` | one `min_heap` driven through all its operations | uses `MinHeap`; proofs in `HeapTimers_proofs` |
| `TimerService` | what timers promise the event loop | abstract; `TimerService_proofs` |
| `HeapTimers` | heap, Utils and alarm | implements `TimerService`; `HeapTimers_proofs` |
| `SqlPool` | the SQL connection pool | proofs in `Server_proofs` |
| `Server` | start-up, loop and teardown of the process around `SqlPool` | implements `SqlPool`; `Server_proofs` |
| `Fifo` | a bounded FIFO queue | abstract |
| `BlockQueue` | the ring of the log | implements `Fifo`; `BlockQueue_proofs` |
| `AsyncLog` | `write_log`, `flush`, writer thread, change of file | uses `Fifo`; `AsyncLog_proofs` |
| `RequestQueue` | list, lock and semaphore of the thread pool | implements `Fifo`; proofs in `Workers_proofs` |
| `UserTable` | map of users, `m_lock`, the database table, restarts | proofs in `Workers_proofs` |
| `Workers` | `run()` between `RequestQueue` and `UserTable` | implements both; `Workers_proofs` |
| `HttpRead` | `process_read` and the three parsers | operators |
| `HttpWrite` | `process_write`, `m_iv`, `write()`'s arithmetic | operators |
| `HttpConn` | one connection object with its clients and the kernel | uses `HttpRead`, `HttpWrite`; `HttpConn_proofs` |

`Threads` declares the set of workers that `RequestQueue` and `UserTable` share.
`MCX` is the module with which TLC checks instances of `X`.

How they fit together. `HeapTimers` extends `MinHeap` and instantiates
`TimerService` with a refinement mapping; the variable `timer` of `EventLoop` is
that of `TimerService`, so `EventLoop` stands on the promise and not on the heap.
`EventLoop` appends and takes requests in one step, which `RequestQueue`
justifies: with its lock, semaphore and interrupted waits it implements `Fifo`.
`AsyncLog` uses `Fifo` for its queue, and `BlockQueue` implements `Fifo`. `HttpConn`
refines what is a nondeterministic result of `process_read` and `write` in
`EventLoop`, for one object at a time; in return `EventLoop` has the threads that
`HttpConn` lets take turns. `Workers` joins the queue and the user table,
`Server` joins the SQL pool with everything that lives and dies around it.

An operator whose name ends in `_mut` is a variant of the operator of the same
name with a plausible mistake. Nothing uses it; put in the place of the original
it makes the property it is listed with in `PROJECT.json` fail, which shows that
the property depends on that code.

### 2.1 EventLoop

A client stands for a TCP connection and connects once. A request is the client
it came from, the result of `process_read` is chosen from `HttpCodes`, and a
response is the client it answers and a number of pieces (`RespPieces`) that
`writev` sends. The kernel's table (`sock`, `epoll`, `backlog`, `edge`) hands
out the lowest free number, drops the registration with the last close, and
switches a one-shot registration off when it reports it.

| in the model | in the code |
|---|---|
| `mpc` | where the main thread is: in `epoll_wait`, between two events of a batch (`dispatch`), in the edge-triggered accept loop, spinning on `improv`, stopped; `crash` is the null dereference in `del_timer` |
| `events`, `timeout`, `stop_server` | the locals of `eventLoop` |
| `conn[fd]` | `users[fd]` |
| `timer[fd]` | `users_data[fd].timer`: none, running, or past its timeout |
| `wpc`, `wfd`, `wtmp` | a worker's position in `run`/`process`/`close_conn`, its request, and the loaded value of `m_user_count` |

Handlers of the main thread are single steps (the accept loop is one step per
client, the busy wait has a step to enter and one to leave), because the other
actors only see the descriptor, the table entry and the queue they change last.
Workers have a step for each access that the main thread can observe or
overtake: take, read or write, raise `timer_flag`, `process_read`,
`process_write`, close the descriptor, forget it, count down, re-arm. The order of events within a batch is
left open. Descriptor numbers of files the workers open are not modelled.

Runs. Two descriptors are needed for reuse of one while the other is in a batch,
two clients for a response to the wrong one, two workers for two hands on one
connection, a queue of one request for the drop.

* `eventloop_proactor`: two requests per client, responses in two pieces, clients
  that send and hang up at any moment. It assumes what `Timely` says, that no timeout
  passes while a request is queued or in work, and that every request is
  answered, so that workers do not close. Then all five hold: `NoNullTimer`,
  `TableDescribesSocket`, `UserCountExact`, `OneThreadPerConn`,
  `ResponseToRequester`.
* `eventloop_reactor`: no such assumption, all results of `process_read` (so
  workers close connections), a connection limit below the number of
  descriptors, an edge-triggered listening socket and SIGTERM. What holds even
  so: `EveryDescriptorTimed` and `SpinServed`.
* `eventloop_live`: Reactor with one descriptor and one worker, under fairness:
  `SpinEnds`, `HungUpIsClosed`, `BacklogServed`, `RequestTaken`. The Proactor's
  liveness is not checked: it shares all handlers but the busy wait.
* `eventloop_slot_reuse` ends in a violation; see the findings.

Fairness: the main thread and the workers run (weak fairness; they are threads
that never block while their step is enabled), time passes, the alarm goes off
while timers are set (`AlarmAlwaysPending`, and for the heap `AlarmOnItsWay`), and a due
timer is not missed by every tick (strong fairness of `Closes`). The last is
`DueHandled` of `HeapTimers`, which the heap does not keep in general (see the
findings): it does with one timer, as in `eventloop_live`, and otherwise once
no timer is postponed any more (`DueHandledOnceQuiet`). Clients owe nothing.

### 2.2 MinHeap, HeapOps, HeapTimers, TimerService

`MinHeap` has the operations as functions of an array and a map of keys. `HeapOps` is
one heap: it is built from an array and driven through add, pop and the postponed
root, with `resize` when the array is full. The run `minheap_ops` takes every array of
up to five timers with keys 0..3. Five timers give a heap of three levels with a parent of one
child, and let an array of one cell grow three times. `Exact` says of every step that
the timers are those expected, that they form a min-heap and that they fit in
the array. The loops of the constructor, `perocolate_down`, `add_timer` and `tick` are
recursive functions, about which `HeapTimers_proofs` can reason.

`HeapTimers` keeps times relative to now, so its states are finite: `left[t]` is
`expire - time(NULL)`. `AddTimer`, `AdjustTimer` and `DelTimer` are the wrappers
with all they call; `Second` is the clock with `alarm()`; `timer_handler` is
`tick` followed by the new alarm. `MaxLate` is the greatest lateness told apart:
a timer that is later still counts as that late.

* `heap_service` (three timers, two connections, signal and handler delayed at
  will, `MaxLate` 0: all overdue timers are alike): slots and heap agree
  (`SlotsMatchTimers`); `ServiceSpec` holds, that is, the heap implements
  `TimerService`; `InTimeWhenOrdered`: while the heap is in order the alarm rings at
  most a second after any timer expires, `tick` leaves no due timer, and only a
  postponement ends the order; and under fairness of the clock and of the main loop
  every due timer is handled if from some time on none is postponed
  (`DueHandledOnceQuiet`). Three timers are one postponed at the root and two below
  it, and a cancelled one beside those of both connections. Fairness of
  `ReadSignal` and `timer_handler` is that of the main loop, which returns from
  `epoll_wait` when the pipe has a byte and ends each batch.
* `heap_busy` (five connections, two of which send something whenever the alarm
  rings, signals handled within the second, `Prompt`) ends in a violation of
  `DueHandled`; see the findings. `BusySpec` restricts `HeapTimers` to this schedule
  and keeps its fairness; with four timers the schedule handles all of them.

### 2.3 SqlPool and Server

In `SqlPool` critical sections are one step; the unlocked size test, the wait, and
the post are steps of their own. `WaitInterrupted` is `sem_wait` failing with
EINTR, which the code does not test; `slips` counts how often that happened and
`MaxSlips` bounds it. After `DestroyPool`, or after a thread has taken from an
empty list, the behaviour of the program is undefined and the model rests
(`Over`).

`Server` extends it with the life of the process. `stage` is the step of `main`
that comes next, `Place` the order of these steps: the constructor, `log_write`,
`sql_pool`, `thread_pool`, the two halves of `eventListen` that install the
handlers and set `u_pipefd`, the loop, then the members in the order `~WebServer`
and the members' destructors take them down, the end of `main`, and the static
objects, last built first: the two singletons, then `m_lock` and the map it guards.
`Life` gives each part the steps that build and destroy it. `Uses(t)` says which parts
a worker touches when it goes on: between two requests the thread pool, in whose
semaphore it waits, else what `connectionRAII` and `process()` use. A
worker, a destructor or a signal handler that touches a part outside its life ends
the behaviour and names the part in `misused`. It need not come to that: `main` may
be faster than the worker, and `sem_destroy` leaves a sleeper asleep. The loop is
reduced to accept, append and close (`EventLoop` has it in detail); workers do the
steps of `SqlPool` between taking a request and giving the connection back, as in the
Proactor; `read_once` and `write`, which workers call in the Reactor, are in `EventLoop`.
`left` notes what was there when the loop ended: requests in the queue or in
work, and timers.

* `server_all` (three workers, one to three SQL connections, three client
  connections, one interrupted wait, two signals, all three settings of the log):
  `Exclusive`, `Accounted` (list, semaphore and counters agree; each interrupted
  wait leaves the semaphore one too high for good), `Plenty` (with a connection
  per thread nobody waits, is interrupted or is given NULL), and
  `MisuseHasCause`, which names for each part who uses it outside its life: the thread
  pool its own workers, even after a loop that ended idle; the connections, the
  SQL pool and `m_lock` a worker whose request the loop left behind; the log such a
  worker, or the writer thread of an asynchronous log; the records of clients a timer
  left in the heap; the pipe a signal outside the loop. All of these are reached in
  the run, and no part but the pipe is used before it is built. Deadlock is checked too: neither the pool
  nor the teardown wedges, but in `hung`, where the destructor of a condition
  variable somebody waits on may block for ever. Two signals are one for the stop
  and one stray; with three workers one waits, one holds and one releases; the
  interrupted wait shifts the semaphore by one, and a second shifts it the same
  way again (`Accounted` is proved for any number).

### 2.4 Fifo, BlockQueue

A critical section of `block_queue` is one step; `cond.wait` divides a pop in
going to sleep, waking and testing again, and the pop with a time limit has its
own, different, test after the wait. Wakeups may be spurious, limits may expire
in any state. `queue` of `Fifo` is mapped to the `m_size` cells after `m_front`.

* `blockqueue_all` (three threads in any role, two items, a ring of three):
  `NoLostWakeup`, and `FifoSpec`: the ring implements `Fifo`. Three cells let
  the indices wrap while the ring is neither empty nor full, three threads let
  two sleepers compete for one item. The check for deadlock says little here, as
  a wait may always end by itself; `NoLostWakeup` is what rules out the hang.

### 2.5 AsyncLog

A call of `LOG_INFO` and its kind is: read the clock, `localtime` into its shared
static result, copy that, count the line and change the file under the lock, ask
`full()`, push or write, flush. Formatting under the lock changes nothing shared
that outlives it and is part of `Line`. `written` lists every `fputs` with who did
it; `flushed` says how many of them have left the stdio buffer.

* `asynclog_all` (two threads, two lines each, a queue of two, a file of two
  lines, one midnight, synchronous and asynchronous): `LinesConserved`,
  `OrderKept`, `FileMatchesCount`, `DirectOnDisk`, `LossNeedsRace`, and, with all
  threads scheduled fairly, `Settles`. Two lines per thread fill the queue
  exactly between check and push, let a direct line overtake a queued one and
  let a stale day arrive after midnight. Deadlock is not checked: when no more is
  logged, the writer waits for ever.

### 2.6 HttpRead, HttpWrite, HttpConn

`HttpRead` is the parser as operators on the record of the fields it uses. Input
comes in units: CR, LF, a whole request line or header without its line end, or a
byte of a body. `parse_line` passes over any character but CR and LF, so a cut
inside a line is as good as one before its end, and cuts between CR and LF and
inside the body are kept. `Turn` is one turn of the loop in `process_read`, with
the `line_status` that decides whether the body is handed to `parse_line`.

`HttpWrite` sets and advances the two iovecs. A byte is the place it lies at, so
that a byte sent twice, left out, or taken from beyond the header is told from
the right one.

`HttpConn` runs them on one object of `users`, with the socket buffers, one-shot
registration with its trigger mode, a client that sends, reads and hangs up, and
the timer. `pc` says which function has the connection. One connection follows
another on the same object, so that what `init` does not reset is still there:
`m_TRIGMode` at registration, `m_string`, `m_iv`, `m_file_address`. The body of a
request (`BodyOf`) is what follows its first empty line.

* `http_all`: two connections, two requests in all, from a plain GET, a kept POST
  whose body ends exactly at the 13 units of the buffer, a request line the parser
  refuses and a line with a bare LF; a file of two bytes, an empty one, none, and
  one that may not be read; header of three bytes, so that it can be cut twice;
  connection and object in either trigger mode. All are whole requests in the sense of
  `WholeRequests`, which TLC evaluates. `UnderstoodExactly`, `WaitsOnlyForMore`,
  `SentInOrder`, `NeverDeaf`, `MappedExactly`, and under fairness `Responds`.
  `UnderstoodExactly` includes `AnsweredOnce`: no thread is given something to parse
  after the request was answered, without which `SentInOrder` would not hold.
  Two connections show state left by the one before, two requests on one
  connection show state left by `init()` after a response. Deadlock is checked;
  the model rests when no further client comes.

Fairness: the threads run, and a client that stays sends the rest of its request
and reads what it is sent. Timer and hang-up are not fair. The fairness of
`process` is stated as `[]<>(pc # "process")`, which is the same, as `process`
is enabled whenever `pc` says so, and is cheaper to check.

Two assumptions stand behind all properties and theorems of `HttpConn`. A timeout
strikes only between two reports (`Timeout`), never while a thread or the queue has the
connection: this is what `Timely` says in `EventLoop`, where the close during work is
modelled. And the queue takes every request that was read; in the Proactor it may
drop one (section 5).

`bodyCut` (`process_read` has seen a part of the body) and `cuts` (writes that
ended inside the header) are history variables. Requests and responses to which
they happen are excepted from `WaitsOnlyForMore`, `SentInOrder` and `Responds`,
because the code does not handle them; see the findings.

### 2.7 RequestQueue, UserTable, Workers

`RequestQueue` has the critical sections of `append` and `run` as steps, and the
wait and the post as steps of their own. An interrupted wait lets a worker look
into the list without a token (`slips`); what it takes leaves its token behind,
and a worker that finds nothing goes back to wait.

`UserTable` has the registration and the login of `do_request`: the lookup,
`m_lock` with the INSERT, the insertion into the map, the answer; the two lookups
of a login. A lookup that runs while another thread is inside `users.insert` is
a data race: it may miss any name and may see the one that is being inserted.
The database is external: a list of passwords per name, to which an INSERT adds or
fails, and from which a restart fills the map with one of the rows of each name,
as no order is asked of the SELECT. History variables name what must be excepted: `raced` (a
lookup ran into another registration), `unsaved` (an INSERT failed since the last
start), and `confirmed` (what clients were told).

`Workers` joins the two: `Submit` reads a form and appends the connection, `Serve`
takes it into `do_request`, `Answer` returns. `Restart` ends the process between
any two steps.

* `workers_all` (two workers, three connections, a queue of two, three forms, two
  names, two passwords for one of them, one interrupted wait, one failing INSERT,
  one restart): `Balanced` (no request in the list without something that will
  fetch it, and no more surplus than interrupted waits), `EachServedOnce`,
  `FifoSpec`, `MapMatchesRows`, `ConfirmedKept`, and under fairness `Answered`.
  Three forms are two registrations that race and a login after, or a failing
  INSERT, a restart and a second try; the third connection finds the queue full.
  Deadlock is not checked: when the clients are quiet, the workers wait.

Fairness: threads run, and a thread that waits for `m_lock` gets it in the end
(strong fairness of `Work`: the lock is free again and again). Clients, failures,
interrupts and restarts are not fair.

### 2.8 Findings

Two runs end in a violation of what a comment says; the counterexamples were
followed in the code.

* `webserver.cpp:197`: a slot with a timer is taken for an occupied number. A
  worker that closes a connection leaves the timer, and the next client at that
  number is neither initialised nor registered (`eventloop_slot_reuse`).
* `timer/minheap_timer.cpp:165`: `tick` stops at a root that was only postponed, after
  it has moved that one down, and looks no further; the comment at line 153 has it
  test the timers one after the other down to the first that has not expired. As long as the
  timers that come to the root are such as are postponed again and again, idle
  connections below them stay open for ever: five connections suffice, two of them
  active (`heap_busy`).

Further behaviour that the models made visible; the properties above are stated
so that they hold in spite of it.

Event loop and timers:

* `improv` is raised before `timer_flag` (`threadpool/threadpool.h:133`), and the
  main thread can look between the two; the flag is then taken for that of the
  next request.
* `m_user_count` is counted down by a worker that closes (`http/http_conn.cpp:108`)
  and once more by the timer, and the decrements are not atomic.
* The edge-triggered accept loop leaves clients in the queue when it breaks at the
  limit (`webserver.cpp:216`), with no event to come.
* The timer closes a descriptor that a worker is working on (`utils/utils.cpp:141`);
  `epoll.md:208` says nobody else can.
* After `tick` has left a due timer, the alarm may be set for later than the
  earliest timeout (`utils/utils.cpp:114`, against `timer/MHTtimer.md:3`).

Connection:

* A body that arrives in two reads is lost when the first part was parsed:
  `parse_line` passes over it and moves `m_checked_idx`, so the length test waits
  for bytes that will not come (`http/http_conn.cpp:332`; the comment at 329 and
  `http/httpconn.md` have it test for the whole body).
* When two writes end inside the header, `iov_len` is reduced by the total each
  time (`http/http_conn.cpp:552-561`): header bytes are skipped, bytes from before
  the file are sent, or the loop does not end.
* A malformed line (`LINE_BAD`) makes the server wait for more instead of
  answering; an empty file and a missing one close the connection without a
  response.
* An edge-triggered read into a buffer that is exactly full calls `recv` with
  length 0 (`http/http_conn.cpp:224`).
* A response cut short by a hang-up or a timeout leaves its mapping.

Workers, users and SQL pool:

* An interrupted `sem_wait` is taken for a connection
  (`CGImysql/sql_connection_pool.cpp:70`), and the semaphore stays one too high.
* `GetConnection` returns NULL when the list is empty at its first look instead
  of blocking (`CGImysql/sql_connection_pool.cpp:67`, against
  `CGImysql/mysqlconn_pool.md:23`).
* Two registrations of one name can both pass the lookup, which is made without
  the lock (`http/http_conn.cpp:433`, against the comment at 423): the database
  then has two rows, both clients are told they succeeded, and a restart may
  exchange the password that counts.
* A name whose INSERT failed stays in the map until the next start
  (`http/http_conn.cpp:437`).

Log:

* `block_queue::front` returns the cell before the first element
  (`log/block_queue.h:85`); nothing calls it.
* A line is dropped when the queue fills between `full()` and `push()`; a
  direct line overtakes queued ones; the last queued lines stay in the stdio
  buffer until somebody logs again; a stale day changes the file back to that of
  yesterday and resets the count (`log/log.cpp:114`, 157, 164).

Start and stop:

* The handlers are installed before `Utils::u_pipefd` is set
  (`webserver.cpp:155-162`); a signal in between dereferences NULL, and one after
  `main` returned writes through a pointer to a dead local.
* The workers are never told to stop: `~WebServer` deletes the thread pool while they
  wait in its semaphore or are on the way there (`webserver.cpp:29`,
  `threadpool/threadpool.h:109`), after a loop that ended idle as well.
* When the loop ends with workers in `process()`, they go on with the connections,
  the SQL pool, the log and `m_lock` destroyed under them.
* `users_data` is freed before the heap, and the destructor of each timer left in
  it resets the record it points at (`timer/minheap_timer.h:27`; `timer/MHTtimer.md:59`
  has it do so while the record is valid).
* With an asynchronous log `~Log` destroys the condition variable the writer
  waits on.

## 3. Proofs

All theorems hold for every value of the constants that satisfies the named
assumptions of the modules (`TimerConstants`, `PoolAssumption`, `SizeAssumption`,
`QueueAssumption`, `TableAssumption` and so on, which TLC evaluates in the runs).
A theorem that needs more says so in its statement. The type invariants are proved
where they are not run.

**`EventLoop_proofs`** covers every set of descriptors, clients and workers, both
trigger modes of the listening socket and all bounds. Each part rests on the one
before.

* For both actor models and timeouts at any moment: `TypeCorrect`,
  `NoNullDereference`, `AcceptedIsTimed`, and `Inductive`, the invariant they follow
  from. `NoNullTimer` is not inductive: an event in the batch is about a
  descriptor whose timer may have been deleted since. What saves it is that an
  event is only reported for a registered descriptor (`RegisteredTimed`: a
  registered descriptor has a timer), that one descriptor has one event in a batch
  and only handling that event or the timer handler, which runs after the batch,
  empties its slot (`EventTimed`), and that during the busy wait nobody else
  empties the slot (`SpinTimed`). `WorkerHolds` gives the workers' positions a
  descriptor.
* `SpinIsServed`, likewise without an assumption. `SpinInv` says where the one
  request of the Reactor is: while the main thread waits, in the queue or with one
  worker; otherwise nowhere, so that the next `append` finds room; and only the
  object it waits for has `improv` raised.
* `TableIsTrue` and `CountIsTrue`, when no result of `process_read` is one that
  `process_write` refuses (`HttpCodes \cap Refused = {}`), so that workers do not
  close. Then a slot has a timer exactly while its number is open, registered and
  described by its table entry, and the count is that of open numbers.
  With refused requests both are false; see the findings.
* `OneThreadAtATime` and `ResponseReachesRequester`, for the Proactor while no
  timeout passes on a connection in work (`Timely`), refused requests included.
  `LeaseInv` makes EPOLLONESHOT a lease: a descriptor in work is queued or held,
  once, and is neither armed nor in the batch nor due. On top of it, the object at a
  registered number is that of the open socket, holds bytes of that client
  alone, and has nothing left to send whenever it can be read from.

**`TimerService_proofs`** proves that an alarm is pending while a timer is kept, and
that slots in use are kept in the heap. The strengthening says what `m_noalarm`
means: when false, an alarm runs or its signal is in the pipe; when true, nothing
is kept or the signal was just read.

**`HeapTimers_proofs`** proves that the heap implements that service
(`ImplementsService`), for any number of timers, descriptors and any timeouts, and so
inherits both (`AlarmOnItsWay`), that slots and heap agree (`SlotsAgree`), that no
timer is in the heap twice (`EachTimerOnce`), and for the operators of `MinHeap`
that `add_timer`, `pop` and `real_adjust` leave a heap of the timers expected
(`AddKeepsHeap`, `PopKeepsHeap`, `AdjustRestoresHeap`), `pop` and `real_adjust` even
when the root has been postponed past its children, and that the constructor makes a
heap of any array (`BuildMakesHeap`). `HeapExact` puts them together: whatever the
sequence of operations, a heap stays exact (`Exact`). Its invariant adds to the order
that no timer is twice in the array and that the array has room. Every loop of the code is
a recursive function. The library's induction theorems cannot be used here, as
they take an operator; in their place `LoopExists` shows that a loop is a function,
its value at a state being that of the one final state that every set closed under a
round contains, and `LoopKeeps` that what every round keeps holds of the
result, by the least count of rounds at which it would not. The invariant of
the system is `TypeOK`, `SlotsMatchTimers` and `Distinct(heap)`: `tick` gives the
record of a timer back when it pops it, which is only right if it is in the
heap once. `OrderedMeansInTime` is the safety that is left to a heap that postpones
in place (`InTimeWhenOrdered`). Its invariant: no timer runs for more than `Delay` and
no alarm for more than a second longer (`Bounded`), the alarm is never later than
the root, in order or not (`RootInTime`), and no alarm is awaited with timers in
the heap only between signal and `tick` (`NoAlarmHandled`); in a heap in order the root
is the earliest (`RootEarliest`). For the order of the heap, the loop upwards keeps "all pairs
are in order but for the hole and its parent", the loop downwards "all but for the
hole and its children", and the constructor "all pairs at and below the position it
has come to" (`OrderedFrom`).

**`Server_proofs`** has two parts. *The pool*: all invariants of `SqlPool`, without
further assumptions. `Exclusive` needs only that a thread holds a connection
in `process` alone. `Accounted` and `FrontExists` (whoever passes the semaphore finds a
connection, as long as no wait was interrupted) follow from an invariant that counts
threads by position, and `Plenty` is a counting argument on top: threads that hold a
connection, are between wait and take, or between release and post are disjoint
sets; a thread in none of them leaves at most one fewer than all threads, so the
semaphore is positive, nobody blocks, and nobody can be interrupted while
blocked. *The process*: every behaviour of `ServerSpec` is one of `SqlPool`'s
`Spec` (`ServerImplementsPool`), so that these theorems hold in the composition,
and `MisuseHasCause`. The strengthening `ServerInv`: nothing is accepted, queued or
served before the loop; after a loop that left no work, or no timers, it stays so, as
only the loop accepts and appends; a timer bound to a record is in the slot of that
record; the SQL pool is destroyed only by its step. From these, a worker that finds a
part gone is either between requests and in the deleted thread pool, or has a request
that was there when the loop ended (`UnsafeAfterLoop`), and a handler outside the loop
is a stray signal.

**`BlockQueue_proofs`** proves `TypeOK`, `RingAgrees` and `NoLostWakeup`, and that the
ring implements `Fifo` (`ImplementsFifo`). `RingAgrees` becomes inductive with
`Fresh`: `m_back` is -1 exactly when nothing was pushed since the last clear, that
is, when `m_front` is -1 and the ring is empty. All ring arithmetic rests on one
lemma about a single wrap of an index. For the refinement, `FreeCell` shows that
a push fills a cell that holds no item, and `Held` gives the queue as a sequence
whose elements are compared one by one.

**`AsyncLog_proofs`** proves every safety property of the log, for any number of
threads and lines, any queue size and any lines per file. `OpenFileIsCounted` is an
argument about quotients: a line that does not fill a part stays in the part of the
line before. `DirectIsOnDisk`: a thread past its flush has its line below `flushed`,
which only grows. `LossOnlyInRace`: who is past `full()` and was not overtaken
finds room (`RoomLeft`). `LinesAlwaysConserved` and `OrderAlwaysKept` share one
lemma on what a step does to the lines (`Conserved`: each line handed over is at one
place in the files, waits at one place, or is lost); `Ordered` then says that of two
lines of one thread the older stands first, unless the younger was written
directly. `QueueUsedAsFifo` gives the log the promises of `Fifo`, which `BlockQueue`
keeps.

**`HttpConn_proofs`** holds for any requests, cuts, sizes, and number of connections, with
timeouts only between two reports, as section 2.6 says. What
is about the meaning of requests assumes `WholeRequests`: clients send whole lines, and
after the empty line as many bytes as the headers announce. The lines need not make
sense. Without it `UnderstoodExactly` is false: of a request with more bytes than it
announces, a thread finds a rest after the answer.

* `NeverIsDeaf`: an edge-triggered descriptor armed for reading has the edge of
  whatever is unread (`EarInv`), because `modfd` looks again and nothing but a report
  takes the edge away.
* `MappingsAreKept`: who reads has nothing left to send, who writes has, and no more
  lies in the vectors than is left to send (`MapInv`). A mapping that stays when
  nothing of it is being sent is counted as lost already, against the
  response that was cut short.
* `RequestsUnderstood` and `WaitsOnlyWhenNeeded` go through the loop of
  `process_read`. As in the heap, the loop is a recursive function
  (`LoopExists`, `LoopKeeps`), here with the units left to look through as its
  measure: a turn stops, or takes a line off the buffer, or asks for more of the body,
  after which lines are looked for (`TurnLines`). So what every turn keeps holds at the
  end (`ReadKeeps`). What it keeps is `Good`: the fields are at a beginning of the
  request the client sends (`Reading`), or the request is taken (`Taken`). `Reading`
  says that a line starts at `m_start_line`, that no line end was passed since, that the
  two fields set by headers are those of the headers before it, and that a body
  starts behind the empty line, unless a part of it was seen. `ReadInv` carries
  this along the steps of the connection: who waits has a beginning of the request in the
  buffer and the rest before it, in the kernel or with the client (`Ahead`);
  who answers on a connection that will be kept has nothing before it. `ReadInv`
  needs `OrderInv` (who has all of a response finds the object reset) and gives it
  `AnsweredOnce`, so that the three invariants are proved as one (`ConnInv`).
* `ResponseSentInOrder`: the client has got the first
  `bytes_have_send` bytes of the response, cell by cell, and while at most one write has
  ended inside the header the vectors point at the next one (`Pointing`). It assumes
  `WholeRequests`, since a refusal of surplus bytes would follow the first response.

**`Workers_proofs`** has three parts. *The queue*: `Balanced` and the implementation of
`Fifo`. `Balanced` with the types is inductive: an append owes a post, a wait
carries a token to the list, a take uses a token and a request, an interrupted wait
adds to both sides of the bound. The lemmas `Arrives`, `Leaves` and `Stays` say how
the number of workers at a position changes. *The table*: `OneRowPerName`,
`MapMatchesRows` and `ConfirmedKept`. `MapMatchesRows` speaks of the map between
critical sections, so the strengthening says what holds inside and before them:
for a name whose lookups did not race, at most one worker is between lookup and
insertion (`Sole`), the name is in neither map nor database until that worker has
the lock (`Fresh`), inside the critical section the row is there exactly if the
INSERT succeeded (`Entering`), a name whose INSERT failed is in the map alone
(`NotSaved`), and what a client is about to be told holds already (`Registered`).
*The composition*: every behaviour is one of `QueueSpec` and of `TableSpec`, so
that the theorems of both hold in it, and `EachServedOnce`. The link between the
two: a worker is in `do_request` exactly when it has a connection (`Busy`), every
waiting connection has a form (`Asked`), no connection is twice in the list or with
two workers (`Once`), and one that is waited on is in one of these places
(`Somewhere`).

Only model-checked: liveness under fairness and everything with ENABLED, which the
prover does not cover, that is the four properties of `eventloop_live`,
`DueHandledOnceQuiet`, `Settles`, `Responds` and `Answered`.

## 4. Plan

Done: all components of the inventory but those of section 5, and theorems for
every safety and action property of the passing runs. Left: that the process ends
after SIGTERM, under fairness of `main`, but in `hung`.

## 5. Not modelled

* The load generator `test_presure` and the pages under `root`, which are not part
  of the program; `config.cpp`, which parses options that are parameters here;
  `trig_mode`, which copies two of them; socket options; failing constructors of
  the lock wrappers.
* In `HttpConn`, a request that the full queue drops: in the Proactor the connection
  then stays unarmed until its timer closes it (`threadpool/threadpool.h:68`).
  `EventLoop` has the drop, but its liveness is checked in the Reactor only, so no
  property speaks of what the client of such a request gets.
* The length `munmap` is given: it is that of `m_file_stat`, which a later `stat` for
  a path without a mapping may have filled with another file's.
* The text of pages, headers, addresses and log lines. `m_write_buf` is taken to
  be large enough for every response, which it is for those the program can make.
* The NULL that `GetConnection` may give a worker is not followed into
  `do_request`; `SqlPool` has it, `UserTable` assumes a connection.
* `users[name]` inserting an empty password when a racing second lookup misses
  the name; other corruption of the tree by a data race.
* Requests sent one after the other without waiting (`init` wipes what was read of
  the next). A POST without a body, which finds `m_string` of the request before
  (`http/http_conn.cpp:408`, listed as a hazard).
* In `write()`, the branch for nothing to send, which no caller reaches, and the
  moment between `modfd` and `init()`, in which the object is armed but not yet
  reset: an event cannot be dispatched then, as the main thread is in `write()`
  itself (Proactor) or spins until `write()` has returned (Reactor). In `run`, the test for a null request, which is never true.
* A log file that cannot be opened: after a change of file `m_fp` is NULL
  (`log/log.cpp:134`) and the next `fputs` is undefined.
* The constructors of `min_heap` clear the array with an uninitialised counter
  (`timer/minheap_timer.cpp:10`), and `add_timer` compares `expire` as `int`
  (line 63); cells are read only below `cur_size`, and the times are far below the
  limit until 2038.
* `Utils::del_timer` and `block_queue::front`, which nothing calls.
