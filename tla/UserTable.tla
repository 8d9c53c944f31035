------------------------------ MODULE UserTable ------------------------------
(***************************************************************************)
(* Registration and login in http_conn::do_request: the map users, shared  *)
(* by the workers, the table user of the database and m_lock.              *)
(*                                                                         *)
(* Lookups take no lock.  While another thread is inside users.insert, a   *)
(* lookup is a data race on the tree: what is in the map may be missed,    *)
(* and the name being inserted may be seen.  The map never loses a name.   *)
(***************************************************************************)
EXTENDS Threads, Integers, Sequences

CONSTANTS
  NoWorker,
  Name, Password, NoPassword,
  Forms,           \* what clients send: registrations and logins
  MaxFailures,     \* bound: INSERTs that fail
  MaxRestarts      \* bound: restarts of the process

Form == [kind : {"register", "login"}, name : Name, password : Password]

ASSUME TableAssumption ==
  /\ Forms \subseteq Form /\ Forms # {}
  /\ NoWorker \notin Worker /\ NoPassword \notin Password
  /\ MaxFailures \in Nat /\ MaxRestarts \in Nat

VARIABLES
  users,           \* the map: password of a name, or NoPassword
  rows,            \* the database: the passwords stored for a name, oldest first
  m_lock,          \* who holds it
  at, form,        \* per worker: position in do_request, and the request's form
  res,             \* per worker: whether its INSERT failed
  confirmed,       \* history: names and passwords answered with log.html
  raced,           \* history: names whose lookup ran into another registration
  unsaved,         \* history: names whose INSERT failed, since the last start
  failures, restarts

tableVars == <<users, rows, m_lock, at, form, res, confirmed, raced, unsaved, failures, restarts>>
history   == <<confirmed, raced, unsaved, failures, restarts>>

Moves(w, l) == at' = [at EXCEPT ![w] = l]
name(w)     == form[w].name
password(w) == form[w].password

\* locals of do_request hold this before they are set and after it returned
NoForm == CHOOSE f \in Forms : TRUE

TableInit ==
  /\ users = [n \in Name |-> NoPassword] /\ rows = [n \in Name |-> <<>>]
  /\ m_lock = NoWorker /\ at = [w \in Worker |-> "idle"]
  /\ form = [w \in Worker |-> NoForm] /\ res = [w \in Worker |-> FALSE]
  /\ confirmed = {} /\ raced = {} /\ unsaved = {} /\ failures = 0 /\ restarts = 0

\* do_request is entered with a form
Begin(w, f) ==
  /\ at[w] = "idle" /\ form' = [form EXCEPT ![w] = f]
  /\ Moves(w, IF f.kind = "register" THEN "find" ELSE "login")
  /\ UNCHANGED <<users, rows, m_lock, res, history>>

Inserters == {v \in Worker : at[v] = "insert"}

\* what users.find may report to w
Found(w) ==
  LET others == Inserters \ {w} IN
  IF others = {} THEN {users[name(w)] # NoPassword}
  ELSE {b \in BOOLEAN : b => \/ users[name(w)] # NoPassword
                             \/ \E v \in others : name(v) = name(w)}

\* another worker is between its lookup and its insertion, with this name or in
\* the middle of the insertion
Racing(w) == \E v \in Worker \ {w} :
               at[v] = "insert" \/ (at[v] = "query" /\ name(v) = name(w))

\* users.find(name) == users.end(), before the lock is taken
RegisterFind(w) ==
  /\ at[w] = "find"
  /\ \E found \in Found(w) : Moves(w, IF found THEN "refused" ELSE "query")
  /\ raced' = IF Racing(w) THEN raced \cup {name(w)} ELSE raced
  /\ UNCHANGED <<users, rows, m_lock, form, res, confirmed, unsaved, failures, restarts>>

\* m_lock.lock() and mysql_query, which may fail
Query(w) ==
  /\ at[w] = "query" /\ m_lock = NoWorker /\ m_lock' = w /\ Moves(w, "insert")
  /\ \/ /\ res' = [res EXCEPT ![w] = FALSE]
        /\ rows' = [rows EXCEPT ![name(w)] = Append(@, password(w))]
        /\ UNCHANGED <<unsaved, failures>>
     \/ /\ failures < MaxFailures /\ failures' = failures + 1
        /\ res' = [res EXCEPT ![w] = TRUE] /\ unsaved' = unsaved \cup {name(w)}
        /\ UNCHANGED rows
  /\ UNCHANGED <<users, form, confirmed, raced, restarts>>

Insert_mut(w) ==         \* does not enter the name
  /\ at[w] = "insert" /\ m_lock' = NoWorker
  /\ Moves(w, IF res[w] THEN "refused" ELSE "registered") /\ res' = [res EXCEPT ![w] = FALSE]
  /\ UNCHANGED <<users, rows, form, history>>

\* users.insert, which leaves a name that is there alone, and m_lock.unlock()
Insert(w) ==
  /\ at[w] = "insert" /\ m_lock' = NoWorker
  /\ users' = IF users[name(w)] = NoPassword
              THEN [users EXCEPT ![name(w)] = password(w)] ELSE users
  /\ Moves(w, IF res[w] THEN "refused" ELSE "registered") /\ res' = [res EXCEPT ![w] = FALSE]
  /\ UNCHANGED <<rows, form, history>>

\* login: users.find(name) ...
LoginFind(w) ==
  /\ at[w] = "login"
  /\ \E found \in Found(w) : Moves(w, IF found THEN "compare" ELSE "refused")
  /\ UNCHANGED <<users, rows, m_lock, form, res, history>>

\* ... and users[name] == password, a second lookup
LoginCompare(w) ==
  /\ at[w] = "compare"
  /\ \E found \in Found(w) :
       Moves(w, IF found /\ users[name(w)] = password(w) THEN "welcome" ELSE "refused")
  /\ UNCHANGED <<users, rows, m_lock, form, res, history>>

\* do_request returns; the client of a registration is sent to log.html
Reply(w) ==
  /\ at[w] \in {"refused", "registered", "welcome"} /\ Moves(w, "idle")
  /\ confirmed' = IF at[w] = "registered" THEN confirmed \cup {<<name(w), password(w)>>}
                  ELSE confirmed
  /\ form' = [form EXCEPT ![w] = NoForm]
  /\ UNCHANGED <<users, rows, m_lock, res, raced, unsaved, failures, restarts>>

initmysql_result_mut(m) ==   \* the map is not filled
  m = [n \in Name |-> NoPassword]

\* initmysql_result: one of the rows of a name is the last the SELECT returns
initmysql_result(m) ==
  \A n \in Name : \/ rows[n] = <<>> /\ m[n] = NoPassword
                  \/ \E i \in DOMAIN rows[n] : m[n] = rows[n][i]

\* the process ends, whatever the threads do, and is started again
TableRestart ==
  /\ restarts < MaxRestarts /\ restarts' = restarts + 1
  /\ users' \in {m \in [Name -> Password \cup {NoPassword}] : initmysql_result(m)}
  /\ m_lock' = NoWorker /\ at' = [w \in Worker |-> "idle"] /\ unsaved' = {}
  /\ form' = [w \in Worker |-> NoForm] /\ res' = [w \in Worker |-> FALSE]
  /\ UNCHANGED <<rows, confirmed, raced, failures>>

TableStep(w) == \/ RegisterFind(w) \/ Query(w) \/ Insert(w)
                \/ LoginFind(w) \/ LoginCompare(w)

TableNext == \/ \E w \in Worker : TableStep(w) \/ Reply(w) \/ \E f \in Forms : Begin(w, f)
             \/ TableRestart

TableSpec == TableInit /\ [][TableNext]_tableVars

-----------------------------------------------------------------------------
\* The holder of the lock is the one thread that changes the map.
TableTypeOK ==
  /\ users \in [Name -> Password \cup {NoPassword}] /\ rows \in [Name -> Seq(Password)]
  /\ form \in [Worker -> Forms] /\ res \in [Worker -> BOOLEAN]
  /\ at \in [Worker -> {"idle", "find", "query", "insert", "login", "compare",
                        "refused", "registered", "welcome"}]
  /\ \A w \in Worker : at[w] = "insert" <=> m_lock = w
  /\ m_lock \in Worker \cup {NoWorker}
  /\ confirmed \subseteq Name \X Password /\ raced \subseteq Name /\ unsaved \subseteq Name

\* The database holds a name twice only if a lookup, which is made without the
\* lock, ran into another registration (http_conn.cpp:433-438).
OneRowPerName == \A n \in Name : n \notin raced => Len(rows[n]) <= 1

\* The map is what a restart would read from the database, unless a lookup raced
\* or an INSERT failed: then the name is in the map all the same
\* (http_conn.cpp:436-437).
MapMatchesRows ==
  \A n \in Name \ (raced \cup unsaved) :
    (\A w \in Inserters : name(w) # n)
      => rows[n] = IF users[n] = NoPassword THEN <<>> ELSE <<users[n]>>

\* A client that was told its registration succeeded can log in with its password
\* from then on, through restarts, unless a lookup of the name raced; its
\* password stays in the database in any case (http_conn.cpp:433-441, 452).
ConfirmedKept ==
  \A c \in confirmed :
    /\ \E i \in DOMAIN rows[c[1]] : rows[c[1]][i] = c[2]
    /\ c[1] \notin raced => users[c[1]] = c[2]
===============================================================================
