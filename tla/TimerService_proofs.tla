-------------------------- MODULE TimerService_proofs --------------------------
(***************************************************************************)
(* For any set of descriptors: while a timer is kept, its alarm is on its  *)
(* way.  The invariant says what m_noalarm means: when it is FALSE an      *)
(* alarm runs or its signal waits in the pipe, and when it is TRUE nothing *)
(* is kept or the signal was just read.                                    *)
(***************************************************************************)
EXTENDS TimerService, TLAPS

NoAlarmMeans ==
  /\ m_noalarm \/ armed \/ pipe
  /\ m_noalarm /\ kept => timeout

IInv == TypeOK /\ SlotsKept /\ NoAlarmMeans

\* Nothing is kept when Utils::init clears the alarm.
LEMMA InitInv == Init => IInv
  BY DEF Init, IInv, TypeOK, SlotsKept, NoAlarmMeans

\* Utils::add_timer sets the alarm if m_noalarm says there is none.
LEMMA AddInv == ASSUME IInv, NEW f \in Fd, Add(f) PROVE IInv'
  BY DEF Add, IInv, TypeOK, SlotsKept, NoAlarmMeans

\* Postponing leaves the alarm and the heap alone.
LEMMA AdjustInv == ASSUME IInv, NEW f \in Fd, Adjust(f) PROVE IInv'
  BY DEF Adjust, IInv, TypeOK, SlotsKept, NoAlarmMeans

\* So does a cancelled timer, which stays in the heap.
LEMMA DeleteInv == ASSUME IInv, NEW f \in Fd, Delete(f) PROVE IInv'
  BY DEF Delete, IInv, TypeOK, SlotsKept, NoAlarmMeans

\* An alarm that goes off is in the pipe.
LEMMA ElapseInv == ASSUME IInv, NEW S \in SUBSET Fd, Elapse(S) PROVE IInv'
<1> USE DEF IInv, TypeOK, SlotsKept, NoAlarmMeans, Elapse
<1>1. TypeOK'
  <2>1. \A f \in Fd : timer'[f] \in {"null", "fresh", "due"}
    OBVIOUS
  <2>2. timer' \in [Fd -> {"null", "fresh", "due"}]
    BY <2>1
  <2> QED BY <2>2
<1>2. SlotsKept'
  <2>1. \A f \in Fd : timer'[f] # "null" => timer[f] # "null"
    OBVIOUS
  <2> QED BY <2>1
<1>3. NoAlarmMeans'
  OBVIOUS
<1> QED BY <1>1, <1>2, <1>3

\* When the signal is read m_noalarm is set, and timer_handler is still to come.
LEMMA ReadSignalInv == ASSUME IInv, ReadSignal PROVE IInv'
  BY DEF ReadSignal, IInv, TypeOK, SlotsKept, NoAlarmMeans

\* timer_handler sets the alarm again unless the heap is empty.
LEMMA HandleInv == ASSUME IInv, NEW S \in SUBSET Fd, Handle(S) PROVE IInv'
<1> USE DEF IInv, TypeOK, SlotsKept, NoAlarmMeans, Handle
<1>1. timer' \in [Fd -> {"null", "fresh", "due"}]
  OBVIOUS
<1>2. kept' \in BOOLEAN /\ armed' \in BOOLEAN /\ m_noalarm' \in BOOLEAN
  OBVIOUS
<1>3. TypeOK' /\ SlotsKept'
  BY <1>1, <1>2
<1>4. CASE kept'
  BY <1>3, <1>4
<1>5. CASE ~kept'
  BY <1>3, <1>5
<1> QED BY <1>2, <1>4, <1>5

\* The invariant is inductive.
LEMMA NextInv == IInv /\ [Next]_vars => IInv'
<1> SUFFICES ASSUME IInv, [Next]_vars PROVE IInv'
  OBVIOUS
<1>1. ASSUME NEW f \in Fd, Add(f) \/ Adjust(f) \/ Delete(f) PROVE IInv'
  BY <1>1, AddInv, AdjustInv, DeleteInv
<1>2. ASSUME NEW S \in SUBSET Fd, Elapse(S) \/ Handle(S) PROVE IInv'
  BY <1>2, ElapseInv, HandleInv
<1>3. CASE ReadSignal
  BY <1>3, ReadSignalInv
<1>4. CASE UNCHANGED vars
  BY <1>4 DEF vars, IInv, TypeOK, SlotsKept, NoAlarmMeans
<1> QED BY <1>1, <1>2, <1>3, <1>4 DEF Next

\* While a timer is kept, the alarm runs, its signal is in the pipe or it was read
\* (Utils::add_timer, dealwithsignal, timer_handler), for any set of descriptors.
THEOREM AlarmAlwaysPending == Spec => []AlarmPending
<1>1. IInv => AlarmPending
  BY DEF IInv, NoAlarmMeans, AlarmPending
<1> QED BY <1>1, InitInv, NextInv, PTL DEF Spec

\* A slot in use has its timer in the heap, for any set of descriptors.
THEOREM SlotsAlwaysKept == Spec => []SlotsKept
<1>1. IInv => SlotsKept
  BY DEF IInv
<1> QED BY <1>1, InitInv, NextInv, PTL DEF Spec
=============================================================================
