---------------------------- MODULE MCHeapTimers ----------------------------
(* Small instances of HeapTimers for TLC. *)
EXTENDS HeapTimers

\* A busy server: some of the behaviours of HeapTimers.  Connections come when the
\* server starts and when the alarm rings; each is given the lowest free number
\* and the timer of that number.  Two of them send something whenever the alarm
\* rings, and the others are idle.
Active    == {2, 3}
Lowest(f) == \A g \in Fd : slot[g] = NoTimer => f <= g
BusyNext ==
  \/ \E f \in Fd : (pipe \/ alarm \in {0, Delay}) /\ Lowest(f) /\ AddTimer(f, f)
  \/ \E f \in Active : pipe /\ AdjustTimer(f)
  \/ Second \/ ReadSignal \/ timer_handler
BusySpec == /\ Init /\ [][BusyNext]_vars
            /\ WF_vars(Second) /\ WF_vars(ReadSignal) /\ WF_vars(timer_handler)
=============================================================================
