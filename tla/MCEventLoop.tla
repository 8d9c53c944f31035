---------------------------- MODULE MCEventLoop ----------------------------
(* Small instances of EventLoop for TLC. *)
EXTENDS EventLoop, TLC

MCFd == {1, 2}
MCOneFd == {1}

\* results of process_read in the instances
ServedCodes == {"NO_REQUEST", "FILE_REQUEST"}
AllCodes    == {"NO_REQUEST", "FILE_REQUEST", "NO_RESOURCE"}
AlarmOnly   == {"SIGALRM"}
BothSignals == {"SIGALRM", "SIGTERM"}

\* clients and workers are interchangeable in the safety runs
Symmetry == Permutations(Client) \cup Permutations(Worker)
============================================================================
