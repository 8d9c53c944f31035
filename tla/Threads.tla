-------------------------------- MODULE Threads --------------------------------
(* The worker threads, m_threads of threadpool. *)
EXTENDS FiniteSets

CONSTANT Worker

ASSUME WorkersAssumption == IsFiniteSet(Worker)
===============================================================================
