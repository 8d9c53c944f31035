------------------------------ MODULE MCAsyncLog ------------------------------
(* Small instances of AsyncLog for TLC. *)
EXTENDS AsyncLog, TLC
Symmetry == Permutations(Producer)
===============================================================================
