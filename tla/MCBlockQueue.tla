----------------------------- MODULE MCBlockQueue -----------------------------
(* Small instances of BlockQueue for TLC. *)
EXTENDS BlockQueue, TLC
Symmetry == Permutations(Thread) \cup Permutations(Item)
===============================================================================
