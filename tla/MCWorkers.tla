------------------------------ MODULE MCWorkers ------------------------------
(* Small instances of Workers for TLC: two clients register the same name with *)
(* different passwords, one of them logs in, and another name is registered.   *)
EXTENDS Workers

MCName     == {"anna", "bert"}
MCPassword == {"p1", "p2"}
MCForms == {f \in Form :
              \/ f.kind = "register" /\ (f.name = "bert" => f.password = "p1")
              \/ f.kind = "login" /\ f.name = "anna" /\ f.password = "p1"}
=============================================================================
