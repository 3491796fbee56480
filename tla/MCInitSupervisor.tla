-------------------------- MODULE MCInitSupervisor --------------------------
(* The application and one process it may leave behind.                     *)
EXTENDS InitSupervisor

V(a, d, then) == [action |-> a, then |-> then, delay |-> d]
MCVerdicts == {V("pass", 0, "pass"), V("fail", 0, "pass"), V("delay", 1, "fail"), V("delay", 2, "pass")}
Env(k, p, f) == [killable |-> k, pid1 |-> p, fails |-> f]
MCSettings ==
  {Env(TRUE, FALSE, f) : f \in Faults} \cup {Env(FALSE, FALSE, f) : f \in {"none", "fork"}}
    \cup {Env(TRUE, TRUE, "none")}
MCOld == {Env(FALSE, FALSE, "none")}
=============================================================================
