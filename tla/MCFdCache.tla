----------------------------- MODULE MCFdCache -----------------------------
(* Instances of FdCache for TLC. *)
EXTENDS FdCache, TLC

CONSTANTS f, g, t1, t2

Symmetric == Permutations({t1, t2}) \cup Permutations({f, g})
=============================================================================
