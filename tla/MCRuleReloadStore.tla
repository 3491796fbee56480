-------------------------- MODULE MCRuleReloadStore --------------------------
(* Instances of RuleReloadStore for TLC. *)
EXTENDS RuleReloadStore, TLC

Symmetric == Permutations(Threads)
=============================================================================
