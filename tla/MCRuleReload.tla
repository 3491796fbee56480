---------------------------- MODULE MCRuleReload ----------------------------
(* Instances of RuleReload for TLC. *)
EXTENDS RuleReload, TLC

Symmetric == Permutations(Threads)
=============================================================================
