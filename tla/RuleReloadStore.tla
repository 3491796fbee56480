--------------------------- MODULE RuleReloadStore ---------------------------
(***************************************************************************)
(* RuleReload implements RuleStore.  One history variable records what the *)
(* abstract call remembers: the rule sets it was offered.  It constrains   *)
(* no step.                                                                *)
(***************************************************************************)
EXTENDS RuleReload

VARIABLE offered

hvars == <<vars, offered>>

\* A replacement is on its way from the even sequence to the new index: a
\* reader with a stale index may already be served from it.
NextRules == IF \E t \in Threads : pc[t] = "flip" THEN {words[1 - active][2]} ELSE {}

\* A call that sampled the sequence reset_state's memset has zeroed.
Overtaken ==
  [t \in Threads |-> pc[t] \in {"count", "copy1", "copy2", "valid"} /\ sequence[t] = 0]

HInit == Init /\ offered = [t \in Threads |-> {}]

HNext ==
  /\ Next
  /\ offered' = [t \in Threads |->
       IF pc'[t] = "app" THEN {}
       ELSE (IF pc[t] = "app" THEN {words[active][2]} ELSE offered[t]) \cup NextRules']

HSpec == HInit /\ [][HNext]_hvars

Store == INSTANCE RuleStore
  WITH rules <- words[active][2], next <- NextRules, overtaken <- Overtaken

\* The reload protocol implements the abstract store: a call sees whole rule
\* sets, none older than the one in force when it began, and a failed reload,
\* a lost race or a fork never shows through.
ImplementsStore == Store!Spec
=============================================================================
