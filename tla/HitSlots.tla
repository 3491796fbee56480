------------------------------ MODULE HitSlots ------------------------------
(***************************************************************************)
(* Hit slots: the per-rule state that outlives a reload                    *)
(* (src/src/common/chaos_hits.h), the @first gate that draws on it         *)
(* (chaos_policy_fire in src/src/common/chaos_policy.h) and the reload     *)
(* owner's use of the pool (chaos_io_config_attach_hits, _reload and       *)
(* _after_fork in src/src/config/chaos_io_config.c).                       *)
(*                                                                         *)
(* RuleReload shows that one owner at a time builds a snapshot and that a  *)
(* rule copy is taken whole; here a copy is therefore one step, and what   *)
(* is left is how copies, held as long as their callers block, meet slots  *)
(* that are released and handed to other rules.                            *)
(***************************************************************************)
EXTENDS Integers, FiniteSets, Sequences

CONSTANTS
  Threads,     \* threads of the process that call wrappers
  Texts,       \* rule texts; a text fixes the rule's qualifiers
  Settings,    \* what a process may meet: the rule files (sequences of texts),
               \* the pool (twice the rule limit), the bound on fork() calls
  First,       \* per text: @first=N, 0 for none
  PoolSize,    \* slots in the largest pool
  ClaimSpan,   \* values of the claim count in the claim word (2^32 in the code)
  MaxReloads,  \* bound: loads of the rule file
  MaxForks,    \* bound: fork() calls
  MaxCalls     \* bound: rule copies taken

Slots  == 1..PoolSize
NoSlot == 0

ASSUME ConstantsAssumption ==
  /\ Settings \subseteq [files : SUBSET Seq(Texts), pool : 0..PoolSize, forks : 0..MaxForks]
  /\ \A k \in Settings : \A texts \in k.files : 2 * Len(texts) <= k.pool
  /\ First \in [Texts -> Nat]
  /\ PoolSize \in Nat /\ ClaimSpan \in Nat \ {0}
  /\ MaxReloads \in Nat /\ MaxForks \in Nat /\ MaxCalls \in Nat

VARIABLES
  (* chaos_hit_slot_t, per slot *)
  count, claimed, generation, used,
  (* the snapshots and the owner *)
  active,     \* rules of the active snapshot, in file order
  next,       \* rules of the snapshot being built
  todo,       \* texts of the file it has not come to yet
  phase,      \* "idle", or where the owner of the reload is
  (* the callers *)
  pc, copy,   \* where the thread is in chaos_policy_fire, and its rule copy
  seen,       \* local claimed
  (* history *)
  granted,    \* per text, slot and generation: calls through the @first gate
  recorded,   \* per text, slot and generation: hits its copies recorded
  caught,     \* a fork has met a reload between its release and its publication
  (* the instance, and its bounds *)
  setting, reloads, calls, forks

slots   == <<count, claimed, generation, used>>
callers == <<pc, copy, seen>>
history == <<granted, recorded, caught>>
vars    == <<slots, active, next, todo, phase, callers, history, setting, reloads, calls, forks>>

Rules  == [text : Texts, hit : Slots \cup {NoSlot}, generation : Nat]
NoRule == [text |-> "", hit |-> NoSlot, generation |-> 0]

\* chaos_hit_claims_none and chaos_hit_claims: tag and count in one word.  The
\* tag is not cut to its own width: MaxReloads is far below its 2^32 values.
ClaimsNone(g) == g * ClaimSpan
Claims(word) == word % ClaimSpan
Tag(word) == word - Claims(word)

Generations == 0..(MaxReloads + MaxForks + 1)
Zero == [k \in Texts \X Slots \X Generations |-> 0]
Key(rule) == <<rule.text, rule.hit, rule.generation>>
TextsOf(rules) == {rules[i].text : i \in DOMAIN rules}
HitsOf(rules) == {rules[i].hit : i \in DOMAIN rules} \ {NoSlot}

\* chaos_hits_pool_reset, and no rules loaded.
Init ==
  /\ count = [s \in Slots |-> 0]
  /\ generation = [s \in Slots |-> 1]
  /\ claimed = [s \in Slots |-> ClaimsNone(1)]
  /\ used = {}
  /\ active = <<>> /\ next = <<>> /\ todo = <<>> /\ phase = "idle"
  /\ pc = [t \in Threads |-> "idle"]
  /\ copy = [t \in Threads |-> NoRule]
  /\ seen = [t \in Threads |-> 0]
  /\ granted = Zero /\ recorded = Zero /\ caught = FALSE
  /\ setting \in Settings
  /\ reloads = 0 /\ calls = 0 /\ forks = 0

-----------------------------------------------------------------------------
(* The reload owner.                                                       *)

\* The active rules whose slot a rule of this text may keep.
KeptFromNone(text) == {} \* mutant: no slot is carried over
KeptFrom(text) == {i \in DOMAIN active : active[i].text = text /\ active[i].hit # NoSlot}

\* The slots free for another rule, some having been taken in this load.
FreeBefore == 1..setting.pool \ HitsOf(active) \* mutant: the used flag is set at the end
Free == 1..setting.pool \ used

\* Only a slot new to its rule is cleared.
ClearedAlways(text, slot) == {slot} \ {NoSlot} \* mutant: kept slots too
Cleared(text, slot) == IF KeptFrom(text) = {} THEN {slot} \ {NoSlot} ELSE {}

Least(S) == CHOOSE i \in S : \A j \in S : i <= j

\* The slot of the first active rule of the same text, else the next unused
\* slot, else none.
SlotFor(text) ==
  IF KeptFrom(text) # {} THEN active[Least(KeptFrom(text))].hit
  ELSE IF Free # {} THEN Least(Free)
  ELSE NoSlot

\* chaos_io_config_attach_hits: the rules of the file are parsed ...
AttachHits(texts) ==
  /\ phase \in {"idle", "owed"} /\ reloads < MaxReloads
  /\ reloads' = reloads + 1
  /\ todo' = texts
  /\ phase' = "assigning"
  /\ UNCHANGED <<slots, active, next, callers, history, setting, calls, forks>>

\* ... and one round of chaos_hits_assign.  No caller holds a current copy of a
\* slot it clears, so the stores are one step.
AssignHit ==
  /\ phase = "assigning" /\ todo # <<>>
  /\ LET text == Head(todo)
         slot == SlotFor(text)
         cleared == Cleared(text, slot)
     IN  /\ next' = Append(next, [text |-> text, hit |-> slot,
                                  generation |-> IF slot = NoSlot THEN 0 ELSE generation[slot]])
         /\ used' = used \cup ({slot} \ {NoSlot})
         /\ count' = [s \in Slots |-> IF s \in cleared THEN 0 ELSE count[s]]
         /\ claimed' = [s \in Slots |-> IF s \in cleared THEN ClaimsNone(generation[s]) ELSE claimed[s]]
  /\ todo' = Tail(todo)
  /\ UNCHANGED <<generation, active, phase, callers, history, setting, reloads, calls, forks>>

\* chaos_hits_release: slots no kept rule holds are freed and outdated.
ReleasedOld(kept) == used \ HitsOf(active) \* mutant: keeps the old snapshot's
Released(kept) == used \ HitsOf(kept)

Outdated(kept) == [s \in Slots |-> generation[s] + IF s \in Released(kept) THEN 1 ELSE 0]

ReleaseHits ==
  /\ phase = "assigning" /\ todo = <<>>
  /\ used' = used \ Released(next)
  /\ generation' = Outdated(next)
  /\ phase' = "released"
  /\ UNCHANGED <<count, claimed, active, next, todo, callers, history, setting, reloads, calls, forks>>

\* chaos_io_config_publish
Publish ==
  /\ phase = "released"
  /\ active' = next /\ next' = <<>>
  /\ phase' = "idle"
  /\ UNCHANGED <<slots, todo, callers, history, setting, reloads, calls, forks>>

-----------------------------------------------------------------------------
(* The callers: a rule copy, then chaos_policy_fire.                       *)

\* chaos_io_config_select_rule: of rules that match alike the first wins.
Selectable(rules) ==
  {rules[i] : i \in {j \in DOMAIN rules : rules[j].text \notin TextsOf(SubSeq(rules, 1, j - 1))}}

\* chaos_io_config_match_loaded.  A reader with a stale index may find the next
\* snapshot complete before it is the active one (RuleReloadStore!NextRules).
\* The caller may block as long as it likes before it goes on.
CopyRule(t) ==
  /\ pc[t] = "idle" /\ calls < MaxCalls
  /\ calls' = calls + 1
  /\ \E rules \in {active} \cup (IF phase = "released" THEN {next} ELSE {}) :
       \E r \in Selectable(rules) : copy' = [copy EXCEPT ![t] = r]
  /\ pc' = [pc EXCEPT ![t] = "check"]
  /\ UNCHANGED <<slots, active, next, todo, phase, seen, history, setting, reloads, forks>>

Drop(t) ==
  /\ pc' = [pc EXCEPT ![t] = "idle"]
  /\ copy' = [copy EXCEPT ![t] = NoRule]
  /\ seen' = [seen EXCEPT ![t] = 0]

\* chaos_hit_slot_current
Current(rule) == rule.hit = NoSlot \/ generation[rule.hit] = rule.generation
Limited(rule) == First[rule.text] # 0 /\ rule.hit # NoSlot

CheckGeneration(t) ==
  /\ pc[t] = "check"
  /\ IF Current(copy[t])
       THEN /\ pc' = [pc EXCEPT ![t] = IF Limited(copy[t]) THEN "load" ELSE "record"]
            /\ UNCHANGED <<copy, seen>>
       ELSE Drop(t)
  /\ UNCHANGED <<slots, active, next, todo, phase, history, setting, reloads, calls, forks>>

GrantsOneMore(word, rule) == \* mutant: <= for <
  /\ Tag(word) = ClaimsNone(rule.generation)
  /\ Claims(word) <= First[rule.text]
  /\ Claims(word) # ClaimSpan - 1
GrantsAnyTag(word, rule) == \* mutant: the owner of the word is not compared
  Claims(word) < First[rule.text] /\ Claims(word) # ClaimSpan - 1

\* Whether a claim word grants this copy another hit.
Grants(word, rule) ==
  /\ Tag(word) = ClaimsNone(rule.generation)
  /\ Claims(word) < First[rule.text]
  /\ Claims(word) # ClaimSpan - 1

LoadClaimed(t) ==
  /\ pc[t] = "load"
  /\ IF Grants(claimed[copy[t].hit], copy[t])
       THEN /\ seen' = [seen EXCEPT ![t] = claimed[copy[t].hit]]
            /\ pc' = [pc EXCEPT ![t] = "cas"]
            /\ UNCHANGED copy
       ELSE Drop(t)
  /\ UNCHANGED <<slots, active, next, todo, phase, history, setting, reloads, calls, forks>>

SwapClaimed(t) ==
  /\ pc[t] = "cas"
  /\ LET s == copy[t].hit
     IN  IF claimed[s] = seen[t]
           THEN /\ claimed' = [claimed EXCEPT ![s] = seen[t] + 1]
                /\ granted' = [granted EXCEPT ![Key(copy[t])] = @ + 1]
                /\ pc' = [pc EXCEPT ![t] = "record"]
           ELSE /\ pc' = [pc EXCEPT ![t] = "load"]
                /\ UNCHANGED <<claimed, granted>>
  /\ UNCHANGED <<count, generation, used, active, next, todo, phase, copy, seen, recorded, caught,
                 setting, reloads, calls, forks>>

\* chaos_hit_record; the report hook it calls is another module's.
RecordHit(t) ==
  /\ pc[t] = "record"
  /\ LET s == copy[t].hit
     IN  IF s = NoSlot
           THEN UNCHANGED <<count, recorded>>
           ELSE /\ count' = [count EXCEPT ![s] = @ + 1]
                /\ recorded' = [recorded EXCEPT ![Key(copy[t])] = @ + 1]
  /\ Drop(t)
  /\ UNCHANGED <<claimed, generation, used, active, next, todo, phase, granted, caught, setting, reloads,
                 calls, forks>>

-----------------------------------------------------------------------------
\* What the child frees, and the claim words it starts with.
ForkFrees == Released(active)

ClaimsAfterFork(gens) == [s \in Slots |-> ClaimsNone(gens[s])]

\* fork() by an idle thread, seen from the child: chaos_hits_pool_after_fork.
\* A reload under way is gone; it is owed, because the stamp is now UNKNOWN.
Fork(t) ==
  /\ pc[t] = "idle" /\ forks < setting.forks
  /\ forks' = forks + 1
  /\ used' = used \ ForkFrees
  /\ generation' = Outdated(active)
  /\ count' = [s \in Slots |-> 0]
  /\ claimed' = ClaimsAfterFork(Outdated(active))
  /\ next' = <<>> /\ todo' = <<>>
  /\ phase' = IF phase = "idle" THEN "idle" ELSE "owed"
  /\ pc' = [u \in Threads |-> "idle"]
  /\ copy' = [u \in Threads |-> NoRule]
  /\ seen' = [u \in Threads |-> 0]
  /\ granted' = Zero /\ recorded' = Zero
  /\ caught' = (caught \/ phase = "released")
  /\ UNCHANGED <<active, setting, reloads, calls>>

Next ==
  \/ \E texts \in setting.files : AttachHits(texts)
  \/ AssignHit \/ ReleaseHits \/ Publish
  \/ \E t \in Threads :
       CopyRule(t) \/ CheckGeneration(t) \/ LoadClaimed(t) \/ SwapClaimed(t) \/ RecordHit(t) \/ Fork(t)

Spec == Init /\ [][Next]_vars

-----------------------------------------------------------------------------
\* The pool, the snapshots and the callers are well formed.
TypeOK ==
  /\ count \in [Slots -> Nat] /\ claimed \in [Slots -> Nat]
  /\ generation \in [Slots -> Generations] /\ used \subseteq Slots
  /\ active \in Seq(Rules) /\ next \in Seq(Rules) /\ todo \in Seq(Texts)
  /\ phase \in {"idle", "assigning", "released", "owed"} /\ setting \in Settings
  /\ pc \in [Threads -> {"idle", "check", "load", "cas", "record"}]
  /\ \A t \in Threads : copy[t] \in Rules \cup {NoRule} /\ seen[t] \in Nat

InForce == {active[i] : i \in DOMAIN active}

\* A rule fires at most @first=N times in this process while its text stays in
\* the rule file, across reloads, for callers racing in chaos_policy_fire and
\* for copies held since before a reload: the allowance is drawn on under one
\* key, that of the text's first rule, and there at most N times.
FirstAllowance ==
  \A r \in Selectable(active), q \in InForce :
    First[r.text] # 0 /\ r.hit # NoSlot /\ q.hit # NoSlot /\ q.text = r.text =>
      granted[Key(q)] <= IF Key(q) = Key(r) THEN First[r.text] ELSE 0

\* A claim word holds the claims of the rule in force, all of them and, unless
\* a fork has caught a reload, no other's: a stale copy that passed the
\* generation check consumes nothing of the rule that now has its slot, and a
\* full count does not run into the tag.
ClaimsAreOwn ==
  \A r \in InForce : Current(r) /\ r.hit # NoSlot =>
    /\ Tag(claimed[r.hit]) = ClaimsNone(r.generation)
    /\ ~caught /\ First[r.text] # 0 => Claims(claimed[r.hit]) = granted[Key(r)]

\* No hit of a rule in force is lost: its slot is not cleared while the rule
\* stays, whichever reloads and copies its callers straddle.
HitsAreKept ==
  \A r \in InForce : Current(r) /\ r.hit # NoSlot => count[r.hit] >= recorded[Key(r)]

\* chaos_hits.h:212: the pool never runs out, also in children forked in the
\* middle of reloads, so no rule in force lacks a slot; and between reloads no
\* rule in force is outdated, so that each can fire.
RulesCanFire ==
  /\ \A r \in InForce : r.hit # NoSlot
  /\ phase = "idle" => \A r \in InForce : Current(r) /\ r.hit \in used

\* Rules of different texts hold different slots: neither counts on, nor draws
\* on the allowance of, the other, as chaos_hits_assign's comment says
\* ("Rules with identical text share one slot").
SlotsNeverShared ==
  \A r, q \in InForce : r.text # q.text /\ r.hit # NoSlot => r.hit # q.hit

\* So they do in every process but one that was forked between a release and
\* the publication: there the rules in force hold slots that are free.
SlotsAreOwn == ~caught => SlotsNeverShared

\* Editing the file around a rule resets nothing of it: a text that stays keeps
\* its slot, its generation and its claims through every publication, in a
\* process that has not been forked (a fork starts its counts and claims anew).
SlotsKept ==
  \A r \in Selectable(active) : r.hit # NoSlot /\ r.text \in TextsOf(active') =>
    \E q \in Selectable(active') :
      Key(q) = Key(r) /\ Claims(claimed'[q.hit]) >= Claims(claimed[r.hit])

KeptRulesKeepSlots == [][forks' = 0 => SlotsKept]_vars
=============================================================================
