----------------------------- MODULE TimeRegress -----------------------------
(***************************************************************************)
(* libchaos-time's REGRESS: the clock jumps back once and stays behind     *)
(* (src/time/chaos_time_actions.c).  The rule's hit slot carries a small   *)
(* state machine every reading thread steps:                               *)
(*   0 fresh, 1 armed, 3 one thread decides the jump, 2 jumped.            *)
(* The slot outlives the rule: a reload that drops the rule moves the      *)
(* slot's generation on, a later reload gives the slot to another rule     *)
(* (src/common/chaos_hits.h).  A fork() loses the deciding thread.         *)
(***************************************************************************)
EXTENDS Naturals, FiniteSets

CONSTANTS
    RgThreads,      \* threads that read the clock
    MaxRules        \* bound: REGRESS rules the slot is given to, one after another

ASSUME RegressAssumption == MaxRules \in Nat \ {0}

VARIABLES
    rgSlot,         \* the hit slot: used, generation, state
    rgReads,        \* per thread: where its clock read is, the generation of its rule copy
    rgForked,       \* this is the child of a fork()
    rgSeen          \* history: hits and shifted reads per generation; generations
                    \* whose slot a read of another generation touched

rgVars == <<rgSlot, rgReads, rgForked, rgSeen>>

RegressStates == 0 .. 3
Generations == 1 .. 2 * MaxRules
IdleRead == [pc |-> "idle", generation |-> 0]

RegressInit ==
    /\ rgSlot = [used |-> TRUE, generation |-> 1, state |-> 0]
    /\ rgReads = [t \in RgThreads |-> IdleRead]
    /\ rgForked = FALSE
    /\ rgSeen = [hits |-> [g \in Generations |-> 0], shifted |-> {}, mixed |-> {}]

ReadAt(t, pc) == rgReads[t].pc = pc
ReadGoes(t, pc) == rgReads' = [rgReads EXCEPT ![t].pc = pc]
ReadEnds(t) == rgReads' = [rgReads EXCEPT ![t] = IdleRead]
Sets(state) == rgSlot' = [rgSlot EXCEPT !.state = state]

(* History of a step that touches the slot: the generations it mixes up.   *)
Mixes(t) == IF rgReads[t].generation = rgSlot.generation THEN {}
            ELSE {rgReads[t].generation, rgSlot.generation}
Notes(t) == rgSeen' = [rgSeen EXCEPT !.mixed = @ \cup Mixes(t)]
NotesShift(t) == rgSeen' = [rgSeen EXCEPT !.mixed = @ \cup Mixes(t),
                                          !.shifted = @ \cup {rgReads[t].generation}]

(* A read takes its copy of the active rule.                               *)
BeginRead(t) ==
    /\ ReadAt(t, "idle") /\ rgSlot.used
    /\ rgReads' = [rgReads EXCEPT ![t] = [pc |-> "current", generation |-> rgSlot.generation]]
    /\ UNCHANGED <<rgSlot, rgForked, rgSeen>>

(* A stale copy, or a closed @from/@until window, shifts nothing.          *)
CheckCurrent(t) ==
    /\ ReadAt(t, "current")
    /\ \/ rgReads[t].generation = rgSlot.generation /\ ReadGoes(t, "fresh")
       \/ ReadEnds(t)
    /\ UNCHANGED <<rgSlot, rgForked, rgSeen>>

LookFresh(t) ==
    /\ ReadAt(t, "fresh")
    /\ ReadGoes(t, IF rgSlot.state = 0 THEN "arm" ELSE "jumped")
    /\ UNCHANGED <<rgSlot, rgForked, rgSeen>>

(* CAS 0 -> 1; the arming read stays real.                                 *)
Arm(t) ==
    /\ ReadAt(t, "arm")
    /\ Sets(IF rgSlot.state = 0 THEN 1 ELSE rgSlot.state)
    /\ Notes(t) /\ ReadEnds(t) /\ UNCHANGED rgForked

LookJumped(t) ==
    /\ ReadAt(t, "jumped")
    /\ IF rgSlot.state = 2
       THEN NotesShift(t) /\ ReadEnds(t)
       ELSE ReadGoes(t, "claim") /\ UNCHANGED rgSeen
    /\ UNCHANGED <<rgSlot, rgForked>>

(* Mutant: the state is tested and then stored.                            *)
ClaimByStore(t) ==
    /\ ReadAt(t, "claim")
    /\ Sets(3) /\ ReadGoes(t, "decide") /\ Notes(t) /\ UNCHANGED rgForked

(* CAS 1 -> 3: one thread decides, the others are not shifted yet.         *)
Claim(t) ==
    /\ ReadAt(t, "claim")
    /\ IF rgSlot.state = 1
       THEN Sets(3) /\ ReadGoes(t, "decide") /\ Notes(t)
       ELSE ReadEnds(t) /\ UNCHANGED <<rgSlot, rgSeen>>
    /\ UNCHANGED rgForked

(* chaos_time_rule_should_trigger: only a current copy can fire.           *)
Decide(t) ==
    /\ ReadAt(t, "decide")
    /\ \/ /\ rgReads[t].generation = rgSlot.generation
          /\ rgSeen' = [rgSeen EXCEPT !.hits[rgSlot.generation] = @ + 1]
          /\ ReadGoes(t, "jump")
       \/ ReadGoes(t, "disarm") /\ UNCHANGED rgSeen
    /\ UNCHANGED <<rgSlot, rgForked>>

Jump(t) ==
    /\ ReadAt(t, "jump")
    /\ Sets(2) /\ NotesShift(t) /\ ReadEnds(t) /\ UNCHANGED rgForked

Disarm(t) ==
    /\ ReadAt(t, "disarm")
    /\ Sets(1) /\ Notes(t) /\ ReadEnds(t) /\ UNCHANGED rgForked

(* A reload drops the rule (chaos_hits_release) ...                        *)
DropRule ==
    /\ rgSlot.used /\ rgSlot.generation < 2 * MaxRules
    /\ rgSlot' = [rgSlot EXCEPT !.used = FALSE, !.generation = @ + 1]
    /\ UNCHANGED <<rgReads, rgForked, rgSeen>>

(* ... and a later one gives the slot, cleared, to a new rule.             *)
AssignRule ==
    /\ ~rgSlot.used
    /\ rgSlot' = [rgSlot EXCEPT !.used = TRUE, !.state = 0]
    /\ UNCHANGED <<rgReads, rgForked, rgSeen>>

(* chaos_hits_pool_after_fork: a decision nobody will end is taken back,   *)
(* with its hit if that was counted already (a child counts its own); a    *)
(* jump that has happened is inherited.                                    *)
ForkRegress(t) ==
    /\ ReadAt(t, "idle") /\ ~rgForked
    /\ rgForked' = TRUE
    /\ rgReads' = [u \in RgThreads |-> IF u = t THEN IdleRead ELSE [IdleRead EXCEPT !.pc = "gone"]]
    /\ rgSlot' = [rgSlot EXCEPT !.state = IF @ = 3 THEN 1 ELSE @]
    /\ rgSeen' = [rgSeen EXCEPT !.hits[rgSlot.generation] = IF rgSlot.state = 3 THEN 0 ELSE @]

RegressNext ==
    \/ \E t \in RgThreads :
        \/ BeginRead(t) \/ CheckCurrent(t) \/ LookFresh(t) \/ Arm(t) \/ LookJumped(t)
        \/ Claim(t) \/ Decide(t) \/ Jump(t) \/ Disarm(t) \/ ForkRegress(t)
    \/ DropRule \/ AssignRule

RegressSpec == RegressInit /\ [][RegressNext]_rgVars

(* The jump happens once and is counted once: one hit per rule however     *)
(* many threads read the clock and in whatever order, no read is shifted   *)
(* before the hit is counted, and a slot in state 3 is always being        *)
(* decided, in a forked child too.  (chaos_time_rule_apply_regress,        *)
(* chaos_hits_pool_after_fork.)  Exempt are rules whose slot a clock read  *)
(* of an earlier rule still stepped after it had been handed over: the     *)
(* generation is checked before the state machine, not with it.            *)
OneJump ==
    /\ \A g \in Generations \ rgSeen.mixed :
        /\ rgSeen.hits[g] <= 1
        /\ g \in rgSeen.shifted => rgSeen.hits[g] > 0
    /\ rgSlot.state = 3 =>
        \E t \in RgThreads : rgReads[t].pc \in {"decide", "jump", "disarm"}
=============================================================================
