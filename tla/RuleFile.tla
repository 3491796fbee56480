------------------------------- MODULE RuleFile -------------------------------
(***************************************************************************)
(* What the six libraries share: the qualifiers of a rule line             *)
(* (chaos_policy.h), hit slots (chaos_hits.h), and the life of a loaded    *)
(* rule file, which every chaos_<library>_config.c repeats.  Here a load   *)
(* is one step of the thread that won it: what goes on inside one, between *)
(* threads and with the file's writer, is RuleReload's.                    *)
(*                                                                         *)
(* A line is a record of fields, not of characters: op is "" where the     *)
(* selector names the operation, eff is "" on a blank or comment line.  A  *)
(* loaded rule keeps its line; a library's configuration is one record.    *)
(***************************************************************************)
EXTENDS Integers, Sequences, SequencesExt, FiniteSets, FiniteSetsExt

CONSTANT MaxRules               \* CHAOS_<LIBRARY>_MAX_RULES
ASSUME MaxRulesAssumption == MaxRules \in Nat \ {0}

Unsized == -1                   \* CHAOS_POLICY_NO_SIZE

NoPolicy == [first |-> 0, from |-> 0, until |-> 0, above |-> Unsized, below |-> Unsized]

Line(sel, op, eff, val) ==
  [sel |-> sel, op |-> op, eff |-> eff, val |-> val, prob |-> "1", policy |-> NoPolicy]
Blank == Line(<<>>, "", "", "")

-----------------------------------------------------------------------------
(* Qualifiers.  first = -1 is a word that is no qualifier. *)

PolicyWordsOk(p) == p.first >= 0
PolicyExtracted(p) == PolicyWordsOk(p) /\ (p.from # 0 /\ p.until # 0 => p.until > p.from)
PolicyEmpty(p) == p = NoPolicy

WindowOpen(p, now) ==
  /\ p.from = 0 \/ now >= p.from
  /\ p.until = 0 \/ now < p.until

SizeOk(p, size) ==
  \/ p.above = Unsized /\ p.below = Unsized
  \/ /\ size # Unsized
     /\ p.above = Unsized \/ size > p.above
     /\ p.below = Unsized \/ size < p.below

(* probability tokens, and what a draw against each can give *)
ProbabilityValid(t) == t \in {"0", "0.5", "1"}
Hits(t) == CASE t = "0" -> {FALSE} [] t = "1" -> {TRUE} [] t = "0.5" -> BOOLEAN

(* value tokens that are numbers *)
Numerals == [n \in {"-5", "0", "1", "2", "5", "900"} |->
               CASE n = "-5" -> -5 [] n = "0" -> 0 [] n = "1" -> 1
                 [] n = "2" -> 2 [] n = "5" -> 5 [] n = "900" -> 900]
IsNumeral(t) == t \in DOMAIN Numerals
IsErrno(t, names) == t \in names \/ (IsNumeral(t) /\ Numerals[t] > 0)
IsMillis(t) == IsNumeral(t) /\ Numerals[t] >= 0

-----------------------------------------------------------------------------
(* Parsing and selection, over a library's own line parser: LineOk(l) says   *)
(* whether it takes a line that is not blank.  One bad line, or one rule too *)
(* many, and no rule of the file is in force.                                *)

RuleLines(lines) == SelectSeq(lines, LAMBDA l : l.eff # "")

Parsed(lines, LineOk(_)) ==
  /\ \A l \in ToSet(lines) :
       /\ PolicyExtracted(l.policy)
       /\ IF l.eff = "" THEN PolicyEmpty(l.policy) ELSE LineOk(l)
  /\ Len(RuleLines(lines)) <= MaxRules

(* the rule that answers: highest rank, then longest selector, then first in *)
(* the file; 0 for none                                                      *)
SelectRule(rules, Eligible(_), Rank(_), Length(_)) ==
  FoldLeft(LAMBDA best, i :
             IF /\ Eligible(rules[i].line)
                /\ \/ best = 0
                   \/ Rank(rules[i].line) > Rank(rules[best].line)
                   \/ /\ Rank(rules[i].line) = Rank(rules[best].line)
                      /\ Length(rules[i].line) > Length(rules[best].line)
             THEN i ELSE best,
           0, [i \in DOMAIN rules |-> i])
Chosen(rules, i) == IF i = 0 THEN {} ELSE {rules[i]}

-----------------------------------------------------------------------------
(* Hit slots *)

NoSlot == 0
FreshSlot == [used |-> FALSE, gen |-> 1, count |-> 0, claims |-> 0, state |-> 0]

HeldSlot(rules, l) ==
  LET holders == {i \in DOMAIN rules : rules[i].line = l /\ rules[i].hit # NoSlot}
  IN  IF holders = {} THEN NoSlot ELSE rules[Min(holders)].hit
FreeSlot(pool, n) ==
  {s \in DOMAIN pool : ~pool[s].used /\ Cardinality({t \in 1..s : ~pool[t].used}) = n}

(* a rule that was there keeps its slot, a new one takes the next free slot  *)
AssignSlots(pool, rules, lines) ==
  [i \in DOMAIN lines |->
     IF HeldSlot(rules, lines[i]) # NoSlot THEN HeldSlot(rules, lines[i])
     ELSE Max(FreeSlot(pool, Cardinality({j \in 1..i : HeldSlot(rules, lines[j]) = NoSlot}))
              \cup {NoSlot})]
TakeSlotsAsLeft(pool, hits) ==  \* mutant: the counters of the slot's last rule stay
  [s \in DOMAIN pool |-> IF s \in hits THEN [pool[s] EXCEPT !.used = TRUE] ELSE pool[s]]
TakeSlots(pool, hits) ==
  [s \in DOMAIN pool |->
     IF s \in hits /\ ~pool[s].used
     THEN [pool[s] EXCEPT !.used = TRUE, !.count = 0, !.claims = 0, !.state = 0] ELSE pool[s]]
ReleaseSlots(pool, kept) ==
  [s \in DOMAIN pool |->
     IF pool[s].used /\ s \notin kept
     THEN [pool[s] EXCEPT !.used = FALSE, !.gen = @ + 1] ELSE pool[s]]
SlotsOf(rules) == {rules[i].hit : i \in DOMAIN rules} \ {NoSlot}

-----------------------------------------------------------------------------
(* A library's configuration *)

FreshLib ==
  [rules |-> <<>>, stamp |-> "unknown", provisional |-> FALSE, content |-> <<>>,
   status |-> "none", pool |-> [s \in 1..(2 * MaxRules) |-> FreshSlot], pending |-> FALSE,
   report |-> {}]

(* a rule file as open, fstat and read see it; recent: written so lately     *)
(* that a rewrite may leave the stamp as it is                               *)
File(kind, stamp, lines) == [kind |-> kind, stamp |-> stamp, lines |-> lines, recent |-> FALSE]
Missing == File("missing", "missing", <<>>)

StampOf(f) == IF f.kind = "missing" THEN "missing" ELSE f.stamp
ReadFile(f) == IF f.kind \in {"denied", "directory", "large"} THEN "refused" ELSE "read"

(* slots are assigned against the rules still in force, and those no rule    *)
(* kept are released                                                         *)
WithSlots(lines, hits, pool) ==
  [i \in DOMAIN lines |->
     [line |-> lines[i], hit |-> hits[i], gen |-> IF hits[i] = NoSlot THEN 0 ELSE pool[hits[i]].gen]]
AttachHits(lib, lines) ==
  WithSlots(lines, AssignSlots(lib.pool, lib.rules, lines), lib.pool)
Publish(lib, rules, stamp, content) ==
  [lib EXCEPT !.rules = rules, !.stamp = stamp, !.content = content,
              !.pool = ReleaseSlots(TakeSlots(@, SlotsOf(rules)), SlotsOf(rules))]

StatusOf(f, ok) == IF f.kind = "missing" THEN "none" ELSE IF ok THEN "ok" ELSE "error"

(* chaos_<library>_config_refresh by the thread that wins the load; ok: the  *)
(* library's parser takes the file's lines                                   *)
Settled(lib, f) == StampOf(f) = lib.stamp /\ ~lib.provisional
SameAgain(lib, f) == ReadFile(f) = "read" /\ f.kind # "missing" /\ StampOf(f) = lib.stamp /\ f.lines = lib.content
Load(lib, f, ok) ==
  [Publish(lib, IF ok THEN AttachHits(lib, RuleLines(f.lines)) ELSE <<>>, StampOf(f),
           IF ReadFile(f) = "read" THEN f.lines ELSE <<>>)
     EXCEPT !.status = StatusOf(f, ok), !.provisional = ReadFile(f) = "read" /\ f.recent]
Refresh(lib, f, ok) ==
  IF Settled(lib, f) THEN lib
  ELSE IF SameAgain(lib, f) THEN [lib EXCEPT !.provisional = f.recent]
  ELSE Load(lib, f, ok)
TakesFile(f, ok) == ReadFile(f) = "read" /\ f.kind # "nul" /\ ok

-----------------------------------------------------------------------------
(* A hit: refused when the slot has gone to another rule; @first claims one  *)
(* of its first matches                                                      *)

SlotCurrent(lib, r) == r.hit = NoSlot \/ lib.pool[r.hit].gen = r.gen
CanFire(lib, r) ==
  /\ SlotCurrent(lib, r)
  /\ r.line.policy.first # 0 /\ r.hit # NoSlot => lib.pool[r.hit].claims < r.line.policy.first
Fire(lib, r) ==
  IF r.hit = NoSlot THEN lib
  ELSE [lib EXCEPT !.pool[r.hit].count = @ + 1, !.pending = TRUE,
                   !.pool[r.hit].claims = IF r.line.policy.first # 0 THEN @ + 1 ELSE @]

Gates(lib, r, now, size) ==
  WindowOpen(r.line.policy, now) /\ SizeOk(r.line.policy, size) /\ CanFire(lib, r)

(* the hits file: every rule in force with the count of its slot *)
ReportHits(lib) ==
  [lib EXCEPT !.pending = FALSE,
              !.report = {<<lib.rules[i].line, lib.pool[lib.rules[i].hit].count>> :
                            i \in {j \in DOMAIN lib.rules : lib.rules[j].hit # NoSlot}}]

(* the child of a fork keeps the rules and starts its counts over *)
PoolAfterFork(pool, kept) ==
  [s \in DOMAIN pool |-> [ReleaseSlots(pool, kept)[s] EXCEPT
                           !.count = 0, !.claims = 0, !.state = IF @ = 3 THEN 1 ELSE @]]
AfterFork(lib) ==
  [lib EXCEPT !.pool = PoolAfterFork(@, SlotsOf(lib.rules)), !.pending = FALSE, !.report = {}]
=============================================================================
