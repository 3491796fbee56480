--------------------------- MODULE HitSlotsProofs ---------------------------
(***************************************************************************)
(* Hits and @first allowances stay with their rules across reloads, for    *)
(* every set of threads, rule texts and rule files, every pool of at least *)
(* twice the longest file, and any number of loads, forks and calls.       *)
(*                                                                         *)
(* The inductive invariant follows a slot from the rule that gets it to    *)
(* the last copy that still names it.  A holder of a slot, in a snapshot   *)
(* or in a call, is of its generation or of an earlier one; of the present *)
(* one only while the slot is in use.  So a slot that is free is fresh:    *)
(* nothing was granted or recorded under its generation.  What a claim     *)
(* word counts is what was granted under the word's tag.                   *)
(***************************************************************************)
EXTENDS HitSlots, FiniteSetTheorems, WellFoundedInduction, TLAPS

In(rules) == {rules[i] : i \in DOMAIN rules}

(* The rules that name a slot, in the snapshots and in the calls.          *)
Copies  == {copy[t] : t \in Threads}
Holders == {r \in In(active) \cup In(next) \cup Copies : r.hit # NoSlot}

TypeInv ==
  /\ count \in [Slots -> Nat] /\ claimed \in [Slots -> Nat]
  /\ generation \in [Slots -> Nat] /\ used \subseteq Slots
  /\ active \in Seq(Rules) /\ next \in Seq(Rules) /\ todo \in Seq(Texts)
  /\ phase \in {"idle", "assigning", "released", "owed"} /\ setting \in Settings
  /\ pc \in [Threads -> {"idle", "check", "load", "cas", "record"}]
  /\ copy \in [Threads -> Rules \cup {NoRule}] /\ seen \in [Threads -> Nat]
  /\ granted \in [Texts \X Slots \X Generations -> Nat]
  /\ recorded \in [Texts \X Slots \X Generations -> Nat]
  /\ caught \in BOOLEAN /\ reloads \in Nat /\ forks \in Nat /\ calls \in Nat

(* Every load and every fork outdates a slot at most once.                 *)
BoundInv ==
  /\ reloads <= MaxReloads /\ forks <= setting.forks
  /\ \A s \in Slots : generation[s] + (IF phase = "assigning" THEN 1 ELSE 0) <= 1 + reloads + forks

CallInv ==
  \A t \in Threads :
    /\ pc[t] # "idle" => copy[t] \in Rules
    /\ pc[t] \in {"load", "cas"} => copy[t].hit # NoSlot
    /\ pc[t] = "cas" => Grants(seen[t], copy[t])

HoldInv ==
  \A r \in Holders :
    /\ r.generation <= generation[r.hit]
    /\ r.generation = generation[r.hit] => r.hit \in used

NextInv ==
  /\ phase \in {"idle", "owed"} => next = <<>> /\ todo = <<>>
  /\ phase = "released" => todo = <<>>
  /\ \A r \in In(next) : Current(r)

(* Only a rule in force whose slot has been released is outdated; and in a *)
(* child caught by a release, until its own reload.                        *)
ActiveInv ==
  /\ phase = "idle" \/ (~caught /\ phase # "released") => \A r \in In(active) : Current(r)
  /\ ~caught /\ phase = "released" => \A r \in In(active) : r.hit \in HitsOf(next) => Current(r)
  /\ \A r, q \in In(active) : r.hit = q.hit => r.generation = q.generation

(* One snapshot's worth of slots for the active and one for the next.      *)
PoolInv ==
  /\ used \subseteq HitsOf(active) \cup HitsOf(next)
  /\ phase = "released" => used \subseteq HitsOf(next)
  /\ 2 * Len(active) <= setting.pool /\ 2 * (Len(next) + Len(todo)) <= setting.pool
  /\ \A r \in In(active) \cup In(next) : r.hit # NoSlot

FreshInv ==
  \A x \in Texts, s \in Slots, g \in Generations :
    g > generation[s] \/ (g = generation[s] /\ s \notin used) =>
      granted[<<x, s, g>>] = 0 /\ recorded[<<x, s, g>>] = 0

HitsInv ==
  \A x \in Texts, s \in Slots : recorded[<<x, s, generation[s]>>] <= count[s]

WordInv ==
  \A x \in Texts, s \in Slots, g \in Generations :
    /\ granted[<<x, s, g>>] <= First[x]
    /\ Tag(claimed[s]) = ClaimsNone(g) => granted[<<x, s, g>>] <= Claims(claimed[s])

TagInv ==
  \A r \in In(next) \cup (IF phase # "released" THEN In(active) ELSE {}) :
    Tag(claimed[r.hit]) = ClaimsNone(generation[r.hit])

KeyInv ==
  ~caught =>
    /\ \A r, q \in Holders : r.hit = q.hit /\ r.generation = q.generation => r.text = q.text
    /\ \A r, q \in In(active) : r.hit = q.hit => r.text = q.text

OwnInv ==
  ~caught => \A r \in Holders :
    Tag(claimed[r.hit]) = ClaimsNone(r.generation) => Claims(claimed[r.hit]) = granted[Key(r)]

KeptInv ==
  \A i \in DOMAIN next :
    KeptFrom(next[i].text) # {} => next[i].hit = active[Least(KeptFrom(next[i].text))].hit

(* Nothing is drawn on but the slot of a text's first rule.                *)
IsFirst(rules, i) == \A k \in 1 .. i - 1 : rules[k].text # rules[i].text
Dup(rules) ==
  \A i, j \in DOMAIN rules :
    IsFirst(rules, i) /\ rules[j].text = rules[i].text /\ Key(rules[j]) # Key(rules[i]) =>
      granted[Key(rules[j])] = 0 /\ \A t \in Threads : Key(copy[t]) # Key(rules[j])
DupInv == Dup(active) /\ Dup(next)

CaughtInv == caught => forks > 0

HitSlotsInv ==
  /\ TypeInv /\ BoundInv /\ CallInv /\ HoldInv /\ NextInv /\ ActiveInv /\ PoolInv
  /\ FreshInv /\ HitsInv /\ WordInv /\ TagInv /\ KeyInv /\ OwnInv /\ KeptInv /\ DupInv /\ CaughtInv

-----------------------------------------------------------------------------
(* The operators of the model.                                             *)

\* chaos_hits_assign takes the first slot, and the first rule, it comes to.
LEMMA LeastIsIn ==
  ASSUME NEW S, S \subseteq Nat, S # {}
  PROVE  Least(S) \in S /\ \A y \in S : Least(S) <= y
<1> DEFINE Less == OpToRel(<, Nat)
<1>1. \A y, x \in Nat : <<y, x>> \in Less <=> y < x
  BY Zenon DEF OpToRel
<1>2. IsWellFoundedOn(Less, Nat)
  BY NatLessThanWellFounded
<1> HIDE DEF Less
<1>3. PICK x \in S : \A y \in S : ~ (<<y, x>> \in Less)
  BY <1>2, WFMin
<1>4. \A y \in S : ~ (y < x)
  BY <1>1, <1>3
<1>5. \A y \in S : x <= y
  BY <1>4
<1> QED
  BY <1>3, <1>5 DEF Least

LEMMA Remainder ==
  ASSUME NEW w \in Nat, NEW S \in Nat, S > 0, NEW q \in Int, NEW n \in 0 .. S - 1, w = S * q + n
  PROVE  w % S = n
OBVIOUS

\* A claim word is its tag and its claims.
LEMMA WordIs ==
  ASSUME NEW w \in Nat, NEW q \in Int, NEW n \in 0 .. ClaimSpan - 1, w = ClaimSpan * q + n
  PROVE  Claims(w) = n /\ Tag(w) = ClaimSpan * q
<1>2. ClaimSpan \in Nat /\ ClaimSpan > 0
  BY ConstantsAssumption
<1>3. w % ClaimSpan = n
  BY <1>2, Remainder
<1>4. ClaimSpan * q \in Int
  BY <1>2
<1> QED
  BY <1>3, <1>4 DEF Claims, Tag

LEMMA WordParts ==
  ASSUME NEW w \in Nat
  PROVE  /\ Claims(w) \in 0 .. ClaimSpan - 1
         /\ \E q \in Int : Tag(w) = ClaimSpan * q
         /\ Tag(w) \in Int /\ w = Tag(w) + Claims(w)
<1>1. ClaimSpan \in Nat /\ ClaimSpan > 0
  BY ConstantsAssumption
<1>2. w % ClaimSpan \in 0 .. ClaimSpan - 1
  BY <1>1
<1>3. PICK q \in Int : q = w \div ClaimSpan
  BY <1>1
<1>4. \A S \in Int : S > 0 /\ q = w \div S => w - (w % S) = S * q
  OBVIOUS
<1>5. w - (w % ClaimSpan) = ClaimSpan * q
  BY <1>1, <1>3, <1>4
<1> QED
  BY <1>2, <1>5 DEF Tag, Claims

\* One more claim stays in the count's field.
LEMMA OneMoreClaim ==
  ASSUME NEW w \in Nat, Claims(w) # ClaimSpan - 1
  PROVE  Claims(w + 1) = Claims(w) + 1 /\ Tag(w + 1) = Tag(w)
<1>1. ClaimSpan \in Nat /\ ClaimSpan > 0
  BY ConstantsAssumption
<1>2. PICK q \in Int : Tag(w) = ClaimSpan * q
  BY WordParts
<1>3. Claims(w) \in 0 .. ClaimSpan - 1 /\ w = ClaimSpan * q + Claims(w) /\ ClaimSpan * q \in Int
  BY <1>2, WordParts
<1>4. Claims(w) + 1 \in 0 .. ClaimSpan - 1 /\ w + 1 = ClaimSpan * q + (Claims(w) + 1)
  BY <1>1, <1>3
<1>5. Claims(w + 1) = Claims(w) + 1 /\ Tag(w + 1) = ClaimSpan * q
  BY <1>4, WordIs
<1> QED
  BY <1>2, <1>5

LEMMA NoClaims ==
  ASSUME NEW g \in Nat
  PROVE  ClaimsNone(g) \in Nat /\ Claims(ClaimsNone(g)) = 0 /\ Tag(ClaimsNone(g)) = ClaimsNone(g)
<1>1. ClaimSpan \in Nat /\ ClaimSpan > 0
  BY ConstantsAssumption
<1>2. ClaimsNone(g) \in Nat /\ ClaimsNone(g) = ClaimSpan * g
  BY <1>1 DEF ClaimsNone
<1>3. 0 \in 0 .. ClaimSpan - 1 /\ ClaimsNone(g) = ClaimSpan * g + 0
  BY <1>1, <1>2
<1> QED
  BY <1>2, <1>3, WordIs

LEMMA TagsDiffer ==
  ASSUME NEW g \in Nat, NEW h \in Nat, ClaimsNone(g) = ClaimsNone(h)
  PROVE  g = h
<1>1. \A S \in Nat : S > 0 /\ g * S = h * S => g = h
  OBVIOUS
<1> QED
  BY <1>1, ConstantsAssumption DEF ClaimsNone

LEMMA Stored ==
  ASSUME NEW D, NEW f \in [D -> Nat], NEW k, NEW v \in Nat
  PROVE  [f EXCEPT ![k] = v] \in [D -> Nat]
OBVIOUS

LEMMA Incremented ==
  ASSUME NEW D, NEW f \in [D -> Nat], NEW k
  PROVE  [f EXCEPT ![k] = @ + 1] \in [D -> Nat]
<1>1. CASE k \in D
  BY <1>1
<1>2. CASE k \notin D
  <2>1. [f EXCEPT ![k] = f[k] + 1] = f
    BY <1>2
  <2> QED
    BY <2>1
<1> QED
  BY <1>1, <1>2

LEMMA InAppend ==
  ASSUME NEW rules \in Seq(Rules), NEW r \in Rules
  PROVE  /\ Append(rules, r) \in Seq(Rules)
         /\ In(Append(rules, r)) = In(rules) \cup {r}
         /\ Len(Append(rules, r)) = Len(rules) + 1
         /\ DOMAIN Append(rules, r) = 1 .. Len(rules) + 1
         /\ Append(rules, r)[Len(rules) + 1] = r
         /\ \A i \in 1 .. Len(rules) : Append(rules, r)[i] = rules[i]
<1> DEFINE more == Append(rules, r)
<1>1. /\ more \in Seq(Rules) /\ Len(more) = Len(rules) + 1
      /\ DOMAIN more = 1 .. Len(rules) + 1
      /\ more[Len(rules) + 1] = r
      /\ \A i \in 1 .. Len(rules) : more[i] = rules[i]
  OBVIOUS
<1>2. DOMAIN rules = 1 .. Len(rules) /\ Len(rules) \in Nat
  OBVIOUS
<1> HIDE DEF more
<1>3. \A i \in DOMAIN more : i = Len(rules) + 1 \/ i \in DOMAIN rules
  BY <1>1, <1>2
<1>4. \A i \in DOMAIN rules : i \in DOMAIN more /\ more[i] = rules[i]
  BY <1>1, <1>2
<1>5. Len(rules) + 1 \in DOMAIN more
  BY <1>1, <1>2
<1>6. In(more) \subseteq In(rules) \cup {r}
  BY <1>1, <1>3, <1>4 DEF In
<1>7. In(rules) \cup {r} \subseteq In(more)
  BY <1>1, <1>4, <1>5 DEF In
<1> QED
  BY <1>1, <1>6, <1>7 DEF more

LEMMA InRules ==
  ASSUME NEW rules \in Seq(Rules)
  PROVE  /\ In(rules) \subseteq Rules
         /\ DOMAIN rules = 1 .. Len(rules) /\ Len(rules) \in Nat
         /\ \A i \in DOMAIN rules : rules[i] \in Rules /\ rules[i] \in In(rules)
         /\ HitsOf(rules) = {r.hit : r \in In(rules)} \ {NoSlot}
<1>1. /\ DOMAIN rules = 1 .. Len(rules) /\ Len(rules) \in Nat
      /\ \A i \in DOMAIN rules : rules[i] \in Rules
  OBVIOUS
<1> QED
  BY <1>1 DEF In, HitsOf

\* chaos_io_config_select_rule takes the first of the rules with one text.
LEMMA SelectableAreFirst ==
  ASSUME NEW rules \in Seq(Rules)
  PROVE  Selectable(rules) = {rules[i] : i \in {j \in DOMAIN rules : IsFirst(rules, j)}}
<1>1. ASSUME NEW j \in DOMAIN rules
      PROVE  rules[j].text \notin TextsOf(SubSeq(rules, 1, j - 1)) <=> IsFirst(rules, j)
  <2> DEFINE before == SubSeq(rules, 1, j - 1)
  <2>1. j \in 1 .. Len(rules) /\ Len(rules) \in Nat
    BY InRules
  <2>2. DOMAIN before = 1 .. j - 1 /\ \A k \in 1 .. j - 1 : before[k] = rules[k]
    BY <2>1
  <2> HIDE DEF before
  <2>3. TextsOf(before) = {rules[k].text : k \in 1 .. j - 1}
    BY <2>2 DEF TextsOf
  <2> QED
    BY <2>3 DEF before, IsFirst
<1> QED
  BY <1>1 DEF Selectable

LEMMA HitsAreFew ==
  ASSUME NEW rules \in Seq(Rules)
  PROVE  IsFiniteSet(HitsOf(rules)) /\ Cardinality(HitsOf(rules)) <= Len(rules)
<1> DEFINE dom == 1 .. Len(rules)
           all == {rules[i].hit : i \in dom}
           f == [i \in dom |-> rules[i].hit]
<1>1. DOMAIN rules = dom /\ Len(rules) \in Nat
  OBVIOUS
<1>2. IsFiniteSet(dom) /\ Cardinality(dom) = Len(rules)
  BY <1>1, FS_Interval
<1>3. f \in Surjection(dom, all)
  BY DEF Surjection
<1> HIDE DEF f, all, dom
<1>4. IsFiniteSet(all) /\ Cardinality(all) <= Len(rules)
  BY <1>2, <1>3, FS_Surjection
<1>5. HitsOf(rules) \subseteq all
  BY <1>1 DEF HitsOf, all
<1>6. IsFiniteSet(HitsOf(rules)) /\ Cardinality(HitsOf(rules)) <= Cardinality(all)
  BY <1>4, <1>5, FS_Subset
<1>7. Cardinality(HitsOf(rules)) \in Nat /\ Cardinality(all) \in Nat
  BY <1>4, <1>6, FS_CardinalityType
<1> QED
  BY <1>1, <1>4, <1>6, <1>7

\* chaos_hits.h:212: the pool is as large as two snapshots.
LEMMA SomeAreFree ==
  ASSUME NEW S, NEW A \in Seq(Rules), NEW B \in Seq(Rules), NEW n \in Nat,
         S \subseteq HitsOf(A) \cup HitsOf(B), Len(A) + Len(B) < n
  PROVE  1 .. n \ S # {}
<1> DEFINE both == HitsOf(A) \cup HitsOf(B)
<1>1. IsFiniteSet(both) /\ Cardinality(both) <= Len(A) + Len(B)
  <2>1. /\ IsFiniteSet(HitsOf(A)) /\ Cardinality(HitsOf(A)) <= Len(A)
        /\ IsFiniteSet(HitsOf(B)) /\ Cardinality(HitsOf(B)) <= Len(B)
    BY HitsAreFew
  <2>2. /\ IsFiniteSet(both)
        /\ Cardinality(both) =
             Cardinality(HitsOf(A)) + Cardinality(HitsOf(B)) - Cardinality(HitsOf(A) \cap HitsOf(B))
    BY <2>1, FS_Union
  <2>3. IsFiniteSet(HitsOf(A) \cap HitsOf(B))
    BY <2>1, FS_Subset
  <2>4. /\ Cardinality(HitsOf(A)) \in Nat /\ Cardinality(HitsOf(B)) \in Nat
        /\ Cardinality(HitsOf(A) \cap HitsOf(B)) \in Nat
    BY <2>1, <2>3, FS_CardinalityType
  <2> QED
    BY <2>1, <2>2, <2>4
<1>2. IsFiniteSet(1 .. n) /\ Cardinality(1 .. n) = n
  BY FS_Interval
<1> HIDE DEF both
<1>3. SUFFICES ASSUME 1 .. n \subseteq both PROVE FALSE
  BY DEF both
<1>4. n <= Cardinality(both)
  BY <1>1, <1>2, <1>3, FS_Subset
<1>5. Cardinality(both) \in Nat
  BY <1>1, FS_CardinalityType
<1> QED
  BY <1>1, <1>4, <1>5

-----------------------------------------------------------------------------
(* The operations, in the terms of the invariant.                          *)

\* The pool and the files of this process.
LEMMA SettingIs ==
  ASSUME TypeInv
  PROVE  /\ setting.pool \in 0 .. PoolSize /\ PoolSize \in Nat
         /\ setting.forks \in 0 .. MaxForks /\ MaxForks \in Nat /\ MaxReloads \in Nat
         /\ \A texts \in setting.files : texts \in Seq(Texts) /\ 2 * Len(texts) <= setting.pool
         /\ First \in [Texts -> Nat]
<1>1. setting \in Settings
  BY DEF TypeInv
<1>2. setting \in [files : SUBSET Seq(Texts), pool : 0 .. PoolSize, forks : 0 .. MaxForks]
  BY <1>1, ConstantsAssumption
<1>3. \A texts \in setting.files : 2 * Len(texts) <= setting.pool
  BY <1>1, ConstantsAssumption
<1> QED
  BY <1>2, <1>3, ConstantsAssumption

\* The slot a rule of this text gets is that of the first such rule in force,
\* or one that is not in use.
LEMMA SlotIs ==
  ASSUME TypeInv, PoolInv, phase = "assigning", todo # <<>>, NEW x \in Texts
  PROVE  /\ SlotFor(x) \in Slots
         /\ KeptFrom(x) # {} =>
              /\ Least(KeptFrom(x)) \in KeptFrom(x)
              /\ SlotFor(x) = active[Least(KeptFrom(x))].hit
         /\ KeptFrom(x) = {} => SlotFor(x) \notin used
<1>1. active \in Seq(Rules) /\ next \in Seq(Rules) /\ todo \in Seq(Texts)
  BY DEF TypeInv
<1>2. CASE KeptFrom(x) # {}
  <2>1. KeptFrom(x) \subseteq Nat
    BY <1>1, InRules DEF KeptFrom
  <2>2. Least(KeptFrom(x)) \in KeptFrom(x)
    BY <1>2, <2>1, LeastIsIn
  <2>3. active[Least(KeptFrom(x))] \in Rules /\ active[Least(KeptFrom(x))].hit # NoSlot
    BY <1>1, <2>2, InRules DEF KeptFrom
  <2>4. SlotFor(x) = active[Least(KeptFrom(x))].hit
    BY <1>2 DEF SlotFor
  <2> QED
    BY <1>2, <2>2, <2>3, <2>4 DEF Rules
<1>3. CASE KeptFrom(x) = {}
  <2>1. Len(todo) >= 1 /\ Len(todo) \in Nat /\ Len(active) \in Nat /\ Len(next) \in Nat
    BY <1>1
  <2>2. setting.pool \in Nat /\ setting.pool <= PoolSize
    BY SettingIs
  <2>3. Len(active) + Len(next) < setting.pool
    BY <2>1, <2>2 DEF PoolInv
  <2>4. used \subseteq HitsOf(active) \cup HitsOf(next)
    BY DEF PoolInv
  <2>5. Free # {}
    BY <1>1, <2>2, <2>3, <2>4, SomeAreFree DEF Free
  <2>6. Free \subseteq Nat /\ Free \subseteq Slots /\ Free \cap used = {}
    BY <2>2, SettingIs DEF Free, Slots
  <2>7. Least(Free) \in Free
    BY <2>5, <2>6, LeastIsIn
  <2> QED
    BY <1>3, <2>5, <2>6, <2>7 DEF SlotFor
<1> QED
  BY <1>2, <1>3

\* One round of chaos_hits_assign.
LEMMA Assigned ==
  ASSUME TypeInv, PoolInv, AssignHit
  PROVE  \E x \in Texts, s \in Slots, new \in Rules :
           /\ new.text = x /\ new.hit = s /\ new.generation = generation[s]
           /\ todo # <<>> /\ x = Head(todo) /\ next' = Append(next, new)
           /\ used' = used \cup {s}
           /\ KeptFrom(x) # {} => /\ Least(KeptFrom(x)) \in KeptFrom(x)
                                  /\ s = active[Least(KeptFrom(x))].hit
                                  /\ count' = count /\ claimed' = claimed
           /\ KeptFrom(x) = {} => /\ s \notin used
                                  /\ count' = [count EXCEPT ![s] = 0]
                                  /\ claimed' = [claimed EXCEPT ![s] = ClaimsNone(generation[s])]
<1>1. phase = "assigning" /\ todo # <<>>
  BY DEF AssignHit
<1>2. todo \in Seq(Texts) /\ count \in [Slots -> Nat] /\ claimed \in [Slots -> Nat]
      /\ generation \in [Slots -> Nat]
  BY DEF TypeInv
<1>3. PICK x \in Texts : x = Head(todo)
  BY <1>1, <1>2
<1>4. PICK s \in Slots : s = SlotFor(x)
  BY <1>1, SlotIs
<1>5. s # NoSlot
  BY DEF Slots, NoSlot
<1>6. PICK new : new = [text |-> x, hit |-> s, generation |-> generation[s]]
  OBVIOUS
<1>7. new \in Rules /\ new.text = x /\ new.hit = s /\ new.generation = generation[s]
  BY <1>2, <1>6 DEF Rules
<1>8. /\ next' = Append(next, new) /\ used' = used \cup {s}
      /\ count' = [u \in Slots |-> IF u \in Cleared(x, s) THEN 0 ELSE count[u]]
      /\ claimed' = [u \in Slots |-> IF u \in Cleared(x, s) THEN ClaimsNone(generation[u]) ELSE claimed[u]]
  BY <1>3, <1>4, <1>5, <1>6 DEF AssignHit
<1>9. ASSUME KeptFrom(x) # {}
      PROVE  /\ Least(KeptFrom(x)) \in KeptFrom(x)
             /\ s = active[Least(KeptFrom(x))].hit
             /\ count' = count /\ claimed' = claimed
  <2>1. Cleared(x, s) = {}
    BY <1>9 DEF Cleared
  <2>2. count' = [u \in Slots |-> count[u]] /\ claimed' = [u \in Slots |-> claimed[u]]
    BY <1>8, <2>1
  <2> QED
    BY <1>1, <1>2, <1>4, <1>9, <2>2, SlotIs
<1>10. ASSUME KeptFrom(x) = {}
       PROVE  /\ s \notin used
              /\ count' = [count EXCEPT ![s] = 0]
              /\ claimed' = [claimed EXCEPT ![s] = ClaimsNone(generation[s])]
  <2>1. Cleared(x, s) = {s}
    BY <1>5, <1>10 DEF Cleared
  <2>2. /\ count' = [u \in Slots |-> IF u = s THEN 0 ELSE count[u]]
        /\ claimed' = [u \in Slots |-> IF u = s THEN ClaimsNone(generation[u]) ELSE claimed[u]]
    BY <1>8, <2>1
  <2> QED
    BY <1>1, <1>2, <1>4, <1>10, <2>2, SlotIs
<1> QED
  BY <1>1, <1>3, <1>7, <1>8, <1>9, <1>10

\* A caller copies the first rule with its text, from the active snapshot or,
\* with a stale index, from the one about to be published.
LEMMA Copied ==
  ASSUME TypeInv, NEW t \in Threads, CopyRule(t)
  PROVE  \E rules \in {active, next} : \E i \in DOMAIN rules :
           /\ rules = active \/ phase = "released"
           /\ IsFirst(rules, i) /\ rules[i] \in Rules /\ rules[i] \in In(rules)
           /\ copy' = [copy EXCEPT ![t] = rules[i]]
<1>1. active \in Seq(Rules) /\ next \in Seq(Rules)
  BY DEF TypeInv
<1>2. PICK rules \in {active} \cup (IF phase = "released" THEN {next} ELSE {}) :
        \E r \in Selectable(rules) : copy' = [copy EXCEPT ![t] = r]
  BY DEF CopyRule
<1>3. rules \in Seq(Rules) /\ rules \in {active, next} /\ (rules = active \/ phase = "released")
  BY <1>1, <1>2
<1>4. PICK r \in Selectable(rules) : copy' = [copy EXCEPT ![t] = r]
  BY <1>2
<1>5. PICK i \in DOMAIN rules : IsFirst(rules, i) /\ r = rules[i]
  BY <1>3, SelectableAreFirst
<1>6. rules[i] \in Rules /\ rules[i] \in In(rules)
  BY <1>3, InRules
<1> QED
  BY <1>3, <1>4, <1>5, <1>6

\* chaos_hits_release leaves the slots of the kept rules in use, and outdates
\* every other that was.
LEMMA ReleasedIs ==
  ASSUME TypeInv, NEW kept \in Seq(Rules)
  PROVE  /\ Outdated(kept) \in [Slots -> Nat]
         /\ used \ Released(kept) = used \cap HitsOf(kept)
         /\ \A s \in Slots : Outdated(kept)[s] =
              IF s \in used /\ s \notin HitsOf(kept) THEN generation[s] + 1 ELSE generation[s]
         /\ \A s \in Slots : Outdated(kept)[s] \in generation[s] .. generation[s] + 1
<1>1. generation \in [Slots -> Nat] /\ used \subseteq Slots
  BY DEF TypeInv
<1>2. \A s \in Slots : Outdated(kept)[s] =
        IF s \in used /\ s \notin HitsOf(kept) THEN generation[s] + 1 ELSE generation[s]
  BY <1>1 DEF Outdated, Released
<1>3. \A s \in Slots : Outdated(kept)[s] \in generation[s] .. generation[s] + 1
  BY <1>1, <1>2
<1>4. Outdated(kept) \in [Slots -> Nat]
  BY <1>1 DEF Outdated
<1>5. used \ Released(kept) = used \cap HitsOf(kept)
  BY DEF Released
<1> QED
  BY <1>2, <1>3, <1>4, <1>5

LEMMA Cases ==
  ASSUME [Next]_vars
  PROVE  \/ \E texts \in setting.files : AttachHits(texts)
         \/ AssignHit \/ ReleaseHits \/ Publish
         \/ \E t \in Threads : CopyRule(t) \/ CheckGeneration(t) \/ LoadClaimed(t)
                                 \/ SwapClaimed(t) \/ RecordHit(t) \/ Fork(t)
         \/ UNCHANGED vars
BY DEF Next

LEMMA Dropped ==
  ASSUME TypeInv, NEW t \in Threads, Drop(t)
  PROVE  /\ pc' \in [Threads -> {"idle", "check", "load", "cas", "record"}]
         /\ copy' \in [Threads -> Rules \cup {NoRule}] /\ seen' \in [Threads -> Nat]
         /\ copy' = [copy EXCEPT ![t] = NoRule]
         /\ pc' = [pc EXCEPT ![t] = "idle"] /\ seen' = [seen EXCEPT ![t] = 0]
BY DEF TypeInv, Drop

-----------------------------------------------------------------------------
(* Types.                                                                  *)

LEMMA InitType ==
  ASSUME Init
  PROVE  TypeInv
<1>1. count \in [Slots -> Nat] /\ generation \in [Slots -> Nat] /\ used \subseteq Slots
  BY DEF Init
<1>2. claimed \in [Slots -> Nat]
  BY NoClaims DEF Init
<1>3. granted \in [Texts \X Slots \X Generations -> Nat] /\ recorded = granted
  BY DEF Init, Zero
<1>4. /\ pc \in [Threads -> {"idle", "check", "load", "cas", "record"}]
      /\ copy \in [Threads -> Rules \cup {NoRule}] /\ seen \in [Threads -> Nat]
  BY DEF Init
<1>5. active \in Seq(Rules) /\ next \in Seq(Rules) /\ todo \in Seq(Texts)
  BY DEF Init
<1> QED
  BY <1>1, <1>2, <1>3, <1>4, <1>5 DEF Init, TypeInv

LEMMA StepType ==
  ASSUME TypeInv, CallInv, PoolInv, [Next]_vars
  PROVE  TypeInv'
<1>1. ASSUME NEW texts \in setting.files, AttachHits(texts)
      PROVE  TypeInv'
  <2>1. texts \in Seq(Texts)
    BY SettingIs
  <2> QED
    BY <1>1, <2>1 DEF TypeInv, AttachHits, slots, callers, history
<1>2. CASE AssignHit
  <2>1. PICK x \in Texts, s \in Slots, new \in Rules :
           /\ todo # <<>> /\ next' = Append(next, new)
           /\ used' = used \cup {s}
           /\ KeptFrom(x) # {} => count' = count /\ claimed' = claimed
           /\ KeptFrom(x) = {} => /\ count' = [count EXCEPT ![s] = 0]
                                  /\ claimed' = [claimed EXCEPT ![s] = ClaimsNone(generation[s])]
    BY <1>2, Assigned
  <2>2. next' \in Seq(Rules)
    BY <2>1, InAppend DEF TypeInv
  <2>3. todo' \in Seq(Texts)
    BY <1>2, <2>1 DEF AssignHit, TypeInv
  <2>4. generation[s] \in Nat
    BY DEF TypeInv
  <2>5. ClaimsNone(generation[s]) \in Nat
    BY <2>4, NoClaims
  <2>6. count' \in [Slots -> Nat] /\ claimed' \in [Slots -> Nat]
    <3>1. count \in [Slots -> Nat] /\ claimed \in [Slots -> Nat]
      BY DEF TypeInv
    <3>2. CASE KeptFrom(x) # {}
      BY <2>1, <3>1, <3>2
    <3>3. CASE KeptFrom(x) = {}
      <4>1. [count EXCEPT ![s] = 0] \in [Slots -> Nat]
        BY <3>1, Stored
      <4>2. [claimed EXCEPT ![s] = ClaimsNone(generation[s])] \in [Slots -> Nat]
        BY <2>5, <3>1, Stored
      <4> QED
        BY <2>1, <3>3, <4>1, <4>2
    <3> QED
      BY <3>2, <3>3
  <2>8. used' \subseteq Slots
    BY <2>1 DEF TypeInv
  <2> QED
    BY <1>2, <2>2, <2>3, <2>6, <2>8 DEF AssignHit, TypeInv, callers, history
<1>3. CASE ReleaseHits
  <2>1. Outdated(next) \in [Slots -> Nat] /\ used \ Released(next) \subseteq Slots
    BY ReleasedIs DEF TypeInv
  <2> QED
    BY <1>3, <2>1 DEF ReleaseHits, TypeInv, callers, history
<1>4. CASE Publish
  <2>1. <<>> \in Seq(Rules)
    OBVIOUS
  <2> QED
    BY <1>4, <2>1 DEF Publish, TypeInv, slots, callers, history
<1>5. ASSUME NEW t \in Threads, CopyRule(t)
      PROVE  TypeInv'
  <2>1. PICK r \in Rules : copy' = [copy EXCEPT ![t] = r]
    BY <1>5, Copied
  <2>2. copy' \in [Threads -> Rules \cup {NoRule}]
    BY <2>1 DEF TypeInv
  <2> QED
    BY <1>5, <2>2 DEF CopyRule, TypeInv, slots, history
<1>6. ASSUME NEW t \in Threads, CheckGeneration(t)
      PROVE  TypeInv'
  <2>1. CASE Drop(t)
    BY <1>6, <2>1, Dropped DEF CheckGeneration, TypeInv, slots, history
  <2>2. CASE UNCHANGED <<copy, seen>>
                /\ pc' = [pc EXCEPT ![t] = IF Limited(copy[t]) THEN "load" ELSE "record"]
    BY <1>6, <2>2 DEF CheckGeneration, TypeInv, slots, history
  <2> QED
    BY <1>6, <2>1, <2>2 DEF CheckGeneration
<1>7. ASSUME NEW t \in Threads, LoadClaimed(t)
      PROVE  TypeInv'
  <2>1. CASE Drop(t)
    BY <1>7, <2>1, Dropped DEF LoadClaimed, TypeInv, slots, history
  <2>2. CASE /\ UNCHANGED copy /\ pc' = [pc EXCEPT ![t] = "cas"]
             /\ seen' = [seen EXCEPT ![t] = claimed[copy[t].hit]]
    <3>1. copy[t] \in Rules /\ copy[t].hit # NoSlot
      BY <1>7 DEF LoadClaimed, CallInv
    <3>2. claimed[copy[t].hit] \in Nat
      BY <3>1 DEF TypeInv, Rules
    <3>3. seen' \in [Threads -> Nat] /\ pc' \in [Threads -> {"idle", "check", "load", "cas", "record"}]
      BY <2>2, <3>2 DEF TypeInv
    <3> QED
      BY <1>7, <2>2, <3>3 DEF LoadClaimed, TypeInv, slots, history
  <2> QED
    BY <1>7, <2>1, <2>2 DEF LoadClaimed
<1>8. ASSUME NEW t \in Threads, SwapClaimed(t)
      PROVE  TypeInv'
  <2>1. CASE UNCHANGED <<claimed, granted>> /\ pc' = [pc EXCEPT ![t] = "load"]
    BY <1>8, <2>1 DEF SwapClaimed, TypeInv
  <2>2. CASE /\ claimed' = [claimed EXCEPT ![copy[t].hit] = seen[t] + 1]
             /\ granted' = [granted EXCEPT ![Key(copy[t])] = @ + 1]
             /\ pc' = [pc EXCEPT ![t] = "record"]
    <3>1. seen[t] + 1 \in Nat
      BY DEF TypeInv
    <3>4. claimed' \in [Slots -> Nat]
      BY <2>2, <3>1, Stored DEF TypeInv
    <3>2. granted' \in [Texts \X Slots \X Generations -> Nat]
      BY <2>2, Incremented DEF TypeInv
    <3>3. pc' \in [Threads -> {"idle", "check", "load", "cas", "record"}]
      BY <2>2 DEF TypeInv
    <3> QED
      BY <1>8, <3>2, <3>3, <3>4 DEF SwapClaimed, TypeInv
  <2> QED
    BY <1>8, <2>1, <2>2 DEF SwapClaimed
<1>9. ASSUME NEW t \in Threads, RecordHit(t)
      PROVE  TypeInv'
  <2>1. Drop(t)
    BY <1>9 DEF RecordHit
  <2>2. CASE UNCHANGED <<count, recorded>>
    BY <1>9, <2>1, <2>2, Dropped DEF RecordHit, TypeInv
  <2>3. CASE /\ count' = [count EXCEPT ![copy[t].hit] = @ + 1]
             /\ recorded' = [recorded EXCEPT ![Key(copy[t])] = @ + 1]
    <3>1. count' \in [Slots -> Nat]
      BY <2>3, Incremented DEF TypeInv
    <3>2. recorded' \in [Texts \X Slots \X Generations -> Nat]
      BY <2>3, Incremented DEF TypeInv
    <3> QED
      BY <1>9, <2>1, <3>1, <3>2, Dropped DEF RecordHit, TypeInv
  <2> QED
    BY <1>9, <2>2, <2>3 DEF RecordHit
<1>10. ASSUME NEW t \in Threads, Fork(t)
       PROVE  TypeInv'
  <2>1. Outdated(active) \in [Slots -> Nat] /\ used \ ForkFrees \subseteq Slots
    BY ReleasedIs DEF TypeInv, ForkFrees
  <2>2. ClaimsAfterFork(Outdated(active)) \in [Slots -> Nat]
    BY <2>1, NoClaims DEF ClaimsAfterFork
  <2>3. Zero \in [Texts \X Slots \X Generations -> Nat]
    BY DEF Zero
  <2>4. /\ count' \in [Slots -> Nat] /\ claimed' \in [Slots -> Nat]
        /\ generation' \in [Slots -> Nat] /\ used' \subseteq Slots
    BY <1>10, <2>1, <2>2 DEF Fork
  <2>5. /\ granted' \in [Texts \X Slots \X Generations -> Nat]
        /\ recorded' \in [Texts \X Slots \X Generations -> Nat]
    BY <1>10, <2>3 DEF Fork
  <2>6. /\ pc' \in [Threads -> {"idle", "check", "load", "cas", "record"}]
        /\ copy' \in [Threads -> Rules \cup {NoRule}] /\ seen' \in [Threads -> Nat]
    BY <1>10 DEF Fork
  <2>7. active' \in Seq(Rules) /\ next' \in Seq(Rules) /\ todo' \in Seq(Texts)
    BY <1>10 DEF Fork, TypeInv
  <2>8. /\ phase' \in {"idle", "assigning", "released", "owed"} /\ setting' \in Settings
        /\ caught' \in BOOLEAN /\ reloads' \in Nat /\ forks' \in Nat /\ calls' \in Nat
    BY <1>10 DEF Fork, TypeInv
  <2> QED
    BY <2>4, <2>5, <2>6, <2>7, <2>8 DEF TypeInv
<1>11. CASE UNCHANGED vars
  BY <1>11 DEF TypeInv, vars, slots, callers, history
<1> QED
  BY <1>1, <1>2, <1>3, <1>4, <1>5, <1>6, <1>7, <1>8, <1>9, <1>10, <1>11, Cases

-----------------------------------------------------------------------------
(* The holders of slots: only chaos_hits_assign makes new ones.            *)

LEMMA HoldersAre ==
  ASSUME TypeInv
  PROVE  \A r \in Holders : r \in Rules /\ r.hit \in Slots /\ r.generation \in Nat /\ r.text \in Texts
<1>1. In(active) \subseteq Rules /\ In(next) \subseteq Rules
  BY InRules DEF TypeInv
<1>2. \A r \in Copies : r \in Rules \/ r.hit = NoSlot
  <2>1. NoRule.hit = NoSlot
    BY DEF NoRule
  <2>2. \A t \in Threads : copy[t] \in Rules \/ copy[t] = NoRule
    BY DEF TypeInv
  <2> QED
    BY <2>1, <2>2 DEF Copies
<1>3. \A r \in Holders : r \in Rules /\ r.hit # NoSlot
  BY <1>1, <1>2 DEF Holders
<1> QED
  BY <1>3 DEF Rules

LEMMA HoldersGrow ==
  ASSUME TypeInv, AssignHit, NEW new \in Rules, next' = Append(next, new)
  PROVE  /\ Holders' \subseteq Holders \cup {new}
         /\ In(next') = In(next) \cup {new}
<1>1. In(next') = In(next) \cup {new}
  BY InAppend DEF TypeInv
<1>2. active' = active /\ copy' = copy
  BY DEF AssignHit, callers
<1>3. In(active)' = In(active) /\ Copies' = Copies
  BY <1>2 DEF In, Copies
<1>4. In(next)' = In(next')
  BY DEF In
<1> QED
  BY <1>1, <1>3, <1>4 DEF Holders

LEMMA HoldersStay ==
  ASSUME TypeInv, [Next]_vars, ~ AssignHit
  PROVE  Holders' \subseteq Holders
<1>1. ASSUME UNCHANGED <<active, next, copy>>
      PROVE  Holders' \subseteq Holders
  <2>1. In(active)' = In(active) /\ In(next)' = In(next) /\ Copies' = Copies
    BY <1>1 DEF In, Copies
  <2> QED
    BY <2>1 DEF Holders
<1>2. ASSUME NEW t \in Threads, NEW r, r \in In(active) \cup In(next) \/ r.hit = NoSlot,
             UNCHANGED <<active, next>>, copy' = [copy EXCEPT ![t] = r]
      PROVE  Holders' \subseteq Holders
  <2>1. In(active)' = In(active) /\ In(next)' = In(next)
    BY <1>2 DEF In
  <2>2. Copies' \subseteq Copies \cup {r}
    BY <1>2 DEF Copies, TypeInv
  <2> QED
    BY <1>2, <2>1, <2>2 DEF Holders
<1>3. NoRule.hit = NoSlot
  BY DEF NoRule
<1>4. In(<<>>) = {}
  BY DEF In
<1>5. ASSUME NEW texts \in setting.files, AttachHits(texts)
      PROVE  Holders' \subseteq Holders
  BY <1>1, <1>5 DEF AttachHits, callers
<1>6. CASE ReleaseHits
  BY <1>1, <1>6 DEF ReleaseHits, callers
<1>7. CASE Publish
  <2>1. active' = next /\ next' = <<>> /\ copy' = copy
    BY <1>7 DEF Publish, callers
  <2>2. In(active)' = In(next) /\ In(next)' = {} /\ Copies' = Copies
    BY <1>4, <2>1 DEF In, Copies
  <2> QED
    BY <2>2 DEF Holders
<1>8. ASSUME NEW t \in Threads, CopyRule(t)
      PROVE  Holders' \subseteq Holders
  <2>1. PICK r : r \in In(active) \cup In(next) /\ copy' = [copy EXCEPT ![t] = r]
    BY <1>8, Copied
  <2>2. UNCHANGED <<active, next>>
    BY <1>8 DEF CopyRule
  <2> QED
    BY <1>2, <2>1, <2>2
<1>9. ASSUME NEW t \in Threads, CheckGeneration(t) \/ LoadClaimed(t) \/ RecordHit(t)
      PROVE  Holders' \subseteq Holders
  <2>1. UNCHANGED <<active, next>> /\ (UNCHANGED copy \/ Drop(t))
    BY <1>9 DEF CheckGeneration, LoadClaimed, RecordHit
  <2>2. CASE UNCHANGED copy
    BY <1>1, <2>1, <2>2
  <2>3. CASE Drop(t)
    BY <1>2, <1>3, <2>1, <2>3 DEF Drop
  <2> QED
    BY <2>1, <2>2, <2>3
<1>10. ASSUME NEW t \in Threads, SwapClaimed(t)
       PROVE  Holders' \subseteq Holders
  BY <1>1, <1>10 DEF SwapClaimed
<1>11. ASSUME NEW t \in Threads, Fork(t)
       PROVE  Holders' \subseteq Holders
  <2>1. active' = active /\ next' = <<>> /\ copy' = [u \in Threads |-> NoRule]
    BY <1>11 DEF Fork
  <2>2. In(active)' = In(active) /\ In(next)' = {}
    BY <1>4, <2>1 DEF In
  <2>3. Copies' \subseteq {NoRule}
    BY <2>1 DEF Copies
  <2> QED
    BY <1>3, <2>2, <2>3 DEF Holders
<1>12. CASE UNCHANGED vars
  BY <1>1, <1>12 DEF vars, callers
<1> QED
  BY <1>5, <1>6, <1>7, <1>8, <1>9, <1>10, <1>11, <1>12, Cases

\* A caller touches its own state and the counts of its slot.
LEMMA CallersLeave ==
  ASSUME NEW t \in Threads,
         CopyRule(t) \/ CheckGeneration(t) \/ LoadClaimed(t) \/ SwapClaimed(t) \/ RecordHit(t)
  PROVE  UNCHANGED <<generation, used, active, next, todo, phase, caught, setting, reloads, forks>>
<1>1. CASE CopyRule(t)
  BY <1>1 DEF CopyRule, slots, history
<1>2. CASE CheckGeneration(t)
  BY <1>2 DEF CheckGeneration, slots, history
<1>3. CASE LoadClaimed(t)
  BY <1>3 DEF LoadClaimed, slots, history
<1>4. CASE SwapClaimed(t)
  BY <1>4 DEF SwapClaimed
<1>5. CASE RecordHit(t)
  BY <1>5 DEF RecordHit
<1> QED
  BY <1>1, <1>2, <1>3, <1>4, <1>5

LEMMA CasesShort ==
  ASSUME [Next]_vars
  PROVE  \/ \E texts \in setting.files : AttachHits(texts)
         \/ AssignHit \/ ReleaseHits \/ Publish
         \/ \E t \in Threads : Fork(t)
         \/ UNCHANGED <<generation, used, active, next, todo, phase, caught, setting, reloads, forks>>
<1>1. CASE UNCHANGED vars
  BY <1>1 DEF vars, slots, history
<1> QED
  BY <1>1, Cases, CallersLeave

-----------------------------------------------------------------------------
(* Slots: who holds them, and how many there are.                          *)

LEMMA StepBound ==
  ASSUME TypeInv, BoundInv, [Next]_vars
  PROVE  BoundInv'
<1>1. /\ MaxReloads \in Nat /\ setting.forks \in Nat /\ reloads \in Nat /\ forks \in Nat
      /\ generation \in [Slots -> Nat]
  BY SettingIs DEF TypeInv
<1>2. ASSUME NEW texts \in setting.files, AttachHits(texts)
      PROVE  BoundInv'
  <2>1. /\ phase # "assigning" /\ phase' = "assigning" /\ reloads < MaxReloads /\ reloads' = reloads + 1
        /\ UNCHANGED <<generation, forks, setting>>
    BY <1>2 DEF AttachHits, slots
  <2> QED
    BY <1>1, <2>1 DEF BoundInv
<1>3. CASE AssignHit
  BY <1>3 DEF AssignHit, BoundInv
<1>4. CASE ReleaseHits
  <2>1. /\ phase = "assigning" /\ phase' = "released" /\ generation' = Outdated(next)
        /\ UNCHANGED <<forks, setting, reloads>>
    BY <1>4 DEF ReleaseHits
  <2>2. \A s \in Slots : generation'[s] <= generation[s] + 1
    <3>1. next \in Seq(Rules)
      BY DEF TypeInv
    <3>2. \A s \in Slots : Outdated(next)[s] \in generation[s] .. generation[s] + 1
      BY <3>1, ReleasedIs
    <3> QED
      BY <1>1, <2>1, <3>2
  <2>3. generation' \in [Slots -> Nat]
    BY <2>1, ReleasedIs DEF TypeInv
  <2>4. reloads' <= MaxReloads /\ forks' <= setting'.forks
    BY <2>1 DEF BoundInv
  <2>5. \A s \in Slots : generation'[s] <= 1 + reloads + forks
    BY <1>1, <2>1, <2>2, <2>3 DEF BoundInv
  <2> QED
    BY <1>1, <2>1, <2>3, <2>4, <2>5 DEF BoundInv
<1>5. CASE Publish
  BY <1>5 DEF Publish, BoundInv, slots
<1>6. ASSUME NEW t \in Threads, Fork(t)
      PROVE  BoundInv'
  <2>1. /\ forks < setting.forks /\ forks' = forks + 1 /\ generation' = Outdated(active)
        /\ phase' # "assigning" /\ UNCHANGED <<setting, reloads>>
    BY <1>6 DEF Fork
  <2>2. \A s \in Slots : generation'[s] <= generation[s] + 1
    <3>1. active \in Seq(Rules)
      BY DEF TypeInv
    <3>2. \A s \in Slots : Outdated(active)[s] \in generation[s] .. generation[s] + 1
      BY <3>1, ReleasedIs
    <3> QED
      BY <1>1, <2>1, <3>2
  <2>3. generation' \in [Slots -> Nat]
    BY <2>1, ReleasedIs DEF TypeInv
  <2>4. reloads' <= MaxReloads /\ forks' <= setting'.forks
    BY <1>1, <2>1 DEF BoundInv
  <2>5. \A s \in Slots : generation[s] <= 1 + reloads + forks
    BY <1>1 DEF BoundInv
  <2>6. \A s \in Slots : generation'[s] <= 1 + reloads + forks'
    BY <1>1, <2>1, <2>2, <2>3, <2>5
  <2> QED
    BY <1>1, <2>1, <2>3, <2>4, <2>6 DEF BoundInv
<1>7. CASE UNCHANGED <<generation, used, active, next, todo, phase, caught, setting, reloads, forks>>
  BY <1>7 DEF BoundInv
<1> QED
  BY <1>2, <1>3, <1>4, <1>5, <1>6, <1>7, CasesShort

\* The generations of the model's slots are among those it keeps a history of.
LEMMA GenerationsCover ==
  ASSUME TypeInv, BoundInv
  PROVE  \A s \in Slots : generation[s] \in Generations
<1>1. /\ MaxReloads \in Nat /\ MaxForks \in Nat /\ setting.forks \in 0 .. MaxForks
      /\ reloads \in Nat /\ forks \in Nat /\ generation \in [Slots -> Nat]
  BY SettingIs DEF TypeInv
<1>2. \A s \in Slots : generation[s] <= 1 + reloads + forks
  BY <1>1 DEF BoundInv
<1> QED
  BY <1>1, <1>2 DEF BoundInv, Generations

LEMMA StepCall ==
  ASSUME TypeInv, CallInv, [Next]_vars
  PROVE  CallInv'
<1> DEFINE Fine(label, rule, word) ==
             /\ label # "idle" => rule \in Rules
             /\ label \in {"load", "cas"} => rule.hit # NoSlot
             /\ label = "cas" => Grants(word, rule)
<1>1. \A u \in Threads : Fine(pc[u], copy[u], seen[u])
  BY DEF CallInv
<1>2. SUFFICES ASSUME NEW u \in Threads PROVE Fine(pc'[u], copy'[u], seen'[u])
  BY DEF CallInv
<1>3. ASSUME UNCHANGED <<pc, copy, seen>>
      PROVE  Fine(pc'[u], copy'[u], seen'[u])
  BY <1>1, <1>3
<1>4. ASSUME pc'[u] = "idle"
      PROVE  Fine(pc'[u], copy'[u], seen'[u])
  BY <1>4
<1>5. ASSUME NEW t \in Threads, NEW l, NEW r, NEW w, t # u,
             pc' = [pc EXCEPT ![t] = l], copy' = [copy EXCEPT ![t] = r], seen' = [seen EXCEPT ![t] = w]
      PROVE  Fine(pc'[u], copy'[u], seen'[u])
  <2>1. pc'[u] = pc[u] /\ copy'[u] = copy[u] /\ seen'[u] = seen[u]
    BY <1>5 DEF TypeInv
  <2> QED
    BY <1>1, <2>1
<1> HIDE DEF Fine
<1>6. ASSUME NEW t \in Threads, Drop(t)
      PROVE  Fine(pc'[u], copy'[u], seen'[u])
  <2>1. CASE t = u
    <3>1. pc'[u] = "idle"
      BY <1>6, <2>1 DEF Drop, TypeInv
    <3> QED
      BY <1>4, <3>1
  <2>2. CASE t # u
    BY <1>5, <1>6, <2>2 DEF Drop
  <2> QED
    BY <2>1, <2>2
<1>7. ASSUME NEW t \in Threads, NEW l, pc' = [pc EXCEPT ![t] = l], UNCHANGED <<copy, seen>>,
             Fine(l, copy[t], seen[t])
      PROVE  Fine(pc'[u], copy'[u], seen'[u])
  <2>1. CASE t = u
    <3>1. pc'[u] = l
      BY <1>7, <2>1 DEF TypeInv
    <3> QED
      BY <1>7, <2>1, <3>1
  <2>2. CASE t # u
    <3>1. pc'[u] = pc[u]
      BY <1>7, <2>2 DEF TypeInv
    <3> QED
      BY <1>1, <1>7, <3>1
  <2> QED
    BY <2>1, <2>2
<1>8. ASSUME NEW t \in Threads, CopyRule(t)
      PROVE  Fine(pc'[u], copy'[u], seen'[u])
  <2>1. PICK r \in Rules : copy' = [copy EXCEPT ![t] = r]
    BY <1>8, Copied
  <2>2. pc' = [pc EXCEPT ![t] = "check"] /\ seen' = seen
    BY <1>8 DEF CopyRule
  <2>3. CASE t = u
    <3>1. pc'[u] = "check" /\ copy'[u] = r
      BY <2>1, <2>2, <2>3 DEF TypeInv
    <3> QED
      BY <3>1 DEF Fine
  <2>4. CASE t # u
    <3>1. pc'[u] = pc[u] /\ copy'[u] = copy[u] /\ seen'[u] = seen[u]
      BY <2>1, <2>2, <2>4 DEF TypeInv
    <3> QED
      BY <1>1, <3>1
  <2> QED
    BY <2>3, <2>4
<1>9. ASSUME NEW t \in Threads, CheckGeneration(t)
      PROVE  Fine(pc'[u], copy'[u], seen'[u])
  <2>1. CASE Drop(t)
    BY <1>6, <2>1
  <2>2. CASE ~ Drop(t)
    <3>1. pc' = [pc EXCEPT ![t] = IF Limited(copy[t]) THEN "load" ELSE "record"]
            /\ UNCHANGED <<copy, seen>> /\ pc[t] = "check"
      BY <1>9, <2>2 DEF CheckGeneration
    <3>2. copy[t] \in Rules
      BY <3>1 DEF CallInv
    <3>3. Fine(IF Limited(copy[t]) THEN "load" ELSE "record", copy[t], seen[t])
      BY <3>2 DEF Fine, Limited
    <3> QED
      BY <1>7, <3>1, <3>3
  <2> QED
    BY <2>1, <2>2
<1>10. ASSUME NEW t \in Threads, LoadClaimed(t)
       PROVE  Fine(pc'[u], copy'[u], seen'[u])
  <2>1. CASE Drop(t)
    BY <1>6, <2>1
  <2>2. CASE ~ Drop(t)
    <3>1. /\ pc' = [pc EXCEPT ![t] = "cas"] /\ UNCHANGED copy /\ pc[t] = "load"
          /\ seen' = [seen EXCEPT ![t] = claimed[copy[t].hit]]
          /\ Grants(claimed[copy[t].hit], copy[t])
      BY <1>10, <2>2 DEF LoadClaimed
    <3>2. copy[t] \in Rules /\ copy[t].hit # NoSlot
      BY <3>1 DEF CallInv
    <3>3. CASE t = u
      <4>1. pc'[u] = "cas" /\ copy'[u] = copy[t] /\ seen'[u] = claimed[copy[t].hit]
        BY <3>1, <3>3 DEF TypeInv
      <4> QED
        BY <3>1, <3>2, <4>1 DEF Fine
    <3>4. CASE t # u
      <4>1. pc'[u] = pc[u] /\ copy'[u] = copy[u] /\ seen'[u] = seen[u]
        BY <3>1, <3>4 DEF TypeInv
      <4> QED
        BY <1>1, <4>1
    <3> QED
      BY <3>3, <3>4
  <2> QED
    BY <2>1, <2>2
<1>11. ASSUME NEW t \in Threads, SwapClaimed(t)
       PROVE  Fine(pc'[u], copy'[u], seen'[u])
  <2>1. pc[t] = "cas" /\ UNCHANGED <<copy, seen>>
    BY <1>11 DEF SwapClaimed
  <2>2. copy[t] \in Rules /\ copy[t].hit # NoSlot
    BY <2>1 DEF CallInv
  <2>3. CASE pc' = [pc EXCEPT ![t] = "record"]
    BY <1>7, <2>1, <2>2, <2>3 DEF Fine
  <2>4. CASE pc' = [pc EXCEPT ![t] = "load"]
    BY <1>7, <2>1, <2>2, <2>4 DEF Fine
  <2> QED
    BY <1>11, <2>3, <2>4 DEF SwapClaimed
<1>12. ASSUME NEW t \in Threads, RecordHit(t)
       PROVE  Fine(pc'[u], copy'[u], seen'[u])
  BY <1>6, <1>12 DEF RecordHit
<1>13. ASSUME NEW t \in Threads, Fork(t)
       PROVE  Fine(pc'[u], copy'[u], seen'[u])
  BY <1>4, <1>13 DEF Fork
<1>14. ASSUME \/ \E texts \in setting.files : AttachHits(texts)
              \/ AssignHit \/ ReleaseHits \/ Publish \/ UNCHANGED vars
       PROVE  Fine(pc'[u], copy'[u], seen'[u])
  <2>1. UNCHANGED <<pc, copy, seen>>
    BY <1>14 DEF AttachHits, AssignHit, ReleaseHits, Publish, vars, callers
  <2> QED
    BY <1>3, <2>1
<1> QED
  BY <1>8, <1>9, <1>10, <1>11, <1>12, <1>13, <1>14, Cases

LEMMA ReleaseHolds ==
  ASSUME TypeInv, HoldInv, NEW kept \in Seq(Rules), Holders' \subseteq Holders,
         generation' = Outdated(kept), used' = used \ Released(kept)
  PROVE  HoldInv'
<1>1. generation \in [Slots -> Nat]
  BY DEF TypeInv
<1>2. /\ used' = used \cap HitsOf(kept)
      /\ \A s \in Slots : generation'[s] =
           IF s \in used /\ s \notin HitsOf(kept) THEN generation[s] + 1 ELSE generation[s]
  BY ReleasedIs
<1>3. SUFFICES ASSUME NEW r \in Holders
               PROVE  /\ r.generation <= generation'[r.hit]
                      /\ r.generation = generation'[r.hit] => r.hit \in used'
  BY DEF HoldInv
<1>4. r.hit \in Slots /\ r.generation \in Nat
  BY HoldersAre
<1>5. r.generation <= generation[r.hit] /\ (r.generation = generation[r.hit] => r.hit \in used)
  BY DEF HoldInv
<1>6. generation[r.hit] \in Nat
  BY <1>1, <1>4
<1>7. CASE r.hit \in used /\ r.hit \notin HitsOf(kept)
  BY <1>2, <1>4, <1>5, <1>6, <1>7
<1>8. CASE ~ (r.hit \in used /\ r.hit \notin HitsOf(kept))
  BY <1>2, <1>4, <1>5, <1>6, <1>8
<1> QED
  BY <1>7, <1>8

LEMMA StepHold ==
  ASSUME TypeInv, HoldInv, PoolInv, [Next]_vars
  PROVE  HoldInv'
<1>1. ASSUME Holders' \subseteq Holders, UNCHANGED <<generation, used>>
      PROVE  HoldInv'
  BY <1>1 DEF HoldInv
<1>2. CASE AssignHit
  <2>1. PICK s \in Slots, new \in Rules :
          new.hit = s /\ new.generation = generation[s] /\ next' = Append(next, new) /\ used' = used \cup {s}
    BY <1>2, Assigned
  <2>2. Holders' \subseteq Holders \cup {new} /\ generation' = generation
    BY <1>2, <2>1, HoldersGrow DEF AssignHit
  <2>3. generation[s] \in Nat
    BY DEF TypeInv
  <2> QED
    BY <2>1, <2>2, <2>3 DEF HoldInv
<1>3. CASE ~ AssignHit
  <2>1. Holders' \subseteq Holders
    BY <1>3, HoldersStay
  <2>2. CASE ReleaseHits
    BY <2>1, <2>2, ReleaseHolds DEF ReleaseHits, TypeInv
  <2>3. ASSUME NEW t \in Threads, Fork(t)
        PROVE  HoldInv'
    BY <2>1, <2>3, ReleaseHolds DEF Fork, ForkFrees, TypeInv
  <2>4. CASE UNCHANGED <<generation, used>>
    BY <1>1, <2>1, <2>4
  <2>5. ASSUME (\E texts \in setting.files : AttachHits(texts)) \/ Publish
        PROVE  UNCHANGED <<generation, used>>
    BY <2>5 DEF AttachHits, Publish, slots
  <2> QED
    BY <1>3, <2>2, <2>3, <2>4, <2>5, CasesShort
<1> QED
  BY <1>2, <1>3

LEMMA StepNext ==
  ASSUME TypeInv, PoolInv, NextInv, [Next]_vars
  PROVE  NextInv'
<1>1. active \in Seq(Rules) /\ next \in Seq(Rules)
  BY DEF TypeInv
<1>2. In(<<>>) = {}
  BY DEF In
<1>3. ASSUME NEW texts \in setting.files, AttachHits(texts)
      PROVE  NextInv'
  <2>1. next' = <<>> /\ phase' = "assigning"
    BY <1>3 DEF AttachHits, NextInv
  <2>2. In(next)' = {}
    BY <1>2, <2>1 DEF In
  <2> QED
    BY <2>1, <2>2 DEF NextInv
<1>4. CASE AssignHit
  <2>1. PICK s \in Slots, new \in Rules :
          new.hit = s /\ new.generation = generation[s] /\ next' = Append(next, new)
    BY <1>4, Assigned
  <2>2. In(next)' = In(next) \cup {new}
    BY <1>4, <2>1, HoldersGrow DEF In
  <2>3. generation' = generation /\ phase' = "assigning"
    BY <1>4 DEF AssignHit
  <2> QED
    BY <2>1, <2>2, <2>3 DEF NextInv, Current
<1>5. CASE ReleaseHits
  <2>1. next' = next /\ todo' = <<>> /\ phase' = "released" /\ generation' = Outdated(next)
    BY <1>5 DEF ReleaseHits
  <2>2. \A r \in In(next) : r.hit = NoSlot \/ r.hit \in HitsOf(next)
    BY <1>1, InRules
  <2>3. \A r \in In(next) : r.hit = NoSlot \/ r.hit \in Slots
    BY <1>1, InRules DEF Rules
  <2>4. \A s \in HitsOf(next) : s \in Slots => generation'[s] = generation[s]
    BY <1>1, <2>1, ReleasedIs
  <2>5. In(next)' = In(next)
    BY <2>1 DEF In
  <2> QED
    BY <2>1, <2>2, <2>3, <2>4, <2>5 DEF NextInv, Current
<1>6. CASE Publish
  <2>1. next' = <<>> /\ todo' = <<>> /\ phase' = "idle"
    BY <1>6 DEF Publish, NextInv
  <2>2. In(next)' = {}
    BY <1>2, <2>1 DEF In
  <2> QED
    BY <2>1, <2>2 DEF NextInv
<1>7. ASSUME NEW t \in Threads, Fork(t)
      PROVE  NextInv'
  <2>1. next' = <<>> /\ todo' = <<>> /\ phase' # "released"
    BY <1>7 DEF Fork
  <2>2. In(next)' = {}
    BY <1>2, <2>1 DEF In
  <2> QED
    BY <2>1, <2>2 DEF NextInv
<1>8. CASE UNCHANGED <<generation, used, active, next, todo, phase, caught, setting, reloads, forks>>
  BY <1>8 DEF NextInv, In, Current
<1> QED
  BY <1>3, <1>4, <1>5, <1>6, <1>7, <1>8, CasesShort

LEMMA StepActive ==
  ASSUME TypeInv, PoolInv, NextInv, ActiveInv, [Next]_vars
  PROVE  ActiveInv'
<1>1. active \in Seq(Rules) /\ next \in Seq(Rules)
  BY DEF TypeInv
<1>2. \A r \in In(active) : r.hit \in Slots /\ r.hit \in HitsOf(active)
  <2>1. In(active) \subseteq Rules /\ HitsOf(active) = {r.hit : r \in In(active)} \ {NoSlot}
    BY <1>1, InRules
  <2>2. \A r \in In(active) : r.hit # NoSlot
    BY DEF PoolInv
  <2>3. \A r \in Rules : r.hit \in Slots \cup {NoSlot}
    BY DEF Rules
  <2> QED
    BY <2>1, <2>2, <2>3
<1>3. ASSUME NEW texts \in setting.files, AttachHits(texts)
      PROVE  ActiveInv'
  <2>1. phase \in {"idle", "owed"} /\ phase' = "assigning" /\ UNCHANGED <<generation, active, caught>>
    BY <1>3 DEF AttachHits, slots, history
  <2> QED
    BY <2>1 DEF ActiveInv, In, Current
<1>4. CASE AssignHit
  <2>1. phase = "assigning" /\ UNCHANGED <<phase, generation, active, caught>>
    BY <1>4 DEF AssignHit, history
  <2> QED
    BY <2>1 DEF ActiveInv, In, Current
<1>5. CASE ReleaseHits
  <2>1. /\ phase = "assigning" /\ phase' = "released" /\ UNCHANGED <<active, next, caught>>
        /\ generation' = Outdated(next)
    BY <1>5 DEF ReleaseHits, history
  <2>2. \A s \in Slots : s \in HitsOf(next) => generation'[s] = generation[s]
    BY <1>1, <2>1, ReleasedIs
  <2>3. HitsOf(next)' = HitsOf(next) /\ In(active)' = In(active)
    BY <2>1 DEF HitsOf, In
  <2> QED
    BY <1>2, <2>1, <2>2, <2>3 DEF ActiveInv, Current
<1>6. CASE Publish
  <2>1. phase' = "idle" /\ active' = next /\ UNCHANGED <<generation, caught>>
    BY <1>6 DEF Publish, slots, history
  <2>2. In(active)' = In(next)
    BY <2>1 DEF In
  <2>3. \A r \in In(next) : r.hit # NoSlot /\ generation[r.hit] = r.generation
    BY DEF NextInv, PoolInv, Current
  <2> QED
    BY <2>1, <2>2, <2>3 DEF ActiveInv, Current
<1>7. ASSUME NEW t \in Threads, Fork(t)
      PROVE  ActiveInv'
  <2>1. /\ phase' = (IF phase = "idle" THEN "idle" ELSE "owed") /\ caught' = (caught \/ phase = "released")
        /\ active' = active /\ generation' = Outdated(active)
    BY <1>7 DEF Fork
  <2>2. \A s \in Slots : s \in HitsOf(active) => generation'[s] = generation[s]
    BY <1>1, <2>1, ReleasedIs
  <2>3. In(active)' = In(active)
    BY <2>1 DEF In
  <2> QED
    BY <1>2, <2>1, <2>2, <2>3 DEF ActiveInv, Current
<1>8. CASE UNCHANGED <<generation, used, active, next, todo, phase, caught, setting, reloads, forks>>
  BY <1>8 DEF ActiveInv, In, Current, HitsOf
<1> QED
  BY <1>3, <1>4, <1>5, <1>6, <1>7, <1>8, CasesShort

LEMMA StepPool ==
  ASSUME TypeInv, NextInv, PoolInv, [Next]_vars
  PROVE  PoolInv'
<1>1. active \in Seq(Rules) /\ next \in Seq(Rules) /\ todo \in Seq(Texts)
  BY DEF TypeInv
<1>2. In(<<>>) = {} /\ HitsOf(<<>>) = {} /\ Len(<<>>) = 0
  BY DEF In, HitsOf
<1>3. ASSUME NEW texts \in setting.files, AttachHits(texts)
      PROVE  PoolInv'
  <2>1. /\ next = <<>> /\ phase' = "assigning" /\ todo' = texts
        /\ UNCHANGED <<used, active, next, setting>>
    BY <1>3 DEF AttachHits, slots, NextInv
  <2>2. Len(texts) \in Nat /\ 2 * Len(texts) <= setting.pool
    BY SettingIs
  <2>3. 2 * (Len(next') + Len(todo')) <= setting'.pool
    BY <1>2, <2>1, <2>2
  <2>4. UNCHANGED <<In(active), In(next), HitsOf(active), HitsOf(next)>>
    BY <2>1 DEF In, HitsOf
  <2> QED
    BY <2>1, <2>3, <2>4 DEF PoolInv
<1>4. CASE AssignHit
  <2>1. PICK s \in Slots, new \in Rules :
          new.hit = s /\ todo # <<>> /\ next' = Append(next, new) /\ used' = used \cup {s}
    BY <1>4, Assigned
  <2>2. phase' = "assigning" /\ todo' = Tail(todo) /\ UNCHANGED <<active, setting>>
    BY <1>4 DEF AssignHit
  <2>3. /\ next' \in Seq(Rules) /\ In(next') = In(next) \cup {new} /\ Len(next') = Len(next) + 1
    BY <1>1, <2>1, InAppend
  <2>4. Len(todo') = Len(todo) - 1 /\ Len(todo) \in Nat /\ Len(next) \in Nat
    BY <1>1, <2>1, <2>2
  <2>5. s # NoSlot
    BY DEF Slots, NoSlot
  <2>6. HitsOf(next') = HitsOf(next) \cup {s}
    BY <1>1, <2>1, <2>3, <2>5, InRules
  <2>7. UNCHANGED <<In(active), HitsOf(active)>> /\ In(next)' = In(next') /\ HitsOf(next)' = HitsOf(next')
    BY <2>2 DEF In, HitsOf
  <2>8. Len(next') + Len(todo') = Len(next) + Len(todo)
    BY <2>3, <2>4
  <2> QED
    BY <2>1, <2>2, <2>3, <2>5, <2>6, <2>7, <2>8 DEF PoolInv
<1>5. CASE ReleaseHits
  <2>1. UNCHANGED <<active, next, todo, setting>> /\ used' = used \cap HitsOf(next)
    BY <1>1, <1>5, ReleasedIs DEF ReleaseHits
  <2>2. UNCHANGED <<In(active), In(next), HitsOf(active), HitsOf(next)>>
    BY <2>1 DEF In, HitsOf
  <2> QED
    BY <2>1, <2>2 DEF PoolInv
<1>6. CASE Publish
  <2>1. /\ phase = "released" /\ phase' = "idle" /\ active' = next /\ next' = <<>> /\ todo = <<>>
        /\ todo' = <<>> /\ UNCHANGED <<used, setting>>
    BY <1>6 DEF Publish, slots, NextInv
  <2>2. In(active)' = In(next) /\ HitsOf(active)' = HitsOf(next) /\ In(next)' = {} /\ HitsOf(next)' = {}
    BY <1>2, <2>1 DEF In, HitsOf
  <2>3. Len(next) \in Nat /\ setting.pool \in Nat
    BY <1>1, SettingIs
  <2>4. 2 * Len(next) <= setting.pool
    BY <1>2, <2>1, <2>3 DEF PoolInv
  <2>5. 2 * Len(active') <= setting'.pool /\ 2 * (Len(next') + Len(todo')) <= setting'.pool
    BY <1>2, <2>1, <2>3, <2>4
  <2> QED
    BY <2>1, <2>2, <2>5 DEF PoolInv
<1>7. ASSUME NEW t \in Threads, Fork(t)
      PROVE  PoolInv'
  <2>1. /\ phase' # "released" /\ next' = <<>> /\ todo' = <<>> /\ UNCHANGED <<active, setting>>
        /\ used' = used \cap HitsOf(active)
    BY <1>1, <1>7, ReleasedIs DEF Fork, ForkFrees
  <2>2. In(active)' = In(active) /\ HitsOf(active)' = HitsOf(active) /\ In(next)' = {}
    BY <1>2, <2>1 DEF In, HitsOf
  <2>3. setting.pool \in Nat
    BY SettingIs
  <2>4. 2 * (Len(next') + Len(todo')) <= setting'.pool
    BY <1>2, <2>1, <2>3
  <2> QED
    BY <2>1, <2>2, <2>4 DEF PoolInv
<1>8. CASE UNCHANGED <<generation, used, active, next, todo, phase, caught, setting, reloads, forks>>
  BY <1>8 DEF PoolInv, In, HitsOf
<1> QED
  BY <1>3, <1>4, <1>5, <1>6, <1>7, <1>8, CasesShort

-----------------------------------------------------------------------------
(* Hits and claims.                                                        *)

\* The copy a caller holds names a slot of its generation, or of an earlier one.
LEMMA CopyHolds ==
  ASSUME TypeInv, BoundInv, CallInv, HoldInv, NEW t \in Threads, pc[t] # "idle", copy[t].hit # NoSlot
  PROVE  /\ copy[t] \in Holders /\ copy[t] \in Rules
         /\ copy[t].text \in Texts /\ copy[t].hit \in Slots /\ copy[t].generation \in Generations
         /\ copy[t].generation <= generation[copy[t].hit]
         /\ copy[t].generation = generation[copy[t].hit] => copy[t].hit \in used
<1>1. copy[t] \in Holders
  BY DEF Holders, Copies
<1>2. /\ copy[t] \in Rules /\ copy[t].text \in Texts /\ copy[t].hit \in Slots
      /\ copy[t].generation \in Nat
  BY <1>1, HoldersAre
<1>3. /\ copy[t].generation <= generation[copy[t].hit]
      /\ copy[t].generation = generation[copy[t].hit] => copy[t].hit \in used
  BY <1>1 DEF HoldInv
<1>4. generation[copy[t].hit] \in Generations /\ generation[copy[t].hit] \in Nat
  BY <1>2, GenerationsCover DEF TypeInv
<1>5. MaxReloads \in Nat /\ MaxForks \in Nat
  BY ConstantsAssumption
<1>6. copy[t].generation \in Generations
  BY <1>2, <1>3, <1>4, <1>5 DEF Generations
<1> QED
  BY <1>1, <1>2, <1>3, <1>6

LEMMA KeysUp ==
  ASSUME NEW f \in [Texts \X Slots \X Generations -> Nat],
         NEW x \in Texts, NEW s \in Slots, NEW g \in Generations
  PROVE  LET h == [f EXCEPT ![<<x, s, g>>] = @ + 1]
         IN  /\ h[<<x, s, g>>] = f[<<x, s, g>>] + 1
             /\ \A y \in Texts, u \in Slots, i \in Generations :
                  <<y, u, i>> # <<x, s, g>> => h[<<y, u, i>>] = f[<<y, u, i>>]
OBVIOUS

\* The exchange of the claim word, when it succeeds: the word was of the
\* copy's generation and had a claim left, and has one fewer.
Draws(t, x, s, g) ==
  /\ copy[t] \in Holders /\ pc[t] = "cas"
  /\ copy[t].text = x /\ copy[t].hit = s /\ copy[t].generation = g
  /\ g <= generation[s] /\ (g = generation[s] => s \in used)
  /\ Tag(claimed[s]) = ClaimsNone(g) /\ Claims(claimed[s]) < First[x]
  /\ Claims(claimed'[s]) = Claims(claimed[s]) + 1 /\ Tag(claimed'[s]) = Tag(claimed[s])
  /\ \A u \in Slots : u # s => claimed'[u] = claimed[u]
  /\ granted' = [granted EXCEPT ![<<x, s, g>>] = @ + 1]

LEMMA Swapped ==
  ASSUME TypeInv, BoundInv, CallInv, HoldInv, NEW t \in Threads, SwapClaimed(t)
  PROVE  \/ UNCHANGED <<claimed, granted>>
         \/ \E x \in Texts, s \in Slots, g \in Generations : Draws(t, x, s, g)
<1>1. pc[t] = "cas" /\ copy[t].hit # NoSlot /\ Grants(seen[t], copy[t])
  BY DEF SwapClaimed, CallInv
<1>2. /\ copy[t] \in Holders /\ copy[t].text \in Texts /\ copy[t].hit \in Slots
      /\ copy[t].generation \in Generations
      /\ copy[t].generation <= generation[copy[t].hit]
      /\ copy[t].generation = generation[copy[t].hit] => copy[t].hit \in used
  BY <1>1, CopyHolds
<1>3. CASE claimed[copy[t].hit] # seen[t]
  BY <1>3 DEF SwapClaimed
<1>4. CASE claimed[copy[t].hit] = seen[t]
  <2>1. PICK x \in Texts, s \in Slots, g \in Generations :
          copy[t].text = x /\ copy[t].hit = s /\ copy[t].generation = g
    BY <1>2
  <2>2. /\ claimed' = [claimed EXCEPT ![s] = seen[t] + 1]
        /\ granted' = [granted EXCEPT ![<<x, s, g>>] = @ + 1]
    BY <1>4, <2>1 DEF SwapClaimed, Key
  <2>3. /\ Tag(claimed[s]) = ClaimsNone(g) /\ Claims(claimed[s]) < First[x]
        /\ Claims(claimed[s]) # ClaimSpan - 1
    BY <1>1, <1>4, <2>1 DEF Grants
  <2>4. claimed \in [Slots -> Nat] /\ claimed[s] \in Nat
    BY DEF TypeInv
  <2>5. claimed'[s] = claimed[s] + 1 /\ \A u \in Slots : u # s => claimed'[u] = claimed[u]
    BY <1>4, <2>1, <2>2, <2>4
  <2>6. Claims(claimed[s] + 1) = Claims(claimed[s]) + 1 /\ Tag(claimed[s] + 1) = Tag(claimed[s])
    BY <2>3, <2>4, OneMoreClaim
  <2>7. Claims(claimed'[s]) = Claims(claimed[s]) + 1 /\ Tag(claimed'[s]) = Tag(claimed[s])
    BY <2>5, <2>6
  <2>8. copy[t] \in Holders /\ pc[t] = "cas" /\ g <= generation[s] /\ (g = generation[s] => s \in used)
    BY <1>1, <1>2, <2>1
  <2> QED
    BY <2>1, <2>2, <2>3, <2>5, <2>7, <2>8 DEF Draws
<1> QED
  BY <1>3, <1>4

LEMMA Recorded ==
  ASSUME TypeInv, BoundInv, CallInv, HoldInv, NEW t \in Threads, RecordHit(t)
  PROVE  \/ UNCHANGED <<count, recorded>>
         \/ \E x \in Texts, s \in Slots, g \in Generations :
              /\ g <= generation[s] /\ (g = generation[s] => s \in used)
              /\ count' = [count EXCEPT ![s] = @ + 1]
              /\ recorded' = [recorded EXCEPT ![<<x, s, g>>] = @ + 1]
<1>1. CASE copy[t].hit = NoSlot
  BY <1>1 DEF RecordHit
<1>2. CASE copy[t].hit # NoSlot
  <2>1. pc[t] = "record"
    BY DEF RecordHit
  <2>2. /\ copy[t].text \in Texts /\ copy[t].hit \in Slots /\ copy[t].generation \in Generations
        /\ copy[t].generation <= generation[copy[t].hit]
        /\ copy[t].generation = generation[copy[t].hit] => copy[t].hit \in used
    BY <1>2, <2>1, CopyHolds
  <2>3. /\ count' = [count EXCEPT ![copy[t].hit] = @ + 1]
        /\ recorded' = [recorded EXCEPT ![<<copy[t].text, copy[t].hit, copy[t].generation>>] = @ + 1]
    BY <1>2 DEF RecordHit, Key
  <2> QED
    BY <2>2, <2>3
<1> QED
  BY <1>1, <1>2

\* What the other operations leave of the counts.
LEMMA OthersLeave ==
  ASSUME [Next]_vars
  PROVE  \/ AssignHit
         \/ \E t \in Threads : SwapClaimed(t) \/ RecordHit(t) \/ Fork(t)
         \/ UNCHANGED <<count, claimed, granted, recorded>>
<1>1. ASSUME (\E texts \in setting.files : AttachHits(texts)) \/ ReleaseHits \/ Publish \/ UNCHANGED vars
      PROVE  UNCHANGED <<count, claimed, granted, recorded>>
  BY <1>1 DEF AttachHits, ReleaseHits, Publish, vars, slots, history
<1>2. ASSUME NEW t \in Threads, CopyRule(t) \/ CheckGeneration(t) \/ LoadClaimed(t)
      PROVE  UNCHANGED <<count, claimed, granted, recorded>>
  BY <1>2 DEF CopyRule, CheckGeneration, LoadClaimed, slots, history
<1> QED
  BY <1>1, <1>2, Cases

\* A slot stays in use unless it is outdated.
LEMMA UsedOrOutdated ==
  ASSUME TypeInv, PoolInv, [Next]_vars
  PROVE  \A s \in Slots : /\ generation'[s] \in Nat /\ generation'[s] >= generation[s]
                          /\ s \in used /\ s \notin used' => generation'[s] > generation[s]
<1>1. generation \in [Slots -> Nat]
  BY DEF TypeInv
<1>2. ASSUME NEW kept \in Seq(Rules), generation' = Outdated(kept), used' = used \ Released(kept)
      PROVE  \A s \in Slots : /\ generation'[s] \in Nat /\ generation'[s] >= generation[s]
                              /\ s \in used /\ s \notin used' => generation'[s] > generation[s]
  <2>1. /\ used' = used \cap HitsOf(kept)
        /\ \A s \in Slots : generation'[s] =
             IF s \in used /\ s \notin HitsOf(kept) THEN generation[s] + 1 ELSE generation[s]
    BY <1>2, ReleasedIs
  <2> QED
    BY <1>1, <2>1
<1>3. CASE ReleaseHits
  BY <1>2, <1>3 DEF ReleaseHits, TypeInv
<1>4. ASSUME NEW t \in Threads, Fork(t)
      PROVE  \A s \in Slots : /\ generation'[s] \in Nat /\ generation'[s] >= generation[s]
                              /\ s \in used /\ s \notin used' => generation'[s] > generation[s]
  BY <1>2, <1>4 DEF Fork, ForkFrees, TypeInv
<1>5. CASE AssignHit
  <2>1. generation' = generation /\ used \subseteq used'
    BY <1>5 DEF AssignHit
  <2> QED
    BY <1>1, <2>1
<1>6. CASE UNCHANGED <<generation, used>>
  BY <1>1, <1>6
<1>7. ASSUME (\E texts \in setting.files : AttachHits(texts)) \/ Publish
      PROVE  UNCHANGED <<generation, used>>
  BY <1>7 DEF AttachHits, Publish, slots
<1> QED
  BY <1>3, <1>4, <1>5, <1>6, <1>7, CasesShort

LEMMA StepFresh ==
  ASSUME TypeInv, BoundInv, CallInv, HoldInv, PoolInv, FreshInv, [Next]_vars
  PROVE  FreshInv'
<1>1. /\ generation \in [Slots -> Nat]
      /\ granted \in [Texts \X Slots \X Generations -> Nat]
      /\ recorded \in [Texts \X Slots \X Generations -> Nat]
  BY DEF TypeInv
<1>2. SUFFICES ASSUME NEW x \in Texts, NEW s \in Slots, NEW g \in Generations,
                      g > generation'[s] \/ (g = generation'[s] /\ s \notin used')
               PROVE  granted'[<<x, s, g>>] = 0 /\ recorded'[<<x, s, g>>] = 0
  BY DEF FreshInv
<1>3. g \in Int
  BY DEF Generations
<1>4. g > generation[s] \/ (g = generation[s] /\ s \notin used)
  <2>1. /\ generation'[s] \in Nat /\ generation'[s] >= generation[s] /\ generation[s] \in Nat
        /\ s \in used /\ s \notin used' => generation'[s] > generation[s]
    BY <1>1, UsedOrOutdated
  <2> QED
    BY <1>2, <1>3, <2>1
<1>5. granted[<<x, s, g>>] = 0 /\ recorded[<<x, s, g>>] = 0
  BY <1>4 DEF FreshInv
<1>6. ASSUME NEW y \in Texts, NEW u \in Slots, NEW h \in Generations,
             h <= generation[u], h = generation[u] => u \in used
      PROVE  <<x, s, g>> # <<y, u, h>>
  <2>1. ~ (u = s /\ h = g)
    <3>1. SUFFICES ASSUME u = s, h = g PROVE FALSE
      OBVIOUS
    <3>2. g <= generation[s] /\ (g = generation[s] => s \in used) /\ generation[s] \in Int
      BY <1>1, <1>6, <3>1
    <3> QED
      BY <1>3, <1>4, <3>2
  <2> QED
    BY <2>1
<1>7. CASE UNCHANGED <<granted, recorded>>
  BY <1>5, <1>7
<1>8. CASE AssignHit
  BY <1>7, <1>8 DEF AssignHit, history
<1>9. ASSUME NEW t \in Threads, SwapClaimed(t)
      PROVE  granted'[<<x, s, g>>] = 0 /\ recorded'[<<x, s, g>>] = 0
  <2>1. recorded' = recorded
    BY <1>9 DEF SwapClaimed
  <2>2. CASE UNCHANGED granted
    BY <1>7, <2>1, <2>2
  <2>3. CASE ~ UNCHANGED granted
    <3>0. ~ UNCHANGED <<claimed, granted>>
      BY <2>3
    <3>1. PICK y \in Texts, u \in Slots, h \in Generations : Draws(t, y, u, h)
      BY <1>9, <3>0, Swapped
    <3>2. /\ h <= generation[u] /\ (h = generation[u] => u \in used)
          /\ granted' = [granted EXCEPT ![<<y, u, h>>] = @ + 1]
      BY <3>1 DEF Draws
    <3>3. <<x, s, g>> # <<y, u, h>>
      BY <1>6, <3>2
    <3>4. granted'[<<x, s, g>>] = 0
      BY <1>1, <1>5, <3>2, <3>3, KeysUp
    <3> QED
      BY <1>5, <2>1, <3>4
  <2> QED
    BY <2>2, <2>3
<1>10. ASSUME NEW t \in Threads, RecordHit(t)
       PROVE  granted'[<<x, s, g>>] = 0 /\ recorded'[<<x, s, g>>] = 0
  <2>1. granted' = granted
    BY <1>10 DEF RecordHit
  <2>2. CASE UNCHANGED recorded
    BY <1>7, <2>1, <2>2
  <2>3. CASE ~ UNCHANGED recorded
    <3>1. PICK y \in Texts, u \in Slots, h \in Generations :
             /\ h <= generation[u] /\ (h = generation[u] => u \in used)
             /\ recorded' = [recorded EXCEPT ![<<y, u, h>>] = @ + 1]
      BY <1>10, <2>3, Recorded
    <3>2. <<x, s, g>> # <<y, u, h>>
      BY <1>6, <3>1
    <3>3. recorded'[<<x, s, g>>] = 0
      BY <1>1, <1>5, <3>1, <3>2, KeysUp
    <3> QED
      BY <1>5, <2>1, <3>3
  <2> QED
    BY <2>2, <2>3
<1>11. ASSUME NEW t \in Threads, Fork(t)
       PROVE  granted'[<<x, s, g>>] = 0 /\ recorded'[<<x, s, g>>] = 0
  <2>1. granted' = Zero /\ recorded' = Zero
    BY <1>11 DEF Fork
  <2> QED
    BY <2>1 DEF Zero
<1> QED
  BY <1>7, <1>8, <1>9, <1>10, <1>11, OthersLeave

\* A slot that is cleared had no hits of its generation.
LEMMA StepHits ==
  ASSUME TypeInv, BoundInv, CallInv, HoldInv, PoolInv, FreshInv, HitsInv, [Next]_vars, TypeInv', BoundInv'
  PROVE  HitsInv'
<1>1. /\ generation \in [Slots -> Nat] /\ generation' \in [Slots -> Nat]
      /\ count \in [Slots -> Nat] /\ count' \in [Slots -> Nat]
      /\ recorded \in [Texts \X Slots \X Generations -> Nat]
  BY DEF TypeInv
<1>2. SUFFICES ASSUME NEW x \in Texts, NEW s \in Slots
               PROVE  recorded'[<<x, s, generation'[s]>>] <= count'[s]
  BY DEF HitsInv
<1>3. /\ recorded[<<x, s, generation[s]>>] <= count[s]
      /\ count[s] \in Nat /\ count'[s] \in Nat /\ generation[s] \in Nat
  BY <1>1 DEF HitsInv
<1>4. generation[s] \in Generations /\ generation'[s] \in Generations
  <2>1. generation[s] \in Generations
    BY GenerationsCover
  <2>2. /\ MaxReloads \in Nat /\ MaxForks \in Nat /\ setting'.forks \in 0 .. MaxForks
        /\ reloads' \in Nat /\ forks' \in Nat
    <3>1. setting' \in Settings /\ reloads' \in Nat /\ forks' \in Nat
      BY DEF TypeInv
    <3> QED
      BY <3>1, ConstantsAssumption
  <2>3. reloads' <= MaxReloads /\ forks' <= setting'.forks /\ generation'[s] <= 1 + reloads' + forks'
    BY <1>1, <2>2 DEF BoundInv
  <2>4. generation'[s] \in Nat
    BY <1>1
  <2> QED
    BY <2>1, <2>2, <2>3, <2>4 DEF Generations
<1>5. CASE generation'[s] # generation[s] /\ UNCHANGED <<count, recorded>>
  <2>1. generation'[s] > generation[s]
    BY <1>3, <1>5, UsedOrOutdated
  <2>2. recorded[<<x, s, generation'[s]>>] = 0
    BY <1>4, <2>1 DEF FreshInv
  <2> QED
    BY <1>3, <1>5, <2>2
<1>6. CASE generation'[s] = generation[s] /\ UNCHANGED <<count, recorded>>
  BY <1>3, <1>6
<1>7. CASE AssignHit
  <2>1. generation' = generation /\ recorded' = recorded
    BY <1>7 DEF AssignHit, history
  <2>2. PICK y \in Texts, u \in Slots :
          /\ KeptFrom(y) # {} => count' = count
          /\ KeptFrom(y) = {} => u \notin used /\ count' = [count EXCEPT ![u] = 0]
    BY <1>7, Assigned
  <2>3. CASE count' = count
    BY <1>6, <2>1, <2>3
  <2>4. CASE u \notin used /\ count' = [count EXCEPT ![u] = 0] /\ u # s
    <3>1. count'[s] = count[s]
      BY <1>1, <2>4
    <3> QED
      BY <1>3, <2>1, <3>1
  <2>5. CASE u \notin used /\ u = s
    <3>1. recorded[<<x, s, generation[s]>>] = 0
      BY <1>4, <2>5 DEF FreshInv
    <3> QED
      BY <1>3, <2>1, <3>1
  <2> QED
    BY <2>2, <2>3, <2>4, <2>5
<1>8. ASSUME NEW t \in Threads, RecordHit(t)
      PROVE  recorded'[<<x, s, generation'[s]>>] <= count'[s]
  <2>1. generation' = generation
    BY <1>8 DEF RecordHit
  <2>2. CASE UNCHANGED <<count, recorded>>
    BY <1>6, <2>1, <2>2
  <2>3. CASE ~ UNCHANGED <<count, recorded>>
    <3>1. PICK y \in Texts, u \in Slots, h \in Generations :
             /\ count' = [count EXCEPT ![u] = @ + 1]
             /\ recorded' = [recorded EXCEPT ![<<y, u, h>>] = @ + 1]
      BY <1>8, <2>3, Recorded
    <3>2. recorded[<<x, s, generation[s]>>] \in Nat
      BY <1>1, <1>4
    <3>3. CASE u = s
      <4>1. count'[s] = count[s] + 1
        BY <1>1, <3>1, <3>3
      <4>2. recorded'[<<x, s, generation[s]>>] <= recorded[<<x, s, generation[s]>>] + 1
        <5>1. CASE <<x, s, generation[s]>> = <<y, u, h>>
          BY <1>1, <1>4, <3>1, <3>2, <5>1, KeysUp
        <5>2. CASE <<x, s, generation[s]>> # <<y, u, h>>
          BY <1>1, <1>4, <3>1, <3>2, <5>2, KeysUp
        <5> QED
          BY <5>1, <5>2
      <4>3. recorded'[<<x, s, generation[s]>>] \in Nat
        BY <1>4 DEF TypeInv
      <4> QED
        BY <1>3, <2>1, <3>2, <4>1, <4>2, <4>3
    <3>4. CASE u # s
      <4>1. count'[s] = count[s]
        BY <1>1, <3>1, <3>4
      <4>2. <<x, s, generation[s]>> # <<y, u, h>>
        BY <3>4
      <4>3. recorded'[<<x, s, generation[s]>>] = recorded[<<x, s, generation[s]>>]
        BY <1>1, <1>4, <3>1, <4>2, KeysUp
      <4> QED
        BY <1>3, <2>1, <4>1, <4>3
    <3> QED
      BY <3>3, <3>4
  <2> QED
    BY <2>2, <2>3
<1>9. ASSUME NEW t \in Threads, SwapClaimed(t)
      PROVE  UNCHANGED <<count, recorded>>
  BY <1>9 DEF SwapClaimed
<1>10. ASSUME NEW t \in Threads, Fork(t)
       PROVE  recorded'[<<x, s, generation'[s]>>] <= count'[s]
  <2>1. recorded' = Zero
    BY <1>10 DEF Fork
  <2>2. recorded'[<<x, s, generation'[s]>>] = 0
    BY <1>4, <2>1 DEF Zero
  <2> QED
    BY <1>3, <2>2
<1> QED
  BY <1>5, <1>6, <1>7, <1>8, <1>9, <1>10, OthersLeave

LEMMA StepWord ==
  ASSUME TypeInv, BoundInv, CallInv, HoldInv, PoolInv, FreshInv, WordInv, [Next]_vars, TypeInv'
  PROVE  WordInv'
<1>1. /\ claimed \in [Slots -> Nat] /\ claimed' \in [Slots -> Nat] /\ generation \in [Slots -> Nat]
      /\ granted \in [Texts \X Slots \X Generations -> Nat] /\ First \in [Texts -> Nat]
  BY SettingIs DEF TypeInv
<1>2. SUFFICES ASSUME NEW x \in Texts, NEW s \in Slots, NEW g \in Generations
               PROVE  /\ granted'[<<x, s, g>>] <= First[x]
                      /\ Tag(claimed'[s]) = ClaimsNone(g) => granted'[<<x, s, g>>] <= Claims(claimed'[s])
  BY DEF WordInv
<1>3. /\ granted[<<x, s, g>>] <= First[x]
      /\ Tag(claimed[s]) = ClaimsNone(g) => granted[<<x, s, g>>] <= Claims(claimed[s])
  BY DEF WordInv
<1>4. /\ g \in Nat /\ First[x] \in Nat /\ granted[<<x, s, g>>] \in Nat
      /\ Claims(claimed[s]) \in Int /\ Claims(claimed'[s]) \in Nat
  <2>1. /\ Claims(claimed[s]) \in 0 .. ClaimSpan - 1 /\ Claims(claimed'[s]) \in 0 .. ClaimSpan - 1
    BY <1>1, WordParts
  <2> QED
    BY <1>1, <2>1 DEF Generations
<1>5. CASE UNCHANGED <<claimed, granted>>
  BY <1>3, <1>5
<1>6. CASE AssignHit
  <2>1. granted' = granted
    BY <1>6 DEF AssignHit, history
  <2>2. PICK y \in Texts, u \in Slots :
          /\ KeptFrom(y) # {} => claimed' = claimed
          /\ KeptFrom(y) = {} => u \notin used /\ claimed' = [claimed EXCEPT ![u] = ClaimsNone(generation[u])]
    BY <1>6, Assigned
  <2>3. CASE claimed' = claimed
    BY <1>5, <2>1, <2>3
  <2>4. CASE u \notin used /\ claimed' = [claimed EXCEPT ![u] = ClaimsNone(generation[u])]
    <3>1. CASE u # s
      <4>1. claimed'[s] = claimed[s]
        BY <1>1, <2>4, <3>1
      <4> QED
        BY <1>3, <2>1, <4>1
    <3>2. CASE u = s
      <4>1. claimed'[s] = ClaimsNone(generation[s]) /\ generation[s] \in Nat
        BY <1>1, <2>4, <3>2
      <4>2. Tag(claimed'[s]) = ClaimsNone(generation[s])
        BY <4>1, NoClaims
      <4>3. ASSUME Tag(claimed'[s]) = ClaimsNone(g)
            PROVE  granted[<<x, s, g>>] = 0
        <5>1. g = generation[s]
          BY <1>4, <4>1, <4>2, <4>3, TagsDiffer
        <5> QED
          BY <2>4, <3>2, <5>1 DEF FreshInv
      <4> QED
        BY <1>3, <1>4, <2>1, <4>3
    <3> QED
      BY <3>1, <3>2
  <2> QED
    BY <2>2, <2>3, <2>4
<1>7. ASSUME NEW t \in Threads, SwapClaimed(t), ~ UNCHANGED <<claimed, granted>>
      PROVE  /\ granted'[<<x, s, g>>] <= First[x]
             /\ Tag(claimed'[s]) = ClaimsNone(g) => granted'[<<x, s, g>>] <= Claims(claimed'[s])
  <2>1. PICK y \in Texts, u \in Slots, h \in Generations : Draws(t, y, u, h)
    BY <1>7, Swapped
  <2>2. /\ granted' = [granted EXCEPT ![<<y, u, h>>] = @ + 1]
        /\ Tag(claimed[u]) = ClaimsNone(h) /\ Claims(claimed[u]) < First[y]
        /\ Claims(claimed'[u]) = Claims(claimed[u]) + 1 /\ Tag(claimed'[u]) = Tag(claimed[u])
        /\ \A w \in Slots : w # u => claimed'[w] = claimed[w]
    BY <2>1 DEF Draws
  <2>3. CASE <<x, s, g>> = <<y, u, h>>
    <3>1. x = y /\ s = u /\ g = h
      BY <2>3
    <3>2. granted'[<<x, s, g>>] = granted[<<x, s, g>>] + 1
      BY <1>1, <2>2, <3>1, KeysUp
    <3> QED
      BY <1>3, <1>4, <2>2, <3>1, <3>2
  <2>4. CASE <<x, s, g>> # <<y, u, h>>
    <3>1. granted'[<<x, s, g>>] = granted[<<x, s, g>>]
      BY <1>1, <2>2, <2>4, KeysUp
    <3>2. Tag(claimed'[s]) = Tag(claimed[s]) /\ Claims(claimed'[s]) >= Claims(claimed[s])
      BY <1>4, <2>2
    <3> QED
      BY <1>3, <1>4, <3>1, <3>2
  <2> QED
    BY <2>3, <2>4
<1>8. ASSUME NEW t \in Threads, RecordHit(t)
      PROVE  UNCHANGED <<claimed, granted>>
  BY <1>8 DEF RecordHit
<1>9. ASSUME NEW t \in Threads, Fork(t)
      PROVE  granted'[<<x, s, g>>] = 0
  <2>1. granted' = Zero
    BY <1>9 DEF Fork
  <2> QED
    BY <2>1 DEF Zero
<1> QED
  BY <1>4, <1>5, <1>6, <1>7, <1>8, <1>9, OthersLeave

LEMMA StepTag ==
  ASSUME TypeInv, BoundInv, CallInv, HoldInv, NextInv, PoolInv, TagInv, [Next]_vars
  PROVE  TagInv'
<1>1. /\ active \in Seq(Rules) /\ next \in Seq(Rules)
      /\ claimed \in [Slots -> Nat] /\ generation \in [Slots -> Nat]
  BY DEF TypeInv
<1>2. \A r \in In(active) \cup In(next) : r.hit \in Slots
  <2>1. In(active) \subseteq Rules /\ In(next) \subseteq Rules
    BY <1>1, InRules
  <2>2. \A r \in In(active) \cup In(next) : r.hit # NoSlot
    BY DEF PoolInv
  <2> QED
    BY <2>1, <2>2 DEF Rules
<1>3. In(<<>>) = {}
  BY DEF In
<1>4. \A r \in In(next) : Tag(claimed[r.hit]) = ClaimsNone(generation[r.hit])
  BY DEF TagInv
<1>5. ASSUME NEW texts \in setting.files, AttachHits(texts)
      PROVE  TagInv'
  <2>1. phase \in {"idle", "owed"} /\ UNCHANGED <<claimed, generation, active, next>>
    BY <1>5 DEF AttachHits, slots
  <2> QED
    BY <2>1 DEF TagInv, In
<1>6. CASE AssignHit
  <2>1. PICK y \in Texts, u \in Slots, new \in Rules :
          /\ new.hit = u /\ next' = Append(next, new)
          /\ KeptFrom(y) # {} => /\ Least(KeptFrom(y)) \in KeptFrom(y)
                                 /\ u = active[Least(KeptFrom(y))].hit
                                 /\ claimed' = claimed
          /\ KeptFrom(y) = {} => claimed' = [claimed EXCEPT ![u] = ClaimsNone(generation[u])]
    BY <1>6, Assigned
  <2>2. phase = "assigning" /\ phase' = phase /\ generation' = generation /\ active' = active
    BY <1>6 DEF AssignHit
  <2>3. In(next)' = In(next) \cup {new} /\ In(active)' = In(active)
    BY <1>6, <2>1, <2>2, HoldersGrow DEF In
  <2>4. \A r \in In(active) \cup In(next) : Tag(claimed[r.hit]) = ClaimsNone(generation[r.hit])
    BY <2>2 DEF TagInv
  <2>5. SUFFICES ASSUME NEW r \in In(active) \cup In(next) \cup {new}
                 PROVE  Tag(claimed'[r.hit]) = ClaimsNone(generation[r.hit])
    BY <2>2, <2>3 DEF TagInv
  <2>6. r.hit \in Slots
    BY <1>2, <2>1
  <2>7. CASE KeptFrom(y) # {}
    <3>1. active[Least(KeptFrom(y))] \in In(active)
      BY <2>1, <2>7 DEF KeptFrom, In
    <3>2. Tag(claimed[u]) = ClaimsNone(generation[u])
      BY <2>1, <2>4, <2>7, <3>1
    <3> QED
      BY <2>1, <2>4, <2>7, <3>2
  <2>8. CASE KeptFrom(y) = {} /\ r.hit = u
    <3>1. claimed'[u] = ClaimsNone(generation[u]) /\ generation[u] \in Nat
      BY <1>1, <2>1, <2>8
    <3> QED
      BY <2>8, <3>1, NoClaims
  <2>9. CASE KeptFrom(y) = {} /\ r.hit # u
    <3>1. claimed'[r.hit] = claimed[r.hit] /\ r # new
      BY <1>1, <2>1, <2>6, <2>9
    <3> QED
      BY <2>4, <3>1
  <2> QED
    BY <2>7, <2>8, <2>9
<1>7. CASE ReleaseHits
  <2>1. phase' = "released" /\ claimed' = claimed /\ next' = next /\ generation' = Outdated(next)
    BY <1>7 DEF ReleaseHits
  <2>2. \A r \in In(next) : r.hit \in HitsOf(next)
    BY <1>1, InRules DEF PoolInv
  <2>3. \A r \in In(next) : generation'[r.hit] = generation[r.hit]
    BY <1>1, <1>2, <2>1, <2>2, ReleasedIs
  <2>4. In(next)' = In(next)
    BY <2>1 DEF In
  <2> QED
    BY <1>4, <2>1, <2>3, <2>4 DEF TagInv
<1>8. CASE Publish
  <2>1. active' = next /\ next' = <<>> /\ UNCHANGED <<claimed, generation>>
    BY <1>8 DEF Publish, slots
  <2>2. In(active)' = In(next) /\ In(next)' = {}
    BY <1>3, <2>1 DEF In
  <2> QED
    BY <1>4, <2>1, <2>2 DEF TagInv
<1>9. ASSUME NEW t \in Threads, Fork(t)
      PROVE  TagInv'
  <2>1. /\ active' = active /\ next' = <<>> /\ generation' = Outdated(active)
        /\ claimed' = [s \in Slots |-> ClaimsNone(generation'[s])]
    BY <1>9 DEF Fork, ClaimsAfterFork
  <2>2. In(active)' = In(active) /\ In(next)' = {}
    BY <1>3, <2>1 DEF In
  <2>3. generation' \in [Slots -> Nat]
    BY <1>1, <2>1, ReleasedIs
  <2>4. \A s \in Slots : Tag(claimed'[s]) = ClaimsNone(generation'[s])
    BY <2>1, <2>3, NoClaims
  <2> QED
    BY <1>2, <2>2, <2>4 DEF TagInv
<1>10. ASSUME UNCHANGED <<generation, used, active, next, todo, phase, caught, setting, reloads, forks>>,
              \A s \in Slots : Tag(claimed'[s]) = Tag(claimed[s])
       PROVE  TagInv'
  <2>1. UNCHANGED <<In(active), In(next), generation, phase>>
    BY <1>10 DEF In
  <2> QED
    BY <1>2, <1>10, <2>1 DEF TagInv
<1>11. ASSUME NEW t \in Threads, SwapClaimed(t)
       PROVE  \A s \in Slots : Tag(claimed'[s]) = Tag(claimed[s])
  <2>1. CASE UNCHANGED <<claimed, granted>>
    BY <2>1
  <2>2. CASE ~ UNCHANGED <<claimed, granted>>
    <3>1. PICK y \in Texts, u \in Slots, h \in Generations : Draws(t, y, u, h)
      BY <1>11, <2>2, Swapped
    <3> QED
      BY <3>1 DEF Draws
  <2> QED
    BY <2>1, <2>2
<1>12. CASE UNCHANGED <<generation, used, active, next, todo, phase, caught, setting, reloads, forks>>
  <2>1. \A s \in Slots : Tag(claimed'[s]) = Tag(claimed[s])
    <3>1. ASSUME NEW t \in Threads, RecordHit(t)
          PROVE  claimed' = claimed
      BY <3>1 DEF RecordHit
    <3>2. CASE AssignHit
      <4>1. PICK x \in Texts, s \in Slots, new \in Rules : next' = Append(next, new)
        BY <3>2, Assigned
      <4>2. Len(next') = Len(next) + 1 /\ Len(next) \in Nat
        BY <1>1, <4>1
      <4> QED
        BY <1>12, <4>2
    <3>3. ASSUME NEW t \in Threads, Fork(t)
          PROVE  FALSE
      <4>1. forks' = forks + 1 /\ forks \in Nat
        BY <3>3 DEF Fork, TypeInv
      <4> QED
        BY <1>12, <4>1
    <3> QED
      BY <1>11, <3>1, <3>2, <3>3, OthersLeave
  <2> QED
    BY <1>10, <1>12, <2>1
<1> QED
  BY <1>5, <1>6, <1>7, <1>8, <1>9, <1>12, CasesShort

-----------------------------------------------------------------------------
(* Who shares a slot.                                                      *)

LEMMA HoldersHistory ==
  ASSUME TypeInv, BoundInv, HoldInv
  PROVE  \A r \in Holders : r.generation \in Generations
<1>1. MaxReloads \in Nat /\ MaxForks \in Nat
  BY ConstantsAssumption
<1>2. SUFFICES ASSUME NEW r \in Holders PROVE r.generation \in Generations
  OBVIOUS
<1>3. r.hit \in Slots /\ r.generation \in Nat /\ r.generation <= generation[r.hit]
  BY HoldersAre DEF HoldInv
<1>4. generation[r.hit] \in Generations
  BY <1>3, GenerationsCover
<1> QED
  BY <1>1, <1>3, <1>4 DEF Generations

LEMMA SnapshotsHold ==
  ASSUME TypeInv, PoolInv
  PROVE  In(active) \cup In(next) \subseteq Holders
BY DEF PoolInv, Holders

LEMMA CaughtStays ==
  ASSUME [Next]_vars
  PROVE  caught => caught'
<1>1. ASSUME NEW t \in Threads, Fork(t)
      PROVE  caught => caught'
  BY <1>1 DEF Fork
<1> QED
  BY <1>1, CasesShort DEF AttachHits, AssignHit, ReleaseHits, Publish, history

\* Before a fork catches a release, a rule that keeps its slot is, to the
\* generation, the rule in force; one that does not gets a slot nobody holds.
LEMMA NewHolder ==
  ASSUME TypeInv, HoldInv, ActiveInv, PoolInv, AssignHit, ~ caught
  PROVE  \E x \in Texts, s \in Slots, new \in Rules :
           /\ new.text = x /\ new.hit = s /\ new.generation = generation[s] /\ next' = Append(next, new)
           /\ \/ \E a \in In(active) :
                   /\ a \in Holders /\ a.text = x /\ a.hit = s /\ a.generation = generation[s]
                   /\ claimed' = claimed
              \/ /\ s \notin used
                 /\ \A r \in Holders : r.hit = s => r.generation # generation[s]
                 /\ claimed' = [claimed EXCEPT ![s] = ClaimsNone(generation[s])]
<1>1. PICK x \in Texts, s \in Slots, new \in Rules :
           /\ new.text = x /\ new.hit = s /\ new.generation = generation[s] /\ next' = Append(next, new)
           /\ KeptFrom(x) # {} => /\ Least(KeptFrom(x)) \in KeptFrom(x)
                                  /\ s = active[Least(KeptFrom(x))].hit
                                  /\ claimed' = claimed
           /\ KeptFrom(x) = {} => /\ s \notin used
                                  /\ claimed' = [claimed EXCEPT ![s] = ClaimsNone(generation[s])]
  BY Assigned
<1>2. CASE KeptFrom(x) # {}
  <2>1. PICK a : a = active[Least(KeptFrom(x))]
    OBVIOUS
  <2>2. a \in In(active) /\ a.text = x /\ a.hit = s /\ a.hit # NoSlot
    BY <1>1, <1>2, <2>1 DEF KeptFrom, In
  <2>3. phase = "assigning"
    BY DEF AssignHit
  <2>4. a.generation = generation[s]
    BY <2>2, <2>3 DEF ActiveInv, Current
  <2>5. a \in Holders
    BY <2>2, SnapshotsHold
  <2> QED
    BY <1>1, <1>2, <2>2, <2>4, <2>5
<1>3. CASE KeptFrom(x) = {}
  <2>1. \A r \in Holders : r.hit = s => r.generation # generation[s]
    BY <1>1, <1>3 DEF HoldInv
  <2> QED
    BY <1>1, <1>3, <2>1
<1> QED
  BY <1>2, <1>3

LEMMA StepKey ==
  ASSUME TypeInv, HoldInv, NextInv, ActiveInv, PoolInv, KeyInv, [Next]_vars
  PROVE  KeyInv'
<1>1. SUFFICES ASSUME ~ caught'
               PROVE  /\ \A r, q \in Holders' : r.hit = q.hit /\ r.generation = q.generation => r.text = q.text
                      /\ \A r, q \in In(active)' : r.hit = q.hit => r.text = q.text
  BY DEF KeyInv
<1>2. /\ ~ caught
      /\ \A r, q \in Holders : r.hit = q.hit /\ r.generation = q.generation => r.text = q.text
      /\ \A r, q \in In(active) : r.hit = q.hit => r.text = q.text
  BY <1>1, CaughtStays DEF KeyInv
<1>3. CASE AssignHit
  <2>1. PICK x \in Texts, s \in Slots, new \in Rules :
           /\ new.text = x /\ new.hit = s /\ new.generation = generation[s] /\ next' = Append(next, new)
           /\ \/ \E a \in In(active) :
                   a \in Holders /\ a.text = x /\ a.hit = s /\ a.generation = generation[s]
              \/ \A r \in Holders : r.hit = s => r.generation # generation[s]
    BY <1>2, <1>3, NewHolder
  <2>2. Holders' \subseteq Holders \cup {new}
    BY <1>3, <2>1, HoldersGrow
  <2>3. \A r \in Holders : r.hit = new.hit /\ r.generation = new.generation => r.text = new.text
    BY <1>2, <2>1
  <2>4. In(active)' = In(active)
    BY <1>3 DEF AssignHit, In
  <2> QED
    BY <1>2, <2>2, <2>3, <2>4
<1>4. CASE ~ AssignHit
  <2>1. Holders' \subseteq Holders
    BY <1>4, HoldersStay
  <2>2. CASE active' = active
    <3>1. In(active)' = In(active)
      BY <2>2 DEF In
    <3> QED
      BY <1>2, <2>1, <3>1
  <2>3. CASE Publish
    <3>1. In(active)' = In(next)
      BY <2>3 DEF Publish, In
    <3>2. \A r \in In(next) : r \in Holders /\ r.generation = generation[r.hit]
      BY SnapshotsHold DEF NextInv, PoolInv, Current
    <3> QED
      BY <1>2, <2>1, <3>1, <3>2
  <2>4. active' = active \/ Publish
    <3>1. ASSUME NEW t \in Threads, Fork(t)
          PROVE  active' = active
      BY <3>1 DEF Fork
    <3> QED
      BY <3>1, CasesShort DEF AttachHits, AssignHit, ReleaseHits
  <2> QED
    BY <2>2, <2>3, <2>4
<1> QED
  BY <1>3, <1>4

LEMMA StepOwn ==
  ASSUME TypeInv, BoundInv, CallInv, HoldInv, ActiveInv, PoolInv, FreshInv, KeyInv, OwnInv,
         [Next]_vars, TypeInv'
  PROVE  OwnInv'
<1>1. /\ generation \in [Slots -> Nat] /\ claimed \in [Slots -> Nat]
      /\ granted \in [Texts \X Slots \X Generations -> Nat]
  BY DEF TypeInv
<1>2. SUFFICES ASSUME ~ caught', NEW r \in Holders', Tag(claimed'[r.hit]) = ClaimsNone(r.generation)
               PROVE  Claims(claimed'[r.hit]) = granted'[Key(r)]
  BY DEF OwnInv, Key
<1>3. /\ ~ caught
      /\ \A q \in Holders : Tag(claimed[q.hit]) = ClaimsNone(q.generation) => Claims(claimed[q.hit]) = granted[Key(q)]
  BY <1>2, CaughtStays DEF OwnInv
<1>4. \A q \in Holders : q.hit \in Slots /\ q.text \in Texts /\ q.generation \in Generations
                         /\ q.generation \in Nat
  BY HoldersAre, HoldersHistory
<1>5. CASE AssignHit
  <2>1. PICK x \in Texts, s \in Slots, new \in Rules :
           /\ new.text = x /\ new.hit = s /\ new.generation = generation[s] /\ next' = Append(next, new)
           /\ \/ \E a \in In(active) :
                   /\ a \in Holders /\ a.text = x /\ a.hit = s /\ a.generation = generation[s]
                   /\ claimed' = claimed
              \/ /\ s \notin used
                 /\ \A q \in Holders : q.hit = s => q.generation # generation[s]
                 /\ claimed' = [claimed EXCEPT ![s] = ClaimsNone(generation[s])]
    BY <1>3, <1>5, NewHolder
  <2>2. r \in Holders \cup {new}
    BY <1>5, <2>1, HoldersGrow
  <2>3. granted' = granted
    BY <1>5 DEF AssignHit, history
  <2>4. CASE \E a \in In(active) :
                   /\ a \in Holders /\ a.text = x /\ a.hit = s /\ a.generation = generation[s]
                   /\ claimed' = claimed
    <3>1. PICK a \in Holders : a.text = x /\ a.hit = s /\ a.generation = generation[s]
      BY <2>4
    <3>2. Key(new) = Key(a) /\ new.hit = a.hit /\ new.generation = a.generation
      BY <2>1, <3>1 DEF Key
    <3> QED
      BY <1>2, <1>3, <2>2, <2>3, <2>4, <3>2
  <2>5. CASE /\ s \notin used
             /\ \A q \in Holders : q.hit = s => q.generation # generation[s]
             /\ claimed' = [claimed EXCEPT ![s] = ClaimsNone(generation[s])]
    <3>1. generation[s] \in Nat /\ claimed'[s] = ClaimsNone(generation[s])
      BY <1>1, <2>5
    <3>2. Tag(claimed'[s]) = ClaimsNone(generation[s]) /\ Claims(claimed'[s]) = 0
      BY <3>1, NoClaims
    <3>3. CASE r.hit # s
      <4>1. r \in Holders /\ claimed'[r.hit] = claimed[r.hit]
        BY <1>1, <1>4, <2>1, <2>2, <2>5, <3>3
      <4> QED
        BY <1>2, <1>3, <2>3, <4>1
    <3>4. CASE r.hit = s
      <4>1. r.generation \in Nat
        BY <1>4, <2>1, <2>2, <3>1
      <4>2. r.generation = generation[s]
        BY <1>2, <3>1, <3>2, <3>4, <4>1, TagsDiffer
      <4>3. r = new
        BY <2>2, <2>5, <3>4, <4>2
      <4>4. generation[s] \in Generations
        BY GenerationsCover
      <4>5. granted[<<x, s, generation[s]>>] = 0
        BY <2>5, <4>4 DEF FreshInv
      <4>6. Key(r) = <<x, s, generation[s]>>
        BY <2>1, <4>3 DEF Key
      <4> QED
        BY <2>3, <3>2, <3>4, <4>5, <4>6
    <3> QED
      BY <3>3, <3>4
  <2> QED
    BY <2>1, <2>4, <2>5
<1>6. CASE ~ AssignHit
  <2>1. r \in Holders
    BY <1>2, <1>6, HoldersStay
  <2>2. r.hit \in Slots /\ r.text \in Texts /\ r.generation \in Generations /\ r.generation \in Nat
    BY <1>4, <2>1
  <2>3. CASE UNCHANGED <<claimed, granted>>
    BY <1>2, <1>3, <2>1, <2>3
  <2>4. ASSUME NEW t \in Threads, SwapClaimed(t), ~ UNCHANGED <<claimed, granted>>
        PROVE  Claims(claimed'[r.hit]) = granted'[Key(r)]
    <3>1. PICK y \in Texts, u \in Slots, h \in Generations : Draws(t, y, u, h)
      BY <2>4, Swapped
    <3>2. /\ granted' = [granted EXCEPT ![<<y, u, h>>] = @ + 1]
          /\ copy[t] \in Holders /\ copy[t].text = y /\ copy[t].hit = u /\ copy[t].generation = h
          /\ Tag(claimed[u]) = ClaimsNone(h)
          /\ Claims(claimed'[u]) = Claims(claimed[u]) + 1 /\ Tag(claimed'[u]) = Tag(claimed[u])
          /\ \A w \in Slots : w # u => claimed'[w] = claimed[w]
      BY <3>1 DEF Draws
    <3>3. CASE r.hit # u
      <4>1. claimed'[r.hit] = claimed[r.hit]
        BY <2>2, <3>2, <3>3
      <4>2. Key(r) = <<r.text, r.hit, r.generation>> /\ Key(r) # <<y, u, h>>
        BY <3>3 DEF Key
      <4>3. granted'[Key(r)] = granted[Key(r)]
        BY <1>1, <2>2, <3>2, <4>2, KeysUp
      <4> QED
        BY <1>2, <1>3, <2>1, <4>1, <4>3
    <3>4. CASE r.hit = u
      <4>1. ClaimsNone(r.generation) = ClaimsNone(h) /\ h \in Nat
        BY <1>2, <3>2, <3>4 DEF Generations
      <4>2. r.generation = h
        BY <2>2, <4>1, TagsDiffer
      <4>3. r.text = y
        BY <1>3, <2>1, <3>2, <3>4, <4>2 DEF KeyInv
      <4>4. Key(r) = <<y, u, h>>
        BY <3>4, <4>2, <4>3 DEF Key
      <4>5. granted'[Key(r)] = granted[Key(r)] + 1
        BY <1>1, <3>2, <4>4, KeysUp
      <4>6. Claims(claimed[u]) = granted[Key(r)]
        BY <1>3, <2>1, <3>2, <3>4, <4>2
      <4> QED
        BY <3>2, <3>4, <4>5, <4>6
    <3> QED
      BY <3>3, <3>4
  <2>5. ASSUME NEW t \in Threads, RecordHit(t)
        PROVE  UNCHANGED <<claimed, granted>>
    BY <2>5 DEF RecordHit
  <2>6. ASSUME NEW t \in Threads, Fork(t)
        PROVE  Claims(claimed'[r.hit]) = granted'[Key(r)]
    <3>1. granted' = Zero /\ claimed' = [s \in Slots |-> ClaimsNone(generation'[s])]
      BY <2>6 DEF Fork, ClaimsAfterFork
    <3>2. generation'[r.hit] \in Nat
      BY <2>2 DEF TypeInv
    <3>3. Claims(claimed'[r.hit]) = 0
      BY <2>2, <3>1, <3>2, NoClaims
    <3>4. granted'[Key(r)] = 0
      BY <2>2, <3>1 DEF Zero, Key
    <3> QED
      BY <3>3, <3>4
  <2> QED
    BY <1>6, <2>3, <2>4, <2>5, <2>6, OthersLeave
<1> QED
  BY <1>5, <1>6

-----------------------------------------------------------------------------
(* Rules with one text.                                                    *)

LEMMA StepKept ==
  ASSUME TypeInv, PoolInv, NextInv, KeptInv, [Next]_vars
  PROVE  KeptInv'
<1>1. active \in Seq(Rules) /\ next \in Seq(Rules)
  BY DEF TypeInv
<1>2. ASSUME active' = active
      PROVE  \A x : KeptFrom(x)' = KeptFrom(x)
  BY <1>2 DEF KeptFrom
<1>3. ASSUME next' = <<>>
      PROVE  KeptInv'
  BY <1>3 DEF KeptInv
<1>4. ASSUME NEW texts \in setting.files, AttachHits(texts)
      PROVE  next' = <<>>
  BY <1>4 DEF AttachHits, NextInv
<1>5. CASE AssignHit
  <2>1. PICK x \in Texts, s \in Slots, new \in Rules :
           /\ new.text = x /\ new.hit = s /\ next' = Append(next, new)
           /\ KeptFrom(x) # {} => s = active[Least(KeptFrom(x))].hit
    BY <1>5, Assigned
  <2>2. active' = active
    BY <1>5 DEF AssignHit
  <2>3. /\ DOMAIN next' = 1 .. Len(next) + 1 /\ next'[Len(next) + 1] = new
        /\ \A i \in 1 .. Len(next) : next'[i] = next[i]
        /\ DOMAIN next = 1 .. Len(next) /\ Len(next) \in Nat
    BY <1>1, <2>1, InAppend, InRules
  <2>4. SUFFICES ASSUME NEW i \in DOMAIN next', KeptFrom(next'[i].text) # {}
                 PROVE  next'[i].hit = active[Least(KeptFrom(next'[i].text))].hit
    BY <1>2, <2>2 DEF KeptInv
  <2>5. CASE i = Len(next) + 1
    BY <2>1, <2>3, <2>4, <2>5
  <2>6. CASE i \in DOMAIN next
    BY <2>3, <2>4, <2>6 DEF KeptInv
  <2> QED
    BY <2>3, <2>5, <2>6
<1>6. CASE Publish
  BY <1>3, <1>6 DEF Publish
<1>7. ASSUME NEW t \in Threads, Fork(t)
      PROVE  next' = <<>>
  BY <1>7 DEF Fork
<1>8. CASE UNCHANGED <<active, next>>
  BY <1>2, <1>8 DEF KeptInv
<1>9. CASE ReleaseHits
  BY <1>8, <1>9 DEF ReleaseHits
<1> QED
  BY <1>3, <1>4, <1>5, <1>6, <1>7, <1>8, <1>9, CasesShort

LEMMA StepCaught ==
  ASSUME TypeInv, CaughtInv, [Next]_vars
  PROVE  CaughtInv'
<1>1. ASSUME NEW t \in Threads, Fork(t)
      PROVE  CaughtInv'
  <2>1. forks' > 0
    BY <1>1 DEF Fork, TypeInv
  <2> QED
    BY <2>1 DEF CaughtInv
<1>2. CASE UNCHANGED <<caught, forks>>
  BY <1>2 DEF CaughtInv
<1>3. ASSUME (\E texts \in setting.files : AttachHits(texts)) \/ AssignHit \/ ReleaseHits \/ Publish
      PROVE  UNCHANGED <<caught, forks>>
  BY <1>3 DEF AttachHits, AssignHit, ReleaseHits, Publish, history
<1> QED
  BY <1>1, <1>2, <1>3, CasesShort

LEMMA LeastIsFirst ==
  ASSUME TypeInv, PoolInv, NEW i \in DOMAIN active, IsFirst(active, i)
  PROVE  KeptFrom(active[i].text) # {} /\ Least(KeptFrom(active[i].text)) = i
<1> DEFINE kept == KeptFrom(active[i].text)
<1>1. active \in Seq(Rules)
  BY DEF TypeInv
<1>2. DOMAIN active = 1 .. Len(active) /\ Len(active) \in Nat /\ active[i].hit # NoSlot
  BY <1>1, InRules DEF PoolInv
<1>3. i \in kept /\ kept \subseteq Nat
  BY <1>2 DEF KeptFrom
<1>4. \A k \in kept : active[k].text = active[i].text /\ k \in 1 .. Len(active)
  BY <1>2 DEF KeptFrom
<1>5. \A k \in kept : ~ (k \in 1 .. i - 1)
  BY <1>4 DEF IsFirst
<1> HIDE DEF kept
<1>6. Least(kept) \in kept /\ Least(kept) <= i
  BY <1>3, LeastIsIn
<1>7. Least(kept) \in 1 .. Len(active) /\ ~ (Least(kept) \in 1 .. i - 1)
  BY <1>4, <1>5, <1>6
<1>8. Least(kept) = i
  BY <1>2, <1>6, <1>7
<1> QED
  BY <1>3, <1>8 DEF kept

\* The first rule of a text is under the same key as in the other snapshot, or
\* under one that no later rule of the text is under.
LEMMA FirstKeys ==
  ASSUME TypeInv, PoolInv, NextInv, ActiveInv, KeptInv,
         NEW Q \in {active, next}, NEW k \in DOMAIN Q, IsFirst(Q, k),
         NEW R \in {active, next}, NEW i \in DOMAIN R, NEW j \in DOMAIN R, IsFirst(R, i),
         R[j].text = R[i].text, Key(R[j]) # Key(R[i])
  PROVE  Key(Q[k]) # Key(R[j])
<1>1. active \in Seq(Rules) /\ next \in Seq(Rules)
  BY DEF TypeInv
<1>2. SUFFICES ASSUME Key(Q[k]) = Key(R[j]) PROVE Key(R[j]) = Key(R[i])
  OBVIOUS
<1>3. Q[k].text = R[i].text /\ Q[k].hit = R[j].hit
  BY <1>2 DEF Key
<1>4. CASE Q = R
  <2>1. k \in Nat /\ i \in Nat /\ k >= 1 /\ i >= 1
    BY <1>1, InRules
  <2>2. ~ (k \in 1 .. i - 1) /\ ~ (i \in 1 .. k - 1)
    BY <1>3, <1>4 DEF IsFirst
  <2>3. k = i
    BY <2>1, <2>2
  <2> QED
    BY <1>2, <1>4, <2>3
<1>5. CASE Q = active /\ R = next
  <2>1. KeptFrom(R[i].text) # {} /\ Least(KeptFrom(R[i].text)) = k
    BY <1>3, <1>5, LeastIsFirst
  <2>2. R[i].hit = Q[k].hit
    BY <1>5, <2>1 DEF KeptInv
  <2>3. R[i] \in In(next) /\ R[j] \in In(next)
    BY <1>1, <1>5, InRules
  <2>4. R[i].generation = generation[R[i].hit] /\ R[j].generation = generation[R[j].hit]
    BY <2>3 DEF NextInv, PoolInv, Current
  <2> QED
    BY <1>3, <2>2, <2>4 DEF Key
<1>6. CASE Q = next /\ R = active
  <2>1. KeptFrom(Q[k].text) # {} /\ Least(KeptFrom(Q[k].text)) = i
    BY <1>3, <1>6, LeastIsFirst
  <2>2. Q[k].hit = R[i].hit
    BY <1>6, <2>1 DEF KeptInv
  <2>3. R[i] \in In(active) /\ R[j] \in In(active)
    BY <1>1, <1>6, InRules
  <2>4. R[i].generation = R[j].generation
    BY <1>3, <2>2, <2>3 DEF ActiveInv
  <2> QED
    BY <1>3, <2>2, <2>4 DEF Key
<1> QED
  BY <1>4, <1>5, <1>6

\* What a step of a caller makes of the copies.
LEMMA CallerCopies ==
  ASSUME TypeInv, NEW t \in Threads,
         CopyRule(t) \/ CheckGeneration(t) \/ LoadClaimed(t) \/ SwapClaimed(t) \/ RecordHit(t)
  PROVE  CopyRule(t) \/ copy' = copy \/ copy' = [copy EXCEPT ![t] = NoRule]
BY Dropped DEF CheckGeneration, LoadClaimed, SwapClaimed, RecordHit

LEMMA StepDup ==
  ASSUME TypeInv, BoundInv, CallInv, HoldInv, NextInv, ActiveInv, PoolInv, FreshInv, KeptInv, DupInv,
         [Next]_vars
  PROVE  DupInv'
<1>1. /\ active \in Seq(Rules) /\ next \in Seq(Rules) /\ copy \in [Threads -> Rules \cup {NoRule}]
      /\ granted \in [Texts \X Slots \X Generations -> Nat]
  BY DEF TypeInv
<1>2. SUFFICES ASSUME NEW R \in {active', next'}, NEW i \in DOMAIN R, NEW j \in DOMAIN R,
                      IsFirst(R, i), R[j].text = R[i].text, Key(R[j]) # Key(R[i])
               PROVE  granted'[Key(R[j])] = 0 /\ \A t \in Threads : Key(copy'[t]) # Key(R[j])
  BY DEF DupInv, Dup, Key
<1>3. ASSUME R \in {active, next}
      PROVE  /\ granted[Key(R[j])] = 0
             /\ \A t \in Threads : Key(copy[t]) # Key(R[j])
             /\ R[j].text \in Texts /\ R[j].hit \in Slots /\ R[j].generation \in Generations
  <2>1. granted[Key(R[j])] = 0 /\ \A t \in Threads : Key(copy[t]) # Key(R[j])
    BY <1>2, <1>3 DEF DupInv, Dup
  <2>2. R[j] \in Holders
    BY <1>1, <1>3, InRules, SnapshotsHold
  <2> QED
    BY <2>1, <2>2, HoldersAre, HoldersHistory
<1>4. CASE R \in {active, next} /\ UNCHANGED <<granted, copy>>
  BY <1>3, <1>4
<1>5. \A r : r.hit # NoSlot => Key(NoRule) # Key(r)
  BY DEF Key, NoRule
<1>6. NoSlot \notin Slots
  BY DEF NoSlot, Slots
<1>7. ASSUME NEW t \in Threads, R \in {active, next},
             CopyRule(t) \/ CheckGeneration(t) \/ LoadClaimed(t) \/ SwapClaimed(t) \/ RecordHit(t)
      PROVE  granted'[Key(R[j])] = 0 /\ \A u \in Threads : Key(copy'[u]) # Key(R[j])
  <2>1. \A u \in Threads : Key(copy'[u]) # Key(R[j])
    <3>1. CASE copy' = copy
      BY <1>3, <1>7, <3>1
    <3>2. CASE copy' = [copy EXCEPT ![t] = NoRule]
      BY <1>1, <1>3, <1>5, <1>6, <1>7, <3>2
    <3>3. CASE CopyRule(t)
      <4>1. PICK Q \in {active, next} : \E k \in DOMAIN Q :
              IsFirst(Q, k) /\ copy' = [copy EXCEPT ![t] = Q[k]]
        BY <3>3, Copied
      <4>2. PICK k \in DOMAIN Q : IsFirst(Q, k) /\ copy' = [copy EXCEPT ![t] = Q[k]]
        BY <4>1
      <4>3. Key(Q[k]) # Key(R[j])
        BY <1>2, <1>7, <4>2, FirstKeys
      <4> QED
        BY <1>1, <1>3, <1>7, <4>2, <4>3
    <3> QED
      BY <1>7, <3>1, <3>2, <3>3, CallerCopies
  <2>2. granted'[Key(R[j])] = 0
    <3>1. CASE UNCHANGED granted
      BY <1>3, <1>7, <3>1
    <3>2. CASE SwapClaimed(t) /\ ~ UNCHANGED granted
      <4>1. PICK x \in Texts, s \in Slots, g \in Generations : Draws(t, x, s, g)
        BY <3>2, Swapped
      <4>2. /\ granted' = [granted EXCEPT ![<<x, s, g>>] = @ + 1]
            /\ copy[t].text = x /\ copy[t].hit = s /\ copy[t].generation = g
        BY <4>1 DEF Draws
      <4>3. Key(R[j]) = <<R[j].text, R[j].hit, R[j].generation>> /\ Key(copy[t]) = <<x, s, g>>
        BY <4>2 DEF Key
      <4>4. Key(R[j]) # <<x, s, g>>
        BY <1>3, <1>7, <4>3
      <4>5. granted'[Key(R[j])] = granted[Key(R[j])]
        BY <1>1, <1>3, <1>7, <4>2, <4>3, <4>4, KeysUp
      <4> QED
        BY <1>3, <1>7, <4>5
    <3>3. SwapClaimed(t) \/ UNCHANGED granted
      BY <1>7 DEF CopyRule, CheckGeneration, LoadClaimed, RecordHit, history
    <3> QED
      BY <3>1, <3>2, <3>3
  <2> QED
    BY <2>1, <2>2
<1>8. CASE AssignHit
  <2>1. UNCHANGED <<active, granted, copy>>
    BY <1>8 DEF AssignHit, history, callers
  <2>2. CASE R = active
    BY <1>4, <2>1, <2>2
  <2>3. CASE R = next'
    <3>1. PICK x \in Texts, s \in Slots, new \in Rules :
           /\ new.text = x /\ new.hit = s /\ new.generation = generation[s] /\ next' = Append(next, new)
           /\ KeptFrom(x) # {} => s = active[Least(KeptFrom(x))].hit
           /\ KeptFrom(x) = {} => s \notin used
      BY <1>8, Assigned
    <3>2. /\ DOMAIN R = 1 .. Len(next) + 1 /\ R[Len(next) + 1] = new
          /\ \A k \in 1 .. Len(next) : R[k] = next[k]
          /\ DOMAIN next = 1 .. Len(next) /\ Len(next) \in Nat
      BY <1>1, <2>3, <3>1, InAppend, InRules
    <3>3. CASE i \in DOMAIN next /\ j \in DOMAIN next
      <4>1. IsFirst(next, i) /\ R[i] = next[i] /\ R[j] = next[j]
        BY <1>2, <3>2, <3>3 DEF IsFirst
      <4>2. granted[Key(next[j])] = 0 /\ \A t \in Threads : Key(copy[t]) # Key(next[j])
        BY <1>2, <3>3, <4>1 DEF DupInv, Dup
      <4> QED
        BY <2>1, <4>1, <4>2
    <3>4. CASE i \in DOMAIN next /\ j = Len(next) + 1
      <4>1. R[j] = new /\ R[i] = next[i] /\ next[i].text = x
        BY <1>2, <3>1, <3>2, <3>4
      <4>2. CASE KeptFrom(x) # {}
        <5>1. next[i].hit = s
          BY <3>1, <3>4, <4>1, <4>2 DEF KeptInv
        <5>2. next[i] \in In(next) /\ s # NoSlot
          BY <1>1, <1>6, <3>4, InRules
        <5>3. next[i].generation = generation[s]
          BY <5>1, <5>2 DEF NextInv, Current
        <5> QED
          BY <1>2, <3>1, <4>1, <5>1, <5>3 DEF Key
      <4>3. CASE KeptFrom(x) = {}
        <5>1. Key(R[j]) = <<x, s, generation[s]>>
          BY <3>1, <4>1 DEF Key
        <5>2. generation[s] \in Generations
          BY GenerationsCover
        <5>3. granted[Key(R[j])] = 0
          BY <3>1, <4>3, <5>1, <5>2 DEF FreshInv
        <5>4. ASSUME NEW t \in Threads, Key(copy[t]) = Key(R[j])
              PROVE  FALSE
          <6>1. copy[t].hit = s /\ copy[t].generation = generation[s] /\ s # NoSlot
            BY <1>6, <5>1, <5>4 DEF Key
          <6>2. copy[t] \in Holders
            BY <6>1 DEF Holders, Copies
          <6> QED
            BY <3>1, <4>3, <6>1, <6>2 DEF HoldInv
        <5> QED
          BY <2>1, <5>3, <5>4
      <4> QED
        BY <4>2, <4>3
    <3>5. CASE i = Len(next) + 1
      <4>1. j = i \/ j \in 1 .. i - 1
        BY <3>2, <3>5
      <4> QED
        BY <1>2, <4>1 DEF IsFirst
    <3> QED
      BY <3>2, <3>3, <3>4, <3>5
  <2> QED
    BY <2>1, <2>2, <2>3
<1>9. CASE Publish
  <2>1. active' = next /\ next' = <<>> /\ UNCHANGED <<granted, copy>>
    BY <1>9 DEF Publish, history, callers
  <2>2. R = next
    BY <2>1
  <2> QED
    BY <1>4, <2>1, <2>2
<1>10. ASSUME NEW t \in Threads, Fork(t)
       PROVE  granted'[Key(R[j])] = 0 /\ \A u \in Threads : Key(copy'[u]) # Key(R[j])
  <2>1. active' = active /\ next' = <<>> /\ granted' = Zero /\ copy' = [u \in Threads |-> NoRule]
    BY <1>10 DEF Fork
  <2>2. R \in {active, next}
    BY <2>1
  <2>3. granted'[Key(R[j])] = 0
    BY <1>3, <2>1, <2>2 DEF Zero, Key
  <2>4. R[j].hit # NoSlot
    BY <1>3, <1>6, <2>2
  <2> QED
    BY <1>5, <2>1, <2>3, <2>4
<1>11. ASSUME (\E texts \in setting.files : AttachHits(texts)) \/ ReleaseHits \/ UNCHANGED vars
       PROVE  R \in {active, next} /\ UNCHANGED <<granted, copy>>
  BY <1>11 DEF AttachHits, ReleaseHits, vars, history, callers
<1>12. ASSUME NEW t \in Threads,
              CopyRule(t) \/ CheckGeneration(t) \/ LoadClaimed(t) \/ SwapClaimed(t) \/ RecordHit(t)
       PROVE  R \in {active, next}
  BY <1>12, CallersLeave
<1> QED
  BY <1>4, <1>7, <1>8, <1>9, <1>10, <1>11, <1>12, Cases

-----------------------------------------------------------------------------
(* The inductive invariant.                                                *)

LEMMA InitInv ==
  ASSUME Init
  PROVE  HitSlotsInv
<1>1. TypeInv
  BY InitType
<1>2. /\ setting.pool \in Nat /\ setting.forks \in Nat /\ MaxReloads \in Nat /\ MaxForks \in Nat
      /\ First \in [Texts -> Nat]
  BY <1>1, SettingIs
<1>3. /\ active = <<>> /\ next = <<>> /\ todo = <<>> /\ phase = "idle" /\ used = {} /\ caught = FALSE
      /\ reloads = 0 /\ forks = 0 /\ pc = [t \in Threads |-> "idle"]
      /\ generation = [s \in Slots |-> 1] /\ claimed = [s \in Slots |-> ClaimsNone(1)]
      /\ count = [s \in Slots |-> 0] /\ granted = Zero /\ recorded = Zero
  BY DEF Init
<1>4. In(active) = {} /\ In(next) = {} /\ HitsOf(active) = {} /\ Len(active) = 0 /\ Len(next) = 0
      /\ Len(todo) = 0 /\ DOMAIN active = {} /\ DOMAIN next = {}
  BY <1>3 DEF In, HitsOf
<1>5. Holders = {}
  <2>1. \A r \in Copies : r.hit = NoSlot
    <3>1. NoRule.hit = NoSlot /\ \A t \in Threads : copy[t] = NoRule
      BY DEF Init, NoRule
    <3> QED
      BY <3>1 DEF Copies
  <2> QED
    BY <1>4, <2>1 DEF Holders
<1>6. BoundInv
  BY <1>2, <1>3 DEF BoundInv
<1>7. CallInv
  BY <1>3 DEF CallInv
<1>8. HoldInv /\ KeyInv /\ OwnInv
  BY <1>4, <1>5 DEF HoldInv, KeyInv, OwnInv
<1>9. NextInv /\ ActiveInv
  BY <1>3, <1>4 DEF NextInv, ActiveInv
<1>10. PoolInv
  BY <1>2, <1>3, <1>4 DEF PoolInv
<1>11. FreshInv
  BY <1>3 DEF FreshInv, Zero
<1>12. HitsInv
  <2>1. 1 \in Generations
    BY <1>2 DEF Generations
  <2> QED
    BY <1>3, <2>1 DEF HitsInv, Zero
<1>13. WordInv
  <2>1. \A s \in Slots : claimed[s] \in Nat
    BY <1>1 DEF TypeInv
  <2>2. \A s \in Slots : Claims(claimed[s]) \in 0 .. ClaimSpan - 1
    BY <2>1, WordParts
  <2>3. ClaimSpan \in Nat /\ \A n \in 0 .. ClaimSpan - 1 : 0 <= n
    BY ConstantsAssumption
  <2>4. \A s \in Slots : 0 <= Claims(claimed[s])
    BY <2>2, <2>3
  <2>5. \A x \in Texts : 0 <= First[x]
    BY <1>2
  <2>6. \A x \in Texts, s \in Slots, g \in Generations : granted[<<x, s, g>>] = 0
    BY <1>3 DEF Zero
  <2> QED
    BY <2>4, <2>5, <2>6 DEF WordInv
<1>14. TagInv
  BY <1>4 DEF TagInv
<1>15. KeptInv /\ DupInv
  BY <1>4 DEF KeptInv, DupInv, Dup
<1>16. CaughtInv
  BY <1>3 DEF CaughtInv
<1> QED
  BY <1>1, <1>6, <1>7, <1>8, <1>9, <1>10, <1>11, <1>12, <1>13, <1>14, <1>15, <1>16 DEF HitSlotsInv

LEMMA StepInv ==
  ASSUME HitSlotsInv, [Next]_vars
  PROVE  HitSlotsInv'
<1>1. /\ TypeInv /\ BoundInv /\ CallInv /\ HoldInv /\ NextInv /\ ActiveInv /\ PoolInv
      /\ FreshInv /\ HitsInv /\ WordInv /\ TagInv /\ KeyInv /\ OwnInv /\ KeptInv /\ DupInv /\ CaughtInv
  BY DEF HitSlotsInv
<1>2. TypeInv'
  BY <1>1, StepType
<1>3. BoundInv'
  BY <1>1, StepBound
<1>4. CallInv'
  BY <1>1, StepCall
<1>5. HoldInv'
  BY <1>1, StepHold
<1>6. NextInv'
  BY <1>1, StepNext
<1>7. ActiveInv'
  BY <1>1, StepActive
<1>8. PoolInv'
  BY <1>1, StepPool
<1>9. FreshInv'
  BY <1>1, StepFresh
<1>10. HitsInv'
  BY <1>1, <1>2, <1>3, StepHits
<1>11. WordInv'
  BY <1>1, <1>2, StepWord
<1>12. TagInv'
  BY <1>1, StepTag
<1>13. KeyInv'
  BY <1>1, StepKey
<1>14. OwnInv'
  BY <1>1, <1>2, StepOwn
<1>15. KeptInv'
  BY <1>1, StepKept
<1>16. DupInv'
  BY <1>1, StepDup
<1>17. CaughtInv'
  BY <1>1, StepCaught
<1> QED
  BY <1>2, <1>3, <1>4, <1>5, <1>6, <1>7, <1>8, <1>9, <1>10, <1>11, <1>12, <1>13, <1>14, <1>15, <1>16,
     <1>17 DEF HitSlotsInv

\* chaos_hits.h with its one owner of reloads: whatever callers, reloads and
\* forks do, slots follow their rules as the parts of the invariant say.
THEOREM InvariantHolds == Spec => []HitSlotsInv
<1>1. Init => HitSlotsInv
  BY InitInv
<1>2. HitSlotsInv /\ [Next]_vars => HitSlotsInv'
  BY StepInv
<1> QED
  BY <1>1, <1>2, PTL DEF Spec

\* The pool, the snapshots and the callers of chaos_hits.h, chaos_policy.h and
\* chaos_io_config.c are always well formed, generations within their bound.
THEOREM TypeCorrect == Spec => []TypeOK
<1>1. HitSlotsInv => TypeOK
  <2>1. SUFFICES ASSUME TypeInv, BoundInv PROVE TypeOK
    BY DEF HitSlotsInv
  <2>2. generation \in [Slots -> Generations]
    BY <2>1, GenerationsCover DEF TypeInv
  <2>3. \A t \in Threads : copy[t] \in Rules \cup {NoRule} /\ seen[t] \in Nat
    BY <2>1 DEF TypeInv
  <2> QED
    BY <2>1, <2>2, <2>3 DEF TypeOK, TypeInv
<1> QED
  BY <1>1, InvariantHolds, PTL

LEMMA InForceIs ==
  ASSUME HitSlotsInv
  PROVE  InForce = In(active) /\ InForce \subseteq Holders /\ active \in Seq(Rules)
BY SnapshotsHold DEF InForce, In, HitSlotsInv, TypeInv

\* No hit of a rule in force is lost: chaos_hits_assign does not clear the slot
\* of a rule that stays, whichever reloads and copies its callers straddle.
THEOREM HitsStayKept == Spec => []HitsAreKept
<1>1. HitSlotsInv => HitsAreKept
  <2>1. SUFFICES ASSUME HitSlotsInv, NEW r \in InForce, Current(r), r.hit # NoSlot
                 PROVE  count[r.hit] >= recorded[Key(r)]
    BY DEF HitsAreKept
  <2>2. r.text \in Texts /\ r.hit \in Slots
    BY <2>1, InForceIs, HoldersAre DEF HitSlotsInv
  <2>3. Key(r) = <<r.text, r.hit, generation[r.hit]>>
    BY <2>1 DEF Current, Key
  <2>4. recorded[<<r.text, r.hit, generation[r.hit]>>] <= count[r.hit]
    BY <2>1, <2>2 DEF HitSlotsInv, HitsInv
  <2>5. generation[r.hit] \in Generations
    BY <2>1, <2>2, GenerationsCover DEF HitSlotsInv
  <2>6. recorded[<<r.text, r.hit, generation[r.hit]>>] \in Nat /\ count[r.hit] \in Nat
    BY <2>1, <2>2, <2>5 DEF HitSlotsInv, TypeInv
  <2> QED
    BY <2>3, <2>4, <2>6
<1> QED
  BY <1>1, InvariantHolds, PTL

\* chaos_policy_fire grants a rule in force at most @first=N calls in this
\* process, callers racing and copies from before a reload included, and grants
\* none to a later rule with the same text.
THEOREM AllowanceHolds == Spec => []FirstAllowance
<1>1. HitSlotsInv => FirstAllowance
  <2>1. SUFFICES ASSUME HitSlotsInv, NEW r \in Selectable(active), NEW q \in InForce,
                        First[r.text] # 0, q.hit # NoSlot, q.text = r.text
                 PROVE  granted[Key(q)] <= IF Key(q) = Key(r) THEN First[r.text] ELSE 0
    BY DEF FirstAllowance
  <2>2. active \in Seq(Rules)
    BY <2>1 DEF HitSlotsInv, TypeInv
  <2>3. PICK i \in DOMAIN active : IsFirst(active, i) /\ r = active[i]
    BY <2>2, SelectableAreFirst
  <2>4. PICK j \in DOMAIN active : q = active[j]
    BY DEF InForce
  <2>5. q.text \in Texts /\ q.hit \in Slots /\ q.generation \in Generations
    BY <2>1, InForceIs, HoldersAre, HoldersHistory DEF HitSlotsInv
  <2>6. CASE Key(q) = Key(r)
    <3>1. granted[<<q.text, q.hit, q.generation>>] <= First[q.text]
      BY <2>1, <2>5 DEF HitSlotsInv, WordInv
    <3> QED
      BY <2>1, <2>6, <3>1 DEF Key
  <2>7. CASE Key(q) # Key(r)
    <3>1. granted[Key(q)] = 0
      BY <2>1, <2>3, <2>4, <2>7 DEF HitSlotsInv, DupInv, Dup
    <3> QED
      BY <2>7, <3>1
  <2> QED
    BY <2>6, <2>7
<1> QED
  BY <1>1, InvariantHolds, PTL

\* The claim word of a rule in force is tagged for it and, unless a fork has
\* caught a reload, counts its claims and no other rule's: chaos_policy_fire's
\* exchange fails for a copy that a reload has outdated.
THEOREM ClaimsStayOwn == Spec => []ClaimsAreOwn
<1>1. HitSlotsInv => ClaimsAreOwn
  <2>1. SUFFICES ASSUME HitSlotsInv, NEW r \in InForce, Current(r), r.hit # NoSlot
                 PROVE  /\ Tag(claimed[r.hit]) = ClaimsNone(r.generation)
                        /\ ~ caught => Claims(claimed[r.hit]) = granted[Key(r)]
    BY DEF ClaimsAreOwn
  <2>2. r \in In(active) /\ r \in Holders /\ generation[r.hit] = r.generation
    BY <2>1, InForceIs DEF Current
  <2>3. Tag(claimed[r.hit]) = ClaimsNone(r.generation)
    <3>1. CASE phase # "released"
      BY <2>1, <2>2, <3>1 DEF HitSlotsInv, TagInv
    <3>2. CASE phase = "released"
      <4>1. r.hit \in used
        BY <2>1, <2>2 DEF HitSlotsInv, HoldInv
      <4>2. r.hit \in HitsOf(next)
        BY <2>1, <3>2, <4>1 DEF HitSlotsInv, PoolInv
      <4>3. PICK q \in In(next) : q.hit = r.hit
        BY <4>2 DEF HitsOf, In
      <4>4. Tag(claimed[q.hit]) = ClaimsNone(generation[q.hit])
        BY <2>1 DEF HitSlotsInv, TagInv
      <4> QED
        BY <2>2, <4>3, <4>4
    <3> QED
      BY <3>1, <3>2
  <2>4. ~ caught => Claims(claimed[r.hit]) = granted[Key(r)]
    BY <2>1, <2>2, <2>3 DEF HitSlotsInv, OwnInv
  <2> QED
    BY <2>3, <2>4
<1> QED
  BY <1>1, InvariantHolds, PTL

\* chaos_hits.h:212 sizes the pool so that it never runs out, in children forked
\* in the middle of reloads too: every rule in force has a slot, and between
\* reloads none is outdated.
THEOREM RulesStayFiring == Spec => []RulesCanFire
<1>1. HitSlotsInv => RulesCanFire
  <2>1. SUFFICES ASSUME HitSlotsInv, NEW r \in InForce
                 PROVE  r.hit # NoSlot /\ (phase = "idle" => Current(r) /\ r.hit \in used)
    BY DEF RulesCanFire
  <2>2. r \in In(active) /\ r \in Holders
    BY <2>1, InForceIs
  <2>3. r.hit # NoSlot
    BY <2>1, <2>2 DEF HitSlotsInv, PoolInv
  <2>4. phase = "idle" => Current(r)
    BY <2>1, <2>2 DEF HitSlotsInv, ActiveInv
  <2>5. Current(r) => r.hit \in used
    BY <2>1, <2>2, <2>3 DEF HitSlotsInv, HoldInv, Current
  <2> QED
    BY <2>3, <2>4, <2>5
<1> QED
  BY <1>1, InvariantHolds, PTL

\* chaos_hits_assign gives rules of different texts different slots, in every
\* process that no fork put between a release and its publication.
THEOREM SlotsStayOwn == Spec => []SlotsAreOwn
<1>1. HitSlotsInv => SlotsAreOwn
  BY InForceIs DEF HitSlotsInv, KeyInv, SlotsAreOwn, SlotsNeverShared
<1> QED
  BY <1>1, InvariantHolds, PTL

\* The claims of a rule in force only grow: its slot is in use, and no other
\* rule is given it.
LEMMA ClaimsGrow ==
  ASSUME HitSlotsInv, [Next]_vars, forks' = forks, ~ caught, active' = active,
         NEW r \in In(active)
  PROVE  Claims(claimed'[r.hit]) >= Claims(claimed[r.hit])
<1>1. /\ TypeInv /\ BoundInv /\ CallInv /\ HoldInv /\ ActiveInv /\ PoolInv
      /\ claimed \in [Slots -> Nat] /\ forks \in Nat
  BY DEF HitSlotsInv, TypeInv
<1>2. r \in Holders /\ r.hit \in Slots /\ r.hit # NoSlot
  BY <1>1, SnapshotsHold, HoldersAre DEF Holders
<1>3. Claims(claimed[r.hit]) \in 0 .. ClaimSpan - 1 /\ ClaimSpan \in Nat
  BY <1>1, <1>2, WordParts, ConstantsAssumption
<1>4. CASE claimed'[r.hit] = claimed[r.hit]
  BY <1>3, <1>4
<1>5. ASSUME AssignHit
      PROVE  claimed'[r.hit] = claimed[r.hit]
  <2>1. phase = "assigning"
    BY <1>5 DEF AssignHit
  <2>2. r.hit \in used
    BY <1>1, <1>2, <2>1 DEF ActiveInv, HoldInv, Current
  <2>3. PICK s \in Slots :
           \/ claimed' = claimed
           \/ s \notin used /\ claimed' = [claimed EXCEPT ![s] = ClaimsNone(generation[s])]
    BY <1>1, <1>5, Assigned
  <2> QED
    BY <1>1, <1>2, <2>2, <2>3
<1>6. ASSUME NEW t \in Threads, SwapClaimed(t), ~ UNCHANGED <<claimed, granted>>
      PROVE  \/ claimed'[r.hit] = claimed[r.hit]
             \/ Claims(claimed'[r.hit]) = Claims(claimed[r.hit]) + 1
  <2>1. PICK x \in Texts, s \in Slots, g \in Generations : Draws(t, x, s, g)
    BY <1>1, <1>6, Swapped
  <2>2. /\ Claims(claimed'[s]) = Claims(claimed[s]) + 1
        /\ \A u \in Slots : u # s => claimed'[u] = claimed[u]
    BY <2>1 DEF Draws
  <2> QED
    BY <1>2, <2>2
<1>7. ASSUME NEW t \in Threads, RecordHit(t)
      PROVE  claimed' = claimed
  BY <1>7 DEF RecordHit
<1>8. ASSUME NEW t \in Threads, Fork(t)
      PROVE  FALSE
  <2>1. forks' = forks + 1
    BY <1>8 DEF Fork
  <2> QED
    BY <1>1, <2>1
<1>9. CASE Claims(claimed'[r.hit]) = Claims(claimed[r.hit]) + 1
  BY <1>3, <1>9
<1> QED
  BY <1>4, <1>5, <1>6, <1>7, <1>8, <1>9, OthersLeave

\* The rules of the next snapshot that stay are those in force.
LEMMA PublishedKeys ==
  ASSUME HitSlotsInv, ~ caught, phase = "released",
         NEW i \in DOMAIN active, IsFirst(active, i),
         NEW k \in DOMAIN next, next[k].text = active[i].text
  PROVE  Key(next[k]) = Key(active[i])
<1>1. TypeInv /\ PoolInv /\ NextInv /\ ActiveInv /\ KeptInv
  BY DEF HitSlotsInv
<1>2. active \in Seq(Rules) /\ next \in Seq(Rules)
  BY <1>1 DEF TypeInv
<1>3. next[k].hit = active[i].hit
  BY <1>1, LeastIsFirst DEF KeptInv
<1>4. active[i] \in In(active) /\ next[k] \in In(next)
  BY <1>2, InRules
<1>5. next[k].hit # NoSlot
  BY <1>1, <1>4 DEF PoolInv
<1>6. active[i].hit \in HitsOf(next)
  BY <1>3, <1>5 DEF HitsOf
<1>7. active[i].generation = generation[active[i].hit]
  BY <1>1, <1>3, <1>4, <1>5, <1>6 DEF ActiveInv, Current
<1>8. next[k].generation = generation[next[k].hit]
  BY <1>1, <1>4, <1>5 DEF NextInv, Current
<1> QED
  BY <1>3, <1>7, <1>8 DEF Key

\* chaos_hits_assign and chaos_hits_release reset nothing of a rule that stays:
\* it keeps its slot, its generation and its claims through every publication.
THEOREM KeptSlotsStay == Spec => KeptRulesKeepSlots
<1>1. HitSlotsInv /\ [Next]_vars => [forks' = 0 => SlotsKept]_vars
  <2>1. SUFFICES ASSUME HitSlotsInv, [Next]_vars, forks' = 0,
                        NEW r \in Selectable(active), r.text \in TextsOf(active')
                 PROVE  \E q \in Selectable(active') :
                          /\ Key(q) = Key(r)
                          /\ Claims(claimed'[q.hit]) >= Claims(claimed[r.hit])
    BY DEF SlotsKept
  <2>2. TypeInv /\ active \in Seq(Rules) /\ next \in Seq(Rules) /\ forks \in Nat /\ claimed \in [Slots -> Nat]
    BY <2>1 DEF HitSlotsInv, TypeInv
  <2>3. PICK i \in DOMAIN active : IsFirst(active, i) /\ r = active[i]
    BY <2>1, <2>2, SelectableAreFirst
  <2>4. r \in In(active) /\ r.hit \in Slots
    BY <2>1, <2>2, <2>3, InRules, SnapshotsHold, HoldersAre DEF HitSlotsInv
  <2>5. forks' = forks /\ forks = 0
    <3>1. ASSUME NEW t \in Threads, Fork(t)
          PROVE  FALSE
      <4>1. forks' = forks + 1
        BY <3>1 DEF Fork
      <4> QED
        BY <2>1, <2>2, <4>1
    <3>2. forks' = forks
      BY <2>1, <3>1, CasesShort DEF AttachHits, AssignHit, ReleaseHits, Publish
    <3> QED
      BY <2>1, <3>2
  <2>6. ~ caught
    BY <2>1, <2>5 DEF HitSlotsInv, CaughtInv
  <2>7. CASE active' = active
    <3>1. Claims(claimed'[r.hit]) >= Claims(claimed[r.hit])
      BY <2>1, <2>4, <2>5, <2>6, <2>7, ClaimsGrow
    <3> QED
      BY <2>1, <2>7, <3>1
  <2>8. CASE Publish
    <3>1. phase = "released" /\ active' = next /\ claimed' = claimed
      BY <2>8 DEF Publish, slots
    <3> DEFINE same == {k \in DOMAIN next : next[k].text = r.text}
    <3>2. same # {} /\ same \subseteq Nat
      BY <2>1, <2>2, <3>1, InRules DEF TextsOf
    <3>3. PICK k \in same : \A m \in same : k <= m
      BY <3>2, LeastIsIn
    <3>4. k \in DOMAIN next /\ next[k].text = r.text /\ DOMAIN next = 1 .. Len(next) /\ Len(next) \in Nat
      BY <2>2, <3>3, InRules
    <3>5. IsFirst(next, k)
      BY <3>3, <3>4 DEF IsFirst
    <3>6. next[k] \in Selectable(active')
      BY <2>2, <3>1, <3>4, <3>5, SelectableAreFirst
    <3>7. Key(next[k]) = Key(r)
      BY <2>1, <2>3, <2>6, <3>1, <3>4, PublishedKeys
    <3>8. next[k].hit = r.hit
      BY <3>7 DEF Key
    <3>9. Claims(claimed[r.hit]) \in 0 .. ClaimSpan - 1 /\ ClaimSpan \in Nat
      BY <2>2, <2>4, WordParts, ConstantsAssumption
    <3>10. Claims(claimed'[next[k].hit]) >= Claims(claimed[r.hit])
      BY <3>1, <3>8, <3>9
    <3> QED
      BY <3>6, <3>7, <3>10
  <2>9. active' = active \/ Publish
    <3>1. ASSUME NEW t \in Threads, Fork(t)
          PROVE  active' = active
      BY <3>1 DEF Fork
    <3> QED
      BY <2>1, <3>1, CasesShort DEF AttachHits, AssignHit, ReleaseHits
  <2> QED
    BY <2>7, <2>8, <2>9
<1> QED
  BY <1>1, InvariantHolds, PTL DEF Spec, KeptRulesKeepSlots

=============================================================================
