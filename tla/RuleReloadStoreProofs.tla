------------------------ MODULE RuleReloadStoreProofs ------------------------
(***************************************************************************)
(* The proof that the reload protocol implements the abstract rule store,  *)
(* for every set of threads and every bound.  It rests on ReloadInv and on *)
(* what the history variable holds: every snapshot a reader may be looking *)
(* at, and would accept a copy of, was offered to its call.                *)
(***************************************************************************)
EXTENDS RuleReloadStore, RuleReloadProofs

Whole(s) == ~IsOdd(seq[s]) /\ seq[s] # 0

\* The rule sets call t may be answered from are among those offered.
OfferOf(t) ==
  /\ pc[t] = "app" <=> offered[t] = {}
  /\ pc[t] # "app" => {words[active][2]} \cup NextRules \subseteq offered[t]
  /\ pc[t] \in ReaderLabels /\ Whole(at[t]) => words[at[t]][2] \in offered[t]

OfferInv ==
  /\ offered \in [Threads -> SUBSET Words]
  /\ \A t \in Threads : OfferOf(t)

LEMMA OfferInit == HInit => OfferInv
  BY DEF HInit, Init, OfferInv, OfferOf, ReaderLabels

LEMMA NextRulesType ==
  ASSUME TypeOK
  PROVE  NextRules \subseteq Words /\ words[active][2] \in Words
  BY ActiveType DEF TypeOK, SharedType, NextRules

\* What a step of HNext does to the offers of a call that goes on, and to
\* those of a thread that is idle after it.
LEMMA OfferFrame ==
  ASSUME HNext, NEW t \in Threads
  PROVE  /\ pc'[t] = "app" => offered'[t] = {}
         /\ pc'[t] # "app" /\ pc[t] # "app" => offered'[t] = offered[t] \cup NextRules'
         /\ pc'[t] # "app" /\ pc[t] = "app" => offered'[t] = {words[active][2]} \cup NextRules'
  BY DEF HNext

LEMMA OfferType ==
  ASSUME TypeOK, TypeOK', OfferInv, HNext
  PROVE  offered' \in [Threads -> SUBSET Words]
<1>1. NextRules' \subseteq Words /\ words[active][2] \in Words
  <2>1. words' \in [Snaps -> Words \X Words] /\ active' \in Snaps
    BY DEF TypeOK, SharedType
  <2>2. 1 - active' \in Snaps
    <3>1. \A s \in {0, 1} : 1 - s \in {0, 1}
      OBVIOUS
    <3> QED
      BY <2>1, <3>1 DEF Snaps
  <2>3. words'[1 - active'][2] \in Words
    BY <2>1, <2>2
  <2>4. NextRules' \subseteq Words
    BY <2>3 DEF NextRules
  <2> QED
    BY <2>4, NextRulesType
<1>2. DOMAIN offered' = Threads /\ offered' = [t \in Threads |-> offered'[t]]
  BY DEF HNext
<1>3. ASSUME NEW t \in Threads
      PROVE  offered'[t] \in SUBSET Words
  BY <1>1, OfferFrame DEF OfferInv
<1> QED
  BY <1>2, <1>3

-----------------------------------------------------------------------------
(* What one step of a thread may change of what a call can see.            *)

\* Nobody else's locals, and of the snapshots at most the owner's.
LEMMA StepFrame ==
  ASSUME TypeOK, NEW t \in Threads, Step(t)
  PROVE  /\ \A u \in Threads \ {t} :
              /\ pc'[u] = pc[u] /\ sequence'[u] = sequence[u] /\ at'[u] = at[u]
              /\ answer'[u] = answer[u]
         /\ pc[t] \notin WriterLabels \cup {"begin"} => UNCHANGED <<seq, words>>
         /\ pc[t] # "flip" => active' = active
  BY DEF Step, EnterWrapper, StatFile, LoadCached, Decide, Claim, BeginRewrite, ResetState, WipeHead,
     WipeTail, LoadMissing, TransientError, OpenFile, ReadFile, CheckStamp, CompareContent,
     FillSnapshot, RejectFile, Report, EndRewrite, Flip, Release, Gate, LoadIndex, SampleSequence,
     CheckCount, SelectRule, CopyWord, Validate, Return, Goto, WriterLabels, OwnerLabels, shared, locals,
     TypeOK, LocalsType

\* Where a step goes, by where it starts.
LEMMA StepLabels ==
  ASSUME TypeOK, NEW t \in Threads, Step(t)
  PROVE  /\ pc'[t] = "flip" => EndRewrite(t)
         /\ pc[t] = "flip" => Flip(t)
         /\ pc'[t] = "app" => Gate(t) \/ CheckCount(t) \/ Validate(t)
         /\ pc[t] = "app" => EnterWrapper(t)
         /\ pc'[t] \in ReaderLabels =>
              \/ LoadIndex(t)
              \/ pc[t] \in ReaderLabels /\ at'[t] = at[t]
         /\ pc'[t] \in {"count", "copy1", "copy2", "valid"} =>
              \/ SampleSequence(t)
              \/ pc[t] \in {"count", "copy1", "copy2", "valid"} /\ sequence'[t] = sequence[t]
         /\ answer'[t] = answer[t] \/ EnterWrapper(t) \/ CheckCount(t) \/ Validate(t)
<1>1. \A l : Goto(t, l) => pc'[t] = l
  BY DEF Goto, TypeOK, LocalsType
<1> QED
  BY <1>1 DEF Step, EnterWrapper, StatFile, LoadCached, Decide, Claim, BeginRewrite, ResetState, WipeHead,
     WipeTail, LoadMissing, TransientError, OpenFile, ReadFile, CheckStamp, CompareContent,
     FillSnapshot, RejectFile, Report, EndRewrite, Flip, Release, Gate, LoadIndex, SampleSequence,
     CheckCount, SelectRule, CopyWord, Validate, Return, ReaderLabels, shared, locals

\* A snapshot a step changes is not whole after it, or on its way.
LEMMA SnapshotStep ==
  ASSUME TypeOK, OneReloader, Snapshots, NEW t \in Threads, Step(t), NEW s \in Snaps
  PROVE  \/ seq'[s] = seq[s] /\ words'[s] = words[s]
         \/ ~Whole(s)'
         \/ EndRewrite(t) /\ s = at[t]
<1>1. at[t] \in Snaps /\ sequence[t] \in Nat /\ active \in Snaps
  BY DEF TypeOK, SharedType, LocalsType
<1>2. pc[t] \in WriterLabels => IsOdd(sequence[t])
        /\ seq[at[t]] = IF pc[t] \in WindowLabels THEN 0 ELSE sequence[t]
  BY DEF Snapshots, RewritesAreMarked
<1>3. CASE pc[t] \notin WriterLabels \cup {"begin"}
  BY <1>3, StepFrame
<1>4. CASE BeginRewrite(t)
  <2> DEFINE next == 1 - active
             odd  == IF IsOdd(seq[next]) THEN seq[next] ELSE seq[next] + 1
  <2>1. next \in Snaps /\ seq[next] \in Nat /\ IsOdd(odd)
    BY ActiveType, Parity DEF TypeOK, SharedType
  <2>2. seq' = [seq EXCEPT ![next] = odd] /\ words' = words
    BY <1>4 DEF BeginRewrite, NextIndex
  <2> HIDE DEF odd
  <2> QED
    BY <2>1, <2>2 DEF Whole, TypeOK, SharedType
<1>5. ASSUME NEW from \in WriterLabels, NEW to, NEW ok,
             WipeHead(t, from, to) \/ WipeTail(t, from, to, ok)
      PROVE  (seq'[s] = seq[s] /\ words'[s] = words[s]) \/ ~Whole(s)'
  BY <1>1, <1>2, <1>5 DEF WipeHead, WipeTail, Whole, TypeOK, SharedType
<1>6. CASE ResetState(t) \/ RejectFile(t)
  BY <1>5, <1>6 DEF ResetState, RejectFile, WriterLabels, OwnerLabels
<1>7. CASE FillSnapshot(t)
  <2>1. seq' = seq /\ IsOdd(seq[at[t]])
    BY <1>2, <1>7 DEF FillSnapshot, WriterLabels, OwnerLabels, WindowLabels
  <2>2. s # at[t] => words'[s] = words[s]
    BY <1>7 DEF FillSnapshot, TypeOK, SharedType
  <2> QED
    BY <2>1, <2>2 DEF Whole
<1>8. CASE EndRewrite(t)
  BY <1>8 DEF EndRewrite, TypeOK, SharedType
<1>9. CASE UNCHANGED <<seq, words>>
  BY <1>9
<1> QED
  BY <1>3, <1>4, <1>6, <1>7, <1>8, <1>9 DEF Step, EnterWrapper, StatFile, LoadCached, Decide, Claim,
     LoadMissing, TransientError, OpenFile, ReadFile, CheckStamp, CompareContent,
     Report, Flip, Release, Gate, LoadIndex, SampleSequence,
     CheckCount, SelectRule, CopyWord, Validate, Return, shared, locals

\* What is on its way only changes when a rewrite ends or is published.
LEMMA NextRulesStep ==
  ASSUME TypeOK, OneReloader, Snapshots, NEW t \in Threads, Step(t)
  PROVE  /\ EndRewrite(t) => NextRules = {} /\ NextRules' = {words[at[t]][2]} /\ words' = words
         /\ Flip(t) => NextRules = {words[active'][2]} /\ NextRules' = {} /\ words' = words
         /\ ~EndRewrite(t) /\ ~Flip(t) => NextRules' = NextRules
<1>1. pc' = [pc EXCEPT ![t] = pc'[t]]
  BY StepFrame DEF TypeOK, LocalsType, Step, EnterWrapper, StatFile, LoadCached, Decide, Claim, BeginRewrite,
     ResetState, WipeHead, WipeTail, LoadMissing, TransientError, OpenFile, ReadFile, CheckStamp,
     CompareContent, FillSnapshot, RejectFile, Report, EndRewrite, Flip, Release, Gate, LoadIndex,
     SampleSequence, CheckCount, SelectRule, CopyWord, Validate, Return, Goto
<1>2. ASSUME Owner(t)
      PROVE  \A u \in Threads \ {t} : pc[u] # "flip" /\ pc'[u] # "flip"
  BY <1>2, OneWriter, StepFrame
<1>3. CASE EndRewrite(t)
  <2>1. pc[t] = "end" /\ pc'[t] = "flip" /\ UNCHANGED <<words, active>> /\ Owner(t) /\ ~Flip(t)
    BY <1>3 DEF EndRewrite, Flip, Goto, Owner, OwnerLabels, TypeOK, LocalsType
  <2>2. at[t] = 1 - active
    BY <2>1 DEF Snapshots, RewritesAreMarked, WriterLabels, OwnerLabels
  <2> QED
    BY <1>2, <1>3, <2>1, <2>2 DEF NextRules
<1>4. CASE Flip(t)
  <2>1. pc[t] = "flip" /\ pc'[t] = "release" /\ words' = words /\ active' = at[t] /\ Owner(t)
        /\ ~EndRewrite(t)
    BY <1>4 DEF EndRewrite, Flip, Goto, Owner, OwnerLabels, TypeOK, LocalsType
  <2>2. at[t] = 1 - active
    BY <2>1 DEF Snapshots, RewritesAreMarked
  <2> QED
    BY <1>2, <1>4, <2>1, <2>2 DEF NextRules
<1>5. CASE ~EndRewrite(t) /\ ~Flip(t)
  <2>1. pc[t] # "flip" /\ pc'[t] # "flip" /\ active' = active
    BY <1>5, StepLabels, StepFrame
  <2>2. \A u \in Threads : pc'[u] = "flip" <=> pc[u] = "flip"
    BY <2>1, StepFrame
  <2>3. ASSUME NEW u \in Threads, pc[u] = "flip"
        PROVE  words' = words
    <3>1. u # t /\ Owner(u)
      BY <2>1, <2>3 DEF Owner, OwnerLabels
    <3>2. ~Owner(t)
      BY <3>1 DEF OneReloader
    <3> QED
      BY <3>2, StepFrame DEF Owner, OwnerLabels, WriterLabels
  <2> QED
    BY <1>5, <2>1, <2>2, <2>3 DEF NextRules
<1> QED
  BY <1>3, <1>4, <1>5

LEMMA OfferStep ==
  ASSUME ReloadInv, OfferInv, HNext, NEW w \in Threads, Step(w), NEW t \in Threads
  PROVE  OfferOf(t)'
<1>1. TypeOK /\ OneReloader /\ Snapshots
  BY DEF ReloadInv, Snapshots
<1>2. OfferOf(t)
  BY DEF OfferInv
<1>3. active \in Snaps /\ at[t] \in Snaps
  BY <1>1 DEF TypeOK, SharedType, LocalsType
<1>4. CASE pc'[t] = "app"
  BY <1>4, OfferFrame DEF OfferOf, ReaderLabels
<1>5. CASE pc'[t] # "app"
  <2>1. NextRules' \subseteq offered'[t] /\ (pc[t] # "app" => offered[t] \subseteq offered'[t])
    BY <1>5, OfferFrame
  <2>2. words'[active'][2] \in offered'[t]
    <3>1. CASE active' = active
      <4>1. words'[active'] = words[active]
        BY <1>1, <3>1, FrozenStep
      <4> QED
        BY <1>2, <1>5, <2>1, <4>1, OfferFrame DEF OfferOf
    <3>2. CASE active' # active
      <4>1. Flip(w)
        BY <1>1, <3>2, StepFrame, StepLabels
      <4>2. pc[t] # "app"
        BY <1>1, <1>5, <4>1, StepFrame DEF Flip
      <4>3. words'[active'][2] \in NextRules
        BY <1>1, <4>1, NextRulesStep
      <4> QED
        BY <1>2, <2>1, <4>2, <4>3 DEF OfferOf
    <3> QED
      BY <3>1, <3>2
  <2>3. ASSUME pc'[t] \in ReaderLabels, Whole(at[t])'
        PROVE  words'[at'[t]][2] \in offered'[t]
    <3>1. CASE w = t /\ LoadIndex(t)
      BY <1>1, <2>2, <3>1 DEF LoadIndex, shared, TypeOK, LocalsType
    <3>2. CASE ~(w = t /\ LoadIndex(t))
      <4>1. pc[t] \in ReaderLabels /\ at'[t] = at[t]
        BY <1>1, <2>3, <3>2, StepLabels, StepFrame
      <4>2. pc[t] # "app"
        BY <4>1 DEF ReaderLabels
      <4>3. CASE seq'[at[t]] = seq[at[t]] /\ words'[at[t]] = words[at[t]]
        BY <1>2, <2>1, <2>3, <4>1, <4>2, <4>3 DEF OfferOf, Whole
      <4>4. CASE EndRewrite(w) /\ at[t] = at[w]
        BY <1>1, <2>1, <4>1, <4>4, NextRulesStep
      <4> QED
        BY <1>1, <1>3, <2>3, <4>1, <4>3, <4>4, SnapshotStep DEF Whole
    <3> QED
      BY <3>1, <3>2
  <2>4. offered'[t] # {}
    BY <2>2
  <2> QED
    BY <1>5, <2>1, <2>2, <2>3, <2>4 DEF OfferOf
<1> QED
  BY <1>4, <1>5

\* The rest of the world changes no snapshot and no call, but for a fork,
\* which ends all calls.
LEMMA EnvironmentFrame ==
  ASSUME Environment
  PROVE  /\ UNCHANGED <<active, seq, words>>
         /\ \/ UNCHANGED <<pc, at, sequence, answer>>
            \/ \E t \in Threads : Fork(t)
  BY DEF Environment, ReplaceFile, RewriteInPlace, RewriteSameTick, RemoveFile, Write,
     AgeFile, ChangeFile, MoveLink, LinksInterval, CheckInterval, Fork, shared, locals

LEMMA OfferQuiet ==
  ASSUME TypeOK, OfferInv, HNext \/ UNCHANGED offered, UNCHANGED <<active, seq, words, pc, at>>
  PROVE  OfferInv' /\ UNCHANGED <<offered, NextRules>>
<1>1. NextRules' = NextRules
  BY DEF NextRules
<1>2. ASSUME HNext, NEW t \in Threads
      PROVE  offered'[t] = offered[t]
  <2>1. OfferOf(t)
    BY DEF OfferInv
  <2>2. pc[t] = "app" => offered'[t] = {} /\ offered[t] = {}
    BY <1>2, <2>1, OfferFrame DEF OfferOf
  <2>3. pc[t] # "app" => offered'[t] = offered[t] \cup NextRules /\ NextRules \subseteq offered[t]
    BY <1>1, <1>2, <2>1, OfferFrame DEF OfferOf
  <2> QED
    BY <2>2, <2>3
<1>3. offered' = offered
  <2>1. HNext => offered' = [t \in Threads |-> offered'[t]]
    BY DEF HNext
  <2> QED
    BY <1>2, <2>1 DEF OfferInv
<1>4. \A t \in Threads : OfferOf(t)'
  BY <1>1, <1>3 DEF OfferInv, OfferOf, Whole
<1> QED
  BY <1>1, <1>3, <1>4 DEF OfferInv

LEMMA OfferNext == ReloadInv /\ OfferInv /\ [HNext]_hvars => OfferInv'
<1> SUFFICES ASSUME ReloadInv, OfferInv, [HNext]_hvars PROVE OfferInv'
  OBVIOUS
<1>1. TypeOK
  BY DEF ReloadInv
<1>2. CASE UNCHANGED hvars
  BY <1>1, <1>2, OfferQuiet DEF hvars, vars, shared, locals
<1>3. CASE HNext /\ Environment
  <2>1. CASE UNCHANGED <<pc, at, sequence, answer>>
    BY <1>1, <1>3, <2>1, EnvironmentFrame, OfferQuiet
  <2>2. ASSUME NEW t \in Threads, Fork(t)
        PROVE  OfferInv'
    <3>1. \A u \in Threads : pc'[u] = "app" /\ offered'[u] = {}
      BY <1>3, <2>2, OfferFrame DEF Fork
    <3>2. offered' = [u \in Threads |-> offered'[u]]
      BY <1>3 DEF HNext
    <3> QED
      BY <3>1, <3>2 DEF OfferInv, OfferOf, ReaderLabels
  <2> QED
    BY <1>3, <2>1, <2>2, EnvironmentFrame
<1>4. ASSUME HNext, NEW w \in Threads, Step(w)
      PROVE  OfferInv'
  <2>1. TypeOK'
    BY <1>1, <1>4, TypeStep
  <2> QED
    BY <1>1, <1>4, <2>1, OfferType, OfferStep DEF OfferInv
<1> QED
  BY <1>2, <1>3, <1>4 DEF HNext, Next

-----------------------------------------------------------------------------
(* Every step of the protocol is one of the store, or none.                *)

CopyLabels == {"count", "copy1", "copy2", "valid"}

LEMMA StoreInit == HInit => Store!Init
<1> SUFFICES ASSUME HInit PROVE Store!Init
  OBVIOUS
<1>1. words[active][2] = NoRules
  BY DEF HInit, Init, NoCopy, Snaps
<1>2. NextRules = {}
  BY DEF HInit, Init, NextRules
<1>3. Overtaken = [t \in Threads |-> FALSE]
  BY DEF HInit, Init, Overtaken
<1>4. offered = [t \in Threads |-> {}] /\ answer = [t \in Threads |-> NoCopy] /\ Store!NoCopy = NoCopy
  BY DEF HInit, Init, NoCopy, Store!NoCopy
<1> QED
  BY <1>1, <1>2, <1>3, <1>4 DEF Store!Init

\* The offers of a step that puts nothing new on its way, but for the thread
\* that moves.
LEMMA OffersKept ==
  ASSUME OfferInv, HNext, NEW t \in Threads, NextRules' \subseteq NextRules,
         \A u \in Threads \ {t} : pc'[u] = pc[u]
  PROVE  /\ offered' = [offered EXCEPT ![t] = offered'[t]]
         /\ pc[t] # "app" /\ pc'[t] # "app" => offered' = offered
<1>1. ASSUME NEW u \in Threads, pc'[u] = "app" <=> pc[u] = "app"
      PROVE  pc[u] # "app" \/ u # t => offered'[u] = offered[u]
  <2>1. OfferOf(u)
    BY DEF OfferInv
  <2>2. pc[u] = "app" => offered'[u] = {} /\ offered[u] = {}
    BY <1>1, <2>1, OfferFrame DEF OfferOf
  <2>3. pc[u] # "app" => offered'[u] = offered[u] \cup NextRules' /\ NextRules' \subseteq offered[u]
    BY <1>1, <2>1, OfferFrame DEF OfferOf
  <2> QED
    BY <2>2, <2>3
<1>2. offered' = [u \in Threads |-> offered'[u]] /\ offered = [u \in Threads |-> offered[u]]
  BY DEF HNext, OfferInv
<1>3. \A u \in Threads \ {t} : offered'[u] = offered[u]
  BY <1>1
<1>4. offered' = [offered EXCEPT ![t] = offered'[t]]
  BY <1>2, <1>3
<1>5. ASSUME pc[t] # "app", pc'[t] # "app"
      PROVE  offered' = offered
  BY <1>1, <1>2, <1>3, <1>5
<1> QED
  BY <1>4, <1>5

\* Whose copies are overtaken changes only with a thread's own copy.
LEMMA OvertakenKept ==
  ASSUME TypeOK, NEW t \in Threads, Step(t),
         ~SampleSequence(t), pc'[t] # "app"
  PROVE  Overtaken' = Overtaken
<1>1. \A u \in Threads \ {t} : pc'[u] = pc[u] /\ sequence'[u] = sequence[u]
  BY StepFrame
<1>2. pc'[t] \in CopyLabels => pc[t] \in CopyLabels /\ sequence'[t] = sequence[t]
  BY StepLabels DEF CopyLabels
<1>3. pc[t] \in CopyLabels => pc'[t] \in CopyLabels /\ sequence'[t] = sequence[t]
  <2>1. \A l : Goto(t, l) => pc'[t] = l
    BY DEF Goto, TypeOK, LocalsType
  <2> QED
    BY <2>1 DEF CopyLabels, Step, EnterWrapper, StatFile, LoadCached, Decide, Claim, BeginRewrite,
       ResetState, WipeHead, WipeTail, LoadMissing, TransientError, OpenFile, ReadFile, CheckStamp,
       CompareContent, FillSnapshot, RejectFile, Report, EndRewrite, Flip, Release, Gate, LoadIndex,
       SampleSequence, CheckCount, SelectRule, CopyWord, Validate, Return, locals
<1>4. \A u \in Threads : (pc'[u] \in CopyLabels /\ sequence'[u] = 0) <=> (pc[u] \in CopyLabels /\ sequence[u] = 0)
  BY <1>1, <1>2, <1>3
<1> QED
  BY <1>4 DEF Overtaken, CopyLabels

\* A call begins.
LEMMA CallStep ==
  ASSUME ReloadInv, OfferInv, HNext, NEW t \in Threads, EnterWrapper(t)
  PROVE  Store!Call(t)
<1>1. TypeOK /\ OneReloader /\ Snapshots /\ Step(t)
  BY DEF ReloadInv, Snapshots, Step
<1>2. pc[t] = "app" /\ UNCHANGED <<words, active>>
      /\ answer' = [answer EXCEPT ![t] = NoCopy] /\ pc'[t] \in {"stat", "gate"}
  BY <1>1 DEF EnterWrapper, Goto, TypeOK, LocalsType
<1>3. NextRules' = NextRules
  BY <1>1, <1>2, NextRulesStep DEF EndRewrite, Flip
<1>4. offered[t] = {} /\ offered'[t] = {words[active][2]} \cup NextRules
  BY <1>2, <1>3, OfferFrame DEF OfferInv, OfferOf
<1>5. offered' = [offered EXCEPT ![t] = {words[active][2]} \cup NextRules]
  BY <1>1, <1>3, <1>4, OffersKept, StepFrame
<1>6. Overtaken' = Overtaken
  BY <1>1, <1>2, OvertakenKept DEF SampleSequence
<1> QED
  BY <1>2, <1>3, <1>4, <1>5, <1>6 DEF Store!Call, Store!NoCopy, NoCopy

\* A call ends with answer a, left by the last copy or by no rule.
LEMMA ReturnStep ==
  ASSUME ReloadInv, OfferInv, HNext, NEW t \in Threads, Step(t), pc[t] # "app", pc'[t] = "app",
         NEW a, answer' = [answer EXCEPT ![t] = a],
         \/ a = NoCopy
         \/ \E w \in offered[t] : a = <<w, w>>
         \/ Overtaken[t] /\ a \in Words \X Words
  PROVE  Store!Return(t)
<1>1. TypeOK /\ OneReloader /\ Snapshots
  BY DEF ReloadInv, Snapshots
<1>2. ~EndRewrite(t) /\ ~Flip(t) /\ pc[t] # "flip" /\ pc[t] \notin WriterLabels
  BY <1>1, StepLabels DEF Gate, CheckCount, Validate, EndRewrite, Flip, WriterLabels, OwnerLabels
<1>3. NextRules' = NextRules /\ active' = active /\ words'[active] = words[active]
  BY <1>1, <1>2, NextRulesStep, StepFrame, FrozenStep
<1>4. offered[t] # {}
  BY DEF OfferInv, OfferOf
<1>5. offered' = [offered EXCEPT ![t] = {}]
  BY <1>1, <1>3, OffersKept, OfferFrame, StepFrame
<1>6. Overtaken' = [Overtaken EXCEPT ![t] = FALSE]
  <2>1. \A u \in Threads \ {t} : pc'[u] = pc[u] /\ sequence'[u] = sequence[u]
    BY <1>1, StepFrame
  <2> QED
    BY <2>1 DEF Overtaken
<1> DEFINE answers == {NoCopy} \cup {<<w, w>> : w \in offered[t]}
                        \cup (IF Overtaken[t] THEN Words \X Words ELSE {})
<1>7. a \in answers
  OBVIOUS
<1>8. answer' \in {[answer EXCEPT ![t] = b] : b \in answers}
  BY <1>7
<1> QED
  BY <1>3, <1>4, <1>5, <1>6, <1>8 DEF Store!Return, Store!NoCopy, NoCopy

\* What a reader accepts is whole and was offered, or its sample was 0.
LEMMA AcceptedWasOffered ==
  ASSUME ReloadInv, OfferInv, NEW t \in Threads, pc[t] = "valid", ReadValid(t)
  PROVE  \/ \E w \in offered[t] : copy[t] = <<w, w>>
         \/ Overtaken[t] /\ copy[t] \in Words \X Words
<1>1. copy[t] \in Words \X Words /\ at[t] \in Snaps /\ sequence[t] \in Nat
  BY DEF ReloadInv, TypeOK, LocalsType
<1>2. CASE sequence[t] = 0
  BY <1>1, <1>2 DEF Overtaken
<1>3. CASE sequence[t] # 0
  <2>1. Whole(at[t]) /\ seq[at[t]] = sequence[t] /\ Copying(t)
    BY <1>3 DEF ReadValid, Whole, Copying
  <2>2. words[at[t]][2] \in offered[t] /\ words[at[t]][1] = words[at[t]][2]
    BY <1>1, <2>1 DEF OfferInv, OfferOf, ReaderLabels, ReloadInv, EvenIsWhole, Whole
  <2>3. copy[t][1] = words[at[t]][1] /\ copy[t][2] = words[at[t]][2]
    BY <2>1 DEF ReloadInv, SamplesDoNotRecur
  <2>4. copy[t] = <<words[at[t]][2], words[at[t]][2]>>
    BY <1>1, <2>2, <2>3
  <2> QED
    BY <2>2, <2>4
<1> QED
  BY <1>2, <1>3

LEMMA StoreStep ==
  ASSUME ReloadInv, OfferInv, HNext, NEW t \in Threads, Step(t)
  PROVE  [Store!Next]_(Store!vars)
<1>1. TypeOK /\ OneReloader /\ Snapshots /\ AnswersAreOld
  BY DEF ReloadInv, Snapshots
<1>2. answer \in [Threads -> Words \X Words] /\ offered \in [Threads -> SUBSET Words]
  BY <1>1 DEF TypeOK, LocalsType, OfferInv
<1>3. \A u \in Threads : pc[u] = "app" <=> offered[u] = {}
  BY DEF OfferInv, OfferOf
<1>10. CASE pc[t] = "app"
  <2>1. Store!Call(t)
    BY <1>1, <1>10, StepLabels, CallStep
  <2> QED
    BY <2>1 DEF Store!Next
<1>11. CASE pc[t] # "app" /\ pc'[t] = "app"
  <2>1. answer[t] = NoCopy
    BY <1>11 DEF ReloadInv, AnswersAreOld
  <2>2. CASE answer' = answer
    <3>1. answer' = [answer EXCEPT ![t] = NoCopy]
      BY <1>2, <2>1, <2>2
    <3> QED
      BY <1>11, <3>1, ReturnStep DEF Store!Next
  <2>3. CASE CheckCount(t) /\ answer' # answer
    <3>1. answer' = [answer EXCEPT ![t] = NoCopy]
      BY <2>3 DEF CheckCount, Return, locals
    <3> QED
      BY <1>11, <3>1, ReturnStep DEF Store!Next
  <2>4. CASE Validate(t)
    <3>1. pc[t] = "valid" /\ answer' = [answer EXCEPT ![t] = IF ReadValid(t) THEN copy[t] ELSE NoCopy]
      BY <2>4 DEF Validate, Return
    <3>2. CASE ReadValid(t)
      <4>1. answer' = [answer EXCEPT ![t] = copy[t]]
        BY <3>1, <3>2
      <4>2. Store!Return(t)
        BY <1>11, <3>1, <3>2, <4>1, ReturnStep, AcceptedWasOffered
      <4> QED
        BY <4>2 DEF Store!Next
    <3>3. CASE ~ReadValid(t)
      <4>1. answer' = [answer EXCEPT ![t] = NoCopy]
        BY <3>1, <3>3
      <4> QED
        BY <1>11, <4>1, ReturnStep DEF Store!Next
    <3> QED
      BY <3>2, <3>3
  <2>5. Gate(t) => answer' = answer
    BY DEF Gate
  <2> QED
    BY <1>1, <1>11, <2>2, <2>3, <2>4, <2>5, StepLabels
<1>12. CASE EndRewrite(t)
  <2>1. /\ pc[t] = "end" /\ pc'[t] = "flip" /\ UNCHANGED <<words, active, answer>>
        /\ NextRules = {} /\ NextRules' = {words[at[t]][2]}
    BY <1>1, <1>12, NextRulesStep DEF EndRewrite, Goto, locals, TypeOK, LocalsType
  <2> DEFINE w == words[at[t]][2]
  <2>2. w \in Words
    BY <1>1 DEF TypeOK, SharedType, LocalsType
  <2>3. ASSUME NEW u \in Threads
        PROVE  offered'[u] = IF offered[u] = {} THEN {} ELSE offered[u] \cup {w}
    <3>1. pc'[u] = "app" <=> pc[u] = "app"
      BY <1>1, <2>1, StepFrame
    <3> QED
      BY <1>3, <2>1, <3>1, OfferFrame
  <2>4. offered' = [u \in Threads |-> IF offered[u] = {} THEN {} ELSE offered[u] \cup {w}]
    <3>1. offered' = [u \in Threads |-> offered'[u]]
      BY DEF HNext
    <3> QED
      BY <2>3, <3>1
  <2>5. Overtaken' = Overtaken
    BY <1>1, <2>1, OvertakenKept DEF SampleSequence
  <2> HIDE DEF w
  <2>6. Store!Prepare(w)
    BY <2>1, <2>4, <2>5 DEF Store!Prepare, w
  <2> QED
    BY <2>2, <2>6 DEF Store!Next
<1>13. CASE Flip(t)
  <2>1. /\ pc[t] = "flip" /\ pc'[t] = "release" /\ UNCHANGED <<words, answer>>
        /\ NextRules = {words[active'][2]} /\ NextRules' = {}
    BY <1>1, <1>13, NextRulesStep DEF Flip, Goto, locals, TypeOK, LocalsType
  <2>2. offered' = offered
    BY <1>1, <2>1, OffersKept, StepFrame
  <2>3. Overtaken' = Overtaken
    BY <1>1, <2>1, OvertakenKept DEF SampleSequence
  <2>4. Store!Publish
    BY <2>1, <2>2, <2>3 DEF Store!Publish
  <2> QED
    BY <2>4 DEF Store!Next
<1>14. CASE /\ pc[t] # "app" /\ pc'[t] # "app" /\ ~EndRewrite(t) /\ ~Flip(t)
  <2>1. /\ NextRules' = NextRules /\ words'[active'][2] = words[active][2]
        /\ answer' = answer
    <3>1. ~EnterWrapper(t) /\ ~Validate(t)
      BY <1>1, <1>14 DEF EnterWrapper, Validate, Return, Goto, TypeOK, LocalsType
    <3>2. CheckCount(t) => answer' = answer
      BY <1>1, <1>14 DEF CheckCount, Return, Goto, locals, TypeOK, LocalsType
    <3>3. answer' = answer
      <4>1. answer'[t] = answer[t]
        BY <1>1, <3>1, <3>2, StepLabels
      <4>2. DOMAIN answer' = Threads /\ answer' = [u \in Threads |-> answer'[u]]
        BY <1>1, TypeStep DEF TypeOK, LocalsType
      <4> QED
        BY <1>1, <1>2, <4>1, <4>2, StepFrame
    <3> QED
      BY <1>1, <1>14, <3>3, NextRulesStep, FrozenStep, StepFrame, StepLabels
  <2>2. offered' = offered
    BY <1>1, <1>14, <2>1, OffersKept, StepFrame
  <2>3. CASE SampleSequence(t)
    <3>1. /\ pc[t] = "sample" /\ pc'[t] = "count"
          /\ \A u \in Threads \ {t} : pc'[u] = pc[u] /\ sequence'[u] = sequence[u]
      BY <1>1, <2>3 DEF SampleSequence, Goto, TypeOK, LocalsType
    <3>2. CASE sequence'[t] = 0
      <4>1. Overtaken' = [u \in Threads |-> Overtaken[u] \/ u \in {t}]
        BY <3>1, <3>2 DEF Overtaken
      <4>2. Store!Overtake({t})
        BY <1>3, <1>14, <2>1, <2>2, <4>1 DEF Store!Overtake
      <4>3. {t} \in SUBSET Threads
        OBVIOUS
      <4> QED
        BY <4>2, <4>3 DEF Store!Next
    <3>3. CASE sequence'[t] # 0
      <4>1. Overtaken' = Overtaken
        BY <3>1, <3>3 DEF Overtaken
      <4> QED
        BY <2>1, <2>2, <4>1 DEF Store!vars
    <3> QED
      BY <3>2, <3>3
  <2>4. CASE ~SampleSequence(t)
    <3>1. Overtaken' = Overtaken
      BY <1>1, <1>14, <2>4, OvertakenKept
    <3> QED
      BY <2>1, <2>2, <3>1 DEF Store!vars
  <2> QED
    BY <2>3, <2>4
<1> QED
  BY <1>10, <1>11, <1>12, <1>13, <1>14

LEMMA StoreNext == ReloadInv /\ OfferInv /\ [HNext]_hvars => [Store!Next]_(Store!vars)
<1> SUFFICES ASSUME ReloadInv, OfferInv, [HNext]_hvars PROVE [Store!Next]_(Store!vars)
  OBVIOUS
<1>1. TypeOK
  BY DEF ReloadInv
<1>2. ASSUME UNCHANGED <<active, seq, words, pc, at, sequence, answer>>, HNext \/ UNCHANGED offered
      PROVE  [Store!Next]_(Store!vars)
  <2>1. UNCHANGED <<offered, NextRules>>
    BY <1>1, <1>2, OfferQuiet
  <2>2. Overtaken' = Overtaken
    BY <1>2 DEF Overtaken
  <2> QED
    BY <1>2, <2>1, <2>2 DEF Store!vars
<1>3. CASE UNCHANGED hvars
  BY <1>2, <1>3 DEF hvars, vars, shared, locals
<1>4. CASE HNext /\ Environment
  <2>1. ASSUME NEW t \in Threads, Fork(t)
        PROVE  Store!Next
    <3>1. /\ \A u \in Threads : pc'[u] = "app"
          /\ UNCHANGED <<active, words>>
      BY <2>1 DEF Fork
    <3>2. NextRules' = {} /\ Overtaken' = [u \in Threads |-> FALSE]
      BY <3>1 DEF NextRules, Overtaken
    <3>3. offered' = [u \in Threads |-> {}]
      BY <1>4, <3>1 DEF HNext
    <3>4. answer' = [v \in Threads |-> NoCopy]
      BY <2>1 DEF Fork
    <3>5. Store!Fork
      BY <3>1, <3>2, <3>3, <3>4 DEF Store!Fork, Store!NoCopy, NoCopy
    <3> QED
      BY <3>5 DEF Store!Next
  <2> QED
    BY <1>2, <1>4, <2>1, EnvironmentFrame
<1> QED
  BY <1>3, <1>4, StoreStep DEF HNext, Next

\* The reload protocol implements the abstract store, for any number of
\* threads, changes, failures and forks: a call is answered by a whole rule
\* set that was in force or on its way since it began, or by no rule, but for
\* a copy whose sample was the 0 of reset_state's memset.
THEOREM ReloadImplementsStore == HSpec => ImplementsStore
<1>1. HInit => ReloadInv /\ OfferInv
  BY ReloadInvInit, OfferInit DEF HInit
<1>2. [HNext]_hvars => [Next]_vars
  BY DEF HNext, hvars
<1>3. ReloadInv /\ OfferInv /\ [HNext]_hvars => ReloadInv' /\ OfferInv'
  BY <1>2, ReloadInvNext, OfferNext
<1>4. HSpec => [](ReloadInv /\ OfferInv)
  BY <1>1, <1>3, PTL DEF HSpec
<1> QED
  BY <1>4, StoreInit, StoreNext, PTL DEF HSpec, ImplementsStore, Store!Spec
=============================================================================
