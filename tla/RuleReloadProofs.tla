-------------------------- MODULE RuleReloadProofs --------------------------
(***************************************************************************)
(* Proofs about RuleReload, for every set of threads and every bound.      *)
(***************************************************************************)
EXTENDS RuleReload, TLAPS

LEMMA ResolveType ==
  ASSUME WorldType, NEW b \in Good
  PROVE  Resolve(b) \in Words
  BY ConstantsAssumption DEF WorldType, Resolve, RuleSets, Targets, Words

LEMMA ActiveType ==
  ASSUME SharedType
  PROVE  active \in Snaps /\ 1 - active \in Snaps /\ 1 - active # active
  BY DEF SharedType, Snaps

LEMMA FileType ==
  /\ NoFile \in Files
  /\ \A b \in Bodies, r \in BOOLEAN :
       [ino |-> 1, stamp |-> 1, body |-> b, recent |-> r] \in Files
  BY DEF Files, NoFile, MISSING

LEMMA TypeInit == Init => TypeOK
<1> SUFFICES ASSUME Init PROVE TypeOK
  OBVIOUS
<1>1. file \in Files
  <2>1. ASSUME NEW b \in Bodies, NEW r \in BOOLEAN
        PROVE  [ino |-> 1, stamp |-> 1, body |-> b, recent |-> r] \in Files
    BY FileType
  <2>2. file = NoFile \/ \E b \in Bodies, r \in BOOLEAN :
                            file = [ino |-> 1, stamp |-> 1, body |-> b, recent |-> r]
    BY DEF Init
  <2> QED
    BY <2>1, <2>2, FileType
<1>2. WorldType
  BY <1>1, ConstantsAssumption DEF Init, WorldType, Targets
<1>3. NoCopy \in Words \X Words
  BY DEF NoCopy, Words
<1>4. SharedType
  BY <1>3 DEF Init, SharedType, Snaps, UNKNOWN, Words
<1>5. LocalsType
  BY <1>3, FileType DEF Init, LocalsType, Snaps, Labels, MISSING
<1> QED
  BY <1>2, <1>4, <1>5 DEF TypeOK

LEMMA CopyType == NoCopy \in Words \X Words
  BY DEF NoCopy, Words

LEMMA WipeType ==
  ASSUME TypeOK, NEW t \in Threads, NEW from, NEW to \in Labels, NEW ok \in BOOLEAN,
         WipeHead(t, from, to) \/ WipeTail(t, from, to, ok)
  PROVE  TypeOK'
<1> USE DEF TypeOK, WorldType, SharedType, LocalsType, Goto, vars, world, shared, locals, budget
<1>1. at[t] \in Snaps /\ words[at[t]][2] \in Words /\ NoRules \in Words
  BY DEF Words
<1>2. words' \in [Snaps -> Words \X Words]
  <2>1. \A p \in Words \X Words : [words EXCEPT ![at[t]] = p] \in [Snaps -> Words \X Words]
    OBVIOUS
  <2>2. <<NoRules, words[at[t]][2]>> \in Words \X Words
    BY <1>1
  <2>3. \/ words' = [words EXCEPT ![at[t]] = <<NoRules, words[at[t]][2]>>]
        \/ words' = [words EXCEPT ![at[t]] = NoCopy]
    BY Zenon DEF WipeHead, WipeTail
  <2> QED
    BY <2>1, <2>2, <2>3, CopyType
<1>3. seq' \in [Snaps -> Nat]
  <2>1. CASE seq' = [seq EXCEPT ![at[t]] = 0]
    BY <2>1
  <2>2. CASE seq' = [seq EXCEPT ![at[t]] = sequence[t]]
    BY <2>2
  <2>3. \/ seq' = [seq EXCEPT ![at[t]] = 0]
        \/ seq' = [seq EXCEPT ![at[t]] = sequence[t]]
    BY Zenon DEF WipeHead, WipeTail
  <2> QED
    BY <2>1, <2>2, <2>3
<1>6. parseOk' \in [Snaps -> BOOLEAN] /\ overdue' \in [Snaps -> BOOLEAN]
  <2>1. \/ parseOk' = parseOk /\ overdue' = overdue
        \/ /\ parseOk' = [parseOk EXCEPT ![at[t]] = ok]
           /\ overdue' = [overdue EXCEPT ![at[t]] = FALSE]
    BY DEF WipeHead, WipeTail
  <2>2. /\ \A b \in BOOLEAN : [parseOk EXCEPT ![at[t]] = b] \in [Snaps -> BOOLEAN]
        /\ [overdue EXCEPT ![at[t]] = FALSE] \in [Snaps -> BOOLEAN]
    BY Zenon
  <2>3. /\ [parseOk EXCEPT ![at[t]] = ok] \in [Snaps -> BOOLEAN]
        /\ parseOk \in [Snaps -> BOOLEAN] /\ overdue \in [Snaps -> BOOLEAN]
    BY <2>2
  <2> HIDE DEF TypeOK
  <2> QED
    BY <2>1, <2>2, <2>3
<1>4. pc' \in [Threads -> Labels]
  BY DEF WipeHead, WipeTail
<1>5. UNCHANGED <<world, cached, active, provisional, content, buffer, throttled, status,
                  locals, budget>>
  BY DEF WipeHead, WipeTail
<1> QED
  BY <1>2, <1>3, <1>4, <1>5, <1>6

LEMMA ReturnType ==
  ASSUME TypeOK, NEW t \in Threads, NEW a \in Words \X Words,
         Return(t, a), UNCHANGED <<world, shared, budget>>
  PROVE  TypeOK'
  BY CopyType DEF Return, Goto, Labels, Snaps, TypeOK, WorldType, SharedType, LocalsType, world, shared, budget

LEMMA TypeStep ==
  ASSUME TypeOK, NEW t \in Threads, Step(t)
  PROVE  TypeOK'
<1> USE DEF TypeOK, WorldType, SharedType, LocalsType, Goto, vars, world, shared, locals, budget
<1> USE ActiveType
<1>1. CASE EnterWrapper(t)
  BY <1>1 DEF EnterWrapper, NoCopy, Words, Labels
<1>2. CASE StatFile(t)
  BY <1>2 DEF StatFile, Files, Labels
<1>3. CASE LoadCached(t)
  BY <1>3 DEF LoadCached, Labels
<1>4. CASE Decide(t)
  BY <1>4 DEF Decide, Labels
<1>5. CASE Claim(t)
  BY <1>5 DEF Claim, Labels, OwnerLabels
<1>6. CASE BeginRewrite(t)
  <2> DEFINE next == 1 - active
             odd  == IF IsOdd(seq[next]) THEN seq[next] ELSE seq[next] + 1
  <2>1. odd \in Nat
    OBVIOUS
  <2>2. seq' = [seq EXCEPT ![next] = odd] /\ sequence' = [sequence EXCEPT ![t] = odd]
        /\ at' = [at EXCEPT ![t] = next]
    BY <1>6 DEF BeginRewrite, NextIndex
  <2> HIDE DEF odd
  <2>3. WorldType'
    BY <1>6 DEF BeginRewrite, NextIndex
  <2>8. seq' \in [Snaps -> Nat]
    BY <2>1, <2>2
  <2>4. SharedType'
    BY <1>6, <2>8 DEF BeginRewrite, NextIndex
  <2>5. pc' \in [Threads -> Labels]
    BY <1>6 DEF BeginRewrite, NextIndex, Labels, OwnerLabels
  <2>6. sequence' \in [Threads -> Nat] /\ at' \in [Threads -> Snaps]
    BY <2>1, <2>2
  <2>7. LocalsType'
    BY <1>6, <2>5, <2>6 DEF BeginRewrite, NextIndex
  <2> QED
    BY <2>3, <2>4, <2>7
<1>7. CASE ResetState(t)
  BY <1>7, WipeType DEF ResetState, Labels, OwnerLabels
<1>8. CASE LoadMissing(t)
  BY <1>8 DEF LoadMissing, Words, Labels, OwnerLabels
<1>9. CASE TransientError(t)
  <2>1. WorldType' /\ SharedType'
    BY <1>9 DEF TransientError
  <2>2. LocalsType'
    BY <1>9, FileType DEF TransientError, Labels, OwnerLabels
  <2> QED
    BY <2>1, <2>2
<1>10. CASE OpenFile(t)
  BY <1>10 DEF OpenFile, Labels, OwnerLabels
<1>11. CASE ReadFile(t)
  <2>1. fd[t].body \in Bodies \cup {NoRules}
    BY DEF Files
  <2>2. WorldType'
    BY <1>11 DEF ReadFile
  <2>3. SharedType'
    BY <1>11, <2>1 DEF ReadFile
  <2>4. LocalsType'
    BY <1>11, FileType DEF ReadFile, Labels, OwnerLabels
  <2> QED
    BY <2>2, <2>3, <2>4
<1>12. CASE CheckStamp(t)
  <2>1. fd[t].recent \in BOOLEAN
    BY DEF Files
  <2>2. WorldType'
    BY <1>12 DEF CheckStamp, StampHolds, Recent
  <2>3. SharedType'
    BY <1>12, <2>1 DEF CheckStamp, StampHolds, Recent
  <2>4. LocalsType'
    BY <1>12, FileType DEF CheckStamp, StampHolds, Recent, Labels, OwnerLabels
  <2> QED
    BY <2>2, <2>3, <2>4
<1>13. CASE CompareContent(t)
  BY <1>13 DEF CompareContent, Labels, OwnerLabels
<1>14. CASE FillSnapshot(t)
  <2>1. words' \in [Snaps -> Words \X Words]
    <3>1. CASE buffer \in Good
      <4> DEFINE r == Resolve(buffer)
      <4>1. r \in Words
        BY <3>1, ResolveType
      <4>2. words' = [words EXCEPT ![at[t]] = <<r, r>>]
        BY <1>14, <3>1 DEF FillSnapshot
      <4> HIDE DEF r
      <4> QED
        BY <4>1, <4>2
    <3>2. CASE buffer \notin Good
      BY <1>14, <3>2 DEF FillSnapshot
    <3> QED
      BY <3>1, <3>2
  <2>2. WorldType' /\ SharedType'
    BY <1>14, <2>1 DEF FillSnapshot
  <2>3. LocalsType'
    BY <1>14 DEF FillSnapshot, Labels, OwnerLabels
  <2> QED
    BY <2>2, <2>3
<1>15. CASE RejectFile(t)
  BY <1>15, WipeType DEF RejectFile, Labels, OwnerLabels
<1>16. CASE Report(t)
  BY <1>16 DEF Report, Words, Labels, OwnerLabels
<1>17. CASE EndRewrite(t)
  BY <1>17 DEF EndRewrite, Labels, OwnerLabels
<1>18. CASE Flip(t)
  BY <1>18 DEF Flip, Labels, OwnerLabels
<1>19. CASE Release(t)
  BY <1>19 DEF Release, Restored, Labels
<1>20. CASE Gate(t)
  BY <1>20 DEF Gate, Labels, MISSING, Snaps
<1>21. CASE LoadIndex(t)
  BY <1>21 DEF LoadIndex, Labels, ReaderLabels
<1>22. CASE SampleSequence(t)
  BY <1>22 DEF SampleSequence, Labels, ReaderLabels
<1>23. CASE CheckCount(t)
  BY <1>23, ReturnType, CopyType DEF CheckCount, Labels, ReaderLabels
<1>24. CASE SelectRule(t)
  <2>1. \A w \in {1, 2} :
          [copy EXCEPT ![t][w] = words[at[t]][w]] \in [Threads -> Words \X Words]
    OBVIOUS
  <2>2. copy' \in [Threads -> Words \X Words]
    BY <1>24, <2>1 DEF SelectRule, CopyWord
  <2> QED
    BY <1>24, <2>2 DEF SelectRule, CopyWord, Labels, ReaderLabels
<1>25. CASE Validate(t)
  BY <1>25, ReturnType, CopyType DEF Validate
<1> QED
  BY <1>1, <1>2, <1>3, <1>4, <1>5, <1>6, <1>7, <1>8, <1>9, <1>10, <1>11, <1>12, <1>13, <1>14,
     <1>15, <1>16, <1>17, <1>18, <1>19, <1>20, <1>21, <1>22, <1>23, <1>24, <1>25 DEF Step

LEMMA ChangeFileType ==
  ASSUME TypeOK, NEW new \in Files, ChangeFile(new), writes' \in Nat
  PROVE  TypeOK'
<1> USE DEF TypeOK, WorldType, SharedType, LocalsType, shared, budget, ChangeFile
<1>1. fd' \in [Threads -> Files]
  OBVIOUS
<1> QED
  BY <1>1

LEMMA TypeEnvironment ==
  ASSUME TypeOK, Environment
  PROVE  TypeOK'
<1> USE DEF TypeOK, WorldType, SharedType, LocalsType
<1>1. ASSUME NEW b \in Bodies, ReplaceFile(b) \/ RewriteInPlace(b) \/ RewriteSameTick(b)
      PROVE  TypeOK'
  <2>1. CASE ReplaceFile(b)
    <3> DEFINE new == [ino |-> writes + 2, stamp |-> writes + 2, body |-> b, recent |-> TRUE]
    <3>1. new \in Files
      BY DEF Files
    <3> QED
      BY <2>1, <3>1, ChangeFileType DEF ReplaceFile, Write
  <2>2. CASE RewriteInPlace(b)
    <3> DEFINE new == [ino |-> file.ino, stamp |-> writes + 2, body |-> b, recent |-> TRUE]
    <3>1. new \in Files
      BY DEF Files
    <3> QED
      BY <2>2, <3>1, ChangeFileType DEF RewriteInPlace, Write
  <2>3. CASE RewriteSameTick(b)
    <3>1. [file EXCEPT !.body = b] \in Files
      BY DEF Files
    <3> QED
      BY <2>3, <3>1, ChangeFileType DEF RewriteSameTick, Write
  <2> QED
    BY <1>1, <2>1, <2>2, <2>3
<1>2. CASE RemoveFile
  <2>1. NoFile \in Files
    BY FileType
  <2> QED
    BY <1>2, <2>1, ChangeFileType DEF RemoveFile, Write
<1>3. CASE AgeFile
  <2>1. [file EXCEPT !.recent = FALSE] \in Files
    BY DEF Files
  <2> QED
    BY <1>3, <2>1, ChangeFileType DEF AgeFile
<1>4. CASE MoveLink
  <2>1. target' \in Targets
    BY <1>4, ConstantsAssumption DEF MoveLink, Targets
  <2> QED
    BY <1>4, <2>1 DEF MoveLink, shared, locals, budget
<1>5. CASE LinksInterval
  BY <1>5, ActiveType DEF LinksInterval, world, locals, budget
<1>6. CASE CheckInterval
  BY <1>6 DEF CheckInterval, world, locals, budget
<1>7. ASSUME NEW t \in Threads, Fork(t)
      PROVE  TypeOK'
  <2>1. LocalsType'
    BY <1>7, CopyType, FileType DEF Fork, StampAfterFork, Labels, Snaps, MISSING
  <2> QED
    BY <1>7, <2>1 DEF Fork, StampAfterFork, world
<1> QED
  BY <1>1, <1>2, <1>3, <1>4, <1>5, <1>6, <1>7 DEF Environment

LEMMA TypeNext == TypeOK /\ [Next]_vars => TypeOK'
<1> SUFFICES ASSUME TypeOK, [Next]_vars PROVE TypeOK'
  OBVIOUS
<1>1. CASE UNCHANGED vars
  BY <1>1 DEF TypeOK, WorldType, SharedType, LocalsType, vars, world, shared, locals, budget
<1> QED
  BY <1>1, TypeEnvironment, TypeStep DEF Next

\* Every reachable state is well formed: whatever the interleaving, stamps,
\* snapshot indexes and rule words keep to their ranges (chaos_io_config_state_t).
THEOREM TypeCorrect == Spec => []TypeOK
  BY TypeInit, TypeNext, PTL DEF Spec

-----------------------------------------------------------------------------
(* The claim.                                                              *)

LEMMA OwnerInit == Init => OneReloader /\ ClaimsAreFresh
  BY DEF Init, OneReloader, ClaimsAreFresh, Owner, OwnerLabels, UNKNOWN, RELOADING

\* What a step of t owes the claim when it neither takes nor releases it.
LEMMA OwnerFrame ==
  ASSUME TypeOK, OneReloader, ClaimsAreFresh, NEW t \in Threads, NEW l,
         l \in OwnerLabels <=> Owner(t), l # "cas", Goto(t, l),
         UNCHANGED <<cached, previous>>
  PROVE  OneReloader' /\ ClaimsAreFresh'
<1>1. \A u \in Threads : Owner(u)' <=> Owner(u)
  BY DEF TypeOK, LocalsType, Owner, Goto
<1> QED
  BY <1>1 DEF TypeOK, LocalsType, OneReloader, ClaimsAreFresh, Goto

LEMMA OwnerStep ==
  ASSUME TypeOK, OneReloader, ClaimsAreFresh, NEW t \in Threads, Step(t)
  PROVE  OneReloader' /\ ClaimsAreFresh'
<1> USE DEF Owner, OwnerLabels
<1>1. CASE EnterWrapper(t)
  BY <1>1, OwnerFrame DEF EnterWrapper, locals, shared
<1>2. CASE StatFile(t)
  BY <1>2, OwnerFrame DEF StatFile, locals, shared
<1>3. CASE LoadCached(t)
  <2>1. \A u \in Threads : Owner(u)' <=> Owner(u)
    BY <1>3 DEF LoadCached, Goto, TypeOK, LocalsType
  <2>2. OneReloader'
    BY <1>3, <2>1 DEF LoadCached, OneReloader, shared
  <2>3. ClaimsAreFresh'
    BY <1>3 DEF LoadCached, Goto, ClaimsAreFresh, TypeOK, LocalsType
  <2> QED
    BY <2>2, <2>3
<1>4. CASE Decide(t)
  <2>1. \A u \in Threads : Owner(u)' <=> Owner(u)
    BY <1>4 DEF Decide, Goto, TypeOK, LocalsType
  <2>2. OneReloader'
    BY <1>4, <2>1 DEF Decide, OneReloader, shared
  <2>3. ClaimsAreFresh'
    BY <1>4 DEF Decide, Goto, ClaimsAreFresh, TypeOK, LocalsType, locals
  <2> QED
    BY <2>2, <2>3
<1>5. CASE Claim(t)
  <2>1. previous[t] # RELOADING
    BY <1>5 DEF Claim, ClaimsAreFresh
  <2>2. CASE cached = previous[t]
    <3>1. \A u \in Threads : ~Owner(u)
      BY <2>1, <2>2 DEF OneReloader
    <3>2. cached' = RELOADING /\ pc' = [pc EXCEPT ![t] = "begin"] /\ previous' = previous
      BY <1>5, <2>2 DEF Claim, Goto, locals
    <3>3. \A u \in Threads : Owner(u)' <=> u = t
      BY <3>1, <3>2 DEF TypeOK, LocalsType
    <3>4. OneReloader'
      BY <3>2, <3>3 DEF OneReloader
    <3>5. ClaimsAreFresh'
      BY <2>1, <3>2 DEF ClaimsAreFresh, TypeOK, LocalsType
    <3> QED
      BY <3>4, <3>5
  <2>3. CASE cached # previous[t]
    BY <1>5, <2>3, OwnerFrame DEF Claim, locals
  <2> QED
    BY <2>2, <2>3
<1>6. CASE BeginRewrite(t)
  BY <1>6, OwnerFrame DEF BeginRewrite, NextIndex, locals, shared
<1>7. CASE ResetState(t)
  BY <1>7, OwnerFrame DEF ResetState, WipeHead, WipeTail, locals, shared
<1>8. CASE LoadMissing(t)
  BY <1>8, OwnerFrame DEF LoadMissing, locals, shared
<1>9. CASE TransientError(t)
  BY <1>9, OwnerFrame DEF TransientError, locals, shared
<1>10. CASE OpenFile(t)
  BY <1>10, OwnerFrame DEF OpenFile, locals, shared
<1>11. CASE ReadFile(t)
  BY <1>11, OwnerFrame DEF ReadFile, locals, shared
<1>12. CASE CheckStamp(t)
  BY <1>12, OwnerFrame DEF CheckStamp, StampHolds, Recent, locals, shared
<1>13. CASE CompareContent(t)
  BY <1>13, OwnerFrame DEF CompareContent, locals, shared
<1>14. CASE FillSnapshot(t)
  BY <1>14, OwnerFrame DEF FillSnapshot, locals, shared
<1>15. CASE RejectFile(t)
  BY <1>15, OwnerFrame DEF RejectFile, WipeHead, WipeTail, locals, shared
<1>16. CASE Report(t)
  BY <1>16, OwnerFrame DEF Report, locals, shared
<1>17. CASE EndRewrite(t)
  BY <1>17, OwnerFrame DEF EndRewrite, locals, shared
<1>18. CASE Flip(t)
  BY <1>18, OwnerFrame DEF Flip, locals, shared
<1>19. CASE Release(t)
  <2>1. pc' = [pc EXCEPT ![t] = "gate"] /\ previous' = previous /\ Owner(t)
    BY <1>19 DEF Release, Restored, Goto, locals
  <2>2. \A u \in Threads : ~Owner(u)'
    BY <2>1 DEF OneReloader, TypeOK, LocalsType
  <2>3. cached' # RELOADING
    BY <1>19, <2>1 DEF Release, Restored, ClaimsAreFresh, TypeOK, LocalsType, RELOADING
  <2>4. OneReloader'
    BY <2>2, <2>3 DEF OneReloader
  <2>5. ClaimsAreFresh'
    BY <2>1 DEF ClaimsAreFresh, TypeOK, LocalsType
  <2> QED
    BY <2>4, <2>5
<1>20. CASE Gate(t)
  <2>1. pc' = [pc EXCEPT ![t] = IF HasRules(active) THEN "index" ELSE "app"]
    BY <1>20 DEF Gate, Goto
  <2>2. \A u \in Threads : Owner(u)' <=> Owner(u)
    BY <1>20, <2>1 DEF Gate, TypeOK, LocalsType
  <2>3. OneReloader'
    BY <1>20, <2>2 DEF Gate, OneReloader, shared
  <2>4. ClaimsAreFresh'
    BY <1>20, <2>1 DEF Gate, ClaimsAreFresh, TypeOK, LocalsType
  <2> QED
    BY <2>3, <2>4
<1>21. CASE LoadIndex(t)
  BY <1>21, OwnerFrame DEF LoadIndex, locals, shared
<1>22. CASE SampleSequence(t)
  BY <1>22, OwnerFrame DEF SampleSequence, locals, shared
<1>23. CASE CheckCount(t)
  BY <1>23, OwnerFrame DEF CheckCount, Return, locals, shared
<1>24. CASE SelectRule(t)
  BY <1>24, OwnerFrame DEF SelectRule, CopyWord, locals, shared
<1>25. CASE Validate(t)
  BY <1>25, OwnerFrame DEF Validate, Return, locals, shared
<1> QED
  BY <1>1, <1>2, <1>3, <1>4, <1>5, <1>6, <1>7, <1>8, <1>9, <1>10, <1>11, <1>12, <1>13, <1>14, <1>15, <1>16, <1>17, <1>18, <1>19, <1>20, <1>21, <1>22, <1>23, <1>24, <1>25 DEF Step

LEMMA OwnerEnvironment ==
  ASSUME TypeOK, OneReloader, ClaimsAreFresh, Environment
  PROVE  OneReloader' /\ ClaimsAreFresh'
<1>1. ASSUME UNCHANGED <<cached, pc, previous>>
      PROVE  OneReloader' /\ ClaimsAreFresh'
  BY <1>1 DEF OneReloader, ClaimsAreFresh, Owner
<1>2. ASSUME NEW t \in Threads, Fork(t)
      PROVE  OneReloader' /\ ClaimsAreFresh'
  <2>1. \A u \in Threads : pc'[u] = "app"
    BY <1>2 DEF Fork, StampAfterFork
  <2>2. cached' # RELOADING
    BY <1>2 DEF Fork, StampAfterFork, UNKNOWN, RELOADING
  <2> QED
    BY <2>1, <2>2 DEF OneReloader, ClaimsAreFresh, Owner, OwnerLabels
<1> QED
  BY <1>1, <1>2 DEF Environment, ReplaceFile, RewriteInPlace, RewriteSameTick, RemoveFile, Write,
     AgeFile, ChangeFile, MoveLink, LinksInterval, CheckInterval, shared, locals

LEMMA OwnerNext ==
  TypeOK /\ OneReloader /\ ClaimsAreFresh /\ [Next]_vars => OneReloader' /\ ClaimsAreFresh'
<1> SUFFICES ASSUME TypeOK, OneReloader, ClaimsAreFresh, [Next]_vars
             PROVE  OneReloader' /\ ClaimsAreFresh'
  OBVIOUS
<1>1. CASE UNCHANGED vars
  BY <1>1 DEF OneReloader, ClaimsAreFresh, Owner, vars, shared, locals
<1> QED
  BY <1>1, OwnerStep, OwnerEnvironment DEF Next

\* The claim is exclusive and never leaks, for any number of threads, changes,
\* failures and forks (the CAS in chaos_io_config_refresh, after_fork).
THEOREM ClaimIsExclusive == Spec => []OneReloader
<1> DEFINE I == TypeOK /\ OneReloader /\ ClaimsAreFresh
<1>1. Init => I
  BY TypeInit, OwnerInit
<1>2. I /\ [Next]_vars => I'
  BY TypeNext, OwnerNext
<1>3. I => OneReloader
  OBVIOUS
<1> HIDE DEF I
<1> QED
  BY <1>1, <1>2, <1>3, PTL DEF Spec

-----------------------------------------------------------------------------
(* Torn copies.                                                            *)

Snapshots == RewritesAreMarked /\ EvenIsWhole /\ SamplesDoNotRecur

LEMMA Parity ==
  /\ \A n \in Nat : IsOdd(n) => ~IsOdd(n + 1) /\ n # 0
  /\ \A n \in Nat : ~IsOdd(n) => IsOdd(n + 1)
  /\ \A m, n \in Nat : ~IsOdd(m) /\ IsOdd(n) /\ m <= n => m < n
  BY DEF IsOdd

LEMMA SnapshotsInit == Init => Snapshots
<1> SUFFICES ASSUME Init PROVE Snapshots
  OBVIOUS
<1>1. RewritesAreMarked
  BY DEF Init, RewritesAreMarked, WriterLabels, OwnerLabels
<1>2. EvenIsWhole
  BY DEF Init, EvenIsWhole, NoCopy
<1>3. SamplesDoNotRecur
  BY DEF Init, SamplesDoNotRecur, Copying
<1> QED
  BY <1>1, <1>2, <1>3 DEF Snapshots

\* A thread that ends up neither rewriting nor copying, and that was not in
\* the middle of a memset, disturbs nobody's copy.
LEMMA IdleFrame ==
  ASSUME TypeOK, Snapshots, NEW t \in Threads, NEW l \in Labels, Goto(t, l),
         l \notin WriterLabels \cup {"flip", "count", "copy1", "copy2", "valid"},
         pc[t] \notin WindowLabels,
         UNCHANGED <<seq, words, active>>,
         \A u \in Threads \ {t} : at'[u] = at[u] /\ sequence'[u] = sequence[u] /\ copy'[u] = copy[u]
  PROVE  Snapshots'
<1>1. pc'[t] = l /\ \A u \in Threads \ {t} : pc'[u] = pc[u]
  BY DEF Goto, TypeOK, LocalsType
<1>2. RewritesAreMarked'
  BY <1>1 DEF Snapshots, RewritesAreMarked
<1>3. EvenIsWhole'
  BY DEF Snapshots, EvenIsWhole
<1>4. ASSUME NEW r \in Threads, Copying(r)'
      PROVE  /\ r # t /\ Copying(r)
             /\ \A w \in Threads : pc[w] \in WindowLabels => w # t
             /\ \A w \in Threads : pc'[w] \in WriterLabels => w # t
  BY <1>1, <1>4 DEF Copying
<1>5. SamplesDoNotRecur'
  <2> SUFFICES ASSUME NEW r \in Threads, Copying(r)'
               PROVE  /\ sequence'[r] <= seq'[at'[r]]
                            \/ \E w \in Threads : pc'[w] \in WindowLabels /\ at'[w] = at'[r]
                      /\ \A w \in Threads :
                           pc'[w] \in WriterLabels /\ at'[w] = at'[r] => sequence'[r] < sequence'[w]
                      /\ seq'[at'[r]] = sequence'[r] =>
                           /\ pc'[r] \in {"copy2", "valid"} => copy'[r][1] = words'[at'[r]][1]
                           /\ pc'[r] = "valid" => copy'[r][2] = words'[at'[r]][2]
    BY DEF SamplesDoNotRecur
  <2> QED
    BY <1>1, <1>4 DEF Snapshots, SamplesDoNotRecur
<1> QED
  BY <1>2, <1>3, <1>5 DEF Snapshots

\* The owner between wipe and publication, doing something else.
LEMMA OwnerWorks ==
  ASSUME TypeOK, Snapshots, NEW t \in Threads, NEW l, Goto(t, l),
         pc[t] \in WriterLabels \ {"wipe", "wiped", "rejected"},
         l \in WriterLabels \ {"wipe", "wiped", "rejected"},
         UNCHANGED <<seq, words, active, at, sequence, copy>>
  PROVE  Snapshots'
<1>1. pc'[t] = l /\ \A u \in Threads \ {t} : pc'[u] = pc[u]
  BY DEF Goto, TypeOK, LocalsType
<1>2. l \notin {"flip", "count", "copy1", "copy2", "valid"} \cup WindowLabels
        /\ pc[t] \notin {"count", "copy1", "copy2", "valid"} \cup WindowLabels
  BY DEF WriterLabels, OwnerLabels, WindowLabels
<1>3. RewritesAreMarked'
  BY <1>1, <1>2 DEF Snapshots, RewritesAreMarked
<1>4. EvenIsWhole'
  BY DEF Snapshots, EvenIsWhole
<1>5. \A u \in Threads : /\ Copying(u)' <=> Copying(u)
                         /\ pc'[u] \in WindowLabels <=> pc[u] \in WindowLabels
                         /\ pc'[u] \in WriterLabels <=> pc[u] \in WriterLabels
                         /\ pc'[u] \in {"copy2", "valid"} <=> pc[u] \in {"copy2", "valid"}
                         /\ pc'[u] = "valid" <=> pc[u] = "valid"
  BY <1>1, <1>2 DEF Copying
<1>6. SamplesDoNotRecur'
  BY <1>5 DEF Snapshots, SamplesDoNotRecur
<1> QED
  BY <1>3, <1>4, <1>6 DEF Snapshots

\* Only the one owner is at a writer's label.
LEMMA OneWriter ==
  ASSUME OneReloader, NEW t \in Threads, Owner(t)
  PROVE  \A u \in Threads \ {t} : pc[u] \notin WriterLabels \cup WindowLabels \cup {"flip"}
  BY DEF OneReloader, Owner, WriterLabels, WindowLabels, OwnerLabels

LEMMA BeginSnapshots ==
  ASSUME TypeOK, OneReloader, Snapshots, NEW t \in Threads, BeginRewrite(t)
  PROVE  Snapshots'
<1> DEFINE next == 1 - active
           odd  == IF IsOdd(seq[next]) THEN seq[next] ELSE seq[next] + 1
<1>1. /\ pc' = [pc EXCEPT ![t] = "wipe"] /\ pc[t] = "begin"
      /\ at' = [at EXCEPT ![t] = next]
      /\ seq' = [seq EXCEPT ![next] = odd]
      /\ sequence' = [sequence EXCEPT ![t] = odd]
      /\ UNCHANGED <<words, active, copy>>
  BY DEF BeginRewrite, NextIndex, Goto
<1>2. next \in Snaps /\ seq[next] \in Nat /\ odd \in Nat /\ IsOdd(odd) /\ odd # 0 /\ seq[next] <= odd
  BY ActiveType, Parity DEF TypeOK, SharedType
<1>3. ~IsOdd(seq[next]) => seq[next] < odd
  BY <1>2
<1> HIDE DEF odd
<1>4. \A u \in Threads \ {t} : pc[u] \notin WriterLabels \cup WindowLabels \cup {"flip"}
  BY <1>1, OneWriter DEF Owner, OwnerLabels
<1>5. pc[t] \notin WindowLabels
  BY <1>1 DEF WindowLabels
<1>6. RewritesAreMarked'
  BY <1>1, <1>2, <1>4 DEF RewritesAreMarked, Snapshots, WindowLabels, TypeOK, LocalsType, SharedType
<1>7. EvenIsWhole'
  BY <1>1, <1>2 DEF EvenIsWhole, Snapshots, TypeOK, SharedType
<1>8. SamplesDoNotRecur'
  <2> SUFFICES ASSUME NEW r \in Threads, Copying(r)'
               PROVE  /\ sequence'[r] <= seq'[at'[r]]
                      /\ \A w \in Threads :
                           pc'[w] \in WriterLabels /\ at'[w] = at'[r] => sequence'[r] < sequence'[w]
                      /\ seq'[at'[r]] = sequence'[r] =>
                           /\ pc'[r] \in {"copy2", "valid"} => copy'[r][1] = words'[at'[r]][1]
                           /\ pc'[r] = "valid" => copy'[r][2] = words'[at'[r]][2]
    BY DEF SamplesDoNotRecur
  <2>1. /\ r # t /\ Copying(r) /\ pc'[r] = pc[r] /\ at'[r] = at[r]
        /\ sequence'[r] = sequence[r] /\ copy'[r] = copy[r]
    BY <1>1 DEF Copying, TypeOK, LocalsType
  <2>2. sequence[r] <= seq[at[r]]
    BY <1>4, <1>5, <2>1 DEF Snapshots, SamplesDoNotRecur
  <2>3. sequence[r] \in Nat /\ ~IsOdd(sequence[r]) /\ at[r] \in Snaps /\ seq[at[r]] \in Nat
    BY <2>1 DEF Copying, TypeOK, LocalsType, SharedType
  <2>4. CASE at[r] = next
    <3>1. seq'[at'[r]] = odd
      BY <1>1, <1>2, <2>1, <2>4 DEF TypeOK, SharedType
    <3>2. sequence[r] < odd
      BY <1>2, <2>2, <2>3, <2>4, Parity
    <3>3. \A w \in Threads : pc'[w] \in WriterLabels => sequence'[w] = odd
      BY <1>1, <1>4 DEF TypeOK, LocalsType
    <3> QED
      BY <1>2, <2>1, <2>3, <3>1, <3>2, <3>3
  <2>5. CASE at[r] # next
    <3>1. seq'[at'[r]] = seq[at[r]]
      BY <1>1, <2>1, <2>3, <2>5 DEF TypeOK, SharedType
    <3>2. \A w \in Threads : pc'[w] \in WriterLabels => at'[w] = next
      BY <1>1, <1>4 DEF TypeOK, LocalsType
    <3> QED
      BY <1>1, <2>1, <2>2, <2>5, <3>1, <3>2 DEF Snapshots, SamplesDoNotRecur
  <2> QED
    BY <2>4, <2>5
<1> QED
  BY <1>6, <1>7, <1>8 DEF Snapshots

\* A step of the owner t that rewrites the inactive snapshot: whoever copies
\* from it must be left with a sample that cannot be found again.
LEMMA RewriteFrame ==
  ASSUME TypeOK, OneReloader, Snapshots, NEW t \in Threads, NEW l, Goto(t, l),
         pc[t] \in WriterLabels, l \in WriterLabels \cup {"flip"},
         UNCHANGED <<active, at, sequence, copy>>,
         \A s \in Snaps \ {at[t]} : seq'[s] = seq[s] /\ words'[s] = words[s],
         seq'[at[t]] \in Nat, RewritesAreMarked', EvenIsWhole',
         l \in WriterLabels =>
           IF l \in WindowLabels THEN seq'[at[t]] = 0 ELSE seq'[at[t]] = sequence[t],
         l \notin WriterLabels => seq'[at[t]] = sequence[t] + 1
  PROVE  Snapshots'
<1>1. pc'[t] = l /\ \A u \in Threads \ {t} : pc'[u] = pc[u]
  BY DEF Goto, TypeOK, LocalsType
<1>2. \A u \in Threads \ {t} : pc[u] \notin WriterLabels \cup WindowLabels \cup {"flip"}
  BY OneWriter DEF Owner, WriterLabels
<1>3. l \notin {"count", "copy1", "copy2", "valid"} /\ WindowLabels \subseteq WriterLabels
  BY DEF WriterLabels, WindowLabels, OwnerLabels
<1>4. IsOdd(sequence[t]) /\ sequence[t] \in Nat
  BY DEF Snapshots, RewritesAreMarked, TypeOK, LocalsType
<1>5. SamplesDoNotRecur'
  <2> SUFFICES ASSUME NEW r \in Threads, Copying(r)'
               PROVE  /\ sequence'[r] <= seq'[at'[r]]
                            \/ \E w \in Threads : pc'[w] \in WindowLabels /\ at'[w] = at'[r]
                      /\ \A w \in Threads :
                           pc'[w] \in WriterLabels /\ at'[w] = at'[r] => sequence'[r] < sequence'[w]
                      /\ seq'[at'[r]] = sequence'[r] =>
                           /\ pc'[r] \in {"copy2", "valid"} => copy'[r][1] = words'[at'[r]][1]
                           /\ pc'[r] = "valid" => copy'[r][2] = words'[at'[r]][2]
    BY DEF SamplesDoNotRecur
  <2>1. r # t /\ Copying(r) /\ pc'[r] = pc[r] /\ sequence[r] \in Nat /\ sequence[r] # 0 /\ at[r] \in Snaps
    BY <1>1, <1>3 DEF Copying, TypeOK, LocalsType
  <2>2. \A w \in Threads : pc'[w] \in WriterLabels \/ pc'[w] \in WindowLabels => w = t
    BY <1>1, <1>2
  <2>3. CASE at[r] = at[t]
    <3>1. sequence[r] < sequence[t]
      BY <2>1, <2>3 DEF Snapshots, SamplesDoNotRecur
    <3>2. CASE l \in WindowLabels
      BY <1>1, <1>3, <2>1, <2>2, <2>3, <3>1, <3>2
    <3>3. CASE l \in WriterLabels \ WindowLabels
      BY <1>4, <2>1, <2>2, <2>3, <3>1, <3>3
    <3>4. CASE l = "flip" /\ l \notin WriterLabels
      BY <1>1, <1>4, <2>1, <2>2, <2>3, <3>1, <3>4
    <3> QED
      BY <3>2, <3>3, <3>4
  <2>4. CASE at[r] # at[t]
    <3>1. seq'[at[r]] = seq[at[r]] /\ words'[at[r]] = words[at[r]]
      BY <2>1, <2>4
    <3>2. \A w \in Threads : pc[w] \in WindowLabels => w = t
      BY <1>2
    <3>3. sequence[r] <= seq[at[r]]
      BY <2>1, <2>4, <3>2 DEF Snapshots, SamplesDoNotRecur
    <3> QED
      BY <2>1, <2>2, <2>4, <3>1, <3>3 DEF Snapshots, SamplesDoNotRecur
  <2> QED
    BY <2>3, <2>4
<1> QED
  BY <1>5 DEF Snapshots

LEMMA WipeHeadSnapshots ==
  ASSUME TypeOK, OneReloader, Snapshots, NEW t \in Threads, NEW from, NEW to,
         from \in WriterLabels \ WindowLabels, to \in WindowLabels, WipeHead(t, from, to)
  PROVE  Snapshots'
<1>1. /\ pc[t] = from /\ pc' = [pc EXCEPT ![t] = to] /\ Goto(t, to)
      /\ seq' = [seq EXCEPT ![at[t]] = 0]
      /\ words' = [words EXCEPT ![at[t]] = <<NoRules, @[2]>>]
      /\ UNCHANGED <<active, at, sequence, copy>>
  BY DEF WipeHead, Goto, locals
<1>2. \A u \in Threads \ {t} : pc[u] \notin WriterLabels \cup WindowLabels \cup {"flip"}
  BY <1>1, OneWriter DEF Owner, WriterLabels
<1>3. at[t] \in Snaps /\ seq'[at[t]] = 0
        /\ \A s \in Snaps \ {at[t]} : seq'[s] = seq[s] /\ words'[s] = words[s]
  BY <1>1 DEF TypeOK, LocalsType, SharedType
<1>4. to \in WriterLabels /\ to \in {"wiped", "rejected"} /\ pc'[t] = to
        /\ \A u \in Threads \ {t} : pc'[u] = pc[u]
  BY <1>1 DEF WriterLabels, WindowLabels, OwnerLabels, TypeOK, LocalsType
<1>5. RewritesAreMarked'
  BY <1>1, <1>2, <1>3, <1>4 DEF RewritesAreMarked, Snapshots
<1>6. EvenIsWhole'
  BY <1>3 DEF EvenIsWhole, Snapshots
<1> QED
  BY <1>1, <1>3, <1>4, <1>5, <1>6, RewriteFrame

LEMMA WipeTailSnapshots ==
  ASSUME TypeOK, OneReloader, Snapshots, NEW t \in Threads, NEW from, NEW to, NEW ok,
         from \in WindowLabels, to \in WriterLabels \ {"wipe", "wiped", "rejected"},
         WipeTail(t, from, to, ok)
  PROVE  Snapshots'
<1>1. /\ pc[t] = from /\ pc' = [pc EXCEPT ![t] = to] /\ Goto(t, to)
      /\ seq' = [seq EXCEPT ![at[t]] = sequence[t]]
      /\ words' = [words EXCEPT ![at[t]] = NoCopy]
      /\ UNCHANGED <<active, at, sequence, copy>>
  BY DEF WipeTail, Goto, locals
<1>2. pc[t] \in WriterLabels /\ to \notin WindowLabels
  BY <1>1 DEF WriterLabels, WindowLabels, OwnerLabels
<1>3. \A u \in Threads \ {t} : pc[u] \notin WriterLabels \cup WindowLabels \cup {"flip"}
  BY <1>2, OneWriter DEF Owner, WriterLabels
<1>4. at[t] \in Snaps /\ seq'[at[t]] = sequence[t] /\ sequence[t] \in Nat
        /\ words'[at[t]][1] = words'[at[t]][2]
        /\ \A s \in Snaps \ {at[t]} : seq'[s] = seq[s] /\ words'[s] = words[s]
  BY <1>1 DEF TypeOK, LocalsType, SharedType, NoCopy
<1>5. pc'[t] = to /\ \A u \in Threads \ {t} : pc'[u] = pc[u]
  BY <1>1 DEF TypeOK, LocalsType
<1>6. IsOdd(sequence[t]) /\ at[t] = 1 - active
  BY <1>2 DEF RewritesAreMarked, Snapshots
<1>7. RewritesAreMarked'
  BY <1>1, <1>2, <1>3, <1>4, <1>5, <1>6 DEF RewritesAreMarked, Snapshots
<1>8. EvenIsWhole'
  BY <1>4, <1>6 DEF EvenIsWhole, Snapshots
<1> QED
  BY <1>1, <1>2, <1>4, <1>5, <1>7, <1>8, RewriteFrame

LEMMA FillSnapshots ==
  ASSUME TypeOK, OneReloader, Snapshots, NEW t \in Threads, FillSnapshot(t)
  PROVE  Snapshots'
<1>1. CASE buffer \in Good
  <2> DEFINE p == <<Resolve(buffer), Resolve(buffer)>>
  <2>1. /\ pc[t] = "fill" /\ pc' = [pc EXCEPT ![t] = "report"] /\ Goto(t, "report")
        /\ words' = [words EXCEPT ![at[t]] = p]
        /\ UNCHANGED <<seq, active, at, sequence, copy>>
    BY <1>1 DEF FillSnapshot, Goto, locals
  <2>2. p[1] = p[2]
    OBVIOUS
  <2> HIDE DEF p
  <2>3. /\ pc[t] \in WriterLabels \ WindowLabels /\ "report" \in WriterLabels \ WindowLabels
    BY <2>1 DEF WriterLabels, WindowLabels, OwnerLabels
  <2>4. \A u \in Threads \ {t} : pc[u] \notin WriterLabels \cup WindowLabels \cup {"flip"}
    BY <2>3, OneWriter DEF Owner, WriterLabels
  <2>5. at[t] \in Snaps /\ seq[at[t]] \in Nat /\ words'[at[t]][1] = words'[at[t]][2]
          /\ \A s \in Snaps \ {at[t]} : words'[s] = words[s]
    BY <2>1, <2>2 DEF TypeOK, LocalsType, SharedType
  <2>6. seq[at[t]] = sequence[t] /\ IsOdd(sequence[t]) /\ at[t] = 1 - active
    BY <2>3 DEF RewritesAreMarked, Snapshots
  <2>7. pc'[t] = "report" /\ \A u \in Threads \ {t} : pc'[u] = pc[u]
    BY <2>1 DEF TypeOK, LocalsType
  <2>8. RewritesAreMarked'
    BY <2>1, <2>3, <2>4, <2>5, <2>6, <2>7 DEF RewritesAreMarked, Snapshots
  <2>9. EvenIsWhole'
    BY <2>1, <2>5, <2>6 DEF EvenIsWhole, Snapshots
  <2> QED
    BY <2>1, <2>3, <2>5, <2>6, <2>8, <2>9, RewriteFrame
<1>2. CASE buffer \notin Good
  BY <1>2, OwnerWorks DEF FillSnapshot, WriterLabels, OwnerLabels, locals
<1> QED
  BY <1>1, <1>2

LEMMA EndSnapshots ==
  ASSUME TypeOK, OneReloader, Snapshots, NEW t \in Threads, EndRewrite(t)
  PROVE  Snapshots'
<1>1. /\ pc[t] = "end" /\ pc' = [pc EXCEPT ![t] = "flip"] /\ Goto(t, "flip")
      /\ seq' = [seq EXCEPT ![at[t]] = IF IsOdd(@) THEN @ + 1 ELSE @]
      /\ UNCHANGED <<words, active, at, sequence, copy>>
  BY DEF EndRewrite, Goto, locals
<1>2. /\ pc[t] \in WriterLabels \ {"wipe", "wiped", "rejected"} /\ pc[t] \notin WindowLabels
      /\ "flip" \notin WriterLabels
  BY <1>1 DEF WriterLabels, WindowLabels, OwnerLabels
<1>3. /\ at[t] = 1 - active /\ seq[at[t]] = sequence[t] /\ IsOdd(sequence[t])
      /\ words[at[t]][1] = words[at[t]][2]
  BY <1>2 DEF RewritesAreMarked, Snapshots
<1>4. \A u \in Threads \ {t} : pc[u] \notin WriterLabels \cup WindowLabels \cup {"flip"}
  BY <1>2, OneWriter DEF Owner, WriterLabels
<1>5. at[t] \in Snaps /\ sequence[t] \in Nat /\ seq'[at[t]] = sequence[t] + 1
        /\ seq'[at[t]] \in Nat /\ \A s \in Snaps \ {at[t]} : seq'[s] = seq[s]
  BY <1>1, <1>3 DEF TypeOK, LocalsType, SharedType
<1>6. pc'[t] = "flip" /\ \A u \in Threads \ {t} : pc'[u] = pc[u]
  BY <1>1 DEF TypeOK, LocalsType
<1>7. RewritesAreMarked'
  BY <1>1, <1>2, <1>3, <1>4, <1>6 DEF RewritesAreMarked, Snapshots
<1>8. EvenIsWhole'
  BY <1>1, <1>3, <1>5 DEF EvenIsWhole, Snapshots
<1> QED
  BY <1>1, <1>2, <1>5, <1>7, <1>8, RewriteFrame

LEMMA FlipSnapshots ==
  ASSUME TypeOK, OneReloader, Snapshots, NEW t \in Threads, Flip(t)
  PROVE  Snapshots'
<1>1. /\ pc[t] = "flip" /\ pc' = [pc EXCEPT ![t] = "release"]
      /\ UNCHANGED <<seq, words, at, sequence, copy>>
  BY DEF Flip, Goto, locals
<1>2. pc'[t] = "release" /\ \A u \in Threads \ {t} : pc'[u] = pc[u]
  BY <1>1 DEF TypeOK, LocalsType
<1>3. \A u \in Threads \ {t} : pc[u] \notin WriterLabels \cup WindowLabels \cup {"flip"}
  BY <1>1, OneWriter DEF Owner, OwnerLabels
<1>4. {"flip", "release"} \cap (WriterLabels \cup WindowLabels) = {}
  BY DEF WriterLabels, WindowLabels
<1>5. RewritesAreMarked'
  BY <1>2, <1>3, <1>4 DEF RewritesAreMarked
<1>6. EvenIsWhole'
  BY <1>1 DEF EvenIsWhole, Snapshots
<1>7. \A u \in Threads : /\ Copying(u)' => Copying(u) /\ pc'[u] = pc[u]
                         /\ pc'[u] \notin WindowLabels \cup WriterLabels
                         /\ pc[u] \notin WindowLabels \cup WriterLabels
  BY <1>1, <1>2, <1>3, <1>4 DEF Copying
<1>8. SamplesDoNotRecur'
  BY <1>1, <1>7 DEF SamplesDoNotRecur, Snapshots
<1> QED
  BY <1>5, <1>6, <1>8 DEF Snapshots

\* A reader t takes one more step of its copy; the snapshots do not change.
LEMMA ReaderFrame ==
  ASSUME TypeOK, Snapshots, NEW t \in Threads, NEW l \in {"count", "copy1", "copy2", "valid"},
         Goto(t, l), pc[t] \in ReaderLabels,
         UNCHANGED <<seq, words, active, at>>,
         \A u \in Threads \ {t} : sequence'[u] = sequence[u] /\ copy'[u] = copy[u],
         ~IsOdd(sequence'[t]) /\ sequence'[t] # 0 =>
           /\ sequence'[t] <= seq[at[t]] \/ \E w \in Threads : pc[w] \in WindowLabels /\ at[w] = at[t]
           /\ \A w \in Threads :
                pc[w] \in WriterLabels /\ at[w] = at[t] => sequence'[t] < sequence[w]
           /\ seq[at[t]] = sequence'[t] =>
                /\ l \in {"copy2", "valid"} => copy'[t][1] = words[at[t]][1]
                /\ l = "valid" => copy'[t][2] = words[at[t]][2]
  PROVE  Snapshots'
<1>1. pc'[t] = l /\ \A u \in Threads \ {t} : pc'[u] = pc[u]
  BY DEF Goto, TypeOK, LocalsType
<1>2. \A u \in Threads : pc'[u] \in WriterLabels \cup WindowLabels \cup {"flip"}
                            \/ pc[u] \in WriterLabels \cup WindowLabels \cup {"flip"} =>
                          u # t /\ pc'[u] = pc[u]
  BY <1>1 DEF WriterLabels, WindowLabels, OwnerLabels, ReaderLabels
<1>3. RewritesAreMarked'
  BY <1>2 DEF RewritesAreMarked, Snapshots
<1>4. EvenIsWhole'
  BY DEF EvenIsWhole, Snapshots
<1>5. SamplesDoNotRecur'
  <2> SUFFICES ASSUME NEW r \in Threads, Copying(r)'
               PROVE  /\ sequence'[r] <= seq'[at'[r]]
                            \/ \E w \in Threads : pc'[w] \in WindowLabels /\ at'[w] = at'[r]
                      /\ \A w \in Threads :
                           pc'[w] \in WriterLabels /\ at'[w] = at'[r] => sequence'[r] < sequence'[w]
                      /\ seq'[at'[r]] = sequence'[r] =>
                           /\ pc'[r] \in {"copy2", "valid"} => copy'[r][1] = words'[at'[r]][1]
                           /\ pc'[r] = "valid" => copy'[r][2] = words'[at'[r]][2]
    BY DEF SamplesDoNotRecur
  <2>1. CASE r = t
    BY <1>1, <1>2, <2>1 DEF Copying
  <2>2. CASE r # t
    <3>1. Copying(r) /\ pc'[r] = pc[r]
      BY <1>1, <2>2 DEF Copying
    <3> QED
      BY <1>2, <2>2, <3>1 DEF SamplesDoNotRecur, Snapshots
  <2> QED
    BY <2>1, <2>2
<1> QED
  BY <1>3, <1>4, <1>5 DEF Snapshots

LEMMA SampleSnapshots ==
  ASSUME TypeOK, Snapshots, NEW t \in Threads, SampleSequence(t)
  PROVE  Snapshots'
<1>1. /\ pc[t] = "sample" /\ Goto(t, "count")
      /\ sequence' = [sequence EXCEPT ![t] = seq[at[t]]]
      /\ UNCHANGED <<seq, words, active, at, copy>>
  BY DEF SampleSequence, shared
<1>2. sequence'[t] = seq[at[t]] /\ \A u \in Threads \ {t} : sequence'[u] = sequence[u]
  BY <1>1 DEF TypeOK, LocalsType
<1>3. seq[at[t]] \in Nat
  BY DEF TypeOK, LocalsType, SharedType
<1>4. ASSUME ~IsOdd(seq[at[t]]), seq[at[t]] # 0, NEW w \in Threads, pc[w] \in WriterLabels,
             at[w] = at[t]
      PROVE  FALSE
  BY <1>4 DEF Snapshots, RewritesAreMarked
<1> QED
  BY <1>1, <1>2, <1>3, <1>4, ReaderFrame DEF ReaderLabels

LEMMA CountSnapshots ==
  ASSUME TypeOK, Snapshots, NEW t \in Threads, CheckCount(t)
  PROVE  Snapshots'
<1>1. CASE HasRules(at[t])
  <2>1. pc[t] = "count" /\ Goto(t, "copy1") /\ UNCHANGED <<seq, words, active, at, sequence, copy>>
    BY <1>1 DEF CheckCount, shared, locals
  <2>2. ~IsOdd(sequence[t]) /\ sequence[t] # 0 => Copying(t)
    BY <2>1 DEF Copying
  <2> QED
    BY <2>1, <2>2, ReaderFrame DEF ReaderLabels, Snapshots, SamplesDoNotRecur
<1>2. CASE ~HasRules(at[t])
  <2>1. pc[t] = "count" /\ Return(t, NoCopy) /\ UNCHANGED <<seq, words, active, sequence>>
    BY <1>2 DEF CheckCount, Return, shared
  <2>2. \A u \in Threads \ {t} : at'[u] = at[u] /\ sequence'[u] = sequence[u] /\ copy'[u] = copy[u]
    BY <2>1 DEF Return, TypeOK, LocalsType
  <2> QED
    BY <2>1, <2>2, IdleFrame DEF Return, Labels, WriterLabels, OwnerLabels, WindowLabels
<1> QED
  BY <1>1, <1>2

LEMMA CopySnapshots ==
  ASSUME TypeOK, Snapshots, NEW t \in Threads, SelectRule(t)
  PROVE  Snapshots'
<1>1. copy[t] \in Words \X Words
  BY DEF TypeOK, LocalsType
<1>2. CASE CopyWord(t, "copy1", "copy2", 1)
  <2>1. /\ pc[t] = "copy1" /\ Goto(t, "copy2")
        /\ copy' = [copy EXCEPT ![t][1] = words[at[t]][1]]
        /\ UNCHANGED <<seq, words, active, at, sequence>>
    BY <1>2 DEF CopyWord, shared
  <2>2. copy'[t][1] = words[at[t]][1] /\ \A u \in Threads \ {t} : copy'[u] = copy[u]
    BY <1>1, <2>1 DEF TypeOK, LocalsType
  <2>3. ~IsOdd(sequence[t]) /\ sequence[t] # 0 => Copying(t)
    BY <2>1 DEF Copying
  <2> QED
    BY <2>1, <2>2, <2>3, ReaderFrame DEF ReaderLabels, Snapshots, SamplesDoNotRecur
<1>3. CASE CopyWord(t, "copy2", "valid", 2)
  <2>1. /\ pc[t] = "copy2" /\ Goto(t, "valid")
        /\ copy' = [copy EXCEPT ![t][2] = words[at[t]][2]]
        /\ UNCHANGED <<seq, words, active, at, sequence>>
    BY <1>3 DEF CopyWord, shared
  <2>2. copy'[t][1] = copy[t][1] /\ copy'[t][2] = words[at[t]][2]
          /\ \A u \in Threads \ {t} : copy'[u] = copy[u]
    BY <1>1, <2>1 DEF TypeOK, LocalsType
  <2>3. ~IsOdd(sequence[t]) /\ sequence[t] # 0 => Copying(t)
    BY <2>1 DEF Copying
  <2> QED
    BY <2>1, <2>2, <2>3, ReaderFrame DEF ReaderLabels, Snapshots, SamplesDoNotRecur
<1> QED
  BY <1>2, <1>3 DEF SelectRule

LEMMA WriterLabelFacts ==
  /\ {"wipe", "reject"} \subseteq WriterLabels \ WindowLabels
  /\ {"wiped", "rejected"} \subseteq WindowLabels
  /\ {"missing", "open", "report"} \subseteq WriterLabels \ {"wipe", "wiped", "rejected"}
  BY DEF WriterLabels, WindowLabels, OwnerLabels

LEMMA WipeSnapshots ==
  ASSUME TypeOK, OneReloader, Snapshots, NEW t \in Threads, ResetState(t) \/ RejectFile(t)
  PROVE  Snapshots'
<1>1. CASE WipeHead(t, "wipe", "wiped")
  BY <1>1, WipeHeadSnapshots, WriterLabelFacts
<1>2. CASE WipeHead(t, "reject", "rejected")
  BY <1>2, WipeHeadSnapshots, WriterLabelFacts
<1>3. CASE WipeTail(t, "rejected", "report", FALSE)
  BY <1>3, WipeTailSnapshots, WriterLabelFacts
<1>4. CASE WipeTail(t, "wiped", IF observed[t] = MISSING THEN "missing" ELSE "open", TRUE)
  <2> DEFINE to == IF observed[t] = MISSING THEN "missing" ELSE "open"
  <2>1. to \in WriterLabels \ {"wipe", "wiped", "rejected"}
    BY WriterLabelFacts
  <2>2. WipeTail(t, "wiped", to, TRUE)
    BY <1>4
  <2> HIDE DEF to
  <2> QED
    BY <2>1, <2>2, WipeTailSnapshots, WriterLabelFacts
<1> QED
  BY <1>1, <1>2, <1>3, <1>4 DEF ResetState, RejectFile

LEMMA SnapshotsStep ==
  ASSUME TypeOK, OneReloader, Snapshots, NEW t \in Threads, Step(t)
  PROVE  Snapshots'
<1> USE DEF Labels, WriterLabels, OwnerLabels, WindowLabels, ReaderLabels, shared, locals
<1>1. CASE EnterWrapper(t)
  <2>1. \A u \in Threads \ {t} : at'[u] = at[u] /\ sequence'[u] = sequence[u] /\ copy'[u] = copy[u]
    BY <1>1 DEF EnterWrapper, TypeOK, LocalsType
  <2> QED
    BY <1>1, <2>1, IdleFrame DEF EnterWrapper
<1>2. CASE StatFile(t)
  <2>1. \A u \in Threads \ {t} : at'[u] = at[u] /\ sequence'[u] = sequence[u] /\ copy'[u] = copy[u]
    BY <1>2 DEF StatFile, TypeOK, LocalsType
  <2> QED
    BY <1>2, <2>1, IdleFrame DEF StatFile
<1>3. CASE LoadCached(t)
  <2>1. \A u \in Threads \ {t} : at'[u] = at[u] /\ sequence'[u] = sequence[u] /\ copy'[u] = copy[u]
    BY <1>3 DEF LoadCached, TypeOK, LocalsType
  <2> QED
    BY <1>3, <2>1, IdleFrame DEF LoadCached
<1>4. CASE Decide(t)
  <2>1. \A u \in Threads \ {t} : at'[u] = at[u] /\ sequence'[u] = sequence[u] /\ copy'[u] = copy[u]
    BY <1>4 DEF Decide, TypeOK, LocalsType
  <2> QED
    BY <1>4, <2>1, IdleFrame DEF Decide
<1>5. CASE Claim(t)
  <2>1. \A u \in Threads \ {t} : at'[u] = at[u] /\ sequence'[u] = sequence[u] /\ copy'[u] = copy[u]
    BY <1>5 DEF Claim, TypeOK, LocalsType
  <2> QED
    BY <1>5, <2>1, IdleFrame DEF Claim
<1>6. CASE BeginRewrite(t)
  BY <1>6, BeginSnapshots
<1>7. CASE ResetState(t)
  BY <1>7, WipeSnapshots
<1>8. CASE LoadMissing(t)
  BY <1>8, OwnerWorks DEF LoadMissing
<1>9. CASE TransientError(t)
  BY <1>9, OwnerWorks DEF TransientError
<1>10. CASE OpenFile(t)
  BY <1>10, OwnerWorks DEF OpenFile
<1>11. CASE ReadFile(t)
  BY <1>11, OwnerWorks DEF ReadFile
<1>12. CASE CheckStamp(t)
  BY <1>12, OwnerWorks DEF CheckStamp, StampHolds, Recent
<1>13. CASE CompareContent(t)
  BY <1>13, OwnerWorks DEF CompareContent
<1>14. CASE FillSnapshot(t)
  BY <1>14, FillSnapshots
<1>15. CASE RejectFile(t)
  BY <1>15, WipeSnapshots
<1>16. CASE Report(t)
  BY <1>16, OwnerWorks DEF Report
<1>17. CASE EndRewrite(t)
  BY <1>17, EndSnapshots
<1>18. CASE Flip(t)
  BY <1>18, FlipSnapshots
<1>19. CASE Release(t)
  <2>1. \A u \in Threads \ {t} : at'[u] = at[u] /\ sequence'[u] = sequence[u] /\ copy'[u] = copy[u]
    BY <1>19 DEF Release, Restored, TypeOK, LocalsType
  <2> QED
    BY <1>19, <2>1, IdleFrame DEF Release, Restored
<1>20. CASE Gate(t)
  <2>1. \A u \in Threads \ {t} : at'[u] = at[u] /\ sequence'[u] = sequence[u] /\ copy'[u] = copy[u]
    BY <1>20 DEF Gate, TypeOK, LocalsType
  <2> QED
    BY <1>20, <2>1, IdleFrame DEF Gate
<1>21. CASE LoadIndex(t)
  <2>1. \A u \in Threads \ {t} : at'[u] = at[u] /\ sequence'[u] = sequence[u] /\ copy'[u] = copy[u]
    BY <1>21 DEF LoadIndex, TypeOK, LocalsType
  <2> QED
    BY <1>21, <2>1, IdleFrame DEF LoadIndex
<1>22. CASE SampleSequence(t)
  BY <1>22, SampleSnapshots
<1>23. CASE CheckCount(t)
  BY <1>23, CountSnapshots
<1>24. CASE SelectRule(t)
  BY <1>24, CopySnapshots
<1>25. CASE Validate(t)
  <2>1. \A u \in Threads \ {t} : at'[u] = at[u] /\ sequence'[u] = sequence[u] /\ copy'[u] = copy[u]
    BY <1>25 DEF Validate, Return, TypeOK, LocalsType
  <2> QED
    BY <1>25, <2>1, IdleFrame DEF Validate, Return
<1> QED
  BY <1>1, <1>2, <1>3, <1>4, <1>5, <1>6, <1>7, <1>8, <1>9, <1>10, <1>11, <1>12, <1>13, <1>14,
     <1>15, <1>16, <1>17, <1>18, <1>19, <1>20, <1>21, <1>22, <1>23, <1>24, <1>25 DEF Step

LEMMA SnapshotsEnvironment ==
  ASSUME TypeOK, Snapshots, Environment
  PROVE  Snapshots'
<1>1. ASSUME UNCHANGED <<seq, words, active, pc, at, sequence, copy>>
      PROVE  Snapshots'
  BY <1>1 DEF Snapshots, RewritesAreMarked, EvenIsWhole, SamplesDoNotRecur, Copying
<1>2. ASSUME NEW t \in Threads, Fork(t)
      PROVE  Snapshots'
  <2>1. /\ \A u \in Threads : pc'[u] = "app"
        /\ UNCHANGED <<seq, words>>
    BY <1>2 DEF Fork, StampAfterFork
  <2>2. "app" \notin WriterLabels \cup WindowLabels \cup {"flip"}
    BY DEF WriterLabels, WindowLabels, OwnerLabels
  <2>3. \A u \in Threads : ~Copying(u)'
    BY <2>1 DEF Copying
  <2> QED
    BY <2>1, <2>2, <2>3 DEF Snapshots, RewritesAreMarked, EvenIsWhole, SamplesDoNotRecur
<1> QED
  BY <1>1, <1>2 DEF Environment, ReplaceFile, RewriteInPlace, RewriteSameTick, RemoveFile, Write,
     AgeFile, ChangeFile, MoveLink, LinksInterval, CheckInterval, shared, locals

\* An accepted answer comes from one snapshot that claimed to be complete.
Answers == AnswersAreOld /\ TornOnlyFromZero

LEMMA AnswersKept ==
  ASSUME TypeOK, Answers, NEW t \in Threads,
         pc[t] # "app", pc'[t] # "app", \A u \in Threads \ {t} : pc'[u] = pc[u] /\ sequence'[u] = sequence[u],
         UNCHANGED answer
  PROVE  Answers'
  BY DEF Answers, AnswersAreOld, TornOnlyFromZero, NoCopy

LEMMA AnswersStep ==
  ASSUME TypeOK, Snapshots, Answers, NEW t \in Threads, Step(t)
  PROVE  Answers'
<1> USE DEF shared, locals
<1>1. CASE EnterWrapper(t)
  BY <1>1 DEF EnterWrapper, Goto, Answers, AnswersAreOld, TornOnlyFromZero, NoCopy, TypeOK, LocalsType
<1>2. CASE StatFile(t)
  BY <1>2, AnswersKept DEF StatFile, Goto, TypeOK, LocalsType
<1>3. CASE LoadCached(t)
  BY <1>3, AnswersKept DEF LoadCached, Goto, TypeOK, LocalsType
<1>4. CASE Decide(t)
  BY <1>4, AnswersKept DEF Decide, Goto, TypeOK, LocalsType
<1>5. CASE Claim(t)
  BY <1>5, AnswersKept DEF Claim, Goto, TypeOK, LocalsType
<1>6. CASE BeginRewrite(t)
  BY <1>6, AnswersKept DEF BeginRewrite, NextIndex, Goto, TypeOK, LocalsType
<1>7. CASE ResetState(t)
  BY <1>7, AnswersKept DEF ResetState, WipeHead, WipeTail, Goto, TypeOK, LocalsType
<1>8. CASE LoadMissing(t)
  BY <1>8, AnswersKept DEF LoadMissing, Goto, TypeOK, LocalsType
<1>9. CASE TransientError(t)
  BY <1>9, AnswersKept DEF TransientError, Goto, TypeOK, LocalsType
<1>10. CASE OpenFile(t)
  BY <1>10, AnswersKept DEF OpenFile, Goto, TypeOK, LocalsType
<1>11. CASE ReadFile(t)
  BY <1>11, AnswersKept DEF ReadFile, Goto, TypeOK, LocalsType
<1>12. CASE CheckStamp(t)
  BY <1>12, AnswersKept DEF CheckStamp, StampHolds, Recent, Goto, TypeOK, LocalsType
<1>13. CASE CompareContent(t)
  BY <1>13, AnswersKept DEF CompareContent, Goto, TypeOK, LocalsType
<1>14. CASE FillSnapshot(t)
  BY <1>14, AnswersKept DEF FillSnapshot, Goto, TypeOK, LocalsType
<1>15. CASE RejectFile(t)
  BY <1>15, AnswersKept DEF RejectFile, WipeHead, WipeTail, Goto, TypeOK, LocalsType
<1>16. CASE Report(t)
  BY <1>16, AnswersKept DEF Report, Goto, TypeOK, LocalsType
<1>17. CASE EndRewrite(t)
  BY <1>17, AnswersKept DEF EndRewrite, Goto, TypeOK, LocalsType
<1>18. CASE Flip(t)
  BY <1>18, AnswersKept DEF Flip, Goto, TypeOK, LocalsType
<1>19. CASE Release(t)
  BY <1>19, AnswersKept DEF Release, Restored, Goto, TypeOK, LocalsType
<1>20. CASE Gate(t)
  BY <1>20 DEF Gate, Goto, Answers, AnswersAreOld, TornOnlyFromZero, NoCopy, TypeOK, LocalsType
<1>21. CASE LoadIndex(t)
  BY <1>21, AnswersKept DEF LoadIndex, Goto, TypeOK, LocalsType
<1>22. CASE SampleSequence(t)
  BY <1>22, AnswersKept DEF SampleSequence, Goto, TypeOK, LocalsType
<1>23. CASE CheckCount(t)
  <2>1. CASE HasRules(at[t])
    <3>1. Goto(t, "copy1") /\ UNCHANGED <<answer, sequence>> /\ pc[t] = "count"
      BY <1>23, <2>1 DEF CheckCount
    <3> QED
      BY <3>1, AnswersKept DEF Goto, TypeOK
  <2>2. CASE ~HasRules(at[t])
    <3>1. /\ pc' = [pc EXCEPT ![t] = "app"] /\ UNCHANGED sequence
          /\ answer' = [answer EXCEPT ![t] = NoCopy]
      BY <1>23, <2>2 DEF CheckCount, Return, Goto
    <3>2. /\ answer'[t] = NoCopy
          /\ \A u \in Threads \ {t} : pc'[u] = pc[u] /\ answer'[u] = answer[u]
      BY <3>1 DEF TypeOK, LocalsType
    <3>3. pc'[t] = "app"
      BY <3>1 DEF TypeOK, LocalsType
    <3> QED
      BY <3>1, <3>2, <3>3 DEF Answers, AnswersAreOld, TornOnlyFromZero, NoCopy
  <2> QED
    BY <2>1, <2>2
<1>24. CASE SelectRule(t)
  BY <1>24, AnswersKept DEF SelectRule, CopyWord, Goto, TypeOK, LocalsType
<1>25. CASE Validate(t)
  <2>1. /\ pc[t] = "valid" /\ UNCHANGED sequence
        /\ pc' = [pc EXCEPT ![t] = "app"]
        /\ answer' = [answer EXCEPT ![t] = IF ReadValid(t) THEN copy[t] ELSE NoCopy]
    BY <1>25 DEF Validate, Return, Goto
  <2>2. ReadValid(t) /\ sequence[t] # 0 => copy[t][1] = copy[t][2]
    BY <2>1 DEF ReadValid, Copying, Snapshots, SamplesDoNotRecur, EvenIsWhole, TypeOK, LocalsType, SharedType
  <2>3. NoCopy[1] = NoCopy[2]
    BY DEF NoCopy
  <2>4. AnswersAreOld'
    BY <2>1 DEF Answers, AnswersAreOld, TypeOK, LocalsType
  <2>5. TornOnlyFromZero'
    BY <2>1, <2>2, <2>3 DEF Answers, TornOnlyFromZero, TypeOK, LocalsType
  <2> QED
    BY <2>4, <2>5 DEF Answers
<1> QED
  BY <1>1, <1>2, <1>3, <1>4, <1>5, <1>6, <1>7, <1>8, <1>9, <1>10, <1>11, <1>12, <1>13, <1>14,
     <1>15, <1>16, <1>17, <1>18, <1>19, <1>20, <1>21, <1>22, <1>23, <1>24, <1>25 DEF Step

LEMMA AnswersEnvironment ==
  ASSUME TypeOK, Answers, Environment
  PROVE  Answers'
<1>1. ASSUME UNCHANGED <<pc, answer, sequence>>
      PROVE  Answers'
  BY <1>1 DEF Answers, AnswersAreOld, TornOnlyFromZero
<1>2. ASSUME NEW t \in Threads, Fork(t)
      PROVE  Answers'
  BY <1>2 DEF Fork, StampAfterFork, Answers, AnswersAreOld, TornOnlyFromZero, NoCopy
<1> QED
  BY <1>1, <1>2 DEF Environment, ReplaceFile, RewriteInPlace, RewriteSameTick, RemoveFile, Write,
     AgeFile, ChangeFile, MoveLink, LinksInterval, CheckInterval, shared, locals

LEMMA ReloadInvInit == Init => ReloadInv
<1>1. Init => AnswersAreOld /\ TornOnlyFromZero
  BY DEF Init, AnswersAreOld, TornOnlyFromZero, NoCopy
<1> QED
  BY <1>1, TypeInit, OwnerInit, SnapshotsInit DEF ReloadInv, Snapshots

LEMMA ReloadInvNext == ReloadInv /\ [Next]_vars => ReloadInv'
<1> SUFFICES ASSUME ReloadInv, [Next]_vars PROVE ReloadInv'
  OBVIOUS
<1>1. TypeOK /\ OneReloader /\ ClaimsAreFresh /\ Snapshots /\ Answers
  BY DEF ReloadInv, Snapshots, Answers
<1>2. TypeOK' /\ OneReloader' /\ ClaimsAreFresh'
  BY <1>1, TypeNext, OwnerNext
<1>3. CASE UNCHANGED vars
  <2>1. Snapshots' /\ Answers'
    BY <1>1, <1>3 DEF Snapshots, RewritesAreMarked, EvenIsWhole, SamplesDoNotRecur, Copying,
       Answers, AnswersAreOld, TornOnlyFromZero, vars, shared, locals
  <2> QED
    BY <1>2, <2>1 DEF ReloadInv, Snapshots, Answers
<1>4. CASE Environment
  BY <1>1, <1>2, <1>4, SnapshotsEnvironment, AnswersEnvironment DEF ReloadInv, Snapshots, Answers
<1>5. ASSUME NEW t \in Threads, Step(t)
      PROVE  ReloadInv'
  BY <1>1, <1>2, <1>5, SnapshotsStep, AnswersStep DEF ReloadInv, Snapshots, Answers
<1> QED
  BY <1>3, <1>4, <1>5 DEF Next

\* What the parity of a sequence says of its snapshot, who may rewrite it and
\* what a copy between two equal samples holds, at every step of any number
\* of reloads, readers and forks: the invariant all theorems here rest on.
THEOREM InvariantHolds == Spec => []ReloadInv
  BY ReloadInvInit, ReloadInvNext, PTL DEF Spec

\* The seqlock works but for the memset (chaos_snapshot_read_valid): for any
\* number of threads and reloads, a torn copy is accepted only if its sample
\* was the 0 that reset_state's memset puts over the sequence.
THEOREM CopiesAreWhole == Spec => []TornOnlyFromZero
<1>1. ReloadInv => TornOnlyFromZero
  BY DEF ReloadInv
<1> QED
  BY <1>1, ReloadInvInit, ReloadInvNext, PTL DEF Spec

LEMMA FrozenStep ==
  ASSUME TypeOK, OneReloader, Snapshots, NEW t \in Threads, Step(t)
  PROVE  words'[active] = words[active] /\ words'[active'] = words[active']
<1>1. ASSUME pc[t] \in WriterLabels, UNCHANGED active,
             \E v : words' = [words EXCEPT ![at[t]] = v]
      PROVE  words'[active] = words[active] /\ words'[active'] = words[active']
  <2>1. at[t] = 1 - active /\ at[t] # active
    BY <1>1, ActiveType DEF Snapshots, RewritesAreMarked, TypeOK
  <2> QED
    BY <1>1, <2>1 DEF TypeOK, SharedType
<1>2. CASE UNCHANGED words
  BY <1>2
<1>3. ASSUME NEW from, NEW to, NEW ok, from \in WriterLabels,
             WipeHead(t, from, to) \/ WipeTail(t, from, to, ok)
      PROVE  words'[active] = words[active] /\ words'[active'] = words[active']
  BY <1>1, <1>3 DEF WipeHead, WipeTail
<1>4. CASE ResetState(t) \/ RejectFile(t)
  BY <1>3, <1>4 DEF ResetState, RejectFile, WriterLabels, OwnerLabels
<1>5. CASE FillSnapshot(t)
  BY <1>1, <1>2, <1>5 DEF FillSnapshot, WriterLabels, OwnerLabels
<1> QED
  BY <1>2, <1>4, <1>5 DEF Step, EnterWrapper, StatFile, LoadCached, Decide, Claim, BeginRewrite,
     LoadMissing, TransientError, OpenFile, ReadFile, CheckStamp, CompareContent, Report, EndRewrite,
     Flip, Release, Gate, LoadIndex, SampleSequence, CheckCount, SelectRule, CopyWord, Validate, shared

\* Readers never see the rules in force change under them: no step of any
\* interleaving rewrites the snapshot that is active before or after it.
THEOREM ActiveNeverRewritten == Spec => ActiveIsFrozen
<1>1. ReloadInv /\ [Next]_vars =>
        [words'[active] = words[active] /\ words'[active'] = words[active']]_vars
  <2> SUFFICES ASSUME ReloadInv, [Next]_vars
               PROVE  [words'[active] = words[active] /\ words'[active'] = words[active']]_vars
    OBVIOUS
  <2>1. TypeOK /\ OneReloader /\ Snapshots
    BY DEF ReloadInv, Snapshots
  <2>2. CASE UNCHANGED words
    BY <2>2
  <2>3. CASE Environment
    BY <2>2, <2>3 DEF Environment, ReplaceFile, RewriteInPlace, RewriteSameTick, RemoveFile, Write,
       AgeFile, ChangeFile, MoveLink, LinksInterval, CheckInterval, Fork, shared
  <2> QED
    BY <2>1, <2>3, FrozenStep DEF Next
<1> QED
  BY <1>1, ReloadInvInit, ReloadInvNext, PTL DEF Spec, ActiveIsFrozen

-----------------------------------------------------------------------------
(* The status file.                                                        *)

\* What the status file says of snapshot s loaded for the given stamp.
Describes(stamp, s) ==
  [state |-> IF stamp = MISSING THEN "absent" ELSE IF parseOk[s] THEN "ok" ELSE "error",
   rules |-> words[s][2]]

\* Labels from the open to the report, and those at which the snapshot under
\* rewrite still counts as parsed.
FillLabels == {"open", "read", "fstat", "compare", "fill"}
LoadLabels == FillLabels \cup {"reject", "rejected", "report"}

\* The report is the owner's, and runs ahead of the publication: until it is
\* written the status describes the load that is to be replaced, then the
\* snapshot on its way.
ReportOf(t) ==
  /\ pc[t] \in OwnerLabels \ {"end", "flip", "release"} /\ previous[t] # UNKNOWN =>
       status = Describes(previous[t], active)
  /\ pc[t] \in {"end", "flip"} => status = Describes(observed[t], at[t])
  /\ pc[t] = "release" => status = Describes(observed[t], active)

\* What the owner has loaded so far.
LoadOf(t) ==
  /\ pc[t] = "missing" => observed[t] = MISSING /\ words[at[t]] = NoCopy
  /\ pc[t] \in LoadLabels => observed[t] # MISSING
  /\ pc[t] \in FillLabels => parseOk[at[t]]
  /\ pc[t] = "report" => parseOk[at[t]] \/ words[at[t]][2] = NoRules

AbsentIsEmpty == status.state = "absent" => status.rules = NoRules

StatusInv ==
  /\ StatusDescribesActive /\ AbsentIsEmpty
  /\ \A t \in Threads : ReportOf(t) /\ LoadOf(t)

LEMMA StatusInit == Init => StatusInv
<1> SUFFICES ASSUME Init PROVE StatusInv
  OBVIOUS
<1>1. \A t \in Threads : pc[t] = "app"
  BY DEF Init
<1>2. StatusDescribesActive /\ AbsentIsEmpty
  BY DEF Init, StatusDescribesActive, AbsentIsEmpty
<1>3. \A t \in Threads : ReportOf(t) /\ LoadOf(t)
  BY <1>1 DEF ReportOf, LoadOf, LoadLabels, FillLabels, OwnerLabels
<1> QED
  BY <1>2, <1>3 DEF StatusInv

\* A step of a thread outside the reload that stays outside.
LEMMA StatusIdle ==
  ASSUME TypeOK, StatusInv, NEW t \in Threads, NEW l, Goto(t, l), l \notin OwnerLabels, ~Owner(t),
         UNCHANGED <<cached, active, words, parseOk, status>>,
         \A u \in Threads \ {t} :
           observed'[u] = observed[u] /\ previous'[u] = previous[u] /\ at'[u] = at[u]
  PROVE  StatusInv'
<1>1. pc'[t] = l /\ \A u \in Threads \ {t} : pc'[u] = pc[u]
  BY DEF Goto, TypeOK, LocalsType
<1>2. (StatusDescribesActive /\ AbsentIsEmpty)'
  BY DEF StatusInv, StatusDescribesActive, AbsentIsEmpty
<1>3. ReportOf(t)' /\ LoadOf(t)'
  BY <1>1 DEF ReportOf, LoadOf, LoadLabels, FillLabels, OwnerLabels
<1>4. ASSUME NEW u \in Threads \ {t}
      PROVE  ReportOf(u)' /\ LoadOf(u)'
  <2>1. ReportOf(u) /\ LoadOf(u)
    BY DEF StatusInv
  <2> QED
    BY <1>1, <2>1 DEF ReportOf, LoadOf, Describes
<1> QED
  BY <1>2, <1>3, <1>4 DEF StatusInv

\* A step of the owner that keeps the claim concerns nobody else.
LEMMA StatusOwner ==
  ASSUME TypeOK, OneReloader, NEW t \in Threads, Owner(t), NEW l \in OwnerLabels, Goto(t, l),
         UNCHANGED cached, AbsentIsEmpty', ReportOf(t)', LoadOf(t)'
  PROVE  StatusInv'
<1>1. \A u \in Threads \ {t} : pc'[u] \notin OwnerLabels
  BY DEF Goto, OneReloader, Owner, TypeOK, LocalsType
<1>2. StatusDescribesActive'
  BY DEF OneReloader, StatusDescribesActive
<1>3. \A u \in Threads \ {t} : ReportOf(u)' /\ LoadOf(u)'
  BY <1>1 DEF ReportOf, LoadOf, LoadLabels, FillLabels, OwnerLabels
<1> QED
  BY <1>2, <1>3 DEF StatusInv

\* The owner before its report, changing at most the snapshot under rewrite.
LEMMA StatusWorks ==
  ASSUME TypeOK, OneReloader, StatusInv, NEW t \in Threads, NEW l, Goto(t, l),
         pc[t] \in OwnerLabels \ {"end", "flip", "release"},
         l \in OwnerLabels \ {"end", "flip", "release"},
         UNCHANGED <<cached, active, status, observed, previous>>,
         words'[active] = words[active], parseOk'[active] = parseOk[active], LoadOf(t)'
  PROVE  StatusInv'
<1>1. pc'[t] = l
  BY DEF Goto, TypeOK, LocalsType
<1>2. AbsentIsEmpty' /\ ReportOf(t)
  BY DEF StatusInv, AbsentIsEmpty
<1>3. ReportOf(t)'
  BY <1>1, <1>2 DEF ReportOf, Describes
<1> QED
  BY <1>2, <1>3, StatusOwner DEF Owner

LEMMA StatusStep ==
  ASSUME ReloadInv, StatusInv, NEW t \in Threads, Step(t)
  PROVE  StatusInv'
<1>1. TypeOK /\ OneReloader /\ ClaimsAreFresh /\ RewritesAreMarked
  BY DEF ReloadInv
<1>2. ReportOf(t) /\ LoadOf(t) /\ StatusDescribesActive /\ AbsentIsEmpty
  BY DEF StatusInv
<1>3. active \in Snaps /\ at[t] \in Snaps
  BY <1>1, ActiveType DEF TypeOK, LocalsType
<1>4. pc[t] \in WriterLabels \cup {"flip"} => at[t] # active
  BY <1>1, ActiveType DEF RewritesAreMarked, TypeOK
<1>5. \A l : Goto(t, l) => pc'[t] = l
  BY <1>1 DEF Goto, TypeOK, LocalsType
<1>6. Owner(t) => cached = RELOADING
  BY <1>1 DEF OneReloader
\* Outside the reload.
<1>10. CASE EnterWrapper(t) \/ StatFile(t) \/ LoadCached(t) \/ Decide(t) \/ Gate(t) \/ LoadIndex(t)
              \/ SampleSequence(t) \/ CheckCount(t) \/ SelectRule(t) \/ Validate(t)
  BY <1>1, <1>10, StatusIdle DEF EnterWrapper, StatFile, LoadCached, Decide, Gate, LoadIndex,
     SampleSequence, CheckCount, SelectRule, CopyWord, Validate, Return, Owner, OwnerLabels,
     TypeOK, LocalsType, shared, locals
<1>11. CASE Claim(t)
  <2>1. CASE cached = previous[t]
    <3>1. cached' = RELOADING /\ Goto(t, "begin") /\ UNCHANGED <<active, words, parseOk, status, locals>>
      BY <1>11, <2>1 DEF Claim
    <3>2. cached # RELOADING /\ \A u \in Threads : ~Owner(u)
      BY <1>1, <1>11, <2>1 DEF Claim, ClaimsAreFresh, OneReloader
    <3>3. \A u \in Threads \ {t} : pc'[u] \notin OwnerLabels
      BY <1>1, <3>1, <3>2 DEF Goto, Owner, TypeOK, LocalsType
    <3>4. ReportOf(t)' /\ LoadOf(t)'
      BY <1>2, <1>5, <2>1, <3>1, <3>2 DEF ReportOf, LoadOf, LoadLabels, FillLabels, Describes,
         StatusDescribesActive, locals
    <3>5. \A u \in Threads \ {t} : ReportOf(u)' /\ LoadOf(u)'
      BY <3>3 DEF ReportOf, LoadOf, LoadLabels, FillLabels, OwnerLabels
    <3>6. StatusDescribesActive' /\ AbsentIsEmpty'
      BY <1>2, <3>1 DEF StatusDescribesActive, AbsentIsEmpty
    <3> QED
      BY <3>4, <3>5, <3>6 DEF StatusInv
  <2>2. CASE cached # previous[t]
    BY <1>1, <1>11, <2>2, StatusIdle DEF Claim, Owner, OwnerLabels, locals
  <2> QED
    BY <2>1, <2>2
\* The owner before its report.
<1>20. CASE BeginRewrite(t)
  <2>1. LoadOf(t)'
    BY <1>5, <1>20 DEF BeginRewrite, LoadOf, LoadLabels, FillLabels
  <2> QED
    BY <1>1, <1>20, <2>1, StatusWorks DEF BeginRewrite, OwnerLabels
<1>21. ASSUME NEW from \in WriterLabels \ {"end"}, NEW to \in OwnerLabels \ {"end", "flip", "release"},
              WipeHead(t, from, to), LoadOf(t)'
       PROVE  StatusInv'
  <2>1. words'[active] = words[active]
    BY <1>1, <1>3, <1>4, <1>21 DEF WipeHead, TypeOK, SharedType
  <2> QED
    BY <1>1, <1>21, <2>1, StatusWorks DEF WipeHead, WriterLabels, locals
<1>22. ASSUME NEW from \in WriterLabels \ {"end"}, NEW to \in OwnerLabels \ {"end", "flip", "release"},
              NEW ok, WipeTail(t, from, to, ok), LoadOf(t)'
       PROVE  StatusInv'
  <2>1. words'[active] = words[active] /\ parseOk'[active] = parseOk[active]
    BY <1>1, <1>3, <1>4, <1>22 DEF WipeTail, TypeOK, SharedType
  <2> QED
    BY <1>1, <1>22, <2>1, StatusWorks DEF WipeTail, WriterLabels, locals
<1>23. CASE ResetState(t)
  <2>1. CASE WipeHead(t, "wipe", "wiped")
    <3>1. LoadOf(t)'
      BY <1>5, <2>1 DEF WipeHead, LoadOf, LoadLabels, FillLabels
    <3> QED
      BY <1>21, <2>1, <3>1 DEF WriterLabels, OwnerLabels
  <2>2. CASE WipeTail(t, "wiped", IF observed[t] = MISSING THEN "missing" ELSE "open", TRUE)
    <3>1. LoadOf(t)'
      BY <1>1, <1>3, <1>5, <2>2 DEF WipeTail, LoadOf, LoadLabels, FillLabels, TypeOK, SharedType, locals
    <3> QED
      BY <1>22, <2>2, <3>1 DEF WriterLabels, OwnerLabels
  <2> QED
    BY <1>23, <2>1, <2>2 DEF ResetState
<1>24. CASE RejectFile(t)
  <2>1. CASE WipeHead(t, "reject", "rejected")
    <3>1. LoadOf(t)'
      BY <1>2, <1>5, <2>1 DEF WipeHead, LoadOf, LoadLabels, FillLabels, locals
    <3> QED
      BY <1>21, <2>1, <3>1 DEF WriterLabels, OwnerLabels
  <2>2. CASE WipeTail(t, "rejected", "report", FALSE)
    <3>1. LoadOf(t)'
      BY <1>1, <1>2, <1>3, <1>5, <2>2 DEF WipeTail, LoadOf, LoadLabels, FillLabels, NoCopy, TypeOK, SharedType, locals
    <3> QED
      BY <1>22, <2>2, <3>1 DEF WriterLabels, OwnerLabels
  <2> QED
    BY <1>24, <2>1, <2>2 DEF RejectFile
<1>25. CASE TransientError(t) \/ OpenFile(t) \/ ReadFile(t) \/ CheckStamp(t) \/ CompareContent(t)
  <2>1. LoadOf(t)'
    BY <1>2, <1>5, <1>25 DEF TransientError, OpenFile, ReadFile, CheckStamp, CompareContent, LoadOf,
       LoadLabels, FillLabels, shared, locals
  <2> QED
    BY <1>1, <1>25, <2>1, StatusWorks DEF TransientError, OpenFile, ReadFile, CheckStamp,
       CompareContent, OwnerLabels, shared, locals
<1>26. CASE FillSnapshot(t)
  <2>1. words'[active] = words[active] /\ pc[t] = "fill"
    BY <1>1, <1>3, <1>4, <1>26 DEF FillSnapshot, WriterLabels, OwnerLabels, TypeOK, SharedType
  <2>2. LoadOf(t)'
    BY <1>2, <1>5, <1>26 DEF FillSnapshot, LoadOf, LoadLabels, FillLabels, locals
  <2> QED
    BY <1>1, <1>26, <2>1, <2>2, StatusWorks DEF FillSnapshot, OwnerLabels, locals
\* The report, and what follows it.
<1>30. CASE LoadMissing(t)
  <2>1. status' = [state |-> "absent", rules |-> NoRules] /\ UNCHANGED <<words, cached, locals>>
        /\ pc[t] = "missing" /\ Goto(t, "end")
    BY <1>30 DEF LoadMissing
  <2>2. ReportOf(t)'
    BY <1>2, <1>5, <2>1 DEF ReportOf, LoadOf, Describes, NoCopy, locals
  <2>3. LoadOf(t)' /\ AbsentIsEmpty'
    BY <1>5, <2>1 DEF LoadOf, LoadLabels, FillLabels, AbsentIsEmpty
  <2> QED
    BY <1>1, <2>1, <2>2, <2>3, StatusOwner DEF Owner, OwnerLabels
<1>31. CASE Report(t)
  <2>1. /\ status' = IF parseOk[at[t]]
                       THEN [state |-> "ok", rules |-> words[at[t]][2]]
                       ELSE [state |-> "error", rules |-> NoRules]
        /\ UNCHANGED <<words, parseOk, cached, locals>>
        /\ pc[t] = "report" /\ Goto(t, "end")
    BY <1>31 DEF Report
  <2>2. ReportOf(t)'
    BY <1>2, <1>5, <2>1 DEF ReportOf, LoadOf, LoadLabels, Describes, locals
  <2>3. LoadOf(t)' /\ AbsentIsEmpty'
    BY <1>5, <2>1 DEF LoadOf, LoadLabels, FillLabels, AbsentIsEmpty
  <2> QED
    BY <1>1, <2>1, <2>2, <2>3, StatusOwner DEF Owner, OwnerLabels
<1>32. CASE EndRewrite(t) \/ Flip(t)
  <2>1. ReportOf(t)' /\ LoadOf(t)' /\ AbsentIsEmpty'
    BY <1>2, <1>5, <1>32 DEF EndRewrite, Flip, ReportOf, LoadOf, LoadLabels, FillLabels, Describes,
       AbsentIsEmpty, locals
  <2> QED
    BY <1>1, <1>32, <2>1, StatusOwner DEF EndRewrite, Flip, Owner, OwnerLabels
<1>33. CASE Release(t)
  <2>1. /\ pc' = [pc EXCEPT ![t] = "gate"] /\ Owner(t)
        /\ UNCHANGED <<active, words, parseOk, status, locals>>
    BY <1>33 DEF Release, Goto, Owner, OwnerLabels
  <2>2. \A u \in Threads : pc'[u] \notin OwnerLabels
    BY <1>1, <2>1 DEF OneReloader, Owner, OwnerLabels, TypeOK, LocalsType
  <2>3. \A u \in Threads : ReportOf(u)' /\ LoadOf(u)'
    BY <2>2 DEF ReportOf, LoadOf, LoadLabels, FillLabels, OwnerLabels
  <2>4. cached' # UNKNOWN => status = Describes(cached', active)
    BY <1>2, <1>33 DEF Release, Restored, ReportOf, OwnerLabels
  <2>5. StatusDescribesActive' /\ AbsentIsEmpty'
    BY <1>2, <2>1, <2>4 DEF StatusDescribesActive, AbsentIsEmpty, Describes
  <2> QED
    BY <2>3, <2>5 DEF StatusInv
<1> QED
  BY <1>10, <1>11, <1>20, <1>23, <1>24, <1>25, <1>26, <1>30, <1>31, <1>32, <1>33 DEF Step

LEMMA StatusNext == ReloadInv /\ StatusInv /\ [Next]_vars => StatusInv'
<1> SUFFICES ASSUME ReloadInv, StatusInv, [Next]_vars PROVE StatusInv'
  OBVIOUS
<1>1. ASSUME UNCHANGED <<cached, active, words, parseOk, status, pc, observed, previous, at>>
      PROVE  StatusInv'
  <2>1. StatusDescribesActive' /\ AbsentIsEmpty'
    BY <1>1 DEF StatusInv, StatusDescribesActive, AbsentIsEmpty
  <2>2. ASSUME NEW t \in Threads
        PROVE  ReportOf(t)' /\ LoadOf(t)'
    <3>1. ReportOf(t) /\ LoadOf(t)
      BY DEF StatusInv
    <3> QED
      BY <1>1, <3>1 DEF ReportOf, LoadOf, Describes
  <2> QED
    BY <2>1, <2>2 DEF StatusInv
<1>2. ASSUME NEW t \in Threads, Fork(t)
      PROVE  StatusInv'
  <2>1. \A u \in Threads : pc'[u] = "app"
    BY <1>2 DEF Fork
  <2>2. \A u \in Threads : ReportOf(u)' /\ LoadOf(u)'
    BY <2>1 DEF ReportOf, LoadOf, LoadLabels, FillLabels, OwnerLabels
  <2>3. StatusDescribesActive' /\ AbsentIsEmpty'
    BY <1>2 DEF Fork, StampAfterFork, StatusInv, StatusDescribesActive, AbsentIsEmpty
  <2> QED
    BY <2>2, <2>3 DEF StatusInv
<1>3. CASE Environment
  BY <1>1, <1>2, <1>3 DEF Environment, ReplaceFile, RewriteInPlace, RewriteSameTick, RemoveFile, Write,
     AgeFile, ChangeFile, MoveLink, LinksInterval, CheckInterval, shared, locals
<1> QED
  BY <1>1, <1>3, StatusStep DEF Next, vars, shared, locals

\* Whatever reloads, failed reads, lost races and forks do, the status file
\* never stays one load behind: as soon as a stamp is cached it describes the
\* snapshot in force (chaos_io_config_report before chaos_io_config_publish).
THEOREM StatusIsCurrent == Spec => []StatusDescribesActive
<1>1. StatusInv => StatusDescribesActive
  BY DEF StatusInv
<1> QED
  BY <1>1, StatusInit, StatusNext, ReloadInvInit, ReloadInvNext, PTL DEF Spec

-----------------------------------------------------------------------------
(* Settled stamps, where the rule file is only ever replaced by rename.    *)

BodyOf(w) == IF w # NoRules THEN w[1] ELSE NoRules

\* Every stamp in use was given out by an earlier change of the file.
Past(stamp) == stamp < writes + 2

\* What a thread's look has established, as long as the stamp it rests on is
\* still the file's: the rules in force are the file's, or what the owner has
\* read and parsed so far is.
LookOf(t) ==
  /\ Past(observed[t]) /\ Past(previous[t])
  /\ pc[t] \in OwnerLabels \ {"end", "flip", "release"} /\ previous[t] = file.stamp =>
       ActiveRules = FileRules
  /\ pc[t] = "release" /\ observed[t] = file.stamp => ActiveRules = FileRules
  /\ observed[t] = file.stamp =>
       /\ pc[t] \in {"read", "fstat"} => fd[t].body = file.body
       /\ pc[t] \in {"fstat", "compare", "fill"} => buffer = file.body
       /\ pc[t] \in {"reject", "rejected"} => FileRules = NoRules
       /\ pc[t] \in {"report", "end", "flip"} => BodyOf(words[at[t]][2]) = FileRules

FileIsStamped == (file.stamp = MISSING <=> file = NoFile) /\ Past(file.stamp)
CacheIsCurrent == Past(cached) /\ (cached = file.stamp => ActiveRules = FileRules)

SettledInv == FileIsStamped /\ CacheIsCurrent /\ \A t \in Threads : LookOf(t)

LEMMA SettledInit == Init => SettledInv
<1> SUFFICES ASSUME Init PROVE SettledInv
  OBVIOUS
<1>1. file = NoFile \/ \E b \in Bodies, r \in BOOLEAN :
                          file = [ino |-> 1, stamp |-> 1, body |-> b, recent |-> r]
  BY DEF Init
<1>2. FileIsStamped /\ file.stamp \in {0, 1}
  BY <1>1 DEF Init, FileIsStamped, Past, NoFile, MISSING
<1>3. CacheIsCurrent
  BY <1>2 DEF Init, CacheIsCurrent, Past, UNKNOWN
<1>4. \A t \in Threads : LookOf(t)
  BY DEF Init, LookOf, Past, MISSING, OwnerLabels
<1> QED
  BY <1>2, <1>3, <1>4 DEF SettledInv

\* A step of a thread outside the reload that stays outside.
LEMMA SettledIdle ==
  ASSUME TypeOK, SettledInv, NEW t \in Threads, NEW l, Goto(t, l), l \notin OwnerLabels, ~Owner(t),
         UNCHANGED <<file, writes, cached, active, words, buffer, fd>>,
         Past(observed'[t]), Past(previous'[t]),
         \A u \in Threads \ {t} :
           observed'[u] = observed[u] /\ previous'[u] = previous[u] /\ at'[u] = at[u]
  PROVE  SettledInv'
<1>1. pc'[t] = l /\ \A u \in Threads \ {t} : pc'[u] = pc[u]
  BY DEF Goto, TypeOK, LocalsType
<1>2. (FileIsStamped /\ CacheIsCurrent)'
  BY DEF SettledInv, FileIsStamped, CacheIsCurrent, Past, ActiveRules, HasRules, FileRules
<1>3. LookOf(t)'
  BY <1>1 DEF LookOf, Past, OwnerLabels
<1>4. ASSUME NEW u \in Threads \ {t}
      PROVE  LookOf(u)'
  <2>1. LookOf(u)
    BY DEF SettledInv
  <2> QED
    BY <1>1, <2>1 DEF LookOf, Past, ActiveRules, HasRules, FileRules, BodyOf
<1> QED
  BY <1>2, <1>3, <1>4 DEF SettledInv

\* A step of the owner that keeps the claim concerns nobody else.
LEMMA SettledOwner ==
  ASSUME TypeOK, OneReloader, SettledInv, NEW t \in Threads, Owner(t), NEW l \in OwnerLabels,
         Goto(t, l), UNCHANGED <<file, writes, cached, observed, previous>>, LookOf(t)'
  PROVE  SettledInv'
<1>1. \A u \in Threads \ {t} : pc'[u] \notin OwnerLabels
  BY DEF Goto, OneReloader, Owner, TypeOK, LocalsType
<1>2. cached = RELOADING /\ file.stamp \in Nat
  BY DEF OneReloader, TypeOK, WorldType, Files
<1>3. (FileIsStamped /\ CacheIsCurrent)'
  BY <1>2 DEF SettledInv, FileIsStamped, CacheIsCurrent, Past, RELOADING
<1>4. ASSUME NEW u \in Threads \ {t}
      PROVE  LookOf(u)'
  <2>1. LookOf(u)
    BY DEF SettledInv
  <2> QED
    BY <1>1, <2>1 DEF LookOf, Past, OwnerLabels
<1> QED
  BY <1>3, <1>4 DEF SettledInv

\* The owner before it flips the index: the rules in force stay.
LEMMA SettledWorks ==
  ASSUME TypeOK, OneReloader, SettledInv, NEW t \in Threads, NEW l, Goto(t, l),
         pc[t] \in OwnerLabels \ {"release"}, l \in OwnerLabels \ {"release"},
         pc[t] \in {"end", "flip"} => l \in {"end", "flip"},
         UNCHANGED <<file, writes, cached, active, observed, previous>>,
         words'[active] = words[active],
         observed[t] = file.stamp =>
           /\ l \in {"read", "fstat"} => fd'[t].body = file.body
           /\ l \in {"fstat", "compare", "fill"} => buffer' = file.body
           /\ l \in {"reject", "rejected"} => FileRules = NoRules
           /\ l \in {"report", "end", "flip"} => BodyOf(words'[at'[t]][2]) = FileRules
  PROVE  SettledInv'
<1>1. pc'[t] = l
  BY DEF Goto, TypeOK, LocalsType
<1>2. LookOf(t)
  BY DEF SettledInv
<1>3. ActiveRules' = ActiveRules /\ FileRules' = FileRules
  BY DEF ActiveRules, HasRules, FileRules
<1>4. \A w : BodyOf(w)' = BodyOf(w)
  BY DEF BodyOf
<1>5. LookOf(t)'
  BY <1>1, <1>2, <1>3 DEF LookOf, Past, BodyOf
<1> QED
  BY <1>5, SettledOwner DEF Owner

LEMMA SettledStep ==
  ASSUME ReloadInv, StatusInv, SettledInv, NEW t \in Threads, Step(t)
  PROVE  SettledInv'
<1>1. TypeOK /\ OneReloader /\ ClaimsAreFresh /\ RewritesAreMarked
  BY DEF ReloadInv
<1>2. LookOf(t) /\ LoadOf(t) /\ FileIsStamped /\ CacheIsCurrent
  BY DEF StatusInv, SettledInv
<1>3. active \in Snaps /\ at[t] \in Snaps /\ file.stamp \in Nat /\ writes \in Nat
  BY <1>1, ActiveType DEF TypeOK, LocalsType, WorldType, Files
<1>4. pc[t] \in WriterLabels \cup {"flip"} => at[t] # active
  BY <1>1, ActiveType DEF RewritesAreMarked, TypeOK
<1>5. \A l : Goto(t, l) => pc'[t] = l
  BY <1>1 DEF Goto, TypeOK, LocalsType
<1>6. Past(file.stamp) /\ Past(cached) /\ Past(MISSING)
  BY <1>2, <1>3 DEF FileIsStamped, CacheIsCurrent, Past, MISSING
<1>7. Past(observed[t]) /\ Past(previous[t])
  BY <1>2 DEF LookOf
<1>8. file.body \notin Good => FileRules = NoRules
  BY DEF FileRules
\* Outside the reload.
<1>10. CASE EnterWrapper(t) \/ Decide(t) \/ LoadIndex(t)
              \/ SampleSequence(t) \/ CheckCount(t) \/ SelectRule(t) \/ Validate(t)
  BY <1>1, <1>7, <1>10, SettledIdle DEF EnterWrapper, Decide, LoadIndex,
     SampleSequence, CheckCount, SelectRule, CopyWord, Validate, Return, Owner, OwnerLabels,
     TypeOK, LocalsType, shared, locals, world
<1>12. CASE StatFile(t) \/ LoadCached(t) \/ Gate(t)
  <2>1. Past(observed'[t]) /\ Past(previous'[t])
    BY <1>1, <1>6, <1>7, <1>12 DEF StatFile, LoadCached, Gate, TypeOK, LocalsType
  <2> QED
    BY <1>1, <1>12, <2>1, SettledIdle DEF StatFile, LoadCached, Gate, Owner, OwnerLabels,
       TypeOK, LocalsType, shared, world
<1>11. CASE Claim(t)
  <2>1. CASE cached = previous[t]
    <3>1. cached' = RELOADING /\ Goto(t, "begin") /\ UNCHANGED <<world, active, words, locals, buffer>>
      BY <1>11, <2>1 DEF Claim
    <3>2. \A u \in Threads : ~Owner(u)
      BY <1>1, <1>11, <2>1 DEF Claim, ClaimsAreFresh, OneReloader
    <3>3. \A u \in Threads \ {t} : pc'[u] \notin OwnerLabels
      BY <1>1, <3>1, <3>2 DEF Goto, Owner, TypeOK, LocalsType
    <3>4. ActiveRules' = ActiveRules /\ FileRules' = FileRules
      BY <3>1 DEF ActiveRules, HasRules, FileRules, world
    <3>5. LookOf(t)'
      BY <1>2, <1>5, <2>1, <3>1, <3>4 DEF LookOf, Past, CacheIsCurrent, OwnerLabels, world, locals
    <3>6. ASSUME NEW u \in Threads \ {t}
          PROVE  LookOf(u)'
      <4>1. LookOf(u)
        BY DEF SettledInv
      <4> QED
        BY <3>1, <3>3, <4>1 DEF LookOf, Past, OwnerLabels, world, locals
    <3>7. FileIsStamped' /\ CacheIsCurrent'
      BY <1>2, <1>3, <3>1 DEF FileIsStamped, CacheIsCurrent, Past, RELOADING, world
    <3> QED
      BY <3>5, <3>6, <3>7 DEF SettledInv
  <2>2. CASE cached # previous[t]
    BY <1>1, <1>7, <1>11, <2>2, SettledIdle DEF Claim, Owner, OwnerLabels, locals, world
  <2> QED
    BY <2>1, <2>2
\* The owner up to the flip.
<1>20. CASE BeginRewrite(t) \/ TransientError(t)
  BY <1>1, <1>20, SettledWorks DEF BeginRewrite, TransientError, OwnerLabels, world, shared
<1>21. ASSUME NEW from \in WriterLabels \ {"end"}, NEW to \in OwnerLabels \ {"release"}, NEW ok,
              WipeHead(t, from, to) \/ WipeTail(t, from, to, ok)
       PROVE  /\ words'[active] = words[active] /\ Goto(t, to)
              /\ pc[t] \in OwnerLabels \ {"end", "flip", "release"}
              /\ UNCHANGED <<file, writes, cached, active, observed, previous>>
  BY <1>1, <1>3, <1>4, <1>21 DEF WipeHead, WipeTail, WriterLabels, OwnerLabels, TypeOK, SharedType, world, locals
<1>22. CASE ResetState(t)
  <2>1. CASE WipeHead(t, "wipe", "wiped")
    BY <1>1, <1>21, <2>1, SettledWorks DEF WriterLabels, OwnerLabels
  <2>2. CASE WipeTail(t, "wiped", IF observed[t] = MISSING THEN "missing" ELSE "open", TRUE)
    BY <1>1, <1>21, <2>2, SettledWorks DEF WriterLabels, OwnerLabels
  <2> QED
    BY <1>22, <2>1, <2>2 DEF ResetState
<1>23. CASE RejectFile(t)
  <2>1. CASE WipeHead(t, "reject", "rejected")
    BY <1>1, <1>2, <1>21, <2>1, SettledWorks DEF WipeHead, LookOf, WriterLabels, OwnerLabels
  <2>2. CASE WipeTail(t, "rejected", "report", FALSE)
    <3>1. BodyOf(words'[at'[t]][2]) = NoRules
      BY <1>1, <1>3, <2>2 DEF WipeTail, BodyOf, NoCopy, TypeOK, SharedType, locals
    <3> QED
      BY <1>1, <1>2, <1>21, <2>2, <3>1, SettledWorks DEF WipeTail, LookOf, WriterLabels, OwnerLabels
  <2> QED
    BY <1>23, <2>1, <2>2 DEF RejectFile
<1>24. CASE OpenFile(t)
  BY <1>1, <1>24, SettledWorks DEF OpenFile, OwnerLabels, TypeOK, LocalsType, world, shared
<1>25. CASE ReadFile(t)
  <2>1. pc[t] = "read" /\ (observed[t] = file.stamp => fd[t].body = file.body)
    BY <1>2, <1>25 DEF ReadFile, LookOf
  <2>2. fd[t].body \in Blocked => fd[t].body \notin Good
    BY ConstantsAssumption
  <2> QED
    BY <1>1, <1>8, <1>25, <2>1, <2>2, SettledWorks DEF ReadFile, OwnerLabels, world
<1>26. CASE CheckStamp(t) \/ CompareContent(t)
  <2>1. observed[t] = file.stamp => buffer = file.body
    BY <1>2, <1>26 DEF CheckStamp, CompareContent, LookOf
  <2> QED
    BY <1>1, <1>26, <2>1, SettledWorks DEF CheckStamp, CompareContent, OwnerLabels, world, locals
<1>27. CASE FillSnapshot(t)
  <2>1. words'[active] = words[active] /\ pc[t] = "fill"
    BY <1>1, <1>3, <1>4, <1>27 DEF FillSnapshot, WriterLabels, OwnerLabels, TypeOK, SharedType
  <2>2. observed[t] = file.stamp => buffer = file.body
    BY <1>2, <2>1 DEF LookOf
  <2>3. CASE buffer \in Good
    <3>1. words'[at[t]][2] = Resolve(buffer) /\ Resolve(buffer) \in RuleSets
      BY <1>1, <1>3, <1>27, <2>3, ConstantsAssumption DEF FillSnapshot, TypeOK, SharedType, WorldType, Resolve,
         RuleSets, Targets
    <3>2. BodyOf(words'[at[t]][2]) = buffer
      BY <3>1, ConstantsAssumption DEF BodyOf, Resolve
    <3> QED
      BY <1>1, <1>27, <2>1, <2>2, <2>3, <3>2, SettledWorks DEF FillSnapshot, FileRules, OwnerLabels, world, locals
  <2>4. CASE buffer \notin Good
    BY <1>1, <1>8, <1>27, <2>1, <2>2, <2>4, SettledWorks DEF FillSnapshot, OwnerLabels, world, locals
  <2> QED
    BY <2>3, <2>4
<1>28. CASE LoadMissing(t)
  <2>1. observed[t] = file.stamp => BodyOf(words[at[t]][2]) = FileRules
    BY <1>2, <1>28, ConstantsAssumption DEF LoadMissing, LoadOf, FileIsStamped, BodyOf, NoCopy, FileRules, NoFile,
       Bodies
  <2> QED
    BY <1>1, <1>28, <2>1, SettledWorks DEF LoadMissing, OwnerLabels, world, locals
<1>29. CASE Report(t) \/ EndRewrite(t)
  <2>1. observed[t] = file.stamp => BodyOf(words[at[t]][2]) = FileRules
    BY <1>2, <1>29 DEF Report, EndRewrite, LookOf
  <2> QED
    BY <1>1, <1>29, <2>1, SettledWorks DEF Report, EndRewrite, OwnerLabels, world, locals
\* Publication and release.
<1>30. CASE Flip(t)
  <2>1. /\ pc[t] = "flip" /\ Goto(t, "release") /\ active' = at[t]
        /\ UNCHANGED <<world, words, cached, buffer, locals>>
    BY <1>30 DEF Flip
  <2>2. observed[t] = file.stamp => BodyOf(words[at[t]][2]) = FileRules
    BY <1>2, <2>1 DEF LookOf
  <2>3. ActiveRules' = BodyOf(words[at[t]][2]) /\ FileRules' = FileRules
    BY <2>1 DEF ActiveRules, HasRules, BodyOf, FileRules, world
  <2>4. LookOf(t)'
    BY <1>5, <1>7, <2>1, <2>2, <2>3 DEF LookOf, Past, world, locals
  <2> QED
    BY <1>1, <2>1, <2>4, SettledOwner DEF Owner, OwnerLabels, world, locals
<1>31. CASE Release(t)
  <2>1. /\ pc' = [pc EXCEPT ![t] = "gate"] /\ Owner(t)
        /\ UNCHANGED <<world, active, words, locals>>
    BY <1>31 DEF Release, Goto, Owner, OwnerLabels
  <2>2. \A u \in Threads : pc'[u] \notin OwnerLabels
    BY <1>1, <2>1 DEF OneReloader, Owner, OwnerLabels, TypeOK, LocalsType
  <2>3. ASSUME NEW u \in Threads
        PROVE  LookOf(u)'
    <3>1. LookOf(u)
      BY DEF SettledInv
    <3> QED
      BY <2>1, <2>2, <3>1 DEF LookOf, Past, OwnerLabels, world, locals
  <2>4. Past(cached') /\ (cached' = file.stamp => ActiveRules = FileRules)
    BY <1>2, <1>31 DEF Release, Restored, LookOf, OwnerLabels
  <2>5. FileIsStamped' /\ CacheIsCurrent'
    BY <1>2, <2>1, <2>4 DEF FileIsStamped, CacheIsCurrent, Past, ActiveRules, HasRules, FileRules, world
  <2> QED
    BY <2>3, <2>5 DEF SettledInv
<1> QED
  BY <1>10, <1>11, <1>12, <1>20, <1>22, <1>23, <1>24, <1>25, <1>26, <1>27, <1>28, <1>29, <1>30, <1>31 DEF Step

\* A file that was not there before carries a stamp nobody has seen; a file
\* that is gone leaves no rules in force where its absence was noticed.
LEMMA SettledChange ==
  ASSUME TypeOK, StatusInv, SettledInv, NEW new \in Files, ChangeFile(new), writes' = writes + 1,
         \/ new = NoFile
         \/ new.stamp = writes + 2
  PROVE  SettledInv'
<1>1. /\ file' = new /\ writes \in Nat
      /\ UNCHANGED <<cached, active, words, pc, observed, previous>>
  BY DEF ChangeFile, shared, TypeOK, WorldType
<1>2. FileIsStamped'
  BY <1>1 DEF FileIsStamped, Past, NoFile, MISSING
<1>3. NoRules \notin Good
  BY ConstantsAssumption DEF Bodies
<1>4. new = NoFile => FileRules' = NoRules
  BY <1>1, <1>3 DEF FileRules, NoFile
<1>5. \A s : s \in Int /\ Past(s) => Past(s)' /\ (new # NoFile => s # file'.stamp)
  BY <1>1 DEF Past
<1>6. ASSUME words[active][2] = NoRules, new = NoFile
      PROVE  ActiveRules' = FileRules'
  BY <1>1, <1>4, <1>6 DEF ActiveRules, HasRules
<1>7. new = NoFile => file'.stamp = MISSING
  BY <1>1 DEF NoFile
<1>8. CacheIsCurrent'
  <2>1. cached = MISSING => words[active][2] = NoRules
    BY DEF StatusInv, StatusDescribesActive, AbsentIsEmpty, MISSING, RELOADING, UNKNOWN
  <2>2. cached \in Int /\ Past(cached)
    BY DEF SettledInv, CacheIsCurrent, TypeOK, SharedType, RELOADING, UNKNOWN
  <2>3. CASE new = NoFile
    BY <1>1, <1>5, <1>6, <1>7, <2>1, <2>2, <2>3 DEF CacheIsCurrent
  <2>4. CASE new # NoFile
    BY <1>1, <1>5, <2>2, <2>4 DEF CacheIsCurrent
  <2> QED
    BY <2>3, <2>4
<1>9. ASSUME NEW t \in Threads
      PROVE  LookOf(t)'
  <2>1. Past(observed[t]) /\ Past(previous[t]) /\ observed[t] \in Int /\ previous[t] \in Int
    BY DEF SettledInv, LookOf, TypeOK, LocalsType, RELOADING, UNKNOWN
  <2>2. Past(observed[t])' /\ Past(previous[t])'
    BY <1>1, <1>5, <2>1
  <2>3. CASE new # NoFile
    <3>1. observed'[t] # file'.stamp /\ previous'[t] # file'.stamp
      BY <1>1, <1>5, <2>1, <2>3
    <3> QED
      BY <2>2, <3>1 DEF LookOf
  <2>4. CASE new = NoFile
    <3>1. ReportOf(t) /\ LoadOf(t) /\ AbsentIsEmpty
      BY DEF StatusInv
    <3>2. /\ pc[t] \in OwnerLabels \ {"end", "flip", "release"} /\ previous[t] = MISSING =>
               words[active][2] = NoRules
          /\ pc[t] = "release" /\ observed[t] = MISSING => words[active][2] = NoRules
          /\ pc[t] \in {"end", "flip"} /\ observed[t] = MISSING => words[at[t]][2] = NoRules
      BY <3>1 DEF ReportOf, AbsentIsEmpty, Describes, MISSING, UNKNOWN
    <3>3. pc[t] \in LoadLabels => observed[t] # MISSING
      BY <3>1 DEF LoadOf
    <3>4. at' = at
      BY DEF ChangeFile
    <3>5. pc[t] \in {"end", "flip"} /\ observed[t] = MISSING => BodyOf(words[at[t]][2])' = FileRules'
      BY <1>1, <1>4, <2>4, <3>2, <3>4 DEF BodyOf
    <3> QED
      BY <1>1, <1>6, <1>7, <2>2, <2>4, <3>2, <3>3, <3>4, <3>5 DEF LookOf, LoadLabels, FillLabels
  <2> QED
    BY <2>3, <2>4
<1> QED
  BY <1>2, <1>8, <1>9 DEF SettledInv

LEMMA SettledNext ==
  ASSUME ~InPlace, ReloadInv, StatusInv, SettledInv, [Next]_vars
  PROVE  SettledInv'
<1>1. TypeOK
  BY DEF ReloadInv
<1>2. ASSUME UNCHANGED <<writes, cached, active, words, buffer, pc, observed, previous, at>>,
             file'.stamp = file.stamp, file'.body = file.body, file' = NoFile <=> file = NoFile,
             \A t \in Threads : fd'[t].body = fd[t].body \/ fd'[t].body = file.body
      PROVE  SettledInv'
  <2>1. FileRules' = FileRules /\ ActiveRules' = ActiveRules
    BY <1>2 DEF FileRules, ActiveRules, HasRules
  <2>2. FileIsStamped' /\ CacheIsCurrent'
    BY <1>2, <2>1 DEF SettledInv, FileIsStamped, CacheIsCurrent, Past
  <2>3. ASSUME NEW t \in Threads
        PROVE  LookOf(t)'
    <3>1. LookOf(t)
      BY DEF SettledInv
    <3> QED
      BY <1>2, <2>1, <3>1 DEF LookOf, Past, BodyOf
  <2> QED
    BY <2>2, <2>3 DEF SettledInv
<1>3. ASSUME NEW b \in Bodies, ReplaceFile(b) \/ RewriteInPlace(b) \/ RewriteSameTick(b)
      PROVE  SettledInv'
  <2> DEFINE new == [ino |-> writes + 2, stamp |-> writes + 2, body |-> b, recent |-> TRUE]
  <2>1. writes' = writes + 1 /\ ChangeFile(new)
    BY <1>3 DEF ReplaceFile, RewriteInPlace, RewriteSameTick, Write
  <2>2. new \in Files
    BY <1>1 DEF TypeOK, WorldType, Files
  <2> QED
    BY <1>1, <2>1, <2>2, SettledChange
<1>4. CASE RemoveFile
  BY <1>1, <1>4, FileType, SettledChange DEF RemoveFile, Write
<1>5. CASE AgeFile
  <2> DEFINE new == [file EXCEPT !.recent = FALSE]
  <2>1. file.recent /\ ChangeFile(new) /\ UNCHANGED writes
    BY <1>5 DEF AgeFile
  <2>2. new.stamp = file.stamp /\ new.body = file.body
    BY <1>1 DEF TypeOK, WorldType, Files
  <2>3. file # NoFile
    BY <2>1 DEF NoFile
  <2>4. new # NoFile
    BY <2>2, <2>3 DEF SettledInv, FileIsStamped, NoFile
  <2> HIDE DEF new
  <2>5. \A t \in Threads : fd'[t].body = fd[t].body \/ fd'[t].body = file.body
    BY <2>1, <2>2 DEF ChangeFile
  <2> QED
    BY <1>2, <2>1, <2>2, <2>3, <2>4, <2>5 DEF ChangeFile, shared
<1>6. ASSUME NEW t \in Threads, Fork(t)
      PROVE  SettledInv'
  <2>1. /\ UNCHANGED <<world, active, words>> /\ cached' \in {cached, UNKNOWN}
        /\ \A u \in Threads : pc'[u] = "app" /\ observed'[u] = MISSING /\ previous'[u] = MISSING
    BY <1>6 DEF Fork, StampAfterFork
  <2>2. file.stamp \in Nat /\ writes \in Nat
    BY <1>1 DEF TypeOK, WorldType, Files
  <2>3. FileIsStamped' /\ CacheIsCurrent'
    BY <2>1, <2>2 DEF SettledInv, FileIsStamped, CacheIsCurrent, Past, UNKNOWN, ActiveRules, HasRules, FileRules, world
  <2>4. \A u \in Threads : LookOf(u)'
    BY <2>1, <2>2 DEF LookOf, Past, MISSING, OwnerLabels, world
  <2> QED
    BY <2>3, <2>4 DEF SettledInv
<1>7. CASE Environment
  BY <1>2, <1>3, <1>4, <1>5, <1>6, <1>7 DEF Environment, MoveLink, LinksInterval, CheckInterval,
     world, shared, locals
<1> QED
  BY <1>2, <1>7, SettledStep DEF Next, vars, world, shared, locals

\* Where the rule file is only ever replaced by rename, a settled look is a
\* current one: for any number of threads, replacements, failed reads and
\* forks, a cached stamp equal to the file's means that the rules in force
\* were parsed from the file's own bytes (the fstat in chaos_io_config_reload).
THEOREM RenamedFilesSettle ==
  ASSUME ~InPlace
  PROVE  Spec => []SettledMeansCurrent
<1>1. SettledInv => SettledMeansCurrent
  BY DEF SettledInv, CacheIsCurrent, SettledMeansCurrent
<1>2. ReloadInv /\ StatusInv /\ SettledInv /\ [Next]_vars => SettledInv'
  BY SettledNext
<1> QED
  BY <1>1, <1>2, SettledInit, StatusInit, StatusNext, ReloadInvInit, ReloadInvNext, PTL DEF Spec
=============================================================================
