----------------------------- MODULE RuleReload -----------------------------
(***************************************************************************)
(* The lock-free rule-file reload every libchaos library runs on the       *)
(* threads that call its wrappers, as libchaos-io implements it            *)
(* (src/src/config/chaos_io_config.c).                                     *)
(*                                                                         *)
(* Two snapshots of the parsed rules exist.  A thread that enters a        *)
(* wrapper stats the rule file, compares the change stamp with the cached  *)
(* one and, when they differ, claims the reload by swapping the cached     *)
(* stamp for RELOADING.  The owner rewrites the inactive snapshot under an *)
(* odd sequence number, flips the active index and stores the new stamp,   *)
(* which releases the claim.  Readers copy a rule out of the active        *)
(* snapshot without a lock and drop the copy when the sequence moved.      *)
(*                                                                         *)
(* One action is one shared access of the C code; the barriers the code    *)
(* places between them make the interleaving semantics adequate.  A rule   *)
(* copy is two words, so that a copy torn by a concurrent reload is a      *)
(* state of the model.                                                     *)
(***************************************************************************)
EXTENDS Integers, FiniteSets

CONSTANTS
  Threads,      \* threads of the process that call wrappers
  Good,         \* rule-file bodies that parse to a non-empty rule set
  Bad,          \* bodies the parser (or the NUL test) rejects
  Blocked,      \* files that cannot be opened, or are too large
  Linked,       \* good bodies whose path prefixes go through a link
  NoRules,      \* the word of an empty snapshot
  InPlace,      \* TRUE: writers may also rewrite the file in place
  SlowReads,    \* TRUE: a thread may stall for CHAOS_RACY_WINDOW_MS
                \* between reading the rule file and its fstat
  HasVdso,      \* TRUE: a vDSO clock exists, so looks are throttled
  MaxWrites,    \* bound: rule-file changes by the user
  MaxMoves,     \* bound: moves of a link behind a rule prefix
  MaxIoErrors,  \* bound: transient failures of open and read
  MaxForks      \* bound: fork() calls

\* CHAOS_IO_MTIME_MISSING, _RELOADING, _UNKNOWN: sentinels no stamp equals.
MISSING   == 0
RELOADING == -2
UNKNOWN   == -1

Bodies  == Good \cup Bad \cup Blocked
Targets == 0..MaxMoves
\* A rule set is the body it was parsed from and where its links led.
RuleSets == Good \X Targets
Words    == RuleSets \cup {NoRules}
Snaps    == {0, 1}

ASSUME ConstantsAssumption ==
  /\ Threads # {}
  /\ Linked \subseteq Good
  /\ Good \cap (Bad \cup Blocked) = {} /\ Bad \cap Blocked = {}
  /\ NoRules \notin RuleSets /\ NoRules \notin Bodies
  /\ {InPlace, SlowReads, HasVdso} \subseteq BOOLEAN
  /\ MaxWrites \in Nat /\ MaxMoves \in Nat
  /\ MaxIoErrors \in Nat /\ MaxForks \in Nat

VARIABLES
  (* the file system *)
  file,         \* the rule file: inode, stamp, body, mtime within 20 ms of now
  target,       \* where the links behind the rule prefixes lead
  status,       \* this process's last report in /tmp/.chaos-io.status
  (* the process: g_chaos_io_* *)
  cached,       \* g_chaos_io_cached_mtime: stamp, sentinel and claim
  active,       \* g_chaos_io_active_config_index
  seq,          \* per snapshot: sequence
  words,        \* per snapshot: the two words a rule copy reads
  parseOk,      \* per snapshot: parse_ok
  overdue,      \* per snapshot: resolved_ms is CHAOS_IO_LINKS_RECHECK_MS ago
  provisional,  \* g_chaos_io_config_provisional
  content,      \* g_chaos_io_config_content, as the body it hashes
  buffer,       \* g_chaos_io_config_buffer
  throttled,    \* the last look is less than CHAOS_CHECK_INTERVAL_NS ago
  (* the threads *)
  pc,           \* where the thread is
  observed,     \* local observed_mtime
  previous,     \* local cached_mtime / previous_mtime
  at,           \* local snapshot index: next_index, or the reader's state
  fd,           \* the descriptor of the open rule file
  sequence,     \* local sequence: of the snapshot being copied, or wiped
  copy,         \* the rule copy being made
  answer,       \* what match_loaded returned last; NoRules: no rule
  (* bounds *)
  writes, ioErrors, forks

world   == <<file, target, writes>>
shared  == <<cached, active, seq, words, parseOk, overdue, provisional,
             content, buffer, throttled, status>>
locals  == <<observed, previous, at, fd, sequence, copy, answer>>
budget  == <<ioErrors, forks>>
vars    == <<world, shared, pc, locals, budget>>

NoFile == [ino |-> 0, stamp |-> MISSING, body |-> NoRules, recent |-> FALSE]
Files  == [ino : Nat, stamp : Nat, body : Bodies \cup {NoRules}, recent : BOOLEAN]
NoCopy == <<NoRules, NoRules>>

\* The labels of a thread that holds the reload claim, in program order.
OwnerLabels == {"begin", "wipe", "wiped", "missing", "open", "read", "fstat", "compare",
                "fill", "reject", "rejected", "report", "end", "flip", "release", "restore"}
\* Owner labels at which the inactive snapshot is under rewrite, and those
\* at which reset_state's memset has zeroed its sequence.
WriterLabels  == OwnerLabels \ {"begin", "flip", "release"}
WindowLabels  == {"wiped", "rejected"}
ReaderLabels  == {"sample", "count", "copy1", "copy2", "valid"}
Labels == {"app", "stat", "load", "decide", "cas", "gate", "index"}
            \cup OwnerLabels \cup ReaderLabels

Goto(t, l) == pc' = [pc EXCEPT ![t] = l]
IsOdd(n) == n % 2 = 1

\* The link-resolved form of a body's rules (chaos_io_config_resolve_rules).
Resolve(b) == <<b, IF b \in Linked THEN target ELSE 0>>
\* rule_count != 0 and links != 0 of a snapshot: the members behind the rules.
HasRules(s) == words[s][2] # NoRules
HasLinks(s) == HasRules(s) /\ words[s][2][1] \in Linked

Owner(t) == pc[t] \in OwnerLabels

(***************************************************************************)
(* The state chaos_io_config_init leaves: both snapshots empty and even,   *)
(* nothing cached.  The constructor's first load is an ordinary call.      *)
(***************************************************************************)
Init ==
  /\ file \in {NoFile} \cup
       {[ino |-> 1, stamp |-> 1, body |-> b, recent |-> r] : b \in Bodies, r \in BOOLEAN}
  /\ target = 0
  /\ status = [state |-> "absent", rules |-> NoRules]
  /\ cached = UNKNOWN
  /\ active = 0
  /\ seq = [s \in Snaps |-> 2]
  /\ words = [s \in Snaps |-> NoCopy]
  /\ parseOk = [s \in Snaps |-> TRUE]
  /\ overdue = [s \in Snaps |-> FALSE]
  /\ provisional = FALSE
  /\ content = NoRules
  /\ buffer = NoRules
  /\ throttled = FALSE
  /\ pc = [t \in Threads |-> "app"]
  /\ observed = [t \in Threads |-> MISSING]
  /\ previous = [t \in Threads |-> MISSING]
  /\ at = [t \in Threads |-> 0]
  /\ fd = [t \in Threads |-> NoFile]
  /\ sequence = [t \in Threads |-> 0]
  /\ copy = [t \in Threads |-> NoCopy]
  /\ answer = [t \in Threads |-> NoCopy]
  /\ writes = 0 /\ ioErrors = 0 /\ forks = 0

-----------------------------------------------------------------------------
(* The look: chaos_io_config_checked_recently and chaos_io_config_refresh. *)

\* chaos_clock_checked_recently: unthrottled while UNKNOWN or RELOADING.
EnterWrapper(t) ==
  /\ pc[t] = "app"
  /\ IF cached \in {UNKNOWN, RELOADING} \/ ~HasVdso
       THEN Goto(t, "stat") /\ UNCHANGED throttled
       ELSE IF throttled
              THEN Goto(t, "gate") /\ UNCHANGED throttled
              ELSE Goto(t, "stat") /\ throttled' = TRUE
  /\ answer' = [answer EXCEPT ![t] = NoCopy]
  /\ sequence' = [sequence EXCEPT ![t] = 0]
  /\ UNCHANGED <<world, cached, active, seq, words, parseOk, overdue, provisional, content,
                 buffer, status, observed, previous, at, fd, copy, budget>>

\* chaos_io_config_observed_mtime
StatFile(t) ==
  /\ pc[t] = "stat"
  /\ observed' = [observed EXCEPT ![t] = file.stamp]
  /\ Goto(t, "load")
  /\ UNCHANGED <<world, shared, previous, at, fd, sequence, copy, answer, budget>>

LoadCached(t) ==
  /\ pc[t] = "load"
  /\ previous' = [previous EXCEPT ![t] = cached]
  /\ Goto(t, "decide")
  /\ UNCHANGED <<world, shared, observed, at, fd, sequence, copy, answer, budget>>

LinksNeverDue == FALSE \* mutant: links are resolved once, at load time

\* chaos_io_config_links_due
LinksDue == HasLinks(active) /\ overdue[active]

Decide(t) ==
  /\ pc[t] = "decide"
  /\ LET current == observed[t] = previous[t] /\ ~provisional /\ ~LinksDue
     IN  IF current \/ previous[t] = RELOADING THEN Goto(t, "gate") ELSE Goto(t, "cas")
  /\ UNCHANGED <<world, shared, locals, budget>>

\* mutant of Claim: load and store in place of the compare-and-swap.
ClaimByStore(t) ==
  /\ pc[t] = "cas"
  /\ cached' = RELOADING /\ Goto(t, "begin")
  /\ UNCHANGED <<world, active, seq, words, parseOk, overdue, provisional, content, buffer,
                 throttled, status, locals, budget>>

\* The compare-and-swap that claims the reload.
Claim(t) ==
  /\ pc[t] = "cas"
  /\ IF cached = previous[t]
       THEN cached' = RELOADING /\ Goto(t, "begin")
       ELSE Goto(t, "gate") /\ UNCHANGED cached
  /\ UNCHANGED <<world, active, seq, words, parseOk, overdue, provisional, content, buffer,
                 throttled, status, locals, budget>>

-----------------------------------------------------------------------------
(* The owner: chaos_io_config_reload, entered with the claim held.         *)

\* The snapshot to build: the one that is not active.
NextIndexActive == active \* mutant: the active one, in place
NextIndex == 1 - active

\* Refresh clears provisional; reload takes the inactive index and makes its
\* sequence odd (chaos_snapshot_write_begin, idempotent).
BeginRewrite(t) ==
  /\ pc[t] = "begin"
  /\ provisional' = FALSE
  /\ LET next == NextIndex
         odd  == IF IsOdd(seq[next]) THEN seq[next] ELSE seq[next] + 1
     IN  /\ at' = [at EXCEPT ![t] = next]
         /\ seq' = [seq EXCEPT ![next] = odd]
         /\ sequence' = [sequence EXCEPT ![t] = odd]
  /\ Goto(t, "wipe")
  /\ UNCHANGED <<world, cached, active, words, parseOk, overdue, content, buffer, throttled,
                 status, observed, previous, fd, copy, answer, budget>>

\* chaos_io_config_reset_state's memset runs over the sequence, the first
\* member, before it reaches rule_count, and only then is it stored back.
WipeHead(t, from, to) ==
  /\ pc[t] = from
  /\ seq' = [seq EXCEPT ![at[t]] = 0]
  /\ words' = [words EXCEPT ![at[t]] = <<NoRules, @[2]>>]
  /\ Goto(t, to)
  /\ UNCHANGED <<world, cached, active, parseOk, overdue, provisional, content, buffer,
                 throttled, status, locals, budget>>

WipeTail(t, from, to, ok) ==
  /\ pc[t] = from
  /\ seq' = [seq EXCEPT ![at[t]] = sequence[t]]
  /\ words' = [words EXCEPT ![at[t]] = NoCopy]
  /\ parseOk' = [parseOk EXCEPT ![at[t]] = ok]
  /\ overdue' = [overdue EXCEPT ![at[t]] = FALSE]
  /\ Goto(t, to)
  /\ UNCHANGED <<world, cached, active, provisional, content, buffer, throttled, status,
                 locals, budget>>

ResetState(t) ==
  \/ WipeHead(t, "wipe", "wiped")
  \/ WipeTail(t, "wiped", IF observed[t] = MISSING THEN "missing" ELSE "open", TRUE)

\* chaos_io_config_reject_file, and the reset after a parse failure.
RejectFile(t) ==
  \/ WipeHead(t, "reject", "rejected")
  \/ WipeTail(t, "rejected", "report", FALSE)

\* chaos_status_remove; the branch for a missing file.
LoadMissing(t) ==
  /\ pc[t] = "missing"
  /\ content' = NoRules
  /\ status' = [state |-> "absent", rules |-> NoRules]
  /\ Goto(t, "end")
  /\ UNCHANGED <<world, cached, active, seq, words, parseOk, overdue, provisional, buffer,
                 throttled, locals, budget>>

\* A transient failure of open or read, e.g. EMFILE (bounded).
TransientError(t) ==
  /\ pc[t] \in {"open", "read"}
  /\ ioErrors < MaxIoErrors
  /\ ioErrors' = ioErrors + 1
  /\ fd' = [fd EXCEPT ![t] = NoFile]
  /\ Goto(t, "restore")
  /\ UNCHANGED <<world, shared, observed, previous, at, sequence, copy, answer, forks>>

OpenFile(t) ==
  /\ pc[t] = "open"
  /\ fd' = [fd EXCEPT ![t] = file]
  /\ Goto(t, IF file = NoFile THEN "restore" ELSE "read")
  /\ UNCHANGED <<world, shared, observed, previous, at, sequence, copy, answer, budget>>

\* Results -2 and -3 of chaos_io_config_read_file reject; the content they
\* leave is 0.  content is the owner's alone: the code stores it later.
ReadFile(t) ==
  /\ pc[t] = "read"
  /\ IF fd[t].body \in Blocked
       THEN /\ content' = NoRules
            /\ fd' = [fd EXCEPT ![t] = NoFile]
            /\ Goto(t, "reject") /\ UNCHANGED buffer
       ELSE /\ buffer' = fd[t].body
            /\ Goto(t, "fstat") /\ UNCHANGED <<content, fd>>
  /\ UNCHANGED <<world, cached, active, seq, words, parseOk, overdue, provisional, throttled,
                 status, observed, previous, at, sequence, copy, answer, budget>>

\* The open file must still carry the stamp that triggered the reload; a stamp
\* younger than CHAOS_RACY_WINDOW_MS makes the load provisional.
StampHolds(t) == fd[t].stamp = observed[t]
NeverRecent(t) == FALSE \* mutant: the racy window is not looked at
Recent(t) == fd[t].recent

CheckStamp(t) ==
  /\ pc[t] = "fstat"
  /\ IF StampHolds(t)
       THEN provisional' = Recent(t) /\ Goto(t, "compare")
       ELSE UNCHANGED provisional /\ Goto(t, "restore")
  /\ fd' = [fd EXCEPT ![t] = NoFile]
  /\ UNCHANGED <<world, cached, active, seq, words, parseOk, overdue, content, buffer,
                 throttled, status, observed, previous, at, sequence, copy, answer, budget>>

\* chaos_io_config_links_moved, and a same-stamp re-read that found the same
\* bytes: nothing is published and the link interval restarts.
LinksMoved == LinksDue /\ words[active][1] # Resolve(words[active][1][1])

CompareContent(t) ==
  /\ pc[t] = "compare"
  /\ LET same == observed[t] = previous[t] /\ buffer = content
     IN  IF same /\ ~LinksMoved
           THEN /\ overdue' = IF LinksDue THEN [overdue EXCEPT ![active] = FALSE] ELSE overdue
                /\ Goto(t, "restore")
           ELSE UNCHANGED overdue /\ Goto(t, "fill")
  /\ UNCHANGED <<world, cached, active, seq, words, parseOk, provisional, content, buffer,
                 throttled, status, locals, budget>>

\* The NUL test, chaos_io_config_parse_buffer and chaos_io_config_resolve_rules.
FillSnapshot(t) ==
  /\ pc[t] = "fill"
  /\ content' = buffer
  /\ IF buffer \in Good
       THEN /\ words' = [words EXCEPT ![at[t]] = <<Resolve(buffer), Resolve(buffer)>>]
            /\ Goto(t, "report")
       ELSE UNCHANGED words /\ Goto(t, "reject")
  /\ UNCHANGED <<world, cached, active, seq, parseOk, overdue, provisional, buffer, throttled,
                 status, locals, budget>>

\* mutant of Report: describes the snapshot still in force.
ReportActive(t) ==
  /\ pc[t] = "report"
  /\ status' = IF parseOk[active]
                 THEN [state |-> "ok", rules |-> words[active][2]]
                 ELSE [state |-> "error", rules |-> NoRules]
  /\ Goto(t, "end")
  /\ UNCHANGED <<world, cached, active, seq, words, parseOk, overdue, provisional, content,
                 buffer, throttled, locals, budget>>

\* chaos_io_config_report: before the publication.
Report(t) ==
  /\ pc[t] = "report"
  /\ status' = IF parseOk[at[t]]
                 THEN [state |-> "ok", rules |-> words[at[t]][2]]
                 ELSE [state |-> "error", rules |-> NoRules]
  /\ Goto(t, "end")
  /\ UNCHANGED <<world, cached, active, seq, words, parseOk, overdue, provisional, content,
                 buffer, throttled, locals, budget>>

(* chaos_io_config_publish: sequence, index, stamp, in this order.         *)
EndRewrite(t) ==
  /\ pc[t] = "end"
  /\ seq' = [seq EXCEPT ![at[t]] = IF IsOdd(@) THEN @ + 1 ELSE @]
  /\ Goto(t, "flip")
  /\ UNCHANGED <<world, cached, active, words, parseOk, overdue, provisional, content, buffer,
                 throttled, status, locals, budget>>

\* mutant of Flip: steps the index where the code assigns it.
FlipByIncrement(t) ==
  /\ pc[t] = "flip"
  /\ active' = active + 1
  /\ Goto(t, "release")
  /\ UNCHANGED <<world, cached, seq, words, parseOk, overdue, provisional, content, buffer,
                 throttled, status, locals, budget>>

Flip(t) ==
  /\ pc[t] = "flip"
  /\ active' = at[t]
  /\ Goto(t, "release")
  /\ UNCHANGED <<world, cached, seq, words, parseOk, overdue, provisional, content, buffer,
                 throttled, status, locals, budget>>

\* The stamp a reload that publishes nothing puts back.
RestoredObserved(t) == observed[t] \* mutant: as if it had been loaded
Restored(t) == previous[t]

\* Storing a stamp ends the claim: the observed one, or after a failed or
\* unchanged read the previous one.
Release(t) ==
  /\ \/ pc[t] = "release" /\ cached' = observed[t]
     \/ pc[t] = "restore" /\ cached' = Restored(t)
  /\ Goto(t, "gate")
  /\ UNCHANGED <<world, active, seq, words, parseOk, overdue, provisional, content, buffer,
                 throttled, status, locals, budget>>

-----------------------------------------------------------------------------
(* The reader: the return value of chaos_io_config_refresh, then           *)
(* chaos_io_config_match_loaded.                                           *)

Return(t, a) ==
  /\ Goto(t, "app")
  /\ answer' = [answer EXCEPT ![t] = a]
  /\ copy' = [copy EXCEPT ![t] = NoCopy]
  /\ at' = [at EXCEPT ![t] = 0]
  /\ UNCHANGED <<observed, previous, fd, sequence>>

\* The look is over; its locals die.
Gate(t) ==
  /\ pc[t] = "gate"
  /\ observed' = [observed EXCEPT ![t] = MISSING]
  /\ previous' = [previous EXCEPT ![t] = MISSING]
  /\ sequence' = [sequence EXCEPT ![t] = 0]
  /\ at' = [at EXCEPT ![t] = 0]
  /\ Goto(t, IF HasRules(active) THEN "index" ELSE "app")
  /\ UNCHANGED <<world, shared, fd, copy, answer, budget>>

\* chaos_io_config_active_state
LoadIndex(t) ==
  /\ pc[t] = "index"
  /\ at' = [at EXCEPT ![t] = active]
  /\ Goto(t, "sample")
  /\ UNCHANGED <<world, shared, observed, previous, fd, sequence, copy, answer, budget>>

\* chaos_snapshot_read_begin
SampleSequence(t) ==
  /\ pc[t] = "sample"
  /\ sequence' = [sequence EXCEPT ![t] = seq[at[t]]]
  /\ Goto(t, "count")
  /\ UNCHANGED <<world, shared, observed, previous, at, fd, copy, answer, budget>>

CheckCount(t) ==
  /\ pc[t] = "count"
  /\ IF HasRules(at[t])
       THEN Goto(t, "copy1") /\ UNCHANGED locals
       ELSE Return(t, NoCopy)
  /\ UNCHANGED <<world, shared, budget>>

\* chaos_io_config_select_rule: *rule = *best, one word at a time.
CopyWord(t, from, to, w) ==
  /\ pc[t] = from
  /\ copy' = [copy EXCEPT ![t][w] = words[at[t]][w]]
  /\ Goto(t, to)
  /\ UNCHANGED <<world, shared, observed, previous, at, fd, sequence, answer, budget>>

SelectRule(t) == CopyWord(t, "copy1", "copy2", 1) \/ CopyWord(t, "copy2", "valid", 2)

ReadValidUnchecked(t) == ~IsOdd(sequence[t]) \* mutant: no second look

\* chaos_snapshot_read_valid
ReadValid(t) == ~IsOdd(sequence[t]) /\ seq[at[t]] = sequence[t]

Validate(t) ==
  /\ pc[t] = "valid"
  /\ Return(t, IF ReadValid(t) THEN copy[t] ELSE NoCopy)
  /\ UNCHANGED <<world, shared, budget>>

Step(t) ==
  \/ EnterWrapper(t) \/ StatFile(t) \/ LoadCached(t) \/ Decide(t) \/ Claim(t)
  \/ BeginRewrite(t) \/ ResetState(t) \/ LoadMissing(t) \/ TransientError(t)
  \/ OpenFile(t) \/ ReadFile(t) \/ CheckStamp(t) \/ CompareContent(t) \/ FillSnapshot(t)
  \/ RejectFile(t) \/ Report(t) \/ EndRewrite(t) \/ Flip(t) \/ Release(t)
  \/ Gate(t) \/ LoadIndex(t) \/ SampleSequence(t) \/ CheckCount(t) \/ SelectRule(t)
  \/ Validate(t)

-----------------------------------------------------------------------------
(* The world around the process.                                           *)

\* A rule file changes; open descriptors follow their inode.
ChangeFile(new) ==
  /\ file' = new
  /\ fd' = [t \in Threads |-> IF fd[t] # NoFile /\ fd[t].ino = new.ino THEN new ELSE fd[t]]
  /\ UNCHANGED <<target, shared, pc, observed, previous, at, sequence, copy, answer, budget>>

Write(new) == writes < MaxWrites /\ writes' = writes + 1 /\ ChangeFile(new)

\* A temporary file renamed over the rule file: a new inode, hence a new stamp.
ReplaceFile(b) ==
  Write([ino |-> writes + 2, stamp |-> writes + 2, body |-> b, recent |-> TRUE])

\* A rewrite of the same inode, in a later clock tick or of another size.
RewriteInPlace(b) ==
  /\ InPlace /\ file # NoFile
  /\ Write([ino |-> file.ino, stamp |-> writes + 2, body |-> b, recent |-> TRUE])

\* A same-size rewrite of the same inode within one clock tick: same stamp.
\* It changes neither the permissions nor which side of the size limit it is.
RewriteSameTick(b) ==
  /\ InPlace /\ file # NoFile /\ file.recent
  /\ {b, file.body} \cap Blocked = {}
  /\ Write([file EXCEPT !.body = b])

RemoveFile == file # NoFile /\ Write(NoFile)

\* The file's mtime leaves CHAOS_RACY_WINDOW_MS (chaos_clock_stamp_is_recent).
AgeFile ==
  /\ file.recent
  /\ SlowReads \/ \A t \in Threads : pc[t] # "fstat"
  /\ ChangeFile([file EXCEPT !.recent = FALSE])
  /\ UNCHANGED writes

\* A link behind a rule prefix is repointed; the rule file does not change.
MoveLink ==
  /\ target < MaxMoves
  /\ target' = target + 1
  /\ UNCHANGED <<file, writes, shared, pc, locals, budget>>

\* CHAOS_IO_LINKS_RECHECK_MS pass since the active snapshot was resolved.
LinksInterval ==
  /\ HasLinks(active) /\ ~overdue[active]
  /\ overdue' = [overdue EXCEPT ![active] = TRUE]
  /\ UNCHANGED <<world, cached, active, seq, words, parseOk, provisional, content, buffer,
                 throttled, status, pc, locals, budget>>

\* CHAOS_CHECK_INTERVAL_NS pass since the last look.
CheckInterval ==
  /\ throttled
  /\ throttled' = FALSE
  /\ UNCHANGED <<world, cached, active, seq, words, parseOk, overdue, provisional, content,
                 buffer, status, pc, locals, budget>>

\* The stamp a child starts from: a claim it inherits has no owner.
StampAfterFork == IF cached = RELOADING THEN UNKNOWN ELSE cached

\* fork() by t, seen from the child: chaos_io_config_after_fork, with every
\* other thread gone wherever it was; the child then starts fresh threads.
Fork(t) ==
  /\ pc[t] = "app" /\ forks < MaxForks
  /\ forks' = forks + 1
  /\ cached' = StampAfterFork
  /\ pc' = [u \in Threads |-> "app"]
  /\ observed' = [u \in Threads |-> MISSING]
  /\ previous' = [u \in Threads |-> MISSING]
  /\ at' = [u \in Threads |-> 0]
  /\ fd' = [u \in Threads |-> NoFile]
  /\ sequence' = [u \in Threads |-> 0]
  /\ copy' = [u \in Threads |-> NoCopy]
  /\ answer' = [u \in Threads |-> NoCopy]
  /\ UNCHANGED <<world, active, seq, words, parseOk, overdue, provisional, content, buffer,
                 throttled, status, ioErrors>>

Environment ==
  \/ \E b \in Bodies : ReplaceFile(b) \/ RewriteInPlace(b) \/ RewriteSameTick(b)
  \/ RemoveFile \/ AgeFile \/ MoveLink \/ LinksInterval \/ CheckInterval
  \/ \E t \in Threads : Fork(t)

Next == Environment \/ \E t \in Threads : Step(t)
Spec == Init /\ [][Next]_vars

(***************************************************************************)
(* Threads are scheduled, the application keeps calling wrappers and time  *)
(* passes.  Nothing forces the user, a failing open or a fork.             *)
(***************************************************************************)
Fairness ==
  /\ \A t \in Threads : WF_vars(Step(t))
  /\ WF_vars(CheckInterval) /\ WF_vars(LinksInterval) /\ WF_vars(AgeFile)
FairSpec == Spec /\ Fairness

-----------------------------------------------------------------------------
WorldType ==
  /\ file \in Files /\ target \in Targets
  /\ writes \in Nat /\ ioErrors \in Nat /\ forks \in Nat

SharedType ==
  /\ cached \in Nat \cup {RELOADING, UNKNOWN}
  /\ active \in Snaps
  /\ seq \in [Snaps -> Nat]
  /\ words \in [Snaps -> Words \X Words]
  /\ parseOk \in [Snaps -> BOOLEAN] /\ overdue \in [Snaps -> BOOLEAN]
  /\ provisional \in BOOLEAN /\ throttled \in BOOLEAN
  /\ content \in Bodies \cup {NoRules} /\ buffer \in Bodies \cup {NoRules}
  /\ status \in [state : {"absent", "ok", "error"}, rules : Words]

LocalsType ==
  /\ pc \in [Threads -> Labels]
  /\ observed \in [Threads -> Nat]
  /\ previous \in [Threads -> Nat \cup {RELOADING, UNKNOWN}]
  /\ at \in [Threads -> Snaps]
  /\ fd \in [Threads -> Files]
  /\ sequence \in [Threads -> Nat]
  /\ copy \in [Threads -> Words \X Words] /\ answer \in [Threads -> Words \X Words]

\* The state is well formed: stamps never read as sentinels, every index names
\* one of the two snapshots, and every rule word was parsed from some file.
TypeOK == WorldType /\ SharedType /\ LocalsType

\* The cached stamp is the reload claim: at most one thread is inside
\* chaos_io_config_reload, and the stamp reads RELOADING exactly while one is,
\* also in a child forked in the middle of a reload (chaos_io_config_after_fork),
\* so that no claim is stolen and none is leaked.
OneReloader ==
  /\ \A t, u \in Threads : Owner(t) /\ Owner(u) => t = u
  /\ cached = RELOADING <=> \E t \in Threads : Owner(t)

\* Readers keep using the active snapshot during a reload: no step rewrites
\* the rules of the snapshot that is active before it or after it.
ActiveIsFrozen == [][words'[active] = words[active] /\ words'[active'] = words[active']]_vars

\* chaos_snapshot_read_valid: a rule copy torn by a reload is discarded.  The
\* one way around it is a sample taken while the memset of reset_state holds
\* the sequence at 0.
TornOnlyFromZero ==
  \A t \in Threads : answer[t][1] # answer[t][2] => sequence[t] = 0

(* What makes TornOnlyFromZero inductive.                                  *)

\* A thread about to claim, or inside, never saw another thread's claim.
ClaimsAreFresh ==
  \A t \in Threads : pc[t] = "cas" \/ Owner(t) => previous[t] # RELOADING

\* The owner rewrites the inactive snapshot, under the odd sequence it made
\* except where the memset has zeroed it; past the wipe both words agree.
RewritesAreMarked ==
  \A t \in Threads :
    /\ pc[t] \in WriterLabels \cup {"flip"} => at[t] = 1 - active
    /\ pc[t] \in WriterLabels =>
         /\ IsOdd(sequence[t])
         /\ seq[at[t]] = IF pc[t] \in WindowLabels THEN 0 ELSE sequence[t]
    /\ pc[t] \in WriterLabels \ {"wipe", "wiped", "rejected"} =>
         words[at[t]][1] = words[at[t]][2]

\* A snapshot that claims to be complete holds one rule set.
EvenIsWhole == \A s \in Snaps : ~IsOdd(seq[s]) /\ seq[s] # 0 => words[s][1] = words[s][2]

\* A reader between its sample and its check, with a sample it will accept.
Copying(t) ==
  /\ pc[t] \in {"count", "copy1", "copy2", "valid"}
  /\ ~IsOdd(sequence[t]) /\ sequence[t] # 0

\* The sequence it sampled is not to come again: it is still there, with the
\* words copied so far, or the snapshot has moved past it for good.
SamplesDoNotRecur ==
  \A r \in Threads : Copying(r) =>
    /\ sequence[r] <= seq[at[r]] \/ \E w \in Threads : pc[w] \in WindowLabels /\ at[w] = at[r]
    /\ \A w \in Threads : pc[w] \in WriterLabels /\ at[w] = at[r] => sequence[r] < sequence[w]
    /\ seq[at[r]] = sequence[r] =>
         /\ pc[r] \in {"copy2", "valid"} => copy[r][1] = words[at[r]][1]
         /\ pc[r] = "valid" => copy[r][2] = words[at[r]][2]

AnswersAreOld == \A t \in Threads : pc[t] # "app" => answer[t] = NoCopy

\* The inductive invariant (RuleReloadProofs): whatever two reloads do to a
\* snapshot a reader still holds, a sample that was neither odd nor 0 is only
\* found again if nothing was rewritten in between.
ReloadInv ==
  /\ TypeOK /\ OneReloader /\ ClaimsAreFresh /\ RewritesAreMarked /\ EvenIsWhole
  /\ SamplesDoNotRecur /\ AnswersAreOld /\ TornOnlyFromZero

\* While a stamp is cached, the status file describes the rules that are in
\* force (chaos_io_config_report runs under the claim, before publication):
\* no interleaving of reloads, failures and forks leaves it one load behind.
StatusDescribesActive ==
  cached \notin {RELOADING, UNKNOWN} =>
    status = [state |-> IF cached = MISSING THEN "absent"
                        ELSE IF parseOk[active] THEN "ok" ELSE "error",
              rules |-> words[active][2]]

\* The rules the file at the path asks for.
FileRules == IF file.body \in Good THEN file.body ELSE NoRules
ActiveRules == IF HasRules(active) THEN words[active][2][1] ELSE NoRules

\* A cached stamp equal to the file's ends all further reloads, so it must
\* mean that the file's own bytes are loaded: the look is over, the file is
\* not re-read again, and the rules in force are the file's.
SettledMeansCurrent ==
  cached = file.stamp /\ ~provisional => ActiveRules = FileRules

\* Once the file, its links and the descriptor table are left alone, the rules
\* in force become the file's, resolved as they now resolve, and stay so:
\* throttling, failed reads, lost races and forks only delay them.
EventuallyCurrent ==
  <>[](ActiveRules = FileRules /\ (HasRules(active) => words[active][2] = Resolve(ActiveRules)))
=============================================================================
