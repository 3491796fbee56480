------------------------------ MODULE HitsFile ------------------------------
(***************************************************************************)
(* The hits files of libchaos-io: which process writes which file, when a  *)
(* hit is written and what a reader of the file finds                      *)
(* (chaos_io_config_report_hits in src/src/config/chaos_io_config.c,       *)
(* chaos_hits_write_for in src/src/common/chaos_hits.h and                 *)
(* chaos_status_publish in src/src/common/chaos_status.h).                 *)
(***************************************************************************)
EXTENDS Integers, Sequences, SequencesExt

CONSTANTS
  Threads, Procs,
  ProcOf,      \* the process each thread belongs to
  Forked,      \* processes that fork() creates; the others run from the start
  Scenes,      \* the threads that run together, what the file system refuses ("space",
               \* "links": hard links, "sticky": renaming over another user's file), and a
               \* bound: the reloads they may see
  Pids,        \* process ids in use; containers that share /tmp repeat them
  Pid,         \* the process id of each process
  Others,      \* file numbers of the form pid * 10^9 + salt
  Files,       \* the rule files a reload may find, each a sequence of rules
  Eager,       \* CHAOS_HITS_EAGER
  Endings,     \* how processes end: "exit", "kill"
  MaxHits      \* bound: hits

ASSUME ConstantsAssumption ==
  /\ ProcOf \in [Threads -> Procs] /\ Pid \in [Procs -> Pids] /\ Forked \subseteq Procs
  /\ {"none", "ended"} \cap Procs = {}
  /\ Scenes \subseteq
       [cast : SUBSET Threads, faults : SUBSET {"space", "links", "sticky"}, reloads : Nat]
  /\ Pids \cap Others = {} /\ Others # {} /\ Files # {}
  /\ \A f \in Files : f \in Seq(ToSet(f)) /\ Len(f) > 0 /\ IsInjective(f)
  /\ Endings \subseteq {"exit", "kill"}
  /\ {Eager, MaxHits} \subseteq Nat

Rules   == UNION {ToSet(f) : f \in Files}
Numbers == Pids \cup Others

VARIABLES
  proc,     \* per process: the globals of the reporting code and the counters
  copies,   \* per process: the two snapshots of the rule file
  file,     \* the directory: what stands under each number, NoFile when nothing
  faults,   \* what the file system refuses
  pc, mem,  \* per thread: its place in the code and its local variables
  hits,
  reloads   \* those still to come

vars == <<proc, copies, file, faults, pc, mem, hits, reloads>>
spent == <<hits, reloads, faults>>

NoFile == [by |-> "none", lines |-> <<>>, whole |-> TRUE]
NoMem  == [from |-> 0, size |-> 0, lines |-> <<>>, tries |-> 0, leaving |-> FALSE]
Fresh(p, up) ==
  [up |-> up, active |-> 0, count |-> [r \in Rules |-> 0], total |-> 0, pending |-> FALSE,
   writing |-> FALSE, recent |-> FALSE, number |-> Pid[p], owned |-> FALSE, failed |-> FALSE,
   taken |-> [r \in Rules |-> 0], due |-> FALSE, vforked |-> FALSE]

\* chaos_hits_file_number_for: the pid itself, or a salted number when its
\* file exists; the last candidate stands even when every one exists.
Free(n) == file[n] = NoFile

NumberForAnyFree(p) == \* mutant: not built from the pid
  {n \in Numbers : Free(n)} \cup Others
NumberFor(p) ==
  IF Free(Pid[p]) THEN {Pid[p]}
  ELSE IF \E n \in Others : Free(n) THEN {n \in Others : Free(n)} ELSE Others

\* At load the number is chosen by probing; a file of an ended process may be
\* there already.
Present(p, cast) == p \notin Forked /\ \E t \in cast : ProcOf[t] = p
Init ==
  /\ \E left \in {NoFile, [by |-> "ended", lines |-> <<>>, whole |-> TRUE]} :
       file = [n \in Numbers |-> IF n \in Pids THEN left ELSE NoFile]
  /\ \E f \in Files : copies = [p \in Procs |-> <<f, <<>>>>]
  /\ \E scene \in Scenes, chosen \in [Procs -> Numbers] : LET cast == scene.cast IN
       /\ faults = scene.faults /\ reloads = scene.reloads
       /\ \A p \in Procs : chosen[p] \in IF Present(p, cast) THEN NumberFor(p) ELSE {Pid[p]}
       /\ proc = [p \in Procs |-> [Fresh(p, Present(p, cast)) EXCEPT !.number = chosen[p]]]
       /\ pc = [t \in Threads |-> IF t \in cast THEN "idle" ELSE "ended"]
  /\ mem = [t \in Threads |-> NoMem]
  /\ hits = 0

My(t) == proc[ProcOf[t]]
Goto(t, label) == pc' = [pc EXCEPT ![t] = label]
Put(t, q) == proc' = [proc EXCEPT ![ProcOf[t]] = q]
Keep(t, m) == mem' = [mem EXCEPT ![t] = m]
Active(p) == copies[p][proc[p].active + 1]

(***************************************************************************)
(* chaos_io_config_report_hits.                                            *)
(***************************************************************************)
\* A wrapper fires a rule and counts it; the hook then decides whether the
\* file is due.
Counted(q, r) == [q EXCEPT !.count[r] = @ + 1, !.taken[r] = @ + 1]
Due(q) == q.total <= Eager \/ ~q.recent
Hit(t) ==
  /\ pc[t] = "idle" /\ My(t).up /\ hits < MaxHits
  /\ \E r \in ToSet(Active(ProcOf[t])) :
       Put(t, Counted(My(t), r))
  /\ hits' = hits + 1 /\ Goto(t, "count")
  /\ UNCHANGED <<copies, file, mem, reloads, faults>>
Count(t) ==
  /\ pc[t] = "count"
  /\ LET q == [My(t) EXCEPT !.total = @ + 1, !.pending = TRUE] IN
       /\ Put(t, [q EXCEPT !.due = @ \/ Due(q)])
       /\ Goto(t, IF Due(q) THEN "claim" ELSE "idle")
  /\ UNCHANGED <<copies, file, mem, spent>>

\* A rule-file check after the interval, and the destructor, come without a hit.
Check(t) ==
  /\ pc[t] = "idle" /\ My(t).up /\ My(t).pending /\ ~My(t).recent
  /\ Goto(t, "claim")
  /\ UNCHANGED <<proc, copies, file, mem, spent>>
Exit(t) ==
  /\ pc[t] = "idle" /\ My(t).up /\ "exit" \in Endings
  /\ Goto(t, IF My(t).pending THEN "claim" ELSE "end") /\ Keep(t, [mem[t] EXCEPT !.leaving = TRUE])
  /\ UNCHANGED <<proc, copies, file, spent>>

\* A vfork child counts in its parent's memory and, having another pid, never
\* writes.
VforkHit(p) ==
  /\ proc[p].up /\ hits < MaxHits
  /\ \E r \in ToSet(Active(p)) :
       proc' = [proc EXCEPT ![p] = [Counted(proc[p], r) EXCEPT !.total = @ + 1, !.pending = TRUE,
                                                                !.vforked = TRUE]]
  /\ hits' = hits + 1
  /\ UNCHANGED <<copies, file, pc, mem, reloads, faults>>

Away(t) == IF mem[t].leaving THEN "end" ELSE "idle"
BusyNever(q) == FALSE
Busy(q) == q.writing
Claim(t) ==
  /\ pc[t] = "claim"
  /\ IF Busy(My(t))
     THEN Goto(t, Away(t)) /\ UNCHANGED proc
     ELSE Goto(t, "sample") /\ Put(t, [My(t) EXCEPT !.writing = TRUE])
  /\ UNCHANGED <<copies, file, mem, spent>>
Sample(t) ==
  /\ pc[t] = "sample" /\ Keep(t, [mem[t] EXCEPT !.from = My(t).active]) /\ Goto(t, "test")
  /\ UNCHANGED <<proc, copies, file, spent>>

\* The inner loop: clear pending, format every line, write the file.
Cleared(q) == [q EXCEPT !.pending = FALSE, !.due = FALSE]
Test(t) ==
  /\ pc[t] = "test"
  /\ IF My(t).pending
     THEN /\ Put(t, Cleared(My(t))) /\ Goto(t, "format")
          /\ Keep(t, [mem[t] EXCEPT !.lines = <<>>, !.tries = 0,
                                    !.size = Len(copies[ProcOf[t]][mem[t].from + 1])])
     ELSE Goto(t, "release") /\ UNCHANGED <<proc, mem>>
  /\ UNCHANGED <<copies, file, spent>>
Format(t) ==
  /\ pc[t] = "format"
  /\ LET lines == mem[t].lines
         rules == copies[ProcOf[t]][mem[t].from + 1]
         i     == Len(lines) + 1
     IN  IF i > mem[t].size THEN Goto(t, "publish") /\ UNCHANGED mem
         ELSE /\ IF i <= Len(rules)
                 THEN LET line == [rule |-> rules[i], hits |-> My(t).count[rules[i]]]
                      IN  Keep(t, [mem[t] EXCEPT !.lines = Append(lines, line)])
                 ELSE Keep(t, [mem[t] EXCEPT !.size = i - 1])
              /\ UNCHANGED pc
  /\ UNCHANGED <<proc, copies, file, spent>>
Release(t) ==
  /\ pc[t] = "release" /\ Goto(t, "retest")
  /\ Put(t, [My(t) EXCEPT !.recent = TRUE, !.writing = FALSE])
  /\ Keep(t, [NoMem EXCEPT !.leaving = mem[t].leaving])
  /\ UNCHANGED <<copies, file, spent>>
Again(q) == q.pending
Retest(t) ==
  /\ pc[t] = "retest" /\ Goto(t, IF Again(My(t)) THEN "claim" ELSE Away(t))
  /\ UNCHANGED <<proc, copies, file, mem, spent>>

(***************************************************************************)
(* chaos_hits_write_for and chaos_status_publish: a staging file of the    *)
(* writer's own, linked to a name nobody has, renamed over a name it owns. *)
(***************************************************************************)
Report(t) == [by |-> ProcOf[t], lines |-> mem[t].lines, whole |-> TRUE]
Name(t) == My(t).number
WrittenClears(t, failed) ==
  Put(t, [My(t) EXCEPT !.owned = TRUE, !.failed = failed, !.pending = FALSE])
Written(t, failed) ==
  Put(t, [My(t) EXCEPT !.owned = TRUE, !.failed = failed])

\* The staging file cannot be created or completed: nothing is written, and
\* the caller cannot tell.  Otherwise it is linked to the name, or renamed over
\* the file the process owns.
Fails(t) ==
  "space" \in faults /\ Written(t, TRUE) /\ Goto(t, "test") /\ UNCHANGED <<file, mem>>
Links(t) ==
  /\ Free(Name(t)) /\ file' = [file EXCEPT ![Name(t)] = Report(t)]
  /\ Written(t, FALSE) /\ Goto(t, "test") /\ UNCHANGED mem
Taken(t) ==
  /\ ~Free(Name(t)) /\ Keep(t, [mem[t] EXCEPT !.tries = @ + 1])
  /\ \E n \in NumberFor(ProcOf[t]) :
       Put(t, [My(t) EXCEPT !.number = n, !.failed = (mem[t].tries = 3)])
  /\ Goto(t, IF mem[t].tries = 3 THEN "test" ELSE "publish") /\ UNCHANGED file
Renames(t) ==
  /\ file' = [file EXCEPT ![Name(t)] = Report(t)]
  /\ Written(t, FALSE) /\ Goto(t, "test") /\ UNCHANGED mem
RefusedAlways(t) ==
  Goto(t, "truncate") /\ UNCHANGED <<proc, file, mem>>
Refused(t) ==
  "sticky" \in faults /\ ~Free(Name(t)) /\ Goto(t, "truncate") /\ UNCHANGED <<proc, file, mem>>
CreatesOnlyNever(t) == FALSE
CreatesOnly(t) == ~My(t).owned
Publish(t) ==
  /\ pc[t] = "publish"
  /\ \/ Fails(t)
     \/ CreatesOnly(t) /\ (Links(t) \/ Taken(t))
     \/ ("links" \in faults \/ ~CreatesOnly(t)) /\ (Renames(t) \/ Refused(t))
  /\ UNCHANGED <<copies, spent>>
Truncate(t) ==
  /\ pc[t] = "truncate"
  /\ file' = [file EXCEPT ![Name(t)] = [by |-> ProcOf[t], lines |-> <<>>, whole |-> FALSE]]
  /\ Goto(t, "fill") /\ UNCHANGED <<proc, copies, mem, spent>>
Fill(t) ==
  /\ pc[t] = "fill" /\ file' = [file EXCEPT ![Name(t)] = Report(t)]
  /\ Written(t, FALSE) /\ Goto(t, "test") /\ UNCHANGED <<copies, mem, spent>>

(***************************************************************************)
(* The rest of the process: reloads write the snapshot that is not active, *)
(* fork starts a child from zero, a process ends with or without running   *)
(* its destructors.                                                        *)
(***************************************************************************)
Kept(p, f, n) == [r \in Rules |-> IF r \in ToSet(f) \ ToSet(Active(p)) THEN 0 ELSE n[r]]
Reload(p) ==
  /\ proc[p].up /\ reloads > 0 /\ reloads' = reloads - 1
  /\ \E f \in Files :
       /\ copies' = [copies EXCEPT ![p][2 - proc[p].active] = f]
       /\ proc' = [proc EXCEPT ![p].active = 1 - @, ![p].count = Kept(p, f, @)]
  /\ UNCHANGED <<file, pc, mem, hits, faults>>

InheritedAll(child, parent) ==
  [Fresh(child, TRUE) EXCEPT !.active = proc[parent].active, !.count = proc[parent].count]
Inherited(child, parent) ==
  [Fresh(child, TRUE) EXCEPT !.active = proc[parent].active]
Fork(t) ==
  /\ pc[t] = "idle" /\ My(t).up
  /\ \E child \in Forked :
       /\ ~proc[child].up /\ \E u \in Threads : ProcOf[u] = child /\ pc[u] = "idle"
       /\ proc' = [proc EXCEPT ![child] = Inherited(child, ProcOf[t])]
       /\ copies' = [copies EXCEPT ![child] = copies[ProcOf[t]]]
  /\ UNCHANGED <<file, pc, mem, spent>>

Ended(p, u) == ProcOf[u] = p
End(p) ==
  /\ proc' = [proc EXCEPT ![p] = Fresh(p, FALSE)]
  /\ pc' = [u \in Threads |-> IF Ended(p, u) THEN "ended" ELSE pc[u]]
  /\ mem' = [u \in Threads |-> IF Ended(p, u) THEN NoMem ELSE mem[u]]
  /\ file' = [n \in Numbers |-> IF file[n].by = p THEN [file[n] EXCEPT !.by = "ended"] ELSE file[n]]
  /\ copies' = [copies EXCEPT ![p] = <<<<>>, <<>>>>] /\ UNCHANGED spent
Leave(t) == pc[t] = "end" /\ End(ProcOf[t])
Kill(p) == "kill" \in Endings /\ proc[p].up /\ End(p)
Tick(p) ==
  /\ proc[p].recent /\ proc' = [proc EXCEPT ![p].recent = FALSE]
  /\ UNCHANGED <<copies, file, pc, mem, spent>>

Reporting(t) ==
  \/ Count(t) \/ Claim(t) \/ Sample(t) \/ Test(t) \/ Format(t) \/ Publish(t)
  \/ Truncate(t) \/ Fill(t) \/ Release(t) \/ Retest(t) \/ Leave(t)
Next ==
  \/ \E t \in Threads : Hit(t) \/ Check(t) \/ Exit(t) \/ Fork(t) \/ Reporting(t)
  \/ \E p \in Procs : VforkHit(p) \/ Reload(p) \/ Kill(p) \/ Tick(p)
Spec == Init /\ [][Next]_vars

(***************************************************************************)
(* Properties.                                                             *)
(***************************************************************************)
Line == [rule : Rules, hits : Nat]
Labels == {"idle", "count", "claim", "sample", "test", "format", "publish", "truncate", "fill",
           "release", "retest", "end", "ended"}
ProcType ==
  [up : BOOLEAN, active : 0..1, count : [Rules -> Nat], total : Nat, pending : BOOLEAN,
   writing : BOOLEAN, recent : BOOLEAN, number : Numbers, owned : BOOLEAN, failed : BOOLEAN,
   taken : [Rules -> Nat], due : BOOLEAN, vforked : BOOLEAN]
MemType ==
  [from : 0..1, size : Nat, lines : Seq(Line), tries : Nat, leaving : BOOLEAN]
FileType == [by : Procs \cup {"none", "ended"}, lines : Seq(Line), whole : BOOLEAN]

\* The state keeps its types, and a name is only ever the process's own pid or
\* a salted number (chaos_hits_file_number_for).
TypeOK ==
  /\ proc \in [Procs -> ProcType] /\ \A p \in Procs : proc[p].number \in {Pid[p]} \cup Others
  /\ copies \in [Procs -> [1..2 -> Files \cup {<<>>}]]
  /\ file \in [Numbers -> FileType]
  /\ faults \subseteq {"space", "links", "sticky"}
  /\ pc \in [Threads -> Labels] /\ mem \in [Threads -> MemType]
  /\ hits \in Nat /\ reloads \in Nat

\* Every hit reported is a hit taken: no report counts a rule more often than
\* it fired since the process that wrote it started, whatever reloads, forks
\* and other writers do (a forked child starts from zero).
ReportsAreTrue ==
  \A n \in Numbers : LET f == file[n] IN
    f.by \in Procs =>
      \A i \in DOMAIN f.lines : f.lines[i].hits <= proc[f.by].taken[f.lines[i].rule]

\* Processes that share /tmp and a pid never write one file, whenever each
\* probed for its name (exclusive creation, chaos_hits.h:449).
Shared(p, q) == p # q /\ proc[p].owned /\ proc[q].owned /\ proc[p].number = proc[q].number
FilesAreOwn ==
  {"space", "links"} \cap faults = {} => \A p, q \in Procs : ~Shared(p, q)

\* Two threads of a process never write its file at once, the owner of the
\* flag being the one between Claim and Release (chaos_io_config.c:831).
Writers(p) ==
  {t \in Threads : ProcOf[t] = p /\ pc[t] \in {"sample", "test", "format", "publish",
                                               "truncate", "fill", "release"}}
OneWriter == \A p \in Procs : \A t, u \in Writers(p) : t = u

\* A hit that was due is never handed to nobody: while it is pending, some
\* thread is still in the reporting code and will look at it again (a hit
\* within the interval, and a vfork child's, wait for the next one). And with
\* nobody there and nothing pending, no line of the process's file is behind
\* the rule's counter (chaos_io_config.c:793); it may be ahead when a reload
\* has dropped the rule and another has brought it back.
Quiet(p) ==
  /\ proc[p].up /\ ~proc[p].pending /\ proc[p].total > 0 /\ ~proc[p].failed
  /\ \A t \in Threads : ProcOf[t] = p => pc[t] = "idle"
Told(p) == {file[proc[p].number].lines[i] : i \in DOMAIN file[proc[p].number].lines}
DueIsWatched ==
  \A p \in Procs : proc[p].up /\ proc[p].pending /\ proc[p].due =>
    \E t \in Threads : ProcOf[t] = p /\ pc[t] \notin {"idle", "end", "ended"}
QuietMeansReported ==
  /\ DueIsWatched
  /\ {"space", "links"} \cap faults = {} => \A p \in Procs : Quiet(p) =>
       /\ file[proc[p].number].by = p
       /\ \A l \in Told(p) : l.hits >= proc[p].count[l.rule]

\* The same for every rule of the active file: what the comment promises when
\* it says that no hit is left unreported.
Fired(p, r) == proc[p].count[r]
NoHitUnreported ==
  \A p \in Procs : Quiet(p) /\ ~proc[p].vforked =>
    \A r \in ToSet(Active(p)) : Fired(p, r) > 0 => [rule |-> r, hits |-> Fired(p, r)] \in Told(p)

\* A reader finds whole reports, whoever crashes and when, as long as the
\* directory lets the writer rename (chaos_status.h:338).
ReportsAreWhole == "sticky" \notin faults => \A n \in Numbers : file[n].whole
=============================================================================
