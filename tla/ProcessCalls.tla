------------------------------ MODULE ProcessCalls -----------------------------
(***************************************************************************)
(* libchaos-process: the lines its parser takes, the rule that answers a   *)
(* call, FAIL_AFTER and its counters, the wrappers, and what chaos-init    *)
(* decides for the same system calls.  A selector is <<"*">> or            *)
(* <<operation>>; the value of FAIL_AFTER is <<errno, count>>.             *)
(***************************************************************************)
EXTENDS RuleFile

ProcessOps == {"pthread_create", "fork", "posix_spawn", "posix_spawnp", "execve", "execveat", "waitpid"}

ProcessSelectorOk(sel) == sel = <<"*">> \/ (Len(sel) = 1 /\ sel[1] \in ProcessOps)
ProcessMatches(sel, call) == sel \in {<<"*">>, <<call.op>>}
ProcessRank(sel) == IF sel = <<"*">> THEN 1 ELSE 2

ProcessErrnos == {"EAGAIN", "ENOMEM", "EACCES", "ENOENT", "EINTR", "ECHILD", "EPERM", "ESRCH",
                  "EBUSY", "EINVAL", "ENOSYS", "EMFILE", "ENFILE", "E2BIG"}

ProcessFailAfterOk(val) == Len(val) = 2 /\ IsErrno(val[1], ProcessErrnos) /\ IsMillis(val[2])

ProcessLineOk(l) ==
  /\ ProcessSelectorOk(l.sel) /\ ProbabilityValid(l.prob)
  /\ \/ l.eff = "ERRNO" /\ IsErrno(l.val, ProcessErrnos)
     \/ l.eff = "LATENCY" /\ IsMillis(l.val)
     \/ l.eff = "FAIL_AFTER" /\ ProcessFailAfterOk(l.val)

(* chaos-init's copy of the parser takes no rule it could not honour: it     *)
(* sees posix_spawn, never posix_spawnp                                      *)
InitProcessSupported(l) == l.sel # <<"posix_spawnp">>
ProcessParseBuffer(lines, supervised) ==
  Parsed(lines, LAMBDA l : ProcessLineOk(l) /\ (supervised => InitProcessSupported(l)))

ProcessSelectRule(rules, eff, call) ==
  SelectRule(rules, LAMBDA l : l.eff = eff /\ ProcessMatches(l.sel, call),
                    LAMBDA l : ProcessRank(l.sel), LAMBDA l : 0)

-----------------------------------------------------------------------------
(* The library's copy of the loading code: a load and a fork also start the  *)
(* FAIL_AFTER counters over                                                  *)

NoneCounted == [op \in ProcessOps |-> 0]
ProcessResetCounters(lib) == [lib EXCEPT !.counters = NoneCounted]

ProcessInit == FreshLib @@ [counters |-> NoneCounted]
ProcessReadFile(f) == ReadFile(f)
ProcessAttachHits(lib, lines) == AttachHits(lib, lines)
ProcessLoads(lib, f) == ~Settled(lib, f) /\ ~SameAgain(lib, f)
ProcessRefresh(lib, f, supervised) ==
  IF ProcessLoads(lib, f)
  THEN ProcessResetCounters(Refresh(lib, f, TakesFile(f, ProcessParseBuffer(f.lines, supervised))))
  ELSE Refresh(lib, f, TRUE)
ProcessMatch(lib, eff, call) == Chosen(lib.rules, ProcessSelectRule(lib.rules, eff, call))
ProcessReportHits(lib) == ReportHits(lib)
ProcessAfterForkCounted(lib) == AfterFork(lib)  \* mutant: the child goes on counting
ProcessAfterFork(lib) == ProcessResetCounters(AfterFork(lib))

(* every call that asks is counted, whether it fails or not *)
FailAfterCounted(lib, op) == [lib EXCEPT !.counters[op] = @ + 1]
FailAfterPast(lib, r, op) == lib.counters[op] >= Numerals[r.line.val[2]]

-----------------------------------------------------------------------------
(* Wrappers *)

ProcessPhases == <<"LATENCY", "ERRNO", "FAIL_AFTER", "CALL">>
ProcessWrapper(name, op) ==
  [lib |-> "process", fn |-> name, op |-> op, phases |-> ProcessPhases, sized |-> FALSE]

ProcessPthreadCreate == ProcessWrapper("pthread_create", "pthread_create")
ProcessFork          == ProcessWrapper("fork", "fork")
ProcessPosixSpawn    == ProcessWrapper("posix_spawn", "posix_spawn")
ProcessPosixSpawnp   == ProcessWrapper("posix_spawnp", "posix_spawnp")
ProcessSystem        == ProcessWrapper("system", "posix_spawn")
ProcessPopen         == ProcessWrapper("popen", "posix_spawn")
ProcessExecve        == ProcessWrapper("execve", "execve")
ProcessExecvpe       == ProcessWrapper("execvpe", "execve")
ProcessFexecve       == ProcessWrapper("fexecve", "execveat")
ProcessExecveat      == ProcessWrapper("execveat", "execveat")
ProcessWaitpid       == ProcessWrapper("waitpid", "waitpid")
ProcessWait4         == ProcessWrapper("wait4", "waitpid")
ProcessWaitid        == ProcessWrapper("waitid", "waitpid")
(* execv, execvp and the execl family call execve or execvpe with the        *)
(* environment and the argument list made up, wait and wait3 the calls above *)
ProcessExecForwards == {[ProcessExecve EXCEPT !.fn = n] : n \in {"execv", "execl", "execle"}}
                       \cup {[ProcessExecvpe EXCEPT !.fn = n] : n \in {"execvp", "execlp"}}
ProcessWait  == [ProcessWaitpid EXCEPT !.fn = "wait"]
ProcessWait3 == [ProcessWait4 EXCEPT !.fn = "wait3"]
ProcessWrappers ==
  {ProcessPthreadCreate, ProcessFork, ProcessPosixSpawn, ProcessPosixSpawnp, ProcessSystem,
   ProcessPopen, ProcessExecve, ProcessExecvpe, ProcessFexecve, ProcessExecveat, ProcessWaitpid,
   ProcessWait4, ProcessWaitid, ProcessWait, ProcessWait3} \cup ProcessExecForwards

-----------------------------------------------------------------------------
(* chaos-init: a clone is what its flags make it *)

InitCloneOp(flags) ==
  IF "thread" \in flags THEN "pthread_create" ELSE IF "vfork" \in flags THEN "posix_spawn" ELSE "fork"
InitProcessOp(nr, flags) ==
  CASE nr \in {"clone", "clone3"} -> InitCloneOp(flags)
    [] nr = "fork" -> "fork"
    [] nr = "vfork" -> "posix_spawn"
    [] nr \in {"execve", "execveat"} -> nr
    [] nr \in {"wait4", "waitid"} -> "waitpid"
(* FAIL_AFTER there counts by process: InitTracees *)
InitProcessCalls ==
  {[ProcessWrapper(nr, InitProcessOp(nr, flags)) EXCEPT !.phases = <<"LATENCY", "ERRNO", "CALL">>] :
     nr \in {"clone", "clone3", "fork", "vfork", "execve", "execveat", "wait4", "waitid"},
     flags \in SUBSET {"thread", "vfork"}}
=============================================================================
