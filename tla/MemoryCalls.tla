------------------------------ MODULE MemoryCalls ------------------------------
(***************************************************************************)
(* libchaos-memory: the lines its parser takes, the rule that answers a    *)
(* call, the wrappers, and what chaos-init decides for the same system     *)
(* calls.  A selector is <<"*">>, <<operation>> or <<"mmap", kind>>.       *)
(***************************************************************************)
EXTENDS RuleFile

MemoryKinds == {"anon", "file"}

MemorySelectorOk(sel) ==
  \/ sel \in {<<"*">>, <<"mmap">>, <<"mprotect">>, <<"munmap">>, <<"madvise">>}
  \/ Len(sel) = 2 /\ sel[1] = "mmap" /\ sel[2] \in MemoryKinds

(* a mapping is of the kind its flags say; the other calls carry no flags *)
MemoryMatches(sel, call) ==
  \/ sel = <<"*">>
  \/ sel = <<call.op>>
  \/ sel = <<call.op, IF call.anonymous THEN "anon" ELSE "file">>
MemoryRank(sel) == IF sel = <<"*">> THEN 1 ELSE Len(sel) + 1

MemoryErrnos == {"ENOMEM", "EINVAL", "EACCES", "EPERM", "EBADF", "ENODEV", "EAGAIN",
                 "EFAULT", "ENOSYS", "ENFILE", "EMFILE"}

MemoryLineOk(l) ==
  /\ MemorySelectorOk(l.sel) /\ ProbabilityValid(l.prob)
  /\ \/ l.eff = "ERRNO" /\ IsErrno(l.val, MemoryErrnos)
     \/ l.eff = "LATENCY" /\ IsMillis(l.val)

MemoryParseBuffer(lines) == Parsed(lines, MemoryLineOk)

MemorySelectRule(rules, eff, call) ==
  SelectRule(rules, LAMBDA l : l.eff = eff /\ MemoryMatches(l.sel, call),
                    LAMBDA l : MemoryRank(l.sel), LAMBDA l : 0)

-----------------------------------------------------------------------------
(* The library's copy of the loading code *)

MemoryInit == FreshLib
MemoryReadFile(f) == ReadFile(f)
MemoryAttachHits(lib, lines) == AttachHits(lib, lines)
MemoryRefresh(lib, f) == Refresh(lib, f, TakesFile(f, MemoryParseBuffer(f.lines)))
MemoryMatch(lib, eff, call) == Chosen(lib.rules, MemorySelectRule(lib.rules, eff, call))
MemoryReportHits(lib) == ReportHits(lib)
MemoryAfterFork(lib) == AfterFork(lib)

-----------------------------------------------------------------------------
(* Wrappers.  Every rule is asked with the call's length. *)

MemoryPhases == <<"LATENCY", "ERRNO", "CALL">>
MemoryWrapper(name, op) ==
  [lib |-> "memory", fn |-> name, op |-> op, phases |-> MemoryPhases, sized |-> TRUE]

MemoryMmap     == MemoryWrapper("mmap", "mmap")
MemoryMunmap   == MemoryWrapper("munmap", "munmap")
MemoryMprotect == MemoryWrapper("mprotect", "mprotect")
MemoryMadvise  == MemoryWrapper("madvise", "madvise")
MemoryPosixMadvise == MemoryWrapper("posix_madvise", "madvise")
MemoryWrappers == {MemoryMmap, MemoryMunmap, MemoryMprotect, MemoryMadvise, MemoryPosixMadvise}

MemoryAnonymous(w, anonymous) == w.op = "mmap" /\ anonymous

(* chaos-init: the system calls it watches; a delay and an error may both be *)
(* decided before the call goes on                                           *)
InitMemoryCalls == {MemoryWrapper(nr, nr) : nr \in {"mmap", "munmap", "mprotect", "madvise"}}
=============================================================================
