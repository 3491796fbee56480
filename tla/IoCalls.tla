-------------------------------- MODULE IoCalls --------------------------------
(***************************************************************************)
(* libchaos-io: the lines its parser takes, the one rule that answers a    *)
(* call, the wrappers, and what chaos-init decides for the same system     *)
(* calls.  A path is the sequence of its components below the root, a      *)
(* selector such a path or Everywhere.                                     *)
(***************************************************************************)
EXTENDS RuleFile

Everywhere == <<"*">>
NoPath == <<"?">>               \* nothing is known of the file
NoFd == 0
Memfd == "memfd:"               \* how a memfd's only component begins

IoOps == {"read", "write", "open", "close", "fsync", "fdatasync", "pread", "pwrite", "truncate",
          "allocate", "unlink", "rename_from", "rename_to"}

IoErrnos == {"EIO", "ENOSPC", "EDQUOT", "EROFS", "EACCES", "EMFILE", "ENFILE", "ENOENT"}

IoEffectAllowed(op, eff) ==
  \/ eff \in {"ERRNO", "LATENCY"}
  \/ eff = "TORN" /\ op \in {"write", "pwrite"}
  \/ eff = "CORRUPT" /\ op \in {"read", "pread"}

IoLineOk(l) ==
  /\ l.op \in IoOps /\ IoEffectAllowed(l.op, l.eff)
  /\ IF l.eff = "LATENCY" THEN IsMillis(l.val) ELSE ProbabilityValid(l.prob)
  /\ l.eff = "ERRNO" => l.val \in IoErrnos

(* chaos-init's copy of the parser takes no rule it could not honour *)
InitIoSupported(l) == l.eff = "LATENCY" \/ (l.eff = "ERRNO" /\ l.op # "close")
IoParseBuffer(lines, supervised) ==
  Parsed(lines, LAMBDA l : IoLineOk(l) /\ (supervised => InitIoSupported(l)))

-----------------------------------------------------------------------------
(* Paths *)

(* a name is made absolute from a base, then "." and ".." are taken out of   *)
(* its text; above the root there is only the root                           *)
IoNormalizePath(path) ==
  FoldLeft(LAMBDA walked, c : CASE c = "."  -> walked
                                [] c = ".." -> IF walked = <<>> THEN walked ELSE Front(walked)
                                [] OTHER    -> Append(walked, c),
           <<>>, path)
IoJoinPaths(base, name) == base \o name
IoResolveAt(absolute, base, name) ==
  IF absolute THEN IoNormalizePath(name)
  ELSE IF base = NoPath THEN NoPath ELSE IoNormalizePath(IoJoinPaths(base, name))

(* the libraries' own files and the kernel's are never faulted *)
IoControlPath(path) == IsPrefix(<<"tmp", ".chaos">>, path)
IoExcludedPath(path) == path \in {<<>>, NoPath} \/ IoControlPath(path) \/ path[1] \in {"proc", "sys", "dev"}

IoPrefixCovers(prefix, path) == IsPrefix(prefix, path)
IoLinks == <<"l">> :> <<"d">>   \* a symbolic link, resolved when rules load
IoRulePrefixMatches(sel, path) ==
  IF sel = Everywhere THEN path[1] # Memfd
  ELSE IoPrefixCovers(sel, path) \/ (sel \in DOMAIN IoLinks /\ IoPrefixCovers(IoLinks[sel], path))

(* one rule answers, whatever its effect: the longest prefix *)
IoLength(sel) == IF sel = Everywhere THEN 1 ELSE 2 * Len(sel)
IoSelectRule(rules, op, path) ==
  SelectRule(rules, LAMBDA l : l.op = op /\ IoRulePrefixMatches(l.sel, path),
                    LAMBDA l : 0, LAMBDA l : IoLength(l.sel))

-----------------------------------------------------------------------------
(* The library's copy of the loading code *)

IoInit == FreshLib
IoReadFile(f) == ReadFile(f)
IoAttachHits(lib, lines) == AttachHits(lib, lines)
IoRefresh(lib, f, supervised) == Refresh(lib, f, TakesFile(f, IoParseBuffer(f.lines, supervised)))
IoReportHits(lib) == ReportHits(lib)
IoAfterFork(lib) == AfterFork(lib)

IoMatchLoaded(lib, op, path) ==
  IF IoExcludedPath(path) THEN {} ELSE Chosen(lib.rules, IoSelectRule(lib.rules, op, path))

(* by descriptor: never one of the first three *)
IoMatchFd(lib, call) == IF call.fd <= 2 THEN {} ELSE IoMatchLoaded(lib, call.op, call.path)
IoMatchPath(lib, call) == IoMatchLoaded(lib, call.op, call.path)
(* a rename: the longer prefix of its two ends, on a tie the destination's *)
IoLongerOf(from, to) ==
  IF \E t \in to : \A f \in from : IoLength(t.line.sel) >= IoLength(f.line.sel) THEN to ELSE from
IoMatchRename(lib, call) ==
  IoLongerOf(IoMatchLoaded(lib, "rename_from", call.path), IoMatchLoaded(lib, "rename_to", call.to))

(* the rule of a call is looked up once, as the call begins *)
IoMatch(lib, call) ==
  CASE call.reach = "fd"   -> IoMatchFd(lib, call)
    [] call.reach = "path" -> IoMatchPath(lib, call)
    [] call.reach = "pair" -> IoMatchRename(lib, call)

-----------------------------------------------------------------------------
(* Wrappers.  reach: how the call names its file.  TORN shortens a transfer  *)
(* before it is made, CORRUPT alters what a read returned.                   *)

IoWrapper(name, op, reach, phases, sized) ==
  [lib |-> "io", fn |-> name, op |-> op, reach |-> reach, phases |-> phases, sized |-> sized]

IoReads  == <<"LATENCY", "ERRNO", "CALL", "CORRUPT">>
IoWrites == <<"LATENCY", "ERRNO", "TORN", "CALL">>
IoPlain  == <<"LATENCY", "ERRNO", "CALL">>

IoRead      == IoWrapper("read", "read", "fd", IoReads, TRUE)
IoReadv     == IoWrapper("readv", "read", "fd", IoReads, TRUE)
IoPread     == IoWrapper("pread", "pread", "fd", IoReads, TRUE)
IoPreadv    == IoWrapper("preadv", "pread", "fd", IoReads, TRUE)
IoWrite     == IoWrapper("write", "write", "fd", IoWrites, TRUE)
IoWritev    == IoWrapper("writev", "write", "fd", IoWrites, TRUE)
IoPwrite    == IoWrapper("pwrite", "pwrite", "fd", IoWrites, TRUE)
IoPwritev   == IoWrapper("pwritev", "pwrite", "fd", IoWrites, TRUE)
IoSendfile  == IoWrapper("sendfile", "write", "fd", IoWrites, TRUE)
IoCopyRange == IoWrapper("copy_file_range", "write", "fd", IoWrites, TRUE)

(* what a transfer of n may be torn to; one of vectors is left alone, and no *)
(* rule asked, when there is nothing to tear                                 *)
TornCounts(n) == IF n <= 1 THEN {n} ELSE 1..(n - 1)
TearsOf(call) == call.fn \notin {"writev", "pwritev"} \/ call.size > 1

(* streams are faulted once per stdio call, and never torn *)
IoStreamReads  == {IoWrapper(n, "read", "fd", IoReads, n # "getdelim") :
                     n \in {"fread", "fgets", "fgetc", "getdelim"}}
IoStreamWrites == {IoWrapper(n, "write", "fd", IoPlain, n \notin {"fflush", "vfprintf"}) :
                     n \in {"fwrite", "fputs", "fputc", "fflush", "vfprintf"}}

IoOpen    == IoWrapper("open", "open", "path", IoPlain, FALSE)
IoOpenat  == IoWrapper("openat", "open", "path", IoPlain, FALSE)
IoFopen   == IoWrapper("fopen", "open", "path", IoPlain, FALSE)
(* a freopen that is failed closes the stream, as a real failure would *)
IoFreopen == IoWrapper("freopen", "open", "path", IoPlain, FALSE)

IoFsync     == IoWrapper("fsync", "fsync", "fd", IoPlain, FALSE)
IoFdatasync == IoWrapper("fdatasync", "fdatasync", "fd", IoPlain, FALSE)
(* close closes, then reports the error *)
IoClose     == IoWrapper("close", "close", "fd", <<"LATENCY", "CALL", "ERRNO">>, FALSE)

IoFtruncate  == IoWrapper("ftruncate", "truncate", "fd", IoPlain, FALSE)
IoTruncate   == IoWrapper("truncate", "truncate", "path", IoPlain, FALSE)
IoFallocate  == IoWrapper("fallocate", "allocate", "fd", IoPlain, FALSE)
IoPosixFallocate == IoWrapper("posix_fallocate", "allocate", "fd", IoPlain, FALSE)
IoUnlinkat   == IoWrapper("unlinkat", "unlink", "path", IoPlain, FALSE)
IoRenameat   == IoWrapper("renameat", "rename_from", "pair", IoPlain, FALSE)
IoRenameat2  == IoWrapper("renameat2", "rename_from", "pair", IoPlain, FALSE)
(* unlink, rmdir, remove and rename call the ones above with no directory *)
IoPlainNames == {[IoUnlinkat EXCEPT !.fn = n] : n \in {"unlink", "rmdir", "remove"}}
                \cup {[IoRenameat EXCEPT !.fn = "rename"]}

IoWrappers ==
  {IoRead, IoReadv, IoPread, IoPreadv, IoWrite, IoWritev, IoPwrite, IoPwritev, IoSendfile, IoCopyRange,
   IoOpen, IoOpenat, IoFopen, IoFreopen, IoFsync, IoFdatasync, IoClose, IoFtruncate, IoTruncate,
   IoFallocate, IoPosixFallocate, IoUnlinkat, IoRenameat, IoRenameat2}
  \cup IoStreamReads \cup IoStreamWrites \cup IoPlainNames

-----------------------------------------------------------------------------
(* chaos-init *)

InitIoCall(nr, op, reach, sized) == IoWrapper(nr, op, reach, IoPlain, sized)
InitIoCalls ==
  {InitIoCall(nr, "read", "fd", TRUE) : nr \in {"read", "readv"}}
  \cup {InitIoCall(nr, "write", "fd", TRUE) : nr \in {"write", "writev", "sendfile", "copy_file_range"}}
  \cup {InitIoCall(nr, "pread", "fd", TRUE) : nr \in {"pread64", "preadv", "preadv2"}}
  \cup {InitIoCall(nr, "pwrite", "fd", TRUE) : nr \in {"pwrite64", "pwritev", "pwritev2"}}
  \cup {InitIoCall(nr, nr, "fd", FALSE) : nr \in {"close", "fsync", "fdatasync"}}
  \cup {InitIoCall(nr, "open", "path", FALSE) : nr \in {"openat", "openat2", "open", "creat"}}
  \cup {InitIoCall("ftruncate", "truncate", "fd", FALSE), InitIoCall("truncate", "truncate", "path", FALSE),
        InitIoCall("fallocate", "allocate", "fd", FALSE)}
  \cup {InitIoCall(nr, "unlink", "path", FALSE) : nr \in {"unlinkat", "unlink", "rmdir"}}
  \cup {InitIoCall(nr, "rename_from", "pair", FALSE) : nr \in {"rename", "renameat", "renameat2"}}

InitIoRename(lib, call) == IoMatchRename(lib, call)
InitIoMatch(lib, call) == IF call.reach = "pair" THEN InitIoRename(lib, call) ELSE IoMatch(lib, call)
=============================================================================
