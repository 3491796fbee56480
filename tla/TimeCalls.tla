------------------------------- MODULE TimeCalls -------------------------------
(***************************************************************************)
(* libchaos-time: the lines its parser takes, the rule that answers a call,*)
(* and the wrappers.  A selector is <<"*">>, <<operation>> or              *)
(* <<"clock_gettime", clock>>; a clock is its number.                      *)
(***************************************************************************)
EXTENDS RuleFile

(* clock names; a numeral is taken as a clock's number *)
TimeClockIds ==
  [realtime |-> 0, monotonic |-> 1, process_cputime_id |-> 2, thread_cputime_id |-> 3,
   monotonic_raw |-> 4, realtime_coarse |-> 5, monotonic_coarse |-> 6, boottime |-> 7, tai |-> 11]
  @@ Numerals

TimeSelectorOk(sel) ==
  \/ sel \in {<<"*">>, <<"clock_gettime">>, <<"nanosleep">>, <<"usleep">>}
  \/ Len(sel) = 2 /\ sel[1] = "clock_gettime" /\ sel[2] \in DOMAIN TimeClockIds

TimeMatches(sel, call) ==
  \/ sel = <<"*">>
  \/ sel = <<call.op>>
  \/ Len(sel) = 2 /\ sel[1] = call.op /\ TimeClockIds[sel[2]] = call.clock
TimeRank(sel) == IF sel = <<"*">> THEN 1 ELSE Len(sel) + 1

TimeErrnos == {"EINVAL", "EFAULT", "EINTR", "EPERM", "ENOSYS", "EAGAIN"}

TimeEffectAllowed(sel, eff) ==
  \/ eff \in {"ERRNO", "LATENCY"}
  \/ eff \in {"OFFSET", "REGRESS"} /\ sel[1] = "clock_gettime"

TimeValueOk(eff, val) ==
  \/ eff = "ERRNO" /\ IsErrno(val, TimeErrnos)
  \/ eff = "LATENCY" /\ IsMillis(val)
  \/ eff = "OFFSET" /\ IsNumeral(val)
  \/ eff = "REGRESS" /\ IsNumeral(val) /\ Numerals[val] > 0

TimeLineOk(l) ==
  /\ TimeSelectorOk(l.sel) /\ TimeEffectAllowed(l.sel, l.eff)
  /\ l.eff = "REGRESS" => Len(l.sel) = 2
  /\ ProbabilityValid(l.prob) /\ TimeValueOk(l.eff, l.val)

TimeParseBuffer(lines) == Parsed(lines, TimeLineOk)

(* of two names of one clock the longer one answers: a name, not a number *)
TimeLength(sel) == IF Len(sel) = 2 /\ ~IsNumeral(sel[2]) THEN 2 ELSE 1
TimeSelectRule(rules, eff, call) ==
  SelectRule(rules, LAMBDA l : l.eff = eff /\ TimeMatches(l.sel, call),
                    LAMBDA l : TimeRank(l.sel), LAMBDA l : TimeLength(l.sel))

-----------------------------------------------------------------------------
(* The library's copy of the loading code *)

TimeInit == FreshLib
TimeReadFile(f) == ReadFile(f)
TimeAttachHits(lib, lines) == AttachHits(lib, lines)
TimeRefresh(lib, f) == Refresh(lib, f, TakesFile(f, TimeParseBuffer(f.lines)))
TimeMatch(lib, eff, call) == Chosen(lib.rules, TimeSelectRule(lib.rules, eff, call))
TimeReportHits(lib) == ReportHits(lib)
TimeAfterFork(lib) == AfterFork(lib)

-----------------------------------------------------------------------------
(* Wrappers: the operation whose rules a call follows, and its phases in     *)
(* order.  A wrapper looks up each effect's rule when it comes to it.        *)

TimeWrapper(name, op, phases) ==
  [lib |-> "time", fn |-> name, op |-> op, phases |-> phases, sized |-> FALSE]

(* reading a clock: gettimeofday, time and timespec_get read the wall clock *)
TimeReadPhases == <<"LATENCY", "ERRNO", "CALL", "OFFSET", "REGRESS">>
TimeClockGettime == TimeWrapper("clock_gettime", "clock_gettime", TimeReadPhases)
TimeGettimeofday == TimeWrapper("gettimeofday", "clock_gettime", TimeReadPhases)
TimeTime         == TimeWrapper("time", "clock_gettime", TimeReadPhases)
TimeTimespecGet  == TimeWrapper("timespec_get", "clock_gettime", TimeReadPhases)
ClockRead(w, clock) == IF w.fn = "clock_gettime" THEN clock ELSE TimeClockIds.realtime

TimeSleepPhases == <<"LATENCY", "ERRNO", "CALL">>
TimeNanosleep      == TimeWrapper("nanosleep", "nanosleep", TimeSleepPhases)
TimeSleep          == TimeWrapper("sleep", "nanosleep", TimeSleepPhases)
TimeClockNanosleep == TimeWrapper("clock_nanosleep", "nanosleep", TimeSleepPhases)
TimeUsleep         == TimeWrapper("usleep", "usleep", TimeSleepPhases)

TimeWrappers ==
  {TimeClockGettime, TimeGettimeofday, TimeTime, TimeTimespecGet,
   TimeNanosleep, TimeSleep, TimeClockNanosleep, TimeUsleep}

(* REGRESS: the first read through a rule is left alone, a later one decides *)
(* once, and once decided every read is taken back by the same step          *)
RegressWindow(lib, r, now) == r.hit # NoSlot /\ SlotCurrent(lib, r) /\ WindowOpen(r.line.policy, now)
RegressFirst(lib, r)   == lib.pool[r.hit].state = 0
RegressDecided(lib, r) == lib.pool[r.hit].state = 2
RegressSeen(lib, r)    == [lib EXCEPT !.pool[r.hit].state = 1]
RegressDecide(lib, r)  == [Fire(lib, r) EXCEPT !.pool[r.hit].state = 2]
=============================================================================
