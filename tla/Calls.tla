--------------------------------- MODULE Calls ---------------------------------
(***************************************************************************)
(* A program's calls through the six preload libraries (front "preload"),  *)
(* and through chaos-init for those it serves (front "init"): one thread   *)
(* goes through a wrapper phase by phase while the rule file is edited,    *)
(* other threads' calls load it, time passes and the process forks.        *)
(*                                                                         *)
(* The time, memory, process and dns wrappers look up the rule of each     *)
(* effect as they come to it; the io and net ones look up the one rule of  *)
(* the call as it begins, and hold it.  Any look may first load the file,  *)
(* if it has not been checked within the check interval.                   *)
(***************************************************************************)
EXTENDS TimeCalls, MemoryCalls, ProcessCalls, IoCalls, NetCalls, DnsCalls

CONSTANTS
  Scenes,         \* <<front, library>>
  Files,          \* library -> the files it may find, the first one as it starts
  Args,           \* library -> the arguments its calls are made with
  Refused,        \* library -> the lines it is documented to refuse
  Unhonoured,     \* library -> those chaos-init refuses as well
  MaxEdits,       \* library -> how often its file is edited
  MaxCalls,       \* library -> how many calls are made
  MaxNow

VARIABLES
  scene, lib,
  disk,           \* the rule file
  now,
  call, left,     \* the call under way and the phases it has to go through
  held,           \* io, net: the rule looked up as it began
  edits, calls,   \* used up
  told, begun,    \* ghost: what the program has been told by the file it follows,
                  \* and what it had been told as the call began
  effect          \* ghost: what the last phase did

vars == <<scene, lib, disk, now, call, left, held, edits, calls, told, begun, effect>>

front == scene[1]
name == scene[2]
Holds == name \in {"io", "net"}

-----------------------------------------------------------------------------
(* The calls *)

Wrappers(s) ==
  CASE s = <<"preload", "time">> -> TimeWrappers
    [] s = <<"preload", "dns">>  -> DnsWrappers
    [] s = <<"preload", "memory">>  -> MemoryWrappers   [] s = <<"init", "memory">>  -> InitMemoryCalls
    [] s = <<"preload", "process">> -> ProcessWrappers  [] s = <<"init", "process">> -> InitProcessCalls
    [] s = <<"preload", "io">>  -> IoWrappers           [] s = <<"init", "io">>  -> InitIoCalls
    [] s = <<"preload", "net">> -> NetWrappers          [] s = <<"init", "net">> -> InitNetCalls

(* arguments of another kind of call are not tried with this one *)
Fits(w, a) ==
  /\ w.sized <=> a.size # Unsized
  /\ CASE w.lib = "time"   -> ClockRead(w, a.clock) = a.clock /\ (w.op # "clock_gettime" => a.clock = 0)
       [] w.lib = "memory" -> MemoryAnonymous(w, a.anonymous) = a.anonymous
       [] w.lib = "io"     -> (w.reach = "pair" <=> a.to # NoPath) /\ (w.reach = "fd" <=> a.fd # NoFd)
       [] w.lib = "dns"    -> w.dir = a.dir
       [] w.lib = "net"    ->
            /\ a.watched # <<>> <=> w.reach \in {"batch", "watched"}
            /\ w.reach \in {"spec", "address"} => a.addr # NoEnd /\ a.local = NoEnd
            /\ a.addr # NoEnd => w.reach \in {"spec", "address", "sender"} /\ a.local = NoEnd
            /\ a.timeout >= 0 => w.reach = "watched"
       [] OTHER -> TRUE
(* a function, written out as a table *)
Table(f) == f @@ <<>>

(* wrappers that differ in name only are one *)
Alike(w) == [w EXCEPT !.fn = IF @ \in {"fork", "writev", "pwritev"} \cup InitNetShared THEN @ ELSE w.op]
CallsOf == Table([s \in Scenes |->
                    UNION {{Alike(w) @@ a : a \in {b \in Args[s[2]] : Fits(w, b)}} : w \in Wrappers(s)}])

NoCall == [fn |-> "none", op |-> "none"]

-----------------------------------------------------------------------------
(* The library under way *)

LibInit(n) ==
  CASE n = "time" -> TimeInit [] n = "memory" -> MemoryInit [] n = "process" -> ProcessInit
    [] n = "io" -> IoInit [] n = "net" -> NetInit [] n = "dns" -> DnsInit

Refreshed(f) ==
  CASE name = "time"    -> TimeRefresh(lib, f)
    [] name = "memory"  -> MemoryRefresh(lib, f)
    [] name = "process" -> ProcessRefresh(lib, f, front = "init")
    [] name = "io"      -> IoRefresh(lib, f, front = "init")
    [] name = "net"     -> NetRefresh(lib, f, front = "init")
    [] name = "dns"     -> DnsRefresh(lib, f)

Forked ==
  CASE name = "time" -> TimeAfterFork(lib) [] name = "memory" -> MemoryAfterFork(lib)
    [] name = "process" -> ProcessAfterFork(lib) [] name = "io" -> IoAfterFork(lib)
    [] name = "net" -> NetAfterFork(lib) [] name = "dns" -> DnsAfterFork(lib)

Reported ==
  CASE name = "time" -> TimeReportHits(lib) [] name = "memory" -> MemoryReportHits(lib)
    [] name = "process" -> ProcessReportHits(lib) [] name = "io" -> IoReportHits(lib)
    [] name = "net" -> NetReportHits(lib) [] name = "dns" -> DnsReportHits(lib)

(* the rule a wrapper looks up at a phase, in a configuration just looked at *)
Found(l, p) ==
  CASE name = "time"    -> TimeMatch(l, p, call)
    [] name = "memory"  -> MemoryMatch(l, p, call)
    [] name = "process" -> ProcessMatch(l, p, call)
    [] name = "dns"     -> DnsMatchLoaded(l, p, call)
    [] OTHER            -> {r \in held : r.line.eff = p}

(* the rule an io or net call holds, looked up as it begins *)
FoundAtEntry(l, c) ==
  CASE scene = <<"preload", "io">>  -> IoMatch(l, c)
    [] scene = <<"init", "io">>     -> InitIoMatch(l, c)
    [] scene = <<"preload", "net">> -> NetMatch(l, c)
    [] scene = <<"init", "net">>    -> IF InitNetTakes(c) THEN InitNetMatch(l, c) ELSE {}

(* what else an effect needs before its rule is asked *)
Possible(p, r) ==
  CASE p = "TORN"          -> TearsOf(call)
    [] p = "TRICKLE"       -> NetTrickles(call, r)
    [] p = "TIMEOUT"       -> NetTimesOut(call)
    [] p = "FILTER_FAMILY" -> r.line.val # "any"
    [] OTHER               -> TRUE

(* io and net LATENCY lines carry no probability *)
Draws(p, r) == IF p = "LATENCY" /\ Holds THEN {TRUE} ELSE Hits(r.line.prob)

-----------------------------------------------------------------------------
(* Ghost: the file last looked at, its rules if they are sound, how often    *)
(* each has had its effect, the reversed clocks, and the calls FAIL_AFTER    *)
(* has let pass                                                              *)

NoneYet(lines) == [l \in ToSet(lines) |-> 0]
Untold == [file |-> Missing, force |-> <<>>, counts |-> NoneYet(<<>>), stepped |-> {},
           passed |-> [op \in ProcessOps |-> 0], loads |-> 0, reported |-> FALSE]

Sound(f) ==
  /\ f.kind = "file" /\ ToSet(f.lines) \cap Refused[name] = {}
  /\ front = "init" => ToSet(f.lines) \cap Unhonoured[name] = {}
  /\ Cardinality({i \in DOMAIN f.lines : f.lines[i] # Blank}) <= MaxRules
InForce(f) == IF Sound(f) THEN SelectSeq(f.lines, LAMBDA l : l # Blank) ELSE <<>>

ToldOf(f) ==
  IF f.stamp = told.file.stamp THEN told
  ELSE [file |-> f, force |-> InForce(f),
        counts |-> [l \in ToSet(InForce(f)) |-> IF l \in DOMAIN told.counts THEN told.counts[l] ELSE 0],
        stepped |-> told.stepped \cap ToSet(InForce(f)),
        passed |-> Untold.passed, loads |-> told.loads + 1, reported |-> FALSE]
ToldForked ==
  [told EXCEPT !.counts = NoneYet(told.force), !.passed = Untold.passed, !.reported = FALSE]
Had(t, l) == IF l \in DOMAIN t.counts THEN [t EXCEPT !.counts[l] = @ + 1, !.reported = FALSE] ELSE t

(* what a phase did, line = Blank when nothing, and the file it looked in *)
Did(p, l, t) ==
  [phase |-> p, line |-> l, call |-> call, told |-> t, looked |-> IF Holds THEN begun ELSE t]
NoEffect == [phase |-> "none"]

-----------------------------------------------------------------------------
Init ==
  /\ scene \in Scenes
  /\ lib = LibInit(name) /\ disk = Head(Files[name])
  /\ now = 0 /\ edits = 0 /\ calls = 0
  /\ call = NoCall /\ left = <<>> /\ held = {}
  /\ told = Untold /\ begun = Untold /\ effect = NoEffect

Look(l, t) == [lib |-> l, told |-> t]
Looks == {Look(lib, told) : seen \in {lib.stamp} \ {"unknown"}} \cup {Look(Refreshed(disk), ToldOf(disk))}

Enter(c) ==
  /\ call = NoCall /\ calls < MaxCalls[name]
  /\ call' = c /\ left' = c.phases /\ calls' = calls + 1
  /\ \E look \in IF Holds THEN Looks ELSE {Look(lib, told)} :
       /\ lib' = look.lib /\ told' = look.told
       /\ begun' = IF Holds THEN look.told ELSE Untold
       /\ held' = IF Holds THEN FoundAtEntry(look.lib, c) ELSE {}
  /\ UNCHANGED <<scene, disk, now, edits, effect>>

(* a failed call is over; OVERRIDE answers in the resolver's place, and      *)
(* fails as it would when no address fits; a list filtered to nothing is a   *)
(* failure                                                                   *)
Failures == {"ERRNO", "GAI", "FAIL_AFTER", "TIMEOUT"}
After(p) ==
  CASE p \in Failures       -> {<<>>}
    [] p = "OVERRIDE"       -> {<<>>, SelectSeq(Tail(left), LAMBDA q : q # "CALL")}
    [] p = "FILTER_FAMILY"  -> {<<>>, Tail(left)}
    [] OTHER                -> {Tail(left)}
Shortened(p, r) ==
  CASE p = "TORN"    -> {[call EXCEPT !.size = n] : n \in TornCounts(call.size)}
    [] p = "TRICKLE" -> {[call EXCEPT !.size = Numerals[r.line.val]]}
    [] OTHER         -> {call}

Nothing(p, l, t) ==
  /\ lib' = l /\ told' = t /\ effect' = Did(p, Blank, t)
  /\ left' = Tail(left) /\ call' = call
Applies(p, r, l, t, counted) ==
  /\ lib' = l /\ left' \in After(p) /\ call' \in Shortened(p, r)
  /\ effect' = Did(p, r.line, t)
  /\ told' = IF counted THEN Had(t, r.line) ELSE t

Passes(p) ==
  /\ left # <<>> /\ Head(left) = p
  /\ UNCHANGED <<scene, disk, now, held, edits, calls, begun>>
LooksNow == IF Holds THEN {Look(lib, told)} ELSE Looks

(* chaos_<library>_rule_should_trigger: window, size, draw, slot *)
Inject(p) ==
  /\ Passes(p)
  /\ \E look \in LooksNow :
       \/ /\ \A r \in Found(look.lib, p) : ~Possible(p, r)
          /\ Nothing(p, look.lib, look.told)
       \/ \E r \in Found(look.lib, p) :
            /\ Possible(p, r)
            /\ \E hit \in Draws(p, r) :
                 IF hit /\ Gates(look.lib, r, now, call.size)
                 THEN Applies(p, r, Fire(look.lib, r), look.told, TRUE)
                 ELSE Nothing(p, look.lib, look.told)

FailAfterAsks(r, l, t) ==
  \E hit \in IF FailAfterPast(l, r, call.op) THEN Draws("FAIL_AFTER", r) ELSE {FALSE} :
    IF hit /\ Gates(l, r, now, call.size)
    THEN Applies("FAIL_AFTER", r, Fire(FailAfterCounted(l, call.op), r), t, TRUE)
    ELSE Nothing("FAIL_AFTER", FailAfterCounted(l, call.op), [t EXCEPT !.passed[call.op] = @ + 1])
FailAfter ==
  /\ Passes("FAIL_AFTER")
  /\ \E look \in LooksNow :
       \/ Found(look.lib, "FAIL_AFTER") = {} /\ Nothing("FAIL_AFTER", look.lib, look.told)
       \/ \E r \in Found(look.lib, "FAIL_AFTER") : FailAfterAsks(r, look.lib, look.told)

RegressAsks(r, l, t) ==
  \/ ~RegressWindow(l, r, now) /\ Nothing("REGRESS", l, t)
  \/ RegressWindow(l, r, now) /\ RegressFirst(l, r) /\ Nothing("REGRESS", RegressSeen(l, r), t)
  \/ /\ RegressWindow(l, r, now) /\ RegressDecided(l, r)
     /\ Applies("REGRESS", r, l, t, r.line \notin t.stepped)
  \/ /\ RegressWindow(l, r, now) /\ ~RegressFirst(l, r) /\ ~RegressDecided(l, r)
     /\ \E hit \in Draws("REGRESS", r) :
          IF hit /\ Gates(l, r, now, call.size)
          THEN Applies("REGRESS", r, RegressDecide(l, r), [t EXCEPT !.stepped = @ \cup {r.line}], TRUE)
          ELSE Nothing("REGRESS", l, t)
Regress ==
  /\ Passes("REGRESS")
  /\ \E look \in LooksNow :
       \/ Found(look.lib, "REGRESS") = {} /\ Nothing("REGRESS", look.lib, look.told)
       \/ \E r \in Found(look.lib, "REGRESS") : RegressAsks(r, look.lib, look.told)

(* the older dns calls: whether the answer is to be built from rules *)
Ruled ==
  /\ Passes("RULED")
  /\ \E look \in Looks :
       /\ lib' = look.lib /\ told' = look.told /\ effect' = NoEffect /\ call' = call
       /\ left' = IF DnsHasResultRule(look.lib, call) THEN DnsResolve ELSE <<"CALL">>

(* the real call; after one that fails, or brings no bytes, only a close has *)
(* more to do                                                                *)
Real ==
  /\ Passes("CALL")
  /\ effect' = NoEffect /\ call' = call
  /\ \E got \in BOOLEAN : left' = IF got \/ call.op = "close" THEN Tail(left) ELSE <<>>
  /\ UNCHANGED <<lib, told>>
(* fork returns in the child as well, after the child's handler has run *)
RealInChild ==
  /\ Passes("CALL") /\ front = "preload" /\ call.fn = "fork"
  /\ lib' = Forked /\ told' = ToldForked
  /\ left' = Tail(left) /\ effect' = NoEffect /\ call' = call

Leave ==
  /\ call # NoCall /\ left = <<>>
  /\ call' = NoCall /\ held' = {} /\ effect' = NoEffect /\ begun' = Untold
  /\ UNCHANGED <<scene, lib, disk, now, left, edits, calls, told>>

-----------------------------------------------------------------------------
(* Around the call *)

OtherLoads ==
  /\ front = "preload" /\ call # NoCall
  /\ lib' = Refreshed(disk) /\ told' = ToldOf(disk) /\ effect' = NoEffect
  /\ UNCHANGED <<scene, disk, now, call, left, held, edits, calls, begun>>

Fork ==
  /\ front = "preload" /\ call = NoCall
  /\ lib' = Forked /\ told' = ToldForked
  /\ UNCHANGED <<scene, disk, now, call, left, held, edits, calls, begun, effect>>

Report ==
  /\ front = "preload" /\ call = NoCall /\ lib.pending
  /\ lib' = Reported /\ told' = [told EXCEPT !.reported = TRUE]
  /\ UNCHANGED <<scene, disk, now, call, left, held, edits, calls, begun, effect>>

Edit(f) ==
  /\ edits < MaxEdits[name] /\ f # disk
  /\ disk' = f /\ edits' = edits + 1 /\ effect' = NoEffect
  /\ UNCHANGED <<scene, lib, now, call, left, held, calls, told, begun>>

Tick ==
  /\ now < MaxNow
  /\ now' = now + 1 /\ effect' = NoEffect
  /\ UNCHANGED <<scene, lib, disk, call, left, held, edits, calls, told, begun>>

Injected == {"LATENCY", "ERRNO", "GAI", "OFFSET", "TORN", "CORRUPT", "TRICKLE", "TIMEOUT", "RESET",
             "REWRITE", "SERVICE", "OVERRIDE", "FILTER_FAMILY", "SHUFFLE", "LIMIT"}
Next ==
  \/ \E c \in CallsOf[scene] : Enter(c)
  \/ \E p \in Injected : Inject(p)
  \/ FailAfter \/ Regress \/ Ruled \/ Real \/ RealInChild \/ Leave
  \/ OtherLoads \/ Fork \/ Report \/ Tick
  \/ \E f \in ToSet(Files[name]) : Edit(f)
Spec == Init /\ [][Next]_vars

-----------------------------------------------------------------------------
(* What the lines of a file mean: the calls a line answers, and which of two *)
(* lines for the same effect (io, net: the same operation) says more         *)

Ends(s, c) ==
  CASE c.reach \in {"spec", "address"} -> {c.addr}
    [] c.reach = "local"    -> IF s[1] = "init" THEN {c.local, c.peer} ELSE {c.local}
    [] c.reach = "activity" -> {NetActivityEnd(c.local, c.peer)}
    [] c.reach = "sender" /\ c.addr # NoEnd -> {c.addr}
    [] c.reach \in {"batch", "watched"} -> ToSet(c.watched) \cup {c.local, c.peer}
    [] OTHER -> {c.local, c.peer}
IoAnswers(l, op, path) == l.op = op /\ ~IoExcludedPath(path) /\ IoRulePrefixMatches(l.sel, path)
Answers(s, l, c) ==
  CASE s[2] = "time"    -> TimeMatches(l.sel, c)
    [] s[2] = "memory"  -> MemoryMatches(l.sel, c)
    [] s[2] = "process" -> ProcessMatches(l.sel, c)
    [] s[2] = "dns"     -> DnsMatchesDomain(l.sel, c.dir, c.name)
    [] s[2] = "net"     -> l.op = c.op /\ \E e \in Ends(s, c) : NetMatches(l.sel, e)
    [] s[2] = "io"      -> IF c.reach = "pair"
                           THEN IoAnswers(l, "rename_from", c.path) \/ IoAnswers(l, "rename_to", c.to)
                           ELSE IoAnswers(l, c.op, c.path) /\ (c.reach = "fd" => c.fd > 2)

LinesOf(n) == UNION {ToSet(f.lines) : f \in ToSet(Files[n])} \ {Blank}
AllEnds(s) == UNION {Ends(s, c) : c \in CallsOf[s]}
SaidOf(s, l) ==
  IF s[2] = "net" THEN {e \in AllEnds(s) : NetMatches(l.sel, e)} ELSE {c \in CallsOf[s] : Answers(s, l, c)}
Rivals(n, l, m) == IF n \in {"io", "net"} THEN l.op = m.op ELSE l.eff = m.eff
(* a symbolic link's line counts by the link's own path *)
Plain(n, l) == n = "io" => l.sel \notin DOMAIN IoLinks
SaysMore ==
  Table([s \in Scenes |->
           {p \in LinesOf(s[2]) \X LinesOf(s[2]) :
              /\ Rivals(s[2], p[1], p[2]) /\ Plain(s[2], p[1]) /\ Plain(s[2], p[2])
              /\ SaidOf(s, p[1]) # SaidOf(s, p[2]) /\ SaidOf(s, p[1]) \subseteq SaidOf(s, p[2])}])

(* a wait, or a batch, follows the first of its descriptors that has a rule; *)
(* a rename the longer prefix of its ends                                    *)
ByOrder(c) == Holds /\ c.reach \in {"watched", "batch", "pair"}

Sure(l) ==
  /\ l.prob = "1" /\ l.policy = NoPolicy
  /\ l.eff \in Injected \ {"TORN", "CORRUPT", "TRICKLE", "TIMEOUT", "FILTER_FAMILY"}

(* The line in the file that says most of a call is the one that answers it: *)
(* what a phase injects is a line of the file last loaded (io, net: the file *)
(* looked in as the call began, if the line is still in force), that answers *)
(* the call, and no other line for it says more; and a phase that injects    *)
(* nothing had no sure line that says more of the call than all the others.  *)
(* A file with a line that is refused says nothing.                          *)
EffectsFollowTheFile ==
  effect # NoEffect =>
    /\ effect.line # Blank =>
         /\ effect.line \in ToSet(effect.told.force) \cap ToSet(effect.looked.force)
         /\ Answers(scene, effect.line, effect.call) /\ effect.line.eff = effect.phase
         /\ ~ByOrder(effect.call) =>
              \A m \in ToSet(effect.looked.force) :
                Answers(scene, m, effect.call) => <<m, effect.line>> \notin SaysMore[scene]
    /\ effect.line = Blank /\ effect.told.loads = effect.looked.loads /\ ~ByOrder(effect.call) =>
         ~\E l \in ToSet(effect.looked.force) :
            /\ l.eff = effect.phase /\ Sure(l) /\ Answers(scene, l, effect.call)
            /\ \A m \in ToSet(effect.looked.force) \ {l} :
                 Rivals(name, l, m) /\ Answers(scene, m, effect.call) => <<l, m>> \in SaysMore[scene]

(* The hits file is the record of an experiment: a rule's count is how often *)
(* it has had its effect in this process since it came into force, whatever  *)
(* was loaded, forked, claimed or reported in between.                       *)
HitsAreEffects ==
  /\ {lib.rules[i].line : i \in DOMAIN lib.rules} = ToSet(told.force)
  /\ \A i \in DOMAIN lib.rules : lib.pool[lib.rules[i].hit].count = told.counts[lib.rules[i].line]
  /\ told.reported => lib.report = {<<l, told.counts[l]>> : l \in ToSet(told.force)}

(* FAIL_AFTER:E,N lets N calls of an operation pass, and a sure one no more: *)
(* counted from the load of the file or the fork of the process, over every  *)
(* thread and every wrapper of the operation.                                *)
FailAfterSpares ==
  effect # NoEffect /\ effect.phase = "FAIL_AFTER" =>
    /\ effect.line # Blank => effect.told.passed[effect.call.op] >= Numerals[effect.line.val[2]]
    /\ effect.line = Blank =>
         \A l \in ToSet(effect.told.force) :
           /\ l.eff = "FAIL_AFTER" /\ l.prob = "1" /\ l.policy = NoPolicy
           /\ Answers(scene, l, effect.call)
           /\ \A m \in ToSet(effect.told.force) \ {l} : m.eff = "FAIL_AFTER" => <<l, m>> \in SaysMore[scene]
           => effect.told.passed[effect.call.op] <= Numerals[l.val[2]]
=============================================================================
