--------------------------- MODULE InitSupervisor ---------------------------
(***************************************************************************)
(* chaos-init, the seccomp supervisor (src/src/init/chaos_init.c and       *)
(* chaos_init_delay.c): the start of the application under a filter, the   *)
(* poll loop that answers the system calls the filter traps, the queue of  *)
(* delayed answers, and the end of the application.  The kernel's          *)
(* notifications are modelled from how the supervisor uses them.  Time is  *)
(* kept as what is left of each delay.                                     *)
(***************************************************************************)
EXTENDS Integers, FiniteSetsExt

CONSTANTS
  Threads,      \* tids; Main is the application chaos-init forked
  Main,
  Calls,        \* raw system calls: number and arguments
  Verdicts,     \* what the rule cores may decide
  Capacity,     \* CHAOS_INIT_MAX_DELAYED
  Interval,     \* CHAOS_HITS_INTERVAL_MS, in ticks
  Settings,     \* environments: killable wait, pid 1, what fails
  MaxCalls, MaxSignals   \* bounds

Faults  == {"none", "probe", "send", "sizes", "fds", "fork"}
Verdict == [action : {"pass", "fail", "return", "delay"}, then : {"pass", "fail", "return"}, delay : Nat]
ASSUME ConstantsAssumption ==
  /\ Main \in Threads /\ Calls # {} /\ \A v \in Verdicts : v \in Verdict
  /\ Capacity \in Nat \ {0} /\ Interval \in Nat \ {0} /\ MaxCalls \in Nat /\ MaxSignals \in Nat
  /\ Settings \subseteq [killable : BOOLEAN, pid1 : BOOLEAN, fails : Faults]

VARIABLES
  setting,
  (* start *)
  child,        \* the application: fork, filtered, go, runs, or plain..., ended
  parent,       \* chaos-init's place in main
  message,      \* on the socket pair: empty, listener, error, closed
  status,       \* the status file: stale, active, unsupported
  (* kernel *)
  thread,       \* per tid: at (boot, unborn, run, wait, handler, dead), call, id
  queue,        \* ids of notifications not yet received; they are received in their order
  nextId,
  (* supervisor *)
  loop,         \* place in the iteration
  ready,        \* what poll reported
  got,          \* the notification in hand and its verdict
  parked,       \* the delay queue
  timer,        \* ticks until it fires, Off when disarmed
  unwritten,    \* some process has hits that wait for the interval
  sinceFlush,
  (* history *)
  decided,      \* decisions taken for each thread's call under way
  held,         \* whether that call has been parked
  owed,         \* delay decided for it, still to wait
  (* bounds *)
  calls, signals

start  == <<child, parent, message, status>>
kernel == <<thread, queue, nextId>>
server == <<loop, ready, got, parked, timer, unwritten, sinceFlush>>
story  == <<decided, held, owed>>
bounds == <<calls, signals>>
vars   == <<setting, start, kernel, server, story, bounds>>

Off  == -1
None == [id |-> 0]

Init ==
  /\ setting \in Settings
  /\ child = "fork" /\ parent = "receive" /\ message = "empty" /\ status = "stale"
  /\ thread = [t \in Threads |-> [at |-> IF t = Main THEN "boot" ELSE "unborn", call |-> "none", id |-> 0]]
  /\ queue = {} /\ nextId = 1
  /\ loop = "off" /\ ready = {} /\ got = None /\ parked = {} /\ timer = Off
  /\ unwritten = FALSE /\ sinceFlush = Interval
  /\ decided = [t \in Threads |-> 0] /\ held = [t \in Threads |-> FALSE] /\ owed = [t \in Threads |-> 0]
  /\ calls = 0 /\ signals = 0

(***************************************************************************)
(* Start: the child installs the filter and sends its listener; the parent *)
(* writes the status, then lets the child go.                              *)
(***************************************************************************)
\* A probe child first proves that the filter installs.
ChildInstalls ==
  /\ child = "fork"
  /\ \/ setting.fails = "probe" /\ child' = "plain" /\ message' = "error"
     \/ setting.fails = "send" /\ child' = "ended" /\ message' = "closed"
     \/ setting.fails \notin {"probe", "send"} /\ child' = "filtered" /\ message' = "listener"
  /\ thread' = [thread EXCEPT ![Main].at = IF child' = "ended" THEN "dead" ELSE @]
  /\ UNCHANGED <<setting, parent, status, queue, nextId, server, story, bounds>>

GiveUp == parent' = "failed" /\ child' = "ended" /\ thread' = [thread EXCEPT ![Main].at = "dead"]
ParentReceives ==
  /\ parent = "receive" /\ message # "empty"
  /\ IF message = "closed" \/ (message = "listener" /\ setting.fails = "sizes") THEN GiveUp
     ELSE parent' = "status" /\ UNCHANGED <<child, thread>>
  /\ UNCHANGED <<setting, message, status, queue, nextId, server, story, bounds>>
ParentWritesStatus ==
  /\ parent = "status" /\ parent' = "go"
  /\ status' = IF message = "listener" THEN "active" ELSE "unsupported"
  /\ UNCHANGED <<setting, child, message, kernel, server, story, bounds>>
\* mutant: go first
ParentGoesFirst ==
  /\ parent = "status" /\ parent' = "fds"
  /\ child' = IF child = "filtered" THEN "go" ELSE "plaingo"
  /\ UNCHANGED <<setting, message, status, kernel, server, story, bounds>>
ParentGoes ==
  /\ parent = "go" /\ parent' = "fds"
  /\ child' = IF child = "filtered" THEN "go" ELSE "plaingo"
  /\ UNCHANGED <<setting, message, status, kernel, server, story, bounds>>
ParentStartsLoop ==
  /\ parent = "fds"
  /\ IF setting.fails = "fds" THEN GiveUp /\ UNCHANGED loop
     ELSE parent' = "serve" /\ loop' = "poll" /\ UNCHANGED <<child, thread>>
  /\ UNCHANGED <<setting, message, status, queue, nextId, ready, got, parked, timer, unwritten, sinceFlush,
                 story, bounds>>
ChildExecs ==
  /\ child \in {"go", "plaingo"} /\ child' = (IF child = "go" THEN "runs" ELSE "plainruns")
  /\ thread' = [thread EXCEPT ![Main].at = "run"]
  /\ UNCHANGED <<setting, parent, message, status, queue, nextId, server, story, bounds>>

(***************************************************************************)
(* The kernel and the application's threads.                               *)
(***************************************************************************)
Filtered == message = "listener"
\* Some process holds the listener: the message itself, or its receiver.
Listening == Filtered /\ parent \notin {"failed", "exited"} /\ loop # "closed"
Alive(t) == thread[t].at \in {"boot", "run", "wait", "handler"}

Born(t) ==
  /\ thread[t].at = "unborn" /\ child = "runs" /\ thread' = [thread EXCEPT ![t].at = "run"]
  /\ UNCHANGED <<setting, start, queue, nextId, server, story, bounds>>
Notify(t, c) ==
  /\ thread' = [thread EXCEPT ![t] = [at |-> "wait", call |-> c, id |-> nextId]]
  /\ queue' = queue \cup {nextId} /\ nextId' = nextId + 1
Call(t, c) ==
  /\ thread[t].at = "run" /\ Filtered /\ Listening /\ calls < MaxCalls /\ calls' = calls + 1
  /\ Notify(t, c)
  /\ decided' = [decided EXCEPT ![t] = 0] /\ held' = [held EXCEPT ![t] = FALSE]
  /\ owed' = [owed EXCEPT ![t] = 0]
  /\ UNCHANGED <<setting, start, server, signals>>
Withdraw(t) == queue' = queue \ {thread[t].id}
\* chaos_init_try_install asks for SECCOMP_FILTER_FLAG_WAIT_KILLABLE_RECV
\* where the kernel has it: a received notification is then not interrupted.
KillableNever == FALSE  \* mutant: the flag is dropped
Killable == setting.killable
Signal(t) ==
  /\ thread[t].at = "wait" /\ signals < MaxSignals /\ signals' = signals + 1
  /\ thread[t].id \in queue \/ ~Killable
  /\ Withdraw(t) /\ thread' = [thread EXCEPT ![t].at = "handler", ![t].id = 0]
  /\ UNCHANGED <<setting, start, nextId, server, story, calls>>
\* Without a listener the restarted call ends at once, with ENOSYS.
Restart(t) ==
  /\ thread[t].at = "handler"
  /\ IF Listening THEN Notify(t, thread[t].call) /\ UNCHANGED owed
     ELSE /\ thread' = [thread EXCEPT ![t].at = "run"] /\ owed' = [owed EXCEPT ![t] = 0]
          /\ UNCHANGED <<queue, nextId>>
  /\ UNCHANGED <<setting, start, server, decided, held, bounds>>
\* Without SA_RESTART the call ends with EINTR instead.
Interrupted(t) ==
  /\ thread[t].at = "handler" /\ thread' = [thread EXCEPT ![t].at = "run"]
  /\ owed' = [owed EXCEPT ![t] = 0]
  /\ UNCHANGED <<setting, start, queue, nextId, server, decided, held, bounds>>
\* The last listener closed: ENOSYS.
Refused(t) ==
  /\ thread[t].at = "wait" /\ ~Listening
  /\ Withdraw(t) /\ thread' = [thread EXCEPT ![t].at = "run", ![t].id = 0]
  /\ owed' = [owed EXCEPT ![t] = 0]
  /\ UNCHANGED <<setting, start, nextId, server, decided, held, bounds>>
Die(t) ==
  /\ thread[t].at \in {"run", "wait", "handler"}
  /\ Withdraw(t) /\ thread' = [thread EXCEPT ![t].at = "dead", ![t].id = 0]
  /\ child' = (IF t = Main THEN "ended" ELSE child)
  /\ UNCHANGED <<setting, parent, message, status, nextId, server, story, bounds>>

Tick ==
  /\ parked # {} \/ timer > 0 \/ sinceFlush < Interval
  /\ parked' = {[e EXCEPT !.left = Max({0, @ - 1})] : e \in parked}
  /\ timer' = (IF timer > 0 THEN timer - 1 ELSE timer)
  /\ sinceFlush' = Min({Interval, sinceFlush + 1})
  /\ owed' = [t \in Threads |-> Max({0, owed[t] - 1})]
  /\ UNCHANGED <<setting, start, kernel, loop, ready, got, unwritten, decided, held, bounds>>

(***************************************************************************)
(* The loop: poll, signals, one notification, then what is due.            *)
(***************************************************************************)
HungUp == \A t \in Threads : ~Alive(t)
Pollable ==
  {r \in {"sigchld", "notify", "hup", "timer"} :
     CASE r = "sigchld" -> child = "ended" /\ parent = "serve"
       [] r = "notify"  -> Listening /\ queue # {}
       [] r = "hup"     -> Listening /\ HungUp
       [] OTHER         -> timer = 0}
LoopIs == <<setting, message, status, child>>

Poll ==
  /\ loop \in {"poll", "closed"} /\ parent \in {"serve", "copy"} /\ Pollable # {} /\ ready' = Pollable
  /\ loop' = IF loop = "closed" THEN loop ELSE "signals"
  /\ (loop = "closed") => ("sigchld" \in Pollable)
  /\ UNCHANGED <<LoopIs, parent, kernel, got, parked, timer, unwritten, sinceFlush, story, bounds>>

\* chaos_init_serve_the_rest: a copy serves what the application left behind.
NeedsCopyNever == FALSE  \* mutant: no copy
NeedsCopy == Listening /\ ~setting.pid1
Exit ==
  /\ parent' = "exited" /\ loop' = "off"
  /\ thread' = IF setting.pid1 THEN [t \in Threads |-> [thread[t] EXCEPT !.at = "dead"]] ELSE thread
ReadSignals ==
  /\ loop = "signals" \/ (loop = "closed" /\ ready # {})
  /\ IF "sigchld" \in ready
     THEN /\ unwritten' = FALSE
          /\ IF NeedsCopy /\ setting.fails # "fork"
             THEN parent' = "copy" /\ loop' = "timer" /\ UNCHANGED thread
             ELSE Exit
     ELSE loop' = "timer" /\ UNCHANGED <<unwritten, parent, thread>>
  /\ UNCHANGED <<LoopIs, queue, nextId, ready, got, parked, timer, sinceFlush, story, bounds>>
ReadTimer ==
  /\ loop = "timer" /\ timer' = (IF "timer" \in ready THEN Off ELSE timer)
  /\ loop' = CASE "notify" \in ready -> "receive" [] "hup" \in ready -> "hungup" [] OTHER -> "ontime"
  /\ UNCHANGED <<LoopIs, parent, kernel, ready, got, parked, unwritten, sinceFlush, story, bounds>>
CloseListener ==
  /\ loop = "hungup" /\ ready' = {}
  /\ IF parent = "copy" THEN Exit /\ unwritten' = FALSE
     ELSE loop' = "closed" /\ UNCHANGED <<parent, thread, unwritten>>
  /\ UNCHANGED <<LoopIs, queue, nextId, got, parked, timer, sinceFlush, story, bounds>>

(* chaos_init_answer *)
Oldest     == Min(queue)
Owner(id)  == {t \in Threads : thread[t].at = "wait" /\ thread[t].id = id}
Same(e, t) == e.tid = t /\ e.call = thread[t].call
\* chaos_init_delay_resume: the entry takes the new id.
Resume(t) == \E e \in parked : Same(e, t)
ReboundNone(t) == parked  \* mutant: the old id stays
Rebound(t) == {IF Same(e, t) THEN [e EXCEPT !.id = thread[t].id] ELSE e : e \in parked}
Receive ==
  /\ loop = "receive" /\ queue = {} /\ loop' = "ontime"
  /\ UNCHANGED <<LoopIs, parent, kernel, ready, got, parked, timer, unwritten, sinceFlush, story, bounds>>
Recognise(t) ==
  /\ loop = "receive" /\ queue # {} /\ t \in Owner(Oldest) /\ queue' = queue \ {Oldest}
  /\ Resume(t) /\ parked' = Rebound(t) /\ loop' = "ontime"
  /\ UNCHANGED <<LoopIs, parent, thread, nextId, ready, got, timer, unwritten, sinceFlush, story, bounds>>
\* A verdict other than pass is a hit, reported at once or after the interval.
Decide(t, v) ==
  /\ loop = "receive" /\ queue # {} /\ t \in Owner(Oldest) /\ queue' = queue \ {Oldest} /\ ~Resume(t)
  /\ got' = [id |-> thread[t].id, tid |-> t, call |-> thread[t].call, verdict |-> v]
  /\ decided' = [decided EXCEPT ![t] = @ + 1]
  /\ unwritten' \in (IF v.action = "pass" THEN {unwritten} ELSE {unwritten, TRUE})
  /\ loop' = (IF v.action = "pass" THEN "reply" ELSE "check")
  /\ UNCHANGED <<LoopIs, parent, thread, nextId, ready, parked, timer, sinceFlush, held, owed, bounds>>
\* NOTIF_ID_VALID, then the commit of what the verdict writes.
Check ==
  /\ loop = "check"
  /\ IF Owner(got.id) = {} THEN loop' = "ontime" /\ got' = None
     ELSE loop' = (IF got.verdict.action = "delay" THEN "park" ELSE "reply") /\ UNCHANGED got
  /\ UNCHANGED <<LoopIs, parent, kernel, ready, parked, timer, unwritten, sinceFlush, story, bounds>>
\* The millisecond added covers the truncation of now.
Entry == [id |-> got.id, tid |-> got.tid, call |-> got.call, left |-> got.verdict.delay, then |-> got.verdict.then]

Full == Cardinality(parked) = Capacity
Park ==
  /\ loop = "park" /\ ~Full /\ parked' = parked \cup {Entry} /\ got' = None /\ loop' = "ontime"
  /\ held' = [held EXCEPT ![got.tid] = thread[got.tid].id = got.id]
  /\ owed' = [owed EXCEPT ![got.tid] = IF thread[got.tid].id = got.id THEN got.verdict.delay ELSE @]
  /\ UNCHANGED <<LoopIs, parent, kernel, ready, timer, unwritten, sinceFlush, decided, bounds>>
ParkFull ==
  /\ loop = "park" /\ Full /\ loop' = "reply"
  /\ UNCHANGED <<LoopIs, parent, kernel, ready, got, parked, timer, unwritten, sinceFlush, story, bounds>>
\* By id: a call that is gone takes no answer.
Answer(ids) == thread' = [t \in Threads |-> IF \E i \in ids : t \in Owner(i)
                                            THEN [thread[t] EXCEPT !.at = "run", !.id = 0] ELSE thread[t]]
Reply ==
  /\ loop = "reply" /\ Answer({got.id}) /\ got' = None /\ loop' = "ontime"
  /\ UNCHANGED <<LoopIs, parent, queue, nextId, ready, parked, timer, unwritten, sinceFlush, story, bounds>>

(* chaos_init_on_time *)
DueSoon(e) == e.left <= 1  \* mutant: without the added millisecond
Due(e) == e.left = 0
\* mutant: hits that wait do not arm the timer
NextDueParked(waiting, since, left) == IF left = {} THEN Off ELSE Max({1, Min({e.left : e \in left})})
NextDue(waiting, since, left) ==
  LET dues == {e.left : e \in left} \cup (IF waiting THEN {Interval - since} ELSE {})
  IN  IF dues = {} THEN Off ELSE Max({1, Min(dues)})
OnTime ==
  /\ loop = "ontime" /\ loop' = "poll" /\ ready' = {}
  /\ Answer({e.id : e \in {x \in parked : Due(x)}})
  /\ parked' = {e \in parked : ~Due(e)}
  /\ LET flush == unwritten /\ sinceFlush >= Interval
     IN  /\ unwritten' = (unwritten /\ ~flush)
         /\ sinceFlush' = IF flush THEN 0 ELSE sinceFlush
  /\ timer' = NextDue(unwritten', sinceFlush', parked')
  /\ UNCHANGED <<LoopIs, parent, queue, nextId, got, story, bounds>>

Supervise ==
  \/ ParentReceives \/ ParentWritesStatus \/ ParentGoes \/ ParentStartsLoop
  \/ Poll \/ ReadSignals \/ ReadTimer \/ CloseListener
  \/ Receive \/ (\E t \in Threads : Recognise(t) \/ \E v \in Verdicts : Decide(t, v))
  \/ Check \/ Park \/ ParkFull \/ Reply \/ OnTime
Apply ==
  \/ ChildInstalls \/ ChildExecs
  \/ \E t \in Threads : Born(t) \/ Signal(t) \/ Restart(t) \/ Interrupted(t) \/ Refused(t) \/ Die(t)
                        \/ \E c \in Calls : Call(t, c)
Next == Supervise \/ Apply \/ Tick
Spec == Init /\ [][Next]_vars
\* The supervisor is scheduled and the clock moves; the kernel answers a
\* call that nobody can answer.
FairSpec ==
  /\ Spec /\ WF_vars(Supervise) /\ WF_vars(ChildInstalls) /\ WF_vars(Tick)
  /\ \A t \in Threads : WF_vars(Refused(t)) /\ WF_vars(Restart(t))

(***************************************************************************)
(* Properties                                                              *)
(***************************************************************************)
Places  == {"boot", "unborn", "run", "wait", "handler", "dead"}
ThreadStates == [at : Places, call : Calls \cup {"none"}, id : Nat]
Entries == [id : Nat, tid : Threads, call : Calls, left : Nat, then : {"pass", "fail", "return"}]
Received == [id : Nat, tid : Threads, call : Calls, verdict : Verdicts]
StartTypes ==
  /\ setting \in Settings
  /\ child \in {"fork", "filtered", "go", "runs", "plain", "plaingo", "plainruns", "ended"}
  /\ parent \in {"receive", "status", "go", "fds", "serve", "copy", "failed", "exited"}
  /\ message \in {"empty", "listener", "error", "closed"} /\ status \in {"stale", "active", "unsupported"}
KernelTypes ==
  /\ thread \in [Threads -> ThreadStates]
  /\ \A t \in Threads : thread[t].at \in {"wait", "handler"} => thread[t].call \in Calls
  /\ nextId \in Nat \ {0} /\ queue \subseteq 1..(nextId - 1)
LoopTypes ==
  /\ loop \in {"off", "poll", "signals", "timer", "receive", "hungup", "closed", "check", "park", "reply", "ontime"}
  /\ ready \subseteq {"sigchld", "notify", "hup", "timer"} /\ got \in {None} \cup Received
  /\ timer \in Nat \cup {Off} /\ sinceFlush \in 0..Interval /\ unwritten \in BOOLEAN
ParkedTypes == parked \subseteq Entries /\ IsFiniteSet(parked) /\ Cardinality(parked) <= Capacity
StoryTypes ==
  /\ decided \in [Threads -> Nat] /\ held \in [Threads -> BOOLEAN] /\ owed \in [Threads -> Nat]
  /\ calls \in 0..MaxCalls /\ signals \in 0..MaxSignals
TypeOK == StartTypes /\ KernelTypes /\ LoopTypes /\ ParkedTypes /\ StoryTypes

\* The status first, then go: whoever sees the application run reads this
\* run's status, and the right one (chaos_init.c:846); and a start that fails
\* takes the application with it, which never goes on under a filter nobody
\* serves (chaos_init.c:811, 856).
StatusBeforeRun ==
  /\ child \in {"go", "runs"} => status = "active"
  /\ child \in {"plaingo", "plainruns"} => status = "unsupported"
  /\ parent = "failed" => child = "ended"

\* As long as a filtered process waits for an answer, some supervisor holds
\* the listener: the application's end, as PID 1 or not, and a hang-up seen
\* while daemons are still alive never leave a call to ENOSYS.
ListenerOutlivesCallers ==
  (\E t \in Threads : thread[t].at = "wait") => Listening \/ setting.fails \in {"fds", "fork"}

\* Where signals cannot interrupt a received notification, a call is decided,
\* and so counted, once.
DecidedOnce == setting.killable => \A t \in Threads : decided[t] <= 1

\* A call goes on before its delay is over only when the queue was full, its
\* own signal ended it, or the supervisor is gone.
NotEarly == \A t \in Threads : thread[t].at = "run" => owed[t] = 0

\* The loop never sleeps past a delay or past the interval of unwritten hits.
WakesInTime ==
  loop = "poll" => /\ \A e \in parked : timer \in 0..Max({1, e.left})
                   /\ unwritten => timer \in 0..Max({1, Interval - sinceFlush})

\* Every trapped call ends, whatever is delayed and whoever dies meanwhile.
EveryCallEnds == \A t \in Threads : (thread[t].at = "wait") ~> (thread[t].at # "wait")

\* "A parked call that a signal interrupted and the kernel restarted (pre-5.19):
\* it keeps its due time and answer and is neither decided nor counted again"
\* (chaos_init.c:529).
HeldDecidedOnce == [][\A t \in Threads : held[t] /\ held'[t] => decided'[t] = decided[t]]_vars
=============================================================================
