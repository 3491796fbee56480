------------------------ MODULE InitSupervisorProofs ------------------------
(***************************************************************************)
(* Theorems about InitSupervisor, for any sets of threads, calls and       *)
(* verdicts, every size of the delay queue, every interval and every       *)
(* environment: the start, the answers of the poll loop and its timer.     *)
(***************************************************************************)
EXTENDS InitSupervisor, FiniteSetTheorems, WellFoundedInduction, TLAPS

(***************************************************************************)
(* Inductive invariants.                                                   *)
(***************************************************************************)
\* What the message, the child's place and the parent's tell of each other.
StartInv ==
  /\ message = "empty" <=> child = "fork"
  /\ child \in {"filtered", "go", "runs"} => message = "listener"
  /\ child \in {"plain", "plaingo", "plainruns"} => message = "error"
  /\ message = "closed" => child = "ended"
  /\ parent = "receive" => child \in {"fork", "filtered", "plain"} \/ message = "closed"
  /\ parent \in {"status", "go"} => child \in {"filtered", "plain"}
  /\ parent \in {"go", "fds", "serve", "copy", "exited"} =>
       status = IF message = "listener" THEN "active" ELSE "unsupported"
  /\ parent \in {"fds", "serve", "copy", "exited"} => child \in {"go", "runs", "plaingo", "plainruns", "ended"}
  /\ parent \in {"copy", "failed"} => child = "ended"

\* Which threads there are at each place of the child: its own only ends with
\* it, the others are born once it runs.
LifeInv ==
  /\ thread[Main].at # "unborn"
  /\ thread[Main].at = "boot" => child \notin {"runs", "plainruns"}
  /\ thread[Main].at \in {"run", "wait", "handler"} => child \in {"runs", "plainruns"}
  /\ thread[Main].at = "dead" => child = "ended"
  /\ \A t \in Threads \ {Main} : thread[t].at # "boot" /\ (thread[t].at # "unborn" => child \in {"runs", "ended"})

\* A notification is in hand from its receipt to its answer, and the loop is
\* off until the parent starts it.
HandInv ==
  /\ parent \in {"receive", "status", "go", "fds", "failed"} => loop = "off"
  /\ loop \in {"check", "park", "reply"} <=> got # None
BaseInv == TypeOK /\ HandInv

\* That what poll reported of the application's end and of the hang-up stays
\* true, and nothing is parked before the loop runs.
LoopInv ==
  /\ parent \in {"receive", "status", "go", "fds", "failed"} => parked = {} /\ ~unwritten /\ ready = {}
  /\ "sigchld" \in ready => child = "ended"
  /\ "hup" \in ready \/ loop = "hungup" => HungUp
  /\ loop = "closed" /\ ready # {} => "sigchld" \in ready

\* What a call still has to wait is not more than what is left of its entry.
OwedInv ==
  \A t \in Threads :
    /\ thread[t].at \in {"run", "unborn", "boot"} => owed[t] = 0
    /\ thread[t].at \in {"wait", "handler"} /\ owed[t] > 0 =>
         \E e \in parked : Same(e, t) /\ owed[t] <= e.left

\* A call that is still to be received, or received again, is not decided yet.
DecidedInv ==
  setting.killable =>
    \A t \in Threads :
      /\ decided[t] <= 1
      /\ thread[t].at = "handler" \/ (thread[t].at = "wait" /\ thread[t].id \in queue) => decided[t] = 0

(***************************************************************************)
(* The operators of the model.                                             *)
(***************************************************************************)
\* The id received first is the lowest, and a set of ids has a lowest.
LEMMA LowestIsIn ==
  ASSUME NEW S, S \subseteq Nat, S # {}
  PROVE  Min(S) \in S /\ \A y \in S : Min(S) <= y
<1> DEFINE Less == OpToRel(<, Nat)
<1>1. \A y, x \in Nat : <<y, x>> \in Less <=> y < x
  BY Zenon DEF OpToRel
<1>2. IsWellFoundedOn(Less, Nat)
  BY NatLessThanWellFounded
<1> HIDE DEF Less
<1>3. PICK x \in S : \A y \in S : ~ (<<y, x>> \in Less)
  BY <1>2, WFMin
<1>4. \A y \in S : ~ (y < x)
  BY <1>1, <1>3
<1>5. \A y \in S : x =< y
  BY <1>4
<1> QED
  BY <1>5 DEF Min

LEMMA LargerOfTwo ==
  ASSUME NEW a \in Int, NEW b \in Int
  PROVE  Max({a, b}) = IF a >= b THEN a ELSE b
<1>1. \E x \in {a, b} : \A y \in {a, b} : x >= y
  OBVIOUS
<1>2. Max({a, b}) \in {a, b} /\ \A y \in {a, b} : Max({a, b}) >= y
  BY <1>1 DEF Max
<1> QED
  BY <1>2

LEMMA SmallerOfTwo ==
  ASSUME NEW a \in Int, NEW b \in Int
  PROVE  Min({a, b}) = IF a <= b THEN a ELSE b
<1>1. \E x \in {a, b} : \A y \in {a, b} : x =< y
  OBVIOUS
<1>2. Min({a, b}) \in {a, b} /\ \A y \in {a, b} : Min({a, b}) =< y
  BY <1>1 DEF Min
<1> QED
  BY <1>2

\* A queue whose entries are rewritten one by one is no longer than before.
LEMMA RewrittenIsNoLonger ==
  ASSUME NEW S, IsFiniteSet(S), NEW f, f \in [S -> {f[e] : e \in S}]
  PROVE  IsFiniteSet({f[e] : e \in S}) /\ Cardinality({f[e] : e \in S}) <= Cardinality(S)
<1> DEFINE T == {f[e] : e \in S}
<1>1. f \in Surjection(S, T)
  BY DEF Surjection
<1> QED
  BY <1>1, FS_Surjection

(***************************************************************************)
(* What each action does to the threads.                                   *)
(***************************************************************************)
\* Thread t is at p, in call c, under id i; the others are where they were.
Moves(t, p, c, i) ==
  /\ thread' \in [Threads -> ThreadStates]
  /\ thread'[t].at = p /\ thread'[t].call = c /\ thread'[t].id = i
  /\ \A u \in Threads : u # t => thread'[u] = thread[u]

\* The kernel answers the threads that wait under one of the ids.
Answers(ids) ==
  /\ thread' \in [Threads -> ThreadStates]
  /\ \A t \in Threads :
       IF thread[t].at = "wait" /\ thread[t].id \in ids
       THEN thread'[t].at = "run" /\ thread'[t].call = thread[t].call /\ thread'[t].id = 0
       ELSE thread'[t] = thread[t]

LEMMA ThreadChanges ==
  ASSUME TypeOK, NEW t \in Threads, NEW p \in Places, NEW i \in Nat
  PROVE  /\ thread' = [thread EXCEPT ![t].at = p] => Moves(t, p, thread[t].call, thread[t].id)
         /\ thread' = [thread EXCEPT ![t].at = p, ![t].id = i] => Moves(t, p, thread[t].call, i)
         /\ \A c \in Calls :
              thread' = [thread EXCEPT ![t] = [at |-> p, call |-> c, id |-> i]] => Moves(t, p, c, i)
<1>1. thread \in [Threads -> ThreadStates] /\ thread[t] \in ThreadStates
  BY DEF TypeOK, KernelTypes
<1> DEFINE m == thread[t]
           a == [m EXCEPT !.at = p]
           b == [m EXCEPT !.at = p, !.id = i]
<1>2. /\ a \in ThreadStates /\ b \in ThreadStates
      /\ a.at = p /\ a.call = m.call /\ a.id = m.id /\ b.at = p /\ b.call = m.call /\ b.id = i
  <2>1. m \in ThreadStates
    BY <1>1
  <2> HIDE DEF m
  <2>2. m.at \in Places /\ m.call \in Calls \cup {"none"} /\ m.id \in Nat
    BY <2>1 DEF ThreadStates
  <2>3. a \in ThreadStates /\ a.at = p /\ a.call = m.call /\ a.id = m.id
    BY <2>1, <2>2 DEF ThreadStates
  <2>4. b \in ThreadStates /\ b.at = p /\ b.call = m.call /\ b.id = i
    BY <2>1, <2>2 DEF ThreadStates
  <2> QED
    BY <2>3, <2>4
<1>3. ASSUME thread' = [thread EXCEPT ![t].at = p] PROVE Moves(t, p, thread[t].call, thread[t].id)
  <2>1. thread' = [thread EXCEPT ![t] = a]
    BY <1>3
  <2> HIDE DEF a
  <2> QED
    BY <1>1, <1>2, <2>1 DEF Moves
<1>4. ASSUME thread' = [thread EXCEPT ![t].at = p, ![t].id = i] PROVE Moves(t, p, thread[t].call, i)
  <2>1. thread' = [thread EXCEPT ![t] = b]
    BY <1>1, <1>4
  <2> HIDE DEF b
  <2> QED
    BY <1>1, <1>2, <2>1 DEF Moves
<1>5. ASSUME NEW c \in Calls, thread' = [thread EXCEPT ![t] = [at |-> p, call |-> c, id |-> i]]
      PROVE Moves(t, p, c, i)
  <2> DEFINE r == [at |-> p, call |-> c, id |-> i]
  <2>1. r \in ThreadStates /\ r.at = p /\ r.call = c /\ r.id = i
    BY DEF ThreadStates
  <2>2. thread' = [thread EXCEPT ![t] = r]
    BY <1>5
  <2> HIDE DEF r
  <2> QED
    BY <1>1, <2>1, <2>2 DEF Moves
<1> QED
  BY <1>3, <1>4, <1>5

LEMMA AnswersThem ==
  ASSUME TypeOK, NEW ids, Answer(ids)
  PROVE  Answers(ids)
<1>1. thread \in [Threads -> ThreadStates]
  BY DEF TypeOK, KernelTypes
<1>2. "run" \in Places /\ 0 \in Nat
  BY DEF Places
<1>3. \A t \in Threads : (\E i \in ids : t \in Owner(i)) <=> (thread[t].at = "wait" /\ thread[t].id \in ids)
  BY DEF Owner
<1>4. thread' = [t \in Threads |-> IF \E i \in ids : t \in Owner(i)
                                   THEN [thread[t] EXCEPT !.at = "run", !.id = 0] ELSE thread[t]]
  BY DEF Answer
<1>5. ASSUME NEW t \in Threads
      PROVE /\ thread'[t] \in ThreadStates
            /\ IF thread[t].at = "wait" /\ thread[t].id \in ids
               THEN thread'[t].at = "run" /\ thread'[t].call = thread[t].call /\ thread'[t].id = 0
               ELSE thread'[t] = thread[t]
  <2> DEFINE m == thread[t]
             b == [m EXCEPT !.at = "run", !.id = 0]
  <2>1. m \in ThreadStates
    BY <1>1
  <2>2. b \in ThreadStates /\ b.at = "run" /\ b.call = m.call /\ b.id = 0
    <3> HIDE DEF m
    <3>1. m.at \in Places /\ m.call \in Calls \cup {"none"} /\ m.id \in Nat
      BY <2>1 DEF ThreadStates
    <3> QED
      BY <1>2, <2>1, <3>1 DEF ThreadStates
  <2>3. thread'[t] = IF thread[t].at = "wait" /\ thread[t].id \in ids THEN b ELSE thread[t]
    BY <1>3, <1>4, Zenon
  <2> HIDE DEF b
  <2> QED
    BY <2>1, <2>2, <2>3
<1>6. thread' \in [Threads -> ThreadStates]
  <2>1. thread' = [t \in Threads |-> thread'[t]]
    BY <1>4, Zenon
  <2> QED
    BY <1>5, <2>1, Zenon
<1> QED
  BY <1>5, <1>6 DEF Answers

(***************************************************************************)
(* Types.                                                                  *)
(***************************************************************************)
LEMMA PlacesAre ==
  /\ "boot" \in Places /\ "run" \in Places /\ "wait" \in Places /\ "handler" \in Places /\ "dead" \in Places
  /\ Main \in Threads /\ Capacity \in Nat \ {0} /\ Interval \in Nat \ {0} /\ MaxCalls \in Nat /\ MaxSignals \in Nat
BY ConstantsAssumption DEF Places

LEMMA TypeInit == Init => TypeOK
<1> SUFFICES ASSUME Init PROVE TypeOK
  OBVIOUS
<1>1. StartTypes
  BY DEF Init, StartTypes
<1>2. KernelTypes
  <2>1. thread = [t \in Threads |-> [at |-> IF t = Main THEN "boot" ELSE "unborn", call |-> "none", id |-> 0]]
    BY DEF Init
  <2>2. thread \in [Threads -> ThreadStates]
    BY <2>1 DEF ThreadStates, Places
  <2>3. \A t \in Threads : thread[t].at \notin {"wait", "handler"}
    BY <2>1
  <2>4. queue \subseteq 1..(nextId - 1) /\ nextId \in Nat \ {0}
    BY DEF Init
  <2> QED
    BY <2>2, <2>3, <2>4 DEF KernelTypes
<1>3. LoopTypes
  <2>1. /\ loop = "off" /\ ready = {} /\ got = None /\ timer = Off
        /\ unwritten = FALSE /\ sinceFlush = Interval
    BY DEF Init
  <2>2. timer \in Nat \cup {Off} /\ sinceFlush \in 0..Interval
    BY <2>1, PlacesAre
  <2> QED
    BY <2>1, <2>2, Zenon DEF LoopTypes
<1>4. ParkedTypes
  BY FS_EmptySet, PlacesAre DEF Init, ParkedTypes
<1>5. StoryTypes
  BY PlacesAre DEF Init, StoryTypes
<1> QED
  BY <1>1, <1>2, <1>3, <1>4, <1>5 DEF TypeOK

\* What the actions of the application's threads do to them.
LEMMA ThreadSteps ==
  ASSUME TypeOK, NEW t \in Threads
  PROVE  /\ Born(t) => Moves(t, "run", thread[t].call, thread[t].id)
         /\ \A c \in Calls : Notify(t, c) => Moves(t, "wait", c, nextId)
         /\ Signal(t) => Moves(t, "handler", thread[t].call, 0)
         /\ Restart(t) => \/ Notify(t, thread[t].call) /\ Moves(t, "wait", thread[t].call, nextId)
                          \/ Moves(t, "run", thread[t].call, thread[t].id) /\ UNCHANGED <<queue, nextId>>
         /\ Interrupted(t) => Moves(t, "run", thread[t].call, thread[t].id)
         /\ Refused(t) => Moves(t, "run", thread[t].call, 0)
         /\ Die(t) => Moves(t, "dead", thread[t].call, 0)
<1>1. nextId \in Nat /\ 0 \in Nat /\ thread[t].id \in Nat
  BY DEF TypeOK, KernelTypes, ThreadStates
<1>2. \A c \in Calls : Notify(t, c) => Moves(t, "wait", c, nextId)
  BY <1>1, PlacesAre, ThreadChanges DEF Notify
<1>3. Restart(t) => thread[t].call \in Calls
  BY DEF Restart, TypeOK, KernelTypes
<1>4. Restart(t) => \/ Notify(t, thread[t].call)
                    \/ thread' = [thread EXCEPT ![t].at = "run"] /\ UNCHANGED <<queue, nextId>>
  BY DEF Restart
<1>5. Born(t) => Moves(t, "run", thread[t].call, thread[t].id)
  BY <1>1, PlacesAre, ThreadChanges DEF Born
<1>6. Signal(t) => Moves(t, "handler", thread[t].call, 0)
  BY <1>1, PlacesAre, ThreadChanges DEF Signal
<1>7. Interrupted(t) => Moves(t, "run", thread[t].call, thread[t].id)
  BY <1>1, PlacesAre, ThreadChanges DEF Interrupted
<1>8. Refused(t) => Moves(t, "run", thread[t].call, 0)
  BY <1>1, PlacesAre, ThreadChanges DEF Refused
<1>9. Die(t) => Moves(t, "dead", thread[t].call, 0)
  BY <1>1, PlacesAre, ThreadChanges DEF Die
<1>10. thread' = [thread EXCEPT ![t].at = "run"] => Moves(t, "run", thread[t].call, thread[t].id)
  BY <1>1, PlacesAre, ThreadChanges
<1> QED
  BY <1>2, <1>3, <1>4, <1>5, <1>6, <1>7, <1>8, <1>9, <1>10, Zenon

\* The end of the supervisor as PID 1 takes every thread with it.
AllDie ==
  /\ thread' \in [Threads -> ThreadStates]
  /\ \A t \in Threads : thread'[t].at = "dead" /\ thread'[t].call = thread[t].call /\ thread'[t].id = thread[t].id

LEMMA ExitSteps ==
  ASSUME TypeOK, Exit
  PROVE  (setting.pid1 /\ AllDie) \/ (~setting.pid1 /\ UNCHANGED thread)
<1>1. CASE ~setting.pid1
  BY <1>1 DEF Exit
<1>2. CASE setting.pid1
  <2>1. thread \in [Threads -> ThreadStates]
    BY DEF TypeOK, KernelTypes
  <2>2. thread' = [t \in Threads |-> [thread[t] EXCEPT !.at = "dead"]]
    BY <1>2 DEF Exit
  <2>3. ASSUME NEW t \in Threads
        PROVE /\ thread'[t] \in ThreadStates
              /\ thread'[t].at = "dead" /\ thread'[t].call = thread[t].call /\ thread'[t].id = thread[t].id
    <3> DEFINE m == thread[t]
               a == [m EXCEPT !.at = "dead"]
    <3>1. m \in ThreadStates /\ thread'[t] = a
      BY <2>1, <2>2
    <3>2. a \in ThreadStates /\ a.at = "dead" /\ a.call = m.call /\ a.id = m.id
      <4> HIDE DEF m
      <4>1. m.at \in Places /\ m.call \in Calls \cup {"none"} /\ m.id \in Nat
        BY <3>1 DEF ThreadStates
      <4> QED
        BY <3>1, <4>1, PlacesAre DEF ThreadStates
    <3> HIDE DEF a
    <3> QED
      BY <3>1, <3>2
  <2>4. thread' = [t \in Threads |-> thread'[t]]
    BY <2>2, Zenon
  <2>5. thread' \in [Threads -> ThreadStates]
    BY <2>3, <2>4, Zenon
  <2> QED
    BY <1>2, <2>3, <2>5 DEF AllDie
<1> QED
  BY <1>1, <1>2

\* What the start does to the application's own thread.
LEMMA StartSteps ==
  ASSUME TypeOK
  PROVE  /\ ChildInstalls => Moves(Main, IF child' = "ended" THEN "dead" ELSE thread[Main].at,
                                   thread[Main].call, thread[Main].id)
         /\ GiveUp => Moves(Main, "dead", thread[Main].call, thread[Main].id)
         /\ ChildExecs => Moves(Main, "run", thread[Main].call, thread[Main].id)
<1>1. thread[Main].at \in Places
  BY PlacesAre DEF TypeOK, KernelTypes, ThreadStates
<1> DEFINE p == IF child' = "ended" THEN "dead" ELSE thread[Main].at
<1>2. p \in Places
  BY <1>1, PlacesAre
<1>3. ChildInstalls => thread' = [thread EXCEPT ![Main].at = p]
  BY DEF ChildInstalls
<1> HIDE DEF p
<1>4. ChildInstalls => Moves(Main, p, thread[Main].call, thread[Main].id)
  BY <1>2, <1>3, ThreadChanges, PlacesAre
<1>5. GiveUp => Moves(Main, "dead", thread[Main].call, thread[Main].id)
  BY ThreadChanges, PlacesAre DEF GiveUp
<1>6. ChildExecs => Moves(Main, "run", thread[Main].call, thread[Main].id)
  BY ThreadChanges, PlacesAre DEF ChildExecs
<1> QED
  BY <1>4, <1>5, <1>6 DEF p

\* The actions by what they are about.
Starting == ChildInstalls \/ ParentReceives \/ ParentWritesStatus \/ ParentGoes \/ ParentStartsLoop \/ ChildExecs
Living(t) == Born(t) \/ Signal(t) \/ Restart(t) \/ Interrupted(t) \/ Refused(t) \/ Die(t)
Answering(t) == Recognise(t) \/ \E v \in Verdicts : Decide(t, v)
Looping == Poll \/ ReadSignals \/ ReadTimer \/ CloseListener \/ Receive \/ Check \/ Park \/ ParkFull \/ Reply \/ OnTime
LEMMA Kinds ==
  ASSUME Next
  PROVE  \/ Starting \/ Looping \/ Tick
         \/ \E t \in Threads : Living(t) \/ Answering(t) \/ \E c \in Calls : Call(t, c)
BY DEF Next, Supervise, Apply, Starting, Living, Answering, Looping

LEMMA StartTyped == ASSUME TypeOK, Next PROVE StartTypes'
<1> USE DEF TypeOK, StartTypes
<1>1. CASE Starting
  <2>1. CASE ChildInstalls
    BY <2>1 DEF ChildInstalls
  <2>2. CASE ParentReceives
    BY <2>2 DEF ParentReceives, GiveUp
  <2>3. CASE ParentWritesStatus \/ ParentGoes
    BY <2>3 DEF ParentWritesStatus, ParentGoes
  <2>4. CASE ParentStartsLoop
    BY <2>4 DEF ParentStartsLoop, GiveUp
  <2>5. CASE ChildExecs
    BY <2>5 DEF ChildExecs
  <2> QED
    BY <1>1, <2>1, <2>2, <2>3, <2>4, <2>5 DEF Starting
<1>2. CASE Looping
  <2>1. UNCHANGED LoopIs
    BY <1>2 DEF Looping, Poll, ReadSignals, ReadTimer, CloseListener, Receive, Check, Park, ParkFull, Reply, OnTime
  <2>2. parent' \in {parent, "copy", "exited"}
    BY <1>2 DEF Looping, Poll, ReadSignals, ReadTimer, CloseListener, Receive, Check, Park, ParkFull, Reply, OnTime, Exit
  <2> QED
    BY <2>1, <2>2 DEF LoopIs
<1>3. CASE Tick
  BY <1>3 DEF Tick, start
<1>4. ASSUME NEW t \in Threads, Living(t) PROVE StartTypes'
  <2>1. CASE Born(t) \/ Signal(t) \/ Restart(t)
    BY <2>1 DEF Born, Signal, Restart, start
  <2>2. CASE Interrupted(t) \/ Refused(t) \/ Die(t)
    BY <2>2 DEF Interrupted, Refused, Die, start
  <2> QED
    BY <1>4, <2>1, <2>2 DEF Living
<1>5. ASSUME NEW t \in Threads, Answering(t) PROVE StartTypes'
  <2>1. UNCHANGED <<LoopIs, parent>>
    <3>1. CASE Recognise(t)
      BY <3>1, Zenon DEF Recognise
    <3>2. CASE \E v \in Verdicts : Decide(t, v)
      BY <3>2, Zenon DEF Decide
    <3> QED
      BY <1>5, <3>1, <3>2 DEF Answering
  <2> QED
    BY <2>1 DEF LoopIs
<1>6. ASSUME NEW t \in Threads, NEW c \in Calls, Call(t, c) PROVE StartTypes'
  BY <1>6 DEF Call, start
<1> QED
  BY <1>1, <1>2, <1>3, <1>4, <1>5, <1>6, Kinds

\* Threads stay well typed where they move.
LEMMA MovesTyped ==
  ASSUME KernelTypes, NEW t \in Threads, NEW p, NEW c, NEW i, Moves(t, p, c, i),
         p \in {"wait", "handler"} => c \in Calls
  PROVE  /\ thread' \in [Threads -> ThreadStates]
         /\ \A u \in Threads : thread'[u].at \in {"wait", "handler"} => thread'[u].call \in Calls
BY DEF KernelTypes, Moves

LEMMA AnswersTyped ==
  ASSUME KernelTypes, NEW ids, Answers(ids)
  PROVE  /\ thread' \in [Threads -> ThreadStates]
         /\ \A u \in Threads : thread'[u].at \in {"wait", "handler"} => thread'[u].call \in Calls
BY DEF KernelTypes, Answers

LEMMA WithdrawTyped ==
  ASSUME KernelTypes, NEW t \in Threads, Withdraw(t), UNCHANGED nextId
  PROVE  nextId' \in Nat \ {0} /\ queue' \subseteq 1..(nextId' - 1)
BY DEF KernelTypes, Withdraw

LEMMA NotifyTyped ==
  ASSUME KernelTypes, NEW t \in Threads, NEW c, Notify(t, c)
  PROVE  nextId' \in Nat \ {0} /\ queue' \subseteq 1..(nextId' - 1)
<1>1. nextId' = nextId + 1 /\ queue' = queue \cup {nextId} /\ nextId \in Nat \ {0} /\ queue \subseteq 1..(nextId - 1)
  BY DEF KernelTypes, Notify
<1> QED
  BY <1>1

LEMMA KernelTyped == ASSUME TypeOK, Next PROVE KernelTypes'
<1>0. KernelTypes
  BY DEF TypeOK
<1> DEFINE ThreadsOk == /\ thread \in [Threads -> ThreadStates]
                        /\ \A u \in Threads : thread[u].at \in {"wait", "handler"} => thread[u].call \in Calls
           IdsOk == nextId \in Nat \ {0} /\ queue \subseteq 1..(nextId - 1)
<1>a. ThreadsOk' /\ IdsOk' => KernelTypes'
  BY DEF KernelTypes
<1>b. UNCHANGED thread => ThreadsOk'
  BY <1>0 DEF KernelTypes
<1>c. UNCHANGED <<queue, nextId>> => IdsOk'
  BY <1>0 DEF KernelTypes
<1>d. UNCHANGED kernel => ThreadsOk' /\ IdsOk'
  BY <1>b, <1>c DEF kernel
<1>e. thread[Main].at \in {"wait", "handler"} => thread[Main].call \in Calls
  BY <1>0, PlacesAre DEF KernelTypes
<1>1. CASE Starting
  <2>1. IdsOk'
    BY <1>1, <1>c, <1>d DEF Starting, ChildInstalls, ParentReceives, ParentWritesStatus, ParentGoes,
      ParentStartsLoop, ChildExecs
  <2>2. CASE ChildInstalls
    <3> DEFINE p == IF child' = "ended" THEN "dead" ELSE thread[Main].at
    <3>1. Moves(Main, p, thread[Main].call, thread[Main].id)
      BY <2>2, StartSteps
    <3>2. p \in {"wait", "handler"} => thread[Main].call \in Calls
      BY <1>e
    <3> HIDE DEF p
    <3>3. ThreadsOk'
      BY <1>0, <3>1, <3>2, MovesTyped, PlacesAre
    <3> QED
      BY <1>a, <2>1, <3>3
  <2>3. CASE GiveUp \/ ChildExecs
    <3>1. PICK p \in {"dead", "run"} : Moves(Main, p, thread[Main].call, thread[Main].id)
      BY <2>3, StartSteps
    <3>2. ThreadsOk'
      BY <1>0, <3>1, MovesTyped, PlacesAre
    <3> QED
      BY <1>a, <2>1, <3>2
  <2>4. CASE ~ChildInstalls /\ ~GiveUp /\ ~ChildExecs
    <3>1. UNCHANGED thread
      BY <1>1, <2>4 DEF Starting, ParentReceives, ParentWritesStatus, ParentGoes, ParentStartsLoop, kernel
    <3> QED
      BY <1>a, <1>b, <2>1, <3>1
  <2> QED
    BY <2>2, <2>3, <2>4
<1>2. CASE Looping
  <2>1. IdsOk'
    BY <1>2, <1>c, <1>d
    DEF Looping, Poll, ReadSignals, ReadTimer, CloseListener, Receive, Check, Park, ParkFull, Reply, OnTime
  <2>2. CASE Exit
    BY <1>0, <1>a, <1>b, <2>1, <2>2, ExitSteps DEF AllDie
  <2>3. CASE \E ids : Answer(ids)
    BY <1>0, <1>a, <2>1, <2>3, AnswersThem, AnswersTyped
  <2>4. CASE ~Exit /\ ~\E ids : Answer(ids)
    <3>1. UNCHANGED thread
      BY <1>2, <2>4 DEF Looping, Poll, ReadSignals, ReadTimer, CloseListener, Receive, Check, Park, ParkFull,
        Reply, OnTime, kernel
    <3> QED
      BY <1>a, <1>b, <2>1, <3>1
  <2> QED
    BY <2>2, <2>3, <2>4
<1>3. CASE Tick
  BY <1>3, <1>a, <1>d DEF Tick
<1>4. ASSUME NEW t \in Threads, Living(t) PROVE KernelTypes'
  <2>1. IdsOk'
    <3>1. CASE Restart(t)
      BY <1>0, <1>c, <3>1, NotifyTyped DEF Restart
    <3>2. CASE Signal(t) \/ Refused(t) \/ Die(t)
      BY <1>0, <3>2, WithdrawTyped DEF Signal, Refused, Die
    <3>3. CASE Born(t) \/ Interrupted(t)
      BY <1>c, <3>3 DEF Born, Interrupted
    <3> QED
      BY <1>4, <3>1, <3>2, <3>3 DEF Living
  <2>2. Restart(t) => thread[t].call \in Calls
    BY <1>0 DEF Restart, KernelTypes
  <2>3. Signal(t) => thread[t].call \in Calls
    BY <1>0 DEF Signal, KernelTypes
  <2>4. PICK p, i : Moves(t, p, thread[t].call, i) /\ (p \in {"wait", "handler"} => thread[t].call \in Calls)
    BY <1>4, <2>2, <2>3, ThreadSteps DEF Living
  <2>5. ThreadsOk'
    BY <1>0, <2>4, MovesTyped
  <2> QED
    BY <1>a, <2>1, <2>5
<1>5. ASSUME NEW t \in Threads, Answering(t) PROVE KernelTypes'
  <2>1. queue' \subseteq queue /\ UNCHANGED nextId /\ UNCHANGED thread
    BY <1>5 DEF Answering, Recognise, Decide
  <2>2. IdsOk'
    BY <1>0, <2>1 DEF KernelTypes
  <2> QED
    BY <1>a, <1>b, <2>1, <2>2
<1>6. ASSUME NEW t \in Threads, NEW c \in Calls, Call(t, c) PROVE KernelTypes'
  <2>1. Notify(t, c) /\ Moves(t, "wait", c, nextId)
    BY <1>6, ThreadSteps DEF Call
  <2> QED
    BY <1>0, <1>a, <2>1, NotifyTyped, MovesTyped
<1> QED
  BY <1>1, <1>2, <1>3, <1>4, <1>5, <1>6, Kinds

(***************************************************************************)
(* Entries of the delay queue, and the timer set from them.                *)
(***************************************************************************)
\* An entry one tick later, and an entry taken over by a restarted call.
Aged(e) == [e EXCEPT !.left = Max({0, @ - 1})]
Taken(e, t) == IF Same(e, t) THEN [e EXCEPT !.id = thread[t].id] ELSE e

LEMMA EntryFields ==
  ASSUME NEW e \in Entries
  PROVE  e.id \in Nat /\ e.tid \in Threads /\ e.call \in Calls /\ e.left \in Nat /\ e.then \in {"pass", "fail", "return"}
BY DEF Entries

LEMMA AgedFields ==
  ASSUME NEW e \in Entries
  PROVE  /\ Aged(e) \in Entries
         /\ Aged(e).id = e.id /\ Aged(e).tid = e.tid /\ Aged(e).call = e.call
         /\ Aged(e).left = IF e.left > 0 THEN e.left - 1 ELSE 0
<1>1. e.id \in Nat /\ e.tid \in Threads /\ e.call \in Calls /\ e.left \in Nat /\ e.then \in {"pass", "fail", "return"}
  BY EntryFields
<1> DEFINE n == Max({0, e.left - 1})
<1>2. n = IF e.left > 0 THEN e.left - 1 ELSE 0
  BY <1>1, LargerOfTwo
<1>3. n \in Nat
  BY <1>1, <1>2
<1>4. Aged(e) = [e EXCEPT !.left = n]
  BY DEF Aged
<1> HIDE DEF n
<1>5. [e EXCEPT !.left = n] \in Entries
  BY <1>1, <1>3 DEF Entries
<1>6. LET a == [e EXCEPT !.left = n] IN a.id = e.id /\ a.tid = e.tid /\ a.call = e.call /\ a.left = n
  BY <1>1 DEF Entries
<1> QED
  BY <1>2, <1>4, <1>5, <1>6

LEMMA TakenFields ==
  ASSUME NEW e \in Entries, NEW t \in Threads, thread[t].id \in Nat
  PROVE  /\ Taken(e, t) \in Entries
         /\ Taken(e, t).tid = e.tid /\ Taken(e, t).call = e.call /\ Taken(e, t).left = e.left
         /\ Taken(e, t).id = IF Same(e, t) THEN thread[t].id ELSE e.id
<1>1. e.id \in Nat /\ e.tid \in Threads /\ e.call \in Calls /\ e.left \in Nat /\ e.then \in {"pass", "fail", "return"}
  BY EntryFields
<1> DEFINE n == thread[t].id
           a == [e EXCEPT !.id = n]
<1>2. n \in Nat
  OBVIOUS
<1>3. a \in Entries /\ a.tid = e.tid /\ a.call = e.call /\ a.left = e.left /\ a.id = n
  <2> HIDE DEF n
  <2> QED
    BY <1>1, <1>2 DEF Entries
<1>4. Taken(e, t) = IF Same(e, t) THEN a ELSE e
  BY DEF Taken
<1> HIDE DEF a
<1> QED
  BY <1>3, <1>4

LEMMA NextDueBounds ==
  ASSUME NEW waiting \in BOOLEAN, NEW since \in 0..Interval, NEW left, left \subseteq Entries
  PROVE  /\ NextDue(waiting, since, left) \in Nat \cup {Off}
         /\ \A e \in left : NextDue(waiting, since, left) \in 0..Max({1, e.left})
         /\ waiting => NextDue(waiting, since, left) \in 0..Max({1, Interval - since})
<1> DEFINE dues == {e.left : e \in left} \cup (IF waiting THEN {Interval - since} ELSE {})
           n == NextDue(waiting, since, left)
<1>1. Interval \in Nat /\ since \in Nat /\ Interval - since \in Nat
  BY PlacesAre
<1>2. \A e \in left : e.left \in Nat /\ e.left \in dues
  BY EntryFields
<1>3. dues \subseteq Nat
  BY <1>1, <1>2
<1>4. waiting => Interval - since \in dues
  OBVIOUS
<1>5. n = IF dues = {} THEN Off ELSE Max({1, Min(dues)})
  BY DEF NextDue
<1> HIDE DEF dues, n
<1>6. CASE dues = {}
  BY <1>2, <1>4, <1>5, <1>6 DEF n
<1>7. CASE dues # {}
  <2>1. Min(dues) \in Nat /\ \A d \in dues : Min(dues) <= d
    BY <1>3, <1>7, LowestIsIn
  <2>2. n = IF 1 >= Min(dues) THEN 1 ELSE Min(dues)
    BY <1>5, <1>7, <2>1, LargerOfTwo
  <2>3. \A d \in dues : d \in Nat /\ n \in 0..Max({1, d})
    <3> SUFFICES ASSUME NEW d \in dues PROVE d \in Nat /\ n \in 0..Max({1, d})
      OBVIOUS
    <3>1. d \in Nat /\ Min(dues) <= d
      BY <1>3, <2>1
    <3>2. Max({1, d}) = IF 1 >= d THEN 1 ELSE d
      BY <3>1, LargerOfTwo
    <3> QED
      BY <2>1, <2>2, <3>1, <3>2
  <2>4. n \in Nat
    BY <2>1, <2>2
  <2> QED
    BY <1>2, <1>4, <2>3, <2>4 DEF n
<1> QED
  BY <1>6, <1>7

LEMMA TickTyped ==
  ASSUME TypeOK, Tick
  PROVE  /\ timer' \in Nat \cup {Off} /\ sinceFlush' \in 0..Interval
         /\ timer' = IF timer > 0 THEN timer - 1 ELSE timer
         /\ sinceFlush' = IF sinceFlush < Interval THEN sinceFlush + 1 ELSE Interval
         /\ \A t \in Threads : owed'[t] = IF owed[t] > 0 THEN owed[t] - 1 ELSE 0
         /\ owed' \in [Threads -> Nat]
         /\ parked' = {Aged(e) : e \in parked}
<1>1. timer \in Nat \cup {Off} /\ sinceFlush \in 0..Interval /\ Interval \in Nat \ {0}
  BY PlacesAre DEF TypeOK, LoopTypes
<1>2. timer' = (IF timer > 0 THEN timer - 1 ELSE timer)
  BY DEF Tick
<1>3. timer' \in Nat \cup {Off}
  BY <1>1, <1>2 DEF Off
<1>4. sinceFlush' = Min({Interval, sinceFlush + 1})
  BY DEF Tick
<1>5. sinceFlush' = IF sinceFlush < Interval THEN sinceFlush + 1 ELSE Interval
  BY <1>1, <1>4, SmallerOfTwo
<1>6. owed \in [Threads -> Nat] /\ owed' = [t \in Threads |-> Max({0, owed[t] - 1})]
  BY DEF Tick, TypeOK, StoryTypes
<1>7. ASSUME NEW t \in Threads PROVE owed'[t] = (IF owed[t] > 0 THEN owed[t] - 1 ELSE 0) /\ owed'[t] \in Nat
  <2>1. owed[t] \in Nat /\ owed'[t] = Max({0, owed[t] - 1})
    BY <1>6
  <2>2. Max({0, owed[t] - 1}) = IF 0 >= owed[t] - 1 THEN 0 ELSE owed[t] - 1
    BY <2>1, LargerOfTwo
  <2> QED
    BY <2>1, <2>2
<1>8. owed' \in [Threads -> Nat]
  <2>1. owed' = [t \in Threads |-> owed'[t]]
    BY <1>6, Zenon
  <2> QED
    BY <1>7, <2>1, Zenon
<1>9. parked' = {Aged(e) : e \in parked}
  BY DEF Tick, Aged
<1> QED
  BY <1>1, <1>2, <1>3, <1>5, <1>7, <1>8, <1>9

\* A notification in hand.
LEMMA DecideTyped ==
  ASSUME TypeOK, NEW t \in Threads, NEW v \in Verdicts, Decide(t, v)
  PROVE  /\ got' \in Received /\ got' # None
         /\ got'.id = thread[t].id /\ got'.tid = t /\ got'.call = thread[t].call /\ got'.verdict = v
<1>1. thread[t].id \in Nat /\ thread[t].at = "wait" /\ thread[t].call \in Calls
  BY DEF Decide, Owner, TypeOK, KernelTypes, ThreadStates
<1>2. got' = [id |-> thread[t].id, tid |-> t, call |-> thread[t].call, verdict |-> v]
  BY DEF Decide
<1> QED
  BY <1>1, <1>2 DEF Received, None

LEMMA LoopTyped == ASSUME TypeOK, Next PROVE LoopTypes'
<1>0. /\ loop \in {"off", "poll", "signals", "timer", "receive", "hungup", "closed", "check", "park", "reply", "ontime"}
      /\ ready \subseteq {"sigchld", "notify", "hup", "timer"} /\ got \in {None} \cup Received
      /\ timer \in Nat \cup {Off} /\ sinceFlush \in 0..Interval /\ unwritten \in BOOLEAN
  BY DEF TypeOK, LoopTypes
<1> DEFINE Gots == {None} \cup Received
<1>a. UNCHANGED <<loop, ready, got, timer, unwritten, sinceFlush>> => LoopTypes'
  BY <1>0 DEF LoopTypes
<1>1. CASE Starting
  <2>1. CASE ParentStartsLoop
    BY <1>0, <2>1 DEF ParentStartsLoop, LoopTypes
  <2>2. CASE ~ParentStartsLoop
    BY <1>1, <1>a, <2>2 DEF Starting, ChildInstalls, ParentReceives, ParentWritesStatus, ParentGoes, ChildExecs, server
  <2> QED
    BY <2>1, <2>2
<1>2. CASE Looping
  <2>1. loop' \in {"off", "poll", "signals", "timer", "receive", "hungup", "closed", "check", "park", "reply", "ontime"}
    BY <1>0, <1>2 DEF Looping, Poll, ReadSignals, ReadTimer, CloseListener, Receive, Check, Park, ParkFull, Reply,
      OnTime, Exit
  <2>2. ready' \subseteq {"sigchld", "notify", "hup", "timer"}
    BY <1>0, <1>2 DEF Looping, Poll, ReadSignals, ReadTimer, CloseListener, Receive, Check, Park, ParkFull, Reply,
      OnTime, Pollable
  <2>3. got' = got \/ got' = None
    BY <1>2 DEF Looping, Poll, ReadSignals, ReadTimer, CloseListener, Receive, Check, Park, ParkFull, Reply, OnTime
  <2>4. CASE OnTime
    <3>1. /\ unwritten' = (unwritten /\ ~(unwritten /\ sinceFlush >= Interval))
          /\ sinceFlush' = IF unwritten /\ sinceFlush >= Interval THEN 0 ELSE sinceFlush
          /\ timer' = NextDue(unwritten', sinceFlush', parked') /\ parked' \subseteq parked
      BY <2>4 DEF OnTime
    <3>2. unwritten' \in BOOLEAN
      BY <3>1
    <3>3. sinceFlush' \in 0..Interval
      BY <1>0, <3>1, PlacesAre
    <3>4. parked' \subseteq Entries
      BY <3>1 DEF TypeOK, ParkedTypes
    <3>5. timer' \in Nat \cup {Off}
      BY <3>1, <3>2, <3>3, <3>4, NextDueBounds
    <3> QED
      BY <1>0, <2>1, <2>2, <2>3, <3>2, <3>3, <3>5, Zenon DEF LoopTypes
  <2>5. CASE ~OnTime
    <3>1. timer' \in {timer, Off} /\ sinceFlush' = sinceFlush /\ unwritten' \in {unwritten, FALSE}
      BY <1>2, <2>5 DEF Looping, Poll, ReadSignals, ReadTimer, CloseListener, Receive, Check, Park, ParkFull, Reply
    <3>2. timer' \in Nat \cup {Off} /\ sinceFlush' \in 0..Interval /\ unwritten' \in BOOLEAN
      BY <1>0, <3>1
    <3> QED
      BY <1>0, <2>1, <2>2, <2>3, <3>2, Zenon DEF LoopTypes
  <2> QED
    BY <2>4, <2>5
<1>3. CASE Tick
  <2>1. UNCHANGED <<loop, ready, got, unwritten>>
    BY <1>3 DEF Tick
  <2> QED
    BY <1>0, <1>3, <2>1, TickTyped DEF LoopTypes
<1>4. ASSUME NEW t \in Threads, Living(t) PROVE LoopTypes'
  BY <1>4, <1>a DEF Living, Born, Signal, Restart, Interrupted, Refused, Die, server
<1>5. ASSUME NEW t \in Threads, Answering(t) PROVE LoopTypes'
  <2>1. CASE Recognise(t)
    <3>1. loop' = "ontime" /\ UNCHANGED <<ready, got, timer, unwritten, sinceFlush>>
      BY <2>1 DEF Recognise
    <3> QED
      BY <1>0, <3>1 DEF LoopTypes
  <2>2. ASSUME NEW v \in Verdicts, Decide(t, v) PROVE LoopTypes'
    <3>1. loop' \in {"reply", "check"} /\ UNCHANGED <<ready, timer, sinceFlush>> /\ unwritten' \in {unwritten, TRUE}
      BY <2>2 DEF Decide
    <3>2. got' \in Received
      BY <2>2, DecideTyped
    <3> QED
      BY <1>0, <3>1, <3>2 DEF LoopTypes
  <2> QED
    BY <1>5, <2>1, <2>2 DEF Answering
<1>6. ASSUME NEW t \in Threads, NEW c \in Calls, Call(t, c) PROVE LoopTypes'
  BY <1>6, <1>a DEF Call, server
<1> QED
  BY <1>1, <1>2, <1>3, <1>4, <1>5, <1>6, Kinds

LEMMA HandKept == ASSUME BaseInv, Next PROVE HandInv'
<1> USE DEF BaseInv, HandInv
<1>0. /\ loop \in {"off", "poll", "signals", "timer", "receive", "hungup", "closed", "check", "park", "reply", "ontime"}
      /\ parent \in {"receive", "status", "go", "fds", "serve", "copy", "failed", "exited"}
  BY DEF TypeOK, LoopTypes, StartTypes
<1>a. UNCHANGED <<parent, loop, got>> => HandInv'
  OBVIOUS
<1>1. CASE Starting
  <2>1. CASE ChildInstalls \/ ChildExecs
    BY <1>a, <2>1 DEF ChildInstalls, ChildExecs, server
  <2>2. CASE ParentReceives \/ ParentWritesStatus \/ ParentGoes \/ ParentStartsLoop
    BY <2>2 DEF ParentReceives, ParentWritesStatus, ParentGoes, ParentStartsLoop, GiveUp, server
  <2> QED
    BY <1>1, <2>1, <2>2 DEF Starting
<1>2. CASE Looping
  <2>1. CASE Poll \/ ReadSignals \/ ReadTimer \/ CloseListener
    BY <1>0, <2>1 DEF Poll, ReadSignals, ReadTimer, CloseListener, Exit
  <2>2. CASE Receive \/ Check \/ Park \/ ParkFull \/ Reply \/ OnTime
    BY <1>0, <2>2 DEF Receive, Check, Park, ParkFull, Reply, OnTime
  <2> QED
    BY <1>2, <2>1, <2>2 DEF Looping
<1>3. CASE Tick
  BY <1>3, <1>a DEF Tick, start
<1>4. ASSUME NEW t \in Threads, Living(t) PROVE HandInv'
  BY <1>4, <1>a DEF Living, Born, Signal, Restart, Interrupted, Refused, Die, server, start
<1>5. ASSUME NEW t \in Threads, Answering(t) PROVE HandInv'
  <2>1. CASE Recognise(t)
    BY <1>0, <2>1 DEF Recognise
  <2>2. ASSUME NEW v \in Verdicts, Decide(t, v) PROVE HandInv'
    <3>1. got' # None
      BY <2>2, DecideTyped
    <3>2. loop = "receive" /\ loop' \in {"reply", "check"} /\ parent' = parent
      BY <2>2 DEF Decide
    <3> QED
      BY <3>1, <3>2
  <2> QED
    BY <1>5, <2>1, <2>2 DEF Answering
<1>6. ASSUME NEW t \in Threads, NEW c \in Calls, Call(t, c) PROVE HandInv'
  BY <1>6, <1>a DEF Call, server, start
<1> QED
  BY <1>1, <1>2, <1>3, <1>4, <1>5, <1>6, Kinds

\* The entry parked for the notification in hand.
LEMMA EntryParked ==
  ASSUME BaseInv, Park
  PROVE  /\ got # None /\ got \in Received /\ Entry \in Entries
         /\ got.id \in Nat /\ got.tid \in Threads /\ got.call \in Calls /\ got.verdict.delay \in Nat
         /\ Entry.id = got.id /\ Entry.tid = got.tid /\ Entry.call = got.call /\ Entry.left = got.verdict.delay
<1>1. got # None /\ got \in Received
  BY DEF Park, BaseInv, HandInv, TypeOK, LoopTypes
<1>2. got.id \in Nat /\ got.tid \in Threads /\ got.call \in Calls /\ got.verdict \in Verdicts
  BY <1>1 DEF Received
<1>3. got.verdict \in Verdict
  BY <1>2, ConstantsAssumption
<1>4. got.verdict.delay \in Nat /\ got.verdict.then \in {"pass", "fail", "return"}
  BY <1>3 DEF Verdict
<1> QED
  BY <1>1, <1>2, <1>4 DEF Entry, Entries

LEMMA ParkedTyped == ASSUME BaseInv, Next PROVE ParkedTypes'
<1>0. parked \subseteq Entries /\ IsFiniteSet(parked) /\ Cardinality(parked) <= Capacity
  BY DEF BaseInv, TypeOK, ParkedTypes
<1>a. UNCHANGED parked => ParkedTypes'
  BY <1>0 DEF ParkedTypes
<1>1. CASE Starting
  BY <1>1, <1>a DEF Starting, ChildInstalls, ParentReceives, ParentWritesStatus, ParentGoes, ParentStartsLoop,
    ChildExecs, server
<1>2. CASE Looping
  <2>1. CASE Park
    <3>1. parked' = parked \cup {Entry} /\ Cardinality(parked) # Capacity
      BY <2>1 DEF Park, Full
    <3>2. Entry \in Entries
      BY <2>1, EntryParked
    <3>3. /\ IsFiniteSet(parked \cup {Entry})
          /\ Cardinality(parked \cup {Entry}) \in {Cardinality(parked), Cardinality(parked) + 1}
      BY <1>0, FS_AddElement
    <3>4. Cardinality(parked) \in Nat /\ Capacity \in Nat
      BY <1>0, FS_CardinalityType, PlacesAre
    <3>5. Cardinality(parked \cup {Entry}) <= Capacity
      BY <1>0, <3>1, <3>3, <3>4
    <3> QED
      BY <1>0, <3>1, <3>2, <3>3, <3>5 DEF ParkedTypes
  <2>2. CASE OnTime
    <3>1. parked' \subseteq parked
      BY <2>2 DEF OnTime
    <3>2. IsFiniteSet(parked') /\ Cardinality(parked') <= Cardinality(parked)
      BY <1>0, <3>1, FS_Subset
    <3>3. Cardinality(parked) \in Nat /\ Cardinality(parked') \in Nat /\ Capacity \in Nat
      BY <1>0, <3>2, FS_CardinalityType, PlacesAre
    <3> QED
      BY <1>0, <3>1, <3>2, <3>3 DEF ParkedTypes
  <2>3. CASE ~Park /\ ~OnTime
    BY <1>2, <1>a, <2>3 DEF Looping, Poll, ReadSignals, ReadTimer, CloseListener, Receive, Check, ParkFull, Reply
  <2> QED
    BY <2>1, <2>2, <2>3
<1>b. ASSUME NEW f, f \in [parked -> Entries], parked' = {f[e] : e \in parked} PROVE ParkedTypes'
  <2>1. f \in [parked -> {f[e] : e \in parked}]
    BY <1>b
  <2>2. IsFiniteSet({f[e] : e \in parked}) /\ Cardinality({f[e] : e \in parked}) <= Cardinality(parked)
    BY <1>0, <2>1, RewrittenIsNoLonger
  <2>3. /\ Cardinality(parked) \in Nat /\ Cardinality({f[e] : e \in parked}) \in Nat /\ Capacity \in Nat
    BY <1>0, <2>2, FS_CardinalityType, PlacesAre
  <2>4. parked' \subseteq Entries
    BY <1>b
  <2> QED
    BY <1>0, <1>b, <2>2, <2>3, <2>4 DEF ParkedTypes
<1>3. CASE Tick
  <2> DEFINE f == [e \in parked |-> Aged(e)]
  <2>1. \A e \in parked : Aged(e) \in Entries
    BY <1>0, AgedFields
  <2>2. f \in [parked -> Entries]
    BY <2>1
  <2>3. parked' = {Aged(e) : e \in parked}
    BY <1>3, TickTyped DEF BaseInv
  <2>4. parked' = {f[e] : e \in parked}
    BY <2>3
  <2> HIDE DEF f
  <2> QED
    BY <1>b, <2>2, <2>4
<1>4. ASSUME NEW t \in Threads, Living(t) PROVE ParkedTypes'
  BY <1>4, <1>a DEF Living, Born, Signal, Restart, Interrupted, Refused, Die, server
<1>5. ASSUME NEW t \in Threads, Answering(t) PROVE ParkedTypes'
  <2>1. CASE Recognise(t)
    <3> DEFINE f == [e \in parked |-> Taken(e, t)]
    <3>1. thread[t].id \in Nat
      BY DEF BaseInv, TypeOK, KernelTypes, ThreadStates
    <3>2. \A e \in parked : Taken(e, t) \in Entries
      BY <1>0, <3>1, TakenFields
    <3>3. f \in [parked -> Entries]
      BY <3>2
    <3>4. parked' = {Taken(e, t) : e \in parked}
      BY <2>1 DEF Recognise, Rebound, Taken
    <3>5. parked' = {f[e] : e \in parked}
      BY <3>4
    <3> HIDE DEF f
    <3> QED
      BY <1>b, <3>3, <3>5
  <2>2. CASE \E v \in Verdicts : Decide(t, v)
    BY <1>a, <2>2 DEF Decide
  <2> QED
    BY <1>5, <2>1, <2>2 DEF Answering
<1>6. ASSUME NEW t \in Threads, NEW c \in Calls, Call(t, c) PROVE ParkedTypes'
  BY <1>6, <1>a DEF Call, server
<1> QED
  BY <1>1, <1>2, <1>3, <1>4, <1>5, <1>6, Kinds

LEMMA StoryTyped == ASSUME BaseInv, Next PROVE StoryTypes'
<1>0. /\ decided \in [Threads -> Nat] /\ held \in [Threads -> BOOLEAN] /\ owed \in [Threads -> Nat]
      /\ calls \in 0..MaxCalls /\ signals \in 0..MaxSignals /\ MaxCalls \in Nat /\ MaxSignals \in Nat
  BY PlacesAre DEF BaseInv, TypeOK, StoryTypes
<1>a. UNCHANGED <<decided, held, owed, calls, signals>> => StoryTypes'
  BY <1>0 DEF StoryTypes
<1>1. CASE Starting
  BY <1>1, <1>a DEF Starting, ChildInstalls, ParentReceives, ParentWritesStatus, ParentGoes, ParentStartsLoop,
    ChildExecs, story, bounds
<1>2. CASE Looping
  <2>1. CASE Park
    <3>1. /\ held' = [held EXCEPT ![got.tid] = thread[got.tid].id = got.id]
          /\ owed' = [owed EXCEPT ![got.tid] = IF thread[got.tid].id = got.id THEN got.verdict.delay ELSE @]
          /\ UNCHANGED <<decided, calls, signals>>
      BY <2>1 DEF Park, bounds
    <3>2. got.tid \in Threads /\ got.verdict.delay \in Nat
      BY <2>1, EntryParked
    <3>3. held' \in [Threads -> BOOLEAN]
      BY <1>0, <3>1, <3>2
    <3>4. owed' \in [Threads -> Nat]
      BY <1>0, <3>1, <3>2
    <3> QED
      BY <1>0, <3>1, <3>3, <3>4 DEF StoryTypes
  <2>2. CASE ~Park
    BY <1>2, <1>a, <2>2 DEF Looping, Poll, ReadSignals, ReadTimer, CloseListener, Receive, Check, ParkFull, Reply,
      OnTime, story, bounds
  <2> QED
    BY <2>1, <2>2
<1>3. CASE Tick
  BY <1>0, <1>3, TickTyped DEF Tick, BaseInv, StoryTypes, bounds
<1>4. ASSUME NEW t \in Threads, Living(t) PROVE StoryTypes'
  <2>1. CASE Signal(t)
    BY <1>0, <2>1 DEF Signal, StoryTypes, story
  <2>2. CASE Restart(t) \/ Interrupted(t) \/ Refused(t)
    <3>1. owed' = owed \/ owed' = [owed EXCEPT ![t] = 0]
      BY <2>2 DEF Restart, Interrupted, Refused
    <3>2. UNCHANGED <<decided, held, calls, signals>>
      BY <2>2 DEF Restart, Interrupted, Refused, bounds
    <3> QED
      BY <1>0, <3>1, <3>2 DEF StoryTypes
  <2>3. CASE Born(t) \/ Die(t)
    BY <1>a, <2>3 DEF Born, Die, story, bounds
  <2> QED
    BY <1>4, <2>1, <2>2, <2>3 DEF Living
<1>5. ASSUME NEW t \in Threads, Answering(t) PROVE StoryTypes'
  <2>1. CASE Recognise(t)
    BY <1>a, <2>1 DEF Recognise, story, bounds
  <2>2. CASE \E v \in Verdicts : Decide(t, v)
    BY <1>0, <2>2 DEF Decide, StoryTypes, bounds
  <2> QED
    BY <1>5, <2>1, <2>2 DEF Answering
<1>6. ASSUME NEW t \in Threads, NEW c \in Calls, Call(t, c) PROVE StoryTypes'
  BY <1>0, <1>6 DEF Call, StoryTypes
<1> QED
  BY <1>1, <1>2, <1>3, <1>4, <1>5, <1>6, Kinds

LEMMA BaseInit == Init => BaseInv
BY TypeInit DEF Init, BaseInv, HandInv

LEMMA BaseStep == BaseInv /\ [Next]_vars => BaseInv'
<1>1. ASSUME BaseInv, Next PROVE BaseInv'
  BY <1>1, StartTyped, KernelTyped, LoopTyped, ParkedTyped, StoryTyped, HandKept DEF BaseInv, TypeOK
<1>2. ASSUME BaseInv, UNCHANGED vars PROVE BaseInv'
  <2>1. StartTypes' /\ KernelTypes'
    BY <1>2 DEF BaseInv, TypeOK, StartTypes, KernelTypes, vars, start, kernel
  <2>2. LoopTypes' /\ ParkedTypes'
    BY <1>2 DEF BaseInv, TypeOK, LoopTypes, ParkedTypes, vars, server
  <2>3. StoryTypes' /\ HandInv'
    BY <1>2 DEF BaseInv, TypeOK, StoryTypes, HandInv, vars, start, server, story, bounds
  <2> QED
    BY <2>1, <2>2, <2>3 DEF BaseInv, TypeOK
<1> QED
  BY <1>1, <1>2

\* The state keeps its types, and a notification is in hand exactly while it is
\* decided, parked or answered.
LEMMA BaseHolds == Spec => []BaseInv
BY BaseInit, BaseStep, PTL DEF Spec

\* Threads, ids, entries of the delay queue, the notification in hand and the
\* timer keep to their ranges, for every environment and every verdict.
THEOREM TypeCorrect == Spec => []TypeOK
<1>1. BaseInv => TypeOK
  BY DEF BaseInv
<1> QED
  BY <1>1, BaseHolds, PTL

(***************************************************************************)
(* From the fork of the application to the supervisor's last iteration.    *)
(***************************************************************************)
CycleInv == StartInv /\ LifeInv /\ LoopInv

LEMMA PollableMeans ==
  /\ "sigchld" \in Pollable => child = "ended" /\ parent = "serve"
  /\ "hup" \in Pollable => Listening /\ HungUp
BY DEF Pollable

LEMMA CycleInit == Init => CycleInv
<1> SUFFICES ASSUME Init PROVE CycleInv
  OBVIOUS
<1>1. \A t \in Threads : thread[t].at = IF t = Main THEN "boot" ELSE "unborn"
  BY DEF Init
<1>2. LifeInv
  BY <1>1, PlacesAre DEF Init, LifeInv
<1>3. StartInv
  BY DEF Init, StartInv
<1>4. LoopInv
  BY DEF Init, LoopInv
<1> QED
  BY <1>2, <1>3, <1>4 DEF CycleInv

LEMMA StartKept == ASSUME BaseInv, CycleInv, Next PROVE StartInv'
<1>0. StartInv /\ LifeInv /\ LoopInv /\ HandInv /\ StartTypes
  BY DEF CycleInv, BaseInv, TypeOK
<1>1. CASE Starting
  <2>1. CASE ChildInstalls
    BY <1>0, <2>1 DEF ChildInstalls, StartInv, StartTypes
  <2>2. CASE ParentReceives
    BY <1>0, <2>2 DEF ParentReceives, GiveUp, StartInv, StartTypes
  <2>3. CASE ParentWritesStatus \/ ParentGoes
    BY <1>0, <2>3 DEF ParentWritesStatus, ParentGoes, StartInv, StartTypes
  <2>4. CASE ParentStartsLoop
    BY <1>0, <2>4 DEF ParentStartsLoop, GiveUp, StartInv, StartTypes
  <2>5. CASE ChildExecs
    BY <1>0, <2>5 DEF ChildExecs, StartInv, StartTypes
  <2> QED
    BY <1>1, <2>1, <2>2, <2>3, <2>4, <2>5 DEF Starting
<1>2. CASE Looping
  <2>1. UNCHANGED LoopIs
    BY <1>2 DEF Looping, Poll, ReadSignals, ReadTimer, CloseListener, Receive, Check, Park, ParkFull, Reply, OnTime
  <2>2. loop # "off"
    BY <1>2 DEF Looping, Poll, ReadSignals, ReadTimer, CloseListener, Receive, Check, Park, ParkFull, Reply, OnTime
  <2>3. parent \in {"serve", "copy", "exited"}
    BY <1>0, <2>2 DEF HandInv, StartTypes
  <2>4. parent' = parent \/ (parent' = "copy" /\ "sigchld" \in ready) \/ parent' = "exited"
    BY <1>2 DEF Looping, Poll, ReadSignals, ReadTimer, CloseListener, Receive, Check, Park, ParkFull, Reply, OnTime,
      Exit
  <2>5. parent' = "copy" => child = "ended"
    BY <1>0, <2>4 DEF StartInv, LoopInv
  <2>6. /\ child' = child /\ message' = message /\ status' = status
        /\ parent' \in {"serve", "copy", "exited"}
    BY <2>1, <2>3, <2>4 DEF LoopIs
  <2> QED
    BY <1>0, <2>3, <2>5, <2>6 DEF StartInv
<1>3. CASE Tick
  BY <1>0, <1>3 DEF Tick, start, StartInv
<1>4. ASSUME NEW t \in Threads, Living(t) PROVE StartInv'
  <2>1. CASE Die(t) /\ t = Main
    <3>1. child \in {"runs", "plainruns"} /\ child' = "ended" /\ UNCHANGED <<parent, message, status>>
      BY <1>0, <2>1 DEF Die, LifeInv
    <3> QED
      BY <1>0, <3>1 DEF StartInv
  <2>2. CASE ~(Die(t) /\ t = Main)
    BY <1>0, <1>4, <2>2 DEF Living, Born, Signal, Restart, Interrupted, Refused, Die, start, StartInv
  <2> QED
    BY <2>1, <2>2
<1>5. ASSUME NEW t \in Threads, Answering(t) PROVE StartInv'
  BY <1>0, <1>5 DEF Answering, Recognise, Decide, LoopIs, StartInv
<1>6. ASSUME NEW t \in Threads, NEW c \in Calls, Call(t, c) PROVE StartInv'
  BY <1>0, <1>6 DEF Call, start, StartInv
<1> QED
  BY <1>1, <1>2, <1>3, <1>4, <1>5, <1>6, Kinds

\* Exit is only reached when the application has ended.
LEMMA ExitAfterEnd ==
  ASSUME CycleInv, Looping, Exit
  PROVE  child = "ended"
BY DEF CycleInv, StartInv, LoopInv, Looping, Poll, ReadSignals, ReadTimer, CloseListener, Receive, Check, Park, ParkFull,
   Reply, OnTime, Exit

\* The steps of the loop that touch threads answer some, or end all.
LEMMA LoopMoves ==
  ASSUME BaseInv, CycleInv, Looping
  PROVE  \/ UNCHANGED thread
         \/ \E ids : Answer(ids) /\ Answers(ids)
         \/ AllDie /\ child = "ended" /\ setting.pid1 /\ parent' = "exited"
<1>0. TypeOK
  BY DEF BaseInv
<1>1. CASE Exit
  <2>1. child = "ended" /\ parent' = "exited"
    BY <1>1, ExitAfterEnd DEF Exit
  <2> QED
    BY <1>0, <1>1, <2>1, ExitSteps
<1>2. CASE \E ids : Answer(ids)
  BY <1>0, <1>2, AnswersThem
<1>3. CASE ~Exit /\ ~\E ids : Answer(ids)
  BY <1>3 DEF Looping, Poll, ReadSignals, ReadTimer, CloseListener, Receive, Check, Park, ParkFull, Reply, OnTime, kernel
<1> QED
  BY <1>1, <1>2, <1>3

LEMMA LifeKept == ASSUME BaseInv, CycleInv, Next PROVE LifeInv'
<1>0. StartInv /\ LifeInv /\ LoopInv /\ HandInv /\ StartTypes /\ TypeOK /\ Main \in Threads
  BY PlacesAre DEF CycleInv, BaseInv, TypeOK
<1>a. UNCHANGED <<thread, child>> => LifeInv'
  BY <1>0 DEF LifeInv
<1>1. CASE Starting
  <2>1. CASE ChildInstalls
    <3>1. Moves(Main, IF child' = "ended" THEN "dead" ELSE thread[Main].at, thread[Main].call, thread[Main].id)
      BY <1>0, <2>1, StartSteps
    <3>2. child = "fork" /\ child' \in {"plain", "ended", "filtered"}
      BY <2>1 DEF ChildInstalls
    <3> QED
      BY <1>0, <3>1, <3>2 DEF LifeInv, Moves
  <2>2. CASE GiveUp
    <3>1. Moves(Main, "dead", thread[Main].call, thread[Main].id) /\ child' = "ended"
      BY <1>0, <2>2, StartSteps DEF GiveUp
    <3> QED
      BY <1>0, <3>1 DEF LifeInv, Moves
  <2>3. CASE ChildExecs
    <3>1. Moves(Main, "run", thread[Main].call, thread[Main].id)
      BY <1>0, <2>3, StartSteps
    <3>2. child \in {"go", "plaingo"} /\ child' \in {"runs", "plainruns"}
      BY <2>3 DEF ChildExecs
    <3>3. \A t \in Threads \ {Main} : thread'[t].at = "unborn"
      BY <1>0, <3>1, <3>2 DEF LifeInv, Moves
    <3> QED
      BY <1>0, <3>1, <3>2, <3>3 DEF LifeInv, Moves
  <2>4. CASE ParentGoes
    <3>1. child \in {"filtered", "plain"} /\ child' \in {"go", "plaingo"} /\ UNCHANGED thread
      BY <1>0, <2>4 DEF ParentGoes, StartInv, kernel
    <3> QED
      BY <1>0, <3>1 DEF LifeInv
  <2>5. CASE ~ChildInstalls /\ ~GiveUp /\ ~ChildExecs /\ ~ParentGoes
    BY <1>1, <1>a, <2>5 DEF Starting, ParentReceives, ParentWritesStatus, ParentStartsLoop, kernel
  <2> QED
    BY <2>1, <2>2, <2>3, <2>4, <2>5
<1>2. CASE Looping
  <2>1. child' = child
    BY <1>2 DEF Looping, Poll, ReadSignals, ReadTimer, CloseListener, Receive, Check, Park, ParkFull, Reply, OnTime,
      LoopIs
  <2>2. CASE UNCHANGED thread
    BY <1>a, <2>1, <2>2
  <2>3. CASE \E ids : Answers(ids)
    BY <1>0, <2>1, <2>3 DEF LifeInv, Answers
  <2>4. CASE AllDie /\ child = "ended"
    BY <1>0, <2>1, <2>4 DEF LifeInv, AllDie
  <2> QED
    BY <1>2, <2>2, <2>3, <2>4, LoopMoves
<1>3. CASE Tick
  BY <1>3, <1>a DEF Tick, start, kernel
<1>4. ASSUME NEW t \in Threads, Living(t) PROVE LifeInv'
  <2>1. CASE Die(t)
    <3>1. Moves(t, "dead", thread[t].call, 0)
      BY <1>0, <2>1, ThreadSteps
    <3>2. child' = (IF t = Main THEN "ended" ELSE child) /\ thread[t].at \in {"run", "wait", "handler"}
      BY <2>1 DEF Die
    <3> QED
      BY <1>0, <3>1, <3>2 DEF LifeInv, Moves
  <2>2. CASE Born(t)
    <3>1. Moves(t, "run", thread[t].call, thread[t].id)
      BY <1>0, <2>2, ThreadSteps
    <3>2. child = "runs" /\ child' = "runs" /\ thread[t].at = "unborn"
      BY <2>2 DEF Born, start
    <3> QED
      BY <1>0, <3>1, <3>2 DEF LifeInv, Moves
  <2>3. CASE Signal(t) \/ Restart(t) \/ Interrupted(t) \/ Refused(t)
    <3>1. \E p \in {"run", "wait", "handler"} : \E i : Moves(t, p, thread[t].call, i)
      BY <1>0, <2>3, ThreadSteps
    <3>2. thread[t].at \in {"wait", "handler"} /\ child' = child
      BY <2>3 DEF Signal, Restart, Interrupted, Refused, start
    <3> QED
      BY <1>0, <3>1, <3>2 DEF LifeInv, Moves
  <2> QED
    BY <1>4, <2>1, <2>2, <2>3 DEF Living
<1>5. ASSUME NEW t \in Threads, Answering(t) PROVE LifeInv'
  BY <1>5, <1>a DEF Answering, Recognise, Decide, LoopIs
<1>6. ASSUME NEW t \in Threads, NEW c \in Calls, Call(t, c) PROVE LifeInv'
  <2>1. Moves(t, "wait", c, nextId)
    BY <1>0, <1>6, ThreadSteps DEF Call
  <2>2. thread[t].at = "run" /\ child' = child
    BY <1>6 DEF Call, start
  <2> QED
    BY <1>0, <2>1, <2>2 DEF LifeInv, Moves
<1> QED
  BY <1>1, <1>2, <1>3, <1>4, <1>5, <1>6, Kinds

\* A hang-up is final: no thread is left that could be born or restarted.
LEMMA HungUpStays ==
  ASSUME BaseInv, CycleInv, Next, HungUp
  PROVE  HungUp'
<1>0. TypeOK /\ StartInv /\ LifeInv /\ Main \in Threads
  BY PlacesAre DEF BaseInv, CycleInv
<1>1. \A t \in Threads : thread[t].at \in {"unborn", "dead"}
  BY <1>0 DEF HungUp, Alive, TypeOK, KernelTypes, ThreadStates, Places
<1>2. child = "ended"
  BY <1>0, <1>1 DEF LifeInv
<1>a. UNCHANGED thread => HungUp'
  BY DEF HungUp, Alive
<1>3. CASE Starting
  <2>1. CASE GiveUp
    <3>1. Moves(Main, "dead", thread[Main].call, thread[Main].id)
      BY <1>0, <2>1, StartSteps
    <3> QED
      BY <1>0, <1>1, <3>1 DEF HungUp, Alive, Moves
  <2>2. CASE ~GiveUp
    BY <1>2, <1>3, <1>a, <2>2 DEF Starting, ChildInstalls, ParentReceives, ParentWritesStatus, ParentGoes,
      ParentStartsLoop, ChildExecs, kernel
  <2> QED
    BY <2>1, <2>2
<1>4. CASE Looping
  <2>1. CASE \E ids : Answers(ids)
    BY <1>1, <2>1 DEF HungUp, Alive, Answers
  <2>2. CASE AllDie
    BY <2>2 DEF HungUp, Alive, AllDie
  <2> QED
    BY <1>4, <1>a, <2>1, <2>2, LoopMoves
<1>5. CASE Tick
  BY <1>5, <1>a DEF Tick, kernel
<1>6. ASSUME NEW t \in Threads, Living(t) PROVE FALSE
  BY <1>1, <1>2, <1>6 DEF Living, Born, Signal, Restart, Interrupted, Refused, Die
<1>7. ASSUME NEW t \in Threads, Answering(t) PROVE HungUp'
  BY <1>7, <1>a DEF Answering, Recognise, Decide
<1>8. ASSUME NEW t \in Threads, NEW c \in Calls, Call(t, c) PROVE FALSE
  BY <1>1, <1>8 DEF Call
<1> QED
  BY <1>3, <1>4, <1>5, <1>6, <1>7, <1>8, Kinds

LEMMA EndStays ==
  ASSUME CycleInv, Next, child = "ended"
  PROVE  child' = "ended"
<1>1. parent \notin {"status", "go"}
  BY DEF CycleInv, StartInv
<1>2. CASE Starting
  BY <1>1, <1>2 DEF Starting, ChildInstalls, ParentReceives, ParentWritesStatus, ParentGoes, ParentStartsLoop,
    ChildExecs, GiveUp
<1>3. CASE ~Starting
  BY <1>3, Kinds DEF Looping, Poll, ReadSignals, ReadTimer, CloseListener, Receive, Check, Park, ParkFull, Reply, OnTime,
    LoopIs, Tick, start, Living, Born, Signal, Restart, Interrupted, Refused, Die, Answering, Recognise, Decide, Call
<1> QED
  BY <1>2, <1>3

LEMMA LoopKept == ASSUME BaseInv, CycleInv, Next PROVE LoopInv'
<1>0. StartInv /\ LifeInv /\ LoopInv /\ HandInv /\ StartTypes /\ TypeOK
  BY DEF CycleInv, BaseInv, TypeOK
<1>1. "sigchld" \in ready /\ ready' = ready => child' = "ended"
  BY <1>0, EndStays DEF LoopInv
<1>2. ("hup" \in ready /\ ready' = ready) \/ (loop = "hungup" /\ loop' = loop) => HungUp'
  BY <1>0, HungUpStays DEF LoopInv
<1>a. UNCHANGED <<parent, parked, unwritten, ready, loop>> => LoopInv'
  BY <1>0, <1>1, <1>2 DEF LoopInv
<1>3. CASE Starting
  <2>1. CASE ParentStartsLoop
    <3>1. /\ parent' \in {"failed", "serve"} /\ UNCHANGED <<parked, unwritten, ready>>
          /\ loop' \in {"off", "poll"} /\ ready = {} /\ parked = {} /\ unwritten = FALSE
      BY <1>0, <2>1 DEF ParentStartsLoop, GiveUp, LoopInv, HandInv, TypeOK, LoopTypes
    <3> QED
      BY <3>1 DEF LoopInv
  <2>2. CASE ~ParentStartsLoop
    <3>1. UNCHANGED <<parked, unwritten, ready, loop>>
      BY <1>3, <2>2 DEF Starting, ChildInstalls, ParentReceives, ParentWritesStatus, ParentGoes, ChildExecs, server
    <3>2. parent' = parent \/ parent \in {"receive", "status", "go", "fds", "failed"}
      BY <1>3, <2>2 DEF Starting, ChildInstalls, ParentReceives, ParentWritesStatus, ParentGoes, ChildExecs
    <3> QED
      BY <1>0, <1>1, <1>2, <3>1, <3>2 DEF LoopInv
  <2> QED
    BY <2>1, <2>2
<1>4. CASE Looping
  <2>0. parent \notin {"receive", "status", "go", "fds", "failed"}
    BY <1>0, <1>4 DEF HandInv, Looping, Poll, ReadSignals, ReadTimer, CloseListener, Receive, Check, Park, ParkFull, Reply,
      OnTime
  <2>1. parent' \notin {"receive", "status", "go", "fds", "failed"}
    BY <1>4, <2>0 DEF Looping, Poll, ReadSignals, ReadTimer, CloseListener, Receive, Check, Park, ParkFull, Reply,
      OnTime, Exit
  <2>2. CASE Poll
    <3>1. ready' = Pollable /\ UNCHANGED <<thread, child>> /\ loop' # "hungup"
      BY <2>2 DEF Poll, kernel, LoopIs
    <3>2. "sigchld" \in ready' => child' = "ended"
      BY <3>1, PollableMeans
    <3>3. "hup" \in ready' => HungUp'
      BY <3>1, PollableMeans DEF HungUp, Alive
    <3>4. loop' = "closed" => "sigchld" \in ready'
      BY <2>2 DEF Poll
    <3> QED
      BY <2>1, <3>1, <3>2, <3>3, <3>4 DEF LoopInv
  <2>3. CASE ReadTimer
    <3>1. ready' = ready /\ (loop' = "hungup" => "hup" \in ready) /\ loop' # "closed"
      BY <2>3 DEF ReadTimer
    <3> QED
      BY <1>1, <1>2, <2>1, <3>1 DEF LoopInv
  <2>4. CASE CloseListener \/ OnTime
    <3>1. ready' = {} /\ loop' # "hungup"
      BY <2>4 DEF CloseListener, OnTime, Exit
    <3> QED
      BY <2>1, <3>1 DEF LoopInv
  <2>5. CASE ReadSignals \/ Receive \/ Check \/ Park \/ ParkFull \/ Reply
    <3>1. ready' = ready /\ loop' \notin {"hungup", "closed"}
      BY <2>5 DEF ReadSignals, Receive, Check, Park, ParkFull, Reply, Exit
    <3> QED
      BY <1>1, <1>2, <2>1, <3>1 DEF LoopInv
  <2> QED
    BY <1>4, <2>2, <2>3, <2>4, <2>5 DEF Looping
<1>5. CASE Tick
  <2>1. UNCHANGED <<parent, unwritten, ready, loop>> /\ (parked = {} => parked' = {})
    BY <1>5 DEF Tick, start
  <2> QED
    BY <1>0, <1>1, <1>2, <2>1 DEF LoopInv
<1>6. ASSUME NEW t \in Threads, Living(t) PROVE LoopInv'
  BY <1>6, <1>a DEF Living, Born, Signal, Restart, Interrupted, Refused, Die, server, start
<1>7. ASSUME NEW t \in Threads, Answering(t) PROVE LoopInv'
  <2>1. ready' = ready /\ parent' = parent /\ loop = "receive" /\ loop' \notin {"hungup", "closed"}
    BY <1>7 DEF Answering, Recognise, Decide
  <2> QED
    BY <1>0, <1>1, <1>2, <2>1 DEF LoopInv, HandInv
<1>8. ASSUME NEW t \in Threads, NEW c \in Calls, Call(t, c) PROVE LoopInv'
  BY <1>8, <1>a DEF Call, server, start
<1> QED
  BY <1>3, <1>4, <1>5, <1>6, <1>7, <1>8, Kinds

LEMMA CycleStep == BaseInv /\ CycleInv /\ [Next]_vars => CycleInv'
<1>1. ASSUME BaseInv, CycleInv, Next PROVE CycleInv'
  BY <1>1, StartKept, LifeKept, LoopKept DEF CycleInv
<1>2. ASSUME CycleInv, UNCHANGED vars PROVE CycleInv'
  BY <1>2 DEF CycleInv, StartInv, LifeInv, LoopInv, HungUp, Alive, vars, start, kernel, server
<1> QED
  BY <1>1, <1>2

LEMMA CycleHolds == Spec => []CycleInv
BY CycleInit, CycleStep, BaseHolds, PTL DEF Spec

\* The application never runs before this run's status is written, nor under a
\* supervisor that gave up (main, chaos_init_write_status).
THEOREM StatusIsWritten == Spec => []StatusBeforeRun
<1>1. BaseInv /\ CycleInv => StatusBeforeRun
  BY DEF BaseInv, TypeOK, StartTypes, CycleInv, StartInv, StatusBeforeRun
<1> QED
  BY <1>1, BaseHolds, CycleHolds, PTL

(***************************************************************************)
(* Who serves a filtered process.                                          *)
(***************************************************************************)
\* The environment is what it was when the program started.
LEMMA SettingStays == Next => setting' = setting
BY Kinds DEF Starting, ChildInstalls, ParentReceives, ParentWritesStatus, ParentGoes, ParentStartsLoop, ChildExecs,
    Looping, Poll, ReadSignals, ReadTimer, CloseListener, Receive, Check, Park, ParkFull, Reply, OnTime,
    LoopIs, Tick, Living, Born, Signal, Restart, Interrupted, Refused, Die, Answering, Recognise, Decide, Call

LEMMA ListenerKept ==
  ASSUME BaseInv, CycleInv, ListenerOutlivesCallers, Next
  PROVE  ListenerOutlivesCallers'
<1>0. StartInv /\ LifeInv /\ LoopInv /\ HandInv /\ StartTypes /\ TypeOK /\ Main \in Threads
  BY PlacesAre DEF CycleInv, BaseInv, TypeOK
<1> DEFINE Waiting == \E t \in Threads : thread[t].at = "wait"
           Excused == setting.fails \in {"fds", "fork"}
<1>1. Waiting => Listening \/ Excused
  BY DEF ListenerOutlivesCallers
<1>2. setting' = setting
  BY SettingStays
<1>3. (Waiting' => Listening' \/ Excused) => ListenerOutlivesCallers'
  BY <1>2 DEF ListenerOutlivesCallers
<1>a. (Waiting' => Waiting) /\ (Listening => Listening') => ListenerOutlivesCallers'
  BY <1>1, <1>3
<1> HIDE DEF Excused
<1>4. CASE Starting
  <2>1. Waiting' => Waiting
    <3>1. CASE ChildInstalls
      <4>1. Moves(Main, IF child' = "ended" THEN "dead" ELSE thread[Main].at, thread[Main].call, thread[Main].id)
        BY <1>0, <3>1, StartSteps
      <4> QED
        BY <1>0, <4>1 DEF Moves
    <3>2. CASE GiveUp \/ ChildExecs
      <4>1. \E p \in {"dead", "run"} : Moves(Main, p, thread[Main].call, thread[Main].id)
        BY <1>0, <3>2, StartSteps
      <4> QED
        BY <1>0, <4>1 DEF Moves
    <3>3. CASE ~ChildInstalls /\ ~GiveUp /\ ~ChildExecs
      BY <1>4, <3>3 DEF Starting, ParentReceives, ParentWritesStatus, ParentGoes, ParentStartsLoop, kernel
    <3> QED
      BY <3>1, <3>2, <3>3
  <2>2. CASE ParentReceives
    <3>1. Listening => message = "listener"
      BY DEF Listening, Filtered
    <3>2. Waiting => ~Listening
      <4> SUFFICES ASSUME NEW t \in Threads, thread[t].at = "wait", Listening PROVE FALSE
        OBVIOUS
      <4>1. child \in {"fork", "filtered", "plain"}
        BY <1>0, <2>2, <3>1 DEF StartInv, ParentReceives
      <4> QED
        BY <1>0, <4>1 DEF LifeInv
    <3> QED
      BY <1>1, <1>3, <2>1, <3>2
  <2>3. CASE ParentStartsLoop
    <3>1. CASE setting.fails = "fds"
      BY <1>3, <3>1 DEF Excused
    <3>2. CASE setting.fails # "fds"
      BY <1>a, <2>1, <2>3, <3>2 DEF ParentStartsLoop, Listening, Filtered
    <3> QED
      BY <3>1, <3>2
  <2>4. CASE ChildInstalls
    BY <1>0, <1>a, <2>1, <2>4 DEF ChildInstalls, Listening, Filtered, StartInv
  <2>5. CASE ParentWritesStatus \/ ParentGoes \/ ChildExecs
    BY <1>a, <2>1, <2>5 DEF ParentWritesStatus, ParentGoes, ChildExecs, Listening, Filtered, server
  <2> QED
    BY <1>4, <2>2, <2>3, <2>4, <2>5 DEF Starting
<1>5. CASE Looping
  <2>1. Waiting' => Waiting
    <3>1. CASE \E ids : Answers(ids)
      BY <3>1 DEF Answers
    <3>2. CASE AllDie
      BY <3>2 DEF AllDie
    <3>3. CASE UNCHANGED thread
      BY <3>3
    <3> QED
      BY <1>5, <3>1, <3>2, <3>3, LoopMoves
  <2>2. CASE ReadSignals
    <3>1. CASE setting.pid1 /\ Exit
      <4>1. AllDie
        BY <1>0, <3>1, ExitSteps
      <4> QED
        BY <1>3, <4>1 DEF AllDie
    <3>2. CASE ~(setting.pid1 /\ Exit)
      <4>1. CASE loop = "closed"
        BY <1>1, <1>3, <2>1, <4>1 DEF Listening
      <4>2. CASE loop # "closed" /\ NeedsCopy /\ setting.fails = "fork"
        BY <1>3, <4>2 DEF Excused
      <4>3. CASE loop # "closed" /\ ~(NeedsCopy /\ setting.fails = "fork")
        <5>1. CASE ~Listening
          BY <1>1, <1>3, <2>1, <5>1
        <5>2. CASE Listening
          <6>1. UNCHANGED message /\ loop' = "timer" /\ parent' \in {parent, "copy"}
            BY <2>2, <3>2, <4>3, <5>2 DEF ReadSignals, NeedsCopy, LoopIs, Exit
          <6> QED
            BY <1>a, <2>1, <5>2, <6>1 DEF Listening, Filtered
        <5> QED
          BY <5>1, <5>2
      <4> QED
        BY <4>1, <4>2, <4>3
    <3> QED
      BY <3>1, <3>2
  <2>3. CASE CloseListener
    <3>1. HungUp
      BY <1>0, <2>3 DEF CloseListener, LoopInv
    <3>2. ~Waiting
      BY <3>1 DEF HungUp, Alive
    <3> QED
      BY <1>3, <2>1, <3>2
  <2>4. CASE ~ReadSignals /\ ~CloseListener
    <3>1. UNCHANGED <<parent, message>> /\ (loop' = "closed" => loop = "closed")
      BY <1>5, <2>4 DEF Looping, Poll, ReadTimer, Receive, Check, Park, ParkFull, Reply, OnTime, LoopIs
    <3> QED
      BY <1>a, <2>1, <3>1 DEF Listening, Filtered
  <2> QED
    BY <2>2, <2>3, <2>4
<1>6. CASE Tick
  BY <1>6, <1>a DEF Tick, start, kernel, Listening, Filtered
<1>7. ASSUME NEW t \in Threads, Living(t) PROVE ListenerOutlivesCallers'
  <2>1. Listening => Listening'
    BY <1>7 DEF Living, Born, Signal, Restart, Interrupted, Refused, Die, server, start, Listening, Filtered
  <2>2. CASE Restart(t) /\ Listening
    BY <1>3, <2>1, <2>2
  <2>3. CASE ~(Restart(t) /\ Listening)
    <3>1. \E p \in {"run", "handler", "dead"} : \E i : Moves(t, p, thread[t].call, i)
      <4>1. CASE Restart(t)
        <5>1. thread' = [thread EXCEPT ![t].at = "run"] /\ thread[t].id \in Nat
          BY <1>0, <2>3, <4>1 DEF Restart, TypeOK, KernelTypes, ThreadStates
        <5> QED
          BY <1>0, <5>1, ThreadChanges, PlacesAre
      <4>2. CASE ~Restart(t)
        BY <1>0, <1>7, <4>2, ThreadSteps DEF Living
      <4> QED
        BY <4>1, <4>2
    <3>2. Waiting' => Waiting
      BY <3>1 DEF Moves
    <3> QED
      BY <1>a, <2>1, <3>2
  <2> QED
    BY <2>2, <2>3
<1>8. ASSUME NEW t \in Threads, Answering(t) PROVE ListenerOutlivesCallers'
  BY <1>8, <1>a DEF Answering, Recognise, Decide, LoopIs, Listening, Filtered
<1>9. ASSUME NEW t \in Threads, NEW c \in Calls, Call(t, c) PROVE ListenerOutlivesCallers'
  BY <1>3, <1>9 DEF Call, server, start, Listening, Filtered
<1> QED
  BY <1>4, <1>5, <1>6, <1>7, <1>8, <1>9, Kinds

\* A filtered process that waits for an answer always has a supervisor, the
\* main process or the copy it left, unless one could not be made
\* (chaos_init_serve_the_rest).
THEOREM ListenerStays == Spec => []ListenerOutlivesCallers
<1>1. Init => ListenerOutlivesCallers
  <2>1. Init => \A t \in Threads : thread[t].at # "wait"
    BY DEF Init
  <2> QED
    BY <2>1 DEF ListenerOutlivesCallers
<1>2. BaseInv /\ CycleInv /\ ListenerOutlivesCallers /\ [Next]_vars => ListenerOutlivesCallers'
  <2>1. ListenerOutlivesCallers /\ UNCHANGED vars => ListenerOutlivesCallers'
    BY DEF ListenerOutlivesCallers, Listening, Filtered, vars, start, kernel, server
  <2> QED
    BY <2>1, ListenerKept
<1> QED
  BY <1>1, <1>2, BaseHolds, CycleHolds, PTL DEF Spec

(***************************************************************************)
(* The timer.                                                              *)
(***************************************************************************)
LEMMA WakeKept ==
  ASSUME BaseInv, BaseInv', CycleInv, WakesInTime, Next
  PROVE  WakesInTime'
<1>0. /\ TypeOK /\ parked \subseteq Entries /\ timer \in Nat \cup {Off} /\ sinceFlush \in 0..Interval
      /\ unwritten \in BOOLEAN /\ Interval \in Nat \ {0}
  BY PlacesAre DEF BaseInv, TypeOK, ParkedTypes, LoopTypes
<1>1. /\ parked' \subseteq Entries /\ timer' \in Nat \cup {Off} /\ sinceFlush' \in 0..Interval
      /\ unwritten' \in BOOLEAN
  BY DEF BaseInv, TypeOK, ParkedTypes, LoopTypes
<1>a. UNCHANGED <<loop, parked, timer, unwritten, sinceFlush>> => WakesInTime'
  BY DEF WakesInTime
<1>b. loop' # "poll" => WakesInTime'
  BY DEF WakesInTime
<1>2. CASE Starting
  <2>1. CASE ParentStartsLoop
    <3>1. UNCHANGED <<parked, unwritten>> /\ parked = {} /\ unwritten = FALSE
      BY <1>0, <2>1 DEF ParentStartsLoop, CycleInv, LoopInv
    <3> QED
      BY <3>1 DEF WakesInTime
  <2>2. CASE ~ParentStartsLoop
    BY <1>2, <1>a, <2>2 DEF Starting, ChildInstalls, ParentReceives, ParentWritesStatus, ParentGoes, ChildExecs, server
  <2> QED
    BY <2>1, <2>2
<1>3. CASE Looping
  <2>1. CASE OnTime
    <3>1. timer' = NextDue(unwritten', sinceFlush', parked')
      BY <2>1 DEF OnTime
    <3>2. /\ \A e \in parked' : timer' \in 0..Max({1, e.left})
          /\ unwritten' => timer' \in 0..Max({1, Interval - sinceFlush'})
      BY <1>1, <3>1, NextDueBounds
    <3> QED
      BY <3>2 DEF WakesInTime
  <2>2. CASE ~OnTime
    BY <1>3, <1>b, <2>2 DEF Looping, Poll, ReadSignals, ReadTimer, CloseListener, Receive, Check, Park, ParkFull,
      Reply, Exit
  <2> QED
    BY <2>1, <2>2
<1>4. CASE Tick
  <2>1. CASE loop # "poll"
    BY <1>4, <1>b, <2>1 DEF Tick
  <2>2. CASE loop = "poll"
    <3>1. /\ timer' = IF timer > 0 THEN timer - 1 ELSE timer
          /\ sinceFlush' = IF sinceFlush < Interval THEN sinceFlush + 1 ELSE Interval
          /\ parked' = {Aged(e) : e \in parked} /\ unwritten' = unwritten
      BY <1>0, <1>4, TickTyped DEF Tick
    <3>2. ASSUME NEW n \in Nat, timer \in 0..Max({1, n})
          PROVE  timer' \in 0..Max({1, IF n > 0 THEN n - 1 ELSE 0})
      <4> DEFINE m == IF n > 0 THEN n - 1 ELSE 0
      <4>1. m \in Nat /\ m = IF n > 0 THEN n - 1 ELSE 0
        OBVIOUS
      <4>2. Max({1, n}) = (IF 1 >= n THEN 1 ELSE n) /\ Max({1, m}) = (IF 1 >= m THEN 1 ELSE m)
        <5> HIDE DEF m
        <5> QED
          BY <4>1, LargerOfTwo
      <4> HIDE DEF m
      <4>3. timer' \in 0..Max({1, m})
        BY <3>1, <3>2, <4>1, <4>2
      <4> QED
        BY <4>3 DEF m
    <3>3. ASSUME NEW f \in parked' PROVE timer' \in 0..Max({1, f.left})
      <4>1. PICK e \in parked : f = Aged(e)
        BY <3>1, <3>3
      <4>2. e.left \in Nat /\ timer \in 0..Max({1, e.left})
        BY <1>0, <2>2, EntryFields DEF WakesInTime
      <4>3. f.left = IF e.left > 0 THEN e.left - 1 ELSE 0
        BY <1>0, <4>1, AgedFields
      <4> QED
        BY <3>2, <4>2, <4>3
    <3>4. ASSUME unwritten' PROVE timer' \in 0..Max({1, Interval - sinceFlush'})
      <4> DEFINE n == Interval - sinceFlush
      <4>1. n \in Nat /\ Interval - sinceFlush' = IF n > 0 THEN n - 1 ELSE 0
        BY <1>0, <3>1
      <4>2. timer \in 0..Max({1, n})
        BY <2>2, <3>1, <3>4 DEF WakesInTime
      <4> HIDE DEF n
      <4> QED
        BY <3>2, <4>1, <4>2
    <3> QED
      BY <3>3, <3>4 DEF WakesInTime
  <2> QED
    BY <2>1, <2>2
<1>5. ASSUME NEW t \in Threads, Living(t) PROVE WakesInTime'
  BY <1>5, <1>a DEF Living, Born, Signal, Restart, Interrupted, Refused, Die, server
<1>6. ASSUME NEW t \in Threads, Answering(t) PROVE WakesInTime'
  BY <1>6, <1>b DEF Answering, Recognise, Decide
<1>7. ASSUME NEW t \in Threads, NEW c \in Calls, Call(t, c) PROVE WakesInTime'
  BY <1>7, <1>a DEF Call, server
<1> QED
  BY <1>2, <1>3, <1>4, <1>5, <1>6, <1>7, Kinds

\* poll never sleeps past the time a parked call or an unwritten hit is due
\* (chaos_init_on_time), however the queue is filled and whatever is pending.
THEOREM TimerIsSet == Spec => []WakesInTime
<1>1. Init => WakesInTime
  BY DEF Init, WakesInTime
<1>2. BaseInv /\ BaseInv' /\ CycleInv /\ WakesInTime /\ [Next]_vars => WakesInTime'
  <2>1. UNCHANGED vars => UNCHANGED <<loop, parked, timer, unwritten, sinceFlush>>
    BY DEF vars, server
  <2>2. WakesInTime /\ UNCHANGED <<loop, parked, timer, unwritten, sinceFlush>> => WakesInTime'
    BY DEF WakesInTime
  <2> QED
    BY <2>1, <2>2, WakeKept
<1> QED
  BY <1>1, <1>2, BaseHolds, CycleHolds, PTL DEF Spec

(***************************************************************************)
(* Ids: who waits under one, and where it is between receipt and answer.   *)
(***************************************************************************)
ThreadIds ==
  /\ \A t \in Threads : /\ thread[t].id < nextId
                        /\ thread[t].at = "wait" => thread[t].id # 0
                        /\ thread[t].id # 0 => thread[t].at \in {"wait", "dead"}
  /\ \A t, u \in Threads : thread[t].id = thread[u].id /\ thread[t].id # 0 => t = u
\* An entry and the notification in hand are of the thread their id was given
\* to, and of its call.
EntryIds ==
  \A e \in parked : /\ e.id \in 1..(nextId - 1) /\ e.id \notin queue
                    /\ \A t \in Threads : thread[t].id = e.id => Same(e, t)
HandIds ==
  got # None =>
    /\ got.id \in 1..(nextId - 1) /\ got.id \notin queue
    /\ \A t \in Threads : thread[t].id = got.id => got.tid = t /\ got.call = thread[t].call
    /\ \A e \in parked : e.id # got.id /\ ~(e.tid = got.tid /\ e.call = got.call)
OneEntry == \A e, f \in parked : e.tid = f.tid /\ e.call = f.call => e = f
\* Ids are given out once, and a received id is in one place: in hand or in
\* one entry.
IdsInv == ThreadIds /\ EntryIds /\ HandIds /\ OneEntry

LEMMA IdsInit == Init => IdsInv
<1> SUFFICES ASSUME Init PROVE IdsInv
  OBVIOUS
<1>1. \A t \in Threads : thread[t].at \in {"boot", "unborn"} /\ thread[t].id = 0
  BY DEF Init
<1>2. nextId = 1 /\ parked = {} /\ got = None
  BY DEF Init
<1> QED
  BY <1>1, <1>2 DEF IdsInv, ThreadIds, EntryIds, HandIds, OneEntry

\* A thread moves: to wait under the next id, which is queued, or to a place
\* where it waits for nothing.
NewId(t) ==
  /\ \E c \in Calls : Moves(t, "wait", c, nextId)
  /\ nextId' = nextId + 1 /\ queue' = queue \cup {nextId}
OldId(t) ==
  /\ \E p \in Places \ {"wait"}, i \in {0, thread[t].id} : Moves(t, p, thread[t].call, i) /\ (i # 0 => p = "dead")
  /\ UNCHANGED nextId /\ queue' \subseteq queue

LEMMA LivingMoves ==
  ASSUME BaseInv, ThreadIds, NEW t \in Threads, Living(t)
  PROVE  UNCHANGED <<parked, got>> /\ (NewId(t) \/ OldId(t))
<1>0. TypeOK /\ thread[t].call \in Calls \cup {"none"} /\ thread[t].id \in Nat
  BY DEF BaseInv, TypeOK, KernelTypes, ThreadStates
<1>1. UNCHANGED <<parked, got>>
  BY DEF Living, Born, Signal, Restart, Interrupted, Refused, Die, server
<1>2. CASE Restart(t)
  <2>1. thread[t].call \in Calls /\ thread[t].id = 0
    BY <1>0, <1>2 DEF Restart, TypeOK, KernelTypes, ThreadIds
  <2>2. CASE Notify(t, thread[t].call) /\ Moves(t, "wait", thread[t].call, nextId)
    BY <1>1, <2>1, <2>2 DEF NewId, Notify
  <2>3. CASE Moves(t, "run", thread[t].call, thread[t].id) /\ UNCHANGED <<queue, nextId>>
    BY <1>1, <2>1, <2>3, PlacesAre DEF OldId
  <2> QED
    BY <1>0, <1>2, <2>2, <2>3, ThreadSteps
<1>3. CASE Born(t) \/ Interrupted(t)
  <2>1. thread[t].id = 0
    BY <1>3 DEF Born, Interrupted, ThreadIds
  <2>2. Moves(t, "run", thread[t].call, thread[t].id) /\ UNCHANGED <<queue, nextId>>
    BY <1>0, <1>3, ThreadSteps DEF Born, Interrupted
  <2> QED
    BY <1>1, <2>1, <2>2, PlacesAre DEF OldId
<1>4. CASE Signal(t) \/ Refused(t) \/ Die(t)
  <2>1. \E p \in {"handler", "run", "dead"} : Moves(t, p, thread[t].call, 0)
    BY <1>0, <1>4, ThreadSteps
  <2>2. UNCHANGED nextId /\ queue' \subseteq queue
    BY <1>4 DEF Signal, Refused, Die, Withdraw
  <2> QED
    BY <1>1, <2>1, <2>2, PlacesAre DEF OldId
<1> QED
  BY <1>2, <1>3, <1>4 DEF Living

LEMMA CallMoves ==
  ASSUME BaseInv, NEW t \in Threads, NEW c \in Calls, Call(t, c)
  PROVE  UNCHANGED <<parked, got>> /\ NewId(t)
<1>1. Notify(t, c) /\ UNCHANGED <<parked, got>>
  BY DEF Call, server
<1>2. Moves(t, "wait", c, nextId)
  BY <1>1, ThreadSteps DEF BaseInv
<1> QED
  BY <1>1, <1>2 DEF NewId, Notify

LEMMA StartingMoves ==
  ASSUME BaseInv, CycleInv, ThreadIds, Starting
  PROVE  UNCHANGED <<parked, got>> /\ (UNCHANGED kernel \/ OldId(Main))
<1>0. TypeOK /\ LifeInv /\ Main \in Threads /\ StartTypes
  BY PlacesAre DEF BaseInv, CycleInv, TypeOK
<1>1. UNCHANGED <<parked, got, queue, nextId>>
  BY DEF Starting, ChildInstalls, ParentReceives, ParentWritesStatus, ParentGoes, ParentStartsLoop, ChildExecs,
    server, kernel
<1>2. CASE ChildInstalls \/ ChildExecs
  <2>1. child \in {"fork", "go", "plaingo"}
    BY <1>2 DEF ChildInstalls, ChildExecs
  <2>2. thread[Main].at = "boot" /\ thread[Main].id = 0
    BY <1>0, <2>1 DEF LifeInv, ThreadIds, TypeOK, KernelTypes, ThreadStates, Places
  <2>3. \E p \in {"dead", "boot", "run"} : Moves(Main, p, thread[Main].call, thread[Main].id)
    BY <1>0, <1>2, <2>2, StartSteps
  <2> QED
    BY <1>1, <2>2, <2>3, PlacesAre DEF OldId
<1>3. CASE GiveUp
  <2>1. Moves(Main, "dead", thread[Main].call, thread[Main].id)
    BY <1>0, <1>3, StartSteps
  <2> QED
    BY <1>1, <2>1, PlacesAre DEF OldId
<1>4. CASE ~ChildInstalls /\ ~ChildExecs /\ ~GiveUp
  BY <1>1, <1>4 DEF Starting, ParentReceives, ParentWritesStatus, ParentGoes, ParentStartsLoop, kernel
<1> QED
  BY <1>2, <1>3, <1>4

\* Moving threads keep the ids in order.
LEMMA MovesKeepIds ==
  ASSUME BaseInv, IdsInv, NEW t \in Threads, NewId(t) \/ OldId(t), UNCHANGED <<parked, got>>
  PROVE  IdsInv'
<1>0. /\ nextId \in Nat \ {0} /\ queue \subseteq 1..(nextId - 1)
      /\ \A u \in Threads : thread[u].id \in Nat
      /\ ThreadIds /\ EntryIds /\ HandIds /\ OneEntry
  BY DEF BaseInv, TypeOK, KernelTypes, ThreadStates, IdsInv
<1>1. \A u \in Threads : \/ u # t /\ thread'[u] = thread[u]
                         \/ u = t /\ thread'[u].id \in {0, nextId}
                         \/ u = t /\ thread'[u].id = thread[u].id /\ thread'[u].call = thread[u].call
  BY DEF NewId, OldId, Moves
<1>2. nextId' \in {nextId, nextId + 1} /\ queue' \subseteq queue \cup {nextId}
      /\ (thread'[t].id = nextId => nextId' = nextId + 1 /\ thread'[t].at = "wait")
  <2>1. OldId(t) => thread'[t].id # nextId
    BY <1>0 DEF OldId, Moves, ThreadIds
  <2> QED
    BY <2>1 DEF NewId, OldId, Moves
<1>3. thread'[t].at = "wait" => thread'[t].id # 0
  BY <1>0 DEF NewId, OldId, Moves
<1>4. thread'[t].id # 0 => thread'[t].at \in {"wait", "dead"}
  BY DEF NewId, OldId, Moves
<1>5. ThreadIds'
  <2>1. ASSUME NEW u \in Threads
        PROVE /\ thread'[u].id < nextId'
              /\ thread'[u].at = "wait" => thread'[u].id # 0
              /\ thread'[u].id # 0 => thread'[u].at \in {"wait", "dead"}
    BY <1>0, <1>1, <1>2, <1>3, <1>4 DEF ThreadIds
  <2>2. ASSUME NEW u \in Threads, NEW w \in Threads, thread'[u].id = thread'[w].id, thread'[u].id # 0 PROVE u = w
    BY <1>0, <1>1, <2>2 DEF ThreadIds
  <2> QED
    BY <2>1, <2>2 DEF ThreadIds
<1>6. EntryIds'
  <2> SUFFICES ASSUME NEW e \in parked
               PROVE /\ e.id \in 1..(nextId' - 1) /\ e.id \notin queue'
                     /\ \A u \in Threads : thread'[u].id = e.id => e.tid = u /\ e.call = thread'[u].call
    BY DEF EntryIds, Same
  <2>1. e.id \in 1..(nextId - 1) /\ e.id \notin queue
        /\ \A u \in Threads : thread[u].id = e.id => e.tid = u /\ e.call = thread[u].call
    BY <1>0 DEF EntryIds, Same
  <2> QED
    BY <1>0, <1>1, <1>2, <2>1
<1>7. HandIds'
  <2> SUFFICES ASSUME got # None
               PROVE /\ got.id \in 1..(nextId' - 1) /\ got.id \notin queue'
                     /\ \A u \in Threads : thread'[u].id = got.id => got.tid = u /\ got.call = thread'[u].call
                     /\ \A e \in parked : e.id # got.id /\ ~(e.tid = got.tid /\ e.call = got.call)
    BY DEF HandIds
  <2>1. /\ got.id \in 1..(nextId - 1) /\ got.id \notin queue
        /\ \A u \in Threads : thread[u].id = got.id => got.tid = u /\ got.call = thread[u].call
        /\ \A e \in parked : e.id # got.id /\ ~(e.tid = got.tid /\ e.call = got.call)
    BY <1>0 DEF HandIds
  <2> QED
    BY <1>0, <1>1, <1>2, <2>1
<1>8. OneEntry'
  BY <1>0 DEF OneEntry
<1> QED
  BY <1>5, <1>6, <1>7, <1>8 DEF IdsInv

\* The supervisor's steps and the clock give out no id: a thread keeps its id
\* and where it waits under it, or is rid of both.
Settles(t) ==
  /\ thread'[t].call = thread[t].call /\ thread'[t].id \in {0, thread[t].id}
  /\ thread'[t].at \in {thread[t].at, "run", "dead"}
  /\ thread'[t].at = "wait" => thread'[t].id = thread[t].id
  /\ thread'[t].id # 0 => thread'[t].at \in {thread[t].at, "dead"}
Given == (\A t \in Threads : Settles(t)) /\ UNCHANGED nextId /\ queue' \subseteq queue

LEMMA OldIdsSettle ==
  ASSUME BaseInv, CycleInv, Looping \/ Tick \/ \E t \in Threads : Answering(t)
  PROVE  Given
<1>1. UNCHANGED thread => \A t \in Threads : Settles(t)
  BY DEF Settles
<1>2. CASE Looping
  <2>1. UNCHANGED <<queue, nextId>>
    BY <1>2 DEF Looping, Poll, ReadSignals, ReadTimer, CloseListener, Receive, Check, Park, ParkFull, Reply, OnTime,
      kernel
  <2>2. CASE \E ids : Answers(ids)
    BY <2>1, <2>2 DEF Given, Answers, Settles
  <2>3. CASE AllDie
    BY <2>1, <2>3 DEF Given, AllDie, Settles
  <2> QED
    BY <1>1, <1>2, <2>1, <2>2, <2>3, LoopMoves DEF Given
<1>3. CASE Tick
  BY <1>1, <1>3 DEF Tick, kernel, Given
<1>4. ASSUME NEW t \in Threads, Answering(t) PROVE Given
  BY <1>1, <1>4 DEF Answering, Recognise, Decide, Given
<1> QED
  BY <1>2, <1>3, <1>4

LEMMA SettledThreadIds ==
  ASSUME BaseInv, ThreadIds, Given
  PROVE  ThreadIds'
<1>0. nextId' = nextId /\ nextId \in Nat \ {0} /\ \A t \in Threads : thread[t].id \in Nat /\ Settles(t)
  BY DEF BaseInv, TypeOK, KernelTypes, ThreadStates, Given
<1>1. \A t \in Threads : /\ thread'[t].id < nextId'
                         /\ thread'[t].at = "wait" => thread'[t].id # 0
                         /\ thread'[t].id # 0 => thread'[t].at \in {"wait", "dead"}
  BY <1>0 DEF ThreadIds, Settles
<1>2. \A t, u \in Threads : thread'[t].id = thread'[u].id /\ thread'[t].id # 0 => t = u
  BY <1>0 DEF ThreadIds, Settles
<1> QED
  BY <1>1, <1>2 DEF ThreadIds

\* The oldest id belongs to the thread it is answered for, and is received once.
LEMMA OldestIs ==
  ASSUME BaseInv, NEW t \in Threads, Answering(t)
  PROVE  /\ thread[t].id = Oldest /\ thread[t].at = "wait" /\ Oldest \in queue /\ Oldest \in 1..(nextId - 1)
         /\ queue' = queue \ {Oldest} /\ got = None /\ UNCHANGED <<thread, nextId>>
         /\ thread[t].call \in Calls
<1>1. queue # {} /\ t \in Owner(Oldest) /\ queue' = queue \ {Oldest} /\ loop = "receive" /\ UNCHANGED <<thread, nextId>>
  BY DEF Answering, Recognise, Decide
<1>2. queue \subseteq 1..(nextId - 1) /\ nextId \in Nat /\ queue \subseteq Nat
  BY DEF BaseInv, TypeOK, KernelTypes
<1>3. Oldest \in queue
  BY <1>1, <1>2, LowestIsIn DEF Oldest
<1>4. got = None
  BY <1>1 DEF BaseInv, HandInv
<1>5. thread[t].id = Oldest /\ thread[t].at = "wait"
  BY <1>1 DEF Owner
<1>6. thread[t].call \in Calls
  BY <1>5 DEF BaseInv, TypeOK, KernelTypes
<1> QED
  BY <1>1, <1>2, <1>3, <1>4, <1>5, <1>6

\* What the supervisor does to the entries and to the notification in hand.
LEMMA LoopKeepsIds ==
  ASSUME BaseInv, CycleInv, IdsInv, Looping
  PROVE  EntryIds' /\ HandIds' /\ OneEntry'
<1>0. EntryIds /\ HandIds /\ OneEntry /\ nextId \in Nat
  BY DEF IdsInv, BaseInv, TypeOK, KernelTypes
<1>1. UNCHANGED <<queue, nextId>>
  BY DEF Looping, Poll, ReadSignals, ReadTimer, CloseListener, Receive, Check, Park, ParkFull, Reply, OnTime, kernel
<1>2. \A t \in Threads : thread'[t].call = thread[t].call /\ thread'[t].id \in {0, thread[t].id}
  BY OldIdsSettle DEF Given, Settles
<1>3. ASSUME parked' \subseteq parked, got' \in {got, None} PROVE EntryIds' /\ HandIds' /\ OneEntry'
  <2>1. EntryIds'
    <3> SUFFICES ASSUME NEW e \in parked'
                 PROVE /\ e.id \in 1..(nextId' - 1) /\ e.id \notin queue'
                       /\ \A u \in Threads : thread'[u].id = e.id => e.tid = u /\ e.call = thread'[u].call
      BY DEF EntryIds, Same
    <3>1. e.id \in 1..(nextId - 1) /\ e.id \notin queue
          /\ \A u \in Threads : thread[u].id = e.id => e.tid = u /\ e.call = thread[u].call
      BY <1>0, <1>3 DEF EntryIds, Same
    <3> QED
      BY <1>0, <1>1, <1>2, <3>1
  <2>2. HandIds'
    <3> SUFFICES ASSUME got' # None
                 PROVE /\ got'.id \in 1..(nextId' - 1) /\ got'.id \notin queue'
                       /\ \A u \in Threads : thread'[u].id = got'.id => got'.tid = u /\ got'.call = thread'[u].call
                       /\ \A e \in parked' : e.id # got'.id /\ ~(e.tid = got'.tid /\ e.call = got'.call)
      BY DEF HandIds
    <3>1. /\ got' = got /\ got.id \in 1..(nextId - 1) /\ got.id \notin queue
          /\ \A u \in Threads : thread[u].id = got.id => got.tid = u /\ got.call = thread[u].call
          /\ \A e \in parked : e.id # got.id /\ ~(e.tid = got.tid /\ e.call = got.call)
      BY <1>0, <1>3 DEF HandIds
    <3> QED
      BY <1>0, <1>1, <1>2, <1>3, <3>1
  <2>3. OneEntry'
    BY <1>0, <1>3 DEF OneEntry
  <2> QED
    BY <2>1, <2>2, <2>3
<1>4. CASE Park
  <2>1. /\ parked' = parked \cup {Entry} /\ got' = None /\ got # None /\ UNCHANGED thread
        /\ Entry.id = got.id /\ Entry.tid = got.tid /\ Entry.call = got.call
    BY <1>4, EntryParked DEF Park, kernel
  <2>2. /\ got.id \in 1..(nextId - 1) /\ got.id \notin queue
        /\ \A u \in Threads : thread[u].id = got.id => got.tid = u /\ got.call = thread[u].call
        /\ \A e \in parked : e.id # got.id /\ ~(e.tid = got.tid /\ e.call = got.call)
    BY <1>0, <2>1 DEF HandIds
  <2> HIDE DEF Entry
  <2>3. EntryIds'
    <3> SUFFICES ASSUME NEW e \in parked'
                 PROVE /\ e.id \in 1..(nextId' - 1) /\ e.id \notin queue'
                       /\ \A u \in Threads : thread'[u].id = e.id => e.tid = u /\ e.call = thread'[u].call
      BY DEF EntryIds, Same
    <3>1. CASE e \in parked
      BY <1>0, <1>1, <2>1, <3>1 DEF EntryIds, Same
    <3>2. CASE e = Entry
      BY <1>1, <2>1, <2>2, <3>2
    <3> QED
      BY <2>1, <3>1, <3>2
  <2>4. HandIds'
    BY <2>1 DEF HandIds
  <2>5. OneEntry'
    BY <1>0, <2>1, <2>2 DEF OneEntry
  <2> QED
    BY <2>3, <2>4, <2>5
<1>5. CASE ~Park
  <2>1. parked' \subseteq parked /\ got' \in {got, None}
    BY <1>5 DEF Looping, Poll, ReadSignals, ReadTimer, CloseListener, Receive, Check, ParkFull, Reply, OnTime
  <2> QED
    BY <1>3, <2>1
<1> QED
  BY <1>4, <1>5

\* The entries are the same but for what is left of them and for their ids: an
\* image of the queue keeps the ids in order if it keeps each entry's.
LEMMA TickKeepsIds ==
  ASSUME BaseInv, IdsInv, Tick
  PROVE  EntryIds' /\ HandIds' /\ OneEntry'
<1>0. EntryIds /\ HandIds /\ OneEntry /\ parked \subseteq Entries
  BY DEF IdsInv, BaseInv, TypeOK, ParkedTypes
<1>1. parked' = {Aged(e) : e \in parked} /\ UNCHANGED <<thread, queue, nextId, got>>
  BY TickTyped DEF BaseInv, Tick, kernel
<1>2. \A e \in parked : Aged(e).id = e.id /\ Aged(e).tid = e.tid /\ Aged(e).call = e.call
  BY <1>0, AgedFields
<1> HIDE DEF Aged
<1>3. EntryIds'
  BY <1>0, <1>1, <1>2 DEF EntryIds, Same
<1>4. HandIds'
  BY <1>0, <1>1, <1>2 DEF HandIds
<1>5. OneEntry'
  <2> SUFFICES ASSUME NEW f \in parked', NEW g \in parked', f.tid = g.tid, f.call = g.call PROVE f = g
    BY DEF OneEntry
  <2>1. PICK d \in parked : f = Aged(d)
    BY <1>1
  <2>2. PICK e \in parked : g = Aged(e)
    BY <1>1
  <2>3. d = e
    BY <1>0, <1>2, <2>1, <2>2 DEF OneEntry
  <2> QED
    BY <2>1, <2>2, <2>3
<1> QED
  BY <1>3, <1>4, <1>5

LEMMA AnsweringKeepsIds ==
  ASSUME BaseInv, IdsInv, NEW t \in Threads, Answering(t)
  PROVE  EntryIds' /\ HandIds' /\ OneEntry'
<1>0. EntryIds /\ OneEntry /\ ThreadIds /\ parked \subseteq Entries /\ thread[t].id \in Nat
  BY DEF IdsInv, BaseInv, TypeOK, ParkedTypes, KernelTypes, ThreadStates
<1> DEFINE id == thread[t].id
<1>1. /\ id \in queue /\ id \in 1..(nextId - 1) /\ queue' = queue \ {id} /\ got = None
      /\ UNCHANGED <<thread, nextId>>
  BY OldestIs
<1>2. \A u \in Threads : thread[u].id = id => u = t
  BY <1>0, <1>1 DEF ThreadIds
<1>3. CASE Recognise(t)
  <2>1. parked' = {Taken(e, t) : e \in parked} /\ got' = None
    BY <1>1, <1>3 DEF Recognise, Rebound, Taken
  <2>2. \A e \in parked : /\ Taken(e, t).tid = e.tid /\ Taken(e, t).call = e.call
                          /\ Taken(e, t).id = IF Same(e, t) THEN id ELSE e.id
    BY <1>0, TakenFields
  <2> HIDE DEF Taken
  <2>3. EntryIds'
    <3> SUFFICES ASSUME NEW f \in parked'
                 PROVE /\ f.id \in 1..(nextId' - 1) /\ f.id \notin queue'
                       /\ \A u \in Threads : thread'[u].id = f.id => f.tid = u /\ f.call = thread'[u].call
      BY DEF EntryIds, Same
    <3>1. PICK e \in parked : f = Taken(e, t)
      BY <2>1
    <3>2. /\ e.id \in 1..(nextId - 1) /\ e.id \notin queue
          /\ \A u \in Threads : thread[u].id = e.id => e.tid = u /\ e.call = thread[u].call
      BY <1>0 DEF EntryIds, Same
    <3>3. CASE Same(e, t)
      BY <1>1, <1>2, <2>2, <3>1, <3>3 DEF Same
    <3>4. CASE ~Same(e, t)
      BY <1>1, <2>2, <3>1, <3>2, <3>4
    <3> QED
      BY <3>3, <3>4
  <2>4. HandIds'
    BY <2>1 DEF HandIds
  <2>5. OneEntry'
    <3> SUFFICES ASSUME NEW f \in parked', NEW g \in parked', f.tid = g.tid, f.call = g.call PROVE f = g
      BY DEF OneEntry
    <3>1. PICK d \in parked : f = Taken(d, t)
      BY <2>1
    <3>2. PICK e \in parked : g = Taken(e, t)
      BY <2>1
    <3>3. d = e
      BY <1>0, <2>2, <3>1, <3>2 DEF OneEntry
    <3> QED
      BY <3>1, <3>2, <3>3
  <2> QED
    BY <2>3, <2>4, <2>5
<1>4. ASSUME NEW v \in Verdicts, Decide(t, v) PROVE EntryIds' /\ HandIds' /\ OneEntry'
  <2>1. /\ got' = [id |-> id, tid |-> t, call |-> thread[t].call, verdict |-> v]
        /\ UNCHANGED parked /\ \A e \in parked : ~(e.tid = t /\ e.call = thread[t].call)
    BY <1>4 DEF Decide, Resume, Same
  <2>2. EntryIds'
    BY <1>0, <1>1, <2>1 DEF EntryIds, Same
  <2>3. \A e \in parked : e.id # id
    BY <1>0, <1>1 DEF EntryIds
  <2>4. got'.id = id /\ got'.tid = t /\ got'.call = thread[t].call
    BY <2>1
  <2>5. HandIds'
    BY <1>1, <1>2, <2>1, <2>3, <2>4 DEF HandIds
  <2>6. OneEntry'
    BY <1>0, <2>1 DEF OneEntry
  <2> QED
    BY <2>2, <2>5, <2>6
<1> QED
  BY <1>3, <1>4 DEF Answering

LEMMA IdsStep == BaseInv /\ CycleInv /\ IdsInv /\ [Next]_vars => IdsInv'
<1>1. ASSUME BaseInv, CycleInv, IdsInv, Next PROVE IdsInv'
  <2>0. ThreadIds
    BY <1>1 DEF IdsInv
  <2>1. CASE Starting
    <3>1. CASE UNCHANGED kernel
      <4>1. UNCHANGED <<thread, queue, nextId, parked, got>>
        BY <1>1, <2>0, <2>1, <3>1, StartingMoves DEF kernel
      <4> QED
        BY <1>1, <4>1 DEF IdsInv, ThreadIds, EntryIds, HandIds, OneEntry, Same
    <3>2. CASE ~UNCHANGED kernel
      BY <1>1, <2>0, <2>1, <3>2, StartingMoves, MovesKeepIds, PlacesAre
    <3> QED
      BY <3>1, <3>2
  <2>2. CASE Looping
    BY <1>1, <2>0, <2>2, OldIdsSettle, SettledThreadIds, LoopKeepsIds DEF IdsInv
  <2>3. CASE Tick
    BY <1>1, <2>0, <2>3, OldIdsSettle, SettledThreadIds, TickKeepsIds DEF IdsInv
  <2>4. ASSUME NEW t \in Threads, Living(t) PROVE IdsInv'
    BY <1>1, <2>0, <2>4, LivingMoves, MovesKeepIds
  <2>5. ASSUME NEW t \in Threads, Answering(t) PROVE IdsInv'
    BY <1>1, <2>0, <2>5, OldIdsSettle, SettledThreadIds, AnsweringKeepsIds DEF IdsInv
  <2>6. ASSUME NEW t \in Threads, NEW c \in Calls, Call(t, c) PROVE IdsInv'
    BY <1>1, <2>6, CallMoves, MovesKeepIds
  <2> QED
    BY <1>1, <2>1, <2>2, <2>3, <2>4, <2>5, <2>6, Kinds
<1>2. ASSUME IdsInv, UNCHANGED vars PROVE IdsInv'
  <2>1. UNCHANGED <<thread, queue, nextId, parked, got>>
    BY <1>2 DEF vars, kernel, server
  <2> QED
    BY <1>2, <2>1 DEF IdsInv, ThreadIds, EntryIds, HandIds, OneEntry, Same
<1> QED
  BY <1>1, <1>2

LEMMA IdsHold == Spec => []IdsInv
BY IdsInit, IdsStep, BaseHolds, CycleHolds, PTL DEF Spec

(***************************************************************************)
(* How often a call is decided.                                            *)
(***************************************************************************)
LEMMA DecidedKept ==
  ASSUME BaseInv, CycleInv, IdsInv, DecidedInv, Next
  PROVE  DecidedInv'
<1>0. /\ TypeOK /\ decided \in [Threads -> Nat] /\ ThreadIds /\ nextId \in Nat /\ Main \in Threads
      /\ \A t \in Threads : thread[t].id < nextId
  BY PlacesAre DEF BaseInv, TypeOK, StoryTypes, KernelTypes, IdsInv, ThreadIds
<1>s. setting' = setting
  BY SettingStays
<1> DEFINE Undecided(t) == thread[t].at = "handler" \/ (thread[t].at = "wait" /\ thread[t].id \in queue)
           Fine(t) == decided[t] <= 1 /\ (Undecided(t) => decided[t] = 0)
<1>1. setting.killable => \A t \in Threads : Fine(t)
  BY DEF DecidedInv
<1>2. (setting.killable => \A t \in Threads : Fine(t)') => DecidedInv'
  BY <1>s DEF DecidedInv
<1> SUFFICES ASSUME setting.killable PROVE \A t \in Threads : Fine(t)'
  BY <1>2
<1>a. ASSUME decided' = decided, \A t \in Threads : Undecided(t)' => Undecided(t) PROVE \A t \in Threads : Fine(t)'
  BY <1>1, <1>a
<1>b. Given => \A t \in Threads : Undecided(t)' => Undecided(t)
  BY DEF Given, Settles
<1>c. ASSUME NEW t \in Threads, OldId(t), decided' = decided, thread'[t].at = "handler" => Undecided(t)
      PROVE  \A u \in Threads : Fine(u)'
  <2>1. \A u \in Threads : Undecided(u)' => Undecided(u)
    BY <1>c DEF OldId, Moves
  <2> QED
    BY <1>a, <1>c, <2>1
<1>d. ASSUME NEW t \in Threads, NewId(t), NEW n \in {0, decided[t]}, decided' = [decided EXCEPT ![t] = n],
             n = 0 \/ thread[t].at = "handler"
      PROVE  \A u \in Threads : Fine(u)'
  <2>1. decided'[t] = 0
    BY <1>0, <1>1, <1>d
  <2>2. \A u \in Threads : u # t => decided'[u] = decided[u] /\ (Undecided(u)' => Undecided(u))
    BY <1>0, <1>d DEF NewId, Moves
  <2> QED
    BY <1>1, <2>1, <2>2
<1>3. CASE Starting
  <2>1. decided' = decided
    BY <1>3 DEF Starting, ChildInstalls, ParentReceives, ParentWritesStatus, ParentGoes, ParentStartsLoop, ChildExecs,
      story
  <2>2. UNCHANGED kernel \/ OldId(Main)
    BY <1>0, <1>3, StartingMoves
  <2>3. CASE UNCHANGED thread
    BY <1>a, <2>1, <2>2, <2>3 DEF kernel, OldId
  <2>4. CASE ~UNCHANGED thread
    <3>1. thread'[Main].at # "handler"
      <4>1. CASE ChildInstalls
        <5>1. thread[Main].at # "handler"
          BY <4>1 DEF ChildInstalls, CycleInv, LifeInv
        <5> QED
          BY <1>0, <4>1, <5>1, StartSteps DEF Moves
      <4>2. CASE GiveUp \/ ChildExecs
        BY <1>0, <4>2, StartSteps DEF Moves
      <4> QED
        BY <1>3, <2>4, <4>1, <4>2 DEF Starting, ParentReceives, ParentWritesStatus, ParentGoes, ParentStartsLoop, kernel
    <3> QED
      BY <1>0, <1>c, <2>1, <2>2, <2>4, <3>1 DEF kernel
  <2> QED
    BY <2>3, <2>4
<1>4. CASE Looping
  <2>1. decided' = decided
    BY <1>4 DEF Looping, Poll, ReadSignals, ReadTimer, CloseListener, Receive, Check, Park, ParkFull, Reply, OnTime, story
  <2> QED
    BY <1>4, <1>a, <1>b, <2>1, OldIdsSettle
<1>5. CASE Tick
  BY <1>5, <1>a, <1>b, OldIdsSettle DEF Tick
<1>6. ASSUME NEW t \in Threads, Living(t) PROVE \A u \in Threads : Fine(u)'
  <2>1. decided' = decided
    BY <1>6 DEF Living, Born, Signal, Restart, Interrupted, Refused, Die, story
  <2>2. CASE Signal(t)
    <3>1. Undecided(t)
      BY <2>2 DEF Signal, Killable
    <3>2. OldId(t)
      <4>1. thread'[t].at = "handler"
        BY <1>0, <2>2, ThreadSteps DEF Moves
      <4> QED
        BY <1>0, <1>6, <4>1, LivingMoves DEF NewId, Moves
    <3> QED
      BY <1>c, <2>1, <3>1, <3>2
  <2>3. CASE Restart(t) /\ NewId(t)
    <3>1. thread[t].at = "handler" /\ decided' = [decided EXCEPT ![t] = decided[t]]
      BY <1>0, <2>1, <2>3 DEF Restart
    <3> QED
      BY <1>d, <2>3, <3>1
  <2>4. CASE ~Signal(t) /\ ~(Restart(t) /\ NewId(t))
    <3>1. \/ \E p \in {"run", "dead"} : \E i : Moves(t, p, thread[t].call, i)
          \/ Restart(t) /\ NewId(t)
      <4>1. CASE Restart(t)
        <5>1. Moves(t, "run", thread[t].call, thread[t].id) \/ Moves(t, "wait", thread[t].call, nextId)
          BY <1>0, <4>1, ThreadSteps
        <5> QED
          BY <1>0, <1>6, <4>1, <5>1, LivingMoves DEF OldId, Moves
      <4>2. CASE ~Restart(t)
        BY <1>0, <1>6, <2>4, <4>2, ThreadSteps DEF Living
      <4> QED
        BY <4>1, <4>2
    <3>2. thread'[t].at \notin {"wait", "handler"} /\ OldId(t)
      BY <1>0, <1>6, <2>4, <3>1, LivingMoves DEF Moves, NewId
    <3> QED
      BY <1>c, <2>1, <3>2
  <2> QED
    BY <2>2, <2>3, <2>4
<1>7. ASSUME NEW t \in Threads, Answering(t) PROVE \A u \in Threads : Fine(u)'
  <2>1. CASE Recognise(t)
    BY <1>7, <1>a, <1>b, <2>1, OldIdsSettle DEF Recognise, story
  <2>2. CASE \E v \in Verdicts : Decide(t, v)
    <3>1. decided' = [decided EXCEPT ![t] = @ + 1]
      BY <2>2 DEF Decide
    <3>2. UNCHANGED thread /\ queue' \subseteq queue /\ thread[t].id \in queue /\ thread[t].id \notin queue'
          /\ thread[t].at = "wait"
      BY <1>7, OldestIs
    <3>3. decided'[t] = 1 /\ \A u \in Threads : u # t => decided'[u] = decided[u]
      BY <1>0, <1>1, <3>1, <3>2
    <3>4. ~Undecided(t)' /\ \A u \in Threads : Undecided(u)' => Undecided(u)
      BY <3>2
    <3> QED
      BY <1>1, <3>3, <3>4
  <2> QED
    BY <1>7, <2>1, <2>2 DEF Answering
<1>8. ASSUME NEW t \in Threads, NEW c \in Calls, Call(t, c) PROVE \A u \in Threads : Fine(u)'
  BY <1>8, <1>d, CallMoves DEF Call
<1> QED
  BY <1>3, <1>4, <1>5, <1>6, <1>7, <1>8, Kinds

\* Where a received notification is not interrupted, no call is decided, and so
\* counted, twice (chaos_init_answer with SECCOMP_FILTER_FLAG_WAIT_KILLABLE_RECV),
\* however signals, restarts and delays interleave with the loop.
THEOREM CallsDecidedOnce == Spec => []DecidedOnce
<1>1. Init => DecidedInv
  <2>1. Init => \A t \in Threads : decided[t] = 0
    BY DEF Init
  <2> QED
    BY <2>1 DEF DecidedInv
<1>2. BaseInv /\ CycleInv /\ IdsInv /\ DecidedInv /\ [Next]_vars => DecidedInv'
  <2>1. DecidedInv /\ UNCHANGED vars => DecidedInv'
    BY DEF DecidedInv, vars, kernel, story
  <2> QED
    BY <2>1, DecidedKept
<1>3. DecidedInv => DecidedOnce
  BY DEF DecidedInv, DecidedOnce
<1> QED
  BY <1>1, <1>2, <1>3, BaseHolds, CycleHolds, IdsHold, PTL DEF Spec

(***************************************************************************)
(* When a delayed call goes on.                                            *)
(***************************************************************************)
\* A thread owes a delay to the entry of its call, and to nothing else.
Idle(t)  == thread[t].at \in {"run", "unborn", "boot"} => owed[t] = 0
Owes(t)  == thread[t].at \in {"wait", "handler"} /\ owed[t] > 0
Waits(t) == \E e \in parked : e.tid = t /\ e.call = thread[t].call /\ owed[t] <= e.left

LEMMA OwedMeans == OwedInv <=> \A t \in Threads : Idle(t) /\ (Owes(t) => Waits(t))
BY DEF OwedInv, Idle, Owes, Waits, Same

\* The entry a thread owes its delay to is the one with its id, if there is one.
LEMMA OwesThat ==
  ASSUME BaseInv, IdsInv, OwedInv, NEW t \in Threads, Owes(t), NEW e \in parked, thread[t].id = e.id
  PROVE  owed[t] <= e.left
<1>1. PICK f \in parked : f.tid = t /\ f.call = thread[t].call /\ owed[t] <= f.left
  BY OwedMeans DEF Waits
<1>2. e.tid = t /\ e.call = thread[t].call
  BY DEF IdsInv, EntryIds, Same
<1>3. e = f
  BY <1>1, <1>2 DEF IdsInv, OneEntry
<1> QED
  BY <1>1, <1>3

\* A thread that owes nothing, or as much as before and is where it waits.
LEMMA OwedStays ==
  ASSUME OwedInv, UNCHANGED <<owed, parked>>, NEW t \in Threads,
         \/ thread'[t] = thread[t]
         \/ thread'[t].at = "dead"
         \/ owed[t] = 0
         \/ thread'[t].call = thread[t].call /\ Owes(t) /\ thread'[t].at \in {"wait", "handler"}
  PROVE  Idle(t)' /\ (Owes(t)' => Waits(t)')
BY OwedMeans DEF Idle, Owes, Waits

LEMMA OwedLoop ==
  ASSUME BaseInv, CycleInv, IdsInv, OwedInv, Looping
  PROVE  OwedInv'
<1>0. /\ TypeOK /\ ThreadIds /\ EntryIds /\ HandIds /\ owed \in [Threads -> Nat] /\ parked \subseteq Entries
      /\ \A t \in Threads : Idle(t) /\ (Owes(t) => Waits(t))
  BY OwedMeans DEF IdsInv, BaseInv, TypeOK, StoryTypes, ParkedTypes
<1> SUFFICES ASSUME NEW t \in Threads PROVE Idle(t)' /\ (Owes(t)' => Waits(t)')
  BY DEF OwedInv, Idle, Owes, Waits, Same
<1>1. CASE Park
  <2>1. /\ parked' = parked \cup {Entry} /\ UNCHANGED thread /\ got # None
        /\ got.tid \in Threads /\ got.verdict.delay \in Nat
        /\ Entry.id = got.id /\ Entry.tid = got.tid /\ Entry.call = got.call /\ Entry.left = got.verdict.delay
        /\ owed' = [owed EXCEPT ![got.tid] = IF thread[got.tid].id = got.id THEN got.verdict.delay ELSE @]
    BY <1>1, EntryParked DEF Park, kernel
  <2> HIDE DEF Entry
  <2>2. CASE t = got.tid /\ thread[t].id = got.id
    <3>1. owed'[t] = Entry.left /\ Entry \in parked'
      BY <1>0, <2>1, <2>2
    <3>2. Entry.tid = t /\ Entry.call = thread[t].call
      BY <1>0, <2>1, <2>2 DEF HandIds
    <3>3. Entry.left <= Entry.left
      BY <2>1
    <3>4. thread[t].at \in {"wait", "dead"}
      BY <1>0, <2>1, <2>2 DEF HandIds, ThreadIds
    <3> QED
      BY <2>1, <3>1, <3>2, <3>3, <3>4 DEF Idle, Owes, Waits
  <2>3. CASE ~(t = got.tid /\ thread[t].id = got.id)
    <3>1. owed'[t] = owed[t]
      BY <1>0, <2>1, <2>3
    <3> QED
      BY <1>0, <2>1, <3>1 DEF Idle, Owes, Waits
  <2> QED
    BY <2>2, <2>3
<1>2. CASE Reply
  <2>1. Answers({got.id}) /\ got # None /\ UNCHANGED <<owed, parked>>
    BY <1>0, <1>2, AnswersThem DEF Reply, story, BaseInv, HandInv
  <2>2. CASE thread[t].at = "wait" /\ thread[t].id = got.id
    <3>1. ~Waits(t)
      BY <1>0, <2>1, <2>2 DEF HandIds, Waits
    <3>2. owed[t] = 0
      BY <1>0, <2>2, <3>1 DEF Owes
    <3> QED
      BY <2>1, <3>2, OwedStays
  <2>3. CASE ~(thread[t].at = "wait" /\ thread[t].id = got.id)
    BY <2>1, <2>3, OwedStays DEF Answers
  <2> QED
    BY <2>2, <2>3
<1>3. CASE OnTime
  <2> DEFINE ids == {e.id : e \in {x \in parked : Due(x)}}
  <2>1. Answers(ids) /\ parked' = {e \in parked : ~Due(e)} /\ UNCHANGED owed
    BY <1>0, <1>3, AnswersThem DEF OnTime, story
  <2>2. CASE thread[t].at = "wait" /\ thread[t].id \in ids
    <3>1. PICK e \in parked : Due(e) /\ thread[t].id = e.id
      BY <2>2
    <3>2. owed[t] = 0
      BY <1>0, <2>2, <3>1, OwesThat DEF Owes, Due
    <3>3. thread'[t].at = "run"
      BY <2>1, <2>2 DEF Answers
    <3> QED
      BY <2>1, <3>2, <3>3 DEF Idle, Owes
  <2>3. CASE ~(thread[t].at = "wait" /\ thread[t].id \in ids)
    <3>1. thread'[t] = thread[t]
      BY <2>1, <2>3 DEF Answers
    <3>2. ASSUME Owes(t) PROVE Waits(t)'
      <4>1. PICK e \in parked : e.tid = t /\ e.call = thread[t].call /\ owed[t] <= e.left
        BY <1>0, <3>2 DEF Waits
      <4>2. e.left # 0
        BY <1>0, <3>2, <4>1, EntryFields DEF Owes
      <4> QED
        BY <2>1, <3>1, <4>1, <4>2 DEF Waits, Due
    <3> QED
      BY <1>0, <2>1, <3>1, <3>2 DEF Idle, Owes
  <2> QED
    BY <2>2, <2>3
<1>4. CASE ~Park /\ ~Reply /\ ~OnTime
  <2>1. UNCHANGED <<owed, parked>>
    BY <1>4 DEF Looping, Poll, ReadSignals, ReadTimer, CloseListener, Receive, Check, ParkFull, story
  <2>2. UNCHANGED thread \/ AllDie
    <3>1. CASE Exit
      BY <1>0, <3>1, ExitSteps
    <3>2. CASE ~Exit
      BY <1>4, <3>2 DEF Looping, Poll, ReadSignals, ReadTimer, CloseListener, Receive, Check, ParkFull, kernel
    <3> QED
      BY <3>1, <3>2
  <2> QED
    BY <2>1, <2>2, OwedStays DEF AllDie
<1> QED
  BY <1>1, <1>2, <1>3, <1>4

LEMMA OwedKept ==
  ASSUME BaseInv, CycleInv, IdsInv, OwedInv, Next
  PROVE  OwedInv'
<1>0. /\ TypeOK /\ owed \in [Threads -> Nat] /\ parked \subseteq Entries /\ Main \in Threads
      /\ \A t \in Threads : Idle(t) /\ (Owes(t) => Waits(t)) /\ thread[t].id \in Nat
  BY OwedMeans, PlacesAre DEF BaseInv, TypeOK, StoryTypes, ParkedTypes, KernelTypes, ThreadStates
<1>a. (\A t \in Threads : Idle(t)' /\ (Owes(t)' => Waits(t)')) => OwedInv'
  BY DEF OwedInv, Idle, Owes, Waits, Same
<1>1. CASE Starting
  <2>1. UNCHANGED <<owed, parked>>
    BY <1>1 DEF Starting, ChildInstalls, ParentReceives, ParentWritesStatus, ParentGoes, ParentStartsLoop, ChildExecs,
      story, server
  <2>2. \A u \in Threads \ {Main} : thread'[u] = thread[u]
    BY <1>0, <1>1, StartingMoves DEF IdsInv, kernel, OldId, Moves
  <2>3. owed[Main] = 0 \/ thread'[Main] = thread[Main] \/ thread'[Main].at = "dead"
    <3>1. CASE ChildInstalls \/ ChildExecs
      <4>1. child \in {"fork", "go", "plaingo"}
        BY <3>1 DEF ChildInstalls, ChildExecs
      <4>2. thread[Main].at \in {"boot", "dead"}
        BY <1>0, <4>1 DEF CycleInv, LifeInv, TypeOK, KernelTypes, ThreadStates, Places
      <4>3. thread[Main].at # "dead"
        BY <4>1 DEF CycleInv, LifeInv
      <4> QED
        BY <1>0, <4>2, <4>3 DEF Idle
    <3>2. CASE GiveUp
      BY <1>0, <3>2, StartSteps DEF Moves
    <3>3. CASE ~ChildInstalls /\ ~ChildExecs /\ ~GiveUp
      BY <1>1, <3>3 DEF Starting, ParentReceives, ParentWritesStatus, ParentGoes, ParentStartsLoop, kernel
    <3> QED
      BY <3>1, <3>2, <3>3
  <2> QED
    BY <1>a, <2>1, <2>2, <2>3, OwedStays
<1>2. CASE Looping
  BY <1>2, OwedLoop
<1>3. CASE Tick
  <2>1. /\ \A t \in Threads : owed'[t] = IF owed[t] > 0 THEN owed[t] - 1 ELSE 0
        /\ parked' = {Aged(e) : e \in parked} /\ UNCHANGED thread
    BY <1>0, <1>3, TickTyped DEF Tick, kernel
  <2> SUFFICES ASSUME NEW t \in Threads PROVE Idle(t)' /\ (Owes(t)' => Waits(t)')
    BY <1>a
  <2>2. Idle(t)'
    BY <1>0, <2>1 DEF Idle
  <2>3. ASSUME Owes(t)' PROVE Waits(t)'
    <3>1. Owes(t) /\ owed[t] \in Nat /\ owed'[t] = owed[t] - 1
      BY <1>0, <2>1, <2>3 DEF Owes
    <3>2. PICK e \in parked : e.tid = t /\ e.call = thread[t].call /\ owed[t] <= e.left
      BY <1>0, <3>1 DEF Waits
    <3>3. e \in Entries /\ e.left \in Nat
      BY <1>0, EntryFields
    <3>4. Aged(e) \in parked' /\ Aged(e).tid = t /\ Aged(e).call = thread[t].call
          /\ Aged(e).left = IF e.left > 0 THEN e.left - 1 ELSE 0
      BY <2>1, <3>2, <3>3, AgedFields
    <3>5. owed'[t] <= Aged(e).left
      BY <3>1, <3>2, <3>3, <3>4
    <3> QED
      BY <2>1, <3>4, <3>5 DEF Waits
  <2> QED
    BY <2>2, <2>3
<1>4. ASSUME NEW t \in Threads, Living(t) PROVE OwedInv'
  <2>1. parked' = parked /\ \A u \in Threads : u # t => thread'[u] = thread[u]
    BY <1>4, LivingMoves DEF IdsInv, NewId, OldId, Moves
  <2>2. CASE owed' = [owed EXCEPT ![t] = 0]
    BY <1>0, <1>a, <2>1, <2>2 DEF Idle, Owes, Waits
  <2>3. CASE UNCHANGED owed
    <3>1. thread'[t].at = "dead" \/ owed[t] = 0
          \/ (thread'[t].call = thread[t].call /\ Owes(t) /\ thread'[t].at \in {"wait", "handler"})
      <4>1. CASE Born(t)
        BY <1>0, <4>1 DEF Born, Idle
      <4>2. CASE Signal(t) \/ (Restart(t) /\ thread'[t].at = "wait")
        <5>1. thread[t].at \in {"wait", "handler"} /\ owed[t] \in Nat
          BY <1>0, <4>2 DEF Signal, Restart
        <5>2. thread'[t].call = thread[t].call /\ thread'[t].at \in {"wait", "handler"}
          BY <1>0, <4>2, ThreadSteps DEF Moves
        <5> QED
          BY <5>1, <5>2 DEF Owes
      <4>3. CASE Die(t)
        BY <1>0, <4>3, ThreadSteps DEF Moves
      <4>4. CASE (Restart(t) /\ thread'[t].at # "wait") \/ Interrupted(t) \/ Refused(t)
        <5>1. owed' = [owed EXCEPT ![t] = 0]
          <6>1. CASE Restart(t) /\ thread'[t].at # "wait"
            <7>1. \A c \in Calls : Notify(t, c) => thread'[t].at = "wait"
              BY <1>0, ThreadSteps DEF Moves
            <7>2. thread[t].call \in Calls
              BY <1>0, <6>1 DEF Restart, TypeOK, KernelTypes
            <7> QED
              BY <6>1, <7>1, <7>2 DEF Restart
          <6>2. CASE Interrupted(t) \/ Refused(t)
            BY <6>2 DEF Interrupted, Refused
          <6> QED
            BY <4>4, <6>1, <6>2
        <5> QED
          BY <1>0, <2>3, <5>1
      <4> QED
        BY <1>4, <4>1, <4>2, <4>3, <4>4 DEF Living
    <3> QED
      BY <1>a, <2>1, <2>3, <3>1, OwedStays
  <2> QED
    BY <1>4, <2>2, <2>3 DEF Living, Born, Signal, Restart, Interrupted, Refused, Die, story
<1>5. ASSUME NEW t \in Threads, Answering(t) PROVE OwedInv'
  <2>1. UNCHANGED <<thread, owed>>
    BY <1>5 DEF Answering, Recognise, Decide, story
  <2>2. CASE Recognise(t)
    <3>1. parked' = {Taken(e, t) : e \in parked}
      BY <2>2 DEF Recognise, Rebound, Taken
    <3>2. \A e \in parked : Taken(e, t).tid = e.tid /\ Taken(e, t).call = e.call /\ Taken(e, t).left = e.left
      BY <1>0, TakenFields
    <3> HIDE DEF Taken
    <3>3. \A u \in Threads : Waits(u) => Waits(u)'
      BY <2>1, <3>1, <3>2 DEF Waits
    <3> QED
      BY <1>0, <1>a, <2>1, <3>3 DEF Idle, Owes
  <2>3. CASE \E v \in Verdicts : Decide(t, v)
    <3>1. UNCHANGED parked
      BY <2>3 DEF Decide
    <3> QED
      BY <1>a, <2>1, <3>1, OwedStays
  <2> QED
    BY <1>5, <2>2, <2>3 DEF Answering
<1>6. ASSUME NEW t \in Threads, NEW c \in Calls, Call(t, c) PROVE OwedInv'
  <2>1. parked' = parked /\ owed' = [owed EXCEPT ![t] = 0] /\ \A u \in Threads : u # t => thread'[u] = thread[u]
    BY <1>6, CallMoves DEF Call, NewId, Moves
  <2> QED
    BY <1>0, <1>a, <2>1 DEF Idle, Owes, Waits
<1> QED
  BY <1>1, <1>2, <1>3, <1>4, <1>5, <1>6, Kinds

\* A call goes on only when its delay is over: an interrupted and restarted call
\* keeps its due time, an answer goes to the call it was parked for, and a
\* decided call is never answered at once when one of its kind is still parked
\* (chaos_init_delay_resume, chaos_init_on_time).
THEOREM DelaysAreKept == Spec => []NotEarly
<1>1. Init => OwedInv
  <2>1. Init => \A t \in Threads : owed[t] = 0
    BY DEF Init
  <2> QED
    BY <2>1 DEF OwedInv
<1>2. BaseInv /\ CycleInv /\ IdsInv /\ OwedInv /\ [Next]_vars => OwedInv'
  <2>1. UNCHANGED vars => UNCHANGED <<thread, owed, parked>>
    BY DEF vars, kernel, story, server
  <2>2. OwedInv /\ UNCHANGED <<thread, owed, parked>> => OwedInv'
    BY DEF OwedInv, Same
  <2> QED
    BY <2>1, <2>2, OwedKept
<1>3. OwedInv => NotEarly
  BY DEF OwedInv, NotEarly
<1> QED
  BY <1>1, <1>2, <1>3, BaseHolds, CycleHolds, IdsHold, PTL DEF Spec

=============================================================================
