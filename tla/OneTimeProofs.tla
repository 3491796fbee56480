---------------------------- MODULE OneTimeProofs ----------------------------
(***************************************************************************)
(* What happens once, for any number of threads: the resolution of the     *)
(* real functions (Once), and the jump of a REGRESS rule (TimeRegress).    *)
(***************************************************************************)
EXTENDS Once, TimeRegress, TLAPS

(***************************************************************************)
(* chaos_once() for any number of threads, pointers and calls, with and    *)
(* without signal handlers.                                                *)
(*                                                                         *)
(* SymbolsAreWhole speaks of the calls that have returned from it. The     *)
(* inductive invariant adds where the one that initialises can be, and     *)
(* what its thread-local flag says of it.                                  *)
(***************************************************************************)
OnceType ==
    /\ once \in {"new", "running", "done"}
    /\ running \in [OnceThreads -> BOOLEAN]
    /\ resolved \in Nat
    /\ call \in [OnceThreads -> Steps] /\ nested \in [OnceThreads -> Steps]
    /\ onceLog \in [calls : Nat, forks : Nat, runs : Nat, orphaned : BOOLEAN]

(* A thread is interrupted in a call, and without handlers only by the     *)
(* allocator.                                                              *)
CallsNest ==
    \A t \in OnceThreads : nested[t] # "idle" =>
        /\ call[t] # "idle"
        /\ Signals \/ (call[t] = "resolve" /\ nested[t] \in {"load", "claim", "use"})

(* The word tells whether somebody initialises; at most one call does.     *)
In(t) == call[t] \in Inside \/ nested[t] \in Inside
OneInside ==
    /\ \A t, u \in OnceThreads : In(t) /\ In(u) => t = u
    /\ \A t \in OnceThreads : ~(call[t] \in Inside /\ nested[t] \in Inside)
    /\ once # "running" => \A t \in OnceThreads : ~In(t)
    /\ once = "running" => onceLog.orphaned \/ \E t \in OnceThreads : In(t)

(* The flag is up exactly while its thread resolves.                       *)
FlagIsOwn ==
    \A t \in OnceThreads : running[t] <=> call[t] = "resolve" \/ nested[t] = "resolve"

Progress ==
    /\ once = "new" => onceLog.runs = 0
    /\ once = "done" => resolved = Symbols
    /\ \A t \in OnceThreads :
        /\ call[t] = "finish" \/ nested[t] = "finish" => resolved = Symbols
        /\ call[t] = "spin" \/ nested[t] = "spin" => once # "new"
        /\ call[t] = "use" => resolved = Symbols
        /\ nested[t] = "use" => resolved = Symbols \/ call[t] = "resolve"
    /\ onceLog.runs <= 1

OnceInv == OnceType /\ CallsNest /\ OneInside /\ FlagIsOwn /\ Progress

(* A step moves the call its thread executes, and no other.                *)
LEMMA OneCallMoves ==
    ASSUME OnceType, NEW t \in OnceThreads, NEW from \in Steps \ {"idle"}, NEW to \in Steps,
           Stands(t, from), Goto(t, to)
    PROVE  /\ call' \in [OnceThreads -> Steps] /\ nested' \in [OnceThreads -> Steps]
           /\ \A u \in OnceThreads \ {t} : call'[u] = call[u] /\ nested'[u] = nested[u]
           /\ \/ nested[t] = from /\ nested'[t] = to /\ call'[t] = call[t]
              \/ /\ nested[t] = "idle" /\ nested'[t] = "idle"
                 /\ call[t] = from /\ call'[t] = to
    BY DEF OnceType, Stands, Goto, Steps

(* The invariant, and so the property, holds initially.                    *)
LEMMA OnceStarts == OnceInit => OnceInv
    BY OnceAssumption DEF OnceInit, OnceInv, OnceType, CallsNest, OneInside, In, FlagIsOwn, Progress,
       Inside, Steps

(* Each step keeps the invariant: what the call that moves may break is    *)
(* in the five parts, the other calls stay where they are.                 *)
LEMMA OnceStep ==
    ASSUME OnceInv, OnceNext
    PROVE  OnceInv'
<1> USE OnceAssumption DEF Inside
<1>1. PICK t \in OnceThreads :
        \/ CallWrapper(t) \/ FastPath(t) \/ Exchange(t) \/ Enter(t) \/ ResolveSymbol(t)
        \/ Leave(t) \/ Finish(t) \/ StopWaiting(t) \/ UsePointer(t) \/ ForkOnce(t)
    BY DEF OnceNext
<1>2. OnceType /\ CallsNest /\ OneInside /\ FlagIsOwn /\ Progress
    BY DEF OnceInv
<1>3. CASE CallWrapper(t)
    <2>1. OnceType'
        BY <1>3, <1>2 DEF CallWrapper, OnceType, Steps
    <2>2. CallsNest'
        BY <1>3, <1>2 DEF CallWrapper, OnceType, CallsNest
    <2>3. OneInside'
        BY <1>3, <1>2 DEF CallWrapper, OnceType, OneInside, In
    <2>4. FlagIsOwn'
        BY <1>3, <1>2 DEF CallWrapper, OnceType, FlagIsOwn
    <2>5. Progress'
        BY <1>3, <1>2 DEF CallWrapper, OnceType, Progress
    <2> QED
        BY <2>1, <2>2, <2>3, <2>4, <2>5 DEF OnceInv
<1>4. CASE FastPath(t)
    <2> DEFINE to == IF once = "done" THEN "use" ELSE "claim"
    <2>1. /\ call' \in [OnceThreads -> Steps] /\ nested' \in [OnceThreads -> Steps]
          /\ \A u \in OnceThreads \ {t} : call'[u] = call[u] /\ nested'[u] = nested[u]
          /\ \/ nested[t] = "load" /\ nested'[t] = to /\ call'[t] = call[t]
             \/ /\ nested[t] = "idle" /\ nested'[t] = "idle"
                /\ call[t] = "load" /\ call'[t] = to
        BY <1>2, <1>4, OneCallMoves DEF FastPath, Steps
    <2>2. OnceType'
        BY <2>1, <1>4, <1>2 DEF FastPath, OnceType, Steps
    <2>3. CallsNest'
        BY <2>1, <1>4, <1>2 DEF FastPath, OnceType, CallsNest
    <2>4. OneInside'
        BY <2>1, <1>4, <1>2 DEF FastPath, OnceType, OneInside, In
    <2>5. FlagIsOwn'
        BY <2>1, <1>4, <1>2 DEF FastPath, OnceType, FlagIsOwn
    <2>6. Progress'
        BY <2>1, <1>4, <1>2 DEF FastPath, OnceType, Progress
    <2> QED
        BY <2>2, <2>3, <2>4, <2>5, <2>6 DEF OnceInv
<1>5. CASE Enter(t)
    <2> DEFINE to == "resolve"
    <2>1. /\ call' \in [OnceThreads -> Steps] /\ nested' \in [OnceThreads -> Steps]
          /\ \A u \in OnceThreads \ {t} : call'[u] = call[u] /\ nested'[u] = nested[u]
          /\ \/ nested[t] = "enter" /\ nested'[t] = to /\ call'[t] = call[t]
             \/ /\ nested[t] = "idle" /\ nested'[t] = "idle"
                /\ call[t] = "enter" /\ call'[t] = to
        BY <1>2, <1>5, OneCallMoves DEF Enter, Steps
    <2>2. OnceType'
        BY <2>1, <1>5, <1>2 DEF Enter, OnceType, Steps
    <2>3. CallsNest'
        BY <2>1, <1>5, <1>2 DEF Enter, OnceType, CallsNest
    <2>4. OneInside'
        BY <2>1, <1>5, <1>2 DEF Enter, OnceType, OneInside, In
    <2>5. FlagIsOwn'
        BY <2>1, <1>5, <1>2 DEF Enter, OnceType, FlagIsOwn
    <2>6. Progress'
        BY <2>1, <1>5, <1>2 DEF Enter, OnceType, Progress
    <2> QED
        BY <2>2, <2>3, <2>4, <2>5, <2>6 DEF OnceInv
<1>6. CASE Leave(t)
    <2> DEFINE to == "finish"
    <2>1. /\ call' \in [OnceThreads -> Steps] /\ nested' \in [OnceThreads -> Steps]
          /\ \A u \in OnceThreads \ {t} : call'[u] = call[u] /\ nested'[u] = nested[u]
          /\ \/ nested[t] = "resolve" /\ nested'[t] = to /\ call'[t] = call[t]
             \/ /\ nested[t] = "idle" /\ nested'[t] = "idle"
                /\ call[t] = "resolve" /\ call'[t] = to
        BY <1>2, <1>6, OneCallMoves DEF Leave, Steps
    <2>2. OnceType'
        BY <2>1, <1>6, <1>2 DEF Leave, OnceType, Steps
    <2>3. CallsNest'
        BY <2>1, <1>6, <1>2 DEF Leave, OnceType, CallsNest
    <2>4. OneInside'
        BY <2>1, <1>6, <1>2 DEF Leave, OnceType, OneInside, In
    <2>5. FlagIsOwn'
        BY <2>1, <1>6, <1>2 DEF Leave, OnceType, FlagIsOwn, OneInside, In
    <2>6. Progress'
        BY <2>1, <1>6, <1>2 DEF Leave, OnceType, Progress
    <2> QED
        BY <2>2, <2>3, <2>4, <2>5, <2>6 DEF OnceInv
<1>7. CASE Finish(t)
    <2> DEFINE to == "use"
    <2>1. /\ call' \in [OnceThreads -> Steps] /\ nested' \in [OnceThreads -> Steps]
          /\ \A u \in OnceThreads \ {t} : call'[u] = call[u] /\ nested'[u] = nested[u]
          /\ \/ nested[t] = "finish" /\ nested'[t] = to /\ call'[t] = call[t]
             \/ /\ nested[t] = "idle" /\ nested'[t] = "idle"
                /\ call[t] = "finish" /\ call'[t] = to
        BY <1>2, <1>7, OneCallMoves DEF Finish, Steps
    <2>2. OnceType'
        BY <2>1, <1>7, <1>2 DEF Finish, OnceType, Steps
    <2>3. CallsNest'
        BY <2>1, <1>7, <1>2 DEF Finish, OnceType, CallsNest
    <2>4. OneInside'
        BY <2>1, <1>7, <1>2 DEF Finish, OnceType, OneInside, In
    <2>5. FlagIsOwn'
        BY <2>1, <1>7, <1>2 DEF Finish, OnceType, FlagIsOwn
    <2>6. Progress'
        BY <2>1, <1>7, <1>2 DEF Finish, OnceType, Progress
    <2> QED
        BY <2>2, <2>3, <2>4, <2>5, <2>6 DEF OnceInv
<1>8. CASE StopWaiting(t)
    <2> DEFINE to == "use"
    <2>1. /\ call' \in [OnceThreads -> Steps] /\ nested' \in [OnceThreads -> Steps]
          /\ \A u \in OnceThreads \ {t} : call'[u] = call[u] /\ nested'[u] = nested[u]
          /\ \/ nested[t] = "spin" /\ nested'[t] = to /\ call'[t] = call[t]
             \/ /\ nested[t] = "idle" /\ nested'[t] = "idle"
                /\ call[t] = "spin" /\ call'[t] = to
        BY <1>2, <1>8, OneCallMoves DEF StopWaiting, Steps
    <2>2. OnceType'
        BY <2>1, <1>8, <1>2 DEF StopWaiting, OnceType, Steps
    <2>3. CallsNest'
        BY <2>1, <1>8, <1>2 DEF StopWaiting, OnceType, CallsNest
    <2>4. OneInside'
        BY <2>1, <1>8, <1>2 DEF StopWaiting, OnceType, OneInside, In
    <2>5. FlagIsOwn'
        BY <2>1, <1>8, <1>2 DEF StopWaiting, OnceType, FlagIsOwn
    <2>6. Progress'
        BY <2>1, <1>8, <1>2 DEF StopWaiting, OnceType, Progress
    <2> QED
        BY <2>2, <2>3, <2>4, <2>5, <2>6 DEF OnceInv
<1>9. CASE UsePointer(t)
    <2> DEFINE to == "idle"
    <2>1. /\ call' \in [OnceThreads -> Steps] /\ nested' \in [OnceThreads -> Steps]
          /\ \A u \in OnceThreads \ {t} : call'[u] = call[u] /\ nested'[u] = nested[u]
          /\ \/ nested[t] = "use" /\ nested'[t] = to /\ call'[t] = call[t]
             \/ /\ nested[t] = "idle" /\ nested'[t] = "idle"
                /\ call[t] = "use" /\ call'[t] = to
        BY <1>2, <1>9, OneCallMoves DEF UsePointer, Steps
    <2>2. OnceType'
        BY <2>1, <1>9, <1>2 DEF UsePointer, OnceType, Steps
    <2>3. CallsNest'
        BY <2>1, <1>9, <1>2 DEF UsePointer, OnceType, CallsNest
    <2>4. OneInside'
        BY <2>1, <1>9, <1>2 DEF UsePointer, OnceType, OneInside, In
    <2>5. FlagIsOwn'
        BY <2>1, <1>9, <1>2 DEF UsePointer, OnceType, FlagIsOwn
    <2>6. Progress'
        BY <2>1, <1>9, <1>2 DEF UsePointer, OnceType, Progress
    <2> QED
        BY <2>2, <2>3, <2>4, <2>5, <2>6 DEF OnceInv
<1>10. CASE Exchange(t)
    <2> DEFINE to == IF once = "new" THEN "enter" ELSE Loser(t)
    <2>1. Stands(t, "claim") /\ Goto(t, to) /\ to \in Steps
        BY <1>10 DEF Exchange, Loser, Steps
    <2>2. /\ call' \in [OnceThreads -> Steps] /\ nested' \in [OnceThreads -> Steps]
          /\ \A u \in OnceThreads \ {t} : call'[u] = call[u] /\ nested'[u] = nested[u]
          /\ \/ nested[t] = "claim" /\ nested'[t] = to /\ call'[t] = call[t]
             \/ /\ nested[t] = "idle" /\ nested'[t] = "idle"
                /\ call[t] = "claim" /\ call'[t] = to
        BY <1>2, <2>1, OneCallMoves DEF Steps
    <2>3. OnceType'
        BY <2>2, <1>10, <1>2 DEF Exchange, Loser, OnceType, Steps
    <2>4. CallsNest'
        BY <2>2, <1>10, <1>2 DEF Exchange, Loser, OnceType, CallsNest, OneInside, In, FlagIsOwn
    <2>5. OneInside'
        BY <2>2, <1>10, <1>2 DEF Exchange, Loser, OnceType, OneInside, In
    <2>6. FlagIsOwn'
        BY <2>2, <1>10, <1>2 DEF Exchange, Loser, OnceType, FlagIsOwn
    <2>7. Progress'
        BY <2>2, <1>10, <1>2 DEF Exchange, Loser, OnceType, FlagIsOwn, OneInside, In, Progress
    <2> QED
        BY <2>3, <2>4, <2>5, <2>6, <2>7 DEF OnceInv
<1>11. CASE ResolveSymbol(t)
    <2>1. OnceType'
        BY <1>11, <1>2 DEF ResolveSymbol, Stands, OnceType, Steps
    <2>2. CallsNest'
        BY <1>11, <1>2 DEF ResolveSymbol, Stands, OnceType, CallsNest
    <2>3. OneInside'
        BY <1>11, <1>2 DEF ResolveSymbol, Stands, OnceType, OneInside, In
    <2>4. FlagIsOwn'
        BY <1>11, <1>2 DEF ResolveSymbol, Stands, OnceType, FlagIsOwn
    <2>5. Progress'
        BY <1>11, <1>2 DEF ResolveSymbol, Stands, OnceType, Progress
    <2> QED
        BY <2>1, <2>2, <2>3, <2>4, <2>5 DEF OnceInv
<1>12. CASE ForkOnce(t)
    <2>1. OnceType'
        <3> DEFINE orphan == onceLog.orphaned \/ once = "running"
        <3>1. onceLog' = [onceLog EXCEPT !.forks = @ + 1, !.orphaned = orphan]
            BY <1>12 DEF ForkOnce
        <3>2. orphan \in BOOLEAN
            BY DEF OnceType
        <3> HIDE DEF orphan
        <3>3. onceLog' \in [calls : Nat, forks : Nat, runs : Nat, orphaned : BOOLEAN]
            <4>1. onceLog \in [calls : Nat, forks : Nat, runs : Nat, orphaned : BOOLEAN]
                BY <1>2 DEF OnceType
            <4>2. onceLog.forks + 1 \in Nat
                BY <4>1
            <4> QED
                BY <4>1, <4>2, <3>1, <3>2, Zenon
        <3> QED
            BY <1>12, <1>2, <3>3 DEF ForkOnce, OnceType, Steps
    <2>2. CallsNest'
        BY <1>12, <1>2 DEF ForkOnce, OnceType, CallsNest
    <2>3. OneInside'
        BY <1>12, <1>2 DEF ForkOnce, OnceType, OneInside, In
    <2>4. FlagIsOwn'
        BY <1>12, <1>2 DEF ForkOnce, OnceType, FlagIsOwn
    <2>5. Progress'
        BY <1>12, <1>2 DEF ForkOnce, OnceType, Progress
    <2> QED
        BY <2>1, <2>2, <2>3, <2>4, <2>5 DEF OnceInv
<1> QED
    BY <1>1, <1>3, <1>4, <1>5, <1>6, <1>7, <1>8, <1>9, <1>10, <1>11, <1>12

(* What a call finds when it returns from chaos_once(), and for whom the   *)
(* others wait: SymbolsAreWhole (chaos_once.h:71), for any number of       *)
(* threads, pointers, calls and forks.                                     *)
THEOREM SymbolsStayWhole == OnceSpec => []SymbolsAreWhole
<1>1. OnceInv => SymbolsAreWhole
    BY DEF OnceInv, OnceType, CallsNest, OneInside, In, Progress, SymbolsAreWhole, Waits, Inside
<1>2. OnceInv /\ UNCHANGED onceVars => OnceInv'
    BY DEF OnceInv, OnceType, CallsNest, OneInside, In, FlagIsOwn, Progress, onceVars
<1>3. OnceInv /\ [OnceNext]_onceVars => OnceInv'
    BY <1>2, OnceStep
<1> QED
    BY <1>1, <1>3, OnceStarts, PTL DEF OnceSpec

-----------------------------------------------------------------------------
(***************************************************************************)
(* REGRESS jumps once, for every set of threads and every number of rules  *)
(* the slot is given to.                                                   *)
(*                                                                         *)
(* The inductive invariant says where a jump that is counted can be: in    *)
(* the slot's state, or with the one thread that decides.  It speaks of    *)
(* clean generations only, those whose slot no read of another generation  *)
(* has touched.                                                            *)
(***************************************************************************)
ReadLabels ==
    {"idle", "current", "fresh", "arm", "jumped", "claim", "decide", "jump", "disarm", "gone"}
Quiet == {"idle", "gone"}
Deciding(t) == rgReads[t].pc \in {"decide", "jump", "disarm"}
Own(t) == rgReads[t].generation
Clean(g) == g \notin rgSeen.mixed

Slots == [used : BOOLEAN, generation : Generations, state : RegressStates]
Reads == [RgThreads -> [pc : ReadLabels, generation : Nat]]
Histories == [hits : [Generations -> Nat], shifted : SUBSET Generations, mixed : SUBSET Generations]

RegressType ==
    /\ rgSlot \in Slots /\ rgReads \in Reads /\ rgForked \in BOOLEAN /\ rgSeen \in Histories

(* A read's copy is of the slot's rule or of an earlier one, and nothing   *)
(* has happened yet under a rule still to come.                            *)
CopiesArePast ==
    /\ \A t \in RgThreads : rgReads[t].pc \notin Quiet =>
        /\ Own(t) \in 1 .. rgSlot.generation
        /\ ~rgSlot.used => Own(t) # rgSlot.generation
    /\ \A g \in Generations : g > rgSlot.generation \/ (g = rgSlot.generation /\ ~rgSlot.used) =>
        rgSeen.hits[g] = 0 /\ g \notin rgSeen.shifted

(* State 3 belongs to one deciding thread.                                 *)
OneDecider ==
    /\ \A t, u \in RgThreads : Deciding(t) /\ Deciding(u) /\ Own(t) = Own(u) /\ Clean(Own(t)) => t = u
    /\ \A t \in RgThreads :
        Deciding(t) /\ Own(t) = rgSlot.generation /\ Clean(Own(t)) => rgSlot.state = 3
    /\ rgSlot.state = 3 =>
        \E t \in RgThreads :
            Deciding(t) /\ (rgSlot.used /\ Clean(rgSlot.generation) => Own(t) = rgSlot.generation)

(* A counted jump is in the slot or about to be stored there.              *)
HitsAreJumps ==
    /\ \A g \in Generations : Clean(g) =>
        /\ rgSeen.hits[g] <= 1
        /\ g \in rgSeen.shifted => rgSeen.hits[g] > 0
    /\ \A t \in RgThreads : rgReads[t].pc = "jump" /\ Clean(Own(t)) => rgSeen.hits[Own(t)] > 0
    /\ rgSlot.used /\ Clean(rgSlot.generation) =>
        /\ rgSlot.state = 2 => rgSeen.hits[rgSlot.generation] > 0
        /\ rgSlot.generation \in rgSeen.shifted => rgSlot.state = 2
        /\ rgSeen.hits[rgSlot.generation] > 0 =>
            \/ rgSlot.state = 2
            \/ \E t \in RgThreads : rgReads[t].pc = "jump" /\ Own(t) = rgSlot.generation

RegressInv == RegressType /\ CopiesArePast /\ OneDecider /\ HitsAreJumps

LEMMA SlotUpdates ==
  ASSUME RegressType, NEW s \in RegressStates
  PROVE  [rgSlot EXCEPT !.state = s] \in Slots
  BY DEF RegressType, Slots

LEMMA ReadUpdates ==
  ASSUME RegressType, NEW t \in RgThreads
  PROVE  /\ \A label \in ReadLabels : [rgReads EXCEPT ![t].pc = label] \in Reads
         /\ [rgReads EXCEPT ![t] = IdleRead] \in Reads
<1>1. IdleRead \in [pc : ReadLabels, generation : Nat]
  BY DEF IdleRead, ReadLabels
<1> QED
  BY <1>1 DEF RegressType, Reads

LEMMA HistoryUpdates ==
  ASSUME RegressType, CopiesArePast, NEW t \in RgThreads, rgReads[t].pc \notin Quiet
  PROVE  /\ [rgSeen EXCEPT !.mixed = @ \cup Mixes(t)] \in Histories
         /\ [rgSeen EXCEPT !.mixed = @ \cup Mixes(t), !.shifted = @ \cup {rgReads[t].generation}]
              \in Histories
<1>1. rgSlot.generation \in Generations /\ rgReads[t].generation \in Generations
  BY RegressAssumption DEF RegressType, CopiesArePast, Slots, Own, Generations
<1> QED
  BY <1>1 DEF Mixes, RegressType, Histories

LEMMA CopiesKeep ==
  ASSUME RegressType, CopiesArePast, NEW t \in RgThreads, rgReads[t].pc \notin Quiet,
         rgSlot'.generation = rgSlot.generation, rgSlot'.used = rgSlot.used,
         \A u \in RgThreads : rgReads'[u].pc \notin Quiet =>
            rgReads'[u].generation = rgReads[u].generation /\ rgReads[u].pc \notin Quiet,
         rgSeen'.shifted \subseteq rgSeen.shifted \cup {Own(t)},
         \A g \in Generations : g # Own(t) => rgSeen'.hits[g] = rgSeen.hits[g]
  PROVE  CopiesArePast'
<1>1. ASSUME NEW u \in RgThreads, rgReads'[u].pc \notin Quiet
      PROVE  /\ rgReads'[u].generation \in 1 .. rgSlot'.generation
             /\ ~rgSlot'.used => rgReads'[u].generation # rgSlot'.generation
  BY <1>1 DEF CopiesArePast, Own
<1>2. ASSUME NEW g \in Generations,
             g > rgSlot'.generation \/ (g = rgSlot'.generation /\ ~rgSlot'.used)
      PROVE  rgSeen'.hits[g] = 0 /\ g \notin rgSeen'.shifted
  <2>1. g # Own(t)
    BY <1>2, RegressAssumption DEF RegressType, Slots, Generations, CopiesArePast
  <2> QED
    BY <1>2, <2>1 DEF CopiesArePast
<1> QED
  BY <1>1, <1>2 DEF CopiesArePast, Own, Quiet

(* A step that touches neither the slot nor the history, of a thread that  *)
(* decides nothing.                                                        *)
LEMMA BystanderKeeps ==
  ASSUME OneDecider, HitsAreJumps, NEW t \in RgThreads, ~Deciding(t), rgReads'[t].pc \notin {"decide", "jump", "disarm"},
         \A u \in RgThreads : u # t => rgReads'[u] = rgReads[u], UNCHANGED <<rgSlot, rgSeen>>
  PROVE  OneDecider' /\ HitsAreJumps'
<1>1. \A u \in RgThreads : (Deciding(u)' <=> Deciding(u)) /\ (Deciding(u) => rgReads'[u] = rgReads[u])
  BY DEF Deciding
<1>2. OneDecider'
  BY <1>1 DEF OneDecider, Own, Clean
<1>3. \A u \in RgThreads :
        /\ rgReads'[u].pc = "jump" <=> rgReads[u].pc = "jump"
        /\ rgReads[u].pc = "jump" => rgReads'[u] = rgReads[u]
  BY DEF Deciding
<1>4. HitsAreJumps'
  BY <1>3 DEF HitsAreJumps, Own, Clean
<1> QED
  BY <1>2, <1>4

LEMMA GenerationsAreNumbers == Generations \subseteq Nat
  BY RegressAssumption DEF Generations

LEMMA RegressBegins == RegressInit => RegressInv
<1> SUFFICES ASSUME RegressInit PROVE RegressInv
  OBVIOUS
<1>1. 1 \in Generations
  BY RegressAssumption DEF Generations
<1>2. RegressType
  <2>1. rgSlot \in Slots
    BY <1>1 DEF RegressInit, Slots, RegressStates
  <2>2. rgReads \in Reads
    BY DEF RegressInit, Reads, IdleRead, ReadLabels
  <2>3. rgSeen \in Histories
    BY DEF RegressInit, Histories
  <2> QED
    BY <2>1, <2>2, <2>3 DEF RegressInit, RegressType
<1>3. CopiesArePast
  BY DEF RegressInit, CopiesArePast, IdleRead, Quiet
<1>4. OneDecider
  BY DEF RegressInit, OneDecider, IdleRead, Deciding
<1>5. HitsAreJumps
  BY <1>1 DEF RegressInit, HitsAreJumps, IdleRead
<1> QED
  BY <1>2, <1>3, <1>4, <1>5 DEF RegressInv

LEMMA BeginReadKeeps ==
  ASSUME RegressInv, NEW t \in RgThreads, BeginRead(t)
  PROVE  RegressInv'
<1> USE DEF RegressInv, BeginRead, ReadAt, ReadGoes, ReadEnds, Sets, Notes, NotesShift
<1>1. RegressType'
  <2>1. rgSlot' \in Slots
    BY DEF RegressType
  <2>2. rgReads' \in Reads
    BY DEF RegressType, Reads, Slots, ReadLabels, Generations
  <2>3. rgSeen' \in Histories
    BY DEF RegressType
  <2> QED
    BY <2>1, <2>2, <2>3 DEF RegressType
<1> USE DEF Mixes, IdleRead, Own, Quiet, Deciding, Clean, RegressType, Slots, Reads, Histories
<1>2. CopiesArePast'
  BY RegressAssumption DEF CopiesArePast, Generations
<1>3. OneDecider'
  BY DEF CopiesArePast, OneDecider
<1>4. HitsAreJumps'
  BY DEF CopiesArePast, OneDecider, HitsAreJumps
<1> QED
  BY <1>1, <1>2, <1>3, <1>4

LEMMA CheckCurrentKeeps ==
  ASSUME RegressInv, NEW t \in RgThreads, CheckCurrent(t)
  PROVE  RegressInv'
<1> USE DEF RegressInv, CheckCurrent, ReadAt, ReadGoes, ReadEnds, Sets, Notes, NotesShift
<1>0. rgReads[t].pc \notin Quiet
  BY DEF Quiet
<1>1. RegressType'
  <2>1. rgSlot' \in Slots
    BY DEF RegressType
  <2>2. rgReads' \in Reads
    BY ReadUpdates DEF RegressType, ReadLabels
  <2>3. rgSeen' \in Histories
    BY DEF RegressType
  <2> QED
    BY <2>1, <2>2, <2>3 DEF RegressType
<1>2. CopiesArePast'
  <2>1. \A u \in RgThreads : rgReads'[u].pc \notin Quiet =>
          rgReads'[u].generation = rgReads[u].generation /\ rgReads[u].pc \notin Quiet
    BY DEF RegressType, Reads, IdleRead, Quiet
  <2>2. /\ rgSlot'.generation = rgSlot.generation /\ rgSlot'.used = rgSlot.used
        /\ rgSeen'.shifted \subseteq rgSeen.shifted \cup {Own(t)}
        /\ \A g \in Generations : g # Own(t) => rgSeen'.hits[g] = rgSeen.hits[g]
    BY DEF RegressType, Slots, Histories, Own
  <2> QED
    BY <1>0, <2>1, <2>2, CopiesKeep
<1>3. /\ ~Deciding(t) /\ rgReads'[t].pc \notin {"decide", "jump", "disarm"}
      /\ \A u \in RgThreads : u # t => rgReads'[u] = rgReads[u]
  BY DEF RegressType, Reads, IdleRead, Deciding
<1> QED
  BY <1>1, <1>2, <1>3, BystanderKeeps

LEMMA LookFreshKeeps ==
  ASSUME RegressInv, NEW t \in RgThreads, LookFresh(t)
  PROVE  RegressInv'
<1> USE DEF RegressInv, LookFresh, ReadAt, ReadGoes, ReadEnds, Sets, Notes, NotesShift
<1>0. rgReads[t].pc \notin Quiet
  BY DEF Quiet
<1>1. RegressType'
  <2>1. rgSlot' \in Slots
    BY DEF RegressType
  <2>2. rgReads' \in Reads
    BY ReadUpdates DEF RegressType, ReadLabels
  <2>3. rgSeen' \in Histories
    BY DEF RegressType
  <2> QED
    BY <2>1, <2>2, <2>3 DEF RegressType
<1>2. CopiesArePast'
  <2>1. \A u \in RgThreads : rgReads'[u].pc \notin Quiet =>
          rgReads'[u].generation = rgReads[u].generation /\ rgReads[u].pc \notin Quiet
    BY DEF RegressType, Reads, IdleRead, Quiet
  <2>2. /\ rgSlot'.generation = rgSlot.generation /\ rgSlot'.used = rgSlot.used
        /\ rgSeen'.shifted \subseteq rgSeen.shifted \cup {Own(t)}
        /\ \A g \in Generations : g # Own(t) => rgSeen'.hits[g] = rgSeen.hits[g]
    BY DEF RegressType, Slots, Histories, Own
  <2> QED
    BY <1>0, <2>1, <2>2, CopiesKeep
<1>3. /\ ~Deciding(t) /\ rgReads'[t].pc \notin {"decide", "jump", "disarm"}
      /\ \A u \in RgThreads : u # t => rgReads'[u] = rgReads[u]
  BY DEF RegressType, Reads, IdleRead, Deciding
<1> QED
  BY <1>1, <1>2, <1>3, BystanderKeeps

LEMMA ArmKeeps ==
  ASSUME RegressInv, NEW t \in RgThreads, Arm(t)
  PROVE  RegressInv'
<1> USE DEF RegressInv, Arm, ReadAt, ReadGoes, ReadEnds, Sets, Notes, NotesShift
<1>0. rgReads[t].pc \notin Quiet
  BY DEF Quiet
<1>1. RegressType'
  <2>1. rgSlot' \in Slots
    BY SlotUpdates DEF RegressType, RegressStates, Slots
  <2>2. rgReads' \in Reads
    BY ReadUpdates DEF RegressType, ReadLabels
  <2>3. rgSeen' \in Histories
    BY <1>0, HistoryUpdates DEF RegressType
  <2> QED
    BY <2>1, <2>2, <2>3 DEF RegressType
<1>2. CopiesArePast'
  <2>1. \A u \in RgThreads : rgReads'[u].pc \notin Quiet =>
          rgReads'[u].generation = rgReads[u].generation /\ rgReads[u].pc \notin Quiet
    BY DEF RegressType, Reads, IdleRead, Quiet
  <2>2. /\ rgSlot'.generation = rgSlot.generation /\ rgSlot'.used = rgSlot.used
        /\ rgSeen'.shifted \subseteq rgSeen.shifted \cup {Own(t)}
        /\ \A g \in Generations : g # Own(t) => rgSeen'.hits[g] = rgSeen.hits[g]
    BY DEF RegressType, Slots, Histories, Own
  <2> QED
    BY <1>0, <2>1, <2>2, CopiesKeep
<1> USE DEF Mixes, IdleRead, Own, Quiet, Deciding, Clean, RegressType, Slots, Reads, Histories
<1>3. OneDecider'
  BY DEF CopiesArePast, OneDecider
<1>4. HitsAreJumps'
  BY DEF CopiesArePast, OneDecider, HitsAreJumps
<1> QED
  BY <1>1, <1>2, <1>3, <1>4

LEMMA LookJumpedKeeps ==
  ASSUME RegressInv, NEW t \in RgThreads, LookJumped(t)
  PROVE  RegressInv'
<1> USE DEF RegressInv, LookJumped, ReadAt, ReadGoes, ReadEnds, Sets, Notes, NotesShift
<1>0. rgReads[t].pc \notin Quiet
  BY DEF Quiet
<1>1. RegressType'
  <2>1. rgSlot' \in Slots
    BY DEF RegressType
  <2>2. rgReads' \in Reads
    BY ReadUpdates DEF RegressType, ReadLabels
  <2>3. rgSeen' \in Histories
    BY <1>0, HistoryUpdates DEF RegressType
  <2> QED
    BY <2>1, <2>2, <2>3 DEF RegressType
<1>2. CopiesArePast'
  <2>1. \A u \in RgThreads : rgReads'[u].pc \notin Quiet =>
          rgReads'[u].generation = rgReads[u].generation /\ rgReads[u].pc \notin Quiet
    BY DEF RegressType, Reads, IdleRead, Quiet
  <2>2. /\ rgSlot'.generation = rgSlot.generation /\ rgSlot'.used = rgSlot.used
        /\ rgSeen'.shifted \subseteq rgSeen.shifted \cup {Own(t)}
        /\ \A g \in Generations : g # Own(t) => rgSeen'.hits[g] = rgSeen.hits[g]
    BY DEF RegressType, Slots, Histories, Own
  <2> QED
    BY <1>0, <2>1, <2>2, CopiesKeep
<1>3. /\ \A u \in RgThreads : u # t => rgReads'[u] = rgReads[u]
      /\ ~Deciding(t) /\ ~Deciding(t)'
      /\ UNCHANGED rgSlot /\ rgSeen'.hits = rgSeen.hits
      /\ rgSeen.mixed \subseteq rgSeen'.mixed
  <2>1. CASE rgSlot.state = 2
    <3>1. rgReads' = [rgReads EXCEPT ![t] = IdleRead] /\ UNCHANGED rgSlot
      BY <2>1
    <3>2. rgSeen'.hits = rgSeen.hits /\ rgSeen.mixed \subseteq rgSeen'.mixed
      <4>1. rgSeen \in [hits : [Generations -> Nat], shifted : SUBSET Generations, mixed : SUBSET Generations]
        BY DEF RegressType, Histories
      <4>2. PICK m, g : rgSeen' = [rgSeen EXCEPT !.mixed = rgSeen.mixed \cup m, !.shifted = rgSeen.shifted \cup {g}]
        BY <2>1
      <4> HIDE DEF RegressInv, LookJumped, ReadAt, ReadGoes, ReadEnds, Sets, Notes, NotesShift
      <4> QED
        BY <4>1, <4>2
    <3> QED
      BY <3>1, <3>2 DEF RegressType, Reads, IdleRead, Deciding
  <2>2. CASE rgSlot.state # 2
    BY <2>2 DEF RegressType, Reads, Deciding
  <2> QED
    BY <2>1, <2>2
<1>4. \/ rgSeen' = rgSeen
      \/ /\ rgSlot.state = 2
         /\ rgSeen'.shifted = rgSeen.shifted \cup {Own(t)}
         /\ Own(t) # rgSlot.generation =>
              Own(t) \in rgSeen'.mixed /\ rgSlot.generation \in rgSeen'.mixed
  <2>1. CASE rgSlot.state = 2
    <3>1. /\ rgSeen'.shifted = rgSeen.shifted \cup {Own(t)}
          /\ rgSeen'.mixed = rgSeen.mixed \cup Mixes(t)
      BY <2>1 DEF RegressType, Histories, Own
    <3> QED
      BY <2>1, <3>1 DEF Mixes, Own
  <2>2. CASE rgSlot.state # 2
    BY <2>2
  <2> QED
    BY <2>1, <2>2
<1> HIDE DEF LookJumped
<1>5. OneDecider'
  BY <1>3 DEF OneDecider, Deciding, Own, Clean
<1>6. HitsAreJumps'
  <2>1. \A u \in RgThreads : rgReads'[u].pc = "jump" => rgReads'[u] = rgReads[u]
    BY <1>3 DEF Deciding
  <2>2. CASE rgSeen' = rgSeen
    BY <1>3, <2>1, <2>2 DEF HitsAreJumps, Deciding, Own, Clean
  <2>3. CASE rgSeen' # rgSeen
    <3>1. Own(t) \notin rgSeen'.mixed => Own(t) = rgSlot.generation /\ rgSlot.used /\ rgSlot.state = 2
      BY <1>0, <1>4, <2>3 DEF CopiesArePast
    <3>2. Own(t) \notin rgSeen'.mixed => rgSeen.hits[Own(t)] > 0
      BY <3>1, <1>3 DEF HitsAreJumps, Clean
    <3>3. \A g \in Generations : g \notin rgSeen'.mixed /\ g \in rgSeen'.shifted => rgSeen.hits[g] > 0
      BY <1>3, <1>4, <2>3, <3>2 DEF HitsAreJumps, Clean
    <3> QED
      BY <1>3, <1>4, <2>1, <2>3, <3>3 DEF HitsAreJumps, Deciding, Own, Clean
  <2> QED
    BY <2>2, <2>3
<1> QED
  BY <1>1, <1>2, <1>5, <1>6

LEMMA ClaimKeeps ==
  ASSUME RegressInv, NEW t \in RgThreads, Claim(t)
  PROVE  RegressInv'
<1> USE DEF RegressInv, Claim, ReadAt, ReadGoes, ReadEnds, Sets, Notes, NotesShift
<1>0. rgReads[t].pc \notin Quiet
  BY DEF Quiet
<1>1. RegressType'
  <2>1. rgSlot' \in Slots
    BY SlotUpdates DEF RegressType, RegressStates
  <2>2. rgReads' \in Reads
    BY ReadUpdates DEF RegressType, ReadLabels
  <2>3. rgSeen' \in Histories
    BY <1>0, HistoryUpdates DEF RegressType
  <2> QED
    BY <2>1, <2>2, <2>3 DEF RegressType
<1>2. CopiesArePast'
  <2>1. \A u \in RgThreads : rgReads'[u].pc \notin Quiet =>
          rgReads'[u].generation = rgReads[u].generation /\ rgReads[u].pc \notin Quiet
    BY DEF RegressType, Reads, IdleRead, Quiet
  <2>2. /\ rgSlot'.generation = rgSlot.generation /\ rgSlot'.used = rgSlot.used
        /\ rgSeen'.shifted \subseteq rgSeen.shifted \cup {Own(t)}
        /\ \A g \in Generations : g # Own(t) => rgSeen'.hits[g] = rgSeen.hits[g]
    BY DEF RegressType, Slots, Histories, Own
  <2> QED
    BY <1>0, <2>1, <2>2, CopiesKeep
<1> USE DEF Mixes, IdleRead, Own, Quiet, Deciding, Clean, RegressType, Slots, Reads, Histories
<1>3. OneDecider'
  <2>1. CASE rgSlot.state # 1
    <3>1. /\ \A u \in RgThreads : u # t => rgReads'[u] = rgReads[u]
          /\ ~Deciding(t) /\ ~Deciding(t)' /\ UNCHANGED <<rgSlot, rgSeen>>
      BY <2>1
    <3> QED
      BY <3>1 DEF OneDecider
  <2>2. CASE rgSlot.state = 1
    <3>1. /\ \A u \in RgThreads : u # t => rgReads'[u] = rgReads[u]
          /\ Deciding(t)' /\ Own(t)' = Own(t) /\ rgSlot'.state = 3
          /\ rgSlot'.generation = rgSlot.generation /\ rgSlot'.used = rgSlot.used
          /\ rgSeen.mixed \subseteq rgSeen'.mixed
          /\ Own(t) # rgSlot.generation =>
               Own(t) \in rgSeen'.mixed /\ rgSlot.generation \in rgSeen'.mixed
      BY <2>2
    <3>2. \A u \in RgThreads : u # t /\ Deciding(u) /\ Own(u) = Own(t) => Own(t) \in rgSeen'.mixed
      BY <2>2, <3>1 DEF OneDecider
    <3> HIDE DEF Claim, Own, Deciding, RegressType
    <3>3. \A u \in RgThreads : u # t => Own(u)' = Own(u) /\ Deciding(u)' = Deciding(u)
      BY <3>1 DEF Own, Deciding
    <3> QED
      BY <3>1, <3>2, <3>3 DEF OneDecider
  <2> QED
    BY <2>1, <2>2
<1>4. HitsAreJumps'
  <2>1. \A v \in RgThreads : v # t => rgReads'[v] = rgReads[v]
    BY DEF Reads, RegressType
  <2>2. ~Deciding(t) /\ rgReads'[t].pc # "jump"
    BY DEF Reads, RegressType, Deciding
  <2>3. CASE rgSlot.state # 1
    <3>1. UNCHANGED <<rgSlot, rgSeen>> /\ rgReads'[t].pc \notin {"decide", "jump", "disarm"}
      BY <2>3
    <3> QED
      BY <2>1, <2>2, <3>1, BystanderKeeps
  <2>4. CASE rgSlot.state = 1
    <3>1. /\ rgSlot'.state = 3 /\ rgSlot'.used = rgSlot.used
          /\ rgSlot'.generation = rgSlot.generation
          /\ rgSeen'.hits = rgSeen.hits /\ rgSeen'.shifted = rgSeen.shifted
          /\ rgSeen.mixed \subseteq rgSeen'.mixed
      BY <2>4
    <3>2. \A v \in RgThreads : rgReads'[v].pc = "jump" <=> rgReads[v].pc = "jump"
      BY <2>1, <2>2 DEF Deciding
    <3>3. \A v \in RgThreads : rgReads[v].pc = "jump" => rgReads'[v] = rgReads[v]
      BY <2>1, <2>2 DEF Deciding
    <3> HIDE DEF Claim, Deciding, RegressType, Mixes
    <3> QED
      BY <2>4, <3>1, <3>2, <3>3 DEF HitsAreJumps
  <2> QED
    BY <2>3, <2>4
<1> QED
  BY <1>1, <1>2, <1>3, <1>4

LEMMA DecideKeeps ==
  ASSUME RegressInv, NEW t \in RgThreads, Decide(t)
  PROVE  RegressInv'
<1> USE DEF RegressInv, Decide, ReadAt, ReadGoes, ReadEnds, Sets, Notes, NotesShift
<1>0. rgReads[t].pc \notin Quiet
  BY DEF Quiet
<1>1. RegressType'
  <2>1. rgSlot' \in Slots
    BY DEF RegressType
  <2>2. rgReads' \in Reads
    BY ReadUpdates DEF RegressType, ReadLabels
  <2>3. rgSeen' \in Histories
    BY DEF RegressType, Histories, Slots
  <2> QED
    BY <2>1, <2>2, <2>3 DEF RegressType
<1>2. CopiesArePast'
  <2>1. \A u \in RgThreads : rgReads'[u].pc \notin Quiet =>
          rgReads'[u].generation = rgReads[u].generation /\ rgReads[u].pc \notin Quiet
    BY DEF RegressType, Reads, IdleRead, Quiet
  <2>2. /\ rgSlot'.generation = rgSlot.generation /\ rgSlot'.used = rgSlot.used
        /\ rgSeen'.shifted \subseteq rgSeen.shifted \cup {Own(t)}
        /\ \A g \in Generations : g # Own(t) => rgSeen'.hits[g] = rgSeen.hits[g]
    BY DEF RegressType, Slots, Histories, Own
  <2> QED
    BY <1>0, <2>1, <2>2, CopiesKeep
<1> USE DEF Mixes, IdleRead, Own, Quiet, Deciding, Clean, RegressType, Slots, Reads, Histories
<1>3. OneDecider'
  <2>1. /\ \A u \in RgThreads : u # t => rgReads'[u] = rgReads[u]
        /\ Deciding(t) /\ Deciding(t)' /\ Own(t)' = Own(t)
        /\ rgSeen'.mixed = rgSeen.mixed /\ UNCHANGED rgSlot
    OBVIOUS
  <2>2. \A u \in RgThreads : Deciding(u)' = Deciding(u) /\ Own(u)' = Own(u)
    BY <2>1
  <2> HIDE DEF Own, Deciding, Decide, RegressType
  <2> QED
    BY <2>1, <2>2 DEF OneDecider
<1>4. HitsAreJumps'
  <2>1. CASE rgReads' = [rgReads EXCEPT ![t].pc = "disarm"] /\ UNCHANGED rgSeen
    BY <2>1 DEF HitsAreJumps
  <2>2. CASE /\ Own(t) = rgSlot.generation
             /\ rgSeen' = [rgSeen EXCEPT !.hits[rgSlot.generation] = @ + 1]
             /\ rgReads' = [rgReads EXCEPT ![t].pc = "jump"]
    <3>1. Clean(Own(t)) => rgSlot.state = 3 /\ rgSlot.used
      BY <1>0, <2>2 DEF OneDecider, CopiesArePast
    <3>2. Clean(Own(t)) => ~\E u \in RgThreads : rgReads[u].pc = "jump" /\ Own(u) = Own(t)
      BY DEF OneDecider
    <3>3. Clean(Own(t)) => ~(rgSeen.hits[Own(t)] > 0) /\ Own(t) \notin rgSeen.shifted
      BY <2>2, <3>1, <3>2 DEF HitsAreJumps
    <3>4. /\ rgSeen.hits[Own(t)] \in Nat /\ rgSeen'.hits[Own(t)] = rgSeen.hits[Own(t)] + 1
          /\ \A g \in Generations : g # Own(t) => rgSeen'.hits[g] = rgSeen.hits[g]
          /\ rgSeen'.mixed = rgSeen.mixed /\ rgSeen'.shifted = rgSeen.shifted
          /\ \A u \in RgThreads : u # t => rgReads'[u] = rgReads[u]
          /\ rgReads'[t].pc = "jump" /\ Own(t)' = Own(t) /\ UNCHANGED rgSlot
      BY <2>2
    <3> HIDE DEF Decide, RegressType
    <3>5. \A g \in Generations : Clean(g)' =>
            /\ rgSeen'.hits[g] <= 1
            /\ (g \in rgSeen'.shifted => rgSeen'.hits[g] > 0)
      BY <3>3, <3>4 DEF HitsAreJumps
    <3>6. \A u \in RgThreads : rgReads'[u].pc = "jump" /\ Clean(Own(u))' => rgSeen'.hits[Own(u)'] > 0
      <4> SUFFICES ASSUME NEW u \in RgThreads, rgReads'[u].pc = "jump", Clean(Own(u))', u # t
                   PROVE  rgSeen'.hits[Own(u)'] > 0
        BY <3>4
      <4>1. Own(u) \in Generations
        BY <3>4, RegressAssumption DEF CopiesArePast, RegressType, Generations
      <4>2. rgSeen.hits[Own(u)] > 0
        BY <3>4 DEF HitsAreJumps
      <4> QED
        BY <3>4, <4>1, <4>2
    <3> QED
      BY <2>2, <3>1, <3>3, <3>4, <3>5, <3>6 DEF HitsAreJumps
  <2> QED
    BY <2>1, <2>2
<1> QED
  BY <1>1, <1>2, <1>3, <1>4

LEMMA JumpKeeps ==
  ASSUME RegressInv, NEW t \in RgThreads, Jump(t)
  PROVE  RegressInv'
<1> USE DEF RegressInv, Jump, ReadAt, ReadGoes, ReadEnds, Sets, Notes, NotesShift
<1>0. rgReads[t].pc \notin Quiet
  BY DEF Quiet
<1>1. RegressType'
  <2>1. rgSlot' \in Slots
    BY SlotUpdates DEF RegressType, RegressStates
  <2>2. rgReads' \in Reads
    BY ReadUpdates DEF RegressType, ReadLabels
  <2>3. rgSeen' \in Histories
    BY <1>0, HistoryUpdates DEF RegressType
  <2> QED
    BY <2>1, <2>2, <2>3 DEF RegressType
<1>2. CopiesArePast'
  <2>1. \A u \in RgThreads : rgReads'[u].pc \notin Quiet =>
          rgReads'[u].generation = rgReads[u].generation /\ rgReads[u].pc \notin Quiet
    BY DEF RegressType, Reads, IdleRead, Quiet
  <2>2. /\ rgSlot'.generation = rgSlot.generation /\ rgSlot'.used = rgSlot.used
        /\ rgSeen'.shifted \subseteq rgSeen.shifted \cup {Own(t)}
        /\ \A g \in Generations : g # Own(t) => rgSeen'.hits[g] = rgSeen.hits[g]
    BY DEF RegressType, Slots, Histories, Own
  <2> QED
    BY <1>0, <2>1, <2>2, CopiesKeep
<1> USE DEF Mixes, IdleRead, Own, Quiet, Deciding, Clean, RegressType, Slots, Reads, Histories
<1>3. OneDecider'
  BY DEF CopiesArePast, OneDecider
<1>4. HitsAreJumps'
  BY DEF CopiesArePast, OneDecider, HitsAreJumps
<1> QED
  BY <1>1, <1>2, <1>3, <1>4

LEMMA DisarmKeeps ==
  ASSUME RegressInv, NEW t \in RgThreads, Disarm(t)
  PROVE  RegressInv'
<1> USE DEF RegressInv, Disarm, ReadAt, ReadGoes, ReadEnds, Sets, Notes, NotesShift
<1>0. rgReads[t].pc \notin Quiet
  BY DEF Quiet
<1>1. RegressType'
  <2>1. rgSlot' \in Slots
    BY SlotUpdates DEF RegressType, RegressStates
  <2>2. rgReads' \in Reads
    BY ReadUpdates DEF RegressType, ReadLabels
  <2>3. rgSeen' \in Histories
    BY <1>0, HistoryUpdates DEF RegressType
  <2> QED
    BY <2>1, <2>2, <2>3 DEF RegressType
<1>2. CopiesArePast'
  <2>1. \A u \in RgThreads : rgReads'[u].pc \notin Quiet =>
          rgReads'[u].generation = rgReads[u].generation /\ rgReads[u].pc \notin Quiet
    BY DEF RegressType, Reads, IdleRead, Quiet
  <2>2. /\ rgSlot'.generation = rgSlot.generation /\ rgSlot'.used = rgSlot.used
        /\ rgSeen'.shifted \subseteq rgSeen.shifted \cup {Own(t)}
        /\ \A g \in Generations : g # Own(t) => rgSeen'.hits[g] = rgSeen.hits[g]
    BY DEF RegressType, Slots, Histories, Own
  <2> QED
    BY <1>0, <2>1, <2>2, CopiesKeep
<1> USE DEF Mixes, IdleRead, Own, Quiet, Deciding, Clean, RegressType, Slots, Reads, Histories
<1>3. OneDecider'
  BY DEF CopiesArePast, OneDecider
<1>4. HitsAreJumps'
  BY DEF CopiesArePast, OneDecider, HitsAreJumps
<1> QED
  BY <1>1, <1>2, <1>3, <1>4

LEMMA ForkRegressKeeps ==
  ASSUME RegressInv, NEW t \in RgThreads, ForkRegress(t)
  PROVE  RegressInv'
<1> USE DEF RegressInv, ForkRegress, ReadAt, ReadGoes, ReadEnds, Sets, Notes, NotesShift
<1>1. RegressType'
  <2>1. rgSlot' \in Slots
    <3>1. CASE rgSlot.state = 3
      BY <3>1, SlotUpdates DEF RegressStates
    <3>2. CASE rgSlot.state # 3
      BY <3>2 DEF RegressType, Slots
    <3> QED
      BY <3>1, <3>2
  <2>2. rgReads' \in Reads
    BY DEF RegressType, Reads, IdleRead, ReadLabels
  <2>3. rgSeen' \in Histories
    BY DEF RegressType, Histories, Slots
  <2> QED
    BY <2>1, <2>2, <2>3 DEF RegressType
<1> USE DEF Mixes, IdleRead, Own, Quiet, Deciding, Clean, RegressType, Slots, Reads, Histories
<1>2. CopiesArePast'
  BY RegressAssumption DEF CopiesArePast, Generations
<1>3. OneDecider'
  BY DEF CopiesArePast, OneDecider
<1>4. HitsAreJumps'
  BY DEF CopiesArePast, OneDecider, HitsAreJumps
<1> QED
  BY <1>1, <1>2, <1>3, <1>4

LEMMA DropRuleKeeps ==
  ASSUME RegressInv, DropRule
  PROVE  RegressInv'
<1> USE DEF RegressInv, DropRule, Own, Quiet, Deciding, Clean
<1>1. RegressType'
  <2>1. rgSlot' \in Slots
    <3>1. rgSlot.generation + 1 \in Generations
      BY RegressAssumption DEF RegressType, Slots, Generations
    <3>2. rgSlot' = [used |-> FALSE, generation |-> rgSlot.generation + 1, state |-> rgSlot.state]
      BY DEF RegressType, Slots
    <3> QED
      BY <3>1, <3>2 DEF RegressType, Slots
  <2>2. rgReads' \in Reads
    BY DEF RegressType
  <2>3. rgSeen' \in Histories
    BY DEF RegressType
  <2> QED
    BY <2>1, <2>2, <2>3 DEF RegressType
<1> USE DEF RegressType, Slots, Reads, Histories
<1>2. CopiesArePast'
  BY RegressAssumption DEF CopiesArePast, Generations
<1>3. OneDecider'
  <2>1. /\ rgSlot.generation \in Nat /\ rgSlot'.generation = rgSlot.generation + 1
        /\ ~rgSlot'.used /\ rgSlot'.state = rgSlot.state /\ rgSlot.used
    BY GenerationsAreNumbers
  <2>2. \A t \in RgThreads : rgReads[t].pc \notin Quiet => Own(t) # rgSlot'.generation
    BY <2>1 DEF CopiesArePast
  <2>3. \A t \in RgThreads : Deciding(t) => rgReads[t].pc \notin Quiet
    OBVIOUS
  <2>4. rgSlot.state = 3 => \E t \in RgThreads : Deciding(t)
    BY <2>1 DEF OneDecider
  <2> QED
    BY <2>1, <2>2, <2>3, <2>4 DEF OneDecider
<1>4. HitsAreJumps'
  BY RegressAssumption DEF CopiesArePast, OneDecider, HitsAreJumps, Generations
<1> QED
  BY <1>1, <1>2, <1>3, <1>4

LEMMA AssignRuleKeeps ==
  ASSUME RegressInv, AssignRule
  PROVE  RegressInv'
<1> USE DEF RegressInv, AssignRule, Own, Quiet, Deciding, Clean
<1>1. RegressType'
  <2>1. rgSlot' \in Slots
    <3>1. rgSlot' = [used |-> TRUE, generation |-> rgSlot.generation, state |-> 0]
      BY DEF RegressType, Slots
    <3>2. rgSlot.generation \in Generations /\ 0 \in RegressStates
      BY DEF RegressType, Slots, RegressStates
    <3> QED
      BY <3>1, <3>2 DEF Slots
  <2>2. rgReads' \in Reads
    BY DEF RegressType
  <2>3. rgSeen' \in Histories
    BY DEF RegressType
  <2> QED
    BY <2>1, <2>2, <2>3 DEF RegressType
<1> USE DEF RegressType, Slots, Reads, Histories
<1>2. CopiesArePast'
  BY RegressAssumption DEF CopiesArePast, Generations
<1>3. OneDecider'
  BY RegressAssumption DEF CopiesArePast, OneDecider, Generations
<1>4. HitsAreJumps'
  BY RegressAssumption DEF CopiesArePast, OneDecider, HitsAreJumps, Generations
<1> QED
  BY <1>1, <1>2, <1>3, <1>4

LEMMA RegressKeeps == RegressInv /\ [RegressNext]_rgVars => RegressInv'
<1> SUFFICES ASSUME RegressInv, [RegressNext]_rgVars PROVE RegressInv'
  OBVIOUS
<1>1. ASSUME NEW t \in RgThreads,
             \/ BeginRead(t) \/ CheckCurrent(t) \/ LookFresh(t) \/ Arm(t) \/ LookJumped(t)
             \/ Claim(t) \/ Decide(t) \/ Jump(t) \/ Disarm(t) \/ ForkRegress(t)
      PROVE  RegressInv'
  BY <1>1, BeginReadKeeps, CheckCurrentKeeps, LookFreshKeeps, ArmKeeps, LookJumpedKeeps, ClaimKeeps,
     DecideKeeps, JumpKeeps, DisarmKeeps, ForkRegressKeeps
<1>2. CASE DropRule
  BY <1>2, DropRuleKeeps
<1>3. CASE AssignRule
  BY <1>3, AssignRuleKeeps
<1>4. CASE UNCHANGED rgVars
  BY <1>4 DEF rgVars, RegressInv, RegressType, CopiesArePast, OneDecider, HitsAreJumps, Own, Quiet,
       Deciding, Clean
<1> QED
  BY <1>1, <1>2, <1>3, <1>4 DEF RegressNext

(* The clock jumps once under a rule, the jump is counted once and before  *)
(* any read shows it, and state 3 never lacks a decider: for every set of  *)
(* reading threads and every number of rules (chaos_time_rule_apply_regress). *)
THEOREM RegressJumpsOnce == RegressSpec => []OneJump
<1>1. RegressInv => OneJump
  BY DEF RegressInv, OneDecider, HitsAreJumps, OneJump, Deciding, Clean
<1> QED
  BY <1>1, RegressBegins, RegressKeeps, PTL DEF RegressSpec
=============================================================================
