--------------------------------- MODULE Once ---------------------------------
(***************************************************************************)
(* chaos_once() (common/chaos_once.h), as every library uses it: the first *)
(* wrapper call, or the constructor, resolves the real functions one by    *)
(* one; the others wait. A thread runs at most two calls at a time: its    *)
(* own, and one made by the allocator while dlsym() runs, or by a signal   *)
(* handler.                                                                *)
(***************************************************************************)
EXTENDS Naturals

CONSTANTS
    OnceThreads,
    Symbols,        \* number of function pointers a library resolves
    Signals,        \* handlers call wrappers too
    MaxOnceCalls,   \* bound on the calls
    MaxOnceForks    \* bound on the forks

ASSUME OnceAssumption == /\ Symbols \in Nat \ {0} /\ Signals \in BOOLEAN
                         /\ MaxOnceCalls \in Nat /\ MaxOnceForks \in Nat

VARIABLES
    once,      \* the chaos_once_t: 0 "new", 1 "running", 2 "done"
    running,   \* g_chaos_once_running of each thread
    resolved,  \* pointers set so far
    call,      \* where each thread's own call is
    nested,    \* where the call that interrupts it is
    onceLog    \* calls and forks so far, runs of the initialiser (history),
               \* and whether a fork left the child without one

onceVars == <<once, running, resolved, call, nested, onceLog>>

Steps  == {"idle", "load", "claim", "enter", "resolve", "finish", "spin", "use"}
Inside == {"enter", "resolve", "finish"}  \* between winning the exchange and DONE

OnceInit ==
    /\ once = "new" /\ resolved = 0
    /\ running = [t \in OnceThreads |-> FALSE]
    /\ call = [t \in OnceThreads |-> "idle"] /\ nested = call
    /\ onceLog = [calls |-> 0, forks |-> 0, runs |-> 0, orphaned |-> FALSE]

\* The call a thread is executing, and its next step.
Stands(t, step) == step = IF nested[t] # "idle" THEN nested[t] ELSE call[t]
Goto(t, step) ==
    IF nested[t] # "idle" THEN nested' = [nested EXCEPT ![t] = step] /\ UNCHANGED call
                          ELSE call' = [call EXCEPT ![t] = step] /\ UNCHANGED nested

\* A wrapper asks for its real function: out of the application, out of an
\* allocator under dlsym(), or out of a signal handler.
CallWrapper(t) ==
    /\ onceLog.calls < MaxOnceCalls
    /\ \/ call[t] = "idle" /\ call' = [call EXCEPT ![t] = "load"] /\ UNCHANGED nested
       \/ /\ nested[t] = "idle" /\ (call[t] = "resolve" \/ (Signals /\ call[t] # "idle"))
          /\ nested' = [nested EXCEPT ![t] = "load"] /\ UNCHANGED call
    /\ onceLog' = [onceLog EXCEPT !.calls = @ + 1]
    /\ UNCHANGED <<once, running, resolved>>

FastPath(t) ==
    /\ Stands(t, "load") /\ Goto(t, IF once = "done" THEN "use" ELSE "claim")
    /\ UNCHANGED <<once, running, resolved, onceLog>>

\* Who lost the exchange goes on at once when its own thread is initialising,
\* and waits otherwise.
LoserOfAny(t) == IF \E u \in OnceThreads : running[u] THEN "use" ELSE "spin" \* mutant: the flag is not per thread
Loser(t) == IF running[t] THEN "use" ELSE "spin"
Exchange(t) ==
    /\ Stands(t, "claim")
    /\ IF once = "new"
       THEN once' = "running" /\ Goto(t, "enter") /\ onceLog' = [onceLog EXCEPT !.runs = @ + 1]
       ELSE Goto(t, Loser(t)) /\ UNCHANGED <<once, onceLog>>
    /\ UNCHANGED <<running, resolved>>

Enter(t) ==
    /\ Stands(t, "enter") /\ Goto(t, "resolve") /\ running' = [running EXCEPT ![t] = TRUE]
    /\ UNCHANGED <<once, resolved, onceLog>>

ResolveSymbol(t) ==
    /\ Stands(t, "resolve") /\ resolved < Symbols /\ resolved' = resolved + 1
    /\ UNCHANGED <<once, running, call, nested, onceLog>>

Leave(t) ==
    /\ Stands(t, "resolve") /\ resolved = Symbols
    /\ Goto(t, "finish") /\ running' = [running EXCEPT ![t] = FALSE]
    /\ UNCHANGED <<once, resolved, onceLog>>

Finish(t) ==
    /\ Stands(t, "finish") /\ Goto(t, "use") /\ once' = "done"
    /\ UNCHANGED <<running, resolved, onceLog>>

StopWaiting(t) ==
    /\ Stands(t, "spin") /\ once = "done" /\ Goto(t, "use")
    /\ UNCHANGED <<once, running, resolved, onceLog>>

\* The wrapper calls through its pointer, or falls back when that is not set.
UsePointer(t) ==
    /\ Stands(t, "use") /\ Goto(t, "idle")
    /\ UNCHANGED <<once, running, resolved, onceLog>>

\* The child of a thread between two calls has that thread only, and no
\* atfork handler resets the word.
ForkOnce(t) ==
    /\ call[t] = "idle" /\ onceLog.forks < MaxOnceForks
    /\ call' = [u \in OnceThreads |-> "idle"] /\ nested' = call'
    /\ running' = [u \in OnceThreads |-> FALSE]
    /\ onceLog' = [onceLog EXCEPT !.forks = @ + 1, !.orphaned = @ \/ once = "running"]
    /\ UNCHANGED <<once, resolved>>

OnceNext == \E t \in OnceThreads :
    \/ CallWrapper(t) \/ FastPath(t) \/ Exchange(t) \/ Enter(t) \/ ResolveSymbol(t)
    \/ Leave(t) \/ Finish(t) \/ StopWaiting(t) \/ UsePointer(t) \/ ForkOnce(t)

OnceSpec == OnceInit /\ [][OnceNext]_onceVars

\* A wrapper finds every pointer set, unless it was called from within the
\* initialiser of its own thread (chaos_io.c:291); the initialiser runs once;
\* and who waits, waits for another thread that is still initialising
\* (chaos_once.h:61). Two exceptions: a handler that interrupts its thread
\* between the exchange and the flag waits for itself, and an orphaned child
\* for nobody.
Waits(t) == (call[t] = "spin" \/ nested[t] = "spin") /\ once # "done"
SymbolsAreWhole ==
    /\ onceLog.runs <= 1
    /\ \A t \in OnceThreads :
         /\ call[t] = "use" => resolved = Symbols
         /\ nested[t] = "use" => resolved = Symbols \/ call[t] = "resolve"
         /\ Waits(t) => \/ Signals \/ onceLog.orphaned
                        \/ \E u \in OnceThreads \ {t} : call[u] \in Inside
=============================================================================
