------------------------------ MODULE FdCache ------------------------------
(***************************************************************************)
(* The descriptor-to-path cache of libchaos-io                             *)
(* (src/src/config/chaos_io_fdcache.c) between the wrappers that resolve a *)
(* descriptor to match rules (chaos_io_match_fd_rule) and the wrappers     *)
(* that change what a descriptor names (open, close, dup2, closefrom,      *)
(* rename, unlink and their kin).  One action per access to shared memory  *)
(* or to the kernel's descriptor table.                                    *)
(***************************************************************************)
EXTENDS Integers, FiniteSetsExt

CONSTANTS
  Threads,     \* threads of the process
  Fds,         \* descriptor numbers above 2
  SlotCount,   \* CHAOS_IO_FD_CACHE_SLOTS; descriptors share a slot modulo it
  Links,       \* what /proc/self/fd/<fd> may read as
  Excluded,    \* the links no rule is applied to and no slot caches
  RawCalls,    \* calls libchaos-io does not see: subset of {"open", "close"}
  MaxCalls,    \* bound: resolutions
  MaxChanges,  \* bound: calls that change what a descriptor names
  MaxForks     \* bound: fork() calls

ASSUME ConstantsAssumption ==
  /\ Fds \subseteq Nat \ (0..2) /\ SlotCount \in Nat \ {0}
  /\ "" \notin Links /\ Excluded \subseteq Links /\ RawCalls \subseteq {"open", "close"}
  /\ MaxCalls \in Nat /\ MaxChanges \in Nat /\ MaxForks \in Nat

Slots  == 0..(SlotCount - 1)
Slot(fd) == fd % SlotCount
NoFd   == 0
NoLink == ""

VARIABLES
  (* the kernel and the application *)
  link,        \* per descriptor: what it names, NoLink when closed
  owned,       \* descriptors an open-like call has returned and none closed
  (* the cache *)
  mapped,      \* the table has been published
  entry,       \* chaos_io_fd_cache_entry_t per slot; a path is two words
  generation,  \* g_chaos_io_fd_generation
  (* the threads *)
  pc, at, mem, \* next access; descriptor in hand; sequence, generation, path
  todo,        \* slots still to be invalidated by the call under way
  (* history *)
  leaving,     \* per thread: names its call has ended but not yet invalidated
  lost,        \* the same, of calls that no invalidation follows: raw, or cut by a fork
  allowed,     \* per thread: the names its resolution may answer
  (* bounds *)
  calls, changes, forks

kernel  == <<link, owned>>
cache   == <<mapped, entry, generation>>
locals  == <<pc, at, mem, todo>>
history == <<leaving, lost, allowed>>
bounds  == <<calls, changes, forks>>
vars    == <<kernel, cache, locals, history, bounds>>

NoMem == [seq |-> 0, gen |-> 0, head |-> NoLink, tail |-> NoLink]
Names == Links \cup {NoLink}

\* Zero-filled pages are an empty cache; the descriptors open at the start.
Init ==
  /\ link \in [Fds -> {NoLink} \cup (Links \ Excluded)]
  /\ owned = {fd \in Fds : link[fd] # NoLink}
  /\ mapped = FALSE
  /\ entry = [s \in Slots |-> [seq |-> 0, fd |-> NoFd, gen |-> 0, head |-> NoLink, tail |-> NoLink]]
  /\ generation = [s \in Slots |-> 0]
  /\ pc = [t \in Threads |-> "idle"] /\ at = [t \in Threads |-> NoFd]
  /\ mem = [t \in Threads |-> NoMem] /\ todo = [t \in Threads |-> {}]
  /\ leaving = [t \in Threads |-> {}] /\ lost = {}
  /\ allowed = [t \in Threads |-> {}]
  /\ calls = 0 /\ changes = 0 /\ forks = 0

Goto(t, label) == pc' = [pc EXCEPT ![t] = label]
Entry(t) == entry[Slot(at[t])]
SetEntry(t, field, value) == entry' = [entry EXCEPT ![Slot(at[t])][field] = value]
Keep(t, field, value) == mem' = [mem EXCEPT ![t][field] = value]

\* Names that have ended without an invalidation so far, and all the names a
\* resolution of fd that starts now may therefore find.
Stale == lost \cup UNION {leaving[u] : u \in Threads}
Nameable(fd) == {link[fd]} \cup {e[2] : e \in {x \in Stale : x[1] = fd}}

-----------------------------------------------------------------------------
(* chaos_io_fdcache_resolve: lookup, else readlink and store.              *)

\* chaos_io_match_fd_rule on a descriptor of the application's.
StartResolve(t, fd) ==
  /\ pc[t] = "idle" /\ fd \in owned /\ calls < MaxCalls
  /\ calls' = calls + 1
  /\ at' = [at EXCEPT ![t] = fd]
  /\ allowed' = [allowed EXCEPT ![t] = Nameable(fd)]
  /\ Goto(t, IF mapped THEN "sequence" ELSE "sample")
  /\ UNCHANGED <<kernel, cache, mem, todo, leaving, lost, changes, forks>>

\* chaos_io_fdcache_lookup, one load after the other; a miss goes on to the
\* readlink.
Lookup(t) ==
  /\ \/ /\ pc[t] = "sequence"
        /\ Keep(t, "seq", Entry(t).seq)
        /\ Goto(t, IF Entry(t).seq % 2 = 1 THEN "sample" ELSE "compare")
     \/ /\ pc[t] = "compare"
        /\ Goto(t, IF Entry(t).fd = at[t] THEN "tag" ELSE "sample")
        /\ UNCHANGED mem
     \/ pc[t] = "tag" /\ Keep(t, "gen", Entry(t).gen) /\ Goto(t, "head")
     \/ pc[t] = "head" /\ Keep(t, "head", Entry(t).head) /\ Goto(t, "tail")
     \/ pc[t] = "tail" /\ Keep(t, "tail", Entry(t).tail) /\ Goto(t, "validate")
  /\ UNCHANGED <<kernel, cache, at, todo, history, bounds>>

UnmovedAlways(t) == TRUE \* mutant: the sequence is not read again
Unmoved(t) == Entry(t).seq = mem[t].seq

ValidateSequence(t) ==
  /\ pc[t] = "validate"
  /\ Goto(t, IF Unmoved(t) THEN "current" ELSE "sample")
  /\ UNCHANGED <<kernel, cache, at, mem, todo, history, bounds>>

ValidateGeneration(t) ==
  /\ pc[t] = "current"
  /\ Goto(t, IF mem[t].gen = generation[Slot(at[t])] THEN "answer" ELSE "sample")
  /\ UNCHANGED <<kernel, cache, at, mem, todo, history, bounds>>

\* The generation, before the readlink.
SampleGeneration(t) ==
  /\ pc[t] = "sample"
  /\ Keep(t, "gen", generation[Slot(at[t])])
  /\ Goto(t, "readlink")
  /\ UNCHANGED <<kernel, cache, at, todo, history, bounds>>

Tag(t) == mem[t].gen

\* A closed descriptor and an excluded path answer nothing.
ReadLink(t) ==
  /\ pc[t] = "readlink"
  /\ IF link[at[t]] \in {NoLink} \cup Excluded
       THEN mem' = [mem EXCEPT ![t] = NoMem] /\ Goto(t, "answer")
       ELSE /\ mem' = [mem EXCEPT ![t].head = link[at[t]], ![t].tail = link[at[t]], ![t].seq = 0]
            /\ Goto(t, "map")
  /\ UNCHANGED <<kernel, cache, at, todo, history, bounds>>

\* chaos_io_fdcache_table: of two threads that map, the loser of the exchange
\* uses the winner's table; a failed mapping only skips this store.
MapTable(t) ==
  /\ pc[t] = "map"
  /\ \/ mapped' = TRUE /\ Goto(t, "load")
     \/ ~mapped /\ Goto(t, "answer") /\ UNCHANGED mapped
  /\ UNCHANGED <<kernel, entry, generation, at, mem, todo, history, bounds>>

\* chaos_io_fdcache_store_at: a busy slot is skipped.
LoadSequence(t) ==
  /\ pc[t] = "load"
  /\ Keep(t, "seq", Entry(t).seq)
  /\ Goto(t, IF Entry(t).seq % 2 = 1 THEN "answer" ELSE "claim")
  /\ UNCHANGED <<kernel, cache, at, todo, history, bounds>>

Claimable(t) == Entry(t).seq = mem[t].seq

ClaimSlot(t) ==
  /\ pc[t] = "claim"
  /\ IF Claimable(t)
       THEN SetEntry(t, "seq", mem[t].seq + 1) /\ Goto(t, "put fd")
       ELSE Goto(t, "answer") /\ UNCHANGED entry
  /\ UNCHANGED <<kernel, mapped, generation, at, mem, todo, history, bounds>>

FillSlot(t) ==
  /\ \/ pc[t] = "put fd" /\ SetEntry(t, "fd", at[t]) /\ Goto(t, "put tag")
     \/ pc[t] = "put tag" /\ SetEntry(t, "gen", Tag(t)) /\ Goto(t, "put head")
     \/ pc[t] = "put head" /\ SetEntry(t, "head", mem[t].head) /\ Goto(t, "put tail")
     \/ pc[t] = "put tail" /\ SetEntry(t, "tail", mem[t].tail) /\ Goto(t, "publish")
     \/ pc[t] = "publish" /\ SetEntry(t, "seq", mem[t].seq + 2) /\ Goto(t, "answer")
  /\ UNCHANGED <<kernel, mapped, generation, at, mem, todo, history, bounds>>

\* The wrapper goes on to match the path in mem, or none.
Return(t) ==
  /\ pc[t] = "answer"
  /\ Goto(t, "idle")
  /\ at' = [at EXCEPT ![t] = NoFd] /\ mem' = [mem EXCEPT ![t] = NoMem]
  /\ allowed' = [allowed EXCEPT ![t] = {}]
  /\ UNCHANGED <<kernel, cache, todo, leaving, lost, bounds>>

Resolve(t) ==
  \/ \E fd \in Fds : StartResolve(t, fd)
  \/ Lookup(t) \/ ValidateSequence(t) \/ ValidateGeneration(t)
  \/ SampleGeneration(t) \/ ReadLink(t) \/ MapTable(t)
  \/ LoadSequence(t) \/ ClaimSlot(t) \/ FillSlot(t) \/ Return(t)

-----------------------------------------------------------------------------
(* Calls that change what descriptors name: the real call, then the slots. *)

\* The descriptors named as in new from now on, and who is told.
Change(new) ==
  /\ changes < MaxChanges /\ changes' = changes + 1
  /\ link' = new
  /\ allowed' = [u \in Threads |->
       IF at[u] # NoFd /\ pc[u] # "invalidate" THEN allowed[u] \cup {new[at[u]]} ELSE allowed[u]]

Ended(new) == {<<fd, link[fd]>> : fd \in {x \in Fds : link[x] # NoLink /\ new[x] # link[x]}}

\* A wrapper of such a call returned from the kernel: fd is the descriptor its
\* caller gets, the slots of outdated are invalidated next.
Wrapped(t, new, fd, outdated) ==
  /\ pc[t] = "idle"
  /\ Change(new)
  /\ leaving' = [leaving EXCEPT ![t] = Ended(new)]
  /\ todo' = [todo EXCEPT ![t] = outdated]
  /\ at' = [at EXCEPT ![t] = fd]
  /\ Goto(t, "invalidate")
  /\ UNCHANGED <<cache, mem, lost, calls, forks>>

\* open, openat, creat, fopen: chaos_io_cache_open_result.
Open(t) ==
  \E fd \in Fds, l \in Links :
    /\ link[fd] = NoLink
    /\ Wrapped(t, [link EXCEPT ![fd] = l], fd, {Slot(fd)})
    /\ UNCHANGED owned

\* close, closedir, pclose, fclose: whatever the real call returns.
Close(t) ==
  \E fd \in owned :
    /\ Wrapped(t, [link EXCEPT ![fd] = NoLink], NoFd, {Slot(fd)})
    /\ owned' = owned \ {fd}

\* dup2 and dup3 of one descriptor of the application's onto another number.
DupOutdatesNone(fd) == {} \* mutant: only close() invalidates
DupOutdates(fd) == {Slot(fd)}

Dup(t) ==
  \E old \in owned, fd \in Fds :
    /\ fd # old
    /\ fd \in owned \/ link[fd] = NoLink
    /\ Wrapped(t, [link EXCEPT ![fd] = link[old]], fd, DupOutdates(fd))
    /\ UNCHANGED owned

\* close_range and closefrom: the slots of a short range, all of a long one.
RangeOutdates(range) ==
  IF Cardinality(range) >= SlotCount THEN Slots ELSE {Slot(fd) : fd \in range}

CloseRange(t) ==
  \E lowest \in Fds :
    LET range == {fd \in Fds : fd >= lowest}
    IN  /\ range \subseteq owned
        /\ Wrapped(t, [fd \in Fds |-> IF fd \in range THEN NoLink ELSE link[fd]], NoFd,
                   RangeOutdates(range))
        /\ owned' = owned \ range

\* renameat, renameat2 and unlinkat that succeed: every descriptor that named
\* the file reads differently, every slot is outdated.
Relink(t) ==
  \E old \in Links, new \in Links :
    /\ old # new /\ \E fd \in owned : link[fd] = old
    /\ Wrapped(t, [fd \in Fds |-> IF link[fd] = old THEN new ELSE link[fd]], NoFd, Slots)
    /\ UNCHANGED owned

\* chaos_io_fdcache_invalidate and _reset, one increment a step.  With the last
\* the call returns; an open-like call hands its descriptor to the application,
\* unless another thread has closed it since.
Bumped(slot) == [generation EXCEPT ![slot] = @ + 1]

Invalidate(t) ==
  /\ pc[t] = "invalidate"
  /\ IF todo[t] = {}
       THEN UNCHANGED <<generation, todo>>
       ELSE /\ generation' = Bumped(Min(todo[t]))
            /\ todo' = [todo EXCEPT ![t] = @ \ {Min(@)}]
  /\ IF Cardinality(todo[t]) > 1
       THEN UNCHANGED <<owned, pc, at, leaving, lost>>
       ELSE /\ owned' = owned \cup {fd \in Fds : fd = at[t] /\ link[fd] # NoLink}
            /\ at' = [at EXCEPT ![t] = NoFd]
            /\ Goto(t, "idle")
            /\ leaving' = [u \in Threads |->
                 IF u = t THEN {} ELSE {e \in leaving[u] : e[1] # at[t]}]
            /\ lost' = {e \in lost : e[1] # at[t]}
  /\ UNCHANGED <<link, mapped, entry, mem, allowed, bounds>>

-----------------------------------------------------------------------------
(* What libchaos-io does not see: socket, pipe, accept, a raw close.       *)

RawOpen ==
  /\ "open" \in RawCalls
  /\ \E fd \in Fds, l \in Links :
       /\ link[fd] = NoLink
       /\ Change([link EXCEPT ![fd] = l])
       /\ owned' = owned \cup {fd}
  /\ UNCHANGED <<cache, locals, leaving, lost, calls, forks>>

RawClose ==
  /\ "close" \in RawCalls
  /\ \E fd \in owned :
       /\ Change([link EXCEPT ![fd] = NoLink])
       /\ owned' = owned \ {fd}
       /\ lost' = lost \cup {<<fd, link[fd]>>}
  /\ UNCHANGED <<cache, locals, leaving, calls, forks>>

\* fork() by an idle thread, seen from the child.  The table, claimed slots and
\* generations are inherited; invalidations under way never happen.
Fork(t) ==
  /\ pc[t] = "idle" /\ forks < MaxForks
  /\ forks' = forks + 1
  /\ pc' = [u \in Threads |-> "idle"] /\ at' = [u \in Threads |-> NoFd]
  /\ mem' = [u \in Threads |-> NoMem] /\ todo' = [u \in Threads |-> {}]
  /\ lost' = lost \cup UNION {leaving[u] : u \in Threads}
  /\ leaving' = [u \in Threads |-> {}] /\ allowed' = [u \in Threads |-> {}]
  /\ UNCHANGED <<kernel, cache, calls, changes>>

Next ==
  \/ \E t \in Threads :
       Resolve(t) \/ Open(t) \/ Close(t) \/ Dup(t) \/ CloseRange(t) \/ Relink(t) \/ Invalidate(t) \/ Fork(t)
  \/ RawOpen \/ RawClose

Spec == Init /\ [][Next]_vars

-----------------------------------------------------------------------------
Entries == [seq : Nat, fd : Fds \cup {NoFd}, gen : Nat, head : Names, tail : Names]
Copies  == [seq : Nat, gen : Nat, head : Names, tail : Names]
Labels  == {"idle", "sequence", "compare", "tag", "head", "tail", "validate", "current", "sample",
            "readlink", "map", "load", "claim", "put fd", "put tag", "put head", "put tail",
            "publish", "answer", "invalidate"}

\* Descriptors, slots and locals are well formed.
TypeOK ==
  /\ link \in [Fds -> Names] /\ owned \subseteq Fds
  /\ mapped \in BOOLEAN /\ entry \in [Slots -> Entries] /\ generation \in [Slots -> Nat]
  /\ pc \in [Threads -> Labels] /\ at \in [Threads -> Fds \cup {NoFd}]
  /\ mem \in [Threads -> Copies] /\ todo \in [Threads -> SUBSET Slots]
  /\ leaving \in [Threads -> SUBSET (Fds \X Links)] /\ lost \subseteq Fds \X Links
  /\ allowed \in [Threads -> SUBSET Names]

\* A lookup of fd that began and ended now would hit.
Valid(fd) ==
  LET e == entry[Slot(fd)] IN mapped /\ e.seq % 2 = 0 /\ e.fd = fd /\ e.gen = generation[Slot(fd)]

\* What the cache would answer for a descriptor of the application's is the
\* whole path of the file it names.  The only other answers are names ended by
\* a call whose wrapper has yet to invalidate, by one a fork cut short before
\* it did, or by one libchaos-io does not see; stores, closes, dup2 and reuse
\* by any number of threads add none, and the next open of the number ends it.
CacheIsTrue ==
  \A fd \in owned : Valid(fd) =>
    /\ entry[Slot(fd)].head = entry[Slot(fd)].tail
    /\ entry[Slot(fd)].head \in Nameable(fd)

\* A rule is matched against a path the descriptor had at some time during the
\* call, or one of those exceptions: never a torn path, never one whose end was
\* invalidated before the call.
AnswersAreNames ==
  \A t \in Threads : pc[t] = "answer" /\ mem[t].head # NoLink =>
    /\ mem[t].head = mem[t].tail
    /\ mem[t].head \in allowed[t]

=============================================================================
