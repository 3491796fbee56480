---------------------------- MODULE InitTracees ----------------------------
(***************************************************************************)
(* chaos-init's table of traced processes (src/src/init/chaos_init_tracee.c)*)
(* and the FAIL_AFTER counters kept beside it (chaos_init_process.c): one  *)
(* supervisor counts and reports for many processes, which fork, replace   *)
(* their image, die and have their pids taken over, while the table is     *)
(* smaller than their number and the rule file is reloaded.                *)
(***************************************************************************)
EXTENDS Integers, Sequences, FiniteSetsExt, SequencesExt, Functions

CONSTANTS
  Pids,
  First,        \* the application
  Capacity,     \* CHAOS_INIT_MAX_TRACEES
  Eager,        \* CHAOS_HITS_EAGER
  RuleFiles,    \* the sets of rule texts loaded one after the other
  MaxImages, MaxCalls   \* bounds

ASSUME TraceesAssumption ==
  /\ First \in Pids /\ Pids \subseteq Nat \ {0} /\ Capacity \in Nat \ {0} /\ Eager \in Nat
  /\ Len(RuleFiles) > 0 /\ MaxImages \in Nat \ {0} /\ MaxCalls \in Nat

VARIABLES
  proc,       \* per pid: its image (start time and addresses, 0: no process), its parent,
              \* whether execve loaded the image
  load,       \* rule loads so far
  entry,      \* the table: pid (0: free), image, serial of each entry
  order,      \* entries by age, oldest first
  slots,      \* per entry: generation, count per rule, total, pending, file number
  counters,   \* per entry: count, load and owner; and the snapshot of the latest fork
  files,      \* hits files: <<pid, number>> to counts
  lastImage, lastSerial,
  hits,       \* history: per image and rule
  made,       \* history: FAIL_AFTER calls of each pid's image under this load, with what its
              \* parent had made when it forked
  kin,        \* history: calls of the pid itself under this load, over all its images
  seen,       \* history: the count each pid's image saw at its last such call
  origin,     \* history: the image a file was written for
  calls
traceeVars == <<proc, load, entry, order, slots, counters, files, lastImage, lastSerial, hits, made, kin, seen, origin, calls>>

Entries == 1..Capacity
Texts   == UNION ToSet(RuleFiles)
Active  == RuleFiles[load]
Images  == 1..MaxImages
FreeSlots == [gen |-> 0, count |-> <<>>, total |-> 0, pending |-> FALSE, file |-> 0]
NoFork  == [n |-> 0, load |-> 0, owner |-> 0]

TraceesInit ==
  /\ proc = [p \in Pids |-> [image |-> IF p = First THEN 1 ELSE 0, parent |-> 0, execs |-> FALSE]]
  /\ load = 1 /\ entry = [e \in Entries |-> [pid |-> 0, image |-> 0, serial |-> 0]]
  /\ order = [e \in Entries |-> e] /\ slots = [e \in Entries |-> FreeSlots]
  /\ counters = [e \in Entries |-> [n |-> 0, load |-> 0, owner |-> 0, fork |-> NoFork]]
  /\ files = <<>> /\ lastImage = 1 /\ lastSerial = 0
  /\ hits = [i \in Images |-> [r \in Texts |-> 0]] 
  /\ made = [p \in Pids |-> 0] /\ kin = [p \in Pids |-> 0] /\ seen = [p \in Pids |-> 0]
  /\ origin = <<>> /\ calls = 0

Alive(p) == proc[p].image # 0

(***************************************************************************)
(* Slots and their file                                                    *)
(***************************************************************************)
\* A rule that stays keeps its count, by its text.
Sync(s) ==
  IF s.gen = load THEN s
  ELSE [s EXCEPT !.gen = load, !.count = [r \in Active |-> IF r \in DOMAIN s.count THEN s.count[r] ELSE 0]]

\* The number kept, or one no file of the pid has: it may hold the hits of an
\* earlier image, or of a dead process with the same pid.
Fresh(p, taken) == CHOOSE n \in 1..(Cardinality(taken) + 1) :
                     <<p, n>> \notin taken /\ \A m \in 1..(n - 1) : <<p, m>> \in taken
State == [slots |-> slots, entry |-> entry, files |-> files, origin |-> origin]
Write(S, e) ==
  LET s == Sync(S.slots[e])
      p == S.entry[e].pid
      n == IF s.file # 0 THEN s.file ELSE Fresh(p, DOMAIN S.files)
  IN  [S EXCEPT !.slots[e] = [s EXCEPT !.pending = FALSE, !.file = n],
                !.files = (<<p, n>> :> s.count) @@ @,
                !.origin = (<<p, n>> :> S.entry[e].image) @@ @]
\* Writes what is pending and frees the entry.
DropSilent(S, e) == [S EXCEPT !.slots[e] = FreeSlots, !.entry[e].pid = 0]  \* mutant: pending hits go unwritten
Emptied(S, e) == [S EXCEPT !.slots[e] = FreeSlots, !.entry[e].pid = 0]
Drop(S, e) == Emptied(IF S.slots[e].pending THEN Write(S, e) ELSE S, e)
DropAll(S, es) == FoldSet(LAMBDA e, T : Drop(T, e), S, es)

(***************************************************************************)
(* chaos_init_tracee_of: the entry of the caller's process                 *)
(***************************************************************************)
Mine(e, p) == entry[e].pid = p /\ entry[e].image = proc[p].image
Free(S)    == {e \in Entries : S.entry[e].pid = 0}
\* Processes that ended, and pids that now name another process or image.
Gone(S)    == {e \in Entries : S.entry[e].pid # 0 /\ S.entry[e].image # proc[S.entry[e].pid].image}
Take(S, e, p) == [S EXCEPT !.entry[e] = [pid |-> p, image |-> proc[p].image, serial |-> lastSerial + 1]]
Swept(S)   == IF Free(S) = {} THEN DropAll(S, Gone(S)) ELSE S
Evicted(S) == IF Free(S) = {} THEN Drop(S, Head(order)) ELSE S
Admitted(S, e, p) == [at |-> e, in |-> Take(S, e, p)]
Entered(S, p)     == Admitted(S, Min(Free(S)), p)
Located(p) ==
  IF \E e \in Entries : Mine(e, p) THEN [at |-> CHOOSE e \in Entries : Mine(e, p), in |-> State]
  ELSE Entered(Evicted(Swept(DropAll(State, {e \in Entries : entry[e].pid = p}))), p)
Commit(S, e) ==
  /\ slots' = S.slots /\ entry' = S.entry /\ files' = S.files /\ origin' = S.origin
  /\ order' = Append(Remove(order, e), e)
  /\ lastSerial' = Max({lastSerial, S.entry[e].serial})

Synced(S, e)      == [S EXCEPT !.slots[e] = Sync(@)]
Counting(S, e, r) == [Synced(S, e) EXCEPT !.slots[e].count[r] = @ + 1, !.slots[e].total = @ + 1]
Reported(S, e)    == IF S.slots[e].total <= Eager THEN Write(S, e) ELSE [S EXCEPT !.slots[e].pending = TRUE]
\* A call of p matches rule r and fires: counted for p, reported at once for
\* the first hits and later for the others.
Hit(p, r) ==
  /\ Alive(p) /\ r \in Active /\ calls < MaxCalls /\ calls' = calls + 1
  /\ \E L \in {Located(p)} : Commit(Reported(Counting(L.in, L.at, r), L.at), L.at)
  /\ hits' = [hits EXCEPT ![proc[p].image][r] = @ + 1]
  /\ UNCHANGED <<proc, load, counters, lastImage, made, kin, seen>>

\* chaos_init_tracee_flush: what is pending, or at the end every entry with hits.
Flush(all) ==
  \E due \in {{e \in Entries : entry[e].pid # 0 /\ (slots[e].pending \/ (all /\ slots[e].total # 0))}} :
      /\ due # {}
      /\ \E S \in {FoldSet(LAMBDA e, T : Write(T, e), State, due)} :
           slots' = S.slots /\ files' = S.files /\ origin' = S.origin
      /\ UNCHANGED <<proc, load, entry, order, counters, lastImage, lastSerial, hits, made, kin, seen, calls>>

(***************************************************************************)
(* FAIL_AFTER                                                              *)
(***************************************************************************)
\* chaos_init_process_counters_of: [count, snapshot taken from].
SameOwnerAny(c, serial) == TRUE  \* mutant: the entry's counters outlive their process
SameOwner(c, serial) == c.owner = serial
Parents(S, p)  == {x \in Entries : S.entry[x].pid # 0 /\ S.entry[x].pid = proc[p].parent}
Legacy(S, p)   == {x \in Parents(S, p) : counters[x].fork.owner = S.entry[x].serial /\ counters[x].fork.load = load}
Inherited(e, serial, heirs) ==
  [x \in Entries |->
     IF x = e THEN [counters[e] EXCEPT !.n = IF heirs = {} THEN 0 ELSE counters[CHOOSE h \in heirs : TRUE].fork.n,
                                       !.load = load, !.owner = serial]
     ELSE IF x \in heirs THEN [counters[x] EXCEPT !.fork.owner = 0] ELSE counters[x]]
CountersOf(S, e, p) ==
  IF SameOwner(counters[e], S.entry[e].serial)
  THEN IF counters[e].load = load THEN counters ELSE Inherited(e, S.entry[e].serial, {})
  ELSE Inherited(e, S.entry[e].serial, Legacy(S, p))

\* A process call of p that a FAIL_AFTER rule matches.
Count(p, kind) ==
  /\ Alive(p) /\ calls < MaxCalls /\ calls' = calls + 1
  /\ \E L \in {Located(p)} :
       /\ Commit(Synced(L.in, L.at), L.at)
       /\ \E C \in {[CountersOf(L.in, L.at, p) EXCEPT ![L.at].n = @ + 1]} :
            /\ counters' = IF kind = "fork"
                           THEN [C EXCEPT ![L.at].fork =
                                   [n |-> C[L.at].n, load |-> load, owner |-> L.in.entry[L.at].serial]]
                           ELSE C
            /\ seen' = [seen EXCEPT ![p] = IF kind = "exec" THEN 0 ELSE C[L.at].n]
Counted(f, p) == [f EXCEPT ![p] = @ + 1]
Wait(p) ==
  /\ Count(p, "wait") /\ made' = Counted(made, p) /\ kin' = Counted(kin, p)
  /\ UNCHANGED <<proc, load, lastImage, hits>>
\* The kernel may still refuse the fork.
Fork(p) ==
  /\ Count(p, "fork")
  /\ \/ /\ lastImage < MaxImages /\ lastImage' = lastImage + 1
        /\ \E c \in Pids :
             /\ ~Alive(c) /\ proc' = [proc EXCEPT ![c] = [image |-> lastImage', parent |-> p, execs |-> FALSE]]
             /\ made' = [Counted(made, p) EXCEPT ![c] = made[p] + 1]
             /\ kin' = [Counted(kin, p) EXCEPT ![c] = 0]
     \/ UNCHANGED <<proc, lastImage>> /\ made' = Counted(made, p) /\ kin' = Counted(kin, p)
  /\ UNCHANGED <<load, hits>>
\* The new image has the pid and its parent, nothing else.
Exec(p) ==
  /\ Count(p, "exec") /\ lastImage < MaxImages /\ lastImage' = lastImage + 1
  /\ proc' = [proc EXCEPT ![p].image = lastImage', ![p].execs = TRUE]
  /\ made' = [made EXCEPT ![p] = 0] /\ kin' = Counted(kin, p)
  /\ UNCHANGED <<load, hits>>

\* What a pid and its ancestors made.
Family(p) ==
  LET line[n \in 0..Cardinality(Pids)] ==
        IF n = 0 THEN {p} ELSE line[n - 1] \cup ({proc[q].parent : q \in line[n - 1]} \ {0})
  IN  MapThenSumSet(LAMBDA q : kin[q], line[Cardinality(Pids)])
Die(p) ==
  /\ Alive(p)
  /\ proc' = [q \in Pids |-> IF q = p THEN [image |-> 0, parent |-> 0, execs |-> FALSE]
                             ELSE IF proc[q].parent = p THEN [proc[q] EXCEPT !.parent = 0] ELSE proc[q]]
  /\ seen' = [seen EXCEPT ![p] = 0]
  /\ kin' = [q \in Pids |-> IF proc[q].parent = p THEN kin[q] + Family(p) ELSE kin[q]]
  /\ UNCHANGED <<load, entry, order, slots, counters, files, lastImage, lastSerial, hits, made, origin, calls>>
\* chaos_init_process_snapshot sees another stamp or snapshot.
Reload ==
  /\ load < Len(RuleFiles) /\ load' = load + 1
  /\ made' = [p \in Pids |-> 0] /\ kin' = [p \in Pids |-> 0] /\ seen' = [p \in Pids |-> 0]
  /\ UNCHANGED <<proc, entry, order, slots, counters, files, lastImage, lastSerial, hits, origin, calls>>

TraceesNext ==
  \/ \E p \in Pids : Wait(p) \/ Fork(p) \/ Exec(p) \/ Die(p) \/ \E r \in Texts : Hit(p, r)
  \/ Reload \/ \E all \in BOOLEAN : Flush(all)

(***************************************************************************)
(* Properties                                                              *)
(***************************************************************************)
\* No two entries stand for one process, and the ages name every entry once.
TypeOK ==
  /\ \A e, d \in Entries : entry[e].pid # 0 /\ entry[e].pid = entry[d].pid => e = d
  /\ Len(order) = Capacity /\ ToSet(order) = Entries
  /\ DOMAIN files \subseteq Pids \X Nat /\ DOMAIN files = DOMAIN origin
  /\ \A e \in Entries : slots[e].gen \in 0..load /\ counters[e].load \in 0..load

\* Rules no load so far has dropped.
Kept == {r \in Texts : \A g \in 1..load : r \in RuleFiles[g]}
Open == {e \in Entries : entry[e].pid # 0}
InFiles(i, r) ==
  LET closed == {f \in DOMAIN files : origin[f] = i /\ ~\E e \in Open : entry[e].pid = f[1] /\ slots[e].file = f[2]}
  IN  MapThenSumSet(LAMBDA f : IF r \in DOMAIN files[f] THEN files[f][r] ELSE 0, closed)
InTable(i, r) ==
  MapThenSumSet(LAMBDA e : IF r \in DOMAIN slots[e].count THEN slots[e].count[r] ELSE 0,
                {e \in Open : entry[e].image = i})
\* Over all its files and its entry, a process image is credited with exactly
\* the hits its own calls took: none is lost when an entry is evicted, its pid
\* reused, its image replaced or the rules reloaded, none goes to another.
HitsAddUp == \A i \in Images, r \in Kept : InFiles(i, r) + InTable(i, r) = hits[i][r]

\* A process is never failed early by calls that neither it nor its parent,
\* nor an earlier ancestor made under the active rules, whoever had its entry
\* before.
CountersStayInTheFamily == \A p \in Pids : Alive(p) => seen[p] <= Family(p)

=============================================================================
