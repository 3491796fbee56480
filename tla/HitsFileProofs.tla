--------------------------- MODULE HitsFileProofs ---------------------------
(***************************************************************************)
(* Proofs about HitsFile, for every set of threads, processes and process  *)
(* ids, every cast and every bound.                                        *)
(***************************************************************************)
EXTENDS HitsFile, TLAPS

WriterLabels == {"sample", "test", "format", "publish", "truncate", "fill", "release"}
Filling      == {"format", "publish", "truncate", "fill"}
Watching     == WriterLabels \cup {"claim", "retest"}

(***************************************************************************)
(* The invariants, each inductive with those before it.                    *)
(***************************************************************************)
\* The flag has one owner, and only a live process has threads in the code.
WriterOf(t) ==
  /\ pc[t] \in WriterLabels => My(t).writing
  /\ pc[t] \notin {"idle", "ended"} => My(t).up
WriterInv ==
  /\ \A t \in Threads : WriterOf(t)
  /\ \A t, u \in Threads :
       ProcOf[t] = ProcOf[u] /\ pc[t] \in WriterLabels /\ pc[u] \in WriterLabels => t = u

\* A file cannot be half written unless a rename was refused.
WholeInv ==
  "sticky" \notin faults =>
    /\ \A n \in Numbers : file[n].whole
    /\ \A t \in Threads : pc[t] \notin {"truncate", "fill"}

\* Who believes to own a name has its file under it.
Safe == {"space", "links"} \cap faults = {}
OwnedInv ==
  Safe =>
    /\ \A p \in Procs : proc[p].owned => file[proc[p].number].by = p
    /\ \A t \in Threads : pc[t] \in {"truncate", "fill"} => My(t).owned

\* Nothing that was written, or is about to be, exceeds the hits taken.
Below(lines, bound) == \A i \in DOMAIN lines : lines[i].hits <= bound[lines[i].rule]
BookOf(p)   == \A r \in Rules : proc[p].count[r] <= proc[p].taken[r]
BufferOf(t) == Below(mem[t].lines, My(t).taken)
PostedAt(n) == file[n].by \in Procs => Below(file[n].lines, proc[file[n].by].taken)
DownOf(p) ==
  ~proc[p].up =>
    /\ \A n \in Numbers : file[n].by # p
    /\ \A t \in Threads : ProcOf[t] = p => mem[t].lines = <<>>
TakenInv ==
  /\ \A p \in Procs : BookOf(p) /\ DownOf(p)
  /\ \A t \in Threads : BufferOf(t)
  /\ \A n \in Numbers : PostedAt(n)

\* The flag is never left behind, and a due hit has a thread that will look.
WatchOf(p) ==
  /\ proc[p].writing => \E t \in Threads : ProcOf[t] = p /\ pc[t] \in WriterLabels
  /\ proc[p].due => proc[p].pending
  /\ proc[p].due => \E t \in Threads : ProcOf[t] = p /\ pc[t] \in Watching
WatchInv == \A p \in Procs : WatchOf(p)

\* With nothing pending and no hit on its way, the lines in the writer's
\* buffer, and those of the file when nobody writes, are up to date.
Counting(p) == \E t \in Threads : ProcOf[t] = p /\ pc[t] = "count"
Composing(p) == \E t \in Threads : ProcOf[t] = p /\ pc[t] \in Filling
Settled(p)  == ~proc[p].pending /\ ~Counting(p)
Covers(lines, bound) == \A i \in DOMAIN lines : lines[i].hits >= bound[lines[i].rule]
LinesOf(t) ==
  pc[t] \in Filling /\ Settled(ProcOf[t]) => Covers(mem[t].lines, My(t).count)
FileOf(p) ==
  proc[p].up /\ Settled(p) /\ ~proc[p].failed /\ proc[p].total > 0 /\ ~Composing(p) =>
    /\ proc[p].owned
    /\ Covers(file[proc[p].number].lines, proc[p].count)
QuietInv ==
  Safe => (\A t \in Threads : LinesOf(t)) /\ (\A p \in Procs : FileOf(p))

(***************************************************************************)
(* Types.                                                                  *)
(***************************************************************************)
LEMMA FilesType ==
  ASSUME NEW f \in Files \cup {<<>>}
  PROVE  /\ Len(f) \in Nat
         /\ \A i \in 1..Len(f) : f[i] \in Rules
         /\ ToSet(f) \subseteq Rules
<1>1. CASE f \in Files
  <2>1. f \in Seq(ToSet(f)) /\ ToSet(f) \subseteq Rules
    BY <1>1, ConstantsAssumption DEF Rules
  <2> QED
    BY <2>1
<1>2. CASE f = <<>>
  BY <1>2 DEF ToSet
<1> QED
  BY <1>1, <1>2

LEMMA NumbersType ==
  /\ \A p \in Procs : Pid[p] \in Numbers
  /\ Others \subseteq Numbers
  BY ConstantsAssumption DEF Numbers

LEMMA FreshType ==
  ASSUME NEW p \in Procs, NEW up \in BOOLEAN
  PROVE  Fresh(p, up) \in ProcType /\ Fresh(p, up).number = Pid[p]
<1>1. [r \in Rules |-> 0] \in [Rules -> Nat] /\ Pid[p] \in Numbers /\ 0 \in 0..1
  BY NumbersType
<1> QED
  BY <1>1, Zenon DEF Fresh, ProcType

\* The ways in which the code updates the globals of a process.
LEMMA UpdateType ==
  ASSUME NEW q \in ProcType
  PROVE  /\ \A n \in Numbers : [q EXCEPT !.number = n] \in ProcType
         /\ \A f \in [Rules -> Nat], g \in [Rules -> Nat] :
              [q EXCEPT !.count = f, !.taken = g] \in ProcType
         /\ \A a \in 0..1, f \in [Rules -> Nat] :
              [q EXCEPT !.active = a, !.count = f] \in ProcType
         /\ \A a \in 0..1 : [q EXCEPT !.active = a] \in ProcType
         /\ \A n \in Nat, b \in BOOLEAN :
              /\ [q EXCEPT !.total = n, !.pending = b] \in ProcType
              /\ [q EXCEPT !.total = n, !.pending = b, !.vforked = b] \in ProcType
         /\ \A b \in BOOLEAN, c \in BOOLEAN :
              /\ [q EXCEPT !.due = b] \in ProcType
              /\ [q EXCEPT !.pending = b, !.due = c] \in ProcType
              /\ [q EXCEPT !.writing = b] \in ProcType
              /\ [q EXCEPT !.recent = b] \in ProcType
              /\ [q EXCEPT !.recent = b, !.writing = c] \in ProcType
              /\ [q EXCEPT !.owned = b, !.failed = c] \in ProcType
         /\ \A n \in Numbers, b \in BOOLEAN : [q EXCEPT !.number = n, !.failed = b] \in ProcType
<1>1. \A n \in Numbers : [q EXCEPT !.number = n] \in ProcType
  BY Zenon DEF ProcType
<1>2. \A f \in [Rules -> Nat], g \in [Rules -> Nat] :
        [q EXCEPT !.count = f, !.taken = g] \in ProcType
  BY Zenon DEF ProcType
<1>3. \A a \in 0..1, f \in [Rules -> Nat] : [q EXCEPT !.active = a, !.count = f] \in ProcType
  BY Zenon DEF ProcType
<1>4. \A a \in 0..1 : [q EXCEPT !.active = a] \in ProcType
  BY Zenon DEF ProcType
<1>5. \A n \in Nat, b \in BOOLEAN : [q EXCEPT !.total = n, !.pending = b] \in ProcType
  BY Zenon DEF ProcType
<1>6. \A n \in Nat, b \in BOOLEAN :
        [q EXCEPT !.total = n, !.pending = b, !.vforked = b] \in ProcType
  BY Zenon DEF ProcType
<1>7. \A b \in BOOLEAN : [q EXCEPT !.due = b] \in ProcType
  BY Zenon DEF ProcType
<1>8. \A b \in BOOLEAN, c \in BOOLEAN : [q EXCEPT !.pending = b, !.due = c] \in ProcType
  BY Zenon DEF ProcType
<1>9. \A b \in BOOLEAN : [q EXCEPT !.writing = b] \in ProcType /\ [q EXCEPT !.recent = b] \in ProcType
  BY Zenon DEF ProcType
<1>10. \A b \in BOOLEAN, c \in BOOLEAN : [q EXCEPT !.recent = b, !.writing = c] \in ProcType
  BY Zenon DEF ProcType
<1>11. \A b \in BOOLEAN, c \in BOOLEAN : [q EXCEPT !.owned = b, !.failed = c] \in ProcType
  BY Zenon DEF ProcType
<1>12. \A n \in Numbers, b \in BOOLEAN : [q EXCEPT !.number = n, !.failed = b] \in ProcType
  BY Zenon DEF ProcType
<1> QED
  BY <1>1, <1>2, <1>3, <1>4, <1>5, <1>6, <1>7, <1>8, <1>9, <1>10, <1>11, <1>12, Zenon

LEMMA CountedType ==
  ASSUME NEW q \in ProcType, NEW r \in Rules
  PROVE  Counted(q, r) \in ProcType /\ Counted(q, r).number = q.number
<1> DEFINE f == [q.count EXCEPT ![r] = @ + 1]
           g == [q.taken EXCEPT ![r] = @ + 1]
<1>1. f \in [Rules -> Nat] /\ g \in [Rules -> Nat]
  BY DEF ProcType
<1>2. Counted(q, r) = [q EXCEPT !.count = f, !.taken = g]
  BY DEF Counted, ProcType
<1>3. [q EXCEPT !.count = f, !.taken = g].number = q.number
  BY DEF ProcType
<1> HIDE DEF f, g
<1>4. [q EXCEPT !.count = f, !.taken = g] \in ProcType
  BY <1>1, UpdateType, Zenon
<1> QED
  BY <1>2, <1>3, <1>4, Zenon

LEMMA KeepType ==
  ASSUME NEW m \in MemType
  PROVE  /\ \A b \in BOOLEAN : [m EXCEPT !.leaving = b] \in MemType
         /\ \A a \in 0..1 : [m EXCEPT !.from = a] \in MemType
         /\ \A n \in Nat : [m EXCEPT !.size = n] \in MemType
         /\ \A n \in Nat : [m EXCEPT !.tries = n] \in MemType
         /\ \A l \in Seq(Line) : [m EXCEPT !.lines = l] \in MemType
         /\ \A l \in Seq(Line), k \in Nat, n \in Nat :
              [m EXCEPT !.lines = l, !.tries = k, !.size = n] \in MemType
  BY Zenon DEF MemType

LEMMA NoMemType ==
  NoMem \in MemType /\ \A b \in BOOLEAN : [NoMem EXCEPT !.leaving = b] \in MemType
<1>1. <<>> \in Seq(Line) /\ 0 \in 0..1
  OBVIOUS
<1>2. NoMem \in MemType
  BY <1>1 DEF NoMem, MemType
<1> QED
  BY <1>2, KeepType

LEMMA NumberForType ==
  ASSUME NEW p \in Procs
  PROVE  NumberFor(p) \subseteq {Pid[p]} \cup Others /\ NumberFor(p) \subseteq Numbers
  BY NumbersType DEF NumberFor

LEMMA TypeInit == Init => TypeOK
<1> SUFFICES ASSUME Init PROVE TypeOK
  OBVIOUS
<1>1. file \in [Numbers -> FileType]
  <2>1. <<>> \in Seq(Line)
    OBVIOUS
  <2>2. NoFile \in FileType /\ [by |-> "ended", lines |-> <<>>, whole |-> TRUE] \in FileType
    BY <2>1 DEF NoFile, FileType
  <2> QED
    BY <2>2 DEF Init
<1>2. copies \in [Procs -> [1..2 -> Files \cup {<<>>}]]
  <2>1. ASSUME NEW f \in Files PROVE <<f, <<>>>> \in [1..2 -> Files \cup {<<>>}]
    OBVIOUS
  <2> QED
    BY <2>1 DEF Init
<1>3. PICK scene \in Scenes, chosen \in [Procs -> Numbers] :
        /\ faults = scene.faults /\ reloads = scene.reloads
        /\ \A p \in Procs : chosen[p] \in IF Present(p, scene.cast) THEN NumberFor(p) ELSE {Pid[p]}
        /\ proc = [p \in Procs |-> [Fresh(p, Present(p, scene.cast)) EXCEPT !.number = chosen[p]]]
        /\ pc = [t \in Threads |-> IF t \in scene.cast THEN "idle" ELSE "ended"]
  BY DEF Init
<1>4. faults \subseteq {"space", "links", "sticky"} /\ reloads \in Nat
  BY <1>3, ConstantsAssumption
<1>5. pc \in [Threads -> Labels]
  BY <1>3 DEF Labels
<1>6. mem \in [Threads -> MemType] /\ hits \in Nat
  BY NoMemType DEF Init
<1>7. ASSUME NEW p \in Procs
      PROVE  /\ [Fresh(p, Present(p, scene.cast)) EXCEPT !.number = chosen[p]] \in ProcType
             /\ [Fresh(p, Present(p, scene.cast)) EXCEPT !.number = chosen[p]].number
                  \in {Pid[p]} \cup Others
  <2>1. Present(p, scene.cast) \in BOOLEAN
    BY DEF Present
  <2>2. Fresh(p, Present(p, scene.cast)) \in ProcType
    BY <2>1, FreshType
  <2>3. chosen[p] \in Numbers /\ chosen[p] \in {Pid[p]} \cup Others
    BY <1>3, NumberForType
  <2>4. [Fresh(p, Present(p, scene.cast)) EXCEPT !.number = chosen[p]].number = chosen[p]
    BY <2>2 DEF ProcType
  <2> QED
    BY <2>2, <2>3, <2>4, UpdateType
<1>8. proc \in [Procs -> ProcType] /\ \A p \in Procs : proc[p].number \in {Pid[p]} \cup Others
  BY <1>3, <1>7
<1> QED
  BY <1>1, <1>2, <1>4, <1>5, <1>6, <1>8 DEF TypeOK

\* A process whose globals are replaced by well typed ones, under one of its
\* own numbers.
LEMMA PutType ==
  ASSUME TypeOK, NEW p \in Procs, NEW q \in ProcType,
         q.number \in {Pid[p]} \cup Others, proc' = [proc EXCEPT ![p] = q]
  PROVE  /\ proc' \in [Procs -> ProcType]
         /\ \A r \in Procs : proc'[r].number \in {Pid[r]} \cup Others
  BY DEF TypeOK

LEMMA MyType ==
  ASSUME TypeOK, NEW t \in Threads
  PROVE  /\ ProcOf[t] \in Procs /\ My(t) \in ProcType
         /\ My(t).number \in {Pid[ProcOf[t]]} \cup Others /\ Name(t) \in Numbers
         /\ mem[t] \in MemType /\ pc[t] \in Labels
  BY ConstantsAssumption DEF TypeOK, My, Name, ProcType

\* The fields of a process, and those of a thread, one by one.
LEMMA FieldsType ==
  /\ \A q \in ProcType :
       /\ q.up \in BOOLEAN /\ q.active \in 0..1 /\ q.count \in [Rules -> Nat] /\ q.total \in Nat
       /\ q.pending \in BOOLEAN /\ q.writing \in BOOLEAN /\ q.recent \in BOOLEAN
       /\ q.number \in Numbers /\ q.owned \in BOOLEAN /\ q.failed \in BOOLEAN
       /\ q.taken \in [Rules -> Nat] /\ q.due \in BOOLEAN /\ q.vforked \in BOOLEAN
  /\ \A m \in MemType :
       /\ m.from \in 0..1 /\ m.size \in Nat /\ m.lines \in Seq(Line) /\ m.tries \in Nat
       /\ m.leaving \in BOOLEAN
  BY DEF ProcType, MemType

LEMMA SnapshotType ==
  ASSUME TypeOK, NEW p \in Procs, NEW k \in 0..1
  PROVE  copies[p][k + 1] \in Files \cup {<<>>}
  BY DEF TypeOK

LEMMA ActiveType ==
  ASSUME TypeOK, NEW p \in Procs
  PROVE  ToSet(Active(p)) \subseteq Rules
<1>1. proc[p].active \in 0..1
  BY FieldsType DEF TypeOK
<1> QED
  BY <1>1, SnapshotType, FilesType DEF Active

\* A step that only moves threads.
LEMMA MoveType ==
  ASSUME TypeOK, pc' \in [Threads -> Labels], UNCHANGED <<proc, copies, file, faults, mem, spent>>
  PROVE  TypeOK'
  BY DEF TypeOK, spent

LEMMA ReportType ==
  ASSUME TypeOK, NEW t \in Threads
  PROVE  /\ Report(t) \in FileType
         /\ [by |-> ProcOf[t], lines |-> <<>>, whole |-> FALSE] \in FileType
<1>1. mem[t].lines \in Seq(Line) /\ <<>> \in Seq(Line) /\ ProcOf[t] \in Procs
  BY MyType, FieldsType
<1> QED
  BY <1>1 DEF Report, FileType

LEMMA HitType ==
  ASSUME TypeOK, NEW t \in Threads, Hit(t)
  PROVE  TypeOK'
<1>1. PICK r \in ToSet(Active(ProcOf[t])) : Put(t, Counted(My(t), r))
  BY DEF Hit
<1>2. r \in Rules /\ ProcOf[t] \in Procs /\ My(t) \in ProcType
  BY MyType, ActiveType
<1>3. /\ Counted(My(t), r) \in ProcType
      /\ Counted(My(t), r).number \in {Pid[ProcOf[t]]} \cup Others
  BY <1>2, CountedType, MyType
<1>4. /\ proc' \in [Procs -> ProcType]
      /\ \A p \in Procs : proc'[p].number \in {Pid[p]} \cup Others
  BY <1>1, <1>2, <1>3, PutType DEF Put
<1>5. pc' \in [Threads -> Labels] /\ hits' \in Nat
  BY DEF Hit, Goto, TypeOK, Labels
<1> QED
  BY <1>4, <1>5 DEF Hit, TypeOK

LEMMA CountType ==
  ASSUME TypeOK, NEW t \in Threads, Count(t)
  PROVE  TypeOK'
<1> DEFINE q == [My(t) EXCEPT !.total = @ + 1, !.pending = TRUE]
           b == q.due \/ Due(q)
<1>1. My(t) \in ProcType /\ ProcOf[t] \in Procs /\ My(t).total + 1 \in Nat
  BY MyType, FieldsType
<1>2. q \in ProcType
  BY <1>1, UpdateType, Zenon
<1>3. q.number = My(t).number /\ b \in BOOLEAN
  BY <1>1, <1>2, FieldsType DEF ProcType
<1>4. proc' = [proc EXCEPT ![ProcOf[t]] = [q EXCEPT !.due = b]]
  BY DEF Count, Put
<1>5. [q EXCEPT !.due = b].number = q.number
  BY <1>2 DEF ProcType
<1> HIDE DEF q, b
<1>6. [q EXCEPT !.due = b] \in ProcType
  BY <1>2, <1>3, UpdateType
<1>7. /\ proc' \in [Procs -> ProcType]
      /\ \A p \in Procs : proc'[p].number \in {Pid[p]} \cup Others
  BY <1>1, <1>3, <1>4, <1>5, <1>6, PutType, MyType
<1>8. pc' \in [Threads -> Labels]
  BY DEF Count, Goto, TypeOK, Labels
<1> QED
  BY <1>7, <1>8 DEF Count, TypeOK, spent

LEMMA VforkHitType ==
  ASSUME TypeOK, NEW p \in Procs, VforkHit(p)
  PROVE  TypeOK'
<1>1. PICK r \in ToSet(Active(p)) :
        proc' = [proc EXCEPT ![p] = [Counted(proc[p], r) EXCEPT !.total = @ + 1, !.pending = TRUE,
                                                               !.vforked = TRUE]]
  BY DEF VforkHit
<1> DEFINE q == Counted(proc[p], r)
<1>2. q \in ProcType /\ q.number \in {Pid[p]} \cup Others
  BY ActiveType, CountedType DEF TypeOK
<1>3. proc' = [proc EXCEPT ![p] = [q EXCEPT !.total = q.total + 1, !.pending = TRUE,
                                            !.vforked = TRUE]]
  BY <1>1, <1>2 DEF ProcType
<1> HIDE DEF q
<1>4. q.total + 1 \in Nat
  BY <1>2, FieldsType
<1>5. [q EXCEPT !.total = q.total + 1, !.pending = TRUE, !.vforked = TRUE] \in ProcType
  BY <1>2, <1>4, UpdateType, Zenon
<1>6. [q EXCEPT !.total = q.total + 1, !.pending = TRUE, !.vforked = TRUE].number = q.number
  BY <1>2 DEF ProcType
<1>7. /\ proc' \in [Procs -> ProcType]
      /\ \A s \in Procs : proc'[s].number \in {Pid[s]} \cup Others
  BY <1>2, <1>3, <1>5, <1>6, PutType
<1>8. hits' \in Nat
  BY DEF VforkHit, TypeOK
<1> QED
  BY <1>7, <1>8 DEF VforkHit, TypeOK

LEMMA ClaimType ==
  ASSUME TypeOK, NEW t \in Threads, Claim(t)
  PROVE  TypeOK'
<1>1. pc' \in [Threads -> Labels]
  BY DEF Claim, Goto, Away, TypeOK, Labels
<1>2. CASE UNCHANGED proc
  BY <1>1, <1>2, MoveType DEF Claim, spent
<1>3. CASE Put(t, [My(t) EXCEPT !.writing = TRUE])
  <2>1. My(t) \in ProcType /\ ProcOf[t] \in Procs
    BY MyType
  <2>2. [My(t) EXCEPT !.writing = TRUE] \in ProcType
    BY <2>1, UpdateType, Zenon
  <2>4. [My(t) EXCEPT !.writing = TRUE].number = My(t).number
    BY <2>1 DEF ProcType
  <2>3. /\ proc' \in [Procs -> ProcType]
        /\ \A p \in Procs : proc'[p].number \in {Pid[p]} \cup Others
    BY <1>3, <2>1, <2>2, <2>4, PutType, MyType DEF Put
  <2> QED
    BY <1>1, <2>3 DEF Claim, TypeOK, spent
<1> QED
  BY <1>2, <1>3 DEF Claim

LEMMA SampleType ==
  ASSUME TypeOK, NEW t \in Threads, Sample(t)
  PROVE  TypeOK'
<1>1. [mem[t] EXCEPT !.from = My(t).active] \in MemType
  BY MyType, FieldsType, KeepType
<1>2. mem' \in [Threads -> MemType]
  BY <1>1 DEF Sample, Keep, TypeOK
<1>3. pc' \in [Threads -> Labels]
  BY DEF Sample, Goto, TypeOK, Labels
<1> QED
  BY <1>2, <1>3 DEF Sample, TypeOK, spent

LEMMA TestType ==
  ASSUME TypeOK, NEW t \in Threads, Test(t)
  PROVE  TypeOK'
<1>1. pc' \in [Threads -> Labels]
  BY DEF Test, Goto, TypeOK, Labels
<1>2. CASE ~My(t).pending
  BY <1>1, <1>2, MoveType DEF Test, spent
<1>3. CASE My(t).pending
  <2> DEFINE n == Len(copies[ProcOf[t]][mem[t].from + 1])
  <2>1. /\ My(t) \in ProcType /\ ProcOf[t] \in Procs /\ mem[t] \in MemType
        /\ mem[t].from \in 0..1
    BY MyType, FieldsType
  <2>2. Cleared(My(t)) \in ProcType /\ Cleared(My(t)).number = My(t).number
    <3>1. [My(t) EXCEPT !.pending = FALSE, !.due = FALSE] \in ProcType
      BY <2>1, UpdateType, Zenon
    <3> QED
      BY <2>1, <3>1 DEF Cleared, ProcType
  <2>3. /\ proc' \in [Procs -> ProcType]
        /\ \A p \in Procs : proc'[p].number \in {Pid[p]} \cup Others
    BY <1>3, <2>1, <2>2, PutType, MyType DEF Put, Test
  <2>4. n \in Nat /\ <<>> \in Seq(Line) /\ 0 \in Nat
    BY <2>1, SnapshotType, FilesType
  <2>5. mem' = [mem EXCEPT ![t] = [mem[t] EXCEPT !.lines = <<>>, !.tries = 0, !.size = n]]
    BY <1>3 DEF Test, Keep
  <2> HIDE DEF n
  <2>6. [mem[t] EXCEPT !.lines = <<>>, !.tries = 0, !.size = n] \in MemType
    BY <2>1, <2>4, KeepType, Zenon
  <2>7. mem' \in [Threads -> MemType]
    BY <2>5, <2>6 DEF TypeOK
  <2> QED
    BY <1>1, <2>3, <2>7 DEF Test, TypeOK, spent
<1> QED
  BY <1>2, <1>3 DEF Test

LEMMA FormatType ==
  ASSUME TypeOK, NEW t \in Threads, Format(t)
  PROVE  TypeOK'
<1> DEFINE lines == mem[t].lines
           rules == copies[ProcOf[t]][mem[t].from + 1]
           i == Len(lines) + 1
           line == [rule |-> rules[i], hits |-> My(t).count[rules[i]]]
<1>1. pc' \in [Threads -> Labels]
  <2>1. Goto(t, "publish") \/ UNCHANGED pc
    BY DEF Format
  <2> QED
    BY <2>1 DEF Goto, TypeOK, Labels
<1>2. /\ mem[t] \in MemType /\ lines \in Seq(Line) /\ i \in Nat /\ i > 0 /\ Len(lines) \in Nat
      /\ mem[t].from \in 0..1
      /\ ProcOf[t] \in Procs /\ My(t).count \in [Rules -> Nat]
  BY MyType, FieldsType
<1>3. Len(rules) \in Nat /\ \A k \in 1..Len(rules) : rules[k] \in Rules
  BY <1>2, SnapshotType, FilesType
<1>4. i <= Len(rules) => line \in Line
  <2> SUFFICES ASSUME i <= Len(rules) PROVE line \in Line
    OBVIOUS
  <2> DEFINE r == rules[i]
             n == My(t).count[r]
  <2>1. r \in Rules
    BY <1>2, <1>3
  <2> HIDE DEF r
  <2>2. n \in Nat
    BY <1>2, <2>1
  <2> HIDE DEF n
  <2>3. [rule |-> r, hits |-> n] \in Line
    BY <2>1, <2>2 DEF Line
  <2> QED
    BY <2>3 DEF r, n
<1>5. \/ UNCHANGED mem
      \/ i <= Len(rules) /\ mem' = [mem EXCEPT ![t] = [mem[t] EXCEPT !.lines = Append(lines, line)]]
      \/ mem' = [mem EXCEPT ![t] = [mem[t] EXCEPT !.size = i - 1]]
  BY DEF Format, Keep
<1> HIDE DEF lines, rules, i, line
<1>6. mem' \in [Threads -> MemType]
  <2>1. CASE UNCHANGED mem
    BY <2>1 DEF TypeOK
  <2>2. CASE i <= Len(rules) /\ mem' = [mem EXCEPT ![t] = [mem[t] EXCEPT !.lines = Append(lines, line)]]
    <3>1. Append(lines, line) \in Seq(Line)
      BY <1>2, <1>4, <2>2
    <3>2. [mem[t] EXCEPT !.lines = Append(lines, line)] \in MemType
      BY <1>2, <3>1, KeepType
    <3> QED
      BY <2>2, <3>2 DEF TypeOK
  <2>3. CASE mem' = [mem EXCEPT ![t] = [mem[t] EXCEPT !.size = i - 1]]
    <3>1. i - 1 \in Nat
      BY <1>2
    <3>2. [mem[t] EXCEPT !.size = i - 1] \in MemType
      BY <1>2, <3>1, KeepType
    <3> QED
      BY <2>3, <3>2 DEF TypeOK
  <2> QED
    BY <1>5, <2>1, <2>2, <2>3
<1> QED
  BY <1>1, <1>6 DEF Format, TypeOK, spent

LEMMA ReleaseType ==
  ASSUME TypeOK, NEW t \in Threads, Release(t)
  PROVE  TypeOK'
<1>1. My(t) \in ProcType /\ ProcOf[t] \in Procs /\ mem[t].leaving \in BOOLEAN
  BY MyType, FieldsType
<1>2. [My(t) EXCEPT !.recent = TRUE, !.writing = FALSE] \in ProcType
  BY <1>1, UpdateType, Zenon
<1>3. [My(t) EXCEPT !.recent = TRUE, !.writing = FALSE].number = My(t).number
  BY <1>1 DEF ProcType
<1>4. /\ proc' \in [Procs -> ProcType]
      /\ \A p \in Procs : proc'[p].number \in {Pid[p]} \cup Others
  BY <1>1, <1>2, <1>3, PutType, MyType DEF Put, Release
<1>5. mem' \in [Threads -> MemType] /\ pc' \in [Threads -> Labels]
  BY <1>1, NoMemType DEF Release, Keep, Goto, TypeOK, Labels
<1> QED
  BY <1>4, <1>5 DEF Release, TypeOK, spent

LEMMA WrittenType ==
  ASSUME TypeOK, NEW t \in Threads, NEW failed \in BOOLEAN, Written(t, failed)
  PROVE  /\ proc' \in [Procs -> ProcType]
         /\ \A p \in Procs : proc'[p].number \in {Pid[p]} \cup Others
<1>1. My(t) \in ProcType /\ ProcOf[t] \in Procs
  BY MyType
<1>2. [My(t) EXCEPT !.owned = TRUE, !.failed = failed] \in ProcType
  BY <1>1, UpdateType, Zenon
<1>3. [My(t) EXCEPT !.owned = TRUE, !.failed = failed].number = My(t).number
  BY <1>1 DEF ProcType
<1> QED
  BY <1>1, <1>2, <1>3, PutType, MyType DEF Put, Written

LEMMA WriteType ==
  ASSUME TypeOK, NEW t \in Threads, NEW f \in FileType, file' = [file EXCEPT ![Name(t)] = f]
  PROVE  file' \in [Numbers -> FileType]
  BY MyType DEF TypeOK

LEMMA PublishType ==
  ASSUME TypeOK, NEW t \in Threads, Publish(t)
  PROVE  TypeOK'
<1>1. CASE Fails(t)
  BY <1>1, WrittenType DEF Fails, Goto, Publish, TypeOK, Labels, spent
<1>2. CASE Links(t) \/ Renames(t)
  <2>1. file' \in [Numbers -> FileType]
    BY <1>2, ReportType, WriteType DEF Links, Renames
  <2> QED
    BY <1>2, <2>1, WrittenType DEF Links, Renames, Goto, Publish, TypeOK, Labels, spent
<1>3. CASE Taken(t)
  <2> DEFINE failed == (mem[t].tries = 3)
  <2>1. PICK n \in NumberFor(ProcOf[t]) : Put(t, [My(t) EXCEPT !.number = n, !.failed = failed])
    BY <1>3 DEF Taken
  <2>2. /\ My(t) \in ProcType /\ ProcOf[t] \in Procs /\ mem[t] \in MemType /\ mem[t].tries + 1 \in Nat
        /\ n \in Numbers /\ n \in {Pid[ProcOf[t]]} \cup Others /\ failed \in BOOLEAN
    BY MyType, FieldsType, NumberForType
  <2> HIDE DEF failed
  <2>3. [My(t) EXCEPT !.number = n, !.failed = failed] \in ProcType
    BY <2>2, UpdateType, Zenon
  <2>4. [My(t) EXCEPT !.number = n, !.failed = failed].number = n
    BY <2>2 DEF ProcType
  <2>5. /\ proc' \in [Procs -> ProcType]
        /\ \A p \in Procs : proc'[p].number \in {Pid[p]} \cup Others
    BY <2>1, <2>2, <2>3, <2>4, PutType DEF Put
  <2>6. mem' = [mem EXCEPT ![t] = [mem[t] EXCEPT !.tries = mem[t].tries + 1]]
    BY <1>3 DEF Taken, Keep
  <2>7. [mem[t] EXCEPT !.tries = mem[t].tries + 1] \in MemType
    BY <2>2, KeepType
  <2>8. mem' \in [Threads -> MemType] /\ pc' \in [Threads -> Labels]
    BY <1>3, <2>6, <2>7 DEF Taken, Goto, TypeOK, Labels
  <2> QED
    BY <1>3, <2>5, <2>8 DEF Taken, Publish, TypeOK, spent
<1>4. CASE Refused(t)
  BY <1>4, MoveType DEF Refused, Goto, Publish, TypeOK, Labels, spent
<1> QED
  BY <1>1, <1>2, <1>3, <1>4 DEF Publish

LEMMA OverwriteType ==
  ASSUME TypeOK, NEW t \in Threads, Truncate(t) \/ Fill(t)
  PROVE  TypeOK'
<1>1. file' \in [Numbers -> FileType]
  BY ReportType, WriteType DEF Truncate, Fill
<1>2. CASE Truncate(t)
  BY <1>1, <1>2 DEF Truncate, Goto, TypeOK, Labels, spent
<1>3. CASE Fill(t)
  BY <1>1, <1>3, WrittenType DEF Fill, Goto, TypeOK, Labels, spent
<1> QED
  BY <1>2, <1>3

LEMMA ReloadType ==
  ASSUME TypeOK, NEW p \in Procs, Reload(p)
  PROVE  TypeOK'
<1>1. PICK f \in Files :
        /\ copies' = [copies EXCEPT ![p][2 - proc[p].active] = f]
        /\ proc' = [proc EXCEPT ![p].active = 1 - @, ![p].count = Kept(p, f, @)]
  BY DEF Reload
<1> DEFINE q == proc[p]
           a == 1 - q.active
           c == Kept(p, f, q.count)
<1>2. q \in ProcType /\ q.active \in 0..1 /\ q.count \in [Rules -> Nat]
  BY FieldsType DEF TypeOK
<1>3. a \in 0..1 /\ c \in [Rules -> Nat]
  <2>1. \A s \in 0..1 : 1 - s \in 0..1
    OBVIOUS
  <2> QED
    BY <1>2, <2>1 DEF Kept
<1>4. proc' = [proc EXCEPT ![p] = [q EXCEPT !.active = a, !.count = c]]
  BY <1>1, <1>2 DEF TypeOK, ProcType
<1>5. copies' \in [Procs -> [1..2 -> Files \cup {<<>>}]]
  <2>1. [copies[p] EXCEPT ![2 - q.active] = f] \in [1..2 -> Files \cup {<<>>}]
    BY DEF TypeOK
  <2>2. copies' = [copies EXCEPT ![p] = [copies[p] EXCEPT ![2 - q.active] = f]]
    BY <1>1 DEF TypeOK
  <2> QED
    BY <2>1, <2>2 DEF TypeOK
<1>6. [q EXCEPT !.active = a, !.count = c].number = q.number
  BY <1>2 DEF ProcType
<1> HIDE DEF a, c
<1>7. [q EXCEPT !.active = a, !.count = c] \in ProcType
  BY <1>2, <1>3, UpdateType, Zenon
<1>8. q.number \in {Pid[p]} \cup Others
  BY DEF TypeOK
<1>9. /\ proc' \in [Procs -> ProcType]
      /\ \A s \in Procs : proc'[s].number \in {Pid[s]} \cup Others
  BY <1>4, <1>6, <1>7, <1>8, PutType
<1>10. reloads' \in Nat
  BY DEF Reload, TypeOK
<1> QED
  BY <1>5, <1>9, <1>10 DEF Reload, TypeOK

LEMMA ForkType ==
  ASSUME TypeOK, NEW t \in Threads, Fork(t)
  PROVE  TypeOK'
<1>1. PICK child \in Forked :
        /\ proc' = [proc EXCEPT ![child] = Inherited(child, ProcOf[t])]
        /\ copies' = [copies EXCEPT ![child] = copies[ProcOf[t]]]
  BY DEF Fork
<1>2. child \in Procs /\ ProcOf[t] \in Procs /\ proc[ProcOf[t]].active \in 0..1
  BY ConstantsAssumption, FieldsType DEF TypeOK
<1>3. Fresh(child, TRUE) \in ProcType /\ Fresh(child, TRUE).number = Pid[child]
  BY <1>2, FreshType
<1>4. Inherited(child, ProcOf[t]) \in ProcType
  BY <1>2, <1>3, UpdateType DEF Inherited
<1>5. Inherited(child, ProcOf[t]).number = Pid[child]
  BY <1>3 DEF Inherited, ProcType
<1>6. /\ proc' \in [Procs -> ProcType]
      /\ \A s \in Procs : proc'[s].number \in {Pid[s]} \cup Others
  BY <1>1, <1>2, <1>4, <1>5, PutType
<1>7. copies' \in [Procs -> [1..2 -> Files \cup {<<>>}]]
  BY <1>1, <1>2 DEF TypeOK
<1> QED
  BY <1>6, <1>7 DEF Fork, TypeOK, spent

LEMMA EndType ==
  ASSUME TypeOK, NEW p \in Procs, End(p)
  PROVE  TypeOK'
<1>1. /\ proc' \in [Procs -> ProcType]
      /\ \A s \in Procs : proc'[s].number \in {Pid[s]} \cup Others
  BY FreshType, PutType DEF End
<1>2. pc' \in [Threads -> Labels] /\ mem' \in [Threads -> MemType]
  BY NoMemType DEF End, TypeOK, Labels
<1>3. file' \in [Numbers -> FileType]
  <2>1. ASSUME NEW n \in Numbers
        PROVE  [file[n] EXCEPT !.by = "ended"] \in FileType
    <3>1. file[n] \in FileType
      BY DEF TypeOK
    <3> QED
      BY <3>1 DEF FileType
  <2> QED
    BY <2>1 DEF End, TypeOK
<1>4. copies' \in [Procs -> [1..2 -> Files \cup {<<>>}]]
  <2>1. <<<<>>, <<>>>> \in [1..2 -> Files \cup {<<>>}]
    OBVIOUS
  <2> QED
    BY <2>1 DEF End, TypeOK
<1> QED
  BY <1>1, <1>2, <1>3, <1>4 DEF End, TypeOK, spent

LEMMA TickType ==
  ASSUME TypeOK, NEW p \in Procs, Tick(p)
  PROVE  TypeOK'
<1>1. proc[p] \in ProcType /\ proc[p].number \in {Pid[p]} \cup Others
  BY DEF TypeOK
<1>2. proc' = [proc EXCEPT ![p] = [proc[p] EXCEPT !.recent = FALSE]]
  BY <1>1 DEF Tick, TypeOK, ProcType
<1>3. [proc[p] EXCEPT !.recent = FALSE] \in ProcType
  BY <1>1, UpdateType
<1>4. [proc[p] EXCEPT !.recent = FALSE].number = proc[p].number
  BY <1>1 DEF ProcType
<1> QED
  BY <1>1, <1>2, <1>3, <1>4, PutType DEF Tick, TypeOK, spent

LEMMA TypeStep == TypeOK /\ [Next]_vars => TypeOK'
<1> SUFFICES ASSUME TypeOK, [Next]_vars PROVE TypeOK'
  OBVIOUS
<1>1. ASSUME NEW t \in Threads, Hit(t) PROVE TypeOK'
  BY <1>1, HitType
<1>2. ASSUME NEW t \in Threads, Check(t) \/ Retest(t) PROVE TypeOK'
  BY <1>2, MoveType DEF Check, Retest, Away, Goto, TypeOK, Labels, spent
<1>3. ASSUME NEW t \in Threads, Exit(t) PROVE TypeOK'
  <2>1. [mem[t] EXCEPT !.leaving = TRUE] \in MemType
    BY MyType, KeepType
  <2> QED
    BY <1>3, <2>1 DEF Exit, Goto, Keep, TypeOK, Labels, spent
<1>4. ASSUME NEW t \in Threads, Fork(t) PROVE TypeOK'
  BY <1>4, ForkType
<1>5. ASSUME NEW t \in Threads, Reporting(t) PROVE TypeOK'
  BY <1>2, <1>5, CountType, ClaimType, SampleType, TestType, FormatType, PublishType,
     OverwriteType, ReleaseType, EndType, MyType DEF Reporting, Leave
<1>6. ASSUME NEW p \in Procs, VforkHit(p) \/ Reload(p) \/ Kill(p) \/ Tick(p) PROVE TypeOK'
  BY <1>6, VforkHitType, ReloadType, EndType, TickType DEF Kill
<1>7. CASE UNCHANGED vars
  BY <1>7 DEF vars, TypeOK
<1> QED
  BY <1>1, <1>2, <1>3, <1>4, <1>5, <1>6, <1>7 DEF Next

\* The state keeps its types, and a process never holds a name other than its
\* pid or a salted number (chaos_hits_file_number_for).
THEOREM TypeCorrect == Spec => []TypeOK
  BY TypeInit, TypeStep, PTL DEF Spec

(***************************************************************************)
(* What each action writes in the globals of a process.                    *)
(***************************************************************************)
Fields == {"up", "active", "count", "total", "pending", "writing", "recent", "number", "owned",
           "failed", "taken", "due", "vforked"}

\* A step changes no process but p, and no field of p but those of set.
Changes(p, set) ==
  /\ \A s \in Procs \ {p} : proc'[s] = proc[s]
  /\ \A f \in Fields \ set : proc'[p][f] = proc[p][f]

LEMMA PutIs ==
  ASSUME TypeOK, NEW t \in Threads, NEW q, Put(t, q)
  PROVE  proc'[ProcOf[t]] = q /\ \A s \in Procs \ {ProcOf[t]} : proc'[s] = proc[s]
  BY MyType DEF Put, TypeOK

LEMMA PutChanges ==
  ASSUME TypeOK, NEW t \in Threads, NEW q, Put(t, q), NEW set,
         \A f \in Fields \ set : q[f] = My(t)[f]
  PROVE  Changes(ProcOf[t], set)
  BY PutIs DEF Changes, My

LEMMA NothingChanges ==
  ASSUME NEW p \in Procs, UNCHANGED proc
  PROVE  Changes(p, {})
  BY DEF Changes

LEMMA HitChanges ==
  ASSUME TypeOK, NEW t \in Threads, Hit(t)
  PROVE  /\ Changes(ProcOf[t], {"count", "taken"})
         /\ \E r \in Rules :
              /\ proc'[ProcOf[t]].count = [proc[ProcOf[t]].count EXCEPT ![r] = @ + 1]
              /\ proc'[ProcOf[t]].taken = [proc[ProcOf[t]].taken EXCEPT ![r] = @ + 1]
<1>1. PICK r \in ToSet(Active(ProcOf[t])) : Put(t, Counted(My(t), r))
  BY DEF Hit
<1>2. r \in Rules /\ My(t) \in ProcType
  BY ActiveType, MyType
<1>3. /\ \A f \in Fields \ {"count", "taken"} : Counted(My(t), r)[f] = My(t)[f]
      /\ Counted(My(t), r).count = [My(t).count EXCEPT ![r] = @ + 1]
      /\ Counted(My(t), r).taken = [My(t).taken EXCEPT ![r] = @ + 1]
  BY <1>2 DEF Fields, Counted, ProcType
<1>4. Changes(ProcOf[t], {"count", "taken"})
  BY <1>1, <1>3, PutChanges
<1>5. proc'[ProcOf[t]] = Counted(My(t), r)
  BY <1>1, PutIs
<1> QED
  BY <1>2, <1>3, <1>4, <1>5 DEF My

LEMMA CountChanges ==
  ASSUME TypeOK, NEW t \in Threads, Count(t)
  PROVE  /\ Changes(ProcOf[t], {"total", "pending", "due"})
         /\ proc'[ProcOf[t]].pending
         /\ proc'[ProcOf[t]].due => proc[ProcOf[t]].due \/ Goto(t, "claim")
<1> DEFINE m == [My(t) EXCEPT !.total = @ + 1, !.pending = TRUE]
           q == [m EXCEPT !.due = @ \/ Due(m)]
<1>1. My(t) \in ProcType
  BY MyType
<1>2. Put(t, q) /\ (Due(m) => Goto(t, "claim"))
  BY DEF Count
<1>3. \A f \in Fields \ {"total", "pending", "due"} : q[f] = My(t)[f]
  BY <1>1 DEF Fields, ProcType
<1>4. q.pending = TRUE /\ q.due = (m.due \/ Due(m)) /\ m.due = My(t).due
  BY <1>1 DEF ProcType
<1> HIDE DEF q
<1>5. Changes(ProcOf[t], {"total", "pending", "due"}) /\ proc'[ProcOf[t]] = q
  BY <1>2, <1>3, PutChanges, PutIs
<1> HIDE DEF m
<1> QED
  BY <1>2, <1>4, <1>5 DEF My

LEMMA ClaimChanges ==
  ASSUME TypeOK, NEW t \in Threads, Claim(t)
  PROVE  Changes(ProcOf[t], {"writing"})
<1>1. My(t) \in ProcType /\ ProcOf[t] \in Procs
  BY MyType
<1>2. \A f \in Fields \ {"writing"} : [My(t) EXCEPT !.writing = TRUE][f] = My(t)[f]
  BY <1>1 DEF Fields, ProcType
<1>3. UNCHANGED proc \/ Put(t, [My(t) EXCEPT !.writing = TRUE])
  BY DEF Claim
<1>4. CASE UNCHANGED proc
  BY <1>4 DEF Changes
<1>5. CASE Put(t, [My(t) EXCEPT !.writing = TRUE])
  BY <1>2, <1>5, PutChanges
<1> QED
  BY <1>3, <1>4, <1>5

LEMMA TestChanges ==
  ASSUME TypeOK, NEW t \in Threads, Test(t)
  PROVE  /\ Changes(ProcOf[t], {"pending", "due"})
         /\ ~proc'[ProcOf[t]].pending
         /\ Goto(t, "format") => ~proc'[ProcOf[t]].due
         /\ ~Goto(t, "format") => UNCHANGED proc
<1>1. My(t) \in ProcType /\ ProcOf[t] \in Procs
  BY MyType
<1>2. /\ \A f \in Fields \ {"pending", "due"} : Cleared(My(t))[f] = My(t)[f]
      /\ ~Cleared(My(t)).pending /\ ~Cleared(My(t)).due
  BY <1>1 DEF Fields, Cleared, ProcType
<1>3. CASE My(t).pending
  <2>1. Put(t, Cleared(My(t))) /\ Goto(t, "format")
    BY <1>3 DEF Test
  <2>2. Changes(ProcOf[t], {"pending", "due"}) /\ proc'[ProcOf[t]] = Cleared(My(t))
    BY <1>2, <2>1, PutChanges, PutIs
  <2> QED
    BY <1>2, <2>1, <2>2
<1>4. CASE ~My(t).pending
  <2>1. UNCHANGED proc /\ Goto(t, "release")
    BY <1>4 DEF Test
  <2>2. ~Goto(t, "format")
    BY <2>1 DEF Goto, TypeOK
  <2> QED
    BY <1>4, <2>1, <2>2 DEF Changes, My
<1> QED
  BY <1>3, <1>4

LEMMA ReleaseChanges ==
  ASSUME TypeOK, NEW t \in Threads, Release(t)
  PROVE  Changes(ProcOf[t], {"recent", "writing"}) /\ ~proc'[ProcOf[t]].writing
<1> DEFINE q == [My(t) EXCEPT !.recent = TRUE, !.writing = FALSE]
<1>1. My(t) \in ProcType
  BY MyType
<1>2. (\A f \in Fields \ {"recent", "writing"} : q[f] = My(t)[f]) /\ q.writing = FALSE
  BY <1>1 DEF Fields, ProcType
<1>3. Put(t, q)
  BY DEF Release
<1> HIDE DEF q
<1> QED
  BY <1>2, <1>3, PutChanges, PutIs

LEMMA WrittenChanges ==
  ASSUME TypeOK, NEW t \in Threads, NEW b \in BOOLEAN, Written(t, b)
  PROVE  /\ Changes(ProcOf[t], {"owned", "failed"})
         /\ proc'[ProcOf[t]].owned /\ proc'[ProcOf[t]].failed = b
<1> DEFINE q == [My(t) EXCEPT !.owned = TRUE, !.failed = b]
<1>1. My(t) \in ProcType
  BY MyType
<1>2. (\A f \in Fields \ {"owned", "failed"} : q[f] = My(t)[f]) /\ q.owned = TRUE /\ q.failed = b
  BY <1>1 DEF Fields, ProcType
<1>3. Put(t, q)
  BY DEF Written
<1> HIDE DEF q
<1> QED
  BY <1>2, <1>3, PutChanges, PutIs

LEMMA TakenChanges ==
  ASSUME TypeOK, NEW t \in Threads, Taken(t)
  PROVE  /\ Changes(ProcOf[t], {"number", "failed"})
         /\ proc'[ProcOf[t]].failed = (mem[t].tries = 3)
<1>1. PICK n \in NumberFor(ProcOf[t]) :
        Put(t, [My(t) EXCEPT !.number = n, !.failed = (mem[t].tries = 3)])
  BY DEF Taken
<1> DEFINE q == [My(t) EXCEPT !.number = n, !.failed = (mem[t].tries = 3)]
<1>2. My(t) \in ProcType
  BY MyType
<1>3. /\ \A f \in Fields \ {"number", "failed"} : q[f] = My(t)[f]
      /\ q.failed = (mem[t].tries = 3)
  BY <1>2 DEF Fields, ProcType
<1>4. Put(t, q)
  BY <1>1
<1> HIDE DEF q
<1> QED
  BY <1>3, <1>4, PutChanges, PutIs

LEMMA IdleChanges ==
  ASSUME NEW t \in Threads,
         Check(t) \/ Exit(t) \/ Sample(t) \/ Format(t) \/ Retest(t) \/ Refused(t) \/ Truncate(t)
  PROVE  UNCHANGED proc
  BY DEF Check, Exit, Sample, Format, Retest, Refused, Truncate

LEMMA VforkHitChanges ==
  ASSUME TypeOK, NEW p \in Procs, VforkHit(p)
  PROVE  /\ Changes(p, {"count", "taken", "total", "pending", "vforked"})
         /\ proc'[p].pending
         /\ \E r \in Rules :
              /\ proc'[p].count = [proc[p].count EXCEPT ![r] = @ + 1]
              /\ proc'[p].taken = [proc[p].taken EXCEPT ![r] = @ + 1]
<1>1. PICK r \in ToSet(Active(p)) :
        proc' = [proc EXCEPT ![p] = [Counted(proc[p], r) EXCEPT !.total = @ + 1, !.pending = TRUE,
                                                               !.vforked = TRUE]]
  BY DEF VforkHit
<1> DEFINE q == [Counted(proc[p], r) EXCEPT !.total = @ + 1, !.pending = TRUE, !.vforked = TRUE]
<1>2. r \in Rules /\ proc[p] \in ProcType
  BY ActiveType DEF TypeOK
<1>3. /\ \A f \in Fields \ {"count", "taken", "total", "pending", "vforked"} : q[f] = proc[p][f]
      /\ q.count = [proc[p].count EXCEPT ![r] = @ + 1] /\ q.pending = TRUE
      /\ q.taken = [proc[p].taken EXCEPT ![r] = @ + 1]
  BY <1>2 DEF Fields, Counted, ProcType
<1>4. proc'[p] = q /\ \A s \in Procs \ {p} : proc'[s] = proc[s]
  BY <1>1 DEF TypeOK
<1> HIDE DEF q
<1> QED
  BY <1>2, <1>3, <1>4 DEF Changes

LEMMA ReloadChanges ==
  ASSUME TypeOK, NEW p \in Procs, Reload(p)
  PROVE  /\ Changes(p, {"active", "count"})
         /\ \A r \in Rules : proc'[p].count[r] <= proc[p].count[r]
<1>1. PICK f \in Files :
        proc' = [proc EXCEPT ![p].active = 1 - @, ![p].count = Kept(p, f, @)]
  BY DEF Reload
<1>2. proc[p] \in ProcType /\ proc[p].count \in [Rules -> Nat]
  BY FieldsType DEF TypeOK
<1>3. Changes(p, {"active", "count"}) /\ proc'[p].count = Kept(p, f, proc[p].count)
  BY <1>1, <1>2 DEF Changes, Fields, TypeOK, ProcType
<1> QED
  BY <1>2, <1>3 DEF Kept

LEMMA TickChanges ==
  ASSUME TypeOK, NEW p \in Procs, Tick(p)
  PROVE  Changes(p, {"recent"})
<1>1. proc[p] \in ProcType
  BY DEF TypeOK
<1> QED
  BY <1>1 DEF Tick, Changes, Fields, TypeOK, ProcType

\* fork gives a child that was not running fresh globals, and an end takes them
\* from a process; nobody else is touched.
LEMMA ForkChanges ==
  ASSUME TypeOK, NEW t \in Threads, Fork(t)
  PROVE  \E child \in Procs :
           /\ ~proc[child].up /\ \A s \in Procs \ {child} : proc'[s] = proc[s]
           /\ \A f \in Fields \ {"active"} : proc'[child][f] = Fresh(child, TRUE)[f]
<1>1. PICK child \in Forked :
        ~proc[child].up /\ proc' = [proc EXCEPT ![child] = Inherited(child, ProcOf[t])]
  BY DEF Fork
<1>2. child \in Procs
  BY ConstantsAssumption
<1>3. \A f \in Fields \ {"active"} : Inherited(child, ProcOf[t])[f] = Fresh(child, TRUE)[f]
  BY <1>2, FreshType DEF Inherited, ProcType, Fields
<1>4. proc'[child] = Inherited(child, ProcOf[t]) /\ \A s \in Procs \ {child} : proc'[s] = proc[s]
  BY <1>1, <1>2 DEF TypeOK
<1> QED
  BY <1>1, <1>2, <1>3, <1>4

LEMMA EndChanges ==
  ASSUME TypeOK, NEW p \in Procs, End(p)
  PROVE  proc'[p] = Fresh(p, FALSE) /\ \A s \in Procs \ {p} : proc'[s] = proc[s]
  BY DEF End, TypeOK

(***************************************************************************)
(* One writer.                                                             *)
(***************************************************************************)
LEMMA WriterInit == Init => WriterInv
<1> SUFFICES ASSUME Init PROVE WriterInv
  OBVIOUS
<1>1. \A t \in Threads : pc[t] \in {"idle", "ended"}
  BY DEF Init
<1> QED
  BY <1>1 DEF WriterInv, WriterOf, WriterLabels

\* Every process keeps its flag and its life, whatever else a step writes.
SameLife == \A p \in Procs : proc'[p].up = proc[p].up /\ proc'[p].writing = proc[p].writing

\* A step that leaves every process up and its flag alone, and takes no thread
\* but into the places outside the flag.
LEMMA WriterFrame ==
  ASSUME TypeOK, WriterInv, NEW t \in Threads, NEW to \in Labels \ WriterLabels, Goto(t, to),
         SameLife, to \in {"idle", "ended"} \/ My(t).up
  PROVE  WriterInv'
<1>1. ASSUME NEW u \in Threads PROVE WriterOf(u)'
  <2>1. WriterOf(u) /\ ProcOf[u] \in Procs
    BY MyType DEF WriterInv
  <2> QED
    BY <1>1, <2>1 DEF WriterOf, Goto, My, TypeOK, SameLife
<1>2. \A u \in Threads : pc'[u] \in WriterLabels => pc[u] \in WriterLabels
  BY DEF Goto, TypeOK
<1> QED
  BY <1>1, <1>2 DEF WriterInv

\* A step of the writer, which keeps the flag.
LEMMA WriterGoes ==
  ASSUME TypeOK, WriterInv, NEW t \in Threads, NEW to \in WriterLabels, Goto(t, to),
         pc[t] \in WriterLabels,
         SameLife
  PROVE  WriterInv'
<1>1. ASSUME NEW u \in Threads PROVE WriterOf(u)'
  <2>1. WriterOf(u) /\ ProcOf[u] \in Procs
    BY MyType DEF WriterInv
  <2> QED
    BY <1>1, <2>1 DEF WriterOf, Goto, My, TypeOK, SameLife, WriterLabels
<1>2. \A u \in Threads : pc'[u] \in WriterLabels => pc[u] \in WriterLabels
  BY DEF Goto, TypeOK
<1> QED
  BY <1>1, <1>2 DEF WriterInv

LEMMA KeepsFlag ==
  ASSUME NEW p \in Procs, NEW set \in SUBSET (Fields \ {"up", "writing"}), Changes(p, set)
  PROVE  SameLife
  BY DEF Changes, Fields, SameLife

LEMMA WriterStep == TypeOK /\ WriterInv /\ [Next]_vars => WriterInv'
<1> SUFFICES ASSUME TypeOK, WriterInv, [Next]_vars PROVE WriterInv'
  OBVIOUS
<1> USE DEF WriterLabels, Labels
<1>1. ASSUME NEW t \in Threads, Hit(t) PROVE WriterInv'
  <2>1. SameLife
    BY <1>1, HitChanges, KeepsFlag, MyType DEF Fields
  <2> QED
    BY <1>1, <2>1, WriterFrame DEF Hit
<1>2. ASSUME NEW t \in Threads, Check(t) \/ Retest(t) \/ Exit(t) PROVE WriterInv'
  <2>1. My(t).up
    BY <1>2 DEF Check, Retest, Exit, WriterInv, WriterOf
  <2> QED
    BY <1>2, <2>1, WriterFrame DEF Check, Retest, Exit, Away, SameLife
<1>3. ASSUME NEW t \in Threads, Fork(t) PROVE WriterInv'
  <2>1. PICK child \in Forked :
          /\ ~proc[child].up /\ proc' = [proc EXCEPT ![child] = Inherited(child, ProcOf[t])]
    BY <1>3 DEF Fork
  <2>2. ASSUME NEW u \in Threads PROVE WriterOf(u)'
    <3>1. WriterOf(u) /\ ProcOf[u] \in Procs /\ pc'[u] = pc[u]
      BY <1>3, MyType DEF Fork, WriterInv
    <3>2. CASE ProcOf[u] = child
      BY <2>1, <3>1, <3>2 DEF WriterOf, My
    <3>3. CASE ProcOf[u] # child
      BY <2>1, <3>1, <3>3 DEF WriterOf, My, TypeOK
    <3> QED
      BY <3>2, <3>3
  <2> QED
    BY <1>3, <2>2 DEF Fork, WriterInv
<1>4. ASSUME NEW t \in Threads, Count(t) PROVE WriterInv'
  <2>1. SameLife
    BY <1>4, CountChanges, KeepsFlag, MyType DEF Fields
  <2>2. My(t).up
    BY <1>4 DEF Count, WriterInv, WriterOf
  <2>3. Goto(t, "claim") \/ Goto(t, "idle")
    BY <1>4 DEF Count
  <2> QED
    BY <2>1, <2>2, <2>3, WriterFrame
<1>5. ASSUME NEW t \in Threads, Claim(t) PROVE WriterInv'
  <2>0. My(t).up /\ ProcOf[t] \in Procs
    BY <1>5, MyType DEF Claim, WriterInv, WriterOf
  <2>1. CASE Busy(My(t))
    BY <1>5, <2>0, <2>1, WriterFrame DEF Claim, Away, SameLife
  <2>2. CASE ~Busy(My(t))
    <3>1. proc' = [proc EXCEPT ![ProcOf[t]] = [My(t) EXCEPT !.writing = TRUE]]
      BY <1>5, <2>2 DEF Claim, Put
    <3>2. \A u \in Threads : ProcOf[u] = ProcOf[t] => pc[u] \notin WriterLabels
      BY <2>2 DEF Busy, WriterInv, WriterOf, My
    <3>3. ASSUME NEW u \in Threads PROVE WriterOf(u)'
      <4>1. WriterOf(u) /\ ProcOf[u] \in Procs
        BY MyType DEF WriterInv
      <4>2. CASE ProcOf[u] = ProcOf[t]
        BY <2>0, <3>1, <4>1, <4>2 DEF WriterOf, My, TypeOK, ProcType
      <4>3. CASE ProcOf[u] # ProcOf[t]
        BY <1>5, <2>2, <3>1, <4>1, <4>3 DEF Claim, Goto, WriterOf, My, TypeOK
      <4> QED
        BY <4>2, <4>3
    <3>4. \A u \in Threads : pc'[u] \in WriterLabels => u = t \/ pc[u] \in WriterLabels
      BY <1>5, <2>2 DEF Claim, Goto, TypeOK
    <3> QED
      BY <3>2, <3>3, <3>4 DEF WriterInv
  <2> QED
    BY <2>1, <2>2
<1>6. ASSUME NEW t \in Threads, Sample(t) \/ Format(t) \/ Truncate(t) \/ Fill(t) PROVE WriterInv'
  <2>1. SameLife
    BY <1>6, WrittenChanges, KeepsFlag, MyType DEF Sample, Format, Truncate, Fill, Fields, SameLife
  <2>2. CASE Goto(t, "test") \/ Goto(t, "publish") \/ Goto(t, "fill")
    BY <1>6, <2>1, <2>2, WriterGoes DEF Sample, Format, Truncate, Fill
  <2>3. CASE UNCHANGED pc
    BY <2>1, <2>3, MyType DEF WriterInv, WriterOf, My, SameLife
  <2> QED
    BY <1>6, <2>2, <2>3 DEF Sample, Format, Truncate, Fill
<1>7. ASSUME NEW t \in Threads, Test(t) PROVE WriterInv'
  <2>1. SameLife
    BY <1>7, TestChanges, KeepsFlag, MyType DEF Fields
  <2> QED
    BY <1>7, <2>1, WriterGoes DEF Test
<1>8. ASSUME NEW t \in Threads, Publish(t) PROVE WriterInv'
  <2>1. SameLife
    BY <1>8, WrittenChanges, TakenChanges, KeepsFlag, MyType
    DEF Publish, Fails, Links, Renames, Refused, Fields, SameLife
  <2>2. Goto(t, "test") \/ Goto(t, "publish") \/ Goto(t, "truncate")
    BY <1>8 DEF Publish, Fails, Links, Renames, Refused, Taken
  <2>3. pc[t] = "publish"
    BY <1>8 DEF Publish
  <2> QED
    BY <2>1, <2>2, <2>3, WriterGoes
<1>9. ASSUME NEW t \in Threads, Release(t) PROVE WriterInv'
  <2>1. /\ proc' = [proc EXCEPT ![ProcOf[t]] = [My(t) EXCEPT !.recent = TRUE, !.writing = FALSE]]
        /\ pc' = [pc EXCEPT ![t] = "retest"] /\ pc[t] = "release"
    BY <1>9 DEF Release, Put, Goto
  <2>2. \A u \in Threads : ProcOf[u] = ProcOf[t] /\ pc[u] \in WriterLabels => u = t
    BY <2>1 DEF WriterInv
  <2>3. ASSUME NEW u \in Threads PROVE WriterOf(u)'
    <3>1. WriterOf(u) /\ WriterOf(t) /\ ProcOf[u] \in Procs /\ ProcOf[t] \in Procs
          /\ My(t) \in ProcType
      BY MyType DEF WriterInv
    <3>2. CASE u = t
      BY <2>1, <3>1, <3>2 DEF WriterOf, My, TypeOK, ProcType
    <3>3. CASE u # t /\ ProcOf[u] = ProcOf[t]
      BY <2>1, <2>2, <3>1, <3>3 DEF WriterOf, My, TypeOK, ProcType
    <3>4. CASE u # t /\ ProcOf[u] # ProcOf[t]
      BY <2>1, <3>1, <3>4 DEF WriterOf, My, TypeOK
    <3> QED
      BY <3>2, <3>3, <3>4
  <2>4. \A u \in Threads : pc'[u] \in WriterLabels => pc[u] \in WriterLabels
    BY <2>1 DEF TypeOK
  <2> QED
    BY <2>3, <2>4 DEF WriterInv
<1>10. ASSUME NEW p \in Procs, End(p) PROVE WriterInv'
  <2>1. ASSUME NEW u \in Threads PROVE WriterOf(u)'
    BY <1>10, MyType DEF WriterInv, WriterOf, End, Ended, My, TypeOK
  <2>2. \A u \in Threads : pc'[u] \in WriterLabels => pc[u] \in WriterLabels
    BY <1>10 DEF End, TypeOK
  <2> QED
    BY <2>1, <2>2 DEF WriterInv
<1>11. ASSUME NEW p \in Procs, VforkHit(p) \/ Reload(p) \/ Tick(p) PROVE WriterInv'
  <2>1. SameLife
    BY <1>11, VforkHitChanges, ReloadChanges, TickChanges, KeepsFlag DEF Fields
  <2>2. UNCHANGED pc
    BY <1>11 DEF VforkHit, Reload, Tick
  <2> QED
    BY <2>1, <2>2, MyType DEF WriterInv, WriterOf, My, SameLife
<1>12. CASE UNCHANGED vars
  BY <1>12 DEF vars, WriterInv, WriterOf, My
<1> QED
  BY <1>1, <1>2, <1>3, <1>4, <1>5, <1>6, <1>7, <1>8, <1>9, <1>10, <1>11, <1>12, MyType
  DEF Next, Reporting, Leave, Kill

\* Who holds the writer flag, and who owes the file a write, in every state.
LEMMA WriterHolds == Spec => []WriterInv
  BY WriterInit, WriterStep, TypeCorrect, PTL DEF Spec

\* A process never has two threads that write its file at once: the flag has
\* one owner from Claim to Release (chaos_io_config.c:831).
THEOREM FileHasOneWriter == Spec => []OneWriter
<1>1. WriterInv => OneWriter
  BY DEF WriterInv, OneWriter, Writers, WriterLabels
<1> QED
  BY <1>1, WriterHolds, PTL

(***************************************************************************)
(* Whole reports.                                                          *)
(***************************************************************************)
LEMMA FaultsStay == [Next]_vars => UNCHANGED faults
  BY DEF Next, vars, Hit, Check, Exit, Fork, Reporting, Count, Claim, Sample, Test, Format, Publish,
         Truncate, Fill, Release, Retest, Leave, VforkHit, Reload, Kill, Tick, End, spent

LEMMA WholeInit == Init => WholeInv
<1> SUFFICES ASSUME Init PROVE WholeInv
  OBVIOUS
<1>1. \A n \in Numbers : file[n].whole
  BY DEF Init, NoFile
<1>2. \A t \in Threads : pc[t] \notin {"truncate", "fill"}
  BY DEF Init
<1> QED
  BY <1>1, <1>2 DEF WholeInv

\* The steps that leave the directory alone.
NoWrite ==
  \/ \E t \in Threads :
       \/ Hit(t) \/ Check(t) \/ Exit(t) \/ Fork(t) \/ Count(t) \/ Claim(t) \/ Sample(t) \/ Test(t)
       \/ Format(t) \/ Release(t) \/ Retest(t)
  \/ \E p \in Procs : VforkHit(p) \/ Reload(p) \/ Tick(p)
  \/ UNCHANGED vars

LEMMA NextCases ==
  ASSUME [Next]_vars
  PROVE  \/ NoWrite
         \/ \E t \in Threads : Publish(t) \/ Truncate(t) \/ Fill(t)
         \/ \E p \in Procs : End(p)
  BY ConstantsAssumption DEF Next, NoWrite, Reporting, Leave, Kill

LEMMA NoWriteFrame ==
  ASSUME TypeOK, NoWrite
  PROVE  /\ UNCHANGED file
         /\ \A u \in Threads : pc'[u] \in {"truncate", "fill"} => pc[u] \in {"truncate", "fill"}
<1>1. ASSUME NEW t \in Threads, Hit(t) \/ Check(t) \/ Exit(t) \/ Fork(t) \/ Count(t) \/ Claim(t)
      PROVE  /\ UNCHANGED file
             /\ \A u \in Threads : pc'[u] \in {"truncate", "fill"} => pc[u] \in {"truncate", "fill"}
  BY <1>1 DEF Hit, Check, Exit, Fork, Count, Claim, Away, Goto, TypeOK
<1>2. ASSUME NEW t \in Threads, Sample(t) \/ Test(t) \/ Format(t) \/ Release(t) \/ Retest(t)
      PROVE  /\ UNCHANGED file
             /\ \A u \in Threads : pc'[u] \in {"truncate", "fill"} => pc[u] \in {"truncate", "fill"}
  BY <1>2 DEF Sample, Test, Format, Release, Retest, Away, Goto, TypeOK
<1>3. ASSUME NEW p \in Procs, VforkHit(p) \/ Reload(p) \/ Tick(p)
      PROVE  UNCHANGED <<file, pc>>
  BY <1>3 DEF VforkHit, Reload, Tick
<1>4. CASE UNCHANGED vars
  BY <1>4 DEF vars
<1> QED
  BY <1>1, <1>2, <1>3, <1>4 DEF NoWrite

LEMMA WholeStep == TypeOK /\ WholeInv /\ [Next]_vars => WholeInv'
<1> SUFFICES ASSUME TypeOK, WholeInv, [Next]_vars, "sticky" \notin faults
             PROVE  /\ \A n \in Numbers : file'[n].whole
                    /\ \A t \in Threads : pc'[t] \notin {"truncate", "fill"}
  BY FaultsStay DEF WholeInv
<1>1. /\ \A n \in Numbers : file[n].whole
      /\ \A t \in Threads : pc[t] \notin {"truncate", "fill"}
  BY DEF WholeInv
<1>2. CASE NoWrite
  BY <1>1, <1>2, NoWriteFrame
<1>3. ASSUME NEW t \in Threads, Publish(t) \/ Truncate(t) \/ Fill(t)
      PROVE  /\ \A n \in Numbers : file'[n].whole
             /\ \A u \in Threads : pc'[u] \notin {"truncate", "fill"}
  <2>1. Publish(t) /\ ~Refused(t)
    BY <1>1, <1>3 DEF Truncate, Fill, Refused
  <2>2. Goto(t, "test") \/ Goto(t, "publish")
    BY <2>1 DEF Publish, Fails, Links, Taken, Renames
  <2>3. UNCHANGED file \/ file' = [file EXCEPT ![Name(t)] = Report(t)]
    BY <2>1 DEF Publish, Fails, Links, Taken, Renames
  <2>4. Report(t).whole
    BY DEF Report
  <2>5. \A n \in Numbers : file'[n].whole
    BY <1>1, <2>3, <2>4, MyType DEF TypeOK
  <2>6. \A u \in Threads : pc'[u] \notin {"truncate", "fill"}
    BY <1>1, <2>2 DEF Goto, TypeOK
  <2> QED
    BY <2>5, <2>6
<1>4. ASSUME NEW p \in Procs, End(p)
      PROVE  /\ \A n \in Numbers : file'[n].whole
             /\ \A u \in Threads : pc'[u] \notin {"truncate", "fill"}
  <2>1. \A n \in Numbers : file[n] \in FileType
    BY DEF TypeOK
  <2> QED
    BY <1>1, <1>4, <2>1 DEF End, FileType, TypeOK
<1> QED
  BY <1>2, <1>3, <1>4, NextCases

\* Whoever ends and when, a reader finds whole reports as long as the writer
\* may rename (chaos_status.h:338): the file is written in place only after a
\* rename was refused.
THEOREM ReportsStayWhole == Spec => []ReportsAreWhole
<1>1. Spec => []WholeInv
  BY WholeInit, WholeStep, TypeCorrect, PTL DEF Spec
<1>2. WholeInv => ReportsAreWhole
  BY DEF WholeInv, ReportsAreWhole
<1> QED
  BY <1>1, <1>2, PTL

(***************************************************************************)
(* A name of one's own.                                                    *)
(***************************************************************************)
SameName(p) == proc'[p].owned = proc[p].owned /\ proc'[p].number = proc[p].number

LEMMA OwnedInit == Init => OwnedInv
<1> SUFFICES ASSUME Init PROVE OwnedInv
  OBVIOUS
<1>1. PICK scene \in Scenes, chosen \in [Procs -> Numbers] :
        proc = [p \in Procs |-> [Fresh(p, Present(p, scene.cast)) EXCEPT !.number = chosen[p]]]
  BY DEF Init
<1>2. \A p \in Procs : ~proc[p].owned
  BY <1>1 DEF Fresh
<1>3. \A t \in Threads : pc[t] \notin {"truncate", "fill"}
  BY DEF Init
<1> QED
  BY <1>2, <1>3 DEF OwnedInv

LEMMA KeepsName ==
  ASSUME NEW s \in Procs, NEW set \in SUBSET (Fields \ {"owned", "number"}), Changes(s, set)
  PROVE  \A p \in Procs : SameName(p)
  BY DEF Changes, Fields, SameName

LEMMA NameFrame ==
  ASSUME TypeOK, NoWrite, NEW p \in Procs
  PROVE  SameName(p) \/ (~proc[p].up /\ ~proc'[p].owned)
<1> USE DEF SameName
<1>1. ASSUME NEW t \in Threads, Hit(t) \/ Count(t) \/ Claim(t) \/ Test(t) \/ Release(t)
      PROVE  SameName(p)
  BY <1>1, HitChanges, CountChanges, ClaimChanges, TestChanges, ReleaseChanges, KeepsName, MyType
  DEF Fields
<1>3. ASSUME NEW t \in Threads, Check(t) \/ Exit(t) \/ Sample(t) \/ Format(t) \/ Retest(t)
      PROVE  SameName(p)
  BY <1>3, IdleChanges
<1>4. ASSUME NEW t \in Threads, Fork(t) PROVE SameName(p) \/ (~proc[p].up /\ ~proc'[p].owned)
  <2>1. PICK child \in Forked :
          ~proc[child].up /\ proc' = [proc EXCEPT ![child] = Inherited(child, ProcOf[t])]
    BY <1>4 DEF Fork
  <2>2. ~Inherited(child, ProcOf[t]).owned
    BY DEF Inherited, Fresh
  <2> QED
    BY <2>1, <2>2 DEF TypeOK
<1>5. ASSUME NEW s \in Procs, VforkHit(s) \/ Reload(s) \/ Tick(s) PROVE SameName(p)
  BY <1>5, VforkHitChanges, ReloadChanges, TickChanges, KeepsName DEF Fields
<1>6. CASE UNCHANGED vars
  BY <1>6 DEF vars
<1> QED
  BY <1>1, <1>3, <1>4, <1>5, <1>6 DEF NoWrite

LEMMA WrittenName ==
  ASSUME TypeOK, NEW t \in Threads, Written(t, FALSE)
  PROVE  /\ proc'[ProcOf[t]].owned /\ proc'[ProcOf[t]].number = Name(t)
         /\ \A p \in Procs : p # ProcOf[t] => proc'[p] = proc[p]
  BY WrittenChanges DEF Changes, Fields, Name, My

LEMMA OwnedStep == TypeOK /\ WriterInv /\ OwnedInv /\ [Next]_vars => OwnedInv'
<1> SUFFICES ASSUME TypeOK, WriterInv, OwnedInv, [Next]_vars, Safe
             PROVE  /\ \A p \in Procs : proc'[p].owned => file'[proc'[p].number].by = p
                    /\ \A t \in Threads : pc'[t] \in {"truncate", "fill"} => proc'[ProcOf[t]].owned
  BY FaultsStay DEF OwnedInv, Safe, My
<1> DEFINE Owns  == \A p \in Procs : proc'[p].owned => file'[proc'[p].number].by = p
           Fills == \A t \in Threads : pc'[t] \in {"truncate", "fill"} => proc'[ProcOf[t]].owned
<1>1. /\ \A p \in Procs : proc[p].owned => file[proc[p].number].by = p
      /\ \A t \in Threads : pc[t] \in {"truncate", "fill"} => proc[ProcOf[t]].owned
      /\ \A t \in Threads : ProcOf[t] \in Procs
  BY MyType DEF OwnedInv, My
<1>2. CASE NoWrite
  <2>1. Owns
    BY <1>1, <1>2, NoWriteFrame, NameFrame DEF SameName
  <2>2. ASSUME NEW t \in Threads, pc'[t] \in {"truncate", "fill"} PROVE proc'[ProcOf[t]].owned
    <3>1. pc[t] \in {"truncate", "fill"}
      BY <1>2, <2>2, NoWriteFrame
    <3>2. proc[ProcOf[t]].up
      BY <3>1 DEF WriterInv, WriterOf, My
    <3> QED
      BY <1>1, <1>2, <3>1, <3>2, NameFrame DEF SameName
  <2> QED
    BY <2>1, <2>2
<1>3. ASSUME NEW t \in Threads, Written(t, FALSE), file' = [file EXCEPT ![Name(t)] = Report(t)],
             Goto(t, "test"),
             \A p \in Procs : p # ProcOf[t] /\ proc[p].owned => proc[p].number # Name(t)
      PROVE  Owns /\ Fills
  <2>1. /\ proc'[ProcOf[t]].owned /\ proc'[ProcOf[t]].number = Name(t)
        /\ \A p \in Procs : p # ProcOf[t] => proc'[p] = proc[p]
    BY <1>3, WrittenName
  <2>2. Owns
    <3>1. Report(t).by = ProcOf[t] /\ Name(t) \in Numbers
      BY MyType DEF Report
    <3>2. ASSUME NEW p \in Procs, proc'[p].owned PROVE file'[proc'[p].number].by = p
      <4>1. proc[p].number \in Numbers
        BY DEF TypeOK, ProcType
      <4>2. CASE p = ProcOf[t]
        BY <1>3, <2>1, <3>1, <4>2 DEF TypeOK
      <4>3. CASE p # ProcOf[t]
        BY <1>1, <1>3, <2>1, <3>1, <3>2, <4>1, <4>3 DEF TypeOK
      <4> QED
        BY <4>2, <4>3
    <3> QED
      BY <3>2
  <2>3. Fills
    BY <1>1, <1>3, <2>1 DEF Goto, TypeOK
  <2> QED
    BY <2>2, <2>3
<1>4. ASSUME NEW t \in Threads, Publish(t) PROVE Owns /\ Fills
  <2>1. ~Fails(t) /\ "links" \notin faults
    BY DEF Fails, Safe
  <2>2. CASE Links(t)
    <3>1. ASSUME NEW p \in Procs, proc[p].owned PROVE proc[p].number # Name(t)
      <4>1. file[Name(t)].by = "none"
        BY <2>2 DEF Links, Free, NoFile
      <4>2. file[proc[p].number].by = p
        BY <1>1, <3>1
      <4> QED
        BY <4>1, <4>2, ConstantsAssumption
    <3> QED
      BY <1>3, <2>2, <3>1 DEF Links
  <2>3. CASE Taken(t) /\ CreatesOnly(t)
    <3>1. ~My(t).owned
      BY <2>3 DEF CreatesOnly
    <3>2. PICK n \in NumberFor(ProcOf[t]) :
            proc' = [proc EXCEPT ![ProcOf[t]] =
                       [My(t) EXCEPT !.number = n, !.failed = (mem[t].tries = 3)]]
      BY <2>3 DEF Taken, Put
    <3>3. [My(t) EXCEPT !.number = n, !.failed = (mem[t].tries = 3)].owned = My(t).owned
      BY MyType DEF ProcType
    <3>4. ~proc'[ProcOf[t]].owned /\ \A p \in Procs : p # ProcOf[t] => proc'[p] = proc[p]
      BY <3>1, <3>2, <3>3, MyType DEF TypeOK
    <3>5. UNCHANGED file /\ \A u \in Threads : pc'[u] \in {"truncate", "fill"} => pc[u] = pc'[u]
      BY <2>3 DEF Taken, Goto, TypeOK
    <3>6. Owns
      BY <1>1, <3>4, <3>5
    <3>7. Fills
      BY <1>1, <3>1, <3>4, <3>5 DEF My
    <3> QED
      BY <3>6, <3>7
  <2>4. CASE Renames(t) /\ ~CreatesOnly(t)
    <3>1. file[Name(t)].by = ProcOf[t]
      BY <1>1, <2>4 DEF CreatesOnly, My, Name
    <3>2. \A p \in Procs : p # ProcOf[t] /\ proc[p].owned => proc[p].number # Name(t)
      BY <1>1, <3>1
    <3> QED
      BY <1>3, <2>4, <3>2 DEF Renames
  <2>5. CASE Refused(t) /\ ~CreatesOnly(t)
    <3>1. Goto(t, "truncate") /\ UNCHANGED <<proc, file>> /\ proc[ProcOf[t]].owned
      BY <2>5 DEF Refused, CreatesOnly, My
    <3>2. \A u \in Threads : pc'[u] \in {"truncate", "fill"} => u = t \/ pc[u] = pc'[u]
      BY <3>1 DEF Goto, TypeOK
    <3> QED
      BY <1>1, <3>1, <3>2
  <2> QED
    BY <1>4, <2>1, <2>2, <2>3, <2>4, <2>5 DEF Publish
<1>5. ASSUME NEW t \in Threads, Truncate(t) \/ Fill(t) PROVE Owns /\ Fills
  <2>1. proc[ProcOf[t]].owned /\ file[Name(t)].by = ProcOf[t]
    BY <1>1, <1>5 DEF Truncate, Fill, Name, My
  <2>2. CASE Truncate(t)
    <3>1. /\ UNCHANGED proc /\ Goto(t, "fill")
          /\ file' = [file EXCEPT ![Name(t)] = [by |-> ProcOf[t], lines |-> <<>>, whole |-> FALSE]]
      BY <2>2 DEF Truncate
    <3>2. \A n \in Numbers : file'[n].by = file[n].by
      BY <2>1, <3>1 DEF TypeOK
    <3>3. \A u \in Threads : pc'[u] \in {"truncate", "fill"} => u = t \/ pc[u] = pc'[u]
      BY <3>1 DEF Goto, TypeOK
    <3>4. \A p \in Procs : proc[p].number \in Numbers
      BY DEF TypeOK, ProcType
    <3>5. Owns
      BY <1>1, <3>1, <3>2, <3>4
    <3>6. Fills
      BY <1>1, <2>1, <3>1, <3>3
    <3> QED
      BY <3>5, <3>6
  <2>3. CASE Fill(t)
    <3>1. \A p \in Procs : p # ProcOf[t] /\ proc[p].owned => proc[p].number # Name(t)
      BY <1>1, <2>1
    <3> QED
      BY <1>3, <2>3, <3>1 DEF Fill
  <2> QED
    BY <1>5, <2>2, <2>3
<1>6. ASSUME NEW p \in Procs, End(p) PROVE Owns /\ Fills
  <2>1. ~proc'[p].owned /\ \A q \in Procs : q # p => proc'[q] = proc[q]
    BY <1>6 DEF End, Fresh, TypeOK
  <2>2. \A q \in Procs : proc[q].number \in Numbers
    BY DEF TypeOK, ProcType
  <2>3. Owns
    BY <1>1, <1>6, <2>1, <2>2 DEF End, TypeOK
  <2>4. Fills
    BY <1>1, <1>6, <2>1 DEF End, Ended
  <2> QED
    BY <2>3, <2>4
<1> QED
  BY <1>2, <1>4, <1>5, <1>6, NextCases

\* Which process each file belongs to, in every state.
LEMMA OwnedHolds == Spec => []OwnedInv
  BY OwnedInit, OwnedStep, WriterHolds, TypeCorrect, PTL DEF Spec

\* Processes that share a directory and a pid never write one file, unless the
\* file system refuses hard links or loses a write (chaos_hits.h:449).
THEOREM NamesAreOwn == Spec => []FilesAreOwn
<1>1. OwnedInv => FilesAreOwn
  BY DEF OwnedInv, Safe, FilesAreOwn, Shared
<1> QED
  BY <1>1, OwnedHolds, PTL

(***************************************************************************)
(* Reports are true.                                                       *)
(***************************************************************************)
\* No process starts or ends, and what was counted is taken.
Grows(p) ==
  /\ proc'[p].up = proc[p].up
  /\ \A r \in Rules : proc[p].taken[r] <= proc'[p].taken[r]
  /\ BookOf(p) => \A r \in Rules : proc'[p].count[r] <= proc'[p].taken[r]

LEMMA GrowsFrame ==
  ASSUME TypeOK, NEW s \in Procs, NEW set \in SUBSET (Fields \ {"up", "count", "taken"}),
         Changes(s, set), NEW p \in Procs
  PROVE  Grows(p)
<1>1. /\ proc'[p].up = proc[p].up /\ proc'[p].taken = proc[p].taken
      /\ proc'[p].count = proc[p].count
  BY DEF Changes, Fields
<1>2. proc[p].taken \in [Rules -> Nat]
  BY FieldsType DEF TypeOK
<1> QED
  BY <1>1, <1>2 DEF Grows, BookOf

LEMMA HitGrows ==
  ASSUME TypeOK, NEW s \in Procs, NEW set \in SUBSET (Fields \ {"up"}), Changes(s, set),
         NEW r \in Rules, proc'[s].count = [proc[s].count EXCEPT ![r] = @ + 1],
         proc'[s].taken = [proc[s].taken EXCEPT ![r] = @ + 1], NEW p \in Procs
  PROVE  Grows(p)
<1>1. proc[p].taken \in [Rules -> Nat] /\ proc[p].count \in [Rules -> Nat]
  BY FieldsType DEF TypeOK
<1>2. CASE p = s
  BY <1>1, <1>2 DEF Changes, Fields, Grows, BookOf
<1>3. CASE p # s
  BY <1>1, <1>3 DEF Changes, Grows, BookOf
<1> QED
  BY <1>2, <1>3

LEMMA GrowsStep ==
  ASSUME TypeOK, [Next]_vars, NEW p \in Procs
  PROVE  \/ Grows(p)
         \/ \E t \in Threads : Fork(t)
         \/ \E s \in Procs : End(s)
<1>1. ASSUME NEW t \in Threads, Hit(t) PROVE Grows(p)
  <2>1. PICK r \in Rules :
          /\ proc'[ProcOf[t]].count = [proc[ProcOf[t]].count EXCEPT ![r] = @ + 1]
          /\ proc'[ProcOf[t]].taken = [proc[ProcOf[t]].taken EXCEPT ![r] = @ + 1]
    BY <1>1, HitChanges
  <2>2. ProcOf[t] \in Procs /\ Changes(ProcOf[t], {"count", "taken"})
    BY <1>1, HitChanges, MyType
  <2>3. {"count", "taken"} \in SUBSET (Fields \ {"up"})
    BY DEF Fields
  <2> QED
    BY <2>1, <2>2, <2>3, HitGrows
<1>2. ASSUME NEW t \in Threads, Count(t) \/ Claim(t) \/ Test(t) \/ Release(t) PROVE Grows(p)
  BY <1>2, CountChanges, ClaimChanges, TestChanges, ReleaseChanges, GrowsFrame, MyType DEF Fields
<1>3. ASSUME UNCHANGED proc PROVE Grows(p)
  BY <1>3, GrowsFrame, NothingChanges
<1>4. ASSUME NEW t \in Threads, Publish(t) \/ Fill(t) PROVE Grows(p)
  <2>1. CASE UNCHANGED proc
    BY <1>3, <2>1
  <2>2. CASE Taken(t)
    BY <2>2, TakenChanges, GrowsFrame, MyType DEF Fields
  <2>3. CASE Written(t, TRUE) \/ Written(t, FALSE)
    BY <2>3, WrittenChanges, GrowsFrame, MyType DEF Fields
  <2> QED
    BY <1>4, <2>1, <2>2, <2>3 DEF Publish, Fill, Fails, Links, Renames, Refused
<1>5. ASSUME NEW s \in Procs, VforkHit(s) PROVE Grows(p)
  BY <1>5, VforkHitChanges, HitGrows DEF Fields
<1>6. ASSUME NEW s \in Procs, Reload(s) PROVE Grows(p)
  <2>1. /\ proc[p].taken \in [Rules -> Nat] /\ proc[p].count \in [Rules -> Nat]
        /\ proc'[p].up = proc[p].up /\ proc'[p].taken = proc[p].taken
    BY <1>6, ReloadChanges, FieldsType DEF TypeOK, Changes, Fields
  <2>2. \A r \in Rules : proc'[p].count[r] <= proc[p].count[r]
    BY <1>6, <2>1, ReloadChanges DEF Changes
  <2>3. proc'[p].count \in [Rules -> Int]
    BY <1>6, TypeStep, FieldsType DEF TypeOK, Next
  <2> QED
    BY <2>1, <2>2, <2>3 DEF Grows, BookOf
<1>7. ASSUME NEW s \in Procs, Tick(s) PROVE Grows(p)
  BY <1>7, TickChanges, GrowsFrame DEF Fields
<1> QED
  BY <1>1, <1>2, <1>3, <1>4, <1>5, <1>6, <1>7, IdleChanges, NextCases DEF NoWrite, vars

\* What a step does to the lines a thread has formatted.
LinesStay(t) == mem'[t].lines \in {mem[t].lines, <<>>}
LinesGrow(t) ==
  /\ pc[t] = "format" /\ UNCHANGED <<proc, pc>>
  /\ \E r \in Rules : mem'[t].lines = Append(mem[t].lines, [rule |-> r, hits |-> My(t).count[r]])

LEMMA LinesStep ==
  ASSUME TypeOK, [Next]_vars, NEW u \in Threads
  PROVE  LinesStay(u) \/ LinesGrow(u)
<1> USE DEF LinesStay
<1>1. CASE UNCHANGED mem
  BY <1>1
<1>2. ASSUME NEW t \in Threads, NEW m, Keep(t, m), m.lines \in {mem[t].lines, <<>>}
      PROVE  LinesStay(u)
  BY <1>2 DEF Keep, TypeOK
<1>3. ASSUME NEW t \in Threads, Exit(t) \/ Sample(t) \/ Test(t) \/ Release(t) \/ Taken(t)
      PROVE  LinesStay(u)
  <2>1. mem[t] \in MemType
    BY MyType
  <2>2. CASE Exit(t)
    BY <1>2, <2>1, <2>2 DEF Exit, MemType
  <2>3. CASE Sample(t)
    BY <1>2, <2>1, <2>3 DEF Sample, MemType
  <2>4. CASE Test(t)
    <3>1. [mem[t] EXCEPT !.lines = <<>>, !.tries = 0,
                         !.size = Len(copies[ProcOf[t]][mem[t].from + 1])].lines = <<>>
      BY <2>1 DEF MemType
    <3> QED
      BY <1>1, <1>2, <2>4, <3>1 DEF Test
  <2>5. CASE Release(t)
    <3>1. [NoMem EXCEPT !.leaving = mem[t].leaving].lines = <<>>
      BY DEF NoMem
    <3> QED
      BY <1>2, <2>5, <3>1 DEF Release
  <2>6. CASE Taken(t)
    BY <1>2, <2>1, <2>6 DEF Taken, MemType
  <2> QED
    BY <1>3, <2>2, <2>3, <2>4, <2>5, <2>6
<1>4. ASSUME NEW t \in Threads, Format(t) PROVE LinesStay(u) \/ LinesGrow(u)
  <2> DEFINE lines == mem[t].lines
             rules == copies[ProcOf[t]][mem[t].from + 1]
             i == Len(lines) + 1
  <2>1. /\ mem[t] \in MemType /\ i \in Nat /\ i > 0 /\ ProcOf[t] \in Procs
        /\ mem[t].from \in 0..1
    BY MyType, FieldsType
  <2>2. Len(rules) \in Nat /\ \A k \in 1..Len(rules) : rules[k] \in Rules
    BY <2>1, SnapshotType, FilesType
  <2>3. \/ UNCHANGED mem
        \/ /\ i <= Len(rules) /\ UNCHANGED <<pc, proc>>
           /\ Keep(t, [mem[t] EXCEPT !.lines =
                         Append(lines, [rule |-> rules[i], hits |-> My(t).count[rules[i]]])])
        \/ Keep(t, [mem[t] EXCEPT !.size = i - 1])
    BY <1>4 DEF Format
  <2> HIDE DEF lines, rules, i
  <2>4. CASE Keep(t, [mem[t] EXCEPT !.size = i - 1])
    BY <1>2, <2>1, <2>4 DEF MemType
  <2>5. CASE /\ i <= Len(rules) /\ UNCHANGED <<pc, proc>>
             /\ Keep(t, [mem[t] EXCEPT !.lines =
                           Append(lines, [rule |-> rules[i], hits |-> My(t).count[rules[i]]])])
    <3>1. CASE u = t
      <4>1. rules[i] \in Rules
        BY <2>1, <2>2, <2>5
      <4>4. pc[t] = "format"
        BY <1>4, Zenon DEF Format
      <4>2. mem'[t].lines = Append(lines, [rule |-> rules[i], hits |-> My(t).count[rules[i]]])
        BY <2>1, <2>5 DEF Keep, TypeOK, MemType
      <4> QED
        BY <2>5, <3>1, <4>1, <4>2, <4>4 DEF LinesGrow, lines
    <3>2. CASE u # t
      BY <2>5, <3>2 DEF Keep, TypeOK
    <3> QED
      BY <3>1, <3>2
  <2> QED
    BY <1>1, <2>3, <2>4, <2>5
<1>5. ASSUME NEW p \in Procs, End(p) PROVE LinesStay(u)
  BY <1>5 DEF End, NoMem, TypeOK
<1>6. ASSUME NEW t \in Threads, Hit(t) \/ Check(t) \/ Fork(t) \/ Count(t) \/ Claim(t) \/ Retest(t)
      PROVE  UNCHANGED mem
  BY <1>6 DEF Hit, Check, Fork, Count, Claim, Retest
<1>7. ASSUME NEW t \in Threads, Publish(t) \/ Truncate(t) \/ Fill(t) PROVE UNCHANGED mem \/ Taken(t)
  BY <1>7 DEF Publish, Fails, Links, Renames, Refused, Truncate, Fill
<1>8. ASSUME NEW p \in Procs, VforkHit(p) \/ Reload(p) \/ Tick(p) PROVE UNCHANGED mem
  BY <1>8 DEF VforkHit, Reload, Tick
<1> QED
  BY <1>1, <1>3, <1>4, <1>5, <1>6, <1>7, <1>8, NextCases DEF NoWrite, vars

\* What a step does to the file under a number.
Writes(t, n) ==
  /\ n = Name(t) /\ pc[t] \in {"publish", "truncate", "fill"}
  /\ file'[n] \in {Report(t), [by |-> ProcOf[t], lines |-> <<>>, whole |-> FALSE]}

LEMMA FileStep ==
  ASSUME TypeOK, [Next]_vars, NEW n \in Numbers
  PROVE  \/ file'[n] = file[n]
         \/ \E t \in Threads : Writes(t, n)
         \/ \E p \in Procs : End(p)
<1>1. CASE NoWrite
  BY <1>1, NoWriteFrame
<1>2. ASSUME NEW t \in Threads, Publish(t) \/ Truncate(t) \/ Fill(t)
      PROVE  file'[n] = file[n] \/ Writes(t, n)
  <2>1. \/ UNCHANGED file
        \/ file' = [file EXCEPT ![Name(t)] = Report(t)]
        \/ file' = [file EXCEPT ![Name(t)] = [by |-> ProcOf[t], lines |-> <<>>, whole |-> FALSE]]
    BY <1>2 DEF Publish, Fails, Links, Taken, Renames, Refused, Truncate, Fill
  <2>2. pc[t] \in {"publish", "truncate", "fill"}
    BY <1>2 DEF Publish, Truncate, Fill
  <2> QED
    BY <2>1, <2>2, MyType DEF Writes, TypeOK
<1> QED
  BY <1>1, <1>2, NextCases

LEMMA BelowGrows ==
  ASSUME NEW lines \in Seq(Line), NEW b \in [Rules -> Nat], NEW c \in [Rules -> Nat],
         Below(lines, b), \A r \in Rules : b[r] <= c[r]
  PROVE  Below(lines, c)
<1> SUFFICES ASSUME NEW i \in DOMAIN lines PROVE lines[i].hits <= c[lines[i].rule]
  BY DEF Below
<1>1. lines[i] \in Line
  OBVIOUS
<1>2. lines[i].rule \in Rules /\ lines[i].hits \in Nat
  BY <1>1 DEF Line
<1>3. lines[i].hits <= b[lines[i].rule] /\ b[lines[i].rule] <= c[lines[i].rule]
  BY <1>2 DEF Below
<1>4. b[lines[i].rule] \in Nat /\ c[lines[i].rule] \in Nat
  BY <1>2
<1> QED
  BY <1>2, <1>3, <1>4

LEMMA BelowAppend ==
  ASSUME NEW lines \in Seq(Line), NEW b \in [Rules -> Nat], NEW r \in Rules, NEW h \in Nat,
         Below(lines, b), h <= b[r]
  PROVE  Below(Append(lines, [rule |-> r, hits |-> h]), b)
<1> DEFINE more == Append(lines, [rule |-> r, hits |-> h])
<1>1. Len(more) = Len(lines) + 1 /\ more \in Seq(Line)
  BY DEF Line
<1>2. \A i \in 1..Len(lines) : more[i] = lines[i]
  OBVIOUS
<1>3. more[Len(lines) + 1] = [rule |-> r, hits |-> h]
  OBVIOUS
<1> HIDE DEF more
<1>4. DOMAIN more = 1..(Len(lines) + 1) /\ DOMAIN lines = 1..Len(lines) /\ Len(lines) \in Nat
  BY <1>1
<1>5. Below(more, b)
  BY <1>2, <1>3, <1>4 DEF Below
<1> QED
  BY <1>5 DEF more

LEMMA TakenInit == Init => TakenInv
<1> SUFFICES ASSUME Init PROVE TakenInv
  OBVIOUS
<1>1. PICK scene \in Scenes, chosen \in [Procs -> Numbers] :
        proc = [p \in Procs |-> [Fresh(p, Present(p, scene.cast)) EXCEPT !.number = chosen[p]]]
  BY DEF Init
<1>2. \A p \in Procs : BookOf(p)
  BY <1>1 DEF Fresh, BookOf
<1>3. \A n \in Numbers : file[n].by \in {"none", "ended"} /\ file[n].lines = <<>>
  BY DEF Init, NoFile
<1>4. \A t \in Threads : mem[t].lines = <<>>
  BY DEF Init, NoMem
<1>5. \A p \in Procs : DownOf(p)
  BY <1>3, <1>4, ConstantsAssumption DEF DownOf
<1>6. \A t \in Threads : BufferOf(t)
  BY <1>4 DEF BufferOf, Below
<1>7. \A n \in Numbers : PostedAt(n)
  BY <1>3, ConstantsAssumption DEF PostedAt
<1> QED
  BY <1>2, <1>5, <1>6, <1>7 DEF TakenInv

\* A process that starts or has ended counts from zero.
LEMMA FreshBook ==
  ASSUME NEW p \in Procs, NEW q, NEW up \in BOOLEAN,
         \A f \in Fields \ {"active"} : q[f] = Fresh(p, up)[f]
  PROVE  \A r \in Rules : q.count[r] = 0 /\ q.taken[r] = 0
<1>1. q.count = Fresh(p, up).count /\ q.taken = Fresh(p, up).taken
  BY DEF Fields
<1> QED
  BY <1>1 DEF Fresh

LEMMA TakenFork ==
  ASSUME TypeOK, TypeOK', TakenInv, NEW t \in Threads, Fork(t)
  PROVE  TakenInv'
<1>1. PICK child \in Procs :
        /\ ~proc[child].up /\ \A s \in Procs \ {child} : proc'[s] = proc[s]
        /\ \A f \in Fields \ {"active"} : proc'[child][f] = Fresh(child, TRUE)[f]
  BY ForkChanges
<1>2. UNCHANGED <<file, mem>>
  BY DEF Fork
<1>3. proc'[child].up /\ \A r \in Rules : proc'[child].count[r] = 0 /\ proc'[child].taken[r] = 0
  BY <1>1, FreshBook DEF Fields, Fresh
<1>4. DownOf(child)
  BY DEF TakenInv
<1>5. \A p \in Procs : BookOf(p)' /\ DownOf(p)'
  BY <1>1, <1>2, <1>3 DEF TakenInv, BookOf, DownOf
<1>6. ASSUME NEW u \in Threads PROVE BufferOf(u)'
  <2>1. BufferOf(u) /\ ProcOf[u] \in Procs
    BY MyType DEF TakenInv
  <2>2. CASE ProcOf[u] = child
    BY <1>1, <1>2, <1>4, <2>2 DEF DownOf, BufferOf, Below
  <2>3. CASE ProcOf[u] # child
    BY <1>1, <1>2, <2>1, <2>3 DEF BufferOf, My
  <2> QED
    BY <2>2, <2>3
<1>7. ASSUME NEW n \in Numbers PROVE PostedAt(n)'
  BY <1>1, <1>2, <1>4 DEF TakenInv, PostedAt, DownOf
<1> QED
  BY <1>5, <1>6, <1>7 DEF TakenInv

LEMMA TakenEnd ==
  ASSUME TypeOK, TakenInv, NEW p \in Procs, End(p)
  PROVE  TakenInv'
<1>1. proc'[p] = Fresh(p, FALSE) /\ \A s \in Procs \ {p} : proc'[s] = proc[s]
  BY EndChanges
<1>2. ASSUME NEW n \in Numbers
      PROVE  /\ file[n].by = p => file'[n].by = "ended"
             /\ file[n].by # p => file'[n] = file[n]
  BY DEF End, TypeOK, FileType
<1>3. \A t \in Threads : mem'[t] = IF ProcOf[t] = p THEN NoMem ELSE mem[t]
  BY DEF End, Ended
<1>4. \A r \in Rules : proc'[p].count[r] = 0 /\ proc'[p].taken[r] = 0
  BY <1>1, FreshBook
<1>5. ASSUME NEW s \in Procs PROVE BookOf(s)'
  <2>1. CASE s = p
    BY <1>4, <2>1 DEF BookOf
  <2>2. CASE s # p
    <3>1. proc'[s] = proc[s] /\ BookOf(s)
      BY <1>1, <2>2 DEF TakenInv
    <3> QED
      BY <3>1 DEF BookOf
  <2> QED
    BY <2>1, <2>2
<1>6. ASSUME NEW s \in Procs PROVE DownOf(s)'
  <2>1. DownOf(s) /\ "ended" # s
    BY ConstantsAssumption DEF TakenInv
  <2>2. CASE s = p
    BY <1>2, <1>3, <2>1, <2>2 DEF DownOf, NoMem
  <2>3. CASE s # p
    <3>1. proc'[s] = proc[s]
      BY <1>1, <2>3
    <3> QED
      BY <1>2, <1>3, <2>1, <2>3, <3>1 DEF DownOf
  <2> QED
    BY <2>2, <2>3
<1>7. ASSUME NEW t \in Threads PROVE BufferOf(t)'
  <2>1. BufferOf(t) /\ ProcOf[t] \in Procs
    BY MyType DEF TakenInv
  <2>2. CASE ProcOf[t] = p
    BY <1>3, <2>2 DEF BufferOf, Below, NoMem
  <2>3. CASE ProcOf[t] # p
    BY <1>1, <1>3, <2>1, <2>3 DEF BufferOf, My
  <2> QED
    BY <2>2, <2>3
<1>8. ASSUME NEW n \in Numbers PROVE PostedAt(n)'
  BY <1>1, <1>2, ConstantsAssumption DEF TakenInv, PostedAt
<1> QED
  BY <1>5, <1>6, <1>7, <1>8 DEF TakenInv

LEMMA TakenStep == TypeOK /\ WriterInv /\ TakenInv /\ [Next]_vars => TakenInv'
<1> SUFFICES ASSUME TypeOK, WriterInv, TakenInv, [Next]_vars PROVE TakenInv'
  OBVIOUS
<1>1. TypeOK'
  BY TypeStep
<1>2. CASE \E t \in Threads : Fork(t)
  BY <1>1, <1>2, TakenFork
<1>3. CASE \E p \in Procs : End(p)
  BY <1>3, TakenEnd
<1>4. CASE (\A t \in Threads : ~Fork(t)) /\ (\A p \in Procs : ~End(p))
  <2>1. \A p \in Procs : Grows(p) /\ BookOf(p) /\ DownOf(p)
    BY <1>4, GrowsStep DEF TakenInv
  <2>2. ASSUME NEW p \in Procs
        PROVE  proc[p].taken \in [Rules -> Nat] /\ proc'[p].taken \in [Rules -> Nat]
               /\ proc[p].count \in [Rules -> Nat]
    BY <1>1, FieldsType DEF TypeOK
  <2>3. ASSUME NEW p \in Procs PROVE BookOf(p)'
    BY <2>1 DEF Grows, BookOf
  <2>4. ASSUME NEW t \in Threads
        PROVE  Below(mem[t].lines, proc'[ProcOf[t]].taken)
    <3>1. BufferOf(t) /\ mem[t].lines \in Seq(Line) /\ ProcOf[t] \in Procs
      BY MyType, FieldsType DEF TakenInv
    <3> QED
      BY <2>1, <2>2, <3>1, BelowGrows DEF Grows, BufferOf, My
  <2>5. ASSUME NEW t \in Threads PROVE BufferOf(t)'
    <3>1. CASE LinesStay(t)
      BY <2>4, <3>1 DEF LinesStay, BufferOf, My, Below
    <3>2. CASE LinesGrow(t)
      <4>1. PICK r \in Rules :
              mem'[t].lines = Append(mem[t].lines, [rule |-> r, hits |-> My(t).count[r]])
        BY <3>2 DEF LinesGrow
      <4>2. /\ BufferOf(t) /\ mem[t].lines \in Seq(Line) /\ ProcOf[t] \in Procs
            /\ BookOf(ProcOf[t])
        BY MyType, FieldsType DEF TakenInv
      <4>3. /\ My(t).count[r] \in Nat /\ My(t).count[r] <= My(t).taken[r]
            /\ My(t).taken \in [Rules -> Nat]
        BY <2>2, <4>2 DEF BookOf, My
      <4>4. Below(mem'[t].lines, My(t).taken)
        BY <4>1, <4>2, <4>3, BelowAppend DEF BufferOf
      <4> QED
        BY <3>2, <4>4 DEF LinesGrow, BufferOf, My
    <3> QED
      BY <3>1, <3>2, LinesStep
  <2>6. ASSUME NEW n \in Numbers, NEW t \in Threads, Writes(t, n)
        PROVE  /\ file'[n].by = ProcOf[t] /\ proc[ProcOf[t]].up
               /\ file'[n].lines \in {mem[t].lines, <<>>}
    <3>1. proc[ProcOf[t]].up
      BY <2>6 DEF Writes, WriterInv, WriterOf, My
    <3> QED
      BY <2>6, <3>1 DEF Writes, Report
  <2>7. ASSUME NEW n \in Numbers PROVE PostedAt(n)'
    <3>1. CASE file'[n] = file[n]
      <4>1. PostedAt(n) /\ file[n].lines \in Seq(Line)
        BY DEF TakenInv, TypeOK, FileType
      <4> QED
        BY <2>1, <2>2, <3>1, <4>1, BelowGrows DEF PostedAt, Grows
    <3>2. ASSUME NEW t \in Threads, Writes(t, n) PROVE PostedAt(n)'
      <4>1. Below(<<>>, proc'[ProcOf[t]].taken)
        BY DEF Below
      <4> QED
        BY <2>4, <2>6, <3>2, <4>1 DEF PostedAt
    <3> QED
      BY <1>4, <3>1, <3>2, FileStep
  <2>8. ASSUME NEW p \in Procs PROVE DownOf(p)'
    <3>1. SUFFICES ASSUME ~proc'[p].up
          PROVE  /\ \A n \in Numbers : file'[n].by # p
                 /\ \A t \in Threads : ProcOf[t] = p => mem'[t].lines = <<>>
      BY DEF DownOf
    <3>2. ~proc[p].up
      BY <2>1, <3>1 DEF Grows
    <3>3. ASSUME NEW n \in Numbers PROVE file'[n].by # p
      BY <1>4, <2>1, <2>6, <3>2, FileStep DEF DownOf
    <3>4. ASSUME NEW t \in Threads, ProcOf[t] = p PROVE mem'[t].lines = <<>>
      <4>1. mem[t].lines = <<>>
        BY <2>1, <3>2, <3>4 DEF DownOf
      <4>2. ~LinesGrow(t)
        BY <3>2, <3>4 DEF LinesGrow, WriterInv, WriterOf, My
      <4> QED
        BY <4>1, <4>2, LinesStep DEF LinesStay
    <3> QED
      BY <3>3, <3>4
  <2> QED
    BY <2>3, <2>5, <2>7, <2>8 DEF TakenInv
<1> QED
  BY <1>2, <1>3, <1>4

\* No report claims more than happened: no line of a live process's file counts
\* a rule more often than the rule fired since that process started
\* (chaos_io_config_report_hits), whatever reloads, forks and writers do.
THEOREM ReportsStayTrue == Spec => []ReportsAreTrue
<1>1. Spec => []TakenInv
  BY TakenInit, TakenStep, WriterHolds, TypeCorrect, PTL DEF Spec
<1>2. TakenInv => ReportsAreTrue
  BY DEF TakenInv, PostedAt, Below, ReportsAreTrue
<1> QED
  BY <1>1, <1>2, PTL

(***************************************************************************)
(* A due hit is watched.                                                   *)
(***************************************************************************)
LEMMA WatchInit == Init => WatchInv
<1> SUFFICES ASSUME Init PROVE WatchInv
  OBVIOUS
<1>1. PICK scene \in Scenes, chosen \in [Procs -> Numbers] :
        proc = [p \in Procs |-> [Fresh(p, Present(p, scene.cast)) EXCEPT !.number = chosen[p]]]
  BY DEF Init
<1>2. \A p \in Procs : ~proc[p].writing /\ ~proc[p].due
  BY <1>1 DEF Fresh
<1> QED
  BY <1>2 DEF WatchInv, WatchOf

\* The threads of p that hold the flag keep it, those that watch go on watching.
Stays(p) ==
  \A u \in Threads : ProcOf[u] = p =>
    /\ pc[u] \in WriterLabels => pc'[u] \in WriterLabels
    /\ pc[u] \in Watching => pc'[u] \in Watching

LEMMA WatchFrame ==
  ASSUME NEW p \in Procs, WatchOf(p), Stays(p), proc'[p].writing => proc[p].writing,
         proc'[p].due => proc[p].due, proc[p].pending => proc'[p].pending
  PROVE  WatchOf(p)'
  BY DEF WatchOf, Stays

LEMMA WatchFresh ==
  ASSUME NEW p \in Procs, NEW up \in BOOLEAN, \A f \in Fields \ {"active"} : proc'[p][f] = Fresh(p, up)[f]
  PROVE  WatchOf(p)'
<1>1. ~proc'[p].writing /\ ~proc'[p].due
  BY DEF Fields, Fresh
<1> QED
  BY <1>1 DEF WatchOf

LEMMA GotoStays ==
  ASSUME TypeOK, NEW t \in Threads, NEW to \in Labels, Goto(t, to), NEW p \in Procs,
         \/ p # ProcOf[t]
         \/ pc[t] \notin Watching
         \/ pc[t] \in WriterLabels /\ to \in WriterLabels
  PROVE  Stays(p)
  BY DEF Stays, Goto, TypeOK, Watching, WriterLabels

LEMMA SetsWatch ==
  ASSUME WatchInv, NEW s \in Procs, NEW set \in SUBSET (Fields \ {"writing", "due", "pending"}),
         Changes(s, set), NEW p \in Procs, Stays(p)
  PROVE  WatchOf(p)'
<1>1. proc'[p].writing = proc[p].writing /\ proc'[p].due = proc[p].due
      /\ proc'[p].pending = proc[p].pending
  BY DEF Changes, Fields
<1> QED
  BY <1>1, WatchFrame DEF WatchInv

LEMMA WatchStep == TypeOK /\ WatchInv /\ [Next]_vars => WatchInv'
<1> SUFFICES ASSUME TypeOK, WatchInv, [Next]_vars, NEW p \in Procs PROVE WatchOf(p)'
  BY DEF WatchInv
<1> USE DEF Labels, WriterLabels, Watching
<1>0. WatchOf(p)
  BY DEF WatchInv
<1>1. ASSUME NEW t \in Threads, Hit(t) PROVE WatchOf(p)'
  <2>1. Stays(p)
    BY <1>1, GotoStays DEF Hit
  <2> QED
    BY <1>1, <2>1, HitChanges, SetsWatch, MyType DEF Fields
<1>2. ASSUME NEW t \in Threads, Check(t) \/ Exit(t) PROVE WatchOf(p)'
  <2>1. Stays(p)
    BY <1>2, GotoStays DEF Check, Exit
  <2> QED
    BY <1>0, <1>2, <2>1, IdleChanges, WatchFrame
<1>3. ASSUME NEW t \in Threads, Fork(t) PROVE WatchOf(p)'
  <2>1. PICK child \in Procs :
          /\ \A s \in Procs \ {child} : proc'[s] = proc[s]
          /\ \A f \in Fields \ {"active"} : proc'[child][f] = Fresh(child, TRUE)[f]
    BY <1>3, ForkChanges
  <2>2. Stays(p)
    BY <1>3 DEF Fork, Stays
  <2>3. CASE p = child
    BY <2>1, <2>3, WatchFresh
  <2>4. CASE p # child
    BY <1>0, <2>1, <2>2, <2>4, WatchFrame
  <2> QED
    BY <2>3, <2>4
<1>4. ASSUME NEW t \in Threads, Count(t) PROVE WatchOf(p)'
  <2>1. /\ Changes(ProcOf[t], {"total", "pending", "due"}) /\ proc'[ProcOf[t]].pending
        /\ proc'[ProcOf[t]].due => proc[ProcOf[t]].due \/ Goto(t, "claim")
    BY <1>4, CountChanges
  <2>2. pc[t] = "count" /\ (Goto(t, "claim") \/ Goto(t, "idle"))
    BY <1>4 DEF Count
  <2>3. Stays(p)
    BY <2>2, GotoStays
  <2>4. proc'[p].writing = proc[p].writing
    BY <2>1 DEF Changes, Fields
  <2>5. CASE p = ProcOf[t] /\ Goto(t, "claim")
    <3>1. pc'[t] = "claim"
      BY <2>5 DEF Goto, TypeOK
    <3> QED
      BY <1>0, <2>1, <2>3, <2>4, <2>5, <3>1 DEF WatchOf, Stays
  <2>6. CASE p = ProcOf[t] /\ ~Goto(t, "claim")
    BY <1>0, <2>1, <2>3, <2>4, <2>6, WatchFrame
  <2>7. CASE p # ProcOf[t]
    <3>1. proc'[p] = proc[p]
      BY <2>1, <2>7 DEF Changes
    <3> QED
      BY <1>0, <2>3, <3>1, WatchFrame
  <2> QED
    BY <2>5, <2>6, <2>7
<1>5. ASSUME NEW t \in Threads, Claim(t) PROVE WatchOf(p)'
  <2>1. Changes(ProcOf[t], {"writing"}) /\ pc[t] = "claim"
    BY <1>5, ClaimChanges DEF Claim
  <2>2. proc'[p].due = proc[p].due /\ proc'[p].pending = proc[p].pending
    BY <2>1 DEF Changes, Fields
  <2>3. CASE p # ProcOf[t]
    <3>1. Goto(t, "sample") \/ Goto(t, "idle") \/ Goto(t, "end")
      BY <1>5 DEF Claim, Away
    <3>2. Stays(p) /\ proc'[p] = proc[p]
      BY <2>1, <2>3, <3>1, GotoStays DEF Changes
    <3> QED
      BY <1>0, <3>2, WatchFrame
  <2>4. CASE p = ProcOf[t] /\ Busy(My(t))
    <3>1. PICK u \in Threads : ProcOf[u] = p /\ pc[u] \in WriterLabels
      BY <1>0, <2>4 DEF Busy, My, WatchOf
    <3>2. pc'[u] \in WriterLabels
      BY <1>5, <2>1, <2>4, <3>1 DEF Claim, Goto, TypeOK
    <3> QED
      BY <1>0, <2>2, <3>1, <3>2 DEF WatchOf
  <2>5. CASE p = ProcOf[t] /\ ~Busy(My(t))
    <3>1. pc'[t] = "sample"
      BY <1>5, <2>5 DEF Claim, Goto, TypeOK
    <3> QED
      BY <1>0, <2>2, <2>5, <3>1 DEF WatchOf
  <2> QED
    BY <2>3, <2>4, <2>5
<1>6. ASSUME NEW t \in Threads, Sample(t) \/ Format(t) \/ Truncate(t) \/ Fill(t) \/ Publish(t)
      PROVE  WatchOf(p)'
  <2>1. pc[t] \in WriterLabels
    BY <1>6 DEF Sample, Format, Truncate, Fill, Publish
  <2>2. \/ UNCHANGED pc
        \/ \E to \in WriterLabels : Goto(t, to)
    BY <1>6 DEF Sample, Format, Truncate, Fill, Publish, Fails, Links, Taken, Renames, Refused
  <2>3. Stays(p)
    <3>1. CASE UNCHANGED pc
      BY <3>1 DEF Stays
    <3>2. CASE \E to \in WriterLabels : Goto(t, to)
      BY <2>1, <3>2, GotoStays
    <3> QED
      BY <2>2, <3>1, <3>2
  <2>4. CASE UNCHANGED proc
    BY <1>0, <2>3, <2>4, WatchFrame
  <2>5. CASE Written(t, TRUE) \/ Written(t, FALSE)
    BY <2>3, <2>5, WrittenChanges, SetsWatch, MyType DEF Fields
  <2>6. CASE Taken(t)
    BY <2>3, <2>6, TakenChanges, SetsWatch, MyType DEF Fields
  <2> QED
    BY <1>6, <2>4, <2>5, <2>6 DEF Sample, Format, Truncate, Fill, Publish, Fails, Links, Renames, Refused
<1>7. ASSUME NEW t \in Threads, Test(t) PROVE WatchOf(p)'
  <2>1. pc[t] = "test" /\ (Goto(t, "format") \/ Goto(t, "release"))
    BY <1>7 DEF Test
  <2>2. Stays(p)
    BY <2>1, GotoStays
  <2>3. CASE UNCHANGED proc
    BY <1>0, <2>2, <2>3, WatchFrame
  <2>4. CASE Goto(t, "format")
    <3>1. Changes(ProcOf[t], {"pending", "due"}) /\ ~proc'[ProcOf[t]].due
      BY <1>7, <2>4, TestChanges
    <3>2. CASE p = ProcOf[t]
      <4>1. proc'[p].writing = proc[p].writing
        BY <3>1 DEF Changes, Fields
      <4> QED
        BY <1>0, <2>2, <3>1, <3>2, <4>1 DEF WatchOf, Stays
    <3>3. CASE p # ProcOf[t]
      <4>1. proc'[p] = proc[p]
        BY <3>1, <3>3 DEF Changes
      <4> QED
        BY <1>0, <2>2, <4>1, WatchFrame
    <3> QED
      BY <3>2, <3>3
  <2> QED
    BY <1>7, <2>3, <2>4, TestChanges
<1>8. ASSUME NEW t \in Threads, Release(t) PROVE WatchOf(p)'
  <2>1. Changes(ProcOf[t], {"recent", "writing"}) /\ ~proc'[ProcOf[t]].writing
    BY <1>8, ReleaseChanges
  <2>2. Goto(t, "retest") /\ pc'[t] = "retest"
    BY <1>8 DEF Release, Goto, TypeOK
  <2>3. CASE p = ProcOf[t]
    <3>1. proc'[p].due = proc[p].due /\ proc'[p].pending = proc[p].pending
      BY <2>1 DEF Changes, Fields
    <3> QED
      BY <1>0, <2>1, <2>2, <2>3, <3>1 DEF WatchOf
  <2>4. CASE p # ProcOf[t]
    <3>1. Stays(p) /\ proc'[p] = proc[p]
      BY <2>1, <2>2, <2>4, GotoStays DEF Changes
    <3> QED
      BY <1>0, <3>1, WatchFrame
  <2> QED
    BY <2>3, <2>4
<1>9. ASSUME NEW t \in Threads, Retest(t) PROVE WatchOf(p)'
  <2>1. UNCHANGED proc /\ pc[t] = "retest"
    BY <1>9 DEF Retest
  <2>2. CASE p # ProcOf[t] \/ proc[ProcOf[t]].pending
    <3>1. \A u \in Threads \ {t} : pc'[u] = pc[u]
      BY <1>9 DEF Retest, Goto, TypeOK
    <3>2. CASE p # ProcOf[t]
      BY <1>0, <2>1, <3>1, <3>2, WatchFrame DEF Stays
    <3>3. CASE proc[ProcOf[t]].pending
      <4>1. pc'[t] = "claim"
        BY <1>9, <3>3 DEF Retest, Again, My, Goto, TypeOK
      <4> QED
        BY <1>0, <2>1, <3>1, <4>1, WatchFrame DEF Stays
    <3> QED
      BY <2>2, <3>2, <3>3
  <2>3. CASE p = ProcOf[t] /\ ~proc[p].pending
    <3>1. \A u \in Threads : pc[u] \in WriterLabels => pc'[u] = pc[u]
      BY <1>9, <2>1 DEF Retest, Goto
    <3> QED
      BY <1>0, <2>1, <2>3, <3>1 DEF WatchOf
  <2> QED
    BY <2>2, <2>3
<1>10. ASSUME NEW s \in Procs, End(s) PROVE WatchOf(p)'
  <2>1. proc'[s] = Fresh(s, FALSE) /\ \A q \in Procs \ {s} : proc'[q] = proc[q]
    BY <1>10, EndChanges
  <2>2. CASE p = s
    BY <2>1, <2>2, WatchFresh
  <2>3. CASE p # s
    <3>1. Stays(p) /\ proc'[p] = proc[p]
      BY <1>10, <2>1, <2>3 DEF End, Ended, Stays
    <3> QED
      BY <1>0, <3>1, WatchFrame
  <2> QED
    BY <2>2, <2>3
<1>11. ASSUME NEW s \in Procs, VforkHit(s) PROVE WatchOf(p)'
  <2>1. Stays(p)
    BY <1>11 DEF VforkHit, Stays
  <2>2. /\ proc'[p].writing = proc[p].writing /\ proc'[p].due = proc[p].due
        /\ proc[p].pending => proc'[p].pending
    BY <1>11, VforkHitChanges DEF Changes, Fields
  <2> QED
    BY <1>0, <2>1, <2>2, WatchFrame
<1>12. ASSUME NEW s \in Procs, Reload(s) \/ Tick(s) PROVE WatchOf(p)'
  <2>1. Stays(p)
    BY <1>12 DEF Reload, Tick, Stays
  <2> QED
    BY <1>12, <2>1, ReloadChanges, TickChanges, SetsWatch DEF Fields
<1>13. CASE UNCHANGED vars
  BY <1>0, <1>13 DEF vars, WatchOf
<1> QED
  BY <1>1, <1>2, <1>3, <1>4, <1>5, <1>6, <1>7, <1>8, <1>9, <1>10, <1>11, <1>12, <1>13, NextCases
  DEF NoWrite

\* Who is going to look at a pending hit, in every state.
LEMMA WatchHolds == Spec => []WatchInv
  BY WatchInit, WatchStep, TypeCorrect, PTL DEF Spec

(***************************************************************************)
(* Quiet means reported.                                                   *)
(***************************************************************************)
LEMMA CoversLess ==
  ASSUME NEW lines \in Seq(Line), NEW b \in [Rules -> Nat], NEW c \in [Rules -> Nat],
         Covers(lines, b), \A r \in Rules : c[r] <= b[r]
  PROVE  Covers(lines, c)
<1> SUFFICES ASSUME NEW i \in DOMAIN lines PROVE lines[i].hits >= c[lines[i].rule]
  BY DEF Covers
<1>1. lines[i] \in Line
  OBVIOUS
<1>2. lines[i].rule \in Rules /\ lines[i].hits \in Nat
  BY <1>1 DEF Line
<1>3. lines[i].hits >= b[lines[i].rule] /\ c[lines[i].rule] <= b[lines[i].rule]
  BY <1>2 DEF Covers
<1>4. b[lines[i].rule] \in Nat /\ c[lines[i].rule] \in Nat
  BY <1>2
<1> QED
  BY <1>2, <1>3, <1>4

LEMMA CoversAppend ==
  ASSUME NEW lines \in Seq(Line), NEW b \in [Rules -> Nat], NEW r \in Rules, Covers(lines, b)
  PROVE  Covers(Append(lines, [rule |-> r, hits |-> b[r]]), b)
<1> DEFINE more == Append(lines, [rule |-> r, hits |-> b[r]])
<1>1. Len(more) = Len(lines) + 1 /\ more \in Seq(Line)
  BY DEF Line
<1>2. \A i \in 1..Len(lines) : more[i] = lines[i]
  OBVIOUS
<1>3. more[Len(lines) + 1] = [rule |-> r, hits |-> b[r]] /\ b[r] >= b[r]
  OBVIOUS
<1> HIDE DEF more
<1>4. DOMAIN more = 1..(Len(lines) + 1) /\ DOMAIN lines = 1..Len(lines) /\ Len(lines) \in Nat
  BY <1>1
<1>5. Covers(more, b)
  BY <1>2, <1>3, <1>4 DEF Covers
<1> QED
  BY <1>5 DEF more

LEMMA CoversType ==
  ASSUME TypeOK
  PROVE  /\ \A t \in Threads : mem[t].lines \in Seq(Line) /\ ProcOf[t] \in Procs
         /\ \A p \in Procs : proc[p].count \in [Rules -> Nat] /\ proc[p].number \in Numbers
         /\ \A n \in Numbers : file[n].lines \in Seq(Line)
  BY MyType, FieldsType DEF TypeOK, FileType

LEMMA QuietInit == Init => QuietInv
<1> SUFFICES ASSUME Init PROVE QuietInv
  OBVIOUS
<1>1. PICK scene \in Scenes, chosen \in [Procs -> Numbers] :
        proc = [p \in Procs |-> [Fresh(p, Present(p, scene.cast)) EXCEPT !.number = chosen[p]]]
  BY DEF Init
<1>2. \A p \in Procs : proc[p].total = 0
  BY <1>1 DEF Fresh
<1>3. \A t \in Threads : pc[t] \notin Filling
  BY DEF Init, Filling
<1> QED
  BY <1>2, <1>3 DEF QuietInv, LinesOf, FileOf

\* Where the threads of p that count or compose are after a step.
Comes(p) ==
  /\ Counting(p) => Counting(p)'
  /\ Composing(p) => Composing(p)'
  /\ \A u \in Threads : ProcOf[u] = p /\ pc'[u] \in Filling => pc[u] \in Filling

LEMMA GotoComes ==
  ASSUME TypeOK, NEW t \in Threads, NEW to \in Labels, Goto(t, to), NEW p \in Procs,
         \/ p # ProcOf[t]
         \/ pc[t] \notin Filling /\ pc[t] # "count" /\ to \notin Filling
         \/ pc[t] \in Filling /\ to \in Filling
  PROVE  Comes(p)
<1>1. \A u \in Threads : pc'[u] = IF u = t THEN to ELSE pc[u]
  BY DEF Goto, TypeOK
<1>2. Counting(p) => Counting(p)'
  BY <1>1 DEF Counting, Filling
<1>3. Composing(p) => Composing(p)'
  BY <1>1 DEF Composing
<1> QED
  BY <1>1, <1>2, <1>3 DEF Comes

\* Lines that cover the counters go on doing so while these do not grow.
LEMMA LinesFrame ==
  ASSUME TypeOK, TypeOK', NEW u \in Threads, LinesOf(u), Comes(ProcOf[u]), LinesStay(u),
         proc[ProcOf[u]].pending => proc'[ProcOf[u]].pending,
         \A r \in Rules : proc'[ProcOf[u]].count[r] <= proc[ProcOf[u]].count[r]
  PROVE  LinesOf(u)'
<1> SUFFICES ASSUME pc'[u] \in Filling, Settled(ProcOf[u])'
             PROVE  Covers(mem'[u].lines, proc'[ProcOf[u]].count)
  BY DEF LinesOf, My
<1>1. /\ mem[u].lines \in Seq(Line) /\ proc[ProcOf[u]].count \in [Rules -> Nat]
      /\ proc'[ProcOf[u]].count \in [Rules -> Nat]
  <2>1. ProcOf[u] \in Procs
    BY MyType
  <2> QED
    BY <2>1, CoversType, FieldsType DEF TypeOK
<1>2. Covers(mem[u].lines, proc[ProcOf[u]].count)
  BY DEF LinesOf, Comes, Settled, My
<1>3. Covers(mem[u].lines, proc'[ProcOf[u]].count)
  BY <1>1, <1>2, CoversLess
<1> QED
  BY <1>3 DEF LinesStay, Covers

\* What a step may do to the file and the globals of p when it is not by one of
\* its writers.
Rests(p) ==
  /\ proc'[p].up => proc[p].up
  /\ proc[p].pending => proc'[p].pending
  /\ proc'[p].failed = proc[p].failed /\ proc'[p].total = proc[p].total
  /\ SameName(p)
  /\ \A r \in Rules : proc'[p].count[r] <= proc[p].count[r]

LEMMA FileFrame ==
  ASSUME TypeOK, TypeOK', NEW p \in Procs, FileOf(p), Comes(p), Rests(p),
         proc[p].owned => file'[proc[p].number] = file[proc[p].number]
  PROVE  FileOf(p)'
<1> SUFFICES ASSUME proc'[p].up, Settled(p)', ~proc'[p].failed, proc'[p].total > 0, ~Composing(p)'
             PROVE  /\ proc'[p].owned
                    /\ Covers(file'[proc'[p].number].lines, proc'[p].count)
  BY DEF FileOf
<1>1. proc[p].owned /\ Covers(file[proc[p].number].lines, proc[p].count)
  BY DEF FileOf, Rests, Comes, Settled
<1>2. /\ file[proc[p].number].lines \in Seq(Line) /\ proc[p].count \in [Rules -> Nat]
      /\ proc'[p].count \in [Rules -> Nat]
  BY CoversType, FieldsType DEF TypeOK
<1> QED
  BY <1>1, <1>2, CoversLess DEF Rests, SameName

LEMMA RestsFrame ==
  ASSUME TypeOK, NEW s \in Procs, NEW p \in Procs,
         NEW set \in SUBSET (Fields \ {"up", "pending", "failed", "total", "owned", "number", "count"}),
         Changes(s, set)
  PROVE  Rests(p)
<1>1. /\ proc'[p].up = proc[p].up /\ proc'[p].pending = proc[p].pending
      /\ proc'[p].failed = proc[p].failed /\ proc'[p].total = proc[p].total
      /\ SameName(p) /\ proc'[p].count = proc[p].count
  BY DEF Changes, Fields, SameName
<1>2. proc[p].count \in [Rules -> Nat]
  BY CoversType
<1> QED
  BY <1>1, <1>2 DEF Rests

\* Nobody else writes the file of p.
LEMMA OthersKeepOut ==
  ASSUME TypeOK, OwnedInv, OwnedInv', Safe, Safe', NEW p \in Procs, SameName(p), proc[p].owned,
         NEW t \in Threads, ProcOf[t] # p, Publish(t) \/ Truncate(t) \/ Fill(t)
  PROVE  file'[proc[p].number] = file[proc[p].number]
<1>1. proc[p].number \in Numbers /\ file'[proc[p].number].by = p
  BY CoversType DEF OwnedInv, SameName
<1>2. \/ UNCHANGED file
      \/ file' = [file EXCEPT ![Name(t)] = Report(t)]
      \/ file' = [file EXCEPT ![Name(t)] = [by |-> ProcOf[t], lines |-> <<>>, whole |-> FALSE]]
  BY DEF Publish, Fails, Links, Taken, Renames, Refused, Truncate, Fill
<1>3. Report(t).by = ProcOf[t]
  BY DEF Report
<1>4. CASE proc[p].number = Name(t)
  BY <1>1, <1>2, <1>3, <1>4 DEF TypeOK
<1>5. CASE proc[p].number # Name(t)
  BY <1>1, <1>2, <1>5 DEF TypeOK
<1> QED
  BY <1>4, <1>5

\* What QuietInv says of one process.
Fine(p) == FileOf(p) /\ \A u \in Threads : ProcOf[u] = p => LinesOf(u)

LEMMA LinesGrown ==
  ASSUME TypeOK, NEW u \in Threads, LinesOf(u), LinesGrow(u)
  PROVE  LinesOf(u)'
<1>1. PICK r \in Rules :
        mem'[u].lines = Append(mem[u].lines, [rule |-> r, hits |-> My(u).count[r]])
  BY DEF LinesGrow
<1> SUFFICES ASSUME Settled(ProcOf[u])' PROVE Covers(mem'[u].lines, proc'[ProcOf[u]].count)
  BY DEF LinesOf, My
<1>2. Covers(mem[u].lines, My(u).count)
  BY DEF LinesGrow, LinesOf, Settled, Counting, Filling
<1>3. mem[u].lines \in Seq(Line) /\ My(u).count \in [Rules -> Nat]
  BY CoversType DEF My
<1>4. Covers(mem'[u].lines, My(u).count)
  BY <1>1, <1>2, <1>3, CoversAppend
<1> QED
  BY <1>4 DEF LinesGrow, My

LEMMA Calm ==
  ASSUME TypeOK, TypeOK', [Next]_vars, NEW p \in Procs, Fine(p), Comes(p), Rests(p),
         proc[p].owned => file'[proc[p].number] = file[proc[p].number]
  PROVE  Fine(p)'
<1>1. FileOf(p)'
  BY FileFrame DEF Fine
<1>2. ASSUME NEW u \in Threads, ProcOf[u] = p PROVE LinesOf(u)'
  <2>1. LinesOf(u)
    BY <1>2 DEF Fine
  <2>2. CASE LinesStay(u)
    BY <1>2, <2>1, <2>2, LinesFrame DEF Rests
  <2>3. CASE LinesGrow(u)
    BY <2>1, <2>3, LinesGrown
  <2> QED
    BY <2>2, <2>3, LinesStep
<1> QED
  BY <1>1, <1>2 DEF Fine

LEMMA SameRests ==
  ASSUME TypeOK, NEW p \in Procs, proc'[p] = proc[p]
  PROVE  Rests(p)
<1>1. proc[p].count \in [Rules -> Nat]
  BY CoversType
<1> QED
  BY <1>1 DEF Rests, SameName

LEMMA SameComes ==
  ASSUME UNCHANGED pc, NEW p \in Procs
  PROVE  Comes(p)
  BY DEF Comes, Counting, Composing

\* With a hit on its way or pending, nothing is promised.
LEMMA Unsettled ==
  ASSUME NEW p \in Procs, ~Settled(p)'
  PROVE  Fine(p)'
  BY DEF Fine, FileOf, LinesOf

\* Only the writer of a process composes.
LEMMA OneComposes ==
  ASSUME WriterInv, NEW t \in Threads, pc[t] \in WriterLabels
  PROVE  \A u \in Threads : ProcOf[u] = ProcOf[t] /\ pc[u] \in Filling => u = t
  BY DEF WriterInv, WriterLabels, Filling

\* The writer hands over a whole report: the file covers what its lines did.
LEMMA Reported ==
  ASSUME TypeOK, TypeOK', WriterInv, NEW t \in Threads, Fine(ProcOf[t]),
         Written(t, FALSE), Goto(t, "test"), pc[t] \in {"publish", "fill"},
         file' = [file EXCEPT ![Name(t)] = Report(t)]
  PROVE  Fine(ProcOf[t])'
<1> DEFINE p == ProcOf[t]
<1>1. Changes(p, {"owned", "failed"}) /\ proc'[p].owned /\ p \in Procs
  BY WrittenChanges, MyType
<1>2. /\ proc'[p].pending = proc[p].pending /\ proc'[p].number = Name(t)
      /\ proc'[p].count = proc[p].count
  BY <1>1 DEF Changes, Fields, Name, My
<1>3. \A u \in Threads : pc'[u] = IF u = t THEN "test" ELSE pc[u]
  BY DEF Goto, TypeOK
<1>4. Counting(p) => Counting(p)'
  BY <1>3 DEF Counting
<1>5. file'[Name(t)].lines = mem[t].lines
  BY MyType DEF TypeOK, Report
<1>6. Settled(p)' => Covers(mem[t].lines, proc[p].count)
  BY <1>2, <1>4 DEF Fine, LinesOf, Settled, Filling, My
<1>7. FileOf(p)'
  BY <1>1, <1>2, <1>5, <1>6 DEF FileOf
<1>8. \A u \in Threads : ProcOf[u] = p => pc'[u] \notin Filling
  BY <1>3, OneComposes DEF WriterLabels, Filling
<1> QED
  BY <1>7, <1>8 DEF Fine, LinesOf

LEMMA QuietNoWrite ==
  ASSUME TypeOK, TypeOK', WriterInv, [Next]_vars, NoWrite, NEW p \in Procs, Fine(p)
  PROVE  Fine(p)'
<1> USE DEF Labels, Filling
<1>1. UNCHANGED file
  BY NoWriteFrame
<1>2. ASSUME NEW t \in Threads, Hit(t) PROVE Fine(p)'
  <2>1. Goto(t, "count") /\ Changes(ProcOf[t], {"count", "taken"})
    BY <1>2, HitChanges DEF Hit
  <2>2. CASE p = ProcOf[t]
    <3>1. pc'[t] = "count"
      BY <2>1 DEF Goto, TypeOK
    <3> QED
      BY <2>2, <3>1, Unsettled DEF Settled, Counting
  <2>3. CASE p # ProcOf[t]
    <3>1. Comes(p) /\ proc'[p] = proc[p]
      BY <2>1, <2>3, GotoComes DEF Changes
    <3> QED
      BY <1>1, <3>1, SameRests, Calm
  <2> QED
    BY <2>2, <2>3
<1>3. ASSUME NEW t \in Threads, Check(t) \/ Exit(t) \/ Retest(t) \/ Sample(t) PROVE Fine(p)'
  <2>1. Comes(p)
    BY <1>3, GotoComes DEF Check, Exit, Retest, Sample, Away
  <2>2. Rests(p)
    BY <1>3, IdleChanges, SameRests
  <2> QED
    BY <1>1, <2>1, <2>2, Calm
<1>4. ASSUME NEW t \in Threads, Count(t) PROVE Fine(p)'
  <2>1. /\ Changes(ProcOf[t], {"total", "pending", "due"}) /\ proc'[ProcOf[t]].pending
        /\ Goto(t, "claim") \/ Goto(t, "idle")
    BY <1>4, CountChanges DEF Count
  <2>2. CASE p = ProcOf[t]
    BY <2>1, <2>2, Unsettled DEF Settled
  <2>3. CASE p # ProcOf[t]
    <3>1. Comes(p) /\ proc'[p] = proc[p]
      BY <2>1, <2>3, GotoComes DEF Changes
    <3> QED
      BY <1>1, <3>1, SameRests, Calm
  <2> QED
    BY <2>2, <2>3
<1>5. ASSUME NEW t \in Threads, Claim(t) \/ Release(t) PROVE Fine(p)'
  <2>1. Comes(p)
    BY <1>5, GotoComes DEF Claim, Release, Away
  <2>2. Rests(p)
    BY <1>5, ClaimChanges, ReleaseChanges, RestsFrame, MyType DEF Fields
  <2> QED
    BY <1>1, <2>1, <2>2, Calm
<1>6. ASSUME NEW t \in Threads, Test(t) PROVE Fine(p)'
  <2>1. pc[t] = "test" /\ Changes(ProcOf[t], {"pending", "due"})
    BY <1>6, TestChanges DEF Test
  <2>2. CASE ~My(t).pending
    <3>1. Goto(t, "release") /\ UNCHANGED proc
      BY <1>6, <2>2 DEF Test
    <3>2. Comes(p) /\ Rests(p)
      BY <2>1, <3>1, GotoComes, SameRests
    <3> QED
      BY <1>1, <3>2, Calm
  <2>3. CASE My(t).pending
    <3>1. /\ Goto(t, "format")
          /\ Keep(t, [mem[t] EXCEPT !.lines = <<>>, !.tries = 0,
                                    !.size = Len(copies[ProcOf[t]][mem[t].from + 1])])
      BY <1>6, <2>3 DEF Test
    <3>2. CASE p # ProcOf[t]
      <4>1. Comes(p) /\ proc'[p] = proc[p]
        BY <2>1, <3>1, <3>2, GotoComes DEF Changes
      <4> QED
        BY <1>1, <4>1, SameRests, Calm
    <3>3. CASE p = ProcOf[t]
      <4>1. \A u \in Threads : pc'[u] = IF u = t THEN "format" ELSE pc[u]
        BY <3>1 DEF Goto, TypeOK
      <4>2. mem'[t].lines = <<>>
        BY <3>1, MyType DEF Keep, TypeOK, MemType
      <4>3. FileOf(p)'
        BY <3>3, <4>1 DEF FileOf, Composing
      <4>4. LinesOf(t)'
        BY <4>2 DEF LinesOf, Covers
      <4>5. \A u \in Threads : ProcOf[u] = p /\ u # t => pc'[u] \notin Filling
        BY <2>1, <3>3, <4>1, OneComposes DEF WriterLabels
      <4> QED
        BY <4>3, <4>4, <4>5 DEF Fine, LinesOf
    <3> QED
      BY <3>2, <3>3
  <2> QED
    BY <2>2, <2>3
<1>7. ASSUME NEW t \in Threads, Format(t) PROVE Fine(p)'
  <2>1. pc[t] = "format" /\ (UNCHANGED pc \/ Goto(t, "publish"))
    BY <1>7 DEF Format
  <2>2. Comes(p)
    BY <2>1, GotoComes, SameComes
  <2>3. Rests(p)
    BY <1>7, IdleChanges, SameRests
  <2> QED
    BY <1>1, <2>2, <2>3, Calm
<1>8. ASSUME NEW t \in Threads, Fork(t) PROVE Fine(p)'
  <2>1. PICK child \in Procs :
          /\ ~proc[child].up /\ \A s \in Procs \ {child} : proc'[s] = proc[s]
          /\ \A f \in Fields \ {"active"} : proc'[child][f] = Fresh(child, TRUE)[f]
    BY <1>8, ForkChanges
  <2>2. UNCHANGED pc
    BY <1>8 DEF Fork
  <2>3. CASE p = child
    <3>1. proc'[p].total = 0
      BY <2>1, <2>3 DEF Fields, Fresh
    <3>2. \A u \in Threads : ProcOf[u] = p => pc'[u] \notin Filling
      BY <2>1, <2>2, <2>3 DEF WriterInv, WriterOf, My
    <3> QED
      BY <3>1, <3>2 DEF Fine, FileOf, LinesOf
  <2>4. CASE p # child
    BY <1>1, <2>1, <2>2, <2>4, SameRests, SameComes, Calm
  <2> QED
    BY <2>3, <2>4
<1>9. ASSUME NEW s \in Procs, VforkHit(s) PROVE Fine(p)'
  <2>1. UNCHANGED pc
    BY <1>9 DEF VforkHit
  <2>2. CASE p = s
    BY <1>9, <2>2, VforkHitChanges, Unsettled DEF Settled
  <2>3. CASE p # s
    <3>1. proc'[p] = proc[p]
      BY <1>9, <2>3, VforkHitChanges DEF Changes
    <3> QED
      BY <1>1, <2>1, <3>1, SameRests, SameComes, Calm
  <2> QED
    BY <2>2, <2>3
<1>10. ASSUME NEW s \in Procs, Reload(s) PROVE Fine(p)'
  <2>1. UNCHANGED pc
    BY <1>10 DEF Reload
  <2>2. Changes(s, {"active", "count"}) /\ \A r \in Rules : proc'[s].count[r] <= proc[s].count[r]
    BY <1>10, ReloadChanges
  <2>3. CASE p = s
    <3>1. Rests(p)
      BY <2>2, <2>3 DEF Rests, SameName, Changes, Fields
    <3> QED
      BY <1>1, <2>1, <3>1, SameComes, Calm
  <2>4. CASE p # s
    <3>1. proc'[p] = proc[p]
      BY <2>2, <2>4 DEF Changes
    <3> QED
      BY <1>1, <2>1, <3>1, SameRests, SameComes, Calm
  <2> QED
    BY <2>3, <2>4
<1>11. ASSUME NEW s \in Procs, Tick(s) PROVE Fine(p)'
  <2>1. UNCHANGED pc
    BY <1>11 DEF Tick
  <2>2. Rests(p)
    BY <1>11, TickChanges, RestsFrame DEF Fields
  <2> QED
    BY <1>1, <2>1, <2>2, SameComes, Calm
<1>12. CASE UNCHANGED vars
  BY <1>1, <1>12, SameRests, SameComes, Calm DEF vars
<1> QED
  BY <1>2, <1>3, <1>4, <1>5, <1>6, <1>7, <1>8, <1>9, <1>10, <1>11, <1>12 DEF NoWrite

LEMMA QuietWrite ==
  ASSUME TypeOK, TypeOK', WriterInv, OwnedInv, OwnedInv', Safe, Safe', [Next]_vars,
         NEW t \in Threads, Publish(t) \/ Truncate(t) \/ Fill(t), NEW p \in Procs, Fine(p)
  PROVE  Fine(p)'
<1> USE DEF Labels, Filling
<1>1. pc[t] \in {"publish", "truncate", "fill"} /\ ~Fails(t)
  BY DEF Publish, Truncate, Fill, Fails, Safe
<1>2. CASE p # ProcOf[t]
  <2>1. PICK to \in {"test", "publish", "truncate", "fill"} : Goto(t, to)
    <3>1. CASE Publish(t)
      <4>1. Links(t) \/ Taken(t) \/ Renames(t) \/ Refused(t)
        BY <1>1, <3>1 DEF Publish
      <4> QED
        BY <4>1, Zenon DEF Links, Taken, Renames, Refused
    <3>2. CASE Truncate(t) \/ Fill(t)
      BY <3>2, Zenon DEF Truncate, Fill
    <3> QED
      BY <3>1, <3>2
  <2>2. Comes(p)
    BY <1>2, <2>1, GotoComes
  <2>3. proc'[p] = proc[p]
    <3>1. \/ UNCHANGED proc
          \/ Written(t, FALSE)
          \/ Taken(t)
      <4>1. CASE Publish(t)
        <5>1. Links(t) \/ Taken(t) \/ Renames(t) \/ Refused(t)
          BY <1>1, <4>1 DEF Publish
        <5> QED
          BY <5>1, Zenon DEF Links, Renames, Refused
      <4>2. CASE Truncate(t) \/ Fill(t)
        BY <4>2, Zenon DEF Truncate, Fill
      <4> QED
        BY <4>1, <4>2
    <3>2. UNCHANGED proc \/ \E set : Changes(ProcOf[t], set)
      BY <3>1, WrittenChanges, TakenChanges
    <3> QED
      BY <1>2, <3>2 DEF Changes
  <2>4. Rests(p) /\ SameName(p)
    BY <2>3, SameRests DEF Rests
  <2>5. proc[p].owned => file'[proc[p].number] = file[proc[p].number]
    BY <1>2, <2>4, OthersKeepOut
  <2> QED
    BY <2>2, <2>4, <2>5, Calm
<1>3. CASE /\ p = ProcOf[t]
           /\ \/ pc[t] = "publish" /\ (Links(t) \/ Renames(t))
              \/ Fill(t)
  BY <1>3, Reported DEF Links, Renames, Fill
<1>4. CASE p = ProcOf[t] /\ pc[t] = "publish" /\ Taken(t)
  <2>1. /\ Changes(p, {"number", "failed"}) /\ proc'[p].failed = (mem[t].tries = 3)
        /\ mem[t].tries = 3 => Goto(t, "test")
        /\ mem[t].tries # 3 => Goto(t, "publish")
    BY <1>4, TakenChanges DEF Taken
  <2>2. /\ proc'[p].pending = proc[p].pending /\ proc'[p].count = proc[p].count
        /\ proc[p].count \in [Rules -> Nat]
    BY <2>1, CoversType DEF Changes, Fields
  <2>3. CASE mem[t].tries = 3
    <3>1. \A u \in Threads : pc'[u] = IF u = t THEN "test" ELSE pc[u]
      BY <2>1, <2>3 DEF Goto, TypeOK
    <3>2. \A u \in Threads : ProcOf[u] = p => pc'[u] \notin Filling
      BY <1>4, <3>1, OneComposes DEF WriterLabels
    <3> QED
      BY <2>1, <2>3, <3>2 DEF Fine, FileOf, LinesOf
  <2>4. CASE mem[t].tries # 3
    <3>1. Comes(p)
      BY <1>4, <2>1, <2>4, GotoComes
    <3>2. pc'[t] = "publish"
      BY <2>1, <2>4 DEF Goto, TypeOK
    <3>3. FileOf(p)'
      BY <1>4, <3>2 DEF FileOf, Composing
    <3>4. ASSUME NEW u \in Threads, ProcOf[u] = p PROVE LinesOf(u)'
      <4>1. LinesOf(u)
        BY <3>4 DEF Fine
      <4>2. CASE LinesStay(u)
        BY <2>2, <3>1, <3>4, <4>1, <4>2, LinesFrame
      <4>3. CASE LinesGrow(u)
        BY <4>1, <4>3, LinesGrown
      <4> QED
        BY <4>2, <4>3, LinesStep
    <3> QED
      BY <3>3, <3>4 DEF Fine
  <2> QED
    BY <2>3, <2>4
<1>5. CASE p = ProcOf[t] /\ (Refused(t) \/ Truncate(t))
  <2>1. UNCHANGED proc /\ (Goto(t, "truncate") \/ Goto(t, "fill"))
    BY <1>5 DEF Refused, Truncate
  <2>2. Comes(p) /\ Rests(p)
    BY <1>1, <2>1, GotoComes, SameRests
  <2>3. pc'[t] \in Filling
    BY <2>1 DEF Goto, TypeOK
  <2>4. FileOf(p)'
    BY <1>5, <2>3 DEF FileOf, Composing
  <2>5. ASSUME NEW u \in Threads, ProcOf[u] = p PROVE LinesOf(u)'
    <3>1. LinesOf(u)
      BY <2>5 DEF Fine
    <3>2. CASE LinesStay(u)
      BY <2>2, <2>5, <3>1, <3>2, LinesFrame DEF Rests
    <3>3. CASE LinesGrow(u)
      BY <3>1, <3>3, LinesGrown
    <3> QED
      BY <3>2, <3>3, LinesStep
  <2> QED
    BY <2>4, <2>5 DEF Fine
<1> QED
  BY <1>1, <1>2, <1>3, <1>4, <1>5 DEF Publish

LEMMA QuietEnd ==
  ASSUME TypeOK, TypeOK', OwnedInv, Safe, [Next]_vars, NEW s \in Procs, End(s),
         NEW p \in Procs, Fine(p)
  PROVE  Fine(p)'
<1>1. proc'[s] = Fresh(s, FALSE) /\ \A q \in Procs \ {s} : proc'[q] = proc[q]
  BY EndChanges
<1>2. \A u \in Threads : pc'[u] = IF ProcOf[u] = s THEN "ended" ELSE pc[u]
  BY DEF End, Ended
<1>3. CASE p = s
  <2>1. ~proc'[p].up
    BY <1>1, <1>3 DEF Fresh
  <2>2. \A u \in Threads : ProcOf[u] = p => pc'[u] \notin Filling
    BY <1>2, <1>3 DEF Filling
  <2> QED
    BY <2>1, <2>2 DEF Fine, FileOf, LinesOf
<1>4. CASE p # s
  <2>1. proc[p].owned => file'[proc[p].number] = file[proc[p].number]
    BY <1>4, CoversType DEF End, OwnedInv
  <2>2. Comes(p)
    BY <1>2, <1>4 DEF Comes, Counting, Composing
  <2> QED
    BY <1>1, <1>4, <2>1, <2>2, SameRests, Calm
<1> QED
  BY <1>3, <1>4

LEMMA QuietStep ==
  TypeOK /\ WriterInv /\ OwnedInv /\ QuietInv /\ [Next]_vars => QuietInv'
<1> SUFFICES ASSUME TypeOK, WriterInv, OwnedInv, QuietInv, [Next]_vars, Safe'
             PROVE  \A p \in Procs : Fine(p)'
  BY MyType DEF QuietInv, Fine
<1>1. TypeOK' /\ OwnedInv' /\ Safe
  BY TypeStep, OwnedStep, FaultsStay DEF Safe
<1>2. ASSUME NEW p \in Procs PROVE Fine(p)'
  <2>1. Fine(p)
    BY <1>1 DEF QuietInv, Fine
  <2> QED
    BY <1>1, <2>1, QuietNoWrite, QuietWrite, QuietEnd, NextCases
<1> QED
  BY <1>2

\* No hit is left unreported without someone to report it: while a due hit is
\* pending some thread will look at it again, and when nobody is in the
\* reporting code and nothing is pending, the file is the process's own and no
\* line of it is behind its counter (chaos_io_config.c:793).
THEOREM QuietIsReported == Spec => []QuietMeansReported
<1>1. Spec => []QuietInv
  BY QuietInit, QuietStep, OwnedHolds, WriterHolds, TypeCorrect, PTL DEF Spec
<1>2. WatchInv => DueIsWatched
  BY DEF WatchInv, WatchOf, DueIsWatched, Watching, WriterLabels
<1>3. QuietInv /\ OwnedInv /\ DueIsWatched => QuietMeansReported
  <2> SUFFICES ASSUME QuietInv, OwnedInv, Safe, NEW p \in Procs, Quiet(p)
               PROVE  /\ file[proc[p].number].by = p
                      /\ \A l \in Told(p) : l.hits >= proc[p].count[l.rule]
    BY DEF QuietMeansReported, Safe
  <2>1. FileOf(p)
    BY DEF QuietInv
  <2>2. Settled(p) /\ ~Composing(p)
    BY DEF Quiet, Settled, Counting, Composing, Filling
  <2>3. proc[p].owned /\ Covers(file[proc[p].number].lines, proc[p].count)
    BY <2>1, <2>2 DEF Quiet, FileOf
  <2> QED
    BY <2>3 DEF OwnedInv, Covers, Told
<1> QED
  BY <1>1, <1>2, <1>3, WatchHolds, OwnedHolds, PTL

=============================================================================
